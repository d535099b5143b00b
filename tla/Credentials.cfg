SPECIFICATION Spec
CONSTANTS
  o1 = o1
  o2 = o2
  u1 = u1
  p0 = p0
  k0 = k0
  Users = {u1, u2}
  Orgs = {o1, o2}
  Creator <- OneCreator
  FirstKeys <- OtherKey
  FirstProjects <- OtherProject
  FirstName = n1
  JoinRoles = {"MEMBER"}
  Expires = {TRUE}
  Projects = {p0, p1, p2}
  Names = {n1, n2}
  Keys = {k0, k1, k2}
  Codes = {c1}
  CliVerifiers = {v1}
  Verifiers = {v1, v2}
  Requests = {r1, r2}
  None = none
SYMMETRY Symmetry
CHECK_DEADLOCK FALSE
INVARIANTS MintedOnce LeaverGetsNoKey ScopedToTenant OneProjectPerName
PROPERTIES OnlyVerifiedBurns
