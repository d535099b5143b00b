SPECIFICATION Spec
CONSTANTS
  Users = {u1, u2, u3}
  Orgs = {o1, o2, o3}
  Named = {o1}
  Invs = {i1, i2}
  Requests = {r1, r2}
  None = none
  MaxOwnedOrgs = 2
  MaxMembers = 3
SYMMETRY Symmetry
CHECK_DEADLOCK FALSE
INVARIANTS CreatorOwns NoOrphans AdmittedOnce OwnedByCreation
