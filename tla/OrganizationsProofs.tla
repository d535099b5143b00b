------------------------- MODULE OrganizationsProofs -------------------------
(***************************************************************************)
(* For any number of users, organizations, invitations and concurrent      *)
(* requests: an organization keeps its creator as an OWNER, no membership  *)
(* or invitation outlives its organization, an invitation admits once, and *)
(* nobody creates more organizations than MAX_OWNED_ORGS.                  *)
(*                                                                         *)
(* None of the four is inductive: a request acts on what it read one step  *)
(* earlier.  RequestOK says what of it is still true when the request      *)
(* commits, whatever the others have committed since; Isolated is the lock *)
(* on the caller's users row; Rows ties the tables to each other and to    *)
(* the history of creations and admissions.                                *)
(***************************************************************************)
EXTENDS Organizations, FiniteSetTheorems, TLAPS

-----------------------------------------------------------------------------
(* The inductive invariant.                                                *)

Created(u) == {o \in orgs : creator[o] = u}

Answers == {"accept_invitation", "decline_invitation", "revoke_invitation"}

\* What a request in flight may rely on.
RequestOK(q) ==
  /\ q.pc = "idle" => q = Idle
  /\ q.pc # "idle" => q.user \in Users /\ q.op \in Ops
  /\ q.pc = "counted" => q.op = "create_invitation"
  /\ q.jit # None => creator[q.jit] = None /\ \A o \in orgs : creator[o] # q.user
  /\ q.op \in Ops \ {"create_organization"} => q.org \in Orgs /\ creator[q.org] # None
  /\ q.op \in {"update_member_role", "remove_member"} =>
       q.target \in Users /\ q.target # creator[q.org]
  /\ q.op \in {"update_member_role", "create_invitation"} => q.target \in Users /\ q.role \in Role
  /\ q.op = "delete_organization" =>
       \A i \in Invs : i \in q.seen => inv[i].status # "NEW" /\ inv[i].org = q.org
  /\ q.op \in Answers => q.inv \in Invs /\ inv[q.inv].status # "NEW" /\ inv[q.inv].org = q.org
  /\ q.op = "accept_invitation" => inv[q.inv].email = q.user /\ admitted[q.inv] = 0
  /\ q.op = "create_organization" =>
       Cardinality(Created(q.user)) + (IF q.jit = None THEN 0 ELSE 1) < MaxOwnedOrgs

\* The requests in flight are of different users and provision different organizations.
Isolated ==
  \A r, s \in Requests : r # s =>
    /\ req[r].user = req[s].user => req[r].user = None
    /\ req[r].jit = req[s].jit => req[r].jit = None

Rows ==
  /\ \A o \in orgs : creator[o] \in Users
  /\ \A o \in Orgs \ orgs : RowsOf(o) = {}
  /\ \A i \in Invs :
       /\ inv[i].status # "NEW" => creator[inv[i].org] # None
       /\ inv[i].status = "DELETED" => inv[i].org \notin orgs
       /\ inv[i].status \in {"NEW", "PENDING"} => admitted[i] = 0
       /\ admitted[i] <= 1

Inv ==
  /\ TypeOK
  /\ Rows /\ CreatorOwns /\ OwnedByCreation
  /\ Isolated /\ \A r \in Requests : RequestOK(req[r])

-----------------------------------------------------------------------------
(* Facts about the rows and the requests.                                  *)

LEMMA NoneDistinct ==
  /\ None \notin Users /\ None \notin Orgs /\ None \notin Invs
  /\ None \notin Role /\ None \notin Ops
BY OrganizationAssumption

LEMMA Distinct ==
  ASSUME NEW x
  PROVE  ~(x \in Users /\ x \in Invs)
BY OrganizationAssumption

\* What RowsOf(o) = {} says of each table.
LEMMA NoRows ==
  ASSUME NEW o
  PROVE  RowsOf(o) = {} <=>
           /\ \A u \in Users : member[o][u] = None
           /\ \A i \in Invs : inv[i].org = o => inv[i].status \in {"NEW", "DELETED"}
BY DEF RowsOf, MembersOf

LEMMA NoRowsPrimed ==
  ASSUME NEW o
  PROVE  RowsOf(o)' = {} <=>
           /\ \A u \in Users : member'[o][u] = None
           /\ \A i \in Invs : inv'[i].org = o => inv'[i].status \in {"NEW", "DELETED"}
BY DEF RowsOf, MembersOf

LEMMA IdleOK == Idle \in Request /\ Idle.pc = "idle" /\ Idle.user = None /\ Idle.jit = None
                /\ Idle.op = None
BY DEF Idle, Request

\* An idle request relies on nothing.
LEMMA IdleRequestOK == RequestOK(Idle) /\ RequestOK(Idle)'
BY IdleOK, NoneDistinct DEF RequestOK, Answers, Ops, Idle

LEMMA AddOne ==
  ASSUME NEW S, IsFiniteSet(S), NEW x
  PROVE  /\ IsFiniteSet(S \cup {x}) /\ Cardinality(S \cup {x}) \in Nat
         /\ Cardinality(S \cup {x}) <= Cardinality(S) + 1
<1>1. IsFiniteSet(S \cup {x}) /\ Cardinality(S) \in Nat
  BY FS_AddElement, FS_CardinalityType
<1>2. Cardinality(S \cup {x}) = IF x \in S THEN Cardinality(S) ELSE Cardinality(S) + 1
  BY FS_AddElement
<1> QED BY <1>1, <1>2

\* The sets of organizations are finite.
LEMMA CreatedFinite ==
  ASSUME NEW u, TypeOK
  PROVE  IsFiniteSet(Created(u)) /\ Cardinality(Created(u)) \in Nat
<1>1. Created(u) \in SUBSET Orgs
  BY DEF Created, TypeOK
<1> QED BY <1>1, OrganizationAssumption, FS_Subset, FS_CardinalityType

\* Others commit while a request is in flight.  u is the committing user and new what he
\* creates; rows of the table of invitations keep what identifies them.
Elsewhere(u, new) ==
  /\ new \subseteq Orgs /\ \A o \in new : creator[o] = None
  /\ creator' = [o \in Orgs |-> IF o \in new THEN u ELSE creator[o]]
  /\ orgs' \subseteq orgs \cup new
  /\ req' \in [Requests -> Request]
  /\ \A s \in Requests :
       \/ req'[s] = Idle
       \/ /\ req'[s] = req[s]
          /\ new = {} \/ req[s].user # u
          /\ req[s].jit \notin new
          /\ req[s].op = "accept_invitation" => admitted'[req[s].inv] = admitted[req[s].inv]
  /\ \A i \in Invs : inv[i].status # "NEW" =>
       inv'[i].status # "NEW" /\ inv'[i].org = inv[i].org /\ inv'[i].email = inv[i].email

LEMMA CreatedKept ==
  ASSUME Inv, NEW u, NEW new, Elsewhere(u, new), NEW v, new = {} \/ v # u, v # None
  PROVE  /\ Created(v)' \subseteq Created(v)
         /\ Cardinality(Created(v)') \in Nat
         /\ Cardinality(Created(v)') <= Cardinality(Created(v))
<1>1. Created(v)' \subseteq Created(v)
  BY DEF Created, Elsewhere, Inv, TypeOK
<1>2. IsFiniteSet(Created(v))
  BY CreatedFinite DEF Inv
<1>3. Created(v)' \in SUBSET Created(v)
  BY <1>1
<1> QED BY <1>2, <1>3, FS_Subset, FS_CardinalityType

\* What the requests in flight rely on survives.
LEMMA RequestsKept ==
  ASSUME Inv, NEW u, NEW new, Elsewhere(u, new)
  PROVE  Isolated' /\ \A s \in Requests : RequestOK(req[s])'
<1>1. Isolated'
  BY IdleOK DEF Inv, Isolated, Elsewhere
<1>2. ASSUME NEW s \in Requests PROVE RequestOK(req[s])'
  <2>1. CASE req'[s] = Idle
    BY <2>1, IdleRequestOK DEF RequestOK
  <2>2. CASE req'[s] = req[s] /\ req[s].pc # "idle" /\ req'[s] # Idle
    <3> PICK q \in Request : q = req[s]
      BY DEF Inv, TypeOK
    <3>0. /\ RequestOK(q) /\ q \in Request /\ q.user \in Users /\ q.user # None
          /\ new = {} \/ q.user # u
          /\ q.jit \notin new
          /\ q.op = "accept_invitation" => admitted'[q.inv] = admitted[q.inv]
      BY <2>2, NoneDistinct DEF Inv, TypeOK, Elsewhere, RequestOK
    <3>1. \A o \in Orgs : creator[o] # None => creator'[o] = creator[o]
      BY DEF Elsewhere
    <3>2. q.jit # None => creator'[q.jit] = None /\ \A o \in orgs' : creator'[o] # q.user
      <4> SUFFICES ASSUME q.jit # None
                   PROVE  creator'[q.jit] = None /\ \A o \in orgs' : creator'[o] # q.user
        OBVIOUS
      <4>1. q.jit \in Orgs /\ creator[q.jit] = None /\ \A o \in orgs : creator[o] # q.user
        BY <3>0 DEF RequestOK, Request
      <4> QED BY <3>0, <4>1 DEF Elsewhere, Inv, TypeOK
    <3>3. Cardinality(Created(q.user)') \in Nat
          /\ Cardinality(Created(q.user)') <= Cardinality(Created(q.user))
      BY <3>0, CreatedKept
    <3>4. Cardinality(Created(q.user)) \in Nat /\ MaxOwnedOrgs \in Nat
      BY CreatedFinite, OrganizationAssumption DEF Inv
    <3>5. q.op = "create_organization" =>
            Cardinality(Created(q.user)') + (IF q.jit = None THEN 0 ELSE 1) < MaxOwnedOrgs
      BY <3>0, <3>3, <3>4 DEF RequestOK
    <3>6. q.op = "delete_organization" =>
            \A i \in Invs : i \in q.seen => inv'[i].status # "NEW" /\ inv'[i].org = q.org
      BY <3>0 DEF RequestOK, Elsewhere
    <3>7. q.op \in Answers => q.inv \in Invs /\ inv'[q.inv].status # "NEW" /\ inv'[q.inv].org = q.org
      BY <3>0 DEF RequestOK, Elsewhere
    <3>8. q.op = "accept_invitation" => inv'[q.inv].email = q.user /\ admitted'[q.inv] = 0
      BY <3>0 DEF RequestOK, Elsewhere, Answers
    <3>9. /\ q.op \in Ops \ {"create_organization"} => q.org \in Orgs /\ creator'[q.org] # None
          /\ q.op \in {"update_member_role", "remove_member"} =>
               q.target \in Users /\ q.target # creator'[q.org]
      BY <3>0, <3>1 DEF RequestOK, Ops
    <3>10. RequestOK(q)'
      BY <2>2, <3>0, <3>2, <3>5, <3>6, <3>7, <3>8, <3>9 DEF RequestOK
    <3> QED BY <2>2, <3>10 DEF RequestOK, Created
  <2>3. CASE req'[s] = req[s] /\ req[s].pc = "idle"
    <3>1. req'[s] = Idle
      BY <2>3 DEF Inv, RequestOK
    <3> QED BY <3>1, IdleRequestOK DEF RequestOK
  <2> QED BY <2>1, <2>2, <2>3 DEF Elsewhere
<1> QED BY <1>1, <1>2

-----------------------------------------------------------------------------
(* The requests begin.                                                     *)

\* What the authentication of a caller establishes.
LEMMA CallerOK ==
  ASSUME Inv, NEW r \in Requests, NEW u \in Users, NEW j \in Callers(r, u)
  PROVE  /\ req[r].pc = "idle" /\ \A s \in Requests : req[s].user # u
         /\ j \in Orgs \cup {None}
         /\ j # None => /\ creator[j] = None /\ \A s \in Requests : req[s].jit # j
                        /\ \A o \in orgs : creator[o] # u
<1>1. req[r].pc = "idle" /\ LocksUser(u) /\ j \in JitOrg(u)
  BY DEF Callers
<1>2. CASE OrgsOf(u) = {}
  <2>1. j \in Unused
    BY <1>1, <1>2 DEF JitOrg
  <2>2. ASSUME NEW o \in orgs PROVE creator[o] # u
    BY <1>2, NoneDistinct DEF OrgsOf, Inv, Rows, CreatorOwns, TypeOK, Role
  <2> QED BY <1>1, <2>1, <2>2 DEF LocksUser, Unused
<1>3. CASE OrgsOf(u) # {}
  BY <1>1, <1>3 DEF JitOrg, LocksUser
<1> QED BY <1>2, <1>3

\* A request that has passed its checks relies on nothing but what they established.
LEMMA BeginOK ==
  ASSUME Inv, NEW r \in Requests, NEW u \in Users, NEW j \in Callers(r, u),
         NEW q \in Request, q.user = u, q.jit = j, RequestOK(q), Begin(r, q)
  PROVE  Inv'
<1>1. TypeOK'
  BY DEF Inv, TypeOK, Begin
<1>2. Rows' /\ CreatorOwns' /\ OwnedByCreation'
  <2>1. /\ UNCHANGED <<users, orgs, creator, member, inv, admitted>>
        /\ Rows /\ CreatorOwns /\ OwnedByCreation
    BY DEF Inv, Begin
  <2> QED BY <2>1 DEF Rows, CreatorOwns, OwnedByCreation, RowsOf, MembersOf
<1>3. Isolated'
  BY CallerOK DEF Begin, Inv, TypeOK, Isolated
<1>4. ASSUME NEW s \in Requests PROVE RequestOK(req[s])'
  <2>1. PICK p : p = req'[s]
    OBVIOUS
  <2>2. RequestOK(p)
    BY <2>1 DEF Begin, Inv, TypeOK
  <2>3. Created(p.user)' = Created(p.user)
    BY DEF Created, Begin
  <2>4. RequestOK(p)'
    BY <2>2, <2>3 DEF RequestOK, Begin
  <2> QED BY <2>1, <2>4 DEF RequestOK, Created
<1> QED BY <1>1, <1>2, <1>3, <1>4 DEF Inv

LEMMA CreateOrganizationOK ==
  ASSUME Inv, NEW r \in Requests, NEW u \in Users, CreateOrganization(r, u)
  PROVE  Inv'
<1>1. PICK q \in As(r, u, [Call EXCEPT !.op = "create_organization"]) : MayOwnMore(q) /\ Begin(r, q)
  BY DEF CreateOrganization
<1>2. PICK j \in Callers(r, u) : q = [[Call EXCEPT !.op = "create_organization"] EXCEPT !.user = u, !.jit = j]
  BY <1>1 DEF As
<1>3. j \in Orgs \cup {None} /\ (j # None => creator[j] = None /\ \A o \in orgs : creator[o] # u)
  BY CallerOK
<1>4. q = [Idle EXCEPT !.pc = "ready", !.op = "create_organization", !.user = u, !.jit = j]
  BY <1>2 DEF Call, Idle
<1>5. q \in Request /\ q.user = u /\ q.jit = j /\ q.pc = "ready" /\ q.op = "create_organization"
  BY <1>3, <1>4 DEF Idle, Request, Ops
<1>6. Cardinality(Created(u)) + (IF j = None THEN 0 ELSE 1) < MaxOwnedOrgs
  <2>1. Created(u) \subseteq OwnedBy(u)
    BY DEF Created, OwnedBy, Inv, CreatorOwns, TypeOK
  <2>2. IsFiniteSet(OwnedBy(u))
    BY OrganizationAssumption, FS_Subset DEF OwnedBy
  <2>3. Cardinality(Created(u)) <= Cardinality(OwnedBy(u)) /\ Cardinality(OwnedBy(u)) \in Nat
        /\ Cardinality(Created(u)) \in Nat
    BY <2>1, <2>2, FS_Subset, FS_CardinalityType, CreatedFinite DEF Inv
  <2>4. Cardinality(OwnedBy(u)) + (IF j = None THEN 0 ELSE 1) < MaxOwnedOrgs
    BY <1>1, <1>5 DEF MayOwnMore
  <2> QED BY <2>3, <2>4, OrganizationAssumption
<1>7. RequestOK(q)
  BY <1>3, <1>5, <1>6 DEF RequestOK, Answers, Ops
<1> QED BY <1>1, <1>5, <1>7, BeginOK

LEMMA DeleteOrganizationOK ==
  ASSUME Inv, NEW r \in Requests, NEW u \in Users, DeleteOrganization(r, u)
  PROVE  Inv'
<1>1. PICK o \in orgs \cap Named :
        \E q \in As(r, u, [Call EXCEPT !.op = "delete_organization", !.org = o, !.seen = RowsOf(o)]) :
          RequireOwner(q) /\ Begin(r, q)
  BY DEF DeleteOrganization
<1>2. PICK j, q :
        /\ j \in Callers(r, u)
        /\ q = [[Call EXCEPT !.op = "delete_organization", !.org = o, !.seen = RowsOf(o)]
                 EXCEPT !.user = u, !.jit = j]
        /\ Begin(r, q)
  BY <1>1 DEF As
<1>3. j \in Orgs \cup {None} /\ (j # None => creator[j] = None /\ \A x \in orgs : creator[x] # u)
  BY <1>2, CallerOK
<1>4. o \in Orgs /\ creator[o] # None
  BY NoneDistinct DEF Inv, TypeOK, Rows
<1>5. RowsOf(o) \subseteq Users \cup Invs
  BY DEF RowsOf, MembersOf
<1>6. \A i \in Invs : i \in RowsOf(o) => inv[i].status # "NEW" /\ inv[i].org = o
  BY Distinct DEF RowsOf, MembersOf
<1>7. q \in Request /\ q.user = u /\ q.jit = j /\ q.pc = "ready" /\ q.op = "delete_organization"
      /\ q.org = o /\ q.seen = RowsOf(o)
  BY <1>2, <1>3, <1>4, <1>5 DEF Call, Idle, Request, Ops
<1>8. RequestOK(q)
  BY <1>3, <1>4, <1>6, <1>7 DEF RequestOK, Answers, Ops
<1> QED BY <1>2, <1>7, <1>8, BeginOK

\* The creator's role reads OWNER: he is not the target.
LEMMA UpdateMemberRoleOK ==
  ASSUME Inv, NEW r \in Requests, NEW u \in Users, UpdateMemberRole(r, u)
  PROVE  Inv'
<1>1. PICK o \in orgs \cap Named, t \in Users, x \in Role :
        \E q \in As(r, u, [Call EXCEPT !.op = "update_member_role", !.org = o, !.target = t, !.role = x]) :
          MayChangeRole(q) /\ Begin(r, q)
  BY DEF UpdateMemberRole
<1>2. PICK j, q :
        /\ j \in Callers(r, u)
        /\ q = [[Call EXCEPT !.op = "update_member_role", !.org = o, !.target = t, !.role = x]
                 EXCEPT !.user = u, !.jit = j]
        /\ MayChangeRole(q) /\ Begin(r, q)
  BY <1>1 DEF As
<1>3. j \in Orgs \cup {None} /\ (j # None => creator[j] = None /\ \A y \in orgs : creator[y] # u)
  BY <1>2, CallerOK
<1>4. o \in Orgs /\ creator[o] # None /\ member[o][creator[o]] = "OWNER"
  BY NoneDistinct DEF Inv, TypeOK, Rows, CreatorOwns
<1>5. q \in Request /\ q.user = u /\ q.jit = j /\ q.pc = "ready" /\ q.op = "update_member_role"
      /\ q.org = o /\ q.target = t /\ q.role = x
  BY <1>2, <1>3, <1>4 DEF Call, Idle, Request, Ops
<1>6. t # creator[o]
  BY <1>2, <1>4, <1>5 DEF MayChangeRole
<1>7. RequestOK(q)
  BY <1>3, <1>4, <1>5, <1>6 DEF RequestOK, Answers, Ops
<1> QED BY <1>2, <1>5, <1>7, BeginOK

LEMMA RemoveMemberOK ==
  ASSUME Inv, NEW r \in Requests, NEW u \in Users, RemoveMember(r, u)
  PROVE  Inv'
<1>1. PICK o \in orgs \cap Named, t \in Users :
        \E q \in As(r, u, [Call EXCEPT !.op = "remove_member", !.org = o, !.target = t]) :
          MayRemove(q) /\ Begin(r, q)
  BY DEF RemoveMember
<1>2. PICK j, q :
        /\ j \in Callers(r, u)
        /\ q = [[Call EXCEPT !.op = "remove_member", !.org = o, !.target = t]
                 EXCEPT !.user = u, !.jit = j]
        /\ MayRemove(q) /\ Begin(r, q)
  BY <1>1 DEF As
<1>3. j \in Orgs \cup {None} /\ (j # None => creator[j] = None /\ \A y \in orgs : creator[y] # u)
  BY <1>2, CallerOK
<1>4. o \in Orgs /\ creator[o] # None /\ member[o][creator[o]] = "OWNER"
  BY NoneDistinct DEF Inv, TypeOK, Rows, CreatorOwns
<1>5. q \in Request /\ q.user = u /\ q.jit = j /\ q.pc = "ready" /\ q.op = "remove_member"
      /\ q.org = o /\ q.target = t
  BY <1>2, <1>3, <1>4 DEF Call, Idle, Request, Ops
<1>6. t # creator[o]
  BY <1>2, <1>4, <1>5 DEF MayRemove
<1>7. RequestOK(q)
  BY <1>3, <1>4, <1>5, <1>6 DEF RequestOK, Answers, Ops
<1> QED BY <1>2, <1>5, <1>7, BeginOK

LEMMA CreateInvitationOK ==
  ASSUME Inv, NEW r \in Requests, NEW u \in Users, CreateInvitation(r, u)
  PROVE  Inv'
<1>1. PICK o \in orgs \cap Named, t \in Users, x \in Role :
        \E q \in As(r, u, [Call EXCEPT !.pc = "counted", !.op = "create_invitation", !.org = o,
                               !.target = t, !.role = x, !.count = Cardinality(MembersOf(o))]) :
          MayInvite(q) /\ Begin(r, q)
  BY DEF CreateInvitation
<1>2. PICK j, q :
        /\ j \in Callers(r, u)
        /\ q = [[Call EXCEPT !.pc = "counted", !.op = "create_invitation", !.org = o,
                             !.target = t, !.role = x, !.count = Cardinality(MembersOf(o))]
                 EXCEPT !.user = u, !.jit = j]
        /\ Begin(r, q)
  BY <1>1 DEF As
<1>3. j \in Orgs \cup {None} /\ (j # None => creator[j] = None /\ \A y \in orgs : creator[y] # u)
  BY <1>2, CallerOK
<1>4. o \in Orgs /\ creator[o] # None
  BY NoneDistinct DEF Inv, TypeOK, Rows
<1>5. Cardinality(MembersOf(o)) \in Nat
  BY OrganizationAssumption, FS_Subset, FS_CardinalityType DEF MembersOf
<1>6. q \in Request /\ q.user = u /\ q.jit = j /\ q.pc = "counted" /\ q.op = "create_invitation"
      /\ q.org = o /\ q.target = t /\ q.role = x
  BY <1>2, <1>3, <1>4, <1>5 DEF Call, Idle, Request, Ops
<1>7. RequestOK(q)
  BY <1>3, <1>4, <1>6 DEF RequestOK, Answers, Ops
<1> QED BY <1>2, <1>6, <1>7, BeginOK

\* A pending invitation belongs to an organization that exists and has admitted nobody.
LEMMA PendingOK ==
  ASSUME Inv, NEW i \in Invs, inv[i].status = "PENDING"
  PROVE  inv[i].org \in orgs /\ inv[i].org \in Orgs /\ creator[inv[i].org] # None /\ admitted[i] = 0
<1>1. inv[i].org \in Orgs /\ creator[inv[i].org] # None /\ admitted[i] = 0
  BY DEF Inv, TypeOK, Invitation, Rows
<1>2. inv[i].org \in orgs
  BY <1>1, NoRows DEF Inv, Rows
<1> QED BY <1>1, <1>2

LEMMA AnswerOK ==
  ASSUME Inv, NEW r \in Requests, NEW u \in Users, NEW i \in Invs, NEW op \in Answers,
         NEW q \in As(r, u, [Call EXCEPT !.op = op, !.org = inv[i].org, !.inv = i]),
         inv[i].status = "PENDING",
         op = "accept_invitation" => inv[i].email = q.user,
         Begin(r, q)
  PROVE  Inv'
<1>1. PICK j \in Callers(r, u) :
        q = [[Call EXCEPT !.op = op, !.org = inv[i].org, !.inv = i] EXCEPT !.user = u, !.jit = j]
  BY DEF As
<1>2. j \in Orgs \cup {None} /\ (j # None => creator[j] = None /\ \A y \in orgs : creator[y] # u)
  BY CallerOK
<1>3. inv[i].org \in Orgs /\ creator[inv[i].org] # None /\ admitted[i] = 0
  BY PendingOK
<1>4. q \in Request /\ q.user = u /\ q.jit = j /\ q.pc = "ready" /\ q.op = op
      /\ q.org = inv[i].org /\ q.inv = i
  BY <1>1, <1>2, <1>3 DEF Call, Idle, Request, Ops, Answers
<1>5. RequestOK(q)
  BY <1>2, <1>3, <1>4 DEF RequestOK, Answers, Ops
<1> QED BY <1>4, <1>5, BeginOK

LEMMA AcceptInvitationOK ==
  ASSUME Inv, NEW r \in Requests, NEW u \in Users, AcceptInvitation(r, u)
  PROVE  Inv'
<1>1. PICK i \in Invs :
        \E q \in As(r, u, [Call EXCEPT !.op = "accept_invitation", !.org = inv[i].org, !.inv = i]) :
          Acceptable(q) /\ Begin(r, q)
  BY DEF AcceptInvitation
<1>2. PICK q \in As(r, u, [Call EXCEPT !.op = "accept_invitation", !.org = inv[i].org, !.inv = i]) :
        Acceptable(q) /\ Begin(r, q)
  BY <1>1
<1>3. q.inv = i
  BY DEF As, Call, Idle
<1> QED BY <1>2, <1>3, AnswerOK DEF Acceptable, Answerable, Live, Answers

LEMMA DeclineInvitationOK ==
  ASSUME Inv, NEW r \in Requests, NEW u \in Users, DeclineInvitation(r, u)
  PROVE  Inv'
<1>1. PICK i \in Invs :
        \E q \in As(r, u, [Call EXCEPT !.op = "decline_invitation", !.org = inv[i].org, !.inv = i]) :
          Answerable(q) /\ Begin(r, q)
  BY DEF DeclineInvitation
<1>2. PICK q \in As(r, u, [Call EXCEPT !.op = "decline_invitation", !.org = inv[i].org, !.inv = i]) :
        Answerable(q) /\ Begin(r, q)
  BY <1>1
<1>3. q.inv = i
  BY DEF As, Call, Idle
<1> QED BY <1>2, <1>3, AnswerOK DEF Answerable, Live, Answers

LEMMA RevokeInvitationOK ==
  ASSUME Inv, NEW r \in Requests, NEW u \in Users, RevokeInvitation(r, u)
  PROVE  Inv'
<1>1. PICK i \in Invs :
        \E q \in As(r, u, [Call EXCEPT !.op = "revoke_invitation", !.org = inv[i].org, !.inv = i]) :
          Revocable(q) /\ Begin(r, q)
  BY DEF RevokeInvitation
<1>2. PICK q \in As(r, u, [Call EXCEPT !.op = "revoke_invitation", !.org = inv[i].org, !.inv = i]) :
        Revocable(q) /\ Begin(r, q)
  BY <1>1
<1>3. q.inv = i
  BY DEF As, Call, Idle
<1> QED BY <1>2, <1>3, AnswerOK DEF Revocable, Answers

-----------------------------------------------------------------------------
(* The requests commit.                                                    *)

\* The organizations a request creates are new, and its caller's alone.
LEMMA CommitElsewhere ==
  ASSUME Inv, NEW r \in Requests, req[r].pc # "idle",
         NEW new, new \subseteq Unused \cup Jit(r), Commit(r, new), orgs' \subseteq orgs \cup new,
         \A i \in Invs : inv[i].status # "NEW" =>
           inv'[i].status # "NEW" /\ inv'[i].org = inv[i].org /\ inv'[i].email = inv[i].email,
         \A s \in Requests \ {r} : req[s].op = "accept_invitation" =>
           admitted'[req[s].inv] = admitted[req[s].inv]
  PROVE  Elsewhere(req[r].user, new)
<1>1. new \subseteq Orgs /\ \A o \in new : creator[o] = None
  BY DEF Unused, Jit, Inv, TypeOK, Request, RequestOK
<1>2. creator' = [o \in Orgs |-> IF o \in new THEN req[r].user ELSE creator[o]]
      /\ req' = [req EXCEPT ![r] = Idle]
  BY DEF Commit
<1>3. req' \in [Requests -> Request]
  BY <1>2, IdleOK DEF Inv, TypeOK
<1>4. ASSUME NEW s \in Requests
      PROVE  \/ req'[s] = Idle
             \/ /\ req'[s] = req[s]
                /\ new = {} \/ req[s].user # req[r].user
                /\ req[s].jit \notin new
                /\ req[s].op = "accept_invitation" => admitted'[req[s].inv] = admitted[req[s].inv]
  <2>1. CASE s = r
    BY <2>1, <1>2 DEF Inv, TypeOK
  <2>2. CASE s # r
    <3>1. req'[s] = req[s]
      BY <2>2, <1>2 DEF Inv, TypeOK
    <3>2. req[s].user # req[r].user
      BY <2>2, NoneDistinct DEF Inv, Isolated, RequestOK
    <3>3. req[s].jit \notin new
      BY <2>2 DEF Inv, Isolated, Unused, Jit
    <3> QED BY <2>2, <3>1, <3>2, <3>3
  <2> QED BY <2>1, <2>2
<1> QED BY <1>1, <1>2, <1>3, <1>4 DEF Elsewhere

\* The bound on creations holds when it holds for the committing user.
LEMMA OwnedKept ==
  ASSUME Inv, NEW u \in Users, NEW new, Elsewhere(u, new),
         Cardinality(Created(u) \cup new) <= MaxOwnedOrgs
  PROVE  OwnedByCreation'
<1> SUFFICES ASSUME NEW v \in Users PROVE Cardinality(Created(v)') <= MaxOwnedOrgs
  BY DEF OwnedByCreation, Created
<1>0. MaxOwnedOrgs \in Nat /\ Cardinality(Created(v)) <= MaxOwnedOrgs /\ Cardinality(Created(v)) \in Nat
  BY OrganizationAssumption, CreatedFinite DEF Inv, OwnedByCreation, Created
<1>1. CASE v # u
  <2>1. Cardinality(Created(v)') \in Nat /\ Cardinality(Created(v)') <= Cardinality(Created(v))
    BY <1>1, NoneDistinct, CreatedKept
  <2> QED BY <1>0, <2>1
<1>2. CASE v = u
  <2>1. Created(v)' \subseteq Created(u) \cup new
    BY <1>2 DEF Created, Elsewhere, Inv, TypeOK
  <2>2. Created(u) \cup new \subseteq Orgs
    BY DEF Created, Elsewhere, Inv, TypeOK
  <2>3. IsFiniteSet(Created(u) \cup new)
    BY <2>2, OrganizationAssumption, FS_Subset
  <2>4. Cardinality(Created(v)') <= Cardinality(Created(u) \cup new) /\ Cardinality(Created(v)') \in Nat
        /\ Cardinality(Created(u) \cup new) \in Nat
    BY <2>1, <2>3, FS_Subset, FS_CardinalityType
  <2> QED BY <2>4, <1>0
<1> QED BY <1>1, <1>2

\* An organization is provisioned only for who has created none.
LEMMA JitBound ==
  ASSUME Inv, NEW u \in Users, NEW j \in Orgs \cup {None},
         j # None => \A o \in orgs : creator[o] # u
  PROVE  Cardinality(Created(u) \cup ({j} \ {None})) <= MaxOwnedOrgs
<1>1. CASE j = None
  <2>1. Created(u) \cup ({j} \ {None}) = Created(u)
    BY <1>1
  <2> QED BY <2>1 DEF Inv, OwnedByCreation, Created
<1>2. CASE j # None
  <2>1. Created(u) \cup ({j} \ {None}) = {j}
    BY <1>2 DEF Created
  <2>2. Cardinality({j}) = 1
    BY FS_Singleton
  <2> QED BY <2>1, <2>2, OrganizationAssumption
<1> QED BY <1>1, <1>2

\* The organizations of a request that creates none but the provisioned one.
LEMMA JitOK ==
  ASSUME Inv, NEW r \in Requests, req[r].pc # "idle"
  PROVE  /\ Cardinality(Created(req[r].user) \cup Jit(r)) <= MaxOwnedOrgs
         /\ Jit(r) \subseteq Orgs /\ \A o \in Jit(r) : creator[o] = None /\ o \notin orgs
         /\ req[r].user \in Users
<1>1. req[r] \in Request /\ RequestOK(req[r])
  BY DEF Inv, TypeOK
<1>2. req[r].user \in Users /\ req[r].jit \in Orgs \cup {None}
      /\ (req[r].jit # None => creator[req[r].jit] = None /\ \A o \in orgs : creator[o] # req[r].user)
  BY <1>1 DEF RequestOK, Request
<1>3. Cardinality(Created(req[r].user) \cup Jit(r)) <= MaxOwnedOrgs
  BY <1>2, JitBound DEF Jit
<1>4. \A o \in Jit(r) : o \in Orgs /\ creator[o] = None /\ o \notin orgs
  BY <1>2, NoneDistinct DEF Jit, Inv, Rows
<1> QED BY <1>2, <1>3, <1>4

\* The memberships of the organizations that are new and of those that are not.
LEMMA ProvisionedIs ==
  ASSUME NEW q, NEW new
  PROVE  /\ Provisioned(q, new) = [o \in Orgs |-> Provisioned(q, new)[o]]
         /\ \A o \in Orgs : o \notin new => Provisioned(q, new)[o] = member[o]
         /\ \A o \in Orgs : o \in new =>
              \A u \in Users : Provisioned(q, new)[o][u] = IF u = q.user THEN "OWNER" ELSE None
BY DEF Provisioned

LEMMA ProvisionedType ==
  ASSUME Inv, NEW q, NEW new
  PROVE  Provisioned(q, new) \in [Orgs -> [Users -> Role \cup {None}]]
BY DEF Provisioned, Inv, TypeOK, Role

\* When nothing is written but the caller's row and new organizations.
LEMMA ProvisionOK ==
  ASSUME Inv, NEW u \in Users, NEW new, Elsewhere(u, new), NEW q, q.user = u,
         users' = users \cup {u}, orgs' = orgs \cup new,
         member' = Provisioned(q, new), UNCHANGED <<inv, admitted>>,
         Cardinality(Created(u) \cup new) <= MaxOwnedOrgs
  PROVE  Inv'
<1>1. Isolated' /\ \A s \in Requests : RequestOK(req[s])'
  BY RequestsKept
<1>2. OwnedByCreation'
  BY OwnedKept
<1>3. TypeOK'
  BY ProvisionedType DEF Inv, TypeOK, Elsewhere
<1>4. \A o \in new : o \in Orgs /\ o \notin orgs
  BY NoneDistinct DEF Elsewhere, Inv, Rows
<1>5. ASSUME NEW o \in orgs' PROVE member'[o][creator'[o]] = "OWNER"
  <2>1. CASE o \in new
    BY <2>1, <1>4, ProvisionedIs DEF Elsewhere
  <2>2. CASE o \notin new
    <3>1. o \in orgs /\ o \in Orgs /\ member'[o] = member[o] /\ creator'[o] = creator[o]
      BY <2>2, ProvisionedIs DEF Elsewhere, Inv, TypeOK
    <3> QED BY <3>1 DEF Inv, CreatorOwns
  <2> QED BY <2>1, <2>2
<1>6. Rows'
  <2>1. \A o \in orgs' : creator'[o] \in Users
    BY <1>4 DEF Elsewhere, Inv, Rows, TypeOK
  <2>2. ASSUME NEW o \in Orgs \ orgs' PROVE RowsOf(o)' = {}
    <3>1. RowsOf(o) = {}
      BY DEF Inv, Rows
    <3>2. member'[o] = member[o]
      BY ProvisionedIs
    <3> QED BY <3>1, <3>2, NoRows, NoRowsPrimed
  <2>3. ASSUME NEW i \in Invs
        PROVE  /\ inv'[i].status # "NEW" => creator'[inv'[i].org] # None
               /\ inv'[i].status = "DELETED" => inv'[i].org \notin orgs'
               /\ inv'[i].status \in {"NEW", "PENDING"} => admitted'[i] = 0
               /\ admitted'[i] <= 1
    BY <1>4, NoneDistinct DEF Inv, Rows, TypeOK, Invitation, Elsewhere
  <2> QED BY <2>1, <2>2, <2>3 DEF Rows
<1> QED BY <1>1, <1>2, <1>3, <1>5, <1>6 DEF Inv, CreatorOwns

LEMMA GetMeOK ==
  ASSUME Inv, NEW r \in Requests, NEW u \in Users, GetMe(r, u)
  PROVE  Inv'
<1>1. PICK j \in Callers(r, u) :
        /\ creator' = [o \in Orgs |-> IF o \in {j} \ {None} THEN u ELSE creator[o]]
        /\ orgs' = orgs \cup ({j} \ {None})
        /\ member' = Provisioned([user |-> u], {j} \ {None})
  BY DEF GetMe
<1>2. /\ \A s \in Requests : req[s].user # u
      /\ j \in Orgs \cup {None}
      /\ j # None => /\ creator[j] = None /\ \A s \in Requests : req[s].jit # j
                     /\ \A o \in orgs : creator[o] # u
  BY CallerOK
<1> DEFINE new == {j} \ {None}
<1>3. users' = users \cup {u} /\ UNCHANGED <<inv, req, admitted>>
  BY DEF GetMe
<1>4. Elsewhere(u, new)
  BY <1>1, <1>2, <1>3 DEF Elsewhere, Inv, TypeOK
<1>5. Cardinality(Created(u) \cup new) <= MaxOwnedOrgs
  BY <1>2, JitBound
<1>6. orgs' = orgs \cup new /\ member' = Provisioned([user |-> u], new) /\ [user |-> u].user = u
  BY <1>1
<1> HIDE DEF new
<1> QED BY <1>3, <1>4, <1>5, <1>6, ProvisionOK

\* The two organizations of a caller who had none are within the bound.
LEMMA CreateCommitOK ==
  ASSUME Inv, NEW r \in Requests, CreateCommit(r)
  PROVE  Inv'
<1>1. PICK o \in Unused :
        /\ Commit(r, Jit(r) \cup {o}) /\ orgs' = orgs \cup (Jit(r) \cup {o})
        /\ member' = Provisioned(req[r], Jit(r) \cup {o})
  BY DEF CreateCommit
<1>2. UNCHANGED <<inv, admitted>> /\ req[r].pc = "ready" /\ req[r].op = "create_organization"
  BY DEF CreateCommit, Ready
<1>3. PICK u \in Users : u = req[r].user
  BY <1>2, JitOK
<1>4. PICK new : new = Jit(r) \cup {o}
  OBVIOUS
<1>5. Elsewhere(u, new)
  BY <1>1, <1>2, <1>3, <1>4, CommitElsewhere
<1>6. Cardinality(Created(u) \cup new) <= MaxOwnedOrgs
  <2>1. RequestOK(req[r]) /\ req[r] \in Request
    BY DEF Inv, TypeOK
  <2>2. Cardinality(Created(u)) + (IF req[r].jit = None THEN 0 ELSE 1) < MaxOwnedOrgs
    BY <1>2, <1>3, <2>1 DEF RequestOK
  <2>3. IsFiniteSet(Created(u)) /\ Cardinality(Created(u)) \in Nat /\ MaxOwnedOrgs \in Nat
    BY CreatedFinite, OrganizationAssumption DEF Inv
  <2>4. CASE req[r].jit = None
    <3>1. Created(u) \cup new = Created(u) \cup {o}
      BY <1>4, <2>4 DEF Jit
    <3>2. Cardinality(Created(u) \cup {o}) \in Nat
          /\ Cardinality(Created(u) \cup {o}) <= Cardinality(Created(u)) + 1
      BY <2>3, AddOne
    <3> QED BY <3>1, <3>2, <2>2, <2>3, <2>4
  <2>5. CASE req[r].jit # None
    <3> DEFINE one == Created(u) \cup {req[r].jit}
    <3>1. Created(u) \cup new = one \cup {o}
      BY <1>4, <2>5 DEF Jit
    <3>2. IsFiniteSet(one) /\ Cardinality(one) <= Cardinality(Created(u)) + 1 /\ Cardinality(one) \in Nat
      BY <2>3, AddOne
    <3> HIDE DEF one
    <3>3. Cardinality(one \cup {o}) <= Cardinality(one) + 1 /\ Cardinality(one \cup {o}) \in Nat
      BY <3>2, AddOne
    <3>4. Cardinality(Created(u)) + 1 < MaxOwnedOrgs
      BY <2>2, <2>5
    <3>5. Cardinality(one \cup {o}) <= MaxOwnedOrgs
      BY <3>2, <3>3, <3>4, <2>3
    <3> QED BY <3>1, <3>5
  <2> QED BY <2>4, <2>5
<1>7. users' = users \cup {u}
  BY <1>1, <1>3 DEF Commit
<1>8. PICK q : q = req[r]
  OBVIOUS
<1> QED BY <1>1, <1>2, <1>3, <1>4, <1>5, <1>6, <1>7, <1>8, ProvisionOK

\* Every other commit writes the caller's row and organization and then rows of an
\* organization that is not new: the latter are at most members other than the creator.
LEMMA WriteOK ==
  ASSUME Inv, NEW r \in Requests, req[r].pc # "idle", Commit(r, Jit(r)),
         orgs' \subseteq orgs \cup Jit(r), Jit(r) \subseteq orgs',
         inv' \in [Invs -> Invitation], admitted' \in [Invs -> Nat],
         \A i \in Invs : inv'[i].status # "NEW" =>
           /\ inv'[i].org # None /\ inv'[i].email # None /\ inv'[i].role # None
           /\ creator[inv'[i].org] # None,
         \A i \in Invs : inv[i].status # "NEW" =>
           inv'[i].status # "NEW" /\ inv'[i].org = inv[i].org /\ inv'[i].email = inv[i].email,
         \A i \in Invs :
           /\ inv'[i].status = "DELETED" => inv'[i].org \notin orgs'
           /\ inv'[i].status \in {"NEW", "PENDING"} => admitted'[i] = 0
           /\ admitted'[i] <= 1,
         \A s \in Requests \ {r} : req[s].op = "accept_invitation" =>
           admitted'[req[s].inv] = admitted[req[s].inv],
         member' \in [Orgs -> [Users -> Role \cup {None}]],
         \A o \in Jit(r) : member'[o][req[r].user] = "OWNER",
         \A o \in orgs' \ Jit(r) : member'[o][creator[o]] = member[o][creator[o]],
         \A o \in Orgs \ orgs' : \A u \in Users : member'[o][u] = None,
         \A i \in Invs : inv'[i].status \notin {"NEW", "DELETED"} => inv'[i].org \in orgs'
  PROVE  Inv'
<1>1. PICK u \in Users : u = req[r].user
  BY JitOK
<1>2. PICK new : new = Jit(r)
  OBVIOUS
<1>3. Elsewhere(u, new)
  BY <1>1, <1>2, CommitElsewhere
<1>4. Isolated' /\ \A s \in Requests : RequestOK(req[s])'
  BY <1>3, RequestsKept
<1>5. OwnedByCreation'
  BY <1>1, <1>2, <1>3, JitOK, OwnedKept
<1>6. /\ \A o \in new : o \in Orgs /\ o \notin orgs /\ creator[o] = None /\ creator'[o] = u
      /\ \A o \in Orgs \ new : creator'[o] = creator[o]
  BY <1>2, <1>3, JitOK DEF Elsewhere
<1>7. TypeOK'
  BY <1>1, <1>2, <1>3 DEF Inv, TypeOK, Elsewhere, Commit
<1>8. CreatorOwns'
  <2> SUFFICES ASSUME NEW o \in orgs' PROVE member'[o][creator'[o]] = "OWNER"
    BY DEF CreatorOwns
  <2>1. CASE o \in new
    BY <1>1, <1>2, <1>6, <2>1
  <2>2. CASE o \notin new
    BY <1>2, <1>6, <2>2 DEF Inv, TypeOK, CreatorOwns
  <2> QED BY <2>1, <2>2
<1>9. Rows'
  <2>1. ASSUME NEW o \in orgs' PROVE creator'[o] \in Users
    BY <1>2, <1>6 DEF Inv, TypeOK, Rows
  <2>2. ASSUME NEW o \in Orgs \ orgs' PROVE RowsOf(o)' = {}
    BY NoRowsPrimed
  <2>3. ASSUME NEW i \in Invs, inv'[i].status # "NEW" PROVE creator'[inv'[i].org] # None
    <3>1. inv'[i].org \in Orgs /\ creator[inv'[i].org] # None
      BY <2>3 DEF Invitation
    <3> QED BY <3>1, <1>6
  <2> QED BY <2>1, <2>2, <2>3 DEF Rows
<1> QED BY <1>4, <1>5, <1>7, <1>8, <1>9 DEF Inv

\* The invitations and the provisioned organization when the table of invitations is
\* left alone.
LEMMA InvitationsKept ==
  ASSUME Inv, NEW r \in Requests, req[r].pc # "idle"
  PROVE  /\ inv \in [Invs -> Invitation] /\ admitted \in [Invs -> Nat]
         /\ \A i \in Invs : inv[i].status # "NEW" =>
              /\ inv[i].org # None /\ inv[i].email # None /\ inv[i].role # None
              /\ inv[i].org \in Orgs /\ creator[inv[i].org] # None /\ inv[i].org \notin Jit(r)
         /\ \A i \in Invs :
              /\ inv[i].status = "DELETED" => inv[i].org \notin orgs
              /\ inv[i].status \in {"NEW", "PENDING"} => admitted[i] = 0
              /\ admitted[i] <= 1
         /\ \A i \in Invs : inv[i].status \notin {"NEW", "DELETED"} => inv[i].org \in orgs
<1>1. inv \in [Invs -> Invitation] /\ admitted \in [Invs -> Nat]
  BY DEF Inv, TypeOK
<1>2. ASSUME NEW i \in Invs, inv[i].status # "NEW"
      PROVE  /\ inv[i].org # None /\ inv[i].email # None /\ inv[i].role # None
             /\ inv[i].org \in Orgs /\ creator[inv[i].org] # None /\ inv[i].org \notin Jit(r)
  <2>1. inv[i].org # None /\ inv[i].email # None /\ inv[i].role # None /\ creator[inv[i].org] # None
    BY <1>2 DEF Inv, TypeOK, Rows
  <2>2. inv[i].org \in Orgs
    BY <1>1, <2>1 DEF Invitation
  <2> QED BY <2>1, <2>2, JitOK
<1>3. ASSUME NEW i \in Invs, inv[i].status \notin {"NEW", "DELETED"} PROVE inv[i].org \in orgs
  BY <1>2, <1>3, NoRows DEF Inv, Rows
<1> QED BY <1>1, <1>2, <1>3 DEF Inv, Rows

LEMMA StatusSet ==
  ASSUME NEW row \in Invitation, NEW st \in InvStatus, NEW new, new = [row EXCEPT !.status = st]
  PROVE  /\ new \in Invitation /\ new.status = st
         /\ new.org = row.org /\ new.email = row.email /\ new.role = row.role
BY DEF Invitation

\* The organization a request names is not the one it provisions.
LEMMA OrgOK ==
  ASSUME Inv, NEW r \in Requests, req[r].op \in Ops \ {"create_organization"}
  PROVE  req[r].org \in Orgs /\ req[r].org \notin Jit(r) /\ creator[req[r].org] # None
<1>1. RequestOK(req[r])
  BY DEF Inv
<1>2. req[r].org \in Orgs /\ creator[req[r].org] # None
  BY <1>1 DEF RequestOK
<1>3. req[r].org \notin Jit(r)
  BY <1>1, <1>2 DEF RequestOK, Jit
<1> QED BY <1>2, <1>3

\* The memberships after the caller's organization is provisioned.
LEMMA KeptMembers ==
  ASSUME Inv, NEW r \in Requests, req[r].pc # "idle", NEW kept, kept = Provisioned(req[r], Jit(r))
  PROVE  /\ kept \in [Orgs -> [Users -> Role \cup {None}]]
         /\ \A o \in Jit(r) : kept[o][req[r].user] = "OWNER"
         /\ \A o \in Orgs \ Jit(r) : kept[o] = member[o]
         /\ \A o \in Orgs \ (orgs \cup Jit(r)) : \A u \in Users : kept[o][u] = None
<1>1. kept \in [Orgs -> [Users -> Role \cup {None}]]
  BY ProvisionedType
<1>2. \A o \in Orgs \ Jit(r) : kept[o] = member[o]
  BY ProvisionedIs
<1>3. ASSUME NEW o \in Jit(r) PROVE kept[o][req[r].user] = "OWNER"
  <2>1. o \in Orgs /\ req[r].user \in Users
    BY JitOK
  <2> QED BY <2>1, ProvisionedIs
<1>4. ASSUME NEW o \in Orgs \ (orgs \cup Jit(r)), NEW u \in Users PROVE kept[o][u] = None
  BY <1>2, NoRows DEF Inv, Rows
<1> QED BY <1>1, <1>2, <1>3, <1>4

\* The role is written whatever it is by now, but never the creator's.
LEMMA RoleCommitOK ==
  ASSUME Inv, NEW r \in Requests, RoleCommit(r)
  PROVE  Inv'
<1>1. /\ req[r].pc = "ready" /\ req[r].op = "update_member_role"
      /\ Commit(r, Jit(r)) /\ orgs' = orgs \cup Jit(r) /\ UNCHANGED <<inv, admitted>>
      /\ member' = [Provisioned(req[r], Jit(r)) EXCEPT ![req[r].org][req[r].target] = req[r].role]
  BY DEF RoleCommit, Ready
<1>2. req[r].target \in Users /\ req[r].target # creator[req[r].org] /\ req[r].role \in Role
  BY <1>1 DEF Inv, RequestOK
<1>3. req[r].org \in Orgs /\ req[r].org \notin Jit(r) /\ creator[req[r].org] # None
  BY <1>1, OrgOK DEF Ops
<1>4. PICK kept : kept = Provisioned(req[r], Jit(r))
  OBVIOUS
<1>5. /\ kept \in [Orgs -> [Users -> Role \cup {None}]]
      /\ \A o \in Jit(r) : kept[o][req[r].user] = "OWNER"
      /\ \A o \in Orgs \ Jit(r) : kept[o] = member[o]
      /\ \A o \in Orgs \ (orgs \cup Jit(r)) : \A u \in Users : kept[o][u] = None
  BY <1>1, <1>4, KeptMembers
<1>6. member[req[r].org][req[r].target] # None
  BY DEF RoleCommit
<1>7. req[r].org \in orgs
  BY <1>2, <1>3, <1>6, NoRows DEF Inv, Rows
<1>8. /\ member' \in [Orgs -> [Users -> Role \cup {None}]]
      /\ \A o \in Jit(r) : member'[o][req[r].user] = "OWNER"
      /\ \A o \in orgs' \ Jit(r) : member'[o][creator[o]] = member[o][creator[o]]
      /\ \A o \in Orgs \ orgs' : \A u \in Users : member'[o][u] = None
  BY <1>1, <1>2, <1>3, <1>4, <1>5, <1>7 DEF Inv, TypeOK, Rows
<1> QED BY <1>1, <1>8, InvitationsKept, WriteOK

\* The row goes whatever its role is by now, but never the creator's.
LEMMA RemoveCommitOK ==
  ASSUME Inv, NEW r \in Requests, RemoveCommit(r)
  PROVE  Inv'
<1>1. /\ req[r].pc = "ready" /\ req[r].op = "remove_member"
      /\ Commit(r, Jit(r)) /\ orgs' = orgs \cup Jit(r) /\ UNCHANGED <<inv, admitted>>
      /\ member' = [Provisioned(req[r], Jit(r)) EXCEPT ![req[r].org][req[r].target] = None]
  BY DEF RemoveCommit, Ready
<1>2. req[r].target \in Users /\ req[r].target # creator[req[r].org]
  BY <1>1 DEF Inv, RequestOK
<1>3. req[r].org \in Orgs /\ req[r].org \notin Jit(r) /\ creator[req[r].org] # None
  BY <1>1, OrgOK DEF Ops
<1>4. PICK kept : kept = Provisioned(req[r], Jit(r))
  OBVIOUS
<1>5. /\ kept \in [Orgs -> [Users -> Role \cup {None}]]
      /\ \A o \in Jit(r) : kept[o][req[r].user] = "OWNER"
      /\ \A o \in Orgs \ Jit(r) : kept[o] = member[o]
      /\ \A o \in Orgs \ (orgs \cup Jit(r)) : \A u \in Users : kept[o][u] = None
  BY <1>1, <1>4, KeptMembers
<1>6. /\ member' \in [Orgs -> [Users -> Role \cup {None}]]
      /\ \A o \in Jit(r) : member'[o][req[r].user] = "OWNER"
      /\ \A o \in orgs' \ Jit(r) : member'[o][creator[o]] = member[o][creator[o]]
      /\ \A o \in Orgs \ orgs' : \A u \in Users : member'[o][u] = None
  BY <1>1, <1>2, <1>3, <1>4, <1>5 DEF Inv, TypeOK, Rows
<1> QED BY <1>1, <1>6, InvitationsKept, WriteOK

\* The organization the new invitation is for still exists.
LEMMA InvitationCommitOK ==
  ASSUME Inv, NEW r \in Requests, InvitationCommit(r)
  PROVE  Inv'
<1>1. /\ req[r].pc = "ready" /\ req[r].op = "create_invitation" /\ req[r].org \in orgs
      /\ Commit(r, Jit(r)) /\ orgs' = orgs \cup Jit(r) /\ UNCHANGED admitted
      /\ member' = Provisioned(req[r], Jit(r))
  BY DEF InvitationCommit, Ready
<1>2. PICK i \in Invs :
        /\ inv[i].status = "NEW"
        /\ inv' = [inv EXCEPT ![i] = [status |-> "PENDING", org |-> req[r].org,
                                      email |-> req[r].target, role |-> req[r].role,
                                      late |-> FALSE]]
  BY DEF InvitationCommit
<1>3. req[r].target \in Users /\ req[r].role \in Role
  BY <1>1 DEF Inv, RequestOK
<1>4. req[r].org \in Orgs /\ req[r].org \notin Jit(r) /\ creator[req[r].org] # None
  BY <1>1, OrgOK DEF Ops
<1>5. /\ member' \in [Orgs -> [Users -> Role \cup {None}]]
      /\ \A o \in Jit(r) : member'[o][req[r].user] = "OWNER"
      /\ \A o \in Orgs \ Jit(r) : member'[o] = member[o]
      /\ \A o \in Orgs \ (orgs \cup Jit(r)) : \A u \in Users : member'[o][u] = None
  BY <1>1, KeptMembers
<1>6. \A o \in orgs' \ Jit(r) : member'[o][creator[o]] = member[o][creator[o]]
  BY <1>1, <1>5 DEF Inv, TypeOK
<1> DEFINE row == [status |-> "PENDING", org |-> req[r].org, email |-> req[r].target,
                   role |-> req[r].role, late |-> FALSE]
<1>7. row \in Invitation /\ row.status = "PENDING" /\ row.org = req[r].org
      /\ row.org # None /\ row.email # None /\ row.role # None
  <2>1. row \in Invitation
    BY <1>3, <1>4 DEF Invitation, InvStatus
  <2> QED BY <2>1, <1>3, <1>4, NoneDistinct
<1> HIDE DEF row
<1>8. inv' = [inv EXCEPT ![i] = row]
  BY <1>2 DEF row
<1>9. /\ inv' \in [Invs -> Invitation] /\ admitted' \in [Invs -> Nat]
      /\ \A k \in Invs : inv'[k].status # "NEW" =>
           /\ inv'[k].org # None /\ inv'[k].email # None /\ inv'[k].role # None
           /\ creator[inv'[k].org] # None
      /\ \A k \in Invs : inv[k].status # "NEW" => inv'[k] = inv[k]
      /\ \A k \in Invs :
           /\ inv'[k].status = "DELETED" => inv'[k].org \notin orgs'
           /\ inv'[k].status \in {"NEW", "PENDING"} => admitted'[k] = 0
           /\ admitted'[k] <= 1
      /\ \A k \in Invs : inv'[k].status \notin {"NEW", "DELETED"} => inv'[k].org \in orgs'
  BY <1>1, <1>2, <1>4, <1>7, <1>8, InvitationsKept
<1> QED BY <1>1, <1>5, <1>6, <1>9, WriteOK

\* The invitation was for this caller, who has no other request: nobody else is about
\* to be admitted by it.
LEMMA AcceptCommitOK ==
  ASSUME Inv, NEW r \in Requests, AcceptCommit(r)
  PROVE  Inv'
<1>1. /\ req[r].pc = "ready" /\ req[r].op = "accept_invitation" /\ req[r].org \in orgs
      /\ member[req[r].org][req[r].user] = None
      /\ Commit(r, Jit(r)) /\ orgs' = orgs \cup Jit(r)
      /\ member' = [Provisioned(req[r], Jit(r)) EXCEPT ![req[r].org][req[r].user] = inv[req[r].inv].role]
      /\ inv' = [inv EXCEPT ![req[r].inv].status = "ACCEPTED"]
      /\ admitted' = [admitted EXCEPT ![req[r].inv] = @ + 1]
  BY DEF AcceptCommit, Ready
<1>2. PICK i \in Invs : i = req[r].inv
  BY <1>1 DEF Inv, RequestOK, Answers
<1>3. inv[i].status # "NEW" /\ inv[i].org = req[r].org /\ inv[i].email = req[r].user
      /\ admitted[i] = 0 /\ req[r].user \in Users
  BY <1>1, <1>2 DEF Inv, RequestOK, Answers
<1>4. req[r].org \in Orgs /\ req[r].org \notin Jit(r) /\ creator[req[r].org] # None
  BY <1>1, OrgOK DEF Ops
<1>5. req[r].user # creator[req[r].org]
  BY <1>1, NoneDistinct DEF Inv, CreatorOwns, Role
<1>6. PICK kept : kept = Provisioned(req[r], Jit(r))
  OBVIOUS
<1>7. /\ kept \in [Orgs -> [Users -> Role \cup {None}]]
      /\ \A o \in Jit(r) : kept[o][req[r].user] = "OWNER"
      /\ \A o \in Orgs \ Jit(r) : kept[o] = member[o]
      /\ \A o \in Orgs \ (orgs \cup Jit(r)) : \A u \in Users : kept[o][u] = None
  BY <1>1, <1>6, KeptMembers
<1>8. inv[i].role \in Role \cup {None}
  BY DEF Inv, TypeOK, Invitation
<1>9. /\ member' \in [Orgs -> [Users -> Role \cup {None}]]
      /\ \A o \in Jit(r) : member'[o][req[r].user] = "OWNER"
      /\ \A o \in orgs' \ Jit(r) : member'[o][creator[o]] = member[o][creator[o]]
      /\ \A o \in Orgs \ orgs' : \A u \in Users : member'[o][u] = None
  BY <1>1, <1>2, <1>3, <1>4, <1>5, <1>6, <1>7, <1>8 DEF Inv, TypeOK, Rows
<1>10. inv'[i] \in Invitation /\ inv'[i].status = "ACCEPTED" /\ inv'[i].org = inv[i].org
       /\ inv'[i].email = inv[i].email /\ inv'[i].role = inv[i].role
  <2>1. inv'[i] = [inv[i] EXCEPT !.status = "ACCEPTED"] /\ inv[i] \in Invitation
    BY <1>1, <1>2 DEF Inv, TypeOK
  <2> QED BY <2>1, StatusSet DEF InvStatus
<1>11. \A k \in Invs \ {i} : inv'[k] = inv[k] /\ admitted'[k] = admitted[k]
  BY <1>1, <1>2 DEF Inv, TypeOK
<1>12. admitted'[i] = 1 /\ admitted' \in [Invs -> Nat]
  BY <1>1, <1>2, <1>3 DEF Inv, TypeOK
<1>13. DOMAIN inv' = Invs /\ inv' = [k \in Invs |-> inv'[k]]
  BY <1>1 DEF Inv, TypeOK
<1>14. /\ inv' \in [Invs -> Invitation]
       /\ \A k \in Invs : inv'[k].status # "NEW" =>
            /\ inv'[k].org # None /\ inv'[k].email # None /\ inv'[k].role # None
            /\ creator[inv'[k].org] # None
       /\ \A k \in Invs : inv[k].status # "NEW" =>
            inv'[k].status # "NEW" /\ inv'[k].org = inv[k].org /\ inv'[k].email = inv[k].email
       /\ \A k \in Invs :
            /\ inv'[k].status = "DELETED" => inv'[k].org \notin orgs'
            /\ inv'[k].status \in {"NEW", "PENDING"} => admitted'[k] = 0
            /\ admitted'[k] <= 1
       /\ \A k \in Invs : inv'[k].status \notin {"NEW", "DELETED"} => inv'[k].org \in orgs'
  <2>1. inv' \in [Invs -> Invitation]
    BY <1>10, <1>11, <1>13 DEF Inv, TypeOK
  <2> QED BY <2>1, <1>1, <1>3, <1>10, <1>11, <1>12, InvitationsKept
<1>15. ASSUME NEW s \in Requests \ {r}, req[s].op = "accept_invitation"
       PROVE  admitted'[req[s].inv] = admitted[req[s].inv]
  <2>1. req[s].inv \in Invs /\ inv[req[s].inv].email = req[s].user
    BY <1>15 DEF Inv, RequestOK, Answers
  <2>2. req[s].user # req[r].user
    BY <1>3, NoneDistinct DEF Inv, Isolated
  <2> QED BY <2>1, <2>2, <1>3, <1>11
<1> QED BY <1>1, <1>9, <1>12, <1>14, <1>15, WriteOK

\* update_status leaves a row that is gone alone.
LEMMA AnswerCommitOK ==
  ASSUME Inv, NEW r \in Requests, req[r].pc = "ready", req[r].op \in Answers,
         NEW new \in {"DECLINED", "REVOKED"}, AnswerCommit(r, new)
  PROVE  Inv'
<1>1. /\ Commit(r, Jit(r)) /\ orgs' = orgs \cup Jit(r) /\ UNCHANGED admitted
      /\ member' = Provisioned(req[r], Jit(r))
      /\ inv' = [inv EXCEPT ![req[r].inv].status = IF @ = "DELETED" THEN @ ELSE new]
  BY DEF AnswerCommit
<1>2. PICK i \in Invs : i = req[r].inv
  BY DEF Inv, RequestOK
<1>3. inv[i].status # "NEW" /\ inv[i] \in Invitation
  BY <1>2 DEF Inv, RequestOK, TypeOK
<1>4. PICK st \in InvStatus : st = IF inv[i].status = "DELETED" THEN "DELETED" ELSE new
  BY DEF InvStatus
<1>5. inv'[i] = [inv[i] EXCEPT !.status = st] /\ \A k \in Invs \ {i} : inv'[k] = inv[k]
  BY <1>1, <1>2, <1>4 DEF Inv, TypeOK
<1>6. /\ inv'[i] \in Invitation /\ inv'[i].status = st
      /\ inv'[i].org = inv[i].org /\ inv'[i].email = inv[i].email /\ inv'[i].role = inv[i].role
  BY <1>3, <1>5, StatusSet
<1>7. inv' \in [Invs -> Invitation]
  <2>1. inv' = [k \in Invs |-> inv'[k]]
    BY <1>1 DEF Inv, TypeOK
  <2> QED BY <2>1, <1>5, <1>6 DEF Inv, TypeOK
<1>8. /\ member' \in [Orgs -> [Users -> Role \cup {None}]]
      /\ \A o \in Jit(r) : member'[o][req[r].user] = "OWNER"
      /\ \A o \in Orgs \ Jit(r) : member'[o] = member[o]
      /\ \A o \in Orgs \ (orgs \cup Jit(r)) : \A u \in Users : member'[o][u] = None
  BY <1>1, KeptMembers
<1>9. \A o \in orgs' \ Jit(r) : member'[o][creator[o]] = member[o][creator[o]]
  BY <1>1, <1>8 DEF Inv, TypeOK
<1>10. ASSUME NEW k \in Invs
       PROVE  /\ inv'[k].status # "NEW" =>
                   /\ inv'[k].org # None /\ inv'[k].email # None /\ inv'[k].role # None
                   /\ creator[inv'[k].org] # None
              /\ inv[k].status # "NEW" =>
                   inv'[k].status # "NEW" /\ inv'[k].org = inv[k].org /\ inv'[k].email = inv[k].email
              /\ inv'[k].status = "DELETED" => inv'[k].org \notin orgs'
              /\ inv'[k].status \in {"NEW", "PENDING"} => admitted'[k] = 0
              /\ admitted'[k] <= 1
              /\ inv'[k].status \notin {"NEW", "DELETED"} => inv'[k].org \in orgs'
  <2>1. /\ inv[k].status # "NEW" =>
              /\ inv[k].org # None /\ inv[k].email # None /\ inv[k].role # None
              /\ creator[inv[k].org] # None /\ inv[k].org \notin Jit(r)
        /\ inv[k].status = "DELETED" => inv[k].org \notin orgs
        /\ inv[k].status \in {"NEW", "PENDING"} => admitted[k] = 0
        /\ admitted[k] <= 1
        /\ inv[k].status \notin {"NEW", "DELETED"} => inv[k].org \in orgs
    BY InvitationsKept
  <2>2. CASE k = i
    <3>1. /\ inv'[k].org = inv[k].org /\ inv'[k].email = inv[k].email /\ inv'[k].role = inv[k].role
          /\ inv'[k].status = st /\ inv[k].status # "NEW"
      BY <2>2, <1>3, <1>6
    <3>2. st \notin {"NEW", "PENDING"} /\ (st = "DELETED" <=> inv[k].status = "DELETED")
      BY <1>4, <2>2
    <3>3. inv'[k].status = "DELETED" => inv'[k].org \notin orgs'
      BY <3>1, <3>2, <2>1, <1>1
    <3>4. inv'[k].status \notin {"NEW", "DELETED"} => inv'[k].org \in orgs'
      BY <3>1, <3>2, <2>1, <1>1
    <3>5. admitted'[k] <= 1
      BY <2>1, <1>1
    <3> QED BY <3>1, <3>2, <3>3, <3>4, <3>5, <2>1
  <2>3. CASE k # i
    <3>1. inv'[k] = inv[k] /\ admitted'[k] = admitted[k]
      BY <2>3, <1>1, <1>5
    <3>2. orgs' = orgs \cup Jit(r)
      BY <1>1
    <3>3. inv[k].status = "DELETED" => inv[k].org \notin orgs'
      BY <2>1, <3>2
    <3>4. inv[k].status \notin {"NEW", "DELETED"} => inv[k].org \in orgs'
      BY <2>1, <3>2
    <3> QED BY <2>1, <3>1, <3>3, <3>4
  <2> QED BY <2>2, <2>3
<1>11. admitted' \in [Invs -> Nat]
  BY <1>1 DEF Inv, TypeOK
<1> QED BY <1>1, <1>7, <1>8, <1>9, <1>10, <1>11, WriteOK

\* The foreign keys let the organization go only with all of its rows.
LEMMA DeleteCommitOK ==
  ASSUME Inv, NEW r \in Requests, DeleteCommit(r)
  PROVE  Inv'
<1>1. PICK o : o = req[r].org
  OBVIOUS
<1>2. PICK kept : kept = Provisioned(req[r], Jit(r))
  OBVIOUS
<1>3. /\ req[r].pc = "ready" /\ req[r].op = "delete_organization"
      /\ RowsOf(o) \subseteq req[r].seen
      /\ Commit(r, Jit(r)) /\ orgs' = (orgs \cup Jit(r)) \ {o} /\ UNCHANGED admitted
      /\ member' = [kept EXCEPT ![o] = [u \in Users |-> IF u \in req[r].seen THEN None ELSE @[u]]]
      /\ inv' = [i \in Invs |-> IF i \in req[r].seen THEN [inv[i] EXCEPT !.status = "DELETED"]
                                ELSE inv[i]]
  BY <1>1, <1>2 DEF DeleteCommit, Ready
<1>4. o \in Orgs /\ o \notin Jit(r) /\ creator[o] # None
  BY <1>1, <1>3, OrgOK DEF Ops
<1>5. /\ kept \in [Orgs -> [Users -> Role \cup {None}]]
      /\ \A x \in Jit(r) : kept[x][req[r].user] = "OWNER"
      /\ \A x \in Orgs \ Jit(r) : kept[x] = member[x]
      /\ \A x \in Orgs \ (orgs \cup Jit(r)) : \A u \in Users : kept[x][u] = None
  BY <1>2, <1>3, KeptMembers
<1>6. \A i \in Invs : i \in req[r].seen => inv[i].status # "NEW" /\ inv[i].org = o
  BY <1>1, <1>3 DEF Inv, RequestOK
<1>7. ASSUME NEW u \in Users PROVE member'[o][u] = None
  <2>1. member'[o][u] = IF u \in req[r].seen THEN None ELSE kept[o][u]
    BY <1>3, <1>4, <1>5
  <2>2. u \notin req[r].seen => member[o][u] = None
    BY <1>3 DEF RowsOf, MembersOf
  <2> QED BY <2>1, <2>2, <1>4, <1>5
<1>8. \A x \in Orgs \ {o} : member'[x] = kept[x]
  BY <1>3, <1>5
<1>9. member' \in [Orgs -> [Users -> Role \cup {None}]]
  BY <1>3, <1>4, <1>5
<1>10. /\ \A x \in Jit(r) : member'[x][req[r].user] = "OWNER"
       /\ \A x \in orgs' \ Jit(r) : member'[x][creator[x]] = member[x][creator[x]]
       /\ \A x \in Orgs \ orgs' : \A u \in Users : member'[x][u] = None
  BY <1>3, <1>4, <1>5, <1>7, <1>8, JitOK DEF Inv, TypeOK
<1>11. ASSUME NEW i \in Invs, i \in req[r].seen
       PROVE  /\ inv'[i] \in Invitation /\ inv'[i].status = "DELETED"
              /\ inv'[i].org = inv[i].org /\ inv'[i].email = inv[i].email /\ inv'[i].role = inv[i].role
  <2>1. inv'[i] = [inv[i] EXCEPT !.status = "DELETED"] /\ inv[i] \in Invitation
    BY <1>3, <1>11 DEF Inv, TypeOK
  <2> QED BY <2>1, StatusSet DEF InvStatus
<1>12. \A i \in Invs : i \notin req[r].seen => inv'[i] = inv[i]
  BY <1>3
<1>13. inv' \in [Invs -> Invitation]
  <2>1. inv' = [i \in Invs |-> inv'[i]]
    BY <1>3
  <2> QED BY <2>1, <1>11, <1>12 DEF Inv, TypeOK
<1>14. \A i \in Invs : i \notin req[r].seen =>
         inv[i].org # o \/ inv[i].status \in {"NEW", "DELETED"}
  BY <1>3 DEF RowsOf
<1>15. /\ \A i \in Invs : inv'[i].status # "NEW" =>
            /\ inv'[i].org # None /\ inv'[i].email # None /\ inv'[i].role # None
            /\ creator[inv'[i].org] # None
       /\ \A i \in Invs : inv[i].status # "NEW" =>
            inv'[i].status # "NEW" /\ inv'[i].org = inv[i].org /\ inv'[i].email = inv[i].email
       /\ \A i \in Invs :
            /\ inv'[i].status = "DELETED" => inv'[i].org \notin orgs'
            /\ inv'[i].status \in {"NEW", "PENDING"} => admitted'[i] = 0
            /\ admitted'[i] <= 1
       /\ \A i \in Invs : inv'[i].status \notin {"NEW", "DELETED"} => inv'[i].org \in orgs'
  BY <1>3, <1>6, <1>11, <1>12, <1>14, InvitationsKept
<1>16. admitted' \in [Invs -> Nat]
  BY <1>3 DEF Inv, TypeOK
<1>17. orgs' \subseteq orgs \cup Jit(r) /\ Jit(r) \subseteq orgs'
  BY <1>3, <1>4
<1> QED BY <1>3, <1>9, <1>10, <1>13, <1>15, <1>16, <1>17, WriteOK

-----------------------------------------------------------------------------
(* The steps that commit nothing of a request.                             *)

\* Only requests are dropped, or go on with what they rely on.
LEMMA NothingCommitted ==
  ASSUME Inv, UNCHANGED <<users, orgs, creator, member, admitted>>,
         req' \in [Requests -> Request],
         \A s \in Requests : req'[s] \in {req[s], Idle},
         inv' \in [Invs -> Invitation],
         \A i \in Invs :
           /\ inv'[i].org = inv[i].org /\ inv'[i].email = inv[i].email /\ inv'[i].role = inv[i].role
           /\ \/ inv'[i].status = inv[i].status
              \/ inv[i].status = "PENDING" /\ inv'[i].status = "EXPIRED"
  PROVE  Inv'
<1>1. \A i \in Invs : inv[i].status = "NEW" <=> inv'[i].status = "NEW"
  OBVIOUS
<1>2. creator' = [o \in Orgs |-> IF o \in {} THEN None ELSE creator[o]]
  BY DEF Inv, TypeOK
<1>3. Elsewhere(None, {})
  BY <1>1, <1>2 DEF Elsewhere
<1>4. Isolated' /\ \A s \in Requests : RequestOK(req[s])'
  BY <1>3, RequestsKept
<1>5. TypeOK'
  BY <1>1 DEF Inv, TypeOK
<1>6. CreatorOwns' /\ OwnedByCreation'
  BY DEF Inv, CreatorOwns, OwnedByCreation
<1>7. Rows'
  <2>1. ASSUME NEW o \in Orgs \ orgs' PROVE RowsOf(o)' = {}
    BY NoRows, NoRowsPrimed DEF Inv, Rows
  <2> QED BY <2>1, <1>1 DEF Inv, Rows
<1> QED BY <1>4, <1>5, <1>6, <1>7 DEF Inv

LEMMA RollbackOK ==
  ASSUME Inv, NEW r \in Requests, Rollback(r)
  PROVE  Inv'
<1>1. req' \in [Requests -> Request] /\ \A s \in Requests : req'[s] \in {req[s], Idle}
  BY IdleOK DEF Rollback, Inv, TypeOK
<1>2. inv' \in [Invs -> Invitation] /\ UNCHANGED inv
  BY DEF Rollback, Inv, TypeOK
<1> QED BY <1>1, <1>2, NothingCommitted DEF Rollback

LEMMA SeatCheckOK ==
  ASSUME Inv, NEW r \in Requests, SeatCheck(r)
  PROVE  Inv'
<1>1. /\ req[r].pc = "counted" /\ req' = [req EXCEPT ![r].pc = "ready", ![r].count = 0]
      /\ UNCHANGED <<users, orgs, creator, member, inv, admitted>>
  BY DEF SeatCheck
<1>2. PICK p \in Request : p = req[r]
  BY DEF Inv, TypeOK
<1>3. PICK q : q = [p EXCEPT !.pc = "ready", !.count = 0]
  OBVIOUS
<1>4. /\ q \in Request /\ q.pc = "ready" /\ q.op = p.op /\ q.user = p.user /\ q.org = p.org
      /\ q.target = p.target /\ q.role = p.role /\ q.inv = p.inv /\ q.jit = p.jit /\ q.seen = p.seen
  BY <1>3 DEF Request
<1>5. req' = [req EXCEPT ![r] = q]
  BY <1>1, <1>2, <1>3 DEF Inv, TypeOK
<1>6. RequestOK(q)
  BY <1>1, <1>2, <1>4 DEF Inv, RequestOK
<1>7. TypeOK'
  BY <1>1, <1>4, <1>5 DEF Inv, TypeOK
<1>8. Rows' /\ CreatorOwns' /\ OwnedByCreation'
  BY <1>1 DEF Inv, Rows, CreatorOwns, OwnedByCreation, RowsOf, MembersOf
<1>9. Isolated'
  BY <1>2, <1>4, <1>5 DEF Inv, TypeOK, Isolated
<1>10. ASSUME NEW s \in Requests PROVE RequestOK(req[s])'
  <2>1. PICK x : x = req'[s]
    OBVIOUS
  <2>2. RequestOK(x)
    BY <2>1, <1>5, <1>6 DEF Inv, TypeOK
  <2>3. Created(x.user)' = Created(x.user)
    BY <1>1 DEF Created
  <2>4. RequestOK(x)'
    BY <2>2, <2>3, <1>1 DEF RequestOK
  <2> QED BY <2>1, <2>4 DEF RequestOK, Created
<1> QED BY <1>7, <1>8, <1>9, <1>10 DEF Inv

LEMMA InvitationEndsOK ==
  ASSUME Inv, NEW i \in Invs, InvitationEnds(i)
  PROVE  Inv'
<1>1. inv' = [inv EXCEPT ![i].late = TRUE] /\ UNCHANGED <<users, orgs, creator, member, req, admitted>>
  BY DEF InvitationEnds
<1>2. inv' \in [Invs -> Invitation]
  BY <1>1 DEF Inv, TypeOK, Invitation
<1>3. \A k \in Invs : inv'[k].org = inv[k].org /\ inv'[k].email = inv[k].email
                      /\ inv'[k].role = inv[k].role /\ inv'[k].status = inv[k].status
  BY <1>1 DEF Inv, TypeOK, Invitation
<1>4. req' \in [Requests -> Request]
  BY <1>1 DEF Inv, TypeOK
<1> QED BY <1>1, <1>2, <1>3, <1>4, NothingCommitted

LEMMA ExpireStaleInvitationsOK ==
  ASSUME Inv, ExpireStaleInvitations
  PROVE  Inv'
<1>1. /\ inv' = [i \in Invs |-> IF inv[i].status = "PENDING" /\ inv[i].late
                               THEN [inv[i] EXCEPT !.status = "EXPIRED"] ELSE inv[i]]
      /\ UNCHANGED <<users, orgs, creator, member, req, admitted>>
  BY DEF ExpireStaleInvitations
<1>2. ASSUME NEW i \in Invs
      PROVE  /\ inv'[i] \in Invitation
             /\ inv'[i].org = inv[i].org /\ inv'[i].email = inv[i].email /\ inv'[i].role = inv[i].role
             /\ \/ inv'[i].status = inv[i].status
                \/ inv[i].status = "PENDING" /\ inv'[i].status = "EXPIRED"
  <2>1. inv[i] \in Invitation
    BY DEF Inv, TypeOK
  <2>2. CASE inv[i].status = "PENDING" /\ inv[i].late
    <3>1. inv'[i] = [inv[i] EXCEPT !.status = "EXPIRED"]
      BY <1>1, <2>2
    <3> QED BY <2>1, <2>2, <3>1, StatusSet DEF InvStatus
  <2>3. CASE ~(inv[i].status = "PENDING" /\ inv[i].late)
    BY <1>1, <2>1, <2>3
  <2> QED BY <2>2, <2>3
<1>3. inv' \in [Invs -> Invitation]
  <2>1. inv' = [i \in Invs |-> inv'[i]]
    BY <1>1
  <2> QED BY <2>1, <1>2
<1>4. req' \in [Requests -> Request]
  BY <1>1 DEF Inv, TypeOK
<1> QED BY <1>1, <1>2, <1>3, <1>4, NothingCommitted

-----------------------------------------------------------------------------
(* The theorems.                                                           *)

\* The invariant holds initially.
LEMMA InitInv == Init => Inv
<1> SUFFICES ASSUME Init PROVE Inv
  OBVIOUS
<1>1. TypeOK
  BY IdleOK, NoneDistinct DEF Init, TypeOK, Invitation, InvStatus
<1>2. Rows
  <2>1. ASSUME NEW o \in Orgs PROVE RowsOf(o) = {}
    BY NoRows DEF Init
  <2> QED BY <2>1 DEF Init, Rows
<1>3. CreatorOwns
  BY DEF Init, CreatorOwns
<1>4. ASSUME NEW u \in Users PROVE Cardinality({o \in orgs : creator[o] = u}) <= MaxOwnedOrgs
  <2>1. {o \in orgs : creator[o] = u} = {}
    BY DEF Init
  <2> QED BY <2>1, FS_EmptySet, OrganizationAssumption
<1>5. Isolated
  BY IdleOK DEF Init, Isolated
<1>6. \A r \in Requests : RequestOK(req[r])
  BY IdleRequestOK DEF Init
<1> QED BY <1>1, <1>2, <1>3, <1>4, <1>5, <1>6 DEF Inv, OwnedByCreation

\* Every step keeps the invariant.
LEMMA NextInv == Inv /\ [Next]_vars => Inv'
<1> SUFFICES ASSUME Inv, [Next]_vars PROVE Inv'
  OBVIOUS
<1>1. ASSUME NEW r \in Requests, NEW u \in Users, Route(r, u) PROVE Inv'
  BY <1>1, GetMeOK, CreateOrganizationOK, DeleteOrganizationOK, UpdateMemberRoleOK,
     RemoveMemberOK, CreateInvitationOK, RevokeInvitationOK, AcceptInvitationOK,
     DeclineInvitationOK DEF Route
<1>2. ASSUME NEW r \in Requests, DeclineCommit(r) PROVE Inv'
  BY <1>2, AnswerCommitOK DEF DeclineCommit, Ready, Answers
<1>3. ASSUME NEW r \in Requests, RevokeCommit(r) PROVE Inv'
  BY <1>3, AnswerCommitOK DEF RevokeCommit, Ready, Answers
<1>4. ASSUME NEW r \in Requests, Handle(r) PROVE Inv'
  BY <1>2, <1>3, <1>4, CreateCommitOK, DeleteCommitOK, RoleCommitOK, RemoveCommitOK,
     SeatCheckOK, InvitationCommitOK, AcceptCommitOK, RollbackOK DEF Handle
<1>5. CASE UNCHANGED vars
  <2>1. UNCHANGED <<users, orgs, creator, member, inv, req, admitted>>
    BY <1>5 DEF vars
  <2>2. req' \in [Requests -> Request] /\ inv' \in [Invs -> Invitation]
    BY <2>1 DEF Inv, TypeOK
  <2> QED BY <2>1, <2>2, NothingCommitted
<1> QED BY <1>1, <1>4, <1>5, InvitationEndsOK, ExpireStaleInvitationsOK DEF Next

\* The invariant holds throughout.
THEOREM Invariance == Spec => []Inv
<1>1. Init => Inv
  BY InitInv
<1>2. Inv /\ [Next]_vars => Inv'
  BY NextInv
<1> QED BY <1>1, <1>2, PTL DEF Spec

\* The creator of an organization stays its OWNER as long as it exists, although roles
\* are changed and members removed on the strength of a role read earlier.
THEOREM CreatorStaysOwner == Spec => []CreatorOwns
<1>1. Inv => CreatorOwns
  BY DEF Inv
<1> QED BY <1>1, Invariance, PTL

\* Memberships and invitations never outlive their organization, whatever is accepted
\* or sent while it is being deleted; the types hold.
THEOREM RowsGoWithOrganization == Spec => []NoOrphans
<1>1. Inv => NoOrphans
  BY DEF Inv, Rows, NoOrphans
<1> QED BY <1>1, Invariance, PTL

\* An invitation creates one membership at most, although it is read in one step and
\* answered in another.
THEOREM InvitationAdmitsOnce == Spec => []AdmittedOnce
<1>1. Inv => AdmittedOnce
  BY DEF Inv, Rows, AdmittedOnce
<1> QED BY <1>1, Invariance, PTL

\* Nobody creates more than MAX_OWNED_ORGS organizations: create_organization counts
\* before it inserts, but the requests of one user wait for each other.
THEOREM CreationIsBounded == Spec => []OwnedByCreation
<1>1. Inv => OwnedByCreation
  BY DEF Inv
<1> QED BY <1>1, Invariance, PTL
===============================================================================
