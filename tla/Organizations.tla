---------------------------- MODULE Organizations ----------------------------
(***************************************************************************)
(* Users, organizations, memberships and invitations behind the Bearer     *)
(* routes.                                                                 *)
(*                                                                         *)
(* A request is one READ COMMITTED transaction: each of its statements     *)
(* sees what is committed when it runs, its writes are seen by others when *)
(* it commits, and any exception rolls all of them back.  It starts by     *)
(* stamping the caller's users row (or inserting it), so it holds that row *)
(* until it ends and the requests of one user wait for each other; those   *)
(* of different users interleave.  A handler's checks are one step, its    *)
(* writes and the commit another; the two counts an invitation is checked  *)
(* against are read one after the other.                                   *)
(*                                                                         *)
(* Every identity of the provider has one email address: a user stands for *)
(* both.  Names and descriptions are left out.  The plan of an             *)
(* organization is fixed: MaxMembers is its max_members.                   *)
(***************************************************************************)
EXTENDS Naturals, FiniteSets

CONSTANTS Users,         \* identities of the provider
          Orgs,          \* organization ids
          Named,         \* bound: the organizations that requests name
          Invs,          \* invitation ids
          Requests,      \* requests that may be in flight together
          None,          \* no row; no value
          MaxOwnedOrgs,  \* MAX_OWNED_ORGS
          MaxMembers     \* max_members of the plan

VARIABLES
  users,     \* the users rows
  orgs,      \* the organizations rows
  creator,   \* history: who created each organization (None: id not used yet)
  member,    \* the memberships rows: the role of each user in each organization
  inv,       \* the invitations rows
  req,       \* the requests in flight
  admitted   \* history: memberships each invitation has created

vars == <<users, orgs, creator, member, inv, req, admitted>>

-----------------------------------------------------------------------------
(* State.                                                                  *)

Role == {"OWNER", "ADMIN", "MEMBER"}
InvStatus == {"NEW", "PENDING", "ACCEPTED", "DECLINED", "EXPIRED", "REVOKED", "DELETED"}
\* NEW: not inserted yet; DELETED: the row went with its organization; late: its
\* expires_at has passed.
Invitation == [status : InvStatus, org : Orgs \cup {None}, email : Users \cup {None},
               role : Role \cup {None}, late : BOOLEAN]

Ops == {"create_organization", "delete_organization", "update_member_role",
        "remove_member", "create_invitation", "revoke_invitation",
        "accept_invitation", "decline_invitation"}

ASSUME OrganizationAssumption ==
  /\ Named \subseteq Orgs
  /\ MaxOwnedOrgs \in Nat \ {0} /\ MaxMembers \in Nat \ {0}
  /\ IsFiniteSet(Users) /\ IsFiniteSet(Orgs) /\ IsFiniteSet(Invs) /\ IsFiniteSet(Requests)
  /\ None \notin Users \cup Orgs \cup Invs \cup Role \cup Ops
  /\ Users \cap Invs = {}

\* What a request remembers: its operation and arguments, the organization it
\* provisions for a caller who has none, the members it counted and the rows it read.
Request == [pc : {"idle", "counted", "ready"}, op : Ops \cup {None},
            user : Users \cup {None}, org : Orgs \cup {None}, target : Users \cup {None},
            role : Role \cup {None}, inv : Invs \cup {None}, jit : Orgs \cup {None},
            count : Nat, seen : SUBSET (Users \cup Invs)]
Idle == [pc |-> "idle", op |-> None, user |-> None, org |-> None, target |-> None,
         role |-> None, inv |-> None, jit |-> None, count |-> 0, seen |-> {}]

Call == [Idle EXCEPT !.pc = "ready"]

Init ==
  /\ users = {} /\ orgs = {}
  /\ creator = [o \in Orgs |-> None]
  /\ member = [o \in Orgs |-> [u \in Users |-> None]]
  /\ inv = [i \in Invs |-> [status |-> "NEW", org |-> None, email |-> None,
                            role |-> None, late |-> FALSE]]
  /\ req = [r \in Requests |-> Idle]
  /\ admitted = [i \in Invs |-> 0]

-----------------------------------------------------------------------------
(* What the repositories read.                                             *)

MembersOf(o) == {u \in Users : member[o][u] # None}
OrgsOf(u) == {o \in Orgs : member[o][u] # None}
OwnedBy(u) == {o \in Orgs : member[o][u] = "OWNER"}
Live(i) == inv[i].status = "PENDING" /\ ~inv[i].late
PendingFor(o) == {i \in Invs : inv[i].org = o /\ Live(i)}
PendingForEmail(o, u) == {i \in PendingFor(o) : inv[i].email = u}
\* What a relationship load of the organization finds.
RowsOf(o) == MembersOf(o) \cup {i \in Invs : inv[i].org = o /\ inv[i].status \notin {"NEW", "DELETED"}}
\* Ids nobody has used and no request in flight is about to use.
Unused == {o \in Orgs : creator[o] = None /\ \A r \in Requests : req[r].jit # o}

-----------------------------------------------------------------------------
(* The checks.  Each is evaluated when its statements run; a check that    *)
(* fails raises, and nothing of the request remains.                       *)

RequireMembership(q) == member[q.org][q.user] # None
RequireAdmin(q) == member[q.org][q.user] \in {"OWNER", "ADMIN"}
RequireOwner(q) == member[q.org][q.user] = "OWNER"

\* create_organization: the count sees the organization just provisioned for the caller.
MayOwnMore(q) ==
  Cardinality(OwnedBy(q.user)) + (IF q.jit = None THEN 0 ELSE 1) < MaxOwnedOrgs

\* update_member_role.
MayChangeRole(q) ==
  /\ q.user # q.target /\ RequireOwner(q)
  /\ member[q.org][q.target] \in {"ADMIN", "MEMBER"}

\* Mutant: only the caller's role is looked at.
MayRemoveAnyone(q) == RequireAdmin(q)
\* remove_member.
MayRemove(q) ==
  /\ RequireMembership(q)
  /\ member[q.org][q.target] \in {"ADMIN", "MEMBER"}
  /\ member[q.org][q.user] # "MEMBER"
  /\ member[q.org][q.user] = "ADMIN" => member[q.org][q.target] = "MEMBER"

\* create_invitation, up to the count of members.
MayInvite(q) ==
  /\ RequireAdmin(q)
  /\ member[q.org][q.user] = "ADMIN" => q.role = "MEMBER"
  /\ q.role # "OWNER"
  /\ q.target # q.user
  /\ ~(q.target \in users /\ member[q.org][q.target] # None)
  /\ PendingForEmail(q.org, q.target) = {}

\* Mutant: the status is not looked at.
AnswerableAgain(q) ==
  inv[q.inv].status \notin {"NEW", "DELETED"} /\ ~inv[q.inv].late /\ inv[q.inv].email = q.user
\* accept_invitation and decline_invitation.  The status EXPIRED they set before
\* raising is rolled back with the rest.
Answerable(q) == Live(q.inv) /\ inv[q.inv].email = q.user
Acceptable(q) == Answerable(q) /\ member[q.org][q.user] = None
\* revoke_invitation.
Revocable(q) == inv[q.inv].status = "PENDING" /\ RequireAdmin(q)

-----------------------------------------------------------------------------
(* Authentication: the user row, and an organization for who has none.     *)

\* Mutant: last_sign_in_at is left alone when it is recent.
LocksNothing(u) == u \in Users
\* upsert_user writes last_sign_in_at of an existing row and inserts a missing one:
\* either way a second request of the same user waits for the first to end.
LocksUser(u) == \A r \in Requests : req[r].user # u

\* The organization _resolve_jwt provisions for a caller who belongs to none.
JitOrg(u) == IF OrgsOf(u) = {} THEN Unused ELSE {None}

\* _resolve_jwt: the request with its caller, whose row it has locked, and with the
\* organization provisioned for him.
Callers(r, u) == IF req[r].pc = "idle" /\ LocksUser(u) THEN JitOrg(u) ELSE {}
As(r, u, call) == {[call EXCEPT !.user = u, !.jit = j] : j \in Callers(r, u)}

\* A request that fails the checks of its handler leaves no trace.
Begin(r, q) ==
  /\ req' = [req EXCEPT ![r] = q]
  /\ UNCHANGED <<users, orgs, creator, member, inv, admitted>>

\* An exception anywhere: get_db_session rolls back what the request wrote.
Rollback(r) ==
  /\ req[r].pc # "idle"
  /\ req' = [req EXCEPT ![r] = Idle]
  /\ UNCHANGED <<users, orgs, creator, member, inv, admitted>>

-----------------------------------------------------------------------------
(* The writes and the commit.  A constraint that fails is a Rollback.      *)

\* The memberships when the organizations created by this request are added.
Provisioned(q, new) ==
  [o \in Orgs |-> IF o \in new THEN [u \in Users |-> IF u = q.user THEN "OWNER" ELSE None]
                  ELSE member[o]]

\* The caller's row and the organizations it created are committed with the rest.
Commit(r, new) ==
  /\ users' = users \cup {req[r].user}
  /\ creator' = [o \in Orgs |-> IF o \in new THEN req[r].user ELSE creator[o]]
  /\ req' = [req EXCEPT ![r] = Idle]

Jit(r) == {req[r].jit} \ {None}
Ready(r, op) == req[r].pc = "ready" /\ req[r].op = op

\* POST /organizations: an organization, its OWNER membership, subscription, usage
\* record and onboarding project.
CreateOrganization(r, u) ==
  \E q \in As(r, u, [Call EXCEPT !.op = "create_organization"]) : MayOwnMore(q) /\ Begin(r, q)
CreateCommit(r) ==
  /\ Ready(r, "create_organization")
  /\ \E o \in Unused :
       LET new == Jit(r) \cup {o} IN
       /\ Commit(r, new)
       /\ orgs' = orgs \cup new
       /\ member' = Provisioned(req[r], new)
  /\ UNCHANGED <<inv, admitted>>

\* DELETE /organizations/{org_id}.  session.delete(org) loads the rows to delete with
\* it; the foreign keys refuse the commit when a row was added since.
DeleteOrganization(r, u) ==
  \E o \in orgs \cap Named :
    \E q \in As(r, u, [Call EXCEPT !.op = "delete_organization", !.org = o, !.seen = RowsOf(o)]) :
      RequireOwner(q) /\ Begin(r, q)
\* Mutant: the foreign keys are not enforced.
DeleteUnchecked(r) ==
  /\ Ready(r, "delete_organization")
  /\ LET o == req[r].org
         kept == Provisioned(req[r], Jit(r)) IN
     /\ Commit(r, Jit(r))
     /\ orgs' = (orgs \cup Jit(r)) \ {o}
     /\ member' = [kept EXCEPT ![o] = [u \in Users |-> IF u \in req[r].seen THEN None ELSE @[u]]]
     /\ inv' = [i \in Invs |-> IF i \in req[r].seen THEN [inv[i] EXCEPT !.status = "DELETED"]
                               ELSE inv[i]]
  /\ UNCHANGED admitted
DeleteCommit(r) ==
  /\ Ready(r, "delete_organization")
  /\ RowsOf(req[r].org) \subseteq req[r].seen
  /\ LET o == req[r].org
         kept == Provisioned(req[r], Jit(r)) IN
     /\ Commit(r, Jit(r))
     /\ orgs' = (orgs \cup Jit(r)) \ {o}
     /\ member' = [kept EXCEPT ![o] = [u \in Users |-> IF u \in req[r].seen THEN None ELSE @[u]]]
     /\ inv' = [i \in Invs |-> IF i \in req[r].seen THEN [inv[i] EXCEPT !.status = "DELETED"]
                               ELSE inv[i]]
  /\ UNCHANGED admitted

\* PATCH /organizations/{org_id}/members/{user_id}.  The row is read again and
\* written, whatever its role is by now.
UpdateMemberRole(r, u) ==
  \E o \in orgs \cap Named, t \in Users, x \in Role :
    \E q \in As(r, u, [Call EXCEPT !.op = "update_member_role", !.org = o, !.target = t, !.role = x]) :
      MayChangeRole(q) /\ Begin(r, q)
RoleCommit(r) ==
  /\ Ready(r, "update_member_role")
  /\ member[req[r].org][req[r].target] # None
  /\ Commit(r, Jit(r))
  /\ orgs' = orgs \cup Jit(r)
  /\ member' = [Provisioned(req[r], Jit(r)) EXCEPT ![req[r].org][req[r].target] = req[r].role]
  /\ UNCHANGED <<inv, admitted>>

\* DELETE /organizations/{org_id}/members/{user_id}: the row goes if it is there,
\* whatever its role is by now.
RemoveMember(r, u) ==
  \E o \in orgs \cap Named, t \in Users :
    \E q \in As(r, u, [Call EXCEPT !.op = "remove_member", !.org = o, !.target = t]) :
      MayRemove(q) /\ Begin(r, q)
RemoveCommit(r) ==
  /\ Ready(r, "remove_member")
  /\ Commit(r, Jit(r))
  /\ orgs' = orgs \cup Jit(r)
  /\ member' = [Provisioned(req[r], Jit(r)) EXCEPT ![req[r].org][req[r].target] = None]
  /\ UNCHANGED <<inv, admitted>>

\* POST /organizations/{org_id}/invitations.  No constraint forbids a second pending
\* row for the same address.
CreateInvitation(r, u) ==
  \E o \in orgs \cap Named, t \in Users, x \in Role :
    \E q \in As(r, u, [Call EXCEPT !.pc = "counted", !.op = "create_invitation", !.org = o,
                                !.target = t, !.role = x, !.count = Cardinality(MembersOf(o))]) :
      MayInvite(q) /\ Begin(r, q)
SeatCheck(r) ==
  /\ req[r].pc = "counted"
  /\ req[r].count + Cardinality(PendingFor(req[r].org)) < MaxMembers
  /\ req' = [req EXCEPT ![r].pc = "ready", ![r].count = 0]
  /\ UNCHANGED <<users, orgs, creator, member, inv, admitted>>
InvitationCommit(r) ==
  /\ Ready(r, "create_invitation") /\ req[r].org \in orgs
  /\ \E i \in Invs :
       /\ inv[i].status = "NEW"
       /\ inv' = [inv EXCEPT ![i] = [status |-> "PENDING", org |-> req[r].org,
                                     email |-> req[r].target, role |-> req[r].role,
                                     late |-> FALSE]]
  /\ Commit(r, Jit(r))
  /\ orgs' = orgs \cup Jit(r)
  /\ member' = Provisioned(req[r], Jit(r))
  /\ UNCHANGED admitted

\* POST /user/invitations/{id}/accept.  update_status writes the row whatever its
\* status is by now; the seats are not counted again.
AcceptInvitation(r, u) ==
  \E i \in Invs :
    \E q \in As(r, u, [Call EXCEPT !.op = "accept_invitation", !.org = inv[i].org, !.inv = i]) :
      Acceptable(q) /\ Begin(r, q)
AcceptCommit(r) ==
  /\ Ready(r, "accept_invitation")
  /\ req[r].org \in orgs /\ member[req[r].org][req[r].user] = None
  /\ Commit(r, Jit(r))
  /\ orgs' = orgs \cup Jit(r)
  /\ member' = [Provisioned(req[r], Jit(r)) EXCEPT ![req[r].org][req[r].user] = inv[req[r].inv].role]
  /\ inv' = [inv EXCEPT ![req[r].inv].status = "ACCEPTED"]
  /\ admitted' = [admitted EXCEPT ![req[r].inv] = @ + 1]

\* update_status(new): nothing happens when the row is gone.
AnswerCommit(r, new) ==
  /\ Commit(r, Jit(r))
  /\ orgs' = orgs \cup Jit(r)
  /\ member' = Provisioned(req[r], Jit(r))
  /\ inv' = [inv EXCEPT ![req[r].inv].status = IF @ = "DELETED" THEN @ ELSE new]
  /\ UNCHANGED admitted

\* POST /user/invitations/{id}/decline.
DeclineInvitation(r, u) ==
  \E i \in Invs :
    \E q \in As(r, u, [Call EXCEPT !.op = "decline_invitation", !.org = inv[i].org, !.inv = i]) :
      Answerable(q) /\ Begin(r, q)
DeclineCommit(r) == Ready(r, "decline_invitation") /\ AnswerCommit(r, "DECLINED")

\* DELETE /organizations/{org_id}/invitations/{invitation_id}.
RevokeInvitation(r, u) ==
  \E i \in Invs :
    \E q \in As(r, u, [Call EXCEPT !.op = "revoke_invitation", !.org = inv[i].org, !.inv = i]) :
      Revocable(q) /\ Begin(r, q)
RevokeCommit(r) == Ready(r, "revoke_invitation") /\ AnswerCommit(r, "REVOKED")

\* Requests that write nothing but the caller's row and organization: GET /user,
\* /user/invitations and /organizations need no role.
GetMe(r, u) ==
  /\ users' = users \cup {u}
  /\ \E j \in Callers(r, u) :
       LET new == {j} \ {None} IN
       /\ creator' = [o \in Orgs |-> IF o \in new THEN u ELSE creator[o]]
       /\ orgs' = orgs \cup new
       /\ member' = Provisioned([user |-> u], new)
  /\ UNCHANGED <<inv, req, admitted>>

-----------------------------------------------------------------------------
(* Time, and the hourly expire_stale_invitations.                          *)

InvitationEnds(i) ==
  /\ inv[i].status = "PENDING" /\ ~inv[i].late
  /\ inv' = [inv EXCEPT ![i].late = TRUE]
  /\ UNCHANGED <<users, orgs, creator, member, req, admitted>>

ExpireStaleInvitations ==
  /\ inv' = [i \in Invs |-> IF inv[i].status = "PENDING" /\ inv[i].late
                            THEN [inv[i] EXCEPT !.status = "EXPIRED"] ELSE inv[i]]
  /\ inv' # inv
  /\ UNCHANGED <<users, orgs, creator, member, req, admitted>>

Route(r, u) ==
  \/ GetMe(r, u) \/ CreateOrganization(r, u) \/ DeleteOrganization(r, u)
  \/ UpdateMemberRole(r, u) \/ RemoveMember(r, u)
  \/ CreateInvitation(r, u) \/ RevokeInvitation(r, u)
  \/ AcceptInvitation(r, u) \/ DeclineInvitation(r, u)

Handle(r) ==
  \/ CreateCommit(r) \/ DeleteCommit(r) \/ RoleCommit(r) \/ RemoveCommit(r)
  \/ SeatCheck(r) \/ InvitationCommit(r) \/ AcceptCommit(r)
  \/ DeclineCommit(r) \/ RevokeCommit(r)
  \/ Rollback(r)

Next ==
  \/ \E r \in Requests, u \in Users : Route(r, u)
  \/ \E r \in Requests : Handle(r)
  \/ \E i \in Invs : InvitationEnds(i)
  \/ ExpireStaleInvitations

Spec == Init /\ [][Next]_vars

-----------------------------------------------------------------------------
(* Properties.                                                             *)

\* The rows keep their types, and an invitation in the table has a role, an
\* organization and an address.
TypeOK ==
  /\ users \subseteq Users /\ orgs \subseteq Orgs
  /\ creator \in [Orgs -> Users \cup {None}]
  /\ member \in [Orgs -> [Users -> Role \cup {None}]]
  /\ inv \in [Invs -> Invitation]
  /\ \A i \in Invs : inv[i].status # "NEW" => None \notin {inv[i].org, inv[i].email, inv[i].role}
  /\ req \in [Requests -> Request]
  /\ admitted \in [Invs -> Nat]

\* An organization keeps an OWNER, the user who created it, although remove_member and
\* update_member_role act on a role they read before another request changed it: a
\* role that was never anything but OWNER cannot have been read as anything else.
CreatorOwns == \A o \in orgs : member[o][creator[o]] = "OWNER"

\* The types hold, and a membership or an invitation never outlives its organization,
\* although accepting and inviting run while delete_organization has already loaded
\* what it deletes.
NoOrphans == TypeOK /\ \A o \in Orgs \ orgs : RowsOf(o) = {}

\* An invitation is good for one membership: accept_invitation reads the status and
\* writes it in another step, a revocation or the expiry may overwrite it between and
\* after, and the user may be removed and try again.
AdmittedOnce == \A i \in Invs : admitted[i] <= 1

\* Nobody creates more than MAX_OWNED_ORGS organizations, although create_organization
\* counts before it inserts and two requests may run at the same time: the users row
\* every request writes first makes the requests of one user wait for each other.
OwnedByCreation ==
  \A u \in Users : Cardinality({o \in orgs : creator[o] = u}) <= MaxOwnedOrgs
===============================================================================
