----------------------------- MODULE Credentials -----------------------------
(***************************************************************************)
(* API keys, projects and the CLI login: who may act on which project.     *)
(*                                                                         *)
(* A request is a READ COMMITTED transaction, as in Organizations: its     *)
(* checks are one step, its writes and the commit another, an exception    *)
(* leaves nothing behind.  A Bearer request holds the caller's users row.  *)
(* A data-plane request with an API key holds the row of the key from the  *)
(* stamp of last_used_at to its end, and the (organization, name) pair of  *)
(* a project it inserts.  The authorization codes of the CLI are in Redis: *)
(* SETEX, GET and DEL take effect at once and no rollback undoes them.     *)
(*                                                                         *)
(* Memberships change as Organizations says: here others than the creator  *)
(* join and leave at any time.  No organization is deleted.  One whose      *)
(* creator is not in Users is another tenant, seen only by its API key.    *)
(***************************************************************************)
EXTENDS Naturals, FiniteSets

CONSTANTS Users, Orgs, Projects, Names, Keys, Codes,
          Verifiers,  \* what an exchange may present
          CliVerifiers,  \* the ones a CLI made and sent the challenge of
          Requests,   \* requests that may be in flight together
          None,       \* no row; no value
          Creator,    \* who created each organization (None: somebody else)
          FirstKeys,  \* the organization of each key that is there at the start, or None
          FirstProjects,  \* and of each project; they have the name FirstName
          FirstName,
          JoinRoles,  \* bound: the roles new members get
          Expires     \* bound: whether the keys asked for end some day

ASSUME CredentialAssumption ==
  /\ Creator \in [Orgs -> Users \cup {None}]
  /\ FirstKeys \in [Keys -> Orgs \cup {None}]
  /\ FirstProjects \in [Projects -> Orgs \cup {None}] /\ FirstName \in Names
  /\ \A p, q \in Projects : FirstProjects[p] = FirstProjects[q] /\ p # q => FirstProjects[p] = None
  /\ Expires \subseteq BOOLEAN
  /\ JoinRoles \subseteq {"ADMIN", "MEMBER"}
  /\ CliVerifiers \subseteq Verifiers /\ IsFiniteSet(Keys)
  /\ None \notin Users \cup Orgs \cup Projects \cup Names \cup Keys \cup Codes \cup Verifiers

VARIABLES
  member,    \* the memberships rows
  projects,  \* the projects rows
  keys,      \* the api_keys rows
  codes,     \* cli:authcode:* in Redis
  req,       \* the requests in flight
  stale      \* history: codes still in Redis when their user left the organization

vars == <<member, projects, keys, codes, req, stale>>

-----------------------------------------------------------------------------
(* State.                                                                  *)

Role == {"OWNER", "ADMIN", "MEMBER"}
Project == [status : {"unused", "live", "deleted"}, org : Orgs \cup {None}, name : Names \cup {None}]
\* ends: it was created with an expiry of 90 days; late: they have passed (of an active key); code: the
\* authorization code it was minted for (history).
Key == [status : {"unused", "active", "revoked", "deleted"}, org : Orgs \cup {None},
        ends : BOOLEAN, late : BOOLEAN, code : Codes \cup {None}]
\* challenge names the verifier whose SHA-256 it is; used: deleted by an exchange.
Code == [status : {"unused", "stored", "used", "expired"}, user : Users \cup {None},
         org : Orgs \cup {None}, challenge : Verifiers \cup {None}]

\* mint: what is left of create_api_key, rotate_api_key and exchange after the checks.
Ops == {"mint", "revoke_api_key", "delete_api_key",
        "create_project", "update_project", "delete_project",
        "issue_code", "exchange", "serve"}
Request == [pc : {"idle", "ready", "looked", "missing", "verified", "consumed"},
            op : Ops \cup {None}, user : Users \cup {None}, org : Orgs \cup {None},
            project : Projects \cup {None}, name : Names \cup {None}, key : Keys \cup {None},
            ends : BOOLEAN, code : Codes \cup {None}, verifier : Verifiers \cup {None},
            insert : BOOLEAN]
Idle == [pc |-> "idle", op |-> None, user |-> None, org |-> None, project |-> None,
         name |-> None, key |-> None, ends |-> FALSE, code |-> None, verifier |-> None,
         insert |-> FALSE]
Call(op) == [Idle EXCEPT !.pc = "ready", !.op = op]

Init ==
  /\ member = [o \in Orgs |-> [u \in Users |-> IF u = Creator[o] THEN "OWNER" ELSE None]]
  /\ projects = [p \in Projects |->
       IF FirstProjects[p] = None THEN [status |-> "unused", org |-> None, name |-> None]
       ELSE [status |-> "live", org |-> FirstProjects[p], name |-> FirstName]]
  /\ keys = [k \in Keys |->
       [status |-> IF FirstKeys[k] = None THEN "unused" ELSE "active", org |-> FirstKeys[k],
        ends |-> FALSE, late |-> FALSE, code |-> None]]
  /\ codes = [c \in Codes |-> [status |-> "unused", user |-> None, org |-> None,
                               challenge |-> None]]
  /\ req = [r \in Requests |-> Idle]
  /\ stale = {}

-----------------------------------------------------------------------------
(* What the repositories read.                                             *)

LiveProjects == {p \in Projects : projects[p].status = "live"}
\* get_project_by_name.
ByName(o, n) == {p \in LiveProjects : projects[p].org = o /\ projects[p].name = n}
\* Another transaction has inserted the pair and not ended: an insert of it waits.
Inserting(r, o, n) ==
  \E s \in Requests \ {r} : req[s].insert /\ req[s].org = o /\ req[s].name = n
\* Mutant: the table has no unique constraint.
NameAlwaysFree(r, o, n) == ~Inserting(r, o, n)
\* uq_project_org_name lets the row in.
NameFree(r, o, n) == ~Inserting(r, o, n) /\ ByName(o, n) = {}
\* touch_api_key has locked the row.
Touched(r, k) == \E s \in Requests \ {r} : req[s].key = k /\ req[s].pc \in {"missing", "ready"}
                                           /\ req[s].op = "serve"
NewProject == {p \in Projects : projects[p].status = "unused"
                                /\ \A r \in Requests : ~(req[r].insert /\ req[r].project = p)}
NewKey == {k \in Keys : keys[k].status = "unused"}

\* The row that create_api_key inserts.
Minted(o, ends, c) == [status |-> "active", org |-> o, ends |-> ends, late |-> FALSE, code |-> c]

-----------------------------------------------------------------------------
(* The checks.                                                             *)

RequireMembership(q) == member[q.org][q.user] # None
RequireAdmin(q) == member[q.org][q.user] \in {"OWNER", "ADMIN"}
RequireOwner(q) == member[q.org][q.user] = "OWNER"
\* IdentityService.get_api_key and get_project: the row exists in this organization.
KeyOfOrg(q) == keys[q.key].status \in {"active", "revoked"} /\ keys[q.key].org = q.org
ProjectOfOrg(q) == q.project \in LiveProjects /\ projects[q.project].org = q.org

MayRotate(q) ==
  /\ RequireAdmin(q)
  /\ \E k \in Keys : /\ KeyOfOrg([q EXCEPT !.key = k])
                     /\ keys[k].status = "active" /\ keys[k].ends
MayDropKey(q) == RequireAdmin(q) /\ KeyOfOrg(q)
MayUpdateProject(q) == RequireAdmin(q) /\ ProjectOfOrg(q)
MayDeleteProject(q) == RequireOwner(q) /\ ProjectOfOrg(q)
MayIssue(q) ==
  RequireMembership(q) /\ \E p \in Projects : ProjectOfOrg([q EXCEPT !.project = p])

\* Mutant: the project is found by its id alone.
MayServeAny(q) == RequireMembership(q) /\ q.project \in LiveProjects
\* _resolve_jwt with X-Organization-ID and X-Project-ID.
MayServe(q) == RequireMembership(q) /\ ProjectOfOrg(q)

\* get_api_key_by_hash, and the expiry.
KeyUsable(k) == keys[k].status = "active" /\ ~(keys[k].ends /\ keys[k].late)

\* verify_pkce; two verifiers never share a SHA-256.
VerifyPkce(v, c) == v = codes[c].challenge

-----------------------------------------------------------------------------
(* Bearer requests.                                                        *)

\* upsert_user writes the caller's row first: the requests of one user wait.
Begin(r, q) ==
  /\ req[r].pc = "idle"
  /\ \A s \in Requests : ~(req[s].user = q.user /\ req[s].op # "exchange")
  /\ req' = [req EXCEPT ![r] = q]
  /\ UNCHANGED <<member, projects, keys, codes, stale>>

Rollback(r) ==
  /\ req[r].pc # "idle"
  /\ req' = [req EXCEPT ![r] = Idle]
  /\ UNCHANGED <<member, projects, keys, codes, stale>>

Ready(r, op) == req[r].pc = "ready" /\ req[r].op = op
Ends(r) == req' = [req EXCEPT ![r] = Idle]

\* POST /organizations/{org_id}/api-keys.
CreateApiKey(r, u) ==
  \E o \in Orgs, ends \in Expires :
    LET q == [Call("mint") EXCEPT !.org = o, !.ends = ends, !.user = u] IN
    Begin(r, q) /\ RequireMembership(q)

\* POST .../api-keys/{key_id}/rotate: a second key; the first stays as it is.
RotateApiKey(r, u) ==
  \E o \in Orgs :
    LET q == [Call("mint") EXCEPT !.org = o, !.ends = TRUE, !.user = u] IN
    Begin(r, q) /\ MayRotate(q)

\* create_api_key at the end of the three operations that mint a key.
MintCommit(r) ==
  /\ Ready(r, "mint")
  /\ \E k \in NewKey :
       keys' = [keys EXCEPT ![k] = Minted(req[r].org, req[r].ends, req[r].code)]
  /\ Ends(r)
  /\ UNCHANGED <<member, projects, codes, stale>>

\* DELETE .../api-keys/{key_id}: revoke, or delete for good with permanent=true.
DropApiKey(r, u) ==
  \E o \in Orgs, k \in Keys, op \in {"revoke_api_key", "delete_api_key"} :
    LET q == [Call(op) EXCEPT !.org = o, !.key = k, !.user = u] IN
    Begin(r, q) /\ MayDropKey(q)
DropCommit(r) ==
  /\ \E op \in {"revoke_api_key", "delete_api_key"} : Ready(r, op)
  /\ ~Touched(r, req[r].key)
  /\ keys' = [keys EXCEPT ![req[r].key].status =
                IF req[r].op = "delete_api_key" \/ @ = "deleted" THEN "deleted" ELSE "revoked",
                           ![req[r].key].late = FALSE,
                           ![req[r].key].ends = @ /\ req[r].op # "delete_api_key"]
  /\ Ends(r)
  /\ UNCHANGED <<member, projects, codes, stale>>

\* POST /organizations/{org_id}/projects.
CreateProject(r, u) ==
  \E o \in Orgs, n \in Names :
    LET q == [Call("create_project") EXCEPT !.org = o, !.name = n, !.user = u] IN
    Begin(r, q) /\ RequireAdmin(q)
CreateProjectCommit(r) ==
  /\ Ready(r, "create_project")
  /\ NameFree(r, req[r].org, req[r].name)
  /\ \E p \in NewProject :
       projects' = [projects EXCEPT ![p] = [status |-> "live", org |-> req[r].org,
                                            name |-> req[r].name]]
  /\ Ends(r)
  /\ UNCHANGED <<member, keys, codes, stale>>

\* PATCH .../projects/{project_id}.  An UPDATE of a row that is gone raises.
UpdateProject(r, u) ==
  \E o \in Orgs, p \in Projects, n \in Names :
    LET q == [Call("update_project") EXCEPT !.org = o, !.project = p, !.name = n, !.user = u] IN
    Begin(r, q) /\ MayUpdateProject(q)
UpdateProjectCommit(r) ==
  /\ Ready(r, "update_project")
  /\ req[r].project \in LiveProjects
  /\ \/ projects[req[r].project].name = req[r].name
     \/ NameFree(r, req[r].org, req[r].name)
  /\ projects' = [projects EXCEPT ![req[r].project].name = req[r].name]
  /\ Ends(r)
  /\ UNCHANGED <<member, keys, codes, stale>>

\* DELETE .../projects/{project_id}.
DeleteProject(r, u) ==
  \E o \in Orgs, p \in Projects :
    LET q == [Call("delete_project") EXCEPT !.org = o, !.project = p, !.user = u] IN
    Begin(r, q) /\ MayDeleteProject(q)
DeleteProjectCommit(r) ==
  /\ Ready(r, "delete_project")
  /\ projects' = [projects EXCEPT ![req[r].project].status = "deleted",
                                  ![req[r].project].name = None]
  /\ Ends(r)
  /\ UNCHANGED <<member, keys, codes, stale>>

-----------------------------------------------------------------------------
(* The data plane.  The handler runs with the organization and the project *)
(* resolved here until the request ends.                                   *)

\* Authorization: Bearer, X-Organization-ID, X-Project-ID.
ServeJwt(r, u) ==
  \E o \in Orgs, p \in Projects :
    LET q == [Call("serve") EXCEPT !.org = o, !.project = p, !.user = u] IN
    Begin(r, q) /\ MayServe(q)

\* X-API-Key, X-Project-Name: the key is looked up...
ServeKey(r) ==
  /\ req[r].pc = "idle"
  /\ \E k \in Keys, n \in Names :
       /\ KeyUsable(k)
       /\ req' = [req EXCEPT ![r] = [Call("serve") EXCEPT !.pc = "looked", !.key = k,
                                                          !.org = keys[k].org, !.name = n]]
  /\ UNCHANGED <<member, projects, keys, codes, stale>>

\* ... its row stamped (nothing happens when it is gone), the organization read, and
\* the project looked up by name.
Touch(r) ==
  /\ req[r].pc = "looked" /\ ~Touched(r, req[r].key)
  /\ LET found == ByName(req[r].org, req[r].name) IN
     \/ found = {} /\ req' = [req EXCEPT ![r].pc = "missing"]
     \/ \E p \in found : req' = [req EXCEPT ![r].pc = "ready", ![r].project = p]
  /\ UNCHANGED <<member, projects, keys, codes, stale>>

\* get_or_create_project: the insert, or after a unique violation the winner's row.
\* That nested transaction may be lost with the whole request: Rollback.
GetOrCreate(r) ==
  /\ req[r].pc = "missing"
  /\ ~Inserting(r, req[r].org, req[r].name)
  /\ \/ /\ NameFree(r, req[r].org, req[r].name)
        /\ \E p \in NewProject :
             req' = [req EXCEPT ![r].pc = "ready", ![r].project = p, ![r].insert = TRUE]
     \/ \E p \in ByName(req[r].org, req[r].name) :
             req' = [req EXCEPT ![r].pc = "ready", ![r].project = p]
  /\ UNCHANGED <<member, projects, keys, codes, stale>>

\* The handler returns: the inserted project is committed.
ServeCommit(r) ==
  /\ Ready(r, "serve")
  /\ projects' = IF req[r].insert
                 THEN [projects EXCEPT ![req[r].project] = [status |-> "live", org |-> req[r].org,
                                                            name |-> req[r].name]]
                 ELSE projects
  /\ Ends(r)
  /\ UNCHANGED <<member, keys, codes, stale>>

-----------------------------------------------------------------------------
(* The CLI login.                                                          *)

\* POST /cli/codes.
IssueCode(r, u) ==
  \E o \in Orgs, v \in CliVerifiers :
    LET q == [Call("issue_code") EXCEPT !.org = o, !.verifier = v, !.user = u] IN
    Begin(r, q) /\ MayIssue(q)
StoreCode(r) ==
  /\ Ready(r, "issue_code")
  /\ \E c \in Codes :
       /\ codes[c].status = "unused"
       /\ codes' = [codes EXCEPT ![c] = [status |-> "stored", user |-> req[r].user,
                                         org |-> req[r].org, challenge |-> req[r].verifier]]
       /\ stale' = IF RequireMembership(req[r]) THEN stale ELSE stale \cup {c}
  /\ Ends(r)
  /\ UNCHANGED <<member, projects, keys>>

\* POST /cli/exchange: GET and the verification.  A missing code or a wrong verifier
\* is an error that leaves everything as it was.
\* Mutant: the code is taken out before the verifier is looked at.
ExchangeGetDel(r) ==
  /\ req[r].pc = "idle"
  /\ \E c \in Codes, v \in Verifiers :
       /\ codes[c].status = "stored"
       /\ codes' = [codes EXCEPT ![c].status = "used"]
       /\ req' = IF VerifyPkce(v, c)
                 THEN [req EXCEPT ![r] = [Call("exchange") EXCEPT !.pc = "consumed", !.code = c,
                           !.verifier = v, !.user = codes[c].user, !.org = codes[c].org]]
                 ELSE req
  /\ UNCHANGED <<member, projects, keys, stale>>
ExchangeGet(r) ==
  /\ req[r].pc = "idle"
  /\ \E c \in Codes, v \in Verifiers :
       /\ codes[c].status = "stored" /\ VerifyPkce(v, c)
       /\ req' = [req EXCEPT ![r] = [Call("exchange") EXCEPT !.pc = "verified", !.code = c,
                           !.verifier = v, !.user = codes[c].user, !.org = codes[c].org]]
  /\ UNCHANGED <<member, projects, keys, codes, stale>>

\* Mutant: the number of keys DEL removed is not looked at.
ExchangeDelAny(r) ==
  /\ req[r].pc = "verified"
  /\ codes' = [codes EXCEPT ![req[r].code].status = "used",
                            ![req[r].code].challenge = None]
  /\ req' = [req EXCEPT ![r].pc = "consumed"]
  /\ UNCHANGED <<member, projects, keys, stale>>
\* DEL: only the exchange that removes the key goes on.
ExchangeDel(r) ==
  /\ req[r].pc = "verified" /\ codes[req[r].code].status = "stored"
  /\ codes' = [codes EXCEPT ![req[r].code].status = "used",
                            ![req[r].code].challenge = None]
  /\ req' = [req EXCEPT ![r].pc = "consumed"]
  /\ UNCHANGED <<member, projects, keys, stale>>

\* Mutant: the membership is not verified again.
ExchangeTrusts(r) ==
  /\ req[r].pc = "consumed"
  /\ req' = [req EXCEPT ![r] = [Call("mint") EXCEPT !.org = req[r].org, !.ends = TRUE,
                                                   !.code = req[r].code]]
  /\ UNCHANGED <<member, projects, keys, codes, stale>>
\* require_membership again, then create_api_key (MintCommit).
ExchangeCheck(r) ==
  /\ req[r].pc = "consumed" /\ RequireMembership(req[r])
  /\ req' = [req EXCEPT ![r] = [Call("mint") EXCEPT !.org = req[r].org, !.ends = TRUE,
                                                   !.code = req[r].code]]
  /\ UNCHANGED <<member, projects, keys, codes, stale>>

-----------------------------------------------------------------------------
(* Time, and what Organizations does.                                      *)

CodeExpires(c) ==
  /\ codes[c].status = "stored"
  /\ codes' = [codes EXCEPT ![c].status = "expired", ![c].challenge = None]
  /\ UNCHANGED <<member, projects, keys, req, stale>>

KeyExpires(k) ==
  /\ keys[k].status = "active" /\ keys[k].ends /\ ~keys[k].late
  /\ keys' = [keys EXCEPT ![k].late = TRUE]
  /\ UNCHANGED <<member, projects, codes, req, stale>>

CodesOf(o, u) == {c \in Codes : codes[c].org = o /\ codes[c].user = u}
MembershipChanges(o, u, x) ==
  /\ Creator[o] \in Users \ {u} /\ member[o][u] # x
  /\ member' = [member EXCEPT ![o][u] = x]
  /\ stale' = IF x = None
              THEN stale \cup {c \in CodesOf(o, u) : codes[c].status = "stored"}
              ELSE stale \ CodesOf(o, u)
  /\ UNCHANGED <<projects, keys, codes, req>>

Route(r, u) ==
  \/ CreateApiKey(r, u) \/ RotateApiKey(r, u) \/ DropApiKey(r, u)
  \/ CreateProject(r, u) \/ UpdateProject(r, u) \/ DeleteProject(r, u)
  \/ IssueCode(r, u) \/ ServeJwt(r, u)

Handle(r) ==
  \/ MintCommit(r) \/ DropCommit(r)
  \/ CreateProjectCommit(r) \/ UpdateProjectCommit(r) \/ DeleteProjectCommit(r)
  \/ ServeKey(r) \/ Touch(r) \/ GetOrCreate(r) \/ ServeCommit(r)
  \/ StoreCode(r) \/ ExchangeGet(r) \/ ExchangeDel(r) \/ ExchangeCheck(r)
  \/ Rollback(r)

Next ==
  \/ \E r \in Requests, u \in Users : Route(r, u)
  \/ \E r \in Requests : Handle(r)
  \/ \E c \in Codes : CodeExpires(c)
  \/ \E k \in Keys : KeyExpires(k)
  \/ \E o \in Orgs, u \in Users, x \in JoinRoles \cup {None} : MembershipChanges(o, u, x)

Spec == Init /\ [][Next]_vars

-----------------------------------------------------------------------------
(* Properties.                                                             *)

\* The rows, the codes and the requests keep their types, a project in the table has
\* an organization and a name, and a key has an organization.
TypeOK ==
  /\ member \in [Orgs -> [Users -> Role \cup {None}]]
  /\ projects \in [Projects -> Project]
  /\ \A p \in LiveProjects : None \notin {projects[p].org, projects[p].name}
  /\ keys \in [Keys -> Key]
  /\ \A k \in Keys : keys[k].status # "unused" => keys[k].org # None
  /\ codes \in [Codes -> Code]
  /\ req \in [Requests -> Request]
  /\ stale \subseteq Codes

\* An authorization code is good for one API key, although exchange reads the code,
\* verifies and deletes it in separate calls and the CLI may send it twice.
MintedOnce == \A c \in Codes : Cardinality({k \in Keys : keys[k].code = c}) <= 1

\* A user who leaves the organization while the code waits in Redis gets no key with
\* it: issue_code's check is two minutes old when exchange runs.
LeaverGetsNoKey == \A c \in stale, k \in Keys : keys[k].code # c

\* "a wrong verifier never burns a code the legitimate CLI still needs"
\* (CliAuthService.exchange): a code is used up only by an exchange that has verified.
OnlyVerifiedBurns ==
  [][\A c \in Codes : codes[c].status = "stored" /\ codes'[c].status = "used" =>
       \E r \in Requests : req[r].code = c /\ VerifyPkce(req[r].verifier, c)]_vars

\* The project a data-plane request works on belongs to the organization of its
\* credential, whichever of X-Project-ID and X-Project-Name selected it and whatever
\* is renamed, deleted or created while the request is resolved.
ScopedToTenant ==
  \A r \in Requests : Ready(r, "serve") /\ ~req[r].insert =>
    /\ projects[req[r].project].org = req[r].org
    /\ req[r].key # None => keys[req[r].key].org = req[r].org

\* The types hold, and an organization has one project of a name, although requests create projects on
\* first use, administrators create and rename them, and all look before they insert.
OneProjectPerName ==
  TypeOK /\ \A o \in Orgs, n \in Names : Cardinality(ByName(o, n)) <= 1
===============================================================================
