-------------------------- MODULE CredentialsProofs --------------------------
(***************************************************************************)
(* For any number of organizations, keys, projects, codes and concurrent   *)
(* requests: an authorization code mints one key, one whose user has left  *)
(* mints none, only an exchange that has verified burns it, a data-plane   *)
(* request works on a project of its own tenant, and a name stands for one *)
(* project of an organization.                                             *)
(*                                                                         *)
(* A request acts on what earlier steps of it read.  ProjectOK, KeyOK and  *)
(* CodeOK say what of that is still true, table by table; UniqueNames,     *)
(* Tokens and CodeRows relate the tables and the requests to each other.   *)
(***************************************************************************)
EXTENDS Credentials, FiniteSetTheorems, TLAPS

-----------------------------------------------------------------------------
(* The inductive invariant.                                                *)

\* What a request relies on in the table of projects.  An insert that is not committed
\* has a row of its own, and its pair of organization and name to itself.
ProjectOK(q) ==
  /\ q.pc \in {"idle", "looked", "missing", "verified", "consumed"} => ~q.insert
  /\ q.insert => q.op = "serve" /\ q.org \in Orgs /\ q.name \in Names
                 /\ q.project \in Projects /\ projects[q.project].status = "unused"
                 /\ ByName(q.org, q.name) = {}
  /\ q.pc \in {"looked", "missing"} => q.op = "serve" /\ q.org \in Orgs /\ q.name \in Names
  /\ q.pc = "ready" /\ q.op \in {"create_project", "update_project"} =>
       q.org \in Orgs /\ q.name \in Names
  /\ q.pc = "ready" /\ q.op \in {"update_project", "delete_project", "serve"} /\ ~q.insert =>
       /\ q.project \in Projects /\ q.org \in Orgs
       /\ projects[q.project].status # "unused" /\ projects[q.project].org = q.org

\* And in the table of API keys.
KeyOK(q) ==
  /\ q.pc = "ready" /\ q.op \in {"revoke_api_key", "delete_api_key"} =>
       q.key \in Keys /\ keys[q.key].status # "unused"
  /\ q.op = "serve" /\ q.key # None =>
       keys[q.key].status # "unused" /\ keys[q.key].org = q.org

\* The request has taken the code out of Redis and has not ended.
Holds(q) == q.pc = "consumed" \/ (q.pc = "ready" /\ q.op = "mint" /\ q.code # None)

\* And of its authorization code.
CodeOK(q) ==
  /\ q.pc = "ready" /\ q.op = "mint" => q.org \in Orgs
  /\ q.pc = "ready" /\ q.op = "issue_code" => q.user \in Users /\ q.org \in Orgs
  /\ q.pc \in {"verified", "consumed"} =>
       /\ q.code \in Codes /\ codes[q.code].status # "unused"
       /\ codes[q.code].user = q.user /\ codes[q.code].org = q.org
  /\ q.pc = "verified" /\ codes[q.code].status = "stored" => VerifyPkce(q.verifier, q.code)
  /\ Holds(q) => q.code \in Codes /\ codes[q.code].status = "used"
  /\ q.pc = "ready" /\ q.op = "mint" => q.code \notin stale

\* One project of a name, counting the ones being inserted.
UniqueNames ==
  /\ \A p, q \in LiveProjects :
       projects[p].org = projects[q].org /\ projects[p].name = projects[q].name => p = q
  /\ \A r, s \in Requests : r # s /\ req[r].insert /\ req[s].insert =>
       /\ req[r].project # req[s].project
       /\ ~(req[r].org = req[s].org /\ req[r].name = req[s].name)

\* A code is with one request, or in one key.
Tokens ==
  /\ \A r, s \in Requests : r # s /\ Holds(req[r]) /\ Holds(req[s]) => req[r].code # req[s].code
  /\ \A r \in Requests : Holds(req[r]) => \A k \in Keys : keys[k].code # req[r].code
  /\ \A k, l \in Keys : keys[k].code = keys[l].code /\ keys[k].code # None => k = l
  /\ \A k \in Keys : keys[k].code # None =>
       codes[keys[k].code].status = "used" /\ keys[k].code \notin stale

\* A code that is there has a user and an organization; a stale one, a user who is out.
CodeRows ==
  /\ \A c \in Codes : codes[c].status # "unused" => codes[c].user \in Users /\ codes[c].org \in Orgs
  /\ \A c \in stale : codes[c].status # "unused" /\ member[codes[c].org][codes[c].user] = None

Inv ==
  /\ TypeOK /\ UniqueNames /\ Tokens /\ CodeRows
  /\ \A r \in Requests : ProjectOK(req[r]) /\ KeyOK(req[r]) /\ CodeOK(req[r])

-----------------------------------------------------------------------------
(* Steps that only change requests.                                        *)

LEMMA NoneDistinct ==
  /\ None \notin Users /\ None \notin Orgs /\ None \notin Projects /\ None \notin Names
  /\ None \notin Keys /\ None \notin Codes /\ None \notin Verifiers
BY CredentialAssumption

LEMMA IdleOK ==
  /\ Idle \in Request /\ Idle.pc = "idle" /\ ~Idle.insert /\ Idle.key = None
  /\ ~Holds(Idle)
BY DEF Idle, Request, Holds

\* An idle request relies on nothing.
LEMMA IdleRelies ==
  ProjectOK(Idle)' /\ KeyOK(Idle)' /\ CodeOK(Idle)' /\ ProjectOK(Idle) /\ KeyOK(Idle) /\ CodeOK(Idle)
BY IdleOK DEF ProjectOK, KeyOK, CodeOK

\* A request that goes on takes no code another one holds and no row another one inserts.
LEMMA RequestOnly ==
  ASSUME Inv, NEW r \in Requests, NEW q \in Request,
         req' = [req EXCEPT ![r] = q], UNCHANGED <<member, projects, keys, codes, stale>>,
         ProjectOK(q), KeyOK(q), CodeOK(q),
         Holds(q) => Holds(req[r]) /\ q.code = req[r].code,
         q.insert => \A s \in Requests \ {r} : req[s].insert =>
           /\ req[s].project # q.project
           /\ ~(req[s].org = q.org /\ req[s].name = q.name)
  PROVE  Inv'
<1>1. req' \in [Requests -> Request] /\ req'[r] = q /\ \A s \in Requests \ {r} : req'[s] = req[s]
  BY DEF Inv, TypeOK
<1>2. TypeOK'
  BY <1>1 DEF Inv, TypeOK, LiveProjects
<1>3. UniqueNames'
  <2>1. \A p, x \in LiveProjects' :
          projects'[p].org = projects'[x].org /\ projects'[p].name = projects'[x].name => p = x
    BY DEF Inv, UniqueNames, LiveProjects
  <2>2. \A t, s \in Requests : t # s /\ req'[t].insert /\ req'[s].insert =>
          /\ req'[t].project # req'[s].project
          /\ ~(req'[t].org = req'[s].org /\ req'[t].name = req'[s].name)
    BY <1>1 DEF Inv, UniqueNames
  <2> QED BY <2>1, <2>2 DEF UniqueNames
<1>4. Tokens'
  <2>1. \A s \in Requests : Holds(req'[s]) => Holds(req[s]) /\ req'[s].code = req[s].code
    BY <1>1
  <2>2. \A s \in Requests : Holds(req[s])' <=> Holds(req'[s])
    BY DEF Holds
  <2> QED BY <2>1, <2>2 DEF Inv, Tokens
<1>5. CodeRows'
  BY DEF Inv, CodeRows
<1>6. ASSUME NEW s \in Requests PROVE (ProjectOK(req[s]) /\ KeyOK(req[s]) /\ CodeOK(req[s]))'
  <2>1. PICK p : p = req'[s]
    OBVIOUS
  <2>2. ProjectOK(p) /\ KeyOK(p) /\ CodeOK(p)
    BY <1>1, <2>1 DEF Inv
  <2>3. ProjectOK(p)'
    BY <2>2 DEF ProjectOK, ByName, LiveProjects
  <2>4. KeyOK(p)'
    BY <2>2 DEF KeyOK
  <2>5. CodeOK(p)'
    BY <2>2 DEF CodeOK, Holds, VerifyPkce
  <2> QED BY <2>1, <2>3, <2>4, <2>5 DEF ProjectOK, KeyOK, CodeOK, ByName, LiveProjects, Holds, VerifyPkce
<1> QED BY <1>2, <1>3, <1>4, <1>5, <1>6 DEF Inv

LEMMA RollbackOK ==
  ASSUME Inv, NEW r \in Requests, Rollback(r)
  PROVE  Inv'
<1>1. req' = [req EXCEPT ![r] = Idle] /\ UNCHANGED <<member, projects, keys, codes, stale>>
  BY DEF Rollback
<1> QED BY <1>1, IdleOK, IdleRelies, RequestOnly

\* The requests of a user begin with what their checks have established.
LEMMA BeginOK ==
  ASSUME Inv, NEW r \in Requests, NEW q \in Request, Begin(r, q),
         ~q.insert, ~Holds(q), ProjectOK(q), KeyOK(q), CodeOK(q)
  PROVE  Inv'
<1>1. req' = [req EXCEPT ![r] = q] /\ UNCHANGED <<member, projects, keys, codes, stale>>
  BY DEF Begin
<1> QED BY <1>1, RequestOnly

\* Bearer requests as records.
Bearer(q, op, u, o) ==
  /\ q \in Request /\ q.pc = "ready" /\ q.op = op /\ q.user = u /\ q.org = o
  /\ q.code = None /\ ~q.insert

LEMMA CreateApiKeyOK ==
  ASSUME Inv, NEW r \in Requests, NEW u \in Users, CreateApiKey(r, u)
  PROVE  Inv'
<1>1. PICK o \in Orgs, ends \in Expires :
        Begin(r, [Call("mint") EXCEPT !.org = o, !.ends = ends, !.user = u])
  BY DEF CreateApiKey
<1>2. PICK q : q = [Call("mint") EXCEPT !.org = o, !.ends = ends, !.user = u]
  OBVIOUS
<1>3. Bearer(q, "mint", u, o) /\ q.key = None
  BY <1>2, CredentialAssumption DEF Bearer, Call, Idle, Request, Ops
<1>4. ~Holds(q) /\ ProjectOK(q) /\ KeyOK(q) /\ CodeOK(q)
  BY <1>3, NoneDistinct DEF Bearer, Holds, ProjectOK, KeyOK, CodeOK, Inv, TypeOK
<1> QED BY <1>1, <1>2, <1>3, <1>4, BeginOK DEF Bearer

LEMMA RotateApiKeyOK ==
  ASSUME Inv, NEW r \in Requests, NEW u \in Users, RotateApiKey(r, u)
  PROVE  Inv'
<1>1. PICK o \in Orgs :
        Begin(r, [Call("mint") EXCEPT !.org = o, !.ends = TRUE, !.user = u])
  BY DEF RotateApiKey
<1>2. PICK q : q = [Call("mint") EXCEPT !.org = o, !.ends = TRUE, !.user = u]
  OBVIOUS
<1>3. Bearer(q, "mint", u, o) /\ q.key = None
  BY <1>2 DEF Bearer, Call, Idle, Request, Ops
<1>4. ~Holds(q) /\ ProjectOK(q) /\ KeyOK(q) /\ CodeOK(q)
  BY <1>3, NoneDistinct DEF Bearer, Holds, ProjectOK, KeyOK, CodeOK, Inv, TypeOK
<1> QED BY <1>1, <1>2, <1>3, <1>4, BeginOK DEF Bearer

LEMMA DropApiKeyOK ==
  ASSUME Inv, NEW r \in Requests, NEW u \in Users, DropApiKey(r, u)
  PROVE  Inv'
<1>1. PICK o \in Orgs, k \in Keys, op \in {"revoke_api_key", "delete_api_key"} :
        LET q == [Call(op) EXCEPT !.org = o, !.key = k, !.user = u] IN
        Begin(r, q) /\ MayDropKey(q)
  BY DEF DropApiKey
<1>2. PICK q : q = [Call(op) EXCEPT !.org = o, !.key = k, !.user = u]
  OBVIOUS
<1>3. Bearer(q, op, u, o) /\ q.key = k
  BY <1>2 DEF Bearer, Call, Idle, Request, Ops
<1>4. keys[k].status # "unused"
  BY <1>1, <1>2, <1>3 DEF MayDropKey, KeyOfOrg
<1>5. ~Holds(q) /\ ProjectOK(q) /\ KeyOK(q) /\ CodeOK(q)
  BY <1>3, <1>4 DEF Bearer, Holds, ProjectOK, KeyOK, CodeOK
<1> QED BY <1>1, <1>2, <1>3, <1>5, BeginOK DEF Bearer

LEMMA CreateProjectOK ==
  ASSUME Inv, NEW r \in Requests, NEW u \in Users, CreateProject(r, u)
  PROVE  Inv'
<1>1. PICK o \in Orgs, n \in Names :
        Begin(r, [Call("create_project") EXCEPT !.org = o, !.name = n, !.user = u])
  BY DEF CreateProject
<1>2. PICK q : q = [Call("create_project") EXCEPT !.org = o, !.name = n, !.user = u]
  OBVIOUS
<1>3. Bearer(q, "create_project", u, o) /\ q.name = n
  BY <1>2 DEF Bearer, Call, Idle, Request, Ops
<1>4. ~Holds(q) /\ ProjectOK(q) /\ KeyOK(q) /\ CodeOK(q)
  BY <1>3 DEF Bearer, Holds, ProjectOK, KeyOK, CodeOK
<1> QED BY <1>1, <1>2, <1>3, <1>4, BeginOK DEF Bearer

\* ProjectOfOrg has found the project in the organization.
LEMMA OnProjectOK ==
  ASSUME Inv, NEW r \in Requests, NEW u \in Users, NEW o \in Orgs, NEW p \in Projects,
         NEW op \in {"update_project", "delete_project", "serve"}, NEW q,
         Begin(r, q), ProjectOfOrg(q), Bearer(q, op, u, o), q.project = p,
         op = "update_project" => q.name \in Names, q.key = None
  PROVE  Inv'
<1>1. projects[p].status # "unused" /\ projects[p].org = o
  BY DEF ProjectOfOrg, LiveProjects, Bearer
<1>2. ~Holds(q) /\ ProjectOK(q) /\ KeyOK(q) /\ CodeOK(q)
  BY <1>1 DEF Bearer, Holds, ProjectOK, KeyOK, CodeOK
<1> QED BY <1>2, BeginOK DEF Bearer

LEMMA UpdateProjectOK ==
  ASSUME Inv, NEW r \in Requests, NEW u \in Users, UpdateProject(r, u)
  PROVE  Inv'
<1>1. PICK o \in Orgs, p \in Projects, n \in Names :
        LET q == [Call("update_project") EXCEPT !.org = o, !.project = p, !.name = n, !.user = u] IN
        Begin(r, q) /\ MayUpdateProject(q)
  BY DEF UpdateProject
<1>2. PICK q : q = [Call("update_project") EXCEPT !.org = o, !.project = p, !.name = n, !.user = u]
  OBVIOUS
<1>3. Bearer(q, "update_project", u, o) /\ q.project = p /\ q.name = n /\ q.key = None
  BY <1>2 DEF Bearer, Call, Idle, Request, Ops
<1>4. Begin(r, q) /\ ProjectOfOrg(q)
  BY <1>1, <1>2 DEF MayUpdateProject
<1> QED BY <1>3, <1>4, OnProjectOK

LEMMA DeleteProjectOK ==
  ASSUME Inv, NEW r \in Requests, NEW u \in Users, DeleteProject(r, u)
  PROVE  Inv'
<1>1. PICK o \in Orgs, p \in Projects :
        LET q == [Call("delete_project") EXCEPT !.org = o, !.project = p, !.user = u] IN
        Begin(r, q) /\ MayDeleteProject(q)
  BY DEF DeleteProject
<1>2. PICK q : q = [Call("delete_project") EXCEPT !.org = o, !.project = p, !.user = u]
  OBVIOUS
<1>3. Bearer(q, "delete_project", u, o) /\ q.project = p /\ q.key = None
  BY <1>2 DEF Bearer, Call, Idle, Request, Ops
<1>4. Begin(r, q) /\ ProjectOfOrg(q)
  BY <1>1, <1>2 DEF MayDeleteProject
<1> QED BY <1>3, <1>4, OnProjectOK

LEMMA ServeJwtOK ==
  ASSUME Inv, NEW r \in Requests, NEW u \in Users, ServeJwt(r, u)
  PROVE  Inv'
<1>1. PICK o \in Orgs, p \in Projects :
        LET q == [Call("serve") EXCEPT !.org = o, !.project = p, !.user = u] IN
        Begin(r, q) /\ MayServe(q)
  BY DEF ServeJwt
<1>2. PICK q : q = [Call("serve") EXCEPT !.org = o, !.project = p, !.user = u]
  OBVIOUS
<1>3. Bearer(q, "serve", u, o) /\ q.project = p /\ q.key = None
  BY <1>2 DEF Bearer, Call, Idle, Request, Ops
<1>4. Begin(r, q) /\ ProjectOfOrg(q)
  BY <1>1, <1>2 DEF MayServe
<1> QED BY <1>3, <1>4, OnProjectOK

LEMMA IssueCodeOK ==
  ASSUME Inv, NEW r \in Requests, NEW u \in Users, IssueCode(r, u)
  PROVE  Inv'
<1>1. PICK o \in Orgs, v \in CliVerifiers :
        Begin(r, [Call("issue_code") EXCEPT !.org = o, !.verifier = v, !.user = u])
  BY DEF IssueCode
<1>2. PICK q : q = [Call("issue_code") EXCEPT !.org = o, !.verifier = v, !.user = u]
  OBVIOUS
<1>3. Bearer(q, "issue_code", u, o)
  BY <1>2, CredentialAssumption DEF Bearer, Call, Idle, Request, Ops
<1>4. ~Holds(q) /\ ProjectOK(q) /\ KeyOK(q) /\ CodeOK(q)
  BY <1>3 DEF Bearer, Holds, ProjectOK, KeyOK, CodeOK
<1> QED BY <1>1, <1>2, <1>3, <1>4, BeginOK DEF Bearer

\* A key that is looked up is in the table, with its organization.
LEMMA ServeKeyOK ==
  ASSUME Inv, NEW r \in Requests, ServeKey(r)
  PROVE  Inv'
<1>1. PICK k \in Keys, n \in Names :
        /\ KeyUsable(k)
        /\ req' = [req EXCEPT ![r] = [Call("serve") EXCEPT !.pc = "looked", !.key = k,
                                                           !.org = keys[k].org, !.name = n]]
        /\ UNCHANGED <<member, projects, keys, codes, stale>>
  BY DEF ServeKey
<1>2. keys[k].org \in Orgs /\ keys[k].status # "unused"
  BY <1>1 DEF KeyUsable, Inv, TypeOK, Key
<1>3. PICK q : q = [Call("serve") EXCEPT !.pc = "looked", !.key = k, !.org = keys[k].org, !.name = n]
  OBVIOUS
<1>4. /\ q \in Request /\ q.pc = "looked" /\ q.op = "serve" /\ q.key = k /\ q.org = keys[k].org
      /\ q.name = n /\ ~q.insert
  BY <1>2, <1>3 DEF Call, Idle, Request, Ops
<1>5. ~Holds(q) /\ ProjectOK(q) /\ KeyOK(q) /\ CodeOK(q)
  BY <1>2, <1>4 DEF Holds, ProjectOK, KeyOK, CodeOK
<1> QED BY <1>1, <1>3, <1>4, <1>5, RequestOnly

\* Between its steps a data-plane request keeps its key, organization and name.
LEMMA ServeOn ==
  ASSUME Inv, NEW r \in Requests, req[r].pc \in {"looked", "missing"},
         NEW q \in Request, q.pc \in {"missing", "ready"}, q.op = req[r].op, q.key = req[r].key,
         q.org = req[r].org, q.name = req[r].name
  PROVE  /\ q.op = "serve" /\ q.org \in Orgs /\ q.name \in Names
         /\ KeyOK(q) /\ CodeOK(q) /\ ~Holds(q)
<1>1. /\ req[r].op = "serve" /\ req[r].org \in Orgs /\ req[r].name \in Names
      /\ KeyOK(req[r])
  BY DEF Inv, ProjectOK
<1> QED BY <1>1 DEF KeyOK, CodeOK, Holds

\* The project that was found is one of this organization, and in the table.
LEMMA FoundOK ==
  ASSUME Inv, NEW r \in Requests, req[r].pc \in {"looked", "missing"},
         NEW p \in ByName(req[r].org, req[r].name),
         req' = [req EXCEPT ![r].pc = "ready", ![r].project = p],
         UNCHANGED <<member, projects, keys, codes, stale>>
  PROVE  Inv'
<1>1. p \in Projects /\ projects[p].status # "unused" /\ projects[p].org = req[r].org
  BY DEF ByName, LiveProjects
<1>2. req[r] \in Request /\ ~req[r].insert
  BY DEF Inv, TypeOK, ProjectOK
<1>3. PICK q : q = [req[r] EXCEPT !.pc = "ready", !.project = p]
  OBVIOUS
<1>4. req' = [req EXCEPT ![r] = q]
  BY <1>3 DEF Inv, TypeOK
<1>5. /\ q \in Request /\ q.pc = "ready" /\ q.op = req[r].op /\ q.project = p /\ ~q.insert
      /\ q.org = req[r].org /\ q.name = req[r].name /\ q.key = req[r].key
  BY <1>1, <1>2, <1>3 DEF Request
<1>6. q.op = "serve" /\ q.org \in Orgs /\ KeyOK(q) /\ CodeOK(q) /\ ~Holds(q)
  BY <1>5, ServeOn
<1>7. ProjectOK(q)
  BY <1>1, <1>5, <1>6 DEF ProjectOK
<1> QED BY <1>4, <1>5, <1>6, <1>7, RequestOnly

LEMMA TouchOK ==
  ASSUME Inv, NEW r \in Requests, Touch(r)
  PROVE  Inv'
<1>1. req[r].pc = "looked" /\ UNCHANGED <<member, projects, keys, codes, stale>>
  BY DEF Touch
<1>2. CASE \E p \in ByName(req[r].org, req[r].name) :
             req' = [req EXCEPT ![r].pc = "ready", ![r].project = p]
  BY <1>1, <1>2, FoundOK
<1>3. CASE req' = [req EXCEPT ![r].pc = "missing"]
  <2>1. req[r] \in Request /\ ~req[r].insert
    BY <1>1 DEF Inv, TypeOK, ProjectOK
  <2>2. PICK q : q = [req[r] EXCEPT !.pc = "missing"]
    OBVIOUS
  <2>3. req' = [req EXCEPT ![r] = q]
    BY <1>3, <2>2 DEF Inv, TypeOK
  <2>4. /\ q \in Request /\ q.pc = "missing" /\ q.op = req[r].op /\ ~q.insert
        /\ q.org = req[r].org /\ q.name = req[r].name /\ q.key = req[r].key
    BY <2>1, <2>2 DEF Request
  <2>5. /\ q.op = "serve" /\ q.org \in Orgs /\ q.name \in Names
        /\ KeyOK(q) /\ CodeOK(q) /\ ~Holds(q)
    BY <1>1, <2>4, ServeOn
  <2>6. ProjectOK(q)
    BY <2>4, <2>5 DEF ProjectOK
  <2> QED BY <1>1, <2>3, <2>4, <2>5, <2>6, RequestOnly
<1> QED BY <1>2, <1>3 DEF Touch

\* uq_project_org_name lets one insert of the pair in.
LEMMA GetOrCreateOK ==
  ASSUME Inv, NEW r \in Requests, GetOrCreate(r)
  PROVE  Inv'
<1>1. req[r].pc = "missing" /\ UNCHANGED <<member, projects, keys, codes, stale>>
  BY DEF GetOrCreate
<1>2. CASE \E p \in ByName(req[r].org, req[r].name) :
             req' = [req EXCEPT ![r].pc = "ready", ![r].project = p]
  BY <1>1, <1>2, FoundOK
<1>3. CASE /\ NameFree(r, req[r].org, req[r].name)
           /\ \E p \in NewProject :
                req' = [req EXCEPT ![r].pc = "ready", ![r].project = p, ![r].insert = TRUE]
  <2>1. PICK p \in NewProject :
          req' = [req EXCEPT ![r].pc = "ready", ![r].project = p, ![r].insert = TRUE]
    BY <1>3
  <2>2. /\ p \in Projects /\ projects[p].status = "unused"
        /\ \A s \in Requests : ~(req[s].insert /\ req[s].project = p)
    BY DEF NewProject
  <2>3. PICK q : q = [req[r] EXCEPT !.pc = "ready", !.project = p, !.insert = TRUE]
    OBVIOUS
  <2>4. req' = [req EXCEPT ![r] = q]
    BY <2>1, <2>3 DEF Inv, TypeOK
  <2>5. /\ q \in Request /\ q.pc = "ready" /\ q.op = req[r].op /\ q.project = p
        /\ q.insert = TRUE
        /\ q.org = req[r].org /\ q.name = req[r].name /\ q.key = req[r].key
    <3>1. req[r] \in Request
      BY DEF Inv, TypeOK
    <3> QED BY <2>2, <2>3, <3>1 DEF Request
  <2>6. /\ q.op = "serve" /\ q.org \in Orgs /\ q.name \in Names
        /\ KeyOK(q) /\ CodeOK(q) /\ ~Holds(q)
    BY <1>1, <2>5, ServeOn
  <2>7. ByName(q.org, q.name) = {}
    BY <1>3, <2>5 DEF NameFree
  <2>8. ProjectOK(q)
    BY <2>2, <2>5, <2>6, <2>7 DEF ProjectOK
  <2>9. \A s \in Requests \ {r} : req[s].insert =>
          req[s].project # p /\ ~(req[s].org = q.org /\ req[s].name = q.name)
    BY <1>3, <2>2, <2>5 DEF NameFree, Inserting
  <2> QED BY <1>1, <2>4, <2>5, <2>6, <2>8, <2>9, RequestOnly
<1> QED BY <1>2, <1>3 DEF GetOrCreate

\* GET and verify_pkce.
LEMMA ExchangeGetOK ==
  ASSUME Inv, NEW r \in Requests, ExchangeGet(r)
  PROVE  Inv'
<1>1. PICK c \in Codes, v \in Verifiers :
        /\ codes[c].status = "stored" /\ VerifyPkce(v, c)
        /\ req' = [req EXCEPT ![r] = [Call("exchange") EXCEPT !.pc = "verified", !.code = c,
                             !.verifier = v, !.user = codes[c].user, !.org = codes[c].org]]
        /\ UNCHANGED <<member, projects, keys, codes, stale>>
  BY DEF ExchangeGet
<1>2. codes[c].user \in Users /\ codes[c].org \in Orgs
  BY <1>1 DEF Inv, CodeRows
<1>3. PICK q : q = [Call("exchange") EXCEPT !.pc = "verified", !.code = c,
                             !.verifier = v, !.user = codes[c].user, !.org = codes[c].org]
  OBVIOUS
<1>4. /\ q \in Request /\ q.pc = "verified" /\ q.op = "exchange" /\ q.code = c /\ q.verifier = v
      /\ q.user = codes[c].user /\ q.org = codes[c].org /\ ~q.insert
  BY <1>2, <1>3 DEF Call, Idle, Request, Ops
<1>5. ~Holds(q) /\ ProjectOK(q) /\ KeyOK(q) /\ CodeOK(q)
  BY <1>1, <1>4 DEF Holds, ProjectOK, KeyOK, CodeOK
<1> QED BY <1>1, <1>3, <1>4, <1>5, RequestOnly

\* The membership is verified again: the code is not stale.
LEMMA ExchangeCheckOK ==
  ASSUME Inv, NEW r \in Requests, ExchangeCheck(r)
  PROVE  Inv'
<1>1. /\ req[r].pc = "consumed" /\ RequireMembership(req[r])
      /\ req' = [req EXCEPT ![r] = [Call("mint") EXCEPT !.org = req[r].org, !.ends = TRUE,
                                                       !.code = req[r].code]]
      /\ UNCHANGED <<member, projects, keys, codes, stale>>
  BY DEF ExchangeCheck
<1>2. PICK c \in Codes : c = req[r].code
  BY <1>1 DEF Inv, CodeOK
<1>3. codes[c].status = "used" /\ codes[c].user = req[r].user /\ codes[c].org = req[r].org
  BY <1>1, <1>2 DEF Inv, CodeOK, Holds
<1>4. c \notin stale /\ req[r].org \in Orgs
  BY <1>1, <1>3 DEF Inv, CodeRows, RequireMembership
<1>5. PICK q : q = [Call("mint") EXCEPT !.org = req[r].org, !.ends = TRUE, !.code = req[r].code]
  OBVIOUS
<1>6. /\ q \in Request /\ q.pc = "ready" /\ q.op = "mint" /\ q.code = c /\ q.org = req[r].org /\ ~q.insert
      /\ q.key = None
  BY <1>2, <1>4, <1>5 DEF Call, Idle, Request, Ops
<1>7. Holds(req[r]) /\ Holds(q)
  BY <1>1, <1>6, NoneDistinct DEF Holds
<1>8. ProjectOK(q) /\ KeyOK(q) /\ CodeOK(q)
  BY <1>3, <1>4, <1>6 DEF Holds, ProjectOK, KeyOK, CodeOK
<1> QED BY <1>1, <1>2, <1>5, <1>6, <1>7, <1>8, RequestOnly

-----------------------------------------------------------------------------
(* Commits.                                                                *)

\* A step that ends the requests R, and goes on with no other.
Ended(R) == req' \in [Requests -> Request] /\ \A s \in Requests :
              req'[s] = Idle \/ (s \notin R /\ req'[s] = req[s])

LEMMA EndsIs ==
  ASSUME Inv, NEW r \in Requests, Ends(r)
  PROVE  Ended({r})
BY IdleOK DEF Inv, TypeOK, Ends, Ended

\* A row of projects that is in the table stays there and keeps its organization, and the
\* rows and pairs that other requests are inserting stay theirs.
LEMMA ProjectsCommit ==
  ASSUME Inv, NEW r \in Requests, Ended({r}), UNCHANGED <<member, keys, codes, stale>>,
         projects' \in [Projects -> Project],
         \A p \in Projects : projects[p].status # "unused" =>
           projects'[p].status # "unused" /\ projects'[p].org = projects[p].org,
         \A p \in Projects : projects'[p].status = "live" =>
           projects'[p].org # None /\ projects'[p].name # None,
         \A p, q \in Projects :
           (projects'[p].status = "live" /\ projects'[q].status = "live"
            /\ projects'[p].org = projects'[q].org /\ projects'[p].name = projects'[q].name) => p = q,
         \A s \in Requests \ {r} : req[s].insert =>
           /\ projects'[req[s].project].status = "unused"
           /\ \A p \in Projects : projects'[p].status = "live" =>
                ~(projects'[p].org = req[s].org /\ projects'[p].name = req[s].name)
  PROVE  Inv'
<1>1. TypeOK'
  BY DEF Inv, TypeOK, Ended, LiveProjects
<1>2. \A s \in Requests : req'[s].insert => s # r /\ req'[s] = req[s]
  BY IdleOK DEF Ended
<1>3. UniqueNames'
  BY <1>2 DEF Inv, UniqueNames, LiveProjects
<1>4. \A s \in Requests : Holds(req'[s]) => req'[s] = req[s]
  BY IdleOK DEF Ended
<1>5. Tokens'
  <2>1. \A s \in Requests : Holds(req[s])' <=> Holds(req'[s])
    BY DEF Holds
  <2> QED BY <1>4, <2>1 DEF Inv, Tokens
<1>6. CodeRows'
  BY DEF Inv, CodeRows
<1>7. ASSUME NEW s \in Requests PROVE (ProjectOK(req[s]) /\ KeyOK(req[s]) /\ CodeOK(req[s]))'
  <2>1. CASE req'[s] = Idle
    BY <2>1, IdleRelies DEF ProjectOK, KeyOK, CodeOK, ByName, LiveProjects, Holds, VerifyPkce
  <2>2. CASE s # r /\ req'[s] = req[s]
    <3>1. PICK p : p = req[s]
      OBVIOUS
    <3>2. ProjectOK(p) /\ KeyOK(p) /\ CodeOK(p)
      BY <3>1 DEF Inv
    <3>3. p.insert => projects'[p.project].status = "unused" /\ ByName(p.org, p.name)' = {}
      BY <2>2, <3>1 DEF ByName, LiveProjects
    <3>4. ProjectOK(p)'
      BY <3>2, <3>3 DEF ProjectOK
    <3>5. KeyOK(p)' /\ CodeOK(p)'
      BY <3>2 DEF KeyOK, CodeOK, Holds, VerifyPkce
    <3> QED BY <2>2, <3>1, <3>4, <3>5 DEF ProjectOK, KeyOK, CodeOK, ByName, LiveProjects, Holds, VerifyPkce
  <2> QED BY <2>1, <2>2 DEF Ended
<1> QED BY <1>1, <1>3, <1>5, <1>6, <1>7 DEF Inv

LEMMA CreateProjectCommitOK ==
  ASSUME Inv, NEW r \in Requests, CreateProjectCommit(r)
  PROVE  Inv'
<1>1. PICK o, n : o = req[r].org /\ n = req[r].name
  OBVIOUS
<1>2. /\ req[r].pc = "ready" /\ req[r].op = "create_project" /\ NameFree(r, o, n) /\ Ends(r)
      /\ UNCHANGED <<member, keys, codes, stale>>
  BY <1>1 DEF CreateProjectCommit, Ready
<1>3. PICK p \in NewProject :
        projects' = [projects EXCEPT ![p] = [status |-> "live", org |-> o, name |-> n]]
  BY <1>1 DEF CreateProjectCommit
<1>4. o \in Orgs /\ n \in Names
  BY <1>1, <1>2 DEF Inv, ProjectOK
<1>5. /\ p \in Projects /\ projects[p].status = "unused"
      /\ \A s \in Requests : ~(req[s].insert /\ req[s].project = p)
  BY DEF NewProject
<1>6. /\ projects' \in [Projects -> Project]
      /\ projects'[p].status = "live" /\ projects'[p].org = o /\ projects'[p].name = n
      /\ \A x \in Projects \ {p} : projects'[x] = projects[x]
  BY <1>3, <1>4, <1>5 DEF Inv, TypeOK, Project
<1>7. \A x \in Projects : projects[x].status = "live" =>
        ~(projects[x].org = o /\ projects[x].name = n)
  BY <1>2 DEF NameFree, ByName, LiveProjects
<1>8. ASSUME NEW s \in Requests \ {r}, req[s].insert
      PROVE  /\ projects'[req[s].project].status = "unused"
             /\ \A x \in Projects : projects'[x].status = "live" =>
                  ~(projects'[x].org = req[s].org /\ projects'[x].name = req[s].name)
  <2>1. /\ req[s].project \in Projects /\ projects[req[s].project].status = "unused"
        /\ \A x \in Projects : projects[x].status = "live" =>
             ~(projects[x].org = req[s].org /\ projects[x].name = req[s].name)
    BY <1>8 DEF Inv, ProjectOK, ByName, LiveProjects
  <2>2. req[s].project # p /\ ~(req[s].org = o /\ req[s].name = n)
    BY <1>2, <1>5, <1>8 DEF NameFree, Inserting
  <2> QED BY <2>1, <2>2, <1>6
<1>9. /\ \A x \in Projects : projects[x].status # "unused" =>
           projects'[x].status # "unused" /\ projects'[x].org = projects[x].org
      /\ \A x \in Projects : projects'[x].status = "live" =>
           projects'[x].org # None /\ projects'[x].name # None
  BY <1>4, <1>5, <1>6, NoneDistinct DEF Inv, TypeOK, LiveProjects
<1>10. \A x, y \in Projects :
         (projects'[x].status = "live" /\ projects'[y].status = "live"
          /\ projects'[x].org = projects'[y].org /\ projects'[x].name = projects'[y].name) => x = y
  BY <1>6, <1>7 DEF Inv, UniqueNames, LiveProjects
<1> QED BY <1>2, <1>6, <1>8, <1>9, <1>10, EndsIs, ProjectsCommit

LEMMA UpdateProjectCommitOK ==
  ASSUME Inv, NEW r \in Requests, UpdateProjectCommit(r)
  PROVE  Inv'
<1>1. PICK p, n : p = req[r].project /\ n = req[r].name
  OBVIOUS
<1>2. /\ req[r].pc = "ready" /\ req[r].op = "update_project" /\ p \in LiveProjects /\ Ends(r)
      /\ projects[p].name = n \/ NameFree(r, req[r].org, n)
      /\ projects' = [projects EXCEPT ![p].name = n]
      /\ UNCHANGED <<member, keys, codes, stale>>
  BY <1>1 DEF UpdateProjectCommit, Ready
<1>3. /\ p \in Projects /\ projects[p].status = "live" /\ projects[p].org = req[r].org
      /\ projects[p].org \in Orgs /\ n \in Names /\ ~req[r].insert
  BY <1>1, <1>2 DEF Inv, ProjectOK, LiveProjects
<1>4. /\ projects' \in [Projects -> Project]
      /\ projects'[p].status = "live" /\ projects'[p].org = projects[p].org /\ projects'[p].name = n
      /\ \A x \in Projects \ {p} : projects'[x] = projects[x]
  BY <1>2, <1>3 DEF Inv, TypeOK, Project
<1>5. CASE projects[p].name = n
  <2>1. projects' = projects
    BY <1>2, <1>3, <1>5 DEF Inv, TypeOK, Project
  <2>2. ASSUME NEW s \in Requests \ {r}, req[s].insert
        PROVE  /\ projects'[req[s].project].status = "unused"
               /\ \A x \in Projects : projects'[x].status = "live" =>
                    ~(projects'[x].org = req[s].org /\ projects'[x].name = req[s].name)
    BY <2>1, <2>2 DEF Inv, ProjectOK, ByName, LiveProjects
  <2>3. /\ \A x \in Projects : projects'[x].status = "live" =>
             projects'[x].org # None /\ projects'[x].name # None
        /\ \A x, y \in Projects :
             (projects'[x].status = "live" /\ projects'[y].status = "live"
              /\ projects'[x].org = projects'[y].org /\ projects'[x].name = projects'[y].name) => x = y
    BY <2>1 DEF Inv, TypeOK, UniqueNames, LiveProjects
  <2> QED BY <1>2, <1>4, <2>1, <2>2, <2>3, EndsIs, ProjectsCommit
<1>6. CASE NameFree(r, req[r].org, n)
  <2>1. \A x \in Projects : projects[x].status = "live" =>
          ~(projects[x].org = projects[p].org /\ projects[x].name = n)
    BY <1>3, <1>6 DEF NameFree, ByName, LiveProjects
  <2>2. ASSUME NEW s \in Requests \ {r}, req[s].insert
        PROVE  /\ projects'[req[s].project].status = "unused"
               /\ \A x \in Projects : projects'[x].status = "live" =>
                    ~(projects'[x].org = req[s].org /\ projects'[x].name = req[s].name)
    <3>1. /\ req[s].project \in Projects /\ projects[req[s].project].status = "unused"
          /\ \A x \in Projects : projects[x].status = "live" =>
               ~(projects[x].org = req[s].org /\ projects[x].name = req[s].name)
      BY <2>2 DEF Inv, ProjectOK, ByName, LiveProjects
    <3>2. req[s].project # p /\ ~(req[s].org = projects[p].org /\ req[s].name = n)
      BY <1>3, <1>6, <2>2, <3>1 DEF NameFree, Inserting
    <3> QED BY <3>1, <3>2, <1>4
  <2>3. /\ \A x \in Projects : projects[x].status # "unused" =>
             projects'[x].status # "unused" /\ projects'[x].org = projects[x].org
        /\ \A x \in Projects : projects'[x].status = "live" =>
             projects'[x].org # None /\ projects'[x].name # None
    BY <1>3, <1>4, NoneDistinct DEF Inv, TypeOK, LiveProjects
  <2>4. \A x, y \in Projects :
          (projects'[x].status = "live" /\ projects'[y].status = "live"
           /\ projects'[x].org = projects'[y].org /\ projects'[x].name = projects'[y].name) => x = y
    BY <1>4, <2>1 DEF Inv, UniqueNames, LiveProjects
  <2> QED BY <1>2, <1>4, <2>2, <2>3, <2>4, EndsIs, ProjectsCommit
<1> QED BY <1>2, <1>5, <1>6

LEMMA DeleteProjectCommitOK ==
  ASSUME Inv, NEW r \in Requests, DeleteProjectCommit(r)
  PROVE  Inv'
<1>1. PICK p : p = req[r].project
  OBVIOUS
<1>2. /\ req[r].pc = "ready" /\ req[r].op = "delete_project" /\ Ends(r)
      /\ projects' = [projects EXCEPT ![p].status = "deleted", ![p].name = None]
      /\ UNCHANGED <<member, keys, codes, stale>>
  BY <1>1 DEF DeleteProjectCommit, Ready
<1>3. p \in Projects /\ projects[p].status # "unused"
  BY <1>1, <1>2 DEF Inv, ProjectOK
<1>4. /\ projects' \in [Projects -> Project]
      /\ projects'[p].status = "deleted" /\ projects'[p].org = projects[p].org
      /\ \A x \in Projects \ {p} : projects'[x] = projects[x]
  BY <1>2, <1>3 DEF Inv, TypeOK, Project
<1>5. ASSUME NEW s \in Requests \ {r}, req[s].insert
      PROVE  /\ projects'[req[s].project].status = "unused"
             /\ \A x \in Projects : projects'[x].status = "live" =>
                  ~(projects'[x].org = req[s].org /\ projects'[x].name = req[s].name)
  <2>1. /\ req[s].project \in Projects /\ projects[req[s].project].status = "unused"
        /\ \A x \in Projects : projects[x].status = "live" =>
             ~(projects[x].org = req[s].org /\ projects[x].name = req[s].name)
    BY <1>5 DEF Inv, ProjectOK, ByName, LiveProjects
  <2> QED BY <2>1, <1>3, <1>4
<1>6. /\ \A x \in Projects : projects[x].status # "unused" =>
           projects'[x].status # "unused" /\ projects'[x].org = projects[x].org
      /\ \A x \in Projects : projects'[x].status = "live" =>
           projects'[x].org # None /\ projects'[x].name # None
      /\ \A x, y \in Projects :
           (projects'[x].status = "live" /\ projects'[y].status = "live"
            /\ projects'[x].org = projects'[y].org /\ projects'[x].name = projects'[y].name) => x = y
  BY <1>4 DEF Inv, TypeOK, UniqueNames, LiveProjects
<1> QED BY <1>2, <1>4, <1>5, <1>6, EndsIs, ProjectsCommit

\* The project inserted on first use is the only one of its name when it commits.
LEMMA ServeCommitOK ==
  ASSUME Inv, NEW r \in Requests, ServeCommit(r)
  PROVE  Inv'
<1>1. PICK p, o, n : p = req[r].project /\ o = req[r].org /\ n = req[r].name
  OBVIOUS
<1>2. /\ req[r].op = "serve" /\ Ends(r) /\ UNCHANGED <<member, keys, codes, stale>>
      /\ projects' = IF req[r].insert
                     THEN [projects EXCEPT ![p] = [status |-> "live", org |-> o, name |-> n]]
                     ELSE projects
  BY <1>1 DEF ServeCommit, Ready
<1>3. ASSUME NEW s \in Requests \ {r}, req[s].insert
      PROVE  /\ req[s].project \in Projects /\ projects[req[s].project].status = "unused"
             /\ \A x \in Projects : projects[x].status = "live" =>
                  ~(projects[x].org = req[s].org /\ projects[x].name = req[s].name)
  BY <1>3 DEF Inv, ProjectOK, ByName, LiveProjects
<1>4. CASE ~req[r].insert
  <2>1. projects' = projects
    BY <1>2, <1>4
  <2>2. /\ projects' \in [Projects -> Project]
        /\ \A x \in Projects : projects'[x].status = "live" =>
             projects'[x].org # None /\ projects'[x].name # None
        /\ \A x, y \in Projects :
             (projects'[x].status = "live" /\ projects'[y].status = "live"
              /\ projects'[x].org = projects'[y].org /\ projects'[x].name = projects'[y].name) => x = y
    BY <2>1 DEF Inv, TypeOK, UniqueNames, LiveProjects
  <2>3. \A s \in Requests \ {r} : req[s].insert =>
          /\ projects'[req[s].project].status = "unused"
          /\ \A x \in Projects : projects'[x].status = "live" =>
               ~(projects'[x].org = req[s].org /\ projects'[x].name = req[s].name)
    BY <1>3, <2>1
  <2>4. \A x \in Projects : projects[x].status # "unused" =>
          projects'[x].status # "unused" /\ projects'[x].org = projects[x].org
    BY <2>1
  <2> QED BY <1>2, <2>2, <2>3, <2>4, EndsIs, ProjectsCommit
<1>5. CASE req[r].insert
  <2>1. /\ p \in Projects /\ projects[p].status = "unused" /\ o \in Orgs /\ n \in Names
        /\ \A x \in Projects : projects[x].status = "live" =>
             ~(projects[x].org = o /\ projects[x].name = n)
    BY <1>1, <1>5 DEF Inv, ProjectOK, ByName, LiveProjects
  <2>2. /\ projects' \in [Projects -> Project]
        /\ projects'[p].status = "live" /\ projects'[p].org = o /\ projects'[p].name = n
        /\ \A x \in Projects \ {p} : projects'[x] = projects[x]
    BY <1>2, <1>5, <2>1 DEF Inv, TypeOK, Project
  <2>3. ASSUME NEW s \in Requests \ {r}, req[s].insert
        PROVE  /\ projects'[req[s].project].status = "unused"
               /\ \A x \in Projects : projects'[x].status = "live" =>
                    ~(projects'[x].org = req[s].org /\ projects'[x].name = req[s].name)
    <3>1. req[s].project # p /\ ~(req[s].org = o /\ req[s].name = n)
      BY <1>1, <1>5, <2>3 DEF Inv, UniqueNames
    <3> QED BY <1>3, <2>2, <2>3, <3>1
  <2>4. /\ \A x \in Projects : projects[x].status # "unused" =>
             projects'[x].status # "unused" /\ projects'[x].org = projects[x].org
        /\ \A x \in Projects : projects'[x].status = "live" =>
             projects'[x].org # None /\ projects'[x].name # None
    BY <2>1, <2>2, NoneDistinct DEF Inv, TypeOK, LiveProjects
  <2>5. \A x, y \in Projects :
          (projects'[x].status = "live" /\ projects'[y].status = "live"
           /\ projects'[x].org = projects'[y].org /\ projects'[x].name = projects'[y].name) => x = y
    BY <2>1, <2>2 DEF Inv, UniqueNames, LiveProjects
  <2> QED BY <1>2, <2>2, <2>3, <2>4, <2>5, EndsIs, ProjectsCommit
<1> QED BY <1>4, <1>5

\* A key in the table keeps its organization; a code goes into a key only out of the
\* hands of a request of R, that ends.
LEMMA KeysCommit ==
  ASSUME Inv, NEW R \in SUBSET Requests, Ended(R), UNCHANGED <<member, projects, codes, stale>>,
         keys' \in [Keys -> Key],
         \A k \in Keys : keys'[k].status # "unused" => keys'[k].org # None,
         \A k \in Keys : keys[k].status # "unused" =>
           keys'[k].status # "unused" /\ keys'[k].org = keys[k].org,
         \A k, l \in Keys : keys'[k].code = keys'[l].code /\ keys'[k].code # None => k = l,
         \A k \in Keys : keys'[k].code = keys[k].code \/ keys'[k].code = None
           \/ \E r \in R : Holds(req[r]) /\ req[r].pc = "ready" /\ keys'[k].code = req[r].code
  PROVE  Inv'
<1>1. TypeOK'
  BY DEF Inv, TypeOK, Ended, LiveProjects
<1>2. \A s \in Requests : req'[s].insert => req'[s] = req[s]
  BY IdleOK DEF Ended
<1>3. UniqueNames'
  BY <1>2 DEF Inv, UniqueNames, LiveProjects
<1>4. \A s \in Requests : Holds(req'[s]) => s \notin R /\ req'[s] = req[s]
  BY IdleOK DEF Ended
<1>5. Tokens'
  <2>1. \A s \in Requests : Holds(req[s])' <=> Holds(req'[s])
    BY DEF Holds
  <2>2. \A s, t \in Requests : s # t /\ Holds(req'[s]) /\ Holds(req'[t]) => req'[s].code # req'[t].code
    BY <1>4 DEF Inv, Tokens
  <2>3. ASSUME NEW s \in Requests, Holds(req'[s]), NEW k \in Keys
        PROVE  keys'[k].code # req'[s].code
    <3>1. s \notin R /\ req'[s] = req[s] /\ Holds(req[s])
      BY <1>4, <2>3
    <3>2. req[s].code \in Codes /\ req[s].code # None
      BY <3>1, NoneDistinct DEF Inv, CodeOK
    <3>3. keys[k].code # req[s].code /\ \A r \in R : Holds(req[r]) => req[r].code # req[s].code
      BY <3>1 DEF Inv, Tokens
    <3> QED BY <3>1, <3>2, <3>3
  <2>4. ASSUME NEW k \in Keys, keys'[k].code # None
        PROVE  codes[keys'[k].code].status = "used" /\ keys'[k].code \notin stale
    <3>1. CASE keys'[k].code = keys[k].code
      BY <2>4, <3>1 DEF Inv, Tokens
    <3>2. CASE \E r \in R : Holds(req[r]) /\ req[r].pc = "ready" /\ keys'[k].code = req[r].code
      BY <3>2 DEF Inv, CodeOK, Holds
    <3> QED BY <2>4, <3>1, <3>2
  <2> QED BY <2>1, <2>2, <2>3, <2>4 DEF Tokens
<1>6. CodeRows'
  BY DEF Inv, CodeRows
<1>7. ASSUME NEW s \in Requests PROVE (ProjectOK(req[s]) /\ KeyOK(req[s]) /\ CodeOK(req[s]))'
  <2>1. CASE req'[s] = Idle
    BY <2>1, IdleRelies DEF ProjectOK, KeyOK, CodeOK, ByName, LiveProjects, Holds, VerifyPkce
  <2>2. CASE req'[s] = req[s]
    <3>1. PICK p \in Request : p = req[s]
      BY DEF Inv, TypeOK
    <3>2. ProjectOK(p) /\ KeyOK(p) /\ CodeOK(p)
      BY <3>1 DEF Inv
    <3>3. ProjectOK(p)'
      BY <3>2 DEF ProjectOK, ByName, LiveProjects
    <3>4. KeyOK(p)'
      BY <3>2 DEF KeyOK, Request
    <3>5. CodeOK(p)'
      BY <3>2 DEF CodeOK, Holds, VerifyPkce
    <3> QED BY <2>2, <3>1, <3>3, <3>4, <3>5 DEF ProjectOK, KeyOK, CodeOK, ByName, LiveProjects, Holds, VerifyPkce
  <2> QED BY <2>1, <2>2 DEF Ended
<1> QED BY <1>1, <1>3, <1>5, <1>6, <1>7 DEF Inv

LEMMA MintCommitOK ==
  ASSUME Inv, NEW r \in Requests, MintCommit(r)
  PROVE  Inv'
<1>1. PICK o, c, e : o = req[r].org /\ c = req[r].code /\ e = req[r].ends
  OBVIOUS
<1>2. /\ req[r].pc = "ready" /\ req[r].op = "mint" /\ Ends(r)
      /\ UNCHANGED <<member, projects, codes, stale>>
  BY DEF MintCommit, Ready
<1>3. PICK k \in NewKey : keys' = [keys EXCEPT ![k] = Minted(o, e, c)]
  BY <1>1 DEF MintCommit
<1>4. o \in Orgs /\ e \in BOOLEAN /\ c \in Codes \cup {None}
  BY <1>1, <1>2 DEF Inv, TypeOK, CodeOK, Request
<1>5. k \in Keys /\ keys[k].status = "unused"
  BY DEF NewKey
<1>6. /\ keys' \in [Keys -> Key]
      /\ keys'[k].status = "active" /\ keys'[k].org = o /\ keys'[k].code = c
      /\ \A l \in Keys \ {k} : keys'[l] = keys[l]
  BY <1>3, <1>4, <1>5 DEF Inv, TypeOK, Key, Minted
<1>7. c # None => Holds(req[r]) /\ \A l \in Keys : keys[l].code # c
  BY <1>1, <1>2 DEF Inv, Tokens, Holds
<1>8. \A x, y \in Keys : keys'[x].code = keys'[y].code /\ keys'[x].code # None => x = y
  BY <1>6, <1>7 DEF Inv, Tokens
<1>9. \A x \in Keys : keys'[x].code = keys[x].code \/ keys'[x].code = None
        \/ \E s \in {r} : Holds(req[s]) /\ req[s].pc = "ready" /\ keys'[x].code = req[s].code
  BY <1>1, <1>2, <1>6, <1>7
<1>10. /\ \A x \in Keys : keys'[x].status # "unused" => keys'[x].org # None
       /\ \A x \in Keys : keys[x].status # "unused" =>
            keys'[x].status # "unused" /\ keys'[x].org = keys[x].org
  BY <1>4, <1>5, <1>6, NoneDistinct DEF Inv, TypeOK
<1> QED BY <1>2, <1>6, <1>8, <1>9, <1>10, EndsIs, KeysCommit

\* Revoking, deleting and ageing change neither the organization nor the code.
LEMMA KeyKept ==
  ASSUME Inv, NEW R \in SUBSET Requests, Ended(R), UNCHANGED <<member, projects, codes, stale>>,
         NEW k \in Keys, keys[k].status # "unused",
         keys' \in [Keys -> Key],
         keys'[k].status # "unused", keys'[k].org = keys[k].org, keys'[k].code = keys[k].code,
         \A l \in Keys \ {k} : keys'[l] = keys[l]
  PROVE  Inv'
<1>1. \A x, y \in Keys : keys'[x].code = keys'[y].code /\ keys'[x].code # None => x = y
  BY DEF Inv, Tokens
<1>2. /\ \A x \in Keys : keys'[x].status # "unused" => keys'[x].org # None
      /\ \A x \in Keys : keys[x].status # "unused" =>
           keys'[x].status # "unused" /\ keys'[x].org = keys[x].org
      /\ \A x \in Keys : keys'[x].code = keys[x].code
  BY DEF Inv, TypeOK
<1> QED BY <1>1, <1>2, KeysCommit

LEMMA DropCommitOK ==
  ASSUME Inv, NEW r \in Requests, DropCommit(r)
  PROVE  Inv'
<1>1. PICK k, op : k = req[r].key /\ op = req[r].op
  OBVIOUS
<1>2. /\ req[r].pc = "ready" /\ op \in {"revoke_api_key", "delete_api_key"} /\ Ends(r)
      /\ keys' = [keys EXCEPT ![k].status =
                    IF op = "delete_api_key" \/ @ = "deleted" THEN "deleted" ELSE "revoked",
                              ![k].late = FALSE,
                              ![k].ends = @ /\ op # "delete_api_key"]
      /\ UNCHANGED <<member, projects, codes, stale>>
  BY <1>1 DEF DropCommit, Ready
<1>3. k \in Keys /\ keys[k].status # "unused"
  BY <1>1, <1>2 DEF Inv, KeyOK
<1>4. PICK st \in {"deleted", "revoked"} :
        st = IF op = "delete_api_key" \/ keys[k].status = "deleted" THEN "deleted" ELSE "revoked"
  OBVIOUS
<1>5. PICK e \in BOOLEAN : e = (keys[k].ends /\ op # "delete_api_key")
  OBVIOUS
<1>6. keys[k] \in Key /\ keys \in [Keys -> Key]
  BY <1>3 DEF Inv, TypeOK
<1>7. keys'[k] = [keys[k] EXCEPT !.status = st, !.late = FALSE, !.ends = e]
      /\ \A l \in Keys \ {k} : keys'[l] = keys[l]
  BY <1>2, <1>3, <1>4, <1>5, <1>6 DEF Key
<1>8. /\ keys'[k] \in Key /\ keys'[k].status = st /\ keys'[k].org = keys[k].org
      /\ keys'[k].code = keys[k].code
  BY <1>6, <1>7 DEF Key
<1>9. keys' \in [Keys -> Key]
  <2>1. keys' = [l \in Keys |-> keys'[l]]
    BY <1>2, <1>6
  <2> QED BY <2>1, <1>6, <1>7, <1>8
<1>10. Ended({r}) /\ {r} \in SUBSET Requests
  BY <1>2, EndsIs
<1> QED BY <1>2, <1>3, <1>7, <1>8, <1>9, <1>10, KeyKept

LEMMA KeyExpiresOK ==
  ASSUME Inv, NEW k \in Keys, KeyExpires(k)
  PROVE  Inv'
<1>1. /\ keys[k].status = "active" /\ keys' = [keys EXCEPT ![k].late = TRUE]
      /\ UNCHANGED <<member, projects, codes, req, stale>>
  BY DEF KeyExpires
<1>2. keys[k] \in Key /\ keys \in [Keys -> Key]
  BY DEF Inv, TypeOK
<1>3. /\ keys' \in [Keys -> Key] /\ keys'[k].status = "active" /\ keys'[k].org = keys[k].org
      /\ keys'[k].code = keys[k].code /\ \A l \in Keys \ {k} : keys'[l] = keys[l]
  BY <1>1, <1>2 DEF Key
<1>4. Ended({})
  BY <1>1 DEF Ended, Inv, TypeOK
<1> QED BY <1>1, <1>3, <1>4, KeyKept

-----------------------------------------------------------------------------
(* Codes and memberships.                                                  *)

\* c is the code that changes, and done what a code that has left Redis is.
LEMMA CodesStep ==
  ASSUME Inv, UNCHANGED <<member, projects, keys>>, NEW c \in Codes,
         codes' \in [Codes -> Code], stale' \subseteq Codes,
         \A d \in Codes \ {c} : codes'[d] = codes[d] /\ (d \in stale' <=> d \in stale),
         codes[c].status \in {"unused", "stored"}, codes'[c].status # "unused",
         codes[c].status = "stored" =>
           /\ codes'[c].user = codes[c].user /\ codes'[c].org = codes[c].org
           /\ codes'[c].status # "stored" /\ stale' = stale,
         codes'[c].user \in Users, codes'[c].org \in Orgs,
         c \in stale' => member[codes'[c].org][codes'[c].user] = None,
         req' \in [Requests -> Request],
         NEW R \in SUBSET Requests,
         \A s \in Requests \ R : req'[s] = req[s],
         \A r \in R : req'[r] = Idle \/
           /\ req[r].pc = "verified" /\ req[r].code = c /\ codes[c].status = "stored"
           /\ req'[r] = [req[r] EXCEPT !.pc = "consumed"] /\ codes'[c].status = "used",
         \A r, s \in R : r = s
  PROVE  Inv'
<1>1. TypeOK'
  BY DEF Inv, TypeOK, LiveProjects
<1>2. ASSUME NEW s \in Requests
      PROVE  \/ req'[s] = Idle
             \/ req'[s] = req[s]
             \/ /\ s \in R /\ req[s].pc = "verified" /\ req[s].code = c /\ codes[c].status = "stored"
                /\ codes'[c].status = "used"
                /\ req'[s] \in Request /\ req'[s].pc = "consumed" /\ req'[s].op = req[s].op
                /\ req'[s].user = req[s].user /\ req'[s].org = req[s].org /\ req'[s].code = c
                /\ req'[s].insert = req[s].insert /\ req'[s].key = req[s].key
  <2>1. req[s] \in Request /\ req'[s] \in Request
    BY DEF Inv, TypeOK
  <2>2. ASSUME req'[s] = [req[s] EXCEPT !.pc = "consumed"]
        PROVE  /\ req'[s].pc = "consumed" /\ req'[s].op = req[s].op
               /\ req'[s].user = req[s].user /\ req'[s].org = req[s].org /\ req'[s].code = req[s].code
               /\ req'[s].insert = req[s].insert /\ req'[s].key = req[s].key
    BY <2>1, <2>2 DEF Request
  <2> QED BY <2>1, <2>2
<1>3. \A s \in Requests : req'[s].insert => req'[s] = req[s]
  BY <1>2, IdleOK DEF Inv, ProjectOK
<1>4. UniqueNames'
  BY <1>3 DEF Inv, UniqueNames, LiveProjects
<1>5. CodeRows'
  BY DEF Inv, CodeRows
<1>6. \A d \in Codes : codes[d].status = "used" => d # c /\ codes'[d] = codes[d] /\ (d \in stale' <=> d \in stale)
  OBVIOUS
<1>7. \A s \in Requests : Holds(req[s]) => req[s].code \in Codes /\ codes[req[s].code].status = "used"
  BY DEF Inv, CodeOK
<1>8. \A s \in Requests : Holds(req'[s]) =>
        \/ req'[s] = req[s] /\ req[s].code # c
        \/ s \in R /\ req'[s].code = c
  BY <1>2, <1>6, <1>7, IdleOK
<1>9. \A k \in Keys : keys[k].code # None => keys[k].code \in Codes /\ codes[keys[k].code].status = "used"
  BY DEF Inv, TypeOK, Key, Tokens
<1>10. Tokens'
  <2>1. \A s \in Requests : Holds(req[s])' <=> Holds(req'[s])
    BY DEF Holds
  <2>2. \A s, t \in Requests : s # t /\ Holds(req'[s]) /\ Holds(req'[t]) => req'[s].code # req'[t].code
    BY <1>8 DEF Inv, Tokens
  <2>3. \A s \in Requests : Holds(req'[s]) => \A k \in Keys : keys[k].code # req'[s].code
    BY <1>6, <1>8, <1>9, NoneDistinct DEF Inv, Tokens
  <2>4. \A k \in Keys : keys[k].code # None =>
          codes'[keys[k].code].status = "used" /\ keys[k].code \notin stale'
    BY <1>6, <1>9 DEF Inv, Tokens
  <2> QED BY <2>1, <2>2, <2>3, <2>4 DEF Inv, Tokens
<1>11. ASSUME NEW s \in Requests PROVE (ProjectOK(req[s]) /\ KeyOK(req[s]) /\ CodeOK(req[s]))'
  <2>1. PICK p \in Request, q \in Request : p = req[s] /\ q = req'[s]
    BY DEF Inv, TypeOK
  <2>2. ProjectOK(p) /\ KeyOK(p) /\ CodeOK(p)
    BY <2>1 DEF Inv
  <2>3. CASE q = Idle
    BY <2>1, <2>3, IdleRelies DEF ProjectOK, KeyOK, CodeOK, ByName, LiveProjects, Holds, VerifyPkce
  <2>4. CASE q = p
    <3>1. ProjectOK(p)' /\ KeyOK(p)'
      BY <2>2 DEF ProjectOK, KeyOK, ByName, LiveProjects
    <3>2. \A d \in Codes : codes[d].status # "unused" =>
            /\ codes'[d].status # "unused" /\ codes'[d].user = codes[d].user /\ codes'[d].org = codes[d].org
            /\ codes'[d].status = "stored" => codes'[d] = codes[d] /\ codes[d].status = "stored"
      OBVIOUS
    <3>3. p.pc = "ready" /\ p.op = "mint" => p.code \notin stale'
      <4>1. SUFFICES ASSUME p.pc = "ready", p.op = "mint" PROVE p.code \notin stale'
        OBVIOUS
      <4>2. CASE p.code = None
        BY <4>2, NoneDistinct
      <4>3. CASE p.code # None
        <5>1. p.code \in Codes /\ codes[p.code].status = "used" /\ p.code \notin stale
          BY <2>2, <4>1, <4>3 DEF CodeOK, Holds
        <5> QED BY <5>1, <1>6
      <4> QED BY <4>2, <4>3
    <3>4. Holds(p) => p.code \in Codes /\ codes'[p.code].status = "used"
      BY <2>2, <1>6 DEF CodeOK
    <3>5. p.pc \in {"verified", "consumed"} =>
            /\ p.code \in Codes /\ codes'[p.code].status # "unused"
            /\ codes'[p.code].user = p.user /\ codes'[p.code].org = p.org
      BY <2>2, <3>2 DEF CodeOK
    <3>6. p.pc = "verified" /\ codes'[p.code].status = "stored" => p.verifier = codes'[p.code].challenge
      BY <2>2, <3>2 DEF CodeOK, VerifyPkce
    <3>7. CodeOK(p)'
      BY <2>2, <3>3, <3>4, <3>5, <3>6 DEF CodeOK, Holds, VerifyPkce
    <3> QED BY <2>1, <2>4, <3>1, <3>7 DEF ProjectOK, KeyOK, CodeOK, ByName, LiveProjects, Holds, VerifyPkce
  <2>5. CASE /\ p.pc = "verified" /\ p.code = c /\ codes[c].status = "stored" /\ codes'[c].status = "used"
             /\ q.pc = "consumed" /\ q.op = p.op /\ q.user = p.user /\ q.org = p.org /\ q.code = c
             /\ q.insert = p.insert /\ q.key = p.key
    <3>1. ProjectOK(q)' /\ KeyOK(q)'
      BY <2>2, <2>5 DEF ProjectOK, KeyOK
    <3>2. CodeOK(q)'
      BY <2>2, <2>5 DEF CodeOK, Holds, VerifyPkce
    <3> QED BY <2>1, <3>1, <3>2 DEF ProjectOK, KeyOK, CodeOK, ByName, LiveProjects, Holds, VerifyPkce
  <2> QED BY <2>1, <2>3, <2>4, <2>5, <1>2
<1> QED BY <1>1, <1>4, <1>5, <1>10, <1>11 DEF Inv

LEMMA StoreCodeOK ==
  ASSUME Inv, NEW r \in Requests, StoreCode(r)
  PROVE  Inv'
<1>1. PICK q \in Request : q = req[r]
  BY DEF Inv, TypeOK
<1>2. /\ q.pc = "ready" /\ q.op = "issue_code" /\ Ends(r) /\ UNCHANGED <<member, projects, keys>>
  BY <1>1 DEF StoreCode, Ready
<1>3. PICK c \in Codes :
        /\ codes[c].status = "unused"
        /\ codes' = [codes EXCEPT ![c] = [status |-> "stored", user |-> q.user,
                                          org |-> q.org, challenge |-> q.verifier]]
        /\ stale' = IF RequireMembership(q) THEN stale ELSE stale \cup {c}
  BY <1>1 DEF StoreCode
<1>4. q.user \in Users /\ q.org \in Orgs /\ q.verifier \in Verifiers \cup {None}
  BY <1>1, <1>2 DEF Inv, CodeOK, Request
<1>5. /\ codes' \in [Codes -> Code] /\ codes'[c].status = "stored" /\ codes'[c].user = q.user
      /\ codes'[c].org = q.org /\ \A d \in Codes \ {c} : codes'[d] = codes[d]
  BY <1>3, <1>4 DEF Inv, TypeOK, Code
<1>6. c \notin stale
  BY <1>3 DEF Inv, CodeRows
<1>7. /\ stale' \subseteq Codes /\ \A d \in Codes \ {c} : d \in stale' <=> d \in stale
      /\ c \in stale' => member[codes'[c].org][codes'[c].user] = None
  BY <1>3, <1>5, <1>6 DEF Inv, TypeOK, RequireMembership
<1>8. /\ req' \in [Requests -> Request] /\ {r} \in SUBSET Requests /\ req'[r] = Idle
      /\ \A s \in Requests \ {r} : req'[s] = req[s]
  BY <1>2, IdleOK DEF Ends, Inv, TypeOK
<1> QED BY <1>2, <1>3, <1>4, <1>5, <1>7, <1>8, CodesStep

LEMMA ExchangeDelOK ==
  ASSUME Inv, NEW r \in Requests, ExchangeDel(r)
  PROVE  Inv'
<1>1. PICK c \in Codes : c = req[r].code
  BY DEF Inv, CodeOK, ExchangeDel
<1>2. /\ req[r].pc = "verified" /\ codes[c].status = "stored"
      /\ codes' = [codes EXCEPT ![c].status = "used", ![c].challenge = None]
      /\ req' = [req EXCEPT ![r].pc = "consumed"]
      /\ UNCHANGED <<member, projects, keys, stale>>
  BY <1>1 DEF ExchangeDel
<1>3. codes[c] \in Code /\ codes \in [Codes -> Code] /\ stale \subseteq Codes
  BY DEF Inv, TypeOK
<1>4. /\ codes' \in [Codes -> Code] /\ codes'[c].status = "used" /\ codes'[c].user = codes[c].user
      /\ codes'[c].org = codes[c].org /\ \A d \in Codes \ {c} : codes'[d] = codes[d]
  BY <1>2, <1>3 DEF Code
<1>5. /\ codes[c].user \in Users /\ codes[c].org \in Orgs
      /\ c \in stale => member[codes[c].org][codes[c].user] = None
  BY <1>2 DEF Inv, CodeRows
<1>6. req \in [Requests -> Request] /\ [req[r] EXCEPT !.pc = "consumed"] \in Request
  BY DEF Inv, TypeOK, Request
<1>7. /\ req' \in [Requests -> Request] /\ {r} \in SUBSET Requests
      /\ req'[r] = [req[r] EXCEPT !.pc = "consumed"]
      /\ \A s \in Requests \ {r} : req'[s] = req[s]
  BY <1>2, <1>6
<1>8. /\ \A s \in {r} : req'[s] = Idle \/
           /\ req[s].pc = "verified" /\ req[s].code = c /\ codes[c].status = "stored"
           /\ req'[s] = [req[s] EXCEPT !.pc = "consumed"] /\ codes'[c].status = "used"
      /\ \A s, x \in {r} : s = x
  BY <1>1, <1>2, <1>4, <1>7
<1>9. /\ codes'[c].user \in Users /\ codes'[c].org \in Orgs
      /\ c \in stale' => member[codes'[c].org][codes'[c].user] = None
      /\ stale' \subseteq Codes /\ stale' = stale
  BY <1>2, <1>3, <1>4, <1>5
<1>10. /\ \A d \in Codes \ {c} : codes'[d] = codes[d] /\ (d \in stale' <=> d \in stale)
       /\ codes[c].status \in {"unused", "stored"} /\ codes'[c].status # "unused"
       /\ codes[c].status = "stored" =>
            /\ codes'[c].user = codes[c].user /\ codes'[c].org = codes[c].org
            /\ codes'[c].status # "stored" /\ stale' = stale
       /\ UNCHANGED <<member, projects, keys>>
  BY <1>2, <1>4
<1> QED BY <1>4, <1>7, <1>8, <1>9, <1>10, CodesStep

LEMMA CodeExpiresOK ==
  ASSUME Inv, NEW c \in Codes, CodeExpires(c)
  PROVE  Inv'
<1>1. /\ codes[c].status = "stored"
      /\ codes' = [codes EXCEPT ![c].status = "expired", ![c].challenge = None]
      /\ UNCHANGED <<member, projects, keys, req, stale>>
  BY DEF CodeExpires
<1>2. codes[c] \in Code /\ codes \in [Codes -> Code] /\ stale \subseteq Codes
  BY DEF Inv, TypeOK
<1>3. /\ codes' \in [Codes -> Code] /\ codes'[c].status = "expired" /\ codes'[c].user = codes[c].user
      /\ codes'[c].org = codes[c].org /\ \A d \in Codes \ {c} : codes'[d] = codes[d]
  BY <1>1, <1>2 DEF Code
<1>4. /\ codes[c].user \in Users /\ codes[c].org \in Orgs
      /\ c \in stale => member[codes[c].org][codes[c].user] = None
  BY <1>1 DEF Inv, CodeRows
<1>5. /\ req' \in [Requests -> Request] /\ {} \in SUBSET Requests
      /\ \A s \in Requests \ {} : req'[s] = req[s]
  BY <1>1 DEF Inv, TypeOK
<1>6. /\ codes'[c].user \in Users /\ codes'[c].org \in Orgs
      /\ c \in stale' => member[codes'[c].org][codes'[c].user] = None
      /\ stale' \subseteq Codes /\ stale' = stale
  BY <1>1, <1>2, <1>3, <1>4
<1>7. /\ \A d \in Codes \ {c} : codes'[d] = codes[d] /\ (d \in stale' <=> d \in stale)
      /\ codes[c].status \in {"unused", "stored"} /\ codes'[c].status # "unused"
      /\ codes[c].status = "stored" =>
           /\ codes'[c].user = codes[c].user /\ codes'[c].org = codes[c].org
           /\ codes'[c].status # "stored" /\ stale' = stale
      /\ UNCHANGED <<member, projects, keys>>
  BY <1>1, <1>3
<1>8. PICK R \in SUBSET Requests : R = {}
  OBVIOUS
<1> QED BY <1>3, <1>5, <1>6, <1>7, <1>8, CodesStep

\* Leaving makes the codes that wait in Redis stale; joining, the user's codes good again.
LEMMA MembershipChangesOK ==
  ASSUME Inv, NEW o \in Orgs, NEW u \in Users, NEW x \in JoinRoles \cup {None},
         MembershipChanges(o, u, x)
  PROVE  Inv'
<1>1. /\ member' = [member EXCEPT ![o][u] = x]
      /\ stale' = IF x = None
                  THEN stale \cup {c \in CodesOf(o, u) : codes[c].status = "stored"}
                  ELSE stale \ CodesOf(o, u)
      /\ UNCHANGED <<projects, keys, codes, req>>
  BY DEF MembershipChanges
<1>2. x \in Role \cup {None}
  BY CredentialAssumption DEF Role
<1>3. /\ member' \in [Orgs -> [Users -> Role \cup {None}]]
      /\ member'[o][u] = x
      /\ \A p \in Orgs, v \in Users : p # o \/ v # u => member'[p][v] = member[p][v]
  BY <1>1, <1>2 DEF Inv, TypeOK
<1>4. /\ stale' \subseteq Codes
      /\ \A c \in Codes : codes[c].status = "used" /\ c \notin stale => c \notin stale'
  BY <1>1 DEF CodesOf, Inv, TypeOK
<1>5. TypeOK'
  BY <1>1, <1>3, <1>4 DEF Inv, TypeOK, LiveProjects
<1>6. UniqueNames'
  BY <1>1 DEF Inv, UniqueNames, LiveProjects
<1>7. Tokens'
  <2>1. \A k \in Keys : keys[k].code # None => keys[k].code \in Codes
    BY DEF Inv, TypeOK, Key
  <2> QED BY <1>1, <1>4, <2>1 DEF Inv, Tokens, Holds
<1>8. CodeRows'
  <2>1. ASSUME NEW c \in stale'
        PROVE  codes[c].status # "unused" /\ member'[codes[c].org][codes[c].user] = None
    <3>1. c \in Codes
      BY <1>4
    <3>2. codes[c].status # "unused" /\ codes[c].user \in Users /\ codes[c].org \in Orgs
      BY <3>1, <1>1 DEF CodesOf, Inv, CodeRows
    <3>3. CASE codes[c].org = o /\ codes[c].user = u
      <4>1. x = None
        BY <3>1, <3>3, <1>1 DEF CodesOf
      <4> QED BY <4>1, <3>2, <3>3, <1>3
    <3>4. CASE ~(codes[c].org = o /\ codes[c].user = u)
      <4>1. c \in stale
        BY <3>1, <3>4, <1>1 DEF CodesOf
      <4>2. member[codes[c].org][codes[c].user] = None
        BY <4>1 DEF Inv, CodeRows
      <4> QED BY <4>2, <3>2, <3>4, <1>3
    <3> QED BY <3>3, <3>4
  <2> QED BY <1>1, <2>1 DEF Inv, CodeRows
<1>9. ASSUME NEW s \in Requests PROVE (ProjectOK(req[s]) /\ KeyOK(req[s]) /\ CodeOK(req[s]))'
  <2>1. PICK p \in Request : p = req[s]
    BY DEF Inv, TypeOK
  <2>2. ProjectOK(p) /\ KeyOK(p) /\ CodeOK(p)
    BY <2>1 DEF Inv
  <2>3. p.code \in Codes \cup {None} /\ (p.code = None => p.code \notin stale')
    BY <1>4, NoneDistinct DEF Request
  <2>4. ProjectOK(p)' /\ KeyOK(p)'
    BY <1>1, <2>2 DEF ProjectOK, KeyOK, ByName, LiveProjects
  <2>5. CodeOK(p)'
    BY <1>1, <1>4, <2>2, <2>3 DEF CodeOK, Holds, VerifyPkce
  <2> QED BY <1>1, <2>1, <2>4, <2>5 DEF ProjectOK, KeyOK, CodeOK, ByName, LiveProjects, Holds, VerifyPkce
<1> QED BY <1>5, <1>6, <1>7, <1>8, <1>9 DEF Inv

-----------------------------------------------------------------------------
(* The theorems.                                                           *)

\* The invariant holds initially.
LEMMA InitInv == Init => Inv
<1> SUFFICES ASSUME Init PROVE Inv
  OBVIOUS
<1>1. \A r \in Requests : req[r] = Idle
  BY DEF Init
<1>2. member \in [Orgs -> [Users -> Role \cup {None}]]
  <2>1. \A o \in Orgs : [u \in Users |-> IF u = Creator[o] THEN "OWNER" ELSE None]
                          \in [Users -> Role \cup {None}]
    BY DEF Role
  <2> QED BY <2>1 DEF Init
<1>3. /\ \A p \in Projects : projects[p] \in Project
      /\ \A p \in LiveProjects : /\ projects[p].org = FirstProjects[p] /\ FirstProjects[p] \in Orgs
                                 /\ projects[p].name = FirstName /\ FirstName \in Names
  BY CredentialAssumption DEF Init, LiveProjects, Project
<1>4. /\ keys \in [Keys -> Key]
      /\ \A k \in Keys : keys[k].code = None /\ (keys[k].status # "unused" => keys[k].org # None)
  BY CredentialAssumption DEF Init, Key
<1>5. codes \in [Codes -> Code] /\ \A c \in Codes : codes[c].status = "unused"
  BY DEF Init, Code
<1>6. TypeOK
  <2>1. projects \in [Projects -> Project] /\ req \in [Requests -> Request] /\ stale \subseteq Codes
    BY <1>3, IdleOK DEF Init
  <2>2. \A p \in LiveProjects : None \notin {projects[p].org, projects[p].name}
    BY <1>3, NoneDistinct
  <2> QED BY <1>2, <1>4, <1>5, <2>1, <2>2 DEF TypeOK
<1>7. UniqueNames
  <2>1. \A p, q \in LiveProjects : projects[p].org = projects[q].org => p = q
    BY <1>3, CredentialAssumption, NoneDistinct DEF LiveProjects
  <2> QED BY <1>1, <2>1, IdleOK DEF UniqueNames
<1>8. Tokens
  BY <1>1, <1>4, IdleOK DEF Tokens
<1>9. CodeRows
  BY <1>5 DEF CodeRows, Init
<1> QED BY <1>1, <1>6, <1>7, <1>8, <1>9, IdleRelies DEF Inv

\* Every step keeps the invariant.
LEMMA NextInv == Inv /\ [Next]_vars => Inv'
<1> SUFFICES ASSUME Inv, [Next]_vars PROVE Inv'
  OBVIOUS
<1>1. ASSUME NEW r \in Requests, NEW u \in Users, Route(r, u) PROVE Inv'
  BY <1>1, CreateApiKeyOK, RotateApiKeyOK, DropApiKeyOK, CreateProjectOK, UpdateProjectOK,
     DeleteProjectOK, IssueCodeOK, ServeJwtOK DEF Route
<1>2. ASSUME NEW r \in Requests, Handle(r) PROVE Inv'
  BY <1>2, MintCommitOK, DropCommitOK, CreateProjectCommitOK, UpdateProjectCommitOK,
     DeleteProjectCommitOK, ServeKeyOK, TouchOK, GetOrCreateOK, ServeCommitOK, StoreCodeOK,
     ExchangeGetOK, ExchangeDelOK, ExchangeCheckOK, RollbackOK DEF Handle
<1>3. CASE UNCHANGED vars
  BY <1>3 DEF vars, Inv, TypeOK, UniqueNames, Tokens, CodeRows, ProjectOK, KeyOK, CodeOK, LiveProjects,
              ByName, Holds, VerifyPkce
<1> QED BY <1>1, <1>2, <1>3, CodeExpiresOK, KeyExpiresOK, MembershipChangesOK DEF Next

\* The tables and the requests keep to the inductive invariant.
THEOREM Invariance == Spec => []Inv
BY InitInv, NextInv, PTL DEF Spec

\* A set of at most one element, counted.
LEMMA AtMostOne ==
  ASSUME NEW S, \A x, y \in S : x = y
  PROVE  Cardinality(S) <= 1
<1>1. CASE S = {}
  BY <1>1, FS_EmptySet
<1>2. CASE S # {}
  <2>1. PICK x \in S : TRUE
    BY <1>2
  <2>2. S = {x}
    BY <2>1
  <2> QED BY <2>2, FS_Singleton
<1> QED BY <1>1, <1>2

\* MintedOnce (CliAuthService.exchange): DEL's answer lets one exchange go on, so a code
\* is in the hands of one request, and then in one key.
THEOREM CodeMintsOneKey == Spec => []MintedOnce
<1>1. Inv => MintedOnce
  <2> SUFFICES ASSUME Inv, NEW c \in Codes PROVE Cardinality({k \in Keys : keys[k].code = c}) <= 1
    BY DEF MintedOnce
  <2>1. \A k, l \in {k \in Keys : keys[k].code = c} : k = l
    BY NoneDistinct DEF Inv, Tokens
  <2> QED BY <2>1, AtMostOne
<1> QED BY <1>1, Invariance, PTL

\* LeaverGetsNoKey (CliAuthService.exchange): the membership check that follows DEL is
\* what keeps a code whose user has left from becoming a key.
THEOREM CodeOfLeaverMintsNone == Spec => []LeaverGetsNoKey
<1>1. Inv => LeaverGetsNoKey
  BY NoneDistinct DEF Inv, TypeOK, Tokens, LeaverGetsNoKey
<1> QED BY <1>1, Invariance, PTL

\* ScopedToTenant (api/dependencies.py): the project of a request is of the organization
\* of its credential until the request ends.
THEOREM RequestsStayInTenant == Spec => []ScopedToTenant
<1>1. Inv => ScopedToTenant
  BY DEF Inv, ScopedToTenant, ProjectOK, KeyOK, Ready
<1> QED BY <1>1, Invariance, PTL

\* OneProjectPerName (uq_project_org_name): concurrent inserts, creations and renames
\* leave one live project of a name.
THEOREM ProjectNamesAreUnique == Spec => []OneProjectPerName
<1>1. Inv => OneProjectPerName
  <2> SUFFICES ASSUME Inv, NEW o \in Orgs, NEW n \in Names PROVE Cardinality(ByName(o, n)) <= 1
    BY DEF OneProjectPerName, Inv
  <2>1. \A p, q \in ByName(o, n) : p = q
    BY DEF Inv, UniqueNames, ByName
  <2> QED BY <2>1, AtMostOne
<1> QED BY <1>1, Invariance, PTL

\* OnlyVerifiedBurns (CliAuthService.exchange): of all steps only DEL makes a stored code
\* a used one, and the exchange that sends it has verified against the challenge that is
\* still stored.
THEOREM OnlyVerifiedExchangesBurn == Spec => OnlyVerifiedBurns
<1> DEFINE Burns == \A c \in Codes : codes[c].status = "stored" /\ codes'[c].status = "used" =>
                      \E r \in Requests : req[r].code = c /\ VerifyPkce(req[r].verifier, c)
<1>1. Inv /\ [Next]_vars => [Burns]_vars
  <2> SUFFICES ASSUME Inv, Next, NEW c \in Codes, codes[c].status = "stored", codes'[c].status = "used"
               PROVE  \E r \in Requests : req[r].code = c /\ VerifyPkce(req[r].verifier, c)
    OBVIOUS
  <2>1. codes' # codes /\ codes \in [Codes -> Code]
    BY DEF Inv, TypeOK
  <2>2. ASSUME NEW r \in Requests, NEW u \in Users, Route(r, u) PROVE FALSE
    BY <2>1, <2>2 DEF Route, CreateApiKey, RotateApiKey, DropApiKey, CreateProject, UpdateProject,
                      DeleteProject, IssueCode, ServeJwt, Begin
  <2>3. ASSUME NEW r \in Requests, Handle(r)
        PROVE  \E s \in Requests : req[s].code = c /\ VerifyPkce(req[s].verifier, c)
    <3>1. StoreCode(r) \/ ExchangeDel(r)
      BY <2>1, <2>3 DEF Handle, MintCommit, DropCommit, CreateProjectCommit, UpdateProjectCommit,
           DeleteProjectCommit, ServeKey, Touch, GetOrCreate, ServeCommit, ExchangeGet, ExchangeCheck,
           Rollback
    <3>2. CASE StoreCode(r)
      <4>1. PICK d \in Codes :
              /\ codes[d].status = "unused"
              /\ \E row : row.status = "stored" /\ codes' = [codes EXCEPT ![d] = row]
        BY <3>2 DEF StoreCode
      <4> QED BY <4>1, <2>1
    <3>3. CASE ExchangeDel(r)
      <4>1. PICK d \in Codes : d = req[r].code
        BY <3>3 DEF Inv, CodeOK, ExchangeDel
      <4>2. d = c
        BY <2>1, <3>3, <4>1 DEF ExchangeDel
      <4>3. req[r].pc = "verified" /\ codes[req[r].code].status = "stored"
        BY <3>3 DEF ExchangeDel
      <4> QED BY <4>1, <4>2, <4>3 DEF Inv, CodeOK
    <3> QED BY <3>1, <3>2, <3>3
  <2>4. ASSUME NEW d \in Codes, CodeExpires(d) PROVE FALSE
    <3>1. codes' = [codes EXCEPT ![d] = [codes[d] EXCEPT !.status = "expired", !.challenge = None]]
      BY <2>1, <2>4 DEF CodeExpires
    <3>2. [codes[d] EXCEPT !.status = "expired", !.challenge = None].status = "expired"
      BY <2>1 DEF Code
    <3> QED BY <2>1, <3>1, <3>2
  <2>5. ASSUME NEW k \in Keys, KeyExpires(k) PROVE FALSE
    BY <2>1, <2>5 DEF KeyExpires
  <2>6. ASSUME NEW o \in Orgs, NEW u \in Users, NEW x \in JoinRoles \cup {None},
               MembershipChanges(o, u, x)
        PROVE  FALSE
    BY <2>1, <2>6 DEF MembershipChanges
  <2> QED BY <2>2, <2>3, <2>4, <2>5, <2>6 DEF Next
<1>2. Spec => [][Burns]_vars
  BY <1>1, Invariance, PTL DEF Spec
<1> QED BY <1>2 DEF OnlyVerifiedBurns
===============================================================================
