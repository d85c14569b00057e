------------------------------ MODULE RepoLinks ------------------------------
(***************************************************************************)
(* Who may release a skill id from CI: authn/repo_links.py (the links), the *)
(* repo-links routes of api/tenant_routes.py that create, change and        *)
(* delete them, and the authorisation of a release by them,                 *)
(* authn/ci_credentials.py and _resolve_tenant in api/release_routes.py.    *)
(*                                                                         *)
(* The module follows one skill id.  A link is a file named by tenant and  *)
(* skill id, <tenant>__<id>.json; nothing restricts ids, and find_any looks *)
(* for *__<id>.json, which the link of another id can match as well (id    *)
(* Y, and the link of X__Y).  Handlers run in threads and take no lock.    *)
(***************************************************************************)
EXTENDS Naturals, FiniteSets

CONSTANTS
  Tenants, Branches,
  Repos,        \* repository URLs, up to trailing slashes
  Names,        \* owner/name of a repository, on whatever host
  NameOf,       \* [Repos -> Names]: how a URL ends, up to ".git"
  Users,        \* tenant admins, recorded as the creators of links: users, or
                \* "" for a caller that resolves to nobody
  AdminOf,      \* [Tenants -> SUBSET Users]
  Threads,      \* handler threads of the application
  MaxRequests,  \* bound: requests ever made
  NoLink, NoBranch

(* There is a tenant, a repository and a user: a request names one of each.*)
ASSUME LinkAssumptions ==
  /\ AdminOf \in [Tenants -> SUBSET Users]
  /\ NameOf \in [Repos -> Names]
  /\ Tenants # {} /\ Repos # {} /\ Users # {}
  /\ IsFiniteSet(Tenants)
  /\ NoBranch \notin Branches
  /\ MaxRequests \in Nat

(* An empty set of branches means no restriction.                          *)
Link == [repo : Repos, by : Users, branches : SUBSET Branches]
ASSUME NoLinkAssumption == NoLink \notin Link

VARIABLES
  link,     \* [Tenants -> Link or NoLink]: the link files of the skill id
  alike,    \* {<<tenant, name>>}: links of other ids that find_any matches too
  req,      \* [Threads -> the request a thread is working on]
  served,   \* number of requests taken so far
  during,   \* history: [Threads -> {<<tenant, link>>}], the links there have
            \* been while the thread's release was being authorised
  around,   \* history: [Threads -> {<<tenant, name>>}], and the alike ones
  basis,    \* history: [Threads -> value of link at the thread's read]
  stale     \* history: a link was written that rests on a read gone stale

vars == <<link, alike, req, served, during, around, basis, stale>>

Links == [Tenants -> Link \union {NoLink}]
Linked == {n \in Tenants : link[n] # NoLink}
InForce == {<<n, link[n]>> : n \in Linked}

(* tenant and by are filled in by a CI release when it has found them; tag *)
(* says whether the tag asked for is the token's and the manifest's.       *)
Request ==
  [op : {"none", "create", "update", "ci", "pat"},
   at : {"idle", "read", "write", "get", "granted"},
   tenant : Tenants, link : Link, branch : Branches \union {NoBranch},
   tag : BOOLEAN]

SomeTenant == CHOOSE n \in Tenants : TRUE
SomeLink == CHOOSE l \in Link : TRUE
Asked(op, at, n, l, b, tag) ==
  [op |-> op, at |-> at, tenant |-> n, link |-> l, branch |-> b, tag |-> tag]
Idle == Asked("none", "idle", SomeTenant, SomeLink, NoBranch, TRUE)

Init ==
  /\ link = [n \in Tenants |-> NoLink]
  /\ alike = {}
  /\ req = [t \in Threads |-> Idle]
  /\ served = 0
  /\ during = [t \in Threads |-> {}]
  /\ around = [t \in Threads |-> {}]
  /\ basis = [t \in Threads |-> link]
  /\ stale = FALSE

At(t, stage) == req[t].at = stage
Finish(t) == req' = [req EXCEPT ![t] = Idle]
Go(t, stage) == req' = [req EXCEPT ![t].at = stage]
Resume(t, stage, n, l) ==
  req' = [req EXCEPT ![t] =
            Asked(req[t].op, stage, n, l, req[t].branch, req[t].tag)]

-----------------------------------------------------------------------------
(* Requests arrive.  The routes of links let only admins of the tenant in. *)
Free(t) == At(t, "idle") /\ served < MaxRequests

Arrive(t, r) ==
  /\ served' = served + 1
  /\ req' = [req EXCEPT ![t] = r]
  /\ UNCHANGED <<link, alike>>

AskCreate(t) ==
  /\ Free(t)
  /\ \E n \in Tenants, l \in Link :
       /\ l.by \in AdminOf[n]
       /\ Arrive(t, Asked("create", "read", n, l, NoBranch, TRUE))

AskUpdate(t) ==
  /\ Free(t)
  /\ \E n \in Tenants, bs \in SUBSET Branches :
       /\ AdminOf[n] # {}
       /\ Arrive(t, Asked("update", "read", n,
                          [SomeLink EXCEPT !.branches = bs], NoBranch, TRUE))

(* A workflow presents its repository's owner/name, for which one URL of   *)
(* that name stands, and its environment; a token holder is of a tenant    *)
(* and states URL and branch.                                              *)
UrlOf(name) == CHOOSE r \in Repos : NameOf[r] = name
AskRelease(t) ==
  /\ Free(t)
  /\ \E op \in {"ci", "pat"}, n \in Tenants, r \in Repos, tag \in BOOLEAN,
        b \in Branches \union {NoBranch} :
       /\ op = "ci" => r = UrlOf(NameOf[r])
       /\ Arrive(t, Asked(op, "read", n, [SomeLink EXCEPT !.repo = r], b, tag))

-----------------------------------------------------------------------------
(* Mutant: it looks at the tenant's own link only.                         *)
ClaimedHere(n) == link[n] # NoLink \/ alike # {}

(* RepoLinkStore.create refuses an id that anyone has linked (find_any), or *)
(* that the link of another id looks like.                                 *)
Claimed(n) == Linked # {} \/ alike # {}
ReadForCreate(t) ==
  /\ At(t, "read") /\ req[t].op = "create"
  /\ IF Claimed(req[t].tenant) THEN Finish(t) ELSE Go(t, "write")
  /\ UNCHANGED <<link, alike, served>>

(* Mutant: the link becomes the caller's.                                  *)
ReadForUpdateTakesOver(t) ==
  /\ At(t, "read") /\ req[t].op = "update"
  /\ LET n == req[t].tenant IN
     IF link[n] = NoLink THEN Finish(t)
     ELSE Resume(t, "write", n,
                 [repo |-> link[n].repo, by |-> req[t].link.by,
                  branches |-> req[t].link.branches])
  /\ UNCHANGED <<link, alike, served>>

(* update_release_branches reads the tenant's own link and replaces its    *)
(* branches.                                                               *)
ReadForUpdate(t) ==
  /\ At(t, "read") /\ req[t].op = "update"
  /\ LET n == req[t].tenant IN
     IF link[n] = NoLink THEN Finish(t)
     ELSE Resume(t, "write", n,
                 [repo |-> link[n].repo, by |-> link[n].by,
                  branches |-> req[t].link.branches])
  /\ UNCHANGED <<link, alike, served>>

Write(t) ==
  /\ At(t, "write")
  /\ link' = [link EXCEPT ![req[t].tenant] = req[t].link]
  /\ Finish(t)
  /\ UNCHANGED <<alike, served>>

(* delete: one test and one unlink.                                        *)
Delete(n) ==
  /\ served < MaxRequests
  /\ served' = served + 1
  /\ AdminOf[n] # {}
  /\ link' = [link EXCEPT ![n] = NoLink]
  /\ UNCHANGED <<alike, req>>

(* The admins of a tenant link and unlink other ids as well, to any        *)
(* repository.                                                             *)
ChangeAlike(n) ==
  /\ served < MaxRequests
  /\ served' = served + 1
  /\ AdminOf[n] # {}
  /\ \E a \in Names :
       \/ <<n, a>> \notin alike /\ alike' = alike \union {<<n, a>>}
       \/ <<n, a>> \in alike /\ alike' = alike \ {<<n, a>>}
  /\ UNCHANGED <<link, req>>

-----------------------------------------------------------------------------
(* Mutant: a release that names no branch is let through.                  *)
BranchAllowedIfAny(l, b) ==
  l.branches = {} \/ b = NoBranch \/ b \in l.branches

(* _check_release_branch_allowed.                                          *)
BranchAllowed(l, b) == l.branches = {} \/ b \in l.branches

(* What find_any may come upon: tenant and repository of some link.        *)
Found == {<<n, NameOf[link[n].repo]>> : n \in Linked} \union alike

(* _repo_matches: the URL linked ends in the workflow's owner/name.        *)
SameName(name, t) == name = NameOf[req[t].link.repo]

(* resolve_release_tenant: the link found must be of the workflow's        *)
(* repository by name; its tenant is remembered, and no more of it.        *)
FindLink(t) ==
  /\ At(t, "read") /\ req[t].op = "ci"
  /\ \/ \E f \in Found :
          req[t].tag /\ SameName(f[2], t) /\ Resume(t, "get", f[1], req[t].link)
     \/ /\ req[t].tag /\ Found # {} => \E f \in Found : ~SameName(f[2], t)
        /\ Finish(t)
  /\ UNCHANGED <<link, alike, served>>

(* The route reads the tenant's link of this very id, asserts that it is   *)
(* there -- "resolve_release_tenant() just proved this link exists" -- and *)
(* holds the environment against it, not the repository again; its creator *)
(* will own the skill.                                                     *)
GetLink(t) ==
  /\ At(t, "get")
  /\ LET n == req[t].tenant IN
     IF link[n] # NoLink /\ BranchAllowed(link[n], req[t].branch)
     THEN Resume(t, "granted", n, [req[t].link EXCEPT !.by = link[n].by])
     ELSE Finish(t)
  /\ UNCHANGED <<link, alike, served>>

(* With a bearer token one read does for all the tests, and URLs are       *)
(* compared whole.                                                         *)
MatchLink(t) ==
  /\ At(t, "read") /\ req[t].op = "pat"
  /\ LET n == req[t].tenant IN
     IF /\ req[t].tag
        /\ link[n] # NoLink
        /\ link[n].repo = req[t].link.repo
        /\ BranchAllowed(link[n], req[t].branch)
     THEN Resume(t, "granted", n, [req[t].link EXCEPT !.by = link[n].by])
     ELSE Finish(t)
  /\ UNCHANGED <<link, alike, served>>

(* The release goes on to publish_skill (module Publish).                  *)
Released(t) ==
  /\ At(t, "granted")
  /\ Finish(t)
  /\ UNCHANGED <<link, alike, served>>

-----------------------------------------------------------------------------
HandlerStep(t) ==
  \/ AskCreate(t) \/ AskUpdate(t) \/ AskRelease(t)
  \/ ReadForCreate(t) \/ ReadForUpdate(t) \/ Write(t)
  \/ FindLink(t) \/ GetLink(t) \/ MatchLink(t) \/ Released(t)

(* History: the links a release in progress could have been shown, what a  *)
(* writer read, and whether it has changed by the time of the write.       *)
Releasing(t) == req[t].op \in {"ci", "pat"}
NoteHistory ==
  /\ during' = [t \in Threads |->
       IF Releasing(t)' THEN during[t] \union InForce \union InForce' ELSE {}]
  /\ around' = [t \in Threads |->
       IF Releasing(t)' THEN around[t] \union alike \union alike' ELSE {}]
  /\ basis' = [t \in Threads |->
       IF ~At(t, "write")' THEN [n \in Tenants |-> NoLink]
       ELSE IF At(t, "write") THEN basis[t] ELSE link]
  /\ stale' = (stale \/ \E t \in Threads :
                  At(t, "write") /\ ~At(t, "write")' /\ basis[t] # link)

Next ==
  /\ \/ \E t \in Threads : HandlerStep(t)
     \/ \E n \in Tenants : Delete(n) \/ ChangeAlike(n)
  /\ NoteHistory

Spec == Init /\ [][Next]_vars

-----------------------------------------------------------------------------
TypeOK ==
  /\ link \in Links
  /\ alike \in SUBSET (Tenants \X Names)
  /\ req \in [Threads -> Request]
  /\ served \in 0 .. MaxRequests
  /\ during \in [Threads -> SUBSET (Tenants \X Link)]
  /\ around \in [Threads -> SUBSET (Tenants \X Names)]
  /\ basis \in [Threads -> Links]
  /\ stale \in BOOLEAN

(* Link l of the tenant was in force while the release was authorised, its *)
(* creator is who will own the skill, and it allows the release's branch.  *)
Answered(t, l) ==
  /\ <<req[t].tenant, l>> \in during[t]
  /\ l.by = req[t].link.by
  /\ l.branches = {} \/ req[t].branch \in l.branches

(* The tenant had linked a repository of the release's owner/name while it *)
(* was authorised, for this id or for one find_any matches as well.        *)
NameLinked(t) ==
  LET name == NameOf[req[t].link.repo] IN
  \/ <<req[t].tenant, name>> \in around[t]
  \/ \E l \in Link : <<req[t].tenant, l>> \in during[t] /\ NameOf[l.repo] = name

(* A release is authorised for a tenant only if the tenant had a link of   *)
(* this very id, in force while it was being authorised, that gives the    *)
(* owner and allows the branch, and had linked the repository it comes     *)
(* from.  With a bearer token the one link says all that, and of this very *)
(* URL.  From CI the repository is that of a link the tenant had then, by  *)
(* owner/name on whatever host: it is the same link unless links changed   *)
(* meanwhile, or find_any came upon the link of another id.  (The docs of  *)
(* resolve_release_tenant, "the link's repo matches the repo the OIDC      *)
(* token actually came from -- not just any repo", promise more.)          *)
ReleaseWasLinked ==
  \A t \in Threads : At(t, "granted") =>
    /\ req[t].tag /\ NameLinked(t)
    /\ \E l \in Link :
         Answered(t, l) /\ (req[t].op = "pat" => l.repo = req[t].link.repo)

(* repo_links.py:55-57: "anti-squatting only means something if a second   *)
(* tenant can't register the same skill id a first tenant already          *)
(* claimed".  Only a write that rests on a read gone stale makes a second  *)
(* claim.                                                                  *)
OneClaimUnlessStale == ~stale => Cardinality(Linked) <= 1

(* What CI trusts about a link, its repository and its creator, stays what *)
(* an admin registered for as long as the link is there (the route: "full- *)
(* replace of the allowed release branches"), unless a write rests on a    *)
(* read gone stale.                                                        *)
ClaimsAreKept ==
  [][\A n \in Linked : link'[n] # NoLink =>
       stale' \/ (link'[n].repo = link[n].repo /\ link'[n].by = link[n].by)]_vars
=============================================================================
