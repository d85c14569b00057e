-------------------------------- MODULE Search --------------------------------
(***************************************************************************)
(* Finding skills while others publish, yank and share them: one replica's *)
(* InMemoryIndex with its cached id list (index/store.py), the resolution  *)
(* of a version constraint (index/semver_resolver.py), the visibility rule *)
(* over share grants (sharing/access.py, sharing/grants.py) and the search *)
(* that goes through all of them (index/query.py).                         *)
(*                                                                         *)
(* Searches and writers are threads of one process without a lock.  They   *)
(* interleave where CPython may switch: between two calls, and between two *)
(* rounds of a loop.                                                       *)
(***************************************************************************)
EXTENDS Naturals, FiniteSetsExt

CONSTANTS
  Searchers,   \* threads that search
  Writers,     \* threads that put entries
  Skills,
  Versions,    \* numbers in the order of semantic versions
  Prerelease,  \* the versions that are prereleases
  Restricted,  \* releases published as tenant or private: <<skill, version>>
  Tenants, OwnerOf,   \* the tenant that owns a skill
  Users, TenantOf,    \* callers that sign in, and their active tenant
  Anonymous,
  Constraints, \* version constraints that are asked for
  None,
  MaxChanges   \* bound on the changes to index and grants

Constraint == [kind : {"stable", "latest", "spec"}, match : SUBSET Versions]

Callers == Users \union {Anonymous}

ASSUME SearchAssumption ==
  /\ Versions \subseteq Nat /\ IsFiniteSet(Versions) /\ Prerelease \subseteq Versions
  /\ Restricted \subseteq Skills \X Versions
  /\ OwnerOf \in [Skills -> Tenants] /\ TenantOf \in [Users -> Tenants]
  /\ Users \intersect Tenants = {} /\ Anonymous \notin Users
  /\ Constraints \subseteq Constraint
  /\ None \notin Versions /\ None \notin Skills /\ MaxChanges \in Nat

VARIABLES
  ids,      \* keys of _entries
  entry,    \* the status of each release in the index, or None
  cached,   \* whether _sorted_ids_cache holds a list
  cache,    \* the list it holds, or held last
  grants,   \* share_grants/: a skill and the user or tenant it is shared with
  search,   \* the search each searcher runs
  put,      \* the new release each writer is putting
  changes

searchVars == <<ids, entry, cached, cache, grants, search, put, changes>>

Grant == [skill : Skills, grantee : Users \union Tenants]

NoSearch == [pc |-> "idle"]

Nothing == [s \in Skills |-> None]

\* keys: a dictionary's keys as its iteration began; visible: the ids that
\* grants open to the caller, once they are looked up; touched, shared: skills
\* that were changed, or shared with the caller, since the search began.
Searching ==
  [pc : {"ids", "keep", "copy", "next", "scan", "judge", "user", "tenant", "done", "failed"},
   caller : Callers, constraint : Constraints,
   listed : SUBSET Skills, todo : SUBSET Skills, at : Skills \union {None},
   keys : SUBSET Versions, version : Versions \union {None},
   lookedUp : BOOLEAN, visible : SUBSET Skills, found : [Skills -> Versions \union {None}],
   touched : SUBSET Skills, shared : SUBSET Skills]

SearchInit ==
  /\ ids = {} /\ cached = FALSE /\ cache = {} /\ grants = {}
  /\ entry = [s \in Skills |-> [v \in Versions |-> None]]
  /\ search = [th \in Searchers |-> NoSearch]
  /\ put = [w \in Writers |-> None]
  /\ changes = 0

-----------------------------------------------------------------------------
Keys(s) == {v \in Versions : entry[s][v] # None}

\* resolve_version: the highest of the pool, which the constraint delimits.
Highest(pool) == IF pool = {} THEN None ELSE Max(pool)

ResolveVersion(versions, c) ==
  LET stable == versions \ Prerelease IN
  Highest(IF c.kind = "latest" THEN versions
          ELSE IF c.kind = "spec" THEN versions \intersect c.match
          ELSE IF stable # {} THEN stable ELSE versions)

\* A constraint that is the very version of an entry.
Pinned(s, c) == {v \in Keys(s) : c.kind = "spec" /\ c.match = {v}}

\* get_resolved: a pin finds a yanked version too, a range does not.
Resolved(s, c) ==
  IF Pinned(s, c) # {} THEN Max(Pinned(s, c))
  ELSE ResolveVersion({v \in Keys(s) : entry[s][v] # "yanked"}, c)

\* Whom a caller answers to as grantee of a share.
Grantees(caller) == IF caller = Anonymous THEN {} ELSE {caller, TenantOf[caller]}

SharedWith(caller, held) == {g.skill : g \in {h \in held : h.grantee \in Grantees(caller)}}

Public(s, v) == <<s, v>> \notin Restricted

OwnTenant(s, caller) == caller # Anonymous /\ OwnerOf[s] = TenantOf[caller]

\* can_view, over a skill's own grants (list_for_skill) as the metadata
\* endpoint calls it.
CanView(s, v, caller) ==
  \/ Public(s, v)
  \/ OwnTenant(s, caller)
  \/ \E g \in grants : g.skill = s /\ g.grantee \in Grantees(caller)

-----------------------------------------------------------------------------
SearchAt(th, label) == search[th].pc = label

SearchGoto(th, label) == search' = [search EXCEPT ![th].pc = label]

Update(th, fields) == search' = [search EXCEPT ![th] = fields]

BeginSearch(th, caller, c) ==
  /\ SearchAt(th, "idle")
  /\ Update(th, [pc |-> "ids", caller |-> caller, constraint |-> c, listed |-> {}, todo |-> {},
                 at |-> None, keys |-> {}, version |-> None,
                 lookedUp |-> FALSE, visible |-> {}, found |-> Nothing,
                 touched |-> {}, shared |-> SharedWith(caller, grants)])
  /\ UNCHANGED <<ids, entry, cached, cache, grants, put, changes>>

(***************************************************************************)
(* all_ids: if there is no cached list the keys are sorted, and the result *)
(* is stored only after sorted() has returned; the list it returns is read *)
(* from the cache once more, and None cannot be copied.                    *)
(***************************************************************************)
AllIds(th) ==
  /\ SearchAt(th, "ids")
  /\ IF cached THEN SearchGoto(th, "copy")
     ELSE Update(th, [search[th] EXCEPT !.pc = "keep", !.listed = ids])
  /\ UNCHANGED <<ids, entry, cached, cache, grants, put, changes>>

KeepIds(th) ==
  /\ SearchAt(th, "keep")
  /\ cached' = TRUE /\ cache' = search[th].listed
  /\ SearchGoto(th, "copy")
  /\ UNCHANGED <<ids, entry, grants, put, changes>>

CopyIds(th) ==
  /\ SearchAt(th, "copy")
  /\ IF cached
     THEN Update(th, [search[th] EXCEPT !.pc = "next", !.listed = cache, !.todo = cache])
     ELSE SearchGoto(th, "failed")
  /\ UNCHANGED <<ids, entry, cached, cache, grants, put, changes>>

\* get_resolved returns a pinned version at once, or iterates over them all.
StartScan(th) ==
  /\ SearchAt(th, "next")
  /\ \E s \in search[th].todo :
       LET pinned == Pinned(s, search[th].constraint)
           next   == [search[th] EXCEPT !.at = s, !.todo = @ \ {s}]
       IN  Update(th, IF pinned # {} THEN [next EXCEPT !.pc = "judge", !.version = Max(pinned)]
                      ELSE [next EXCEPT !.pc = "scan", !.keys = Keys(s)])
  /\ UNCHANGED <<ids, entry, cached, cache, grants, put, changes>>

\* Variant: a skill of which no version matches is judged as well.
EndScanUnchecked(th) ==
  LET s == search[th].at IN
  /\ SearchAt(th, "scan")
  /\ \/ search[th].keys # Keys(s) /\ SearchGoto(th, "failed")
     \/ /\ search[th].keys = Keys(s)
        /\ Update(th, [search[th] EXCEPT !.pc = "judge",
                                         !.version = Resolved(s, search[th].constraint)])
  /\ UNCHANGED <<ids, entry, cached, cache, grants, put, changes>>

\* A dictionary that has grown under the iteration raises, and fails the search.
EndScan(th) ==
  LET s == search[th].at
      v == Resolved(s, search[th].constraint)
  IN
  /\ SearchAt(th, "scan")
  /\ \/ search[th].keys # Keys(s) /\ SearchGoto(th, "failed")
     \/ search[th].keys = Keys(s) /\ v = None /\ SearchGoto(th, "next")
     \/ /\ search[th].keys = Keys(s) /\ v # None
        /\ Update(th, [search[th] EXCEPT !.pc = "judge", !.version = v])
  /\ UNCHANGED <<ids, entry, cached, cache, grants, put, changes>>

\* visible_skill_ids_via_grants, once per search and only when it is needed:
\* the caller's own grants, then the tenant's.
NeedsGrants(th) ==
  /\ ~Public(search[th].at, search[th].version)
  /\ ~search[th].lookedUp

ReadGrants(th) ==
  /\ SearchAt(th, "judge") /\ NeedsGrants(th)
  /\ IF search[th].caller = Anonymous
     THEN Update(th, [search[th] EXCEPT !.lookedUp = TRUE])
     ELSE SearchGoto(th, "user")
  /\ UNCHANGED <<ids, entry, cached, cache, grants, put, changes>>

\* Variant: every grant counts, whoever it is for.
ReadAllGrants(th) ==
  /\ SearchAt(th, "user")
  /\ Update(th, [search[th] EXCEPT !.pc = "tenant", !.visible = {g.skill : g \in grants}])
  /\ UNCHANGED <<ids, entry, cached, cache, grants, put, changes>>

ReadUserGrants(th) ==
  /\ SearchAt(th, "user")
  /\ Update(th, [search[th] EXCEPT !.pc = "tenant",
       !.visible = {g.skill : g \in {h \in grants : h.grantee = search[th].caller}}])
  /\ UNCHANGED <<ids, entry, cached, cache, grants, put, changes>>

\* Variant: the tenant's grants replace the caller's own.
ReadTenantGrantsOnly(th) ==
  /\ SearchAt(th, "tenant")
  /\ Update(th, [search[th] EXCEPT !.pc = "judge", !.lookedUp = TRUE,
       !.visible = {g.skill : g \in {h \in grants : h.grantee = TenantOf[search[th].caller]}}])
  /\ UNCHANGED <<ids, entry, cached, cache, grants, put, changes>>

ReadTenantGrants(th) ==
  /\ SearchAt(th, "tenant")
  /\ Update(th, [search[th] EXCEPT !.pc = "judge", !.lookedUp = TRUE,
       !.visible = @ \union
         {g.skill : g \in {h \in grants : h.grantee = TenantOf[search[th].caller]}}])
  /\ UNCHANGED <<ids, entry, cached, cache, grants, put, changes>>

\* can_view, over the visible ids.
Judge(th) ==
  LET s == search[th].at
      v == search[th].version
      passes == Public(s, v) \/ OwnTenant(s, search[th].caller) \/ s \in search[th].visible
  IN
  /\ SearchAt(th, "judge") /\ ~NeedsGrants(th)
  /\ Update(th, [search[th] EXCEPT !.pc = "next", !.found[s] = IF passes THEN v ELSE None])
  /\ UNCHANGED <<ids, entry, cached, cache, grants, put, changes>>

EndSearch(th) ==
  /\ SearchAt(th, "next") /\ search[th].todo = {}
  /\ SearchGoto(th, "done")
  /\ UNCHANGED <<ids, entry, cached, cache, grants, put, changes>>

Answer(th) ==
  /\ search[th].pc \in {"done", "failed"}
  /\ Update(th, NoSearch)
  /\ UNCHANGED <<ids, entry, cached, cache, grants, put, changes>>

-----------------------------------------------------------------------------
Change ==
  /\ changes < MaxChanges
  /\ changes' = changes + 1

\* What every search in progress will have lived through.
Touch(s) ==
  search' = [th \in Searchers |->
    IF search[th] = NoSearch THEN NoSearch
    ELSE [search[th] EXCEPT !.touched = @ \union {s},
                            !.shared = @ \union SharedWith(search[th].caller, grants')]]

\* put of a new release: setdefault enters the id, then the entry is stored
\* and the cached list dropped.
ReserveId(w, s, v) ==
  /\ put[w] = None
  /\ entry[s][v] = None /\ \A x \in Writers : put[x] # <<s, v>>
  /\ Change
  /\ ids' = ids \union {s}
  /\ put' = [put EXCEPT ![w] = <<s, v>>]
  /\ UNCHANGED <<entry, cached, cache, grants, search>>

StoreEntry(w, s, v) ==
  /\ put[w] = <<s, v>>
  /\ entry' = [entry EXCEPT ![s][v] = "active"]
  /\ cached' = FALSE
  /\ put' = [put EXCEPT ![w] = None]
  /\ UNCHANGED <<ids, cache, grants, changes>>
  /\ Touch(s)

\* put of an entry that is there already, yanked or restored.
SetStatus(s, v, status) ==
  /\ entry[s][v] # None
  /\ Change
  /\ entry' = [entry EXCEPT ![s][v] = status]
  /\ cached' = FALSE
  /\ UNCHANGED <<ids, cache, grants, put>>
  /\ Touch(s)

\* create_share and revoke_share, of a skill that has a version.
Share(g) ==
  /\ Keys(g.skill) # {}
  /\ Change
  /\ grants' = grants \union {g}
  /\ UNCHANGED <<ids, entry, cached, cache, put>>
  /\ Touch(g.skill)

Revoke(g) ==
  /\ g \in grants
  /\ Change
  /\ grants' = grants \ {g}
  /\ UNCHANGED <<ids, entry, cached, cache, put>>
  /\ Touch(g.skill)

-----------------------------------------------------------------------------
SearchStep(th) ==
  \/ AllIds(th) \/ KeepIds(th) \/ CopyIds(th)
  \/ StartScan(th) \/ EndScan(th)
  \/ ReadGrants(th) \/ ReadUserGrants(th) \/ ReadTenantGrants(th) \/ Judge(th)
  \/ EndSearch(th) \/ Answer(th)

SearchNext ==
  \/ \E th \in Searchers :
       \/ \E caller \in Callers, c \in Constraints : BeginSearch(th, caller, c)
       \/ SearchStep(th)
  \/ \E s \in Skills, v \in Versions :
       \/ \E w \in Writers : ReserveId(w, s, v) \/ StoreEntry(w, s, v)
       \/ \E status \in {"active", "yanked"} : SetStatus(s, v, status)
  \/ \E g \in Grant : Share(g) \/ Revoke(g)

SearchSpec == SearchInit /\ [][SearchNext]_searchVars

-----------------------------------------------------------------------------
SearchTypeOK ==
  /\ ids \in SUBSET Skills
  /\ entry \in [Skills -> [Versions -> {"active", "yanked", None}]]
  /\ cached \in BOOLEAN /\ cache \in SUBSET Skills
  /\ grants \in SUBSET Grant
  /\ search \in [Searchers -> Searching \union {NoSearch}]
  /\ \A th \in Searchers : SearchAt(th, "judge") => search[th].version # None
  /\ put \in [Writers -> (Skills \X Versions) \union {None}]
  /\ changes \in 0..MaxChanges

\* What a caller who asks the metadata endpoint gets to see of a skill.
Viewable(s, caller, c) ==
  IF Resolved(s, c) # None /\ CanView(s, Resolved(s, c), caller) THEN Resolved(s, c) ELSE None

\* Of every skill it lists and nobody changes meanwhile, a search returns what
\* the metadata endpoint would: the two ways grants are looked up, once per
\* search by grantee and once per skill, agree however others interleave.
SearchIsExact ==
  \A th \in Searchers : SearchAt(th, "done") =>
    \A s \in search[th].listed \ search[th].touched :
      search[th].found[s] = Viewable(s, search[th].caller, search[th].constraint)

\* A search returns a restricted release only to its owning tenant, or to
\* somebody the skill was shared with at some time during the search.
ResultsWereShared ==
  \A th \in Searchers : SearchAt(th, "done") =>
    \A s \in Skills : search[th].found[s] # None =>
      \/ Public(s, search[th].found[s])
      \/ OwnTenant(s, search[th].caller)
      \/ s \in search[th].shared
=============================================================================
