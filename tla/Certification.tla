---------------------------- MODULE Certification ----------------------------
(***************************************************************************)
(* What a skill is scanned for and what its publication then attests:      *)
(* guardrails/policy.py (the tenant's baseline), guardrails/skill_config.py *)
(* (what the skill's .jaas/guardrails.yaml adds), the scan in              *)
(* artifact/publish.py and guardrails/certification.py, with the routes    *)
(* that read and put the policy.                                           *)
(*                                                                         *)
(* The guardrails service is external.  Its catalog is asked for over HTTP *)
(* twice in a publication and once more used by the service itself during  *)
(* the scan, and the service may be redeployed in between.  Rules a skill  *)
(* defines inline travel with it unchanged and are left out.               *)
(***************************************************************************)
EXTENDS Naturals, FiniteSets

CONSTANTS
  Checks,       \* ids of catalog checks
  Slugs,        \* ids of the tenant's custom rules
  Catalogs,     \* the catalogs the service is deployed with
  Threads,      \* handler threads of the application
  MaxRequests,  \* bound: requests ever made
  MaxIds,       \* bound: ids a request names
  MaxDeploys    \* bound: redeployments of the guardrails service

Levels == 1 .. 4        \* ALL_LEVELS
Catalog ==
  [ids : SUBSET Checks, mandatory : SUBSET Checks,
   default : SUBSET Checks, level : [Checks -> Levels]]

ASSUME CatalogAssumptions ==
  /\ Catalogs # {} /\ Catalogs \subseteq Catalog
  /\ \A c \in Catalogs : c.mandatory \subseteq c.ids /\ c.default \subseteq c.ids
  /\ Checks \intersect Slugs = {}
  /\ MaxRequests \in Nat /\ MaxDeploys \in Nat /\ MaxIds \in Nat

(* The policy file: whether there is one, and the checks it enables.       *)
Policy == [kept : BOOLEAN, checks : SUBSET Checks]
NoPolicy == [kept |-> FALSE, checks |-> {}]
Stored(checks) == [kept |-> TRUE, checks |-> checks]

VARIABLES
  catalog,    \* the catalog the service runs with
  deploys,    \* redeployments so far
  policy,     \* the tenant's policy file
  library,    \* the tenant's custom rules (module RuleLibrary): their slugs
  req,        \* [Threads -> the request a thread is working on]
  served,     \* number of requests taken so far
  baselines   \* history: [Threads -> the policies there were while the
              \* thread's request lasted]

vars == <<catalog, deploys, policy, library, req, served, baselines>>

Ids == Checks \union Slugs

(* ask: the ids of the request's body, for a publication those its config  *)
(* applies; todo: those not resolved yet; custom: the rules resolved; ran  *)
(* and found: what the service executed and had findings for, by: the      *)
(* catalog it had at the time.                                             *)
Request ==
  [op : {"none", "publish", "validate", "policy"},
   at : {"idle", "fetch", "policy", "resolve", "refetch", "scan", "done", "store"},
   ask : SUBSET Ids, todo : SUBSET Ids, cat : Catalogs,
   enabled : SUBSET Checks, custom : SUBSET Slugs,
   ran : SUBSET Ids, found : SUBSET Ids, by : Catalogs]

SomeCatalog == CHOOSE c \in Catalogs : TRUE
Asked(op, at, ask) ==
  [op |-> op, at |-> at, ask |-> ask, todo |-> ask,
   cat |-> SomeCatalog, enabled |-> {}, custom |-> {},
   ran |-> {}, found |-> {}, by |-> SomeCatalog]
Idle == Asked("none", "idle", {})

Init ==
  /\ catalog \in Catalogs
  /\ deploys = 0
  /\ policy = NoPolicy
  /\ library = {}
  /\ req = [t \in Threads |-> Idle]
  /\ served = 0
  /\ baselines = [t \in Threads |-> {}]

At(t, stage) == req[t].at = stage
Finish(t) == req' = [req EXCEPT ![t] = Idle]
(* The request goes on with what r has learnt.                             *)
Go(t, stage, r) == req' = [req EXCEPT ![t] = [r EXCEPT !.at = stage]]

-----------------------------------------------------------------------------
(* The world around: the service is redeployed, custom rules come and go.  *)
Redeploy ==
  /\ deploys < MaxDeploys
  /\ deploys' = deploys + 1
  /\ catalog' \in Catalogs \ {catalog}
  /\ UNCHANGED <<policy, library, req, served>>
ChangeLibrary(s) ==
  /\ served < MaxRequests
  /\ served' = served + 1
  /\ library' = IF s \in library THEN library \ {s} ELSE library \union {s}
  /\ UNCHANGED <<catalog, deploys, policy, req>>

Arrive(t) ==
  /\ At(t, "idle")
  /\ served < MaxRequests
  /\ served' = served + 1
  /\ \E ask \in SUBSET Ids, op \in {"publish", "validate", "policy"} :
       /\ Cardinality(ask) <= MaxIds
       /\ req' = [req EXCEPT ![t] = Asked(op, "fetch", ask)]
  /\ UNCHANGED <<catalog, deploys, policy, library>>

(* GuardrailCatalogDep asks the service for its catalog, which may not     *)
(* answer.                                                                 *)
Fetch(t) ==
  /\ At(t, "fetch")
  /\ \/ Go(t, IF req[t].op = "policy" THEN "store" ELSE "policy",
            [req[t] EXCEPT !.cat = catalog])
     \/ Finish(t)
  /\ UNCHANGED <<catalog, deploys, policy, library, served>>

-----------------------------------------------------------------------------
(* Mutant: unknown checks are not refused.                                 *)
StorePolicyUnchecked(t) ==
  /\ At(t, "store")
  /\ policy' = Stored(req[t].ask \ req[t].cat.mandatory)
  /\ Finish(t)
  /\ UNCHANGED <<catalog, deploys, library, served>>

(* GuardrailPolicyStore.put refuses unknown checks and leaves out the      *)
(* mandatory ones, which the service runs in any case.                     *)
StorePolicy(t) ==
  /\ At(t, "store")
  /\ policy' = IF req[t].ask \subseteq req[t].cat.ids
               THEN Stored(req[t].ask \ req[t].cat.mandatory) ELSE policy
  /\ Finish(t)
  /\ UNCHANGED <<catalog, deploys, library, served>>

(* GuardrailPolicyStore.get: default_policy if there is no file.           *)
Baseline(p, c) == IF p.kept THEN p.checks ELSE c.mandatory \union c.default
ReadPolicy(t) ==
  /\ At(t, "policy")
  /\ Go(t, "resolve", [req[t] EXCEPT !.enabled = Baseline(policy, req[t].cat)])
  /\ UNCHANGED <<catalog, deploys, policy, library, served>>

(* Mutant: the first id applied replaces the baseline.                     *)
EnableInstead(r, i) ==
  [r EXCEPT !.enabled = IF r.todo = r.ask THEN {i} ELSE @ \union {i},
            !.todo = @ \ {i}]

(* resolve_guardrails_for_skill takes the applied ids one by one: a check  *)
(* of the catalog, a rule of the tenant's library, or else an error.       *)
Resolved(r, i) == [r EXCEPT !.todo = @ \ {i}]
Enable(r, i) == Resolved([r EXCEPT !.enabled = @ \union {i}], i)
Adopt(r, i) == Resolved([r EXCEPT !.custom = @ \union {i}], i)
Resolve(t) ==
  /\ At(t, "resolve")
  /\ \/ /\ req[t].todo = {}
        /\ Go(t, IF req[t].op = "publish" THEN "refetch" ELSE "scan", req[t])
     \/ \E i \in req[t].todo :
          \/ i \in req[t].cat.ids /\ Go(t, "resolve", Enable(req[t], i))
          \/ i \in library /\ Go(t, "resolve", Adopt(req[t], i))
          \/ i \notin req[t].cat.ids \union library /\ Finish(t)
  /\ UNCHANGED <<catalog, deploys, policy, library, served>>

(* publish_skill fetches the catalog again, for the certification; the     *)
(* draft's Validate button makes do with the first one.                    *)
Refetch(t) ==
  /\ At(t, "refetch")
  /\ \/ Go(t, "scan", [req[t] EXCEPT !.cat = catalog])
     \/ Finish(t)
  /\ UNCHANGED <<catalog, deploys, policy, library, served>>

(* POST /scan, external: the service runs what is enabled of its catalog,  *)
(* its mandatory checks regardless, and the rules sent along.  Blocking    *)
(* findings end the request; the others are warnings.                      *)
Executed(r) ==
  (r.enabled \intersect catalog.ids) \union catalog.mandatory \union r.custom
Judged(r, found) ==
  [[[r EXCEPT !.ran = Executed(r)] EXCEPT !.found = found] EXCEPT !.by = catalog]
Scan(t) ==
  /\ At(t, "scan")
  /\ \/ \E found \in SUBSET Executed(req[t]) : Go(t, "done", Judged(req[t], found))
     \/ Finish(t)
  /\ UNCHANGED <<catalog, deploys, policy, library, served>>

(* The record is written (module Publish), or the verdict is shown.        *)
Answer(t) ==
  /\ At(t, "done")
  /\ Finish(t)
  /\ UNCHANGED <<catalog, deploys, policy, library, served>>

-----------------------------------------------------------------------------
(* compute_certification.                                                  *)
LevelIds(c, l) == {i \in c.ids : c.level[i] = l}
Attempted(r) == r.enabled \union r.cat.mandatory

(* Mutant: a level counts as attempted if one of its checks was.           *)
LevelStatusAny(r, l) ==
  IF /\ LevelIds(r.cat, l) # {}
     /\ LevelIds(r.cat, l) \intersect Attempted(r) = {}
  THEN "not_attempted"
  ELSE IF LevelIds(r.cat, l) \intersect r.found # {} THEN "attempted_with_findings"
  ELSE "certified"

LevelStatus(r, l) ==
  IF ~(LevelIds(r.cat, l) \subseteq Attempted(r)) THEN "not_attempted"
  ELSE IF LevelIds(r.cat, l) \intersect r.found # {} THEN "attempted_with_findings"
  ELSE "certified"

(* The loop over the levels, which breaks at the first not certified.      *)
HighestUpTo(r) ==
  LET highest[l \in 0 .. 4] ==
        IF l = 0 THEN 0
        ELSE IF highest[l - 1] = l - 1 /\ LevelStatus(r, l) = "certified"
             THEN l ELSE highest[l - 1]
  IN highest
HighestCertified(r) == HighestUpTo(r)[4]

-----------------------------------------------------------------------------
HandlerStep(t) ==
  \/ Arrive(t) \/ Fetch(t) \/ StorePolicy(t) \/ ReadPolicy(t) \/ Resolve(t)
  \/ Refetch(t) \/ Scan(t) \/ Answer(t)

(* History: the policies there were during a request.                      *)
NoteHistory ==
  baselines' = [t \in Threads |->
    IF req'[t].op \notin {"publish", "validate"} THEN {}
    ELSE baselines[t] \union {policy, policy'}]

Next ==
  /\ \/ \E t \in Threads : HandlerStep(t)
     \/ \E s \in Slugs : ChangeLibrary(s)
     \/ Redeploy
  /\ NoteHistory

Spec == Init /\ [][Next]_vars

-----------------------------------------------------------------------------
TypeOK ==
  /\ catalog \in Catalogs
  /\ deploys \in 0 .. MaxDeploys
  /\ policy \in Policy
  /\ library \in SUBSET Slugs
  /\ req \in [Threads -> Request]
  /\ served \in 0 .. MaxRequests
  /\ baselines \in [Threads -> SUBSET Policy]

(* certification.py: "a per-level attestation of what a publish actually   *)
(* passed".  Every check the catalog has at a certified level was executed *)
(* by the service and found nothing, unless the service was redeployed     *)
(* between the fetch of the catalog and the scan; and the highest          *)
(* certified level is the top of an unbroken run of them from level 1.     *)
CertificationIsEarned ==
  /\ \A t \in Threads : At(t, "done") /\ req[t].by = req[t].cat =>
       \A l \in Levels : LevelStatus(req[t], l) = "certified" =>
         LevelIds(req[t].cat, l) \subseteq req[t].ran \ req[t].found
  /\ \A t \in Threads : At(t, "done") =>
       LET h == HighestCertified(req[t]) IN
       /\ \A l \in 1 .. h : LevelStatus(req[t], l) = "certified"
       /\ h < 4 => LevelStatus(req[t], h + 1) # "certified"

(* skill_config.py: the skill's file "can only ever *add* checks on top of *)
(* the tenant's policy".  Whatever it applies was scanned for, and so was  *)
(* everything that a policy in force during the request asks for, as far   *)
(* as the scanning service knows the check.                                *)
ScanCoversBaseline ==
  \A t \in Threads : At(t, "done") =>
    LET r == req[t] IN
    /\ r.ask \intersect (Slugs \union r.by.ids) \subseteq r.ran
    /\ r.by.mandatory \subseteq r.ran
    /\ \E p \in baselines[t], c \in Catalogs :
         Baseline(p, c) \intersect r.by.ids \subseteq r.ran
=============================================================================
