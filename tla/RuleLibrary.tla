----------------------------- MODULE RuleLibrary -----------------------------
(***************************************************************************)
(* The custom guardrail rules of one tenant: guardrails/custom_rules.py,   *)
(* guardrails/custom_rule_drafts.py and the routes of api/tenant_routes.py *)
(* that put, publish and delete them.                                      *)
(*                                                                         *)
(* A rule is two kinds of file: the current pointer of its slug and one    *)
(* snapshot per version.  Handlers run in threads and take no lock, so     *)
(* every file operation and every call to the guardrails service is a step *)
(* of its own.  A body stands for everything in a rule but its slug and    *)
(* its version.                                                            *)
(***************************************************************************)
EXTENDS Naturals, FiniteSets

CONSTANTS
  Slugs,          \* the rule slugs of the tenant
  Bodies,         \* contents an author can write
  ValidBodies,    \* those the guardrails service finds well formed
  Unexplained,    \* those it finds invalid without saying why
  BlankBody,      \* the empty form a new draft starts from
  NoSlug,         \* the empty slug of that form
  MaxVersion,     \* bound: versions are 1 .. MaxVersion, in SemVer order
  DraftIds,       \* bound: drafts that can exist at once
  Threads,        \* handler threads of the application
  MaxRules,       \* MAX_RULES_PER_TENANT
  MaxRequests,    \* bound: requests ever made
  NoRule, NoBody, NoDraft

ASSUME RuleAssumptions ==
  /\ ValidBodies \subseteq Bodies
  /\ Unexplained \subseteq Bodies \ ValidBodies
  /\ BlankBody \in Bodies
  /\ NoSlug \notin Slugs
  /\ MaxVersion \in Nat \ {0}
  /\ MaxRules \in Nat \ {0}
  /\ MaxRequests \in Nat
  /\ IsFiniteSet(Slugs)
  /\ IsFiniteSet(Threads) /\ Threads # {}
  /\ DraftIds # {}

Versions == 1 .. MaxVersion
Rule == [body : Bodies, version : Versions]
Draft == [slug : Slugs \union {NoSlug}, body : Bodies, version : Versions]

ASSUME NothingAssumption ==
  NoRule \notin Rule /\ NoDraft \notin Draft /\ NoBody \notin Bodies

AuditActions == {"created", "updated", "published", "deleted"}

VARIABLES
  rule,       \* [Slugs -> Rule or NoRule]: the current-pointer files
  snapshot,   \* [Slugs -> [Versions -> Bodies or NoBody]]: versions/ files
  draft,      \* [DraftIds -> Draft or NoDraft]
  audit,      \* [Slugs -> action of the slug's last audit record, or "none"]
  req,        \* [Threads -> the request a thread is working on]
  served,     \* number of requests taken so far
  contested   \* history: slugs two writers wrote at once, or one half wrote

vars == <<rule, snapshot, draft, audit, req, served, contested>>

Ops == {"none", "put", "publish", "remove", "edit"}
Stages == {"idle", "load", "isNew", "validate", "check", "limit", "snapshot",
           "pointer", "audit", "erase", "unlink", "glob", "sweep", "save"}
Request ==
  [op : Ops, at : Stages, content : Draft, id : DraftIds,
   isNew : BOOLEAN, files : SUBSET Versions]

Blank == [slug |-> NoSlug, body |-> BlankBody, version |-> 1]
Asked(op, at, content, d) ==
  [op |-> op, at |-> at, content |-> content, id |-> d,
   isNew |-> FALSE, files |-> {}]
Idle == Asked("none", "idle", Blank, CHOOSE d \in DraftIds : TRUE)

Init ==
  /\ rule = [s \in Slugs |-> NoRule]
  /\ snapshot = [s \in Slugs |-> [v \in Versions |-> NoBody]]
  /\ draft = [d \in DraftIds |-> NoDraft]
  /\ audit = [s \in Slugs |-> "none"]
  /\ req = [t \in Threads |-> Idle]
  /\ served = 0
  /\ contested = {}

Listed == {s \in Slugs : rule[s] # NoRule}
At(t, stage) == req[t].at = stage
Slug(t) == req[t].content.slug
Go(t, stage) == req' = [req EXCEPT ![t].at = stage]
Finish(t) == req' = [req EXCEPT ![t] = Idle]
Note(t, stage, isNew, files) ==
  req' = [req EXCEPT ![t] =
            [op |-> req[t].op, at |-> stage, content |-> req[t].content,
             id |-> req[t].id, isNew |-> isNew, files |-> files]]

-----------------------------------------------------------------------------
(* Requests arrive: an admin's put, publication or deletion of a rule, and *)
(* any member's work on drafts.                                            *)
Arrive(t, op, at, content, d) ==
  /\ At(t, "idle")
  /\ served < MaxRequests
  /\ served' = served + 1
  /\ req' = [req EXCEPT ![t] = Asked(op, at, content, d)]
  /\ UNCHANGED <<rule, snapshot, draft, audit>>

AskPut(t) ==
  \E content \in Draft, d \in DraftIds :
    content.slug \in Slugs /\ Arrive(t, "put", "isNew", content, d)
AskRemove(t) ==
  \E s \in Slugs, d \in DraftIds :
    Arrive(t, "remove", "unlink", [Blank EXCEPT !.slug = s], d)
AskPublish(t) == \E d \in DraftIds : Arrive(t, "publish", "load", Blank, d)
AskEdit(t) ==
  \E content \in Draft, d \in DraftIds : Arrive(t, "edit", "load", content, d)

(* Creating a draft reads the rule it forks, if any, and writes one fresh  *)
(* file; discarding one unlinks it.                                        *)
DraftOf(s) ==
  [slug |-> s, body |-> rule[s].body, version |-> rule[s].version + 1]
CreateDraft(d) ==
  /\ served < MaxRequests
  /\ served' = served + 1
  /\ draft[d] = NoDraft
  /\ \/ draft' = [draft EXCEPT ![d] = Blank]
     \/ \E s \in Listed :
          /\ rule[s].version < MaxVersion
          /\ draft' = [draft EXCEPT ![d] = DraftOf(s)]
  /\ UNCHANGED <<rule, snapshot, audit, req>>
DiscardDraft(d) ==
  /\ served < MaxRequests
  /\ served' = served + 1
  /\ draft[d] # NoDraft
  /\ draft' = [draft EXCEPT ![d] = NoDraft]
  /\ UNCHANGED <<rule, snapshot, audit, req>>

-----------------------------------------------------------------------------
(* draft_store.get: publication works on the draft as it is now, an edit   *)
(* only needs it to exist.                                                 *)
Load(t) ==
  /\ At(t, "load")
  /\ LET d == req[t].id IN
     IF draft[d] = NoDraft THEN Finish(t)
     ELSE IF req[t].op = "edit" THEN Go(t, "save")
     ELSE req' = [req EXCEPT ![t] = Asked("publish", "validate", draft[d], d)]
  /\ UNCHANGED <<rule, snapshot, draft, audit, served>>

(* draft_store.update's write_text creates the file if it is gone.         *)
Save(t) ==
  /\ At(t, "save")
  /\ draft' = [draft EXCEPT ![req[t].id] = req[t].content]
  /\ Finish(t)
  /\ UNCHANGED <<rule, snapshot, audit, served>>

(* Whether the audit record will say created: put asks before the          *)
(* validation, publish after it.                                           *)
ReadIsNew(t) ==
  /\ At(t, "isNew")
  /\ Note(t, IF req[t].op = "put" THEN "validate" ELSE "check",
           Slug(t) \notin Listed, {})
  /\ UNCHANGED <<rule, snapshot, draft, audit, served>>

(* The guardrails service judges the rule, or cannot be reached.  The      *)
(* client makes the text of the error of the answer, which is None for a   *)
(* valid rule -- and for an invalid one that comes without a text.         *)
Passing == ValidBodies \union Unexplained

Validate(t) ==
  /\ At(t, "validate")
  /\ \/ /\ req[t].content.body \in Passing
        /\ Go(t, IF req[t].op = "put" THEN "check" ELSE "isNew")
     \/ Finish(t)
  /\ UNCHANGED <<rule, snapshot, draft, audit, served>>

-----------------------------------------------------------------------------
(* CustomGuardrailRuleStore.put: the slug is checked, a new rule is held   *)
(* against the limit, the snapshot is written before the pointer.  NoSlug  *)
(* stands for every slug validate_slug refuses.                            *)
Check(t) ==
  /\ At(t, "check")
  /\ IF Slug(t) = NoSlug THEN Finish(t)
     ELSE Go(t, IF Slug(t) \in Listed THEN "snapshot" ELSE "limit")
  /\ UNCHANGED <<rule, snapshot, draft, audit, served>>

(* Mutant: one rule too many is let in.                                    *)
LimitOffByOne(t) ==
  /\ At(t, "limit")
  /\ IF Cardinality(Listed) > MaxRules THEN Finish(t) ELSE Go(t, "snapshot")
  /\ UNCHANGED <<rule, snapshot, draft, audit, served>>

Limit(t) ==
  /\ At(t, "limit")
  /\ IF Cardinality(Listed) >= MaxRules THEN Finish(t) ELSE Go(t, "snapshot")
  /\ UNCHANGED <<rule, snapshot, draft, audit, served>>

WriteSnapshot(t) ==
  /\ At(t, "snapshot")
  /\ LET c == req[t].content IN
     snapshot' = [snapshot EXCEPT ![c.slug][c.version] = c.body]
  /\ Go(t, "pointer")
  /\ UNCHANGED <<rule, draft, audit, served>>

(* Mutant: publication stores the draft as it is after the validation.     *)
WritePointerReread(t) ==
  /\ At(t, "pointer")
  /\ LET d == req[t].id
         c == IF req[t].op = "publish" /\ draft[d] # NoDraft
              THEN [req[t].content EXCEPT !.body = draft[d].body]
              ELSE req[t].content
     IN rule' = [rule EXCEPT ![c.slug] = [body |-> c.body, version |-> c.version]]
  /\ Go(t, "audit")
  /\ UNCHANGED <<snapshot, draft, audit, served>>

WritePointer(t) ==
  /\ At(t, "pointer")
  /\ LET c == req[t].content IN
     rule' = [rule EXCEPT ![c.slug] = [body |-> c.body, version |-> c.version]]
  /\ Go(t, "audit")
  /\ UNCHANGED <<snapshot, draft, audit, served>>

(* CustomGuardrailRuleStore.delete: the pointer goes first, then each      *)
(* version file the directory listing showed; a file that another deletion *)
(* has removed meanwhile raises and ends the request unaudited.            *)
Unlink(t) ==
  /\ At(t, "unlink")
  /\ IF Slug(t) \notin Listed
     THEN Finish(t) /\ UNCHANGED rule
     ELSE Go(t, "glob") /\ rule' = [rule EXCEPT ![Slug(t)] = NoRule]
  /\ UNCHANGED <<snapshot, draft, audit, served>>

Glob(t) ==
  /\ At(t, "glob")
  /\ Note(t, "sweep", FALSE, {v \in Versions : snapshot[Slug(t)][v] # NoBody})
  /\ UNCHANGED <<rule, snapshot, draft, audit, served>>

Sweep(t) ==
  /\ At(t, "sweep")
  /\ \/ req[t].files = {} /\ Go(t, "audit") /\ UNCHANGED snapshot
     \/ \E v \in req[t].files :
          IF snapshot[Slug(t)][v] = NoBody
          THEN Finish(t) /\ UNCHANGED snapshot
          ELSE /\ snapshot' = [snapshot EXCEPT ![Slug(t)][v] = NoBody]
               /\ Note(t, "sweep", FALSE, req[t].files \ {v})
  /\ UNCHANGED <<rule, draft, audit, served>>

(* Mutant: the record carries the request's name.                          *)
AuditActionRaw(t) == req[t].op

(* The route's audit record, the last step but for the draft of a          *)
(* publication, which is then deleted if it is still there.                *)
AuditAction(t) ==
  IF req[t].op = "remove" THEN "deleted"
  ELSE IF req[t].isNew THEN "created"
  ELSE IF req[t].op = "put" THEN "updated" ELSE "published"

(* Mutant: a deletion is not recorded.                                     *)
AuditWritesOnly(t) ==
  /\ At(t, "audit")
  /\ audit' = IF req[t].op = "remove" THEN audit
              ELSE [audit EXCEPT ![Slug(t)] = AuditAction(t)]
  /\ IF req[t].op = "publish" THEN Go(t, "erase") ELSE Finish(t)
  /\ UNCHANGED <<rule, snapshot, draft, served>>

Audit(t) ==
  /\ At(t, "audit")
  /\ audit' = [audit EXCEPT ![Slug(t)] = AuditAction(t)]
  /\ IF req[t].op = "publish" THEN Go(t, "erase") ELSE Finish(t)
  /\ UNCHANGED <<rule, snapshot, draft, served>>

Erase(t) ==
  /\ At(t, "erase")
  /\ draft' = [draft EXCEPT ![req[t].id] = NoDraft]
  /\ Finish(t)
  /\ UNCHANGED <<rule, snapshot, audit, served>>

-----------------------------------------------------------------------------
(* A writer of s has written the first of its files and owes the rest.     *)
Writing(t, s) ==
  Slug(t) = s /\ req[t].at \in {"pointer", "glob", "sweep", "audit"}

(* The process dies: requests are gone, files stay as they are.            *)
Crash ==
  /\ \E t \in Threads : ~At(t, "idle")
  /\ req' = [t \in Threads |-> Idle]
  /\ contested' = contested \union {s \in Slugs : \E t \in Threads : Writing(t, s)}
  /\ UNCHANGED <<rule, snapshot, draft, audit, served>>

HandlerStep(t) ==
  \/ AskPut(t) \/ AskRemove(t) \/ AskPublish(t) \/ AskEdit(t)
  \/ Load(t) \/ Save(t) \/ ReadIsNew(t) \/ Validate(t)
  \/ Check(t) \/ Limit(t) \/ WriteSnapshot(t) \/ WritePointer(t)
  \/ Unlink(t) \/ Glob(t) \/ Sweep(t) \/ Audit(t) \/ Erase(t)

(* History: a writer starts on, or carries on with, a slug another writer  *)
(* has half written, or gives up half way.                                 *)
NoteContest ==
  contested' = contested \union
    {s \in Slugs : \E t \in Threads :
       \/ Writing(t, s)' /\ \E u \in Threads \ {t} : Writing(u, s)'
       \/ Writing(t, s) /\ ~At(t, "audit") /\ ~Writing(t, s)'}

Next ==
  \/ /\ \/ \E t \in Threads : HandlerStep(t)
        \/ \E d \in DraftIds : CreateDraft(d) \/ DiscardDraft(d)
     /\ NoteContest
  \/ Crash

Spec == Init /\ [][Next]_vars

-----------------------------------------------------------------------------
TypeOK ==
  /\ rule \in [Slugs -> Rule \union {NoRule}]
  /\ snapshot \in [Slugs -> [Versions -> Bodies \union {NoBody}]]
  /\ draft \in [DraftIds -> Draft \union {NoDraft}]
  /\ audit \in [Slugs -> AuditActions \union {"none"}]
  /\ req \in [Threads -> Request]
  /\ served \in 0 .. MaxRequests
  /\ contested \in SUBSET Slugs

(* "A rule is only ever persisted once it passes" (tenant_routes.py): what *)
(* is current, and every version kept, was answered by the guardrails      *)
(* service without an error, so found well formed if the service explains  *)
(* its refusals, whatever happened to the draft it was published from      *)
(* while the service was being asked.                                      *)
RulesWereValidated ==
  \A s \in Slugs :
    /\ rule[s] # NoRule => rule[s].body \in Passing
    /\ \A v \in Versions : snapshot[s][v] # NoBody => snapshot[s][v] \in Passing

(* The limit is checked before the write and nothing holds the place: it   *)
(* can be overrun, but never by more than the other threads that were past *)
(* the check at the time.                                                  *)
RuleLimitHolds ==
  Cardinality(Listed) <= MaxRules + Cardinality(Threads) - 1

AtRest(s) == s \notin contested /\ \A t \in Threads : ~Writing(t, s)

(* Unless two writers were at a rule at once or one of them stopped half   *)
(* way, its history holds the current version with the current content     *)
(* (put writes the snapshot before the pointer, delete removes the pointer *)
(* before the snapshots), and the last audit record about it says whether  *)
(* it is there: a refused or failed request leaves none.                   *)
HistoryAndAuditAgree ==
  \A s \in Slugs : AtRest(s) =>
    /\ rule[s] # NoRule => snapshot[s][rule[s].version] = rule[s].body
    /\ rule[s] # NoRule <=> audit[s] \notin {"none", "deleted"}
=============================================================================
