---------------------------- MODULE ReplicaIndex ----------------------------
(***************************************************************************)
(* The registry as its users see it: replicas that answer from an index in *)
(* memory (index/store.py), over one object store that holds the immutable *)
(* tags and, beside them, two mutable sidecars -- the yank status of a     *)
(* release (artifact/yank.py) and the governance record of a skill         *)
(* (artifact/governance.py).                                               *)
(*                                                                         *)
(* Handlers are synchronous and run in a thread pool, so several requests  *)
(* of one replica interleave, with each other and with the reconciliation  *)
(* task of index/background_sync.py.  Every action below is one access to  *)
(* the store or to the index; what a handler read earlier it carries along *)
(* in its request record.  A store call takes effect at one moment or not  *)
(* at all: module Publish shows what half written tags do, and a sidecar   *)
(* read while two writers share one file ends the reader's task (TaskEnds).*)
(***************************************************************************)
EXTENDS Naturals

CONSTANTS
  Replicas,    \* server processes over the same store
  Threads,     \* handler threads, each serving a request of some replica
  Skills,
  Tags,        \* releases: a skill id and a version
  SkillOf,     \* the skill a release belongs to
  Packages,    \* published records, digest and signature included
  TagOf,       \* the release a package's manifest names
  Governance,  \* governance records
  NoPackage, NoEntry, NoGovernance, NoTag,
  Operations,  \* which of AllOperations this instance performs
  MaxRequests, \* bound on the requests accepted
  MaxRestarts  \* bound on the restarts and on the tasks that end

AllOperations == {"draft", "release", "jaasctl", "status", "governance", "reconcile"}

ASSUME ReplicaIndexAssumption ==
  /\ TagOf \in [Packages -> Tags]
  /\ SkillOf \in [Tags -> Skills]
  /\ NoPackage \notin Packages /\ NoGovernance \notin Governance /\ NoTag \notin Tags
  /\ Operations \subseteq AllOperations
  /\ MaxRequests \in Nat /\ MaxRestarts \in Nat

VARIABLES
  tag,        \* tags/<id>/<version>/manifest.json
  status,     \* tags/<id>/<version>/status.json
  gov,        \* governance/<id>/governance.json
  index,      \* the InMemoryIndex of each replica
  sync,       \* each replica's bootstrap, then its reconciliation task
  req,        \* the request each thread serves
  acked,      \* releases whose publication a replica has confirmed
  requests,   \* how many so far
  restarts    \* processes and tasks that have ended so far

store == <<tag, status, gov>>
bounds == <<requests, restarts>>
vars == <<tag, status, gov, index, sync, req, acked, requests, restarts>>

Statuses == {"active", "yanked"}

Entry ==
  [pkg : Packages, status : Statuses, gov : Governance \union {NoGovernance}]

ASSUME NoEntryAssumption == NoEntry \notin Entry

(***************************************************************************)
(* parse_published_record: a tag's own fields, with the defaults that the  *)
(* sidecars overlay.                                                       *)
(***************************************************************************)
Base(p) == [pkg |-> p, status |-> "active", gov |-> NoGovernance]

ApplyStatus(e, s) == IF s = "none" THEN e ELSE [e EXCEPT !.status = s]

ApplyGovernance(e, g) == IF g = NoGovernance THEN e ELSE [e EXCEPT !.gov = g]

\* What bootstrap_index would build for a release if it read all at once.
Authoritative(t) ==
  IF tag[t] = NoPackage THEN NoEntry
  ELSE ApplyGovernance(ApplyStatus(Base(tag[t]), status[t]), gov[SkillOf[t]])

EmptyIndex == [t \in Tags |-> NoEntry]

Put(r, t, e) == index' = [index EXCEPT ![r][t] = e]

Indexed(r) == {t \in Tags : index[r][t] # NoEntry}

NoRequest == [pc |-> "idle"]

PublishRequest ==
  [pc : {"bindTag", "putBase"}, rep : Replicas, pkg : Packages, op : {"draft", "release"}]

StatusRequest ==
  [pc : {"writeStatus", "putStatus"}, rep : Replicas, rel : Tags, to : Statuses, held : Entry]

GovernanceRequest ==
  [pc : {"listVersions", "getEntry", "putEntry"}, rep : Replicas, skill : Skills,
   to : Governance, todo : SUBSET Tags, rel : Tags \union {NoTag},
   held : Entry \union {NoEntry}]

Requests == PublishRequest \union StatusRequest \union GovernanceRequest \union {NoRequest}

Sync ==
  [boot : BOOLEAN, pc : {"list", "readStatus", "readGovernance", "repair", "dead"},
   todo : SUBSET Tags, half : Tags \union {NoTag}, fresh : [Tags -> Entry \union {NoEntry}]]

\* A replica serves from the moment bootstrap_index has returned.
Up(r) == ~sync[r].boot

Rested(boot) ==
  [boot |-> boot, pc |-> "list", todo |-> {}, half |-> NoTag, fresh |-> EmptyIndex]

Starting == Rested(TRUE)

Waiting == Rested(FALSE)

Init ==
  /\ tag = [t \in Tags |-> NoPackage]
  /\ status = [t \in Tags |-> "none"]
  /\ gov = [s \in Skills |-> NoGovernance]
  /\ index = [r \in Replicas |-> EmptyIndex]
  /\ sync = [r \in Replicas |-> Waiting]
  /\ req = [th \in Threads |-> NoRequest]
  /\ acked = [r \in Replicas |-> {}]
  /\ requests = 0 /\ restarts = 0

-----------------------------------------------------------------------------
Accept(th, op) ==
  /\ op \in Operations
  /\ req[th] = NoRequest
  /\ requests < MaxRequests
  /\ requests' = requests + 1
  /\ UNCHANGED restarts

Set(th, request) == req' = [req EXCEPT ![th] = request]

Finish(th) == Set(th, NoRequest)

(***************************************************************************)
(* publish_draft and release_skill, from the moment the package has passed *)
(* every check and its blob is stored.                                     *)
(***************************************************************************)
BeginPublish(th, r, p, op) ==
  /\ Up(r)
  /\ Accept(th, op)
  /\ Set(th, [pc |-> "bindTag", rep |-> r, pkg |-> p, op |-> op])
  /\ UNCHANGED <<store, index, sync, acked>>

(***************************************************************************)
(* write_tag_if_absent.  A taken tag ends a draft publish with             *)
(* DUPLICATE_PUBLISH; a release treats it as a retry and indexes the tag   *)
(* that is there.                                                          *)
(***************************************************************************)
BindTag(th) ==
  LET p == req[th].pkg
      t == TagOf[p]
  IN
  /\ req[th].pc = "bindTag"
  /\ \/ /\ tag[t] = NoPackage
        /\ tag' = [tag EXCEPT ![t] = p]
        /\ Set(th, [req[th] EXCEPT !.pc = "putBase"])
     \/ /\ tag[t] # NoPackage /\ req[th].op = "release"
        /\ Set(th, [req[th] EXCEPT !.pc = "putBase"])
        /\ UNCHANGED tag
     \/ /\ tag[t] # NoPackage /\ req[th].op = "draft"
        /\ Finish(th)
        /\ UNCHANGED tag
  /\ UNCHANGED <<status, gov, index, sync, acked, bounds>>

\* Variant: the caller's own upload is indexed, not the tag that is stored.
PutUpload(th) ==
  LET r == req[th].rep
      p == req[th].pkg
  IN
  /\ req[th].pc = "putBase"
  /\ Put(r, TagOf[p], Base(p))
  /\ acked' = [acked EXCEPT ![r] = @ \union {TagOf[p]}]
  /\ Finish(th)
  /\ UNCHANGED <<store, sync, bounds>>

(***************************************************************************)
(* index.put(parse_published_record(store.read(tag_key))): the tag alone,  *)
(* without its sidecars.                                                   *)
(***************************************************************************)
PutBase(th) ==
  LET r == req[th].rep
      t == TagOf[req[th].pkg]
  IN
  /\ req[th].pc = "putBase"
  /\ Put(r, t, Base(tag[t]))
  /\ acked' = [acked EXCEPT ![r] = @ \union {t}]
  /\ Finish(th)
  /\ UNCHANGED <<store, sync, bounds>>

(***************************************************************************)
(* jaasctl publish writes to the store from a process without an index.    *)
(***************************************************************************)
JaasctlPublish(p) ==
  /\ "jaasctl" \in Operations
  /\ requests < MaxRequests
  /\ tag[TagOf[p]] = NoPackage
  /\ tag' = [tag EXCEPT ![TagOf[p]] = p]
  /\ requests' = requests + 1
  /\ UNCHANGED <<status, gov, index, sync, req, acked, restarts>>

(***************************************************************************)
(* _set_version_status, the body of /yank and /unyank: read the entry,     *)
(* write the sidecar, put the entry that was read with its status changed. *)
(* write_object may raise whether or not it took effect, and the request   *)
(* ends there.  On the local store that happens without any fault: writers *)
(* of one key share the file <key>.tmp, the first to rename it publishes   *)
(* what the other wrote, and the other finds nothing left to rename.       *)
(***************************************************************************)
BeginStatus(th, r, t, s) ==
  /\ Up(r)
  /\ t \in Indexed(r)
  /\ Accept(th, "status")
  /\ Set(th, [pc |-> "writeStatus", rep |-> r, rel |-> t, to |-> s, held |-> index[r][t]])
  /\ UNCHANGED <<store, index, sync, acked>>

WriteStatus(th) ==
  LET written == [status EXCEPT ![req[th].rel] = req[th].to] IN
  /\ req[th].pc = "writeStatus"
  /\ \/ status' = written /\ Set(th, [req[th] EXCEPT !.pc = "putStatus"])
     \/ status' \in {status, written} /\ Finish(th)
  /\ UNCHANGED <<tag, gov, index, sync, acked, bounds>>

PutStatus(th) ==
  /\ req[th].pc = "putStatus"
  /\ Put(req[th].rep, req[th].rel, ApplyStatus(req[th].held, req[th].to))
  /\ Finish(th)
  /\ UNCHANGED <<store, sync, acked, bounds>>

(***************************************************************************)
(* put_skill_governance: the sidecar, whose write may raise as above, then *)
(* every version the index lists at that moment, one after the other.      *)
(***************************************************************************)
VersionsAt(r, s) == {t \in Indexed(r) : SkillOf[t] = s}

Overlaying(label, r, s, g, left, t, e) ==
  [pc |-> label, rep |-> r, skill |-> s, to |-> g, todo |-> left, rel |-> t, held |-> e]

WriteGovernance(th, r, s, g) ==
  /\ Up(r)
  /\ VersionsAt(r, s) # {}
  /\ Accept(th, "governance")
  /\ \/ /\ gov' = [gov EXCEPT ![s] = g]
        /\ Set(th, Overlaying("listVersions", r, s, g, {}, NoTag, NoEntry))
     \/ /\ gov' \in {gov, [gov EXCEPT ![s] = g]}
        /\ UNCHANGED req
  /\ UNCHANGED <<tag, status, index, sync, acked>>

Proceed(th, label, left, t, e) ==
  Set(th, Overlaying(label, req[th].rep, req[th].skill, req[th].to, left, t, e))

NextVersion(th, left) ==
  IF left = {} THEN Finish(th) ELSE Proceed(th, "getEntry", left, NoTag, NoEntry)

ListVersions(th) ==
  /\ req[th].pc = "listVersions"
  /\ NextVersion(th, VersionsAt(req[th].rep, req[th].skill))
  /\ UNCHANGED <<store, index, sync, acked, bounds>>

GetEntry(th) ==
  /\ req[th].pc = "getEntry"
  /\ \E t \in req[th].todo :
       Proceed(th, "putEntry", req[th].todo, t, index[req[th].rep][t])
  /\ UNCHANGED <<store, index, sync, acked, bounds>>

PutEntry(th) ==
  /\ req[th].pc = "putEntry"
  /\ IF req[th].held = NoEntry THEN UNCHANGED index
     ELSE Put(req[th].rep, req[th].rel, ApplyGovernance(req[th].held, req[th].to))
  /\ NextVersion(th, req[th].todo \ {req[th].rel})
  /\ UNCHANGED <<store, sync, acked, bounds>>

-----------------------------------------------------------------------------
(***************************************************************************)
(* bootstrap_index, on a private index: list the tags, then for each one   *)
(* read its record and status sidecar, and its skill's governance sidecar. *)
(* reconcile() runs the same on a timer, then puts every entry that        *)
(* differs from the one it built.                                          *)
(***************************************************************************)
SetSync(r, fields) == sync' = [sync EXCEPT ![r] = fields]

Advance(r, label, todo, half, fresh) ==
  SetSync(r, [boot |-> sync[r].boot, pc |-> label, todo |-> todo, half |-> half, fresh |-> fresh])

ListTags(r) ==
  /\ sync[r].pc = "list"
  /\ sync[r].boot \/ "reconcile" \in Operations
  /\ Advance(r, "readStatus", {t \in Tags : tag[t] # NoPackage}, NoTag, EmptyIndex)
  /\ UNCHANGED <<store, index, req, acked, bounds>>

ReadTagAndStatus(r) ==
  /\ sync[r].pc = "readStatus"
  /\ \E t \in sync[r].todo :
       Advance(r, "readGovernance", sync[r].todo, t,
               [sync[r].fresh EXCEPT ![t] = ApplyStatus(Base(tag[t]), status[t])])
  /\ UNCHANGED <<store, index, req, acked, bounds>>

ReadGovernance(r) ==
  LET t == sync[r].half IN
  /\ sync[r].pc = "readGovernance"
  /\ Advance(r, "readStatus", sync[r].todo \ {t}, NoTag,
             [sync[r].fresh EXCEPT ![t] = ApplyGovernance(@, gov[SkillOf[t]])])
  /\ UNCHANGED <<store, index, req, acked, bounds>>

FinishBoot(r) ==
  /\ sync[r].pc = "readStatus" /\ sync[r].todo = {} /\ sync[r].boot
  /\ index' = [index EXCEPT ![r] = sync[r].fresh]
  /\ SetSync(r, Waiting)
  /\ UNCHANGED <<store, req, acked, bounds>>

\* Variant: what the snapshot lacks is removed from the index.
BeginReplacement(r) ==
  /\ sync[r].pc = "readStatus" /\ sync[r].todo = {} /\ ~sync[r].boot
  /\ Advance(r, "repair", Tags, NoTag, sync[r].fresh)
  /\ UNCHANGED <<store, index, req, acked, bounds>>

BeginRepair(r) ==
  /\ sync[r].pc = "readStatus" /\ sync[r].todo = {} /\ ~sync[r].boot
  /\ Advance(r, "repair", {t \in Tags : sync[r].fresh[t] # NoEntry}, NoTag, sync[r].fresh)
  /\ UNCHANGED <<store, index, req, acked, bounds>>

\* Variant: only missing entries are added.
RepairMissingEntry(r) ==
  /\ sync[r].pc = "repair"
  /\ \E t \in sync[r].todo :
       /\ IF index[r][t] # NoEntry THEN UNCHANGED index
          ELSE Put(r, t, sync[r].fresh[t])
       /\ Advance(r, "repair", sync[r].todo \ {t}, NoTag, sync[r].fresh)
  /\ UNCHANGED <<store, req, acked, bounds>>

RepairEntry(r) ==
  /\ sync[r].pc = "repair"
  /\ \E t \in sync[r].todo :
       /\ IF index[r][t] = sync[r].fresh[t] THEN UNCHANGED index
          ELSE Put(r, t, sync[r].fresh[t])
       /\ Advance(r, "repair", sync[r].todo \ {t}, NoTag, sync[r].fresh)
  /\ UNCHANGED <<store, req, acked, bounds>>

FinishRepair(r) ==
  /\ sync[r].pc = "repair" /\ sync[r].todo = {}
  /\ SetSync(r, Waiting)
  /\ UNCHANGED <<store, index, req, acked, bounds>>

(***************************************************************************)
(* Nothing in reconcile_periodically catches an exception: a read of the   *)
(* store that fails, or a dictionary that a put resizes under the loop     *)
(* over it, ends the task while the replica goes on serving.               *)
(***************************************************************************)
TaskEnds(r) ==
  /\ "reconcile" \in Operations
  /\ ~sync[r].boot /\ sync[r].pc # "dead"
  /\ restarts < MaxRestarts
  /\ restarts' = restarts + 1
  /\ Advance(r, "dead", {}, NoTag, EmptyIndex)
  /\ UNCHANGED <<store, index, req, acked, requests>>

(***************************************************************************)
(* The process dies with its index and the requests it was serving, and    *)
(* jaasctl serve bootstraps a new one.                                     *)
(***************************************************************************)
Restart(r) ==
  /\ restarts < MaxRestarts
  /\ restarts' = restarts + 1
  /\ index' = [index EXCEPT ![r] = EmptyIndex]
  /\ SetSync(r, Starting)
  /\ req' = [th \in Threads |->
               IF req[th] # NoRequest /\ req[th].rep = r THEN NoRequest ELSE req[th]]
  /\ UNCHANGED <<store, acked, requests>>

-----------------------------------------------------------------------------
Begin(th, r) ==
  \/ \E p \in Packages, op \in {"draft", "release"} : BeginPublish(th, r, p, op)
  \/ \E t \in Tags, s \in Statuses : BeginStatus(th, r, t, s)
  \/ \E s \in Skills, g \in Governance : WriteGovernance(th, r, s, g)

HandlerStep(th) ==
  \/ BindTag(th) \/ PutBase(th)
  \/ WriteStatus(th) \/ PutStatus(th)
  \/ ListVersions(th) \/ GetEntry(th) \/ PutEntry(th)

SyncStep(r) ==
  \/ ListTags(r) \/ ReadTagAndStatus(r) \/ ReadGovernance(r)
  \/ FinishBoot(r) \/ BeginRepair(r) \/ RepairEntry(r) \/ FinishRepair(r)

Next ==
  \/ \E th \in Threads, r \in Replicas : Begin(th, r)
  \/ \E th \in Threads : HandlerStep(th)
  \/ \E p \in Packages : JaasctlPublish(p)
  \/ \E r \in Replicas : SyncStep(r) \/ TaskEnds(r) \/ Restart(r)

Spec == Init /\ [][Next]_vars

(***************************************************************************)
(* Handler threads run to completion, and the reconciliation task keeps    *)
(* waking up; users, CI and crashes owe nobody a step.                     *)
(***************************************************************************)
FairSpec ==
  /\ Spec
  /\ \A th \in Threads : WF_vars(HandlerStep(th))
  /\ \A r \in Replicas : WF_vars(SyncStep(r))

-----------------------------------------------------------------------------
TypeOK ==
  /\ tag \in [Tags -> Packages \union {NoPackage}]
  /\ status \in [Tags -> Statuses \union {"none"}]
  /\ gov \in [Skills -> Governance \union {NoGovernance}]
  /\ index \in [Replicas -> [Tags -> Entry \union {NoEntry}]]
  /\ sync \in [Replicas -> Sync]
  /\ req \in [Threads -> Requests]
  /\ acked \in [Replicas -> SUBSET Tags]
  /\ requests \in 0..MaxRequests /\ restarts \in 0..MaxRestarts

\* Nothing is served that was not published: every entry, whichever of the
\* five paths put it there, carries the digest and fields of the tag in the
\* store under its own id and version.
IndexIsBackedByTags ==
  \A r \in Replicas : \A t \in Indexed(r) : index[r][t].pkg = tag[t] /\ TagOf[tag[t]] = t

\* A publication a replica has confirmed stays visible there: through other
\* requests, reconciliation from an older snapshot, and restarts.
ConfirmedStaysVisible ==
  \A r \in Replicas : Up(r) => acked[r] \subseteq Indexed(r)

\* No step makes an index forget a yank that is on record in the store, save
\* the restart that drops the whole index.
YankIsNotForgotten ==
  [][\A r \in Replicas, t \in Tags :
       index[r][t] # NoEntry /\ index[r][t].status = "yanked" /\ status'[t] = "yanked"
         => index'[r][t] = NoEntry \/ index'[r][t].status = "yanked"]_vars

\* Once requests and restarts cease, reconciliation makes the index of every
\* replica whose task has not ended equal to what the store says, whatever
\* raced before and whatever became of the other replicas' tasks.
Converges ==
  \A r \in Replicas :
    <>[](sync[r].pc = "dead" \/ \A t \in Tags : index[r][t] = Authoritative(t))

=============================================================================
