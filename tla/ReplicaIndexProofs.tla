------------------------- MODULE ReplicaIndexProofs -------------------------
(***************************************************************************)
(* What the replicas guarantee for any number of replicas, threads, skills *)
(* and releases, whatever requests, reconciliations and restarts           *)
(* interleave.                                                             *)
(***************************************************************************)
EXTENDS ReplicaIndex, TLAPS

USE ReplicaIndexAssumption, NoEntryAssumption

Backed(e, t) == e # NoEntry => e.pkg = tag[t]

TagsNameThemselves == \A t \in Tags : tag[t] # NoPackage => TagOf[tag[t]] = t

IndexBacked == \A r \in Replicas, t \in Tags : Backed(index[r][t], t)

\* An index under construction is as good as the served one, and knows which
\* tags it has still to read.
FreshBacked ==
  \A r \in Replicas :
    /\ \A t \in Tags : Backed(sync[r].fresh[t], t)
    /\ sync[r].pc \in {"readStatus", "readGovernance"} => \A t \in sync[r].todo : tag[t] # NoPackage
    /\ sync[r].pc = "readGovernance" =>
         sync[r].half \in Tags /\ sync[r].fresh[sync[r].half] # NoEntry
    /\ sync[r].pc = "repair" => \A t \in sync[r].todo : sync[r].fresh[t] # NoEntry

\* What a handler carries between two accesses is an entry of that release.
HeldBacked ==
  \A th \in Threads :
    /\ req[th].pc = "putBase" => tag[TagOf[req[th].pkg]] # NoPackage
    /\ req[th].pc \in {"writeStatus", "putStatus"} => Backed(req[th].held, req[th].rel)
    /\ req[th].pc = "putEntry" => req[th].rel \in Tags /\ Backed(req[th].held, req[th].rel)

\* The inductive invariant behind IndexIsBackedByTags: it has to follow the
\* entries through the request records and the snapshots they travel in.
IInv ==
  /\ TypeOK
  /\ TagsNameThemselves
  /\ IndexBacked
  /\ FreshBacked
  /\ HeldBacked

-----------------------------------------------------------------------------
\* The registry starts in the invariant: nothing is published or indexed.
LEMMA InitIInv == Init => IInv
<1> SUFFICES ASSUME Init PROVE IInv
  OBVIOUS
<1>1. EmptyIndex \in [Tags -> Entry \union {NoEntry}] /\ \A t \in Tags : EmptyIndex[t] = NoEntry
  BY DEF EmptyIndex
<1>2. Waiting \in Sync
  BY <1>1, SMT DEF Waiting, Rested, Sync
<1>3. TypeOK
  BY <1>1, <1>2, SMT DEF Init, TypeOK, Requests
<1>4. TagsNameThemselves /\ IndexBacked
  BY <1>1 DEF Init, TagsNameThemselves, IndexBacked, Backed
<1>5. FreshBacked
  <2>1. ASSUME NEW r \in Replicas
        PROVE  sync[r].pc = "list" /\ \A t \in Tags : sync[r].fresh[t] = NoEntry
    BY <1>1 DEF Init, Waiting, Rested
  <2> QED
    BY <2>1 DEF FreshBacked, Backed
<1>6. HeldBacked
  BY SMT DEF Init, HeldBacked, NoRequest
<1> QED
  BY <1>3, <1>4, <1>5, <1>6 DEF IInv

\* A request record's program point tells which handler it belongs to.
LEMMA Shape ==
  ASSUME TypeOK, NEW th \in Threads
  PROVE  /\ req[th].pc \in {"bindTag", "putBase"} => req[th] \in PublishRequest
         /\ req[th].pc \in {"writeStatus", "putStatus"} => req[th] \in StatusRequest
         /\ req[th].pc \in {"listVersions", "getEntry", "putEntry"} => req[th] \in GovernanceRequest
  BY SMT DEF TypeOK, Requests, PublishRequest, StatusRequest, GovernanceRequest, NoRequest

\* The overlays change an entry's status or governance, never what it is.
LEMMA Overlays ==
  ASSUME NEW e \in Entry, NEW s \in Statuses \union {"none"},
         NEW g \in Governance \union {NoGovernance}
  PROVE  /\ ApplyStatus(e, s) \in Entry /\ ApplyStatus(e, s).pkg = e.pkg
         /\ ApplyGovernance(e, g) \in Entry /\ ApplyGovernance(e, g).pkg = e.pkg
  BY SMT DEF Entry, ApplyStatus, ApplyGovernance

\* The entry built from a tag alone is an entry, of that tag's package.
LEMMA BaseEntry ==
  ASSUME NEW p \in Packages
  PROVE  Base(p) \in Entry /\ Base(p).pkg = p
  BY SMT DEF Base, Entry, Statuses

\* One put changes one entry of one replica.
LEMMA PutFacts ==
  ASSUME TypeOK, NEW r \in Replicas, NEW t \in Tags, NEW e \in Entry, Put(r, t, e)
  PROVE  /\ index' \in [Replicas -> [Tags -> Entry \union {NoEntry}]]
         /\ index'[r][t] = e
         /\ \A q \in Replicas, u \in Tags : q # r \/ u # t => index'[q][u] = index[q][u]
  BY SMT DEF TypeOK, Put

\* Setting one thread's request changes no other thread's.
LEMMA SetFacts ==
  ASSUME TypeOK, NEW th \in Threads, NEW q \in Requests, Set(th, q)
  PROVE  /\ req' \in [Threads -> Requests]
         /\ req'[th] = q
         /\ \A u \in Threads \ {th} : req'[u] = req[u]
  BY DEF TypeOK, Set

\* One replica's bootstrap or reconciliation changes no other's.
LEMMA SetSyncFacts ==
  ASSUME TypeOK, NEW r \in Replicas, NEW f \in Sync, SetSync(r, f)
  PROVE  /\ sync' \in [Replicas -> Sync]
         /\ sync'[r] = f
         /\ \A q \in Replicas \ {r} : sync'[q] = sync[q]
  BY DEF TypeOK, SetSync

\* A thread that serves nothing is in the type of all threads.
LEMMA IdleIsARequest == NoRequest \in Requests /\ NoRequest.pc = "idle"
  BY DEF Requests, NoRequest

\* A governance request that goes on is a request with the entry it holds.
LEMMA OverlayingFacts ==
  ASSUME TypeOK, NEW th \in Threads, req[th] \in GovernanceRequest,
         NEW label \in {"getEntry", "putEntry"}, NEW left \in SUBSET Tags,
         NEW t \in Tags \union {NoTag}, NEW e \in Entry \union {NoEntry},
         Proceed(th, label, left, t, e)
  PROVE  \E q \in Requests : Set(th, q) /\ q.pc = label /\ q.rel = t /\ q.held = e
<1>1. req[th].rep \in Replicas /\ req[th].skill \in Skills /\ req[th].to \in Governance
  BY SMT DEF GovernanceRequest
<1> DEFINE q == Overlaying(label, req[th].rep, req[th].skill, req[th].to, left, t, e)
<1>2. q \in Requests /\ q.pc = label /\ q.rel = t /\ q.held = e
  BY <1>1 DEF Overlaying, GovernanceRequest, Requests
<1> QED
  BY <1>2 DEF Proceed

\* A replica between two rounds of reconciliation holds no snapshot.
LEMMA RestedFacts ==
  ASSUME NEW boot \in BOOLEAN
  PROVE  /\ Rested(boot) \in Sync
         /\ Rested(boot).boot = boot /\ Rested(boot).pc = "list"
         /\ Rested(boot).todo = {}
         /\ \A t \in Tags : Rested(boot).fresh[t] = NoEntry
<1>1. EmptyIndex \in [Tags -> Entry \union {NoEntry}] /\ \A t \in Tags : EmptyIndex[t] = NoEntry
  BY DEF EmptyIndex
<1> QED
  BY <1>1, SMT DEF Rested, Sync

-----------------------------------------------------------------------------
\* A step that touches neither the tags nor any index, and leaves the entries
\* that travel in requests and snapshots as they are, keeps them backed.
LEMMA NewRequest ==
  ASSUME IInv, NEW th \in Threads, NEW q \in Requests, Set(th, q),
         UNCHANGED <<tag, index, sync>>,
         q.pc = "putBase" => tag[TagOf[q.pkg]] # NoPackage,
         q.pc \in {"writeStatus", "putStatus"} => Backed(q.held, q.rel),
         q.pc = "putEntry" => q.rel \in Tags /\ Backed(q.held, q.rel)
  PROVE  /\ TagsNameThemselves' /\ IndexBacked' /\ FreshBacked' /\ HeldBacked'
         /\ req' \in [Threads -> Requests]
<1>1. /\ req' \in [Threads -> Requests]
      /\ req'[th] = q
      /\ \A u \in Threads \ {th} : req'[u] = req[u]
  BY SetFacts DEF IInv
<1>2. TagsNameThemselves' /\ IndexBacked' /\ FreshBacked'
  BY DEF IInv, TagsNameThemselves, IndexBacked, FreshBacked, Backed
<1>3. HeldBacked'
  BY <1>1 DEF IInv, HeldBacked, Backed
<1> QED
  BY <1>1, <1>2, <1>3

\* A handler puts a backed entry and forgets, or goes on with, its request.
LEMMA HandlerPut ==
  ASSUME IInv, NEW th \in Threads, NEW q \in Requests, Set(th, q),
         q.pc \in {"idle", "getEntry"},
         NEW r \in Replicas, NEW t \in Tags, NEW e \in Entry, e.pkg = tag[t],
         Put(r, t, e), UNCHANGED <<tag, sync>>
  PROVE  /\ TagsNameThemselves' /\ IndexBacked' /\ FreshBacked' /\ HeldBacked'
         /\ req' \in [Threads -> Requests]
         /\ index' \in [Replicas -> [Tags -> Entry \union {NoEntry}]]
<1>1. /\ req' \in [Threads -> Requests]
      /\ req'[th] = q
      /\ \A u \in Threads \ {th} : req'[u] = req[u]
  BY SetFacts DEF IInv
<1>2. /\ index' \in [Replicas -> [Tags -> Entry \union {NoEntry}]]
      /\ index'[r][t] = e
      /\ \A p \in Replicas, u \in Tags : p # r \/ u # t => index'[p][u] = index[p][u]
  BY PutFacts DEF IInv
<1>3. TagsNameThemselves' /\ FreshBacked'
  BY DEF IInv, TagsNameThemselves, FreshBacked, Backed
<1>4. IndexBacked'
  <2> SUFFICES ASSUME NEW p \in Replicas, NEW u \in Tags
               PROVE  Backed(index[p][u], u)'
    BY DEF IndexBacked
  <2> QED
    BY <1>2 DEF IInv, IndexBacked, Backed
<1>5. HeldBacked'
  BY <1>1 DEF IInv, HeldBacked, Backed
<1> QED
  BY <1>1, <1>2, <1>3, <1>4, <1>5

\* Binding a free tag cannot disturb an entry: entries are of bound tags only.
LEMMA TagBound ==
  ASSUME IInv, NEW p \in Packages, tag[TagOf[p]] = NoPackage,
         tag' = [tag EXCEPT ![TagOf[p]] = p], UNCHANGED <<index, sync>>
  PROVE  /\ tag' \in [Tags -> Packages \union {NoPackage}]
         /\ \A t \in Tags : tag[t] # NoPackage => tag'[t] = tag[t]
         /\ tag'[TagOf[p]] = p
         /\ TagsNameThemselves' /\ IndexBacked' /\ FreshBacked'
<1>0. TypeOK /\ TagOf[p] \in Tags
  BY DEF IInv
<1>1. /\ tag' \in [Tags -> Packages \union {NoPackage}]
      /\ \A t \in Tags : tag[t] # NoPackage => tag'[t] = tag[t]
      /\ tag'[TagOf[p]] = p
      /\ \A t \in Tags \ {TagOf[p]} : tag'[t] = tag[t]
  BY <1>0 DEF TypeOK
<1>2. TagsNameThemselves'
  BY <1>1 DEF IInv, TagsNameThemselves
<1>3. \A t \in Tags, e \in Entry : e.pkg = tag[t] => e.pkg = tag'[t]
  BY <1>1 DEF Entry
<1>4. IndexBacked'
  BY <1>0, <1>3 DEF IInv, IndexBacked, Backed, TypeOK
<1>5. FreshBacked'
  <2> SUFFICES ASSUME NEW r \in Replicas
               PROVE  /\ \A t \in Tags : Backed(sync[r].fresh[t], t)'
                      /\ sync[r].pc \in {"readStatus", "readGovernance"} => \A t \in sync[r].todo : tag'[t] # NoPackage
    BY DEF IInv, FreshBacked
  <2>1. sync[r].fresh \in [Tags -> Entry \union {NoEntry}] /\ sync[r].todo \subseteq Tags
    BY <1>0, SMT DEF TypeOK, Sync
  <2>2. \A t \in Tags : Backed(sync[r].fresh[t], t)'
    BY <1>3, <2>1 DEF IInv, FreshBacked, Backed
  <2>3. sync[r].pc \in {"readStatus", "readGovernance"} => \A t \in sync[r].todo : tag'[t] # NoPackage
    BY <1>1, <2>1 DEF IInv, FreshBacked
  <2> QED
    BY <2>2, <2>3
<1> QED
  BY <1>1, <1>2, <1>4, <1>5

\* What the requests carry survives the binding of a tag.
LEMMA HeldSurvives ==
  ASSUME IInv, NEW th \in Threads, req'[th] = req[th],
         \A t \in Tags : tag[t] # NoPackage => tag'[t] = tag[t]
  PROVE  /\ req[th].pc = "putBase" => tag'[TagOf[req[th].pkg]] # NoPackage
         /\ req[th].pc \in {"writeStatus", "putStatus"} => Backed(req[th].held, req[th].rel)'
         /\ req[th].pc = "putEntry" => req[th].rel \in Tags /\ Backed(req[th].held, req[th].rel)'
<1>0. TypeOK
  BY DEF IInv
<1>1. req[th].pc = "putBase" => TagOf[req[th].pkg] \in Tags
  BY <1>0, Shape, SMT DEF PublishRequest
<1>2. \A t \in Tags, e \in Entry : e.pkg = tag[t] => e.pkg = tag'[t]
  BY <1>0, SMT DEF Entry, TypeOK
<1>3. req[th].pc \in {"writeStatus", "putStatus"} => req[th].rel \in Tags /\ req[th].held \in Entry
  BY <1>0, Shape, SMT DEF StatusRequest
<1>4. req[th].pc = "putEntry" => req[th].held \in Entry \union {NoEntry}
  BY <1>0, Shape, SMT DEF GovernanceRequest
<1> QED
  BY <1>1, <1>2, <1>3, <1>4 DEF IInv, HeldBacked, Backed

\* A replica's snapshot is replaced by one that is as well backed.
LEMMA NewSnapshot ==
  ASSUME IInv, NEW r \in Replicas, NEW f \in Sync, SetSync(r, f),
         UNCHANGED <<tag, req>>,
         \A t \in Tags : Backed(f.fresh[t], t),
         f.pc \in {"readStatus", "readGovernance"} => \A t \in f.todo : tag[t] # NoPackage,
         f.pc = "readGovernance" => f.half \in Tags /\ f.fresh[f.half] # NoEntry,
         f.pc = "repair" => \A t \in f.todo : f.fresh[t] # NoEntry
  PROVE  TagsNameThemselves' /\ FreshBacked' /\ HeldBacked' /\ sync' \in [Replicas -> Sync]
<1>1. /\ sync' \in [Replicas -> Sync]
      /\ sync'[r] = f
      /\ \A q \in Replicas \ {r} : sync'[q] = sync[q]
  BY SetSyncFacts DEF IInv
<1>2. TagsNameThemselves' /\ HeldBacked'
  BY DEF IInv, TagsNameThemselves, HeldBacked, Backed
<1>3. FreshBacked'
  <2> SUFFICES ASSUME NEW q \in Replicas
               PROVE  /\ \A t \in Tags : Backed(sync[q].fresh[t], t)'
                      /\ sync'[q].pc \in {"readStatus", "readGovernance"} => \A t \in sync'[q].todo : tag[t] # NoPackage
                      /\ sync'[q].pc = "readGovernance" =>
                           sync'[q].half \in Tags /\ sync'[q].fresh[sync'[q].half] # NoEntry
                      /\ sync'[q].pc = "repair" => \A t \in sync'[q].todo : sync'[q].fresh[t] # NoEntry
    BY DEF FreshBacked
  <2>1. CASE q = r
    BY <1>1, <2>1 DEF Backed
  <2>2. CASE q # r
    BY <1>1, <2>2 DEF IInv, FreshBacked, Backed
  <2> QED
    BY <2>1, <2>2
<1> QED
  BY <1>1, <1>2, <1>3

-----------------------------------------------------------------------------
\* Every handler step preserves the invariant.
LEMMA HandlerIInv ==
  ASSUME IInv, NEW th \in Threads, HandlerStep(th)
  PROVE  IInv'
<1>0. TypeOK
  BY DEF IInv
<1>i. NoRequest \in Requests /\ NoRequest.pc = "idle"
  BY IdleIsARequest
<1>1. CASE BindTag(th)
  <2> DEFINE p == req[th].pkg
             next == [req[th] EXCEPT !.pc = "putBase"]
  <2>1. req[th] \in PublishRequest /\ p \in Packages /\ TagOf[p] \in Tags
    BY <1>0, <1>1, Shape, SMT DEF BindTag, PublishRequest
  <2>2. next \in Requests /\ next.pc = "putBase" /\ next.pkg = p
    BY <2>1, SMT DEF PublishRequest, Requests
  <2>3. UNCHANGED <<status, gov, index, sync, acked, requests, restarts>>
    BY <1>1 DEF BindTag, bounds
  <2>4. CASE tag[TagOf[p]] = NoPackage
    <3>1. tag' = [tag EXCEPT ![TagOf[p]] = p] /\ Set(th, next)
      BY <1>1, <2>4 DEF BindTag
    <3>2. /\ tag' \in [Tags -> Packages \union {NoPackage}]
          /\ \A t \in Tags : tag[t] # NoPackage => tag'[t] = tag[t]
          /\ tag'[TagOf[p]] = p
          /\ TagsNameThemselves' /\ IndexBacked' /\ FreshBacked'
      BY <2>1, <2>3, <2>4, <3>1, TagBound
    <3>3. /\ req' \in [Threads -> Requests]
          /\ req'[th] = next
          /\ \A u \in Threads \ {th} : req'[u] = req[u]
      BY <1>0, <2>2, <3>1, SetFacts
    <3>4. HeldBacked'
      <4> SUFFICES ASSUME NEW u \in Threads
                   PROVE  /\ req'[u].pc = "putBase" => tag'[TagOf[req'[u].pkg]] # NoPackage
                          /\ req'[u].pc \in {"writeStatus", "putStatus"} =>
                               Backed(req[u].held, req[u].rel)'
                          /\ req'[u].pc = "putEntry" =>
                               req'[u].rel \in Tags /\ Backed(req[u].held, req[u].rel)'
        BY DEF HeldBacked
      <4>1. CASE u = th
        BY <4>1, <2>1, <2>2, <3>2, <3>3
      <4>2. CASE u # th
        BY <4>2, <3>2, <3>3, HeldSurvives
      <4> QED
        BY <4>1, <4>2
    <3>5. TypeOK'
      BY <1>0, <2>3, <3>2, <3>3 DEF TypeOK
    <3> QED
      BY <3>2, <3>4, <3>5 DEF IInv
  <2>5. CASE tag[TagOf[p]] # NoPackage
    <3>1. PICK q \in {next, NoRequest} : Set(th, q) /\ tag' = tag
      BY <1>1, <2>5 DEF BindTag, Finish
    <3>2. q \in Requests /\ (q.pc = "putBase" => q.pkg = p) /\ q.pc \in {"putBase", "idle"}
      BY <1>i, <2>2
    <3>3. /\ TagsNameThemselves' /\ IndexBacked' /\ FreshBacked' /\ HeldBacked'
          /\ req' \in [Threads -> Requests]
      BY <2>3, <2>5, <3>1, <3>2, NewRequest
    <3>4. TypeOK'
      BY <1>0, <2>3, <3>1, <3>3 DEF TypeOK
    <3> QED
      BY <3>3, <3>4 DEF IInv
  <2> QED
    BY <2>4, <2>5
<1>2. CASE PutBase(th)
  <2> DEFINE p == req[th].pkg
             r == req[th].rep
  <2>1. req[th] \in PublishRequest /\ p \in Packages /\ TagOf[p] \in Tags /\ r \in Replicas
    BY <1>0, <1>2, Shape, SMT DEF PutBase, PublishRequest
  <2>2. /\ Put(r, TagOf[p], Base(tag[TagOf[p]])) /\ Set(th, NoRequest)
        /\ acked' = [acked EXCEPT ![r] = @ \union {TagOf[p]}]
        /\ UNCHANGED <<tag, status, gov, sync, requests, restarts>>
    BY <1>2 DEF PutBase, Finish, store, bounds
  <2>3. tag[TagOf[p]] \in Packages
    BY <1>0, <1>2, <2>1 DEF IInv, HeldBacked, PutBase, TypeOK
  <2>4. /\ TagsNameThemselves' /\ IndexBacked' /\ FreshBacked' /\ HeldBacked'
        /\ req' \in [Threads -> Requests]
        /\ index' \in [Replicas -> [Tags -> Entry \union {NoEntry}]]
    BY <1>i, <2>1, <2>2, <2>3, BaseEntry, HandlerPut
  <2>5. acked' \in [Replicas -> SUBSET Tags]
    BY <1>0, <2>1, <2>2 DEF TypeOK
  <2> QED
    BY <1>0, <2>2, <2>4, <2>5 DEF IInv, TypeOK
<1>3. CASE WriteStatus(th)
  <2> DEFINE next == [req[th] EXCEPT !.pc = "putStatus"]
             written == [status EXCEPT ![req[th].rel] = req[th].to]
  <2>1. req[th] \in StatusRequest /\ req[th].rel \in Tags /\ req[th].to \in Statuses
    BY <1>0, <1>3, Shape, SMT DEF WriteStatus, StatusRequest
  <2>2. /\ next \in Requests /\ next.pc = "putStatus"
        /\ next.rel = req[th].rel /\ next.held = req[th].held
    BY <2>1, SMT DEF StatusRequest, Requests
  <2>3. /\ Set(th, next) \/ Set(th, NoRequest)
        /\ status' \in {status, written}
        /\ UNCHANGED <<tag, gov, index, sync, acked, requests, restarts>>
    BY <1>3 DEF WriteStatus, Finish, bounds
  <2>4. Backed(next.held, next.rel)
    BY <1>3, <2>2 DEF IInv, HeldBacked, WriteStatus
  <2>5. /\ TagsNameThemselves' /\ IndexBacked' /\ FreshBacked' /\ HeldBacked'
        /\ req' \in [Threads -> Requests]
    <3>1. PICK q \in {next, NoRequest} : Set(th, q)
      BY <2>3
    <3>2. /\ q \in Requests /\ q.pc \in {"putStatus", "idle"}
          /\ q.pc = "putStatus" => Backed(q.held, q.rel)
      BY <1>i, <2>2, <2>4, <3>1
    <3> QED
      BY <2>3, <3>1, <3>2, NewRequest
  <2>6. status' \in [Tags -> Statuses \union {"none"}]
    BY <1>0, <2>1, <2>3 DEF TypeOK
  <2> QED
    BY <1>0, <2>3, <2>5, <2>6 DEF IInv, TypeOK
<1>4. CASE PutStatus(th)
  <2> DEFINE e == ApplyStatus(req[th].held, req[th].to)
  <2>1. /\ req[th].rel \in Tags /\ req[th].to \in Statuses
        /\ req[th].held \in Entry /\ req[th].rep \in Replicas
    BY <1>0, <1>4, Shape, SMT DEF PutStatus, StatusRequest
  <2>2. /\ Put(req[th].rep, req[th].rel, e) /\ Set(th, NoRequest)
        /\ UNCHANGED <<tag, status, gov, sync, acked, requests, restarts>>
    BY <1>4 DEF PutStatus, Finish, store, bounds
  <2>3. e \in Entry /\ e.pkg = tag[req[th].rel]
    BY <1>4, <2>1, Overlays DEF IInv, HeldBacked, Backed, PutStatus
  <2>4. /\ TagsNameThemselves' /\ IndexBacked' /\ FreshBacked' /\ HeldBacked'
        /\ req' \in [Threads -> Requests]
        /\ index' \in [Replicas -> [Tags -> Entry \union {NoEntry}]]
    BY <1>i, <2>1, <2>2, <2>3, HandlerPut
  <2> QED
    BY <1>0, <2>2, <2>4 DEF IInv, TypeOK
<1>5. ASSUME NEW left \in SUBSET Tags, req[th] \in GovernanceRequest, NextVersion(th, left)
      PROVE  \E q \in Requests : Set(th, q) /\ q.pc \in {"idle", "getEntry"}
  <2>1. CASE left = {}
    BY <1>i, <1>5, <2>1 DEF NextVersion, Finish
  <2>2. CASE left # {}
    BY <1>0, <1>5, <2>2, OverlayingFacts DEF NextVersion
  <2> QED
    BY <2>1, <2>2
<1>6. CASE ListVersions(th)
  <2>1. req[th] \in GovernanceRequest
    BY <1>0, <1>6, Shape DEF ListVersions
  <2>2. VersionsAt(req[th].rep, req[th].skill) \in SUBSET Tags
    BY DEF VersionsAt, Indexed
  <2>3. PICK q \in Requests : Set(th, q) /\ q.pc \in {"idle", "getEntry"}
    BY <1>5, <1>6, <2>1, <2>2 DEF ListVersions
  <2>4. UNCHANGED <<tag, status, gov, index, sync, acked, requests, restarts>>
    BY <1>6 DEF ListVersions, store, bounds
  <2>5. /\ TagsNameThemselves' /\ IndexBacked' /\ FreshBacked' /\ HeldBacked'
        /\ req' \in [Threads -> Requests]
    BY <2>3, <2>4, NewRequest
  <2> QED
    BY <1>0, <2>4, <2>5 DEF IInv, TypeOK
<1>7. CASE GetEntry(th)
  <2>1. req[th] \in GovernanceRequest /\ req[th].todo \subseteq Tags /\ req[th].rep \in Replicas
    BY <1>0, <1>7, Shape, SMT DEF GetEntry, GovernanceRequest
  <2>2. PICK t \in req[th].todo : Proceed(th, "putEntry", req[th].todo, t, index[req[th].rep][t])
    BY <1>7 DEF GetEntry
  <2>3. index[req[th].rep][t] \in Entry \union {NoEntry} /\ t \in Tags
    BY <1>0, <2>1 DEF TypeOK
  <2>4. PICK q \in Requests :
          Set(th, q) /\ q.pc = "putEntry" /\ q.rel = t /\ q.held = index[req[th].rep][t]
    BY <1>0, <2>1, <2>2, <2>3, OverlayingFacts
  <2>5. UNCHANGED <<tag, status, gov, index, sync, acked, requests, restarts>>
    BY <1>7 DEF GetEntry, store, bounds
  <2>6. Backed(q.held, q.rel)
    BY <2>1, <2>3, <2>4 DEF IInv, IndexBacked
  <2>7. /\ TagsNameThemselves' /\ IndexBacked' /\ FreshBacked' /\ HeldBacked'
        /\ req' \in [Threads -> Requests]
    BY <2>3, <2>4, <2>5, <2>6, NewRequest
  <2> QED
    BY <1>0, <2>5, <2>7 DEF IInv, TypeOK
<1>8. CASE PutEntry(th)
  <2> DEFINE e == ApplyGovernance(req[th].held, req[th].to)
  <2>1. /\ req[th] \in GovernanceRequest /\ req[th].todo \in SUBSET Tags
        /\ req[th].rep \in Replicas /\ req[th].rel \in Tags
        /\ req[th].to \in Governance /\ req[th].held \in Entry \union {NoEntry}
    BY <1>0, <1>8, Shape, SMT DEF PutEntry, GovernanceRequest, IInv, HeldBacked
  <2>2. PICK q \in Requests : Set(th, q) /\ q.pc \in {"idle", "getEntry"}
    BY <1>5, <1>8, <2>1 DEF PutEntry
  <2>3. UNCHANGED <<tag, status, gov, sync, acked, requests, restarts>>
    BY <1>8 DEF PutEntry, store, bounds
  <2>4. CASE req[th].held = NoEntry
    <3>1. index' = index
      BY <1>8, <2>4 DEF PutEntry
    <3>2. /\ TagsNameThemselves' /\ IndexBacked' /\ FreshBacked' /\ HeldBacked'
          /\ req' \in [Threads -> Requests]
      BY <2>2, <2>3, <3>1, NewRequest
    <3> QED
      BY <1>0, <2>3, <3>1, <3>2 DEF IInv, TypeOK
  <2>5. CASE req[th].held # NoEntry
    <3>1. Put(req[th].rep, req[th].rel, e)
      BY <1>8, <2>5 DEF PutEntry
    <3>2. e \in Entry /\ e.pkg = tag[req[th].rel]
      BY <1>8, <2>1, <2>5, Overlays DEF IInv, HeldBacked, Backed, PutEntry
    <3>3. /\ TagsNameThemselves' /\ IndexBacked' /\ FreshBacked' /\ HeldBacked'
          /\ req' \in [Threads -> Requests]
          /\ index' \in [Replicas -> [Tags -> Entry \union {NoEntry}]]
      BY <2>1, <2>2, <2>3, <3>1, <3>2, HandlerPut
    <3> QED
      BY <1>0, <2>3, <3>3 DEF IInv, TypeOK
  <2> QED
    BY <2>4, <2>5
<1> QED
  BY <1>1, <1>2, <1>3, <1>4, <1>6, <1>7, <1>8 DEF HandlerStep

-----------------------------------------------------------------------------
\* The snapshot a sync step moves on to is well formed.
LEMMA AdvanceFacts ==
  ASSUME TypeOK, NEW r \in Replicas,
         NEW label \in {"list", "readStatus", "readGovernance", "repair", "dead"},
         NEW todo \in SUBSET Tags, NEW half \in Tags \union {NoTag},
         NEW fresh \in [Tags -> Entry \union {NoEntry}],
         Advance(r, label, todo, half, fresh)
  PROVE  \E f \in Sync :
           /\ SetSync(r, f) /\ f.boot = sync[r].boot /\ f.pc = label
           /\ f.todo = todo /\ f.half = half /\ f.fresh = fresh
<1> DEFINE f == [boot |-> sync[r].boot, pc |-> label, todo |-> todo, half |-> half, fresh |-> fresh]
<1>1. sync[r].boot \in BOOLEAN
  BY SMT DEF TypeOK, Sync
<1>2. /\ f \in Sync /\ f.boot = sync[r].boot /\ f.pc = label
      /\ f.todo = todo /\ f.half = half /\ f.fresh = fresh
  BY <1>1 DEF Sync
<1> QED
  BY <1>2 DEF Advance

\* What a bootstrap or reconciliation carries has its type.
LEMMA SyncShape ==
  ASSUME TypeOK, NEW r \in Replicas
  PROVE  /\ sync[r].todo \in SUBSET Tags /\ sync[r].half \in Tags \union {NoTag}
         /\ sync[r].fresh \in [Tags -> Entry \union {NoEntry}]
  BY SMT DEF TypeOK, Sync

\* Every step of bootstrap and reconciliation preserves the invariant.
LEMMA SyncIInv ==
  ASSUME IInv, NEW r \in Replicas, SyncStep(r)
  PROVE  IInv'
<1>0. TypeOK
  BY DEF IInv
<1>s. /\ sync[r].todo \in SUBSET Tags /\ sync[r].half \in Tags \union {NoTag}
      /\ sync[r].fresh \in [Tags -> Entry \union {NoEntry}]
  BY <1>0, SyncShape
<1>u. UNCHANGED <<tag, status, gov, req, acked, requests, restarts>>
  BY DEF SyncStep, ListTags, ReadTagAndStatus, ReadGovernance, FinishBoot, BeginRepair,
     RepairEntry, FinishRepair, store, bounds
<1>e. EmptyIndex \in [Tags -> Entry \union {NoEntry}] /\ \A t \in Tags : EmptyIndex[t] = NoEntry
  BY DEF EmptyIndex
\* Steps that leave the served index alone.
<1>q. ASSUME UNCHANGED index, NEW f \in Sync, SetSync(r, f),
             \A t \in Tags : Backed(f.fresh[t], t),
             f.pc \in {"readStatus", "readGovernance"} => \A t \in f.todo : tag[t] # NoPackage,
             f.pc = "readGovernance" => f.half \in Tags /\ f.fresh[f.half] # NoEntry,
             f.pc = "repair" => \A t \in f.todo : f.fresh[t] # NoEntry
      PROVE  IInv'
  <2>1. TagsNameThemselves' /\ FreshBacked' /\ HeldBacked' /\ sync' \in [Replicas -> Sync]
    BY <1>q, <1>u, NewSnapshot
  <2>2. IndexBacked'
    BY <1>q, <1>u DEF IInv, IndexBacked, Backed
  <2> QED
    BY <1>0, <1>q, <1>u, <2>1, <2>2 DEF IInv, TypeOK
<1>1. CASE ListTags(r)
  <2>1. PICK f \in Sync :
          /\ SetSync(r, f) /\ f.pc = "readStatus" /\ f.fresh = EmptyIndex
          /\ f.todo = {t \in Tags : tag[t] # NoPackage}
    BY <1>0, <1>1, <1>e, AdvanceFacts DEF ListTags
  <2>2. UNCHANGED index
    BY <1>1 DEF ListTags
  <2> QED
    BY <1>e, <1>q, <2>1, <2>2 DEF Backed
<1>2. CASE ReadTagAndStatus(r)
  <2>1. PICK t \in sync[r].todo :
          Advance(r, "readGovernance", sync[r].todo, t,
                  [sync[r].fresh EXCEPT ![t] = ApplyStatus(Base(tag[t]), status[t])])
    BY <1>2 DEF ReadTagAndStatus
  <2> DEFINE e == ApplyStatus(Base(tag[t]), status[t])
             fresh == [sync[r].fresh EXCEPT ![t] = e]
  <2>2. t \in Tags /\ tag[t] \in Packages /\ status[t] \in Statuses \union {"none"}
    BY <1>0, <1>2, <1>s DEF IInv, FreshBacked, ReadTagAndStatus, TypeOK
  <2>3. e \in Entry /\ e.pkg = tag[t]
    <3>1. Base(tag[t]) \in Entry /\ Base(tag[t]).pkg = tag[t]
      BY <2>2, BaseEntry
    <3> QED
      BY <2>2, <3>1, Overlays
  <2>4. /\ fresh \in [Tags -> Entry \union {NoEntry}] /\ fresh[t] = e
        /\ \A u \in Tags \ {t} : fresh[u] = sync[r].fresh[u]
    BY <1>s, <2>2, <2>3
  <2>5. PICK f \in Sync :
          /\ SetSync(r, f) /\ f.pc = "readGovernance" /\ f.half = t /\ f.fresh = fresh
          /\ f.todo = sync[r].todo
    BY <1>0, <1>s, <2>1, <2>2, <2>4, AdvanceFacts
  <2>6. \A u \in Tags : Backed(f.fresh[u], u)
    BY <2>3, <2>4, <2>5 DEF IInv, FreshBacked, Backed
  <2>7. UNCHANGED index
    BY <1>2 DEF ReadTagAndStatus
  <2>8. \A u \in sync[r].todo : tag[u] # NoPackage
    BY <1>2 DEF IInv, FreshBacked, ReadTagAndStatus
  <2> QED
    BY <1>q, <2>2, <2>3, <2>4, <2>5, <2>6, <2>7, <2>8
<1>3. CASE ReadGovernance(r)
  <2> DEFINE t == sync[r].half
             e == ApplyGovernance(sync[r].fresh[t], gov[SkillOf[t]])
             fresh == [sync[r].fresh EXCEPT ![t] = e]
  <2>1. t \in Tags /\ sync[r].fresh[t] \in Entry /\ sync[r].fresh[t].pkg = tag[t]
        /\ gov[SkillOf[t]] \in Governance \union {NoGovernance}
    BY <1>0, <1>3, <1>s DEF IInv, FreshBacked, Backed, ReadGovernance, TypeOK
  <2>2. e \in Entry /\ e.pkg = tag[t]
    BY <2>1, Overlays
  <2>3. /\ fresh \in [Tags -> Entry \union {NoEntry}] /\ fresh[t] = e
        /\ \A u \in Tags \ {t} : fresh[u] = sync[r].fresh[u]
    BY <1>s, <2>1, <2>2
  <2>4. Advance(r, "readStatus", sync[r].todo \ {t}, NoTag, fresh) /\ UNCHANGED index
    BY <1>3 DEF ReadGovernance
  <2>5. PICK f \in Sync : SetSync(r, f) /\ f.pc = "readStatus" /\ f.fresh = fresh
                          /\ f.todo = sync[r].todo \ {t}
    <3>1. sync[r].todo \ {t} \in SUBSET Tags
      BY <1>s
    <3> HIDE DEF t, fresh
    <3> QED
      BY <1>0, <2>3, <2>4, <3>1, AdvanceFacts
  <2>6. \A u \in Tags : Backed(f.fresh[u], u)
    <3>1. \A u \in Tags : Backed(sync[r].fresh[u], u)
      BY DEF IInv, FreshBacked
    <3>2. Backed(e, t) /\ \A u \in Tags \ {t} : f.fresh[u] = sync[r].fresh[u]
      BY <2>2, <2>3, <2>5 DEF Backed
    <3> HIDE DEF e, fresh
    <3> QED
      BY <2>3, <2>5, <3>1, <3>2
  <2>7. \A u \in sync[r].todo : tag[u] # NoPackage
    BY <1>3 DEF IInv, FreshBacked, ReadGovernance
  <2> QED
    BY <1>q, <2>4, <2>5, <2>6, <2>7
<1>4. CASE FinishBoot(r)
  <2>1. index' = [index EXCEPT ![r] = sync[r].fresh] /\ SetSync(r, Waiting)
    BY <1>4 DEF FinishBoot
  <2>2. /\ Waiting \in Sync /\ Waiting.pc = "list"
        /\ \A t \in Tags : Waiting.fresh[t] = NoEntry
    BY RestedFacts DEF Waiting
  <2>3. TagsNameThemselves' /\ FreshBacked' /\ HeldBacked' /\ sync' \in [Replicas -> Sync]
    BY <1>u, <2>1, <2>2, NewSnapshot DEF Backed
  <2>4. index' \in [Replicas -> [Tags -> Entry \union {NoEntry}]]
    BY <1>0, <1>s, <2>1 DEF TypeOK
  <2>5. IndexBacked'
    BY <1>0, <1>u, <2>1 DEF IInv, IndexBacked, FreshBacked, Backed, TypeOK
  <2> QED
    BY <1>0, <1>u, <2>3, <2>4, <2>5 DEF IInv, TypeOK
<1>5. CASE BeginRepair(r)
  <2>1. /\ Advance(r, "repair", {t \in Tags : sync[r].fresh[t] # NoEntry}, NoTag, sync[r].fresh)
        /\ UNCHANGED index
    BY <1>5 DEF BeginRepair
  <2>2. PICK f \in Sync :
          /\ SetSync(r, f) /\ f.pc = "repair" /\ f.fresh = sync[r].fresh
          /\ f.todo = {t \in Tags : sync[r].fresh[t] # NoEntry}
    BY <1>0, <1>s, <2>1, AdvanceFacts
  <2> QED
    BY <1>q, <2>1, <2>2 DEF IInv, FreshBacked
<1>6. CASE RepairEntry(r)
  <2>1. PICK t \in sync[r].todo :
          /\ index' = index \/ Put(r, t, sync[r].fresh[t])
          /\ Advance(r, "repair", sync[r].todo \ {t}, NoTag, sync[r].fresh)
    BY <1>6 DEF RepairEntry
  <2>2. t \in Tags /\ sync[r].fresh[t] \in Entry /\ sync[r].fresh[t].pkg = tag[t]
    BY <1>6, <1>s DEF IInv, FreshBacked, Backed, RepairEntry
  <2>3. PICK f \in Sync :
          /\ SetSync(r, f) /\ f.pc = "repair" /\ f.fresh = sync[r].fresh
          /\ f.todo = sync[r].todo \ {t}
    BY <1>0, <1>s, <2>1, AdvanceFacts
  <2>4. TagsNameThemselves' /\ FreshBacked' /\ HeldBacked' /\ sync' \in [Replicas -> Sync]
    BY <1>6, <1>u, <2>3, NewSnapshot DEF IInv, FreshBacked, RepairEntry
  <2>5. /\ index' \in [Replicas -> [Tags -> Entry \union {NoEntry}]]
        /\ index'[r][t] \in {index[r][t], sync[r].fresh[t]}
        /\ \A q \in Replicas, u \in Tags : q # r \/ u # t => index'[q][u] = index[q][u]
    BY <1>0, <2>1, <2>2, PutFacts DEF TypeOK
  <2>6. IndexBacked'
    BY <1>u, <2>2, <2>5 DEF IInv, IndexBacked, Backed
  <2> QED
    BY <1>0, <1>u, <2>4, <2>5, <2>6 DEF IInv, TypeOK
<1>7. CASE FinishRepair(r)
  <2>1. SetSync(r, Waiting) /\ UNCHANGED index
    BY <1>7 DEF FinishRepair
  <2>2. /\ Waiting \in Sync /\ Waiting.pc = "list"
        /\ \A t \in Tags : Waiting.fresh[t] = NoEntry
    BY RestedFacts DEF Waiting
  <2> QED
    BY <1>q, <2>1, <2>2 DEF Backed
<1> QED
  BY <1>1, <1>2, <1>3, <1>4, <1>5, <1>6, <1>7 DEF SyncStep

-----------------------------------------------------------------------------
\* Accepting a request keeps the counters in their bounds.
LEMMA AcceptFacts ==
  ASSUME TypeOK, NEW th \in Threads, NEW op, Accept(th, op)
  PROVE  requests' \in 0..MaxRequests /\ restarts' = restarts
  BY SMT DEF TypeOK, Accept

\* A request that is accepted carries an entry of the release it is about.
LEMMA BeginIInv ==
  ASSUME IInv, NEW th \in Threads, NEW r \in Replicas, Begin(th, r)
  PROVE  IInv'
<1>0. TypeOK
  BY DEF IInv
<1>1. ASSUME NEW p \in Packages, NEW op \in {"draft", "release"}, BeginPublish(th, r, p, op)
      PROVE  IInv'
  <2> DEFINE q == [pc |-> "bindTag", rep |-> r, pkg |-> p, op |-> op]
  <2>1. q \in Requests /\ q.pc = "bindTag"
    BY DEF Requests, PublishRequest
  <2>2. /\ Set(th, q) /\ UNCHANGED <<tag, status, gov, index, sync, acked>>
        /\ requests' \in 0..MaxRequests /\ restarts' = restarts
    BY <1>0, <1>1, AcceptFacts DEF BeginPublish, store
  <2>3. /\ TagsNameThemselves' /\ IndexBacked' /\ FreshBacked' /\ HeldBacked'
        /\ req' \in [Threads -> Requests]
    BY <2>1, <2>2, NewRequest
  <2> QED
    BY <1>0, <2>2, <2>3 DEF IInv, TypeOK
<1>2. ASSUME NEW t \in Tags, NEW s \in Statuses, BeginStatus(th, r, t, s)
      PROVE  IInv'
  <2> DEFINE q == [pc |-> "writeStatus", rep |-> r, rel |-> t, to |-> s, held |-> index[r][t]]
  <2>1. index[r][t] \in Entry /\ Backed(index[r][t], t)
    BY <1>0, <1>2 DEF IInv, IndexBacked, BeginStatus, Indexed, TypeOK
  <2>2. q \in Requests /\ q.pc = "writeStatus" /\ q.held = index[r][t] /\ q.rel = t
    BY <2>1 DEF Requests, StatusRequest
  <2>3. /\ Set(th, q) /\ UNCHANGED <<tag, status, gov, index, sync, acked>>
        /\ requests' \in 0..MaxRequests /\ restarts' = restarts
    BY <1>0, <1>2, AcceptFacts DEF BeginStatus, store
  <2>4. /\ TagsNameThemselves' /\ IndexBacked' /\ FreshBacked' /\ HeldBacked'
        /\ req' \in [Threads -> Requests]
    BY <2>1, <2>2, <2>3, NewRequest
  <2> QED
    BY <1>0, <2>3, <2>4 DEF IInv, TypeOK
<1>3. ASSUME NEW s \in Skills, NEW g \in Governance, WriteGovernance(th, r, s, g)
      PROVE  IInv'
  <2> DEFINE q == Overlaying("listVersions", r, s, g, {}, NoTag, NoEntry)
  <2>1. q \in Requests /\ q.pc = "listVersions"
    BY DEF Overlaying, Requests, GovernanceRequest
  <2>2. /\ Set(th, q) \/ UNCHANGED req
        /\ UNCHANGED <<tag, status, index, sync, acked>>
        /\ gov' \in {gov, [gov EXCEPT ![s] = g]}
        /\ requests' \in 0..MaxRequests /\ restarts' = restarts
    BY <1>0, <1>3, AcceptFacts DEF WriteGovernance
  <2>3. /\ TagsNameThemselves' /\ IndexBacked' /\ FreshBacked' /\ HeldBacked'
        /\ req' \in [Threads -> Requests]
    <3>1. CASE Set(th, q)
      BY <2>1, <2>2, <3>1, NewRequest
    <3>2. CASE UNCHANGED req
      BY <1>0, <2>2, <3>2
         DEF IInv, TypeOK, TagsNameThemselves, IndexBacked, FreshBacked, HeldBacked, Backed
    <3> QED
      BY <2>2, <3>1, <3>2
  <2>4. gov' \in [Skills -> Governance \union {NoGovernance}]
    BY <1>0, <2>2 DEF TypeOK
  <2> QED
    BY <1>0, <2>2, <2>3, <2>4 DEF IInv, TypeOK
<1> QED
  BY <1>1, <1>2, <1>3 DEF Begin

\* Publishing without an index, and losing one, keep what is left backed.
LEMMA OutsideIInv ==
  ASSUME IInv,
         (\E p \in Packages : JaasctlPublish(p)) \/ (\E r \in Replicas : Restart(r))
  PROVE  IInv'
<1>0. TypeOK
  BY DEF IInv
<1>1. ASSUME NEW p \in Packages, JaasctlPublish(p) PROVE IInv'
  <2>1. /\ tag[TagOf[p]] = NoPackage /\ tag' = [tag EXCEPT ![TagOf[p]] = p]
        /\ UNCHANGED <<status, gov, index, sync, req, acked, restarts>>
    BY <1>1 DEF JaasctlPublish
  <2>2. requests' \in 0..MaxRequests
    BY <1>0, <1>1, SMT DEF JaasctlPublish, TypeOK
  <2>3. /\ tag' \in [Tags -> Packages \union {NoPackage}]
        /\ \A t \in Tags : tag[t] # NoPackage => tag'[t] = tag[t]
        /\ TagsNameThemselves' /\ IndexBacked' /\ FreshBacked'
    BY <2>1, TagBound
  <2>4. HeldBacked'
    BY <2>1, <2>3, HeldSurvives DEF HeldBacked
  <2> QED
    BY <1>0, <2>1, <2>2, <2>3, <2>4 DEF IInv, TypeOK
<1>2. ASSUME NEW r \in Replicas, Restart(r) PROVE IInv'
  <2>1. /\ index' = [index EXCEPT ![r] = EmptyIndex] /\ SetSync(r, Starting)
        /\ UNCHANGED <<tag, status, gov, acked, requests>>
        /\ req' = [th \in Threads |->
                     IF req[th] # NoRequest /\ req[th].rep = r THEN NoRequest ELSE req[th]]
    BY <1>2 DEF Restart, store
  <2>2. restarts' \in 0..MaxRestarts
    BY <1>0, <1>2, SMT DEF Restart, TypeOK
  <2>3. /\ EmptyIndex \in [Tags -> Entry \union {NoEntry}]
        /\ \A t \in Tags : EmptyIndex[t] = NoEntry
    BY DEF EmptyIndex
  <2>4. /\ Starting \in Sync /\ Starting.pc = "list"
        /\ \A t \in Tags : Starting.fresh[t] = NoEntry
    BY RestedFacts DEF Starting
  <2>5. /\ sync' \in [Replicas -> Sync] /\ sync'[r] = Starting
        /\ \A q \in Replicas \ {r} : sync'[q] = sync[q]
    BY <1>0, <2>1, <2>4, SetSyncFacts
  <2>6. FreshBacked'
    <3> SUFFICES ASSUME NEW q \in Replicas
                 PROVE  /\ \A t \in Tags : Backed(sync[q].fresh[t], t)'
                        /\ sync'[q].pc \in {"readStatus", "readGovernance"} =>
                             \A t \in sync'[q].todo : tag[t] # NoPackage
                        /\ sync'[q].pc = "readGovernance" =>
                             sync'[q].half \in Tags /\ sync'[q].fresh[sync'[q].half] # NoEntry
                        /\ sync'[q].pc = "repair" =>
                             \A t \in sync'[q].todo : sync'[q].fresh[t] # NoEntry
      BY <2>1 DEF FreshBacked
    <3>1. CASE q = r
      BY <2>4, <2>5, <3>1 DEF Backed
    <3>2. CASE q # r
      BY <2>1, <2>5, <3>2 DEF IInv, FreshBacked, Backed
    <3> QED
      BY <3>1, <3>2
  <2>7. IndexBacked' /\ TagsNameThemselves'
    BY <1>0, <2>1, <2>3 DEF IInv, IndexBacked, TagsNameThemselves, Backed, TypeOK
  <2>8. HeldBacked'
    BY <2>1, IdleIsARequest DEF IInv, HeldBacked, Backed
  <2>9. req' \in [Threads -> Requests] /\ index' \in [Replicas -> [Tags -> Entry \union {NoEntry}]]
    BY <1>0, <2>1, <2>3, IdleIsARequest DEF TypeOK
  <2> QED
    BY <1>0, <2>1, <2>2, <2>5, <2>6, <2>7, <2>8, <2>9 DEF IInv, TypeOK
<1> QED
  BY <1>1, <1>2

\* A reconciliation task that ends drops its snapshot and leaves the rest.
LEMMA TaskEndsFacts ==
  ASSUME TypeOK, NEW r \in Replicas, TaskEnds(r)
  PROVE  \E f \in Sync :
           /\ SetSync(r, f) /\ f.pc = "dead" /\ f.boot = FALSE
           /\ \A t \in Tags : f.fresh[t] = NoEntry
<1>1. EmptyIndex \in [Tags -> Entry \union {NoEntry}] /\ \A t \in Tags : EmptyIndex[t] = NoEntry
  BY DEF EmptyIndex
<1>2. sync[r].boot \in BOOLEAN /\ ~sync[r].boot /\ Advance(r, "dead", {}, NoTag, EmptyIndex)
  BY SMT DEF TypeOK, Sync, TaskEnds
<1>3. PICK f \in Sync : SetSync(r, f) /\ f.boot = sync[r].boot /\ f.pc = "dead" /\ f.fresh = EmptyIndex
  BY <1>1, <1>2, AdvanceFacts
<1> QED
  BY <1>1, <1>2, <1>3

\* The end of a reconciliation task preserves the invariant.
LEMMA TaskEndsIInv ==
  ASSUME IInv, NEW r \in Replicas, TaskEnds(r)
  PROVE  IInv'
<1>0. TypeOK
  BY DEF IInv
<1>1. UNCHANGED <<tag, status, gov, index, req, acked, requests>>
  BY DEF TaskEnds, store
<1>2. restarts' \in 0..MaxRestarts
  BY <1>0, SMT DEF TaskEnds, TypeOK
<1>3. PICK f \in Sync :
        /\ SetSync(r, f) /\ f.pc = "dead"
        /\ \A t \in Tags : f.fresh[t] = NoEntry
  BY <1>0, TaskEndsFacts
<1>4. TagsNameThemselves' /\ FreshBacked' /\ HeldBacked' /\ sync' \in [Replicas -> Sync]
  BY <1>1, <1>3, NewSnapshot DEF Backed
<1>5. IndexBacked'
  BY <1>1 DEF IInv, IndexBacked, Backed
<1> QED
  BY <1>0, <1>1, <1>2, <1>4, <1>5 DEF IInv, TypeOK

\* The invariant is inductive.
LEMMA NextIInv == IInv /\ [Next]_vars => IInv'
<1> SUFFICES ASSUME IInv, [Next]_vars PROVE IInv'
  OBVIOUS
<1>1. CASE Next
  BY <1>1, BeginIInv, HandlerIInv, SyncIInv, TaskEndsIInv, OutsideIInv DEF Next
<1>2. CASE UNCHANGED vars
  BY <1>2 DEF vars, IInv, TypeOK, TagsNameThemselves, IndexBacked, FreshBacked, HeldBacked, Backed
<1> QED
  BY <1>1, <1>2

\* The inductive invariant holds in every reachable state.
LEMMA InvariantHolds == Spec => []IInv
<1>1. Init => IInv
  BY InitIInv
<1>2. IInv /\ [Next]_vars => IInv'
  BY NextIInv
<1> QED
  BY <1>1, <1>2, PTL DEF Spec

\* Store, indexes, snapshots and requests keep their types.
THEOREM TypeCorrect == Spec => []TypeOK
<1>1. IInv => TypeOK
  BY DEF IInv
<1> QED
  BY <1>1, InvariantHolds, PTL

\* No index ever serves anything but the published record of that release.
THEOREM BackedByTags == Spec => []IndexIsBackedByTags
<1>1. IInv => IndexIsBackedByTags
  <2> SUFFICES ASSUME IInv, NEW r \in Replicas, NEW t \in Indexed(r)
               PROVE  index[r][t].pkg = tag[t] /\ TagOf[tag[t]] = t
    BY DEF IndexIsBackedByTags
  <2>1. t \in Tags /\ index[r][t] \in Entry /\ index[r][t].pkg = tag[t]
    BY DEF Indexed, IInv, TypeOK, IndexBacked, Backed
  <2>2. tag[t] \in Packages
    BY <2>1, SMT DEF Entry
  <2> QED
    BY <2>1, <2>2 DEF IInv, TagsNameThemselves
<1> QED
  BY <1>1, InvariantHolds, PTL

-----------------------------------------------------------------------------
\* What makes a confirmed publication survive a restart: its tag is bound
\* before it is confirmed, a bootstrap lists the tags after the restart, and
\* nobody confirms anything at a replica that is still starting.
Visible ==
  \A r \in Replicas :
    /\ \A t \in acked[r] : tag[t] # NoPackage
    /\ Up(r) => \A t \in acked[r] : index[r][t] # NoEntry
    /\ ~Up(r) => sync[r].pc # "repair"
    /\ ~Up(r) /\ sync[r].pc # "list" =>
         \A t \in acked[r] : t \in sync[r].todo \/ sync[r].fresh[t] # NoEntry
    /\ ~Up(r) => \A th \in Threads : req[th].pc # "idle" => req[th].rep # r

\* A fresh replica has confirmed nothing, so it hides nothing.
LEMMA InitVisible == Init => Visible
<1> SUFFICES ASSUME Init, NEW r \in Replicas
             PROVE  acked[r] = {} /\ Up(r)
  BY DEF Visible
<1> QED
  BY RestedFacts DEF Init, Up, Waiting

\* A thread's request stays with its replica until it is done.
LEMMA RequestStays ==
  ASSUME IInv, NEW th \in Threads, HandlerStep(th)
  PROVE  /\ req[th].pc # "idle" /\ req[th].rep \in Replicas
         /\ \A u \in Threads : req'[u].pc # "idle" => req[u].pc # "idle" /\ req'[u].rep = req[u].rep
<1>0. TypeOK
  BY DEF IInv
<1>1. /\ req[th].pc # "idle" /\ req[th].rep \in Replicas
      /\ req[th] \in PublishRequest \union StatusRequest \union GovernanceRequest
  BY <1>0, Shape, SMT DEF HandlerStep, BindTag, PutBase, WriteStatus, PutStatus, ListVersions,
     GetEntry, PutEntry, PublishRequest, StatusRequest, GovernanceRequest
<1>2. \E q : Set(th, q) /\ (q.pc = "idle" \/ q.rep = req[th].rep)
  <2>1. CASE BindTag(th) \/ WriteStatus(th)
    <3>1. req[th] \in PublishRequest \union StatusRequest
      BY <1>0, <2>1, Shape DEF BindTag, WriteStatus
    <3>2. \A label : [req[th] EXCEPT !.pc = label].rep = req[th].rep
      BY <3>1, SMT DEF PublishRequest, StatusRequest
    <3> QED
      BY <2>1, <3>2, IdleIsARequest DEF BindTag, WriteStatus, Finish
  <2>2. CASE PutBase(th) \/ PutStatus(th)
    BY <2>2, IdleIsARequest DEF PutBase, PutStatus, Finish
  <2>3. CASE ListVersions(th) \/ GetEntry(th) \/ PutEntry(th)
    <3>1. ASSUME NEW label, NEW left, NEW t, NEW e, Proceed(th, label, left, t, e)
          PROVE  \E q : Set(th, q) /\ q.rep = req[th].rep
      <4> DEFINE q == Overlaying(label, req[th].rep, req[th].skill, req[th].to, left, t, e)
      <4>1. q.rep = req[th].rep
        BY DEF Overlaying
      <4> QED
        BY <3>1, <4>1 DEF Proceed
    <3>2. ASSUME NEW left, NextVersion(th, left)
          PROVE  \E q : Set(th, q) /\ (q.pc = "idle" \/ q.rep = req[th].rep)
      BY <3>1, <3>2, IdleIsARequest DEF NextVersion, Finish
    <3>3. CASE GetEntry(th)
      BY <3>1, <3>3 DEF GetEntry
    <3> QED
      BY <2>3, <3>2, <3>3 DEF ListVersions, PutEntry
  <2> QED
    BY <2>1, <2>2, <2>3 DEF HandlerStep
<1>3. \A u \in Threads \ {th} : req'[u] = req[u]
  BY <1>0, <1>2 DEF Set, TypeOK
<1>4. req'[th].pc # "idle" => req'[th].rep = req[th].rep
  BY <1>0, <1>2 DEF Set, TypeOK
<1> QED
  BY <1>1, <1>3, <1>4

\* Handlers only add to an index.
LEMMA HandlersAdd ==
  ASSUME IInv, NEW th \in Threads, HandlerStep(th)
  PROVE  \A r \in Replicas, t \in Tags : index[r][t] # NoEntry => index'[r][t] # NoEntry
<1>0. TypeOK
  BY DEF IInv
<1>1. ASSUME NEW r \in Replicas, NEW t \in Tags, NEW e \in Entry, Put(r, t, e)
      PROVE  \A q \in Replicas, u \in Tags : index[q][u] # NoEntry => index'[q][u] # NoEntry
  BY <1>0, <1>1, PutFacts
<1>2. CASE PutBase(th)
  <2>1. req[th].rep \in Replicas /\ TagOf[req[th].pkg] \in Tags
    BY <1>0, <1>2, Shape, SMT DEF PutBase, PublishRequest
  <2>2. tag[TagOf[req[th].pkg]] \in Packages
    BY <1>0, <1>2, <2>1 DEF IInv, HeldBacked, PutBase, TypeOK
  <2> QED
    BY <1>1, <1>2, <2>1, <2>2, BaseEntry DEF PutBase
<1>3. CASE PutStatus(th)
  <2>1. /\ req[th].rel \in Tags /\ req[th].to \in Statuses
        /\ req[th].held \in Entry /\ req[th].rep \in Replicas
    BY <1>0, <1>3, Shape, SMT DEF PutStatus, StatusRequest
  <2> QED
    BY <1>1, <1>3, <2>1, Overlays DEF PutStatus
<1>4. CASE PutEntry(th)
  <2>1. /\ req[th].rep \in Replicas /\ req[th].rel \in Tags
        /\ req[th].to \in Governance /\ req[th].held \in Entry \union {NoEntry}
    BY <1>0, <1>4, Shape, SMT DEF PutEntry, GovernanceRequest, IInv, HeldBacked
  <2> QED
    BY <1>1, <1>4, <2>1, Overlays DEF PutEntry
<1>5. CASE BindTag(th) \/ WriteStatus(th) \/ ListVersions(th) \/ GetEntry(th)
  BY <1>5 DEF BindTag, WriteStatus, ListVersions, GetEntry
<1> QED
  BY <1>2, <1>3, <1>4, <1>5 DEF HandlerStep

\* A sync step keeps every entry of a replica that serves, and hands over a
\* complete index when it starts serving.
LEMMA SyncVisible ==
  ASSUME IInv, Visible, NEW r \in Replicas, SyncStep(r)
  PROVE  Visible'
<1>0. TypeOK
  BY DEF IInv
<1>s. /\ sync[r].todo \in SUBSET Tags /\ sync[r].half \in Tags \union {NoTag}
      /\ sync[r].fresh \in [Tags -> Entry \union {NoEntry}]
  BY <1>0, SyncShape
<1>u. UNCHANGED <<tag, req, acked>>
  BY DEF SyncStep, ListTags, ReadTagAndStatus, ReadGovernance, FinishBoot, BeginRepair,
     RepairEntry, FinishRepair, store, bounds
<1>a. acked[r] \subseteq Tags
  BY <1>0 DEF TypeOK
<1>e. EmptyIndex \in [Tags -> Entry \union {NoEntry}]
  BY DEF EmptyIndex
<1>o. /\ sync'[r] \in Sync
      /\ \A q \in Replicas \ {r} : sync'[q] = sync[q] /\ index'[q] = index[q]
  BY <1>0, SyncIInv DEF SyncStep, ListTags, ReadTagAndStatus, ReadGovernance, FinishBoot, BeginRepair,
     RepairEntry, FinishRepair, SetSync, Advance, Put, IInv, TypeOK
\* It is enough to look at the replica that moved.
<1>q. ASSUME Up(r)' => \A t \in acked[r] : index'[r][t] # NoEntry,
             ~Up(r)' => sync'[r].pc # "repair" /\ ~Up(r),
             ~Up(r)' /\ sync'[r].pc # "list" =>
               \A t \in acked[r] : t \in sync'[r].todo \/ sync'[r].fresh[t] # NoEntry
      PROVE  Visible'
  <2> SUFFICES ASSUME NEW q \in Replicas
               PROVE  /\ \A t \in acked'[q] : tag'[t] # NoPackage
                      /\ Up(q)' => \A t \in acked'[q] : index'[q][t] # NoEntry
                      /\ ~Up(q)' => sync'[q].pc # "repair"
                      /\ ~Up(q)' /\ sync'[q].pc # "list" =>
                           \A t \in acked'[q] : t \in sync'[q].todo \/ sync'[q].fresh[t] # NoEntry
                      /\ ~Up(q)' => \A th \in Threads : req'[th].pc # "idle" => req'[th].rep # q
    BY DEF Visible
  <2>1. CASE q = r
    BY <1>q, <1>u, <2>1 DEF Visible
  <2>2. CASE q # r
    BY <1>o, <1>u, <2>2 DEF Visible, Up
  <2> QED
    BY <2>1, <2>2
<1>1. CASE ListTags(r)
  <2>1. PICK f \in Sync :
          /\ SetSync(r, f) /\ f.boot = sync[r].boot /\ f.pc = "readStatus"
          /\ f.todo = {t \in Tags : tag[t] # NoPackage}
    BY <1>0, <1>1, <1>e, AdvanceFacts DEF ListTags
  <2>2. sync'[r] = f /\ UNCHANGED index
    BY <1>0, <1>1, <2>1, SetSyncFacts DEF ListTags
  <2> QED
    BY <1>a, <1>q, <2>1, <2>2 DEF Visible, Up
<1>2. CASE ReadTagAndStatus(r)
  <2>1. PICK t \in sync[r].todo :
          Advance(r, "readGovernance", sync[r].todo, t,
                  [sync[r].fresh EXCEPT ![t] = ApplyStatus(Base(tag[t]), status[t])])
    BY <1>2 DEF ReadTagAndStatus
  <2> DEFINE e == ApplyStatus(Base(tag[t]), status[t])
             fresh == [sync[r].fresh EXCEPT ![t] = e]
  <2>2. t \in Tags /\ tag[t] \in Packages /\ status[t] \in Statuses \union {"none"}
    BY <1>0, <1>2, <1>s DEF IInv, FreshBacked, ReadTagAndStatus, TypeOK
  <2>3. e \in Entry
    BY <2>2, BaseEntry, Overlays
  <2>4. /\ fresh \in [Tags -> Entry \union {NoEntry}]
        /\ \A u \in Tags : sync[r].fresh[u] # NoEntry => fresh[u] # NoEntry
    BY <1>s, <2>2, <2>3
  <2>5. PICK f \in Sync :
          /\ SetSync(r, f) /\ f.boot = sync[r].boot /\ f.pc = "readGovernance"
          /\ f.todo = sync[r].todo /\ f.fresh = fresh
    BY <1>0, <1>s, <2>1, <2>2, <2>4, AdvanceFacts
  <2>6. sync'[r] = f /\ UNCHANGED index /\ sync[r].pc = "readStatus"
    BY <1>0, <1>2, <2>5, SetSyncFacts DEF ReadTagAndStatus
  <2> QED
    BY <1>a, <1>q, <2>4, <2>5, <2>6 DEF Visible, Up
<1>3. CASE ReadGovernance(r)
  <2> DEFINE t == sync[r].half
             e == ApplyGovernance(sync[r].fresh[t], gov[SkillOf[t]])
             fresh == [sync[r].fresh EXCEPT ![t] = e]
  <2>1. t \in Tags /\ sync[r].fresh[t] \in Entry
        /\ gov[SkillOf[t]] \in Governance \union {NoGovernance}
    BY <1>0, <1>3, <1>s DEF IInv, FreshBacked, ReadGovernance, TypeOK
  <2>2. e \in Entry
    BY <2>1, Overlays
  <2>3. /\ fresh \in [Tags -> Entry \union {NoEntry}] /\ fresh[t] # NoEntry
        /\ \A u \in Tags : sync[r].fresh[u] # NoEntry => fresh[u] # NoEntry
    BY <1>s, <2>1, <2>2
  <2>4. Advance(r, "readStatus", sync[r].todo \ {t}, NoTag, fresh)
    BY <1>3 DEF ReadGovernance
  <2>5. PICK f \in Sync :
          /\ SetSync(r, f) /\ f.boot = sync[r].boot /\ f.pc = "readStatus"
          /\ f.todo = sync[r].todo \ {t} /\ f.fresh = fresh
    <3>1. sync[r].todo \ {t} \in SUBSET Tags
      BY <1>s
    <3> HIDE DEF t, fresh
    <3> QED
      BY <1>0, <2>3, <2>4, <3>1, AdvanceFacts
  <2>6. sync'[r] = f /\ UNCHANGED index /\ sync[r].pc = "readGovernance"
    BY <1>0, <1>3, <2>5, SetSyncFacts DEF ReadGovernance
  <2> QED
    BY <1>a, <1>q, <2>3, <2>5, <2>6 DEF Visible, Up
<1>4. CASE FinishBoot(r)
  <2>1. /\ sync[r].pc = "readStatus" /\ sync[r].todo = {} /\ ~Up(r)
        /\ index' = [index EXCEPT ![r] = sync[r].fresh] /\ SetSync(r, Waiting)
    BY <1>4 DEF FinishBoot, Up
  <2>2. index'[r] = sync[r].fresh /\ sync'[r] = Waiting
    BY <1>0, <2>1 DEF TypeOK, SetSync
  <2>3. Up(r)'
    BY <2>2, RestedFacts DEF Up, Waiting
  <2> QED
    BY <1>q, <2>1, <2>2, <2>3 DEF Visible
<1>5. CASE BeginRepair(r) \/ RepairEntry(r) \/ FinishRepair(r)
  <2>1. Up(r)
    BY <1>5 DEF BeginRepair, RepairEntry, FinishRepair, Visible, Up
  <2>2. Up(r)'
    <3>1. sync'[r].boot = FALSE
      <4>1. CASE FinishRepair(r)
        BY <1>0, <4>1, RestedFacts DEF FinishRepair, SetSync, Waiting, TypeOK
      <4>2. CASE BeginRepair(r) \/ RepairEntry(r)
        BY <1>0, <2>1, <4>2, SMT DEF BeginRepair, RepairEntry, Advance, SetSync, TypeOK, Up
      <4> QED
        BY <1>5, <4>1, <4>2
    <3> QED
      BY <3>1 DEF Up
  <2>3. \A t \in Tags : index[r][t] # NoEntry => index'[r][t] # NoEntry
    <3>1. CASE RepairEntry(r)
      <4>1. PICK t \in sync[r].todo : index' = index \/ Put(r, t, sync[r].fresh[t])
        BY <3>1 DEF RepairEntry
      <4>2. t \in Tags /\ sync[r].fresh[t] \in Entry
        BY <1>s, <3>1 DEF RepairEntry, IInv, FreshBacked
      <4> QED
        BY <1>0, <4>1, <4>2, PutFacts
    <3> QED
      BY <1>5, <3>1 DEF BeginRepair, FinishRepair
  <2> QED
    BY <1>a, <1>q, <2>1, <2>2, <2>3 DEF Visible
<1> QED
  BY <1>1, <1>2, <1>3, <1>4, <1>5 DEF SyncStep

\* No step of anybody hides a confirmed publication.
LEMMA NextVisible == IInv /\ Visible /\ [Next]_vars => Visible'
<1> SUFFICES ASSUME IInv, Visible, [Next]_vars PROVE Visible'
  OBVIOUS
<1>0. TypeOK /\ TypeOK'
  BY NextIInv DEF IInv
<1>1. ASSUME NEW th \in Threads, NEW r \in Replicas, Begin(th, r) PROVE Visible'
  <2>1. Up(r) /\ UNCHANGED <<tag, index, sync, acked>>
    BY <1>1 DEF Begin, BeginPublish, BeginStatus, WriteGovernance, store
  <2>2. UNCHANGED req \/ \E q : q.rep = r /\ Set(th, q)
    BY <1>1 DEF Begin, BeginPublish, BeginStatus, WriteGovernance, Overlaying
  <2>3. UNCHANGED req \/ (req'[th].rep = r /\ \A u \in Threads \ {th} : req'[u] = req[u])
    BY <1>0, <2>2 DEF Set, TypeOK
  <2> QED
    BY <2>1, <2>3 DEF Visible, Up
<1>2. ASSUME NEW th \in Threads, HandlerStep(th) PROVE Visible'
  <2> DEFINE r == req[th].rep
  <2>1. /\ req[th].pc # "idle" /\ r \in Replicas
        /\ \A u \in Threads : req'[u].pc # "idle" => req[u].pc # "idle" /\ req'[u].rep = req[u].rep
    BY <1>2, RequestStays
  <2>2. \A q \in Replicas, t \in Tags : index[q][t] # NoEntry => index'[q][t] # NoEntry
    BY <1>2, HandlersAdd
  <2>3. sync' = sync /\ \A t \in Tags : tag[t] # NoPackage => tag'[t] # NoPackage
    BY <1>0, <1>2 DEF HandlerStep, BindTag, PutBase, WriteStatus, PutStatus, ListVersions, GetEntry,
       PutEntry, store, TypeOK
  <2>4. CASE acked' = acked
    BY <1>0, <2>1, <2>2, <2>3, <2>4 DEF Visible, Up, TypeOK
  <2>5. CASE PutBase(th)
    <3> DEFINE t == TagOf[req[th].pkg]
    <3>1. t \in Tags
      BY <1>0, <2>5, Shape, SMT DEF PutBase, PublishRequest
    <3>2. tag[t] \in Packages
      BY <1>0, <2>5, <3>1 DEF IInv, HeldBacked, PutBase, TypeOK
    <3>3. index'[r][t] # NoEntry
      BY <1>0, <2>1, <2>5, <3>1, <3>2, BaseEntry, PutFacts DEF PutBase
    <3>4. /\ acked'[r] = acked[r] \union {t}
          /\ \A q \in Replicas \ {r} : acked'[q] = acked[q]
      BY <1>0, <2>1, <2>5 DEF PutBase, TypeOK
    <3>5. Up(r)
      BY <2>1 DEF Visible
    <3>6. \A q \in Replicas : acked[q] \subseteq Tags
      BY <1>0 DEF TypeOK
    <3>7. tag' = tag
      BY <2>5 DEF PutBase, store
    <3> SUFFICES ASSUME NEW q \in Replicas
                 PROVE  /\ \A u \in acked'[q] : tag[u] # NoPackage
                        /\ Up(q) => \A u \in acked'[q] : index'[q][u] # NoEntry
                        /\ ~Up(q) => sync[q].pc # "repair"
                        /\ ~Up(q) /\ sync[q].pc # "list" =>
                             \A u \in acked'[q] : u \in sync[q].todo \/ sync[q].fresh[u] # NoEntry
                        /\ ~Up(q) => \A u \in Threads : req'[u].pc # "idle" => req'[u].rep # q
      BY <2>3, <3>7 DEF Visible, Up
    <3>8. CASE q = r
      BY <2>2, <3>2, <3>3, <3>4, <3>5, <3>6, <3>8 DEF Visible
    <3>9. CASE q # r
      BY <2>1, <2>2, <3>4, <3>6, <3>9 DEF Visible
    <3> QED
      BY <3>8, <3>9
  <2> QED
    BY <1>2, <2>4, <2>5 DEF HandlerStep, BindTag, WriteStatus, PutStatus, ListVersions, GetEntry, PutEntry
<1>3. ASSUME NEW p \in Packages, JaasctlPublish(p) PROVE Visible'
  <2>1. /\ \A t \in Tags : tag[t] # NoPackage => tag'[t] # NoPackage
        /\ UNCHANGED <<index, sync, req, acked>>
    BY <1>0, <1>3 DEF JaasctlPublish, TypeOK
  <2> QED
    BY <1>0, <2>1 DEF Visible, Up, TypeOK
<1>4. ASSUME NEW r \in Replicas, SyncStep(r) PROVE Visible'
  BY <1>4, SyncVisible
<1>5. ASSUME NEW r \in Replicas, Restart(r) PROVE Visible'
  <2>1. /\ UNCHANGED <<tag, acked>> /\ sync' = [sync EXCEPT ![r] = Starting]
        /\ index' = [index EXCEPT ![r] = EmptyIndex]
        /\ req' = [th \in Threads |->
                     IF req[th] # NoRequest /\ req[th].rep = r THEN NoRequest ELSE req[th]]
    BY <1>5 DEF Restart, store, SetSync
  <2>2. sync'[r] = Starting /\ \A q \in Replicas \ {r} : sync'[q] = sync[q] /\ index'[q] = index[q]
    BY <1>0, <2>1 DEF TypeOK
  <2>3. sync'[r].pc = "list" /\ ~Up(r)'
    BY <2>2, RestedFacts DEF Starting, Up
  <2>4. \A th \in Threads : req'[th].pc # "idle" => req'[th] = req[th] /\ req[th].rep # r
    BY <2>1 DEF NoRequest
  <2> QED
    BY <2>1, <2>2, <2>3, <2>4 DEF Visible, Up
<1>6. ASSUME NEW r \in Replicas, TaskEnds(r) PROVE Visible'
  <2>1. UNCHANGED <<tag, index, req, acked>> /\ Up(r)
    BY <1>6 DEF TaskEnds, store, Up
  <2>2. sync'[r].boot = FALSE /\ \A q \in Replicas \ {r} : sync'[q] = sync[q]
    BY <1>0, <1>6, TaskEndsFacts, SetSyncFacts
  <2>3. Up(r)' /\ \A q \in Replicas \ {r} : Up(q)' = Up(q)
    BY <2>2 DEF Up
  <2> QED
    BY <2>1, <2>2, <2>3 DEF Visible
<1>7. CASE UNCHANGED vars
  BY <1>7 DEF vars, Visible, Up
<1> QED
  BY <1>1, <1>2, <1>3, <1>4, <1>5, <1>6, <1>7 DEF Next

\* A publication that a replica confirmed is visible whenever the replica
\* serves: a draft or a release is never lost to reconciliation, to another
\* request or to a crash.
THEOREM ConfirmedPublications == Spec => []ConfirmedStaysVisible
<1>1. Init => Visible
  BY InitVisible
<1>2. IInv /\ Visible /\ [Next]_vars => Visible'
  BY NextVisible
<1>3. IInv /\ Visible => ConfirmedStaysVisible
  BY DEF IInv, TypeOK, Visible, ConfirmedStaysVisible, Indexed
<1> QED
  BY <1>1, <1>2, <1>3, InvariantHolds, PTL DEF Spec

=============================================================================
