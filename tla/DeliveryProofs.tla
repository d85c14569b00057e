---------------------------- MODULE DeliveryProofs ----------------------------
(***************************************************************************)
(* What a delivery keeps, for every number of publications, replicas,      *)
(* releases and files.                                                     *)
(*                                                                         *)
(* The parts come first, each with its inductive invariant over the steps  *)
(* of its own module: the key files (Signing), the events (IndexEvents)    *)
(* and the usage counts (UsageCounts), whose sum over the replicas needs   *)
(* lemmas about the fold it is defined by.  Delivery then implements       *)
(* Signing, and its own invariant joins the parts to what the client has.  *)
(***************************************************************************)
EXTENDS Delivery, FiniteSetTheorems, SequenceTheorems, WellFoundedInduction, TLAPS

-----------------------------------------------------------------------------
Loaded == {"lookTrust", "openTrust", "writeTrust", "loadTrust", "publish"}

KeysAgree ==
  /\ trusted # None => keyFile \in Makers
  /\ trusted \in Makers => trusted = keyFile
  /\ \A v \in Releases : signed[v] \in Makers => signed[v] = trusted
  /\ refused = {}

\* What a publication in progress knows of the files.
Knows(m) ==
  /\ S!At(m, "openKey") => keyFile = None /\ maker[m].key \in Makers
  /\ S!At(m, "writeKey") => keyFile = Torn /\ maker[m].key \in Makers
  /\ maker[m].pc \in Loaded => maker[m].key \in Makers /\ maker[m].key = keyFile
  /\ S!At(m, "openTrust") => trusted = None
  /\ S!At(m, "writeTrust") => trusted = Torn
  /\ S!At(m, "loadTrust") => trusted # None
  /\ S!At(m, "publish") => maker[m].trust \in Makers /\ maker[m].trust = trusted

\* At most one publication fills a file.
OneFills ==
  \A m, n \in Makers :
    \/ S!At(m, "writeKey") /\ S!At(n, "writeKey")
    \/ S!At(m, "writeTrust") /\ S!At(n, "writeTrust")
    => m = n

Consistent == KeysAgree /\ (\A m \in Makers : Knows(m)) /\ OneFills

KeyInv == S!TypeOK /\ (~clash => Consistent)

-----------------------------------------------------------------------------
\* The key files, the publications and what they publish keep their types.
LEMMA SigningInitTyped == S!SigningAssumption /\ S!Init => S!TypeOK
  BY DEF S!SigningAssumption, S!Init, S!TypeOK, S!NoWork, S!Work, S!Maker

LEMMA SigningStepTyped ==
  ASSUME S!SigningAssumption, S!TypeOK, [S!Next]_S!vars
  PROVE  S!TypeOK'
  <1> USE DEF S!SigningAssumption
  <1>1. ASSUME NEW m \in Makers, S!LoadKeys(m) PROVE S!TypeOK'
    <2> USE DEF S!TypeOK, S!Maker, S!Work, S!NoWork, S!At, S!Step, S!Goto, S!Finish
    <2>1. CASE S!LoadOrCreateKeypair(m)  BY <2>1 DEF S!LoadOrCreateKeypair
    <2>2. CASE S!OpenKey(m)  BY <2>2 DEF S!OpenKey, S!Meets
    <2>3. CASE S!WriteKey(m)  BY <2>3 DEF S!WriteKey, S!Filled
    <2>4. CASE S!LookForTrust(m)  BY <2>4 DEF S!LookForTrust
    <2>5. CASE S!OpenTrust(m)  BY <2>5 DEF S!OpenTrust, S!Meets
    <2>6. CASE S!WriteTrust(m)  BY <2>6 DEF S!WriteTrust, S!Filled
    <2>7. CASE S!LoadTrust(m)  BY <2>7 DEF S!LoadTrust
    <2>8. QED
      BY <1>1, <2>1, <2>2, <2>3, <2>4, <2>5, <2>6, <2>7 DEF S!LoadKeys
  <1>2. ASSUME NEW m \in Makers, S!Publish(m) PROVE S!TypeOK'
    <2>1. CASE S!Finish(m)
      BY <1>2, <2>1 DEF S!TypeOK, S!Maker, S!Work, S!NoWork, S!At, S!Finish, S!Publish
    <2>2. ASSUME NEW v \in Releases, S!GoOn(m, v) PROVE S!TypeOK'
      BY <1>2, <2>2 DEF S!TypeOK, S!Maker, S!Work, S!NoWork, S!At, S!GoOn, S!Publish
    <2>3. QED
      BY <1>2, <2>1, <2>2 DEF S!Publish
  <1>3. ASSUME NEW m \in Makers, S!CutOff(m) PROVE S!TypeOK'
    BY <1>3 DEF S!TypeOK, S!Maker, S!Work, S!NoWork, S!At, S!Finish, S!CutOff
  <1>4. ASSUME NEW m \in Makers, NEW v \in Releases, S!Begin(m, v) PROVE S!TypeOK'
    BY <1>4 DEF S!TypeOK, S!Maker, S!Work, S!NoWork, S!At, S!Begin
  <1>5. ASSUME NEW v \in Releases, S!PublishBundle(v) PROVE S!TypeOK'
    BY <1>5 DEF S!TypeOK, S!PublishBundle
  <1>6. CASE UNCHANGED S!vars
    BY <1>6 DEF S!TypeOK, S!vars
  <1>7. QED
    BY <1>1, <1>2, <1>3, <1>4, <1>5, <1>6 DEF S!Next

-----------------------------------------------------------------------------
LEMMA SigningInitConsistent == S!SigningAssumption /\ S!Init => Consistent
  BY DEF S!SigningAssumption, S!Init, Consistent, KeysAgree, Knows, OneFills,
         S!At, S!NoWork, S!Work, Loaded

\* No step undoes a clash, and a step that makes none keeps what is consistent.
LEMMA SigningStepConsistent ==
  ASSUME S!SigningAssumption, S!TypeOK, Consistent, ~clash, ~clash', [S!Next]_S!vars
  PROVE  Consistent'
  <1> USE DEF S!SigningAssumption
  <1>1. ASSUME NEW m \in Makers, S!LoadKeys(m) PROVE Consistent'
    <2> USE DEF S!TypeOK, S!Maker, S!Work, S!NoWork, S!At, S!Step, S!Goto, S!Finish,
                Consistent, KeysAgree, Knows, OneFills, Loaded
    <2>1. CASE S!LoadOrCreateKeypair(m)  BY <2>1 DEF S!LoadOrCreateKeypair
    <2>2. CASE S!OpenKey(m)  BY <2>2 DEF S!OpenKey, S!Meets
    <2>3. CASE S!WriteKey(m)  BY <2>3 DEF S!WriteKey, S!Filled
    <2>4. CASE S!LookForTrust(m)  BY <2>4 DEF S!LookForTrust
    <2>5. CASE S!OpenTrust(m)  BY <2>5 DEF S!OpenTrust, S!Meets
    <2>6. CASE S!WriteTrust(m)  BY <2>6 DEF S!WriteTrust, S!Filled
    <2>7. CASE S!LoadTrust(m)  BY <2>7 DEF S!LoadTrust
    <2>8. QED
      BY <1>1, <2>1, <2>2, <2>3, <2>4, <2>5, <2>6, <2>7 DEF S!LoadKeys
  <1> USE DEF Consistent, KeysAgree, Knows, OneFills, Loaded, S!At
  <1>2. ASSUME NEW m \in Makers, S!Publish(m) PROVE Consistent'
    <2>1. CASE S!Finish(m)
      BY <1>2, <2>1 DEF S!TypeOK, S!Maker, S!Work, S!NoWork, S!Finish, S!Publish
    <2>2. ASSUME NEW v \in Releases, S!GoOn(m, v) PROVE Consistent'
      BY <1>2, <2>2 DEF S!TypeOK, S!Maker, S!Work, S!NoWork, S!GoOn, S!Publish
    <2>3. QED
      BY <1>2, <2>1, <2>2 DEF S!Publish
  <1>3. ASSUME NEW m \in Makers, S!CutOff(m) PROVE Consistent'
    BY <1>3 DEF S!TypeOK, S!Maker, S!Work, S!NoWork, S!Finish, S!CutOff
  <1>4. ASSUME NEW m \in Makers, NEW v \in Releases, S!Begin(m, v) PROVE Consistent'
    BY <1>4 DEF S!TypeOK, S!Maker, S!Work, S!NoWork, S!Begin
  <1>5. ASSUME NEW v \in Releases, S!PublishBundle(v) PROVE Consistent'
    BY <1>5 DEF S!TypeOK, S!PublishBundle
  <1>6. CASE UNCHANGED S!vars
    BY <1>6 DEF S!vars
  <1>7. QED
    BY <1>1, <1>2, <1>3, <1>4, <1>5, <1>6 DEF S!Next

LEMMA ClashStays == [S!Next]_S!vars /\ clash => clash'
  BY DEF S!Next, S!LoadKeys, S!LoadOrCreateKeypair, S!OpenKey, S!WriteKey, S!LookForTrust,
         S!OpenTrust, S!WriteTrust, S!LoadTrust, S!Publish, S!CutOff, S!Begin, S!PublishBundle,
         S!vars

\* The key files and what publications know of them are consistent forever.
THEOREM SigningInvariant ==
  ASSUME S!SigningAssumption
  PROVE  S!Spec => []KeyInv
  <1>1. S!Init => KeyInv
    BY SigningInitTyped, SigningInitConsistent DEF KeyInv
  <1>2. KeyInv /\ [S!Next]_S!vars => KeyInv'
    BY SigningStepTyped, SigningStepConsistent, ClashStays DEF KeyInv
  <1>3. QED
    BY <1>1, <1>2, PTL DEF S!Spec

\* Unless two first publications made a key at once, every release the registry
\* signed verifies against the registered key, and none was refused.
THEOREM SigningSafe ==
  ASSUME S!SigningAssumption
  PROVE  S!Spec => []S!SignaturesHold
  <1>1. KeyInv => S!SignaturesHold
    BY DEF S!SigningAssumption, KeyInv, S!TypeOK, Consistent, KeysAgree, S!SignaturesHold
  <1>2. QED
    BY <1>1, SigningInvariant, PTL

-----------------------------------------------------------------------------
\* How MapThenSumSet adds up a function of the replicas: each set of replicas
\* takes its sum from the set without one of them.
Pick(rs) == CHOOSE r \in rs : TRUE

Load(c, fl) == [r \in Replicas |-> c[r] + fl[r].delta]

Adds(sum, f) ==
  sum = [rs \in SUBSET Replicas |->
           IF rs = {} THEN 0 ELSE f[Pick(rs)] + sum[rs \ {Pick(rs)}]]

LEMMA FiniteReplicas == IsFiniteSet(Replicas)
  BY DeliveryAssumption DEF U!UsageAssumption, U!IsFiniteSet, IsFiniteSet

LEMMA Picked == \A rs \in SUBSET Replicas : rs # {} => Pick(rs) \in rs
  BY DEF Pick

\* Some smallest set has a property that any set of replicas has.
LEMMA SmallestSet ==
  ASSUME NEW T, T \subseteq SUBSET Replicas, T # {}
  PROVE  \E rs \in T : \A qs \in T : qs \subseteq rs => qs = rs
  <1>1. IsWellFoundedOn(StrictSubsetOrdering(Replicas), SUBSET Replicas)
    BY FiniteReplicas, FS_StrictSubsetOrderingWellFounded, FS_FiniteSubsetsOfFinite
  <1>2. PICK rs \in T : \A qs \in T : <<qs, rs>> \notin StrictSubsetOrdering(Replicas)
    <2>. HIDE DEF IsWellFoundedOn
    <2> QED BY <1>1, WFMin
  <1>3. QED
    BY <1>2 DEF StrictSubsetOrdering

LEMMA SumUnique ==
  ASSUME NEW f, NEW g, NEW h, Adds(g, f), Adds(h, f)
  PROVE  g = h
  <1> DEFINE T == {rs \in SUBSET Replicas : g[rs] # h[rs]}
  <1>1. ASSUME T # {} PROVE FALSE
    <2>1. PICK rs \in T : \A qs \in T : qs \subseteq rs => qs = rs
      <3>1. T \subseteq SUBSET Replicas
        OBVIOUS
      <3> HIDE DEF T
      <3>2. QED
        BY <1>1, <3>1, SmallestSet
    <2>2. rs # {} /\ rs \in SUBSET Replicas
      BY <2>1 DEF Adds
    <2>3. Pick(rs) \in rs
      BY <2>2, Picked
    <2>4. rs \ {Pick(rs)} \notin T
      BY <2>1, <2>3
    <2>5. g[rs \ {Pick(rs)}] = h[rs \ {Pick(rs)}]
      BY <2>2, <2>4
    <2>6. QED
      BY <2>1, <2>2, <2>5 DEF Adds
  <1>2. \A rs \in SUBSET Replicas : g[rs] = h[rs]
    BY <1>1
  <1>3. QED
    BY <1>2 DEF Adds

\* The sum of natural numbers is at least each of them.
LEMMA SumBounds ==
  ASSUME NEW f \in [Replicas -> Nat], NEW g \in [SUBSET Replicas -> Nat], Adds(g, f),
         NEW r \in Replicas
  PROVE  \A rs \in SUBSET Replicas : r \in rs => f[r] <= g[rs]
  <1> DEFINE T == {rs \in SUBSET Replicas : r \in rs /\ ~(f[r] <= g[rs])}
  <1> SUFFICES ASSUME T # {} PROVE FALSE
    OBVIOUS
  <1>1. PICK rs \in T : \A qs \in T : qs \subseteq rs => qs = rs
    <2>1. T \subseteq SUBSET Replicas
      OBVIOUS
    <2> HIDE DEF T
    <2>2. QED
      BY <2>1, SmallestSet
  <1>2. Pick(rs) \in rs /\ rs \in SUBSET Replicas
    BY Picked
  <1>3. g[rs] = f[Pick(rs)] + g[rs \ {Pick(rs)}]
    BY <1>2 DEF Adds
  <1>4. CASE Pick(rs) = r
    BY <1>2, <1>3, <1>4
  <1>5. CASE Pick(rs) # r
    <2>1. rs \ {Pick(rs)} \notin T /\ r \in rs \ {Pick(rs)} /\ rs \ {Pick(rs)} \in SUBSET Replicas
      BY <1>1, <1>2, <1>5
    <2>2. f[r] <= g[rs \ {Pick(rs)}]
      BY <2>1
    <2>3. f[Pick(rs)] \in Nat /\ g[rs \ {Pick(rs)}] \in Nat /\ f[r] \in Nat
      BY <1>2, <2>1
    <2>4. QED
      BY <1>3, <2>2, <2>3
  <1>6. QED
    BY <1>4, <1>5

Changed(f, e, r, n) ==
  f \in [Replicas -> Nat] /\ e \in [Replicas -> Nat] /\ e = [f EXCEPT ![r] = n]

Shifted(h, g, m, n) == h[Replicas] = g[Replicas] - m + n

\* The sum when one replica's number changes.
LEMMA SumUpdated ==
  ASSUME NEW f, NEW e, NEW r \in Replicas, NEW n \in Nat, Changed(f, e, r, n),
         NEW g \in [SUBSET Replicas -> Nat], Adds(g, f)
  PROVE  \E h \in [SUBSET Replicas -> Nat] :
           Adds(h, e) /\ Shifted(h, g, f[r], n)
  <1> USE DEF Changed
  <1> DEFINE h == [rs \in SUBSET Replicas |-> IF r \in rs THEN g[rs] - f[r] + n ELSE g[rs]]
  <1>1. \A rs \in SUBSET Replicas : h[rs] \in Nat
    <2> SUFFICES ASSUME NEW rs \in SUBSET Replicas PROVE h[rs] \in Nat
      OBVIOUS
    <2>1. g[rs] \in Nat /\ f[r] \in Nat
      OBVIOUS
    <2>2. CASE r \in rs
      <3>1. f[r] <= g[rs]
        BY <2>2, SumBounds
      <3>2. h[rs] = g[rs] - f[r] + n
        BY <2>2
      <3>3. QED
        BY <2>1, <3>1, <3>2
    <2>3. QED
      BY <2>1, <2>2
  <1>2. h \in [SUBSET Replicas -> Nat]
    BY <1>1
  <1>3. ASSUME NEW rs \in SUBSET Replicas
        PROVE  h[rs] = IF rs = {} THEN 0 ELSE e[Pick(rs)] + h[rs \ {Pick(rs)}]
    <2>1. CASE rs = {}
      BY <2>1 DEF Adds
    <2>2. CASE rs # {}
      <3> DEFINE x == Pick(rs)
                 ss == rs \ {x}
      <3>1. x \in rs /\ ss \in SUBSET Replicas /\ x \in Replicas
        BY <2>2, Picked
      <3>2. g[rs] = f[x] + g[ss]
        BY <2>2 DEF Adds
      <3>3. g[ss] \in Nat /\ g[rs] \in Nat /\ f[x] \in Nat /\ f[r] \in Nat
        BY <3>1
      <3>4. CASE x = r
        <4>1. h[rs] = g[rs] - f[r] + n /\ h[ss] = g[ss] /\ e[x] = n
          BY <3>1, <3>4
        <4>2. QED
          BY <2>2, <3>2, <3>3, <3>4, <4>1
      <3>5. CASE x # r /\ r \in rs
        <4>1. h[rs] = g[rs] - f[r] + n /\ h[ss] = g[ss] - f[r] + n /\ e[x] = f[x]
          BY <3>1, <3>5
        <4>2. QED
          BY <2>2, <3>2, <3>3, <4>1
      <3>6. CASE r \notin rs
        <4>1. h[rs] = g[rs] /\ h[ss] = g[ss] /\ e[x] = f[x]
          BY <3>1, <3>6
        <4>2. QED
          BY <2>2, <3>2, <3>3, <4>1
      <3>7. QED
        BY <3>1, <3>4, <3>5, <3>6
    <2>3. QED
      BY <2>1, <2>2
  <1>4. Adds(h, e)
    <2>. HIDE DEF h
    <2>1. h = [rs \in SUBSET Replicas |-> h[rs]]
      BY <1>2
    <2>2. QED
      BY <1>3, <2>1 DEF Adds
  <1>5. Shifted(h, g, f[r], n)
    BY DEF Shifted
  <1>6. QED
    BY <1>2, <1>4, <1>5
\* What the fold of InMemory stands for, for any counters and flushes.
Fold(c, fl) ==
  CHOOSE sum : sum = [rs \in SUBSET Replicas |->
                        IF rs = {} THEN 0
                        ELSE (c[Pick(rs)] + fl[Pick(rs)].delta) + sum[rs \ {Pick(rs)}]]

LEMMA FoldIsSum ==
  ASSUME NEW c, NEW fl, NEW g, Adds(g, Load(c, fl))
  PROVE  Fold(c, fl) = g
  <1> DEFINE Same(sum) ==
        sum = [rs \in SUBSET Replicas |->
                 IF rs = {} THEN 0
                 ELSE (c[Pick(rs)] + fl[Pick(rs)].delta) + sum[rs \ {Pick(rs)}]]
  <1>1. ASSUME NEW sum PROVE Same(sum) <=> Adds(sum, Load(c, fl))
    <2>1. \A rs \in SUBSET Replicas :
            rs # {} => Load(c, fl)[Pick(rs)] = c[Pick(rs)] + fl[Pick(rs)].delta
      BY Picked DEF Load
    <2> HIDE DEF Pick
    <2>2. [rs \in SUBSET Replicas |->
             IF rs = {} THEN 0
             ELSE (c[Pick(rs)] + fl[Pick(rs)].delta) + sum[rs \ {Pick(rs)}]]
          = [rs \in SUBSET Replicas |->
               IF rs = {} THEN 0 ELSE Load(c, fl)[Pick(rs)] + sum[rs \ {Pick(rs)}]]
      BY <2>1
    <2>3. QED
      BY <2>2 DEF Adds
  <1>2. Same(g)
    BY <1>1
  <1>3. Same(CHOOSE sum : Same(sum))
    <2> HIDE DEF Same
    <2> QED BY <1>2
  <1>4. Same(Fold(c, fl))
    BY <1>3 DEF Fold
  <1>5. QED
    BY <1>1, <1>4, SumUnique

LEMMA TotalIs ==
  /\ U!InMemory = Fold(counter, flush)[Replicas]
  /\ U!InMemory' = Fold(counter', flush')[Replicas]
  BY DEF U!InMemory, U!MapThenSumSet, U!MapThenFoldSet, Fold, Pick
Summable == \E g \in [SUBSET Replicas -> Nat] : Adds(g, Load(counter, flush))

LEMMA LoadTyped ==
  ASSUME U!TypeOK
  PROVE  /\ Load(counter, flush) \in [Replicas -> Nat]
         /\ \A r \in Replicas : Load(counter, flush)[r] = counter[r] + flush[r].delta
         /\ \A r \in Replicas : counter[r] \in Nat /\ flush[r].delta \in Nat /\ flush[r].base \in Nat
  <1>1. MaxIssued \in Nat
    BY DeliveryAssumption DEF U!UsageAssumption
  <1>2. \A n \in 0..MaxIssued : n \in Nat
    BY <1>1
  <1>3. ASSUME NEW r \in Replicas
        PROVE  counter[r] \in Nat /\ flush[r].delta \in Nat /\ flush[r].base \in Nat
    BY <1>2 DEF U!TypeOK, U!Flush
  <1>4. \A r \in Replicas : counter[r] + flush[r].delta \in Nat
    BY <1>3
  <1>5. QED
    BY <1>3, <1>4 DEF Load

\* What is in memory is a number, no less than what any replica has in memory.
LEMMA InMemoryBounds ==
  ASSUME U!TypeOK, Summable
  PROVE  /\ U!InMemory \in Nat
         /\ \A r \in Replicas : counter[r] + flush[r].delta <= U!InMemory
  <1>1. PICK g \in [SUBSET Replicas -> Nat] : Adds(g, Load(counter, flush))
    BY DEF Summable
  <1>2. U!InMemory = g[Replicas]
    BY <1>1, FoldIsSum, TotalIs
  <1>3. ASSUME NEW r \in Replicas PROVE Load(counter, flush)[r] <= g[Replicas]
    BY <1>1, LoadTyped, SumBounds
  <1>4. QED
    BY <1>2, <1>3, LoadTyped

\* When one replica's share changes, the sum changes by as much.
LEMMA InMemoryStep ==
  ASSUME U!TypeOK, Summable, NEW r \in Replicas, NEW n \in Nat,
         \A q \in Replicas : counter'[q] + flush'[q].delta =
                              IF q = r THEN n ELSE counter[q] + flush[q].delta
  PROVE  /\ Summable'
         /\ U!InMemory' = U!InMemory - (counter[r] + flush[r].delta) + n
  <1> DEFINE f == Load(counter, flush)
             e == Load(counter', flush')
  <1>1. PICK g \in [SUBSET Replicas -> Nat] : Adds(g, f)
    BY DEF Summable
  <1>2. e = [f EXCEPT ![r] = n]
    BY LoadTyped DEF Load
  <1>3. e \in [Replicas -> Nat] /\ f \in [Replicas -> Nat]
    BY <1>2, LoadTyped
  <1>4. PICK h \in [SUBSET Replicas -> Nat] : Adds(h, e) /\ Shifted(h, g, f[r], n)
    <2>1. Changed(f, e, r, n)
      BY <1>2, <1>3 DEF Changed
    <2> HIDE DEF f, e
    <2> QED BY <1>1, <2>1, SumUpdated
  <1>5. U!InMemory = g[Replicas]
    BY <1>1, FoldIsSum, TotalIs
  <1>6. U!InMemory' = h[Replicas]
    BY <1>4, FoldIsSum, TotalIs
  <1>7. Summable'
    BY <1>4 DEF Summable
  <1>8. QED
    BY <1>4, <1>5, <1>6, <1>7, LoadTyped DEF Shifted
\* As long as no two flushes overlapped and no restart cut one off.
Accurate ==
  /\ \A r \in Replicas : ~U!At(r, "dead")
  /\ \A r, q \in Replicas : U!Flushing(r) /\ U!Flushing(q) => r = q
  /\ \A r \in Replicas : U!At(r, "open") => flush[r].base = counts
  /\ \A r \in Replicas : U!At(r, "write") => counts = Torn /\ flush[r].base + U!InMemory = issued
  /\ counts = Torn => \E r \in Replicas : U!At(r, "write")
  /\ counts # Torn => counts + U!InMemory = issued

UsageInv ==
  /\ U!TypeOK /\ Summable
  /\ U!InMemory <= issued
  /\ counts # Torn => counts + U!InMemory <= issued
  /\ \A r \in Replicas : U!At(r, "open") \/ U!At(r, "write") => flush[r].base + U!InMemory <= issued
  /\ \A r \in Replicas : U!At(r, "wait") => flush[r] = U!Waiting
  /\ ~disturbed => Accurate

LEMMA UsageInit == U!Init => UsageInv
  <1> SUFFICES ASSUME U!Init PROVE UsageInv
    OBVIOUS
  <1>1. MaxIssued \in Nat /\ Torn \notin 0..MaxIssued /\ 0 \in 0..MaxIssued
    BY DeliveryAssumption DEF U!UsageAssumption
  <1>2. U!TypeOK
    BY <1>1 DEF U!Init, U!TypeOK, U!Flush, U!Waiting
  <1> DEFINE g == [rs \in SUBSET Replicas |-> 0]
  <1>3. g \in [SUBSET Replicas -> Nat] /\ g[Replicas] = 0
    OBVIOUS
  <1>4. Adds(g, Load(counter, flush))
    <2>1. \A rs \in SUBSET Replicas : rs # {} => Load(counter, flush)[Pick(rs)] = 0
      BY Picked DEF Load, U!Init, U!Waiting
    <2>2. \A rs \in SUBSET Replicas :
            0 = IF rs = {} THEN 0 ELSE Load(counter, flush)[Pick(rs)] + g[rs \ {Pick(rs)}]
      BY <2>1
    <2>3. QED
      BY <2>2 DEF Adds
  <1>5. U!InMemory = 0 /\ Summable
    <2> HIDE DEF g
    <2>1. U!InMemory = g[Replicas]
      BY <1>3, <1>4, FoldIsSum, TotalIs
    <2>2. QED
      BY <1>3, <1>4, <2>1 DEF Summable
  <1>6. QED
    BY <1>1, <1>2, <1>5 DEF U!Init, UsageInv, Accurate, U!At, U!Flushing, U!Waiting

\* What every step of the counts needs of the numbers.
LEMMA UsageNumbers ==
  ASSUME UsageInv
  PROVE  /\ MaxIssued \in Nat /\ Torn \notin 0..MaxIssued
         /\ U!TypeOK /\ Summable
         /\ U!InMemory \in Nat /\ issued \in Nat /\ issued <= MaxIssued
         /\ counts # Torn => counts \in Nat
         /\ \A r \in Replicas : counter[r] \in Nat /\ flush[r].delta \in Nat /\ flush[r].base \in Nat
         /\ \A r \in Replicas : counter[r] + flush[r].delta <= U!InMemory
  <1>1. MaxIssued \in Nat /\ Torn \notin 0..MaxIssued
    BY DeliveryAssumption DEF U!UsageAssumption
  <1>2. U!TypeOK /\ Summable
    BY DEF UsageInv
  <1>3. issued \in Nat /\ issued <= MaxIssued /\ (counts # Torn => counts \in Nat)
    BY <1>1, <1>2 DEF U!TypeOK
  <1>4. QED
    BY <1>1, <1>2, <1>3, LoadTyped, InMemoryBounds

\* A download is counted in memory.
LEMMA UsageRecord ==
  ASSUME UsageInv, NEW r \in Replicas, U!Record(r)
  PROVE  UsageInv'
  <1> DEFINE n == counter[r] + 1 + flush[r].delta
  <1>1. Summable' /\ U!InMemory' = U!InMemory + 1
    <2>1. n \in Nat /\ \A q \in Replicas : counter'[q] + flush'[q].delta =
                          IF q = r THEN n ELSE counter[q] + flush[q].delta
      BY UsageNumbers DEF U!Record, U!TypeOK
    <2>2. U!InMemory' = U!InMemory - (counter[r] + flush[r].delta) + n /\ Summable'
      <3> HIDE DEF n
      <3> QED BY UsageNumbers, <2>1, InMemoryStep
    <2>3. QED
      BY UsageNumbers, <2>2
  <1>2. issued + 1 \in 0..MaxIssued /\ issued' = issued + 1
    BY UsageNumbers DEF U!Record
  <1>3. counter[r] + 1 \in 0..MaxIssued
    BY UsageNumbers, <1>2 DEF UsageInv
  <1>4. U!TypeOK'
    BY UsageNumbers, <1>2, <1>3 DEF U!Record, U!TypeOK
  <1>5. ~disturbed' => Accurate'
    BY UsageNumbers, <1>1, <1>2 DEF UsageInv, Accurate, U!Record, U!At, U!Flushing
  <1>6. QED
    BY UsageNumbers, <1>1, <1>2, <1>4, <1>5 DEF UsageInv, U!Record, U!At

\* What was counted moves to a flush.
LEMMA UsageDrain ==
  ASSUME UsageInv, NEW r \in Replicas, U!Drain(r)
  PROVE  UsageInv'
  <1> DEFINE n == counter[r]
  <1>1. flush[r].delta = 0
    BY DEF UsageInv, U!Drain, U!At, U!Waiting
  <1>2. Summable' /\ U!InMemory' = U!InMemory
    <2>1. n \in Nat /\ \A q \in Replicas : counter'[q] + flush'[q].delta =
                          IF q = r THEN n ELSE counter[q] + flush[q].delta
      BY UsageNumbers, <1>1 DEF U!Drain, U!TypeOK
    <2>2. U!InMemory' = U!InMemory - (counter[r] + flush[r].delta) + n /\ Summable'
      <3> HIDE DEF n
      <3> QED BY UsageNumbers, <2>1, InMemoryStep
    <2>3. QED
      BY UsageNumbers, <1>1, <2>2
  <1>3. U!TypeOK'
    BY UsageNumbers DEF U!Drain, U!TypeOK, U!Flush
  <1>4. ~disturbed' => Accurate'
    BY UsageNumbers, <1>2 DEF UsageInv, Accurate, U!Drain, U!At, U!Flushing, U!TypeOK
  <1>5. QED
    BY UsageNumbers, <1>2, <1>3, <1>4 DEF UsageInv, U!Drain, U!At, U!TypeOK

LEMMA UsageRead ==
  ASSUME UsageInv, NEW r \in Replicas, U!ReadCounts(r)
  PROVE  UsageInv'
  <1>1. CASE counts = Torn
    <2>1. flush' = [flush EXCEPT ![r] = [U!Waiting EXCEPT !.pc = "dead"]]
          /\ UNCHANGED <<counter, counts, issued, disturbed>> /\ U!At(r, "read")
      BY <1>1 DEF U!ReadCounts
    <2> DEFINE n == counter[r]
    <2>2. Summable' /\ U!InMemory' <= U!InMemory /\ U!InMemory' \in Nat
      <3>1. n \in Nat /\ \A q \in Replicas : counter'[q] + flush'[q].delta =
                            IF q = r THEN n ELSE counter[q] + flush[q].delta
        BY UsageNumbers, <2>1 DEF U!TypeOK, U!Waiting
      <3>2. U!InMemory' = U!InMemory - (counter[r] + flush[r].delta) + n /\ Summable'
        <4> HIDE DEF n
        <4> QED BY UsageNumbers, <3>1, InMemoryStep
      <3>3. QED
        BY UsageNumbers, <3>2
    <2>3. U!TypeOK'
      BY UsageNumbers, <2>1 DEF U!TypeOK, U!Flush, U!Waiting
    <2>4. disturbed
      BY <1>1, <2>1 DEF UsageInv, Accurate, U!At, U!Flushing
    <2>5. flush'[r].pc = "dead" /\ \A q \in Replicas \ {r} : flush'[q] = flush[q]
      BY UsageNumbers, <2>1 DEF U!TypeOK, U!Waiting
    <2>6. U!InMemory' \in Nat
      BY <2>2
    <2>7. U!InMemory' <= issued'
      BY UsageNumbers, <2>1, <2>2, <2>6 DEF UsageInv
    <2>8. ASSUME NEW q \in Replicas, U!At(q, "open")' \/ U!At(q, "write")'
          PROVE  flush'[q].base + U!InMemory' <= issued'
      <3>1. q # r /\ (U!At(q, "open") \/ U!At(q, "write")) /\ flush'[q].base = flush[q].base
        BY <2>5, <2>8 DEF U!At
      <3>2. flush[q].base \in Nat /\ flush[q].base + U!InMemory <= issued
        BY <3>1, UsageNumbers DEF UsageInv
      <3>3. QED
        BY UsageNumbers, <2>1, <2>2, <2>6, <3>1, <3>2
    <2>9. \A q \in Replicas : U!At(q, "wait")' => flush'[q] = U!Waiting
      BY <2>5 DEF UsageInv, U!At
    <2>10. QED
      BY <1>1, <2>1, <2>2, <2>3, <2>4, <2>7, <2>8, <2>9 DEF UsageInv
  <1>2. CASE counts # Torn
    <2>1. flush' = [flush EXCEPT ![r] = [@ EXCEPT !.pc = "open", !.base = counts]]
          /\ UNCHANGED <<counter, counts, issued, disturbed>> /\ U!At(r, "read")
      BY <1>2 DEF U!ReadCounts
    <2>2. flush'[r].delta = flush[r].delta /\ flush'[r].base = counts /\ flush'[r].pc = "open"
          /\ flush' \in [Replicas -> U!Flush]
          /\ \A q \in Replicas \ {r} : flush'[q] = flush[q]
      BY UsageNumbers, <1>2, <2>1 DEF U!TypeOK, U!Flush
    <2> DEFINE n == counter[r] + flush[r].delta
    <2>3. Summable' /\ U!InMemory' = U!InMemory
      <3>1. n \in Nat /\ \A q \in Replicas : counter'[q] + flush'[q].delta =
                            IF q = r THEN n ELSE counter[q] + flush[q].delta
        BY UsageNumbers, <2>1, <2>2
      <3>2. U!InMemory' = U!InMemory - (counter[r] + flush[r].delta) + n /\ Summable'
        <4> HIDE DEF n
        <4> QED BY UsageNumbers, <3>1, InMemoryStep
      <3>3. QED
        BY UsageNumbers, <3>2
    <2>4. U!TypeOK'
      BY UsageNumbers, <2>1, <2>2 DEF U!TypeOK
    <2>5. ~disturbed' => Accurate'
      BY UsageNumbers, <1>2, <2>1, <2>2, <2>3 DEF UsageInv, Accurate, U!At, U!Flushing
    <2>6. QED
      BY UsageNumbers, <1>2, <2>1, <2>2, <2>3, <2>4, <2>5 DEF UsageInv, U!At
  <1>3. QED
    BY <1>1, <1>2

LEMMA UsageOpen ==
  ASSUME UsageInv, NEW r \in Replicas, U!OpenCounts(r)
  PROVE  UsageInv'
  <1>1. flush'[r].delta = flush[r].delta /\ flush'[r].base = flush[r].base
        /\ flush'[r].pc = "write" /\ flush' \in [Replicas -> U!Flush]
        /\ \A q \in Replicas \ {r} : flush'[q] = flush[q]
    BY UsageNumbers DEF U!OpenCounts, U!TypeOK, U!Flush
  <1> DEFINE n == counter[r] + flush[r].delta
  <1>2. Summable' /\ U!InMemory' = U!InMemory
    <2>1. n \in Nat /\ \A q \in Replicas : counter'[q] + flush'[q].delta =
                          IF q = r THEN n ELSE counter[q] + flush[q].delta
      BY UsageNumbers, <1>1 DEF U!OpenCounts
    <2>2. U!InMemory' = U!InMemory - (counter[r] + flush[r].delta) + n /\ Summable'
      <3> HIDE DEF n
      <3> QED BY UsageNumbers, <2>1, InMemoryStep
    <2>3. QED
      BY UsageNumbers, <2>2
  <1>3. U!TypeOK'
    BY UsageNumbers, <1>1 DEF U!OpenCounts, U!TypeOK
  <1>4. ~disturbed' => Accurate'
    <2>1. flush[r].base # Torn
      BY UsageNumbers DEF U!TypeOK, U!Flush
    <2>2. QED
      BY UsageNumbers, <1>1, <1>2, <2>1 DEF UsageInv, Accurate, U!OpenCounts, U!At, U!Flushing
  <1>5. QED
    BY UsageNumbers, <1>1, <1>2, <1>3, <1>4 DEF UsageInv, U!OpenCounts, U!At

LEMMA UsageWrite ==
  ASSUME UsageInv, NEW r \in Replicas, U!WriteCounts(r)
  PROVE  UsageInv'
  <1> DEFINE sum == flush[r].base + flush[r].delta
             n == counter[r]
  <1>1. flush' = [flush EXCEPT ![r] = U!Waiting] /\ U!At(r, "write")
        /\ UNCHANGED <<counter, issued, disturbed>>
        /\ counts' \in (IF disturbed THEN {counts, sum, Torn} ELSE {sum})
    BY DEF U!WriteCounts
  <1>2. Summable' /\ U!InMemory' = U!InMemory - flush[r].delta
    <2>1. n \in Nat /\ \A q \in Replicas : counter'[q] + flush'[q].delta =
                          IF q = r THEN n ELSE counter[q] + flush[q].delta
      BY UsageNumbers, <1>1 DEF U!TypeOK, U!Waiting
    <2>2. U!InMemory' = U!InMemory - (counter[r] + flush[r].delta) + n /\ Summable'
      <3> HIDE DEF n
      <3> QED BY UsageNumbers, <2>1, InMemoryStep
    <2>3. QED
      BY UsageNumbers, <2>2
  <1>3. sum \in 0..MaxIssued /\ sum + U!InMemory' <= issued
    BY UsageNumbers, <1>1, <1>2 DEF UsageInv
  <1>4. sum # Torn
    BY <1>3, UsageNumbers
  <1>5. U!TypeOK'
    BY UsageNumbers, <1>1, <1>3 DEF U!TypeOK, U!Flush, U!Waiting
  <1> HIDE DEF sum
  <1>6. ~disturbed => counts' = sum
    BY <1>1
  <1>7. ~disturbed' => Accurate'
    <2> SUFFICES ASSUME ~disturbed PROVE Accurate'
      BY <1>1
    <2>1. flush'[r] = U!Waiting /\ \A q \in Replicas \ {r} : flush'[q] = flush[q]
      BY <1>1, UsageNumbers DEF U!TypeOK
    <2>2. U!Flushing(r) /\ U!Flushing(r) /\ flush[r].base + U!InMemory = issued
      BY <1>1, UsageNumbers DEF U!At, U!Flushing, UsageInv, Accurate
    <2>3. \A q \in Replicas : ~U!Flushing(q)'
      BY <2>1, <2>2 DEF UsageInv, Accurate, U!Flushing, U!Waiting
    <2>4. \A q \in Replicas : ~U!At(q, "dead")'
      BY <2>1 DEF UsageInv, Accurate, U!At, U!Waiting
    <2>5. counts' + U!InMemory' = issued'
      BY UsageNumbers, <1>1, <1>2, <1>6, <2>2 DEF sum
    <2>6. QED
      BY <1>4, <1>6, <2>3, <2>4, <2>5 DEF Accurate, U!At, U!Flushing
  <1>8. counts' # Torn => counts' + U!InMemory' <= issued'
    BY UsageNumbers, <1>1, <1>2, <1>3 DEF UsageInv
  <1>9. QED
    BY UsageNumbers, <1>1, <1>2, <1>5, <1>7, <1>8 DEF UsageInv, U!At, U!TypeOK, U!Waiting

\* A restart forgets what was in memory.
LEMMA UsageRestart ==
  ASSUME UsageInv, NEW r \in Replicas, U!Restart(r)
  PROVE  UsageInv'
  <1>1. Summable' /\ U!InMemory' = U!InMemory - (counter[r] + flush[r].delta)
    <2>1. 0 \in Nat /\ \A q \in Replicas : counter'[q] + flush'[q].delta =
                          IF q = r THEN 0 ELSE counter[q] + flush[q].delta
      BY UsageNumbers DEF U!Restart, U!TypeOK, U!Waiting
    <2>2. U!InMemory' = U!InMemory - (counter[r] + flush[r].delta) + 0 /\ Summable'
      BY UsageNumbers, <2>1, InMemoryStep
    <2>3. QED
      BY UsageNumbers, <2>2
  <1>2. U!TypeOK'
    BY UsageNumbers DEF U!Restart, U!TypeOK, U!Flush, U!Waiting
  <1>3. ~disturbed' => Accurate'
    <2> SUFFICES ASSUME ~disturbed' PROVE Accurate'
      OBVIOUS
    <2>1. ~disturbed /\ counter[r] = 0 /\ flush[r] = U!Waiting
      <3>1. ~disturbed /\ ~(counter[r] > 0) /\ ~(flush[r] # U!Waiting)
        BY Zenon DEF U!Restart
      <3>2. QED
        BY UsageNumbers, <3>1
    <2>2. flush' = flush /\ U!InMemory' = U!InMemory
      BY UsageNumbers, <1>1, <2>1 DEF U!Restart, U!TypeOK, U!Waiting
    <2>3. QED
      BY <2>1, <2>2 DEF UsageInv, Accurate, U!Restart, U!At, U!Flushing
  <1>4. QED
    BY UsageNumbers, <1>1, <1>2, <1>3 DEF UsageInv, U!Restart, U!At, U!TypeOK, U!Waiting

LEMMA UsageUnchanged ==
  ASSUME UsageInv, UNCHANGED usageVars
  PROVE  UsageInv'
  <1>1. UNCHANGED <<counter, flush, counts, issued, disturbed>>
    BY DEF usageVars
  <1>2. U!InMemory' = U!InMemory
    BY <1>1, TotalIs
  <1>3. QED
    BY <1>1, <1>2 DEF UsageInv, Accurate, Summable, U!TypeOK, U!At, U!Flushing

-----------------------------------------------------------------------------
\* Who is in a sequence that an event joins or leaves.
LEMMA EventAppended ==
  ASSUME NEW s \in Seq(Releases), NEW v \in Releases
  PROVE  Append(s, v) \in Seq(Releases) /\ E!ToSet(Append(s, v)) = E!ToSet(s) \union {v}
  <1>1. Append(s, v) \in Seq(Releases) /\ Len(Append(s, v)) = Len(s) + 1
    OBVIOUS
  <1>2. \A i \in 1..Len(s) : Append(s, v)[i] = s[i]
    OBVIOUS
  <1>3. Append(s, v)[Len(s) + 1] = v /\ Len(s) \in Nat
    OBVIOUS
  <1>4. DOMAIN s = 1..Len(s) /\ DOMAIN Append(s, v) = 1..(Len(s) + 1)
    BY <1>1
  <1>5. \A i \in 1..(Len(s) + 1) : i = Len(s) + 1 \/ i \in 1..Len(s)
    BY <1>3
  <1>6. Len(s) + 1 \in 1..(Len(s) + 1) /\ \A i \in 1..Len(s) : i \in 1..(Len(s) + 1)
    BY <1>3
  <1>7. QED
    BY <1>1, <1>2, <1>3, <1>4, <1>5, <1>6 DEF E!ToSet

LEMMA EventTaken ==
  ASSUME NEW s \in Seq(Releases), s # <<>>
  PROVE  /\ Head(s) \in Releases /\ Tail(s) \in Seq(Releases)
         /\ E!ToSet(s) = E!ToSet(Tail(s)) \union {Head(s)}
  <1>1. /\ Head(s) \in Releases /\ Tail(s) \in Seq(Releases)
        /\ Len(Tail(s)) = Len(s) - 1
        /\ \A i \in 1..Len(Tail(s)) : Tail(s)[i] = s[i + 1]
    BY HeadTailProperties
  <1>2. Head(s) = s[1] /\ Len(s) \in Nat /\ Len(s) >= 1
    OBVIOUS
  <1>3. DOMAIN s = 1..Len(s) /\ DOMAIN Tail(s) = 1..(Len(s) - 1)
    BY <1>1
  <1>4. ASSUME NEW x \in E!ToSet(s) PROVE x = Head(s) \/ x \in E!ToSet(Tail(s))
    <2>1. PICK i \in 1..Len(s) : x = s[i]
      BY <1>3 DEF E!ToSet
    <2>2. CASE i = 1
      BY <1>2, <2>1, <2>2
    <2>3. CASE i # 1
      <3>1. i - 1 \in 1..(Len(s) - 1) /\ (i - 1) + 1 = i
        BY <1>2, <2>1, <2>3
      <3>2. Tail(s)[i - 1] = x
        BY <1>1, <2>1, <3>1
      <3>3. QED
        BY <1>3, <3>1, <3>2 DEF E!ToSet
    <2>4. QED
      BY <2>2, <2>3
  <1>5. ASSUME NEW x \in E!ToSet(Tail(s)) PROVE x \in E!ToSet(s)
    <2>1. PICK i \in 1..(Len(s) - 1) : x = Tail(s)[i]
      BY <1>3 DEF E!ToSet
    <2>2. i + 1 \in 1..Len(s)
      BY <1>2, <2>1
    <2>3. x = s[i + 1]
      BY <1>1, <2>1
    <2>4. QED
      BY <1>3, <2>2, <2>3 DEF E!ToSet
  <1>6. Head(s) \in E!ToSet(s)
    <2>1. 1 \in 1..Len(s)
      BY <1>2
    <2>2. QED
      BY <1>2, <1>3, <2>1 DEF E!ToSet
  <1>7. QED
    BY <1>1, <1>4, <1>5, <1>6

LEMMA NoEvents == <<>> \in Seq(Releases) /\ E!ToSet(<<>>) = {}
  BY DEF E!ToSet

-----------------------------------------------------------------------------
\* What the bus and its consumers know by themselves.
BusInv ==
  /\ E!TypeOK /\ E!EventsAreAccounted
  /\ bus \in Seq(Releases) /\ batch \in [Replicas -> Seq(Releases)]
  /\ E!ToSet(bus) \subseteq announced
  /\ \A r \in Replicas : E!ToSet(batch[r]) \subseteq announced

LEMMA EventsNumbers == MaxRetries \in Nat \ {0} /\ MaxRedeliveries \in Nat
  BY DeliveryAssumption DEF E!IndexEventsAssumption

LEMMA BusInit == E!Init => BusInv
  <1> SUFFICES ASSUME E!Init PROVE BusInv
    OBVIOUS
  <1>1. 0 \in 0..(MaxRetries - 1) /\ 0 \in 0..MaxRedeliveries
    BY EventsNumbers
  <1>2. QED
    BY <1>1, NoEvents DEF E!Init, BusInv, E!TypeOK, E!EventsAreAccounted

LEMMA EventsAnnounced ==
  ASSUME BusInv, NEW v \in Releases, E!Announce(v) \/ E!Redeliver(v)
  PROVE  BusInv'
  <1>1. bus' \in Seq(Releases) /\ E!ToSet(bus') = E!ToSet(bus) \union {v}
    BY EventAppended DEF BusInv, E!Announce, E!Redeliver
  <1>2. redelivered' \in 0..MaxRedeliveries
    BY EventsNumbers DEF BusInv, E!TypeOK, E!Announce, E!Redeliver
  <1>3. QED
    BY <1>1, <1>2 DEF BusInv, E!TypeOK, E!EventsAreAccounted, E!Announce, E!Redeliver

\* What a consumer has dealt with was announced.
LEMMA EventDealtWith ==
  ASSUME BusInv, NEW r \in Replicas, batch[r] # <<>>, E!Taken(r)
  PROVE  /\ Head(batch[r]) \in announced
         /\ batch' \in [Replicas -> Seq(Releases)]
         /\ failures' \in [Replicas -> 0..(MaxRetries - 1)]
         /\ E!ToSet(batch[r]) = E!ToSet(batch'[r]) \union {Head(batch[r])}
         /\ \A q \in Replicas \ {r} : batch'[q] = batch[q]
  <1>1. 0 \in 0..(MaxRetries - 1)
    BY EventsNumbers
  <1>2. batch[r] \in Seq(Releases)
    BY DEF BusInv
  <1>3. QED
    BY <1>1, <1>2, EventTaken DEF BusInv, E!TypeOK, E!Taken

\* What a consumer has dealt with is accounted for when its index or its dead
\* letters have it, and takes no other announcement along.
LEMMA StillAccounted ==
  ASSUME BusInv, NEW r \in Replicas, batch[r] # <<>>, E!Taken(r), UNCHANGED <<bus, announced>>,
         \A q \in Replicas : entries[q] \subseteq entries'[q] /\ dead[q] \subseteq dead'[q],
         Head(batch[r]) \in entries'[r] \union dead'[r]
  PROVE  \A w \in announced' :
           \/ w \in E!ToSet(bus')
           \/ \E q \in Replicas : w \in E!ToSet(batch'[q]) \union entries'[q] \union dead'[q]
  <1> DEFINE Has(q, w) == w \in E!ToSet(batch[q]) \union entries[q] \union dead[q]
             HasThen(q, w) == w \in E!ToSet(batch'[q]) \union entries'[q] \union dead'[q]
  <1>1. E!ToSet(batch[r]) = E!ToSet(batch'[r]) \union {Head(batch[r])}
    BY EventDealtWith
  <1>2. \A q \in Replicas \ {r} : batch'[q] = batch[q]
    BY EventDealtWith
  <1>3. \A w : Has(r, w) => HasThen(r, w)
    BY <1>1
  <1>4. \A q \in Replicas \ {r} : \A w : Has(q, w) => HasThen(q, w)
    BY <1>2
  <1>5. \A w \in announced : w \in E!ToSet(bus) \/ \E q \in Replicas : Has(q, w)
    BY DEF BusInv, E!EventsAreAccounted
  <1> HIDE DEF Has, HasThen
  <1>6. \A w \in announced : w \in E!ToSet(bus) \/ \E q \in Replicas : HasThen(q, w)
    BY <1>3, <1>4, <1>5
  <1> USE DEF HasThen
  <1>7. QED
    BY <1>6

LEMMA EventsConsumed ==
  ASSUME BusInv, NEW r \in Replicas, E!ConsumerStep(r) \/ E!Fail(r)
  PROVE  BusInv'
  <1>0. /\ announced \subseteq Releases
        /\ \A q \in Replicas : applied[q] \subseteq entries[q]
    BY DEF BusInv, E!TypeOK, E!EventsAreAccounted
  <1>1. CASE E!Consume(r)
    BY <1>1, NoEvents DEF BusInv, E!TypeOK, E!EventsAreAccounted, E!Consume
  <1> DEFINE v == Head(batch[r])
  <1>2. CASE E!Skip(r)
    <2>1. batch[r] # <<>> /\ v \in applied[r] /\ E!Taken(r)
          /\ UNCHANGED <<bus, announced, applied, dead, entries, redelivered>>
      BY <1>2 DEF E!Skip
    <2>2. E!EventsAreAccounted'
      BY <1>0, <2>1, StillAccounted DEF E!EventsAreAccounted
    <2>3. QED
      BY <2>1, <2>2, EventDealtWith DEF BusInv, E!TypeOK
  <1>3. CASE E!Apply(r)
    <2>1. batch[r] # <<>> /\ E!Taken(r) /\ UNCHANGED <<bus, announced, dead, redelivered>>
      BY <1>3 DEF E!Apply
    <2>2. v \in announced /\ v \in Releases
      BY <1>0, <2>1, EventDealtWith
    <2>3. entries' \in [Replicas -> SUBSET Releases] /\ applied' \in [Replicas -> SUBSET Releases]
      BY <1>3, <2>2 DEF E!Apply, BusInv, E!TypeOK
    <2>4. \A q \in Replicas : entries'[q] = entries[q] \union (IF q = r THEN {v} ELSE {})
      BY <1>3 DEF E!Apply, BusInv, E!TypeOK
    <2>5. \A q \in Replicas : applied'[q] = applied[q] \union (IF q = r THEN {v} ELSE {})
      BY <1>3 DEF E!Apply, BusInv, E!TypeOK
    <2>6. E!EventsAreAccounted'
      <3>1. \A q \in Replicas : applied'[q] \subseteq entries'[q]
        BY <1>0, <2>4, <2>5
      <3>2. QED
        BY <2>1, <2>4, <3>1, StillAccounted DEF E!EventsAreAccounted
    <2>7. E!TypeOK'
      BY <2>1, <2>3, EventDealtWith DEF BusInv, E!TypeOK
    <2>8. QED
      BY <2>1, <2>6, <2>7, EventDealtWith DEF BusInv
  <1>4. CASE E!Fail(r)
    <2>1. CASE failures[r] + 1 < MaxRetries
      <3>1. failures[r] + 1 \in 0..(MaxRetries - 1)
        BY <2>1, EventsNumbers DEF BusInv, E!TypeOK
      <3>2. failures' = [failures EXCEPT ![r] = @ + 1]
            /\ UNCHANGED <<bus, announced, batch, applied, dead, entries, redelivered>>
        BY <1>4, <2>1, EventsNumbers DEF E!Fail
      <3>3. QED
        BY <3>1, <3>2 DEF BusInv, E!TypeOK, E!EventsAreAccounted
    <2>2. CASE failures[r] + 1 = MaxRetries
      <3>1. dead' = [dead EXCEPT ![r] = @ \union {v}] /\ E!Taken(r) /\ batch[r] # <<>>
            /\ UNCHANGED <<bus, announced, applied, entries, redelivered>>
        BY <1>4, <2>2, EventsNumbers DEF E!Fail
      <3>2. v \in announced /\ v \in Releases
        BY <1>0, <3>1, EventDealtWith
      <3>3. dead' \in [Replicas -> SUBSET Releases]
        BY <3>1, <3>2 DEF BusInv, E!TypeOK
      <3>4. \A q \in Replicas : dead'[q] = dead[q] \union (IF q = r THEN {v} ELSE {})
        BY <3>1 DEF BusInv, E!TypeOK
      <3>5. E!EventsAreAccounted'
        BY <1>0, <3>1, <3>4, StillAccounted DEF E!EventsAreAccounted
      <3>6. E!TypeOK'
        BY <3>1, <3>3, EventDealtWith DEF BusInv, E!TypeOK
      <3>7. QED
        BY <3>1, <3>5, <3>6, EventDealtWith DEF BusInv
    <2>3. QED
      BY <1>4, <2>1, <2>2 DEF E!Fail
  <1>5. QED
    BY <1>1, <1>2, <1>3, <1>4 DEF E!ConsumerStep

\* Whatever a replica forgets when it starts again, it reads from the tags.
LEMMA EventsBootstrap ==
  ASSUME BusInv, NEW r \in Replicas, NEW tags \in SUBSET Releases, announced \subseteq tags,
         E!Bootstrap(r, tags)
  PROVE  BusInv'
  <1>1. 0 \in 0..(MaxRetries - 1)
    BY EventsNumbers
  <1>2. QED
    BY <1>1, NoEvents DEF BusInv, E!TypeOK, E!EventsAreAccounted, E!Bootstrap

LEMMA BusStep == BusInv /\ [E!Next]_E!vars => BusInv'
  <1> SUFFICES ASSUME BusInv, [E!Next]_E!vars PROVE BusInv'
    OBVIOUS
  <1>1. ASSUME NEW v \in Releases, E!Announce(v) \/ E!Redeliver(v) PROVE BusInv'
    BY <1>1, EventsAnnounced
  <1>2. ASSUME NEW r \in Replicas, E!ConsumerStep(r) \/ E!Fail(r) PROVE BusInv'
    BY <1>2, EventsConsumed
  <1>3. ASSUME NEW r \in Replicas, NEW v \in Releases, E!Put(r, v) PROVE BusInv'
    BY <1>3 DEF BusInv, E!TypeOK, E!EventsAreAccounted, E!Put
  <1>4. ASSUME NEW r \in Replicas, NEW tags \in {ts \in SUBSET Releases : announced \subseteq ts},
               E!Bootstrap(r, tags)
        PROVE  BusInv'
    BY <1>4, EventsBootstrap
  <1>5. CASE UNCHANGED E!vars
    BY <1>5 DEF E!vars, BusInv, E!TypeOK, E!EventsAreAccounted
  <1>6. QED
    BY <1>1, <1>2, <1>3, <1>4, <1>5 DEF E!Next

\* Of the bus and its consumers by themselves: as long as a replica that starts
\* again finds the tag of every announced release, no announcement is lost.
THEOREM EventsAccountedAlone == E!Spec => []E!EventsAreAccounted
  <1>1. BusInv => E!EventsAreAccounted
    BY DEF BusInv
  <1>2. QED
    BY <1>1, BusInit, BusStep, PTL DEF E!Spec

\* Of a delivery: what is announced or in an index is published.
EventsInv ==
  /\ BusInv
  /\ announced \subseteq Published
  /\ \A r \in Replicas : entries[r] \subseteq Published

-----------------------------------------------------------------------------
\* A step of the delivery is a step of the signing, or leaves it alone.
LEMMA DeliveryStepSigns == [Next]_vars => [S!Next]_S!vars
  <1> SUFFICES ASSUME [Next]_vars PROVE S!Next \/ UNCHANGED signingVars
    BY DEF S!vars, signingVars
  <1> USE DEF signingVars
  <1>1. ASSUME NEW m \in Makers, LoadKeys(m) PROVE S!Next
    BY <1>1 DEF LoadKeys, S!Next
  <1>2. ASSUME NEW m \in Makers, Publish(m) PROVE S!Next
    BY <1>2 DEF Publish, S!Next
  <1>3. ASSUME NEW m \in Makers, CutOffPublication(m) PROVE S!Next
    BY <1>3 DEF CutOffPublication, S!Next
  <1>4. ASSUME NEW m \in Makers, NEW v \in Releases, BeginPublication(m, v) PROVE S!Next
    BY <1>4 DEF BeginPublication, S!Next
  <1>5. ASSUME NEW v \in Releases, PublishBundle(v) PROVE S!Next
    BY <1>5 DEF PublishBundle, S!Next
  <1>6. ASSUME NEW v \in Releases, CutOffBundle(v) \/ Redeliver(v) PROVE UNCHANGED signingVars
    BY <1>6 DEF CutOffBundle, Redeliver
  <1>7. ASSUME NEW r \in Replicas, HandleEvents(r) \/ FlushUsage(r) \/ Restart(r) \/ Redeem(r)
        PROVE  UNCHANGED signingVars
    BY <1>7 DEF HandleEvents, FlushUsage, Restart, Redeem
  <1>8. ASSUME NEW r \in Replicas, NEW v \in Releases, PutRelease(r, v) \/ IssueToken(r, v)
        PROVE  UNCHANGED signingVars
    BY <1>8 DEF PutRelease, IssueToken
  <1>9. ASSUME NEW f \in Files, WriteFile(f) PROVE UNCHANGED signingVars
    BY <1>9 DEF WriteFile
  <1>10. CASE TokenExpires \/ Report \/ CutOffClient
    BY <1>10 DEF TokenExpires, Report, CutOffClient
  <1>11. CASE UNCHANGED vars
    BY <1>11 DEF vars
  <1>12. QED
    BY <1>1, <1>2, <1>3, <1>4, <1>5, <1>6, <1>7, <1>8, <1>9, <1>10, <1>11 DEF Next

\* Delivery implements Signing: whatever replicas, consumers and clients do, the
\* key files and the publications take the steps of that module.
THEOREM DeliverySigns == Spec => S!Spec
  <1>1. Init => S!Init
    BY DEF Init
  <1>2. QED
    BY <1>1, DeliveryStepSigns, PTL DEF Spec, S!Spec

\* A release keeps its signer.
LEMMA SignedStays ==
  ASSUME [S!Next]_S!vars
  PROVE  /\ \A v \in Releases : signed[v] # None => signed'[v] = signed[v]
         /\ Published \subseteq Published'
  <1> SUFFICES \A v \in Releases : signed[v] # None => signed'[v] = signed[v]
    BY DEF Published
  <1>1. ASSUME NEW m \in Makers, S!LoadKeys(m) PROVE UNCHANGED signed
    BY <1>1 DEF S!LoadKeys, S!LoadOrCreateKeypair, S!OpenKey, S!WriteKey, S!LookForTrust,
                S!OpenTrust, S!WriteTrust, S!LoadTrust
  <1>2. ASSUME NEW m \in Makers, S!Publish(m)
        PROVE  \A v \in Releases : signed[v] # None => signed'[v] = signed[v]
    BY <1>2 DEF S!Publish
  <1>3. ASSUME NEW v \in Releases, S!PublishBundle(v)
        PROVE  \A w \in Releases : signed[w] # None => signed'[w] = signed[w]
    BY <1>3 DEF S!PublishBundle
  <1>4. ASSUME NEW m \in Makers, S!CutOff(m) PROVE UNCHANGED signed
    BY <1>4 DEF S!CutOff
  <1>5. ASSUME NEW m \in Makers, NEW v \in Releases, S!Begin(m, v) PROVE UNCHANGED signed
    BY <1>5 DEF S!Begin
  <1>6. QED
    BY <1>1, <1>2, <1>3, <1>4, <1>5 DEF S!Next, S!vars

\* What changed the signatures has published the release it names.
LEMMA SignedIsPublished ==
  /\ \A m \in Makers : S!TypeOK /\ S!Publish(m) /\ signed' # signed
        => maker[m].rel \in Releases /\ maker[m].rel \in Published'
  /\ \A v \in Releases : S!TypeOK /\ S!PublishBundle(v) => v \in Published'
  <1> USE DEF S!TypeOK, Published
  <1>1. ASSUME NEW m \in Makers, S!TypeOK, S!Publish(m), signed' # signed
        PROVE  maker[m].rel \in Releases /\ maker[m].rel \in Published'
    <2>1. maker[m].rel \in Releases
      BY <1>1 DEF S!Publish, S!At, S!Maker, S!NoWork, S!Work
    <2>2. signed' = [signed EXCEPT ![maker[m].rel] = maker[m].key]
      BY <1>1 DEF S!Publish
    <2>3. signed[maker[m].rel] = None
      BY <1>1 DEF S!Publish
    <2>4. maker[m].key # None
      BY <1>1, <2>1, <2>2, <2>3
    <2>5. QED
      BY <1>1, <2>1, <2>2, <2>4
  <1>2. ASSUME NEW v \in Releases, S!TypeOK, S!PublishBundle(v) PROVE v \in Published'
    BY <1>2, DeliveryAssumption DEF S!PublishBundle, S!SigningAssumption
  <1>3. QED
    BY <1>1, <1>2

\* A step of the delivery is a step of the bus and its consumers, or leaves them
\* alone; a replica that starts again reads every tag, that of each announced
\* release among them.
LEMMA DeliveryStepSpreads == S!TypeOK /\ EventsInv /\ [Next]_vars => [E!Next]_E!vars
  <1> SUFFICES ASSUME S!TypeOK, EventsInv, [Next]_vars PROVE E!Next \/ UNCHANGED eventVars
    BY DEF E!vars, eventVars
  <1> USE DEF eventVars
  <1>1. ASSUME NEW m \in Makers, Publish(m) PROVE E!Next \/ UNCHANGED eventVars
    <2>1. CASE UNCHANGED eventVars
      BY <2>1
    <2>2. CASE signed' # signed /\ E!Announce(maker[m].rel)
      BY <1>1, <2>2, SignedIsPublished DEF E!Next, Publish
    <2>3. QED
      BY <1>1, <2>1, <2>2 DEF Publish, Announced
  <1>2. ASSUME NEW v \in Releases, PublishBundle(v) PROVE E!Next \/ UNCHANGED eventVars
    BY <1>2 DEF PublishBundle, Announced, E!Next
  <1>3. ASSUME NEW v \in Releases, Redeliver(v) PROVE E!Next
    BY <1>3 DEF Redeliver, E!Next
  <1>4. ASSUME NEW r \in Replicas, HandleEvents(r) PROVE E!Next
    BY <1>4 DEF HandleEvents, E!Next
  <1>5. ASSUME NEW r \in Replicas, NEW v \in Releases, PutRelease(r, v) PROVE E!Next
    BY <1>5 DEF PutRelease, E!Next
  <1>6. ASSUME NEW r \in Replicas, Restart(r) PROVE E!Next
    <2>1. Published \in {ts \in SUBSET Releases : announced \subseteq ts}
      BY DEF EventsInv, Published
    <2>2. QED
      BY <1>6, <2>1 DEF Restart, E!Next
  <1>7. ASSUME NEW m \in Makers, LoadKeys(m) \/ CutOffPublication(m) PROVE UNCHANGED eventVars
    BY <1>7 DEF LoadKeys, CutOffPublication
  <1>8. ASSUME NEW m \in Makers, NEW v \in Releases, BeginPublication(m, v)
        PROVE  UNCHANGED eventVars
    BY <1>8 DEF BeginPublication
  <1>z. ASSUME NEW v \in Releases, CutOffBundle(v) PROVE UNCHANGED eventVars
    BY <1>z DEF CutOffBundle
  <1>9. ASSUME NEW r \in Replicas, FlushUsage(r) \/ Redeem(r) PROVE UNCHANGED eventVars
    BY <1>9 DEF FlushUsage, Redeem
  <1>10. ASSUME NEW r \in Replicas, NEW v \in Releases, IssueToken(r, v)
         PROVE  UNCHANGED eventVars
    BY <1>10 DEF IssueToken
  <1>11. ASSUME NEW f \in Files, WriteFile(f) PROVE UNCHANGED eventVars
    BY <1>11 DEF WriteFile
  <1>12. CASE TokenExpires \/ Report \/ CutOffClient
    BY <1>12 DEF TokenExpires, Report, CutOffClient
  <1>13. CASE UNCHANGED vars
    BY <1>13 DEF vars
  <1>14. QED
    BY <1>1, <1>2, <1>3, <1>4, <1>5, <1>6, <1>7, <1>8, <1>z, <1>9, <1>10, <1>11, <1>12, <1>13 DEF Next

\* A step of the delivery is a step of the counting, or leaves it alone.
LEMMA DeliveryStepCounts == [Next]_vars => [U!Next]_U!vars
  <1> SUFFICES ASSUME [Next]_vars PROVE U!Next \/ UNCHANGED usageVars
    BY DEF U!vars, usageVars
  <1> USE DEF usageVars
  <1>1. ASSUME NEW r \in Replicas, FlushUsage(r) \/ Restart(r) PROVE U!Next
    BY <1>1 DEF FlushUsage, Restart, U!Next
  <1>2. ASSUME NEW r \in Replicas, NEW v \in Releases, IssueToken(r, v) PROVE U!Next
    BY <1>2 DEF IssueToken, U!Next
  <1>3. ASSUME NEW m \in Makers, LoadKeys(m) \/ Publish(m) \/ CutOffPublication(m)
        PROVE  UNCHANGED usageVars
    BY <1>3 DEF LoadKeys, Publish, CutOffPublication
  <1>4. ASSUME NEW m \in Makers, NEW v \in Releases, BeginPublication(m, v)
        PROVE  UNCHANGED usageVars
    BY <1>4 DEF BeginPublication
  <1>5. ASSUME NEW v \in Releases, PublishBundle(v) \/ CutOffBundle(v) \/ Redeliver(v)
        PROVE  UNCHANGED usageVars
    BY <1>5 DEF PublishBundle, CutOffBundle, Redeliver
  <1>6. ASSUME NEW r \in Replicas, HandleEvents(r) \/ Redeem(r) PROVE UNCHANGED usageVars
    BY <1>6 DEF HandleEvents, Redeem
  <1>7. ASSUME NEW r \in Replicas, NEW v \in Releases, PutRelease(r, v)
        PROVE  UNCHANGED usageVars
    BY <1>7 DEF PutRelease
  <1>8. ASSUME NEW f \in Files, WriteFile(f) PROVE UNCHANGED usageVars
    BY <1>8 DEF WriteFile
  <1>9. CASE TokenExpires \/ Report \/ CutOffClient
    BY <1>9 DEF TokenExpires, Report, CutOffClient
  <1>10. CASE UNCHANGED vars
    BY <1>10 DEF vars
  <1>11. QED
    BY <1>1, <1>2, <1>3, <1>4, <1>5, <1>6, <1>7, <1>8, <1>9, <1>10 DEF Next

\* Delivery implements UsageCounts: however tokens are issued and replicas start
\* again, the counters and the file take the steps of that module.
THEOREM DeliveryCountsUsage == Spec => U!Spec
  <1>1. Init => U!Init
    BY DEF Init
  <1>2. QED
    BY <1>1, DeliveryStepCounts, PTL DEF Spec, U!Spec

LEMMA UsageHonest == UsageInv => U!UsageIsHonest
  BY DEF UsageInv, Accurate, U!UsageIsHonest

\* The usage file of UsageCounts by itself never says more than was downloaded, and
\* exactly how much while nothing disturbed it.
THEOREM CountsAreHonestAlone == U!Spec => []U!UsageIsHonest
  <1>1. UsageInv /\ [U!Next]_U!vars => UsageInv'
    <2> SUFFICES ASSUME UsageInv, [U!Next]_U!vars PROVE UsageInv'
      OBVIOUS
    <2>1. ASSUME NEW r \in Replicas, U!Record(r) \/ U!FlushStep(r) \/ U!Restart(r)
          PROVE  UsageInv'
      BY <2>1, UsageRecord, UsageDrain, UsageRead, UsageOpen, UsageWrite, UsageRestart
         DEF U!FlushStep
    <2>2. CASE UNCHANGED U!vars
      BY <2>2, UsageUnchanged DEF U!vars, usageVars
    <2>3. QED
      BY <2>1, <2>2 DEF U!Next
  <1>2. QED
    BY <1>1, UsageInit, UsageHonest, PTL DEF U!Spec

-----------------------------------------------------------------------------
\* The client has been sent what was published.
Complete == recheck \/ token \notin partial

\* What the client's token, command and directory say.
ClientInv ==
  /\ token \in Releases \union {None} /\ known \subseteq Replicas /\ client \in Client
  /\ dest \in [Files -> Releases \union {None}]
  /\ installs \in Nat /\ recheck \in BOOLEAN /\ left \in [Costs -> Nat]
  /\ partial \subseteq Releases
  /\ token # None => token \in Published
  /\ client.pc # "idle" => token # None
  /\ client.pc \in {"write", "done"} =>
       /\ client.rel = token
       /\ Complete => \A f \in FilesOf[token] \ client.todo : dest[f] = token
       /\ signed[token] \in IF recheck THEN {Sigstore} ELSE {Sigstore} \union Makers
  /\ client.pc = "done" => client.todo = {}

\* A command that will report success has had a token issued of its own.
CommandsAreCounted ==
  installs + (IF client.pc \in {"redeem", "write"} THEN 1 ELSE 0) <= issued

DeliveryInv == KeyInv /\ UsageInv /\ EventsInv /\ ClientInv /\ CommandsAreCounted

-----------------------------------------------------------------------------
LEMMA DeliveryCounts ==
  ASSUME UsageInv, [Next]_vars
  PROVE  UsageInv'
  <1>1. ASSUME NEW r \in Replicas, FlushUsage(r) PROVE UsageInv'
    BY <1>1, UsageDrain, UsageRead, UsageOpen, UsageWrite DEF FlushUsage, U!FlushStep
  <1>2. ASSUME NEW r \in Replicas, Restart(r) PROVE UsageInv'
    BY <1>2, UsageRestart DEF Restart
  <1>3. ASSUME NEW r \in Replicas, NEW v \in Releases, IssueToken(r, v) PROVE UsageInv'
    BY <1>3, UsageRecord DEF IssueToken
  <1>4. ASSUME NEW m \in Makers, LoadKeys(m) \/ Publish(m) \/ CutOffPublication(m)
        PROVE  UNCHANGED usageVars
    BY <1>4 DEF LoadKeys, Publish, CutOffPublication
  <1>5. ASSUME NEW m \in Makers, NEW v \in Releases, BeginPublication(m, v)
        PROVE  UNCHANGED usageVars
    BY <1>5 DEF BeginPublication
  <1>6. ASSUME NEW v \in Releases, PublishBundle(v) \/ CutOffBundle(v) \/ Redeliver(v)
        PROVE  UNCHANGED usageVars
    BY <1>6 DEF PublishBundle, CutOffBundle, Redeliver
  <1>7. ASSUME NEW r \in Replicas, HandleEvents(r) \/ Redeem(r) PROVE UNCHANGED usageVars
    BY <1>7 DEF HandleEvents, Redeem
  <1>8. ASSUME NEW r \in Replicas, NEW v \in Releases, PutRelease(r, v) PROVE UNCHANGED usageVars
    BY <1>8 DEF PutRelease
  <1>9. ASSUME NEW f \in Files, WriteFile(f) PROVE UNCHANGED usageVars
    BY <1>9 DEF WriteFile
  <1>10. CASE TokenExpires \/ Report \/ CutOffClient
    BY <1>10, UsageUnchanged DEF TokenExpires, Report, CutOffClient
  <1>11. CASE UNCHANGED vars
    BY <1>11, UsageUnchanged DEF vars
  <1>12. QED
    BY <1>1, <1>2, <1>3, <1>4, <1>5, <1>6, <1>7, <1>8, <1>9, <1>10, <1>11, UsageUnchanged DEF Next

LEMMA DeliveryEvents ==
  ASSUME S!TypeOK, EventsInv, [Next]_vars
  PROVE  EventsInv'
  <1>0. Published \subseteq Published'
    BY DeliveryStepSigns, SignedStays
  <1>1. BusInv'
    BY DeliveryStepSpreads, BusStep DEF EventsInv
  <1> DEFINE Kept == announced' = announced /\ entries' = entries
  <1>2. ASSUME NEW m \in Makers, Publish(m) PROVE EventsInv'
    <2>1. CASE UNCHANGED eventVars
      BY <1>0, <1>1, <2>1 DEF EventsInv, eventVars
    <2>2. CASE signed' # signed /\ E!Announce(maker[m].rel)
      BY <1>0, <1>1, <1>2, <2>2, SignedIsPublished DEF Publish, EventsInv, E!Announce
    <2>3. QED
      BY <1>2, <2>1, <2>2 DEF Publish, Announced
  <1>3. ASSUME NEW v \in Releases, PublishBundle(v) PROVE EventsInv'
    BY <1>0, <1>1, <1>3, SignedIsPublished
       DEF PublishBundle, Announced, EventsInv, E!Announce, eventVars
  <1>4. ASSUME NEW r \in Replicas, HandleEvents(r) PROVE EventsInv'
    <2>1. CASE E!Apply(r)
      BY <1>0, <1>1, <2>1, EventDealtWith DEF EventsInv, E!Apply, BusInv, E!TypeOK
    <2>2. CASE E!Consume(r) \/ E!Skip(r) \/ E!Fail(r)
      BY <1>0, <1>1, <2>2 DEF EventsInv, E!Consume, E!Skip, E!Fail
    <2>3. QED
      BY <1>4, <2>1, <2>2 DEF HandleEvents, E!ConsumerStep
  <1>5. ASSUME NEW r \in Replicas, NEW v \in Releases, PutRelease(r, v) PROVE EventsInv'
    BY <1>0, <1>1, <1>5 DEF PutRelease, EventsInv, E!Put, BusInv, E!TypeOK
  <1>6. ASSUME NEW r \in Replicas, Restart(r) PROVE EventsInv'
    BY <1>0, <1>1, <1>6 DEF Restart, EventsInv, E!Bootstrap, BusInv, E!TypeOK
  <1>7. ASSUME NEW v \in Releases, Redeliver(v) PROVE Kept
    BY <1>7 DEF Redeliver, E!Redeliver
  <1>8. ASSUME NEW m \in Makers, LoadKeys(m) \/ CutOffPublication(m) PROVE Kept
    BY <1>8 DEF LoadKeys, CutOffPublication, eventVars
  <1>9. ASSUME NEW m \in Makers, NEW v \in Releases, BeginPublication(m, v) PROVE Kept
    BY <1>9 DEF BeginPublication, eventVars
  <1>z. ASSUME NEW v \in Releases, CutOffBundle(v) PROVE Kept
    BY <1>z DEF CutOffBundle, eventVars
  <1>10. ASSUME NEW r \in Replicas, FlushUsage(r) \/ Redeem(r) PROVE Kept
    BY <1>10 DEF FlushUsage, Redeem, eventVars
  <1>11. ASSUME NEW r \in Replicas, NEW v \in Releases, IssueToken(r, v) PROVE Kept
    BY <1>11 DEF IssueToken, eventVars
  <1>12. ASSUME NEW f \in Files, WriteFile(f) PROVE Kept
    BY <1>12 DEF WriteFile, eventVars
  <1>13. CASE TokenExpires \/ Report \/ CutOffClient
    BY <1>0, <1>1, <1>13 DEF TokenExpires, Report, CutOffClient, EventsInv, eventVars
  <1>14. CASE UNCHANGED vars
    BY <1>0, <1>1, <1>14 DEF vars, EventsInv, eventVars
  <1>15. Kept => EventsInv'
    BY <1>0, <1>1 DEF EventsInv
  <1>16. QED
    BY <1>2, <1>3, <1>4, <1>5, <1>6, <1>7, <1>8, <1>z, <1>9, <1>10, <1>11, <1>12, <1>13, <1>14, <1>15
       DEF Next

LEMMA SpendTyped ==
  ASSUME NEW costs, left \in [Costs -> Nat], Spend(costs)
  PROVE  left' \in [Costs -> Nat]
  <1>1. \A c \in Costs : c \in costs => left[c] - 1 \in Nat
    BY DEF Spend
  <1>2. QED
    BY <1>1 DEF Spend

\* The steps of publications, replicas and their stores leave the client alone.
LEMMA ClientUntouched ==
  ASSUME ClientInv, [S!Next]_S!vars, UNCHANGED <<clientVars, recheck>>, left' \in [Costs -> Nat],
         partial' \subseteq Releases, partial \subseteq partial'
  PROVE  ClientInv'
  <1>1. \A v \in Releases : signed[v] # None => signed'[v] = signed[v]
    BY SignedStays
  <1>2. Published \subseteq Published'
    BY SignedStays
  <1>3. UNCHANGED <<token, known, client, dest, installs, recheck>>
    BY DEF clientVars
  <1>4. client.pc \in {"write", "done"} => signed'[token] = signed[token]
    BY <1>1 DEF ClientInv, Published
  <1>5. Complete' => Complete
    BY <1>3 DEF Complete
  <1>6. QED
    BY <1>2, <1>3, <1>4, <1>5 DEF ClientInv

LEMMA ClientIssued ==
  ASSUME EventsInv, ClientInv, NEW r \in Replicas, NEW v \in Releases, IssueToken(r, v)
  PROVE  ClientInv'
  <1>1. left' \in [Costs -> Nat]
    BY SpendTyped DEF IssueToken, ClientInv
  <1>2. v \in Published
    BY DEF IssueToken, EventsInv, BusInv, E!TypeOK
  <1>3. client' \in Client /\ client'.pc = "redeem"
    BY DEF IssueToken, Idle, Client
  <1>4. token' = v /\ known' = {r} /\ UNCHANGED <<signed, dest, installs, recheck, partial>>
    BY DEF IssueToken, signingVars, setting
  <1>5. Published' = Published /\ v # None
    BY <1>4, DeliveryAssumption DEF Published, S!SigningAssumption
  <1>6. QED
    BY <1>1, <1>2, <1>3, <1>4, <1>5 DEF ClientInv

LEMMA ClientRedeemed ==
  ASSUME S!TypeOK, ClientInv, NEW q \in Replicas, Redeem(q)
  PROVE  ClientInv'
  <1>1. token \in Releases /\ token \in Published
    BY DEF Redeem, ClientInv
  <1>2. FilesOf[token] \subseteq Files
    BY <1>1, DeliveryAssumption
  <1>3. client' \in Client
    BY <1>1, <1>2 DEF Redeem, Idle, Client
  <1>4. signed[token] \in {Sigstore} \union Makers
    BY <1>1 DEF Published, S!TypeOK
  <1>5. ASSUME NEW files \in SUBSET FilesOf[token], Rechecked(token),
               files # FilesOf[token] => token \in partial,
               client' = [pc |-> "write", rel |-> token, todo |-> files]
        PROVE  ClientInv'
    <2>1. signed[token] \in IF recheck THEN {Sigstore} ELSE {Sigstore} \union Makers
      BY <1>4, <1>5 DEF Rechecked
    <2>2. Complete => files = FilesOf[token]
      BY <1>5 DEF Rechecked, Complete
    <2>3. Complete' = Complete
      BY DEF Redeem, setting, Complete
    <2>4. QED
      BY <1>1, <1>3, <1>5, <2>1, <2>2, <2>3 DEF Redeem, ClientInv, Published, signingVars, setting
  <1>6. CASE client' = Idle
    BY <1>3, <1>6 DEF Redeem, ClientInv, Published, signingVars, setting, Idle
  <1>7. QED
    BY <1>5, <1>6 DEF Redeem

LEMMA ClientWrites ==
  ASSUME ClientInv, NEW f \in Files, WriteFile(f)
  PROVE  ClientInv'
  <1>1. client' \in Client /\ client'.pc = "write" /\ client'.rel = client.rel
        /\ client'.todo = client.todo \ {f}
    BY DEF WriteFile, ClientInv, Client
  <1>2. client.rel = token /\ token \in Releases
    BY DEF WriteFile, ClientInv
  <1>3. dest' = [dest EXCEPT ![f] = token] /\ dest \in [Files -> Releases \union {None}]
    BY <1>2 DEF WriteFile, ClientInv
  <1>4. FilesOf[token] \subseteq Files
    BY <1>2, DeliveryAssumption
  <1>5. Complete => \A g \in FilesOf[token] \ client'.todo : dest'[g] = token
    BY <1>1, <1>3, <1>4 DEF WriteFile, ClientInv
  <1>6. Complete' = Complete
    BY DEF WriteFile, setting, Complete
  <1>7. QED
    BY <1>1, <1>2, <1>3, <1>5, <1>6 DEF WriteFile, ClientInv, Published, signingVars, setting

LEMMA DeliveryClient ==
  ASSUME S!TypeOK, EventsInv, ClientInv, [Next]_vars
  PROVE  ClientInv'
  <1>0. [S!Next]_S!vars /\ left \in [Costs -> Nat]
    BY DeliveryStepSigns DEF ClientInv
  <1>1. ASSUME NEW m \in Makers, LoadKeys(m) \/ Publish(m) \/ CutOffPublication(m)
        PROVE  ClientInv'
    <2>1. left' \in [Costs -> Nat]
      BY <1>0, <1>1, SpendTyped DEF LoadKeys, Publish, CutOffPublication, Announced, Free
    <2>2. UNCHANGED <<clientVars, recheck>> /\ partial \subseteq partial'
      BY <1>1 DEF LoadKeys, Publish, CutOffPublication, Abandons, setting
    <2>3. partial' \subseteq Releases
      <3>1. S!At(m, "publish") => maker[m].rel \in Releases
        BY DEF S!TypeOK, S!Maker, S!NoWork, S!Work, S!At
      <3>2. QED
        BY <1>1, <3>1 DEF LoadKeys, Publish, CutOffPublication, Abandons, setting, ClientInv
    <2>4. QED
      BY <1>0, <2>1, <2>2, <2>3, ClientUntouched
  <1>z. ASSUME NEW v \in Releases, CutOffBundle(v) PROVE ClientInv'
    <2>1. left' \in [Costs -> Nat]
      BY <1>0, <1>z, SpendTyped DEF CutOffBundle
    <2>2. UNCHANGED <<clientVars, recheck>> /\ partial' = partial \union {v}
      BY <1>z DEF CutOffBundle, Abandons
    <2>3. QED
      BY <1>0, <2>1, <2>2, ClientUntouched DEF ClientInv
  <1>s. UNCHANGED setting => recheck' = recheck /\ partial \subseteq partial' /\ partial' \subseteq Releases
    BY DEF setting, ClientInv
  <1>2. ASSUME NEW m \in Makers, NEW v \in Releases, BeginPublication(m, v) PROVE ClientInv'
    BY <1>0, <1>s, <1>2, SpendTyped, ClientUntouched DEF BeginPublication
  <1>3. ASSUME NEW v \in Releases, PublishBundle(v) \/ Redeliver(v) PROVE ClientInv'
    <2>1. left' \in [Costs -> Nat]
      BY <1>0, <1>3, SpendTyped DEF PublishBundle, Redeliver, Announced
    <2>2. QED
      BY <1>0, <1>s, <1>3, <2>1, ClientUntouched DEF PublishBundle, Redeliver
  <1>4. ASSUME NEW r \in Replicas, HandleEvents(r) \/ FlushUsage(r) PROVE ClientInv'
    <2>1. left' \in [Costs -> Nat]
      BY <1>0, <1>4, SpendTyped DEF HandleEvents, FlushUsage, Free
    <2>2. QED
      BY <1>0, <1>s, <1>4, <2>1, ClientUntouched DEF HandleEvents, FlushUsage
  <1>5. ASSUME NEW r \in Replicas, Restart(r) PROVE ClientInv'
    <2>1. left' \in [Costs -> Nat]
      BY <1>0, <1>5, SpendTyped DEF Restart
    <2>2. QED
      BY <1>5, <2>1 DEF Restart, ClientInv, Complete, Published, signingVars, setting
  <1>6. ASSUME NEW r \in Replicas, NEW v \in Releases, PutRelease(r, v) PROVE ClientInv'
    BY <1>0, <1>s, <1>6, SpendTyped, ClientUntouched DEF PutRelease
  <1>7. CASE TokenExpires
    BY <1>7 DEF TokenExpires, ClientInv, Complete, Published, signingVars, setting
  <1>8. CASE Report
    <2>1. client' \in Client /\ client'.pc = "done" /\ client'.rel = client.rel
          /\ client'.todo = {} /\ client.todo = {} /\ client.pc = "write"
      BY <1>8 DEF Report, ClientInv, Client
    <2>2. installs' \in Nat
      BY <1>8 DEF Report, ClientInv
    <2>3. QED
      BY <1>8, <2>1, <2>2 DEF Report, ClientInv, Complete, Published, signingVars, setting
  <1>9. CASE CutOffClient
    <2>1. left' \in [Costs -> Nat] /\ client' = Idle /\ Idle \in Client
      BY <1>0, <1>9, SpendTyped DEF CutOffClient, Idle, Client
    <2>2. QED
      BY <1>9, <2>1 DEF CutOffClient, ClientInv, Published, signingVars, setting, Idle
  <1>10. CASE UNCHANGED vars
    BY <1>0, <1>s, <1>10, ClientUntouched DEF vars
  <1>11. QED
    BY <1>1, <1>z, <1>2, <1>3, <1>4, <1>5, <1>6, <1>7, <1>8, <1>9, <1>10,
       ClientIssued, ClientRedeemed, ClientWrites DEF Next

LEMMA DeliveryCommands ==
  ASSUME UsageInv, ClientInv, CommandsAreCounted, [Next]_vars
  PROVE  CommandsAreCounted'
  <1>0. issued \in Nat /\ installs \in Nat
    BY UsageNumbers DEF ClientInv
  <1> USE DEF CommandsAreCounted
  <1>1. ASSUME NEW r \in Replicas, NEW v \in Releases, IssueToken(r, v)
        PROVE  CommandsAreCounted'
    <2>1. issued' = issued + 1 /\ installs' = installs /\ client'.pc = "redeem"
          /\ client.pc \in {"idle", "done"}
      BY <1>1 DEF IssueToken, U!Record, Idle
    <2>2. QED
      BY <1>0, <2>1
  <1>2. ASSUME NEW r \in Replicas, Redeem(r) PROVE CommandsAreCounted'
    <2>1. issued' = issued /\ installs' = installs /\ client.pc = "redeem"
      BY <1>2 DEF Redeem, usageVars
    <2>2. QED
      BY <1>0, <2>1
  <1>3. ASSUME NEW f \in Files, WriteFile(f) PROVE CommandsAreCounted'
    <2>1. issued' = issued /\ installs' = installs /\ client.pc = "write" /\ client'.pc = "write"
      BY <1>3 DEF WriteFile, usageVars, ClientInv, Client
    <2>2. QED
      BY <1>0, <2>1
  <1>4. CASE Report
    <2>1. issued' = issued /\ installs' = installs + 1 /\ client.pc = "write" /\ client'.pc = "done"
      BY <1>4 DEF Report, usageVars, ClientInv, Client
    <2>2. QED
      BY <1>0, <2>1
  <1>5. CASE CutOffClient
    <2>1. issued' = issued /\ installs' = installs /\ client'.pc = "idle"
      BY <1>5 DEF CutOffClient, usageVars, Idle
    <2>2. QED
      BY <1>0, <2>1
  <1>6. CASE \E r \in Replicas : FlushUsage(r) \/ Restart(r)
    <2>1. UNCHANGED <<issued, installs, client>>
      BY <1>6 DEF FlushUsage, Restart, U!FlushStep, U!Drain, U!ReadCounts, U!OpenCounts,
                  U!WriteCounts, U!Restart, clientVars
    <2>2. QED
      BY <2>1
  <1>7. CASE \E m \in Makers : LoadKeys(m) \/ Publish(m) \/ CutOffPublication(m)
    BY <1>7 DEF LoadKeys, Publish, CutOffPublication, usageVars, clientVars
  <1>8. CASE \E m \in Makers, v \in Releases : BeginPublication(m, v)
    BY <1>8 DEF BeginPublication, usageVars, clientVars
  <1>9. CASE \E v \in Releases : PublishBundle(v) \/ CutOffBundle(v) \/ Redeliver(v)
    BY <1>9 DEF PublishBundle, CutOffBundle, Redeliver, usageVars, clientVars
  <1>10. CASE \E r \in Replicas : HandleEvents(r)
    BY <1>10 DEF HandleEvents, usageVars, clientVars
  <1>11. CASE \E r \in Replicas, v \in Releases : PutRelease(r, v)
    BY <1>11 DEF PutRelease, usageVars, clientVars
  <1>12. CASE TokenExpires \/ UNCHANGED vars
    BY <1>12 DEF TokenExpires, vars, usageVars, clientVars
  <1>13. QED
    BY <1>1, <1>2, <1>3, <1>4, <1>5, <1>6, <1>7, <1>8, <1>9, <1>10, <1>11, <1>12 DEF Next

LEMMA DeliveryInit == Init => DeliveryInv
  <1> SUFFICES ASSUME Init PROVE DeliveryInv
    OBVIOUS
  <1>1. KeyInv
    BY DeliveryAssumption, SigningInitTyped, SigningInitConsistent DEF Init, KeyInv
  <1>2. UsageInv /\ EventsInv
    BY UsageInit, BusInit DEF Init, EventsInv, E!Init, Published
  <1>3. left \in [Costs -> Nat] /\ Idle \in Client
    BY DeliveryAssumption DEF Init, Idle, Client
  <1>4. ClientInv
    BY <1>3 DEF Init, ClientInv, Idle
  <1>5. CommandsAreCounted
    BY DEF Init, U!Init, CommandsAreCounted, Idle
  <1>6. QED
    BY <1>1, <1>2, <1>4, <1>5 DEF DeliveryInv

\* The parts, and what a client has of them, are consistent forever.
THEOREM DeliveryInvariant == Spec => []DeliveryInv
  <1>1. DeliveryInv /\ [Next]_vars => DeliveryInv'
    <2> SUFFICES ASSUME DeliveryInv, [Next]_vars PROVE DeliveryInv'
      OBVIOUS
    <2>1. S!SigningAssumption /\ [S!Next]_S!vars
      BY DeliveryAssumption, DeliveryStepSigns
    <2>2. KeyInv' /\ S!TypeOK
      BY <2>1, SigningStepTyped, SigningStepConsistent, ClashStays DEF DeliveryInv, KeyInv
    <2>3. QED
      BY <2>2, DeliveryCounts, DeliveryEvents, DeliveryClient, DeliveryCommands DEF DeliveryInv
  <1>2. QED
    BY DeliveryInit, <1>1, PTL DEF Spec

\* Delivery implements IndexEvents: whatever is published and restarted, the bus
\* and its consumers take the steps of that module.
THEOREM DeliverySpreads == Spec => E!Spec
  <1>1. Init => E!Init
    BY DEF Init
  <1>2. DeliveryInv /\ [Next]_vars => [E!Next]_E!vars
    BY DeliveryStepSpreads DEF DeliveryInv, KeyInv
  <1>3. QED
    BY <1>1, <1>2, DeliveryInvariant, PTL DEF Spec, E!Spec

\* Keys, events, counts and the client's files keep their types: a count never
\* exceeds what its field is bounded by, however flushes overlap.
THEOREM DeliveryTyped == Spec => []TypeOK
  <1>1. DeliveryInv => TypeOK
    BY DEF DeliveryInv, KeyInv, UsageInv, EventsInv, BusInv, ClientInv, TypeOK
  <1>2. QED
    BY <1>1, DeliveryInvariant, PTL

\* No announcement is lost, through retries, second deliveries and restarts, and
\* a consumer never passes over a release that its index lacks.
THEOREM NoAnnouncementIsLost == Spec => []EventsAreAccounted
  <1>1. DeliveryInv => EventsAreAccounted
    BY DEF DeliveryInv, EventsInv, BusInv, EventsAreAccounted
  <1>2. QED
    BY <1>1, DeliveryInvariant, PTL

\* The usage file never says more than was downloaded; as long as no two flushes
\* overlapped and no restart cut one off, with what is in memory it says exactly
\* how much was.
THEOREM UsageCountsAreHonest == Spec => []UsageIsHonest
  <1>1. DeliveryInv => UsageIsHonest
    <2> SUFFICES ASSUME DeliveryInv PROVE UsageIsHonest
      OBVIOUS
    <2>1. U!UsageIsHonest
      BY UsageHonest DEF DeliveryInv
    <2>2. installs <= issued
      <3>1. installs \in Nat /\ issued \in Nat
        BY UsageNumbers DEF DeliveryInv, ClientInv
      <3>2. QED
        BY <3>1 DEF DeliveryInv, CommandsAreCounted
    <2>3. QED
      BY <2>1, <2>2 DEF UsageIsHonest
  <1>2. QED
    BY <1>1, DeliveryInvariant, PTL

\* When a command reports success, every file of the release its token was issued
\* for is in its place, and that release's signature was good; without the recheck,
\* unless its archive was left incomplete.
THEOREM InstalledIsWhatWasResolved == Spec => []InstallIsTheRelease
  <1>1. DeliveryInv => InstallIsTheRelease
    <2> SUFFICES ASSUME DeliveryInv, client.pc = "done" PROVE InstallIsTheRelease
      BY DEF InstallIsTheRelease
    <2>1. client.rel = token /\ token \in Releases
          /\ (Complete => \A f \in FilesOf[token] : dest[f] = token)
          /\ signed[token] \in IF recheck THEN {Sigstore} ELSE {Sigstore} \union Makers
      BY DEF DeliveryInv, ClientInv
    <2>2. ~clash => signed[token] \in {Sigstore, trusted}
      BY <2>1 DEF DeliveryInv, KeyInv, Consistent, KeysAgree
    <2>3. QED
      BY <2>1, <2>2 DEF InstallIsTheRelease, Complete
  <1>2. QED
    BY <1>1, DeliveryInvariant, PTL

\* Unless two first publications made a key at once, every release the registry
\* signed verifies against the registered key, and none was refused.
THEOREM DeliverySignaturesHold == Spec => []SignaturesHold
  <1>1. S!SigningAssumption
    BY DeliveryAssumption
  <1>2. S!Spec => []S!SignaturesHold
    BY <1>1, SigningSafe
  <1>3. S!SignaturesHold => SignaturesHold
    BY DEF SignaturesHold
  <1>4. QED
    BY <1>2, <1>3, DeliverySigns, PTL
=============================================================================
