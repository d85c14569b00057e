------------------------- MODULE CertificationProofs -------------------------
(***************************************************************************)
(* What a certification attests and a scan covers, for any number of       *)
(* checks, custom rules, catalogs, redeployments and handler threads.      *)
(***************************************************************************)
EXTENDS Certification, TLAPS

USE CatalogAssumptions

(* Stages of a request that has read the policy, and that has resolved     *)
(* every id applied.                                                       *)
PolicyRead == {"resolve", "refetch", "scan", "done"}
AllResolved == {"refetch", "scan", "done"}

(* What a request has gathered by the stage it is at, when the policies in *)
(* ps have been in force since it began.                                   *)
Gathered(r, ps) ==
  /\ r.at = "fetch" => r.op # "none"
  /\ r.at \in {"fetch", "policy"} => r.todo = r.ask
  /\ r.at = "policy" => r.op \in {"publish", "validate"}
  /\ r.at \in PolicyRead =>
       /\ r.op \in {"publish", "validate"}
       /\ r.ask \ r.todo \subseteq r.enabled \union r.custom
       /\ \E p \in ps, c \in Catalogs : Baseline(p, c) \subseteq r.enabled
  /\ r.at \in AllResolved => r.todo = {}
  /\ r.at = "done" =>
       /\ (r.enabled \intersect r.by.ids) \union r.by.mandatory \union r.custom = r.ran
       /\ r.found \subseteq r.ran

(* The inductive invariant: what is attested in the end rests on what was  *)
(* gathered some stages, and maybe a redeployment, earlier.                *)
IInv ==
  /\ TypeOK
  /\ \A t \in Threads : Gathered(req[t], baselines[t])

-----------------------------------------------------------------------------
(* The loop over the levels has a value at each of them, computed from the *)
(* one below: the recursion is well founded, there being four levels.      *)
LEMMA LoopUnfolds ==
  ASSUME NEW r
  PROVE  HighestUpTo(r) =
           [l \in 0 .. 4 |->
              IF l = 0 THEN 0
              ELSE IF HighestUpTo(r)[l - 1] = l - 1 /\ LevelStatus(r, l) = "certified"
                   THEN l ELSE HighestUpTo(r)[l - 1]]
<1> DEFINE up(h, l) == IF h = l - 1 /\ LevelStatus(r, l) = "certified" THEN l ELSE h
           h1 == up(0, 1)
           h2 == up(h1, 2)
           h3 == up(h2, 3)
           h4 == up(h3, 4)
           loop == [l \in 0 .. 4 |-> IF l = 0 THEN 0 ELSE IF l = 1 THEN h1
                                     ELSE IF l = 2 THEN h2 ELSE IF l = 3 THEN h3 ELSE h4]
           IsLoop(f) == f = [l \in 0 .. 4 |->
                               IF l = 0 THEN 0
                               ELSE IF f[l - 1] = l - 1 /\ LevelStatus(r, l) = "certified"
                                    THEN l ELSE f[l - 1]]
<1>1. \A l \in 0 .. 4 :
        loop[l] = IF l = 0 THEN 0
                  ELSE IF loop[l - 1] = l - 1 /\ LevelStatus(r, l) = "certified"
                       THEN l ELSE loop[l - 1]
  <2>1. loop[0] = 0 /\ loop[1] = h1 /\ loop[2] = h2 /\ loop[3] = h3 /\ loop[4] = h4
    <3> HIDE DEF h1, h2, h3, h4
    <3> QED
      BY SMT
  <2> HIDE DEF loop
  <2> SUFFICES ASSUME NEW l \in 0 .. 4
               PROVE  loop[l] = IF l = 0 THEN 0
                                ELSE IF loop[l - 1] = l - 1 /\ LevelStatus(r, l) = "certified"
                                     THEN l ELSE loop[l - 1]
    OBVIOUS
  <2>2. l = 0 \/ l = 1 \/ l = 2 \/ l = 3 \/ l = 4
    BY SMT
  <2> QED
    BY <2>1, <2>2, SMT
<1>2. IsLoop(loop)
  <2> HIDE DEF h1, h2, h3, h4
  <2> QED
    BY <1>1
<1>3. IsLoop(CHOOSE f : IsLoop(f))
  <2> HIDE DEF IsLoop, loop
  <2> QED
    BY <1>2
<1>4. HighestUpTo(r) = CHOOSE f : IsLoop(f)
  BY DEF HighestUpTo
<1> HIDE DEF loop
<1> QED
  BY <1>3, <1>4

(* The highest certified level is the top of an unbroken run from level 1. *)
LEMMA HighestIsContiguous ==
  ASSUME NEW r
  PROVE  LET h == HighestCertified(r) IN
         /\ h \in 0 .. 4
         /\ \A l \in 1 .. h : LevelStatus(r, l) = "certified"
         /\ h < 4 => LevelStatus(r, h + 1) # "certified"
<1> DEFINE f == HighestUpTo(r)
           certified(l) == LevelStatus(r, l) = "certified"
<1>0. \A l \in 0 .. 4 :
        f[l] = IF l = 0 THEN 0
               ELSE IF f[l - 1] = l - 1 /\ certified(l) THEN l ELSE f[l - 1]
  <2> HIDE DEF f, certified
  <2>1. f = [l \in 0 .. 4 |-> IF l = 0 THEN 0
                              ELSE IF f[l - 1] = l - 1 /\ certified(l) THEN l ELSE f[l - 1]]
    BY LoopUnfolds DEF f, certified
  <2> QED
    BY <2>1
<1> HIDE DEF f, certified
<1>1. /\ f[0] = 0
      /\ f[1] = IF f[0] = 0 /\ certified(1) THEN 1 ELSE f[0]
      /\ f[2] = IF f[1] = 1 /\ certified(2) THEN 2 ELSE f[1]
      /\ f[3] = IF f[2] = 2 /\ certified(3) THEN 3 ELSE f[2]
      /\ f[4] = IF f[3] = 3 /\ certified(4) THEN 4 ELSE f[3]
  BY <1>0, SMT
<1>2. /\ f[4] \in 0 .. 4
      /\ \A l \in 1 .. f[4] : certified(l)
      /\ f[4] < 4 => ~certified(f[4] + 1)
  <2>1. \/ f[4] = 0 /\ ~certified(1)
        \/ f[4] = 1 /\ certified(1) /\ ~certified(2)
        \/ f[4] = 2 /\ certified(1) /\ certified(2) /\ ~certified(3)
        \/ f[4] = 3 /\ certified(1) /\ certified(2) /\ certified(3) /\ ~certified(4)
        \/ f[4] = 4 /\ certified(1) /\ certified(2) /\ certified(3) /\ certified(4)
    BY <1>1, SMT
  <2>2. \A n \in 0 .. 4 : \A l \in 1 .. n : l = 1 \/ (l = 2 /\ n > 1) \/ (l = 3 /\ n > 2) \/ (l = 4 /\ n = 4)
    BY SMT
  <2> QED
    BY <2>1, <2>2, SMT
<1> QED
  BY <1>2 DEF f, certified, HighestCertified

-----------------------------------------------------------------------------
(* The records requests are made of: blank ones, and those in use.         *)
LEMMA RequestFacts ==
  /\ \A op \in {"none", "publish", "validate", "policy"}, at \in {"idle", "fetch"},
        ask \in SUBSET Ids :
       /\ Asked(op, at, ask) \in Request
       /\ Asked(op, at, ask).at = at /\ Asked(op, at, ask).op = op
       /\ Asked(op, at, ask).todo = Asked(op, at, ask).ask
  /\ Idle \in Request /\ Idle.at = "idle"
<1>1. SomeCatalog \in Catalogs
  BY DEF SomeCatalog
<1>2. \A op \in {"none", "publish", "validate", "policy"}, at \in {"idle", "fetch"},
         ask \in SUBSET Ids :
        /\ Asked(op, at, ask) \in Request
        /\ Asked(op, at, ask).at = at /\ Asked(op, at, ask).op = op
        /\ Asked(op, at, ask).todo = Asked(op, at, ask).ask
       /\ Asked(op, at, ask).todo = Asked(op, at, ask).ask
  BY <1>1 DEF Asked, Request
<1> QED
  BY <1>2 DEF Idle

(* A request that goes on keeps what it had.                               *)
LEMMA GoFacts ==
  ASSUME TypeOK, NEW t \in Threads, NEW r \in Request,
         NEW stage \in {"policy", "resolve", "refetch", "scan", "done", "store"},
         Go(t, stage, r)
  PROVE  \E next \in Request :
           /\ req' = [req EXCEPT ![t] = next]
           /\ next.at = stage /\ next.op = r.op
           /\ next.ask = r.ask /\ next.todo = r.todo /\ next.cat = r.cat
           /\ next.enabled = r.enabled /\ next.custom = r.custom
           /\ next.ran = r.ran /\ next.found = r.found /\ next.by = r.by
<1> DEFINE next == [r EXCEPT !.at = stage]
<1>1. /\ next \in Request
      /\ next.at = stage /\ next.op = r.op
      /\ next.ask = r.ask /\ next.todo = r.todo /\ next.cat = r.cat
      /\ next.enabled = r.enabled /\ next.custom = r.custom
      /\ next.ran = r.ran /\ next.found = r.found /\ next.by = r.by
  BY SMT DEF Request
<1>2. req' = [req EXCEPT ![t] = next]
  BY DEF Go
<1> QED
  BY <1>1, <1>2

(* What a request has gathered stays true as more policies are seen.       *)
LEMMA GatheredStays ==
  ASSUME NEW r, NEW ps, NEW qs, ps \subseteq qs, Gathered(r, ps)
  PROVE  Gathered(r, qs)
  BY DEF Gathered

(* The history keeps, of a publication or a validation, every policy seen  *)
(* so far and the one in force.                                            *)
LEMMA HistoryFacts ==
  ASSUME TypeOK, NoteHistory, policy' \in Policy
  PROVE  /\ baselines' \in [Threads -> SUBSET Policy]
         /\ \A t \in Threads : req'[t].op \in {"publish", "validate"} =>
              baselines[t] \union {policy} \subseteq baselines'[t]
  BY DEF TypeOK, NoteHistory

(* It is enough to look at the request that moved.                         *)
LEMMA OneMoves ==
  ASSUME IInv, NoteHistory, policy' \in Policy, NEW t \in Threads, NEW r \in Request,
         req' = [req EXCEPT ![t] = r], Gathered(r, baselines'[t])
  PROVE  /\ req' \in [Threads -> Request]
         /\ \A u \in Threads : Gathered(req'[u], baselines'[u])
<1>0. TypeOK
  BY DEF IInv
<1>1. /\ req' \in [Threads -> Request] /\ req'[t] = r
      /\ \A u \in Threads \ {t} : req'[u] = req[u]
  BY <1>0 DEF TypeOK
<1>2. ASSUME NEW u \in Threads \ {t} PROVE Gathered(req'[u], baselines'[u])
  <2>1. req'[u] = req[u] /\ Gathered(req[u], baselines[u])
    BY <1>1 DEF IInv
  <2>2. CASE req[u].op \in {"publish", "validate"}
    BY <1>0, <2>1, <2>2, HistoryFacts, GatheredStays
  <2>3. CASE req[u].op \notin {"publish", "validate"}
    BY <2>1, <2>3 DEF Gathered, PolicyRead, AllResolved
  <2> QED
    BY <2>2, <2>3
<1> QED
  BY <1>1, <1>2

(* Nobody moves, but the world or the policies' history does.              *)
LEMMA NobodyMoves ==
  ASSUME IInv, NoteHistory, policy' \in Policy, UNCHANGED req
  PROVE  \A u \in Threads : Gathered(req'[u], baselines'[u])
<1> SUFFICES ASSUME NEW u \in Threads PROVE Gathered(req[u], baselines'[u])
  OBVIOUS
<1>1. Gathered(req[u], baselines[u]) /\ TypeOK
  BY DEF IInv
<1>2. CASE req[u].op \in {"publish", "validate"}
  BY <1>1, <1>2, HistoryFacts, GatheredStays
<1>3. CASE req[u].op \notin {"publish", "validate"}
  BY <1>1, <1>3 DEF Gathered, PolicyRead, AllResolved
<1> QED
  BY <1>2, <1>3

-----------------------------------------------------------------------------
(* The module starts in the invariant: nobody asks for anything.           *)
LEMMA InitIInv == Init => IInv
<1> SUFFICES ASSUME Init PROVE IInv
  OBVIOUS
<1>1. Idle \in Request /\ Idle.at = "idle"
  BY RequestFacts
<1>2. policy \in Policy
  BY DEF Init, NoPolicy, Policy
<1>3. deploys \in 0 .. MaxDeploys /\ served \in 0 .. MaxRequests
  BY SMT DEF Init
<1>4. TypeOK
  BY <1>1, <1>2, <1>3 DEF Init, TypeOK
<1>5. ASSUME NEW t \in Threads PROVE Gathered(req[t], baselines[t])
  BY <1>1 DEF Init, Gathered, PolicyRead, AllResolved
<1> QED
  BY <1>4, <1>5 DEF IInv

(* Every step of a request preserves the invariant.                        *)
LEMMA HandlerIInv ==
  ASSUME IInv, NoteHistory, NEW t \in Threads, HandlerStep(t)
  PROVE  IInv'
<1> DEFINE r == req[t]
<1>0. TypeOK /\ r \in Request /\ Gathered(r, baselines[t])
  BY DEF IInv, TypeOK
<1>i. /\ Idle \in Request /\ Idle.at = "idle"
      /\ \A ps : Gathered(Idle, ps)
  BY RequestFacts DEF Gathered, PolicyRead, AllResolved
<1>f. /\ r.ask \in SUBSET Ids /\ r.todo \in SUBSET Ids /\ r.enabled \in SUBSET Checks
      /\ r.custom \in SUBSET Slugs /\ r.cat \in Catalogs /\ catalog \in Catalogs
      /\ r.cat \in Catalog /\ catalog \in Catalog
  BY <1>0, SMT DEF Request, TypeOK
<1>c. \A c \in Catalogs : c.ids \in SUBSET Checks /\ c.mandatory \in SUBSET Checks /\ c.default \in SUBSET Checks
  BY SMT DEF Catalog
(* All of the rest that a step has to establish.                           *)
<1>q. ASSUME NEW next \in Request, req' = [req EXCEPT ![t] = next],
             policy' \in Policy, UNCHANGED <<catalog, deploys, library>>,
             served' \in 0 .. MaxRequests, Gathered(next, baselines'[t])
      PROVE  IInv'
  <2>1. /\ req' \in [Threads -> Request]
        /\ \A u \in Threads : Gathered(req'[u], baselines'[u])
    BY <1>q, OneMoves
  <2>2. baselines' \in [Threads -> SUBSET Policy]
    BY <1>0, <1>q, HistoryFacts
  <2> QED
    BY <1>0, <1>q, <2>1, <2>2 DEF IInv, TypeOK
(* Steps that move the request alone.                                      *)
<1>m. ASSUME UNCHANGED <<catalog, deploys, policy, library, served>>,
             NEW next \in Request, req' = [req EXCEPT ![t] = next],
             Gathered(next, baselines'[t])
      PROVE  IInv'
  BY <1>0, <1>m, <1>q DEF TypeOK
(* The history while a publication or validation goes on.                  *)
<1>h. ASSUME UNCHANGED policy, NEW next \in Request, req' = [req EXCEPT ![t] = next],
             next.op \in {"publish", "validate"}
      PROVE  baselines[t] \union {policy} \subseteq baselines'[t]
  BY <1>0, <1>h, HistoryFacts DEF TypeOK
<1>1. CASE Arrive(t)
  <2>1. PICK ask \in SUBSET Ids, op \in {"publish", "validate", "policy"} :
          req' = [req EXCEPT ![t] = Asked(op, "fetch", ask)]
    BY <1>1 DEF Arrive
  <2>2. Asked(op, "fetch", ask) \in Request /\ Gathered(Asked(op, "fetch", ask), baselines'[t])
    BY RequestFacts DEF Gathered, PolicyRead, AllResolved
  <2>3. served' \in 0 .. MaxRequests
    BY <1>0, <1>1, SMT DEF Arrive, TypeOK
  <2> QED
    BY <1>0, <1>1, <1>q, <2>1, <2>2, <2>3 DEF Arrive, TypeOK
<1>2. CASE Fetch(t)
  <2> DEFINE got == [r EXCEPT !.cat = catalog]
  <2>1. got \in Request /\ got.op = r.op /\ got.todo = r.todo /\ got.ask = r.ask
    BY <1>0, <1>f, SMT DEF Request
  <2> HIDE DEF got
  <2>2. CASE Finish(t)
    BY <1>2, <1>i, <1>m, <2>2 DEF Fetch, Finish
  <2>3. CASE \E stage \in {"store", "policy"} :
               Go(t, stage, got) /\ (stage = "policy" => r.op # "policy")
    <3>1. PICK next \in Request :
            /\ req' = [req EXCEPT ![t] = next] /\ next.op = r.op
            /\ next.at \in {"store", "policy"} /\ (next.at = "policy" => r.op # "policy")
            /\ next.todo = r.todo /\ next.ask = r.ask
      BY <1>0, <2>1, <2>3, GoFacts
    <3>2. r.op # "none" /\ r.op \in {"none", "publish", "validate", "policy"} /\ r.todo = r.ask
      BY <1>0, <1>2, SMT DEF Fetch, At, Gathered, Request
    <3> QED
      BY <1>2, <1>m, <3>1, <3>2 DEF Fetch, Gathered, PolicyRead, AllResolved
  <2> QED
    BY <1>2, <2>2, <2>3 DEF Fetch, got
<1>3. CASE StorePolicy(t)
  <2>1. policy' \in Policy
    <3>1. r.cat.ids \subseteq Checks
      BY <1>c, <1>f
    <3> QED
      BY <1>0, <1>3, <3>1 DEF StorePolicy, Stored, Policy, TypeOK
  <2> QED
    BY <1>0, <1>3, <1>i, <1>q, <2>1 DEF StorePolicy, Finish, TypeOK
<1>4. CASE ReadPolicy(t)
  <2> DEFINE p == policy
             base == Baseline(p, r.cat)
             got == [r EXCEPT !.enabled = base]
  <2>1. base \in SUBSET Checks
    <3>1. policy.checks \in SUBSET Checks
      BY <1>0, SMT DEF TypeOK, Policy
    <3> QED
      BY <1>c, <1>f, <3>1 DEF Baseline
  <2> HIDE DEF base
  <2>2. got \in Request /\ got.op = r.op /\ got.enabled = base /\ got.ask = r.ask /\ got.todo = r.todo
    BY <1>0, <2>1, SMT DEF Request
  <2>3. Go(t, "resolve", got)
    BY <1>4 DEF ReadPolicy, base
  <2> HIDE DEF got
  <2>4. PICK next \in Request :
          /\ req' = [req EXCEPT ![t] = next] /\ next.at = "resolve" /\ next.op = r.op
          /\ next.enabled = base /\ next.ask = r.ask /\ next.todo = r.todo
    BY <1>0, <2>2, <2>3, GoFacts
  <2>5. r.op \in {"publish", "validate"} /\ r.todo = r.ask
    BY <1>0, <1>4 DEF ReadPolicy, At, Gathered
  <2>6. UNCHANGED <<catalog, deploys, policy, library, served>>
    BY <1>4 DEF ReadPolicy
  <2>7. policy \in baselines'[t] /\ base \subseteq next.enabled /\ r.cat \in Catalogs
    BY <1>f, <1>h, <2>4, <2>5, <2>6
  <2>8. Gathered(next, baselines'[t])
    BY <2>4, <2>5, <2>7 DEF Gathered, PolicyRead, AllResolved, base
  <2> QED
    BY <1>m, <2>4, <2>6, <2>8
<1>5. CASE Resolve(t)
  <2>0. /\ UNCHANGED <<catalog, deploys, policy, library, served>>
        /\ r.at = "resolve" /\ r.op \in {"publish", "validate"}
        /\ r.ask \ r.todo \subseteq r.enabled \union r.custom
        /\ \E p \in baselines[t], c \in Catalogs : Baseline(p, c) \subseteq r.enabled
    BY <1>0, <1>5 DEF Resolve, At, Gathered, PolicyRead
(* What is enabled and adopted only grows while an id is taken off.        *)
  <2>q. ASSUME NEW i \in r.todo, NEW got \in Request, Go(t, "resolve", got), got.op = r.op,
               got.ask = r.ask, got.todo = r.todo \ {i},
               r.enabled \subseteq got.enabled, r.custom \subseteq got.custom,
               i \in got.enabled \union got.custom
        PROVE  IInv'
    <3>1. PICK next \in Request :
            /\ req' = [req EXCEPT ![t] = next] /\ next.at = "resolve" /\ next.op = r.op
            /\ next.ask = r.ask /\ next.todo = r.todo \ {i}
            /\ next.enabled = got.enabled /\ next.custom = got.custom
      BY <1>0, <2>q, GoFacts
    <3>2. baselines[t] \subseteq baselines'[t]
      BY <1>h, <2>0, <3>1
    <3>3. next.ask \ next.todo \subseteq next.enabled \union next.custom
      BY <2>0, <2>q, <3>1
    <3>4. \E p \in baselines'[t], c \in Catalogs : Baseline(p, c) \subseteq next.enabled
      BY <2>0, <2>q, <3>1, <3>2
    <3>5. Gathered(next, baselines'[t])
      BY <2>0, <3>1, <3>3, <3>4 DEF Gathered, PolicyRead, AllResolved
    <3> QED
      BY <1>m, <2>0, <3>1, <3>5
  <2>1. CASE r.todo = {} /\ \E stage \in {"refetch", "scan"} : Go(t, stage, r)
    <3>1. PICK next \in Request :
            /\ req' = [req EXCEPT ![t] = next] /\ next.at \in {"refetch", "scan"}
            /\ next.op = r.op /\ next.ask = r.ask /\ next.todo = r.todo
            /\ next.enabled = r.enabled /\ next.custom = r.custom
      BY <1>0, <2>1, GoFacts
    <3>2. baselines[t] \subseteq baselines'[t]
      BY <1>h, <2>0, <3>1
    <3>3. Gathered(next, baselines'[t])
      BY <2>0, <2>1, <3>1, <3>2 DEF Gathered, PolicyRead, AllResolved
    <3> QED
      BY <1>m, <2>0, <3>1, <3>3
  <2>2. ASSUME NEW i \in r.todo, i \in r.cat.ids, Go(t, "resolve", Enable(r, i)) PROVE IInv'
    <3> DEFINE more == [r EXCEPT !.enabled = @ \union {i}]
               got == [more EXCEPT !.todo = @ \ {i}]
    <3>1. i \in Checks
      BY <1>c, <1>f, <2>2
    <3>2. /\ more \in Request /\ more.op = r.op /\ more.ask = r.ask /\ more.todo = r.todo
          /\ more.custom = r.custom /\ more.enabled = r.enabled \union {i}
      BY <1>0, <1>f, <3>1, SMT DEF Request
    <3>3. more.todo \ {i} \in SUBSET Ids
      BY <1>f, <3>2
    <3> HIDE DEF more
    <3>4. /\ got \in Request /\ got.op = r.op /\ got.ask = r.ask /\ got.todo = r.todo \ {i}
          /\ got.custom = r.custom /\ got.enabled = r.enabled \union {i}
      BY <3>2, <3>3, SMT DEF Request
    <3>5. Go(t, "resolve", got)
      BY <2>2 DEF Enable, Resolved, more
    <3> HIDE DEF got
    <3> QED
      BY <2>q, <3>4, <3>5
  <2>3. ASSUME NEW i \in r.todo, i \in library, Go(t, "resolve", Adopt(r, i)) PROVE IInv'
    <3> DEFINE more == [r EXCEPT !.custom = @ \union {i}]
               got == [more EXCEPT !.todo = @ \ {i}]
    <3>1. i \in Slugs
      BY <1>0, <2>3 DEF TypeOK
    <3>2. /\ more \in Request /\ more.op = r.op /\ more.ask = r.ask /\ more.todo = r.todo
          /\ more.enabled = r.enabled /\ more.custom = r.custom \union {i}
      BY <1>0, <1>f, <3>1, SMT DEF Request
    <3>3. more.todo \ {i} \in SUBSET Ids
      BY <1>f, <3>2
    <3> HIDE DEF more
    <3>4. /\ got \in Request /\ got.op = r.op /\ got.ask = r.ask /\ got.todo = r.todo \ {i}
          /\ got.enabled = r.enabled /\ got.custom = r.custom \union {i}
      BY <3>2, <3>3, SMT DEF Request
    <3>5. Go(t, "resolve", got)
      BY <2>3 DEF Adopt, Resolved, more
    <3> HIDE DEF got
    <3> QED
      BY <2>q, <3>4, <3>5
  <2>4. CASE Finish(t)
    BY <1>i, <1>m, <2>0, <2>4 DEF Finish
  <2> QED
    BY <1>5, <2>1, <2>2, <2>3, <2>4 DEF Resolve
<1>6. CASE Refetch(t)
  <2> DEFINE got == [r EXCEPT !.cat = catalog]
  <2>0. /\ UNCHANGED <<catalog, deploys, policy, library, served>>
        /\ r.at = "refetch" /\ r.op \in {"publish", "validate"} /\ r.todo = {}
        /\ r.ask \ r.todo \subseteq r.enabled \union r.custom
        /\ \E p \in baselines[t], c \in Catalogs : Baseline(p, c) \subseteq r.enabled
    BY <1>0, <1>6 DEF Refetch, At, Gathered, PolicyRead, AllResolved
  <2>1. /\ got \in Request /\ got.op = r.op /\ got.ask = r.ask /\ got.todo = r.todo
        /\ got.enabled = r.enabled /\ got.custom = r.custom
    BY <1>0, <1>f, SMT DEF Request
  <2> HIDE DEF got
  <2>2. CASE Go(t, "scan", got)
    <3>1. PICK next \in Request :
            /\ req' = [req EXCEPT ![t] = next] /\ next.at = "scan" /\ next.op = r.op
            /\ next.ask = r.ask /\ next.todo = r.todo
            /\ next.enabled = r.enabled /\ next.custom = r.custom
      BY <1>0, <2>1, <2>2, GoFacts
    <3>2. baselines[t] \subseteq baselines'[t]
      BY <1>h, <2>0, <3>1
    <3>3. Gathered(next, baselines'[t])
      BY <2>0, <3>1, <3>2 DEF Gathered, PolicyRead, AllResolved
    <3> QED
      BY <1>m, <2>0, <3>1, <3>3
  <2>3. CASE Finish(t)
    BY <1>i, <1>m, <2>0, <2>3 DEF Finish
  <2> QED
    BY <1>6, <2>2, <2>3 DEF Refetch, got
<1>7. CASE Scan(t)
  <2> DEFINE ran == Executed(r)
  <2>0. /\ UNCHANGED <<catalog, deploys, policy, library, served>>
        /\ r.at = "scan" /\ r.op \in {"publish", "validate"} /\ r.todo = {}
        /\ r.ask \ r.todo \subseteq r.enabled \union r.custom
        /\ \E p \in baselines[t], c \in Catalogs : Baseline(p, c) \subseteq r.enabled
    BY <1>0, <1>7 DEF Scan, At, Gathered, PolicyRead, AllResolved
  <2>1. ran \in SUBSET Ids
    BY <1>c, <1>f DEF Executed, Ids
  <2>2. ASSUME NEW found \in SUBSET ran, Go(t, "done", Judged(r, found)) PROVE IInv'
    <3> HIDE DEF ran
    <3> DEFINE one == [r EXCEPT !.ran = ran]
               two == [one EXCEPT !.found = found]
               got == [two EXCEPT !.by = catalog]
    <3>1. /\ one \in Request /\ one.op = r.op /\ one.ask = r.ask /\ one.todo = r.todo
          /\ one.enabled = r.enabled /\ one.custom = r.custom /\ one.ran = ran
      BY <1>0, <2>1, SMT DEF Request
    <3>2. found \in SUBSET Ids
      BY <2>1
    <3> HIDE DEF one
    <3>3. /\ two \in Request /\ two.op = r.op /\ two.ask = r.ask /\ two.todo = r.todo
          /\ two.enabled = r.enabled /\ two.custom = r.custom /\ two.ran = ran
          /\ two.found = found
      BY <3>1, <3>2, SMT DEF Request
    <3> HIDE DEF two
    <3>4. /\ got \in Request /\ got.op = r.op /\ got.ask = r.ask /\ got.todo = r.todo
          /\ got.enabled = r.enabled /\ got.custom = r.custom /\ got.ran = ran
          /\ got.found = found /\ got.by = catalog
      BY <1>f, <3>3, SMT DEF Request
    <3>5. Go(t, "done", got)
      BY <2>2 DEF Judged, one, two, ran
    <3> HIDE DEF got
    <3>6. PICK next \in Request :
            /\ req' = [req EXCEPT ![t] = next] /\ next.at = "done" /\ next.op = r.op
            /\ next.ask = r.ask /\ next.todo = r.todo
            /\ next.enabled = r.enabled /\ next.custom = r.custom
            /\ next.ran = ran /\ next.found = found /\ next.by = catalog
      BY <1>0, <3>4, <3>5, GoFacts
    <3>7. baselines[t] \subseteq baselines'[t]
      BY <1>h, <2>0, <3>6
    <3>8. (next.enabled \intersect next.by.ids) \union next.by.mandatory \union next.custom = next.ran
      BY <3>6 DEF ran, Executed
    <3>9. Gathered(next, baselines'[t])
      BY <2>0, <3>6, <3>7, <3>8 DEF Gathered, PolicyRead, AllResolved
    <3> QED
      BY <1>m, <2>0, <3>6, <3>9
  <2>3. CASE Finish(t)
    BY <1>i, <1>m, <2>0, <2>3 DEF Finish
  <2> QED
    BY <1>7, <2>2, <2>3 DEF Scan
<1>8. CASE Answer(t)
  BY <1>8, <1>i, <1>m DEF Answer, Finish
<1> QED
  BY <1>1, <1>2, <1>3, <1>4, <1>5, <1>6, <1>7, <1>8 DEF HandlerStep

(* So does a redeployment, and a change of the rules.                      *)
LEMMA OutsideIInv ==
  ASSUME IInv, NoteHistory, (\E s \in Slugs : ChangeLibrary(s)) \/ Redeploy
  PROVE  IInv'
<1>0. TypeOK /\ UNCHANGED <<req, policy>>
  BY DEF IInv, ChangeLibrary, Redeploy
<1>1. catalog' \in Catalogs /\ library' \in SUBSET Slugs
  BY <1>0 DEF ChangeLibrary, Redeploy, TypeOK
<1>2. deploys' \in 0 .. MaxDeploys /\ served' \in 0 .. MaxRequests
  BY <1>0, SMT DEF ChangeLibrary, Redeploy, TypeOK
<1>3. policy' \in Policy
  BY <1>0 DEF TypeOK
<1>4. baselines' \in [Threads -> SUBSET Policy]
  BY <1>0, <1>3, HistoryFacts
<1>5. \A u \in Threads : Gathered(req'[u], baselines'[u])
  BY <1>0, <1>3, NobodyMoves
<1> QED
  BY <1>0, <1>1, <1>2, <1>3, <1>4, <1>5 DEF IInv, TypeOK

(* The invariant is inductive.                                             *)
LEMMA NextIInv == IInv /\ [Next]_vars => IInv'
<1> SUFFICES ASSUME IInv, [Next]_vars PROVE IInv'
  OBVIOUS
<1>1. CASE Next
  BY <1>1, HandlerIInv, OutsideIInv DEF Next
<1>2. CASE UNCHANGED vars
  BY <1>2 DEF vars, IInv, TypeOK
<1> QED
  BY <1>1, <1>2

(* The inductive invariant holds in every reachable state.                 *)
LEMMA InvariantHolds == Spec => []IInv
<1>1. Init => IInv
  BY InitIInv
<1>2. IInv /\ [Next]_vars => IInv'
  BY NextIInv
<1> QED
  BY <1>1, <1>2, PTL DEF Spec

(* Policies, catalogs, rules and requests keep their types: only checks of *)
(* the catalog the service has answered with ever enter the policy file.   *)
THEOREM TypeCorrect == Spec => []TypeOK
<1>1. IInv => TypeOK
  BY DEF IInv
<1> QED
  BY <1>1, InvariantHolds, PTL

(* A certified level was executed and found clean, and the highest one is  *)
(* the top of an unbroken run: a publication attests what it passed.       *)
THEOREM CertificatesAreEarned == Spec => []CertificationIsEarned
<1>1. IInv => CertificationIsEarned
  <2> SUFFICES ASSUME IInv, NEW t \in Threads, At(t, "done")
               PROVE  /\ req[t].by = req[t].cat =>
                           \A l \in Levels : LevelStatus(req[t], l) = "certified" =>
                             LevelIds(req[t].cat, l) \subseteq req[t].ran \ req[t].found
                      /\ LET h == HighestCertified(req[t]) IN
                         /\ \A l \in 1 .. h : LevelStatus(req[t], l) = "certified"
                         /\ h < 4 => LevelStatus(req[t], h + 1) # "certified"
    BY DEF CertificationIsEarned
  <2> DEFINE r == req[t]
  <2>1. r.ran = (r.enabled \intersect r.by.ids) \union r.by.mandatory \union r.custom
    BY DEF IInv, Gathered, At
  <2>2. ASSUME r.by = r.cat, NEW l \in Levels, LevelStatus(r, l) = "certified"
        PROVE  LevelIds(r.cat, l) \subseteq r.ran \ r.found
    <3>1. LevelIds(r.cat, l) \subseteq Attempted(r) /\ LevelIds(r.cat, l) \intersect r.found = {}
      BY <2>2 DEF LevelStatus
    <3>2. LevelIds(r.cat, l) \subseteq r.cat.ids
      BY DEF LevelIds
    <3> QED
      BY <2>1, <2>2, <3>1, <3>2 DEF Attempted
  <2> QED
    BY <2>2, HighestIsContiguous
<1> QED
  BY <1>1, InvariantHolds, PTL

(* Whatever a skill applies was scanned for, and so was everything that a  *)
(* policy in force during the request asks for.                            *)
THEOREM ScansCoverBaseline == Spec => []ScanCoversBaseline
<1>1. IInv => ScanCoversBaseline
  <2> SUFFICES ASSUME IInv, NEW t \in Threads, At(t, "done")
               PROVE  /\ req[t].ask \intersect (Slugs \union req[t].by.ids) \subseteq req[t].ran
                      /\ req[t].by.mandatory \subseteq req[t].ran
                      /\ \E p \in baselines[t], c \in Catalogs :
                           Baseline(p, c) \intersect req[t].by.ids \subseteq req[t].ran
    BY DEF ScanCoversBaseline
  <2> DEFINE r == req[t]
  <2>1. /\ r.ran = (r.enabled \intersect r.by.ids) \union r.by.mandatory \union r.custom
        /\ r.todo = {} /\ r.ask \ r.todo \subseteq r.enabled \union r.custom
        /\ \E p \in baselines[t], c \in Catalogs : Baseline(p, c) \subseteq r.enabled
    BY DEF IInv, Gathered, At, PolicyRead, AllResolved
  <2>2. r.enabled \subseteq Checks
    BY SMT DEF IInv, TypeOK, Request
  <2> QED
    BY <2>1, <2>2
<1> QED
  BY <1>1, InvariantHolds, PTL
=============================================================================
