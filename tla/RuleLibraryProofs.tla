-------------------------- MODULE RuleLibraryProofs --------------------------
(***************************************************************************)
(* What a tenant's custom rules keep for any number of slugs, versions,    *)
(* drafts and handler threads, and wherever a process dies.                *)
(***************************************************************************)
EXTENDS RuleLibrary, FiniteSetTheorems, TLAPS

USE RuleAssumptions, NothingAssumption

(* What a request carries by the stage it is at: a slug once validate_slug *)
(* has let it pass, a body once the guardrails service has.                *)
Named == {"limit", "snapshot", "pointer", "audit", "unlink", "glob", "sweep"}
Judged == {"check", "limit", "snapshot", "pointer"}
Carried(r) ==
  /\ r.at \in {"unlink", "glob", "sweep"} => r.op = "remove"
  /\ r.at \in Judged \union {"isNew", "validate"} => r.op \in {"put", "publish"}
  /\ r.at \in Named => r.content.slug \in Slugs
  /\ r.at \in Judged \/ (r.at = "isNew" /\ r.op = "publish") =>
       r.content.body \in Passing

(* What a request that writes s has made of its files so far.              *)
HalfDone(r, s) ==
  /\ r.at = "pointer" => snapshot[s][r.content.version] = r.content.body
  /\ r.at \in {"glob", "sweep"} => rule[s] = NoRule
  /\ r.at = "audit" =>
       IF r.op = "remove" THEN rule[s] = NoRule
       ELSE /\ rule[s] = [body |-> r.content.body, version |-> r.content.version]
            /\ snapshot[s][r.content.version] = r.content.body

(* What HistoryAndAuditAgree says of one slug.                             *)
Agree(s) ==
  /\ rule[s] # NoRule => snapshot[s][rule[s].version] = rule[s].body
  /\ rule[s] # NoRule <=> audit[s] \notin {"none", "deleted"}

(* Of a slug that is not contested: it has one writer at most, whose work  *)
(* is as it left it, and without a writer its files agree.                 *)
Sole(s) == \A t, u \in Threads : Writing(t, s) /\ Writing(u, s) => t = u
Orderly(s) ==
  /\ Sole(s)
  /\ \A t \in Threads : Writing(t, s) => HalfDone(req[t], s)
  /\ (\A t \in Threads : ~Writing(t, s)) => Agree(s)

(* The rules there are, and those that are past the check of the limit.    *)
Taken == {s \in Slugs : \/ s \in Listed
                        \/ \E t \in Threads : req[t].at \in {"snapshot", "pointer"} /\ Slug(t) = s}
PlacesHold == Cardinality(Taken) <= MaxRules + Cardinality(Threads) - 1

(* The inductive invariant.                                                *)
AllCarried == \A t \in Threads : Carried(req[t])
AllOrderly == \A s \in Slugs \ contested : Orderly(s)
IInv == TypeOK /\ AllCarried /\ RulesWereValidated /\ AllOrderly /\ PlacesHold

-----------------------------------------------------------------------------
(* The records requests are made of.                                       *)
LEMMA AskedFacts ==
  ASSUME NEW op \in Ops, NEW at \in Stages, NEW content \in Draft, NEW d \in DraftIds
  PROVE  LET r == Asked(op, at, content, d) IN
         /\ r \in Request /\ r.op = op /\ r.at = at /\ r.content = content /\ r.id = d
  BY DEF Asked, Request

LEMMA IdleFacts ==
  /\ Blank \in Draft /\ Blank.slug = NoSlug
  /\ Idle \in Request /\ Idle.at = "idle"
  /\ Carried(Idle)
<1>1. 1 \in Versions
  BY SMT DEF Versions
<1>2. Blank \in Draft /\ Blank.slug = NoSlug
  BY <1>1 DEF Blank, Draft
<1>3. (CHOOSE d \in DraftIds : TRUE) \in DraftIds
  OBVIOUS
<1>4. Idle \in Request /\ Idle.at = "idle"
  BY <1>2, <1>3, AskedFacts DEF Idle, Ops, Stages
<1>5. Carried(Idle)
  BY <1>4 DEF Carried, Named, Judged
<1> QED
  BY <1>2, <1>4, <1>5

(* Replacing one thread's request changes no other's.                      *)
LEMMA SetFacts ==
  ASSUME TypeOK, NEW t \in Threads, NEW r \in Request, req' = [req EXCEPT ![t] = r]
  PROVE  /\ req' \in [Threads -> Request]
         /\ req'[t] = r
         /\ \A u \in Threads \ {t} : req'[u] = req[u]
  BY DEF TypeOK

(* A request begins, or what it works on is known.                         *)
Begins(t, op, at, content, d) ==
  req' = [req EXCEPT ![t] = Asked(op, at, content, d)]

LEMMA ArriveFacts ==
  ASSUME TypeOK, NEW t \in Threads, NEW op \in Ops, NEW at \in Stages,
         NEW content \in Draft, NEW d \in DraftIds,
         Begins(t, op, at, content, d)
  PROVE  /\ req' \in [Threads -> Request]
         /\ req'[t].op = op /\ req'[t].at = at /\ req'[t].content = content
         /\ \A u \in Threads \ {t} : req'[u] = req[u]
<1> DEFINE r == Asked(op, at, content, d)
<1>1. r \in Request /\ r.op = op /\ r.at = at /\ r.content = content
  BY AskedFacts
<1>2. req' = [req EXCEPT ![t] = r]
  BY DEF Begins
<1> HIDE DEF r
<1> QED
  BY <1>1, <1>2, SetFacts

LEMMA LoadFacts ==
  ASSUME TypeOK, NEW t \in Threads, Load(t)
  PROVE  \/ Finish(t)
         \/ Go(t, "save")
         \/ /\ req' \in [Threads -> Request]
            /\ req'[t].op = "publish" /\ req'[t].at = "validate"
            /\ \A u \in Threads \ {t} : req'[u] = req[u]
<1> DEFINE d == req[t].id
<1>1. CASE draft[d] # NoDraft /\ req' = [req EXCEPT ![t] = Asked("publish", "validate", draft[d], d)]
  <2>1. d \in DraftIds /\ draft[d] \in Draft
    BY <1>1 DEF TypeOK, Request
  <2>2. "publish" \in Ops /\ "validate" \in Stages
    BY DEF Ops, Stages
  <2> DEFINE content == draft[d]
  <2>3. Begins(t, "publish", "validate", content, d)
    BY <1>1 DEF Begins
  <2>4. content \in Draft
    BY <2>1
  <2> HIDE DEF content, d
  <2> QED
    BY <2>1, <2>2, <2>3, <2>4, ArriveFacts
<1> QED
  BY <1>1 DEF Load

(* A request that goes on keeps all but its stage.                         *)
LEMMA GoFacts ==
  ASSUME TypeOK, NEW t \in Threads, NEW stage \in Stages, Go(t, stage)
  PROVE  /\ req' \in [Threads -> Request]
         /\ req'[t].at = stage
         /\ req'[t].op = req[t].op /\ req'[t].content = req[t].content
         /\ \A u \in Threads \ {t} : req'[u] = req[u]
<1>1. req[t] \in Request
  BY DEF TypeOK
<1>2. /\ [req[t] EXCEPT !.at = stage] \in Request
      /\ [req[t] EXCEPT !.at = stage].at = stage
      /\ [req[t] EXCEPT !.at = stage].op = req[t].op
      /\ [req[t] EXCEPT !.at = stage].content = req[t].content
  BY <1>1, SMT DEF Request
<1>3. req' = [req EXCEPT ![t] = [req[t] EXCEPT !.at = stage]]
  BY SMT DEF Go, TypeOK
<1> QED
  BY <1>2, <1>3, SetFacts

(* So does one that notes what it has read.                                *)
Moved(t, stage) ==
  /\ req' \in [Threads -> Request]
  /\ req'[t].at = stage
  /\ req'[t].op = req[t].op /\ req'[t].content = req[t].content
  /\ \A u \in Threads \ {t} : req'[u] = req[u]

LEMMA NoteFacts ==
  ASSUME TypeOK, NEW t \in Threads, NEW stage \in Stages, NEW isNew \in BOOLEAN,
         NEW files \in SUBSET Versions, Note(t, stage, isNew, files)
  PROVE  Moved(t, stage)
<1> DEFINE r == [op |-> req[t].op, at |-> stage, content |-> req[t].content,
                 id |-> req[t].id, isNew |-> isNew, files |-> files]
<1>1. req[t] \in Request
  BY DEF TypeOK
<1>2. r \in Request /\ r.at = stage /\ r.op = req[t].op /\ r.content = req[t].content
  BY <1>1 DEF Request
<1>3. req' = [req EXCEPT ![t] = r]
  BY DEF Note
<1> HIDE DEF r
<1> QED
  BY <1>2, <1>3, SetFacts DEF Moved

LEMMA ReadIsNewFacts ==
  ASSUME TypeOK, NEW t \in Threads, ReadIsNew(t)
  PROVE  Moved(t, IF req[t].op = "put" THEN "validate" ELSE "check")
<1> DEFINE stage == IF req[t].op = "put" THEN "validate" ELSE "check"
           isNew == Slug(t) \notin Listed
<1>1. stage \in Stages /\ isNew \in BOOLEAN /\ {} \in SUBSET Versions
  BY DEF Stages
<1>2. Note(t, stage, isNew, {})
  BY DEF ReadIsNew
<1> HIDE DEF isNew, stage
<1>3. Moved(t, stage)
  BY <1>1, <1>2, NoteFacts
<1> QED
  BY <1>3 DEF stage

LEMMA GlobFacts ==
  ASSUME TypeOK, NEW t \in Threads, Glob(t)
  PROVE  Moved(t, "sweep")
<1> DEFINE files == {v \in Versions : snapshot[Slug(t)][v] # NoBody}
<1>1. files \in SUBSET Versions /\ "sweep" \in Stages
  BY DEF Stages
<1>2. Note(t, "sweep", FALSE, files)
  BY DEF Glob
<1> HIDE DEF files
<1> QED
  BY <1>1, <1>2, NoteFacts

(* A sweep goes on, gives up or is done; it only ever takes files away.    *)
LEMMA SweepFacts ==
  ASSUME TypeOK, NEW t \in Threads, Sweep(t)
  PROVE  /\ Finish(t) \/ Go(t, "audit") \/ Moved(t, "sweep")
         /\ snapshot' \in [Slugs -> [Versions -> Bodies \union {NoBody}]]
         /\ \A s \in Slugs \ {Slug(t)} : snapshot'[s] = snapshot[s]
         /\ \A s \in Slugs, v \in Versions : snapshot'[s][v] \in {snapshot[s][v], NoBody}
<1>1. CASE req[t].files = {} /\ Go(t, "audit") /\ UNCHANGED snapshot
  BY <1>1 DEF TypeOK
<1>2. ASSUME NEW v \in req[t].files, snapshot[Slug(t)][v] = NoBody, Finish(t), UNCHANGED snapshot
      PROVE  /\ Finish(t)
             /\ snapshot' \in [Slugs -> [Versions -> Bodies \union {NoBody}]]
             /\ snapshot' = snapshot
  BY <1>2 DEF TypeOK
<1>3. ASSUME NEW v \in req[t].files, snapshot' = [snapshot EXCEPT ![Slug(t)][v] = NoBody],
             Note(t, "sweep", FALSE, req[t].files \ {v})
      PROVE  /\ Moved(t, "sweep")
             /\ snapshot' \in [Slugs -> [Versions -> Bodies \union {NoBody}]]
             /\ \A s \in Slugs \ {Slug(t)} : snapshot'[s] = snapshot[s]
             /\ \A s \in Slugs, w \in Versions : snapshot'[s][w] \in {snapshot[s][w], NoBody}
  <2>1. req[t].files \ {v} \in SUBSET Versions /\ "sweep" \in Stages
    BY DEF TypeOK, Request, Stages
  <2>2. Moved(t, "sweep")
    BY <1>3, <2>1, NoteFacts
  <2>3. \A s \in Slugs : snapshot'[s] = IF s = Slug(t) THEN [snapshot[s] EXCEPT ![v] = NoBody]
                                        ELSE snapshot[s]
    BY <1>3 DEF TypeOK
  <2>4. \A s \in Slugs : snapshot[s] \in [Versions -> Bodies \union {NoBody}]
    BY DEF TypeOK
  <2>5. \A s \in Slugs, w \in Versions : snapshot'[s][w] \in {snapshot[s][w], NoBody}
    BY <2>3, <2>4
  <2>6. snapshot' \in [Slugs -> [Versions -> Bodies \union {NoBody}]]
    BY <1>3 DEF TypeOK
  <2> QED
    BY <2>2, <2>3, <2>5, <2>6
<1> QED
  BY <1>1, <1>2, <1>3 DEF Sweep

LEMMA FinishFacts ==
  ASSUME TypeOK, NEW t \in Threads, Finish(t)
  PROVE  /\ req' \in [Threads -> Request]
         /\ req'[t] = Idle
         /\ \A u \in Threads \ {t} : req'[u] = req[u]
  BY IdleFacts, SetFacts DEF Finish

(* What a draft forked from a rule holds.                                  *)
LEMMA ForkFacts ==
  ASSUME TypeOK, NEW s \in Listed, rule[s].version < MaxVersion
  PROVE  DraftOf(s) \in Draft
<1>1. rule[s] \in Rule /\ s \in Slugs
  BY DEF TypeOK, Listed
<1>2. rule[s].version + 1 \in Versions
  BY <1>1, SMT DEF Rule, Versions
<1> QED
  BY <1>1, <1>2 DEF DraftOf, Draft, Rule

-----------------------------------------------------------------------------
(* A library nobody has written to is in order.                            *)
LEMMA InitIInv == Init => IInv
<1> SUFFICES ASSUME Init PROVE IInv
  OBVIOUS
<1>1. TypeOK
  <2>1. /\ rule \in [Slugs -> Rule \union {NoRule}]
        /\ snapshot \in [Slugs -> [Versions -> Bodies \union {NoBody}]]
        /\ draft \in [DraftIds -> Draft \union {NoDraft}]
        /\ audit \in [Slugs -> AuditActions \union {"none"}]
    BY Zenon DEF Init
  <2>2. req \in [Threads -> Request] /\ contested \in SUBSET Slugs
    BY IdleFacts DEF Init
  <2>3. served \in 0 .. MaxRequests
    <3>1. served = 0
      BY DEF Init
    <3> QED
      BY <3>1, SMT
  <2> QED
    BY <2>1, <2>2, <2>3 DEF TypeOK
<1>2. AllCarried
  BY IdleFacts DEF Init, AllCarried
<1>3. RulesWereValidated
  BY DEF Init, RulesWereValidated
<1>4. AllOrderly
  <2>1. \A t \in Threads, s \in Slugs : ~Writing(t, s)
    BY IdleFacts DEF Init, Writing
  <2>2. \A s \in Slugs : Agree(s)
    BY DEF Init, Agree
  <2> QED
    BY <2>1, <2>2 DEF AllOrderly, Orderly, Sole
<1>5. PlacesHold
  <2>1. Taken = {}
    BY IdleFacts DEF Init, Taken, Listed
  <2>2. Cardinality(Taken) = 0 /\ Cardinality(Threads) \in Nat /\ Cardinality(Threads) # 0
    BY <2>1, FS_EmptySet, FS_CardinalityType
  <2> QED
    BY <2>2, SMT DEF PlacesHold
<1> QED
  BY <1>1, <1>2, <1>3, <1>4, <1>5 DEF IInv

-----------------------------------------------------------------------------
(* How a step that is the business of one thread leaves a slug in order.   *)
(* The thread had and has no part in it, and its files are as they were.   *)
LEMMA Bystander ==
  ASSUME NEW s \in Slugs, Orderly(s), NEW t \in Threads,
         \A u \in Threads \ {t} : req'[u] = req[u],
         ~Writing(t, s), ~Writing(t, s)',
         rule'[s] = rule[s], snapshot'[s] = snapshot[s], audit'[s] = audit[s]
  PROVE  Orderly(s)'
<1>1. \A u \in Threads : Writing(u, s)' <=> Writing(u, s)
  BY DEF Writing, Slug
<1>2. \A u \in Threads : Writing(u, s) => req'[u] = req[u]
  OBVIOUS
<1>3. Sole(s)'
  BY <1>1 DEF Orderly, Sole
<1>4. \A u \in Threads : Writing(u, s)' => HalfDone(req[u], s)'
  BY <1>1, <1>2 DEF Orderly, HalfDone
<1>5. (\A u \in Threads : ~Writing(u, s)') => Agree(s)'
  BY <1>1 DEF Orderly, Agree
<1> QED
  BY <1>3, <1>4, <1>5 DEF Orderly

(* The thread is now its only writer, and its work is as it left it.       *)
LEMMA Writer ==
  ASSUME NEW s \in Slugs, NEW t \in Threads, Sole(s)', Writing(t, s)', HalfDone(req[t], s)'
  PROVE  Orderly(s)'
  BY DEF Orderly, Sole

(* The thread was its only writer and has finished.                        *)
LEMMA Finisher ==
  ASSUME NEW s \in Slugs, Orderly(s), NEW t \in Threads,
         \A u \in Threads \ {t} : req'[u] = req[u],
         Writing(t, s), ~Writing(t, s)', Agree(s)'
  PROVE  Orderly(s)'
<1>1. \A u \in Threads : ~Writing(u, s)'
  BY DEF Orderly, Sole, Writing, Slug
<1> QED
  BY <1>1 DEF Orderly, Sole

(* What the history says of a slug that is still not contested.            *)
LEMMA ContestFacts ==
  ASSUME NoteContest, NEW s \in Slugs \ contested'
  PROVE  /\ s \notin contested
         /\ Sole(s)'
         /\ \A t \in Threads : Writing(t, s) /\ ~At(t, "audit") => Writing(t, s)'
<1>1. s \notin contested
      /\ ~(\E t \in Threads :
             \/ Writing(t, s)' /\ \E u \in Threads \ {t} : Writing(u, s)'
             \/ Writing(t, s) /\ ~At(t, "audit") /\ ~Writing(t, s)')
  BY DEF NoteContest
<1> QED
  BY <1>1 DEF Sole

-----------------------------------------------------------------------------
(* Type correctness, one action at a time.                                 *)
LEMMA DataTyped ==
  ASSUME IInv, [Next]_vars
  PROVE  TypeOK'
<1> USE DEF IInv
<1>0. CASE UNCHANGED vars
  BY <1>0 DEF vars, TypeOK
<1>1. contested' \in SUBSET Slugs
  BY DEF Next, vars, NoteContest, Crash, TypeOK
<1>s. served + 1 \in 0 .. MaxRequests \/ ~(served < MaxRequests)
  BY SMT DEF TypeOK
<1>2. ASSUME NEW t \in Threads, HandlerStep(t)
      PROVE  TypeOK'
  <2>0. req[t] \in Request /\ req[t].content \in Draft /\ req[t].op \in Ops /\ req[t].id \in DraftIds
    BY DEF TypeOK, Request
  <2>1. ASSUME NEW op \in Ops, NEW at \in Stages, NEW content \in Draft, NEW d \in DraftIds,
               Arrive(t, op, at, content, d)
        PROVE  TypeOK'
    BY <1>1, <1>s, <2>1, ArriveFacts DEF Arrive, Begins, TypeOK
  <2>2. CASE AskPut(t) \/ AskRemove(t) \/ AskPublish(t) \/ AskEdit(t)
    <3>1. Blank \in Draft /\ \A s \in Slugs : [Blank EXCEPT !.slug = s] \in Draft
      BY IdleFacts DEF Draft
    <3> QED
      BY <2>1, <2>2, <3>1 DEF AskPut, AskRemove, AskPublish, AskEdit, Ops, Stages
  <2>3. CASE Load(t)
    <3>1. req' \in [Threads -> Request]
      BY <2>3, LoadFacts, FinishFacts, GoFacts DEF Stages
    <3> QED
      BY <1>1, <2>3, <3>1 DEF Load, TypeOK
  <2>4. CASE Save(t) \/ Erase(t)
    BY <1>1, <2>0, <2>4, FinishFacts DEF Save, Erase, TypeOK
  <2>5. CASE ReadIsNew(t)
    BY <1>1, <2>5, ReadIsNewFacts DEF ReadIsNew, Moved, TypeOK
  <2>6. CASE Validate(t)
    BY <1>1, <2>6, FinishFacts, GoFacts DEF Validate, TypeOK, Stages
  <2>7. CASE Check(t) \/ Limit(t)
    BY <1>1, <2>7, FinishFacts, GoFacts DEF Check, Limit, TypeOK, Stages
  <2>8. CASE WriteSnapshot(t)
    <3>1. snapshot' \in [Slugs -> [Versions -> Bodies \union {NoBody}]]
      BY <2>0, <2>8 DEF WriteSnapshot, TypeOK, Draft
    <3> QED
      BY <1>1, <2>8, <3>1, GoFacts DEF WriteSnapshot, TypeOK, Stages
  <2>9. CASE WritePointer(t)
    <3>1. rule' \in [Slugs -> Rule \union {NoRule}]
      BY <2>0, <2>9 DEF WritePointer, TypeOK, Draft, Rule
    <3> QED
      BY <1>1, <2>9, <3>1, GoFacts DEF WritePointer, TypeOK, Stages
  <2>10. CASE Unlink(t)
    BY <1>1, <2>10, FinishFacts, GoFacts DEF Unlink, TypeOK, Stages
  <2>11. CASE Glob(t)
    BY <1>1, <2>11, GlobFacts DEF Glob, Moved, TypeOK
  <2>12. CASE Sweep(t)
    <3>1. req' \in [Threads -> Request]
      BY <2>12, SweepFacts, FinishFacts, GoFacts DEF Moved, Stages
    <3> QED
      BY <1>1, <2>12, <3>1, SweepFacts DEF Sweep, TypeOK
  <2>13. CASE Audit(t)
    <3>1. AuditAction(t) \in AuditActions
      BY DEF AuditAction, AuditActions
    <3>2. req' \in [Threads -> Request]
      BY <2>13, FinishFacts, GoFacts DEF Audit, Stages
    <3> QED
      BY <1>1, <2>13, <3>1, <3>2 DEF Audit, TypeOK
  <2> QED
    BY <1>2, <2>2, <2>3, <2>4, <2>5, <2>6, <2>7, <2>8, <2>9, <2>10, <2>11, <2>12, <2>13
    DEF HandlerStep
<1>3. ASSUME NEW d \in DraftIds, CreateDraft(d) \/ DiscardDraft(d)
      PROVE  TypeOK'
  BY <1>1, <1>3, <1>s, IdleFacts, ForkFacts DEF CreateDraft, DiscardDraft, TypeOK
<1>4. CASE Crash
  BY <1>1, <1>4, IdleFacts DEF Crash, TypeOK
<1> QED
  BY <1>0, <1>2, <1>3, <1>4 DEF Next

-----------------------------------------------------------------------------
(* Requests carry what their stage promises.                               *)
LEMMA CarriedStays ==
  ASSUME IInv, [Next]_vars
  PROVE  AllCarried'
<1> USE DEF IInv
<1>0. CASE UNCHANGED req
  BY <1>0 DEF AllCarried, Carried
<1>1. CASE Crash
  BY <1>1, IdleFacts DEF Crash, AllCarried
<1>2. ASSUME NEW t \in Threads, HandlerStep(t)
      PROVE  AllCarried'
  <2>0. /\ Carried(req[t])
        /\ req[t] \in Request /\ req[t].content \in Draft /\ req[t].id \in DraftIds
    BY DEF AllCarried, TypeOK, Request
  <2> SUFFICES /\ Carried(req'[t])
               /\ \A u \in Threads \ {t} : req'[u] = req[u]
    BY DEF AllCarried
  <2>f. CASE Finish(t)
    BY <2>f, FinishFacts, IdleFacts
  <2>1. ASSUME NEW op \in Ops, NEW at \in Stages, NEW content \in Draft, NEW d \in DraftIds,
               Arrive(t, op, at, content, d)
        PROVE  /\ req'[t].op = op /\ req'[t].at = at /\ req'[t].content = content
               /\ \A u \in Threads \ {t} : req'[u] = req[u]
    <3>1. Begins(t, op, at, content, d)
      BY <2>1 DEF Arrive, Begins
    <3> QED
      BY <3>1, ArriveFacts
  <2>2. CASE AskPut(t)
    BY <2>1, <2>2 DEF AskPut, Ops, Stages, Carried, Named, Judged
  <2>3. CASE AskRemove(t)
    <3>1. \A s \in Slugs : [Blank EXCEPT !.slug = s] \in Draft /\ [Blank EXCEPT !.slug = s].slug = s
      BY IdleFacts DEF Draft
    <3> QED
      BY <2>1, <2>3, <3>1 DEF AskRemove, Ops, Stages, Carried, Named, Judged
  <2>4. CASE AskPublish(t) \/ AskEdit(t)
    BY <2>1, <2>4, IdleFacts DEF AskPublish, AskEdit, Ops, Stages, Carried, Named, Judged
  <2>5. CASE Load(t) /\ ~Finish(t)
    BY <2>0, <2>5, LoadFacts, GoFacts DEF Stages, Carried, Named, Judged
  <2>6. CASE ReadIsNew(t)
    BY <2>0, <2>6, ReadIsNewFacts DEF ReadIsNew, At, Moved, Carried, Named, Judged
  <2>7. CASE Validate(t) /\ ~Finish(t)
    BY <2>0, <2>7, GoFacts DEF Validate, At, Stages, Carried, Named, Judged
  <2>8. CASE (Check(t) \/ Limit(t)) /\ ~Finish(t)
    BY <2>0, <2>8, GoFacts DEF Check, Limit, Slug, Listed, At, Stages, Draft, Carried, Named, Judged
  <2>9. CASE WriteSnapshot(t) \/ WritePointer(t)
    BY <2>0, <2>9, GoFacts DEF WriteSnapshot, WritePointer, At, Stages, Carried, Named, Judged
  <2>10. CASE Unlink(t) /\ ~Finish(t)
    BY <2>0, <2>10, GoFacts DEF Unlink, At, Stages, Carried, Named, Judged
  <2>11. CASE Glob(t)
    BY <2>0, <2>11, GlobFacts DEF Glob, At, Moved, Carried, Named, Judged
  <2>12. CASE Sweep(t) /\ ~Finish(t)
    <3>1. req[t].op = "remove" /\ req[t].content.slug \in Slugs
      BY <2>0, <2>12 DEF Sweep, At, Carried, Named
    <3>2. Go(t, "audit") \/ Moved(t, "sweep")
      BY <2>12, SweepFacts
    <3>3. /\ req'[t].at \in {"audit", "sweep"}
          /\ req'[t].op = req[t].op /\ req'[t].content = req[t].content
          /\ \A u \in Threads \ {t} : req'[u] = req[u]
      BY <3>2, GoFacts DEF Moved, Stages
    <3> QED
      BY <3>1, <3>3 DEF Carried, Named, Judged
  <2>13. CASE Audit(t) /\ ~Finish(t)
    BY <2>0, <2>13, GoFacts DEF Audit, At, Stages, Carried, Named, Judged
  <2>14. CASE Save(t) \/ Erase(t)
    BY <2>f, <2>14 DEF Save, Erase
  <2> QED
    BY <1>2, <2>f, <2>2, <2>3, <2>4, <2>5, <2>6, <2>7, <2>8, <2>9, <2>10, <2>11, <2>12,
       <2>13, <2>14
    DEF HandlerStep
<1> QED
  BY <1>0, <1>1, <1>2 DEF Next, CreateDraft, DiscardDraft, vars

(* Only what was found well formed is written, current or kept.            *)
LEMMA ValidatedStays ==
  ASSUME IInv, [Next]_vars
  PROVE  RulesWereValidated'
<1> USE DEF IInv
<1>0. CASE UNCHANGED <<rule, snapshot>>
  BY <1>0 DEF RulesWereValidated
<1>1. ASSUME NEW t \in Threads, HandlerStep(t)
      PROVE  RulesWereValidated'
  <2>0. /\ Carried(req[t])
        /\ req[t].content \in Draft
    BY DEF AllCarried, TypeOK, Request
  <2>1. CASE WriteSnapshot(t)
    <3>1. req[t].content.body \in Passing /\ req[t].content.slug \in Slugs
      BY <2>0, <2>1 DEF WriteSnapshot, At, Carried, Named, Judged
    <3>2. \A s \in Slugs, v \in Versions :
            snapshot'[s][v] = snapshot[s][v] \/ snapshot'[s][v] = req[t].content.body
      <4> DEFINE c == req[t].content
      <4>1. \A s \in Slugs : snapshot'[s] = IF s = c.slug
                                            THEN [snapshot[s] EXCEPT ![c.version] = c.body]
                                            ELSE snapshot[s]
        BY <2>1 DEF WriteSnapshot, TypeOK
      <4>2. \A s \in Slugs : snapshot[s] \in [Versions -> Bodies \union {NoBody}]
        BY DEF TypeOK
      <4> HIDE DEF c
      <4>3. \A s \in Slugs, v \in Versions :
              snapshot'[s][v] = snapshot[s][v] \/ snapshot'[s][v] = c.body
        BY <4>1, <4>2
      <4> QED
        BY <4>3 DEF c
    <3> QED
      BY <2>1, <3>1, <3>2 DEF WriteSnapshot, RulesWereValidated
  <2>2. CASE WritePointer(t)
    <3>1. req[t].content.body \in Passing
      BY <2>0, <2>2 DEF WritePointer, At, Carried, Judged
    <3>2. \A s \in Slugs : rule'[s] = rule[s] \/ rule'[s].body = req[t].content.body
      BY <2>2 DEF WritePointer, TypeOK
    <3> QED
      BY <2>2, <3>1, <3>2 DEF WritePointer, RulesWereValidated
  <2>3. CASE Unlink(t)
    BY <2>3 DEF Unlink, RulesWereValidated, TypeOK
  <2>4. CASE Sweep(t)
    BY <2>4, SweepFacts DEF Sweep, RulesWereValidated
  <2> QED
    BY <1>0, <1>1, <2>1, <2>2, <2>3, <2>4
    DEF HandlerStep, AskPut, AskRemove, AskPublish, AskEdit, Arrive, Load, Save, ReadIsNew,
        Validate, Check, Limit, Glob, Audit, Erase
<1> QED
  BY <1>0, <1>1 DEF Next, CreateDraft, DiscardDraft, Crash, vars

-----------------------------------------------------------------------------
(* A step of one thread leaves every slug in order that is not contested.  *)
LEMMA HandlerKeepsOrder ==
  ASSUME IInv, NoteContest, NEW t \in Threads, HandlerStep(t), NEW s \in Slugs \ contested'
  PROVE  Orderly(s)'
<1> USE DEF IInv
<1>0. /\ Orderly(s)
      /\ Sole(s)'
      /\ Writing(t, s) /\ ~At(t, "audit") => Writing(t, s)'
  BY ContestFacts DEF AllOrderly
<1>1. /\ Carried(req[t])
      /\ req[t] \in Request /\ req[t].content \in Draft /\ req[t].id \in DraftIds
  BY DEF AllCarried, TypeOK, Request
<1>2. \A u \in Threads \ {t} : req'[u] = req[u]
  <2>1. ASSUME NEW op \in Ops, NEW at \in Stages, NEW content \in Draft, NEW d \in DraftIds,
               Arrive(t, op, at, content, d)
        PROVE  \A u \in Threads \ {t} : req'[u] = req[u]
    BY <2>1 DEF Arrive, TypeOK
  <2>2. CASE AskPut(t) \/ AskRemove(t) \/ AskPublish(t) \/ AskEdit(t)
    BY <2>2 DEF AskPut, AskRemove, AskPublish, AskEdit, Arrive, TypeOK
  <2>3. CASE Save(t) \/ Validate(t) \/ Check(t) \/ Limit(t) \/ Erase(t)
    BY <2>3 DEF Save, Validate, Check, Limit, Erase, Finish, Go, TypeOK
  <2>4. CASE Load(t) \/ ReadIsNew(t) \/ Glob(t) \/ Sweep(t)
    BY <2>4, LoadFacts, ReadIsNewFacts, GlobFacts, SweepFacts, FinishFacts, GoFacts DEF Moved, Stages
  <2>5. CASE WriteSnapshot(t) \/ WritePointer(t) \/ Unlink(t) \/ Audit(t)
    BY <2>5 DEF WriteSnapshot, WritePointer, Unlink, Audit, Finish, Go, TypeOK
  <2> QED
    BY <2>2, <2>3, <2>4, <2>5 DEF HandlerStep
<1>f. Finish(t) => ~Writing(t, s)'
  BY FinishFacts, IdleFacts DEF Writing
<1>3. ASSUME UNCHANGED <<rule, snapshot, audit>>, ~Writing(t, s), ~Writing(t, s)'
      PROVE  Orderly(s)'
  BY <1>0, <1>2, <1>3, Bystander
<1>4. CASE AskPut(t) \/ AskRemove(t) \/ AskPublish(t) \/ AskEdit(t)
  <2>1. ASSUME NEW op \in Ops, NEW at \in Stages, NEW content \in Draft, NEW d \in DraftIds,
               Arrive(t, op, at, content, d), at \in {"isNew", "unlink", "load"}
        PROVE  Orderly(s)'
    <3>0. Begins(t, op, at, content, d)
      BY <2>1 DEF Arrive, Begins
    <3>1. req'[t].at = at
      BY <3>0, ArriveFacts
    <3> QED
      BY <1>3, <2>1, <3>1 DEF Arrive, At, Writing
  <2>2. Blank \in Draft /\ \A n \in Slugs : [Blank EXCEPT !.slug = n] \in Draft
    BY IdleFacts DEF Draft
  <2> QED
    BY <1>4, <2>1, <2>2 DEF AskPut, AskRemove, AskPublish, AskEdit, Ops, Stages
<1>5. CASE Load(t)
  <2>1. ~Writing(t, s) /\ UNCHANGED <<rule, snapshot, audit>>
    BY <1>5 DEF Load, At, Writing
  <2>2. ~Writing(t, s)'
    BY <1>5, <1>f, LoadFacts, GoFacts DEF Stages, Writing
  <2> QED
    BY <1>3, <2>1, <2>2
<1>6. CASE Save(t) \/ Erase(t)
  BY <1>3, <1>6, <1>f DEF Save, Erase, At, Writing
<1>7. CASE ReadIsNew(t)
  BY <1>3, <1>7, ReadIsNewFacts DEF ReadIsNew, At, Moved, Writing
<1>8. CASE Validate(t) \/ Check(t) \/ Limit(t)
  <2>1. ~Writing(t, s) /\ UNCHANGED <<rule, snapshot, audit>>
    BY <1>8 DEF Validate, Check, Limit, At, Writing
  <2>2. \/ Finish(t)
        \/ \E stage \in {"check", "isNew", "snapshot", "limit"} : Go(t, stage)
    BY <1>8 DEF Validate, Check, Limit
  <2>3. ~Writing(t, s)'
    BY <1>f, <2>2, GoFacts DEF Stages, Writing
  <2> QED
    BY <1>3, <2>1, <2>3
<1>9. CASE WriteSnapshot(t)
  <2>1. /\ req'[t].at = "pointer" /\ req'[t].content = req[t].content
        /\ req[t].content.slug \in Slugs
    BY <1>1, <1>9, GoFacts DEF WriteSnapshot, At, Stages, Carried, Named
  <2>2. CASE Slug(t) = s
    <3>1. snapshot'[s] = [snapshot[s] EXCEPT ![req[t].content.version] = req[t].content.body]
      BY <1>9, <2>2 DEF WriteSnapshot, Slug, TypeOK
    <3>2. snapshot'[s][req[t].content.version] = req[t].content.body
      <4>1. snapshot[s] \in [Versions -> Bodies \union {NoBody}] /\ req[t].content.version \in Versions
        BY <1>1 DEF TypeOK, Draft
      <4> QED
        BY <3>1, <4>1
    <3> QED
      BY <1>0, <2>1, <2>2, <3>2, Writer DEF Writing, Slug, HalfDone
  <2>3. CASE Slug(t) # s
    BY <1>0, <1>2, <1>9, <2>1, <2>3, Bystander DEF WriteSnapshot, Writing, Slug, TypeOK
  <2> QED
    BY <2>2, <2>3
<1>10. CASE WritePointer(t)
  <2>1. /\ req'[t].at = "audit" /\ req'[t].content = req[t].content /\ req'[t].op = req[t].op
        /\ req[t].op # "remove"
    BY <1>1, <1>10, GoFacts DEF WritePointer, At, Stages, Carried, Judged
  <2>2. CASE Slug(t) = s
    <3>1. rule'[s] = [body |-> req[t].content.body, version |-> req[t].content.version]
      BY <1>10, <2>2 DEF WritePointer, Slug, TypeOK
    <3>2. snapshot'[s][req[t].content.version] = req[t].content.body
      BY <1>0, <1>10, <2>2 DEF WritePointer, At, Orderly, Writing, HalfDone
    <3> QED
      BY <1>0, <2>1, <2>2, <3>1, <3>2, Writer DEF Writing, Slug, HalfDone
  <2>3. CASE Slug(t) # s
    BY <1>0, <1>2, <1>10, <2>1, <2>3, Bystander DEF WritePointer, Writing, Slug, TypeOK
  <2> QED
    BY <2>2, <2>3
<1>11. CASE Unlink(t)
  <2>1. CASE Finish(t) /\ UNCHANGED rule
    BY <1>3, <1>11, <1>f, <2>1 DEF Unlink, At, Writing
  <2>2. CASE Go(t, "glob") /\ rule' = [rule EXCEPT ![Slug(t)] = NoRule]
    <3>1. req'[t].at = "glob" /\ req'[t].content = req[t].content
      BY <2>2, GoFacts DEF Stages
    <3>2. CASE Slug(t) = s
      BY <1>0, <2>2, <3>1, <3>2, Writer DEF Writing, Slug, HalfDone, TypeOK
    <3>3. CASE Slug(t) # s
      BY <1>0, <1>2, <1>11, <2>2, <3>1, <3>3, Bystander DEF Unlink, Writing, Slug, TypeOK
    <3> QED
      BY <3>2, <3>3
  <2> QED
    BY <1>11, <2>1, <2>2 DEF Unlink
<1>12. CASE Glob(t)
  <2>1. req'[t].at = "sweep" /\ req'[t].content = req[t].content
    BY <1>12, GlobFacts DEF Moved
  <2>2. CASE Slug(t) = s
    BY <1>0, <1>12, <2>1, <2>2, Writer DEF Glob, At, Orderly, Writing, Slug, HalfDone
  <2>3. CASE Slug(t) # s
    BY <1>3, <1>12, <2>1, <2>3 DEF Glob, Writing, Slug
  <2> QED
    BY <2>2, <2>3
<1>13. CASE Sweep(t)
  <2>1. CASE Slug(t) = s
    <3>1. Writing(t, s) /\ Writing(t, s)' /\ rule[s] = NoRule /\ req[t].op = "remove"
      BY <1>0, <1>1, <1>13, <2>1 DEF Sweep, At, Orderly, Writing, HalfDone, Carried
    <3>2. Go(t, "audit") \/ Moved(t, "sweep")
      BY <1>13, <1>f, <3>1, SweepFacts
    <3>3. req'[t].at \in {"audit", "sweep"} /\ req'[t].op = "remove" /\ rule'[s] = NoRule
      BY <1>13, <3>1, <3>2, GoFacts DEF Sweep, Moved, Stages
    <3> QED
      BY <1>0, <3>1, <3>3, Writer DEF HalfDone
  <2>2. CASE Slug(t) # s
    <3>1. snapshot'[s] = snapshot[s] /\ rule'[s] = rule[s] /\ audit'[s] = audit[s]
      BY <1>13, <2>2, SweepFacts DEF Sweep
    <3>2. ~Writing(t, s)'
      BY <1>13, <1>f, <2>2, SweepFacts, GoFacts DEF Moved, Stages, Writing, Slug
    <3> QED
      BY <1>0, <1>2, <2>2, <3>1, <3>2, Bystander DEF Writing
  <2> QED
    BY <2>1, <2>2
<1>14. CASE Audit(t)
  <2>1. ~Writing(t, s)'
    BY <1>14, <1>f, GoFacts DEF Audit, Stages, Writing
  <2>2. CASE Slug(t) = s
    <3>1. Writing(t, s) /\ HalfDone(req[t], s)
      BY <1>0, <1>14, <2>2 DEF Audit, At, Orderly, Writing
    <3>2. audit'[s] = AuditAction(t) /\ rule' = rule /\ snapshot' = snapshot
      BY <1>14, <2>2 DEF Audit, TypeOK
    <3>3. Agree(s)'
      <4>1. CASE req[t].op = "remove"
        <5>1. AuditAction(t) = "deleted"
          BY <4>1 DEF AuditAction
        <5>2. rule[s] = NoRule
          BY <1>14, <3>1, <4>1 DEF Audit, At, HalfDone
        <5> QED
          BY <3>2, <5>1, <5>2 DEF Agree
      <4>2. CASE req[t].op # "remove"
        <5>1. AuditAction(t) \in {"created", "updated", "published"}
          BY <4>2 DEF AuditAction
        <5>2. [body |-> req[t].content.body, version |-> req[t].content.version] \in Rule
          BY <1>1 DEF Draft, Rule
        <5>3. rule[s] # NoRule /\ snapshot[s][rule[s].version] = rule[s].body
          BY <1>14, <3>1, <4>2, <5>2 DEF Audit, At, HalfDone
        <5> QED
          BY <3>2, <5>1, <5>3 DEF Agree
      <4> QED
        BY <4>1, <4>2
    <3> QED
      BY <1>0, <1>2, <2>1, <3>1, <3>3, Finisher
  <2>3. CASE Slug(t) # s
    BY <1>0, <1>2, <1>14, <2>1, <2>3, Bystander DEF Audit, Writing, TypeOK
  <2> QED
    BY <2>2, <2>3
<1> QED
  BY <1>4, <1>5, <1>6, <1>7, <1>8, <1>9, <1>10, <1>11, <1>12, <1>13, <1>14 DEF HandlerStep

(* So does every step.                                                     *)
LEMMA OrderStays ==
  ASSUME IInv, [Next]_vars
  PROVE  AllOrderly'
<1> SUFFICES ASSUME NEW s \in Slugs \ contested' PROVE Orderly(s)'
  BY DEF AllOrderly
<1>1. ASSUME UNCHANGED <<rule, snapshot, audit, req>>, s \notin contested
      PROVE  Orderly(s)'
  <2>1. Orderly(s)
    BY <1>1 DEF IInv, AllOrderly
  <2> QED
    BY <1>1, <2>1 DEF Orderly, Sole, Writing, Slug, HalfDone, Agree
<1>2. CASE UNCHANGED vars
  BY <1>1, <1>2 DEF vars
<1>3. ASSUME NEW t \in Threads, HandlerStep(t), NoteContest
      PROVE  Orderly(s)'
  BY <1>3, HandlerKeepsOrder
<1>4. ASSUME NEW d \in DraftIds, CreateDraft(d) \/ DiscardDraft(d), NoteContest
      PROVE  Orderly(s)'
  BY <1>1, <1>4, ContestFacts DEF CreateDraft, DiscardDraft
<1>5. CASE Crash
  <2>1. s \notin contested /\ \A t \in Threads : ~Writing(t, s)
    BY <1>5 DEF Crash
  <2>2. \A t \in Threads : ~Writing(t, s)'
    BY <1>5, IdleFacts DEF Crash, Writing
  <2>3. Agree(s)'
    BY <1>5, <2>1 DEF Crash, IInv, AllOrderly, Orderly, Agree
  <2> QED
    BY <2>2, <2>3 DEF Orderly, Sole
<1> QED
  BY <1>2, <1>3, <1>4, <1>5 DEF Next

-----------------------------------------------------------------------------
(* The slugs requests are about are no more than the threads.              *)
LEMMA FewSlugs ==
  /\ IsFiniteSet({Slug(t)' : t \in Threads})
  /\ Cardinality({Slug(t)' : t \in Threads}) <= Cardinality(Threads)
<1> DEFINE slug == [t \in Threads |-> Slug(t)']
           slugs == {Slug(t)' : t \in Threads}
<1>1. slug \in Surjection(Threads, slugs)
  BY DEF Surjection
<1> HIDE DEF slug, slugs
<1>2. IsFiniteSet(slugs) /\ Cardinality(slugs) <= Cardinality(Threads)
  BY <1>1, FS_Surjection
<1> QED
  BY <1>2 DEF slugs

(* A thread past the check holds a place, in a library that was not full   *)
(* when it passed: other steps only give places up.                        *)
LEMMA PlacesStay ==
  ASSUME IInv, [Next]_vars
  PROVE  PlacesHold'
<1> USE DEF IInv
<1>0. IsFiniteSet(Taken) /\ Cardinality(Taken) \in Nat /\ Cardinality(Threads) \in Nat
  <2>1. Taken \in SUBSET Slugs
    BY DEF Taken
  <2> QED
    BY <2>1, FS_Subset, FS_CardinalityType
<1>1. ASSUME Taken' \in SUBSET Taken
      PROVE  PlacesHold'
  <2>1. Cardinality(Taken') <= Cardinality(Taken) /\ IsFiniteSet(Taken')
    BY <1>0, <1>1, FS_Subset
  <2>2. Cardinality(Taken') \in Nat
    BY <2>1, FS_CardinalityType
  <2> QED
    BY <1>0, <2>1, <2>2, SMT DEF PlacesHold
<1>2. CASE UNCHANGED <<rule, req>>
  BY <1>1, <1>2 DEF Taken, Listed, Slug
<1>3. CASE Crash
  BY <1>1, <1>3, IdleFacts DEF Crash, Taken, Listed
<1>4. ASSUME NEW t \in Threads, HandlerStep(t)
      PROVE  PlacesHold'
  <2>0. /\ Carried(req[t])
        /\ req[t] \in Request /\ req[t].content \in Draft /\ req[t].id \in DraftIds
    BY DEF AllCarried, TypeOK, Request
  <2>1. ASSUME Listed' \subseteq Listed, \A u \in Threads \ {t} : req'[u] = req[u],
               req'[t].at \notin {"snapshot", "pointer"}
        PROVE  PlacesHold'
    <3>1. Taken' \in SUBSET Taken
      BY <2>1 DEF Taken, Slug
    <3> QED
      BY <1>1, <3>1
  <2>r. rule' = rule => Listed' \subseteq Listed
    BY DEF Listed
  <2>f. CASE Finish(t) /\ Listed' \subseteq Listed
    BY <2>1, <2>f, FinishFacts, IdleFacts
  <2>2. CASE AskPut(t) \/ AskRemove(t) \/ AskPublish(t) \/ AskEdit(t)
    <3>1. ASSUME NEW op \in Ops, NEW at \in Stages, NEW content \in Draft, NEW d \in DraftIds,
                 Arrive(t, op, at, content, d), at \in {"isNew", "unlink", "load"}
          PROVE  PlacesHold'
      <4>1. Begins(t, op, at, content, d)
        BY <3>1 DEF Arrive, Begins
      <4>2. req'[t].at = at /\ \A u \in Threads \ {t} : req'[u] = req[u]
        BY <4>1, ArriveFacts
      <4> QED
        BY <2>1, <2>r, <3>1, <4>2 DEF Arrive
    <3>2. Blank \in Draft /\ \A n \in Slugs : [Blank EXCEPT !.slug = n] \in Draft
      BY IdleFacts DEF Draft
    <3> QED
      BY <2>2, <3>1, <3>2 DEF AskPut, AskRemove, AskPublish, AskEdit, Ops, Stages
  <2>3. CASE Load(t)
    BY <2>1, <2>f, <2>r, <2>3, LoadFacts, GoFacts DEF Load, Stages
  <2>4. CASE Save(t) \/ Erase(t)
    BY <2>f, <2>r, <2>4 DEF Save, Erase
  <2>5. CASE ReadIsNew(t) \/ Glob(t)
    BY <2>1, <2>r, <2>5, ReadIsNewFacts, GlobFacts DEF ReadIsNew, Glob, Moved
  <2>6. CASE Validate(t)
    BY <2>1, <2>f, <2>r, <2>6, GoFacts DEF Validate, Stages
  <2>7. CASE Check(t)
    <3>1. CASE Finish(t)
      BY <2>f, <2>r, <2>7, <3>1 DEF Check
    <3>2. CASE Go(t, "limit")
      BY <2>1, <2>r, <2>7, <3>2, GoFacts DEF Check, Stages
    <3>3. CASE Go(t, "snapshot") /\ Slug(t) \in Listed
      <4>1. req'[t].content = req[t].content /\ \A u \in Threads \ {t} : req'[u] = req[u]
        BY <3>3, GoFacts DEF Stages
      <4>2. Listed' = Listed
        BY <2>7 DEF Check, Listed
      <4>3. Taken' \in SUBSET Taken
        BY <3>3, <4>1, <4>2 DEF Taken, Slug
      <4> QED
        BY <1>1, <4>3
    <3> QED
      BY <2>7, <3>1, <3>2, <3>3 DEF Check
  <2>8. CASE Limit(t)
    <3>1. CASE Finish(t)
      BY <2>f, <2>r, <2>8, <3>1 DEF Limit
    <3>2. CASE Go(t, "snapshot") /\ ~(Cardinality(Listed) >= MaxRules)
      <4>1. Listed' = Listed /\ Listed \in SUBSET Slugs
        BY <2>8 DEF Limit, Listed
      <4>2. IsFiniteSet(Listed) /\ Cardinality(Listed) \in Nat
        BY <4>1, FS_Subset, FS_CardinalityType
      <4> DEFINE slugs == {Slug(u)' : u \in Threads}
      <4>3. Taken' \in SUBSET (Listed \union slugs)
        BY <4>1 DEF Taken
      <4>4. IsFiniteSet(slugs) /\ Cardinality(slugs) <= Cardinality(Threads)
        BY FewSlugs
      <4> HIDE DEF slugs
      <4>5. /\ IsFiniteSet(Listed \union slugs)
            /\ Cardinality(Listed \union slugs) =
                 Cardinality(Listed) + Cardinality(slugs) - Cardinality(Listed \intersect slugs)
        BY <4>2, <4>4, FS_Union
      <4>6. IsFiniteSet(Taken') /\ Cardinality(Taken') <= Cardinality(Listed \union slugs)
        BY <4>3, <4>5, FS_Subset
      <4>7. IsFiniteSet(Listed \intersect slugs)
        BY <4>2, FS_Subset
      <4>8. /\ Cardinality(slugs) \in Nat /\ Cardinality(Taken') \in Nat
            /\ Cardinality(Listed \union slugs) \in Nat /\ Cardinality(Listed \intersect slugs) \in Nat
        BY <4>4, <4>5, <4>6, <4>7, FS_CardinalityType
      <4>9. Cardinality(Taken') <= MaxRules + Cardinality(Threads) - 1
        BY <1>0, <3>2, <4>2, <4>4, <4>5, <4>6, <4>8, SMT
      <4> QED
        BY <4>9 DEF PlacesHold
    <3> QED
      BY <2>8, <3>1, <3>2 DEF Limit
  <2>9. CASE WriteSnapshot(t)
    <3>1. /\ req'[t].content = req[t].content /\ req'[t].at = "pointer" /\ req[t].at = "snapshot"
          /\ \A u \in Threads \ {t} : req'[u] = req[u]
          /\ Listed' = Listed
      BY <2>9, GoFacts DEF WriteSnapshot, At, Stages, Listed
    <3>2. Taken' \in SUBSET Taken
      BY <3>1 DEF Taken, Slug
    <3> QED
      BY <1>1, <3>2
  <2>10. CASE WritePointer(t)
    <3>1. /\ req'[t].at = "audit" /\ req[t].at = "pointer"
          /\ \A u \in Threads \ {t} : req'[u] = req[u]
      BY <2>10, GoFacts DEF WritePointer, At, Stages
    <3>2. Listed' \subseteq Listed \union {Slug(t)}
      BY <2>10 DEF WritePointer, Listed, Slug, TypeOK
    <3>3. Taken' \in SUBSET Taken
      BY <3>1, <3>2 DEF Taken, Slug
    <3> QED
      BY <1>1, <3>3
  <2>11. CASE Unlink(t)
    <3>1. Listed' \subseteq Listed
      BY <2>11 DEF Unlink, Listed, TypeOK
    <3> QED
      BY <2>1, <2>f, <2>11, <3>1, GoFacts DEF Unlink, Stages
  <2>12. CASE Sweep(t)
    <3>1. Listed' \subseteq Listed
      BY <2>12, <2>r DEF Sweep
    <3>2. CASE Go(t, "audit")
      BY <2>1, <3>1, <3>2, GoFacts DEF Stages
    <3>3. CASE Moved(t, "sweep")
      BY <2>1, <3>1, <3>3 DEF Moved
    <3> QED
      BY <2>f, <2>12, <3>1, <3>2, <3>3, SweepFacts
  <2>13. CASE Audit(t)
    BY <2>1, <2>f, <2>r, <2>13, GoFacts DEF Audit, Stages
  <2> QED
    BY <1>4, <2>2, <2>3, <2>4, <2>5, <2>6, <2>7, <2>8, <2>9, <2>10, <2>11, <2>12, <2>13
    DEF HandlerStep
<1> QED
  BY <1>2, <1>3, <1>4 DEF Next, CreateDraft, DiscardDraft, vars

-----------------------------------------------------------------------------
(* The invariant holds in every reachable state.                           *)
LEMMA Invariant == Spec => []IInv
<1>1. IInv /\ [Next]_vars => IInv'
  BY DataTyped, CarriedStays, ValidatedStays, OrderStays, PlacesStay DEF IInv
<1> QED
  BY <1>1, InitIInv, PTL DEF Spec

(* Rules, snapshots, drafts, audit records and the requests under way keep *)
(* their types: what guardrails/custom_rules.py and its drafts can hold.   *)
THEOREM TypeCorrect == Spec => []TypeOK
<1>1. IInv => TypeOK
  BY DEF IInv
<1> QED
  BY <1>1, Invariant, PTL

(* Every rule current or kept was found well formed by the service, "a     *)
(* rule is only ever persisted once it passes" (api/tenant_routes.py).     *)
THEOREM OnlyValidatedRules == Spec => []RulesWereValidated
<1>1. IInv => RulesWereValidated
  BY DEF IInv
<1> QED
  BY <1>1, Invariant, PTL

(* The limit of CustomGuardrailRuleStore.put is overrun by no more than    *)
(* the other threads past its check.                                       *)
THEOREM LimitOverrunBounded == Spec => []RuleLimitHolds
<1>1. IInv => RuleLimitHolds
  <2> SUFFICES ASSUME IInv PROVE RuleLimitHolds
    OBVIOUS
  <2>1. Taken \in SUBSET Slugs /\ Listed \in SUBSET Taken
    BY DEF Taken, Listed
  <2>2. IsFiniteSet(Taken) /\ Cardinality(Taken) \in Nat
    BY <2>1, FS_Subset, FS_CardinalityType
  <2>3. IsFiniteSet(Listed) /\ Cardinality(Listed) <= Cardinality(Taken)
    BY <2>1, <2>2, FS_Subset
  <2>4. Cardinality(Listed) \in Nat /\ Cardinality(Threads) \in Nat
    BY <2>3, FS_CardinalityType
  <2> QED
    BY <2>2, <2>3, <2>4, SMT DEF IInv, PlacesHold, RuleLimitHolds
<1> QED
  BY <1>1, Invariant, PTL

(* History and audit log agree with the current rule, unless two writers   *)
(* met at it or one stopped half way.                                      *)
THEOREM HistoriesAgree == Spec => []HistoryAndAuditAgree
<1>1. IInv => HistoryAndAuditAgree
  BY DEF IInv, AllOrderly, Orderly, Agree, AtRest, HistoryAndAuditAgree
<1> QED
  BY <1>1, Invariant, PTL
=============================================================================
