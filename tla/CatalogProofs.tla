---------------------------- MODULE CatalogProofs ----------------------------
(***************************************************************************)
(* What publishing guarantees for any number of workers, tags and          *)
(* packages, on either store and with any pattern of failures; and what a  *)
(* search of what was published may claim, for any number of searchers,    *)
(* writers, skills and versions.                                           *)
(***************************************************************************)
EXTENDS Publish, Search, FiniteSetTheorems, WellFoundedInduction, TLAPS

Owners == {"fillTag", "audit", "published"}

\* A worker that created a tag file is the only one, and the file is its own.
Exclusive ==
  \A v, w \in Workers :
    v # w /\ job[v].pc \in Owners /\ job[w].pc \in Owners => Slot(v) # Slot(w)

Claims ==
  \A w \in Workers :
    /\ At(w, "fillTag") => tag[Slot(w)] = Torn
    /\ job[w].pc \in {"audit", "published"} => tag[Slot(w)] = Pkg(w)

\* From the blob step on the worker's archive exists.
BlobFirst ==
  \A w \in Workers :
    job[w].pc \in {"fillBlob", "putTag", "fillTag"} => blob[Pkg(w)] # "absent"

\* The inductive invariant: OneWinner and TagsAreImmutable need to know who
\* may still fill a torn tag, TagHasItsBlob that its blob came first.
IInv ==
  /\ TypeOK
  /\ TagHasItsBlob
  /\ AuditIsTruthful
  /\ Exclusive
  /\ Claims
  /\ BlobFirst

USE PublishAssumption

-----------------------------------------------------------------------------
\* Publish starts in the invariant: nothing stored, nobody publishing.
LEMMA InitIInv == Init => IInv
  BY SMT DEF Init, IInv, TypeOK, TagHasItsBlob, AuditIsTruthful, Exclusive, Claims,
     BlobFirst, NoJob, At, Owners

\* Facts about a busy worker that every step below uses.
LEMMA WorkerFacts ==
  ASSUME TypeOK, NEW w \in Workers, job[w].pc # "idle"
  PROVE  /\ job[w] \in Job
         /\ Pkg(w) \in Packages
         /\ Slot(w) \in Tags
         /\ Pkg(w) # NoPackage /\ Pkg(w) # Torn
  BY SMT DEF TypeOK, NoJob, Job, Pkg, Slot

\* What a worker died over is a file of its own.
LEMMA AbandonedGrows ==
  ASSUME TypeOK, [Next]_vars
  PROVE  abandoned' \in SUBSET (Fills \X Packages) /\ abandoned \subseteq abandoned'
<1>1. CASE \E w \in Workers : Abort(w)
  <2>1. PICK w \in Workers : Abort(w)
    BY <1>1
  <2>2. Pkg(w) \in Packages
    BY <2>1, WorkerFacts DEF Abort, Busy
  <2> QED
    BY <2>1, <2>2 DEF Abort, TypeOK
<1>2. CASE UNCHANGED abandoned
  BY <1>2 DEF TypeOK
<1> QED
  BY <1>1, <1>2 DEF Next, Step, vars, Begin, PutBlob, FillBlob, PutTag, FillTag, RereadTag,
     EmitAudit, Respond

\* Moving the worker to another program point leaves its package, and every
\* other worker, alone.
LEMMA GotoFacts ==
  ASSUME TypeOK, NEW w \in Workers, job[w].pc # "idle",
         NEW label \in Busy \union Final, Goto(w, label)
  PROVE  /\ job' \in [Workers -> Job \union {NoJob}]
         /\ job'[w].pc = label
         /\ job'[w].pkg = job[w].pkg
         /\ \A v \in Workers \ {w} : job'[v] = job[v]
<1>1. job[w] \in Job
  BY WorkerFacts
<1>2. [job[w] EXCEPT !.pc = label] \in Job
  BY <1>1, SMT DEF Job
<1> QED
  BY <1>1, <1>2, SMT DEF Goto, TypeOK, Job

\* A worker that gives up its claim, or only reads, cannot break anything.
LEMMA StepBack ==
  ASSUME IInv, NEW w \in Workers,
         job' \in [Workers -> Job \union {NoJob}],
         \A v \in Workers \ {w} : job'[v] = job[v],
         job'[w].pc \in {"idle", "conflict", "reread", "alreadyReleased", "unreadable"},
         abandoned' \in SUBSET (Fills \X Packages),
         UNCHANGED <<backend, blob, tag, audited>>
  PROVE  IInv'
<1>1. TypeOK' /\ TagHasItsBlob' /\ AuditIsTruthful'
  BY DEF IInv, TypeOK, TagHasItsBlob, AuditIsTruthful
<1>2. Exclusive' /\ Claims' /\ BlobFirst'
  BY SMT DEF IInv, Exclusive, Claims, BlobFirst, Owners, Slot, Pkg, At
<1> QED
  BY <1>1, <1>2 DEF IInv

\* Every step of every worker, and every failure, preserves the invariant.
LEMMA NextIInv == IInv /\ [Next]_vars => IInv'
<1> USE DEF At
<1> SUFFICES ASSUME IInv, [Next]_vars PROVE IInv'
  OBVIOUS
<1>0. TypeOK /\ backend' = backend /\ abandoned' \in SUBSET (Fills \X Packages)
  <2>1. TypeOK
    BY DEF IInv
  <2>2. backend' = backend
    BY DEF Next, Step, vars, Begin, PutBlob, FillBlob, PutTag, FillTag, RereadTag, EmitAudit,
       Respond, Abort
  <2> QED
    BY <2>1, <2>2, AbandonedGrows
<1>1. ASSUME NEW w \in Workers, NEW kind \in Kinds, NEW p \in Packages, Begin(w, kind, p)
      PROVE  IInv'
  <2>1. /\ job'[w] \in Job /\ job'[w].pc = "putBlob"
        /\ \A v \in Workers \ {w} : job'[v] = job[v]
        /\ job' \in [Workers -> Job \union {NoJob}]
    BY <1>0, <1>1, SMT DEF Begin, TypeOK, Job, Busy
  <2> QED
    BY <1>0, <1>1, <2>1, SMT DEF Begin, IInv, TypeOK, TagHasItsBlob, AuditIsTruthful, Exclusive,
       Claims, BlobFirst, Owners, Slot, Pkg
<1>2. ASSUME NEW w \in Workers, PutBlob(w) PROVE IInv'
  <2>1. PICK label \in {"putTag", "fillBlob"} : Goto(w, label)
    BY <1>2 DEF PutBlob
  <2>2. label \in Busy \union Final
    BY DEF Busy
  <2>3. /\ job' \in [Workers -> Job \union {NoJob}]
        /\ job'[w].pc = label /\ job'[w].pkg = job[w].pkg
        /\ \A v \in Workers \ {w} : job'[v] = job[v]
    BY <1>0, <1>2, <2>1, <2>2, GotoFacts DEF PutBlob
  <2>4. Pkg(w) \in Packages /\ blob'[Pkg(w)] # "absent"
    BY <1>0, <1>2, WorkerFacts, SMT DEF PutBlob, TypeOK
  <2>5. blob' \in [Packages -> {"absent", "torn", "whole"}]
        /\ \A p \in Packages : blob[p] # "absent" => blob'[p] # "absent"
    BY <1>0, <1>2, SMT DEF PutBlob, TypeOK
  <2>6. tag' = tag /\ audited' = audited
    BY <1>2 DEF PutBlob
  <2>7. TypeOK'
    BY <1>0, <2>3, <2>5, <2>6 DEF TypeOK
  <2>8. TagHasItsBlob' /\ AuditIsTruthful'
    BY <2>5, <2>6 DEF IInv, TagHasItsBlob, AuditIsTruthful
  <2>9. Exclusive' /\ Claims'
    BY <2>3, <2>6, SMT DEF IInv, Exclusive, Claims, Owners, Slot, Pkg
  <2>10. BlobFirst'
    <3> SUFFICES ASSUME NEW v \in Workers,
                        job'[v].pc \in {"fillBlob", "putTag", "fillTag"}
                 PROVE  blob'[Pkg(v)'] # "absent"
      BY DEF BlobFirst
    <3>1. CASE v = w
      BY <3>1, <2>3, <2>4 DEF Pkg
    <3>2. CASE v # w
      <4>1. job[v].pc \in {"fillBlob", "putTag", "fillTag"} /\ Pkg(v)' = Pkg(v)
        BY <3>2, <2>3 DEF Pkg
      <4>2. Pkg(v) \in Packages /\ blob[Pkg(v)] # "absent"
        BY <1>0, <4>1, WorkerFacts DEF IInv, BlobFirst
      <4> QED
        BY <4>1, <4>2, <2>5
    <3> QED
      BY <3>1, <3>2
  <2> QED
    BY <2>7, <2>8, <2>9, <2>10 DEF IInv
<1>3. ASSUME NEW w \in Workers, FillBlob(w) PROVE IInv'
  <2>1. /\ job' \in [Workers -> Job \union {NoJob}]
        /\ job'[w].pc = "putTag" /\ job'[w].pkg = job[w].pkg
        /\ \A v \in Workers \ {w} : job'[v] = job[v]
    BY <1>0, <1>3, GotoFacts DEF FillBlob, Busy
  <2>2. Pkg(w) \in Packages /\ blob' = [blob EXCEPT ![Pkg(w)] = "whole"]
        /\ tag' = tag /\ audited' = audited
    BY <1>0, <1>3, WorkerFacts DEF FillBlob
  <2>3. TypeOK' /\ TagHasItsBlob' /\ AuditIsTruthful'
    BY <1>0, <2>1, <2>2, SMT DEF IInv, TypeOK, TagHasItsBlob, AuditIsTruthful
  <2>4. Exclusive' /\ Claims'
    BY <1>3, <2>1, <2>2, SMT DEF IInv, FillBlob, Exclusive, Claims, Owners, Slot, Pkg
  <2>5. BlobFirst'
    BY <1>3, <2>1, <2>2, SMT DEF IInv, TypeOK, FillBlob, BlobFirst, Pkg
  <2> QED
    BY <2>3, <2>4, <2>5 DEF IInv
<1>4. ASSUME NEW w \in Workers, PutTag(w) PROVE IInv'
  <2>1. Pkg(w) \in Packages /\ Slot(w) \in Tags /\ Slot(w) = TagOf[Pkg(w)]
        /\ blob[Pkg(w)] # "absent" /\ blob' = blob /\ audited' = audited
        /\ Pkg(w) # NoPackage /\ Pkg(w) # Torn
    BY <1>0, <1>4, WorkerFacts DEF PutTag, IInv, BlobFirst, Slot
  <2>2. CASE tag[Slot(w)] # NoPackage
    <3>1. PICK label \in {"reread", "conflict"} : Goto(w, label) /\ tag' = tag
      BY <1>4, <2>2 DEF PutTag
    <3>2. label \in Busy \union Final
      BY DEF Busy, Final
    <3> QED
      BY <1>0, <1>4, <2>1, <3>1, <3>2, GotoFacts, StepBack DEF PutTag
  <2>3. CASE tag[Slot(w)] = NoPackage
    <3>1. PICK label \in {"audit", "fillTag"} :
            /\ Goto(w, label)
            /\ tag' = [tag EXCEPT ![Slot(w)] = IF label = "audit" THEN Pkg(w) ELSE Torn]
      BY <1>4, <2>3 DEF PutTag
    <3>2. label \in Busy \union Final
      BY DEF Busy
    <3>3. /\ job' \in [Workers -> Job \union {NoJob}]
          /\ job'[w].pc = label /\ job'[w].pkg = job[w].pkg
          /\ \A v \in Workers \ {w} : job'[v] = job[v]
      BY <1>0, <1>4, <3>1, <3>2, GotoFacts DEF PutTag
    <3>4. /\ tag'[Slot(w)] = IF label = "audit" THEN Pkg(w) ELSE Torn
          /\ \A t \in Tags \ {Slot(w)} : tag'[t] = tag[t]
          /\ tag' \in [Tags -> Packages \union {NoPackage, Torn}]
      BY <1>0, <2>1, <3>1 DEF TypeOK
    <3>5. TypeOK' /\ TagHasItsBlob'
      BY <1>0, <2>1, <3>3, <3>4, SMT DEF IInv, TypeOK, TagHasItsBlob
    <3>6. AuditIsTruthful'
      BY <2>1, <2>3, <3>4, SMT DEF IInv, TypeOK, AuditIsTruthful
    <3>7. \A v \in Workers \ {w} : job[v].pc \in Owners => Slot(v) \in Tags /\ Slot(v) # Slot(w)
      <4> SUFFICES ASSUME NEW v \in Workers \ {w}, job[v].pc \in Owners
                   PROVE  Slot(v) \in Tags /\ Slot(v) # Slot(w)
        OBVIOUS
      <4>1. job[v].pc # "idle"
        BY DEF Owners
      <4>2. Slot(v) \in Tags /\ Pkg(v) # NoPackage
        BY <1>0, <4>1, WorkerFacts
      <4>3. tag[Slot(v)] # NoPackage
        BY <4>2 DEF IInv, Claims, Owners
      <4> QED
        BY <2>3, <4>2, <4>3
    <3>8. Exclusive'
      BY <3>3, <3>7, SMT DEF IInv, Exclusive, Owners, Slot, Pkg
    <3>9. Claims'
      <4> SUFFICES ASSUME NEW v \in Workers
                   PROVE  /\ job'[v].pc = "fillTag" => tag'[Slot(v)'] = Torn
                          /\ job'[v].pc \in {"audit", "published"} => tag'[Slot(v)'] = Pkg(v)'
        BY DEF Claims
      <4>1. CASE v = w
        BY <4>1, <3>3, <3>1, <3>4 DEF Slot, Pkg
      <4>2. CASE v # w
        <5>1. job'[v] = job[v] /\ Slot(v)' = Slot(v) /\ Pkg(v)' = Pkg(v)
          BY <4>2, <3>3 DEF Slot, Pkg
        <5>2. job[v].pc \in Owners => tag'[Slot(v)] = tag[Slot(v)]
          BY <4>2, <3>4, <3>7
        <5> QED
          BY <5>1, <5>2 DEF IInv, Claims, Owners
      <4> QED
        BY <4>1, <4>2
    <3>10. BlobFirst'
      BY <2>1, <3>1, <3>3, SMT DEF IInv, BlobFirst, Pkg
    <3> QED
      BY <3>5, <3>6, <3>8, <3>9, <3>10 DEF IInv
  <2> QED
    BY <2>2, <2>3
<1>5. ASSUME NEW w \in Workers, FillTag(w) PROVE IInv'
  <2>1. /\ job' \in [Workers -> Job \union {NoJob}]
        /\ job'[w].pc = "audit" /\ job'[w].pkg = job[w].pkg
        /\ \A v \in Workers \ {w} : job'[v] = job[v]
    BY <1>0, <1>5, GotoFacts DEF FillTag, Busy
  <2>2. Pkg(w) \in Packages /\ Slot(w) \in Tags /\ Slot(w) = TagOf[Pkg(w)]
        /\ tag' = [tag EXCEPT ![Slot(w)] = Pkg(w)]
        /\ blob' = blob /\ audited' = audited
    BY <1>0, <1>5, WorkerFacts DEF FillTag, Slot
  <2>3. tag[Slot(w)] = Torn /\ blob[Pkg(w)] # "absent" /\ Pkg(w) # Torn
    BY <1>0, <1>5, WorkerFacts DEF IInv, Claims, BlobFirst, FillTag
  <2>4. TypeOK' /\ TagHasItsBlob'
    BY <1>0, <2>1, <2>2, <2>3, SMT DEF IInv, TypeOK, TagHasItsBlob
  <2>5. AuditIsTruthful'
    BY <2>2, <2>3, SMT DEF IInv, TypeOK, AuditIsTruthful
  <2>6. Exclusive'
    BY <1>5, <2>1, SMT DEF IInv, FillTag, Exclusive, Owners, Slot, Pkg
  <2>7. Claims'
    <3> SUFFICES ASSUME NEW v \in Workers
                 PROVE  /\ job'[v].pc = "fillTag" => tag'[Slot(v)'] = Torn
                        /\ job'[v].pc \in {"audit", "published"} => tag'[Slot(v)'] = Pkg(v)'
      BY DEF Claims
    <3>1. CASE v = w
      BY <3>1, <1>0, <2>1, <2>2 DEF Slot, Pkg, TypeOK
    <3>2. CASE v # w
      <4>1. job'[v] = job[v] /\ Slot(v)' = Slot(v) /\ Pkg(v)' = Pkg(v)
        BY <3>2, <2>1 DEF Slot, Pkg
      <4>2. job[v].pc \in Owners => Slot(v) # Slot(w)
        BY <3>2, <1>5 DEF IInv, Exclusive, FillTag, Owners
      <4>3. job[v].pc \in Owners => tag'[Slot(v)] = tag[Slot(v)]
        <5>1. job[v].pc \in Owners => Slot(v) \in Tags
          BY <1>0, WorkerFacts DEF Owners
        <5> QED
          BY <4>2, <5>1, <2>2, <1>0 DEF TypeOK
      <4> QED
        BY <4>1, <4>3 DEF IInv, Claims, Owners
    <3> QED
      BY <3>1, <3>2
  <2>8. BlobFirst'
    BY <2>1, <2>2, SMT DEF IInv, BlobFirst, Pkg
  <2> QED
    BY <2>4, <2>5, <2>6, <2>7, <2>8 DEF IInv
<1>6. ASSUME NEW w \in Workers, RereadTag(w) PROVE IInv'
  <2>1. PICK label \in {"unreadable", "alreadyReleased"} : Goto(w, label)
    BY <1>6 DEF RereadTag
  <2>2. label \in Busy \union Final
    BY DEF Final
  <2> QED
    BY <1>0, <1>6, <2>1, <2>2, GotoFacts, StepBack DEF RereadTag
<1>7. ASSUME NEW w \in Workers, EmitAudit(w) PROVE IInv'
  <2>1. /\ job' \in [Workers -> Job \union {NoJob}]
        /\ job'[w].pc = "published" /\ job'[w].pkg = job[w].pkg
        /\ \A v \in Workers \ {w} : job'[v] = job[v]
    BY <1>0, <1>7, GotoFacts DEF EmitAudit, Final
  <2>2. Pkg(w) \in Packages /\ Slot(w) = TagOf[Pkg(w)] /\ tag[Slot(w)] = Pkg(w)
    BY <1>0, <1>7, WorkerFacts DEF EmitAudit, Slot, IInv, Claims
  <2>3. audited' = audited \union {Pkg(w)} /\ blob' = blob /\ tag' = tag
    BY <1>7 DEF EmitAudit
  <2>4. TypeOK' /\ TagHasItsBlob' /\ AuditIsTruthful'
    BY <1>0, <2>1, <2>2, <2>3 DEF IInv, TypeOK, TagHasItsBlob, AuditIsTruthful
  <2>5. Exclusive' /\ Claims' /\ BlobFirst'
    BY <1>7, <2>1, <2>3, SMT DEF EmitAudit, IInv, Exclusive, Claims, BlobFirst, Owners, Slot, Pkg
  <2> QED
    BY <2>4, <2>5 DEF IInv
<1>8. ASSUME NEW w \in Workers, Respond(w) \/ Abort(w) PROVE IInv'
  <2>1. job' = [job EXCEPT ![w] = NoJob] /\ UNCHANGED <<blob, tag, audited>>
    BY <1>8 DEF Respond, Abort
  <2>2. /\ job' \in [Workers -> Job \union {NoJob}]
        /\ job'[w].pc = "idle"
        /\ \A v \in Workers \ {w} : job'[v] = job[v]
    BY <1>0, <2>1 DEF TypeOK, NoJob
  <2> QED
    BY <1>0, <2>1, <2>2, StepBack
<1>9. CASE UNCHANGED vars
  BY <1>9 DEF vars, IInv, TypeOK, TagHasItsBlob, AuditIsTruthful, Exclusive, Claims,
     BlobFirst, Slot, Pkg
<1> QED
  BY <1>1, <1>2, <1>3, <1>4, <1>5, <1>6, <1>7, <1>8, <1>9 DEF Next, Step

\* The state in which an owner of a tag proves to be its only one.
LEMMA IInvOneWinner == IInv => OneWinner
  BY DEF IInv, OneWinner, Exclusive, Claims, Owners

\* The inductive invariant holds in every reachable state.
LEMMA InvariantHolds == Spec => []IInv
<1>1. Init => IInv
  BY InitIInv
<1>2. IInv /\ [Next]_vars => IInv'
  BY NextIInv
<1> QED
  BY <1>1, <1>2, PTL DEF Spec

\* Every variable keeps its type: in particular no store call is ever made
\* with the fields of a worker that is not publishing.
THEOREM TypeCorrect == Spec => []TypeOK
<1>1. IInv => TypeOK
  BY DEF IInv
<1> QED
  BY <1>1, InvariantHolds, PTL

\* A readable tag names its own id and version and its archive is stored.
THEOREM TagsPointAtBlobs == Spec => []TagHasItsBlob
<1>1. IInv => TagHasItsBlob
  BY DEF IInv
<1> QED
  BY <1>1, InvariantHolds, PTL

\* Of the workers racing for one tag, one wins.
THEOREM OneWinnerPerTag == Spec => []OneWinner
  BY IInvOneWinner, InvariantHolds, PTL

\* The audit log names only packages that their tag is bound to.
THEOREM AuditTruth == Spec => []AuditIsTruthful
<1>1. IInv => AuditIsTruthful
  BY DEF IInv
<1> QED
  BY <1>1, InvariantHolds, PTL

-----------------------------------------------------------------------------
\* How a step can change a tag: only its owner fills it, only when it was free
\* or torn, and what it puts there is a package that names the tag.
LEMMA TagStep ==
  ASSUME IInv, [Next]_vars, tag' # tag
  PROVE  \E w \in Workers :
           /\ job[w].pc \in {"putTag", "fillTag"}
           /\ Pkg(w) \in Packages /\ Slot(w) \in Tags /\ Slot(w) = TagOf[Pkg(w)]
           /\ tag[Slot(w)] \in {NoPackage, Torn}
           /\ \/ tag' = [tag EXCEPT ![Slot(w)] = Torn] /\ tag[Slot(w)] = NoPackage
              \/ tag' = [tag EXCEPT ![Slot(w)] = Pkg(w)]
<1>1. PICK w \in Workers : PutTag(w) \/ FillTag(w)
  BY DEF Next, Step, vars, Begin, PutBlob, FillBlob, RereadTag, EmitAudit, Respond, Abort
<1>2. job[w].pc \in {"putTag", "fillTag"}
  BY <1>1 DEF PutTag, FillTag, At
<1>3. Pkg(w) \in Packages /\ Slot(w) \in Tags /\ Slot(w) = TagOf[Pkg(w)]
  BY <1>2, WorkerFacts DEF IInv, Slot
<1>4. CASE PutTag(w)
  BY <1>2, <1>3, <1>4 DEF PutTag
<1>5. CASE FillTag(w)
  BY <1>2, <1>3, <1>5 DEF FillTag, IInv, Claims
<1> QED
  BY <1>1, <1>4, <1>5

\* A published tag is never rebound, on either store and whatever fails.
THEOREM Immutability == Spec => TagsAreImmutable
<1>1. IInv /\ [Next]_vars => [\A t \in Tags : tag[t] \in Packages => tag'[t] = tag[t]]_vars
  <2> SUFFICES ASSUME IInv, [Next]_vars, tag' # tag, NEW t \in Tags, tag[t] \in Packages
               PROVE  tag'[t] = tag[t]
    OBVIOUS
  <2> QED
    BY TagStep DEF IInv, TypeOK
<1> QED
  BY <1>1, InvariantHolds, PTL DEF Spec, TagsAreImmutable

\* Publishing implements the append-only catalogue: a readable tag appears in
\* one step, under its own name, and stays.
THEOREM Refinement == Spec => ImplementsCatalog
<1>1. Init => Catalog!Init
  BY SMT DEF Init, Catalog!Init, Published
<1>2. IInv /\ [Next]_vars => [Catalog!Next]_Published
  <2> SUFFICES ASSUME IInv, [Next]_vars, Published' # Published
               PROVE  Catalog!Next
    OBVIOUS
  <2>1. tag' # tag
    BY DEF Published
  <2>2. PICK w \in Workers :
           /\ Pkg(w) \in Packages /\ Slot(w) \in Tags /\ Slot(w) = TagOf[Pkg(w)]
           /\ tag[Slot(w)] \in {NoPackage, Torn}
           /\ \/ tag' = [tag EXCEPT ![Slot(w)] = Torn] /\ tag[Slot(w)] = NoPackage
              \/ tag' = [tag EXCEPT ![Slot(w)] = Pkg(w)]
    BY <2>1, TagStep
  <2>3. tag \in [Tags -> Packages \union {NoPackage, Torn}]
    BY DEF IInv, TypeOK
  <2>4. Published[Slot(w)] = NoPackage
    BY <2>2 DEF Published
  <2>5. CASE tag' = [tag EXCEPT ![Slot(w)] = Torn] /\ tag[Slot(w)] = NoPackage
    BY <2>2, <2>3, <2>5, SMT DEF Published
  <2>6. CASE tag' = [tag EXCEPT ![Slot(w)] = Pkg(w)]
    <3>1. Pkg(w) # Torn
      BY <2>2
    <3>2. tag'[Slot(w)] = Pkg(w) /\ \A t \in Tags \ {Slot(w)} : tag'[t] = tag[t]
      BY <2>2, <2>3, <2>6
    <3>3. Published' = [t \in Tags |-> IF t = Slot(w) THEN Pkg(w) ELSE Published[t]]
      BY <3>1, <3>2 DEF Published
    <3>4. Published' = [Published EXCEPT ![Slot(w)] = Pkg(w)]
      BY <2>2, <3>3 DEF Published
    <3> QED
      BY <2>2, <2>4, <3>4 DEF Catalog!Next, Catalog!Bind
  <2> QED
    BY <2>2, <2>5, <2>6
<1> QED
  BY <1>1, <1>2, InvariantHolds, PTL DEF Spec, ImplementsCatalog, Catalog!Spec

-----------------------------------------------------------------------------
\* A file that is there and not written is being filled, or was abandoned; and
\* there is something under a tag that a release reads back.
Excused ==
  /\ \A p \in Packages : blob[p] = "torn" => Unfinished("fillBlob", p)
  /\ \A t \in Tags : tag[t] = Torn =>
       \E p \in Packages : TagOf[p] = t /\ Unfinished("fillTag", p)
  /\ \A w \in Workers : At(w, "reread") => tag[Slot(w)] # NoPackage

\* A step moves one worker.
LEMMA OthersWait ==
  ASSUME TypeOK, [Next]_vars, job' # job
  PROVE  \E w \in Workers :
           /\ \A v \in Workers \ {w} : job'[v] = job[v]
           /\ \/ \E kind \in Kinds, p \in Packages : Begin(w, kind, p)
              \/ Step(w) \/ Abort(w)
<1>1. PICK w \in Workers :
        (\E kind \in Kinds, p \in Packages : Begin(w, kind, p)) \/ Step(w) \/ Abort(w)
  BY DEF Next, vars
<1>2. \A v \in Workers \ {w} : job'[v] = job[v]
  BY <1>1 DEF TypeOK, Step, Begin, PutBlob, FillBlob, PutTag, FillTag, RereadTag, EmitAudit,
     Respond, Abort, Goto
<1> QED
  BY <1>1, <1>2

\* Whoever has a file to fill fills it, or abandons it.
LEMMA UnfinishedStays ==
  ASSUME TypeOK, [Next]_vars, NEW label \in Fills, NEW p \in Packages, Unfinished(label, p)
  PROVE  \/ Unfinished(label, p)'
         \/ \E w \in Workers : Pkg(w) = p /\ label = "fillBlob" /\ FillBlob(w)
         \/ \E w \in Workers : Pkg(w) = p /\ label = "fillTag" /\ FillTag(w)
<1>1. backend' = backend
  BY DEF Next, Step, vars, Begin, PutBlob, FillBlob, PutTag, FillTag, RereadTag, EmitAudit,
     Respond, Abort
<1>2. CASE <<label, p>> \in abandoned
  BY <1>1, <1>2, AbandonedGrows DEF Unfinished
<1>3. ASSUME NEW w \in Workers, At(w, label), Pkg(w) = p
      PROVE  \/ Unfinished(label, p)'
             \/ Pkg(w) = p /\ label = "fillBlob" /\ FillBlob(w)
             \/ Pkg(w) = p /\ label = "fillTag" /\ FillTag(w)
  <2>1. CASE job'[w] = job[w]
    BY <1>1, <1>3, <2>1 DEF Unfinished, At, Pkg
  <2>2. CASE job'[w] # job[w]
    <3>1. job' # job
      BY <2>2
    <3>2. (\E kind \in Kinds, q \in Packages : Begin(w, kind, q)) \/ Step(w) \/ Abort(w)
      BY <2>2, <3>1, OthersWait
    <3>3. CASE Abort(w)
      <4>1. <<label, p>> \in abandoned'
        BY <1>3, <3>3 DEF Abort, At
      <4> QED
        BY <1>1, <4>1 DEF Unfinished
    <3>4. CASE FillBlob(w)
      BY <1>3, <3>4 DEF FillBlob, At
    <3>5. CASE FillTag(w)
      BY <1>3, <3>5 DEF FillTag, At
    <3> QED
      BY <1>3, <3>2, <3>3, <3>4, <3>5
         DEF Step, Begin, PutBlob, PutTag, RereadTag, EmitAudit, Respond, At, Fills, Final
  <2> QED
    BY <2>1, <2>2
<1> QED
  BY <1>2, <1>3 DEF Unfinished

LEMMA ExcusedHolds == Spec => []Excused
<1>1. Init => Excused
  BY SMT DEF Init, Excused, NoJob, At
<1>2. IInv /\ Excused /\ [Next]_vars => Excused'
  <2> SUFFICES ASSUME IInv, Excused, [Next]_vars PROVE Excused'
    OBVIOUS
  <2>0. TypeOK
    BY DEF IInv
  <2>1. ASSUME NEW p \in Packages, blob'[p] = "torn"
        PROVE  Unfinished("fillBlob", p)'
    <3>1. CASE blob[p] = "torn"
      <4>1. ASSUME NEW w \in Workers, Pkg(w) = p, FillBlob(w) PROVE FALSE
        BY <2>0, <2>1, <4>1 DEF FillBlob, TypeOK
      <4> QED
        BY <2>0, <3>1, <4>1, UnfinishedStays DEF Excused, Fills
    <3>2. CASE blob[p] # "torn"
      <4>1. PICK w \in Workers : PutBlob(w) \/ FillBlob(w)
        BY <2>1, <3>2
           DEF Next, Step, vars, Begin, PutTag, FillTag, RereadTag, EmitAudit, Respond, Abort
      <4>2. PutBlob(w) /\ backend' = "local" /\ Pkg(w) = p /\ Goto(w, "fillBlob")
        <5>1. Pkg(w) \in Packages
          BY <2>0, <4>1, WorkerFacts DEF PutBlob, FillBlob, At
        <5> QED
          BY <2>0, <2>1, <3>2, <4>1, <5>1 DEF PutBlob, FillBlob, TypeOK
      <4>3. job'[w].pc = "fillBlob" /\ job'[w].pkg = p
        BY <2>0, <4>2, GotoFacts DEF PutBlob, At, Busy, Pkg
      <4> QED
        BY <4>2, <4>3 DEF Unfinished, At, Pkg
    <3> QED
      BY <3>1, <3>2
  <2>2. ASSUME NEW t \in Tags, tag'[t] = Torn
        PROVE  \E p \in Packages : TagOf[p] = t /\ Unfinished("fillTag", p)'
    <3>1. CASE tag[t] = Torn
      <4>1. PICK p \in Packages : TagOf[p] = t /\ Unfinished("fillTag", p)
        BY <3>1 DEF Excused
      <4>2. ASSUME NEW w \in Workers, Pkg(w) = p, FillTag(w) PROVE FALSE
        BY <2>0, <2>2, <4>1, <4>2 DEF FillTag, TypeOK, Slot
      <4> QED
        BY <2>0, <4>1, <4>2, UnfinishedStays DEF Fills
    <3>2. CASE tag[t] # Torn
      <4>1. PICK w \in Workers : PutTag(w) \/ FillTag(w)
        BY <2>2, <3>2
           DEF Next, Step, vars, Begin, PutBlob, FillBlob, RereadTag, EmitAudit, Respond, Abort
      <4>2. Pkg(w) \in Packages /\ Pkg(w) # Torn /\ Slot(w) = TagOf[Pkg(w)]
        BY <2>0, <4>1, WorkerFacts DEF PutTag, FillTag, At, Slot
      <4>3. PutTag(w) /\ backend' = "local" /\ Slot(w) = t /\ Goto(w, "fillTag")
        BY <2>0, <2>2, <3>2, <4>1, <4>2 DEF PutTag, FillTag, TypeOK
      <4>4. job'[w].pc = "fillTag" /\ job'[w].pkg = Pkg(w)
        BY <2>0, <4>3, GotoFacts DEF PutTag, At, Busy, Pkg
      <4>5. Unfinished("fillTag", Pkg(w))'
        BY <4>3, <4>4 DEF Unfinished, At, Pkg
      <4> QED
        BY <4>2, <4>3, <4>4, <4>5 DEF Unfinished, At, Pkg
    <3> QED
      BY <3>1, <3>2
  <2>3. ASSUME NEW w \in Workers, At(w, "reread")'
        PROVE  (tag[Slot(w)] # NoPackage)'
    <3>1. /\ Slot(w) \in Tags /\ tag[Slot(w)] # NoPackage
          /\ job'[w].pkg = job[w].pkg
      <4>1. CASE job'[w] = job[w]
        BY <2>0, <2>3, <4>1, WorkerFacts DEF Excused, At
      <4>2. CASE job'[w] # job[w]
        <5>1. (\E kind \in Kinds, q \in Packages : Begin(w, kind, q)) \/ Step(w) \/ Abort(w)
          BY <2>0, <4>2, OthersWait
        <5>2. PutTag(w) /\ tag[Slot(w)] # NoPackage /\ Goto(w, "reread")
          BY <2>0, <2>3, <5>1, WorkerFacts, SMT
             DEF Step, Begin, PutBlob, FillBlob, PutTag, FillTag, RereadTag, EmitAudit, Respond,
             Abort, Goto, At, TypeOK, Job, NoJob, Final
        <5> QED
          BY <2>0, <5>2, WorkerFacts, GotoFacts DEF PutTag, At, Busy
      <4> QED
        BY <4>1, <4>2
    <3>2. \A t \in Tags : tag[t] # NoPackage => tag'[t] # NoPackage
      <4>1. CASE tag' = tag
        BY <4>1
      <4>2. CASE tag' # tag
        <5>1. PICK v \in Workers :
                /\ Pkg(v) \in Packages /\ Slot(v) \in Tags
                /\ \/ tag' = [tag EXCEPT ![Slot(v)] = Torn]
                   \/ tag' = [tag EXCEPT ![Slot(v)] = Pkg(v)]
          BY <4>2, TagStep
        <5> QED
          BY <2>0, <5>1 DEF TypeOK
      <4> QED
        BY <4>1, <4>2
    <3> QED
      BY <3>1, <3>2 DEF Slot, Pkg
  <2> QED
    BY <2>1, <2>2, <2>3 DEF Excused
<1> QED
  BY <1>1, <1>2, InvariantHolds, PTL DEF Spec

\* A download returns the bytes that were signed: the archive of a readable tag is
\* complete, always on S3, and on the local store unless its writer has yet to
\* finish or died (TaggedArchiveIsWhole).
THEOREM WholeArchives == Spec => []TaggedArchiveIsWhole
<1>1. IInv /\ Excused => TaggedArchiveIsWhole
  BY DEF IInv, TypeOK, Excused, TagHasItsBlob, TaggedArchiveIsWhole
<1> QED
  BY <1>1, InvariantHolds, ExcusedHolds, PTL

\* A release that finds its tag taken can read it back, always on S3, and on the
\* local store unless its writer has yet to finish or died (RetrySucceeds).
THEOREM RetriesSucceed == Spec => []RetrySucceeds
<1>1. IInv /\ Excused => RetrySucceeds
  <2> SUFFICES ASSUME IInv, Excused, NEW w \in Workers, At(w, "reread")
               PROVE  \/ tag[Slot(w)] \in Packages
                      \/ \E p \in Packages : TagOf[p] = Slot(w) /\ Unfinished("fillTag", p)
    BY DEF RetrySucceeds
  <2>1. Slot(w) \in Tags
    BY WorkerFacts DEF IInv, At
  <2>2. tag[Slot(w)] \in Packages \union {NoPackage, Torn} /\ tag[Slot(w)] # NoPackage
    BY <2>1 DEF IInv, TypeOK, Excused
  <2> QED
    BY <2>1, <2>2 DEF Excused
<1> QED
  BY <1>1, InvariantHolds, ExcusedHolds, PTL

-----------------------------------------------------------------------------
\* The highest of some versions is one of them: a smallest set of versions that
\* had none would lose its claim with any of its elements.
LEMMA HasMax ==
  ASSUME NEW S \in SUBSET Versions, S # {}
  PROVE  \E m \in S : \A x \in S : m >= x
  <1> DEFINE HasTop(U) == \E m \in U : \A x \in U : m >= x
             T == {U \in SUBSET Versions : U # {} /\ ~HasTop(U)}
  <1>1. Versions \subseteq Nat /\ IsFiniteSet(Versions)
    BY SearchAssumption
  <1>2. SUFFICES ASSUME T # {} PROVE FALSE
    OBVIOUS
  <1>3. PICK U \in T : \A V \in T : <<V, U>> \notin StrictSubsetOrdering(Versions)
    <2>1. IsWellFoundedOn(StrictSubsetOrdering(Versions), SUBSET Versions)
      BY <1>1, FS_StrictSubsetOrderingWellFounded, FS_FiniteSubsetsOfFinite
    <2>2. T \subseteq SUBSET Versions
      OBVIOUS
    <2> HIDE DEF T, IsWellFoundedOn
    <2>3. QED
      BY <1>2, <2>1, <2>2, WFMin
  <1>4. PICK x \in U : TRUE
    OBVIOUS
  <1> DEFINE V == U \ {x}
  <1>5. V \in SUBSET Versions /\ V # U /\ V \subseteq U
    BY <1>4
  <1>6. <<V, U>> \in StrictSubsetOrdering(Versions)
    BY <1>5 DEF StrictSubsetOrdering
  <1>7. V = {} \/ HasTop(V)
    BY <1>3, <1>5, <1>6
  <1>8. CASE V = {}
    <2>1. U = {x} /\ x \in Nat
      BY <1>1, <1>4, <1>8
    <2>2. QED
      BY <2>1
  <1>9. CASE HasTop(V)
    <2>1. PICK m \in V : \A y \in V : m >= y
      BY <1>9
    <2>2. x \in Nat /\ m \in Nat /\ \A y \in U : y \in Nat
      BY <1>1, <1>4, <2>1
    <2>3. CASE m >= x
      BY <2>1, <2>3
    <2>4. CASE x >= m
      <3>1. \A y \in U : x >= y
        BY <2>1, <2>2, <2>4
      <3>2. QED
        BY <1>4, <3>1
    <2>5. QED
      BY <2>2, <2>3, <2>4
  <1>10. QED
    BY <1>7, <1>8, <1>9

LEMMA MaxOf ==
  ASSUME NEW S \in SUBSET Versions, S # {}
  PROVE  Max(S) \in S
  BY HasMax DEF Max

LEMMA HighestTyped ==
  ASSUME NEW S \in SUBSET Versions
  PROVE  Highest(S) \in Versions \union {None} /\ (S # {} => Highest(S) # None)
  BY MaxOf, SearchAssumption DEF Highest

\* What get_resolved returns is a version of the skill, or none.
LEMMA ResolvedTyped ==
  ASSUME NEW s \in Skills, NEW c \in Constraints
  PROVE  /\ Resolved(s, c) \in Versions \union {None}
         /\ Pinned(s, c) # {} => /\ Resolved(s, c) = Max(Pinned(s, c))
                                 /\ Max(Pinned(s, c)) \in Versions /\ Max(Pinned(s, c)) # None
         /\ Keys(s) \in SUBSET Versions
  <1>1. Keys(s) \in SUBSET Versions /\ Pinned(s, c) \in SUBSET Versions
    BY DEF Keys, Pinned
  <1>2. ASSUME NEW pool \in SUBSET Versions PROVE ResolveVersion(pool, c) \in Versions \union {None}
    BY HighestTyped DEF ResolveVersion
  <1>3. Pinned(s, c) # {} => Max(Pinned(s, c)) \in Versions
    BY <1>1, MaxOf
  <1>4. None \notin Versions
    BY SearchAssumption
  <1>5. QED
    BY <1>1, <1>2, <1>3, <1>4 DEF Resolved

-----------------------------------------------------------------------------
Early == {"ids", "keep", "copy"}
Judging == {"scan", "judge", "user", "tenant"}

\* The skills a search has still to say something of.
Ahead(r) == r.todo \union (IF r.pc \in Judging THEN {r.at} ELSE {})

Holds(s, grantees) == \E g \in grants : g.skill = s /\ g.grantee \in grantees

\* Of a skill ahead nothing has been found.
Unfound(r) ==
  /\ r.pc \in Early => r.found = Nothing
  /\ r.pc \in Judging \union {"next"} => \A s \in Ahead(r) : s \in Skills /\ r.found[s] = None
  /\ r.pc \in Judging => r.at \notin r.todo
  /\ r.pc = "done" => r.todo = {}

\* A version that is judged is what its skill resolves to, unless that was changed.
Judged(r) ==
  /\ r.pc \in {"judge", "user", "tenant"} =>
       r.version # None /\ (r.at \notin r.touched => r.version = Resolved(r.at, r.constraint))
  /\ r.pc \in {"user", "tenant"} => r.caller # Anonymous /\ ~r.lookedUp

\* Whatever is visible or found was shared during the search, or needs no share.
WasShared(r, s) ==
  Public(s, r.found[s]) \/ OwnTenant(s, r.caller) \/ s \in r.shared

Shared(r) ==
  /\ SharedWith(r.caller, grants) \subseteq r.shared /\ r.visible \subseteq r.shared
  /\ \A s \in Skills : r.found[s] # None => WasShared(r, s)

\* The skills visible are those the grants that were read still share.
Visible(r) ==
  /\ \A s \in Skills \ r.touched :
       /\ r.pc = "tenant" => (s \in r.visible <=> Holds(s, {r.caller}))
       /\ r.lookedUp => (s \in r.visible <=> Holds(s, Grantees(r.caller)))
  /\ r.caller = Anonymous => r.visible = {}

\* What was found is what the metadata endpoint would show.
Found(r) ==
  r.pc \in Judging \union {"next", "done"} =>
    \A s \in r.listed \ (Ahead(r) \union r.touched) :
      r.found[s] = Viewable(s, r.caller, r.constraint)

Good(r) == Unfound(r) /\ Judged(r) /\ Shared(r) /\ Visible(r) /\ Found(r)

SearchInv ==
  SearchTypeOK /\ \A th \in Searchers : search[th] # NoSearch => Good(search[th])

\* A search that begins or goes on: where it is then, if it has not ended.
Fine(r) == r \in Searching /\ Good(r) /\ (r.pc = "judge" => r.version # None)

LEMMA SearchingFields ==
  ASSUME NEW r \in Searching
  PROVE  /\ r.pc \in Early \union Judging \union {"next", "done", "failed"}
         /\ r.caller \in Callers /\ r.constraint \in Constraints
         /\ r.listed \in SUBSET Skills /\ r.todo \in SUBSET Skills /\ r.at \in Skills \union {None}
         /\ r.keys \in SUBSET Versions /\ r.version \in Versions \union {None}
         /\ r.lookedUp \in BOOLEAN /\ r.visible \in SUBSET Skills
         /\ r.found \in [Skills -> Versions \union {None}]
         /\ r.touched \in SUBSET Skills /\ r.shared \in SUBSET Skills
         /\ r # NoSearch
  BY DEF Searching, NoSearch, Early, Judging

LEMMA SharedIs ==
  ASSUME NEW caller, NEW s
  PROVE  s \in SharedWith(caller, grants) <=> Holds(s, Grantees(caller))
  BY DEF SharedWith, Holds

LEMMA BeginFine ==
  ASSUME SearchTypeOK, NEW caller \in Callers, NEW c \in Constraints
  PROVE  Fine([pc |-> "ids", caller |-> caller, constraint |-> c, listed |-> {}, todo |-> {},
               at |-> None, keys |-> {}, version |-> None,
               lookedUp |-> FALSE, visible |-> {}, found |-> Nothing,
               touched |-> {}, shared |-> SharedWith(caller, grants)])
  <1> DEFINE r == [pc |-> "ids", caller |-> caller, constraint |-> c, listed |-> {}, todo |-> {},
                   at |-> None, keys |-> {}, version |-> None,
                   lookedUp |-> FALSE, visible |-> {}, found |-> Nothing,
                   touched |-> {}, shared |-> SharedWith(caller, grants)]
  <1>1. Nothing \in [Skills -> Versions \union {None}] /\ \A s \in Skills : Nothing[s] = None
    BY DEF Nothing
  <1>2. SharedWith(caller, grants) \in SUBSET Skills
    BY DEF SharedWith, SearchTypeOK, Grant
  <1>3. r \in Searching
    BY <1>1, <1>2 DEF Searching
  <1>4. /\ r.pc = "ids" /\ r.caller = caller /\ r.lookedUp = FALSE /\ r.visible = {}
        /\ r.found = Nothing /\ r.shared = SharedWith(caller, grants)
    OBVIOUS
  <1> HIDE DEF r
  <1>5. Unfound(r) /\ Judged(r) /\ Shared(r) /\ Visible(r) /\ Found(r)
    BY <1>1, <1>4 DEF Unfound, Judged, Shared, Visible, Found, Early, Judging
  <1>6. QED
    BY <1>3, <1>4, <1>5 DEF Fine, Good, r

-----------------------------------------------------------------------------
\* A search that is relabelled keeps all it knows.
LEMMA Relabel ==
  ASSUME NEW r \in Searching, NEW l \in {"copy", "next", "user", "done", "failed"}
  PROVE  LET s == [r EXCEPT !.pc = l] IN
         /\ s \in Searching /\ s.pc = l
         /\ s.caller = r.caller /\ s.constraint = r.constraint /\ s.listed = r.listed
         /\ s.todo = r.todo /\ s.at = r.at /\ s.version = r.version /\ s.lookedUp = r.lookedUp
         /\ s.visible = r.visible /\ s.found = r.found /\ s.touched = r.touched
         /\ s.shared = r.shared
  BY DEF Searching

Known(s, r) ==
  /\ s.caller = r.caller /\ s.constraint = r.constraint
  /\ s.found = r.found /\ s.touched = r.touched /\ s.shared = r.shared

LEMMA SharedLasts ==
  ASSUME NEW r, NEW s, Known(s, r), s.visible = r.visible, Shared(r)
  PROVE  Shared(s)
  BY DEF Known, Shared, WasShared

LEMMA VisibleLasts ==
  ASSUME NEW r, NEW s, Known(s, r), s.visible = r.visible, s.lookedUp = r.lookedUp,
         s.pc # "tenant", Visible(r)
  PROVE  Visible(s)
  BY DEF Known, Visible

LEMMA FoundLasts ==
  ASSUME NEW r, NEW s, Known(s, r), s.listed = r.listed,
         r.pc \in Judging \union {"next", "done"}, Ahead(r) \subseteq Ahead(s), Found(r)
  PROVE  Found(s)
  BY DEF Known, Found

LEMMA GotoFine ==
  ASSUME NEW r \in Searching, Good(r), NEW l,
         \/ r.pc \in {"ids", "keep"} /\ l = "copy"
         \/ r.pc \in {"copy", "scan"} /\ l = "failed"
         \/ r.pc = "judge" /\ l = "user" /\ r.caller # Anonymous /\ ~r.lookedUp
         \/ r.pc = "next" /\ l = "done" /\ r.todo = {}
         \/ r.pc = "scan" /\ l = "next" /\ Resolved(r.at, r.constraint) = None
  PROVE  Fine([r EXCEPT !.pc = l])
  <1> DEFINE s == [r EXCEPT !.pc = l]
  <1>0. l \in {"copy", "next", "user", "done", "failed"}
    OBVIOUS
  <1>1. /\ s \in Searching /\ s.pc = l
        /\ s.caller = r.caller /\ s.constraint = r.constraint /\ s.listed = r.listed
        /\ s.todo = r.todo /\ s.at = r.at /\ s.version = r.version /\ s.lookedUp = r.lookedUp
        /\ s.visible = r.visible /\ s.found = r.found /\ s.touched = r.touched
        /\ s.shared = r.shared
    BY <1>0 DEF Searching
  <1> HIDE DEF s
  <1> USE DEF Early, Judging
  <1>2. Known(s, r)
    BY <1>1 DEF Known
  <1>3. Unfound(s)
    BY <1>1 DEF Good, Unfound, Ahead
  <1>4. Judged(s)
    BY <1>1 DEF Good, Judged
  <1>5. Shared(s) /\ Visible(s)
    BY <1>1, <1>2, SharedLasts, VisibleLasts DEF Good
  <1>6. Found(s)
    <2>1. CASE l \in {"copy", "failed"}
      BY <1>1, <2>1 DEF Found
    <2>2. CASE l \in {"user", "done"}
      BY <1>1, <1>2, <2>2, FoundLasts DEF Good, Ahead
    <2>3. CASE l = "next"
      <3>1. r.found[r.at] = None /\ r.at \in Skills
        BY <2>3 DEF Good, Unfound, Ahead
      <3>2. Viewable(r.at, r.caller, r.constraint) = None
        BY <2>3 DEF Viewable
      <3>3. QED
        BY <1>1, <2>3, <3>1, <3>2 DEF Good, Found, Ahead
    <2>4. QED
      BY <2>1, <2>2, <2>3
  <1>7. QED
    BY <1>1, <1>3, <1>4, <1>5, <1>6 DEF Fine, Good, s

LEMMA KeepFine ==
  ASSUME NEW r \in Searching, Good(r), NEW is \in SUBSET Skills, r.pc = "ids"
  PROVE  Fine([r EXCEPT !.pc = "keep", !.listed = is])
  <1> DEFINE s == [r EXCEPT !.pc = "keep", !.listed = is]
  <1>1. /\ s \in Searching /\ s.pc = "keep"
        /\ s.caller = r.caller /\ s.constraint = r.constraint
        /\ s.todo = r.todo /\ s.lookedUp = r.lookedUp
        /\ s.visible = r.visible /\ s.found = r.found /\ s.touched = r.touched
        /\ s.shared = r.shared
    BY DEF Searching
  <1> HIDE DEF s
  <1>2. Known(s, r) /\ Unfound(s) /\ Judged(s) /\ Found(s)
    BY <1>1 DEF Known, Good, Unfound, Judged, Found, Early, Judging
  <1>3. Shared(s) /\ Visible(s)
    BY <1>1, <1>2, SharedLasts, VisibleLasts DEF Good
  <1>4. QED
    BY <1>1, <1>2, <1>3 DEF Fine, Good, s

LEMMA CopyFine ==
  ASSUME NEW r \in Searching, Good(r), NEW is \in SUBSET Skills, r.pc = "copy"
  PROVE  Fine([r EXCEPT !.pc = "next", !.listed = is, !.todo = is])
  <1> DEFINE s == [r EXCEPT !.pc = "next", !.listed = is, !.todo = is]
  <1>1. /\ s \in Searching /\ s.pc = "next"
        /\ s.caller = r.caller /\ s.constraint = r.constraint
        /\ s.todo = is /\ s.listed = is /\ s.lookedUp = r.lookedUp
        /\ s.visible = r.visible /\ s.found = r.found /\ s.touched = r.touched
        /\ s.shared = r.shared
    BY DEF Searching
  <1> HIDE DEF s
  <1>2. Known(s, r) /\ Unfound(s) /\ Judged(s) /\ Found(s)
    BY <1>1 DEF Known, Good, Unfound, Judged, Found, Ahead, Early, Judging, Nothing
  <1>3. Shared(s) /\ Visible(s)
    BY <1>1, <1>2, SharedLasts, VisibleLasts DEF Good
  <1>4. QED
    BY <1>1, <1>2, <1>3 DEF Fine, Good, s

\* A skill is taken up: its pinned version at once, or a scan of its versions.
LEMMA ScanFine ==
  ASSUME NEW r \in Searching, Good(r), r.pc = "next", NEW x \in r.todo,
         NEW s \in Searching, s.pc \in {"scan", "judge"}, Known(s, r), s.listed = r.listed,
         s.todo = r.todo \ {x}, s.at = x, s.lookedUp = r.lookedUp, s.visible = r.visible,
         s.pc = "judge" => s.version # None /\ s.version = Resolved(x, r.constraint)
  PROVE  Fine(s)
  <1>1. Ahead(r) = r.todo /\ Ahead(s) = r.todo
    BY DEF Ahead, Judging
  <1>2. Unfound(s)
    BY <1>1 DEF Good, Unfound, Known, Early, Judging
  <1>3. Judged(s)
    BY DEF Judged, Known
  <1>4. Shared(s) /\ Visible(s) /\ Found(s)
    BY <1>1, SharedLasts, VisibleLasts, FoundLasts DEF Good
  <1>5. QED
    BY <1>2, <1>3, <1>4 DEF Fine, Good

\* The versions were resolved, or the caller is nobody and sees no grants.
LEMMA JudgeFine ==
  ASSUME NEW r \in Searching, Good(r), r.pc \in {"scan", "judge", "user", "tenant"},
         NEW s \in Searching, s.pc = "judge", Known(s, r), s.listed = r.listed,
         s.todo = r.todo, s.at = r.at,
         s.version # None, r.at \notin r.touched => s.version = Resolved(r.at, r.constraint),
         Shared(s), Visible(s)
  PROVE  Fine(s)
  <1>1. Ahead(r) = Ahead(s)
    BY DEF Ahead, Judging
  <1>2. Unfound(s)
    BY <1>1 DEF Good, Unfound, Known, Early, Judging
  <1>3. Judged(s)
    BY DEF Judged, Known
  <1>4. Found(s)
    BY <1>1, FoundLasts DEF Good, Judging
  <1>5. QED
    BY <1>2, <1>3, <1>4 DEF Fine, Good

LEMMA ScannedFine ==
  ASSUME NEW r \in Searching, Good(r), r.pc = "scan", NEW v \in Versions,
         v = Resolved(r.at, r.constraint), v # None
  PROVE  Fine([r EXCEPT !.pc = "judge", !.version = v])
  <1> DEFINE s == [r EXCEPT !.pc = "judge", !.version = v]
  <1>1. /\ s \in Searching /\ s.pc = "judge" /\ s.version = v
        /\ s.caller = r.caller /\ s.constraint = r.constraint /\ s.listed = r.listed
        /\ s.todo = r.todo /\ s.at = r.at /\ s.lookedUp = r.lookedUp
        /\ s.visible = r.visible /\ s.found = r.found /\ s.touched = r.touched
        /\ s.shared = r.shared
    BY DEF Searching
  <1> HIDE DEF s
  <1>2. Known(s, r)
    BY <1>1 DEF Known
  <1>3. Shared(s) /\ Visible(s)
    BY <1>1, <1>2, SharedLasts, VisibleLasts DEF Good
  <1>4. Fine(s)
    BY <1>1, <1>2, <1>3, JudgeFine
  <1>5. QED
    BY <1>4 DEF s

LEMMA NobodyFine ==
  ASSUME NEW r \in Searching, Good(r), r.pc = "judge", r.caller = Anonymous
  PROVE  Fine([r EXCEPT !.lookedUp = TRUE])
  <1> DEFINE s == [r EXCEPT !.lookedUp = TRUE]
  <1>1. /\ s \in Searching /\ s.pc = "judge" /\ s.version = r.version
        /\ s.caller = r.caller /\ s.constraint = r.constraint /\ s.listed = r.listed
        /\ s.todo = r.todo /\ s.at = r.at
        /\ s.visible = r.visible /\ s.found = r.found /\ s.touched = r.touched
        /\ s.shared = r.shared
    BY DEF Searching
  <1> HIDE DEF s
  <1>2. Known(s, r)
    BY <1>1 DEF Known
  <1>3. Shared(s)
    BY <1>1, <1>2, SharedLasts DEF Good
  <1>4. Visible(s)
    BY <1>1 DEF Good, Visible, Holds, Grantees
  <1>5. Fine(s)
    BY <1>1, <1>2, <1>3, <1>4, JudgeFine DEF Good, Judged
  <1>6. QED
    BY <1>5 DEF s

\* The grants to the caller are read, then those to the caller's tenant; what has
\* been shared or revoked in between is touched.
SharedTo(grantee) == {g.skill : g \in {h \in grants : h.grantee = grantee}}

LEMMA UserFine ==
  ASSUME SearchTypeOK, NEW r \in Searching, Good(r), r.pc = "user"
  PROVE  Fine([r EXCEPT !.pc = "tenant", !.visible = SharedTo(r.caller)])
  <1> DEFINE s == [r EXCEPT !.pc = "tenant", !.visible = SharedTo(r.caller)]
  <1>1. SharedTo(r.caller) \subseteq Skills
    BY DEF SharedTo, SearchTypeOK, Grant
  <1>2. /\ s \in Searching /\ s.pc = "tenant" /\ s.version = r.version
        /\ s.caller = r.caller /\ s.constraint = r.constraint /\ s.listed = r.listed
        /\ s.todo = r.todo /\ s.at = r.at /\ s.lookedUp = r.lookedUp
        /\ s.visible = SharedTo(r.caller) /\ s.found = r.found /\ s.touched = r.touched
        /\ s.shared = r.shared
    BY <1>1 DEF Searching
  <1> HIDE DEF s
  <1>3. r.caller # Anonymous /\ ~r.lookedUp
    BY DEF Good, Judged
  <1>4. Known(s, r) /\ Ahead(s) = Ahead(r)
    BY <1>2 DEF Known, Ahead, Judging
  <1>5. SharedTo(r.caller) \subseteq SharedWith(r.caller, grants)
    BY <1>3 DEF SharedTo, SharedWith, Grantees
  <1>6. Shared(s)
    BY <1>2, <1>5 DEF Good, Shared, WasShared
  <1>7. Visible(s)
    BY <1>2, <1>3 DEF Visible, SharedTo, Holds
  <1>8. Unfound(s) /\ Judged(s)
    BY <1>2, <1>3, <1>4 DEF Good, Unfound, Judged, Early, Judging
  <1>9. Found(s)
    BY <1>2, <1>4, FoundLasts DEF Good, Judging
  <1>10. QED
    BY <1>2, <1>6, <1>7, <1>8, <1>9 DEF Fine, Good, s

LEMMA TenantFine ==
  ASSUME SearchTypeOK, NEW r \in Searching, Good(r), r.pc = "tenant"
  PROVE  Fine([r EXCEPT !.pc = "judge", !.lookedUp = TRUE,
                        !.visible = r.visible \union SharedTo(TenantOf[r.caller])])
  <1> DEFINE both == r.visible \union SharedTo(TenantOf[r.caller])
             s == [r EXCEPT !.pc = "judge", !.lookedUp = TRUE, !.visible = both]
  <1>1. both \subseteq Skills
    BY SearchingFields DEF SharedTo, SearchTypeOK, Grant
  <1>2. /\ s \in Searching /\ s.pc = "judge" /\ s.version = r.version
        /\ s.caller = r.caller /\ s.constraint = r.constraint /\ s.listed = r.listed
        /\ s.todo = r.todo /\ s.at = r.at
        /\ s.visible = both /\ s.found = r.found /\ s.touched = r.touched
        /\ s.shared = r.shared
    BY <1>1 DEF Searching
  <1> HIDE DEF s
  <1>3. r.caller # Anonymous
    BY DEF Good, Judged
  <1>4. Known(s, r)
    BY <1>2 DEF Known
  <1>5. SharedTo(TenantOf[r.caller]) \subseteq SharedWith(r.caller, grants)
    BY <1>3 DEF SharedTo, SharedWith, Grantees
  <1>6. Shared(s)
    BY <1>2, <1>5 DEF Good, Shared, WasShared
  <1>7. Visible(s)
    <2>1. ASSUME NEW x \in Skills \ r.touched PROVE x \in both <=> Holds(x, Grantees(r.caller))
      <3>1. x \in r.visible <=> Holds(x, {r.caller})
        BY DEF Good, Visible
      <3>2. x \in SharedTo(TenantOf[r.caller]) <=> Holds(x, {TenantOf[r.caller]})
        BY DEF SharedTo, Holds
      <3>3. Grantees(r.caller) = {r.caller, TenantOf[r.caller]}
        BY <1>3 DEF Grantees
      <3>4. QED
        BY <3>1, <3>2, <3>3 DEF Holds
    <2> HIDE DEF both
    <2>2. QED
      BY <1>2, <1>3, <2>1 DEF Visible
  <1>8. Fine(s)
    BY <1>2, <1>4, <1>6, <1>7, JudgeFine DEF Good, Judged
  <1>9. QED
    BY <1>8 DEF s

\* can_view over the visible ids decides as can_view over the skill's own grants.
LEMMA JudgementFine ==
  ASSUME SearchTypeOK, NEW r \in Searching, Good(r), r.pc = "judge",
         Public(r.at, r.version) \/ r.lookedUp,
         NEW w, w = (IF Public(r.at, r.version) \/ OwnTenant(r.at, r.caller) \/ r.at \in r.visible
                     THEN r.version ELSE None)
  PROVE  Fine([r EXCEPT !.pc = "next", !.found[r.at] = w])
  <1> DEFINE x == r.at
             s == [r EXCEPT !.pc = "next", !.found[x] = w]
  <1>1. x \in Skills /\ r.version # None /\ x \in Ahead(r)
    BY DEF Good, Judged, Unfound, Ahead, Judging
  <1>2. r.version \in Versions /\ r.found \in [Skills -> Versions \union {None}]
    BY <1>1, SearchingFields
  <1>3. [r.found EXCEPT ![x] = w] \in [Skills -> Versions \union {None}]
    BY <1>1, <1>2
  <1>4. /\ s \in Searching /\ s.pc = "next"
        /\ s.caller = r.caller /\ s.constraint = r.constraint /\ s.listed = r.listed
        /\ s.todo = r.todo /\ s.lookedUp = r.lookedUp
        /\ s.visible = r.visible /\ s.touched = r.touched /\ s.shared = r.shared
        /\ s.found = [r.found EXCEPT ![x] = w]
    BY <1>3 DEF Searching
  <1>5. s.found[x] = w /\ \A y \in Skills : y # x => s.found[y] = r.found[y]
    BY <1>1, <1>2, <1>4
  <1> HIDE DEF s
  <1>6. Visible(s)
    BY <1>4 DEF Good, Visible
  <1>7. Shared(s)
    BY <1>1, <1>4, <1>5 DEF Good, Shared, WasShared
  <1>8. Judged(s)
    BY <1>4 DEF Judged
  <1>9. Unfound(s)
    <2>1. \A y \in r.todo : y \in Skills /\ y # x /\ r.found[y] = None
      BY DEF Good, Unfound, Ahead, Judging
    <2>2. QED
      BY <1>4, <1>5, <2>1 DEF Unfound, Ahead, Early, Judging
  <1>10. Found(s)
    <2>1. ASSUME x \notin r.touched PROVE w = Viewable(x, r.caller, r.constraint)
      <3>1. r.version = Resolved(x, r.constraint)
        BY <2>1 DEF Good, Judged
      <3>2. CanView(x, r.version, r.caller) <=>
              Public(x, r.version) \/ OwnTenant(x, r.caller) \/ Holds(x, Grantees(r.caller))
        BY DEF CanView, Holds
      <3>3. r.lookedUp => (x \in r.visible <=> Holds(x, Grantees(r.caller)))
        BY <1>1, <2>1 DEF Good, Visible
      <3>4. QED
        BY <1>1, <3>1, <3>2, <3>3 DEF Viewable
    <2>2. ASSUME NEW y \in r.listed \ (r.todo \union r.touched), y # x
          PROVE  s.found[y] = Viewable(y, r.caller, r.constraint)
      <3>1. y \in Skills /\ y \in r.listed \ (Ahead(r) \union r.touched)
        BY <2>2, SearchingFields DEF Ahead
      <3>2. r.found[y] = Viewable(y, r.caller, r.constraint)
        BY <3>1 DEF Good, Found, Judging
      <3>3. QED
        BY <1>5, <2>2, <3>1, <3>2
    <2>3. QED
      BY <1>4, <1>5, <2>1, <2>2 DEF Found, Ahead, Judging
  <1>11. Fine(s)
    BY <1>4, <1>6, <1>7, <1>8, <1>9, <1>10 DEF Fine, Good
  <1>12. QED
    BY <1>11 DEF s

-----------------------------------------------------------------------------
\* A step of a search leaves the searcher idle or with a search that is fine.
Moves(th, r) == search' = [search EXCEPT ![th] = r] /\ UNCHANGED <<entry, grants>>

LEMMA StepFine ==
  ASSUME SearchTypeOK, NEW th \in Searchers, search[th] \in Searching, Good(search[th]),
         SearchStep(th)
  PROVE  \E r : Moves(th, r) /\ (r = NoSearch \/ Fine(r))
  <1> DEFINE r == search[th]
  <1>1. search \in [Searchers -> Searching \union {NoSearch}] /\ r \in Searching /\ Good(r)
    BY DEF SearchTypeOK
  <1>2. ASSUME NEW l, SearchGoto(th, l), UNCHANGED <<entry, grants>> PROVE Moves(th, [r EXCEPT !.pc = l])
    BY <1>2 DEF Moves, SearchGoto
  <1>3. ASSUME NEW l, NEW q, q = [r EXCEPT !.pc = l], Fine(q), SearchGoto(th, l),
               UNCHANGED <<entry, grants>>
        PROVE  \E s : Moves(th, s) /\ (s = NoSearch \/ Fine(s))
    BY <1>2, <1>3
  <1>4. CASE AllIds(th)
    <2>1. r.pc = "ids" /\ ids \in SUBSET Skills
      BY <1>4 DEF AllIds, SearchAt, SearchTypeOK
    <2>2. CASE cached
      <3>1. Fine([r EXCEPT !.pc = "copy"])
        BY <1>1, <2>1, GotoFine
      <3>2. QED
        BY <1>3, <1>4, <2>2, <3>1 DEF AllIds
    <2>3. CASE ~cached
      <3>1. Fine([r EXCEPT !.pc = "keep", !.listed = ids])
        BY <1>1, <2>1, KeepFine
      <3>2. QED
        BY <1>4, <2>3, <3>1 DEF AllIds, Update, Moves
    <2>4. QED
      BY <2>2, <2>3
  <1>5. CASE KeepIds(th)
    <2>1. Fine([r EXCEPT !.pc = "copy"])
      BY <1>1, <1>5, GotoFine DEF KeepIds, SearchAt
    <2>2. QED
      BY <1>3, <1>5, <2>1 DEF KeepIds
  <1>6. CASE CopyIds(th)
    <2>1. r.pc = "copy" /\ cache \in SUBSET Skills
      BY <1>6 DEF CopyIds, SearchAt, SearchTypeOK
    <2>2. CASE cached
      <3>1. Fine([r EXCEPT !.pc = "next", !.listed = cache, !.todo = cache])
        BY <1>1, <2>1, CopyFine
      <3>2. QED
        BY <1>6, <2>2, <3>1 DEF CopyIds, Update, Moves
    <2>3. CASE ~cached
      <3>1. Fine([r EXCEPT !.pc = "failed"])
        BY <1>1, <2>1, GotoFine
      <3>2. QED
        BY <1>3, <1>6, <2>3, <3>1 DEF CopyIds
    <2>4. QED
      BY <2>2, <2>3
  <1>7. CASE StartScan(th)
    <2>1. r.pc = "next"
      BY <1>7 DEF StartScan, SearchAt
    <2>2. PICK x \in r.todo :
            Update(th, IF Pinned(x, r.constraint) # {}
                       THEN [[r EXCEPT !.at = x, !.todo = @ \ {x}] EXCEPT !.pc = "judge",
                                        !.version = Max(Pinned(x, r.constraint))]
                       ELSE [[r EXCEPT !.at = x, !.todo = @ \ {x}] EXCEPT !.pc = "scan", !.keys = Keys(x)])
      BY <1>7 DEF StartScan
    <2>3. x \in Skills /\ r.constraint \in Constraints
      BY <1>1, SearchingFields
    <2>4. CASE Pinned(x, r.constraint) # {}
      <3> DEFINE v == Max(Pinned(x, r.constraint))
                 s == [[r EXCEPT !.at = x, !.todo = @ \ {x}] EXCEPT !.pc = "judge", !.version = v]
      <3>1. v \in Versions /\ v # None /\ v = Resolved(x, r.constraint)
        BY <2>3, <2>4, ResolvedTyped
      <3> HIDE DEF v
      <3>2. /\ s \in Searching /\ s.pc = "judge" /\ Known(s, r) /\ s.listed = r.listed
            /\ s.todo = r.todo \ {x} /\ s.at = x /\ s.lookedUp = r.lookedUp /\ s.visible = r.visible
            /\ s.version = v
        BY <1>1, <2>3, <3>1 DEF Searching, Known
      <3>3. Update(th, s)
        BY <2>2, <2>4 DEF v
      <3> HIDE DEF s
      <3>4. Fine(s)
        BY <1>1, <2>1, <3>1, <3>2, ScanFine
      <3>5. QED
        BY <1>7, <3>3, <3>4 DEF StartScan, Update, Moves
    <2>5. CASE Pinned(x, r.constraint) = {}
      <3> DEFINE s == [[r EXCEPT !.at = x, !.todo = @ \ {x}] EXCEPT !.pc = "scan", !.keys = Keys(x)]
      <3>1. Keys(x) \in SUBSET Versions
        BY <2>3, ResolvedTyped
      <3>2. /\ s \in Searching /\ s.pc = "scan" /\ Known(s, r) /\ s.listed = r.listed
            /\ s.todo = r.todo \ {x} /\ s.at = x /\ s.lookedUp = r.lookedUp /\ s.visible = r.visible
        BY <1>1, <2>3, <3>1 DEF Searching, Known
      <3>3. Update(th, s)
        BY <2>2, <2>5
      <3> HIDE DEF s
      <3>4. Fine(s)
        BY <1>1, <2>1, <3>2, ScanFine
      <3>5. QED
        BY <1>7, <3>3, <3>4 DEF StartScan, Update, Moves
    <2>6. QED
      BY <2>4, <2>5
  <1>8. CASE EndScan(th)
    <2>1. r.pc = "scan" /\ UNCHANGED <<entry, grants>> /\ r.constraint \in Constraints
      BY <1>1, <1>8, SearchingFields DEF EndScan, SearchAt
    <2>2. r.at \in Skills
      BY <2>1 DEF Good, Unfound, Ahead, Judging
    <2> DEFINE v == Resolved(r.at, r.constraint)
    <2>3. v \in Versions \union {None}
      BY <2>1, <2>2, ResolvedTyped
    <2>4. CASE SearchGoto(th, "failed")
      <3>1. Fine([r EXCEPT !.pc = "failed"])
        BY <1>1, <2>1, GotoFine
      <3>2. QED
        BY <1>3, <2>1, <2>4, <3>1
    <2>5. CASE v = None /\ SearchGoto(th, "next")
      <3>1. Fine([r EXCEPT !.pc = "next"])
        BY <1>1, <2>1, <2>5, GotoFine
      <3>2. QED
        BY <1>3, <2>1, <2>5, <3>1
    <2>6. CASE v # None /\ Update(th, [r EXCEPT !.pc = "judge", !.version = v])
      <3>1. v \in Versions
        BY <2>3, <2>6
      <3>2. Fine([r EXCEPT !.pc = "judge", !.version = v])
        BY <1>1, <2>1, <2>6, <3>1, ScannedFine
      <3>3. QED
        BY <2>1, <2>6, <3>2 DEF Update, Moves
    <2>7. QED
      BY <1>8, <2>4, <2>5, <2>6 DEF EndScan
  <1>9. CASE ReadGrants(th)
    <2>1. r.pc = "judge" /\ ~r.lookedUp /\ UNCHANGED <<entry, grants>>
      BY <1>9 DEF ReadGrants, SearchAt, NeedsGrants
    <2>2. CASE r.caller = Anonymous
      <3>1. Fine([r EXCEPT !.lookedUp = TRUE])
        BY <1>1, <2>1, <2>2, NobodyFine
      <3>2. QED
        BY <1>9, <2>1, <2>2, <3>1 DEF ReadGrants, Update, Moves
    <2>3. CASE r.caller # Anonymous
      <3>1. Fine([r EXCEPT !.pc = "user"])
        BY <1>1, <2>1, <2>3, GotoFine
      <3>2. QED
        BY <1>3, <1>9, <2>1, <2>3, <3>1 DEF ReadGrants
    <2>4. QED
      BY <2>2, <2>3
  <1>10. CASE ReadUserGrants(th)
    <2>1. Fine([r EXCEPT !.pc = "tenant", !.visible = SharedTo(r.caller)])
      BY <1>1, <1>10, UserFine DEF ReadUserGrants, SearchAt
    <2>2. QED
      BY <1>10, <2>1 DEF ReadUserGrants, Update, Moves, SharedTo
  <1>11. CASE ReadTenantGrants(th)
    <2>1. Fine([r EXCEPT !.pc = "judge", !.lookedUp = TRUE,
                         !.visible = r.visible \union SharedTo(TenantOf[r.caller])])
      BY <1>1, <1>11, TenantFine DEF ReadTenantGrants, SearchAt
    <2>2. QED
      BY <1>11, <2>1 DEF ReadTenantGrants, Update, Moves, SharedTo
  <1>12. CASE Judge(th)
    <2>1. r.pc = "judge" /\ (Public(r.at, r.version) \/ r.lookedUp)
      BY <1>12 DEF Judge, SearchAt, NeedsGrants
    <2> DEFINE w == IF Public(r.at, r.version) \/ OwnTenant(r.at, r.caller) \/ r.at \in r.visible
                    THEN r.version ELSE None
    <2>2. Moves(th, [r EXCEPT !.pc = "next", !.found[r.at] = w])
      BY <1>12 DEF Judge, Update, Moves
    <2> HIDE DEF w
    <2>3. Fine([r EXCEPT !.pc = "next", !.found[r.at] = w])
      BY <1>1, <2>1, JudgementFine DEF w
    <2>4. QED
      BY <2>2, <2>3
  <1>13. CASE EndSearch(th)
    <2>1. Fine([r EXCEPT !.pc = "done"])
      BY <1>1, <1>13, GotoFine DEF EndSearch, SearchAt
    <2>2. QED
      BY <1>3, <1>13, <2>1 DEF EndSearch
  <1>14. CASE Answer(th)
    BY <1>14 DEF Answer, Update, Moves
  <1>15. QED
    BY <1>4, <1>5, <1>6, <1>7, <1>8, <1>9, <1>10, <1>11, <1>12, <1>13, <1>14 DEF SearchStep

-----------------------------------------------------------------------------
\* While releases and grants stay, so does what a search knows.
LEMMA StillGood ==
  ASSUME UNCHANGED <<entry, grants>>, NEW r, Good(r)
  PROVE  Good(r)'
  <1>1. \A s, caller, c : Viewable(s, caller, c)' = Viewable(s, caller, c)
    BY DEF Viewable, Resolved, Pinned, Keys, CanView
  <1>2. \A s, c : Resolved(s, c)' = Resolved(s, c)
    BY DEF Resolved, Pinned, Keys
  <1>3. \A s, grantees : Holds(s, grantees)' = Holds(s, grantees)
    BY DEF Holds
  <1>4. (Unfound(r)' <=> Unfound(r)) /\ (Shared(r)' <=> Shared(r))
    BY DEF Unfound, Shared, WasShared
  <1>5. Judged(r)' <=> Judged(r)
    BY <1>2 DEF Judged
  <1>6. Visible(r)' <=> Visible(r)
    BY <1>3 DEF Visible
  <1>7. Found(r)' <=> Found(r)
    BY <1>1 DEF Found
  <1>8. QED
    BY <1>4, <1>5, <1>6, <1>7 DEF Good

\* A change is about one skill: what others resolve to and are shared with stays.
ChangedOnly(x) ==
  /\ \A s \in Skills : s # x => entry'[s] = entry[s]
  /\ \A s \in Skills, grantees \in SUBSET (Users \union Tenants) :
       s # x => (Holds(s, grantees)' <=> Holds(s, grantees))

LEMMA GranteesTyped ==
  ASSUME NEW caller \in Callers
  PROVE  Grantees(caller) \in SUBSET (Users \union Tenants)
  BY SearchAssumption DEF Grantees, Callers

LEMMA OthersKeep ==
  ASSUME SearchTypeOK, NEW x \in Skills, ChangedOnly(x), NEW s \in Skills, s # x,
         NEW caller \in Callers, NEW c
  PROVE  /\ Resolved(s, c)' = Resolved(s, c)
         /\ Holds(s, Grantees(caller))' <=> Holds(s, Grantees(caller))
         /\ Viewable(s, caller, c)' = Viewable(s, caller, c)
  <1>1. Resolved(s, c)' = Resolved(s, c)
    BY DEF ChangedOnly, Resolved, Pinned, Keys
  <1>2. Holds(s, Grantees(caller))' <=> Holds(s, Grantees(caller))
    BY GranteesTyped DEF ChangedOnly
  <1>3. \A v : CanView(s, v, caller)' <=> CanView(s, v, caller)
    BY <1>2 DEF CanView, Holds
  <1>4. QED
    BY <1>1, <1>2, <1>3 DEF Viewable

\* A search that lives through a change of a skill makes no claim about it.
Touched(r, x) ==
  [r EXCEPT !.touched = @ \union {x}, !.shared = @ \union SharedWith(r.caller, grants')]

LEMMA TouchedFine ==
  ASSUME SearchTypeOK, grants' \in SUBSET Grant, NEW x \in Skills, ChangedOnly(x),
         NEW r \in Searching, Good(r), NEW s, s = Touched(r, x)
  PROVE  /\ s \in Searching /\ Good(s)' /\ s.pc = r.pc /\ s.version = r.version
  <1>1. SharedWith(r.caller, grants') \in SUBSET Skills
    BY DEF SharedWith, Grant
  <1>2. /\ s \in Searching /\ s.pc = r.pc /\ s.version = r.version
        /\ s.caller = r.caller /\ s.constraint = r.constraint /\ s.listed = r.listed
        /\ s.todo = r.todo /\ s.at = r.at /\ s.lookedUp = r.lookedUp
        /\ s.visible = r.visible /\ s.found = r.found /\ s.touched = r.touched \union {x}
        /\ s.shared = r.shared \union SharedWith(r.caller, grants')
    BY <1>1 DEF Touched, Searching
  <1>3. r.caller \in Callers /\ r.listed \in SUBSET Skills
    BY SearchingFields
  <1>4. Ahead(s) = Ahead(r)
    BY <1>2 DEF Ahead
  <1>5. Unfound(s)'
    BY <1>2, <1>4 DEF Good, Unfound, Ahead
  <1>6. Judged(s)'
    <2>1. ASSUME r.pc \in {"judge", "user", "tenant"}, r.at \notin s.touched
          PROVE  r.version = Resolved(r.at, r.constraint)'
      <3>1. r.at \in Skills /\ r.at # x /\ r.at \notin r.touched
        BY <1>2, <2>1 DEF Good, Unfound, Ahead, Judging
      <3>2. QED
        BY <1>3, <2>1, <3>1, OthersKeep DEF Good, Judged
    <2>2. QED
      BY <1>2, <2>1 DEF Good, Judged
  <1>7. Shared(s)'
    BY <1>2 DEF Good, Shared, WasShared
  <1>8. Visible(s)'
    <2>1. ASSUME NEW y \in Skills \ s.touched
          PROVE  /\ r.pc = "tenant" => (y \in r.visible <=> Holds(y, {r.caller})')
                 /\ r.lookedUp => (y \in r.visible <=> Holds(y, Grantees(r.caller))')
      <3>1. y \in Skills \ r.touched /\ y # x
        BY <1>2, <2>1
      <3>2. Holds(y, Grantees(r.caller))' <=> Holds(y, Grantees(r.caller))
        BY <1>3, <3>1, OthersKeep
      <3>3. r.pc = "tenant" => {r.caller} \in SUBSET (Users \union Tenants)
        BY <1>3 DEF Good, Judged, Callers
      <3>4. r.pc = "tenant" => (Holds(y, {r.caller})' <=> Holds(y, {r.caller}))
        BY <3>1, <3>3 DEF ChangedOnly
      <3>5. QED
        BY <3>1, <3>2, <3>4 DEF Good, Visible
    <2>2. QED
      BY <1>2, <2>1 DEF Good, Visible
  <1>9. Found(s)'
    <2>1. ASSUME r.pc \in Judging \union {"next", "done"},
                 NEW y \in r.listed \ (Ahead(r) \union s.touched)
          PROVE  r.found[y] = Viewable(y, r.caller, r.constraint)'
      <3>1. y \in Skills /\ y # x /\ y \in r.listed \ (Ahead(r) \union r.touched)
        BY <1>2, <1>3, <2>1
      <3>2. QED
        BY <1>3, <2>1, <3>1, OthersKeep DEF Good, Found
    <2>2. QED
      BY <1>2, <1>4, <2>1 DEF Found, Ahead
  <1>10. QED
    BY <1>2, <1>5, <1>6, <1>7, <1>8, <1>9 DEF Good

-----------------------------------------------------------------------------
IndexTyped ==
  /\ ids \in SUBSET Skills
  /\ entry \in [Skills -> [Versions -> {"active", "yanked", None}]]
  /\ cached \in BOOLEAN /\ cache \in SUBSET Skills
  /\ grants \in SUBSET Grant
  /\ put \in [Writers -> (Skills \X Versions) \union {None}]
  /\ changes \in 0..MaxChanges

LEMMA SearchersTyped ==
  ASSUME SearchInv, NEW th \in Searchers, search[th] # NoSearch
  PROVE  search[th] \in Searching /\ Good(search[th])
  BY DEF SearchInv, SearchTypeOK

\* A searcher's step leaves the others' searches as they are.
LEMMA MovedInv ==
  ASSUME SearchInv, IndexTyped', NEW th \in Searchers, NEW r, Moves(th, r), r = NoSearch \/ Fine(r)
  PROVE  SearchInv'
  <1>1. /\ search \in [Searchers -> Searching \union {NoSearch}]
        /\ search' \in [Searchers -> Searching \union {NoSearch}] /\ search'[th] = r
        /\ \A o \in Searchers \ {th} : search'[o] = search[o]
    BY DEF SearchInv, SearchTypeOK, Moves, Fine
  <1>2. ASSUME NEW o \in Searchers, search'[o] # NoSearch PROVE Good(search'[o])
    BY <1>1, <1>2, SearchersTyped DEF Fine
  <1>3. ASSUME NEW o \in Searchers, NEW q, q = search'[o], q # NoSearch PROVE Good(q)'
    BY <1>2, <1>3, StillGood DEF Moves
  <1>4. ASSUME NEW o \in Searchers, search'[o].pc = "judge" PROVE search'[o].version # None
    BY <1>1, <1>4 DEF SearchInv, SearchTypeOK, SearchAt, Fine, NoSearch
  <1>5. SearchTypeOK'
    BY <1>1, <1>4 DEF SearchTypeOK, SearchAt, IndexTyped
  <1>6. \A o \in Searchers : search'[o] # NoSearch => Good(search[o])'
    BY <1>3
  <1>7. QED
    BY <1>5, <1>6 DEF SearchInv

\* Every search in progress lives through a change.
LEMMA TouchedInv ==
  ASSUME SearchInv, IndexTyped', NEW x \in Skills, ChangedOnly(x), Touch(x)
  PROVE  SearchInv'
  <1>0. SearchTypeOK /\ grants' \in SUBSET Grant
    BY DEF SearchInv, IndexTyped
  <1>1. ASSUME NEW o \in Searchers, search[o] = NoSearch PROVE search'[o] = NoSearch
    BY <1>1 DEF Touch
  <1>2. ASSUME NEW o \in Searchers, NEW r, r = search[o], r # NoSearch,
               NEW s, s = search'[o]
        PROVE  s \in Searching /\ Good(s)' /\ s.pc = r.pc /\ s.version = r.version
    <2>1. r \in Searching /\ Good(r)
      BY <1>2, SearchersTyped
    <2>2. s = Touched(r, x)
      BY <1>2 DEF Touch, Touched
    <2>3. QED
      BY <1>0, <2>1, <2>2, TouchedFine
  <1>3. search' \in [Searchers -> Searching \union {NoSearch}]
    <2>1. \A o \in Searchers : search'[o] \in Searching \union {NoSearch}
      BY <1>1, <1>2
    <2>2. \E f : search' = [o \in Searchers |-> f[o]]
      <3>1. search' = [o \in Searchers |-> search'[o]]
        BY DEF Touch
      <3>2. QED
        BY <3>1
    <2>3. QED
      BY <2>1, <2>2
  <1>4. ASSUME NEW o \in Searchers, search'[o].pc = "judge" PROVE search'[o].version # None
    BY <1>0, <1>1, <1>2, <1>4 DEF SearchTypeOK, SearchAt, NoSearch
  <1>5. SearchTypeOK'
    BY <1>3, <1>4 DEF SearchTypeOK, SearchAt, IndexTyped
  <1>6. \A o \in Searchers : search'[o] # NoSearch => Good(search[o])'
    BY <1>1, <1>2
  <1>7. QED
    BY <1>5, <1>6 DEF SearchInv

LEMMA EntryChanged ==
  ASSUME SearchTypeOK, NEW x \in Skills, NEW v \in Versions, NEW status \in {"active", "yanked"},
         entry' = [entry EXCEPT ![x][v] = status], UNCHANGED grants
  PROVE  ChangedOnly(x) /\ entry' \in [Skills -> [Versions -> {"active", "yanked", None}]]
  BY DEF ChangedOnly, SearchTypeOK, Holds

LEMMA GrantsChanged ==
  ASSUME SearchTypeOK, NEW g \in Grant, UNCHANGED entry,
         grants' = grants \union {g} \/ grants' = grants \ {g}
  PROVE  g.skill \in Skills /\ ChangedOnly(g.skill) /\ grants' \in SUBSET Grant
  BY DEF ChangedOnly, SearchTypeOK, Holds, Grant

LEMMA SearchInvStep ==
  ASSUME SearchInv, [SearchNext]_searchVars
  PROVE  SearchInv'
  <1>0. SearchTypeOK /\ IndexTyped
    BY DEF SearchInv, SearchTypeOK, IndexTyped
  <1>1. ASSUME Change PROVE changes' \in 0..MaxChanges
    BY <1>0, <1>1, SearchAssumption DEF Change, IndexTyped
  <1>2. ASSUME NEW th \in Searchers, NEW caller \in Callers, NEW c \in Constraints,
               BeginSearch(th, caller, c)
        PROVE  SearchInv'
    <2> DEFINE r == [pc |-> "ids", caller |-> caller, constraint |-> c, listed |-> {}, todo |-> {},
                     at |-> None, keys |-> {}, version |-> None,
                     lookedUp |-> FALSE, visible |-> {}, found |-> Nothing,
                     touched |-> {}, shared |-> SharedWith(caller, grants)]
    <2>1. Fine(r)
      BY <1>0, BeginFine
    <2>2. Moves(th, r) /\ IndexTyped'
      BY <1>0, <1>2 DEF BeginSearch, Update, Moves, IndexTyped
    <2> HIDE DEF r
    <2>3. QED
      BY <2>1, <2>2, MovedInv
  <1>3. ASSUME NEW th \in Searchers, SearchStep(th) PROVE SearchInv'
    <2>1. search[th] # NoSearch
      <3>1. search[th].pc # "idle"
        BY <1>3 DEF SearchStep, AllIds, KeepIds, CopyIds, StartScan, EndScan, ReadGrants,
                    ReadUserGrants, ReadTenantGrants, Judge, EndSearch, Answer, SearchAt
      <3>2. QED
        BY <3>1 DEF NoSearch
    <2>2. search[th] \in Searching /\ Good(search[th])
      BY <2>1, SearchersTyped
    <2>3. PICK r : Moves(th, r) /\ (r = NoSearch \/ Fine(r))
      BY <1>0, <1>3, <2>2, StepFine
    <2>4. IndexTyped'
      <3>1. KeepIds(th) => cached' = TRUE /\ cache' \in SUBSET Skills
        BY <2>2, SearchingFields DEF KeepIds
      <3>2. UNCHANGED <<ids, entry, grants, put, changes>>
        BY <1>3 DEF SearchStep, AllIds, KeepIds, CopyIds, StartScan, EndScan, ReadGrants, ReadUserGrants,
                  ReadTenantGrants, Judge, EndSearch, Answer
      <3>3. ~KeepIds(th) => UNCHANGED <<cached, cache>>
        BY <1>3 DEF SearchStep, AllIds, CopyIds, StartScan, EndScan, ReadGrants, ReadUserGrants,
                  ReadTenantGrants, Judge, EndSearch, Answer
      <3>4. QED
        BY <1>0, <3>1, <3>2, <3>3 DEF IndexTyped
    <2>5. QED
      BY <2>3, <2>4, MovedInv
  <1>4. ASSUME NEW w \in Writers, NEW s \in Skills, NEW v \in Versions, ReserveId(w, s, v)
        PROVE  SearchInv'
    <2>1. IndexTyped' /\ UNCHANGED <<entry, grants, search>>
      BY <1>0, <1>1, <1>4 DEF ReserveId, IndexTyped
    <2>2. ASSUME NEW o \in Searchers, NEW q, q = search'[o], q # NoSearch PROVE Good(q)'
      BY <2>1, <2>2, SearchersTyped, StillGood
    <2>3. QED
      BY <2>1, <2>2 DEF SearchInv, SearchTypeOK, SearchAt, IndexTyped
  <1>5. ASSUME NEW w \in Writers, NEW s \in Skills, NEW v \in Versions, StoreEntry(w, s, v)
        PROVE  SearchInv'
    <2>1. ChangedOnly(s) /\ entry' \in [Skills -> [Versions -> {"active", "yanked", None}]]
      BY <1>0, <1>5, EntryChanged DEF StoreEntry
    <2>2. IndexTyped'
      BY <1>0, <1>5, <2>1 DEF StoreEntry, IndexTyped
    <2>3. QED
      BY <1>5, <2>1, <2>2, TouchedInv DEF StoreEntry
  <1>6. ASSUME NEW s \in Skills, NEW v \in Versions, NEW status \in {"active", "yanked"},
               SetStatus(s, v, status)
        PROVE  SearchInv'
    <2>1. ChangedOnly(s) /\ entry' \in [Skills -> [Versions -> {"active", "yanked", None}]]
      BY <1>0, <1>6, EntryChanged DEF SetStatus
    <2>2. IndexTyped'
      BY <1>0, <1>1, <1>6, <2>1 DEF SetStatus, IndexTyped
    <2>3. QED
      BY <1>6, <2>1, <2>2, TouchedInv DEF SetStatus
  <1>7. ASSUME NEW g \in Grant, Share(g) \/ Revoke(g) PROVE SearchInv'
    <2>1. g.skill \in Skills /\ ChangedOnly(g.skill) /\ grants' \in SUBSET Grant
      BY <1>0, <1>7, GrantsChanged DEF Share, Revoke
    <2>2. IndexTyped'
      BY <1>0, <1>1, <1>7, <2>1 DEF Share, Revoke, IndexTyped
    <2>3. QED
      BY <1>7, <2>1, <2>2, TouchedInv DEF Share, Revoke
  <1>8. CASE UNCHANGED searchVars
    <2>1. IndexTyped' /\ UNCHANGED <<entry, grants, search>>
      BY <1>0, <1>8 DEF searchVars, IndexTyped
    <2>2. ASSUME NEW o \in Searchers, NEW q, q = search'[o], q # NoSearch PROVE Good(q)'
      BY <2>1, <2>2, SearchersTyped, StillGood
    <2>3. QED
      BY <2>1, <2>2 DEF SearchInv, SearchTypeOK, SearchAt, IndexTyped
  <1>9. QED
    BY <1>2, <1>3, <1>4, <1>5, <1>6, <1>7, <1>8 DEF SearchNext

\* Whatever is put, yanked, shared and revoked while they run, searches keep track
\* of what they may still claim.
THEOREM SearchInvariant == SearchSpec => []SearchInv
  <1>1. SearchInit => SearchInv
    <2>1. ASSUME SearchInit PROVE SearchTypeOK
      <3>1. IndexTyped
        <4>1. MaxChanges \in Nat
          BY SearchAssumption
        <4>2. changes \in 0..MaxChanges
          BY <2>1, <4>1 DEF SearchInit
        <4>3. entry \in [Skills -> [Versions -> {"active", "yanked", None}]]
          BY <2>1 DEF SearchInit
        <4>4. QED
          BY <2>1, <4>2, <4>3 DEF SearchInit, IndexTyped
      <3>2. \A th \in Searchers : search[th] = NoSearch /\ search[th].pc = "idle"
        BY <2>1 DEF SearchInit, NoSearch
      <3>3. search \in [Searchers -> Searching \union {NoSearch}]
        BY <2>1 DEF SearchInit
      <3>4. QED
        BY <3>1, <3>2, <3>3 DEF SearchTypeOK, SearchAt, IndexTyped
    <2>2. QED
      BY <2>1 DEF SearchInit, SearchInv
  <1>2. SearchInv /\ [SearchNext]_searchVars => SearchInv'
    BY SearchInvStep
  <1>3. QED
    BY <1>1, <1>2, PTL DEF SearchSpec

\* The index, its cached list and the searches under way only hold what they may.
THEOREM SearchTyped == SearchSpec => []SearchTypeOK
  <1>1. SearchInv => SearchTypeOK
    BY DEF SearchInv
  <1>2. QED
    BY SearchInvariant, <1>1, PTL

\* A search (index/query.py) returns of each skill it lists what the metadata
\* endpoint would, for every version order, constraint and caller, unless that
\* skill was changed while it ran.
THEOREM SearchesAreExact == SearchSpec => []SearchIsExact
  <1>1. SearchInv => SearchIsExact
    <2>1. ASSUME SearchInv, NEW th \in Searchers, SearchAt(th, "done"),
                 NEW s \in search[th].listed \ search[th].touched
          PROVE  search[th].found[s] = Viewable(s, search[th].caller, search[th].constraint)
      <3>1. search[th] # NoSearch /\ search[th].pc = "done"
        BY <2>1 DEF SearchAt, NoSearch
      <3>2. search[th] \in Searching /\ Found(search[th])
        BY <2>1, <3>1, SearchersTyped DEF Good
      <3>3. search[th].todo = {}
        BY <2>1, <3>1, SearchersTyped DEF Good, Unfound
      <3>4. QED
        BY <2>1, <3>1, <3>2, <3>3 DEF Found, Ahead, Judging
    <2>2. QED
      BY <2>1 DEF SearchIsExact
  <1>2. QED
    BY SearchInvariant, <1>1, PTL

\* A restricted release is found only by its owner's tenant, or by somebody its
\* skill was shared with during the search.
THEOREM ResultsShared == SearchSpec => []ResultsWereShared
  <1>1. SearchInv => ResultsWereShared
    BY SearchersTyped DEF ResultsWereShared, SearchAt, NoSearch, Good, Shared, WasShared
  <1>2. QED
    BY SearchInvariant, <1>1, PTL
===============================================================================
