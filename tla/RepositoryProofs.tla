--------------------------- MODULE RepositoryProofs ---------------------------
(***************************************************************************)
(* What the registry guarantees of a skill and its GitHub repository.      *)
(*                                                                         *)
(* First the drafts, for any number of drafts, threads, skills, versions,  *)
(* files and contents.  Types hold however many requests of one draft are  *)
(* under way (TypeInv), and so does what GitHub and the registry were told *)
(* (SharedInv).  The rest is for owners who wait for one request before    *)
(* the next (oneAtATime): then a step concerns one draft (Beside), whose   *)
(* only thread takes it (Takes), and what is left to show of it is about   *)
(* that draft and that request (DraftStep).                                *)
(*                                                                         *)
(* Then the links of a skill id to repositories, for any number of         *)
(* tenants, repositories, branches, users and handler threads.             *)
(***************************************************************************)
EXTENDS RepoLinks, Drafts, FiniteSetTheorems, TLAPS

\* Thread th serves a request.
Busy(th) == serving[th] # NoRequest

\* Some thread is at one of these labels with draft d.
Doing(d, label) == \E th \in Workers : DraftAt(th, label) /\ Draft(th) = d

\* A working branch was made for the draft.
Branched(d) == branch[d] # Nothing

-----------------------------------------------------------------------------
\* What a request relies on, however many there are of one draft.
Relies(r) ==
  /\ r # NoRequest => r.draft \in created
  /\ r.pc = "branch" => r.from # Nothing
  /\ r.pc \in {"seed", "connect"} => Branched(r.draft)
  /\ r \in SaveRequest /\ r.dir # Nothing => Branched(r.draft)
  /\ r.pc = "commit" => r.dir # Nothing
  /\ r \in MoveRequest =>
       Branched(r.draft) /\ (Exists(r.draft) => meta[r.draft].git)
  /\ r.pc \in {"openPr", "merge", "release"} => Branched(r.draft) /\ r.dir # Nothing

\* A connected draft has a directory and a branch.
Connected(d) ==
  /\ Exists(d) => /\ d \in created
                  /\ meta[d].git <=> meta[d].dir # Nothing
                  /\ meta[d].git => Branched(d)
  /\ pr[d] => Branched(d)

\* What types need, with any number of requests of one draft at a time.
TypeInv ==
  /\ DraftsTypeOK
  /\ \A d \in Drafts : Connected(d)
  /\ \A th \in Workers : Relies(serving[th])

\* The types of what is on the registry's disk, and of what is on GitHub.
LocalTyped ==
  /\ meta \in [Drafts -> Meta \union {Nothing}]
  /\ disk \in [Drafts -> Tree]
  /\ created \in SUBSET Drafts
  /\ homes \in [Drafts -> SUBSET Dirs]
  /\ behind \in [Drafts -> SUBSET Files] /\ stray \in [Drafts -> SUBSET Files]

RemoteTyped ==
  /\ born \in BOOLEAN /\ main \in Commit
  /\ branch \in [Drafts -> Commit \union {Nothing}]
  /\ base \in [Drafts -> Commit]
  /\ pr \in [Drafts -> BOOLEAN] /\ merges \in [Drafts -> 0..2]
  /\ release \in [Versions -> Snapshot \union {Nothing}]
  /\ registry \in [Slots -> Publication \union {Nothing}]

LEMMA TypesApart ==
  DraftsTypeOK <=>
    /\ LocalTyped /\ RemoteTyped
    /\ serving \in [Workers -> Requests] /\ requests \in 0..MaxDraftRequests
  BY DEF DraftsTypeOK, LocalTyped, RemoteTyped

\* The label of a request tells its kind, but for the end of a save or a move.
LEMMA Kinds ==
  ASSUME NEW r \in Requests
  PROVE  /\ r.pc \in {"base", "boot", "branch", "seed", "connect"} <=> r \in ConnectRequest
         /\ r.pc \in {"write", "commit", "failed"} => r \in SaveRequest
         /\ r.pc \in {"move", "relocate"} => r \in MoveRequest
         /\ r.pc = "landed" => r \in SaveRequest \union MoveRequest
         /\ r.pc \in {"openPr", "merge", "release", "archive", "drop"} <=> r \in PublishRequest
         /\ r.pc = "idle" <=> r = NoRequest
         /\ r # NoRequest => r.draft \in Drafts
  <1> USE DEF ConnectRequest, SaveRequest, MoveRequest, PublishRequest, NoRequest
  <1>1. CASE r \in ConnectRequest
    BY <1>1
  <1>2. CASE r \in SaveRequest
    BY <1>2
  <1>3. CASE r \in MoveRequest
    BY <1>3
  <1>4. CASE r \in PublishRequest
    BY <1>4
  <1>5. CASE r = NoRequest
    BY <1>5
  <1>6. QED
    BY <1>1, <1>2, <1>3, <1>4, <1>5 DEF Requests

LEMMA SavesAndMoves ==
  ASSUME NEW r \in SaveRequest
  PROVE  r \notin MoveRequest
  BY DEF SaveRequest, MoveRequest

\* What stays true of a draft that a request relies on.
Onward ==
  /\ created \subseteq created'
  /\ \A d \in Drafts :
       /\ Branched(d) => Branched(d)'
       /\ d \in created /\ Exists(d)' => Exists(d) /\ (meta[d].git => meta'[d].git)

LEMMA StillRelies ==
  ASSUME NEW r \in Requests, Relies(r), Onward
  PROVE  Relies(r)'
  <1>1. CASE r = NoRequest
    BY <1>1 DEF Relies, NoRequest, SaveRequest, MoveRequest
  <1>2. CASE r # NoRequest
    <2>1. r.draft \in Drafts /\ r.draft \in created
      BY <1>2, Kinds DEF Relies
    <2>2. QED
      BY <1>2, <2>1, Kinds DEF Relies, Onward, Exists
  <1>3. QED
    BY <1>1, <1>2

LEMMA TypeStep ==
  ASSUME TypeInv, NEW th \in Workers, NEW r \in Requests,
         serving' = [serving EXCEPT ![th] = r], requests' \in 0..MaxDraftRequests,
         LocalTyped', RemoteTyped', Onward, Relies(r)', \A d \in Drafts : Connected(d)'
  PROVE  TypeInv'
  <1>1. DraftsTypeOK'
    BY TypesApart DEF TypeInv, DraftsTypeOK, LocalTyped, RemoteTyped
  <1>2. ASSUME NEW o \in Workers
        PROVE  Relies(serving[o])'
    <2>1. CASE o = th
      <3>1. serving'[o] = r
        BY <2>1 DEF TypeInv, DraftsTypeOK
      <3>2. QED
        BY <3>1 DEF Relies
    <2>2. CASE o # th
      <3>1. serving'[o] = serving[o]
        BY <2>2 DEF TypeInv, DraftsTypeOK
      <3>2. PICK q \in Requests : q = serving[o]
        BY DEF TypeInv, DraftsTypeOK
      <3>3. Relies(q)
        BY <3>2 DEF TypeInv
      <3>4. Relies(q)'
        BY <3>3, StillRelies
      <3>5. QED
        BY <3>1, <3>2, <3>4 DEF Relies
    <2>3. QED
      BY <2>1, <2>2
  <1>3. QED
    BY <1>1, <1>2 DEF TypeInv

\* What the types say of one draft.
LEMMA Row ==
  ASSUME TypeInv, NEW d \in Drafts
  PROVE  /\ meta[d] \in Meta \union {Nothing} /\ disk[d] \in Tree
         /\ homes[d] \subseteq Dirs /\ behind[d] \subseteq Files /\ stray[d] \subseteq Files
         /\ branch[d] \in Commit \union {Nothing} /\ base[d] \in Commit
         /\ pr[d] \in BOOLEAN /\ merges[d] \in 0..2
         /\ Exists(d) => meta[d] \in Meta
         /\ Branched(d) => branch[d] \in Commit
         /\ Connected(d)
  BY DEF TypeInv, DraftsTypeOK, Exists, Branched

LEMMA Turned ==
  ASSUME TypeInv, NEW th \in Workers
  PROVE  /\ serving[th] \in Requests /\ Relies(serving[th])
         /\ serving[th] # NoRequest => Draft(th) \in Drafts
         /\ NoRequest \in Requests
         /\ requests \in 0..MaxDraftRequests
  BY Kinds DEF TypeInv, DraftsTypeOK, Draft, Requests

LEMMA NotMeta == Nothing \notin Meta
  BY NothingAssumption

LEMMA ReliesIdle == Relies(NoRequest) /\ Relies(NoRequest)'
  BY DEF Relies, NoRequest, SaveRequest, MoveRequest

\* A step that only moves a thread on.
LEMMA TypeGo ==
  ASSUME TypeInv, NEW th \in Workers, NEW r \in Requests,
         serving' = [serving EXCEPT ![th] = r], requests' \in 0..MaxDraftRequests,
         UNCHANGED <<local, github, registry>>, Relies(r)
  PROVE  TypeInv'
  <1>1. UNCHANGED <<meta, disk, created, homes, behind, stray, born, main, branch, base, pr,
                    merges, release, registry>>
    BY DEF local, github, history, target
  <1>2. LocalTyped' /\ RemoteTyped'
    BY <1>1, TypesApart DEF TypeInv, LocalTyped, RemoteTyped
  <1>3. Onward
    BY <1>1 DEF Onward, Branched, Exists
  <1>4. \A d \in Drafts : Connected(d)'
    BY <1>1 DEF TypeInv, Connected, Branched, Exists
  <1>5. Relies(r)'
    BY <1>3, StillRelies
  <1>6. QED
    BY <1>2, <1>3, <1>4, <1>5, TypeStep

LEMMA TypeEnd ==
  ASSUME TypeInv, NEW th \in Workers, EndRequest(th),
         UNCHANGED <<local, github, registry, requests>>
  PROVE  TypeInv'
  BY Turned, ReliesIdle, TypeGo DEF EndRequest, Set

LEMMA TypeRemove ==
  ASSUME TypeInv, NEW th \in Workers, NEW d \in Drafts, Remove(d),
         serving' = serving \/ EndRequest(th), requests' \in 0..MaxDraftRequests,
         UNCHANGED <<created, homes, github, registry>>
  PROVE  TypeInv'
  <1>1. PICK r \in Requests : serving' = [serving EXCEPT ![th] = r] /\ Relies(r)
    BY Turned, ReliesIdle DEF EndRequest, Set, TypeInv, DraftsTypeOK
  <1>2. UNCHANGED <<created, homes, born, main, branch, base, pr, merges, release, registry>>
    BY DEF github, target
  <1>3. LocalTyped' /\ RemoteTyped'
    <2>1. Empty \in Tree
      BY DEF Empty, Tree
    <2>2. LocalTyped'
      BY <1>2, <2>1, TypesApart DEF TypeInv, LocalTyped, Remove
    <2>3. RemoteTyped'
      BY <1>2, TypesApart DEF TypeInv, RemoteTyped
    <2>4. QED
      BY <2>2, <2>3
  <1>4. \A x \in Drafts : meta'[x] = (IF x = d THEN Nothing ELSE meta[x])
    BY DEF Remove, TypeInv, DraftsTypeOK
  <1>5. Onward
    BY <1>2, <1>4 DEF Onward, Branched, Exists
  <1>6. \A x \in Drafts : Connected(x)'
    BY <1>2, <1>4 DEF TypeInv, Connected, Branched, Exists
  <1>7. Relies(r)'
    BY <1>1, <1>5, StillRelies
  <1>8. QED
    BY <1>1, <1>3, <1>5, <1>6, <1>7, TypeStep

LEMMA TypeCreateDraft ==
  ASSUME TypeInv, NEW th \in Workers, NEW d \in Drafts, NEW files \in Seeds,
         NEW dir \in Skills \union {Nothing}, CreateDraft(th, d, files, dir)
  PROVE  TypeInv'
  <1> DEFINE r == [pc |-> "base", draft |-> d, dir |-> dir, seed |-> files,
                   todo |-> Present(files), from |-> Nothing]
             m == [git |-> FALSE, error |-> FALSE, dir |-> Nothing]
  <1>1. /\ UNCHANGED <<behind, stray, born, main, branch, base, pr, merges, release, registry>>
        /\ d \notin created /\ created' = created \union {d}
        /\ meta' = [meta EXCEPT ![d] = m] /\ disk' = [disk EXCEPT ![d] = files]
        /\ requests' \in 0..MaxDraftRequests
    BY DraftsAssumption, Turned DEF CreateDraft, github, target, Accept
  <1>2. m \in Meta /\ files \in Tree /\ m # Nothing
    <2>1. m \in Meta
      BY DEF Meta
    <2>2. files \in Tree
      BY DraftsAssumption
    <2>3. QED
      BY <2>1, <2>2, NotMeta
  <1>3. \A x \in Drafts : meta'[x] = (IF x = d THEN m ELSE meta[x])
    BY <1>1 DEF TypeInv, DraftsTypeOK
  <1>4. homes' \in [Drafts -> SUBSET Dirs]
    BY DEF CreateDraft, TypeInv, DraftsTypeOK, Dirs
  <1>5. LocalTyped' /\ RemoteTyped'
    <2>1. LocalTyped'
      BY <1>1, <1>2, <1>4, TypesApart DEF TypeInv, LocalTyped
    <2>2. RemoteTyped'
      BY <1>1, TypesApart DEF TypeInv, RemoteTyped
    <2>3. QED
      BY <2>1, <2>2
  <1>6. Onward
    BY <1>1, <1>3 DEF Onward, Branched, Exists
  <1>7. \A x \in Drafts : Connected(x)'
    BY <1>1, <1>2, <1>3 DEF TypeInv, Connected, Branched, Exists
  <1>8. CASE dir = Nothing
    <2>1. serving' = [serving EXCEPT ![th] = serving[th]]
      BY <1>8 DEF CreateDraft, TypeInv, DraftsTypeOK
    <2>2. PICK q \in Requests : q = serving[th] /\ Relies(q)
      BY Turned
    <2>3. Relies(q)'
      BY <1>6, <2>2, StillRelies
    <2>4. QED
      BY <1>1, <1>5, <1>6, <1>7, <2>1, <2>2, <2>3, TypeStep
  <1>9. CASE dir # Nothing
    <2>1. serving' = [serving EXCEPT ![th] = r]
      BY <1>9 DEF CreateDraft, Set
    <2>2. r \in ConnectRequest
      BY <1>2, <1>9 DEF ConnectRequest, Present, Dirs
    <2>3. r \in Requests
      BY <2>2 DEF Requests
    <2>4. Relies(r)'
      BY <1>1 DEF Relies, SaveRequest, MoveRequest
    <2>5. QED
      BY <1>1, <1>5, <1>6, <1>7, <2>1, <2>3, <2>4, TypeStep
  <1>10. QED
    BY <1>8, <1>9

\* A step that changes no metadata.
LEMMA TypeRemote ==
  ASSUME TypeInv, NEW th \in Workers, NEW r \in Requests,
         serving' = [serving EXCEPT ![th] = r],
         UNCHANGED <<meta, created, requests>>, LocalTyped', RemoteTyped',
         \A d \in Drafts : (Branched(d) => Branched(d)') /\ (pr'[d] => Branched(d)'),
         Relies(r)'
  PROVE  TypeInv'
  <1>1. Onward
    BY DEF Onward, Exists
  <1>2. \A d \in Drafts : Connected(d)'
    BY DEF TypeInv, Connected, Exists
  <1>3. requests' \in 0..MaxDraftRequests
    BY Turned
  <1>4. QED
    BY <1>1, <1>2, <1>3, TypeStep

LEMMA TreesAndCommits ==
  /\ \A c \in Commit, dir \in Dirs, t \in Tree : [c EXCEPT ![dir] = t] \in Commit
  /\ \A t \in Tree, f \in Files, v \in Contents \union {Nothing} : [t EXCEPT ![f] = v] \in Tree
  /\ \A t, u \in Tree : Over(t, u) \in Tree
  /\ \A c \in Commit, dir \in Dirs : c[dir] \in Tree
  /\ \A t \in Tree, f \in Files : t[f] \in Contents \union {Nothing}
  /\ Nothing \notin Commit /\ Bare \in Commit /\ Empty \in Tree
  <1>1. \A c \in Commit, dir \in Dirs, t \in Tree : [c EXCEPT ![dir] = t] \in Commit
    BY DEF Commit
  <1>2. \A t \in Tree, f \in Files, v \in Contents \union {Nothing} : [t EXCEPT ![f] = v] \in Tree
    BY DEF Tree
  <1>3. \A t, u \in Tree : Over(t, u) \in Tree
    BY DEF Tree, Over
  <1>4. \A c \in Commit, dir \in Dirs : c[dir] \in Tree
    BY DEF Commit
  <1>5. \A t \in Tree, f \in Files : t[f] \in Contents \union {Nothing}
    BY DEF Tree
  <1>6. Empty \in Tree
    BY DEF Empty, Tree
  <1>7. Bare \in Commit
    BY <1>6 DEF Bare, Commit
  <1>8. Nothing \notin Commit
    BY NothingAssumption
  <1>9. QED
    BY <1>1, <1>2, <1>3, <1>4, <1>5, <1>6, <1>7, <1>8

\* A step that puts one tree into the branch of one draft, and does with the
\* histories whatever it likes.
LEMMA TypeBranch ==
  ASSUME TypeInv, NEW th \in Workers, NEW r \in Requests, NEW d \in Drafts, NEW c \in Commit,
         serving' = [serving EXCEPT ![th] = r], branch' = [branch EXCEPT ![d] = c],
         UNCHANGED <<meta, disk, created, homes, born, main, pr, merges, release, registry,
                     requests>>,
         base' \in [Drafts -> Commit],
         behind' \in [Drafts -> SUBSET Files], stray' \in [Drafts -> SUBSET Files],
         Relies(r)'
  PROVE  TypeInv' /\ branch'[d] = c /\ \A x \in Drafts \ {d} : branch'[x] = branch[x]
  <1>1. \A x \in Drafts : branch'[x] = (IF x = d THEN c ELSE branch[x])
    BY DEF TypeInv, DraftsTypeOK
  <1>2. branch' \in [Drafts -> Commit \union {Nothing}]
    BY DEF TypeInv, DraftsTypeOK
  <1>3. LocalTyped' /\ RemoteTyped'
    <2>1. LocalTyped'
      BY TypesApart DEF TypeInv, LocalTyped
    <2>2. RemoteTyped'
      BY <1>2, TypesApart DEF TypeInv, RemoteTyped
    <2>3. QED
      BY <2>1, <2>2
  <1>4. c # Nothing
    BY TreesAndCommits
  <1>5. \A x \in Drafts : (Branched(x) => Branched(x)') /\ (pr'[x] => Branched(x)')
    BY <1>1, <1>4 DEF Branched, TypeInv, Connected
  <1>6. QED
    BY <1>1, <1>3, <1>5, TypeRemote

LEMMA TypeReadBase ==
  ASSUME TypeInv, NEW th \in Workers, ReadBase(th)
  PROVE  TypeInv'
  <1>1. serving[th] \in ConnectRequest
    BY Kinds, Turned DEF ReadBase, DraftAt
  <1>2. requests' \in 0..MaxDraftRequests
    BY Turned DEF ReadBase
  <1>3. CASE born
    <2> DEFINE r == [serving[th] EXCEPT !.pc = "branch", !.from = main]
    <2>1. serving' = [serving EXCEPT ![th] = r]
      BY <1>3 DEF ReadBase, Set, Goto
    <2>2. main \in Commit
      BY DEF TypeInv, DraftsTypeOK
    <2>3. r \in ConnectRequest /\ r.from # Nothing /\ r.draft = serving[th].draft /\ r.pc = "branch"
      BY <1>1, <2>2, TreesAndCommits DEF ConnectRequest
    <2>4. r \in Requests /\ r \notin SaveRequest /\ r \notin MoveRequest
      BY <2>3 DEF Requests, SaveRequest, MoveRequest
    <2>5. Relies(r)
      <3> HIDE DEF r
      <3>1. serving[th] # NoRequest
        BY DEF ReadBase, DraftAt, NoRequest
      <3>2. QED
        BY <2>3, <2>4, <3>1, Turned DEF Relies
    <2>6. QED
      BY <1>2, <2>1, <2>4, <2>5, TypeGo DEF ReadBase
  <1>4. CASE ~born
    <2> DEFINE r == [serving[th] EXCEPT !.pc = "boot"]
    <2>1. serving' = [serving EXCEPT ![th] = r]
      BY <1>4, Turned DEF ReadBase, Set, Goto, TypeInv, DraftsTypeOK
    <2>2. r \in ConnectRequest /\ r.draft = serving[th].draft /\ r.pc = "boot"
      BY <1>1 DEF ConnectRequest
    <2>3. r \in Requests /\ r \notin SaveRequest /\ r \notin MoveRequest
      BY <2>2 DEF Requests, SaveRequest, MoveRequest
    <2>4. Relies(r)
      <3> HIDE DEF r
      <3>1. serving[th] # NoRequest
        BY DEF ReadBase, DraftAt, NoRequest
      <3>2. QED
        BY <2>2, <2>3, <3>1, Turned DEF Relies
    <2>5. QED
      BY <1>2, <2>1, <2>3, <2>4, TypeGo DEF ReadBase
  <1>5. QED
    BY <1>3, <1>4

\* A thread goes on to another label of the same request.
LEMMA Relabel ==
  ASSUME NEW q, NEW label
  PROVE  LET r == [q EXCEPT !.pc = label] IN
         /\ q \in ConnectRequest /\ label \in {"base", "boot", "branch", "seed", "connect"} =>
              /\ r \in ConnectRequest /\ r.pc = label /\ r.draft = q.draft /\ r.dir = q.dir
              /\ r.seed = q.seed /\ r.todo = q.todo /\ r.from = q.from
         /\ q \in SaveRequest /\ label \in {"write", "commit", "landed", "failed"} =>
              /\ r \in SaveRequest /\ r.pc = label /\ r.draft = q.draft /\ r.dir = q.dir
              /\ r.file = q.file /\ r.to = q.to
         /\ q \in MoveRequest /\ label \in {"move", "relocate", "landed"} =>
              /\ r \in MoveRequest /\ r.pc = label /\ r.draft = q.draft /\ r.dir = q.dir
              /\ r.files = q.files
         /\ q \in PublishRequest /\ label \in {"openPr", "merge", "release", "archive", "drop"} =>
              /\ r \in PublishRequest /\ r.pc = label /\ r.draft = q.draft /\ r.dir = q.dir
              /\ r.slot = q.slot /\ r.files = q.files
  <1> DEFINE r == [q EXCEPT !.pc = label]
  <1>1. ASSUME q \in ConnectRequest, label \in {"base", "boot", "branch", "seed", "connect"}
        PROVE  /\ r \in ConnectRequest /\ r.pc = label /\ r.draft = q.draft /\ r.dir = q.dir
               /\ r.seed = q.seed /\ r.todo = q.todo /\ r.from = q.from
    BY <1>1 DEF ConnectRequest
  <1>2. ASSUME q \in SaveRequest, label \in {"write", "commit", "landed", "failed"}
        PROVE  /\ r \in SaveRequest /\ r.pc = label /\ r.draft = q.draft /\ r.dir = q.dir
               /\ r.file = q.file /\ r.to = q.to
    BY <1>2 DEF SaveRequest
  <1>3. ASSUME q \in MoveRequest, label \in {"move", "relocate", "landed"}
        PROVE  /\ r \in MoveRequest /\ r.pc = label /\ r.draft = q.draft /\ r.dir = q.dir
               /\ r.files = q.files
    BY <1>3 DEF MoveRequest
  <1>4. ASSUME q \in PublishRequest, label \in {"openPr", "merge", "release", "archive", "drop"}
        PROVE  /\ r \in PublishRequest /\ r.pc = label /\ r.draft = q.draft /\ r.dir = q.dir
               /\ r.slot = q.slot /\ r.files = q.files
    BY <1>4 DEF PublishRequest
  <1>5. QED
    BY <1>1, <1>2, <1>3, <1>4

LEMMA GoesOn ==
  ASSUME TypeInv, NEW th \in Workers, NEW label, Goto(th, label)
  PROVE  serving' = [serving EXCEPT ![th] = [serving[th] EXCEPT !.pc = label]]
  BY DEF Goto, TypeInv, DraftsTypeOK

LEMMA ConnectRelies ==
  ASSUME NEW r \in ConnectRequest, r.draft \in created', r.pc = "branch" => r.from # Nothing,
         r.pc \in {"seed", "connect"} => Branched(r.draft)'
  PROVE  Relies(r)' /\ r \in Requests
  BY DEF Relies, ConnectRequest, SaveRequest, MoveRequest, Requests

LEMMA SaveRelies ==
  ASSUME NEW r \in SaveRequest, r.draft \in created', r.dir # Nothing => Branched(r.draft)',
         r.pc = "commit" => r.dir # Nothing
  PROVE  Relies(r)' /\ r \in Requests
  <1>1. r \notin MoveRequest /\ r \in Requests
    BY SavesAndMoves DEF Requests
  <1>2. r.pc \in {"write", "commit", "landed", "failed"}
    BY DEF SaveRequest
  <1>3. QED
    BY <1>1, <1>2 DEF Relies

LEMMA MoveRelies ==
  ASSUME NEW r \in MoveRequest, r.draft \in created', Branched(r.draft)',
         Exists(r.draft)' => meta'[r.draft].git
  PROVE  Relies(r)' /\ r \in Requests
  <1>1. r \notin SaveRequest /\ r \in Requests
    BY SavesAndMoves DEF Requests
  <1>2. r.pc \in {"move", "relocate", "landed"}
    BY DEF MoveRequest
  <1>3. QED
    BY <1>1, <1>2 DEF Relies

LEMMA PublishRelies ==
  ASSUME NEW r \in PublishRequest, r.draft \in created',
         r.pc \in {"openPr", "merge", "release"} => Branched(r.draft)' /\ r.dir # Nothing
  PROVE  Relies(r)' /\ r \in Requests
  BY DEF Relies, PublishRequest, SaveRequest, MoveRequest, Requests

LEMMA TypeBootstrapFile ==
  ASSUME TypeInv, NEW th \in Workers, NEW f \in Files, BootstrapFile(th, f)
  PROVE  TypeInv'
  <1> PICK m : m = main'
    OBVIOUS
  <1>0. PICK q \in Requests : q = serving[th]
    BY Turned
  <1> DEFINE t == [main[q.dir] EXCEPT ![f] = q.seed[f]]
             r == [q EXCEPT !.todo = @ \ {f}, !.from = IF q.todo = {f} THEN m ELSE Nothing,
                            !.pc = IF q.todo = {f} THEN "branch" ELSE "boot"]
  <1>1. /\ q \in ConnectRequest /\ q # NoRequest /\ q.draft \in created /\ q.draft \in Drafts
    BY <1>0, Kinds, Turned DEF BootstrapFile, DraftAt, Relies, NoRequest, Draft
  <1>2. q.dir \in Dirs /\ q.seed \in Tree /\ q.todo \subseteq Files
    BY <1>1 DEF ConnectRequest, Dirs
  <1>3. main \in Commit
    BY DEF TypeInv, DraftsTypeOK
  <1>4. t \in Tree
    BY <1>2, <1>3, TreesAndCommits
  <1>5. main' = [main EXCEPT ![q.dir] = t]
    BY <1>0, <1>2, <1>3 DEF BootstrapFile, Commit
  <1>6. main' \in Commit /\ m \in Commit
    BY <1>0, <1>2, <1>3, <1>4, <1>5, TreesAndCommits
  <1>7. /\ UNCHANGED <<meta, disk, created, homes, behind, stray, branch, base, pr, merges,
                       release, registry, requests>>
        /\ born' = TRUE /\ serving' = [serving EXCEPT ![th] = r]
    BY <1>0 DEF BootstrapFile, local, history, Set
  <1>8. /\ r \in ConnectRequest /\ r.draft = q.draft
        /\ r.pc \in {"branch", "boot"} /\ (r.pc = "branch" => r.from = m)
    BY <1>1, <1>2, <1>6 DEF ConnectRequest
  <1>9. Relies(r)' /\ r \in Requests
    <2> HIDE DEF r
    <2>1. r.pc = "branch" => r.from # Nothing
      BY <1>6, <1>8, TreesAndCommits
    <2>2. QED
      BY <1>1, <1>7, <1>8, <2>1, ConnectRelies
  <1>10. LocalTyped' /\ RemoteTyped'
    <2>1. LocalTyped'
      BY <1>7, TypesApart DEF TypeInv, LocalTyped
    <2>2. RemoteTyped'
      BY <1>6, <1>7, TypesApart DEF TypeInv, RemoteTyped
    <2>3. QED
      BY <2>1, <2>2
  <1>11. \A x \in Drafts : (Branched(x) => Branched(x)') /\ (pr'[x] => Branched(x)')
    BY <1>7 DEF Branched, TypeInv, Connected
  <1>12. QED
    BY <1>7, <1>9, <1>10, <1>11, TypeRemote

LEMMA TypeCreateBranch ==
  ASSUME TypeInv, NEW th \in Workers, CreateBranch(th)
  PROVE  TypeInv'
  <1>0. PICK q \in Requests : q = serving[th]
    BY Turned
  <1> DEFINE label == IF q.todo = {} THEN "connect" ELSE "seed"
             r == [q EXCEPT !.pc = label]
  <1>1. /\ q \in ConnectRequest /\ q # NoRequest /\ q.draft \in created /\ q.draft \in Drafts
        /\ q.from # Nothing
    BY <1>0, Kinds, Turned DEF CreateBranch, DraftAt, Relies, NoRequest, Draft
  <1>2. q.from \in Commit
    BY <1>1 DEF ConnectRequest
  <1>3. r \in ConnectRequest /\ r.draft = q.draft /\ r.pc \in {"seed", "connect"}
    <2>1. label \in {"seed", "connect"}
      OBVIOUS
    <2> HIDE DEF label
    <2>2. QED
      BY <1>1, <2>1 DEF ConnectRequest
  <1>4. serving' = [serving EXCEPT ![th] = r]
    BY <1>0, GoesOn DEF CreateBranch
  <1>5. UNCHANGED <<meta, disk, created, homes, behind, stray, born, main, pr, merges, release,
                    registry, requests>>
    BY DEF CreateBranch, local, history, target
  <1>6. branch' = [branch EXCEPT ![q.draft] = q.from] /\ base' = [base EXCEPT ![q.draft] = q.from]
    BY <1>0 DEF CreateBranch, Draft
  <1>7. base' \in [Drafts -> Commit] /\ behind' \in [Drafts -> SUBSET Files]
        /\ stray' \in [Drafts -> SUBSET Files]
    BY <1>2, <1>5, <1>6 DEF TypeInv, DraftsTypeOK
  <1> HIDE DEF r
  <1>8. Branched(q.draft)'
    BY <1>1, <1>2, <1>6, TreesAndCommits DEF Branched, TypeInv, DraftsTypeOK
  <1>9. Relies(r)' /\ r \in Requests
    BY <1>1, <1>3, <1>5, <1>8, ConnectRelies
  <1>10. QED
    BY <1>1, <1>2, <1>4, <1>5, <1>6, <1>7, <1>9, TypeBranch

LEMMA TypeSeedBranch ==
  ASSUME TypeInv, NEW th \in Workers, SeedBranch(th)
  PROVE  TypeInv'
  <1>0. PICK q \in Requests : q = serving[th]
    BY Turned
  <1> DEFINE r == [q EXCEPT !.pc = "connect"]
             c == [branch[q.draft] EXCEPT ![q.dir] = Over(q.seed, @)]
  <1>1. /\ q \in ConnectRequest /\ q # NoRequest /\ q.draft \in created /\ q.draft \in Drafts
        /\ Branched(q.draft)
    BY <1>0, Kinds, Turned DEF SeedBranch, DraftAt, Relies, NoRequest, Draft
  <1>2. branch[q.draft] \in Commit
    BY <1>1, Row
  <1>3. q.dir \in Dirs /\ q.seed \in Tree
    BY <1>1 DEF ConnectRequest, Dirs
  <1>4. c \in Commit
    BY <1>2, <1>3, TreesAndCommits
  <1>5. r \in ConnectRequest /\ r.draft = q.draft /\ r.pc = "connect"
    BY <1>1, Relabel
  <1>6. serving' = [serving EXCEPT ![th] = r]
    BY <1>0, GoesOn DEF SeedBranch
  <1>7. UNCHANGED <<meta, disk, created, homes, behind, stray, born, main, base, pr, merges,
                    release, registry, requests>>
    BY DEF SeedBranch, local, history, target
  <1>8. branch' = [branch EXCEPT ![q.draft] = c]
    BY <1>0, <1>1 DEF SeedBranch, TypeInv, DraftsTypeOK
  <1>9. base' \in [Drafts -> Commit] /\ behind' \in [Drafts -> SUBSET Files]
        /\ stray' \in [Drafts -> SUBSET Files]
    BY <1>7 DEF TypeInv, DraftsTypeOK
  <1> HIDE DEF r, c
  <1>10. Branched(q.draft)'
    BY <1>1, <1>4, <1>8, TreesAndCommits DEF Branched, TypeInv, DraftsTypeOK
  <1>11. Relies(r)' /\ r \in Requests
    BY <1>1, <1>5, <1>7, <1>10, ConnectRelies
  <1>12. QED
    BY <1>1, <1>4, <1>6, <1>7, <1>8, <1>9, <1>11, TypeBranch

\* A step that writes the metadata of a draft that is there.
LEMMA TypeMeta ==
  ASSUME TypeInv, NEW th \in Workers, NEW r \in Requests, NEW d \in Drafts, NEW m \in Meta,
         Exists(d), serving' = [serving EXCEPT ![th] = r], meta' = [meta EXCEPT ![d] = m],
         m.git <=> m.dir # Nothing, meta[d].git => m.git, m.git => Branched(d),
         UNCHANGED <<disk, created, homes, behind, stray, github, registry, requests>>,
         Relies(r)'
  PROVE  TypeInv'
  <1>1. UNCHANGED <<born, main, branch, base, pr, merges, release>>
    BY DEF github, target
  <1>2. \A x \in Drafts : meta'[x] = (IF x = d THEN m ELSE meta[x])
    BY DEF TypeInv, DraftsTypeOK
  <1>3. meta' \in [Drafts -> Meta \union {Nothing}]
    BY DEF TypeInv, DraftsTypeOK
  <1>4. LocalTyped' /\ RemoteTyped'
    <2>1. LocalTyped'
      BY <1>3, TypesApart DEF TypeInv, LocalTyped
    <2>2. RemoteTyped'
      BY <1>1, TypesApart DEF TypeInv, RemoteTyped
    <2>3. QED
      BY <2>1, <2>2
  <1>5. Onward
    BY <1>1, <1>2 DEF Onward, Branched, Exists
  <1>6. \A x \in Drafts : Connected(x)'
    BY <1>1, <1>2 DEF TypeInv, Connected, Branched, Exists
  <1>7. requests' \in 0..MaxDraftRequests
    BY Turned
  <1>8. QED
    BY <1>4, <1>5, <1>6, <1>7, TypeStep

LEMMA TypeSetConnection ==
  ASSUME TypeInv, NEW th \in Workers, SetConnection(th)
  PROVE  TypeInv'
  <1>0. PICK q \in Requests : q = serving[th]
    BY Turned
  <1>1. q \in ConnectRequest /\ q # NoRequest /\ q.draft \in Drafts /\ Branched(q.draft)
    BY <1>0, Kinds, Turned DEF SetConnection, DraftAt, Relies, NoRequest, Draft
  <1> DEFINE m == [git |-> TRUE, error |-> FALSE, dir |-> q.dir]
  <1>2. m \in Meta /\ m.dir # Nothing
    BY <1>1, NothingAssumption DEF Meta, ConnectRequest, Dirs
  <1>3. serving' = [serving EXCEPT ![th] = NoRequest]
    BY DEF SetConnection, EndRequest, Set
  <1>4. UNCHANGED <<disk, created, homes, behind, stray, github, registry, requests>>
    BY DEF SetConnection, history
  <1>5. CASE Exists(q.draft)
    <2>1. meta' = [meta EXCEPT ![q.draft] = m]
      BY <1>0, <1>5 DEF SetConnection, Draft
    <2>2. QED
      BY <1>1, <1>2, <1>3, <1>4, <1>5, <2>1, Turned, ReliesIdle, TypeMeta
  <1>6. CASE ~Exists(q.draft)
    <2>1. UNCHANGED <<local, github, registry, requests>>
      BY <1>0, <1>4, <1>6 DEF SetConnection, Draft, local, history
    <2>2. QED
      BY <2>1, TypeEnd DEF SetConnection
  <1>7. QED
    BY <1>5, <1>6

LEMMA TypeBeginSave ==
  ASSUME TypeInv, NEW th \in Workers, NEW d \in Drafts, NEW f \in Files,
         NEW c \in Contents \union {Nothing}, BeginSave(th, d, f, c)
  PROVE  TypeInv'
  <1>0. PICK m \in Meta : m = meta[d]
    BY Row DEF BeginSave
  <1> DEFINE r == [pc |-> "write", draft |-> d, dir |-> m.dir, file |-> f, to |-> c]
  <1>1. serving' = [serving EXCEPT ![th] = r] /\ requests' \in 0..MaxDraftRequests
    BY <1>0, Turned, DraftsAssumption DEF BeginSave, Set, Accept
  <1>2. r \in SaveRequest
    BY DEF SaveRequest, Meta
  <1>3. d \in created /\ (m.dir # Nothing => Branched(d))
    BY <1>0, Row DEF BeginSave, Connected
  <1>4. Relies(r) /\ r \in Requests
    <2>1. r \notin MoveRequest /\ r \in Requests
      BY <1>2, SavesAndMoves DEF Requests
    <2>2. QED
      BY <1>3, <2>1 DEF Relies
  <1>5. QED
    BY <1>1, <1>4, TypeGo DEF BeginSave

LEMMA TypeWriteFile ==
  ASSUME TypeInv, NEW th \in Workers, NEW sync \in BOOLEAN, WriteFile(th, sync)
  PROVE  TypeInv'
  <1>0. PICK q \in Requests : q = serving[th]
    BY Turned
  <1>1. /\ q \in SaveRequest /\ q # NoRequest /\ q.draft \in Drafts /\ q.draft \in created
        /\ q.dir # Nothing => Branched(q.draft)
    BY <1>0, Kinds, Turned DEF WriteFile, DraftAt, Relies, NoRequest, Draft
  <1>2. q.file \in Files /\ q.to \in Contents \union {Nothing}
    BY <1>1 DEF SaveRequest
  <1>3. UNCHANGED <<meta, created, homes, stray, born, main, branch, base, pr, merges, release,
                    registry, requests>>
    BY DEF WriteFile, github, target
  <1>4. LocalTyped' /\ RemoteTyped'
    <2>1. disk' = [disk EXCEPT ![q.draft] = [disk[q.draft] EXCEPT ![q.file] = q.to]]
      BY <1>0, <1>1 DEF WriteFile, Draft, TypeInv, DraftsTypeOK
    <2>2. [disk[q.draft] EXCEPT ![q.file] = q.to] \in Tree
      BY <1>1, <1>2, Row, TreesAndCommits
    <2>3. disk' \in [Drafts -> Tree]
      BY <2>1, <2>2 DEF TypeInv, DraftsTypeOK
    <2>4. behind' \in [Drafts -> SUBSET Files]
      BY <1>0, <1>2 DEF WriteFile, Draft, TypeInv, DraftsTypeOK
    <2>5. LocalTyped'
      BY <1>3, <2>3, <2>4, TypesApart DEF TypeInv, LocalTyped
    <2>6. RemoteTyped'
      BY <1>3, TypesApart DEF TypeInv, RemoteTyped
    <2>7. QED
      BY <2>5, <2>6
  <1>5. \A x \in Drafts : (Branched(x) => Branched(x)') /\ (pr'[x] => Branched(x)')
    BY <1>3 DEF Branched, TypeInv, Connected
  <1>6. CASE q.dir # Nothing /\ Goto(th, "commit")
    <2> DEFINE r == [q EXCEPT !.pc = "commit"]
    <2>1. serving' = [serving EXCEPT ![th] = r]
      BY <1>0, <1>6, GoesOn
    <2>2. r \in SaveRequest /\ r.draft = q.draft /\ r.dir = q.dir
      BY <1>1, Relabel
    <2> HIDE DEF r
    <2>3. Relies(r)' /\ r \in Requests
      BY <1>1, <1>3, <1>5, <1>6, <2>2, SaveRelies
    <2>4. QED
      BY <1>3, <1>4, <1>5, <2>1, <2>3, TypeRemote
  <1>7. CASE EndRequest(th)
    <2>1. serving' = [serving EXCEPT ![th] = NoRequest]
      BY <1>7 DEF EndRequest, Set
    <2>2. QED
      BY <1>3, <1>4, <1>5, <2>1, Turned, ReliesIdle, TypeRemote
  <1>8. QED
    BY <1>0, <1>6, <1>7 DEF WriteFile

LEMMA TypeCommitChange ==
  ASSUME TypeInv, NEW th \in Workers, NEW answered \in BOOLEAN, CommitChange(th, answered)
  PROVE  TypeInv'
  <1>0. PICK q \in Requests : q = serving[th]
    BY Turned
  <1>1. /\ q \in SaveRequest /\ q # NoRequest /\ q.draft \in Drafts /\ q.draft \in created
        /\ q.dir # Nothing /\ Branched(q.draft)
    BY <1>0, Kinds, Turned DEF CommitChange, DraftAt, Relies, NoRequest, Draft
  <1> DEFINE d == q.draft
             label == IF answered THEN "landed" ELSE "failed"
             r == [q EXCEPT !.pc = label]
             t == [branch[d][q.dir] EXCEPT ![q.file] = q.to]
             c == [branch[d] EXCEPT ![q.dir] = t]
  <1>2. q.file \in Files /\ q.to \in Contents \union {Nothing} /\ q.dir \in Dirs
    BY <1>1 DEF SaveRequest
  <1>3. branch[d] \in Commit
    BY <1>1, Row
  <1>4. t \in Tree /\ c \in Commit
    BY <1>2, <1>3, TreesAndCommits
  <1>5. branch' = [branch EXCEPT ![d] = c]
    BY <1>0, <1>1, <1>2, <1>3 DEF CommitChange, Draft, TypeInv, DraftsTypeOK, Commit
  <1>6. UNCHANGED <<meta, disk, created, homes, stray, born, main, base, pr, merges, release,
                    registry, requests>>
    BY DEF CommitChange, target
  <1>7. base' \in [Drafts -> Commit] /\ behind' \in [Drafts -> SUBSET Files]
        /\ stray' \in [Drafts -> SUBSET Files]
    BY <1>6 DEF CommitChange, TypeInv, DraftsTypeOK
  <1>8. serving' = [serving EXCEPT ![th] = r]
    BY <1>0, GoesOn DEF CommitChange
  <1>9. r \in SaveRequest /\ r.draft = d /\ r.dir = q.dir /\ r.pc # "commit"
    BY <1>1, Relabel
  <1> HIDE DEF r, c
  <1>10. Branched(d)'
    BY <1>1, <1>4, <1>5, TreesAndCommits DEF Branched, TypeInv, DraftsTypeOK
  <1>11. Relies(r)' /\ r \in Requests
    BY <1>1, <1>6, <1>9, <1>10, SaveRelies
  <1>12. QED
    BY <1>1, <1>4, <1>5, <1>6, <1>7, <1>8, <1>11, TypeBranch

LEMMA TypeCommitFails ==
  ASSUME TypeInv, NEW th \in Workers, CommitFails(th)
  PROVE  TypeInv'
  <1>0. PICK q \in Requests : q = serving[th]
    BY Turned
  <1> DEFINE r == [q EXCEPT !.pc = "failed"]
  <1>1. q \in SaveRequest /\ q # NoRequest /\ Relies(q)
    BY <1>0, Kinds, Turned DEF CommitFails, DraftAt, NoRequest
  <1>2. serving' = [serving EXCEPT ![th] = r]
    BY <1>0, GoesOn DEF CommitFails
  <1>3. r \in SaveRequest /\ r.draft = q.draft /\ r.dir = q.dir /\ r.pc = "failed"
    BY <1>1, Relabel
  <1> HIDE DEF r
  <1>4. Relies(r) /\ r \in Requests
    <2>1. r \notin MoveRequest /\ r \in Requests
      BY <1>3, SavesAndMoves DEF Requests
    <2>2. QED
      BY <1>1, <1>3, <2>1 DEF Relies
  <1>5. QED
    BY <1>2, <1>4, Turned, TypeGo DEF CommitFails

LEMMA TypeSetSyncStatus ==
  ASSUME TypeInv, NEW th \in Workers, SetSyncStatus(th)
  PROVE  TypeInv'
  <1>0. PICK q \in Requests : q = serving[th]
    BY Turned
  <1>1. q # NoRequest /\ q.draft \in Drafts
    BY <1>0, Kinds DEF SetSyncStatus, NoRequest
  <1>2. serving' = [serving EXCEPT ![th] = NoRequest]
    BY DEF SetSyncStatus, EndRequest, Set
  <1>3. UNCHANGED <<disk, created, homes, behind, stray, github, registry, requests>>
    BY DEF SetSyncStatus, history
  <1>4. CASE Exists(q.draft)
    <2>0. PICK error \in BOOLEAN : error = DraftAt(th, "failed")
      BY Zenon DEF DraftAt
    <2> DEFINE m == [meta[q.draft] EXCEPT !.error = error]
    <2>1. meta[q.draft] \in Meta
      BY <1>1, <1>4, Row
    <2>2. m \in Meta /\ m.git = meta[q.draft].git /\ m.dir = meta[q.draft].dir
      BY <2>1 DEF Meta
    <2>3. meta' = [meta EXCEPT ![q.draft] = m]
      BY <1>0, <1>1, <1>4, <2>0 DEF SetSyncStatus, Draft, TypeInv, DraftsTypeOK
    <2>4. Connected(q.draft)
      BY <1>1, Row
    <2> HIDE DEF m
    <2>5. QED
      BY <1>1, <1>2, <1>3, <1>4, <2>2, <2>3, <2>4, Turned, ReliesIdle, TypeMeta DEF Connected
  <1>5. CASE ~Exists(q.draft)
    <2>1. UNCHANGED <<local, github, registry, requests>>
      BY <1>0, <1>3, <1>5 DEF SetSyncStatus, Draft, local, history
    <2>2. QED
      BY <2>1, TypeEnd DEF SetSyncStatus
  <1>6. QED
    BY <1>4, <1>5

LEMMA TypeBeginMove ==
  ASSUME TypeInv, NEW th \in Workers, NEW d \in Drafts, NEW dir \in Skills, BeginMove(th, d, dir)
  PROVE  TypeInv'
  <1>0. PICK files \in Tree : files = disk[d]
    BY Row
  <1> DEFINE r == [pc |-> "move", draft |-> d, dir |-> dir, files |-> files]
  <1>1. serving' = [serving EXCEPT ![th] = r] /\ requests' \in 0..MaxDraftRequests
    BY <1>0, Turned, DraftsAssumption DEF BeginMove, Set, Accept
  <1>2. r \in MoveRequest
    BY DEF MoveRequest, Dirs
  <1>3. meta[d].dir # Nothing
    BY NothingAssumption DEF BeginMove, Dirs
  <1>4. d \in created /\ meta[d].git /\ Branched(d)
    BY <1>3, Row DEF BeginMove, Connected
  <1>5. UNCHANGED <<meta, disk, created, behind, stray, born, main, branch, base, pr, merges,
                    release, registry>>
    BY DEF BeginMove, github, target
  <1>6. Onward
    BY <1>5 DEF Onward, Branched, Exists
  <1>7. \A x \in Drafts : Connected(x)'
    BY <1>5 DEF TypeInv, Connected, Branched, Exists
  <1>8. LocalTyped' /\ RemoteTyped'
    <2>1. homes' \in [Drafts -> SUBSET Dirs]
      BY DEF BeginMove, TypeInv, DraftsTypeOK, Dirs
    <2>2. LocalTyped'
      BY <1>5, <2>1, TypesApart DEF TypeInv, LocalTyped
    <2>3. RemoteTyped'
      BY <1>5, TypesApart DEF TypeInv, RemoteTyped
    <2>4. QED
      BY <2>2, <2>3
  <1>9. Relies(r)' /\ r \in Requests
    <2>1. r.draft = d
      OBVIOUS
    <2> HIDE DEF r
    <2>2. QED
      BY <1>2, <1>4, <1>5, <1>6, <2>1, MoveRelies DEF Onward, Exists
  <1>10. QED
    BY <1>1, <1>6, <1>7, <1>8, <1>9, TypeStep

LEMMA TypeMoveFiles ==
  ASSUME TypeInv, NEW th \in Workers, NEW answered \in BOOLEAN, MoveFiles(th, answered)
  PROVE  TypeInv'
  <1>0. PICK q \in Requests : q = serving[th]
    BY Turned
  <1>1. /\ q \in MoveRequest /\ q # NoRequest /\ q.draft \in Drafts /\ q.draft \in created
        /\ Branched(q.draft) /\ (Exists(q.draft) => meta[q.draft].git)
    BY <1>0, Kinds, Turned DEF MoveFiles, DraftAt, Relies, NoRequest, Draft
  <1> DEFINE d == q.draft
             moved == Present(q.files)
             t == [f \in Files |-> IF f \in moved THEN Nothing ELSE branch[d][Root][f]]
             b == [branch[d] EXCEPT ![Root] = t]
             c == [b EXCEPT ![q.dir] = Over(q.files, @)]
             r == [q EXCEPT !.pc = "relocate"]
  <1>2. q.dir \in Skills /\ q.dir \in Dirs /\ q.files \in Tree /\ Root \in Dirs
    BY <1>1 DEF MoveRequest, Dirs
  <1>3. branch[d] \in Commit
    BY <1>1, Row
  <1>4. c \in Commit
    <2>1. \A f \in Files : branch[d][Root][f] \in Contents \union {Nothing}
      BY <1>2, <1>3, TreesAndCommits
    <2>2. t \in Tree
      BY <2>1 DEF Tree
    <2> HIDE DEF t
    <2>3. b \in Commit
      BY <1>2, <1>3, <2>2, TreesAndCommits
    <2>4. b[q.dir] \in Tree
      BY <1>2, <2>3, TreesAndCommits
    <2> HIDE DEF b
    <2>5. QED
      BY <1>2, <2>3, <2>4, TreesAndCommits
  <1>5. branch' = [branch EXCEPT ![d] = c]
    <2>1. branch \in [Drafts -> Commit \union {Nothing}] /\ Root # q.dir
      BY <1>2, DraftsAssumption DEF TypeInv, DraftsTypeOK
    <2>2. branch' = [branch EXCEPT
            ![d][Root] = [f \in Files |-> IF f \in moved THEN Nothing ELSE @[f]],
            ![d][q.dir] = Over(q.files, @)]
      BY <1>0 DEF MoveFiles, Draft
    <2>3. QED
      BY <1>1, <1>2, <1>3, <2>1, <2>2 DEF Commit
  <1>6. UNCHANGED <<meta, disk, created, homes, born, main, base, pr, merges, release,
                    registry, requests>>
    BY DEF MoveFiles, target
  <1>7. base' \in [Drafts -> Commit] /\ behind' \in [Drafts -> SUBSET Files]
        /\ stray' \in [Drafts -> SUBSET Files]
    <2>1. moved \subseteq Files
      BY DEF Present
    <2>2. base' \in [Drafts -> Commit]
      BY <1>6 DEF TypeInv, DraftsTypeOK
    <2> HIDE DEF moved
    <2>3. /\ behind' = [behind EXCEPT ![d] = stray[d] \ moved] /\ stray' = stray
          \/ /\ behind' = [behind EXCEPT ![d] = behind[d] \union moved]
             /\ stray' = [stray EXCEPT ![d] = stray[d] \union moved]
      BY <1>0, <1>1 DEF MoveFiles, Draft, moved, TypeInv, DraftsTypeOK
    <2>4. QED
      BY <1>1, <2>1, <2>2, <2>3 DEF TypeInv, DraftsTypeOK
  <1> HIDE DEF c
  <1>8. Branched(d)'
    BY <1>1, <1>4, <1>5, TreesAndCommits DEF Branched, TypeInv, DraftsTypeOK
  <1>9. CASE Goto(th, "relocate")
    <2>1. serving' = [serving EXCEPT ![th] = r]
      BY <1>0, <1>9, GoesOn
    <2>2. r \in MoveRequest /\ r.draft = d
      BY <1>1, Relabel
    <2> HIDE DEF r
    <2>3. Relies(r)' /\ r \in Requests
      BY <1>1, <1>6, <1>8, <2>2, MoveRelies DEF Exists
    <2>4. QED
      BY <1>1, <1>4, <1>5, <1>6, <1>7, <2>1, <2>3, TypeBranch
  <1>10. CASE EndRequest(th)
    <2>1. serving' = [serving EXCEPT ![th] = NoRequest]
      BY <1>10 DEF EndRequest, Set
    <2>2. QED
      BY <1>1, <1>4, <1>5, <1>6, <1>7, <2>1, Turned, ReliesIdle, TypeBranch
  <1>11. QED
    BY <1>9, <1>10 DEF MoveFiles

LEMMA TypeRelocate ==
  ASSUME TypeInv, NEW th \in Workers, Relocate(th)
  PROVE  TypeInv'
  <1>0. PICK q \in Requests : q = serving[th]
    BY Turned
  <1>1. /\ q \in MoveRequest /\ q # NoRequest /\ q.draft \in Drafts /\ q.draft \in created
        /\ Branched(q.draft) /\ (Exists(q.draft) => meta[q.draft].git)
    BY <1>0, Kinds, Turned DEF Relocate, DraftAt, Relies, NoRequest, Draft
  <1>2. UNCHANGED <<disk, created, homes, behind, stray, github, registry, requests>>
    BY DEF Relocate, history
  <1>3. CASE Exists(q.draft)
    <2> DEFINE r == [q EXCEPT !.pc = "landed"]
               m == [meta[q.draft] EXCEPT !.dir = q.dir]
    <2>1. serving' = [serving EXCEPT ![th] = r]
      BY <1>0, <1>3, GoesOn DEF Relocate, Draft
    <2>2. r \in MoveRequest /\ r.draft = q.draft
      BY <1>1, Relabel
    <2>3. meta[q.draft] \in Meta /\ q.dir \in Dirs /\ q.dir # Nothing
      BY <1>1, <1>3, Row, NothingAssumption DEF MoveRequest, Dirs
    <2>4. m \in Meta /\ m.git = meta[q.draft].git /\ m.dir = q.dir
      BY <2>3 DEF Meta
    <2>5. meta' = [meta EXCEPT ![q.draft] = m]
      BY <1>0, <1>1, <1>3 DEF Relocate, Draft, TypeInv, DraftsTypeOK
    <2> HIDE DEF r, m
    <2>6. meta'[q.draft].git /\ Branched(q.draft)' /\ q.draft \in created'
      BY <1>1, <1>2, <1>3, <2>4, <2>5 DEF TypeInv, DraftsTypeOK, github, Branched
    <2>7. Relies(r)' /\ r \in Requests
      BY <2>2, <2>6, MoveRelies
    <2>8. QED
      BY <1>1, <1>2, <1>3, <2>1, <2>3, <2>4, <2>5, <2>7, TypeMeta
  <1>4. CASE ~Exists(q.draft)
    <2>1. UNCHANGED <<local, github, registry, requests>> /\ EndRequest(th)
      BY <1>0, <1>2, <1>4 DEF Relocate, Draft, local, history
    <2>2. QED
      BY <2>1, TypeEnd
  <1>5. QED
    BY <1>3, <1>4

LEMMA TypeMoveFails ==
  ASSUME TypeInv, NEW th \in Workers, MoveFails(th)
  PROVE  TypeInv'
  BY TypeEnd DEF MoveFails

LEMMA TypeBeginPublish ==
  ASSUME TypeInv, NEW th \in Workers, NEW d \in Drafts, NEW slot \in Slots,
         BeginPublish(th, d, slot)
  PROVE  TypeInv'
  <1>0. PICK m \in Meta : m = meta[d]
    BY Row DEF BeginPublish
  <1> DEFINE r == [pc |-> IF m.git THEN "openPr" ELSE "archive", draft |-> d, dir |-> m.dir,
                   slot |-> slot, files |-> disk[d]]
  <1>1. serving' = [serving EXCEPT ![th] = r] /\ requests' \in 0..MaxDraftRequests
    BY <1>0, Turned, DraftsAssumption DEF BeginPublish, Set, Accept
  <1>2. r \in PublishRequest /\ r.draft = d /\ r.dir = m.dir
        /\ (r.pc \in {"openPr", "merge", "release"} => m.git)
    BY Row DEF PublishRequest, Meta
  <1>3. d \in created /\ (m.git => m.dir # Nothing /\ Branched(d))
    BY <1>0, Row DEF BeginPublish, Connected
  <1> HIDE DEF r
  <1>4. Relies(r) /\ r \in Requests
    BY <1>2, <1>3 DEF Relies, PublishRequest, SaveRequest, MoveRequest, Requests
  <1>5. QED
    BY <1>1, <1>4, TypeGo DEF BeginPublish

\* A publication goes on after GitHub or the registry did something for it.
LEMMA TypePublishing ==
  ASSUME TypeInv, NEW th \in Workers, NEW label \in {"merge", "release", "archive", "drop"},
         serving[th].pc \in {"openPr", "merge", "release", "archive"}, Goto(th, label),
         label \in {"merge", "release"} => serving[th].pc \in {"openPr", "merge"},
         UNCHANGED <<local, branch, base, requests>>, RemoteTyped',
         \A d \in Drafts : pr'[d] => Branched(d)
  PROVE  TypeInv'
  <1>0. PICK q \in Requests : q = serving[th]
    BY Turned
  <1>1. q \in PublishRequest /\ q # NoRequest /\ Relies(q)
    BY <1>0, Kinds, Turned DEF NoRequest
  <1> DEFINE r == [q EXCEPT !.pc = label]
  <1>2. r \in PublishRequest /\ r.pc = label /\ r.draft = q.draft /\ r.dir = q.dir
    <2>1. label \in {"openPr", "merge", "release", "archive", "drop"}
      OBVIOUS
    <2>2. QED
      BY <1>1, <2>1, Relabel
  <1>3. serving' = [serving EXCEPT ![th] = r]
    BY <1>0, GoesOn
  <1>4. UNCHANGED <<meta, disk, created, homes, behind, stray, branch, base, requests>>
    BY DEF local, history
  <1> HIDE DEF r
  <1>5. Relies(r)' /\ r \in Requests
    <2>1. r.draft \in created'
      BY <1>1, <1>2, <1>4 DEF Relies
    <2>2. r.pc \in {"openPr", "merge", "release"} => Branched(r.draft)' /\ r.dir # Nothing
      BY <1>0, <1>1, <1>2, <1>4 DEF Relies, Branched
    <2>3. QED
      BY <1>2, <2>1, <2>2, PublishRelies
  <1>6. LocalTyped'
    BY <1>4, TypesApart DEF TypeInv, LocalTyped
  <1>7. \A d \in Drafts : (Branched(d) => Branched(d)') /\ (pr'[d] => Branched(d)')
    BY <1>4 DEF Branched
  <1>8. QED
    BY <1>3, <1>4, <1>5, <1>6, <1>7, TypeRemote

LEMMA TypeOpenPr ==
  ASSUME TypeInv, NEW th \in Workers, OpenPr(th)
  PROVE  TypeInv'
  <1>1. Draft(th) \in Drafts /\ Branched(Draft(th))
    BY Turned DEF OpenPr, DraftAt, Relies, NoRequest, Draft
  <1>2. UNCHANGED <<born, main, branch, base, merges, release, registry, requests>>
    BY DEF OpenPr, target
  <1>3. pr' \in [Drafts -> BOOLEAN] /\ \A d \in Drafts : pr'[d] => Branched(d)
    BY <1>1 DEF OpenPr, TypeInv, DraftsTypeOK, Connected
  <1>4. RemoteTyped'
    BY <1>2, <1>3, TypesApart DEF TypeInv, RemoteTyped
  <1>5. QED
    BY <1>2, <1>3, <1>4, TypePublishing DEF OpenPr, DraftAt

\* A merge leaves the target branch a commit, and no pull request open.
LEMMA TypeMerged ==
  ASSUME TypeInv, NEW d \in Drafts, Branched(d), Merged(d),
         UNCHANGED <<born, branch, base, release, registry>>
  PROVE  /\ RemoteTyped'
         /\ \A x \in Drafts : pr'[x] => pr[x]
  <1>1. branch[d] \in Commit /\ base[d] \in Commit /\ main \in Commit
    BY Row DEF TypeInv, DraftsTypeOK
  <1>2. main' \in Commit
    <2>1. \A dir \in Dirs, f \in Files :
            /\ main[dir][f] \in Contents \union {Nothing}
            /\ branch[d][dir][f] \in Contents \union {Nothing}
      BY <1>1, TreesAndCommits
    <2>2. QED
      BY <2>1 DEF Merged, Commit, Tree
  <1>3. pr' \in [Drafts -> BOOLEAN] /\ merges' \in [Drafts -> 0..2]
    BY DEF Merged, TypeInv, DraftsTypeOK
  <1>4. RemoteTyped'
    BY <1>2, <1>3, TypesApart DEF TypeInv, RemoteTyped
  <1>5. \A x \in Drafts : pr'[x] => pr[x]
    BY DEF Merged, TypeInv, DraftsTypeOK
  <1>6. QED
    BY <1>4, <1>5

LEMMA TypeMergePr ==
  ASSUME TypeInv, NEW th \in Workers, MergePr(th)
  PROVE  TypeInv'
  <1>1. Draft(th) \in Drafts /\ Branched(Draft(th))
    BY Turned DEF MergePr, DraftAt, Relies, NoRequest, Draft
  <1>2. RemoteTyped' /\ \A x \in Drafts : pr'[x] => pr[x]
    <2>0. PICK d \in Drafts : d = Draft(th)
      BY <1>1
    <2>1. QED
      BY <1>1, <2>0, TypeMerged DEF MergePr
  <1>3. \A x \in Drafts : pr'[x] => Branched(x)
    BY <1>2 DEF TypeInv, Connected
  <1>4. QED
    BY <1>2, <1>3, TypePublishing DEF MergePr, DraftAt

LEMMA TypeSettlePr ==
  ASSUME TypeInv, NEW d \in Drafts, NEW merge \in BOOLEAN, SettlePr(d, merge)
  PROVE  TypeInv'
  <1>1. Branched(d)
    BY DEF SettlePr, TypeInv, Connected
  <1>2. UNCHANGED <<meta, disk, created, homes, behind, stray, born, branch, base, release,
                    registry, serving, requests>>
    BY DEF SettlePr, local, history
  <1>3. RemoteTyped' /\ \A x \in Drafts : pr'[x] => pr[x]
    <2>1. CASE Merged(d)
      BY <1>1, <1>2, <2>1, TypeMerged
    <2>2. CASE pr' = [pr EXCEPT ![d] = FALSE] /\ UNCHANGED <<main, merges>>
      <3>1. pr' \in [Drafts -> BOOLEAN] /\ \A x \in Drafts : pr'[x] => pr[x]
        BY <2>2 DEF TypeInv, DraftsTypeOK
      <3>2. RemoteTyped'
        BY <1>2, <2>2, <3>1, TypesApart DEF TypeInv, RemoteTyped
      <3>3. QED
        BY <3>1, <3>2
    <2>3. QED
      BY <2>1, <2>2 DEF SettlePr
  <1>4. LocalTyped'
    BY <1>2, TypesApart DEF TypeInv, LocalTyped
  <1>5. DraftsTypeOK'
    BY <1>2, <1>3, <1>4, TypesApart DEF TypeInv, DraftsTypeOK, LocalTyped, RemoteTyped
  <1>6. Onward
    BY <1>2 DEF Onward, Branched, Exists
  <1>7. \A x \in Drafts : Connected(x)'
    BY <1>2, <1>3 DEF TypeInv, Connected, Branched, Exists
  <1>8. ASSUME NEW o \in Workers
        PROVE  Relies(serving[o])'
    <2>1. PICK q \in Requests : q = serving[o] /\ Relies(q)
      BY Turned
    <2>2. Relies(q)'
      BY <1>6, <2>1, StillRelies
    <2>3. QED
      BY <1>2, <2>1, <2>2 DEF Relies
  <1>9. QED
    BY <1>5, <1>7, <1>8 DEF TypeInv

LEMMA TypeCreateRelease ==
  ASSUME TypeInv, NEW th \in Workers, CreateRelease(th)
  PROVE  TypeInv'
  <1>0. PICK q \in Requests : q = serving[th]
    BY Turned
  <1>1. q \in PublishRequest /\ q.dir # Nothing
    BY <1>0, Kinds, Turned DEF CreateRelease, DraftAt, Relies
  <1>2. q.slot[1] \in Skills /\ q.slot[2] \in Versions /\ q.dir \in Dirs
    BY <1>1 DEF PublishRequest, Slots
  <1> DEFINE rel == [skill |-> q.slot[1], files |-> main[q.dir]]
  <1>3. main[q.dir] \in Tree
    BY <1>2, TreesAndCommits DEF TypeInv, DraftsTypeOK
  <1>4. rel \in Snapshot
    BY <1>2, <1>3 DEF Snapshot
  <1>5. release' = [release EXCEPT ![q.slot[2]] = rel]
    BY <1>0 DEF CreateRelease
  <1>6. UNCHANGED <<born, main, branch, base, pr, merges, registry, requests>>
    BY DEF CreateRelease, target
  <1> HIDE DEF rel
  <1>7. release' \in [Versions -> Snapshot \union {Nothing}]
    BY <1>2, <1>4, <1>5 DEF TypeInv, DraftsTypeOK
  <1>8. RemoteTyped'
    BY <1>6, <1>7, TypesApart DEF TypeInv, RemoteTyped
  <1>9. \A x \in Drafts : pr'[x] => Branched(x)
    BY <1>6 DEF TypeInv, Connected
  <1>10. QED
    BY <1>6, <1>8, <1>9, TypePublishing DEF CreateRelease, DraftAt

LEMMA TypePublishFails ==
  ASSUME TypeInv, NEW th \in Workers, PublishFails(th)
  PROVE  TypeInv'
  BY TypeEnd DEF PublishFails

LEMMA TypePublishSkill ==
  ASSUME TypeInv, NEW th \in Workers, NEW slot \in Slots, PublishSkill(th, slot)
  PROVE  TypeInv'
  <1>0. PICK q \in Requests : q = serving[th]
    BY Turned
  <1>1. q \in PublishRequest /\ q # NoRequest /\ Relies(q)
    BY <1>0, Kinds, Turned DEF PublishSkill, DraftAt, NoRequest
  <1>2. q.draft \in Drafts
    BY <1>1 DEF PublishRequest
  <1>3. PICK git \in BOOLEAN, edited \in BOOLEAN :
          git = (q.dir # Nothing) /\ edited = (disk[q.draft] # q.files)
    BY Zenon
  <1> DEFINE pub == [git |-> git, edited |-> edited, draft |-> q.draft,
                     files |-> disk[q.draft], behind |-> behind[q.draft]]
             r == [q EXCEPT !.pc = "drop", !.slot = slot]
  <1>4. pub \in Publication
    BY <1>2, Row DEF Publication
  <1>5. registry' = [registry EXCEPT ![slot] = pub] /\ serving' = [serving EXCEPT ![th] = r]
    BY <1>0, <1>3 DEF PublishSkill, Set
  <1>6. UNCHANGED <<meta, disk, created, homes, behind, stray, born, main, branch, base, pr,
                    merges, release, requests>>
    BY DEF PublishSkill, local, history, github, target
  <1> HIDE DEF pub
  <1>7. registry' \in [Slots -> Publication \union {Nothing}]
    BY <1>4, <1>5 DEF TypeInv, DraftsTypeOK
  <1>8. LocalTyped' /\ RemoteTyped'
    BY <1>6, <1>7, TypesApart DEF TypeInv, LocalTyped, RemoteTyped
  <1>9. r \in PublishRequest /\ r.draft = q.draft /\ r.pc = "drop"
    BY <1>1 DEF PublishRequest
  <1> HIDE DEF r
  <1>10. Relies(r)' /\ r \in Requests
    <2>1. r.draft \in created'
      BY <1>1, <1>6, <1>9 DEF Relies
    <2>2. QED
      BY <1>9, <2>1, PublishRelies
  <1>11. \A x \in Drafts : (Branched(x) => Branched(x)') /\ (pr'[x] => Branched(x)')
    BY <1>6 DEF TypeInv, Connected, Branched
  <1>12. QED
    BY <1>5, <1>6, <1>8, <1>10, <1>11, TypeRemote

LEMMA TypeRemoves ==
  ASSUME TypeInv, NEW th \in Workers,
         RollBack(th) \/ DropDraft(th) \/ \E d \in Drafts : DeleteDraft(th, d)
  PROVE  TypeInv'
  <1>1. CASE RollBack(th) \/ DropDraft(th)
    <2>1. PICK d \in Drafts : d = Draft(th)
      BY <1>1, Turned DEF RollBack, DropDraft, DraftAt, NoRequest
    <2>2. QED
      BY <1>1, <2>1, Turned, TypeRemove DEF RollBack, DropDraft
  <1>2. ASSUME NEW d \in Drafts, DeleteDraft(th, d)
        PROVE  TypeInv'
    BY <1>2, Turned, DraftsAssumption, TypeRemove DEF DeleteDraft, Accept
  <1>3. QED
    BY <1>1, <1>2

LEMMA TypeInit == DraftsInit => TypeInv
  <1> SUFFICES ASSUME DraftsInit PROVE TypeInv
    OBVIOUS
  <1> USE DEF DraftsInit
  <1>1. disk \in [Drafts -> Tree] /\ created \subseteq Drafts /\ Root \in Dirs
    <2>1. Seeds \subseteq Tree /\ Legacy \subseteq Drafts
      BY DraftsAssumption
    <2>2. QED
      BY <2>1, TreesAndCommits DEF Dirs
  <1>2. \A d \in Drafts : [Bare EXCEPT ![Root] = disk[d]] \in Commit
    BY <1>1, TreesAndCommits
  <1>3. LocalTyped
    <2>1. [git |-> TRUE, error |-> FALSE, dir |-> Root] \in Meta
      BY <1>1 DEF Meta
    <2>2. meta \in [Drafts -> Meta \union {Nothing}]
      BY <2>1
    <2>3. QED
      BY <1>1, <2>2 DEF LocalTyped
  <1>4. RemoteTyped
    <2>1. branch \in [Drafts -> Commit \union {Nothing}]
      BY <1>2
    <2>2. QED
      BY <2>1, TreesAndCommits DEF RemoteTyped
  <1>5. serving \in [Workers -> Requests] /\ requests \in 0..MaxDraftRequests
    BY DraftsAssumption DEF Requests
  <1>6. \A d \in Drafts : Connected(d)
    <2>1. Root # Nothing
      BY <1>1, NothingAssumption
    <2>2. ASSUME NEW d \in Drafts
          PROVE  Connected(d)
      <3>1. CASE d \in created
        BY <1>2, <2>1, <3>1, TreesAndCommits DEF Connected, Exists, Branched
      <3>2. CASE d \notin created
        BY <3>2 DEF Connected, Exists
      <3>3. QED
        BY <3>1, <3>2
    <2>3. QED
      BY <2>2
  <1>7. \A th \in Workers : Relies(serving[th])
    BY ReliesIdle DEF Relies
  <1>8. QED
    BY <1>3, <1>4, <1>5, <1>6, <1>7, TypesApart DEF TypeInv

LEMMA TypeNext == TypeInv /\ [DraftsNext]_draftVars => TypeInv'
  <1> SUFFICES ASSUME TypeInv, [DraftsNext]_draftVars PROVE TypeInv'
    OBVIOUS
  <1>1. ASSUME NEW th \in Workers, NEW d \in Drafts, Begin(th, d)
        PROVE  TypeInv'
    BY <1>1, TypeCreateDraft, TypeBeginSave, TypeRemoves, TypeBeginMove, TypeBeginPublish
       DEF Begin
  <1>2. ASSUME NEW th \in Workers, Step(th)
        PROVE  TypeInv'
    BY <1>2, TypeReadBase, TypeBootstrapFile, TypeRemoves, TypeCreateBranch, TypeSeedBranch,
       TypeSetConnection, TypeWriteFile, TypeCommitChange, TypeMoveFiles, TypeCommitFails,
       TypeSetSyncStatus, TypeMoveFails, TypeRelocate, TypeOpenPr, TypeMergePr,
       TypeCreateRelease, TypePublishFails, TypePublishSkill
       DEF Step
  <1>3. ASSUME NEW d \in Drafts, NEW merge \in BOOLEAN, SettlePr(d, merge)
        PROVE  TypeInv'
    BY <1>3, TypeSettlePr
  <1>4. CASE UNCHANGED draftVars
    BY <1>4 DEF draftVars, TypeInv, DraftsTypeOK, Connected, Relies, Exists, Branched
  <1>5. QED
    BY <1>1, <1>2, <1>3, <1>4 DEF DraftsNext

\* Drafts, branches, releases and requests keep their types (DraftsTypeOK),
\* even when an owner does not wait for one request before the next.
THEOREM DraftsTyped == DraftsSpec => []DraftsTypeOK
  <1>1. TypeInv => DraftsTypeOK
    BY DEF TypeInv
  <1>2. QED
    BY <1>1, TypeInit, TypeNext, PTL DEF DraftsSpec

-----------------------------------------------------------------------------
\* No two threads serve the same draft.
OneByOne ==
  \A th, o \in Workers : Busy(th) /\ Busy(o) /\ Draft(th) = Draft(o) => th = o

\* A directory that no draft was ever given is empty on the target branch.
Vacant ==
  \A dir \in Dirs : (\A d \in Drafts : dir \notin homes[d]) => main[dir] = Empty

\* What a tree and the files of a draft agree on.
Agree(tree, d) == \A f \in Files \ behind[d] : tree[f] = disk[d][f]

\* A draft and its branch go no further than the directories it was given; until
\* the branch is merged, nobody else fills those of a draft that is alone there.
HistoryOf(d) ==
  /\ d \notin created => /\ homes[d] = {} /\ behind[d] = {} /\ stray[d] = {}
                          /\ ~Branched(d) /\ merges[d] = 0
  /\ Exists(d) /\ meta[d].git => meta[d].dir \in homes[d]
  /\ Exists(d) /\ meta[d].dir = Root => base[d] = Bare
  /\ Branched(d) => \A dir \in Dirs \ homes[d] : branch[d][dir] = base[d][dir]
  /\ Branched(d) /\ merges[d] = 0 /\ Alone(d) =>
       \A dir \in homes[d] : main[dir] = base[d][dir]

\* A branch has what its draft has; while the draft is still at the top of the
\* repository, a skill's directory has at most what a move left there.
Mirrored(d) ==
  Exists(d) /\ meta[d].git =>
    /\ Alone(d) => Agree(branch[d][meta[d].dir], d)
    /\ meta[d].dir = Root =>
         \A dir \in Skills, f \in Files \ stray[d] : branch[d][dir][f] = Nothing

\* Between the commit of a move and the record of it the mirror is elsewhere.
MirrorOf(d) == ~Doing(d, "relocate") => Mirrored(d)

\* What the bootstrap has made so far of the files a draft starts with.
Rest(r) == [f \in Files |-> IF f \in r.todo THEN Nothing ELSE r.seed[f]]

\* What each kind of request may rely on at each of its labels.  First: a draft
\* that is being connected is as it was created.
Connecting(r) ==
  LET d == r.draft IN
  /\ ~meta[d].git /\ disk[d] = r.seed
  /\ behind[d] = {} /\ stray[d] = {} /\ homes[d] = {r.dir}
  /\ r.pc \in {"base", "boot", "branch"} => ~Branched(d) /\ merges[d] = 0
  /\ Alone(d) =>
       /\ r.pc \in {"base", "boot", "branch"} => main[r.dir] = Rest(r)
       /\ r.pc = "branch" => r.from[r.dir] = Rest(r)
       /\ r.pc = "seed" => branch[d][r.dir] = Rest(r)
       /\ r.pc = "connect" => branch[d][r.dir] = r.seed

\* A commit carries what is on the disk.
Saving(r) ==
  LET d == r.draft IN
  /\ r.dir = meta[d].dir
  /\ r.pc = "commit" => r.to = disk[d][r.file] /\ r.file \in behind[d]

\* A move carries what is on the disk, and the branch has it before the record.
Moving(r) ==
  LET d == r.draft IN
  /\ r.dir \in homes[d]
  /\ r.pc \in {"move", "relocate"} => meta[d].dir = Root /\ r.files = disk[d]
  /\ r.pc = "relocate" => Agree(branch[d][r.dir], d)

\* The target branch, then the release, then the registry have the draft.
Publishing(r) ==
  LET d == r.draft
      rel == release[r.slot[2]]
      once == Alone(d) /\ merges[d] = 1
  IN
  /\ r.dir = meta[d].dir /\ r.files = disk[d]
  /\ r.pc = "release" =>
       /\ ~pr[d] /\ merges[d] # 0
       /\ once => Agree(main[r.dir], d)
  /\ r.pc = "archive" /\ r.dir # Nothing =>
       /\ ~pr[d] /\ merges[d] # 0
       /\ rel # Nothing /\ rel.skill = r.slot[1]
       /\ once => Agree(rel.files, d)
  /\ r.pc = "drop" => registry[r.slot] # Nothing /\ registry[r.slot].files = disk[d]

\* Nobody takes away the draft that a request is about.
Working(r) ==
  /\ r # NoRequest => Exists(r.draft)
  /\ r \in ConnectRequest => Connecting(r)
  /\ r \in SaveRequest => Saving(r)
  /\ r \in MoveRequest => Moving(r)
  /\ r \in PublishRequest => Publishing(r)

\* ReleaseMatchesPublication of one slot; and its branch was merged.
Published(s) ==
  LET pub == registry[s] IN
  pub # Nothing /\ pub.git =>
    /\ merges[pub.draft] # 0
    /\ release[s[2]] # Nothing
    /\ release[s[2]].skill = s[1]
    /\ Alone(pub.draft) /\ merges[pub.draft] = 1 =>
         \A f \in Files \ pub.behind : release[s[2]].files[f] = pub.files[f]

\* The inductive invariant, for owners who wait for one request before the next.
DraftsInv ==
  /\ TypeInv /\ OneByOne /\ Vacant
  /\ \A d \in Drafts : HistoryOf(d) /\ MirrorOf(d)
  /\ \A th \in Workers : Working(serving[th])
  /\ \A s \in Slots : Published(s)

-----------------------------------------------------------------------------
\* Thread th works, or may begin to work, on draft d.
Takes(th, d) == IF Busy(th) THEN Draft(th) = d ELSE ~Served(d)

\* A step about draft d leaves the other drafts, the directories that are not
\* its own, and whatever was released or published.
Beside(d) ==
  /\ \A x \in Drafts \ {d} :
       /\ meta'[x] = meta[x] /\ disk'[x] = disk[x] /\ homes'[x] = homes[x]
       /\ behind'[x] = behind[x] /\ stray'[x] = stray[x]
       /\ branch'[x] = branch[x] /\ base'[x] = base[x]
       /\ pr'[x] = pr[x] /\ merges'[x] = merges[x]
       /\ x \in created' <=> x \in created
  /\ homes[d] \subseteq homes'[d]
  /\ \A dir \in Dirs \ homes'[d] : main'[dir] = main[dir]
  /\ \A v \in Versions : release[v] # Nothing => release'[v] = release[v]
  /\ \A s \in Slots : registry[s] # Nothing => registry'[s] = registry[s]
  /\ merges[d] # 0 => merges'[d] # 0 /\ (merges'[d] = 1 => merges[d] = 1)

LEMMA OthersElsewhere ==
  ASSUME OneByOne, NEW th \in Workers, NEW d \in Drafts, Takes(th, d),
         NEW o \in Workers \ {th}, Busy(o)
  PROVE  Draft(o) # d
  BY DEF OneByOne, Takes, Served, Busy, Draft

LEMMA StaysOneByOne ==
  ASSUME TypeInv, OneByOne, NEW th \in Workers, NEW d \in Drafts, Takes(th, d), NEW r,
         r # NoRequest => r.draft = d, serving' = [serving EXCEPT ![th] = r]
  PROVE  OneByOne'
  <1> SUFFICES ASSUME NEW x \in Workers, NEW y \in Workers, Busy(x)', Busy(y)',
                      Draft(x)' = Draft(y)', x # y
               PROVE  FALSE
    BY DEF OneByOne
  <1>1. \A o \in Workers : serving'[o] = (IF o = th THEN r ELSE serving[o])
    BY DEF TypeInv, DraftsTypeOK
  <1>2. ASSUME NEW o \in Workers \ {th}, Busy(o)'
        PROVE  Draft(o)' # d /\ Busy(o)
    BY <1>1, <1>2, OthersElsewhere DEF Busy, Draft
  <1>3. CASE x = th
    BY <1>1, <1>2, <1>3 DEF Busy, Draft
  <1>4. CASE y = th
    BY <1>1, <1>2, <1>4 DEF Busy, Draft
  <1>5. CASE x # th /\ y # th
    BY <1>1, <1>5 DEF Busy, Draft, OneByOne
  <1>6. QED
    BY <1>3, <1>4, <1>5

\* Directories are given, never taken back.
LEMMA AloneBefore ==
  ASSUME TypeInv, NEW d \in Drafts, Beside(d), NEW x \in Drafts, Alone(x)'
  PROVE  Alone(x) /\ (x # d => homes'[d] \intersect homes[x] = {})
  <1>1. \A y \in Drafts : homes[y] \subseteq homes'[y]
    BY DEF Beside
  <1>2. QED
    BY <1>1 DEF Alone, Beside

LEMMA OtherHistory ==
  ASSUME TypeInv, NEW d \in Drafts, Beside(d), NEW x \in Drafts \ {d}, HistoryOf(x)
  PROVE  HistoryOf(x)'
  <1>1. /\ meta'[x] = meta[x] /\ homes'[x] = homes[x] /\ branch'[x] = branch[x]
        /\ base'[x] = base[x] /\ merges'[x] = merges[x] /\ (x \in created' <=> x \in created)
        /\ behind'[x] = behind[x] /\ stray'[x] = stray[x]
    BY DEF Beside
  <1>2. homes[x] \subseteq Dirs
    BY Row
  <1>3. Alone(x)' => Alone(x) /\ \A dir \in homes[x] : main'[dir] = main[dir]
    BY <1>2, AloneBefore DEF Beside
  <1>4. QED
    BY <1>1, <1>3 DEF HistoryOf, Exists, Branched

LEMMA OtherMirror ==
  ASSUME TypeInv, NEW d \in Drafts, Beside(d), NEW x \in Drafts \ {d}, MirrorOf(x),
         \A o \in Workers : Busy(o) /\ Draft(o) = x => serving'[o] = serving[o]
  PROVE  MirrorOf(x)'
  <1>1. /\ meta'[x] = meta[x] /\ branch'[x] = branch[x] /\ disk'[x] = disk[x]
        /\ behind'[x] = behind[x] /\ stray'[x] = stray[x]
    BY DEF Beside
  <1>2. Doing(x, "relocate") => Doing(x, "relocate")'
    BY DEF Doing, DraftAt, Draft, Busy, NoRequest
  <1>3. Alone(x)' => Alone(x)
    BY AloneBefore
  <1>4. Mirrored(x) => Mirrored(x)'
    BY <1>1, <1>3 DEF Mirrored, Exists, Agree
  <1>5. QED
    BY <1>2, <1>4 DEF MirrorOf

LEMMA OtherWork ==
  ASSUME TypeInv, NEW d \in Drafts, Beside(d), NEW r \in Requests, Working(r), Relies(r),
         r # NoRequest => r.draft # d /\ HistoryOf(r.draft)
  PROVE  Working(r)'
  <1>1. CASE r = NoRequest
    BY <1>1 DEF Working, NoRequest, ConnectRequest, SaveRequest, MoveRequest, PublishRequest
  <1>2. CASE r # NoRequest
    <2> DEFINE x == r.draft
    <2>1. x \in Drafts \ {d}
      BY <1>2, Kinds
    <2>2. /\ meta'[x] = meta[x] /\ disk'[x] = disk[x] /\ homes'[x] = homes[x]
          /\ behind'[x] = behind[x] /\ stray'[x] = stray[x]
          /\ branch'[x] = branch[x] /\ base'[x] = base[x]
          /\ pr'[x] = pr[x] /\ merges'[x] = merges[x]
      BY <2>1 DEF Beside
    <2>3. homes[x] \subseteq Dirs
      BY <2>1, Row
    <2>4. Alone(x)' => Alone(x) /\ \A dir \in homes[x] : main'[dir] = main[dir]
      BY <2>1, <2>3, AloneBefore DEF Beside
    <2>5. Exists(x)'
      BY <1>2, <2>2 DEF Working, Exists
    <2>6. ASSUME r \in ConnectRequest
          PROVE  Connecting(r)'
      BY <2>2, <2>4, <2>6 DEF Working, Connecting, Branched
    <2>7. ASSUME r \in SaveRequest
          PROVE  Saving(r)'
      BY <2>2, <2>7 DEF Working, Saving
    <2>8. ASSUME r \in MoveRequest
          PROVE  Moving(r)'
      BY <2>2, <2>8 DEF Working, Moving, Agree
    <2>9. ASSUME r \in PublishRequest
          PROVE  Publishing(r)'
      <3>1. Publishing(r) /\ Exists(x)
        BY <1>2, <2>9 DEF Working
      <3>2. r.slot \in Slots /\ r.slot[2] \in Versions
        BY <2>9 DEF PublishRequest, Slots
      <3>3. r.pc = "release" => r.dir \in homes[x]
        <4>1. r.pc = "release" => r.dir # Nothing
          BY DEF Relies
        <4>2. QED
          BY <1>2, <2>1, <3>1, <4>1, Row DEF HistoryOf, Publishing, Connected
      <3>4. release[r.slot[2]] # Nothing => release'[r.slot[2]] = release[r.slot[2]]
        BY <3>2 DEF Beside
      <3>5. registry[r.slot] # Nothing => registry'[r.slot] = registry[r.slot]
        BY <3>2 DEF Beside
      <3>6. QED
        BY <2>2, <2>4, <3>1, <3>3, <3>4, <3>5 DEF Publishing, Agree
    <2>10. QED
      BY <2>5, <2>6, <2>7, <2>8, <2>9 DEF Working
  <1>3. QED
    BY <1>1, <1>2

LEMMA PublishedStays ==
  ASSUME TypeInv, NEW d \in Drafts, Beside(d), NEW s \in Slots, Published(s),
         registry'[s] = registry[s]
  PROVE  Published(s)'
  <1> SUFFICES ASSUME registry[s] # Nothing, registry[s].git
               PROVE  Published(s)'
    BY DEF Published
  <1>1. registry[s].draft \in Drafts /\ s[2] \in Versions
    BY DEF TypeInv, DraftsTypeOK, Publication, Slots
  <1> DEFINE x == registry[s].draft
  <1>2. merges'[x] # 0 /\ (merges'[x] = 1 => merges[x] = 1)
    BY <1>1 DEF Published, Beside
  <1>3. Alone(x)' => Alone(x)
    BY <1>1, AloneBefore
  <1>4. release'[s[2]] = release[s[2]]
    BY <1>1 DEF Published, Beside
  <1>5. QED
    BY <1>2, <1>3, <1>4 DEF Published

LEMMA StaysVacant ==
  ASSUME Vacant, NEW d \in Drafts, Beside(d)
  PROVE  Vacant'
  BY DEF Vacant, Beside

\* What is left to show of a step about a draft: what it does to that draft, and
\* what the thread that takes it may rely on then.
LEMMA DraftStep ==
  ASSUME DraftsInv, TypeInv', NEW th \in Workers, NEW d \in Drafts, Takes(th, d),
         NEW r \in Requests, r # NoRequest => r.draft = d,
         serving' = [serving EXCEPT ![th] = r], Beside(d),
         HistoryOf(d)', r.pc # "relocate" => Mirrored(d)', Working(r)',
         \A s \in Slots : registry'[s] = registry[s] \/ Published(s)'
  PROVE  DraftsInv'
  <1>0. TypeInv /\ OneByOne
    BY DEF DraftsInv
  <1>1. \A o \in Workers : serving'[o] = (IF o = th THEN r ELSE serving[o])
    BY <1>0 DEF TypeInv, DraftsTypeOK
  <1>2. OneByOne'
    BY <1>0, StaysOneByOne
  <1>3. Vacant'
    BY StaysVacant DEF DraftsInv
  <1>4. ASSUME NEW x \in Drafts
        PROVE  HistoryOf(x)' /\ MirrorOf(x)'
    <2>1. CASE x # d
      <3>1. HistoryOf(x)'
        BY <1>0, <2>1, OtherHistory DEF DraftsInv
      <3>2. \A o \in Workers : Busy(o) /\ Draft(o) = x => serving'[o] = serving[o]
        BY <1>1, <2>1 DEF Takes
      <3>3. MirrorOf(x)'
        BY <1>0, <2>1, <3>2, OtherMirror DEF DraftsInv
      <3>4. QED
        BY <3>1, <3>3
    <2>2. CASE x = d
      <3>1. r.pc = "relocate" => Doing(d, "relocate")'
        BY <1>1 DEF Doing, DraftAt, Draft, NoRequest
      <3>2. MirrorOf(d)'
        BY <3>1 DEF MirrorOf
      <3>3. QED
        BY <2>2, <3>2
    <2>3. QED
      BY <2>1, <2>2
  <1>5. ASSUME NEW o \in Workers
        PROVE  Working(serving[o])'
    <2>1. CASE o = th
      BY <1>1, <2>1 DEF Working
    <2>2. CASE o # th
      <3>1. PICK q \in Requests : q = serving[o] /\ Relies(q)
        BY <1>0, Turned
      <3>2. Working(q)
        BY <3>1 DEF DraftsInv
      <3>3. q # NoRequest => q.draft # d /\ HistoryOf(q.draft)
        <4>1. q # NoRequest => q.draft \in Drafts
          BY Kinds
        <4>2. q # NoRequest => q.draft # d
          BY <1>0, <2>2, <3>1, OthersElsewhere DEF Busy, Draft
        <4>3. QED
          BY <4>1, <4>2 DEF DraftsInv
      <3>4. Working(q)'
        BY <1>0, <3>1, <3>2, <3>3, OtherWork
      <3>5. serving'[o] = q
        BY <1>1, <2>2, <3>1
      <3>6. QED
        BY <3>4, <3>5 DEF Working
    <2>3. QED
      BY <2>1, <2>2
  <1>6. \A s \in Slots : Published(s)'
    BY <1>0, PublishedStays DEF DraftsInv
  <1>7. QED
    BY <1>2, <1>3, <1>4, <1>5, <1>6 DEF DraftsInv

\* Nobody is half way through a move of the draft of a thread that is not.
LEMMA MirroredNow ==
  ASSUME DraftsInv, NEW th \in Workers, NEW d \in Drafts, Takes(th, d),
         serving[th].pc # "relocate"
  PROVE  Mirrored(d)
  <1>1. ASSUME NEW o \in Workers, DraftAt(o, "relocate"), Draft(o) = d
        PROVE  FALSE
    <2>1. o # th /\ Busy(o)
      BY <1>1 DEF DraftAt, Busy, NoRequest
    <2>2. QED
      BY <1>1, <2>1, OthersElsewhere DEF DraftsInv
  <1>2. QED
    BY <1>1 DEF DraftsInv, MirrorOf, Doing

\* What a step leaves unchanged of the draft it is about.
Untouched(d) ==
  /\ disk'[d] = disk[d] /\ homes'[d] = homes[d] /\ behind'[d] = behind[d] /\ stray'[d] = stray[d]
  /\ branch'[d] = branch[d] /\ base'[d] = base[d] /\ merges'[d] = merges[d]
  /\ created' = created

LEMMA BesideQuiet ==
  ASSUME TypeInv, NEW d \in Drafts,
         UNCHANGED <<disk, created, homes, behind, stray, main, branch, base, merges>>,
         \A x \in Drafts \ {d} : meta'[x] = meta[x] /\ pr'[x] = pr[x],
         \A v \in Versions : release[v] # Nothing => release'[v] = release[v],
         \A s \in Slots : registry[s] # Nothing => registry'[s] = registry[s]
  PROVE  Beside(d) /\ Untouched(d)
  BY DEF Beside, Untouched

\* A draft that stays as it is, but for the outcome of its last commit.
LEMMA UntouchedFine ==
  ASSUME DraftsInv, NEW d \in Drafts, Untouched(d), UNCHANGED <<main, homes>>,
         Exists(d)' => Exists(d) /\ meta'[d].git = meta[d].git /\ meta'[d].dir = meta[d].dir
  PROVE  HistoryOf(d)' /\ (Mirrored(d) => Mirrored(d)')
  <1>1. HistoryOf(d)
    BY DEF DraftsInv
  <1>2. HistoryOf(d)'
    BY <1>1 DEF Untouched, HistoryOf, Exists, Branched, Alone
  <1>3. ASSUME Mirrored(d), Exists(d)', meta'[d].git
        PROVE  /\ Alone(d)' => Agree(branch[d][meta[d].dir], d)'
               /\ meta[d].dir = Root =>
                    \A dir \in Skills, f \in Files \ stray[d] : branch[d][dir][f] = Nothing
    <2>1. Exists(d) /\ meta[d].git /\ (Alone(d)' => Alone(d))
      BY <1>3 DEF Alone
    <2>2. QED
      BY <1>3, <2>1 DEF Mirrored, Untouched, Agree
  <1>4. Mirrored(d) => Mirrored(d)'
    BY <1>3 DEF Untouched, Mirrored, Agree
  <1>5. QED
    BY <1>2, <1>4

LEMMA QuietStep ==
  ASSUME DraftsInv, TypeInv', NEW th \in Workers, NEW d \in Drafts, Takes(th, d),
         serving[th].pc # "relocate", NEW r \in Requests, r # NoRequest => r.draft = d,
         serving' = [serving EXCEPT ![th] = r],
         UNCHANGED <<disk, created, homes, behind, stray, main, branch, base, merges>>,
         \A x \in Drafts \ {d} : meta'[x] = meta[x] /\ pr'[x] = pr[x],
         \A v \in Versions : release[v] # Nothing => release'[v] = release[v],
         \A s \in Slots : registry[s] # Nothing => registry'[s] = registry[s],
         Exists(d)' => Exists(d) /\ meta'[d].git = meta[d].git /\ meta'[d].dir = meta[d].dir,
         Working(r)', \A s \in Slots : registry'[s] = registry[s] \/ Published(s)'
  PROVE  DraftsInv'
  <1>1. Beside(d) /\ Untouched(d)
    BY BesideQuiet DEF DraftsInv
  <1>2. HistoryOf(d)' /\ Mirrored(d)'
    BY <1>1, UntouchedFine, MirroredNow
  <1>3. QED
    BY <1>1, <1>2, DraftStep

LEMMA Beginning ==
  ASSUME oneAtATime, NEW th \in Workers, NEW d \in Drafts, Accept(th, d)
  PROVE  Takes(th, d) /\ serving[th] = NoRequest /\ serving[th].pc # "relocate"
  BY DEF Accept, Takes, Busy, NoRequest

LEMMA Continuing ==
  ASSUME DraftsInv, NEW th \in Workers, NEW q \in Requests, q = serving[th], q.pc # "idle"
  PROVE  /\ q # NoRequest /\ Draft(th) = q.draft /\ q.draft \in Drafts /\ q.draft \in created
         /\ Takes(th, q.draft) /\ Exists(q.draft) /\ Working(q) /\ Relies(q)
         /\ TypeInv /\ HistoryOf(q.draft) /\ Connected(q.draft)
         /\ q.pc # "relocate" => Mirrored(q.draft)
  <1>1. q # NoRequest /\ Draft(th) = q.draft /\ q.draft \in Drafts
    BY Kinds DEF Draft
  <1>2. Takes(th, q.draft)
    BY <1>1 DEF Takes, Busy
  <1>3. Working(q) /\ Relies(q) /\ TypeInv
    BY DEF DraftsInv, TypeInv
  <1>4. Exists(q.draft) /\ q.draft \in created /\ HistoryOf(q.draft) /\ Connected(q.draft)
    BY <1>1, <1>3, Row DEF Working, Relies, DraftsInv
  <1>5. q.pc # "relocate" => Mirrored(q.draft)
    BY <1>1, <1>2, MirroredNow
  <1>6. QED
    BY <1>1, <1>2, <1>3, <1>4, <1>5

LEMMA NothingToDo == Working(NoRequest)' /\ NoRequest \in Requests
  BY DEF Working, NoRequest, ConnectRequest, SaveRequest, MoveRequest, PublishRequest, Requests

\* A request is of one kind.
LEMMA OneKind ==
  ASSUME NEW r
  PROVE  /\ r \in ConnectRequest => r \notin SaveRequest \union MoveRequest \union PublishRequest
         /\ r \in SaveRequest => r \notin ConnectRequest \union MoveRequest \union PublishRequest
         /\ r \in MoveRequest => r \notin ConnectRequest \union SaveRequest \union PublishRequest
         /\ r \in PublishRequest => r \notin ConnectRequest \union SaveRequest \union MoveRequest
  BY SavesAndMoves DEF ConnectRequest, SaveRequest, MoveRequest, PublishRequest

\* An exchange that fails, and a status that is recorded, end a request.
LEMMA QuietEnd ==
  ASSUME DraftsInv, TypeInv', NEW th \in Workers, serving[th].pc \notin {"idle", "relocate"},
         NEW d, d = Draft(th), EndRequest(th), UNCHANGED <<disk, created, history, github, registry>>,
         \A x \in Drafts \ {d} : meta'[x] = meta[x],
         Exists(d)' => Exists(d) /\ meta'[d].git = meta[d].git /\ meta'[d].dir = meta[d].dir
  PROVE  DraftsInv'
  <1>1. PICK q \in Requests : q = serving[th]
    BY Turned DEF DraftsInv
  <1>2. d \in Drafts /\ Takes(th, d)
    BY <1>1, Continuing
  <1>3. serving' = [serving EXCEPT ![th] = NoRequest]
    BY DEF EndRequest, Set
  <1>4. UNCHANGED <<disk, created, homes, behind, stray, main, branch, base, pr, merges,
                    release, registry>>
    BY DEF history, github, target
  <1>5. QED
    BY <1>2, <1>3, <1>4, NothingToDo, QuietStep


-----------------------------------------------------------------------------
LEMMA WorkConnecting ==
  ASSUME NEW r \in ConnectRequest, Exists(r.draft)', Connecting(r)'
  PROVE  Working(r)' /\ r \in Requests /\ r # NoRequest
  BY OneKind DEF Working, Requests, NoRequest, ConnectRequest

LEMMA WorkSaving ==
  ASSUME NEW r \in SaveRequest, Exists(r.draft)', Saving(r)'
  PROVE  Working(r)' /\ r \in Requests /\ r # NoRequest
  BY OneKind DEF Working, Requests, NoRequest, SaveRequest

LEMMA WorkMoving ==
  ASSUME NEW r \in MoveRequest, Exists(r.draft)', Moving(r)'
  PROVE  Working(r)' /\ r \in Requests /\ r # NoRequest
  BY OneKind DEF Working, Requests, NoRequest, MoveRequest

LEMMA WorkPublishing ==
  ASSUME NEW r \in PublishRequest, Exists(r.draft)', Publishing(r)'
  PROVE  Working(r)' /\ r \in Requests /\ r # NoRequest
  BY OneKind DEF Working, Requests, NoRequest, PublishRequest

LEMMA RemoveStep ==
  ASSUME DraftsInv, TypeInv', NEW th \in Workers, NEW d \in Drafts, Takes(th, d), d \in created,
         Remove(d), serving' = [serving EXCEPT ![th] = NoRequest],
         UNCHANGED <<created, homes, github, registry>>
  PROVE  DraftsInv'
  <1>1. UNCHANGED <<created, homes, main, branch, base, pr, merges, release, registry>>
    BY DEF github, target
  <1>2. \A x \in Drafts \ {d} : /\ meta'[x] = meta[x] /\ disk'[x] = disk[x]
                                /\ behind'[x] = behind[x] /\ stray'[x] = stray[x]
    BY DEF Remove, DraftsInv, TypeInv, DraftsTypeOK
  <1>3. Beside(d)
    BY <1>1, <1>2 DEF Beside
  <1>4. ~Exists(d)'
    BY DEF Remove, Exists, DraftsInv, TypeInv, DraftsTypeOK
  <1>5. HistoryOf(d)' /\ Mirrored(d)'
    <2>1. HistoryOf(d)
      BY DEF DraftsInv
    <2>2. QED
      BY <1>1, <1>4, <2>1 DEF HistoryOf, Mirrored, Branched, Alone
  <1>6. QED
    BY <1>1, <1>3, <1>5, NothingToDo, DraftStep

LEMMA InvRemoves ==
  ASSUME oneAtATime, DraftsInv, TypeInv', NEW th \in Workers,
         RollBack(th) \/ DropDraft(th) \/ \E d \in Drafts : DeleteDraft(th, d)
  PROVE  DraftsInv'
  <1>1. CASE RollBack(th) \/ DropDraft(th)
    <2>1. PICK q \in Requests : q = serving[th]
      BY Turned DEF DraftsInv
    <2>2. q.pc # "idle"
      BY <1>1, <2>1 DEF RollBack, DropDraft, DraftAt
    <2>3. PICK d \in Drafts : d = Draft(th) /\ Takes(th, d) /\ d \in created
      BY <2>1, <2>2, Continuing
    <2>4. QED
      BY <1>1, <2>3, RemoveStep DEF RollBack, DropDraft, EndRequest, Set
  <1>2. ASSUME NEW d \in Drafts, DeleteDraft(th, d)
        PROVE  DraftsInv'
    <2>1. Takes(th, d) /\ serving[th] = NoRequest
      BY <1>2, Beginning DEF DeleteDraft
    <2>2. serving' = [serving EXCEPT ![th] = NoRequest]
      BY <1>2, <2>1 DEF DeleteDraft, DraftsInv, TypeInv, DraftsTypeOK
    <2>3. d \in created
      BY <1>2, Row DEF DeleteDraft, DraftsInv, Connected
    <2>4. QED
      BY <1>2, <2>1, <2>2, <2>3, RemoveStep DEF DeleteDraft
  <1>3. QED
    BY <1>1, <1>2

LEMMA InvCreateDraft ==
  ASSUME oneAtATime, DraftsInv, TypeInv', NEW th \in Workers, NEW d \in Drafts,
         NEW files \in Seeds, NEW dir \in Skills \union {Nothing}, CreateDraft(th, d, files, dir)
  PROVE  DraftsInv'
  <1> DEFINE m == [git |-> FALSE, error |-> FALSE, dir |-> Nothing]
             r == [pc |-> "base", draft |-> d, dir |-> dir, seed |-> files,
                   todo |-> Present(files), from |-> Nothing]
  <1>1. Takes(th, d) /\ serving[th] = NoRequest /\ d \notin created
    BY Beginning DEF CreateDraft
  <1>2. UNCHANGED <<behind, stray, main, branch, base, pr, merges, release, registry>>
    BY DEF CreateDraft, github, target
  <1>3. /\ meta'[d] = m /\ disk'[d] = files /\ created' = created \union {d}
        /\ \A x \in Drafts \ {d} : meta'[x] = meta[x] /\ disk'[x] = disk[x] /\ homes'[x] = homes[x]
        /\ homes'[d] = IF dir = Nothing THEN homes[d] ELSE {dir}
    BY DEF CreateDraft, DraftsInv, TypeInv, DraftsTypeOK
  <1>4. homes[d] = {} /\ ~Branched(d) /\ merges[d] = 0 /\ ~Exists(d)
    BY <1>1, Row DEF DraftsInv, HistoryOf, Connected
  <1>5. behind[d] = {} /\ stray[d] = {}
    BY <1>1 DEF DraftsInv, HistoryOf
  <1>6. Beside(d)
    BY <1>2, <1>3, <1>4 DEF Beside
  <1>7. m.dir # Root /\ Exists(d)' /\ m # Nothing /\ Root # Nothing
    <2>1. Root # Nothing
      BY NothingAssumption DEF Dirs
    <2>2. m \in Meta
      BY DEF Meta
    <2>3. QED
      BY <1>3, <2>1, <2>2, NotMeta DEF Exists
  <1>8. HistoryOf(d)' /\ Mirrored(d)'
    BY <1>2, <1>3, <1>4, <1>7 DEF HistoryOf, Mirrored, Branched
  <1>9. CASE dir = Nothing
    <2>1. serving' = [serving EXCEPT ![th] = NoRequest]
      BY <1>1, <1>9 DEF CreateDraft, DraftsInv, TypeInv, DraftsTypeOK
    <2>2. QED
      BY <1>1, <1>2, <1>6, <1>8, <2>1, NothingToDo, DraftStep
  <1>10. CASE dir # Nothing
    <2>1. serving' = [serving EXCEPT ![th] = r]
      BY <1>10 DEF CreateDraft, Set
    <2>2. r \in ConnectRequest
      <3>1. files \in Tree
        BY DraftsAssumption
      <3>2. QED
        BY <1>10, <3>1 DEF ConnectRequest, Present, Dirs
    <2>3. Alone(d)' => main'[dir] = Rest(r)
      <3> SUFFICES ASSUME Alone(d)' PROVE main[dir] = Rest(r)
        BY <1>2
      <3>1. \A x \in Drafts : dir \notin homes[x]
        BY <1>3, <1>4, <1>10 DEF Alone
      <3>2. main[dir] = Empty
        BY <1>10, <3>1 DEF DraftsInv, Vacant, Dirs
      <3>3. Rest(r) = Empty
        BY DEF Rest, Present, Empty
      <3>4. QED
        BY <3>2, <3>3
    <2>4. r.draft = d /\ r.pc = "base" /\ r.dir = dir /\ r.seed = files
      OBVIOUS
    <2> HIDE DEF r
    <2>5. Connecting(r)'
      BY <1>2, <1>3, <1>4, <1>5, <1>10, <2>3, <2>4 DEF Connecting, Branched
    <2>6. Working(r)' /\ r \in Requests
      BY <1>7, <2>2, <2>4, <2>5, WorkConnecting
    <2>7. QED
      BY <1>1, <1>2, <1>6, <1>8, <2>1, <2>4, <2>6, DraftStep
  <1>11. QED
    BY <1>9, <1>10

LEMMA InvReadBase ==
  ASSUME DraftsInv, TypeInv', NEW th \in Workers, ReadBase(th)
  PROVE  DraftsInv'
  <1> PICK m : m = main
    OBVIOUS
  <1>1. PICK q \in Requests : q = serving[th]
    BY Turned DEF DraftsInv
  <1>2. q.pc = "base"
    BY <1>1 DEF ReadBase, DraftAt
  <1>3. /\ Draft(th) = q.draft /\ q.draft \in Drafts /\ Takes(th, q.draft) /\ Exists(q.draft)
        /\ q \in ConnectRequest /\ Connecting(q)
    BY <1>1, <1>2, Continuing, Kinds DEF Working
  <1> DEFINE d == q.draft
  <1>4. UNCHANGED <<meta, disk, created, homes, behind, stray, main, branch, base, pr, merges,
                    release, registry>>
    BY DEF ReadBase, local, history, github, target
  <1>5. ASSUME NEW r \in ConnectRequest, r.draft = d, r.dir = q.dir, r.seed = q.seed,
               r.todo = q.todo, r.pc = "boot" \/ (r.pc = "branch" /\ r.from = m),
               serving' = [serving EXCEPT ![th] = r]
        PROVE  DraftsInv'
    <2>1. Rest(r) = Rest(q)
      BY <1>5 DEF Rest
    <2>2. Connecting(r)'
      BY <1>1, <1>2, <1>3, <1>4, <1>5, <2>1 DEF Connecting, Branched, Alone
    <2>3. Working(r)' /\ r \in Requests
      BY <1>3, <1>4, <1>5, <2>2, WorkConnecting DEF Exists
    <2>4. QED
      BY <1>1, <1>2, <1>3, <1>4, <1>5, <2>3, QuietStep DEF Exists
  <1>6. CASE born
    <2> DEFINE r == [q EXCEPT !.pc = "branch", !.from = m]
    <2>1. m \in Commit
      BY <1>1 DEF DraftsInv, TypeInv, DraftsTypeOK
    <2>2. /\ r \in ConnectRequest /\ r.draft = d /\ r.dir = q.dir /\ r.seed = q.seed
          /\ r.todo = q.todo /\ r.pc = "branch" /\ r.from = m
      BY <1>3, <2>1 DEF ConnectRequest
    <2>3. serving' = [serving EXCEPT ![th] = r]
      BY <1>1, <1>6 DEF ReadBase, Set
    <2> HIDE DEF r
    <2>4. QED
      BY <1>5, <2>2, <2>3
  <1>7. CASE ~born
    <2> DEFINE r == [q EXCEPT !.pc = "boot"]
    <2>1. serving' = [serving EXCEPT ![th] = r]
      BY <1>1, <1>7, GoesOn DEF ReadBase, DraftsInv
    <2>2. /\ r \in ConnectRequest /\ r.draft = d /\ r.dir = q.dir /\ r.seed = q.seed
          /\ r.todo = q.todo /\ r.pc = "boot"
      BY <1>3 DEF ConnectRequest
    <2> HIDE DEF r
    <2>3. QED
      BY <1>5, <2>1, <2>2
  <1>8. QED
    BY <1>6, <1>7

LEMMA InvBootstrapFile ==
  ASSUME DraftsInv, TypeInv', NEW th \in Workers, NEW f \in Files, BootstrapFile(th, f)
  PROVE  DraftsInv'
  <1> PICK m : m = main'
    OBVIOUS
  <1>1. PICK q \in Requests : q = serving[th]
    BY Turned DEF DraftsInv
  <1>2. q.pc = "boot" /\ f \in q.todo
    BY <1>1 DEF BootstrapFile, DraftAt
  <1>3. /\ Draft(th) = q.draft /\ q.draft \in Drafts /\ Takes(th, q.draft) /\ Exists(q.draft)
        /\ q \in ConnectRequest /\ Connecting(q) /\ HistoryOf(q.draft) /\ Mirrored(q.draft)
        /\ q.draft \in created
    BY <1>1, <1>2, Continuing, Kinds DEF Working
  <1> DEFINE d == q.draft
             r == [q EXCEPT !.todo = @ \ {f}, !.from = IF q.todo = {f} THEN m ELSE Nothing,
                            !.pc = IF q.todo = {f} THEN "branch" ELSE "boot"]
  <1>4. UNCHANGED <<meta, disk, created, homes, behind, stray, branch, base, pr, merges,
                    release, registry>>
    BY DEF BootstrapFile, local, history
  <1>5. main \in Commit /\ main' \in Commit /\ q.dir \in Dirs /\ q.seed \in Tree
    BY <1>3 DEF DraftsInv, TypeInv, DraftsTypeOK, ConnectRequest, Dirs
  <1>6. main' = [main EXCEPT ![q.dir][f] = q.seed[f]]
    BY <1>1 DEF BootstrapFile
  <1>7. homes[d] = {q.dir} /\ ~meta[d].git /\ ~Branched(d)
    BY <1>2, <1>3 DEF Connecting
  <1>8. Beside(d)
    BY <1>4, <1>5, <1>6, <1>7 DEF Beside, Commit
  <1>9. HistoryOf(d)' /\ Mirrored(d)'
    BY <1>3, <1>4, <1>7 DEF HistoryOf, Mirrored, Exists, Branched
  <1>10. /\ r \in ConnectRequest /\ r.draft = d /\ r.dir = q.dir /\ r.seed = q.seed
         /\ r.todo = q.todo \ {f} /\ r.pc \in {"branch", "boot"}
         /\ (r.pc = "branch" => r.from = m)
    BY <1>1, <1>3, <1>5 DEF ConnectRequest
  <1>11. serving' = [serving EXCEPT ![th] = r]
    BY <1>1 DEF BootstrapFile, Set
  <1> HIDE DEF r
  <1>12. Alone(d)' => main'[q.dir] = Rest(r)
    <2> SUFFICES ASSUME Alone(d)' PROVE main'[q.dir] = Rest(r)
      OBVIOUS
    <2>1. main[q.dir] = Rest(q)
      BY <1>2, <1>3, <1>4 DEF Connecting, Alone
    <2>2. main'[q.dir] = [main[q.dir] EXCEPT ![f] = q.seed[f]]
      BY <1>5, <1>6 DEF Commit
    <2>3. QED
      BY <1>10, <2>1, <2>2 DEF Rest
  <1>13. Connecting(r)'
    BY <1>1, <1>2, <1>3, <1>4, <1>7, <1>10, <1>12 DEF Connecting, Branched
  <1>14. Working(r)' /\ r \in Requests
    BY <1>3, <1>4, <1>10, <1>13, WorkConnecting DEF Exists
  <1>15. QED
    BY <1>3, <1>4, <1>8, <1>9, <1>10, <1>11, <1>14, DraftStep

\* A step that commits something to the working branch of draft d alone.
LEMMA BesideBranch ==
  ASSUME DraftsInv, NEW d \in Drafts, NEW c, branch' = [branch EXCEPT ![d] = c],
         UNCHANGED <<meta, disk, created, homes, main, pr, merges, release, registry>>,
         \A x \in Drafts \ {d} : base'[x] = base[x] /\ behind'[x] = behind[x] /\ stray'[x] = stray[x]
  PROVE  Beside(d) /\ branch'[d] = c
  BY DEF Beside, DraftsInv, TypeInv, DraftsTypeOK

LEMMA InvCreateBranch ==
  ASSUME DraftsInv, TypeInv', NEW th \in Workers, CreateBranch(th)
  PROVE  DraftsInv'
  <1>1. PICK q \in Requests : q = serving[th]
    BY Turned DEF DraftsInv
  <1>2. q.pc = "branch"
    BY <1>1 DEF CreateBranch, DraftAt
  <1>3. /\ Draft(th) = q.draft /\ q.draft \in Drafts /\ Takes(th, q.draft) /\ Exists(q.draft)
        /\ q \in ConnectRequest /\ Connecting(q) /\ HistoryOf(q.draft) /\ Relies(q)
        /\ q.draft \in created /\ Connected(q.draft)
    BY <1>1, <1>2, Continuing, Kinds DEF Working
  <1> DEFINE d == q.draft
             label == IF q.todo = {} THEN "connect" ELSE "seed"
             r == [q EXCEPT !.pc = label]
  <1>4. UNCHANGED <<meta, disk, created, homes, behind, stray, main, pr, merges, release, registry>>
    BY DEF CreateBranch, local, history, target
  <1>5. branch' = [branch EXCEPT ![d] = q.from] /\ base' = [base EXCEPT ![d] = q.from]
    BY <1>1, <1>3 DEF CreateBranch
  <1>6. base'[d] = q.from /\ \A x \in Drafts \ {d} : base'[x] = base[x]
    BY <1>3, <1>5 DEF DraftsInv, TypeInv, DraftsTypeOK
  <1>7. Beside(d) /\ branch'[d] = q.from
    BY <1>3, <1>4, <1>5, <1>6, BesideBranch
  <1>8. /\ r \in ConnectRequest /\ r.draft = d /\ r.dir = q.dir /\ r.seed = q.seed
        /\ r.todo = q.todo /\ r.from = q.from /\ r.pc = label
    <2>1. label \in {"base", "boot", "branch", "seed", "connect"}
      OBVIOUS
    <2>2. QED
      BY <1>3, <2>1, Relabel
  <1>9. serving' = [serving EXCEPT ![th] = r]
    BY <1>1, GoesOn DEF CreateBranch, DraftsInv
  <1>10. homes[d] = {q.dir} /\ ~meta[d].git /\ meta[d].dir = Nothing /\ Root # Nothing
    <2>1. Root # Nothing
      BY NothingAssumption DEF Dirs
    <2>2. QED
      BY <1>2, <1>3, <2>1 DEF Connecting, Connected
  <1>11. Alone(d)' => main[q.dir] = Rest(q) /\ q.from[q.dir] = Rest(q)
    BY <1>2, <1>3, <1>4 DEF Connecting, Alone
  <1>12. HistoryOf(d)'
    BY <1>3, <1>4, <1>6, <1>7, <1>10, <1>11 DEF HistoryOf, Exists
  <1>13. Mirrored(d)'
    BY <1>4, <1>10 DEF Mirrored, Exists
  <1>14. Connecting(r)'
    <2>1. q.todo = {} => Rest(q) = q.seed
      <3>1. q.seed \in Tree
        BY <1>3 DEF ConnectRequest
      <3>2. QED
        BY <3>1 DEF Rest, Tree
    <2>2. Rest(r) = Rest(q)
      BY <1>8 DEF Rest
    <2> HIDE DEF r
    <2>3. QED
      BY <1>3, <1>4, <1>7, <1>8, <1>10, <1>11, <2>1, <2>2 DEF Connecting
  <1> HIDE DEF r
  <1>15. Working(r)' /\ r \in Requests
    BY <1>3, <1>4, <1>8, <1>14, WorkConnecting DEF Exists
  <1>16. QED
    BY <1>3, <1>4, <1>7, <1>8, <1>9, <1>12, <1>13, <1>15, DraftStep

LEMMA InvSeedBranch ==
  ASSUME DraftsInv, TypeInv', NEW th \in Workers, SeedBranch(th)
  PROVE  DraftsInv'
  <1>1. PICK q \in Requests : q = serving[th]
    BY Turned DEF DraftsInv
  <1>2. q.pc = "seed"
    BY <1>1 DEF SeedBranch, DraftAt
  <1>3. /\ Draft(th) = q.draft /\ q.draft \in Drafts /\ Takes(th, q.draft) /\ Exists(q.draft)
        /\ q \in ConnectRequest /\ Connecting(q) /\ HistoryOf(q.draft) /\ Relies(q)
        /\ q.draft \in created /\ Connected(q.draft)
    BY <1>1, <1>2, Continuing, Kinds DEF Working
  <1> DEFINE d == q.draft
             c == [branch[d] EXCEPT ![q.dir] = Over(q.seed, @)]
             r == [q EXCEPT !.pc = "connect"]
  <1>4. UNCHANGED <<meta, disk, created, homes, behind, stray, main, base, pr, merges, release,
                    registry>>
    BY DEF SeedBranch, local, history, target
  <1>5. branch[d] \in Commit /\ q.dir \in Dirs /\ q.seed \in Tree /\ Branched(d)
    BY <1>2, <1>3, Row DEF Relies, ConnectRequest, DraftsInv, Dirs
  <1>6. branch' = [branch EXCEPT ![d] = c]
    BY <1>1, <1>3 DEF SeedBranch, DraftsInv, TypeInv, DraftsTypeOK
  <1>7. Beside(d) /\ branch'[d] = c
    BY <1>3, <1>4, <1>6, BesideBranch
  <1>8. /\ r \in ConnectRequest /\ r.draft = d /\ r.dir = q.dir /\ r.seed = q.seed
        /\ r.todo = q.todo /\ r.pc = "connect"
    BY <1>3, Relabel
  <1>9. serving' = [serving EXCEPT ![th] = r]
    BY <1>1, GoesOn DEF SeedBranch, DraftsInv
  <1>10. homes[d] = {q.dir} /\ ~meta[d].git /\ meta[d].dir = Nothing /\ Root # Nothing
    <2>1. Root # Nothing
      BY NothingAssumption DEF Dirs
    <2>2. QED
      BY <1>2, <1>3, <2>1 DEF Connecting, Connected
  <1>11. /\ \A dir \in Dirs \ {q.dir} : c[dir] = branch[d][dir]
         /\ c[q.dir] = Over(q.seed, branch[d][q.dir])
    BY <1>5 DEF Commit
  <1>12. Alone(d)' => c[q.dir] = q.seed
    <2> SUFFICES ASSUME Alone(d)' PROVE c[q.dir] = q.seed
      OBVIOUS
    <2>1. branch[d][q.dir] = Rest(q)
      BY <1>2, <1>3, <1>4 DEF Connecting, Alone
    <2>2. Over(q.seed, Rest(q)) = q.seed
      BY <1>5 DEF Over, Rest, Tree
    <2>3. QED
      BY <1>11, <2>1, <2>2
  <1>13. HistoryOf(d)'
    <2> HIDE DEF c
    <2>1. QED
      BY <1>3, <1>4, <1>5, <1>7, <1>10, <1>11 DEF HistoryOf, Exists, Branched, Alone
  <1>14. Mirrored(d)'
    BY <1>4, <1>10 DEF Mirrored, Exists
  <1> HIDE DEF r, c
  <1>15. Connecting(r)'
    BY <1>2, <1>3, <1>4, <1>7, <1>8, <1>10, <1>12 DEF Connecting
  <1>16. Working(r)' /\ r \in Requests
    BY <1>3, <1>4, <1>8, <1>15, WorkConnecting DEF Exists
  <1>17. QED
    BY <1>3, <1>4, <1>7, <1>8, <1>9, <1>13, <1>14, <1>16, DraftStep

\* A step that writes nothing but metadata of draft d.
LEMMA BesideMeta ==
  ASSUME DraftsInv, NEW d \in Drafts, NEW m, meta' = [meta EXCEPT ![d] = m],
         UNCHANGED <<disk, created, homes, behind, stray, github, registry>>
  PROVE  /\ Beside(d) /\ meta'[d] = m
         /\ UNCHANGED <<main, branch, base, pr, merges, release>>
  BY DEF Beside, DraftsInv, TypeInv, DraftsTypeOK, github, target

LEMMA InvSetConnection ==
  ASSUME DraftsInv, TypeInv', NEW th \in Workers, SetConnection(th)
  PROVE  DraftsInv'
  <1>1. PICK q \in Requests : q = serving[th]
    BY Turned DEF DraftsInv
  <1>2. q.pc = "connect"
    BY <1>1 DEF SetConnection, DraftAt
  <1>3. /\ Draft(th) = q.draft /\ q.draft \in Drafts /\ Takes(th, q.draft) /\ Exists(q.draft)
        /\ q \in ConnectRequest /\ Connecting(q) /\ HistoryOf(q.draft) /\ Relies(q)
        /\ q.draft \in created
    BY <1>1, <1>2, Continuing, Kinds DEF Working
  <1> DEFINE d == q.draft
             m == [git |-> TRUE, error |-> FALSE, dir |-> q.dir]
  <1>4. UNCHANGED <<disk, created, homes, behind, stray, github, registry>>
    BY DEF SetConnection, history
  <1>5. meta' = [meta EXCEPT ![d] = m]
    BY <1>1, <1>3 DEF SetConnection, Draft
  <1>6. /\ Beside(d) /\ meta'[d] = m
        /\ UNCHANGED <<main, branch, base, pr, merges, release>>
    BY <1>3, <1>4, <1>5, BesideMeta
  <1>7. q.dir # Root /\ Branched(d)
    BY <1>2, <1>3, DraftsAssumption DEF ConnectRequest, Relies
  <1>8. HistoryOf(d)'
    BY <1>3, <1>4, <1>6, <1>7 DEF HistoryOf, Exists, Branched, Alone, Connecting
  <1>9. Mirrored(d)'
    BY <1>2, <1>3, <1>4, <1>6, <1>7 DEF Mirrored, Agree, Alone, Connecting
  <1>10. serving' = [serving EXCEPT ![th] = NoRequest]
    BY DEF SetConnection, EndRequest, Set
  <1>11. QED
    BY <1>3, <1>4, <1>6, <1>8, <1>9, <1>10, NothingToDo, DraftStep

LEMMA InvBeginSave ==
  ASSUME oneAtATime, DraftsInv, TypeInv', NEW th \in Workers, NEW d \in Drafts, NEW f \in Files,
         NEW c \in Contents \union {Nothing}, BeginSave(th, d, f, c)
  PROVE  DraftsInv'
  <1>1. PICK m \in Meta : m = meta[d]
    BY Row DEF BeginSave, DraftsInv
  <1> DEFINE r == [pc |-> "write", draft |-> d, dir |-> m.dir, file |-> f, to |-> c]
  <1>2. Takes(th, d) /\ serving[th].pc # "relocate" /\ serving' = [serving EXCEPT ![th] = r]
    BY <1>1, Beginning DEF BeginSave, Set
  <1>3. UNCHANGED <<meta, disk, created, homes, behind, stray, main, branch, base, pr, merges,
                    release, registry>>
    BY DEF BeginSave, local, history, github, target
  <1>4. r \in SaveRequest /\ r.draft = d /\ r.dir = m.dir /\ r.pc = "write"
    BY DEF SaveRequest, Meta
  <1> HIDE DEF r
  <1>5. Saving(r)'
    BY <1>1, <1>3, <1>4 DEF Saving
  <1>6. Working(r)' /\ r \in Requests
    BY <1>3, <1>4, <1>5, WorkSaving DEF BeginSave, Exists
  <1>7. QED
    BY <1>2, <1>3, <1>4, <1>6, QuietStep DEF Exists

LEMMA InvWriteFile ==
  ASSUME DraftsInv, TypeInv', NEW th \in Workers, NEW sync \in BOOLEAN, WriteFile(th, sync)
  PROVE  DraftsInv'
  <1>1. PICK q \in Requests : q = serving[th]
    BY Turned DEF DraftsInv
  <1>2. q.pc = "write"
    BY <1>1 DEF WriteFile, DraftAt
  <1>3. /\ Draft(th) = q.draft /\ q.draft \in Drafts /\ Takes(th, q.draft) /\ Exists(q.draft)
        /\ q \in SaveRequest /\ Saving(q) /\ HistoryOf(q.draft) /\ Mirrored(q.draft)
        /\ q.draft \in created
    BY <1>1, <1>2, Continuing, Kinds DEF Working
  <1> DEFINE d == q.draft
  <1>4. q.file \in Files
    BY <1>3 DEF SaveRequest
  <1>5. UNCHANGED <<meta, created, homes, stray, main, branch, base, pr, merges, release, registry>>
    BY DEF WriteFile, github, target
  <1>6. /\ \A x \in Drafts \ {d} : disk'[x] = disk[x] /\ behind'[x] = behind[x]
        /\ disk'[d] = [disk[d] EXCEPT ![q.file] = q.to]
        /\ behind'[d] = behind[d] \union {q.file}
    BY <1>1, <1>3 DEF WriteFile, Draft, DraftsInv, TypeInv, DraftsTypeOK
  <1>7. disk[d] \in Tree /\ behind[d] \subseteq Files
    BY <1>3, Row DEF DraftsInv
  <1>8. Beside(d)
    BY <1>5, <1>6 DEF Beside
  <1>9. HistoryOf(d)'
    BY <1>3, <1>5 DEF HistoryOf, Exists, Branched, Alone
  <1>10. /\ disk'[d][q.file] = q.to
         /\ \A f \in Files \ {q.file} : disk'[d][f] = disk[d][f]
    BY <1>4, <1>6, <1>7 DEF Tree
  <1>11. Mirrored(d)'
    BY <1>3, <1>5, <1>6, <1>10 DEF Mirrored, Exists, Agree, Alone
  <1>12. CASE Goto(th, "commit")
    <2> DEFINE r == [q EXCEPT !.pc = "commit"]
    <2>1. serving' = [serving EXCEPT ![th] = r]
      BY <1>1, <1>12, GoesOn DEF DraftsInv
    <2>2. /\ r \in SaveRequest /\ r.draft = d /\ r.dir = q.dir /\ r.file = q.file /\ r.to = q.to
      BY <1>3, Relabel
    <2> HIDE DEF r
    <2>3. Saving(r)'
      BY <1>3, <1>5, <1>6, <1>10, <2>2 DEF Saving
    <2>4. Working(r)' /\ r \in Requests
      BY <1>3, <1>5, <2>2, <2>3, WorkSaving DEF Exists
    <2>5. QED
      BY <1>3, <1>5, <1>8, <1>9, <1>11, <2>1, <2>2, <2>4, DraftStep
  <1>13. CASE EndRequest(th)
    BY <1>3, <1>5, <1>8, <1>9, <1>11, <1>13, NothingToDo, DraftStep DEF EndRequest, Set
  <1>14. QED
    BY <1>12, <1>13 DEF WriteFile

LEMMA InvCommitChange ==
  ASSUME DraftsInv, TypeInv', NEW th \in Workers, NEW answered \in BOOLEAN,
         CommitChange(th, answered)
  PROVE  DraftsInv'
  <1>1. PICK q \in Requests : q = serving[th]
    BY Turned DEF DraftsInv
  <1>2. q.pc = "commit"
    BY <1>1 DEF CommitChange, DraftAt
  <1>3. /\ Draft(th) = q.draft /\ q.draft \in Drafts /\ Takes(th, q.draft) /\ Exists(q.draft)
        /\ q \in SaveRequest /\ Saving(q) /\ HistoryOf(q.draft) /\ Mirrored(q.draft)
        /\ q.draft \in created /\ Relies(q) /\ Connected(q.draft)
    BY <1>1, <1>2, Continuing, Kinds DEF Working
  <1> DEFINE d == q.draft
             c == [branch[d] EXCEPT ![q.dir][q.file] = q.to]
             label == IF answered THEN "landed" ELSE "failed"
             r == [q EXCEPT !.pc = label]
  <1>4. /\ q.file \in Files /\ q.dir \in Dirs /\ q.dir = meta[d].dir /\ Branched(d) /\ meta[d].git
        /\ q.dir \in homes[d] /\ branch[d] \in Commit
        /\ q.to = disk[d][q.file] /\ q.file \in behind[d]
    <2>1. q.dir # Nothing /\ q.dir \in Dirs /\ q.file \in Files /\ q.dir = meta[d].dir
      BY <1>2, <1>3 DEF SaveRequest, Relies, Saving
    <2>2. meta[d].git /\ Branched(d) /\ q.dir \in homes[d]
      BY <1>3, <2>1 DEF Connected, HistoryOf
    <2>3. branch[d] \in Commit
      BY <1>3, <2>2, Row DEF DraftsInv
    <2>4. q.to = disk[d][q.file] /\ q.file \in behind[d]
      BY <1>2, <1>3 DEF Saving
    <2>5. QED
      BY <2>1, <2>2, <2>3, <2>4
  <1>5. UNCHANGED <<meta, disk, created, homes, stray, main, base, pr, merges, release, registry>>
    BY DEF CommitChange, target
  <1>6. branch' = [branch EXCEPT ![d] = c]
    BY <1>1, <1>3, <1>4 DEF CommitChange, Draft, DraftsInv, TypeInv, DraftsTypeOK
  <1>7. /\ \A x \in Drafts \ {d} : behind'[x] = behind[x]
        /\ behind[d] \ {q.file} \subseteq behind'[d]
    BY <1>1, <1>3 DEF CommitChange, Draft, DraftsInv, TypeInv, DraftsTypeOK
  <1>8. Beside(d) /\ branch'[d] = c
    <2> HIDE DEF c
    <2>1. \A x \in Drafts \ {d} : base'[x] = base[x] /\ behind'[x] = behind[x] /\ stray'[x] = stray[x]
      BY <1>5, <1>7
    <2>2. UNCHANGED <<meta, disk, created, homes, main, pr, merges, release, registry>>
      BY <1>5
    <2>3. d \in Drafts
      BY <1>3
    <2> HIDE DEF d
    <2>4. QED
      BY <1>6, <2>1, <2>2, <2>3, BesideBranch
  <1>9. /\ \A dir \in Dirs \ {q.dir} : c[dir] = branch[d][dir]
        /\ c[q.dir][q.file] = q.to
        /\ \A f \in Files \ {q.file} : c[q.dir][f] = branch[d][q.dir][f]
    <2>1. branch[d][q.dir] \in Tree
      BY <1>4, TreesAndCommits
    <2>2. QED
      BY <1>4, <2>1 DEF Commit, Tree
  <1> HIDE DEF c
  <1>10. HistoryOf(d)'
    BY <1>3, <1>4, <1>5, <1>8, <1>9 DEF HistoryOf, Exists, Branched, Alone
  <1>11. Mirrored(d)'
    <2>1. Alone(d)' => Agree(branch[d][q.dir], d)
      BY <1>3, <1>4, <1>5 DEF Mirrored, Alone
    <2>2. Alone(d)' => Agree(branch[d][meta[d].dir], d)'
      BY <1>4, <1>5, <1>7, <1>8, <1>9, <2>1 DEF Agree
    <2>3. q.dir = Root => \A dir \in Skills, f \in Files \ stray[d] : branch'[d][dir][f] = Nothing
      <3>1. \A dir \in Skills : dir # Root /\ dir \in Dirs
        BY DraftsAssumption DEF Dirs
      <3>2. QED
        BY <1>3, <1>4, <1>8, <1>9, <3>1 DEF Mirrored
    <2>4. QED
      BY <1>4, <1>5, <2>2, <2>3 DEF Mirrored, Exists
  <1>12. serving' = [serving EXCEPT ![th] = r]
    BY <1>1, GoesOn DEF CommitChange, DraftsInv
  <1>13. r \in SaveRequest /\ r.draft = d /\ r.dir = q.dir /\ r.pc \in {"landed", "failed"}
    BY <1>3, Relabel
  <1> HIDE DEF r
  <1>14. Saving(r)'
    BY <1>3, <1>5, <1>13 DEF Saving
  <1>15. Working(r)' /\ r \in Requests
    BY <1>3, <1>5, <1>13, <1>14, WorkSaving DEF Exists
  <1>16. QED
    BY <1>3, <1>5, <1>8, <1>10, <1>11, <1>12, <1>13, <1>15, DraftStep

LEMMA InvCommitFails ==
  ASSUME DraftsInv, TypeInv', NEW th \in Workers, CommitFails(th)
  PROVE  DraftsInv'
  <1>1. PICK q \in Requests : q = serving[th]
    BY Turned DEF DraftsInv
  <1>2. q.pc = "commit"
    BY <1>1 DEF CommitFails, DraftAt
  <1>3. /\ Draft(th) = q.draft /\ q.draft \in Drafts /\ Takes(th, q.draft) /\ Exists(q.draft)
        /\ q \in SaveRequest /\ Saving(q)
    BY <1>1, <1>2, Continuing, Kinds DEF Working
  <1> DEFINE r == [q EXCEPT !.pc = "failed"]
  <1>4. UNCHANGED <<meta, disk, created, homes, behind, stray, main, branch, base, pr, merges,
                    release, registry>>
    BY DEF CommitFails, local, history, github, target
  <1>5. serving' = [serving EXCEPT ![th] = r]
    BY <1>1, GoesOn DEF CommitFails, DraftsInv
  <1>6. r \in SaveRequest /\ r.draft = q.draft /\ r.dir = q.dir /\ r.pc = "failed"
    BY <1>3, Relabel
  <1> HIDE DEF r
  <1>7. Saving(r)'
    BY <1>3, <1>4, <1>6 DEF Saving
  <1>8. Working(r)' /\ r \in Requests
    BY <1>3, <1>4, <1>6, <1>7, WorkSaving DEF Exists
  <1>9. QED
    BY <1>1, <1>2, <1>3, <1>4, <1>5, <1>6, <1>8, QuietStep DEF Exists

LEMMA InvSetSyncStatus ==
  ASSUME DraftsInv, TypeInv', NEW th \in Workers, SetSyncStatus(th)
  PROVE  DraftsInv'
  <1> PICK d : d = Draft(th)
    OBVIOUS
  <1>1. PICK q \in Requests : q = serving[th]
    BY Turned DEF DraftsInv
  <1>2. serving[th].pc \notin {"idle", "relocate"}
    BY DEF SetSyncStatus
  <1>3. d \in Drafts /\ Exists(d)
    BY <1>1, <1>2, Continuing
  <1>4. meta' = [meta EXCEPT ![d].error = DraftAt(th, "failed")]
    BY <1>1, <1>3 DEF SetSyncStatus
  <1>5. meta[d] \in Meta
    BY <1>3, Row DEF DraftsInv
  <1>6. /\ \A x \in Drafts \ {d} : meta'[x] = meta[x]
        /\ meta'[d].git = meta[d].git /\ meta'[d].dir = meta[d].dir
    BY <1>3, <1>4, <1>5 DEF DraftsInv, TypeInv, DraftsTypeOK, Meta
  <1>7. QED
    BY <1>1, <1>2, <1>3, <1>6, QuietEnd DEF SetSyncStatus

LEMMA InvBeginMove ==
  ASSUME oneAtATime, DraftsInv, TypeInv', NEW th \in Workers, NEW d \in Drafts,
         NEW dir \in Skills, BeginMove(th, d, dir)
  PROVE  DraftsInv'
  <1>1. PICK files \in Tree : files = disk[d]
    BY Row DEF DraftsInv
  <1> DEFINE r == [pc |-> "move", draft |-> d, dir |-> dir, files |-> files]
  <1>2. Takes(th, d) /\ serving[th].pc # "relocate" /\ serving' = [serving EXCEPT ![th] = r]
    BY <1>1, Beginning DEF BeginMove, Set
  <1>3. UNCHANGED <<meta, disk, created, behind, stray, main, branch, base, pr, merges,
                    release, registry>>
    BY DEF BeginMove, github, target
  <1>4. /\ homes'[d] = homes[d] \union {dir}
        /\ \A x \in Drafts \ {d} : homes'[x] = homes[x]
    BY DEF BeginMove, DraftsInv, TypeInv, DraftsTypeOK
  <1>5. Beside(d)
    BY <1>3, <1>4 DEF Beside
  <1>6. /\ HistoryOf(d) /\ Mirrored(d) /\ Exists(d) /\ meta[d].dir = Root /\ d \in created
        /\ TypeInv
    BY <1>2, MirroredNow, Row DEF BeginMove, DraftsInv, Connected
  <1>7. Alone(d)' => Alone(d)
    BY <1>5, <1>6, AloneBefore
  <1>8. Alone(d)' /\ dir \notin homes[d] => main[dir] = Empty
    <2>1. Alone(d)' /\ dir \notin homes[d] => \A x \in Drafts : dir \notin homes[x]
      BY <1>4 DEF Alone
    <2>2. QED
      BY <2>1 DEF DraftsInv, Vacant, Dirs
  <1>9. HistoryOf(d)'
    <2>1. base[d] = Bare /\ dir \in Dirs
      BY <1>6 DEF HistoryOf, Dirs
    <2>2. Bare[dir] = Empty
      BY <2>1 DEF Bare
    <2>3. QED
      BY <1>3, <1>4, <1>6, <1>7, <1>8, <2>1, <2>2 DEF HistoryOf, Exists, Branched
  <1>10. Mirrored(d)'
    BY <1>3, <1>6, <1>7 DEF Mirrored, Exists, Agree
  <1>11. r \in MoveRequest /\ r.draft = d /\ r.dir = dir /\ r.pc = "move" /\ r.files = disk[d]
    BY <1>1 DEF MoveRequest
  <1> HIDE DEF r
  <1>12. Moving(r)'
    BY <1>3, <1>4, <1>6, <1>11 DEF Moving
  <1>13. Working(r)' /\ r \in Requests
    BY <1>3, <1>6, <1>11, <1>12, WorkMoving DEF Exists
  <1>14. QED
    BY <1>2, <1>3, <1>5, <1>9, <1>10, <1>11, <1>13, DraftStep

LEMMA InvMoveFiles ==
  ASSUME DraftsInv, TypeInv', NEW th \in Workers, NEW answered \in BOOLEAN,
         MoveFiles(th, answered)
  PROVE  DraftsInv'
  <1>1. PICK q \in Requests : q = serving[th]
    BY Turned DEF DraftsInv
  <1>2. q.pc = "move"
    BY <1>1 DEF MoveFiles, DraftAt
  <1>3. /\ Draft(th) = q.draft /\ q.draft \in Drafts /\ Takes(th, q.draft) /\ Exists(q.draft)
        /\ q \in MoveRequest /\ Moving(q) /\ HistoryOf(q.draft) /\ Mirrored(q.draft)
        /\ q.draft \in created /\ Relies(q) /\ Connected(q.draft)
    BY <1>1, <1>2, Continuing, Kinds DEF Working
  <1> DEFINE d == q.draft
             moved == Present(q.files)
             t == [f \in Files |-> IF f \in moved THEN Nothing ELSE branch[d][Root][f]]
             over == Over(q.files, branch[d][q.dir])
             c == [branch[d] EXCEPT ![Root] = t, ![q.dir] = over]
             r == [q EXCEPT !.pc = "relocate"]
  <1>4. /\ q.dir \in Skills /\ q.dir \in homes[d] /\ Root \in homes[d] /\ Branched(d)
        /\ meta[d].git /\ meta[d].dir = Root /\ q.files = disk[d]
        /\ branch[d] \in Commit /\ disk[d] \in Tree
    <2>1. q.dir \in Skills /\ Branched(d) /\ meta[d].git
      BY <1>3 DEF MoveRequest, Relies
    <2>2. q.dir \in homes[d] /\ meta[d].dir = Root /\ q.files = disk[d]
      BY <1>2, <1>3 DEF Moving
    <2>3. Root \in homes[d]
      BY <1>3, <2>1, <2>2 DEF HistoryOf
    <2>4. branch[d] \in Commit /\ disk[d] \in Tree
      BY <1>3, <2>1, Row DEF DraftsInv
    <2>5. QED
      BY <2>1, <2>2, <2>3, <2>4
  <1>5. q.dir # Root /\ q.dir \in Dirs /\ Root \in Dirs
    BY <1>4, DraftsAssumption DEF Dirs
  <1>6. UNCHANGED <<meta, disk, created, homes, main, base, pr, merges, release, registry>>
    BY DEF MoveFiles, target
  <1>7. branch' = [branch EXCEPT ![d] = c]
    <2>1. branch' = [branch EXCEPT
            ![d][Root] = [f \in Files |-> IF f \in moved THEN Nothing ELSE @[f]],
            ![d][q.dir] = Over(q.files, @)]
      BY <1>1 DEF MoveFiles, Draft
    <2>2. branch \in [Drafts -> Commit \union {Nothing}]
      BY DEF DraftsInv, TypeInv, DraftsTypeOK
    <2>3. QED
      BY <1>3, <1>4, <1>5, <2>1, <2>2 DEF Commit
  <1>8. /\ c[Root] = t /\ c[q.dir] = over
        /\ \A dir \in Dirs \ {Root, q.dir} : c[dir] = branch[d][dir]
    BY <1>4, <1>5 DEF Commit
  <1>9. /\ \A f \in moved : f \in Files /\ t[f] = Nothing /\ over[f] = disk[d][f]
        /\ \A f \in Files \ moved : /\ t[f] = branch[d][Root][f]
                                    /\ over[f] = branch[d][q.dir][f]
                                    /\ disk[d][f] = Nothing
    BY <1>4 DEF Present, Over
  <1>10. /\ \A x \in Drafts \ {d} : behind'[x] = behind[x] /\ stray'[x] = stray[x]
         /\ \/ /\ behind'[d] = stray[d] \ moved /\ stray'[d] = stray[d]
               /\ Goto(th, "relocate")
            \/ /\ behind'[d] = behind[d] \union moved /\ stray'[d] = stray[d] \union moved
               /\ EndRequest(th)
    <2>1. /\ behind \in [Drafts -> SUBSET Files] /\ stray \in [Drafts -> SUBSET Files]
          /\ q = serving[th] /\ d \in Drafts /\ Draft(th) = d
      BY <1>1, <1>3 DEF DraftsInv, TypeInv, DraftsTypeOK
    <2>2. QED
      BY <2>1 DEF MoveFiles, Draft
  <1> HIDE DEF moved, c
  <1>11. Beside(d) /\ branch'[d] = c
    <2>1. \A x \in Drafts \ {d} : base'[x] = base[x] /\ behind'[x] = behind[x] /\ stray'[x] = stray[x]
      BY <1>6, <1>10
    <2>2. UNCHANGED <<meta, disk, created, homes, main, pr, merges, release, registry>>
      BY <1>6
    <2>3. d \in Drafts
      BY <1>3
    <2> HIDE DEF d
    <2>4. QED
      BY <1>7, <2>1, <2>2, <2>3, BesideBranch
  <1> HIDE DEF t, over
  <1>12. HistoryOf(d)'
    BY <1>3, <1>4, <1>6, <1>8, <1>11 DEF HistoryOf, Exists, Branched, Alone
  <1>13. \A f \in Files \ stray[d] : branch[d][q.dir][f] = Nothing
    BY <1>3, <1>4 DEF Mirrored
  <1>14. CASE behind'[d] = stray[d] \ moved /\ stray'[d] = stray[d] /\ Goto(th, "relocate")
    <2>1. serving' = [serving EXCEPT ![th] = r]
      BY <1>1, <1>14, GoesOn DEF DraftsInv
    <2>2. r \in MoveRequest /\ r.draft = d /\ r.dir = q.dir /\ r.files = q.files /\ r.pc = "relocate"
      BY <1>3, Relabel
    <2> HIDE DEF r
    <2>3. \A f \in Files \ behind'[d] : c[q.dir][f] = disk[d][f]
      BY <1>8, <1>9, <1>13, <1>14
    <2>4. Moving(r)'
      BY <1>4, <1>6, <1>11, <2>2, <2>3 DEF Moving, Agree
    <2>5. Working(r)' /\ r \in Requests
      BY <1>3, <1>6, <2>2, <2>4, WorkMoving DEF Exists
    <2>6. QED
      BY <1>3, <1>6, <1>11, <1>12, <2>1, <2>2, <2>5, DraftStep
  <1>15. CASE /\ behind'[d] = behind[d] \union moved /\ stray'[d] = stray[d] \union moved
              /\ EndRequest(th)
    <2>1. Alone(d)' => Agree(branch[d][Root], d)
      BY <1>3, <1>4, <1>6 DEF Mirrored, Alone
    <2>2. Alone(d)' => \A f \in Files \ behind'[d] : c[Root][f] = disk[d][f]
      BY <1>8, <1>9, <1>15, <2>1 DEF Agree
    <2>3. \A dir \in Skills, f \in Files \ stray'[d] : c[dir][f] = Nothing
      <3>1. \A dir \in Skills : dir \in Dirs /\ dir # Root
        BY DraftsAssumption DEF Dirs
      <3>2. \A dir \in Skills, f \in Files \ stray[d] : branch[d][dir][f] = Nothing
        BY <1>3, <1>4 DEF Mirrored
      <3>3. QED
        BY <1>8, <1>9, <1>15, <3>1, <3>2
    <2>4. Mirrored(d)'
      BY <1>4, <1>6, <1>11, <2>2, <2>3 DEF Mirrored, Agree
    <2>5. serving' = [serving EXCEPT ![th] = NoRequest]
      BY <1>15 DEF EndRequest, Set
    <2>6. QED
      BY <1>3, <1>6, <1>11, <1>12, <2>4, <2>5, NothingToDo, DraftStep
  <1>16. QED
    BY <1>10, <1>14, <1>15

LEMMA InvMoveFails ==
  ASSUME DraftsInv, TypeInv', NEW th \in Workers, MoveFails(th)
  PROVE  DraftsInv'
  <1>1. PICK d : d = Draft(th)
    OBVIOUS
  <1>2. UNCHANGED <<meta, disk, created, history, github, registry>>
    BY DEF MoveFails, local
  <1>3. QED
    BY <1>1, <1>2, QuietEnd DEF MoveFails, DraftAt, Exists

LEMMA InvRelocate ==
  ASSUME DraftsInv, TypeInv', NEW th \in Workers, Relocate(th)
  PROVE  DraftsInv'
  <1>1. PICK q \in Requests : q = serving[th]
    BY Turned DEF DraftsInv
  <1>2. q.pc = "relocate"
    BY <1>1 DEF Relocate, DraftAt
  <1>3. /\ Draft(th) = q.draft /\ q.draft \in Drafts /\ Takes(th, q.draft) /\ Exists(q.draft)
        /\ q \in MoveRequest /\ Moving(q) /\ HistoryOf(q.draft)
        /\ q.draft \in created /\ Relies(q)
    BY <1>1, <1>2, Continuing, Kinds DEF Working
  <1> DEFINE d == q.draft
             m == [meta[d] EXCEPT !.dir = q.dir]
             r == [q EXCEPT !.pc = "landed"]
  <1>4. q.dir \in Skills /\ q.dir # Root /\ q.dir \in homes[d] /\ Agree(branch[d][q.dir], d)
    BY <1>2, <1>3, DraftsAssumption DEF MoveRequest, Moving
  <1>5. UNCHANGED <<disk, created, homes, behind, stray, github, registry>>
    BY DEF Relocate, history
  <1>6. meta' = [meta EXCEPT ![d] = m] /\ Goto(th, "landed")
    BY <1>1, <1>3 DEF Relocate, Draft, DraftsInv, TypeInv, DraftsTypeOK
  <1>7. m \in Meta /\ m.dir = q.dir
    <2>1. meta[d] \in Meta
      BY <1>3, Row DEF DraftsInv
    <2>2. QED
      BY <1>4, <2>1 DEF Meta, Dirs
  <1> HIDE DEF m
  <1>8. /\ Beside(d) /\ meta'[d] = m
        /\ UNCHANGED <<main, branch, base, pr, merges, release>>
    BY <1>3, <1>5, <1>6, BesideMeta
  <1>9. HistoryOf(d)'
    BY <1>3, <1>4, <1>5, <1>7, <1>8 DEF HistoryOf, Branched, Alone
  <1>10. Mirrored(d)'
    BY <1>4, <1>5, <1>7, <1>8 DEF Mirrored, Agree
  <1>11. serving' = [serving EXCEPT ![th] = r]
    BY <1>1, <1>6, GoesOn DEF DraftsInv
  <1>12. r \in MoveRequest /\ r.draft = d /\ r.dir = q.dir /\ r.pc = "landed"
    BY <1>3 DEF MoveRequest
  <1> HIDE DEF r
  <1>13. Moving(r)'
    BY <1>4, <1>5, <1>12 DEF Moving
  <1>14. Working(r)' /\ r \in Requests
    <2>1. Exists(d)'
      BY <1>7, <1>8, NotMeta DEF Exists
    <2>2. QED
      BY <1>12, <1>13, <2>1, WorkMoving
  <1>15. QED
    BY <1>3, <1>5, <1>8, <1>9, <1>10, <1>11, <1>12, <1>14, DraftStep

-----------------------------------------------------------------------------
LEMMA InvBeginPublish ==
  ASSUME oneAtATime, DraftsInv, TypeInv', NEW th \in Workers, NEW d \in Drafts,
         NEW slot \in Slots, BeginPublish(th, d, slot)
  PROVE  DraftsInv'
  <1>1. PICK m \in Meta, files \in Tree : m = meta[d] /\ files = disk[d]
    BY Row DEF BeginPublish, DraftsInv
  <1> DEFINE r == [pc |-> IF m.git THEN "openPr" ELSE "archive", draft |-> d, dir |-> m.dir,
                   slot |-> slot, files |-> files]
  <1>2. Takes(th, d) /\ serving[th].pc # "relocate" /\ serving' = [serving EXCEPT ![th] = r]
    BY <1>1, Beginning DEF BeginPublish, Set
  <1>3. UNCHANGED <<meta, disk, created, homes, behind, stray, main, branch, base, pr, merges,
                    release, registry>>
    BY DEF BeginPublish, local, history, github, target
  <1>4. r \in PublishRequest /\ r.draft = d /\ r.dir = m.dir /\ r.files = files
        /\ (r.pc = "openPr" \/ (r.pc = "archive" /\ ~m.git))
    BY DEF PublishRequest, Meta
  <1>5. m.git <=> m.dir # Nothing
    BY <1>1, Row DEF BeginPublish, Connected, DraftsInv
  <1> HIDE DEF r
  <1>6. Publishing(r)'
    BY <1>1, <1>3, <1>4, <1>5 DEF Publishing
  <1>7. Working(r)' /\ r \in Requests
    BY <1>3, <1>4, <1>6, WorkPublishing DEF BeginPublish, Exists
  <1>8. QED
    BY <1>2, <1>3, <1>4, <1>7, QuietStep DEF Exists

LEMMA InvOpenPr ==
  ASSUME DraftsInv, TypeInv', NEW th \in Workers, OpenPr(th)
  PROVE  DraftsInv'
  <1>1. PICK q \in Requests : q = serving[th]
    BY Turned DEF DraftsInv
  <1>2. q.pc = "openPr"
    BY <1>1 DEF OpenPr, DraftAt
  <1>3. /\ Draft(th) = q.draft /\ q.draft \in Drafts /\ Takes(th, q.draft) /\ Exists(q.draft)
        /\ q \in PublishRequest /\ Publishing(q)
    BY <1>1, <1>2, Continuing, Kinds DEF Working
  <1> DEFINE d == q.draft
             r == [q EXCEPT !.pc = "merge"]
  <1>4. UNCHANGED <<meta, disk, created, homes, behind, stray, main, branch, base, merges,
                    release, registry>>
    BY DEF OpenPr, local, history, target
  <1>5. \A x \in Drafts \ {d} : pr'[x] = pr[x]
    BY <1>3 DEF OpenPr, DraftsInv, TypeInv, DraftsTypeOK
  <1>6. serving' = [serving EXCEPT ![th] = r]
    BY <1>1, GoesOn DEF OpenPr, DraftsInv
  <1>7. r \in PublishRequest /\ r.draft = d /\ r.dir = q.dir /\ r.slot = q.slot /\ r.pc = "merge"
        /\ r.files = q.files
    BY <1>3, Relabel
  <1> HIDE DEF r
  <1>8. Publishing(r)'
    BY <1>3, <1>4, <1>7 DEF Publishing
  <1>9. Working(r)' /\ r \in Requests
    BY <1>3, <1>4, <1>7, <1>8, WorkPublishing DEF Exists
  <1>10. QED
    BY <1>1, <1>2, <1>3, <1>4, <1>5, <1>6, <1>7, <1>9, QuietStep DEF Exists

\* A merge writes to the target branch what the working branch changed, and that is
\* in the directories of its draft; the first merge makes the two the same there,
\* if the draft has its directory for itself.
LEMMA MergeDoes ==
  ASSUME DraftsInv, NEW d \in Drafts, Branched(d), Merged(d),
         UNCHANGED <<meta, disk, created, homes, behind, stray, branch, base, release, registry>>
  PROVE  /\ Beside(d) /\ HistoryOf(d)' /\ (Mirrored(d) => Mirrored(d)')
         /\ ~pr'[d] /\ merges'[d] # 0
         /\ merges'[d] = 1 /\ Alone(d) => \A dir \in homes[d] : main'[dir] = branch[d][dir]
  <1>1. /\ branch[d] \in Commit /\ base[d] \in Commit /\ main \in Commit
        /\ merges[d] \in 0..2 /\ HistoryOf(d) /\ homes[d] \subseteq Dirs
    BY Row DEF DraftsInv, TypeInv, DraftsTypeOK
  <1>2. /\ \A x \in Drafts \ {d} : pr'[x] = pr[x] /\ merges'[x] = merges[x]
        /\ ~pr'[d] /\ merges'[d] = IF merges[d] = 0 THEN 1 ELSE 2
    BY DEF Merged, DraftsInv, TypeInv, DraftsTypeOK
  <1>3. \A dir \in Dirs : main'[dir] = [f \in Files |->
          IF branch[d][dir][f] = base[d][dir][f] THEN main[dir][f] ELSE branch[d][dir][f]]
    BY DEF Merged
  <1>4. \A dir \in Dirs \ homes[d] : main'[dir] = main[dir]
    <2>1. ASSUME NEW dir \in Dirs \ homes[d]
          PROVE  main'[dir] = main[dir]
      <3>1. branch[d][dir] = base[d][dir] /\ main[dir] \in Tree
        BY <1>1, TreesAndCommits DEF HistoryOf
      <3>2. QED
        BY <1>3, <3>1 DEF Tree
    <2>2. QED
      BY <2>1
  <1>5. Beside(d)
    BY <1>1, <1>2, <1>4 DEF Beside
  <1>6. HistoryOf(d)' /\ (Mirrored(d) => Mirrored(d)')
    <2>1. HistoryOf(d)'
      <3>1. d \in created
        BY <1>1 DEF HistoryOf
      <3>2. QED
        BY <1>1, <1>2, <3>1 DEF HistoryOf, Exists, Branched
    <2>2. Mirrored(d) => Mirrored(d)'
      BY DEF Mirrored, Exists, Agree, Alone
    <2>3. QED
      BY <2>1, <2>2
  <1>7. ASSUME merges'[d] = 1, Alone(d), NEW dir \in homes[d]
        PROVE  main'[dir] = branch[d][dir]
    <2>1. merges[d] = 0
      BY <1>1, <1>2, <1>7
    <2>2. main[dir] = base[d][dir]
      BY <1>1, <1>7, <2>1 DEF HistoryOf
    <2>3. dir \in Dirs /\ branch[d][dir] \in Tree
      BY <1>1, <1>7, TreesAndCommits
    <2>4. QED
      BY <1>3, <2>2, <2>3 DEF Tree
  <1>8. QED
    BY <1>2, <1>5, <1>6, <1>7

LEMMA InvMergePr ==
  ASSUME DraftsInv, TypeInv', NEW th \in Workers, MergePr(th)
  PROVE  DraftsInv'
  <1>1. PICK q \in Requests : q = serving[th]
    BY Turned DEF DraftsInv
  <1>2. q.pc = "merge"
    BY <1>1 DEF MergePr, DraftAt
  <1>3. /\ Draft(th) = q.draft /\ q.draft \in Drafts /\ Takes(th, q.draft) /\ Exists(q.draft)
        /\ q \in PublishRequest /\ Publishing(q) /\ HistoryOf(q.draft) /\ Mirrored(q.draft)
        /\ Relies(q) /\ Connected(q.draft)
    BY <1>1, <1>2, Continuing, Kinds DEF Working
  <1> DEFINE d == q.draft
             r == [q EXCEPT !.pc = "release"]
  <1>4. UNCHANGED <<meta, disk, created, homes, behind, stray, branch, base, release, registry>>
    BY DEF MergePr, local, history
  <1>5. Branched(d) /\ q.dir = meta[d].dir /\ meta[d].git /\ q.dir \in homes[d]
    BY <1>2, <1>3 DEF Relies, Publishing, Connected, HistoryOf
  <1>6. Merged(d)
    BY <1>3 DEF MergePr
  <1>7. /\ Beside(d) /\ HistoryOf(d)' /\ Mirrored(d)'
        /\ ~pr'[d] /\ merges'[d] # 0
        /\ merges'[d] = 1 /\ Alone(d) => \A dir \in homes[d] : main'[dir] = branch[d][dir]
    BY <1>3, <1>4, <1>5, <1>6, MergeDoes
  <1>8. serving' = [serving EXCEPT ![th] = r]
    BY <1>1, GoesOn DEF MergePr, DraftsInv
  <1>9. /\ r \in PublishRequest /\ r.draft = d /\ r.dir = q.dir /\ r.slot = q.slot
        /\ r.pc = "release" /\ r.files = q.files
    BY <1>3, Relabel
  <1> HIDE DEF r
  <1>10. Alone(d)' /\ merges'[d] = 1 => Agree(main[q.dir], d)'
    <2> SUFFICES ASSUME Alone(d)', merges'[d] = 1
                 PROVE  \A f \in Files \ behind'[d] : main'[q.dir][f] = disk'[d][f]
      BY <1>1 DEF Agree
    <2>1. Alone(d)
      BY <1>4 DEF Alone
    <2>2. Agree(branch[d][q.dir], d)
      BY <1>3, <1>5, <2>1 DEF Mirrored
    <2>3. QED
      BY <1>4, <1>5, <1>7, <2>1, <2>2 DEF Agree
  <1>11. Publishing(r)'
    BY <1>3, <1>4, <1>5, <1>7, <1>9, <1>10 DEF Publishing, Agree
  <1>12. Working(r)' /\ r \in Requests
    BY <1>3, <1>4, <1>9, <1>11, WorkPublishing DEF Exists
  <1>13. QED
    BY <1>3, <1>4, <1>7, <1>8, <1>9, <1>12, DraftStep

\* Who settles a pull request has no thread here; whatever the draft's own thread
\* is doing meanwhile does not depend on it.
LEMMA InvSettlePr ==
  ASSUME DraftsInv, TypeInv', NEW d \in Drafts, NEW merge \in BOOLEAN, SettlePr(d, merge)
  PROVE  DraftsInv'
  <1>1. UNCHANGED <<meta, disk, created, homes, behind, stray, born, branch, base, release,
                    registry, serving, requests>>
    BY DEF SettlePr, local, history
  <1>2. pr[d] /\ Branched(d) /\ HistoryOf(d) /\ TypeInv
    BY Row DEF SettlePr, DraftsInv, Connected
  <1>3. Beside(d) /\ HistoryOf(d)' /\ (Mirrored(d) => Mirrored(d)')
    <2>1. CASE Merged(d)
      BY <1>1, <1>2, <2>1, MergeDoes
    <2>2. CASE pr' = [pr EXCEPT ![d] = FALSE] /\ UNCHANGED <<main, merges>>
      <3>1. \A x \in Drafts \ {d} : pr'[x] = pr[x]
        BY <2>2 DEF DraftsInv, TypeInv, DraftsTypeOK
      <3>2. Beside(d) /\ Untouched(d)
        BY <1>1, <1>2, <2>2, <3>1, BesideQuiet
      <3>3. QED
        BY <1>1, <2>2, <3>2, UntouchedFine DEF Exists
    <2>3. QED
      BY <2>1, <2>2 DEF SettlePr
  <1>4. OneByOne'
    BY <1>1 DEF DraftsInv, OneByOne, Busy, Draft
  <1>5. Vacant'
    BY <1>3, StaysVacant DEF DraftsInv
  <1>6. ASSUME NEW x \in Drafts
        PROVE  HistoryOf(x)' /\ MirrorOf(x)'
    <2>1. CASE x # d
      BY <1>1, <1>2, <1>3, <2>1, OtherHistory, OtherMirror DEF DraftsInv
    <2>2. CASE x = d
      <3>1. Doing(d, "relocate") => Doing(d, "relocate")'
        BY <1>1 DEF Doing, DraftAt, Draft
      <3>2. QED
        BY <1>3, <2>2, <3>1 DEF MirrorOf, DraftsInv
    <2>3. QED
      BY <2>1, <2>2
  <1>7. ASSUME NEW o \in Workers
        PROVE  Working(serving[o])'
    <2>1. PICK q \in Requests : q = serving[o] /\ Relies(q)
      BY <1>2, Turned
    <2>2. Working(q) /\ (q # NoRequest => q.draft \in Drafts)
      BY <2>1, Kinds DEF DraftsInv
    <2>3. CASE q # NoRequest /\ q.draft = d
      <3>1. Exists(d)'
        BY <1>1, <2>2, <2>3 DEF Working, Exists
      <3>2. ASSUME q \in ConnectRequest
            PROVE  Connecting(q)'
        <4>1. Connecting(q) /\ q.pc \notin {"base", "boot", "branch"}
          BY <1>2, <2>2, <2>3, <3>2 DEF Working, Connecting
        <4>2. QED
          BY <1>1, <2>3, <4>1 DEF Connecting, Branched, Alone
      <3>3. ASSUME q \in SaveRequest
            PROVE  Saving(q)'
        BY <1>1, <2>2, <3>3 DEF Working, Saving
      <3>4. ASSUME q \in MoveRequest
            PROVE  Moving(q)'
        BY <1>1, <2>2, <3>4 DEF Working, Moving, Agree
      <3>5. ASSUME q \in PublishRequest
            PROVE  Publishing(q)'
        <4>1. Publishing(q) /\ q.pc # "release" /\ ~(q.pc = "archive" /\ q.dir # Nothing)
          BY <1>2, <2>2, <2>3, <3>5 DEF Working, Publishing
        <4>2. QED
          BY <1>1, <4>1 DEF Publishing
      <3>6. Working(q)'
        BY <2>3, <3>1, <3>2, <3>3, <3>4, <3>5 DEF Working
      <3>7. QED
        BY <1>1, <2>1, <3>6 DEF Working
    <2>4. CASE q = NoRequest \/ q.draft # d
      <3>1. q # NoRequest => q.draft # d /\ HistoryOf(q.draft)
        BY <2>2, <2>4 DEF DraftsInv
      <3>2. Working(q)'
        BY <1>2, <1>3, <2>1, <2>2, <3>1, OtherWork
      <3>3. QED
        BY <1>1, <2>1, <3>2 DEF Working
    <2>5. QED
      BY <2>3, <2>4
  <1>8. \A s \in Slots : Published(s)'
    BY <1>1, <1>2, <1>3, PublishedStays DEF DraftsInv
  <1>9. QED
    BY <1>4, <1>5, <1>6, <1>7, <1>8 DEF DraftsInv

LEMMA InvCreateRelease ==
  ASSUME DraftsInv, TypeInv', NEW th \in Workers, CreateRelease(th)
  PROVE  DraftsInv'
  <1>1. PICK q \in Requests : q = serving[th]
    BY Turned DEF DraftsInv
  <1>2. q.pc = "release"
    BY <1>1 DEF CreateRelease, DraftAt
  <1>3. /\ Draft(th) = q.draft /\ q.draft \in Drafts /\ Takes(th, q.draft) /\ Exists(q.draft)
        /\ q \in PublishRequest /\ Publishing(q)
    BY <1>1, <1>2, Continuing, Kinds DEF Working
  <1> DEFINE d == q.draft
             v == q.slot[2]
             rel == [skill |-> q.slot[1], files |-> main[q.dir]]
             r == [q EXCEPT !.pc = "archive"]
  <1>4. UNCHANGED <<meta, disk, created, homes, behind, stray, main, branch, base, pr, merges,
                    registry>>
    BY DEF CreateRelease, local, history, target
  <1>5. v \in Versions /\ release[v] = Nothing /\ release' = [release EXCEPT ![v] = rel]
    BY <1>1, <1>3 DEF CreateRelease, PublishRequest, Slots
  <1>6. /\ release'[v] = rel
        /\ \A w \in Versions : release[w] # Nothing => release'[w] = release[w]
    BY <1>5 DEF DraftsInv, TypeInv, DraftsTypeOK
  <1>7. rel # Nothing
    <2>1. release'[v] \in Snapshot \union {Nothing} /\ q.dir # Nothing
      BY <1>1, <1>2, <1>5, Turned DEF TypeInv, DraftsTypeOK, DraftsInv, Relies
    <2>2. q.dir \in Dirs /\ q.slot[1] \in Skills /\ main[q.dir] \in Tree
      BY <1>3, <2>1, TreesAndCommits DEF PublishRequest, Slots, DraftsInv, TypeInv, DraftsTypeOK
    <2>3. rel \in Snapshot
      BY <2>2 DEF Snapshot
    <2>4. QED
      BY <2>3, NothingAssumption
  <1>8. rel.skill = q.slot[1] /\ rel.files = main[q.dir]
    OBVIOUS
  <1> HIDE DEF rel
  <1>9. serving' = [serving EXCEPT ![th] = r]
    BY <1>1, GoesOn DEF CreateRelease, DraftsInv
  <1>10. /\ r \in PublishRequest /\ r.draft = d /\ r.dir = q.dir /\ r.slot = q.slot
         /\ r.pc = "archive" /\ r.files = q.files
    BY <1>3, Relabel
  <1> HIDE DEF r
  <1>11. Publishing(r)'
    BY <1>2, <1>3, <1>4, <1>6, <1>7, <1>8, <1>10 DEF Publishing, Agree, Alone
  <1>12. Working(r)' /\ r \in Requests
    BY <1>3, <1>4, <1>10, <1>11, WorkPublishing DEF Exists
  <1>13. QED
    BY <1>1, <1>2, <1>3, <1>4, <1>6, <1>9, <1>10, <1>12, QuietStep DEF Exists

LEMMA InvPublishFails ==
  ASSUME DraftsInv, TypeInv', NEW th \in Workers, PublishFails(th)
  PROVE  DraftsInv'
  <1>1. PICK d : d = Draft(th)
    OBVIOUS
  <1>2. UNCHANGED <<meta, disk, created, history, github, registry>>
    BY DEF PublishFails, local
  <1>3. QED
    BY <1>1, <1>2, QuietEnd DEF PublishFails, Exists

LEMMA InvPublishSkill ==
  ASSUME DraftsInv, TypeInv', NEW th \in Workers, NEW s \in Slots, PublishSkill(th, s)
  PROVE  DraftsInv'
  <1>1. PICK q \in Requests : q = serving[th]
    BY Turned DEF DraftsInv
  <1>2. q.pc = "archive"
    BY <1>1 DEF PublishSkill, DraftAt
  <1>3. /\ Draft(th) = q.draft /\ q.draft \in Drafts /\ Takes(th, q.draft) /\ Exists(q.draft)
        /\ q \in PublishRequest /\ Publishing(q) /\ TypeInv
    BY <1>1, <1>2, Continuing, Kinds DEF Working
  <1>4. PICK git \in BOOLEAN : git = (q.dir # Nothing)
    BY Zenon
  <1> DEFINE d == q.draft
             pub == [git |-> git, edited |-> FALSE, draft |-> d, files |-> disk[d],
                     behind |-> behind[d]]
             r == [q EXCEPT !.pc = "drop", !.slot = s]
  <1>5. UNCHANGED <<meta, disk, created, homes, behind, stray, main, branch, base, pr, merges,
                    release>>
    BY DEF PublishSkill, local, history, github, target
  <1>6. s = q.slot /\ registry[s] = Nothing /\ registry' = [registry EXCEPT ![s] = pub]
    <2>1. disk[d] = q.files
      BY <1>3 DEF Publishing
    <2>2. (disk[d] # q.files) = FALSE
      BY <2>1
    <2>3. QED
      BY <1>1, <1>4, <2>1, <2>2 DEF PublishSkill
  <1>7. /\ registry'[s] = pub
        /\ \A x \in Slots \ {s} : registry'[x] = registry[x]
    BY <1>6 DEF TypeInv, DraftsTypeOK
  <1>8. pub \in Publication
    BY <1>3, Row DEF Publication
  <1>9. /\ pub.git = git /\ pub.draft = d /\ pub.files = disk[d] /\ pub.behind = behind[d]
        /\ pub # Nothing
    BY <1>8, NothingAssumption
  <1> HIDE DEF pub
  <1>10. Published(s)'
    <2> SUFFICES ASSUME git
                 PROVE  Published(s)'
      BY <1>7, <1>9 DEF Published
    <2>1. /\ merges[d] # 0 /\ release[s[2]] # Nothing /\ release[s[2]].skill = s[1]
          /\ Alone(d) /\ merges[d] = 1 => Agree(release[s[2]].files, d)
      BY <1>2, <1>3, <1>4, <1>6 DEF Publishing
    <2>2. Alone(d)' => Alone(d)
      BY <1>5 DEF Alone
    <2>3. QED
      BY <1>5, <1>7, <1>9, <2>1, <2>2 DEF Published, Agree
  <1>11. serving' = [serving EXCEPT ![th] = r]
    BY <1>1 DEF PublishSkill, Set
  <1>12. /\ r \in PublishRequest /\ r.draft = d /\ r.dir = q.dir /\ r.slot = s /\ r.pc = "drop"
         /\ r.files = q.files
    BY <1>3 DEF PublishRequest
  <1> HIDE DEF r
  <1>13. Publishing(r)'
    BY <1>3, <1>5, <1>7, <1>9, <1>12 DEF Publishing
  <1>14. Working(r)' /\ r \in Requests
    BY <1>3, <1>5, <1>12, <1>13, WorkPublishing DEF Exists
  <1>15. /\ \A x \in Slots : registry[x] # Nothing => registry'[x] = registry[x]
         /\ \A x \in Slots : registry'[x] = registry[x] \/ Published(x)'
    BY <1>6, <1>7, <1>10
  <1>16. QED
    BY <1>1, <1>2, <1>3, <1>5, <1>11, <1>12, <1>14, <1>15, QuietStep DEF Exists

LEMMA InvInit == DraftsInit => DraftsInv
  <1> SUFFICES ASSUME DraftsInit PROVE DraftsInv
    OBVIOUS
  <1>1. TypeInv
    BY TypeInit
  <1>2. OneByOne /\ \A th \in Workers : Working(serving[th])
    BY DEF DraftsInit, OneByOne, Busy, Working, NoRequest, ConnectRequest, SaveRequest,
           MoveRequest, PublishRequest
  <1>3. Vacant
    BY DEF DraftsInit, Vacant, Bare
  <1>4. ASSUME NEW d \in Drafts
        PROVE  HistoryOf(d) /\ Mirrored(d)
    <2>1. CASE d \in created
      <3>1. /\ meta[d] = [git |-> TRUE, error |-> FALSE, dir |-> Root] /\ homes[d] = {Root}
            /\ branch[d] = [Bare EXCEPT ![Root] = disk[d]] /\ base[d] = Bare /\ main = Bare
        BY <2>1 DEF DraftsInit
      <3>2. /\ \A dir \in Dirs \ {Root} : branch[d][dir] = Empty /\ Bare[dir] = Empty
            /\ branch[d][Root] = disk[d]
        BY <3>1 DEF Bare, Dirs
      <3>3. HistoryOf(d)
        BY <2>1, <3>1, <3>2 DEF HistoryOf
      <3>4. Mirrored(d)
        <4>1. \A dir \in Skills : dir \in Dirs \ {Root}
          BY DraftsAssumption DEF Dirs
        <4>2. QED
          BY <3>1, <3>2, <4>1 DEF Mirrored, Agree, Empty
      <3>5. QED
        BY <3>3, <3>4
    <2>2. CASE d \notin created
      BY <2>2 DEF DraftsInit, HistoryOf, Mirrored, Exists, Branched
    <2>3. QED
      BY <2>1, <2>2
  <1>5. \A s \in Slots : Published(s)
    BY DEF DraftsInit, Published
  <1>6. QED
    BY <1>1, <1>2, <1>3, <1>4, <1>5 DEF DraftsInv, MirrorOf

LEMMA InvNext ==
  ASSUME oneAtATime, DraftsInv, [DraftsNext]_draftVars
  PROVE  DraftsInv'
  <1>0. TypeInv'
    BY TypeNext DEF DraftsInv
  <1>1. ASSUME NEW th \in Workers, NEW d \in Drafts, Begin(th, d)
        PROVE  DraftsInv'
    BY <1>0, <1>1, InvCreateDraft, InvBeginSave, InvRemoves, InvBeginMove, InvBeginPublish
       DEF Begin
  <1>2. ASSUME NEW th \in Workers, Step(th)
        PROVE  DraftsInv'
    BY <1>0, <1>2, InvReadBase, InvBootstrapFile, InvRemoves, InvCreateBranch, InvSeedBranch,
       InvSetConnection, InvWriteFile, InvCommitChange, InvMoveFiles, InvCommitFails,
       InvSetSyncStatus, InvMoveFails, InvRelocate, InvOpenPr, InvMergePr, InvCreateRelease,
       InvPublishFails, InvPublishSkill
       DEF Step
  <1>3. ASSUME NEW d \in Drafts, NEW merge \in BOOLEAN, SettlePr(d, merge)
        PROVE  DraftsInv'
    BY <1>0, <1>3, InvSettlePr
  <1>4. CASE UNCHANGED draftVars
    <2>1. UNCHANGED <<meta, disk, created, homes, behind, stray, born, main, branch, base, pr,
                      merges, release, registry, serving, requests>>
      BY <1>4 DEF draftVars
    <2>2. OneByOne' /\ Vacant'
      BY <2>1 DEF DraftsInv, OneByOne, Busy, Draft, Vacant
    <2>3. \A d \in Drafts : HistoryOf(d)' /\ MirrorOf(d)'
      BY <2>1 DEF DraftsInv, HistoryOf, MirrorOf, Mirrored, Exists, Branched, Alone, Agree,
                  Doing, DraftAt, Draft
    <2>4. \A th \in Workers : Working(serving[th])'
      <3>1. ASSUME NEW q \in Requests PROVE Connecting(q) => Connecting(q)'
        BY <2>1 DEF Connecting, Branched, Alone, Rest
      <3>2. ASSUME NEW q \in Requests PROVE Saving(q) => Saving(q)'
        BY <2>1 DEF Saving
      <3>3. ASSUME NEW q \in Requests PROVE Moving(q) => Moving(q)'
        BY <2>1 DEF Moving, Agree
      <3>4. ASSUME NEW q \in Requests PROVE Publishing(q) => Publishing(q)'
        BY <2>1 DEF Publishing, Alone, Agree
      <3>5. ASSUME NEW q \in Requests PROVE Working(q) => Working(q)'
        BY <2>1, <3>1, <3>2, <3>3, <3>4 DEF Working, Exists
      <3>6. ASSUME NEW th \in Workers PROVE Working(serving[th])'
        <4>1. PICK q \in Requests : q = serving[th]
          BY Turned DEF DraftsInv
        <4>2. Working(q)'
          BY <3>5, <4>1 DEF DraftsInv
        <4>3. serving'[th] = q
          BY <2>1, <4>1
        <4>4. QED
          BY <4>2, <4>3
      <3>7. QED
        BY <3>6
    <2>5. \A s \in Slots : Published(s)'
      BY <2>1 DEF DraftsInv, Published, Alone
    <2>6. QED
      BY <1>0, <2>2, <2>3, <2>4, <2>5 DEF DraftsInv
  <1>5. QED
    BY <1>1, <1>2, <1>3, <1>4 DEF DraftsNext

-----------------------------------------------------------------------------
(***************************************************************************)
(* What is left when an owner does not wait for one request before the     *)
(* next: the draft of a request may change or go at any moment, but no     *)
(* request takes back what GitHub or the registry has, and only the one    *)
(* that creates a draft connects it.                                       *)
(***************************************************************************)

\* A request that is still creating its draft.
Founding(r) == r.pc \in {"base", "boot", "branch", "seed", "connect"}

\* Until it is done, the draft is not connected.
Founded(r) == Founding(r) /\ Exists(r.draft) => ~meta[r.draft].git

\* A publication that comes to the registry has the release that GitHub was asked
\* for, if it needs one; one that cleans up is in the registry.
Vouched(r) ==
  /\ r.pc = "archive" /\ r.dir # Nothing =>
       release[r.slot[2]] # Nothing /\ release[r.slot[2]].skill = r.slot[1]
  /\ r.pc = "drop" => registry[r.slot] # Nothing /\ registry[r.slot].draft = r.draft

\* No two requests create the same draft.
OneFounder ==
  \A th, o \in Workers :
    Founding(serving[th]) /\ Founding(serving[o]) /\ Draft(th) = Draft(o) => th = o

\* A publication of a connected draft has a release, of that very skill, unless
\* another request changed the draft meanwhile.
Backed(s) ==
  registry[s] # Nothing /\ registry[s].git /\ ~registry[s].edited =>
    release[s[2]] # Nothing /\ release[s[2]].skill = s[1]

\* The inductive invariant, for owners who wait and for those who do not.
SharedInv ==
  /\ TypeInv /\ OneFounder
  /\ \A th \in Workers : Founded(serving[th]) /\ Vouched(serving[th])
  /\ \A s \in Slots : Backed(s)

-----------------------------------------------------------------------------
\* Whatever was released or published stays.
Lasting ==
  /\ \A v \in Versions : release[v] # Nothing => release'[v] = release[v]
  /\ \A s \in Slots : registry[s] # Nothing => registry'[s] = registry[s]

\* What a thread may go on to: to create a draft it has to have begun, or the
\* draft is new.
MayFound(th, r) ==
  Founding(r) => \/ r.draft \notin created
                 \/ Founding(serving[th]) /\ r.draft = Draft(th)

\* Only the request that creates a draft connects it.
Connects(th) ==
  \A d \in Drafts : Exists(d)' /\ meta'[d].git =>
    \/ Exists(d) /\ meta[d].git
    \/ Founding(serving[th]) /\ Draft(th) = d

LEMMA StillVouched ==
  ASSUME NEW r \in Requests, Vouched(r), Lasting
  PROVE  Vouched(r)'
  <1>1. r.pc \in {"archive", "drop"} => r.slot \in Slots /\ r.slot[2] \in Versions
    <2>1. r.pc \in {"archive", "drop"} => r \in PublishRequest
      BY Kinds
    <2>2. QED
      BY <2>1 DEF PublishRequest, Slots
  <1>2. QED
    BY <1>1 DEF Vouched, Lasting

LEMMA SharedStep ==
  ASSUME SharedInv, TypeInv', NEW th \in Workers, NEW r \in Requests,
         serving' = [serving EXCEPT ![th] = r], Lasting, Connects(th), MayFound(th, r),
         Founded(r)', Vouched(r)', \A s \in Slots : registry[s] = Nothing => Backed(s)'
  PROVE  SharedInv'
  <1>1. \A o \in Workers : serving'[o] = (IF o = th THEN r ELSE serving[o])
    BY DEF SharedInv, TypeInv, DraftsTypeOK
  <1>2. ASSUME NEW o \in Workers \ {th}, Founding(serving[o])
        PROVE  ~(Founding(serving[th]) /\ Draft(th) = Draft(o)) /\ Draft(o) \in created
               /\ Draft(o) \in Drafts
    <2>1. PICK q \in Requests : q = serving[o] /\ Relies(q)
      BY Turned DEF SharedInv
    <2>2. q # NoRequest /\ q.draft \in created /\ q.draft \in Drafts
      BY <1>2, <2>1, Kinds DEF Founding, Relies, NoRequest
    <2>3. QED
      BY <1>2, <2>1, <2>2 DEF SharedInv, OneFounder, Draft
  <1>3. OneFounder'
    <2> SUFFICES ASSUME NEW x \in Workers, NEW y \in Workers, x # y,
                        Founding(serving'[x]), Founding(serving'[y]),
                        serving'[x].draft = serving'[y].draft
                 PROVE  FALSE
      BY DEF OneFounder, Draft, Founding
    <2>1. CASE x = th
      BY <1>1, <1>2, <2>1 DEF MayFound, Draft
    <2>2. CASE y = th
      BY <1>1, <1>2, <2>2 DEF MayFound, Draft
    <2>3. CASE x # th /\ y # th
      BY <1>1, <2>3 DEF SharedInv, OneFounder, Draft
    <2>4. QED
      BY <2>1, <2>2, <2>3
  <1>4. ASSUME NEW o \in Workers
        PROVE  Founded(serving[o])' /\ Vouched(serving[o])'
    <2>1. CASE o = th
      BY <1>1, <2>1 DEF Founded, Vouched, Founding, Exists
    <2>2. CASE o # th
      <3>1. PICK q \in Requests : q = serving[o]
        BY Turned DEF SharedInv
      <3>2. serving'[o] = q
        BY <1>1, <2>2, <3>1
      <3>3. Vouched(q)'
        BY <3>1, StillVouched DEF SharedInv
      <3>4. Founded(q)'
        BY <1>2, <2>2, <3>1 DEF SharedInv, Founded, Founding, Connects, Draft, Exists
      <3>5. QED
        BY <3>2, <3>3, <3>4 DEF Founded, Vouched, Founding, Exists
    <2>3. QED
      BY <2>1, <2>2
  <1>5. ASSUME NEW s \in Slots
        PROVE  Backed(s)'
    <2>1. s[2] \in Versions
      BY DEF Slots
    <2>2. QED
      BY <2>1 DEF SharedInv, Backed, Lasting
  <1>6. QED
    BY <1>3, <1>4, <1>5 DEF SharedInv

\* A step that neither releases nor publishes.
LEMMA SharedGo ==
  ASSUME SharedInv, TypeInv', NEW th \in Workers, NEW r \in Requests,
         serving' = [serving EXCEPT ![th] = r], UNCHANGED <<release, registry>>,
         Connects(th), MayFound(th, r), Founded(r)', Vouched(r)
  PROVE  SharedInv'
  <1>1. Lasting /\ Vouched(r)'
    BY DEF Lasting, Vouched
  <1>2. \A s \in Slots : registry[s] = Nothing => Backed(s)'
    BY DEF Backed
  <1>3. QED
    BY <1>1, <1>2, SharedStep

\* What it goes on to has nothing to vouch for.
LEMMA SharedPlain ==
  ASSUME SharedInv, TypeInv', NEW th \in Workers, NEW r \in Requests,
         serving' = [serving EXCEPT ![th] = r], UNCHANGED <<release, registry>>,
         Connects(th), ~Founding(r), r.pc \notin {"archive", "drop"}
  PROVE  SharedInv'
  BY SharedGo DEF MayFound, Founded, Vouched, Founding

LEMMA SharedEnd ==
  ASSUME SharedInv, TypeInv', NEW th \in Workers, EndRequest(th),
         UNCHANGED <<release, registry>>, Connects(th)
  PROVE  SharedInv'
  <1>1. NoRequest \in Requests /\ ~Founding(NoRequest) /\ NoRequest.pc \notin {"archive", "drop"}
    BY DEF NoRequest, Requests, Founding
  <1>2. QED
    BY <1>1, SharedPlain DEF EndRequest, Set

\* A request that goes on creating its draft.
LEMMA SharedFounding ==
  ASSUME SharedInv, TypeInv', NEW th \in Workers, NEW r \in Requests,
         serving' = [serving EXCEPT ![th] = r], UNCHANGED <<release, registry, meta>>,
         Founding(serving[th]), Founding(r), r.draft = Draft(th)
  PROVE  SharedInv'
  <1>1. PICK q \in Requests : q = serving[th] /\ Founded(q)
    BY Turned DEF SharedInv
  <1>2. Founded(r)'
    BY <1>1 DEF Founded, Founding, Exists, Draft
  <1>3. Connects(th)
    BY DEF Connects, Exists
  <1>4. QED
    BY <1>2, <1>3, SharedGo DEF MayFound, Vouched, Founding

LEMMA RemoveConnects ==
  ASSUME TypeInv, NEW th \in Workers, NEW d, Remove(d)
  PROVE  Connects(th)
  BY DEF Remove, TypeInv, DraftsTypeOK, Connects, Exists

LEMMA SharedBegin ==
  ASSUME SharedInv, TypeInv', NEW th \in Workers, NEW d \in Drafts, Begin(th, d)
  PROVE  SharedInv'
  <1>0. TypeInv /\ serving[th] = NoRequest
    BY DEF SharedInv, Begin, CreateDraft, BeginSave, DeleteDraft, BeginMove, BeginPublish, Accept
  <1>1. serving' = serving => EndRequest(th)
    BY <1>0 DEF EndRequest, Set, TypeInv, DraftsTypeOK
  <1>2. ASSUME NEW files \in Seeds, NEW dir \in Skills \union {Nothing},
               CreateDraft(th, d, files, dir)
        PROVE  SharedInv'
    <2> DEFINE r == [pc |-> "base", draft |-> d, dir |-> dir, seed |-> files,
                     todo |-> Present(files), from |-> Nothing]
               m == [git |-> FALSE, error |-> FALSE, dir |-> Nothing]
    <2>1. UNCHANGED <<release, registry>> /\ d \notin created
      BY <1>2 DEF CreateDraft, github
    <2>2. \A x \in Drafts : meta'[x] = (IF x = d THEN m ELSE meta[x])
      BY <1>0, <1>2 DEF CreateDraft, TypeInv, DraftsTypeOK
    <2>3. Connects(th)
      BY <2>2 DEF Connects, Exists
    <2>4. CASE dir = Nothing
      BY <1>1, <1>2, <2>1, <2>3, <2>4, SharedEnd DEF CreateDraft
    <2>5. CASE dir # Nothing
      <3>1. serving' = [serving EXCEPT ![th] = r]
        BY <1>2, <2>5 DEF CreateDraft, Set
      <3>2. serving'[th] = r
        BY <1>0, <3>1 DEF TypeInv, DraftsTypeOK
      <3>3. r \in Requests
        BY <3>2 DEF TypeInv, DraftsTypeOK
      <3>4. Founded(r)'
        BY <2>2 DEF Founded
      <3>5. QED
        BY <2>1, <2>3, <3>1, <3>3, <3>4, SharedGo DEF MayFound, Vouched
    <2>6. QED
      BY <2>4, <2>5
  <1>3. ASSUME NEW f \in Files, NEW c \in Contents \union {Nothing}, BeginSave(th, d, f, c)
        PROVE  SharedInv'
    <2> DEFINE r == [pc |-> "write", draft |-> d, dir |-> meta[d].dir, file |-> f, to |-> c]
    <2>1. serving' = [serving EXCEPT ![th] = r] /\ UNCHANGED <<meta, release, registry>>
      BY <1>3 DEF BeginSave, Set, local, github
    <2>2. r \in Requests
      <3>1. serving'[th] = r
        BY <1>0, <2>1 DEF TypeInv, DraftsTypeOK
      <3>2. QED
        BY <3>1 DEF TypeInv, DraftsTypeOK
    <2>3. ~Founding(r) /\ r.pc \notin {"archive", "drop"} /\ Connects(th)
      BY <2>1 DEF Founding, Connects, Exists
    <2> HIDE DEF r
    <2>4. QED
      BY <2>1, <2>2, <2>3, SharedPlain
  <1>4. CASE DeleteDraft(th, d)
    BY <1>0, <1>1, <1>4, RemoveConnects, SharedEnd DEF DeleteDraft, github
  <1>5. ASSUME NEW dir \in Skills, BeginMove(th, d, dir)
        PROVE  SharedInv'
    <2> DEFINE r == [pc |-> "move", draft |-> d, dir |-> dir, files |-> disk[d]]
    <2>1. serving' = [serving EXCEPT ![th] = r] /\ UNCHANGED <<meta, release, registry>>
      BY <1>5 DEF BeginMove, Set, github
    <2>2. r \in Requests
      <3>1. serving'[th] = r
        BY <1>0, <2>1 DEF TypeInv, DraftsTypeOK
      <3>2. QED
        BY <3>1 DEF TypeInv, DraftsTypeOK
    <2>3. ~Founding(r) /\ r.pc \notin {"archive", "drop"} /\ Connects(th)
      BY <2>1 DEF Founding, Connects, Exists
    <2> HIDE DEF r
    <2>4. QED
      BY <2>1, <2>2, <2>3, SharedPlain
  <1>6. ASSUME NEW slot \in Slots, BeginPublish(th, d, slot)
        PROVE  SharedInv'
    <2>0. PICK m \in Meta : m = meta[d]
      BY <1>0, <1>6, Row DEF BeginPublish
    <2> DEFINE r == [pc |-> IF m.git THEN "openPr" ELSE "archive", draft |-> d, dir |-> m.dir,
                     slot |-> slot, files |-> disk[d]]
    <2>1. serving' = [serving EXCEPT ![th] = r] /\ UNCHANGED <<meta, release, registry>>
      BY <1>6, <2>0 DEF BeginPublish, Set, local, github
    <2>2. r \in Requests
      <3>1. serving'[th] = r
        BY <1>0, <2>1 DEF TypeInv, DraftsTypeOK
      <3>2. QED
        BY <3>1 DEF TypeInv, DraftsTypeOK
    <2>3. m.git <=> m.dir # Nothing
      BY <1>0, <1>6, <2>0, Row DEF BeginPublish, Connected
    <2>4. ~Founding(r) /\ Vouched(r) /\ Connects(th)
      BY <2>1, <2>3 DEF Founding, Vouched, Connects, Exists
    <2> HIDE DEF r
    <2>5. QED
      BY <2>1, <2>2, <2>4, SharedGo DEF MayFound, Founded, Founding
  <1>7. QED
    BY <1>2, <1>3, <1>4, <1>5, <1>6 DEF Begin

\* Reading the base, the bootstrap, the branch and its seed.
LEMMA SharedFounds ==
  ASSUME SharedInv, TypeInv', NEW th \in Workers,
         ReadBase(th) \/ (\E f \in Files : BootstrapFile(th, f)) \/ CreateBranch(th)
           \/ SeedBranch(th)
  PROVE  SharedInv'
  <1>1. PICK q \in Requests : q = serving[th]
    BY Turned DEF SharedInv
  <1>2. q \in ConnectRequest /\ Founding(q)
    <2>1. q.pc \in {"base", "boot", "branch", "seed"}
      BY <1>1 DEF ReadBase, BootstrapFile, CreateBranch, SeedBranch, DraftAt
    <2>2. QED
      BY <2>1, Kinds DEF Founding
  <1>3. UNCHANGED <<meta, release, registry>>
    BY DEF ReadBase, BootstrapFile, CreateBranch, SeedBranch, local, github
  <1>4. \A o \in Workers : serving'[o] \in Requests
    BY DEF TypeInv, DraftsTypeOK
  <1>5. \E r : /\ serving' = [serving EXCEPT ![th] = r]
               /\ Founding(r) /\ r.draft = q.draft
    <2>0. ASSUME NEW label \in {"boot", "branch", "seed", "connect"}, Goto(th, label)
          PROVE  \E r : /\ serving' = [serving EXCEPT ![th] = r]
                        /\ Founding(r) /\ r.draft = q.draft
      <3> DEFINE r == [q EXCEPT !.pc = label]
      <3>1. serving' = [serving EXCEPT ![th] = r]
        BY <1>1, <2>0, GoesOn DEF SharedInv
      <3>2. Founding(r) /\ r.draft = q.draft
        BY <1>2 DEF Founding, ConnectRequest
      <3> HIDE DEF r
      <3>3. QED
        BY <3>1, <3>2
    <2>1. CASE ReadBase(th)
      <3> DEFINE r == [q EXCEPT !.pc = "branch", !.from = main]
      <3>1. Goto(th, "boot") \/ serving' = [serving EXCEPT ![th] = r]
        BY <1>1, <2>1 DEF ReadBase, Set
      <3>2. Founding(r) /\ r.draft = q.draft
        BY <1>2 DEF Founding, ConnectRequest
      <3> HIDE DEF r
      <3>3. QED
        BY <2>0, <3>1, <3>2
    <2>2. ASSUME NEW f \in Files, BootstrapFile(th, f)
          PROVE  \E r : /\ serving' = [serving EXCEPT ![th] = r]
                        /\ Founding(r) /\ r.draft = q.draft
      <3> DEFINE r == [q EXCEPT !.todo = @ \ {f},
                                !.from = IF q.todo = {f} THEN main' ELSE Nothing,
                                !.pc = IF q.todo = {f} THEN "branch" ELSE "boot"]
      <3>1. serving' = [serving EXCEPT ![th] = r]
        BY <1>1, <2>2 DEF BootstrapFile, Set
      <3>2. Founding(r) /\ r.draft = q.draft
        BY <1>2 DEF Founding, ConnectRequest
      <3> HIDE DEF r
      <3>3. QED
        BY <3>1, <3>2
    <2>3. CASE CreateBranch(th)
      BY <2>0, <2>3 DEF CreateBranch
    <2>4. CASE SeedBranch(th)
      BY <2>0, <2>4 DEF SeedBranch
    <2>5. QED
      BY <2>1, <2>2, <2>3, <2>4
  <1>6. PICK r : serving' = [serving EXCEPT ![th] = r] /\ Founding(r) /\ r.draft = q.draft
    BY <1>5
  <1>7. r \in Requests
    <2>1. serving'[th] = r
      BY <1>6 DEF SharedInv, TypeInv, DraftsTypeOK
    <2>2. QED
      BY <1>4, <2>1
  <1>8. QED
    BY <1>1, <1>2, <1>3, <1>6, <1>7, SharedFounding DEF Draft

LEMMA SharedSetConnection ==
  ASSUME SharedInv, TypeInv', NEW th \in Workers, SetConnection(th)
  PROVE  SharedInv'
  <1>1. Founding(serving[th])
    BY DEF SetConnection, DraftAt, Founding
  <1>2. Connects(th)
    BY <1>1 DEF SetConnection, SharedInv, TypeInv, DraftsTypeOK, Connects, Exists
  <1>3. QED
    BY <1>2, SharedEnd DEF SetConnection, github

\* Requests that end, and take their draft with them or leave it.
LEMMA SharedEnds ==
  ASSUME SharedInv, TypeInv', NEW th \in Workers,
         RollBack(th) \/ DropDraft(th) \/ MoveFails(th) \/ PublishFails(th)
  PROVE  SharedInv'
  <1>1. EndRequest(th) /\ UNCHANGED <<release, registry>>
    BY DEF RollBack, DropDraft, MoveFails, PublishFails, github
  <1>2. Connects(th)
    <2>1. CASE RollBack(th) \/ DropDraft(th)
      BY <2>1, RemoveConnects DEF RollBack, DropDraft, SharedInv
    <2>2. CASE MoveFails(th) \/ PublishFails(th)
      BY <2>2 DEF MoveFails, PublishFails, local, Connects, Exists
    <2>3. QED
      BY <2>1, <2>2
  <1>3. QED
    BY <1>1, <1>2, SharedEnd

\* Steps of saves, moves and of a publication on its way to the release.
LEMMA SharedGoesOn ==
  ASSUME SharedInv, TypeInv', NEW th \in Workers, UNCHANGED <<release, registry>>,
         Connects(th), serving[th] # NoRequest,
         \/ EndRequest(th)
         \/ \E label \in {"commit", "landed", "failed", "relocate", "merge", "release"} :
              Goto(th, label)
  PROVE  SharedInv'
  <1>1. ASSUME NEW label \in {"commit", "landed", "failed", "relocate", "merge", "release"},
               Goto(th, label)
        PROVE  SharedInv'
    <2> DEFINE r == [serving[th] EXCEPT !.pc = label]
    <2>1. serving' = [serving EXCEPT ![th] = r]
      BY <1>1, GoesOn DEF SharedInv
    <2>2. r \in Requests
      <3>1. serving'[th] = r
        BY <2>1 DEF SharedInv, TypeInv, DraftsTypeOK
      <3>2. QED
        BY <3>1 DEF TypeInv, DraftsTypeOK
    <2>3. r.pc = label
      <3>1. PICK q \in Requests : q = serving[th]
        BY Turned DEF SharedInv
      <3>2. QED
        BY <1>1, <3>1 DEF Requests, ConnectRequest, SaveRequest, MoveRequest, PublishRequest
    <2> HIDE DEF r
    <2>4. QED
      BY <2>1, <2>2, <2>3, SharedPlain DEF Founding
  <1>2. QED
    BY <1>1, SharedEnd

LEMMA SharedSaves ==
  ASSUME SharedInv, TypeInv', NEW th \in Workers,
         \/ \E sync \in BOOLEAN : WriteFile(th, sync)
         \/ \E answered \in BOOLEAN : CommitChange(th, answered) \/ MoveFiles(th, answered)
         \/ CommitFails(th) \/ OpenPr(th) \/ MergePr(th)
  PROVE  SharedInv'
  <1>1. UNCHANGED <<meta, release, registry>>
    BY DEF WriteFile, CommitChange, MoveFiles, CommitFails, OpenPr, MergePr, local, github
  <1>2. serving[th] # NoRequest
    BY DEF WriteFile, CommitChange, MoveFiles, CommitFails, OpenPr, MergePr, DraftAt, NoRequest
  <1>3. \/ EndRequest(th)
        \/ \E label \in {"commit", "landed", "failed", "relocate", "merge", "release"} :
             Goto(th, label)
    BY DEF WriteFile, CommitChange, MoveFiles, CommitFails, OpenPr, MergePr
  <1>4. Connects(th)
    BY <1>1 DEF Connects, Exists
  <1>5. QED
    BY <1>1, <1>2, <1>3, <1>4, SharedGoesOn

\* The outcome of a commit and the directory a draft was moved to.
LEMMA SharedRecords ==
  ASSUME SharedInv, TypeInv', NEW th \in Workers, SetSyncStatus(th) \/ Relocate(th)
  PROVE  SharedInv'
  <1>1. serving[th] # NoRequest
    BY DEF SetSyncStatus, Relocate, DraftAt, NoRequest
  <1>2. PICK d \in Drafts : d = Draft(th)
    BY <1>1, Turned DEF SharedInv
  <1>3. Exists(d) => meta[d] \in Meta
    BY Row DEF SharedInv
  <1>4. /\ \A x \in Drafts \ {d} : meta'[x] = meta[x]
        /\ Exists(d)' => Exists(d) /\ meta'[d].git = meta[d].git
    <2>1. CASE SetSyncStatus(th) /\ Exists(d)
      <3>1. meta' = [meta EXCEPT ![d] = [meta[d] EXCEPT !.error = DraftAt(th, "failed")]]
        BY <1>2, <2>1 DEF SetSyncStatus, SharedInv, TypeInv, DraftsTypeOK
      <3>2. [meta[d] EXCEPT !.error = DraftAt(th, "failed")].git = meta[d].git
        BY <1>3, <2>1 DEF Meta
      <3>3. QED
        BY <2>1, <3>1, <3>2 DEF SharedInv, TypeInv, DraftsTypeOK
    <2>2. CASE Relocate(th) /\ Exists(d)
      <3>1. meta' = [meta EXCEPT ![d] = [meta[d] EXCEPT !.dir = serving[th].dir]]
        BY <1>2, <2>2 DEF Relocate, SharedInv, TypeInv, DraftsTypeOK
      <3>2. [meta[d] EXCEPT !.dir = serving[th].dir].git = meta[d].git
        BY <1>3, <2>2 DEF Meta
      <3>3. QED
        BY <2>2, <3>1, <3>2 DEF SharedInv, TypeInv, DraftsTypeOK
    <2>3. CASE ~Exists(d)
      BY <1>2, <2>3 DEF SetSyncStatus, Relocate, Exists
    <2>4. QED
      BY <2>1, <2>2, <2>3
  <1>5. Connects(th)
    <2> SUFFICES ASSUME NEW x \in Drafts, Exists(x)', meta'[x].git
                 PROVE  Exists(x) /\ meta[x].git
      BY DEF Connects
    <2>1. CASE x = d
      BY <1>4, <2>1
    <2>2. CASE x # d
      BY <1>4, <2>2 DEF Exists
    <2>3. QED
      BY <2>1, <2>2
  <1>6. EndRequest(th) \/ Goto(th, "landed")
    BY DEF SetSyncStatus, Relocate
  <1>7. UNCHANGED <<release, registry>>
    BY DEF SetSyncStatus, Relocate, github
  <1>8. QED
    BY <1>1, <1>5, <1>6, <1>7, SharedGoesOn

\* The release comes before the registry.
LEMMA SharedCreateRelease ==
  ASSUME SharedInv, TypeInv', NEW th \in Workers, CreateRelease(th)
  PROVE  SharedInv'
  <1>1. PICK q \in Requests : q = serving[th]
    BY Turned DEF SharedInv
  <1>2. q \in PublishRequest /\ q.slot \in Slots /\ q.slot[2] \in Versions
    <2>1. q.pc = "release"
      BY <1>1 DEF CreateRelease, DraftAt
    <2>2. q \in PublishRequest
      BY <2>1, Kinds
    <2>3. QED
      BY <2>2 DEF PublishRequest, Slots
  <1> DEFINE r == [q EXCEPT !.pc = "archive"]
             v == q.slot[2]
             snap == [skill |-> q.slot[1], files |-> main[q.dir]]
  <1>3. /\ serving' = [serving EXCEPT ![th] = r]
        /\ r \in PublishRequest /\ r.pc = "archive" /\ r.slot = q.slot
    BY <1>1, <1>2, GoesOn, Relabel DEF CreateRelease, SharedInv
  <1>4. r \in Requests
    BY <1>3 DEF Requests
  <1>5. release[v] = Nothing /\ release' = [release EXCEPT ![v] = snap]
    BY <1>1 DEF CreateRelease
  <1>6. release \in [Versions -> Snapshot \union {Nothing}]
    BY DEF SharedInv, TypeInv, DraftsTypeOK
  <1>7. release'[v] = snap /\ snap.skill = q.slot[1]
    BY <1>2, <1>5, <1>6
  <1>8. release'[v] # Nothing
    <2>1. q.slot[1] \in Skills /\ q.dir \in Dirs
      BY <1>1, <1>2, Turned DEF CreateRelease, DraftAt, SharedInv, Relies, PublishRequest, Slots
    <2>2. main[q.dir] \in Tree
      BY <2>1, TreesAndCommits DEF SharedInv, TypeInv, DraftsTypeOK
    <2>3. snap \in Snapshot
      BY <2>1, <2>2 DEF Snapshot
    <2>4. QED
      BY <1>7, <2>3, NothingAssumption
  <1>9. UNCHANGED <<meta, registry>>
    BY DEF CreateRelease, local
  <1>10. Lasting
    BY <1>5, <1>6, <1>9 DEF Lasting
  <1>11. Connects(th) /\ MayFound(th, r) /\ Founded(r)'
    BY <1>3, <1>9 DEF Connects, MayFound, Founded, Founding, Exists
  <1>12. Vouched(r)'
    BY <1>3, <1>7, <1>8 DEF Vouched
  <1>13. \A s \in Slots : registry[s] = Nothing => Backed(s)'
    BY <1>9 DEF Backed
  <1> HIDE DEF r
  <1>14. QED
    BY <1>3, <1>4, <1>10, <1>11, <1>12, <1>13, SharedStep

LEMMA SharedPublishSkill ==
  ASSUME SharedInv, TypeInv', NEW th \in Workers, NEW slot \in Slots, PublishSkill(th, slot)
  PROVE  SharedInv'
  <1>1. PICK q \in Requests : q = serving[th] /\ Vouched(q)
    BY Turned DEF SharedInv
  <1>2. q.pc = "archive" /\ q \in PublishRequest /\ q.draft \in Drafts
    <2>1. q.pc = "archive"
      BY <1>1 DEF PublishSkill, DraftAt
    <2>2. q \in PublishRequest
      BY <2>1, Kinds
    <2>3. QED
      BY <2>1, <2>2 DEF PublishRequest
  <1>3. PICK git \in BOOLEAN, edited \in BOOLEAN :
          git = (q.dir # Nothing) /\ edited = (disk[q.draft] # q.files)
    BY Zenon
  <1> DEFINE r == [q EXCEPT !.pc = "drop", !.slot = slot]
             pub == [git |-> git, edited |-> edited, draft |-> q.draft,
                     files |-> disk[q.draft], behind |-> behind[q.draft]]
  <1>4. serving' = [serving EXCEPT ![th] = r]
    BY <1>1 DEF PublishSkill, Set
  <1>5. r \in PublishRequest /\ r.pc = "drop" /\ r.slot = slot /\ r.draft = q.draft
    BY <1>2 DEF PublishRequest
  <1>6. /\ registry[slot] = Nothing /\ registry' = [registry EXCEPT ![slot] = pub]
        /\ ~edited => slot = q.slot
    BY <1>1, <1>3 DEF PublishSkill
  <1>7. pub \in Publication
    BY <1>2, Row DEF Publication, SharedInv
  <1>8. pub # Nothing /\ pub.git = git /\ pub.edited = edited /\ pub.draft = q.draft
    BY <1>7, NothingAssumption
  <1> HIDE DEF r, pub
  <1>9. \A s \in Slots : registry'[s] = (IF s = slot THEN pub ELSE registry[s])
    BY <1>6 DEF SharedInv, TypeInv, DraftsTypeOK
  <1>10. UNCHANGED <<meta, release>>
    BY DEF PublishSkill, local, github
  <1>11. Lasting
    BY <1>6, <1>9, <1>10 DEF Lasting
  <1>12. Connects(th) /\ MayFound(th, r) /\ Founded(r)'
    BY <1>5, <1>10 DEF Connects, MayFound, Founded, Founding, Exists
  <1>13. Vouched(r)'
    BY <1>5, <1>8, <1>9 DEF Vouched
  <1>14. ASSUME NEW s \in Slots, registry[s] = Nothing
         PROVE  Backed(s)'
    <2>1. CASE s = slot
      BY <1>1, <1>2, <1>3, <1>6, <1>8, <1>9, <1>10, <2>1 DEF Backed, Vouched
    <2>2. CASE s # slot
      BY <1>9, <1>14, <2>2 DEF Backed
    <2>3. QED
      BY <2>1, <2>2
  <1>15. r \in Requests
    BY <1>5 DEF Requests
  <1>16. QED
    BY <1>4, <1>11, <1>12, <1>13, <1>14, <1>15, SharedStep

LEMMA SharedInit == DraftsInit => SharedInv
  <1> SUFFICES ASSUME DraftsInit PROVE SharedInv
    OBVIOUS
  <1>1. \A th \in Workers : serving[th] = NoRequest
    BY DEF DraftsInit
  <1>2. \A s \in Slots : registry[s] = Nothing
    BY DEF DraftsInit
  <1>3. QED
    BY <1>1, <1>2, TypeInit
       DEF SharedInv, OneFounder, Founded, Vouched, Backed, Founding, NoRequest

LEMMA SharedNext == SharedInv /\ [DraftsNext]_draftVars => SharedInv'
  <1> SUFFICES ASSUME SharedInv, [DraftsNext]_draftVars PROVE SharedInv'
    OBVIOUS
  <1>1. TypeInv'
    BY TypeNext DEF SharedInv
  <1>2. ASSUME NEW th \in Workers, NEW d \in Drafts, Begin(th, d)
        PROVE  SharedInv'
    BY <1>1, <1>2, SharedBegin
  <1>3. ASSUME NEW th \in Workers, Step(th)
        PROVE  SharedInv'
    BY <1>1, <1>3, SharedFounds, SharedSetConnection, SharedEnds, SharedSaves, SharedRecords,
       SharedCreateRelease, SharedPublishSkill DEF Step
  <1>4. CASE \/ \E d \in Drafts, merge \in BOOLEAN : SettlePr(d, merge)
             \/ UNCHANGED draftVars
    <2>1. UNCHANGED <<meta, release, registry, serving>>
      BY <1>4 DEF SettlePr, draftVars, local
    <2>2. QED
      BY <1>1, <2>1
         DEF SharedInv, OneFounder, Founded, Vouched, Backed, Founding, Exists, Draft
  <1>5. QED
    BY <1>2, <1>3, <1>4 DEF DraftsNext

-----------------------------------------------------------------------------
LEMMA MirrorsNow == (oneAtATime => DraftsInv) => BranchMirrorsDraft
  <1> SUFFICES ASSUME DraftsInv, NEW d \in Drafts, Exists(d), meta[d].git, ~Served(d), Alone(d)
               PROVE  \A f \in Files \ behind[d] : branch[d][meta[d].dir][f] = disk[d][f]
    BY DEF BranchMirrorsDraft
  <1>1. ~Doing(d, "relocate")
    BY DEF Doing, DraftAt, Served, Draft, NoRequest
  <1>2. Mirrored(d)
    BY <1>1 DEF DraftsInv, MirrorOf
  <1>3. QED
    BY <1>2 DEF Mirrored, Agree

LEMMA ReleasesNow == SharedInv /\ (oneAtATime => DraftsInv) => ReleaseMatchesPublication
  BY DEF SharedInv, Backed, DraftsInv, Published, ReleaseMatchesPublication

\* What a step that takes a draft away may be.
Lets(d) ==
  \/ requests' = requests + 1
  \/ \E th \in Workers :
       /\ serving[th] # NoRequest /\ Draft(th) = d
       /\ \/ serving[th] \in ConnectRequest /\ ~meta[d].git
          \/ /\ DraftAt(th, "drop")
             /\ registry[serving[th].slot] # Nothing
             /\ registry[serving[th].slot].draft = d
             /\ oneAtATime => registry[serving[th].slot].files = disk[d]

\* A step that writes the metadata of one draft, and no Nothing, keeps every draft.
LEMMA WritingKeeps ==
  ASSUME TypeInv, NEW x \in Drafts, NEW m \in Meta, meta' = [meta EXCEPT ![x] = m],
         NEW d \in Drafts, Exists(d)
  PROVE  meta'[d] # Nothing
  BY NotMeta DEF TypeInv, DraftsTypeOK, Exists

\* A rolled back draft was never connected.
LEMMA RollBackLets ==
  ASSUME SharedInv, NEW th \in Workers, RollBack(th), NEW d \in Drafts,
         Exists(d), meta'[d] = Nothing
  PROVE  Lets(d)
  <1>1. PICK q \in Requests : q = serving[th] /\ Founded(q)
    BY Turned DEF SharedInv
  <1>2. q.pc \in {"base", "boot", "branch", "seed"}
    BY <1>1 DEF RollBack
  <1>3. q \in ConnectRequest /\ q # NoRequest /\ q.draft \in Drafts /\ Founding(q)
    BY <1>2, Kinds DEF Founding, NoRequest
  <1>4. meta' = [meta EXCEPT ![q.draft] = Nothing]
    BY <1>1 DEF RollBack, Remove, Draft
  <1>5. d = q.draft
    BY <1>3, <1>4 DEF SharedInv, TypeInv, DraftsTypeOK, Exists
  <1>6. QED
    BY <1>1, <1>3, <1>5 DEF Lets, Founded, Draft

\* A draft that is cleaned up was published; as it is, if its owner waited.
LEMMA DropLets ==
  ASSUME SharedInv, oneAtATime => DraftsInv, NEW th \in Workers, DropDraft(th),
         NEW d \in Drafts, Exists(d), meta'[d] = Nothing
  PROVE  Lets(d)
  <1>1. PICK q \in Requests : q = serving[th] /\ Vouched(q)
    BY Turned DEF SharedInv
  <1>2. q.pc = "drop"
    BY <1>1 DEF DropDraft, DraftAt
  <1>3. q # NoRequest /\ q.draft \in Drafts /\ q \in PublishRequest
    BY <1>2, Kinds DEF NoRequest
  <1>4. meta' = [meta EXCEPT ![q.draft] = Nothing]
    BY <1>1 DEF DropDraft, Remove, Draft
  <1>5. d = q.draft
    BY <1>3, <1>4 DEF SharedInv, TypeInv, DraftsTypeOK, Exists
  <1>6. registry[q.slot] # Nothing /\ registry[q.slot].draft = d
    BY <1>1, <1>2, <1>5 DEF Vouched
  <1>7. ASSUME oneAtATime
        PROVE  registry[q.slot].files = disk[d]
    <2>1. DraftsInv
      BY <1>7
    <2>2. Working(q)
      BY <1>1, <2>1 DEF DraftsInv
    <2>3. QED
      BY <1>2, <1>3, <1>5, <2>2 DEF Working, Publishing
  <1>8. QED
    BY <1>1, <1>2, <1>3, <1>5, <1>6, <1>7 DEF Lets, DraftAt, Draft

\* The other steps of a thread take no draft away.
LEMMA StepsKeep ==
  ASSUME TypeInv, NEW th \in Workers, Step(th), NEW d \in Drafts, Exists(d)
  PROVE  meta'[d] # Nothing \/ RollBack(th) \/ DropDraft(th)
  <1>0. PICK q \in Requests : q = serving[th]
    BY Turned
  <1>1. TypeInv
    OBVIOUS
  <1>2. CASE SetConnection(th)
    <2>1. q \in ConnectRequest /\ q.draft \in Drafts
      BY <1>0, <1>2, Kinds DEF SetConnection, DraftAt, NoRequest
    <2> DEFINE m == [git |-> TRUE, error |-> FALSE, dir |-> q.dir]
    <2>2. m \in Meta
      BY <2>1 DEF Meta, ConnectRequest, Dirs
    <2>3. meta' = meta \/ meta' = [meta EXCEPT ![q.draft] = m]
      BY <1>0, <1>2 DEF SetConnection, Draft
    <2> HIDE DEF m
    <2>4. QED
      BY <1>1, <2>1, <2>2, <2>3, WritingKeeps DEF Exists
  <1>3. CASE SetSyncStatus(th)
    <2>1. q.draft \in Drafts
      BY <1>0, <1>3, Kinds DEF SetSyncStatus, NoRequest
    <2>2. PICK error \in BOOLEAN : error = DraftAt(th, "failed")
      BY Zenon DEF DraftAt
    <2> DEFINE m == [meta[q.draft] EXCEPT !.error = error]
    <2>3. CASE Exists(q.draft)
      <3>1. meta[q.draft] \in Meta
        BY <1>1, <2>1, <2>3, Row
      <3>2. m \in Meta
        BY <3>1 DEF Meta
      <3>3. meta' = [meta EXCEPT ![q.draft] = m]
        BY <1>0, <1>1, <1>3, <2>1, <2>2, <2>3
           DEF SetSyncStatus, Draft, TypeInv, DraftsTypeOK
      <3> HIDE DEF m
      <3>4. QED
        BY <1>1, <2>1, <3>2, <3>3, WritingKeeps
    <2>4. CASE ~Exists(q.draft)
      BY <1>0, <1>3, <2>4 DEF SetSyncStatus, Draft, Exists
    <2>5. QED
      BY <2>3, <2>4
  <1>4. CASE Relocate(th)
    <2>1. q \in MoveRequest /\ q.draft \in Drafts
      BY <1>0, <1>4, Kinds DEF Relocate, DraftAt, NoRequest
    <2> DEFINE m == [meta[q.draft] EXCEPT !.dir = q.dir]
    <2>2. CASE Exists(q.draft)
      <3>1. meta[q.draft] \in Meta /\ q.dir \in Dirs
        BY <1>1, <2>1, <2>2, Row DEF MoveRequest, Dirs
      <3>2. m \in Meta
        BY <3>1 DEF Meta
      <3>3. meta' = [meta EXCEPT ![q.draft] = m]
        BY <1>0, <1>1, <1>4, <2>1, <2>2 DEF Relocate, Draft, TypeInv, DraftsTypeOK
      <3> HIDE DEF m
      <3>4. QED
        BY <1>1, <2>1, <3>2, <3>3, WritingKeeps
    <2>3. CASE ~Exists(q.draft)
      BY <1>0, <1>4, <2>3 DEF Relocate, Draft, Exists
    <2>4. QED
      BY <2>2, <2>3
  <1>5. CASE UNCHANGED meta
    BY <1>5 DEF Exists
  <1>6. QED
    BY <1>2, <1>3, <1>4, <1>5
       DEF Step, local, ReadBase, BootstrapFile, CreateBranch, SeedBranch, WriteFile,
           CommitChange, MoveFiles, CommitFails, MoveFails, OpenPr, MergePr, CreateRelease,
           PublishFails, PublishSkill

LEMMA KeptNext ==
  ASSUME SharedInv, oneAtATime => DraftsInv, [DraftsNext]_draftVars,
         NEW d \in Drafts, Exists(d), meta'[d] = Nothing
  PROVE  Lets(d)
  <1>1. ASSUME NEW th \in Workers, NEW x \in Drafts, Begin(th, x)
        PROVE  Lets(d)
    BY <1>1 DEF Begin, CreateDraft, BeginSave, DeleteDraft, BeginMove, BeginPublish, Accept, Lets
  <1>2. ASSUME NEW th \in Workers, Step(th)
        PROVE  Lets(d)
    BY <1>2, StepsKeep, RollBackLets, DropLets DEF SharedInv
  <1>3. ASSUME NEW x \in Drafts, NEW merge \in BOOLEAN, SettlePr(x, merge)
        PROVE  FALSE
    BY <1>3 DEF SettlePr, local, Exists
  <1>4. CASE UNCHANGED draftVars
    BY <1>4 DEF draftVars, Exists
  <1>5. QED
    BY <1>1, <1>2, <1>3, <1>4 DEF DraftsNext

-----------------------------------------------------------------------------
\* When an owner waits for one request before the next, every request can rely
\* on its draft, its branch and what it has read of them (DraftsInv).
THEOREM DraftsInvariant == DraftsSpec => [](oneAtATime => DraftsInv)
  <1>1. DraftsInit => (oneAtATime => DraftsInv)
    BY InvInit
  <1>2. (oneAtATime => DraftsInv) /\ [DraftsNext]_draftVars => (oneAtATime => DraftsInv)'
    <2>1. [DraftsNext]_draftVars => oneAtATime' = oneAtATime
      BY DEF DraftsNext, draftVars
    <2>2. QED
      BY <2>1, InvNext
  <1>3. QED
    BY <1>1, <1>2, PTL DEF DraftsSpec

\* The working branch of a connected draft at rest has what the draft has
\* (BranchMirrorsDraft), whatever failed or went unanswered on the way.
THEOREM MirrorsHold == DraftsSpec => []BranchMirrorsDraft
  BY DraftsInvariant, MirrorsNow, PTL

\* However many requests of one draft are under way at a time, none takes back what
\* another has released or published, and what is published as GitHub was told of
\* it has its release (SharedInv).
THEOREM SharedInvariant == DraftsSpec => []SharedInv
  BY SharedInit, SharedNext, PTL DEF DraftsSpec

\* A publication of a connected draft that nobody changed while GitHub was being
\* told has its release, of that very skill; and when its owner waits for each
\* answer every publication has, with what was published (ReleaseMatchesPublication).
THEOREM ReleasesMatch == DraftsSpec => []ReleaseMatchesPublication
  BY SharedInvariant, DraftsInvariant, ReleasesNow, PTL

\* A draft goes only when it is discarded, when its creation is rolled back, or
\* when the registry has a publication of it -- with what it holds, when its owner
\* waits for each answer (DraftsAreKept).
THEOREM DraftsKept == DraftsSpec => DraftsAreKept
  <1>1. SharedInv /\ (oneAtATime => DraftsInv) /\ [DraftsNext]_draftVars =>
          [\A d \in Drafts : Exists(d) /\ meta'[d] = Nothing => Lets(d)]_draftVars
    BY KeptNext
  <1>2. DraftsAreKept <=> [][\A d \in Drafts : Exists(d) /\ meta'[d] = Nothing => Lets(d)]_draftVars
    BY DEF DraftsAreKept, Lets
  <1>3. QED
    BY <1>1, <1>2, SharedInvariant, DraftsInvariant, PTL DEF DraftsSpec

-----------------------------------------------------------------------------
USE LinkAssumptions, NoLinkAssumption

(* What a release has established by the time it reads the link again, and *)
(* when it is granted.                                                     *)
GrantOf(t) ==
  /\ At(t, "get") => req[t].op = "ci" /\ req[t].tag /\ NameLinked(t)
  /\ At(t, "granted") =>
       /\ req[t].op \in {"ci", "pat"} /\ req[t].tag /\ NameLinked(t)
       /\ \E l \in Link :
            Answered(t, l) /\ (req[t].op = "pat" => l.repo = req[t].link.repo)

(* What a writer has read: no link of anybody, or the tenant's own, whose  *)
(* repository and creator it writes back.                                  *)
BaseOf(t) ==
  At(t, "write") =>
    /\ req[t].op \in {"create", "update"}
    /\ req[t].op = "create" => \A n \in Tenants : basis[t][n] = NoLink
    /\ req[t].op = "update" =>
         /\ basis[t][req[t].tenant] # NoLink
         /\ basis[t][req[t].tenant].repo = req[t].link.repo
         /\ basis[t][req[t].tenant].by = req[t].link.by

Grants == \A t \in Threads : GrantOf(t)
Bases == \A t \in Threads : BaseOf(t)

(* No two tenants have linked the id, unless a stale write has happened.   *)
Single == ~stale => \A m, n \in Tenants : link[m] # NoLink /\ link[n] # NoLink => m = n

(* The inductive invariant: each property needs what the requests under    *)
(* way carry from their reads.                                             *)
IInv ==
  /\ TypeOK
  /\ Grants
  /\ Bases
  /\ Single

-----------------------------------------------------------------------------
(* The request record of an idle thread is a request.                      *)
LEMMA IdleIsARequest == Idle \in Request /\ Idle.at = "idle" /\ SomeTenant \in Tenants /\ SomeLink \in Link
<1>1. SomeTenant \in Tenants
  BY DEF SomeTenant
<1>2. \E l \in Link : TRUE
  <2>1. PICK r \in Repos, u \in Users : TRUE
    OBVIOUS
  <2>2. [repo |-> r, by |-> u, branches |-> {}] \in Link
    BY DEF Link
  <2> QED
    BY <2>2
<1>3. SomeLink \in Link
  BY <1>2 DEF SomeLink
<1> QED
  BY <1>1, <1>3 DEF Idle, Asked, Request

(* The module starts in the invariant: nothing is linked or asked for.     *)
LEMMA InitIInv == Init => IInv
<1> SUFFICES ASSUME Init PROVE IInv
  OBVIOUS
<1>1. TypeOK
  <2>1. link \in Links
    BY DEF Init, Links
  <2>4. served \in 0 .. MaxRequests
    <3>1. served = 0
      BY DEF Init
    <3> QED
      BY <3>1, SMT
  <2>5. stale \in BOOLEAN
    BY DEF Init
  <2>2. /\ req \in [Threads -> Request] /\ during \in [Threads -> SUBSET (Tenants \X Link)]
        /\ alike \in SUBSET (Tenants \X Names)
        /\ around \in [Threads -> SUBSET (Tenants \X Names)]
    BY IdleIsARequest DEF Init
  <2>3. basis \in [Threads -> Links]
    BY <2>1, SMT DEF Init
  <2> QED
    BY <2>1, <2>2, <2>3, <2>4, <2>5 DEF TypeOK
<1>2. Grants /\ Bases
  BY IdleIsARequest DEF Init, Grants, Bases, GrantOf, BaseOf, At
<1>3. Single
  BY DEF Init, Single
<1> QED
  BY <1>1, <1>2, <1>3 DEF IInv

(* Replacing one thread's request changes no other's.                      *)
LEMMA SetFacts ==
  ASSUME TypeOK, NEW t \in Threads, NEW r \in Request, req' = [req EXCEPT ![t] = r]
  PROVE  /\ req' \in [Threads -> Request]
         /\ req'[t] = r
         /\ \A u \in Threads \ {t} : req'[u] = req[u]
  BY DEF TypeOK

(* A request that goes on to another stage keeps everything else.          *)
LEMMA GoFacts ==
  ASSUME TypeOK, NEW t \in Threads, Go(t, "write")
  PROVE  /\ req' \in [Threads -> Request]
         /\ req'[t].at = "write"
         /\ req'[t].op = req[t].op
         /\ \A u \in Threads \ {t} : req'[u] = req[u]
<1>2. req[t] \in Request
  BY DEF TypeOK
<1>1. [req[t] EXCEPT !.at = "write"] \in Request
  <2>1. \A r \in Request : [r EXCEPT !.at = "write"] \in Request
    BY SMT DEF Request
  <2> QED
    BY <1>2, <2>1
<1>3. /\ [req[t] EXCEPT !.at = "write"].at = "write"
      /\ [req[t] EXCEPT !.at = "write"].op = req[t].op
  BY <1>2, SMT DEF Request
<1>4. req' = [req EXCEPT ![t] = [req[t] EXCEPT !.at = "write"]]
  BY SMT DEF Go, TypeOK
<1> QED
  BY <1>1, <1>3, <1>4, SetFacts

(* The fields of a resumed request.                                        *)
LEMMA ResumeFacts ==
  ASSUME TypeOK, NEW t \in Threads, NEW n \in Tenants, NEW l \in Link,
         NEW stage \in {"write", "get", "granted"}, Resume(t, stage, n, l)
  PROVE  /\ req' \in [Threads -> Request]
         /\ req'[t] = Asked(req[t].op, stage, n, l, req[t].branch, req[t].tag)
         /\ \A u \in Threads \ {t} : req'[u] = req[u]
<1>1. Asked(req[t].op, stage, n, l, req[t].branch, req[t].tag) \in Request
  BY SMT DEF TypeOK, Request, Asked
<1> QED
  BY <1>1, SetFacts DEF Resume

-----------------------------------------------------------------------------
(* The links in force are links of tenants.                                *)
LEMMA InForceFacts ==
  ASSUME link \in Links
  PROVE  /\ InForce \in SUBSET (Tenants \X Link)
         /\ \A n \in Tenants : link[n] # NoLink => link[n] \in Link /\ <<n, link[n]>> \in InForce
  BY DEF Links, InForce, Linked

(* What a step notes in the history variables.                             *)
LEMMA HistoryFacts ==
  ASSUME TypeOK, NoteHistory, link' \in Links, alike' \in SUBSET (Tenants \X Names)
  PROVE  /\ during' \in [Threads -> SUBSET (Tenants \X Link)]
         /\ around' \in [Threads -> SUBSET (Tenants \X Names)]
         /\ basis' \in [Threads -> Links]
         /\ stale' \in BOOLEAN
         /\ \A u \in Threads : req'[u].op \in {"ci", "pat"} =>
              /\ during[u] \subseteq during'[u] /\ InForce \subseteq during'[u]
              /\ around[u] \subseteq around'[u] /\ alike \subseteq around'[u]
         /\ \A u \in Threads : req'[u].at = "write" =>
              basis'[u] = IF At(u, "write") THEN basis[u] ELSE link
         /\ ~stale' => /\ ~stale
                       /\ \A u \in Threads :
                            At(u, "write") /\ req'[u].at # "write" => basis[u] = link
<1>1. link \in Links
  BY DEF TypeOK
<1>2. InForce \in SUBSET (Tenants \X Link) /\ InForce' \in SUBSET (Tenants \X Link)
  <2>1. InForce \in SUBSET (Tenants \X Link)
    BY <1>1, InForceFacts
  <2>2. InForce' \in SUBSET (Tenants \X Link)
    BY DEF Links, InForce, Linked
  <2> QED
    BY <2>1, <2>2
<1>3. \A u \in Threads : during[u] \in SUBSET (Tenants \X Link) /\ basis[u] \in Links
  BY DEF TypeOK
<1>4. during' \in [Threads -> SUBSET (Tenants \X Link)]
  BY <1>2, <1>3 DEF NoteHistory
<1>a. \A u \in Threads : around[u] \in SUBSET (Tenants \X Names)
  BY DEF TypeOK
<1>b. alike \in SUBSET (Tenants \X Names)
  BY DEF TypeOK
<1>c. around' \in [Threads -> SUBSET (Tenants \X Names)]
  BY <1>a, <1>b DEF NoteHistory
<1>5. [n \in Tenants |-> NoLink] \in Links
  BY DEF Links
<1>6. basis' \in [Threads -> Links]
  BY <1>1, <1>3, <1>5 DEF NoteHistory
<1>7. stale' \in BOOLEAN
  BY DEF NoteHistory
<1>8. ASSUME NEW u \in Threads, req'[u].op \in {"ci", "pat"}
      PROVE  /\ during[u] \subseteq during'[u] /\ InForce \subseteq during'[u]
             /\ around[u] \subseteq around'[u] /\ alike \subseteq around'[u]
  BY <1>8 DEF NoteHistory, Releasing
<1>9. ASSUME NEW u \in Threads, req'[u].at = "write"
      PROVE  basis'[u] = IF At(u, "write") THEN basis[u] ELSE link
  BY <1>9 DEF NoteHistory, At
<1>10. ~stale' => /\ ~stale
                  /\ \A u \in Threads :
                       At(u, "write") /\ req'[u].at # "write" => basis[u] = link
  BY DEF NoteHistory, At
<1> QED
  BY <1>4, <1>c, <1>6, <1>7, <1>8, <1>9, <1>10

-----------------------------------------------------------------------------
(* A thread whose request a step leaves alone keeps what it has            *)
(* established: more links are seen, and its reads stay what they were.    *)
LEMMA OthersKeep ==
  ASSUME IInv, NoteHistory, link' \in Links, alike' \in SUBSET (Tenants \X Names),
         NEW u \in Threads, req'[u] = req[u]
  PROVE  GrantOf(u)' /\ BaseOf(u)'
<1>1. GrantOf(u) /\ BaseOf(u) /\ TypeOK
  BY DEF IInv, Grants, Bases
<1>2. req[u].op \in {"ci", "pat"} => during[u] \subseteq during'[u] /\ around[u] \subseteq around'[u]
  BY <1>1, HistoryFacts
<1>3. At(u, "write") => basis'[u] = basis[u]
  BY <1>1, HistoryFacts DEF At
<1>4. ASSUME req[u].op \in {"ci", "pat"}
      PROVE  /\ NameLinked(u) => NameLinked(u)'
             /\ \A l \in Link : Answered(u, l) => Answered(u, l)'
  BY <1>2, <1>4 DEF NameLinked, Answered
<1>5. GrantOf(u)'
  <2>1. CASE At(u, "get")
    BY <1>1, <1>4, <2>1 DEF GrantOf, At
  <2>2. CASE At(u, "granted")
    BY <1>1, <1>4, <2>2 DEF GrantOf, At
  <2>3. CASE ~At(u, "get") /\ ~At(u, "granted")
    BY <2>3 DEF GrantOf, At
  <2> QED
    BY <2>1, <2>2, <2>3
<1>6. BaseOf(u)'
  BY <1>1, <1>3 DEF BaseOf, At
<1> QED
  BY <1>5, <1>6

(* A step that leaves the links alone makes no second claim.               *)
LEMMA SameLinksSingle ==
  ASSUME IInv, NoteHistory, link' = link
  PROVE  Single'
<1>1. TypeOK /\ Single
  BY DEF IInv
<1>2. ~stale' => ~stale
  BY DEF NoteHistory
<1> QED
  BY <1>1, <1>2 DEF Single

(* What is to be shown of a step by thread t.                              *)
LEMMA StepIInv ==
  ASSUME IInv, NoteHistory, NEW t \in Threads,
         req' \in [Threads -> Request],
         \A u \in Threads \ {t} : req'[u] = req[u],
         link' \in Links, alike' \in SUBSET (Tenants \X Names), served' \in 0 .. MaxRequests,
         GrantOf(t)', BaseOf(t)', Single'
  PROVE  IInv'
<1>1. TypeOK'
  BY HistoryFacts DEF IInv, TypeOK
<1>2. \A u \in Threads : GrantOf(u)' /\ BaseOf(u)'
  BY OthersKeep
<1> QED
  BY <1>1, <1>2 DEF IInv, Grants, Bases

(* A request that arrives, or that is over, has established nothing yet.   *)
LEMMA QuietIInv ==
  ASSUME IInv, NoteHistory, NEW t \in Threads, NEW r \in Request,
         r.at \in {"idle", "read"}, req' = [req EXCEPT ![t] = r],
         link' \in Links, alike' \in SUBSET (Tenants \X Names), served' \in 0 .. MaxRequests, Single'
  PROVE  IInv'
<1>1. /\ req' \in [Threads -> Request]
      /\ req'[t] = r
      /\ \A u \in Threads \ {t} : req'[u] = req[u]
  BY SetFacts DEF IInv
<1>2. GrantOf(t)' /\ BaseOf(t)'
  BY <1>1 DEF GrantOf, BaseOf, At
<1> QED
  BY <1>1, <1>2, StepIInv

LEMMA FinishIInv ==
  ASSUME IInv, NoteHistory, NEW t \in Threads, Finish(t),
         link' \in Links, alike' \in SUBSET (Tenants \X Names), served' = served, Single'
  PROVE  IInv'
<1>1. Idle \in Request /\ Idle.at \in {"idle", "read"}
  BY IdleIsARequest
<1>2. served' \in 0 .. MaxRequests
  BY DEF IInv, TypeOK
<1> QED
  BY <1>1, <1>2, QuietIInv DEF Finish

-----------------------------------------------------------------------------
(* A new request leaves the invariant alone.                               *)
LEMMA ArriveIInv ==
  ASSUME IInv, NoteHistory, NEW t \in Threads, NEW r \in Request,
         r.at = "read", Free(t), Arrive(t, r)
  PROVE  IInv'
<1>1. served' \in 0 .. MaxRequests
  <2>1. served \in 0 .. MaxRequests /\ served < MaxRequests /\ served' = served + 1
    BY DEF IInv, TypeOK, Arrive, Free
  <2> QED
    BY <2>1, SMT
<1>2. link' \in Links /\ Single' /\ alike' \in SUBSET (Tenants \X Names)
  BY SameLinksSingle DEF IInv, TypeOK, Arrive
<1> QED
  BY <1>1, <1>2, QuietIInv DEF Arrive

LEMMA AskIInv ==
  ASSUME IInv, NoteHistory, NEW t \in Threads,
         AskCreate(t) \/ AskUpdate(t) \/ AskRelease(t)
  PROVE  IInv'
<1> Free(t)
  BY DEF AskCreate, AskUpdate, AskRelease
<1>1. CASE AskCreate(t)
  <2>1. PICK n \in Tenants, l \in Link :
          Arrive(t, Asked("create", "read", n, l, NoBranch, TRUE))
    BY <1>1 DEF AskCreate
  <2>2. /\ Asked("create", "read", n, l, NoBranch, TRUE) \in Request
        /\ Asked("create", "read", n, l, NoBranch, TRUE).at = "read"
    BY DEF Asked, Request
  <2> QED
    BY <2>1, <2>2, ArriveIInv
<1>2. CASE AskUpdate(t)
  <2>1. PICK n \in Tenants, bs \in SUBSET Branches :
          Arrive(t, Asked("update", "read", n,
                          [SomeLink EXCEPT !.branches = bs], NoBranch, TRUE))
    BY <1>2 DEF AskUpdate
  <2>2. [SomeLink EXCEPT !.branches = bs] \in Link
    BY IdleIsARequest, SMT DEF Link
  <2>3. \A l \in Link :
          /\ Asked("update", "read", n, l, NoBranch, TRUE) \in Request
          /\ Asked("update", "read", n, l, NoBranch, TRUE).at = "read"
    BY DEF Asked, Request
  <2> QED
    BY <2>1, <2>2, <2>3, ArriveIInv
<1>3. CASE AskRelease(t)
  <2>1. PICK op \in {"ci", "pat"}, n \in Tenants, r \in Repos, tag \in BOOLEAN,
             b \in Branches \union {NoBranch} :
          Arrive(t, Asked(op, "read", n, [SomeLink EXCEPT !.repo = r], b, tag))
    BY <1>3 DEF AskRelease
  <2>2. [SomeLink EXCEPT !.repo = r] \in Link
    BY IdleIsARequest, SMT DEF Link
  <2>3. \A l \in Link :
          /\ Asked(op, "read", n, l, b, tag) \in Request
          /\ Asked(op, "read", n, l, b, tag).at = "read"
    BY DEF Asked, Request
  <2> QED
    BY <2>1, <2>2, <2>3, ArriveIInv
<1> QED
  BY <1>1, <1>2, <1>3

-----------------------------------------------------------------------------
(* A creator that goes on has read that nobody has linked the id.          *)
LEMMA ReadForCreateIInv ==
  ASSUME IInv, NoteHistory, NEW t \in Threads, ReadForCreate(t)
  PROVE  IInv'
<1>1. link' = link /\ alike' = alike /\ served' = served /\ TypeOK
  BY DEF ReadForCreate, IInv
<1>2. /\ link' \in Links /\ Single' /\ served' \in 0 .. MaxRequests
      /\ alike' \in SUBSET (Tenants \X Names)
  BY <1>1, SameLinksSingle DEF TypeOK
<1>3. CASE Finish(t)
  BY <1>1, <1>2, <1>3, FinishIInv
<1>4. CASE ~Claimed(req[t].tenant) /\ Go(t, "write")
  <2>1. /\ req' \in [Threads -> Request]
        /\ req'[t].at = "write"
        /\ req'[t].op = "create"
        /\ \A u \in Threads \ {t} : req'[u] = req[u]
    BY <1>1, <1>4, GoFacts DEF ReadForCreate
  <2>2. basis'[t] = link
    BY <1>1, <1>2, <2>1, HistoryFacts DEF At, ReadForCreate
  <2>3. \A n \in Tenants : link[n] = NoLink
    BY <1>4 DEF Claimed, Linked
  <2>4. GrantOf(t)' /\ BaseOf(t)'
    BY <2>1, <2>2, <2>3 DEF GrantOf, BaseOf, At
  <2> QED
    BY <1>2, <2>1, <2>4, StepIInv
<1> QED
  BY <1>3, <1>4 DEF ReadForCreate

(* An update that goes on carries the repository and the creator it read.  *)
LEMMA ReadForUpdateIInv ==
  ASSUME IInv, NoteHistory, NEW t \in Threads, ReadForUpdate(t)
  PROVE  IInv'
<1>1. link' = link /\ alike' = alike /\ served' = served /\ TypeOK
  BY DEF ReadForUpdate, IInv
<1>2. /\ link' \in Links /\ Single' /\ served' \in 0 .. MaxRequests
      /\ alike' \in SUBSET (Tenants \X Names)
  BY <1>1, SameLinksSingle DEF TypeOK
<1>3. CASE Finish(t)
  BY <1>1, <1>2, <1>3, FinishIInv
<1>4. CASE ~Finish(t)
  <2> DEFINE n == req[t].tenant
             l == [repo |-> link[n].repo, by |-> link[n].by,
                   branches |-> req[t].link.branches]
  <2>1. /\ link[n] # NoLink
        /\ Resume(t, "write", n, l)
        /\ At(t, "read") /\ req[t].op = "update"
    BY <1>4 DEF ReadForUpdate
  <2>2. n \in Tenants /\ req[t].link \in Link
    BY <1>1 DEF TypeOK, Request
  <2>3. link[n] \in Link
    BY <1>1, <2>1, <2>2, InForceFacts DEF TypeOK
  <2>4. l \in Link /\ l.repo = link[n].repo /\ l.by = link[n].by
    BY <2>2, <2>3 DEF Link
  <2> HIDE DEF l
  <2>5. /\ req' \in [Threads -> Request]
        /\ req'[t] = Asked(req[t].op, "write", n, l, req[t].branch, req[t].tag)
        /\ \A u \in Threads \ {t} : req'[u] = req[u]
    BY <1>1, <2>1, <2>2, <2>4, ResumeFacts
  <2>6. /\ req'[t].at = "write" /\ req'[t].op = "update"
        /\ req'[t].tenant = n /\ req'[t].link = l
    BY <2>1, <2>5 DEF Asked
  <2>7. basis'[t] = link
    BY <1>1, <1>2, <2>1, <2>6, HistoryFacts DEF At
  <2>8. GrantOf(t)' /\ BaseOf(t)'
    BY <2>1, <2>4, <2>6, <2>7 DEF GrantOf, BaseOf, At
  <2> QED
    BY <1>2, <2>5, <2>8, StepIInv
<1> QED
  BY <1>3, <1>4

-----------------------------------------------------------------------------
(* Writing rests on what was read, unless the step is noted as stale.      *)
LEMMA WriteBasis ==
  ASSUME IInv, NoteHistory, NEW t \in Threads, Write(t), ~stale'
  PROVE  basis[t] = link /\ ~stale
<1>1. TypeOK /\ Idle \in Request /\ Idle.at = "idle"
  BY IdleIsARequest DEF IInv
<1>2. req'[t].at # "write"
  BY <1>1, SetFacts DEF Write, Finish
<1>3. link' \in Links /\ alike' \in SUBSET (Tenants \X Names)
  BY DEF TypeOK, IInv, Write, Links, Request
<1> QED
  BY <1>1, <1>2, <1>3, HistoryFacts DEF Write

LEMMA WriteIInv ==
  ASSUME IInv, NoteHistory, NEW t \in Threads, Write(t)
  PROVE  IInv'
<1>1. TypeOK /\ Single /\ BaseOf(t) /\ served' = served /\ Finish(t)
  BY DEF IInv, Bases, Write
<1>2. req[t].tenant \in Tenants /\ req[t].link \in Link
  BY <1>1 DEF TypeOK, Request
<1>3. link' = [link EXCEPT ![req[t].tenant] = req[t].link]
  BY DEF Write
<1>4. link' \in Links /\ alike' \in SUBSET (Tenants \X Names)
  BY <1>1, <1>2, <1>3 DEF TypeOK, Links, Write
<1>5. Single'
  <2> SUFFICES ASSUME ~stale', NEW m \in Tenants, NEW n \in Tenants,
                      link'[m] # NoLink, link'[n] # NoLink
               PROVE  m = n
    BY DEF Single
  <2>1. basis[t] = link /\ ~stale
    BY WriteBasis
  <2>2. At(t, "write") /\ req[t].op \in {"create", "update"}
    BY <1>1 DEF Write, BaseOf
  <2>3. \A i \in Tenants : link'[i] # NoLink => i = req[t].tenant \/ link[i] # NoLink
    BY <1>1, <1>2, <1>3 DEF TypeOK, Links
  <2>4. CASE req[t].op = "create"
    <3>1. \A i \in Tenants : link[i] = NoLink
      BY <1>1, <2>1, <2>2, <2>4 DEF BaseOf
    <3> QED
      BY <2>3, <3>1
  <2>5. CASE req[t].op = "update"
    <3>1. link[req[t].tenant] # NoLink
      BY <1>1, <2>1, <2>2, <2>5 DEF BaseOf
    <3> QED
      BY <1>1, <1>2, <2>1, <2>3, <3>1 DEF Single
  <2> QED
    BY <2>2, <2>4, <2>5
<1> QED
  BY <1>1, <1>4, <1>5, FinishIInv

(* Deleting a link only makes fewer, and links of other ids make none.     *)
LEMMA TenantIInv ==
  ASSUME IInv, NoteHistory, NEW n \in Tenants, Delete(n) \/ ChangeAlike(n)
  PROVE  IInv'
<1>1. TypeOK /\ Single
  BY DEF IInv
<1>2. /\ link' = [link EXCEPT ![n] = NoLink] \/ link' = link
      /\ req' = req
  BY DEF Delete, ChangeAlike
<1>3. link' \in Links
  BY <1>1, <1>2 DEF TypeOK, Links
<1>a. alike' \in SUBSET (Tenants \X Names)
  <2>1. alike \in SUBSET (Tenants \X Names)
    BY <1>1 DEF TypeOK
  <2>2. CASE Delete(n)
    BY <2>1, <2>2 DEF Delete
  <2>3. CASE ChangeAlike(n)
    <3>1. PICK a \in Names :
            alike' = alike \union {<<n, a>>} \/ alike' = alike \ {<<n, a>>}
      BY <2>3 DEF ChangeAlike
    <3>2. <<n, a>> \in Tenants \X Names
      OBVIOUS
    <3> QED
      BY <2>1, <3>1, <3>2
  <2> QED
    BY <2>2, <2>3
<1>4. served' \in 0 .. MaxRequests
  <2>1. served \in 0 .. MaxRequests /\ served < MaxRequests /\ served' = served + 1
    BY <1>1 DEF TypeOK, Delete, ChangeAlike
  <2> QED
    BY <2>1, SMT
<1>5. ~stale' => ~stale
  BY DEF NoteHistory
<1>6. \A i \in Tenants : link'[i] # NoLink => link[i] # NoLink
  BY <1>1, <1>2 DEF TypeOK, Links
<1>7. Single'
  BY <1>1, <1>5, <1>6 DEF Single
<1>8. \A u \in Threads : GrantOf(u)' /\ BaseOf(u)'
  BY <1>2, <1>3, <1>a, OthersKeep
<1>9. TypeOK'
  BY <1>1, <1>2, <1>3, <1>a, <1>4, HistoryFacts DEF TypeOK
<1> QED
  BY <1>7, <1>8, <1>9 DEF IInv, Grants, Bases

-----------------------------------------------------------------------------
(* The two reads of a CI release: the first shows a link of the workflow's *)
(* repository, the second one that allows its branch.                      *)
LEMMA FindLinkIInv ==
  ASSUME IInv, NoteHistory, NEW t \in Threads, FindLink(t)
  PROVE  IInv'
<1>1. link' = link /\ alike' = alike /\ served' = served /\ TypeOK
  BY DEF FindLink, IInv
<1>2. /\ link' \in Links /\ Single' /\ served' \in 0 .. MaxRequests
      /\ alike' \in SUBSET (Tenants \X Names)
  BY <1>1, SameLinksSingle DEF TypeOK
<1>3. CASE Finish(t)
  BY <1>1, <1>2, <1>3, FinishIInv
<1>4. ASSUME NEW f \in Found, req[t].tag, SameName(f[2], t),
             Resume(t, "get", f[1], req[t].link)
      PROVE  IInv'
  <2>1. /\ f[1] \in Tenants /\ req[t].link \in Link
        /\ \/ <<f[1], f[2]>> \in alike
           \/ link[f[1]] # NoLink /\ f[2] = NameOf[link[f[1]].repo]
    BY <1>1 DEF Found, Linked, TypeOK, Request
  <2>2. /\ req' \in [Threads -> Request]
        /\ req'[t] = Asked(req[t].op, "get", f[1], req[t].link, req[t].branch, req[t].tag)
        /\ \A u \in Threads \ {t} : req'[u] = req[u]
    BY <1>1, <1>4, <2>1, ResumeFacts
  <2>3. /\ req'[t].at = "get" /\ req'[t].op = "ci" /\ req'[t].tenant = f[1]
        /\ req'[t].link = req[t].link /\ req'[t].tag
    BY <1>4, <2>2 DEF Asked, FindLink
  <2>4. alike \subseteq around'[t] /\ InForce \subseteq during'[t]
    BY <1>1, <1>2, <2>3, HistoryFacts
  <2>5. f[2] = NameOf[req'[t].link.repo]
    BY <1>4, <2>3 DEF SameName
  <2>6. NameLinked(t)'
    <3>1. CASE <<f[1], f[2]>> \in alike
      BY <2>3, <2>4, <2>5, <3>1 DEF NameLinked
    <3>2. CASE link[f[1]] # NoLink /\ f[2] = NameOf[link[f[1]].repo]
      <4>1. link[f[1]] \in Link /\ <<f[1], link[f[1]]>> \in InForce
        BY <1>1, <2>1, <3>2, InForceFacts DEF TypeOK
      <4> QED
        BY <2>3, <2>4, <2>5, <3>2, <4>1 DEF NameLinked
    <3> QED
      BY <2>1, <3>1, <3>2
  <2>7. GrantOf(t)' /\ BaseOf(t)'
    BY <2>3, <2>6 DEF GrantOf, BaseOf, At
  <2> QED
    BY <1>2, <2>2, <2>7, StepIInv
<1> QED
  BY <1>3, <1>4 DEF FindLink

(* What a granted release carries, from the link n it was last shown.      *)
LEMMA GrantedFields ==
  ASSUME IInv, NEW t \in Threads, NEW n \in Tenants, link[n] # NoLink,
         Resume(t, "granted", n, [req[t].link EXCEPT !.by = link[n].by])
  PROVE  /\ req' \in [Threads -> Request]
         /\ \A u \in Threads \ {t} : req'[u] = req[u]
         /\ req'[t].at = "granted" /\ req'[t].op = req[t].op
         /\ req'[t].tenant = n /\ req'[t].tag = req[t].tag
         /\ req'[t].branch = req[t].branch
         /\ req'[t].link.repo = req[t].link.repo
         /\ req'[t].link.by = link[n].by
         /\ link[n] \in Link /\ <<n, link[n]>> \in InForce
<1>1. TypeOK
  BY DEF IInv
<1>2. link[n] \in Link /\ <<n, link[n]>> \in InForce
  BY <1>1, InForceFacts DEF TypeOK
<1>3. req[t].link \in Link
  BY <1>1 DEF TypeOK, Request
<1> DEFINE l == [req[t].link EXCEPT !.by = link[n].by]
<1>4. l \in Link /\ l.repo = req[t].link.repo /\ l.by = link[n].by
  BY <1>2, <1>3, SMT DEF Link
<1>5. Resume(t, "granted", n, l)
  OBVIOUS
<1> HIDE DEF l
<1>6. /\ req' \in [Threads -> Request]
      /\ req'[t] = Asked(req[t].op, "granted", n, l, req[t].branch, req[t].tag)
      /\ \A u \in Threads \ {t} : req'[u] = req[u]
  BY <1>1, <1>4, <1>5, ResumeFacts
<1> QED
  BY <1>2, <1>4, <1>6 DEF Asked

LEMMA GetLinkIInv ==
  ASSUME IInv, NoteHistory, NEW t \in Threads, GetLink(t)
  PROVE  IInv'
<1>1. link' = link /\ alike' = alike /\ served' = served /\ TypeOK /\ GrantOf(t)
  BY DEF GetLink, IInv, Grants
<1>2. /\ link' \in Links /\ Single' /\ served' \in 0 .. MaxRequests
      /\ alike' \in SUBSET (Tenants \X Names)
  BY <1>1, SameLinksSingle DEF TypeOK
<1>3. CASE Finish(t)
  BY <1>1, <1>2, <1>3, FinishIInv
<1>4. CASE ~Finish(t)
  <2> DEFINE n == req[t].tenant
  <2>1. /\ link[n] # NoLink /\ BranchAllowed(link[n], req[t].branch)
        /\ Resume(t, "granted", n, [req[t].link EXCEPT !.by = link[n].by])
    BY <1>4 DEF GetLink
  <2>2. n \in Tenants
    BY <1>1 DEF TypeOK, Request
  <2>3. /\ req' \in [Threads -> Request]
        /\ \A u \in Threads \ {t} : req'[u] = req[u]
        /\ req'[t].at = "granted" /\ req'[t].op = req[t].op
        /\ req'[t].tenant = n /\ req'[t].tag = req[t].tag
        /\ req'[t].branch = req[t].branch
        /\ req'[t].link.repo = req[t].link.repo
        /\ req'[t].link.by = link[n].by
        /\ link[n] \in Link /\ <<n, link[n]>> \in InForce
    BY <2>1, <2>2, GrantedFields
  <2>4. req[t].op = "ci" /\ req[t].tag /\ NameLinked(t)
    BY <1>1 DEF GetLink, GrantOf
  <2>5. /\ during[t] \subseteq during'[t] /\ InForce \subseteq during'[t]
        /\ around[t] \subseteq around'[t]
    BY <1>1, <1>2, <2>3, <2>4, HistoryFacts
  <2>a. PICK l \in Link : l = link[n]
    BY <2>3
  <2>6. Answered(t, l)'
    BY <2>1, <2>3, <2>5, <2>a DEF BranchAllowed, Answered
  <2>7. GrantOf(t)'
    <3>1. NameLinked(t)'
      BY <2>3, <2>4, <2>5 DEF NameLinked
    <3> QED
      BY <2>3, <2>4, <2>6, <3>1 DEF GrantOf, At
  <2>8. BaseOf(t)'
    BY <2>3 DEF BaseOf, At
  <2> QED
    BY <1>2, <2>3, <2>7, <2>8, StepIInv
<1> QED
  BY <1>3, <1>4

(* With a bearer token one link does for everything.                       *)
LEMMA MatchLinkIInv ==
  ASSUME IInv, NoteHistory, NEW t \in Threads, MatchLink(t)
  PROVE  IInv'
<1>1. link' = link /\ alike' = alike /\ served' = served /\ TypeOK
  BY DEF MatchLink, IInv
<1>2. /\ link' \in Links /\ Single' /\ served' \in 0 .. MaxRequests
      /\ alike' \in SUBSET (Tenants \X Names)
  BY <1>1, SameLinksSingle DEF TypeOK
<1>3. CASE Finish(t)
  BY <1>1, <1>2, <1>3, FinishIInv
<1>4. CASE ~Finish(t)
  <2> DEFINE n == req[t].tenant
  <2>1. /\ link[n] # NoLink /\ BranchAllowed(link[n], req[t].branch)
        /\ Resume(t, "granted", n, [req[t].link EXCEPT !.by = link[n].by])
        /\ req[t].op = "pat" /\ req[t].tag /\ link[n].repo = req[t].link.repo
    BY <1>4 DEF MatchLink
  <2>2. n \in Tenants
    BY <1>1 DEF TypeOK, Request
  <2>3. /\ req' \in [Threads -> Request]
        /\ \A u \in Threads \ {t} : req'[u] = req[u]
        /\ req'[t].at = "granted" /\ req'[t].op = req[t].op
        /\ req'[t].tenant = n /\ req'[t].tag = req[t].tag
        /\ req'[t].branch = req[t].branch
        /\ req'[t].link.repo = req[t].link.repo
        /\ req'[t].link.by = link[n].by
        /\ link[n] \in Link /\ <<n, link[n]>> \in InForce
    BY <2>1, <2>2, GrantedFields
  <2>4. <<n, link[n]>> \in during'[t]
    BY <1>1, <1>2, <2>1, <2>3, HistoryFacts
  <2>a. PICK l \in Link : l = link[n]
    BY <2>3
  <2>b. Answered(t, l)' /\ l.repo = req'[t].link.repo
    BY <2>1, <2>3, <2>4, <2>a DEF BranchAllowed, Answered
  <2>c. NameLinked(t)'
    BY <2>3, <2>4, <2>a, <2>b DEF NameLinked
  <2>5. GrantOf(t)'
    BY <2>1, <2>3, <2>b, <2>c DEF GrantOf, At
  <2>6. BaseOf(t)'
    BY <2>3 DEF BaseOf, At
  <2> QED
    BY <1>2, <2>3, <2>5, <2>6, StepIInv
<1> QED
  BY <1>3, <1>4

LEMMA ReleasedIInv ==
  ASSUME IInv, NoteHistory, NEW t \in Threads, Released(t)
  PROVE  IInv'
<1>1. link' \in Links /\ Single' /\ alike' \in SUBSET (Tenants \X Names)
  BY SameLinksSingle DEF Released, IInv, TypeOK
<1> QED
  BY <1>1, FinishIInv DEF Released

-----------------------------------------------------------------------------
LEMMA NextIInv == IInv /\ [Next]_vars => IInv'
<1> SUFFICES ASSUME IInv, [Next]_vars PROVE IInv'
  OBVIOUS
<1>1. CASE UNCHANGED vars
  <2>1. TypeOK'
    BY <1>1 DEF vars, IInv, TypeOK, Links
  <2>2. Grants'
    BY <1>1 DEF vars, IInv, Grants, GrantOf, NameLinked, Answered, At
  <2>3. Bases'
    BY <1>1 DEF vars, IInv, Bases, BaseOf, At
  <2>4. Single'
    BY <1>1 DEF vars, IInv, Single
  <2> QED
    BY <2>1, <2>2, <2>3, <2>4 DEF IInv
<1>2. ASSUME NoteHistory, NEW t \in Threads, HandlerStep(t)
      PROVE  IInv'
  BY <1>2, AskIInv, ReadForCreateIInv, ReadForUpdateIInv, WriteIInv,
     FindLinkIInv, GetLinkIInv, MatchLinkIInv, ReleasedIInv DEF HandlerStep
<1>3. ASSUME NoteHistory, NEW n \in Tenants, Delete(n) \/ ChangeAlike(n)
      PROVE  IInv'
  BY <1>3, TenantIInv
<1> QED
  BY <1>1, <1>2, <1>3 DEF Next

LEMMA InvariantHolds == Spec => []IInv
<1> QED
  BY InitIInv, NextIInv, PTL DEF Spec

(* The variables keep their types: what is linked is a link of a tenant,   *)
(* and the requests under way are requests.                                *)
THEOREM TypeCorrect == Spec => []TypeOK
<1>1. IInv => TypeOK
  BY DEF IInv
<1> QED
  BY <1>1, InvariantHolds, PTL

(* However the handlers of releases, links and their removal interleave, a *)
(* release is authorised only by links of the tenant that were there       *)
(* meanwhile: one of this id that allows the branch and whose creator will *)
(* own the skill, which for a bearer token is of the very URL stated; and  *)
(* one of a repository of the release's owner/name, which find_any took    *)
(* for this id's.                                                          *)
THEOREM ReleasesWereLinked == Spec => []ReleaseWasLinked
<1>1. IInv => ReleaseWasLinked
  BY DEF IInv, Grants, GrantOf, ReleaseWasLinked
<1> QED
  BY <1>1, InvariantHolds, PTL

(* Two tenants hold the skill id at once only after a write that rests on  *)
(* a read gone stale; without one find_any can come upon one link only.    *)
THEOREM ClaimsAreUnique == Spec => []OneClaimUnlessStale
<1>1. IInv => OneClaimUnlessStale
  <2> SUFFICES ASSUME IInv, ~stale PROVE Cardinality(Linked) <= 1
    BY DEF OneClaimUnlessStale
  <2>1. \A m, n \in Linked : m = n
    BY DEF IInv, Single, Linked
  <2>2. CASE Linked = {}
    <3>1. Cardinality(Linked) = 0
      BY <2>2, FS_EmptySet
    <3> QED
      BY <3>1, SMT
  <2>3. CASE Linked # {}
    <3>1. PICK n \in Linked : TRUE
      BY <2>3
    <3>2. Linked = {n}
      BY <2>1, <3>1
    <3>3. Cardinality({n}) = 1
      BY FS_Singleton
    <3> QED
      BY <3>2, <3>3, SMT
  <2> QED
    BY <2>2, <2>3
<1> QED
  BY <1>1, InvariantHolds, PTL

(* Only deleting a link ends what its admin registered: an update writes   *)
(* back the repository and the creator, unless its read had gone stale.    *)
THEOREM ClaimsKept == Spec => ClaimsAreKept
<1> DEFINE Kept == \A n \in Linked : link'[n] # NoLink =>
              stale' \/ (link'[n].repo = link[n].repo /\ link'[n].by = link[n].by)
<1>1. ASSUME IInv, [Next]_vars PROVE [Kept]_vars
  <2>1. CASE link' = link
    BY <2>1
  <2>2. ASSUME NoteHistory, NEW t \in Threads, Write(t) PROVE Kept
    <3> SUFFICES ASSUME NEW n \in Linked, link'[n] # NoLink, ~stale'
                 PROVE  link'[n].repo = link[n].repo /\ link'[n].by = link[n].by
      OBVIOUS
    <3>1. basis[t] = link
      BY <1>1, <2>2, WriteBasis
    <3>2. n \in Tenants /\ link[n] # NoLink
      BY DEF Linked
    <3>3. TypeOK /\ BaseOf(t) /\ At(t, "write")
      BY <1>1, <2>2 DEF IInv, Bases, Write
    <3>4. link' = [link EXCEPT ![req[t].tenant] = req[t].link]
      BY <2>2 DEF Write
    <3>5. CASE n = req[t].tenant
      <4>1. link'[n] = req[t].link
        BY <3>2, <3>3, <3>4, <3>5 DEF TypeOK, Links
      <4>2. req[t].op = "update"
        BY <3>1, <3>2, <3>3 DEF BaseOf
      <4> QED
        BY <3>1, <3>3, <3>5, <4>1, <4>2 DEF BaseOf
    <3>6. CASE n # req[t].tenant
      BY <3>2, <3>3, <3>4, <3>6 DEF TypeOK, Links
    <3> QED
      BY <3>5, <3>6
  <2>3. ASSUME NEW n \in Tenants, Delete(n) \/ ChangeAlike(n) PROVE Kept
    BY <1>1, <2>3 DEF Delete, ChangeAlike, Linked, IInv, TypeOK, Links
  <2>4. ASSUME NEW t \in Threads, HandlerStep(t) PROVE Write(t) \/ link' = link
    BY <2>4 DEF HandlerStep, AskCreate, AskUpdate, AskRelease, Arrive,
                ReadForCreate, ReadForUpdate, FindLink, GetLink, MatchLink,
                Released
  <2> QED
    BY <1>1, <2>1, <2>2, <2>3, <2>4 DEF Next, vars
<1> QED
  BY <1>1, InvariantHolds, PTL DEF Spec, ClaimsAreKept

=============================================================================
