-------------------------------- MODULE Drafts --------------------------------
(***************************************************************************)
(* Draft skills and their mirror on GitHub (api/draft_routes.py,           *)
(* drafts/store.py, drafts/git_sync.py, authn/github_client.py).           *)
(*                                                                         *)
(* A draft is a directory on the registry's disk.  One that is connected   *)
(* to a repository has a working branch too; a save writes the file and    *)
(* then, best effort, commits it; publishing opens a pull request, merges  *)
(* it, creates a release and only then publishes to the registry, and      *)
(* nothing is undone when a later step fails.                              *)
(*                                                                         *)
(* Every action is one access to the disk or one exchange with GitHub, and *)
(* an exchange may fail, or succeed with its answer lost.  All drafts here *)
(* share one repository with one target branch.  The directory of a draft  *)
(* is named for the skill its manifest named when it was connected; which  *)
(* skill and version it names when it is published is open, since saves of *)
(* the manifest may have changed both.                                     *)
(***************************************************************************)
EXTENDS Naturals

CONSTANTS
  Drafts,      \* draft ids, fresh for every draft
  Legacy,      \* drafts connected before skills had directories
  Workers,     \* the registry's request threads
  Skills, Versions,
  Root,        \* the directory of a legacy draft: the top of the repository
  Files, Contents,
  Seeds,       \* what a draft starts with: the starter files or a fork's
  Nothing,     \* a file, draft, branch, release or publication that is absent
  MaxDraftRequests,  \* bound on the requests accepted
  MaxOverlapping     \* and on them where a draft's owner does not wait

Tree == [Files -> Contents \union {Nothing}]

Empty == [f \in Files |-> Nothing]

Dirs == Skills \union {Root}

ASSUME DraftsAssumption ==
  /\ Legacy \subseteq Drafts /\ Root \notin Skills
  /\ Nothing \notin Contents
  /\ Seeds \subseteq Tree \ {Empty}
  /\ MaxDraftRequests \in Nat /\ MaxOverlapping \in Nat

VARIABLES
  meta,       \* _meta.json of each draft
  disk,       \* the files of each draft
  created,    \* ids handed out
  homes,      \* directories each draft has been given
  behind,     \* files written since they were last seen to land on the branch
  stray,      \* files a move has put into a directory without being answered
  born,       \* the target branch has a commit
  main,       \* the target branch
  branch,     \* the working branch of each draft
  base,       \* the commit a working branch was made of
  pr,         \* whether a pull request of the working branch is open
  merges,     \* how often a working branch was merged: never, once, more often
  release,    \* GitHub releases of the repository, by tag name
  registry,   \* publish_skill's tags
  serving,    \* what each thread is doing
  requests,
  oneAtATime  \* whether a draft's owner waits for one request before the next

target == <<born, main>>
github == <<target, branch, base, pr, merges, release>>
history == <<homes, behind, stray>>
local == <<meta, disk, created, history>>
draftVars ==
  <<meta, disk, created, homes, behind, stray, born, main, branch, base, pr, merges,
    release, registry, serving, requests, oneAtATime>>

\* A commit: every directory with its files.
Commit == [Dirs -> Tree]

Bare == [dir \in Dirs |-> Empty]

Meta == [git : BOOLEAN, error : BOOLEAN, dir : Dirs \union {Nothing}]

Snapshot == [skill : Skills, files : Tree]

Publication ==
  [git : BOOLEAN, edited : BOOLEAN, draft : Drafts, files : Tree, behind : SUBSET Files]

ASSUME NothingAssumption ==
  Nothing \notin Tree \union Dirs \union Commit \union Meta \union Snapshot \union Publication

Slots == Skills \X Versions

NoRequest == [pc |-> "idle"]

ConnectRequest ==
  [pc : {"base", "boot", "branch", "seed", "connect"}, draft : Drafts, dir : Skills,
   seed : Tree, todo : SUBSET Files, from : Commit \union {Nothing}]

SaveRequest ==
  [pc : {"write", "commit", "landed", "failed"}, draft : Drafts, dir : Dirs \union {Nothing},
   file : Files, to : Contents \union {Nothing}]

MoveRequest == [pc : {"move", "relocate", "landed"}, draft : Drafts, dir : Skills, files : Tree]

PublishRequest ==
  [pc : {"openPr", "merge", "release", "archive", "drop"}, draft : Drafts,
   dir : Dirs \union {Nothing}, slot : Slots, files : Tree]

Requests ==
  ConnectRequest \union SaveRequest \union MoveRequest \union PublishRequest \union {NoRequest}

(***************************************************************************)
(* The repository is empty, or has nothing yet in the directories that     *)
(* drafts will be given; legacy drafts have a branch with their files.     *)
(***************************************************************************)
DraftsInit ==
  /\ born \in BOOLEAN
  /\ created \in SUBSET (IF born THEN Legacy ELSE {})
  /\ disk \in [Drafts -> Seeds \union {Empty}]
  /\ \A d \in Drafts : disk[d] = Empty <=> d \notin created
  /\ meta = [d \in Drafts |->
       IF d \in created THEN [git |-> TRUE, error |-> FALSE, dir |-> Root] ELSE Nothing]
  /\ homes = [d \in Drafts |-> IF d \in created THEN {Root} ELSE {}]
  /\ behind = [d \in Drafts |-> {}]
  /\ stray = [d \in Drafts |-> {}]
  /\ main = Bare
  /\ branch = [d \in Drafts |->
       IF d \in created THEN [Bare EXCEPT ![Root] = disk[d]] ELSE Nothing]
  /\ base = [d \in Drafts |-> Bare]
  /\ pr = [d \in Drafts |-> FALSE] /\ merges = [d \in Drafts |-> 0]
  /\ release = [v \in Versions |-> Nothing]
  /\ registry = [s \in Slots |-> Nothing]
  /\ serving = [th \in Workers |-> NoRequest]
  /\ requests = 0
  /\ oneAtATime \in BOOLEAN

-----------------------------------------------------------------------------
DraftAt(th, label) == serving[th].pc = label

Set(th, request) == serving' = [serving EXCEPT ![th] = request]

Goto(th, label) == serving' = [serving EXCEPT ![th].pc = label]

EndRequest(th) == Set(th, NoRequest)

Draft(th) == serving[th].draft

Served(d) == \E th \in Workers : serving[th] # NoRequest /\ serving[th].draft = d

Accept(th, d) ==
  /\ serving[th] = NoRequest
  /\ IF oneAtATime THEN ~Served(d) ELSE requests < MaxOverlapping
  /\ requests < MaxDraftRequests
  /\ requests' = requests + 1

Exists(d) == meta[d] # Nothing

\* drafts.delete: shutil.rmtree of the draft's directory.
Remove(d) ==
  /\ meta' = [meta EXCEPT ![d] = Nothing]
  /\ disk' = [disk EXCEPT ![d] = Empty]
  /\ behind' = [behind EXCEPT ![d] = {}]
  /\ stray' = [stray EXCEPT ![d] = {}]

\* One tree laid over another.
Over(files, under) == [f \in Files |-> IF files[f] = Nothing THEN under[f] ELSE files[f]]

Present(files) == {f \in Files : files[f] # Nothing}

(***************************************************************************)
(* create_draft: the starter files or a fork's, then _connect_draft_to_git *)
(* when a repository was chosen, with the directory that the manifest's id *)
(* names (skill_directory_name).                                           *)
(***************************************************************************)
CreateDraft(th, d, files, dir) ==
  /\ d \notin created
  /\ Accept(th, d)
  /\ created' = created \union {d}
  /\ meta' = [meta EXCEPT ![d] = [git |-> FALSE, error |-> FALSE, dir |-> Nothing]]
  /\ disk' = [disk EXCEPT ![d] = files]
  /\ \/ dir = Nothing /\ UNCHANGED <<serving, homes>>
     \/ /\ dir # Nothing
        /\ Set(th, [pc |-> "base", draft |-> d, dir |-> dir, seed |-> files,
                    todo |-> Present(files), from |-> Nothing])
        /\ homes' = [homes EXCEPT ![d] = {dir}]
  /\ UNCHANGED <<behind, stray, github, registry>>

(***************************************************************************)
(* A failure to connect, of whatever kind (no connection, the repository   *)
(* not registered, an empty one that nobody confirmed to initialize, the   *)
(* branch name taken, an API error), removes the draft again; what was     *)
(* made on GitHub stays there.                                             *)
(***************************************************************************)
RollBack(th) ==
  /\ serving[th].pc \in {"base", "boot", "branch", "seed"}
  /\ Remove(Draft(th))
  /\ EndRequest(th)
  /\ UNCHANGED <<created, homes, github, registry, requests>>

\* create_working_branch asks for the head of the target branch first.
ReadBase(th) ==
  /\ DraftAt(th, "base")
  /\ \/ born /\ Set(th, [serving[th] EXCEPT !.pc = "branch", !.from = main])
     \/ ~born /\ Goto(th, "boot")
  /\ UNCHANGED <<local, github, registry, requests>>

(***************************************************************************)
(* bootstrap_empty_repo: one commit per file on the target branch, the     *)
(* first of which makes it.  GitHub refuses to create a file that is there *)
(* already.                                                                *)
(***************************************************************************)
BootstrapFile(th, f) ==
  LET r == serving[th] IN
  /\ DraftAt(th, "boot") /\ f \in r.todo
  /\ main[r.dir][f] = Nothing
  /\ main' = [main EXCEPT ![r.dir][f] = r.seed[f]]
  /\ born' = TRUE
  /\ Set(th, [r EXCEPT !.todo = @ \ {f},
                       !.from = IF r.todo = {f} THEN main' ELSE Nothing,
                       !.pc = IF r.todo = {f} THEN "branch" ELSE "boot"])
  /\ UNCHANGED <<local, branch, base, pr, merges, release, registry, requests>>

\* Variant: the branch is mistaken for the skill's directory.
CreateBranchOfDirectory(th) ==
  LET r == serving[th] IN
  /\ DraftAt(th, "branch")
  /\ branch' = [branch EXCEPT ![r.draft] = r.from[r.dir]]
  /\ base' = [base EXCEPT ![r.draft] = r.from]
  /\ Goto(th, IF r.todo = {} THEN "connect" ELSE "seed")
  /\ UNCHANGED <<local, target, pr, merges, release, registry, requests>>

\* After a bootstrap the branch has the draft's files already.
CreateBranch(th) ==
  LET r == serving[th] IN
  /\ DraftAt(th, "branch")
  /\ branch' = [branch EXCEPT ![r.draft] = r.from]
  /\ base' = [base EXCEPT ![r.draft] = r.from]
  /\ Goto(th, IF r.todo = {} THEN "connect" ELSE "seed")
  /\ UNCHANGED <<local, target, pr, merges, release, registry, requests>>

\* Variant: every new branch counts as seeded.
SeedNothing(th) ==
  /\ DraftAt(th, "seed")
  /\ Goto(th, "connect")
  /\ UNCHANGED <<local, github, registry, requests>>

SeedBranch(th) ==
  LET r == serving[th] IN
  /\ DraftAt(th, "seed")
  /\ branch' = [branch EXCEPT ![r.draft][r.dir] = Over(r.seed, @)]
  /\ Goto(th, "connect")
  /\ UNCHANGED <<local, target, base, pr, merges, release, registry, requests>>

\* set_git_connection, which raises if the draft has gone meanwhile.
SetConnection(th) ==
  /\ DraftAt(th, "connect")
  /\ meta' = IF Exists(Draft(th))
             THEN [meta EXCEPT ![Draft(th)] =
                     [git |-> TRUE, error |-> FALSE, dir |-> serving[th].dir]]
             ELSE meta
  /\ EndRequest(th)
  /\ UNCHANGED <<disk, created, history, github, registry, requests>>

-----------------------------------------------------------------------------
(***************************************************************************)
(* put_draft_file and delete_draft_file: the draft is read, the file is    *)
(* written or removed, and then _sync_file_change mirrors it.  An autosave *)
(* (syncToGit false) stops after the disk.                                 *)
(***************************************************************************)
BeginSave(th, d, f, c) ==
  /\ Exists(d)
  /\ Accept(th, d)
  /\ Set(th, [pc |-> "write", draft |-> d, dir |-> meta[d].dir, file |-> f, to |-> c])
  /\ UNCHANGED <<local, github, registry>>

WriteFile(th, sync) ==
  LET d == Draft(th)
      f == serving[th].file
  IN
  /\ DraftAt(th, "write")
  /\ disk' = [disk EXCEPT ![d][f] = serving[th].to]
  /\ behind' = [behind EXCEPT ![d] = @ \union {f}]
  /\ IF serving[th].dir # Nothing /\ (sync \/ serving[th].to = Nothing) THEN Goto(th, "commit")
     ELSE EndRequest(th)
  /\ UNCHANGED <<meta, created, homes, stray, github, registry, requests>>

(***************************************************************************)
(* commit_files makes one commit of the change, or none; the caller learns *)
(* of it, or not.                                                          *)
(***************************************************************************)
CommitChange(th, answered) ==
  LET d == Draft(th)
      f == serving[th].file
  IN
  /\ DraftAt(th, "commit")
  /\ branch' = [branch EXCEPT ![d][serving[th].dir][f] = serving[th].to]
  /\ behind' = IF answered THEN [behind EXCEPT ![d] = @ \ {f}] ELSE behind
  /\ Goto(th, IF answered THEN "landed" ELSE "failed")
  /\ UNCHANGED <<meta, disk, created, homes, stray, target, base, pr, merges, release,
                 registry, requests>>

CommitFails(th) ==
  /\ DraftAt(th, "commit")
  /\ Goto(th, "failed")
  /\ UNCHANGED <<local, github, registry, requests>>

\* set_sync_status: the outcome of this commit replaces that of the last one.
SetSyncStatus(th) ==
  LET d == Draft(th) IN
  /\ serving[th].pc \in {"landed", "failed"}
  /\ IF Exists(d) THEN meta' = [meta EXCEPT ![d].error = DraftAt(th, "failed")]
     ELSE UNCHANGED meta
  /\ EndRequest(th)
  /\ UNCHANGED <<disk, created, history, github, registry, requests>>

DeleteDraft(th, d) ==
  /\ Exists(d)
  /\ Accept(th, d)
  /\ Remove(d)
  /\ UNCHANGED <<created, homes, github, registry, serving>>

-----------------------------------------------------------------------------
(***************************************************************************)
(* move_draft_to_git_directory: one commit takes the files of a legacy     *)
(* draft from the top of the repository to a directory, and only then is   *)
(* the directory recorded.  A failure is raised and recorded nowhere.      *)
(***************************************************************************)
BeginMove(th, d, dir) ==
  /\ Exists(d)
  /\ meta[d].dir = Root
  /\ Accept(th, d)
  /\ homes' = [homes EXCEPT ![d] = @ \union {dir}]
  /\ Set(th, [pc |-> "move", draft |-> d, dir |-> dir, files |-> disk[d]])
  /\ UNCHANGED <<meta, disk, created, behind, stray, github, registry>>

\* The commit lands; its answer may be lost, and that ends the request.
MoveFiles(th, answered) ==
  LET d == Draft(th)
      r == serving[th]
      moved == Present(r.files)
  IN
  /\ DraftAt(th, "move") /\ moved # {}
  /\ branch' = [branch EXCEPT
       ![d][Root] = [f \in Files |-> IF f \in moved THEN Nothing ELSE @[f]],
       ![d][r.dir] = Over(r.files, @)]
  /\ \/ /\ answered
        /\ behind' = [behind EXCEPT ![d] = stray[d] \ moved]
        /\ Goto(th, "relocate")
        /\ UNCHANGED stray
     \/ /\ ~answered
        /\ behind' = [behind EXCEPT ![d] = @ \union moved]
        /\ stray' = [stray EXCEPT ![d] = @ \union moved]
        /\ EndRequest(th)
  /\ UNCHANGED <<meta, disk, created, homes, target, base, pr, merges, release,
                 registry, requests>>

MoveFails(th) ==
  /\ DraftAt(th, "move")
  /\ EndRequest(th)
  /\ UNCHANGED <<local, github, registry, requests>>

\* set_git_subdirectory, which raises if the draft has gone meanwhile.
Relocate(th) ==
  LET d == Draft(th) IN
  /\ DraftAt(th, "relocate")
  /\ \/ /\ Exists(d)
        /\ meta' = [meta EXCEPT ![d].dir = serving[th].dir]
        /\ Goto(th, "landed")
     \/ ~Exists(d) /\ EndRequest(th) /\ UNCHANGED meta
  /\ UNCHANGED <<disk, created, history, github, registry, requests>>

-----------------------------------------------------------------------------
(***************************************************************************)
(* publish_draft, once the draft has passed validation and the guardrail   *)
(* scan: the manifest among its files, as they are then, names the skill   *)
(* and version that GitHub is told of.                                     *)
(***************************************************************************)
BeginPublish(th, d, slot) ==
  /\ Exists(d)
  /\ Accept(th, d)
  /\ Set(th, [pc |-> IF meta[d].git THEN "openPr" ELSE "archive",
              draft |-> d, dir |-> meta[d].dir, slot |-> slot, files |-> disk[d]])
  /\ UNCHANGED <<local, github, registry>>

\* GitHub refuses a second open pull request of one branch.
OpenPr(th) ==
  /\ DraftAt(th, "openPr")
  /\ ~pr[Draft(th)]
  /\ pr' = [pr EXCEPT ![Draft(th)] = TRUE]
  /\ Goto(th, "merge")
  /\ UNCHANGED <<local, target, branch, base, merges, release, registry, requests>>

(***************************************************************************)
(* The squash merge.  Of the working branch, the target branch and the     *)
(* commit they have in common, a file may be changed by one side only, or  *)
(* by both alike; anything else is a conflict.                             *)
(***************************************************************************)
Mergeable(d) ==
  \A dir \in Dirs, f \in Files :
    \/ branch[d][dir][f] \in {base[d][dir][f], main[dir][f]}
    \/ main[dir][f] = base[d][dir][f]

Merged(d) ==
  /\ Mergeable(d)
  /\ main' = [dir \in Dirs |-> [f \in Files |->
       IF branch[d][dir][f] = base[d][dir][f] THEN main[dir][f] ELSE branch[d][dir][f]]]
  /\ pr' = [pr EXCEPT ![d] = FALSE]
  /\ merges' = [merges EXCEPT ![d] = IF @ = 0 THEN 1 ELSE 2]

\* Variant: a conflict is noted and the publication goes on.
MergePrOrNot(th) ==
  /\ DraftAt(th, "merge")
  /\ Goto(th, "release")
  /\ UNCHANGED <<local, github, registry, requests>>

MergePr(th) ==
  /\ DraftAt(th, "merge")
  /\ pr[Draft(th)]
  /\ Merged(Draft(th))
  /\ Goto(th, "release")
  /\ UNCHANGED <<local, born, branch, base, release, registry, requests>>

\* Somebody merges or closes the pull request that a conflict left open.
SettlePr(d, merge) ==
  /\ pr[d]
  /\ \/ merge /\ Merged(d)
     \/ ~merge /\ pr' = [pr EXCEPT ![d] = FALSE] /\ UNCHANGED <<main, merges>>
  /\ UNCHANGED <<local, born, branch, base, release, registry, serving, requests>>

\* create_release tags the head of the target branch v<version>; GitHub
\* refuses a tag name that has a release.
CreateRelease(th) ==
  LET slot == serving[th].slot IN
  /\ DraftAt(th, "release")
  /\ release[slot[2]] = Nothing
  /\ release' = [release EXCEPT ![slot[2]] =
       [skill |-> slot[1], files |-> main[serving[th].dir]]]
  /\ Goto(th, "archive")
  /\ UNCHANGED <<local, target, branch, base, pr, merges, registry, requests>>

\* Variant: the draft is cleaned up however the publication ends.
PublishFailsAndDrops(th) ==
  /\ serving[th].pc \in {"openPr", "merge", "release", "archive"}
  /\ Remove(Draft(th))
  /\ EndRequest(th)
  /\ UNCHANGED <<created, homes, github, registry, requests>>

(***************************************************************************)
(* An exchange that fails, or is refused, ends the publication with an     *)
(* error; the draft is kept and what GitHub already did stays.             *)
(***************************************************************************)
PublishFails(th) ==
  /\ serving[th].pc \in {"openPr", "merge", "release", "archive"}
  /\ EndRequest(th)
  /\ UNCHANGED <<local, github, registry, requests>>

(***************************************************************************)
(* The draft's files are read once more, and what they are now is          *)
(* packaged, signed and tagged, with the skill and version that the        *)
(* manifest among them names: those that GitHub was told of, unless        *)
(* another request has changed a file since.                               *)
(***************************************************************************)
PublishSkill(th, slot) ==
  LET r == serving[th]
      d == r.draft
  IN
  /\ DraftAt(th, "archive")
  /\ Exists(d)
  /\ disk[d] = r.files => slot = r.slot
  /\ registry[slot] = Nothing
  /\ registry' = [registry EXCEPT ![slot] =
       [git |-> r.dir # Nothing, edited |-> disk[d] # r.files, draft |-> d,
        files |-> disk[d], behind |-> behind[d]]]
  /\ Set(th, [r EXCEPT !.pc = "drop", !.slot = slot])
  /\ UNCHANGED <<local, github, requests>>

DropDraft(th) ==
  /\ DraftAt(th, "drop")
  /\ Remove(Draft(th))
  /\ EndRequest(th)
  /\ UNCHANGED <<created, homes, github, registry, requests>>

-----------------------------------------------------------------------------
Begin(th, d) ==
  \/ \E files \in Seeds, dir \in Skills \union {Nothing} : CreateDraft(th, d, files, dir)
  \/ \E f \in Files, c \in Contents \union {Nothing} : BeginSave(th, d, f, c)
  \/ DeleteDraft(th, d)
  \/ \E dir \in Skills : BeginMove(th, d, dir)
  \/ \E slot \in Slots : BeginPublish(th, d, slot)

Step(th) ==
  \/ ReadBase(th) \/ \E f \in Files : BootstrapFile(th, f)
  \/ RollBack(th) \/ CreateBranch(th) \/ SeedBranch(th) \/ SetConnection(th)
  \/ \E sync \in BOOLEAN : WriteFile(th, sync)
  \/ \E answered \in BOOLEAN : CommitChange(th, answered) \/ MoveFiles(th, answered)
  \/ CommitFails(th) \/ SetSyncStatus(th) \/ MoveFails(th) \/ Relocate(th)
  \/ OpenPr(th) \/ MergePr(th) \/ CreateRelease(th) \/ PublishFails(th)
  \/ (\E slot \in Slots : PublishSkill(th, slot)) \/ DropDraft(th)

DraftsNext ==
  /\ \/ \E th \in Workers, d \in Drafts : Begin(th, d)
     \/ \E th \in Workers : Step(th)
     \/ \E d \in Drafts, merge \in BOOLEAN : SettlePr(d, merge)
  /\ UNCHANGED oneAtATime

DraftsSpec == DraftsInit /\ [][DraftsNext]_draftVars

-----------------------------------------------------------------------------
DraftsTypeOK ==
  /\ meta \in [Drafts -> Meta \union {Nothing}]
  /\ disk \in [Drafts -> Tree]
  /\ created \in SUBSET Drafts
  /\ homes \in [Drafts -> SUBSET Dirs]
  /\ behind \in [Drafts -> SUBSET Files] /\ stray \in [Drafts -> SUBSET Files]
  /\ born \in BOOLEAN /\ main \in Commit
  /\ branch \in [Drafts -> Commit \union {Nothing}]
  /\ base \in [Drafts -> Commit]
  /\ pr \in [Drafts -> BOOLEAN] /\ merges \in [Drafts -> 0..2]
  /\ release \in [Versions -> Snapshot \union {Nothing}]
  /\ registry \in [Slots -> Publication \union {Nothing}]
  /\ serving \in [Workers -> Requests]
  /\ requests \in 0..MaxDraftRequests

\* A draft's work is never lost: it goes when its owner discards it, when its
\* very creation is rolled back, or when the registry has a publication of it --
\* one that fails half way keeps the draft -- and exactly what it holds, unless
\* its owner went on to other requests before the answer.
DraftsAreKept ==
  [][\A d \in Drafts : Exists(d) /\ meta'[d] = Nothing =>
       \/ requests' = requests + 1
       \/ \E th \in Workers :
            /\ serving[th] # NoRequest /\ Draft(th) = d
            /\ \/ serving[th] \in ConnectRequest /\ ~meta[d].git
               \/ /\ DraftAt(th, "drop")
                  /\ registry[serving[th].slot] # Nothing
                  /\ registry[serving[th].slot].draft = d
                  /\ oneAtATime => registry[serving[th].slot].files = disk[d]]_draftVars

\* No other draft has ever been given a directory of this one.
Alone(d) == \A other \in Drafts \ {d} : homes[other] \intersect homes[d] = {}

\* At rest the working branch of a draft that has its directory for itself has
\* what the draft has, in every file that was not saved without a commit or
\* whose commit failed since -- through bootstraps of the repository and moves
\* from its top whose answer was lost -- if its owner waits for each answer.
BranchMirrorsDraft ==
  oneAtATime => \A d \in Drafts : Exists(d) /\ meta[d].git /\ ~Served(d) /\ Alone(d) =>
    \A f \in Files \ behind[d] : branch[d][meta[d].dir][f] = disk[d][f]

\* The registry does not run ahead of the repository: a skill published from a
\* connected draft has a GitHub release of its version, of that very skill, unless
\* another request changed the draft while GitHub was being told; and if the
\* draft's owner waited for each answer, the draft had its directory for itself and
\* its branch had not been merged before, the release holds there what was
\* published, in every file that was mirrored.
ReleaseMatchesPublication ==
  \A s \in Slots :
    LET pub == registry[s] IN
    pub # Nothing /\ pub.git /\ (oneAtATime \/ ~pub.edited) =>
      /\ release[s[2]] # Nothing
      /\ release[s[2]].skill = s[1]
      /\ oneAtATime /\ Alone(pub.draft) /\ merges[pub.draft] = 1 =>
           \A f \in Files \ pub.behind : release[s[2]].files[f] = pub.files[f]
=============================================================================
