------------------------------- MODULE Publish -------------------------------
(***************************************************************************)
(* The publish pipeline (artifact/publish.py) as run by its three callers  *)
(* -- a draft publish, a CI release, jaasctl publish -- over the two       *)
(* object stores (storage/local_filesystem.py, storage/s3_store.py).       *)
(*                                                                         *)
(* One worker is one thread inside publish_skill: the API's sync handlers  *)
(* run in a thread pool and jaasctl is another process on the same store,  *)
(* so any of them interleave between two storage calls.  A put of the S3   *)
(* store is one conditional request; one of the local store creates the    *)
(* file exclusively and then fills it, and anyone can look in between.     *)
(***************************************************************************)
CONSTANTS
  Workers,    \* threads that publish
  Tags,       \* skill id + version pairs
  Packages,   \* archives, one per digest
  TagOf,      \* the tag a package's manifest.yaml names
  Backends,   \* stores the registry may be configured with
  MayAbort,   \* TRUE: a worker may die, or a storage call raise, at any step
  NoPackage,  \* no file
  Torn        \* a file that exists and is not (completely) written

ASSUME PublishAssumption ==
  /\ TagOf \in [Packages -> Tags]
  /\ NoPackage \notin Packages /\ Torn \notin Packages /\ NoPackage # Torn
  /\ Backends \subseteq {"local", "s3"} /\ MayAbort \in BOOLEAN

VARIABLES
  backend,    \* the store build_store has built, "local" or "s3"
  blob,       \* blobs/<digest>: absent, torn or whole
  tag,        \* tags/<id>/<version>/manifest.json
  audited,    \* packages with a publish event in the audit log
  abandoned,  \* files a worker created and did not fill, with their package
  job         \* what each worker is doing

vars == <<backend, blob, tag, audited, abandoned, job>>

\* A draft publish and jaasctl publish differ in nothing that is modelled here.
Kinds == {"publish", "release"}

Busy  == {"putBlob", "fillBlob", "putTag", "fillTag", "audit", "reread"}
Fills == {"fillBlob", "fillTag"}
Final == {"published", "conflict", "alreadyReleased", "unreadable"}

Job == [kind : Kinds, pkg : Packages, pc : Busy \union Final]

NoJob == [pc |-> "idle"]

Goto(w, label) == job' = [job EXCEPT ![w].pc = label]

Pkg(w) == job[w].pkg

Slot(w) == TagOf[Pkg(w)]

At(w, label) == job[w].pc = label

Init ==
  /\ backend \in Backends
  /\ blob = [p \in Packages |-> "absent"]
  /\ tag = [t \in Tags |-> NoPackage]
  /\ audited = {} /\ abandoned = {}
  /\ job = [w \in Workers |-> NoJob]

(***************************************************************************)
(* Validation, the guardrail scan, signing and the re-verification of the  *)
(* signature write nothing: a package one of them refuses never gets here. *)
(***************************************************************************)
Begin(w, kind, p) ==
  /\ At(w, "idle")
  /\ job' = [job EXCEPT ![w] = [kind |-> kind, pkg |-> p, pc |-> "putBlob"]]
  /\ UNCHANGED <<backend, blob, tag, audited, abandoned>>

\* Variant: S3 too creates the object and then uploads its parts.
PutBlobInParts(w) ==
  /\ At(w, "putBlob")
  /\ IF blob[Pkg(w)] = "absent"
     THEN blob' = [blob EXCEPT ![Pkg(w)] = "torn"] /\ Goto(w, "fillBlob")
     ELSE UNCHANGED blob /\ Goto(w, "putTag")
  /\ UNCHANGED <<backend, tag, audited, abandoned>>

(***************************************************************************)
(* write_blob_if_absent: a file that is already there is taken for a       *)
(* finished one, whoever is still filling it.                              *)
(***************************************************************************)
PutBlob(w) ==
  /\ At(w, "putBlob")
  /\ \/ /\ blob[Pkg(w)] # "absent"
        /\ Goto(w, "putTag")
        /\ UNCHANGED blob
     \/ /\ blob[Pkg(w)] = "absent" /\ backend = "s3"
        /\ blob' = [blob EXCEPT ![Pkg(w)] = "whole"]
        /\ Goto(w, "putTag")
     \/ /\ blob[Pkg(w)] = "absent" /\ backend = "local"
        /\ blob' = [blob EXCEPT ![Pkg(w)] = "torn"]
        /\ Goto(w, "fillBlob")
  /\ UNCHANGED <<backend, tag, audited, abandoned>>

FillBlob(w) ==
  /\ At(w, "fillBlob")
  /\ blob' = [blob EXCEPT ![Pkg(w)] = "whole"]
  /\ Goto(w, "putTag")
  /\ UNCHANGED <<backend, tag, audited, abandoned>>

\* Variant: the tag is opened with "wb" instead of "xb".
PutTagUnchecked(w) ==
  /\ At(w, "putTag")
  /\ tag' = [tag EXCEPT ![Slot(w)] = Pkg(w)]
  /\ Goto(w, "audit")
  /\ UNCHANGED <<backend, blob, audited, abandoned>>

\* Variant: S3 too creates the tag first and fills it afterwards.
PutTagInParts(w) ==
  /\ At(w, "putTag")
  /\ IF tag[Slot(w)] = NoPackage
     THEN tag' = [tag EXCEPT ![Slot(w)] = Torn] /\ Goto(w, "fillTag")
     ELSE UNCHANGED tag /\ Goto(w, IF job[w].kind = "release" THEN "reread" ELSE "conflict")
  /\ UNCHANGED <<backend, blob, audited, abandoned>>

(***************************************************************************)
(* write_tag_if_absent raises DUPLICATE_PUBLISH on a tag that exists.  A   *)
(* draft publish and jaasctl pass the error on; a release goes on to read  *)
(* the tag back.                                                           *)
(***************************************************************************)
PutTag(w) ==
  /\ At(w, "putTag")
  /\ \/ /\ tag[Slot(w)] # NoPackage
        /\ Goto(w, IF job[w].kind = "release" THEN "reread" ELSE "conflict")
        /\ UNCHANGED tag
     \/ /\ tag[Slot(w)] = NoPackage /\ backend = "s3"
        /\ tag' = [tag EXCEPT ![Slot(w)] = Pkg(w)]
        /\ Goto(w, "audit")
     \/ /\ tag[Slot(w)] = NoPackage /\ backend = "local"
        /\ tag' = [tag EXCEPT ![Slot(w)] = Torn]
        /\ Goto(w, "fillTag")
  /\ UNCHANGED <<backend, blob, audited, abandoned>>

\* Variant: a retried release is reported as a publication of its own.
RereadTagAndAudit(w) ==
  /\ At(w, "reread")
  /\ Goto(w, IF tag[Slot(w)] = Torn THEN "unreadable" ELSE "audit")
  /\ UNCHANGED <<backend, blob, tag, audited, abandoned>>

\* Variant: a retried release replaces what is there.
RereadTagAndReplace(w) ==
  /\ At(w, "reread")
  /\ tag' = [tag EXCEPT ![Slot(w)] = Pkg(w)]
  /\ Goto(w, "alreadyReleased")
  /\ UNCHANGED <<backend, blob, audited, abandoned>>

(***************************************************************************)
(* The release that lost reports success, whichever package has the tag    *)
(* and with the digest of its own files, once the tag it reads back for    *)
(* the index parses.                                                       *)
(***************************************************************************)
RereadTag(w) ==
  /\ At(w, "reread")
  /\ Goto(w, IF tag[Slot(w)] = Torn THEN "unreadable" ELSE "alreadyReleased")
  /\ UNCHANGED <<backend, blob, tag, audited, abandoned>>

FillTag(w) ==
  /\ At(w, "fillTag")
  /\ tag' = [tag EXCEPT ![Slot(w)] = Pkg(w)]
  /\ Goto(w, "audit")
  /\ UNCHANGED <<backend, blob, audited, abandoned>>

EmitAudit(w) ==
  /\ At(w, "audit")
  /\ audited' = audited \union {Pkg(w)}
  /\ Goto(w, "published")
  /\ UNCHANGED <<backend, blob, tag, abandoned>>

Respond(w) ==
  /\ job[w].pc \in Final
  /\ job' = [job EXCEPT ![w] = NoJob]
  /\ UNCHANGED <<backend, blob, tag, audited, abandoned>>

(***************************************************************************)
(* The process dies, or a write raises (disk full, a refused request):     *)
(* what reached the store stays there, and nothing undoes it.              *)
(***************************************************************************)
Abort(w) ==
  /\ MayAbort
  /\ job[w].pc \in Busy
  /\ job' = [job EXCEPT ![w] = NoJob]
  /\ abandoned' = abandoned \union {<<label, Pkg(w)>> : label \in Fills \intersect {job[w].pc}}
  /\ UNCHANGED <<backend, blob, tag, audited>>

Step(w) ==
  \/ PutBlob(w) \/ FillBlob(w)
  \/ PutTag(w) \/ FillTag(w) \/ RereadTag(w)
  \/ EmitAudit(w) \/ Respond(w)

Next ==
  \E w \in Workers :
    \/ \E kind \in Kinds, p \in Packages : Begin(w, kind, p)
    \/ Step(w)
    \/ Abort(w)

Spec == Init /\ [][Next]_vars

-----------------------------------------------------------------------------
TypeOK ==
  /\ backend \in Backends
  /\ blob \in [Packages -> {"absent", "torn", "whole"}]
  /\ tag \in [Tags -> Packages \union {NoPackage, Torn}]
  /\ audited \in SUBSET Packages /\ abandoned \in SUBSET (Fills \X Packages)
  /\ job \in [Workers -> Job \union {NoJob}]

\* A tag that can be read names a package with that very id and version, and
\* the package's archive is in the store: the pipeline writes the blob first,
\* so an index entry or an artifact token never points at nothing.
TagHasItsBlob ==
  \A t \in Tags : tag[t] \in Packages =>
    /\ TagOf[tag[t]] = t
    /\ blob[tag[t]] # "absent"

\* Only the local store shows a file before it is written: its creator has yet to
\* fill it, or died.
Unfinished(label, p) ==
  /\ backend = "local"
  /\ <<label, p>> \in abandoned \/ \E w \in Workers : At(w, label) /\ Pkg(w) = p

\* The archive a readable tag points at is complete, so that a download returns
\* the bytes that were digested and signed -- unless, on the local store, a worker
\* took it for a whole one that another has created and not (or never) filled.
TaggedArchiveIsWhole ==
  \A t \in Tags : tag[t] \in Packages =>
    blob[tag[t]] = "whole" \/ Unfinished("fillBlob", tag[t])

\* Exclusive creation makes one publisher win: two workers never believe at
\* the same time that they bound the same tag, and whoever believes it sees
\* its own package under the tag.
OneWinner ==
  \A w \in Workers : job[w].pc \in {"audit", "published"} =>
    /\ tag[Slot(w)] = Pkg(w)
    /\ \A v \in Workers \ {w} :
         job[v].pc \in {"fillTag", "audit", "published"} => Slot(v) # Slot(w)

\* The audit log speaks of publications that happened: an event's package is
\* the one its tag is bound to, never a rejected duplicate.
AuditIsTruthful == \A p \in audited : tag[TagOf[p]] = p

\* A published tag is never rebound, to another package or to nothing
\* (write_tag_if_absent is "the immutability enforcement point").
TagsAreImmutable == [][\A t \in Tags : tag[t] \in Packages => tag'[t] = tag[t]]_vars

\* A CI re-run of a tag "must succeed, not fail the pipeline": the tag it reads
\* back parses, whatever died before it -- unless, on the local store, it died
\* over that very tag or has yet to fill it.
RetrySucceeds ==
  \A w \in Workers : At(w, "reread") =>
    \/ tag[Slot(w)] \in Packages
    \/ \E p \in Packages : TagOf[p] = Slot(w) /\ Unfinished("fillTag", p)

-----------------------------------------------------------------------------
\* The tag names of the store, as the promise sees them: a torn tag is not
\* published yet.
Published == [t \in Tags |-> IF tag[t] = Torn THEN NoPackage ELSE tag[t]]

Catalog == INSTANCE AppendOnlyCatalog WITH published <- Published

\* Publishing implements the append-only catalogue.
ImplementsCatalog == Catalog!Spec
=============================================================================
