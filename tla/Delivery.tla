------------------------------- MODULE Delivery -------------------------------
(***************************************************************************)
(* From a publication to files on somebody's disk: a release is signed     *)
(* (module Signing) and announced (IndexEvents), a replica resolves what a *)
(* client asks for and issues a token (api/routes.py, artifact/tokens.py), *)
(* which it counts (UsageCounts); whatever replica the client's next       *)
(* request reaches redeems it, and the client unpacks the archive into a   *)
(* directory (cli.py, and the SDK up to there).                            *)
(*                                                                         *)
(* publish_skill announces on a bus if it is given one.  No route of this  *)
(* repository gives it one yet: both cases are here.                       *)
(***************************************************************************)
EXTENDS Naturals

CONSTANTS
  Makers, Releases, Sigstore, None, Torn, MayCrash,
  Replicas, MaxRetries, MaxRedeliveries, MaxIssued,
  Files,    \* names in a package
  FilesOf,  \* the files of a release
  Budgets   \* bounds on the steps the environment takes, one record per scenario

\* What the environment does, and how often a scenario lets it.
Costs == {"sign", "bundle", "announce", "fault", "put", "issue", "restart", "cut", "tear"}

VARIABLES
  keyFile, trusted, maker, signed, refused, clash,
  bus, announced, batch, failures, applied, dead, entries, redelivered,
  counter, flush, counts, issued, disturbed,
  token,     \* the release the client's artifact token is for
  known,     \* replicas whose ArtifactTokenIssuer knows that token, unexpired
  client,    \* the command under way: pull or install
  dest,      \* the release each file of the target directory is from
  installs,  \* commands that reported success
  recheck,   \* feature_flags.high_assurance_signature_recheck
  partial,   \* releases whose archive was left incomplete in the local store
  left       \* what is left of the budget

S == INSTANCE Signing
E == INSTANCE IndexEvents
U == INSTANCE UsageCounts

ASSUME DeliveryAssumption ==
  /\ S!SigningAssumption /\ E!IndexEventsAssumption /\ U!UsageAssumption
  /\ FilesOf \in [Releases -> SUBSET Files]
  /\ Budgets \subseteq [Costs -> Nat]
  /\ \A b \in Budgets : b.issue <= MaxIssued

signingVars == <<keyFile, trusted, maker, signed, refused, clash>>
eventVars == <<bus, announced, batch, failures, applied, dead, entries, redelivered>>
usageVars == <<counter, flush, counts, issued, disturbed>>
clientVars == <<token, known, client, dest, installs>>
setting == <<recheck, partial>>
vars == <<signingVars, eventVars, usageVars, clientVars, setting, left>>

Idle == [pc |-> "idle", rel |-> None, todo |-> {}]

Client ==
  [pc : {"idle", "redeem", "write", "done"}, rel : Releases \union {None}, todo : SUBSET Files]

Init ==
  /\ S!Init /\ E!Init /\ U!Init
  /\ token = None /\ known = {}
  /\ client = Idle
  /\ dest = [f \in Files |-> None]
  /\ installs = 0
  /\ recheck \in BOOLEAN /\ partial = {}
  /\ left \in Budgets

Published == {v \in Releases : signed[v] # None}

Spend(costs) ==
  /\ \A c \in costs : left[c] > 0
  /\ left' = [c \in Costs |-> IF c \in costs THEN left[c] - 1 ELSE left[c]]

Free == UNCHANGED left

-----------------------------------------------------------------------------
\* cmd_publish, publish_draft, release_skill, and at the start of a server the
\* demo seed.
BeginPublication(m, v) ==
  /\ Spend({"sign"})
  /\ S!Begin(m, v)
  /\ UNCHANGED <<eventVars, usageVars, clientVars, setting>>

LoadKeys(m) ==
  /\ S!LoadKeys(m)
  /\ UNCHANGED <<eventVars, usageVars, clientVars, setting, left>>

\* The announcement follows the tag, if there is a bus and the publication is
\* not cut off between the two.
Announced(v, costs) ==
  \/ E!Announce(v) /\ Spend(costs \union {"announce"})
  \/ UNCHANGED eventVars /\ Spend(costs)

Publish(m) ==
  LET v == maker[m].rel
      onward == IF maker'[m] = S!NoWork THEN {} ELSE {"sign"}
  IN
  /\ S!Publish(m)
  /\ \/ signed' # signed /\ Announced(v, onward)
     \/ signed' = signed /\ UNCHANGED eventVars /\ Spend(onward)
  /\ UNCHANGED <<usageVars, clientVars, setting>>

PublishBundle(v) ==
  /\ S!PublishBundle(v) /\ Announced(v, {"bundle"})
  /\ UNCHANGED <<usageVars, clientVars, setting>>

(***************************************************************************)
(* A publication cut off while it filled the archive leaves it as it is,   *)
(* and the next one of the same content finds an archive there and binds   *)
(* its tag to it (module Publish).                                         *)
(***************************************************************************)
Abandons(v) == signed[v] = None /\ partial' = partial \union {v}

CutOffPublication(m) ==
  /\ S!CutOff(m)
  /\ \/ UNCHANGED partial /\ Spend({"cut"})
     \/ S!At(m, "publish") /\ Abandons(maker[m].rel) /\ Spend({"cut", "tear"})
  /\ UNCHANGED <<eventVars, usageVars, clientVars, recheck>>

CutOffBundle(v) ==
  /\ MayCrash /\ Spend({"tear"})
  /\ Abandons(v)
  /\ UNCHANGED <<signingVars, eventVars, usageVars, clientVars, recheck>>

\* The route's own index.put, or reconciliation.
PutRelease(r, v) ==
  /\ v \in Published
  /\ Spend({"put"}) /\ E!Put(r, v)
  /\ UNCHANGED <<signingVars, usageVars, clientVars, setting>>

HandleEvents(r) ==
  /\ \/ E!ConsumerStep(r) /\ Free
     \/ E!Fail(r) /\ Spend({"fault"})
  /\ UNCHANGED <<signingVars, usageVars, clientVars, setting>>

Redeliver(v) ==
  /\ E!Redeliver(v) /\ Spend({"fault"})
  /\ UNCHANGED <<signingVars, usageVars, clientVars, setting>>

FlushUsage(r) ==
  /\ U!FlushStep(r)
  /\ UNCHANGED <<signingVars, eventVars, clientVars, setting, left>>

\* The tokens, the counter and the consumer's memory go with the process.
Restart(r) ==
  /\ Spend({"restart"})
  /\ U!Restart(r)
  /\ E!Bootstrap(r, Published)
  /\ known' = known \ {r}
  /\ UNCHANGED <<signingVars, token, client, dest, installs, setting>>

-----------------------------------------------------------------------------
(***************************************************************************)
(* create_artifact_token: what _require_entry resolves is fixed in the     *)
(* token.  A version pinned exactly can be any entry of the index, and     *)
(* what a range resolves to is one too (module Search).                    *)
(***************************************************************************)
IssueToken(r, v) ==
  /\ client.pc \in {"idle", "done"}
  /\ v \in entries[r]
  /\ Spend({"issue"}) /\ U!Record(r)
  /\ token' = v /\ known' = {r}
  /\ client' = [Idle EXCEPT !.pc = "redeem"]
  /\ UNCHANGED <<signingVars, eventVars, dest, installs, setting>>

TokenExpires ==
  /\ known # {}
  /\ known' = {}
  /\ UNCHANGED <<signingVars, eventVars, usageVars, token, client, dest, installs, setting, left>>

\* Variant: the signature of the recorded digest is verified, the archive is not.
RecheckedSignature(v) == recheck => signed[v] = Sigstore

\* verify_artifact, when it is asked again: `jaasctl serve` hands its trust
\* policy to the demo seed and not to the application, whose own trusts no key.
\* It compares the archive with the digest as well.
Rechecked(v) == recheck => signed[v] = Sigstore /\ v \notin partial

(***************************************************************************)
(* download_artifact, at whichever replica the request reaches, and        *)
(* extract_archive at the client, which verifies nothing: what is there of *)
(* an incomplete archive may unpack without an error, or raise.            *)
(***************************************************************************)
Redeem(q) ==
  /\ client.pc = "redeem"
  /\ \/ /\ q \in known /\ Rechecked(token)
        /\ \E files \in SUBSET FilesOf[token] :
             /\ files # FilesOf[token] => token \in partial
             /\ client' = [pc |-> "write", rel |-> token, todo |-> files]
     \/ /\ q \in known /\ Rechecked(token) => token \in partial
        /\ client' = Idle
  /\ UNCHANGED <<signingVars, eventVars, usageVars, token, known, dest, installs, setting, left>>

\* _write_files: one after the other, over what a former command left there.
WriteFile(f) ==
  /\ client.pc = "write" /\ f \in client.todo
  /\ dest' = [dest EXCEPT ![f] = client.rel]
  /\ client' = [client EXCEPT !.todo = @ \ {f}]
  /\ UNCHANGED <<signingVars, eventVars, usageVars, token, known, installs, setting, left>>

Report ==
  /\ client.pc = "write" /\ client.todo = {}
  /\ client' = [client EXCEPT !.pc = "done"]
  /\ installs' = installs + 1
  /\ UNCHANGED <<signingVars, eventVars, usageVars, token, known, dest, setting, left>>

CutOffClient ==
  /\ MayCrash /\ client.pc \in {"redeem", "write"}
  /\ Spend({"cut"})
  /\ client' = Idle
  /\ UNCHANGED <<signingVars, eventVars, usageVars, token, known, dest, installs, setting>>

-----------------------------------------------------------------------------
Next ==
  \/ \E m \in Makers : LoadKeys(m) \/ Publish(m) \/ CutOffPublication(m)
  \/ \E m \in Makers, v \in Releases : BeginPublication(m, v)
  \/ \E v \in Releases : PublishBundle(v) \/ CutOffBundle(v) \/ Redeliver(v)
  \/ \E r \in Replicas : HandleEvents(r) \/ FlushUsage(r) \/ Restart(r) \/ Redeem(r)
  \/ \E r \in Replicas, v \in Releases : PutRelease(r, v) \/ IssueToken(r, v)
  \/ \E f \in Files : WriteFile(f)
  \/ TokenExpires \/ Report \/ CutOffClient

Spec == Init /\ [][Next]_vars

-----------------------------------------------------------------------------
TypeOK ==
  /\ S!TypeOK /\ E!TypeOK /\ U!TypeOK
  /\ token \in Releases \union {None} /\ known \subseteq Replicas
  /\ client \in Client
  /\ dest \in [Files -> Releases \union {None}]
  /\ installs \in Nat /\ recheck \in BOOLEAN /\ partial \subseteq Releases
  /\ left \in [Costs -> Nat]

\* Unless two first publications both made a key, every release verifies against
\* the registered key, which is the key on file, and none was refused
\* (load_or_create_keypair: "so signatures verify consistently").
SignaturesHold == S!SignaturesHold

\* No announcement is lost, through retries, second deliveries and restarts, and
\* a consumer never passes over a release that its index lacks.
EventsAreAccounted == E!EventsAreAccounted

\* The usage file never says more than was downloaded; while no two flushes have
\* overlapped and no restart has cut one off, it says with what is in memory how
\* much was, so no successful command is missing.
UsageIsHonest == U!UsageIsHonest /\ installs <= issued

\* When a command reports success, every file of one release is in its place --
\* the release that was resolved when the token was issued, whatever was
\* published or restarted meanwhile and whatever commands were cut off there
\* before -- and its signature was good: it verifies against the registered key,
\* or under the recheck against Sigstore.  Without the recheck an archive that was
\* left incomplete reaches the client unnoticed; with it, never.
InstallIsTheRelease ==
  client.pc = "done" =>
    /\ client.rel = token
    /\ recheck \/ token \notin partial => \A f \in FilesOf[token] : dest[f] = token
    /\ signed[token] \in IF recheck THEN {Sigstore} ELSE {Sigstore} \union Makers
    /\ ~clash => signed[token] \in {Sigstore, trusted}
=============================================================================
