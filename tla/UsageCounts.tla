----------------------------- MODULE UsageCounts -----------------------------
(***************************************************************************)
(* How often a skill is downloaded (index/usage.py): every replica counts  *)
(* the artifact tokens it issues in memory, and a task of its own adds     *)
(* what it counted to one file that all replicas share, which it reads,    *)
(* empties and writes.  The counts of one skill stand for all.             *)
(***************************************************************************)
EXTENDS Naturals, FiniteSetsExt

CONSTANTS Replicas, Torn, MaxIssued

UsageAssumption ==
  MaxIssued \in Nat /\ Torn \notin 0..MaxIssued /\ IsFiniteSet(Replicas)

VARIABLES
  counter,   \* UsageCounter of each replica
  flush,     \* flush_usage_counts_periodically of each replica
  counts,    \* usage_counts.json
  issued,    \* tokens issued so far
  disturbed  \* two flushes have overlapped, or a restart has cut off a count

vars == <<counter, flush, counts, issued, disturbed>>

Flush == [pc : {"wait", "read", "open", "write", "dead"}, delta : 0..MaxIssued, base : 0..MaxIssued]

Waiting == [pc |-> "wait", delta |-> 0, base |-> 0]

Init ==
  /\ counter = [r \in Replicas |-> 0]
  /\ flush = [r \in Replicas |-> Waiting]
  /\ counts = 0 /\ issued = 0 /\ disturbed = FALSE

-----------------------------------------------------------------------------
At(r, label) == flush[r].pc = label

Flushing(r) == flush[r].pc \notin {"wait", "dead"}

\* create_artifact_token.
Record(r) ==
  /\ issued < MaxIssued
  /\ issued' = issued + 1
  /\ counter' = [counter EXCEPT ![r] = @ + 1]
  /\ UNCHANGED <<flush, counts, disturbed>>

\* Variant: the counter is read and not cleared.
DrainAndKeep(r) ==
  /\ At(r, "wait") /\ counter[r] > 0
  /\ flush' = [flush EXCEPT ![r] = [pc |-> "read", delta |-> counter[r], base |-> 0]]
  /\ disturbed' = (disturbed \/ \E q \in Replicas \ {r} : Flushing(q))
  /\ UNCHANGED <<counter, counts, issued>>

\* drain, under its lock; an interval without downloads writes nothing.
Drain(r) ==
  /\ At(r, "wait") /\ counter[r] > 0
  /\ counter' = [counter EXCEPT ![r] = 0]
  /\ flush' = [flush EXCEPT ![r] = [pc |-> "read", delta |-> counter[r], base |-> 0]]
  /\ disturbed' = (disturbed \/ \E q \in Replicas \ {r} : Flushing(q))
  /\ UNCHANGED <<counts, issued>>

\* read_usage_counts: a file that does not parse ends the task, and what it had
\* drained goes with it.
ReadCounts(r) ==
  /\ At(r, "read")
  /\ \/ /\ counts = Torn
        /\ flush' = [flush EXCEPT ![r] = [Waiting EXCEPT !.pc = "dead"]]
     \/ /\ counts # Torn
        /\ flush' = [flush EXCEPT ![r] = [@ EXCEPT !.pc = "open", !.base = counts]]
  /\ UNCHANGED <<counter, counts, issued, disturbed>>

OpenCounts(r) ==
  /\ At(r, "open")
  /\ counts' = Torn
  /\ flush' = [flush EXCEPT ![r].pc = "write"]
  /\ UNCHANGED <<counter, issued, disturbed>>

WriteCounts(r) ==
  LET sum == flush[r].base + flush[r].delta IN
  /\ At(r, "write")
  /\ counts' \in IF disturbed THEN {counts, sum, Torn} ELSE {sum}
  /\ flush' = [flush EXCEPT ![r] = Waiting]
  /\ UNCHANGED <<counter, issued, disturbed>>

\* The lifespan stops the task without a last flush; a crash does not even wait
\* for the one under way.
Restart(r) ==
  /\ disturbed' = (disturbed \/ counter[r] > 0 \/ flush[r] # Waiting)
  /\ counter' = [counter EXCEPT ![r] = 0]
  /\ flush' = [flush EXCEPT ![r] = Waiting]
  /\ UNCHANGED <<counts, issued>>

FlushStep(r) == Drain(r) \/ ReadCounts(r) \/ OpenCounts(r) \/ WriteCounts(r)

Next == \E r \in Replicas : Record(r) \/ FlushStep(r) \/ Restart(r)

Spec == Init /\ [][Next]_vars

-----------------------------------------------------------------------------
TypeOK ==
  /\ counter \in [Replicas -> 0..MaxIssued]
  /\ flush \in [Replicas -> Flush]
  /\ counts \in 0..MaxIssued \union {Torn}
  /\ issued \in 0..MaxIssued /\ disturbed \in BOOLEAN

\* What the replicas counted and have not written yet.
InMemory == MapThenSumSet(LAMBDA r : counter[r] + flush[r].delta, Replicas)

\* The file never says more than was downloaded, however flushes overlap and
\* replicas restart (drain's "accumulate correctly rather than double-counting").
\* As long as neither happened it says, with what is in memory, exactly how much
\* was, and no replica has stopped counting.
UsageIsHonest ==
  /\ counts # Torn => counts + InMemory <= issued
  /\ ~disturbed =>
       /\ \A r \in Replicas : ~At(r, "dead")
       /\ \/ counts # Torn /\ counts + InMemory = issued
          \/ counts = Torn /\ \E r \in Replicas : At(r, "write") /\ flush[r].base + InMemory = issued
=============================================================================
