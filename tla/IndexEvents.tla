----------------------------- MODULE IndexEvents -----------------------------
(***************************************************************************)
(* Index updates as events: publish_skill announces a release on a bus     *)
(* (index/events.py), and the consumer of a replica drains the bus and     *)
(* puts each release into its index (index/consumer.py), trying again when *)
(* the store does not answer, and setting the event aside in the end.      *)
(*                                                                         *)
(* The bus is pluggable.  The one there is, InMemoryEventBus, lives in a   *)
(* process; one that delivers an event twice is why applying one again is  *)
(* a no-op.  What drains the bus takes all of it, so an event reaches one  *)
(* replica.                                                                *)
(***************************************************************************)
EXTENDS Naturals, SequencesExt

CONSTANTS
  Replicas, Releases,
  MaxRetries,      \* IndexEventConsumer's max_retries
  MaxRedeliveries  \* bound on events delivered twice

IndexEventsAssumption == MaxRetries \in Nat \ {0} /\ MaxRedeliveries \in Nat

VARIABLES
  bus,          \* events pending, each the release it announces
  announced,    \* every release ever announced
  batch,        \* what each consumer drained and has not dealt with
  failures,     \* failed attempts at the first event of the batch
  applied,      \* _applied_event_ids of each consumer
  dead,         \* dead_letters of each consumer
  entries,      \* the releases in each replica's index
  redelivered

vars == <<bus, announced, batch, failures, applied, dead, entries, redelivered>>

Init ==
  /\ bus = <<>> /\ announced = {}
  /\ batch = [r \in Replicas |-> <<>>] /\ failures = [r \in Replicas |-> 0]
  /\ applied = [r \in Replicas |-> {}] /\ dead = [r \in Replicas |-> {}]
  /\ entries = [r \in Replicas |-> {}]
  /\ redelivered = 0

-----------------------------------------------------------------------------
\* EventBus.publish.
Announce(v) ==
  /\ bus' = Append(bus, v)
  /\ announced' = announced \union {v}
  /\ UNCHANGED <<batch, failures, applied, dead, entries, redelivered>>

Redeliver(v) ==
  /\ v \in announced /\ redelivered < MaxRedeliveries
  /\ redelivered' = redelivered + 1
  /\ bus' = Append(bus, v)
  /\ UNCHANGED <<announced, batch, failures, applied, dead, entries>>

\* consume_all, at the head of consume_from.
Consume(r) ==
  /\ batch[r] = <<>> /\ bus # <<>>
  /\ batch' = [batch EXCEPT ![r] = bus]
  /\ bus' = <<>>
  /\ UNCHANGED <<announced, failures, applied, dead, entries, redelivered>>

Taken(r) ==
  /\ batch' = [batch EXCEPT ![r] = Tail(@)]
  /\ failures' = [failures EXCEPT ![r] = 0]

\* An event whose id was applied is passed over.
Skip(r) ==
  /\ batch[r] # <<>> /\ Head(batch[r]) \in applied[r]
  /\ Taken(r)
  /\ UNCHANGED <<bus, announced, applied, dead, entries, redelivered>>

\* The store answers: the release is put, and its event remembered.
Apply(r) ==
  LET v == Head(batch[r]) IN
  /\ batch[r] # <<>> /\ v \notin applied[r]
  /\ entries' = [entries EXCEPT ![r] = @ \union {v}]
  /\ applied' = [applied EXCEPT ![r] = @ \union {v}]
  /\ Taken(r)
  /\ UNCHANGED <<bus, announced, dead, redelivered>>

\* Variant: the last attempt that fails is remembered as if it had not.
FailAndRemember(r) ==
  LET v == Head(batch[r]) IN
  /\ batch[r] # <<>> /\ v \notin applied[r]
  /\ \/ /\ failures[r] + 1 < MaxRetries
        /\ failures' = [failures EXCEPT ![r] = @ + 1]
        /\ UNCHANGED <<batch, applied>>
     \/ /\ failures[r] + 1 = MaxRetries
        /\ applied' = [applied EXCEPT ![r] = @ \union {v}]
        /\ Taken(r)
  /\ UNCHANGED <<bus, announced, dead, entries, redelivered>>

\* Variant: one attempt more than max_retries.
FailOnceMore(r) ==
  LET v == Head(batch[r]) IN
  /\ batch[r] # <<>> /\ v \notin applied[r]
  /\ \/ /\ failures[r] < MaxRetries
        /\ failures' = [failures EXCEPT ![r] = @ + 1]
        /\ UNCHANGED <<batch, dead>>
     \/ /\ failures[r] = MaxRetries
        /\ dead' = [dead EXCEPT ![r] = @ \union {v}]
        /\ Taken(r)
  /\ UNCHANGED <<bus, announced, applied, entries, redelivered>>

\* A read raises: after the last attempt the event becomes a dead letter.
Fail(r) ==
  LET v == Head(batch[r]) IN
  /\ batch[r] # <<>> /\ v \notin applied[r]
  /\ \/ /\ failures[r] + 1 < MaxRetries
        /\ failures' = [failures EXCEPT ![r] = @ + 1]
        /\ UNCHANGED <<batch, dead>>
     \/ /\ failures[r] + 1 = MaxRetries
        /\ dead' = [dead EXCEPT ![r] = @ \union {v}]
        /\ Taken(r)
  /\ UNCHANGED <<bus, announced, applied, entries, redelivered>>

\* index.put by a route or by reconciliation, which knows nothing of events.
Put(r, v) ==
  /\ v \notin entries[r]
  /\ entries' = [entries EXCEPT ![r] = @ \union {v}]
  /\ UNCHANGED <<bus, announced, batch, failures, applied, dead, redelivered>>

\* A replica that starts again reads every tag (bootstrap_index) and has
\* forgotten the rest.  A bus in the memory of its process (InMemoryEventBus)
\* goes with it, one outside stays.
Bootstrap(r, tags) ==
  /\ bus' \in {bus, <<>>}
  /\ entries' = [entries EXCEPT ![r] = tags]
  /\ batch' = [batch EXCEPT ![r] = <<>>]
  /\ failures' = [failures EXCEPT ![r] = 0]
  /\ applied' = [applied EXCEPT ![r] = {}]
  /\ dead' = [dead EXCEPT ![r] = {}]
  /\ UNCHANGED <<announced, redelivered>>

ConsumerStep(r) == Consume(r) \/ Skip(r) \/ Apply(r)

\* What was announced has its tag, and tags stay.
Next ==
  \/ \E v \in Releases : Announce(v) \/ Redeliver(v)
  \/ \E r \in Replicas : ConsumerStep(r) \/ Fail(r)
  \/ \E r \in Replicas, v \in Releases : Put(r, v)
  \/ \E r \in Replicas, tags \in {ts \in SUBSET Releases : announced \subseteq ts} :
       Bootstrap(r, tags)

Spec == Init /\ [][Next]_vars

-----------------------------------------------------------------------------
TypeOK ==
  /\ ToSet(bus) \subseteq Releases /\ announced \subseteq Releases
  /\ \A r \in Replicas : ToSet(batch[r]) \subseteq Releases
  /\ failures \in [Replicas -> 0..(MaxRetries - 1)]
  /\ applied \in [Replicas -> SUBSET Releases] /\ dead \in [Replicas -> SUBSET Releases]
  /\ entries \in [Replicas -> SUBSET Releases]
  /\ redelivered \in 0..MaxRedeliveries

\* No announcement is lost: it is on the bus, in a consumer's hands, in an index
\* or among the dead letters, through retries, second deliveries and restarts;
\* and a consumer never passes over a release that its index lacks.
EventsAreAccounted ==
  /\ \A v \in announced :
       \/ v \in ToSet(bus)
       \/ \E r \in Replicas : v \in ToSet(batch[r]) \union entries[r] \union dead[r]
  /\ \A r \in Replicas : applied[r] \subseteq entries[r]
=============================================================================
