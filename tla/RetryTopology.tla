--------------------------- MODULE RetryTopology ---------------------------
(***************************************************************************)
(* What the shared consumer helper does with one published event, from the *)
(* fan-out of the topic exchange to the last ack, retry or dead letter.    *)
(*                                                                         *)
(* Every consumer of a routing key has a main, a retry and a dead-letter   *)
(* queue.  All retry queues are bound to the retry exchange, all dead-     *)
(* letter queues to the dead-letter exchange, and all of them with the     *)
(* routing key of the event, so each of the three exchanges copies a       *)
(* message to every consumer, not only to the one it came from.            *)
(*                                                                         *)
(* Module Checkout only counts the throws of all handlers, and once they   *)
(* are enough for one copy to have been retried MaxRetries times, it may   *)
(* give up any; this module is about when the helper does.                 *)
(***************************************************************************)
EXTENDS Integers, Sequences, FiniteSets

CONSTANTS
  Consumers,    \* services that consume the event
  MaxRetries,   \* maxRetries of the helper; every caller leaves it at 3
  Poisoned,     \* consumers whose handler throws on every attempt
  MaxTransient  \* bound: throws of the other handlers in one behaviour

NoQueue == "none"   \* the message has not been through a retry queue

ASSUME ConsumersAssumption == NoQueue \notin Consumers
ASSUME FiniteAssumption == IsFiniteSet(Consumers)
ASSUME RetriesAssumption == MaxRetries \in Nat \ {0}
ASSUME PoisonedAssumption == Poisoned \subseteq Consumers
ASSUME TransientAssumption == MaxTransient \in Nat

VARIABLES
  copies,       \* copies of the event in main and retry queues
  handled,      \* consumers that handled it successfully at least once
  deadLettered, \* consumers whose dead-letter queue holds it
  transient     \* throws of handlers that are not poisoned

vars == <<copies, handled, deadLettered, transient>>

(* A copy: the consumer whose queue it is in, and which of its queues; its *)
(* x-death header, as the entry at the head (via, a retry queue) and the   *)
(* count of every retry queue's entry (expiries); and the handlers that    *)
(* threw on the way, each with the retry queue that was followed, which    *)
(* tells two copies with the same header apart.                            *)
Copy == [queue : Consumers,
         place : {"main", "retry"},
         via : Consumers \cup {NoQueue},
         expiries : [Consumers -> Nat],
         trail : Seq(Consumers \X Consumers)]

Original(c) ==
  [queue |-> c, place |-> "main", via |-> NoQueue,
   expiries |-> [d \in Consumers |-> 0], trail |-> <<>>]

\* RabbitMqPublisher.publish: one copy in the main queue of every consumer.
Init ==
  /\ copies = {Original(c) : c \in Consumers}
  /\ handled = {}
  /\ deadLettered = {}
  /\ transient = 0

\* Mutant: the count of the consumer's own retry queue, not of the last one.
OwnRetryCount(m) == m.expiries[m.queue]

\* Mutant: the attempt in progress is counted too.
RetryCountWithThis(m) ==
  IF m.via = NoQueue THEN 1 ELSE m.expiries[m.via] + 1

\* Mutant: retryCount > maxRetries.
RetryCountStrict(m) == IF m.via = NoQueue THEN 0 ELSE m.expiries[m.via] - 1

\* deathHeader?.[0]?.count ?? 0
RetryCount(m) == IF m.via = NoQueue THEN 0 ELSE m.expiries[m.via]

\* Mutant: the ack is missing.
HandleWithoutAck(m) ==
  /\ m.place = "main"
  /\ m.queue \notin Poisoned
  /\ handled' = handled \cup {m.queue}
  /\ UNCHANGED <<copies, deadLettered, transient>>

\* handleEvent resolves and the message is acknowledged.
Handle(m) ==
  /\ m.place = "main"
  /\ m.queue \notin Poisoned
  /\ handled' = handled \cup {m.queue}
  /\ copies' = copies \ {m}
  /\ UNCHANGED <<deadLettered, transient>>

\* handleEvent resolves and the process dies before the ack: the broker gives
\* the message, unchanged, to the next consumer of the queue.
HandleAndCrash(m) ==
  /\ m.place = "main"
  /\ m.queue \notin Poisoned
  /\ handled' = handled \cup {m.queue}
  /\ UNCHANGED <<copies, deadLettered, transient>>

\* handleEvent throws.
Throws(m) ==
  /\ m.place = "main"
  /\ \/ m.queue \in Poisoned /\ UNCHANGED transient
     \/ /\ m.queue \notin Poisoned
        /\ transient < MaxTransient
        /\ transient' = transient + 1

\* Mutant: the main queue's dead-letter exchange is that of the dead letters.
NackedForGood(m, d) ==
  [queue |-> d, place |-> "dead", via |-> m.via, expiries |-> m.expiries,
   trail |-> Append(m.trail, <<m.queue, d>>)]

\* What m looks like in the retry queue of d.
Nacked(m, d) ==
  [queue |-> d, place |-> "retry", via |-> m.via, expiries |-> m.expiries,
   trail |-> Append(m.trail, <<m.queue, d>>)]

\* nack without requeue: through the retry exchange to every retry queue.
Retry(m) ==
  /\ Throws(m)
  /\ RetryCount(m) < MaxRetries
  /\ copies' = (copies \ {m}) \cup {Nacked(m, d) : d \in Consumers}
  /\ UNCHANGED <<handled, deadLettered>>

\* Too many retries: through the dead-letter exchange to every dead-letter
\* queue, and an ack in the same synchronous stretch of code.
DeadLetter(m) ==
  /\ Throws(m)
  /\ RetryCount(m) >= MaxRetries
  /\ deadLettered' = Consumers
  /\ copies' = copies \ {m}
  /\ UNCHANGED handled

\* What m looks like back in the main queue of c: the broker adds one to the
\* count of the retry queue it was in and puts that entry at the head.
Returned(m, c) ==
  [queue |-> c, place |-> "main", via |-> m.queue,
   expiries |-> [m.expiries EXCEPT ![m.queue] = @ + 1], trail |-> m.trail]

\* Mutant: the retry queue has no dead-letter exchange of its own.
ExpireIntoNothing(m) ==
  /\ m.place = "retry"
  /\ copies' = copies \ {m}
  /\ UNCHANGED <<handled, deadLettered, transient>>

\* messageTtl of the retry queue: through the main exchange to every main queue.
Expire(m) ==
  /\ m.place = "retry"
  /\ copies' = (copies \ {m}) \cup {Returned(m, c) : c \in Consumers}
  /\ UNCHANGED <<handled, deadLettered, transient>>

Deliver(m) == Handle(m) \/ Retry(m) \/ DeadLetter(m)

Next == \E m \in copies : Deliver(m) \/ HandleAndCrash(m) \/ Expire(m)

Spec == Init /\ [][Next]_vars

\* The broker delivers, the handler ends, the TTL runs out; nobody owes a crash.
FairSpec == Spec /\ WF_vars(\E m \in copies : Deliver(m) \/ Expire(m))

-----------------------------------------------------------------------------
(* Properties.                                                             *)

TypeOK ==
  /\ copies \in SUBSET Copy
  /\ handled \in SUBSET Consumers
  /\ deadLettered \in SUBSET Consumers
  /\ transient \in 0..MaxTransient

\* The helper reads only the head of x-death.  That is enough to end every
\* line of retries: no retry queue's entry passes maxRetries, and every entry
\* but the head's is below it, so the count of ONE of them reaches the limit
\* at last, though copies wander between the queues of all consumers.
HeaderBounded ==
  \A m \in copies, d \in Consumers :
    /\ m.expiries[d] <= MaxRetries
    /\ m.expiries[d] = MaxRetries => m.place = "main" /\ m.via = d

\* How long a line of retries can get: each retry queue but one can be passed
\* through one time less than maxRetries, and one of them maxRetries times.
TrailBounded ==
  \A m \in copies :
    Len(m.trail) <= Cardinality(Consumers) * (MaxRetries - 1) + 1

\* An event is never lost to a consumer: as long as it has neither handled it
\* nor finds it in its dead-letter queue there is a copy that will come (back)
\* to its main queue.
NotLost ==
  \A c \in Consumers :
    \/ c \in handled \cup deadLettered
    \/ \E m \in copies : m.place = "retry" \/ m.queue = c

\* Nothing is given up early: a message is dead-lettered only by a consumer
\* that has it after at least maxRetries retries.
GivenUpLate ==
  [][deadLettered' # deadLettered =>
       \E m \in copies \ copies' : Len(m.trail) >= MaxRetries]_vars

\* Every event comes to rest: no copy is delivered or retried for ever, not
\* even if a handler throws every time.
ComesToRest == <>[](copies = {})
=============================================================================
