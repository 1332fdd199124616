------------------------ MODULE RetryTopologyProofs ------------------------
(***************************************************************************)
(* The retry header is bounded, no event is lost to a consumer, no line of *)
(* retries is longer than its bound, and none is given up before           *)
(* maxRetries, for any number of consumers and any maxRetries.             *)
(***************************************************************************)
EXTENDS RetryTopology, FiniteSetTheorems, TLAPS

IInv == TypeOK /\ HeaderBounded /\ NotLost

\* A message without x-death has been in no retry queue; so the head's count is
\* at most maxRetries, and below it in whatever is nacked.
LEMMA NackedBelow ==
  ASSUME NEW m \in Copy, m.place = "main", RetryCount(m) < MaxRetries,
         \A d \in Consumers : /\ m.expiries[d] <= MaxRetries
                              /\ m.expiries[d] = MaxRetries => m.via = d
  PROVE  \A d \in Consumers : m.expiries[d] < MaxRetries
<1> SUFFICES ASSUME NEW d \in Consumers PROVE m.expiries[d] < MaxRetries
  OBVIOUS
<1>1. m.expiries[d] \in Nat /\ MaxRetries \in Nat
  BY RetriesAssumption DEF Copy
<1>2. CASE m.expiries[d] = MaxRetries
  <2>1. m.via = d /\ m.via # NoQueue
    BY <1>2, ConsumersAssumption
  <2> QED BY <1>2, <2>1 DEF RetryCount
<1> QED BY <1>1, <1>2

LEMMA InitIInv == Init => IInv
<1> SUFFICES ASSUME Init PROVE IInv
  OBVIOUS
<1>1. \A c \in Consumers : Original(c) \in Copy
  BY DEF Original, Copy
<1>2. TypeOK
  BY <1>1, TransientAssumption DEF Init, TypeOK
<1>3. HeaderBounded
  BY RetriesAssumption DEF Init, HeaderBounded, Original
<1>4. NotLost
  <2>1. \A c \in Consumers : Original(c) \in copies /\ Original(c).queue = c
    BY DEF Init, Original
  <2> QED BY <2>1 DEF NotLost
<1> QED BY <1>2, <1>3, <1>4 DEF IInv

\* One consumer's copy is gone and it has handled the event.
LEMMA HandleStep ==
  ASSUME IInv, NEW m \in copies, Handle(m) \/ HandleAndCrash(m)
  PROVE  IInv'
<1>1. m \in Copy /\ copies' \subseteq copies
  BY DEF IInv, TypeOK, Handle, HandleAndCrash
<1>2. TypeOK'
  BY <1>1 DEF IInv, TypeOK, Handle, HandleAndCrash, Copy
<1>3. HeaderBounded'
  BY <1>1 DEF IInv, HeaderBounded
<1>4. NotLost'
  BY DEF IInv, NotLost, Handle, HandleAndCrash
<1> QED BY <1>2, <1>3, <1>4 DEF IInv

LEMMA ThrowsBound ==
  ASSUME TypeOK, NEW m \in copies, Throws(m)
  PROVE  transient' \in 0..MaxTransient
BY TransientAssumption DEF TypeOK, Throws

LEMMA RetryStep ==
  ASSUME IInv, NEW m \in copies, Retry(m)
  PROVE  IInv'
<1> DEFINE nacked(d) == Nacked(m, d)
<1>1. m \in Copy /\ m.place = "main"
  BY DEF IInv, TypeOK, Retry, Throws
<1>2. copies' = (copies \ {m}) \cup {nacked(d) : d \in Consumers}
  BY DEF Retry
<1>3. \A d \in Consumers :
        /\ nacked(d) \in Copy
        /\ nacked(d).place = "retry"
        /\ nacked(d).expiries = m.expiries
  <2> SUFFICES ASSUME NEW d \in Consumers
               PROVE  /\ nacked(d) \in Copy
                      /\ nacked(d).place = "retry"
                      /\ nacked(d).expiries = m.expiries
    OBVIOUS
  <2>1. Append(m.trail, <<m.queue, d>>) \in Seq(Consumers \X Consumers)
    <3>1. m.trail \in Seq(Consumers \X Consumers) /\ m.queue \in Consumers
      BY <1>1 DEF Copy
    <3> QED BY <3>1
  <2> QED BY <1>1, <2>1 DEF Copy, Nacked
<1> HIDE DEF nacked
<1>4. TypeOK'
  BY <1>2, <1>3, ThrowsBound DEF IInv, TypeOK, Retry
<1>5. \A d \in Consumers : m.expiries[d] < MaxRetries
  BY <1>1, NackedBelow DEF IInv, HeaderBounded, Retry
<1>6. HeaderBounded'
  <2> SUFFICES ASSUME NEW k \in copies', NEW d \in Consumers
               PROVE  /\ k.expiries[d] <= MaxRetries
                      /\ k.expiries[d] = MaxRetries => k.place = "main" /\ k.via = d
    BY DEF HeaderBounded
  <2>1. CASE k \in copies
    BY <2>1 DEF IInv, HeaderBounded
  <2>2. CASE k \in {nacked(c) : c \in Consumers}
    <3>1. k.expiries[d] = m.expiries[d] /\ m.expiries[d] \in Nat
      BY <1>1, <1>3, <2>2 DEF Copy
    <3> QED BY <1>5, <3>1, RetriesAssumption
  <2> QED BY <1>2, <2>1, <2>2
<1>7. NotLost'
  BY <1>2, <1>3 DEF NotLost
<1> QED BY <1>4, <1>6, <1>7 DEF IInv

LEMMA DeadLetterStep ==
  ASSUME IInv, NEW m \in copies, DeadLetter(m)
  PROVE  IInv'
<1>1. TypeOK'
  BY ThrowsBound DEF IInv, TypeOK, DeadLetter
<1>2. HeaderBounded' /\ NotLost'
  BY DEF IInv, HeaderBounded, NotLost, DeadLetter
<1> QED BY <1>1, <1>2 DEF IInv

LEMMA ExpireStep ==
  ASSUME IInv, NEW m \in copies, Expire(m)
  PROVE  IInv'
<1> DEFINE back(c) == Returned(m, c)
<1>1. m \in Copy /\ m.place = "retry" /\ m.queue \in Consumers
  BY DEF IInv, TypeOK, Expire, Copy
<1>2. copies' = (copies \ {m}) \cup {back(c) : c \in Consumers}
  BY DEF Expire
<1>3. \A c \in Consumers :
        /\ back(c) \in Copy
        /\ back(c).queue = c /\ back(c).place = "main" /\ back(c).via = m.queue
        /\ \A d \in Consumers : back(c).expiries[d] =
             IF d = m.queue THEN m.expiries[d] + 1 ELSE m.expiries[d]
  <2> DEFINE counted == [m.expiries EXCEPT ![m.queue] = @ + 1]
  <2>1. /\ counted \in [Consumers -> Nat]
        /\ \A d \in Consumers : counted[d] =
             IF d = m.queue THEN m.expiries[d] + 1 ELSE m.expiries[d]
    BY <1>1 DEF Copy
  <2>2. m.trail \in Seq(Consumers \X Consumers)
    BY <1>1 DEF Copy
  <2>3. \A c \in Consumers :
          back(c) = [queue |-> c, place |-> "main", via |-> m.queue,
                     expiries |-> counted, trail |-> m.trail]
    BY DEF Returned
  <2> HIDE DEF back, counted
  <2> QED BY <1>1, <2>1, <2>2, <2>3 DEF Copy
<1> HIDE DEF back
<1>4. TypeOK'
  <2>1. copies' \subseteq Copy
    BY <1>2, <1>3 DEF IInv, TypeOK
  <2> QED BY <2>1 DEF IInv, TypeOK, Expire
<1>5. \A d \in Consumers : m.expiries[d] \in Nat /\ m.expiries[d] < MaxRetries
  BY <1>1, RetriesAssumption DEF IInv, HeaderBounded, Copy
<1>6. HeaderBounded'
  <2> SUFFICES ASSUME NEW k \in copies', NEW d \in Consumers
               PROVE  /\ k.expiries[d] <= MaxRetries
                      /\ k.expiries[d] = MaxRetries => k.place = "main" /\ k.via = d
    BY DEF HeaderBounded
  <2>1. CASE k \in copies
    BY <2>1 DEF IInv, HeaderBounded
  <2>2. CASE k \in {back(c) : c \in Consumers}
    BY <1>3, <1>5, <2>2, RetriesAssumption
  <2> QED BY <1>2, <2>1, <2>2
<1>7. NotLost'
  BY <1>2, <1>3 DEF NotLost
<1> QED BY <1>4, <1>6, <1>7 DEF IInv

LEMMA NextIInv == IInv /\ [Next]_vars => IInv'
<1> SUFFICES ASSUME IInv, [Next]_vars PROVE IInv'
  OBVIOUS
<1>1. CASE Next
  <2>1. PICK m \in copies : Deliver(m) \/ HandleAndCrash(m) \/ Expire(m)
    BY <1>1 DEF Next
  <2> QED BY <2>1, HandleStep, RetryStep, DeadLetterStep, ExpireStep DEF Deliver
<1>2. CASE UNCHANGED vars
  BY <1>2 DEF vars, IInv, TypeOK, HeaderBounded, NotLost
<1> QED BY <1>1, <1>2

\* No count in the x-death header passes maxRetries, and the one that reaches it
\* is the one the helper reads: every line of retries ends, for any number of
\* consumers.  The invariant is inductive together with TypeOK.
THEOREM HeaderStaysBounded == Spec => []HeaderBounded
<1>1. IInv => HeaderBounded
  BY DEF IInv
<1> QED BY <1>1, InitIInv, NextIInv, PTL DEF Spec

\* Every consumer has handled the event, has it dead-lettered or will see it
\* again, whatever the other consumers do with their copies.
THEOREM NeverLost == Spec => []NotLost
<1>1. IInv => NotLost
  BY DEF IInv
<1> QED BY <1>1, InitIInv, NextIInv, PTL DEF Spec

\* Copies and their headers stay what the broker and the helper make them.
THEOREM TypesHold == Spec => []TypeOK
<1>1. IInv => TypeOK
  BY DEF IInv
<1> QED BY <1>1, InitIInv, NextIInv, PTL DEF Spec

-----------------------------------------------------------------------------
(* How long a line of retries gets.  A handler that threw is one element   *)
(* of the trail; an expiry is one count in the header.  The counts of all  *)
(* retry queues add up to the trail, and a sum over the consumers is the   *)
(* size of a set of pairs: the first, second, ... time through queue d.    *)

Passed(m) == {p \in Consumers \X (1..MaxRetries) : p[2] <= m.expiries[p[1]]}

\* A copy in a retry queue has thrown once more than it has come back.
Pending(m) == IF m.place = "retry" THEN 1 ELSE 0

TrailCounted ==
  \A m \in copies : Len(m.trail) = Cardinality(Passed(m)) + Pending(m)

\* Every count alone is at most the trail, too.
TrailCovers ==
  \A m \in copies, d \in Consumers : m.expiries[d] + Pending(m) <= Len(m.trail)

TrailInv == TrailCounted /\ TrailCovers

LEMMA PassedFinite ==
  ASSUME NEW m
  PROVE  IsFiniteSet(Passed(m)) /\ Cardinality(Passed(m)) \in Nat
<1>1. IsFiniteSet(1..MaxRetries)
  BY RetriesAssumption, FS_Interval
<1>2. IsFiniteSet(Consumers \X (1..MaxRetries))
  BY <1>1, FiniteAssumption, FS_Product
<1>3. Passed(m) \subseteq Consumers \X (1..MaxRetries)
  BY DEF Passed
<1>4. IsFiniteSet(Passed(m))
  BY <1>2, <1>3, FS_Subset
<1> QED BY <1>4, FS_CardinalityType

LEMMA InitTrail == Init => TrailInv
<1> SUFFICES ASSUME Init, NEW c \in Consumers, NEW d \in Consumers
             PROVE  /\ Len(Original(c).trail) =
                         Cardinality(Passed(Original(c))) + Pending(Original(c))
                    /\ Original(c).expiries[d] + Pending(Original(c))
                         <= Len(Original(c).trail)
  BY DEF Init, TrailInv, TrailCounted, TrailCovers
<1>1. Passed(Original(c)) = {}
  BY DEF Passed, Original
<1>2. Cardinality(Passed(Original(c))) = 0
  BY <1>1, FS_EmptySet
<1>3. Len(Original(c).trail) = 0 /\ Pending(Original(c)) = 0
      /\ Original(c).expiries[d] = 0
  BY DEF Original, Pending
<1> QED BY <1>2, <1>3

\* One more handler threw, the header is as it was.
LEMMA RetryTrail ==
  ASSUME IInv, TrailInv, NEW m \in copies, Retry(m)
  PROVE  TrailInv'
<1> DEFINE nacked(d) == Nacked(m, d)
<1>1. m \in Copy /\ m.place = "main"
  BY DEF IInv, TypeOK, Retry, Throws
<1>2. copies' = (copies \ {m}) \cup {nacked(d) : d \in Consumers}
  BY DEF Retry
<1>3. \A d \in Consumers : /\ Len(nacked(d).trail) = Len(m.trail) + 1
                           /\ nacked(d).expiries = m.expiries
                           /\ Pending(nacked(d)) = 1
  <2> SUFFICES ASSUME NEW d \in Consumers
               PROVE  /\ Len(nacked(d).trail) = Len(m.trail) + 1
                      /\ nacked(d).expiries = m.expiries
                      /\ Pending(nacked(d)) = 1
    OBVIOUS
  <2>1. m.trail \in Seq(Consumers \X Consumers) /\ m.queue \in Consumers
    BY <1>1 DEF Copy
  <2>2. Len(Append(m.trail, <<m.queue, d>>)) = Len(m.trail) + 1
    BY <2>1
  <2> QED BY <2>2 DEF Nacked, Pending
<1>4. \A d \in Consumers : Passed(nacked(d)) = Passed(m)
  BY <1>3 DEF Passed
<1> HIDE DEF nacked
<1>5. Pending(m) = 0 /\ Cardinality(Passed(m)) \in Nat
  BY <1>1, PassedFinite DEF Pending
<1>6. TrailCounted'
  BY <1>2, <1>3, <1>4, <1>5 DEF TrailInv, TrailCounted
<1>7. TrailCovers'
  <2>1. Len(m.trail) \in Nat /\ \A d \in Consumers : m.expiries[d] \in Nat
    BY <1>1 DEF Copy
  <2> QED BY <1>2, <1>3, <1>5, <2>1 DEF TrailInv, TrailCovers
<1> QED BY <1>6, <1>7 DEF TrailInv

\* One more expiry is counted, the trail is as it was.
LEMMA ExpireTrail ==
  ASSUME IInv, TrailInv, NEW m \in copies, Expire(m)
  PROVE  TrailInv'
<1> DEFINE back(c) == Returned(m, c)
           count == m.expiries[m.queue] + 1
<1>1. m \in Copy /\ m.place = "retry" /\ m.queue \in Consumers
  BY DEF IInv, TypeOK, Expire, Copy
<1>2. copies' = (copies \ {m}) \cup {back(c) : c \in Consumers}
  BY DEF Expire
<1>3. m.expiries \in [Consumers -> Nat] /\ m.trail \in Seq(Consumers \X Consumers)
  BY <1>1 DEF Copy
<1>4. \A c \in Consumers :
        /\ back(c).trail = m.trail /\ Pending(back(c)) = 0
        /\ \A d \in Consumers : back(c).expiries[d] =
             IF d = m.queue THEN count ELSE m.expiries[d]
  BY <1>1, <1>3 DEF Returned, Pending
<1>5. count \in 1..MaxRetries
  BY <1>1, <1>3, RetriesAssumption DEF IInv, HeaderBounded
<1>6. ASSUME NEW c \in Consumers
      PROVE  Cardinality(Passed(back(c))) = Cardinality(Passed(m)) + 1
  <2>1. Passed(back(c)) = Passed(m) \cup {<<m.queue, count>>}
    <3>1. ASSUME NEW d \in Consumers, NEW i \in 1..MaxRetries
          PROVE  i <= back(c).expiries[d] <=>
                   i <= m.expiries[d] \/ (d = m.queue /\ i = count)
      BY <1>3, <1>4
    <3> QED BY <1>1, <1>5, <3>1 DEF Passed
  <2>2. <<m.queue, count>> \notin Passed(m)
    BY <1>1, <1>3 DEF Passed
  <2> QED BY <2>1, <2>2, PassedFinite, FS_AddElement
<1> HIDE DEF back, count
<1>7. Pending(m) = 1 /\ Cardinality(Passed(m)) \in Nat
  BY <1>1, PassedFinite DEF Pending
<1>8. Len(m.trail) = Cardinality(Passed(m)) + 1
  BY <1>7 DEF TrailInv, TrailCounted
<1>9. TrailCounted'
  BY <1>2, <1>4, <1>6, <1>7, <1>8 DEF TrailInv, TrailCounted
<1>10. TrailCovers'
  <2>1. \A d \in Consumers : m.expiries[d] \in Nat /\ m.expiries[d] + 1 <= Len(m.trail)
    BY <1>3, <1>7 DEF TrailInv, TrailCovers
  <2>2. ASSUME NEW c \in Consumers, NEW d \in Consumers
        PROVE  back(c).expiries[d] + Pending(back(c)) <= Len(m.trail)
    <3>1. Len(m.trail) \in Nat
      BY <1>3
    <3>2. count <= Len(m.trail)
      BY <1>1, <2>1 DEF count
    <3>3. Pending(back(c)) = 0 /\ back(c).expiries[d] \in {count, m.expiries[d]}
      BY <1>4
    <3> QED BY <1>5, <2>1, <3>1, <3>2, <3>3
  <2> QED BY <1>2, <1>4, <2>2 DEF TrailInv, TrailCovers
<1> QED BY <1>9, <1>10 DEF TrailInv

LEMMA NextTrail == IInv /\ TrailInv /\ [Next]_vars => TrailInv'
<1> SUFFICES ASSUME IInv, TrailInv, [Next]_vars PROVE TrailInv'
  OBVIOUS
<1>1. ASSUME copies' \subseteq copies PROVE TrailInv'
  BY <1>1 DEF TrailInv, TrailCounted, TrailCovers
<1>2. CASE Next
  <2>1. PICK m \in copies : Deliver(m) \/ HandleAndCrash(m) \/ Expire(m)
    BY <1>2 DEF Next
  <2>2. CASE Handle(m) \/ HandleAndCrash(m) \/ DeadLetter(m)
    BY <1>1, <2>2 DEF Handle, HandleAndCrash, DeadLetter
  <2> QED BY <2>1, <2>2, RetryTrail, ExpireTrail DEF Deliver
<1>3. CASE UNCHANGED vars
  BY <1>1, <1>3 DEF vars
<1> QED BY <1>2, <1>3

\* A set of at most one pair per consumer and number below the limit, and one
\* pair at the limit.
LEMMA PassedBound ==
  ASSUME IInv, NEW m \in copies
  PROVE  Cardinality(Passed(m)) + Pending(m)
           <= Cardinality(Consumers) * (MaxRetries - 1) + 1
<1> DEFINE below == Consumers \X (1..(MaxRetries - 1))
<1>1. m \in Copy /\ MaxRetries - 1 \in Nat /\ MaxRetries \in Nat
  BY RetriesAssumption DEF IInv, TypeOK
<1>2. IsFiniteSet(1..(MaxRetries - 1)) /\ Cardinality(1..(MaxRetries - 1)) = MaxRetries - 1
  BY <1>1, FS_Interval
<1>3. /\ IsFiniteSet(below)
      /\ Cardinality(below) = Cardinality(Consumers) * (MaxRetries - 1)
  BY <1>2, FiniteAssumption, FS_Product
<1>4. /\ \A d \in Consumers : m.expiries[d] \in Nat /\ m.expiries[d] <= MaxRetries
      /\ \A d \in Consumers : m.expiries[d] = MaxRetries => m.place = "main" /\ m.via = d
  BY <1>1 DEF IInv, HeaderBounded, Copy
<1>5. Cardinality(Passed(m)) \in Nat /\ Cardinality(below) \in Nat
  BY <1>3, PassedFinite, FS_CardinalityType
<1>6. CASE m.place = "retry"
  <2>1. Passed(m) \subseteq below
    BY <1>1, <1>4, <1>6 DEF Passed
  <2>2. Cardinality(Passed(m)) <= Cardinality(below)
    BY <1>3, <2>1, FS_Subset
  <2> QED BY <1>3, <1>5, <1>6, <2>2 DEF Pending
<1>7. CASE m.place # "retry"
  <2> DEFINE last == <<m.via, MaxRetries>>
  <2>1. Passed(m) \subseteq below \cup {last}
    BY <1>1, <1>4 DEF Passed
  <2> HIDE DEF below, last
  <2>2. IsFiniteSet(below \cup {last})
        /\ Cardinality(below \cup {last}) <= Cardinality(below) + 1
    BY <1>3, <1>5, FS_AddElement
  <2>3. Cardinality(Passed(m)) <= Cardinality(below \cup {last})
    BY <2>1, <2>2, FS_Subset
  <2>4. Cardinality(below \cup {last}) \in Nat
    BY <2>2, FS_CardinalityType
  <2> QED BY <1>3, <1>5, <1>7, <2>2, <2>3, <2>4 DEF Pending
<1> QED BY <1>6, <1>7

LEMMA TrailHolds == Spec => [](IInv /\ TrailInv)
BY InitIInv, NextIInv, InitTrail, NextTrail, PTL DEF Spec

\* A line of retries is never longer than the sum of what each retry queue can
\* count, though copies wander between the queues of all consumers: this is
\* what ends the retries of a message that every handler throws on.
THEOREM TrailStaysBounded == Spec => []TrailBounded
<1>1. IInv /\ TrailInv => TrailBounded
  BY PassedBound DEF TrailBounded, TrailInv, TrailCounted
<1> QED BY <1>1, TrailHolds, PTL

\* What is dead-lettered has been thrown at least maxRetries times before.
THEOREM NeverGivenUpEarly == Spec => GivenUpLate
<1> DEFINE Late == deadLettered' # deadLettered =>
                     \E m \in copies \ copies' : Len(m.trail) >= MaxRetries
<1>1. IInv /\ TrailInv /\ [Next]_vars => [Late]_vars
  <2> SUFFICES ASSUME IInv, TrailInv, Next, deadLettered' # deadLettered
               PROVE  \E m \in copies \ copies' : Len(m.trail) >= MaxRetries
    OBVIOUS
  <2>1. PICK m \in copies : Deliver(m) \/ HandleAndCrash(m) \/ Expire(m)
    BY DEF Next
  <2>2. DeadLetter(m)
    BY <2>1 DEF Deliver, Handle, HandleAndCrash, Retry, Expire
  <2>3. m \in Copy /\ MaxRetries \in Nat \ {0}
    BY RetriesAssumption DEF IInv, TypeOK
  <2>4. m.via \in Consumers /\ m.expiries[m.via] >= MaxRetries
    BY <2>2, <2>3 DEF DeadLetter, RetryCount, Copy
  <2>5. m.expiries[m.via] \in Nat /\ Pending(m) \in Nat /\ Len(m.trail) \in Nat
    BY <2>3, <2>4 DEF Copy, Pending
  <2>6. Len(m.trail) >= MaxRetries
    BY <2>3, <2>4, <2>5 DEF TrailInv, TrailCovers
  <2> QED BY <2>2, <2>6 DEF DeadLetter
<1> QED BY <1>1, TrailHolds, PTL DEF Spec, GivenUpLate
=============================================================================
