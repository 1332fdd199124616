------------------------- MODULE EventChannelProofs -------------------------
(***************************************************************************)
(* What the order save, publish, ack on one channel is worth: for any      *)
(* services, queues, events and requests, and any number of stops and      *)
(* crashes, the properties of EventChannel that TLC checks hold, but for   *)
(* the liveness property.                                                  *)
(*                                                                         *)
(* None of them is inductive alone.  What makes them so is where a frame   *)
(* stands in the buffer: behind an ack there is nothing left to lose,      *)
(* because the outcome was sent in front of it.                            *)
(***************************************************************************)
EXTENDS EventChannel, SequenceTheorems, FiniteSetTheorems, TLAPS

-----------------------------------------------------------------------------
(* The inductive invariant.                                                *)

\* A frame that s has sent and the broker has not received.
Sent(s, frame) == \E i \in 1..Len(wire[s]) : wire[s][i] = frame

\* An outcome of q's work for r is with the broker, or among the first n frames
\* on their way to it.
Announced(q, r, n) ==
  \E e \in Outcomes[q] :
    \/ <<e, r>> \in routed
    \/ \E i \in 1..n : wire[Owner[q]][i] = PublishFrame(e, r)

Running(q, r) == \E stage \in Stages : handlers[q][r][stage] > 0

\* Held, without the arithmetic.
WillReturn(q, r) ==
  \/ ready[q][r] > 0
  \/ /\ phase[Owner[q]] \in Connected
     /\ Running(q, r) \/ Sent(Owner[q], AckFrame(q, r))

\* A process that is down or has closed its channel has nothing under way, one
\* that is down runs no handler, only an open channel has consumers, and what a
\* handler still works on after the channel has closed is back in its queue.
AtRest ==
  \A q \in Queues :
    /\ phase[Owner[q]] \in {"down", "closed"} => wire[Owner[q]] = <<>>
    /\ q \in consuming => phase[Owner[q]] \in Open
    /\ \A r \in Requests : Running(q, r) =>
         /\ phase[Owner[q]] # "down"
         /\ phase[Owner[q]] = "closed" => ready[q][r] > 0

\* A handler past its first stage has saved its work, and one past its second
\* has announced it.
HandlersInOrder ==
  \A q \in Queues, r \in Requests :
    /\ handlers[q][r]["saved"] > 0 => r \in done[q]
    /\ handlers[q][r]["told"] > 0 =>
         r \in done[q] /\ Announced(q, r, Len(wire[Owner[q]]))

\* An ack on its way was sent after the work was saved, and behind the outcome
\* in the same buffer.
AcksInOrder ==
  \A q \in Queues, r \in Requests : \A i \in 1..Len(wire[Owner[q]]) :
    wire[Owner[q]][i] = AckFrame(q, r) =>
      r \in done[q] /\ (Outcomes[q] # {} => Announced(q, r, i))

\* An ack is sent by the owner of the queue.
AcksOfOwner ==
  \A s \in Services : \A i \in 1..Len(wire[s]) :
    wire[s][i].kind = "ack" => Owner[wire[s][i].on] = s

\* What was handed to the channel reached the broker, is under way, or was cut
\* off.
PublishedIsAnnounced ==
  \A r \in Requests : request[r] \in {"published", "created"} =>
    \/ <<Requested, r>> \in routed
    \/ Sent(HttpService, PublishFrame(Requested, r))
    \/ HttpService \in cut

\* A service that has been up has its queues, for ever.
StartedIsBound == \A q \in Queues : Owner[q] \in started => q \in bound

OwedReturns ==
  \A q \in Queues : \A r \in owed[q] : r \in done[q] \/ WillReturn(q, r)

DoneReturns ==
  \A q \in Queues : Outcomes[q] # {} =>
    \A r \in done[q] :
      WillReturn(q, r) \/ \E e \in Outcomes[q] : <<e, r>> \in routed

\* The buffers and the handlers.
ChannelInv == AtRest /\ HandlersInOrder /\ AcksInOrder /\ AcksOfOwner

IInv ==
  /\ TypeOK
  /\ ChannelInv
  /\ PublishedIsAnnounced
  /\ StartedIsBound
  /\ OwedReturns
  /\ DoneReturns

-----------------------------------------------------------------------------
(* Operators of the model.                                                 *)

LEMMA FrameFacts ==
  /\ \A e \in Events, r \in Requests :
       /\ PublishFrame(e, r) \in Frames
       /\ PublishFrame(e, r).kind = "publish"
       /\ PublishFrame(e, r).on = e
       /\ PublishFrame(e, r).request = r
  /\ \A q \in Queues, r \in Requests :
       /\ AckFrame(q, r) \in Frames
       /\ AckFrame(q, r).kind = "ack"
       /\ AckFrame(q, r).on = q
       /\ AckFrame(q, r).request = r
  /\ \A q \in Queues, e \in Events, r \in Requests, t \in Requests :
       AckFrame(q, r) # PublishFrame(e, t)
<1>1. \A e \in Events, r \in Requests :
        /\ PublishFrame(e, r) \in Frames
        /\ PublishFrame(e, r).kind = "publish"
        /\ PublishFrame(e, r).on = e
        /\ PublishFrame(e, r).request = r
  <2>1. \A e \in Events, r \in Requests : PublishFrame(e, r) \in Frames
    BY DEF Frames
  <2> QED BY <2>1 DEF PublishFrame
<1>2. \A q \in Queues, r \in Requests :
        /\ AckFrame(q, r) \in Frames
        /\ AckFrame(q, r).kind = "ack"
        /\ AckFrame(q, r).on = q
        /\ AckFrame(q, r).request = r
  <2>1. \A q \in Queues, r \in Requests : AckFrame(q, r) \in Frames
    BY DEF Frames
  <2> QED BY <2>1 DEF AckFrame
<1>3. \A q \in Queues, e \in Events, r \in Requests, t \in Requests :
        AckFrame(q, r) # PublishFrame(e, t)
  <2>1. "ack" # "publish"
    OBVIOUS
  <2> QED BY <1>1, <1>2, <2>1
<1> QED BY <1>1, <1>2, <1>3

\* The routing keys of the model are events.
LEMMA EventFacts ==
  /\ Requested \in Events
  /\ \A q \in Queues : Event[q] \in Events /\ Outcomes[q] \subseteq Events
BY DEF Events

\* A set of positions of a buffer can be counted, and is empty if it counts 0.
LEMMA AcksCount ==
  ASSUME TypeOK, NEW q \in Queues, NEW r \in Requests
  PROVE  /\ AcksUnderWay(q, r) \in Nat
         /\ AcksUnderWay(q, r) > 0 <=> Sent(Owner[q], AckFrame(q, r))
<1> DEFINE w == wire[Owner[q]]
           positions == {i \in DOMAIN w : w[i] = AckFrame(q, r)}
<1>1. w \in Seq(Frames)
  BY OwnerAssumption DEF TypeOK
<1>2. Len(w) \in Nat /\ DOMAIN w = 1..Len(w)
  BY <1>1
<1>3. IsFiniteSet(1..Len(w)) /\ positions \in SUBSET (1..Len(w))
  BY <1>2, FS_Interval
<1>4. IsFiniteSet(positions)
  BY <1>3, FS_Subset, Zenon
<1>5. Cardinality(positions) \in Nat
  BY <1>4, FS_CardinalityType
<1>6. Cardinality(positions) = 0 <=> positions = {}
  BY <1>4, FS_EmptySet
<1>7. positions # {} <=> Sent(Owner[q], AckFrame(q, r))
  BY <1>2 DEF Sent
<1>8. AcksUnderWay(q, r) = Cardinality(positions)
  BY DEF AcksUnderWay
<1> HIDE DEF positions
<1> QED BY <1>5, <1>6, <1>7, <1>8

\* What the broker gives back is what it holds delivered on an open channel.
LEMMA UnackedCount ==
  ASSUME TypeOK, NEW q \in Queues, NEW r \in Requests
  PROVE  /\ Unacked(q, r) \in Nat
         /\ Unacked(q, r) > 0 <=>
              /\ phase[Owner[q]] \in Connected
              /\ Running(q, r) \/ Sent(Owner[q], AckFrame(q, r))
<1>1. handlers[q][r] \in [Stages -> Nat]
  BY DEF TypeOK
<1>2. Running(q, r) <=> \/ handlers[q][r]["taken"] > 0
                        \/ handlers[q][r]["saved"] > 0
                        \/ handlers[q][r]["told"] > 0
  BY DEF Running, Stages
<1> QED BY <1>1, <1>2, AcksCount DEF Unacked, Stages

LEMMA HeldMeans ==
  ASSUME TypeOK, NEW q \in Queues, NEW r \in Requests
  PROVE  Held(q, r) <=> WillReturn(q, r)
BY UnackedCount DEF Held, WillReturn

LEMMA SendEffect ==
  ASSUME TypeOK, NEW s \in Services, NEW frame \in Frames, Send(s, frame)
  PROVE  /\ wire' \in [Services -> Seq(Frames)]
         /\ Len(wire[s]) \in Nat
         /\ Len(wire'[s]) = Len(wire[s]) + 1
         /\ \A i \in 1..Len(wire[s]) : wire'[s][i] = wire[s][i]
         /\ wire'[s][Len(wire[s]) + 1] = frame
         /\ \A t \in Services \ {s} : wire'[t] = wire[t]
<1>1. wire[s] \in Seq(Frames)
  BY DEF TypeOK
<1>2. wire'[s] = Append(wire[s], frame)
  BY DEF Send, TypeOK
<1>3. \A t \in Services \ {s} : wire'[t] = wire[t]
  BY DEF Send, TypeOK
<1>4. wire' \in [Services -> Seq(Frames)]
  BY <1>1, AppendProperties DEF Send, TypeOK
<1> QED BY <1>1, <1>2, <1>3, <1>4, AppendProperties, LenProperties

LEMMA StepEffect ==
  ASSUME TypeOK, NEW q \in Queues, NEW r \in Requests, NEW a \in Stages,
         NEW b \in Stages, a # b, handlers[q][r][a] > 0, Step(q, r, a, b)
  PROVE  /\ handlers' \in [Queues -> [Requests -> [Stages -> Nat]]]
         /\ handlers'[q][r][b] > 0
         /\ \A p \in Queues, t \in Requests, c \in Stages :
              ~(p = q /\ t = r /\ c = b) => handlers'[p][t][c] <= handlers[p][t][c]
         /\ \A p \in Queues, t \in Requests :
              ~(p = q /\ t = r) => handlers'[p][t] = handlers[p][t]
<1> DEFINE one == [handlers[q][r] EXCEPT ![a] = @ - 1]
           two == [one EXCEPT ![b] = @ + 1]
<1>1. handlers[q][r] \in [Stages -> Nat]
  BY DEF TypeOK
<1>2. one \in [Stages -> Nat] /\ \A c \in Stages :
        one[c] = IF c = a THEN handlers[q][r][c] - 1 ELSE handlers[q][r][c]
  BY <1>1
<1>3. two \in [Stages -> Nat] /\ \A c \in Stages :
        two[c] = IF c = b THEN one[c] + 1 ELSE one[c]
  BY <1>2
<1>4. handlers' = [handlers EXCEPT ![q] = [handlers[q] EXCEPT ![r] = two]]
  BY DEF Step, TypeOK
<1> HIDE DEF one, two
<1>5. handlers'[q][r] = two
  BY <1>4 DEF TypeOK
<1>6. \A p \in Queues, t \in Requests :
        ~(p = q /\ t = r) => handlers'[p][t] = handlers[p][t]
  BY <1>4 DEF TypeOK
<1>7. handlers' \in [Queues -> [Requests -> [Stages -> Nat]]]
  BY <1>3, <1>4 DEF TypeOK
<1>8. \A p \in Queues, t \in Requests : handlers[p][t] \in [Stages -> Nat]
  BY DEF TypeOK
<1>9. /\ two[b] > 0
      /\ \A c \in Stages \ {b} : two[c] <= handlers[q][r][c]
  BY <1>1, <1>2, <1>3
<1>10. ASSUME NEW p \in Queues, NEW t \in Requests, NEW c \in Stages,
              ~(p = q /\ t = r /\ c = b)
       PROVE  handlers'[p][t][c] <= handlers[p][t][c]
  <2>1. CASE p = q /\ t = r
    BY <1>5, <1>9, <1>10, <2>1
  <2>2. CASE ~(p = q /\ t = r)
    <3>1. handlers'[p][t] = handlers[p][t] /\ handlers[p][t][c] \in Nat
      BY <1>6, <1>8, <2>2
    <3> QED BY <3>1
  <2> QED BY <2>1, <2>2
<1> QED BY <1>5, <1>6, <1>7, <1>9, <1>10

-----------------------------------------------------------------------------
(* Buffers.                                                                *)

\* What is in front of a position stays there when a frame is appended.
LEMMA SendKeeps ==
  ASSUME TypeOK, NEW s \in Services, NEW frame \in Frames, Send(s, frame),
         routed' = routed
  PROVE  /\ \A t \in Services : \A f : Sent(t, f) => Sent(t, f)'
         /\ Sent(s, frame)'
         /\ \A q \in Queues, r \in Requests :
              /\ \A i \in 1..Len(wire[Owner[q]]) :
                   Announced(q, r, i) => Announced(q, r, i)'
              /\ Announced(q, r, Len(wire[Owner[q]])) =>
                   Announced(q, r, Len(wire[Owner[q]]))'
<1>1. \A t \in Services :
        /\ Len(wire[t]) \in Nat
        /\ Len(wire'[t]) \in Nat /\ Len(wire'[t]) >= Len(wire[t])
        /\ \A i \in 1..Len(wire[t]) : wire'[t][i] = wire[t][i]
  <2> SUFFICES ASSUME NEW t \in Services
               PROVE  /\ Len(wire[t]) \in Nat
                      /\ Len(wire'[t]) \in Nat /\ Len(wire'[t]) >= Len(wire[t])
                      /\ \A i \in 1..Len(wire[t]) : wire'[t][i] = wire[t][i]
    OBVIOUS
  <2>1. wire[t] \in Seq(Frames) /\ Len(wire[t]) \in Nat
    BY DEF TypeOK
  <2> QED BY <2>1, SendEffect
<1>2. \A t \in Services : \A f : Sent(t, f) => Sent(t, f)'
  BY <1>1 DEF Sent
<1>3. Sent(s, frame)'
  BY SendEffect DEF Sent
<1>4. ASSUME NEW q \in Queues, NEW r \in Requests
      PROVE  /\ \A i \in 1..Len(wire[Owner[q]]) :
                  Announced(q, r, i) => Announced(q, r, i)'
             /\ Announced(q, r, Len(wire[Owner[q]])) =>
                  Announced(q, r, Len(wire[Owner[q]]))'
  <2> DEFINE t == Owner[q]
  <2>1. t \in Services
    BY OwnerAssumption
  <2>2. /\ Len(wire[t]) \in Nat
        /\ Len(wire'[t]) \in Nat /\ Len(wire'[t]) >= Len(wire[t])
        /\ \A i \in 1..Len(wire[t]) : wire'[t][i] = wire[t][i]
    BY <1>1, <2>1
  <2>3. \A i \in 1..Len(wire[t]) :
          Announced(q, r, i) => Announced(q, r, i)'
    BY <2>2, SMTT(30) DEF Announced
  <2>4. Announced(q, r, Len(wire[t])) => Announced(q, r, Len(wire[t]))'
    BY <2>2, SMTT(30) DEF Announced
  <2> QED BY <2>3, <2>4
<1> QED BY <1>2, <1>3, <1>4

\* An ack may be sent when the work is saved and its outcome sent before.
LEMMA SendInOrder ==
  ASSUME TypeOK, AcksInOrder, AcksOfOwner,
         NEW s \in Services, NEW frame \in Frames, Send(s, frame),
         UNCHANGED <<routed, done>>,
         \A q \in Queues, r \in Requests : frame = AckFrame(q, r) =>
           /\ Owner[q] = s
           /\ r \in done[q]
           /\ Outcomes[q] # {} => Announced(q, r, Len(wire[s]))
  PROVE  AcksInOrder' /\ AcksOfOwner'
<1>1. AcksInOrder'
  <2> SUFFICES ASSUME NEW q \in Queues, NEW r \in Requests,
                      NEW i \in 1..Len(wire'[Owner[q]]),
                      wire'[Owner[q]][i] = AckFrame(q, r)
               PROVE  /\ r \in done[q]
                      /\ Outcomes[q] # {} => Announced(q, r, i)'
    BY DEF AcksInOrder
  <2>1. Owner[q] \in Services
    BY OwnerAssumption
  <2>2. CASE i \in 1..Len(wire[Owner[q]])
    <3>1. wire[Owner[q]][i] = AckFrame(q, r)
      BY <2>1, <2>2, SendEffect
    <3> QED BY <2>2, <3>1, SendKeeps DEF AcksInOrder
  <2>3. CASE i \notin 1..Len(wire[Owner[q]])
    <3>1. Owner[q] = s /\ i = Len(wire[s]) + 1 /\ frame = AckFrame(q, r)
      BY <2>1, <2>3, SendEffect
    <3>2. \A j \in 1..Len(wire[s]) : wire'[s][j] = wire[s][j] /\ j \in 1..i
      BY <3>1, SendEffect
    <3>3. r \in done[q] /\ (Outcomes[q] # {} => Announced(q, r, Len(wire[s])))
      BY <3>1
    <3> QED BY <3>1, <3>2, <3>3 DEF Announced
  <2> QED BY <2>2, <2>3
<1>2. AcksOfOwner'
  <2> SUFFICES ASSUME NEW t \in Services, NEW i \in 1..Len(wire'[t]),
                      wire'[t][i].kind = "ack"
               PROVE  Owner[wire'[t][i].on] = t
    BY DEF AcksOfOwner
  <2>1. CASE i \in 1..Len(wire[t])
    <3>1. wire'[t][i] = wire[t][i]
      BY <2>1, SendEffect
    <3> QED BY <2>1, <3>1 DEF AcksOfOwner
  <2>2. CASE i \notin 1..Len(wire[t])
    <3>1. t = s /\ wire'[t][i] = frame
      BY <2>2, SendEffect
    <3>2. \E q \in Queues, r \in Requests : frame = AckFrame(q, r)
      <4>1. \/ \E e \in Events, r \in Requests : frame = PublishFrame(e, r)
            \/ \E q \in Queues, r \in Requests : frame = AckFrame(q, r)
        BY DEF Frames
      <4>2. \A e \in Events, r \in Requests : frame # PublishFrame(e, r)
        <5>1. "ack" # "publish"
          OBVIOUS
        <5> QED BY <3>1, <5>1, FrameFacts
      <4> QED BY <4>1, <4>2
    <3> QED BY <3>1, <3>2, FrameFacts
  <2> QED BY <2>1, <2>2
<1> QED BY <1>1, <1>2

\* What the broker takes leaves the front.
LEMMA ReceiveEffect ==
  ASSUME TypeOK, NEW s \in Services, Receive(s)
  PROVE  /\ wire' \in [Services -> Seq(Frames)]
         /\ Len(wire[s]) \in Nat \ {0}
         /\ wire[s][1] \in Frames
         /\ Len(wire'[s]) = Len(wire[s]) - 1
         /\ \A i \in 1..Len(wire'[s]) : wire'[s][i] = wire[s][i + 1]
         /\ \A t \in Services \ {s} : wire'[t] = wire[t]
         /\ Head(wire[s]) = wire[s][1]
<1>1. wire[s] \in Seq(Frames) /\ wire[s] # <<>>
  BY DEF TypeOK, Receive
<1>2. wire' = [wire EXCEPT ![s] = Tail(@)]
  BY DEF Receive
<1>3. wire'[s] = Tail(wire[s])
  BY <1>2 DEF TypeOK
<1>4. \A t \in Services \ {s} : wire'[t] = wire[t]
  BY <1>2 DEF TypeOK
<1>5. Tail(wire[s]) \in Seq(Frames)
  BY <1>1, HeadTailProperties
<1>6. wire' \in [Services -> Seq(Frames)]
  BY <1>2, <1>5 DEF TypeOK
<1>7. Len(wire[s]) \in Nat \ {0}
  BY <1>1, EmptySeq
<1>8. wire[s][1] \in Frames /\ Head(wire[s]) = wire[s][1]
  BY <1>1, <1>7
<1> QED BY <1>1, <1>3, <1>4, <1>6, <1>7, <1>8, HeadTailProperties

-----------------------------------------------------------------------------
(* The invariant is inductive: one lemma per action.                       *)

LEMMA InitIInv == Init => IInv
<1> SUFFICES ASSUME Init PROVE IInv
  OBVIOUS
<1>1. TypeOK
  <2>1. /\ wire \in [Services -> Seq(Frames)]
        /\ handlers \in [Queues -> [Requests -> [Stages -> Nat]]]
    <3>1. \A s \in Services : wire[s] = <<>> /\ <<>> \in Seq(Frames)
      BY DEF Init
    <3> QED BY <3>1 DEF Init, Idle
  <2>2. stops \in 0..MaxStops
    BY StopsAssumption DEF Init
  <2>3. /\ phase \in [Services -> Phases]
        /\ request \in [Requests -> RequestStates]
        /\ ready \in [Queues -> [Requests -> Nat]]
        /\ owed \in [Queues -> SUBSET Requests]
        /\ done \in [Queues -> SUBSET Requests]
    BY DEF Init, Phases, RequestStates
  <2> QED BY <2>1, <2>2, <2>3 DEF Init, TypeOK
<1>2. \A s \in Services : phase[s] = "down" /\ wire[s] = <<>> /\ Len(wire[s]) = 0
  BY DEF Init
<1>3. \A q \in Queues : Owner[q] \in Services
  BY OwnerAssumption
<1>4. \A q \in Queues, r \in Requests, stage \in Stages : handlers[q][r][stage] = 0
  BY DEF Init, Idle
<1>5. AtRest
  BY <1>2, <1>3, <1>4 DEF AtRest, Running, Init
<1>6. HandlersInOrder
  BY <1>4 DEF HandlersInOrder, Stages
<1>7. AcksInOrder /\ AcksOfOwner
  BY <1>2, <1>3 DEF AcksInOrder, AcksOfOwner
<1>8. PublishedIsAnnounced /\ StartedIsBound /\ OwedReturns /\ DoneReturns
  BY DEF Init, PublishedIsAnnounced, StartedIsBound, OwedReturns, DoneReturns
<1> QED BY <1>1, <1>5, <1>6, <1>7, <1>8 DEF IInv, ChannelInv

\* A step that touches neither buffers nor queues nor handlers, and closes no
\* channel.
LEMMA QuietStep ==
  ASSUME IInv, UNCHANGED <<wire, broker, handlers, done, cut>>,
         TypeOK', PublishedIsAnnounced', StartedIsBound',
         \A q \in Queues :
           /\ phase[Owner[q]] \in Connected => phase'[Owner[q]] \in Connected
           /\ phase'[Owner[q]] \in {"down", "closed"} =>
                phase'[Owner[q]] = phase[Owner[q]]
           /\ q \in consuming' => phase'[Owner[q]] \in Open
  PROVE  IInv'
<1>1. AtRest'
  <2>1. \A q \in Queues, r \in Requests : Running(q, r)' <=> Running(q, r)
    BY DEF Running
  <2>2. \A q \in Queues : Owner[q] \in Services /\ phase[Owner[q]] \in Phases
    BY OwnerAssumption DEF IInv, TypeOK
  <2>3. UNCHANGED <<wire, ready>>
    BY DEF broker
  <2>4. AtRest
    BY DEF IInv, ChannelInv
  <2> QED BY <2>1, <2>2, <2>3, <2>4 DEF AtRest, Connected, Open, Phases
<1>2. HandlersInOrder' /\ AcksInOrder' /\ AcksOfOwner'
  <2>1. /\ UNCHANGED <<wire, routed, handlers, done>>
        /\ HandlersInOrder /\ AcksInOrder /\ AcksOfOwner
    BY DEF IInv, ChannelInv, broker
  <2>2. HandlersInOrder'
    BY <2>1 DEF HandlersInOrder, Announced
  <2>3. AcksInOrder'
    <3>1. \A q, r, n : Announced(q, r, n)' <=> Announced(q, r, n)
      BY <2>1 DEF Announced
    <3> QED BY <2>1, <3>1 DEF AcksInOrder
  <2>4. AcksOfOwner'
    BY <2>1 DEF AcksOfOwner
  <2> QED BY <2>2, <2>3, <2>4
<1>3. \A q \in Queues, r \in Requests : WillReturn(q, r) => WillReturn(q, r)'
  <2>1. \A q \in Queues, r \in Requests : Running(q, r)' <=> Running(q, r)
    BY DEF Running
  <2>2. \A s, f : Sent(s, f)' <=> Sent(s, f)
    BY DEF Sent
  <2> QED BY <2>1, <2>2 DEF WillReturn, broker
<1>4. OwedReturns' /\ DoneReturns'
  BY <1>3 DEF IInv, TypeOK, OwedReturns, DoneReturns, broker
<1> QED BY <1>1, <1>2, <1>4 DEF IInv, ChannelInv

LEMMA StartStep ==
  ASSUME IInv, NEW s \in Services, Start(s)
  PROVE  IInv'
<1>1. TypeOK'
  BY DEF IInv, TypeOK, Start, Phases, broker, history
<1>2. PublishedIsAnnounced' /\ StartedIsBound'
  BY DEF IInv, PublishedIsAnnounced, StartedIsBound, Sent, Start, broker, history
<1>3. \A t \in Services : phase'[t] = IF t = s THEN "starting" ELSE phase[t]
  BY DEF Start, IInv, TypeOK
<1>4. \A q \in Queues : Owner[q] \in Services
  BY OwnerAssumption
<1> QED BY <1>1, <1>2, <1>3, <1>4, QuietStep
        DEF Start, IInv, ChannelInv, AtRest, Connected, Open, history

LEMMA HookStep ==
  ASSUME IInv, NEW q \in Queues, SetUp(q) \/ Consume(q)
  PROVE  IInv'
<1>1. TypeOK'
  BY DEF IInv, TypeOK, SetUp, Consume, broker, history
<1>2. PublishedIsAnnounced' /\ StartedIsBound'
  BY DEF IInv, PublishedIsAnnounced, StartedIsBound, Sent, SetUp, Consume,
         broker, history
<1> QED BY <1>1, <1>2, QuietStep
        DEF SetUp, Consume, IInv, ChannelInv, AtRest, Open, history

LEMMA ListenStep ==
  ASSUME IInv, NEW s \in Services, Listen(s)
  PROVE  IInv'
<1>1. TypeOK'
  BY DEF IInv, TypeOK, Listen, Phases, broker
<1>2. PublishedIsAnnounced'
  BY DEF IInv, PublishedIsAnnounced, Sent, Listen, broker
<1>3. StartedIsBound'
  BY DEF IInv, TypeOK, StartedIsBound, Listen, QueuesOf
<1>4. \A t \in Services : phase'[t] = IF t = s THEN "up" ELSE phase[t]
  BY DEF Listen, IInv, TypeOK
<1>5. \A q \in Queues : Owner[q] \in Services
  BY OwnerAssumption
<1> QED BY <1>1, <1>2, <1>3, <1>4, <1>5, QuietStep
        DEF Listen, IInv, ChannelInv, AtRest, Connected, Open

LEMMA StopStep ==
  ASSUME IInv, NEW s \in Services, Stop(s)
  PROVE  IInv'
<1>1. TypeOK'
  BY StopsAssumption DEF IInv, TypeOK, Stop, Phases, broker, history
<1>2. PublishedIsAnnounced' /\ StartedIsBound'
  BY DEF IInv, PublishedIsAnnounced, StartedIsBound, Sent, Stop, broker, history
<1>3. \A t \in Services : phase'[t] = IF t = s THEN "closing" ELSE phase[t]
  BY DEF Stop, IInv, TypeOK
<1>4. \A q \in Queues : Owner[q] \in Services /\ (Owner[q] = s <=> q \in QueuesOf(s))
  BY OwnerAssumption DEF QueuesOf
<1> QED BY <1>1, <1>2, <1>3, <1>4, QuietStep
        DEF Stop, IInv, ChannelInv, AtRest, Connected, history

\* A request that is saved, fails or is answered.
LEMMA RequestStep ==
  ASSUME IInv, NEW r \in Requests, Save(r) \/ PublishThrows(r) \/ Answer(r)
  PROVE  IInv'
<1>1. TypeOK'
  BY DEF IInv, TypeOK, Save, PublishThrows, Answer, RequestStates, broker, history
<1>2. PublishedIsAnnounced' /\ StartedIsBound'
  BY DEF IInv, TypeOK, PublishedIsAnnounced, StartedIsBound, Sent, Save,
         PublishThrows, Answer, broker, history
<1> QED BY <1>1, <1>2, QuietStep
        DEF Save, PublishThrows, Answer, IInv, ChannelInv, AtRest, history

LEMMA PublishStep ==
  ASSUME IInv, NEW r \in Requests, Publish(r)
  PROVE  IInv'
<1> DEFINE frame == PublishFrame(Requested, r)
<1>1. frame \in Frames /\ Send(HttpService, frame) /\ HttpService \in Services
  BY FrameFacts, EventFacts, HttpAssumption DEF Publish
<1>2. \A q \in Queues, t \in Requests : frame # AckFrame(q, t)
  BY FrameFacts, EventFacts
<1>3. /\ UNCHANGED <<phase, bound, consuming, ready, routed, owed, handlers, done,
                     started, cut, stops>>
      /\ request' = [request EXCEPT ![r] = "published"]
  BY DEF Publish, broker, history
<1> HIDE DEF frame
<1>4. TypeOK'
  BY <1>1, <1>3, SendEffect DEF IInv, TypeOK, RequestStates
<1>5. /\ \A t \in Services : \A f : Sent(t, f) => Sent(t, f)'
      /\ Sent(HttpService, frame)'
      /\ \A q \in Queues, t \in Requests :
           Announced(q, t, Len(wire[Owner[q]])) =>
             Announced(q, t, Len(wire[Owner[q]]))'
  BY <1>1, <1>3, SendKeeps DEF IInv
<1>6. AcksInOrder' /\ AcksOfOwner'
  BY <1>1, <1>2, <1>3, SendInOrder DEF IInv, ChannelInv
<1>7. HandlersInOrder'
  BY <1>3, <1>5 DEF IInv, ChannelInv, HandlersInOrder
<1>8. AtRest'
  <2>1. phase[HttpService] = "up"
    BY DEF Publish
  <2>2. \A q \in Queues : /\ Owner[q] \in Services
                          /\ Owner[q] # HttpService => wire'[Owner[q]] = wire[Owner[q]]
    BY <1>1, OwnerAssumption, SendEffect DEF IInv
  <2>3. \A q \in Queues, t \in Requests : Running(q, t)' <=> Running(q, t)
    BY <1>3 DEF Running
  <2> QED BY <1>3, <2>1, <2>2, <2>3 DEF IInv, ChannelInv, AtRest
<1>9. PublishedIsAnnounced'
  <2>1. \A t \in Requests : request'[t] = IF t = r THEN "published" ELSE request[t]
    BY <1>3 DEF IInv, TypeOK
  <2> QED BY <1>1, <1>3, <1>5, <2>1 DEF IInv, PublishedIsAnnounced, frame
<1>10. StartedIsBound'
  BY <1>3 DEF IInv, StartedIsBound
<1>11. \A q \in Queues, t \in Requests : WillReturn(q, t) => WillReturn(q, t)'
  BY <1>3, <1>5, OwnerAssumption DEF WillReturn, Running
<1>12. OwedReturns' /\ DoneReturns'
  BY <1>3, <1>11 DEF IInv, TypeOK, OwedReturns, DoneReturns
<1> QED BY <1>4, <1>6, <1>7, <1>8, <1>9, <1>10, <1>12 DEF IInv, ChannelInv

\* The copy leaves the queue and is unacknowledged instead.
LEMMA DeliverStep ==
  ASSUME IInv, NEW q \in Queues, NEW r \in Requests, Deliver(q, r)
  PROVE  IInv'
<1>1. /\ UNCHANGED <<phase, bound, consuming, request, wire, routed, owed, done,
                     started, cut, stops>>
      /\ q \in consuming /\ ready[q][r] > 0
      /\ ready' = [ready EXCEPT ![q][r] = @ - 1]
      /\ handlers' = [handlers EXCEPT ![q][r]["taken"] = @ + 1]
  BY DEF Deliver, history
<1>2. phase[Owner[q]] \in Open
  BY <1>1 DEF IInv, ChannelInv, AtRest
<1>3. /\ ready' \in [Queues -> [Requests -> Nat]]
      /\ \A p \in Queues, t \in Requests :
           ~(p = q /\ t = r) => ready'[p][t] = ready[p][t]
  BY <1>1 DEF IInv, TypeOK
<1>4. /\ handlers' \in [Queues -> [Requests -> [Stages -> Nat]]]
      /\ handlers'[q][r]["taken"] > 0
      /\ \A p \in Queues, t \in Requests, c \in Stages :
           c # "taken" => handlers'[p][t][c] = handlers[p][t][c]
      /\ \A p \in Queues, t \in Requests :
           ~(p = q /\ t = r) => handlers'[p][t] = handlers[p][t]
  <2>1. handlers[q][r] \in [Stages -> Nat]
    BY DEF IInv, TypeOK
  <2> DEFINE more == [handlers[q][r] EXCEPT !["taken"] = @ + 1]
  <2>2. more \in [Stages -> Nat] /\ more["taken"] > 0
        /\ \A c \in Stages : c # "taken" => more[c] = handlers[q][r][c]
    BY <2>1 DEF Stages
  <2>3. handlers' = [handlers EXCEPT ![q] = [handlers[q] EXCEPT ![r] = more]]
    BY <1>1 DEF IInv, TypeOK
  <2> HIDE DEF more
  <2>4. handlers'[q][r] = more
    BY <2>3 DEF IInv, TypeOK
  <2>5. \A p \in Queues, t \in Requests :
          ~(p = q /\ t = r) => handlers'[p][t] = handlers[p][t]
    BY <2>3 DEF IInv, TypeOK
  <2>6. handlers' \in [Queues -> [Requests -> [Stages -> Nat]]]
    BY <2>2, <2>3 DEF IInv, TypeOK
  <2> QED BY <2>2, <2>4, <2>5, <2>6
<1>5. TypeOK'
  BY <1>1, <1>3, <1>4 DEF IInv, TypeOK
<1>6. /\ \A p \in Queues, t \in Requests :
           ~(p = q /\ t = r) => (Running(p, t)' <=> Running(p, t))
      /\ Running(q, r)'
  BY <1>4 DEF Running, Stages
<1>7. AtRest'
  BY <1>1, <1>2, <1>3, <1>6 DEF IInv, ChannelInv, AtRest, Open
<1>8. \A p, t, n : Announced(p, t, n)' <=> Announced(p, t, n)
  BY <1>1 DEF Announced
<1>9. HandlersInOrder'
  BY <1>1, <1>4, <1>8 DEF IInv, ChannelInv, HandlersInOrder, Stages
<1>10. AcksInOrder' /\ AcksOfOwner'
  BY <1>1, <1>8 DEF IInv, ChannelInv, AcksInOrder, AcksOfOwner
<1>11. PublishedIsAnnounced' /\ StartedIsBound'
  BY <1>1 DEF IInv, PublishedIsAnnounced, StartedIsBound, Sent
<1>12. \A p \in Queues, t \in Requests : WillReturn(p, t) => WillReturn(p, t)'
  <2>1. \A s, f : Sent(s, f)' <=> Sent(s, f)
    BY <1>1 DEF Sent
  <2> QED BY <1>1, <1>2, <1>3, <1>6, <2>1 DEF WillReturn, Connected
<1>13. OwedReturns' /\ DoneReturns'
  BY <1>1, <1>12 DEF IInv, TypeOK, OwedReturns, DoneReturns
<1> QED BY <1>5, <1>7, <1>9, <1>10, <1>11, <1>13 DEF IInv, ChannelInv

\* The work is saved while the broker still holds the copy, or has it back.
LEMMA WorkStep ==
  ASSUME IInv, NEW q \in Queues, NEW r \in Requests, Work(q, r)
  PROVE  IInv'
<1>1. /\ UNCHANGED <<phase, bound, consuming, request, wire, ready, routed, owed,
                     started, cut, stops>>
      /\ handlers[q][r]["taken"] > 0
      /\ done' = [done EXCEPT ![q] = @ \cup {r}]
  BY DEF Work, broker
<1>2. /\ handlers' \in [Queues -> [Requests -> [Stages -> Nat]]]
      /\ handlers'[q][r]["saved"] > 0
      /\ \A p \in Queues, t \in Requests, c \in Stages :
           ~(p = q /\ t = r /\ c = "saved") =>
             handlers'[p][t][c] <= handlers[p][t][c]
      /\ \A p \in Queues, t \in Requests :
           ~(p = q /\ t = r) => handlers'[p][t] = handlers[p][t]
  <2>1. Step(q, r, "taken", "saved") /\ "taken" \in Stages /\ "saved" \in Stages
        /\ "taken" # "saved"
    BY DEF Work, Stages
  <2> QED BY <1>1, <2>1, StepEffect DEF IInv
<1>3. /\ \A p \in Queues : done[p] \subseteq done'[p]
      /\ \A p \in Queues : p # q => done'[p] = done[p]
      /\ done'[q] = done[q] \cup {r}
      /\ done' \in [Queues -> SUBSET Requests]
  BY <1>1 DEF IInv, TypeOK
<1>4. TypeOK'
  BY <1>1, <1>2, <1>3 DEF IInv, TypeOK
<1>5. /\ \A p \in Queues, t \in Requests : Running(p, t)' <=> Running(p, t)
      /\ Running(q, r)
  <2>1. Running(q, r) /\ Running(q, r)'
    BY <1>1, <1>2 DEF Running, Stages
  <2>2. \A p \in Queues, t \in Requests :
          ~(p = q /\ t = r) => (Running(p, t)' <=> Running(p, t))
    BY <1>2 DEF Running
  <2> QED BY <2>1, <2>2
<1>6. AtRest'
  BY <1>1, <1>5 DEF IInv, ChannelInv, AtRest
<1>7. \A p, t, n : Announced(p, t, n)' <=> Announced(p, t, n)
  BY <1>1 DEF Announced
<1>8. HandlersInOrder'
  <2> SUFFICES ASSUME NEW p \in Queues, NEW t \in Requests
               PROVE  /\ handlers'[p][t]["saved"] > 0 => t \in done'[p]
                      /\ handlers'[p][t]["told"] > 0 =>
                           /\ t \in done'[p]
                           /\ Announced(p, t, Len(wire[Owner[p]]))'
    BY DEF HandlersInOrder
  <2>1. handlers'[p][t]["told"] <= handlers[p][t]["told"]
        /\ handlers'[p][t]["told"] \in Nat /\ handlers[p][t]["told"] \in Nat
    BY <1>2 DEF Stages, IInv, TypeOK
  <2>2. CASE p = q /\ t = r
    BY <1>1, <1>3, <1>7, <2>1, <2>2 DEF IInv, ChannelInv, HandlersInOrder
  <2>3. CASE ~(p = q /\ t = r)
    <3>1. handlers'[p][t] = handlers[p][t]
      BY <1>2, <2>3
    <3> QED BY <1>1, <1>3, <1>7, <3>1 DEF IInv, ChannelInv, HandlersInOrder
  <2> QED BY <2>2, <2>3
<1>9. AcksInOrder' /\ AcksOfOwner'
  BY <1>1, <1>3, <1>7 DEF IInv, ChannelInv, AcksInOrder, AcksOfOwner
<1>10. PublishedIsAnnounced' /\ StartedIsBound'
  BY <1>1 DEF IInv, PublishedIsAnnounced, StartedIsBound, Sent
<1>11. \A p \in Queues, t \in Requests : WillReturn(p, t)' <=> WillReturn(p, t)
  <2>1. \A s, f : Sent(s, f)' <=> Sent(s, f)
    BY <1>1 DEF Sent
  <2> QED BY <1>1, <1>5, <2>1 DEF WillReturn
<1>12. WillReturn(q, r)
  <2>1. phase[Owner[q]] \in Phases
    BY OwnerAssumption DEF IInv, TypeOK
  <2> QED BY <1>5, <2>1
          DEF IInv, ChannelInv, AtRest, WillReturn, Connected, Open, Phases
<1>13. OwedReturns'
  BY <1>1, <1>3, <1>11 DEF IInv, TypeOK, OwedReturns
<1>14. DoneReturns'
  <2>1. \A p \in Queues : \A t \in done'[p] : t \in done[p] \/ (p = q /\ t = r)
    BY <1>3
  <2>2. \A p \in Queues : done'[p] \subseteq Requests
    BY <1>3
  <2> QED BY <1>1, <1>11, <1>12, <2>1, <2>2 DEF IInv, DoneReturns
<1> QED BY <1>14, <1>4, <1>6, <1>8, <1>9, <1>10, <1>13 DEF IInv, ChannelInv

\* A handler goes on and sends a frame, which is behind all it sent before.
LEMMA HandlerSends ==
  ASSUME IInv, NEW q \in Queues, NEW r \in Requests, NEW frame \in Frames,
         Send(Owner[q], frame), phase[Owner[q]] \in Open,
         UNCHANGED <<phase, bound, consuming, request, ready, routed, owed, done,
                     started, cut, stops>>,
         handlers' \in [Queues -> [Requests -> [Stages -> Nat]]],
         \A p \in Queues, t \in Requests :
           ~(p = q /\ t = r) => handlers'[p][t] = handlers[p][t],
         handlers'[q][r]["saved"] <= handlers[q][r]["saved"],
         handlers'[q][r]["told"] > 0 =>
           \/ handlers[q][r]["told"] > 0
           \/ r \in done[q] /\ \E e \in Outcomes[q] : frame = PublishFrame(e, r),
         \A p \in Queues, t \in Requests : frame = AckFrame(p, t) =>
           /\ p = q
           /\ t \in done[p]
           /\ Outcomes[p] # {} => Announced(p, t, Len(wire[Owner[p]])),
         Running(q, r)' \/ frame = AckFrame(q, r)
  PROVE  IInv'
<1>1. Owner[q] \in Services
  BY OwnerAssumption
<1>2. TypeOK'
  BY <1>1, SendEffect DEF IInv, TypeOK
<1>3. /\ \A s \in Services : \A f : Sent(s, f) => Sent(s, f)'
      /\ Sent(Owner[q], frame)'
      /\ \A p \in Queues, t \in Requests :
           Announced(p, t, Len(wire[Owner[p]])) =>
             Announced(p, t, Len(wire[Owner[p]]))'
  BY <1>1, SendKeeps DEF IInv
<1>4. AcksInOrder' /\ AcksOfOwner'
  BY <1>1, SendInOrder DEF IInv, ChannelInv
<1>5. \A p \in Queues, t \in Requests :
        ~(p = q /\ t = r) => (Running(p, t)' <=> Running(p, t))
  BY DEF Running
<1>6. AtRest'
  <2>1. \A p \in Queues : Owner[p] # Owner[q] => wire'[Owner[p]] = wire[Owner[p]]
    BY <1>1, OwnerAssumption, SendEffect DEF IInv
  <2> QED BY <1>5, <2>1 DEF IInv, ChannelInv, AtRest, Open
<1>7. HandlersInOrder'
  <2> SUFFICES ASSUME NEW p \in Queues, NEW t \in Requests
               PROVE  /\ handlers'[p][t]["saved"] > 0 => t \in done[p]
                      /\ handlers'[p][t]["told"] > 0 =>
                           /\ t \in done[p]
                           /\ Announced(p, t, Len(wire[Owner[p]]))'
    BY DEF HandlersInOrder
  <2>1. /\ handlers[p][t]["saved"] > 0 => t \in done[p]
        /\ handlers[p][t]["told"] > 0 =>
             t \in done[p] /\ Announced(p, t, Len(wire[Owner[p]]))
    BY DEF IInv, ChannelInv, HandlersInOrder
  <2>2. CASE p = q /\ t = r
    <3>1. handlers'[q][r]["saved"] > 0 => handlers[q][r]["saved"] > 0
      <4>1. handlers[q][r] \in [Stages -> Nat] /\ handlers'[q][r] \in [Stages -> Nat]
        BY DEF IInv, TypeOK
      <4>2. handlers[q][r]["saved"] \in Nat /\ handlers'[q][r]["saved"] \in Nat
        BY <4>1 DEF Stages
      <4> QED BY <4>2
    <3>2. ASSUME NEW e \in Outcomes[q], frame = PublishFrame(e, r)
          PROVE  Announced(q, r, Len(wire[Owner[q]]))'
      BY <1>3, <3>2 DEF Announced, Sent
    <3> QED BY <1>3, <2>1, <2>2, <3>1, <3>2
  <2>3. CASE ~(p = q /\ t = r)
    BY <1>3, <2>1, <2>3
  <2> QED BY <2>2, <2>3
<1>8. PublishedIsAnnounced' /\ StartedIsBound'
  BY <1>3, HttpAssumption DEF IInv, PublishedIsAnnounced, StartedIsBound
<1>9. \A p \in Queues, t \in Requests : WillReturn(p, t) => WillReturn(p, t)'
  <2>1. \A p \in Queues : Owner[p] \in Services
    BY OwnerAssumption
  <2>2. WillReturn(q, r)'
    BY <1>3 DEF WillReturn, Connected
  <2>3. \A p \in Queues, t \in Requests :
          ~(p = q /\ t = r) /\ WillReturn(p, t) => WillReturn(p, t)'
    BY <1>3, <1>5, <2>1 DEF WillReturn
  <2> QED BY <2>2, <2>3
<1>10. OwedReturns' /\ DoneReturns'
  BY <1>9 DEF IInv, TypeOK, OwedReturns, DoneReturns
<1> QED BY <1>2, <1>4, <1>6, <1>7, <1>8, <1>10 DEF IInv, ChannelInv

LEMMA TellStep ==
  ASSUME IInv, NEW q \in Queues, NEW r \in Requests, NEW e \in Outcomes[q],
         Tell(q, r, e)
  PROVE  IInv'
<1> DEFINE frame == PublishFrame(e, r)
<1>1. e \in Events
  BY EventFacts
<1>2. frame \in Frames /\ \A p \in Queues, t \in Requests : frame # AckFrame(p, t)
  BY <1>1, FrameFacts
<1>3. /\ handlers[q][r]["saved"] > 0
      /\ phase[Owner[q]] \in Open
      /\ Send(Owner[q], frame)
      /\ UNCHANGED <<phase, bound, consuming, request, ready, routed, owed, done,
                     started, cut, stops>>
  BY DEF Tell, broker, history
<1>4. /\ handlers' \in [Queues -> [Requests -> [Stages -> Nat]]]
      /\ handlers'[q][r]["told"] > 0
      /\ handlers'[q][r]["saved"] <= handlers[q][r]["saved"]
      /\ \A p \in Queues, t \in Requests :
           ~(p = q /\ t = r) => handlers'[p][t] = handlers[p][t]
  <2>1. Step(q, r, "saved", "told") /\ "saved" \in Stages /\ "told" \in Stages
        /\ "saved" # "told"
    BY DEF Tell, Stages
  <2> QED BY <1>3, <2>1, StepEffect DEF IInv
<1>5. r \in done[q]
  BY <1>3 DEF IInv, ChannelInv, HandlersInOrder
<1>6. Running(q, r)'
  BY <1>4 DEF Running, Stages
<1>7. \E o \in Outcomes[q] : frame = PublishFrame(o, r)
  OBVIOUS
<1> HIDE DEF frame
<1>8. handlers'[q][r]["told"] > 0 =>
        \/ handlers[q][r]["told"] > 0
        \/ r \in done[q] /\ \E o \in Outcomes[q] : frame = PublishFrame(o, r)
  BY <1>5, <1>7
<1>9. \A p \in Queues, t \in Requests : frame = AckFrame(p, t) =>
        /\ p = q
        /\ t \in done[p]
        /\ Outcomes[p] # {} => Announced(p, t, Len(wire[Owner[p]]))
  BY <1>2
<1> QED BY <1>2, <1>3, <1>4, <1>6, <1>8, <1>9, HandlerSends

LEMMA AckStep ==
  ASSUME IInv, NEW q \in Queues, NEW r \in Requests, Ack(q, r)
  PROVE  IInv'
<1> DEFINE stage == LastStage(q)
           frame == AckFrame(q, r)
           less == [handlers[q][r] EXCEPT ![stage] = @ - 1]
<1>1. /\ stage \in Stages
      /\ handlers[q][r][stage] > 0
      /\ phase[Owner[q]] \in Open
      /\ Send(Owner[q], frame)
      /\ handlers' = [handlers EXCEPT ![q][r][stage] = @ - 1]
      /\ UNCHANGED <<phase, bound, consuming, request, ready, routed, owed, done,
                     started, cut, stops>>
  BY DEF Ack, Finish, LastStage, Stages, broker, history
<1>2. frame \in Frames
      /\ \A p \in Queues, t \in Requests : frame = AckFrame(p, t) => p = q /\ t = r
  BY FrameFacts
<1>3. r \in done[q]
      /\ (Outcomes[q] # {} => Announced(q, r, Len(wire[Owner[q]])))
  BY <1>1 DEF IInv, ChannelInv, HandlersInOrder, LastStage
<1> HIDE DEF stage, frame
<1>4. handlers[q][r] \in [Stages -> Nat]
  BY DEF IInv, TypeOK
<1>5. less \in [Stages -> Nat]
      /\ \A c \in Stages : less[c] <= handlers[q][r][c]
  BY <1>1, <1>4
<1>6. handlers' = [handlers EXCEPT ![q] = [handlers[q] EXCEPT ![r] = less]]
  BY <1>1 DEF IInv, TypeOK
<1> HIDE DEF less
<1>7. /\ handlers' \in [Queues -> [Requests -> [Stages -> Nat]]]
      /\ handlers'[q][r] = less
      /\ \A p \in Queues, t \in Requests :
           ~(p = q /\ t = r) => handlers'[p][t] = handlers[p][t]
  BY <1>5, <1>6 DEF IInv, TypeOK
<1>8. handlers'[q][r]["saved"] <= handlers[q][r]["saved"]
      /\ (handlers'[q][r]["told"] > 0 => handlers[q][r]["told"] > 0)
  BY <1>4, <1>5, <1>7 DEF Stages
<1>9. frame = AckFrame(q, r)
  BY DEF frame
<1>10. \A p \in Queues, t \in Requests : frame = AckFrame(p, t) =>
         /\ p = q
         /\ t \in done[p]
         /\ Outcomes[p] # {} => Announced(p, t, Len(wire[Owner[p]]))
  BY <1>2, <1>3
<1> QED BY <1>1, <1>2, <1>7, <1>8, <1>9, <1>10, HandlerSends

\* What the broker does with the frame at the front.
LEMMA BrokerEffect ==
  ASSUME TypeOK, NEW s \in Services, Receive(s)
  PROVE  /\ routed \subseteq routed' /\ routed' \subseteq Events \X Requests
         /\ \A e \in Events, r \in Requests :
              wire[s][1] = PublishFrame(e, r) => <<e, r>> \in routed'
         /\ ready' \in [Queues -> [Requests -> Nat]]
         /\ owed' \in [Queues -> SUBSET Requests]
         /\ \A q \in Queues, r \in Requests :
              /\ ready'[q][r] >= ready[q][r]
              /\ r \in owed'[q] => r \in owed[q] \/ ready'[q][r] > 0
              /\ <<Event[q], r>> \in routed' \ routed /\ q \in bound => r \in owed'[q]
<1> DEFINE frame == wire[s][1]
<1>1. frame \in Frames /\ Head(wire[s]) = frame
  BY ReceiveEffect
<1>2. CASE \E q \in Queues, r \in Requests : frame = AckFrame(q, r)
  <2>1. frame.kind # "publish"
    BY <1>2, FrameFacts
  <2>2. UNCHANGED broker
    BY <1>1, <2>1 DEF Receive
  <2>3. \A e \in Events, r \in Requests : frame # PublishFrame(e, r)
    BY <1>2, FrameFacts
  <2>4. UNCHANGED <<ready, routed, owed>>
    BY <2>2 DEF broker
  <2>5. \A q \in Queues, r \in Requests : ready[q][r] \in Nat
    BY DEF TypeOK
  <2> QED BY <2>3, <2>4, <2>5 DEF TypeOK
<1>3. CASE \E e \in Events, r \in Requests : frame = PublishFrame(e, r)
  <2>1. PICK e \in Events, r \in Requests : frame = PublishFrame(e, r)
    BY <1>3
  <2>2. frame.kind = "publish" /\ frame.on = e /\ frame.request = r
    BY <2>1, FrameFacts
  <2>3. Route(e, r)
    BY <1>1, <2>2 DEF Receive
  <2> DEFINE reached == {q \in bound : Event[q] = e}
  <2>4. /\ ready' = [q \in Queues |-> IF q \in reached
                       THEN [ready[q] EXCEPT ![r] = @ + 1] ELSE ready[q]]
        /\ owed' = [q \in Queues |-> IF q \in reached THEN owed[q] \cup {r}
                                     ELSE owed[q]]
        /\ routed' = routed \cup {<<e, r>>}
    BY <2>3 DEF Route
  <2>5. \A q \in Queues : q \in reached <=> q \in bound /\ Event[q] = e
    OBVIOUS
  <2> HIDE DEF reached
  <2>6. \A f \in Events, t \in Requests :
          frame = PublishFrame(f, t) => <<f, t>> \in routed'
    <3> SUFFICES ASSUME NEW f \in Events, NEW t \in Requests,
                        frame = PublishFrame(f, t)
                 PROVE  <<f, t>> \in routed'
      OBVIOUS
    <3>1. f = e /\ t = r
      BY <2>2, FrameFacts
    <3> QED BY <2>4, <3>1
  <2>7. /\ ready' \in [Queues -> [Requests -> Nat]]
        /\ \A q \in Queues, t \in Requests : ready'[q][t] >= ready[q][t]
        /\ \A q \in Queues : q \in reached => ready'[q][r] > 0
    <3>1. \A q \in Queues : ready[q] \in [Requests -> Nat]
      BY DEF TypeOK
    <3>2. ASSUME NEW q \in Queues
          PROVE  /\ ready'[q] \in [Requests -> Nat]
                 /\ \A t \in Requests : ready'[q][t] >= ready[q][t]
                 /\ q \in reached => ready'[q][r] > 0
      <4>1. CASE q \in reached
        <5>1. ready'[q] = [ready[q] EXCEPT ![r] = @ + 1]
          BY <2>4, <4>1
        <5> QED BY <3>1, <5>1
      <4>2. CASE q \notin reached
        <5>1. ready'[q] = ready[q]
          BY <2>4, <4>2
        <5> QED BY <3>1, <4>2, <5>1
      <4> QED BY <4>1, <4>2
    <3>3. ready' = [q \in Queues |-> ready'[q]]
      BY <2>4
    <3> QED BY <3>2, <3>3
  <2>8. /\ owed' \in [Queues -> SUBSET Requests]
        /\ \A q \in Queues, t \in Requests :
             /\ t \in owed'[q] => t \in owed[q] \/ (q \in reached /\ t = r)
             /\ q \in reached /\ t = r => t \in owed'[q]
    BY <2>4 DEF TypeOK
  <2>9. \A q \in Queues, t \in Requests :
          <<Event[q], t>> \in routed' \ routed => Event[q] = e /\ t = r
    BY <2>4
  <2>10. routed' \subseteq Events \X Requests
    BY <2>4 DEF TypeOK
  <2> QED BY <2>4, <2>5, <2>6, <2>7, <2>8, <2>9, <2>10
<1> QED BY <1>1, <1>2, <1>3 DEF Frames

LEMMA ReceiveStep ==
  ASSUME IInv, NEW s \in Services, Receive(s)
  PROVE  IInv'
<1> DEFINE front == wire[s][1]
<1>1. /\ UNCHANGED <<phase, bound, consuming, request, handlers, done, started, cut,
                     stops>>
      /\ phase[s] \in Connected
  BY DEF Receive, history
<1>2. /\ wire' \in [Services -> Seq(Frames)]
      /\ Len(wire[s]) \in Nat \ {0}
      /\ Len(wire'[s]) = Len(wire[s]) - 1
      /\ \A i \in 1..Len(wire'[s]) : wire'[s][i] = wire[s][i + 1]
      /\ \A t \in Services \ {s} : wire'[t] = wire[t]
  BY ReceiveEffect DEF IInv
<1>3. /\ routed \subseteq routed' /\ routed' \subseteq Events \X Requests
      /\ \A e \in Events, r \in Requests :
           front = PublishFrame(e, r) => <<e, r>> \in routed'
      /\ ready' \in [Queues -> [Requests -> Nat]]
      /\ owed' \in [Queues -> SUBSET Requests]
      /\ \A q \in Queues, r \in Requests :
           /\ ready'[q][r] >= ready[q][r]
           /\ r \in owed'[q] => r \in owed[q] \/ ready'[q][r] > 0
  BY BrokerEffect DEF IInv
<1>4. \A q \in Queues : Owner[q] \in Services
  BY OwnerAssumption
<1>5. TypeOK'
  BY <1>1, <1>2, <1>3 DEF IInv, TypeOK
\* Every position moves one towards the front.
<1>6. ASSUME NEW q \in Queues, NEW r \in Requests, Owner[q] = s,
             NEW i \in 0..Len(wire'[s]), Announced(q, r, i + 1)
      PROVE  Announced(q, r, i)'
  <2>1. PICK e \in Outcomes[q] :
          \/ <<e, r>> \in routed
          \/ \E j \in 1..(i + 1) : wire[s][j] = PublishFrame(e, r)
    BY <1>6 DEF Announced
  <2>2. e \in Events
    BY EventFacts
  <2>3. CASE <<e, r>> \in routed'
    BY <2>3 DEF Announced
  <2>4. CASE \E j \in 1..(i + 1) : wire[s][j] = PublishFrame(e, r)
    <3>1. PICK j \in 1..(i + 1) : wire[s][j] = PublishFrame(e, r)
      BY <2>4
    <3>2. CASE j = 1
      BY <1>3, <2>2, <2>3, <3>1, <3>2
    <3>3. CASE j # 1
      <4>1. j - 1 \in 1..i /\ wire'[s][j - 1] = PublishFrame(e, r)
        BY <1>2, <3>1, <3>3
      <4> QED BY <1>6, <4>1 DEF Announced
    <3> QED BY <3>2, <3>3
  <2> QED BY <1>3, <2>1, <2>3, <2>4
<1>7. ASSUME NEW q \in Queues, NEW r \in Requests, Owner[q] # s, NEW i \in Nat,
             Announced(q, r, i)
      PROVE  Announced(q, r, i)'
  BY <1>2, <1>3, <1>4, <1>7 DEF Announced
<1>8. \A t \in Services : \A f :
        Sent(t, f) => Sent(t, f)' \/ (t = s /\ f = front)
  <2> SUFFICES ASSUME NEW t \in Services, NEW f, Sent(t, f),
                      ~(t = s /\ f = front)
               PROVE  Sent(t, f)'
    OBVIOUS
  <2>1. CASE t # s
    BY <1>2, <2>1 DEF Sent
  <2>2. CASE t = s
    <3>1. PICK i \in 1..Len(wire[s]) : wire[s][i] = f
      BY <2>2 DEF Sent
    <3>2. i # 1
      BY <2>2, <3>1
    <3>3. i - 1 \in 1..Len(wire'[s]) /\ wire'[s][i - 1] = f
      BY <1>2, <3>1, <3>2
    <3> QED BY <2>2, <3>3 DEF Sent
  <2> QED BY <2>1, <2>2
<1> HIDE DEF front
<1>9. \A q \in Queues, r \in Requests : Running(q, r)' <=> Running(q, r)
  BY <1>1 DEF Running
<1>10. AtRest'
  <2>1. \A q \in Queues, r \in Requests : ready[q][r] \in Nat /\ ready'[q][r] \in Nat
    BY <1>3 DEF IInv, TypeOK
  <2>2. \A q \in Queues, r \in Requests : ready[q][r] > 0 => ready'[q][r] > 0
    BY <1>3, <2>1
  <2>3. \A q \in Queues : phase[Owner[q]] \in {"down", "closed"} =>
          wire'[Owner[q]] = wire[Owner[q]]
    BY <1>1, <1>2, <1>4 DEF Connected, Open
  <2>4. AtRest
    BY DEF IInv, ChannelInv
  <2> QED BY <1>1, <1>9, <2>2, <2>3, <2>4 DEF AtRest
<1>11. HandlersInOrder'
  <2> SUFFICES ASSUME NEW q \in Queues, NEW r \in Requests,
                      Announced(q, r, Len(wire[Owner[q]]))
               PROVE  Announced(q, r, Len(wire[Owner[q]]))'
    BY <1>1 DEF IInv, ChannelInv, HandlersInOrder
  <2>1. CASE Owner[q] = s
    <3>1. Len(wire'[s]) \in 0..Len(wire'[s]) /\ Len(wire[s]) = Len(wire'[s]) + 1
      BY <1>2
    <3>2. Announced(q, r, Len(wire'[s]) + 1)
      BY <2>1, <3>1
    <3> QED BY <1>6, <2>1, <3>1, <3>2
  <2>2. CASE Owner[q] # s
    <3>1. wire'[Owner[q]] = wire[Owner[q]] /\ Len(wire[Owner[q]]) \in Nat
      BY <1>2, <1>4, <2>2 DEF IInv, TypeOK
    <3> QED BY <1>7, <2>2, <3>1
  <2> QED BY <2>1, <2>2
<1>12. AcksInOrder'
  <2> SUFFICES ASSUME NEW q \in Queues, NEW r \in Requests,
                      NEW i \in 1..Len(wire'[Owner[q]]),
                      wire'[Owner[q]][i] = AckFrame(q, r)
               PROVE  /\ r \in done[q]
                      /\ Outcomes[q] # {} => Announced(q, r, i)'
    BY <1>1 DEF AcksInOrder
  <2>1. CASE Owner[q] = s
    <3>1. /\ i + 1 \in 1..Len(wire[s]) /\ i \in 0..Len(wire'[s])
          /\ wire[s][i + 1] = AckFrame(q, r)
      BY <1>2, <2>1
    <3>2. r \in done[q] /\ (Outcomes[q] # {} => Announced(q, r, i + 1))
      BY <2>1, <3>1 DEF IInv, ChannelInv, AcksInOrder
    <3> QED BY <1>6, <2>1, <3>1, <3>2
  <2>2. CASE Owner[q] # s
    <3>1. wire'[Owner[q]] = wire[Owner[q]] /\ i \in Nat
      BY <1>2, <1>4, <2>2
    <3>2. r \in done[q] /\ (Outcomes[q] # {} => Announced(q, r, i))
      BY <3>1 DEF IInv, ChannelInv, AcksInOrder
    <3> QED BY <1>7, <2>2, <3>1, <3>2
  <2> QED BY <2>1, <2>2
<1>13. AcksOfOwner'
  <2> SUFFICES ASSUME NEW t \in Services, NEW i \in 1..Len(wire'[t]),
                      wire'[t][i].kind = "ack"
               PROVE  Owner[wire'[t][i].on] = t
    BY DEF AcksOfOwner
  <2>1. CASE t = s
    <3>1. i + 1 \in 1..Len(wire[s]) /\ wire'[s][i] = wire[s][i + 1]
      BY <1>2, <2>1
    <3> QED BY <2>1, <3>1 DEF IInv, ChannelInv, AcksOfOwner
  <2>2. CASE t # s
    BY <1>2, <2>2 DEF IInv, ChannelInv, AcksOfOwner
  <2> QED BY <2>1, <2>2
<1>14. PublishedIsAnnounced' /\ StartedIsBound'
  <2>1. Requested \in Events /\ HttpService \in Services
    BY EventFacts, HttpAssumption
  <2> QED BY <1>1, <1>3, <1>8, <2>1 DEF IInv, PublishedIsAnnounced, StartedIsBound
\* A delivery the broker forgets was acknowledged, so its work is done and
\* announced.
<1>15. \A q \in Queues, r \in Requests : WillReturn(q, r) =>
         WillReturn(q, r)' \/ (Owner[q] = s /\ front = AckFrame(q, r))
  <2>1. \A q \in Queues, r \in Requests : ready[q][r] \in Nat /\ ready'[q][r] \in Nat
    BY <1>3 DEF IInv, TypeOK
  <2> QED BY <1>1, <1>3, <1>4, <1>8, <1>9, <2>1 DEF WillReturn
<1>16. ASSUME NEW q \in Queues, NEW r \in Requests, Owner[q] = s,
              front = AckFrame(q, r)
       PROVE  /\ r \in done[q]
              /\ Outcomes[q] # {} => \E e \in Outcomes[q] : <<e, r>> \in routed
  <2>1. 1 \in 1..Len(wire[s]) /\ wire[s][1] = AckFrame(q, r)
    BY <1>2, <1>16 DEF front
  <2>2. r \in done[q] /\ (Outcomes[q] # {} => Announced(q, r, 1))
    BY <1>16, <2>1 DEF IInv, ChannelInv, AcksInOrder
  <2>3. \A e \in Outcomes[q] : wire[s][1] # PublishFrame(e, r)
    BY <2>1, FrameFacts, EventFacts
  <2> QED BY <1>16, <2>2, <2>3 DEF Announced
<1>17. OwedReturns'
  <2>1. \A q \in Queues, r \in Requests : ready'[q][r] > 0 => WillReturn(q, r)'
    BY DEF WillReturn
  <2>2. \A q \in Queues : owed'[q] \subseteq Requests
    BY <1>3
  <2> QED BY <1>1, <1>3, <1>15, <1>16, <2>1, <2>2 DEF IInv, OwedReturns
<1>18. DoneReturns'
  <2>1. \A q \in Queues : done[q] \subseteq Requests
    BY DEF IInv, TypeOK
  <2> QED BY <1>1, <1>3, <1>15, <1>16, <2>1 DEF IInv, DoneReturns
<1> QED BY <1>5, <1>10, <1>11, <1>12, <1>13, <1>14, <1>17, <1>18 DEF IInv, ChannelInv

\* What a channel gives back when it ends is in the queue again.
LEMMA RequeueEffect ==
  ASSUME TypeOK, NEW s \in Services, Requeue(s)
  PROVE  /\ ready' \in [Queues -> [Requests -> Nat]]
         /\ \A q \in Queues, r \in Requests :
              /\ ready[q][r] > 0 => ready'[q][r] > 0
              /\ Owner[q] = s /\ WillReturn(q, r) => ready'[q][r] > 0
<1>1. \A q \in Queues, r \in Requests : ready[q][r] \in Nat /\ Unacked(q, r) \in Nat
  BY UnackedCount DEF TypeOK
<1>2. ASSUME NEW q \in Queues
      PROVE  /\ ready'[q] \in [Requests -> Nat]
             /\ \A r \in Requests :
                  /\ ready[q][r] > 0 => ready'[q][r] > 0
                  /\ Owner[q] = s /\ WillReturn(q, r) => ready'[q][r] > 0
  <2>1. CASE Owner[q] # s
    <3>1. ready'[q] = ready[q]
      BY <2>1 DEF Requeue
    <3> QED BY <2>1, <3>1 DEF TypeOK
  <2>2. CASE Owner[q] = s
    <3>1. ready'[q] = [r \in Requests |-> ready[q][r] + Unacked(q, r)]
      BY <2>2 DEF Requeue
    <3>2. \A r \in Requests : /\ ready'[q][r] = ready[q][r] + Unacked(q, r)
                              /\ ready'[q][r] \in Nat
      BY <1>1, <3>1
    <3>3. ready'[q] \in [Requests -> Nat]
      BY <1>1, <3>1
    <3>4. \A r \in Requests : WillReturn(q, r) => ready[q][r] > 0 \/ Unacked(q, r) > 0
      BY UnackedCount DEF WillReturn
    <3> QED BY <1>1, <3>2, <3>3, <3>4
  <2> QED BY <2>1, <2>2
<1>3. ready' = [q \in Queues |-> ready'[q]]
  BY DEF Requeue
<1> QED BY <1>2, <1>3

\* What the two ways a channel ends have in common for what it gives back.
LEMMA RequeuedReturns ==
  ASSUME IInv, NEW s \in Services, Requeue(s),
         UNCHANGED <<routed, owed, done>>,
         \A q \in Queues : Owner[q] # s => UNCHANGED <<phase[Owner[q]], wire[Owner[q]]>>,
         \A q \in Queues : Owner[q] # s => UNCHANGED handlers[q]
  PROVE  OwedReturns' /\ DoneReturns'
<1>1. \A q \in Queues, r \in Requests : WillReturn(q, r) => WillReturn(q, r)'
  <2>1. \A q \in Queues, r \in Requests : /\ ready[q][r] > 0 => ready'[q][r] > 0
                                          /\ Owner[q] = s /\ WillReturn(q, r) =>
                                               ready'[q][r] > 0
    BY RequeueEffect DEF IInv
  <2>2. ASSUME NEW q \in Queues, NEW r \in Requests, Owner[q] # s, WillReturn(q, r)
        PROVE  WillReturn(q, r)'
    <3>1. Running(q, r)' <=> Running(q, r)
      BY <2>2 DEF Running
    <3>2. Sent(Owner[q], AckFrame(q, r))' <=> Sent(Owner[q], AckFrame(q, r))
      BY <2>2 DEF Sent
    <3> QED BY <2>1, <2>2, <3>1, <3>2 DEF WillReturn
  <2>3. ASSUME NEW q \in Queues, NEW r \in Requests, Owner[q] = s, WillReturn(q, r)
        PROVE  WillReturn(q, r)'
    BY <2>1, <2>3 DEF WillReturn
  <2> QED BY <2>2, <2>3
<1> QED BY <1>1 DEF IInv, TypeOK, OwedReturns, DoneReturns

LEMMA ChannelClosedStep ==
  ASSUME IInv, NEW s \in Services, ChannelClosed(s)
  PROVE  IInv'
<1>1. /\ UNCHANGED <<bound, consuming, request, wire, handlers, routed, owed, done,
                     started, cut, stops>>
      /\ phase[s] = "closing" /\ wire[s] = <<>>
      /\ phase' = [phase EXCEPT ![s] = "closed"]
      /\ Requeue(s)
  BY DEF ChannelClosed, history
<1>2. \A t \in Services : phase'[t] = IF t = s THEN "closed" ELSE phase[t]
  BY <1>1 DEF IInv, TypeOK
<1>3. \A q \in Queues : Owner[q] \in Services
  BY OwnerAssumption
<1>4. /\ ready' \in [Queues -> [Requests -> Nat]]
      /\ \A q \in Queues, r \in Requests :
           /\ ready[q][r] > 0 => ready'[q][r] > 0
           /\ Owner[q] = s /\ WillReturn(q, r) => ready'[q][r] > 0
  BY <1>1, RequeueEffect DEF IInv
<1>5. TypeOK'
  BY <1>1, <1>4 DEF IInv, TypeOK, Phases
<1>6. \A q \in Queues, r \in Requests : Running(q, r)' <=> Running(q, r)
  BY <1>1 DEF Running
<1>7. AtRest'
  <2>1. \A q \in Queues, r \in Requests :
          Owner[q] = s /\ Running(q, r) => ready'[q][r] > 0
    BY <1>1, <1>4 DEF WillReturn, Connected
  <2>2. AtRest
    BY DEF IInv, ChannelInv
  <2> QED BY <1>1, <1>2, <1>3, <1>4, <1>6, <2>1, <2>2 DEF AtRest, Open
<1>8. \A q, r, n : Announced(q, r, n)' <=> Announced(q, r, n)
  BY <1>1 DEF Announced
<1>9. HandlersInOrder' /\ AcksInOrder' /\ AcksOfOwner'
  BY <1>1, <1>8 DEF IInv, ChannelInv, HandlersInOrder, AcksInOrder, AcksOfOwner
<1>10. PublishedIsAnnounced' /\ StartedIsBound'
  BY <1>1 DEF IInv, PublishedIsAnnounced, StartedIsBound, Sent
<1>11. OwedReturns' /\ DoneReturns'
  BY <1>1, <1>2, <1>3, RequeuedReturns
<1> QED BY <1>5, <1>7, <1>9, <1>10, <1>11 DEF IInv, ChannelInv

LEMMA GoneStep ==
  ASSUME IInv, NEW s \in Services, Gone(s), stops' \in 0..MaxStops
  PROVE  IInv'
<1>1. /\ UNCHANGED <<bound, routed, owed, done, started>>
      /\ phase' = [phase EXCEPT ![s] = "down"]
      /\ consuming' = consuming \ QueuesOf(s)
      /\ wire' = [wire EXCEPT ![s] = <<>>]
      /\ cut' = IF wire[s] = <<>> THEN cut ELSE cut \cup {s}
      /\ Requeue(s)
  BY DEF Gone
<1>2. /\ \A t \in Services : /\ phase'[t] = IF t = s THEN "down" ELSE phase[t]
                             /\ wire'[t] = IF t = s THEN <<>> ELSE wire[t]
      /\ wire' \in [Services -> Seq(Frames)]
  <2>1. <<>> \in Seq(Frames)
    OBVIOUS
  <2> QED BY <1>1, <2>1 DEF IInv, TypeOK
<1>3. \A q \in Queues : Owner[q] \in Services /\ (Owner[q] = s <=> q \in QueuesOf(s))
  BY OwnerAssumption DEF QueuesOf
<1>4. /\ ready' \in [Queues -> [Requests -> Nat]]
      /\ \A q \in Queues, r \in Requests : ready[q][r] > 0 => ready'[q][r] > 0
  BY <1>1, RequeueEffect DEF IInv
<1>5. /\ handlers' \in [Queues -> [Requests -> [Stages -> Nat]]]
      /\ \A q \in Queues : Owner[q] # s => handlers'[q] = handlers[q]
      /\ \A q \in Queues, r \in Requests, c \in Stages :
           Owner[q] = s => handlers'[q][r][c] = 0
  <2>1. handlers' = [q \in Queues |-> IF Owner[q] = s
                       THEN [r \in Requests |-> Idle] ELSE handlers[q]]
    BY DEF Gone
  <2>2. [r \in Requests |-> Idle] \in [Requests -> [Stages -> Nat]]
        /\ \A c \in Stages : Idle[c] = 0
    BY DEF Idle
  <2> QED BY <2>1, <2>2 DEF IInv, TypeOK
<1>6. /\ request' \in [Requests -> RequestStates]
      /\ \A r \in Requests : request'[r] = request[r] \/ request'[r] = "error"
      /\ s = HttpService => \A r \in Requests : request'[r] # "published"
  BY DEF Gone, IInv, TypeOK, RequestStates
<1>7. TypeOK'
  <2>1. phase' \in [Services -> Phases] /\ consuming' \subseteq bound
        /\ cut' \subseteq Services
    BY <1>1 DEF IInv, TypeOK, Phases
  <2> QED BY <1>1, <1>2, <1>4, <1>5, <1>6, <2>1 DEF IInv, TypeOK
<1>8. \A q \in Queues, r \in Requests :
        /\ Owner[q] # s => (Running(q, r)' <=> Running(q, r))
        /\ Owner[q] = s => ~Running(q, r)'
  BY <1>5 DEF Running
<1>9. AtRest'
  <2>1. AtRest
    BY DEF IInv, ChannelInv
  <2> QED BY <1>1, <1>2, <1>3, <1>4, <1>8, <2>1 DEF AtRest
<1>10. \A q \in Queues : \A r, n :
         Owner[q] # s => (Announced(q, r, n)' <=> Announced(q, r, n))
  BY <1>1, <1>2, <1>3 DEF Announced
<1>11. Len(wire'[s]) = 0
  BY <1>2
<1>12. HandlersInOrder' /\ AcksInOrder' /\ AcksOfOwner'
  <2>1. HandlersInOrder /\ AcksInOrder /\ AcksOfOwner
    BY DEF IInv, ChannelInv
  <2>2. HandlersInOrder'
    <3>1. \A q \in Queues, r \in Requests : Owner[q] = s =>
            handlers'[q][r]["saved"] = 0 /\ handlers'[q][r]["told"] = 0
      BY <1>5 DEF Stages
    <3>2. \A q \in Queues : Owner[q] # s =>
            wire'[Owner[q]] = wire[Owner[q]] /\ handlers'[q] = handlers[q]
      BY <1>2, <1>3, <1>5
    <3> QED BY <1>1, <1>10, <2>1, <3>1, <3>2 DEF HandlersInOrder
  <2>3. AcksInOrder'
    BY <1>1, <1>2, <1>3, <1>10, <1>11, <2>1 DEF AcksInOrder
  <2>4. AcksOfOwner'
    BY <1>2, <1>11, <2>1 DEF AcksOfOwner
  <2> QED BY <2>2, <2>3, <2>4
<1>13. PublishedIsAnnounced'
  <2> SUFFICES ASSUME NEW r \in Requests, request'[r] \in {"published", "created"}
               PROVE  \/ <<Requested, r>> \in routed
                      \/ Sent(HttpService, PublishFrame(Requested, r))'
                      \/ HttpService \in cut'
    BY <1>1 DEF PublishedIsAnnounced
  <2>1. \/ <<Requested, r>> \in routed
        \/ Sent(HttpService, PublishFrame(Requested, r))
        \/ HttpService \in cut
    BY <1>6 DEF IInv, PublishedIsAnnounced
  <2>2. CASE Sent(HttpService, PublishFrame(Requested, r))
    <3>1. CASE s = HttpService
      <4>1. wire[s] # <<>>
        BY <2>2, <3>1 DEF Sent
      <4> QED BY <1>1, <3>1, <4>1
    <3>2. CASE s # HttpService
      BY <1>2, <2>2, <3>2, HttpAssumption DEF Sent
    <3> QED BY <3>1, <3>2
  <2> QED BY <1>1, <2>1, <2>2
<1>14. StartedIsBound'
  BY <1>1 DEF IInv, StartedIsBound
<1>15. OwedReturns' /\ DoneReturns'
  BY <1>1, <1>2, <1>3, <1>5, RequeuedReturns
<1> QED BY <1>7, <1>9, <1>12, <1>13, <1>14, <1>15 DEF IInv, ChannelInv

LEMMA NextIInv == IInv /\ [Next]_vars => IInv'
<1> SUFFICES ASSUME IInv, [Next]_vars PROVE IInv'
  OBVIOUS
<1>1. stops \in 0..MaxStops
  BY DEF IInv, TypeOK
<1>2. ASSUME NEW s \in Services,
             Start(s) \/ Listen(s) \/ Receive(s) \/ ChannelClosed(s) \/ Stop(s)
      PROVE  IInv'
  BY <1>2, StartStep, ListenStep, ReceiveStep, ChannelClosedStep, StopStep
<1>3. ASSUME NEW s \in Services, Exit(s) \/ Crash(s)
      PROVE  IInv'
  BY <1>1, <1>3, GoneStep, StopsAssumption DEF Exit, Crash
<1>4. ASSUME NEW q \in Queues, SetUp(q) \/ Consume(q)
      PROVE  IInv'
  BY <1>4, HookStep
<1>5. ASSUME NEW r \in Requests,
             Save(r) \/ Publish(r) \/ PublishThrows(r) \/ Answer(r)
      PROVE  IInv'
  BY <1>5, PublishStep, RequestStep
<1>6. ASSUME NEW q \in Queues, NEW r \in Requests,
             Deliver(q, r) \/ Work(q, r) \/ Ack(q, r)
      PROVE  IInv'
  BY <1>6, DeliverStep, WorkStep, AckStep
<1>7. ASSUME NEW q \in Queues, NEW r \in Requests, HandlerThrows(q, r)
      PROVE  IInv'
  BY <1>1, <1>7, GoneStep, OwnerAssumption DEF HandlerThrows
<1>8. ASSUME NEW q \in Queues, NEW r \in Requests, NEW e \in Outcomes[q],
             Tell(q, r, e)
      PROVE  IInv'
  BY <1>8, TellStep
<1>9. CASE UNCHANGED vars
  <2>1. UNCHANGED <<wire, broker, handlers, done, cut>> /\ UNCHANGED <<phase, consuming>>
    BY <1>9 DEF vars, history
  <2>2. TypeOK' /\ PublishedIsAnnounced' /\ StartedIsBound'
    BY <1>9 DEF vars, broker, history, IInv, TypeOK, PublishedIsAnnounced, Sent,
                StartedIsBound
  <2> QED BY <2>1, <2>2, QuietStep DEF IInv, ChannelInv, AtRest
<1> QED BY <1>2, <1>3, <1>4, <1>5, <1>6, <1>7, <1>8, <1>9 DEF Next, Progress

-----------------------------------------------------------------------------
(* Theorems.                                                               *)

LEMMA InvariantHolds == Spec => []IInv
BY InitIInv, NextIInv, PTL DEF Spec

\* Every variable stays in its type, the counts of copies and handlers among
\* them never below zero.
THEOREM TypesHold == Spec => []TypeOK
<1>1. IInv => TypeOK
  BY DEF IInv
<1> QED BY <1>1, InvariantHolds, PTL

\* An event in a queue stays with the broker until the work for it is saved:
\* noAck: false and an ack after the handler are enough for that, whatever
\* process is stopped or dies.
THEOREM NothingTakenAway == Spec => []HeldUntilDone
<1>1. IInv => HeldUntilDone
  <2> SUFFICES ASSUME IInv, NEW q \in Queues, NEW r \in owed[q]
               PROVE  r \in done[q] \/ Held(q, r)
    BY DEF HeldUntilDone
  <2>1. r \in Requests
    BY DEF IInv, TypeOK
  <2> QED BY <2>1, HeldMeans DEF IInv, OwedReturns
<1> QED BY <1>1, InvariantHolds, PTL

\* The transactional gap of a consumer is closed by the order of its frames:
\* what is saved and no longer held by the broker has been announced.
THEOREM OutcomesFollow == Spec => []OutcomeFollowsWork
<1>1. IInv => OutcomeFollowsWork
  <2> SUFFICES ASSUME IInv, NEW q \in Queues, Outcomes[q] # {}, NEW r \in done[q]
               PROVE  Held(q, r) \/ \E e \in Outcomes[q] : <<e, r>> \in routed
    BY DEF OutcomeFollowsWork
  <2>1. r \in Requests
    BY DEF IInv, TypeOK
  <2> QED BY <2>1, HeldMeans DEF IInv, DoneReturns
<1> QED BY <1>1, InvariantHolds, PTL

\* A request answered "created" is with the broker or on its way, unless the
\* process died with frames unsent.
THEOREM AnswersAreAnnounced == Spec => []AnsweredIsAnnounced
<1>1. IInv => AnsweredIsAnnounced
  <2>1. TypeOK => DOMAIN wire[HttpService] = 1..Len(wire[HttpService])
    <3>1. TypeOK => wire[HttpService] \in Seq(Frames)
      BY HttpAssumption DEF TypeOK
    <3> QED BY <3>1, LenProperties
  <2> QED BY <2>1 DEF IInv, PublishedIsAnnounced, AnsweredIsAnnounced, Sent
<1> QED BY <1>1, InvariantHolds, PTL

\* Once a service has been up, every event the broker receives enters its queues.
THEOREM NothingMissed == Spec => NothingMissedOnceStarted
<1> DEFINE Kept ==
      \A q \in Queues, r \in Requests :
        Owner[q] \in started /\ <<Event[q], r>> \in routed' \ routed => r \in owed'[q]
<1>1. IInv /\ [Next]_vars => [Kept]_vars
  <2> SUFFICES ASSUME IInv, Next, NEW q \in Queues, NEW r \in Requests,
                      Owner[q] \in started, <<Event[q], r>> \in routed' \ routed
               PROVE  r \in owed'[q]
    OBVIOUS
  <2>1. q \in bound
    BY DEF IInv, StartedIsBound
  <2>2. CASE \E s \in Services : Receive(s)
    BY <2>1, <2>2, BrokerEffect DEF IInv
  <2>3. CASE ~\E s \in Services : Receive(s)
    <3>1. routed' = routed
      BY <2>3
         DEF Next, Progress, Start, Listen, ChannelClosed, Exit, Gone, SetUp, Consume,
             Publish, PublishThrows, Answer, Deliver, Work, Ack, Finish,
             HandlerThrows, Tell, Save, Stop, Crash, broker
    <3> QED BY <3>1
  <2> QED BY <2>2, <2>3
<1> QED BY <1>1, InvariantHolds, PTL DEF Spec, NothingMissedOnceStarted
=============================================================================
