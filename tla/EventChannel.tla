---------------------------- MODULE EventChannel ----------------------------
(***************************************************************************)
(* The life of the service processes and of the AMQP channel that each of  *)
(* them shares between its publisher and its consumers.                    *)
(*                                                                         *)
(* Checkout publishes in one step, to queues that are all there.  Here a   *)
(* process sets up its queues when it starts, listens for HTTP requests,   *)
(* and is stopped or dies; what it publishes and acknowledges are frames   *)
(* in one FIFO buffer on their way to the broker; and the broker drops an  *)
(* event no queue is bound for.  Handlers here do not throw on their own   *)
(* account: that is RetryTopology.                                         *)
(***************************************************************************)
EXTENDS Integers, Sequences, FiniteSets

CONSTANTS
  Services,     \* service processes
  HttpService,  \* the service whose POST handler saves a row and publishes
  Requested,    \* the event it publishes for a request
  Requests,     \* POST requests; one row and one event each
  Queues,       \* consumer queues
  Owner,        \* Owner[q]: the service that consumes q
  Event,        \* Event[q]: the routing key q is bound to
  Outcomes,     \* Outcomes[q]: events q's handler may publish, {} if it does not
  MaxStops      \* bound: stops and crashes of processes in one behaviour

Events == {Requested} \cup {Event[q] : q \in Queues}
                      \cup UNION {Outcomes[q] : q \in Queues}

ASSUME HttpAssumption == HttpService \in Services
ASSUME OwnerAssumption == Owner \in [Queues -> Services]
ASSUME EventAssumption == DOMAIN Event = Queues /\ DOMAIN Outcomes = Queues
ASSUME StopsAssumption == MaxStops \in Nat

\* Phases of a process:
\*   starting   onModuleInit of the consumers
\*   up         HTTP listens too
\*   closing    channel.close() called: it takes no more frames, HTTP listens
\*   closed     the broker has confirmed, HTTP still listens
Phases == {"down", "starting", "up", "closing", "closed"}
Open == {"starting", "up"}            \* publish and ack do not throw
Connected == Open \cup {"closing"}    \* the broker keeps deliveries unacked
Listening == {"up", "closing", "closed"}

\* How far a handler has run: nothing saved, its work saved, event published.
Stages == {"taken", "saved", "told"}

\* A request: row saved, event handed to the channel, answered.
RequestStates == {"new", "saved", "published", "created", "error"}

PublishFrame(e, r) == [kind |-> "publish", on |-> e, request |-> r]
AckFrame(q, r) == [kind |-> "ack", on |-> q, request |-> r]
Frames == {PublishFrame(e, r) : e \in Events, r \in Requests}
          \cup {AckFrame(q, r) : q \in Queues, r \in Requests}

VARIABLES
  phase,     \* phase[s]
  bound,     \* queues that are declared and bound; durable
  consuming, \* queues their process consumes from
  request,   \* request[r]: what became of it
  wire,      \* wire[s]: frames s has sent that the broker has not received
  ready,     \* ready[q][r]: copies in the queue, not delivered
  handlers,  \* handlers[q][r][stage]: running handlers
  routed,    \* history: pairs <<event, request>> the broker has received
  owed,      \* history: owed[q], requests whose event entered q
  done,      \* history: done[q], requests for which q's work was ever saved
  started,   \* history: services that have been up
  cut,       \* history: services that died with frames not received
  stops      \* stops and crashes so far

broker == <<ready, routed, owed>>
history == <<done, started, cut>>
vars == <<phase, bound, consuming, request, wire, broker, handlers, history,
          stops>>

Idle == [stage \in Stages |-> 0]

Init ==
  /\ phase = [s \in Services |-> "down"]
  /\ bound = {}
  /\ consuming = {}
  /\ request = [r \in Requests |-> "new"]
  /\ wire = [s \in Services |-> <<>>]
  /\ ready = [q \in Queues |-> [r \in Requests |-> 0]]
  /\ handlers = [q \in Queues |-> [r \in Requests |-> Idle]]
  /\ routed = {}
  /\ owed = [q \in Queues |-> {}]
  /\ done = [q \in Queues |-> {}]
  /\ started = {}
  /\ cut = {}
  /\ stops = 0

-----------------------------------------------------------------------------
(* Start.                                                                  *)

QueuesOf(s) == {q \in Queues : Owner[q] = s}

\* RabbitMqModule connects and opens the channel, then onModuleInit begins.
Start(s) ==
  /\ phase[s] = "down"
  /\ phase' = [phase EXCEPT ![s] = "starting"]
  /\ UNCHANGED <<bound, consuming, request, wire, broker, handlers, history,
                 stops>>

\* setupConsumerQueue.  The hooks of the consumers of one service interleave.
SetUp(q) ==
  /\ phase[Owner[q]] = "starting"
  /\ q \notin bound
  /\ bound' = bound \cup {q}
  /\ UNCHANGED <<phase, consuming, request, wire, broker, handlers, history,
                 stops>>

\* Mutant: setupConsumerQueue is not awaited.
ConsumeAtOnce(q) ==
  /\ phase[Owner[q]] = "starting"
  /\ q \notin consuming
  /\ consuming' = consuming \cup {q}
  /\ UNCHANGED <<phase, bound, request, wire, broker, handlers, history, stops>>

\* channel.consume.
Consume(q) ==
  /\ phase[Owner[q]] = "starting"
  /\ q \in bound \ consuming
  /\ consuming' = consuming \cup {q}
  /\ UNCHANGED <<phase, bound, request, wire, broker, handlers, history, stops>>

\* Mutant: HTTP listens before the consumers' hooks have finished.
ListenFirst(s) ==
  /\ phase[s] = "starting"
  /\ phase' = [phase EXCEPT ![s] = "up"]
  /\ started' = started \cup {s}
  /\ UNCHANGED <<bound, consuming, request, wire, broker, handlers, done, cut,
                 stops>>

\* app.listen: HTTP listens when every onModuleInit has resolved.
Listen(s) ==
  /\ phase[s] = "starting"
  /\ QueuesOf(s) \subseteq consuming
  /\ phase' = [phase EXCEPT ![s] = "up"]
  /\ started' = started \cup {s}
  /\ UNCHANGED <<bound, consuming, request, wire, broker, handlers, done, cut,
                 stops>>

-----------------------------------------------------------------------------
(* A POST request: save, publish, answer.                                  *)

Save(r) ==
  /\ phase[HttpService] \in Listening
  /\ request[r] = "new"
  /\ request' = [request EXCEPT ![r] = "saved"]
  /\ UNCHANGED <<phase, bound, consuming, wire, broker, handlers, history,
                 stops>>

Send(s, frame) == wire' = [wire EXCEPT ![s] = Append(@, frame)]

Publish(r) ==
  /\ request[r] = "saved"
  /\ phase[HttpService] = "up"
  /\ Send(HttpService, PublishFrame(Requested, r))
  /\ request' = [request EXCEPT ![r] = "published"]
  /\ UNCHANGED <<phase, bound, consuming, broker, handlers, history, stops>>

\* channel.publish throws on a channel that closes: 500, and the row stays.
PublishThrows(r) ==
  /\ request[r] = "saved"
  /\ phase[HttpService] \in {"closing", "closed"}
  /\ request' = [request EXCEPT ![r] = "error"]
  /\ UNCHANGED <<phase, bound, consuming, wire, broker, handlers, history,
                 stops>>

Answer(r) ==
  /\ request[r] = "published"
  /\ request' = [request EXCEPT ![r] = "created"]
  /\ UNCHANGED <<phase, bound, consuming, wire, broker, handlers, history,
                 stops>>

-----------------------------------------------------------------------------
(* A handler: deliver, save its work, publish the outcome, ack.            *)

Step(q, r, a, b) ==
  handlers' = [handlers EXCEPT ![q][r][a] = @ - 1, ![q][r][b] = @ + 1]

Deliver(q, r) ==
  /\ q \in consuming
  /\ ready[q][r] > 0
  /\ ready' = [ready EXCEPT ![q][r] = @ - 1]
  /\ handlers' = [handlers EXCEPT ![q][r]["taken"] = @ + 1]
  /\ UNCHANGED <<phase, bound, consuming, request, wire, routed, owed, history,
                 stops>>

\* A handler that has its message goes on while its process lives.
Work(q, r) ==
  /\ handlers[q][r]["taken"] > 0
  /\ Step(q, r, "taken", "saved")
  /\ done' = [done EXCEPT ![q] = @ \cup {r}]
  /\ UNCHANGED <<phase, bound, consuming, request, wire, broker, started, cut,
                 stops>>

Tell(q, r, e) ==
  /\ handlers[q][r]["saved"] > 0
  /\ phase[Owner[q]] \in Open
  /\ Step(q, r, "saved", "told")
  /\ Send(Owner[q], PublishFrame(e, r))
  /\ UNCHANGED <<phase, bound, consuming, request, broker, history, stops>>

Finish(q, r, stage) ==
  /\ handlers[q][r][stage] > 0
  /\ phase[Owner[q]] \in Open
  /\ handlers' = [handlers EXCEPT ![q][r][stage] = @ - 1]
  /\ Send(Owner[q], AckFrame(q, r))
  /\ UNCHANGED <<phase, bound, consuming, request, broker, history, stops>>

LastStage(q) == IF Outcomes[q] = {} THEN "saved" ELSE "told"

\* Mutant: handleEvent is not awaited before the ack.
AckUnfinished(q, r) == \E stage \in {"taken", "saved"} : Finish(q, r, stage)

\* Mutant: the service's publish is not awaited, the ack goes first.
AckBeforeTelling(q, r) == Finish(q, r, "saved")

\* handleEvent has resolved.
Ack(q, r) == Finish(q, r, LastStage(q))

-----------------------------------------------------------------------------
(* The broker.                                                             *)

Route(e, r) ==
  LET reached == {q \in bound : Event[q] = e}
  IN /\ ready' = [q \in Queues |-> IF q \in reached
                    THEN [ready[q] EXCEPT ![r] = @ + 1] ELSE ready[q]]
     /\ owed' = [q \in Queues |-> IF q \in reached THEN owed[q] \cup {r}
                                  ELSE owed[q]]
     /\ routed' = routed \cup {<<e, r>>}

\* The broker takes the next frame.  An event goes to the queues bound now and
\* is otherwise dropped (mandatory is not set); an ack forgets a delivery.
Receive(s) ==
  /\ phase[s] \in Connected
  /\ wire[s] # <<>>
  /\ wire' = [wire EXCEPT ![s] = Tail(@)]
  /\ LET frame == Head(wire[s])
     IN IF frame.kind = "publish" THEN Route(frame.on, frame.request)
        ELSE UNCHANGED broker
  /\ UNCHANGED <<phase, bound, consuming, request, handlers, history, stops>>

\* Acks of copies of q for r that the broker has not received.
AcksUnderWay(q, r) ==
  Cardinality({i \in DOMAIN wire[Owner[q]] : wire[Owner[q]][i] = AckFrame(q, r)})

\* Copies of q for r that the broker has delivered on an open channel.
Unacked(q, r) ==
  IF phase[Owner[q]] \in Connected
  THEN handlers[q][r]["taken"] + handlers[q][r]["saved"]
       + handlers[q][r]["told"] + AcksUnderWay(q, r)
  ELSE 0

\* Mutant: the consumers are registered with noAck.
RequeueNone(s) == ready' = ready

\* noAck: false: a channel that ends gives back what it has not acknowledged.
Requeue(s) ==
  ready' = [q \in Queues |-> IF Owner[q] # s THEN ready[q]
              ELSE [r \in Requests |-> ready[q][r] + Unacked(q, r)]]

-----------------------------------------------------------------------------
(* Stop.                                                                   *)

\* SIGTERM with shutdown hooks: onModuleDestroy of RabbitMqPublisher comes
\* before the HTTP server is closed.  (During start it makes onModuleInit throw,
\* and bootstrap with it: that is a crash.)
Stop(s) ==
  /\ phase[s] = "up"
  /\ stops < MaxStops
  /\ stops' = stops + 1
  /\ phase' = [phase EXCEPT ![s] = "closing"]
  /\ consuming' = consuming \ QueuesOf(s)
  /\ UNCHANGED <<bound, request, wire, broker, handlers, history>>

\* Mutant: the connection is closed without waiting for the channel.
ChannelDropped(s) ==
  /\ phase[s] = "closing"
  /\ phase' = [phase EXCEPT ![s] = "closed"]
  /\ wire' = [wire EXCEPT ![s] = <<>>]
  /\ Requeue(s)
  /\ UNCHANGED <<bound, consuming, request, handlers, routed, owed, history,
                 stops>>

\* channel.close resolves when the broker has taken everything before it.
ChannelClosed(s) ==
  /\ phase[s] = "closing"
  /\ wire[s] = <<>>
  /\ phase' = [phase EXCEPT ![s] = "closed"]
  /\ Requeue(s)
  /\ UNCHANGED <<bound, consuming, request, wire, handlers, routed, owed,
                 history, stops>>

\* The process is gone, with its handlers and requests and unsent frames.
Gone(s) ==
  /\ phase' = [phase EXCEPT ![s] = "down"]
  /\ consuming' = consuming \ QueuesOf(s)
  /\ handlers' = [q \in Queues |-> IF Owner[q] = s
                    THEN [r \in Requests |-> Idle] ELSE handlers[q]]
  /\ request' = [r \in Requests |->
       IF s = HttpService /\ request[r] \in {"saved", "published"}
       THEN "error" ELSE request[r]]
  /\ wire' = [wire EXCEPT ![s] = <<>>]
  /\ cut' = IF wire[s] = <<>> THEN cut ELSE cut \cup {s}
  /\ Requeue(s)
  /\ UNCHANGED <<bound, routed, owed, done, started>>

\* HTTP is closed when the requests under way are answered; then the end.
Exit(s) ==
  /\ phase[s] = "closed"
  /\ s = HttpService => \A r \in Requests : request[r] \notin {"saved", "published"}
  /\ Gone(s)
  /\ UNCHANGED stops

\* A handler whose work is saved finds the channel closed: publish or ack
\* throws, so does the nack in the catch block, and an unhandled rejection
\* ends the process.
HandlerThrows(q, r) ==
  /\ phase[Owner[q]] \in {"closing", "closed"}
  /\ \E stage \in {"saved", "told"} : handlers[q][r][stage] > 0
  /\ Gone(Owner[q])
  /\ UNCHANGED stops

Crash(s) ==
  /\ phase[s] # "down"
  /\ stops < MaxStops
  /\ stops' = stops + 1
  /\ Gone(s)

-----------------------------------------------------------------------------
\* What the processes, the broker and the deployment owe.
Progress ==
  \/ \E s \in Services :
       Start(s) \/ Listen(s) \/ Receive(s) \/ ChannelClosed(s) \/ Exit(s)
  \/ \E q \in Queues : SetUp(q) \/ Consume(q)
  \/ \E r \in Requests : Publish(r) \/ PublishThrows(r) \/ Answer(r)
  \/ \E q \in Queues, r \in Requests :
       \/ Deliver(q, r) \/ Work(q, r) \/ Ack(q, r) \/ HandlerThrows(q, r)
       \/ \E e \in Outcomes[q] : Tell(q, r, e)

Next ==
  \/ Progress
  \/ \E r \in Requests : Save(r)
  \/ \E s \in Services : Stop(s) \/ Crash(s)

Spec == Init /\ [][Next]_vars

\* Requests, deliveries and stops are finite in number, so every behaviour
\* ends, and it is enough that the system goes on while it has a step to take;
\* a process that is down is started again.
FairSpec == Spec /\ WF_vars(Progress)

-----------------------------------------------------------------------------
(* Properties.                                                             *)

TypeOK ==
  /\ phase \in [Services -> Phases]
  /\ bound \in SUBSET Queues
  /\ consuming \in SUBSET bound
  /\ request \in [Requests -> RequestStates]
  /\ wire \in [Services -> Seq(Frames)]
  /\ ready \in [Queues -> [Requests -> Nat]]
  /\ handlers \in [Queues -> [Requests -> [Stages -> Nat]]]
  /\ routed \in SUBSET (Events \X Requests)
  /\ owed \in [Queues -> SUBSET Requests]
  /\ done \in [Queues -> SUBSET Requests]
  /\ started \in SUBSET Services
  /\ cut \in SUBSET Services
  /\ stops \in 0..MaxStops

\* The broker will (again) deliver q's event for r.
Held(q, r) == ready[q][r] > 0 \/ Unacked(q, r) > 0

\* Saving and publishing are two steps and the code has no outbox.  The order
\* save, publish, ack on ONE channel makes up for it in the consumers: when a
\* handler's work is saved and its trigger is gone from the broker, an outcome
\* of it has reached the broker, whoever was stopped or died when.
OutcomeFollowsWork ==
  \A q \in Queues : Outcomes[q] # {} =>
    \A r \in done[q] :
      Held(q, r) \/ \E e \in Outcomes[q] : <<e, r>> \in routed

\* An event that has entered a queue stays with the broker until the queue's
\* handler has saved its work: no stop or crash, of whatever process, at
\* whatever moment, takes it away.
HeldUntilDone ==
  \A q \in Queues : \A r \in owed[q] : r \in done[q] \/ Held(q, r)

\* The POST handler has no trigger that is delivered again.  Still, a request
\* that was answered "created" has its event with the broker or on its way,
\* unless the process died with frames unsent: a graceful stop loses nothing,
\* though it closes the channel before the HTTP server.
AnsweredIsAnnounced ==
  \A r \in Requests : request[r] = "created" =>
    \/ <<Requested, r>> \in routed
    \/ \E i \in DOMAIN wire[HttpService] :
         wire[HttpService][i] = PublishFrame(Requested, r)
    \/ HttpService \in cut

\* Services start in any order, and an event is dropped where its queue is not
\* there yet.  Once a service has been up it misses nothing, not even while it
\* is down: whatever reaches the broker from then on enters its queues.
NothingMissedOnceStarted ==
  [][\A q \in Queues, r \in Requests :
       Owner[q] \in started /\ <<Event[q], r>> \in routed' \ routed
         => r \in owed'[q]]_vars

\* What has entered a queue is handled in the end, though its process is
\* stopped and started.
OwedIsDone == \A q \in Queues, r \in Requests : r \in owed[q] ~> r \in done[q]
=============================================================================
