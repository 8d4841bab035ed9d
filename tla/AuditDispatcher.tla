-------------------------- MODULE AuditDispatcher --------------------------
(***************************************************************************)
(* The fan-out of audit events inside one replica: handlers emit events,   *)
(* a buffered Go channel queues them, worker goroutines notify the live    *)
(* subscribers and deliver to the sinks with retries, and Stop drains the  *)
(* channel at shutdown.  Goroutines of one process are modelled, so the    *)
(* state is lost when the process dies: a send on a closed channel in a    *)
(* worker is a panic nobody recovers.  The context given to Start is never *)
(* cancelled, so the branches for its cancellation cannot be taken.  No    *)
(* name is also one of AuditSealing, so that AuditProofs can extend both.  *)
(***************************************************************************)
EXTENDS Naturals, Sequences, FiniteSets

CONSTANTS
  Events,       \* events the handlers emit
  NoEvent,      \* what a worker without an event holds
  Workers,      \* worker goroutines (workerCount)
  Sinks,        \* sinks of the organisation
  MqttSinks,    \* those of type mqtt, which connect to a broker first
  Subscribers,  \* live streams, each with a channel of its own
  Buffer,       \* channelBuffer
  SubBuffer,    \* capacity of a subscriber's channel
  MaxRetries    \* maxRetries

ASSUME DispatcherConstants ==
  /\ NoEvent \notin Events
  /\ IsFiniteSet(Events)
  /\ Workers # {}
  /\ MqttSinks \subseteq Sinks
  /\ Buffer \in Nat \ {0} /\ SubBuffer \in Nat \ {0} /\ MaxRetries \in Nat \ {0}

VARIABLES
  emit,       \* how far the handler that emits an event got
  ch,         \* the queued events
  closed,     \* close(d.ch) was called
  worker,     \* the locals of each worker
  delivery,   \* the goroutine of deliverWithRetry of an event and a sink
  stats,      \* success_count and failure_count of a sink, and updates that failed
  received,   \* how often a sink received an event (external; history)
  reachable,  \* mqtt sinks whose broker accepts connections (external)
  subs,       \* the channels listed in d.subs
  sub,        \* where each live stream is
  buf,        \* the events buffered for each live stream
  stop,       \* the call of Stop
  dead        \* the process died of a panic

streams == <<subs, sub, buf>>
sinkVars == <<delivery, stats, received, reachable>>
dispatchVars == <<emit, ch, closed, worker, sinkVars, streams, stop, dead>>

Emit == {"new", "recorded", "unrecorded", "queued", "dropped", "panicked"}
Worker == [pc : {"range", "snapshot", "notify", "wait", "exited"},
           ev : Events \cup {NoEvent}, snap : SUBSET Subscribers]
Delivery == [pc : {"none", "build", "connect", "send", "backoff", "record", "done"},
             attempt : 0..MaxRetries, ok : BOOLEAN]

NoDelivery == [pc |-> "none", attempt |-> 0, ok |-> FALSE]
NewDelivery == [pc |-> "build", attempt |-> 0, ok |-> FALSE]
IdleWorker == [pc |-> "range", ev |-> NoEvent, snap |-> {}]

(* The types, and that no buffer is filled beyond its capacity. *)
DispatchTypeOK ==
  /\ emit \in [Events -> Emit]
  /\ ch \in Seq(Events) /\ Len(ch) <= Buffer
  /\ closed \in BOOLEAN
  /\ worker \in [Workers -> Worker]
  /\ delivery \in [Events -> [Sinks -> Delivery]]
  /\ stats \in [Sinks -> [ok : Nat, failed : Nat, lost : Nat]]
  /\ received \in [Events -> [Sinks -> Nat]]
  /\ reachable \subseteq MqttSinks
  /\ subs \subseteq Subscribers
  /\ sub \in [Subscribers -> {"new", "open", "unlisted", "closed"}]
  /\ buf \in [Subscribers -> Seq(Events)]
  /\ \A c \in Subscribers : Len(buf[c]) <= SubBuffer
  /\ stop \in {"running", "waiting", "returned"}
  /\ dead \in BOOLEAN

(* NewDispatcher and Start. *)
DispatchInit ==
  /\ emit = [e \in Events |-> "new"]
  /\ ch = <<>>
  /\ closed = FALSE
  /\ worker = [w \in Workers |-> IdleWorker]
  /\ delivery = [e \in Events |-> [s \in Sinks |-> NoDelivery]]
  /\ stats = [s \in Sinks |-> [ok |-> 0, failed |-> 0, lost |-> 0]]
  /\ received = [e \in Events |-> [s \in Sinks |-> 0]]
  /\ reachable \in SUBSET MqttSinks
  /\ subs = {}
  /\ sub = [c \in Subscribers |-> "new"]
  /\ buf = [c \in Subscribers |-> <<>>]
  /\ stop = "running"
  /\ dead = FALSE

(***************************************************************************)
(* Handlers: Emit stores the event, then publishes it.                     *)
(***************************************************************************)

(* An event that cannot be stored is not published either. *)
RecordEvent(e) ==
  /\ emit[e] = "new"
  /\ \E result \in {"recorded", "unrecorded"} : emit' = [emit EXCEPT ![e] = result]
  /\ UNCHANGED <<ch, closed, worker, sinkVars, streams, stop, dead>>

(* Mutant: the buffer is taken to be unbounded. *)
RoomAlways == TRUE

Room == Len(ch) < Buffer

(* Publish never blocks.  Shutdown stops the dispatcher before the HTTP    *)
(* server, so a handler in flight may meet the closed channel: its panic   *)
(* is recovered by the middleware.                                         *)
Publish(e) ==
  /\ emit[e] = "recorded"
  /\ \/ /\ closed
        /\ emit' = [emit EXCEPT ![e] = "panicked"]
        /\ UNCHANGED ch
     \/ /\ ~closed /\ Room
        /\ emit' = [emit EXCEPT ![e] = "queued"]
        /\ ch' = Append(ch, e)
     \/ /\ ~closed /\ ~Room
        /\ emit' = [emit EXCEPT ![e] = "dropped"]
        /\ UNCHANGED ch
  /\ UNCHANGED <<closed, worker, sinkVars, streams, stop, dead>>

(***************************************************************************)
(* Live streams.                                                           *)
(***************************************************************************)

Subscribe(c) ==
  /\ sub[c] = "new"
  /\ sub' = [sub EXCEPT ![c] = "open"]
  /\ subs' = subs \cup {c}
  /\ UNCHANGED <<emit, ch, closed, worker, sinkVars, buf, stop, dead>>

(* The stream handler takes an event and writes it to its client. *)
Receive(c) ==
  /\ sub[c] = "open" /\ buf[c] # <<>>
  /\ buf' = [buf EXCEPT ![c] = Tail(@)]
  /\ UNCHANGED <<emit, ch, closed, worker, sinkVars, subs, sub, stop, dead>>

(* The client is gone: cancel takes the channel out of the list ... *)
Unlist(c) ==
  /\ sub[c] = "open"
  /\ sub' = [sub EXCEPT ![c] = "unlisted"]
  /\ subs' = subs \ {c}
  /\ UNCHANGED <<emit, ch, closed, worker, sinkVars, buf, stop, dead>>

(* ... and, after the unlock, closes and drains it. *)
CloseStream(c) ==
  /\ sub[c] = "unlisted"
  /\ sub' = [sub EXCEPT ![c] = "closed"]
  /\ buf' = [buf EXCEPT ![c] = <<>>]
  /\ UNCHANGED <<emit, ch, closed, worker, sinkVars, subs, stop, dead>>

(***************************************************************************)
(* Workers.                                                                *)
(***************************************************************************)

(* Mutant: a worker does not notice the end of the channel. *)
AtEndNever == FALSE

(* Mutant: a worker leaves as soon as the channel is closed. *)
AtEndClosed == closed

AtEnd == closed /\ ch = <<>>

(* Range over the channel: the next event, or the end when it is closed    *)
(* and empty.                                                              *)
RangeChannel(w) ==
  /\ worker[w].pc = "range"
  /\ \/ /\ ch # <<>>
        /\ worker' = [worker EXCEPT ![w] = [@ EXCEPT !.pc = "snapshot", !.ev = Head(ch)]]
        /\ ch' = Tail(ch)
     \/ /\ AtEnd
        /\ worker' = [worker EXCEPT ![w].pc = "exited"]
        /\ UNCHANGED ch
  /\ UNCHANGED <<emit, closed, sinkVars, streams, stop, dead>>

(* notifySubscribers copies the list under the read lock. *)
Snapshot(w) ==
  /\ worker[w].pc = "snapshot"
  /\ worker' = [worker EXCEPT ![w] = [@ EXCEPT !.pc = "notify", !.snap = subs]]
  /\ UNCHANGED <<emit, ch, closed, sinkVars, streams, stop, dead>>

(* It then sends without the lock: a slow stream misses the event, and a   *)
(* stream that was closed in the meantime is fatal.                        *)
Notify(w, c) ==
  /\ worker[w].pc = "notify" /\ c \in worker[w].snap
  /\ worker' = [worker EXCEPT ![w].snap = @ \ {c}]
  /\ dead' = (sub[c] = "closed")
  /\ buf' = IF sub[c] # "closed" /\ Len(buf[c]) < SubBuffer
            THEN [buf EXCEPT ![c] = Append(@, worker[w].ev)]
            ELSE buf
  /\ UNCHANGED <<emit, ch, closed, sinkVars, subs, sub, stop>>

(* fanOut loads the sinks, A of which are active and match the event, and  *)
(* starts a goroutine for each; without sinks, or when the query fails,    *)
(* the worker takes the next event.                                        *)
LoadSinks(w, A) ==
  LET e == worker[w].ev IN
  /\ worker[w].pc = "notify" /\ worker[w].snap = {}
  /\ worker' = [worker EXCEPT ![w] = IF A = {} THEN IdleWorker ELSE [@ EXCEPT !.pc = "wait"]]
  /\ delivery' = [delivery EXCEPT ![e] =
                    [s \in Sinks |-> IF s \in A THEN NewDelivery ELSE @[s]]]
  /\ UNCHANGED <<emit, ch, closed, stats, received, reachable, streams, stop, dead>>

Delivered(e) == \A s \in Sinks : delivery[e][s].pc \in {"none", "done"}

(* Mutant: fanOut does not wait for its goroutines. *)
WaitNot(w) ==
  /\ worker[w].pc = "wait"
  /\ worker' = [worker EXCEPT ![w] = IdleWorker]
  /\ UNCHANGED <<emit, ch, closed, sinkVars, streams, stop, dead>>

Wait(w) ==
  /\ worker[w].pc = "wait"
  /\ Delivered(worker[w].ev)
  /\ worker' = [worker EXCEPT ![w] = IdleWorker]
  /\ UNCHANGED <<emit, ch, closed, sinkVars, streams, stop, dead>>

(***************************************************************************)
(* deliverWithRetry.                                                       *)
(***************************************************************************)

SetDelivery(e, s, d) == delivery' = [delivery EXCEPT ![e][s] = d]

FirstAttempt == [pc |-> "send", attempt |-> 1, ok |-> FALSE]

(* The sink's configuration is refused, or there is a sink to send to.  An *)
(* mqtt sink connects first.                                               *)
BuildSink(e, s) ==
  /\ delivery[e][s].pc = "build"
  /\ \/ SetDelivery(e, s, IF s \in MqttSinks THEN [NewDelivery EXCEPT !.pc = "connect"]
                                              ELSE FirstAttempt)
     \/ SetDelivery(e, s, [pc |-> "record", attempt |-> 0, ok |-> FALSE])
  /\ UNCHANGED <<emit, ch, closed, worker, stats, received, reachable, streams, stop, dead>>

(* NewMQTTSink waits for the broker, with ConnectRetry and without a       *)
(* context or a timeout: it returns when the broker accepts.               *)
ConnectMQTT(e, s) ==
  /\ delivery[e][s].pc = "connect"
  /\ s \in reachable
  /\ SetDelivery(e, s, FirstAttempt)
  /\ UNCHANGED <<emit, ch, closed, worker, stats, received, reachable, streams, stop, dead>>

(* A broker goes away or comes back. *)
BrokerChange(s) ==
  /\ reachable' = IF s \in reachable THEN reachable \ {s} ELSE reachable \cup {s}
  /\ UNCHANGED <<emit, ch, closed, worker, delivery, stats, received, streams, stop, dead>>

(* Mutant: the last attempt is tried again. *)
AfterFailureEndless(d) == [d EXCEPT !.pc = "backoff", !.attempt = 1]

AfterFailure(d) ==
  IF d.attempt < MaxRetries THEN [d EXCEPT !.pc = "backoff"] ELSE [d EXCEPT !.pc = "record"]

(* Send of a sink: it answers with success, or there is an error, a bad    *)
(* status or a timeout, before or after it received the event.             *)
SendOutcomes ==
  {[ok |-> TRUE, n |-> 1], [ok |-> FALSE, n |-> 1], [ok |-> FALSE, n |-> 0]}

Send(e, s) ==
  /\ delivery[e][s].pc = "send"
  /\ \E o \in SendOutcomes :
       /\ received' = [received EXCEPT ![e][s] = @ + o.n]
       /\ SetDelivery(e, s, IF o.ok THEN [delivery[e][s] EXCEPT !.pc = "record", !.ok = TRUE]
                                    ELSE AfterFailure(delivery[e][s]))
  /\ UNCHANGED <<emit, ch, closed, worker, stats, reachable, streams, stop, dead>>

Backoff(e, s) ==
  /\ delivery[e][s].pc = "backoff"
  /\ SetDelivery(e, s, [delivery[e][s] EXCEPT !.pc = "send", !.attempt = @ + 1])
  /\ UNCHANGED <<emit, ch, closed, worker, stats, received, reachable, streams, stop, dead>>

(* UpdateSinkStats; its failure is logged. *)
RecordStats(e, s) ==
  /\ delivery[e][s].pc = "record"
  /\ \/ stats' = IF delivery[e][s].ok THEN [stats EXCEPT ![s].ok = @ + 1]
                                      ELSE [stats EXCEPT ![s].failed = @ + 1]
     \/ stats' = [stats EXCEPT ![s].lost = @ + 1]
  /\ SetDelivery(e, s, [delivery[e][s] EXCEPT !.pc = "done"])
  /\ UNCHANGED <<emit, ch, closed, worker, received, reachable, streams, stop, dead>>

(***************************************************************************)
(* Shutdown calls Stop once.                                               *)
(***************************************************************************)

StopClose ==
  /\ stop = "running"
  /\ closed' = TRUE
  /\ stop' = "waiting"
  /\ UNCHANGED <<emit, ch, worker, sinkVars, streams, dead>>

(* d.wg.Wait *)
StopReturn ==
  /\ stop = "waiting"
  /\ \A w \in Workers : worker[w].pc = "exited"
  /\ stop' = "returned"
  /\ UNCHANGED <<emit, ch, closed, worker, sinkVars, streams, dead>>

WorkerStep(w) ==
  \/ RangeChannel(w) \/ Snapshot(w) \/ Wait(w)
  \/ \E c \in Subscribers : Notify(w, c)
  \/ \E A \in SUBSET Sinks : LoadSinks(w, A)

DeliveryStep(e, s) ==
  BuildSink(e, s) \/ ConnectMQTT(e, s) \/ Send(e, s) \/ Backoff(e, s) \/ RecordStats(e, s)

DispatchNext ==
  /\ ~dead
  /\ \/ \E e \in Events : RecordEvent(e) \/ Publish(e)
     \/ \E c \in Subscribers : Subscribe(c) \/ Receive(c) \/ Unlist(c) \/ CloseStream(c)
     \/ \E w \in Workers : WorkerStep(w)
     \/ \E e \in Events, s \in Sinks : DeliveryStep(e, s)
     \/ \E s \in MqttSinks : BrokerChange(s)
     \/ StopClose \/ StopReturn

DispatchSpec == DispatchInit /\ [][DispatchNext]_dispatchVars

(***************************************************************************)
(* Fairness.  The Go scheduler runs every goroutine that can run; a Send   *)
(* ends within deliveryTimeout.  Nothing is assumed of clients, nor of     *)
(* brokers: a delivery waits in ConnectMQTT as long as its broker is away. *)
(***************************************************************************)
DispatchFairness ==
  /\ \A e \in Events : WF_dispatchVars(~dead /\ Publish(e))
  /\ \A w \in Workers : WF_dispatchVars(~dead /\ WorkerStep(w))
  /\ \A e \in Events, s \in Sinks : WF_dispatchVars(~dead /\ DeliveryStep(e, s))
  /\ WF_dispatchVars(~dead /\ StopReturn)

DispatchFairSpec == DispatchSpec /\ DispatchFairness

(***************************************************************************)
(* Properties.                                                             *)
(***************************************************************************)

(* "Stop drains the channel and waits for all in-flight deliveries to      *)
(* complete": when it returns, no event is queued and no delivery under    *)
(* way, retries and the update of the statistics included.                 *)
StopDrains ==
  stop = "returned" => ch = <<>> /\ \A e \in Events : Delivered(e)

(* However deliveries of one sink overlap, each has one verdict, the       *)
(* statistics count it once, and a sink is credited with no more           *)
(* successes than events it received.  A sink whose answers are lost       *)
(* receives an event MaxRetries times at most, and an event that was       *)
(* dropped or never stored not at all.                                     *)
OneVerdict ==
  \A s \in Sinks :
    /\ stats[s].ok + stats[s].failed + stats[s].lost =
         Cardinality({e \in Events : delivery[e][s].pc = "done"})
    /\ stats[s].ok <= Cardinality({e \in Events : received[e][s] > 0})
    /\ \A e \in Events : /\ received[e][s] <= MaxRetries
                         /\ received[e][s] > 0 => emit[e] = "queued"

BrokersComeBack == <>[](reachable = MqttSinks)

(* Stop returns, however many retries are under way and whoever still      *)
(* publishes or streams, unless a cancelled stream kills the process and   *)
(* provided that brokers that went away come back: without that a delivery *)
(* to an mqtt sink, its worker and Stop wait for ever.                     *)
StopReturns == BrokersComeBack => ((stop = "waiting") ~> (stop = "returned" \/ dead))

(* Every event that was stored is handed to the sinks or refused by        *)
(* Publish: none is left in the channel, under the same two provisos.      *)
Settled(e) ==
  \/ emit[e] \in {"dropped", "panicked"}
  \/ /\ emit[e] = "queued" /\ Delivered(e)
     /\ \A i \in 1..Len(ch) : ch[i] # e
     /\ \A w \in Workers : worker[w].ev # e

EventsSettle ==
  BrokersComeBack => \A e \in Events : (emit[e] = "recorded") ~> (Settled(e) \/ dead)
=============================================================================
