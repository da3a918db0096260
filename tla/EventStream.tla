------------------------------ MODULE EventStream ------------------------------
(***************************************************************************)
(* The public events of one Task on their way to the browsers that watch   *)
(* it: EventPublisher and EventBroker of the API server, the SSE endpoint, *)
(* and the EventSource clients that reconnect to it.                       *)
(*                                                                         *)
(* Writers are the threads that change the Task: each persists a change    *)
(* and publishes its event inside one locked section, of the RunGate for a *)
(* native Run and of the WorkerHub lock for a local Worker's Task.  The    *)
(* endpoint subscribes, enqueues and sends on the event loop; to subscribe *)
(* it registers a queue and reads a snapshot of the Task under the broker  *)
(* lock, and the snapshot of a local Worker's Task takes the hub lock.     *)
(***************************************************************************)
EXTENDS Naturals, Sequences, FiniteSets

CONSTANTS Writers,     \* threads that change the Task
          Clients,     \* EventSource clients
          MaxChanges,  \* changes of the Task; the last one is its terminal
          QueueSize,   \* THREADFORGE_SSE_QUEUE_SIZE
          MaxDrops,    \* connections the network may drop
          Local        \* whether a local Worker executes the Task

ASSUME StreamBounds ==
  MaxChanges \in Nat \ {0} /\ QueueSize \in Nat \ {0} /\ MaxDrops \in Nat /\ Local \in BOOLEAN
ASSUME StreamClients == IsFiniteSet(Clients)

Versions == 0 .. MaxChanges
Closed   == MaxChanges + 1      \* the CLOSED sentinel in a queue of versions

VARIABLES version,    \* changes persisted; the event of change v shows v
          section,    \* the writers inside their locked section
          writer,     \* where each writer is: "idle", "persisted", "listed"
          targets,    \* the subscribers a writer found registered
          broker,     \* the client whose subscription holds the broker lock ({}: free)
          registered, \* clients whose queue is registered
          calls,      \* callbacks scheduled on the event loop, in order
          queue,      \* each subscriber's queue
          client,     \* where each client is: "away", "read", "snapshot", "stream", "ended"
          snap,       \* the version its snapshot has
          got,        \* events received on the current stream
          shown,      \* the version each client shows
          lost,       \* clients an event of the current stream was discarded for
          drops       \* connections dropped so far

vars == <<version, section, writer, targets, broker, registered, calls, queue, client, snap,
          got, shown, lost, drops>>

Init ==
  /\ version = 0 /\ section = {} /\ broker = {} /\ registered = {} /\ calls = <<>>
  /\ writer = [w \in Writers |-> "idle"] /\ targets = [w \in Writers |-> {}]
  /\ queue = [c \in Clients |-> <<>>] /\ client = [c \in Clients |-> "away"]
  /\ snap = [c \in Clients |-> 0] /\ got = [c \in Clients |-> {}]
  /\ shown = [c \in Clients |-> 0] /\ lost = {} /\ drops = 0

-----------------------------------------------------------------------------
(* A writer.                                                               *)

\* Inside the section the change is persisted first.
Change(w) ==
  /\ writer[w] = "idle" /\ section = {} /\ version < MaxChanges
  /\ section' = {w} /\ version' = version + 1
  /\ writer' = [writer EXCEPT ![w] = "persisted"]
  /\ UNCHANGED <<targets, broker, registered, calls, queue, client, snap, got, shown, lost, drops>>

\* EventBroker.publish lists the subscribers under the broker lock ...
ListSubscribers(w) ==
  /\ writer[w] = "persisted" /\ broker = {}
  /\ targets' = [targets EXCEPT ![w] = registered]
  /\ writer' = [writer EXCEPT ![w] = "listed"]
  /\ UNCHANGED <<version, section, broker, registered, calls, queue, client, snap, got, shown,
                 lost, drops>>

\* ... and schedules one callback for each, in the order in which a set is iterated;
\* then the section ends.
Schedule(w) ==
  /\ writer[w] = "listed"
  /\ \E order \in [1 .. Cardinality(targets[w]) -> targets[w]] :
       /\ {order[i] : i \in DOMAIN order} = targets[w]
       /\ calls' = calls \o [i \in DOMAIN order |-> [to |-> order[i], version |-> version, live |-> TRUE]]
  /\ targets' = [targets EXCEPT ![w] = {}]
  /\ section' = section \ {w} /\ writer' = [writer EXCEPT ![w] = "idle"]
  /\ UNCHANGED <<version, broker, registered, queue, client, snap, got, shown, lost, drops>>

-----------------------------------------------------------------------------
(* The event loop: one step at a time, and none while a subscription waits. *)

LoopFree == \A c \in Clients : client[c] \notin {"read", "snapshot"}

\* Mutant: the broker lock is given back before the snapshot is read.
SubscribeUnlocked(c) ==
  /\ client[c] = "away" /\ LoopFree /\ broker = {}
  /\ registered' = registered \cup {c}
  /\ queue' = [queue EXCEPT ![c] = <<>>] /\ got' = [got EXCEPT ![c] = {}]
  /\ lost' = lost \ {c} /\ client' = [client EXCEPT ![c] = "read"]
  /\ UNCHANGED <<version, section, writer, targets, broker, calls, snap, shown, drops>>

\* EventBroker.subscribe: a new queue is registered, the lock kept for the snapshot.
Subscribe(c) ==
  /\ client[c] = "away" /\ LoopFree /\ broker = {}
  /\ broker' = {c} /\ registered' = registered \cup {c}
  /\ queue' = [queue EXCEPT ![c] = <<>>] /\ got' = [got EXCEPT ![c] = {}]
  /\ lost' = lost \ {c} /\ client' = [client EXCEPT ![c] = "read"]
  /\ UNCHANGED <<version, section, writer, targets, calls, snap, shown, drops>>

\* Mutant: the snapshot is of an earlier look at the Task.
ReadTaskEarlier(c) ==
  /\ client[c] = "read"
  /\ \E v \in snap[c] .. version : snap' = [snap EXCEPT ![c] = v]
  /\ client' = [client EXCEPT ![c] = "snapshot"]
  /\ UNCHANGED <<version, section, writer, targets, broker, registered, calls, queue, got, shown,
                 lost, drops>>

\* snapshot_factory reads the Task record.
ReadTask(c) ==
  /\ client[c] = "read"
  /\ snap' = [snap EXCEPT ![c] = version]
  /\ client' = [client EXCEPT ![c] = "snapshot"]
  /\ UNCHANGED <<version, section, writer, targets, broker, registered, calls, queue, got, shown,
                 lost, drops>>

\* Nobody reads the queue of c any more: the callbacks on their way to it still run,
\* to no effect.
Unregister(c) ==
  /\ registered' = registered \ {c}
  /\ calls' = [i \in DOMAIN calls |->
                 IF calls[i].to = c THEN [calls[i] EXCEPT !.live = FALSE] ELSE calls[i]]
  /\ targets' = [w \in Writers |-> targets[w] \ {c}]

\* Then, for a local Worker's Task, its ephemeral progress and answer under the hub
\* lock.  The snapshot is the first frame; after one of a terminal Task the stream ends.
Snapshot(c) ==
  /\ client[c] = "snapshot" /\ (Local => section = {})
  /\ broker' = {} /\ shown' = [shown EXCEPT ![c] = snap[c]]
  /\ IF snap[c] = MaxChanges
     THEN Unregister(c) /\ client' = [client EXCEPT ![c] = "ended"]
     ELSE UNCHANGED <<registered, calls, targets>> /\ client' = [client EXCEPT ![c] = "stream"]
  /\ UNCHANGED <<version, section, writer, queue, snap, got, lost, drops>>

\* Mutant: a full queue loses the event and nothing tells the subscriber.
EnqueueSilently ==
  LET m == Head(calls) IN
  /\ LoopFree /\ calls # <<>> /\ calls' = Tail(calls)
  /\ IF ~m.live THEN UNCHANGED <<queue, lost>>
     ELSE IF Len(queue[m.to]) = QueueSize THEN queue' = queue /\ lost' = lost \cup {m.to}
     ELSE queue' = [queue EXCEPT ![m.to] = Append(@, m.version)] /\ lost' = lost
  /\ UNCHANGED <<version, section, writer, targets, broker, registered, client, snap, got, shown,
                 drops>>

\* EventBroker._enqueue: a full queue loses its oldest item and the event, and gets
\* CLOSED instead.
Enqueue ==
  LET m == Head(calls) IN
  /\ LoopFree /\ calls # <<>> /\ calls' = Tail(calls)
  /\ IF ~m.live THEN UNCHANGED <<queue, lost>>
     ELSE IF Len(queue[m.to]) = QueueSize
     THEN queue' = [queue EXCEPT ![m.to] = Append(Tail(@), Closed)] /\ lost' = lost \cup {m.to}
     ELSE queue' = [queue EXCEPT ![m.to] = Append(@, m.version)] /\ lost' = lost
  /\ UNCHANGED <<version, section, writer, targets, broker, registered, client, snap, got, shown,
                 drops>>

\* Mutant: CLOSED ends the stream for good.
SendEnds(c) ==
  /\ client[c] = "stream" /\ LoopFree /\ queue[c] # <<>>
  /\ queue' = [queue EXCEPT ![c] = Tail(@)]
  /\ shown' = IF Head(queue[c]) = Closed THEN shown ELSE [shown EXCEPT ![c] = Head(queue[c])]
  /\ IF Head(queue[c]) < MaxChanges THEN UNCHANGED <<registered, calls, targets, client>>
     ELSE Unregister(c) /\ client' = [client EXCEPT ![c] = "ended"]
  /\ UNCHANGED <<version, section, writer, broker, snap, got, lost, drops>>

\* The endpoint sends the next item.  A terminal event ends the stream; CLOSED does
\* too, and the browser reconnects.
Send(c) ==
  LET item == Head(queue[c]) IN
  /\ client[c] = "stream" /\ LoopFree /\ queue[c] # <<>>
  /\ queue' = [queue EXCEPT ![c] = Tail(@)]
  /\ IF item = Closed THEN UNCHANGED <<shown, got>>
     ELSE shown' = [shown EXCEPT ![c] = item] /\ got' = [got EXCEPT ![c] = @ \cup {item}]
  /\ IF item < MaxChanges THEN UNCHANGED <<registered, calls, targets, client>>
     ELSE /\ Unregister(c)
          /\ client' = [client EXCEPT ![c] = IF item = Closed THEN "away" ELSE "ended"]
  /\ UNCHANGED <<version, section, writer, broker, snap, lost, drops>>

\* The connection breaks; the browser reconnects.
Drop(c) ==
  /\ client[c] = "stream" /\ LoopFree /\ drops < MaxDrops
  /\ drops' = drops + 1 /\ Unregister(c) /\ client' = [client EXCEPT ![c] = "away"]
  /\ UNCHANGED <<version, section, writer, broker, queue, snap, got, shown, lost>>

-----------------------------------------------------------------------------

Publish(w) == ListSubscribers(w) \/ Schedule(w)
Watch(c)   == Subscribe(c) \/ ReadTask(c) \/ Snapshot(c) \/ Send(c)

\* Every client has seen the Task end.
Over == (\A c \in Clients : client[c] = "ended") /\ UNCHANGED vars

Next ==
  \/ \E w \in Writers : Change(w) \/ Publish(w)
  \/ \E c \in Clients : Watch(c) \/ Drop(c)
  \/ Enqueue
  \/ Over

\* A thread inside publish is scheduled, the event loop runs what is ready, a browser
\* reads its stream and reconnects.
Fairness ==
  /\ \A w \in Writers : WF_vars(Publish(w))
  /\ \A c \in Clients : WF_vars(Watch(c))
  /\ WF_vars(Enqueue)

Spec == Init /\ [][Next]_vars /\ Fairness
-----------------------------------------------------------------------------

\* Every variable keeps to the values the code can give it, the queues to their size.
TypeOK ==
  /\ version \in Versions /\ section \subseteq Writers /\ broker \subseteq Clients
  /\ writer \in [Writers -> {"idle", "persisted", "listed"}]
  /\ targets \in [Writers -> SUBSET Clients]
  /\ registered \subseteq Clients /\ lost \subseteq Clients
  /\ calls \in Seq([to : Clients, version : Versions, live : BOOLEAN])
  /\ queue \in [Clients -> Seq(Versions \cup {Closed})]
  /\ \A c \in Clients : Len(queue[c]) <= QueueSize
  /\ client \in [Clients -> {"away", "read", "snapshot", "stream", "ended"}]
  /\ snap \in [Clients -> Versions] /\ shown \in [Clients -> Versions]
  /\ got \in [Clients -> SUBSET Versions] /\ drops \in 0 .. MaxDrops

\* The event of change v is still to reach client c.
Underway(c, v) ==
  \/ v \in {queue[c][i] : i \in DOMAIN queue[c]}
  \/ [to |-> c, version |-> v, live |-> TRUE] \in {calls[i] : i \in DOMAIN calls}
  \/ v = version /\ \E w \in Writers :
       writer[w] = "persisted" \/ (writer[w] = "listed" /\ c \in targets[w])

\* No gap between snapshot and stream: of a change its snapshot does not have a
\* subscriber has got the event, or will, or its queue overflowed ("registration and the
\* first snapshot are performed inside the same critical section", event_broker.py).
NothingMissed ==
  \A c \in Clients : client[c] = "stream" /\ c \notin lost =>
    \A v \in (snap[c] + 1) .. version : v \in got[c] \/ Underway(c, v)

\* A subscriber that lost an event is told: CLOSED is in its queue until it leaves.
LossCloses ==
  \A c \in lost : client[c] = "stream" => Closed \in {queue[c][i] : i \in DOMAIN queue[c]}

\* What a browser shows never goes back to an earlier state of the Task, neither after
\* its snapshot nor over a reconnection.
NeverStale == [][\A c \in Clients : shown'[c] >= shown[c]]_vars

\* Every browser learns that the Task has ended, however slow it is and however often
\* it must reconnect ("after a reconnection the backend first sends task.snapshot again",
\* client/src/api/client.ts).
ClientsLearnEnd == \A c \in Clients : version = MaxChanges ~> shown[c] = MaxChanges
=============================================================================
