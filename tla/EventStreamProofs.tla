--------------------------- MODULE EventStreamProofs ---------------------------
(***************************************************************************)
(* Theorems about EventStream for every set of writers and clients, every  *)
(* number of changes and every size of the queues.                         *)
(***************************************************************************)
EXTENDS EventStream, FiniteSetTheorems, TLAPS

-----------------------------------------------------------------------------
(* The parts of the inductive invariant.                                   *)

Subscribing(c) == client[c] \in {"read", "snapshot"}

\* One writer at a time is inside its section, and lists subscribers only there.
WritersTakeTurns ==
  /\ \A w \in Writers : w \in section <=> writer[w] # "idle"
  /\ \A w, x \in section : w = x
  /\ \A w \in Writers : targets[w] # {} => writer[w] = "listed"

\* The broker's lock is held by the one client that is subscribing; those that
\* subscribe or stream are registered.
LockIsForSubscribing ==
  /\ \A c \in Clients : c \in broker <=> Subscribing(c)
  /\ \A c, d \in broker : c = d
  /\ \A c \in Clients : c \in registered <=> Subscribing(c) \/ client[c] = "stream"

\* Events are on their way to streams only; a new subscription has an empty queue.
EventsGoToStreams ==
  /\ \A i \in DOMAIN calls : calls[i].live => client[calls[i].to] = "stream"
  /\ \A w \in Writers : \A c \in targets[w] : client[c] = "stream"
  /\ \A c \in Clients : Subscribing(c) => queue[c] = <<>> /\ c \notin lost

\* Nothing shown, or on its way, is newer than the Task, and a snapshot is not older
\* than what its browser shows.
NothingIsAhead ==
  /\ \A c \in Clients : shown[c] <= version /\ snap[c] <= version
  /\ \A c \in Clients : client[c] = "snapshot" => shown[c] <= snap[c]
  /\ \A i \in DOMAIN calls : calls[i].version <= version
  /\ \A c \in Clients : client[c] = "stream" =>
       \A i \in DOMAIN queue[c] : queue[c][i] # Closed => queue[c][i] <= version

\* What is on its way to a browser is in the order of the changes, behind what it shows.
CallsAscend == \A i, j \in DOMAIN calls : i < j => calls[i].version <= calls[j].version
QueuesAscend ==
  \A c \in Clients : client[c] = "stream" =>
    \A i \in DOMAIN queue[c] :
      /\ shown[c] <= queue[c][i]
      /\ queue[c][i] # Closed =>
           /\ \A j \in DOMAIN queue[c] : i < j => queue[c][i] <= queue[c][j]
           /\ \A k \in DOMAIN calls :
                calls[k].live /\ calls[k].to = c => queue[c][i] <= calls[k].version
CallsAreNews ==
  \A k \in DOMAIN calls : calls[k].live => shown[calls[k].to] <= calls[k].version

\* While a snapshot is taken at most one change is persisted, and its event not yet
\* addressed to anyone.
SnapshotsAreRecent ==
  \A c \in Clients : client[c] = "snapshot" =>
    \A v \in (snap[c] + 1) .. version : v = version /\ \E w \in Writers : writer[w] = "persisted"

StreamInv ==
  /\ TypeOK
  /\ WritersTakeTurns /\ LockIsForSubscribing /\ EventsGoToStreams
  /\ NothingIsAhead /\ CallsAscend /\ QueuesAscend /\ CallsAreNews
  /\ SnapshotsAreRecent /\ NothingMissed /\ LossCloses

-----------------------------------------------------------------------------
(* Sequences, versions and callbacks.                                      *)

Calls == [to : Clients, version : Versions, live : BOOLEAN]
Items == Versions \cup {Closed}

LEMMA Numbers ==
  /\ MaxChanges \in Nat /\ QueueSize \in Nat /\ QueueSize >= 1 /\ Closed \in Nat
  /\ Closed = MaxChanges + 1 /\ Closed \notin Versions
  /\ \A v \in Versions : v \in Nat /\ v <= MaxChanges /\ v < Closed
  /\ \A v \in Items : v \in Nat /\ v <= Closed /\ (v # Closed => v \in Versions)
  BY StreamBounds DEF Closed, Versions, Items

\* The shape of the state, item by item.
LEMMA Shapes ==
  ASSUME TypeOK
  PROVE  /\ version \in Nat /\ version <= MaxChanges
         /\ calls \in Seq(Calls)
         /\ \A i \in DOMAIN calls : /\ calls[i] \in Calls /\ calls[i].to \in Clients /\ i \in Nat
                                    /\ calls[i].version \in Nat /\ calls[i].version < Closed
                                    /\ calls[i].version \in Versions /\ calls[i].live \in BOOLEAN
         /\ queue \in [Clients -> Seq(Items)]
         /\ \A c \in Clients : \A i \in DOMAIN queue[c] :
              queue[c][i] \in Items /\ queue[c][i] \in Nat /\ i \in Nat
         /\ \A c \in Clients : shown[c] \in Nat /\ snap[c] \in Nat /\ shown[c] <= MaxChanges
<1>1. version \in Nat /\ version <= MaxChanges
  BY Numbers DEF TypeOK
<1>2. calls \in Seq(Calls) /\ queue \in [Clients -> Seq(Items)]
  BY DEF TypeOK, Calls, Items
<1>3. ASSUME NEW i \in DOMAIN calls
      PROVE  /\ calls[i] \in Calls /\ calls[i].to \in Clients /\ i \in Nat
             /\ calls[i].version \in Nat /\ calls[i].version < Closed
             /\ calls[i].version \in Versions /\ calls[i].live \in BOOLEAN
  <2>1. calls[i] \in Calls /\ i \in Nat
    BY <1>2
  <2>2. calls[i].to \in Clients /\ calls[i].version \in Versions /\ calls[i].live \in BOOLEAN
    BY <2>1 DEF Calls
  <2> QED
    BY <2>1, <2>2, Numbers
<1>4. ASSUME NEW c \in Clients, NEW i \in DOMAIN queue[c]
      PROVE  queue[c][i] \in Items /\ queue[c][i] \in Nat /\ i \in Nat
  <2>1. queue[c] \in Seq(Items)
    BY <1>2
  <2>2. queue[c][i] \in Items /\ i \in Nat
    BY <2>1
  <2> QED
    BY <2>2, Numbers
<1>5. \A c \in Clients : shown[c] \in Nat /\ snap[c] \in Nat /\ shown[c] <= MaxChanges
  BY Numbers DEF TypeOK
<1> QED
  BY <1>1, <1>2, <1>3, <1>4, <1>5

\* The first item is taken off: the others move up by one.
LEMMA TailOf ==
  ASSUME NEW S, NEW s \in Seq(S), s # <<>>
  PROVE  /\ Head(s) = s[1] /\ 1 \in DOMAIN s /\ s[1] \in S /\ Tail(s) \in Seq(S)
         /\ Len(Tail(s)) = Len(s) - 1 /\ Len(s) \in Nat /\ Len(s) >= 1
         /\ \A i \in DOMAIN Tail(s) : i + 1 \in DOMAIN s /\ Tail(s)[i] = s[i + 1] /\ i \in Nat /\ i >= 1
         /\ \A i \in DOMAIN s : i # 1 => i - 1 \in DOMAIN Tail(s) /\ Tail(s)[i - 1] = s[i]
  OBVIOUS

\* An item is put behind the others.
LEMMA AppendOf ==
  ASSUME NEW S, NEW s \in Seq(S), NEW m \in S
  PROVE  /\ Append(s, m) \in Seq(S) /\ Len(Append(s, m)) = Len(s) + 1 /\ Len(s) \in Nat
         /\ Len(s) + 1 \in DOMAIN Append(s, m) /\ Append(s, m)[Len(s) + 1] = m
         /\ \A i \in DOMAIN s : i \in DOMAIN Append(s, m) /\ Append(s, m)[i] = s[i] /\ i <= Len(s) /\ i \in Nat
         /\ \A i \in DOMAIN Append(s, m) : i = Len(s) + 1 \/ i \in DOMAIN s
<1>1. Append(s, m) \in Seq(S) /\ Len(Append(s, m)) = Len(s) + 1 /\ Len(s) \in Nat
  OBVIOUS
<1>2. DOMAIN Append(s, m) = 1 .. (Len(s) + 1) /\ DOMAIN s = 1 .. Len(s)
  OBVIOUS
<1>3. Append(s, m)[Len(s) + 1] = m
  OBVIOUS
<1>4. \A i \in 1 .. Len(s) : Append(s, m)[i] = s[i]
  OBVIOUS
<1>5. \A i \in 1 .. (Len(s) + 1) : i = Len(s) + 1 \/ i \in 1 .. Len(s)
  BY <1>1
<1>6. Len(s) + 1 \in 1 .. (Len(s) + 1) /\ \A i \in 1 .. Len(s) : i \in 1 .. (Len(s) + 1) /\ i <= Len(s) /\ i \in Nat
  BY <1>1
<1> QED
  BY <1>1, <1>2, <1>3, <1>4, <1>5, <1>6

\* One sequence behind another.
LEMMA ConcatOf ==
  ASSUME NEW S, NEW s \in Seq(S), NEW t \in Seq(S)
  PROVE  /\ s \o t \in Seq(S)
         /\ \A i \in DOMAIN s : i \in DOMAIN (s \o t) /\ (s \o t)[i] = s[i] /\ i <= Len(s)
         /\ \A i \in DOMAIN t : Len(s) + i \in DOMAIN (s \o t) /\ (s \o t)[Len(s) + i] = t[i]
         /\ \A i \in DOMAIN (s \o t) :
              \/ i \in DOMAIN s
              \/ i - Len(s) \in DOMAIN t /\ (s \o t)[i] = t[i - Len(s)] /\ i > Len(s)
<1>1. s \o t \in Seq(S) /\ Len(s \o t) = Len(s) + Len(t) /\ Len(s) \in Nat /\ Len(t) \in Nat
  OBVIOUS
<1>2. DOMAIN s = 1 .. Len(s) /\ DOMAIN t = 1 .. Len(t) /\ DOMAIN (s \o t) = 1 .. (Len(s) + Len(t))
  BY <1>1
<1>3. \A i \in 1 .. Len(s) : (s \o t)[i] = s[i]
  OBVIOUS
<1>4. ASSUME NEW i \in 1 .. Len(t) PROVE (s \o t)[Len(s) + i] = t[i]
  OBVIOUS
<1>5. ASSUME NEW i \in 1 .. (Len(s) + Len(t))
      PROVE  i \in 1 .. Len(s) \/ (i - Len(s) \in 1 .. Len(t) /\ i = Len(s) + (i - Len(s)) /\ i > Len(s))
  BY <1>1
<1>6. /\ \A i \in 1 .. Len(s) : i \in 1 .. (Len(s) + Len(t)) /\ i <= Len(s)
      /\ \A i \in 1 .. Len(t) : Len(s) + i \in 1 .. (Len(s) + Len(t))
  BY <1>1
<1>7. ASSUME NEW i \in 1 .. (Len(s) + Len(t)), i \notin 1 .. Len(s)
      PROVE  i - Len(s) \in 1 .. Len(t) /\ (s \o t)[i] = t[i - Len(s)] /\ i > Len(s)
  <2>1. i - Len(s) \in 1 .. Len(t) /\ i = Len(s) + (i - Len(s)) /\ i > Len(s)
    BY <1>5, <1>7
  <2>2. (s \o t)[Len(s) + (i - Len(s))] = t[i - Len(s)]
    BY <1>4, <2>1
  <2> QED
    BY <2>1, <2>2
<1> QED
  BY <1>1, <1>2, <1>3, <1>4, <1>6, <1>7

\* Unsubscribing voids the callbacks on their way to c and changes nothing else of them.
LEMMA UnregisterOf ==
  ASSUME TypeOK, NEW c \in Clients, Unregister(c)
  PROVE  /\ calls' \in Seq(Calls) /\ DOMAIN calls' = DOMAIN calls
         /\ \A i \in DOMAIN calls : /\ calls'[i].to = calls[i].to /\ calls'[i].version = calls[i].version
                                    /\ calls'[i].live => calls[i].live /\ calls[i].to # c
                                    /\ calls[i].to # c => calls'[i] = calls[i]
         /\ targets' \in [Writers -> SUBSET Clients] /\ registered' \in SUBSET Clients
         /\ \A w \in Writers : targets'[w] = targets[w] \ {c}
<1>1. calls \in Seq(Calls) /\ \A i \in DOMAIN calls : calls[i] \in Calls
  BY Shapes
<1>2. DOMAIN calls' = DOMAIN calls /\ calls' = [i \in DOMAIN calls |-> calls'[i]]
  BY DEF Unregister
<1>3. ASSUME NEW i \in DOMAIN calls
      PROVE  /\ calls'[i] \in Calls
             /\ calls'[i].to = calls[i].to /\ calls'[i].version = calls[i].version
             /\ calls'[i].live => calls[i].live /\ calls[i].to # c
             /\ calls[i].to # c => calls'[i] = calls[i]
  <2>1. CASE calls[i].to = c
    <3>1. calls'[i] = [calls[i] EXCEPT !.live = FALSE]
      BY <2>1 DEF Unregister
    <3> QED
      BY <1>1, <2>1, <3>1 DEF Calls
  <2>2. CASE calls[i].to # c
    <3>1. calls'[i] = calls[i]
      BY <2>2 DEF Unregister
    <3> QED
      BY <1>1, <2>2, <3>1
  <2> QED
    BY <2>1, <2>2
<1>4. calls' \in Seq(Calls)
  <2>1. DOMAIN calls = 1 .. Len(calls) /\ Len(calls) \in Nat
    BY <1>1
  <2>2. calls' \in [1 .. Len(calls) -> Calls]
    BY <1>2, <1>3, <2>1
  <2> QED
    BY <2>1, <2>2
<1>5. targets' \in [Writers -> SUBSET Clients] /\ registered' \in SUBSET Clients
  BY DEF Unregister, TypeOK
<1>6. \A w \in Writers : targets'[w] = targets[w] \ {c}
  BY DEF Unregister
<1> QED
  BY <1>2, <1>3, <1>4, <1>5, <1>6

-----------------------------------------------------------------------------
(* The writers' steps.                                                     *)

\* A change is persisted: it is the one change of this section.
LEMMA ChangeKeeps ==
  ASSUME StreamInv, NEW w \in Writers, Change(w)
  PROVE  StreamInv'
<1>1. TypeOK /\ version' = version + 1 /\ version' \in Nat /\ version < MaxChanges /\ section = {}
      /\ writer' = [writer EXCEPT ![w] = "persisted"] /\ section' = {w}
      /\ UNCHANGED <<targets, broker, registered, calls, queue, client, snap, got, shown, lost, drops>>
      /\ version \in Nat
  BY Shapes DEF Change, StreamInv
<1>2. TypeOK'
  <2>1. version' \in Versions
    BY <1>1, Numbers DEF Versions
  <2>2. section' \in SUBSET Writers /\ writer' \in [Writers -> {"idle", "persisted", "listed"}]
    BY <1>1 DEF TypeOK
  <2> QED
    BY <1>1, <2>1, <2>2 DEF TypeOK
<1>3. writer'[w] = "persisted" /\ \A x \in Writers : writer[x] = "idle" /\ (x # w => writer'[x] = "idle")
  BY <1>1 DEF TypeOK, StreamInv, WritersTakeTurns
<1>4. WritersTakeTurns'
  BY <1>1, <1>3 DEF StreamInv, WritersTakeTurns
<1>5. LockIsForSubscribing'
  BY <1>1 DEF StreamInv, LockIsForSubscribing, Subscribing
<1>6. EventsGoToStreams'
  BY <1>1 DEF StreamInv, EventsGoToStreams, Subscribing
<1>7. NothingIsAhead'
  <2>1. \A n \in Nat : n <= version => n <= version'
    BY <1>1
  <2> QED
    BY <1>1, <2>1, Shapes DEF StreamInv, NothingIsAhead
<1>8. CallsAscend' /\ CallsAreNews'
  BY <1>1 DEF StreamInv, CallsAscend, CallsAreNews
<1>9. QueuesAscend'
  BY <1>1 DEF StreamInv, QueuesAscend
<1>10. SnapshotsAreRecent'
  <2>1. ASSUME NEW c \in Clients, client[c] = "snapshot", NEW v \in (snap[c] + 1) .. (version + 1)
        PROVE  v = version + 1
    <3>1. v \notin (snap[c] + 1) .. version
      BY <1>3, <2>1 DEF StreamInv, SnapshotsAreRecent
    <3>2. snap[c] \in Nat
      BY <1>1, Shapes
    <3> QED
      BY <1>1, <2>1, <3>1, <3>2
  <2> QED
    BY <1>1, <1>3, <2>1 DEF SnapshotsAreRecent
<1>11. NothingMissed'
  <2>1. ASSUME NEW c \in Clients, client[c] = "stream", c \notin lost, NEW v \in (snap[c] + 1) .. (version + 1),
               v # version + 1
        PROVE  v \in got[c] \/ Underway(c, v)'
    <3>1. snap[c] \in Nat
      BY <1>1, Shapes
    <3>2. v \in (snap[c] + 1) .. version
      BY <1>1, <2>1, <3>1
    <3>3. v \in got[c] \/ Underway(c, v)
      BY <2>1, <3>2 DEF StreamInv, NothingMissed
    <3> QED
      BY <1>1, <1>3, <3>3 DEF Underway
  <2>2. ASSUME NEW c \in Clients, NEW v, v = version + 1 PROVE Underway(c, v)'
    BY <1>1, <1>3, <2>2 DEF Underway
  <2> QED
    BY <1>1, <2>1, <2>2 DEF NothingMissed
<1>12. LossCloses'
  BY <1>1 DEF StreamInv, LossCloses
<1> QED
  BY <1>2, <1>4, <1>5, <1>6, <1>7, <1>8, <1>9, <1>10, <1>11, <1>12 DEF StreamInv

\* The subscribers are listed under the broker lock, which no subscription holds.
LEMMA ListKeeps ==
  ASSUME StreamInv, NEW w \in Writers, ListSubscribers(w)
  PROVE  StreamInv'
<1>1. TypeOK /\ writer[w] = "persisted" /\ broker = {}
      /\ targets' = [targets EXCEPT ![w] = registered]
      /\ writer' = [writer EXCEPT ![w] = "listed"]
      /\ UNCHANGED <<version, section, broker, registered, calls, queue, client, snap, got, shown, lost, drops>>
  BY DEF ListSubscribers, StreamInv
<1>2. TypeOK'
  BY <1>1 DEF TypeOK
<1>3. /\ writer'[w] = "listed" /\ \A x \in Writers : x # w => writer'[x] = writer[x]
      /\ targets'[w] = registered /\ \A x \in Writers : x # w => targets'[x] = targets[x]
  BY <1>1 DEF TypeOK
<1>4. \A c \in Clients : ~Subscribing(c) /\ (c \in registered <=> client[c] = "stream")
  BY <1>1 DEF StreamInv, LockIsForSubscribing
<1>5. WritersTakeTurns'
  BY <1>1, <1>3 DEF StreamInv, WritersTakeTurns
<1>6. LockIsForSubscribing'
  BY <1>1 DEF StreamInv, LockIsForSubscribing, Subscribing
<1>7. EventsGoToStreams'
  <2>1. registered \subseteq Clients
    BY <1>1 DEF TypeOK
  <2>2. \A x \in Writers : \A c \in targets'[x] : client'[c] = "stream"
    BY <1>1, <1>3, <1>4, <2>1 DEF StreamInv, EventsGoToStreams
  <2> QED
    BY <1>1, <2>2 DEF StreamInv, EventsGoToStreams, Subscribing
<1>8. NothingIsAhead' /\ CallsAscend' /\ CallsAreNews' /\ QueuesAscend'
  BY <1>1 DEF StreamInv, NothingIsAhead, CallsAscend, CallsAreNews, QueuesAscend
<1>9. SnapshotsAreRecent'
  BY <1>1, <1>4 DEF SnapshotsAreRecent, Subscribing
<1>10. NothingMissed'
  <2>1. ASSUME NEW c \in Clients, client[c] = "stream", NEW v, Underway(c, v)
        PROVE  Underway(c, v)'
    <3>1. CASE \/ v \in {queue[c][i] : i \in DOMAIN queue[c]}
               \/ [to |-> c, version |-> v, live |-> TRUE] \in {calls[i] : i \in DOMAIN calls}
      BY <1>1, <3>1 DEF Underway
    <3>2. ASSUME v = version, NEW x \in Writers, writer[x] = "persisted" \/ (writer[x] = "listed" /\ c \in targets[x])
          PROVE  Underway(c, v)'
      <4>1. CASE x = w
        BY <1>1, <1>3, <1>4, <2>1, <3>2, <4>1 DEF Underway
      <4>2. CASE x # w
        BY <1>1, <1>3, <3>2, <4>2 DEF Underway
      <4> QED
        BY <4>1, <4>2
    <3> QED
      BY <2>1, <3>1, <3>2 DEF Underway
  <2> QED
    BY <1>1, <2>1 DEF StreamInv, NothingMissed
<1>11. LossCloses'
  BY <1>1 DEF StreamInv, LossCloses
<1> QED
  BY <1>2, <1>5, <1>6, <1>7, <1>8, <1>9, <1>10, <1>11 DEF StreamInv

\* The callbacks scheduled: one for each subscriber listed, behind those there are.
LEMMA ScheduledOf ==
  ASSUME StreamInv, NEW w \in Writers, Schedule(w)
  PROVE  /\ calls' \in Seq(Calls)
         /\ \A i \in DOMAIN calls : i \in DOMAIN calls' /\ calls'[i] = calls[i]
         /\ \A i \in DOMAIN calls' :
              \/ i \in DOMAIN calls
              \/ /\ calls'[i].to \in targets[w] /\ calls'[i].version = version
                 /\ \A j \in DOMAIN calls : j < i
         /\ \A c \in targets[w] : \E i \in DOMAIN calls' :
              calls'[i] = [to |-> c, version |-> version, live |-> TRUE]
<1>1. TypeOK /\ calls \in Seq(Calls) /\ version \in Versions
  BY Shapes DEF StreamInv, TypeOK
<1>2. PICK order \in [1 .. Cardinality(targets[w]) -> targets[w]] :
        /\ {order[i] : i \in DOMAIN order} = targets[w]
        /\ calls' = calls \o [i \in DOMAIN order |-> [to |-> order[i], version |-> version, live |-> TRUE]]
  BY Zenon DEF Schedule
<1> DEFINE new == [i \in DOMAIN order |-> [to |-> order[i], version |-> version, live |-> TRUE]]
<1>3. targets[w] \in SUBSET Clients
  BY <1>1 DEF TypeOK
<1>4. Cardinality(targets[w]) \in Nat
  BY <1>3, StreamClients, FS_Subset, FS_CardinalityType
<1>5. \A i \in DOMAIN order : order[i] \in targets[w] /\ order[i] \in Clients
  BY <1>3
<1>6. \A i \in DOMAIN order : /\ new[i] = [to |-> order[i], version |-> version, live |-> TRUE]
                              /\ new[i] \in Calls
  BY <1>1, <1>5 DEF Calls
<1>7. new \in [1 .. Cardinality(targets[w]) -> Calls]
  BY <1>6
<1>8. new \in Seq(Calls) /\ DOMAIN new = DOMAIN order
  BY <1>4, <1>7
<1> HIDE DEF new
<1>9. calls' = calls \o new
  BY <1>2 DEF new
<1>10. /\ calls' \in Seq(Calls)
       /\ \A i \in DOMAIN calls : i \in DOMAIN calls' /\ calls'[i] = calls[i] /\ i <= Len(calls)
       /\ \A i \in DOMAIN new : Len(calls) + i \in DOMAIN calls' /\ calls'[Len(calls) + i] = new[i]
       /\ \A i \in DOMAIN calls' :
            \/ i \in DOMAIN calls
            \/ i - Len(calls) \in DOMAIN new /\ calls'[i] = new[i - Len(calls)] /\ i > Len(calls)
  <2>1. /\ calls \o new \in Seq(Calls)
        /\ \A i \in DOMAIN calls :
             i \in DOMAIN (calls \o new) /\ (calls \o new)[i] = calls[i] /\ i <= Len(calls)
        /\ \A i \in DOMAIN new :
             Len(calls) + i \in DOMAIN (calls \o new) /\ (calls \o new)[Len(calls) + i] = new[i]
        /\ \A i \in DOMAIN (calls \o new) :
             \/ i \in DOMAIN calls
             \/ /\ i - Len(calls) \in DOMAIN new /\ (calls \o new)[i] = new[i - Len(calls)]
                /\ i > Len(calls)
    BY <1>1, <1>8, ConcatOf, Zenon
  <2> QED
    BY <1>9, <2>1, Zenon
<1>11. ASSUME NEW i \in DOMAIN calls', i \notin DOMAIN calls
       PROVE  /\ calls'[i].to \in targets[w] /\ calls'[i].version = version
              /\ \A j \in DOMAIN calls : j < i
  <2>1. i - Len(calls) \in DOMAIN new /\ calls'[i] = new[i - Len(calls)] /\ i > Len(calls)
    BY <1>10, <1>11
  <2>2. calls'[i].to \in targets[w] /\ calls'[i].version = version
    BY <1>5, <1>6, <1>8, <2>1
  <2>3. \A j \in DOMAIN calls : j \in Nat /\ Len(calls) \in Nat /\ i \in Nat
    BY <1>1, <1>10
  <2> QED
    BY <1>10, <2>1, <2>2, <2>3
<1>12. ASSUME NEW c \in targets[w]
       PROVE  \E i \in DOMAIN calls' : calls'[i] = [to |-> c, version |-> version, live |-> TRUE]
  <2>1. PICK i \in DOMAIN order : order[i] = c
    BY <1>2
  <2>2. calls'[Len(calls) + i] = new[i] /\ Len(calls) + i \in DOMAIN calls'
    BY <1>8, <1>10
  <2> QED
    BY <1>6, <2>1, <2>2
<1> QED
  BY <1>10, <1>11, <1>12

\* The callbacks go behind the others with the newest version, to streams.
LEMMA ScheduleKeeps ==
  ASSUME StreamInv, NEW w \in Writers, Schedule(w)
  PROVE  StreamInv'
<1>1. TypeOK /\ writer[w] = "listed"
      /\ targets' = [targets EXCEPT ![w] = {}]
      /\ writer' = [writer EXCEPT ![w] = "idle"] /\ section' = section \ {w}
      /\ UNCHANGED <<version, broker, registered, queue, client, snap, got, shown, lost, drops>>
  BY DEF Schedule, StreamInv
<1>2. /\ calls' \in Seq(Calls)
      /\ \A i \in DOMAIN calls : i \in DOMAIN calls' /\ calls'[i] = calls[i]
      /\ \A i \in DOMAIN calls' :
           \/ i \in DOMAIN calls
           \/ /\ calls'[i].to \in targets[w] /\ calls'[i].version = version
              /\ \A j \in DOMAIN calls : j < i
      /\ \A c \in targets[w] : \E i \in DOMAIN calls' :
           calls'[i] = [to |-> c, version |-> version, live |-> TRUE]
  BY ScheduledOf
<1>3. TypeOK'
  <2>1. writer' \in [Writers -> {"idle", "persisted", "listed"}] /\ targets' \in [Writers -> SUBSET Clients]
    BY <1>1 DEF TypeOK
  <2> QED
    BY <1>1, <1>2, <2>1 DEF TypeOK, Calls
<1>4. /\ writer'[w] = "idle" /\ \A x \in Writers : x # w => writer'[x] = writer[x]
      /\ targets'[w] = {} /\ \A x \in Writers : x # w => targets'[x] = targets[x]
  BY <1>1 DEF TypeOK
<1>5. targets[w] \subseteq Clients /\ \A c \in targets[w] : client[c] = "stream"
  BY <1>1 DEF StreamInv, EventsGoToStreams, TypeOK
<1>6. /\ version \in Nat
      /\ \A i \in DOMAIN calls : calls[i].version <= version /\ calls[i].version \in Nat /\ i \in Nat
      /\ \A i \in DOMAIN calls : calls'[i].version = calls[i].version
      /\ \A c \in Clients : shown[c] \in Nat /\ shown[c] <= version
  BY <1>1, <1>2, Shapes DEF StreamInv, NothingIsAhead
<1>7. WritersTakeTurns'
  BY <1>1, <1>4 DEF StreamInv, WritersTakeTurns
<1>8. LockIsForSubscribing'
  BY <1>1 DEF StreamInv, LockIsForSubscribing, Subscribing
<1>9. EventsGoToStreams'
  <2>1. ASSUME NEW i \in DOMAIN calls', calls'[i].live PROVE client[calls'[i].to] = "stream"
    BY <1>2, <1>5, <2>1 DEF StreamInv, EventsGoToStreams
  <2>2. \A x \in Writers : \A c \in targets'[x] : client[c] = "stream"
    BY <1>4 DEF StreamInv, EventsGoToStreams
  <2> QED
    BY <1>1, <2>1, <2>2 DEF StreamInv, EventsGoToStreams, Subscribing
<1>10. NothingIsAhead'
  <2>1. ASSUME NEW i \in DOMAIN calls' PROVE calls'[i].version <= version
    BY <1>2, <1>6
  <2> QED
    BY <1>1, <2>1 DEF StreamInv, NothingIsAhead
<1>11. CallsAscend'
  <2>1. ASSUME NEW i \in DOMAIN calls', NEW j \in DOMAIN calls', i < j
        PROVE  calls'[i].version <= calls'[j].version
    <3>1. CASE i \in DOMAIN calls /\ j \in DOMAIN calls
      BY <1>2, <2>1, <3>1 DEF StreamInv, CallsAscend
    <3>2. CASE j \notin DOMAIN calls
      <4>1. calls'[j].version = version
        BY <1>2, <3>2
      <4> QED
        BY <1>2, <1>6, <4>1
    <3>3. CASE i \notin DOMAIN calls /\ j \in DOMAIN calls
      <4>1. j < i /\ j \in Nat /\ i \in Nat
        BY <1>2, <1>6, <3>3
      <4> QED
        BY <2>1, <4>1
    <3> QED
      BY <3>1, <3>2, <3>3
  <2> QED
    BY <2>1 DEF CallsAscend
<1>12. CallsAreNews'
  <2>1. ASSUME NEW k \in DOMAIN calls', calls'[k].live PROVE shown[calls'[k].to] <= calls'[k].version
    <3>1. CASE k \in DOMAIN calls
      BY <1>2, <2>1, <3>1 DEF StreamInv, CallsAreNews
    <3>2. CASE k \notin DOMAIN calls
      BY <1>2, <1>5, <1>6, <3>2
    <3> QED
      BY <3>1, <3>2
  <2> QED
    BY <1>1, <2>1 DEF CallsAreNews
<1>13. QueuesAscend'
  <2>1. ASSUME NEW c \in Clients, client[c] = "stream", NEW i \in DOMAIN queue[c], queue[c][i] # Closed,
               NEW k \in DOMAIN calls', calls'[k].live, calls'[k].to = c
        PROVE  queue[c][i] <= calls'[k].version
    <3>1. CASE k \in DOMAIN calls
      BY <1>2, <2>1, <3>1 DEF StreamInv, QueuesAscend
    <3>2. CASE k \notin DOMAIN calls
      BY <1>2, <2>1, <3>2 DEF StreamInv, NothingIsAhead
    <3> QED
      BY <3>1, <3>2
  <2>2. ASSUME NEW c \in Clients, client[c] = "stream", NEW i \in DOMAIN queue[c]
        PROVE  shown[c] <= queue[c][i] /\ (queue[c][i] # Closed => \A j \in DOMAIN queue[c] : i < j => queue[c][i] <= queue[c][j])
    BY <2>2 DEF StreamInv, QueuesAscend
  <2> QED
    BY <1>1, <2>1, <2>2 DEF QueuesAscend
<1>14. SnapshotsAreRecent'
  <2>1. \A x \in Writers : writer[x] = "persisted" => writer'[x] = "persisted"
    BY <1>1, <1>4
  <2> QED
    BY <1>1, <2>1 DEF StreamInv, SnapshotsAreRecent
<1>15. NothingMissed'
  <2>1. ASSUME NEW c \in Clients, NEW v, Underway(c, v)
        PROVE  Underway(c, v)'
    <3>1. CASE v \in {queue[c][i] : i \in DOMAIN queue[c]}
      BY <1>1, <3>1 DEF Underway
    <3>2. CASE [to |-> c, version |-> v, live |-> TRUE] \in {calls[i] : i \in DOMAIN calls}
      <4>1. PICK i \in DOMAIN calls : calls[i] = [to |-> c, version |-> v, live |-> TRUE]
        BY <3>2
      <4> QED
        BY <1>2, <4>1 DEF Underway
    <3>3. ASSUME v = version, NEW x \in Writers, writer[x] = "persisted" \/ (writer[x] = "listed" /\ c \in targets[x])
          PROVE  Underway(c, v)'
      <4>1. CASE x = w
        <5>1. PICK i \in DOMAIN calls' : calls'[i] = [to |-> c, version |-> v, live |-> TRUE]
          BY <1>1, <1>2, <3>3, <4>1
        <5> QED
          BY <5>1 DEF Underway
      <4>2. CASE x # w
        BY <1>1, <1>4, <3>3, <4>2 DEF Underway
      <4> QED
        BY <4>1, <4>2
    <3> QED
      BY <2>1, <3>1, <3>2, <3>3 DEF Underway
  <2> QED
    BY <1>1, <2>1 DEF StreamInv, NothingMissed
<1>16. LossCloses'
  BY <1>1 DEF StreamInv, LossCloses
<1> QED
  BY <1>3, <1>7, <1>8, <1>9, <1>10, <1>11, <1>12, <1>13, <1>14, <1>15, <1>16 DEF StreamInv

-----------------------------------------------------------------------------
(* The streams' steps.                                                     *)

\* A client that unsubscribes takes nothing from the others.
LEMMA LeavingKeeps ==
  ASSUME StreamInv, TypeOK', NEW c \in Clients, NEW at \in {"away", "ended"},
         Unregister(c), client' = [client EXCEPT ![c] = at], broker' = broker \ {c},
         UNCHANGED <<version, section, writer, snap, lost>>,
         shown'[c] <= version,
         \A x \in Clients : x # c => queue'[x] = queue[x] /\ shown'[x] = shown[x] /\ got'[x] = got[x]
  PROVE  StreamInv'
<1>1. TypeOK /\ client'[c] = at /\ \A x \in Clients : x # c => client'[x] = client[x]
  BY DEF StreamInv, TypeOK
<1>2. /\ DOMAIN calls' = DOMAIN calls
      /\ \A i \in DOMAIN calls : /\ calls'[i].to = calls[i].to /\ calls'[i].version = calls[i].version
                                 /\ calls'[i].live => calls[i].live /\ calls[i].to # c
                                 /\ calls[i].to # c => calls'[i] = calls[i]
      /\ \A w \in Writers : targets'[w] = targets[w] \ {c}
  BY <1>1, UnregisterOf
<1>3. \A i \in DOMAIN calls : calls[i].to \in Clients
  BY <1>1, Shapes
<1>4. WritersTakeTurns'
  BY <1>2 DEF StreamInv, WritersTakeTurns
<1>5. LockIsForSubscribing'
  <2>1. \A x \in Clients : x # c => (Subscribing(x)' <=> Subscribing(x))
    BY <1>1 DEF Subscribing
  <2>2. ~Subscribing(c)' /\ client'[c] # "stream"
    BY <1>1 DEF Subscribing
  <2>3. registered' = registered \ {c}
    BY DEF Unregister
  <2> QED
    BY <1>1, <2>1, <2>2, <2>3 DEF StreamInv, LockIsForSubscribing
<1>6. EventsGoToStreams'
  <2>1. ASSUME NEW i \in DOMAIN calls', calls'[i].live PROVE client'[calls'[i].to] = "stream"
    BY <1>1, <1>2, <1>3, <2>1 DEF StreamInv, EventsGoToStreams
  <2>2. ASSUME NEW w \in Writers, NEW x \in targets'[w] PROVE client'[x] = "stream"
    <3>1. x \in targets[w] /\ x # c /\ x \in Clients
      BY <1>1, <1>2, <2>2 DEF TypeOK
    <3> QED
      BY <1>1, <3>1 DEF StreamInv, EventsGoToStreams
  <2>3. ASSUME NEW x \in Clients, Subscribing(x)' PROVE queue'[x] = <<>> /\ x \notin lost'
    BY <1>1, <2>3 DEF StreamInv, EventsGoToStreams, Subscribing
  <2> QED
    BY <2>1, <2>2, <2>3 DEF EventsGoToStreams
<1>7. NothingIsAhead'
  BY <1>1, <1>2 DEF StreamInv, NothingIsAhead
<1>8. CallsAscend'
  BY <1>2 DEF StreamInv, CallsAscend
<1>9. CallsAreNews'
  BY <1>2, <1>3 DEF StreamInv, CallsAreNews
<1>10. QueuesAscend'
  <2>1. ASSUME NEW x \in Clients, client'[x] = "stream", NEW i \in DOMAIN queue'[x]
        PROVE  /\ shown'[x] <= queue'[x][i]
               /\ queue'[x][i] # Closed =>
                    /\ \A j \in DOMAIN queue'[x] : i < j => queue'[x][i] <= queue'[x][j]
                    /\ \A k \in DOMAIN calls' : calls'[k].live /\ calls'[k].to = x => queue'[x][i] <= calls'[k].version
    <3>1. x # c
      BY <1>1, <2>1
    <3> QED
      BY <1>1, <1>2, <2>1, <3>1 DEF StreamInv, QueuesAscend
  <2> QED
    BY <2>1 DEF QueuesAscend
<1>11. SnapshotsAreRecent'
  BY <1>1 DEF StreamInv, SnapshotsAreRecent
<1>12. NothingMissed'
  <2>1. ASSUME NEW x \in Clients, client'[x] = "stream", NEW v, Underway(x, v)
        PROVE  Underway(x, v)'
    <3>1. x # c
      BY <1>1, <2>1
    <3>2. CASE v \in {queue[x][i] : i \in DOMAIN queue[x]}
      BY <3>1, <3>2 DEF Underway
    <3>3. CASE [to |-> x, version |-> v, live |-> TRUE] \in {calls[i] : i \in DOMAIN calls}
      <4>1. PICK i \in DOMAIN calls : calls[i] = [to |-> x, version |-> v, live |-> TRUE]
        BY <3>3
      <4>2. calls[i].to = x
        BY <4>1
      <4>3. calls'[i] = [to |-> x, version |-> v, live |-> TRUE]
        BY <1>2, <3>1, <4>1, <4>2
      <4> QED
        BY <1>2, <4>3 DEF Underway
    <3>4. ASSUME v = version, NEW w \in Writers, writer[w] = "persisted" \/ (writer[w] = "listed" /\ x \in targets[w])
          PROVE  Underway(x, v)'
      BY <1>2, <3>1, <3>4 DEF Underway
    <3> QED
      BY <2>1, <3>2, <3>3, <3>4 DEF Underway
  <2>2. ASSUME NEW x \in Clients, client'[x] = "stream", x \notin lost', NEW v \in (snap'[x] + 1) .. version'
        PROVE  v \in got'[x] \/ Underway(x, v)'
    <3>1. x # c
      BY <1>1, <2>2
    <3>2. v \in got[x] \/ Underway(x, v)
      BY <1>1, <2>2, <3>1 DEF StreamInv, NothingMissed
    <3> QED
      BY <2>1, <2>2, <3>1, <3>2
  <2> QED
    BY <2>2 DEF NothingMissed
<1>13. LossCloses'
  BY <1>1 DEF StreamInv, LossCloses, TypeOK
<1> QED
  BY <1>4, <1>5, <1>6, <1>7, <1>8, <1>9, <1>10, <1>11, <1>12, <1>13 DEF StreamInv

\* A dropped connection.
LEMMA DropKeeps ==
  ASSUME StreamInv, NEW c \in Clients, Drop(c)
  PROVE  StreamInv'
<1>1. TypeOK /\ Unregister(c) /\ client' = [client EXCEPT ![c] = "away"] /\ client[c] = "stream"
      /\ UNCHANGED <<version, section, writer, broker, queue, snap, got, shown, lost>>
      /\ drops' = drops + 1 /\ drops < MaxDrops
  BY DEF Drop, StreamInv
<1>2. TypeOK'
  <2>1. drops' \in 0 .. MaxDrops
    BY <1>1, StreamBounds DEF TypeOK
  <2>2. client' \in [Clients -> {"away", "read", "snapshot", "stream", "ended"}]
    BY <1>1 DEF TypeOK
  <2> QED
    BY <1>1, <2>1, <2>2, UnregisterOf DEF TypeOK, Calls
<1>3. broker' = broker \ {c}
  BY <1>1 DEF StreamInv, LockIsForSubscribing, Subscribing
<1>4. shown'[c] <= version
  BY <1>1 DEF StreamInv, NothingIsAhead
<1> QED
  BY <1>1, <1>2, <1>3, <1>4, LeavingKeeps

\* A subscription begins with an empty queue, and nothing on its way.
LEMMA SubscribeKeeps ==
  ASSUME StreamInv, NEW c \in Clients, Subscribe(c)
  PROVE  StreamInv'
<1>1. TypeOK /\ client[c] = "away" /\ LoopFree /\ broker = {}
      /\ broker' = {c} /\ registered' = registered \cup {c}
      /\ queue' = [queue EXCEPT ![c] = <<>>] /\ got' = [got EXCEPT ![c] = {}]
      /\ lost' = lost \ {c} /\ client' = [client EXCEPT ![c] = "read"]
      /\ UNCHANGED <<version, section, writer, targets, calls, snap, shown, drops>>
  BY DEF Subscribe, StreamInv
<1>2. TypeOK'
  <2>1. queue' \in [Clients -> Seq(Versions \cup {Closed})] /\ queue'[c] = <<>>
        /\ \A x \in Clients : x # c => queue'[x] = queue[x]
    BY <1>1 DEF TypeOK
  <2>2. \A x \in Clients : Len(queue'[x]) <= QueueSize
    <3>1. Len(<<>>) = 0
      OBVIOUS
    <3> QED
      BY <1>1, <2>1, <3>1, Numbers DEF TypeOK
  <2>3. /\ got' \in [Clients -> SUBSET Versions]
        /\ client' \in [Clients -> {"away", "read", "snapshot", "stream", "ended"}]
    BY <1>1 DEF TypeOK
  <2> QED
    BY <1>1, <2>1, <2>2, <2>3 DEF TypeOK
<1>3. /\ client'[c] = "read" /\ queue'[c] = <<>>
      /\ \A x \in Clients : x # c => client'[x] = client[x] /\ queue'[x] = queue[x] /\ got'[x] = got[x]
  BY <1>1 DEF TypeOK
<1>4. WritersTakeTurns'
  BY <1>1 DEF StreamInv, WritersTakeTurns
<1>5. LockIsForSubscribing'
  <2>1. \A x \in Clients : ~Subscribing(x)
    BY <1>1 DEF LoopFree, Subscribing
  <2>2. \A x \in Clients : Subscribing(x)' <=> x = c
    BY <1>3, <2>1 DEF Subscribing
  <2> QED
    BY <1>1, <1>3, <2>1, <2>2 DEF StreamInv, LockIsForSubscribing
<1>6. EventsGoToStreams'
  <2>1. ASSUME NEW x, client[x] = "stream" PROVE x # c
    BY <1>1, <2>1
  <2>2. \A i \in DOMAIN calls : calls[i].to \in Clients
    BY <1>1, Shapes
  <2>3. \A w \in Writers : targets[w] \subseteq Clients
    BY <1>1 DEF TypeOK
  <2>4. \A x \in Clients : Subscribing(x)' => queue'[x] = <<>> /\ x \notin lost'
    BY <1>1, <1>3 DEF Subscribing, LoopFree
  <2> QED
    BY <1>1, <1>3, <2>1, <2>2, <2>3, <2>4 DEF StreamInv, EventsGoToStreams
<1>7. NothingIsAhead'
  BY <1>1, <1>3 DEF StreamInv, NothingIsAhead
<1>8. CallsAscend' /\ CallsAreNews'
  BY <1>1 DEF StreamInv, CallsAscend, CallsAreNews
<1>9. QueuesAscend'
  BY <1>1, <1>3 DEF StreamInv, QueuesAscend
<1>10. SnapshotsAreRecent'
  BY <1>1, <1>3 DEF StreamInv, SnapshotsAreRecent
<1>11. NothingMissed'
  <2>1. ASSUME NEW x \in Clients, x # c, NEW v, Underway(x, v) PROVE Underway(x, v)'
    BY <1>1, <1>3, <2>1 DEF Underway
  <2> QED
    BY <1>1, <1>3, <2>1 DEF StreamInv, NothingMissed
<1>12. LossCloses'
  BY <1>1, <1>3 DEF StreamInv, LossCloses, TypeOK
<1> QED
  BY <1>2, <1>4, <1>5, <1>6, <1>7, <1>8, <1>9, <1>10, <1>11, <1>12 DEF StreamInv

\* The snapshot is of the newest version.
LEMMA ReadTaskKeeps ==
  ASSUME StreamInv, NEW c \in Clients, ReadTask(c)
  PROVE  StreamInv'
<1>1. TypeOK /\ client[c] = "read" /\ snap' = [snap EXCEPT ![c] = version]
      /\ client' = [client EXCEPT ![c] = "snapshot"] /\ version \in Nat
      /\ UNCHANGED <<version, section, writer, targets, broker, registered, calls, queue, got, shown, lost, drops>>
  BY Shapes DEF ReadTask, StreamInv
<1>2. TypeOK'
  BY <1>1 DEF TypeOK
<1>3. /\ client'[c] = "snapshot" /\ snap'[c] = version
      /\ \A x \in Clients : x # c => client'[x] = client[x] /\ snap'[x] = snap[x]
  BY <1>1 DEF TypeOK
<1>4. /\ \A x \in Clients : Subscribing(x)' <=> Subscribing(x)
      /\ \A x \in Clients : client'[x] = "stream" <=> client[x] = "stream"
  BY <1>1, <1>3 DEF Subscribing
<1>5. WritersTakeTurns'
  BY <1>1 DEF StreamInv, WritersTakeTurns
<1>6. LockIsForSubscribing'
  BY <1>1, <1>4 DEF StreamInv, LockIsForSubscribing
<1>7. EventsGoToStreams'
  <2>1. \A i \in DOMAIN calls : calls[i].to \in Clients
    BY <1>1, Shapes
  <2>2. \A w \in Writers : targets[w] \subseteq Clients
    BY <1>1 DEF TypeOK
  <2> QED
    BY <1>1, <1>4, <2>1, <2>2 DEF StreamInv, EventsGoToStreams
<1>8. NothingIsAhead'
  BY <1>1, <1>3, <1>4 DEF StreamInv, NothingIsAhead
<1>9. CallsAscend' /\ CallsAreNews'
  BY <1>1 DEF StreamInv, CallsAscend, CallsAreNews
<1>10. QueuesAscend'
  BY <1>1, <1>4 DEF StreamInv, QueuesAscend
<1>11. SnapshotsAreRecent'
  <2>1. \A v \in (version + 1) .. version : FALSE
    BY <1>1
  <2> QED
    BY <1>1, <1>3, <2>1 DEF StreamInv, SnapshotsAreRecent
<1>12. NothingMissed'
  <2>1. \A x \in Clients : client[x] = "stream" => x # c
    BY <1>1
  <2>2. ASSUME NEW x \in Clients, NEW v, Underway(x, v) PROVE Underway(x, v)'
    BY <1>1, <2>2 DEF Underway
  <2> QED
    BY <1>1, <1>3, <1>4, <2>1, <2>2 DEF StreamInv, NothingMissed
<1>13. LossCloses'
  BY <1>1, <1>4 DEF StreamInv, LossCloses, TypeOK
<1> QED
  BY <1>2, <1>5, <1>6, <1>7, <1>8, <1>9, <1>10, <1>11, <1>12, <1>13 DEF StreamInv

\* The snapshot is the first frame: nothing is on its way yet but a change that is
\* persisted, and addressed to the stream that begins.
LEMMA SnapshotKeeps ==
  ASSUME StreamInv, NEW c \in Clients, Snapshot(c)
  PROVE  StreamInv'
<1>1. TypeOK /\ client[c] = "snapshot" /\ broker' = {}
      /\ shown' = [shown EXCEPT ![c] = snap[c]]
      /\ UNCHANGED <<version, section, writer, queue, snap, got, lost, drops>>
  BY DEF Snapshot, StreamInv
<1>2. /\ shown' \in [Clients -> Versions] /\ shown'[c] = snap[c]
      /\ \A x \in Clients : x # c => shown'[x] = shown[x]
      /\ snap[c] <= version
  BY <1>1 DEF TypeOK, StreamInv, NothingIsAhead
<1>3. broker = {c}
  BY <1>1 DEF StreamInv, LockIsForSubscribing, Subscribing, TypeOK
<1>4. CASE Unregister(c) /\ client' = [client EXCEPT ![c] = "ended"]
  <2>1. client' \in [Clients -> {"away", "read", "snapshot", "stream", "ended"}]
    BY <1>1, <1>4 DEF TypeOK
  <2>2. TypeOK'
    BY <1>1, <1>2, <1>4, <2>1, UnregisterOf DEF TypeOK, Calls
  <2> QED
    BY <1>1, <1>2, <1>3, <1>4, <2>2, LeavingKeeps
<1>5. CASE UNCHANGED <<registered, calls, targets>> /\ client' = [client EXCEPT ![c] = "stream"]
  <2>1. client'[c] = "stream" /\ \A x \in Clients : x # c => client'[x] = client[x]
    BY <1>1, <1>5 DEF TypeOK
  <2>2. TypeOK'
    <3>1. client' \in [Clients -> {"away", "read", "snapshot", "stream", "ended"}]
      BY <1>1, <1>5 DEF TypeOK
    <3> QED
      BY <1>1, <1>2, <1>5, <3>1 DEF TypeOK
  <2>3. queue[c] = <<>> /\ DOMAIN queue[c] = {} /\ c \notin lost
    BY <1>1 DEF StreamInv, EventsGoToStreams, Subscribing
  <2>4. \A i \in DOMAIN calls : calls[i].to \in Clients /\ (calls[i].live => calls[i].to # c)
    BY <1>1, Shapes DEF StreamInv, EventsGoToStreams
  <2>5. \A x \in Clients : x # c => ~Subscribing(x) /\ ~Subscribing(x)'
    BY <1>1, <1>3, <2>1 DEF StreamInv, LockIsForSubscribing, Subscribing
  <2>6. WritersTakeTurns'
    BY <1>1, <1>5 DEF StreamInv, WritersTakeTurns
  <2>7. LockIsForSubscribing'
    <3>1. ~Subscribing(c)' /\ c \in registered
      BY <1>1, <2>1 DEF StreamInv, LockIsForSubscribing, Subscribing
    <3> QED
      BY <1>1, <1>5, <2>1, <2>5, <3>1 DEF StreamInv, LockIsForSubscribing
  <2>8. EventsGoToStreams'
    <3>1. \A w \in Writers : targets[w] \subseteq Clients
      BY <1>1 DEF TypeOK
    <3>2. ~Subscribing(c)'
      BY <2>1 DEF Subscribing
    <3> QED
      BY <1>1, <1>5, <2>1, <2>4, <2>5, <3>1, <3>2 DEF StreamInv, EventsGoToStreams
  <2>9. NothingIsAhead'
    BY <1>1, <1>2, <1>5, <2>1, <2>3 DEF StreamInv, NothingIsAhead
  <2>10. CallsAscend' /\ CallsAreNews'
    BY <1>1, <1>2, <1>5, <2>4 DEF StreamInv, CallsAscend, CallsAreNews
  <2>11. QueuesAscend'
    BY <1>1, <1>2, <1>5, <2>1, <2>3 DEF StreamInv, QueuesAscend
  <2>12. SnapshotsAreRecent'
    BY <1>1, <2>1 DEF StreamInv, SnapshotsAreRecent
  <2>13. NothingMissed'
    <3>1. ASSUME NEW x \in Clients, NEW v, Underway(x, v) PROVE Underway(x, v)'
      BY <1>1, <1>5, <3>1 DEF Underway
    <3>2. ASSUME NEW v \in (snap[c] + 1) .. version PROVE Underway(c, v)'
      BY <1>1, <3>2 DEF StreamInv, SnapshotsAreRecent, Underway
    <3> QED
      BY <1>1, <2>1, <3>1, <3>2 DEF StreamInv, NothingMissed
  <2>14. LossCloses'
    BY <1>1, <2>1, <2>3 DEF StreamInv, LossCloses, TypeOK
  <2> QED
    BY <2>2, <2>6, <2>7, <2>8, <2>9, <2>10, <2>11, <2>12, <2>13, <2>14 DEF StreamInv
<1> QED
  BY <1>4, <1>5 DEF Snapshot

\* The endpoint sends the head of the queue, which is no older than what the browser
\* shows; a terminal event and CLOSED end the stream.
LEMMA SendKeeps ==
  ASSUME StreamInv, NEW c \in Clients, Send(c)
  PROVE  StreamInv' /\ shown'[c] >= shown[c] /\ \A x \in Clients : x # c => shown'[x] = shown[x]
<1> DEFINE item == queue[c][1]
<1>1. TypeOK /\ client[c] = "stream" /\ LoopFree /\ queue[c] # <<>> /\ queue[c] \in Seq(Items)
      /\ UNCHANGED <<version, section, writer, broker, snap, lost, drops>>
  BY Shapes DEF Send, StreamInv
<1>2. /\ Head(queue[c]) = item /\ 1 \in DOMAIN queue[c] /\ item \in Items
      /\ Tail(queue[c]) \in Seq(Items) /\ Len(Tail(queue[c])) <= Len(queue[c])
      /\ \A i \in DOMAIN Tail(queue[c]) :
           i + 1 \in DOMAIN queue[c] /\ Tail(queue[c])[i] = queue[c][i + 1] /\ i \in Nat /\ i >= 1
      /\ \A i \in DOMAIN queue[c] : i # 1 =>
           i - 1 \in DOMAIN Tail(queue[c]) /\ Tail(queue[c])[i - 1] = queue[c][i]
  BY <1>1, TailOf
<1>3. queue' = [queue EXCEPT ![c] = Tail(queue[c])]
  BY DEF Send
<1>4. queue'[c] = Tail(queue[c]) /\ \A x \in Clients : x # c => queue'[x] = queue[x]
  BY <1>1, <1>3 DEF TypeOK
<1>5. \/ item = Closed /\ shown' = shown /\ got' = got
      \/ item # Closed /\ shown' = [shown EXCEPT ![c] = item] /\ got' = [got EXCEPT ![c] = @ \cup {item}]
  BY <1>2 DEF Send
<1>6. /\ \A x \in Clients : x # c => shown'[x] = shown[x] /\ got'[x] = got[x]
      /\ item = Closed => shown'[c] = shown[c] /\ got'[c] = got[c]
      /\ item # Closed => shown'[c] = item /\ got'[c] = got[c] \cup {item} /\ item \in Versions /\ item <= version
      /\ shown[c] <= item /\ item \in Nat /\ shown[c] \in Nat /\ shown'[c] <= version
  <2>1. shown[c] <= item /\ (item # Closed => item <= version) /\ shown[c] <= version
    BY <1>1, <1>2 DEF StreamInv, QueuesAscend, NothingIsAhead
  <2>2. item \in Nat /\ (item # Closed => item \in Versions) /\ shown[c] \in Nat
    BY <1>1, <1>2, Numbers, Shapes
  <2>3. item # Closed => shown'[c] = item /\ got'[c] = got[c] \cup {item}
    BY <1>1, <1>5 DEF TypeOK
  <2>4. \A x \in Clients : x # c => shown'[x] = shown[x] /\ got'[x] = got[x]
    BY <1>1, <1>5 DEF TypeOK
  <2> QED
    BY <1>5, <2>1, <2>2, <2>3, <2>4
<1>7. /\ shown' \in [Clients -> Versions] /\ got' \in [Clients -> SUBSET Versions]
      /\ queue' \in [Clients -> Seq(Versions \cup {Closed})]
      /\ \A x \in Clients : Len(queue'[x]) <= QueueSize
  <2>1. shown' \in [Clients -> Versions] /\ got' \in [Clients -> SUBSET Versions]
    <3>1. shown \in [Clients -> Versions] /\ got \in [Clients -> SUBSET Versions]
      BY <1>1 DEF TypeOK
    <3>2. CASE item = Closed
      BY <1>5, <3>1, <3>2
    <3>3. CASE item # Closed
      <4>1. item \in Versions /\ shown' = [shown EXCEPT ![c] = item] /\ got' = [got EXCEPT ![c] = got[c] \cup {item}]
        BY <1>5, <1>6, <3>3
      <4> QED
        BY <3>1, <4>1
    <3> QED
      BY <3>2, <3>3
  <2>2. queue' \in [Clients -> Seq(Versions \cup {Closed})]
    BY <1>1, <1>2, <1>3 DEF TypeOK, Items
  <2>3. Len(Tail(queue[c])) \in Nat /\ Len(queue[c]) \in Nat /\ Len(queue[c]) <= QueueSize
    BY <1>1, <1>2 DEF TypeOK
  <2>4. \A x \in Clients : Len(queue'[x]) <= QueueSize
    <3>1. Len(queue'[c]) <= QueueSize
      BY <1>2, <1>4, <2>3, Numbers
    <3>2. \A x \in Clients : Len(queue[x]) <= QueueSize
      BY <1>1 DEF TypeOK
    <3> QED
      BY <1>4, <3>1, <3>2
  <2> QED
    BY <2>1, <2>2, <2>4
<1>8. shown'[c] >= shown[c] /\ \A x \in Clients : x # c => shown'[x] = shown[x]
  BY <1>6
<1>9. CASE item < MaxChanges
  <2>1. UNCHANGED <<registered, calls, targets, client>> /\ item # Closed
    BY <1>2, <1>9, Numbers DEF Send
  <2>2. TypeOK'
    BY <1>1, <1>7, <2>1 DEF TypeOK
  <2>3. WritersTakeTurns' /\ LockIsForSubscribing'
    BY <1>1, <2>1 DEF StreamInv, WritersTakeTurns, LockIsForSubscribing, Subscribing
  <2>4. EventsGoToStreams'
    BY <1>1, <1>4, <2>1 DEF StreamInv, EventsGoToStreams, Subscribing
  <2>5. NothingIsAhead'
    <3>1. \A x \in Clients : client[x] = "stream" =>
            \A i \in DOMAIN queue'[x] : queue'[x][i] # Closed => queue'[x][i] <= version
      <4>1. \A x \in Clients : client[x] = "stream" =>
              \A i \in DOMAIN queue[x] : queue[x][i] # Closed => queue[x][i] <= version
        BY DEF StreamInv, NothingIsAhead
      <4>2. \A i \in DOMAIN queue'[c] : queue'[c][i] # Closed => queue'[c][i] <= version
        BY <1>1, <1>2, <1>4, <4>1
      <4> QED
        BY <1>4, <4>1, <4>2
    <3> QED
      BY <1>1, <1>6, <2>1, <3>1 DEF StreamInv, NothingIsAhead
  <2>6. CallsAscend'
    BY <2>1 DEF StreamInv, CallsAscend
  <2>7. CallsAreNews'
    <3>1. ASSUME NEW k \in DOMAIN calls, calls[k].live PROVE shown'[calls[k].to] <= calls[k].version
      <4>1. calls[k].to \in Clients
        BY <1>1, Shapes
      <4>2. CASE calls[k].to = c
        BY <1>1, <1>2, <1>6, <2>1, <3>1, <4>2 DEF StreamInv, QueuesAscend
      <4>3. CASE calls[k].to # c
        BY <1>6, <3>1, <4>1, <4>3 DEF StreamInv, CallsAreNews
      <4> QED
        BY <4>2, <4>3
    <3> QED
      BY <2>1, <3>1 DEF CallsAreNews
  <2>8. QueuesAscend'
    <3>1. ASSUME NEW i \in DOMAIN queue'[c]
          PROVE  /\ item <= queue'[c][i]
                 /\ queue'[c][i] # Closed =>
                      /\ \A j \in DOMAIN queue'[c] : i < j => queue'[c][i] <= queue'[c][j]
                      /\ \A k \in DOMAIN calls : calls[k].live /\ calls[k].to = c => queue'[c][i] <= calls[k].version
      <4>1. i + 1 \in DOMAIN queue[c] /\ queue'[c][i] = queue[c][i + 1] /\ 1 < i + 1
        BY <1>2, <1>4, <3>1
      <4>2. ASSUME NEW j \in DOMAIN queue'[c], i < j
            PROVE  j + 1 \in DOMAIN queue[c] /\ queue'[c][j] = queue[c][j + 1] /\ i + 1 < j + 1
        BY <1>2, <1>4, <3>1, <4>2
      <4>3. item <= queue'[c][i]
        BY <1>1, <1>2, <2>1, <4>1 DEF StreamInv, QueuesAscend
      <4>4. ASSUME queue'[c][i] # Closed, NEW j \in DOMAIN queue'[c], i < j PROVE queue'[c][i] <= queue'[c][j]
        BY <1>1, <4>1, <4>2, <4>4 DEF StreamInv, QueuesAscend
      <4>5. ASSUME queue'[c][i] # Closed, NEW k \in DOMAIN calls, calls[k].live, calls[k].to = c
            PROVE  queue'[c][i] <= calls[k].version
        BY <1>1, <4>1, <4>5 DEF StreamInv, QueuesAscend
      <4> QED
        BY <4>3, <4>4, <4>5
    <3>2. ASSUME NEW x \in Clients, x # c, client[x] = "stream", NEW i \in DOMAIN queue'[x]
          PROVE  /\ shown'[x] <= queue'[x][i]
                 /\ queue'[x][i] # Closed =>
                      /\ \A j \in DOMAIN queue'[x] : i < j => queue'[x][i] <= queue'[x][j]
                      /\ \A k \in DOMAIN calls : calls[k].live /\ calls[k].to = x => queue'[x][i] <= calls[k].version
      BY <1>4, <1>6, <3>2 DEF StreamInv, QueuesAscend
    <3> QED
      BY <1>6, <2>1, <3>1, <3>2 DEF QueuesAscend
  <2>9. SnapshotsAreRecent'
    BY <1>1, <2>1 DEF StreamInv, SnapshotsAreRecent
  <2>10. NothingMissed'
    <3>1. ASSUME NEW x \in Clients, x # c, NEW v, Underway(x, v) PROVE Underway(x, v)'
      BY <1>1, <1>4, <2>1, <3>1 DEF Underway
    <3>2. ASSUME NEW v, Underway(c, v) PROVE v \in got'[c] \/ Underway(c, v)'
      <4>1. ASSUME NEW i \in DOMAIN queue[c], v = queue[c][i] PROVE v \in got'[c] \/ Underway(c, v)'
        <5>1. CASE i = 1
          BY <1>6, <2>1, <4>1, <5>1
        <5>2. CASE i # 1
          <6>1. i - 1 \in DOMAIN queue'[c] /\ queue'[c][i - 1] = v
            BY <1>2, <1>4, <4>1, <5>2
          <6> QED
            BY <6>1 DEF Underway
        <5> QED
          BY <5>1, <5>2
      <4>2. CASE v \notin {queue[c][i] : i \in DOMAIN queue[c]}
        BY <1>1, <2>1, <3>2, <4>2 DEF Underway
      <4> QED
        BY <4>1, <4>2
    <3> QED
      BY <1>1, <1>6, <2>1, <3>1, <3>2 DEF StreamInv, NothingMissed
  <2>11. LossCloses'
    <3>1. ASSUME NEW x \in lost, client[x] = "stream" PROVE Closed \in {queue'[x][i] : i \in DOMAIN queue'[x]}
      <4>1. PICK i \in DOMAIN queue[x] : queue[x][i] = Closed
        BY <3>1 DEF StreamInv, LossCloses
      <4>2. CASE x = c
        <5>1. i - 1 \in DOMAIN queue'[c] /\ queue'[c][i - 1] = Closed
          BY <1>2, <1>4, <2>1, <4>1, <4>2
        <5> QED
          BY <4>2, <5>1
      <4>3. CASE x # c
        <5>1. queue'[x] = queue[x]
          BY <1>1, <1>4, <3>1, <4>3 DEF TypeOK
        <5> QED
          BY <4>1, <5>1
      <4> QED
        BY <4>2, <4>3
    <3> QED
      BY <1>1, <2>1, <3>1 DEF LossCloses
  <2> QED
    BY <1>8, <2>2, <2>3, <2>4, <2>5, <2>6, <2>7, <2>8, <2>9, <2>10, <2>11 DEF StreamInv
<1>10. CASE ~(item < MaxChanges)
  <2>1. PICK at \in {"away", "ended"} : Unregister(c) /\ client' = [client EXCEPT ![c] = at]
    BY <1>2, <1>10 DEF Send
  <2>2. TypeOK'
    <3>1. client' \in [Clients -> {"away", "read", "snapshot", "stream", "ended"}]
      BY <1>1, <2>1 DEF TypeOK
    <3> QED
      BY <1>1, <1>7, <2>1, <3>1, UnregisterOf DEF TypeOK, Calls
  <2>3. broker' = broker \ {c}
    BY <1>1 DEF StreamInv, LockIsForSubscribing, Subscribing
  <2>4. StreamInv'
    BY <1>1, <1>4, <1>6, <2>1, <2>2, <2>3, LeavingKeeps
  <2> QED
    BY <1>8, <2>4
<1> QED
  BY <1>9, <1>10

-----------------------------------------------------------------------------
(* The event loop's callback.                                              *)

\* What a callback leaves in the queue of a stream: the items there were, in their
\* order, the oldest perhaps gone, and then the event or CLOSED.
Enqueued(d, s, m) ==
  /\ queue' \in [Clients -> Seq(Items)]
  /\ \A x \in Clients : x # d => queue'[x] = queue[x]
  /\ Len(queue'[d]) = Len(s) + 1
  /\ Len(s) + 1 \in DOMAIN queue'[d] /\ queue'[d][Len(s) + 1] = m
  /\ \E k \in {0, 1} :
       /\ k = 0 => s = queue[d]
       /\ \A i \in DOMAIN queue'[d] :
            \/ i = Len(s) + 1
            \/ i < Len(s) + 1 /\ i + k \in DOMAIN queue[d] /\ queue'[d][i] = queue[d][i + k]

LEMMA EnqueuedOf ==
  ASSUME TypeOK, NEW d \in Clients, NEW m \in Items, NEW s \in {queue[d], Tail(queue[d])},
         queue[d] # <<>> \/ s = queue[d],
         queue' = [queue EXCEPT ![d] = Append(s, m)]
  PROVE  Enqueued(d, s, m)
<1>1. queue \in [Clients -> Seq(Items)] /\ queue[d] \in Seq(Items)
  BY Shapes
<1>2. PICK k \in {0, 1} :
        /\ s \in Seq(Items) /\ (k = 0 => s = queue[d])
        /\ \A i \in DOMAIN s : i + k \in DOMAIN queue[d] /\ s[i] = queue[d][i + k] /\ i \in Nat
  <2>1. CASE s = queue[d]
    <3>1. \A i \in DOMAIN s : i + 0 \in DOMAIN queue[d] /\ s[i] = queue[d][i + 0] /\ i \in Nat
      BY <1>1, <2>1
    <3> QED
      BY <1>1, <2>1, <3>1
  <2>2. CASE s # queue[d]
    <3>1. s = Tail(queue[d]) /\ queue[d] # <<>>
      BY <2>2
    <3>2. /\ s \in Seq(Items)
          /\ \A i \in DOMAIN s : i + 1 \in DOMAIN queue[d] /\ s[i] = queue[d][i + 1] /\ i \in Nat
      BY <1>1, <3>1, TailOf
    <3> QED
      BY <3>2
  <2> QED
    BY <2>1, <2>2
<1> DEFINE q == Append(s, m)
<1>3. /\ q \in Seq(Items) /\ Len(q) = Len(s) + 1 /\ Len(s) \in Nat
      /\ Len(s) + 1 \in DOMAIN q /\ q[Len(s) + 1] = m
      /\ \A i \in DOMAIN s : i \in DOMAIN q /\ q[i] = s[i] /\ i <= Len(s) /\ i \in Nat
      /\ \A i \in DOMAIN q : i = Len(s) + 1 \/ i \in DOMAIN s
  BY <1>2, AppendOf
<1>4. queue'[d] = q /\ \A x \in Clients : x # d => queue'[x] = queue[x]
  BY <1>1
<1>5. queue' \in [Clients -> Seq(Items)]
  BY <1>1, <1>3
<1> HIDE DEF q
<1>6. ASSUME NEW i \in DOMAIN q, i # Len(s) + 1
      PROVE  i < Len(s) + 1 /\ i + k \in DOMAIN queue[d] /\ q[i] = queue[d][i + k]
  BY <1>2, <1>3, <1>6
<1> QED
  BY <1>2, <1>3, <1>4, <1>5, <1>6 DEF Enqueued

\* The first callback runs: its event goes behind the older ones of that stream, or the
\* queue is full and CLOSED takes its place.
LEMMA EnqueueKeeps ==
  ASSUME StreamInv, Enqueue
  PROVE  StreamInv'
<1> DEFINE m == calls[1]
           d == m.to
<1>1. TypeOK /\ LoopFree /\ calls # <<>> /\ calls \in Seq(Calls) /\ calls' = Tail(calls)
      /\ UNCHANGED <<version, section, writer, targets, broker, registered, client, snap, got, shown, drops>>
  BY Shapes DEF Enqueue, StreamInv
<1>2. /\ Head(calls) = m /\ 1 \in DOMAIN calls /\ calls' \in Seq(Calls)
      /\ \A i \in DOMAIN calls' : i + 1 \in DOMAIN calls /\ calls'[i] = calls[i + 1] /\ i \in Nat /\ i >= 1
      /\ \A i \in DOMAIN calls : i # 1 => i - 1 \in DOMAIN calls' /\ calls'[i - 1] = calls[i]
  BY <1>1, TailOf
<1>3. d \in Clients /\ m.version \in Versions /\ m.version \in Nat /\ m.version # Closed /\ m.live \in BOOLEAN
  BY <1>1, <1>2, Shapes, Numbers
<1>4. WritersTakeTurns' /\ LockIsForSubscribing' /\ SnapshotsAreRecent'
  BY <1>1 DEF StreamInv, WritersTakeTurns, LockIsForSubscribing, SnapshotsAreRecent, Subscribing
<1>5. CallsAscend'
  <2>1. ASSUME NEW i \in DOMAIN calls', NEW j \in DOMAIN calls', i < j
        PROVE  calls'[i].version <= calls'[j].version
    <3>1. i + 1 \in DOMAIN calls /\ j + 1 \in DOMAIN calls /\ i + 1 < j + 1
          /\ calls'[i] = calls[i + 1] /\ calls'[j] = calls[j + 1]
      BY <1>2, <2>1
    <3> QED
      BY <3>1 DEF StreamInv, CallsAscend
  <2> QED
    BY <2>1 DEF CallsAscend
<1>6. CallsAreNews'
  BY <1>1, <1>2 DEF StreamInv, CallsAreNews
<1>7. ASSUME ~m.live PROVE StreamInv'
  <2>1. UNCHANGED <<queue, lost>>
    BY <1>2, <1>7 DEF Enqueue
  <2>2. TypeOK'
    BY <1>1, <1>2, <2>1 DEF TypeOK, Calls
  <2>3. EventsGoToStreams' /\ NothingIsAhead'
    BY <1>1, <1>2, <2>1 DEF StreamInv, EventsGoToStreams, NothingIsAhead, Subscribing
  <2>4. QueuesAscend'
    BY <1>1, <1>2, <2>1 DEF StreamInv, QueuesAscend
  <2>5. NothingMissed'
    <3>1. ASSUME NEW x \in Clients, NEW v, Underway(x, v) PROVE Underway(x, v)'
      <4>1. ASSUME NEW i \in DOMAIN calls, calls[i] = [to |-> x, version |-> v, live |-> TRUE]
            PROVE  Underway(x, v)'
        <5>1. i # 1
          BY <1>7, <4>1
        <5>2. i - 1 \in DOMAIN calls' /\ calls'[i - 1] = [to |-> x, version |-> v, live |-> TRUE]
          BY <1>2, <4>1, <5>1
        <5> QED
          BY <5>2 DEF Underway
      <4>2. CASE [to |-> x, version |-> v, live |-> TRUE] \notin {calls[i] : i \in DOMAIN calls}
        BY <1>1, <2>1, <3>1, <4>2 DEF Underway
      <4> QED
        BY <4>1, <4>2
    <3> QED
      BY <1>1, <2>1, <3>1 DEF StreamInv, NothingMissed
  <2>6. LossCloses'
    BY <1>1, <2>1 DEF StreamInv, LossCloses
  <2> QED
    BY <1>4, <1>5, <1>6, <2>2, <2>3, <2>4, <2>5, <2>6 DEF StreamInv
<1>8. ASSUME m.live PROVE StreamInv'
  <2>1. client[d] = "stream" /\ ~Subscribing(d) /\ Len(queue[d]) <= QueueSize
        /\ queue[d] \in Seq(Items) /\ Len(queue[d]) \in Nat
    BY <1>1, <1>2, <1>3, <1>8, Shapes DEF StreamInv, EventsGoToStreams, Subscribing, TypeOK
  <2>2. PICK s \in {queue[d], Tail(queue[d])}, e \in {m.version, Closed} :
          /\ queue' = [queue EXCEPT ![d] = Append(s, e)]
          /\ queue[d] # <<>> \/ s = queue[d]
          /\ Len(s) + 1 <= QueueSize
          /\ \/ e = Closed /\ lost' = lost \cup {d}
             \/ e = m.version /\ s = queue[d] /\ lost' = lost
    <3>1. CASE Len(queue[d]) = QueueSize
      <4>1. queue' = [queue EXCEPT ![d] = Append(Tail(queue[d]), Closed)] /\ lost' = lost \cup {d}
        BY <1>2, <1>8, <3>1 DEF Enqueue
      <4>2. queue[d] # <<>>
        <5>1. Len(<<>>) = 0
          OBVIOUS
        <5> QED
          BY <3>1, <5>1, Numbers
      <4>3. Len(Tail(queue[d])) + 1 <= QueueSize
        BY <2>1, <3>1, <4>2, TailOf
      <4> QED
        BY <4>1, <4>2, <4>3
    <3>2. CASE Len(queue[d]) # QueueSize
      <4>1. queue' = [queue EXCEPT ![d] = Append(queue[d], m.version)] /\ lost' = lost
        BY <1>2, <1>8, <3>2 DEF Enqueue
      <4>2. Len(queue[d]) + 1 <= QueueSize
        BY <2>1, <3>2, Numbers
      <4> QED
        BY <4>1, <4>2
    <3> QED
      BY <3>1, <3>2
  <2>3. e \in Items
    BY <1>3, <2>2 DEF Items
  <2>4. /\ queue' \in [Clients -> Seq(Items)]
        /\ \A x \in Clients : x # d => queue'[x] = queue[x]
        /\ Len(queue'[d]) = Len(s) + 1
        /\ Len(s) + 1 \in DOMAIN queue'[d] /\ queue'[d][Len(s) + 1] = e
        /\ \E k \in {0, 1} :
             /\ k = 0 => s = queue[d]
             /\ \A i \in DOMAIN queue'[d] :
                  \/ i = Len(s) + 1
                  \/ i < Len(s) + 1 /\ i + k \in DOMAIN queue[d] /\ queue'[d][i] = queue[d][i + k]
    <3>1. TypeOK /\ d \in Clients /\ e \in Items /\ s \in {queue[d], Tail(queue[d])}
          /\ queue' = [queue EXCEPT ![d] = Append(s, e)] /\ (queue[d] # <<>> \/ s = queue[d])
      BY <1>1, <1>3, <2>2, <2>3
    <3>2. Enqueued(d, s, e)
      BY <3>1, EnqueuedOf, Zenon
    <3> QED
      BY <3>2, Zenon DEF Enqueued
  <2>5. PICK k \in {0, 1} :
          \A i \in DOMAIN queue'[d] :
            \/ i = Len(s) + 1
            \/ i < Len(s) + 1 /\ i + k \in DOMAIN queue[d] /\ queue'[d][i] = queue[d][i + k]
    BY <2>4
  <2>6. Len(s) \in Nat /\ \A i \in DOMAIN queue'[d] : i \in Nat
    <3>1. s \in Seq(Items)
      <4>1. CASE s = queue[d]
        BY <2>1, <4>1
      <4>2. CASE queue[d] # <<>> /\ s = Tail(queue[d])
        <5>1. Tail(queue[d]) \in Seq(Items)
          BY <2>1, <4>2, TailOf
        <5> QED
          BY <4>2, <5>1
      <4> QED
        BY <2>2, <4>1, <4>2
    <3>2. queue'[d] \in Seq(Items)
      BY <1>3, <2>4
    <3> QED
      BY <3>1, <3>2
  <2>7. TypeOK'
    <3>1. \A x \in Clients : Len(queue'[x]) <= QueueSize
      <4>1. \A x \in Clients : Len(queue[x]) <= QueueSize
        BY <1>1 DEF TypeOK
      <4> QED
        BY <2>2, <2>4, <4>1
    <3>2. lost' \in SUBSET Clients
      BY <1>1, <1>3, <2>2 DEF TypeOK
    <3> QED
      BY <1>1, <1>2, <2>4, <3>1, <3>2 DEF TypeOK, Calls, Items
  <2>8. EventsGoToStreams'
    <3>1. \A i \in DOMAIN calls' : calls'[i].live => client[calls'[i].to] = "stream"
      BY <1>2 DEF StreamInv, EventsGoToStreams
    <3>2. \A x \in Clients : Subscribing(x) => queue'[x] = <<>> /\ x \notin lost'
      BY <2>1, <2>2, <2>4 DEF StreamInv, EventsGoToStreams
    <3> QED
      BY <1>1, <3>1, <3>2 DEF StreamInv, EventsGoToStreams, Subscribing
  <2>9. m.version <= version /\ shown[d] <= m.version /\ shown[d] \in Nat /\ shown[d] < Closed
    <3>1. m.version <= version /\ shown[d] <= m.version
      BY <1>2, <1>8 DEF StreamInv, NothingIsAhead, CallsAreNews
    <3>2. shown[d] \in Nat /\ shown[d] <= MaxChanges
      BY <1>1, <1>3, Shapes
    <3> QED
      BY <3>1, <3>2, Numbers
  <2>10. NothingIsAhead'
    <3>1. ASSUME NEW i \in DOMAIN queue'[d], queue'[d][i] # Closed PROVE queue'[d][i] <= version
      <4>1. CASE i = Len(s) + 1
        BY <2>2, <2>4, <2>9, <3>1, <4>1
      <4>2. CASE i # Len(s) + 1
        BY <1>3, <2>1, <2>5, <3>1, <4>2 DEF StreamInv, NothingIsAhead
      <4> QED
        BY <4>1, <4>2
    <3>2. \A i \in DOMAIN calls' : calls'[i].version <= version
      BY <1>2 DEF StreamInv, NothingIsAhead
    <3>3. \A x \in Clients : x # d /\ client[x] = "stream" =>
            \A i \in DOMAIN queue'[x] : queue'[x][i] # Closed => queue'[x][i] <= version
      BY <2>4 DEF StreamInv, NothingIsAhead
    <3> QED
      BY <1>1, <3>1, <3>2, <3>3 DEF StreamInv, NothingIsAhead
  <2>11. QueuesAscend'
    <3>1. ASSUME NEW i \in DOMAIN queue'[d] PROVE shown[d] <= queue'[d][i]
      <4>1. CASE i = Len(s) + 1
        BY <2>2, <2>4, <2>9, <4>1, Numbers
      <4>2. CASE i # Len(s) + 1
        BY <1>3, <2>1, <2>5, <3>1, <4>2 DEF StreamInv, QueuesAscend
      <4> QED
        BY <4>1, <4>2
    <3>2. ASSUME NEW i \in DOMAIN queue'[d], queue'[d][i] # Closed, NEW j \in DOMAIN queue'[d], i < j
          PROVE  queue'[d][i] <= queue'[d][j]
      <4>1. i # Len(s) + 1 /\ i < Len(s) + 1 /\ i + k \in DOMAIN queue[d] /\ queue'[d][i] = queue[d][i + k]
        BY <2>5, <2>6, <3>2
      <4>2. queue[d][i + k] \in Nat /\ queue[d][i + k] \in Items
        BY <1>1, <1>3, <4>1, Shapes
      <4>3. CASE j = Len(s) + 1
        <5>1. queue[d][i + k] <= m.version
          BY <1>2, <1>3, <1>8, <2>1, <3>2, <4>1 DEF StreamInv, QueuesAscend
        <5>2. queue[d][i + k] <= Closed
          BY <4>2, Numbers
        <5> QED
          BY <2>2, <2>4, <4>1, <4>3, <5>1, <5>2
      <4>4. CASE j # Len(s) + 1
        <5>1. j + k \in DOMAIN queue[d] /\ queue'[d][j] = queue[d][j + k]
          BY <2>5, <4>4
        <5>2. i + k < j + k
          BY <2>6, <3>2
        <5> QED
          BY <1>3, <2>1, <3>2, <4>1, <5>1, <5>2 DEF StreamInv, QueuesAscend
      <4> QED
        BY <4>3, <4>4
    <3>3. ASSUME NEW i \in DOMAIN queue'[d], queue'[d][i] # Closed,
                 NEW n \in DOMAIN calls', calls'[n].live, calls'[n].to = d
          PROVE  queue'[d][i] <= calls'[n].version
      <4>1. n + 1 \in DOMAIN calls /\ calls'[n] = calls[n + 1] /\ 1 < n + 1
        BY <1>2, <3>3
      <4>2. CASE i = Len(s) + 1
        <5>1. m.version <= calls[n + 1].version
          BY <1>2, <4>1 DEF StreamInv, CallsAscend
        <5> QED
          BY <2>2, <2>4, <3>3, <4>1, <4>2, <5>1
      <4>3. CASE i # Len(s) + 1
        BY <1>3, <2>1, <2>5, <3>3, <4>1, <4>3 DEF StreamInv, QueuesAscend
      <4> QED
        BY <4>2, <4>3
    <3>4. ASSUME NEW x \in Clients, x # d, client[x] = "stream", NEW i \in DOMAIN queue'[x]
          PROVE  /\ shown[x] <= queue'[x][i]
                 /\ queue'[x][i] # Closed =>
                      /\ \A j \in DOMAIN queue'[x] : i < j => queue'[x][i] <= queue'[x][j]
                      /\ \A n \in DOMAIN calls' : calls'[n].live /\ calls'[n].to = x => queue'[x][i] <= calls'[n].version
      <4>1. queue'[x] = queue[x]
        BY <2>4, <3>4
      <4>2. /\ shown[x] <= queue[x][i]
            /\ queue[x][i] # Closed =>
                 /\ \A j \in DOMAIN queue[x] : i < j => queue[x][i] <= queue[x][j]
                 /\ \A n \in DOMAIN calls : calls[n].live /\ calls[n].to = x => queue[x][i] <= calls[n].version
        BY <3>4, <4>1 DEF StreamInv, QueuesAscend
      <4>3. \A n \in DOMAIN calls' : n + 1 \in DOMAIN calls /\ calls'[n] = calls[n + 1]
        BY <1>2
      <4> QED
        BY <4>1, <4>2, <4>3
    <3> QED
      BY <1>1, <3>1, <3>2, <3>3, <3>4 DEF QueuesAscend
  <2>12. NothingMissed'
    <3>1. ASSUME NEW x \in Clients, x \notin lost', NEW v, Underway(x, v) PROVE Underway(x, v)'
      <4>1. ASSUME NEW i \in DOMAIN calls, calls[i] = [to |-> x, version |-> v, live |-> TRUE]
            PROVE  Underway(x, v)'
        <5>1. CASE i = 1
          <6>1. x = d /\ v = m.version
            BY <4>1, <5>1
          <6>2. e = m.version
            BY <2>2, <3>1, <6>1
          <6> QED
            BY <2>4, <6>1, <6>2 DEF Underway
        <5>2. CASE i # 1
          <6>1. i - 1 \in DOMAIN calls' /\ calls'[i - 1] = [to |-> x, version |-> v, live |-> TRUE]
            BY <1>2, <4>1, <5>2
          <6> QED
            BY <6>1 DEF Underway
        <5> QED
          BY <5>1, <5>2
      <4>2. ASSUME NEW i \in DOMAIN queue[x], queue[x][i] = v PROVE Underway(x, v)'
        <5>1. CASE x # d
          BY <2>4, <4>2, <5>1 DEF Underway
        <5>2. CASE x = d
          <6>1. s = queue[d] /\ queue' = [queue EXCEPT ![d] = Append(queue[d], e)]
            BY <2>2, <3>1, <5>2
          <6>2. queue'[d] = Append(queue[d], e)
            BY <1>1, <1>3, <6>1 DEF TypeOK
          <6>3. i \in DOMAIN queue'[d] /\ queue'[d][i] = v
            BY <2>1, <2>3, <4>2, <5>2, <6>2, AppendOf
          <6> QED
            BY <5>2, <6>3 DEF Underway
        <5> QED
          BY <5>1, <5>2
      <4>3. ASSUME v = version, NEW w \in Writers, writer[w] = "persisted" \/ (writer[w] = "listed" /\ x \in targets[w])
            PROVE  Underway(x, v)'
        BY <1>1, <4>3 DEF Underway
      <4> QED
        BY <3>1, <4>1, <4>2, <4>3 DEF Underway
    <3>2. \A x \in Clients : x \notin lost' => x \notin lost
      BY <2>2
    <3> QED
      BY <1>1, <3>1, <3>2 DEF StreamInv, NothingMissed
  <2>13. LossCloses'
    <3>1. ASSUME NEW x \in lost', client[x] = "stream" PROVE Closed \in {queue'[x][i] : i \in DOMAIN queue'[x]}
      <4>1. CASE e = Closed /\ x = d
        BY <2>4, <4>1
      <4>2. CASE x # d
        <5>1. x \in lost /\ x \in Clients
          BY <1>1, <2>2, <3>1, <4>2 DEF TypeOK
        <5>2. queue'[x] = queue[x]
          BY <2>4, <4>2, <5>1
        <5> QED
          BY <3>1, <5>1, <5>2 DEF StreamInv, LossCloses
      <4>3. CASE e # Closed /\ x = d
        <5>1. x \in lost /\ s = queue[d]
          BY <2>2, <3>1, <4>3
        <5>2. PICK i \in DOMAIN queue[d] : queue[d][i] = Closed
          BY <3>1, <4>3, <5>1 DEF StreamInv, LossCloses
        <5>3. queue'[d] = Append(queue[d], e)
          BY <1>1, <1>3, <2>2, <5>1 DEF TypeOK
        <5>4. i \in DOMAIN queue'[d] /\ queue'[d][i] = Closed
          BY <2>1, <2>3, <5>2, <5>3, AppendOf
        <5> QED
          BY <4>3, <5>4
      <4> QED
        BY <4>1, <4>2, <4>3
    <3> QED
      BY <1>1, <3>1 DEF LossCloses
  <2> QED
    BY <1>4, <1>5, <1>6, <2>7, <2>8, <2>10, <2>11, <2>12, <2>13 DEF StreamInv
<1> QED
  BY <1>3, <1>7, <1>8

-----------------------------------------------------------------------------
(* The invariant and what it says.                                         *)

\* Nothing has happened yet.
LEMMA InitHolds == Init => StreamInv
<1> SUFFICES ASSUME Init PROVE StreamInv
  OBVIOUS
<1>1. TypeOK
  <2>1. 0 \in Versions /\ 0 \in 0 .. MaxDrops
    BY StreamBounds DEF Versions
  <2>2. <<>> \in Seq(Versions \cup {Closed}) /\ Len(<<>>) = 0
        /\ <<>> \in Seq([to : Clients, version : Versions, live : BOOLEAN])
    OBVIOUS
  <2>3. queue \in [Clients -> Seq(Versions \cup {Closed})] /\ \A c \in Clients : queue[c] = <<>>
    BY <2>2 DEF Init
  <2>4. \A c \in Clients : Len(queue[c]) <= QueueSize
    BY <2>2, <2>3, Numbers
  <2>5. shown \in [Clients -> Versions] /\ snap \in [Clients -> Versions] /\ got \in [Clients -> SUBSET Versions]
    BY <2>1 DEF Init
  <2> QED
    BY <2>1, <2>2, <2>3, <2>4, <2>5 DEF Init, TypeOK
<1>2. DOMAIN calls = {} /\ \A c \in Clients : ~Subscribing(c) /\ client[c] = "away"
  BY DEF Init, Subscribing
<1>3. WritersTakeTurns /\ LockIsForSubscribing /\ EventsGoToStreams
  BY <1>2 DEF Init, WritersTakeTurns, LockIsForSubscribing, EventsGoToStreams
<1>4. NothingIsAhead /\ CallsAscend /\ QueuesAscend /\ CallsAreNews /\ SnapshotsAreRecent
  BY <1>2 DEF Init, NothingIsAhead, CallsAscend, QueuesAscend, CallsAreNews, SnapshotsAreRecent
<1>5. NothingMissed /\ LossCloses
  BY <1>2 DEF Init, NothingMissed, LossCloses
<1> QED
  BY <1>1, <1>3, <1>4, <1>5 DEF StreamInv

\* Every step keeps the invariant.
LEMMA StepHolds == StreamInv /\ [Next]_vars => StreamInv'
<1> SUFFICES ASSUME StreamInv, [Next]_vars PROVE StreamInv'
  OBVIOUS
<1>1. CASE UNCHANGED vars
  BY <1>1 DEF StreamInv, TypeOK, WritersTakeTurns, LockIsForSubscribing, EventsGoToStreams, NothingIsAhead,
     CallsAscend, QueuesAscend, CallsAreNews, SnapshotsAreRecent, NothingMissed, LossCloses, Underway,
     Subscribing, vars
<1>2. ASSUME NEW w \in Writers, Change(w) \/ Publish(w) PROVE StreamInv'
  BY <1>2, ChangeKeeps, ListKeeps, ScheduleKeeps DEF Publish
<1>3. ASSUME NEW c \in Clients, Watch(c) \/ Drop(c) PROVE StreamInv'
  BY <1>3, SubscribeKeeps, ReadTaskKeeps, SnapshotKeeps, SendKeeps, DropKeeps DEF Watch
<1>4. CASE Enqueue
  BY <1>4, EnqueueKeeps
<1> QED
  BY <1>1, <1>2, <1>3, <1>4 DEF Next, Over

\* The invariant holds of every behaviour: the events on their way to a browser are in
\* the order of the changes, and only a stream has any.
THEOREM StreamInvariant == Spec => []StreamInv
<1>1. Init => StreamInv
  BY InitHolds
<1>2. StreamInv /\ [Next]_vars => StreamInv'
  BY StepHolds
<1> QED
  BY <1>1, <1>2, PTL DEF Spec

\* The state keeps its shape, and a queue its size.
THEOREM StreamsAreTyped == Spec => []TypeOK
<1>1. StreamInv => TypeOK
  BY DEF StreamInv
<1> QED
  BY <1>1, StreamInvariant, PTL

\* There is no gap between the snapshot of a subscription and its stream: every change
\* the snapshot does not have was received, or is on its way, or the queue overflowed
\* (EventBroker.subscribe registers and reads under one lock).
THEOREM NoChangeIsMissed == Spec => []NothingMissed
<1>1. StreamInv => NothingMissed
  BY DEF StreamInv
<1> QED
  BY <1>1, StreamInvariant, PTL

\* A stream whose queue overflowed still has CLOSED in it (EventBroker._enqueue).
THEOREM LossesAlwaysClose == Spec => []LossCloses
<1>1. StreamInv => LossCloses
  BY DEF StreamInv
<1> QED
  BY <1>1, StreamInvariant, PTL

\* No step makes a browser show an earlier version than the one it shows: neither an
\* event, nor the snapshot of a reconnection.
THEOREM BrowsersNeverGoBack == Spec => NeverStale
<1> DEFINE A == \A c \in Clients : shown'[c] >= shown[c]
<1>1. StreamInv /\ [Next]_vars => [A]_vars
  <2> SUFFICES ASSUME StreamInv, Next PROVE A
    OBVIOUS
  <2>1. \A c \in Clients : shown[c] \in Nat
    BY Shapes DEF StreamInv
  <2>2. ASSUME shown' = shown PROVE A
    BY <2>1, <2>2
  <2>3. ASSUME NEW c \in Clients, Send(c) PROVE A
    BY <2>1, <2>3, SendKeeps
  <2>4. ASSUME NEW c \in Clients, Snapshot(c) PROVE A
    <3>1. shown' = [shown EXCEPT ![c] = snap[c]] /\ client[c] = "snapshot"
      BY <2>4 DEF Snapshot
    <3>2. shown[c] <= snap[c] /\ shown'[c] = snap[c] /\ snap[c] \in Nat
          /\ \A x \in Clients : x # c => shown'[x] = shown[x]
      BY <3>1, Shapes DEF StreamInv, NothingIsAhead, TypeOK
    <3> QED
      BY <2>1, <3>2
  <2>5. \/ shown' = shown
        \/ \E c \in Clients : Send(c) \/ Snapshot(c)
    BY DEF Next, Change, Publish, ListSubscribers, Schedule, Watch, Subscribe, ReadTask, Drop, Enqueue, Over,
       vars
  <2> QED
    BY <2>2, <2>3, <2>4, <2>5
<1>2. Spec => [][A]_vars
  BY <1>1, StreamInvariant, PTL DEF Spec
<1> QED
  BY <1>2 DEF NeverStale
=============================================================================
