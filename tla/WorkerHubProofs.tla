--------------------------- MODULE WorkerHubProofs ---------------------------
(***************************************************************************)
(* Theorems about WorkerHub for every set of Tasks and every limit.        *)
(***************************************************************************)
EXTENDS WorkerHub, TLAPS

-----------------------------------------------------------------------------
(* Messages, handlers and the type invariant.                              *)

TaskMsgs     == [type : {"stream", "note", "beat"}, task : Tasks]
AskMsgs      == [type : {"ask"}, task : Tasks, ask : 1 .. MaxAsks]
TerminalMsgs == [type : {"terminal"}, task : Tasks, status : Terminal]
UpMsgs       == [type : {"hello"}] \cup TaskMsgs \cup AskMsgs \cup TerminalMsgs

CommandMsgs  == [type : {"start", "cancel"}, task : Tasks]
DecisionMsgs == [type : {"decision"}, task : Tasks, ask : 1 .. MaxAsks, decision : Decisions]
DownMsgs     == CommandMsgs \cup DecisionMsgs

\* Where a handler is with each kind of message.
AtOf(type) == CASE type = "note"     -> {"flush", "flushed", "append", "appended"}
                [] type = "ask"      -> {"ask"}
                [] type = "terminal" -> {"flush", "flushed", "settle"}
                [] OTHER             -> {}
Busy == {"flush", "flushed", "append", "appended", "ask", "settle"}

Handlers == [at : {"idle", "closed"} \cup Busy, msg : UpMsgs \cup {NoMsg}, copy : Records]

HubType ==
    /\ TypeOK
    /\ inbox \in [Conns -> Seq(UpMsgs)]
    /\ outbox \in [Conns -> Seq(DownMsgs)]
    /\ handler \in [Conns -> Handlers]
    /\ \A c \in Conns : handler[c].at \in Busy =>
         handler[c].msg \in UpMsgs /\ handler[c].at \in AtOf(handler[c].msg.type)
    /\ asker \in Seq(Tasks) /\ Len(asker) <= MaxAsks
    /\ acted \subseteq [ask : 1 .. MaxAsks, decision : Decisions]
    /\ conn \in {0, opened} /\ wconn \in {0, opened}

-----------------------------------------------------------------------------
(* The parts of the inductive invariant.                                   *)

IsAsk(c, i)  == i \in DOMAIN inbox[c] /\ inbox[c][i].type = "ask"
Asking(c)    == handler[c].at = "ask"
NewAsk(n)    == n <= Len(asker) /\ approval[n] = "none"

\* A request for an approval is in one place on its way to its registration, and
\* until then its Approval does not exist.
AsksAreNew ==
    /\ \A n \in 1 .. MaxAsks : n > Len(asker) => approval[n] = "none"
    /\ \A c \in Conns : \A i \in DOMAIN inbox[c] : IsAsk(c, i) => NewAsk(inbox[c][i].ask)
    /\ \A c \in Conns : Asking(c) => NewAsk(handler[c].msg.ask)
    /\ \A c, d \in Conns : \A i \in DOMAIN inbox[c], j \in DOMAIN inbox[d] :
         IsAsk(c, i) /\ IsAsk(d, j) /\ inbox[c][i].ask = inbox[d][j].ask => c = d /\ i = j
    /\ \A c, d \in Conns : \A j \in DOMAIN inbox[d] :
         Asking(c) /\ IsAsk(d, j) => handler[c].msg.ask # inbox[d][j].ask
    /\ \A c, d \in Conns :
         Asking(c) /\ Asking(d) /\ handler[c].msg.ask = handler[d].msg.ask => c = d

\* The hub is told something of t on connection c, or is handling it.
About(c, t) ==
    \/ \E i \in DOMAIN inbox[c] : inbox[c][i].type # "hello" /\ inbox[c][i].task = t
    \/ handler[c].at \in Busy /\ handler[c].msg.task = t

\* A Task whose dispatch has not begun has left no trace but its record.
UnstartedIsUntouched ==
    \A t \in Tasks : call[t] = "idle" =>
        /\ task[t].status = "queued" /\ t \notin assigned /\ ending[t] = "none" /\ run[t] = "none"
        /\ \A c \in Conns : ~About(c, t) /\ \A i \in DOMAIN outbox[c] : outbox[c][i].task # t

\* What the hub hears of a Task that has a slot comes on the device's current
\* connection, the last one opened.
SlotsHaveConnection ==
    /\ assigned # {} => conn \in ready /\ conn = opened
    /\ \A t \in assigned : \A c \in Conns : About(c, t) => c = opened

\* Handler c holds a copy of the record of t that it will write.
CopyOf(c, t) == handler[c].at \in {"flushed", "appended"} /\ handler[c].msg.task = t

\* A Task that has a slot is dispatched and not being ended; neither its record nor
\* a copy that will be written over it is terminal.
SlotsAreLive ==
    \A t \in assigned :
        /\ call[t] \in {"assigned", "send", "release", "done"}
        /\ ending[t] = "none"
        /\ task[t].status \notin Terminal
        /\ \A c \in Conns : CopyOf(c, t) => handler[c].copy.status \notin Terminal

\* t has status s, or has a copy with status s that will be written over its record.
Seen(t, s) ==
    \/ task[t].status = s
    \/ \E c \in Conns : CopyOf(c, t) /\ handler[c].copy.status = s
    \/ ending[t] = "write" /\ draft[t].status = s

\* A Task that was completed has no slot, and no stale copy of it remembers a
\* cancellation that was requested.
CompletedIsSettled ==
    \A t \in Tasks : Seen(t, "completed") => t \notin assigned /\ ~Seen(t, "cancel_requested")

HubInv ==
    /\ HubType
    /\ AsksAreNew /\ DecisionsAreRecorded
    /\ UnstartedIsUntouched /\ SlotsHaveConnection /\ SlotsAreLive /\ CompletedIsSettled

-----------------------------------------------------------------------------
(* Sequences of messages.                                                  *)

\* The first message is taken off: the others move up by one.
LEMMA TailOf ==
  ASSUME NEW S, NEW s \in Seq(S), s # <<>>
  PROVE  /\ Head(s) = s[1] /\ Head(s) \in S /\ 1 \in DOMAIN s
         /\ Tail(s) \in Seq(S) /\ Len(Tail(s)) <= Len(s)
         /\ \A i \in DOMAIN Tail(s) : i + 1 \in DOMAIN s /\ Tail(s)[i] = s[i + 1] /\ i \in Nat /\ i >= 1
  OBVIOUS

\* A message is put behind the others.
LEMMA AppendOf ==
  ASSUME NEW S, NEW s \in Seq(S), NEW m \in S
  PROVE  /\ Append(s, m) \in Seq(S) /\ Len(Append(s, m)) = Len(s) + 1
         /\ \A i \in DOMAIN Append(s, m) :
              \/ i \in DOMAIN s /\ Append(s, m)[i] = s[i]
              \/ i = Len(s) + 1 /\ Append(s, m)[i] = m
<1>1. Append(s, m) \in Seq(S) /\ Len(Append(s, m)) = Len(s) + 1
  OBVIOUS
<1>2. DOMAIN s = 1 .. Len(s) /\ DOMAIN Append(s, m) = 1 .. (Len(s) + 1) /\ Len(s) \in Nat
  OBVIOUS
<1>3. ASSUME NEW i \in 1 .. Len(s) PROVE Append(s, m)[i] = s[i]
  OBVIOUS
<1>4. Append(s, m)[Len(s) + 1] = m
  OBVIOUS
<1>5. ASSUME NEW i \in DOMAIN Append(s, m), i # Len(s) + 1
      PROVE  i \in DOMAIN s /\ Append(s, m)[i] = s[i]
  <2>1. i \in 1 .. Len(s)
    BY <1>2, <1>5
  <2> QED
    BY <1>2, <1>3, <2>1
<1>6. ASSUME NEW i \in DOMAIN Append(s, m)
      PROVE  \/ i \in DOMAIN s /\ Append(s, m)[i] = s[i]
             \/ i = Len(s) + 1 /\ Append(s, m)[i] = m
  <2>1. CASE i = Len(s) + 1
    BY <1>4, <2>1, Zenon
  <2>2. CASE i # Len(s) + 1
    BY <1>5, <2>2, Zenon
  <2> QED
    BY <2>1, <2>2
<1> QED
  BY <1>1, <1>6, Zenon

\* The kinds of message a Worker sends, told by their type.
LEMMA UpKinds ==
  ASSUME NEW m \in UpMsgs
  PROVE  /\ m.type # "hello" => m.task \in Tasks
         /\ m.type = "ask" => m.ask \in 1 .. MaxAsks
         /\ m.type = "terminal" => m.status \in Terminal
         /\ m.type \in {"hello", "stream", "note", "beat", "ask", "terminal"}
  BY DEF UpMsgs, TaskMsgs, AskMsgs, TerminalMsgs

\* The kinds of message the hub sends.
LEMMA DownKinds ==
  ASSUME NEW m \in DownMsgs
  PROVE  /\ m.task \in Tasks
         /\ m.type = "decision" => m.ask \in 1 .. MaxAsks /\ m.decision \in Decisions
         /\ m.type \in {"start", "cancel", "decision"}
  BY DEF DownMsgs, CommandMsgs, DecisionMsgs

\* What a handler is handling has the task its step needs.
LEMMA BusyKinds ==
  ASSUME HubType, NEW c \in Conns, handler[c].at \in Busy
  PROVE  /\ handler[c].msg \in UpMsgs /\ handler[c].msg.type \in {"note", "ask", "terminal"}
         /\ handler[c].msg.task \in Tasks
         /\ handler[c].at = "ask" <=> handler[c].msg.type = "ask"
         /\ handler[c].at = "settle" => handler[c].msg.type = "terminal"
         /\ handler[c].at \in {"append", "appended"} => handler[c].msg.type = "note"
         /\ handler[c].msg.type = "ask" => handler[c].msg.ask \in 1 .. MaxAsks
         /\ handler[c].msg.type = "terminal" => handler[c].msg.status \in Terminal
<1>1. handler[c].msg \in UpMsgs /\ handler[c].at \in AtOf(handler[c].msg.type)
  BY DEF HubType
<1>2. handler[c].msg.type \in {"hello", "stream", "note", "beat", "ask", "terminal"}
  BY <1>1, UpKinds
<1> QED
  BY <1>1, <1>2, UpKinds DEF AtOf, Busy

-----------------------------------------------------------------------------
(* What the code does with the inboxes, the outboxes and the handlers.     *)

\* The receive loop takes a message.
LEMMA TakeTypes ==
  ASSUME HubType, NEW c \in Conns, inbox[c] # <<>>, Take(c)
  PROVE  /\ inbox' \in [Conns -> Seq(UpMsgs)]
         /\ Head(inbox[c]) = inbox[c][1] /\ Head(inbox[c]) \in UpMsgs /\ 1 \in DOMAIN inbox[c]
         /\ \A i \in DOMAIN inbox'[c] :
              /\ i + 1 \in DOMAIN inbox[c] /\ inbox'[c][i] = inbox[c][i + 1]
              /\ i \in Nat /\ i >= 1
         /\ \A d \in Conns : d # c => inbox'[d] = inbox[d]
<1>1. inbox[c] \in Seq(UpMsgs)
  BY DEF HubType
<1>2. inbox'[c] = Tail(inbox[c]) /\ \A d \in Conns : d # c => inbox'[d] = inbox[d]
  BY DEF HubType, Take
<1>3. /\ Head(inbox[c]) = inbox[c][1] /\ Head(inbox[c]) \in UpMsgs /\ 1 \in DOMAIN inbox[c]
      /\ Tail(inbox[c]) \in Seq(UpMsgs)
      /\ \A i \in DOMAIN Tail(inbox[c]) :
           /\ i + 1 \in DOMAIN inbox[c] /\ Tail(inbox[c])[i] = inbox[c][i + 1]
           /\ i \in Nat /\ i >= 1
  BY <1>1, TailOf
<1>4. inbox' \in [Conns -> Seq(UpMsgs)]
  BY <1>3 DEF HubType, Take
<1> QED
  BY <1>2, <1>3, <1>4

\* The Worker sends a message on its connection.
LEMMA SendUpTypes ==
  ASSUME HubType, NEW m \in UpMsgs, SendUp(m)
  PROVE  /\ inbox' \in [Conns -> Seq(UpMsgs)] /\ wconn \in Conns /\ wconn = opened
         /\ \A i \in DOMAIN inbox'[wconn] :
              \/ i \in DOMAIN inbox[wconn] /\ inbox'[wconn][i] = inbox[wconn][i]
              \/ i = Len(inbox[wconn]) + 1 /\ inbox'[wconn][i] = m
         /\ \A d \in Conns : d # wconn => inbox'[d] = inbox[d]
<1>1. wconn \in Conns /\ wconn = opened
  BY HubBounds DEF HubType, TypeOK, SendUp, Conns
<1>2. inbox[wconn] \in Seq(UpMsgs)
  BY <1>1 DEF HubType
<1>3. inbox'[wconn] = Append(inbox[wconn], m) /\ \A d \in Conns : d # wconn => inbox'[d] = inbox[d]
  BY <1>1 DEF HubType, SendUp
<1>4. /\ Append(inbox[wconn], m) \in Seq(UpMsgs)
      /\ \A i \in DOMAIN Append(inbox[wconn], m) :
           \/ i \in DOMAIN inbox[wconn] /\ Append(inbox[wconn], m)[i] = inbox[wconn][i]
           \/ i = Len(inbox[wconn]) + 1 /\ Append(inbox[wconn], m)[i] = m
  BY <1>2, AppendOf
<1>5. inbox' \in [Conns -> Seq(UpMsgs)]
  BY <1>1, <1>4 DEF HubType, SendUp
<1> QED
  BY <1>1, <1>3, <1>4, <1>5

\* The hub sends a message to the device's connection, or loses it in a full outbox.
LEMMA PushTypes ==
  ASSUME HubType, NEW m \in DownMsgs, conn # 0, Push(m)
  PROVE  /\ outbox' \in [Conns -> Seq(DownMsgs)] /\ full' \subseteq Conns /\ conn \in Conns
         /\ \A c \in Conns : Len(outbox'[c]) <= OutboxMax
         /\ \A c \in Conns : \A i \in DOMAIN outbox'[c] :
              \/ i \in DOMAIN outbox[c] /\ outbox'[c][i] = outbox[c][i]
              \/ c = conn /\ i = Len(outbox[conn]) + 1 /\ outbox'[c][i] = m
<1>1. conn \in Conns
  BY HubBounds DEF HubType, TypeOK, Conns
<1>2. outbox[conn] \in Seq(DownMsgs)
  BY <1>1 DEF HubType
<1>3. CASE Len(outbox[conn]) < OutboxMax
  <2>1. outbox' = [outbox EXCEPT ![conn] = Append(@, m)] /\ full' = full
    BY <1>3 DEF Push
  <2>2. outbox'[conn] = Append(outbox[conn], m) /\ \A d \in Conns : d # conn => outbox'[d] = outbox[d]
    BY <1>1, <2>1 DEF HubType
  <2>3. /\ Append(outbox[conn], m) \in Seq(DownMsgs) /\ Len(Append(outbox[conn], m)) = Len(outbox[conn]) + 1
        /\ \A i \in DOMAIN Append(outbox[conn], m) :
             \/ i \in DOMAIN outbox[conn] /\ Append(outbox[conn], m)[i] = outbox[conn][i]
             \/ i = Len(outbox[conn]) + 1 /\ Append(outbox[conn], m)[i] = m
    BY <1>2, AppendOf
  <2>4. outbox' \in [Conns -> Seq(DownMsgs)]
    BY <1>1, <2>1, <2>3 DEF HubType
  <2>5. \A c \in Conns : Len(outbox'[c]) <= OutboxMax
    <3>1. Len(outbox[conn]) + 1 <= OutboxMax
      BY <1>2, <1>3, HubLimits
    <3> QED
      BY <2>2, <2>3, <3>1 DEF HubType, TypeOK
  <2>6. \A c \in Conns : \A i \in DOMAIN outbox'[c] :
          \/ i \in DOMAIN outbox[c] /\ outbox'[c][i] = outbox[c][i]
          \/ c = conn /\ i = Len(outbox[conn]) + 1 /\ outbox'[c][i] = m
    BY <2>2, <2>3
  <2> QED
    BY <1>1, <2>1, <2>4, <2>5, <2>6 DEF HubType, TypeOK
<1>4. CASE ~(Len(outbox[conn]) < OutboxMax)
  <2>1. outbox' = outbox /\ full' = full \cup {conn}
    BY <1>4 DEF Push
  <2> QED
    BY <1>1, <2>1 DEF HubType, TypeOK
<1> QED
  BY <1>3, <1>4

\* A connection's outbox is emptied, or the Worker takes its first message.
LEMMA OutboxShrinks ==
  ASSUME HubType, NEW c \in 0 .. MaxConns,
         \/ outbox' = [outbox EXCEPT ![c] = <<>>]
         \/ c \in Conns /\ outbox[c] # <<>> /\ outbox' = [outbox EXCEPT ![c] = Tail(@)]
  PROVE  /\ outbox' \in [Conns -> Seq(DownMsgs)]
         /\ \A d \in Conns : Len(outbox'[d]) <= OutboxMax
         /\ \A d \in Conns : \A i \in DOMAIN outbox'[d] :
              \E j \in DOMAIN outbox[d] : outbox'[d][i] = outbox[d][j]
<1>1. CASE c \notin Conns
  BY <1>1 DEF HubType, TypeOK
<1>2. CASE c \in Conns /\ outbox' = [outbox EXCEPT ![c] = <<>>]
  <2>1. <<>> \in Seq(DownMsgs) /\ Len(<<>>) <= OutboxMax /\ DOMAIN <<>> = {}
    BY HubLimits
  <2>2. outbox'[c] = <<>> /\ \A d \in Conns : d # c => outbox'[d] = outbox[d]
    BY <1>2 DEF HubType
  <2> QED
    BY <1>2, <2>1, <2>2 DEF HubType, TypeOK
<1>3. CASE c \in Conns /\ outbox[c] # <<>> /\ outbox' = [outbox EXCEPT ![c] = Tail(@)]
  <2>1. outbox[c] \in Seq(DownMsgs)
    BY <1>3 DEF HubType
  <2>2. outbox'[c] = Tail(outbox[c]) /\ \A d \in Conns : d # c => outbox'[d] = outbox[d]
    BY <1>3 DEF HubType
  <2>3. /\ Tail(outbox[c]) \in Seq(DownMsgs) /\ Len(Tail(outbox[c])) <= Len(outbox[c])
        /\ \A i \in DOMAIN Tail(outbox[c]) :
             i + 1 \in DOMAIN outbox[c] /\ Tail(outbox[c])[i] = outbox[c][i + 1]
    BY <1>3, <2>1, TailOf
  <2>4. outbox' \in [Conns -> Seq(DownMsgs)]
    BY <1>3, <2>3 DEF HubType
  <2>5. Len(outbox'[c]) <= OutboxMax
    BY <1>3, <2>1, <2>2, <2>3, HubLimits DEF HubType, TypeOK
  <2>6. \A d \in Conns : Len(outbox'[d]) <= OutboxMax
    <3>1. \A d \in Conns : Len(outbox[d]) <= OutboxMax
      BY DEF HubType, TypeOK
    <3> QED
      BY <2>2, <2>5, <3>1
  <2>7. ASSUME NEW d \in Conns, NEW i \in DOMAIN outbox'[d]
        PROVE  \E j \in DOMAIN outbox[d] : outbox'[d][i] = outbox[d][j]
    <3>1. CASE d = c
      BY <2>2, <2>3, <2>7, <3>1
    <3>2. CASE d # c
      BY <2>2, <2>7, <3>2
    <3> QED
      BY <3>1, <3>2
  <2> QED
    BY <2>4, <2>6, <2>7
<1> QED
  BY <1>1, <1>2, <1>3

-----------------------------------------------------------------------------
(* The type invariant.                                                     *)

\* A Task record is written.
LEMMA WriteTypes ==
  ASSUME HubType, NEW t \in Tasks, NEW s \in Status, NEW n \in 0 .. MaxAsks, Write(t, s, n)
  PROVE  task' \in [Tasks -> Records]
  BY DEF HubType, TypeOK, Write, Records

\* create_task goes on.
LEMMA GotoTypes ==
  ASSUME HubType, NEW t \in Tasks, NEW p \in {"assigned", "send", "release", "refused", "done"}, Goto(t, p)
  PROVE  call' \in [Tasks -> {"idle", "assigned", "send", "release", "refused", "done"}]
<1>1. call \in [Tasks -> {"idle", "assigned", "send", "release", "refused", "done"}]
  BY DEF HubType, TypeOK
<1>2. call' = [call EXCEPT ![t] = p]
  BY DEF Goto
<1> QED
  BY <1>1, <1>2

\* Open questions are cancelled, the other Approvals keep their status.
LEMMA CancelPendingTypes ==
  ASSUME HubType, NEW t \in Tasks, CancelPending(t)
  PROVE  /\ approval' \in [1 .. MaxAsks -> Decisions \cup {"none", "pending", "cancelled"}]
         /\ \A n \in 1 .. MaxAsks :
              \/ approval'[n] = approval[n]
              \/ approval[n] = "pending" /\ approval'[n] = "cancelled"
  BY DEF HubType, TypeOK, CancelPending, Pending

\* The slots go with the connection, each to someone who ends its Task.
LEMMA PopSlotsTypes ==
  ASSUME HubType, NEW how \in {"flush", "replaced", "revoked"}, PopSlots(how)
  PROVE  /\ assigned' = {}
         /\ ending' \in [Tasks -> {"none", "flush", "write", "interrupted", "replaced", "revoked"}]
         /\ \A t \in Tasks : ending'[t] # ending[t] => t \in assigned /\ ending'[t] = how
  BY DEF HubType, TypeOK, PopSlots

\* A Task that has a slot has a connection its messages go to.
LEMMA SlotsReachSomeone ==
  ASSUME HubType, SlotsHaveConnection, assigned # {}
  PROVE  conn \in Conns /\ conn \in ready /\ conn = opened
  BY HubBounds DEF HubType, TypeOK, SlotsHaveConnection, Conns

\* A Task record as it is created.
LEMMA NewTypes == New \in Records /\ New.status = "queued"
  BY HubBounds DEF New, Records, Status

\* A handler goes back to its loop, or is closed.
LEMMA IdleTypes ==
  /\ Idle \in Handlers /\ [Idle EXCEPT !.at = "closed"] \in Handlers
  /\ Idle.at = "idle" /\ [Idle EXCEPT !.at = "closed"].at = "closed"
  /\ "idle" \notin Busy /\ "closed" \notin Busy
  BY NewTypes DEF Idle, Handlers, Busy

\* The hub gives up a connection, and its slots if it is the device's current one.
LEMMA LeaveTypes ==
  ASSUME HubType, NEW c \in Conns, LeaveHub(c)
  PROVE  /\ handler' \in [Conns -> Handlers] /\ handler'[c].at = "closed"
         /\ \A d \in Conns : d # c => handler'[d] = handler[d]
         /\ inbox' \in [Conns -> Seq(UpMsgs)] /\ inbox'[c] = <<>>
         /\ \A d \in Conns : d # c => inbox'[d] = inbox[d]
         /\ outbox' \in [Conns -> Seq(DownMsgs)]
         /\ \A d \in Conns : Len(outbox'[d]) <= OutboxMax
         /\ \A d \in Conns : outbox'[d] \in {outbox[d], <<>>}
         /\ full' \subseteq Conns
         /\ conn' \in {0, conn} /\ assigned' \in {assigned, {}}
         /\ assigned' # {} => conn' = conn
         /\ ending' \in [Tasks -> {"none", "flush", "write", "interrupted", "replaced", "revoked"}]
         /\ \A t \in Tasks : ending'[t] # ending[t] => t \in assigned /\ ending'[t] = "flush"
<1>1. /\ handler' \in [Conns -> Handlers] /\ handler'[c].at = "closed"
      /\ \A d \in Conns : d # c => handler'[d] = handler[d]
  BY IdleTypes DEF HubType, LeaveHub
<1>2. /\ inbox' \in [Conns -> Seq(UpMsgs)] /\ inbox'[c] = <<>>
      /\ \A d \in Conns : d # c => inbox'[d] = inbox[d]
  <2>1. <<>> \in Seq(UpMsgs)
    OBVIOUS
  <2> QED
    BY <2>1 DEF HubType, LeaveHub
<1>3. /\ outbox' \in [Conns -> Seq(DownMsgs)]
      /\ \A d \in Conns : Len(outbox'[d]) <= OutboxMax
  <2>1. c \in 0 .. MaxConns /\ outbox' = [outbox EXCEPT ![c] = <<>>]
    BY HubBounds DEF LeaveHub, Conns
  <2> QED
    BY <2>1, OutboxShrinks
<1>4. \A d \in Conns : outbox'[d] \in {outbox[d], <<>>}
  BY DEF HubType, LeaveHub
<1>5. full' \subseteq Conns
  BY DEF HubType, TypeOK, LeaveHub
<1>6. /\ conn' \in {0, conn} /\ assigned' \in {assigned, {}}
      /\ assigned' # {} => conn' = conn
      /\ ending' \in [Tasks -> {"none", "flush", "write", "interrupted", "replaced", "revoked"}]
      /\ \A t \in Tasks : ending'[t] # ending[t] => t \in assigned /\ ending'[t] = "flush"
  <2>1. CASE conn = c
    BY <2>1, PopSlotsTypes DEF LeaveHub
  <2>2. CASE conn # c
    BY <2>2 DEF LeaveHub, HubType, TypeOK
  <2> QED
    BY <2>1, <2>2
<1> QED
  BY <1>1, <1>2, <1>3, <1>4, <1>5, <1>6

\* A handler that raised closes its connection; the Worker does not come back.
LEMMA RejectTypes ==
  ASSUME HubType, NEW c \in Conns, Reject(c)
  PROVE  /\ wconn' \in {0, wconn} /\ rejected' \in BOOLEAN
         /\ run' \in [Tasks -> {"none", "working", "asking", "beating", "ended"}]
         /\ \A t \in Tasks : run[t] = "none" => run'[t] = "none"
         /\ token' \subseteq Tasks
  BY DEF HubType, TypeOK, Reject, WorkerLoses

\* The Worker loses its socket.
LEMMA LosesTypes ==
  ASSUME HubType, WorkerLoses
  PROVE  /\ wconn' = 0
         /\ run' \in [Tasks -> {"none", "working", "asking", "beating", "ended"}]
         /\ \A t \in Tasks : run[t] = "none" => run'[t] = "none"
         /\ token' \subseteq Tasks
         /\ outbox' \in [Conns -> Seq(DownMsgs)]
         /\ \A d \in Conns : Len(outbox'[d]) <= OutboxMax
         /\ \A d \in Conns : \A i \in DOMAIN outbox'[d] :
              \E j \in DOMAIN outbox[d] : outbox'[d][i] = outbox[d][j]
<1>1. wconn \in 0 .. MaxConns /\ outbox' = [outbox EXCEPT ![wconn] = <<>>]
  BY DEF HubType, TypeOK, WorkerLoses
<1> QED
  BY <1>1, OutboxShrinks DEF HubType, TypeOK, WorkerLoses

\* create_task, cancel and the ending of a Task keep to the types.
LEMMA ApiTypes ==
  ASSUME HubType, SlotsHaveConnection, NEW t \in Tasks, Api(t) \/ End(t)
  PROVE  HubType'
<1>1. CASE Assign(t)
  BY <1>1 DEF HubType, TypeOK, Assign, Goto, records, wire, worker, history
<1>2. CASE AssignRefused(t)
  BY <1>2 DEF HubType, TypeOK, AssignRefused, Goto, records, hub, wire, worker, history
<1>3. CASE MarkRunning(t)
  <2>1. task' \in [Tasks -> Records]
    <3>1. CASE task' = task
      BY <3>1 DEF HubType, TypeOK
    <3>2. CASE Write(t, "running", 0)
      BY <3>2, HubBounds, WriteTypes DEF Status
    <3> QED
      BY <1>3, <3>1, <3>2 DEF MarkRunning
  <2>2. call' \in [Tasks -> {"idle", "assigned", "send", "release", "refused", "done"}]
    <3>1. Goto(t, "send") \/ Goto(t, "release")
      BY <1>3 DEF MarkRunning
    <3> QED
      BY <3>1, GotoTypes
  <2>3. faults' = faults \/ Raise
    BY <1>3 DEF MarkRunning
  <2>4. faults' \in 0 .. MaxFaults
    BY <2>3, HubBounds DEF HubType, TypeOK, Raise
  <2> QED
    BY <1>3, <2>1, <2>2, <2>4 DEF HubType, TypeOK, MarkRunning, hub, wire, worker
<1>4. CASE SendStart(t)
  <2>1. [type |-> "start", task |-> t] \in DownMsgs
    BY DEF DownMsgs, CommandMsgs
  <2> QED
    <3>1. call' \in [Tasks -> {"idle", "assigned", "send", "release", "refused", "done"}]
      <4>1. Goto(t, "done") \/ Goto(t, "release")
        BY <1>4 DEF SendStart
      <4> QED
        BY <4>1, GotoTypes
    <3>2. CASE conn # 0
      <4>1. /\ outbox' \in [Conns -> Seq(DownMsgs)] /\ full' \subseteq Conns
            /\ \A c \in Conns : Len(outbox'[c]) <= OutboxMax
        BY <1>4, <2>1, <3>2, PushTypes DEF SendStart
      <4> QED
        BY <1>4, <3>1, <4>1 DEF HubType, TypeOK, SendStart, records, worker, history
    <3>3. CASE conn = 0
      BY <1>4, <3>1, <3>3 DEF HubType, TypeOK, SendStart, records, worker, history
    <3> QED
      BY <3>2, <3>3
<1>5. CASE Release(t)
  BY <1>5 DEF HubType, TypeOK, Release, Goto, records, wire, worker, history
<1>6. CASE RecordRefusal(t)
  BY <1>6, HubBounds, WriteTypes DEF HubType, TypeOK, RecordRefusal, Goto, Status, Terminal, hub, wire, worker, history
<1>7. CASE Cancel(t)
  <2>1. [type |-> "cancel", task |-> t] \in DownMsgs
    BY DEF DownMsgs, CommandMsgs
  <2> QED
    <3>1. /\ outbox' \in [Conns -> Seq(DownMsgs)] /\ full' \subseteq Conns
          /\ \A c \in Conns : Len(outbox'[c]) <= OutboxMax
      <4>1. conn # 0
        BY <1>7, HubBounds, SlotsReachSomeone DEF Cancel, Conns
      <4> QED
        BY <1>7, <2>1, <4>1, PushTypes DEF Cancel
    <3>2. /\ task' \in [Tasks -> Records]
          /\ approval' \in [1 .. MaxAsks -> Decisions \cup {"none", "pending", "cancelled"}]
      <4>1. CASE task' = task /\ approval' = approval
        BY <4>1 DEF HubType, TypeOK
      <4>2. CASE Write(t, "cancel_requested", 0) /\ CancelPending(t)
        <5>1. "cancel_requested" \in Status /\ 0 \in 0 .. MaxAsks
          BY HubBounds DEF Status
        <5> QED
          BY <4>2, <5>1, WriteTypes, CancelPendingTypes
      <4> QED
        BY <1>7, <4>1, <4>2 DEF Cancel, records
    <3> QED
      BY <1>7, <3>1, <3>2 DEF HubType, TypeOK, Cancel, worker
<1>8. CASE EndFlush(t)
  BY <1>8 DEF HubType, TypeOK, EndFlush, records, wire, worker, history
<1>9. CASE EndWrite(t)
  <2>1. task' \in [Tasks -> Records] /\ draft' \in [Tasks -> Records]
    BY <1>9, NewTypes DEF HubType, TypeOK, EndWrite
  <2> QED
    BY <1>9, <2>1 DEF HubType, TypeOK, EndWrite, wire, worker, history
<1>10. CASE FailTask(t)
  BY <1>10, HubBounds, WriteTypes, CancelPendingTypes DEF HubType, TypeOK, FailTask, Status, Terminal, records, wire, worker, history
<1> QED
  BY <1>1, <1>2, <1>3, <1>4, <1>5, <1>6, <1>7, <1>8, <1>9, <1>10 DEF Api, End

\* The decision of an approval keeps to the types.
LEMMA ResolveKeepsTypes ==
  ASSUME HubType, SlotsHaveConnection, NEW t \in Tasks, NEW n \in 1 .. MaxAsks, NEW d \in Decisions,
         Resolve(t, n, d) \/ ResolveFails(t, n, d)
  PROVE  HubType'
<1>1. ASSUME Write(t, "running", 0) PROVE task' \in [Tasks -> Records]
  BY <1>1, HubBounds, WriteTypes DEF Status
<1>2. CASE Resolve(t, n, d)
  <2>1. [type |-> "decision", task |-> t, ask |-> n, decision |-> d] \in DownMsgs
    BY DEF DownMsgs, DecisionMsgs
  <2>2. conn # 0
    BY <1>2, HubBounds, SlotsReachSomeone DEF Resolve, Decidable, Conns
  <2>3. /\ outbox' \in [Conns -> Seq(DownMsgs)] /\ full' \subseteq Conns
        /\ \A c \in Conns : Len(outbox'[c]) <= OutboxMax
    BY <1>2, <2>1, <2>2, PushTypes DEF Resolve
  <2>4. approval' \in [1 .. MaxAsks -> Decisions \cup {"none", "pending", "cancelled"}]
    BY <1>2 DEF HubType, TypeOK, Resolve
  <2> QED
    BY <1>1, <1>2, <2>3, <2>4 DEF HubType, TypeOK, Resolve, worker, history
<1>3. CASE ResolveFails(t, n, d)
  <2>1. task' \in [Tasks -> Records]
    BY <1>1, <1>3 DEF HubType, TypeOK, ResolveFails
  <2>2. faults' \in 0 .. MaxFaults
    BY <1>3, HubBounds DEF HubType, TypeOK, ResolveFails, Raise
  <2> QED
    BY <1>3, <2>1, <2>2 DEF HubType, TypeOK, ResolveFails, hub, wire, worker
<1> QED
  BY <1>2, <1>3

\* Opening, losing and revoking a connection keep to the types.
LEMMA ConnectionTypes ==
  ASSUME HubType, Revoke \/ Connect \/ Break
  PROVE  HubType'
<1>1. CASE Revoke
  BY <1>1, HubBounds, PopSlotsTypes DEF HubType, TypeOK, Revoke, records, wire, worker, history
<1>2. CASE Connect
  <2>1. opened + 1 \in Conns /\ opened' = opened + 1 /\ conn' = opened' /\ wconn' = opened'
    BY <1>2 DEF Connect
  <2>2. [type |-> "hello"] \in UpMsgs
    BY DEF UpMsgs
  <2>3. inbox' \in [Conns -> Seq(UpMsgs)]
    BY <1>2, <2>2 DEF HubType, Connect
  <2> QED
    <3>1. /\ assigned' = {}
          /\ ending' \in [Tasks -> {"none", "flush", "write", "interrupted", "replaced", "revoked"}]
      BY <1>2, PopSlotsTypes DEF Connect
    <3>2. UNCHANGED <<task, approval, ready, buffer, draft, handler, full, revoked, call, outbox,
                      rejected, run, token, asker, sent, acted, cancels, faults>>
      BY <1>2 DEF Connect, records, history
    <3>3. opened' \in 0 .. MaxConns
      BY <2>1, HubBounds DEF Conns
    <3> QED
      BY <2>1, <2>3, <3>1, <3>2, <3>3 DEF HubType, TypeOK
<1>3. CASE Break
  <2>1. /\ wconn' = 0 /\ token' \subseteq Tasks
        /\ run' \in [Tasks -> {"none", "working", "asking", "beating", "ended"}]
        /\ outbox' \in [Conns -> Seq(DownMsgs)] /\ \A d \in Conns : Len(outbox'[d]) <= OutboxMax
    BY <1>3, LosesTypes DEF Break
  <2>2. UNCHANGED <<task, approval, conn, ready, opened, assigned, buffer, ending, draft, handler, full, revoked,
                    call, inbox, rejected, asker, sent, acted, cancels, faults>>
    BY <1>3 DEF Break, records, hub, history
  <2>3. 0 \in 0 .. MaxConns
    BY HubBounds
  <2> QED
    BY <2>1, <2>2, <2>3 DEF HubType, TypeOK
<1> QED
  BY <1>1, <1>2, <1>3

\* What a handler takes up, it takes up where messages of that kind begin.
LEMMA HandleTypes ==
  ASSUME HubType, NEW c \in Conns, NEW m \in UpMsgs, NEW at \in Busy, at \in AtOf(m.type), m = Head(inbox[c]),
         Handle(c, at)
  PROVE  /\ handler' \in [Conns -> Handlers]
         /\ \A d \in Conns : handler'[d].at \in Busy =>
              handler'[d].msg \in UpMsgs /\ handler'[d].at \in AtOf(handler'[d].msg.type)
         /\ \A d \in Conns : handler'[d].copy \in Records
<1>1. [at |-> at, msg |-> m, copy |-> New] \in Handlers
  BY NewTypes DEF Handlers
<1>2. \A d \in Conns : handler'[d] = IF d = c THEN [at |-> at, msg |-> m, copy |-> New] ELSE handler[d]
  BY DEF HubType, Handle
<1>3. handler' \in [Conns -> Handlers]
  BY <1>1 DEF HubType, Handle
<1>4. handler'[c].at = at /\ handler'[c].msg = m /\ handler'[c].copy = New
  BY <1>2
<1>5. \A d \in Conns : d # c => handler'[d] = handler[d]
  BY <1>2
<1>6. \A d \in Conns : handler'[d].at \in Busy =>
        handler'[d].msg \in UpMsgs /\ handler'[d].at \in AtOf(handler'[d].msg.type)
  BY <1>4, <1>5 DEF HubType
<1>7. \A d \in Conns : handler'[d].copy \in Records
  BY <1>4, <1>5, NewTypes DEF HubType, TypeOK
<1> QED
  BY <1>3, <1>6, <1>7

\* The steps at which the receive loop takes up a message keep to the types.
LEMMA TakeKeepsTypes ==
  ASSUME HubType, NEW c \in Conns,
         Hello(c) \/ Stream(c) \/ Note(c) \/ Beat(c) \/ Ask(c) \/ TerminalMessage(c)
  PROVE  HubType'
<1> DEFINE m == Head(inbox[c])
<1>1. /\ Take(c) /\ inbox[c] # <<>>
      /\ m.type \in {"hello", "stream", "note", "beat", "ask", "terminal"}
      /\ UNCHANGED <<task, approval, conn, opened, assigned, ending, draft, full, revoked, call, outbox,
                     wconn, rejected, run, token, asker, sent, acted, cancels, faults>>
  BY DEF Hello, Stream, Note, Beat, Ask, TerminalMessage, Takes, records, hub, worker, history
<1>2. inbox' \in [Conns -> Seq(UpMsgs)] /\ m \in UpMsgs
  BY <1>1, TakeTypes
<1>3. m.type # "hello" => m.task \in Tasks
  BY <1>2, UpKinds
<1>4. SUFFICES /\ ready' \subseteq Conns /\ buffer' \subseteq Tasks
               /\ handler' \in [Conns -> Handlers]
               /\ \A d \in Conns : handler'[d].at \in Busy =>
                    handler'[d].msg \in UpMsgs /\ handler'[d].at \in AtOf(handler'[d].msg.type)
               /\ \A d \in Conns : handler'[d].copy \in Records
  BY <1>1, <1>2 DEF HubType, TypeOK
<1>5. CASE handler' = handler
  <2>1. ready' \subseteq Conns /\ buffer' \subseteq Tasks
    BY <1>3 DEF HubType, TypeOK, Hello, Stream, Note, Beat, Ask, TerminalMessage, Takes, TakeBuffer, hub
  <2> QED
    BY <1>5, <2>1 DEF HubType, TypeOK
<1>6. CASE handler' # handler
  <2>1. /\ Note(c) \/ Ask(c) \/ TerminalMessage(c)
        /\ ready' = ready
    BY <1>6 DEF Hello, Stream, Note, Beat, Ask, TerminalMessage, hub
  <2>2. buffer' \subseteq Tasks
    BY <2>1, <1>3 DEF HubType, TypeOK, Note, Ask, TerminalMessage, Takes, TakeBuffer
  <2>3. PICK at \in Busy : at \in AtOf(m.type) /\ Handle(c, at)
    BY <1>6, <2>1 DEF Note, Ask, TerminalMessage, TakeBuffer, AtOf, Busy, Takes
  <2> QED
    BY <1>2, <2>1, <2>2, <2>3, HandleTypes DEF HubType, TypeOK
<1> QED
  BY <1>5, <1>6

\* Giving up a connection keeps to the types.
LEMMA LeaveKeepsTypes ==
  ASSUME HubType, NEW c \in Conns, LeaveHub(c),
         approval' \in [1 .. MaxAsks -> Decisions \cup {"none", "pending", "cancelled"}],
         faults' \in 0 .. MaxFaults, wconn' \in {0, wconn}, rejected' \in BOOLEAN,
         run' \in [Tasks -> {"none", "working", "asking", "beating", "ended"}], token' \subseteq Tasks,
         UNCHANGED <<task, ready, opened, buffer, draft, revoked, call, asker, acted>>
  PROVE  HubType'
<1>1. /\ handler' \in [Conns -> Handlers] /\ inbox' \in [Conns -> Seq(UpMsgs)]
      /\ outbox' \in [Conns -> Seq(DownMsgs)] /\ \A d \in Conns : Len(outbox'[d]) <= OutboxMax
      /\ full' \subseteq Conns /\ conn' \in {0, conn} /\ assigned' \in {assigned, {}}
      /\ ending' \in [Tasks -> {"none", "flush", "write", "interrupted", "replaced", "revoked"}]
  BY LeaveTypes
<1>2. \A d \in Conns : handler'[d].at \in Busy =>
        handler'[d].msg \in UpMsgs /\ handler'[d].at \in AtOf(handler'[d].msg.type)
  <2>1. ASSUME NEW d \in Conns, d # c, handler'[d].at \in Busy
        PROVE  handler'[d].msg \in UpMsgs /\ handler'[d].at \in AtOf(handler'[d].msg.type)
    BY <2>1, LeaveTypes DEF HubType
  <2>2. handler'[c].at \notin Busy
    BY LeaveTypes, IdleTypes
  <2> QED
    BY <2>1, <2>2
<1>3. \A d \in Conns : handler'[d].copy \in Records
  BY <1>1 DEF Handlers
<1>4. {conn', opened', wconn'} \subseteq 0 .. MaxConns /\ conn' \in {0, opened'} /\ wconn' \in {0, opened'}
  <2>1. /\ conn \in 0 .. MaxConns /\ opened \in 0 .. MaxConns /\ wconn \in 0 .. MaxConns
        /\ conn \in {0, opened} /\ wconn \in {0, opened} /\ opened' = opened
    BY DEF HubType, TypeOK
  <2>2. 0 \in 0 .. MaxConns
    BY HubBounds
  <2> QED
    BY <1>1, <2>1, <2>2
<1> QED
  BY <1>1, <1>2, <1>3, <1>4 DEF HubType, TypeOK

\* A handler that goes on keeps to the types.
LEMMA StepTypes ==
  ASSUME HubType, NEW c \in Conns, handler[c].at \in Busy, NEW at \in Busy, NEW copy \in Records,
         at \in AtOf(handler[c].msg.type),
         handler' = [handler EXCEPT ![c].at = at, ![c].copy = copy]
  PROVE  /\ handler' \in [Conns -> Handlers]
         /\ \A d \in Conns : handler'[d].at \in Busy =>
              handler'[d].msg \in UpMsgs /\ handler'[d].at \in AtOf(handler'[d].msg.type)
         /\ \A d \in Conns : handler'[d].copy \in Records
<1>1. handler[c] \in Handlers /\ handler[c].msg \in UpMsgs
  BY DEF HubType
<1>2. /\ handler'[c].at = at /\ handler'[c].msg = handler[c].msg /\ handler'[c].copy = copy
      /\ handler'[c] \in Handlers
  BY <1>1 DEF HubType, Handlers
<1>3. \A d \in Conns : d # c => handler'[d] = handler[d]
  BY DEF HubType
<1>4. handler' \in [Conns -> Handlers]
  BY <1>2, <1>3 DEF HubType
<1>5. \A d \in Conns : handler'[d].at \in Busy =>
        handler'[d].msg \in UpMsgs /\ handler'[d].at \in AtOf(handler'[d].msg.type)
  BY <1>1, <1>2, <1>3 DEF HubType
<1> QED
  BY <1>2, <1>3, <1>4, <1>5 DEF HubType, TypeOK

\* A handler that is done goes back to its loop.
LEMMA DoneTypes ==
  ASSUME HubType, NEW c \in Conns, handler' = [handler EXCEPT ![c] = Idle]
  PROVE  /\ handler' \in [Conns -> Handlers]
         /\ \A d \in Conns : handler'[d].at \in Busy =>
              handler'[d].msg \in UpMsgs /\ handler'[d].at \in AtOf(handler'[d].msg.type)
         /\ \A d \in Conns : handler'[d].copy \in Records
<1>1. handler'[c] = Idle /\ \A d \in Conns : d # c => handler'[d] = handler[d]
  BY DEF HubType
<1>2. handler' \in [Conns -> Handlers]
  BY IdleTypes DEF HubType
<1> QED
  BY <1>1, <1>2, IdleTypes DEF HubType, Handlers

\* The steps at which the loop goes on with a message, or gives up, keep to the types.
LEMMA HandleKeepsTypes ==
  ASSUME HubType, NEW c \in Conns,
         \/ Disconnect(c) \/ NotAssigned(c) \/ RegisterFails(c) \/ SettleRefused(c)
         \/ FlushRead(c) \/ FlushWrite(c) \/ AppendRead(c) \/ AppendWrite(c)
         \/ Register(c) \/ Settle(c)
  PROVE  HubType'
<1>1. CASE Disconnect(c)
  BY <1>1, LeaveKeepsTypes DEF HubType, TypeOK, Disconnect, records, worker, history
<1>2. CASE Reject(c) /\ UNCHANGED <<records, history>>
  BY <1>2, LeaveKeepsTypes, RejectTypes DEF HubType, TypeOK, Reject, records, history
<1>3. CASE RegisterFails(c)
  <2>1. faults' \in 0 .. MaxFaults
    BY <1>3, HubBounds DEF HubType, TypeOK, RegisterFails, Raise
  <2>2. approval' \in [1 .. MaxAsks -> Decisions \cup {"none", "pending", "cancelled"}]
    BY <1>3 DEF HubType, TypeOK, RegisterFails
  <2> QED
    BY <1>3, <2>1, <2>2, LeaveKeepsTypes, RejectTypes DEF RegisterFails, Reject
<1>4. CASE FlushRead(c) \/ FlushWrite(c) \/ AppendRead(c) \/ AppendWrite(c) \/ Register(c) \/ Settle(c)
  <2>1. handler[c].at \in Busy
    BY <1>4 DEF FlushRead, FlushWrite, AppendRead, AppendWrite, Register, Settle, At, Busy
  <2> DEFINE t == handler[c].msg.task
  <2>2. t \in Tasks /\ task[t] \in Records /\ handler[c].copy \in Records
    BY <2>1, BusyKinds DEF HubType, TypeOK
  <2>3. /\ handler' \in [Conns -> Handlers]
        /\ \A d \in Conns : handler'[d].at \in Busy =>
             handler'[d].msg \in UpMsgs /\ handler'[d].at \in AtOf(handler'[d].msg.type)
        /\ \A d \in Conns : handler'[d].copy \in Records
    <3>1. CASE handler' = [handler EXCEPT ![c] = Idle]
      BY <3>1, DoneTypes
    <3>2. CASE ~ handler' = [handler EXCEPT ![c] = Idle]
      <4>1. PICK at \in Busy, copy \in Records : handler' = [handler EXCEPT ![c].at = at, ![c].copy = copy]
                                             /\ at \in AtOf(handler[c].msg.type)
        <5>1. CASE FlushRead(c)
          BY <5>1, <2>1, <2>2, BusyKinds DEF FlushRead, Busy, AtOf
        <5>2. CASE FlushWrite(c)
          BY <5>2, <2>1, NewTypes, BusyKinds DEF FlushWrite, Busy, AtOf
        <5>3. CASE AppendRead(c)
          BY <5>3, <2>1, <2>2, BusyKinds DEF AppendRead, Busy, AtOf
        <5> QED
          BY <1>4, <3>2, <5>1, <5>2, <5>3 DEF AppendWrite, Register, Settle
      <4> QED
        BY <2>1, <4>1, StepTypes
    <3> QED
      BY <3>1, <3>2
  <2>4. /\ task' \in [Tasks -> Records]
        /\ approval' \in [1 .. MaxAsks -> Decisions \cup {"none", "pending", "cancelled"}]
    <3>1. CASE FlushRead(c) \/ FlushWrite(c) \/ AppendRead(c) \/ AppendWrite(c)
      BY <2>2, <3>1 DEF HubType, TypeOK, FlushRead, FlushWrite, AppendRead, AppendWrite, records
    <3>2. CASE Register(c)
      <4>1. handler[c].msg.ask \in 1 .. MaxAsks
        BY <2>1, <3>2, BusyKinds DEF Register, At
      <4>2. ASSUME Write(t, "waiting", handler[c].msg.ask) PROVE task' \in [Tasks -> Records]
        <5>1. handler[c].msg.ask \in 0 .. MaxAsks /\ "waiting" \in Status
          BY <4>1, HubBounds DEF Status
        <5> QED
          BY <2>2, <4>2, <5>1, WriteTypes
      <4> QED
        BY <3>2, <4>1, <4>2 DEF HubType, TypeOK, Register, records
    <3>3. CASE Settle(c)
      <4>1. handler[c].msg.status \in Terminal /\ Terminal \subseteq Status /\ "cancelled" \in Terminal
        BY <2>1, <3>3, BusyKinds DEF Settle, At, Status, Terminal
      <4>2. PICK s \in Status : Write(t, s, 0)
        BY <3>3, <4>1 DEF Settle
      <4> QED
        BY <2>2, <3>3, <4>2, HubBounds, WriteTypes, CancelPendingTypes DEF Settle
    <3> QED
      BY <1>4, <3>1, <3>2, <3>3
  <2>5. assigned' \subseteq Tasks
    <3>1. assigned' \subseteq assigned
      BY <1>4 DEF FlushRead, FlushWrite, AppendRead, AppendWrite, Register, Settle
    <3> QED
      BY <3>1 DEF HubType, TypeOK
  <2>6. UNCHANGED <<conn, ready, opened, buffer, ending, draft, full, revoked, call, inbox, outbox,
                    wconn, rejected, run, token, asker, sent, acted, cancels, faults>>
    BY <1>4 DEF FlushRead, FlushWrite, AppendRead, AppendWrite, Register, Settle, wire, worker, history
  <2> QED
    BY <2>3, <2>4, <2>5, <2>6 DEF HubType, TypeOK
<1> QED
  BY <1>1, <1>2, <1>3, <1>4 DEF NotAssigned, SettleRefused

\* The Worker takes the first message of its connection.
LEMMA WorkerReceives ==
  ASSUME HubType, WorkerStart \/ WorkerCancel \/ WorkerDecision
  PROVE  /\ wconn \in Conns /\ wconn \in 0 .. MaxConns /\ outbox[wconn] # <<>>
         /\ outbox' = [outbox EXCEPT ![wconn] = Tail(@)]
         /\ Head(outbox[wconn]).type \in {"start", "cancel", "decision"}
<1>1. /\ wconn # 0 /\ outbox[wconn] # <<>> /\ outbox' = [outbox EXCEPT ![wconn] = Tail(@)]
      /\ Head(outbox[wconn]).type \in {"start", "cancel", "decision"}
  BY DEF WorkerStart, WorkerCancel, WorkerDecision, Received, Receive
<1>2. wconn \in Conns /\ wconn \in 0 .. MaxConns
  BY <1>1, HubBounds DEF HubType, TypeOK, Conns
<1> QED
  BY <1>1, <1>2

\* What the Worker does keeps to the types.
LEMMA WorkerTypes ==
  ASSUME HubType,
         \/ WorkerStart \/ WorkerCancel \/ WorkerDecision
         \/ \E t \in Tasks : WorkerRuns(t)
  PROVE  HubType'
<1>1. CASE WorkerStart \/ WorkerCancel \/ WorkerDecision
  <2> DEFINE m == Head(outbox[wconn])
  <2>1. /\ wconn \in Conns /\ outbox[wconn] # <<>> /\ outbox' = [outbox EXCEPT ![wconn] = Tail(@)]
        /\ m.type \in {"start", "cancel", "decision"}
    BY <1>1, WorkerReceives
  <2>2. m \in DownMsgs
    BY <2>1, TailOf DEF HubType
  <2>3. m.task \in Tasks /\ (m.type = "decision" => m.ask \in 1 .. MaxAsks /\ m.decision \in Decisions)
    BY <2>2, DownKinds
  <2>4. /\ outbox' \in [Conns -> Seq(DownMsgs)] /\ \A d \in Conns : Len(outbox'[d]) <= OutboxMax
    <3>1. wconn \in 0 .. MaxConns
      BY DEF HubType, TypeOK
    <3> QED
      BY <2>1, <3>1, OutboxShrinks
  <2>5. run' \in [Tasks -> {"none", "working", "asking", "beating", "ended"}] /\ token' \subseteq Tasks
    <3>1. run \in [Tasks -> {"none", "working", "asking", "beating", "ended"}] /\ token \subseteq Tasks
      BY DEF HubType, TypeOK
    <3>2. /\ run' = run \/ run' = [run EXCEPT ![m.task] = "working"]
          /\ token' = token \/ token' = token \cup {m.task}
      BY <1>1 DEF WorkerStart, WorkerCancel, WorkerDecision
    <3> QED
      BY <2>3, <3>1, <3>2
  <2>6. acted' \subseteq [ask : 1 .. MaxAsks, decision : Decisions]
    BY <1>1, <2>3 DEF HubType, TypeOK, WorkerStart, WorkerCancel, WorkerDecision, Received
  <2> QED
    BY <1>1, <2>4, <2>5, <2>6 DEF HubType, TypeOK, WorkerStart, WorkerCancel, WorkerDecision, records, hub, history
<1>2. ASSUME NEW t \in Tasks, WorkerRuns(t) PROVE HubType'
  <2>1. PICK m \in UpMsgs : SendUp(m)
    <3>1. ASSUME NEW type \in {"stream", "note", "beat"} PROVE [type |-> type, task |-> t] \in UpMsgs
      BY DEF UpMsgs, TaskMsgs
    <3>2. Len(asker) < MaxAsks => [type |-> "ask", task |-> t, ask |-> Len(asker) + 1] \in UpMsgs
      <4>1. Len(asker) < MaxAsks => Len(asker) + 1 \in 1 .. MaxAsks
        BY HubBounds DEF HubType
      <4> QED
        BY <4>1 DEF UpMsgs, AskMsgs
    <3>3. ASSUME NEW s \in Terminal PROVE Done(t, s) \in UpMsgs
      BY DEF UpMsgs, TerminalMsgs, Done
    <3> QED
      BY <1>2, <3>1, <3>2, <3>3 DEF WorkerRuns, WorkerProgress, WorkerBeat, WorkerAsk, WorkerEnd, Terminal
  <2>2. inbox' \in [Conns -> Seq(UpMsgs)]
    BY <2>1, SendUpTypes
  <2>3. run' \in [Tasks -> {"none", "working", "asking", "beating", "ended"}] /\ token' \subseteq Tasks
    <3>1. /\ \/ run' = run
             \/ run' = [run EXCEPT ![t] = IF @ = "beating" THEN "ended" ELSE @]
             \/ \E r \in {"asking", "ended", "beating"} : run' = [run EXCEPT ![t] = r]
          /\ token' \in {token, token \ {t}}
      BY <1>2 DEF WorkerRuns, WorkerProgress, WorkerBeat, WorkerAsk, WorkerEnd
    <3>2. run \in [Tasks -> {"none", "working", "asking", "beating", "ended"}] /\ token \subseteq Tasks
      BY DEF HubType, TypeOK
    <3> QED
      BY <3>1, <3>2
  <2>4. asker' \in Seq(Tasks) /\ Len(asker') <= MaxAsks
    <3>1. \/ asker' = asker
          \/ Len(asker) < MaxAsks /\ asker' = Append(asker, t)
      <4>1. CASE WorkerAsk(t)
        BY <4>1 DEF WorkerAsk
      <4>2. CASE ~WorkerAsk(t)
        BY <1>2, <4>2 DEF WorkerRuns, WorkerProgress, WorkerBeat, WorkerEnd
      <4> QED
        BY <4>1, <4>2
    <3>2. CASE asker' = asker
      BY <3>2 DEF HubType
    <3>3. CASE Len(asker) < MaxAsks /\ asker' = Append(asker, t)
      <4>1. asker' \in Seq(Tasks) /\ Len(asker') = Len(asker) + 1
        BY <3>3, AppendOf DEF HubType
      <4>2. Len(asker) \in Nat /\ MaxAsks \in Nat
        BY HubBounds DEF HubType
      <4> QED
        BY <3>3, <4>1, <4>2
    <3> QED
      BY <3>1, <3>2, <3>3
  <2>5. UNCHANGED <<task, approval, conn, ready, opened, assigned, buffer, ending, draft, handler, full,
                    revoked, call, outbox, wconn, rejected, acted, cancels, faults>>
    BY <1>2 DEF WorkerRuns, WorkerProgress, WorkerBeat, WorkerAsk, WorkerEnd, records, hub, history
  <2> QED
    BY <2>2, <2>3, <2>4, <2>5 DEF HubType, TypeOK
<1> QED
  BY <1>1, <1>2

\* The types hold at first.
LEMMA TypesHoldAtFirst == Init => HubType
<1> SUFFICES ASSUME Init PROVE HubType
  OBVIOUS
<1>1. inbox \in [Conns -> Seq(UpMsgs)] /\ outbox \in [Conns -> Seq(DownMsgs)]
  <2>1. <<>> \in Seq(UpMsgs) /\ <<>> \in Seq(DownMsgs)
    OBVIOUS
  <2> QED
    BY <2>1 DEF Init
<1>2. handler \in [Conns -> Handlers] /\ \A c \in Conns : handler[c] = Idle
  BY IdleTypes DEF Init
<1>3. asker \in Seq(Tasks) /\ Len(asker) <= MaxAsks
  BY HubBounds DEF Init
<1>4. TypeOK
  <2>1. \A c \in Conns : handler[c].copy \in Records /\ Len(outbox[c]) <= OutboxMax
    BY <1>2, HubLimits, NewTypes DEF Init, Handlers
  <2>2. task \in [Tasks -> Records] /\ draft \in [Tasks -> Records]
    BY NewTypes DEF Init
  <2>3. {conn, opened, wconn} \subseteq 0 .. MaxConns /\ faults \in 0 .. MaxFaults
    BY HubBounds DEF Init
  <2> QED
    BY <2>1, <2>2, <2>3 DEF Init, TypeOK
<1> QED
  BY <1>1, <1>2, <1>3, <1>4, IdleTypes DEF Init, HubType

\* Every step keeps to the types.
LEMMA TypesStay ==
  ASSUME HubType, SlotsHaveConnection, [Next]_vars
  PROVE  HubType'
<1>1. CASE UNCHANGED vars
  BY <1>1 DEF HubType, TypeOK, vars, records, hub, wire, worker, history
<1>2. CASE \E c \in Conns : Loop(c)
  BY <1>2, TakeKeepsTypes, HandleKeepsTypes DEF Loop
<1> QED
  BY <1>1, <1>2, ApiTypes, ResolveKeepsTypes, ConnectionTypes, WorkerTypes DEF Next

-----------------------------------------------------------------------------
(* A request for an approval is registered once.                           *)

\* Requests are lost, handled or dropped: what is left of them is still new.
LEMMA AsksAreLeftNew ==
  ASSUME HubType, HubType', AsksAreNew, asker' = asker,
         \A c \in Conns : inbox'[c] \in {inbox[c], <<>>},
         \A c \in Conns : Asking(c)' => Asking(c) /\ handler'[c].msg = handler[c].msg,
         \A n \in 1 .. MaxAsks : approval[n] = "none" =>
           \/ approval'[n] = "none"
           \/ \E c \in Conns : Asking(c) /\ handler[c].msg.ask = n /\ ~Asking(c)'
  PROVE  AsksAreNew'
<1>1. \A c \in Conns : \A i \in DOMAIN inbox'[c] : i \in DOMAIN inbox[c] /\ inbox'[c][i] = inbox[c][i]
  <2>1. DOMAIN <<>> = {}
    OBVIOUS
  <2> QED
    BY <2>1
<1>2. ASSUME NEW c \in Conns, NEW i \in DOMAIN inbox'[c], IsAsk(c, i)'
      PROVE  /\ IsAsk(c, i) /\ i \in DOMAIN inbox[c] /\ inbox'[c][i] = inbox[c][i]
             /\ inbox[c][i].ask \in 1 .. MaxAsks
  <2>1. inbox[c][i] \in UpMsgs
    BY <1>1 DEF HubType
  <2> QED
    BY <1>1, <1>2, <2>1, UpKinds DEF IsAsk
<1>3. ASSUME NEW c \in Conns, Asking(c)
      PROVE  handler[c].msg.ask \in 1 .. MaxAsks
  BY <1>3, BusyKinds DEF Asking, Busy
<1>4. \A n \in 1 .. MaxAsks : n > Len(asker') => approval'[n] = "none"
  <2> SUFFICES ASSUME NEW n \in 1 .. MaxAsks, n > Len(asker) PROVE approval'[n] = "none"
    OBVIOUS
  <2>1. approval[n] = "none" /\ \A c \in Conns : Asking(c) => handler[c].msg.ask <= Len(asker)
    BY DEF AsksAreNew, NewAsk
  <2>2. \A c \in Conns : Asking(c) => handler[c].msg.ask # n
    BY <1>3, <2>1 DEF HubType
  <2> QED
    BY <2>1, <2>2
<1>5. ASSUME NEW c \in Conns, NEW i \in DOMAIN inbox'[c], IsAsk(c, i)'
      PROVE  NewAsk(inbox[c][i].ask)'
  <2>1. IsAsk(c, i) /\ inbox[c][i].ask \in 1 .. MaxAsks /\ i \in DOMAIN inbox[c] /\ inbox'[c][i] = inbox[c][i]
    BY <1>2, <1>5
  <2>2. NewAsk(inbox[c][i].ask) /\ \A d \in Conns : Asking(d) => handler[d].msg.ask # inbox[c][i].ask
    BY <2>1 DEF AsksAreNew
  <2> QED
    BY <2>1, <2>2 DEF NewAsk
<1>6. ASSUME NEW c \in Conns, Asking(c)'
      PROVE  NewAsk(handler[c].msg.ask)' /\ Asking(c) /\ handler'[c].msg = handler[c].msg
  <2>1. Asking(c) /\ handler[c].msg.ask \in 1 .. MaxAsks /\ handler'[c].msg = handler[c].msg
    BY <1>3, <1>6
  <2>2. NewAsk(handler[c].msg.ask) /\ \A d \in Conns : Asking(d) /\ handler[d].msg.ask = handler[c].msg.ask => d = c
    BY <2>1 DEF AsksAreNew
  <2> QED
    BY <1>6, <2>1, <2>2 DEF NewAsk
<1>7. \A c, d \in Conns : \A i \in DOMAIN inbox'[c], j \in DOMAIN inbox'[d] :
        IsAsk(c, i)' /\ IsAsk(d, j)' /\ inbox'[c][i].ask = inbox'[d][j].ask => c = d /\ i = j
  BY <1>2 DEF AsksAreNew
<1>8. \A c, d \in Conns : \A j \in DOMAIN inbox'[d] :
        Asking(c)' /\ IsAsk(d, j)' => handler'[c].msg.ask # inbox'[d][j].ask
  BY <1>2, <1>6 DEF AsksAreNew
<1>9. \A c, d \in Conns :
        Asking(c)' /\ Asking(d)' /\ handler'[c].msg.ask = handler'[d].msg.ask => c = d
  BY <1>6 DEF AsksAreNew
<1> QED
  BY <1>2, <1>4, <1>5, <1>6, <1>7, <1>8, <1>9 DEF AsksAreNew

\* The receive loop takes a message up: a request goes from the inbox to the handler.
LEMMA TakenAsksAreNew ==
  ASSUME HubType, HubType', AsksAreNew, UNCHANGED <<asker, approval>>,
         NEW c \in Conns, inbox[c] # <<>>, Take(c), ~Asking(c),
         \A d \in Conns : d # c => handler'[d] = handler[d],
         Asking(c)' => handler'[c].msg = Head(inbox[c]) /\ Head(inbox[c]).type = "ask"
  PROVE  AsksAreNew'
<1>1. /\ Head(inbox[c]) = inbox[c][1] /\ 1 \in DOMAIN inbox[c]
      /\ \A i \in DOMAIN inbox'[c] :
           /\ i + 1 \in DOMAIN inbox[c] /\ inbox'[c][i] = inbox[c][i + 1]
           /\ i \in Nat /\ i >= 1
      /\ \A d \in Conns : d # c => inbox'[d] = inbox[d]
  BY TakeTypes
<1> DEFINE Was(d, i) == IF d = c THEN i + 1 ELSE i
<1>2. ASSUME NEW d \in Conns, NEW i \in DOMAIN inbox'[d], IsAsk(d, i)'
      PROVE  /\ IsAsk(d, Was(d, i)) /\ Was(d, i) \in DOMAIN inbox[d]
             /\ inbox'[d][i] = inbox[d][Was(d, i)] /\ (d = c => Was(d, i) # 1)
  BY <1>1, <1>2 DEF IsAsk
<1>3. ASSUME NEW d \in Conns, Asking(d)', d # c
      PROVE  Asking(d) /\ handler'[d].msg = handler[d].msg
  BY <1>3 DEF Asking
<1>4. Asking(c)' => IsAsk(c, 1) /\ handler'[c].msg = inbox[c][1] /\ 1 \in DOMAIN inbox[c]
  BY <1>1 DEF IsAsk
<1>5. ASSUME NEW d \in Conns, NEW i \in DOMAIN inbox'[d], IsAsk(d, i)'
      PROVE  NewAsk(inbox[d][i].ask)'
  <2>1. NewAsk(inbox[d][Was(d, i)].ask)
    BY <1>2, <1>5 DEF AsksAreNew
  <2> QED
    BY <1>2, <1>5, <2>1 DEF NewAsk
<1>6. ASSUME NEW d \in Conns, Asking(d)'
      PROVE  NewAsk(handler[d].msg.ask)'
  <2>1. CASE d = c
    BY <1>4, <1>6, <2>1 DEF AsksAreNew, NewAsk
  <2>2. CASE d # c
    BY <1>3, <1>6, <2>2 DEF AsksAreNew, NewAsk
  <2> QED
    BY <2>1, <2>2
<1>7. ASSUME NEW d \in Conns, NEW e \in Conns, NEW i \in DOMAIN inbox'[d], NEW j \in DOMAIN inbox'[e],
             IsAsk(d, i)', IsAsk(e, j)', inbox'[d][i].ask = inbox'[e][j].ask
      PROVE  d = e /\ i = j
  <2>1. d = e /\ Was(d, i) = Was(e, j)
    BY <1>2, <1>7 DEF AsksAreNew
  <2>2. i = j
    BY <1>1, <2>1
  <2> QED
    BY <2>1, <2>2
<1>8. ASSUME NEW d \in Conns, NEW e \in Conns, NEW j \in DOMAIN inbox'[e],
             Asking(d)', IsAsk(e, j)'
      PROVE  handler'[d].msg.ask # inbox'[e][j].ask
  <2>1. /\ IsAsk(e, Was(e, j)) /\ Was(e, j) \in DOMAIN inbox[e]
        /\ inbox'[e][j] = inbox[e][Was(e, j)] /\ (e = c => Was(e, j) # 1)
    BY <1>2, <1>8
  <2> HIDE DEF Was
  <2>2. CASE d = c
    BY <1>4, <1>8, <2>1, <2>2 DEF AsksAreNew
  <2>3. CASE d # c
    BY <1>3, <1>8, <2>1, <2>3 DEF AsksAreNew
  <2> QED
    BY <2>2, <2>3
<1>9. ASSUME NEW d \in Conns, NEW e \in Conns, Asking(d)', Asking(e)', handler'[d].msg.ask = handler'[e].msg.ask
      PROVE  d = e
  BY <1>3, <1>4, <1>9 DEF AsksAreNew
<1>10. \A n \in 1 .. MaxAsks : n > Len(asker') => approval'[n] = "none"
  BY DEF AsksAreNew
<1> QED
  BY <1>5, <1>6, <1>7, <1>8, <1>9, <1>10 DEF AsksAreNew

\* The Worker sends a message: a request is the next one of all.
LEMMA SentAsksAreNew ==
  ASSUME HubType, HubType', AsksAreNew, UNCHANGED <<approval, handler>>,
         NEW m \in UpMsgs, SendUp(m),
         \/ m.type # "ask" /\ asker' = asker
         \/ /\ m.type = "ask" /\ m.ask = Len(asker) + 1
            /\ Len(asker) < MaxAsks /\ Len(asker') = Len(asker) + 1
  PROVE  AsksAreNew'
<1>1. /\ wconn \in Conns
      /\ \A i \in DOMAIN inbox'[wconn] :
           \/ i \in DOMAIN inbox[wconn] /\ inbox'[wconn][i] = inbox[wconn][i]
           \/ i = Len(inbox[wconn]) + 1 /\ inbox'[wconn][i] = m
      /\ \A d \in Conns : d # wconn => inbox'[d] = inbox[d]
  BY SendUpTypes
<1>2. Len(asker) \in Nat /\ Len(asker) <= Len(asker')
  BY DEF HubType
<1>3. ASSUME NEW d \in Conns, NEW i \in DOMAIN inbox'[d], IsAsk(d, i)'
      PROVE  \/ i \in DOMAIN inbox[d] /\ inbox'[d][i] = inbox[d][i] /\ IsAsk(d, i)
                /\ inbox[d][i].ask \in 1 .. Len(asker) /\ approval[inbox[d][i].ask] = "none"
             \/ /\ d = wconn /\ i = Len(inbox[wconn]) + 1
                /\ inbox'[d][i].ask = Len(asker) + 1 /\ Len(asker') = Len(asker) + 1
                /\ Len(asker) + 1 \in 1 .. MaxAsks
  <2>1. CASE i \in DOMAIN inbox[d] /\ inbox'[d][i] = inbox[d][i]
    <3>1. IsAsk(d, i) /\ inbox[d][i] \in UpMsgs
      BY <1>3, <2>1 DEF IsAsk, HubType
    <3>2. inbox[d][i].ask \in 1 .. MaxAsks /\ NewAsk(inbox[d][i].ask)
      BY <2>1, <3>1, UpKinds DEF AsksAreNew, IsAsk
    <3> QED
      BY <1>2, <2>1, <3>1, <3>2 DEF NewAsk
  <2>2. CASE d = wconn /\ i = Len(inbox[wconn]) + 1 /\ inbox'[wconn][i] = m
    BY <1>2, <1>3, <2>2, HubBounds DEF IsAsk
  <2> QED
    BY <1>1, <2>1, <2>2
<1>4. ASSUME NEW d \in Conns, Asking(d)'
      PROVE  /\ Asking(d) /\ handler'[d].msg = handler[d].msg
             /\ handler[d].msg.ask \in 1 .. Len(asker) /\ approval[handler[d].msg.ask] = "none"
  <2>1. Asking(d) /\ handler[d].msg.ask \in 1 .. MaxAsks /\ NewAsk(handler[d].msg.ask)
    BY <1>4, BusyKinds DEF Asking, Busy, AsksAreNew
  <2> QED
    BY <1>2, <2>1 DEF NewAsk
<1>5. ASSUME NEW d \in Conns, NEW i \in DOMAIN inbox'[d], IsAsk(d, i)'
      PROVE  NewAsk(inbox[d][i].ask)'
  <2>1. approval[Len(asker) + 1] = "none" \/ Len(asker) + 1 \notin 1 .. MaxAsks
    BY <1>2 DEF AsksAreNew
  <2> QED
    BY <1>2, <1>3, <1>5, <2>1 DEF NewAsk
<1>6. ASSUME NEW d \in Conns, Asking(d)' PROVE NewAsk(handler[d].msg.ask)'
  BY <1>2, <1>4, <1>6 DEF NewAsk
<1>7. ASSUME NEW d \in Conns, NEW e \in Conns, NEW i \in DOMAIN inbox'[d], NEW j \in DOMAIN inbox'[e],
             IsAsk(d, i)', IsAsk(e, j)', inbox'[d][i].ask = inbox'[e][j].ask
      PROVE  d = e /\ i = j
  <2>1. CASE /\ i \in DOMAIN inbox[d] /\ inbox'[d][i] = inbox[d][i] /\ IsAsk(d, i)
             /\ j \in DOMAIN inbox[e] /\ inbox'[e][j] = inbox[e][j] /\ IsAsk(e, j)
    BY <1>7, <2>1 DEF AsksAreNew
  <2> QED
    BY <1>2, <1>3, <1>7, <2>1
<1>8. ASSUME NEW d \in Conns, NEW e \in Conns, NEW j \in DOMAIN inbox'[e],
             Asking(d)', IsAsk(e, j)'
      PROVE  handler'[d].msg.ask # inbox'[e][j].ask
  <2>1. CASE j \in DOMAIN inbox[e] /\ inbox'[e][j] = inbox[e][j] /\ IsAsk(e, j)
    BY <1>4, <1>8, <2>1 DEF AsksAreNew
  <2> QED
    BY <1>2, <1>3, <1>4, <1>8, <2>1
<1>9. ASSUME NEW d \in Conns, NEW e \in Conns, Asking(d)', Asking(e)', handler'[d].msg.ask = handler'[e].msg.ask
      PROVE  d = e
  BY <1>4, <1>9 DEF AsksAreNew
<1>10. \A n \in 1 .. MaxAsks : n > Len(asker') => approval'[n] = "none"
  BY <1>2 DEF AsksAreNew, HubType
<1> QED
  BY <1>5, <1>6, <1>7, <1>8, <1>9, <1>10 DEF AsksAreNew

\* Cancelling and deciding leave an Approval that does not exist alone.
LEMMA ApprovalsBegin ==
  ASSUME HubType, NEW n \in 1 .. MaxAsks, approval[n] = "none",
         \/ approval' = approval
         \/ \E t \in Tasks : CancelPending(t)
         \/ \E t \in Tasks, k \in 1 .. MaxAsks, d \in Decisions : Resolve(t, k, d)
  PROVE  approval'[n] = "none"
<1>1. CASE \E t \in Tasks : CancelPending(t)
  BY <1>1, CancelPendingTypes
<1>2. ASSUME NEW t \in Tasks, NEW k \in 1 .. MaxAsks, NEW d \in Decisions, Resolve(t, k, d)
      PROVE  approval'[n] = "none"
  BY <1>2 DEF HubType, TypeOK, Resolve, Decidable, Pending
<1> QED
  BY <1>1, <1>2

\* In every step a request stays new until it is registered.
LEMMA AsksStayNew ==
  ASSUME HubType, HubType', AsksAreNew, [Next]_vars
  PROVE  AsksAreNew'
<1>1. CASE /\ inbox' = inbox /\ handler' = handler /\ asker' = asker
           /\ \A n \in 1 .. MaxAsks : approval[n] = "none" => approval'[n] = "none"
  BY <1>1, AsksAreLeftNew DEF Asking
<1>2. ASSUME NEW t \in Tasks, Api(t) \/ End(t) PROVE AsksAreNew'
  <2>1. inbox' = inbox /\ handler' = handler /\ asker' = asker
    BY <1>2 DEF Api, End, Assign, AssignRefused, MarkRunning, SendStart, Release, RecordRefusal, Cancel,
                EndFlush, EndWrite, FailTask, hub, wire, worker
  <2>2. approval' = approval \/ CancelPending(t)
    BY <1>2 DEF Api, End, Assign, AssignRefused, MarkRunning, SendStart, Release, RecordRefusal, Cancel,
                EndFlush, EndWrite, FailTask, records
  <2> QED
    BY <1>1, <2>1, <2>2, ApprovalsBegin
<1>3. ASSUME NEW t \in Tasks, NEW n \in 1 .. MaxAsks, NEW d \in Decisions,
             Resolve(t, n, d) \/ ResolveFails(t, n, d)
      PROVE  AsksAreNew'
  <2>1. inbox' = inbox /\ handler' = handler /\ asker' = asker
    BY <1>3 DEF Resolve, ResolveFails, hub, wire, worker
  <2>2. \A k \in 1 .. MaxAsks : approval[k] = "none" => approval'[k] = "none"
    BY <1>3, ApprovalsBegin DEF ResolveFails
  <2> QED
    BY <1>1, <2>1, <2>2
<1>4. CASE Revoke \/ Break \/ WorkerStart \/ WorkerCancel \/ WorkerDecision \/ UNCHANGED vars
  <2>1. inbox' = inbox /\ handler' = handler /\ asker' = asker /\ approval' = approval
    BY <1>4 DEF Revoke, Break, WorkerStart, WorkerCancel, WorkerDecision, vars, records, hub, wire, worker
  <2> QED
    BY <1>1, <2>1
<1>5. CASE Connect
  <2> DEFINE k == opened + 1
  <2>1. /\ k \in Conns /\ inbox' = [inbox EXCEPT ![k] = <<[type |-> "hello"]>>]
        /\ handler' = handler /\ asker' = asker /\ approval' = approval
    BY <1>5 DEF Connect, records
  <2>2. /\ \A d \in Conns : d # k => inbox'[d] = inbox[d]
        /\ inbox'[k] = <<[type |-> "hello"]>>
    BY <2>1 DEF HubType
  <2>3. \A d \in Conns : \A i \in DOMAIN inbox'[d] : IsAsk(d, i)' =>
          d # k /\ IsAsk(d, i) /\ inbox'[d] = inbox[d]
    BY <2>2 DEF IsAsk
  <2>4. \A d \in Conns : Asking(d)' = Asking(d)
    BY <2>1 DEF Asking
  <2> HIDE DEF k
  <2>5. \A d \in Conns : \A i \in DOMAIN inbox'[d] : IsAsk(d, i)' => NewAsk(inbox[d][i].ask)'
    BY <2>1, <2>3 DEF AsksAreNew, NewAsk
  <2>6. \A d \in Conns : Asking(d)' => NewAsk(handler[d].msg.ask)'
    BY <2>1, <2>4 DEF AsksAreNew, NewAsk
  <2> QED
    BY <2>1, <2>3, <2>4, <2>5, <2>6 DEF AsksAreNew
<1>6. ASSUME NEW c \in Conns, Loop(c) PROVE AsksAreNew'
  <2>1. CASE Hello(c) \/ Stream(c) \/ Note(c) \/ Beat(c) \/ Ask(c) \/ TerminalMessage(c)
    <3>1. /\ Take(c) /\ inbox[c] # <<>> /\ ~Asking(c) /\ UNCHANGED <<asker, approval>>
      BY <2>1 DEF Hello, Stream, Note, Beat, Ask, TerminalMessage, Takes, Asking, records, worker
    <3>2. \A d \in Conns : d # c => handler'[d] = handler[d]
      BY <2>1 DEF Hello, Stream, Note, Beat, Ask, TerminalMessage, TakeBuffer, Handle, HubType, hub
    <3>3. Asking(c)' => handler'[c].msg = Head(inbox[c]) /\ Head(inbox[c]).type = "ask"
      <4>1. CASE Ask(c)
        BY <4>1 DEF Ask, Takes, Handle, HubType
      <4>2. CASE Note(c) \/ TerminalMessage(c)
        <5>1. \/ handler' = handler
              \/ \E at \in {"flush", "append", "settle"} : Handle(c, at)
          BY <4>2 DEF Note, TerminalMessage, TakeBuffer
        <5>2. ASSUME NEW at \in {"flush", "append", "settle"}, Handle(c, at) PROVE handler'[c].at = at
          BY <5>2 DEF Handle, HubType
        <5> QED
          BY <3>1, <5>1, <5>2 DEF Asking
      <4>3. CASE Hello(c) \/ Stream(c) \/ Beat(c)
        BY <3>1, <4>3 DEF Hello, Stream, Beat, Asking, hub
      <4> QED
        BY <2>1, <4>1, <4>2, <4>3
    <3> QED
      BY <3>1, <3>2, <3>3, TakenAsksAreNew
  <2>2. CASE Disconnect(c) \/ NotAssigned(c) \/ RegisterFails(c) \/ SettleRefused(c)
    <3>1. LeaveHub(c) /\ asker' = asker
      BY <2>2 DEF Disconnect, NotAssigned, RegisterFails, SettleRefused, Reject, worker
    <3>2. /\ \A d \in Conns : inbox'[d] \in {inbox[d], <<>>}
          /\ \A d \in Conns : d # c => handler'[d] = handler[d]
          /\ handler'[c].at = "closed"
      BY <3>1, LeaveTypes
    <3>3. \A d \in Conns : Asking(d)' => d # c /\ Asking(d) /\ handler'[d].msg = handler[d].msg
      BY <3>2 DEF Asking
    <3>4. \A n \in 1 .. MaxAsks : approval[n] = "none" =>
            \/ approval'[n] = "none"
            \/ Asking(c) /\ handler[c].msg.ask = n
      BY <2>2 DEF Disconnect, NotAssigned, RegisterFails, SettleRefused, At, Asking, HubType, TypeOK, records
    <3> QED
      BY <3>1, <3>2, <3>3, <3>4, AsksAreLeftNew
  <2>3. CASE FlushRead(c) \/ FlushWrite(c) \/ AppendRead(c) \/ AppendWrite(c) \/ Register(c) \/ Settle(c)
    <3>1. inbox' = inbox /\ asker' = asker
      BY <2>3 DEF FlushRead, FlushWrite, AppendRead, AppendWrite, Register, Settle, wire, worker
    <3>2. /\ \A d \in Conns : d # c => handler'[d] = handler[d]
          /\ handler'[c].at # "ask"
      <4>1. CASE FlushRead(c) \/ FlushWrite(c) \/ AppendRead(c)
        BY <4>1 DEF FlushRead, FlushWrite, AppendRead, HubType, Handlers
      <4>2. CASE AppendWrite(c) \/ Register(c) \/ Settle(c)
        BY <4>2, IdleTypes DEF AppendWrite, Register, Settle, HubType
      <4> QED
        BY <2>3, <4>1, <4>2
    <3>3. \A d \in Conns : Asking(d)' => d # c /\ Asking(d) /\ handler'[d].msg = handler[d].msg
      BY <3>2 DEF Asking
    <3>4. \A n \in 1 .. MaxAsks : approval[n] = "none" =>
            \/ approval'[n] = "none"
            \/ Asking(c) /\ handler[c].msg.ask = n
      <4>1. CASE Register(c)
        BY <4>1 DEF Register, At, Asking, HubType, TypeOK, records
      <4>2. CASE Settle(c)
        <5>1. handler[c].msg.task \in Tasks
          BY <4>2, BusyKinds DEF Settle, At, Busy
        <5> QED
          BY <4>2, <5>1, ApprovalsBegin DEF Settle
      <4>3. CASE approval' = approval
        BY <4>3
      <4> QED
        BY <2>3, <4>1, <4>2, <4>3 DEF FlushRead, FlushWrite, AppendRead, AppendWrite, records
    <3> QED
      BY <3>1, <3>3, <3>4, AsksAreLeftNew
  <2> QED
    BY <1>6, <2>1, <2>2, <2>3 DEF Loop
<1>7. ASSUME NEW t \in Tasks, WorkerRuns(t) PROVE AsksAreNew'
  <2>1. UNCHANGED <<approval, handler>>
    BY <1>7 DEF WorkerRuns, WorkerProgress, WorkerBeat, WorkerAsk, WorkerEnd, records, hub
  <2>2. CASE WorkerAsk(t)
    <3>1. Len(asker) + 1 \in 1 .. MaxAsks
      BY <2>2, HubBounds DEF WorkerAsk, HubType
    <3>2. [type |-> "ask", task |-> t, ask |-> Len(asker) + 1] \in UpMsgs
      BY <3>1 DEF UpMsgs, AskMsgs
    <3>3. Len(asker') = Len(asker) + 1
      BY <2>2 DEF WorkerAsk, HubType
    <3> QED
      BY <2>1, <2>2, <3>2, <3>3, SentAsksAreNew DEF WorkerAsk
  <2>3. ASSUME NEW m \in UpMsgs, m.type # "ask", SendUp(m), asker' = asker PROVE AsksAreNew'
    BY <2>1, <2>3, SentAsksAreNew
  <2>4. ASSUME NEW type \in {"stream", "note", "beat"}
        PROVE  [type |-> type, task |-> t] \in UpMsgs /\ [type |-> type, task |-> t].type # "ask"
    BY DEF UpMsgs, TaskMsgs
  <2>5. ASSUME NEW s \in Terminal PROVE Done(t, s) \in UpMsgs /\ Done(t, s).type # "ask"
    BY DEF UpMsgs, TerminalMsgs, Done
  <2>6. CASE WorkerBeat(t) \/ \E type \in {"stream", "note"} : WorkerProgress(t, type)
    BY <2>3, <2>4, <2>6 DEF WorkerBeat, WorkerProgress
  <2>7. CASE \E s \in {"completed", "failed", "cancelled"} : WorkerEnd(t, s)
    BY <2>3, <2>5, <2>7 DEF WorkerEnd, Terminal
  <2> QED
    BY <1>7, <2>2, <2>6, <2>7 DEF WorkerRuns
<1> QED
  BY <1>2, <1>3, <1>4, <1>5, <1>6, <1>7 DEF Next

-----------------------------------------------------------------------------
(* Decisions are recorded.                                                 *)

\* A decision that was made is never changed: cancelling touches the pending
\* Approvals only, deciding too, and a request registers one that does not exist.
LEMMA DecisionsStay ==
  ASSUME HubType, AsksAreNew, [Next]_vars, NEW n \in 1 .. MaxAsks, approval[n] \in Decisions
  PROVE  approval'[n] = approval[n]
<1>1. approval[n] \notin {"none", "pending", "cancelled"}
  BY HubDecisions
<1>2. ASSUME NEW t \in Tasks, CancelPending(t) PROVE approval'[n] = approval[n]
  BY <1>1, <1>2, CancelPendingTypes
<1>3. ASSUME NEW t \in Tasks, Api(t) \/ End(t) PROVE approval'[n] = approval[n]
  BY <1>2, <1>3 DEF Api, End, Assign, AssignRefused, MarkRunning, SendStart, Release, RecordRefusal, Cancel,
                    EndFlush, EndWrite, FailTask, records
<1>4. ASSUME NEW t \in Tasks, NEW k \in 1 .. MaxAsks, NEW d \in Decisions,
             Resolve(t, k, d) \/ ResolveFails(t, k, d)
      PROVE  approval'[n] = approval[n]
  BY <1>1, <1>4 DEF Resolve, ResolveFails, Decidable, Pending, HubType, TypeOK
<1>5. ASSUME NEW c \in Conns, Loop(c) PROVE approval'[n] = approval[n]
  <2>1. CASE Register(c) \/ RegisterFails(c)
    <3>1. Asking(c)
      BY <2>1 DEF Register, RegisterFails, At, Asking
    <3>2. approval[handler[c].msg.ask] = "none"
      BY <3>1 DEF AsksAreNew, NewAsk
    <3>3. handler[c].msg.ask # n
      BY <1>1, <3>2
    <3> QED
      BY <2>1, <3>3 DEF Register, RegisterFails, HubType, TypeOK, records
  <2>2. CASE Settle(c)
    <3>1. handler[c].msg.task \in Tasks
      BY <2>2, BusyKinds DEF Settle, At, Busy
    <3> QED
      BY <1>2, <2>2, <3>1 DEF Settle
  <2>3. CASE ~(Register(c) \/ RegisterFails(c) \/ Settle(c))
    BY <1>5, <2>3 DEF Loop, Disconnect, Hello, Stream, Note, Beat, Ask, TerminalMessage, NotAssigned,
                      FlushRead, FlushWrite, AppendRead, AppendWrite, SettleRefused, records
  <2> QED
    BY <2>1, <2>2, <2>3
<1>6. CASE Revoke \/ Connect \/ Break \/ WorkerStart \/ WorkerCancel \/ WorkerDecision \/ UNCHANGED vars
  BY <1>6 DEF Revoke, Connect, Break, WorkerStart, WorkerCancel, WorkerDecision, vars, records
<1>7. ASSUME NEW t \in Tasks, WorkerRuns(t) PROVE approval'[n] = approval[n]
  BY <1>7 DEF WorkerRuns, WorkerProgress, WorkerBeat, WorkerAsk, WorkerEnd, records
<1> QED
  BY <1>3, <1>4, <1>5, <1>6, <1>7 DEF Next

\* A message that a step puts in an outbox is a start, a cancellation, or the
\* decision that the step records.
LEMMA OutboxGrows ==
  ASSUME HubType, SlotsHaveConnection, [Next]_vars,
         NEW c \in Conns, NEW i \in DOMAIN outbox'[c]
  PROVE  \/ \E j \in DOMAIN outbox[c] : outbox'[c][i] = outbox[c][j]
         \/ \E t \in Tasks : \/ SendStart(t) /\ outbox'[c][i] = [type |-> "start", task |-> t]
                             \/ Cancel(t) /\ outbox'[c][i] = [type |-> "cancel", task |-> t]
         \/ \E t \in Tasks, n \in 1 .. MaxAsks, d \in Decisions :
              /\ Resolve(t, n, d)
              /\ outbox'[c][i] = [type |-> "decision", task |-> t, ask |-> n, decision |-> d]
<1> DEFINE Old == \E j \in DOMAIN outbox[c] : outbox'[c][i] = outbox[c][j]
<1>1. ASSUME outbox' = outbox PROVE Old
  BY <1>1
<1>2. ASSUME outbox'[c] = <<>> PROVE FALSE
  <2>1. DOMAIN <<>> = {}
    OBVIOUS
  <2> QED
    BY <1>2, <2>1
<1>3. ASSUME NEW m \in DownMsgs, conn # 0, Push(m), ~Old PROVE outbox'[c][i] = m
  BY <1>3, PushTypes
<1>4. ASSUME WorkerLoses PROVE Old
  BY <1>4, LosesTypes
<1>5. ASSUME NEW t \in Tasks, Api(t) \/ End(t), ~Old
      PROVE  \/ SendStart(t) /\ outbox'[c][i] = [type |-> "start", task |-> t]
             \/ Cancel(t) /\ outbox'[c][i] = [type |-> "cancel", task |-> t]
  <2>1. /\ [type |-> "start", task |-> t] \in DownMsgs
        /\ [type |-> "cancel", task |-> t] \in DownMsgs
    BY DEF DownMsgs, CommandMsgs
  <2>2. CASE SendStart(t)
    <3>1. CASE conn # 0
      BY <1>3, <1>5, <2>1, <2>2, <3>1 DEF SendStart
    <3>2. CASE conn = 0
      BY <1>1, <1>5, <2>2, <3>2 DEF SendStart
    <3> QED
      BY <3>1, <3>2
  <2>3. CASE Cancel(t)
    <3>1. conn # 0
      BY <2>3, HubBounds, SlotsReachSomeone DEF Cancel, Conns
    <3> QED
      BY <1>3, <1>5, <2>1, <2>3, <3>1 DEF Cancel
  <2>4. CASE ~(SendStart(t) \/ Cancel(t))
    <3>1. outbox' = outbox
      BY <1>5, <2>4 DEF Api, End, Assign, AssignRefused, MarkRunning, Release, RecordRefusal, EndFlush, EndWrite,
                        FailTask, wire
    <3> QED
      BY <1>1, <1>5, <3>1
  <2> QED
    BY <2>2, <2>3, <2>4
<1>6. ASSUME NEW t \in Tasks, NEW n \in 1 .. MaxAsks, NEW d \in Decisions,
             Resolve(t, n, d) \/ ResolveFails(t, n, d), ~Old
      PROVE  /\ Resolve(t, n, d)
             /\ outbox'[c][i] = [type |-> "decision", task |-> t, ask |-> n, decision |-> d]
  <2>1. ~ResolveFails(t, n, d)
    BY <1>1, <1>6 DEF ResolveFails, wire
  <2>2. [type |-> "decision", task |-> t, ask |-> n, decision |-> d] \in DownMsgs
    BY DEF DownMsgs, DecisionMsgs
  <2>3. conn # 0
    BY <1>6, <2>1, HubBounds, SlotsReachSomeone DEF Resolve, Decidable, Conns
  <2> QED
    BY <1>3, <1>6, <2>1, <2>2, <2>3 DEF Resolve
<1>7. ASSUME NEW d \in Conns, Loop(d) PROVE Old
  <2>1. CASE LeaveHub(d)
    BY <1>1, <1>2, <2>1, LeaveTypes
  <2>2. CASE ~LeaveHub(d)
    <3>1. outbox' = outbox
      BY <1>7, <2>2 DEF Loop, Disconnect, Hello, Stream, Note, Beat, Ask, TerminalMessage, NotAssigned, Reject,
                        FlushRead, FlushWrite, AppendRead, AppendWrite, Register, RegisterFails, Settle,
                        SettleRefused, wire
    <3> QED
      BY <1>1, <3>1
  <2> QED
    BY <2>1, <2>2
<1>8. CASE Revoke \/ Connect \/ Break \/ UNCHANGED vars
  BY <1>1, <1>4, <1>8 DEF Revoke, Connect, Break, vars, wire
<1>9. CASE WorkerStart \/ WorkerCancel \/ WorkerDecision
  <2>1. /\ wconn \in Conns /\ wconn \in 0 .. MaxConns /\ outbox[wconn] # <<>>
        /\ outbox' = [outbox EXCEPT ![wconn] = Tail(@)]
    BY <1>9, WorkerReceives
  <2> QED
    BY <2>1, OutboxShrinks
<1>10. ASSUME NEW t \in Tasks, WorkerRuns(t) PROVE Old
  <2>1. outbox' = outbox
    BY <1>10 DEF WorkerRuns, WorkerProgress, WorkerBeat, WorkerAsk, WorkerEnd
  <2> QED
    BY <1>1, <2>1
<1> QED
  BY <1>5, <1>6, <1>7, <1>8, <1>9, <1>10 DEF Next

\* What is on its way to the Worker, and what its runs act on, stays recorded.
LEMMA DecisionsStayRecorded ==
  ASSUME HubType, SlotsHaveConnection, AsksAreNew, DecisionsAreRecorded, [Next]_vars
  PROVE  DecisionsAreRecorded'
<1>1. ASSUME NEW n \in 1 .. MaxAsks, approval[n] \in Decisions PROVE approval'[n] = approval[n]
  BY <1>1, DecisionsStay
<1>2. ASSUME NEW c \in Conns, NEW j \in DOMAIN outbox[c], outbox[c][j].type = "decision"
      PROVE  /\ outbox[c][j].ask \in 1 .. MaxAsks /\ outbox[c][j].decision \in Decisions
             /\ approval[outbox[c][j].ask] = outbox[c][j].decision
  <2>1. outbox[c][j] \in DownMsgs
    BY DEF HubType
  <2> QED
    BY <1>2, <2>1, DownKinds DEF DecisionsAreRecorded, Messages
<1>3. ASSUME NEW c \in Conns, NEW i \in DOMAIN outbox'[c], outbox'[c][i].type = "decision"
      PROVE  approval'[outbox'[c][i].ask] = outbox'[c][i].decision
  <2>1. CASE \E j \in DOMAIN outbox[c] : outbox'[c][i] = outbox[c][j]
    BY <1>1, <1>2, <1>3, <2>1
  <2>2. ASSUME NEW t \in Tasks, NEW n \in 1 .. MaxAsks, NEW d \in Decisions, Resolve(t, n, d),
               outbox'[c][i] = [type |-> "decision", task |-> t, ask |-> n, decision |-> d]
        PROVE  approval'[outbox'[c][i].ask] = outbox'[c][i].decision
    BY <2>2 DEF Resolve, HubType, TypeOK
  <2> QED
    <3>1. \/ \E j \in DOMAIN outbox[c] : outbox'[c][i] = outbox[c][j]
          \/ \E t \in Tasks : \/ outbox'[c][i] = [type |-> "start", task |-> t]
                              \/ outbox'[c][i] = [type |-> "cancel", task |-> t]
          \/ \E t \in Tasks, n \in 1 .. MaxAsks, d \in Decisions :
               /\ Resolve(t, n, d)
               /\ outbox'[c][i] = [type |-> "decision", task |-> t, ask |-> n, decision |-> d]
      BY OutboxGrows
    <3>2. \A t \in Tasks : /\ [type |-> "start", task |-> t].type # "decision"
                           /\ [type |-> "cancel", task |-> t].type # "decision"
      OBVIOUS
    <3> QED
      BY <1>3, <2>1, <2>2, <3>1, <3>2
<1>4. ASSUME NEW m \in acted' PROVE approval'[m.ask] = m.decision
  <2>1. CASE m \in acted
    BY <1>1, <2>1 DEF DecisionsAreRecorded, HubType
  <2>2. CASE m \notin acted
    <3>1. WorkerDecision
      <4>1. ASSUME NEW t \in Tasks, Api(t) \/ End(t) \/ WorkerRuns(t) PROVE acted' = acted
        BY <4>1 DEF worker, Api, Assign, AssignRefused, MarkRunning, SendStart, Release, RecordRefusal, Cancel,
                    End, EndFlush, EndWrite, FailTask, WorkerRuns, WorkerProgress, WorkerBeat, WorkerAsk, WorkerEnd
      <4>2. ASSUME NEW t \in Tasks, NEW n \in 1 .. MaxAsks, NEW d \in Decisions,
                   Resolve(t, n, d) \/ ResolveFails(t, n, d)
            PROVE  acted' = acted
        BY <4>2 DEF worker, Resolve, ResolveFails
      <4>3. ASSUME NEW c \in Conns, Loop(c) PROVE acted' = acted
        BY <4>3 DEF worker, Loop, Disconnect, Hello, Stream, Note, Beat, Ask, TerminalMessage, NotAssigned, Reject,
                    FlushRead, FlushWrite, AppendRead, AppendWrite, Register, RegisterFails, Settle, SettleRefused
      <4>4. Revoke \/ Connect \/ Break \/ WorkerStart \/ WorkerCancel \/ UNCHANGED vars => acted' = acted
        BY DEF vars, worker, Revoke, Connect, Break, WorkerStart, WorkerCancel
      <4>5. acted' # acted
        BY <1>4, <2>2
      <4> QED
        BY <4>1, <4>2, <4>3, <4>4, <4>5 DEF Next
    <3> DEFINE h == Head(outbox[wconn])
    <3>2. /\ h.type = "decision" /\ m = [ask |-> h.ask, decision |-> h.decision]
          /\ wconn \in Conns /\ outbox[wconn] # <<>>
      BY <2>2, <3>1, HubBounds DEF WorkerDecision, Received, HubType, TypeOK, Conns
    <3>3. h = outbox[wconn][1] /\ 1 \in DOMAIN outbox[wconn]
      BY <3>2, TailOf DEF HubType
    <3>4. /\ h.ask \in 1 .. MaxAsks /\ h.decision \in Decisions
          /\ approval[h.ask] = h.decision
      BY <1>2, <3>2, <3>3
    <3>5. approval'[h.ask] = approval[h.ask]
      BY <1>1, <3>4
    <3>6. m.ask = h.ask /\ m.decision = h.decision
      BY <3>2
    <3> QED
      BY <3>4, <3>5, <3>6
  <2> QED
    BY <2>1, <2>2
<1> QED
  BY <1>3, <1>4 DEF DecisionsAreRecorded, Messages

-----------------------------------------------------------------------------
(* Who changes what.                                                       *)

\* The steps that write the record of t.
TaskWriters(t) ==
    \/ MarkRunning(t) \/ RecordRefusal(t) \/ Cancel(t) \/ EndWrite(t) \/ FailTask(t)
    \/ \E n \in 1 .. MaxAsks, d \in Decisions : Resolve(t, n, d) \/ ResolveFails(t, n, d)
    \/ \E c \in Conns : /\ handler[c].at \in Busy /\ handler[c].msg.task = t
                        /\ FlushWrite(c) \/ AppendWrite(c) \/ Register(c) \/ Settle(c)

\* No other step writes it.
LEMMA WritersOfTask ==
  ASSUME HubType, [Next]_vars, NEW t \in Tasks, task'[t] # task[t]
  PROVE  TaskWriters(t)
<1>1. ASSUME NEW u \in Tasks, Api(u) \/ End(u) PROVE TaskWriters(t)
  <2>1. u = t
    BY <1>1 DEF Api, End, Assign, AssignRefused, MarkRunning, SendStart, Release, RecordRefusal, Cancel,
                EndFlush, EndWrite, FailTask, Write, HubType, TypeOK, records
  <2>2. MarkRunning(t) \/ RecordRefusal(t) \/ Cancel(t) \/ EndWrite(t) \/ FailTask(t)
    BY <1>1, <2>1 DEF Api, End, Assign, AssignRefused, SendStart, Release, EndFlush, records
  <2> QED
    BY <2>2 DEF TaskWriters
<1>2. ASSUME NEW u \in Tasks, NEW n \in 1 .. MaxAsks, NEW d \in Decisions,
             Resolve(u, n, d) \/ ResolveFails(u, n, d)
      PROVE  TaskWriters(t)
  <2>1. u = t
    BY <1>2 DEF Resolve, ResolveFails, Write, HubType, TypeOK
  <2> QED
    BY <1>2, <2>1 DEF TaskWriters
<1>3. ASSUME NEW c \in Conns, Loop(c) PROVE TaskWriters(t)
  <2>1. FlushWrite(c) \/ AppendWrite(c) \/ Register(c) \/ Settle(c)
    BY <1>3 DEF Loop, Disconnect, Hello, Stream, Note, Beat, Ask, TerminalMessage, NotAssigned, FlushRead,
                AppendRead, RegisterFails, SettleRefused, records
  <2>2. handler[c].at \in Busy
    BY <2>1 DEF FlushWrite, AppendWrite, Register, Settle, At, Busy
  <2>3. handler[c].msg.task = t
    BY <2>1 DEF FlushWrite, AppendWrite, Register, Settle, Write, HubType, TypeOK, records
  <2> QED
    BY <2>1, <2>2, <2>3 DEF TaskWriters
<1>4. ~(Revoke \/ Connect \/ Break \/ WorkerStart \/ WorkerCancel \/ WorkerDecision \/ UNCHANGED vars)
  BY DEF Revoke, Connect, Break, WorkerStart, WorkerCancel, WorkerDecision, vars, records
<1>5. ASSUME NEW u \in Tasks PROVE ~WorkerRuns(u)
  BY DEF WorkerRuns, WorkerProgress, WorkerBeat, WorkerAsk, WorkerEnd, records
<1> QED
  BY <1>1, <1>2, <1>3, <1>4, <1>5 DEF Next

\* A slot is taken by the dispatch of its Task.
LEMMA TakersOfSlots ==
  ASSUME HubType, [Next]_vars, NEW t \in assigned', t \notin assigned
  PROVE  Assign(t)
<1>1. ASSUME NEW u \in Tasks, Api(u) \/ End(u) PROVE Assign(t)
  BY <1>1 DEF Api, End, Assign, AssignRefused, MarkRunning, SendStart, Release, RecordRefusal, Cancel,
              EndFlush, EndWrite, FailTask, hub
<1>2. ASSUME NEW c \in Conns, Loop(c) PROVE FALSE
  <2>1. CASE LeaveHub(c)
    BY <2>1, LeaveTypes
  <2>2. CASE ~LeaveHub(c)
    BY <1>2, <2>2 DEF Loop, Disconnect, Hello, Stream, Note, Beat, Ask, TerminalMessage, NotAssigned, Reject,
                      FlushRead, FlushWrite, AppendRead, AppendWrite, Register, RegisterFails, Settle,
                      SettleRefused, hub
  <2> QED
    BY <2>1, <2>2
<1>3. ~(Revoke \/ Connect \/ Break \/ WorkerStart \/ WorkerCancel \/ WorkerDecision \/ UNCHANGED vars)
  BY DEF Revoke, Connect, Break, PopSlots, WorkerStart, WorkerCancel, WorkerDecision, vars, hub
<1>4. ASSUME NEW u \in Tasks PROVE ~WorkerRuns(u)
  BY DEF WorkerRuns, WorkerProgress, WorkerBeat, WorkerAsk, WorkerEnd, hub
<1>5. ASSUME NEW u \in Tasks, NEW n \in 1 .. MaxAsks, NEW d \in Decisions
      PROVE ~(Resolve(u, n, d) \/ ResolveFails(u, n, d))
  BY DEF Resolve, ResolveFails, hub
<1> QED
  BY <1>1, <1>2, <1>3, <1>4, <1>5 DEF Next

\* A Task begins to be ended when its slot is taken from it.
LEMMA WritersOfEnding ==
  ASSUME HubType, [Next]_vars, NEW t \in Tasks, ending'[t] # ending[t]
  PROVE  \/ EndFlush(t) \/ EndWrite(t) \/ FailTask(t)
         \/ t \in assigned /\ assigned' = {} /\ ending'[t] \in {"flush", "replaced", "revoked"}
<1>1. ASSUME NEW u \in Tasks, Api(u) \/ End(u) PROVE EndFlush(t) \/ EndWrite(t) \/ FailTask(t)
  <2>1. EndFlush(u) \/ EndWrite(u) \/ FailTask(u)
    BY <1>1 DEF Api, End, Assign, AssignRefused, MarkRunning, SendStart, Release, RecordRefusal, Cancel, hub
  <2>2. u = t
    BY <2>1 DEF EndFlush, EndWrite, FailTask, HubType, TypeOK
  <2> QED
    BY <2>1, <2>2
<1>2. ASSUME NEW how \in {"flush", "replaced", "revoked"}, PopSlots(how)
      PROVE  t \in assigned /\ assigned' = {} /\ ending'[t] \in {"flush", "replaced", "revoked"}
  BY <1>2, PopSlotsTypes
<1>3. ASSUME NEW c \in Conns, Loop(c) PROVE PopSlots("flush")
  BY <1>3 DEF Loop, Disconnect, Hello, Stream, Note, Beat, Ask, TerminalMessage, NotAssigned, Reject, LeaveHub,
              FlushRead, FlushWrite, AppendRead, AppendWrite, Register, RegisterFails, Settle,
              SettleRefused, hub
<1>4. Revoke => PopSlots("revoked")
  BY DEF Revoke
<1>5. Connect => PopSlots("replaced")
  BY DEF Connect
<1>6. ~(Break \/ WorkerStart \/ WorkerCancel \/ WorkerDecision \/ UNCHANGED vars)
  BY DEF Break, WorkerStart, WorkerCancel, WorkerDecision, vars, hub
<1>7. ASSUME NEW u \in Tasks PROVE ~WorkerRuns(u)
  BY DEF WorkerRuns, WorkerProgress, WorkerBeat, WorkerAsk, WorkerEnd, hub
<1>8. ASSUME NEW u \in Tasks, NEW n \in 1 .. MaxAsks, NEW d \in Decisions
      PROVE ~(Resolve(u, n, d) \/ ResolveFails(u, n, d))
  BY DEF Resolve, ResolveFails, hub
<1> QED
  BY <1>1, <1>2, <1>3, <1>4, <1>5, <1>6, <1>7, <1>8 DEF Next

\* The call that creates t moves on by its own steps.
LEMMA WritersOfCall ==
  ASSUME HubType, [Next]_vars, NEW t \in Tasks, call'[t] # call[t]
  PROVE  Assign(t) \/ AssignRefused(t) \/ MarkRunning(t) \/ SendStart(t) \/ Release(t) \/ RecordRefusal(t)
<1>1. ASSUME NEW u \in Tasks, Api(u) \/ End(u)
      PROVE  Assign(t) \/ AssignRefused(t) \/ MarkRunning(t) \/ SendStart(t) \/ Release(t) \/ RecordRefusal(t)
  BY <1>1 DEF Api, End, Assign, AssignRefused, MarkRunning, SendStart, Release, RecordRefusal, Cancel,
              EndFlush, EndWrite, FailTask, Goto, HubType, TypeOK
<1>2. ASSUME NEW c \in Conns PROVE ~Loop(c)
  BY DEF Loop, Disconnect, Hello, Stream, Note, Beat, Ask, TerminalMessage, NotAssigned, Reject, LeaveHub,
         FlushRead, FlushWrite, AppendRead, AppendWrite, Register, RegisterFails, Settle, SettleRefused
<1>3. ~(Revoke \/ Connect \/ Break \/ WorkerStart \/ WorkerCancel \/ WorkerDecision \/ UNCHANGED vars)
  BY DEF Revoke, Connect, Break, WorkerStart, WorkerCancel, WorkerDecision, vars
<1>4. ASSUME NEW u \in Tasks PROVE ~WorkerRuns(u)
  BY DEF WorkerRuns, WorkerProgress, WorkerBeat, WorkerAsk, WorkerEnd
<1>5. ASSUME NEW u \in Tasks, NEW n \in 1 .. MaxAsks, NEW d \in Decisions
      PROVE ~(Resolve(u, n, d) \/ ResolveFails(u, n, d))
  BY DEF Resolve, ResolveFails
<1> QED
  BY <1>1, <1>2, <1>3, <1>4, <1>5 DEF Next

\* A run is begun by a start that the Worker takes.
LEMMA RunsBegin ==
  ASSUME HubType, [Next]_vars, NEW t \in Tasks, run[t] = "none", run'[t] # "none"
  PROVE  /\ WorkerStart /\ wconn \in Conns /\ outbox[wconn] # <<>> /\ 1 \in DOMAIN outbox[wconn]
         /\ outbox[wconn][1].type = "start" /\ outbox[wconn][1].task = t
<1>1. CASE WorkerStart
  <2> DEFINE m == Head(outbox[wconn])
  <2>1. wconn \in Conns /\ outbox[wconn] # <<>>
    BY <1>1, HubBounds DEF HubType, TypeOK, WorkerStart, Received, Conns
  <2>2. m = outbox[wconn][1] /\ 1 \in DOMAIN outbox[wconn]
    BY <2>1, TailOf DEF HubType
  <2>3. m.task = t /\ m.type = "start"
    BY <1>1 DEF WorkerStart, Received, HubType, TypeOK
  <2> QED
    BY <1>1, <2>1, <2>2, <2>3
<1>2. CASE ~WorkerStart
  <2>1. ASSUME NEW u \in Tasks, Api(u) \/ End(u) PROVE FALSE
    BY <2>1 DEF Api, End, Assign, AssignRefused, MarkRunning, SendStart, Release, RecordRefusal, Cancel,
                EndFlush, EndWrite, FailTask, worker
  <2>2. ASSUME NEW c \in Conns, Loop(c) PROVE FALSE
    <3>1. CASE Reject(c)
      BY <3>1, RejectTypes
    <3>2. CASE ~Reject(c)
      BY <2>2, <3>2 DEF Loop, Disconnect, Hello, Stream, Note, Beat, Ask, TerminalMessage, NotAssigned,
                FlushRead, FlushWrite, AppendRead, AppendWrite, Register, RegisterFails, Settle, SettleRefused, worker
    <3> QED
      BY <3>1, <3>2
  <2>3. ~Break
    BY LosesTypes DEF Break
  <2>4. ~(Revoke \/ Connect \/ WorkerCancel \/ UNCHANGED vars)
    BY DEF Revoke, Connect, WorkerCancel, vars, worker
  <2>5. ~WorkerDecision
    BY DEF WorkerDecision, HubType, TypeOK
  <2>6. ASSUME NEW u \in Tasks PROVE ~WorkerRuns(u)
    BY DEF WorkerRuns, WorkerProgress, WorkerBeat, WorkerAsk, WorkerEnd, HubType, TypeOK
  <2>7. ASSUME NEW u \in Tasks, NEW n \in 1 .. MaxAsks, NEW d \in Decisions
        PROVE ~(Resolve(u, n, d) \/ ResolveFails(u, n, d))
    BY DEF Resolve, ResolveFails, worker
  <2> QED
    BY <1>2, <2>1, <2>2, <2>3, <2>4, <2>6, <2>7, <2>5 DEF Next
<1> QED
  BY <1>1, <1>2

\* A handler goes on with its message, is done with it, or takes one up.
LEMMA HandlersGoOn ==
  ASSUME HubType, [Next]_vars, NEW c \in Conns, handler'[c] # handler[c]
  PROVE  \/ handler'[c].at \in {"idle", "closed"}
         \/ /\ FlushRead(c) \/ FlushWrite(c) \/ AppendRead(c)
            /\ handler'[c].msg = handler[c].msg /\ handler[c].at \in Busy
         \/ Note(c) \/ Ask(c) \/ TerminalMessage(c)
<1>1. ASSUME NEW d \in Conns, Loop(d) PROVE d = c
  <2>1. \/ \E x : handler' = [handler EXCEPT ![d] = x]
        \/ handler' = handler
        \/ FlushRead(d) \/ FlushWrite(d) \/ AppendRead(d)
    BY <1>1 DEF Loop, Disconnect, Hello, Stream, Note, Beat, Ask, TerminalMessage, TakeBuffer, Handle, NotAssigned,
                Reject, LeaveHub, AppendWrite, Register, RegisterFails, Settle, SettleRefused, hub
  <2> QED
    BY <2>1 DEF FlushRead, FlushWrite, AppendRead, HubType
<1>2. CASE Loop(c)
  <2>1. CASE FlushRead(c) \/ FlushWrite(c) \/ AppendRead(c)
    <3>1. handler[c].at \in Busy
      BY <2>1 DEF FlushRead, FlushWrite, AppendRead, Busy
    <3>2. handler'[c].msg = handler[c].msg
      BY <2>1 DEF FlushRead, FlushWrite, AppendRead, HubType, Handlers
    <3> QED
      BY <2>1, <3>1, <3>2
  <2>2. CASE AppendWrite(c) \/ Register(c) \/ Settle(c) \/ LeaveHub(c)
    <3>1. handler'[c].at \in {"idle", "closed"}
      BY <2>2, IdleTypes, LeaveTypes DEF AppendWrite, Register, Settle, HubType
    <3> QED
      BY <3>1
  <2>3. CASE Hello(c) \/ Stream(c) \/ Beat(c)
    BY <2>3 DEF Hello, Stream, Beat, hub
  <2> QED
    BY <1>2, <2>1, <2>2, <2>3 DEF Loop, Disconnect, NotAssigned, Reject, RegisterFails, SettleRefused
<1>3. ASSUME NEW u \in Tasks, Api(u) \/ End(u) PROVE FALSE
  BY <1>3 DEF Api, End, Assign, AssignRefused, MarkRunning, SendStart, Release, RecordRefusal, Cancel,
              EndFlush, EndWrite, FailTask, hub
<1>4. ~(Revoke \/ Connect \/ Break \/ WorkerStart \/ WorkerCancel \/ WorkerDecision \/ UNCHANGED vars)
  BY DEF Revoke, Connect, Break, WorkerStart, WorkerCancel, WorkerDecision, vars, hub
<1>5. ASSUME NEW u \in Tasks PROVE ~WorkerRuns(u)
  BY DEF WorkerRuns, WorkerProgress, WorkerBeat, WorkerAsk, WorkerEnd, hub
<1>6. ASSUME NEW u \in Tasks, NEW n \in 1 .. MaxAsks, NEW d \in Decisions
      PROVE ~(Resolve(u, n, d) \/ ResolveFails(u, n, d))
  BY DEF Resolve, ResolveFails, hub
<1> QED
  BY <1>1, <1>2, <1>3, <1>4, <1>5, <1>6 DEF Next

\* A copy of the record of t that is waiting to be written was read from it.
LEMMA CopiesAreRead ==
  ASSUME HubType, [Next]_vars, NEW c \in Conns, NEW t \in Tasks, CopyOf(c, t)'
  PROVE  \/ CopyOf(c, t) /\ handler'[c].copy = handler[c].copy
         \/ /\ FlushRead(c) \/ AppendRead(c)
            /\ handler[c].at \in Busy /\ handler[c].msg.task = t /\ handler'[c].copy = task[t]
<1>1. CASE handler'[c] = handler[c]
  BY <1>1 DEF CopyOf
<1>2. CASE handler'[c] # handler[c]
  <2>1. CASE FlushRead(c) \/ AppendRead(c)
    <3>1. handler[c].at \in Busy /\ handler'[c].msg = handler[c].msg /\ handler'[c].copy = task[handler[c].msg.task]
      BY <2>1 DEF FlushRead, AppendRead, HubType, Handlers, Busy
    <3> QED
      BY <2>1, <3>1 DEF CopyOf
  <2>2. ~FlushWrite(c)
    BY DEF FlushWrite, CopyOf, HubType, Handlers
  <2>3. ASSUME Note(c) \/ Ask(c) \/ TerminalMessage(c) PROVE FALSE
    <3>1. \E at \in {"flush", "append", "settle", "ask"} : Handle(c, at)
      BY <1>2, <2>3 DEF Note, Ask, TerminalMessage, TakeBuffer
    <3> QED
      BY <3>1 DEF Handle, CopyOf, HubType
  <2> QED
    BY <1>2, <2>1, <2>2, <2>3, HandlersGoOn DEF CopyOf
<1> QED
  BY <1>1, <1>2

\* A message in an inbox was there before, is the hello of a new connection, or is
\* sent by a run on the Worker's connection.
LEMMA InboxGrows ==
  ASSUME HubType, [Next]_vars, NEW c \in Conns, NEW i \in DOMAIN inbox'[c]
  PROVE  \/ \E j \in DOMAIN inbox[c] : inbox'[c][i] = inbox[c][j]
         \/ Connect /\ inbox'[c][i].type = "hello"
         \/ \E t \in Tasks : /\ WorkerRuns(t) /\ run[t] \in {"working", "asking", "beating"}
                             /\ inbox'[c][i].task = t /\ c = wconn
                             /\ inbox'[c][i].type = "ask" =>
                                  WorkerAsk(t) /\ inbox'[c][i].ask = Len(asker) + 1
<1> DEFINE Old == \E j \in DOMAIN inbox[c] : inbox'[c][i] = inbox[c][j]
<1>1. ASSUME inbox' = inbox PROVE Old
  BY <1>1
<1>2. ASSUME inbox'[c] = <<>> PROVE FALSE
  <2>1. DOMAIN <<>> = {}
    OBVIOUS
  <2> QED
    BY <1>2, <2>1
<1>3. ASSUME NEW t \in Tasks, Api(t) \/ End(t) PROVE inbox' = inbox
  BY <1>3 DEF Api, End, Assign, AssignRefused, MarkRunning, SendStart, Release, RecordRefusal, Cancel,
              EndFlush, EndWrite, FailTask, wire
<1>4. ASSUME NEW t \in Tasks, NEW n \in 1 .. MaxAsks, NEW d \in Decisions,
             Resolve(t, n, d) \/ ResolveFails(t, n, d)
      PROVE  inbox' = inbox
  BY <1>4 DEF Resolve, ResolveFails, wire
<1>5. CASE Revoke \/ Break \/ WorkerStart \/ WorkerCancel \/ WorkerDecision \/ UNCHANGED vars
  <2>1. inbox' = inbox
    BY <1>5 DEF Revoke, Break, WorkerStart, WorkerCancel, WorkerDecision, vars, wire
  <2> QED
    BY <1>1, <2>1
<1>6. CASE Connect
  <2>1. inbox'[c] = inbox[c] \/ inbox'[c] = <<[type |-> "hello"]>>
    BY <1>6 DEF Connect, HubType
  <2> QED
    BY <1>6, <2>1
<1>7. ASSUME NEW d \in Conns, Loop(d) PROVE Old
  <2>1. CASE Hello(d) \/ Stream(d) \/ Note(d) \/ Beat(d) \/ Ask(d) \/ TerminalMessage(d)
    <3>1. Take(d) /\ inbox[d] # <<>>
      BY <2>1 DEF Hello, Stream, Note, Beat, Ask, TerminalMessage, Takes
    <3> QED
      BY <1>1, <3>1, TakeTypes
  <2>2. CASE LeaveHub(d)
    BY <1>1, <1>2, <2>2, LeaveTypes
  <2>3. CASE FlushRead(d) \/ FlushWrite(d) \/ AppendRead(d) \/ AppendWrite(d) \/ Register(d) \/ Settle(d)
    <3>1. inbox' = inbox
      BY <2>3 DEF FlushRead, FlushWrite, AppendRead, AppendWrite, Register, Settle, wire
    <3> QED
      BY <1>1, <3>1
  <2> QED
    BY <1>7, <2>1, <2>2, <2>3 DEF Loop, Disconnect, NotAssigned, Reject, RegisterFails, SettleRefused
<1>8. ASSUME NEW t \in Tasks, WorkerRuns(t), ~Old
      PROVE  /\ run[t] \in {"working", "asking", "beating"} /\ inbox'[c][i].task = t /\ c = wconn
             /\ inbox'[c][i].type = "ask" => WorkerAsk(t) /\ inbox'[c][i].ask = Len(asker) + 1
  <2>1. PICK m \in UpMsgs : /\ SendUp(m) /\ m.task = t
                            /\ m.type = "ask" => WorkerAsk(t) /\ m.ask = Len(asker) + 1
    <3>1. ASSUME NEW type \in {"stream", "note", "beat"}
          PROVE  [type |-> type, task |-> t] \in UpMsgs /\ [type |-> type, task |-> t].type # "ask"
      BY DEF UpMsgs, TaskMsgs
    <3>2. Len(asker) < MaxAsks => [type |-> "ask", task |-> t, ask |-> Len(asker) + 1] \in UpMsgs
      <4>1. Len(asker) < MaxAsks => Len(asker) + 1 \in 1 .. MaxAsks
        BY HubBounds DEF HubType
      <4> QED
        BY <4>1 DEF UpMsgs, AskMsgs
    <3>3. ASSUME NEW s \in Terminal
          PROVE  Done(t, s) \in UpMsgs /\ Done(t, s).task = t /\ Done(t, s).type # "ask"
      BY DEF UpMsgs, TerminalMsgs, Done
    <3>4. CASE WorkerAsk(t)
      BY <3>2, <3>4 DEF WorkerAsk
    <3>5. CASE WorkerBeat(t) \/ \E type \in {"stream", "note"} : WorkerProgress(t, type)
      BY <3>1, <3>5 DEF WorkerProgress, WorkerBeat
    <3>6. CASE \E s \in {"completed", "failed", "cancelled"} : WorkerEnd(t, s)
      BY <3>3, <3>6 DEF WorkerEnd, Terminal
    <3> QED
      BY <1>8, <3>4, <3>5, <3>6 DEF WorkerRuns
  <2>2. run[t] \in {"working", "asking", "beating"}
    BY <1>8 DEF WorkerRuns, WorkerProgress, WorkerBeat, WorkerAsk, WorkerEnd
  <2> QED
    BY <1>8, <2>1, <2>2, SendUpTypes
<1> QED
  BY <1>1, <1>3, <1>4, <1>5, <1>6, <1>7, <1>8 DEF Next

\* The hub hears of a Task only from its run, on the connection the Worker holds.
LEMMA HeardFromRuns ==
  ASSUME HubType, [Next]_vars, NEW c \in Conns, NEW t \in Tasks, About(c, t)'
  PROVE  About(c, t) \/ (run[t] \in {"working", "asking", "beating"} /\ c = wconn /\ WorkerRuns(t))
<1>1. ASSUME NEW i \in DOMAIN inbox'[c], inbox'[c][i].type # "hello", inbox'[c][i].task = t
      PROVE  About(c, t) \/ (run[t] \in {"working", "asking", "beating"} /\ c = wconn /\ WorkerRuns(t))
  BY <1>1, InboxGrows DEF About
<1>2. ASSUME handler'[c].at \in Busy, handler'[c].msg.task = t
      PROVE  About(c, t)
  <2>1. CASE handler'[c] = handler[c]
    BY <1>2, <2>1 DEF About
  <2>2. CASE Note(c) \/ Ask(c) \/ TerminalMessage(c)
    <3>1. \/ handler' = handler
          \/ \E at \in {"flush", "append", "settle", "ask"} : Handle(c, at)
      BY <2>2 DEF Note, Ask, TerminalMessage, TakeBuffer
    <3>2. ASSUME NEW at, Handle(c, at) PROVE handler'[c].msg = Head(inbox[c])
      BY <3>2 DEF Handle, HubType
    <3>3. /\ Head(inbox[c]) = inbox[c][1] /\ 1 \in DOMAIN inbox[c] /\ Head(inbox[c]).type # "hello"
      BY <2>2, TakeTypes DEF Note, Ask, TerminalMessage, Takes
    <3> QED
      BY <1>2, <2>1, <3>1, <3>2, <3>3 DEF About
  <2> QED
    BY <1>2, <2>1, <2>2, HandlersGoOn, IdleTypes DEF About, Busy
<1> QED
  BY <1>1, <1>2 DEF About

-----------------------------------------------------------------------------
(* The slots.                                                              *)

\* A Task whose dispatch has not begun stays untouched until it begins.
LEMMA UnstartedStaysUntouched ==
  ASSUME HubType, SlotsHaveConnection, UnstartedIsUntouched, [Next]_vars
  PROVE  UnstartedIsUntouched'
<1> SUFFICES ASSUME NEW t \in Tasks, call'[t] = "idle"
             PROVE  /\ task'[t].status = "queued" /\ t \notin assigned' /\ ending'[t] = "none" /\ run'[t] = "none"
                    /\ \A c \in Conns : ~About(c, t)' /\ \A i \in DOMAIN outbox'[c] : outbox'[c][i].task # t
  BY DEF UnstartedIsUntouched
<1>1. call[t] = "idle" /\ call'[t] = call[t]
  BY WritersOfCall DEF Assign, AssignRefused, MarkRunning, SendStart, Release, RecordRefusal, Goto, HubType, TypeOK
<1>2. /\ task[t].status = "queued" /\ t \notin assigned /\ ending[t] = "none" /\ run[t] = "none"
      /\ \A c \in Conns : ~About(c, t) /\ \A i \in DOMAIN outbox[c] : outbox[c][i].task # t
  BY <1>1 DEF UnstartedIsUntouched
<1>3. task'[t] = task[t]
  <2>1. ~TaskWriters(t)
    BY <1>1, <1>2 DEF TaskWriters, MarkRunning, RecordRefusal, Cancel, EndWrite, FailTask, Resolve, ResolveFails,
                      Decidable, About
  <2> QED
    BY <2>1, WritersOfTask
<1>4. t \notin assigned'
  BY <1>1, <1>2, TakersOfSlots DEF Assign, Goto, HubType, TypeOK
<1>5. ending'[t] = ending[t]
  BY <1>2, WritersOfEnding DEF EndFlush, EndWrite, FailTask
<1>6. run'[t] = "none"
  BY <1>2, RunsBegin
<1>7. \A c \in Conns : ~About(c, t)'
  BY <1>2, HeardFromRuns
<1>8. ASSUME NEW c \in Conns, NEW i \in DOMAIN outbox'[c], outbox'[c][i].task = t PROVE FALSE
  <2>1. ~SendStart(t) /\ ~Cancel(t) /\ \A n \in 1 .. MaxAsks, d \in Decisions : ~Resolve(t, n, d)
    BY <1>1, <1>2 DEF SendStart, Cancel, Resolve, Decidable
  <2>2. ASSUME NEW u \in Tasks, SendStart(u), outbox'[c][i] = [type |-> "start", task |-> u] PROVE FALSE
    BY <1>8, <2>1, <2>2
  <2>3. ASSUME NEW u \in Tasks, Cancel(u), outbox'[c][i] = [type |-> "cancel", task |-> u] PROVE FALSE
    BY <1>8, <2>1, <2>3
  <2>4. ASSUME NEW u \in Tasks, NEW n \in 1 .. MaxAsks, NEW d \in Decisions, Resolve(u, n, d),
               outbox'[c][i] = [type |-> "decision", task |-> u, ask |-> n, decision |-> d]
        PROVE  FALSE
    BY <1>8, <2>1, <2>4
  <2>5. ~ \E j \in DOMAIN outbox[c] : outbox'[c][i] = outbox[c][j]
    BY <1>2, <1>8
  <2> QED
    BY <2>2, <2>3, <2>4, <2>5, OutboxGrows
<1> QED
  BY <1>2, <1>3, <1>4, <1>5, <1>6, <1>7, <1>8

\* While a slot is held the device keeps its connection.
LEMMA ConnectionStays ==
  ASSUME HubType, [Next]_vars, assigned' # {}
  PROVE  conn' = conn /\ opened' = opened /\ ready \subseteq ready'
<1>1. ASSUME NEW u \in Tasks, Api(u) \/ End(u) PROVE UNCHANGED <<conn, opened, ready>>
  BY <1>1 DEF Api, End, Assign, AssignRefused, MarkRunning, SendStart, Release, RecordRefusal, Cancel,
              EndFlush, EndWrite, FailTask, hub
<1>2. ASSUME NEW c \in Conns, Loop(c) PROVE conn' = conn /\ opened' = opened /\ ready \subseteq ready'
  <2>1. CASE Disconnect(c) \/ Reject(c)
    BY <2>1, LeaveTypes DEF Disconnect, Reject
  <2>2. CASE ~(Disconnect(c) \/ Reject(c))
    BY <1>2, <2>2 DEF Loop, Hello, Stream, Note, Beat, Ask, TerminalMessage, NotAssigned,
              FlushRead, FlushWrite, AppendRead, AppendWrite, Register, RegisterFails, Settle, SettleRefused, hub
  <2> QED
    BY <2>1, <2>2
<1>3. ~(Revoke \/ Connect)
  BY DEF Revoke, Connect, PopSlots
<1>4. Break \/ WorkerStart \/ WorkerCancel \/ WorkerDecision \/ UNCHANGED vars => UNCHANGED <<conn, opened, ready>>
  BY DEF Break, WorkerStart, WorkerCancel, WorkerDecision, vars, hub
<1>5. ASSUME NEW u \in Tasks, WorkerRuns(u) PROVE UNCHANGED <<conn, opened, ready>>
  BY <1>5 DEF WorkerRuns, WorkerProgress, WorkerBeat, WorkerAsk, WorkerEnd, hub
<1>6. ASSUME NEW u \in Tasks, NEW n \in 1 .. MaxAsks, NEW d \in Decisions,
             Resolve(u, n, d) \/ ResolveFails(u, n, d)
      PROVE  UNCHANGED <<conn, opened, ready>>
  BY <1>6 DEF Resolve, ResolveFails, hub
<1> QED
  BY <1>1, <1>2, <1>3, <1>4, <1>5, <1>6 DEF Next

\* What is heard of a Task with a slot is heard on the current connection.
LEMMA SlotsKeepConnection ==
  ASSUME HubType, HubType', UnstartedIsUntouched, SlotsHaveConnection, [Next]_vars
  PROVE  SlotsHaveConnection'
<1> SUFFICES ASSUME NEW t \in assigned'
             PROVE  /\ conn' \in ready' /\ conn' = opened'
                    /\ \A c \in Conns : About(c, t)' => c = opened'
  BY DEF SlotsHaveConnection
<1>1. conn' = conn /\ opened' = opened /\ ready \subseteq ready'
  BY ConnectionStays
<1>2. CASE t \notin assigned
  <2>1. Assign(t) /\ t \in Tasks /\ call[t] = "idle"
    BY <1>2, TakersOfSlots DEF Assign, HubType, TypeOK
  <2>2. conn \in ready /\ conn = opened
    BY <2>1, HubBounds DEF Assign, HubType, TypeOK, Conns
  <2>3. \A c \in Conns : ~About(c, t)'
    BY <2>1, HeardFromRuns DEF UnstartedIsUntouched
  <2> QED
    BY <1>1, <2>2, <2>3
<1>3. CASE t \in assigned
  <2>1. t \in Tasks /\ conn \in ready /\ conn = opened /\ \A c \in Conns : About(c, t) => c = opened
    BY <1>3 DEF SlotsHaveConnection, HubType, TypeOK
  <2>2. ASSUME NEW c \in Conns, About(c, t)' PROVE c = opened
    BY <2>1, <2>2, HeardFromRuns, HubBounds DEF HubType, Conns
  <2> QED
    BY <1>1, <2>1, <2>2
<1> QED
  BY <1>2, <1>3

\* A Task with a slot is unfinished, and so are the copies of it.
LEMMA SlotsStayLive ==
  ASSUME HubType, HubType', UnstartedIsUntouched, SlotsAreLive, [Next]_vars
  PROVE  SlotsAreLive'
<1> SUFFICES ASSUME NEW t \in assigned'
             PROVE  /\ call'[t] \in {"assigned", "send", "release", "done"}
                    /\ ending'[t] = "none"
                    /\ task'[t].status \notin Terminal
                    /\ \A c \in Conns : CopyOf(c, t)' => handler'[c].copy.status \notin Terminal
  BY DEF SlotsAreLive
<1>1. t \in Tasks
  BY DEF HubType, TypeOK
<1>2. CASE t \notin assigned
  <2>1. Assign(t) /\ call[t] = "idle"
    BY <1>1, <1>2, TakersOfSlots DEF Assign
  <2>2. /\ task[t].status = "queued" /\ ending[t] = "none"
        /\ \A c \in Conns : ~About(c, t)
    BY <1>1, <2>1 DEF UnstartedIsUntouched
  <2>3. /\ call'[t] = "assigned" /\ ending' = ending /\ task' = task /\ handler' = handler
    BY <1>1, <2>1 DEF Assign, Goto, HubType, TypeOK, records
  <2>4. \A c \in Conns : ~CopyOf(c, t)'
    BY <2>2, <2>3 DEF CopyOf, About, Busy
  <2> QED
    BY <2>2, <2>3, <2>4 DEF Terminal
<1>3. CASE t \in assigned
  <2>1. /\ call[t] \in {"assigned", "send", "release", "done"}
        /\ ending[t] = "none"
        /\ task[t].status \notin Terminal
        /\ \A c \in Conns : CopyOf(c, t) => handler[c].copy.status \notin Terminal
    BY <1>3 DEF SlotsAreLive
  <2>2. call'[t] \in {"assigned", "send", "release", "done"}
    <3>1. ~Assign(t) /\ ~AssignRefused(t) /\ ~RecordRefusal(t) /\ ~Release(t)
      BY <2>1 DEF Assign, AssignRefused, RecordRefusal, Release
    <3>2. MarkRunning(t) => call'[t] \in {"send", "release"}
      BY <1>1 DEF MarkRunning, Goto, HubType, TypeOK
    <3>3. SendStart(t) => call'[t] \in {"done", "release"}
      BY <1>1 DEF SendStart, Goto, HubType, TypeOK
    <3> QED
      BY <1>1, <2>1, <3>1, <3>2, <3>3, WritersOfCall
  <2>3. ending'[t] = "none"
    BY <1>1, <2>1, WritersOfEnding DEF EndFlush, EndWrite, FailTask
  <2>4. task'[t].status \notin Terminal
    <3>1. CASE task'[t] = task[t]
      BY <2>1, <3>1
    <3>2. CASE MarkRunning(t) \/ Cancel(t)
      <4>1. \A s \in {"running", "cancel_requested"} : Write(t, s, 0) => task'[t].status = s
        BY <1>1 DEF Write, HubType, TypeOK
      <4> QED
        BY <2>1, <3>1, <3>2, <4>1 DEF MarkRunning, Cancel, Terminal, records
    <3>3. ASSUME NEW n \in 1 .. MaxAsks, NEW d \in Decisions, Resolve(t, n, d) \/ ResolveFails(t, n, d)
          PROVE  task'[t].status \notin Terminal
      <4>1. Write(t, "running", 0) => task'[t].status = "running"
        BY <1>1 DEF Write, HubType, TypeOK
      <4> QED
        BY <3>1, <3>3, <4>1 DEF Resolve, ResolveFails, Terminal
    <3>4. ASSUME NEW c \in Conns, handler[c].at \in Busy, handler[c].msg.task = t,
                 FlushWrite(c) \/ AppendWrite(c) \/ Register(c) \/ Settle(c)
          PROVE  task'[t].status \notin Terminal
      <4>1. CASE FlushWrite(c) \/ AppendWrite(c)
        <5>1. CopyOf(c, t) /\ task'[t] = handler[c].copy
          BY <1>1, <3>4, <4>1 DEF FlushWrite, AppendWrite, CopyOf, HubType, TypeOK
        <5> QED
          BY <2>1, <5>1
      <4>2. CASE Register(c)
        <5>1. task'[t] = task[t] \/ task'[t].status = "waiting"
          BY <1>1, <3>4, <4>2 DEF Register, Write, HubType, TypeOK, records
        <5> QED
          BY <2>1, <5>1 DEF Terminal
      <4>3. ~Settle(c)
        BY <3>4 DEF Settle
      <4> QED
        BY <3>4, <4>1, <4>2, <4>3
    <3>5. ~RecordRefusal(t) /\ ~EndWrite(t) /\ ~FailTask(t)
      BY <2>1 DEF RecordRefusal, EndWrite, FailTask
    <3> QED
      BY <1>1, <3>1, <3>2, <3>3, <3>4, <3>5, WritersOfTask DEF TaskWriters
  <2>5. ASSUME NEW c \in Conns, CopyOf(c, t)' PROVE handler'[c].copy.status \notin Terminal
    BY <1>1, <2>1, <2>5, CopiesAreRead
  <2> QED
    BY <2>2, <2>3, <2>4, <2>5
<1> QED
  BY <1>2, <1>3

\* The record that the ending of t will write was read from t.
LEMMA DraftsAreRead ==
  ASSUME HubType, [Next]_vars, NEW t \in Tasks, ending'[t] = "write"
  PROVE  \/ ending[t] = "write" /\ draft'[t] = draft[t]
         \/ EndFlush(t) /\ draft'[t] = task[t]
<1>1. EndFlush(t) \/ (ending[t] = "write" /\ ~EndFlush(t) /\ ~EndWrite(t))
  <2>1. CASE ending'[t] = ending[t]
    BY <2>1 DEF EndFlush, EndWrite, HubType, TypeOK
  <2>2. CASE ending'[t] # ending[t]
    BY <2>2, WritersOfEnding DEF EndWrite, FailTask, HubType, TypeOK
  <2> QED
    BY <2>1, <2>2
<1>2. CASE EndFlush(t)
  <2>1. t \in buffer
    BY <1>2 DEF EndFlush, HubType, TypeOK
  <2>2. draft'[t] = task[t]
    BY <1>2, <2>1 DEF EndFlush, HubType, TypeOK
  <2> QED
    BY <1>2, <2>2
<1>3. CASE ending[t] = "write" /\ ~EndFlush(t) /\ ~EndWrite(t)
  <2>1. ASSUME NEW u \in Tasks, Api(u) \/ End(u) PROVE draft'[t] = draft[t]
    <3>1. CASE EndFlush(u) \/ EndWrite(u)
      BY <1>3, <3>1 DEF EndFlush, EndWrite, HubType, TypeOK
    <3>2. CASE ~(EndFlush(u) \/ EndWrite(u))
      BY <2>1, <3>2 DEF Api, End, Assign, AssignRefused, MarkRunning, SendStart, Release, RecordRefusal, Cancel,
                        FailTask, hub
    <3> QED
      BY <3>1, <3>2
  <2>2. ASSUME NEW c \in Conns, Loop(c) PROVE draft' = draft
    BY <2>2 DEF Loop, Disconnect, Hello, Stream, Note, Beat, Ask, TerminalMessage, NotAssigned, Reject,
                FlushRead, FlushWrite, AppendRead, AppendWrite, Register, RegisterFails, Settle, SettleRefused, hub
  <2>3. Revoke \/ Connect \/ Break \/ WorkerStart \/ WorkerCancel \/ WorkerDecision \/ UNCHANGED vars => draft' = draft
    BY DEF Revoke, Connect, Break, WorkerStart, WorkerCancel, WorkerDecision, vars, hub
  <2>4. ASSUME NEW u \in Tasks, WorkerRuns(u) PROVE draft' = draft
    BY <2>4 DEF WorkerRuns, WorkerProgress, WorkerBeat, WorkerAsk, WorkerEnd, hub
  <2>5. ASSUME NEW u \in Tasks, NEW n \in 1 .. MaxAsks, NEW d \in Decisions,
               Resolve(u, n, d) \/ ResolveFails(u, n, d)
        PROVE  draft' = draft
    BY <2>5 DEF Resolve, ResolveFails, hub
  <2> QED
    BY <1>3, <2>1, <2>2, <2>3, <2>4, <2>5 DEF Next
<1> QED
  BY <1>1, <1>2, <1>3

\* A status that t had nowhere yet is written by a step that decides it.
LEMMA NewStatuses ==
  ASSUME HubType, [Next]_vars, NEW t \in Tasks, NEW s \in Status, Seen(t, s)', ~Seen(t, s)
  PROVE  \/ s \in {"running", "waiting", "failed", "interrupted"}
         \/ Cancel(t)
         \/ \E c \in Conns : Settle(c) /\ handler[c].at \in Busy /\ handler[c].msg.task = t /\ task'[t].status = s
<1>1. CASE \E c \in Conns : CopyOf(c, t)' /\ handler'[c].copy.status = s
  BY <1>1, CopiesAreRead DEF Seen
<1>2. CASE ending'[t] = "write" /\ draft'[t].status = s
  BY <1>2, DraftsAreRead DEF Seen
<1>3. CASE task'[t].status = s
  <2>1. task'[t] # task[t] /\ TaskWriters(t)
    BY <1>3, WritersOfTask DEF Seen
  <2>2. ASSUME NEW st, NEW n, Write(t, st, n) PROVE st = s
    BY <1>3, <2>2 DEF Write, HubType, TypeOK
  <2>3. MarkRunning(t) \/ RecordRefusal(t) \/ FailTask(t) => s \in {"running", "failed", "interrupted"}
    BY <2>1, <2>2 DEF MarkRunning, RecordRefusal, FailTask, records
  <2>4. ASSUME NEW n \in 1 .. MaxAsks, NEW d \in Decisions, Resolve(t, n, d) \/ ResolveFails(t, n, d)
        PROVE  s = "running"
    BY <2>1, <2>2, <2>4 DEF Resolve, ResolveFails
  <2>5. ~EndWrite(t)
    BY <1>3 DEF EndWrite, Seen, HubType, TypeOK
  <2>6. ASSUME NEW c \in Conns, handler[c].at \in Busy, handler[c].msg.task = t,
               FlushWrite(c) \/ AppendWrite(c) \/ Register(c)
        PROVE  s = "waiting"
    <3>1. ~FlushWrite(c) /\ ~AppendWrite(c)
      BY <1>3, <2>6 DEF FlushWrite, AppendWrite, Seen, CopyOf, HubType, TypeOK
    <3> QED
      BY <2>1, <2>2, <2>6, <3>1 DEF Register, records
  <2> QED
    BY <1>3, <2>1, <2>3, <2>4, <2>5, <2>6 DEF TaskWriters
<1> QED
  BY <1>1, <1>2, <1>3 DEF Seen

\* A completion is recorded for a Task with a slot, once, and not over a
\* cancellation that was requested.
LEMMA CompletionsAreSettled ==
  ASSUME HubType, HubType', SlotsHaveConnection, SlotsAreLive, [Next]_vars,
         NEW t \in Tasks, Seen(t, "completed")', ~Seen(t, "completed")
  PROVE  \E c \in Conns : /\ Settle(c) /\ handler[c].msg.task = t /\ c = opened
                          /\ task[t].status # "cancel_requested" /\ task'[t].status = "completed"
<1>1. "completed" \in Status /\ ~("completed" \in {"running", "waiting", "failed", "interrupted"})
  BY DEF Status, Terminal
<1>2. ~Cancel(t)
  <2>1. ASSUME Cancel(t) PROVE FALSE
    <3>1. task'[t].status = "cancel_requested" \/ task'[t] = task[t]
      BY <2>1 DEF Cancel, Write, HubType, TypeOK, records
    <3>2. ending' = ending /\ draft' = draft /\ handler' = handler
      BY <2>1 DEF Cancel
    <3>3. \A c \in Conns : CopyOf(c, t)' => CopyOf(c, t) /\ handler'[c] = handler[c]
      BY <3>2 DEF CopyOf
    <3> QED
      BY <3>1, <3>2, <3>3 DEF Seen
  <2> QED
    BY <2>1
<1>3. PICK c \in Conns : /\ Settle(c) /\ handler[c].at \in Busy /\ handler[c].msg.task = t
                         /\ task'[t].status = "completed"
  BY <1>1, <1>2, NewStatuses
<1>4. c = opened
  BY <1>3 DEF Settle, SlotsHaveConnection, About
<1>5. task[t].status # "cancel_requested"
  BY <1>3 DEF Settle, Write, HubType, TypeOK
<1> QED
  BY <1>3, <1>4, <1>5

\* A completed Task stays settled.
LEMMA CompletedStaysSettled ==
  ASSUME HubType, HubType', UnstartedIsUntouched, SlotsHaveConnection, SlotsAreLive, CompletedIsSettled,
         [Next]_vars
  PROVE  CompletedIsSettled'
<1> SUFFICES ASSUME NEW t \in Tasks, Seen(t, "completed")'
             PROVE  t \notin assigned' /\ ~Seen(t, "cancel_requested")'
  BY DEF CompletedIsSettled
<1>1. CASE Seen(t, "completed")
  <2>1. t \notin assigned /\ ~Seen(t, "cancel_requested")
    BY <1>1 DEF CompletedIsSettled
  <2>2. t \notin assigned'
    <3>1. ASSUME t \in assigned' PROVE FALSE
      <4>1. call[t] = "idle"
        BY <2>1, <3>1, TakersOfSlots DEF Assign
      <4>2. task[t].status = "queued" /\ ending[t] = "none" /\ \A c \in Conns : ~About(c, t)
        BY <4>1 DEF UnstartedIsUntouched
      <4> QED
        BY <1>1, <4>2 DEF Seen, CopyOf, About, Busy
    <3> QED
      BY <3>1
  <2>3. ~Seen(t, "cancel_requested")'
    <3>1. ASSUME Seen(t, "cancel_requested")' PROVE FALSE
      <4>1. "cancel_requested" \in Status /\ ~Cancel(t)
        BY <2>1 DEF Status, Cancel
      <4>2. PICK c \in Conns : Settle(c) /\ handler[c].msg.task = t
        BY <2>1, <3>1, <4>1, NewStatuses
      <4> QED
        BY <2>1, <4>2 DEF Settle
    <3> QED
      BY <3>1
  <2> QED
    BY <2>2, <2>3
<1>2. CASE ~Seen(t, "completed")
  <2>1. PICK c \in Conns : /\ Settle(c) /\ handler[c].msg.task = t /\ c = opened
                           /\ task'[t].status = "completed"
    BY <1>2, CompletionsAreSettled
  <2>2. t \in assigned /\ t \notin assigned' /\ ending' = ending /\ handler' = [handler EXCEPT ![c] = Idle]
    BY <2>1 DEF Settle
  <2>3. ending'[t] = "none"
    BY <2>2 DEF SlotsAreLive
  <2>4. ASSUME NEW d \in Conns, CopyOf(d, t)' PROVE FALSE
    <3>1. d # c
      BY <2>2, <2>4, IdleTypes DEF CopyOf, HubType
    <3>2. CopyOf(d, t)
      BY <2>2, <2>4, <3>1 DEF CopyOf, HubType
    <3> QED
      BY <2>1, <2>2, <3>1, <3>2 DEF SlotsHaveConnection, CopyOf, About, Busy
  <2> QED
    BY <2>1, <2>2, <2>3, <2>4 DEF Seen
<1> QED
  BY <1>1, <1>2

-----------------------------------------------------------------------------
(* The inductive invariant and what follows from it.                       *)

\* The invariant holds at first.
LEMMA HubInvAtFirst == Init => HubInv
<1> SUFFICES ASSUME Init PROVE HubInv
  OBVIOUS
<1>1. HubType
  BY TypesHoldAtFirst
<1>2. /\ \A c \in Conns : inbox[c] = <<>> /\ outbox[c] = <<>> /\ handler[c].at = "idle"
      /\ \A c \in Conns : DOMAIN inbox[c] = {} /\ DOMAIN outbox[c] = {}
  <2>1. DOMAIN <<>> = {}
    OBVIOUS
  <2> QED
    BY <2>1 DEF Init, Idle
<1>3. AsksAreNew
  BY <1>2 DEF AsksAreNew, IsAsk, Asking, Init
<1>4. DecisionsAreRecorded
  BY <1>2 DEF DecisionsAreRecorded, Messages, Init
<1>5. UnstartedIsUntouched
  BY <1>2, NewTypes DEF UnstartedIsUntouched, About, Busy, Init
<1>6. SlotsHaveConnection /\ SlotsAreLive
  BY DEF SlotsHaveConnection, SlotsAreLive, Init
<1>7. CompletedIsSettled
  BY <1>2, NewTypes DEF CompletedIsSettled, Seen, CopyOf, Init
<1> QED
  BY <1>1, <1>3, <1>4, <1>5, <1>6, <1>7 DEF HubInv

\* Every step keeps it.
LEMMA HubInvStays == HubInv /\ [Next]_vars => HubInv'
<1> SUFFICES ASSUME HubInv, [Next]_vars PROVE HubInv'
  OBVIOUS
<1>1. /\ HubType /\ AsksAreNew /\ DecisionsAreRecorded
      /\ UnstartedIsUntouched /\ SlotsHaveConnection /\ SlotsAreLive /\ CompletedIsSettled
  BY DEF HubInv
<1>2. HubType'
  BY <1>1, TypesStay
<1>3. AsksAreNew' /\ DecisionsAreRecorded'
  BY <1>1, <1>2, AsksStayNew, DecisionsStayRecorded
<1>4. UnstartedIsUntouched' /\ SlotsHaveConnection'
  BY <1>1, <1>2, UnstartedStaysUntouched, SlotsKeepConnection
<1>5. SlotsAreLive' /\ CompletedIsSettled'
  BY <1>1, <1>2, SlotsStayLive, CompletedStaysSettled
<1> QED
  BY <1>2, <1>3, <1>4, <1>5 DEF HubInv

\* The control plane keeps its invariant, whatever the API threads, the event loop
\* and the Worker do between one another.
THEOREM HubInvariant == Spec => []HubInv
<1> QED
  BY HubInvAtFirst, HubInvStays, PTL DEF Spec

\* The decision a run acts on, and every decision on its way to the Worker, is the
\* one resolve_approval recorded: no cancellation and no later request rewrites it.
THEOREM DecisionsAreAlwaysRecorded == Spec => []DecisionsAreRecorded
<1>1. HubInv => DecisionsAreRecorded
  BY DEF HubInv
<1> QED
  BY <1>1, HubInvariant, PTL

\* A finished Task holds no slot of the device: no flush or append that was reading
\* its record, and no end of a connection, leaves a terminal one in assigned.
THEOREM SlotsAreAlwaysUnfinished == Spec => []SlotsAreUnfinished
<1>1. HubInv => SlotsAreUnfinished
  BY DEF HubInv, SlotsAreLive, SlotsAreUnfinished
<1> QED
  BY <1>1, HubInvariant, PTL

\* A device that is offline, or whose hello was not handled, has no active Task:
\* connect, disconnect and revoke take the slots with the connection.
THEOREM SlotsAlwaysNeedConnection == Spec => []SlotsNeedConnection
<1>1. HubInv => SlotsNeedConnection
  BY DEF HubInv, SlotsHaveConnection, SlotsNeedConnection
<1> QED
  BY <1>1, HubInvariant, PTL

\* A recorded cancellation leads to an end that is not a completion, or is taken back
\* by a write that was under way without the lock: dispatch's, or a flush or append of
\* the record it had read, and no such copy is of a completed Task.
THEOREM CancellationYieldsToStaleWrites == Spec => CancelYieldsToStaleWrites
<1> DEFINE Yields(t) ==
      \/ task'[t].status \in {"cancel_requested", "cancelled", "failed", "interrupted"}
      \/ task'[t].status # "completed" /\ WrittenBack(t)
<1>1. ASSUME HubInv, [Next]_vars, NEW t \in Tasks, task[t].status = "cancel_requested"
      PROVE  Yields(t)
  <2>1. HubType /\ HubType' /\ SlotsHaveConnection /\ SlotsAreLive /\ CompletedIsSettled
    BY <1>1, HubInvStays DEF HubInv
  <2>2. task'[t].status # "completed"
    <3>1. ~Seen(t, "completed")
      BY <1>1, <2>1 DEF CompletedIsSettled, Seen
    <3>2. Seen(t, "completed")' => task[t].status # "cancel_requested"
      BY <1>1, <2>1, <3>1, CompletionsAreSettled
    <3> QED
      BY <1>1, <3>2 DEF Seen
  <2>3. CASE task'[t] = task[t]
    BY <1>1, <2>3 DEF Yields
  <2>4. CASE task'[t] # task[t]
    <3>1. TaskWriters(t)
      BY <1>1, <2>1, <2>4, WritersOfTask
    <3>2. ASSUME NEW st, NEW n, Write(t, st, n) PROVE task'[t].status = st
      BY <2>1, <3>2 DEF Write, HubType, TypeOK
    <3>3. MarkRunning(t) \/ EndWrite(t) => WrittenBack(t)
      BY <2>1 DEF MarkRunning, EndWrite, WrittenBack, Goto, HubType, TypeOK
    <3>4. RecordRefusal(t) \/ Cancel(t) \/ FailTask(t) => Yields(t)
      BY <2>4, <3>2 DEF Yields, RecordRefusal, Cancel, FailTask, records
    <3>5. ASSUME NEW n \in 1 .. MaxAsks, NEW d \in Decisions
          PROVE  ~Resolve(t, n, d) /\ ~ResolveFails(t, n, d)
      BY <1>1 DEF Resolve, ResolveFails, Decidable
    <3>6. ASSUME NEW c \in Conns, handler[c].at \in Busy, handler[c].msg.task = t
          PROVE  FlushWrite(c) \/ AppendWrite(c) \/ Register(c) => WrittenBack(t)
      BY <1>1, <2>1, <2>4, <3>6 DEF FlushWrite, AppendWrite, Register, WrittenBack, records, HubType, TypeOK
    <3>7. ASSUME NEW c \in Conns, handler[c].at \in Busy, handler[c].msg.task = t, Settle(c)
          PROVE  Yields(t)
      <4>1. handler[c].msg \in TerminalMsgs
        BY <2>1, <3>7 DEF HubType, Settle, At, AtOf, UpMsgs, TaskMsgs, AskMsgs, TerminalMsgs
      <4>2. task'[t].status \in Terminal
        BY <3>2, <3>7, <4>1 DEF Settle, TerminalMsgs, Terminal
      <4> QED
        BY <2>2, <4>2 DEF Yields, Terminal
    <3> QED
      BY <2>2, <3>1, <3>3, <3>4, <3>5, <3>6, <3>7 DEF Yields, TaskWriters
  <2> QED
    BY <2>3, <2>4
<1>2. HubInv /\ [Next]_vars => [\A t \in Tasks : task[t].status = "cancel_requested" => Yields(t)]_vars
  BY <1>1
<1> QED
  BY <1>2, HubInvariant, PTL DEF Spec, CancelYieldsToStaleWrites, Yields

\* A decision that a user made stays the one the Approval has: neither a
\* cancellation, nor the end of the connection, nor another decision changes it.
THEOREM DecidedStaysDecided ==
  Spec => [][\A n \in 1 .. MaxAsks : approval[n] \in Decisions => approval'[n] = approval[n]]_vars
<1>1. HubInv /\ [Next]_vars =>
        [\A n \in 1 .. MaxAsks : approval[n] \in Decisions => approval'[n] = approval[n]]_vars
  BY DecisionsStay DEF HubInv
<1> QED
  BY <1>1, HubInvariant, PTL DEF Spec

-----------------------------------------------------------------------------
(* Questions are shown.                                                    *)

Live == {"working", "asking", "beating"}
IsStart(c, i, t) == outbox[c][i].type = "start" /\ outbox[c][i].task = t
AskingFor(c, t)  == Asking(c) /\ handler[c].msg.task = t

\* The start of t is sent once, at the end of its dispatch, and before it there is no
\* run of t; a live run has the Worker's connection.
StartsComeOnce ==
    /\ \A t \in Tasks : call[t] # "done" =>
         run[t] = "none" /\ \A c \in Conns : \A i \in DOMAIN outbox[c] : ~IsStart(c, i, t)
    /\ \A t \in Tasks : \A c \in Conns : \A i \in DOMAIN outbox[c] : IsStart(c, i, t) =>
         /\ run[t] = "none"
         /\ \A d \in Conns : \A j \in DOMAIN outbox[d] : IsStart(d, j, t) => c = d /\ i = j
    /\ \A t \in Tasks : run[t] \in Live => wconn # 0

\* All that is heard of t comes on one connection, the Worker's while the run is live.
HeardOnOne ==
    \A t \in Tasks :
        /\ run[t] = "none" => \A c \in Conns : ~About(c, t)
        /\ run[t] \in Live => \A c \in Conns : About(c, t) => c = wconn
        /\ \A c, d \in Conns : About(c, t) /\ About(d, t) => c = d

\* An approval is asked for by the run of its Task, and its request names the Task.
AsksNameTheirTask ==
    /\ \A n \in DOMAIN asker : run[asker[n]] # "none"
    /\ \A c \in Conns : \A i \in DOMAIN inbox[c] : IsAsk(c, i) => asker[inbox[c][i].ask] = inbox[c][i].task
    /\ \A c \in Conns : Asking(c) => asker[handler[c].msg.ask] = handler[c].msg.task

\* No request of a Task is waiting to be registered while the Task is ended after
\* the loss of its connection.
EndsAskNothing ==
    \A t \in Tasks : ending[t] \in {"flush", "write", "interrupted"} => \A c \in Conns : ~AskingFor(c, t)

\* While no write has raised: a pending Approval is the one its Task is waiting for,
\* and so says every copy that will be written over the Task.
CopiesAreShown ==
    faults = 0 => \A t \in Tasks : \A n \in Pending(t) :
        /\ task[t] = [status |-> "waiting", pending |-> n]
        /\ \A c \in Conns : CopyOf(c, t) => handler[c].copy = [status |-> "waiting", pending |-> n]
        /\ ending[t] = "write" => draft[t] = [status |-> "waiting", pending |-> n]

ShownInv == StartsComeOnce /\ HeardOnOne /\ AsksNameTheirTask /\ EndsAskNothing /\ CopiesAreShown

\* A step other than the one that sends it leaves the start of t where it is, or takes
\* the first message from before it, or drops it.
LEMMA StartPlaces ==
  ASSUME HubType, SlotsHaveConnection, [Next]_vars, NEW t \in Tasks, ~SendStart(t), NEW c \in Conns
  PROVE  \E k \in {0, 1} : \A i \in DOMAIN outbox'[c] : IsStart(c, i, t)' =>
           i + k \in DOMAIN outbox[c] /\ IsStart(c, i + k, t)
<1>1. ASSUME outbox'[c] = outbox[c] PROVE \A i \in DOMAIN outbox'[c] : IsStart(c, i, t)' =>
           i + 0 \in DOMAIN outbox[c] /\ IsStart(c, i + 0, t)
  <2>1. \A i \in DOMAIN outbox[c] : i + 0 = i
    BY DEF HubType
  <2> QED
    BY <1>1, <2>1 DEF IsStart
<1>2. ASSUME outbox'[c] = <<>> PROVE DOMAIN outbox'[c] = {}
  BY <1>2
<1>3. ASSUME NEW m \in DownMsgs, conn # 0, Push(m), m.type # "start" \/ m.task # t
      PROVE  \A i \in DOMAIN outbox'[c] : IsStart(c, i, t)' => i + 0 \in DOMAIN outbox[c] /\ IsStart(c, i + 0, t)
  <2>1. \A i \in DOMAIN outbox'[c] : IsStart(c, i, t)' => i \in DOMAIN outbox[c] /\ IsStart(c, i, t)
    BY <1>3, PushTypes DEF IsStart
  <2>2. \A i \in DOMAIN outbox[c] : i + 0 = i
    BY DEF HubType
  <2> QED
    BY <2>1, <2>2
<1>4. ASSUME WorkerLoses PROVE outbox'[c] \in {outbox[c], <<>>}
  BY <1>4 DEF WorkerLoses, HubType
<1>5. ASSUME NEW u \in Tasks, Api(u) \/ End(u)
      PROVE  \A i \in DOMAIN outbox'[c] : IsStart(c, i, t)' => i + 0 \in DOMAIN outbox[c] /\ IsStart(c, i + 0, t)
  <2>1. /\ [type |-> "start", task |-> u] \in DownMsgs
        /\ [type |-> "cancel", task |-> u] \in DownMsgs
    BY DEF DownMsgs, CommandMsgs
  <2>2. CASE SendStart(u)
    <3>1. u # t
      BY <2>2
    <3>2. CASE conn # 0
      BY <1>3, <2>1, <2>2, <3>1, <3>2 DEF SendStart
    <3>3. CASE conn = 0
      BY <1>1, <2>2, <3>3 DEF SendStart
    <3> QED
      BY <3>2, <3>3
  <2>3. CASE Cancel(u)
    <3>1. conn # 0
      BY <2>3, HubBounds, SlotsReachSomeone DEF Cancel, Conns
    <3> QED
      BY <1>3, <2>1, <2>3, <3>1 DEF Cancel
  <2>4. CASE ~(SendStart(u) \/ Cancel(u))
    <3>1. outbox' = outbox
      BY <1>5, <2>4 DEF Api, End, Assign, AssignRefused, MarkRunning, Release, RecordRefusal, EndFlush, EndWrite,
                        FailTask, wire
    <3> QED
      BY <1>1, <3>1
  <2> QED
    BY <2>2, <2>3, <2>4
<1>6. ASSUME NEW u \in Tasks, NEW n \in 1 .. MaxAsks, NEW d \in Decisions,
             Resolve(u, n, d) \/ ResolveFails(u, n, d)
      PROVE  \A i \in DOMAIN outbox'[c] : IsStart(c, i, t)' => i + 0 \in DOMAIN outbox[c] /\ IsStart(c, i + 0, t)
  <2>1. CASE ResolveFails(u, n, d)
    <3>1. outbox' = outbox
      BY <2>1 DEF ResolveFails, wire
    <3> QED
      BY <1>1, <3>1
  <2>2. CASE Resolve(u, n, d)
    <3>1. [type |-> "decision", task |-> u, ask |-> n, decision |-> d] \in DownMsgs
      BY DEF DownMsgs, DecisionMsgs
    <3>2. conn # 0
      BY <2>2, HubBounds, SlotsReachSomeone DEF Resolve, Decidable, Conns
    <3> QED
      BY <1>3, <2>2, <3>1, <3>2 DEF Resolve
  <2> QED
    BY <1>6, <2>1, <2>2
<1>7. ASSUME NEW d \in Conns, Loop(d) PROVE outbox'[c] \in {outbox[c], <<>>}
  <2>1. CASE LeaveHub(d)
    BY <2>1, LeaveTypes
  <2>2. CASE ~LeaveHub(d)
    BY <1>7, <2>2 DEF Loop, Disconnect, Hello, Stream, Note, Beat, Ask, TerminalMessage, NotAssigned, Reject,
                      FlushRead, FlushWrite, AppendRead, AppendWrite, Register, RegisterFails, Settle,
                      SettleRefused, wire
  <2> QED
    BY <2>1, <2>2
<1>8. CASE Revoke \/ Connect \/ Break \/ UNCHANGED vars
  <2>1. outbox'[c] \in {outbox[c], <<>>}
    BY <1>4, <1>8 DEF Revoke, Connect, Break, vars, wire
  <2> QED
    BY <1>1, <1>2, <2>1
<1>9. CASE WorkerStart \/ WorkerCancel \/ WorkerDecision
  <2>1. /\ wconn \in Conns /\ outbox[wconn] # <<>>
        /\ outbox' = [outbox EXCEPT ![wconn] = Tail(@)]
    BY <1>9, WorkerReceives
  <2>2. CASE c = wconn
    <3>1. outbox[c] \in Seq(DownMsgs) /\ outbox[c] # <<>> /\ outbox'[c] = Tail(outbox[c])
      BY <2>1, <2>2 DEF HubType
    <3>2. \A i \in DOMAIN Tail(outbox[c]) :
            i + 1 \in DOMAIN outbox[c] /\ Tail(outbox[c])[i] = outbox[c][i + 1]
      BY <3>1, TailOf
    <3>3. \A i \in DOMAIN outbox'[c] : i + 1 \in DOMAIN outbox[c] /\ outbox'[c][i] = outbox[c][i + 1]
      BY <3>1, <3>2
    <3> QED
      BY <3>3 DEF IsStart
  <2>3. CASE c # wconn
    <3>1. outbox'[c] = outbox[c]
      BY <2>1, <2>3 DEF HubType
    <3> QED
      BY <1>1, <3>1
  <2> QED
    BY <2>2, <2>3
<1>10. ASSUME NEW u \in Tasks, WorkerRuns(u) PROVE outbox' = outbox
  BY <1>10 DEF WorkerRuns, WorkerProgress, WorkerBeat, WorkerAsk, WorkerEnd
<1> QED
  BY <1>1, <1>2, <1>5, <1>6, <1>7, <1>8, <1>9, <1>10 DEF Next

\* A live run has begun, and keeps the Worker's connection.
LEMMA RunsLive ==
  ASSUME HubType, [Next]_vars, NEW t \in Tasks, run'[t] \in Live
  PROVE  \/ wconn' = wconn /\ run[t] \in Live
         \/ Connect /\ run[t] \in Live
         \/ /\ wconn' = wconn /\ WorkerStart /\ wconn \in Conns /\ 1 \in DOMAIN outbox[wconn]
            /\ IsStart(wconn, 1, t)
<1>1. ~WorkerLoses
  BY DEF WorkerLoses, HubType, TypeOK, Live
<1>2. CASE WorkerStart
  <2> DEFINE m == Head(outbox[wconn])
  <2>1. wconn \in Conns /\ outbox[wconn] # <<>> /\ wconn' = wconn /\ m.type = "start"
    BY <1>2, HubBounds DEF HubType, TypeOK, WorkerStart, Received, Conns
  <2>2. m = outbox[wconn][1] /\ 1 \in DOMAIN outbox[wconn]
    BY <2>1, TailOf DEF HubType
  <2>3. m.task = t \/ run'[t] = run[t]
    BY <1>2 DEF WorkerStart, HubType, TypeOK
  <2> QED
    BY <1>2, <2>1, <2>2, <2>3 DEF IsStart
<1>3. CASE WorkerDecision \/ WorkerCancel
  BY <1>3 DEF WorkerDecision, WorkerCancel, HubType, TypeOK, Live
<1>4. ASSUME NEW u \in Tasks, Api(u) \/ End(u) PROVE wconn' = wconn /\ run' = run
  BY <1>4 DEF Api, End, Assign, AssignRefused, MarkRunning, SendStart, Release, RecordRefusal, Cancel,
              EndFlush, EndWrite, FailTask, worker
<1>5. ASSUME NEW c \in Conns, Loop(c) PROVE wconn' = wconn /\ run' = run
  <2>1. CASE Reject(c)
    BY <1>1, <2>1 DEF Reject
  <2>2. CASE ~Reject(c)
    BY <1>5, <2>2 DEF Loop, Disconnect, Hello, Stream, Note, Beat, Ask, TerminalMessage, NotAssigned,
              FlushRead, FlushWrite, AppendRead, AppendWrite, Register, RegisterFails, Settle, SettleRefused, worker
  <2> QED
    BY <2>1, <2>2
<1>6. Connect => run' = run
  BY DEF Connect
<1>7. ~Break
  BY <1>1 DEF Break
<1>8. Revoke \/ UNCHANGED vars => wconn' = wconn /\ run' = run
  BY DEF Revoke, vars, worker
<1>9. ASSUME NEW u \in Tasks, WorkerRuns(u) PROVE wconn' = wconn /\ run[t] \in Live
  BY <1>9 DEF WorkerRuns, WorkerProgress, WorkerBeat, WorkerAsk, WorkerEnd, HubType, TypeOK, Live
<1>10. ASSUME NEW u \in Tasks, NEW n \in 1 .. MaxAsks, NEW d \in Decisions,
              Resolve(u, n, d) \/ ResolveFails(u, n, d)
       PROVE  wconn' = wconn /\ run' = run
  BY <1>10 DEF Resolve, ResolveFails, worker
<1> QED
  BY <1>2, <1>3, <1>4, <1>5, <1>6, <1>7, <1>8, <1>9, <1>10 DEF Next

\* A run that has begun does not become one that has not.
LEMMA RunsNeverUnbegin ==
  ASSUME HubType, [Next]_vars, NEW t \in Tasks, run[t] # "none"
  PROVE  run'[t] # "none"
<1>1. WorkerLoses => run'[t] # "none"
  BY DEF WorkerLoses, HubType, TypeOK
<1>2. WorkerStart \/ WorkerDecision \/ WorkerCancel => run'[t] # "none"
  BY DEF WorkerStart, WorkerDecision, WorkerCancel, HubType, TypeOK
<1>3. ASSUME NEW u \in Tasks, Api(u) \/ End(u) PROVE run' = run
  BY <1>3 DEF Api, End, Assign, AssignRefused, MarkRunning, SendStart, Release, RecordRefusal, Cancel,
              EndFlush, EndWrite, FailTask, worker
<1>4. ASSUME NEW c \in Conns, Loop(c) PROVE run'[t] # "none"
  BY <1>1, <1>4 DEF Loop, Disconnect, Hello, Stream, Note, Beat, Ask, TerminalMessage, NotAssigned, Reject,
              FlushRead, FlushWrite, AppendRead, AppendWrite, Register, RegisterFails, Settle, SettleRefused, worker
<1>5. Connect \/ Revoke \/ UNCHANGED vars => run' = run
  BY DEF Connect, Revoke, vars, worker
<1>6. Break => run'[t] # "none"
  BY <1>1 DEF Break
<1>7. ASSUME NEW u \in Tasks, WorkerRuns(u) PROVE run'[t] # "none"
  BY <1>7 DEF WorkerRuns, WorkerProgress, WorkerBeat, WorkerAsk, WorkerEnd, HubType, TypeOK
<1>8. ASSUME NEW u \in Tasks, NEW n \in 1 .. MaxAsks, NEW d \in Decisions,
             Resolve(u, n, d) \/ ResolveFails(u, n, d)
      PROVE  run' = run
  BY <1>8 DEF Resolve, ResolveFails, worker
<1> QED
  BY <1>2, <1>3, <1>4, <1>5, <1>6, <1>7, <1>8 DEF Next

\* Starts stay unique, and a run begins with one.
LEMMA StartsStayOnce ==
  ASSUME HubType, HubType', SlotsHaveConnection, StartsComeOnce, [Next]_vars
  PROVE  StartsComeOnce'
<1>1. ASSUME NEW t \in Tasks, call[t] = "done" PROVE call'[t] = "done"
  BY <1>1, WritersOfCall DEF Assign, AssignRefused, MarkRunning, SendStart, Release, RecordRefusal
<1>2. ASSUME NEW t \in Tasks, SendStart(t)
      PROVE  /\ run' = run /\ run[t] = "none"
             /\ \A c \in Conns : \A i \in DOMAIN outbox'[c] : IsStart(c, i, t)' =>
                  c = conn /\ i = Len(outbox[conn]) + 1 /\ call'[t] = "done"
  <2>1. run' = run /\ run[t] = "none" /\ \A c \in Conns : \A i \in DOMAIN outbox[c] : ~IsStart(c, i, t)
    BY <1>2 DEF SendStart, StartsComeOnce, worker
  <2>2. CASE conn = 0
    BY <1>2, <2>1, <2>2 DEF SendStart, IsStart
  <2>3. CASE conn # 0
    <3>1. [type |-> "start", task |-> t] \in DownMsgs
      BY DEF DownMsgs, CommandMsgs
    <3>2. \A c \in Conns : \A i \in DOMAIN outbox'[c] :
              \/ i \in DOMAIN outbox[c] /\ outbox'[c][i] = outbox[c][i]
              \/ c = conn /\ i = Len(outbox[conn]) + 1
      BY <1>2, <2>3, <3>1, PushTypes DEF SendStart
    <3>3. call'[t] = "done"
      BY <1>2, <2>3 DEF SendStart, Goto, HubType, TypeOK
    <3> QED
      BY <2>1, <3>2, <3>3 DEF IsStart
  <2> QED
    BY <2>2, <2>3
<1>3. ASSUME NEW t \in Tasks, ~SendStart(t), NEW c \in Conns, NEW i \in DOMAIN outbox'[c], IsStart(c, i, t)'
      PROVE  \E j \in DOMAIN outbox[c] : IsStart(c, j, t)
  BY <1>3, StartPlaces
<1>4. ASSUME NEW t \in Tasks, NEW c \in Conns, NEW i \in DOMAIN outbox'[c], IsStart(c, i, t)'
      PROVE  run[t] = "none"
  BY <1>2, <1>3, <1>4 DEF StartsComeOnce
<1>5. ASSUME NEW t \in Tasks, NEW c \in Conns, NEW i \in DOMAIN outbox'[c], IsStart(c, i, t)',
             NEW d \in Conns, NEW j \in DOMAIN outbox'[d], IsStart(d, j, t)'
      PROVE  c = d /\ i = j
  <2>1. CASE SendStart(t)
    BY <1>2, <1>5, <2>1
  <2>2. CASE ~SendStart(t)
    <3>1. c = d
      BY <1>3, <1>5, <2>2 DEF StartsComeOnce
    <3>2. PICK k \in {0, 1} : \A x \in DOMAIN outbox'[c] : IsStart(c, x, t)' =>
                 x + k \in DOMAIN outbox[c] /\ IsStart(c, x + k, t)
      BY <2>2, StartPlaces
    <3>3. i + k = j + k
      BY <1>5, <3>1, <3>2 DEF StartsComeOnce
    <3>4. i \in Nat /\ j \in Nat
      BY <3>1 DEF HubType
    <3> QED
      BY <3>1, <3>3, <3>4
  <2> QED
    BY <2>1, <2>2
<1>6. ASSUME NEW t \in Tasks, run[t] = "none", run'[t] # "none"
      PROVE  /\ call[t] = "done"
             /\ \A c \in Conns : \A i \in DOMAIN outbox'[c] : ~IsStart(c, i, t)'
  <2>1. /\ WorkerStart /\ wconn \in Conns /\ outbox[wconn] # <<>> /\ 1 \in DOMAIN outbox[wconn]
        /\ IsStart(wconn, 1, t)
    BY <1>6, RunsBegin DEF IsStart
  <2>2. call[t] = "done"
    BY <2>1 DEF StartsComeOnce
  <2>3. outbox[wconn] \in Seq(DownMsgs) /\ outbox'[wconn] = Tail(outbox[wconn])
    BY <2>1 DEF HubType, WorkerStart, Receive
  <2>4. \A i \in DOMAIN Tail(outbox[wconn]) :
          i + 1 \in DOMAIN outbox[wconn] /\ Tail(outbox[wconn])[i] = outbox[wconn][i + 1] /\ i \in Nat /\ i >= 1
    BY <2>1, <2>3, TailOf
  <2>5. ASSUME NEW c \in Conns, c = wconn, NEW i \in DOMAIN outbox'[c], IsStart(c, i, t)' PROVE FALSE
    <3>1. i + 1 \in DOMAIN outbox[c] /\ IsStart(c, i + 1, t) /\ i \in Nat /\ i >= 1
      BY <2>3, <2>4, <2>5 DEF IsStart
    <3>2. i + 1 = 1
      BY <2>1, <2>5, <3>1 DEF StartsComeOnce
    <3> QED
      BY <3>1, <3>2
  <2>6. ASSUME NEW c \in Conns, c # wconn, NEW i \in DOMAIN outbox'[c], IsStart(c, i, t)' PROVE FALSE
    <3>1. outbox'[c] = outbox[c]
      BY <2>1, <2>6 DEF HubType, WorkerStart, Receive
    <3> QED
      BY <2>1, <2>6, <3>1 DEF IsStart, StartsComeOnce
  <2> QED
    BY <2>2, <2>5, <2>6
<1>7. ASSUME NEW t \in Tasks, call'[t] # "done"
      PROVE  run'[t] = "none" /\ \A c \in Conns : \A i \in DOMAIN outbox'[c] : ~IsStart(c, i, t)'
  <2>1. call[t] # "done"
    BY <1>1, <1>7
  <2>2. run[t] = "none" /\ \A c \in Conns : \A i \in DOMAIN outbox[c] : ~IsStart(c, i, t)
    BY <2>1 DEF StartsComeOnce
  <2>3. run'[t] = "none"
    BY <1>6, <2>1, <2>2
  <2> QED
    BY <1>2, <1>3, <1>7, <2>2, <2>3
<1>8. ASSUME NEW t \in Tasks, run'[t] \in Live PROVE wconn' # 0
  <2>1. CASE Connect
    BY <2>1, HubBounds DEF Connect, Conns
  <2>2. CASE ~Connect
    BY <1>8, <2>2, RunsLive, HubBounds DEF StartsComeOnce, Conns
  <2> QED
    BY <2>1, <2>2
<1>9. ASSUME NEW t \in Tasks, NEW c \in Conns, NEW i \in DOMAIN outbox'[c], IsStart(c, i, t)'
      PROVE  run'[t] = "none"
  BY <1>4, <1>6, <1>9
<1> QED
  BY <1>5, <1>7, <1>8, <1>9 DEF StartsComeOnce

\* All that is heard of a Task stays on one connection.
LEMMA HeardStaysOnOne ==
  ASSUME HubType, HubType', StartsComeOnce, HeardOnOne, [Next]_vars
  PROVE  HeardOnOne'
<1> SUFFICES ASSUME NEW t \in Tasks
             PROVE  /\ run'[t] = "none" => \A c \in Conns : ~About(c, t)'
                    /\ run'[t] \in Live => \A c \in Conns : About(c, t)' => c = wconn'
                    /\ \A c, d \in Conns : About(c, t)' /\ About(d, t)' => c = d
  BY DEF HeardOnOne
<1>1. ASSUME NEW c \in Conns, About(c, t)'
      PROVE  About(c, t) \/ (run[t] \in Live /\ c = wconn)
  BY <1>1, HeardFromRuns DEF Live
<1>2. ASSUME NEW c \in Conns, About(c, t)' PROVE run[t] # "none"
  BY <1>1, <1>2 DEF HeardOnOne, Live
<1>3. run'[t] = "none" => \A c \in Conns : ~About(c, t)'
  BY <1>2, RunsNeverUnbegin
<1>4. ASSUME run'[t] \in Live, NEW c \in Conns, About(c, t)' PROVE c = wconn'
  <2>1. ~Connect \/ run[t] \notin Live
    BY DEF Connect, StartsComeOnce
  <2>2. CASE wconn' = wconn /\ run[t] \in Live
    BY <1>1, <1>4, <2>2 DEF HeardOnOne
  <2>3. CASE /\ wconn' = wconn /\ WorkerStart /\ wconn \in Conns /\ 1 \in DOMAIN outbox[wconn]
             /\ IsStart(wconn, 1, t)
    BY <1>2, <1>4, <2>3 DEF StartsComeOnce
  <2> QED
    BY <1>4, <2>1, <2>2, <2>3, RunsLive
<1>5. \A c, d \in Conns : About(c, t)' /\ About(d, t)' => c = d
  BY <1>1 DEF HeardOnOne
<1> QED
  BY <1>3, <1>4, <1>5

\* An approval is asked for by a run.
LEMMA AskersGrow ==
  ASSUME HubType, [Next]_vars
  PROVE  \/ asker' = asker
         \/ \E t \in Tasks : WorkerAsk(t)
<1>1. ASSUME NEW u \in Tasks, Api(u) \/ End(u) PROVE asker' = asker
  BY <1>1 DEF Api, End, Assign, AssignRefused, MarkRunning, SendStart, Release, RecordRefusal, Cancel,
              EndFlush, EndWrite, FailTask, worker
<1>2. ASSUME NEW c \in Conns, Loop(c) PROVE asker' = asker
  BY <1>2 DEF Loop, Disconnect, Hello, Stream, Note, Beat, Ask, TerminalMessage, NotAssigned, Reject,
              FlushRead, FlushWrite, AppendRead, AppendWrite, Register, RegisterFails, Settle, SettleRefused, worker
<1>3. Revoke \/ Connect \/ Break \/ WorkerStart \/ WorkerCancel \/ WorkerDecision \/ UNCHANGED vars => asker' = asker
  BY DEF Revoke, Connect, Break, WorkerStart, WorkerCancel, WorkerDecision, vars, worker
<1>4. ASSUME NEW u \in Tasks, WorkerRuns(u) PROVE asker' = asker \/ WorkerAsk(u)
  BY <1>4 DEF WorkerRuns, WorkerProgress, WorkerBeat, WorkerEnd
<1>5. ASSUME NEW u \in Tasks, NEW n \in 1 .. MaxAsks, NEW d \in Decisions,
             Resolve(u, n, d) \/ ResolveFails(u, n, d)
      PROVE  asker' = asker
  BY <1>5 DEF Resolve, ResolveFails, worker
<1> QED
  BY <1>1, <1>2, <1>3, <1>4, <1>5 DEF Next

\* A request keeps the name of its Task.
LEMMA AsksKeepTheirTask ==
  ASSUME HubType, HubType', AsksAreNew, AsksNameTheirTask, [Next]_vars
  PROVE  AsksNameTheirTask'
<1>1. \A n \in DOMAIN asker : n \in DOMAIN asker' /\ asker'[n] = asker[n]
  <2>1. CASE asker' = asker
    BY <2>1
  <2>2. ASSUME NEW t \in Tasks, WorkerAsk(t) PROVE \A n \in DOMAIN asker : n \in DOMAIN asker' /\ asker'[n] = asker[n]
    BY <2>2 DEF WorkerAsk, HubType
  <2> QED
    BY <2>1, <2>2, AskersGrow
<1>2. ASSUME NEW t \in Tasks, WorkerAsk(t)
      PROVE  /\ Len(asker) + 1 \in DOMAIN asker' /\ asker'[Len(asker) + 1] = t /\ run'[t] # "none"
             /\ \A n \in DOMAIN asker' : n \in DOMAIN asker \/ n = Len(asker) + 1
  <2>1. asker \in Seq(Tasks) /\ asker' = Append(asker, t)
    BY <1>2 DEF WorkerAsk, HubType
  <2>2. run'[t] = "asking"
    BY <1>2 DEF WorkerAsk, HubType, TypeOK
  <2> QED
    BY <2>1, <2>2
<1>3. \A n \in DOMAIN asker' : run'[asker'[n]] # "none"
  <2> SUFFICES ASSUME NEW n \in DOMAIN asker' PROVE run'[asker'[n]] # "none"
    OBVIOUS
  <2>1. CASE n \in DOMAIN asker
    <3>1. run[asker[n]] # "none" /\ asker[n] \in Tasks
      BY <2>1 DEF AsksNameTheirTask, HubType
    <3> QED
      BY <1>1, <2>1, <3>1, RunsNeverUnbegin
  <2>2. CASE n \notin DOMAIN asker
    BY <1>2, <2>2, AskersGrow
  <2> QED
    BY <2>1, <2>2
<1>4. ASSUME NEW c \in Conns, NEW i \in DOMAIN inbox[c], inbox[c][i].type = "ask"
      PROVE  inbox[c][i].ask \in DOMAIN asker /\ asker[inbox[c][i].ask] = inbox[c][i].task
  <2>1. inbox[c][i].ask \in 1 .. MaxAsks
    BY <1>4, UpKinds DEF HubType
  <2>2. inbox[c][i].ask <= Len(asker)
    BY <1>4 DEF AsksAreNew, IsAsk, NewAsk
  <2> QED
    BY <1>4, <2>1, <2>2 DEF AsksNameTheirTask, IsAsk, HubType
<1>5. ASSUME NEW c \in Conns, Asking(c)
      PROVE  handler[c].msg.ask \in DOMAIN asker /\ asker[handler[c].msg.ask] = handler[c].msg.task
  <2>1. handler[c].msg.ask \in 1 .. MaxAsks
    BY <1>5, BusyKinds DEF Asking, Busy
  <2>2. handler[c].msg.ask <= Len(asker)
    BY <1>5 DEF AsksAreNew, NewAsk
  <2> QED
    BY <1>5, <2>1, <2>2 DEF AsksNameTheirTask, HubType
<1>6. ASSUME NEW c \in Conns, NEW i \in DOMAIN inbox'[c], inbox'[c][i].type = "ask"
      PROVE  asker'[inbox'[c][i].ask] = inbox'[c][i].task
  <2>1. CASE \E j \in DOMAIN inbox[c] : inbox'[c][i] = inbox[c][j]
    BY <1>1, <1>4, <1>6, <2>1
  <2>2. CASE ~ \E j \in DOMAIN inbox[c] : inbox'[c][i] = inbox[c][j]
    <3>1. PICK t \in Tasks : WorkerAsk(t) /\ inbox'[c][i].ask = Len(asker) + 1 /\ inbox'[c][i].task = t
      BY <1>6, <2>2, InboxGrows
    <3> QED
      BY <1>2, <3>1
  <2> QED
    BY <2>1, <2>2
<1>7. ASSUME NEW c \in Conns, Asking(c)' PROVE asker'[handler'[c].msg.ask] = handler'[c].msg.task
  <2>1. CASE handler'[c] = handler[c]
    <3>1. Asking(c)
      BY <1>7, <2>1 DEF Asking
    <3> QED
      BY <1>1, <1>5, <2>1, <3>1
  <2>2. CASE handler'[c] # handler[c]
    <3>1. handler'[c].msg = Head(inbox[c]) /\ inbox[c] # <<>> /\ Take(c) /\ Head(inbox[c]).type = "ask"
      <4>1. ~FlushRead(c) /\ ~FlushWrite(c) /\ ~AppendRead(c)
        BY <1>7 DEF FlushRead, FlushWrite, AppendRead, Asking, HubType, Handlers
      <4>2. Ask(c)
        <5>1. Note(c) \/ TerminalMessage(c) => \E at \in {"flush", "append", "settle"} : Handle(c, at)
          BY <2>2 DEF Note, TerminalMessage, TakeBuffer
        <5>2. ASSUME NEW at \in {"flush", "append", "settle"}, Handle(c, at) PROVE FALSE
          BY <1>7, <5>2 DEF Handle, Asking, HubType
        <5> QED
          BY <1>7, <2>2, <4>1, <5>1, <5>2, HandlersGoOn DEF Asking
      <4> QED
        BY <4>2 DEF Ask, Takes, Handle, HubType
    <3>2. Head(inbox[c]) = inbox[c][1] /\ 1 \in DOMAIN inbox[c]
      BY <3>1, TakeTypes
    <3> QED
      BY <1>1, <1>4, <3>1, <3>2
  <2> QED
    BY <2>1, <2>2
<1> QED
  BY <1>3, <1>6, <1>7 DEF AsksNameTheirTask, IsAsk

\* The hub asks nothing for a Task it is ending.
LEMMA EndsStillAskNothing ==
  ASSUME HubType, HubType', SlotsHaveConnection, SlotsAreLive, EndsAskNothing, [Next]_vars
  PROVE  EndsAskNothing'
<1> SUFFICES ASSUME NEW t \in Tasks, ending'[t] \in {"flush", "write", "interrupted"},
                    NEW c \in Conns, AskingFor(c, t)'
             PROVE  FALSE
  BY DEF EndsAskNothing
<1>1. CASE ending'[t] # ending[t] /\ ~EndFlush(t) /\ ~EndWrite(t)
  <2>1. t \in assigned /\ assigned' = {} /\ ending'[t] = "flush"
    <3>1. FailTask(t) => ending'[t] = "none"
      BY DEF FailTask, HubType, TypeOK
    <3> QED
      BY <1>1, <3>1, WritersOfEnding
  <2>2. PICK d \in Conns : LeaveHub(d) /\ conn = d
    <3>1. ASSUME NEW u \in Tasks, Api(u) \/ End(u) PROVE FALSE
      BY <1>1, <3>1, <2>1 DEF Api, End, Assign, AssignRefused, MarkRunning, SendStart, Release, RecordRefusal,
                              Cancel, EndFlush, EndWrite, FailTask, HubType, TypeOK, hub
    <3>2. ASSUME NEW d \in Conns, Loop(d) PROVE LeaveHub(d) /\ conn = d
      BY <1>1, <3>2 DEF Loop, Disconnect, Hello, Stream, Note, Beat, Ask, TerminalMessage, NotAssigned, Reject, LeaveHub,
                  FlushRead, FlushWrite, AppendRead, AppendWrite, Register, RegisterFails, Settle,
                  SettleRefused, hub
    <3>3. ~Revoke /\ ~Connect
      BY <2>1 DEF Revoke, Connect, PopSlots, HubType, TypeOK
    <3>4. ~(Break \/ WorkerStart \/ WorkerCancel \/ WorkerDecision \/ UNCHANGED vars)
      BY <1>1 DEF Break, WorkerStart, WorkerCancel, WorkerDecision, vars, hub
    <3>5. ASSUME NEW u \in Tasks PROVE ~WorkerRuns(u)
      BY <1>1 DEF WorkerRuns, WorkerProgress, WorkerBeat, WorkerAsk, WorkerEnd, hub
    <3>6. ASSUME NEW u \in Tasks, NEW n \in 1 .. MaxAsks, NEW d \in Decisions
          PROVE ~(Resolve(u, n, d) \/ ResolveFails(u, n, d))
      BY <1>1 DEF Resolve, ResolveFails, hub
    <3> QED
      BY <3>1, <3>2, <3>3, <3>4, <3>5, <3>6 DEF Next
  <2>3. c # d /\ AskingFor(c, t)
    BY <2>2, LeaveTypes DEF AskingFor, Asking
  <2> QED
    BY <2>1, <2>2, <2>3, SlotsReachSomeone DEF SlotsHaveConnection, About, AskingFor, Asking, Busy
<1>2. CASE ~(ending'[t] # ending[t] /\ ~EndFlush(t) /\ ~EndWrite(t))
  <2>1. ending[t] \in {"flush", "write", "interrupted"}
    BY <1>2 DEF EndFlush, EndWrite
  <2>2. ~AskingFor(c, t)
    BY <2>1 DEF EndsAskNothing
  <2>3. handler'[c] # handler[c]
    BY <2>2 DEF AskingFor, Asking
  <2>4. Ask(c) /\ handler'[c].msg = Head(inbox[c])
    <3>1. ~FlushRead(c) /\ ~FlushWrite(c) /\ ~AppendRead(c)
      BY DEF FlushRead, FlushWrite, AppendRead, AskingFor, Asking, HubType, Handlers
    <3>2. Note(c) \/ TerminalMessage(c) => \E at \in {"flush", "append", "settle"} : Handle(c, at)
      BY <2>3 DEF Note, TerminalMessage, TakeBuffer
    <3>3. ASSUME NEW at \in {"flush", "append", "settle"}, Handle(c, at) PROVE FALSE
      BY <3>3 DEF Handle, AskingFor, Asking, HubType
    <3>4. Ask(c)
      BY <2>3, <3>1, <3>2, <3>3, HandlersGoOn DEF AskingFor, Asking
    <3> QED
      BY <3>4 DEF Ask, Handle, HubType
  <2>5. t \in assigned
    BY <2>4 DEF Ask, AskingFor
  <2> QED
    BY <2>1, <2>5 DEF SlotsAreLive
<1> QED
  BY <1>1, <1>2

\* A pending Approval becomes one when its request is registered.
LEMMA PendingBegins ==
  ASSUME HubType, [Next]_vars, NEW n \in 1 .. MaxAsks, approval[n] # "pending", approval'[n] = "pending", faults' = 0
  PROVE  \E c \in Conns : /\ Register(c) /\ Asking(c) /\ handler[c].msg.ask = n
                          /\ task[handler[c].msg.task].status = "running"
<1>1. ASSUME NEW t \in Tasks, CancelPending(t) PROVE FALSE
  BY <1>1, CancelPendingTypes
<1>2. ASSUME NEW t \in Tasks, Api(t) \/ End(t) PROVE FALSE
  BY <1>1, <1>2 DEF Api, End, Assign, AssignRefused, MarkRunning, SendStart, Release, RecordRefusal, Cancel,
                    EndFlush, EndWrite, FailTask, records
<1>3. ASSUME NEW t \in Tasks, NEW k \in 1 .. MaxAsks, NEW d \in Decisions
      PROVE  ~(Resolve(t, k, d) \/ ResolveFails(t, k, d))
  <2>1. d # "pending"
    BY HubDecisions
  <2> QED
    BY <2>1 DEF Resolve, ResolveFails, HubType, TypeOK
<1>4. ASSUME NEW c \in Conns, Loop(c)
      PROVE  /\ Register(c) /\ Asking(c) /\ handler[c].msg.ask = n
             /\ task[handler[c].msg.task].status = "running"
  <2>1. ~Settle(c)
    <3>1. Settle(c) => handler[c].msg.task \in Tasks
      BY BusyKinds DEF Settle, At, Busy
    <3> QED
      BY <1>1, <3>1 DEF Settle
  <2>2. ~RegisterFails(c)
    <3>1. RegisterFails(c) => faults' = faults + 1 \/ approval' = approval
      BY DEF RegisterFails, Raise
    <3>2. faults + 1 # 0
      BY HubBounds DEF HubType, TypeOK
    <3> QED
      BY <3>1, <3>2
  <2>3. Register(c)
    BY <1>4, <2>1, <2>2 DEF Loop, Disconnect, Hello, Stream, Note, Beat, Ask, TerminalMessage, NotAssigned,
                      FlushRead, FlushWrite, AppendRead, AppendWrite, SettleRefused, records
  <2> QED
    <3>1. ~UNCHANGED records
      BY <1>4 DEF records
    <3>2. task[handler[c].msg.task] = [status |-> "running", pending |-> 0]
      BY <2>3, <3>1 DEF Register
    <3>3. approval' = [approval EXCEPT ![handler[c].msg.ask] = "pending"]
      BY <2>3, <3>1 DEF Register
    <3>4. handler[c].msg.ask = n
      BY <3>3 DEF HubType, TypeOK
    <3>5. Asking(c)
      BY <2>3 DEF Register, At, Asking
    <3> QED
      BY <2>3, <3>2, <3>4, <3>5
<1>5. ASSUME Revoke \/ Connect \/ Break \/ WorkerStart \/ WorkerCancel \/ WorkerDecision \/ UNCHANGED vars
      PROVE  FALSE
  <2>1. approval' = approval
    BY <1>5 DEF Revoke, Connect, Break, WorkerStart, WorkerCancel, WorkerDecision, vars, records
  <2> QED
    BY <2>1
<1>6. ASSUME NEW t \in Tasks PROVE ~WorkerRuns(t)
  BY DEF WorkerRuns, WorkerProgress, WorkerBeat, WorkerAsk, WorkerEnd, records
<1> QED
  BY <1>2, <1>3, <1>4, <1>5, <1>6 DEF Next

\* A repository write that raised is not forgotten.
LEMMA FaultsGrow ==
  ASSUME HubType, [Next]_vars, faults' = 0
  PROVE  faults = 0 /\ ~Raise
<1>1. faults' = faults \/ faults' = faults + 1
  <2>1. ASSUME NEW t \in Tasks, Api(t) \/ End(t) \/ WorkerRuns(t) PROVE faults' = faults \/ Raise
    BY <2>1 DEF history, Api, Assign, AssignRefused, MarkRunning, SendStart, Release, RecordRefusal, Cancel, End,
                EndFlush, EndWrite, FailTask, WorkerRuns, WorkerProgress, WorkerBeat, WorkerAsk, WorkerEnd
  <2>2. ASSUME NEW t \in Tasks, NEW n \in 1 .. MaxAsks, NEW d \in Decisions,
               Resolve(t, n, d) \/ ResolveFails(t, n, d)
        PROVE  faults' = faults \/ Raise
    BY <2>2 DEF history, Resolve, ResolveFails
  <2>3. ASSUME NEW c \in Conns, Loop(c) PROVE faults' = faults \/ Raise
    BY <2>3 DEF history, Loop, Disconnect, Hello, Stream, Note, Beat, Ask, TerminalMessage, NotAssigned, Reject,
                FlushRead, FlushWrite, AppendRead, AppendWrite, Register, RegisterFails, Settle, SettleRefused
  <2>4. ASSUME Revoke \/ Connect \/ Break \/ WorkerStart \/ WorkerCancel \/ WorkerDecision \/ UNCHANGED vars
        PROVE  faults' = faults
    BY <2>4 DEF vars, history, Revoke, Connect, Break, WorkerStart, WorkerCancel, WorkerDecision
  <2>5. Raise => faults' = faults + 1
    BY DEF Raise
  <2> QED
    BY <2>1, <2>2, <2>3, <2>4, <2>5 DEF Next
<1>2. faults \in Nat
  BY HubBounds DEF HubType, TypeOK
<1> QED
  BY <1>1, <1>2 DEF Raise

\* What the Task and its copies say of a pending Approval stays so.
LEMMA CopiesStayShown ==
  ASSUME HubType, HubType', AsksAreNew, StartsComeOnce, HeardOnOne, AsksNameTheirTask, EndsAskNothing,
         CopiesAreShown, [Next]_vars
  PROVE  CopiesAreShown'
<1> SUFFICES ASSUME faults' = 0, NEW t \in Tasks, NEW n \in Pending(t)'
             PROVE  /\ task'[t] = [status |-> "waiting", pending |-> n]
                    /\ \A c \in Conns : CopyOf(c, t)' => handler'[c].copy = [status |-> "waiting", pending |-> n]
                    /\ ending'[t] = "write" => draft'[t] = [status |-> "waiting", pending |-> n]
  BY DEF CopiesAreShown
<1> DEFINE Shown == [status |-> "waiting", pending |-> n]
<1>1. faults = 0 /\ ~Raise
  BY FaultsGrow
<1>2. n \in DOMAIN asker' /\ asker'[n] = t /\ approval'[n] = "pending" /\ n \in 1 .. MaxAsks
  <2>1. n \in DOMAIN asker' /\ asker'[n] = t /\ approval'[n] = "pending"
    BY DEF Pending
  <2>2. asker' \in Seq(Tasks) /\ Len(asker') <= MaxAsks
    BY DEF HubType
  <2> QED
    BY <2>1, <2>2, HubBounds
<1>3. CASE approval[n] = "pending"
  <2>1. n \in DOMAIN asker /\ asker[n] = t
    <3>1. n <= Len(asker)
      BY <1>2, <1>3 DEF AsksAreNew, HubType
    <3>2. n \in DOMAIN asker
      BY <1>2, <3>1 DEF HubType
    <3>3. asker'[n] = asker[n]
      <4>1. ASSUME NEW u \in Tasks, WorkerAsk(u) PROVE asker'[n] = asker[n]
        BY <3>2, <4>1 DEF WorkerAsk, HubType
      <4> QED
        BY <4>1, AskersGrow
    <3> QED
      BY <1>2, <3>2, <3>3
  <2>2. n \in Pending(t)
    BY <1>3, <2>1 DEF Pending
  <2>3. /\ task[t] = Shown
        /\ \A c \in Conns : CopyOf(c, t) => handler[c].copy = Shown
        /\ ending[t] = "write" => draft[t] = Shown
    BY <1>1, <2>2 DEF CopiesAreShown
  <2>4. task[t].status = "waiting" /\ task[t].pending = n
    BY <2>3
  <2>5. call[t] = "done"
    BY <2>1 DEF AsksNameTheirTask, StartsComeOnce
  <2>6. ~CancelPending(t)
    BY <1>2, <2>2 DEF CancelPending
  <2>7. task'[t] = Shown
    <3>1. ~MarkRunning(t) /\ ~RecordRefusal(t)
      BY <2>5 DEF MarkRunning, RecordRefusal
    <3>2. ~Cancel(t) /\ ~FailTask(t)
      BY <2>4, <2>6 DEF Cancel, FailTask, Terminal
    <3>3. EndWrite(t) => task'[t] = Shown
      BY <2>3 DEF EndWrite, HubType, TypeOK
    <3>4. ASSUME NEW m \in 1 .. MaxAsks, NEW d \in Decisions, Resolve(t, m, d) \/ ResolveFails(t, m, d)
          PROVE  FALSE
      <4>1. Resolve(t, m, d) /\ m \in Pending(t)
        BY <1>1, <3>4 DEF Resolve, ResolveFails, Decidable
      <4>2. task[t] = [status |-> "waiting", pending |-> m]
        BY <1>1, <4>1 DEF CopiesAreShown
      <4>3. m = n
        BY <2>4, <4>2
      <4>4. approval'[n] = d
        BY <4>1, <4>3 DEF Resolve, HubType, TypeOK
      <4> QED
        BY <1>2, <4>4, HubDecisions
    <3>5. ASSUME NEW c \in Conns, handler[c].at \in Busy, handler[c].msg.task = t,
                 FlushWrite(c) \/ AppendWrite(c) \/ Register(c) \/ Settle(c)
          PROVE  task'[t] = Shown
      <4>1. CASE FlushWrite(c) \/ AppendWrite(c)
        BY <2>3, <3>5, <4>1 DEF FlushWrite, AppendWrite, CopyOf, HubType, TypeOK
      <4>2. CASE Register(c)
        BY <2>3, <2>4, <3>5, <4>2 DEF Register, records
      <4>3. ~Settle(c)
        BY <2>6, <3>5 DEF Settle
      <4> QED
        BY <3>5, <4>1, <4>2, <4>3
    <3>6. CASE task'[t] = task[t]
      BY <2>3, <3>6
    <3> QED
      BY <3>1, <3>2, <3>3, <3>4, <3>5, <3>6, WritersOfTask DEF TaskWriters
  <2>8. \A c \in Conns : CopyOf(c, t)' => handler'[c].copy = Shown
    BY <2>3, CopiesAreRead
  <2>9. ending'[t] = "write" => draft'[t] = Shown
    BY <2>3, DraftsAreRead
  <2> QED
    BY <2>7, <2>8, <2>9
<1>4. CASE approval[n] # "pending"
  <2>1. PICK c \in Conns : /\ Register(c) /\ Asking(c) /\ handler[c].msg.ask = n
                           /\ task[handler[c].msg.task].status = "running"
    BY <1>2, <1>4, PendingBegins
  <2>2. handler[c].msg.task = t
    <3>1. asker' = asker
      BY <2>1 DEF Register, worker
    <3> QED
      BY <1>2, <2>1, <3>1 DEF AsksNameTheirTask
  <2>3. task'[t] = Shown
    BY <2>1, <2>2 DEF Register, Write, HubType, TypeOK
  <2>4. AskingFor(c, t) /\ About(c, t)
    BY <2>1, <2>2 DEF AskingFor, About, Asking, Busy
  <2>5. ASSUME NEW d \in Conns, CopyOf(d, t)' PROVE FALSE
    <3>1. handler' = [handler EXCEPT ![c] = Idle]
      BY <2>1 DEF Register
    <3>2. d # c
      BY <2>5, <3>1, IdleTypes DEF CopyOf, HubType
    <3>3. CopyOf(d, t)
      BY <2>5, <3>1, <3>2 DEF CopyOf, HubType
    <3> QED
      BY <2>4, <3>2, <3>3 DEF HeardOnOne, About, CopyOf, Busy
  <2>6. ending'[t] # "write"
    <3>1. ending' = ending
      BY <2>1 DEF Register
    <3> QED
      BY <2>4, <3>1 DEF EndsAskNothing
  <2> QED
    BY <2>3, <2>5, <2>6
<1> QED
  BY <1>3, <1>4

\* While no repository write has raised, a pending Approval is the one its Task is
\* waiting for: no flush, append or ending that read the Task before the request was
\* registered writes it back, because all that is heard of a Task comes on one connection.
THEOREM QuestionsAreAlwaysShown == Spec => []QuestionsAreShown
<1>1. Init => ShownInv
  <2> SUFFICES ASSUME Init PROVE ShownInv
    OBVIOUS
  <2>1. HubInv
    BY HubInvAtFirst
  <2>2. /\ \A c \in Conns : DOMAIN inbox[c] = {} /\ DOMAIN outbox[c] = {} /\ handler[c].at = "idle"
        /\ DOMAIN asker = {}
    <3>1. DOMAIN <<>> = {}
      OBVIOUS
    <3> QED
      BY <3>1 DEF Init, Idle
  <2>3. \A c \in Conns, t \in Tasks : ~About(c, t)
    BY <2>2 DEF About, Busy
  <2>4. StartsComeOnce
    BY <2>2 DEF StartsComeOnce, Init, Live
  <2>5. HeardOnOne /\ AsksNameTheirTask /\ EndsAskNothing /\ CopiesAreShown
    BY <2>2, <2>3 DEF HeardOnOne, AsksNameTheirTask, EndsAskNothing, CopiesAreShown, Init, Pending, IsAsk, Asking,
                      AskingFor
  <2> QED
    BY <2>4, <2>5 DEF ShownInv
<1>2. HubInv /\ HubInv' /\ ShownInv /\ [Next]_vars => ShownInv'
  BY StartsStayOnce, HeardStaysOnOne, AsksKeepTheirTask, EndsStillAskNothing, CopiesStayShown DEF HubInv, ShownInv
<1>3. HubInv /\ ShownInv => QuestionsAreShown
  BY DEF ShownInv, CopiesAreShown, QuestionsAreShown
<1> QED
  BY <1>1, <1>2, <1>3, HubInvariant, PTL DEF Spec
=============================================================================
