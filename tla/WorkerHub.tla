------------------------------- MODULE WorkerHub -------------------------------
(***************************************************************************)
(* The control plane of one local Worker: WorkerHub of the API server, the *)
(* API threads that create Tasks on the device, cancel them, decide their  *)
(* approvals and revoke the device, the event loop that serves the         *)
(* Worker's WebSockets, and the Worker process at the other end.           *)
(*                                                                         *)
(* What the hub does under its lock is one action.  What it does outside   *)
(* the lock is one action per repository call, and a repository update     *)
(* outside the lock is a read and a later write of the whole Task record   *)
(* (SqliteTaskRepository.update takes no lock between the two).  Handlers  *)
(* of one connection run one after another and give way at every await.    *)
(***************************************************************************)
EXTENDS Naturals, Sequences, FiniteSets

CONSTANTS Tasks,      \* Tasks created for the device
          Decisions,  \* what a user may decide: the hub treats them alike
          MaxConns,   \* WebSocket connections the Worker may open
          MaxAsks,    \* approvals the runs may ask for
          MaxEvents,  \* progress events the runs may send
          Limit,      \* worker_max_concurrent_tasks
          OutboxMax,  \* messages a connection's outbox holds
          MaxCancels, \* cancellations the hub may accept
          MaxFaults   \* repository writes that may raise

ASSUME HubBounds == {MaxConns, MaxAsks, MaxEvents, MaxCancels, MaxFaults} \subseteq Nat
ASSUME HubLimits == Limit \in Nat \ {0} /\ OutboxMax \in Nat \ {0}
ASSUME HubDecisions == Decisions \cap {"none", "pending", "cancelled"} = {}

Conns    == 1 .. MaxConns
Terminal == {"completed", "cancelled", "failed", "interrupted"}
Status   == {"queued", "running", "waiting", "cancel_requested"} \cup Terminal

VARIABLES task,     \* the Task records: status and pending approval (0: none)
          approval, \* status of each Approval record ("none": not created)
          conn,     \* the device's current connection (0: offline)
          ready,    \* connections whose hello was handled
          opened,   \* connections opened so far
          assigned, \* the device's active Tasks, its concurrency slots
          buffer,   \* Tasks with stream events not yet persisted
          ending,   \* how far each Task taken from a lost connection is ended
          draft,    \* the Task record a flush of such a Task has read
          handler,  \* what the receive loop of each connection is doing
          call,     \* where create_task of each Task is
          inbox,    \* messages from the Worker, per connection
          outbox,   \* messages to the Worker, per connection
          full,     \* connections whose outbox overflowed
          revoked,  \* the device was revoked
          wconn,    \* the connection the Worker holds open (0: none)
          rejected, \* the Worker gave up: its connection was refused for good
          run,      \* each Task's run in the Worker
          token,    \* runs whose CancellationToken is set
          asker,    \* the Task of each approval asked for, in the order of asking
          sent,     \* progress events and heartbeats the runs have sent
          acted,    \* decisions the runs have acted on
          cancels,  \* cancellations the hub has accepted
          faults    \* repository writes that have raised

records == <<task, approval>>
hub     == <<conn, ready, opened, assigned, buffer, ending, draft, handler, full, revoked>>
wire    == <<inbox, outbox>>
worker  == <<wconn, rejected, run, token, asker, sent, acted>>
history == <<cancels, faults>>
vars    == <<records, hub, call, wire, worker, history>>

New     == [status |-> "queued", pending |-> 0]
Records == [status : Status, pending : 0 .. MaxAsks]
NoMsg   == [type |-> "none"]
Idle    == [at |-> "idle", msg |-> NoMsg, copy |-> New]
Pending(t) == {n \in DOMAIN asker : asker[n] = t /\ approval[n] = "pending"}

Init ==
  /\ task = [t \in Tasks |-> New]
  /\ approval = [n \in 1 .. MaxAsks |-> "none"]
  /\ conn = 0 /\ ready = {} /\ opened = 0 /\ assigned = {} /\ buffer = {}
  /\ ending = [t \in Tasks |-> "none"] /\ draft = [t \in Tasks |-> New]
  /\ handler = [c \in Conns |-> Idle]
  /\ call = [t \in Tasks |-> "idle"]
  /\ inbox = [c \in Conns |-> <<>>] /\ outbox = [c \in Conns |-> <<>>]
  /\ full = {} /\ revoked = FALSE
  /\ wconn = 0 /\ rejected = FALSE
  /\ run = [t \in Tasks |-> "none"] /\ token = {}
  /\ asker = <<>> /\ sent = 0 /\ acted = {}
  /\ cancels = 0 /\ faults = 0

-----------------------------------------------------------------------------
(* Helpers of the hub.                                                     *)

Raise == faults < MaxFaults /\ faults' = faults + 1
Goto(t, p) == call' = [call EXCEPT ![t] = p]
Write(t, status, pending) == task' = [task EXCEPT ![t] = [status |-> status, pending |-> pending]]

\* Mutant: the outbox is not bounded.
PushUnbounded(m) == outbox' = [outbox EXCEPT ![conn] = Append(@, m)] /\ UNCHANGED full

\* _send to the device's current connection: a full outbox loses the message and
\* closes the connection (4002).
Push(m) ==
  IF Len(outbox[conn]) < OutboxMax
  THEN outbox' = [outbox EXCEPT ![conn] = Append(@, m)] /\ UNCHANGED full
  ELSE full' = full \cup {conn} /\ UNCHANGED outbox

CancelPending(t) ==
  approval' = [n \in 1 .. MaxAsks |-> IF n \in Pending(t) THEN "cancelled" ELSE approval[n]]

\* Mutant: a lost connection keeps its slots.
PopSlotsKept(how) == UNCHANGED <<assigned, ending>>

\* The device's active Tasks lose their slots; each is then ended as how says.
PopSlots(how) ==
  /\ assigned' = {}
  /\ ending' = [t \in Tasks |-> IF t \in assigned THEN how ELSE ending[t]]

\* connect() runs on the event loop without an await until its Tasks are failed.
LoopFree == \A t \in Tasks : ending[t] # "replaced"

-----------------------------------------------------------------------------
(* TaskService.create_task and WorkerHub.dispatch, on an API thread.       *)

\* Under the lock: online, below the limit, and a slot is taken.
Assign(t) ==
  /\ call[t] = "idle" /\ conn \in ready /\ Cardinality(assigned) < Limit
  /\ assigned' = assigned \cup {t} /\ Goto(t, "assigned")
  /\ UNCHANGED <<records, conn, ready, opened, buffer, ending, draft, handler, full, revoked,
                 wire, worker, history>>

\* The device was online when create_task looked, and is no longer, or it is busy.
AssignRefused(t) ==
  /\ call[t] = "idle" /\ ready # {} /\ ~(conn \in ready /\ Cardinality(assigned) < Limit)
  /\ Goto(t, "refused")
  /\ UNCHANGED <<records, hub, wire, worker, history>>

\* Outside the lock, whatever the Task has become; a pending approval there is none.
MarkRunning(t) ==
  /\ call[t] = "assigned"
  /\ \/ Write(t, "running", 0) /\ Goto(t, "send") /\ UNCHANGED faults
     \/ Raise /\ Goto(t, "release")
        /\ (UNCHANGED task \/ Write(t, "running", 0))
  /\ UNCHANGED <<approval, hub, wire, worker, cancels>>

\* task.start goes to the connection the device has now.
SendStart(t) ==
  /\ call[t] = "send"
  /\ IF conn # 0
     THEN Push([type |-> "start", task |-> t]) /\ Goto(t, "done")
     ELSE Goto(t, "release") /\ UNCHANGED <<outbox, full>>
  /\ UNCHANGED <<records, conn, ready, opened, assigned, buffer, ending, draft, handler, revoked,
                 inbox, worker, history>>

\* Mutant: a failed dispatch keeps its slot.
ReleaseSkipped(t) ==
  /\ call[t] = "release" /\ Goto(t, "refused")
  /\ UNCHANGED <<records, hub, wire, worker, history>>

Release(t) ==
  /\ call[t] = "release"
  /\ assigned' = assigned \ {t} /\ Goto(t, "refused")
  /\ UNCHANGED <<records, conn, ready, opened, buffer, ending, draft, handler, full, revoked,
                 wire, worker, history>>

\* create_task records worker_unavailable, whatever the Task has become.
RecordRefusal(t) ==
  /\ call[t] = "refused"
  /\ Write(t, "failed", 0) /\ Goto(t, "done")
  /\ UNCHANGED <<approval, hub, wire, worker, history>>

-----------------------------------------------------------------------------
(* WorkerHub.cancel, resolve_approval and revoke, on API threads.          *)

\* A Task without a slot is not cancelled at all.
Cancel(t) ==
  /\ t \in assigned /\ cancels < MaxCancels
  /\ IF task[t].status \in Terminal THEN UNCHANGED records
     ELSE Write(t, "cancel_requested", 0) /\ CancelPending(t)
  /\ Push([type |-> "cancel", task |-> t])
  /\ cancels' = cancels + 1
  /\ UNCHANGED <<conn, ready, opened, assigned, buffer, ending, draft, handler, revoked, call,
                 inbox, worker, faults>>

\* A pending approval whose expires_at has passed is refused and stays pending: a
\* Resolve that is not taken.
Decidable(t, n) ==
  /\ n \in Pending(t) /\ task[t].status = "waiting"
  /\ t \in assigned /\ conn \in ready

\* Mutant: an approval that is no longer pending can be decided.
ResolveAgain(t, n, d) ==
  /\ n \in DOMAIN asker /\ asker[n] = t /\ approval[n] # "none" /\ t \in assigned /\ conn \in ready
  /\ approval' = [approval EXCEPT ![n] = d]
  /\ Write(t, "running", 0)
  /\ Push([type |-> "decision", task |-> t, ask |-> n, decision |-> d])
  /\ UNCHANGED <<conn, ready, opened, assigned, buffer, ending, draft, handler, revoked, call,
                 inbox, worker, history>>

Resolve(t, n, d) ==
  /\ Decidable(t, n)
  /\ approval' = [approval EXCEPT ![n] = d]
  /\ Write(t, "running", 0)
  /\ Push([type |-> "decision", task |-> t, ask |-> n, decision |-> d])
  /\ UNCHANGED <<conn, ready, opened, assigned, buffer, ending, draft, handler, revoked, call,
                 inbox, worker, history>>

\* A write of the decision raised: the Approval is restored (the restoring write is
\* taken to succeed), the Task is not, and its record may have been written.
ResolveFails(t, n, d) ==
  /\ Decidable(t, n) /\ Raise
  /\ UNCHANGED task \/ Write(t, "running", 0)
  /\ UNCHANGED <<approval, hub, call, wire, worker, cancels>>

\* revoke: the device goes offline and its token stops being accepted.
Revoke ==
  /\ ~revoked /\ revoked' = TRUE /\ conn' = 0 /\ PopSlots("revoked")
  /\ UNCHANGED <<records, ready, opened, buffer, draft, handler, full, call, wire, worker, history>>

-----------------------------------------------------------------------------
(* Connections.                                                            *)

\* connect: the new connection replaces one whose end the server has not seen.
Connect ==
  LET c == opened + 1 IN
  /\ wconn = 0 /\ ~rejected /\ ~revoked /\ c \in Conns /\ LoopFree
  /\ opened' = c /\ conn' = c /\ wconn' = c
  /\ inbox' = [inbox EXCEPT ![c] = <<[type |-> "hello"]>>]
  /\ PopSlots("replaced")
  /\ UNCHANGED <<records, ready, buffer, draft, handler, full, revoked, call, outbox,
                 rejected, run, token, asker, sent, acted, history>>

\* The Worker loses its socket: its runs are cancelled and joined, their messages
\* no longer leave it.
WorkerLoses ==
  /\ wconn' = 0
  /\ run' = [t \in Tasks |-> IF run[t] = "none" THEN "none" ELSE "ended"]
  /\ token' = {}
  /\ outbox' = [outbox EXCEPT ![wconn] = <<>>]

Break ==
  /\ wconn # 0 /\ WorkerLoses
  /\ UNCHANGED <<records, hub, call, inbox, rejected, asker, sent, acted, history>>

\* disconnect: only the current connection takes the device's slots with it.
LeaveHub(c) ==
  /\ handler' = [handler EXCEPT ![c] = [Idle EXCEPT !.at = "closed"]]
  /\ inbox' = [inbox EXCEPT ![c] = <<>>]
  /\ outbox' = [outbox EXCEPT ![c] = <<>>] /\ full' = full \ {c}
  /\ IF conn = c THEN conn' = 0 /\ PopSlots("flush") ELSE UNCHANGED <<conn, assigned, ending>>

\* The receive loop sees the end of a socket, with or without the last messages.
Disconnect(c) ==
  /\ c <= opened /\ c # wconn /\ handler[c].at = "idle" /\ LoopFree
  /\ LeaveHub(c)
  /\ UNCHANGED <<records, ready, opened, buffer, draft, revoked, call, worker, history>>

\* A handler raised: protocol.error, close 4400, disconnect.  The Worker, if it is
\* still there, does not come back.
Reject(c) ==
  /\ LeaveHub(c)
  /\ IF wconn = c THEN WorkerLoses /\ rejected' = TRUE
     ELSE UNCHANGED <<wconn, run, token, rejected>>
  /\ UNCHANGED <<ready, opened, buffer, draft, revoked, call, asker, sent, acted>>

\* A Task of a lost connection: flush its stream events, then _fail_task.
EndFlush(t) ==
  /\ ending[t] = "flush" /\ LoopFree
  /\ buffer' = buffer \ {t}
  /\ draft' = [draft EXCEPT ![t] = IF t \in buffer THEN task[t] ELSE @]
  /\ ending' = [ending EXCEPT ![t] = IF t \in buffer THEN "write" ELSE "interrupted"]
  /\ UNCHANGED <<records, conn, ready, opened, assigned, handler, full, revoked, call, wire,
                 worker, history>>

EndWrite(t) ==
  /\ ending[t] = "write"
  /\ task' = [task EXCEPT ![t] = draft[t]]
  /\ draft' = [draft EXCEPT ![t] = New]
  /\ ending' = [ending EXCEPT ![t] = "interrupted"]
  /\ UNCHANGED <<approval, conn, ready, opened, assigned, buffer, handler, full, revoked, call,
                 wire, worker, history>>

\* Mutant: the open questions of a failed Task stay open.
FailTaskOnly(t) ==
  /\ ending[t] \in {"interrupted", "replaced", "revoked"}
  /\ IF task[t].status \in Terminal THEN UNCHANGED task ELSE Write(t, "failed", 0)
  /\ ending' = [ending EXCEPT ![t] = "none"]
  /\ UNCHANGED <<approval, conn, ready, opened, assigned, buffer, draft, handler, full, revoked,
                 call, wire, worker, history>>

FailTask(t) ==
  /\ ending[t] \in {"interrupted", "replaced", "revoked"}
  /\ ending[t] = "interrupted" => LoopFree
  /\ IF task[t].status \in Terminal THEN UNCHANGED records
     ELSE /\ Write(t, IF ending[t] = "interrupted" THEN "interrupted" ELSE "failed", 0)
          /\ CancelPending(t)
  /\ ending' = [ending EXCEPT ![t] = "none"]
  /\ UNCHANGED <<conn, ready, opened, assigned, buffer, draft, handler, full, revoked, call, wire,
                 worker, history>>

-----------------------------------------------------------------------------
(* WorkerHub.handle: the receive loop of one connection.                   *)

\* The loop of connection c takes a message of one of the given types.
Takes(c, types) ==
  /\ LoopFree /\ handler[c].at = "idle"
  /\ inbox[c] # <<>> /\ Head(inbox[c]).type \in types
Take(c) == inbox' = [inbox EXCEPT ![c] = Tail(@)]
Handle(c, at) == handler' = [handler EXCEPT ![c] = [at |-> at, msg |-> Head(inbox[c]), copy |-> New]]

Hello(c) ==
  /\ Takes(c, {"hello"}) /\ Take(c)
  /\ ready' = ready \cup {c}
  /\ UNCHANGED <<records, conn, opened, assigned, buffer, ending, draft, handler, full, revoked,
                 call, outbox, worker, history>>

\* A stream event (thinking, commentary) is published and kept for a later write;
\* one of a Task being cancelled is dropped.
Stream(c) ==
  /\ Takes(c, {"stream"}) /\ Head(inbox[c]).task \in assigned /\ Take(c)
  /\ buffer' = IF task[Head(inbox[c]).task].status = "cancel_requested" THEN buffer
               ELSE buffer \cup {Head(inbox[c]).task}
  /\ UNCHANGED <<records, conn, ready, opened, assigned, ending, draft, handler, full, revoked,
                 call, outbox, worker, history>>

\* _flush_stream_events takes the events kept for t, then the record is read and
\* written; without any, the handler goes on at once.
TakeBuffer(c, next) ==
  LET t == Head(inbox[c]).task IN
  /\ buffer' = buffer \ {t}
  /\ Handle(c, IF t \in buffer THEN "flush" ELSE next)

\* A progress event (plan, tool, review) is appended to the Task after a flush.
Note(c) ==
  /\ Takes(c, {"note"}) /\ Head(inbox[c]).task \in assigned /\ Take(c)
  /\ IF task[Head(inbox[c]).task].status = "cancel_requested" THEN UNCHANGED <<handler, buffer>>
     ELSE TakeBuffer(c, "append")
  /\ UNCHANGED <<records, conn, ready, opened, assigned, ending, draft, full, revoked, call,
                 outbox, worker, history>>

\* An approval request: the slot is looked up first, the Task later.
Ask(c) ==
  /\ Takes(c, {"ask"}) /\ Head(inbox[c]).task \in assigned /\ Take(c)
  /\ Handle(c, "ask")
  /\ UNCHANGED <<records, conn, ready, opened, assigned, buffer, ending, draft, full, revoked,
                 call, outbox, worker, history>>

\* A terminal is flushed before anything about it is looked up.
TerminalMessage(c) ==
  /\ Takes(c, {"terminal"}) /\ Take(c) /\ TakeBuffer(c, "settle")
  /\ UNCHANGED <<records, conn, ready, opened, assigned, ending, draft, full, revoked, call,
                 outbox, worker, history>>

\* A heartbeat of a tool is published and not kept.
Beat(c) ==
  /\ Takes(c, {"beat"}) /\ Head(inbox[c]).task \in assigned /\ Take(c)
  /\ UNCHANGED <<records, hub, call, outbox, worker, history>>

\* "task is not assigned to this Worker".
NotAssigned(c) ==
  /\ Takes(c, {"stream", "note", "beat", "ask"}) /\ Head(inbox[c]).task \notin assigned
  /\ Reject(c)
  /\ UNCHANGED <<records, history>>

At(c, at) == LoopFree /\ handler[c].at = at

\* A repository update in a thread, while the loop goes on: the read, then the write
\* of the record that was read.
FlushRead(c) ==
  /\ handler[c].at = "flush"
  /\ handler' = [handler EXCEPT ![c].at = "flushed", ![c].copy = task[handler[c].msg.task]]
  /\ UNCHANGED <<records, conn, ready, opened, assigned, buffer, ending, draft, full, revoked,
                 call, wire, worker, history>>

FlushWrite(c) ==
  /\ handler[c].at = "flushed"
  /\ task' = [task EXCEPT ![handler[c].msg.task] = handler[c].copy]
  /\ handler' = [handler EXCEPT ![c].at = IF handler[c].msg.type = "note" THEN "append" ELSE "settle",
                                ![c].copy = New]
  /\ UNCHANGED <<approval, conn, ready, opened, assigned, buffer, ending, draft, full, revoked,
                 call, wire, worker, history>>

AppendRead(c) ==
  /\ handler[c].at = "append"
  /\ handler' = [handler EXCEPT ![c].at = "appended", ![c].copy = task[handler[c].msg.task]]
  /\ UNCHANGED <<records, conn, ready, opened, assigned, buffer, ending, draft, full, revoked,
                 call, wire, worker, history>>

AppendWrite(c) ==
  /\ handler[c].at = "appended"
  /\ task' = [task EXCEPT ![handler[c].msg.task] = handler[c].copy]
  /\ handler' = [handler EXCEPT ![c] = Idle]
  /\ UNCHANGED <<approval, conn, ready, opened, assigned, buffer, ending, draft, full, revoked,
                 call, wire, worker, history>>

\* Mutant: a request that meets a cancellation is registered all the same.
RegisterAnyway(c) ==
  LET t == handler[c].msg.task
      n == handler[c].msg.ask IN
  /\ At(c, "ask") /\ task[t].status \in {"running", "cancel_requested"} /\ task[t].pending = 0
  /\ Write(t, "waiting", n)
  /\ approval' = [approval EXCEPT ![n] = "pending"]
  /\ handler' = [handler EXCEPT ![c] = Idle]
  /\ UNCHANGED <<conn, ready, opened, assigned, buffer, ending, draft, full, revoked, call, wire,
                 worker, history>>

\* The approval request, under the lock: Task and Approval, dropped while cancelling.
Register(c) ==
  LET t == handler[c].msg.task
      n == handler[c].msg.ask IN
  /\ At(c, "ask")
  /\ \/ task[t].status = "cancel_requested" /\ UNCHANGED records
     \/ /\ task[t] = [status |-> "running", pending |-> 0]
        /\ Write(t, "waiting", n)
        /\ approval' = [approval EXCEPT ![n] = "pending"]
  /\ handler' = [handler EXCEPT ![c] = Idle]
  /\ UNCHANGED <<conn, ready, opened, assigned, buffer, ending, draft, full, revoked, call, wire,
                 worker, history>>

\* "task cannot accept an approval request", or a write of the request raised: the
\* Task is restored, the Approval record may have been written.
RegisterFails(c) ==
  LET t == handler[c].msg.task
      n == handler[c].msg.ask
      acceptable == task[t] = [status |-> "running", pending |-> 0] IN
  /\ At(c, "ask") /\ task[t].status # "cancel_requested"
  /\ \/ ~acceptable /\ UNCHANGED <<approval, faults>>
     \/ acceptable /\ Raise /\ UNCHANGED approval
     \/ acceptable /\ Raise /\ approval' = [approval EXCEPT ![n] = "pending"]
  /\ Reject(c)
  /\ UNCHANGED <<task, cancels>>

\* Mutant: a finished Task keeps its slot.
SettleKeepsSlot(c) ==
  LET t == handler[c].msg.task IN
  /\ At(c, "settle") /\ t \in assigned
  /\ Write(t, handler[c].msg.status, 0) /\ CancelPending(t)
  /\ handler' = [handler EXCEPT ![c] = Idle]
  /\ UNCHANGED <<conn, ready, opened, assigned, buffer, ending, draft, full, revoked, call, wire,
                 worker, history>>

\* The terminal, under the lock: a requested cancellation wins over a completion;
\* open questions are cancelled, the record written and the slot given back.
Settle(c) ==
  LET t == handler[c].msg.task
      cancelWon == task[t].status = "cancel_requested" /\ handler[c].msg.status = "completed" IN
  /\ At(c, "settle") /\ t \in assigned
  /\ Write(t, IF cancelWon THEN "cancelled" ELSE handler[c].msg.status, 0)
  /\ CancelPending(t)
  /\ assigned' = assigned \ {t}
  /\ handler' = [handler EXCEPT ![c] = Idle]
  /\ UNCHANGED <<conn, ready, opened, buffer, ending, draft, full, revoked, call, wire, worker, history>>

SettleRefused(c) ==
  /\ At(c, "settle") /\ handler[c].msg.task \notin assigned
  /\ Reject(c)
  /\ UNCHANGED <<records, history>>

-----------------------------------------------------------------------------
(* The Worker process, while it holds a connection.                        *)

SendUp(m) == wconn # 0 /\ inbox' = [inbox EXCEPT ![wconn] = Append(@, m)]
Done(t, s) == [type |-> "terminal", task |-> t, status |-> s]
Received(type) == wconn # 0 /\ outbox[wconn] # <<>> /\ Head(outbox[wconn]).type = type
Receive == outbox' = [outbox EXCEPT ![wconn] = Tail(@)]

\* (A Worker that is updating, or does not know the workspace, answers a start with a
\* failed terminal, as a run does that fails at once.)
WorkerStart ==
  /\ Received("start") /\ Receive
  /\ run' = [run EXCEPT ![Head(outbox[wconn]).task] = "working"]
  /\ UNCHANGED <<records, hub, call, inbox, wconn, rejected, token, asker, sent, acted, history>>

\* A cancel sets the token of a run there is, and is ignored otherwise.
WorkerCancel ==
  /\ Received("cancel") /\ Receive
  /\ token' = IF run[Head(outbox[wconn]).task] \in {"working", "asking"}
              THEN token \cup {Head(outbox[wconn]).task} ELSE token
  /\ UNCHANGED <<records, hub, call, inbox, wconn, rejected, run, asker, sent, acted, history>>

\* A decision resumes the run that waits for it.
WorkerDecision ==
  LET m == Head(outbox[wconn]) IN
  /\ Received("decision") /\ Receive
  /\ IF run[m.task] = "asking" /\ \A n \in DOMAIN asker : asker[n] = m.task => n <= m.ask
     THEN /\ run' = [run EXCEPT ![m.task] = "working"]
          /\ acted' = acted \cup {[ask |-> m.ask, decision |-> m.decision]}
     ELSE UNCHANGED <<run, acted>>
  /\ UNCHANGED <<records, hub, call, inbox, wconn, rejected, token, asker, sent, history>>

\* The run reports progress, in order.
WorkerProgress(t, type) ==
  /\ run[t] = "working" /\ t \notin token /\ sent < MaxEvents
  /\ SendUp([type |-> type, task |-> t])
  /\ sent' = sent + 1
  /\ UNCHANGED <<records, hub, call, outbox, wconn, rejected, run, token, asker, acted, history>>

\* The heartbeat thread of a tool looks at its stop event and the token, waits a second
\* and sends, whatever has become of the run by then.
WorkerBeat(t) ==
  /\ run[t] \in {"working", "beating"} /\ sent < MaxEvents
  /\ SendUp([type |-> "beat", task |-> t])
  /\ sent' = sent + 1
  /\ run' = [run EXCEPT ![t] = IF @ = "beating" THEN "ended" ELSE @]
  /\ UNCHANGED <<records, hub, call, outbox, wconn, rejected, token, asker, acted, history>>

\* RemoteApprovalStrategy.decide: the run waits until a decision or its token.
WorkerAsk(t) ==
  /\ run[t] = "working" /\ t \notin token /\ Len(asker) < MaxAsks
  /\ SendUp([type |-> "ask", task |-> t, ask |-> Len(asker) + 1])
  /\ asker' = Append(asker, t)
  /\ run' = [run EXCEPT ![t] = "asking"]
  /\ UNCHANGED <<records, hub, call, outbox, wconn, rejected, token, sent, acted, history>>

\* The run ends by itself, or because its token is set.  One that is cancelled or fails
\* in a tool skips after_tool: the tool's heartbeat thread is left in its wait.
WorkerEnd(t, s) ==
  /\ run[t] \in {"working", "asking"}
  /\ \/ s \in {"completed", "failed"} /\ run[t] = "working"
     \/ s = "cancelled" /\ t \in token
  /\ SendUp(Done(t, s))
  /\ \/ run' = [run EXCEPT ![t] = "ended"]
     \/ run[t] = "working" /\ s # "completed" /\ sent < MaxEvents /\ run' = [run EXCEPT ![t] = "beating"]
  /\ token' = token \ {t}
  /\ UNCHANGED <<records, hub, call, outbox, wconn, rejected, asker, sent, acted, history>>

-----------------------------------------------------------------------------

Api(t) ==
  \/ Assign(t) \/ AssignRefused(t) \/ MarkRunning(t) \/ SendStart(t)
  \/ Release(t) \/ RecordRefusal(t) \/ Cancel(t)

Loop(c) ==
  \/ Disconnect(c) \/ Hello(c) \/ Stream(c) \/ Note(c) \/ Beat(c) \/ Ask(c) \/ TerminalMessage(c)
  \/ NotAssigned(c) \/ FlushRead(c) \/ FlushWrite(c) \/ AppendRead(c) \/ AppendWrite(c)
  \/ Register(c) \/ RegisterFails(c) \/ Settle(c) \/ SettleRefused(c)

End(t) == EndFlush(t) \/ EndWrite(t) \/ FailTask(t)

WorkerRuns(t) ==
  \/ \E type \in {"stream", "note"} : WorkerProgress(t, type)
  \/ WorkerBeat(t) \/ WorkerAsk(t)
  \/ \E s \in {"completed", "failed", "cancelled"} : WorkerEnd(t, s)

Next ==
  \/ \E t \in Tasks : Api(t) \/ End(t) \/ WorkerRuns(t)
  \/ \E t \in Tasks, n \in 1 .. MaxAsks, d \in Decisions :
       Resolve(t, n, d) \/ ResolveFails(t, n, d)
  \/ \E c \in Conns : Loop(c)
  \/ Revoke \/ Connect \/ Break
  \/ WorkerStart \/ WorkerCancel \/ WorkerDecision

Spec == Init /\ [][Next]_vars
-----------------------------------------------------------------------------
(* What the hub promises.                                                  *)

Messages(c) == {outbox[c][i] : i \in DOMAIN outbox[c]}
Coming(c)   == {inbox[c][i] : i \in DOMAIN inbox[c]}

\* Every variable keeps to the values the code can give it, the outboxes to their size.
TypeOK ==
  /\ task \in [Tasks -> Records]
  /\ approval \in [1 .. MaxAsks -> Decisions \cup {"none", "pending", "cancelled"}]
  /\ {conn, opened, wconn} \subseteq 0 .. MaxConns
  /\ ready \subseteq Conns /\ full \subseteq Conns
  /\ assigned \subseteq Tasks /\ buffer \subseteq Tasks /\ token \subseteq Tasks
  /\ ending \in [Tasks -> {"none", "flush", "write", "interrupted", "replaced", "revoked"}]
  /\ draft \in [Tasks -> Records]
  /\ \A c \in Conns : handler[c].copy \in Records /\ Len(outbox[c]) <= OutboxMax
  /\ call \in [Tasks -> {"idle", "assigned", "send", "release", "refused", "done"}]
  /\ run \in [Tasks -> {"none", "working", "asking", "beating", "ended"}]
  /\ {revoked, rejected} \subseteq BOOLEAN /\ faults \in 0 .. MaxFaults

\* A device has active Tasks only while it is online on a connection whose hello was
\* handled: connect, disconnect and revoke all take the slots with the connection.
SlotsNeedConnection == assigned # {} => conn \in ready

\* A slot is never held by a finished Task, so finished Tasks cannot use up the limit.
SlotsAreUnfinished == \A t \in assigned : task[t].status \notin Terminal

\* A slot is never leaked: once dispatched, its Task has a task.start under way, a run
\* in the Worker, a terminal on the way back, or a connection that is about to end.
SlotsHaveRuns ==
  \A t \in assigned : call[t] = "done" /\ conn = wconn /\ conn \notin full =>
    \/ [type |-> "start", task |-> t] \in Messages(conn)
    \/ run[t] \in {"working", "asking"}
    \/ \E s \in Terminal : Done(t, s) \in Coming(conn)
    \/ handler[conn].msg.type = "terminal" /\ handler[conn].msg.task = t
       /\ handler[conn].at \in {"flush", "flushed", "settle"}

\* The decision a run acts on, and every decision on its way to the Worker, is the one
\* the Approval record has, and keeps: a cancellation never rewrites it.
DecisionsAreRecorded ==
  /\ \A m \in acted : approval[m.ask] = m.decision
  /\ \A c \in Conns : \A m \in Messages(c) :
       m.type = "decision" => approval[m.ask] = m.decision

\* While no write has raised, a pending Approval is the one its Task is waiting for.
QuestionsAreShown ==
  faults = 0 => \A t \in Tasks : \A n \in Pending(t) :
    task[t] = [status |-> "waiting", pending |-> n]

\* A write of t that did not see the cancellation: dispatch's own of RUNNING, or one that
\* puts back the record its thread had read.
WrittenBack(t) ==
  \/ call[t] = "assigned" /\ call'[t] # "assigned"
  \/ \E c \in Conns : /\ handler[c].at \in {"flushed", "appended"} /\ handler[c].msg.task = t
                     /\ task'[t] = handler[c].copy
  \/ ending[t] = "write" /\ task'[t] = draft[t]

\* A cancellation the hub has recorded leads to an end that is not a completion: the
\* terminal, a decision, an approval request and events that come later leave it there
\* or end the Task otherwise.  Only a write that was under way without the lock takes
\* it back, and then to an unfinished Task (whose run may complete after all).
CancelYieldsToStaleWrites ==
  [][\A t \in Tasks : task[t].status = "cancel_requested" =>
       \/ task'[t].status \in {"cancel_requested", "cancelled", "failed", "interrupted"}
       \/ task'[t].status # "completed" /\ WrittenBack(t)]_vars

\* A Task whose cancellation was recorded is never completed, which is what the terminal
\* handler's cancel_won is for.  It does not hold: an append that read the running Task,
\* or dispatch, writes RUNNING over the cancellation (worker_hub.py:1729, 876), and the
\* completion is then taken as reported.
CancelledNeverCompletes ==
  \A t \in Tasks : [](task[t].status = "cancel_requested" => [](task[t].status # "completed"))

\* "When the connection breaks during a run, the server converges the Task to
\* worker_disconnected" (docs/local-worker-v1.md): an unfinished Task that lost its slot
\* is still being dispatched or ended by someone.
NoTaskStranded ==
  \A t \in Tasks : task[t].status \notin Terminal /\ call[t] = "done" =>
    t \in assigned \/ ending[t] # "none"

\* "keep the pairing and retry rather than exiting and leaving the device permanently
\* offline" (local-worker client.py, run_forever): while no write has raised, a Worker
\* that keeps its device is not turned away by what it sent.  It does not hold: a
\* tool's heartbeat may follow the terminal of its run (worker_hub.py:1652).
NeverTurnedAway == rejected /\ faults = 0 => revoked
=============================================================================
