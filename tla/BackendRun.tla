------------------------------ MODULE BackendRun ------------------------------
(***************************************************************************)
(* One native Run of the API server: the daemon Runner thread of           *)
(* TaskRunner, the ApprovalGate it waits in, the API threads that decide   *)
(* approvals and cancel the Task, and the forced shutdown, all serialised  *)
(* (where the code serialises them) on the Run's RunGate.                  *)
(*                                                                         *)
(* The Task, Approval, recovery-journal and task_state.json records are    *)
(* separate durable writes.  A write may raise, and a write that raises    *)
(* may or may not have landed: the repositories commit to SQLite first and *)
(* then write a JSON mirror that can fail on its own.  Readers that do not *)
(* take the gate (the approval wait loop, the terminal convergence, the    *)
(* shutdown) therefore see the states between two writes, and every        *)
(* multi-write section of the code is a sequence of actions here.          *)
(***************************************************************************)
EXTENDS Naturals

CONSTANTS Runner,        \* the Runner thread
          Stopper,       \* the thread that runs TaskRunner.shutdown
          Deciders,      \* API threads, each resolves an approval once
          Cancellers,    \* API threads, each cancels the Task once
          MaxApprovals,  \* approvals the Run may request
          MaxFaults,     \* durable writes that may raise
          MayStop        \* whether the service is shut down during the Run

Thread   == {Runner, Stopper} \cup Deciders \cup Cancellers
Approvals == 1 .. MaxApprovals

ASSUME ThreadsDiffer ==
  /\ Runner # Stopper
  /\ {Runner, Stopper} \cap (Deciders \cup Cancellers) = {}
  /\ Deciders \cap Cancellers = {}
ASSUME BoundsAreNaturals == MaxApprovals \in Nat /\ MaxFaults \in Nat
ASSUME MayStopIsBoolean == MayStop \in BOOLEAN

Terminal   == {"completed", "cancelled", "failed", "interrupted", "blocked"}
TaskStatus == {"queued", "running", "waiting", "cancel_requested"} \cup Terminal
Decided    == {"approved", "rejected", "expired", "cancelled"}

VARIABLES task,      \* the Task record: public status and pending approval (0: none)
          approval,  \* status of each Approval record ("none": not created)
          journal,   \* transitions <<approval, thread, outcome>> begun and not committed
          artifact,  \* status of the Run's task_state.json
          gate,      \* the holder of the RunGate lock ({}: free)
          closed,    \* RunGate.close was called: its generation moved on
          token,     \* the CancellationToken
          active,    \* the Run's context and active bit are registered
          degraded,  \* TaskRunner.mark_degraded was called
          cleaned,   \* RunContext.process_cleanup_succeeded
          pc,        \* where each thread is
          cur,       \* the approval the Runner asked for last
          goal,      \* the terminal status the Runner is converging to
          move,      \* the approval transition a thread is writing
          expired,   \* approvals whose expires_at has passed
          ran,       \* approvals whose tool call has started
          ended,     \* statuses of the terminal events published
          faults     \* durable writes that have raised

store   == <<task, approval, journal, artifact>>
control == <<gate, closed, token, active, degraded, cleaned>>
local   == <<pc, cur, goal, move>>
history == <<expired, ran, ended, faults>>
vars    == <<store, control, local, history>>

Tasks          == [status : TaskStatus, pending : 0 .. MaxApprovals]
ApprovalStatus == Decided \cup {"none", "pending"}
Transitions    == (0 .. MaxApprovals) \X Thread \X (Decided \cup {"none"})

\* Where approval a is being moved: to a decision, or ("none") to a request.
Choice(a, to) == [apr |-> a, to |-> to, prior |-> 0, begun |-> FALSE, ok |-> TRUE]
NoMove == Choice(0, "none")
Moves  == [apr : 0 .. MaxApprovals, to : Decided \cup {"none"},
           prior : 0 .. MaxApprovals, begun : BOOLEAN, ok : BOOLEAN]

RunnerPC  == {"queued", "init", "run", "rqCreate", "rqTask", "rqCommit", "rqUndoApproval",
              "rqUndoTask", "rqUndoCommit", "wait", "checkApproved", "checkExpired",
              "tool", "unwind", "converge", "cvPending", "cvCancel", "artifact",
              "taskTerminal", "startArtifact", "startTerminal", "close", "publish",
              "release", "stuck"}
ResolvePC == {"rsTask", "rsApproval", "rsCommit", "rbApproval", "rbTask", "rbCommit"}
CancelPC  == {"cnGate", "cnPending", "cnShell"}
StopPC    == {"sdWait", "sdClose", "sdArtifact", "sdTask"}
PC == RunnerPC \cup ResolvePC \cup CancelPC \cup StopPC \cup {"idle", "dcGate", "done"}

Init ==
  /\ task = [status |-> "queued", pending |-> 0]
  /\ approval = [a \in Approvals |-> "none"]
  /\ journal = {}
  /\ artifact = "none"
  /\ gate = {} /\ closed = FALSE /\ token = FALSE
  /\ active = TRUE /\ degraded = FALSE /\ cleaned = TRUE
  /\ pc = [t \in Thread |-> IF t = Runner THEN "queued" ELSE "idle"]
  /\ cur = 0 /\ goal = "none"
  /\ move = [t \in Thread |-> NoMove]
  /\ expired = {} /\ ran = {} /\ ended = {} /\ faults = 0

-----------------------------------------------------------------------------
(* Durable writes.  Landed(old, new) are the values a raising write leaves. *)

Landed(old, new) == {old, new}
Raise == faults < MaxFaults /\ faults' = faults + 1
Goto(t, p) == pc' = [pc EXCEPT ![t] = p]

\* Mutant: the gate does not exclude.
EnterUnguarded(t) == gate' = gate \cup {t}
\* `with run.gate:` entered by t, and a gate held by t given back.
Enter(t) == gate = {} /\ gate' = {t}
Leave(t) == gate = {t} /\ gate' = {}

\* Mutant: a status change forgets the pending approval.
WithStatusOnly(s) == [task EXCEPT !.status = s, !.pending = 0]
WithStatus(s)  == [task EXCEPT !.status = s]
Waiting(a)     == [status |-> "waiting", pending |-> a]
Resumed        == [status |-> "running", pending |-> 0]
Ended(s)       == [status |-> s, pending |-> 0]
Pending        == {a \in Approvals : approval[a] = "pending"}
CancelledIn(S)  == [a \in Approvals |-> IF a \in S THEN "cancelled" ELSE approval[a]]
Unproven(t)    == move' = [move EXCEPT ![t].ok = FALSE]
Moving(t, a, to, begun) ==
  move' = [move EXCEPT ![t] = [apr |-> a, to |-> to, prior |-> task.pending,
                               begun |-> begun, ok |-> TRUE]]
Begun(t, a, to) == journal \cup {<<a, t, to>>}
Committed(t)    == journal \ {<<move[t].apr, t, move[t].to>>}

-----------------------------------------------------------------------------
(* TaskRunner._worker: the first gated section.                            *)

\* The token is not set: the Task becomes running.
Start ==
  /\ pc[Runner] = "queued" /\ gate = {} /\ ~token /\ ~closed
  /\ task' = WithStatus("running")
  /\ Goto(Runner, "init")
  /\ UNCHANGED <<approval, journal, artifact, control, cur, goal, move, history>>

\* Mutant: the status to converge to is not chosen.
StartCancelledNoGoal ==
  /\ pc[Runner] = "queued" /\ token /\ Enter(Runner)
  /\ Goto(Runner, "startArtifact")
  /\ UNCHANGED <<store, closed, token, active, degraded, cleaned, cur, goal, move, history>>

\* Cancelled before the worker started: converge to cancelled inside the gate.
StartCancelled ==
  /\ pc[Runner] = "queued" /\ token /\ Enter(Runner)
  /\ goal' = "cancelled" /\ Goto(Runner, "startArtifact")
  /\ UNCHANGED <<store, closed, token, active, degraded, cleaned, cur, move, history>>

\* The running write raised: persist failed inside the same gated section.
StartFails ==
  /\ pc[Runner] = "queued" /\ ~token /\ ~closed /\ Enter(Runner) /\ Raise
  /\ task' \in Landed(task, WithStatus("running"))
  /\ goal' = "failed" /\ Goto(Runner, "startArtifact")
  /\ UNCHANGED <<approval, journal, artifact, closed, token, active, degraded, cleaned,
                 cur, move, expired, ran, ended>>

\* The native runtime is built, or its construction raises: the token, read
\* without the gate, tells a cancellation from a failure.
BuildRuntime ==
  /\ pc[Runner] = "init"
  /\ Goto(Runner, "run")
  /\ UNCHANGED <<store, control, cur, goal, move, history>>

BuildFails ==
  /\ pc[Runner] = "init"
  /\ goal' = IF token THEN "cancelled" ELSE "failed"
  /\ Goto(Runner, "artifact")
  /\ UNCHANGED <<store, control, cur, move, history>>

-----------------------------------------------------------------------------
(* ApprovalGate._resolve_locked, run by a Decider or by the Runner on expiry:*)
(* journal begin, Task running, Approval outcome, journal commit; on a raise *)
(* _rollback_resolution restores the Approval, then the Task.                *)

\* t enters the gate and journals the transition of approval a to outcome to.
Resolve(t, a, to) ==
  /\ Enter(t)
  /\ \/ journal' = Begun(t, a, to) /\ Goto(t, "rsTask") /\ Moving(t, a, to, TRUE) /\ UNCHANGED faults
     \/ Raise /\ journal' \in Landed(journal, Begun(t, a, to)) /\ Goto(t, "rbApproval")
        /\ Moving(t, a, to, FALSE)

\* Mutant: the write does not check the generation.
ResolveTaskUnfenced(t) ==
  /\ pc[t] = "rsTask"
  /\ \/ task' = Resumed /\ Goto(t, "rsApproval") /\ UNCHANGED faults
     \/ Raise /\ task' \in Landed(task, Resumed) /\ Goto(t, "rbApproval")
  /\ UNCHANGED <<approval, journal, artifact, control, cur, goal, move, expired, ran, ended>>

ResolveTask(t) ==
  /\ pc[t] = "rsTask"
  /\ \/ ~closed /\ task' = Resumed /\ Goto(t, "rsApproval") /\ UNCHANGED faults
     \/ ~closed /\ Raise /\ task' \in Landed(task, Resumed) /\ Goto(t, "rbApproval")
     \/ closed /\ Goto(t, "rbApproval") /\ UNCHANGED <<task, faults>>
  /\ UNCHANGED <<approval, journal, artifact, control, cur, goal, move, expired, ran, ended>>

ResolveApproval(t) ==
  /\ pc[t] = "rsApproval"
  /\ LET decided == [approval EXCEPT ![move[t].apr] = move[t].to]
     IN  \/ approval' = decided /\ Goto(t, "rsCommit") /\ UNCHANGED faults
         \/ Raise /\ approval' \in Landed(approval, decided) /\ Goto(t, "rbApproval")
  /\ UNCHANGED <<task, journal, artifact, control, cur, goal, move, expired, ran, ended>>

\* The commit lands: approval.resolved is published and the gate released.
ResolveCommit(t) ==
  /\ pc[t] = "rsCommit"
  /\ \/ /\ journal' = Committed(t) /\ Leave(t) /\ UNCHANGED faults
        /\ Goto(t, IF t = Runner THEN "run" ELSE "done")
     \/ /\ Raise /\ journal' \in Landed(journal, Committed(t))
        /\ Goto(t, "rbApproval") /\ UNCHANGED gate
  /\ UNCHANGED <<task, approval, artifact, closed, token, active, degraded, cleaned,
                 cur, goal, move, expired, ran, ended>>

RollbackApproval(t) ==
  /\ pc[t] = "rbApproval"
  /\ LET restored == [approval EXCEPT ![move[t].apr] = "pending"]
     IN  \/ approval' = restored /\ UNCHANGED <<move, faults>>
         \/ Raise /\ approval' \in Landed(approval, restored) /\ Unproven(t)
  /\ Goto(t, "rbTask")
  /\ UNCHANGED <<task, journal, artifact, control, cur, goal, expired, ran, ended>>

\* Mutant: the Task stays resumed when its approval is pending again.
RollbackTaskSkipped(t) ==
  /\ pc[t] = "rbTask" /\ Goto(t, "rbCommit")
  /\ UNCHANGED <<store, control, cur, goal, move, history>>

RollbackTask(t) ==
  /\ pc[t] = "rbTask"
  /\ LET restored == Waiting(move[t].prior)
     IN  \/ ~closed /\ task' = restored /\ UNCHANGED <<move, faults>>
         \/ ~closed /\ Raise /\ task' \in Landed(task, restored) /\ Unproven(t)
         \/ closed /\ Unproven(t) /\ UNCHANGED <<task, faults>>
  /\ Goto(t, "rbCommit")
  /\ UNCHANGED <<approval, journal, artifact, control, cur, goal, expired, ran, ended>>

\* Commit the transition of a proven rollback; degrade after an unproven one.
CloseTransition(t) ==
  IF move[t].ok /\ move[t].begun
  THEN \/ journal' = Committed(t) /\ UNCHANGED <<degraded, faults>>
       \/ Raise /\ journal' \in Landed(journal, Committed(t)) /\ degraded' = TRUE
  ELSE degraded' = (degraded \/ ~move[t].ok) /\ UNCHANGED <<journal, faults>>

\* PersistenceUnavailableError: to the API caller, or into the agent's run.
RollbackCommit(t) ==
  /\ pc[t] = "rbCommit" /\ Leave(t)
  /\ CloseTransition(t)
  /\ Goto(t, IF t = Runner THEN "unwind" ELSE "done")
  /\ goal' = IF t = Runner THEN "failed" ELSE goal
  /\ UNCHANGED <<task, approval, artifact, closed, token, active, cleaned, cur, move,
                 expired, ran, ended>>

-----------------------------------------------------------------------------
(* ApprovalGate.request: journal begin, Approval record, Task record,       *)
(* journal commit, all inside one gated section.                            *)

\* The agent calls a risky tool; the gate is entered and the intent journalled.
Request ==
  /\ pc[Runner] = "run" /\ cur < MaxApprovals /\ ~token /\ Enter(Runner)
  /\ cur' = cur + 1
  /\ \/ /\ journal' = Begun(Runner, cur + 1, "none") /\ Goto(Runner, "rqCreate")
        /\ Moving(Runner, cur + 1, "none", TRUE) /\ UNCHANGED faults
     \/ /\ Raise /\ journal' \in Landed(journal, Begun(Runner, cur + 1, "none")) /\ Goto(Runner, "rqUndoTask")
        /\ Moving(Runner, cur + 1, "none", FALSE)
  /\ UNCHANGED <<task, approval, artifact, closed, token, active, degraded, cleaned, goal,
                 expired, ran, ended>>

RequestCreate ==
  /\ pc[Runner] = "rqCreate"
  /\ LET created == [approval EXCEPT ![cur] = "pending"]
     IN  \/ approval' = created /\ Goto(Runner, "rqTask") /\ UNCHANGED faults
         \/ Raise /\ approval' \in Landed(approval, created) /\ Goto(Runner, "rqUndoApproval")
  /\ UNCHANGED <<task, journal, artifact, control, cur, goal, move, expired, ran, ended>>

RequestTask ==
  /\ pc[Runner] = "rqTask"
  /\ \/ ~closed /\ task' = Waiting(cur) /\ Goto(Runner, "rqCommit") /\ UNCHANGED faults
     \/ ~closed /\ Raise /\ task' \in Landed(task, Waiting(cur)) /\ Goto(Runner, "rqUndoApproval")
     \/ closed /\ Goto(Runner, "rqUndoApproval") /\ UNCHANGED <<task, faults>>
  /\ UNCHANGED <<approval, journal, artifact, control, cur, goal, move, expired, ran, ended>>

\* The commit lands, approval.required is published and the gate released.
RequestCommit ==
  /\ pc[Runner] = "rqCommit"
  /\ \/ journal' = Committed(Runner) /\ Leave(Runner) /\ Goto(Runner, "wait") /\ UNCHANGED faults
     \/ Raise /\ journal' \in Landed(journal, Committed(Runner)) /\ Goto(Runner, "rqUndoApproval")
        /\ UNCHANGED gate
  /\ UNCHANGED <<task, approval, artifact, closed, token, active, degraded, cleaned,
                 cur, goal, move, expired, ran, ended>>

\* _rollback_request: the Approval if it was created, then the Task.
UndoApproval ==
  /\ pc[Runner] = "rqUndoApproval"
  /\ LET undone == [approval EXCEPT ![cur] = "cancelled"]
     IN  \/ approval[cur] = "none" /\ UNCHANGED <<approval, move, faults>>
         \/ approval[cur] # "none" /\ approval' = undone /\ UNCHANGED <<move, faults>>
         \/ approval[cur] # "none" /\ Raise /\ approval' \in Landed(approval, undone)
            /\ Unproven(Runner)
  /\ Goto(Runner, "rqUndoTask")
  /\ UNCHANGED <<task, journal, artifact, control, cur, goal, expired, ran, ended>>

UndoTask ==
  /\ pc[Runner] = "rqUndoTask"
  /\ \/ ~closed /\ task' = Resumed /\ UNCHANGED <<move, faults>>
     \/ ~closed /\ Raise /\ task' \in Landed(task, Resumed) /\ Unproven(Runner)
     \/ closed /\ Unproven(Runner) /\ UNCHANGED <<task, faults>>
  /\ Goto(Runner, "rqUndoCommit")
  /\ UNCHANGED <<approval, journal, artifact, control, cur, goal, expired, ran, ended>>

\* Only a proven rollback commits the begun transition.  The request then
\* raises PersistenceUnavailableError into the agent, whose run fails.
UndoCommit ==
  /\ pc[Runner] = "rqUndoCommit" /\ Leave(Runner)
  /\ CloseTransition(Runner)
  /\ goal' = "failed" /\ Goto(Runner, "unwind")
  /\ UNCHANGED <<task, approval, artifact, closed, token, active, cleaned, cur, move,
                 expired, ran, ended>>

-----------------------------------------------------------------------------
(* ApprovalGate._wait: reads the Approval without the gate, in this order: *)
(* decided, cancelled, expired.                                            *)

WaitDecided ==
  /\ pc[Runner] = "wait" /\ approval[cur] \in Decided
  /\ Goto(Runner, CASE approval[cur] = "approved" -> "checkApproved"
                    [] approval[cur] = "cancelled" -> "unwind"
                    [] OTHER -> "run")
  /\ goal' = IF approval[cur] = "cancelled" THEN "cancelled" ELSE goal
  /\ UNCHANGED <<store, control, cur, move, history>>

WaitCancelled ==
  /\ pc[Runner] = "wait" /\ approval[cur] = "pending" /\ token
  /\ goal' = "cancelled" /\ Goto(Runner, "unwind")
  /\ UNCHANGED <<store, control, cur, move, history>>

\* Mutant: the deadline is compared the wrong way round.
WaitExpiredInverted ==
  /\ pc[Runner] = "wait" /\ approval[cur] = "pending" /\ ~token /\ cur \notin expired
  /\ Goto(Runner, "checkExpired")
  /\ UNCHANGED <<store, control, cur, goal, move, history>>

WaitExpired ==
  /\ pc[Runner] = "wait" /\ approval[cur] = "pending" /\ ~token /\ cur \in expired
  /\ Goto(Runner, "checkExpired")
  /\ UNCHANGED <<store, control, cur, goal, move, history>>

\* The wait reported approved: the token is looked at once more, in the gate.
\* (The args digest compared there is of the Runner's own unchanged args.)
CheckApproved ==
  /\ pc[Runner] = "checkApproved" /\ gate = {}
  /\ Goto(Runner, IF token THEN "unwind" ELSE "tool")
  /\ goal' = IF token THEN "cancelled" ELSE goal
  /\ UNCHANGED <<store, control, cur, move, history>>

\* The wait reported expiry: a cancellation or a decision may have come first.
CheckExpired ==
  /\ pc[Runner] = "checkExpired" /\ gate = {} /\ (token \/ approval[cur] # "pending")
  /\ Goto(Runner, CASE token \/ approval[cur] = "cancelled" -> "unwind"
                    [] ~token /\ approval[cur] = "approved" -> "tool"
                    [] OTHER -> "run")
  /\ goal' = IF token \/ approval[cur] = "cancelled" THEN "cancelled" ELSE goal
  /\ UNCHANGED <<store, control, cur, move, history>>

\* Nothing came first: the expiry is written like a decision.
Expire ==
  /\ pc[Runner] = "checkExpired" /\ ~token /\ approval[cur] = "pending"
  /\ Resolve(Runner, cur, "expired")
  /\ UNCHANGED <<task, approval, artifact, closed, token, active, degraded, cleaned,
                 cur, goal, expired, ran, ended>>

\* Mutant: the token is not checked once more.
ToolStartUnchecked ==
  /\ pc[Runner] = "tool" /\ gate = {} /\ ~closed
  /\ ran' = ran \cup {cur} /\ Goto(Runner, "run")
  /\ UNCHANGED <<store, control, cur, goal, move, expired, ended, faults>>

\* ExecutionBoundary.before_tool: the approved call starts unless the token is
\* set or the gate closed.
ToolStart ==
  /\ pc[Runner] = "tool" /\ gate = {} /\ ~token /\ ~closed
  /\ ran' = ran \cup {cur} /\ Goto(Runner, "run")
  /\ UNCHANGED <<store, control, cur, goal, move, expired, ended, faults>>

\* A hook of the agent finds the Run cancelled: RunCancelled.
NoticeCancel ==
  /\ pc[Runner] \in {"run", "tool"} /\ gate = {} /\ (token \/ closed)
  /\ goal' = "cancelled" /\ Goto(Runner, "unwind")
  /\ UNCHANGED <<store, control, cur, move, history>>

\* The agent ends by itself: a final answer, a stop reason or an error.
AgentEnds ==
  /\ pc[Runner] = "run"
  /\ goal' \in {"completed", "blocked", "failed"} /\ Goto(Runner, "unwind")
  /\ UNCHANGED <<store, control, cur, move, history>>

\* The agent writes its task_state.json through FencedRunStore; a raising write
\* leaves the agent's own status, or failed, in memory.
Unwind ==
  /\ pc[Runner] = "unwind" /\ gate = {}
  /\ \/ ~closed /\ artifact' = goal /\ UNCHANGED <<goal, faults>>
     \/ ~closed /\ Raise /\ artifact' \in Landed(artifact, goal) /\ goal' \in {goal, "failed"}
     \/ closed /\ goal' \in {goal, "failed"} /\ UNCHANGED <<artifact, faults>>
  /\ Goto(Runner, "converge")
  /\ UNCHANGED <<task, approval, journal, control, cur, move, expired, ran, ended>>

-----------------------------------------------------------------------------
(* TaskRunner._converge_terminal and _persist_terminal.                    *)

\* The token and the cleanup result are read without the gate.
Converge ==
  /\ pc[Runner] = "converge"
  /\ goal' = CASE ~cleaned -> "failed" [] cleaned /\ token -> "cancelled" [] OTHER -> goal
  /\ Goto(Runner, "cvPending")
  /\ UNCHANGED <<store, control, cur, move, history>>

\* So is the Task, to see whether an approval is still pending.
ConvergePending ==
  /\ pc[Runner] = "cvPending"
  /\ Goto(Runner, IF task.pending # 0 THEN "cvCancel" ELSE "artifact")
  /\ UNCHANGED <<store, control, cur, goal, move, history>>

ConvergeCancel ==
  /\ pc[Runner] = "cvCancel" /\ gate = {}
  /\ \/ approval' = CancelledIn(Pending) /\ Goto(Runner, "artifact") /\ UNCHANGED <<degraded, faults>>
     \/ /\ Pending # {} /\ Raise /\ \E S \in SUBSET Pending : approval' = CancelledIn(S)
        /\ degraded' = TRUE /\ Goto(Runner, "stuck")
  /\ UNCHANGED <<task, journal, artifact, gate, closed, token, active, cleaned, cur, goal,
                 move, expired, ran, ended>>

\* _persist_terminal enters the gate and converges the Run artifacts first.
PersistArtifact ==
  /\ pc[Runner] = "artifact" /\ ~closed /\ Enter(Runner)
  /\ artifact' = goal /\ Goto(Runner, "taskTerminal")
  /\ UNCHANGED <<task, approval, journal, closed, token, active, degraded, cleaned, cur, goal,
                 move, history>>

\* Then the Task, checking the generation.
PersistTask ==
  /\ pc[Runner] = "taskTerminal" /\ Leave(Runner)
  /\ task' = Ended(goal) /\ Goto(Runner, "close")
  /\ UNCHANGED <<approval, journal, artifact, closed, token, active, degraded, cleaned, cur,
                 goal, move, history>>

\* Mutant: the failure is swallowed without degrading the service.
PersistFailsSilently ==
  /\ \/ pc[Runner] = "artifact" /\ gate = {} /\ closed /\ UNCHANGED <<task, gate, faults>>
     \/ pc[Runner] = "artifact" /\ gate = {} /\ ~closed /\ Raise /\ UNCHANGED <<task, gate>>
     \/ pc[Runner] = "taskTerminal" /\ Leave(Runner) /\ Raise /\ UNCHANGED task
  /\ Goto(Runner, "stuck")
  /\ UNCHANGED <<approval, journal, artifact, closed, token, active, degraded, cleaned, cur,
                 goal, move, expired, ran, ended>>

\* A closed gate or a raising write: the active bit stays held.
PersistFails ==
  /\ \/ /\ pc[Runner] = "artifact" /\ gate = {} /\ closed /\ UNCHANGED <<task, artifact, gate, faults>>
     \/ /\ pc[Runner] = "artifact" /\ gate = {} /\ ~closed /\ artifact # goal /\ Raise
        /\ artifact' \in Landed(artifact, goal) /\ UNCHANGED <<task, gate>>
     \/ /\ pc[Runner] = "taskTerminal" /\ Leave(Runner) /\ Raise
        /\ task' \in Landed(task, Ended(goal)) /\ UNCHANGED artifact
  /\ degraded' = TRUE /\ Goto(Runner, "stuck")
  /\ UNCHANGED <<approval, journal, closed, token, active, cleaned, cur, goal, move,
                 expired, ran, ended>>

\* The same two writes of a Run that never started, in the gate Start entered.
StartArtifact ==
  /\ pc[Runner] = "startArtifact" /\ ~closed
  /\ artifact' = goal /\ Goto(Runner, "startTerminal")
  /\ UNCHANGED <<task, approval, journal, control, cur, goal, move, history>>

StartTerminal ==
  /\ pc[Runner] = "startTerminal" /\ Leave(Runner)
  /\ task' = Ended(goal) /\ closed' = TRUE /\ Goto(Runner, "publish")
  /\ UNCHANGED <<approval, journal, artifact, token, active, degraded, cleaned, cur, goal,
                 move, history>>

\* Mutant: a Run cancelled before it started never degrades the service.
StartPersistFailsSilently ==
  /\ Leave(Runner)
  /\ \/ pc[Runner] = "startArtifact" /\ closed /\ UNCHANGED faults
     \/ pc[Runner] \in {"startArtifact", "startTerminal"} /\ Raise
  /\ degraded' = (degraded \/ goal # "cancelled")
  /\ Goto(Runner, IF goal = "cancelled" THEN "release" ELSE "stuck")
  /\ UNCHANGED <<store, closed, token, active, cleaned, cur, goal, move, expired, ran, ended>>

\* A raise degrades; a Run cancelled before it started is released all the same.
StartPersistFails ==
  /\ Leave(Runner)
  /\ \/ /\ pc[Runner] = "startArtifact" /\ closed
        /\ degraded' = (degraded \/ goal # "cancelled")
        /\ UNCHANGED <<task, artifact, faults>>
     \/ /\ pc[Runner] = "startArtifact" /\ ~closed /\ Raise /\ degraded' = TRUE
        /\ artifact' \in Landed(artifact, goal) /\ UNCHANGED task
     \/ /\ pc[Runner] = "startTerminal" /\ Raise /\ degraded' = TRUE
        /\ task' \in Landed(task, Ended(goal)) /\ UNCHANGED artifact
  /\ Goto(Runner, IF goal = "cancelled" THEN "release" ELSE "stuck")
  /\ UNCHANGED <<approval, journal, closed, token, active, cleaned, cur, goal, move,
                 expired, ran, ended>>

\* run.gate.close() after the terminal writes, the terminal event, the release.
Close ==
  /\ pc[Runner] = "close" /\ gate = {}
  /\ closed' = TRUE /\ Goto(Runner, "publish")
  /\ UNCHANGED <<store, gate, token, active, degraded, cleaned, cur, goal, move, history>>

\* Mutant: the terminal event reads the token again.
PublishRereads ==
  /\ pc[Runner] = "publish"
  /\ ended' = ended \cup {IF token THEN "cancelled" ELSE goal} /\ Goto(Runner, "release")
  /\ UNCHANGED <<store, control, cur, goal, move, expired, ran, faults>>

Publish ==
  /\ pc[Runner] = "publish"
  /\ ended' = ended \cup {goal} /\ Goto(Runner, "release")
  /\ UNCHANGED <<store, control, cur, goal, move, expired, ran, faults>>

Release ==
  /\ pc[Runner] = "release"
  /\ active' = FALSE /\ Goto(Runner, "done")
  /\ UNCHANGED <<store, gate, closed, token, degraded, cleaned, cur, goal, move, history>>

-----------------------------------------------------------------------------
(* ApprovalGate.apply_decision on an API thread.                           *)

\* Before the gate: the Approval is pending, not expired, its gate registered.
Decide(d, a, decision) ==
  /\ pc[d] = "idle" /\ approval[a] = "pending" /\ a \notin expired /\ active
  /\ move' = [move EXCEPT ![d] = Choice(a, decision)]
  /\ Goto(d, "dcGate")
  /\ UNCHANGED <<store, control, cur, goal, history>>

\* Mutant: the Task is not re-read.
DecideGateBlind(d) ==
  /\ pc[d] = "dcGate" /\ approval[move[d].apr] = "pending"
  /\ Resolve(d, move[d].apr, move[d].to)
  /\ UNCHANGED <<task, approval, artifact, closed, token, active, degraded, cleaned,
                 cur, goal, expired, ran, ended>>

\* In the gate: re-read Approval and Task.
DecideGate(d) ==
  /\ pc[d] = "dcGate" /\ approval[move[d].apr] = "pending"
  /\ task.status \notin {"cancel_requested", "cancelled", "failed", "completed"}
  /\ Resolve(d, move[d].apr, move[d].to)
  /\ UNCHANGED <<task, approval, artifact, closed, token, active, degraded, cleaned,
                 cur, goal, expired, ran, ended>>

\* Already resolved, or stale.
DecideRefused(d) ==
  /\ pc[d] = "dcGate" /\ gate = {}
  /\ \/ approval[move[d].apr] # "pending"
     \/ task.status \in {"cancel_requested", "cancelled", "failed", "completed"}
  /\ Goto(d, "done")
  /\ UNCHANGED <<store, control, cur, goal, move, history>>

-----------------------------------------------------------------------------
(* TaskRunner.cancel on an API thread, and first in TaskRunner.shutdown.   *)

Cancel(c) ==
  /\ c \in Cancellers /\ pc[c] = "idle" /\ active /\ task.status \notin Terminal
  /\ Goto(c, "cnGate")
  /\ UNCHANGED <<store, control, cur, goal, move, history>>

\* Mutant: the Task is not re-read in the gate.
CancelTaskBlind(t) ==
  /\ pc[t] = "cnGate" /\ gate = {}
  /\ \/ ~closed /\ task' = WithStatus("cancel_requested")
     \/ closed /\ UNCHANGED task
  /\ token' = TRUE /\ Goto(t, "cnPending")
  /\ UNCHANGED <<approval, journal, artifact, gate, closed, active, degraded, cleaned, cur,
                 goal, move, history>>

\* In the gate: cancel_requested unless that or terminal already; then the token.
CancelTask(t) ==
  /\ pc[t] = "cnGate" /\ gate = {}
  /\ LET fresh == task.status \notin Terminal \cup {"cancel_requested"} /\ ~closed
     IN  \/ fresh /\ task' = WithStatus("cancel_requested") /\ UNCHANGED <<degraded, faults>>
         \/ /\ fresh /\ Raise /\ task' \in Landed(task, WithStatus("cancel_requested"))
            /\ degraded' = TRUE
         \/ ~fresh /\ UNCHANGED <<task, degraded, faults>>
  /\ token' = TRUE /\ Goto(t, "cnPending")
  /\ UNCHANGED <<approval, journal, artifact, gate, closed, active, cleaned, cur, goal, move,
                 expired, ran, ended>>

\* ApprovalGate.cancel_pending, in a gated section of its own.
CancelApprovals(t) ==
  /\ pc[t] = "cnPending" /\ gate = {}
  /\ \/ approval' = CancelledIn(Pending) /\ UNCHANGED <<degraded, faults>>
     \/ /\ Pending # {} /\ Raise /\ \E S \in SUBSET Pending : approval' = CancelledIn(S)
        /\ degraded' = TRUE
  /\ Goto(t, "cnShell")
  /\ UNCHANGED <<task, journal, artifact, gate, closed, token, active, cleaned, cur, goal, move,
                 expired, ran, ended>>

\* RunContext.terminate_shell: the managed process group may survive.
CancelShell(t) ==
  /\ pc[t] = "cnShell"
  /\ \/ cleaned' = TRUE /\ UNCHANGED <<degraded, faults>>
     \/ Raise /\ cleaned' = FALSE /\ degraded' = TRUE
  /\ Goto(t, IF t = Stopper THEN "sdWait" ELSE "done")
  /\ UNCHANGED <<store, gate, closed, token, active, cur, goal, move, expired, ran, ended>>

-----------------------------------------------------------------------------
(* TaskRunner.shutdown: cancel, wait for the Runner until a deadline, then  *)
(* close the gate and write the interrupted terminal without it.            *)

Stop ==
  /\ MayStop /\ pc[Stopper] = "idle" /\ active
  /\ Goto(Stopper, "cnGate")
  /\ UNCHANGED <<store, control, cur, goal, move, history>>

\* The Runner released its context in time, or the deadline passed.
StopWait ==
  /\ pc[Stopper] = "sdWait"
  /\ Goto(Stopper, IF active THEN "sdClose" ELSE "done")
  /\ UNCHANGED <<store, control, cur, goal, move, history>>

StopClose ==
  /\ pc[Stopper] = "sdClose" /\ gate = {}
  /\ closed' = TRUE /\ Goto(Stopper, "sdArtifact")
  /\ UNCHANGED <<store, gate, token, active, degraded, cleaned, cur, goal, move, history>>

StopArtifact ==
  /\ pc[Stopper] = "sdArtifact"
  /\ \/ artifact' = "interrupted" /\ Goto(Stopper, "sdTask") /\ UNCHANGED <<degraded, faults>>
     \/ /\ Raise /\ artifact' \in Landed(artifact, "interrupted") /\ degraded' = TRUE
        /\ Goto(Stopper, "done")
  /\ UNCHANGED <<task, approval, journal, gate, closed, token, active, cleaned, cur, goal, move,
                 expired, ran, ended>>

\* No generation is passed: the write lands whatever the Task has become.
StopTask ==
  /\ pc[Stopper] = "sdTask"
  /\ \/ /\ task' = Ended("interrupted") /\ ended' = ended \cup {"interrupted"} /\ active' = FALSE
        /\ UNCHANGED <<degraded, faults>>
     \/ /\ Raise /\ task' \in Landed(task, Ended("interrupted")) /\ degraded' = TRUE
        /\ UNCHANGED <<ended, active>>
  /\ Goto(Stopper, "done")
  /\ UNCHANGED <<approval, journal, artifact, gate, closed, token, cleaned, cur, goal, move,
                 expired, ran>>

-----------------------------------------------------------------------------

\* expires_at of a pending approval passes.
Tick(a) ==
  /\ approval[a] = "pending" /\ a \notin expired
  /\ expired' = expired \cup {a}
  /\ UNCHANGED <<store, control, local, ran, ended, faults>>

ResolveStep(t) ==
  \/ ResolveTask(t) \/ ResolveApproval(t) \/ ResolveCommit(t)
  \/ RollbackApproval(t) \/ RollbackTask(t) \/ RollbackCommit(t)

CancelStep(t) == CancelTask(t) \/ CancelApprovals(t) \/ CancelShell(t)

RunnerStep ==
  \/ Start \/ StartCancelled \/ StartFails \/ BuildRuntime \/ BuildFails
  \/ StartArtifact \/ StartTerminal \/ StartPersistFails
  \/ Request \/ RequestCreate \/ RequestTask \/ RequestCommit
  \/ UndoApproval \/ UndoTask \/ UndoCommit
  \/ WaitDecided \/ WaitCancelled \/ WaitExpired
  \/ CheckApproved \/ CheckExpired \/ Expire \/ ToolStart
  \/ NoticeCancel \/ AgentEnds \/ Unwind
  \/ Converge \/ ConvergePending \/ ConvergeCancel
  \/ PersistArtifact \/ PersistTask \/ PersistFails
  \/ Close \/ Publish \/ Release
  \/ ResolveStep(Runner)

StopStep == StopWait \/ StopClose \/ StopArtifact \/ StopTask \/ CancelStep(Stopper)

DeciderStep(d) == DecideGate(d) \/ DecideRefused(d) \/ ResolveStep(d)

\* The Run is over: the Runner's thread returned and no other thread is inside a call.
Over ==
  /\ pc[Runner] \in {"done", "stuck"}
  /\ \A t \in Thread \ {Runner} : pc[t] \in {"idle", "done"}
  /\ UNCHANGED vars

Next ==
  \/ RunnerStep
  \/ \E d \in Deciders : \/ DeciderStep(d)
                         \/ \E a \in Approvals, s \in {"approved", "rejected"} : Decide(d, a, s)
  \/ \E c \in Cancellers : Cancel(c) \/ CancelStep(c)
  \/ Stop \/ StopStep
  \/ \E a \in Approvals : Tick(a)
  \/ Over

\* A thread inside a call is eventually scheduled, an agent's run ends (its model
\* calls time out, its steps are bounded), and time passes.
Fairness ==
  /\ WF_vars(RunnerStep) /\ WF_vars(StopStep)
  /\ \A d \in Deciders : WF_vars(DeciderStep(d))
  /\ \A c \in Cancellers : WF_vars(CancelStep(c))
  /\ \A a \in Approvals : WF_vars(Tick(a))

Spec     == Init /\ [][Next]_vars
FairSpec == Spec /\ Fairness
-----------------------------------------------------------------------------
(* What the Run promises.                                                  *)

\* Program counters at which a thread holds the gate across actions.
GatedPC == ResolvePC \cup {"rqCreate", "rqTask", "rqCommit", "rqUndoApproval", "rqUndoTask",
                           "rqUndoCommit", "taskTerminal", "startArtifact", "startTerminal"}

\* Every variable keeps to the values the code can give it.
TypeOK ==
  /\ task \in Tasks
  /\ approval \in [Approvals -> ApprovalStatus]
  /\ journal \in SUBSET Transitions
  /\ artifact \in Terminal \cup {"none"}
  /\ gate \in SUBSET Thread
  /\ closed \in BOOLEAN /\ token \in BOOLEAN /\ active \in BOOLEAN
  /\ degraded \in BOOLEAN /\ cleaned \in BOOLEAN
  /\ pc \in [Thread -> PC]
  /\ cur \in 0 .. MaxApprovals
  /\ goal \in Terminal \cup {"none"}
  /\ move \in [Thread -> Moves]
  /\ expired \in SUBSET Approvals /\ ran \in SUBSET (0 .. MaxApprovals)
  /\ ended \in SUBSET Terminal /\ faults \in 0 .. MaxFaults

\* Exactly the threads inside a gated section hold the RunGate, never two.
GateExclusive ==
  /\ gate = {t \in Thread : pc[t] \in GatedPC}
  /\ \A s, t \in gate : s = t

\* "approved while cancel_requested can never be linearized" (approval_gate.py):
\* an approval is approved only while the Task is running under its own resolution.
NoApprovalAfterCancel ==
  [][\A a \in Approvals : approval'[a] = "approved" /\ approval[a] # "approved"
        => task.status = "running"]_vars

\* A persisted cancellation is never overwritten by the writes of a decision or of a
\* request: from cancel_requested the Task only ends.
CancelSticks ==
  [][task.status = "cancel_requested" => task'.status \in Terminal \cup {"cancel_requested"}]_vars

\* No approved tool call starts once the cancellation, or a terminal, is persisted.
NoToolAfterCancel == [][ran' # ran => task.status \notin Terminal \cup {"cancel_requested"}]_vars

\* The approval wait reports APPROVED only when the Task is running again (the
\* execution document, section 8.2).  It does not hold: _wait reads the Approval
\* outside the gate, before a failing write of the Task takes it back.
ApprovedMeansRunning ==
  [][pc[Runner] # "tool" /\ pc'[Runner] = "tool" => task.status = "running"]_vars

\* Terminal statuses never change again (the execution document, section 6.2).  It
\* does not hold: see OnlyShutdownReplaces.
TerminalIsFinal == [][task.status \in Terminal => task'.status = task.status]_vars

\* Nor is a blocked Task left alone by everyone but the shutdown.  It does not hold: the
\* stale check of apply_decision names neither blocked nor interrupted, and a decision
\* that is taken back after the Runner has read it leaves its Approval pending.  Decided
\* again after the Task has ended blocked and before the gate is closed, it makes the
\* Task running for good.
BlockedIsFinal == [][task.status = "blocked" /\ pc[Stopper] # "sdTask" => task' = task]_vars

\* Only the forced shutdown, which writes without the gate, may replace a terminal: but
\* for a blocked one, after a write that raised and while the gate is not closed.
OnlyShutdownReplaces ==
  [][task.status \in Terminal /\ task' # task =>
       \/ pc[Stopper] = "sdTask"
       \/ task.status = "blocked" /\ faults > 0 /\ ~closed]_vars

\* A requested cancellation ends in cancelled, or failed, never in success.  It does
\* not hold: the status is chosen from the token before the gate is entered.
CancelWins == [][task.status = "cancel_requested" => task'.status # "completed"]_vars

\* A service that accepts new work (the active bit free, neither degraded nor shutting
\* down) has left the previous Task terminal, whatever write of its Run raised: but for
\* a Run that ended blocked (BlockedIsFinal), of which no write may have raised.
FreeMeansTerminal ==
  ~active /\ ~degraded /\ pc[Stopper] = "idle" /\ (goal = "blocked" => faults = 0)
  => task.status \in Terminal

\* Outside a gated section, until a write raises, a pending Approval is the one its Task
\* waits for.
PendingAgrees == gate = {} /\ faults = 0 => \A a \in Pending : task.pending = a

\* Outside a gated section, unless the service has refused further work, a Runner that
\* waits finds its Task waiting with the Approval pending, or running with the Approval
\* decided.  For the first Approval of a Run this is so whatever write of a decision
\* raised, nothing is left half done; for a later one until a write raises, since a
\* decision taken back after the Runner has read it leaves an earlier one pending.
WaiterAgrees ==
  gate = {} /\ ~degraded /\ ~token /\ pc[Runner] = "wait" /\ (cur = 1 \/ faults = 0) =>
    \/ task = Waiting(cur) /\ cur \in Pending
    \/ task = Resumed /\ cur \notin Pending

\* A terminal event tells its subscribers the status the Task record has, one event
\* per Run: the event follows the durable write and nothing is written after it.
EventsAgree == ended \subseteq {task.status}

\* What a client of the API sees of the records.  A decision is seen when the Approval
\* is written, until when the Task still shows waiting; a request, when the Task is.
PhaseSeen ==
  IF \E t \in Thread : pc[t] = "rsApproval" THEN "waiting"
  ELSE IF task.status = "cancel_requested" THEN "cancelling" ELSE task.status
AsksSeen == IF pc[Runner] \in {"rqCreate", "rqTask"} THEN cur - 1 ELSE cur
VerdictsSeen ==
  [a \in Approvals |-> IF approval[a] # "pending" THEN approval[a]
                       ELSE IF a = cur /\ pc[Runner] = "rqTask" THEN "none" ELSE "asked"]

\* With no raising write and no shutdown the Run is RunContract: an Approval is asked
\* when the Task waits for it and answered when its record is decided; a Task ends when
\* its terminal record is written.
Contract == INSTANCE RunContract WITH
  Asks <- MaxApprovals, phase <- PhaseSeen, asked <- AsksSeen, verdict <- VerdictsSeen,
  started <- ran
ImplementsContract == Contract!Spec

\* A cancelled Run converges, or the service degrades and keeps the active bit: but for a
\* Run that ended blocked after a write raised, which a decision may take back to running
\* (BlockedIsFinal) when the cancellation has found nothing left to do.
CancelConverges ==
  token ~> (task.status \in Terminal \/ degraded \/ (goal = "blocked" /\ faults > 0))

\* No thread waits for ever: the Runner's thread returns, with the active bit given back
\* (done) or kept by a service that refuses further work (stuck).
RunReturns == <>(pc[Runner] \in {"done", "stuck"})
=============================================================================
