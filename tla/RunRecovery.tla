--------------------------- MODULE RunRecovery ---------------------------
(***************************************************************************)
(* What outlives the API process, and what a crash at any write makes of   *)
(* it.  A Task is kept in a SQLite row and in a JSON copy written after    *)
(* the row (sqlite_repositories.py), and so is an Approval; a run leaves   *)
(* task_state.json, trace.jsonl and report.json (run_store.py); the        *)
(* journal brackets the writes of an approval (recovery_journal.py); a     *)
(* write Task works in a copy of the workspace that is applied at the end  *)
(* (workspace_isolation.py).  The process may die between any two writes;  *)
(* AppContainer.reconcile (lifespan.py) repairs the records at the next    *)
(* start, and may die too.                                                 *)
(*                                                                         *)
(* The run's thread and the API take turns under the RunGate: a thread     *)
(* holds it over the writes it has to do, except that the run's artifacts  *)
(* are written one by one.  What happens inside one process when a write   *)
(* raises is BackendRun's subject; here a write can raise while the end of *)
(* a run is persisted and while the records are repaired.                  *)
(***************************************************************************)
EXTENDS Naturals, Sequences, FiniteSets

CONSTANTS
    Tasks,        \* the Tasks, in one workspace
    Remote,       \* those of them a Local Worker runs: no artifacts here
    NoTask,       \* no record; no Task
    Earlier,      \* a Task of an earlier process, deleted since
    Files,        \* how many files a completed run has changed
    MaxCrashes,   \* how often the process dies
    MaxFaults     \* how often a write or a read raises

ASSUME RunRecoveryAssumption ==
    /\ Remote \subseteq Tasks
    /\ {NoTask, Earlier} \cap Tasks = {}
    /\ {Files, MaxCrashes, MaxFaults} \subseteq Nat

\* What a Task's record can say.
Statuses == {"queued", "running", "waiting", "cancel_requested", "completed", "cancelled",
             "failed", "blocked", "interrupted", "stopped"}
Reasons  == {"", "user_cancelled", "final_answer_returned", "step_limit_reached",
             "runtime_error", "service_restarted"}
Answers  == {"", "text", "interrupted"}
Recs     == [status : Statuses, reason : Reasons, answer : Answers]

ASSUME NoRecord == NoTask \notin Recs

VARIABLES
    kept,      \* the records, by kind and Task; and what the clients were told
    ws,        \* the workspace: its lease, the copies of it, the files applied
    up,        \* "down", "starting" or "up"
    boot,      \* the restart: its phase, the Tasks it has still to see, ok
    run,       \* the run's thread
    api,       \* the writes of the API's thread, or of the hub's
    crashes, faults

vars == <<kept, ws, up, boot, run, api, crashes, faults>>

---------------------------------------------------------------------------
(* Records *)

\* A Task's record: status, stop_reason and final_answer.
Rec(s, r, a) == [status |-> s, reason |-> r, answer |-> a]

Active == {"queued", "running", "waiting", "cancel_requested"}  \* _RECONCILE_ACTIVE

Known(rec) == rec # NoTask

\* The status of the artifacts that goes with a Task's.
ArtifactStatus(s) ==
    CASE s = "completed" -> "completed" [] s = "cancelled" -> "stopped" [] OTHER -> "failed"

\* terminal_task_from_run: the Task's end that task_state.json stands for.
Readable(t) == Known(kept.state[t]) /\ kept.state[t].status # "running"
Recovered(t) ==
    LET s == kept.state[t]
        public == IF s.status = "completed" /\ s.reason = "final_answer_returned" THEN "completed"
                  ELSE IF s.status = "stopped" /\ s.reason = "user_cancelled" THEN "cancelled"
                  ELSE IF s.reason = "service_restarted" THEN "interrupted"
                  ELSE IF s.reason = "step_limit_reached" THEN "blocked" ELSE "failed"
    IN  Rec(public, s.reason, s.answer)

\* run_artifacts_match
Matches(t, rec) ==
    /\ kept.state[t] = Rec(ArtifactStatus(rec.status), rec.reason, rec.answer)
    /\ Known(kept.report[t])
    /\ kept.report[t].status = ArtifactStatus(rec.status)
    /\ kept.report[t].reason = rec.reason
    /\ kept.trace[t]

\* A write, in a list of writes to be done one after the other.
Write(on, val) == [on |-> on, val |-> val]
RowWrites(rec) == <<Write("row", rec), Write("copy", rec)>>    \* _write_task
AprWrites(s)   == <<Write("apr", s), Write("aprCopy", s)>>     \* _write_approval
Begun          == <<Write("open", TRUE)>>                      \* RecoveryJournal.begin
Committed      == <<Write("open", FALSE)>>                     \* RecoveryJournal.commit

\* converge_run_artifacts
ArtifactWrites(rec) ==
    LET s == Rec(ArtifactStatus(rec.status), rec.reason, rec.answer)
    IN  <<Write("state", s), Write("trace", TRUE), Write("report", s)>>

\* Write w is done for Task t.
Store(t, w) == kept' = [kept EXCEPT ![w.on][t] = w.val]

Idle == [task |-> NoTask, at |-> "idle", todo |-> <<>>, gated |-> FALSE,
         cancelled |-> FALSE, mem |-> NoTask]
Quiet == [task |-> NoTask, todo |-> <<>>]
Resting == [phase |-> "none", left |-> {}, task |-> NoTask, todo |-> <<>>, ok |-> TRUE]

\* The service has started with nothing to repair; the lease of a Task that an
\* earlier process did not finish may not be over.
Init ==
    /\ kept = [row |-> [t \in Tasks |-> NoTask], copy |-> [t \in Tasks |-> NoTask],
               state |-> [t \in Tasks |-> NoTask], report |-> [t \in Tasks |-> NoTask],
               trace |-> [t \in Tasks |-> FALSE],
               apr |-> [t \in Tasks |-> "none"], aprCopy |-> [t \in Tasks |-> "none"],
               open |-> [t \in Tasks |-> FALSE],
               told |-> [t \in Tasks |-> "nothing"], answer |-> [t \in Tasks |-> "none"],
               worked |-> [t \in Tasks |-> FALSE]]
    /\ \E holder \in {NoTask, Earlier} :
          ws = [lease |-> holder, late |-> FALSE, copies |-> {},
                files |-> [t \in Tasks |-> 0], conflict |-> [t \in Tasks |-> FALSE]]
    /\ up = "up" /\ boot = Resting /\ run = Idle /\ api = Quiet
    /\ crashes = 0 /\ faults = 0

Ready == up = "up" /\ boot.ok

---------------------------------------------------------------------------
(* The run's thread *)

RunIs(at) == up = "up" /\ run.at = at /\ run.todo = <<>>

\* The API's thread is in the gate; the run's thread is.
ApiHolds == api.task # NoTask /\ api.task = run.task
RunHolds == run.gated /\ run.todo # <<>>

\* The run's thread goes on to `at` once these writes are done.
GoOn(at, todo, gated) ==
    /\ run' = [run EXCEPT !.at = at, !.todo = todo, !.gated = gated]
    /\ UNCHANGED <<up, boot, api, crashes, faults>>

\* TaskService.create_task and TaskRunner.register.
Create(t) ==
    /\ Ready /\ run = Idle
    /\ t \notin Remote /\ kept.row[t] = NoTask /\ kept.told[t] = "nothing"
    /\ run' = [Idle EXCEPT !.task = t, !.at = "queued", !.gated = TRUE,
                           !.todo = RowWrites(Rec("queued", "", ""))]
    /\ UNCHANGED <<kept, ws, up, boot, api, crashes, faults>>

\* A mutant: the terminal event goes out before the end is persisted.
EndToldFirst(rec) ==
    <<Write("told", rec.status)>>
        \o (IF Matches(run.task, rec) THEN <<>> ELSE ArtifactWrites(rec)) \o RowWrites(rec)

\* _persist_terminal, then run.gate.close() and the terminal event.
EndWrites(rec) ==
    (IF Matches(run.task, rec) THEN <<>> ELSE ArtifactWrites(rec))
        \o RowWrites(rec) \o <<Write("told", rec.status)>>

Begin ==
    /\ RunIs("queued") /\ ~ApiHolds
    /\ IF run.cancelled
       THEN GoOn("ended", EndWrites(Rec("cancelled", "user_cancelled", "")), TRUE)
       ELSE GoOn("lease", RowWrites(Rec("running", "", "")), TRUE)
    /\ UNCHANGED <<kept, ws>>

\* WorkspaceIsolation.prepare: the lease, then the copy; a busy workspace
\* fails the run.
Prepare ==
    /\ RunIs("lease")
    /\ IF ws.lease \in {NoTask, run.task} \/ ws.late
       THEN /\ ws' = [ws EXCEPT !.lease = run.task, !.late = FALSE]
            /\ GoOn("copy", <<>>, FALSE)
       ELSE ws' = ws /\ GoOn("converge", <<>>, FALSE)
    /\ UNCHANGED kept

CopyWorkspace ==
    /\ RunIs("copy")
    /\ ws' = [ws EXCEPT !.copies = @ \cup {run.task}]
    /\ LET s == Rec("running", "", "")
       IN  GoOn("work", <<Write("state", s), Write("trace", TRUE)>>, FALSE)
    /\ UNCHANGED kept

\* ApprovalGate.request
AskApproval ==
    /\ RunIs("work") /\ ~ApiHolds /\ ~run.cancelled
    /\ kept.apr[run.task] = "none"
    /\ GoOn("wait", Begun \o AprWrites("pending")
                          \o RowWrites(Rec("waiting", "", "")) \o Committed, TRUE)
    /\ UNCHANGED <<kept, ws>>

\* ApprovalGate._resolve_locked
ResolveWrites(s) ==
    Begun \o RowWrites(Rec("running", "", "")) \o AprWrites(s) \o Committed

\* ApprovalGate._wait returns; a decision is final once its caller has left the gate.
Answered ==
    /\ RunIs("wait") /\ ~ApiHolds /\ kept.apr[run.task] # "pending"
    /\ GoOn("work", IF kept.apr[run.task] = "approved" /\ ~run.cancelled
                    THEN <<Write("worked", TRUE)>> ELSE <<>>, FALSE)
    /\ UNCHANGED <<kept, ws>>

Expire ==
    /\ RunIs("wait") /\ ~ApiHolds /\ ~run.cancelled /\ kept.apr[run.task] = "pending"
    /\ GoOn("work", ResolveWrites("expired"), TRUE)
    /\ UNCHANGED <<kept, ws>>

\* AgentLoop.run ends, one way or the other, and writes its artifacts.
Ends == {Rec("completed", "final_answer_returned", "text"),
         Rec("stopped", "step_limit_reached", "text"),
         Rec("failed", "runtime_error", "text")}

LoopEnds ==
    /\ RunIs("work") /\ kept.apr[run.task] # "pending"
    /\ \E rec \in (IF run.cancelled THEN {Rec("stopped", "user_cancelled", "")} ELSE Ends) :
          run' = [run EXCEPT !.at = "gate", !.mem = rec, !.gated = FALSE,
                     !.todo = <<Write("state", rec), Write("trace", TRUE), Write("report", rec)>>]
    /\ UNCHANGED <<kept, ws, up, boot, api, crashes, faults>>

\* run_native: the review gate may stop a run that had completed; finalize_run.
Gated ==
    /\ RunIs("gate")
    /\ \E rec \in {run.mem} \cup (IF run.mem.status = "completed"
                                  THEN {Rec("stopped", "step_limit_reached", "text")} ELSE {}) :
          run' = [run EXCEPT !.at = "apply", !.mem = rec,
                     !.todo = <<Write("state", rec), Write("report", rec)>>]
    /\ UNCHANGED <<kept, ws, up, boot, api, crashes, faults>>

\* WorkspaceIsolation.finalize: a completed run's files, one by one, unless one
\* of them was changed meanwhile.
ApplyFile ==
    /\ RunIs("apply") /\ run.mem.status = "completed"
    /\ ws.files[run.task] < Files
    /\ ws' = [ws EXCEPT !.files[run.task] = @ + 1]
    /\ GoOn("apply", <<>>, FALSE) /\ UNCHANGED kept

Conflict ==
    /\ RunIs("apply") /\ run.mem.status = "completed"
    /\ ws.files[run.task] = 0
    /\ ws' = [ws EXCEPT !.conflict[run.task] = TRUE]
    /\ GoOn("release", <<>>, FALSE) /\ UNCHANGED kept

Applied ==
    /\ RunIs("apply")
    /\ run.mem.status # "completed" \/ ws.files[run.task] = Files
    /\ GoOn("release", <<>>, FALSE) /\ UNCHANGED <<kept, ws>>

ReleaseLease ==
    /\ RunIs("release")
    /\ ws' = IF ws.lease = run.task THEN [ws EXCEPT !.lease = NoTask, !.late = FALSE] ELSE ws
    /\ GoOn("rmtree", <<>>, FALSE) /\ UNCHANGED kept

RemoveCopy ==
    /\ RunIs("rmtree")
    /\ ws' = [ws EXCEPT !.copies = @ \ {run.task}]
    /\ GoOn("converge", <<>>, FALSE) /\ UNCHANGED kept

\* TaskRunner._converge_terminal: what the run's end is called in public.
Outcome ==
    IF run.cancelled THEN Rec("cancelled", "user_cancelled", "")
    ELSE IF run.mem = NoTask THEN Rec("failed", "runtime_error", "")
    ELSE LET m == run.mem
             public == IF m.status = "completed" THEN "completed"
                       ELSE IF m.reason = "user_cancelled" THEN "cancelled"
                       ELSE IF m.reason = "step_limit_reached" THEN "blocked"
                       ELSE "failed"
         IN  Rec(public, m.reason, m.answer)

Converge ==
    /\ RunIs("converge") /\ ~ApiHolds
    /\ GoOn("ended", EndWrites(Outcome), TRUE)
    /\ UNCHANGED <<kept, ws>>

Release ==
    /\ RunIs("ended")
    /\ run' = Idle
    /\ UNCHANGED <<kept, ws, up, boot, api, crashes, faults>>

\* The next write of the run's thread.
RunWrites ==
    /\ up = "up" /\ run.todo # <<>>
    /\ run.gated \/ ~ApiHolds
    /\ Store(run.task, Head(run.todo))
    /\ run' = [run EXCEPT !.todo = Tail(@)]
    /\ UNCHANGED <<ws, up, boot, api, crashes, faults>>

\* A write of the run's end raises: the active bit stays held, the service is
\* degraded.
EndFails ==
    /\ up = "up" /\ run.at = "ended" /\ run.todo # <<>>
    /\ Head(run.todo).on # "told"
    /\ faults < MaxFaults /\ faults' = faults + 1
    /\ run' = [run EXCEPT !.at = "stuck", !.todo = <<>>]
    /\ boot' = [boot EXCEPT !.ok = FALSE]
    /\ UNCHANGED <<kept, ws, up, api, crashes>>

RunStep ==
    \/ Begin \/ Prepare \/ CopyWorkspace \/ AskApproval \/ Answered \/ Expire
    \/ LoopEnds \/ Gated \/ ApplyFile \/ Conflict \/ Applied \/ ReleaseLease
    \/ RemoveCopy \/ Converge \/ Release \/ RunWrites

---------------------------------------------------------------------------
(* The API's threads and the hub *)

ApiDoes(t, todo) ==
    /\ up = "up" /\ api = Quiet
    /\ ~(t = run.task /\ RunHolds)
    /\ api' = [task |-> t, todo |-> todo]
    /\ UNCHANGED <<kept, ws, up, boot, run, crashes, faults>>

\* TaskRunner.cancel, which cancels the pending Approval too.
Cancel ==
    /\ run.task # NoTask /\ ~run.cancelled /\ run.at \notin {"idle", "stuck"}
    /\ Known(kept.row[run.task]) /\ kept.row[run.task].status \in Active
    /\ ApiDoes(run.task, RowWrites(Rec("cancel_requested", "", "")) \o <<Write("token", TRUE)>>
                  \o IF kept.apr[run.task] = "pending" THEN AprWrites("cancelled") ELSE <<>>)

\* ApprovalGate.apply_decision; the answer to the client comes last.
Decide(d) ==
    /\ run.at = "wait" /\ ~run.cancelled
    /\ kept.apr[run.task] = "pending"
    /\ ApiDoes(run.task, ResolveWrites(d) \o <<Write("answer", d)>>)

\* The hub's Tasks: dispatched, accepted, completed by the Worker.
RemoteStart(t) ==
    /\ Ready /\ t \in Remote /\ kept.row[t] = NoTask /\ kept.told[t] = "nothing"
    /\ ApiDoes(t, RowWrites(Rec("queued", "", "")) \o RowWrites(Rec("running", "", "")))

RemoteEnds(t) ==
    /\ t \in Remote /\ Known(kept.row[t]) /\ kept.row[t].status = "running"
    /\ ApiDoes(t, RowWrites(Rec("completed", "final_answer_returned", "text"))
                     \o <<Write("told", "completed")>>)

ApiWrites ==
    /\ up = "up" /\ api.todo # <<>>
    /\ LET w == Head(api.todo)
       IN  IF w.on = "token"
           THEN run' = [run EXCEPT !.cancelled = TRUE] /\ kept' = kept
           ELSE Store(api.task, w) /\ run' = run
    /\ api' = IF Len(api.todo) = 1 THEN Quiet ELSE [api EXCEPT !.todo = Tail(@)]
    /\ UNCHANGED <<ws, up, boot, crashes, faults>>

---------------------------------------------------------------------------
(* Crash and restart *)

\* The process dies; its threads and what they were about to write are gone.
Crash ==
    /\ up # "down" /\ crashes < MaxCrashes
    /\ crashes' = crashes + 1
    /\ up' = "down" /\ boot' = Resting /\ run' = Idle /\ api' = Quiet
    /\ UNCHANGED <<kept, ws, faults>>

\* The hour of a lease (LEASE_TTL_SECONDS) is over.
LeaseExpires ==
    /\ ws.lease # NoTask /\ ~ws.late
    /\ ws' = [ws EXCEPT !.late = TRUE]
    /\ UNCHANGED <<kept, up, boot, run, api, crashes, faults>>

Boot ==
    /\ up = "down" /\ up' = "starting"
    /\ boot' = [Resting EXCEPT !.phase = "import", !.left = Tasks]
    /\ UNCHANGED <<kept, ws, run, api, crashes, faults>>

BootIs(phase) == up = "starting" /\ boot.phase = phase /\ boot.todo = <<>>

\* Task t is seen, with these writes to do for it.  The Tasks are seen in some
\* one order: nothing done for one depends on another.
See(t, todo) ==
    /\ t = CHOOSE x \in boot.left : TRUE
    /\ boot' = [boot EXCEPT !.left = @ \ {t}, !.task = t, !.todo = todo]
    /\ UNCHANGED <<kept, ws, up, run, api, crashes, faults>>

Enter(phase) ==
    boot' = [boot EXCEPT !.phase = phase, !.left = Tasks, !.task = NoTask]

\* ControlPlaneMigrator.import_json: every JSON copy over its row.
Import(t) ==
    /\ BootIs("import") /\ t \in boot.left
    /\ See(t, (IF Known(kept.copy[t]) THEN <<Write("row", kept.copy[t])>> ELSE <<>>)
              \o (IF kept.aprCopy[t] # "none" THEN <<Write("apr", kept.aprCopy[t])>> ELSE <<>>))

\* A copy cannot be read: nothing is imported, the service will not be ready.
ImportFails ==
    /\ BootIs("import") /\ boot.left = Tasks
    /\ faults < MaxFaults /\ faults' = faults + 1
    /\ boot' = [boot EXCEPT !.left = {}, !.ok = FALSE]
    /\ UNCHANGED <<kept, ws, up, run, api, crashes>>

\* WorkspaceIsolation.recover_expired: leases that are over, copies no lease holds.
RecoverExpired ==
    /\ BootIs("import") /\ boot.left = {}
    /\ ws' = IF ws.lease = NoTask \/ ws.late
             THEN [ws EXCEPT !.lease = NoTask, !.late = FALSE, !.copies = {}] ELSE ws
    /\ Enter("tasks")
    /\ UNCHANGED <<kept, up, run, api, crashes, faults>>

Interrupted == Rec("interrupted", "service_restarted", "")

\* repair_terminal_run_artifacts
RepairWrites(t) ==
    LET s == kept.state[t]
    IN  (IF kept.trace[t] THEN <<>> ELSE <<Write("trace", TRUE)>>)
          \o (IF Known(kept.report[t]) /\ kept.report[t].status = s.status
                 /\ kept.report[t].reason = s.reason
              THEN <<>> ELSE <<Write("report", s)>>)

\* A mutant: a Task that waits is not among the Tasks to be repaired.
RepairsRunning(t) ==
    LET rec == kept.row[t]
    IN  IF ~Known(rec) \/ rec.status = "waiting" THEN <<>>
        ELSE IF rec.status \in Active
        THEN IF t \in Remote THEN RowWrites(Interrupted)
             ELSE IF Readable(t) THEN RepairWrites(t) \o RowWrites(Recovered(t))
             ELSE ArtifactWrites([Interrupted EXCEPT !.answer = "interrupted"])
                      \o RowWrites(Interrupted)
        ELSE IF t \notin Remote /\ ~Matches(t, rec) THEN ArtifactWrites(rec) ELSE <<>>

\* A mutant: the row is written before the artifacts are repaired, and a Task
\* that has ended is not looked at again.
RowFirst(t) ==
    LET rec == kept.row[t]
    IN  IF ~Known(rec) \/ rec.status \notin Active THEN <<>>
        ELSE IF t \in Remote THEN RowWrites(Interrupted)
        ELSE IF Readable(t) THEN RowWrites(Recovered(t)) \o RepairWrites(t)
        ELSE RowWrites(Interrupted) \o ArtifactWrites([Interrupted EXCEPT !.answer = "interrupted"])

\* What reconcile does about Task t.
Repairs(t) ==
    LET rec == kept.row[t]
    IN  IF ~Known(rec) THEN <<>>
        ELSE IF rec.status \in Active
        THEN IF t \in Remote THEN RowWrites(Interrupted)
             ELSE IF Readable(t) THEN RepairWrites(t) \o RowWrites(Recovered(t))
             ELSE ArtifactWrites([Interrupted EXCEPT !.answer = "interrupted"])
                      \o RowWrites(Interrupted)
        ELSE IF t \notin Remote /\ ~Matches(t, rec) THEN ArtifactWrites(rec) ELSE <<>>

Reconcile(t) == BootIs("tasks") /\ t \in boot.left /\ See(t, Repairs(t))

ExpireApproval(t) ==
    /\ BootIs("approvals") /\ t \in boot.left
    /\ See(t, IF kept.apr[t] = "pending" THEN AprWrites("expired") ELSE <<>>)

\* A mutant: the journal's commit records are not looked at.
CloseEvery(t) ==
    /\ BootIs("journal") /\ t \in boot.left
    /\ See(t, (IF kept.apr[t] \in {"pending", "approved"} THEN AprWrites("expired") ELSE <<>>)
              \o Committed)

\* A transition the journal has begun and not committed.
CloseTransition(t) ==
    /\ BootIs("journal") /\ t \in boot.left
    /\ See(t, IF ~kept.open[t] THEN <<>>
              ELSE (IF kept.apr[t] \in {"pending", "approved"} THEN AprWrites("expired") ELSE <<>>)
                     \o Committed)

NextPhase ==
    /\ boot.left = {}
    /\ \/ BootIs("tasks") /\ Enter("approvals") /\ up' = up
       \/ BootIs("approvals") /\ Enter("journal") /\ up' = up
       \/ BootIs("journal") /\ up' = "up" /\ boot' = [Resting EXCEPT !.ok = boot.ok]
    /\ UNCHANGED <<kept, ws, run, api, crashes, faults>>

BootWrites ==
    /\ up = "starting" /\ boot.todo # <<>>
    /\ Store(boot.task, Head(boot.todo))
    /\ boot' = [boot EXCEPT !.todo = Tail(@)]
    /\ UNCHANGED <<ws, up, run, api, crashes, faults>>

\* A write of the restart raises: the record is left as it is, and the service
\* will not be ready.
BootFails ==
    /\ up = "starting" /\ boot.todo # <<>> /\ boot.phase # "import"
    /\ faults < MaxFaults /\ faults' = faults + 1
    /\ boot' = [boot EXCEPT !.todo = <<>>, !.ok = FALSE]
    /\ UNCHANGED <<kept, ws, up, run, api, crashes>>

BootStep ==
    \/ Boot \/ RecoverExpired \/ NextPhase \/ BootWrites
    \/ \E t \in Tasks : Import(t) \/ Reconcile(t) \/ ExpireApproval(t) \/ CloseTransition(t)

Next ==
    \/ RunStep \/ BootStep \/ ApiWrites
    \/ EndFails \/ ImportFails \/ BootFails
    \/ Cancel \/ Crash \/ LeaseExpires
    \/ \E d \in {"approved", "rejected"} : Decide(d)
    \/ \E t \in Tasks : Create(t) \/ RemoteStart(t) \/ RemoteEnds(t)

Spec == Init /\ [][Next]_vars

\* Threads run on; a process that died is started again.
FairSpec == Spec /\ WF_vars(RunStep) /\ WF_vars(BootStep) /\ WF_vars(ApiWrites)

---------------------------------------------------------------------------
(* Properties *)

Ended(t) == Known(kept.row[t]) /\ kept.row[t].status \notin Active

\* The records are kinds of records: a Task's status is one the code gives, a
\* copy is never ahead of its row's existence, and only one thread writes a Task.
TypeOK ==
    /\ \A t \in Tasks :
          /\ Known(kept.row[t]) => kept.row[t].status \in
                Active \cup {"completed", "cancelled", "failed", "interrupted", "blocked"}
          /\ Known(kept.copy[t]) => Known(kept.row[t])
          /\ kept.apr[t] \in {"none", "pending", "approved", "rejected", "expired", "cancelled"}
          /\ ws.files[t] \in 0..Files
    /\ ws.lease \in Tasks \cup {NoTask, Earlier} /\ ws.copies \subseteq Tasks
    /\ up # "up" => run = Idle /\ api = Quiet
    /\ up # "starting" => boot.todo = <<>>

\* reconcile says that the service is ready only when every Task has ended, a
\* backend Task's end is the one its artifacts tell, no Approval is pending and
\* the journal has no open transition (lifespan.py reconcile), wherever the
\* process, or an earlier restart, has died.
RestartSettles ==
    [][(up = "starting" /\ up' = "up" /\ boot'.ok) =>
          \A t \in Tasks : Known(kept.row[t]) =>
             /\ Ended(t)
             /\ t \notin Remote => /\ Readable(t) /\ kept.trace[t]
                                   /\ Recovered(t).status = kept.row[t].status
                                   /\ Recovered(t).reason = kept.row[t].reason
                                   /\ kept.report[t].reason = kept.row[t].reason
             /\ kept.apr[t] # "pending" /\ ~kept.open[t]]_vars

\* The end a client was told (the terminal event, published after the artifacts,
\* the row and its copy are written) is the Task's end after any restart, also
\* where the run's artifacts said something else before the end was persisted
\* (a run that had completed when it was cancelled).
ToldEndsStay ==
    Ready => \A t \in Tasks : kept.told[t] # "nothing" => kept.row[t].status = kept.told[t]

\* A decision its client got an answer to, and an approval a tool has acted on,
\* are never taken back: not by a restart that finds Approvals to expire, nor by
\* one that dies half way (ApprovalGate._resolve_locked, RecoveryJournal.incomplete).
DecisionsStay ==
    \A t \in Tasks :
        /\ kept.answer[t] # "none" => kept.apr[t] = kept.answer[t]
        /\ kept.worked[t] => kept.apr[t] = "approved"

\* Every Task of the backend ends, in this process or at a restart, unless the service
\* says that it is not ready: _RECONCILE_ACTIVE has every state a Task can be left in.
\* (A remote Task ends with its connection or its Worker's terminal: WorkerHub.)
TasksEnd ==
    \A t \in Tasks \ Remote :
        (Known(kept.row[t]) /\ ~Ended(t)) ~> (Ended(t) \/ ~boot.ok)

\* "The mirror is a compatibility/cross-check copy, not the durability source of
\* truth (SQLite is)" (sqlite_repositories.py, _JsonMirror.write): a Task that has
\* ended in SQLite does not go back because its copy is older.  It does not hold:
\* the import at a start writes whatever the copies say (sqlite_repositories.py:618).
EndsAreKept ==
    [][\A t \in Tasks : Ended(t) => kept'.row[t].status = kept.row[t].status]_vars

\* "On a successful completion the changed files are applied back to the real
\* workspace" (workspace_isolation.py): a Task that is completed has its files
\* applied, or a conflict reported.  It does not hold: a crash between the run's
\* own completion and finalize leaves a completed Task whose files are lost.
CompletedIsApplied ==
    Ready => \A t \in Tasks \ Remote :
        (t # run.task /\ Ended(t) /\ kept.row[t].status = "completed")
            => ws.conflict[t] \/ ws.files[t] = Files
=============================================================================
