---------------------------- MODULE AgentLoop ----------------------------
(***************************************************************************)
(* One run of the agent: AgentLoop.run and _run_loop (agent_loop.py), the  *)
(* review sub-agent they call (evaluation/review_subagent.py), planning    *)
(* (planning.py), one tool call (tool_executor.py), and what encloses the  *)
(* loop: run_native (native_runner.py) with its completion gate            *)
(* (evaluation/review_gate.py) and finalize_run (run_lifecycle.py).        *)
(*                                                                         *)
(* A step is the code between two points where another party may act: the  *)
(* model, a tool, the user who cancels, a store that fails.  What the      *)
(* model and the tools answer is a free choice; texts, prompts and token   *)
(* counts are left out, so the budget may run out at any turn (CapMayHit). *)
(***************************************************************************)
EXTENDS Naturals, FiniteSets, Sequences

CONSTANTS
    Goals,          \* the goals a plan may set (planning.py)
    MaxAttempts,    \* MAX_ATTEMPTS_SAFETY, 500 in the code
    Tolerance,      \* STAGNATION_TOLERANCE, 3
    MaxTalks,       \* MAX_CONSECUTIVE_TALKS, 2
    MaxRepairs,     \* MAX_PROTOCOL_REPAIRS, 1
    PollActions,    \* REVIEW_POLL_ACTIONS, 6
    MaxBattles,     \* REVIEW_BATTLE_MAX_ROUNDS, 2
    MaxReviewSteps, \* REVIEW_MAX_STEPS, 5
    MaxBatch,       \* MAX_PARALLEL_TOOLS, 8
    ReviewOn,       \* the feature flag review_subagent
    Social,         \* whether the request is a greeting or thanks and nothing else
    CapMayHit,      \* whether the run may exhaust its time or its tokens
    QuietLeftovers, \* whether a process cleanup may fail where the exception is swallowed
    MaxFaults       \* how many writes of the run's artifacts may fail

ASSUME AgentAssumption ==
    /\ {MaxAttempts, Tolerance, PollActions, MaxBattles, MaxReviewSteps, MaxBatch} \subseteq Nat \ {0}
    /\ {MaxTalks, MaxRepairs, MaxFaults} \subseteq Nat
    /\ {ReviewOn, Social, CapMayHit, QuietLeftovers} \subseteq BOOLEAN
    /\ IsFiniteSet(Goals)

VARIABLES
    pc,      \* where the run's thread is
    loop,    \* the locals of _run_loop
    turn,    \* the signals of the turn in progress, read at the next top
    task,    \* the TaskState in memory
    review,  \* the review in progress and its verdict, until the loop has acted on it
    disk,    \* what the run store and the event stream were given
    signal   \* the cancellation token, stray processes, failed writes

vars == <<pc, loop, turn, task, review, disk, signal>>

-----------------------------------------------------------------------------
(* The TaskState of a run. *)

\* The phase items that set_phase and finish_post_tool_reasoning tick off.
Phases == {"understand", "gather", "analyze"}

Kinds == {"read", "write", "shell"}
Statuses == {"running", "completed", "stopped", "failed"}

\* TaskState.create, as run() leaves it when the loop is about to start.
NewTask ==
    [status |-> "running", reason |-> "none", plan |-> {}, done |-> {"understand"},
     wroteOk |-> FALSE, lastWrites |-> FALSE, verified |-> FALSE, badTool |-> FALSE,
     emitted |-> FALSE]

Stopped(t, status, reason) == [t EXCEPT !.status = status, !.reason = reason]

\* finish_post_tool_reasoning
Reasoned(t) == [t EXCEPT !.done = @ \cup {"gather", "analyze"}]

\* complete_item: only a goal of the checklist can be ticked off.
Ticked(t, goals) == [t EXCEPT !.done = @ \cup (goals \cap t.plan)]

NewTurn ==
    [calls |-> <<>>, batch |-> FALSE, tool |-> FALSE, repeated |-> FALSE, talked |-> FALSE, rejected |-> FALSE]

NewLoop ==
    [attempts |-> 0, finalOnly |-> FALSE, finalTried |-> FALSE, bad |-> 0,
     rejected |-> 0, talks |-> 0, repairs |-> 0, protocolFailed |-> FALSE,
     since |-> 0, interval |-> PollActions, redirects |-> 0, wrote |-> FALSE,
     awaiting |-> FALSE, battle |-> 0, batched |-> FALSE]

NoReview == [for |-> "none", step |-> 0, verdict |-> "none"]

Init ==
    /\ pc = "plan"
    /\ loop = NewLoop
    /\ turn = NewTurn
    /\ task = NewTask
    /\ review = NoReview
    /\ disk = [stored |-> "running", announced |-> <<>>]
    /\ signal = [cancelled |-> "no", leftover |-> FALSE, faults |-> 0]

\* The locals of _run_loop end with it.
LeaveFor(place) ==
    /\ pc' = place
    /\ loop' = NewLoop
    /\ turn' = NewTurn
    /\ review' = NoReview

-----------------------------------------------------------------------------
(* Cancellation and faults. *)

Cancelled == signal.cancelled # "no"

\* The last boundary at which the loop looks at its token is the review of
\* the final answer: past these points the run ends as it was about to end.
PastBoundaries == {"judged", "finish", "announce", "report", "after", "cancelling", "cleanup",
                   "raised", "gate", "persist", "backfill", "lost", "close", "returned"}

\* ActiveRun.cancel sets the token from the connection's thread.
Cancel ==
    /\ ~Cancelled
    /\ pc # "returned"
    /\ signal' = [signal EXCEPT !.cancelled = IF pc \in PastBoundaries THEN "late" ELSE "early"]
    /\ UNCHANGED <<pc, loop, turn, task, review, disk>>

\* token.raise_if_cancelled(), or a model call that the token interrupts.
SeeCancel ==
    /\ Cancelled
    /\ pc \in {"head", "ask", "answer", "final", "reviewing", "tool"}
    /\ LeaveFor("cancelling")
    /\ UNCHANGED <<task, disk, signal>>

Faulty == signal.faults < MaxFaults
Fault == signal' = [signal EXCEPT !.faults = @ + 1]

\* A write of task_state.json, of the trace or of the report fails: the
\* exception leaves the loop, and its cancel and cleanup handlers, for
\* run_native.
StoreRaises ==
    /\ Faulty
    /\ pc \in {"plan", "ask", "answer", "judged", "finish", "report",
               "after", "cancelling", "cleanup"}
    /\ Fault
    /\ LeaveFor("raised")
    /\ UNCHANGED <<task, disk>>

\* The model's client reports an error it does not retry.
ModelRaises ==
    /\ pc = "answer"
    /\ ~Cancelled
    /\ LeaveFor("raised")
    /\ UNCHANGED <<task, disk, signal>>

-----------------------------------------------------------------------------
(* Planning. *)

\* parse_plan_steps: a plan has steps, or the call failed and there is none.
Plans == SUBSET Goals \ {{}}

\* _initial_plan; a purely social request is not planned, and a failed
\* planning call leaves the template of phases, which is no explicit plan.
InitialPlan ==
    /\ pc = "plan"
    /\ \E plan \in IF Social THEN {{}} ELSE Plans \cup {{}} :
         task' = [task EXCEPT !.plan = plan]
    /\ pc' = "head"
    /\ UNCHANGED <<loop, turn, review, disk, signal>>

\* _replan: what was ticked off stays ticked off.
Replanned(t) == {[t EXCEPT !.plan = plan] : plan \in Plans \cup {t.plan}}

-----------------------------------------------------------------------------
(* The top of a turn. *)

\* The while condition.
MoreTurns == loop.attempts < MaxAttempts /\ ~loop.finalTried

TopOfTurn ==
    /\ pc = "head"
    /\ IF MoreTurns THEN ~Cancelled /\ pc' = "judge" ELSE pc' = "after"
    /\ UNCHANGED <<loop, turn, task, review, disk, signal>>

\* A stop that returns from inside the loop: the state is written, and
\* run_finished is left to finalize_run.
ReturnStopped(t, reason) ==
    /\ task' = Stopped(t, "stopped", reason)
    /\ disk' = [disk EXCEPT !.stored = "stopped"]
    /\ LeaveFor("gate")

\* The wall clock or the token budget is used up.
CapHit ==
    /\ pc = "judge"
    /\ CapMayHit
    /\ ReturnStopped(task, "budget_exhausted")
    /\ UNCHANGED signal

\* The turn that just ended was bad: it showed nothing at all, or its tools
\* only repeated.  The first turn has no predecessor to judge.
SilentTurn == ~turn.rejected /\ ~turn.tool /\ ~turn.talked
BadTurn == loop.attempts > 0 /\ (SilentTurn \/ (turn.tool /\ turn.repeated))
BadRun == IF BadTurn THEN loop.bad + 1 ELSE 0
RejectedRun == IF turn.rejected /\ ~turn.tool THEN loop.rejected + 1 ELSE 0

\* _check_checklist_progress: the file:, grep: and cmd: criteria that hold
\* tick their goals off.  A cmd: criterion runs a shell, and _verify_done_when
\* takes any exception, a failed process cleanup too, for "not yet".
Checked == {Ticked(task, goals) : goals \in SUBSET task.plan}
ShellOfCheckLeft == {signal.leftover, signal.leftover \/ (QuietLeftovers /\ task.plan # {})}

Judge ==
    /\ pc = "judge"
    /\ \E checked \in Checked, left \in ShellOfCheckLeft :
         LET judged == [checked EXCEPT !.badTool = @ \/ (BadTurn /\ turn.tool)]
             stagnant == BadRun >= Tolerance
         IN /\ signal' = [signal EXCEPT !.leftover = left]
            /\ IF RejectedRun >= 2
               THEN ReturnStopped(judged, "convergence_guard_triggered")
               ELSE /\ task' = judged
                    /\ turn' = NewTurn
                    /\ loop' = [loop EXCEPT !.bad = BadRun, !.rejected = RejectedRun,
                                            !.finalOnly = stagnant, !.finalTried = @ \/ stagnant]
                    /\ pc' = "ask"
                    /\ UNCHANGED <<disk, review>>

\* A mutant of Ask: the attempt is not counted.
AskUncounted ==
    /\ pc = "ask"
    /\ ~Cancelled
    /\ pc' = "answer"
    /\ UNCHANGED <<loop, turn, task, review, disk, signal>>

\* From here the attempt counts; the prompt is built, boundary 3 is passed
\* and the model is called.
Ask ==
    /\ pc = "ask"
    /\ ~Cancelled
    /\ loop' = [loop EXCEPT !.attempts = @ + 1]
    /\ pc' = "answer"
    /\ UNCHANGED <<turn, task, review, disk, signal>>

-----------------------------------------------------------------------------
(* What the model may answer. *)

\* The shapes of an answer and what parse makes of them.  A final answer that
\* only announces work to come is not one.
Parsed ==
    [native_call |-> "tool", json_call |-> "tool", tool_tag |-> "tool",
     native_batch |-> "tool_batch", talk |-> "talk", final |-> "final",
     deferred |-> "retry", empty_final |-> "retry", plain |-> "retry",
     bad_call |-> "retry", empty |-> "retry"]

Replies == DOMAIN Parsed

\* Without tool definitions, no native call comes back.
Answered(reply) ==
    /\ pc = "answer" /\ ~Cancelled
    /\ loop.finalOnly => reply \notin {"native_call", "native_batch"}

\* A text without the marks of a tool, a talk or a retry.
PlainText == {"plain", "deferred", "empty_final"}

\* In the finalization turn tools are off: plain text is taken for the final
\* answer of a run that wrote nothing, and anything else ends the loop.
RefuseInFinalization(reply) ==
    /\ Answered(reply) /\ loop.finalOnly
    /\ Parsed[reply] # "final"
    /\ loop.wrote \/ reply \notin PlainText
    /\ pc' = "after"
    /\ UNCHANGED <<loop, turn, task, review, disk, signal>>

\* A talk past the limit is refused, and still counts as a turn that talked.
Talk(reply) ==
    /\ Answered(reply) /\ Parsed[reply] = "talk" /\ ~loop.finalOnly
    /\ turn' = [turn EXCEPT !.talked = TRUE]
    /\ loop' = [loop EXCEPT !.talks = IF @ >= MaxTalks THEN @ ELSE @ + 1]
    /\ pc' = "head"
    /\ UNCHANGED <<task, review, disk, signal>>

\* A tool call is the rebuttal of a review that approved the end.
Acting == [loop EXCEPT !.awaiting = FALSE, !.talks = 0]

OneTool(reply) ==
    /\ Answered(reply) /\ Parsed[reply] = "tool" /\ ~loop.finalOnly
    /\ \E kind \in Kinds : turn' = [turn EXCEPT !.calls = <<kind>>]
    /\ loop' = Acting
    /\ pc' = "tool"
    /\ UNCHANGED <<task, review, disk, signal>>

\* A batch is cut to MaxBatch calls.
ToolBatch(reply) ==
    /\ Answered(reply) /\ Parsed[reply] = "tool_batch" /\ ~loop.finalOnly
    /\ loop.awaiting => loop.batched
    /\ \E n \in 1..MaxBatch : \E calls \in [1..n -> Kinds] :
         turn' = [turn EXCEPT !.calls = calls, !.batch = TRUE]
    /\ loop' = [Acting EXCEPT !.batched = TRUE]
    /\ pc' = "tool"
    /\ UNCHANGED <<task, review, disk, signal>>

\* The rebuttal's trace names the tools of a batch that is not unpacked yet:
\* the first batch of a run, while a confirmation is awaited, raises.
FirstBatchRaises(reply) ==
    /\ Answered(reply) /\ Parsed[reply] = "tool_batch" /\ ~loop.finalOnly
    /\ loop.awaiting /\ ~loop.batched
    /\ LeaveFor("raised")
    /\ UNCHANGED <<task, disk, signal>>

\* An answer that cannot be parsed is repaired MaxRepairs times in a run.
Retry(reply) ==
    /\ Answered(reply) /\ Parsed[reply] = "retry" /\ ~loop.finalOnly
    /\ IF loop.repairs < MaxRepairs
       THEN /\ loop' = [loop EXCEPT !.talks = 0, !.repairs = @ + 1]
            /\ pc' = "head"
       ELSE /\ loop' = [loop EXCEPT !.talks = 0, !.protocolFailed = TRUE]
            /\ pc' = "after"
    /\ UNCHANGED <<turn, task, review, disk, signal>>

Final(reply) ==
    /\ Answered(reply)
    /\ \/ Parsed[reply] = "final"
       \/ loop.finalOnly /\ ~loop.wrote /\ reply \in PlainText
    /\ pc' = "final"
    /\ UNCHANGED <<loop, turn, task, review, disk, signal>>

-----------------------------------------------------------------------------
(* Tools. *)

\* What ToolExecutor.execute reports of one call: it succeeded (partly), it
\* changed files, or it was refused, failed or repeats an earlier call.  Only
\* a read can both succeed and repeat: its result is compared too.
Outcomes(kind) ==
    {o \in [ok : BOOLEAN, changed : BOOLEAN, repeated : BOOLEAN] :
        /\ o.changed => o.ok /\ kind # "read"
        /\ o.repeated => ~o.ok \/ kind = "read"}

\* _tool_counts_as_write: a write whatever became of it, a shell that changed
\* the workspace.
CountsAsWrite(kind, o) == kind = "write" \/ (kind = "shell" /\ o.changed)

\* _commit_tool_action for the calls of a turn, in their declared order.
Committed(t, calls, o) ==
    [Reasoned(t) EXCEPT
        !.lastWrites = calls[Len(calls)] # "read",
        !.wroteOk = @ \/ \E i \in DOMAIN calls : calls[i] # "read" /\ o[i].ok]

\* One call is bad when it repeats; a batch when all its calls failed or repeat.
AllBad(calls, o) ==
    IF Len(calls) = 1 /\ ~turn.batch
    THEN o[1].repeated
    ELSE \A i \in DOMAIN calls : ~o[i].ok \/ o[i].repeated

PollDue == loop.since + Len(turn.calls) >= loop.interval

\* run_review when the feature is on; _maybe_run_review lets the end pass
\* when it is off.
StartReview(trigger) ==
    IF ReviewOn
    THEN /\ pc' = "reviewing"
         /\ review' = [for |-> trigger, step |-> 0, verdict |-> "none"]
    ELSE /\ pc' = "judged"
         /\ review' = [for |-> trigger, step |-> 0, verdict |-> "disabled"]

\* The calls run and are committed; the actions since the last review are
\* counted, and the review that polls the run may be due.
RunTools ==
    /\ pc = "tool"
    /\ \E o \in [DOMAIN turn.calls -> UNION {Outcomes(k) : k \in Kinds}] :
         /\ \A i \in DOMAIN turn.calls : o[i] \in Outcomes(turn.calls[i])
         /\ task' = Committed(task, turn.calls, o)
         /\ turn' = [turn EXCEPT !.tool = TRUE, !.repeated = AllBad(turn.calls, o),
                                !.calls = <<>>, !.batch = FALSE]
         /\ loop' = [loop EXCEPT
              !.since = IF PollDue THEN 0 ELSE @ + Len(turn.calls),
              !.wrote = @ \/ \E i \in DOMAIN turn.calls : CountsAsWrite(turn.calls[i], o[i])]
    /\ IF PollDue
       THEN StartReview("poll")
       ELSE pc' = "head" /\ UNCHANGED review
    /\ UNCHANGED <<disk, signal>>

\* A shell that had to be killed, and of which it is not known whether it
\* died: ProcessCleanupFailed passes through the executor and out of the loop.
ShellEscapes ==
    /\ pc = "tool"
    /\ \E i \in DOMAIN turn.calls : turn.calls[i] = "shell"
    /\ signal' = [signal EXCEPT !.leftover = TRUE]
    /\ LeaveFor("cleanup")
    /\ UNCHANGED <<task, disk>>

-----------------------------------------------------------------------------
(* The review sub-agent. *)

\* build_review_obstacles: an unverified write, an unfinished plan, a turn
\* whose tools failed.  The loop never sets verification_passed.
Obstacles == loop.wrote \/ task.plan \ task.done # {} \/ task.badTool

\* A mutant of Gated: the review's word is enough for a write.
GatedByWords(verdict, rebutted) ==
    IF verdict = "finalize" /\ Obstacles /\ ~rebutted THEN "redirect" ELSE verdict

\* The runtime overrides a finalize: a write needs a verification that some
\* review ran, and obstacles need an answer in the review's words.
Gated(verdict, rebutted) ==
    IF /\ verdict = "finalize"
       /\ \/ loop.wrote /\ ~task.verified
          \/ Obstacles /\ ~rebutted
    THEN "redirect" ELSE verdict

Judged(verdict) ==
    /\ review' = [review EXCEPT !.verdict = verdict, !.step = 0]
    /\ pc' = "judged"

\* _apply_review_completed_steps: goals the review confirms are ticked off.
ReviewDecides ==
    /\ pc = "reviewing"
    /\ ~Cancelled
    /\ \E verdict \in {"finalize", "continue", "redirect"}, rebutted \in BOOLEAN :
         /\ Judged(Gated(verdict, rebutted))
         /\ \E goals \in IF Gated(verdict, rebutted) = verdict THEN SUBSET task.plan ELSE {{}} :
              task' = Ticked(task, goals)
    /\ UNCHANGED <<loop, turn, disk, signal>>

\* The review uses a tool or answers with nothing usable.  A shell that exits
\* with 0 verifies the run; any exception of a tool, ProcessCleanupFailed too,
\* is text for the review.  Out of steps, the verdict is a redirect.
ReviewLooks ==
    /\ pc = "reviewing"
    /\ ~Cancelled
    /\ \E passed \in BOOLEAN, left \in {FALSE, QuietLeftovers} :
         /\ ~(passed /\ left)
         /\ task' = [task EXCEPT !.verified = @ \/ passed]
         /\ signal' = [signal EXCEPT !.leftover = @ \/ left]
    /\ IF review.step + 1 = MaxReviewSteps
       THEN Judged("redirect")
       ELSE pc' = pc /\ review' = [review EXCEPT !.step = @ + 1]
    /\ UNCHANGED <<loop, turn, disk>>

\* The model call of the review fails: the run is not held up by it.
ReviewFails ==
    /\ pc = "reviewing"
    /\ ~Cancelled
    /\ Judged("failed")
    /\ UNCHANGED <<loop, turn, task, disk, signal>>

\* The review that polls the run: a redirect halves the interval and replans,
\* and the second in a row ends the loop.
PollJudged ==
    /\ pc = "judged" /\ review.for = "poll"
    /\ IF review.verdict = "redirect"
       THEN /\ task' \in Replanned(task)
            /\ loop' = [loop EXCEPT
                  !.interval = IF @ \div 2 < 2 THEN 2 ELSE @ \div 2,
                  !.redirects = @ + 1,
                  !.finalTried = @ \/ loop.redirects + 1 >= 2]
            /\ pc' = IF loop.redirects + 1 >= 2 THEN "after" ELSE "head"
       ELSE /\ loop' = [loop EXCEPT !.interval = PollActions, !.redirects = 0]
            /\ pc' = "head"
            /\ UNCHANGED task
    /\ review' = NoReview
    /\ UNCHANGED <<turn, disk, signal>>

-----------------------------------------------------------------------------
(* The final answer. *)

\* A mutant of AnswerGiven: boundary 8 is forgotten.
AnswerUnchecked ==
    /\ pc = "final"
    /\ IF loop.wrote
       THEN StartReview("final")
       ELSE pc' = "finish" /\ UNCHANGED review
    /\ UNCHANGED <<loop, turn, task, disk, signal>>

\* Boundary 8.  A run that wrote nothing ends on its answer; one that wrote
\* is reviewed first.
AnswerGiven ==
    /\ pc = "final"
    /\ ~Cancelled
    /\ IF loop.wrote
       THEN StartReview("final")
       ELSE pc' = "finish" /\ UNCHANGED review
    /\ UNCHANGED <<loop, turn, task, disk, signal>>

\* The verdict on the final answer.  A redirect rejects it.  A first approval
\* waits for the model to say it again; a second one, a review that could not
\* be held, or the last round of the battle lets the run end.
FinalJudged ==
    /\ pc = "judged" /\ review.for = "final"
    /\ LET battle == loop.battle + 1
            unheld == review.verdict \in {"failed", "disabled"}
       IN \/ /\ review.verdict = "redirect"
             /\ task' \in Replanned(task)
             /\ turn' = [turn EXCEPT !.rejected = TRUE]
             /\ loop' = [loop EXCEPT !.battle = battle, !.awaiting = FALSE]
             /\ pc' = "head"
             /\ review' = NoReview
          \/ /\ review.verdict # "redirect"
             /\ loop.awaiting \/ unheld \/ battle >= MaxBattles
             /\ loop' = [loop EXCEPT !.battle = battle, !.awaiting = FALSE]
             /\ pc' = "finish"
             /\ UNCHANGED <<turn, task, review>>
          \/ /\ review.verdict # "redirect"
             /\ ~loop.awaiting /\ ~unheld /\ battle < MaxBattles
             /\ loop' = [loop EXCEPT !.battle = battle, !.awaiting = TRUE]
             /\ pc' = "head"
             /\ review' = NoReview
             /\ UNCHANGED <<turn, task>>
    /\ UNCHANGED <<disk, signal>>

-----------------------------------------------------------------------------
(* How the loop ends. *)

\* The state is final and written; run_finished is emitted after it.
End(ended) ==
    /\ task' = ended
    /\ disk' = [disk EXCEPT !.stored = ended.status]
    /\ UNCHANGED signal

\* (What the run wrote and how often it was reviewed is kept for the properties.)
Finish ==
    /\ pc = "finish"
    /\ pc' = "announce"
    /\ loop' = [NewLoop EXCEPT !.wrote = loop.wrote, !.battle = loop.battle]
    /\ turn' = NewTurn
    /\ UNCHANGED review
    /\ End([Stopped(task, "completed", "final_answer_returned") EXCEPT !.done = @ \cup {"gather"}])

\* After the loop: no answer was accepted.
AfterLoop ==
    /\ pc = "after"
    /\ LeaveFor("announce")
    /\ End(Stopped(task, "stopped", IF loop.protocolFailed \/ loop.attempts >= MaxAttempts
                                    THEN "retry_limit_reached" ELSE "convergence_guard_triggered"))

\* run()'s handlers of RunCancelled and of ProcessCleanupFailed.
EndCancelled ==
    /\ pc = "cancelling"
    /\ LeaveFor("announce")
    /\ End(Stopped(task, "stopped", "user_cancelled"))

EndUnclean ==
    /\ pc = "cleanup"
    /\ LeaveFor("announce")
    /\ End(Stopped(task, "failed", "process_cleanup_failed"))

\* run_finished_emitted is set before the event is: an event that could not
\* be written is not tried again.
Announce ==
    /\ pc = "announce"
    /\ task' = [task EXCEPT !.emitted = TRUE]
    /\ \/ /\ disk' = [disk EXCEPT !.announced = Append(@, task.status)]
          /\ pc' = "report"
          /\ UNCHANGED signal
       \/ /\ Faulty /\ Fault
          /\ pc' = "raised"
          /\ UNCHANGED disk
    /\ UNCHANGED <<loop, turn, review>>

\* write_report of the loop.
Report ==
    /\ pc = "report"
    /\ pc' = "gate"
    /\ UNCHANGED <<loop, turn, task, review, disk, signal>>

-----------------------------------------------------------------------------
(* run_native around the loop. *)

\* _checklist_remaining subtracts the number of all completed items, the
\* phases among them.
ChecklistRemaining == Cardinality(task.plan) > Cardinality(task.done)

\* run_review_gate for the mode every Worker run has, auto.
GatePasses ==
    IF task.wroteOk
    THEN task.plan = {} \/ ~ChecklistRemaining
    ELSE ~task.lastWrites

\* The gate looks at completed runs only; a purely social request skips it.
Gate ==
    /\ pc = "gate"
    /\ task' = IF task.status # "completed" \/ Social \/ GatePasses
               THEN task
               ELSE Stopped(task, "stopped", IF task.wroteOk
                                             THEN "review_retry_limit_reached" ELSE "no_changes_to_review")
    /\ pc' = "persist"
    /\ UNCHANGED <<loop, turn, review, disk, signal>>

\* Any other exception: the run failed.
Raised ==
    /\ pc = "raised"
    /\ task' = Stopped(task, "failed", "runtime_error")
    /\ pc' = "persist"
    /\ UNCHANGED <<loop, turn, review, disk, signal>>

\* finalize_run writes the state, ...
Persist ==
    /\ pc = "persist"
    /\ \/ disk' = [disk EXCEPT !.stored = task.status] /\ pc' = "backfill" /\ UNCHANGED signal
       \/ Faulty /\ Fault /\ pc' = "lost" /\ UNCHANGED disk
    /\ UNCHANGED <<loop, turn, task, review>>

\* A mutant of Backfill: the end is announced whether or not it was before.
BackfillAgain ==
    /\ pc \in {"backfill", "lost"}
    /\ disk' = [disk EXCEPT !.announced = Append(@, task.status)]
    /\ task' = [task EXCEPT !.emitted = TRUE]
    /\ pc' = "close"
    /\ UNCHANGED <<loop, turn, review, signal>>

\* ... announces the end if nobody did, whether or not the state was written, ...
Unannounced == Stopped(task, "failed", "persistence_error")

Backfill ==
    /\ pc \in {"backfill", "lost"}
    /\ \/ /\ task.emitted
          /\ task' = IF pc = "lost" THEN Unannounced ELSE task
          /\ UNCHANGED <<disk, signal>>
       \/ /\ ~task.emitted
          /\ disk' = [disk EXCEPT !.announced = Append(@, task.status)]
          /\ task' = [IF pc = "lost" THEN Unannounced ELSE task EXCEPT !.emitted = TRUE]
          /\ UNCHANGED signal
       \/ /\ ~task.emitted /\ Faulty /\ Fault
          /\ task' = Unannounced
          /\ UNCHANGED disk
    /\ pc' = "close"
    /\ UNCHANGED <<loop, turn, review>>

\* ... and writes the report; when it cannot, the run has failed, and the
\* state is written once more if that is possible.
Close ==
    /\ pc = "close"
    /\ \/ UNCHANGED <<task, disk, signal>>
       \/ /\ Faulty /\ Fault
          /\ task' = Unannounced
          /\ disk' \in {disk, [disk EXCEPT !.stored = "failed"]}
    /\ pc' = "returned"
    /\ UNCHANGED <<loop, turn, review>>

Returned == pc = "returned" /\ UNCHANGED vars
-----------------------------------------------------------------------------

LoopStep ==
    \/ SeeCancel \/ InitialPlan \/ TopOfTurn \/ CapHit \/ Judge \/ Ask
    \/ \E reply \in Replies :
         \/ RefuseInFinalization(reply) \/ Talk(reply) \/ OneTool(reply) \/ ToolBatch(reply)
         \/ FirstBatchRaises(reply) \/ Retry(reply) \/ Final(reply)
    \/ RunTools \/ ShellEscapes
    \/ ReviewDecides \/ ReviewLooks \/ ReviewFails \/ PollJudged
    \/ AnswerGiven \/ FinalJudged
    \/ Finish \/ AfterLoop \/ EndCancelled \/ EndUnclean \/ Announce \/ Report
    \/ Gate \/ Raised \/ Persist \/ Backfill \/ Close

Next == LoopStep \/ Cancel \/ StoreRaises \/ ModelRaises \/ Returned

Spec == Init /\ [][Next]_vars

\* The run's thread keeps running: models, tools and stores answer or raise.
FairSpec == Spec /\ WF_vars(LoopStep)

-----------------------------------------------------------------------------
(* Properties. *)

\* A run that wrote ends completed only on an answer that was reviewed after
\* its last tool call, that the review did not send back, that some review
\* verified if the verdict was finalize, and that was approved in a second
\* round or in the last one there is, unless the review could not be held:
\* whatever the model alternated, its talks, rebuttals and repairs included
\* (FinalJudged, agent_loop.py:1879).
WorkIsReviewed ==
    task.status = "completed" /\ loop.wrote =>
        /\ review.for = "final"
        /\ review.verdict \notin {"none", "redirect"}
        /\ review.verdict = "finalize" => task.verified
        /\ review.verdict \in {"finalize", "continue"} => loop.battle >= 2 \/ loop.battle >= MaxBattles

\* A run cancelled before the verdict on its last answer never ends completed:
\* between any two model calls or tools the token is seen (boundaries 1 to 8).
EarlyCancelHolds ==
    signal.cancelled = "early" => task.status # "completed" /\ "completed" \notin {disk.announced[i] : i \in DOMAIN disk.announced}

\* run_finished is emitted at most once, and once if nothing failed; and a run
\* that returns completed has written and announced just that, whatever
\* failed on the way (finalize_run, run_lifecycle.py:40).
EndIsTold ==
    /\ Len(disk.announced) <= 1
    /\ pc = "returned" /\ signal.faults = 0 => Len(disk.announced) = 1 /\ disk.stored = task.status
    /\ pc = "returned" /\ task.status = "completed" =>
         disk.announced = <<"completed">> /\ disk.stored = "completed"

\* Every run returns, with a status that is not running: the bad turns, the
\* rejected answers, the redirects, the repairs or the last attempt end it.
Returns == <>(pc = "returned" /\ task.status # "running")

\* The gate lets a run that changed files end completed only when the goals
\* of its explicit plan are done (evaluation/review_gate.py:7).  It does not
\* hold: _checklist_remaining counts phases, not goals (review_gate.py:52).
GateNeedsChecklist ==
    pc = "returned" /\ task.status = "completed" /\ ~Social /\ task.wroteOk =>
        task.plan \subseteq task.done

\* A run ends cancelled only when its shells are known to have died
\* (docs/fastapi-backend-rewrite-execution.md:830).  It does not hold: the review
\* and the done_when check take a failed cleanup for a failed command.
CancelledMeansClean ==
    pc = "returned" /\ task.reason = "user_cancelled" => ~signal.leftover
=============================================================================
