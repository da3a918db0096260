--------------------------- MODULE AgentLoopProofs ---------------------------
(***************************************************************************)
(* Theorems about AgentLoop for every set of goals and every limit.        *)
(***************************************************************************)
EXTENDS AgentLoop, TLAPS

-----------------------------------------------------------------------------
(* The records.                                                            *)

\* The points of the loop, where the run has no end yet, and those of its end.
LoopPC == {"plan", "head", "judge", "ask", "answer", "tool", "reviewing", "judged", "final",
           "finish", "after", "cancelling", "cleanup"}
EndPC == {"announce", "report", "gate", "raised", "persist", "backfill", "lost", "close", "returned"}

Reasons == {"none", "budget_exhausted", "convergence_guard_triggered", "final_answer_returned",
            "retry_limit_reached", "user_cancelled", "process_cleanup_failed",
            "review_retry_limit_reached", "no_changes_to_review", "runtime_error", "persistence_error"}

Verdicts == {"none", "finalize", "continue", "redirect", "failed", "disabled"}

Loops ==
    [attempts : Nat, finalOnly : BOOLEAN, finalTried : BOOLEAN, bad : Nat, rejected : Nat,
     talks : Nat, repairs : Nat, protocolFailed : BOOLEAN, since : Nat, interval : Nat,
     redirects : Nat, wrote : BOOLEAN, awaiting : BOOLEAN, battle : Nat, batched : BOOLEAN]

Turns ==
    [calls : Seq(Kinds), batch : BOOLEAN, tool : BOOLEAN, repeated : BOOLEAN,
     talked : BOOLEAN, rejected : BOOLEAN]

Tasks ==
    [status : Statuses, reason : Reasons, plan : SUBSET Goals, done : SUBSET (Goals \cup Phases),
     wroteOk : BOOLEAN, lastWrites : BOOLEAN, verified : BOOLEAN, badTool : BOOLEAN,
     emitted : BOOLEAN]

Reviews == [for : {"none", "poll", "final"}, step : Nat, verdict : Verdicts]

Disks == [stored : Statuses, announced : {<<>>} \cup {<<s>> : s \in Statuses}]

Signals == [cancelled : {"no", "early", "late"}, leftover : BOOLEAN, faults : 0 .. MaxFaults]

\* The type invariant of one run: in particular its end is announced at most once.
TypeOK ==
    /\ pc \in LoopPC \cup EndPC
    /\ loop \in Loops
    /\ turn \in Turns
    /\ task \in Tasks
    /\ review \in Reviews
    /\ disk \in Disks
    /\ signal \in Signals

-----------------------------------------------------------------------------
(* The parts of the inductive invariant.                                   *)

\* While the loop runs, the run has no end and has announced none.
NoEndInLoop == pc \in LoopPC => task.status = "running" /\ ~task.emitted

\* Past the loop a run has a status to end with, unless an exception brought it there.
EndHasStatus == pc \in EndPC \ {"raised"} => task.status # "running"

\* emitted, which keeps finalize_run from announcing the end again, is what was
\* announced, but for an announcement that could not be written.
EmittedIsAnnounced ==
    /\ ~task.emitted => disk.announced = <<>>
    /\ task.emitted /\ signal.faults = 0 => disk.announced # <<>>
    /\ pc = "announce" => ~task.emitted

\* A completed run that is past its announcement has announced just that.
CompletedIsAnnounced ==
    pc \in EndPC \ {"announce", "raised"} /\ task.status = "completed" => disk.announced = <<"completed">>

\* What finalize_run has written when it gets to its next write.
FinalWrites ==
    /\ pc = "backfill" => disk.stored = task.status
    /\ pc = "lost" => signal.faults > 0
    /\ pc \in {"close", "returned"} /\ (signal.faults = 0 \/ task.status = "completed") =>
         disk.announced # <<>> /\ disk.stored = task.status

\* A run cancelled in time is not on the way to an accepted answer.
EarlyTurnsBack ==
    signal.cancelled = "early" =>
        /\ pc # "finish"
        /\ ~(pc = "judged" /\ review.for = "final")

\* Between two rounds of the battle the first approval has been counted.
AwaitingIsCounted == loop.awaiting => loop.battle >= 1

\* A review that has ended has a verdict, and does not finalize unverified work.
VerdictIsGated ==
    pc = "judged" =>
        /\ review.verdict # "none"
        /\ review.verdict = "finalize" /\ loop.wrote => task.verified

\* An answer that was accepted, and was not given up since, was reviewed.
AcceptedIsReviewed ==
    (pc = "finish" \/ task.status = "completed") /\ loop.wrote =>
        /\ review.for = "final"
        /\ review.verdict \notin {"none", "redirect"}
        /\ review.verdict = "finalize" => task.verified
        /\ review.verdict \in {"finalize", "continue"} => loop.battle >= 2 \/ loop.battle >= MaxBattles

AgentInv ==
    /\ TypeOK
    /\ NoEndInLoop /\ EndHasStatus
    /\ EmittedIsAnnounced /\ CompletedIsAnnounced /\ FinalWrites
    /\ EarlyTurnsBack /\ EarlyCancelHolds
    /\ AwaitingIsCounted /\ VerdictIsGated /\ AcceptedIsReviewed

-----------------------------------------------------------------------------
(* What the writes of the code leave in each record.                       *)

\* The values a run starts from, and the loop leaves behind, have their types.
LEMMA FreshValues ==
  /\ NewTask \in Tasks /\ NewTurn \in Turns /\ NewLoop \in Loops /\ NoReview \in Reviews
  /\ NewTask.status = "running" /\ ~NewTask.emitted
  /\ ~NewLoop.wrote /\ ~NewLoop.awaiting
  BY AgentAssumption
  DEF NewTask, NewTurn, NewLoop, NoReview, Tasks, Turns, Loops, Reviews, Statuses, Reasons,
    Phases, Verdicts

\* A way out of the loop forgets its locals (LeaveFor).
LEMMA LeavingTypes ==
  ASSUME NEW p \in LoopPC \cup EndPC, LeaveFor(p)
  PROVE  /\ pc' = p /\ pc' \in LoopPC \cup EndPC
         /\ loop' \in Loops /\ turn' \in Turns /\ review' \in Reviews
         /\ ~loop'.wrote /\ ~loop'.awaiting
  BY FreshValues DEF LeaveFor

\* stop_with_status and finish: only status and reason change (Stopped).
LEMMA StoppedTypes ==
  ASSUME NEW t \in Tasks, NEW s \in Statuses, NEW r \in Reasons
  PROVE  /\ Stopped(t, s, r) \in Tasks
         /\ Stopped(t, s, r).status = s
         /\ Stopped(t, s, r).emitted = t.emitted
         /\ Stopped(t, s, r).verified = t.verified
  BY DEF Stopped, Tasks

\* _run_after: a phase is ticked off.
LEMMA GatheredTypes ==
  ASSUME NEW t \in Tasks
  PROVE  LET g == [t EXCEPT !.done = @ \cup {"gather"}]
         IN  g \in Tasks /\ g.status = t.status /\ g.emitted = t.emitted /\ g.verified = t.verified
  BY DEF Tasks, Phases

\* Ticking off goals or phases changes nothing else (Ticked, Reasoned).
LEMMA TickedTypes ==
  ASSUME NEW t \in Tasks, NEW goals \in SUBSET Goals
  PROVE  /\ Ticked(t, goals) \in Tasks
         /\ Ticked(t, goals).status = t.status /\ Ticked(t, goals).emitted = t.emitted
         /\ Ticked(t, goals).verified = t.verified
  BY DEF Ticked, Tasks

\* A new plan replaces the plan and nothing else (_replan).
LEMMA ReplannedTypes ==
  ASSUME NEW t \in Tasks, NEW u \in Replanned(t)
  PROVE  u \in Tasks /\ u.status = t.status /\ u.emitted = t.emitted /\ u.verified = t.verified
  BY DEF Replanned, Plans, Tasks

\* _commit_tool_action changes what the gate will ask, not the run's status.
LEMMA CommittedTypes ==
  ASSUME NEW t \in Tasks, NEW calls, NEW o
  PROVE  /\ Committed(t, calls, o) \in Tasks
         /\ Committed(t, calls, o).status = t.status
         /\ Committed(t, calls, o).emitted = t.emitted
         /\ Committed(t, calls, o).verified = t.verified
  BY DEF Committed, Reasoned, Tasks, Phases

\* A failed write is counted (Fault).
LEMMA FaultTypes ==
  ASSUME TypeOK, Faulty, Fault
  PROVE  /\ signal' \in Signals /\ signal'.faults > 0
         /\ signal'.cancelled = signal.cancelled
  BY AgentAssumption DEF TypeOK, Faulty, Fault, Signals

-----------------------------------------------------------------------------
(* The steps of the loop.                                                  *)

\* What concerns the run's end is kept by a step that stays in the loop and
\* neither ends nor announces the run.
EndParts ==
    /\ NoEndInLoop /\ EndHasStatus
    /\ EmittedIsAnnounced /\ CompletedIsAnnounced /\ FinalWrites
    /\ EarlyCancelHolds

LEMMA StaysInLoop ==
  ASSUME AgentInv, pc' \in LoopPC, pc \in LoopPC, disk' = disk,
         signal'.cancelled = signal.cancelled,
         task'.status = task.status, task'.emitted = task.emitted
  PROVE  EndParts'
<1>1. task'.status = "running" /\ ~task'.emitted /\ disk'.announced = <<>>
  BY DEF AgentInv, NoEndInLoop, EmittedIsAnnounced
<1>2. pc' \notin EndPC
  BY DEF LoopPC, EndPC
<1> QED
  BY <1>1, <1>2
  DEF EndParts, NoEndInLoop, EndHasStatus, EmittedIsAnnounced, CompletedIsAnnounced, FinalWrites,
    EarlyCancelHolds, EndPC

\* An exception, a cancellation or a last turn leads out of the loop without an
\* end: the run has given its answer up, with everything it knew of the review.
LEMMA GivenUp ==
  ASSUME AgentInv, NEW p \in {"raised", "cancelling", "cleanup"}, LeaveFor(p),
         pc \in LoopPC \cup {"report"}, task' = task, disk' = disk, signal' \in Signals,
         signal'.cancelled = signal.cancelled, signal'.faults >= signal.faults,
         pc = "report" => p = "raised"
  PROVE  AgentInv'
<1>1. TypeOK'
  BY LeavingTypes DEF AgentInv, TypeOK, LoopPC, EndPC
<1>2. ~loop'.wrote /\ ~loop'.awaiting /\ pc' = p
  BY LeavingTypes DEF LoopPC, EndPC
<1>3. AwaitingIsCounted' /\ VerdictIsGated' /\ AcceptedIsReviewed' /\ EarlyTurnsBack'
  BY <1>2 DEF AwaitingIsCounted, VerdictIsGated, AcceptedIsReviewed, EarlyTurnsBack
<1>4. EmittedIsAnnounced' /\ EarlyCancelHolds'
  <2>1. signal'.faults = 0 => signal.faults = 0
    BY <1>1 DEF AgentInv, TypeOK, Signals
  <2> QED
    BY <2>1, <1>2 DEF AgentInv, EmittedIsAnnounced, EarlyCancelHolds
<1>5. NoEndInLoop' /\ EndHasStatus' /\ CompletedIsAnnounced' /\ FinalWrites'
  BY <1>2 DEF AgentInv, NoEndInLoop, EndHasStatus, CompletedIsAnnounced, FinalWrites, LoopPC, EndPC
<1> QED
  BY <1>1, <1>3, <1>4, <1>5 DEF AgentInv

LEMMA SeeCancelKeeps == ASSUME AgentInv, SeeCancel PROVE AgentInv'
<1>1. pc \in LoopPC /\ signal' \in Signals /\ signal.faults \in Nat
  BY AgentAssumption DEF SeeCancel, LoopPC, AgentInv, TypeOK, Signals
<1> QED
  BY <1>1, GivenUp DEF SeeCancel, LoopPC

LEMMA StoreRaisesKeeps == ASSUME AgentInv, StoreRaises PROVE AgentInv'
<1>1. TypeOK
  BY DEF AgentInv
<1>2. /\ pc \in LoopPC \cup {"report"}
      /\ signal' \in Signals /\ signal'.cancelled = signal.cancelled
      /\ signal'.faults >= signal.faults
  BY <1>1, FaultTypes, AgentAssumption DEF StoreRaises, LoopPC, TypeOK, Signals, Fault
<1> QED
  BY <1>2, GivenUp DEF StoreRaises, LoopPC

LEMMA ModelRaisesKeeps == ASSUME AgentInv, ModelRaises PROVE AgentInv'
<1>1. pc \in LoopPC /\ signal' \in Signals /\ signal.faults \in Nat
  BY AgentAssumption DEF ModelRaises, LoopPC, AgentInv, TypeOK, Signals
<1> QED
  BY <1>1, GivenUp DEF ModelRaises, LoopPC

\* A step from one point of the loop to another: what it may break is the count of
\* the rounds, the verdict, and the way of a cancelled run.
LEMMA LoopStepKeeps ==
  ASSUME AgentInv,
         pc \in LoopPC, pc' \in LoopPC \ {"finish"},
         loop' \in Loops, turn' \in Turns, task' \in Tasks, review' \in Reviews, signal' \in Signals,
         disk' = disk, signal'.cancelled = signal.cancelled,
         task'.status = task.status, task'.emitted = task.emitted,
         AwaitingIsCounted', EarlyTurnsBack', VerdictIsGated'
  PROVE  AgentInv'
<1>1. TypeOK'
  BY DEF AgentInv, TypeOK
<1>2. EndParts'
  BY StaysInLoop
<1>3. AcceptedIsReviewed'
  BY DEF AgentInv, AcceptedIsReviewed, NoEndInLoop
<1> QED
  BY <1>1, <1>2, <1>3 DEF AgentInv, EndParts

\* Where no verdict is due, only the count of the rounds could go wrong.
LEMMA TurnKeeps ==
  ASSUME AgentInv,
         pc \in LoopPC, pc' \in LoopPC \ {"judged", "finish"},
         loop' \in Loops, turn' \in Turns, task' \in Tasks, review' \in Reviews, signal' \in Signals,
         disk' = disk, signal'.cancelled = signal.cancelled,
         task'.status = task.status, task'.emitted = task.emitted,
         AwaitingIsCounted'
  PROVE  AgentInv'
<1>1. EarlyTurnsBack' /\ VerdictIsGated'
  BY DEF EarlyTurnsBack, VerdictIsGated
<1> QED
  BY <1>1, LoopStepKeeps

LEMMA InitialPlanKeeps == ASSUME AgentInv, InitialPlan PROVE AgentInv'
<1>1. task' \in Tasks /\ task'.status = task.status /\ task'.emitted = task.emitted
  BY DEF InitialPlan, Plans, AgentInv, TypeOK, Tasks
<1> QED
  BY <1>1, TurnKeeps DEF InitialPlan, AgentInv, TypeOK, AwaitingIsCounted, LoopPC

LEMMA TopOfTurnKeeps == ASSUME AgentInv, TopOfTurn PROVE AgentInv'
<1>1. pc' \in {"judge", "after"}
  BY DEF TopOfTurn
<1> QED
  BY <1>1, TurnKeeps DEF TopOfTurn, AgentInv, TypeOK, AwaitingIsCounted, LoopPC

\* A stop inside the loop ends the run without announcing it: the gate is next.
LEMMA ReturnStoppedKeeps ==
  ASSUME AgentInv, NEW t \in Tasks, NEW reason \in Reasons, ReturnStopped(t, reason),
         pc \in LoopPC, t.emitted = task.emitted,
         signal' \in Signals, signal'.cancelled = signal.cancelled
  PROVE  AgentInv'
<1>1. /\ task' \in Tasks /\ task'.status = "stopped" /\ ~task'.emitted
      /\ pc' = "gate" /\ ~loop'.wrote /\ ~loop'.awaiting
  <2>1. task' \in Tasks /\ task'.status = "stopped" /\ task'.emitted = t.emitted
    <3>1. "stopped" \in Statuses /\ task' = Stopped(t, "stopped", reason)
      BY DEF ReturnStopped, Statuses
    <3> QED
      BY <3>1, StoppedTypes
  <2>2. pc' = "gate" /\ ~loop'.wrote /\ ~loop'.awaiting
    BY LeavingTypes DEF ReturnStopped, EndPC
  <2> QED
    BY <2>1, <2>2 DEF AgentInv, NoEndInLoop
<1>2. TypeOK'
  BY <1>1, LeavingTypes DEF ReturnStopped, AgentInv, TypeOK, Disks, Statuses, EndPC
<1>3. disk'.announced = <<>>
  BY DEF ReturnStopped, AgentInv, TypeOK, Disks, NoEndInLoop, EmittedIsAnnounced
<1> QED
  BY <1>1, <1>2, <1>3
  DEF AgentInv, NoEndInLoop, EndHasStatus, EmittedIsAnnounced, CompletedIsAnnounced, FinalWrites,
    EarlyTurnsBack, EarlyCancelHolds, AwaitingIsCounted, VerdictIsGated, AcceptedIsReviewed,
    LoopPC, EndPC

LEMMA CapHitKeeps == ASSUME AgentInv, CapHit PROVE AgentInv'
  BY ReturnStoppedKeeps DEF CapHit, AgentInv, TypeOK, Reasons, LoopPC

LEMMA JudgeKeeps == ASSUME AgentInv, Judge PROVE AgentInv'
<1> USE DEF AgentInv, TypeOK
<1>1. PICK checked \in Checked, left \in ShellOfCheckLeft : Judge!2!(checked, left)
  BY DEF Judge
<1> DEFINE judged == [checked EXCEPT !.badTool = @ \/ (BadTurn /\ turn.tool)]
<1>2. checked \in Tasks /\ checked.status = task.status /\ checked.emitted = task.emitted
  BY <1>1, TickedTypes DEF Checked, Tasks
<1>3. judged \in Tasks /\ judged.status = task.status /\ judged.emitted = task.emitted
  BY <1>2 DEF Tasks
<1>4. signal' \in Signals /\ signal'.cancelled = signal.cancelled
  BY <1>1, AgentAssumption DEF ShellOfCheckLeft, Signals
<1>5. CASE RejectedRun >= 2
  BY <1>1, <1>3, <1>4, <1>5, ReturnStoppedKeeps DEF Judge, LoopPC, Reasons
<1>6. CASE ~(RejectedRun >= 2)
  <2>1. BadRun \in Nat /\ RejectedRun \in Nat
    BY DEF BadRun, RejectedRun, Loops
  <2>2. loop' \in Loops /\ AwaitingIsCounted'
    <3>1. loop' = [loop EXCEPT !.bad = BadRun, !.rejected = RejectedRun,
                               !.finalOnly = BadRun >= Tolerance,
                               !.finalTried = @ \/ BadRun >= Tolerance]
      BY <1>1, <1>6
    <3>2. (BadRun >= Tolerance) \in BOOLEAN /\ (loop.finalTried \/ BadRun >= Tolerance) \in BOOLEAN
      OBVIOUS
    <3> QED
      BY <2>1, <3>1, <3>2 DEF AwaitingIsCounted, Loops
  <2> QED
    BY <1>1, <1>3, <1>4, <1>6, <2>2, FreshValues, TurnKeeps DEF Judge, LoopPC
<1> QED
  BY <1>5, <1>6

LEMMA AskKeeps == ASSUME AgentInv, Ask PROVE AgentInv'
<1>1. loop' \in Loops /\ AwaitingIsCounted'
  BY DEF Ask, AgentInv, TypeOK, AwaitingIsCounted, Loops
<1> QED
  BY <1>1, TurnKeeps DEF Ask, AgentInv, TypeOK, LoopPC

\* What the loop does with an answer: a refusal, a talk, a call, a repair, an end.
LEMMA AnswerKeeps ==
  ASSUME AgentInv, NEW reply \in Replies,
         \/ RefuseInFinalization(reply) \/ Talk(reply) \/ OneTool(reply) \/ ToolBatch(reply)
         \/ Retry(reply) \/ Final(reply)
  PROVE  AgentInv'
<1> USE DEF Answered, AgentInv, TypeOK
<1>1. ASSUME RefuseInFinalization(reply) \/ Final(reply) PROVE AgentInv'
  BY <1>1, TurnKeeps DEF RefuseInFinalization, Final, AwaitingIsCounted, LoopPC
<1>2. ASSUME Talk(reply) PROVE AgentInv'
  <2>1. loop' \in Loops /\ turn' \in Turns /\ AwaitingIsCounted'
    <3>1. turn' \in Turns
      BY <1>2 DEF Talk, Turns
    <3>2. PICK n \in Nat : loop' = [loop EXCEPT !.talks = n]
      BY <1>2 DEF Talk, Loops
    <3> QED
      BY <3>1, <3>2 DEF AwaitingIsCounted, Loops
  <2> QED
    BY <1>2, <2>1, TurnKeeps DEF Talk, LoopPC
<1>3. Acting \in Loops /\ ~Acting.awaiting
  BY DEF Acting, Loops
<1>4. ASSUME OneTool(reply) PROVE AgentInv'
  <2>1. turn' \in Turns
    <3>1. PICK kind \in Kinds : turn' = [turn EXCEPT !.calls = <<kind>>]
      BY <1>4 DEF OneTool
    <3>2. <<kind>> \in Seq(Kinds)
      OBVIOUS
    <3> QED
      BY <3>1, <3>2 DEF Turns
  <2> QED
    BY <1>3, <1>4, <2>1, TurnKeeps DEF OneTool, AwaitingIsCounted, LoopPC
<1>5. ASSUME ToolBatch(reply) PROVE AgentInv'
  <2>1. turn' \in Turns
    <3>1. PICK n \in 1..MaxBatch : \E calls \in [1..n -> Kinds] :
            turn' = [turn EXCEPT !.calls = calls, !.batch = TRUE]
      BY <1>5 DEF ToolBatch
    <3>2. PICK calls \in [1..n -> Kinds] : turn' = [turn EXCEPT !.calls = calls, !.batch = TRUE]
      BY <3>1
    <3>3. n \in Nat /\ calls \in Seq(Kinds)
      BY AgentAssumption
    <3> QED
      BY <3>2, <3>3 DEF Turns
  <2>2. loop' \in Loops /\ ~loop'.awaiting
    BY <1>3, <1>5 DEF ToolBatch, Loops
  <2> QED
    BY <1>5, <2>1, <2>2, TurnKeeps DEF ToolBatch, AwaitingIsCounted, LoopPC
<1>6. ASSUME Retry(reply) PROVE AgentInv'
  <2>1. loop' \in Loops /\ AwaitingIsCounted'
    <3>1. \/ loop' = [loop EXCEPT !.talks = 0, !.repairs = @ + 1]
          \/ loop' = [loop EXCEPT !.talks = 0, !.protocolFailed = TRUE]
      BY <1>6 DEF Retry
    <3>2. loop \in Loops /\ loop.repairs + 1 \in Nat
      BY DEF Loops
    <3>3. /\ [loop EXCEPT !.talks = 0, !.repairs = @ + 1] \in Loops
          /\ [loop EXCEPT !.talks = 0, !.protocolFailed = TRUE] \in Loops
      BY <3>2 DEF Loops
    <3>4. loop'.awaiting = loop.awaiting /\ loop'.battle = loop.battle
      BY <3>1, <3>2 DEF Loops
    <3> QED
      BY <3>1, <3>3, <3>4 DEF AwaitingIsCounted
  <2> QED
    BY <1>6, <2>1, TurnKeeps DEF Retry, LoopPC
<1> QED
  BY <1>1, <1>2, <1>4, <1>5, <1>6

LEMMA FirstBatchRaisesKeeps ==
  ASSUME AgentInv, NEW reply \in Replies, FirstBatchRaises(reply) PROVE AgentInv'
<1>1. pc \in LoopPC /\ signal' \in Signals /\ signal.faults \in Nat
  BY AgentAssumption DEF FirstBatchRaises, Answered, LoopPC, AgentInv, TypeOK, Signals
<1> QED
  BY <1>1, GivenUp DEF FirstBatchRaises, LoopPC

LEMMA RunToolsKeeps == ASSUME AgentInv, RunTools PROVE AgentInv'
<1> USE DEF AgentInv, TypeOK
<1> DEFINE Wrote(o) == \E i \in DOMAIN turn.calls : CountsAsWrite(turn.calls[i], o[i])
<1>1. PICK o : /\ \A i \in DOMAIN turn.calls : o[i] \in Outcomes(turn.calls[i])
               /\ task' = Committed(task, turn.calls, o)
               /\ turn' = [turn EXCEPT !.tool = TRUE, !.repeated = AllBad(turn.calls, o),
                                       !.calls = <<>>, !.batch = FALSE]
               /\ loop' = [loop EXCEPT !.since = IF PollDue THEN 0 ELSE @ + Len(turn.calls),
                                       !.wrote = @ \/ Wrote(o)]
  BY DEF RunTools
<1>2. task' \in Tasks /\ task'.status = task.status /\ task'.emitted = task.emitted
  BY <1>1, CommittedTypes
<1>3. turn' \in Turns
  <2> DEFINE bad == AllBad(turn.calls, o)
  <2>1. bad \in BOOLEAN
    <3>1. CASE Len(turn.calls) = 1 /\ ~turn.batch
      <4>1. turn.calls \in Seq(Kinds)
        BY DEF Turns
      <4>2. 1 \in DOMAIN turn.calls
        BY <3>1, <4>1
      <4>3. o[1].repeated \in BOOLEAN
        BY <1>1, <4>2 DEF Outcomes
      <4> QED
        BY <3>1, <4>3 DEF AllBad
    <3>2. CASE ~(Len(turn.calls) = 1 /\ ~turn.batch)
      <4>1. bad = \A i \in DOMAIN turn.calls : ~o[i].ok \/ o[i].repeated
        BY <3>2 DEF AllBad
      <4> QED
        BY <4>1
    <3> QED
      BY <3>1, <3>2
  <2>2. <<>> \in Seq(Kinds) /\ turn \in Turns
    OBVIOUS
  <2>3. turn' = [turn EXCEPT !.tool = TRUE, !.repeated = bad, !.calls = <<>>, !.batch = FALSE]
    BY <1>1
  <2> HIDE DEF bad
  <2> QED
    BY <2>1, <2>2, <2>3 DEF Turns
<1>4. loop' \in Loops /\ AwaitingIsCounted'
  <2>1. Wrote(o) \in BOOLEAN
    OBVIOUS
  <2> HIDE DEF Wrote
  <2>2. Len(turn.calls) \in Nat
    BY DEF Turns
  <2>3. (IF PollDue THEN 0 ELSE loop.since + Len(turn.calls)) \in Nat
    BY <2>2 DEF Loops
  <2>4. loop' \in Loops
    BY <1>1, <2>1, <2>3 DEF Loops
  <2>5. loop'.awaiting = loop.awaiting /\ loop'.battle = loop.battle
    BY <1>1 DEF Loops
  <2> QED
    BY <2>4, <2>5 DEF AwaitingIsCounted
<1>5. CASE PollDue
  <2>1. /\ pc' \in {"reviewing", "judged"} /\ review' \in Reviews
        /\ review'.for = "poll" /\ (pc' = "judged" => review'.verdict = "disabled")
    BY <1>5 DEF RunTools, StartReview, Reviews, Verdicts
  <2>2. EarlyTurnsBack' /\ VerdictIsGated'
    BY <2>1 DEF EarlyTurnsBack, VerdictIsGated
  <2> QED
    BY <1>2, <1>3, <1>4, <2>1, <2>2, LoopStepKeeps DEF RunTools, LoopPC
<1>6. CASE ~PollDue
  BY <1>2, <1>3, <1>4, <1>6, TurnKeeps DEF RunTools, LoopPC
<1> QED
  BY <1>5, <1>6

LEMMA ShellEscapesKeeps == ASSUME AgentInv, ShellEscapes PROVE AgentInv'
<1>1. /\ pc \in LoopPC /\ signal' \in Signals /\ signal'.cancelled = signal.cancelled
      /\ signal.faults \in Nat /\ signal'.faults = signal.faults
  <2>1. signal \in Signals /\ signal' = [signal EXCEPT !.leftover = TRUE] /\ pc \in LoopPC
    BY DEF ShellEscapes, AgentInv, TypeOK, LoopPC
  <2>2. signal' \in Signals /\ signal'.cancelled = signal.cancelled /\ signal'.faults = signal.faults
    BY <2>1 DEF Signals
  <2>3. signal.faults \in Nat
    BY <2>1, AgentAssumption DEF Signals
  <2> QED
    BY <2>1, <2>2, <2>3
<1> QED
  BY <1>1, GivenUp DEF ShellEscapes, LoopPC

-----------------------------------------------------------------------------
(* The review and the final answer.                                        *)

LEMMA ReviewDecidesKeeps == ASSUME AgentInv, ReviewDecides PROVE AgentInv'
<1> USE DEF AgentInv, TypeOK
<1>1. PICK verdict \in {"finalize", "continue", "redirect"}, rebutted \in BOOLEAN :
        /\ Judged(Gated(verdict, rebutted))
        /\ \E goals \in IF Gated(verdict, rebutted) = verdict THEN SUBSET task.plan ELSE {{}} :
             task' = Ticked(task, goals)
  BY DEF ReviewDecides
<1>2. PICK goals \in SUBSET Goals : task' = Ticked(task, goals)
  BY <1>1 DEF Tasks
<1>3. task' \in Tasks /\ task'.status = task.status /\ task'.emitted = task.emitted
      /\ task'.verified = task.verified
  BY <1>2, TickedTypes
<1> DEFINE given == Gated(verdict, rebutted)
<1>4. given \in {"finalize", "continue", "redirect"} /\ (given = "finalize" => ~(loop.wrote /\ ~task.verified))
  BY DEF Gated
<1>5. review' \in Reviews /\ review'.verdict = given /\ pc' = "judged"
  BY <1>1, <1>4 DEF Judged, Reviews, Verdicts
<1> HIDE DEF given
<1>6. AwaitingIsCounted' /\ EarlyTurnsBack' /\ VerdictIsGated'
  BY <1>3, <1>4, <1>5
  DEF ReviewDecides, Cancelled, AwaitingIsCounted, EarlyTurnsBack, VerdictIsGated
<1> QED
  BY <1>3, <1>5, <1>6, LoopStepKeeps DEF ReviewDecides, LoopPC

LEMMA ReviewLooksKeeps == ASSUME AgentInv, ReviewLooks PROVE AgentInv'
<1> USE DEF AgentInv, TypeOK
<1>1. PICK passed \in BOOLEAN, left \in {FALSE, QuietLeftovers} :
        /\ task' = [task EXCEPT !.verified = @ \/ passed]
        /\ signal' = [signal EXCEPT !.leftover = @ \/ left]
  BY DEF ReviewLooks
<1>2. task' \in Tasks /\ task'.status = task.status /\ task'.emitted = task.emitted
  BY <1>1 DEF Tasks
<1>3. signal' \in Signals /\ signal'.cancelled = signal.cancelled
  BY <1>1, AgentAssumption DEF Signals
<1>4. /\ review' \in Reviews /\ pc' \in {"reviewing", "judged"}
      /\ pc' = "judged" => review'.verdict = "redirect"
  <2>1. CASE review.step + 1 = MaxReviewSteps
    <3>1. pc' = "judged" /\ review' = [review EXCEPT !.verdict = "redirect", !.step = 0]
      BY <2>1 DEF ReviewLooks, Judged
    <3> QED
      BY <3>1 DEF Reviews, Verdicts
  <2>2. CASE review.step + 1 # MaxReviewSteps
    BY <2>2 DEF ReviewLooks, Reviews
  <2> QED
    BY <2>1, <2>2
<1>5. AwaitingIsCounted' /\ EarlyTurnsBack' /\ VerdictIsGated'
  BY <1>3, <1>4
  DEF ReviewLooks, Cancelled, AwaitingIsCounted, EarlyTurnsBack, VerdictIsGated
<1> QED
  BY <1>2, <1>3, <1>4, <1>5, LoopStepKeeps DEF ReviewLooks, LoopPC

LEMMA ReviewFailsKeeps == ASSUME AgentInv, ReviewFails PROVE AgentInv'
<1>1. review' \in Reviews /\ review'.verdict = "failed" /\ pc' = "judged"
  BY DEF AgentInv, TypeOK, ReviewFails, Judged, Reviews, Verdicts
<1>2. AwaitingIsCounted' /\ EarlyTurnsBack' /\ VerdictIsGated'
  BY <1>1
  DEF AgentInv, ReviewFails, Cancelled, AwaitingIsCounted, EarlyTurnsBack, VerdictIsGated
<1> QED
  BY <1>1, <1>2, LoopStepKeeps DEF AgentInv, TypeOK, ReviewFails, LoopPC

LEMMA PollJudgedKeeps == ASSUME AgentInv, PollJudged PROVE AgentInv'
<1> USE DEF AgentInv, TypeOK
<1>1. task' \in Tasks /\ task'.status = task.status /\ task'.emitted = task.emitted
  BY ReplannedTypes DEF PollJudged
<1>2. loop' \in Loops /\ AwaitingIsCounted'
  <2>1. CASE review.verdict = "redirect"
    <3> DEFINE next == IF loop.interval \div 2 < 2 THEN 2 ELSE loop.interval \div 2
               last == loop.redirects + 1 >= 2
    <3>1. loop' = [loop EXCEPT !.interval = next, !.redirects = @ + 1, !.finalTried = @ \/ last]
      BY <2>1 DEF PollJudged
    <3>2. next \in Nat
      BY DEF Loops
    <3>3. last \in BOOLEAN /\ loop.redirects + 1 \in Nat
      BY DEF Loops
    <3> HIDE DEF next, last
    <3> QED
      BY <3>1, <3>2, <3>3 DEF AwaitingIsCounted, Loops
  <2>2. CASE review.verdict # "redirect"
    <3>1. loop' = [loop EXCEPT !.interval = PollActions, !.redirects = 0] /\ PollActions \in Nat
      BY <2>2, AgentAssumption DEF PollJudged
    <3> QED
      BY <3>1 DEF AwaitingIsCounted, Loops
  <2> QED
    BY <2>1, <2>2
<1>3. pc' \in {"after", "head"}
  BY DEF PollJudged
<1> QED
  BY <1>1, <1>2, <1>3, FreshValues, TurnKeeps DEF PollJudged, LoopPC

LEMMA AnswerGivenKeeps == ASSUME AgentInv, AnswerGiven PROVE AgentInv'
<1> USE DEF AgentInv, TypeOK
<1>1. signal.cancelled = "no"
  BY DEF AnswerGiven, Cancelled
<1>2. CASE loop.wrote
  <2>1. /\ pc' \in {"reviewing", "judged"} /\ review' \in Reviews
        /\ pc' = "judged" => review'.verdict = "disabled"
    BY <1>2 DEF AnswerGiven, StartReview, Reviews, Verdicts
  <2>2. AwaitingIsCounted' /\ EarlyTurnsBack' /\ VerdictIsGated'
    BY <1>1, <2>1 DEF AnswerGiven, AwaitingIsCounted, EarlyTurnsBack, VerdictIsGated
  <2> QED
    BY <2>1, <2>2, LoopStepKeeps DEF AnswerGiven, LoopPC
<1>3. CASE ~loop.wrote
  <2>1. pc' = "finish" /\ pc \in LoopPC /\ UNCHANGED <<loop, turn, task, review, disk, signal>>
    BY <1>3 DEF AnswerGiven, LoopPC
  <2>2. TypeOK' /\ EndParts'
    BY <2>1, StaysInLoop DEF LoopPC
  <2>3. AwaitingIsCounted' /\ EarlyTurnsBack' /\ VerdictIsGated' /\ AcceptedIsReviewed'
    BY <1>1, <1>3, <2>1
    DEF AwaitingIsCounted, EarlyTurnsBack, VerdictIsGated, AcceptedIsReviewed
  <2> QED
    BY <2>2, <2>3 DEF EndParts
<1> QED
  BY <1>2, <1>3

\* The three ways of a verdict on the final answer: sent back, accepted, or to be
\* confirmed in another round.
LEMMA FinalJudgedKeeps == ASSUME AgentInv, FinalJudged PROVE AgentInv'
<1> USE DEF AgentInv, TypeOK
<1> DEFINE battle == loop.battle + 1
           unheld == review.verdict \in {"failed", "disabled"}
           SentBack == /\ review.verdict = "redirect"
                       /\ task' \in Replanned(task)
                       /\ turn' = [turn EXCEPT !.rejected = TRUE]
                       /\ loop' = [loop EXCEPT !.battle = battle, !.awaiting = FALSE]
                       /\ pc' = "head"
                       /\ review' = NoReview
           Accepted == /\ review.verdict # "redirect"
                       /\ loop.awaiting \/ unheld \/ battle >= MaxBattles
                       /\ loop' = [loop EXCEPT !.battle = battle, !.awaiting = FALSE]
                       /\ pc' = "finish"
                       /\ UNCHANGED <<turn, task, review>>
           Asked == /\ review.verdict # "redirect"
                    /\ ~loop.awaiting /\ ~unheld /\ battle < MaxBattles
                    /\ loop' = [loop EXCEPT !.battle = battle, !.awaiting = TRUE]
                    /\ pc' = "head"
                    /\ review' = NoReview
                    /\ UNCHANGED <<turn, task>>
<1>1. SentBack \/ Accepted \/ Asked
  BY DEF FinalJudged
<1>2. pc = "judged" /\ review.for = "final" /\ UNCHANGED <<disk, signal>>
  BY DEF FinalJudged
<1>3. battle \in Nat /\ battle >= 1
  BY DEF Loops
<1> HIDE DEF battle
<1>4. /\ [loop EXCEPT !.battle = battle, !.awaiting = FALSE] \in Loops
      /\ [loop EXCEPT !.battle = battle, !.awaiting = TRUE] \in Loops
  BY <1>3 DEF Loops
<1>5. loop' \in Loops /\ loop'.battle = battle /\ loop'.wrote = loop.wrote
  BY <1>1, <1>4 DEF Loops
<1>6. AwaitingIsCounted'
  BY <1>3, <1>5 DEF AwaitingIsCounted
<1>7. ASSUME SentBack PROVE AgentInv'
  <2>1. task' \in Tasks /\ task'.status = task.status /\ task'.emitted = task.emitted
    BY <1>7, ReplannedTypes
  <2>2. turn' \in Turns
    BY <1>7 DEF Turns
  <2> QED
    BY <1>2, <1>5, <1>6, <1>7, <2>1, <2>2, FreshValues, TurnKeeps DEF LoopPC
<1>8. ASSUME Asked PROVE AgentInv'
  BY <1>2, <1>5, <1>6, <1>8, FreshValues, TurnKeeps DEF LoopPC
<1>9. ASSUME Accepted PROVE AgentInv'
  <2>1. pc \in LoopPC /\ pc' = "finish" /\ UNCHANGED <<turn, task, review, disk, signal>>
    BY <1>2, <1>9 DEF LoopPC
  <2>2. TypeOK'
    BY <1>5, <2>1 DEF LoopPC
  <2>3. EndParts'
    BY <2>1, StaysInLoop DEF LoopPC
  <2>4. EarlyTurnsBack' /\ VerdictIsGated'
    BY <1>2, <2>1 DEF EarlyTurnsBack, VerdictIsGated
  <2>5. loop.awaiting \/ unheld \/ battle >= MaxBattles
    BY <1>9
  <2>6. loop.awaiting => battle >= 2
    BY DEF AwaitingIsCounted, Loops, battle
  <2>7. review.verdict \in {"finalize", "continue"} => battle >= 2 \/ battle >= MaxBattles
    BY <2>5, <2>6
  <2>8. AcceptedIsReviewed'
    BY <1>2, <1>5, <1>9, <2>1, <2>7 DEF VerdictIsGated, AcceptedIsReviewed
  <2> QED
    BY <1>6, <2>2, <2>3, <2>4, <2>8 DEF EndParts
<1> QED
  BY <1>1, <1>7, <1>8, <1>9

-----------------------------------------------------------------------------
(* The end of the run.                                                     *)

LEMMA FinishKeeps == ASSUME AgentInv, Finish PROVE AgentInv'
<1>1. /\ task' \in Tasks /\ task'.status = "completed" /\ task'.emitted = task.emitted
      /\ task'.verified = task.verified
  <2>1. task \in Tasks /\ "completed" \in Statuses /\ "final_answer_returned" \in Reasons
    BY DEF AgentInv, TypeOK, Statuses, Reasons
  <2>2. PICK t \in Tasks : /\ t = Stopped(task, "completed", "final_answer_returned")
                          /\ t.status = "completed" /\ t.emitted = task.emitted
                          /\ t.verified = task.verified
    BY <2>1, StoppedTypes
  <2>3. task' = [t EXCEPT !.done = @ \cup {"gather"}]
    BY <2>2 DEF Finish, End
  <2> QED
    BY <2>2, <2>3, GatheredTypes
<1> USE DEF AgentInv, TypeOK
<1>2. /\ task' \in Tasks /\ task'.status = "completed" /\ task'.emitted = task.emitted
      /\ task'.verified = task.verified
  BY <1>1
<1>3. /\ loop' \in Loops /\ loop'.wrote = loop.wrote /\ loop'.battle = loop.battle
      /\ ~loop'.awaiting
  BY FreshValues DEF Finish, Loops
<1>4. /\ disk' \in Disks /\ disk'.announced = disk.announced
  BY <1>2 DEF Finish, End, Disks, Statuses
<1>5. pc = "finish" /\ pc' = "announce" /\ turn' \in Turns /\ UNCHANGED <<review, signal>>
  BY FreshValues DEF Finish, End
<1>6. ~task.emitted /\ disk.announced = <<>> /\ signal.cancelled # "early"
  BY <1>5 DEF NoEndInLoop, EmittedIsAnnounced, EarlyTurnsBack, LoopPC
<1>7. TypeOK'
  BY <1>2, <1>3, <1>4, <1>5 DEF EndPC
<1>8. NoEndInLoop' /\ EndHasStatus' /\ EmittedIsAnnounced' /\ CompletedIsAnnounced' /\ FinalWrites'
  BY <1>2, <1>4, <1>5, <1>6
  DEF NoEndInLoop, EndHasStatus, EmittedIsAnnounced, CompletedIsAnnounced, FinalWrites, LoopPC
<1>9. EarlyTurnsBack' /\ EarlyCancelHolds' /\ AwaitingIsCounted' /\ VerdictIsGated'
  BY <1>3, <1>5, <1>6 DEF EarlyTurnsBack, EarlyCancelHolds, AwaitingIsCounted, VerdictIsGated
<1>10. AcceptedIsReviewed'
  BY <1>2, <1>3, <1>5 DEF AcceptedIsReviewed
<1> QED
  BY <1>7, <1>8, <1>9, <1>10

\* The other ends: after the loop, on a cancellation, on a failed cleanup.
LEMMA StoppingKeeps == ASSUME AgentInv, AfterLoop \/ EndCancelled \/ EndUnclean PROVE AgentInv'
<1> USE DEF AgentInv, TypeOK
<1>1. \E s \in {"stopped", "failed"}, r \in Reasons : End(Stopped(task, s, r))
  BY DEF AfterLoop, EndCancelled, EndUnclean, Reasons
<1>2. PICK s \in {"stopped", "failed"}, r \in Reasons : End(Stopped(task, s, r))
  BY <1>1
<1>3. task' \in Tasks /\ task'.status = s /\ task'.emitted = task.emitted
  <2>1. task \in Tasks /\ s \in Statuses /\ task' = Stopped(task, s, r)
    BY <1>2 DEF End, Statuses
  <2> QED
    BY <2>1, StoppedTypes, Zenon
<1>4. disk' \in Disks /\ disk'.announced = disk.announced /\ signal' = signal
  BY <1>2, <1>3 DEF End, Disks, Statuses
<1>5. pc \in LoopPC /\ LeaveFor("announce")
  BY DEF AfterLoop, EndCancelled, EndUnclean, LoopPC
<1>6. /\ pc' = "announce" /\ loop' \in Loops /\ turn' \in Turns /\ review' \in Reviews
      /\ ~loop'.wrote /\ ~loop'.awaiting
  BY <1>5, LeavingTypes DEF EndPC
<1>7. TypeOK'
  BY <1>3, <1>4, <1>6 DEF EndPC
<1>8. ~task.emitted /\ disk.announced = <<>>
  BY <1>5 DEF NoEndInLoop, EmittedIsAnnounced
<1>9. NoEndInLoop' /\ EndHasStatus' /\ EmittedIsAnnounced' /\ CompletedIsAnnounced' /\ FinalWrites'
  BY <1>3, <1>4, <1>6, <1>8
  DEF NoEndInLoop, EndHasStatus, EmittedIsAnnounced, CompletedIsAnnounced, FinalWrites, LoopPC
<1>10. EarlyTurnsBack' /\ EarlyCancelHolds' /\ AwaitingIsCounted' /\ VerdictIsGated' /\ AcceptedIsReviewed'
  BY <1>3, <1>4, <1>6, <1>8
  DEF EarlyTurnsBack, EarlyCancelHolds, AwaitingIsCounted, VerdictIsGated, AcceptedIsReviewed
<1> QED
  BY <1>7, <1>9, <1>10

\* Past the loop, a step that keeps the loop's locals and the review, and does not make
\* the run completed, keeps what was known of the accepted answer.
LEMMA EndStepKeeps ==
  ASSUME AgentInv, pc \in EndPC, pc' \in EndPC, UNCHANGED <<loop, turn, review>>,
         task' \in Tasks, disk' \in Disks, signal' \in Signals,
         signal'.cancelled = signal.cancelled, task'.verified = task.verified,
         task'.status = "completed" => task.status = "completed"
  PROVE  /\ TypeOK' /\ NoEndInLoop' /\ EarlyTurnsBack' /\ AwaitingIsCounted'
         /\ VerdictIsGated' /\ AcceptedIsReviewed'
<1>1. pc' \notin LoopPC /\ pc' \notin {"finish", "judged"}
  BY DEF LoopPC, EndPC
<1>2. TypeOK' /\ NoEndInLoop'
  BY <1>1 DEF AgentInv, TypeOK, NoEndInLoop
<1>3. EarlyTurnsBack' /\ AwaitingIsCounted' /\ VerdictIsGated'
  BY <1>1 DEF AgentInv, EarlyTurnsBack, AwaitingIsCounted, VerdictIsGated
<1>4. AcceptedIsReviewed'
  BY <1>1 DEF AgentInv, AcceptedIsReviewed
<1> QED
  BY <1>2, <1>3, <1>4

\* An announcement of the run's status, by the loop or by finalize_run.
LEMMA Announced ==
  ASSUME AgentInv, ~task.emitted, disk' = [disk EXCEPT !.announced = Append(@, task.status)]
  PROVE  /\ disk' \in Disks /\ disk'.announced = <<task.status>> /\ disk'.stored = disk.stored
         /\ disk'.announced # <<>>
<1>1. disk.announced = <<>>
  BY DEF AgentInv, EmittedIsAnnounced
<1>2. Append(disk.announced, task.status) = <<task.status>> /\ <<task.status>> # <<>>
  BY <1>1
<1>3. disk' = [disk EXCEPT !.announced = <<task.status>>] /\ task.status \in Statuses /\ disk \in Disks
  BY <1>2 DEF AgentInv, TypeOK, Tasks
<1> QED
  BY <1>2, <1>3 DEF Disks

LEMMA AnnounceKeeps == ASSUME AgentInv, Announce PROVE AgentInv'
<1> USE DEF AgentInv, TypeOK
<1>1. /\ task' \in Tasks /\ task'.status = task.status /\ task'.emitted
      /\ task'.verified = task.verified
  BY DEF Announce, Tasks
<1>2. pc = "announce" /\ UNCHANGED <<loop, turn, review>> /\ ~task.emitted /\ task.status # "running"
  BY DEF Announce, EmittedIsAnnounced, EndHasStatus, EndPC
<1>3. ASSUME disk' = [disk EXCEPT !.announced = Append(@, task.status)], pc' = "report", signal' = signal
      PROVE  AgentInv'
  <2>1. disk' \in Disks /\ disk'.announced = <<task.status>> /\ disk'.announced # <<>>
    BY <1>2, <1>3, Announced
  <2>2. EndHasStatus' /\ EmittedIsAnnounced' /\ CompletedIsAnnounced' /\ FinalWrites'
    BY <1>1, <1>2, <1>3, <2>1
    DEF EndHasStatus, EmittedIsAnnounced, CompletedIsAnnounced, FinalWrites
  <2>3. EarlyCancelHolds'
    BY <1>1, <1>3, <2>1 DEF EarlyCancelHolds
  <2> QED
    BY <1>1, <1>2, <1>3, <2>1, <2>2, <2>3, EndStepKeeps DEF EndPC
<1>4. ASSUME Faulty, Fault, pc' = "raised", disk' = disk PROVE AgentInv'
  <2>1. signal' \in Signals /\ signal'.faults > 0 /\ signal'.cancelled = signal.cancelled
    BY <1>4, FaultTypes
  <2>2. signal'.faults # 0
    BY <2>1 DEF Signals
  <2>3. EndHasStatus' /\ EmittedIsAnnounced' /\ CompletedIsAnnounced' /\ FinalWrites'
    BY <1>1, <1>2, <1>4, <2>2
    DEF EndHasStatus, EmittedIsAnnounced, CompletedIsAnnounced, FinalWrites
  <2>4. EarlyCancelHolds'
    BY <1>1, <1>4, <2>1 DEF EarlyCancelHolds
  <2> QED
    BY <1>1, <1>2, <1>4, <2>1, <2>3, <2>4, EndStepKeeps DEF EndPC
<1> QED
  BY <1>3, <1>4 DEF Announce

LEMMA ReportKeeps == ASSUME AgentInv, Report PROVE AgentInv'
<1> USE DEF AgentInv, TypeOK
<1>1. pc = "report" /\ pc' = "gate" /\ UNCHANGED <<loop, turn, task, review, disk, signal>>
  BY DEF Report
<1>2. EndHasStatus' /\ EmittedIsAnnounced' /\ CompletedIsAnnounced' /\ FinalWrites' /\ EarlyCancelHolds'
  BY <1>1
  DEF EndHasStatus, EmittedIsAnnounced, CompletedIsAnnounced, FinalWrites, EarlyCancelHolds, EndPC
<1> QED
  BY <1>1, <1>2, EndStepKeeps DEF EndPC

\* The gate and the handler of exceptions leave the run stopped or failed, or as it was.
LEMMA GateKeeps == ASSUME AgentInv, Gate \/ Raised PROVE AgentInv'
<1> USE DEF AgentInv, TypeOK
<1>1. \/ task' = task /\ pc = "gate"
      \/ \E s \in {"stopped", "failed"}, r \in Reasons : task' = Stopped(task, s, r)
  BY DEF Gate, Raised, Reasons
<1>2. /\ task' \in Tasks /\ task'.emitted = task.emitted /\ task'.verified = task.verified
      /\ task'.status = "completed" => task.status = "completed" /\ pc = "gate"
      /\ task'.status # "running"
  <2>1. CASE task' = task /\ pc = "gate"
    BY <2>1 DEF EndHasStatus, EndPC
  <2>2. ASSUME NEW s \in {"stopped", "failed"}, NEW r \in Reasons, task' = Stopped(task, s, r)
        PROVE  /\ task' \in Tasks /\ task'.status = s
               /\ task'.emitted = task.emitted /\ task'.verified = task.verified
    <3>1. task \in Tasks /\ s \in Statuses
      BY <2>2 DEF Statuses
    <3> QED
      BY <2>2, <3>1, StoppedTypes, Zenon
  <2> QED
    BY <1>1, <2>1, <2>2
<1>3. pc \in {"gate", "raised"} /\ pc' = "persist" /\ UNCHANGED <<loop, turn, review, disk, signal>>
  BY DEF Gate, Raised
<1>4. EndHasStatus' /\ EmittedIsAnnounced' /\ CompletedIsAnnounced' /\ FinalWrites' /\ EarlyCancelHolds'
  BY <1>2, <1>3
  DEF EndHasStatus, EmittedIsAnnounced, CompletedIsAnnounced, FinalWrites, EarlyCancelHolds, EndPC
<1> QED
  BY <1>2, <1>3, <1>4, EndStepKeeps DEF EndPC

LEMMA PersistKeeps == ASSUME AgentInv, Persist PROVE AgentInv'
<1> USE DEF AgentInv, TypeOK
<1>1. pc = "persist" /\ UNCHANGED <<loop, turn, task, review>> /\ task.status \in Statuses
  BY DEF Persist, Tasks
<1>2. ASSUME disk' = [disk EXCEPT !.stored = task.status], pc' = "backfill", signal' = signal
      PROVE  AgentInv'
  <2>1. disk' \in Disks /\ disk'.announced = disk.announced /\ disk'.stored = task.status
    BY <1>1, <1>2 DEF Disks
  <2>2. EndHasStatus' /\ EmittedIsAnnounced' /\ CompletedIsAnnounced' /\ FinalWrites' /\ EarlyCancelHolds'
    BY <1>1, <1>2, <2>1
    DEF EndHasStatus, EmittedIsAnnounced, CompletedIsAnnounced, FinalWrites, EarlyCancelHolds, EndPC
  <2> QED
    BY <1>1, <1>2, <2>1, <2>2, EndStepKeeps DEF EndPC
<1>3. ASSUME Faulty, Fault, pc' = "lost", disk' = disk PROVE AgentInv'
  <2>1. signal' \in Signals /\ signal'.faults > 0 /\ signal'.cancelled = signal.cancelled
    BY <1>3, FaultTypes
  <2>2. signal'.faults # 0
    BY <2>1 DEF Signals
  <2>3. EndHasStatus' /\ EmittedIsAnnounced' /\ CompletedIsAnnounced' /\ FinalWrites' /\ EarlyCancelHolds'
    BY <1>1, <1>3, <2>1, <2>2
    DEF EndHasStatus, EmittedIsAnnounced, CompletedIsAnnounced, FinalWrites, EarlyCancelHolds, EndPC
  <2> QED
    BY <1>1, <1>3, <2>1, <2>3, EndStepKeeps DEF EndPC
<1> QED
  BY <1>2, <1>3 DEF Persist

LEMMA BackfillKeeps == ASSUME AgentInv, Backfill PROVE AgentInv'
<1> USE DEF AgentInv, TypeOK
<1>1. pc \in {"backfill", "lost"} /\ pc' = "close" /\ UNCHANGED <<loop, turn, review>>
  BY DEF Backfill
<1>2. /\ Unannounced \in Tasks /\ Unannounced.status = "failed"
      /\ Unannounced.emitted = task.emitted /\ Unannounced.verified = task.verified
  BY StoppedTypes DEF Unannounced, Statuses, Reasons
<1> DEFINE end == IF pc = "lost" THEN Unannounced ELSE task
<1>3. /\ end \in Tasks /\ end.emitted = task.emitted /\ end.verified = task.verified
      /\ end.status # "running"
      /\ end.status = "completed" => pc = "backfill" /\ task.status = "completed"
  BY <1>1, <1>2 DEF EndHasStatus, EndPC
<1>4. /\ end.status = "completed" => disk.announced = <<"completed">> /\ task.emitted
      /\ end.status = "completed" => disk.announced # <<>>
  <2>1. <<"completed">> # <<>>
    BY Len(<<"completed">>) = 1
  <2>2. end.status = "completed" => disk.announced = <<"completed">>
    BY <1>3 DEF CompletedIsAnnounced, EndPC
  <2> QED
    BY <2>1, <2>2 DEF EmittedIsAnnounced
<1>5. pc = "backfill" => disk.stored = end.status
  BY <1>1 DEF FinalWrites
<1>6. pc = "lost" => signal.faults # 0
  BY DEF FinalWrites, Signals
<1> HIDE DEF end
<1>7. ASSUME task.emitted, task' = end, UNCHANGED <<disk, signal>> PROVE AgentInv'
  <2>1. EndHasStatus' /\ EmittedIsAnnounced' /\ CompletedIsAnnounced' /\ FinalWrites' /\ EarlyCancelHolds'
    BY <1>1, <1>3, <1>4, <1>5, <1>6, <1>7
    DEF EndHasStatus, EmittedIsAnnounced, CompletedIsAnnounced, FinalWrites, EarlyCancelHolds
  <2> QED
    BY <1>1, <1>3, <1>7, <2>1, EndStepKeeps DEF EndPC
<1>8. ASSUME ~task.emitted, disk' = [disk EXCEPT !.announced = Append(@, task.status)],
             task' = [end EXCEPT !.emitted = TRUE], signal' = signal
      PROVE  AgentInv'
  <2>1. /\ disk' \in Disks /\ disk'.announced = <<task.status>> /\ disk'.stored = disk.stored
        /\ disk'.announced # <<>>
    BY <1>8, Announced
  <2>2. task' \in Tasks /\ task'.status = end.status /\ task'.emitted /\ task'.verified = end.verified
    BY <1>3, <1>8 DEF Tasks
  <2>3. EndHasStatus' /\ EmittedIsAnnounced' /\ CompletedIsAnnounced' /\ FinalWrites'
    BY <1>1, <1>3, <1>4, <1>5, <1>6, <1>8, <2>1, <2>2
    DEF EndHasStatus, EmittedIsAnnounced, CompletedIsAnnounced, FinalWrites
  <2>4. EarlyCancelHolds'
    BY <1>3, <1>8, <2>1, <2>2 DEF EarlyCancelHolds
  <2> QED
    BY <1>1, <1>3, <1>8, <2>1, <2>2, <2>3, <2>4, EndStepKeeps DEF EndPC
<1>9. ASSUME ~task.emitted, Faulty, Fault, task' = Unannounced, disk' = disk PROVE AgentInv'
  <2>1. signal' \in Signals /\ signal'.faults > 0 /\ signal'.cancelled = signal.cancelled
    BY <1>9, FaultTypes
  <2>2. signal'.faults # 0
    BY <2>1 DEF Signals
  <2>3. EndHasStatus' /\ EmittedIsAnnounced' /\ CompletedIsAnnounced' /\ FinalWrites' /\ EarlyCancelHolds'
    BY <1>1, <1>2, <1>9, <2>1, <2>2
    DEF EndHasStatus, EmittedIsAnnounced, CompletedIsAnnounced, FinalWrites, EarlyCancelHolds
  <2> QED
    BY <1>1, <1>2, <1>9, <2>1, <2>3, EndStepKeeps DEF EndPC
<1>10. \/ task.emitted /\ task' = end /\ UNCHANGED <<disk, signal>>
       \/ /\ ~task.emitted /\ disk' = [disk EXCEPT !.announced = Append(@, task.status)]
          /\ task' = [end EXCEPT !.emitted = TRUE] /\ signal' = signal
       \/ ~task.emitted /\ Faulty /\ Fault /\ task' = Unannounced /\ disk' = disk
  BY DEF Backfill, end
<1> QED
  BY <1>7, <1>8, <1>9, <1>10

LEMMA CloseKeeps == ASSUME AgentInv, Close PROVE AgentInv'
<1> USE DEF AgentInv, TypeOK
<1>1. pc = "close" /\ pc' = "returned" /\ UNCHANGED <<loop, turn, review>>
  BY DEF Close
<1>2. ASSUME UNCHANGED <<task, disk, signal>> PROVE AgentInv'
  <2>1. EndHasStatus' /\ EmittedIsAnnounced' /\ CompletedIsAnnounced' /\ FinalWrites' /\ EarlyCancelHolds'
    BY <1>1, <1>2
    DEF EndHasStatus, EmittedIsAnnounced, CompletedIsAnnounced, FinalWrites, EarlyCancelHolds, EndPC
  <2> QED
    BY <1>1, <1>2, <2>1, EndStepKeeps DEF EndPC
<1>3. ASSUME Faulty, Fault, task' = Unannounced, disk' \in {disk, [disk EXCEPT !.stored = "failed"]}
      PROVE  AgentInv'
  <2>1. signal' \in Signals /\ signal'.faults > 0 /\ signal'.cancelled = signal.cancelled
    BY <1>3, FaultTypes
  <2>2. signal'.faults # 0
    BY <2>1 DEF Signals
  <2>3. /\ task' \in Tasks /\ task'.status = "failed"
        /\ task'.emitted = task.emitted /\ task'.verified = task.verified
    BY <1>3, StoppedTypes DEF Unannounced, Statuses, Reasons
  <2>4. disk' \in Disks /\ disk'.announced = disk.announced
    BY <1>3 DEF Disks, Statuses
  <2>5. EndHasStatus' /\ EmittedIsAnnounced' /\ CompletedIsAnnounced' /\ FinalWrites' /\ EarlyCancelHolds'
    BY <1>1, <2>1, <2>2, <2>3, <2>4
    DEF EndHasStatus, EmittedIsAnnounced, CompletedIsAnnounced, FinalWrites, EarlyCancelHolds
  <2> QED
    BY <1>1, <2>1, <2>3, <2>4, <2>5, EndStepKeeps DEF EndPC
<1> QED
  BY <1>2, <1>3 DEF Close

\* The user's cancellation: before the last boundary the loop turns back, and
\* no answer has been accepted yet.
LEMMA CancelKeeps == ASSUME AgentInv, Cancel PROVE AgentInv'
<1> USE DEF AgentInv, TypeOK
<1>1. UNCHANGED <<pc, loop, turn, task, review, disk>>
  BY DEF Cancel
<1>2. /\ signal' \in Signals /\ signal'.faults = signal.faults
      /\ signal'.cancelled = IF pc \in PastBoundaries THEN "late" ELSE "early"
  BY DEF Cancel, Signals
<1>3. TypeOK' /\ NoEndInLoop' /\ EndHasStatus' /\ EmittedIsAnnounced' /\ CompletedIsAnnounced'
      /\ FinalWrites' /\ AwaitingIsCounted' /\ VerdictIsGated' /\ AcceptedIsReviewed'
  BY <1>1, <1>2
  DEF NoEndInLoop, EndHasStatus, EmittedIsAnnounced, CompletedIsAnnounced, FinalWrites,
    AwaitingIsCounted, VerdictIsGated, AcceptedIsReviewed
<1>4. signal'.cancelled = "early" => pc \in LoopPC \ {"finish", "judged"}
  BY <1>2 DEF PastBoundaries, LoopPC, EndPC
<1>5. EarlyTurnsBack'
  BY <1>1, <1>4 DEF EarlyTurnsBack
<1>6. EarlyCancelHolds'
  BY <1>1, <1>4 DEF EarlyCancelHolds, NoEndInLoop, EmittedIsAnnounced
<1> QED
  BY <1>3, <1>5, <1>6

-----------------------------------------------------------------------------
(* The theorems.                                                           *)

LEMMA InitAgent == Init => AgentInv
<1> SUFFICES ASSUME Init PROVE AgentInv
  OBVIOUS
<1>1. TypeOK
  BY FreshValues, AgentAssumption DEF Init, TypeOK, LoopPC, Disks, Signals, Statuses
<1>2. task.status = "running" /\ ~task.emitted /\ disk.announced = <<>> /\ pc = "plan"
      /\ signal.cancelled = "no" /\ ~loop.wrote /\ ~loop.awaiting
  BY FreshValues DEF Init
<1> QED
  BY <1>1, <1>2
  DEF AgentInv, NoEndInLoop, EndHasStatus, EmittedIsAnnounced, CompletedIsAnnounced, FinalWrites,
    EarlyTurnsBack, EarlyCancelHolds, AwaitingIsCounted, VerdictIsGated, AcceptedIsReviewed, EndPC

LEMMA NextAgent == AgentInv /\ [Next]_vars => AgentInv'
<1> SUFFICES ASSUME AgentInv, [Next]_vars PROVE AgentInv'
  OBVIOUS
<1>1. CASE LoopStep
  <2>1. ASSUME NEW reply \in Replies,
               \/ RefuseInFinalization(reply) \/ Talk(reply) \/ OneTool(reply) \/ ToolBatch(reply)
               \/ FirstBatchRaises(reply) \/ Retry(reply) \/ Final(reply)
        PROVE  AgentInv'
    BY <2>1, AnswerKeeps, FirstBatchRaisesKeeps
  <2>2. ASSUME \/ SeeCancel \/ InitialPlan \/ TopOfTurn \/ CapHit \/ Judge \/ Ask
               \/ RunTools \/ ShellEscapes
        PROVE  AgentInv'
    BY <2>2, SeeCancelKeeps, InitialPlanKeeps, TopOfTurnKeeps, CapHitKeeps, JudgeKeeps, AskKeeps,
      RunToolsKeeps, ShellEscapesKeeps
  <2>3. ASSUME \/ ReviewDecides \/ ReviewLooks \/ ReviewFails \/ PollJudged
               \/ AnswerGiven \/ FinalJudged
        PROVE  AgentInv'
    BY <2>3, ReviewDecidesKeeps, ReviewLooksKeeps, ReviewFailsKeeps, PollJudgedKeeps,
      AnswerGivenKeeps, FinalJudgedKeeps
  <2>4. ASSUME \/ Finish \/ AfterLoop \/ EndCancelled \/ EndUnclean \/ Announce \/ Report
               \/ Gate \/ Raised \/ Persist \/ Backfill \/ Close
        PROVE  AgentInv'
    BY <2>4, FinishKeeps, StoppingKeeps, AnnounceKeeps, ReportKeeps, GateKeeps, PersistKeeps,
      BackfillKeeps, CloseKeeps
  <2> QED
    BY <1>1, <2>1, <2>2, <2>3, <2>4 DEF LoopStep
<1>2. CASE Cancel \/ StoreRaises \/ ModelRaises
  BY <1>2, CancelKeeps, StoreRaisesKeeps, ModelRaisesKeeps
<1>3. CASE UNCHANGED vars
  BY <1>3
  DEF vars, AgentInv, TypeOK, NoEndInLoop, EndHasStatus, EmittedIsAnnounced, CompletedIsAnnounced,
    FinalWrites, EarlyTurnsBack, EarlyCancelHolds, AwaitingIsCounted, VerdictIsGated,
    AcceptedIsReviewed
<1> QED
  BY <1>1, <1>2, <1>3 DEF Next, Returned

\* A run is always in a state that AgentInv describes.
THEOREM AgentInvariant == Spec => []AgentInv
  BY InitAgent, NextAgent, PTL DEF Spec

\* Whatever the model, the tools and the review answer, in any order: a run that wrote ends
\* completed only on an answer that was reviewed after its last call, verified if the verdict was
\* finalize, and approved in the rounds the battle asks for (AgentLoop._maybe_run_review).
THEOREM CompletedWorkIsReviewed == Spec => []WorkIsReviewed
<1>1. AgentInv => WorkIsReviewed
  BY DEF AgentInv, AcceptedIsReviewed, WorkIsReviewed
<1> QED
  BY <1>1, AgentInvariant, PTL

\* A run whose user cancelled it before the verdict on its last answer never ends, and is
\* never announced, completed (boundaries 1 to 8 of AgentLoop._run_loop).
THEOREM EarlyCancellationHolds == Spec => []EarlyCancelHolds
<1>1. AgentInv => EarlyCancelHolds
  BY DEF AgentInv
<1> QED
  BY <1>1, AgentInvariant, PTL

\* run_finished is emitted at most once, exactly once when no write failed, and a run that
\* returns completed has announced and written just that (finalize_run).
THEOREM TheEndIsTold == Spec => []EndIsTold
<1>1. AgentInv => EndIsTold
  <2> SUFFICES ASSUME AgentInv PROVE EndIsTold
    OBVIOUS
  <2>1. disk.announced = <<>> \/ \E s \in Statuses : disk.announced = <<s>>
    BY DEF AgentInv, TypeOK, Disks
  <2>2. Len(disk.announced) <= 1 /\ (disk.announced # <<>> => Len(disk.announced) = 1)
    <3>1. ASSUME NEW s \in Statuses, disk.announced = <<s>>
          PROVE  Len(disk.announced) <= 1 /\ Len(disk.announced) = 1
      <4>1. Len(<<s>>) <= 1 /\ Len(<<s>>) = 1
        OBVIOUS
      <4> QED
        BY <3>1, <4>1
    <3>2. CASE disk.announced = <<>>
      BY <3>2
    <3> QED
      BY <2>1, <3>1, <3>2
  <2>3. pc = "returned" /\ (signal.faults = 0 \/ task.status = "completed") =>
          disk.announced # <<>> /\ disk.stored = task.status
    BY DEF AgentInv, FinalWrites
  <2>4. pc = "returned" /\ task.status = "completed" => disk.announced = <<"completed">>
    BY DEF AgentInv, CompletedIsAnnounced, EndPC
  <2> QED
    BY <2>2, <2>3, <2>4 DEF EndIsTold
<1> QED
  BY <1>1, AgentInvariant, PTL
=============================================================================
