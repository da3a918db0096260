--------------------------- MODULE BackendRunProofs ---------------------------
(***************************************************************************)
(* Theorems about BackendRun for every set of threads and every bound: the *)
(* safety of a Run whatever writes raise and whenever the service stops,   *)
(* and then that a Run without either implements RunContract.              *)
(***************************************************************************)
EXTENDS BackendRun, TLAPS

\* From the moment a status to converge to is chosen until the Run is over, it is a
\* terminal one.
GoalPC == {"unwind", "converge", "cvPending", "cvCancel", "artifact", "taskTerminal",
           "startArtifact", "startTerminal", "close", "publish"}
GoalChosen == pc[Runner] \in GoalPC => goal \in Terminal

TypeInv == TypeOK /\ GoalChosen

-----------------------------------------------------------------------------
(* What the writes of the code leave in each record.                       *)

LEMMA TaskWrites ==
  ASSUME TypeOK
  PROVE  /\ \A s \in TaskStatus : WithStatus(s) \in Tasks
         /\ \A a \in 0 .. MaxApprovals : Waiting(a) \in Tasks
         /\ Resumed \in Tasks
         /\ \A s \in Terminal : Ended(s) \in Tasks
  BY BoundsAreNaturals DEF TypeOK, Tasks, TaskStatus, WithStatus, Waiting, Resumed, Ended

LEMMA ApprovalWrites ==
  ASSUME TypeOK
  PROVE  /\ \A a, s : s \in ApprovalStatus =>
              [approval EXCEPT ![a] = s] \in [Approvals -> ApprovalStatus]
         /\ \A S : CancelledIn(S) \in [Approvals -> ApprovalStatus]
  BY DEF TypeOK, ApprovalStatus, Decided, CancelledIn

LEMMA JournalWrites ==
  ASSUME TypeOK, NEW t \in Thread
  PROVE  /\ \A a \in 0 .. MaxApprovals, to \in Decided \cup {"none"} :
              Begun(t, a, to) \in SUBSET Transitions
         /\ Committed(t) \in SUBSET Transitions
  BY DEF TypeOK, Transitions, Begun, Committed

LEMMA MoveWrites ==
  ASSUME TypeOK, NEW t \in Thread
  PROVE  /\ \A a \in 0 .. MaxApprovals, to \in Decided \cup {"none"}, b \in BOOLEAN :
              Moving(t, a, to, b) => move' \in [Thread -> Moves]
         /\ Unproven(t) => move' \in [Thread -> Moves]
         /\ move[t].apr \in 0 .. MaxApprovals /\ move[t].to \in Decided \cup {"none"}
         /\ move[t].prior \in 0 .. MaxApprovals
<1> USE DEF TypeOK
<1>1. ASSUME NEW a \in 0 .. MaxApprovals, NEW to \in Decided \cup {"none"}, NEW b \in BOOLEAN,
             Moving(t, a, to, b)
      PROVE  move' \in [Thread -> Moves]
  BY <1>1 DEF Moving, Moves, Tasks
<1>2. move[t] \in Moves
  OBVIOUS
<1>3. ASSUME Unproven(t) PROVE move' \in [Thread -> Moves]
  <2>1. [move[t] EXCEPT !.ok = FALSE] \in Moves
    BY <1>2 DEF Moves
  <2> QED
    BY <1>3, <2>1 DEF Unproven
<1> QED
  BY <1>1, <1>2, <1>3 DEF Moves

LEMMA GotoPC ==
  ASSUME TypeOK, NEW t \in Thread, NEW p \in PC, Goto(t, p)
  PROVE  pc' \in [Thread -> PC] /\ pc'[t] = p /\ \A u \in Thread \ {t} : pc'[u] = pc[u]
  BY DEF TypeOK, Goto

LEMMA RaiseCounts == ASSUME TypeOK, Raise PROVE faults' \in 0 .. MaxFaults
  BY BoundsAreNaturals DEF TypeOK, Raise

LEMMA CloseTypes ==
  ASSUME TypeOK, NEW t \in Thread, CloseTransition(t)
  PROVE  /\ journal' \in SUBSET Transitions
         /\ degraded' \in BOOLEAN
         /\ faults' \in 0 .. MaxFaults
  BY JournalWrites, RaiseCounts DEF TypeOK, CloseTransition, Landed

LEMMA ResolveTypes ==
  ASSUME TypeOK, NEW t \in Thread, NEW a \in 0 .. MaxApprovals,
         NEW to \in Decided \cup {"none"}, Resolve(t, a, to)
  PROVE  /\ gate' = {t}
         /\ journal' \in SUBSET Transitions
         /\ pc' \in [Thread -> PC]
         /\ pc'[t] \in ResolvePC /\ \A u \in Thread \ {t} : pc'[u] = pc[u]
         /\ move' \in [Thread -> Moves]
         /\ faults' \in 0 .. MaxFaults
<1>1. {"rsTask", "rbApproval"} \subseteq PC \cap ResolvePC
  BY DEF PC, ResolvePC
<1>2. Goto(t, "rsTask") \/ Goto(t, "rbApproval")
  BY DEF Resolve
<1>3. pc' \in [Thread -> PC] /\ pc'[t] \in ResolvePC /\ \A u \in Thread \ {t} : pc'[u] = pc[u]
  BY <1>1, <1>2, GotoPC
<1> QED
  BY <1>3, JournalWrites, MoveWrites, RaiseCounts DEF TypeOK, Resolve, Enter, Landed

-----------------------------------------------------------------------------
(* Type correctness, section by section of the code: the records, the gate *)
(* and the flags, the program counters, the threads' locals, the history.  *)

LEMMA StartingTypes ==
  ASSUME TypeInv, 
         Start \/ StartCancelled \/ StartFails \/ BuildRuntime \/ BuildFails
  PROVE  TypeInv'
<1> USE BoundsAreNaturals, ThreadsDiffer
    DEF Start, StartCancelled, StartFails, BuildRuntime, BuildFails, store, control, local,
      history
<1>1. task' \in Tasks /\ approval' \in [Approvals -> ApprovalStatus]
      /\ journal' \in SUBSET Transitions /\ artifact' \in Terminal \cup {"none"}
  BY TaskWrites, ApprovalWrites, JournalWrites DEF TypeInv, TypeOK, GoalChosen, GoalPC,
    Thread, Landed, TaskStatus, ApprovalStatus, Decided, Terminal
<1>2. gate' \in SUBSET Thread /\ closed' \in BOOLEAN /\ token' \in BOOLEAN
      /\ active' \in BOOLEAN /\ degraded' \in BOOLEAN /\ cleaned' \in BOOLEAN
  BY DEF TypeInv, TypeOK, Thread, Enter, Leave
<1>3. pc' \in [Thread -> PC] /\ goal' \in Terminal \cup {"none"} /\ GoalChosen'
  BY GotoPC DEF TypeInv, TypeOK, GoalChosen, GoalPC, Thread, PC, RunnerPC, ResolvePC,
    CancelPC, StopPC, Terminal
<1>4. cur' \in 0 .. MaxApprovals /\ move' \in [Thread -> Moves]
  BY MoveWrites DEF TypeInv, TypeOK, Thread
<1>5. expired' \in SUBSET Approvals /\ ran' \in SUBSET (0 .. MaxApprovals)
      /\ ended' \in SUBSET Terminal /\ faults' \in 0 .. MaxFaults
  BY RaiseCounts DEF TypeInv, TypeOK, GoalChosen, GoalPC, Terminal, Thread
<1> QED
  BY <1>1, <1>2, <1>3, <1>4, <1>5 DEF TypeInv, TypeOK

LEMMA RequestTypes == ASSUME TypeInv, Request PROVE TypeInv'
<1>1. Runner \in Thread /\ cur + 1 \in 0 .. MaxApprovals /\ cur' = cur + 1
  BY BoundsAreNaturals DEF TypeInv, TypeOK, Request, Thread
<1>2. journal' \in SUBSET Transitions /\ gate' \in SUBSET Thread
  BY <1>1, JournalWrites DEF TypeInv, TypeOK, Request, Enter, Landed
<1>3. move' \in [Thread -> Moves] /\ faults' \in 0 .. MaxFaults
  BY <1>1, MoveWrites, RaiseCounts DEF TypeInv, TypeOK, Request
<1>4. pc' \in [Thread -> PC] /\ pc'[Runner] \in {"rqCreate", "rqUndoTask"}
  <2>1. {"rqCreate", "rqUndoTask"} \subseteq PC
    BY DEF PC, RunnerPC
  <2>2. Goto(Runner, "rqCreate") \/ Goto(Runner, "rqUndoTask")
    BY DEF Request
  <2> QED
    BY <1>1, <2>1, <2>2, GotoPC DEF TypeInv
<1> QED
  BY <1>1, <1>2, <1>3, <1>4 DEF Request, TypeInv, TypeOK, GoalChosen, GoalPC

LEMMA RequestingTypes ==
  ASSUME TypeInv, 
         RequestCreate \/ RequestTask \/ RequestCommit
  PROVE  TypeInv'
<1> USE BoundsAreNaturals, ThreadsDiffer
    DEF RequestCreate, RequestTask, RequestCommit, store, control, local, history
<1>1. task' \in Tasks /\ approval' \in [Approvals -> ApprovalStatus]
      /\ journal' \in SUBSET Transitions /\ artifact' \in Terminal \cup {"none"}
  BY TaskWrites, ApprovalWrites, JournalWrites DEF TypeInv, TypeOK, GoalChosen, GoalPC,
    Thread, Landed, TaskStatus, ApprovalStatus, Decided, Terminal
<1>2. gate' \in SUBSET Thread /\ closed' \in BOOLEAN /\ token' \in BOOLEAN
      /\ active' \in BOOLEAN /\ degraded' \in BOOLEAN /\ cleaned' \in BOOLEAN
  BY DEF TypeInv, TypeOK, Thread, Enter, Leave
<1>3. pc' \in [Thread -> PC] /\ goal' \in Terminal \cup {"none"} /\ GoalChosen'
  BY GotoPC DEF TypeInv, TypeOK, GoalChosen, GoalPC, Thread, PC, RunnerPC, ResolvePC,
    CancelPC, StopPC, Terminal
<1>4. cur' \in 0 .. MaxApprovals /\ move' \in [Thread -> Moves]
  BY MoveWrites DEF TypeInv, TypeOK, Thread
<1>5. expired' \in SUBSET Approvals /\ ran' \in SUBSET (0 .. MaxApprovals)
      /\ ended' \in SUBSET Terminal /\ faults' \in 0 .. MaxFaults
  BY RaiseCounts DEF TypeInv, TypeOK, GoalChosen, GoalPC, Terminal, Thread
<1> QED
  BY <1>1, <1>2, <1>3, <1>4, <1>5 DEF TypeInv, TypeOK

LEMMA UndoingTypes ==
  ASSUME TypeInv, 
         UndoApproval \/ UndoTask \/ UndoCommit
  PROVE  TypeInv'
<1> USE BoundsAreNaturals, ThreadsDiffer
    DEF UndoApproval, UndoTask, UndoCommit, store, control, local, history
<1>1. task' \in Tasks /\ approval' \in [Approvals -> ApprovalStatus]
      /\ journal' \in SUBSET Transitions /\ artifact' \in Terminal \cup {"none"}
  BY TaskWrites, ApprovalWrites, JournalWrites, CloseTypes DEF TypeInv, TypeOK, GoalChosen,
    GoalPC, Thread, Landed, TaskStatus, ApprovalStatus, Decided, Terminal
<1>2. gate' \in SUBSET Thread /\ closed' \in BOOLEAN /\ token' \in BOOLEAN
      /\ active' \in BOOLEAN /\ degraded' \in BOOLEAN /\ cleaned' \in BOOLEAN
  BY CloseTypes DEF TypeInv, TypeOK, Thread, Enter, Leave
<1>3. pc' \in [Thread -> PC] /\ goal' \in Terminal \cup {"none"} /\ GoalChosen'
  BY GotoPC DEF TypeInv, TypeOK, GoalChosen, GoalPC, Thread, PC, RunnerPC, ResolvePC,
    CancelPC, StopPC, Terminal
<1>4. cur' \in 0 .. MaxApprovals /\ move' \in [Thread -> Moves]
  BY MoveWrites DEF TypeInv, TypeOK, Thread
<1>5. expired' \in SUBSET Approvals /\ ran' \in SUBSET (0 .. MaxApprovals)
      /\ ended' \in SUBSET Terminal /\ faults' \in 0 .. MaxFaults
  BY RaiseCounts, CloseTypes DEF TypeInv, TypeOK, GoalChosen, GoalPC, Terminal, Thread
<1> QED
  BY <1>1, <1>2, <1>3, <1>4, <1>5 DEF TypeInv, TypeOK

LEMMA WaitingTypes ==
  ASSUME TypeInv, 
         WaitDecided \/ WaitCancelled \/ WaitExpired \/ CheckApproved \/ CheckExpired
  PROVE  TypeInv'
<1> USE BoundsAreNaturals, ThreadsDiffer
    DEF WaitDecided, WaitCancelled, WaitExpired, CheckApproved, CheckExpired, store,
      control, local, history
<1>1. task' \in Tasks /\ approval' \in [Approvals -> ApprovalStatus]
      /\ journal' \in SUBSET Transitions /\ artifact' \in Terminal \cup {"none"}
  BY TaskWrites, ApprovalWrites, JournalWrites DEF TypeInv, TypeOK, GoalChosen, GoalPC,
    Thread, Landed, TaskStatus, ApprovalStatus, Decided, Terminal
<1>2. gate' \in SUBSET Thread /\ closed' \in BOOLEAN /\ token' \in BOOLEAN
      /\ active' \in BOOLEAN /\ degraded' \in BOOLEAN /\ cleaned' \in BOOLEAN
  BY DEF TypeInv, TypeOK, Thread, Enter, Leave
<1>3. pc' \in [Thread -> PC] /\ goal' \in Terminal \cup {"none"} /\ GoalChosen'
  BY GotoPC DEF TypeInv, TypeOK, GoalChosen, GoalPC, Thread, PC, RunnerPC, ResolvePC,
    CancelPC, StopPC, Terminal
<1>4. cur' \in 0 .. MaxApprovals /\ move' \in [Thread -> Moves]
  BY MoveWrites DEF TypeInv, TypeOK, Thread
<1>5. expired' \in SUBSET Approvals /\ ran' \in SUBSET (0 .. MaxApprovals)
      /\ ended' \in SUBSET Terminal /\ faults' \in 0 .. MaxFaults
  BY RaiseCounts DEF TypeInv, TypeOK, GoalChosen, GoalPC, Terminal, Thread
<1> QED
  BY <1>1, <1>2, <1>3, <1>4, <1>5 DEF TypeInv, TypeOK

LEMMA RunningTypes ==
  ASSUME TypeInv, 
         ToolStart \/ NoticeCancel \/ AgentEnds \/ Unwind
  PROVE  TypeInv'
<1> USE BoundsAreNaturals, ThreadsDiffer
    DEF ToolStart, NoticeCancel, AgentEnds, Unwind, store, control, local, history
<1>1. task' \in Tasks /\ approval' \in [Approvals -> ApprovalStatus]
      /\ journal' \in SUBSET Transitions /\ artifact' \in Terminal \cup {"none"}
  BY TaskWrites, ApprovalWrites, JournalWrites DEF TypeInv, TypeOK, GoalChosen, GoalPC,
    Thread, Landed, TaskStatus, ApprovalStatus, Decided, Terminal
<1>2. gate' \in SUBSET Thread /\ closed' \in BOOLEAN /\ token' \in BOOLEAN
      /\ active' \in BOOLEAN /\ degraded' \in BOOLEAN /\ cleaned' \in BOOLEAN
  BY DEF TypeInv, TypeOK, Thread, Enter, Leave
<1>3. pc' \in [Thread -> PC] /\ goal' \in Terminal \cup {"none"} /\ GoalChosen'
  BY GotoPC DEF TypeInv, TypeOK, GoalChosen, GoalPC, Thread, PC, RunnerPC, ResolvePC,
    CancelPC, StopPC, Terminal
<1>4. cur' \in 0 .. MaxApprovals /\ move' \in [Thread -> Moves]
  BY MoveWrites DEF TypeInv, TypeOK, Thread
<1>5. expired' \in SUBSET Approvals /\ ran' \in SUBSET (0 .. MaxApprovals)
      /\ ended' \in SUBSET Terminal /\ faults' \in 0 .. MaxFaults
  BY RaiseCounts DEF TypeInv, TypeOK, GoalChosen, GoalPC, Terminal, Thread
<1> QED
  BY <1>1, <1>2, <1>3, <1>4, <1>5 DEF TypeInv, TypeOK

LEMMA ConvergingTypes ==
  ASSUME TypeInv, 
         Converge \/ ConvergePending \/ ConvergeCancel
  PROVE  TypeInv'
<1> USE BoundsAreNaturals, ThreadsDiffer
    DEF Converge, ConvergePending, ConvergeCancel, store, control, local, history
<1>1. task' \in Tasks /\ approval' \in [Approvals -> ApprovalStatus]
      /\ journal' \in SUBSET Transitions /\ artifact' \in Terminal \cup {"none"}
  BY TaskWrites, ApprovalWrites, JournalWrites DEF TypeInv, TypeOK, GoalChosen, GoalPC,
    Thread, Landed, TaskStatus, ApprovalStatus, Decided, Terminal
<1>2. gate' \in SUBSET Thread /\ closed' \in BOOLEAN /\ token' \in BOOLEAN
      /\ active' \in BOOLEAN /\ degraded' \in BOOLEAN /\ cleaned' \in BOOLEAN
  BY DEF TypeInv, TypeOK, Thread, Enter, Leave
<1>3. pc' \in [Thread -> PC] /\ goal' \in Terminal \cup {"none"} /\ GoalChosen'
  BY GotoPC DEF TypeInv, TypeOK, GoalChosen, GoalPC, Thread, PC, RunnerPC, ResolvePC,
    CancelPC, StopPC, Terminal
<1>4. cur' \in 0 .. MaxApprovals /\ move' \in [Thread -> Moves]
  BY MoveWrites DEF TypeInv, TypeOK, Thread
<1>5. expired' \in SUBSET Approvals /\ ran' \in SUBSET (0 .. MaxApprovals)
      /\ ended' \in SUBSET Terminal /\ faults' \in 0 .. MaxFaults
  BY RaiseCounts DEF TypeInv, TypeOK, GoalChosen, GoalPC, Terminal, Thread
<1> QED
  BY <1>1, <1>2, <1>3, <1>4, <1>5 DEF TypeInv, TypeOK

LEMMA PersistingTypes ==
  ASSUME TypeInv, 
         PersistArtifact \/ PersistTask \/ PersistFails
  PROVE  TypeInv'
<1> USE BoundsAreNaturals, ThreadsDiffer
    DEF PersistArtifact, PersistTask, PersistFails, store, control, local, history
<1>1. task' \in Tasks /\ approval' \in [Approvals -> ApprovalStatus]
      /\ journal' \in SUBSET Transitions /\ artifact' \in Terminal \cup {"none"}
  BY TaskWrites, ApprovalWrites, JournalWrites DEF TypeInv, TypeOK, GoalChosen, GoalPC,
    Thread, Landed, TaskStatus, ApprovalStatus, Decided, Terminal
<1>2. gate' \in SUBSET Thread /\ closed' \in BOOLEAN /\ token' \in BOOLEAN
      /\ active' \in BOOLEAN /\ degraded' \in BOOLEAN /\ cleaned' \in BOOLEAN
  BY DEF TypeInv, TypeOK, Thread, Enter, Leave
<1>3. pc' \in [Thread -> PC] /\ goal' \in Terminal \cup {"none"} /\ GoalChosen'
  BY GotoPC DEF TypeInv, TypeOK, GoalChosen, GoalPC, Thread, PC, RunnerPC, ResolvePC,
    CancelPC, StopPC, Terminal
<1>4. cur' \in 0 .. MaxApprovals /\ move' \in [Thread -> Moves]
  BY MoveWrites DEF TypeInv, TypeOK, Thread
<1>5. expired' \in SUBSET Approvals /\ ran' \in SUBSET (0 .. MaxApprovals)
      /\ ended' \in SUBSET Terminal /\ faults' \in 0 .. MaxFaults
  BY RaiseCounts DEF TypeInv, TypeOK, GoalChosen, GoalPC, Terminal, Thread
<1> QED
  BY <1>1, <1>2, <1>3, <1>4, <1>5 DEF TypeInv, TypeOK

LEMMA StartEndingTypes ==
  ASSUME TypeInv, 
         StartArtifact \/ StartTerminal \/ StartPersistFails
  PROVE  TypeInv'
<1> USE BoundsAreNaturals, ThreadsDiffer
    DEF StartArtifact, StartTerminal, StartPersistFails, store, control, local, history
<1>1. task' \in Tasks /\ approval' \in [Approvals -> ApprovalStatus]
      /\ journal' \in SUBSET Transitions /\ artifact' \in Terminal \cup {"none"}
  BY TaskWrites, ApprovalWrites, JournalWrites DEF TypeInv, TypeOK, GoalChosen, GoalPC,
    Thread, Landed, TaskStatus, ApprovalStatus, Decided, Terminal
<1>2. gate' \in SUBSET Thread /\ closed' \in BOOLEAN /\ token' \in BOOLEAN
      /\ active' \in BOOLEAN /\ degraded' \in BOOLEAN /\ cleaned' \in BOOLEAN
  BY DEF TypeInv, TypeOK, Thread, Enter, Leave
<1>3. pc' \in [Thread -> PC] /\ goal' \in Terminal \cup {"none"} /\ GoalChosen'
  BY GotoPC DEF TypeInv, TypeOK, GoalChosen, GoalPC, Thread, PC, RunnerPC, ResolvePC,
    CancelPC, StopPC, Terminal
<1>4. cur' \in 0 .. MaxApprovals /\ move' \in [Thread -> Moves]
  BY MoveWrites DEF TypeInv, TypeOK, Thread
<1>5. expired' \in SUBSET Approvals /\ ran' \in SUBSET (0 .. MaxApprovals)
      /\ ended' \in SUBSET Terminal /\ faults' \in 0 .. MaxFaults
  BY RaiseCounts DEF TypeInv, TypeOK, GoalChosen, GoalPC, Terminal, Thread
<1> QED
  BY <1>1, <1>2, <1>3, <1>4, <1>5 DEF TypeInv, TypeOK

LEMMA EndingTypes ==
  ASSUME TypeInv, 
         Close \/ Publish \/ Release
  PROVE  TypeInv'
<1> USE BoundsAreNaturals, ThreadsDiffer
    DEF Close, Publish, Release, store, control, local, history
<1>1. task' \in Tasks /\ approval' \in [Approvals -> ApprovalStatus]
      /\ journal' \in SUBSET Transitions /\ artifact' \in Terminal \cup {"none"}
  BY TaskWrites, ApprovalWrites, JournalWrites DEF TypeInv, TypeOK, GoalChosen, GoalPC,
    Thread, Landed, TaskStatus, ApprovalStatus, Decided, Terminal
<1>2. gate' \in SUBSET Thread /\ closed' \in BOOLEAN /\ token' \in BOOLEAN
      /\ active' \in BOOLEAN /\ degraded' \in BOOLEAN /\ cleaned' \in BOOLEAN
  BY DEF TypeInv, TypeOK, Thread, Enter, Leave
<1>3. pc' \in [Thread -> PC] /\ goal' \in Terminal \cup {"none"} /\ GoalChosen'
  BY GotoPC DEF TypeInv, TypeOK, GoalChosen, GoalPC, Thread, PC, RunnerPC, ResolvePC,
    CancelPC, StopPC, Terminal
<1>4. cur' \in 0 .. MaxApprovals /\ move' \in [Thread -> Moves]
  BY MoveWrites DEF TypeInv, TypeOK, Thread
<1>5. expired' \in SUBSET Approvals /\ ran' \in SUBSET (0 .. MaxApprovals)
      /\ ended' \in SUBSET Terminal /\ faults' \in 0 .. MaxFaults
  BY RaiseCounts DEF TypeInv, TypeOK, GoalChosen, GoalPC, Terminal, Thread
<1> QED
  BY <1>1, <1>2, <1>3, <1>4, <1>5 DEF TypeInv, TypeOK

LEMMA ResolvingTypes ==
  ASSUME TypeInv, NEW t \in {Runner} \cup Deciders, 
         ResolveTask(t) \/ ResolveApproval(t) \/ ResolveCommit(t)
  PROVE  TypeInv'
<1> USE BoundsAreNaturals, ThreadsDiffer
    DEF ResolveTask, ResolveApproval, ResolveCommit, store, control, local, history
<1>1. task' \in Tasks /\ approval' \in [Approvals -> ApprovalStatus]
      /\ journal' \in SUBSET Transitions /\ artifact' \in Terminal \cup {"none"}
  BY MoveWrites, TaskWrites, ApprovalWrites, JournalWrites DEF TypeInv, TypeOK, GoalChosen, GoalPC,
    Thread, Landed, TaskStatus, ApprovalStatus, Decided, Terminal
<1>2. gate' \in SUBSET Thread /\ closed' \in BOOLEAN /\ token' \in BOOLEAN
      /\ active' \in BOOLEAN /\ degraded' \in BOOLEAN /\ cleaned' \in BOOLEAN
  BY DEF TypeInv, TypeOK, Thread, Enter, Leave
<1>3. pc' \in [Thread -> PC] /\ goal' \in Terminal \cup {"none"} /\ GoalChosen'
  BY GotoPC DEF TypeInv, TypeOK, GoalChosen, GoalPC, Thread, PC, RunnerPC, ResolvePC,
    CancelPC, StopPC, Terminal
<1>4. cur' \in 0 .. MaxApprovals /\ move' \in [Thread -> Moves]
  BY MoveWrites DEF TypeInv, TypeOK, Thread
<1>5. expired' \in SUBSET Approvals /\ ran' \in SUBSET (0 .. MaxApprovals)
      /\ ended' \in SUBSET Terminal /\ faults' \in 0 .. MaxFaults
  BY RaiseCounts DEF TypeInv, TypeOK, GoalChosen, GoalPC, Terminal, Thread
<1> QED
  BY <1>1, <1>2, <1>3, <1>4, <1>5 DEF TypeInv, TypeOK

LEMMA RollingBackTypes ==
  ASSUME TypeInv, NEW t \in {Runner} \cup Deciders, 
         RollbackApproval(t) \/ RollbackTask(t) \/ RollbackCommit(t)
  PROVE  TypeInv'
<1> USE BoundsAreNaturals, ThreadsDiffer
    DEF RollbackApproval, RollbackTask, RollbackCommit, store, control, local, history
<1>1. task' \in Tasks /\ approval' \in [Approvals -> ApprovalStatus]
      /\ journal' \in SUBSET Transitions /\ artifact' \in Terminal \cup {"none"}
  BY MoveWrites, TaskWrites, ApprovalWrites, JournalWrites, CloseTypes DEF TypeInv, TypeOK, GoalChosen,
    GoalPC, Thread, Landed, TaskStatus, ApprovalStatus, Decided, Terminal
<1>2. gate' \in SUBSET Thread /\ closed' \in BOOLEAN /\ token' \in BOOLEAN
      /\ active' \in BOOLEAN /\ degraded' \in BOOLEAN /\ cleaned' \in BOOLEAN
  BY CloseTypes DEF TypeInv, TypeOK, Thread, Enter, Leave
<1>3. pc' \in [Thread -> PC] /\ goal' \in Terminal \cup {"none"} /\ GoalChosen'
  BY GotoPC DEF TypeInv, TypeOK, GoalChosen, GoalPC, Thread, PC, RunnerPC, ResolvePC,
    CancelPC, StopPC, Terminal
<1>4. cur' \in 0 .. MaxApprovals /\ move' \in [Thread -> Moves]
  BY MoveWrites DEF TypeInv, TypeOK, Thread
<1>5. expired' \in SUBSET Approvals /\ ran' \in SUBSET (0 .. MaxApprovals)
      /\ ended' \in SUBSET Terminal /\ faults' \in 0 .. MaxFaults
  BY RaiseCounts, CloseTypes DEF TypeInv, TypeOK, GoalChosen, GoalPC, Terminal, Thread
<1> QED
  BY <1>1, <1>2, <1>3, <1>4, <1>5 DEF TypeInv, TypeOK

LEMMA CancellingTypes ==
  ASSUME TypeInv, NEW t \in {Stopper} \cup Cancellers, 
         CancelTask(t) \/ CancelApprovals(t) \/ CancelShell(t)
  PROVE  TypeInv'
<1> USE BoundsAreNaturals, ThreadsDiffer
    DEF CancelTask, CancelApprovals, CancelShell, store, control, local, history
<1>1. task' \in Tasks /\ approval' \in [Approvals -> ApprovalStatus]
      /\ journal' \in SUBSET Transitions /\ artifact' \in Terminal \cup {"none"}
  BY TaskWrites, ApprovalWrites, JournalWrites DEF TypeInv, TypeOK, GoalChosen, GoalPC,
    Thread, Landed, TaskStatus, ApprovalStatus, Decided, Terminal
<1>2. gate' \in SUBSET Thread /\ closed' \in BOOLEAN /\ token' \in BOOLEAN
      /\ active' \in BOOLEAN /\ degraded' \in BOOLEAN /\ cleaned' \in BOOLEAN
  BY DEF TypeInv, TypeOK, Thread, Enter, Leave
<1>3. pc' \in [Thread -> PC] /\ goal' \in Terminal \cup {"none"} /\ GoalChosen'
  BY GotoPC DEF TypeInv, TypeOK, GoalChosen, GoalPC, Thread, PC, RunnerPC, ResolvePC,
    CancelPC, StopPC, Terminal
<1>4. cur' \in 0 .. MaxApprovals /\ move' \in [Thread -> Moves]
  BY MoveWrites DEF TypeInv, TypeOK, Thread
<1>5. expired' \in SUBSET Approvals /\ ran' \in SUBSET (0 .. MaxApprovals)
      /\ ended' \in SUBSET Terminal /\ faults' \in 0 .. MaxFaults
  BY RaiseCounts DEF TypeInv, TypeOK, GoalChosen, GoalPC, Terminal, Thread
<1> QED
  BY <1>1, <1>2, <1>3, <1>4, <1>5 DEF TypeInv, TypeOK

LEMMA StoppingTypes ==
  ASSUME TypeInv, 
         Stop \/ StopWait \/ StopClose \/ StopArtifact \/ StopTask
  PROVE  TypeInv'
<1> USE BoundsAreNaturals, ThreadsDiffer
    DEF Stop, StopWait, StopClose, StopArtifact, StopTask, store, control, local, history
<1>1. task' \in Tasks /\ approval' \in [Approvals -> ApprovalStatus]
      /\ journal' \in SUBSET Transitions /\ artifact' \in Terminal \cup {"none"}
  BY TaskWrites, ApprovalWrites, JournalWrites DEF TypeInv, TypeOK, GoalChosen, GoalPC,
    Thread, Landed, TaskStatus, ApprovalStatus, Decided, Terminal
<1>2. gate' \in SUBSET Thread /\ closed' \in BOOLEAN /\ token' \in BOOLEAN
      /\ active' \in BOOLEAN /\ degraded' \in BOOLEAN /\ cleaned' \in BOOLEAN
  BY DEF TypeInv, TypeOK, Thread, Enter, Leave
<1>3. pc' \in [Thread -> PC] /\ goal' \in Terminal \cup {"none"} /\ GoalChosen'
  BY GotoPC DEF TypeInv, TypeOK, GoalChosen, GoalPC, Thread, PC, RunnerPC, ResolvePC,
    CancelPC, StopPC, Terminal
<1>4. cur' \in 0 .. MaxApprovals /\ move' \in [Thread -> Moves]
  BY MoveWrites DEF TypeInv, TypeOK, Thread
<1>5. expired' \in SUBSET Approvals /\ ran' \in SUBSET (0 .. MaxApprovals)
      /\ ended' \in SUBSET Terminal /\ faults' \in 0 .. MaxFaults
  BY RaiseCounts DEF TypeInv, TypeOK, GoalChosen, GoalPC, Terminal, Thread
<1> QED
  BY <1>1, <1>2, <1>3, <1>4, <1>5 DEF TypeInv, TypeOK

LEMMA ResolveStartTypes ==
  ASSUME TypeInv, NEW t \in {Runner} \cup Deciders, NEW a \in 0 .. MaxApprovals,
         NEW to \in Decided \cup {"none"}, Resolve(t, a, to),
         UNCHANGED <<task, approval, artifact, closed, token, active, degraded, cleaned,
                     cur, goal, expired, ran, ended>>
  PROVE  TypeInv'
<1>1. t \in Thread /\ Runner \in Thread
  BY DEF Thread
<1>2. GoalChosen'
  BY <1>1, ResolveTypes DEF TypeInv, GoalChosen, GoalPC, ResolvePC
<1> QED
  BY <1>1, <1>2, ResolveTypes DEF TypeInv, TypeOK

LEMMA ExpireTypes == ASSUME TypeInv, Expire PROVE TypeInv'
<1>1. cur \in 0 .. MaxApprovals /\ "expired" \in Decided
  BY DEF TypeInv, TypeOK, Decided
<1> QED
  BY <1>1, ResolveStartTypes DEF Expire

LEMMA DecidingTypes ==
  ASSUME TypeInv, NEW d \in Deciders,
         \/ DecideGate(d) \/ DecideRefused(d)
         \/ \E a \in Approvals, s \in {"approved", "rejected"} : Decide(d, a, s)
  PROVE  TypeInv'
<1>1. d \in Thread /\ Runner \in Thread /\ d # Runner
  BY ThreadsDiffer DEF Thread
<1>2. CASE DecideGate(d)
  BY <1>1, <1>2, MoveWrites, ResolveStartTypes DEF TypeInv, DecideGate
<1>3. CASE DecideRefused(d)
  <2>1. "done" \in PC
    BY DEF PC
  <2> QED
    BY <1>1, <1>3, <2>1, GotoPC DEF DecideRefused, TypeInv, TypeOK, GoalChosen, store, control, history
<1>4. ASSUME NEW a \in Approvals, NEW s \in {"approved", "rejected"}, Decide(d, a, s)
      PROVE  TypeInv'
  <2>1. "dcGate" \in PC
    BY DEF PC
  <2>2. Choice(a, s) \in Moves
    BY BoundsAreNaturals DEF Choice, Moves, Approvals, Decided
  <2> QED
    BY <1>1, <1>4, <2>1, <2>2, GotoPC DEF Decide, TypeInv, TypeOK, GoalChosen, store, control, history
<1> QED
  BY <1>2, <1>3, <1>4

LEMMA OtherTypes ==
  ASSUME TypeInv, \/ \E c \in Cancellers : Cancel(c)
                  \/ \E a \in Approvals : Tick(a)
                  \/ UNCHANGED vars
  PROVE  TypeInv'
<1>1. ASSUME NEW c \in Cancellers, Cancel(c) PROVE TypeInv'
  <2>1. c \in Thread /\ Runner \in Thread /\ c # Runner /\ "cnGate" \in PC
    BY ThreadsDiffer DEF Thread, PC, CancelPC
  <2> QED
    BY <1>1, <2>1, GotoPC DEF Cancel, TypeInv, TypeOK, GoalChosen, store, control, history
<1>2. ASSUME NEW a \in Approvals, Tick(a) PROVE TypeInv'
  BY <1>2 DEF Tick, TypeInv, TypeOK, GoalChosen, store, control, local
<1>3. CASE UNCHANGED vars
  BY <1>3 DEF vars, TypeInv, TypeOK, GoalChosen, store, control, local, history
<1> QED
  BY <1>1, <1>2, <1>3

LEMMA TypeInit == Init => TypeInv
<1> SUFFICES ASSUME Init PROVE TypeInv
  OBVIOUS
<1> USE BoundsAreNaturals, ThreadsDiffer DEF Init
<1>1. task \in Tasks /\ approval \in [Approvals -> ApprovalStatus]
  BY DEF Tasks, TaskStatus, ApprovalStatus
<1>2. pc \in [Thread -> PC] /\ pc[Runner] = "queued"
  BY DEF Thread, PC, RunnerPC
<1>3. NoMove \in Moves
  BY DEF NoMove, Choice, Moves
<1>4. move \in [Thread -> Moves]
  BY <1>3
<1>5. gate \in SUBSET Thread /\ journal \in SUBSET Transitions /\ ended \in SUBSET Terminal
      /\ expired \in SUBSET Approvals /\ ran \in SUBSET (0 .. MaxApprovals)
  OBVIOUS
<1>6. cur \in 0 .. MaxApprovals /\ faults \in 0 .. MaxFaults /\ GoalChosen
  BY <1>2 DEF GoalChosen, GoalPC
<1> QED
  BY <1>1, <1>2, <1>4, <1>5, <1>6 DEF TypeInv, TypeOK

LEMMA TypeNext == TypeInv /\ [Next]_vars => TypeInv'
<1> SUFFICES ASSUME TypeInv, [Next]_vars PROVE TypeInv'
  OBVIOUS
<1>1. CASE RunnerStep
  BY <1>1, StartingTypes, RequestTypes, RequestingTypes, UndoingTypes, WaitingTypes, RunningTypes,
     ConvergingTypes, PersistingTypes, StartEndingTypes, EndingTypes, ResolvingTypes,
     RollingBackTypes, ExpireTypes
     DEF RunnerStep, ResolveStep
<1>2. ASSUME NEW d \in Deciders,
             \/ DeciderStep(d)
             \/ \E a \in Approvals, s \in {"approved", "rejected"} : Decide(d, a, s)
      PROVE  TypeInv'
  BY <1>2, DecidingTypes, ResolvingTypes, RollingBackTypes DEF DeciderStep, ResolveStep
<1>3. ASSUME NEW c \in Cancellers, Cancel(c) \/ CancelStep(c) PROVE TypeInv'
  BY <1>3, OtherTypes, CancellingTypes DEF CancelStep
<1>4. CASE Stop \/ StopStep
  BY <1>4, StoppingTypes, CancellingTypes DEF StopStep, CancelStep
<1>5. CASE (\E a \in Approvals : Tick(a)) \/ Over \/ UNCHANGED vars
  BY <1>5, OtherTypes DEF Over
<1> QED
  BY <1>1, <1>2, <1>3, <1>4, <1>5 DEF Next

\* Every variable keeps to the values the code can give it, for any number of threads,
\* approvals and raising writes.
THEOREM TypeCorrect == Spec => []TypeOK
<1>1. TypeInv => TypeOK
  BY DEF TypeInv
<1> QED
  BY <1>1, TypeInit, TypeNext, PTL DEF Spec

-----------------------------------------------------------------------------
(* Exclusion: the holder of the RunGate is the thread inside a gated section. *)

GateInv == TypeInv /\ GateExclusive

LEMMA GateKept ==
  ASSUME GateInv, NEW t \in Thread, NEW p \in PC, Goto(t, p), gate' = gate,
         pc[t] \in GatedPC <=> p \in GatedPC
  PROVE  GateExclusive'
  BY DEF GateInv, TypeInv, TypeOK, GateExclusive, Goto

LEMMA GateEntered ==
  ASSUME GateInv, NEW t \in Thread, NEW p \in GatedPC, Goto(t, p), Enter(t)
  PROVE  GateExclusive'
  BY DEF GateInv, TypeInv, TypeOK, GateExclusive, Goto, Enter

LEMMA GateLeft ==
  ASSUME GateInv, NEW t \in Thread, NEW p \in PC \ GatedPC, Goto(t, p), Leave(t)
  PROVE  GateExclusive'
  BY DEF GateInv, TypeInv, TypeOK, GateExclusive, Goto, Leave

LEMMA StartingExcludes ==
  ASSUME GateInv, 
         Start \/ StartCancelled \/ StartFails \/ BuildRuntime \/ BuildFails
  PROVE  GateExclusive'
  BY GateKept, GateEntered, GateLeft DEF Start, StartCancelled, StartFails, BuildRuntime,
    BuildFails, GatedPC, PC, RunnerPC, ResolvePC, CancelPC, StopPC, Thread, control

LEMMA RequestingExcludes ==
  ASSUME GateInv, 
         Request \/ RequestCreate \/ RequestTask \/ RequestCommit
  PROVE  GateExclusive'
  BY GateKept, GateEntered, GateLeft DEF Request, RequestCreate, RequestTask,
    RequestCommit, GatedPC, PC, RunnerPC, ResolvePC, CancelPC, StopPC, Thread, control

LEMMA UndoingExcludes ==
  ASSUME GateInv, 
         UndoApproval \/ UndoTask \/ UndoCommit
  PROVE  GateExclusive'
  BY GateKept, GateEntered, GateLeft DEF UndoApproval, UndoTask, UndoCommit, GatedPC, PC,
    RunnerPC, ResolvePC, CancelPC, StopPC, Thread, control

LEMMA WaitingExcludes ==
  ASSUME GateInv, 
         WaitDecided \/ WaitCancelled \/ WaitExpired \/ CheckApproved \/ CheckExpired
  PROVE  GateExclusive'
  BY GateKept, GateEntered, GateLeft DEF WaitDecided, WaitCancelled, WaitExpired,
    CheckApproved, CheckExpired, GatedPC, PC, RunnerPC, ResolvePC, CancelPC, StopPC,
    Thread, control

LEMMA RunningExcludes ==
  ASSUME GateInv, 
         Expire \/ ToolStart \/ NoticeCancel \/ AgentEnds \/ Unwind
  PROVE  GateExclusive'
  BY GateKept, GateEntered, GateLeft DEF Expire, ToolStart, NoticeCancel, AgentEnds,
    Unwind, Resolve, GatedPC, PC, RunnerPC, ResolvePC, CancelPC, StopPC, Thread, control

LEMMA ConvergingExcludes ==
  ASSUME GateInv, 
         Converge \/ ConvergePending \/ ConvergeCancel
  PROVE  GateExclusive'
  BY GateKept, GateEntered, GateLeft DEF Converge, ConvergePending, ConvergeCancel,
    GatedPC, PC, RunnerPC, ResolvePC, CancelPC, StopPC, Thread, control

LEMMA PersistingExcludes ==
  ASSUME GateInv, 
         PersistArtifact \/ PersistTask \/ PersistFails
  PROVE  GateExclusive'
  BY GateKept, GateEntered, GateLeft DEF PersistArtifact, PersistTask, PersistFails,
    GatedPC, PC, RunnerPC, ResolvePC, CancelPC, StopPC, Thread, control

LEMMA StartEndingExcludes ==
  ASSUME GateInv, 
         StartArtifact \/ StartTerminal \/ StartPersistFails
  PROVE  GateExclusive'
  BY GateKept, GateEntered, GateLeft DEF StartArtifact, StartTerminal, StartPersistFails,
    GatedPC, PC, RunnerPC, ResolvePC, CancelPC, StopPC, Thread, control

LEMMA EndingExcludes ==
  ASSUME GateInv, 
         Close \/ Publish \/ Release
  PROVE  GateExclusive'
  BY GateKept, GateEntered, GateLeft DEF Close, Publish, Release, GatedPC, PC, RunnerPC,
    ResolvePC, CancelPC, StopPC, Thread, control

LEMMA ResolvingExcludes ==
  ASSUME GateInv, NEW t \in {Runner} \cup Deciders, 
         ResolveTask(t) \/ ResolveApproval(t) \/ ResolveCommit(t)
  PROVE  GateExclusive'
  BY GateKept, GateEntered, GateLeft DEF ResolveTask, ResolveApproval, ResolveCommit,
    GatedPC, PC, RunnerPC, ResolvePC, CancelPC, StopPC, Thread, control

LEMMA RollingBackExcludes ==
  ASSUME GateInv, NEW t \in {Runner} \cup Deciders, 
         RollbackApproval(t) \/ RollbackTask(t) \/ RollbackCommit(t)
  PROVE  GateExclusive'
  BY GateKept, GateEntered, GateLeft DEF RollbackApproval, RollbackTask, RollbackCommit,
    GatedPC, PC, RunnerPC, ResolvePC, CancelPC, StopPC, Thread, control

LEMMA CancellingExcludes ==
  ASSUME GateInv, NEW t \in {Stopper} \cup Cancellers, 
         CancelTask(t) \/ CancelApprovals(t) \/ CancelShell(t)
  PROVE  GateExclusive'
  BY GateKept, GateEntered, GateLeft DEF CancelTask, CancelApprovals, CancelShell, GatedPC,
    PC, RunnerPC, ResolvePC, CancelPC, StopPC, Thread, control

LEMMA StoppingExcludes ==
  ASSUME GateInv, 
         Stop \/ StopWait \/ StopClose \/ StopArtifact \/ StopTask
  PROVE  GateExclusive'
  BY GateKept, GateEntered, GateLeft DEF Stop, StopWait, StopClose, StopArtifact, StopTask,
    GatedPC, PC, RunnerPC, ResolvePC, CancelPC, StopPC, Thread, control

LEMMA DecidingExcludes ==
  ASSUME GateInv, NEW d \in Deciders, 
         DecideGate(d) \/ DecideRefused(d) \/ \E a \in Approvals, s \in {"approved",
           "rejected"} : Decide(d, a, s)
  PROVE  GateExclusive'
  BY GateKept, GateEntered, GateLeft DEF DecideGate, DecideRefused, Decide, Resolve,
    GatedPC, PC, RunnerPC, ResolvePC, CancelPC, StopPC, Thread, control

LEMMA CallingExcludes ==
  ASSUME GateInv, NEW c \in Cancellers, 
         Cancel(c)
  PROVE  GateExclusive'
  BY GateKept, GateEntered, GateLeft DEF Cancel, GatedPC, PC, RunnerPC, ResolvePC,
    CancelPC, StopPC, Thread, control
LEMMA GateNext == GateInv /\ [Next]_vars => GateInv'
<1> SUFFICES ASSUME GateInv, [Next]_vars PROVE GateExclusive'
  BY TypeNext DEF GateInv
<1>1. CASE RunnerStep
  BY <1>1, StartingExcludes, RequestingExcludes, UndoingExcludes, WaitingExcludes,
     RunningExcludes, ConvergingExcludes, PersistingExcludes, StartEndingExcludes,
     EndingExcludes, ResolvingExcludes, RollingBackExcludes
     DEF RunnerStep, ResolveStep
<1>2. ASSUME NEW d \in Deciders,
             \/ DeciderStep(d)
             \/ \E a \in Approvals, s \in {"approved", "rejected"} : Decide(d, a, s)
      PROVE  GateExclusive'
  BY <1>2, DecidingExcludes, ResolvingExcludes, RollingBackExcludes
     DEF DeciderStep, ResolveStep
<1>3. ASSUME NEW c \in Cancellers, Cancel(c) \/ CancelStep(c) PROVE GateExclusive'
  BY <1>3, CallingExcludes, CancellingExcludes DEF CancelStep
<1>4. CASE Stop \/ StopStep
  BY <1>4, StoppingExcludes, CancellingExcludes DEF StopStep, CancelStep
<1>5. CASE (\E a \in Approvals : Tick(a)) \/ Over \/ UNCHANGED vars
  BY <1>5 DEF Tick, Over, vars, control, local, GateInv, GateExclusive
<1> QED
  BY <1>1, <1>2, <1>3, <1>4, <1>5 DEF Next

LEMMA GateInit == Init => GateInv
<1> SUFFICES ASSUME Init PROVE GateExclusive
  BY TypeInit DEF GateInv
<1>1. "queued" \notin GatedPC /\ "idle" \notin GatedPC
  BY DEF GatedPC, ResolvePC
<1> QED
  BY <1>1 DEF Init, GateExclusive

\* The RunGate is held by the threads inside a gated section, and by one at most.
THEOREM GateIsExclusive == Spec => []GateExclusive
<1>1. GateInv => GateExclusive
  BY DEF GateInv
<1> QED
  BY <1>1, GateInit, GateNext, PTL DEF Spec

-----------------------------------------------------------------------------
(* Cancellation and fencing.  The strengthening: what a thread inside the   *)
(* gate may rely on although the shutdown writes without it.               *)

\* A decision is on its way only while the generation has not moved on.
Approving == \A t \in Thread : pc[t] = "rsApproval" => ~closed /\ task.status = "running"

\* The shutdown has closed the gate before it writes.
StopFenced == pc[Stopper] \in {"sdArtifact", "sdTask"} => closed

\* A persisted cancellation has set the token.
CancelTold == task.status = "cancel_requested" => token

\* A terminal Task means that the Runner is past its last write, or fenced.
TerminalFenced ==
  task.status \in Terminal =>
    closed \/ pc[Runner] \in {"close", "publish", "release", "done", "stuck"}

\* No thread is half way through a decision or a request of a cancelled Task.
WriterPC == ResolvePC \cup {"rqCreate", "rqTask", "rqCommit", "rqUndoApproval", "rqUndoTask",
                            "rqUndoCommit"}
WriterUncancelled ==
  \A t \in Thread : pc[t] \in WriterPC => task.status # "cancel_requested"

SafeInv == /\ GateInv
           /\ Approving /\ StopFenced /\ CancelTold /\ TerminalFenced /\ WriterUncancelled

LEMMA HolderIsAlone ==
  ASSUME SafeInv, NEW t \in Thread, gate = {} \/ gate = {t}
  PROVE  /\ \A u \in Thread \ {t} : pc[u] \notin GatedPC
         /\ gate = {} => pc[t] \notin GatedPC
  BY DEF SafeInv, GateInv, GateExclusive

LEMMA StartingSafe ==
  ASSUME SafeInv, 
         Start \/ StartCancelled \/ StartFails \/ BuildRuntime \/ BuildFails
  PROVE  Approving' /\ StopFenced' /\ CancelTold' /\ TerminalFenced' /\ WriterUncancelled'
<1> USE ThreadsDiffer
    DEF Start, StartCancelled, StartFails, BuildRuntime, BuildFails, SafeInv, GateInv,
      TypeInv, TypeOK, Thread, store, control, history, Enter, Leave, Goto
<1>1. Approving' /\ WriterUncancelled'
  BY HolderIsAlone DEF Approving, CancelTold, TerminalFenced, WriterUncancelled, WriterPC,
    GatedPC, ResolvePC, Tasks, Terminal, WithStatus, Waiting, Resumed, Ended, Landed
<1>2. StopFenced'
  BY DEF StopFenced
<1>3. CancelTold' /\ TerminalFenced'
  BY HolderIsAlone DEF StopFenced, CancelTold, TerminalFenced, Tasks, Terminal, WithStatus,
    Waiting, Resumed, Ended, Landed, GatedPC, ResolvePC
<1> QED
  BY <1>1, <1>2, <1>3

LEMMA RequestingSafe ==
  ASSUME SafeInv, 
         Request \/ RequestCreate \/ RequestTask \/ RequestCommit
  PROVE  Approving' /\ StopFenced' /\ CancelTold' /\ TerminalFenced' /\ WriterUncancelled'
<1> USE ThreadsDiffer
    DEF Request, RequestCreate, RequestTask, RequestCommit, SafeInv, GateInv, TypeInv,
      TypeOK, Thread, store, control, history, Enter, Leave, Goto
<1>1. Approving' /\ WriterUncancelled'
  <2>1. CASE Request
    BY <2>1, HolderIsAlone DEF Approving, CancelTold, TerminalFenced, WriterUncancelled,
      WriterPC, GatedPC, ResolvePC, Tasks, Terminal, WithStatus, Waiting, Resumed, Ended,
      Landed
  <2>2. CASE RequestCreate
    BY <2>2, HolderIsAlone DEF Approving, CancelTold, TerminalFenced, WriterUncancelled,
      WriterPC, GatedPC, ResolvePC, Tasks, Terminal, WithStatus, Waiting, Resumed, Ended,
      Landed
  <2>3. CASE RequestTask
    <3>1. \A u \in Thread \ {Runner} : pc[u] \notin GatedPC /\ pc'[u] = pc[u]
      <4>1. gate = {Runner}
        BY <2>3 DEF GateExclusive, GatedPC, ResolvePC
      <4> QED
        BY <2>3, <4>1, HolderIsAlone
    <3>2. task'.status \in {"waiting", task.status}
      BY <2>3 DEF Waiting, Landed
    <3>3. pc[Runner] \in WriterPC /\ pc'[Runner] # "rsApproval" /\ WriterPC \subseteq GatedPC /\ "rsApproval" \in GatedPC
      BY <2>3 DEF WriterPC, ResolvePC, GatedPC
    <3> QED
      BY <3>1, <3>2, <3>3 DEF Approving, WriterUncancelled
  <2>4. CASE RequestCommit
    BY <2>4, HolderIsAlone DEF Approving, CancelTold, TerminalFenced, WriterUncancelled,
      WriterPC, GatedPC, ResolvePC, Tasks, Terminal, WithStatus, Waiting, Resumed, Ended,
      Landed
  <2> QED
    BY <2>1, <2>2, <2>3, <2>4
<1>2. StopFenced'
  BY DEF StopFenced
<1>3. CancelTold' /\ TerminalFenced'
  <2>1. CASE Request
    BY <2>1, HolderIsAlone DEF StopFenced, CancelTold, TerminalFenced, Tasks, Terminal,
      WithStatus, Waiting, Resumed, Ended, Landed, GatedPC, ResolvePC
  <2>2. CASE RequestCreate
    BY <2>2, HolderIsAlone DEF StopFenced, CancelTold, TerminalFenced, Tasks, Terminal,
      WithStatus, Waiting, Resumed, Ended, Landed, GatedPC, ResolvePC
  <2>3. CASE RequestTask
    BY <2>3, HolderIsAlone DEF StopFenced, CancelTold, TerminalFenced, Tasks, Terminal,
      WithStatus, Waiting, Resumed, Ended, Landed, GatedPC, ResolvePC
  <2>4. CASE RequestCommit
    BY <2>4, HolderIsAlone DEF StopFenced, CancelTold, TerminalFenced, Tasks, Terminal,
      WithStatus, Waiting, Resumed, Ended, Landed, GatedPC, ResolvePC
  <2> QED
    BY <2>1, <2>2, <2>3, <2>4
<1> QED
  BY <1>1, <1>2, <1>3

LEMMA UndoingSafe ==
  ASSUME SafeInv, 
         UndoApproval \/ UndoTask \/ UndoCommit
  PROVE  Approving' /\ StopFenced' /\ CancelTold' /\ TerminalFenced' /\ WriterUncancelled'
<1> USE ThreadsDiffer
    DEF UndoApproval, UndoTask, UndoCommit, CloseTransition, SafeInv, GateInv, TypeInv,
      TypeOK, Thread, store, control, history, Enter, Leave, Goto
<1>1. Approving' /\ WriterUncancelled'
  BY HolderIsAlone DEF Approving, CancelTold, TerminalFenced, WriterUncancelled, WriterPC,
    GatedPC, ResolvePC, Tasks, Terminal, WithStatus, Waiting, Resumed, Ended, Landed
<1>2. StopFenced'
  BY DEF StopFenced
<1>3. CancelTold' /\ TerminalFenced'
  BY HolderIsAlone DEF StopFenced, CancelTold, TerminalFenced, Tasks, Terminal, WithStatus,
    Waiting, Resumed, Ended, Landed, GatedPC, ResolvePC
<1> QED
  BY <1>1, <1>2, <1>3

LEMMA WaitingSafe ==
  ASSUME SafeInv, 
         WaitDecided \/ WaitCancelled \/ WaitExpired \/ CheckApproved \/ CheckExpired
  PROVE  Approving' /\ StopFenced' /\ CancelTold' /\ TerminalFenced' /\ WriterUncancelled'
<1> USE ThreadsDiffer
    DEF WaitDecided, WaitCancelled, WaitExpired, CheckApproved, CheckExpired, SafeInv,
      GateInv, TypeInv, TypeOK, Thread, store, control, history, Enter, Leave, Goto
<1>1. Approving' /\ WriterUncancelled'
  BY HolderIsAlone DEF Approving, CancelTold, TerminalFenced, WriterUncancelled, WriterPC,
    GatedPC, ResolvePC, Tasks, Terminal, WithStatus, Waiting, Resumed, Ended, Landed
<1>2. StopFenced'
  BY DEF StopFenced
<1>3. CancelTold' /\ TerminalFenced'
  BY HolderIsAlone DEF StopFenced, CancelTold, TerminalFenced, Tasks, Terminal, WithStatus,
    Waiting, Resumed, Ended, Landed, GatedPC, ResolvePC
<1> QED
  BY <1>1, <1>2, <1>3

LEMMA RunningSafe ==
  ASSUME SafeInv, 
         Expire \/ ToolStart \/ NoticeCancel \/ AgentEnds \/ Unwind
  PROVE  Approving' /\ StopFenced' /\ CancelTold' /\ TerminalFenced' /\ WriterUncancelled'
<1> USE ThreadsDiffer
    DEF Expire, ToolStart, NoticeCancel, AgentEnds, Unwind, Resolve, SafeInv, GateInv,
      TypeInv, TypeOK, Thread, store, control, history, Enter, Leave, Goto
<1>1. Approving' /\ WriterUncancelled'
  <2>1. CASE Expire
    BY <2>1, HolderIsAlone DEF Approving, CancelTold, TerminalFenced, WriterUncancelled,
      WriterPC, GatedPC, ResolvePC, Tasks, Terminal, WithStatus, Waiting, Resumed, Ended,
      Landed
  <2>2. CASE ToolStart
    BY <2>2, HolderIsAlone DEF Approving, CancelTold, TerminalFenced, WriterUncancelled,
      WriterPC, GatedPC, ResolvePC, Tasks, Terminal, WithStatus, Waiting, Resumed, Ended,
      Landed
  <2>3. CASE NoticeCancel
    BY <2>3, HolderIsAlone DEF Approving, CancelTold, TerminalFenced, WriterUncancelled,
      WriterPC, GatedPC, ResolvePC, Tasks, Terminal, WithStatus, Waiting, Resumed, Ended,
      Landed
  <2>4. CASE AgentEnds
    BY <2>4, HolderIsAlone DEF Approving, CancelTold, TerminalFenced, WriterUncancelled,
      WriterPC, GatedPC, ResolvePC, Tasks, Terminal, WithStatus, Waiting, Resumed, Ended,
      Landed
  <2>5. CASE Unwind
    BY <2>5, HolderIsAlone DEF Approving, CancelTold, TerminalFenced, WriterUncancelled,
      WriterPC, GatedPC, ResolvePC, Tasks, Terminal, WithStatus, Waiting, Resumed, Ended,
      Landed
  <2> QED
    BY <2>1, <2>2, <2>3, <2>4, <2>5
<1>2. StopFenced'
  BY DEF StopFenced
<1>3. CancelTold' /\ TerminalFenced'
  BY HolderIsAlone DEF StopFenced, CancelTold, TerminalFenced, Tasks, Terminal, WithStatus,
    Waiting, Resumed, Ended, Landed, GatedPC, ResolvePC
<1> QED
  BY <1>1, <1>2, <1>3

LEMMA ConvergingSafe ==
  ASSUME SafeInv, 
         Converge \/ ConvergePending \/ ConvergeCancel
  PROVE  Approving' /\ StopFenced' /\ CancelTold' /\ TerminalFenced' /\ WriterUncancelled'
<1> USE ThreadsDiffer
    DEF Converge, ConvergePending, ConvergeCancel, SafeInv, GateInv, TypeInv, TypeOK,
      Thread, store, control, history, Enter, Leave, Goto
<1>1. Approving' /\ WriterUncancelled'
  BY HolderIsAlone DEF Approving, CancelTold, TerminalFenced, WriterUncancelled, WriterPC,
    GatedPC, ResolvePC, Tasks, Terminal, WithStatus, Waiting, Resumed, Ended, Landed
<1>2. StopFenced'
  BY DEF StopFenced
<1>3. CancelTold' /\ TerminalFenced'
  BY HolderIsAlone DEF StopFenced, CancelTold, TerminalFenced, Tasks, Terminal, WithStatus,
    Waiting, Resumed, Ended, Landed, GatedPC, ResolvePC
<1> QED
  BY <1>1, <1>2, <1>3

LEMMA PersistingSafe ==
  ASSUME SafeInv, 
         PersistArtifact \/ PersistTask \/ PersistFails
  PROVE  Approving' /\ StopFenced' /\ CancelTold' /\ TerminalFenced' /\ WriterUncancelled'
<1> USE ThreadsDiffer
    DEF PersistArtifact, PersistTask, PersistFails, SafeInv, GateInv, TypeInv, TypeOK,
      Thread, store, control, history, Enter, Leave, Goto
<1>1. Approving' /\ WriterUncancelled'
  BY HolderIsAlone DEF Approving, CancelTold, TerminalFenced, WriterUncancelled, WriterPC,
    GatedPC, ResolvePC, Tasks, Terminal, WithStatus, Waiting, Resumed, Ended, Landed
<1>2. StopFenced'
  BY DEF StopFenced
<1>3. CancelTold' /\ TerminalFenced'
  BY HolderIsAlone DEF StopFenced, CancelTold, TerminalFenced, Tasks, Terminal, WithStatus,
    Waiting, Resumed, Ended, Landed, GatedPC, ResolvePC
<1> QED
  BY <1>1, <1>2, <1>3

LEMMA StartEndingSafe ==
  ASSUME SafeInv, 
         StartArtifact \/ StartTerminal \/ StartPersistFails
  PROVE  Approving' /\ StopFenced' /\ CancelTold' /\ TerminalFenced' /\ WriterUncancelled'
<1> USE ThreadsDiffer
    DEF StartArtifact, StartTerminal, StartPersistFails, SafeInv, GateInv, TypeInv, TypeOK,
      Thread, store, control, history, Enter, Leave, Goto
<1>1. Approving' /\ WriterUncancelled'
  BY HolderIsAlone DEF Approving, CancelTold, TerminalFenced, WriterUncancelled, WriterPC,
    GatedPC, ResolvePC, Tasks, Terminal, WithStatus, Waiting, Resumed, Ended, Landed
<1>2. StopFenced'
  BY DEF StopFenced
<1>3. CancelTold' /\ TerminalFenced'
  BY HolderIsAlone DEF StopFenced, CancelTold, TerminalFenced, Tasks, Terminal, WithStatus,
    Waiting, Resumed, Ended, Landed, GatedPC, ResolvePC
<1> QED
  BY <1>1, <1>2, <1>3

LEMMA EndingSafe ==
  ASSUME SafeInv, 
         Close \/ Publish \/ Release
  PROVE  Approving' /\ StopFenced' /\ CancelTold' /\ TerminalFenced' /\ WriterUncancelled'
<1> USE ThreadsDiffer
    DEF Close, Publish, Release, SafeInv, GateInv, TypeInv, TypeOK, Thread, store, control,
      history, Enter, Leave, Goto
<1>1. Approving' /\ WriterUncancelled'
  BY HolderIsAlone DEF Approving, CancelTold, TerminalFenced, WriterUncancelled, WriterPC,
    GatedPC, ResolvePC, Tasks, Terminal, WithStatus, Waiting, Resumed, Ended, Landed
<1>2. StopFenced'
  BY DEF StopFenced
<1>3. CancelTold' /\ TerminalFenced'
  BY HolderIsAlone DEF StopFenced, CancelTold, TerminalFenced, Tasks, Terminal, WithStatus,
    Waiting, Resumed, Ended, Landed, GatedPC, ResolvePC
<1> QED
  BY <1>1, <1>2, <1>3

LEMMA ResolvingSafe ==
  ASSUME SafeInv, NEW t \in {Runner} \cup Deciders, 
         ResolveTask(t) \/ ResolveApproval(t) \/ ResolveCommit(t)
  PROVE  Approving' /\ StopFenced' /\ CancelTold' /\ TerminalFenced' /\ WriterUncancelled'
<1> USE ThreadsDiffer
    DEF ResolveTask, ResolveApproval, ResolveCommit, SafeInv, GateInv, TypeInv, TypeOK,
      Thread, store, control, history, Enter, Leave, Goto
<1>1. Approving' /\ WriterUncancelled'
  BY HolderIsAlone DEF Approving, CancelTold, TerminalFenced, WriterUncancelled, WriterPC,
    GatedPC, ResolvePC, Tasks, Terminal, WithStatus, Waiting, Resumed, Ended, Landed
<1>2. StopFenced'
  BY DEF StopFenced
<1>3. CancelTold' /\ TerminalFenced'
  BY HolderIsAlone DEF StopFenced, CancelTold, TerminalFenced, Tasks, Terminal, WithStatus,
    Waiting, Resumed, Ended, Landed, GatedPC, ResolvePC
<1> QED
  BY <1>1, <1>2, <1>3

LEMMA RollingBackSafe ==
  ASSUME SafeInv, NEW t \in {Runner} \cup Deciders, 
         RollbackApproval(t) \/ RollbackTask(t) \/ RollbackCommit(t)
  PROVE  Approving' /\ StopFenced' /\ CancelTold' /\ TerminalFenced' /\ WriterUncancelled'
<1> USE ThreadsDiffer
    DEF RollbackApproval, RollbackTask, RollbackCommit, CloseTransition, SafeInv, GateInv,
      TypeInv, TypeOK, Thread, store, control, history, Enter, Leave, Goto
<1>1. Approving' /\ WriterUncancelled'
  <2>1. CASE RollbackApproval(t)
    BY <2>1, HolderIsAlone DEF Approving, CancelTold, TerminalFenced, WriterUncancelled,
      WriterPC, GatedPC, ResolvePC, Tasks, Terminal, WithStatus, Waiting, Resumed, Ended,
      Landed
  <2>2. CASE RollbackTask(t)
    <3>1. \A u \in Thread \ {t} : pc[u] \notin GatedPC /\ pc'[u] = pc[u]
      <4>1. gate = {t}
        BY <2>2 DEF GateExclusive, GatedPC, ResolvePC
      <4> QED
        BY <2>2, <4>1, HolderIsAlone
    <3>2. task'.status \in {"waiting", task.status}
      BY <2>2 DEF Waiting, Landed
    <3>3. pc[t] \in WriterPC /\ pc'[t] # "rsApproval" /\ WriterPC \subseteq GatedPC /\ "rsApproval" \in GatedPC
      BY <2>2 DEF WriterPC, ResolvePC, GatedPC
    <3> QED
      BY <3>1, <3>2, <3>3 DEF Approving, WriterUncancelled
  <2>3. CASE RollbackCommit(t)
    BY <2>3, HolderIsAlone DEF Approving, CancelTold, TerminalFenced, WriterUncancelled,
      WriterPC, GatedPC, ResolvePC, Tasks, Terminal, WithStatus, Waiting, Resumed, Ended,
      Landed
  <2> QED
    BY <2>1, <2>2, <2>3
<1>2. StopFenced'
  BY DEF StopFenced
<1>3. CancelTold' /\ TerminalFenced'
  BY HolderIsAlone DEF StopFenced, CancelTold, TerminalFenced, Tasks, Terminal, WithStatus,
    Waiting, Resumed, Ended, Landed, GatedPC, ResolvePC
<1> QED
  BY <1>1, <1>2, <1>3

LEMMA CancellingSafe ==
  ASSUME SafeInv, NEW t \in {Stopper} \cup Cancellers, 
         CancelTask(t) \/ CancelApprovals(t) \/ CancelShell(t)
  PROVE  Approving' /\ StopFenced' /\ CancelTold' /\ TerminalFenced' /\ WriterUncancelled'
<1> USE ThreadsDiffer
    DEF CancelTask, CancelApprovals, CancelShell, SafeInv, GateInv, TypeInv, TypeOK,
      Thread, store, control, history, Enter, Leave, Goto
<1>1. Approving' /\ WriterUncancelled'
  BY HolderIsAlone DEF Approving, CancelTold, TerminalFenced, WriterUncancelled, WriterPC,
    GatedPC, ResolvePC, Tasks, Terminal, WithStatus, Waiting, Resumed, Ended, Landed
<1>2. StopFenced'
  BY DEF StopFenced
<1>3. CancelTold' /\ TerminalFenced'
  BY HolderIsAlone DEF StopFenced, CancelTold, TerminalFenced, Tasks, Terminal, WithStatus,
    Waiting, Resumed, Ended, Landed, GatedPC, ResolvePC
<1> QED
  BY <1>1, <1>2, <1>3

LEMMA StoppingSafe ==
  ASSUME SafeInv, 
         Stop \/ StopWait \/ StopClose \/ StopArtifact \/ StopTask
  PROVE  Approving' /\ StopFenced' /\ CancelTold' /\ TerminalFenced' /\ WriterUncancelled'
<1> USE ThreadsDiffer
    DEF Stop, StopWait, StopClose, StopArtifact, StopTask, SafeInv, GateInv, TypeInv,
      TypeOK, Thread, store, control, history, Enter, Leave, Goto
<1>1. Approving' /\ WriterUncancelled'
  <2>1. CASE Stop
    BY <2>1, HolderIsAlone DEF Approving, CancelTold, TerminalFenced, WriterUncancelled,
      WriterPC, GatedPC, ResolvePC, Tasks, Terminal, WithStatus, Waiting, Resumed, Ended,
      Landed, StopFenced
  <2>2. CASE StopWait
    BY <2>2, HolderIsAlone DEF Approving, CancelTold, TerminalFenced, WriterUncancelled,
      WriterPC, GatedPC, ResolvePC, Tasks, Terminal, WithStatus, Waiting, Resumed, Ended,
      Landed, StopFenced
  <2>3. CASE StopClose
    BY <2>3, HolderIsAlone DEF Approving, CancelTold, TerminalFenced, WriterUncancelled,
      WriterPC, GatedPC, ResolvePC, Tasks, Terminal, WithStatus, Waiting, Resumed, Ended,
      Landed, StopFenced
  <2>4. CASE StopArtifact
    BY <2>4, HolderIsAlone DEF Approving, CancelTold, TerminalFenced, WriterUncancelled,
      WriterPC, GatedPC, ResolvePC, Tasks, Terminal, WithStatus, Waiting, Resumed, Ended,
      Landed, StopFenced
  <2>5. CASE StopTask
    BY <2>5, HolderIsAlone DEF Approving, CancelTold, TerminalFenced, WriterUncancelled,
      WriterPC, GatedPC, ResolvePC, Tasks, Terminal, WithStatus, Waiting, Resumed, Ended,
      Landed, StopFenced
  <2> QED
    BY <2>1, <2>2, <2>3, <2>4, <2>5
<1>2. StopFenced'
  BY DEF StopFenced
<1>3. CancelTold' /\ TerminalFenced'
  BY HolderIsAlone DEF StopFenced, CancelTold, TerminalFenced, Tasks, Terminal, WithStatus,
    Waiting, Resumed, Ended, Landed, GatedPC, ResolvePC
<1> QED
  BY <1>1, <1>2, <1>3

LEMMA DecidingSafe ==
  ASSUME SafeInv, NEW d \in Deciders, 
         DecideGate(d) \/ DecideRefused(d) \/ \E a \in Approvals, s \in {"approved",
           "rejected"} : Decide(d, a, s)
  PROVE  Approving' /\ StopFenced' /\ CancelTold' /\ TerminalFenced' /\ WriterUncancelled'
<1> USE ThreadsDiffer
    DEF DecideGate, DecideRefused, Decide, Resolve, SafeInv, GateInv, TypeInv, TypeOK,
      Thread, store, control, history, Enter, Leave, Goto
<1>1. Approving' /\ WriterUncancelled'
  <2>1. CASE DecideGate(d)
    BY <2>1, HolderIsAlone DEF Approving, CancelTold, TerminalFenced, WriterUncancelled,
      WriterPC, GatedPC, ResolvePC, Tasks, Terminal, WithStatus, Waiting, Resumed, Ended,
      Landed
  <2>2. CASE DecideRefused(d)
    BY <2>2, HolderIsAlone DEF Approving, CancelTold, TerminalFenced, WriterUncancelled,
      WriterPC, GatedPC, ResolvePC, Tasks, Terminal, WithStatus, Waiting, Resumed, Ended,
      Landed
  <2>3. CASE \E a \in Approvals, s \in {"approved", "rejected"} : Decide(d, a, s)
    BY <2>3, HolderIsAlone DEF Approving, CancelTold, TerminalFenced, WriterUncancelled,
      WriterPC, GatedPC, ResolvePC, Tasks, Terminal, WithStatus, Waiting, Resumed, Ended,
      Landed
  <2> QED
    BY <2>1, <2>2, <2>3
<1>2. StopFenced'
  BY DEF StopFenced
<1>3. CancelTold' /\ TerminalFenced'
  BY HolderIsAlone DEF StopFenced, CancelTold, TerminalFenced, Tasks, Terminal, WithStatus,
    Waiting, Resumed, Ended, Landed, GatedPC, ResolvePC
<1> QED
  BY <1>1, <1>2, <1>3

LEMMA CallingSafe ==
  ASSUME SafeInv, NEW c \in Cancellers, 
         Cancel(c)
  PROVE  Approving' /\ StopFenced' /\ CancelTold' /\ TerminalFenced' /\ WriterUncancelled'
<1> USE ThreadsDiffer
    DEF Cancel, SafeInv, GateInv, TypeInv, TypeOK, Thread, store, control, history, Enter,
      Leave, Goto
<1>1. Approving' /\ WriterUncancelled'
  BY HolderIsAlone DEF Approving, CancelTold, TerminalFenced, WriterUncancelled, WriterPC,
    GatedPC, ResolvePC, Tasks, Terminal, WithStatus, Waiting, Resumed, Ended, Landed
<1>2. StopFenced'
  BY DEF StopFenced
<1>3. CancelTold' /\ TerminalFenced'
  BY HolderIsAlone DEF StopFenced, CancelTold, TerminalFenced, Tasks, Terminal, WithStatus,
    Waiting, Resumed, Ended, Landed, GatedPC, ResolvePC
<1> QED
  BY <1>1, <1>2, <1>3

LEMMA SafeNext == SafeInv /\ [Next]_vars => SafeInv'
<1> DEFINE Fenced == Approving /\ StopFenced /\ CancelTold /\ TerminalFenced /\ WriterUncancelled
<1> SUFFICES ASSUME SafeInv, [Next]_vars PROVE Fenced'
  BY GateNext DEF SafeInv
<1>1. CASE RunnerStep
  BY <1>1, StartingSafe, RequestingSafe, UndoingSafe, WaitingSafe, RunningSafe, ConvergingSafe,
     PersistingSafe, StartEndingSafe, EndingSafe, ResolvingSafe, RollingBackSafe
     DEF RunnerStep, ResolveStep
<1>2. ASSUME NEW d \in Deciders,
             \/ DeciderStep(d)
             \/ \E a \in Approvals, s \in {"approved", "rejected"} : Decide(d, a, s)
      PROVE  Fenced'
  BY <1>2, DecidingSafe, ResolvingSafe, RollingBackSafe DEF DeciderStep, ResolveStep
<1>3. ASSUME NEW c \in Cancellers, Cancel(c) \/ CancelStep(c) PROVE Fenced'
  BY <1>3, CallingSafe, CancellingSafe DEF CancelStep
<1>4. CASE Stop \/ StopStep
  BY <1>4, StoppingSafe, CancellingSafe DEF StopStep, CancelStep
<1>5. CASE (\E a \in Approvals : Tick(a)) \/ Over \/ UNCHANGED vars
  BY <1>5 DEF Tick, Over, vars, store, control, local, SafeInv, Approving, StopFenced,
              CancelTold, TerminalFenced, WriterUncancelled
<1> QED
  BY <1>1, <1>2, <1>3, <1>4, <1>5 DEF Next

LEMMA SafeInit == Init => SafeInv
<1> SUFFICES ASSUME Init PROVE SafeInv
  OBVIOUS
<1>1. GateInv
  BY GateInit
<1>2. \A t \in Thread : pc[t] \in {"queued", "idle"}
  BY DEF Init
<1>3. pc[Stopper] \in {"queued", "idle"} /\ task.status = "queued"
  BY <1>2 DEF Init, Thread
<1> QED
  BY <1>1, <1>2, <1>3 DEF SafeInv, Approving, StopFenced, CancelTold, TerminalFenced,
                          WriterUncancelled, WriterPC, ResolvePC, Terminal

-----------------------------------------------------------------------------
(* The frame of a step: what no thread takes back, and who writes what.    *)

\* A step of t moves t alone, and takes back neither a cancellation nor a refusal.
Steady(t) ==
  /\ token => token'
  /\ degraded => degraded'
  /\ faults' \in {faults, faults + 1}
  /\ \A u \in Thread \ {t} : pc'[u] = pc[u] /\ move'[u] = move[u]

\* Nothing of the Run's control state, its Task and its Approvals is written.
Idle == UNCHANGED <<task, approval, closed, active, cur, goal>>

LEMMA RunnerSteady == ASSUME TypeOK, RunnerStep PROVE Steady(Runner)
<1> USE DEF Steady, TypeOK, Goto, Moving, Unproven, Raise, store, control, history
<1>1. CASE Start \/ StartCancelled \/ StartFails \/ BuildRuntime \/ BuildFails
  BY <1>1 DEF Start, StartCancelled, StartFails, BuildRuntime, BuildFails
<1>2. CASE StartArtifact \/ StartTerminal \/ StartPersistFails
  BY <1>2 DEF StartArtifact, StartTerminal, StartPersistFails
<1>3. CASE Request \/ RequestCreate \/ RequestTask \/ RequestCommit
  BY <1>3 DEF Request, RequestCreate, RequestTask, RequestCommit
<1>4. CASE UndoApproval \/ UndoTask \/ UndoCommit
  BY <1>4 DEF UndoApproval, UndoTask, UndoCommit, CloseTransition
<1>5. CASE WaitDecided \/ WaitCancelled \/ WaitExpired \/ CheckApproved \/ CheckExpired
  BY <1>5 DEF WaitDecided, WaitCancelled, WaitExpired, CheckApproved, CheckExpired
<1>6. CASE Expire \/ ToolStart \/ NoticeCancel \/ AgentEnds \/ Unwind
  BY <1>6 DEF Expire, ToolStart, NoticeCancel, AgentEnds, Unwind, Resolve
<1>7. CASE Converge \/ ConvergePending \/ ConvergeCancel
  BY <1>7 DEF Converge, ConvergePending, ConvergeCancel
<1>8. CASE PersistArtifact \/ PersistTask \/ PersistFails
  BY <1>8 DEF PersistArtifact, PersistTask, PersistFails
<1>9. CASE Close \/ Publish \/ Release
  BY <1>9 DEF Close, Publish, Release
<1>10. CASE ResolveStep(Runner)
  BY <1>10 DEF ResolveStep, ResolveTask, ResolveApproval, ResolveCommit, RollbackApproval,
  RollbackTask, RollbackCommit, CloseTransition
<1> QED
  BY <1>1, <1>2, <1>3, <1>4, <1>5, <1>6, <1>7, <1>8, <1>9, <1>10 DEF RunnerStep

\* The step of a decider.
DeciderActs(d) == DeciderStep(d) \/ \E a \in Approvals, s \in {"approved", "rejected"} : Decide(d, a, s)

LEMMA DeciderSteady ==
  ASSUME TypeOK, NEW d \in Deciders, DeciderActs(d)
  PROVE  /\ Steady(d) /\ token' = token
         /\ UNCHANGED <<closed, active, cur, goal>>
         /\ task' # task => ResolveTask(d) \/ RollbackTask(d)
         /\ approval' # approval => ResolveApproval(d) \/ RollbackApproval(d)
<1> USE DEF Steady, TypeOK, Goto, Moving, Unproven, Raise, store, control, history
<1>1. d # Runner
  BY ThreadsDiffer
<1>2. CASE ResolveTask(d) \/ ResolveApproval(d) \/ ResolveCommit(d)
  BY <1>1, <1>2 DEF ResolveTask, ResolveApproval, ResolveCommit
<1>3. CASE RollbackApproval(d) \/ RollbackTask(d) \/ RollbackCommit(d)
  BY <1>1, <1>3 DEF RollbackApproval, RollbackTask, RollbackCommit, CloseTransition
<1>4. CASE DecideGate(d) \/ DecideRefused(d)
  BY <1>4 DEF DecideGate, DecideRefused, Resolve
<1>5. CASE \E a \in Approvals, s \in {"approved", "rejected"} : Decide(d, a, s)
  BY <1>5 DEF Decide
<1> QED
  BY <1>2, <1>3, <1>4, <1>5 DEF DeciderActs, DeciderStep, ResolveStep

LEMMA CancelSteady ==
  ASSUME TypeOK, NEW c \in {Stopper} \cup Cancellers, Cancel(c) \/ CancelStep(c)
  PROVE  /\ Steady(c) /\ move' = move
         /\ UNCHANGED <<closed, active, cur, goal>>
         /\ task' # task => CancelTask(c)
         /\ approval' # approval => CancelApprovals(c)
         /\ token' # token => token' = TRUE
  BY DEF Steady, TypeOK, Goto, Raise, store, control, history, Cancel, CancelStep, CancelTask,
         CancelApprovals, CancelShell

LEMMA StopSteady ==
  ASSUME TypeOK, Stop \/ StopWait \/ StopClose \/ StopArtifact \/ StopTask
  PROVE  /\ Steady(Stopper) /\ move' = move /\ token' = token
         /\ UNCHANGED <<approval, cur, goal>>
         /\ task' # task => StopTask
         /\ active' # active => StopTask
         /\ closed' # closed => StopClose
  BY DEF Steady, TypeOK, Goto, Raise, store, control, history, Stop, StopWait, StopClose,
         StopArtifact, StopTask

\* Time passing, or nothing.
Rests == (\E a \in Approvals : Tick(a)) \/ Over \/ UNCHANGED vars

LEMMA RestSteady == ASSUME Rests PROVE UNCHANGED <<store, control, local, ran, ended, faults>>
  BY DEF Rests, Tick, Over, vars, history

\* Every step is one thread's, or nobody's.
LEMMA WhoseStep ==
  ASSUME [Next]_vars
  PROVE  \/ RunnerStep
         \/ \E d \in Deciders : DeciderActs(d)
         \/ \E c \in Cancellers : Cancel(c) \/ CancelStep(c)
         \/ CancelStep(Stopper)
         \/ Stop \/ StopWait \/ StopClose \/ StopArtifact \/ StopTask
         \/ Rests
  BY Zenon DEF Next, StopStep, DeciderActs, Rests

\* What is not taken back.
LEMMA NeverBack ==
  ASSUME TypeOK, [Next]_vars
  PROVE  /\ token => token'
         /\ degraded => degraded'
         /\ faults' \in Nat /\ faults =< faults' /\ (faults' = 0 => faults = 0)
         /\ pc'[Stopper] # pc[Stopper] => Stop \/ StopStep
<1>1. faults \in Nat
  BY BoundsAreNaturals DEF TypeOK
<1>2. ASSUME NEW t \in Thread, Steady(t)
      PROVE  /\ token => token'
             /\ degraded => degraded'
             /\ faults' \in Nat /\ faults =< faults' /\ (faults' = 0 => faults = 0)
             /\ t # Stopper => pc'[Stopper] = pc[Stopper]
  BY <1>1, <1>2 DEF Steady, Thread
<1>3. CASE RunnerStep
  BY <1>2, <1>3, RunnerSteady, ThreadsDiffer DEF Thread
<1>4. ASSUME NEW d \in Deciders, DeciderActs(d)
      PROVE  Steady(d) /\ d \in Thread /\ d # Stopper
  BY <1>4, DeciderSteady, ThreadsDiffer DEF Thread
<1>5. ASSUME NEW c \in Cancellers, Cancel(c) \/ CancelStep(c)
      PROVE  Steady(c) /\ c \in Thread /\ c # Stopper
  BY <1>5, CancelSteady, ThreadsDiffer DEF Thread
<1>6. CASE CancelStep(Stopper) \/ Stop \/ StopWait \/ StopClose \/ StopArtifact \/ StopTask
  BY <1>2, <1>6, CancelSteady, StopSteady DEF StopStep, Thread
<1>7. CASE Rests
  BY <1>1, <1>7, RestSteady DEF control, local
<1> QED
  BY <1>2, <1>3, <1>4, <1>5, <1>6, <1>7, WhoseStep

\* What the Runner writes of the Task, the Approvals and the control state.
LEMMA RunnerWrites ==
  ASSUME TypeOK, RunnerStep
  PROVE  /\ token' = token
         /\ task' # task =>
              \/ Start \/ StartFails \/ StartTerminal \/ StartPersistFails \/ RequestTask \/ UndoTask
              \/ PersistTask \/ PersistFails \/ ResolveTask(Runner) \/ RollbackTask(Runner)
         /\ approval' # approval =>
              \/ RequestCreate \/ UndoApproval \/ ConvergeCancel
              \/ ResolveApproval(Runner) \/ RollbackApproval(Runner)
         /\ closed' # closed => closed' /\ (Close \/ StartTerminal)
         /\ active' # active => Release
         /\ cur' # cur => Request
         /\ goal' \in {goal, "completed", "blocked", "failed", "cancelled"}
<1> USE DEF store, control, history, TypeOK
<1>1. CASE Start \/ StartCancelled \/ StartFails \/ BuildRuntime \/ BuildFails
  BY <1>1 DEF Start, StartCancelled, StartFails, BuildRuntime, BuildFails
<1>2. CASE StartArtifact \/ StartTerminal \/ StartPersistFails
  BY <1>2 DEF StartArtifact, StartTerminal, StartPersistFails
<1>3. CASE Request \/ RequestCreate \/ RequestTask \/ RequestCommit
  BY <1>3 DEF Request, RequestCreate, RequestTask, RequestCommit
<1>4. CASE UndoApproval \/ UndoTask \/ UndoCommit
  BY <1>4 DEF UndoApproval, UndoTask, UndoCommit, CloseTransition
<1>5. CASE WaitDecided \/ WaitCancelled \/ WaitExpired \/ CheckApproved \/ CheckExpired
  BY <1>5 DEF WaitDecided, WaitCancelled, WaitExpired, CheckApproved, CheckExpired
<1>6. CASE Expire \/ ToolStart \/ NoticeCancel \/ AgentEnds \/ Unwind
  BY <1>6 DEF Expire, ToolStart, NoticeCancel, AgentEnds, Unwind, Resolve
<1>7. CASE Converge \/ ConvergePending \/ ConvergeCancel
  BY <1>7 DEF Converge, ConvergePending, ConvergeCancel
<1>8. CASE PersistArtifact \/ PersistTask \/ PersistFails
  BY <1>8 DEF PersistArtifact, PersistTask, PersistFails
<1>9. CASE Close \/ Publish \/ Release
  BY <1>9 DEF Close, Publish, Release
<1>10. CASE ResolveStep(Runner)
  BY <1>10 DEF ResolveStep, ResolveTask, ResolveApproval, ResolveCommit, RollbackApproval,
  RollbackTask, RollbackCommit, CloseTransition
<1> QED
  BY <1>1, <1>2, <1>3, <1>4, <1>5, <1>6, <1>7, <1>8, <1>9, <1>10 DEF RunnerStep

\* A closed gate is not opened again.
LEMMA StaysClosed ==
  ASSUME TypeOK, [Next]_vars, closed PROVE closed'
<1>1. CASE RunnerStep
  BY <1>1, RunnerWrites
<1>2. CASE Stop \/ StopWait \/ StopClose \/ StopArtifact \/ StopTask
  BY <1>2, StopSteady DEF StopClose
<1>3. CASE Rests
  BY <1>3, RestSteady DEF control
<1> QED
  BY <1>1, <1>2, <1>3, WhoseStep, DeciderSteady, CancelSteady

\* The others' steps leave a thread where it is.
LEMMA RunnerStays ==
  ASSUME TypeOK, [Next]_vars, ~RunnerStep
  PROVE  UNCHANGED <<pc[Runner], move[Runner], cur, goal>>
<1>1. Runner \in Thread /\ Runner \notin Deciders \cup Cancellers \cup {Stopper}
  BY ThreadsDiffer DEF Thread
<1> QED
  BY <1>1, WhoseStep, DeciderSteady, CancelSteady, StopSteady, RestSteady DEF Steady, local

LEMMA DeciderStays ==
  ASSUME TypeOK, [Next]_vars, NEW d \in Deciders, ~DeciderActs(d)
  PROVE  pc'[d] = pc[d] /\ move'[d] = move[d]
<1>1. d \in Thread /\ d \notin Cancellers \cup {Runner, Stopper}
  BY ThreadsDiffer DEF Thread
<1> QED
  BY <1>1, WhoseStep, RunnerSteady, DeciderSteady, CancelSteady, StopSteady, RestSteady
     DEF Steady, local

\* The last steps of the Runner, and the way to them.
LateSteps == \/ RequestCreate \/ RequestTask \/ RequestCommit \/ PersistArtifact \/ StartArtifact
             \/ PersistTask \/ StartTerminal \/ StartPersistFails \/ Close \/ Publish \/ Release

LEMMA RunnerArrives ==
  ASSUME TypeOK, RunnerStep
  PROVE  /\ pc'[Runner] \in {"rqTask", "rqCommit", "wait", "taskTerminal", "startTerminal", "close",
                             "publish", "release", "done"} => LateSteps
         /\ pc[Runner] \in {"close", "publish", "release", "done", "stuck"} =>
              Close \/ Publish \/ Release
<1> USE DEF TypeOK, Goto, Thread, store, control, history
<1>1. CASE Start \/ StartCancelled \/ StartFails \/ BuildRuntime \/ BuildFails
  BY <1>1 DEF Start, StartCancelled, StartFails, BuildRuntime, BuildFails, LateSteps
<1>2. CASE StartArtifact \/ StartTerminal \/ StartPersistFails
  BY <1>2 DEF StartArtifact, StartTerminal, StartPersistFails, LateSteps
<1>3. CASE Request \/ RequestCreate \/ RequestTask \/ RequestCommit
  BY <1>3 DEF Request, RequestCreate, RequestTask, RequestCommit, LateSteps
<1>4. CASE UndoApproval \/ UndoTask \/ UndoCommit
  BY <1>4 DEF UndoApproval, UndoTask, UndoCommit, CloseTransition, LateSteps
<1>5. CASE WaitDecided \/ WaitCancelled \/ WaitExpired \/ CheckApproved \/ CheckExpired
  BY <1>5 DEF WaitDecided, WaitCancelled, WaitExpired, CheckApproved, CheckExpired, LateSteps
<1>6. CASE Expire \/ ToolStart \/ NoticeCancel \/ AgentEnds \/ Unwind
  BY <1>6 DEF Expire, ToolStart, NoticeCancel, AgentEnds, Unwind, Resolve, LateSteps
<1>7. CASE Converge \/ ConvergePending \/ ConvergeCancel
  BY <1>7 DEF Converge, ConvergePending, ConvergeCancel, LateSteps
<1>8. CASE PersistArtifact \/ PersistTask \/ PersistFails
  BY <1>8 DEF PersistArtifact, PersistTask, PersistFails, LateSteps
<1>9. CASE Close \/ Publish \/ Release
  BY <1>9 DEF Close, Publish, Release, LateSteps
<1>10. CASE ResolveStep(Runner)
  BY <1>10 DEF ResolveStep, ResolveTask, ResolveApproval, ResolveCommit, RollbackApproval,
  RollbackTask, RollbackCommit, CloseTransition, LateSteps
<1> QED
  BY <1>1, <1>2, <1>3, <1>4, <1>5, <1>6, <1>7, <1>8, <1>9, <1>10 DEF RunnerStep

-----------------------------------------------------------------------------
(* The action properties that follow from the strengthened invariant.      *)

\* The actions that write the Task, by what they write into its status.
LEMMA TaskStep ==
  ASSUME SafeInv, [Next]_vars, task' # task
  PROVE  \/ ~token /\ (Start \/ StartFails)
         \/ \E t \in Thread : pc[t] \in WriterPC
         \/ task'.status \in Terminal \cup {"cancel_requested", task.status}
<1>1. TypeOK
  BY DEF SafeInv, GateInv, TypeInv
<1>2. CASE RunnerStep
  <2>1. CASE Start \/ StartFails
    BY <2>1 DEF Start, StartFails
  <2>2. CASE RequestTask \/ UndoTask \/ ResolveTask(Runner) \/ RollbackTask(Runner)
    BY <2>2 DEF RequestTask, UndoTask, ResolveTask, RollbackTask, WriterPC, ResolvePC, Thread
  <2>3. CASE PersistTask \/ PersistFails \/ StartTerminal \/ StartPersistFails
    BY <2>3 DEF PersistTask, PersistFails, StartTerminal, StartPersistFails, SafeInv, GateInv, TypeInv,
                GoalChosen, GoalPC, Ended, Landed
  <2> QED
    BY <1>1, <1>2, <2>1, <2>2, <2>3, RunnerWrites
<1>3. ASSUME NEW d \in Deciders, ResolveTask(d) \/ RollbackTask(d)
      PROVE  \E t \in Thread : pc[t] \in WriterPC
  BY <1>3 DEF ResolveTask, RollbackTask, WriterPC, ResolvePC, Thread
<1>4. ASSUME NEW t \in Thread, CancelTask(t)
      PROVE  task'.status \in {"cancel_requested", task.status}
  BY <1>1, <1>4 DEF CancelTask, WithStatus, Landed, TypeOK, Tasks
<1>5. CASE StopTask
  BY <1>5 DEF StopTask, Ended, Landed, Terminal
<1> QED
  BY <1>1, <1>2, <1>3, <1>4, <1>5, WhoseStep, DeciderSteady, CancelSteady, StopSteady, RestSteady
     DEF store, Thread

\* A persisted cancel_requested is never overwritten by a decision, a request or a start:
\* the Task only ends from there, whatever writes raise and whenever the service stops.
THEOREM CancellationSticks == Spec => CancelSticks
<1>1. ASSUME SafeInv, [Next]_vars, task.status = "cancel_requested"
      PROVE  task'.status \in Terminal \cup {"cancel_requested"}
  BY <1>1, TaskStep DEF SafeInv, CancelTold, WriterUncancelled
<1> QED
  BY <1>1, SafeInit, SafeNext, PTL DEF Spec, CancelSticks

\* Only a decision on its way can make an Approval approved.
LEMMA ApprovalStep ==
  ASSUME SafeInv, [Next]_vars, NEW a \in Approvals, approval'[a] = "approved",
         approval[a] # "approved"
  PROVE  \E t \in Thread : pc[t] = "rsApproval"
<1>1. TypeOK /\ approval \in [Approvals -> ApprovalStatus]
  BY DEF SafeInv, GateInv, TypeInv, TypeOK
<1>2. ~RequestCreate /\ ~UndoApproval /\ ~ConvergeCancel
  BY <1>1 DEF RequestCreate, UndoApproval, ConvergeCancel, CancelledIn, Landed
<1>3. ASSUME NEW t \in {Runner} \cup Deciders, ResolveApproval(t) \/ RollbackApproval(t)
      PROVE  \E u \in Thread : pc[u] = "rsApproval"
  BY <1>1, <1>3 DEF ResolveApproval, RollbackApproval, Landed, Thread
<1>4. \A t \in {Stopper} \cup Cancellers : ~CancelApprovals(t)
  BY <1>1 DEF CancelApprovals, CancelledIn
<1> QED
  BY <1>1, <1>2, <1>3, <1>4, WhoseStep, RunnerWrites, DeciderSteady, CancelSteady, StopSteady,
     RestSteady DEF store

\* An Approval becomes approved only while its Task is running: a decision that lost the
\* race against a cancellation, a terminal or the shutdown is never written.
THEOREM ApprovedWhileRunning == Spec => NoApprovalAfterCancel
<1>1. ASSUME SafeInv, [Next]_vars, NEW a \in Approvals, approval'[a] = "approved",
             approval[a] # "approved"
      PROVE  task.status = "running"
  BY <1>1, ApprovalStep DEF SafeInv, Approving
<1>2. SafeInv /\ [Next]_vars =>
        [\A a \in Approvals : approval'[a] = "approved" /\ approval[a] # "approved"
           => task.status = "running"]_vars
  BY <1>1
<1> QED
  BY <1>2, SafeInit, SafeNext, PTL DEF Spec, NoApprovalAfterCancel

\* Only the Runner starts a tool call.
LEMMA RanStep == ASSUME [Next]_vars, ran' # ran PROVE ToolStart
<1> USE DEF history
<1>1. CASE RunnerStep
  <2>1. CASE ResolveStep(Runner)
    BY <2>1 DEF ResolveStep, ResolveTask, ResolveApproval, ResolveCommit, RollbackApproval,
       RollbackTask, RollbackCommit, Thread
  <2>2. CASE Start \/ StartCancelled \/ StartFails \/ BuildRuntime \/ BuildFails
             \/ StartArtifact \/ StartTerminal \/ StartPersistFails
    BY <2>2 DEF Start, StartCancelled, StartFails, BuildRuntime, BuildFails, StartArtifact,
       StartTerminal, StartPersistFails
  <2>3. CASE Request \/ RequestCreate \/ RequestTask \/ RequestCommit
             \/ UndoApproval \/ UndoTask \/ UndoCommit
    BY <2>3 DEF Request, RequestCreate, RequestTask, RequestCommit, UndoApproval, UndoTask,
       UndoCommit
  <2>4. CASE WaitDecided \/ WaitCancelled \/ WaitExpired \/ CheckApproved \/ CheckExpired
             \/ Expire \/ ToolStart \/ NoticeCancel \/ AgentEnds \/ Unwind
    BY <2>4 DEF WaitDecided, WaitCancelled, WaitExpired, CheckApproved, CheckExpired, Expire,
       ToolStart, NoticeCancel, AgentEnds, Unwind
  <2>5. CASE Converge \/ ConvergePending \/ ConvergeCancel \/ PersistArtifact \/ PersistTask
             \/ PersistFails \/ Close \/ Publish \/ Release
    BY <2>5 DEF Converge, ConvergePending, ConvergeCancel, PersistArtifact, PersistTask,
       PersistFails, Close, Publish, Release
  <2> QED
    BY <1>1, <2>1, <2>2, <2>3, <2>4, <2>5 DEF RunnerStep
<1>2. ASSUME NEW d \in Deciders,
             \/ DeciderStep(d)
             \/ \E b \in Approvals, v \in {"approved", "rejected"} : Decide(d, b, v)
      PROVE  ToolStart
  <2>1. ResolveStep(d)
    BY <1>2 DEF DeciderStep, DecideGate, DecideRefused, Decide, store, history
  <2> QED
    BY <2>1 DEF ResolveStep, ResolveTask, ResolveApproval, ResolveCommit, RollbackApproval,
       RollbackTask, RollbackCommit
<1>3. ASSUME NEW t \in {Stopper} \cup Cancellers, CancelStep(t) PROVE ToolStart
  BY <1>3 DEF CancelStep, CancelTask, CancelApprovals, CancelShell
<1>4. CASE Stop \/ StopWait \/ StopClose \/ StopArtifact \/ StopTask
  BY <1>4 DEF Stop, StopWait, StopClose, StopArtifact, StopTask
<1>5. CASE \/ \E c \in Cancellers : Cancel(c)
           \/ \E b \in Approvals : Tick(b)
           \/ Over \/ UNCHANGED vars
  BY <1>5 DEF Cancel, Tick, Over, vars
<1> QED
  BY <1>1, <1>2, <1>3, <1>4, <1>5 DEF Next, StopStep

\* No approved tool call starts once a cancellation or a terminal is persisted.
THEOREM NoToolAfterCancellation == Spec => NoToolAfterCancel
<1>1. ASSUME SafeInv, [Next]_vars, ran' # ran
      PROVE  task.status \notin Terminal \cup {"cancel_requested"}
  BY <1>1, RanStep DEF ToolStart, SafeInv, CancelTold, TerminalFenced
<1> QED
  BY <1>1, SafeInit, SafeNext, PTL DEF Spec, NoToolAfterCancel

-----------------------------------------------------------------------------
(***************************************************************************)
(* Until a write raises.  The Task and the Approvals are written one after *)
(* the other while other threads read them outside the gate, so every      *)
(* further proof needs to know what each thread finds in the records at    *)
(* the point of the code it has reached: Records and ThreadsFit, as long   *)
(* as the shutdown has not closed the gate; Shut from then on.             *)
(***************************************************************************)

\* The step raises nothing, and no step before it did.
Faultless == faults' = 0

\* What a decision writes into an Approval, and what a Run that ends by itself converges to.
Verdicts == {"approved", "rejected", "expired"}
Aborted  == {"cancelled", "failed", "completed", "blocked"}

\* The Approvals up to cur exist, all but the last are decided, and one is waited for
\* only while it is pending.  The token is set with the record, an Approval withdrawn
\* after both, and the event repeats the record.
Records ==
  /\ cleaned
  /\ \A a \in Approvals : a > cur => approval[a] = "none"
  /\ \A a \in Approvals : a < cur => approval[a] \in Decided
  /\ ran \subseteq 1 .. cur
  /\ task.status = "waiting" => cur > 0 /\ task.pending = cur /\ approval[cur] = "pending"
  /\ task.status \notin {"waiting", "cancel_requested"} => task.pending = 0
  /\ token => task.status \in Terminal \cup {"cancel_requested"}
  /\ \A a \in Approvals : approval[a] = "cancelled" => token
  /\ ended \subseteq {task.status}

\* Thread t, at p, writes a decision: it is of the question the Task waits for.
Writes(t, p) ==
  p \in {"rsTask", "rsApproval", "rsCommit"} =>
    /\ cur > 0 /\ move[t].apr = cur /\ move[t].to \in Verdicts
    /\ p = "rsTask" => task = Waiting(cur)
    /\ p # "rsTask" => task = Resumed
    /\ p # "rsCommit" => approval[cur] = "pending"

\* A decider has written that the Task runs again, and not yet its decision.
Answered == \E d \in Deciders : pc[d] = "rsApproval"

\* What the Runner finds when it has got to r, g being the status it converges to.
RunnerPlace(r) ==
  /\ r \in (RunnerPC \cup {"rsTask", "rsApproval", "rsCommit", "done"})
             \ {"rqUndoApproval", "rqUndoTask", "rqUndoCommit", "stuck"}
  /\ closed <=> r \in {"publish", "release", "done"}
  /\ ended # {} => r \in {"release", "done"}
RunnerAsks(r) ==
  /\ cur > 0 => (approval[cur] = "none" <=> r = "rqCreate")
  /\ r \in {"queued", "init", "startArtifact", "startTerminal"} => cur = 0
  /\ r \in {"rqCreate", "rqTask", "rqCommit", "wait", "checkApproved", "checkExpired", "tool",
            "rsTask", "rsApproval", "rsCommit"} => cur > 0 /\ cur \notin ran
  /\ r = "rqTask" => approval[cur] = "pending"
  /\ r \in {"checkApproved", "tool"} => approval[cur] = "approved"
RunnerShows(r) ==
  /\ cur > 0 /\ approval[cur] = "pending" =>
       /\ r \in {"rqTask", "rqCommit", "wait", "checkExpired", "rsTask", "rsApproval",
                 "unwind", "converge", "cvPending", "cvCancel"}
       /\ \/ r \in {"rqTask", "rsApproval"} \/ Answered
          \/ task.pending = cur /\ task.status \in {"waiting", "cancel_requested"}
  /\ task.status = "waiting" => r \in {"rqCommit", "wait", "checkExpired", "rsTask"}
  /\ Answered \/ (\E d \in Deciders : pc[d] = "rsTask") => r \in {"wait", "checkExpired"}
  /\ r \in {"rqCreate", "rqTask"} => task = Resumed
  /\ Writes(Runner, r)
RunnerEnds(r, g) ==
  /\ task.status = "queued" => r = "queued"
  /\ r = "queued" => task.status \in {"queued", "cancel_requested"}
  /\ r \in {"startArtifact", "startTerminal"} => task.status = "cancel_requested"
  /\ r \in GoalPC => g \in Aborted /\ (g = "cancelled" => token)
  /\ r \in {"close", "publish"} => task.status = g
  /\ task.status \in Terminal <=> r \in {"close", "publish", "release", "done"}

RunnerFits(r, g) == RunnerPlace(r) /\ RunnerAsks(r) /\ RunnerShows(r) /\ RunnerEnds(r, g)

\* What the API threads find.
DeciderFits(d, p) ==
  /\ p \in {"idle", "dcGate", "rsTask", "rsApproval", "rsCommit", "done"}
  /\ p = "dcGate" => move[d].apr \in Approvals /\ move[d].to \in {"approved", "rejected"}
  /\ Writes(d, p)
CancellerFits(p) ==
  /\ p \in {"idle", "cnGate", "cnPending", "cnShell", "done"}
  /\ p \in {"cnPending", "cnShell"} => token

\* Every thread finds what the code has left for it: the inductive invariant.
ThreadsFit ==
  /\ RunnerFits(pc[Runner], goal)
  /\ \A d \in Deciders : DeciderFits(d, pc[d])
  /\ \A c \in Cancellers : CancellerFits(pc[c])

CalmInv == SafeInv /\ Records /\ ThreadsFit

\* What the shutdown finds until it closes the gate: it has cancelled like an API thread.
StopperFits ==
  /\ pc[Stopper] \in {"idle", "cnGate", "cnPending", "cnShell", "sdWait", "sdClose", "done"}
  /\ pc[Stopper] \in {"cnPending", "cnShell", "sdWait", "sdClose"} => token
  /\ pc[Stopper] \in {"cnShell", "sdWait", "sdClose"} => Pending = {}

\* What everyone finds once it has closed it: no question, and nobody to write one.
Shut ==
  /\ closed /\ token /\ Pending = {}
  /\ pc[Stopper] \in {"sdArtifact", "sdTask", "done"}
  /\ \A t \in {Runner} \cup Deciders : pc[t] \notin GatedPC \ {"startArtifact"}
  /\ \A d \in Deciders : pc[d] = "dcGate" => move[d].apr \in Approvals

\* Until a write raises, every thread finds one or the other.
FaultlessInv == faults = 0 => Shut \/ (Records /\ ThreadsFit /\ StopperFits)

\* In a quiet step no write raises.
LEMMA NothingRaises == ASSUME Faultless, SafeInv PROVE ~Raise
  BY DEF Faultless, SafeInv, GateInv, TypeInv, TypeOK, Raise

\* The state's shape, and what the gate says of the threads inside a decision.
LEMMA CalmTypes ==
  ASSUME CalmInv
  PROVE  /\ task \in Tasks /\ task.status \in TaskStatus /\ task.pending \in 0 .. MaxApprovals
         /\ approval \in [Approvals -> ApprovalStatus]
         /\ pc \in [Thread -> PC] /\ cur \in 0 .. MaxApprovals /\ MaxApprovals \in Nat
         /\ cur > 0 => cur \in Approvals
         /\ move \in [Thread -> Moves] /\ goal \in Terminal \cup {"none"}
         /\ TypeOK
  BY BoundsAreNaturals
     DEF CalmInv, SafeInv, GateInv, TypeInv, TypeOK, Tasks, Approvals

\* A pending Approval is the last one there is.
LEMMA PendingIsCurrent ==
  ASSUME CalmInv, NEW a \in Approvals, approval[a] = "pending"
  PROVE  a = cur /\ cur > 0
<1>1. a \in Nat /\ a > 0 /\ cur \in Nat
  BY CalmTypes DEF Approvals
<1>2. approval[a] # "none" /\ approval[a] \notin Decided
  BY DEF Decided
<1>3. ~(a > cur) /\ ~(a < cur)
  BY <1>2 DEF CalmInv, Records
<1> QED
  BY <1>1, <1>3

\* A thread moves on: the others stay where they are.
LEMMA OneMoves ==
  ASSUME TypeOK, NEW t \in Thread, NEW p, p \in PC, Goto(t, p)
  PROVE  /\ pc'[t] = p /\ \A u \in Thread : u # t => pc'[u] = pc[u]
         /\ t = Runner => /\ \A d \in Deciders : pc'[d] = pc[d]
                          /\ \A c \in Cancellers : pc'[c] = pc[c]
                          /\ pc'[Stopper] = pc[Stopper]
         /\ t # Runner => pc'[Runner] = pc[Runner]
         /\ t # Stopper => pc'[Stopper] = pc[Stopper]
         /\ t \in Deciders => /\ \A c \in Cancellers : pc'[c] = pc[c]
                              /\ \A d \in Deciders : d # t => pc'[d] = pc[d]
         /\ t \in Cancellers => /\ \A d \in Deciders : pc'[d] = pc[d]
                                /\ \A c \in Cancellers : c # t => pc'[c] = pc[c]
<1>1. pc'[t] = p /\ \A u \in Thread : u # t => pc'[u] = pc[u]
  BY DEF Goto, TypeOK
<1> QED
  BY <1>1, ThreadsDiffer DEF Thread

\* The Runner gets to r without a change of what the other threads look at.
LEMMA RunnerMoves ==
  ASSUME CalmInv, NEW r, r \in PC, Goto(Runner, r), NEW g, goal' = g, RunnerFits(r, g),
         task' = task, approval' = approval, cur' = cur, token' = token, closed' = closed,
         cleaned' = cleaned, ran' = ran, ended' = ended, move' = move
  PROVE  (Records /\ ThreadsFit)'
<1>1. pc'[Runner] = r /\ (\A d \in Deciders : pc'[d] = pc[d])
      /\ (\A c \in Cancellers : pc'[c] = pc[c]) /\ pc'[Stopper] = pc[Stopper]
  BY OneMoves, CalmTypes, Zenon DEF Thread
<1>2. Records'
  BY <1>1 DEF CalmInv, Records
<1>3. Answered' <=> Answered
  BY <1>1 DEF Answered
<1>4. RunnerFits(pc[Runner], goal)'
  BY <1>1, <1>3
     DEF RunnerFits, RunnerPlace, RunnerAsks, RunnerShows, RunnerEnds, Writes, Waiting, Resumed
<1>5. \A d \in Deciders : DeciderFits(d, pc[d])'
  BY <1>1 DEF CalmInv, ThreadsFit, DeciderFits, Writes, Waiting, Resumed
<1>6. \A c \in Cancellers : CancellerFits(pc[c])'
  BY <1>1 DEF CalmInv, ThreadsFit, CancellerFits
<1> QED
  BY <1>2, <1>4, <1>5, <1>6 DEF ThreadsFit

\* Once the token is set, or the question answered, no decision is being written.
LEMMA NoneAnswers ==
  ASSUME CalmInv, token \/ approval[cur] # "pending"
  PROVE  /\ \A d \in Deciders : pc[d] \notin {"rsTask", "rsApproval"}
         /\ ~Answered
<1>1. ASSUME NEW d \in Deciders, pc[d] \in {"rsTask", "rsApproval"} PROVE FALSE
  <2>1. approval[cur] = "pending" /\ (task = Waiting(cur) \/ task = Resumed)
    BY <1>1 DEF CalmInv, ThreadsFit, DeciderFits, Writes
  <2>2. task.status \in {"waiting", "running"}
    BY <2>1 DEF Waiting, Resumed
  <2> QED
    BY <2>1, <2>2 DEF CalmInv, Records, Terminal
<1> QED
  BY <1>1 DEF Answered

-----------------------------------------------------------------------------
(* The Runner's steps, one lemma per action: first those that only move it. *)

LEMMA BuildRuntimeCalm == ASSUME Faultless, CalmInv, BuildRuntime PROVE (Records /\ ThreadsFit)'
<1>1. \E r \in {"init"} : pc[Runner] = r /\ RunnerFits(r, goal)
  BY DEF CalmInv, ThreadsFit, BuildRuntime
<1>2. ASSUME BuildRuntime PROVE RunnerFits("run", goal)
  BY <1>1, <1>2, CalmTypes, NothingRaises DEF RunnerFits, RunnerPlace, RunnerAsks,
     RunnerShows, RunnerEnds, Writes, GoalPC, Aborted, Terminal, RunnerPC, Verdicts,
     Decided, Waiting, Resumed, Records, Answered, CalmInv, BuildRuntime
<1>3. {"run"} \subseteq PC
  BY DEF PC, RunnerPC
<1> QED
  BY <1>2, <1>3, RunnerMoves, NothingRaises DEF BuildRuntime, store, control, local,
     history, CalmInv, Records

LEMMA BuildFailsCalm == ASSUME Faultless, CalmInv, BuildFails PROVE (Records /\ ThreadsFit)'
<1>1. \E r \in {"init"} : pc[Runner] = r /\ RunnerFits(r, goal)
  BY DEF CalmInv, ThreadsFit, BuildFails
<1>2. ASSUME BuildFails PROVE RunnerFits("artifact", goal')
  BY <1>1, <1>2, CalmTypes, NothingRaises DEF RunnerFits, RunnerPlace, RunnerAsks,
     RunnerShows, RunnerEnds, Writes, GoalPC, Aborted, Terminal, RunnerPC, Verdicts,
     Decided, Waiting, Resumed, Records, Answered, CalmInv, BuildFails
<1>3. {"artifact"} \subseteq PC
  BY DEF PC, RunnerPC
<1> QED
  BY <1>2, <1>3, RunnerMoves, NothingRaises DEF BuildFails, store, control, local, history,
     CalmInv, Records

LEMMA StartCancelledCalm == ASSUME Faultless, CalmInv, StartCancelled PROVE (Records /\ ThreadsFit)'
<1>1. \E r \in {"queued"} : pc[Runner] = r /\ RunnerFits(r, goal)
  BY DEF CalmInv, ThreadsFit, StartCancelled
<1>2. ASSUME StartCancelled PROVE RunnerFits("startArtifact", goal')
  BY <1>1, <1>2, CalmTypes, NothingRaises DEF RunnerFits, RunnerPlace, RunnerAsks,
     RunnerShows, RunnerEnds, Writes, GoalPC, Aborted, Terminal, RunnerPC, Verdicts,
     Decided, Waiting, Resumed, Records, Answered, CalmInv, StartCancelled
<1>3. {"startArtifact"} \subseteq PC
  BY DEF PC, RunnerPC
<1> QED
  BY <1>2, <1>3, RunnerMoves, NothingRaises DEF StartCancelled, store, control, local,
     history, CalmInv, Records

LEMMA StartArtifactCalm == ASSUME Faultless, CalmInv, StartArtifact PROVE (Records /\ ThreadsFit)'
<1>1. \E r \in {"startArtifact"} : pc[Runner] = r /\ RunnerFits(r, goal)
  BY DEF CalmInv, ThreadsFit, StartArtifact
<1>2. ASSUME StartArtifact PROVE RunnerFits("startTerminal", goal)
  BY <1>1, <1>2, CalmTypes, NothingRaises DEF RunnerFits, RunnerPlace, RunnerAsks,
     RunnerShows, RunnerEnds, Writes, GoalPC, Aborted, Terminal, RunnerPC, Verdicts,
     Decided, Waiting, Resumed, Records, Answered, CalmInv, StartArtifact
<1>3. {"startTerminal"} \subseteq PC
  BY DEF PC, RunnerPC
<1> QED
  BY <1>2, <1>3, RunnerMoves, NothingRaises DEF StartArtifact, store, control, local,
     history, CalmInv, Records

LEMMA RequestCommitCalm == ASSUME Faultless, CalmInv, RequestCommit PROVE (Records /\ ThreadsFit)'
<1>1. \E r \in {"rqCommit"} : pc[Runner] = r /\ RunnerFits(r, goal)
  BY DEF CalmInv, ThreadsFit, RequestCommit
<1>2. ASSUME RequestCommit PROVE RunnerFits("wait", goal)
  BY <1>1, <1>2, CalmTypes, NothingRaises DEF RunnerFits, RunnerPlace, RunnerAsks,
     RunnerShows, RunnerEnds, Writes, GoalPC, Aborted, Terminal, RunnerPC, Verdicts,
     Decided, Waiting, Resumed, Records, Answered, CalmInv, RequestCommit
<1>3. {"wait"} \subseteq PC
  BY DEF PC, RunnerPC
<1> QED
  BY <1>2, <1>3, RunnerMoves, NothingRaises DEF RequestCommit, store, control, local,
     history, CalmInv, Records

LEMMA WaitDecidedCalm == ASSUME Faultless, CalmInv, WaitDecided PROVE (Records /\ ThreadsFit)'
<1>1. \E r \in {"wait"} : pc[Runner] = r /\ RunnerFits(r, goal)
  BY DEF CalmInv, ThreadsFit, WaitDecided
<1>2. ASSUME WaitDecided, approval[cur] = "approved" PROVE RunnerFits("checkApproved", goal')
  BY <1>1, <1>2, CalmTypes, NothingRaises, NoneAnswers DEF RunnerFits, RunnerPlace,
     RunnerAsks, RunnerShows, RunnerEnds, Writes, GoalPC, Aborted, Terminal, RunnerPC,
     Verdicts, Decided, Waiting, Resumed, Records, Answered, CalmInv, WaitDecided
<1>3. ASSUME WaitDecided, approval[cur] = "cancelled" PROVE RunnerFits("unwind", goal')
  BY <1>1, <1>3, CalmTypes, NothingRaises, NoneAnswers DEF RunnerFits, RunnerPlace,
     RunnerAsks, RunnerShows, RunnerEnds, Writes, GoalPC, Aborted, Terminal, RunnerPC,
     Verdicts, Decided, Waiting, Resumed, Records, Answered, CalmInv, WaitDecided
<1>4. ASSUME WaitDecided, approval[cur] \notin {"approved", "cancelled"} PROVE RunnerFits("run", goal')
  BY <1>1, <1>4, CalmTypes, NothingRaises, NoneAnswers DEF RunnerFits, RunnerPlace,
     RunnerAsks, RunnerShows, RunnerEnds, Writes, GoalPC, Aborted, Terminal, RunnerPC,
     Verdicts, Decided, Waiting, Resumed, Records, Answered, CalmInv, WaitDecided
<1>5. {"checkApproved", "run", "unwind"} \subseteq PC
  BY DEF PC, RunnerPC
<1> QED
  BY <1>2, <1>3, <1>4, <1>5, RunnerMoves, NothingRaises DEF WaitDecided, store, control,
     local, history, CalmInv, Records

LEMMA WaitEndsCalm == ASSUME Faultless, CalmInv, WaitCancelled \/ WaitExpired PROVE (Records /\ ThreadsFit)'
<1>1. \E r \in {"wait"} : pc[Runner] = r /\ RunnerFits(r, goal)
  BY DEF CalmInv, ThreadsFit, WaitCancelled, WaitExpired
<1>2. ASSUME WaitCancelled PROVE RunnerFits("unwind", goal')
  BY <1>1, <1>2, CalmTypes, NothingRaises, NoneAnswers DEF RunnerFits, RunnerPlace,
     RunnerAsks, RunnerShows, RunnerEnds, Writes, GoalPC, Aborted, Terminal, RunnerPC,
     Verdicts, Decided, Waiting, Resumed, Records, Answered, CalmInv, WaitCancelled,
     WaitExpired
<1>3. ASSUME WaitExpired PROVE RunnerFits("checkExpired", goal')
  BY <1>1, <1>3, CalmTypes, NothingRaises, NoneAnswers DEF RunnerFits, RunnerPlace,
     RunnerAsks, RunnerShows, RunnerEnds, Writes, GoalPC, Aborted, Terminal, RunnerPC,
     Verdicts, Decided, Waiting, Resumed, Records, Answered, CalmInv, WaitCancelled,
     WaitExpired
<1>4. {"checkExpired", "unwind"} \subseteq PC
  BY DEF PC, RunnerPC
<1> QED
  BY <1>2, <1>3, <1>4, RunnerMoves, NothingRaises DEF WaitCancelled, WaitExpired, store,
     control, local, history, CalmInv, Records

LEMMA CheckApprovedCalm == ASSUME Faultless, CalmInv, CheckApproved PROVE (Records /\ ThreadsFit)'
<1>1. \E r \in {"checkApproved"} : pc[Runner] = r /\ RunnerFits(r, goal)
  BY DEF CalmInv, ThreadsFit, CheckApproved
<1>2. ASSUME CheckApproved, token PROVE RunnerFits("unwind", goal')
  BY <1>1, <1>2, CalmTypes, NothingRaises DEF RunnerFits, RunnerPlace, RunnerAsks,
     RunnerShows, RunnerEnds, Writes, GoalPC, Aborted, Terminal, RunnerPC, Verdicts,
     Decided, Waiting, Resumed, Records, Answered, CalmInv, CheckApproved
<1>3. ASSUME CheckApproved, ~token PROVE RunnerFits("tool", goal')
  BY <1>1, <1>3, CalmTypes, NothingRaises DEF RunnerFits, RunnerPlace, RunnerAsks,
     RunnerShows, RunnerEnds, Writes, GoalPC, Aborted, Terminal, RunnerPC, Verdicts,
     Decided, Waiting, Resumed, Records, Answered, CalmInv, CheckApproved
<1>4. {"tool", "unwind"} \subseteq PC
  BY DEF PC, RunnerPC
<1> QED
  BY <1>2, <1>3, <1>4, RunnerMoves, NothingRaises DEF CheckApproved, store, control, local,
     history, CalmInv, Records

LEMMA CheckExpiredCalm == ASSUME Faultless, CalmInv, CheckExpired PROVE (Records /\ ThreadsFit)'
<1>1. \E r \in {"checkExpired"} : pc[Runner] = r /\ RunnerFits(r, goal)
  BY DEF CalmInv, ThreadsFit, CheckExpired
<1>2. ASSUME CheckExpired, token \/ approval[cur] = "cancelled" PROVE RunnerFits("unwind", goal')
  BY <1>1, <1>2, CalmTypes, NothingRaises, NoneAnswers DEF RunnerFits, RunnerPlace,
     RunnerAsks, RunnerShows, RunnerEnds, Writes, GoalPC, Aborted, Terminal, RunnerPC,
     Verdicts, Decided, Waiting, Resumed, Records, Answered, CalmInv, CheckExpired
<1>3. ASSUME CheckExpired, ~token, approval[cur] = "approved" PROVE RunnerFits("tool", goal')
  BY <1>1, <1>3, CalmTypes, NothingRaises, NoneAnswers DEF RunnerFits, RunnerPlace,
     RunnerAsks, RunnerShows, RunnerEnds, Writes, GoalPC, Aborted, Terminal, RunnerPC,
     Verdicts, Decided, Waiting, Resumed, Records, Answered, CalmInv, CheckExpired
<1>4. ASSUME CheckExpired, ~token, approval[cur] \notin {"approved", "cancelled"} PROVE RunnerFits("run", goal')
  BY <1>1, <1>4, CalmTypes, NothingRaises, NoneAnswers DEF RunnerFits, RunnerPlace,
     RunnerAsks, RunnerShows, RunnerEnds, Writes, GoalPC, Aborted, Terminal, RunnerPC,
     Verdicts, Decided, Waiting, Resumed, Records, Answered, CalmInv, CheckExpired
<1>5. {"run", "tool", "unwind"} \subseteq PC
  BY DEF PC, RunnerPC
<1>6. ASSUME CheckExpired, token \/ approval[cur] = "cancelled" PROVE (Records /\ ThreadsFit)'
  <2>1. Goto(Runner, "unwind")
    BY <1>6 DEF CheckExpired
  <2> QED
    BY <1>2, <1>5, <1>6, <2>1, RunnerMoves DEF CheckExpired, store, control, local, history
<1>7. ASSUME CheckExpired, ~token, approval[cur] = "approved" PROVE (Records /\ ThreadsFit)'
  <2>1. Goto(Runner, "tool")
    BY <1>7 DEF CheckExpired
  <2> QED
    BY <1>3, <1>5, <1>7, <2>1, RunnerMoves DEF CheckExpired, store, control, local, history
<1>8. ASSUME CheckExpired, ~token, approval[cur] \notin {"approved", "cancelled"} PROVE (Records /\ ThreadsFit)'
  <2>1. Goto(Runner, "run")
    BY <1>8 DEF CheckExpired
  <2> QED
    BY <1>4, <1>5, <1>8, <2>1, RunnerMoves DEF CheckExpired, store, control, local, history
<1> QED
  BY <1>6, <1>7, <1>8 DEF CheckExpired

LEMMA NoticeCancelCalm == ASSUME Faultless, CalmInv, NoticeCancel PROVE (Records /\ ThreadsFit)'
<1>1. \E r \in {"run", "tool"} : pc[Runner] = r /\ RunnerFits(r, goal)
  BY DEF CalmInv, ThreadsFit, NoticeCancel
<1>2. ASSUME NoticeCancel PROVE RunnerFits("unwind", goal')
  BY <1>1, <1>2, CalmTypes, NothingRaises DEF RunnerFits, RunnerPlace, RunnerAsks,
     RunnerShows, RunnerEnds, Writes, GoalPC, Aborted, Terminal, RunnerPC, Verdicts,
     Decided, Waiting, Resumed, Records, Answered, CalmInv, NoticeCancel
<1>3. {"unwind"} \subseteq PC
  BY DEF PC, RunnerPC
<1> QED
  BY <1>2, <1>3, RunnerMoves, NothingRaises DEF NoticeCancel, store, control, local,
     history, CalmInv, Records

LEMMA AgentEndsCalm == ASSUME Faultless, CalmInv, AgentEnds PROVE (Records /\ ThreadsFit)'
<1>1. \E r \in {"run"} : pc[Runner] = r /\ RunnerFits(r, goal)
  BY DEF CalmInv, ThreadsFit, AgentEnds
<1>2. ASSUME AgentEnds PROVE RunnerFits("unwind", goal')
  BY <1>1, <1>2, CalmTypes, NothingRaises DEF RunnerFits, RunnerPlace, RunnerAsks,
     RunnerShows, RunnerEnds, Writes, GoalPC, Aborted, Terminal, RunnerPC, Verdicts,
     Decided, Waiting, Resumed, Records, Answered, CalmInv, AgentEnds
<1>3. {"unwind"} \subseteq PC
  BY DEF PC, RunnerPC
<1> QED
  BY <1>2, <1>3, RunnerMoves, NothingRaises DEF AgentEnds, store, control, local, history,
     CalmInv, Records

LEMMA UnwindCalm == ASSUME Faultless, CalmInv, Unwind PROVE (Records /\ ThreadsFit)'
<1>1. \E r \in {"unwind"} : pc[Runner] = r /\ RunnerFits(r, goal)
  BY DEF CalmInv, ThreadsFit, Unwind
<1>2. ASSUME Unwind PROVE RunnerFits("converge", goal')
  BY <1>1, <1>2, CalmTypes, NothingRaises DEF RunnerFits, RunnerPlace, RunnerAsks,
     RunnerShows, RunnerEnds, Writes, GoalPC, Aborted, Terminal, RunnerPC, Verdicts,
     Decided, Waiting, Resumed, Records, Answered, CalmInv, Unwind
<1>3. {"converge"} \subseteq PC
  BY DEF PC, RunnerPC
<1> QED
  BY <1>2, <1>3, RunnerMoves, NothingRaises DEF Unwind, store, control, local, history,
     CalmInv, Records

LEMMA ConvergeCalm == ASSUME Faultless, CalmInv, Converge PROVE (Records /\ ThreadsFit)'
<1>1. \E r \in {"converge"} : pc[Runner] = r /\ RunnerFits(r, goal)
  BY DEF CalmInv, ThreadsFit, Converge
<1>2. ASSUME Converge PROVE RunnerFits("cvPending", goal')
  BY <1>1, <1>2, CalmTypes, NothingRaises DEF RunnerFits, RunnerPlace, RunnerAsks,
     RunnerShows, RunnerEnds, Writes, GoalPC, Aborted, Terminal, RunnerPC, Verdicts,
     Decided, Waiting, Resumed, Records, Answered, CalmInv, Converge
<1>3. {"cvPending"} \subseteq PC
  BY DEF PC, RunnerPC
<1> QED
  BY <1>2, <1>3, RunnerMoves, NothingRaises DEF Converge, store, control, local, history,
     CalmInv, Records

LEMMA ConvergePendingCalm == ASSUME Faultless, CalmInv, ConvergePending PROVE (Records /\ ThreadsFit)'
<1>1. \E r \in {"cvPending"} : pc[Runner] = r /\ RunnerFits(r, goal)
  BY DEF CalmInv, ThreadsFit, ConvergePending
<1>2. ASSUME ConvergePending, task.pending # 0 PROVE RunnerFits("cvCancel", goal')
  BY <1>1, <1>2, CalmTypes, NothingRaises DEF RunnerFits, RunnerPlace, RunnerAsks,
     RunnerShows, RunnerEnds, Writes, GoalPC, Aborted, Terminal, RunnerPC, Verdicts,
     Decided, Waiting, Resumed, Records, Answered, CalmInv, ConvergePending
<1>3. ASSUME ConvergePending, task.pending = 0 PROVE RunnerFits("artifact", goal')
  BY <1>1, <1>3, CalmTypes, NothingRaises DEF RunnerFits, RunnerPlace, RunnerAsks,
     RunnerShows, RunnerEnds, Writes, GoalPC, Aborted, Terminal, RunnerPC, Verdicts,
     Decided, Waiting, Resumed, Records, Answered, CalmInv, ConvergePending
<1>4. {"artifact", "cvCancel"} \subseteq PC
  BY DEF PC, RunnerPC
<1> QED
  BY <1>2, <1>3, <1>4, RunnerMoves, NothingRaises DEF ConvergePending, store, control,
     local, history, CalmInv, Records

LEMMA PersistArtifactCalm == ASSUME Faultless, CalmInv, PersistArtifact PROVE (Records /\ ThreadsFit)'
<1>1. \E r \in {"artifact"} : pc[Runner] = r /\ RunnerFits(r, goal)
  BY DEF CalmInv, ThreadsFit, PersistArtifact
<1>2. ASSUME PersistArtifact PROVE RunnerFits("taskTerminal", goal')
  BY <1>1, <1>2, CalmTypes, NothingRaises DEF RunnerFits, RunnerPlace, RunnerAsks,
     RunnerShows, RunnerEnds, Writes, GoalPC, Aborted, Terminal, RunnerPC, Verdicts,
     Decided, Waiting, Resumed, Records, Answered, CalmInv, PersistArtifact
<1>3. {"taskTerminal"} \subseteq PC
  BY DEF PC, RunnerPC
<1> QED
  BY <1>2, <1>3, RunnerMoves, NothingRaises DEF PersistArtifact, store, control, local,
     history, CalmInv, Records

-----------------------------------------------------------------------------
(* The Runner's steps that write a record, or that others can see.         *)

\* While the Runner is in a gated section, or nobody is, no decision is being written.
LEMMA DecidersOut ==
  ASSUME CalmInv, gate = {} \/ gate = {Runner}
  PROVE  (\A d \in Deciders : pc[d] \in {"idle", "dcGate", "done"}) /\ ~Answered
<1>1. \A d \in Deciders : pc[d] \notin GatedPC
  BY HolderIsAlone, ThreadsDiffer DEF CalmInv, Thread
<1> QED
  BY <1>1 DEF GatedPC, ResolvePC, CalmInv, ThreadsFit, DeciderFits, Answered

\* A Runner inside a gated section holds the gate.
LEMMA RunnerHolds ==
  ASSUME CalmInv, pc[Runner] \in GatedPC PROVE gate = {Runner}
  BY DEF CalmInv, SafeInv, GateInv, GateExclusive, Thread


\* What Request and Expire set down of the transition they begin.
LEMMA RequestMoves ==
  ASSUME Faultless, CalmInv, Request PROVE \A d \in Deciders : move'[d] = move[d]
  BY NothingRaises, ThreadsDiffer, CalmTypes DEF Request, Moving, CalmInv, Thread

LEMMA ExpireMoves ==
  ASSUME Faultless, CalmInv, Expire
  PROVE  /\ move'[Runner].apr = cur /\ move'[Runner].to = "expired"
         /\ \A d \in Deciders : move'[d] = move[d]
  BY NothingRaises, ThreadsDiffer, CalmTypes DEF Expire, Resolve, Moving, CalmInv, Thread

LEMMA StartCalm == ASSUME Faultless, CalmInv, Start PROVE (Records /\ ThreadsFit)'
<1>1. RunnerFits("queued", goal) /\ pc[Runner] = "queued"
  BY DEF CalmInv, ThreadsFit, Start
<1>2. pc'[Runner] = "init" /\ (\A d \in Deciders : pc'[d] = pc[d])
      /\ (\A c \in Cancellers : pc'[c] = pc[c]) /\ pc'[Stopper] = pc[Stopper]
  <2>1. Goto(Runner, "init") /\ "init" \in PC /\ Runner \in Thread
    BY <1>1, NothingRaises DEF Start, PC, RunnerPC, ResolvePC, Thread, Resolve, CalmInv,
       RunnerFits, RunnerPlace
  <2> QED
    BY <2>1, OneMoves, CalmTypes, Zenon
<1>3. (\A d \in Deciders : pc[d] \in {"idle", "dcGate", "done"}) /\ ~Answered /\ ~Answered'
  <2>1. gate = {}
    BY DEF Start, Enter, Resolve
  <2> QED
    BY <1>2, <2>1, DecidersOut DEF Answered
<1>4. task'.status = "running" /\ task'.pending = 0 /\ cur = 0
  BY <1>1, CalmTypes DEF Start, WithStatus, RunnerFits, RunnerEnds, RunnerAsks, Tasks, CalmInv, Records, SafeInv, CancelTold
<1>5. Records'
  BY <1>4, <1>1, <1>2, <1>3, CalmTypes, NothingRaises DEF CalmInv, RunnerFits, RunnerPlace,
     RunnerAsks, RunnerShows, RunnerEnds, Writes, GoalPC, Aborted, Terminal, RunnerPC,
     Verdicts, Decided, Waiting, Resumed, Ended, WithStatus, Records, Answered, Tasks,
     TaskStatus, ApprovalStatus, Approvals, CancelledIn, Pending, Start, store, control,
     local, history, Enter, Leave
<1>6. RunnerFits(pc[Runner], goal)'
  BY <1>4, <1>1, <1>2, <1>3, CalmTypes, NothingRaises DEF CalmInv, RunnerFits, RunnerPlace,
     RunnerAsks, RunnerShows, RunnerEnds, Writes, GoalPC, Aborted, Terminal, RunnerPC,
     Verdicts, Decided, Waiting, Resumed, Ended, WithStatus, Records, Answered, Tasks,
     TaskStatus, ApprovalStatus, Approvals, CancelledIn, Pending, Start, store, control,
     local, history, Enter, Leave
<1>7. \A d \in Deciders : DeciderFits(d, pc[d])'
  BY <1>2, <1>3, NothingRaises, CalmTypes DEF CalmInv, ThreadsFit, DeciderFits, Writes,
     Start, store, control, local, history, Enter, Leave
<1>8. \A c \in Cancellers : CancellerFits(pc[c])'
  BY <1>2, NothingRaises DEF CalmInv, ThreadsFit, CancellerFits, Start, store, control,
     local, history, Enter, Leave
<1> QED
  BY <1>5, <1>6, <1>7, <1>8 DEF ThreadsFit

LEMMA RequestCalm == ASSUME Faultless, CalmInv, Request PROVE (Records /\ ThreadsFit)'
<1>1. RunnerFits("run", goal) /\ pc[Runner] = "run"
  BY DEF CalmInv, ThreadsFit, Request
<1>2. pc'[Runner] = "rqCreate" /\ (\A d \in Deciders : pc'[d] = pc[d])
      /\ (\A c \in Cancellers : pc'[c] = pc[c]) /\ pc'[Stopper] = pc[Stopper]
  <2>1. Goto(Runner, "rqCreate") /\ "rqCreate" \in PC /\ Runner \in Thread
    BY <1>1, NothingRaises DEF Request, PC, RunnerPC, ResolvePC, Thread, Resolve, CalmInv,
       RunnerFits, RunnerPlace
  <2> QED
    BY <2>1, OneMoves, CalmTypes, Zenon
<1>3. (\A d \in Deciders : pc[d] \in {"idle", "dcGate", "done"}) /\ ~Answered /\ ~Answered'
  <2>1. gate = {}
    BY DEF Request, Enter, Resolve
  <2> QED
    BY <1>2, <2>1, DecidersOut DEF Answered
<1>4. task = Resumed
  BY <1>1, CalmTypes DEF RunnerFits, RunnerShows, RunnerEnds, Request, CalmInv, SafeInv, CancelTold, Tasks, Resumed,
     Records, TaskStatus, Terminal
<1>5. Records'
  BY <1>4, <1>1, <1>2, <1>3, CalmTypes, NothingRaises, RequestMoves DEF CalmInv, RunnerFits,
     RunnerPlace, RunnerAsks, RunnerShows, RunnerEnds, Writes, GoalPC, Aborted, Terminal,
     RunnerPC, Verdicts, Decided, Waiting, Resumed, Ended, WithStatus, Records, Answered,
     Tasks, TaskStatus, ApprovalStatus, Approvals, CancelledIn, Pending, Request, store,
     control, local, history, Enter, Leave
<1>6. RunnerFits(pc[Runner], goal)'
  BY <1>4, <1>1, <1>2, <1>3, CalmTypes, NothingRaises, RequestMoves DEF CalmInv, RunnerFits,
     RunnerPlace, RunnerAsks, RunnerShows, RunnerEnds, Writes, GoalPC, Aborted, Terminal,
     RunnerPC, Verdicts, Decided, Waiting, Resumed, Ended, WithStatus, Records, Answered,
     Tasks, TaskStatus, ApprovalStatus, Approvals, CancelledIn, Pending, Request, store,
     control, local, history, Enter, Leave
<1>7. \A d \in Deciders : DeciderFits(d, pc[d])'
  BY <1>2, <1>3, NothingRaises, CalmTypes, RequestMoves DEF CalmInv, ThreadsFit,
     DeciderFits, Writes, Request, store, control, local, history, Enter, Leave
<1>8. \A c \in Cancellers : CancellerFits(pc[c])'
  BY <1>2, NothingRaises DEF CalmInv, ThreadsFit, CancellerFits, Request, store, control,
     local, history, Enter, Leave
<1> QED
  BY <1>5, <1>6, <1>7, <1>8 DEF ThreadsFit

LEMMA RequestCreateCalm == ASSUME Faultless, CalmInv, RequestCreate PROVE (Records /\ ThreadsFit)'
<1>1. RunnerFits("rqCreate", goal) /\ pc[Runner] = "rqCreate"
  BY DEF CalmInv, ThreadsFit, RequestCreate
<1>2. pc'[Runner] = "rqTask" /\ (\A d \in Deciders : pc'[d] = pc[d])
      /\ (\A c \in Cancellers : pc'[c] = pc[c]) /\ pc'[Stopper] = pc[Stopper]
  <2>1. Goto(Runner, "rqTask") /\ "rqTask" \in PC /\ Runner \in Thread
    BY <1>1, NothingRaises DEF RequestCreate, PC, RunnerPC, ResolvePC, Thread, Resolve,
       CalmInv, RunnerFits, RunnerPlace
  <2> QED
    BY <2>1, OneMoves, CalmTypes, Zenon
<1>3. (\A d \in Deciders : pc[d] \in {"idle", "dcGate", "done"}) /\ ~Answered /\ ~Answered'
  <2>1. gate = {Runner}
    BY <1>1, RunnerHolds DEF GatedPC
  <2> QED
    BY <1>2, <2>1, DecidersOut DEF Answered
<1>4. /\ cur > 0 /\ approval'[cur] = "pending" /\ task = Resumed
      /\ \A a \in Approvals : a # cur => approval'[a] = approval[a]
  BY <1>1, CalmTypes, NothingRaises DEF RequestCreate, RunnerFits, RunnerAsks, RunnerShows, CalmInv
<1>5. Records'
  <2>1. UNCHANGED <<task, cur, token, cleaned, ran, ended>>
    BY NothingRaises DEF RequestCreate, control, CalmInv
  <2> QED
    BY <1>4, <2>1, CalmTypes DEF CalmInv, Records, Resumed, Approvals
<1>6. RunnerFits(pc[Runner], goal)'
  BY <1>4, <1>1, <1>2, <1>3, CalmTypes, NothingRaises DEF CalmInv, RunnerFits, RunnerPlace,
     RunnerAsks, RunnerShows, RunnerEnds, Writes, GoalPC, Aborted, Terminal, RunnerPC,
     Verdicts, Decided, Waiting, Resumed, Ended, WithStatus, Records, Answered, Tasks,
     TaskStatus, ApprovalStatus, Approvals, CancelledIn, Pending, RequestCreate, store,
     control, local, history, Enter, Leave
<1>7. \A d \in Deciders : DeciderFits(d, pc[d])'
  BY <1>2, <1>3, NothingRaises, CalmTypes DEF CalmInv, ThreadsFit, DeciderFits, Writes,
     RequestCreate, store, control, local, history, Enter, Leave
<1>8. \A c \in Cancellers : CancellerFits(pc[c])'
  BY <1>2, NothingRaises DEF CalmInv, ThreadsFit, CancellerFits, RequestCreate, store,
     control, local, history, Enter, Leave
<1> QED
  BY <1>5, <1>6, <1>7, <1>8 DEF ThreadsFit

LEMMA RequestTaskCalm == ASSUME Faultless, CalmInv, RequestTask PROVE (Records /\ ThreadsFit)'
<1>1. RunnerFits("rqTask", goal) /\ pc[Runner] = "rqTask"
  BY DEF CalmInv, ThreadsFit, RequestTask
<1>2. pc'[Runner] = "rqCommit" /\ (\A d \in Deciders : pc'[d] = pc[d])
      /\ (\A c \in Cancellers : pc'[c] = pc[c]) /\ pc'[Stopper] = pc[Stopper]
  <2>1. Goto(Runner, "rqCommit") /\ "rqCommit" \in PC /\ Runner \in Thread
    BY <1>1, NothingRaises DEF RequestTask, PC, RunnerPC, ResolvePC, Thread, Resolve,
       CalmInv, RunnerFits, RunnerPlace
  <2> QED
    BY <2>1, OneMoves, CalmTypes, Zenon
<1>3. (\A d \in Deciders : pc[d] \in {"idle", "dcGate", "done"}) /\ ~Answered /\ ~Answered'
  <2>1. gate = {Runner}
    BY <1>1, RunnerHolds DEF GatedPC
  <2> QED
    BY <1>2, <2>1, DecidersOut DEF Answered
<1>4. Records'
  BY <1>1, <1>2, <1>3, CalmTypes, NothingRaises DEF CalmInv, RunnerFits, RunnerPlace,
     RunnerAsks, RunnerShows, RunnerEnds, Writes, GoalPC, Aborted, Terminal, RunnerPC,
     Verdicts, Decided, Waiting, Resumed, Ended, WithStatus, Records, Answered, Tasks,
     TaskStatus, ApprovalStatus, Approvals, CancelledIn, Pending, RequestTask, store,
     control, local, history, Enter, Leave
<1>5. RunnerFits(pc[Runner], goal)'
  BY <1>1, <1>2, <1>3, CalmTypes, NothingRaises DEF CalmInv, RunnerFits, RunnerPlace,
     RunnerAsks, RunnerShows, RunnerEnds, Writes, GoalPC, Aborted, Terminal, RunnerPC,
     Verdicts, Decided, Waiting, Resumed, Ended, WithStatus, Records, Answered, Tasks,
     TaskStatus, ApprovalStatus, Approvals, CancelledIn, Pending, RequestTask, store,
     control, local, history, Enter, Leave
<1>6. \A d \in Deciders : DeciderFits(d, pc[d])'
  BY <1>2, <1>3, NothingRaises, CalmTypes DEF CalmInv, ThreadsFit, DeciderFits, Writes,
     RequestTask, store, control, local, history, Enter, Leave
<1>7. \A c \in Cancellers : CancellerFits(pc[c])'
  BY <1>2, NothingRaises DEF CalmInv, ThreadsFit, CancellerFits, RequestTask, store,
     control, local, history, Enter, Leave
<1> QED
  BY <1>4, <1>5, <1>6, <1>7 DEF ThreadsFit

LEMMA ToolStartCalm == ASSUME Faultless, CalmInv, ToolStart PROVE (Records /\ ThreadsFit)'
<1>1. RunnerFits("tool", goal) /\ pc[Runner] = "tool"
  BY DEF CalmInv, ThreadsFit, ToolStart
<1>2. pc'[Runner] = "run" /\ (\A d \in Deciders : pc'[d] = pc[d])
      /\ (\A c \in Cancellers : pc'[c] = pc[c]) /\ pc'[Stopper] = pc[Stopper]
  <2>1. Goto(Runner, "run") /\ "run" \in PC /\ Runner \in Thread
    BY <1>1, NothingRaises DEF ToolStart, PC, RunnerPC, ResolvePC, Thread, Resolve, CalmInv,
       RunnerFits, RunnerPlace
  <2> QED
    BY <2>1, OneMoves, CalmTypes, Zenon
<1>3. (\A d \in Deciders : pc[d] \in {"idle", "dcGate", "done"}) /\ ~Answered /\ ~Answered'
  <2>1. gate = {}
    BY DEF ToolStart, Enter, Resolve
  <2> QED
    BY <1>2, <2>1, DecidersOut DEF Answered
<1>4. ran \cup {cur} \subseteq 1 .. cur
  <2>1. cur > 0 /\ cur \in Nat /\ ran \subseteq 1 .. cur
    BY <1>1, CalmTypes DEF RunnerFits, RunnerAsks, CalmInv, Records
  <2> QED
    BY <2>1
<1>5. Records'
  BY <1>4, <1>1, <1>2, <1>3, CalmTypes, NothingRaises DEF CalmInv, RunnerFits, RunnerPlace,
     RunnerAsks, RunnerShows, RunnerEnds, Writes, GoalPC, Aborted, Terminal, RunnerPC,
     Verdicts, Decided, Waiting, Resumed, Ended, WithStatus, Records, Answered, Tasks,
     TaskStatus, ApprovalStatus, Approvals, CancelledIn, Pending, ToolStart, store, control,
     local, history, Enter, Leave
<1>6. RunnerFits(pc[Runner], goal)'
  BY <1>4, <1>1, <1>2, <1>3, CalmTypes, NothingRaises DEF CalmInv, RunnerFits, RunnerPlace,
     RunnerAsks, RunnerShows, RunnerEnds, Writes, GoalPC, Aborted, Terminal, RunnerPC,
     Verdicts, Decided, Waiting, Resumed, Ended, WithStatus, Records, Answered, Tasks,
     TaskStatus, ApprovalStatus, Approvals, CancelledIn, Pending, ToolStart, store, control,
     local, history, Enter, Leave
<1>7. \A d \in Deciders : DeciderFits(d, pc[d])'
  BY <1>2, <1>3, NothingRaises, CalmTypes DEF CalmInv, ThreadsFit, DeciderFits, Writes,
     ToolStart, store, control, local, history, Enter, Leave
<1>8. \A c \in Cancellers : CancellerFits(pc[c])'
  BY <1>2, NothingRaises DEF CalmInv, ThreadsFit, CancellerFits, ToolStart, store, control,
     local, history, Enter, Leave
<1> QED
  BY <1>5, <1>6, <1>7, <1>8 DEF ThreadsFit

LEMMA ExpireCalm == ASSUME Faultless, CalmInv, Expire PROVE (Records /\ ThreadsFit)'
<1>1. RunnerFits("checkExpired", goal) /\ pc[Runner] = "checkExpired"
  BY DEF CalmInv, ThreadsFit, Expire
<1>2. pc'[Runner] = "rsTask" /\ (\A d \in Deciders : pc'[d] = pc[d])
      /\ (\A c \in Cancellers : pc'[c] = pc[c]) /\ pc'[Stopper] = pc[Stopper]
  <2>1. Goto(Runner, "rsTask") /\ "rsTask" \in PC /\ Runner \in Thread
    BY <1>1, NothingRaises DEF Expire, PC, RunnerPC, ResolvePC, Thread, Resolve, CalmInv,
       RunnerFits, RunnerPlace
  <2> QED
    BY <2>1, OneMoves, CalmTypes, Zenon
<1>3. (\A d \in Deciders : pc[d] \in {"idle", "dcGate", "done"}) /\ ~Answered /\ ~Answered'
  <2>1. gate = {}
    BY DEF Expire, Enter, Resolve
  <2> QED
    BY <1>2, <2>1, DecidersOut DEF Answered
<1>4. task = Waiting(cur)
  BY <1>1, <1>3, CalmTypes DEF RunnerFits, RunnerShows, Expire, CalmInv, SafeInv, CancelTold, Tasks, Waiting,
     RunnerAsks
<1>5. Records'
  BY <1>4, <1>1, <1>2, <1>3, CalmTypes, NothingRaises, ExpireMoves DEF CalmInv, RunnerFits,
     RunnerPlace, RunnerAsks, RunnerShows, RunnerEnds, Writes, GoalPC, Aborted, Terminal,
     RunnerPC, Verdicts, Decided, Waiting, Resumed, Ended, WithStatus, Records, Answered,
     Tasks, TaskStatus, ApprovalStatus, Approvals, CancelledIn, Pending, Expire, store,
     control, local, history, Enter, Leave
<1>6. RunnerFits(pc[Runner], goal)'
  BY <1>4, <1>1, <1>2, <1>3, CalmTypes, NothingRaises, ExpireMoves DEF CalmInv, RunnerFits,
     RunnerPlace, RunnerAsks, RunnerShows, RunnerEnds, Writes, GoalPC, Aborted, Terminal,
     RunnerPC, Verdicts, Decided, Waiting, Resumed, Ended, WithStatus, Records, Answered,
     Tasks, TaskStatus, ApprovalStatus, Approvals, CancelledIn, Pending, Expire, store,
     control, local, history, Enter, Leave
<1>7. \A d \in Deciders : DeciderFits(d, pc[d])'
  BY <1>2, <1>3, NothingRaises, CalmTypes, ExpireMoves DEF CalmInv, ThreadsFit, DeciderFits,
     Writes, Expire, store, control, local, history, Enter, Leave
<1>8. \A c \in Cancellers : CancellerFits(pc[c])'
  BY <1>2, NothingRaises DEF CalmInv, ThreadsFit, CancellerFits, Expire, store, control,
     local, history, Enter, Leave
<1> QED
  BY <1>5, <1>6, <1>7, <1>8 DEF ThreadsFit

LEMMA ConvergeCancelCalm == ASSUME Faultless, CalmInv, ConvergeCancel PROVE (Records /\ ThreadsFit)'
<1>1. RunnerFits("cvCancel", goal) /\ pc[Runner] = "cvCancel"
  BY DEF CalmInv, ThreadsFit, ConvergeCancel
<1>2. pc'[Runner] = "artifact" /\ (\A d \in Deciders : pc'[d] = pc[d])
      /\ (\A c \in Cancellers : pc'[c] = pc[c]) /\ pc'[Stopper] = pc[Stopper]
  <2>1. Goto(Runner, "artifact") /\ "artifact" \in PC /\ Runner \in Thread
    BY <1>1, NothingRaises DEF ConvergeCancel, PC, RunnerPC, ResolvePC, Thread, Resolve,
       CalmInv, RunnerFits, RunnerPlace
  <2> QED
    BY <2>1, OneMoves, CalmTypes, Zenon
<1>3. (\A d \in Deciders : pc[d] \in {"idle", "dcGate", "done"}) /\ ~Answered /\ ~Answered'
  <2>1. gate = {}
    BY DEF ConvergeCancel, Enter, Resolve
  <2> QED
    BY <1>2, <2>1, DecidersOut DEF Answered
<1>4. Pending # {} => token
  BY <1>1, <1>3, CalmTypes DEF RunnerFits, RunnerShows, CalmInv, SafeInv, CancelTold, Tasks, Pending,
     Records, Approvals, Decided
<1>5. Records'
  BY <1>4, <1>1, <1>2, <1>3, CalmTypes, NothingRaises DEF CalmInv, RunnerFits, RunnerPlace,
     RunnerAsks, RunnerShows, RunnerEnds, Writes, GoalPC, Aborted, Terminal, RunnerPC,
     Verdicts, Decided, Waiting, Resumed, Ended, WithStatus, Records, Answered, Tasks,
     TaskStatus, ApprovalStatus, Approvals, CancelledIn, Pending, ConvergeCancel, store,
     control, local, history, Enter, Leave
<1>6. RunnerFits(pc[Runner], goal)'
  BY <1>4, <1>1, <1>2, <1>3, CalmTypes, NothingRaises DEF CalmInv, RunnerFits, RunnerPlace,
     RunnerAsks, RunnerShows, RunnerEnds, Writes, GoalPC, Aborted, Terminal, RunnerPC,
     Verdicts, Decided, Waiting, Resumed, Ended, WithStatus, Records, Answered, Tasks,
     TaskStatus, ApprovalStatus, Approvals, CancelledIn, Pending, ConvergeCancel, store,
     control, local, history, Enter, Leave
<1>7. \A d \in Deciders : DeciderFits(d, pc[d])'
  BY <1>2, <1>3, NothingRaises, CalmTypes DEF CalmInv, ThreadsFit, DeciderFits, Writes,
     ConvergeCancel, store, control, local, history, Enter, Leave
<1>8. \A c \in Cancellers : CancellerFits(pc[c])'
  BY <1>2, NothingRaises DEF CalmInv, ThreadsFit, CancellerFits, ConvergeCancel, store,
     control, local, history, Enter, Leave
<1> QED
  BY <1>5, <1>6, <1>7, <1>8 DEF ThreadsFit

LEMMA PersistTaskCalm == ASSUME Faultless, CalmInv, PersistTask PROVE (Records /\ ThreadsFit)'
<1>1. RunnerFits("taskTerminal", goal) /\ pc[Runner] = "taskTerminal"
  BY DEF CalmInv, ThreadsFit, PersistTask
<1>2. pc'[Runner] = "close" /\ (\A d \in Deciders : pc'[d] = pc[d])
      /\ (\A c \in Cancellers : pc'[c] = pc[c]) /\ pc'[Stopper] = pc[Stopper]
  <2>1. Goto(Runner, "close") /\ "close" \in PC /\ Runner \in Thread
    BY <1>1, NothingRaises DEF PersistTask, PC, RunnerPC, ResolvePC, Thread, Resolve,
       CalmInv, RunnerFits, RunnerPlace
  <2> QED
    BY <2>1, OneMoves, CalmTypes, Zenon
<1>3. (\A d \in Deciders : pc[d] \in {"idle", "dcGate", "done"}) /\ ~Answered /\ ~Answered'
  <2>1. gate = {Runner}
    BY <1>1, RunnerHolds DEF GatedPC
  <2> QED
    BY <1>2, <2>1, DecidersOut DEF Answered
<1>4. Records'
  BY <1>1, <1>2, <1>3, CalmTypes, NothingRaises DEF CalmInv, RunnerFits, RunnerPlace,
     RunnerAsks, RunnerShows, RunnerEnds, Writes, GoalPC, Aborted, Terminal, RunnerPC,
     Verdicts, Decided, Waiting, Resumed, Ended, WithStatus, Records, Answered, Tasks,
     TaskStatus, ApprovalStatus, Approvals, CancelledIn, Pending, PersistTask, store,
     control, local, history, Enter, Leave
<1>5. RunnerFits(pc[Runner], goal)'
  BY <1>1, <1>2, <1>3, CalmTypes, NothingRaises DEF CalmInv, RunnerFits, RunnerPlace,
     RunnerAsks, RunnerShows, RunnerEnds, Writes, GoalPC, Aborted, Terminal, RunnerPC,
     Verdicts, Decided, Waiting, Resumed, Ended, WithStatus, Records, Answered, Tasks,
     TaskStatus, ApprovalStatus, Approvals, CancelledIn, Pending, PersistTask, store,
     control, local, history, Enter, Leave
<1>6. \A d \in Deciders : DeciderFits(d, pc[d])'
  BY <1>2, <1>3, NothingRaises, CalmTypes DEF CalmInv, ThreadsFit, DeciderFits, Writes,
     PersistTask, store, control, local, history, Enter, Leave
<1>7. \A c \in Cancellers : CancellerFits(pc[c])'
  BY <1>2, NothingRaises DEF CalmInv, ThreadsFit, CancellerFits, PersistTask, store,
     control, local, history, Enter, Leave
<1> QED
  BY <1>4, <1>5, <1>6, <1>7 DEF ThreadsFit

LEMMA StartTerminalCalm == ASSUME Faultless, CalmInv, StartTerminal PROVE (Records /\ ThreadsFit)'
<1>1. RunnerFits("startTerminal", goal) /\ pc[Runner] = "startTerminal"
  BY DEF CalmInv, ThreadsFit, StartTerminal
<1>2. pc'[Runner] = "publish" /\ (\A d \in Deciders : pc'[d] = pc[d])
      /\ (\A c \in Cancellers : pc'[c] = pc[c]) /\ pc'[Stopper] = pc[Stopper]
  <2>1. Goto(Runner, "publish") /\ "publish" \in PC /\ Runner \in Thread
    BY <1>1, NothingRaises DEF StartTerminal, PC, RunnerPC, ResolvePC, Thread, Resolve,
       CalmInv, RunnerFits, RunnerPlace
  <2> QED
    BY <2>1, OneMoves, CalmTypes, Zenon
<1>3. (\A d \in Deciders : pc[d] \in {"idle", "dcGate", "done"}) /\ ~Answered /\ ~Answered'
  <2>1. gate = {Runner}
    BY <1>1, RunnerHolds DEF GatedPC
  <2> QED
    BY <1>2, <2>1, DecidersOut DEF Answered
<1>4. Records'
  BY <1>1, <1>2, <1>3, CalmTypes, NothingRaises DEF CalmInv, RunnerFits, RunnerPlace,
     RunnerAsks, RunnerShows, RunnerEnds, Writes, GoalPC, Aborted, Terminal, RunnerPC,
     Verdicts, Decided, Waiting, Resumed, Ended, WithStatus, Records, Answered, Tasks,
     TaskStatus, ApprovalStatus, Approvals, CancelledIn, Pending, StartTerminal, store,
     control, local, history, Enter, Leave
<1>5. RunnerFits(pc[Runner], goal)'
  BY <1>1, <1>2, <1>3, CalmTypes, NothingRaises DEF CalmInv, RunnerFits, RunnerPlace,
     RunnerAsks, RunnerShows, RunnerEnds, Writes, GoalPC, Aborted, Terminal, RunnerPC,
     Verdicts, Decided, Waiting, Resumed, Ended, WithStatus, Records, Answered, Tasks,
     TaskStatus, ApprovalStatus, Approvals, CancelledIn, Pending, StartTerminal, store,
     control, local, history, Enter, Leave
<1>6. \A d \in Deciders : DeciderFits(d, pc[d])'
  BY <1>2, <1>3, NothingRaises, CalmTypes DEF CalmInv, ThreadsFit, DeciderFits, Writes,
     StartTerminal, store, control, local, history, Enter, Leave
<1>7. \A c \in Cancellers : CancellerFits(pc[c])'
  BY <1>2, NothingRaises DEF CalmInv, ThreadsFit, CancellerFits, StartTerminal, store,
     control, local, history, Enter, Leave
<1> QED
  BY <1>4, <1>5, <1>6, <1>7 DEF ThreadsFit

LEMMA CloseCalm == ASSUME Faultless, CalmInv, Close PROVE (Records /\ ThreadsFit)'
<1>1. RunnerFits("close", goal) /\ pc[Runner] = "close"
  BY DEF CalmInv, ThreadsFit, Close
<1>2. pc'[Runner] = "publish" /\ (\A d \in Deciders : pc'[d] = pc[d])
      /\ (\A c \in Cancellers : pc'[c] = pc[c]) /\ pc'[Stopper] = pc[Stopper]
  <2>1. Goto(Runner, "publish") /\ "publish" \in PC /\ Runner \in Thread
    BY <1>1, NothingRaises DEF Close, PC, RunnerPC, ResolvePC, Thread, Resolve, CalmInv,
       RunnerFits, RunnerPlace
  <2> QED
    BY <2>1, OneMoves, CalmTypes, Zenon
<1>3. (\A d \in Deciders : pc[d] \in {"idle", "dcGate", "done"}) /\ ~Answered /\ ~Answered'
  <2>1. gate = {}
    BY DEF Close, Enter, Resolve
  <2> QED
    BY <1>2, <2>1, DecidersOut DEF Answered
<1>4. Records'
  BY <1>1, <1>2, <1>3, CalmTypes, NothingRaises DEF CalmInv, RunnerFits, RunnerPlace,
     RunnerAsks, RunnerShows, RunnerEnds, Writes, GoalPC, Aborted, Terminal, RunnerPC,
     Verdicts, Decided, Waiting, Resumed, Ended, WithStatus, Records, Answered, Tasks,
     TaskStatus, ApprovalStatus, Approvals, CancelledIn, Pending, Close, store, control,
     local, history, Enter, Leave
<1>5. RunnerFits(pc[Runner], goal)'
  BY <1>1, <1>2, <1>3, CalmTypes, NothingRaises DEF CalmInv, RunnerFits, RunnerPlace,
     RunnerAsks, RunnerShows, RunnerEnds, Writes, GoalPC, Aborted, Terminal, RunnerPC,
     Verdicts, Decided, Waiting, Resumed, Ended, WithStatus, Records, Answered, Tasks,
     TaskStatus, ApprovalStatus, Approvals, CancelledIn, Pending, Close, store, control,
     local, history, Enter, Leave
<1>6. \A d \in Deciders : DeciderFits(d, pc[d])'
  BY <1>2, <1>3, NothingRaises, CalmTypes DEF CalmInv, ThreadsFit, DeciderFits, Writes,
     Close, store, control, local, history, Enter, Leave
<1>7. \A c \in Cancellers : CancellerFits(pc[c])'
  BY <1>2, NothingRaises DEF CalmInv, ThreadsFit, CancellerFits, Close, store, control,
     local, history, Enter, Leave
<1> QED
  BY <1>4, <1>5, <1>6, <1>7 DEF ThreadsFit

LEMMA PublishCalm == ASSUME Faultless, CalmInv, Publish PROVE (Records /\ ThreadsFit)'
<1>1. RunnerFits("publish", goal) /\ pc[Runner] = "publish"
  BY DEF CalmInv, ThreadsFit, Publish
<1>2. pc'[Runner] = "release" /\ (\A d \in Deciders : pc'[d] = pc[d])
      /\ (\A c \in Cancellers : pc'[c] = pc[c]) /\ pc'[Stopper] = pc[Stopper]
  <2>1. Goto(Runner, "release") /\ "release" \in PC /\ Runner \in Thread
    BY <1>1, NothingRaises DEF Publish, PC, RunnerPC, ResolvePC, Thread, Resolve, CalmInv,
       RunnerFits, RunnerPlace
  <2> QED
    BY <2>1, OneMoves, CalmTypes, Zenon
<1>3. Answered' <=> Answered
  BY <1>2 DEF Answered
<1>4. Records'
  BY <1>1, <1>2, <1>3, CalmTypes, NothingRaises DEF CalmInv, RunnerFits, RunnerPlace,
     RunnerAsks, RunnerShows, RunnerEnds, Writes, GoalPC, Aborted, Terminal, RunnerPC,
     Verdicts, Decided, Waiting, Resumed, Ended, WithStatus, Records, Answered, Tasks,
     TaskStatus, ApprovalStatus, Approvals, CancelledIn, Pending, Publish, store, control,
     local, history, Enter, Leave
<1>5. RunnerFits(pc[Runner], goal)'
  BY <1>1, <1>2, <1>3, CalmTypes, NothingRaises DEF CalmInv, RunnerFits, RunnerPlace,
     RunnerAsks, RunnerShows, RunnerEnds, Writes, GoalPC, Aborted, Terminal, RunnerPC,
     Verdicts, Decided, Waiting, Resumed, Ended, WithStatus, Records, Answered, Tasks,
     TaskStatus, ApprovalStatus, Approvals, CancelledIn, Pending, Publish, store, control,
     local, history, Enter, Leave
<1>6. \A d \in Deciders : DeciderFits(d, pc[d])'
  BY <1>2, <1>3, NothingRaises, CalmTypes DEF CalmInv, ThreadsFit, DeciderFits, Writes,
     Waiting, Resumed, Publish, store, control, local, history, Enter, Leave
<1>7. \A c \in Cancellers : CancellerFits(pc[c])'
  BY <1>2, NothingRaises DEF CalmInv, ThreadsFit, CancellerFits, Publish, store, control,
     local, history, Enter, Leave
<1> QED
  BY <1>4, <1>5, <1>6, <1>7 DEF ThreadsFit

LEMMA ReleaseCalm == ASSUME Faultless, CalmInv, Release PROVE (Records /\ ThreadsFit)'
<1>1. RunnerFits("release", goal) /\ pc[Runner] = "release"
  BY DEF CalmInv, ThreadsFit, Release
<1>2. pc'[Runner] = "done" /\ (\A d \in Deciders : pc'[d] = pc[d])
      /\ (\A c \in Cancellers : pc'[c] = pc[c]) /\ pc'[Stopper] = pc[Stopper]
  <2>1. Goto(Runner, "done") /\ "done" \in PC /\ Runner \in Thread
    BY <1>1, NothingRaises DEF Release, PC, RunnerPC, ResolvePC, Thread, Resolve, CalmInv,
       RunnerFits, RunnerPlace
  <2> QED
    BY <2>1, OneMoves, CalmTypes, Zenon
<1>3. Answered' <=> Answered
  BY <1>2 DEF Answered
<1>4. Records'
  BY <1>1, <1>2, <1>3, CalmTypes, NothingRaises DEF CalmInv, RunnerFits, RunnerPlace,
     RunnerAsks, RunnerShows, RunnerEnds, Writes, GoalPC, Aborted, Terminal, RunnerPC,
     Verdicts, Decided, Waiting, Resumed, Ended, WithStatus, Records, Answered, Tasks,
     TaskStatus, ApprovalStatus, Approvals, CancelledIn, Pending, Release, store, control,
     local, history, Enter, Leave
<1>5. RunnerFits(pc[Runner], goal)'
  BY <1>1, <1>2, <1>3, CalmTypes, NothingRaises DEF CalmInv, RunnerFits, RunnerPlace,
     RunnerAsks, RunnerShows, RunnerEnds, Writes, GoalPC, Aborted, Terminal, RunnerPC,
     Verdicts, Decided, Waiting, Resumed, Ended, WithStatus, Records, Answered, Tasks,
     TaskStatus, ApprovalStatus, Approvals, CancelledIn, Pending, Release, store, control,
     local, history, Enter, Leave
<1>6. \A d \in Deciders : DeciderFits(d, pc[d])'
  BY <1>2, <1>3, NothingRaises, CalmTypes DEF CalmInv, ThreadsFit, DeciderFits, Writes,
     Waiting, Resumed, Release, store, control, local, history, Enter, Leave
<1>7. \A c \in Cancellers : CancellerFits(pc[c])'
  BY <1>2, NothingRaises DEF CalmInv, ThreadsFit, CancellerFits, Release, store, control,
     local, history, Enter, Leave
<1> QED
  BY <1>4, <1>5, <1>6, <1>7 DEF ThreadsFit

-----------------------------------------------------------------------------
(* The three writes of a decision, by an API thread or by the Runner.      *)

\* The thread in a gated section is alone in one.
LEMMA GateHeld ==
  ASSUME CalmInv, NEW t \in Thread, pc[t] \in GatedPC
  PROVE  /\ gate = {t} /\ \A u \in Thread : u # t => pc[u] \notin GatedPC
  BY HolderIsAlone DEF CalmInv, SafeInv, GateInv, GateExclusive

\* What a thread half way through a decision may rely on.
LEMMA Resolver ==
  ASSUME CalmInv, NEW t \in {Runner} \cup Deciders, pc[t] \in {"rsTask", "rsApproval", "rsCommit"}
  PROVE  /\ Writes(t, pc[t]) /\ t \in Thread /\ gate = {t} /\ cur > 0
         /\ \A u \in Thread : u # t => pc[u] \notin GatedPC
         /\ RunnerFits(pc[Runner], goal)
         /\ \A d \in Deciders : DeciderFits(d, pc[d])
         /\ pc[t] # "rsCommit" => pc[Runner] \in {"wait", "checkExpired", "rsTask", "rsApproval"}
         /\ t # Runner => pc[Runner] \notin {"rsTask", "rsApproval", "rsCommit"}
<1>1. Writes(t, pc[t]) /\ RunnerFits(pc[Runner], goal) /\ \A d \in Deciders : DeciderFits(d, pc[d])
  BY DEF CalmInv, ThreadsFit, DeciderFits, RunnerFits, RunnerShows
<1>2. t \in Thread /\ Runner \in Thread /\ pc[t] \in GatedPC
  BY DEF Thread, GatedPC, ResolvePC
<1>3. gate = {t} /\ \A u \in Thread : u # t => pc[u] \notin GatedPC
  BY <1>2, GateHeld
<1>4. pc[t] # "rsCommit" => pc[Runner] \in {"wait", "checkExpired", "rsTask", "rsApproval"}
  BY <1>1 DEF RunnerFits, RunnerShows, Answered
<1> QED
  BY <1>1, <1>2, <1>3, <1>4 DEF Writes, GatedPC, ResolvePC

\* The Task is written first: it runs, and its Approval is still pending.
LEMMA ResolveTaskCalm ==
  ASSUME Faultless, CalmInv, NEW t \in {Runner} \cup Deciders, ResolveTask(t)
  PROVE  (Records /\ ThreadsFit)'
<1>1. /\ pc[t] = "rsTask" /\ Writes(t, "rsTask") /\ t \in Thread /\ cur > 0
      /\ \A u \in Thread : u # t => pc[u] \notin GatedPC
      /\ RunnerFits(pc[Runner], goal)
      /\ t # Runner => pc[Runner] \notin {"rsTask", "rsApproval", "rsCommit"}
      /\ pc[Runner] \in {"wait", "checkExpired", "rsTask", "rsApproval"}
  BY Resolver DEF ResolveTask
<1>2. ~Raise /\ ~closed
  BY <1>1, NothingRaises DEF CalmInv, RunnerFits, RunnerPlace
<1>3. /\ task = Waiting(cur) /\ task' = Resumed
      /\ UNCHANGED <<cur, token, closed, cleaned, ran, ended, goal, move, approval>>
  BY <1>2, <1>1, CalmTypes DEF ResolveTask, Writes, control, local, history
<1>4. Goto(t, "rsApproval")
  BY <1>2, <1>1 DEF ResolveTask
<1>5. /\ pc'[t] = "rsApproval" /\ \A u \in Thread : u # t => pc'[u] = pc[u]
      /\ \A c \in Cancellers : pc'[c] = pc[c]
      /\ pc'[Stopper] = pc[Stopper]
      /\ t # Runner => pc'[Runner] = pc[Runner]
      /\ \A d \in Deciders : d # t => pc'[d] = pc[d]
  <2>1. "rsApproval" \in PC
    BY DEF PC, RunnerPC, ResolvePC
  <2> QED
    BY <1>1, <1>4, <2>1, OneMoves, CalmTypes, ThreadsDiffer DEF Thread
<1>6. \A d \in Deciders : d # t => pc[d] \in {"idle", "dcGate", "done"}
  <2>1. \A d \in Deciders : d # t => pc[d] \notin {"rsTask", "rsApproval", "rsCommit"}
    BY <1>1 DEF GatedPC, ResolvePC, Thread
  <2> QED
    BY <2>1 DEF CalmInv, ThreadsFit, DeciderFits
<1>7. /\ (t # Runner <=> Answered')
      /\ \A d \in Deciders : pc'[d] # "rsTask"
  BY <1>1, <1>5, <1>6, ThreadsDiffer DEF Answered
<1>8. task'.status = "running" /\ task'.pending = 0
  BY <1>3 DEF Resumed
<1>9. Records'
  BY <1>1, <1>3, <1>8, <1>5, CalmTypes DEF CalmInv, Records, RunnerFits, RunnerPlace,
     Waiting, Resumed, Terminal, Verdicts, Decided
<1>10. RunnerFits(pc[Runner], goal)'
  <2>1. RunnerPlace(pc[Runner])'
    <3>1. CASE t = Runner
      BY <3>1, <1>1, <1>3, <1>4, <1>7, <1>8, <1>5, CalmTypes, ThreadsDiffer DEF RunnerFits,
         RunnerPlace, RunnerPC, Verdicts, Decided, Waiting, Resumed, Writes
    <3>2. CASE t # Runner
      BY <3>2, <1>1, <1>3, <1>4, <1>7, <1>8, <1>5, CalmTypes DEF RunnerFits, RunnerPlace,
         RunnerPC, Verdicts, Decided, Waiting, Resumed, Writes
    <3> QED
      BY <3>1, <3>2
  <2>2. RunnerAsks(pc[Runner])'
    <3>1. CASE t = Runner
      BY <3>1, <1>1, <1>3, <1>4, <1>7, <1>8, <1>5, CalmTypes, ThreadsDiffer DEF RunnerFits,
         RunnerAsks, RunnerPC, Verdicts, Decided, Waiting, Resumed, Writes
    <3>2. CASE t # Runner
      BY <3>2, <1>1, <1>3, <1>4, <1>7, <1>8, <1>5, CalmTypes DEF RunnerFits, RunnerAsks,
         RunnerPC, Verdicts, Decided, Waiting, Resumed, Writes
    <3> QED
      BY <3>1, <3>2
  <2>3. RunnerShows(pc[Runner])'
    <3>1. CASE t = Runner
      BY <3>1, <1>1, <1>3, <1>4, <1>7, <1>8, <1>5, CalmTypes, ThreadsDiffer DEF RunnerFits,
         RunnerShows, RunnerPC, Verdicts, Decided, Waiting, Resumed, Writes, RunnerAsks
    <3>2. CASE t # Runner
      BY <3>2, <1>1, <1>3, <1>4, <1>7, <1>8, <1>5, CalmTypes DEF RunnerFits, RunnerShows,
         RunnerPC, Verdicts, Decided, Waiting, Resumed, Writes, RunnerAsks
    <3> QED
      BY <3>1, <3>2
  <2>4. RunnerEnds(pc[Runner], goal)'
    BY <1>1, <1>3, <1>4, <1>8, <1>5, ThreadsDiffer DEF RunnerFits, RunnerEnds, GoalPC,
       Terminal, Resumed, Waiting, Writes
  <2> QED
    BY <2>1, <2>2, <2>3, <2>4 DEF RunnerFits
<1>11. \A d \in Deciders : DeciderFits(d, pc[d])'
  <2>1. ASSUME NEW d \in Deciders, d # t PROVE DeciderFits(d, pc[d])'
    BY <2>1, <1>3, <1>5, <1>6 DEF CalmInv, ThreadsFit, DeciderFits, Writes
  <2>2. ASSUME t \in Deciders PROVE DeciderFits(t, pc[t])'
    BY <2>2, <1>1, <1>3, <1>4, <1>5, ThreadsDiffer DEF DeciderFits, Writes, Resumed, Waiting
  <2> QED
    BY <2>1, <2>2
<1>12. \A c \in Cancellers : CancellerFits(pc[c])'
  BY <1>3, <1>5 DEF CalmInv, ThreadsFit, CancellerFits
<1> QED
  BY <1>9, <1>10, <1>11, <1>12 DEF ThreadsFit

\* Then the Approval: the question is answered.
LEMMA ResolveApprovalCalm ==
  ASSUME Faultless, CalmInv, NEW t \in {Runner} \cup Deciders, ResolveApproval(t)
  PROVE  (Records /\ ThreadsFit)'
<1>1. /\ pc[t] = "rsApproval" /\ Writes(t, "rsApproval") /\ t \in Thread /\ cur > 0
      /\ \A u \in Thread : u # t => pc[u] \notin GatedPC
      /\ RunnerFits(pc[Runner], goal)
      /\ t # Runner => pc[Runner] \notin {"rsTask", "rsApproval", "rsCommit"}
      /\ pc[Runner] \in {"wait", "checkExpired", "rsTask", "rsApproval"}
  BY Resolver DEF ResolveApproval
<1>2. ~Raise /\ ~closed
  BY <1>1, NothingRaises DEF CalmInv, RunnerFits, RunnerPlace
<1>3. /\ task = Resumed /\ approval[cur] = "pending"
      /\ approval'[cur] = move[t].to /\ approval'[cur] \in Verdicts
      /\ \A a \in Approvals : a # cur => approval'[a] = approval[a]
      /\ UNCHANGED <<cur, token, closed, cleaned, ran, ended, goal, move, task>>
  BY <1>2, <1>1, CalmTypes DEF ResolveApproval, Writes, control, local, history
<1>4. Goto(t, "rsCommit")
  BY <1>2, <1>1 DEF ResolveApproval
<1>5. /\ pc'[t] = "rsCommit" /\ \A u \in Thread : u # t => pc'[u] = pc[u]
      /\ \A c \in Cancellers : pc'[c] = pc[c]
      /\ pc'[Stopper] = pc[Stopper]
      /\ t # Runner => pc'[Runner] = pc[Runner]
      /\ \A d \in Deciders : d # t => pc'[d] = pc[d]
  <2>1. "rsCommit" \in PC
    BY DEF PC, RunnerPC, ResolvePC
  <2> QED
    BY <1>1, <1>4, <2>1, OneMoves, CalmTypes, ThreadsDiffer DEF Thread
<1>6. \A d \in Deciders : d # t => pc[d] \in {"idle", "dcGate", "done"}
  <2>1. \A d \in Deciders : d # t => pc[d] \notin {"rsTask", "rsApproval", "rsCommit"}
    BY <1>1 DEF GatedPC, ResolvePC, Thread
  <2> QED
    BY <2>1 DEF CalmInv, ThreadsFit, DeciderFits
<1>7. /\ ~Answered'
      /\ \A d \in Deciders : pc'[d] # "rsTask"
  BY <1>1, <1>5, <1>6, ThreadsDiffer DEF Answered
<1>8. task'.status = "running" /\ task'.pending = 0
  BY <1>3 DEF Resumed
<1>9. Records'
  BY <1>1, <1>3, <1>8, <1>5, CalmTypes DEF CalmInv, Records, Waiting, Resumed, Terminal,
     Verdicts, Decided
<1>10. RunnerFits(pc[Runner], goal)'
  <2>1. RunnerPlace(pc[Runner])'
    <3>1. CASE t = Runner
      BY <3>1, <1>1, <1>3, <1>4, <1>7, <1>8, <1>5, CalmTypes, ThreadsDiffer DEF RunnerFits,
         RunnerPlace, RunnerPC, Verdicts, Decided, Waiting, Resumed, Writes
    <3>2. CASE t # Runner
      BY <3>2, <1>1, <1>3, <1>4, <1>7, <1>8, <1>5, CalmTypes DEF RunnerFits, RunnerPlace,
         RunnerPC, Verdicts, Decided, Waiting, Resumed, Writes
    <3> QED
      BY <3>1, <3>2
  <2>2. RunnerAsks(pc[Runner])'
    <3>1. CASE t = Runner
      BY <3>1, <1>1, <1>3, <1>4, <1>7, <1>8, <1>5, CalmTypes, ThreadsDiffer DEF RunnerFits,
         RunnerAsks, RunnerPC, Verdicts, Decided, Waiting, Resumed, Writes
    <3>2. CASE t # Runner
      BY <3>2, <1>1, <1>3, <1>4, <1>7, <1>8, <1>5, CalmTypes DEF RunnerFits, RunnerAsks,
         RunnerPC, Verdicts, Decided, Waiting, Resumed, Writes
    <3> QED
      BY <3>1, <3>2
  <2>3. RunnerShows(pc[Runner])'
    <3>1. CASE t = Runner
      BY <3>1, <1>1, <1>3, <1>4, <1>7, <1>8, <1>5, CalmTypes, ThreadsDiffer DEF RunnerFits,
         RunnerShows, RunnerPC, Verdicts, Decided, Waiting, Resumed, Writes, RunnerAsks
    <3>2. CASE t # Runner
      BY <3>2, <1>1, <1>3, <1>4, <1>7, <1>8, <1>5, CalmTypes DEF RunnerFits, RunnerShows,
         RunnerPC, Verdicts, Decided, Waiting, Resumed, Writes, RunnerAsks
    <3> QED
      BY <3>1, <3>2
  <2>4. RunnerEnds(pc[Runner], goal)'
    BY <1>1, <1>3, <1>4, <1>8, <1>5, ThreadsDiffer DEF RunnerFits, RunnerEnds, GoalPC,
       Terminal, Resumed, Waiting, Writes
  <2> QED
    BY <2>1, <2>2, <2>3, <2>4 DEF RunnerFits
<1>11. \A d \in Deciders : DeciderFits(d, pc[d])'
  <2>1. ASSUME NEW d \in Deciders, d # t PROVE DeciderFits(d, pc[d])'
    BY <2>1, <1>3, <1>5, <1>6 DEF CalmInv, ThreadsFit, DeciderFits, Writes
  <2>2. ASSUME t \in Deciders PROVE DeciderFits(t, pc[t])'
    BY <2>2, <1>1, <1>3, <1>4, <1>5, ThreadsDiffer DEF DeciderFits, Writes, Resumed, Waiting
  <2> QED
    BY <2>1, <2>2
<1>12. \A c \in Cancellers : CancellerFits(pc[c])'
  BY <1>3, <1>5 DEF CalmInv, ThreadsFit, CancellerFits
<1> QED
  BY <1>9, <1>10, <1>11, <1>12 DEF ThreadsFit

\* Then the journal, and the gate is free.
LEMMA ResolveCommitCalm ==
  ASSUME Faultless, CalmInv, NEW t \in {Runner} \cup Deciders, ResolveCommit(t)
  PROVE  (Records /\ ThreadsFit)'
<1>1. /\ pc[t] = "rsCommit" /\ Writes(t, "rsCommit") /\ t \in Thread /\ cur > 0
      /\ \A u \in Thread : u # t => pc[u] \notin GatedPC
      /\ RunnerFits(pc[Runner], goal)
      /\ t # Runner => pc[Runner] \notin {"rsTask", "rsApproval", "rsCommit"}
  BY Resolver DEF ResolveCommit
<1>2. ~Raise
  BY <1>1, NothingRaises DEF CalmInv, RunnerFits, RunnerPlace
<1>3. /\ task = Resumed
      /\ UNCHANGED <<cur, token, closed, cleaned, ran, ended, goal, move, task, approval>>
  BY <1>2, <1>1, CalmTypes DEF ResolveCommit, Writes, control, local, history
<1>4. PICK p \in {"run", "done"} : Goto(t, p) /\ p = IF t = Runner THEN "run" ELSE "done"
  BY <1>2 DEF ResolveCommit
<1>5. /\ pc'[t] = p /\ \A u \in Thread : u # t => pc'[u] = pc[u]
      /\ \A c \in Cancellers : pc'[c] = pc[c]
      /\ pc'[Stopper] = pc[Stopper]
      /\ t # Runner => pc'[Runner] = pc[Runner]
      /\ \A d \in Deciders : d # t => pc'[d] = pc[d]
  <2>1. p \in PC
    BY DEF PC, RunnerPC, ResolvePC
  <2> QED
    BY <1>1, <1>4, <2>1, OneMoves, CalmTypes, ThreadsDiffer DEF Thread
<1>6. \A d \in Deciders : d # t => pc[d] \in {"idle", "dcGate", "done"}
  <2>1. \A d \in Deciders : d # t => pc[d] \notin {"rsTask", "rsApproval", "rsCommit"}
    BY <1>1 DEF GatedPC, ResolvePC, Thread
  <2> QED
    BY <2>1 DEF CalmInv, ThreadsFit, DeciderFits
<1>7. /\ ~Answered' /\ ~Answered
      /\ \A d \in Deciders : pc'[d] # "rsTask"
  BY <1>1, <1>5, <1>6, ThreadsDiffer DEF Answered
<1>8. task'.status = "running" /\ task'.pending = 0
  BY <1>3 DEF Resumed
<1>9. Records'
  BY <1>1, <1>3, <1>5 DEF CalmInv, Records
<1>10. RunnerFits(pc[Runner], goal)'
  <2>1. RunnerPlace(pc[Runner])'
    <3>1. CASE t = Runner
      BY <3>1, <1>1, <1>3, <1>4, <1>7, <1>8, <1>5, CalmTypes, ThreadsDiffer DEF RunnerFits,
         RunnerPlace, RunnerPC, Verdicts, Decided, Waiting, Resumed, Writes
    <3>2. CASE t # Runner
      BY <3>2, <1>1, <1>3, <1>4, <1>7, <1>8, <1>5, CalmTypes DEF RunnerFits, RunnerPlace,
         RunnerPC, Verdicts, Decided, Waiting, Resumed, Writes
    <3> QED
      BY <3>1, <3>2
  <2>2. RunnerAsks(pc[Runner])'
    <3>1. CASE t = Runner
      BY <3>1, <1>1, <1>3, <1>4, <1>7, <1>8, <1>5, CalmTypes, ThreadsDiffer DEF RunnerFits,
         RunnerAsks, RunnerPC, Verdicts, Decided, Waiting, Resumed, Writes
    <3>2. CASE t # Runner
      BY <3>2, <1>1, <1>3, <1>4, <1>7, <1>8, <1>5, CalmTypes DEF RunnerFits, RunnerAsks,
         RunnerPC, Verdicts, Decided, Waiting, Resumed, Writes
    <3> QED
      BY <3>1, <3>2
  <2>3. RunnerShows(pc[Runner])'
    <3>1. CASE t = Runner
      BY <3>1, <1>1, <1>3, <1>4, <1>7, <1>8, <1>5, CalmTypes, ThreadsDiffer DEF RunnerFits,
         RunnerShows, RunnerPC, Verdicts, Decided, Waiting, Resumed, Writes, RunnerAsks
    <3>2. CASE t # Runner
      BY <3>2, <1>1, <1>3, <1>4, <1>7, <1>8, <1>5, CalmTypes DEF RunnerFits, RunnerShows,
         RunnerPC, Verdicts, Decided, Waiting, Resumed, Writes, RunnerAsks
    <3> QED
      BY <3>1, <3>2
  <2>4. RunnerEnds(pc[Runner], goal)'
    BY <1>1, <1>3, <1>4, <1>8, <1>5, ThreadsDiffer DEF RunnerFits, RunnerEnds, GoalPC,
       Terminal, Resumed, Waiting, Writes
  <2> QED
    BY <2>1, <2>2, <2>3, <2>4 DEF RunnerFits
<1>11. \A d \in Deciders : DeciderFits(d, pc[d])'
  <2>1. ASSUME NEW d \in Deciders, d # t PROVE DeciderFits(d, pc[d])'
    BY <2>1, <1>3, <1>5, <1>6 DEF CalmInv, ThreadsFit, DeciderFits, Writes
  <2>2. ASSUME t \in Deciders PROVE DeciderFits(t, pc[t])'
    BY <2>2, <1>1, <1>3, <1>4, <1>5, ThreadsDiffer DEF DeciderFits, Writes, Resumed, Waiting
  <2> QED
    BY <2>1, <2>2
<1>12. \A c \in Cancellers : CancellerFits(pc[c])'
  BY <1>3, <1>5 DEF CalmInv, ThreadsFit, CancellerFits
<1> QED
  BY <1>9, <1>10, <1>11, <1>12 DEF ThreadsFit

-----------------------------------------------------------------------------
(* The API threads: decisions and cancellations.                           *)

\* Another thread moves on without a change of the records the Runner looks at.
LEMMA ApiMoves ==
  ASSUME CalmInv, NEW t \in Thread \ {Runner}, NEW p, p \in PC, Goto(t, p),
         task' = task, approval' = approval, cur' = cur, token' = token, closed' = closed,
         cleaned' = cleaned, ran' = ran, ended' = ended, goal' = goal,
         \A u \in Thread : u # t => move'[u] = move[u],
         pc[t] \notin {"rsTask", "rsApproval"}, p # "rsApproval",
         p = "rsTask" => pc[Runner] \in {"wait", "checkExpired"},
         t \in Deciders => DeciderFits(t, p)', t \in Cancellers => CancellerFits(p)
  PROVE  (Records /\ ThreadsFit)'
<1>1. Runner \in Thread /\ Stopper \in Thread /\ Deciders \subseteq Thread /\ Cancellers \subseteq Thread
  BY DEF Thread
<1>2. /\ pc'[t] = p /\ pc'[Runner] = pc[Runner]
      /\ \A u \in Thread : u # t => pc'[u] = pc[u]
  BY <1>1, OneMoves, CalmTypes, Zenon
<1>3. Records'
  BY <1>2 DEF CalmInv, Records
<1>4. Answered' <=> Answered
  BY <1>1, <1>2 DEF Answered
<1>5. (\E d \in Deciders : pc'[d] = "rsTask") => p = "rsTask" \/ \E d \in Deciders : pc[d] = "rsTask"
  BY <1>1, <1>2
<1>6. RunnerFits(pc[Runner], goal)'
  <2>1. RunnerFits(pc[Runner], goal)
    BY DEF CalmInv, ThreadsFit
  <2>2. RunnerShows(pc[Runner])'
    BY <1>1, <1>2, <1>4, <1>5, <2>1 DEF RunnerFits, RunnerShows, Writes, Waiting, Resumed
  <2> QED
    BY <1>2, <2>1, <2>2 DEF RunnerFits, RunnerPlace, RunnerAsks, RunnerEnds
<1>7. \A d \in Deciders : DeciderFits(d, pc[d])'
  <2>1. ASSUME NEW d \in Deciders, d # t PROVE DeciderFits(d, pc[d])'
    BY <2>1, <1>1, <1>2 DEF CalmInv, ThreadsFit, DeciderFits, Writes, Waiting, Resumed
  <2>2. ASSUME t \in Deciders PROVE DeciderFits(t, pc[t])'
    BY <2>2, <1>2 DEF DeciderFits, Writes, Waiting, Resumed
  <2> QED
    BY <2>1, <2>2
<1>8. \A c \in Cancellers : CancellerFits(pc[c])'
  BY <1>1, <1>2 DEF CalmInv, ThreadsFit, CancellerFits
<1> QED
  BY <1>3, <1>6, <1>7, <1>8 DEF ThreadsFit

\* A decider inside the gate has found the question the Task waits for.
LEMMA DecideGateCalm ==
  ASSUME Faultless, CalmInv, NEW d \in Deciders, DecideGate(d) PROVE (Records /\ ThreadsFit)'
<1>1. d \in Thread \ {Runner, Stopper} /\ d \notin Cancellers /\ Runner \in Thread /\ Stopper \in Thread
  BY ThreadsDiffer DEF Thread
<1>2. ~Raise
  BY NothingRaises DEF CalmInv
<1>3. /\ pc[d] = "dcGate" /\ approval[move[d].apr] = "pending" /\ gate = {}
      /\ task.status \notin {"cancel_requested", "cancelled", "failed", "completed"}
      /\ Goto(d, "rsTask") /\ Moving(d, move[d].apr, move[d].to, TRUE)
  BY <1>2 DEF DecideGate, Resolve, Enter
<1>4. move[d].apr \in Approvals /\ move[d].to \in {"approved", "rejected"}
  BY <1>3 DEF CalmInv, ThreadsFit, DeciderFits
<1>5. move[d].apr = cur /\ cur > 0
  BY <1>3, <1>4, CalmTypes DEF CalmInv, Records, Approvals, Decided
<1>6. /\ \A u \in Thread : u # d => move'[u] = move[u]
      /\ move'[d].apr = cur /\ move'[d].to \in {"approved", "rejected"}
  BY <1>1, <1>3, <1>4, <1>5, CalmTypes DEF Moving
<1>7. pc[Runner] \notin GatedPC /\ ~Answered
  BY <1>1, <1>3, HolderIsAlone, DecidersOut DEF CalmInv
<1>8. RunnerFits(pc[Runner], goal)
  BY DEF CalmInv, ThreadsFit
<1>9. task = Waiting(cur) /\ pc[Runner] \in {"wait", "checkExpired"}
  <2>1. task.pending = cur /\ task.status = "waiting"
    BY <1>3, <1>5, <1>7, <1>8 DEF RunnerFits, RunnerShows, GatedPC, ResolvePC
  <2>2. pc[Runner] \in {"wait", "checkExpired"}
    BY <1>7, <1>8, <2>1 DEF RunnerFits, RunnerShows, GatedPC, ResolvePC
  <2> QED
    BY <2>1, <2>2, CalmTypes DEF Tasks, Waiting
<1>10. UNCHANGED <<task, approval, cur, token, closed, cleaned, ran, ended, goal>>
  BY DEF DecideGate
<1>11. DeciderFits(d, "rsTask")'
  BY <1>3, <1>5, <1>6, <1>9, <1>10 DEF DeciderFits, Writes, Verdicts, Waiting
<1>12. "rsTask" \in PC
  BY DEF PC, ResolvePC
<1> QED
  BY <1>1, <1>3, <1>6, <1>9, <1>10, <1>11, <1>12, ApiMoves

\* A decider before the gate has only chosen; a refused one leaves.
LEMMA DecideCalm ==
  ASSUME Faultless, CalmInv, NEW d \in Deciders,
         DecideRefused(d) \/ \E a \in Approvals, s \in {"approved", "rejected"} : Decide(d, a, s)
  PROVE  (Records /\ ThreadsFit)'
<1>1. d \in Thread \ {Runner, Stopper} /\ d \notin Cancellers
  BY ThreadsDiffer DEF Thread
<1>2. "dcGate" \in PC /\ "done" \in PC
  BY DEF PC
<1>3. CASE DecideRefused(d)
  <2>1. DeciderFits(d, "done")'
    BY DEF DeciderFits, Writes
  <2> QED
    BY <1>1, <1>2, <1>3, <2>1, ApiMoves DEF DecideRefused, store, control, history
<1>4. ASSUME NEW a \in Approvals, NEW s \in {"approved", "rejected"}, Decide(d, a, s)
      PROVE  (Records /\ ThreadsFit)'
  <2>1. /\ \A u \in Thread : u # d => move'[u] = move[u]
        /\ move'[d].apr = a /\ move'[d].to = s
    BY <1>1, <1>4, CalmTypes DEF Decide, Choice
  <2>2. DeciderFits(d, "dcGate")'
    BY <2>1 DEF DeciderFits, Writes
  <2>3. Goto(d, "dcGate") /\ pc[d] = "idle"
        /\ UNCHANGED <<task, approval, cur, token, closed, cleaned, ran, ended, goal>>
    BY <1>4 DEF Decide, store, control, history
  <2> QED
    BY <1>1, <1>2, <2>1, <2>2, <2>3, ApiMoves
<1> QED
  BY <1>3, <1>4

\* A cancelling thread's first and last steps leave the records alone.
LEMMA CancelCalm ==
  ASSUME Faultless, CalmInv, NEW c \in {Stopper} \cup Cancellers, Cancel(c) \/ CancelShell(c)
  PROVE  (Records /\ ThreadsFit)'
<1>1. c \in Thread \ {Runner} /\ c \notin Deciders
  BY ThreadsDiffer DEF Thread
<1>2. /\ {"cnGate", "sdWait", "done"} \subseteq PC
      /\ CancellerFits("cnGate") /\ CancellerFits("done") /\ Stopper \notin Cancellers
  BY ThreadsDiffer DEF PC, CancelPC, StopPC, CancellerFits
<1>3. CASE Cancel(c)
  BY <1>1, <1>2, <1>3, ApiMoves DEF Cancel, store, control, history
<1>4. CASE CancelShell(c)
  <2>1. cleaned' = cleaned
    BY <1>4, NothingRaises DEF CancelShell, CalmInv, Records
  <2>2. Goto(c, IF c = Stopper THEN "sdWait" ELSE "done") /\ pc[c] = "cnShell"
        /\ UNCHANGED <<task, approval, cur, token, closed, ran, ended, goal, move>>
    BY <1>1, <1>4, NothingRaises DEF CancelShell, CalmInv, store
  <2> QED
    BY <1>1, <1>2, <2>1, <2>2, ApiMoves
<1> QED
  BY <1>3, <1>4

\* What a cancelling thread finds in the gate: no decision and no request is half written.
LEMMA CancelMoves ==
  ASSUME CalmInv, NEW c \in {Stopper} \cup Cancellers, NEW p, p \in PC, Goto(c, p), gate = {}
  PROVE  /\ pc'[Runner] = pc[Runner] /\ pc'[c] = p
         /\ \A d \in Deciders : pc'[d] = pc[d] /\ pc[d] \in {"idle", "dcGate", "done"}
         /\ \A b \in Cancellers : b # c => pc'[b] = pc[b]
         /\ ~Answered /\ ~Answered'
         /\ pc[Runner] \notin GatedPC /\ RunnerFits(pc[Runner], goal)
<1>1. c \in Thread /\ c # Runner /\ Runner \in Thread
  BY ThreadsDiffer DEF Thread
<1>2. /\ pc'[c] = p /\ pc'[Runner] = pc[Runner]
      /\ \A d \in Deciders : pc'[d] = pc[d]
      /\ \A b \in Cancellers : b # c => pc'[b] = pc[b]
  <2>1. pc'[c] = p /\ \A u \in Thread : u # c => pc'[u] = pc[u]
    BY <1>1, OneMoves, CalmTypes, Zenon
  <2> QED
    BY <1>1, <2>1, ThreadsDiffer DEF Thread
<1>3. (\A d \in Deciders : pc[d] \in {"idle", "dcGate", "done"}) /\ ~Answered
  BY DecidersOut
<1>4. ~Answered'
  BY <1>2, <1>3 DEF Answered
<1>5. pc[Runner] \notin GatedPC
  BY <1>1, HolderIsAlone DEF CalmInv, SafeInv, GateInv, GateExclusive
<1>6. RunnerFits(pc[Runner], goal)
  BY DEF CalmInv, ThreadsFit
<1> QED
  BY <1>2, <1>3, <1>4, <1>5, <1>6

\* A cancellation is written between two sections of the other threads.
LEMMA CancelTaskCalm ==
  ASSUME Faultless, CalmInv, NEW c \in {Stopper} \cup Cancellers, CancelTask(c) PROVE (Records /\ ThreadsFit)'
<1>1. "cnPending" \in PC /\ gate = {} /\ Goto(c, "cnPending") /\ token' = TRUE /\ ~Raise
  BY NothingRaises DEF PC, CancelPC, CancelTask, CalmInv
<1>2. /\ pc'[Runner] = pc[Runner] /\ pc'[c] = "cnPending"
      /\ \A d \in Deciders : pc'[d] = pc[d] /\ pc[d] \in {"idle", "dcGate", "done"}
      /\ \A b \in Cancellers : b # c => pc'[b] = pc[b]
      /\ ~Answered /\ ~Answered'
      /\ pc[Runner] \notin GatedPC /\ RunnerFits(pc[Runner], goal)
  BY <1>1, CancelMoves
<1>3. UNCHANGED <<approval, closed, cleaned, cur, goal, move, ran, ended>>
  BY DEF CancelTask
<1>4. task'.pending = task.pending /\ task \in Tasks
      /\ IF task.status \in Terminal THEN task' = task ELSE task'.status = "cancel_requested"
  <2>1. closed => task.status \in Terminal
    BY <1>2 DEF RunnerFits, RunnerPlace, RunnerEnds
  <2>2. task \in Tasks
    BY CalmTypes
  <2>3. CASE task.status \in Terminal \cup {"cancel_requested"}
    BY <1>1, <2>2, <2>3 DEF CancelTask, Tasks
  <2>4. CASE task.status \notin Terminal \cup {"cancel_requested"}
    BY <1>1, <2>1, <2>2, <2>4 DEF CancelTask, WithStatus, Tasks
  <2> QED
    BY <2>2, <2>3, <2>4
<1>5. Records'
  BY <1>1, <1>2, <1>3, <1>4, CalmTypes
     DEF CalmInv, Records, RunnerFits, RunnerPlace, RunnerEnds, Terminal
<1>6. RunnerFits(pc[Runner], goal)'
  <2>1. RunnerPlace(pc[Runner])' /\ RunnerAsks(pc[Runner])'
    BY <1>2, <1>3 DEF RunnerFits, RunnerPlace, RunnerAsks
  <2>2. RunnerShows(pc[Runner])'
    BY <1>2, <1>3, <1>4, CalmTypes
       DEF RunnerFits, RunnerShows, RunnerEnds, Writes, GatedPC, ResolvePC, CalmInv, Records, Terminal
  <2>3. RunnerEnds(pc[Runner], goal)'
    BY <1>1, <1>2, <1>3, <1>4 DEF RunnerFits, RunnerEnds, GatedPC, Terminal
  <2> QED
    BY <2>1, <2>2, <2>3 DEF RunnerFits
<1>7. \A d \in Deciders : DeciderFits(d, pc[d])'
  BY <1>2, <1>3 DEF CalmInv, ThreadsFit, DeciderFits, Writes
<1>8. \A b \in Cancellers : CancellerFits(pc[b])'
  BY <1>1, <1>2 DEF CalmInv, ThreadsFit, CancellerFits
<1> QED
  BY <1>5, <1>6, <1>7, <1>8 DEF ThreadsFit

\* So is the withdrawal of the question nobody answered.
LEMMA CancelApprovalsCalm ==
  ASSUME Faultless, CalmInv, StopperFits, NEW c \in {Stopper} \cup Cancellers, CancelApprovals(c)
  PROVE  (Records /\ ThreadsFit)'
<1>1. "cnShell" \in PC /\ gate = {} /\ Goto(c, "cnShell") /\ ~Raise /\ pc[c] = "cnPending"
  BY NothingRaises DEF PC, CancelPC, CancelApprovals, CalmInv
<1>2. /\ pc'[Runner] = pc[Runner] /\ pc'[c] = "cnShell"
      /\ \A d \in Deciders : pc'[d] = pc[d] /\ pc[d] \in {"idle", "dcGate", "done"}
      /\ \A b \in Cancellers : b # c => pc'[b] = pc[b]
      /\ ~Answered /\ ~Answered'
      /\ pc[Runner] \notin GatedPC /\ RunnerFits(pc[Runner], goal)
  BY <1>1, CancelMoves
<1>3. UNCHANGED <<task, closed, cleaned, cur, token, goal, move, ran, ended>>
  BY DEF CancelApprovals
<1>4. token /\ task.status \in Terminal \cup {"cancel_requested"}
  BY <1>1 DEF CalmInv, Records, ThreadsFit, CancellerFits, StopperFits
<1>5. \A a \in Approvals :
        IF approval[a] = "pending" THEN approval'[a] = "cancelled" ELSE approval'[a] = approval[a]
  BY <1>1 DEF CancelApprovals, CancelledIn, Pending
<1>6. Records'
  BY <1>2, <1>3, <1>4, <1>5, CalmTypes DEF CalmInv, Records, Decided, Terminal
<1>7. RunnerFits(pc[Runner], goal)'
  <2>1. RunnerPlace(pc[Runner])' /\ RunnerEnds(pc[Runner], goal)'
    BY <1>2, <1>3 DEF RunnerFits, RunnerPlace, RunnerEnds
  <2>2. RunnerAsks(pc[Runner])'
    BY <1>2, <1>3, <1>5, CalmTypes DEF RunnerFits, RunnerAsks, GatedPC
  <2>3. RunnerShows(pc[Runner])'
    BY <1>2, <1>3, <1>4, <1>5, CalmTypes
       DEF RunnerFits, RunnerShows, Writes, GatedPC, ResolvePC, Terminal
  <2> QED
    BY <2>1, <2>2, <2>3 DEF RunnerFits
<1>8. \A d \in Deciders : DeciderFits(d, pc[d])'
  BY <1>2, <1>3 DEF CalmInv, ThreadsFit, DeciderFits, Writes
<1>9. \A b \in Cancellers : CancellerFits(pc[b])'
  BY <1>2, <1>3, <1>4 DEF CalmInv, ThreadsFit, CancellerFits
<1> QED
  BY <1>6, <1>7, <1>8, <1>9 DEF ThreadsFit

-----------------------------------------------------------------------------
(* The strengthening is inductive.                                         *)

\* The branches of a raising write are never taken.
LEMMA NeverTaken ==
  ASSUME Faultless, CalmInv
  PROVE  /\ ~(StartFails \/ StartPersistFails \/ PersistFails)
         /\ ~(UndoApproval \/ UndoTask \/ UndoCommit)
         /\ \A t \in {Runner} \cup Deciders :
              ~(RollbackApproval(t) \/ RollbackTask(t) \/ RollbackCommit(t))
<1>1. /\ ~Raise /\ RunnerFits(pc[Runner], goal)
      /\ \A d \in Deciders : DeciderFits(d, pc[d])
  BY NothingRaises DEF CalmInv, ThreadsFit
<1>2. ~(StartFails \/ StartPersistFails \/ PersistFails)
  <2>1. pc[Runner] \in {"artifact", "startArtifact"} => ~closed
    BY <1>1 DEF RunnerFits, RunnerPlace
  <2> QED
    BY <1>1, <2>1 DEF StartFails, StartPersistFails, PersistFails
<1>3. ~(UndoApproval \/ UndoTask \/ UndoCommit)
  BY <1>1 DEF UndoApproval, UndoTask, UndoCommit, RunnerFits, RunnerPlace
<1>4. ASSUME NEW t \in {Runner} \cup Deciders
      PROVE  ~(RollbackApproval(t) \/ RollbackTask(t) \/ RollbackCommit(t))
  <2>1. pc[t] \notin {"rbApproval", "rbTask", "rbCommit"}
    BY <1>1 DEF RunnerFits, RunnerPlace, RunnerPC, DeciderFits
  <2> QED
    BY <2>1 DEF RollbackApproval, RollbackTask, RollbackCommit
<1> QED
  BY <1>2, <1>3, <1>4

\* Steps that touch nothing the strengthening speaks of.
LEMMA RestCalm ==
  ASSUME CalmInv, (\E a \in Approvals : Tick(a)) \/ Over \/ UNCHANGED vars
  PROVE  (Records /\ ThreadsFit)'
<1>1. UNCHANGED <<store, control, local, ran, ended>>
  BY DEF Tick, Over, vars, history
<1>2. UNCHANGED <<task, approval, closed, token, cleaned, pc, cur, goal, move, ran, ended>>
  BY <1>1 DEF store, control, local
<1>3. Answered' <=> Answered
  BY <1>2 DEF Answered
<1>4. Records'
  BY <1>2 DEF CalmInv, Records
<1>5. RunnerFits(pc[Runner], goal)'
  BY <1>2, <1>3 DEF CalmInv, ThreadsFit, RunnerFits, RunnerPlace, RunnerAsks, RunnerShows, RunnerEnds,
                    Writes, Waiting, Resumed
<1>6. \A d \in Deciders : DeciderFits(d, pc[d])'
  BY <1>2 DEF CalmInv, ThreadsFit, DeciderFits, Writes, Waiting, Resumed
<1>7. \A c \in Cancellers : CancellerFits(pc[c])'
  BY <1>2 DEF CalmInv, ThreadsFit, CancellerFits
<1> QED
  BY <1>4, <1>5, <1>6, <1>7 DEF ThreadsFit

\* The shutdown's first steps leave the records alone as well.
LEMMA StopCalm ==
  ASSUME CalmInv, Stop \/ StopWait
  PROVE  (Records /\ ThreadsFit)'
<1>1. Stopper \in Thread \ {Runner} /\ Stopper \notin Deciders \cup Cancellers
  BY ThreadsDiffer DEF Thread
<1>2. /\ {"cnGate", "sdClose", "done"} \subseteq PC
      /\ UNCHANGED <<task, approval, cur, token, closed, cleaned, ran, ended, goal, move>>
  BY DEF PC, CancelPC, StopPC, Stop, StopWait, store, control, history
<1>3. \E p \in {"cnGate", "sdClose", "done"} : Goto(Stopper, p) /\ pc[Stopper] \in {"idle", "sdWait"}
  BY DEF Stop, StopWait
<1> QED
  BY <1>1, <1>2, <1>3, ApiMoves

\* Every step keeps the records and the threads in agreement, until the gate is shut.
LEMMA StepCalm ==
  ASSUME Faultless, CalmInv, StopperFits, [Next]_vars, ~StopClose
  PROVE  (Records /\ ThreadsFit)'
<1>1. CASE RunnerStep
  <2>1. CASE Start \/ StartCancelled \/ StartFails \/ BuildRuntime \/ BuildFails
             \/ StartArtifact \/ StartTerminal \/ StartPersistFails
    BY <2>1, StartCalm, StartCancelledCalm, BuildRuntimeCalm, BuildFailsCalm, StartArtifactCalm,
       StartTerminalCalm, NeverTaken, Zenon
  <2>2. CASE Request \/ RequestCreate \/ RequestTask \/ RequestCommit
             \/ UndoApproval \/ UndoTask \/ UndoCommit
    BY <2>2, RequestCalm, RequestCreateCalm, RequestTaskCalm, RequestCommitCalm, NeverTaken, Zenon
  <2>3. CASE WaitDecided \/ WaitCancelled \/ WaitExpired
             \/ CheckApproved \/ CheckExpired \/ Expire \/ ToolStart
             \/ NoticeCancel \/ AgentEnds \/ Unwind
    BY <2>3, WaitDecidedCalm, WaitEndsCalm, CheckApprovedCalm, CheckExpiredCalm, ExpireCalm,
       ToolStartCalm, NoticeCancelCalm, AgentEndsCalm, UnwindCalm, Zenon
  <2>4. CASE Converge \/ ConvergePending \/ ConvergeCancel
             \/ PersistArtifact \/ PersistTask \/ PersistFails
             \/ Close \/ Publish \/ Release
    BY <2>4, ConvergeCalm, ConvergePendingCalm, ConvergeCancelCalm, PersistArtifactCalm,
       PersistTaskCalm, CloseCalm, PublishCalm, ReleaseCalm, NeverTaken, Zenon
  <2>5. CASE ResolveStep(Runner)
    BY <2>5, ResolveTaskCalm, ResolveApprovalCalm, ResolveCommitCalm, NeverTaken DEF ResolveStep
  <2> QED
    BY <1>1, <2>1, <2>2, <2>3, <2>4, <2>5 DEF RunnerStep
<1>2. ASSUME NEW d \in Deciders,
             \/ DeciderStep(d)
             \/ \E a \in Approvals, s \in {"approved", "rejected"} : Decide(d, a, s)
      PROVE  (Records /\ ThreadsFit)'
  BY <1>2, DecideGateCalm, DecideCalm, ResolveTaskCalm, ResolveApprovalCalm, ResolveCommitCalm,
     NeverTaken DEF DeciderStep, ResolveStep
<1>3. ASSUME NEW c \in Cancellers, Cancel(c) \/ CancelStep(c) PROVE (Records /\ ThreadsFit)'
  BY <1>3, CancelCalm, CancelTaskCalm, CancelApprovalsCalm DEF CancelStep
<1>4. CASE Stop \/ StopStep
  <2>1. ~StopArtifact /\ ~StopTask
    BY DEF StopperFits, StopArtifact, StopTask
  <2> QED
    BY <1>4, <2>1, StopCalm, CancelCalm, CancelTaskCalm, CancelApprovalsCalm DEF StopStep, CancelStep
<1> QED
  BY <1>1, <1>2, <1>3, <1>4, RestCalm DEF Next

-----------------------------------------------------------------------------
(* Until a write raises, whatever the threads and the shutdown do.         *)

\* Behind a closed gate the Runner enters no gated section but that of a Run not started.
LEMMA ShutRunner ==
  ASSUME TypeOK, RunnerStep, closed, token, pc[Runner] \notin GatedPC \ {"startArtifact"},
         ~ResolveStep(Runner)
  PROVE  pc'[Runner] \notin GatedPC \ {"startArtifact"}
<1> DEFINE Gated == {"rsTask", "rsApproval", "rsCommit", "rbApproval", "rbTask", "rbCommit", "rqCreate",
                     "rqTask", "rqCommit", "rqUndoApproval", "rqUndoTask", "rqUndoCommit",
                     "taskTerminal", "startTerminal"}
<1>0. pc[Runner] \notin Gated /\ Runner \in Thread /\ pc \in [Thread -> PC] /\ GatedPC \ {"startArtifact"} = Gated
  BY DEF GatedPC, ResolvePC, Thread, TypeOK
<1> SUFFICES pc'[Runner] \notin Gated
  BY <1>0
<1> USE <1>0 DEF Goto
<1>1. CASE Start \/ StartCancelled \/ StartFails \/ BuildRuntime \/ BuildFails
  BY <1>1 DEF Start, StartCancelled, StartFails, BuildRuntime, BuildFails
<1>2. CASE StartArtifact \/ StartTerminal \/ StartPersistFails
  BY <1>2 DEF StartArtifact, StartTerminal, StartPersistFails
<1>3. CASE Request \/ RequestCreate \/ RequestTask \/ RequestCommit
  BY <1>3 DEF Request, RequestCreate, RequestTask, RequestCommit
<1>4. CASE UndoApproval \/ UndoTask \/ UndoCommit
  BY <1>4 DEF UndoApproval, UndoTask, UndoCommit, CloseTransition
<1>5. CASE WaitDecided \/ WaitCancelled \/ WaitExpired \/ CheckApproved \/ CheckExpired
  BY <1>5 DEF WaitDecided, WaitCancelled, WaitExpired, CheckApproved, CheckExpired
<1>6. CASE Expire \/ ToolStart \/ NoticeCancel \/ AgentEnds \/ Unwind
  BY <1>6 DEF Expire, ToolStart, NoticeCancel, AgentEnds, Unwind, Resolve
<1>7. CASE Converge \/ ConvergePending \/ ConvergeCancel
  BY <1>7 DEF Converge, ConvergePending, ConvergeCancel
<1>8. CASE PersistArtifact \/ PersistTask \/ PersistFails
  BY <1>8 DEF PersistArtifact, PersistTask, PersistFails
<1>9. CASE Close \/ Publish \/ Release
  BY <1>9 DEF Close, Publish, Release
<1> QED
  BY <1>1, <1>2, <1>3, <1>4, <1>5, <1>6, <1>7, <1>8, <1>9 DEF RunnerStep

\* Who makes an Approval pending: the request, or a decision that is taken back.
LEMMA AskStep ==
  ASSUME TypeOK, [Next]_vars, NEW a \in Pending', a \notin Pending
  PROVE  RequestCreate \/ \E t \in {Runner} \cup Deciders : RollbackApproval(t)
<1>1. approval'[a] = "pending" /\ approval[a] # "pending" /\ a \in Approvals
      /\ approval \in [Approvals -> ApprovalStatus] /\ approval' # approval
  BY DEF Pending, TypeOK
<1>2. ~UndoApproval /\ ~ConvergeCancel
  BY <1>1 DEF UndoApproval, ConvergeCancel, CancelledIn, Landed
<1>3. ASSUME NEW t \in {Runner} \cup Deciders, ResolveApproval(t) PROVE FALSE
  <2>1. t \in Thread /\ move[t].to # "pending"
    BY DEF TypeOK, Moves, Decided, Thread
  <2> QED
    BY <1>1, <1>3, <2>1 DEF ResolveApproval, Landed
<1>4. \A t \in {Stopper} \cup Cancellers : ~CancelApprovals(t)
  BY <1>1 DEF CancelApprovals, CancelledIn
<1> QED
  BY <1>1, <1>2, <1>3, <1>4, WhoseStep, RunnerWrites, DeciderSteady, CancelSteady, StopSteady,
     RestSteady DEF store

\* After a cancellation nothing asks.
LEMMA NobodyAsks ==
  ASSUME Faultless, CalmInv, token, [Next]_vars PROVE Pending' \subseteq Pending
<1>1. ~RequestCreate
  <2> SUFFICES ASSUME RequestCreate PROVE FALSE
    OBVIOUS
  <2>1. task = Resumed
    BY DEF RequestCreate, CalmInv, ThreadsFit, RunnerFits, RunnerShows
  <2> QED
    BY <2>1 DEF CalmInv, Records, Resumed, Terminal
<1> QED
  BY <1>1, AskStep, NeverTaken DEF CalmInv, SafeInv, GateInv, TypeInv

\* The shutdown cancels like an API thread, up to closing the gate.
LEMMA StopperFitsNext ==
  ASSUME Faultless, CalmInv, StopperFits, [Next]_vars, ~StopClose PROVE StopperFits'
<1>1. TypeOK /\ ~Raise /\ Stopper \in Thread
  BY NothingRaises DEF CalmInv, SafeInv, GateInv, TypeInv, Thread
<1>2. token => token' /\ Pending' \subseteq Pending
  BY <1>1, NobodyAsks, NeverBack
<1>3. CASE Stop \/ StopStep
  <2>1. ~StopArtifact /\ ~StopTask
    BY DEF StopperFits, StopArtifact, StopTask
  <2>2. CASE Stop \/ StopWait
    BY <1>1, <1>2, <2>2 DEF StopperFits, Stop, StopWait, Goto, TypeOK
  <2>3. CASE CancelTask(Stopper)
    BY <1>1, <2>3 DEF StopperFits, CancelTask, Goto, TypeOK
  <2>4. CASE CancelApprovals(Stopper)
    <3>1. Pending' = {}
      BY <1>1, <2>4 DEF CancelApprovals, CancelledIn, Pending
    <3> QED
      BY <1>1, <1>2, <2>4, <3>1 DEF StopperFits, CancelApprovals, Goto, TypeOK
  <2>5. CASE CancelShell(Stopper)
    BY <1>1, <1>2, <2>5 DEF StopperFits, CancelShell, Goto, TypeOK
  <2> QED
    BY <1>3, <2>1, <2>2, <2>3, <2>4, <2>5 DEF StopStep, CancelStep
<1>4. CASE pc'[Stopper] = pc[Stopper]
  BY <1>2, <1>4 DEF StopperFits
<1> QED
  BY <1>1, <1>3, <1>4, NeverBack

\* It closes the gate when nothing is asked and nobody is inside.
LEMMA StopShuts ==
  ASSUME CalmInv, StopperFits, StopClose PROVE Shut'
<1>1. /\ pc'[Stopper] = "sdArtifact" /\ \A t \in Thread : t # Stopper => pc'[t] = pc[t]
      /\ closed' /\ UNCHANGED <<token, approval, move, gate>>
  BY CalmTypes DEF StopClose, Goto, Thread, store
<1>2. token /\ Pending = {}
  BY DEF StopperFits, StopClose
<1>3. \A t \in {Runner} \cup Deciders : t \in Thread /\ t # Stopper /\ pc[t] \notin GatedPC
  BY ThreadsDiffer DEF StopClose, CalmInv, SafeInv, GateInv, GateExclusive, Thread
<1>4. \A d \in Deciders : pc[d] = "dcGate" => move[d].apr \in Approvals
  BY DEF CalmInv, ThreadsFit, DeciderFits
<1>5. Pending' = {}
  BY <1>1, <1>2 DEF Pending
<1> QED
  BY <1>1, <1>2, <1>3, <1>4, <1>5 DEF Shut

\* Behind a closed gate nobody asks and nobody answers any more.
LEMMA ShutNext ==
  ASSUME Faultless, SafeInv, Shut, [Next]_vars PROVE Shut'
<1>1. TypeOK /\ ~Raise /\ Stopper \in Thread /\ Runner \in Thread
  BY NothingRaises DEF SafeInv, GateInv, TypeInv, Thread
<1>2. ASSUME NEW t \in {Runner} \cup Deciders
      PROVE  /\ pc[t] \notin WriterPC
             /\ ~ResolveStep(t)
  <2>1. pc[t] \notin WriterPC
    BY DEF Shut, WriterPC, GatedPC, ResolvePC
  <2>2. pc[t] \notin {"rsTask", "rsApproval", "rsCommit", "rbApproval", "rbTask", "rbCommit"}
    BY <2>1 DEF WriterPC, ResolvePC
  <2>3. ~ResolveStep(t)
    BY <2>2, Zenon DEF ResolveStep, ResolveTask, ResolveApproval, ResolveCommit, RollbackApproval,
                RollbackTask, RollbackCommit
  <2> QED
    BY <2>1, <2>3
<1>3. ASSUME NEW d \in Deciders, DeciderActs(d) PROVE pc'[d] = "done" /\ d \in Thread
  <2>1. ~DecideGate(d) /\ \A a \in Approvals, s \in {"approved", "rejected"} : ~Decide(d, a, s)
    BY DEF Shut, DecideGate, Decide, Pending
  <2>2. DecideRefused(d) /\ d \in Thread
    BY <1>2, <1>3, <2>1 DEF DeciderActs, DeciderStep, Thread
  <2> QED
    BY <1>1, <2>2 DEF DecideRefused, Goto, TypeOK
<1>4. closed' /\ token'
  BY <1>1, NeverBack, StaysClosed DEF Shut
<1>5. Pending' = {}
  <2>1. ~RequestCreate /\ \A t \in {Runner} \cup Deciders : ~RollbackApproval(t)
    BY <1>2 DEF RequestCreate, ResolveStep, WriterPC
  <2> QED
    BY <1>1, <2>1, AskStep DEF Shut
<1>6. pc'[Stopper] \in {"sdArtifact", "sdTask", "done"}
  <2>1. CASE pc'[Stopper] = pc[Stopper]
    BY <2>1 DEF Shut
  <2>2. CASE Stop \/ StopStep
    BY <1>1, <2>2 DEF Shut, Stop, StopStep, StopWait, StopClose, StopArtifact, StopTask, CancelStep,
       CancelTask, CancelApprovals, CancelShell, Goto, TypeOK
  <2> QED
    BY <1>1, <2>1, <2>2, NeverBack
<1>7. pc'[Runner] \notin GatedPC \ {"startArtifact"}
  <2>1. CASE RunnerStep
    BY <1>1, <1>2, <1>4, <2>1, ShutRunner DEF Shut
  <2>2. CASE pc'[Runner] = pc[Runner]
    BY <2>2 DEF Shut
  <2> QED
    BY <1>1, <2>1, <2>2, RunnerStays
<1>8. \A d \in Deciders : /\ pc'[d] \notin GatedPC \ {"startArtifact"}
                          /\ pc'[d] = "dcGate" => move'[d].apr \in Approvals
  <2> TAKE d \in Deciders
  <2>1. CASE DeciderActs(d)
    BY <1>3, <2>1 DEF GatedPC, ResolvePC
  <2>2. CASE pc'[d] = pc[d] /\ move'[d] = move[d]
    BY <2>2 DEF Shut
  <2> QED
    BY <1>1, <2>1, <2>2, DeciderStays
<1> QED
  BY <1>4, <1>5, <1>6, <1>7, <1>8 DEF Shut

LEMMA FaultlessNext == SafeInv /\ FaultlessInv /\ [Next]_vars => FaultlessInv'
<1> SUFFICES ASSUME SafeInv, FaultlessInv, [Next]_vars, Faultless
             PROVE  Shut' \/ (Records /\ ThreadsFit /\ StopperFits)'
  BY DEF FaultlessInv, Faultless
<1>1. faults = 0
  BY NeverBack DEF Faultless, SafeInv, GateInv, TypeInv
<1>2. CASE Shut
  BY <1>2, ShutNext
<1>3. CASE Records /\ ThreadsFit /\ StopperFits
  <2>1. CalmInv
    BY <1>3 DEF CalmInv
  <2> QED
    BY <1>3, <2>1, StepCalm, StopperFitsNext, StopShuts
<1> QED
  BY <1>1, <1>2, <1>3 DEF FaultlessInv

\* Every Run starts in it.
LEMMA CalmInit == Init => CalmInv /\ pc[Stopper] = "idle"
<1> SUFFICES ASSUME Init PROVE CalmInv /\ pc[Stopper] = "idle"
  OBVIOUS
<1>1. SafeInv
  BY SafeInit
<1>2. /\ pc[Runner] = "queued" /\ pc[Stopper] = "idle"
      /\ \A d \in Deciders : pc[d] = "idle"
      /\ \A c \in Cancellers : pc[c] = "idle"
  BY ThreadsDiffer DEF Init, Thread
<1>3. /\ task.status = "queued" /\ task.pending = 0 /\ cur = 0 /\ ~token /\ ~closed /\ cleaned
      /\ ran = {} /\ ended = {} /\ \A a \in Approvals : approval[a] = "none"
  BY DEF Init
<1>4. Records
  <2>1. \A a \in Approvals : ~(a < 0)
    BY BoundsAreNaturals DEF Approvals
  <2> QED
    BY <1>2, <1>3, <2>1 DEF Records
<1>5. RunnerFits(pc[Runner], goal)
  <2>1. RunnerPlace("queued")
    BY <1>3 DEF RunnerPlace, RunnerPC
  <2>2. RunnerAsks("queued")
    BY <1>3 DEF RunnerAsks
  <2>3. RunnerShows("queued")
    BY <1>2, <1>3 DEF RunnerShows, Writes, Answered
  <2>4. RunnerEnds("queued", goal)
    BY <1>3 DEF RunnerEnds, GoalPC, Terminal
  <2> QED
    BY <1>2, <2>1, <2>2, <2>3, <2>4 DEF RunnerFits
<1>6. \A d \in Deciders : DeciderFits(d, pc[d])
  BY <1>2 DEF DeciderFits, Writes
<1>7. \A c \in Cancellers : CancellerFits(pc[c])
  BY <1>2 DEF CancellerFits
<1> QED
  BY <1>1, <1>2, <1>4, <1>5, <1>6, <1>7 DEF CalmInv, ThreadsFit

LEMMA FaultlessInit == Init => FaultlessInv
  BY CalmInit DEF FaultlessInv, CalmInv, StopperFits

\* Until a write raises, a pending Approval that is read outside the gated sections of
\* ApprovalGate is the one its Task waits for: request and _resolve_locked write the two
\* records one after the other, and the shutdown closes the gate when nothing is pending.
THEOREM PendingIsAwaited == Spec => []PendingAgrees
<1>1. SafeInv /\ FaultlessInv => PendingAgrees
  <2> SUFFICES ASSUME SafeInv, FaultlessInv, gate = {}, faults = 0, NEW a \in Pending
               PROVE  task.pending = a
    BY DEF PendingAgrees
  <2>1. CalmInv
    BY DEF FaultlessInv, Shut, CalmInv
  <2>2. a = cur /\ cur > 0
    BY <2>1, PendingIsCurrent DEF Pending
  <2>3. ~Answered /\ RunnerFits(pc[Runner], goal) /\ pc[Runner] \notin GatedPC
    BY <2>1, DecidersOut, HolderIsAlone, ThreadsDiffer
       DEF CalmInv, ThreadsFit, SafeInv, GateInv, GateExclusive, Thread
  <2> QED
    BY <2>2, <2>3 DEF RunnerFits, RunnerShows, GatedPC, ResolvePC, Pending
<1> QED
  BY <1>1, SafeInit, FaultlessInit, SafeNext, FaultlessNext, PTL DEF Spec

-----------------------------------------------------------------------------
(* Whatever write raises and whenever the service stops.                   *)

\* The Runner never converges to the status the shutdown writes.
Aboard == goal \in Aborted \cup {"none"}

\* The Runner writes the terminal Task of a gate it found open, and keeps it open until then.
LastOpen == pc[Runner] \in {"taskTerminal", "startTerminal"} => ~closed

\* The shutdown's own terminal stands behind a closed gate.
EndOpen == task.status = "interrupted" => closed

\* A decision under way on a Task that has ended, and whose gate is not closed yet, is of a
\* blocked Task, after a write that raised.
LateDecision ==
  \A d \in Deciders :
    pc[d] \in ResolvePC /\ task.status \in Terminal /\ ~closed => task.status = "blocked" /\ faults > 0

EndInv == SafeInv /\ FaultlessInv /\ Aboard /\ LastOpen /\ EndOpen /\ LateDecision

\* The writers of the Task.
LEMMA TaskWriters ==
  ASSUME TypeOK, [Next]_vars, task' # task
  PROVE  \/ StopTask
         \/ \E t \in {Stopper} \cup Cancellers : CancelTask(t)
         \/ \E t \in {Runner} \cup Deciders : ResolveTask(t) \/ RollbackTask(t)
         \/ Start \/ StartFails \/ StartTerminal \/ StartPersistFails
         \/ RequestTask \/ UndoTask \/ PersistTask \/ PersistFails
  BY WhoseStep, RunnerWrites, DeciderSteady, CancelSteady, StopSteady, RestSteady DEF store

\* Where the writers are, and what those but the last four write.
LEMMA TaskWritten ==
  ASSUME TypeOK, task' # task
  PROVE  /\ StopTask => pc[Stopper] = "sdTask"
         /\ \A t \in {Stopper} \cup Cancellers : CancelTask(t) =>
              gate = {} /\ task.status \notin Terminal /\ task'.status = "cancel_requested"
         /\ \A t \in {Runner} \cup Deciders : ResolveTask(t) \/ RollbackTask(t) =>
              pc[t] \in ResolvePC /\ ~closed /\ task'.status \in {"running", "waiting"}
         /\ Start \/ StartFails =>
              pc[Runner] = "queued" /\ gate = {} /\ ~closed /\ task'.status = "running"
         /\ RequestTask \/ UndoTask =>
              pc[Runner] \in {"rqTask", "rqUndoTask"} /\ ~closed
              /\ task'.status \in {"running", "waiting"}
         /\ StartTerminal \/ StartPersistFails \/ PersistTask \/ PersistFails =>
              pc[Runner] \in {"taskTerminal", "startTerminal"} /\ task' = Ended(goal)
<1> USE DEF TypeOK, Tasks, Landed
<1>1. StopTask => pc[Stopper] = "sdTask"
  BY DEF StopTask
<1>2. ASSUME NEW t \in {Stopper} \cup Cancellers, CancelTask(t)
      PROVE  gate = {} /\ task.status \notin Terminal /\ task'.status = "cancel_requested"
  BY <1>2 DEF CancelTask, WithStatus
<1>3. ASSUME NEW t \in {Runner} \cup Deciders, ResolveTask(t) \/ RollbackTask(t)
      PROVE  pc[t] \in ResolvePC /\ ~closed /\ task'.status \in {"running", "waiting"}
  BY <1>3 DEF ResolveTask, RollbackTask, Resumed, Waiting, ResolvePC
<1>4. ASSUME Start \/ StartFails
      PROVE  pc[Runner] = "queued" /\ gate = {} /\ ~closed /\ task'.status = "running"
  BY <1>4 DEF Start, StartFails, WithStatus, Enter
<1>5. ASSUME RequestTask \/ UndoTask
      PROVE  pc[Runner] \in {"rqTask", "rqUndoTask"} /\ ~closed
             /\ task'.status \in {"running", "waiting"}
  BY <1>5 DEF RequestTask, UndoTask, Resumed, Waiting
<1>6. ASSUME StartTerminal \/ StartPersistFails \/ PersistTask \/ PersistFails
      PROVE  pc[Runner] \in {"taskTerminal", "startTerminal"} /\ task' = Ended(goal)
  BY <1>6 DEF StartTerminal, StartPersistFails, PersistTask, PersistFails
<1> QED
  BY <1>1, <1>2, <1>3, <1>4, <1>5, <1>6

\* What replaces a terminal.
LEMMA EndReplaced ==
  ASSUME SafeInv, LastOpen, LateDecision, [Next]_vars, task.status \in Terminal, task' # task
  PROVE  \/ pc[Stopper] = "sdTask"
         \/ task.status = "blocked" /\ faults > 0 /\ ~closed
<1>1. TypeOK /\ (closed \/ pc[Runner] \in {"close", "publish", "release", "done", "stuck"})
  BY DEF SafeInv, GateInv, TypeInv, TerminalFenced
<1>2. ASSUME NEW d \in Deciders, ResolveTask(d) \/ RollbackTask(d)
      PROVE  task.status = "blocked" /\ faults > 0 /\ ~closed
  BY <1>1, <1>2, TaskWritten DEF LateDecision
<1>3. ~(ResolveTask(Runner) \/ RollbackTask(Runner))
  BY <1>1, TaskWritten DEF ResolvePC
<1>4. ~(\/ Start \/ StartFails \/ RequestTask \/ UndoTask
        \/ StartTerminal \/ StartPersistFails \/ PersistTask \/ PersistFails)
  BY <1>1, TaskWritten DEF LastOpen
<1> QED
  BY <1>1, <1>2, <1>3, <1>4, TaskWriters, TaskWritten

LEMMA AboardNext == ASSUME TypeOK, Aboard, [Next]_vars PROVE Aboard'
<1>1. CASE RunnerStep
  BY <1>1, RunnerWrites DEF Aboard, Aborted
<1>2. CASE ~RunnerStep
  BY <1>2, RunnerStays DEF Aboard
<1> QED
  BY <1>1, <1>2

LEMMA LastOpenNext == ASSUME SafeInv, LastOpen, [Next]_vars PROVE LastOpen'
<1>1. TypeOK /\ Runner \in Thread
  BY DEF SafeInv, GateInv, TypeInv, Thread
<1>2. CASE RunnerStep
  <2>1. CASE PersistArtifact \/ StartArtifact
    BY <2>1 DEF LastOpen, PersistArtifact, StartArtifact, control
  <2>2. CASE \/ RequestCreate \/ RequestTask \/ RequestCommit
             \/ PersistTask \/ StartTerminal \/ StartPersistFails \/ Close \/ Publish \/ Release
    BY <1>1, <2>2 DEF LastOpen, RequestCreate, RequestTask, RequestCommit, PersistTask, StartTerminal,
                      StartPersistFails, Close, Publish, Release, Goto, TypeOK
  <2> QED
    BY <1>1, <1>2, <2>1, <2>2, RunnerArrives DEF LateSteps, LastOpen
<1>3. CASE ~RunnerStep
  <2> SUFFICES ASSUME pc[Runner] \in {"taskTerminal", "startTerminal"} PROVE ~closed'
    BY <1>1, <1>3, RunnerStays DEF LastOpen
  <2>1. ~closed /\ ~StopClose
    BY <1>1 DEF LastOpen, StopClose, SafeInv, GateInv, GateExclusive, GatedPC
  <2> QED
    BY <1>1, <1>3, <2>1, WhoseStep, DeciderSteady, CancelSteady, StopSteady, RestSteady DEF control
<1> QED
  BY <1>2, <1>3

LEMMA EndOpenNext == ASSUME SafeInv, Aboard, EndOpen, [Next]_vars PROVE EndOpen'
<1>1. TypeOK /\ (closed => closed')
  BY StaysClosed DEF SafeInv, GateInv, TypeInv
<1>2. CASE task' = task
  BY <1>1, <1>2 DEF EndOpen
<1>3. CASE task' # task
  <2>1. CASE StopTask
    BY <1>1, <2>1 DEF StopTask, SafeInv, StopFenced, EndOpen
  <2>2. CASE StartTerminal \/ StartPersistFails \/ PersistTask \/ PersistFails
    BY <1>1, <1>3, <2>2, TaskWritten DEF Ended, Aboard, Aborted, EndOpen
  <2> QED
    BY <1>1, <1>3, <2>1, <2>2, TaskWriters, TaskWritten DEF EndOpen
<1> QED
  BY <1>2, <1>3

\* A decision is not begun on a Task that has ended, but for the one of LateDecision.
LEMMA LateBegins ==
  ASSUME SafeInv, FaultlessInv, EndOpen, NEW d \in Deciders, DecideGate(d),
         task.status \in Terminal, ~closed
  PROVE  task.status = "blocked" /\ faults > 0
<1>1. task.status = "blocked"
  BY DEF DecideGate, Terminal, EndOpen
<1>2. faults # 0
  <2> SUFFICES ASSUME faults = 0 PROVE FALSE
    OBVIOUS
  <2>1. CalmInv
    BY DEF FaultlessInv, Shut, CalmInv
  <2>2. move[d].apr \in Approvals /\ approval[move[d].apr] = "pending"
    BY <2>1 DEF DecideGate, CalmInv, ThreadsFit, DeciderFits
  <2>3. cur > 0 /\ approval[cur] = "pending"
    BY <2>1, <2>2, PendingIsCurrent
  <2> QED
    BY <2>1, <2>3 DEF CalmInv, ThreadsFit, RunnerFits, RunnerShows, RunnerEnds
<1> QED
  BY <1>1, <1>2, BoundsAreNaturals DEF SafeInv, GateInv, TypeInv, TypeOK

LEMMA LateDecisionNext ==
  ASSUME SafeInv, FaultlessInv, EndOpen, LateDecision, [Next]_vars PROVE LateDecision'
<1> SUFFICES ASSUME NEW d \in Deciders, pc'[d] \in ResolvePC, task'.status \in Terminal, ~closed'
             PROVE  task'.status = "blocked" /\ faults' > 0
  BY DEF LateDecision
<1>1. TypeOK /\ d \in Thread /\ Runner \in Thread /\ d # Runner /\ ~closed
  BY StaysClosed, ThreadsDiffer DEF SafeInv, GateInv, TypeInv, Thread
<1>2. faults > 0 => faults' > 0
  BY <1>1, NeverBack, BoundsAreNaturals DEF TypeOK
<1>3. CASE pc[d] \in ResolvePC
  <2>1. gate = {d} /\ \A t \in Thread : t # d => pc[t] \notin GatedPC
    BY <1>1, <1>3, HolderIsAlone DEF SafeInv, GateInv, GateExclusive, GatedPC
  <2>2. pc[Runner] \notin ResolvePC \cup {"rqTask", "rqUndoTask", "taskTerminal", "startTerminal"}
        /\ \A e \in Deciders : e # d => pc[e] \notin ResolvePC
    BY <1>1, <2>1 DEF GatedPC, Thread
  <2>3. task' = task
    <3> SUFFICES ASSUME task' # task PROVE FALSE
      OBVIOUS
    <3>1. ~StopTask
      BY <1>1 DEF StopTask, SafeInv, StopFenced
    <3>2. ~(ResolveTask(d) \/ RollbackTask(d))
      BY <1>1, TaskWritten DEF Terminal
    <3>3. gate # {}
      BY <2>1
    <3> QED
      BY <1>1, <2>2, <3>1, <3>2, <3>3, TaskWriters, TaskWritten
  <2> QED
    BY <1>1, <1>2, <1>3, <2>3 DEF LateDecision
<1>4. CASE pc[d] \notin ResolvePC
  <2>1. DeciderActs(d)
    BY <1>1, <1>4, DeciderStays
  <2>2. DecideGate(d)
    <3>1. ~ResolveStep(d)
      BY <1>4 DEF ResolveStep, ResolveTask, ResolveApproval, ResolveCommit, RollbackApproval,
                  RollbackTask, RollbackCommit, ResolvePC
    <3>2. ~DecideRefused(d) /\ \A a \in Approvals, s \in {"approved", "rejected"} : ~Decide(d, a, s)
      BY <1>1 DEF DecideRefused, Decide, Goto, TypeOK, ResolvePC
    <3> QED
      BY <2>1, <3>1, <3>2 DEF DeciderActs, DeciderStep
  <2>3. task' = task
    BY <2>2 DEF DecideGate
  <2> QED
    BY <1>1, <1>2, <2>2, <2>3, LateBegins
<1> QED
  BY <1>3, <1>4

LEMMA EndInit == Init => EndInv
<1> SUFFICES ASSUME Init PROVE EndInv
  OBVIOUS
<1>1. \A t \in Thread : pc[t] \in {"queued", "idle"}
  BY DEF Init
<1>2. Runner \in Thread /\ Deciders \subseteq Thread
  BY DEF Thread
<1> QED
  BY <1>1, <1>2, SafeInit, FaultlessInit
     DEF Init, EndInv, Aboard, LastOpen, EndOpen, LateDecision, ResolvePC

LEMMA EndNext == EndInv /\ [Next]_vars => EndInv'
  BY SafeNext, FaultlessNext, AboardNext, LastOpenNext, EndOpenNext, LateDecisionNext
     DEF EndInv, SafeInv, GateInv, TypeInv

\* Whatever write raises, whoever decides or cancels and whenever the service stops, only
\* the shutdown writes a terminal Task again, but for the decision of a blocked Task that
\* apply_decision does not find stale: no other decision, cancellation or convergence that
\* is still under way does.
THEOREM EndsAreFinal == Spec => OnlyShutdownReplaces
<1>1. EndInv /\ [Next]_vars =>
        [task.status \in Terminal /\ task' # task =>
           \/ pc[Stopper] = "sdTask"
           \/ task.status = "blocked" /\ faults > 0 /\ ~closed]_vars
  BY EndReplaced DEF EndInv
<1> QED
  BY <1>1, EndInit, EndNext, PTL DEF Spec, OnlyShutdownReplaces

-----------------------------------------------------------------------------
(* When the service is free again.                                         *)

\* A cancelling thread has set the token, and so has the shutdown.
Told ==
  \A t \in {Stopper} \cup Cancellers :
    pc[t] \in {"cnPending", "cnShell", "sdWait", "sdClose", "sdArtifact", "sdTask"} => token

\* The gate is closed by the Runner when it has ended, or by a shutdown that has cancelled.
ClosedBy ==
  closed => \/ pc[Runner] \in {"publish", "release", "done"}
            \/ token /\ pc[Stopper] \in {"sdArtifact", "sdTask", "done"}

\* The active bit is given back by the last step of the Runner or of the shutdown.
FreedBy == ~active => pc[Runner] = "done" \/ pc[Stopper] = "done"

\* A Runner that has ended its Run in a service that goes on finds the Task as it left it:
\* but for a Run that ended blocked, of which no write may have raised.
EndKept ==
  /\ pc[Runner] \in {"close", "publish", "release", "done"}
  /\ ~degraded /\ pc[Stopper] = "idle"
  /\ goal = "blocked" => faults = 0
  => task.status = goal /\ goal \in Terminal

LEMMA ToldNext == ASSUME TypeOK, Told, [Next]_vars PROVE Told'
<1> DEFINE Set == {"cnPending", "cnShell", "sdWait", "sdClose", "sdArtifact", "sdTask"}
<1> SUFFICES ASSUME NEW t \in {Stopper} \cup Cancellers, pc'[t] \in Set PROVE token'
  BY DEF Told
<1>1. t \in Thread /\ t \notin {Runner} \cup Deciders /\ (token => token')
  BY NeverBack, ThreadsDiffer DEF Thread
<1>2. CASE pc'[t] = pc[t]
  BY <1>1, <1>2 DEF Told
<1>3. CASE CancelStep(t)
  BY <1>1, <1>3 DEF Told, CancelStep, CancelTask, CancelApprovals, CancelShell
<1>4. CASE Cancel(t) \/ (t = Stopper /\ Stop)
  BY <1>1, <1>4 DEF Cancel, Stop, Goto, TypeOK
<1>5. CASE t = Stopper /\ (StopWait \/ StopClose \/ StopArtifact \/ StopTask)
  BY <1>1, <1>5 DEF Told, StopWait, StopClose, StopArtifact, StopTask
<1> HIDE DEF Set
<1>6. CASE RunnerStep
  BY <1>1, <1>2, <1>6, RunnerSteady DEF Steady
<1>7. CASE \E d \in Deciders : DeciderActs(d)
  BY <1>1, <1>2, <1>7, DeciderSteady DEF Steady
<1>8. CASE \E c \in ({Stopper} \cup Cancellers) \ {t} : Cancel(c) \/ CancelStep(c)
  BY <1>1, <1>2, <1>8, CancelSteady DEF Steady
<1>9. CASE t # Stopper /\ (Stop \/ StopWait \/ StopClose \/ StopArtifact \/ StopTask)
  BY <1>1, <1>2, <1>9, StopSteady DEF Steady
<1>10. CASE Rests
  BY <1>2, <1>10, RestSteady DEF local
<1> QED
  BY <1>3, <1>4, <1>5, <1>6, <1>7, <1>8, <1>9, <1>10, WhoseStep

\* The last steps are taken in their order.
LEMMA LastSteps ==
  ASSUME TypeOK, [Next]_vars
  PROVE  /\ pc[Runner] \in {"publish", "release", "done"} =>
              pc'[Runner] \in {"publish", "release", "done"}
         /\ pc[Runner] = "done" => pc'[Runner] = "done"
         /\ pc[Stopper] \in {"sdArtifact", "sdTask", "done"} =>
              pc'[Stopper] \in {"sdArtifact", "sdTask", "done"}
         /\ pc[Stopper] = "done" => pc'[Stopper] = "done"
         /\ pc'[Stopper] = "idle" => pc[Stopper] = "idle"
<1>1. Runner \in Thread /\ Stopper \in Thread
  BY DEF Thread
<1>2. /\ pc[Runner] \in {"publish", "release", "done"} =>
           pc'[Runner] \in {"publish", "release", "done"}
      /\ pc[Runner] = "done" => pc'[Runner] = "done"
  <2>1. CASE RunnerStep
    BY <1>1, <2>1, RunnerArrives DEF Close, Publish, Release, Goto, TypeOK
  <2>2. CASE ~RunnerStep
    BY <2>2, RunnerStays
  <2> QED
    BY <2>1, <2>2
<1>3. /\ pc[Stopper] \in {"sdArtifact", "sdTask", "done"} =>
           pc'[Stopper] \in {"sdArtifact", "sdTask", "done"}
      /\ pc[Stopper] = "done" => pc'[Stopper] = "done"
      /\ pc'[Stopper] = "idle" => pc[Stopper] = "idle"
  <2>1. CASE Stop \/ StopWait \/ StopClose \/ StopArtifact \/ StopTask
    BY <1>1, <2>1 DEF Stop, StopWait, StopClose, StopArtifact, StopTask, Goto, TypeOK
  <2>2. CASE CancelStep(Stopper)
    BY <1>1, <2>2 DEF CancelStep, CancelTask, CancelApprovals, CancelShell, Goto, TypeOK
  <2> QED
    BY <2>1, <2>2, NeverBack DEF StopStep
<1> QED
  BY <1>2, <1>3

LEMMA ClosedByNext == ASSUME TypeOK, Told, ClosedBy, [Next]_vars PROVE ClosedBy'
<1>1. Runner \in Thread /\ Stopper \in Thread
  BY DEF Thread
<1>2. CASE closed
  BY <1>2, LastSteps, NeverBack DEF ClosedBy
<1>3. CASE Close \/ StartTerminal
  BY <1>1, <1>3 DEF ClosedBy, Close, StartTerminal, Goto, TypeOK
<1>4. CASE StopClose
  BY <1>1, <1>4 DEF ClosedBy, Told, StopClose, Goto, TypeOK
<1>5. CASE closed' = closed
  BY <1>2, <1>5 DEF ClosedBy
<1> QED
  BY <1>3, <1>4, <1>5, WhoseStep, RunnerWrites, DeciderSteady, CancelSteady, StopSteady, RestSteady
     DEF control

LEMMA ActiveStep == ASSUME TypeOK, [Next]_vars, active' # active PROVE Release \/ StopTask
  BY WhoseStep, RunnerWrites, DeciderSteady, CancelSteady, StopSteady, RestSteady DEF control

LEMMA FreedByNext == ASSUME TypeOK, FreedBy, [Next]_vars PROVE FreedBy'
<1>1. Runner \in Thread /\ Stopper \in Thread
  BY DEF Thread
<1>2. CASE Release \/ StopTask
  BY <1>1, <1>2 DEF FreedBy, Release, StopTask, Goto, TypeOK
<1>3. CASE active' = active
  BY <1>3, LastSteps DEF FreedBy
<1> QED
  BY <1>2, <1>3, ActiveStep

FreeInv == EndInv /\ Told /\ ClosedBy /\ FreedBy /\ EndKept

LEMMA EndKeptNext == ASSUME EndInv, ClosedBy, EndKept, [Next]_vars PROVE EndKept'
<1> SUFFICES ASSUME pc'[Runner] \in {"close", "publish", "release", "done"}, ~degraded',
                    pc'[Stopper] = "idle", goal' = "blocked" => faults' = 0
             PROVE  task'.status = goal' /\ goal' \in Terminal
  BY DEF EndKept
<1>1. TypeOK /\ Runner \in Thread
  BY DEF EndInv, SafeInv, GateInv, TypeInv, Thread
<1>2. ~degraded /\ pc[Stopper] = "idle" /\ (faults' = 0 => faults = 0)
  BY <1>1, NeverBack, LastSteps
<1>3. CASE PersistTask \/ StartTerminal
  BY <1>3 DEF PersistTask, StartTerminal, Ended, EndInv, SafeInv, GateInv, TypeInv, GoalChosen, GoalPC
<1>4. CASE StartPersistFails
  BY <1>2, <1>4 DEF StartPersistFails, ClosedBy
<1>5. CASE Close \/ Publish \/ Release
  BY <1>2, <1>5 DEF Close, Publish, Release, store, history, EndKept
<1>6. CASE RunnerStep /\ ~(PersistTask \/ StartTerminal \/ StartPersistFails \/ Close \/ Publish \/ Release)
  BY <1>1, <1>6, RunnerArrives
     DEF LateSteps, RequestCreate, RequestTask, RequestCommit, PersistArtifact, StartArtifact, Goto, TypeOK
<1>7. CASE ~RunnerStep
  <2>1. pc'[Runner] = pc[Runner] /\ goal' = goal
    BY <1>1, <1>7, RunnerStays
  <2>2. task.status = goal /\ goal \in Terminal
    BY <1>2, <2>1 DEF EndKept
  <2>3. task' = task
    <3>1. goal = "blocked" => faults = 0
      BY <1>2, <2>1
    <3> QED
      BY <1>2, <2>2, <3>1, EndReplaced DEF EndInv
  <2> QED
    BY <2>1, <2>2, <2>3
<1> QED
  BY <1>3, <1>4, <1>5, <1>6, <1>7

LEMMA FreeInit == Init => FreeInv
<1> SUFFICES ASSUME Init PROVE FreeInv
  OBVIOUS
<1>1. \A t \in Thread : pc[t] \in {"queued", "idle"}
  BY DEF Init
<1>2. Runner \in Thread /\ Stopper \in Thread /\ Cancellers \subseteq Thread
  BY DEF Thread
<1> QED
  BY <1>1, <1>2, EndInit DEF Init, FreeInv, Told, ClosedBy, FreedBy, EndKept

LEMMA FreeNext == FreeInv /\ [Next]_vars => FreeInv'
  BY EndNext, ToldNext, ClosedByNext, FreedByNext, EndKeptNext
     DEF FreeInv, EndInv, SafeInv, GateInv, TypeInv

\* Whatever write raises, a service that is free, neither degraded nor shutting down has
\* left its Task terminal: but for a Run that ended blocked, of which no write may have
\* raised.
THEOREM FreeIsTerminal == Spec => []FreeMeansTerminal
<1>1. FreeInv => FreeMeansTerminal
  BY DEF FreeInv, FreedBy, EndKept, FreeMeansTerminal
<1> QED
  BY <1>1, FreeInit, FreeNext, PTL DEF Spec

-----------------------------------------------------------------------------
(* What a waiting Runner finds.                                            *)

\* Program counters at which the Runner has asked for the approval cur.
AskingPC == {"rqCreate", "rqTask", "rqCommit", "rqUndoApproval", "rqUndoTask", "rqUndoCommit",
             "wait", "checkExpired"}

\* The Approvals up to cur are the ones there are, and the ones decided.
Asked ==
  /\ \A a \in Approvals : a > cur => approval[a] = "none"
  /\ \A d \in Deciders : pc[d] \in {"dcGate"} \cup ResolvePC =>
       move[d].apr \in 1 .. cur /\ move[d].to \in {"approved", "rejected"}
  /\ pc[Runner] \in ResolvePC => move[Runner].apr \in 1 .. cur
  /\ pc[Runner] \in AskingPC => cur > 0

\* The first Approval is waited for, or decided and the Task running again.
Settled == \/ task = Waiting(1) /\ approval[1] = "pending"
           \/ task = Resumed /\ approval[1] # "pending"

\* A decider that has got to p with it: the rollback it may have to do is as good as its proof.
Answers(d, p) ==
  /\ p \in ResolvePC => move[d].prior = 1
  /\ p \in {"rsApproval", "rsCommit"} => task = Resumed
  /\ p = "rsCommit" => approval[1] # "pending"
  /\ p \in {"rbTask", "rbCommit"} /\ move[d].ok => approval[1] = "pending"
  /\ p = "rbCommit" /\ move[d].ok => task = Waiting(1)

\* The first Approval of a Run, from the request to its answer, in a service that goes on.
FirstAsked ==
  cur = 1 /\ ~degraded /\ ~token =>
    /\ pc[Runner] \in {"rqTask", "rqCommit"} => approval[1] = "pending"
    /\ pc[Runner] = "rqCommit" => task = Waiting(1)
    /\ pc[Runner] = "wait" => /\ gate = {} => Settled
                              /\ \A d \in Deciders : Answers(d, pc[d])

LEMMA AskedRunner ==
  ASSUME TypeOK, Asked, RunnerStep
  PROVE  /\ pc'[Runner] \in ResolvePC => move'[Runner].apr \in 1 .. cur'
         /\ pc'[Runner] \in AskingPC => cur' > 0
<1>0. Runner \in Thread /\ MaxApprovals \in Nat /\ Runner \notin Deciders
  BY BoundsAreNaturals, ThreadsDiffer DEF Thread
<1> USE <1>0 DEF TypeOK, Goto, ResolvePC, AskingPC, Asked
<1>1. CASE Start \/ StartCancelled \/ StartFails \/ BuildRuntime \/ BuildFails
  BY <1>1 DEF Start, StartCancelled, StartFails, BuildRuntime, BuildFails
<1>2. CASE StartArtifact \/ StartTerminal \/ StartPersistFails
  BY <1>2 DEF StartArtifact, StartTerminal, StartPersistFails
<1>3. CASE Request \/ RequestCreate \/ RequestTask \/ RequestCommit
  <2>1. CASE Request
    <3>1. cur' = cur + 1 /\ cur \in Nat
      BY <2>1 DEF Request
    <3>2. pc'[Runner] \in {"rqCreate", "rqUndoTask"}
      BY <2>1 DEF Request
    <3> QED
      BY <3>1, <3>2
  <2>2. CASE RequestCreate \/ RequestTask \/ RequestCommit
    BY <2>2 DEF RequestCreate, RequestTask, RequestCommit
  <2> QED
    BY <1>3, <2>1, <2>2
<1>4. CASE UndoApproval \/ UndoTask \/ UndoCommit
  BY <1>4 DEF UndoApproval, UndoTask, UndoCommit, CloseTransition
<1>5. CASE WaitDecided \/ WaitCancelled \/ WaitExpired \/ CheckApproved \/ CheckExpired
  BY <1>5 DEF WaitDecided, WaitCancelled, WaitExpired, CheckApproved, CheckExpired
<1>6. CASE Expire \/ ToolStart \/ NoticeCancel \/ AgentEnds \/ Unwind
  BY <1>6 DEF Expire, ToolStart, NoticeCancel, AgentEnds, Unwind, Resolve, Moving
<1>7. CASE Converge \/ ConvergePending \/ ConvergeCancel
  BY <1>7 DEF Converge, ConvergePending, ConvergeCancel
<1>8. CASE PersistArtifact \/ PersistTask \/ PersistFails
  BY <1>8 DEF PersistArtifact, PersistTask, PersistFails
<1>9. CASE Close \/ Publish \/ Release
  BY <1>9 DEF Close, Publish, Release
<1>10. CASE ResolveStep(Runner)
  <2>1. /\ pc[Runner] \in ResolvePC /\ move'[Runner].apr = move[Runner].apr /\ cur' = cur
        /\ pc'[Runner] \notin AskingPC
    <3>1. CASE ResolveTask(Runner) \/ ResolveApproval(Runner) \/ ResolveCommit(Runner)
      BY <3>1 DEF ResolveTask, ResolveApproval, ResolveCommit
    <3>2. CASE RollbackApproval(Runner) \/ RollbackTask(Runner)
      BY <3>2 DEF RollbackApproval, RollbackTask, Unproven, Moves
    <3>3. CASE RollbackCommit(Runner)
      BY <3>3 DEF RollbackCommit
    <3> QED
      BY <1>10, <3>1, <3>2, <3>3 DEF ResolveStep
  <2> QED
    BY <2>1
<1> QED
  BY <1>1, <1>2, <1>3, <1>4, <1>5, <1>6, <1>7, <1>8, <1>9, <1>10 DEF RunnerStep

LEMMA AskedDecider ==
  ASSUME TypeOK, Asked, NEW d \in Deciders, DeciderActs(d), pc'[d] \in {"dcGate"} \cup ResolvePC
  PROVE  move'[d].apr \in 1 .. cur /\ move'[d].to \in {"approved", "rejected"}
<1>1. d \in Thread /\ d # Runner /\ cur \in Nat
  BY BoundsAreNaturals, ThreadsDiffer DEF Thread, TypeOK
<1>2. CASE ResolveStep(d)
  <2>1. pc[d] \in ResolvePC
    BY <1>2 DEF ResolveStep, ResolveTask, ResolveApproval, ResolveCommit, RollbackApproval,
                RollbackTask, RollbackCommit, ResolvePC
  <2>2. move'[d].apr = move[d].apr /\ move'[d].to = move[d].to
    BY <1>1, <1>2 DEF ResolveStep, ResolveTask, ResolveApproval, ResolveCommit, RollbackApproval,
                      RollbackTask, RollbackCommit, Unproven, TypeOK, Moves
  <2> QED
    BY <2>1, <2>2 DEF Asked
<1>3. CASE DecideGate(d)
  BY <1>1, <1>3 DEF DecideGate, Resolve, Moving, Asked, TypeOK
<1>4. CASE \E a \in Approvals, s \in {"approved", "rejected"} : Decide(d, a, s)
  <2>1. PICK a \in Approvals, s \in {"approved", "rejected"} : Decide(d, a, s)
    BY <1>4
  <2>2. move'[d].apr = a /\ move'[d].to = s /\ approval[a] # "none" /\ a \in Nat /\ a > 0
    BY <1>1, <2>1, BoundsAreNaturals DEF Decide, Choice, TypeOK, Approvals
  <2> QED
    BY <1>1, <2>2 DEF Asked
<1>5. ~DecideRefused(d)
  BY <1>1 DEF DecideRefused, Goto, TypeOK, ResolvePC
<1> QED
  BY <1>2, <1>3, <1>4, <1>5 DEF DeciderActs, DeciderStep

LEMMA AskedNext == ASSUME TypeOK, Asked, [Next]_vars PROVE Asked'
<1>1. Runner \in Thread /\ Runner \notin Deciders /\ cur \in Nat /\ MaxApprovals \in Nat
      /\ approval \in [Approvals -> ApprovalStatus]
  BY BoundsAreNaturals, ThreadsDiffer DEF Thread, TypeOK
<1>2. cur' \in Nat /\ cur =< cur'
  <2>1. Request => cur' = cur + 1
    BY DEF Request
  <2>2. CASE RunnerStep
    BY <1>1, <2>1, <2>2, RunnerWrites
  <2>3. CASE ~RunnerStep
    BY <1>1, <2>3, RunnerStays
  <2> QED
    BY <2>2, <2>3
<1>3. ASSUME NEW a \in Approvals, a > cur PROVE approval'[a] = approval[a]
  <2>1. approval[a] = "none" /\ a \in Nat /\ a # cur
    BY <1>1, <1>3 DEF Asked, Approvals
  <2>2. CASE approval' = approval
    BY <2>2
  <2>3. CASE RequestCreate \/ UndoApproval \/ ConvergeCancel
    BY <1>1, <2>1, <2>3 DEF RequestCreate, UndoApproval, ConvergeCancel, CancelledIn, Landed, Pending
  <2>4. ASSUME NEW t \in {Runner} \cup Deciders, ResolveApproval(t) \/ RollbackApproval(t)
        PROVE  approval'[a] = approval[a]
    <3>1. pc[t] \in ResolvePC
      BY <2>4 DEF ResolveApproval, RollbackApproval, ResolvePC
    <3>2. move[t].apr \in 1 .. cur
      BY <3>1 DEF Asked
    <3>3. move[t].apr # a
      BY <1>1, <1>3, <2>1, <3>2
    <3> QED
      BY <1>1, <2>4, <3>3 DEF ResolveApproval, RollbackApproval, Landed
  <2>5. ASSUME NEW t \in {Stopper} \cup Cancellers, CancelApprovals(t)
        PROVE  approval'[a] = approval[a]
    BY <2>1, <2>5 DEF CancelApprovals, CancelledIn, Pending
  <2> QED
    BY <2>2, <2>3, <2>4, <2>5, WhoseStep, RunnerWrites, DeciderSteady, CancelSteady, StopSteady,
       RestSteady DEF store
<1>4. \A a \in Approvals : a > cur' => approval'[a] = "none"
  BY <1>1, <1>2, <1>3 DEF Asked, Approvals
<1>5. ASSUME NEW d \in Deciders, pc'[d] \in {"dcGate"} \cup ResolvePC
      PROVE  move'[d].apr \in 1 .. cur' /\ move'[d].to \in {"approved", "rejected"}
  <2>1. move'[d].apr \in 1 .. cur /\ move'[d].to \in {"approved", "rejected"}
    BY <1>5, AskedDecider, DeciderStays DEF Asked
  <2> QED
    BY <1>1, <1>2, <2>1
<1>6. /\ pc'[Runner] \in ResolvePC => move'[Runner].apr \in 1 .. cur'
      /\ pc'[Runner] \in AskingPC => cur' > 0
  <2>1. CASE ~RunnerStep
    BY <2>1, RunnerStays DEF Asked
  <2> QED
    BY <2>1, AskedRunner
<1> QED
  BY <1>4, <1>5, <1>6 DEF Asked

\* A decider's step while the Runner waits for the first Approval.
LEMMA FirstAnswered ==
  ASSUME SafeInv, Asked, ClosedBy, FirstAsked, NEW d \in Deciders, DeciderActs(d),
         cur = 1, ~degraded', ~token, pc[Runner] = "wait"
  PROVE  /\ gate' = {} => Settled'
         /\ Answers(d, pc[d])'
         /\ task' # task \/ approval' # approval => gate = {d}
<1>1. TypeOK /\ d \in Thread /\ d # Runner /\ ~closed /\ ~degraded
  BY DeciderSteady, ThreadsDiffer DEF SafeInv, GateInv, TypeInv, Thread, ClosedBy, Steady
<1>2. 1 \in Approvals /\ approval \in [Approvals -> ApprovalStatus]
      /\ move \in [Thread -> Moves] /\ pc \in [Thread -> PC]
  BY <1>1, BoundsAreNaturals DEF TypeOK, Approvals
<1>3. (gate = {} => Settled) /\ Answers(d, pc[d])
  BY <1>1 DEF FirstAsked
<1>4. pc[d] \in {"dcGate"} \cup ResolvePC => move[d].apr = 1 /\ move[d].to \in {"approved", "rejected"}
  BY DEF Asked
<1>5. pc[d] \in ResolvePC => gate = {d}
  BY <1>1 DEF SafeInv, GateInv, GateExclusive, GatedPC
<1>6. CASE ResolveTask(d)
  BY <1>1, <1>2, <1>3, <1>4, <1>5, <1>6
     DEF ResolveTask, Answers, ResolvePC, Goto, control
<1>7. CASE ResolveApproval(d)
  BY <1>1, <1>2, <1>3, <1>4, <1>5, <1>7
     DEF ResolveApproval, Answers, ResolvePC, Goto, control
<1>8. CASE ResolveCommit(d)
  BY <1>1, <1>2, <1>3, <1>4, <1>5, <1>8
     DEF ResolveCommit, Answers, ResolvePC, Goto, Settled, Leave
<1>9. CASE RollbackApproval(d)
  BY <1>1, <1>2, <1>3, <1>4, <1>5, <1>9
     DEF RollbackApproval, Answers, ResolvePC, Goto, control, Unproven, Moves
<1>10. CASE RollbackTask(d)
  BY <1>1, <1>2, <1>3, <1>4, <1>5, <1>10
     DEF RollbackTask, Answers, ResolvePC, Goto, control, Unproven, Moves
<1>11. CASE RollbackCommit(d)
  BY <1>1, <1>2, <1>3, <1>4, <1>5, <1>11
     DEF RollbackCommit, Answers, ResolvePC, Goto, Settled, Leave, CloseTransition, Waiting, Resumed
<1>12. CASE DecideGate(d)
  <2>1. task.pending = 1
    BY <1>3, <1>4, <1>12 DEF DecideGate, Resolve, Enter, Settled, Waiting
  <2> QED
    BY <1>1, <1>2, <1>12, <2>1 DEF DecideGate, Resolve, Moving, Answers, ResolvePC, Goto, Enter
<1>13. CASE DecideRefused(d) \/ \E a \in Approvals, s \in {"approved", "rejected"} : Decide(d, a, s)
  BY <1>1, <1>2, <1>3, <1>13
     DEF DecideRefused, Decide, Answers, ResolvePC, Goto, Settled, store, control
<1> QED
  BY <1>6, <1>7, <1>8, <1>9, <1>10, <1>11, <1>12, <1>13 DEF DeciderActs, DeciderStep, ResolveStep

\* The others' steps change nothing of it while the token is not set.
LEMMA FirstUntouched ==
  ASSUME TypeOK, Told, [Next]_vars, ~token', ~RunnerStep, \A d \in Deciders : ~DeciderActs(d)
  PROVE  UNCHANGED <<task, approval, gate>>
<1>1. ~token
  BY NeverBack
<1>2. ASSUME NEW c \in {Stopper} \cup Cancellers, Cancel(c) \/ CancelStep(c)
      PROVE  UNCHANGED <<task, approval, gate>>
  <2>1. ~CancelTask(c) /\ ~CancelApprovals(c) /\ ~CancelShell(c)
    BY <1>1 DEF CancelTask, CancelApprovals, CancelShell, Told
  <2> QED
    BY <1>2, <2>1 DEF Cancel, CancelStep, store, control
<1>3. CASE Stop \/ StopWait \/ StopClose \/ StopArtifact \/ StopTask
  <2>1. ~(StopWait \/ StopClose \/ StopArtifact \/ StopTask)
    BY <1>1 DEF StopWait, StopClose, StopArtifact, StopTask, Told
  <2> QED
    BY <1>3, <2>1 DEF Stop, store, control
<1>4. CASE Rests
  BY <1>4, RestSteady DEF store, control
<1> QED
  BY <1>2, <1>3, <1>4, WhoseStep

LEMMA FirstAskedNext ==
  ASSUME SafeInv, Asked, Told, ClosedBy, FirstAsked, [Next]_vars PROVE FirstAsked'
<1> SUFFICES ASSUME cur' = 1, ~degraded', ~token'
             PROVE  (/\ pc[Runner] \in {"rqTask", "rqCommit"} => approval[1] = "pending"
                     /\ pc[Runner] = "rqCommit" => task = Waiting(1)
                     /\ pc[Runner] = "wait" => /\ gate = {} => Settled
                                               /\ \A d \in Deciders : Answers(d, pc[d]))'
  BY DEF FirstAsked
<1>1. TypeOK /\ Runner \in Thread /\ Deciders \subseteq Thread /\ Runner \notin Deciders
      /\ ~degraded /\ ~token
  BY NeverBack, ThreadsDiffer DEF SafeInv, GateInv, TypeInv, Thread
<1>2. 1 \in Approvals /\ approval \in [Approvals -> ApprovalStatus]
  <2>1. TypeOK'
    BY SafeNext DEF SafeInv, GateInv, TypeInv
  <2> QED
    BY <1>1, <2>1, BoundsAreNaturals DEF TypeOK, Approvals
<1>3. pc[Runner] \in GatedPC => gate = {Runner} /\ \A d \in Deciders : pc[d] \notin ResolvePC
  BY <1>1, HolderIsAlone DEF SafeInv, GateInv, GateExclusive, GatedPC
<1>4. CASE RunnerStep
  <2>1. CASE RequestCreate
    BY <1>1, <1>2, <2>1 DEF RequestCreate, Goto, TypeOK
  <2>2. CASE RequestTask
    BY <1>1, <2>2 DEF RequestTask, FirstAsked, control, Goto, TypeOK
  <2>3. CASE RequestCommit
    <3>1. /\ cur = 1 /\ approval[1] = "pending" /\ task = Waiting(1)
          /\ \A d \in Deciders : pc'[d] = pc[d] /\ pc[d] \notin ResolvePC
      <4>1. \A d \in Deciders : pc'[d] = pc[d]
        BY <1>1, <1>4, RunnerSteady DEF Steady
      <4> QED
        BY <1>1, <1>3, <2>3, <4>1 DEF RequestCommit, FirstAsked, GatedPC
    <3>2. pc'[Runner] \notin {"rqTask", "rqCommit"} /\ UNCHANGED <<task, approval>>
      BY <1>1, <2>3 DEF RequestCommit, Goto, TypeOK
    <3> QED
      BY <3>1, <3>2 DEF Settled, Answers, ResolvePC
  <2>4. CASE ~(RequestCreate \/ RequestTask \/ RequestCommit)
    <3>1. pc'[Runner] \notin {"rqTask", "rqCommit", "wait"}
      BY <1>1, <1>4, <2>4, RunnerArrives
         DEF LateSteps, PersistArtifact, StartArtifact, PersistTask, StartTerminal, StartPersistFails,
             Close, Publish, Release, Goto, TypeOK
    <3> QED
      BY <3>1
  <2> QED
    BY <2>1, <2>2, <2>3, <2>4
<1>5. CASE ~RunnerStep
  <2>1. pc'[Runner] = pc[Runner] /\ cur = 1
    BY <1>1, <1>5, RunnerStays
  <2>2. CASE \E d \in Deciders : DeciderActs(d)
    <3>1. PICK d \in Deciders : DeciderActs(d)
      BY <2>2
    <3>2. CASE pc[Runner] \in {"rqTask", "rqCommit"}
      <4>1. pc[d] \notin ResolvePC
        BY <1>3, <3>2 DEF GatedPC
      <4>2. task' = task /\ approval' = approval
        BY <1>1, <3>1, <4>1, DeciderSteady
           DEF ResolveTask, ResolveApproval, RollbackApproval, RollbackTask, ResolvePC
      <4> QED
        BY <1>1, <2>1, <3>2, <4>2 DEF FirstAsked
    <3>3. CASE pc[Runner] = "wait"
      <4>1. /\ gate' = {} => Settled'
            /\ Answers(d, pc[d])'
            /\ task' # task \/ approval' # approval => gate = {d}
        BY <1>1, <2>1, <3>1, <3>3, FirstAnswered
      <4>2. ASSUME NEW e \in Deciders, e # d PROVE Answers(e, pc[e])'
        <5>1. pc'[e] = pc[e] /\ move'[e] = move[e] /\ Answers(e, pc[e])
          BY <1>1, <2>1, <3>1, <3>3, <4>2, DeciderSteady DEF Steady, FirstAsked
        <5>2. CASE pc[e] \in ResolvePC
          <6>1. gate # {d}
            BY <1>1, <4>2, <5>2 DEF SafeInv, GateInv, GateExclusive, GatedPC
          <6> QED
            BY <4>1, <5>1, <6>1 DEF Answers
        <5>3. CASE pc[e] \notin ResolvePC
          BY <5>1, <5>3 DEF Answers, ResolvePC
        <5> QED
          BY <5>2, <5>3
      <4> QED
        BY <2>1, <3>3, <4>1, <4>2
    <3> QED
      BY <2>1, <3>2, <3>3
  <2>3. CASE \A d \in Deciders : ~DeciderActs(d)
    <3>1. UNCHANGED <<task, approval, gate>>
      BY <1>1, <1>5, <2>3, FirstUntouched
    <3>2. \A d \in Deciders : pc'[d] = pc[d] /\ move'[d] = move[d]
      BY <1>1, <2>3, DeciderStays
    <3> QED
      BY <1>1, <2>1, <3>1, <3>2 DEF FirstAsked, Settled, Answers, Waiting, Resumed
  <2> QED
    BY <2>2, <2>3
<1> QED
  BY <1>4, <1>5

WaitInv == SafeInv /\ FaultlessInv /\ Told /\ ClosedBy /\ Asked /\ FirstAsked

LEMMA WaitInit == Init => WaitInv
<1> SUFFICES ASSUME Init PROVE WaitInv
  OBVIOUS
<1>1. \A t \in Thread : pc[t] \in {"queued", "idle"}
  BY DEF Init
<1>2. Runner \in Thread /\ Deciders \subseteq Thread
  BY DEF Thread
<1>3. Asked
  BY <1>1, <1>2 DEF Init, Asked, ResolvePC, AskingPC
<1> QED
  BY <1>3, SafeInit, FaultlessInit, FreeInit DEF Init, WaitInv, FirstAsked, FreeInv

LEMMA WaitNext == WaitInv /\ [Next]_vars => WaitInv'
  BY SafeNext, FaultlessNext, ToldNext, ClosedByNext, AskedNext, FirstAskedNext
     DEF WaitInv, SafeInv, GateInv, TypeInv

\* Whatever write raises, outside the gated sections and unless the service refuses further
\* work, a Runner that waits for the first Approval of its Run finds the Task waiting with
\* the Approval pending, or running with it decided; for a later Approval, until a write
\* raises.
THEOREM WaitersAgree == Spec => []WaiterAgrees
<1>1. WaitInv => WaiterAgrees
  <2> SUFFICES ASSUME WaitInv, gate = {}, ~degraded, ~token, pc[Runner] = "wait", cur = 1 \/ faults = 0
               PROVE  \/ task = Waiting(cur) /\ cur \in Pending
                      \/ task = Resumed /\ cur \notin Pending
    BY DEF WaiterAgrees
  <2>1. TypeOK
    BY DEF WaitInv, SafeInv, GateInv, TypeInv
  <2>2. CASE cur = 1
    BY <2>1, <2>2, BoundsAreNaturals DEF WaitInv, FirstAsked, Settled, Pending, TypeOK, Approvals
  <2>3. CASE faults = 0
    <3>1. CalmInv
      BY <2>3 DEF WaitInv, FaultlessInv, Shut, CalmInv
    <3>2. ~Answered /\ RunnerFits("wait", goal)
      BY <3>1, DecidersOut DEF CalmInv, ThreadsFit
    <3>3. task \in Tasks /\ cur \in Approvals /\ approval \in [Approvals -> ApprovalStatus]
      BY <3>1, <3>2, CalmTypes DEF RunnerFits, RunnerAsks
    <3>4. task.status \notin Terminal \cup {"queued", "cancel_requested"}
      BY <3>1, <3>2 DEF RunnerFits, RunnerEnds, CalmInv, SafeInv, CancelTold
    <3>5. CASE cur \in Pending
      BY <3>2, <3>3, <3>4, <3>5 DEF RunnerFits, RunnerShows, Pending, Waiting, Tasks, Approvals
    <3>6. CASE cur \notin Pending
      BY <3>1, <3>3, <3>4, <3>6 DEF CalmInv, Records, Pending, Resumed, Tasks, TaskStatus
    <3> QED
      BY <3>5, <3>6
  <2> QED
    BY <2>2, <2>3
<1> QED
  BY <1>1, WaitInit, WaitNext, PTL DEF Spec

-----------------------------------------------------------------------------
(***************************************************************************)
(* Without failing writes and without a shutdown the Run of BackendRun     *)
(* implements RunContract: its initial states map to initial states and    *)
(* every step of a thread maps to one step of the contract, or to none.    *)
(***************************************************************************)

\* No write of the Run can raise, and the service is not shut down.
Calm     == MaxFaults = 0 /\ ~MayStop
Unshaken == CalmInv /\ pc[Stopper] = "idle"

Stutter == UNCHANGED <<PhaseSeen, AsksSeen, VerdictsSeen, ran>>
Promised == Contract!Next \/ Stutter

\* Outside the writes of a request and of a decision a thread's move is not seen.
LEMMA QuietStep ==
  ASSUME NEW t \in Thread, \A u \in Thread : u # t => pc'[u] = pc[u],
         {pc[t], pc'[t]} \cap {"rqCreate", "rqTask", "rsApproval"} = {},
         UNCHANGED <<task, approval, cur, ran>>
  PROVE  Stutter
<1>1. Runner \in Thread
  BY DEF Thread
<1>2. \A u \in Thread : pc'[u] = "rsApproval" <=> pc[u] = "rsApproval"
  OBVIOUS
<1>3. pc'[Runner] = pc[Runner]
      \/ {pc[Runner], pc'[Runner]} \cap {"rqCreate", "rqTask", "rsApproval"} = {}
  BY <1>1
<1>4. PhaseSeen' = PhaseSeen
  BY <1>2 DEF PhaseSeen
<1>5. AsksSeen' = AsksSeen
  BY <1>3 DEF AsksSeen
<1>6. VerdictsSeen' = VerdictsSeen
  BY <1>3 DEF VerdictsSeen
<1> QED
  BY <1>4, <1>5, <1>6 DEF Stutter

\* Nothing is half written while the gate is free.
LEMMA SeenAsWritten ==
  ASSUME CalmInv, gate = {} \/ (gate = {Runner} /\ pc[Runner] # "rsApproval")
  PROVE  /\ \A t \in Thread : pc[t] # "rsApproval"
         /\ PhaseSeen = IF task.status = "cancel_requested" THEN "cancelling" ELSE task.status
         /\ pc[Runner] \notin {"rqCreate", "rqTask"} => AsksSeen = cur /\ Contract!Open = Pending
<1>1. \A t \in Thread : pc[t] # "rsApproval"
  <2>1. gate = {t \in Thread : pc[t] \in GatedPC}
    BY DEF CalmInv, SafeInv, GateInv, GateExclusive
  <2> QED
    BY <2>1 DEF GatedPC, ResolvePC
<1>2. \A a \in Approvals : pc[Runner] # "rqTask" => (VerdictsSeen[a] = "asked" <=> approval[a] = "pending")
  BY CalmTypes DEF VerdictsSeen, ApprovalStatus, Decided
<1> QED
  BY <1>1, <1>2 DEF PhaseSeen, AsksSeen, Contract!Open, Pending, Approvals

\* The Runner picks the Task up.
LEMMA StartSeen == ASSUME Faultless, CalmInv, Start PROVE Contract!Begin
<1>1. /\ pc[Runner] = "queued" /\ gate = {} /\ ~token /\ Goto(Runner, "init")
      /\ task' = WithStatus("running") /\ UNCHANGED <<approval, cur, ran>>
  BY DEF Start, history
<1>2. task.status = "queued" /\ task'.status = "running"
  BY <1>1, CalmTypes DEF CalmInv, SafeInv, CancelTold, ThreadsFit, RunnerFits, RunnerEnds, WithStatus, Tasks
<1>3. pc'[Runner] = "init" /\ \A t \in Thread : t # Runner => pc'[t] = pc[t]
  BY <1>1, OneMoves, CalmTypes DEF Thread, PC, RunnerPC
<1>4. PhaseSeen = "queued" /\ \A t \in Thread : pc[t] # "rsApproval"
  BY <1>1, <1>2, SeenAsWritten
<1>5. PhaseSeen' = "running"
  BY <1>2, <1>3, <1>4 DEF PhaseSeen
<1>6. AsksSeen' = AsksSeen /\ VerdictsSeen' = VerdictsSeen
  BY <1>1, <1>3 DEF AsksSeen, VerdictsSeen
<1> QED
  BY <1>1, <1>4, <1>5, <1>6 DEF Contract!Begin

\* A request is seen when the Task shows it waits.
LEMMA RequestTaskSeen == ASSUME Faultless, CalmInv, RequestTask PROVE Contract!Ask
<1>1. /\ pc[Runner] = "rqTask" /\ RunnerFits("rqTask", goal) /\ gate = {Runner} /\ ~Raise /\ ~closed
  BY NothingRaises, RunnerHolds DEF RequestTask, GatedPC, CalmInv, ThreadsFit, RunnerFits, RunnerPlace
<1>2. /\ task = Resumed /\ cur \in Approvals /\ cur \in 1 .. MaxApprovals /\ approval[cur] = "pending"
  BY <1>1, CalmTypes DEF RunnerFits, RunnerAsks, RunnerShows, Approvals
<1>3. /\ task' = Waiting(cur) /\ Goto(Runner, "rqCommit") /\ UNCHANGED <<approval, cur, ran>>
  BY <1>1 DEF RequestTask, history
<1>4. pc'[Runner] = "rqCommit" /\ \A t \in Thread : t # Runner => pc'[t] = pc[t]
  BY <1>3, OneMoves, CalmTypes DEF Thread, PC, RunnerPC
<1>5. PhaseSeen = "running" /\ \A t \in Thread : pc[t] # "rsApproval"
  BY <1>1, <1>2, SeenAsWritten DEF Resumed
<1>6. PhaseSeen' = "waiting"
  BY <1>3, <1>4, <1>5 DEF PhaseSeen, Waiting
<1>7. AsksSeen = cur - 1 /\ AsksSeen' = cur /\ AsksSeen + 1 = cur
  BY <1>1, <1>2, <1>3, <1>4, CalmTypes DEF AsksSeen
<1>8. VerdictsSeen' = [VerdictsSeen EXCEPT ![cur] = "asked"]
  BY <1>1, <1>2, <1>3, <1>4 DEF VerdictsSeen
<1>9. AsksSeen < MaxApprovals /\ AsksSeen' = AsksSeen + 1
  BY <1>2, <1>7, CalmTypes
<1>10. VerdictsSeen' = [VerdictsSeen EXCEPT ![AsksSeen + 1] = "asked"]
  BY <1>7, <1>8
<1> QED
  BY <1>3, <1>5, <1>6, <1>9, <1>10 DEF Contract!Ask

\* A verdict is seen when the record of the Approval has it, the Task runs then.
LEMMA ResolveApprovalSeen ==
  ASSUME Faultless, CalmInv, NEW t \in {Runner} \cup Deciders, ResolveApproval(t)
  PROVE  \E v \in Contract!Verdicts : Contract!Answer(v)
<1>1. /\ pc[t] = "rsApproval" /\ Writes(t, "rsApproval") /\ t \in Thread /\ cur > 0 /\ ~Raise
      /\ \A u \in Thread : u # t => pc[u] \notin GatedPC
  BY Resolver, NothingRaises DEF ResolveApproval, CalmInv
<1>2. /\ cur \in Approvals /\ approval[cur] = "pending" /\ task = Resumed
      /\ move[t].apr = cur /\ move[t].to \in Verdicts
  BY <1>1, CalmTypes DEF Writes
<1>3. /\ approval' = [approval EXCEPT ![cur] = move[t].to] /\ Goto(t, "rsCommit")
      /\ UNCHANGED <<task, cur, ran>>
  BY <1>1, <1>2 DEF ResolveApproval, history
<1>4. pc'[t] = "rsCommit" /\ \A u \in Thread : u # t => pc'[u] = pc[u]
  BY <1>1, <1>3, OneMoves, CalmTypes DEF PC, ResolvePC
<1>5. pc[Runner] \notin {"rqCreate", "rqTask"} /\ pc'[Runner] \notin {"rqCreate", "rqTask"}
  BY <1>1, <1>4 DEF GatedPC, Thread
<1>6. PhaseSeen = "waiting" /\ PhaseSeen' = "running"
  BY <1>1, <1>2, <1>3, <1>4 DEF PhaseSeen, GatedPC, ResolvePC, Resumed
<1>7. AsksSeen = cur /\ AsksSeen' = cur
  BY <1>3, <1>5 DEF AsksSeen
<1>8. VerdictsSeen[cur] = "asked" /\ VerdictsSeen' = [VerdictsSeen EXCEPT ![cur] = move[t].to]
  BY <1>2, <1>3, <1>5, CalmTypes DEF VerdictsSeen, Verdicts
<1>9. Contract!Answer(move[t].to)
  BY <1>3, <1>6, <1>7, <1>8 DEF Contract!Answer
<1> QED
  BY <1>2, <1>9 DEF Verdicts, Contract!Verdicts

\* The Task already runs when the decision is written, a client sees it wait.
LEMMA ResolveTaskSeen ==
  ASSUME Faultless, CalmInv, NEW t \in {Runner} \cup Deciders, ResolveTask(t) PROVE Stutter
<1>1. /\ pc[t] = "rsTask" /\ Writes(t, "rsTask") /\ t \in Thread /\ ~Raise
      /\ \A u \in Thread : u # t => pc[u] \notin GatedPC
      /\ pc[Runner] \in {"wait", "checkExpired", "rsTask", "rsApproval"}
  BY Resolver, NothingRaises DEF ResolveTask, CalmInv
<1>2. task = Waiting(cur) /\ Goto(t, "rsApproval") /\ UNCHANGED <<approval, cur, ran>>
  <2>1. ~closed
    BY <1>1 DEF CalmInv, ThreadsFit, RunnerFits, RunnerPlace
  <2> QED
    BY <1>1, <2>1 DEF ResolveTask, Writes, history
<1>3. pc'[t] = "rsApproval" /\ \A u \in Thread : u # t => pc'[u] = pc[u]
  BY <1>1, <1>2, OneMoves, CalmTypes DEF PC, ResolvePC
<1>4. {pc[Runner], pc'[Runner]} \cap {"rqCreate", "rqTask"} = {}
  BY <1>1, <1>3 DEF Thread
<1>5. PhaseSeen = "waiting" /\ PhaseSeen' = "waiting"
  BY <1>1, <1>2, <1>3 DEF PhaseSeen, Waiting
<1>6. AsksSeen' = AsksSeen /\ VerdictsSeen' = VerdictsSeen
  BY <1>2, <1>4 DEF AsksSeen, VerdictsSeen
<1> QED
  BY <1>2, <1>5, <1>6 DEF Stutter

\* The commit of a decision's journal entry is not seen.
LEMMA ResolveCommitSeen ==
  ASSUME Faultless, CalmInv, NEW t \in {Runner} \cup Deciders, ResolveCommit(t) PROVE Stutter
<1>1. pc[t] = "rsCommit" /\ t \in Thread /\ ~Raise
  BY NothingRaises DEF ResolveCommit, CalmInv, Thread
<1>2. /\ Goto(t, IF t = Runner THEN "run" ELSE "done")
      /\ UNCHANGED <<task, approval, cur, ran>>
  BY <1>1 DEF ResolveCommit, history
<1>3. pc'[t] \in {"run", "done"} /\ \A u \in Thread : u # t => pc'[u] = pc[u]
  BY <1>1, <1>2, CalmTypes DEF Goto
<1> QED
  BY <1>1, <1>2, <1>3, QuietStep

\* The call starts that the user approved, for the first time.
LEMMA ToolStartSeen == ASSUME Faultless, CalmInv, ToolStart PROVE Contract!StartTool
<1>1. /\ pc[Runner] = "tool" /\ gate = {} /\ ~token /\ RunnerFits("tool", goal)
      /\ ran' = ran \cup {cur} /\ Goto(Runner, "run") /\ UNCHANGED <<task, approval, cur>>
  BY DEF ToolStart, store, CalmInv, ThreadsFit
<1>2. cur \in 1 .. MaxApprovals /\ cur \in Approvals /\ cur \notin ran /\ approval[cur] = "approved"
  BY <1>1, CalmTypes DEF RunnerFits, RunnerAsks, Approvals
<1>3. task.status = "running"
  BY <1>1, CalmTypes
     DEF RunnerFits, RunnerShows, RunnerEnds, TaskStatus, CalmInv, SafeInv, CancelTold
<1>4. pc'[Runner] = "run" /\ \A t \in Thread : t # Runner => pc'[t] = pc[t]
  BY <1>1, OneMoves, CalmTypes DEF Thread, PC, RunnerPC
<1>5. PhaseSeen = "running" /\ AsksSeen = cur /\ \A t \in Thread : pc[t] # "rsApproval"
  BY <1>1, <1>3, SeenAsWritten
<1>6. UNCHANGED <<PhaseSeen, AsksSeen, VerdictsSeen>>
  BY <1>1, <1>4, <1>5 DEF PhaseSeen, AsksSeen, VerdictsSeen
<1>7. VerdictsSeen[cur] = "approved"
  BY <1>2 DEF VerdictsSeen
<1> QED
  BY <1>1, <1>2, <1>5, <1>6, <1>7 DEF Contract!StartTool

\* The withdrawal of a cancelled Task's question, if there is one.
LEMMA WithdrawalSeen ==
  ASSUME CalmInv, gate = {}, approval' = CancelledIn(Pending), UNCHANGED <<task, cur, ran>>,
         NEW t \in Thread, \A u \in Thread : u # t => pc'[u] = pc[u],
         {pc[t], pc'[t]} \cap {"rqCreate", "rqTask", "rsApproval"} = {},
         token, task.status \notin Terminal \/ Pending = {}
  PROVE  Contract!Withdraw \/ Stutter
<1>1. Runner \in Thread /\ pc[Runner] \notin GatedPC
  BY HolderIsAlone, ThreadsDiffer DEF CalmInv, SafeInv, GateInv, GateExclusive, Thread
<1>2. {pc[Runner], pc'[Runner]} \cap {"rqCreate", "rqTask"} = {}
  BY <1>1 DEF GatedPC
<1>3. CASE Pending = {}
  <2>1. approval' = approval
    BY <1>3, CalmTypes DEF CancelledIn
  <2> QED
    BY <2>1, QuietStep
<1>4. CASE Pending # {}
  <2>1. task.status = "cancel_requested"
    BY <1>4 DEF CalmInv, Records
  <2>2. /\ PhaseSeen = "cancelling" /\ \A u \in Thread : pc[u] # "rsApproval"
        /\ Contract!Open = Pending
    BY <1>2, <2>1, SeenAsWritten
  <2>3. PhaseSeen' = "cancelling" /\ AsksSeen' = AsksSeen
    BY <1>2, <2>1, <2>2 DEF PhaseSeen, AsksSeen
  <2>4. \A a \in Approvals :
          VerdictsSeen'[a] = IF a \in Pending THEN "cancelled" ELSE VerdictsSeen[a]
    BY <1>2 DEF VerdictsSeen, CancelledIn, Pending
  <2>5. VerdictsSeen' = [a \in Approvals |-> VerdictsSeen'[a]]
    BY DEF VerdictsSeen
  <2>6. VerdictsSeen' = [a \in Approvals |-> IF a \in Pending THEN "cancelled" ELSE VerdictsSeen[a]]
    BY <2>4, <2>5
  <2> QED
    BY <1>4, <2>2, <2>3, <2>6 DEF Contract!Withdraw, Approvals
<1> QED
  BY <1>3, <1>4

\* The Runner withdraws, at its end, the question a cancelled Task still shows.
LEMMA ConvergeCancelSeen ==
  ASSUME Faultless, CalmInv, ConvergeCancel PROVE Contract!Withdraw \/ Stutter
<1>1. /\ pc[Runner] = "cvCancel" /\ gate = {} /\ RunnerFits("cvCancel", goal) /\ ~Raise
      /\ UNCHANGED <<task, cur, ran>>
  BY NothingRaises DEF ConvergeCancel, CalmInv, ThreadsFit
<1>2. approval' = CancelledIn(Pending) /\ Goto(Runner, "artifact")
  BY <1>1 DEF ConvergeCancel
<1>3. pc'[Runner] = "artifact" /\ \A u \in Thread : u # Runner => pc'[u] = pc[u]
  BY <1>2, OneMoves, CalmTypes DEF Thread, PC, RunnerPC
<1>4. task.status \notin Terminal
  BY <1>1 DEF RunnerFits, RunnerEnds
<1>5. CASE Pending = {}
  <2>1. approval' = approval
    BY <1>2, <1>5, CalmTypes DEF CancelledIn
  <2>2. Runner \in Thread /\ {pc[Runner], pc'[Runner]} \cap {"rqCreate", "rqTask", "rsApproval"} = {}
    BY <1>1, <1>3 DEF Thread
  <2> QED
    BY <1>1, <1>3, <2>1, <2>2, QuietStep, Zenon
<1>6. CASE Pending # {}
  <2>1. PICK a \in Approvals : approval[a] = "pending"
    BY <1>6 DEF Pending
  <2>2. a = cur /\ cur > 0
    BY <2>1, PendingIsCurrent
  <2>3. ~Answered
    BY <1>1, DecidersOut
  <2>4. task.status \in {"waiting", "cancel_requested"}
    BY <1>1, <2>1, <2>2, <2>3 DEF RunnerFits, RunnerShows
  <2>5. token
    BY <1>1, <2>4 DEF RunnerFits, RunnerShows, CalmInv, SafeInv, CancelTold
  <2> QED
    BY <1>1, <1>2, <1>3, <1>4, <2>5, WithdrawalSeen DEF Thread
<1> QED
  BY <1>5, <1>6

\* An API thread withdraws it after its cancellation.
LEMMA CancelApprovalsSeen ==
  ASSUME Faultless, CalmInv, NEW c \in Cancellers, CancelApprovals(c)
  PROVE  Contract!Withdraw \/ Stutter
<1>1. /\ pc[c] = "cnPending" /\ gate = {} /\ c \in Thread /\ ~Raise
      /\ token /\ UNCHANGED <<task, cur, ran>> /\ RunnerFits(pc[Runner], goal)
  BY NothingRaises DEF CancelApprovals, CalmInv, ThreadsFit, CancellerFits, Thread
<1>2. approval' = CancelledIn(Pending) /\ Goto(c, "cnShell")
  BY <1>1 DEF CancelApprovals
<1>3. pc'[c] = "cnShell" /\ \A u \in Thread : u # c => pc'[u] = pc[u]
  BY <1>1, <1>2, OneMoves, CalmTypes DEF PC, CancelPC
<1>4. ASSUME Pending # {} PROVE task.status \notin Terminal
  <2>1. PICK a \in Approvals : approval[a] = "pending"
    BY <1>4 DEF Pending
  <2>2. a = cur /\ cur > 0
    BY <2>1, PendingIsCurrent
  <2> QED
    BY <1>1, <2>1, <2>2 DEF RunnerFits, RunnerShows, RunnerEnds
<1>5. {pc[c], pc'[c]} \cap {"rqCreate", "rqTask", "rsApproval"} = {}
  BY <1>1, <1>3
<1> QED
  BY <1>1, <1>2, <1>3, <1>4, <1>5, WithdrawalSeen, Zenon

\* The first of the cancellations is seen.
LEMMA CancelTaskSeen ==
  ASSUME Faultless, CalmInv, NEW c \in Cancellers, CancelTask(c)
  PROVE  Contract!RequestCancel \/ Stutter
<1>1. /\ pc[c] = "cnGate" /\ gate = {} /\ c \in Thread /\ ~Raise /\ RunnerFits(pc[Runner], goal)
      /\ Goto(c, "cnPending") /\ UNCHANGED <<approval, cur, ran>>
  BY NothingRaises DEF CancelTask, CalmInv, ThreadsFit, Thread
<1>2. pc'[c] = "cnPending" /\ \A u \in Thread : u # c => pc'[u] = pc[u]
  BY <1>1, OneMoves, CalmTypes DEF PC, CancelPC
<1>3. closed => task.status \in Terminal
  BY <1>1 DEF RunnerFits, RunnerPlace, RunnerEnds
<1>4. CASE task.status \in Terminal \cup {"cancel_requested"}
  <2>1. task' = task
    BY <1>1, <1>4 DEF CancelTask
  <2> QED
    BY <1>1, <1>2, <2>1, QuietStep
<1>5. CASE task.status \notin Terminal \cup {"cancel_requested"}
  <2>1. task' = WithStatus("cancel_requested")
    BY <1>1, <1>3, <1>5 DEF CancelTask
  <2>2. task'.status = "cancel_requested" /\ task.status \in {"queued", "running", "waiting"}
    BY <1>5, <2>1, CalmTypes DEF WithStatus, Tasks, TaskStatus
  <2>3. PhaseSeen = task.status /\ \A t \in Thread : pc[t] # "rsApproval"
    BY <1>1, <2>2, SeenAsWritten
  <2>4. PhaseSeen' = "cancelling"
    BY <1>2, <2>2, <2>3 DEF PhaseSeen
  <2>5. pc'[Runner] = pc[Runner]
    BY <1>2, ThreadsDiffer DEF Thread
  <2>6. AsksSeen' = AsksSeen /\ VerdictsSeen' = VerdictsSeen
    BY <1>1, <2>5 DEF AsksSeen, VerdictsSeen
  <2> QED
    BY <1>1, <2>2, <2>3, <2>4, <2>6 DEF Contract!RequestCancel
<1> QED
  BY <1>4, <1>5

\* The terminal record is the end a client sees: no question is open, and a Task that
\* shows cancelled was asked to.
LEMMA EndSeen ==
  ASSUME Faultless, CalmInv, PersistTask \/ StartTerminal PROVE \E s \in Contract!Ends : Contract!End(s)
<1>1. /\ pc[Runner] \in {"taskTerminal", "startTerminal"} /\ gate = {Runner}
      /\ RunnerFits(pc[Runner], goal) /\ task' = Ended(goal) /\ UNCHANGED <<approval, cur, ran>>
  BY DEF PersistTask, StartTerminal, Leave, CalmInv, ThreadsFit, history
<1>2. pc'[Runner] \in {"close", "publish"} /\ \A t \in Thread : t # Runner => pc'[t] = pc[t]
  BY CalmTypes DEF PersistTask, StartTerminal, Goto, Thread
<1>3. goal \in Aborted /\ (goal = "cancelled" => token) /\ task.status \notin Terminal
  BY <1>1 DEF RunnerFits, RunnerEnds, GoalPC
<1>4. task.status \in {"running", "cancel_requested"}
      /\ (goal = "cancelled" => task.status = "cancel_requested")
  BY <1>1, <1>3, CalmTypes DEF RunnerFits, RunnerShows, RunnerEnds, TaskStatus, CalmInv, Records
<1>5. Pending = {}
  <2>1. cur > 0 => approval[cur] # "pending"
    BY <1>1 DEF RunnerFits, RunnerShows
  <2> QED
    BY <2>1, CalmTypes DEF Pending, CalmInv, Records, Approvals, Decided
<1>6. /\ \A t \in Thread : pc[t] # "rsApproval"
      /\ PhaseSeen = IF task.status = "cancel_requested" THEN "cancelling" ELSE task.status
      /\ Contract!Open = {}
  BY <1>1, <1>5, SeenAsWritten
<1>7. PhaseSeen' = goal
  <2>1. \A t \in Thread : pc'[t] # "rsApproval"
    BY <1>2, <1>6
  <2> QED
    BY <1>1, <1>3, <2>1 DEF PhaseSeen, Ended, Aborted
<1>8. AsksSeen' = AsksSeen /\ VerdictsSeen' = VerdictsSeen
  BY <1>1, <1>2 DEF AsksSeen, VerdictsSeen
<1>9. Contract!End(goal)
  BY <1>1, <1>4, <1>6, <1>7, <1>8 DEF Contract!End
<1> QED
  BY <1>3, <1>9 DEF Aborted, Contract!Ends

\* A request is not seen before the Task shows it.
LEMMA RequestSeen == ASSUME Faultless, CalmInv, Request PROVE Stutter
<1>1. /\ pc[Runner] = "run" /\ gate = {} /\ ~Raise /\ cur' = cur + 1
      /\ RunnerFits("run", goal) /\ UNCHANGED <<task, approval, ran>>
  BY NothingRaises DEF Request, Enter, CalmInv, ThreadsFit
<1>2. Goto(Runner, "rqCreate") /\ cur \in Nat
  <2>1. cur \in Nat
    BY CalmTypes
  <2> QED
    BY <1>1, <2>1 DEF Request
<1>3. pc'[Runner] = "rqCreate" /\ \A t \in Thread : t # Runner => pc'[t] = pc[t]
  BY <1>2, OneMoves, CalmTypes DEF Thread, PC, RunnerPC
<1>4. PhaseSeen' = PhaseSeen
  <2>1. \A t \in Thread : pc'[t] = "rsApproval" <=> pc[t] = "rsApproval"
    BY <1>1, <1>3
  <2> QED
    BY <1>1, <2>1 DEF PhaseSeen
<1>5. AsksSeen' = AsksSeen
  BY <1>1, <1>2, <1>3 DEF AsksSeen
<1>6. VerdictsSeen' = VerdictsSeen
  BY <1>1, <1>3 DEF VerdictsSeen
<1> QED
  BY <1>1, <1>4, <1>5, <1>6 DEF Stutter

\* Nor is the Approval's record before the Task waits for it.
LEMMA RequestCreateSeen == ASSUME Faultless, CalmInv, RequestCreate PROVE Stutter
<1>1. /\ pc[Runner] = "rqCreate" /\ ~Raise /\ RunnerFits("rqCreate", goal)
      /\ UNCHANGED <<task, cur, ran>>
  BY NothingRaises DEF RequestCreate, CalmInv, ThreadsFit, history
<1>2. /\ approval' = [approval EXCEPT ![cur] = "pending"] /\ Goto(Runner, "rqTask")
  BY <1>1 DEF RequestCreate
<1>3. pc'[Runner] = "rqTask" /\ \A t \in Thread : t # Runner => pc'[t] = pc[t]
  BY <1>2, OneMoves, CalmTypes DEF Thread, PC, RunnerPC
<1>4. cur \in Approvals /\ approval[cur] = "none"
  BY <1>1, CalmTypes DEF RunnerFits, RunnerAsks
<1>5. PhaseSeen' = PhaseSeen
  <2>1. \A t \in Thread : pc'[t] = "rsApproval" <=> pc[t] = "rsApproval"
    BY <1>1, <1>3
  <2> QED
    BY <1>1, <2>1 DEF PhaseSeen
<1>6. AsksSeen' = AsksSeen
  BY <1>1, <1>3 DEF AsksSeen
<1>7. VerdictsSeen' = VerdictsSeen
  <2>1. \A a \in Approvals : a # cur => approval'[a] = approval[a]
    BY <1>2, CalmTypes
  <2>2. approval'[cur] = "pending"
    BY <1>2, <1>4, CalmTypes
  <2> QED
    BY <1>1, <1>3, <1>4, <2>1, <2>2 DEF VerdictsSeen
<1> QED
  BY <1>1, <1>5, <1>6, <1>7 DEF Stutter

\* The Runner's other steps do not show.
LEMMA RunnerQuiet ==
  ASSUME Faultless, CalmInv,
         \/ StartCancelled \/ BuildRuntime \/ BuildFails \/ StartArtifact
         \/ RequestCommit \/ WaitDecided \/ WaitCancelled \/ WaitExpired
         \/ CheckApproved \/ CheckExpired \/ Expire
         \/ NoticeCancel \/ AgentEnds \/ Unwind
         \/ Converge \/ ConvergePending \/ PersistArtifact
         \/ Close \/ Publish \/ Release
  PROVE  Stutter
<1> DEFINE Shown == {"rqCreate", "rqTask", "rsApproval"}
<1>1. ~Raise /\ pc \in [Thread -> PC] /\ Runner \in Thread
  BY NothingRaises, CalmTypes DEF CalmInv, Thread
<1>2. UNCHANGED <<task, approval, cur, ran>> /\ pc[Runner] \notin Shown
  BY <1>1 DEF StartCancelled, BuildRuntime, BuildFails, StartArtifact, RequestCommit, WaitDecided,
              WaitCancelled, WaitExpired, CheckApproved, CheckExpired, Expire, NoticeCancel, AgentEnds,
              Unwind, Converge, ConvergePending, PersistArtifact, Close, Publish, Release,
              store, history
<1>3. \E p \in PC \ Shown : Goto(Runner, p)
  <2>1. CASE StartCancelled \/ BuildRuntime \/ BuildFails \/ StartArtifact \/ RequestCommit
             \/ WaitCancelled \/ WaitExpired \/ Expire
    BY <1>1, <2>1 DEF StartCancelled, BuildRuntime, BuildFails, StartArtifact, RequestCommit,
                      WaitCancelled, WaitExpired, Expire, Resolve, PC, RunnerPC, ResolvePC
  <2>2. CASE NoticeCancel \/ AgentEnds \/ Unwind \/ Converge \/ PersistArtifact
             \/ Close \/ Publish \/ Release
    BY <1>1, <2>2 DEF NoticeCancel, AgentEnds, Unwind, Converge, PersistArtifact, Close, Publish,
                      Release, PC, RunnerPC
  <2>3. CASE WaitDecided
    BY <2>3 DEF WaitDecided, PC, RunnerPC
  <2>4. CASE CheckApproved \/ ConvergePending
    BY <2>4 DEF CheckApproved, ConvergePending, PC, RunnerPC
  <2>5. CASE CheckExpired
    BY <2>5 DEF CheckExpired, PC, RunnerPC
  <2> QED
    BY <2>1, <2>2, <2>3, <2>4, <2>5
<1>4. pc'[Runner] \notin Shown /\ \A t \in Thread : t # Runner => pc'[t] = pc[t]
  BY <1>1, <1>3 DEF Goto
<1> HIDE DEF Shown
<1> QED
  BY <1>1, <1>2, <1>4, QuietStep DEF Shown

\* Nor do the other steps of the API threads.
LEMMA ApiQuiet ==
  ASSUME Faultless, CalmInv,
         \/ \E d \in Deciders : \/ DecideGate(d) \/ DecideRefused(d)
                                \/ \E a \in Approvals, s \in {"approved", "rejected"} : Decide(d, a, s)
         \/ \E c \in Cancellers : Cancel(c) \/ CancelShell(c)
  PROVE  Stutter
<1>1. ~Raise /\ pc \in [Thread -> PC]
  BY NothingRaises, CalmTypes DEF CalmInv
<1>2. ASSUME NEW t \in Thread, NEW p, p \notin {"rqCreate", "rqTask", "rsApproval"}, Goto(t, p),
             pc[t] \notin {"rqCreate", "rqTask", "rsApproval"}, UNCHANGED <<task, approval, cur, ran>>
      PROVE  Stutter
  <2>1. pc'[t] = p /\ \A u \in Thread : u # t => pc'[u] = pc[u]
    BY <1>1, <1>2 DEF Goto
  <2> QED
    BY <1>2, <2>1, QuietStep
<1>3. ASSUME NEW d \in Deciders, DecideGate(d) \/ DecideRefused(d) PROVE Stutter
  BY <1>1, <1>2, <1>3 DEF DecideGate, DecideRefused, Resolve, Thread, store, history
<1>4. ASSUME NEW d \in Deciders, NEW a \in Approvals, NEW s \in {"approved", "rejected"},
             Decide(d, a, s)
      PROVE  Stutter
  BY <1>2, <1>4 DEF Decide, Thread, store, history
<1>5. ASSUME NEW c \in Cancellers, Cancel(c) PROVE Stutter
  BY <1>2, <1>5 DEF Cancel, Thread, store, history
<1>6. ASSUME NEW c \in Cancellers, CancelShell(c) PROVE Stutter
  <2>1. c # Stopper /\ c \in Thread
    BY ThreadsDiffer DEF Thread
  <2> QED
    BY <1>1, <1>2, <1>6, <2>1 DEF CancelShell, store
<1> QED
  BY <1>3, <1>4, <1>5, <1>6

\* A shutdown that has not begun does not go on.
LEMMA StopIdles ==
  ASSUME Calm, pc[Stopper] = "idle" PROVE ~(Stop \/ StopStep)
  BY DEF Calm, Stop, StopStep, StopWait, StopClose, StopArtifact, StopTask, CancelStep, CancelTask,
         CancelApprovals, CancelShell

\* A calm Run stays one: nothing raises and the shutdown does not begin.
LEMMA CalmNext == ASSUME Calm PROVE Unshaken /\ [Next]_vars => Unshaken' /\ Faultless
<1> SUFFICES ASSUME Unshaken, [Next]_vars PROVE Unshaken' /\ Faultless
  OBVIOUS
<1>1. SafeInv' /\ TypeOK
  BY SafeNext DEF Unshaken, CalmInv, SafeInv, GateInv, TypeInv
<1>2. Faultless
  BY <1>1 DEF Calm, Faultless, SafeInv, GateInv, TypeInv, TypeOK
<1>3. ~(Stop \/ StopStep)
  BY StopIdles DEF Unshaken
<1>4. pc'[Stopper] = "idle"
  BY <1>1, <1>3, NeverBack DEF Unshaken
<1>5. StopperFits /\ ~StopClose
  BY <1>3 DEF Unshaken, StopperFits, StopStep
<1>6. (Records /\ ThreadsFit)'
  BY <1>2, <1>5, StepCalm DEF Unshaken
<1> QED
  BY <1>1, <1>2, <1>4, <1>6 DEF Unshaken, CalmInv

\* Every step of a calm Run is a step of RunContract, or none.
LEMMA CalmStep ==
  ASSUME Calm PROVE Unshaken /\ [Next]_vars => [Contract!Next]_(Contract!vars)
<1> SUFFICES ASSUME Unshaken, [Next]_vars PROVE Contract!Next \/ Stutter
  BY DEF Contract!vars, Stutter
<1>1. CalmInv /\ Faultless /\ ~(Stop \/ StopStep)
  BY CalmNext, StopIdles DEF Unshaken
<1>2. CASE RunnerStep
  <2>1. CASE Start \/ ToolStart
    BY <1>1, <2>1, StartSeen, ToolStartSeen DEF Contract!Next
  <2>2. CASE Request \/ RequestCreate \/ RequestTask
    BY <1>1, <2>2, RequestSeen, RequestCreateSeen, RequestTaskSeen DEF Contract!Next
  <2>3. CASE ConvergeCancel \/ PersistTask \/ StartTerminal
    BY <1>1, <2>3, ConvergeCancelSeen, EndSeen DEF Contract!Next
  <2>4. CASE ResolveStep(Runner)
    BY <1>1, <2>4, ResolveTaskSeen, ResolveApprovalSeen, ResolveCommitSeen, NeverTaken
       DEF ResolveStep, Contract!Next
  <2> QED
    BY <1>1, <1>2, <2>1, <2>2, <2>3, <2>4, RunnerQuiet, NeverTaken DEF RunnerStep
<1>3. ASSUME NEW d \in Deciders, DeciderActs(d) PROVE Contract!Next \/ Stutter
  BY <1>1, <1>3, ApiQuiet, ResolveTaskSeen, ResolveApprovalSeen, ResolveCommitSeen, NeverTaken
     DEF DeciderActs, DeciderStep, ResolveStep, Contract!Next
<1>4. ASSUME NEW c \in Cancellers, Cancel(c) \/ CancelStep(c) PROVE Contract!Next \/ Stutter
  BY <1>1, <1>4, ApiQuiet, CancelTaskSeen, CancelApprovalsSeen DEF CancelStep, Contract!Next
<1>5. CASE Rests
  <2>1. UNCHANGED <<task, approval, cur, ran, pc>>
    BY <1>5, RestSteady DEF store, local
  <2> QED
    BY <2>1 DEF Stutter, PhaseSeen, AsksSeen, VerdictsSeen
<1> QED
  BY <1>1, <1>2, <1>3, <1>4, <1>5, WhoseStep DEF StopStep

\* A queued Run is a contract nobody has begun.
LEMMA ContractInit == Init => Contract!Init
<1> SUFFICES ASSUME Init PROVE Contract!Init
  OBVIOUS
<1>1. \A t \in Thread : pc[t] \in {"queued", "idle"}
  BY DEF Init
<1>2. pc[Runner] = "queued"
  BY DEF Init, Thread
<1>3. PhaseSeen = "queued"
  BY <1>1 DEF Init, PhaseSeen
<1>4. AsksSeen = 0 /\ VerdictsSeen = [a \in 1 .. MaxApprovals |-> "none"]
  BY <1>2 DEF Init, AsksSeen, VerdictsSeen, Approvals
<1> QED
  BY <1>3, <1>4 DEF Init, Contract!Init

\* Without failing writes and without a shutdown, whatever the threads of TaskRunner and
\* ApprovalGate do and in whatever order, a client sees RunContract: one question at a
\* time, answered at most once and only while the Task waits for it, each approved call
\* started at most once, an accepted cancellation that no decision undoes, one end.
THEOREM RunImplementsContract == ASSUME Calm PROVE Spec => ImplementsContract
<1>1. Init => Unshaken
  BY CalmInit DEF Unshaken
<1>2. Unshaken /\ [Next]_vars => Unshaken'
  BY CalmNext
<1>3. Unshaken /\ [Next]_vars => [Contract!Next]_(Contract!vars)
  BY CalmStep
<1>4. Init => Contract!Init
  BY ContractInit
<1> QED
  BY <1>1, <1>2, <1>3, <1>4, PTL DEF Spec, ImplementsContract, Contract!Spec

\* In such a Run the terminal event that TaskRunner publishes last tells the status its
\* Task record has, and keeps.
THEOREM EventsAreTrue == ASSUME Calm PROVE Spec => []EventsAgree
<1>1. Unshaken => EventsAgree
  BY DEF Unshaken, CalmInv, Records, EventsAgree
<1>2. Init => Unshaken
  BY CalmInit DEF Unshaken
<1>3. Unshaken /\ [Next]_vars => Unshaken'
  BY CalmNext
<1> QED
  BY <1>1, <1>2, <1>3, PTL DEF Spec
=============================================================================
