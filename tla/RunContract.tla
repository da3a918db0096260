------------------------------ MODULE RunContract ------------------------------
(***************************************************************************)
(* What a native Run promises a client of the API, without threads, locks  *)
(* or durable writes: the public phases of a Task and its Approvals, each  *)
(* operation one step.  BackendRun implements it as long as no durable     *)
(* write raises and the service is not shut down.                          *)
(***************************************************************************)
EXTENDS Naturals

CONSTANT Asks     \* approvals a Run may ask for, a natural number

VARIABLES phase,   \* the public status of the Task
          asked,   \* approvals asked for so far
          verdict, \* the verdict on each
          started  \* approvals whose tool call has started

vars == <<phase, asked, verdict, started>>

Ends     == {"completed", "cancelled", "failed", "blocked"}
Verdicts == {"approved", "rejected", "expired"}
Open     == {a \in 1 .. Asks : verdict[a] = "asked"}

Init ==
  /\ phase = "queued" /\ asked = 0 /\ started = {}
  /\ verdict = [a \in 1 .. Asks |-> "none"]

\* The Runner thread picks the Task up.
Begin ==
  /\ phase = "queued" /\ phase' = "running"
  /\ UNCHANGED <<asked, verdict, started>>

\* A risky tool call waits for its user: one question at a time, in order.
Ask ==
  /\ phase = "running" /\ asked < Asks
  /\ phase' = "waiting" /\ asked' = asked + 1
  /\ verdict' = [verdict EXCEPT ![asked + 1] = "asked"]
  /\ UNCHANGED started

\* A verdict resumes the Task; only the question it waits for can get one.
Answer(v) ==
  /\ phase = "waiting" /\ verdict[asked] = "asked"
  /\ phase' = "running" /\ verdict' = [verdict EXCEPT ![asked] = v]
  /\ UNCHANGED <<asked, started>>

\* The call the user approved starts, at most once, while the Task runs.
StartTool ==
  /\ phase = "running" /\ asked \in 1 .. Asks
  /\ verdict[asked] = "approved" /\ asked \notin started
  /\ started' = started \cup {asked}
  /\ UNCHANGED <<phase, asked, verdict>>

\* A cancellation is accepted at any time before the end.
RequestCancel ==
  /\ phase \in {"queued", "running", "waiting"} /\ phase' = "cancelling"
  /\ UNCHANGED <<asked, verdict, started>>

\* It withdraws the question nobody answered.
Withdraw ==
  /\ phase = "cancelling" /\ Open # {}
  /\ verdict' = [a \in 1 .. Asks |-> IF a \in Open THEN "cancelled" ELSE verdict[a]]
  /\ UNCHANGED <<phase, asked, started>>

\* The Task ends once, with no question left open; it is cancelled only on request.
End(s) ==
  /\ phase \in {"running", "cancelling"} /\ Open = {}
  /\ s = "cancelled" => phase = "cancelling"
  /\ phase' = s
  /\ UNCHANGED <<asked, verdict, started>>

Next ==
  \/ Begin \/ Ask \/ StartTool \/ RequestCancel \/ Withdraw
  \/ \E v \in Verdicts : Answer(v)
  \/ \E s \in Ends : End(s)

Spec == Init /\ [][Next]_vars
=============================================================================
