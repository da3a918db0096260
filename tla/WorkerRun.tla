---------------------------- MODULE WorkerRun ----------------------------
(***************************************************************************)
(* The threads of one run on the Local Worker: the run's own thread, the   *)
(* daemon thread of a model request (CancellableModelClient.complete), the *)
(* heartbeat thread of a tool, and the thread that cancels                 *)
(* (ActiveRun.cancel), with what they share: the token, the hooks that     *)
(* project a streamed answer (RemoteExecutionHooks) and the process tree   *)
(* of a shell command (shell_process.py, sandbox.py, tool_run_shell).      *)
(* A request is the retry loop and the stream parser of a model client     *)
(* (providers/clients.py); the provider answers as it likes, or never.     *)
(*                                                                         *)
(* An answer is a sequence of characters, cut into deltas anywhere.  Tags  *)
(* are two of them: "<f" is <final>, "</" is </final>, and "<t" is <tool   *)
(* or <talk>.  Leading blanks and the masking of secrets are left out, and *)
(* so are answer candidates: nothing in the repository begins one.         *)
(***************************************************************************)
EXTENDS Naturals, Sequences, SequencesExt

CONSTANTS
    Protocol,     \* the client: "responses", "messages" or "completions"
    MaxAttempts,  \* max_attempts of the client, 3 in the code
    Answers,      \* what the provider may stream
    MaxOps,       \* how many model and shell calls the run makes
    Thinking,     \* whether a reasoning effort is set (completions only)
    PlainFinal,   \* allow_plain_text_final: the client has native tools
    Window,       \* how much of a pending answer is kept, 32 in the code
    Part,         \* how much of an answer one event carries, 4000 in the code
    Callbacks,    \* whether the caller passes on_thinking_delta, as the loop does
    Posix,        \* _PosixGroupProcess; FALSE: a Job Object or a container
    MaxLate       \* the count of late events stops here

ASSUME WorkerRunAssumption ==
    /\ Protocol \in {"responses", "messages", "completions"}
    /\ {MaxAttempts, MaxLate, Window, Part} \subseteq Nat \ {0} /\ MaxOps \in Nat
    /\ Answers \subseteq Seq({"<", "f", "t", "/", "x"})
    /\ {Thinking, PlainFinal, Callbacks, Posix} \subseteq BOOLEAN

VARIABLES
    pc,       \* the run's thread
    ops,      \* how many calls it has made
    token,    \* the cancellation token
    canceller,\* the thread of ActiveRun.cancel
    req,      \* the model request and its thread
    hook,     \* what RemoteExecutionHooks has buffered of the answer
    shown,    \* the deltas the hub has of this round since the last reset
    beat,     \* the heartbeat thread of the tool
    strays,   \* heartbeats of finished tools, past their last look at the stop event
    proc,     \* the process tree of the shell command
    ended,    \* the status the terminal message reported
    late      \* how many events were sent after it

vars == <<pc, ops, token, canceller, req, hook, shown, beat, strays, proc, ended, late>>

Chars == {"<", "f", "t", "/", "x"}

NoRequest == [on |-> "none", attempt |-> 1, second |-> FALSE, asked |-> FALSE,
              text |-> <<>>, thought |-> FALSE, bare |-> FALSE, emit |-> <<>>, allowed |-> 0,
              retry |-> FALSE]
NoProcess == [tree |-> "none", loop |-> "none", stopped |-> "no", clean |-> TRUE, report |-> "none"]

\* The buffers of the hooks as before_model leaves them.
FreshHook == [mode |-> "pending", buf |-> <<>>]

Init ==
    /\ pc = "between" /\ ops = 0 /\ token = FALSE /\ canceller = "idle"
    /\ req = NoRequest /\ hook = FreshHook /\ shown = <<>>
    /\ beat = "off" /\ strays = 0 /\ proc = NoProcess
    /\ ended = "no" /\ late = 0

\* An event goes to the hub; after the terminal message it is late.
Sent == late' = IF ended # "no" /\ late < MaxLate THEN late + 1 ELSE late

\* run_task returns, with the terminal message.
End(status) == pc' = "ended" /\ ended' = status

-----------------------------------------------------------------------------
(* The thread of a model request: a client's complete.                       *)

RequestOnly == UNCHANGED <<pc, ops, token, canceller, beat, strays, proc, ended>>

\* Head of the retry loop: check_cancelled, then the request is sent.
Ask ==
    /\ req.on = "ask"
    /\ req' = IF token THEN [req EXCEPT !.on = "cancelled"] ELSE [req EXCEPT !.on = "open", !.asked = TRUE]
    /\ UNCHANGED <<hook, shown, late>> /\ RequestOnly

\* The provider begins to stream.
Open ==
    /\ req.on = "open"
    /\ req' = [req EXCEPT !.on = "recv"]
    /\ UNCHANGED <<hook, shown, late>> /\ RequestOnly

Tag(s, i, cs) == i \in 1 .. Len(s) - 1 /\ s[i] = "<" /\ s[i + 1] \in cs
Free(s, cs)   == \A i \in DOMAIN s : ~Tag(s, i, cs)
\* Where the first tag begins, if there is one.
Firsts(s, cs) == {i \in DOMAIN s : Tag(s, i, cs) /\ \A j \in 1 .. i - 1 : ~Tag(s, j, cs)}

Rest(s, i)  == SubSeq(s, i, Len(s))
Ending(s, n) == Rest(s, IF Len(s) > n THEN Len(s) - n + 1 ELSE 1)

Show(mode, buf, out) == [hook |-> [mode |-> mode, buf |-> buf], out |-> out]

\* A <final> answer: what stands before its closing tag may be shown, but for an ending
\* that may be the beginning of that tag.
Final(s) ==
    IF Free(s, {"/"}) THEN {Show("final", Ending(s, 1), SubSeq(s, 1, Len(s) - 1))}
    ELSE {Show("blocked", <<>>, SubSeq(s, 1, c - 1)) : c \in Firsts(s, {"/"})}

\* model_text_delta: what a delta adds to the buffers and what of them may be shown.
Project(h, delta) ==
    LET s == h.buf \o delta
    IN  CASE h.mode = "blocked" -> {Show("blocked", <<>>, <<>>)}
          [] h.mode = "plain"   -> {Show("plain", <<>>, delta)}
          [] h.mode = "final"   -> Final(s)
          [] h.mode = "pending" /\ Free(s, {"f", "t"}) ->
               {IF PlainFinal /\ s[1] # "<" THEN Show("plain", <<>>, s) ELSE Show("pending", Ending(s, Window), <<>>)}
          [] OTHER -> UNION {IF s[p + 1] = "f" THEN Final(Rest(s, p + 2)) ELSE {Show("blocked", <<>>, <<>>)} :
                               p \in Firsts(s, {"f", "t"})}

\* How many events an answer's text makes.
Parts(out) == {k \in 0 .. Len(out) : (k - 1) * Part < Len(out) /\ Len(out) <= k * Part}

\* What the provider may send next: a stretch of one of its answers.
Deltas(text) == UNION {{SubSeq(a, Len(text) + 1, n) : n \in Len(text) + 1 .. Len(a)} :
                         a \in {b \in Answers : IsPrefix(text, b)}}

\* A line of the stream with text: should_cancel and the hook look at the token, then
\* nobody does until the heartbeat, when one is due, and the delta have been sent.
Take(delta) ==
    /\ req.on = "recv"
    /\ \E p \in Project(hook, delta), due \in BOOLEAN : \E k \in Parts(p.out) :
        /\ hook' = p.hook
        /\ req' = [req EXCEPT !.text = @ \o delta, !.bare = due, !.emit = p.out,
                              !.allowed = k + IF due THEN 1 ELSE 0,
                              !.on = IF due \/ p.out # <<>> THEN "send" ELSE "recv"]
    /\ UNCHANGED <<shown, late>> /\ RequestOnly

\* Mutant: a stream that is read on without a look at the token.
ReceiveBlindly(delta) == Take(delta)

Receive(delta) == ~token /\ Take(delta)

\* A line with reasoning (completions): model_thinking_delta, one event.
Think ==
    /\ Protocol = "completions" /\ req.on = "recv" /\ ~token
    /\ req' = [req EXCEPT !.thought = TRUE, !.bare = TRUE, !.emit = <<>>, !.allowed = 1, !.on = "send"]
    /\ UNCHANGED <<hook, shown, late>> /\ RequestOnly

ReceiveCancelled ==
    /\ req.on = "recv" /\ token
    /\ req' = [req EXCEPT !.on = "cancelled"]
    /\ UNCHANGED <<hook, shown, late>> /\ RequestOnly

\* _emit_public_delta: one event after another, without a look at the token.  First the
\* one that carries no text (a heartbeat, reasoning, or model.retrying, at which the
\* receiver drops the deltas of the round), then the parts of the text.
Emit ==
    LET n == IF req.bare THEN 0 ELSE IF Len(req.emit) > Part THEN Part ELSE Len(req.emit)
        rest == Rest(req.emit, n + 1)
    IN  /\ req.on = "send"
        /\ req' = IF req.retry THEN [req EXCEPT !.on = "ask", !.attempt = @ + 1, !.retry = FALSE, !.bare = FALSE,
                                                !.text = <<>>, !.thought = FALSE]
                  ELSE [req EXCEPT !.bare = FALSE, !.emit = rest, !.on = IF rest = <<>> THEN "recv" ELSE "send"]
        /\ shown' = IF ended # "no" THEN shown ELSE IF req.retry THEN <<>> ELSE shown \o SubSeq(req.emit, 1, n)
        /\ Sent
        /\ UNCHANGED hook /\ RequestOnly

\* Mutant: a retry leaves the buffers as they are.
KeepBuffers(h) == h

\* model_retrying: buffers are cleared.
Retried(h) == FreshHook

\* An error worth another attempt: notify_retry, the delay, the next attempt.
\* No caller gives a deadline, so the attempts alone bound the loop.
FailRetryable ==
    /\ CASE req.attempt = MaxAttempts -> req' = [req EXCEPT !.on = "failed"] /\ UNCHANGED hook
         [] token /\ req.attempt < MaxAttempts -> req' = [req EXCEPT !.on = "cancelled"] /\ UNCHANGED hook
         [] OTHER -> /\ req' = [req EXCEPT !.on = "send", !.retry = TRUE, !.bare = TRUE, !.emit = <<>>, !.allowed = 1]
                     /\ hook' = Retried(hook)
    /\ UNCHANGED <<shown, late>> /\ RequestOnly

\* HTTP 408, 425, 429 or 5xx, a refused or broken connection, a timeout, an answer
\* without text and tool call; a stream may break after it has shown a part.
Break == req.on \in {"open", "recv"} /\ FailRetryable

\* Any other HTTP status, model_not_found, an error in the body or the stream.
Reject ==
    /\ req.on \in {"open", "recv"}
    /\ req' = [req EXCEPT !.on = "failed"]
    /\ UNCHANGED <<hook, shown, late>> /\ RequestOnly

\* The reasoning has used up the answer's tokens: once more without reasoning,
\* which is not announced.
Exhaust ==
    /\ Protocol = "completions"
    /\ req.on = "recv" /\ req.text = <<>> /\ req.thought
    /\ req' = IF Thinking /\ ~req.second THEN [NoRequest EXCEPT !.on = "ask", !.second = TRUE, !.asked = TRUE,
                                                                  !.allowed = req.allowed]
              ELSE [req EXCEPT !.on = "failed"]
    /\ UNCHANGED <<hook, shown, late>> /\ RequestOnly

\* The answer is complete: text, or a tool call, streamed or in one body.  A
\* stream that just stops counts as complete.
Answer ==
    /\ req.on \in {"open", "recv"}
    /\ req' = [req EXCEPT !.on = "ok"]
    /\ UNCHANGED <<hook, shown, late>> /\ RequestOnly

RequestStep ==
    \/ Ask \/ Open \/ Think \/ ReceiveCancelled \/ Emit \/ Break \/ Reject \/ Exhaust \/ Answer
    \/ \E delta \in Deltas(req.text) : Receive(delta)

-----------------------------------------------------------------------------
(* The run's thread. *)

RunOnly == UNCHANGED <<token, canceller, late>>

\* before_model and CancellableModelClient.complete.  A client whose complete
\* does not know on_thinking_delta raises in its thread before it asks anyone.
StartModel ==
    /\ pc = "between" /\ ~token /\ ops < MaxOps
    /\ pc' = "model" /\ ops' = ops + 1
    /\ hook' = FreshHook /\ shown' = <<>>
    /\ req' = [NoRequest EXCEPT !.on = IF Callbacks /\ Protocol # "completions" THEN "failed" ELSE "ask"]
    /\ proc' = NoProcess
    /\ UNCHANGED <<beat, strays, ended>> /\ RunOnly

\* complete finds an outcome; after_model sends what the hooks still hold of a
\* plain answer and model.completed with the reply.
TakeAnswer ==
    /\ pc = "model" /\ req.on = "ok" /\ ~token
    /\ pc' = "between"
    /\ hook' = [hook EXCEPT !.mode = IF @ = "plain" THEN "blocked" ELSE @]
    /\ UNCHANGED <<ops, req, shown, beat, strays, proc, ended>> /\ RunOnly

TakeFailure ==
    /\ pc = "model" /\ req.on = "failed" /\ ~token
    /\ End("failed")
    /\ UNCHANGED <<ops, req, hook, shown, beat, strays, proc>> /\ RunOnly

\* The run's thread ends with RunCancelled; the request's is left to itself.
GiveUp ==
    /\ pc = "model" /\ token
    /\ End("cancelled")
    /\ UNCHANGED <<ops, req, hook, shown, beat, strays, proc>> /\ RunOnly

\* The token is looked at only when the request has come back.
SeeCancelAfterwards == GiveUp /\ req.on \in {"ok", "failed", "cancelled"}

\* The poll of complete sees the token, whatever the provider does.
SeeCancel == GiveUp

\* before_tool and the first half of tool_run_shell.
StartShell ==
    /\ pc = "between" /\ ~token /\ ops < MaxOps
    /\ pc' = "shell" /\ ops' = ops + 1
    /\ beat' = "on"
    /\ proc' = [NoProcess EXCEPT !.tree = "up", !.loop = "wait"]
    /\ UNCHANGED <<req, hook, shown, strays, ended>> /\ RunOnly

\* The command ends by itself, perhaps with processes left in its group.
LeaderExits ==
    /\ proc.tree = "up"
    /\ \E tree \in {"gone", "orphans"} : proc' = [proc EXCEPT !.tree = tree]
    /\ UNCHANGED <<pc, ops, req, hook, shown, beat, strays, ended>> /\ RunOnly

\* Only the leader is looked at.
TerminateLeader(p, dead) == [p EXCEPT !.clean = TRUE, !.tree = IF dead THEN "gone" ELSE "orphans"]

\* terminate: the group is signalled, killed after the grace, and looked at.
Terminate(p, dead) == [p EXCEPT !.clean = dead, !.tree = IF dead THEN "gone" ELSE @]

\* The polling loop of run: cancelled, over, or timed out.
ShellLoop ==
    /\ pc = "shell" /\ proc.loop = "wait"
    /\ \/ /\ token
          /\ \E dead \in BOOLEAN : proc' = [Terminate(proc, dead) EXCEPT !.loop = "readers", !.stopped = "cancel"]
       \/ /\ ~token /\ proc.tree # "up"
          /\ proc' = [proc EXCEPT !.loop = "readers"]
       \/ /\ ~token /\ proc.tree = "up"
          /\ \E dead \in BOOLEAN : proc' = [Terminate(proc, dead) EXCEPT !.loop = "readers", !.stopped = "timeout"]
    /\ UNCHANGED <<pc, ops, req, hook, shown, beat, strays, ended>> /\ RunOnly

\* _finish_readers, and a second terminate when a process keeps the pipes open.
\* Closing the Job kills what is left in it; on POSIX nothing does.
Readers ==
    /\ pc = "shell" /\ proc.loop = "readers"
    /\ \E held, dead \in BOOLEAN :
        LET alive == proc.tree \in {"up", "orphans"}
            p == IF held THEN Terminate(proc, dead) ELSE proc
        IN  /\ held => alive
            /\ proc' = [p EXCEPT !.loop = "done",
                                 !.tree = IF ~Posix /\ p.clean /\ @ # "none" THEN "gone" ELSE @]
    /\ UNCHANGED <<pc, ops, req, hook, shown, beat, strays, ended>> /\ RunOnly

Reported == [proc EXCEPT !.loop = "none", !.report = IF proc.stopped = "no" THEN "normal" ELSE "stopped"]

\* The second half of tool_run_shell and after_tool, which stops the heartbeat
\* unless an exception has passed it by, and does not wait for its thread.
ToolReturns ==
    /\ pc = "shell" /\ proc.loop = "done"
    /\ CASE ~proc.clean ->
              End("failed") /\ UNCHANGED <<beat, strays>> /\ proc' = [proc EXCEPT !.report = "unclean"]
         [] proc.clean /\ (proc.stopped = "cancel" \/ token) ->
              End("cancelled") /\ UNCHANGED <<beat, strays>> /\ proc' = Reported
         [] OTHER ->
              /\ pc' = "between" /\ UNCHANGED ended /\ proc' = Reported
              /\ beat' = "off" /\ strays' = IF beat = "sending" THEN strays + 1 ELSE strays
    /\ UNCHANGED <<ops, req, hook, shown>> /\ RunOnly

CancelledBetween ==
    /\ pc = "between" /\ token
    /\ End("cancelled")
    /\ UNCHANGED <<ops, req, hook, shown, beat, strays, proc>> /\ RunOnly

Finish ==
    /\ pc = "between" /\ ~token
    /\ End("completed")
    /\ UNCHANGED <<ops, req, hook, shown, beat, strays, proc>> /\ RunOnly

RunStep ==
    \/ StartModel \/ TakeAnswer \/ TakeFailure \/ SeeCancel
    \/ StartShell \/ ShellLoop \/ Readers \/ ToolReturns
    \/ CancelledBetween \/ Finish

-----------------------------------------------------------------------------
(* The other threads. *)

\* ActiveRun.cancel sets the token, then terminates the shell registered.
CancelToken ==
    /\ canceller = "idle" /\ ended = "no"
    /\ token' = TRUE /\ canceller' = "token"
    /\ UNCHANGED <<pc, ops, req, hook, shown, beat, strays, proc, ended, late>>

CancelShell ==
    /\ canceller = "token"
    /\ canceller' = "done"
    /\ IF proc.loop = "none" THEN UNCHANGED proc
       ELSE \E dead \in BOOLEAN : proc' = [proc EXCEPT !.tree = IF dead THEN "gone" ELSE @]
    /\ UNCHANGED <<pc, ops, token, req, hook, shown, beat, strays, ended, late>>

\* The heartbeat thread of _start_tool_heartbeat: a second passes, an event is
\* sent, the stop event and the token are looked at.
BeatDue ==
    /\ beat = "on" /\ beat' = "sending"
    /\ UNCHANGED <<pc, ops, token, canceller, req, hook, shown, strays, proc, ended, late>>

BeatSend ==
    /\ beat = "sending"
    /\ beat' = IF token THEN "off" ELSE "on"
    /\ Sent
    /\ UNCHANGED <<pc, ops, token, canceller, req, hook, shown, strays, proc, ended>>

StraySend ==
    /\ strays > 0 /\ strays' = strays - 1
    /\ Sent
    /\ UNCHANGED <<pc, ops, token, canceller, req, hook, shown, beat, proc, ended>>

Next ==
    \/ RequestStep \/ RunStep
    \/ LeaderExits \/ CancelToken \/ CancelShell
    \/ BeatDue \/ BeatSend \/ StraySend

Spec == Init /\ [][Next]_vars

\* Only the run's own thread has to make progress: not the provider, not the
\* command, not the thread that cancels.
FairSpec == Spec /\ WF_vars(RunStep)

-----------------------------------------------------------------------------
(* Properties. *)

Requests == {"none", "ask", "open", "recv", "send", "ok", "failed", "cancelled"}

\* One type invariant: the fields the threads share, and what must hold between
\* a terminal message and the thread that sent it.
TypeOK ==
    /\ pc \in {"between", "model", "shell", "ended"} /\ ops \in 0..MaxOps
    /\ token \in BOOLEAN /\ canceller \in {"idle", "token", "done"}
    /\ req.on \in Requests /\ req.attempt \in 1..MaxAttempts
    /\ req.text \in Seq(Chars) /\ req.emit \in Seq(Chars) /\ req.allowed \in Nat
    /\ {req.second, req.asked, req.thought, req.bare, req.retry} \subseteq BOOLEAN
    /\ hook.mode \in {"pending", "plain", "final", "blocked"} /\ Len(hook.buf) <= Window
    /\ beat \in {"off", "on", "sending"} /\ strays \in 0..MaxOps
    /\ proc.tree \in {"none", "up", "orphans", "gone"} /\ proc.stopped \in {"no", "cancel", "timeout"}
    /\ proc.loop \in {"none", "wait", "readers", "done"} /\ proc.clean \in BOOLEAN
    /\ proc.report \in {"none", "normal", "stopped", "unclean"}
    /\ late \in 0..MaxLate
    /\ (ended # "no") <=> (pc = "ended")

\* What a user may be shown of an answer: what stands in its first tag, if that is a
\* <final>, up to the closing one (without the ending held back for it while there is
\* none); or, of a client with native tools, all of an answer that does not begin with
\* "<", tags that come later included, or the end of one from where "<" fell out of the
\* window; nothing of an answer without a tag that is not shown as it is.
Inside(s) ==
    IF Free(s, {"/"}) THEN {SubSeq(s, 1, Len(s) - 1)} ELSE {SubSeq(s, 1, c - 1) : c \in Firsts(s, {"/"})}
PlainFrom(text) == {k \in DOMAIN text : /\ PlainFinal /\ text[k] # "<" /\ (k = 1 \/ text[1] = "<")
                                        /\ \A i \in 1 .. k - 1 : ~Tag(text, i, {"f", "t"})}
Visible(text) ==
    (UNION {IF text[p + 1] = "f" THEN Inside(Rest(text, p + 2)) ELSE {<<>>} : p \in Firsts(text, {"f", "t"})})
    \cup {Rest(text, k) : k \in PlainFrom(text)}
    \cup (IF Free(text, {"f", "t"}) /\ 1 \notin PlainFrom(text) THEN {<<>>} ELSE {})

\* After every delta the hub has of a round exactly what may be shown of the answer the
\* run goes on with, and while one is being sent a beginning of it: nothing of an
\* attempt that was given up, nothing twice, nothing lost between two deltas, however
\* the provider cuts the answer (a tag in two, a part in three) and breaks it off
\* (model_text_delta, _emit_public_delta, model_retrying, the retry loop of a client).
ShownFollowsAnswer ==
    ended = "no" => \E v \in Visible(req.text) :
        IF req.on = "send" /\ ~req.retry THEN IsPrefix(shown, v) ELSE shown = v

\* When the tool has come back, processes it started live on only if the run is
\* told so, or if they were detached by a POSIX command that ended by itself
\* (run and terminate of the shells, tool_run_shell), however the timeout, the
\* canceller and the end of the command fall.
SurvivorsAreReported ==
    pc # "shell" /\ proc.tree \in {"up", "orphans"} =>
        \/ proc.report = "unclean"
        \/ Posix /\ proc.tree = "orphans" /\ proc.stopped = "no"

\* After the terminal of a cancelled run the thread of each tool sends at most the beat
\* it was waiting with, and that of the request what its last look at the token let
\* through: a heartbeat and the parts of one delta, one piece of reasoning or one
\* announced retry.  Then all of them have seen the token (should_cancel, _check, the
\* heartbeat's loop).
LateEventsAreFew ==
    ended = "cancelled" => late <= IF req.on = "none" THEN ops ELSE (ops - 1) + req.allowed

\* A cancelled run ends although the provider never answers and the command
\* never stops: the run's thread polls (CancellableModelClient.complete, run).
CancelEnds == token ~> ended # "no"

\* What clients.py:1-6 promises: the providers' differences end in one complete()
\* for the callers, so a call that fails has reached its provider.  It does not
\* hold where Callbacks is TRUE and Protocol is not "completions" (StartModel).
RequestsReachTheProvider == req.on = "failed" => req.asked

\* What the docstring of _start_tool_heartbeat says: it beats while the tool runs.
\* It does not hold: a tool that raises leaves its beat behind.
HeartbeatsEndWithTools == ended # "no" /\ ~token => beat = "off"
=============================================================================
