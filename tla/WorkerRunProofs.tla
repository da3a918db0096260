------------------------- MODULE WorkerRunProofs -------------------------
(***************************************************************************)
(* Theorems about WorkerRun for every protocol, platform and bound.        *)
(***************************************************************************)
EXTENDS WorkerRun, SequenceTheorems, TLAPS

-----------------------------------------------------------------------------
(* The shared fields, and what bounds the retry loop.                      *)

RequestRecords ==
  [on : {"none", "ask", "open", "recv", "send", "ok", "failed", "cancelled"},
   attempt : 1 .. MaxAttempts, second : BOOLEAN, asked : BOOLEAN, text : Seq(Chars),
   thought : BOOLEAN, bare : BOOLEAN, emit : Seq(Chars), allowed : Nat, retry : BOOLEAN]
Processes ==
  [tree : {"none", "up", "orphans", "gone"}, loop : {"none", "wait", "readers", "done"},
   stopped : {"no", "cancel", "timeout"}, clean : BOOLEAN,
   report : {"none", "normal", "stopped", "unclean"}]
Hooks == [mode : {"pending", "plain", "final", "blocked"}, buf : Seq(Chars)]

\* A retry is announced only when an attempt is left.
RunTyped ==
  /\ pc \in {"between", "model", "shell", "ended"} /\ ops \in Nat /\ token \in BOOLEAN
  /\ req \in RequestRecords /\ (req.retry => req.attempt < MaxAttempts)
  /\ hook \in Hooks
  /\ beat \in {"off", "on", "sending"} /\ strays \in Nat
  /\ proc \in Processes /\ late \in Nat
  /\ ended \in {"no", "completed", "failed", "cancelled"}
  /\ ended # "no" <=> pc = "ended"

-----------------------------------------------------------------------------
(* The parts of the inductive invariant.                                   *)

\* A command that is being waited for was not stopped; one whose end was clean left
\* nothing, or detached it by itself; on Windows the Job took that with it.
ShellLeavesLittle ==
  pc = "shell" =>
    /\ proc.loop # "none"
    /\ proc.loop = "wait" => proc.stopped = "no"
    /\ proc.loop # "wait" /\ proc.clean /\ proc.tree \in {"up", "orphans"} =>
         /\ proc.tree = "orphans" /\ proc.stopped = "no"
         /\ proc.loop = "done" => Posix

\* Between the calls of a run nothing is registered to be terminated, unless the run
\* ended with an unclean command.
NothingRegistered == pc # "shell" => proc.loop = "none" \/ proc.report = "unclean"

\* What was cancelled was cancelled by the token.
CancelledByToken == ended = "cancelled" \/ proc.stopped = "cancel" => token

\* Only a run that executes a command, or ended in one, has a heartbeat.
BeatsInShell == pc \in {"between", "model"} => beat = "off"

Bit(b)  == IF b THEN 1 ELSE 0
Beating == Bit(beat # "off")
Asked   == Bit(req.on # "none")

\* How many events a request's thread still sends before it looks at the token.
Owed(r) == IF r.on = "send" THEN {Bit(r.bare) + k : k \in Parts(r.emit)} ELSE {0}

\* A thread that sends has something to send, and what nobody asked is owed nothing.
RequestOwes ==
  /\ req.on = "send" => req.bare \/ req.emit # <<>>
  /\ req.on = "none" => req.allowed = 0

\* Each thread that may still send was started by a call of its own, and that of the
\* request sends no more than its last look at the token has let through.
ThreadsAreCalls ==
  ended = "no" => /\ late = 0 /\ strays + Beating + Asked <= ops
                  /\ \E n \in Owed(req) : n <= req.allowed

\* After a cancellation each of them sends what it was sending, and no more.
SendersAreFew ==
  ended = "cancelled" => \E n \in Owed(req) : late + strays + Beating + Asked + n <= ops + req.allowed

WorkerInv ==
  /\ RunTyped
  /\ ShellLeavesLittle /\ NothingRegistered /\ SurvivorsAreReported
  /\ CancelledByToken /\ BeatsInShell /\ RequestOwes /\ ThreadsAreCalls /\ SendersAreFew

-----------------------------------------------------------------------------
(* Stretches of a sequence of characters.                                  *)

\* The rest of a sequence from a place on.
LEMMA RestIs ==
  ASSUME NEW s \in Seq(Chars), NEW k \in 1 .. Len(s) + 1
  PROVE  /\ Rest(s, k) \in Seq(Chars) /\ Len(Rest(s, k)) = Len(s) - k + 1
         /\ \A i \in 1 .. Len(s) - k + 1 : Rest(s, k)[i] = s[k + i - 1]
<1>1. Len(s) \in Nat /\ k \in Int /\ Len(s) \in Int /\ \A i \in k .. Len(s) : s[i] \in Chars
  <2>1. \A i \in 1 .. Len(s) : s[i] \in Chars
    BY ElementOfSeq
  <2> QED
    BY <2>1, LenProperties
<1>2. /\ SubSeq(s, k, Len(s)) \in Seq(Chars)
      /\ Len(SubSeq(s, k, Len(s))) = IF k <= Len(s) THEN Len(s) - k + 1 ELSE 0
      /\ \A i \in 1 .. Len(s) - k + 1 : SubSeq(s, k, Len(s))[i] = s[k + i - 1]
  BY <1>1, SubSeqProperties
<1> QED
  BY <1>1, <1>2 DEF Rest

\* The beginning of a sequence up to a place, which may stand before it.
LEMMA StartIs ==
  ASSUME NEW s \in Seq(Chars), NEW n \in Int, n <= Len(s)
  PROVE  SubSeq(s, 1, n) \in Seq(Chars)
<1>1. \A i \in 1 .. Len(s) : s[i] \in Chars
  BY ElementOfSeq
<1>2. \A i \in 1 .. n : s[i] \in Chars
  BY <1>1, LenProperties
<1> QED
  BY <1>2, SubSeqProperties

LEMMA EndingIs ==
  ASSUME NEW s \in Seq(Chars), NEW n \in Nat \ {0}
  PROVE  /\ Ending(s, n) \in Seq(Chars)
         /\ \E k \in 1 .. Len(s) + 1 : Ending(s, n) = Rest(s, k) /\ (s # <<>> => k <= Len(s))
<1>1. Len(s) \in Nat /\ (s # <<>> => Len(s) # 0)
  BY LenProperties, EmptySeq
<1>2. PICK k : k = IF Len(s) > n THEN Len(s) - n + 1 ELSE 1
  OBVIOUS
<1>3. k \in 1 .. Len(s) + 1 /\ (s # <<>> => k <= Len(s))
  BY <1>1, <1>2
<1>4. Ending(s, n) = Rest(s, k)
  BY <1>2 DEF Ending
<1> QED
  BY <1>3, <1>4, RestIs

\* What the provider sends is text, and never nothing.
LEMMA DeltasAreText ==
  ASSUME NEW text \in Seq(Chars), NEW delta \in Deltas(text)
  PROVE  delta \in Seq(Chars) /\ delta # <<>> /\ Len(delta) \in Nat \ {0}
<1>1. PICK a \in Answers : \E n \in Len(text) + 1 .. Len(a) : delta = SubSeq(a, Len(text) + 1, n)
  BY DEF Deltas
<1>2. PICK n \in Len(text) + 1 .. Len(a) : delta = SubSeq(a, Len(text) + 1, n)
  BY <1>1
<1>3. a \in Seq(Chars) /\ Len(a) \in Nat /\ Len(text) \in Nat
  <2>1. a \in Seq(Chars)
    BY WorkerRunAssumption DEF Chars
  <2> QED
    BY <2>1, LenProperties
<1>4. \A i \in Len(text) + 1 .. n : a[i] \in Chars
  <2>1. \A i \in 1 .. Len(a) : a[i] \in Chars
    BY <1>3, ElementOfSeq
  <2> QED
    BY <1>3, <2>1
<1>5. delta \in Seq(Chars) /\ Len(delta) = n - (Len(text) + 1) + 1
  <2>1. Len(text) + 1 \in Int /\ n \in Int /\ Len(text) + 1 <= n
    BY <1>3
  <2> QED
    BY <1>2, <1>4, <2>1, SubSeqProperties
<1>6. Len(delta) \in Nat \ {0}
  BY <1>3, <1>5
<1> QED
  BY <1>5, <1>6, EmptySeq

\* How many parts there are of nothing, of something, and of what the first part leaves.
LEMMA PartsAre ==
  ASSUME NEW s \in Seq(Chars)
  PROVE  /\ Parts(s) \subseteq Nat /\ (s = <<>> => 0 \in Parts(s))
         /\ s # <<>> => \A k \in Parts(s) : k >= 1
         /\ \A r \in Seq(Chars) : Len(s) > Part /\ Len(r) = Len(s) - Part =>
              \A k \in Parts(s) : k - 1 \in Parts(r)
<1>1. Part \in Nat \ {0} /\ Len(s) \in Nat /\ (s = <<>> <=> Len(s) = 0)
  BY WorkerRunAssumption, EmptySeq, LenProperties
<1>2. s = <<>> => 0 \in Parts(s)
  BY <1>1 DEF Parts
<1>3. ASSUME s # <<>>, NEW k \in Parts(s) PROVE k >= 1
  <2>1. k \in 0 .. Len(s) /\ Len(s) <= k * Part
    BY DEF Parts
  <2>2. k = 0 => k * Part = 0
    BY <1>1
  <2> QED
    BY <1>1, <1>3, <2>1, <2>2
<1>4. ASSUME NEW r \in Seq(Chars), Len(s) > Part, Len(r) = Len(s) - Part, NEW k \in Parts(s)
      PROVE  k - 1 \in Parts(r)
  <2>1. k \in 0 .. Len(s) /\ (k - 1) * Part < Len(s) /\ Len(s) <= k * Part
    BY DEF Parts
  <2>2. k \in Int /\ k - 1 \in Int /\ Part \in Int
    BY <1>1, <2>1
  <2>3. (k - 1) * Part = k * Part - Part /\ ((k - 1) - 1) * Part = (k - 1) * Part - Part
    BY <2>2
  <2>4. k >= 2
    <3>1. k = 0 => k * Part = 0
      BY <1>1
    <3>2. k = 1 => k * Part = Part
      BY <1>1
    <3> QED
      BY <1>1, <1>4, <2>1, <3>1, <3>2
  <2>5. ((k - 1) - 1) * Part < Len(r) /\ Len(r) <= (k - 1) * Part
    <3>1. PICK a \in Int, b \in Int, c \in Int : a = k * Part /\ b = (k - 1) * Part /\ c = ((k - 1) - 1) * Part
      BY <2>2
    <3>2. b = a - Part /\ c = b - Part /\ b < Len(s) /\ Len(s) <= a
      BY <2>1, <2>3, <3>1
    <3>3. c < Len(r) /\ Len(r) <= b
      BY <1>1, <1>4, <3>2
    <3> QED
      BY <3>1, <3>3
  <2>6. (k - 1) - 1 <= ((k - 1) - 1) * Part
    <3>1. \A i \in Nat : \A p \in Nat \ {0} : i <= i * p
      OBVIOUS
    <3>2. (k - 1) - 1 \in Nat
      BY <2>1, <2>4
    <3> QED
      BY <1>1, <3>1, <3>2
  <2>7. k - 1 \in 0 .. Len(r)
    BY <1>1, <1>4, <2>1, <2>4, <2>5, <2>6
  <2> QED
    BY <2>5, <2>7 DEF Parts
<1>5. Parts(s) \subseteq Nat
  BY <1>1 DEF Parts
<1> QED
  BY <1>2, <1>3, <1>4, <1>5

-----------------------------------------------------------------------------
(* What a delta of the answer does to the hooks' buffers.                  *)

LEMMA FreshTyped == FreshHook \in Hooks /\ NoRequest \in RequestRecords
<1> DEFINE none == <<>>
<1>1. none \in Seq(Chars) /\ 1 \in 1 .. MaxAttempts /\ 0 \in Nat
  BY WorkerRunAssumption
<1>2. FreshHook = [mode |-> "pending", buf |-> none]
      /\ NoRequest = [on |-> "none", attempt |-> 1, second |-> FALSE, asked |-> FALSE, text |-> none,
                      thought |-> FALSE, bare |-> FALSE, emit |-> none, allowed |-> 0, retry |-> FALSE]
  BY DEF FreshHook, NoRequest
<1> HIDE DEF none
<1> QED
  BY <1>1, <1>2 DEF Hooks, RequestRecords

LEMMA ShowTyped ==
  ASSUME NEW mode \in {"pending", "plain", "final", "blocked"}, NEW buf \in Seq(Chars), NEW out \in Seq(Chars)
  PROVE  Show(mode, buf, out).hook \in Hooks /\ Show(mode, buf, out).out \in Seq(Chars)
BY DEF Show, Hooks

LEMMA FinalTyped ==
  ASSUME NEW s \in Seq(Chars), NEW p \in Final(s)
  PROVE  p.hook \in Hooks /\ p.out \in Seq(Chars)
<1>1. Len(s) \in Nat /\ <<>> \in Seq(Chars)
  BY LenProperties, EmptySeq
<1>2. CASE Free(s, {"/"})
  <2>1. p = Show("final", Ending(s, 1), SubSeq(s, 1, Len(s) - 1))
    BY <1>2 DEF Final
  <2>2. Ending(s, 1) \in Seq(Chars) /\ SubSeq(s, 1, Len(s) - 1) \in Seq(Chars)
    <3>1. Len(s) - 1 \in Int /\ Len(s) - 1 <= Len(s)
      BY <1>1
    <3> QED
      BY <3>1, EndingIs, StartIs
  <2> QED
    BY <2>1, <2>2, ShowTyped
<1>3. CASE ~Free(s, {"/"})
  <2>1. PICK c \in Firsts(s, {"/"}) : p = Show("blocked", <<>>, SubSeq(s, 1, c - 1))
    BY <1>3 DEF Final
  <2>2. c \in 1 .. Len(s)
    BY <1>1, LenProperties DEF Firsts
  <2>3. SubSeq(s, 1, c - 1) \in Seq(Chars)
    <3>1. c - 1 \in Int /\ c - 1 <= Len(s)
      BY <1>1, <2>2
    <3> QED
      BY <3>1, StartIs
  <2> QED
    BY <1>1, <2>1, <2>3, ShowTyped
<1> QED
  BY <1>2, <1>3

\* A tag is two characters long.
LEMMA TagsFit ==
  ASSUME NEW s \in Seq(Chars), NEW cs, NEW p \in Firsts(s, cs)
  PROVE  /\ p \in 1 .. Len(s) - 1 /\ p + 2 \in 1 .. Len(s) + 1 /\ Len(s) \in Nat
         /\ Tag(s, p, cs) /\ (\A j \in 1 .. p - 1 : ~Tag(s, j, cs)) /\ s[p] = "<" /\ s[p + 1] \in cs
<1>1. Tag(s, p, cs) /\ \A j \in 1 .. p - 1 : ~Tag(s, j, cs)
  BY DEF Firsts
<1>2. p \in 1 .. Len(s) - 1 /\ s[p] = "<" /\ s[p + 1] \in cs /\ Len(s) \in Nat
  BY <1>1, LenProperties DEF Tag
<1> QED
  BY <1>1, <1>2

LEMMA ProjectTyped ==
  ASSUME NEW h \in Hooks, NEW delta \in Seq(Chars), NEW p \in Project(h, delta)
  PROVE  p.hook \in Hooks /\ p.out \in Seq(Chars)
<1> DEFINE s == h.buf \o delta
<1>1. s \in Seq(Chars) /\ <<>> \in Seq(Chars)
  BY ConcatProperties, EmptySeq DEF Hooks
<1>2. /\ h.mode = "blocked" => Project(h, delta) = {Show("blocked", <<>>, <<>>)}
      /\ h.mode = "plain" => Project(h, delta) = {Show("plain", <<>>, delta)}
      /\ h.mode = "final" => Project(h, delta) = Final(s)
      /\ h.mode = "pending" /\ Free(s, {"f", "t"}) =>
           Project(h, delta) = {IF PlainFinal /\ s[1] # "<" THEN Show("plain", <<>>, s)
                                ELSE Show("pending", Ending(s, Window), <<>>)}
      /\ h.mode = "pending" /\ ~Free(s, {"f", "t"}) =>
           Project(h, delta) = UNION {IF s[q + 1] = "f" THEN Final(Rest(s, q + 2)) ELSE {Show("blocked", <<>>, <<>>)} :
                                        q \in Firsts(s, {"f", "t"})}
  BY DEF Project
<1>3. Window \in Nat \ {0} /\ h.mode \in {"pending", "plain", "final", "blocked"}
  BY WorkerRunAssumption DEF Hooks
<1> HIDE DEF s
<1>4. CASE h.mode = "blocked"
  BY <1>1, <1>2, <1>4, ShowTyped
<1>5. CASE h.mode = "plain"
  BY <1>1, <1>2, <1>5, ShowTyped
<1>6. CASE h.mode = "final"
  BY <1>1, <1>2, <1>6, FinalTyped
<1>7. CASE h.mode = "pending" /\ Free(s, {"f", "t"})
  <2>1. p = Show("plain", <<>>, s) \/ p = Show("pending", Ending(s, Window), <<>>)
    BY <1>2, <1>7
  <2>2. Ending(s, Window) \in Seq(Chars)
    BY <1>1, <1>3, EndingIs
  <2> QED
    BY <1>1, <2>1, <2>2, ShowTyped
<1>8. CASE h.mode = "pending" /\ ~Free(s, {"f", "t"})
  <2>1. PICK q \in Firsts(s, {"f", "t"}) :
          p \in IF s[q + 1] = "f" THEN Final(Rest(s, q + 2)) ELSE {Show("blocked", <<>>, <<>>)}
    BY <1>2, <1>8
  <2>2. Rest(s, q + 2) \in Seq(Chars)
    BY <1>1, TagsFit, RestIs
  <2>3. p \in Final(Rest(s, q + 2)) \/ p = Show("blocked", <<>>, <<>>)
    BY <2>1
  <2> QED
    BY <1>1, <2>2, <2>3, FinalTyped, ShowTyped
<1> QED
  BY <1>3, <1>4, <1>5, <1>6, <1>7, <1>8

-----------------------------------------------------------------------------
(* The thread of a model request.                                          *)

\* A line of the stream with text, taken apart.
LEMMA TakeIs ==
  ASSUME RunTyped, NEW delta \in Deltas(req.text), Take(delta)
  PROVE  \E p \in Project(hook, delta), due \in BOOLEAN : \E k \in Parts(p.out) :
           /\ req.on = "recv" /\ hook' = p.hook /\ hook' \in Hooks /\ p.out \in Seq(Chars) /\ k \in Nat
           /\ req' = [req EXCEPT !.text = req.text \o delta, !.bare = due, !.emit = p.out,
                                 !.allowed = k + Bit(due), !.on = IF due \/ p.out # <<>> THEN "send" ELSE "recv"]
           /\ req' \in RequestRecords /\ late' = late /\ shown' = shown
<1>1. req \in RequestRecords /\ hook \in Hooks /\ req.text \in Seq(Chars)
  BY DEF RunTyped, RequestRecords
<1>2. delta \in Seq(Chars)
  BY <1>1, DeltasAreText
<1>3. PICK p \in Project(hook, delta), due \in BOOLEAN : \E k \in Parts(p.out) :
        /\ hook' = p.hook
        /\ req' = [req EXCEPT !.text = @ \o delta, !.bare = due, !.emit = p.out,
                              !.allowed = k + IF due THEN 1 ELSE 0,
                              !.on = IF due \/ p.out # <<>> THEN "send" ELSE "recv"]
  BY DEF Take
<1>4. PICK k \in Parts(p.out) :
        /\ hook' = p.hook
        /\ req' = [req EXCEPT !.text = @ \o delta, !.bare = due, !.emit = p.out,
                              !.allowed = k + IF due THEN 1 ELSE 0,
                              !.on = IF due \/ p.out # <<>> THEN "send" ELSE "recv"]
  BY <1>3
<1>5. p.hook \in Hooks /\ p.out \in Seq(Chars)
  BY <1>1, <1>2, ProjectTyped
<1>6. k \in Nat
  BY <1>5, PartsAre
<1>7. PICK a \in Nat : a = k + Bit(due) /\ a = k + IF due THEN 1 ELSE 0
  BY <1>6 DEF Bit
<1>8. PICK more \in Seq(Chars) : more = req.text \o delta
  BY <1>1, <1>2, ConcatProperties
<1>9. PICK on \in {"send", "recv"} : on = IF due \/ p.out # <<>> THEN "send" ELSE "recv"
  OBVIOUS
<1>10. req' = [req EXCEPT !.text = more, !.bare = due, !.emit = p.out, !.allowed = a, !.on = on]
  BY <1>4, <1>7, <1>8, <1>9
<1>11. req' \in RequestRecords
  BY <1>1, <1>5, <1>10 DEF RequestRecords
<1>12. req.on = "recv" /\ late' = late /\ shown' = shown
  BY DEF Take
<1> QED
  BY <1>4, <1>5, <1>6, <1>7, <1>8, <1>9, <1>10, <1>11, <1>12

\* An event that is sent, taken apart: what of the text goes with it and what is left.
LEMMA EmitIs ==
  ASSUME RunTyped, Emit
  PROVE  \E n \in 0 .. Len(req.emit) : \E rest \in Seq(Chars) :
           /\ rest = Rest(req.emit, n + 1) /\ Len(rest) = Len(req.emit) - n
           /\ n = IF req.bare THEN 0 ELSE IF Len(req.emit) > Part THEN Part ELSE Len(req.emit)
           /\ req.on = "send" /\ hook' = hook /\ Sent
           /\ req' = IF req.retry THEN [req EXCEPT !.on = "ask", !.attempt = @ + 1, !.retry = FALSE,
                                                   !.bare = FALSE, !.text = <<>>, !.thought = FALSE]
                     ELSE [req EXCEPT !.bare = FALSE, !.emit = rest, !.on = IF rest = <<>> THEN "recv" ELSE "send"]
           /\ shown' = IF ended # "no" THEN shown
                       ELSE IF req.retry THEN <<>> ELSE shown \o SubSeq(req.emit, 1, n)
<1>1. req.emit \in Seq(Chars) /\ Len(req.emit) \in Nat /\ Part \in Nat
  BY WorkerRunAssumption, LenProperties DEF RunTyped, RequestRecords
<1>2. PICK n : n = IF req.bare THEN 0 ELSE IF Len(req.emit) > Part THEN Part ELSE Len(req.emit)
  OBVIOUS
<1>3. n \in 0 .. Len(req.emit) /\ n + 1 \in 1 .. Len(req.emit) + 1
  BY <1>1, <1>2
<1>4. Rest(req.emit, n + 1) \in Seq(Chars) /\ Len(Rest(req.emit, n + 1)) = Len(req.emit) - (n + 1) + 1
  BY <1>1, <1>3, RestIs
<1>5. PICK rest \in Seq(Chars) : rest = Rest(req.emit, n + 1) /\ Len(rest) = Len(req.emit) - n
  BY <1>1, <1>3, <1>4
<1> QED
  BY <1>2, <1>3, <1>5 DEF Emit

LEMMA RequestTyped ==
  ASSUME RunTyped, RequestStep
  PROVE  RunTyped'
<1> DEFINE Frame == pc' = pc /\ ops' = ops /\ token' = token /\ beat' = beat /\ strays' = strays
                    /\ proc' = proc /\ ended' = ended
<1>1. Frame
  BY DEF RequestStep, RequestOnly, Ask, Open, Think, Receive, Take, ReceiveCancelled, Emit, Break, FailRetryable,
         Reject, Exhaust, Answer
<1>2. req \in RequestRecords /\ (req.retry => req.attempt < MaxAttempts) /\ late \in Nat /\ hook \in Hooks
  BY DEF RunTyped
<1>3. PICK none \in Seq(Chars) : none = <<>>
  BY EmptySeq
<1>4. MaxAttempts \in Nat \ {0}
  BY WorkerRunAssumption
<1>5. late' \in Nat
  <2>1. late' = late \/ Sent
    BY DEF RequestStep, Ask, Open, Think, Receive, Take, ReceiveCancelled, Emit, Break, FailRetryable,
           Reject, Exhaust, Answer
  <2> QED
    BY <1>2, <2>1 DEF Sent
<1> DEFINE Good == req' \in RequestRecords /\ (req'.retry => req'.attempt < MaxAttempts) /\ hook' \in Hooks
<1>6. Good
  <2>1. CASE Ask \/ Open \/ Think \/ ReceiveCancelled \/ Reject \/ Answer
    <3>1. hook' = hook /\ late' = late
      BY <2>1 DEF Ask, Open, Think, ReceiveCancelled, Reject, Answer
    <3>2. CASE Ask
      BY <1>2, <3>2 DEF Ask, RequestRecords
    <3>3. CASE Think
      <4>1. req' = [req EXCEPT !.thought = TRUE, !.bare = TRUE, !.emit = none, !.allowed = 1, !.on = "send"]
        BY <1>3, <3>3 DEF Think
      <4>2. req' \in RequestRecords /\ req'.retry = req.retry /\ req'.attempt = req.attempt
        BY <1>2, <4>1 DEF RequestRecords
      <4> QED
        BY <1>2, <3>1, <4>2
    <3>4. CASE Open \/ ReceiveCancelled \/ Reject \/ Answer
      <4>1. PICK on \in {"recv", "cancelled", "failed", "ok"} : req' = [req EXCEPT !.on = on]
        BY <3>4 DEF Open, ReceiveCancelled, Reject, Answer
      <4>2. req' \in RequestRecords /\ req'.retry = req.retry /\ req'.attempt = req.attempt
        BY <1>2, <4>1 DEF RequestRecords
      <4> QED
        BY <1>2, <3>1, <4>2
    <3> QED
      BY <1>2, <2>1, <3>1, <3>2, <3>3, <3>4
  <2>2. CASE Emit
    <3>1. PICK rest \in Seq(Chars) :
            /\ hook' = hook
            /\ req' = IF req.retry THEN [req EXCEPT !.on = "ask", !.attempt = @ + 1, !.retry = FALSE,
                                                    !.bare = FALSE, !.text = <<>>, !.thought = FALSE]
                      ELSE [req EXCEPT !.bare = FALSE, !.emit = rest, !.on = IF rest = <<>> THEN "recv" ELSE "send"]
      BY <2>2, EmitIs
    <3>2. CASE req.retry
      <4>1. req' = [req EXCEPT !.on = "ask", !.attempt = req.attempt + 1, !.retry = FALSE, !.bare = FALSE,
                               !.text = none, !.thought = FALSE]
        BY <1>3, <3>1, <3>2
      <4>2. req.attempt + 1 \in 1 .. MaxAttempts
        BY <1>2, <1>4, <3>2 DEF RequestRecords
      <4>3. req' \in RequestRecords /\ ~req'.retry
        BY <1>2, <4>1, <4>2 DEF RequestRecords
      <4> QED
        BY <1>2, <3>1, <4>3
    <3>3. CASE ~req.retry
      <4>1. PICK on \in {"recv", "send"} : req' = [req EXCEPT !.bare = FALSE, !.emit = rest, !.on = on]
        BY <3>1, <3>3
      <4>2. req' \in RequestRecords /\ req'.retry = req.retry
        BY <1>2, <4>1 DEF RequestRecords
      <4> QED
        BY <1>2, <3>1, <3>3, <4>2
    <3> QED
      BY <3>2, <3>3
  <2>3. CASE Break
    <3>1. hook' = hook \/ hook' = FreshHook
      BY <2>3 DEF Break, FailRetryable, Retried
    <3>2. hook' \in Hooks
      BY <1>2, <3>1, FreshTyped
    <3>3. req' = [req EXCEPT !.on = "failed"] \/ req' = [req EXCEPT !.on = "cancelled"]
          \/ (req.attempt # MaxAttempts
              /\ req' = [req EXCEPT !.on = "send", !.retry = TRUE, !.bare = TRUE, !.emit = none, !.allowed = 1])
      BY <1>3, <2>3 DEF Break, FailRetryable
    <3>4. CASE req' = [req EXCEPT !.on = "failed"] \/ req' = [req EXCEPT !.on = "cancelled"]
      <4>1. req' \in RequestRecords /\ req'.retry = req.retry /\ req'.attempt = req.attempt
        BY <1>2, <3>4 DEF RequestRecords
      <4> QED
        BY <1>2, <3>2, <4>1
    <3>5. CASE req.attempt # MaxAttempts
               /\ req' = [req EXCEPT !.on = "send", !.retry = TRUE, !.bare = TRUE, !.emit = none, !.allowed = 1]
      <4>1. req' \in RequestRecords /\ req'.attempt = req.attempt /\ req.attempt \in 1 .. MaxAttempts
        BY <1>2, <3>5 DEF RequestRecords
      <4>2. req.attempt < MaxAttempts
        BY <1>4, <3>5, <4>1
      <4> QED
        BY <3>2, <4>1, <4>2
    <3> QED
      BY <3>3, <3>4, <3>5
  <2>4. CASE Exhaust
    <3>1. \/ req' = [NoRequest EXCEPT !.on = "ask", !.second = TRUE, !.asked = TRUE, !.allowed = req.allowed]
          \/ req' = [req EXCEPT !.on = "failed"]
      BY <2>4 DEF Exhaust
    <3>2. ~NoRequest.retry
      BY DEF NoRequest
    <3>3. req' \in RequestRecords /\ (req'.retry => req'.attempt < MaxAttempts)
      <4>1. CASE req' = [req EXCEPT !.on = "failed"]
        BY <1>2, <4>1 DEF RequestRecords
      <4>2. CASE req' = [NoRequest EXCEPT !.on = "ask", !.second = TRUE, !.asked = TRUE, !.allowed = req.allowed]
        <5>1. PICK a \in Nat : a = req.allowed
          BY <1>2 DEF RequestRecords
        <5>2. req' = [NoRequest EXCEPT !.on = "ask", !.second = TRUE, !.asked = TRUE, !.allowed = a]
          BY <4>2, <5>1
        <5>3. req' \in RequestRecords /\ ~req'.retry
          BY <3>2, <5>2, FreshTyped DEF RequestRecords
        <5> QED
          BY <5>3
      <4> QED
        BY <3>1, <4>1, <4>2
    <3> QED
      BY <1>2, <2>4, <3>3 DEF Exhaust
  <2>5. CASE \E delta \in Deltas(req.text) : Receive(delta)
    <3>1. PICK delta \in Deltas(req.text) : Take(delta)
      BY <2>5 DEF Receive
    <3>2. PICK p \in Project(hook, delta), due \in BOOLEAN : \E k \in Parts(p.out) :
            /\ req' = [req EXCEPT !.text = req.text \o delta, !.bare = due, !.emit = p.out,
                                  !.allowed = k + Bit(due), !.on = IF due \/ p.out # <<>> THEN "send" ELSE "recv"]
            /\ req' \in RequestRecords /\ hook' \in Hooks
      BY <3>1, TakeIs
    <3>3. req'.retry = req.retry /\ req'.attempt = req.attempt
      BY <1>2, <3>2 DEF RequestRecords
    <3> QED
      BY <1>2, <3>2, <3>3
  <2> QED
    BY <2>1, <2>2, <2>3, <2>4, <2>5 DEF RequestStep
<1> QED
  BY <1>1, <1>5, <1>6 DEF RunTyped

\* What is owed is a number, at least one while there is something to send.
LEMMA OwedIs ==
  ASSUME NEW r \in RequestRecords
  PROVE  /\ Owed(r) \subseteq Nat /\ (r.on # "send" => Owed(r) = {0})
         /\ r.on = "send" => \A k \in Parts(r.emit) : Bit(r.bare) + k \in Owed(r)
         /\ r.on = "send" /\ (r.bare \/ r.emit # <<>>) => \A n \in Owed(r) : n >= 1
<1>1. r.emit \in Seq(Chars)
  BY DEF RequestRecords
<1>2. Parts(r.emit) \subseteq Nat /\ (r.emit # <<>> => \A k \in Parts(r.emit) : k >= 1)
  BY <1>1, PartsAre
<1>3. Bit(r.bare) \in {0, 1} /\ (r.bare => Bit(r.bare) = 1)
  BY DEF Bit
<1> QED
  BY <1>2, <1>3 DEF Owed

\* An event that is sent is no longer owed.
LEMMA EmitPays ==
  ASSUME RunTyped, RequestOwes, Emit
  PROVE  /\ req' \in RequestRecords => \A n \in Owed(req) : \E m \in Owed(req)' : m + 1 <= n
         /\ req'.on = "send" => req'.bare \/ req'.emit # <<>>
         /\ req'.on # "none" /\ req'.allowed = req.allowed
<1>1. req \in RequestRecords /\ req.emit \in Seq(Chars) /\ Len(req.emit) \in Nat /\ Part \in Nat \ {0}
  BY WorkerRunAssumption, LenProperties DEF RunTyped, RequestRecords
<1>2. PICK n \in 0 .. Len(req.emit), rest \in Seq(Chars) :
           /\ rest = Rest(req.emit, n + 1) /\ Len(rest) = Len(req.emit) - n
           /\ n = IF req.bare THEN 0 ELSE IF Len(req.emit) > Part THEN Part ELSE Len(req.emit)
           /\ req.on = "send"
           /\ req' = IF req.retry THEN [req EXCEPT !.on = "ask", !.attempt = @ + 1, !.retry = FALSE,
                                                   !.bare = FALSE, !.text = <<>>, !.thought = FALSE]
                     ELSE [req EXCEPT !.bare = FALSE, !.emit = rest, !.on = IF rest = <<>> THEN "recv" ELSE "send"]
  BY EmitIs
<1>3. req'.allowed = req.allowed /\ req'.on \in {"ask", "recv", "send"}
      /\ (req'.on = "send" => ~req.retry /\ rest # <<>> /\ req'.emit = rest /\ ~req'.bare)
  BY <1>1, <1>2 DEF RequestRecords
<1>4. \A k \in Owed(req) : k \in Nat /\ k >= 1
  BY <1>1, <1>2, OwedIs DEF RequestOwes
<1>5. ASSUME req' \in RequestRecords, NEW k \in Owed(req) PROVE \E m \in Owed(req)' : m + 1 <= k
  <2>1. CASE req'.on # "send"
    <3>1. Owed(req)' = {0}
      BY <2>1 DEF Owed
    <3> QED
      BY <1>4, <3>1
  <2>2. CASE req'.on = "send"
    <3>1. PICK j \in Parts(req.emit) : k = Bit(req.bare) + j
      BY <1>2 DEF Owed
    <3>2. j \in Nat
      BY <1>1, PartsAre
    <3>3. \A i \in Parts(rest) : i \in Owed(req)'
      <4>1. PICK r : r = req'
        OBVIOUS
      <4>2. \A i \in Parts(rest) : Bit(r.bare) + i \in Owed(r)
        BY <1>3, <1>5, <2>2, <4>1, OwedIs
      <4>3. Bit(r.bare) = 0 /\ Parts(rest) \subseteq Nat
        BY <1>3, <2>2, <4>1, PartsAre DEF Bit
      <4>4. \A i \in Parts(rest) : i \in Owed(r)
        BY <4>2, <4>3
      <4> QED
        BY <4>1, <4>4
    <3>4. CASE req.bare
      <4>1. rest = req.emit
        BY <1>1, <1>2, <3>4, SubSeqFull DEF Rest
      <4>2. k = 1 + j
        BY <3>1, <3>4 DEF Bit
      <4> QED
        BY <3>1, <3>2, <3>3, <4>1, <4>2
    <3>5. CASE ~req.bare
      <4>1. Len(req.emit) > Part /\ Len(rest) = Len(req.emit) - Part
        <5>1. Len(rest) # 0
          BY <1>3, <2>2, EmptySeq
        <5> QED
          BY <1>1, <1>2, <3>5, <5>1
      <4>2. j - 1 \in Parts(rest)
        BY <1>1, <3>1, <4>1, PartsAre
      <4>3. k = j
        BY <3>1, <3>2, <3>5 DEF Bit
      <4> QED
        BY <3>2, <3>3, <4>2, <4>3
    <3> QED
      BY <3>4, <3>5
  <2> QED
    BY <2>1, <2>2
<1> QED
  BY <1>3, <1>5

\* A step of the request's thread: it sends what it owes, or owes what its look at the
\* token has let through; and with the token set it no longer lets anything through.
LEMMA RequestSends ==
  ASSUME RunTyped, RequestOwes, RequestStep
  PROVE  /\ RequestOnly /\ req.on # "none" /\ RequestOwes'
         /\ ended = "no" => late' = late
         /\ \/ /\ late' = late /\ req'.allowed = req.allowed /\ Owed(req)' = {0}
            \/ /\ ~token /\ late' = late /\ \E n \in Owed(req)' : n <= req'.allowed
            \/ /\ late' <= late + 1 /\ req'.allowed = req.allowed
               /\ \A n \in Owed(req) : \E m \in Owed(req)' : m + 1 <= n
<1>1. req \in RequestRecords /\ late \in Nat /\ MaxAttempts \in Nat /\ req' \in RequestRecords /\ MaxLate \in Nat
  BY RequestTyped, WorkerRunAssumption, SMTT(30) DEF RunTyped
<1>2. RequestOnly
  BY DEF RequestStep, RequestOnly, Ask, Open, Think, Receive, Take, ReceiveCancelled, Emit, Break, FailRetryable,
         Reject, Exhaust, Answer
<1> DEFINE Goal ==
             /\ req.on # "none" /\ RequestOwes' /\ (ended = "no" => late' = late)
             /\ \/ /\ late' = late /\ req'.allowed = req.allowed /\ Owed(req)' = {0}
                \/ /\ ~token /\ late' = late /\ \E n \in Owed(req)' : n <= req'.allowed
                \/ /\ late' <= late + 1 /\ req'.allowed = req.allowed
                   /\ \A n \in Owed(req) : \E m \in Owed(req)' : m + 1 <= n
\* Steps that send nothing and let nothing through.
<1>3. ASSUME late' = late, req.on # "none", req'.on \notin {"send", "none"}, req'.allowed = req.allowed
      PROVE  Goal
  BY <1>3 DEF Owed, RequestOwes
\* Steps that let through what has no text.
<1>4. ASSUME late' = late, req.on # "none", ~token, req'.on = "send", req'.bare, req'.emit = <<>>, req'.allowed = 1
      PROVE  Goal
  <2>1. PICK r : r = req'
    OBVIOUS
  <2>2. 0 \in Parts(r.emit)
    BY <1>1, <1>4, <2>1, PartsAre DEF RequestRecords
  <2>3. Bit(r.bare) + 0 \in Owed(r)
    BY <1>1, <1>4, <2>1, <2>2, OwedIs
  <2>4. Bit(r.bare) + 0 = 1
    BY <1>4, <2>1 DEF Bit
  <2>5. 1 \in Owed(req)'
    BY <2>1, <2>3, <2>4
  <2> QED
    BY <1>4, <2>5 DEF RequestOwes
<1>5. CASE Ask \/ Open \/ ReceiveCancelled \/ Reject \/ Answer
  <2>1. late' = late /\ req.on # "none"
    BY <1>5 DEF Ask, Open, ReceiveCancelled, Reject, Answer
  <2>2. req'.on \notin {"send", "none"} /\ req'.allowed = req.allowed
    BY <1>1, <1>5 DEF Ask, Open, ReceiveCancelled, Reject, Answer, RequestRecords
  <2> QED
    BY <1>2, <1>3, <2>1, <2>2
<1>6. CASE Think
  <2>1. late' = late /\ req.on # "none" /\ ~token
        /\ req' = [req EXCEPT !.thought = TRUE, !.bare = TRUE, !.emit = <<>>, !.allowed = 1, !.on = "send"]
    BY <1>6 DEF Think
  <2>2. req'.on = "send" /\ req'.bare /\ req'.emit = <<>> /\ req'.allowed = 1
    BY <1>1, <2>1 DEF RequestRecords
  <2> QED
    BY <1>2, <1>4, <2>1, <2>2
<1>7. CASE Emit
  <2>1. req.on = "send" /\ Sent
    BY <1>7 DEF Emit
  <2>2. late' <= late + 1 /\ (ended = "no" => late' = late)
    BY <1>1, <2>1 DEF Sent
  <2>3. RequestOwes'
    BY <1>7, EmitPays DEF RequestOwes
  <2> QED
    BY <1>1, <1>2, <1>7, <2>1, <2>2, <2>3, EmitPays
<1>8. CASE Break
  <2>1. req.on \in {"open", "recv"} /\ late' = late /\ req.attempt <= MaxAttempts
    BY <1>1, <1>8 DEF Break, FailRetryable, RequestRecords
  <2>2. \/ \E on \in {"failed", "cancelled"} : req' = [req EXCEPT !.on = on]
        \/ ~token /\ req' = [req EXCEPT !.on = "send", !.retry = TRUE, !.bare = TRUE, !.emit = <<>>, !.allowed = 1]
    <3>1. req.attempt = MaxAttempts \/ req.attempt < MaxAttempts
      BY <1>1, <2>1 DEF RequestRecords
    <3> QED
      BY <1>8, <3>1 DEF Break, FailRetryable
  <2>3. CASE \E on \in {"failed", "cancelled"} : req' = [req EXCEPT !.on = on]
    <3>1. req'.on \notin {"send", "none"} /\ req'.allowed = req.allowed
      BY <1>1, <2>3 DEF RequestRecords
    <3> QED
      BY <1>2, <1>3, <2>1, <3>1
  <2>4. CASE ~token /\ req' = [req EXCEPT !.on = "send", !.retry = TRUE, !.bare = TRUE, !.emit = <<>>, !.allowed = 1]
    <3>1. req'.on = "send" /\ req'.bare /\ req'.emit = <<>> /\ req'.allowed = 1
      BY <1>1, <2>4 DEF RequestRecords
    <3> QED
      BY <1>2, <1>4, <2>1, <2>4, <3>1
  <2> QED
    BY <2>2, <2>3, <2>4
<1>9. CASE Exhaust
  <2>1. late' = late /\ req.on = "recv"
        /\ \/ req' = [NoRequest EXCEPT !.on = "ask", !.second = TRUE, !.asked = TRUE, !.allowed = req.allowed]
           \/ req' = [req EXCEPT !.on = "failed"]
    BY <1>9 DEF Exhaust
  <2>2. req'.on \notin {"send", "none"} /\ req'.allowed = req.allowed
    BY <1>1, <2>1 DEF NoRequest, RequestRecords
  <2> QED
    BY <1>2, <1>3, <2>1, <2>2
<1>10. CASE \E delta \in Deltas(req.text) : Receive(delta)
  <2>1. PICK delta \in Deltas(req.text) : Take(delta) /\ ~token
    BY <1>10 DEF Receive
  <2>2. PICK p \in Project(hook, delta), due \in BOOLEAN : \E k \in Parts(p.out) :
           /\ req.on = "recv" /\ hook' = p.hook /\ hook' \in Hooks /\ p.out \in Seq(Chars) /\ k \in Nat
           /\ req' = [req EXCEPT !.text = req.text \o delta, !.bare = due, !.emit = p.out,
                                 !.allowed = k + Bit(due), !.on = IF due \/ p.out # <<>> THEN "send" ELSE "recv"]
           /\ req' \in RequestRecords /\ late' = late /\ shown' = shown
    BY <2>1, TakeIs
  <2>6. PICK k \in Parts(p.out) :
           /\ req.on = "recv" /\ hook' = p.hook /\ hook' \in Hooks /\ p.out \in Seq(Chars) /\ k \in Nat
           /\ req' = [req EXCEPT !.text = req.text \o delta, !.bare = due, !.emit = p.out,
                                 !.allowed = k + Bit(due), !.on = IF due \/ p.out # <<>> THEN "send" ELSE "recv"]
           /\ req' \in RequestRecords /\ late' = late /\ shown' = shown
    BY <2>2
  <2>7. PICK out : out = p.out
    OBVIOUS
  <2>3. /\ req'.bare = due /\ req'.emit = out /\ req'.allowed = k + Bit(due)
        /\ req'.on = IF due \/ out # <<>> THEN "send" ELSE "recv"
    BY <1>1, <2>6, <2>7 DEF RequestRecords
  <2>4. RequestOwes'
    BY <2>3 DEF RequestOwes
  <2>5. \E n \in Owed(req)' : n <= req'.allowed
    <3>1. PICK r : r = req'
      OBVIOUS
    <3>2. CASE r.on = "send"
      <4>1. Bit(r.bare) + k \in Owed(r)
        BY <1>1, <2>3, <2>6, <2>7, <3>1, <3>2, OwedIs
      <4>2. Bit(r.bare) + k <= r.allowed
        BY <2>6, <2>3, <3>1 DEF Bit
      <4> QED
        BY <3>1, <4>1, <4>2
    <3>3. CASE r.on # "send"
      <4>1. 0 \in Owed(r) /\ 0 <= r.allowed
        BY <1>1, <3>1, <3>3 DEF Owed, RequestRecords
      <4> QED
        BY <3>1, <4>1
    <3> QED
      BY <3>2, <3>3
  <2> QED
    BY <1>2, <2>1, <2>6, <2>4, <2>5
<1> QED
  BY <1>5, <1>6, <1>7, <1>8, <1>9, <1>10 DEF RequestStep

LEMMA RequestKeeps ==
  ASSUME WorkerInv, RequestStep
  PROVE  WorkerInv'
<1>1. RunTyped /\ RunTyped' /\ RequestOwes
  BY RequestTyped DEF WorkerInv
<1>2. /\ RequestOnly /\ req.on # "none" /\ RequestOwes' /\ (ended = "no" => late' = late)
      /\ \/ /\ late' = late /\ req'.allowed = req.allowed /\ Owed(req)' = {0}
         \/ /\ ~token /\ late' = late /\ \E n \in Owed(req)' : n <= req'.allowed
         \/ /\ late' <= late + 1 /\ req'.allowed = req.allowed
            /\ \A n \in Owed(req) : \E m \in Owed(req)' : m + 1 <= n
  BY <1>1, RequestSends
<1>3. ShellLeavesLittle' /\ NothingRegistered' /\ SurvivorsAreReported'
  BY <1>2 DEF WorkerInv, RequestOnly, ShellLeavesLittle, NothingRegistered, SurvivorsAreReported
<1>4. CancelledByToken' /\ BeatsInShell'
  BY <1>2 DEF WorkerInv, RequestOnly, CancelledByToken, BeatsInShell
<1>5. /\ strays \in Nat /\ late \in Nat /\ late' \in Nat /\ ops \in Nat
      /\ Beating \in {0, 1} /\ Beating' = Beating /\ Asked \in {0, 1} /\ Asked' \in {0, 1}
      /\ Asked = 1 /\ ops' = ops /\ strays' = strays
  BY <1>1, <1>2 DEF RunTyped, Beating, Asked, Bit, RequestOnly
<1>6. PICK has \in Nat, gets \in Nat : has = req.allowed /\ gets = req'.allowed
  BY <1>1 DEF RunTyped, RequestRecords
<1>7. Owed(req) \subseteq Nat /\ Owed(req)' \subseteq Nat
  <2>1. PICK r \in RequestRecords : r = req'
    BY <1>1 DEF RunTyped
  <2>2. Owed(r) \subseteq Nat
    BY OwedIs
  <2> QED
    BY <1>1, <2>1, <2>2, OwedIs DEF RunTyped
<1>8. ThreadsAreCalls'
  <2> SUFFICES ASSUME ended' = "no"
               PROVE  late' = 0 /\ strays' + Beating' + Asked' <= ops' /\ \E n \in Owed(req)' : n <= gets
    BY <1>6 DEF ThreadsAreCalls
  <2>1. ended = "no" /\ ops' = ops /\ strays' = strays
    BY <1>2 DEF RequestOnly
  <2>2. late = 0 /\ strays + Beating + Asked <= ops
    BY <2>1 DEF WorkerInv, ThreadsAreCalls
  <2>3. PICK k \in Nat : k \in Owed(req) /\ k <= has
    BY <1>6, <1>7, <2>1 DEF WorkerInv, ThreadsAreCalls
  <2>4. \E n \in Owed(req)' : n <= gets
    <3>1. CASE req'.allowed = req.allowed /\ Owed(req)' = {0}
      BY <1>6, <3>1
    <3>2. CASE \E n \in Owed(req)' : n <= req'.allowed
      BY <1>6, <3>2
    <3>3. CASE req'.allowed = req.allowed /\ \A n \in Owed(req) : \E m \in Owed(req)' : m + 1 <= n
      BY <1>6, <1>7, <2>3, <3>3
    <3> QED
      BY <1>2, <3>1, <3>2, <3>3
  <2>5. late' = 0
    BY <1>2, <2>1, <2>2
  <2>6. strays' + Beating' + Asked' <= ops'
    <3>1. PICK b \in {0, 1} : b = Beating
      BY <1>5
    <3>4. PICK a \in {0, 1} : a = Asked'
      BY <1>5
    <3>2. strays + b + 1 <= ops
      BY <1>5, <2>2, <3>1
    <3>3. strays + b + a <= ops
      BY <1>5, <3>2
    <3> QED
      BY <1>5, <3>1, <3>3, <3>4
  <2> QED
    BY <2>4, <2>5, <2>6
<1>9. SendersAreFew'
  <2> SUFFICES ASSUME ended' = "cancelled"
               PROVE  \E n \in Owed(req)' : late' + strays' + Beating' + Asked' + n <= ops' + gets
    BY <1>6 DEF SendersAreFew
  <2>1. ended = "cancelled" /\ ops' = ops /\ strays' = strays
    BY <1>2 DEF RequestOnly
  <2>2. token
    BY <2>1 DEF WorkerInv, CancelledByToken
  <2>3. PICK k \in Nat : k \in Owed(req) /\ late + strays + Beating + Asked + k <= ops + has
    BY <1>6, <1>7, <2>1 DEF WorkerInv, SendersAreFew
  <2>4. \E n \in Nat : n \in Owed(req)' /\ late' + n <= late + k /\ gets = has
    <3>1. CASE late' = late /\ req'.allowed = req.allowed /\ Owed(req)' = {0}
      BY <1>5, <1>6, <2>3, <3>1
    <3>2. CASE /\ late' <= late + 1 /\ req'.allowed = req.allowed
               /\ \A n \in Owed(req) : \E m \in Owed(req)' : m + 1 <= n
      <4>1. PICK m \in Owed(req)' : m + 1 <= k
        BY <2>3, <3>2
      <4>2. m \in Nat /\ late' + m <= late + k
        BY <1>5, <1>7, <3>2, <4>1
      <4> QED
        BY <1>6, <3>2, <4>1, <4>2
    <3> QED
      BY <1>2, <2>2, <3>1, <3>2
  <2>5. PICK n \in Nat : n \in Owed(req)' /\ late' + n <= late + k /\ gets = has
    BY <2>4
  <2>6. late' + strays' + Beating' + Asked' + n <= ops' + gets
    <3>1. PICK b \in {0, 1} : b = Beating
      BY <1>5
    <3>4. PICK a \in {0, 1} : a = Asked'
      BY <1>5
    <3>2. late + strays + b + 1 + k <= ops + has
      BY <1>5, <2>3, <3>1
    <3>3. late' + strays + b + a + n <= ops + gets
      <4>1. PICK l \in Nat, m \in Nat, s \in Nat, o \in Nat : l = late /\ m = late' /\ s = strays /\ o = ops
        <5>1. late \in Nat /\ late' \in Nat /\ strays \in Nat /\ ops \in Nat
          BY <1>1 DEF RunTyped
        <5> QED
          BY <5>1
      <4>2. l + s + b + 1 + k <= o + has
        BY <3>2, <4>1
      <4>4. m + n <= l + k /\ gets = has
        BY <2>5, <4>1
      <4>3. m + s + b + a + n <= o + gets
        BY <4>2, <4>4
      <4> QED
        BY <4>1, <4>3
    <3> QED
      BY <1>5, <3>1, <3>3, <3>4
  <2> QED
    BY <2>5, <2>6
<1> QED
  BY <1>1, <1>2, <1>3, <1>4, <1>8, <1>9 DEF WorkerInv

-----------------------------------------------------------------------------
(* The run's own thread.                                                   *)

LEMMA ProcessTyped ==
  /\ NoProcess \in Processes
  /\ proc \in Processes => Reported \in Processes
  /\ \A dead \in BOOLEAN : proc \in Processes => Terminate(proc, dead) \in Processes
BY DEF NoProcess, Processes, Reported, Terminate

LEMMA RunTypedKept ==
  ASSUME RunTyped, RunStep
  PROVE  RunTyped'
<1>1. token' = token /\ late' = late
  BY DEF RunStep, RunOnly, StartModel, TakeAnswer, TakeFailure, SeeCancel, GiveUp, StartShell, ShellLoop,
         Readers, ToolReturns, CancelledBetween, Finish
<1>2. pc' \in {"between", "model", "shell", "ended"}
      /\ ended' \in {"no", "completed", "failed", "cancelled"} /\ (ended' # "no" <=> pc' = "ended")
  <2>1. CASE StartModel \/ TakeAnswer \/ StartShell
    BY <2>1 DEF RunTyped, StartModel, TakeAnswer, StartShell
  <2>2. CASE TakeFailure \/ SeeCancel \/ CancelledBetween \/ Finish
    BY <2>2 DEF RunTyped, End, TakeFailure, SeeCancel, GiveUp, CancelledBetween, Finish
  <2>3. CASE ShellLoop \/ Readers
    BY <2>3 DEF RunTyped, ShellLoop, Readers
  <2>4. CASE ToolReturns
    BY <2>4 DEF RunTyped, End, ToolReturns
  <2> QED
    BY <2>1, <2>2, <2>3, <2>4 DEF RunStep
<1>3. ops' \in Nat /\ strays' \in Nat /\ beat' \in {"off", "on", "sending"}
  <2>1. ops \in Nat /\ strays \in Nat /\ beat \in {"off", "on", "sending"}
    BY DEF RunTyped
  <2>2. CASE StartModel \/ StartShell
    BY <2>1, <2>2 DEF StartModel, StartShell
  <2>3. CASE TakeAnswer \/ TakeFailure \/ SeeCancel \/ ShellLoop \/ Readers \/ CancelledBetween \/ Finish
    BY <2>1, <2>3 DEF TakeAnswer, TakeFailure, SeeCancel, GiveUp, ShellLoop, Readers, CancelledBetween, Finish
  <2>4. CASE ToolReturns
    BY <2>1, <2>4 DEF ToolReturns
  <2> QED
    BY <2>2, <2>3, <2>4 DEF RunStep
<1>4. req' \in RequestRecords /\ (req'.retry => req'.attempt < MaxAttempts)
  <2>1. req' = req \/ \E on \in {"failed", "ask"} : req' = [NoRequest EXCEPT !.on = on]
    BY DEF RunStep, StartModel, TakeAnswer, TakeFailure, SeeCancel, GiveUp, StartShell, ShellLoop,
           Readers, ToolReturns, CancelledBetween, Finish
  <2>2. ~NoRequest.retry
    BY DEF NoRequest
  <2> QED
    BY <2>1, <2>2, FreshTyped DEF RunTyped, RequestRecords
<1>5. hook' \in Hooks
  <2>1. hook' = hook \/ hook' = FreshHook \/ hook' = [hook EXCEPT !.mode = IF @ = "plain" THEN "blocked" ELSE @]
    BY DEF RunStep, StartModel, TakeAnswer, TakeFailure, SeeCancel, GiveUp, StartShell, ShellLoop,
           Readers, ToolReturns, CancelledBetween, Finish
  <2> QED
    BY <2>1, FreshTyped DEF RunTyped, Hooks
<1>6. proc' \in Processes
  <2>1. CASE StartModel \/ TakeAnswer \/ TakeFailure \/ SeeCancel \/ CancelledBetween \/ Finish
    BY <2>1, ProcessTyped DEF RunTyped, StartModel, TakeAnswer, TakeFailure, SeeCancel, GiveUp,
                              CancelledBetween, Finish
  <2>2. CASE StartShell
    BY <2>2 DEF StartShell, NoProcess, Processes
  <2>3. CASE ShellLoop
    <3>1. \E p \in Processes : \/ proc' = [p EXCEPT !.loop = "readers"]
                              \/ proc' = [p EXCEPT !.loop = "readers", !.stopped = "cancel"]
                              \/ proc' = [p EXCEPT !.loop = "readers", !.stopped = "timeout"]
      <4>1. proc \in Processes /\ Terminate(proc, TRUE) \in Processes /\ Terminate(proc, FALSE) \in Processes
        BY ProcessTyped DEF RunTyped
      <4>2. PICK p \in {proc, Terminate(proc, TRUE), Terminate(proc, FALSE)} :
              \/ proc' = [p EXCEPT !.loop = "readers"]
              \/ proc' = [p EXCEPT !.loop = "readers", !.stopped = "cancel"]
              \/ proc' = [p EXCEPT !.loop = "readers", !.stopped = "timeout"]
        BY <2>3 DEF ShellLoop
      <4> QED
        BY <4>1, <4>2
    <3> QED
      BY <3>1 DEF Processes
  <2>4. CASE Readers
    <3>1. PICK p \in Processes :
            proc' = [p EXCEPT !.loop = "done", !.tree = IF ~Posix /\ p.clean /\ @ # "none" THEN "gone" ELSE @]
      BY <2>4, ProcessTyped DEF RunTyped, Readers
    <3> QED
      BY <3>1 DEF Processes
  <2>5. CASE ToolReturns
    BY <2>5, ProcessTyped DEF RunTyped, ToolReturns, Processes
  <2> QED
    BY <2>1, <2>2, <2>3, <2>4, <2>5 DEF RunStep
<1> QED
  BY <1>1, <1>2, <1>3, <1>4, <1>5, <1>6 DEF RunTyped

\* What the shell's loops leave of the command, and what the run is told of it.
LEMMA RunShell ==
  ASSUME WorkerInv, RunStep
  PROVE  ShellLeavesLittle' /\ NothingRegistered' /\ SurvivorsAreReported'
<1>1. proc \in Processes /\ (ended # "no" <=> pc = "ended")
  BY DEF WorkerInv, RunTyped
<1>2. CASE StartModel
  BY <1>2 DEF StartModel, NoProcess, ShellLeavesLittle, NothingRegistered, SurvivorsAreReported
<1>3. CASE TakeAnswer \/ TakeFailure \/ SeeCancel \/ CancelledBetween \/ Finish
  <2>1. pc # "shell" /\ pc' # "shell" /\ proc' = proc
    BY <1>3 DEF TakeAnswer, TakeFailure, SeeCancel, GiveUp, CancelledBetween, Finish, End
  <2> QED
    BY <2>1 DEF WorkerInv, ShellLeavesLittle, NothingRegistered, SurvivorsAreReported
<1>4. CASE StartShell
  BY <1>4 DEF StartShell, NoProcess, ShellLeavesLittle, NothingRegistered, SurvivorsAreReported
<1>5. CASE ShellLoop
  <2>1. pc = "shell" /\ pc' = "shell" /\ proc.loop = "wait" /\ proc.stopped = "no"
    BY <1>5 DEF ShellLoop, WorkerInv, ShellLeavesLittle
  <2>2. CASE \E dead \in BOOLEAN, why \in {"cancel", "timeout"} :
               proc' = [Terminate(proc, dead) EXCEPT !.loop = "readers", !.stopped = why]
    <3>1. proc'.loop = "readers" /\ (proc'.clean => proc'.tree = "gone")
      BY <1>1, <2>2 DEF Terminate, Processes
    <3> QED
      BY <2>1, <3>1 DEF ShellLeavesLittle, NothingRegistered, SurvivorsAreReported
  <2>3. CASE proc.tree # "up" /\ proc' = [proc EXCEPT !.loop = "readers"]
    BY <1>1, <2>1, <2>3 DEF Processes, ShellLeavesLittle, NothingRegistered, SurvivorsAreReported
  <2> QED
    BY <1>5, <2>2, <2>3 DEF ShellLoop
<1>6. CASE Readers
  <2>1. pc = "shell" /\ pc' = "shell" /\ proc.loop = "readers"
    BY <1>6 DEF Readers
  <2>2. PICK p \in {proc, Terminate(proc, TRUE), Terminate(proc, FALSE)} :
          proc' = [p EXCEPT !.loop = "done", !.tree = IF ~Posix /\ p.clean /\ @ # "none" THEN "gone" ELSE @]
    BY <1>6 DEF Readers
  <2>3. p \in Processes /\ (p.clean /\ p.tree \in {"up", "orphans"} => p.tree = "orphans" /\ p.stopped = "no")
    <3>1. CASE p = proc
      BY <1>1, <2>1, <3>1 DEF WorkerInv, ShellLeavesLittle
    <3>2. CASE p = Terminate(proc, TRUE) \/ p = Terminate(proc, FALSE)
      BY <1>1, <3>2 DEF Terminate, Processes
    <3> QED
      BY <3>1, <3>2
  <2>4. proc'.loop = "done" /\ proc'.clean = p.clean /\ proc'.stopped = p.stopped
        /\ (proc'.tree # "gone" => proc'.tree = p.tree /\ (p.clean /\ p.tree # "none" => Posix))
    BY <2>2, <2>3, WorkerRunAssumption DEF Processes
  <2> QED
    BY <2>1, <2>3, <2>4 DEF ShellLeavesLittle, NothingRegistered, SurvivorsAreReported
<1>7. CASE ToolReturns
  <2>1. pc = "shell" /\ pc' # "shell" /\ proc.loop = "done"
    BY <1>7 DEF ToolReturns, End
  <2>2. CASE ~proc.clean
    <3>1. proc' = [proc EXCEPT !.report = "unclean"]
      BY <1>7, <2>2 DEF ToolReturns
    <3>2. proc'.report = "unclean"
      BY <1>1, <3>1 DEF Processes
    <3> QED
      BY <2>1, <3>2 DEF ShellLeavesLittle, NothingRegistered, SurvivorsAreReported
  <2>3. CASE proc.clean
    <3>1. proc' = Reported
      BY <1>7, <2>3 DEF ToolReturns
    <3>2. proc'.loop = "none" /\ proc'.tree = proc.tree /\ proc'.stopped = proc.stopped
      BY <1>1, <3>1 DEF Reported, Processes
    <3>3. proc.tree \in {"up", "orphans"} => proc.tree = "orphans" /\ proc.stopped = "no" /\ Posix
      BY <2>1, <2>3 DEF WorkerInv, ShellLeavesLittle
    <3> QED
      BY <2>1, <3>2, <3>3 DEF ShellLeavesLittle, NothingRegistered, SurvivorsAreReported
  <2> QED
    BY <1>1, <2>2, <2>3 DEF Processes
<1> QED
  BY <1>2, <1>3, <1>4, <1>5, <1>6, <1>7 DEF RunStep

LEMMA TerminateKeeps ==
  ASSUME proc \in Processes, NEW p \in {proc, Terminate(proc, TRUE), Terminate(proc, FALSE)}
  PROVE  p \in Processes /\ p.stopped = proc.stopped
<1>1. CASE p = proc
  BY <1>1
<1>2. CASE p = Terminate(proc, TRUE) \/ p = Terminate(proc, FALSE)
  <2>1. PICK dead \in BOOLEAN : p = Terminate(proc, dead)
    BY <1>2
  <2> QED
    BY <2>1 DEF Terminate, Processes
<1> QED
  BY <1>1, <1>2

\* A step of the run that ends it changes no thread of it; a call that starts counts
\* as one more; a tool that comes back turns the beat it was sending into a stray.
LEMMA RunSenders ==
  ASSUME WorkerInv, RunStep
  PROVE  CancelledByToken' /\ BeatsInShell' /\ RequestOwes' /\ ThreadsAreCalls' /\ SendersAreFew'
<1>1. RunTyped /\ RunTyped' /\ token' = token /\ late' = late
  BY RunTypedKept
     DEF WorkerInv, RunStep, RunOnly, StartModel, TakeAnswer, TakeFailure, SeeCancel, GiveUp, StartShell,
         ShellLoop, Readers, ToolReturns, CancelledBetween, Finish
<1>2. /\ pc \in {"between", "model", "shell", "ended"} /\ (ended # "no" <=> pc = "ended")
      /\ ops \in Nat /\ strays \in Nat /\ late \in Nat /\ token \in BOOLEAN
      /\ proc \in Processes /\ req \in RequestRecords /\ beat \in {"off", "on", "sending"}
  BY <1>1 DEF RunTyped
<1>3. Beating \in {0, 1} /\ Asked \in {0, 1} /\ RequestOwes
  BY DEF Beating, Asked, Bit, WorkerInv
<1>4. ended = "no" /\ pc # "ended"
  BY <1>2 DEF RunStep, StartModel, TakeAnswer, TakeFailure, SeeCancel, GiveUp, StartShell,
         ShellLoop, Readers, ToolReturns, CancelledBetween, Finish
<1>5. late = 0 /\ strays + Beating + Asked <= ops
  BY <1>4 DEF WorkerInv, ThreadsAreCalls
<1>11. PICK owed \in Nat, may \in Nat : owed \in Owed(req) /\ may = req.allowed /\ owed <= may
  <2>1. Owed(req) \subseteq Nat /\ req.allowed \in Nat
    BY <1>2, OwedIs DEF RequestRecords
  <2>2. PICK n \in Owed(req) : n <= req.allowed
    BY <1>4 DEF WorkerInv, ThreadsAreCalls
  <2> QED
    BY <2>1, <2>2
\* The run ends, and its request is as it was.
<1>12. ASSUME ended' # "no", ops' = ops, strays' = strays, beat' = beat, req' = req
       PROVE  RequestOwes' /\ ThreadsAreCalls' /\ SendersAreFew'
  <2>1. Beating' = Beating /\ Asked' = Asked /\ Owed(req)' = Owed(req) /\ RequestOwes'
    BY <1>3, <1>12 DEF Beating, Asked, Bit, Owed, RequestOwes
  <2>2. late + strays + Beating + Asked + owed <= ops + may
    <3>1. PICK b \in {0, 1}, a \in {0, 1} : b = Beating /\ a = Asked
      BY <1>3
    <3>2. strays + b + a <= ops /\ late = 0
      BY <1>5, <3>1
    <3>3. late + strays + b + a + owed <= ops + may
      BY <1>2, <1>11, <3>2
    <3> QED
      BY <3>1, <3>3
  <2>3. SendersAreFew'
    BY <1>1, <1>11, <1>12, <2>1, <2>2 DEF SendersAreFew
  <2> QED
    BY <1>12, <2>1, <2>3 DEF ThreadsAreCalls
\* The run goes on, with as many threads as calls, and its request is as it was.
<1>13. ASSUME ended' = "no", strays' + Beating' + Asked <= ops', req' = req
       PROVE  RequestOwes' /\ ThreadsAreCalls' /\ SendersAreFew'
  <2>1. Asked' = Asked /\ Owed(req)' = Owed(req) /\ RequestOwes'
    BY <1>3, <1>13 DEF Asked, Bit, Owed, RequestOwes
  <2> QED
    BY <1>1, <1>5, <1>11, <1>13, <2>1 DEF ThreadsAreCalls, SendersAreFew
<1>6. CASE StartModel
  <2>1. ended' = "no" /\ ops' = ops + 1 /\ strays' = strays /\ beat' = beat /\ proc' = NoProcess
        /\ pc' = "model" /\ beat = "off"
    BY <1>4, <1>6 DEF StartModel, WorkerInv, BeatsInShell
  <2>2. Beating' = Beating /\ Beating = 0 /\ Asked' \in {0, 1}
    BY <2>1 DEF Beating, Asked, Bit
  <2>3. req'.on \in {"failed", "ask"} /\ req'.allowed = 0
    BY <1>6 DEF StartModel, NoRequest
  <2>4. Owed(req)' = {0} /\ RequestOwes'
    BY <2>3 DEF Owed, RequestOwes
  <2>5. late' = 0 /\ strays' + Beating' + Asked' <= ops'
    <3>1. PICK a \in {0, 1} : a = Asked'
      BY <2>2
    <3>2. strays + Beating <= ops
      BY <1>2, <1>3, <1>5
    <3>3. strays' + Beating' + a <= ops'
      BY <1>2, <2>1, <2>2, <3>2
    <3> QED
      BY <1>1, <1>5, <3>1, <3>3
  <2>6. ThreadsAreCalls'
    BY <2>3, <2>4, <2>5 DEF ThreadsAreCalls
  <2> QED
    BY <2>1, <2>4, <2>6 DEF CancelledByToken, BeatsInShell, SendersAreFew, NoProcess
<1>7. CASE StartShell
  <2>1. ended' = "no" /\ ops' = ops + 1 /\ strays' = strays /\ beat = "off" /\ req' = req
        /\ pc' = "shell" /\ proc'.stopped = "no"
    BY <1>4, <1>7 DEF StartShell, WorkerInv, BeatsInShell, NoProcess
  <2>2. Beating = 0 /\ Beating' \in {0, 1}
    BY <2>1 DEF Beating, Bit
  <2>3. strays' + Beating' + Asked <= ops'
    <3>1. PICK a \in {0, 1}, b \in {0, 1} : a = Asked /\ b = Beating'
      BY <1>3, <2>2
    <3>2. strays + a <= ops
      BY <1>2, <1>5, <2>2, <3>1
    <3>3. strays' + b + a <= ops'
      BY <1>2, <2>1, <3>2
    <3> QED
      BY <3>1, <3>3
  <2> QED
    BY <1>13, <2>1, <2>3 DEF CancelledByToken, BeatsInShell
<1>8. CASE TakeAnswer \/ ShellLoop \/ Readers
  <2>1. ended' = "no" /\ ops' = ops /\ strays' = strays /\ beat' = beat /\ req' = req
        /\ (pc' = pc \/ (pc = "model" /\ pc' = "between"))
    BY <1>4, <1>8 DEF TakeAnswer, ShellLoop, Readers
  <2>2. proc'.stopped = "cancel" => token
    <3>1. proc.stopped = "cancel" => token
      BY DEF WorkerInv, CancelledByToken
    <3>2. CASE TakeAnswer
      BY <3>1, <3>2 DEF TakeAnswer
    <3>3. CASE ShellLoop
      <4>1. CASE ~token
        <5>1. PICK p \in {proc, Terminate(proc, TRUE), Terminate(proc, FALSE)} :
                \/ proc' = [p EXCEPT !.loop = "readers"]
                \/ proc' = [p EXCEPT !.loop = "readers", !.stopped = "timeout"]
          BY <3>3, <4>1 DEF ShellLoop
        <5>2. p \in Processes /\ p.stopped = proc.stopped
          BY <1>2, TerminateKeeps
        <5> QED
          BY <3>1, <5>1, <5>2 DEF Processes
      <4> QED
        BY <1>2, <4>1
    <3>4. CASE Readers
      <4>1. PICK p \in {proc, Terminate(proc, TRUE), Terminate(proc, FALSE)} :
              proc' = [p EXCEPT !.loop = "done", !.tree = IF ~Posix /\ p.clean /\ @ # "none" THEN "gone" ELSE @]
        BY <3>4 DEF Readers
      <4>2. p \in Processes /\ p.stopped = proc.stopped
        BY <1>2, TerminateKeeps
      <4> QED
        BY <3>1, <4>1, <4>2 DEF Processes
    <3> QED
      BY <1>8, <3>2, <3>3, <3>4
  <2>3. strays' + Beating' + Asked <= ops'
    <3>1. Beating' = Beating
      BY <2>1 DEF Beating
    <3> QED
      BY <1>5, <2>1, <3>1
  <2> QED
    BY <1>1, <1>13, <2>1, <2>2, <2>3 DEF WorkerInv, CancelledByToken, BeatsInShell
<1>9. CASE TakeFailure \/ SeeCancel \/ CancelledBetween \/ Finish
  <2>1. pc' = "ended" /\ ended' # "no" /\ ops' = ops /\ strays' = strays /\ beat' = beat /\ req' = req
        /\ proc' = proc /\ (ended' = "cancelled" => token)
    BY <1>9 DEF TakeFailure, SeeCancel, GiveUp, CancelledBetween, Finish, End
  <2> QED
    BY <1>1, <1>12, <2>1 DEF WorkerInv, CancelledByToken, BeatsInShell
<1>10. CASE ToolReturns
  <2>1. ops' = ops /\ req' = req /\ pc = "shell" /\ (ended' = "no" <=> pc' # "ended")
    BY <1>2, <1>4, <1>10 DEF ToolReturns, End
  <2>2. proc'.stopped = proc.stopped
    BY <1>2, <1>10 DEF ToolReturns, Reported, Processes
  <2>3. CancelledByToken'
    <3>1. ended' = "cancelled" => proc.stopped = "cancel" \/ token
      BY <1>4, <1>10 DEF ToolReturns, End
    <3> QED
      BY <1>1, <2>2, <3>1 DEF WorkerInv, CancelledByToken
  <2>4. CASE pc' = "ended" /\ beat' = beat /\ strays' = strays
    BY <1>12, <2>1, <2>3, <2>4 DEF BeatsInShell
  <2>5. CASE pc' = "between" /\ beat' = "off" /\ strays' = IF beat = "sending" THEN strays + 1 ELSE strays
    <3>1. Beating' = 0 /\ strays' <= strays + Beating /\ strays' \in Nat
      BY <1>2, <2>5 DEF Beating, Bit
    <3>2. strays' + Beating' + Asked <= ops'
      <4>1. PICK a \in {0, 1}, b \in {0, 1} : a = Asked /\ b = Beating
        BY <1>3
      <4>2. strays + b + a <= ops /\ strays' <= strays + b
        BY <1>5, <3>1, <4>1
      <4>3. ops' = ops /\ ops \in Nat /\ strays \in Nat /\ strays' \in Nat
        BY <1>2, <2>1, <3>1
      <4>4. strays' + a <= ops'
        <5>1. PICK t \in Nat, n \in Nat, m \in Nat : t = strays /\ n = strays' /\ m = ops
          BY <4>3
        <5>2. t + b + a <= m /\ n <= t + b
          BY <4>2, <5>1
        <5>3. n + a <= m
          BY <5>2
        <5> QED
          BY <4>3, <5>1, <5>3
      <4> QED
        BY <3>1, <4>1, <4>4
    <3>3. ended' = "no"
      BY <2>1, <2>5
    <3> QED
      BY <1>13, <2>1, <2>3, <2>5, <3>2, <3>3 DEF BeatsInShell
  <2> QED
    BY <1>10, <2>4, <2>5 DEF ToolReturns, End
<1> QED
  BY <1>6, <1>7, <1>8, <1>9, <1>10, SMTT(30) DEF RunStep

LEMMA RunKeeps ==
  ASSUME WorkerInv, RunStep
  PROVE  WorkerInv'
BY RunTypedKept, RunShell, RunSenders DEF WorkerInv

-----------------------------------------------------------------------------
(* The command, the thread that cancels and the heartbeats.                *)

LEMMA SendersStay ==
  ASSUME RequestOwes, ThreadsAreCalls, SendersAreFew, ops' = ops, req' = req, beat' = beat, strays' = strays,
         ended' = ended, late' = late
  PROVE  RequestOwes' /\ ThreadsAreCalls' /\ SendersAreFew'
<1>1. Beating' = Beating /\ Asked' = Asked /\ Owed(req)' = Owed(req)
  BY DEF Beating, Asked, Owed
<1> QED
  BY <1>1 DEF RequestOwes, ThreadsAreCalls, SendersAreFew

\* The command ends or is killed by ActiveRun.cancel; neither decides its report.
LEMMA CommandKeeps ==
  ASSUME WorkerInv, LeaderExits \/ CancelShell
  PROVE  WorkerInv'
<1>1. proc \in Processes
  BY DEF WorkerInv, RunTyped
<1>2. /\ pc' = pc /\ ops' = ops /\ req' = req /\ hook' = hook /\ beat' = beat /\ strays' = strays
      /\ ended' = ended /\ late' = late /\ token' = token
  BY DEF LeaderExits, CancelShell, RunOnly
<1>3. \/ proc.tree = "up" /\ \E tree \in {"gone", "orphans"} : proc' = [proc EXCEPT !.tree = tree]
      \/ proc' = proc
      \/ proc.loop # "none" /\ \E dead \in BOOLEAN : proc' = [proc EXCEPT !.tree = IF dead THEN "gone" ELSE @]
  BY DEF LeaderExits, CancelShell
<1>4. /\ proc' \in Processes /\ proc'.loop = proc.loop /\ proc'.stopped = proc.stopped
      /\ proc'.clean = proc.clean /\ proc'.report = proc.report
      /\ proc'.tree = proc.tree \/ proc'.tree = "gone" \/ (proc.tree = "up" /\ proc'.tree = "orphans")
  BY <1>1, <1>3 DEF Processes
<1>5. RunTyped'
  BY <1>2, <1>4 DEF WorkerInv, RunTyped
<1>6. ShellLeavesLittle' /\ NothingRegistered' /\ SurvivorsAreReported'
  <2>1. ShellLeavesLittle /\ NothingRegistered /\ SurvivorsAreReported
    BY DEF WorkerInv
  <2>2. ShellLeavesLittle'
    BY <1>2, <1>4, <2>1 DEF ShellLeavesLittle
  <2>3. NothingRegistered'
    BY <1>2, <1>4, <2>1 DEF NothingRegistered
  <2>4. SurvivorsAreReported'
    BY <1>2, <1>4, <2>1 DEF SurvivorsAreReported
  <2> QED
    BY <2>2, <2>3, <2>4
<1>7. CancelledByToken' /\ BeatsInShell'
  BY <1>2, <1>4 DEF WorkerInv, CancelledByToken, BeatsInShell
<1>8. RequestOwes' /\ ThreadsAreCalls' /\ SendersAreFew'
  BY <1>2, SendersStay DEF WorkerInv
<1> QED
  BY <1>5, <1>6, <1>7, <1>8 DEF WorkerInv

LEMMA TokenKeeps ==
  ASSUME WorkerInv, CancelToken
  PROVE  WorkerInv'
<1>1. /\ pc' = pc /\ ops' = ops /\ req' = req /\ hook' = hook /\ beat' = beat /\ strays' = strays
      /\ proc' = proc /\ ended' = ended /\ late' = late /\ token' = TRUE
  BY DEF CancelToken
<1>3. RunTyped' /\ CancelledByToken' /\ BeatsInShell'
  BY <1>1 DEF WorkerInv, RunTyped, CancelledByToken, BeatsInShell
<1>4. ShellLeavesLittle' /\ NothingRegistered' /\ SurvivorsAreReported'
  BY <1>1 DEF WorkerInv, ShellLeavesLittle, NothingRegistered, SurvivorsAreReported
<1>5. RequestOwes' /\ ThreadsAreCalls' /\ SendersAreFew'
  BY <1>1, SendersStay DEF WorkerInv
<1> QED
  BY <1>3, <1>4, <1>5 DEF WorkerInv

\* A heartbeat under the token is its thread's last; a stray one always is.
LEMMA BeatKeeps ==
  ASSUME WorkerInv, BeatDue \/ BeatSend \/ StraySend
  PROVE  WorkerInv'
<1>1. pc' = pc /\ ops' = ops /\ token' = token /\ req' = req /\ hook' = hook /\ proc' = proc /\ ended' = ended
  BY DEF BeatDue, BeatSend, StraySend
<1>2. RunTyped /\ strays \in Nat /\ ops \in Nat /\ late \in Nat /\ beat \in {"off", "on", "sending"}
      /\ token \in BOOLEAN
  BY DEF WorkerInv, RunTyped
<1>3. late' \in Nat /\ late' <= late + 1
  BY <1>2 DEF BeatDue, BeatSend, StraySend, Sent
<1>4. ended = "no" => late' = late
  BY DEF BeatDue, BeatSend, StraySend, Sent
<1>5. strays' \in Nat /\ beat' \in {"off", "on", "sending"}
  BY <1>2 DEF BeatDue, BeatSend, StraySend
<1>6. Beating \in {0, 1} /\ Asked' = Asked /\ Asked \in {0, 1} /\ Owed(req)' = Owed(req)
      /\ Owed(req) \subseteq Nat /\ req.allowed \in Nat
  BY <1>1, <1>2, OwedIs DEF Beating, Asked, Bit, Owed, RunTyped, RequestRecords
<1>7. RunTyped'
  BY <1>1, <1>2, <1>3, <1>5 DEF RunTyped
<1>8. ShellLeavesLittle' /\ NothingRegistered' /\ SurvivorsAreReported' /\ CancelledByToken' /\ RequestOwes'
  BY <1>1 DEF WorkerInv, ShellLeavesLittle, NothingRegistered, SurvivorsAreReported, CancelledByToken, RequestOwes
<1>9. BeatsInShell'
  BY <1>1 DEF WorkerInv, BeatsInShell, BeatDue, BeatSend, StraySend
<1>10. Beating' \in {0, 1} /\ strays' + Beating' <= strays + Beating
  BY <1>2 DEF Beating, Bit, BeatDue, BeatSend, StraySend
<1>11. PICK b \in {0, 1}, c \in {0, 1} : b = Beating /\ c = Beating'
  BY <1>6, <1>10
<1>12. PICK l \in Nat, m \in Nat, s \in Nat, t \in Nat, n \in Nat :
         l = late /\ m = late' /\ s = strays /\ t = strays' /\ n = ops
  BY <1>2, <1>3, <1>5
<1>13. m <= l + 1 /\ t + c <= s + b
  BY <1>3, <1>10, <1>11, <1>12
<1>14. ThreadsAreCalls'
  <2> SUFFICES ASSUME ended' = "no" PROVE late' = 0 /\ strays' + Beating' + Asked' <= ops'
    BY <1>1, <1>6 DEF WorkerInv, ThreadsAreCalls
  <2>1. late = 0 /\ strays + Beating + Asked <= ops
    BY <1>1 DEF WorkerInv, ThreadsAreCalls
  <2>2. late' = 0
    BY <1>1, <1>4, <2>1
  <2>3. PICK a \in {0, 1} : a = Asked
    BY <1>6
  <2>4. s + b + a <= n
    BY <1>11, <1>12, <2>1, <2>3
  <2>5. t + c + a <= n
    BY <1>13, <2>4
  <2> QED
    BY <1>1, <1>6, <1>11, <1>12, <2>2, <2>3, <2>5
<1>15. SendersAreFew'
  <2> SUFFICES ASSUME ended' = "cancelled"
               PROVE  \E i \in Owed(req) : late' + strays' + Beating' + Asked + i <= ops + req.allowed
    BY <1>1, <1>6 DEF SendersAreFew
  <2>1. token /\ \E i \in Owed(req) : late + strays + Beating + Asked + i <= ops + req.allowed
    BY <1>1 DEF WorkerInv, CancelledByToken, SendersAreFew
  <2>2. m + t + c <= l + s + b
    <3>1. CASE BeatDue
      <4>1. m = l /\ t = s /\ c = b
        BY <1>11, <1>12, <3>1 DEF BeatDue, Beating, Bit
      <4> QED
        BY <4>1
    <3>2. CASE BeatSend
      <4>1. t = s /\ b = 1 /\ c = 0
        BY <1>11, <1>12, <2>1, <3>2 DEF BeatSend, Beating, Bit
      <4> QED
        BY <1>13, <4>1
    <3>3. CASE StraySend
      <4>1. t = s - 1 /\ c = b
        BY <1>11, <1>12, <3>3 DEF StraySend, Beating, Bit
      <4> QED
        BY <1>13, <4>1
    <3> QED
      BY <3>1, <3>2, <3>3
  <2>3. PICK a \in {0, 1}, may \in Nat : a = Asked /\ may = req.allowed
    BY <1>6
  <2>6. PICK i \in Nat : i \in Owed(req) /\ late + strays + Beating + Asked + i <= ops + req.allowed
    BY <1>6, <2>1
  <2>4. l + s + b + a + i <= n + may
    BY <1>11, <1>12, <2>3, <2>6
  <2>5. m + t + c + a + i <= n + may
    BY <2>2, <2>4
  <2> QED
    BY <1>11, <1>12, <2>3, <2>5, <2>6
<1> QED
  BY <1>7, <1>8, <1>9, <1>14, <1>15 DEF WorkerInv

-----------------------------------------------------------------------------
(* The theorems.                                                           *)

LEMMA WorkerInit == Init => WorkerInv
<1> SUFFICES ASSUME Init PROVE WorkerInv
  OBVIOUS
<1>1. RunTyped
  <2>1. req \in RequestRecords /\ hook \in Hooks /\ proc \in Processes /\ ~req.retry
    BY FreshTyped, ProcessTyped DEF Init, NoRequest
  <2> QED
    BY <2>1 DEF Init, RunTyped
<1>2. ShellLeavesLittle /\ NothingRegistered /\ SurvivorsAreReported /\ CancelledByToken /\ BeatsInShell
  BY DEF Init, NoProcess, ShellLeavesLittle, NothingRegistered, SurvivorsAreReported, CancelledByToken,
         BeatsInShell
<1>3. RequestOwes /\ ThreadsAreCalls /\ SendersAreFew
  BY DEF Init, NoRequest, RequestOwes, ThreadsAreCalls, SendersAreFew, Owed, Beating, Asked, Bit
<1> QED
  BY <1>1, <1>2, <1>3 DEF WorkerInv

LEMMA WorkerNext == WorkerInv /\ [Next]_vars => WorkerInv'
<1> SUFFICES ASSUME WorkerInv, [Next]_vars PROVE WorkerInv'
  OBVIOUS
<1>1. CASE RequestStep
  BY <1>1, RequestKeeps
<1>2. CASE RunStep
  BY <1>2, RunKeeps
<1>3. CASE LeaderExits \/ CancelShell
  BY <1>3, CommandKeeps
<1>4. CASE CancelToken
  BY <1>4, TokenKeeps
<1>5. CASE BeatDue \/ BeatSend \/ StraySend
  BY <1>5, BeatKeeps
<1>6. CASE UNCHANGED vars
  BY <1>6 DEF vars, WorkerInv, RunTyped, ShellLeavesLittle, NothingRegistered, SurvivorsAreReported,
              CancelledByToken, BeatsInShell, RequestOwes, ThreadsAreCalls, SendersAreFew, Owed, Beating, Asked
<1> QED
  BY <1>1, <1>2, <1>3, <1>4, <1>5, <1>6 DEF Next

\* The invariant of the threads of a run, in every execution of WorkerRun.
THEOREM WorkerInvHolds == Spec => []WorkerInv
<1> QED
  BY WorkerInit, WorkerNext, PTL DEF Spec

\* However the command's end, its timeout and ActiveRun.cancel fall among the steps
\* of run, _finish_readers and terminate, and on every platform: when the tool has
\* come back, processes of its command live on only if the run failed with an
\* unclean command, or if on POSIX the command detached them by itself.
THEOREM SurvivorsReported == Spec => []SurvivorsAreReported
<1>1. WorkerInv => SurvivorsAreReported
  BY DEF WorkerInv
<1> QED
  BY WorkerInvHolds, <1>1, PTL

\* For every protocol, number of attempts and calls, for all answers and however they
\* are cut into deltas and parts: after the terminal of a cancelled run its threads send
\* the one beat each tool was waiting with and what the request's last look at the
\* token let through, a heartbeat and the parts of one delta, and nothing more.
THEOREM LateEventsFew == Spec => []LateEventsAreFew
<1>1. WorkerInv => LateEventsAreFew
  <2> SUFFICES ASSUME WorkerInv, ended = "cancelled"
               PROVE  late <= IF req.on = "none" THEN ops ELSE (ops - 1) + req.allowed
    BY DEF LateEventsAreFew
  <2>1. /\ late \in Nat /\ strays \in Nat /\ ops \in Nat /\ req.allowed \in Nat
        /\ Owed(req) \subseteq Nat /\ (req.on = "none" => req.allowed = 0)
    BY OwedIs DEF WorkerInv, RunTyped, RequestRecords, RequestOwes
  <2>2. PICK n \in Nat : late + strays + Beating + Asked + n <= ops + req.allowed
    BY <2>1 DEF WorkerInv, SendersAreFew
  <2>3. PICK b \in {0, 1} : b = Beating
    BY DEF Beating, Bit
  <2>4. PICK a \in {0, 1} : a = Asked /\ (req.on # "none" => a = 1)
    BY DEF Asked, Bit
  <2>5. PICK may \in Nat : may = req.allowed
    BY <2>1
  <2>6. late + strays + b + a + n <= ops + may
    BY <2>2, <2>3, <2>4, <2>5
  <2> QED
    BY <2>1, <2>4, <2>5, <2>6
<1> QED
  BY WorkerInvHolds, <1>1, PTL

-----------------------------------------------------------------------------
(* What of an answer the hooks have let through.                            *)

Tags == {"f", "t"}

\* Whatever is still to come, no more of the answer may be seen: its first tag is
\* none that shows, or the part is closed.
Closed(text, through) ==
  \E p \in Firsts(text, Tags) :
    \/ text[p + 1] # "f" /\ through = <<>>
    \/ text[p + 1] = "f" /\ \E c \in Firsts(Rest(text, p + 2), {"/"}) :
                              through = SubSeq(Rest(text, p + 2), 1, c - 1)

\* What the hooks hold of the answer so far, what of it they have let through, and
\* what is sure about the rest of it while the request goes on.
HookFits(h, text, through, on) ==
  /\ h.mode = "pending" => /\ through = <<>> /\ Free(text, Tags)
                           /\ PlainFinal /\ text # <<>> => text[1] = "<"
                           /\ \E k \in 1 .. Len(text) + 1 : /\ h.buf = Rest(text, k)
                                                            /\ text # <<>> => k <= Len(text)
  /\ h.mode = "plain" => \E k \in PlainFrom(text) : through = Rest(text, k)
  /\ h.mode = "final" => \E p \in Firsts(text, Tags) :
                           /\ text[p + 1] = "f" /\ Free(Rest(text, p + 2), {"/"})
                           /\ through = SubSeq(Rest(text, p + 2), 1, Len(Rest(text, p + 2)) - 1)
                           /\ h.buf = Ending(Rest(text, p + 2), 1)
  /\ h.mode = "blocked" => Closed(text, through) \/ (on = "ok" /\ through \in Visible(text))

\* What the hub has, with the parts that are on their way.
Delivered == shown \o (IF req.on = "send" /\ ~req.retry THEN req.emit ELSE <<>>)

\* An attempt that is given up has nothing buffered; of any other the hub has what
\* the hooks let through.
Projected ==
  /\ shown \in Seq(Chars)
  /\ ended = "no" =>
       /\ req.retry => req.on = "send" /\ hook = FreshHook /\ shown \in Visible(req.text)
       /\ ~req.retry => HookFits(hook, req.text, Delivered, req.on)

-----------------------------------------------------------------------------
(* One delta more.                                                         *)

\* What a delta leaves as it was.
LEMMA Grown ==
  ASSUME NEW text \in Seq(Chars), NEW delta \in Seq(Chars)
  PROVE  /\ text \o delta \in Seq(Chars) /\ Len(text \o delta) = Len(text) + Len(delta)
         /\ Len(text) \in Nat /\ Len(delta) \in Nat
         /\ \A i \in 1 .. Len(text) : (text \o delta)[i] = text[i]
         /\ \A i \in 1 .. Len(delta) : (text \o delta)[Len(text) + i] = delta[i]
         /\ \A cs : \A i \in 1 .. Len(text) - 1 : Tag(text \o delta, i, cs) <=> Tag(text, i, cs)
         /\ \A cs : Firsts(text, cs) \subseteq Firsts(text \o delta, cs)
<1> DEFINE more == text \o delta
<1>1. /\ more \in Seq(Chars) /\ Len(more) = Len(text) + Len(delta) /\ Len(text) \in Nat /\ Len(delta) \in Nat
      /\ \A i \in 1 .. Len(text) + Len(delta) : more[i] = IF i <= Len(text) THEN text[i] ELSE delta[i - Len(text)]
  BY ConcatProperties, LenProperties
<1> HIDE DEF more
<1>2. \A i \in 1 .. Len(text) : more[i] = text[i]
  BY <1>1
<1>3. \A i \in 1 .. Len(delta) : more[Len(text) + i] = delta[i]
  <2> SUFFICES ASSUME NEW i \in 1 .. Len(delta) PROVE more[Len(text) + i] = delta[i]
    OBVIOUS
  <2>1. Len(text) + i \in 1 .. Len(text) + Len(delta) /\ ~(Len(text) + i <= Len(text)) /\ (Len(text) + i) - Len(text) = i
    BY <1>1
  <2> QED
    BY <1>1, <2>1
<1>4. ASSUME NEW cs, NEW i \in 1 .. Len(text) - 1 PROVE Tag(more, i, cs) <=> Tag(text, i, cs)
  <2>1. i \in 1 .. Len(text) /\ i + 1 \in 1 .. Len(text) /\ i \in 1 .. Len(more) - 1
    BY <1>1
  <2> QED
    BY <1>2, <2>1 DEF Tag
<1>5. ASSUME NEW cs, NEW p \in Firsts(text, cs) PROVE p \in Firsts(more, cs)
  <2>1. p \in 1 .. Len(text) - 1 /\ Tag(text, p, cs) /\ \A j \in 1 .. p - 1 : ~Tag(text, j, cs)
    BY TagsFit
  <2>2. Tag(more, p, cs) /\ p \in DOMAIN more
    <3>1. p \in 1 .. Len(more)
      BY <1>1, <2>1
    <3> QED
      BY <1>1, <1>4, <2>1, <3>1, LenProperties
  <2>3. ASSUME NEW j \in 1 .. p - 1 PROVE ~Tag(more, j, cs)
    <3>1. j \in 1 .. Len(text) - 1
      BY <1>1, <2>1
    <3> QED
      BY <1>4, <2>1, <3>1
  <2> QED
    BY <2>2, <2>3 DEF Firsts
<1> QED
  BY <1>1, <1>2, <1>3, <1>4, <1>5 DEF more

\* What stands behind a place of the answer grows with it.
LEMMA RestGrows ==
  ASSUME NEW text \in Seq(Chars), NEW delta \in Seq(Chars), NEW k \in 1 .. Len(text) + 1
  PROVE  Rest(text \o delta, k) = Rest(text, k) \o delta
<1> DEFINE more == text \o delta
<1>1. /\ more \in Seq(Chars) /\ Len(more) = Len(text) + Len(delta) /\ Len(text) \in Nat /\ Len(delta) \in Nat
      /\ \A i \in 1 .. Len(text) : more[i] = text[i]
      /\ \A i \in 1 .. Len(delta) : more[Len(text) + i] = delta[i]
  BY Grown
<1>2. k \in 1 .. Len(more) + 1
  BY <1>1
<1> HIDE DEF more
<1>3. /\ Rest(text, k) \in Seq(Chars) /\ Len(Rest(text, k)) = Len(text) - k + 1
      /\ \A i \in 1 .. Len(text) - k + 1 : Rest(text, k)[i] = text[k + i - 1]
  BY RestIs
<1>4. /\ Rest(more, k) \in Seq(Chars) /\ Len(Rest(more, k)) = Len(more) - k + 1
      /\ \A i \in 1 .. Len(more) - k + 1 : Rest(more, k)[i] = more[k + i - 1]
  BY <1>1, <1>2, RestIs
<1>5. PICK a : a = Rest(text, k)
  OBVIOUS
<1>6. PICK b : b = Rest(more, k)
  OBVIOUS
<1>7. /\ a \o delta \in Seq(Chars) /\ Len(a \o delta) = Len(a) + Len(delta)
      /\ \A i \in 1 .. Len(a) : (a \o delta)[i] = a[i]
      /\ \A i \in 1 .. Len(delta) : (a \o delta)[Len(a) + i] = delta[i]
  BY <1>3, <1>5, Grown
<1>8. Len(b) = Len(a \o delta)
  BY <1>1, <1>3, <1>4, <1>5, <1>6, <1>7
<1>11. /\ Len(a) = Len(text) - k + 1 /\ Len(b) = Len(text) + Len(delta) - k + 1
       /\ Len(text) \in Nat /\ Len(delta) \in Nat /\ Len(a) \in Nat /\ Len(b) \in Nat
  BY <1>1, <1>3, <1>4, <1>5, <1>6
<1>9. ASSUME NEW i \in 1 .. Len(b) PROVE b[i] = (a \o delta)[i]
  <2>1. i \in Nat /\ i <= Len(b) /\ b[i] = more[k + i - 1]
    <3>1. i \in 1 .. Len(more) - k + 1
      BY <1>1, <1>11
    <3> QED
      BY <1>4, <1>6, <1>11, <3>1, SMTT(30)
  <2>2. CASE i <= Len(a)
    <3>1. k + i - 1 \in 1 .. Len(text) /\ i \in 1 .. Len(a) /\ i \in 1 .. Len(text) - k + 1
      BY <1>1, <1>3, <1>5, <1>9, <2>2
    <3>2. more[k + i - 1] = text[k + i - 1] /\ a[i] = text[k + i - 1]
      BY <1>1, <1>3, <1>5, <3>1
    <3> QED
      BY <1>7, <2>1, <3>1, <3>2
  <2>3. CASE i > Len(a)
    <3>1. PICK j : j = i - Len(a)
      OBVIOUS
    <3>2. j \in 1 .. Len(delta) /\ k + i - 1 = Len(text) + j /\ i = Len(a) + j
      BY <1>11, <2>1, <2>3, <3>1
    <3>3. more[Len(text) + j] = delta[j] /\ (a \o delta)[Len(a) + j] = delta[j]
      BY <1>1, <1>7, <3>2
    <3> QED
      BY <2>1, <3>2, <3>3
  <2> QED
    BY <1>11, <2>1, <2>2, <2>3, SMTT(30)
<1>10. b = a \o delta
  <2>1. b \in Seq(Chars)
    BY <1>4, <1>6
  <2> QED
    BY <1>7, <1>8, <1>9, <2>1, SeqEqual
<1> QED
  BY <1>5, <1>6, <1>10 DEF more

\* Places in the rest of a sequence are places in the sequence.
LEMMA RestMoves ==
  ASSUME NEW s \in Seq(Chars), NEW k \in 1 .. Len(s) + 1
  PROVE  /\ \A i \in 1 .. Len(Rest(s, k)) : Rest(s, k)[i] = s[k + i - 1]
         /\ \A q \in 1 .. Len(Rest(s, k)) + 1 : Rest(Rest(s, k), q) = Rest(s, k + q - 1)
         /\ \A n \in 0 .. Len(Rest(s, k)) : SubSeq(Rest(s, k), 1, n) = SubSeq(s, k, k + n - 1)
         /\ \A cs : \A i \in 1 .. Len(Rest(s, k)) - 1 : Tag(Rest(s, k), i, cs) <=> Tag(s, k + i - 1, cs)
<1>1. PICK r : r = Rest(s, k)
  OBVIOUS
<1>2. /\ r \in Seq(Chars) /\ Len(r) = Len(s) - k + 1 /\ Len(s) \in Nat /\ Len(r) \in Nat
      /\ \A i \in 1 .. Len(r) : r[i] = s[k + i - 1]
  BY <1>1, RestIs, LenProperties
<1>3. ASSUME NEW q \in 1 .. Len(r) + 1 PROVE Rest(r, q) = Rest(s, k + q - 1)
  <2>1. k + q - 1 \in 1 .. Len(s) + 1
    BY <1>2
  <2>2. /\ Rest(r, q) \in Seq(Chars) /\ Len(Rest(r, q)) = Len(r) - q + 1
        /\ \A i \in 1 .. Len(r) - q + 1 : Rest(r, q)[i] = r[q + i - 1]
    BY <1>2, RestIs
  <2>3. /\ Rest(s, k + q - 1) \in Seq(Chars) /\ Len(Rest(s, k + q - 1)) = Len(s) - (k + q - 1) + 1
        /\ \A i \in 1 .. Len(s) - (k + q - 1) + 1 : Rest(s, k + q - 1)[i] = s[(k + q - 1) + i - 1]
    BY <2>1, RestIs
  <2>4. Len(r) - q + 1 = Len(s) - (k + q - 1) + 1
    BY <1>2
  <2>5. ASSUME NEW i \in 1 .. Len(r) - q + 1 PROVE Rest(r, q)[i] = Rest(s, k + q - 1)[i]
    <3>1. q + i - 1 \in 1 .. Len(r) /\ k + (q + i - 1) - 1 = (k + q - 1) + i - 1
      BY <1>2, <2>5
    <3>2. r[q + i - 1] = s[k + (q + i - 1) - 1]
      BY <1>2, <3>1
    <3> QED
      BY <2>2, <2>3, <2>4, <2>5, <3>1, <3>2
  <2> QED
    BY <2>2, <2>3, <2>4, <2>5, SeqEqual
<1>4. ASSUME NEW n \in 0 .. Len(r) PROVE SubSeq(r, 1, n) = SubSeq(s, k, k + n - 1)
  <2>1. SubSeq(r, 1, n) = [i \in 1 .. n |-> r[i]]
    BY <1>2
  <2>2. SubSeq(s, k, k + n - 1) = [i \in 1 .. n |-> s[k + i - 1]]
    BY <1>2
  <2>3. \A i \in 1 .. n : r[i] = s[k + i - 1]
    BY <1>2
  <2> QED
    BY <2>1, <2>2, <2>3
<1>5. ASSUME NEW cs, NEW i \in 1 .. Len(r) - 1 PROVE Tag(r, i, cs) <=> Tag(s, k + i - 1, cs)
  <2>1. /\ i \in 1 .. Len(r) /\ i + 1 \in 1 .. Len(r) /\ k + i - 1 \in 1 .. Len(s) - 1
        /\ k + (i + 1) - 1 = (k + i - 1) + 1
    BY <1>2
  <2>2. r[i] = s[k + i - 1] /\ r[i + 1] = s[(k + i - 1) + 1]
    BY <1>2, <2>1
  <2> QED
    BY <2>1, <2>2 DEF Tag
<1> QED
  BY <1>1, <1>2, <1>3, <1>4, <1>5

\* The first tags of s stand k - 1 places further in the answer.
Moved(s, more, k, cs) ==
  \A p \in Firsts(s, cs) : k + p - 1 \in Firsts(more, cs) /\ s[p + 1] = more[(k + p - 1) + 1]

\* In an answer whose beginning had no tag, tags are found where they stand in what is
\* kept of that beginning, followed by the delta.
LEMMA TagsInKept ==
  ASSUME NEW text \in Seq(Chars), NEW delta \in Seq(Chars), NEW cs, Free(text, cs),
         NEW k \in 1 .. Len(text) + 1, text # <<>> => k <= Len(text),
         NEW s, s = Rest(text \o delta, k)
  PROVE  (Free(s, cs) => Free(text \o delta, cs)) /\ Moved(s, text \o delta, k, cs)
<1>1. PICK more : more = text \o delta
  OBVIOUS
<1>2. /\ more \in Seq(Chars) /\ Len(more) = Len(text) + Len(delta) /\ Len(text) \in Nat /\ Len(delta) \in Nat
      /\ \A i \in 1 .. Len(text) - 1 : Tag(more, i, cs) <=> Tag(text, i, cs)
  BY <1>1, Grown
<1>3. k - 1 <= Len(text) - 1 \/ k = 1
  BY <1>2, EmptySeq
<1>4. k \in 1 .. Len(more) + 1
  BY <1>2
<1>5. /\ s \in Seq(Chars) /\ Len(s) = Len(more) - k + 1 /\ Len(s) \in Nat
      /\ (\A i \in 1 .. Len(s) : s[i] = more[k + i - 1])
      /\ \A i \in 1 .. Len(s) - 1 : Tag(s, i, cs) <=> Tag(more, k + i - 1, cs)
  BY <1>1, <1>2, <1>4, RestIs, RestMoves, LenProperties
<1>6. \A j \in 1 .. k - 1 : ~Tag(more, j, cs)
  <2> SUFFICES ASSUME NEW j \in 1 .. k - 1 PROVE ~Tag(more, j, cs)
    OBVIOUS
  <2>1. j \in 1 .. Len(text) - 1 /\ j \in 1 .. Len(text)
    BY <1>2, <1>3
  <2>2. ~Tag(text, j, cs)
    BY <2>1, LenProperties DEF Free
  <2> QED
    BY <1>2, <2>1, <2>2
<1>7. ASSUME Free(s, cs) PROVE Free(more, cs)
  <2> SUFFICES ASSUME NEW i \in 1 .. Len(more), Tag(more, i, cs) PROVE FALSE
    BY <1>2, LenProperties DEF Free
  <2>1. i \in 1 .. Len(more) - 1
    BY DEF Tag
  <2>2. i >= k
    BY <1>4, <1>6
  <2>3. PICK j : j = i - k + 1
    OBVIOUS
  <2>4. j \in 1 .. Len(s) - 1 /\ j \in 1 .. Len(s) /\ k + j - 1 = i
    BY <1>2, <1>4, <1>5, <2>1, <2>2, <2>3
  <2>5. Tag(s, j, cs)
    BY <1>5, <2>4
  <2> QED
    BY <1>5, <1>7, <2>4, <2>5, LenProperties DEF Free
<1>8. ASSUME NEW p \in Firsts(s, cs)
      PROVE  k + p - 1 \in Firsts(more, cs) /\ s[p + 1] = more[(k + p - 1) + 1]
  <2>1. p \in 1 .. Len(s) - 1 /\ Tag(s, p, cs) /\ \A j \in 1 .. p - 1 : ~Tag(s, j, cs)
    BY <1>5, TagsFit
  <2>2. Tag(more, k + p - 1, cs)
    BY <1>5, <2>1
  <2>3. ASSUME NEW j \in 1 .. (k + p - 1) - 1 PROVE ~Tag(more, j, cs)
    <3>1. CASE j <= k - 1
      BY <1>4, <1>6, <3>1
    <3>2. CASE j >= k
      <4>1. PICK i : i = j - k + 1
        OBVIOUS
      <4>2. i \in 1 .. p - 1 /\ i \in 1 .. Len(s) - 1 /\ k + i - 1 = j
        BY <1>4, <1>5, <2>1, <2>3, <3>2, <4>1
      <4> QED
        BY <1>5, <2>1, <4>2
    <3> QED
      BY <1>4, <2>1, <3>1, <3>2
  <2>4. k + p - 1 \in DOMAIN more
    <3>1. k + p - 1 \in 1 .. Len(more)
      BY <1>2, <1>4, <1>5, <2>1
    <3> QED
      BY <1>2, <3>1, LenProperties
  <2>5. p + 1 \in 1 .. Len(s) /\ k + (p + 1) - 1 = (k + p - 1) + 1
    BY <1>4, <1>5, <2>1
  <2>6. s[p + 1] = more[(k + p - 1) + 1]
    BY <1>5, <2>5
  <2> QED
    BY <2>2, <2>3, <2>4, <2>6 DEF Firsts
<1> QED
  BY <1>1, <1>7, <1>8 DEF Moved

-----------------------------------------------------------------------------
(* What the hooks do with the delta.                                       *)

\* A part that has begun: of its text r, what was let through before is what stands in
\* front of place j, and the rest is looked at again.
LEMMA FinalFits ==
  ASSUME NEW text \in Seq(Chars), NEW p \in Firsts(text, Tags), text[p + 1] = "f",
         NEW r, r = Rest(text, p + 2), NEW j \in 1 .. Len(r) + 1, NEW s, s = Rest(r, j),
         NEW through, through = SubSeq(r, 1, j - 1), NEW q \in Final(s), NEW on,
         Free(s, {"/"}) => Free(r, {"/"}), r # <<>> => j <= Len(r),
         \A c \in Firsts(s, {"/"}) : j + c - 1 \in Firsts(r, {"/"})
  PROVE  HookFits(q.hook, text, through \o q.out, on)
<1>1. r \in Seq(Chars) /\ Len(r) \in Nat /\ s \in Seq(Chars) /\ Len(s) = Len(r) - j + 1 /\ (r = <<>> <=> Len(r) = 0)
      /\ \A n \in 0 .. Len(s) : SubSeq(s, 1, n) = SubSeq(r, j, j + n - 1)
  <2>1. p + 2 \in 1 .. Len(text) + 1
    BY TagsFit
  <2>2. r \in Seq(Chars) /\ Len(r) \in Nat
    BY <2>1, RestIs, LenProperties
  <2> QED
    BY <2>2, RestIs, RestMoves, EmptySeq
<1>2. ASSUME NEW n \in 0 .. Len(s) PROVE through \o SubSeq(s, 1, n) = SubSeq(r, 1, j + n - 1)
  <2>1. /\ 1 \in 1 .. Len(r) + 1 /\ j - 1 \in 1 - 1 .. Len(r) /\ j + n - 1 \in j - 1 .. Len(r)
        /\ (j - 1) + 1 = j
    BY <1>1
  <2>2. SubSeq(r, 1, j - 1) \o SubSeq(r, (j - 1) + 1, j + n - 1) = SubSeq(r, 1, j + n - 1)
    BY <1>1, <2>1, ConcatAdjacentSubSeq, Zenon
  <2> QED
    BY <1>1, <1>2, <2>1, <2>2
<1>3. CASE Free(s, {"/"})
  <2>1. q = Show("final", Ending(s, 1), SubSeq(s, 1, Len(s) - 1))
    BY <1>3 DEF Final
  <2>2. q.hook.mode = "final" /\ q.hook.buf = Ending(s, 1) /\ q.out = SubSeq(s, 1, Len(s) - 1)
    BY <2>1 DEF Show
  <2>3. CASE r = <<>>
    <3>1. j = 1 /\ Len(s) = 0 /\ Len(r) = 0
      BY <1>1, <2>3
    <3>2. s = <<>> /\ SubSeq(s, 1, Len(s) - 1) = <<>> /\ SubSeq(r, 1, Len(r) - 1) = <<>> /\ SubSeq(r, 1, j - 1) = <<>>
      BY <1>1, <3>1, EmptySeq, SubSeqEmpty
    <3>3. <<>> \o <<>> = <<>>
      BY EmptySeq, ConcatEmptySeq
    <3>4. through \o q.out = SubSeq(r, 1, Len(r) - 1) /\ q.hook.buf = Ending(r, 1)
      BY <2>2, <2>3, <3>2, <3>3
    <3> QED
      BY <1>3, <2>2, <3>4 DEF HookFits
  <2>4. CASE r # <<>>
    <3>1. Len(s) - 1 \in 0 .. Len(s) /\ j + (Len(s) - 1) - 1 = Len(r) - 1
      BY <1>1, <2>4
    <3>2. through \o q.out = SubSeq(r, 1, Len(r) - 1)
      BY <1>2, <2>2, <3>1
    <3>3. q.hook.buf = Ending(r, 1)
      <4>1. Ending(s, 1) = Rest(s, Len(s))
        <5>1. Len(s) \in Nat /\ Len(s) >= 1
          BY <1>1, <3>1
        <5>2. \A n \in Nat : n >= 1 => (IF n > 1 THEN n - 1 + 1 ELSE 1) = n
          OBVIOUS
        <5>3. (IF Len(s) > 1 THEN Len(s) - 1 + 1 ELSE 1) = Len(s)
          BY <5>1, <5>2
        <5> QED
          BY <5>3 DEF Ending
      <4>2. Ending(r, 1) = Rest(r, Len(r))
        <5>1. Len(r) \in Nat /\ Len(r) >= 1
          BY <1>1, <2>4
        <5>2. \A n \in Nat : n >= 1 => (IF n > 1 THEN n - 1 + 1 ELSE 1) = n
          OBVIOUS
        <5>3. (IF Len(r) > 1 THEN Len(r) - 1 + 1 ELSE 1) = Len(r)
          BY <5>1, <5>2
        <5> QED
          BY <5>3 DEF Ending
      <4>3. Len(s) \in 1 .. Len(s) + 1 /\ j + Len(s) - 1 = Len(r)
        BY <1>1, <2>4
      <4>4. Rest(s, Len(s)) = Rest(r, j + Len(s) - 1)
        BY <1>1, <4>3, RestMoves
      <4> QED
        BY <2>2, <4>1, <4>2, <4>3, <4>4
    <3> QED
      BY <1>3, <2>2, <3>2, <3>3 DEF HookFits
  <2> QED
    BY <2>3, <2>4
<1>4. CASE ~Free(s, {"/"})
  <2>1. PICK c \in Firsts(s, {"/"}) : q = Show("blocked", <<>>, SubSeq(s, 1, c - 1))
    BY <1>4 DEF Final
  <2>2. q.hook.mode = "blocked" /\ q.out = SubSeq(s, 1, c - 1)
    BY <2>1 DEF Show
  <2>3. c - 1 \in 0 .. Len(s) /\ j + (c - 1) - 1 = (j + c - 1) - 1
    <3>1. c \in 1 .. Len(s) - 1
      BY <1>1, TagsFit
    <3> QED
      BY <1>1, <3>1
  <2>4. through \o q.out = SubSeq(r, 1, (j + c - 1) - 1)
    BY <1>2, <2>2, <2>3
  <2>5. Closed(text, through \o q.out)
    BY <2>1, <2>4 DEF Closed
  <2> QED
    BY <2>2, <2>5 DEF HookFits
<1> QED
  BY <1>3, <1>4

\* Where nothing more may be seen, one delta more changes nothing.
LEMMA ClosedStays ==
  ASSUME NEW text \in Seq(Chars), NEW delta \in Seq(Chars), NEW through, Closed(text, through)
  PROVE  Closed(text \o delta, through)
<1>1. PICK p \in Firsts(text, Tags) :
        \/ text[p + 1] # "f" /\ through = <<>>
        \/ text[p + 1] = "f" /\ \E c \in Firsts(Rest(text, p + 2), {"/"}) :
                                  through = SubSeq(Rest(text, p + 2), 1, c - 1)
  BY DEF Closed
<1>2. p \in 1 .. Len(text) - 1 /\ p + 2 \in 1 .. Len(text) + 1 /\ Len(text) \in Nat
  BY TagsFit
<1>3. p \in Firsts(text \o delta, Tags) /\ (text \o delta)[p + 1] = text[p + 1]
  <2>1. p + 1 \in 1 .. Len(text)
    BY <1>2
  <2> QED
    BY <2>1, Grown
<1>4. CASE text[p + 1] # "f" /\ through = <<>>
  BY <1>3, <1>4 DEF Closed
<1>5. CASE text[p + 1] = "f" /\ \E c \in Firsts(Rest(text, p + 2), {"/"}) :
                                  through = SubSeq(Rest(text, p + 2), 1, c - 1)
  <2>1. PICK r : r = Rest(text, p + 2)
    OBVIOUS
  <2>2. PICK c \in Firsts(r, {"/"}) : through = SubSeq(r, 1, c - 1)
    BY <1>5, <2>1
  <2>3. r \in Seq(Chars) /\ Rest(text \o delta, p + 2) = r \o delta
    BY <1>2, <2>1, RestIs, RestGrows
  <2>4. c \in 1 .. Len(r) - 1 /\ Len(r) \in Nat /\ c \in Firsts(r \o delta, {"/"})
    BY <2>3, TagsFit, Grown
  <2>5. SubSeq(r \o delta, 1, c - 1) = SubSeq(r, 1, c - 1)
    <3>1. \A i \in 1 .. c - 1 : (r \o delta)[i] = r[i]
      BY <2>3, <2>4, Grown
    <3>2. SubSeq(r \o delta, 1, c - 1) = [i \in 1 .. c - 1 |-> (r \o delta)[i]]
      BY <2>4
    <3>3. SubSeq(r, 1, c - 1) = [i \in 1 .. c - 1 |-> r[i]]
      BY <2>4
    <3> QED
      BY <3>1, <3>2, <3>3
  <2> QED
    BY <1>3, <1>5, <2>2, <2>3, <2>4, <2>5 DEF Closed
<1> QED
  BY <1>1, <1>4, <1>5

\* What is shown as it is stays so.
LEMMA PlainStays ==
  ASSUME NEW text \in Seq(Chars), NEW delta \in Seq(Chars), NEW k \in PlainFrom(text)
  PROVE  k \in PlainFrom(text \o delta) /\ Rest(text \o delta, k) = Rest(text, k) \o delta
<1>1. PICK more : more = text \o delta
  OBVIOUS
<1>2. /\ more \in Seq(Chars) /\ Len(more) = Len(text) + Len(delta) /\ Len(text) \in Nat /\ Len(delta) \in Nat
      /\ \A i \in 1 .. Len(text) : more[i] = text[i]
      /\ \A i \in 1 .. Len(text) - 1 : Tag(more, i, {"f", "t"}) <=> Tag(text, i, {"f", "t"})
  BY <1>1, Grown
<1>3. /\ k \in 1 .. Len(text) /\ PlainFinal /\ text[k] # "<" /\ (k = 1 \/ text[1] = "<")
      /\ \A i \in 1 .. k - 1 : ~Tag(text, i, {"f", "t"})
  BY <1>2, LenProperties DEF PlainFrom
<1>4. k \in DOMAIN more /\ more[k] # "<" /\ (k = 1 \/ more[1] = "<") /\ k \in 1 .. Len(text) + 1
  <2>1. k \in 1 .. Len(more) /\ 1 \in 1 .. Len(text) /\ k \in 1 .. Len(text) + 1
    BY <1>2, <1>3
  <2> QED
    BY <1>2, <1>3, <2>1, LenProperties
<1>5. \A i \in 1 .. k - 1 : ~Tag(more, i, {"f", "t"})
  <2> SUFFICES ASSUME NEW i \in 1 .. k - 1 PROVE ~Tag(more, i, {"f", "t"})
    OBVIOUS
  <2>1. i \in 1 .. Len(text) - 1
    BY <1>2, <1>3
  <2> QED
    BY <1>2, <1>3, <2>1
<1> QED
  BY <1>1, <1>3, <1>4, <1>5, RestGrows DEF PlainFrom

\* The hooks fit the answer after one delta more, whatever the answer is.
LEMMA DeltaFits ==
  ASSUME NEW h \in Hooks, NEW text \in Seq(Chars), NEW through \in Seq(Chars), NEW on, on # "ok",
         NEW delta \in Seq(Chars), delta # <<>>, HookFits(h, text, through, on),
         NEW q \in Project(h, delta), NEW over
  PROVE  HookFits(q.hook, text \o delta, through \o q.out, over)
<1> DEFINE s == h.buf \o delta
<1>1. PICK more : more = text \o delta
  OBVIOUS
<1>2. /\ more \in Seq(Chars) /\ Len(more) = Len(text) + Len(delta) /\ Len(text) \in Nat /\ Len(delta) \in Nat
      /\ \A i \in 1 .. Len(text) : more[i] = text[i]
      /\ h.buf \in Seq(Chars) /\ s \in Seq(Chars) /\ Len(s) = Len(h.buf) + Len(delta)
      /\ Len(h.buf) \in Nat /\ Len(delta) >= 1
  BY <1>1, Grown, EmptySeq DEF Hooks
<1>3. through \o <<>> = through /\ \A x \in Seq(Chars) : <<>> \o x = x
  BY ConcatEmptySeq
<1>4. /\ h.mode = "blocked" => Project(h, delta) = {Show("blocked", <<>>, <<>>)}
      /\ h.mode = "plain" => Project(h, delta) = {Show("plain", <<>>, delta)}
      /\ h.mode = "final" => Project(h, delta) = Final(s)
      /\ h.mode = "pending" /\ Free(s, {"f", "t"}) =>
           Project(h, delta) = {IF PlainFinal /\ s[1] # "<" THEN Show("plain", <<>>, s)
                                ELSE Show("pending", Ending(s, Window), <<>>)}
      /\ h.mode = "pending" /\ ~Free(s, {"f", "t"}) =>
           Project(h, delta) = UNION {IF s[p + 1] = "f" THEN Final(Rest(s, p + 2)) ELSE {Show("blocked", <<>>, <<>>)} :
                                        p \in Firsts(s, {"f", "t"})}
  BY DEF Project
<1>5. \A mode, buf, out : /\ Show(mode, buf, out).hook.mode = mode /\ Show(mode, buf, out).hook.buf = buf
                          /\ Show(mode, buf, out).out = out
  BY DEF Show
<1>6. h.mode \in {"pending", "plain", "final", "blocked"} /\ Window \in Nat \ {0}
  BY WorkerRunAssumption DEF Hooks
<1> SUFFICES HookFits(q.hook, more, through \o q.out, over)
  BY <1>1
<1>7. CASE h.mode = "blocked"
  <2>1. q.hook.mode = "blocked" /\ q.out = <<>>
    BY <1>4, <1>5, <1>7
  <2>2. Closed(text, through)
    BY <1>7 DEF HookFits
  <2>3. Closed(more, through)
    BY <1>1, <2>2, ClosedStays
  <2> QED
    BY <1>3, <2>1, <2>3 DEF HookFits
<1>8. CASE h.mode = "plain"
  <2>1. q.hook.mode = "plain" /\ q.out = delta
    BY <1>4, <1>5, <1>8
  <2>2. PICK k \in PlainFrom(text) : through = Rest(text, k)
    BY <1>8 DEF HookFits
  <2>3. k \in PlainFrom(more) /\ Rest(more, k) = through \o delta
    BY <1>1, <2>2, PlainStays
  <2> QED
    BY <2>1, <2>3 DEF HookFits
<1>9. CASE h.mode = "final"
  <2>1. q \in Final(s)
    BY <1>4, <1>9
  <2>2. PICK p \in Firsts(text, Tags) :
          /\ text[p + 1] = "f" /\ Free(Rest(text, p + 2), {"/"})
          /\ through = SubSeq(Rest(text, p + 2), 1, Len(Rest(text, p + 2)) - 1)
          /\ h.buf = Ending(Rest(text, p + 2), 1)
    BY <1>9 DEF HookFits
  <2>3. PICK r : r = Rest(text, p + 2)
    OBVIOUS
  <2>4. p \in 1 .. Len(text) - 1 /\ p + 2 \in 1 .. Len(text) + 1 /\ p + 1 \in 1 .. Len(text)
    BY <1>2, TagsFit
  <2>5. r \in Seq(Chars) /\ Rest(more, p + 2) = r \o delta /\ Len(r) \in Nat /\ (r = <<>> <=> Len(r) = 0)
    BY <1>1, <2>3, <2>4, RestIs, RestGrows, LenProperties, EmptySeq
  <2>6. p \in Firsts(more, Tags) /\ more[p + 1] = "f"
    BY <1>1, <1>2, <2>2, <2>4, Grown
  <2>7. PICK j : j = IF r = <<>> THEN 1 ELSE Len(r)
    OBVIOUS
  <2>8. j \in 1 .. Len(r) + 1 /\ (r # <<>> => j <= Len(r))
    BY <2>5, <2>7
  <2>9. h.buf = Rest(r, j) /\ through = SubSeq(r, 1, j - 1)
    <3>1. CASE r = <<>>
      <4>1. Len(r) = 0 /\ j = 1
        BY <2>5, <2>7, <3>1
      <4>2. Ending(r, 1) = Rest(r, 1)
        BY <4>1 DEF Ending
      <4>3. SubSeq(r, 1, Len(r) - 1) = <<>> /\ SubSeq(r, 1, j - 1) = <<>>
        BY <4>1, SubSeqEmpty
      <4> QED
        BY <2>2, <2>3, <4>1, <4>2, <4>3
    <3>2. CASE r # <<>>
      <4>1. Len(r) \in Nat /\ Len(r) >= 1 /\ j = Len(r)
        BY <2>5, <2>7, <3>2
      <4>2. \A n \in Nat : n >= 1 => (IF n > 1 THEN n - 1 + 1 ELSE 1) = n
        OBVIOUS
      <4>3. (IF Len(r) > 1 THEN Len(r) - 1 + 1 ELSE 1) = Len(r)
        BY <4>1, <4>2
      <4>4. Ending(r, 1) = Rest(r, Len(r))
        BY <4>3 DEF Ending
      <4> QED
        BY <2>2, <2>3, <4>1, <4>4
    <3> QED
      BY <3>1, <3>2
  <2>10. s = Rest(r \o delta, j)
    BY <2>5, <2>8, <2>9, RestGrows, SMTT(30)
  <2>11. Free(r, {"/"})
    BY <2>2, <2>3
  <2>12. /\ Free(s, {"/"}) => Free(r \o delta, {"/"})
         /\ \A c \in Firsts(s, {"/"}) : j + c - 1 \in Firsts(r \o delta, {"/"})
    BY <2>5, <2>8, <2>10, <2>11, TagsInKept DEF Moved
  <2>13. PICK w : w = r \o delta
    OBVIOUS
  <2>14. /\ Len(w) = Len(r) + Len(delta) /\ j \in 1 .. Len(w) + 1 /\ j <= Len(w)
         /\ SubSeq(w, 1, j - 1) = SubSeq(r, 1, j - 1)
    <3>1. /\ w \in Seq(Chars) /\ Len(w) = Len(r) + Len(delta) /\ \A i \in 1 .. Len(r) : w[i] = r[i]
      BY <2>5, <2>13, Grown
    <3>2. j \in 1 .. Len(w) + 1 /\ j <= Len(w) /\ j - 1 <= Len(r) /\ j - 1 \in Nat
      BY <1>2, <2>5, <2>8, <3>1
    <3>3. \A i \in 1 .. j - 1 : w[i] = r[i]
      BY <2>5, <3>1, <3>2
    <3>4. SubSeq(w, 1, j - 1) = [i \in 1 .. j - 1 |-> w[i]]
      BY <3>2
    <3>5. SubSeq(r, 1, j - 1) = [i \in 1 .. j - 1 |-> r[i]]
      BY <3>2
    <3> QED
      BY <3>1, <3>2, <3>3, <3>4, <3>5
  <2>15. w = Rest(more, p + 2) /\ s = Rest(w, j) /\ through = SubSeq(w, 1, j - 1)
    BY <2>5, <2>9, <2>10, <2>13, <2>14
  <2>16. /\ Free(s, {"/"}) => Free(w, {"/"})
         /\ \A c \in Firsts(s, {"/"}) : j + c - 1 \in Firsts(w, {"/"})
    BY <2>12, <2>13
  <2> HIDE DEF s
  <2> QED
    BY <1>2, <2>1, <2>6, <2>14, <2>15, <2>16, FinalFits
\* Before the answer's first tag.
<1>10. CASE h.mode = "pending"
  <2>1. /\ through = <<>> /\ Free(text, Tags) /\ (PlainFinal /\ text # <<>> => text[1] = "<")
    BY <1>10 DEF HookFits
  <2>2. PICK k \in 1 .. Len(text) + 1 : h.buf = Rest(text, k) /\ (text # <<>> => k <= Len(text))
    BY <1>10 DEF HookFits
  <2>3. s = Rest(more, k) /\ s = Rest(text \o delta, k) /\ k \in 1 .. Len(more) + 1
    <3>1. Rest(text \o delta, k) = Rest(text, k) \o delta
      BY RestGrows, Zenon
    <3>2. k \in 1 .. Len(more) + 1
      BY <1>2
    <3> QED
      BY <1>1, <2>2, <3>1, <3>2
  <2> HIDE DEF s
  <2>4. /\ Free(s, Tags) => Free(more, Tags)
        /\ \A p \in Firsts(s, Tags) : k + p - 1 \in Firsts(more, Tags) /\ s[p + 1] = more[(k + p - 1) + 1]
    <3>1. Free(text, Tags) /\ (text # <<>> => k <= Len(text)) /\ s = Rest(text \o delta, k)
      BY <2>1, <2>2, <2>3
    <3>2. PICK t : t = s
      OBVIOUS
    <3>3. PICK cs : cs = Tags
      OBVIOUS
    <3>4. Free(text, cs) /\ (text # <<>> => k <= Len(text)) /\ t = Rest(text \o delta, k)
      BY <3>1, <3>2, <3>3
    <3>5. (Free(t, cs) => Free(text \o delta, cs)) /\ Moved(t, text \o delta, k, cs)
      BY <3>4, TagsInKept
    <3> QED
      BY <1>1, <3>2, <3>3, <3>5 DEF Moved
  <2>5. Len(s) = Len(more) - k + 1 /\ Len(s) \in Nat /\ Len(s) >= 1 /\ s[1] = more[k]
        /\ (\A i \in 1 .. Len(s) + 1 : Rest(s, i) = Rest(more, k + i - 1))
    <3>1. Len(Rest(more, k)) = Len(more) - k + 1
      BY <1>2, <2>3, RestIs, Zenon
    <3>2. Len(s) = Len(more) - k + 1 /\ Len(s) \in Nat /\ Len(s) >= 1
      <4>1. Len(s) = Len(more) - k + 1
        BY <2>3, <3>1
      <4>2. PICK a, b, c, d : a = Len(text) /\ b = Len(delta) /\ c = Len(more) /\ d = Len(s)
        OBVIOUS
      <4>3. a \in Nat /\ b \in Nat /\ b >= 1 /\ c = a + b /\ k \in 1 .. a + 1 /\ d = c - k + 1
        BY <1>2, <4>1, <4>2
      <4>4. d \in Nat /\ d >= 1
        BY <4>3
      <4> QED
        BY <4>1, <4>2, <4>4
    <3>3. /\ \A i \in 1 .. Len(Rest(more, k)) : Rest(more, k)[i] = more[k + i - 1]
          /\ \A i \in 1 .. Len(Rest(more, k)) + 1 : Rest(Rest(more, k), i) = Rest(more, k + i - 1)
      BY <1>2, <2>3, RestMoves, Zenon
    <3>4. 1 \in 1 .. Len(s) /\ k + 1 - 1 = k
      BY <3>2
    <3>5. s[1] = more[k + 1 - 1]
      BY <2>3, <3>3, <3>4
    <3> QED
      BY <2>3, <3>2, <3>3, <3>4, <3>5
  <2>6. more[1] = IF text = <<>> THEN s[1] ELSE text[1]
    <3>1. CASE text = <<>>
      <4>1. k = 1
        BY <2>2, <3>1, EmptySeq
      <4> QED
        BY <2>5, <3>1, <4>1
    <3>2. CASE text # <<>>
      <4>1. 1 \in 1 .. Len(text)
        BY <1>2, <3>2, EmptySeq
      <4> QED
        BY <1>2, <3>2, <4>1
    <3> QED
      BY <3>1, <3>2
  <2>7. CASE Free(s, {"f", "t"})
    <3>1. Free(more, Tags)
      BY <2>4, <2>7 DEF Tags
    <3>2. CASE PlainFinal /\ s[1] # "<"
      <4>1. q.hook.mode = "plain" /\ q.out = s
        BY <1>4, <1>5, <1>10, <2>7, <3>2
      <4>2. k \in PlainFrom(more)
        <5>1. k \in DOMAIN more /\ more[k] # "<"
          BY <1>2, <2>3, <2>5, <3>2, LenProperties
        <5>2. k = 1 \/ more[1] = "<"
          <6>1. text = <<>> => k = 1
            BY <2>2, EmptySeq
          <6> QED
            BY <2>1, <2>6, <3>2, <6>1
        <5>3. \A i \in 1 .. k - 1 : ~Tag(more, i, {"f", "t"})
          <6>1. \A i \in 1 .. k - 1 : i \in DOMAIN more
            BY <1>2, <2>3, <2>5, LenProperties
          <6> QED
            BY <3>1, <6>1 DEF Free, Tags
        <5> QED
          BY <3>2, <5>1, <5>2, <5>3 DEF PlainFrom
      <4>3. through \o q.out = Rest(more, k)
        BY <1>2, <1>3, <2>1, <2>3, <4>1
      <4> QED
        BY <4>1, <4>2, <4>3 DEF HookFits
    <3>3. CASE ~(PlainFinal /\ s[1] # "<")
      <4>1. q.hook.mode = "pending" /\ q.hook.buf = Ending(s, Window) /\ q.out = <<>>
        BY <1>4, <1>5, <1>10, <2>7, <3>3
      <4>2. PICK i \in 1 .. Len(s) + 1 : Ending(s, Window) = Rest(s, i) /\ (s # <<>> => i <= Len(s))
        BY <1>2, <1>6, EndingIs
      <4>3. s # <<>> /\ k + i - 1 \in 1 .. Len(more) + 1 /\ k + i - 1 <= Len(more)
        <5>1. s # <<>>
          BY <2>5, EmptySeq
        <5> QED
          BY <1>2, <2>2, <2>5, <4>2, <5>1, SMTT(30)
      <4>4. q.hook.buf = Rest(more, k + i - 1)
        BY <2>5, <4>1, <4>2
      <4>5. PlainFinal => more[1] = "<"
        BY <2>1, <2>6, <3>3
      <4>6. through \o q.out = <<>>
        BY <1>3, <2>1, <4>1
      <4> QED
        BY <3>1, <4>1, <4>3, <4>4, <4>5, <4>6 DEF HookFits
    <3> QED
      BY <3>2, <3>3
  <2>8. CASE ~Free(s, {"f", "t"})
    <3>1. PICK p \in Firsts(s, Tags) :
            q \in IF s[p + 1] = "f" THEN Final(Rest(s, p + 2)) ELSE {Show("blocked", <<>>, <<>>)}
      BY <1>4, <1>10, <2>8 DEF Tags
    <3>2. p \in 1 .. Len(s) - 1 /\ p + 2 \in 1 .. Len(s) + 1
      BY <1>2, TagsFit
    <3>3. PICK m : m = k + p - 1
      OBVIOUS
    <3>4. m \in Firsts(more, Tags) /\ s[p + 1] = more[m + 1]
      BY <2>4, <3>3
    <3>5. Rest(s, p + 2) = Rest(more, m + 2) /\ m + 2 \in 1 .. Len(more) + 1
      <4>1. k + (p + 2) - 1 = m + 2
        BY <2>2, <3>2, <3>3, <1>2
      <4>2. m + 2 \in 1 .. Len(more) + 1
        BY <1>2, <3>4, TagsFit
      <4> QED
        BY <2>5, <3>2, <4>1, <4>2
    <3>6. CASE more[m + 1] = "f"
      <4>1. PICK r : r = Rest(more, m + 2)
        OBVIOUS
      <4>2. r \in Seq(Chars) /\ Len(r) \in Nat /\ (r # <<>> => 1 <= Len(r)) /\ 1 \in 1 .. Len(r) + 1
        BY <1>2, <3>5, <4>1, RestIs, LenProperties, EmptySeq, SMTT(30)
      <4>3. q \in Final(r) /\ r = Rest(r, 1) /\ through = SubSeq(r, 1, 1 - 1)
        <5>1. q \in Final(r)
          BY <3>1, <3>4, <3>5, <3>6, <4>1
        <5>2. Rest(r, 1) = r
          BY <4>2, SubSeqFull DEF Rest
        <5>3. SubSeq(r, 1, 0) = <<>>
          BY SubSeqEmpty
        <5> QED
          BY <2>1, <5>1, <5>2, <5>3
      <4>4. \A c \in Firsts(r, {"/"}) : 1 + c - 1 \in Firsts(r, {"/"})
        <5> SUFFICES ASSUME NEW c \in Firsts(r, {"/"}) PROVE 1 + c - 1 \in Firsts(r, {"/"})
          OBVIOUS
        <5>1. c \in 1 .. Len(r) - 1
          BY <4>2, TagsFit
        <5>2. 1 + c - 1 = c
          BY <4>2, <5>1
        <5> QED
          BY <5>2
      <4> QED
        BY <1>2, <3>4, <3>6, <4>1, <4>2, <4>3, <4>4, FinalFits
    <3>7. CASE more[m + 1] # "f"
      <4>1. q.hook.mode = "blocked" /\ q.out = <<>>
        BY <1>5, <3>1, <3>4, <3>7
      <4>2. Closed(more, through \o q.out)
        BY <1>3, <2>1, <3>4, <3>7, <4>1 DEF Closed
      <4> QED
        BY <4>1, <4>2 DEF HookFits
    <3> QED
      BY <3>6, <3>7
  <2> QED
    BY <2>7, <2>8
<1> QED
  BY <1>6, <1>7, <1>8, <1>9, <1>10

-----------------------------------------------------------------------------
(* What the hub has of the answer.                                         *)

\* What the hooks have let through may be shown.
LEMMA FitsVisible ==
  ASSUME NEW h \in Hooks, NEW text \in Seq(Chars), NEW through, NEW on, HookFits(h, text, through, on)
  PROVE  through \in Visible(text)
<1>1. CASE h.mode = "pending"
  <2>1. through = <<>> /\ Free(text, Tags) /\ (PlainFinal /\ text # <<>> => text[1] = "<")
    BY <1>1 DEF HookFits
  <2>2. 1 \notin PlainFrom(text)
    <3>1. ASSUME 1 \in PlainFrom(text) PROVE FALSE
      <4>1. PlainFinal /\ text[1] # "<" /\ 1 \in 1 .. Len(text)
        BY <3>1, LenProperties DEF PlainFrom
      <4>2. text # <<>>
        BY <4>1, EmptySeq
      <4> QED
        BY <2>1, <4>1, <4>2
    <3> QED
      BY <3>1
  <2> QED
    BY <2>1, <2>2 DEF Visible, Tags
<1>2. CASE h.mode = "plain"
  <2>1. through \in {Rest(text, k) : k \in PlainFrom(text)}
    BY <1>2 DEF HookFits
  <2>2. {Rest(text, k) : k \in PlainFrom(text)} \subseteq Visible(text)
    BY Zenon DEF Visible
  <2> QED
    BY <2>1, <2>2
<1>3. CASE h.mode = "final"
  <2>1. PICK p \in Firsts(text, Tags) :
          /\ text[p + 1] = "f" /\ Free(Rest(text, p + 2), {"/"})
          /\ through = SubSeq(Rest(text, p + 2), 1, Len(Rest(text, p + 2)) - 1)
          /\ h.buf = Ending(Rest(text, p + 2), 1)
    BY <1>3 DEF HookFits
  <2>2. through \in Inside(Rest(text, p + 2))
    BY <2>1 DEF Inside
  <2> QED
    BY <2>1, <2>2 DEF Visible, Tags
<1>4. CASE h.mode = "blocked" /\ Closed(text, through)
  <2>1. PICK p \in Firsts(text, Tags) :
          \/ text[p + 1] # "f" /\ through = <<>>
          \/ text[p + 1] = "f" /\ \E c \in Firsts(Rest(text, p + 2), {"/"}) :
                                    through = SubSeq(Rest(text, p + 2), 1, c - 1)
    BY <1>4 DEF Closed
  <2>2. CASE text[p + 1] # "f" /\ through = <<>>
    BY <2>1, <2>2 DEF Visible, Tags
  <2>3. CASE text[p + 1] = "f"
    <3>1. PICK r : r = Rest(text, p + 2)
      OBVIOUS
    <3>2. PICK c \in Firsts(r, {"/"}) : through = SubSeq(r, 1, c - 1)
      BY <2>1, <2>3, <3>1
    <3>3. ~Free(r, {"/"})
      BY <3>2 DEF Free, Firsts
    <3>4. through \in Inside(r)
      BY <3>2, <3>3 DEF Inside
    <3> QED
      BY <2>1, <2>3, <3>1, <3>4 DEF Visible, Tags
  <2> QED
    BY <2>1, <2>2, <2>3
<1>5. h.mode = "blocked" => Closed(text, through) \/ through \in Visible(text)
  BY DEF HookFits
<1> QED
  BY <1>1, <1>2, <1>3, <1>4, <1>5 DEF Hooks

\* Before any text the hooks are as before_model leaves them.
LEMMA NothingFits ==
  /\ \A on : HookFits(FreshHook, <<>>, <<>>, on)
  /\ \A h \in Hooks : \A through, on : on # "ok" /\ HookFits(h, <<>>, through, on) => h = FreshHook /\ through = <<>>
<1>1. PICK none : none = <<>>
  OBVIOUS
<1>2. none \in Seq(Chars) /\ Len(none) = 0 /\ DOMAIN none = {}
  BY <1>1, EmptySeq, LenProperties
<1>3. Rest(none, 1) = none /\ Free(none, Tags) /\ Firsts(none, Tags) = {} /\ PlainFrom(none) = {}
  BY <1>1, <1>2, SubSeqEmpty DEF Rest, Free, Firsts, PlainFrom
<1>4. ASSUME NEW on PROVE HookFits(FreshHook, none, none, on)
  <2>1. FreshHook.mode = "pending" /\ FreshHook.buf = none
    BY <1>1 DEF FreshHook
  <2>2. 1 \in 1 .. Len(none) + 1 /\ FreshHook.buf = Rest(none, 1) /\ ~(none # <<>>)
    BY <1>1, <1>2, <1>3, <2>1
  <2> QED
    BY <1>1, <1>3, <2>1, <2>2 DEF HookFits
<1>5. ASSUME NEW h \in Hooks, NEW through, NEW on, on # "ok", HookFits(h, none, through, on)
      PROVE  h = FreshHook /\ through = <<>>
  <2>1. h.mode # "plain"
    BY <1>3, <1>5 DEF HookFits
  <2>2. h.mode # "final"
    BY <1>3, <1>5 DEF HookFits
  <2>3. h.mode # "blocked"
    BY <1>3, <1>5 DEF HookFits, Closed
  <2>4. h.mode = "pending"
    BY <2>1, <2>2, <2>3 DEF Hooks
  <2>5. through = <<>> /\ \E k \in 1 .. Len(none) + 1 : h.buf = Rest(none, k)
    BY <1>5, <2>4 DEF HookFits
  <2>6. h.buf = <<>>
    <3>1. PICK k \in 1 .. Len(none) + 1 : h.buf = Rest(none, k)
      BY <2>5
    <3>2. k = 1
      BY <1>2
    <3> QED
      BY <1>1, <1>3, <3>1, <3>2
  <2> QED
    BY <2>4, <2>5, <2>6 DEF Hooks, FreshHook
<1> QED
  BY <1>1, <1>4, <1>5

LEMMA DeliveredTyped ==
  ASSUME RunTyped, shown \in Seq(Chars)
  PROVE  /\ Delivered \in Seq(Chars) /\ req.emit \in Seq(Chars) /\ req.text \in Seq(Chars)
         /\ req.on # "send" \/ req.retry => Delivered = shown
         /\ req.on = "send" /\ ~req.retry => Delivered = shown \o req.emit
<1>1. req.emit \in Seq(Chars) /\ req.text \in Seq(Chars)
  BY DEF RunTyped, RequestRecords
<1>2. shown \o <<>> = shown /\ shown \o req.emit \in Seq(Chars)
  BY <1>1, ConcatEmptySeq, ConcatProperties
<1> QED
  BY <1>1, <1>2 DEF Delivered

\* The next state is as the invariant wants it.
LEMMA FitsPrimed ==
  ASSUME NEW h, NEW text, NEW d, NEW on, HookFits(h, text, d, on),
         h = hook', text = req'.text, d = Delivered', on = req'.on, ~req'.retry, shown' \in Seq(Chars)
  PROVE  Projected'
<1>1. HookFits(hook, req.text, Delivered, req.on)'
  OBVIOUS
<1> QED
  BY <1>1 DEF Projected

\* A round or an attempt starts.
LEMMA RoundStarts ==
  ASSUME hook' = FreshHook, shown' = <<>>, ~req'.retry, req'.text = <<>>, req'.on # "send"
  PROVE  Projected'
<1>1. PICK h, text, d, on : h = hook' /\ text = req'.text /\ d = Delivered' /\ on = req'.on
  OBVIOUS
<1>2. Delivered' = <<>>
  <2>1. <<>> \o <<>> = <<>>
    BY EmptySeq, ConcatEmptySeq
  <2> QED
    BY <2>1 DEF Delivered
<1>3. HookFits(h, text, d, on)
  BY <1>1, <1>2, NothingFits
<1>4. shown' \in Seq(Chars)
  BY EmptySeq
<1> QED
  BY <1>1, <1>3, <1>4, FitsPrimed

\* A step of the request that reads nothing and gives no attempt up.
LEMMA RequestMoves ==
  ASSUME Projected, ended = "no", ~req.retry, ~req'.retry, hook' = hook, req'.text = req.text,
         shown' \in Seq(Chars), Delivered' = Delivered, req.on # "ok"
  PROVE  Projected'
<1>1. HookFits(hook, req.text, Delivered, req.on)
  BY DEF Projected
<1>2. PICK h, text, d, on : h = hook' /\ text = req'.text /\ d = Delivered' /\ on = req'.on
  OBVIOUS
<1>3. HookFits(h, text, d, on)
  BY <1>1, <1>2 DEF HookFits
<1> QED
  BY <1>2, <1>3, FitsPrimed

LEMMA RequestProjects ==
  ASSUME RunTyped, Projected, RequestStep
  PROVE  Projected'
<1>1. /\ req \in RequestRecords /\ hook \in Hooks /\ ended' = ended
      /\ shown \in Seq(Chars) /\ Delivered \in Seq(Chars) /\ req.emit \in Seq(Chars) /\ req.text \in Seq(Chars)
      /\ req.on # "send" \/ req.retry => Delivered = shown
      /\ req.on = "send" /\ ~req.retry => Delivered = shown \o req.emit
  <2>1. shown \in Seq(Chars)
    BY SMTT(30) DEF Projected
  <2>2. ended' = ended
    BY DEF RequestStep, RequestOnly, Ask, Open, Think, Receive, Take, ReceiveCancelled, Emit, Break, FailRetryable,
           Reject, Exhaust, Answer
  <2> QED
    BY <2>1, <2>2, DeliveredTyped DEF RunTyped
<1>2. CASE ended # "no"
  <2>1. shown' = shown
    BY <1>2 DEF RequestStep, Ask, Open, Think, Receive, Take, ReceiveCancelled, Emit, Break, FailRetryable, Reject,
                Exhaust, Answer
  <2> QED
    BY <1>1, <1>2, <2>1 DEF Projected
<1> SUFFICES ASSUME ended = "no" PROVE Projected'
  BY <1>2
<1>3. /\ req.retry => req.on = "send" /\ hook = FreshHook /\ shown \in Visible(req.text)
      /\ ~req.retry => HookFits(hook, req.text, Delivered, req.on)
  BY DEF Projected
<1>4. \A s \in Seq(Chars) : s \o <<>> = s
  BY ConcatEmptySeq
<1>5. ASSUME req.on \notin {"ok", "send"}, hook' = hook, shown' = shown,
             req'.on # "send", req'.retry = req.retry, req'.text = req.text
      PROVE  Projected'
  <2>1. ~req.retry /\ ~req'.retry /\ req'.text = req.text /\ req'.on # "send"
    BY <1>3, <1>5
  <2>2. Delivered' = Delivered
    BY <1>1, <1>4, <1>5, <2>1 DEF Delivered
  <2> QED
    BY <1>1, <1>5, <2>1, <2>2, RequestMoves
<1>6. CASE Ask \/ Open \/ ReceiveCancelled \/ Reject \/ Answer
  <2>1. req.on \notin {"ok", "send"} /\ hook' = hook /\ shown' = shown
    BY <1>6 DEF Ask, Open, ReceiveCancelled, Reject, Answer
  <2>2. req'.on # "send" /\ req'.retry = req.retry /\ req'.text = req.text
    BY <1>1, <1>6 DEF Ask, Open, ReceiveCancelled, Reject, Answer, RequestRecords
  <2> QED
    BY <1>5, <2>1, <2>2
<1>7. CASE Think
  <2>1. /\ req.on = "recv" /\ hook' = hook /\ shown' = shown
        /\ req' = [req EXCEPT !.thought = TRUE, !.bare = TRUE, !.emit = <<>>, !.allowed = 1, !.on = "send"]
    BY <1>7 DEF Think
  <2>2. ~req.retry /\ ~req'.retry /\ req'.text = req.text /\ req'.emit = <<>>
    BY <1>1, <1>3, <2>1 DEF RequestRecords
  <2>3. Delivered' = Delivered
    BY <1>1, <1>4, <2>1, <2>2 DEF Delivered
  <2> QED
    BY <1>1, <2>1, <2>2, <2>3, RequestMoves
<1>8. CASE Emit /\ ~req.retry
  <2>1. PICK n \in 0 .. Len(req.emit), rest \in Seq(Chars) :
          /\ rest = Rest(req.emit, n + 1) /\ req.on = "send" /\ hook' = hook
          /\ req' = [req EXCEPT !.bare = FALSE, !.emit = rest, !.on = IF rest = <<>> THEN "recv" ELSE "send"]
          /\ shown' = shown \o SubSeq(req.emit, 1, n)
    <3>1. PICK n \in 0 .. Len(req.emit), rest \in Seq(Chars) :
            /\ rest = Rest(req.emit, n + 1) /\ req.on = "send" /\ hook' = hook
            /\ req' = IF req.retry THEN [req EXCEPT !.on = "ask", !.attempt = @ + 1, !.retry = FALSE,
                                                    !.bare = FALSE, !.text = <<>>, !.thought = FALSE]
                      ELSE [req EXCEPT !.bare = FALSE, !.emit = rest, !.on = IF rest = <<>> THEN "recv" ELSE "send"]
            /\ shown' = IF ended # "no" THEN shown
                        ELSE IF req.retry THEN <<>> ELSE shown \o SubSeq(req.emit, 1, n)
      BY <1>8, EmitIs
    <3> QED
      BY <1>8, <3>1
  <2>2. ~req'.retry /\ req'.text = req.text /\ req'.emit = rest /\ req'.on = IF rest = <<>> THEN "recv" ELSE "send"
    BY <1>1, <1>8, <2>1 DEF RequestRecords
  <2>3. PICK front : front = SubSeq(req.emit, 1, n)
    OBVIOUS
  <2>4. front \in Seq(Chars) /\ front \o rest = req.emit
    <3>1. Len(req.emit) \in Nat /\ n \in Int /\ n <= Len(req.emit)
      BY <1>1, LenProperties
    <3>2. 1 \in 1 .. Len(req.emit) + 1 /\ n \in 1 - 1 .. Len(req.emit) /\ Len(req.emit) \in n .. Len(req.emit)
      BY <3>1
    <3>3. SubSeq(req.emit, 1, n) \o SubSeq(req.emit, n + 1, Len(req.emit)) = SubSeq(req.emit, 1, Len(req.emit))
      BY <1>1, <3>2, ConcatAdjacentSubSeq, Zenon
    <3>4. SubSeq(req.emit, 1, Len(req.emit)) = req.emit
      BY <1>1, SubSeqFull
    <3> QED
      BY <1>1, <2>1, <2>3, <3>1, <3>3, <3>4, StartIs DEF Rest
  <2>5. (shown \o front) \o rest = shown \o (front \o rest)
    <3>1. \A s, u, v \in Seq(Chars) : (s \o u) \o v = s \o (u \o v)
      BY ConcatAssociative
    <3>2. shown \in Seq(Chars)
      BY <1>1
    <3> QED
      BY <2>4, <3>1, <3>2
  <2>6. shown' \in Seq(Chars) /\ (shown' \o <<>>) = shown'
    BY <1>1, <1>4, <2>1, <2>3, <2>4, ConcatProperties
  <2>7. Delivered' = shown' \o rest
    <3>1. CASE rest = <<>>
      BY <2>2, <3>1 DEF Delivered
    <3>2. CASE rest # <<>>
      BY <2>2, <3>2 DEF Delivered
    <3> QED
      BY <3>1, <3>2
  <2>8. Delivered' = Delivered
    BY <1>1, <1>8, <2>1, <2>3, <2>4, <2>5, <2>7
  <2> QED
    BY <1>8, <2>1, <2>2, <2>6, <2>8, RequestMoves
<1>9. CASE Emit /\ req.retry
  <2>1. /\ req' = [req EXCEPT !.on = "ask", !.attempt = @ + 1, !.retry = FALSE, !.bare = FALSE,
                              !.text = <<>>, !.thought = FALSE]
        /\ hook' = hook /\ shown' = <<>>
    BY <1>9 DEF Emit
  <2>2. ~req'.retry /\ req'.text = <<>> /\ req'.on = "ask"
    BY <1>1, <2>1 DEF RequestRecords
  <2> QED
    BY <1>3, <1>9, <2>1, <2>2, RoundStarts
<1>10. CASE Break
  <2>1. req.on \in {"open", "recv"} /\ shown' = shown
    BY <1>10 DEF Break, FailRetryable
  <2>2. \/ hook' = hook /\ req' = [req EXCEPT !.on = "failed"]
        \/ hook' = hook /\ req' = [req EXCEPT !.on = "cancelled"]
        \/ /\ req' = [req EXCEPT !.on = "send", !.retry = TRUE, !.bare = TRUE, !.emit = <<>>, !.allowed = 1]
           /\ hook' = FreshHook
    BY <1>10 DEF Break, FailRetryable, Retried
  <2>3. CASE /\ req' = [req EXCEPT !.on = "send", !.retry = TRUE, !.bare = TRUE, !.emit = <<>>, !.allowed = 1]
             /\ hook' = FreshHook
    <3>1. req'.on = "send" /\ req'.retry /\ req'.text = req.text
      BY <1>1, <2>3 DEF RequestRecords
    <3>2. HookFits(hook, req.text, shown, req.on)
      BY <1>1, <1>3, <2>1
    <3>3. shown \in Visible(req.text)
      BY <1>1, <3>2, FitsVisible
    <3>4. shown' \in Visible(req.text)'
      BY <2>1, <3>1, <3>3
    <3> QED
      BY <1>1, <2>1, <2>3, <3>1, <3>4 DEF Projected, FreshHook
  <2>4. CASE hook' = hook /\ \E on \in {"failed", "cancelled"} : req' = [req EXCEPT !.on = on]
    <3>1. req'.on # "send" /\ req'.retry = req.retry /\ req'.text = req.text
      BY <1>1, <2>4 DEF RequestRecords
    <3> QED
      BY <1>5, <2>1, <2>4, <3>1
  <2> QED
    BY <2>2, <2>3, <2>4
<1>11. CASE Exhaust
  <2>1. req.on = "recv" /\ req.text = <<>> /\ hook' = hook /\ shown' = shown
    BY <1>11 DEF Exhaust
  <2>2. CASE req' = [req EXCEPT !.on = "failed"]
    <3>1. req'.on # "send" /\ req'.retry = req.retry /\ req'.text = req.text
      BY <1>1, <2>2 DEF RequestRecords
    <3> QED
      BY <1>5, <2>1, <3>1
  <2>3. CASE req' = [NoRequest EXCEPT !.on = "ask", !.second = TRUE, !.asked = TRUE, !.allowed = req.allowed]
    <3>1. ~req'.retry /\ req'.text = <<>> /\ req'.on = "ask"
      BY <2>3 DEF NoRequest
    <3>2. HookFits(hook, <<>>, shown, "recv")
      BY <1>1, <1>3, <2>1
    <3>3. hook = FreshHook /\ shown = <<>>
      BY <1>1, <3>2, NothingFits
    <3> QED
      BY <2>1, <3>1, <3>3, RoundStarts
  <2> QED
    BY <1>11, <2>2, <2>3 DEF Exhaust
<1>12. CASE \E delta \in Deltas(req.text) : Receive(delta)
  <2>1. PICK delta \in Deltas(req.text) : Take(delta)
    BY <1>12 DEF Receive
  <2>2. delta \in Seq(Chars) /\ delta # <<>>
    BY <1>1, DeltasAreText
  <2>3. PICK p \in Project(hook, delta), due \in BOOLEAN : \E k \in Parts(p.out) :
          /\ req.on = "recv" /\ hook' = p.hook /\ hook' \in Hooks /\ p.out \in Seq(Chars) /\ k \in Nat
          /\ req' = [req EXCEPT !.text = req.text \o delta, !.bare = due, !.emit = p.out,
                                !.allowed = k + Bit(due), !.on = IF due \/ p.out # <<>> THEN "send" ELSE "recv"]
          /\ req' \in RequestRecords /\ late' = late /\ shown' = shown
    BY <2>1, TakeIs, Zenon
  <2>4. ~req.retry /\ Delivered = shown /\ HookFits(hook, req.text, shown, "recv")
    BY <1>1, <1>3, <2>3
  <2>5. /\ ~req'.retry /\ req'.text = req.text \o delta /\ req'.emit = p.out
        /\ req'.on = IF due \/ p.out # <<>> THEN "send" ELSE "recv"
    BY <1>1, <2>3, <2>4 DEF RequestRecords
  <2>6. Delivered' = shown \o p.out
    <3>1. CASE req'.on = "send"
      BY <2>3, <2>5, <3>1 DEF Delivered
    <3>2. CASE req'.on # "send"
      BY <2>3, <2>5, <3>2 DEF Delivered
    <3> QED
      BY <3>1, <3>2
  <2>7. PICK h, text, d, on : h = hook' /\ text = req'.text /\ d = Delivered' /\ on = req'.on
    OBVIOUS
  <2>8. HookFits(p.hook, req.text \o delta, shown \o p.out, on)
    BY <1>1, <2>2, <2>4, DeltaFits
  <2>9. HookFits(h, text, d, on)
    BY <2>3, <2>5, <2>6, <2>7, <2>8
  <2> QED
    BY <1>1, <2>3, <2>5, <2>7, <2>9, FitsPrimed
<1> QED
  BY <1>6, <1>7, <1>8, <1>9, <1>10, <1>11, <1>12 DEF RequestStep

\* The run's thread starts a round with fresh hooks, and closes an answer shown as it
\* is; the other threads change nothing of the request.
LEMMA OthersProject ==
  ASSUME WorkerInv, Projected, [Next]_vars, ~RequestStep
  PROVE  Projected'
<1>1. RunTyped /\ shown \in Seq(Chars)
  BY DEF WorkerInv, Projected
<1>2. CASE StartModel
  <2>1. hook' = FreshHook /\ shown' = <<>> /\ ~req'.retry /\ req'.text = <<>> /\ req'.on \in {"failed", "ask"}
    BY <1>2 DEF StartModel, NoRequest
  <2> QED
    BY <2>1, RoundStarts
<1>3. CASE TakeAnswer
  <2>1. req.on = "ok" /\ req' = req /\ shown' = shown /\ ended = "no" /\ hook \in Hooks /\ req.text \in Seq(Chars)
        /\ hook' = [hook EXCEPT !.mode = IF @ = "plain" THEN "blocked" ELSE @]
    BY <1>1, <1>3 DEF TakeAnswer, RunTyped, RequestRecords
  <2>2. ~req.retry /\ Delivered' = Delivered /\ HookFits(hook, req.text, Delivered, "ok")
    BY <2>1 DEF Projected, Delivered
  <2>3. Delivered \in Visible(req.text)
    BY <2>1, <2>2, FitsVisible
  <2>4. PICK h, text, d, on : h = hook' /\ text = req'.text /\ d = Delivered' /\ on = req'.on
    OBVIOUS
  <2>5. CASE hook.mode = "plain"
    <3>1. hook'.mode = "blocked"
      BY <2>1, <2>5 DEF Hooks
    <3>2. h.mode = "blocked" /\ d \in Visible(text) /\ on = "ok"
      BY <2>1, <2>2, <2>3, <2>4, <3>1
    <3>3. HookFits(h, text, d, on)
      BY <3>2 DEF HookFits
    <3> QED
      BY <1>1, <2>1, <2>2, <2>4, <3>3, FitsPrimed
  <2>6. CASE hook.mode # "plain"
    <3>1. hook' = hook
      BY <2>1, <2>6 DEF Hooks
    <3>2. HookFits(h, text, d, on)
      BY <2>1, <2>2, <2>4, <3>1
    <3> QED
      BY <1>1, <2>1, <2>2, <2>4, <3>2, FitsPrimed
  <2> QED
    BY <2>5, <2>6
<1>4. CASE ~StartModel /\ ~TakeAnswer
  <2>1. req' = req /\ hook' = hook /\ shown' = shown /\ (ended' = "no" => ended = "no")
    <3>1. CASE RunStep
      <4>1. pc # "ended"
        BY <3>1 DEF RunStep, StartModel, TakeAnswer, TakeFailure, SeeCancel, GiveUp, StartShell, ShellLoop,
                    Readers, ToolReturns, CancelledBetween, Finish
      <4>2. ended = "no"
        BY <1>1, <4>1 DEF RunTyped
      <4> QED
        BY <1>4, <3>1, <4>2 DEF RunStep, TakeFailure, SeeCancel, GiveUp, StartShell, ShellLoop, Readers,
                                ToolReturns, CancelledBetween, Finish
    <3>2. CASE LeaderExits \/ CancelToken \/ CancelShell \/ BeatDue \/ BeatSend \/ StraySend \/ UNCHANGED vars
      BY <3>2 DEF LeaderExits, CancelToken, CancelShell, BeatDue, BeatSend, StraySend, vars
    <3> QED
      BY <3>1, <3>2 DEF Next
  <2>2. Delivered' = Delivered
    BY <2>1 DEF Delivered
  <2>3. CASE ended' # "no"
    BY <1>1, <2>1, <2>3 DEF Projected
  <2>4. CASE ended' = "no" /\ req.retry
    <3>1. req.on = "send" /\ hook = FreshHook /\ shown \in Visible(req.text)
      BY <2>1, <2>4 DEF Projected
    <3>2. shown' \in Visible(req.text)'
      BY <2>1, <3>1
    <3> QED
      BY <1>1, <2>1, <2>4, <3>1, <3>2 DEF Projected, FreshHook
  <2>5. CASE ended' = "no" /\ ~req.retry
    <3>1. HookFits(hook, req.text, Delivered, req.on)
      BY <2>1, <2>5 DEF Projected
    <3>2. PICK h, text, d, on : h = hook' /\ text = req'.text /\ d = Delivered' /\ on = req'.on
      OBVIOUS
    <3>3. HookFits(h, text, d, on)
      BY <2>1, <2>2, <3>1, <3>2
    <3> QED
      BY <1>1, <2>1, <2>5, <3>2, <3>3, FitsPrimed
  <2> QED
    BY <2>3, <2>4, <2>5
<1> QED
  BY <1>2, <1>3, <1>4

LEMMA PrefixOf ==
  ASSUME NEW s \in Seq(Chars), NEW u \in Seq(Chars)
  PROVE  IsPrefix(s, s \o u)
<1>1. /\ Len(s) \in Nat /\ Len(s \o u) = Len(s) + Len(u) /\ Len(u) \in Nat
      /\ \A i \in 1 .. Len(s) : (s \o u)[i] = s[i]
  BY Grown
<1>2. SubSeq(s \o u, 1, Len(s)) = [i \in 1 .. Len(s) |-> (s \o u)[i]]
  BY <1>1
<1>3. SubSeq(s, 1, Len(s)) = [i \in 1 .. Len(s) |-> s[i]]
  BY <1>1
<1>4. SubSeq(s \o u, 1, Len(s)) = SubSeq(s, 1, Len(s))
  BY <1>1, <1>2, <1>3
<1> QED
  BY <1>1, <1>4 DEF IsPrefix

\* What the hub has is what may be shown, or a beginning of it while parts are on
\* their way.
LEMMA ProjectedShows ==
  ASSUME RunTyped, Projected
  PROVE  ShownFollowsAnswer
<1> SUFFICES ASSUME ended = "no"
             PROVE  \E v \in Visible(req.text) :
                      IF req.on = "send" /\ ~req.retry THEN IsPrefix(shown, v) ELSE shown = v
  BY DEF ShownFollowsAnswer
<1>1. /\ shown \in Seq(Chars) /\ req.emit \in Seq(Chars) /\ req.text \in Seq(Chars) /\ hook \in Hooks
      /\ req.on # "send" \/ req.retry => Delivered = shown
      /\ req.on = "send" /\ ~req.retry => Delivered = shown \o req.emit
  BY DeliveredTyped DEF Projected, RunTyped
<1>2. CASE req.retry
  BY <1>2 DEF Projected
<1>3. CASE ~req.retry
  <2>1. Delivered \in Visible(req.text)
    BY <1>1, <1>3, FitsVisible DEF Projected
  <2>2. CASE req.on = "send"
    <3>1. IsPrefix(shown, Delivered)
      BY <1>1, <1>3, <2>2, PrefixOf
    <3> QED
      BY <1>3, <2>1, <2>2, <3>1
  <2>3. CASE req.on # "send"
    BY <1>1, <2>1, <2>3
  <2> QED
    BY <2>2, <2>3
<1> QED
  BY <1>2, <1>3

\* For every client, for all answers and however the provider cuts and breaks them,
\* for every window of a pending answer and every size of a part, and whatever the
\* threads do: between two deltas the hub has of a round exactly what may be shown of
\* the answer the run goes on with, and while a delta is being sent a beginning of it;
\* nothing of an attempt that was given up.
THEOREM ShownFollows == Spec => []ShownFollowsAnswer
<1>1. Init => Projected
  <2> SUFFICES ASSUME Init PROVE Projected
    OBVIOUS
  <2>1. shown = <<>> /\ req = NoRequest /\ hook = FreshHook
    BY DEF Init
  <2>2. req.text = <<>> /\ ~req.retry /\ req.on # "send"
    BY <2>1 DEF NoRequest
  <2>3. shown \in Seq(Chars) /\ shown \o <<>> = <<>>
    BY <2>1, EmptySeq, ConcatEmptySeq
  <2>4. Delivered = <<>>
    BY <2>2, <2>3 DEF Delivered
  <2>5. HookFits(hook, req.text, Delivered, req.on)
    BY <2>1, <2>2, <2>4, NothingFits
  <2> QED
    BY <2>2, <2>3, <2>5 DEF Projected
<1>2. WorkerInv /\ Projected /\ [Next]_vars => Projected'
  <2> SUFFICES ASSUME WorkerInv, Projected, [Next]_vars PROVE Projected'
    OBVIOUS
  <2>1. RunTyped
    BY DEF WorkerInv
  <2> QED
    BY <2>1, RequestProjects, OthersProject
<1>3. WorkerInv /\ Projected => ShownFollowsAnswer
  BY ProjectedShows DEF WorkerInv
<1> QED
  BY WorkerInvHolds, <1>1, <1>2, <1>3, PTL DEF Spec
=============================================================================
