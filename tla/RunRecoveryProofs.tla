------------------------- MODULE RunRecoveryProofs -------------------------
(***************************************************************************)
(* Theorems about RunRecovery for every set of Tasks and every number of   *)
(* crashes and faults.                                                     *)
(***************************************************************************)
EXTENDS RunRecovery, TLAPS

---------------------------------------------------------------------------
(* The records, and the lists of writes still to be done.                  *)

RecKinds  == {"row", "copy", "state", "report"}
FlagKinds == {"trace", "open", "worked"}
AprKinds  == {"apr", "aprCopy"}
Kinds     == RecKinds \cup FlagKinds \cup AprKinds \cup {"told", "answer"}

AprStates == {"none", "pending", "approved", "rejected", "expired", "cancelled"}
EndStates == Statuses \ Active

KeptTyped ==
  /\ kept = [row |-> kept.row, copy |-> kept.copy, state |-> kept.state, report |-> kept.report,
             trace |-> kept.trace, apr |-> kept.apr, aprCopy |-> kept.aprCopy, open |-> kept.open,
             told |-> kept.told, answer |-> kept.answer, worked |-> kept.worked]
  /\ {kept.row, kept.copy, kept.state, kept.report} \subseteq [Tasks -> Recs \cup {NoTask}]
  /\ {kept.apr, kept.aprCopy} \subseteq [Tasks -> AprStates]
  /\ {kept.trace, kept.open, kept.worked} \subseteq [Tasks -> BOOLEAN]
  /\ kept.told \in [Tasks -> EndStates \cup {"nothing"}]
  /\ kept.answer \in [Tasks -> {"none", "approved", "rejected"}]

\* A write is of a value of its kind.
Writable(w) ==
  /\ w = Write(w.on, w.val)
  /\ w.on \in Kinds \cup {"token"}
  /\ w.on \in RecKinds => w.val \in Recs
  /\ w.on \in FlagKinds => w.val \in BOOLEAN
  /\ w.on \in AprKinds => w.val \in AprStates
  /\ w.on = "told" => w.val \in EndStates
  /\ w.on = "answer" => w.val \in {"approved", "rejected"}

Written(q) == {q[i] : i \in DOMAIN q}

Opens  == Write("open", TRUE)
Closes == Write("open", FALSE)

\* The journal is closed after it is opened.
Closing(q) ==
  \A i \in DOMAIN q : q[i] = Opens => \E j \in DOMAIN q : i < j /\ q[j] = Closes

\* What others rely on comes last.
LastKinds == {"told", "answer", "worked"}
Lasting(q) == \A i \in DOMAIN q : q[i].on \in LastKinds => i = Len(q)

IsList(q) ==
  /\ q \in Seq(Written(q))
  /\ \A w \in Written(q) : Writable(w)
  /\ Closing(q) /\ Lasting(q)

\* A list has a write of one of these kinds.
Has(q, kinds) == \E w \in Written(q) : w.on \in kinds

RunTyped ==
  /\ run = [task |-> run.task, at |-> run.at, todo |-> run.todo, gated |-> run.gated,
            cancelled |-> run.cancelled, mem |-> run.mem]
  /\ run.at \in {"idle", "queued", "lease", "copy", "work", "wait", "gate", "apply", "release", "rmtree",
                 "converge", "ended", "stuck"}
  /\ IF run.at = "idle" THEN run.task = NoTask /\ run.todo = <<>> ELSE run.task \in Tasks \ Remote
  /\ run.gated \in BOOLEAN
  /\ run.mem # NoTask => run.mem \in Recs /\ run.mem.status \in {"completed", "stopped", "failed"}
  /\ run.at = "gate" => run.mem # NoTask
  /\ IsList(run.todo) /\ ~Has(run.todo, {"answer", "token"})

ApiTyped ==
  /\ api = [task |-> api.task, todo |-> api.todo]
  /\ IF api.task = NoTask THEN api.todo = <<>> ELSE api.task \in Tasks /\ api.todo # <<>>
  /\ IsList(api.todo) /\ ~Has(api.todo, {"worked"})

BootTyped ==
  /\ boot = [phase |-> boot.phase, left |-> boot.left, task |-> boot.task, todo |-> boot.todo, ok |-> boot.ok]
  /\ boot.left \subseteq Tasks
  /\ boot.todo # <<>> => boot.task \in Tasks
  /\ IsList(boot.todo) /\ ~Has(boot.todo, LastKinds \cup {"token"})

\* The threads run in a process that is up, the restart in one that is starting.
UpTyped ==
  /\ up \in {"down", "starting", "up"}
  /\ up # "up" => run = Idle /\ api = Quiet
  /\ up # "starting" => boot.todo = <<>>

RecoveryTyped == KeptTyped /\ RunTyped /\ ApiTyped /\ BootTyped /\ UpTyped

---------------------------------------------------------------------------
(* The parts of the inductive invariant.                                   *)

GateKinds == {"apr", "aprCopy", "open"}

Agree(t) == kept.apr[t] = kept.aprCopy[t] /\ ~kept.open[t]

\* Once the list q is done, the two records of an Approval, now a and b, are d and
\* the journal, now open or not, is closed: what is not to be written is there.
Settles(q, d, a, b, open) ==
  /\ \A w \in Written(q) : w.on \in AprKinds \cup {"answer"} => w.val = d
  /\ Write("apr", d) \notin Written(q) => a = d
  /\ Write("aprCopy", d) \notin Written(q) => b = d
  /\ Closes \notin Written(q) => ~open

Settling(t, q, d) == Settles(q, d, kept.apr[t], kept.aprCopy[t], kept.open[t])

\* The run's thread writes an Approval in the gate, alone.
RunSettles ==
  Has(run.todo, GateKinds) =>
    /\ run.gated /\ run.at \in {"wait", "work"} /\ api.task # run.task
    /\ ~Has(run.todo, {"worked"})
    /\ \E d \in AprStates : Settling(run.task, run.todo, d)

\* The API's thread does, while the run's has no such write.
ApiSettles ==
  Has(api.todo, GateKinds \cup {"answer"}) =>
    /\ api.task = run.task => ~Has(run.todo, GateKinds \cup {"worked"})
    /\ \E d \in AprStates : Settling(api.task, api.todo, d)

\* In between the two records of the run's Approval agree and the journal is closed.
RunAgrees ==
  run.at # "idle" /\ ~Has(run.todo, GateKinds) /\ (api.task = run.task => ~Has(api.todo, GateKinds)) =>
    Agree(run.task)

\* A tool acts on an approval nobody is writing.
WorkIsApproved ==
  Has(run.todo, {"worked"}) =>
    /\ run.at = "work" /\ kept.apr[run.task] = "approved" /\ Agree(run.task)
    /\ api.task = run.task => ~Has(api.todo, GateKinds \cup {"answer"})

\* A Task without a row has no Approval, and its row is what is written next.
RowComesFirst(q) == q # <<>> /\ Head(q).on = "row" /\ ~Has(q, GateKinds \cup LastKinds)
NewTasksAreClean ==
  \A t \in Tasks : kept.row[t] = NoTask =>
    /\ kept.apr[t] = "none" /\ Agree(t) /\ kept.answer[t] = "none" /\ ~kept.worked[t]
    /\ run.task = t => run.at = "queued" /\ RowComesFirst(run.todo)
    /\ api.task = t => t \in Remote
    /\ boot.task = t => ~Has(boot.todo, GateKinds)

\* The Approvals of a remote Task are the hub's.
RemoteAsksNothing == api.task \in Remote => ~Has(api.todo, GateKinds \cup {"answer"})

Decided(t) == kept.answer[t] # "none" \/ kept.worked[t]

\* A decision that was answered or acted upon is in both records, the journal is
\* closed over it, and nothing that is still to be written touches it.
DecisionsAreFirm ==
  \A t \in Tasks : Decided(t) =>
    /\ kept.answer[t] # "none" => kept.apr[t] = kept.answer[t]
    /\ kept.worked[t] => kept.apr[t] = "approved"
    /\ Agree(t)
    /\ run.task = t => ~Has(run.todo, GateKinds)
    /\ api.task = t => ~Has(api.todo, GateKinds)
    /\ boot.task = t => \A w \in Written(boot.todo) :
          /\ w.on \in AprKinds => w.val = kept.apr[t]
          /\ w.on = "open" => ~w.val

\* The end s that is to be told is the one the list q leaves in the row and its copy.
Leaves(q, s, row, copy) ==
  /\ \A w \in Written(q) : (w.on \in {"row", "copy"} => w.val.status = s) /\ (w.on = "told" => w.val = s)
  /\ ~Has(q, {"row"}) => row # NoTask /\ row.status = s
  /\ ~Has(q, {"copy"}) => copy # NoTask /\ copy.status = s

Ending(t, q, s) == Leaves(q, s, kept.row[t], kept.copy[t])

RunEnds ==
  Has(run.todo, {"told"}) =>
    /\ run.at = "ended" /\ run.gated /\ api.task # run.task
    /\ \E s \in EndStates : Ending(run.task, run.todo, s)
ApiEnds ==
  Has(api.todo, {"told"}) => api.task \in Remote /\ \E s \in EndStates : Ending(api.task, api.todo, s)

\* An end that was told is in the row and in its copy, and stays.
EndsAreFirm ==
  \A t \in Tasks : kept.told[t] # "nothing" =>
    /\ kept.row[t] # NoTask /\ kept.row[t].status = kept.told[t]
    /\ kept.copy[t] # NoTask /\ kept.copy[t].status = kept.told[t]
    /\ run.task = t => run.at = "ended" /\ run.todo = <<>>
    /\ api.task = t => ~Has(api.todo, {"row", "copy"})
    /\ boot.task = t => \A w \in Written(boot.todo) : w.on \in {"row", "copy"} => w.val.status = kept.told[t]

RecoveryInv ==
  /\ RecoveryTyped
  /\ RunSettles /\ ApiSettles /\ RunAgrees /\ WorkIsApproved
  /\ NewTasksAreClean /\ RemoteAsksNothing /\ DecisionsAreFirm
  /\ RunEnds /\ ApiEnds /\ EndsAreFirm

---------------------------------------------------------------------------
(* Lists of writes: the empty one, one write, two lists, and what is left  *)
(* when the first write is done.                                           *)

LEMMA NoWrites == IsList(<<>>) /\ Written(<<>>) = {}
<1>1. DOMAIN <<>> = {} /\ Written(<<>>) = {}
  BY DEF Written
<1>2. <<>> \in Seq({})
  OBVIOUS
<1> QED
  BY <1>1, <1>2 DEF IsList, Closing, Lasting

LEMMA OneWrite ==
  ASSUME NEW w, Writable(w), w # Opens
  PROVE  IsList(<<w>>) /\ Written(<<w>>) = {w}
<1>1. DOMAIN <<w>> = {1} /\ <<w>>[1] = w /\ Len(<<w>>) = 1 /\ <<w>> \in Seq({w})
  OBVIOUS
<1>2. Written(<<w>>) = {w}
  BY <1>1 DEF Written
<1> QED
  BY <1>1, <1>2 DEF IsList, Closing, Lasting

LEMMA TwoWrites ==
  ASSUME NEW v, NEW w, Writable(v), Writable(w),
         v # Opens, w # Opens, v.on \notin LastKinds
  PROVE  IsList(<<v, w>>) /\ Written(<<v, w>>) = {v, w}
<1>1. DOMAIN <<v, w>> = {1, 2} /\ <<v, w>>[1] = v /\ <<v, w>>[2] = w /\ Len(<<v, w>>) = 2 /\ <<v, w>> \in Seq({v, w})
  OBVIOUS
<1>2. Written(<<v, w>>) = {v, w}
  BY <1>1 DEF Written
<1> QED
  BY <1>1, <1>2 DEF IsList, Closing, Lasting

LEMMA ThreeWrites ==
  ASSUME NEW u, NEW v, NEW w, Writable(u), Writable(v), Writable(w),
         Opens \notin {u, v, w}, {u.on, v.on} \cap LastKinds = {}
  PROVE  IsList(<<u, v, w>>) /\ Written(<<u, v, w>>) = {u, v, w}
<1>1. /\ DOMAIN <<u, v, w>> = {1, 2, 3}
      /\ <<u, v, w>>[1] = u /\ <<u, v, w>>[2] = v /\ <<u, v, w>>[3] = w
      /\ Len(<<u, v, w>>) = 3 /\ <<u, v, w>> \in Seq({u, v, w})
  OBVIOUS
<1>2. Written(<<u, v, w>>) = {u, v, w}
  BY <1>1 DEF Written
<1>3. Closing(<<u, v, w>>)
  BY <1>1 DEF Closing
<1>4. Lasting(<<u, v, w>>)
  BY <1>1 DEF Lasting
<1> QED
  BY <1>1, <1>2, <1>3, <1>4 DEF IsList

LEMMA ListDomain ==
  ASSUME NEW q, IsList(q)
  PROVE  Len(q) \in Nat /\ DOMAIN q = 1 .. Len(q) /\ \A i \in 1 .. Len(q) : q[i] \in Written(q)
BY DEF IsList, Written

LEMMA PastFirst ==
  ASSUME NEW m \in Nat, NEW n \in Nat, NEW i \in 1 .. m + n, ~(i <= m)
  PROVE  \E k \in 1 .. n : i = m + k
<1>1. i - m \in 1 .. n /\ i = m + (i - m)
  OBVIOUS
<1> QED
  BY <1>1

LEMMA ConcatFacts ==
  ASSUME NEW p, NEW q, p \in Seq(Written(p)), q \in Seq(Written(q))
  PROVE  /\ p \o q \in Seq(Written(p \o q)) /\ Written(p \o q) = Written(p) \cup Written(q)
         /\ Len(p) \in Nat /\ Len(q) \in Nat
         /\ DOMAIN p = 1 .. Len(p) /\ DOMAIN q = 1 .. Len(q)
         /\ Len(p \o q) = Len(p) + Len(q) /\ DOMAIN (p \o q) = 1 .. Len(p) + Len(q)
         /\ \A i \in 1 .. Len(p) : (p \o q)[i] = p[i]
         /\ \A i \in 1 .. Len(q) : (p \o q)[Len(p) + i] = q[i]
<1> DEFINE S == Written(p) \cup Written(q)
           r == p \o q
<1>1. /\ p \in Seq(S) /\ q \in Seq(S) /\ Len(p) \in Nat /\ Len(q) \in Nat
      /\ DOMAIN p = 1 .. Len(p) /\ DOMAIN q = 1 .. Len(q)
      /\ \A i \in 1 .. Len(p) : p[i] \in Written(p)
      /\ \A i \in 1 .. Len(q) : q[i] \in Written(q)
  <2>1. /\ Len(p) \in Nat /\ Len(q) \in Nat /\ DOMAIN p = 1 .. Len(p) /\ DOMAIN q = 1 .. Len(q)
        /\ \A i \in 1 .. Len(p) : p[i] \in Written(p)
        /\ \A i \in 1 .. Len(q) : q[i] \in Written(q)
    OBVIOUS
  <2>2. p \in Seq(S) /\ q \in Seq(S)
    BY <2>1
  <2> QED
    BY <2>1, <2>2
<1>2. r \in Seq(S) /\ Len(r) = Len(p) + Len(q) /\ DOMAIN r = 1 .. Len(p) + Len(q)
      /\ (\A i \in 1 .. Len(p) : r[i] = p[i])
      /\ (\A i \in 1 .. Len(q) : r[Len(p) + i] = q[i])
  <2>1. r \in Seq(S) /\ Len(r) = Len(p) + Len(q) /\ DOMAIN r = 1 .. Len(p) + Len(q)
    BY <1>1
  <2>2. ASSUME NEW i \in 1 .. Len(p) PROVE r[i] = p[i]
    BY <1>1
  <2>3. ASSUME NEW i \in 1 .. Len(q) PROVE r[Len(p) + i] = q[i]
    <3>1. Len(p) + i \in 1 .. Len(p) + Len(q) /\ ~(Len(p) + i <= Len(p)) /\ (Len(p) + i) - Len(p) = i
      BY <1>1
    <3> QED
      BY <1>1, <3>1
  <2> QED
    BY <2>1, <2>2, <2>3
<1> HIDE DEF r
<1>3. Written(r) = S
  <2>1. Written(r) \subseteq S
    <3>1. \A i \in DOMAIN r : r[i] \in S
      BY <1>2
    <3> QED
      BY <3>1 DEF Written
  <2>2. ASSUME NEW w \in Written(p) PROVE w \in Written(r)
    <3>1. PICK i \in 1 .. Len(p) : w = p[i]
      BY <1>1 DEF Written
    <3>2. i \in 1 .. Len(p) + Len(q) /\ r[i] = p[i]
      BY <1>1, <1>2, <3>1
    <3> QED
      BY <1>2, <3>1, <3>2 DEF Written
  <2>3. ASSUME NEW w \in Written(q) PROVE w \in Written(r)
    <3>1. PICK i \in 1 .. Len(q) : w = q[i]
      BY <1>1 DEF Written
    <3>2. Len(p) + i \in 1 .. Len(p) + Len(q) /\ r[Len(p) + i] = q[i]
      BY <1>1, <1>2, <3>1
    <3> QED
      BY <1>2, <3>1, <3>2 DEF Written
  <2> QED
    BY <2>1, <2>2, <2>3
<1> QED
  BY <1>1, <1>2, <1>3 DEF r

\* A list after another: the first may have no write that must be the last.
LEMMA Joined ==
  ASSUME NEW p, NEW q, p \in Seq(Written(p)), \A w \in Written(p) : Writable(w),
         Closing(p) \/ Closes \in Written(q),
         IsList(q), ~Has(p, LastKinds)
  PROVE  IsList(p \o q) /\ Written(p \o q) = Written(p) \cup Written(q)
<1> DEFINE r == p \o q
<1>1. /\ Len(p) \in Nat /\ Len(q) \in Nat /\ DOMAIN p = 1 .. Len(p) /\ DOMAIN q = 1 .. Len(q)
      /\ \A i \in 1 .. Len(p) : p[i] \in Written(p)
  BY DEF IsList
<1>2. /\ r \in Seq(Written(r)) /\ Len(r) = Len(p) + Len(q) /\ DOMAIN r = 1 .. Len(p) + Len(q)
      /\ (\A i \in 1 .. Len(p) : r[i] = p[i])
      /\ (\A i \in 1 .. Len(q) : r[Len(p) + i] = q[i])
      /\ Written(r) = Written(p) \cup Written(q)
  BY ConcatFacts DEF IsList
<1> HIDE DEF r
<1>3. \A w \in Written(r) : Writable(w)
  BY <1>2 DEF IsList
<1>4. Closing(r)
  <2> SUFFICES ASSUME NEW i \in DOMAIN r, r[i] = Opens
               PROVE  \E j \in DOMAIN r : i < j /\ r[j] = Closes
    BY DEF Closing
  <2>1. CASE i <= Len(p)
    <3>1. CASE Closing(p)
      <4>1. i \in DOMAIN p /\ p[i] = Opens
        BY <1>1, <1>2, <2>1
      <4>2. PICK j \in DOMAIN p : i < j /\ p[j] = Closes
        BY <3>1, <4>1 DEF Closing
      <4>3. j \in DOMAIN r /\ r[j] = p[j]
        BY <1>1, <1>2, <4>2
      <4> QED
        BY <4>2, <4>3
    <3>2. CASE Closes \in Written(q)
      <4>1. PICK j \in DOMAIN q : q[j] = Closes
        BY <3>2 DEF Written
      <4>2. Len(p) + j \in DOMAIN r /\ r[Len(p) + j] = q[j] /\ i < Len(p) + j
        BY <1>1, <1>2, <2>1, <4>1
      <4> QED
        BY <4>1, <4>2
    <3> QED
      BY <3>1, <3>2
  <2>2. CASE ~(i <= Len(p))
    <3>1. i \in 1 .. Len(p) + Len(q)
      BY <1>2
    <3>2. PICK k \in 1 .. Len(q) : i = Len(p) + k
      BY <1>1, <2>2, <3>1, PastFirst
    <3>3. k \in DOMAIN q /\ q[k] = Opens
      BY <1>1, <1>2, <3>2
    <3>4. PICK j \in DOMAIN q : k < j /\ q[j] = Closes
      BY <3>3 DEF IsList, Closing
    <3>5. Len(p) + j \in DOMAIN r /\ r[Len(p) + j] = q[j] /\ i < Len(p) + j
      BY <1>1, <1>2, <3>2, <3>4
    <3> QED
      BY <3>4, <3>5
  <2> QED
    BY <2>1, <2>2
<1>5. Lasting(r)
  <2> SUFFICES ASSUME NEW i \in DOMAIN r, r[i].on \in LastKinds
               PROVE  i = Len(r)
    BY DEF Lasting
  <2>1. ~(i <= Len(p))
    <3> SUFFICES ASSUME i <= Len(p) PROVE FALSE
      OBVIOUS
    <3>1. i \in 1 .. Len(p) /\ r[i] = p[i] /\ p[i] \in Written(p)
      BY <1>1, <1>2
    <3> QED
      BY <3>1 DEF Has
  <2>2. i \in 1 .. Len(p) + Len(q)
    BY <1>2
  <2>3. PICK k \in 1 .. Len(q) : i = Len(p) + k
    BY <1>1, <2>1, <2>2, PastFirst
  <2>4. k \in DOMAIN q /\ q[k].on \in LastKinds
    BY <1>1, <1>2, <2>3
  <2>5. k = Len(q)
    BY <2>4 DEF IsList, Lasting
  <2> QED
    BY <1>1, <1>2, <2>3, <2>5
<1> QED
  BY <1>2, <1>3, <1>4, <1>5 DEF IsList, r

LEMMA Concat ==
  ASSUME NEW p, NEW q, IsList(p), IsList(q), ~Has(p, LastKinds)
  PROVE  IsList(p \o q) /\ Written(p \o q) = Written(p) \cup Written(q)
BY Joined DEF IsList

LEMMA FirstDone ==
  ASSUME NEW q, IsList(q), q # <<>>
  PROVE  /\ IsList(Tail(q)) /\ Writable(Head(q))
         /\ Written(q) = Written(Tail(q)) \cup {Head(q)}
         /\ Head(q) = Opens => Closes \in Written(Tail(q))
         /\ Head(q).on \in LastKinds => Tail(q) = <<>>
         /\ Len(q) = 1 <=> Tail(q) = <<>>
<1>1. q \in Seq(Written(q)) /\ Closing(q) /\ Lasting(q)
  BY DEF IsList
<1>2. Len(q) \in Nat /\ Len(q) >= 1 /\ DOMAIN q = 1 .. Len(q) /\ Head(q) = q[1]
  BY <1>1
<1> DEFINE r == Tail(q)
<1>3. r \in Seq(Written(q)) /\ Len(r) = Len(q) - 1 /\ DOMAIN r = 1 .. Len(q) - 1
      /\ \A i \in 1 .. Len(q) - 1 : r[i] = q[i + 1]
  BY <1>1, <1>2
<1>4. Len(q) = 1 <=> r = <<>>
  BY <1>2, <1>3
<1> HIDE DEF r
<1>5. Written(q) = Written(r) \cup {q[1]}
  <2>1. ASSUME NEW w \in Written(q) PROVE w \in Written(r) \cup {q[1]}
    <3>1. PICK i \in 1 .. Len(q) : w = q[i]
      BY <1>2 DEF Written
    <3>2. CASE i # 1
      <4>1. i - 1 \in DOMAIN r /\ r[i - 1] = q[i]
        BY <1>2, <1>3, <3>2
      <4> QED
        BY <3>1, <4>1 DEF Written
    <3> QED
      BY <3>1, <3>2
  <2>2. ASSUME NEW w \in Written(r) PROVE w \in Written(q)
    <3>1. PICK i \in 1 .. Len(q) - 1 : w = r[i]
      BY <1>3 DEF Written
    <3>2. i + 1 \in DOMAIN q /\ r[i] = q[i + 1]
      BY <1>2, <1>3, <3>1
    <3> QED
      BY <3>1, <3>2 DEF Written
  <2>3. q[1] \in Written(q)
    BY <1>2 DEF Written
  <2> QED
    BY <2>1, <2>2, <2>3
<1>6. r \in Seq(Written(r))
  <2>1. \A i \in 1 .. Len(r) : r[i] \in Written(r)
    BY <1>2, <1>3 DEF Written
  <2> QED
    BY <1>3, <2>1
<1>7. Closing(r)
  <2> SUFFICES ASSUME NEW i \in DOMAIN r, r[i] = Opens
               PROVE  \E j \in DOMAIN r : i < j /\ r[j] = Closes
    BY DEF Closing
  <2>1. i + 1 \in DOMAIN q /\ q[i + 1] = Opens /\ i \in Nat
    BY <1>2, <1>3
  <2>2. PICK j \in DOMAIN q : i + 1 < j /\ q[j] = Closes
    BY <1>1, <2>1 DEF Closing
  <2>3. j - 1 \in DOMAIN r /\ r[j - 1] = q[j] /\ i < j - 1
    BY <1>2, <1>3, <2>1, <2>2
  <2> QED
    BY <2>2, <2>3
<1>8. Lasting(r)
  <2> SUFFICES ASSUME NEW i \in DOMAIN r, r[i].on \in LastKinds
               PROVE  i = Len(r)
    BY DEF Lasting
  <2>1. i + 1 \in DOMAIN q /\ q[i + 1].on \in LastKinds /\ i \in Nat
    BY <1>2, <1>3
  <2>2. i + 1 = Len(q)
    BY <1>1, <2>1 DEF Lasting
  <2> QED
    BY <1>2, <1>3, <2>1, <2>2
<1>9. q[1] = Opens => Closes \in Written(r)
  <2> SUFFICES ASSUME q[1] = Opens PROVE Closes \in Written(r)
    OBVIOUS
  <2>1. PICK j \in DOMAIN q : 1 < j /\ q[j] = Closes
    BY <1>1, <1>2 DEF Closing
  <2>2. j - 1 \in DOMAIN r /\ r[j - 1] = q[j]
    BY <1>2, <1>3, <2>1
  <2> QED
    BY <2>1, <2>2 DEF Written
<1>10. q[1].on \in LastKinds => r = <<>>
  BY <1>1, <1>2, <1>4 DEF Lasting
<1>11. IsList(r) /\ Writable(q[1])
  BY <1>5, <1>6, <1>7, <1>8 DEF IsList
<1> QED
  BY <1>2, <1>4, <1>5, <1>9, <1>10, <1>11 DEF r

\* A list that is not closed yet.
Loose(q) == q \in Seq(Written(q)) /\ (\A w \in Written(q) : Writable(w)) /\ ~Has(q, LastKinds)

LEMMA LooseConcat ==
  ASSUME NEW p, NEW q, Loose(p), Loose(q)
  PROVE  Loose(p \o q) /\ Written(p \o q) = Written(p) \cup Written(q)
BY ConcatFacts DEF Loose, Has

---------------------------------------------------------------------------
(* What one write does to the records.                                     *)

LEMMA StoreGives ==
  ASSUME KeptTyped, NEW t \in Tasks, NEW w, Writable(w), w.on # "token", Store(t, w)
  PROVE  /\ KeptTyped'
         /\ \A x \in Tasks :
              /\ kept'.row[x]     = IF x = t /\ w.on = "row"     THEN w.val ELSE kept.row[x]
              /\ kept'.copy[x]    = IF x = t /\ w.on = "copy"    THEN w.val ELSE kept.copy[x]
              /\ kept'.apr[x]     = IF x = t /\ w.on = "apr"     THEN w.val ELSE kept.apr[x]
              /\ kept'.aprCopy[x] = IF x = t /\ w.on = "aprCopy" THEN w.val ELSE kept.aprCopy[x]
              /\ kept'.open[x]    = IF x = t /\ w.on = "open"    THEN w.val ELSE kept.open[x]
              /\ kept'.state[x]   = IF x = t /\ w.on = "state"   THEN w.val ELSE kept.state[x]
              /\ kept'.report[x]  = IF x = t /\ w.on = "report"  THEN w.val ELSE kept.report[x]
              /\ kept'.trace[x]   = IF x = t /\ w.on = "trace"   THEN w.val ELSE kept.trace[x]
              /\ kept'.told[x]    = IF x = t /\ w.on = "told"    THEN w.val ELSE kept.told[x]
              /\ kept'.answer[x]  = IF x = t /\ w.on = "answer"  THEN w.val ELSE kept.answer[x]
              /\ kept'.worked[x]  = IF x = t /\ w.on = "worked"  THEN w.val ELSE kept.worked[x]
<1> DEFINE Shape(k) ==
      k = [row |-> k.row, copy |-> k.copy, state |-> k.state, report |-> k.report,
           trace |-> k.trace, apr |-> k.apr, aprCopy |-> k.aprCopy, open |-> k.open,
           told |-> k.told, answer |-> k.answer, worked |-> k.worked]
      New(on, f) == IF w.on = on THEN [f EXCEPT ![t] = w.val] ELSE f
<1>1. Shape(kept) /\ kept' = [kept EXCEPT ![w.on][t] = w.val] /\ w.on \in Kinds
  BY DEF KeptTyped, Store, Writable
<1>2. Shape(kept')
  BY <1>1 DEF Kinds, RecKinds, FlagKinds, AprKinds
<1>3. /\ kept'.row = New("row", kept.row) /\ kept'.copy = New("copy", kept.copy)
      /\ kept'.state = New("state", kept.state) /\ kept'.report = New("report", kept.report)
      /\ kept'.trace = New("trace", kept.trace) /\ kept'.apr = New("apr", kept.apr)
  BY <1>1 DEF Kinds, RecKinds, FlagKinds, AprKinds
<1>4. /\ kept'.aprCopy = New("aprCopy", kept.aprCopy) /\ kept'.open = New("open", kept.open)
      /\ kept'.told = New("told", kept.told) /\ kept'.answer = New("answer", kept.answer)
      /\ kept'.worked = New("worked", kept.worked)
  BY <1>1 DEF Kinds, RecKinds, FlagKinds, AprKinds
<1>5. {kept'.row, kept'.copy, kept'.state, kept'.report} \subseteq [Tasks -> Recs \cup {NoTask}]
  BY <1>3 DEF KeptTyped, Writable, RecKinds
<1>6. {kept'.apr, kept'.aprCopy} \subseteq [Tasks -> AprStates]
  BY <1>3, <1>4 DEF KeptTyped, Writable, AprKinds
<1>7. {kept'.trace, kept'.open, kept'.worked} \subseteq [Tasks -> BOOLEAN]
  BY <1>3, <1>4 DEF KeptTyped, Writable, FlagKinds
<1>8. kept'.told \in [Tasks -> EndStates \cup {"nothing"}] /\ kept'.answer \in [Tasks -> {"none", "approved", "rejected"}]
  BY <1>4 DEF KeptTyped, Writable
<1>9. KeptTyped'
  BY <1>2, <1>5, <1>6, <1>7, <1>8 DEF KeptTyped
<1>10. /\ {kept.row, kept.copy, kept.state, kept.report} \subseteq [Tasks -> Recs \cup {NoTask}]
       /\ {kept.apr, kept.aprCopy} \subseteq [Tasks -> AprStates]
       /\ {kept.trace, kept.open, kept.worked} \subseteq [Tasks -> BOOLEAN]
       /\ kept.told \in [Tasks -> EndStates \cup {"nothing"}]
       /\ kept.answer \in [Tasks -> {"none", "approved", "rejected"}]
  BY DEF KeptTyped
<1> HIDE DEF Shape
<1> QED
  BY <1>3, <1>4, <1>9, <1>10

---------------------------------------------------------------------------
(* The lists that the threads write.                                       *)

LEMMA Fields ==
  ASSUME NEW on, NEW val
  PROVE  Write(on, val).on = on /\ Write(on, val).val = val
BY DEF Write

LEMMA JournalWrites ==
  /\ Writable(Opens) /\ Writable(Closes) /\ Opens # Closes
  /\ Opens.on = "open" /\ Closes.on = "open" /\ Opens.val = TRUE /\ Closes.val = FALSE
BY DEF Opens, Closes, Write, Writable, Kinds, RecKinds, FlagKinds, AprKinds

LEMMA RecWritable ==
  ASSUME NEW on \in RecKinds, NEW rec \in Recs
  PROVE  Writable(Write(on, rec)) /\ Write(on, rec) # Opens
BY DEF Opens, Write, Writable, Kinds, RecKinds, FlagKinds, AprKinds

LEMMA AprWritable ==
  ASSUME NEW on \in AprKinds, NEW s \in AprStates
  PROVE  Writable(Write(on, s)) /\ Write(on, s) # Opens
BY DEF Opens, Write, Writable, Kinds, RecKinds, FlagKinds, AprKinds

LEMMA OtherWritable ==
  /\ Writable(Write("trace", TRUE)) /\ Write("trace", TRUE) # Opens
  /\ Writable(Write("worked", TRUE)) /\ Write("worked", TRUE) # Opens
  /\ Writable(Write("token", TRUE)) /\ Write("token", TRUE) # Opens
  /\ \A s \in EndStates : Writable(Write("told", s)) /\ Write("told", s) # Opens
  /\ \A d \in {"approved", "rejected"} : Writable(Write("answer", d)) /\ Write("answer", d) # Opens
BY DEF Opens, Write, Writable, Kinds, RecKinds, FlagKinds, AprKinds

LEMMA RecsAre ==
  ASSUME NEW s \in Statuses, NEW r \in Reasons, NEW a \in Answers
  PROVE  Rec(s, r, a) \in Recs /\ Rec(s, r, a).status = s /\ Rec(s, r, a).reason = r /\ Rec(s, r, a).answer = a
BY DEF Rec, Recs

Waiting   == Rec("waiting", "", "")
Running   == Rec("running", "", "")
Queued    == Rec("queued", "", "")
Asked     == Rec("cancel_requested", "", "")
Completed == Rec("completed", "final_answer_returned", "text")
Cancelled == Rec("cancelled", "user_cancelled", "")

LEMMA RecordsAre ==
  /\ {Waiting, Running, Queued, Asked, Completed, Cancelled, Interrupted} \subseteq Recs
  /\ Completed.status = "completed" /\ Cancelled.status = "cancelled" /\ Interrupted.status = "interrupted"
<1>1. {"waiting", "running", "queued", "cancel_requested", "completed", "cancelled", "interrupted"} \subseteq Statuses
  BY DEF Statuses
<1>2. {"", "final_answer_returned", "user_cancelled", "service_restarted"} \subseteq Reasons /\ {"", "text"} \subseteq Answers
  BY DEF Reasons, Answers
<1>3. /\ Waiting \in Recs /\ Running \in Recs /\ Queued \in Recs /\ Asked \in Recs
  BY <1>1, <1>2, RecsAre DEF Waiting, Running, Queued, Asked
<1>4. Completed \in Recs /\ Completed.status = "completed"
  BY <1>1, <1>2 DEF Completed, Rec, Recs
<1>5. Cancelled \in Recs /\ Cancelled.status = "cancelled"
  BY <1>1, <1>2 DEF Cancelled, Rec, Recs
<1>6. Interrupted \in Recs /\ Interrupted.status = "interrupted"
  BY <1>1, <1>2 DEF Interrupted, Rec, Recs
<1> QED
  BY <1>3, <1>4, <1>5, <1>6

LEMMA StatesAre ==
  /\ {"pending", "expired", "cancelled", "approved", "rejected", "none"} \subseteq AprStates
  /\ {"completed", "cancelled", "failed", "blocked", "interrupted"} \subseteq EndStates
BY DEF AprStates, EndStates, Statuses, Active

LEMMA RowList ==
  ASSUME NEW rec \in Recs
  PROVE  IsList(RowWrites(rec)) /\ Written(RowWrites(rec)) = {Write("row", rec), Write("copy", rec)}
<1>1. /\ Writable(Write("row", rec)) /\ Write("row", rec) # Opens
      /\ Writable(Write("copy", rec)) /\ Write("copy", rec) # Opens
  BY RecWritable DEF RecKinds
<1>2. Write("row", rec).on \notin LastKinds
  BY Fields DEF LastKinds
<1> QED
  BY <1>1, <1>2, TwoWrites DEF RowWrites

LEMMA AprList ==
  ASSUME NEW s \in AprStates
  PROVE  IsList(AprWrites(s)) /\ Written(AprWrites(s)) = {Write("apr", s), Write("aprCopy", s)}
<1>1. /\ Writable(Write("apr", s)) /\ Write("apr", s) # Opens
      /\ Writable(Write("aprCopy", s)) /\ Write("aprCopy", s) # Opens
  BY AprWritable DEF AprKinds
<1>2. Write("apr", s).on \notin LastKinds
  BY Fields DEF LastKinds
<1> QED
  BY <1>1, <1>2, TwoWrites DEF AprWrites

LEMMA ArtifactList ==
  ASSUME NEW rec \in Recs
  PROVE  /\ IsList(ArtifactWrites(rec))
         /\ \A w \in Written(ArtifactWrites(rec)) : w.on \in {"state", "trace", "report"}
<1> DEFINE s == Rec(ArtifactStatus(rec.status), rec.reason, rec.answer)
<1>1. s \in Recs
  BY RecsAre DEF Recs, ArtifactStatus, Statuses
<1> HIDE DEF s
<1>2. /\ Writable(Write("state", s)) /\ Write("state", s) # Opens
      /\ Writable(Write("report", s)) /\ Write("report", s) # Opens
  BY <1>1, RecWritable DEF RecKinds
<1>3. Write("state", s).on = "state" /\ Write("trace", TRUE).on = "trace" /\ Write("report", s).on = "report"
  BY Fields
<1>4. Opens \notin {Write("state", s), Write("trace", TRUE), Write("report", s)}
  BY <1>2, OtherWritable
<1>5. {Write("state", s).on, Write("trace", TRUE).on} \cap LastKinds = {}
  BY <1>3 DEF LastKinds
<1>6. IsList(<<Write("state", s), Write("trace", TRUE), Write("report", s)>>)
      /\ Written(<<Write("state", s), Write("trace", TRUE), Write("report", s)>>)
           = {Write("state", s), Write("trace", TRUE), Write("report", s)}
  BY <1>2, <1>4, <1>5, OtherWritable, ThreeWrites
<1>7. ArtifactWrites(rec) = <<Write("state", s), Write("trace", TRUE), Write("report", s)>>
  BY DEF ArtifactWrites, s
<1> QED
  BY <1>3, <1>6, <1>7

LEMMA JournalLists ==
  /\ IsList(Committed) /\ Written(Committed) = {Closes}
  /\ Loose(Begun) /\ Written(Begun) = {Opens}
<1>1. Committed = <<Closes>> /\ Begun = <<Opens>>
  BY DEF Committed, Begun, Opens, Closes
<1>2. IsList(Committed) /\ Written(Committed) = {Closes}
  BY <1>1, JournalWrites, OneWrite
<1>3. Begun \in Seq({Opens}) /\ Written(Begun) = {Opens}
  <2>1. DOMAIN <<Opens>> = {1} /\ <<Opens>>[1] = Opens /\ <<Opens>> \in Seq({Opens})
    OBVIOUS
  <2> QED
    BY <1>1, <2>1 DEF Written
<1>4. Loose(Begun)
  BY <1>3, JournalWrites DEF Loose, Has, LastKinds
<1> QED
  BY <1>2, <1>3, <1>4

\* What a list in the gate is made of: an Approval's records, a Task's, the journal's.
LEMMA RowsAreLoose ==
  ASSUME NEW rec \in Recs
  PROVE  Loose(RowWrites(rec)) /\ ~Has(RowWrites(rec), LastKinds)
<1>1. ~Has(RowWrites(rec), LastKinds)
  BY RowList, Fields DEF Has, LastKinds
<1> QED
  BY <1>1, RowList DEF Loose, IsList

LEMMA LooseParts ==
  ASSUME NEW rec \in Recs, NEW s \in AprStates
  PROVE  Loose(RowWrites(rec)) /\ Loose(AprWrites(s))
<1>1. ~Has(RowWrites(rec), LastKinds) /\ ~Has(AprWrites(s), LastKinds)
  BY RowList, AprList, Fields DEF Has, LastKinds
<1> QED
  BY <1>1, RowList, AprList DEF Loose, IsList

LEMMA AskList ==
  LET q == Begun \o AprWrites("pending") \o RowWrites(Waiting) \o Committed
  IN  /\ IsList(q)
      /\ Written(q) = {Opens, Closes, Write("apr", "pending"), Write("aprCopy", "pending"),
                       Write("row", Waiting), Write("copy", Waiting)}
<1> DEFINE a == Begun \o AprWrites("pending")
           b == a \o RowWrites(Waiting)
<1>1. Waiting \in Recs /\ "pending" \in AprStates
  BY RecordsAre, StatesAre
<1>2. Loose(a) /\ Written(a) = Written(Begun) \cup Written(AprWrites("pending"))
  BY <1>1, JournalLists, LooseParts, LooseConcat
<1> HIDE DEF a
<1>3. Loose(b) /\ Written(b) = Written(a) \cup Written(RowWrites(Waiting))
  BY <1>1, <1>2, LooseParts, LooseConcat
<1> HIDE DEF b
<1>4. IsList(b \o Committed) /\ Written(b \o Committed) = Written(b) \cup Written(Committed)
  BY <1>3, JournalLists, Joined DEF Loose
<1>5. Written(b \o Committed) = {Opens, Closes, Write("apr", "pending"), Write("aprCopy", "pending"),
                                 Write("row", Waiting), Write("copy", Waiting)}
  BY <1>1, <1>2, <1>3, <1>4, JournalLists, RowList, AprList
<1> QED
  BY <1>4, <1>5 DEF a, b

LEMMA ResolveList ==
  ASSUME NEW d \in AprStates
  PROVE  /\ IsList(ResolveWrites(d)) /\ ~Has(ResolveWrites(d), LastKinds)
         /\ Written(ResolveWrites(d)) = {Opens, Closes, Write("apr", d), Write("aprCopy", d),
                                         Write("row", Running), Write("copy", Running)}
<1> DEFINE a == Begun \o RowWrites(Running)
           b == a \o AprWrites(d)
<1>1. Running \in Recs
  BY RecordsAre
<1>2. Loose(a) /\ Written(a) = Written(Begun) \cup Written(RowWrites(Running))
  BY <1>1, JournalLists, LooseParts, LooseConcat
<1> HIDE DEF a
<1>3. Loose(b) /\ Written(b) = Written(a) \cup Written(AprWrites(d))
  BY <1>1, <1>2, LooseParts, LooseConcat
<1> HIDE DEF b
<1>4. IsList(b \o Committed) /\ Written(b \o Committed) = Written(b) \cup Written(Committed)
  BY <1>3, JournalLists, Joined DEF Loose
<1>5. Written(b \o Committed) = {Opens, Closes, Write("apr", d), Write("aprCopy", d),
                                 Write("row", Running), Write("copy", Running)}
  BY <1>1, <1>2, <1>3, <1>4, JournalLists, RowList, AprList
<1>6. ResolveWrites(d) = b \o Committed
  BY DEF ResolveWrites, Running, a, b
<1>7. ~Has(b \o Committed, LastKinds)
  BY <1>5, JournalWrites, Fields DEF Has, LastKinds
<1> QED
  BY <1>4, <1>5, <1>6, <1>7

LEMMA DecideList ==
  ASSUME NEW d \in {"approved", "rejected"}
  PROVE  LET q == ResolveWrites(d) \o <<Write("answer", d)>>
         IN  /\ IsList(q)
             /\ Written(q) = {Opens, Closes, Write("apr", d), Write("aprCopy", d), Write("row", Running),
                              Write("copy", Running), Write("answer", d)}
<1>1. IsList(<<Write("answer", d)>>) /\ Written(<<Write("answer", d)>>) = {Write("answer", d)}
  BY OtherWritable, OneWrite
<1>2. d \in AprStates
  BY DEF AprStates
<1>3. IsList(ResolveWrites(d) \o <<Write("answer", d)>>)
      /\ Written(ResolveWrites(d) \o <<Write("answer", d)>>) = Written(ResolveWrites(d)) \cup {Write("answer", d)}
  BY <1>1, <1>2, ResolveList, Concat
<1> QED
  BY <1>2, <1>3, ResolveList

LEMMA CancelList ==
  ASSUME NEW x \in {<<>>, AprWrites("cancelled")}
  PROVE  LET q == RowWrites(Asked) \o <<Write("token", TRUE)>> \o x
         IN  /\ IsList(q)
             /\ Written(q) = {Write("row", Asked),
                              Write("copy", Asked), Write("token", TRUE)} \cup Written(x)
<1> DEFINE a == RowWrites(Asked) \o <<Write("token", TRUE)>>
<1>1. Asked \in Recs /\ "cancelled" \in AprStates
  BY RecordsAre, StatesAre
<1>2. IsList(<<Write("token", TRUE)>>) /\ Written(<<Write("token", TRUE)>>) = {Write("token", TRUE)}
  BY OtherWritable, OneWrite
<1>3. IsList(a) /\ Written(a) = {Write("row", Asked), Write("copy", Asked), Write("token", TRUE)}
  <2>1. IsList(RowWrites(Asked)) /\ Written(RowWrites(Asked)) = {Write("row", Asked), Write("copy", Asked)}
        /\ ~Has(RowWrites(Asked), LastKinds)
    BY <1>1, RowsAreLoose, RowList
  <2>2. IsList(a) /\ Written(a) = Written(RowWrites(Asked)) \cup Written(<<Write("token", TRUE)>>)
    BY <1>2, <2>1, Concat
  <2> QED
    BY <1>2, <2>1, <2>2
<1> HIDE DEF a
<1>4. ~Has(a, LastKinds)
  <2>1. Write("row", Asked).on = "row" /\ Write("copy", Asked).on = "copy" /\ Write("token", TRUE).on = "token"
    BY Fields
  <2>2. \A w \in Written(a) : w.on \in {"row", "copy", "token"}
    BY <1>3, <2>1
  <2> QED
    BY <2>2 DEF Has, LastKinds
<1>5. IsList(x)
  BY <1>1, NoWrites, AprList
<1>6. IsList(a \o x) /\ Written(a \o x) = Written(a) \cup Written(x)
  BY <1>3, <1>4, <1>5, Concat
<1> QED
  BY <1>3, <1>6 DEF a

\* The end's list: artifacts unless they match, the row, the copy, the event.
LEMMA EndList ==
  ASSUME NEW rec \in Recs, rec.status \in EndStates
  PROVE  /\ IsList(EndWrites(rec))
         /\ {Write("row", rec), Write("copy", rec), Write("told", rec.status)} \subseteq Written(EndWrites(rec))
         /\ \A w \in Written(EndWrites(rec)) :
              \/ w.on \in {"state", "trace", "report"}
              \/ w \in {Write("row", rec), Write("copy", rec), Write("told", rec.status)}
<1> DEFINE a == IF Matches(run.task, rec) THEN <<>> ELSE ArtifactWrites(rec)
           b == a \o RowWrites(rec)
           c == <<Write("told", rec.status)>>
<1>1. IsList(a) /\ \A w \in Written(a) : w.on \in {"state", "trace", "report"}
  BY NoWrites, ArtifactList
<1>2. ~Has(a, LastKinds)
  BY <1>1 DEF Has, LastKinds
<1> HIDE DEF a
<1>3. IsList(b) /\ Written(b) = Written(a) \cup {Write("row", rec), Write("copy", rec)}
  BY <1>1, <1>2, RowList, Concat
<1>4. ~Has(b, LastKinds)
  BY <1>1, <1>3, Fields DEF Has, LastKinds
<1> HIDE DEF b
<1>5. IsList(c) /\ Written(c) = {Write("told", rec.status)}
  BY OtherWritable, OneWrite
<1> HIDE DEF c
<1>6. IsList(b \o c) /\ Written(b \o c) = Written(b) \cup Written(c)
  BY <1>3, <1>4, <1>5, Concat
<1>7. EndWrites(rec) = b \o c
  BY DEF EndWrites, a, b, c
<1> QED
  BY <1>1, <1>3, <1>5, <1>6, <1>7

LEMMA RemoteLists ==
  LET q == RowWrites(Queued) \o RowWrites(Running)
      e == RowWrites(Completed) \o <<Write("told", "completed")>>
  IN  /\ IsList(q) /\ \A w \in Written(q) : w.on \in {"row", "copy"}
      /\ IsList(e) /\ Written(e) = {Write("row", Completed), Write("copy", Completed), Write("told", "completed")}
<1>1. Queued \in Recs /\ Running \in Recs /\ Completed \in Recs /\ "completed" \in EndStates /\ "none" \in AprStates
  BY RecordsAre, StatesAre
<1>2. Loose(RowWrites(Queued)) /\ Loose(RowWrites(Completed))
  BY <1>1, LooseParts
<1>3. IsList(RowWrites(Queued) \o RowWrites(Running))
      /\ \A w \in Written(RowWrites(Queued) \o RowWrites(Running)) : w.on \in {"row", "copy"}
  BY <1>1, <1>2, RowList, Concat, Fields DEF Loose
<1>4. IsList(<<Write("told", "completed")>>) /\ Written(<<Write("told", "completed")>>) = {Write("told", "completed")}
  BY <1>1, OtherWritable, OneWrite
<1>5. IsList(RowWrites(Completed) \o <<Write("told", "completed")>>)
      /\ Written(RowWrites(Completed) \o <<Write("told", "completed")>>)
           = {Write("row", Completed), Write("copy", Completed), Write("told", "completed")}
  BY <1>1, <1>2, <1>4, RowList, Concat DEF Loose
<1> QED
  BY <1>3, <1>5

---------------------------------------------------------------------------
(* One write less to do.                                                   *)

\* What is left to settle when the first write of q has been done.
LEMMA SettlesOn ==
  ASSUME NEW q, IsList(q), q # <<>>, NEW d, NEW a, NEW b, NEW open \in BOOLEAN, Settles(q, d, a, b, open)
  PROVE  LET w == Head(q)
         IN  Settles(Tail(q), d, IF w.on = "apr" THEN w.val ELSE a, IF w.on = "aprCopy" THEN w.val ELSE b,
                     IF w.on = "open" THEN w.val ELSE open)
<1> DEFINE w == Head(q)
           r == Tail(q)
<1>1. /\ Writable(w) /\ Written(q) = Written(r) \cup {w}
      /\ w = Opens => Closes \in Written(r)
  BY FirstDone
<1> HIDE DEF w, r
<1>2. /\ w = Write(w.on, w.val)
      /\ w.on = "open" => w.val \in BOOLEAN /\ (w.val => w = Opens) /\ (~w.val => w = Closes)
  BY <1>1 DEF Writable, Opens, Closes, FlagKinds
<1>3. Closes.on = "open" /\ Closes.val = FALSE
  BY JournalWrites
<1>4. Write("apr", d).on = "apr" /\ Write("aprCopy", d).on = "aprCopy"
  BY Fields
<1>5. \A x \in Written(r) : x.on \in AprKinds \cup {"answer"} => x.val = d
  BY <1>1 DEF Settles
<1>6. w.on = "apr" \/ w.on = "aprCopy" => w.val = d
  BY <1>1 DEF Settles, AprKinds
<1>7. Write("apr", d) \notin Written(r) => (IF w.on = "apr" THEN w.val ELSE a) = d
  BY <1>1, <1>4, <1>6 DEF Settles
<1>8. Write("aprCopy", d) \notin Written(r) => (IF w.on = "aprCopy" THEN w.val ELSE b) = d
  BY <1>1, <1>4, <1>6 DEF Settles
<1>9. Closes \notin Written(r) => ~(IF w.on = "open" THEN w.val ELSE open)
  BY <1>1, <1>2, <1>3 DEF Settles
<1> QED
  BY <1>5, <1>7, <1>8, <1>9 DEF Settles, w, r

\* What is left to write of an end when the first write of q has been done.
LEMMA LeavesOn ==
  ASSUME NEW q, IsList(q), q # <<>>, NEW s, NEW row, NEW copy, Leaves(q, s, row, copy)
  PROVE  LET w == Head(q)
         IN  Leaves(Tail(q), s, IF w.on = "row" THEN w.val ELSE row, IF w.on = "copy" THEN w.val ELSE copy)
<1> DEFINE w == Head(q)
           r == Tail(q)
<1>1. Writable(w) /\ Written(q) = Written(r) \cup {w}
  BY FirstDone
<1> HIDE DEF w, r
<1>2. w.on = "row" \/ w.on = "copy" => w.val # NoTask /\ w.val.status = s
  BY <1>1, NoRecord DEF Leaves, Writable, RecKinds
<1>3. /\ ~Has(r, {"row"}) /\ w.on # "row" => ~Has(q, {"row"})
      /\ ~Has(r, {"copy"}) /\ w.on # "copy" => ~Has(q, {"copy"})
  BY <1>1 DEF Has
<1> QED
  BY <1>1, <1>2, <1>3 DEF Leaves, w, r

\* The kinds of write a list has, when its first is done.
LEMMA HasOn ==
  ASSUME NEW q, IsList(q), q # <<>>, NEW kinds
  PROVE  Has(q, kinds) <=> (Head(q).on \in kinds \/ Has(Tail(q), kinds))
BY FirstDone DEF Has

LEMMA HasNone == \A kinds : ~Has(<<>>, kinds)
BY NoWrites DEF Has

\* Nothing of these kinds is left: the Approval is settled.
LEMMA Settled ==
  ASSUME NEW q, NEW d, NEW a, NEW b, NEW open, Settles(q, d, a, b, open), ~Has(q, GateKinds)
  PROVE  a = d /\ b = d /\ ~open
<1>1. Write("apr", d).on = "apr" /\ Write("aprCopy", d).on = "aprCopy" /\ Closes.on = "open"
  BY Fields, JournalWrites
<1> QED
  BY <1>1 DEF Settles, Has, GateKinds

\* A list of more kinds.
LEMMA HasMore ==
  ASSUME NEW q, NEW kinds, NEW more, kinds \subseteq more, Has(q, kinds)
  PROVE  Has(q, more)
BY DEF Has

---------------------------------------------------------------------------
(* A write of the run's thread.                                            *)

LEMMA RunWritesKeeps ==
  ASSUME RecoveryInv, RunWrites
  PROVE  RecoveryInv'
<1> DEFINE t == run.task
           w == Head(run.todo)
           r == Tail(run.todo)
<1>1. /\ up = "up" /\ run.todo # <<>> /\ Store(t, w) /\ run' = [run EXCEPT !.todo = r]
      /\ run.gated \/ ~ApiHolds
      /\ up' = up /\ boot' = boot /\ api' = api
  BY DEF RunWrites
<1>2. /\ KeptTyped /\ RunTyped /\ ApiTyped /\ BootTyped /\ UpTyped
      /\ RunSettles /\ ApiSettles /\ RunAgrees /\ WorkIsApproved /\ NewTasksAreClean /\ RemoteAsksNothing
      /\ DecisionsAreFirm /\ RunEnds /\ ApiEnds /\ EndsAreFirm
  BY DEF RecoveryInv, RecoveryTyped
<1>3. /\ t \in Tasks \ Remote /\ t # NoTask /\ run.at # "idle" /\ boot.todo = <<>>
      /\ IsList(run.todo) /\ ~Has(run.todo, {"answer", "token"})
  BY <1>1, <1>2, RunRecoveryAssumption DEF RunTyped, UpTyped
<1>4. /\ run'.task = t /\ run'.at = run.at /\ run'.todo = r /\ run'.gated = run.gated
      /\ run'.cancelled = run.cancelled /\ run'.mem = run.mem
      /\ RunTyped => run' = [task |-> run'.task, at |-> run'.at, todo |-> run'.todo, gated |-> run'.gated,
                             cancelled |-> run'.cancelled, mem |-> run'.mem]
  BY <1>1, <1>2 DEF RunTyped
<1>5. /\ IsList(r) /\ Writable(w) /\ Written(run.todo) = Written(r) \cup {w}
      /\ w.on \in LastKinds => r = <<>>
  BY <1>1, <1>3, FirstDone
<1>6. \A kinds : Has(run.todo, kinds) <=> (w.on \in kinds \/ Has(r, kinds))
  BY <1>1, <1>3, HasOn
<1>7. w.on \notin {"answer", "token"}
  BY <1>3, <1>6
<1>8. /\ KeptTyped'
      /\ \A x \in Tasks :
           /\ kept'.row[x]     = IF x = t /\ w.on = "row"     THEN w.val ELSE kept.row[x]
           /\ kept'.copy[x]    = IF x = t /\ w.on = "copy"    THEN w.val ELSE kept.copy[x]
           /\ kept'.apr[x]     = IF x = t /\ w.on = "apr"     THEN w.val ELSE kept.apr[x]
           /\ kept'.aprCopy[x] = IF x = t /\ w.on = "aprCopy" THEN w.val ELSE kept.aprCopy[x]
           /\ kept'.open[x]    = IF x = t /\ w.on = "open"    THEN w.val ELSE kept.open[x]
           /\ kept'.told[x]    = IF x = t /\ w.on = "told"    THEN w.val ELSE kept.told[x]
           /\ kept'.answer[x]  = IF x = t /\ w.on = "answer"  THEN w.val ELSE kept.answer[x]
           /\ kept'.worked[x]  = IF x = t /\ w.on = "worked"  THEN w.val ELSE kept.worked[x]
  BY <1>1, <1>2, <1>3, <1>5, <1>7, StoreGives
<1>9. kept.open[t] \in BOOLEAN /\ \A kinds : ~Has(<<>>, kinds)
  BY <1>2, <1>3, HasNone DEF KeptTyped
<1> HIDE DEF t, w, r
<1>10. \A x \in Tasks \ {t} :
         /\ kept'.row[x] = kept.row[x] /\ kept'.copy[x] = kept.copy[x] /\ kept'.told[x] = kept.told[x]
         /\ kept'.apr[x] = kept.apr[x] /\ kept'.aprCopy[x] = kept.aprCopy[x] /\ kept'.open[x] = kept.open[x]
         /\ kept'.answer[x] = kept.answer[x] /\ kept'.worked[x] = kept.worked[x]
  BY <1>8
<1>11. w.on \notin GateKinds =>
         kept'.apr[t] = kept.apr[t] /\ kept'.aprCopy[t] = kept.aprCopy[t] /\ kept'.open[t] = kept.open[t]
  BY <1>3, <1>8 DEF GateKinds
<1>12. \A d \in AprStates : Settling(t, run.todo, d) =>
         /\ Settles(r, d, kept'.apr[t], kept'.aprCopy[t], kept'.open[t])
         /\ ~Has(r, GateKinds) => kept'.apr[t] = kept'.aprCopy[t] /\ ~kept'.open[t]
  <2> SUFFICES ASSUME NEW d \in AprStates, Settles(run.todo, d, kept.apr[t], kept.aprCopy[t], kept.open[t])
               PROVE  /\ Settles(r, d, kept'.apr[t], kept'.aprCopy[t], kept'.open[t])
                      /\ ~Has(r, GateKinds) => kept'.apr[t] = kept'.aprCopy[t] /\ ~kept'.open[t]
    BY DEF Settling
  <2>1. Settles(r, d, IF w.on = "apr" THEN w.val ELSE kept.apr[t], IF w.on = "aprCopy" THEN w.val ELSE kept.aprCopy[t],
                IF w.on = "open" THEN w.val ELSE kept.open[t])
    BY <1>1, <1>3, <1>9, SettlesOn DEF w, r
  <2>2. Settles(r, d, kept'.apr[t], kept'.aprCopy[t], kept'.open[t])
    BY <1>3, <1>8, <2>1
  <2> QED
    BY <2>2, Settled
<1>13. RecoveryTyped'
  <2>1. RunTyped'
    BY <1>2, <1>3, <1>4, <1>5, <1>6 DEF RunTyped
  <2> QED
    BY <1>1, <1>2, <1>8, <2>1 DEF RecoveryTyped, ApiTyped, BootTyped, UpTyped
<1>14. RunSettles'
  <2> SUFFICES ASSUME Has(r, GateKinds) PROVE RunSettles'
    BY <1>4 DEF RunSettles
  <2>1. /\ run.gated /\ run.at \in {"wait", "work"} /\ api.task # run.task
        /\ ~Has(run.todo, {"worked"})
    BY <1>2, <1>6 DEF RunSettles
  <2>2. PICK d \in AprStates : Settling(t, run.todo, d)
    BY <1>2, <1>6 DEF RunSettles, t
  <2>3. Settles(r, d, kept'.apr[t], kept'.aprCopy[t], kept'.open[t])
    BY <1>12, <2>2
  <2> QED
    BY <1>1, <1>4, <1>6, <2>1, <2>3 DEF RunSettles, Settling
<1>15. ApiSettles'
  <2> SUFFICES ASSUME Has(api.todo, GateKinds \cup {"answer"}) PROVE ApiSettles'
    BY <1>1 DEF ApiSettles
  <2>1. api.task = run.task => ~Has(run.todo, GateKinds \cup {"worked"})
    BY <1>2 DEF ApiSettles
  <2>2. PICK d \in AprStates : Settling(api.task, api.todo, d)
    BY <1>2 DEF ApiSettles
  <2>3. api.task \in Tasks
    BY <1>2, HasNone DEF ApiTyped
  <2>4. kept'.apr[api.task] = kept.apr[api.task] /\ kept'.aprCopy[api.task] = kept.aprCopy[api.task]
        /\ kept'.open[api.task] = kept.open[api.task]
    <3>1. CASE api.task = t
      BY <1>6, <1>11, <2>1, <3>1 DEF t, GateKinds
    <3> QED
      BY <1>10, <2>3, <3>1
  <2>5. Settling(api.task, api.todo, d)'
    BY <1>1, <2>2, <2>4 DEF Settling
  <2> QED
    BY <1>1, <1>4, <1>6, <2>1, <2>5 DEF ApiSettles
<1>16. RunAgrees'
  <2> SUFFICES ASSUME ~Has(r, GateKinds), api.task = t => ~Has(api.todo, GateKinds)
               PROVE  kept'.apr[t] = kept'.aprCopy[t] /\ ~kept'.open[t]
    BY <1>1, <1>4 DEF RunAgrees, Agree
  <2>1. CASE w.on \in GateKinds
    BY <1>2, <1>6, <1>12, <2>1 DEF RunSettles, t
  <2>2. CASE w.on \notin GateKinds
    BY <1>2, <1>3, <1>6, <1>11, <2>2 DEF RunAgrees, Agree, t
  <2> QED
    BY <2>1, <2>2
<1>17. WorkIsApproved'
  <2> SUFFICES ASSUME Has(r, {"worked"}) PROVE WorkIsApproved'
    BY <1>4 DEF WorkIsApproved
  <2>1. Has(run.todo, {"worked"}) /\ w.on \notin GateKinds
    BY <1>2, <1>6 DEF RunSettles
  <2> QED
    BY <1>1, <1>2, <1>4, <1>11, <2>1 DEF WorkIsApproved, Agree, t
<1>18. NewTasksAreClean'
  <2> SUFFICES ASSUME NEW x \in Tasks, kept'.row[x] = NoTask
               PROVE  /\ kept'.apr[x] = "none" /\ kept'.apr[x] = kept'.aprCopy[x] /\ ~kept'.open[x]
                      /\ kept'.answer[x] = "none" /\ ~kept'.worked[x]
                      /\ run.task = x => run.at = "queued" /\ RowComesFirst(r)
                      /\ api.task = x => x \in Remote
                      /\ boot.task = x => ~Has(boot.todo, GateKinds)
    BY <1>1, <1>4 DEF NewTasksAreClean, Agree
  <2>1. x # t
    <3> SUFFICES ASSUME x = t PROVE FALSE
      OBVIOUS
    <3>1. w.on # "row" => w.on = "row"
      BY <1>2, <1>3, <1>8 DEF NewTasksAreClean, RowComesFirst, t, w
    <3> QED
      BY <1>3, <1>5, <1>8, <3>1, NoRecord DEF Writable, RecKinds
  <2> QED
    BY <1>2, <1>10, <2>1 DEF NewTasksAreClean, Agree, t
<1>19. RemoteAsksNothing'
  BY <1>1, <1>2 DEF RemoteAsksNothing
<1>20. DecisionsAreFirm'
  <2> SUFFICES ASSUME NEW x \in Tasks, kept'.answer[x] # "none" \/ kept'.worked[x]
               PROVE  /\ kept'.answer[x] # "none" => kept'.apr[x] = kept'.answer[x]
                      /\ kept'.worked[x] => kept'.apr[x] = "approved"
                      /\ kept'.apr[x] = kept'.aprCopy[x] /\ ~kept'.open[x]
                      /\ run.task = x => ~Has(r, GateKinds)
                      /\ api.task = x => ~Has(api.todo, GateKinds)
                      /\ boot.task = x => \A y \in Written(boot.todo) :
                            /\ y.on \in AprKinds => y.val = kept'.apr[x]
                            /\ y.on = "open" => ~y.val
    BY <1>1, <1>4 DEF DecisionsAreFirm, Decided, Agree
  <2>1. Written(boot.todo) = {}
    BY <1>3, NoWrites
  <2>2. CASE x # t
    BY <1>2, <1>10, <2>1, <2>2 DEF DecisionsAreFirm, Decided, Agree, t
  <2>3. CASE x = t /\ w.on = "worked"
    <3>1. r = <<>> /\ w.on \notin GateKinds /\ Has(run.todo, {"worked"})
      BY <1>5, <1>6, <2>3 DEF LastKinds, GateKinds
    <3>2. /\ kept.apr[t] = "approved" /\ kept.apr[t] = kept.aprCopy[t] /\ ~kept.open[t]
          /\ api.task = t => ~Has(api.todo, GateKinds \cup {"answer"})
      BY <1>2, <3>1 DEF WorkIsApproved, Agree, t
    <3>3. /\ kept'.answer[t] = kept.answer[t]
          /\ kept.answer[t] # "none" => kept.apr[t] = kept.answer[t]
      BY <1>2, <1>3, <1>8, <2>3 DEF DecisionsAreFirm, Decided
    <3>4. api.task = t => ~Has(api.todo, GateKinds)
      BY <3>2 DEF Has
    <3>5. kept'.apr[t] = "approved" /\ kept'.apr[t] = kept'.aprCopy[t] /\ ~kept'.open[t]
      BY <1>11, <3>1, <3>2
    <3> QED
      BY <1>9, <2>1, <2>3, <3>1, <3>2, <3>3, <3>4, <3>5 DEF t
  <2>4. CASE x = t /\ w.on # "worked"
    <3>1. kept'.answer[t] = kept.answer[t] /\ kept'.worked[t] = kept.worked[t]
      BY <1>3, <1>7, <1>8, <2>4
    <3>2. ~Has(run.todo, GateKinds)
      BY <1>2, <1>3, <2>4, <3>1 DEF DecisionsAreFirm, Decided, t
    <3> QED
      BY <1>2, <1>3, <1>6, <1>11, <2>1, <2>4, <3>1, <3>2 DEF DecisionsAreFirm, Decided, Agree
  <2> QED
    BY <2>2, <2>3, <2>4
<1>21. RunEnds'
  <2> SUFFICES ASSUME Has(r, {"told"}) PROVE RunEnds'
    BY <1>4 DEF RunEnds
  <2>1. run.at = "ended" /\ run.gated /\ api.task # run.task
    BY <1>2, <1>6 DEF RunEnds
  <2>2. PICK s \in EndStates : Leaves(run.todo, s, kept.row[t], kept.copy[t])
    BY <1>2, <1>6 DEF RunEnds, Ending, t
  <2>3. Leaves(r, s, IF w.on = "row" THEN w.val ELSE kept.row[t], IF w.on = "copy" THEN w.val ELSE kept.copy[t])
    BY <1>1, <1>3, <2>2, LeavesOn DEF w, r
  <2>4. Leaves(r, s, kept'.row[t], kept'.copy[t])
    BY <1>3, <1>8, <2>3
  <2> QED
    BY <1>1, <1>4, <2>1, <2>4 DEF RunEnds, Ending
<1>22. ApiEnds'
  <2> SUFFICES ASSUME Has(api.todo, {"told"}) PROVE ApiEnds'
    BY <1>1 DEF ApiEnds
  <2>1. api.task \in Remote /\ api.task \in Tasks \ {t}
    BY <1>2, <1>3, HasNone DEF ApiEnds, ApiTyped
  <2> QED
    BY <1>1, <1>2, <1>10, <2>1 DEF ApiEnds, Ending
<1>23. EndsAreFirm'
  <2> SUFFICES ASSUME NEW x \in Tasks, kept'.told[x] # "nothing"
               PROVE  /\ kept'.row[x] # NoTask /\ kept'.row[x].status = kept'.told[x]
                      /\ kept'.copy[x] # NoTask /\ kept'.copy[x].status = kept'.told[x]
                      /\ run.task = x => run.at = "ended" /\ r = <<>>
                      /\ api.task = x => ~Has(api.todo, {"row", "copy"})
                      /\ boot.task = x => \A y \in Written(boot.todo) :
                            y.on \in {"row", "copy"} => y.val.status = kept'.told[x]
    BY <1>1, <1>4 DEF EndsAreFirm
  <2>1. Written(boot.todo) = {}
    BY <1>3, NoWrites
  <2>2. CASE x # t
    BY <1>2, <1>10, <2>1, <2>2 DEF EndsAreFirm, t
  <2>3. CASE x = t
    <3>1. w.on = "told"
      BY <1>1, <1>2, <1>3, <1>8, <2>3 DEF EndsAreFirm, t
    <3>2. r = <<>> /\ Has(run.todo, {"told"}) /\ ~Has(run.todo, {"row"}) /\ ~Has(run.todo, {"copy"})
      BY <1>5, <1>6, <1>9, <3>1 DEF LastKinds
    <3>3. PICK s \in EndStates : Leaves(run.todo, s, kept.row[t], kept.copy[t])
      BY <1>2, <3>2 DEF RunEnds, Ending, t
    <3>4. /\ kept.row[t] # NoTask /\ kept.row[t].status = s /\ kept.copy[t] # NoTask /\ kept.copy[t].status = s
          /\ w.val = s
      BY <1>5, <3>1, <3>2, <3>3 DEF Leaves
    <3>5. run.at = "ended" /\ api.task # t
      BY <1>2, <3>2 DEF RunEnds, t
    <3> QED
      BY <1>3, <1>8, <2>1, <2>3, <3>1, <3>2, <3>4, <3>5
  <2> QED
    BY <2>2, <2>3
<1> QED
  BY <1>13, <1>14, <1>15, <1>16, <1>17, <1>18, <1>19, <1>20, <1>21, <1>22, <1>23 DEF RecoveryInv

---------------------------------------------------------------------------
(* A write of the API's thread.                                            *)

LEMMA ApiWritesKeeps ==
  ASSUME RecoveryInv, ApiWrites
  PROVE  RecoveryInv'
<1> DEFINE t == api.task
           w == Head(api.todo)
           r == Tail(api.todo)
<1>1. /\ up = "up" /\ api.todo # <<>>
      /\ IF w.on = "token" THEN run' = [run EXCEPT !.cancelled = TRUE] /\ kept' = kept
                           ELSE Store(t, w) /\ run' = run
      /\ api' = IF Len(api.todo) = 1 THEN Quiet ELSE [api EXCEPT !.todo = r]
      /\ up' = up /\ boot' = boot
  BY DEF ApiWrites
<1>2. /\ KeptTyped /\ RunTyped /\ ApiTyped /\ BootTyped /\ UpTyped
      /\ RunSettles /\ ApiSettles /\ RunAgrees /\ WorkIsApproved /\ NewTasksAreClean /\ RemoteAsksNothing
      /\ DecisionsAreFirm /\ RunEnds /\ ApiEnds /\ EndsAreFirm
  BY DEF RecoveryInv, RecoveryTyped
<1>3. t \in Tasks /\ t # NoTask /\ boot.todo = <<>> /\ IsList(api.todo) /\ ~Has(api.todo, {"worked"})
  BY <1>1, <1>2, RunRecoveryAssumption DEF ApiTyped, UpTyped
<1>4. /\ IsList(r) /\ Writable(w) /\ Written(api.todo) = Written(r) \cup {w}
      /\ w.on \in LastKinds => r = <<>>
      /\ Len(api.todo) = 1 <=> r = <<>>
  BY <1>1, <1>3, FirstDone
<1>5. /\ \A kinds : Has(api.todo, kinds) <=> (w.on \in kinds \/ Has(r, kinds))
      /\ w.on # "worked"
  BY <1>1, <1>3, HasOn
<1> HIDE DEF t, w, r
<1>6. /\ api'.todo = r /\ api'.task = IF r = <<>> THEN NoTask ELSE t
      /\ api' = [task |-> api'.task, todo |-> api'.todo]
      /\ run'.task = run.task /\ run'.at = run.at /\ run'.todo = run.todo /\ run'.gated = run.gated
  <2>1. /\ api'.todo = r /\ api'.task = (IF r = <<>> THEN NoTask ELSE t)
        /\ api' = [task |-> api'.task, todo |-> api'.todo]
    BY <1>1, <1>2, <1>4 DEF ApiTyped, Quiet, t
  <2>2. run'.task = run.task /\ run'.at = run.at /\ run'.todo = run.todo /\ run'.gated = run.gated
    BY <1>1, <1>2 DEF RunTyped
  <2> QED
    BY <2>1, <2>2
<1>7. /\ KeptTyped'
      /\ \A x \in Tasks :
           /\ kept'.row[x]     = IF x = t /\ w.on = "row"     THEN w.val ELSE kept.row[x]
           /\ kept'.copy[x]    = IF x = t /\ w.on = "copy"    THEN w.val ELSE kept.copy[x]
           /\ kept'.apr[x]     = IF x = t /\ w.on = "apr"     THEN w.val ELSE kept.apr[x]
           /\ kept'.aprCopy[x] = IF x = t /\ w.on = "aprCopy" THEN w.val ELSE kept.aprCopy[x]
           /\ kept'.open[x]    = IF x = t /\ w.on = "open"    THEN w.val ELSE kept.open[x]
           /\ kept'.told[x]    = IF x = t /\ w.on = "told"    THEN w.val ELSE kept.told[x]
           /\ kept'.answer[x]  = IF x = t /\ w.on = "answer"  THEN w.val ELSE kept.answer[x]
           /\ kept'.worked[x]  = IF x = t /\ w.on = "worked"  THEN w.val ELSE kept.worked[x]
  <2>1. CASE w.on = "token"
    BY <1>1, <1>2, <2>1 DEF KeptTyped
  <2>2. CASE w.on # "token"
    BY <1>1, <1>2, <1>3, <1>4, <2>2, StoreGives
  <2> QED
    BY <2>1, <2>2
<1>8. kept.open[t] \in BOOLEAN /\ \A kinds : ~Has(<<>>, kinds)
  BY <1>2, <1>3, HasNone DEF KeptTyped
<1>9. \A x \in Tasks \ {t} :
         /\ kept'.row[x] = kept.row[x] /\ kept'.copy[x] = kept.copy[x] /\ kept'.told[x] = kept.told[x]
         /\ kept'.apr[x] = kept.apr[x] /\ kept'.aprCopy[x] = kept.aprCopy[x] /\ kept'.open[x] = kept.open[x]
         /\ kept'.answer[x] = kept.answer[x] /\ kept'.worked[x] = kept.worked[x]
  BY <1>7
<1>10. w.on \notin GateKinds =>
         kept'.apr[t] = kept.apr[t] /\ kept'.aprCopy[t] = kept.aprCopy[t] /\ kept'.open[t] = kept.open[t]
  BY <1>3, <1>7 DEF GateKinds
<1>11. \A d \in AprStates : Settling(t, api.todo, d) =>
         /\ Settles(r, d, kept'.apr[t], kept'.aprCopy[t], kept'.open[t])
         /\ ~Has(r, GateKinds) => kept'.apr[t] = d /\ kept'.aprCopy[t] = d /\ ~kept'.open[t]
  <2> SUFFICES ASSUME NEW d \in AprStates, Settles(api.todo, d, kept.apr[t], kept.aprCopy[t], kept.open[t])
               PROVE  /\ Settles(r, d, kept'.apr[t], kept'.aprCopy[t], kept'.open[t])
                      /\ ~Has(r, GateKinds) => kept'.apr[t] = d /\ kept'.aprCopy[t] = d /\ ~kept'.open[t]
    BY DEF Settling
  <2>1. Settles(r, d, IF w.on = "apr" THEN w.val ELSE kept.apr[t], IF w.on = "aprCopy" THEN w.val ELSE kept.aprCopy[t],
                IF w.on = "open" THEN w.val ELSE kept.open[t])
    BY <1>1, <1>3, <1>8, SettlesOn DEF w, r
  <2>2. Settles(r, d, kept'.apr[t], kept'.aprCopy[t], kept'.open[t])
    BY <1>3, <1>7, <2>1
  <2> QED
    BY <2>2, Settled
<1>12. RecoveryTyped'
  <2>1. RunTyped'
    BY <1>1, <1>2 DEF RunTyped
  <2>2. ApiTyped'
    BY <1>2, <1>3, <1>6, <1>4, <1>5 DEF ApiTyped
  <2> QED
    BY <1>1, <1>2, <1>7, <2>1, <2>2 DEF RecoveryTyped, BootTyped, UpTyped
<1>13. RunSettles'
  <2> SUFFICES ASSUME Has(run.todo, GateKinds) PROVE RunSettles'
    BY <1>6 DEF RunSettles
  <2>1. /\ run.gated /\ run.at \in {"wait", "work"} /\ run.task # t
        /\ ~Has(run.todo, {"worked"})
    BY <1>2 DEF RunSettles, t
  <2>2. PICK d \in AprStates : Settling(run.task, run.todo, d)
    BY <1>2 DEF RunSettles
  <2>3. run.task \in Tasks \ {t} /\ run.task # NoTask
    BY <1>2, <2>1, RunRecoveryAssumption DEF RunTyped
  <2>4. Settling(run.task, run.todo, d)'
    BY <1>6, <1>9, <2>2, <2>3 DEF Settling
  <2> QED
    BY <1>6, <2>1, <2>3, <2>4 DEF RunSettles
<1>14. ApiSettles'
  <2> SUFFICES ASSUME Has(r, GateKinds \cup {"answer"}) PROVE ApiSettles'
    BY <1>6 DEF ApiSettles
  <2>1. t = run.task => ~Has(run.todo, GateKinds \cup {"worked"})
    BY <1>2, <1>5 DEF ApiSettles, t
  <2>2. PICK d \in AprStates : Settling(t, api.todo, d)
    BY <1>2, <1>5 DEF ApiSettles, t
  <2>3. Settles(r, d, kept'.apr[t], kept'.aprCopy[t], kept'.open[t])
    BY <1>11, <2>2
  <2>4. r # <<>>
    BY <1>8
  <2> QED
    BY <1>6, <2>1, <2>3, <2>4 DEF ApiSettles, Settling
<1>15. RunAgrees'
  <2> SUFFICES ASSUME run.at # "idle", ~Has(run.todo, GateKinds), t = run.task => ~Has(r, GateKinds)
               PROVE  kept'.apr[run.task] = kept'.aprCopy[run.task] /\ ~kept'.open[run.task]
    BY <1>6, <1>8 DEF RunAgrees, Agree
  <2>1. CASE run.task # t
    BY <1>2, <1>9, <2>1 DEF RunAgrees, RunTyped, Agree, t
  <2>2. CASE run.task = t /\ w.on \in GateKinds
    <3>1. Has(api.todo, GateKinds \cup {"answer"})
      BY <1>5, <2>2
    <3> QED
      BY <1>2, <1>11, <2>2, <3>1 DEF ApiSettles, t
  <2>3. CASE run.task = t /\ w.on \notin GateKinds
    BY <1>2, <1>5, <1>10, <2>3 DEF RunAgrees, Agree, t
  <2> QED
    BY <2>1, <2>2, <2>3
<1>16. WorkIsApproved'
  <2> SUFFICES ASSUME Has(run.todo, {"worked"}) PROVE WorkIsApproved'
    BY <1>6 DEF WorkIsApproved
  <2>1. /\ run.at = "work" /\ kept.apr[run.task] = "approved" /\ Agree(run.task)
        /\ t = run.task => ~Has(api.todo, GateKinds \cup {"answer"})
    BY <1>2 DEF WorkIsApproved, t
  <2>2. run.task \in Tasks /\ run.task # NoTask
    BY <1>2, <2>1, RunRecoveryAssumption DEF RunTyped
  <2>3. t = run.task => w.on \notin GateKinds /\ ~Has(r, GateKinds \cup {"answer"})
    BY <1>5, <2>1
  <2>4. kept'.apr[run.task] = kept.apr[run.task] /\ kept'.aprCopy[run.task] = kept.aprCopy[run.task]
        /\ kept'.open[run.task] = kept.open[run.task]
    BY <1>9, <1>10, <2>2, <2>3
  <2> QED
    BY <1>6, <2>1, <2>2, <2>3, <2>4 DEF WorkIsApproved, Agree
<1>17. NewTasksAreClean'
  <2> SUFFICES ASSUME NEW x \in Tasks, kept'.row[x] = NoTask
               PROVE  /\ kept'.apr[x] = "none" /\ kept'.apr[x] = kept'.aprCopy[x] /\ ~kept'.open[x]
                      /\ kept'.answer[x] = "none" /\ ~kept'.worked[x]
                      /\ run.task = x => run.at = "queued" /\ RowComesFirst(run.todo)
                      /\ api'.task = x => x \in Remote
                      /\ boot.task = x => ~Has(boot.todo, GateKinds)
    BY <1>1, <1>6 DEF NewTasksAreClean, Agree
  <2>1. api'.task = x => api.task = x
    BY <1>6, RunRecoveryAssumption DEF t
  <2>2. CASE x # t
    BY <1>2, <1>9, <2>1, <2>2 DEF NewTasksAreClean, Agree
  <2>3. CASE x = t
    <3>1. kept.row[t] = NoTask
      BY <1>3, <1>4, <1>7, <2>3, NoRecord DEF Writable, RecKinds
    <3>2. t \in Remote
      BY <1>2, <1>3, <3>1 DEF NewTasksAreClean, t
    <3>3. w.on \notin GateKinds /\ w.on # "answer"
      BY <1>2, <1>5, <3>2 DEF RemoteAsksNothing, t
    <3>4. kept'.answer[t] = kept.answer[t] /\ kept'.worked[t] = kept.worked[t]
      BY <1>3, <1>5, <1>7, <3>3
    <3> QED
      BY <1>2, <1>3, <1>10, <2>3, <3>1, <3>2, <3>3, <3>4 DEF NewTasksAreClean, Agree
  <2> QED
    BY <2>2, <2>3
<1>18. RemoteAsksNothing'
  BY <1>2, <1>6, <1>5, <1>8 DEF RemoteAsksNothing, t
<1>19. DecisionsAreFirm'
  <2> SUFFICES ASSUME NEW x \in Tasks, kept'.answer[x] # "none" \/ kept'.worked[x]
               PROVE  /\ kept'.answer[x] # "none" => kept'.apr[x] = kept'.answer[x]
                      /\ kept'.worked[x] => kept'.apr[x] = "approved"
                      /\ kept'.apr[x] = kept'.aprCopy[x] /\ ~kept'.open[x]
                      /\ run.task = x => ~Has(run.todo, GateKinds)
                      /\ api'.task = x => ~Has(r, GateKinds)
                      /\ boot.task = x => \A y \in Written(boot.todo) :
                            /\ y.on \in AprKinds => y.val = kept'.apr[x]
                            /\ y.on = "open" => ~y.val
    BY <1>1, <1>6 DEF DecisionsAreFirm, Decided, Agree
  <2>1. Written(boot.todo) = {}
    BY <1>3, NoWrites
  <2>2. CASE x # t
    <3>1. api'.task # x
      BY <1>6, <2>2, RunRecoveryAssumption
    <3> QED
      BY <1>2, <1>9, <2>1, <2>2, <3>1 DEF DecisionsAreFirm, Decided, Agree
  <2>3. CASE x = t /\ w.on = "answer"
    <3>1. r = <<>> /\ w.on \notin GateKinds /\ Has(api.todo, GateKinds \cup {"answer"})
      BY <1>4, <1>5, <2>3 DEF LastKinds, GateKinds
    <3>2. PICK d \in AprStates : Settling(t, api.todo, d)
      BY <1>2, <3>1 DEF ApiSettles, t
    <3>3. w.val = d
      BY <1>4, <2>3, <3>2 DEF Settling, Settles
    <3>4. kept'.apr[t] = d /\ kept'.aprCopy[t] = d /\ ~kept'.open[t] /\ kept'.answer[t] = d
          /\ kept.apr[t] = kept'.apr[t]
      BY <1>3, <1>7, <1>8, <1>10, <1>11, <2>3, <3>1, <3>2, <3>3
    <3>5. run.task = t => ~Has(run.todo, GateKinds)
      BY <1>2, <3>1 DEF ApiSettles, Has, t
    <3>6. kept'.worked[t] => kept.apr[t] = "approved"
      BY <1>2, <1>3, <1>5, <1>7 DEF DecisionsAreFirm, Decided
    <3> QED
      BY <1>8, <2>1, <2>3, <3>1, <3>4, <3>5, <3>6
  <2>4. CASE x = t /\ w.on # "answer"
    <3>1. kept'.answer[t] = kept.answer[t] /\ kept'.worked[t] = kept.worked[t]
      BY <1>3, <1>5, <1>7, <2>4
    <3>2. ~Has(api.todo, GateKinds)
      BY <1>2, <1>3, <2>4, <3>1 DEF DecisionsAreFirm, Decided, t
    <3> QED
      BY <1>2, <1>3, <1>5, <1>10, <2>1, <2>4, <3>1, <3>2 DEF DecisionsAreFirm, Decided, Agree
  <2> QED
    BY <2>2, <2>3, <2>4
<1>20. RunEnds'
  <2> SUFFICES ASSUME Has(run.todo, {"told"}) PROVE RunEnds'
    BY <1>6 DEF RunEnds
  <2>1. run.at = "ended" /\ run.gated /\ run.task # t
    BY <1>2 DEF RunEnds, t
  <2>2. run.task \in Tasks \ {t} /\ run.task # NoTask
    BY <1>2, <2>1, RunRecoveryAssumption DEF RunTyped
  <2> QED
    BY <1>2, <1>6, <1>9, <2>1, <2>2 DEF RunEnds, Ending
<1>21. ApiEnds'
  <2> SUFFICES ASSUME Has(r, {"told"}) PROVE ApiEnds'
    BY <1>6 DEF ApiEnds
  <2>1. t \in Remote /\ r # <<>>
    BY <1>2, <1>5, <1>8 DEF ApiEnds, t
  <2>2. PICK s \in EndStates : Leaves(api.todo, s, kept.row[t], kept.copy[t])
    BY <1>2, <1>5 DEF ApiEnds, Ending, t
  <2>3. Leaves(r, s, IF w.on = "row" THEN w.val ELSE kept.row[t], IF w.on = "copy" THEN w.val ELSE kept.copy[t])
    BY <1>1, <1>3, <2>2, LeavesOn DEF w, r
  <2>4. Leaves(r, s, kept'.row[t], kept'.copy[t])
    BY <1>3, <1>7, <2>3
  <2> QED
    BY <1>6, <2>1, <2>4 DEF ApiEnds, Ending
<1>22. EndsAreFirm'
  <2> SUFFICES ASSUME NEW x \in Tasks, kept'.told[x] # "nothing"
               PROVE  /\ kept'.row[x] # NoTask /\ kept'.row[x].status = kept'.told[x]
                      /\ kept'.copy[x] # NoTask /\ kept'.copy[x].status = kept'.told[x]
                      /\ run.task = x => run.at = "ended" /\ run.todo = <<>>
                      /\ api'.task = x => ~Has(r, {"row", "copy"})
                      /\ boot.task = x => \A y \in Written(boot.todo) :
                            y.on \in {"row", "copy"} => y.val.status = kept'.told[x]
    BY <1>1, <1>6 DEF EndsAreFirm
  <2>1. Written(boot.todo) = {}
    BY <1>3, NoWrites
  <2>2. CASE x # t
    <3>1. api'.task # x
      BY <1>6, <2>2, RunRecoveryAssumption
    <3> QED
      BY <1>2, <1>9, <2>1, <2>2, <3>1 DEF EndsAreFirm
  <2>3. CASE x = t /\ w.on = "told"
    <3>1. r = <<>> /\ Has(api.todo, {"told"}) /\ ~Has(api.todo, {"row"}) /\ ~Has(api.todo, {"copy"})
      BY <1>4, <1>5, <1>8, <2>3 DEF LastKinds
    <3>2. PICK s \in EndStates : Leaves(api.todo, s, kept.row[t], kept.copy[t])
      BY <1>2, <3>1 DEF ApiEnds, Ending, t
    <3>3. /\ kept.row[t] # NoTask /\ kept.row[t].status = s /\ kept.copy[t] # NoTask /\ kept.copy[t].status = s
          /\ w.val = s
      BY <1>4, <2>3, <3>1, <3>2 DEF Leaves
    <3>4. run.task # t
      BY <1>2, <1>3, <3>1 DEF ApiEnds, RunTyped, t
    <3> QED
      BY <1>3, <1>7, <1>8, <2>1, <2>3, <3>1, <3>3, <3>4
  <2>4. CASE x = t /\ w.on # "told"
    <3>1. kept.told[t] = kept'.told[t] /\ kept.told[t] # "nothing"
      BY <1>3, <1>7, <2>4
    <3>2. w.on \notin {"row", "copy"} /\ ~Has(r, {"row", "copy"})
      BY <1>2, <1>3, <1>5, <3>1 DEF EndsAreFirm, t
    <3> QED
      BY <1>2, <1>3, <1>7, <2>1, <2>4, <3>1, <3>2 DEF EndsAreFirm
  <2> QED
    BY <2>2, <2>3, <2>4
<1> QED
  BY <1>12, <1>13, <1>14, <1>15, <1>16, <1>17, <1>18, <1>19, <1>20, <1>21, <1>22 DEF RecoveryInv

---------------------------------------------------------------------------
(* The restart: a write of it, and a Task that is seen.                    *)

LEMMA BootWritesKeeps ==
  ASSUME RecoveryInv, BootWrites
  PROVE  RecoveryInv'
<1> DEFINE t == boot.task
           w == Head(boot.todo)
           r == Tail(boot.todo)
<1>1. /\ up = "starting" /\ boot.todo # <<>> /\ Store(t, w) /\ boot' = [boot EXCEPT !.todo = r]
      /\ up' = up /\ run' = run /\ api' = api
  BY DEF BootWrites
<1>2. /\ KeptTyped /\ RunTyped /\ ApiTyped /\ BootTyped /\ UpTyped
      /\ NewTasksAreClean /\ DecisionsAreFirm /\ EndsAreFirm
  BY DEF RecoveryInv, RecoveryTyped
<1>3. /\ t \in Tasks /\ run = Idle /\ api = Quiet
      /\ run.task = NoTask /\ run.todo = <<>> /\ run.at = "idle" /\ api.task = NoTask /\ api.todo = <<>>
      /\ NoTask \notin Tasks /\ \A kinds : ~Has(<<>>, kinds)
  BY <1>1, <1>2, RunRecoveryAssumption, HasNone DEF BootTyped, UpTyped, Idle, Quiet
<1>4. /\ boot'.task = t /\ boot'.todo = r /\ boot'.left = boot.left
      /\ boot' = [phase |-> boot'.phase, left |-> boot'.left, task |-> boot'.task, todo |-> boot'.todo, ok |-> boot'.ok]
  BY <1>1, <1>2 DEF BootTyped
<1>5. /\ IsList(boot.todo) /\ IsList(r) /\ Writable(w) /\ Written(boot.todo) = Written(r) \cup {w}
      /\ ~Has(boot.todo, LastKinds \cup {"token"})
  BY <1>1, <1>2, FirstDone DEF BootTyped
<1>6. \A kinds : Has(boot.todo, kinds) <=> (w.on \in kinds \/ Has(r, kinds))
  BY <1>1, <1>5, HasOn
<1>7. w.on \notin LastKinds \cup {"token"} /\ ~Has(r, LastKinds \cup {"token"})
  BY <1>5, <1>6
<1>8. /\ KeptTyped'
      /\ \A x \in Tasks :
           /\ kept'.row[x]     = IF x = t /\ w.on = "row"     THEN w.val ELSE kept.row[x]
           /\ kept'.copy[x]    = IF x = t /\ w.on = "copy"    THEN w.val ELSE kept.copy[x]
           /\ kept'.apr[x]     = IF x = t /\ w.on = "apr"     THEN w.val ELSE kept.apr[x]
           /\ kept'.aprCopy[x] = IF x = t /\ w.on = "aprCopy" THEN w.val ELSE kept.aprCopy[x]
           /\ kept'.open[x]    = IF x = t /\ w.on = "open"    THEN w.val ELSE kept.open[x]
           /\ kept'.told[x]    = IF x = t /\ w.on = "told"    THEN w.val ELSE kept.told[x]
           /\ kept'.answer[x]  = IF x = t /\ w.on = "answer"  THEN w.val ELSE kept.answer[x]
           /\ kept'.worked[x]  = IF x = t /\ w.on = "worked"  THEN w.val ELSE kept.worked[x]
  BY <1>1, <1>2, <1>3, <1>5, <1>7, StoreGives
<1> HIDE DEF t, w, r
<1>9. \A x \in Tasks : kept'.told[x] = kept.told[x] /\ kept'.answer[x] = kept.answer[x] /\ kept'.worked[x] = kept.worked[x]
  BY <1>7, <1>8 DEF LastKinds
<1>10. RecoveryTyped'
  <2>1. BootTyped'
    BY <1>2, <1>3, <1>4, <1>5, <1>7 DEF BootTyped
  <2>2. UpTyped'
    BY <1>1, <1>2 DEF UpTyped
  <2> QED
    BY <1>1, <1>2, <1>8, <2>1, <2>2 DEF RecoveryTyped, RunTyped, ApiTyped
<1>11. RunSettles' /\ ApiSettles' /\ RunAgrees' /\ WorkIsApproved' /\ RemoteAsksNothing' /\ RunEnds' /\ ApiEnds'
  BY <1>1, <1>3 DEF RunSettles, ApiSettles, RunAgrees, WorkIsApproved, RemoteAsksNothing, RunEnds, ApiEnds
<1>12. NewTasksAreClean'
  <2> SUFFICES ASSUME NEW x \in Tasks, kept'.row[x] = NoTask
               PROVE  /\ kept'.apr[x] = "none" /\ kept'.apr[x] = kept'.aprCopy[x] /\ ~kept'.open[x]
                      /\ kept'.answer[x] = "none" /\ ~kept'.worked[x]
                      /\ t = x => ~Has(r, GateKinds)
    BY <1>1, <1>3, <1>4 DEF NewTasksAreClean, Agree
  <2>1. kept.row[x] = NoTask
    BY <1>5, <1>8, NoRecord DEF Writable, RecKinds
  <2>2. t = x => w.on \notin GateKinds /\ ~Has(r, GateKinds)
    BY <1>2, <1>6, <2>1 DEF NewTasksAreClean, t
  <2> QED
    BY <1>2, <1>8, <1>9, <2>1, <2>2 DEF NewTasksAreClean, Agree, GateKinds
<1>13. DecisionsAreFirm'
  <2> SUFFICES ASSUME NEW x \in Tasks, kept.answer[x] # "none" \/ kept.worked[x]
               PROVE  /\ kept'.answer[x] # "none" => kept'.apr[x] = kept'.answer[x]
                      /\ kept'.worked[x] => kept'.apr[x] = "approved"
                      /\ kept'.apr[x] = kept'.aprCopy[x] /\ ~kept'.open[x]
                      /\ t = x => \A y \in Written(r) :
                            /\ y.on \in AprKinds => y.val = kept'.apr[x]
                            /\ y.on = "open" => ~y.val
    BY <1>1, <1>3, <1>4, <1>9 DEF DecisionsAreFirm, Decided, Agree
  <2>1. /\ kept.answer[x] # "none" => kept.apr[x] = kept.answer[x]
        /\ kept.worked[x] => kept.apr[x] = "approved"
        /\ kept.apr[x] = kept.aprCopy[x] /\ ~kept.open[x]
        /\ t = x => \A y \in Written(boot.todo) :
             /\ y.on \in AprKinds => y.val = kept.apr[x]
             /\ y.on = "open" => ~y.val
    BY <1>2 DEF DecisionsAreFirm, Decided, Agree, t
  <2>2. kept'.apr[x] = kept.apr[x] /\ kept'.aprCopy[x] = kept.aprCopy[x] /\ ~kept'.open[x]
    BY <1>5, <1>8, <2>1 DEF AprKinds
  <2> QED
    BY <1>5, <1>9, <2>1, <2>2
<1>14. EndsAreFirm'
  <2> SUFFICES ASSUME NEW x \in Tasks, kept.told[x] # "nothing"
               PROVE  /\ kept'.row[x] # NoTask /\ kept'.row[x].status = kept.told[x]
                      /\ kept'.copy[x] # NoTask /\ kept'.copy[x].status = kept.told[x]
                      /\ t = x => \A y \in Written(r) : y.on \in {"row", "copy"} => y.val.status = kept.told[x]
    BY <1>1, <1>3, <1>4, <1>9 DEF EndsAreFirm
  <2>1. /\ kept.row[x] # NoTask /\ kept.row[x].status = kept.told[x]
        /\ kept.copy[x] # NoTask /\ kept.copy[x].status = kept.told[x]
        /\ t = x => \A y \in Written(boot.todo) : y.on \in {"row", "copy"} => y.val.status = kept.told[x]
    BY <1>2 DEF EndsAreFirm, t
  <2>2. w.on \in {"row", "copy"} => w.val # NoTask
    BY <1>5, NoRecord DEF Writable, RecKinds
  <2> QED
    BY <1>5, <1>8, <2>1, <2>2
<1> QED
  BY <1>10, <1>11, <1>12, <1>13, <1>14 DEF RecoveryInv

\* What may be written of Task t at a restart.
Harmless(t, q) ==
  /\ IsList(q) /\ ~Has(q, LastKinds \cup {"token"})
  /\ kept.row[t] = NoTask => ~Has(q, GateKinds)
  /\ Decided(t) => \A w \in Written(q) : (w.on \in AprKinds => w.val = kept.apr[t]) /\ (w.on = "open" => ~w.val)
  /\ kept.told[t] # "nothing" => \A w \in Written(q) : w.on \in {"row", "copy"} => w.val.status = kept.told[t]

LEMMA SeeKeeps ==
  ASSUME RecoveryInv, up = "starting", NEW t \in Tasks, NEW q, Harmless(t, q), See(t, q)
  PROVE  RecoveryInv'
<1>1. /\ boot' = [boot EXCEPT !.left = @ \ {t}, !.task = t, !.todo = q]
      /\ kept' = kept /\ up' = up /\ run' = run /\ api' = api
  BY DEF See
<1>2. /\ KeptTyped /\ RunTyped /\ ApiTyped /\ BootTyped /\ UpTyped
      /\ RunSettles /\ ApiSettles /\ RunAgrees /\ WorkIsApproved /\ NewTasksAreClean /\ RemoteAsksNothing
      /\ DecisionsAreFirm /\ RunEnds /\ ApiEnds /\ EndsAreFirm
  BY DEF RecoveryInv, RecoveryTyped
<1>3. /\ boot'.task = t /\ boot'.todo = q /\ boot'.left \subseteq Tasks
      /\ boot' = [phase |-> boot'.phase, left |-> boot'.left, task |-> boot'.task, todo |-> boot'.todo, ok |-> boot'.ok]
  BY <1>1, <1>2 DEF BootTyped
<1>4. IsList(q) /\ ~Has(q, LastKinds \cup {"token"})
  BY DEF Harmless
<1>5. RecoveryTyped'
  <2>1. BootTyped'
    BY <1>3, <1>4 DEF BootTyped
  <2>2. UpTyped'
    BY <1>1, <1>2 DEF UpTyped
  <2> QED
    BY <1>1, <1>2, <2>1, <2>2 DEF RecoveryTyped, KeptTyped, RunTyped, ApiTyped
<1>6. RunSettles' /\ ApiSettles' /\ RunAgrees' /\ WorkIsApproved' /\ RemoteAsksNothing' /\ RunEnds' /\ ApiEnds'
  BY <1>1, <1>2 DEF RunSettles, ApiSettles, RunAgrees, WorkIsApproved, RemoteAsksNothing, RunEnds, ApiEnds,
                    Settling, Ending, Agree
<1>7. NewTasksAreClean'
  BY <1>1, <1>2, <1>3 DEF NewTasksAreClean, Agree, Harmless
<1>8. DecisionsAreFirm'
  BY <1>1, <1>2, <1>3 DEF DecisionsAreFirm, Decided, Agree, Harmless
<1>9. EndsAreFirm'
  BY <1>1, <1>2, <1>3 DEF EndsAreFirm, Harmless
<1> QED
  BY <1>5, <1>6, <1>7, <1>8, <1>9 DEF RecoveryInv

\* Writes of a Task's records alone do no harm unless its end was told.
LEMMA RecordsAreHarmless ==
  ASSUME NEW t \in Tasks, NEW q, IsList(q),
         \A w \in Written(q) : w.on \in {"row", "copy", "state", "trace", "report"},
         kept.told[t] # "nothing" => ~Has(q, {"row", "copy"})
  PROVE  Harmless(t, q)
<1>1. ~Has(q, LastKinds \cup {"token"}) /\ ~Has(q, GateKinds)
  BY DEF Has, LastKinds, GateKinds
<1>2. \A w \in Written(q) : w.on \notin AprKinds \cup {"open"}
  BY DEF AprKinds
<1>3. kept.told[t] # "nothing" => \A w \in Written(q) : w.on \notin {"row", "copy"}
  BY DEF Has
<1> QED
  BY <1>1, <1>2, <1>3 DEF Harmless

LEMMA NothingIsHarmless == \A t \in Tasks : Harmless(t, <<>>)
BY RecordsAreHarmless, NoWrites, HasNone

\* What is known of a Task when nothing is written of it.
LEMMA Seen ==
  ASSUME RecoveryInv, NEW t \in Tasks
  PROVE  /\ kept.row[t] \in Recs \cup {NoTask} /\ kept.copy[t] \in Recs \cup {NoTask}
         /\ kept.state[t] \in Recs \cup {NoTask} /\ kept.report[t] \in Recs \cup {NoTask}
         /\ kept.apr[t] \in AprStates /\ kept.aprCopy[t] \in AprStates
         /\ kept.told[t] \in EndStates \cup {"nothing"}
         /\ kept.row[t] = NoTask => kept.apr[t] = "none" /\ kept.aprCopy[t] = "none" /\ ~kept.open[t]
         /\ Decided(t) => /\ kept.apr[t] \in {"approved", "rejected"}
                          /\ kept.apr[t] = kept.aprCopy[t] /\ ~kept.open[t]
         /\ kept.told[t] # "nothing" => /\ kept.row[t] # NoTask /\ kept.row[t].status = kept.told[t]
                                        /\ kept.copy[t] # NoTask /\ kept.copy[t].status = kept.told[t]
                                        /\ kept.row[t].status \notin Active
<1>1. KeptTyped /\ NewTasksAreClean /\ DecisionsAreFirm /\ EndsAreFirm
  BY DEF RecoveryInv, RecoveryTyped
<1>2. /\ kept.row[t] \in Recs \cup {NoTask} /\ kept.copy[t] \in Recs \cup {NoTask}
      /\ kept.state[t] \in Recs \cup {NoTask} /\ kept.report[t] \in Recs \cup {NoTask}
      /\ kept.apr[t] \in AprStates /\ kept.aprCopy[t] \in AprStates
      /\ kept.told[t] \in EndStates \cup {"nothing"} /\ kept.answer[t] \in {"none", "approved", "rejected"}
  BY <1>1 DEF KeptTyped
<1>3. kept.row[t] = NoTask => kept.apr[t] = "none" /\ kept.aprCopy[t] = "none" /\ ~kept.open[t]
  BY <1>1 DEF NewTasksAreClean, Agree
<1>4. Decided(t) => /\ kept.apr[t] \in {"approved", "rejected"}
                    /\ kept.apr[t] = kept.aprCopy[t] /\ ~kept.open[t]
  BY <1>1, <1>2 DEF DecisionsAreFirm, Decided, Agree
<1>5. kept.told[t] # "nothing" => /\ kept.row[t] # NoTask /\ kept.row[t].status = kept.told[t]
                                  /\ kept.copy[t] # NoTask /\ kept.copy[t].status = kept.told[t]
                                  /\ kept.row[t].status \notin Active
  BY <1>1, <1>2 DEF EndsAreFirm, EndStates
<1> QED
  BY <1>2, <1>3, <1>4, <1>5

LEMMA ImportKeeps ==
  ASSUME RecoveryInv, NEW t \in Tasks, Import(t)
  PROVE  RecoveryInv'
<1> DEFINE a == IF Known(kept.copy[t]) THEN <<Write("row", kept.copy[t])>> ELSE <<>>
           b == IF kept.aprCopy[t] # "none" THEN <<Write("apr", kept.aprCopy[t])>> ELSE <<>>
<1>1. up = "starting" /\ See(t, a \o b)
  BY DEF Import, BootIs
<1>2. IsList(a) /\ \A w \in Written(a) : w = Write("row", kept.copy[t]) /\ kept.copy[t] # NoTask
  <2>1. CASE Known(kept.copy[t])
    <3>1. kept.copy[t] \in Recs
      BY <2>1, Seen DEF Known
    <3>2. Writable(Write("row", kept.copy[t])) /\ Write("row", kept.copy[t]) # Opens
      BY <3>1, RecWritable DEF RecKinds
    <3> QED
      BY <2>1, <3>2, OneWrite DEF Known
  <2>2. CASE ~Known(kept.copy[t])
    BY <2>2, NoWrites
  <2> QED
    BY <2>1, <2>2
<1>3. IsList(b) /\ \A w \in Written(b) : w = Write("apr", kept.aprCopy[t]) /\ kept.aprCopy[t] # "none"
  <2>1. CASE kept.aprCopy[t] # "none"
    <3>1. Writable(Write("apr", kept.aprCopy[t])) /\ Write("apr", kept.aprCopy[t]) # Opens
      BY AprWritable, Seen DEF AprKinds
    <3> QED
      BY <2>1, <3>1, OneWrite
  <2>2. CASE kept.aprCopy[t] = "none"
    BY <2>2, NoWrites
  <2> QED
    BY <2>1, <2>2
<1> HIDE DEF a, b
<1>4. Write("row", kept.copy[t]).on = "row" /\ Write("row", kept.copy[t]).val = kept.copy[t]
      /\ Write("apr", kept.aprCopy[t]).on = "apr" /\ Write("apr", kept.aprCopy[t]).val = kept.aprCopy[t]
  BY Fields
<1>5. ~Has(a, LastKinds)
  BY <1>2, <1>4 DEF Has, LastKinds
<1>6. IsList(a \o b) /\ Written(a \o b) = Written(a) \cup Written(b)
  BY <1>2, <1>3, <1>5, Concat
<1> DEFINE q == a \o b
<1> HIDE DEF q
<1>7. /\ IsList(q)
      /\ \A w \in Written(q) : \/ w.on = "row" /\ w.val = kept.copy[t] /\ kept.copy[t] # NoTask
                               \/ w.on = "apr" /\ w.val = kept.aprCopy[t] /\ kept.aprCopy[t] # "none"
  BY <1>2, <1>3, <1>4, <1>6 DEF q
<1>8. ~Has(q, LastKinds \cup {"token"}) /\ (kept.row[t] = NoTask => ~Has(q, GateKinds))
  BY <1>7, Seen DEF Has, LastKinds, GateKinds
<1>9. Harmless(t, q)
  BY <1>7, <1>8, Seen DEF Harmless, AprKinds
<1> QED
  BY <1>1, <1>9, SeeKeeps DEF q

LEMMA ReconcileKeeps ==
  ASSUME RecoveryInv, NEW t \in Tasks, Reconcile(t)
  PROVE  RecoveryInv'
<1>1. up = "starting" /\ See(t, Repairs(t))
  BY DEF Reconcile, BootIs
<1> DEFINE rec == kept.row[t]
           s == kept.state[t]
           Quietly(q) == IsList(q) /\ \A w \in Written(q) : w.on \in {"row", "copy", "state", "trace", "report"}
<1>2. \A x \in Recs : Quietly(RowWrites(x)) /\ Quietly(ArtifactWrites(x))
                      /\ ~Has(ArtifactWrites(x), {"row", "copy"})
  <2> SUFFICES ASSUME NEW x \in Recs
               PROVE  Quietly(RowWrites(x)) /\ Quietly(ArtifactWrites(x)) /\ ~Has(ArtifactWrites(x), {"row", "copy"})
    OBVIOUS
  <2>1. Quietly(RowWrites(x))
    BY RowList, Fields
  <2>2. Quietly(ArtifactWrites(x)) /\ ~Has(ArtifactWrites(x), {"row", "copy"})
    BY ArtifactList DEF Has
  <2> QED
    BY <2>1, <2>2
<1>3. \A p, q : Quietly(p) /\ Quietly(q) => Quietly(p \o q)
  <2> SUFFICES ASSUME NEW p, NEW q, Quietly(p), Quietly(q) PROVE Quietly(p \o q)
    OBVIOUS
  <2>1. ~Has(p, LastKinds)
    BY DEF Has, LastKinds
  <2> QED
    BY <2>1, Concat
<1>4. Readable(t) => Quietly(RepairWrites(t)) /\ Recovered(t) \in Recs
  <2> SUFFICES ASSUME Readable(t) PROVE Quietly(RepairWrites(t)) /\ Recovered(t) \in Recs
    OBVIOUS
  <2>1. s \in Recs
    BY Seen DEF Readable, Known
  <2> DEFINE a == IF kept.trace[t] THEN <<>> ELSE <<Write("trace", TRUE)>>
             b == IF Known(kept.report[t]) /\ kept.report[t].status = s.status /\ kept.report[t].reason = s.reason
                  THEN <<>> ELSE <<Write("report", s)>>
  <2>2. Quietly(a)
    <3>1. Quietly(<<>>)
      BY NoWrites
    <3>2. Quietly(<<Write("trace", TRUE)>>)
      <4>1. Write("trace", TRUE).on = "trace"
        BY Fields
      <4>2. IsList(<<Write("trace", TRUE)>>) /\ Written(<<Write("trace", TRUE)>>) = {Write("trace", TRUE)}
        BY OtherWritable, OneWrite
      <4> QED
        BY <4>1, <4>2
    <3> HIDE DEF Quietly
    <3> QED
      BY <3>1, <3>2
  <2>3. Quietly(b)
    <3>1. Quietly(<<>>)
      BY NoWrites
    <3>2. Writable(Write("report", s)) /\ Write("report", s) # Opens
      BY <2>1, RecWritable DEF RecKinds
    <3>3. Quietly(<<Write("report", s)>>)
      BY <3>2, OneWrite, Fields
    <3> HIDE DEF Quietly
    <3> QED
      BY <3>1, <3>3
  <2>4. Quietly(RepairWrites(t))
    <3>1. RepairWrites(t) = a \o b
      BY DEF RepairWrites
    <3> HIDE DEF Quietly, a, b
    <3> QED
      BY <1>3, <2>2, <2>3, <3>1
  <2>5. Recovered(t) \in Recs
    <3>1. s.reason \in Reasons /\ s.answer \in Answers
      BY <2>1 DEF Recs
    <3>2. {"completed", "cancelled", "interrupted", "blocked", "failed"} \subseteq Statuses
      BY DEF Statuses
    <3> QED
      BY <3>1, <3>2 DEF Recovered, Rec, Recs
  <2> QED
    BY <2>4, <2>5
<1>5. Interrupted \in Recs /\ [Interrupted EXCEPT !.answer = "interrupted"] \in Recs
  BY RecordsAre DEF Recs, Answers
<1>6. Quietly(<<>>) /\ ~Has(<<>>, {"row", "copy"})
  BY NoWrites, HasNone
<1> HIDE DEF Quietly, s
<1>7. Quietly(Repairs(t)) /\ (kept.told[t] # "nothing" => ~Has(Repairs(t), {"row", "copy"}))
  <2>1. CASE ~Known(rec)
    BY <1>6, <2>1 DEF Repairs
  <2>2. CASE Known(rec) /\ rec.status \in Active
    <3>1. kept.told[t] = "nothing"
      BY <2>2, Seen
    <3>2. CASE t \in Remote
      BY <1>2, <1>5, <2>2, <3>1, <3>2 DEF Repairs
    <3>3. CASE t \notin Remote /\ Readable(t)
      <4>1. Repairs(t) = RepairWrites(t) \o RowWrites(Recovered(t))
        BY <2>2, <3>3 DEF Repairs
      <4> QED
        BY <1>2, <1>3, <1>4, <3>1, <3>3, <4>1
    <3>4. CASE t \notin Remote /\ ~Readable(t)
      <4>1. Repairs(t) = ArtifactWrites([Interrupted EXCEPT !.answer = "interrupted"]) \o RowWrites(Interrupted)
        BY <2>2, <3>4 DEF Repairs
      <4> QED
        BY <1>2, <1>3, <1>5, <3>1, <4>1
    <3> QED
      BY <3>2, <3>3, <3>4
  <2>3. CASE Known(rec) /\ rec.status \notin Active
    <3>1. rec \in Recs
      BY <2>3, Seen DEF Known
    <3> QED
      BY <1>2, <1>6, <2>3, <3>1 DEF Repairs
  <2> QED
    BY <2>1, <2>2, <2>3
<1>8. Harmless(t, Repairs(t))
  BY <1>7, RecordsAreHarmless DEF Quietly
<1> QED
  BY <1>1, <1>8, SeeKeeps

\* An Approval that nobody has decided is closed.
LEMMA ClosingIsHarmless ==
  ASSUME NEW t \in Tasks, NEW q, IsList(q),
         \A w \in Written(q) : w \in {Write("apr", "expired"), Write("aprCopy", "expired"), Closes},
         ~Decided(t), kept.row[t] # NoTask
  PROVE  Harmless(t, q)
<1>1. \A w \in Written(q) : w.on \in {"apr", "aprCopy", "open"}
  BY Fields, JournalWrites
<1> QED
  BY <1>1 DEF Harmless, Has, LastKinds

LEMMA ExpireApprovalKeeps ==
  ASSUME RecoveryInv, NEW t \in Tasks, ExpireApproval(t)
  PROVE  RecoveryInv'
<1> DEFINE q == IF kept.apr[t] = "pending" THEN AprWrites("expired") ELSE <<>>
<1>1. up = "starting" /\ See(t, q)
  BY DEF ExpireApproval, BootIs
<1>2. IsList(AprWrites("expired")) /\ Written(AprWrites("expired")) = {Write("apr", "expired"), Write("aprCopy", "expired")}
  BY AprList, StatesAre
<1>3. CASE kept.apr[t] = "pending"
  <2>1. ~Decided(t) /\ kept.row[t] # NoTask
    BY <1>3, Seen
  <2>2. Harmless(t, AprWrites("expired"))
    BY <1>2, <2>1, ClosingIsHarmless
  <2> QED
    BY <1>1, <1>3, <2>2, SeeKeeps
<1>4. CASE kept.apr[t] # "pending"
  BY <1>1, <1>4, NothingIsHarmless, SeeKeeps
<1> QED
  BY <1>3, <1>4

LEMMA CloseTransitionKeeps ==
  ASSUME RecoveryInv, NEW t \in Tasks, CloseTransition(t)
  PROVE  RecoveryInv'
<1> DEFINE a == IF kept.apr[t] \in {"pending", "approved"} THEN AprWrites("expired") ELSE <<>>
           q == IF ~kept.open[t] THEN <<>> ELSE a \o Committed
<1>1. up = "starting" /\ See(t, q)
  BY DEF CloseTransition, BootIs
<1>2. /\ IsList(a) /\ ~Has(a, LastKinds)
      /\ \A w \in Written(a) : w \in {Write("apr", "expired"), Write("aprCopy", "expired")}
  <2>1. IsList(<<>>) /\ ~Has(<<>>, LastKinds) /\ Written(<<>>) = {}
    BY NoWrites, HasNone
  <2>2. IsList(AprWrites("expired")) /\ Written(AprWrites("expired")) = {Write("apr", "expired"), Write("aprCopy", "expired")}
    BY AprList, StatesAre
  <2>3. ~Has(AprWrites("expired"), LastKinds)
    BY <2>2, Fields DEF Has, LastKinds
  <2> QED
    BY <2>1, <2>2, <2>3
<1> HIDE DEF a
<1>3. IsList(a \o Committed) /\ Written(a \o Committed) = Written(a) \cup {Closes}
  BY <1>2, JournalLists, Concat
<1>4. CASE kept.open[t]
  <2>1. ~Decided(t) /\ kept.row[t] # NoTask
    BY <1>4, Seen
  <2>2. Harmless(t, a \o Committed)
    BY <1>2, <1>3, <2>1, ClosingIsHarmless
  <2> QED
    BY <1>1, <1>4, <2>2, SeeKeeps
<1>5. CASE ~kept.open[t]
  BY <1>1, <1>5, NothingIsHarmless, SeeKeeps
<1> QED
  BY <1>4, <1>5

---------------------------------------------------------------------------
(* The run's thread goes on to what it does next.                          *)

\* The run has writes to do that it may do.
LEMMA RunMoves ==
  ASSUME RecoveryInv, up = "up", run.at # "idle", kept.told[run.task] = "nothing",
         run.at # "queued" \/ run.todo = <<>>, ~Has(run.todo, GateKinds),
         kept' = kept, up' = up, api' = api, boot' = [boot EXCEPT !.ok = boot'.ok],
         run'.task = run.task, run'.at # "idle", RunTyped',
         api.task = run.task => ~Has(run'.todo, GateKinds \cup {"worked"}),
         Has(run'.todo, GateKinds) => ~Decided(run.task),
         RunSettles', WorkIsApproved', RunEnds'
  PROVE  RecoveryInv'
<1>1. /\ KeptTyped /\ RunTyped /\ ApiTyped /\ BootTyped /\ UpTyped
      /\ ApiSettles /\ RunAgrees /\ NewTasksAreClean /\ RemoteAsksNothing
      /\ DecisionsAreFirm /\ ApiEnds /\ EndsAreFirm
  BY DEF RecoveryInv, RecoveryTyped
<1>2. /\ boot'.task = boot.task /\ boot'.todo = boot.todo /\ boot'.left = boot.left
      /\ boot' = [phase |-> boot'.phase, left |-> boot'.left, task |-> boot'.task, todo |-> boot'.todo, ok |-> boot'.ok]
  BY <1>1 DEF BootTyped
<1>3. RecoveryTyped'
  <2>1. BootTyped'
    BY <1>1, <1>2 DEF BootTyped
  <2>2. UpTyped'
    BY <1>1, <1>2 DEF UpTyped
  <2> QED
    BY <1>1, <2>1, <2>2 DEF RecoveryTyped, KeptTyped, ApiTyped
<1>4. ApiSettles'
  BY <1>1 DEF ApiSettles, Settling
<1>5. RunAgrees'
  BY <1>1 DEF RunAgrees, Agree
<1>6. run.task \in Tasks /\ kept.row[run.task] # NoTask
  BY <1>1 DEF RunTyped, NewTasksAreClean, RowComesFirst
<1>7. NewTasksAreClean'
  BY <1>1, <1>2, <1>6 DEF NewTasksAreClean, Agree
<1>8. RemoteAsksNothing' /\ ApiEnds'
  BY <1>1 DEF RemoteAsksNothing, ApiEnds, Ending
<1>9. DecisionsAreFirm'
  BY <1>1, <1>2 DEF DecisionsAreFirm, Decided, Agree
<1>10. EndsAreFirm'
  BY <1>1, <1>2 DEF EndsAreFirm
<1> QED
  BY <1>3, <1>4, <1>5, <1>7, <1>8, <1>9, <1>10 DEF RecoveryInv

\* What holds of a run's thread that has done its writes and has not ended.
LEMMA RunRests ==
  ASSUME RecoveryInv, up = "up", run.todo = <<>>, run.at \notin {"idle", "ended", "stuck"}
  PROVE  /\ run.task \in Tasks \ Remote /\ run.task # NoTask /\ kept.told[run.task] = "nothing"
         /\ \A kinds : ~Has(run.todo, kinds)
         /\ kept.row[run.task] # NoTask
         /\ ~ApiHolds <=> api.task # run.task
<1>1. RunTyped /\ NewTasksAreClean /\ EndsAreFirm
  BY DEF RecoveryInv, RecoveryTyped
<1>2. run.task \in Tasks \ Remote /\ run.task # NoTask
  BY <1>1, RunRecoveryAssumption DEF RunTyped
<1> QED
  BY <1>1, <1>2, HasNone DEF NewTasksAreClean, RowComesFirst, EndsAreFirm, ApiHolds

\* Writes that no other part of the system relies on.
LEMMA RunMovesPlainly ==
  ASSUME RecoveryInv, up = "up", run.todo = <<>>, run.at \notin {"idle", "ended", "stuck"},
         kept' = kept, up' = up, api' = api, boot' = boot,
         run'.task = run.task, run'.at # "idle", RunTyped',
         ~Has(run'.todo, GateKinds \cup LastKinds)
  PROVE  RecoveryInv'
<1>1. /\ run.task \in Tasks \ Remote /\ kept.told[run.task] = "nothing"
      /\ \A kinds : ~Has(run.todo, kinds)
  BY RunRests
<1>2. ~Has(run'.todo, GateKinds) /\ ~Has(run'.todo, GateKinds \cup {"worked"})
      /\ ~Has(run'.todo, {"worked"}) /\ ~Has(run'.todo, {"told"})
  BY DEF Has, LastKinds
<1>3. boot' = [boot EXCEPT !.ok = boot'.ok]
  BY DEF RecoveryInv, RecoveryTyped, BootTyped
<1>4. RunSettles' /\ WorkIsApproved' /\ RunEnds'
  BY <1>2 DEF RunSettles, WorkIsApproved, RunEnds
<1> QED
  BY <1>1, <1>2, <1>3, <1>4, RunMoves

\* The writes of an Approval, by a thread that has the gate to itself.
LEMMA RunMovesInGate ==
  ASSUME RecoveryInv, up = "up", run.todo = <<>>, run.at \in {"work", "wait"}, ~ApiHolds,
         kept' = kept, up' = up, api' = api, boot' = boot,
         run'.task = run.task, run'.at \in {"work", "wait"}, run'.gated, RunTyped',
         ~Has(run'.todo, LastKinds), ~Decided(run.task),
         NEW d \in AprStates,
         {Write("apr", d), Write("aprCopy", d), Closes} \subseteq Written(run'.todo),
         \A w \in Written(run'.todo) : w.on \in AprKinds => w.val = d
  PROVE  RecoveryInv'
<1>1. /\ run.task \in Tasks \ Remote /\ kept.told[run.task] = "nothing" /\ api.task # run.task
      /\ \A kinds : ~Has(run.todo, kinds)
  BY RunRests
<1>2. ~Has(run'.todo, {"worked"}) /\ ~Has(run'.todo, {"told"}) /\ ~Has(run'.todo, {"answer"})
  BY DEF Has, LastKinds
<1>3. boot' = [boot EXCEPT !.ok = boot'.ok]
  BY DEF RecoveryInv, RecoveryTyped, BootTyped
<1>4. Settling(run.task, run.todo, d)'
  BY <1>2 DEF Settling, Settles, Has
<1>5. RunSettles' /\ WorkIsApproved' /\ RunEnds'
  BY <1>1, <1>2, <1>4 DEF RunSettles, WorkIsApproved, RunEnds
<1> QED
  BY <1>1, <1>3, <1>5, RunMoves

\* The writes of the run's end.
LEMMA RunMovesToEnd ==
  ASSUME RecoveryInv, RunIs("queued") \/ RunIs("converge"), ~ApiHolds,
         NEW rec \in Recs, rec.status \in EndStates, GoOn("ended", EndWrites(rec), TRUE), kept' = kept
  PROVE  RecoveryInv'
<1>1. /\ up = "up" /\ run.todo = <<>> /\ run.at \in {"queued", "converge"}
      /\ run' = [run EXCEPT !.at = "ended", !.todo = EndWrites(rec), !.gated = TRUE]
      /\ up' = up /\ boot' = boot /\ api' = api
  BY DEF RunIs, GoOn
<1>2. /\ run.task \in Tasks \ Remote /\ kept.told[run.task] = "nothing" /\ api.task # run.task
      /\ \A kinds : ~Has(run.todo, kinds)
  BY <1>1, RunRests
<1>3. /\ RunTyped
      /\ boot' = [boot EXCEPT !.ok = boot'.ok]
  BY <1>1 DEF RecoveryInv, RecoveryTyped, BootTyped
<1>4. /\ run'.task = run.task /\ run'.at = "ended" /\ run'.todo = EndWrites(rec) /\ run'.gated
      /\ run'.mem = run.mem
      /\ run' = [task |-> run'.task, at |-> run'.at, todo |-> run'.todo, gated |-> run'.gated,
                 cancelled |-> run'.cancelled, mem |-> run'.mem]
  BY <1>1, <1>3 DEF RunTyped
<1> DEFINE q == EndWrites(rec)
<1>5. /\ IsList(q)
      /\ {Write("row", rec), Write("copy", rec), Write("told", rec.status)} \subseteq Written(q)
      /\ \A w \in Written(q) : \/ w.on \in {"state", "trace", "report"}
                               \/ w \in {Write("row", rec), Write("copy", rec), Write("told", rec.status)}
  BY EndList
<1> HIDE DEF q
<1>6. /\ Write("row", rec).on = "row" /\ Write("row", rec).val = rec
      /\ Write("copy", rec).on = "copy" /\ Write("copy", rec).val = rec
      /\ Write("told", rec.status).on = "told" /\ Write("told", rec.status).val = rec.status
  BY Fields
<1>7. \A w \in Written(q) : w.on \in {"state", "trace", "report", "row", "copy", "told"}
  BY <1>5, <1>6
<1>8. ~Has(q, {"answer", "token"}) /\ ~Has(q, GateKinds) /\ ~Has(q, {"worked"}) /\ ~Has(q, GateKinds \cup {"worked"})
  BY <1>7 DEF Has, GateKinds
<1>9. RunTyped'
  BY <1>2, <1>3, <1>4, <1>5, <1>8 DEF RunTyped, q
<1>10. Leaves(q, rec.status, kept.row[run.task], kept.copy[run.task])
  BY <1>5, <1>6 DEF Leaves, Has
<1>11. RunSettles' /\ WorkIsApproved'
  BY <1>4, <1>8 DEF RunSettles, WorkIsApproved, q
<1>12. RunEnds'
  BY <1>1, <1>2, <1>4, <1>10 DEF RunEnds, Ending, q
<1> QED
  BY <1>1, <1>2, <1>3, <1>4, <1>8, <1>9, <1>11, <1>12, RunMoves DEF q

\* Where a run is until it ends; a list no other part relies on; what its memory can be.
RunPlaces == {"queued", "lease", "copy", "work", "wait", "gate", "apply", "release", "rmtree", "converge"}

Fine(q) == IsList(q) /\ ~Has(q, GateKinds \cup LastKinds \cup {"token"})
Real(m) == m \in Recs /\ m.status \in {"completed", "stopped", "failed"}
Goes(at, q, g, m) == run' = [run EXCEPT !.at = at, !.todo = q, !.gated = g, !.mem = m]

LEMMA GoesOnPlainly ==
  ASSUME RecoveryInv, up = "up", run.todo = <<>>, run.at \in RunPlaces,
         NEW at \in RunPlaces, NEW q, NEW g \in BOOLEAN, NEW m,
         Fine(q), m # NoTask => Real(m), at = "gate" => m # NoTask, Goes(at, q, g, m),
         kept' = kept, up' = up, api' = api, boot' = boot
  PROVE  RecoveryInv'
<1>1. RunTyped /\ run.task \in Tasks \ Remote
  BY RunRests DEF RecoveryInv, RecoveryTyped, RunPlaces
<1>2. /\ run'.task = run.task /\ run'.at = at /\ run'.todo = q /\ run'.gated = g /\ run'.mem = m
      /\ run' = [task |-> run'.task, at |-> run'.at, todo |-> run'.todo, gated |-> run'.gated,
                 cancelled |-> run'.cancelled, mem |-> run'.mem]
  BY <1>1 DEF RunTyped, Goes
<1>3. IsList(q) /\ ~Has(q, {"answer", "token"}) /\ ~Has(q, GateKinds \cup LastKinds)
  BY DEF Has, LastKinds, Fine
<1>4. RunTyped'
  BY <1>1, <1>2, <1>3 DEF RunTyped, RunPlaces, Real
<1> QED
  BY <1>1, <1>2, <1>3, <1>4, RunMovesPlainly DEF RunPlaces

\* The lists that go with it.
LEMMA PlainLists ==
  /\ Fine(<<>>)
  /\ \A rec \in Recs : /\ Fine(RowWrites(rec))
                        /\ Fine(<<Write("state", rec), Write("trace", TRUE)>>)
                        /\ Fine(<<Write("state", rec), Write("report", rec)>>)
                        /\ Fine(<<Write("state", rec), Write("trace", TRUE), Write("report", rec)>>)
<1>1. Fine(<<>>)
  BY NoWrites, HasNone DEF Fine
<1>2. ASSUME NEW rec \in Recs
      PROVE  /\ Fine(RowWrites(rec))
             /\ Fine(<<Write("state", rec), Write("trace", TRUE)>>)
             /\ Fine(<<Write("state", rec), Write("report", rec)>>)
             /\ Fine(<<Write("state", rec), Write("trace", TRUE), Write("report", rec)>>)
  <2> DEFINE s == Write("state", rec)
             e == Write("trace", TRUE)
             p == Write("report", rec)
  <2>1. /\ Write("row", rec).on = "row" /\ Write("copy", rec).on = "copy"
        /\ e.on = "trace" /\ s.on = "state" /\ p.on = "report"
    BY Fields
  <2>2. Fine(RowWrites(rec))
    BY <2>1, RowList DEF Has, GateKinds, LastKinds, Fine
  <2>3. Writable(s) /\ s # Opens /\ Writable(p) /\ p # Opens /\ Writable(e) /\ e # Opens
    BY RecWritable, OtherWritable DEF RecKinds
  <2> HIDE DEF s, e, p
  <2>4. s.on \notin LastKinds /\ e.on \notin LastKinds /\ Opens \notin {s, e, p} /\ {s.on, e.on} \cap LastKinds = {}
    BY <2>1, <2>3 DEF LastKinds
  <2>5. ASSUME NEW q, IsList(q), Written(q) \subseteq {s, e, p} PROVE Fine(q)
    BY <2>1, <2>5 DEF Has, GateKinds, LastKinds, Fine
  <2>6. IsList(<<s, e>>) /\ Written(<<s, e>>) = {s, e}
    BY <2>3, <2>4, TwoWrites
  <2>7. IsList(<<s, p>>) /\ Written(<<s, p>>) = {s, p}
    BY <2>3, <2>4, TwoWrites
  <2>8. IsList(<<s, e, p>>) /\ Written(<<s, e, p>>) = {s, e, p}
    BY <2>3, <2>4, ThreeWrites
  <2>9. Fine(<<s, e>>) /\ Fine(<<s, p>>) /\ Fine(<<s, e, p>>)
    <3>1. Fine(<<s, e>>)
      BY <2>5, <2>6
    <3>2. Fine(<<s, p>>)
      BY <2>5, <2>7
    <3>3. Fine(<<s, e, p>>)
      BY <2>5, <2>8
    <3> QED
      BY <3>1, <3>2, <3>3
  <2> QED
    BY <2>2, <2>9 DEF s, e, p
<1> QED
  BY <1>1, <1>2

\* The steps of a run that write at most its records.
LEMMA PlainStepsKeep ==
  ASSUME RecoveryInv,
         \/ Begin /\ ~run.cancelled
         \/ Prepare \/ CopyWorkspace \/ LoopEnds \/ Gated \/ ApplyFile \/ Conflict \/ Applied
         \/ ReleaseLease \/ RemoveCopy
         \/ Answered /\ ~(kept.apr[run.task] = "approved" /\ ~run.cancelled)
  PROVE  RecoveryInv'
<1>1. RunTyped
  BY DEF RecoveryInv, RecoveryTyped
<1> DEFINE Kept  == kept' = kept /\ up' = up /\ api' = api /\ boot' = boot /\ up = "up" /\ run.todo = <<>>
           Moves == \E at \in RunPlaces, g \in BOOLEAN : \E q, m :
                      Fine(q) /\ (m # NoTask => Real(m)) /\ (at = "gate" => m # NoTask) /\ Goes(at, q, g, m)
<1>2. Kept /\ run.at \in RunPlaces /\ Moves
  <2>1. ASSUME NEW at, NEW q, NEW g, GoOn(at, q, g) PROVE Goes(at, q, g, run.mem)
    BY <1>1, <2>1 DEF GoOn, RunTyped, Goes
  <2>2. (run.mem # NoTask => Real(run.mem)) /\ run.gated \in BOOLEAN
    BY <1>1 DEF RunTyped, Real
  <2>3. /\ Fine(<<>>) /\ Fine(RowWrites(Running))
        /\ \A rec \in Recs :
             /\ Fine(<<Write("state", rec), Write("trace", TRUE)>>)
             /\ Fine(<<Write("state", rec), Write("report", rec)>>)
             /\ Fine(<<Write("state", rec), Write("trace", TRUE), Write("report", rec)>>)
    BY PlainLists, RecordsAre
  <2>4. ASSUME NEW at \in RunPlaces \ {"gate"}, NEW q, NEW g \in BOOLEAN, Fine(q), Goes(at, q, g, run.mem)
        PROVE  Moves
    BY <2>2, <2>4
  <2>5. ASSUME NEW m \in Ends \cup {Rec("stopped", "user_cancelled", "")} PROVE Real(m)
    <3>1. /\ {"completed", "stopped", "failed"} \subseteq Statuses
          /\ {"final_answer_returned", "step_limit_reached", "runtime_error", "user_cancelled"} \subseteq Reasons
          /\ {"", "text"} \subseteq Answers
      BY DEF Statuses, Reasons, Answers
    <3>2. Real(Rec("completed", "final_answer_returned", "text"))
      BY <3>1 DEF Rec, Recs, Real
    <3>3. Real(Rec("stopped", "step_limit_reached", "text"))
      BY <3>1 DEF Rec, Recs, Real
    <3>4. Real(Rec("failed", "runtime_error", "text"))
      BY <3>1 DEF Rec, Recs, Real
    <3>5. Real(Rec("stopped", "user_cancelled", ""))
      BY <3>1 DEF Rec, Recs, Real
    <3> QED
      BY <2>5, <3>2, <3>3, <3>4, <3>5 DEF Ends
  <2> HIDE DEF Moves
  <2> USE DEF RunPlaces
  <2>6. CASE Begin /\ ~run.cancelled
    <3>1. Kept /\ run.at = "queued" /\ GoOn("lease", RowWrites(Running), TRUE)
      BY <2>6 DEF Begin, RunIs, GoOn, Running
    <3> QED
      BY <2>1, <2>3, <2>4, <3>1
  <2>7. CASE Prepare
    <3>1. Kept /\ run.at = "lease" /\ (GoOn("copy", <<>>, FALSE) \/ GoOn("converge", <<>>, FALSE))
      BY <2>7 DEF Prepare, RunIs, GoOn
    <3> QED
      BY <2>1, <2>3, <2>4, <3>1
  <2>8. CASE CopyWorkspace
    <3>1. Kept /\ run.at = "copy" /\ GoOn("work", <<Write("state", Running), Write("trace", TRUE)>>, FALSE)
      BY <2>8 DEF CopyWorkspace, RunIs, GoOn, Running
    <3> QED
      BY <2>1, <2>3, <2>4, <3>1, RecordsAre
  <2>9. CASE Answered /\ ~(kept.apr[run.task] = "approved" /\ ~run.cancelled)
    <3>1. Kept /\ run.at = "wait" /\ GoOn("work", <<>>, FALSE)
      BY <2>9 DEF Answered, RunIs, GoOn
    <3> QED
      BY <2>1, <2>3, <2>4, <3>1
  <2>10. CASE ApplyFile \/ Conflict \/ Applied \/ ReleaseLease \/ RemoveCopy
    <3>1. /\ Kept /\ run.at \in {"apply", "release", "rmtree"}
          /\ \E at \in {"apply", "release", "rmtree", "converge"} : GoOn(at, <<>>, FALSE)
      BY <2>10 DEF ApplyFile, Conflict, Applied, ReleaseLease, RemoveCopy, RunIs, GoOn
    <3> QED
      BY <2>1, <2>3, <2>4, <3>1
  <2>11. CASE LoopEnds
    <3>1. PICK rec \in Ends \cup {Rec("stopped", "user_cancelled", "")} :
            run' = [run EXCEPT !.at = "gate", !.mem = rec, !.gated = FALSE,
                       !.todo = <<Write("state", rec), Write("trace", TRUE), Write("report", rec)>>]
      BY <2>11 DEF LoopEnds
    <3>2. Kept /\ run.at = "work"
      BY <2>11 DEF LoopEnds, RunIs
    <3> DEFINE q == <<Write("state", rec), Write("trace", TRUE), Write("report", rec)>>
    <3> HIDE DEF q
    <3>3. Goes("gate", q, FALSE, rec)
      BY <1>1, <3>1 DEF Goes, RunTyped, q
    <3>4. Real(rec) /\ rec # NoTask /\ Fine(q)
      BY <2>3, <2>5, <3>1, NoRecord DEF q, Real
    <3> QED
      BY <3>2, <3>3, <3>4 DEF Moves
  <2>12. CASE Gated
    <3>1. PICK rec \in {run.mem} \cup {Rec("stopped", "step_limit_reached", "text")} :
            run' = [run EXCEPT !.at = "apply", !.mem = rec,
                       !.todo = <<Write("state", rec), Write("report", rec)>>]
      BY <2>12 DEF Gated
    <3>2. Kept /\ run.at = "gate"
      BY <2>12 DEF Gated, RunIs
    <3> DEFINE q == <<Write("state", rec), Write("report", rec)>>
    <3> HIDE DEF q
    <3>3. Goes("apply", q, run.gated, rec)
      BY <1>1, <3>1 DEF Goes, RunTyped, q
    <3>4. Real(rec)
      BY <1>1, <2>2, <2>5, <3>1, <3>2 DEF RunTyped, Ends
    <3>5. Fine(q)
      BY <2>3, <3>4 DEF q, Real
    <3> QED
      BY <2>2, <3>2, <3>3, <3>4, <3>5 DEF Moves
  <2> QED
    BY <2>6, <2>7, <2>8, <2>9, <2>10, <2>11, <2>12
<1>3. PICK at \in RunPlaces, g \in BOOLEAN : \E q, m :
        Fine(q) /\ (m # NoTask => Real(m)) /\ (at = "gate" => m # NoTask) /\ Goes(at, q, g, m)
  BY <1>2
<1>4. PICK q, m : Fine(q) /\ (m # NoTask => Real(m)) /\ (at = "gate" => m # NoTask) /\ Goes(at, q, g, m)
  BY <1>3
<1> QED
  BY <1>2, <1>4, GoesOnPlainly

LEMMA GateStepsKeep ==
  ASSUME RecoveryInv, AskApproval \/ Expire
  PROVE  RecoveryInv'
<1>1. RunTyped
  BY DEF RecoveryInv, RecoveryTyped
<1> DEFINE a == Begun \o AprWrites("pending") \o RowWrites(Waiting) \o Committed
<1>2. PICK d \in {"pending", "expired"}, at \in {"wait", "work"}, q \in {a, ResolveWrites("expired")} :
        /\ d = "pending" => q = a
        /\ d = "expired" => q = ResolveWrites("expired")
        /\ GoOn(at, q, TRUE) /\ kept' = kept
        /\ up = "up" /\ run.todo = <<>> /\ run.at \in {"work", "wait"} /\ ~ApiHolds
        /\ kept.apr[run.task] \in {"none", "pending"}
  BY DEF AskApproval, Expire, RunIs, Waiting
<1> HIDE DEF a
<1>3. /\ IsList(q) /\ d \in AprStates
      /\ Written(q) \in {{Opens, Closes, Write("apr", d), Write("aprCopy", d), Write("row", rec), Write("copy", rec)} :
                          rec \in {Waiting, Running}}
  BY <1>2, AskList, ResolveList, StatesAre DEF a
<1>4. PICK rec \in {Waiting, Running} :
        Written(q) = {Opens, Closes, Write("apr", d), Write("aprCopy", d), Write("row", rec), Write("copy", rec)}
  BY <1>3
<1>5. /\ Write("apr", d).on = "apr" /\ Write("apr", d).val = d
      /\ Write("aprCopy", d).on = "aprCopy" /\ Write("aprCopy", d).val = d
      /\ Write("row", rec).on = "row" /\ Write("copy", rec).on = "copy"
      /\ Opens.on = "open" /\ Closes.on = "open"
  BY Fields, JournalWrites
<1>6. \A w \in Written(q) : w.on \in {"open", "apr", "aprCopy", "row", "copy"} /\ (w.on \in AprKinds => w.val = d)
  BY <1>4, <1>5 DEF AprKinds
<1>7. ~Has(q, LastKinds) /\ ~Has(q, {"answer", "token"})
  BY <1>6 DEF Has, LastKinds
<1>8. /\ run' = [run EXCEPT !.at = at, !.todo = q, !.gated = TRUE]
      /\ up' = up /\ boot' = boot /\ api' = api
  BY <1>2 DEF GoOn
<1>9. /\ run'.task = run.task /\ run'.at = at /\ run'.todo = q /\ run'.gated /\ run'.mem = run.mem
      /\ run' = [task |-> run'.task, at |-> run'.at, todo |-> run'.todo, gated |-> run'.gated,
                 cancelled |-> run'.cancelled, mem |-> run'.mem]
  BY <1>1, <1>8 DEF RunTyped
<1>10. run.task \in Tasks \ Remote
  BY <1>2, RunRests
<1>11. RunTyped'
  BY <1>1, <1>3, <1>7, <1>9, <1>10 DEF RunTyped
<1>12. ~Decided(run.task)
  BY <1>2, <1>10, Seen
<1>13. {Write("apr", d), Write("aprCopy", d), Closes} \subseteq Written(q)
  BY <1>4
<1> QED
  BY <1>2, <1>3, <1>6, <1>7, <1>8, <1>9, <1>11, <1>12, <1>13, RunMovesInGate

LEMMA AnsweredKeeps ==
  ASSUME RecoveryInv, Answered, kept.apr[run.task] = "approved", ~run.cancelled
  PROVE  RecoveryInv'
<1> DEFINE q == <<Write("worked", TRUE)>>
<1>1. /\ up = "up" /\ run.todo = <<>> /\ run.at = "wait" /\ ~ApiHolds
      /\ run' = [run EXCEPT !.at = "work", !.todo = q, !.gated = FALSE]
      /\ kept' = kept /\ up' = up /\ boot' = boot /\ api' = api
  BY DEF Answered, RunIs, GoOn
<1>2. Write("worked", TRUE).on = "worked" /\ IsList(q) /\ Written(q) = {Write("worked", TRUE)}
  BY Fields, OtherWritable, OneWrite
<1> HIDE DEF q
<1>3. ~Has(q, {"answer", "token"}) /\ ~Has(q, GateKinds) /\ ~Has(q, {"told"})
  BY <1>2 DEF Has, GateKinds
<1>4. /\ run.task \in Tasks \ Remote /\ kept.told[run.task] = "nothing" /\ api.task # run.task
      /\ \A kinds : ~Has(run.todo, kinds)
  BY <1>1, RunRests
<1>5. /\ RunTyped /\ RunAgrees
      /\ boot' = [boot EXCEPT !.ok = boot'.ok]
  BY <1>1 DEF RecoveryInv, RecoveryTyped, BootTyped
<1>6. /\ run'.task = run.task /\ run'.at = "work" /\ run'.todo = q /\ run'.gated = FALSE /\ run'.mem = run.mem
      /\ run' = [task |-> run'.task, at |-> run'.at, todo |-> run'.todo, gated |-> run'.gated,
                 cancelled |-> run'.cancelled, mem |-> run'.mem]
  BY <1>1, <1>5 DEF RunTyped
<1>7. RunTyped'
  BY <1>2, <1>3, <1>4, <1>5, <1>6 DEF RunTyped
<1>8. WorkIsApproved'
  BY <1>1, <1>4, <1>5, <1>6 DEF WorkIsApproved, RunAgrees, Agree
<1>9. RunSettles' /\ RunEnds'
  BY <1>3, <1>6 DEF RunSettles, RunEnds
<1> QED
  BY <1>1, <1>3, <1>4, <1>5, <1>6, <1>7, <1>8, <1>9, RunMoves

LEMMA EndStepsKeep ==
  ASSUME RecoveryInv, Converge \/ (Begin /\ run.cancelled)
  PROVE  RecoveryInv'
<1>1. RunTyped
  BY DEF RecoveryInv, RecoveryTyped
<1>2. CASE Converge
  <2>1. Outcome \in Recs /\ Outcome.status \in EndStates
    <3>1. /\ {"", "user_cancelled", "runtime_error"} \subseteq Reasons /\ "" \in Answers
          /\ {"cancelled", "failed", "completed", "blocked"} \subseteq Statuses \cap EndStates
      BY DEF Reasons, Answers, Statuses, EndStates, Active
    <3>2. ASSUME NEW s \in {"cancelled", "failed", "completed", "blocked"}, NEW r \in Reasons, NEW x \in Answers
          PROVE  Rec(s, r, x) \in Recs /\ Rec(s, r, x).status \in EndStates
      BY <3>1 DEF Rec, Recs
    <3>3. run.mem # NoTask => run.mem.reason \in Reasons /\ run.mem.answer \in Answers
      BY <1>1 DEF RunTyped, Recs
    <3> QED
      BY <3>1, <3>2, <3>3 DEF Outcome
  <2> QED
    BY <1>2, <2>1, RunMovesToEnd DEF Converge
<1>3. CASE Begin /\ run.cancelled
  <2>1. GoOn("ended", EndWrites(Cancelled), TRUE) /\ kept' = kept /\ RunIs("queued") /\ ~ApiHolds
    BY <1>3 DEF Begin, Cancelled
  <2>2. Cancelled \in Recs /\ Cancelled.status \in EndStates
    BY RecordsAre, StatesAre
  <2> QED
    BY <2>1, <2>2, RunMovesToEnd
<1> QED
  BY <1>2, <1>3

LEMMA EndFailsKeeps ==
  ASSUME RecoveryInv, EndFails
  PROVE  RecoveryInv'
<1>1. /\ up = "up" /\ run.at = "ended" /\ run.todo # <<>>
      /\ run' = [run EXCEPT !.at = "stuck", !.todo = <<>>]
      /\ boot' = [boot EXCEPT !.ok = FALSE]
      /\ kept' = kept /\ up' = up /\ api' = api
  BY DEF EndFails
<1>2. RunTyped /\ BootTyped /\ RunSettles /\ EndsAreFirm
  BY DEF RecoveryInv, RecoveryTyped
<1>3. run.task \in Tasks \ Remote /\ kept.told[run.task] = "nothing" /\ ~Has(run.todo, GateKinds)
  BY <1>1, <1>2 DEF RunTyped, EndsAreFirm, RunSettles
<1>4. /\ run'.task = run.task /\ run'.at = "stuck" /\ run'.todo = <<>> /\ run'.gated = run.gated /\ run'.mem = run.mem
      /\ run' = [task |-> run'.task, at |-> run'.at, todo |-> run'.todo, gated |-> run'.gated,
                 cancelled |-> run'.cancelled, mem |-> run'.mem]
      /\ boot' = [boot EXCEPT !.ok = boot'.ok]
  BY <1>1, <1>2 DEF RunTyped, BootTyped
<1>5. IsList(<<>>) /\ \A kinds : ~Has(<<>>, kinds)
  BY NoWrites, HasNone
<1>6. RunTyped'
  BY <1>2, <1>3, <1>4, <1>5 DEF RunTyped
<1>7. RunSettles' /\ WorkIsApproved' /\ RunEnds'
  BY <1>4, <1>5 DEF RunSettles, WorkIsApproved, RunEnds
<1> QED
  BY <1>1, <1>3, <1>4, <1>5, <1>6, <1>7, RunMoves

LEMMA CreateKeeps ==
  ASSUME RecoveryInv, NEW t \in Tasks, Create(t)
  PROVE  RecoveryInv'
<1> DEFINE q == RowWrites(Queued)
<1>1. /\ up = "up" /\ run = Idle /\ t \notin Remote /\ kept.row[t] = NoTask /\ kept.told[t] = "nothing"
      /\ run' = [Idle EXCEPT !.task = t, !.at = "queued", !.gated = TRUE, !.todo = q]
      /\ kept' = kept /\ up' = up /\ boot' = boot /\ api' = api
  BY DEF Create, Ready, Queued
<1>2. /\ KeptTyped /\ ApiTyped /\ BootTyped /\ UpTyped
      /\ ApiSettles /\ NewTasksAreClean /\ RemoteAsksNothing /\ DecisionsAreFirm /\ ApiEnds /\ EndsAreFirm
  BY DEF RecoveryInv, RecoveryTyped
<1>3. /\ IsList(q) /\ Written(q) = {Write("row", Queued), Write("copy", Queued)}
      /\ Write("row", Queued).on = "row" /\ Write("copy", Queued).on = "copy"
  BY RowList, RecordsAre, Fields
<1>4. q # <<>> /\ Head(q).on = "row"
  <2>1. q = <<Write("row", Queued), Write("copy", Queued)>>
    BY DEF RowWrites
  <2> QED
    BY <1>3, <2>1
<1> HIDE DEF q
<1>5. /\ ~Has(q, GateKinds \cup LastKinds) /\ ~Has(q, GateKinds) /\ ~Has(q, {"worked"}) /\ ~Has(q, {"told"})
      /\ ~Has(q, {"answer", "token"}) /\ ~Has(q, GateKinds \cup {"worked"})
  BY <1>3 DEF Has, GateKinds, LastKinds
<1>6. /\ run'.task = t /\ run'.at = "queued" /\ run'.todo = q /\ run'.gated = TRUE /\ run'.mem = NoTask
      /\ run' = [task |-> run'.task, at |-> run'.at, todo |-> run'.todo, gated |-> run'.gated,
                 cancelled |-> run'.cancelled, mem |-> run'.mem]
  BY <1>1 DEF Idle
<1>7. run.task = NoTask /\ run.todo = <<>> /\ NoTask \notin Tasks
  BY <1>1, RunRecoveryAssumption DEF Idle
<1>8. RecoveryTyped'
  <2>1. RunTyped'
    BY <1>1, <1>3, <1>5, <1>6 DEF RunTyped
  <2>2. UpTyped'
    BY <1>1, <1>2 DEF UpTyped
  <2> QED
    BY <1>1, <1>2, <2>1, <2>2 DEF RecoveryTyped, KeptTyped, ApiTyped, BootTyped
<1>9. RunSettles' /\ WorkIsApproved' /\ RunEnds'
  BY <1>5, <1>6 DEF RunSettles, WorkIsApproved, RunEnds
<1>10. ApiSettles' /\ RemoteAsksNothing' /\ ApiEnds'
  BY <1>1, <1>2, <1>5, <1>6 DEF ApiSettles, Settling, RemoteAsksNothing, ApiEnds, Ending
<1>11. RunAgrees'
  BY <1>1, <1>2, <1>6 DEF RunAgrees, NewTasksAreClean, Agree
<1>12. NewTasksAreClean'
  BY <1>1, <1>2, <1>4, <1>5, <1>6 DEF NewTasksAreClean, Agree, RowComesFirst
<1>13. DecisionsAreFirm'
  BY <1>1, <1>2, <1>5, <1>6 DEF DecisionsAreFirm, Decided, Agree
<1>14. EndsAreFirm'
  BY <1>1, <1>2, <1>6 DEF EndsAreFirm
<1> QED
  BY <1>8, <1>9, <1>10, <1>11, <1>12, <1>13, <1>14 DEF RecoveryInv

\* A run's thread that is gone.
LEMMA IdleTyped ==
  /\ Idle.task = NoTask /\ Idle.at = "idle" /\ Idle.todo = <<>> /\ Idle.gated = FALSE /\ Idle.mem = NoTask
  /\ Idle = [task |-> Idle.task, at |-> Idle.at, todo |-> Idle.todo, gated |-> Idle.gated,
             cancelled |-> Idle.cancelled, mem |-> Idle.mem]
  /\ Quiet.task = NoTask /\ Quiet.todo = <<>> /\ Quiet = [task |-> Quiet.task, todo |-> Quiet.todo]
  /\ IsList(<<>>) /\ Written(<<>>) = {} /\ \A kinds : ~Has(<<>>, kinds)
  /\ NoTask \notin Tasks
BY NoWrites, HasNone, RunRecoveryAssumption DEF Idle, Quiet

LEMMA ReleaseKeeps ==
  ASSUME RecoveryInv, Release
  PROVE  RecoveryInv'
<1>1. up = "up" /\ run' = Idle /\ kept' = kept /\ up' = up /\ boot' = boot /\ api' = api
  BY DEF Release, RunIs
<1>2. /\ KeptTyped /\ ApiTyped /\ BootTyped /\ UpTyped
      /\ ApiSettles /\ NewTasksAreClean /\ RemoteAsksNothing /\ DecisionsAreFirm /\ ApiEnds /\ EndsAreFirm
  BY DEF RecoveryInv, RecoveryTyped
<1>3. RecoveryTyped'
  <2>1. RunTyped'
    BY <1>1, IdleTyped DEF RunTyped
  <2>2. UpTyped'
    BY <1>1, <1>2 DEF UpTyped
  <2> QED
    BY <1>1, <1>2, <2>1, <2>2 DEF RecoveryTyped, KeptTyped, ApiTyped, BootTyped
<1>4. RunSettles' /\ WorkIsApproved' /\ RunEnds' /\ RunAgrees'
  BY <1>1, IdleTyped DEF RunSettles, WorkIsApproved, RunEnds, RunAgrees
<1>5. ApiSettles' /\ RemoteAsksNothing' /\ ApiEnds'
  BY <1>1, <1>2, IdleTyped DEF ApiSettles, Settling, RemoteAsksNothing, ApiEnds, Ending
<1>6. NewTasksAreClean' /\ DecisionsAreFirm' /\ EndsAreFirm'
  BY <1>1, <1>2, IdleTyped DEF NewTasksAreClean, DecisionsAreFirm, EndsAreFirm, Decided, Agree
<1> QED
  BY <1>3, <1>4, <1>5, <1>6 DEF RecoveryInv

---------------------------------------------------------------------------
(* The API's thread takes up what it does.                                 *)

LEMMA ApiMoves ==
  ASSUME RecoveryInv, NEW t \in Tasks, NEW q, ApiDoes(t, q),
         IsList(q), q # <<>>, ~Has(q, {"worked"}),
         kept.row[t] # NoTask \/ t \in Remote,
         kept.told[t] # "nothing" => ~Has(q, {"row", "copy"}),
         t \in Remote => ~Has(q, GateKinds \cup {"answer"}),
         Has(q, GateKinds \cup {"answer"}) =>
           ~Decided(t) /\ (t = run.task => ~Has(run.todo, {"worked"})) /\ \E d \in AprStates : Settling(t, q, d),
         Has(q, {"told"}) => t \in Remote /\ \E s \in EndStates : Ending(t, q, s)
  PROVE  RecoveryInv'
<1>1. /\ up = "up" /\ api = Quiet /\ ~(t = run.task /\ RunHolds)
      /\ api' = [task |-> t, todo |-> q]
      /\ kept' = kept /\ up' = up /\ boot' = boot /\ run' = run
  BY DEF ApiDoes
<1>2. /\ KeptTyped /\ RunTyped /\ BootTyped /\ UpTyped
      /\ RunSettles /\ RunAgrees /\ WorkIsApproved /\ NewTasksAreClean
      /\ DecisionsAreFirm /\ RunEnds /\ EndsAreFirm
  BY DEF RecoveryInv, RecoveryTyped
<1>3. api'.task = t /\ api'.todo = q /\ api.task = NoTask /\ api.todo = <<>> /\ t # NoTask
  BY <1>1, RunRecoveryAssumption DEF Quiet
<1>4. /\ Has(q, GateKinds) => Has(q, GateKinds \cup {"answer"})
      /\ Has(run.todo, GateKinds \cup {"worked"}) <=> (Has(run.todo, GateKinds) \/ Has(run.todo, {"worked"}))
      /\ \A kinds : Has(run.todo, kinds) => run.todo # <<>>
  BY HasNone DEF Has
<1>5. t = run.task => ~Has(run.todo, GateKinds) /\ ~Has(run.todo, {"told"})
  BY <1>1, <1>2, <1>4 DEF RunHolds, RunSettles, RunEnds
<1>6. RecoveryTyped'
  <2>1. ApiTyped'
    BY <1>1, <1>3 DEF ApiTyped
  <2>2. UpTyped'
    BY <1>1, <1>2 DEF UpTyped
  <2> QED
    BY <1>1, <1>2, <2>1, <2>2 DEF RecoveryTyped, KeptTyped, RunTyped, BootTyped
<1>7. RunSettles' /\ RunEnds'
  BY <1>1, <1>2, <1>3, <1>5 DEF RunSettles, Settling, RunEnds, Ending
<1>8. ApiSettles' /\ ApiEnds'
  BY <1>1, <1>3, <1>4, <1>5 DEF ApiSettles, Settling, ApiEnds, Ending
<1>9. RunAgrees'
  <2>1. run.at # "idle" => run.task # NoTask
    BY <1>2, RunRecoveryAssumption DEF RunTyped
  <2> QED
    BY <1>1, <1>2, <1>3, <2>1 DEF RunAgrees, Agree
<1>10. WorkIsApproved'
  BY <1>1, <1>2, <1>3 DEF WorkIsApproved, Agree
<1>11. NewTasksAreClean' /\ RemoteAsksNothing'
  BY <1>1, <1>2, <1>3 DEF NewTasksAreClean, RemoteAsksNothing, Agree
<1>12. DecisionsAreFirm'
  BY <1>1, <1>2, <1>3, <1>4 DEF DecisionsAreFirm, Decided, Agree
<1>13. EndsAreFirm'
  BY <1>1, <1>2, <1>3 DEF EndsAreFirm
<1> QED
  BY <1>6, <1>7, <1>8, <1>9, <1>10, <1>11, <1>12, <1>13 DEF RecoveryInv

\* A list that begins with the writes of a row is not empty.
LEMMA RowFirstOf ==
  ASSUME NEW rec, NEW q, Write("row", rec) \in Written(q)
  PROVE  q # <<>>
BY NoWrites

LEMMA CancelKeeps ==
  ASSUME RecoveryInv, Cancel
  PROVE  RecoveryInv'
<1> DEFINE t == run.task
           x == IF kept.apr[t] = "pending" THEN AprWrites("cancelled") ELSE <<>>
           q == RowWrites(Asked) \o <<Write("token", TRUE)>> \o x
<1>1. /\ t # NoTask /\ run.at \notin {"idle", "stuck"} /\ kept.row[t] # NoTask /\ kept.row[t].status \in Active
      /\ ApiDoes(t, q)
  BY DEF Cancel, Known, Asked
<1>2. RunTyped /\ RunAgrees /\ WorkIsApproved
  BY DEF RecoveryInv, RecoveryTyped
<1>3. t \in Tasks \ Remote /\ x \in {<<>>, AprWrites("cancelled")}
  BY <1>1, <1>2 DEF RunTyped
<1>4. /\ IsList(q)
      /\ Written(q) = {Write("row", Asked), Write("copy", Asked), Write("token", TRUE)} \cup Written(x)
  BY <1>3, CancelList
<1>5. Written(x) = IF kept.apr[t] = "pending" THEN {Write("apr", "cancelled"), Write("aprCopy", "cancelled")} ELSE {}
  BY NoWrites, AprList, StatesAre
<1> HIDE DEF q, x
<1>6. /\ Write("row", Asked).on = "row" /\ Write("copy", Asked).on = "copy" /\ Write("token", TRUE).on = "token"
      /\ Write("apr", "cancelled").on = "apr" /\ Write("apr", "cancelled").val = "cancelled"
      /\ Write("aprCopy", "cancelled").on = "aprCopy" /\ Write("aprCopy", "cancelled").val = "cancelled"
      /\ Closes.on = "open"
  BY JournalWrites DEF Write
<1>7. q # <<>> /\ ~Has(q, {"worked"}) /\ ~Has(q, {"told"})
  BY <1>4, <1>5, <1>6, NoWrites DEF Has
<1>8. kept.told[t] = "nothing"
  BY <1>1, <1>3, Seen
<1>9. ASSUME Has(q, GateKinds \cup {"answer"})
      PROVE  ~Decided(t) /\ (t = run.task => ~Has(run.todo, {"worked"})) /\ \E d \in AprStates : Settling(t, q, d)
  <2>1. kept.apr[t] = "pending"
    BY <1>4, <1>5, <1>6, <1>9 DEF Has, GateKinds
  <2>2. ~Decided(t)
    BY <1>3, <2>1, Seen
  <2>3. ~Has(run.todo, {"worked"})
    BY <1>2, <2>1 DEF WorkIsApproved, t
  <2>4. ~Has(run.todo, GateKinds)
    <3>1. ~RunHolds
      BY <1>1 DEF ApiDoes, t
    <3>2. RunSettles
      BY DEF RecoveryInv
    <3> QED
      BY <3>1, <3>2, HasNone DEF RunSettles, RunHolds
  <2>5. ~kept.open[t]
    <3>1. api.task = NoTask
      BY <1>1 DEF ApiDoes, Quiet
    <3> QED
      BY <1>1, <1>2, <2>4, <3>1 DEF RunAgrees, Agree, t
  <2>6. Settling(t, q, "cancelled")
    <3>1. Write("apr", "cancelled") \in Written(q) /\ Write("aprCopy", "cancelled") \in Written(q)
      BY <1>4, <1>5, <2>1
    <3>2. \A w \in Written(q) : w.on \in AprKinds \cup {"answer"} => w.val = "cancelled"
      BY <1>4, <1>5, <1>6, <2>1 DEF AprKinds
    <3> QED
      BY <2>5, <3>1, <3>2 DEF Settling, Settles
  <2> QED
    BY <2>2, <2>3, <2>6, StatesAre
<1> QED
  BY <1>1, <1>3, <1>4, <1>7, <1>8, <1>9, ApiMoves

LEMMA DecideKeeps ==
  ASSUME RecoveryInv, NEW d \in {"approved", "rejected"}, Decide(d)
  PROVE  RecoveryInv'
<1> DEFINE t == run.task
           q == ResolveWrites(d) \o <<Write("answer", d)>>
<1>1. run.at = "wait" /\ kept.apr[t] = "pending" /\ ApiDoes(t, q)
  BY DEF Decide
<1>2. RunTyped /\ WorkIsApproved /\ NewTasksAreClean /\ EndsAreFirm
  BY DEF RecoveryInv, RecoveryTyped
<1>3. t \in Tasks \ Remote
  BY <1>1, <1>2 DEF RunTyped
<1>4. /\ IsList(q)
      /\ Written(q) = {Opens, Closes, Write("apr", d), Write("aprCopy", d), Write("row", Running),
                       Write("copy", Running), Write("answer", d)}
  BY DecideList
<1> HIDE DEF q
<1>5. /\ Write("row", Running).on = "row" /\ Write("copy", Running).on = "copy"
      /\ Write("apr", d).on = "apr" /\ Write("apr", d).val = d
      /\ Write("aprCopy", d).on = "aprCopy" /\ Write("aprCopy", d).val = d
      /\ Write("answer", d).on = "answer" /\ Write("answer", d).val = d
      /\ Opens.on = "open" /\ Closes.on = "open"
  BY Fields, JournalWrites
<1>6. q # <<>> /\ ~Has(q, {"worked"}) /\ ~Has(q, {"told"})
  BY <1>4, <1>5, NoWrites DEF Has
<1>7. kept.told[t] = "nothing" /\ kept.row[t] # NoTask /\ ~Has(run.todo, {"worked"})
  BY <1>1, <1>2, <1>3 DEF EndsAreFirm, NewTasksAreClean, WorkIsApproved
<1>8. ~Decided(t)
  BY <1>1, <1>3, Seen
<1>9. Settling(t, q, d)
  BY <1>4, <1>5 DEF Settling, Settles, AprKinds
<1>10. d \in AprStates
  BY StatesAre
<1> QED
  BY <1>1, <1>3, <1>4, <1>6, <1>7, <1>8, <1>9, <1>10, ApiMoves

LEMMA RemoteKeeps ==
  ASSUME RecoveryInv, NEW t \in Tasks, RemoteStart(t) \/ RemoteEnds(t)
  PROVE  RecoveryInv'
<1>1. CASE RemoteStart(t)
  <2> DEFINE q == RowWrites(Queued) \o RowWrites(Running)
  <2>1. t \in Remote /\ kept.told[t] = "nothing" /\ ApiDoes(t, q)
    BY <1>1 DEF RemoteStart, Queued, Running
  <2>2. IsList(q) /\ \A w \in Written(q) : w.on \in {"row", "copy"}
    BY RemoteLists
  <2>3. q # <<>>
    <3>1. RowWrites(Queued) \in Seq(Written(RowWrites(Queued))) /\ RowWrites(Running) \in Seq(Written(RowWrites(Running)))
          /\ IsList(RowWrites(Queued)) /\ ~Has(RowWrites(Queued), LastKinds) /\ IsList(RowWrites(Running))
          /\ Write("row", Queued) \in Written(RowWrites(Queued))
      BY RowList, RowsAreLoose, RecordsAre DEF IsList
    <3>2. Written(q) = Written(RowWrites(Queued)) \cup Written(RowWrites(Running))
      BY <3>1, Concat
    <3> QED
      BY <3>1, <3>2, RowFirstOf
  <2> HIDE DEF q
  <2>4. ~Has(q, {"worked"}) /\ ~Has(q, {"told"}) /\ ~Has(q, GateKinds \cup {"answer"})
    BY <2>2 DEF Has, GateKinds
  <2> QED
    BY <2>1, <2>2, <2>3, <2>4, ApiMoves
<1>2. CASE RemoteEnds(t)
  <2> DEFINE q == RowWrites(Completed) \o <<Write("told", "completed")>>
  <2>1. t \in Remote /\ kept.row[t] # NoTask /\ kept.row[t].status \in Active /\ ApiDoes(t, q)
    BY <1>2 DEF RemoteEnds, Completed, Known, Active
  <2>2. IsList(q) /\ Written(q) = {Write("row", Completed), Write("copy", Completed), Write("told", "completed")}
    BY RemoteLists
  <2> HIDE DEF q
  <2>3. /\ Write("row", Completed).on = "row" /\ Write("row", Completed).val = Completed
        /\ Write("copy", Completed).on = "copy" /\ Write("copy", Completed).val = Completed
        /\ Write("told", "completed").on = "told" /\ Write("told", "completed").val = "completed"
        /\ Completed.status = "completed"
    BY Fields, RecordsAre
  <2>4. q # <<>> /\ ~Has(q, {"worked"}) /\ ~Has(q, GateKinds \cup {"answer"})
    BY <2>2, <2>3, NoWrites DEF Has, GateKinds
  <2>5. Ending(t, q, "completed") /\ "completed" \in EndStates
    BY <2>2, <2>3, StatesAre DEF Ending, Leaves, Has
  <2>6. kept.told[t] = "nothing"
    BY <2>1, Seen
  <2> QED
    BY <2>1, <2>2, <2>4, <2>5, <2>6, ApiMoves
<1> QED
  BY <1>1, <1>2

---------------------------------------------------------------------------
(* The restart and the crash.                                              *)

\* Steps that only say how far the restart has come.
LEMMA BootMoves ==
  ASSUME RecoveryInv, kept' = kept, run' = run, api' = api,
         BootTyped', boot'.todo = <<>>, up' \in {"down", "starting", "up"},
         up' # "up" => run = Idle /\ api = Quiet
  PROVE  RecoveryInv'
<1>1. /\ KeptTyped /\ RunTyped /\ ApiTyped
      /\ RunSettles /\ ApiSettles /\ RunAgrees /\ WorkIsApproved /\ NewTasksAreClean /\ RemoteAsksNothing
      /\ DecisionsAreFirm /\ RunEnds /\ ApiEnds /\ EndsAreFirm
  BY DEF RecoveryInv, RecoveryTyped
<1>2. RecoveryTyped'
  BY <1>1 DEF RecoveryTyped, KeptTyped, RunTyped, ApiTyped, UpTyped
<1>3. RunSettles' /\ ApiSettles' /\ RunAgrees' /\ WorkIsApproved' /\ RemoteAsksNothing' /\ RunEnds' /\ ApiEnds'
  BY <1>1 DEF RunSettles, ApiSettles, RunAgrees, WorkIsApproved, RemoteAsksNothing, RunEnds, ApiEnds,
              Settling, Ending, Agree
<1>4. NewTasksAreClean' /\ DecisionsAreFirm' /\ EndsAreFirm'
  BY <1>1, NoWrites, HasNone DEF NewTasksAreClean, DecisionsAreFirm, EndsAreFirm, Decided, Agree
<1> QED
  BY <1>2, <1>3, <1>4 DEF RecoveryInv

LEMMA BootStepsKeep ==
  ASSUME RecoveryInv, Boot \/ RecoverExpired \/ NextPhase \/ ImportFails \/ BootFails
  PROVE  RecoveryInv'
<1>1. BootTyped /\ UpTyped
  BY DEF RecoveryInv, RecoveryTyped
<1>2. kept' = kept /\ run' = run /\ api' = api
  BY DEF Boot, RecoverExpired, NextPhase, ImportFails, BootFails
<1>3. up \in {"down", "starting"} /\ run = Idle /\ api = Quiet /\ up' \in {"down", "starting", "up"}
  BY <1>1 DEF Boot, RecoverExpired, NextPhase, ImportFails, BootFails, BootIs, UpTyped
<1>4. /\ boot'.todo = <<>> /\ boot'.left \subseteq Tasks
      /\ boot' = [phase |-> boot'.phase, left |-> boot'.left, task |-> boot'.task, todo |-> boot'.todo, ok |-> boot'.ok]
  <2>1. CASE Boot
    BY <2>1 DEF Boot, Resting
  <2>2. CASE RecoverExpired
    BY <1>1, <2>2 DEF RecoverExpired, BootIs, Enter, BootTyped
  <2>3. CASE NextPhase
    BY <1>1, <2>3 DEF NextPhase, BootIs, Enter, BootTyped, Resting
  <2>4. CASE ImportFails
    BY <1>1, <2>4 DEF ImportFails, BootIs, BootTyped
  <2>5. CASE BootFails
    BY <1>1, <2>5 DEF BootFails, BootTyped
  <2> QED
    BY <2>1, <2>2, <2>3, <2>4, <2>5
<1>5. BootTyped'
  BY <1>4, NoWrites, HasNone DEF BootTyped
<1> QED
  BY <1>2, <1>3, <1>4, <1>5, BootMoves

\* Of the invariant a crash leaves what is about the records.
LEMMA CrashKeeps ==
  ASSUME RecoveryInv, Crash
  PROVE  RecoveryInv'
<1>1. up' = "down" /\ boot' = Resting /\ run' = Idle /\ api' = Quiet /\ kept' = kept
  BY DEF Crash
<1>2. KeptTyped /\ NewTasksAreClean /\ DecisionsAreFirm /\ EndsAreFirm
  BY DEF RecoveryInv, RecoveryTyped
<1>3. /\ Resting.todo = <<>> /\ Resting.left = {} /\ Resting.task = NoTask
      /\ Resting = [phase |-> Resting.phase, left |-> Resting.left, task |-> Resting.task, todo |-> Resting.todo,
                    ok |-> Resting.ok]
  BY DEF Resting
<1>4. RecoveryTyped'
  <2>1. RunTyped' /\ ApiTyped'
    BY <1>1, IdleTyped DEF RunTyped, ApiTyped
  <2>2. BootTyped' /\ UpTyped'
    BY <1>1, <1>3, IdleTyped DEF BootTyped, UpTyped
  <2> QED
    BY <1>1, <1>2, <2>1, <2>2 DEF RecoveryTyped, KeptTyped
<1>5. RunSettles' /\ ApiSettles' /\ RunAgrees' /\ WorkIsApproved' /\ RemoteAsksNothing' /\ RunEnds' /\ ApiEnds'
  BY <1>1, IdleTyped DEF RunSettles, ApiSettles, RunAgrees, WorkIsApproved, RemoteAsksNothing, RunEnds, ApiEnds
<1>6. NewTasksAreClean' /\ DecisionsAreFirm' /\ EndsAreFirm'
  BY <1>1, <1>2, <1>3, IdleTyped DEF NewTasksAreClean, DecisionsAreFirm, EndsAreFirm, Decided, Agree
<1> QED
  BY <1>4, <1>5, <1>6 DEF RecoveryInv

---------------------------------------------------------------------------
(* The theorems.                                                           *)

LEMMA RecoveryStarts == Init => RecoveryInv
<1> SUFFICES ASSUME Init PROVE RecoveryInv
  OBVIOUS
<1>1. up = "up" /\ boot = Resting /\ run = Idle /\ api = Quiet
  BY DEF Init
<1>2. /\ KeptTyped
      /\ \A t \in Tasks : /\ kept.apr[t] = "none" /\ kept.aprCopy[t] = "none" /\ ~kept.open[t]
                          /\ kept.told[t] = "nothing" /\ kept.answer[t] = "none" /\ ~kept.worked[t]
  BY DEF Init, KeptTyped, AprStates
<1>3. /\ Resting.todo = <<>> /\ Resting.left = {} /\ Resting.task = NoTask
      /\ Resting = [phase |-> Resting.phase, left |-> Resting.left, task |-> Resting.task, todo |-> Resting.todo,
                    ok |-> Resting.ok]
  BY DEF Resting
<1>4. RecoveryTyped
  <2>1. RunTyped /\ ApiTyped
    BY <1>1, IdleTyped DEF RunTyped, ApiTyped
  <2>2. BootTyped /\ UpTyped
    BY <1>1, <1>3, IdleTyped DEF BootTyped, UpTyped
  <2> QED
    BY <1>2, <2>1, <2>2 DEF RecoveryTyped
<1>5. RunSettles /\ ApiSettles /\ RunAgrees /\ WorkIsApproved /\ RemoteAsksNothing /\ RunEnds /\ ApiEnds
  BY <1>1, IdleTyped DEF RunSettles, ApiSettles, RunAgrees, WorkIsApproved, RemoteAsksNothing, RunEnds, ApiEnds
<1>6. NewTasksAreClean /\ DecisionsAreFirm /\ EndsAreFirm
  BY <1>1, <1>2, <1>3, IdleTyped DEF NewTasksAreClean, DecisionsAreFirm, EndsAreFirm, Decided, Agree
<1> QED
  BY <1>4, <1>5, <1>6 DEF RecoveryInv

LEMMA RecoverySteps == RecoveryInv /\ [Next]_vars => RecoveryInv'
<1> SUFFICES ASSUME RecoveryInv, [Next]_vars PROVE RecoveryInv'
  OBVIOUS
<1>1. CASE UNCHANGED <<kept, up, boot, run, api>>
  BY <1>1 DEF RecoveryInv, RecoveryTyped, KeptTyped, RunTyped, ApiTyped, BootTyped, UpTyped,
              RunSettles, ApiSettles, RunAgrees, WorkIsApproved, NewTasksAreClean, RemoteAsksNothing,
              DecisionsAreFirm, RunEnds, ApiEnds, EndsAreFirm, Settling, Ending, Agree, Decided
<1>2. CASE LeaseExpires
  BY <1>1, <1>2 DEF LeaseExpires
<1>3. CASE RunStep
  <2>1. CASE RunWrites
    BY <2>1, RunWritesKeeps
  <2>2. CASE Release
    BY <2>2, ReleaseKeeps
  <2>3. CASE AskApproval \/ Expire
    BY <2>3, GateStepsKeep
  <2>4. CASE Converge \/ (Begin /\ run.cancelled)
    BY <2>4, EndStepsKeep
  <2>5. CASE Answered /\ kept.apr[run.task] = "approved" /\ ~run.cancelled
    BY <2>5, AnsweredKeeps
  <2>6. CASE \/ Begin /\ ~run.cancelled
             \/ Prepare \/ CopyWorkspace \/ LoopEnds \/ Gated \/ ApplyFile \/ Conflict \/ Applied
             \/ ReleaseLease \/ RemoveCopy
             \/ Answered /\ ~(kept.apr[run.task] = "approved" /\ ~run.cancelled)
    BY <2>6, PlainStepsKeep
  <2> QED
    BY <1>3, <2>1, <2>2, <2>3, <2>4, <2>5, <2>6 DEF RunStep
<1>4. CASE BootStep
  <2>1. CASE Boot \/ RecoverExpired \/ NextPhase
    BY <2>1, BootStepsKeep
  <2>2. CASE BootWrites
    BY <2>2, BootWritesKeeps
  <2>3. ASSUME NEW t \in Tasks, Import(t) \/ Reconcile(t) \/ ExpireApproval(t) \/ CloseTransition(t)
        PROVE  RecoveryInv'
    BY <2>3, ImportKeeps, ReconcileKeeps, ExpireApprovalKeeps, CloseTransitionKeeps
  <2> QED
    BY <1>4, <2>1, <2>2, <2>3 DEF BootStep
<1>5. CASE ApiWrites \/ EndFails \/ ImportFails \/ BootFails \/ Cancel \/ Crash
  BY <1>5, ApiWritesKeeps, EndFailsKeeps, BootStepsKeep, CancelKeeps, CrashKeeps
<1>6. ASSUME NEW d \in {"approved", "rejected"}, Decide(d) PROVE RecoveryInv'
  BY <1>6, DecideKeeps
<1>7. ASSUME NEW t \in Tasks, Create(t) \/ RemoteStart(t) \/ RemoteEnds(t) PROVE RecoveryInv'
  BY <1>7, CreateKeeps, RemoteKeeps
<1>8. CASE UNCHANGED vars
  BY <1>1, <1>8 DEF vars
<1> QED
  BY <1>2, <1>3, <1>4, <1>5, <1>6, <1>7, <1>8 DEF Next

\* The inductive invariant: what each list of writes still to be done will leave,
\* whichever of its writes is the last before the process dies.
THEOREM RecoveryInvHolds == Spec => []RecoveryInv
<1>1. Init => RecoveryInv
  BY RecoveryStarts
<1>2. RecoveryInv /\ [Next]_vars => RecoveryInv'
  BY RecoverySteps
<1> QED
  BY <1>1, <1>2, PTL DEF Spec

\* A decision its client got an answer to, and an approval a tool has acted on
\* (ApprovalGate._resolve_locked), are never taken back, however often the process
\* dies and between whichever of the writes of a restart.
THEOREM DecisionsAreKept == Spec => []DecisionsStay
<1>1. RecoveryInv => DecisionsStay
  BY DEF RecoveryInv, DecisionsAreFirm, Decided, DecisionsStay
<1> QED
  BY <1>1, RecoveryInvHolds, PTL

\* The end a client was told (TaskRunner._persist_terminal, then the terminal
\* event) is the Task's end after any number of restarts, half done ones included.
THEOREM ToldEndsAreKept == Spec => []ToldEndsStay
<1>1. RecoveryInv => ToldEndsStay
  BY DEF RecoveryInv, EndsAreFirm, ToldEndsStay
<1> QED
  BY <1>1, RecoveryInvHolds, PTL

---------------------------------------------------------------------------
(* What a restart has settled.                                             *)

\* What terminal_task_from_run makes of a state's status and reason.
Public(status, reason) ==
  IF status = "completed" /\ reason = "final_answer_returned" THEN "completed"
  ELSE IF status = "stopped" /\ reason = "user_cancelled" THEN "cancelled"
  ELSE IF reason = "service_restarted" THEN "interrupted"
  ELSE IF reason = "step_limit_reached" THEN "blocked" ELSE "failed"

\* An end is the one that the artifacts written for it stand for.
Faithful(rec) == rec.status \notin Active => Public(ArtifactStatus(rec.status), rec.reason) = rec.status
Faith(q) == \A w \in Written(q) : w.on \in {"row", "copy"} => Faithful(w.val)

\* What the agent's loop has left of the run.
MemFits ==
  run.mem # NoTask => /\ run.mem.status = "completed" => run.mem.reason = "final_answer_returned"
                      /\ run.mem.reason # "service_restarted"

RowsAreFaithful ==
  /\ \A t \in Tasks : /\ kept.row[t] # NoTask => Faithful(kept.row[t])
                      /\ kept.copy[t] # NoTask => Faithful(kept.copy[t])
  /\ Faith(run.todo) /\ Faith(api.todo) /\ Faith(boot.todo)
  /\ MemFits

\* Once the list q is done, the row is r and, of a local Task, the artifacts stand for it
\* with s as the state: what is not to be written any more is there.
Concludes(local, q, r, s, row, state, report, trace) ==
  /\ r.status \notin Active
  /\ \A w \in Written(q) : (w.on = "row" => w.val = r) /\ (w.on = "state" => w.val = s)
                           /\ (w.on = "report" => w.val.reason = r.reason) /\ (w.on = "trace" => w.val = TRUE)
  /\ ~Has(q, {"row"}) => row = r
  /\ local => /\ s # NoTask /\ s.status # "running"
              /\ Public(s.status, s.reason) = r.status /\ s.reason = r.reason
              /\ ~Has(q, {"state"}) => state = s
              /\ ~Has(q, {"report"}) => report.reason = r.reason
              /\ ~Has(q, {"trace"}) => trace = TRUE

Concluding(t, q) ==
  IF kept.row[t] = NoTask THEN q = <<>>
  ELSE \E r, s \in Recs : Concludes(t \notin Remote, q, r, s, kept.row[t], kept.state[t], kept.report[t], kept.trace[t])

LatePhases == {"approvals", "journal"}

\* The first phase gives each Task it has seen its end, once its list is done ...
TasksAreConcluded ==
  \A t \in Tasks : ((boot.phase = "tasks" /\ t \notin boot.left) \/ boot.phase \in LatePhases) =>
    Concluding(t, IF boot.task = t /\ boot.phase = "tasks" THEN boot.todo ELSE <<>>)

\* ... the later ones write of Approvals and the journal alone, and close them ...
LaterPhasesClose ==
  boot.phase \in LatePhases => \A w \in Written(boot.todo) :
    w.on \in GateKinds /\ (w.on \in AprKinds => w.val = "expired") /\ (w.on = "open" => ~w.val)

\* ... the second the pending Approvals, the third the open transitions.
ApprovalsAreClosed ==
  \A t \in Tasks : kept.apr[t] = "pending" =>
    /\ boot.phase # "journal"
    /\ boot.phase = "approvals" /\ t \notin boot.left => boot.task = t /\ Has(boot.todo, {"apr"})
JournalIsClosed ==
  \A t \in Tasks : boot.phase = "journal" /\ t \notin boot.left /\ kept.open[t] =>
    boot.task = t /\ Has(boot.todo, {"open"})

\* A restart that has met no failure.
RestartProgress ==
  up = "starting" /\ boot.ok =>
    /\ boot.phase \in {"import", "tasks"} \cup LatePhases
    /\ TasksAreConcluded /\ LaterPhasesClose /\ ApprovalsAreClosed /\ JournalIsClosed

RestartInv == RowsAreFaithful /\ RestartProgress

LEMMA FaithfulRecords == \A x \in {Waiting, Running, Queued, Asked, Completed, Cancelled, Interrupted} : Faithful(x)
<1>1. \A x \in {Waiting, Running, Queued, Asked} : x.status \in Active
  <2>1. Waiting.status = "waiting" /\ Running.status = "running" /\ Queued.status = "queued"
        /\ Asked.status = "cancel_requested"
    BY DEF Waiting, Running, Queued, Asked, Rec
  <2> QED
    BY <2>1 DEF Active
<1>2. Faithful(Completed)
  BY DEF Completed, Rec, Faithful, Public, ArtifactStatus
<1>3. Faithful(Cancelled)
  BY DEF Cancelled, Rec, Faithful, Public, ArtifactStatus
<1>4. Faithful(Interrupted)
  BY DEF Interrupted, Rec, Faithful, Public, ArtifactStatus
<1> QED
  BY <1>1, <1>2, <1>3, <1>4 DEF Faithful

\* A list that says one thing of the Task, or nothing.
LEMMA FaithOf ==
  ASSUME NEW q, NEW rec, Faithful(rec),
         \A w \in Written(q) : w.on \in {"row", "copy"} => w \in {Write("row", rec), Write("copy", rec)}
  PROVE  Faith(q)
<1>1. Write("row", rec).val = rec /\ Write("copy", rec).val = rec
  BY Fields
<1> QED
  BY <1>1 DEF Faith

LEMMA FaithNone ==
  ASSUME NEW q, ~Has(q, {"row", "copy"})
  PROVE  Faith(q)
BY DEF Faith, Has

LEMMA FaithEmpty == Faith(<<>>)
BY FaithNone, HasNone

LEMMA FaithRow ==
  ASSUME NEW rec \in Recs, Faithful(rec)
  PROVE  Faith(RowWrites(rec))
BY RowList, FaithOf

LEMMA FaithEnd ==
  ASSUME NEW rec \in Recs, rec.status \in EndStates, Faithful(rec)
  PROVE  Faith(EndWrites(rec))
<1>1. Write("told", rec.status).on = "told"
  BY Fields
<1>2. \A w \in Written(EndWrites(rec)) : w.on \in {"row", "copy"} => w \in {Write("row", rec), Write("copy", rec)}
  BY <1>1, EndList
<1> QED
  BY <1>2, FaithOf

LEMMA FaithOn ==
  ASSUME NEW q, IsList(q), q # <<>>, Faith(q)
  PROVE  Faith(Tail(q)) /\ (Head(q).on \in {"row", "copy"} => Faithful(Head(q).val))
BY FirstDone DEF Faith

LEMMA RowsStay ==
  ASSUME RowsAreFaithful, kept' = kept, Faith(run'.todo), Faith(api'.todo), Faith(boot'.todo), MemFits'
  PROVE  RowsAreFaithful'
BY DEF RowsAreFaithful

LEMMA RowsWritten ==
  ASSUME KeptTyped, RowsAreFaithful, NEW t \in Tasks, NEW w, Writable(w), w.on # "token", Store(t, w),
         w.on \in {"row", "copy"} => Faithful(w.val),
         Faith(run'.todo), Faith(api'.todo), Faith(boot'.todo), MemFits'
  PROVE  RowsAreFaithful'
<1>1. ASSUME NEW x \in Tasks
      PROVE  /\ kept'.row[x] # NoTask => Faithful(kept'.row[x])
             /\ kept'.copy[x] # NoTask => Faithful(kept'.copy[x])
  BY StoreGives DEF RowsAreFaithful
<1> QED
  BY <1>1 DEF RowsAreFaithful

\* The end a run's outcome is called is one its artifacts stand for.
LEMMA OutcomeIsFaithful ==
  ASSUME RunTyped, MemFits
  PROVE  Outcome \in Recs /\ Outcome.status \in EndStates /\ Faithful(Outcome)
<1>1. /\ {"", "user_cancelled", "runtime_error"} \subseteq Reasons /\ "" \in Answers
      /\ {"cancelled", "failed", "completed", "blocked"} \subseteq Statuses \cap EndStates
  BY DEF Reasons, Answers, Statuses, EndStates, Active
<1>2. ASSUME NEW s \in {"cancelled", "failed", "completed", "blocked"}, NEW r \in Reasons, NEW x \in Answers,
             s = "completed" => r = "final_answer_returned", s = "cancelled" => r = "user_cancelled",
             s = "blocked" => r = "step_limit_reached",
             s = "failed" => r \notin {"step_limit_reached", "service_restarted"}
      PROVE  Rec(s, r, x) \in Recs /\ Rec(s, r, x).status \in EndStates /\ Faithful(Rec(s, r, x))
  <2>1. Rec(s, r, x) \in Recs /\ Rec(s, r, x).status \in EndStates
    BY <1>1 DEF Rec, Recs
  <2>2. Rec(s, r, x).status = s /\ Rec(s, r, x).reason = r
    BY DEF Rec
  <2>3. Public(ArtifactStatus(s), r) = s
    BY <1>2 DEF Public, ArtifactStatus
  <2> QED
    BY <2>1, <2>2, <2>3 DEF Faithful
<1> DEFINE m == run.mem
<1>3. CASE run.cancelled
  <2>1. Outcome = Rec("cancelled", "user_cancelled", "")
    BY <1>3 DEF Outcome
  <2> QED
    BY <1>1, <1>2, <2>1
<1>4. CASE ~run.cancelled /\ m = NoTask
  <2>1. Outcome = Rec("failed", "runtime_error", "")
    BY <1>4 DEF Outcome
  <2> QED
    BY <1>1, <1>2, <2>1
<1>5. CASE ~run.cancelled /\ m # NoTask
  <2>1. /\ m.reason \in Reasons /\ m.answer \in Answers /\ m.reason # "service_restarted"
        /\ m.status = "completed" => m.reason = "final_answer_returned"
    BY <1>5 DEF RunTyped, Recs, MemFits
  <2> DEFINE p == IF m.status = "completed" THEN "completed"
                  ELSE IF m.reason = "user_cancelled" THEN "cancelled"
                  ELSE IF m.reason = "step_limit_reached" THEN "blocked"
                  ELSE "failed"
  <2>2. Outcome = Rec(p, m.reason, m.answer)
    BY <1>5 DEF Outcome
  <2>3. /\ p \in {"cancelled", "failed", "completed", "blocked"}
        /\ p = "completed" => m.reason = "final_answer_returned"
        /\ p = "cancelled" => m.reason = "user_cancelled"
        /\ p = "blocked" => m.reason = "step_limit_reached"
        /\ p = "failed" => m.reason \notin {"step_limit_reached", "service_restarted"}
    BY <2>1
  <2> HIDE DEF m, p
  <2> QED
    BY <1>2, <2>1, <2>2, <2>3
<1> QED
  BY <1>3, <1>4, <1>5

\* What a run is about to write says of it what its artifacts do.
LEMMA RunRows ==
  ASSUME RecoveryInv, RowsAreFaithful, RunStep
  PROVE  RowsAreFaithful'
<1>1. /\ RecoveryTyped /\ RunTyped /\ KeptTyped
      /\ Faith(run.todo) /\ Faith(api.todo) /\ Faith(boot.todo) /\ MemFits
  BY DEF RecoveryInv, RecoveryTyped, RowsAreFaithful
<1>2. run = [task |-> run.task, at |-> run.at, todo |-> run.todo, gated |-> run.gated,
             cancelled |-> run.cancelled, mem |-> run.mem]
  BY <1>1 DEF RunTyped
<1>3. ASSUME NEW at, NEW q, NEW g, GoOn(at, q, g), kept' = kept, Faith(q) PROVE RowsAreFaithful'
  <2>1. run'.todo = q /\ run'.mem = run.mem /\ api' = api /\ boot' = boot
    BY <1>2, <1>3 DEF GoOn
  <2>2. MemFits'
    BY <1>1, <2>1 DEF MemFits
  <2> QED
    BY <1>1, <1>3, <2>1, <2>2, RowsStay
<1>4. \A rec \in Recs : /\ Faith(<<Write("state", rec), Write("trace", TRUE)>>)
                        /\ Faith(<<Write("state", rec), Write("report", rec)>>)
                        /\ Faith(<<Write("state", rec), Write("trace", TRUE), Write("report", rec)>>)
  <2> SUFFICES ASSUME NEW rec \in Recs
               PROVE  /\ Faith(<<Write("state", rec), Write("trace", TRUE)>>)
                      /\ Faith(<<Write("state", rec), Write("report", rec)>>)
                      /\ Faith(<<Write("state", rec), Write("trace", TRUE), Write("report", rec)>>)
    OBVIOUS
  <2> DEFINE s == Write("state", rec)
             e == Write("trace", TRUE)
             p == Write("report", rec)
  <2>1. e.on = "trace" /\ s.on = "state" /\ p.on = "report"
    BY Fields
  <2>2. Writable(s) /\ s # Opens /\ Writable(p) /\ p # Opens /\ Writable(e) /\ e # Opens
    BY RecWritable, OtherWritable DEF RecKinds
  <2> HIDE DEF s, e, p
  <2>3. s.on \notin LastKinds /\ e.on \notin LastKinds /\ Opens \notin {s, e, p} /\ {s.on, e.on} \cap LastKinds = {}
    BY <2>1, <2>2 DEF LastKinds
  <2>4. ASSUME NEW q, Written(q) \subseteq {s, e, p} PROVE Faith(q)
    BY <2>1, <2>4 DEF Faith
  <2>5. Written(<<s, e>>) = {s, e} /\ Written(<<s, p>>) = {s, p} /\ Written(<<s, e, p>>) = {s, e, p}
    <3>1. Written(<<s, e>>) = {s, e}
      BY <2>2, <2>3, TwoWrites
    <3>2. Written(<<s, p>>) = {s, p}
      BY <2>2, <2>3, TwoWrites
    <3>3. Written(<<s, e, p>>) = {s, e, p}
      BY <2>2, <2>3, ThreeWrites
    <3> QED
      BY <3>1, <3>2, <3>3
  <2>6. Faith(<<s, e>>) /\ Faith(<<s, p>>) /\ Faith(<<s, e, p>>)
    BY <2>4, <2>5
  <2> QED
    BY <2>6 DEF s, e, p
<1>5. CASE Begin
  <2>1. CASE run.cancelled
    <3>1. GoOn("ended", EndWrites(Cancelled), TRUE) /\ kept' = kept
      BY <1>5, <2>1 DEF Begin, Cancelled
    <3>2. Faith(EndWrites(Cancelled))
      BY FaithEnd, FaithfulRecords, RecordsAre, StatesAre
    <3> QED
      BY <1>3, <3>1, <3>2
  <2>2. CASE ~run.cancelled
    <3>1. GoOn("lease", RowWrites(Running), TRUE) /\ kept' = kept
      BY <1>5, <2>2 DEF Begin, Running
    <3>2. Faith(RowWrites(Running))
      BY FaithRow, FaithfulRecords, RecordsAre
    <3> QED
      BY <1>3, <3>1, <3>2
  <2> QED
    BY <2>1, <2>2
<1>6. CASE Prepare \/ ApplyFile \/ Conflict \/ Applied \/ ReleaseLease \/ RemoveCopy
  <2>1. kept' = kept /\ \E at \in {"copy", "converge", "apply", "release", "rmtree"} : GoOn(at, <<>>, FALSE)
    BY <1>6 DEF Prepare, ApplyFile, Conflict, Applied, ReleaseLease, RemoveCopy
  <2> QED
    BY <1>3, <2>1, FaithEmpty
<1>7. CASE CopyWorkspace
  <2>1. GoOn("work", <<Write("state", Running), Write("trace", TRUE)>>, FALSE) /\ kept' = kept
    BY <1>7 DEF CopyWorkspace, Running
  <2> QED
    BY <1>3, <1>4, <2>1, RecordsAre
<1>8. CASE AskApproval
  <2> DEFINE q == Begun \o AprWrites("pending") \o RowWrites(Waiting) \o Committed
  <2>1. GoOn("wait", q, TRUE) /\ kept' = kept
    BY <1>8 DEF AskApproval, Waiting
  <2>2. Written(q) = {Opens, Closes, Write("apr", "pending"), Write("aprCopy", "pending"),
                      Write("row", Waiting), Write("copy", Waiting)}
    BY AskList
  <2>3. /\ Write("apr", "pending").on = "apr" /\ Write("aprCopy", "pending").on = "aprCopy"
        /\ Opens.on = "open" /\ Closes.on = "open"
    BY Fields, JournalWrites
  <2> HIDE DEF q
  <2>4. Faith(q)
    BY <2>2, <2>3, FaithOf, FaithfulRecords
  <2> QED
    BY <1>3, <2>1, <2>4
<1>9. \A d \in AprStates : Faith(ResolveWrites(d))
  <2> SUFFICES ASSUME NEW d \in AprStates PROVE Faith(ResolveWrites(d))
    OBVIOUS
  <2>1. Written(ResolveWrites(d)) = {Opens, Closes, Write("apr", d), Write("aprCopy", d),
                                     Write("row", Running), Write("copy", Running)}
    BY ResolveList
  <2>2. /\ Write("apr", d).on = "apr" /\ Write("aprCopy", d).on = "aprCopy"
        /\ Opens.on = "open" /\ Closes.on = "open"
    BY Fields, JournalWrites
  <2> QED
    BY <2>1, <2>2, FaithOf, FaithfulRecords
<1>10. CASE Expire
  BY <1>3, <1>9, <1>10, StatesAre DEF Expire
<1>11. CASE Answered
  <2> DEFINE q == IF kept.apr[run.task] = "approved" /\ ~run.cancelled THEN <<Write("worked", TRUE)>> ELSE <<>>
  <2>1. GoOn("work", q, FALSE) /\ kept' = kept
    BY <1>11 DEF Answered
  <2>2. Faith(<<Write("worked", TRUE)>>)
    <3>1. Written(<<Write("worked", TRUE)>>) = {Write("worked", TRUE)} /\ Write("worked", TRUE).on = "worked"
      BY OtherWritable, OneWrite, Fields
    <3> QED
      BY <3>1 DEF Faith
  <2>3. Faith(q)
    BY <2>2, FaithEmpty
  <2> HIDE DEF q
  <2> QED
    BY <1>3, <2>1, <2>3
<1>12. CASE LoopEnds \/ Gated
  <2>1. PICK rec : \/ /\ rec \in Ends \cup {Rec("stopped", "user_cancelled", "")}
                      /\ run'.todo = <<Write("state", rec), Write("trace", TRUE), Write("report", rec)>>
                      /\ run'.mem = rec
                   \/ /\ rec = run.mem \/ rec = Rec("stopped", "step_limit_reached", "text")
                      /\ run.at = "gate"
                      /\ run'.todo = <<Write("state", rec), Write("report", rec)>>
                      /\ run'.mem = rec
    <3>1. CASE LoopEnds
      BY <1>2, <3>1 DEF LoopEnds
    <3>2. CASE Gated
      BY <1>2, <3>2 DEF Gated, RunIs
    <3> QED
      BY <1>12, <3>1, <3>2
  <2>2. kept' = kept /\ api' = api /\ boot' = boot
    BY <1>12 DEF LoopEnds, Gated
  <2>3. ASSUME NEW s \in {"completed", "stopped", "failed"},
               NEW r \in {"user_cancelled", "final_answer_returned", "step_limit_reached", "runtime_error"},
               NEW a \in {"", "text"}, s = "completed" => r = "final_answer_returned"
        PROVE  /\ Rec(s, r, a) \in Recs
               /\ Rec(s, r, a).status = "completed" => Rec(s, r, a).reason = "final_answer_returned"
               /\ Rec(s, r, a).reason # "service_restarted"
    <3>1. s \in Statuses /\ r \in Reasons /\ a \in Answers
      BY DEF Statuses, Reasons, Answers
    <3>2. Rec(s, r, a) \in Recs /\ Rec(s, r, a).status = s /\ Rec(s, r, a).reason = r
      BY <3>1 DEF Rec, Recs
    <3> QED
      BY <2>3, <3>2
  <2>4. /\ rec \in Recs
        /\ rec.status = "completed" => rec.reason = "final_answer_returned"
        /\ rec.reason # "service_restarted"
    <3>1. rec \in Ends \cup {Rec("stopped", "user_cancelled", "")} \/ rec = Rec("stopped", "step_limit_reached", "text")
          \/ (rec = run.mem /\ run.at = "gate")
      BY <2>1
    <3>2. CASE rec \in Ends \cup {Rec("stopped", "user_cancelled", "")} \/ rec = Rec("stopped", "step_limit_reached", "text")
      <4>1. \/ rec = Rec("completed", "final_answer_returned", "text")
            \/ rec = Rec("stopped", "step_limit_reached", "text")
            \/ rec = Rec("failed", "runtime_error", "text")
            \/ rec = Rec("stopped", "user_cancelled", "")
        BY <3>2 DEF Ends
      <4> QED
        BY <2>3, <4>1
    <3>3. CASE rec = run.mem /\ run.at = "gate"
      BY <1>1, <3>3 DEF RunTyped, MemFits
    <3> QED
      BY <3>1, <3>2, <3>3
  <2>5. Faith(run'.todo)
    BY <1>4, <2>1, <2>4
  <2>6. MemFits'
    BY <2>1, <2>4 DEF MemFits
  <2> QED
    BY <1>1, <2>2, <2>5, <2>6, RowsStay
<1>13. CASE Converge
  <2>1. GoOn("ended", EndWrites(Outcome), TRUE) /\ kept' = kept
    BY <1>13 DEF Converge
  <2>2. Faith(EndWrites(Outcome))
    BY <1>1, OutcomeIsFaithful, FaithEnd
  <2> QED
    BY <1>3, <2>1, <2>2
<1>14. CASE Release
  <2>1. run'.todo = <<>> /\ run'.mem = NoTask /\ kept' = kept /\ api' = api /\ boot' = boot
    BY <1>14, IdleTyped DEF Release
  <2>2. MemFits'
    BY <2>1 DEF MemFits
  <2> QED
    BY <1>1, <2>1, <2>2, FaithEmpty, RowsStay
<1>15. CASE RunWrites
  <2>1. /\ run.todo # <<>> /\ Store(run.task, Head(run.todo)) /\ run'.todo = Tail(run.todo) /\ run'.mem = run.mem
        /\ api' = api /\ boot' = boot
    BY <1>2, <1>15 DEF RunWrites
  <2>2. /\ run.task \in Tasks /\ IsList(run.todo)
        /\ Head(run.todo).on # "token"
    BY <1>1, <2>1, FirstDone DEF RunTyped, Has
  <2>3. /\ Writable(Head(run.todo)) /\ Faith(Tail(run.todo))
        /\ Head(run.todo).on \in {"row", "copy"} => Faithful(Head(run.todo).val)
    BY <1>1, <2>1, <2>2, FirstDone, FaithOn
  <2>4. MemFits'
    BY <1>1, <2>1 DEF MemFits
  <2> QED
    BY <1>1, <2>1, <2>2, <2>3, <2>4, RowsWritten
<1> QED
  BY <1>5, <1>6, <1>7, <1>8, <1>10, <1>11, <1>12, <1>13, <1>14, <1>15 DEF RunStep

\* So does what the API's thread, or the hub, is about to write.
LEMMA ApiRows ==
  ASSUME RecoveryInv, RowsAreFaithful, NEW t \in Tasks, NEW q, ApiDoes(t, q), Faith(q)
  PROVE  RowsAreFaithful'
<1>1. api'.todo = q /\ kept' = kept /\ run' = run /\ boot' = boot
  BY DEF ApiDoes
<1>2. Faith(run.todo) /\ Faith(boot.todo) /\ MemFits
  BY DEF RowsAreFaithful
<1>3. MemFits'
  BY <1>1, <1>2 DEF MemFits
<1> QED
  BY <1>1, <1>2, <1>3, RowsStay

LEMMA ApiStepsRows ==
  ASSUME RecoveryInv, RowsAreFaithful,
         \/ Cancel \/ ApiWrites
         \/ \E d \in {"approved", "rejected"} : Decide(d)
         \/ \E t \in Tasks : RemoteStart(t) \/ RemoteEnds(t)
  PROVE  RowsAreFaithful'
<1>1. /\ KeptTyped /\ RunTyped /\ ApiTyped
      /\ Faith(run.todo) /\ Faith(api.todo) /\ Faith(boot.todo) /\ MemFits
  BY DEF RecoveryInv, RecoveryTyped, RowsAreFaithful
<1>2. CASE Cancel
  <2> DEFINE t == run.task
             x == IF kept.apr[t] = "pending" THEN AprWrites("cancelled") ELSE <<>>
             q == RowWrites(Asked) \o <<Write("token", TRUE)>> \o x
  <2>1. t # NoTask /\ run.at # "idle" /\ ApiDoes(t, q)
    BY <1>2 DEF Cancel, Asked
  <2>2. t \in Tasks /\ x \in {<<>>, AprWrites("cancelled")}
    BY <1>1, <2>1 DEF RunTyped
  <2>3. Written(q) = {Write("row", Asked), Write("copy", Asked), Write("token", TRUE)} \cup Written(x)
    BY <2>2, CancelList
  <2>4. Written(x) \subseteq {Write("apr", "cancelled"), Write("aprCopy", "cancelled")}
    BY NoWrites, AprList, StatesAre
  <2>5. /\ Write("token", TRUE).on = "token" /\ Write("apr", "cancelled").on = "apr"
        /\ Write("aprCopy", "cancelled").on = "aprCopy"
    BY Fields
  <2> HIDE DEF q, x
  <2>6. Faith(q)
    BY <2>3, <2>4, <2>5, FaithOf, FaithfulRecords
  <2> QED
    BY <2>1, <2>2, <2>6, ApiRows
<1>3. ASSUME NEW d \in {"approved", "rejected"}, Decide(d) PROVE RowsAreFaithful'
  <2> DEFINE q == ResolveWrites(d) \o <<Write("answer", d)>>
  <2>1. run.at = "wait" /\ ApiDoes(run.task, q)
    BY <1>3 DEF Decide
  <2>2. Written(q) = {Opens, Closes, Write("apr", d), Write("aprCopy", d), Write("row", Running),
                      Write("copy", Running), Write("answer", d)}
    BY DecideList
  <2>3. /\ Write("apr", d).on = "apr" /\ Write("aprCopy", d).on = "aprCopy" /\ Write("answer", d).on = "answer"
        /\ Opens.on = "open" /\ Closes.on = "open"
    BY Fields, JournalWrites
  <2> HIDE DEF q
  <2>4. Faith(q)
    BY <2>2, <2>3, FaithOf, FaithfulRecords
  <2> QED
    BY <1>1, <2>1, <2>4, ApiRows DEF RunTyped
<1>4. ASSUME NEW t \in Tasks, RemoteStart(t) PROVE RowsAreFaithful'
  <2> DEFINE q == RowWrites(Queued) \o RowWrites(Running)
  <2>1. ApiDoes(t, q)
    BY <1>4 DEF RemoteStart, Queued, Running
  <2>2. Faith(RowWrites(Queued)) /\ Faith(RowWrites(Running))
    BY FaithRow, FaithfulRecords, RecordsAre
  <2>3. Written(q) = Written(RowWrites(Queued)) \cup Written(RowWrites(Running))
    <3>1. /\ IsList(RowWrites(Queued)) /\ IsList(RowWrites(Running)) /\ ~Has(RowWrites(Queued), LastKinds)
      BY RowList, RowsAreLoose, RecordsAre
    <3> QED
      BY <3>1, Concat
  <2> HIDE DEF q
  <2>4. Faith(q)
    BY <2>2, <2>3 DEF Faith
  <2> QED
    BY <2>1, <2>4, ApiRows
<1>5. ASSUME NEW t \in Tasks, RemoteEnds(t) PROVE RowsAreFaithful'
  <2> DEFINE q == RowWrites(Completed) \o <<Write("told", "completed")>>
  <2>1. ApiDoes(t, q)
    BY <1>5 DEF RemoteEnds, Completed
  <2>2. Written(q) = {Write("row", Completed), Write("copy", Completed), Write("told", "completed")}
    BY RemoteLists
  <2>3. Write("told", "completed").on = "told"
    BY Fields
  <2> HIDE DEF q
  <2>4. Faith(q)
    BY <2>2, <2>3, FaithOf, FaithfulRecords
  <2> QED
    BY <2>1, <2>4, ApiRows
<1>6. CASE ApiWrites
  <2> DEFINE w == Head(api.todo)
  <2>1. /\ api.todo # <<>> /\ boot' = boot
        /\ api'.todo = IF Len(api.todo) = 1 THEN <<>> ELSE Tail(api.todo)
        /\ \/ w.on = "token" /\ run' = [run EXCEPT !.cancelled = TRUE] /\ kept' = kept
           \/ w.on # "token" /\ Store(api.task, w) /\ run' = run
    BY <1>1, <1>6, IdleTyped DEF ApiWrites, ApiTyped
  <2>2. /\ api.task \in Tasks /\ IsList(api.todo)
    BY <1>1, <2>1 DEF ApiTyped
  <2>3. /\ Writable(w) /\ Faith(Tail(api.todo)) /\ (w.on \in {"row", "copy"} => Faithful(w.val))
    BY <1>1, <2>1, <2>2, FirstDone, FaithOn
  <2>4. Faith(api'.todo)
    BY <2>1, <2>3, FaithEmpty
  <2>5. run'.todo = run.todo /\ run'.mem = run.mem
    BY <1>1, <2>1 DEF RunTyped
  <2>6. MemFits'
    BY <1>1, <2>5 DEF MemFits
  <2> HIDE DEF w
  <2>7. CASE w.on = "token"
    BY <1>1, <2>1, <2>4, <2>5, <2>6, <2>7, RowsStay
  <2>8. CASE w.on # "token"
    BY <1>1, <2>1, <2>2, <2>3, <2>4, <2>5, <2>6, <2>8, RowsWritten
  <2> QED
    BY <2>7, <2>8
<1> QED
  BY <1>2, <1>3, <1>4, <1>5, <1>6

LEMMA RestRows ==
  ASSUME RecoveryInv, RowsAreFaithful,
         \/ Crash \/ EndFails \/ BootFails \/ ImportFails \/ LeaseExpires
         \/ Boot \/ RecoverExpired \/ NextPhase \/ UNCHANGED vars
         \/ \E t \in Tasks : Create(t)
  PROVE  RowsAreFaithful'
<1>1. /\ RunTyped /\ BootTyped
      /\ Faith(run.todo) /\ Faith(api.todo) /\ Faith(boot.todo) /\ MemFits
  BY DEF RecoveryInv, RecoveryTyped, RowsAreFaithful
<1>2. /\ kept' = kept
      /\ api'.todo \in {api.todo, <<>>} /\ boot'.todo \in {boot.todo, <<>>}
      /\ run'.mem \in {run.mem, NoTask}
      /\ run'.todo \in {run.todo, <<>>, RowWrites(Queued)}
  <2>1. CASE Crash
    BY <2>1, IdleTyped DEF Crash, Resting
  <2>2. CASE EndFails
    BY <1>1, <2>2 DEF EndFails, RunTyped, BootTyped
  <2>3. CASE BootFails \/ ImportFails
    BY <1>1, <2>3 DEF BootFails, ImportFails, BootTyped
  <2>4. CASE LeaseExpires \/ UNCHANGED vars
    BY <2>4 DEF LeaseExpires, vars
  <2>5. CASE Boot \/ RecoverExpired \/ NextPhase
    BY <1>1, <2>5 DEF Boot, RecoverExpired, NextPhase, Enter, Resting, BootTyped
  <2>6. ASSUME NEW t \in Tasks, Create(t)
        PROVE  kept' = kept /\ api' = api /\ boot' = boot /\ run'.mem = NoTask /\ run'.todo = RowWrites(Queued)
    BY <2>6 DEF Create, Idle, Queued
  <2> QED
    BY <2>1, <2>2, <2>3, <2>4, <2>5, <2>6
<1>3. Faith(RowWrites(Queued)) /\ Faith(<<>>)
  BY FaithRow, FaithfulRecords, RecordsAre, FaithEmpty
<1>4. MemFits'
  BY <1>1, <1>2 DEF MemFits
<1> QED
  BY <1>1, <1>2, <1>3, <1>4, RowsStay

---------------------------------------------------------------------------
(* What the restart writes of a Task concludes it.                         *)

\* The artifacts' record of an end.
Artifact(rec) == Rec(ArtifactStatus(rec.status), rec.reason, rec.answer)

LEMMA ArtifactsWritten ==
  ASSUME NEW rec \in Recs
  PROVE  /\ Artifact(rec) \in Recs /\ IsList(ArtifactWrites(rec)) /\ ~Has(ArtifactWrites(rec), LastKinds)
         /\ Artifact(rec).status = ArtifactStatus(rec.status) /\ Artifact(rec).reason = rec.reason
         /\ Written(ArtifactWrites(rec))
              = {Write("state", Artifact(rec)), Write("trace", TRUE), Write("report", Artifact(rec))}
<1> DEFINE s == Artifact(rec)
<1>1. s \in Recs /\ s.status = ArtifactStatus(rec.status) /\ s.reason = rec.reason
  BY RecsAre DEF Recs, ArtifactStatus, Statuses, Artifact
<1>2. ArtifactWrites(rec) = <<Write("state", s), Write("trace", TRUE), Write("report", s)>>
  BY DEF ArtifactWrites, Artifact
<1> HIDE DEF s
<1>3. /\ Writable(Write("state", s)) /\ Write("state", s) # Opens
      /\ Writable(Write("report", s)) /\ Write("report", s) # Opens
  BY <1>1, RecWritable DEF RecKinds
<1>4. Write("state", s).on = "state" /\ Write("trace", TRUE).on = "trace" /\ Write("report", s).on = "report"
  BY Fields
<1>5. Opens \notin {Write("state", s), Write("trace", TRUE), Write("report", s)}
  BY <1>3, OtherWritable
<1>6. {Write("state", s).on, Write("trace", TRUE).on} \cap LastKinds = {}
  BY <1>4 DEF LastKinds
<1>7. IsList(<<Write("state", s), Write("trace", TRUE), Write("report", s)>>)
      /\ Written(<<Write("state", s), Write("trace", TRUE), Write("report", s)>>)
           = {Write("state", s), Write("trace", TRUE), Write("report", s)}
  BY <1>3, <1>5, <1>6, OtherWritable, ThreeWrites
<1>8. ~Has(ArtifactWrites(rec), LastKinds)
  BY <1>2, <1>4, <1>7 DEF Has, LastKinds
<1> QED
  BY <1>1, <1>2, <1>7, <1>8 DEF s

LEMMA RepairsWritten ==
  ASSUME RecoveryInv, NEW t \in Tasks, Readable(t)
  PROVE  /\ kept.state[t] \in Recs /\ IsList(RepairWrites(t)) /\ ~Has(RepairWrites(t), LastKinds)
         /\ Written(RepairWrites(t)) \subseteq {Write("trace", TRUE), Write("report", kept.state[t])}
         /\ Write("trace", TRUE) \in Written(RepairWrites(t)) \/ kept.trace[t] = TRUE
         /\ \/ Write("report", kept.state[t]) \in Written(RepairWrites(t))
            \/ kept.report[t].reason = kept.state[t].reason
<1> DEFINE s == kept.state[t]
           a == IF kept.trace[t] THEN <<>> ELSE <<Write("trace", TRUE)>>
           b == IF Known(kept.report[t]) /\ kept.report[t].status = s.status /\ kept.report[t].reason = s.reason
                THEN <<>> ELSE <<Write("report", s)>>
<1>1. s \in Recs /\ kept.trace[t] \in BOOLEAN
  <2>1. KeptTyped
    BY DEF RecoveryInv, RecoveryTyped
  <2> QED
    BY <2>1, Seen DEF Readable, Known, KeptTyped
<1>2. /\ IsList(a) /\ Written(a) \subseteq {Write("trace", TRUE)}
      /\ Write("trace", TRUE) \in Written(a) \/ kept.trace[t] = TRUE
  <2>1. IsList(<<Write("trace", TRUE)>>) /\ Written(<<Write("trace", TRUE)>>) = {Write("trace", TRUE)}
    BY OtherWritable, OneWrite
  <2> QED
    BY <1>1, <2>1, NoWrites
<1>3. /\ IsList(b) /\ Written(b) \subseteq {Write("report", s)}
      /\ Write("report", s) \in Written(b) \/ kept.report[t].reason = s.reason
  <2>1. Writable(Write("report", s)) /\ Write("report", s) # Opens
    BY <1>1, RecWritable DEF RecKinds
  <2>2. IsList(<<Write("report", s)>>) /\ Written(<<Write("report", s)>>) = {Write("report", s)}
    BY <2>1, OneWrite
  <2> QED
    BY <2>2, NoWrites
<1>4. RepairWrites(t) = a \o b
  BY DEF RepairWrites
<1> HIDE DEF a, b, s
<1>5. Write("trace", TRUE).on = "trace" /\ Write("report", s).on = "report"
  BY Fields
<1>6. ~Has(a, LastKinds)
  BY <1>2, <1>5 DEF Has, LastKinds
<1>7. IsList(a \o b) /\ Written(a \o b) = Written(a) \cup Written(b)
  BY <1>2, <1>3, <1>6, Concat
<1>8. ~Has(a \o b, LastKinds)
  BY <1>2, <1>3, <1>5, <1>7 DEF Has, LastKinds
<1> QED
  BY <1>1, <1>2, <1>3, <1>4, <1>7, <1>8 DEF s

\* The end a Task's row is given from the state of its run.
LEMMA RecoveredIs ==
  ASSUME NEW t \in Tasks, kept.state[t] \in Recs
  PROVE  LET r == Recovered(t)
             s == kept.state[t]
         IN  /\ r \in Recs /\ r.status \notin Active /\ r.reason = s.reason
             /\ Public(s.status, s.reason) = r.status /\ Faithful(r)
<1> DEFINE r == Recovered(t)
           s == kept.state[t]
           p == Public(s.status, s.reason)
<1>1. s.reason \in Reasons /\ s.answer \in Answers
  BY DEF Recs
<1>2. r = Rec(p, s.reason, s.answer)
  BY DEF Recovered, Public
<1>3. p \in {"completed", "cancelled", "interrupted", "blocked", "failed"}
  BY DEF Public
<1>4. Public(ArtifactStatus(p), s.reason) = p
  BY <1>1 DEF Public, ArtifactStatus
<1> HIDE DEF s, p, r
<1>5. p \in Statuses /\ p \notin Active
  BY <1>3 DEF Statuses, Active
<1>6. r \in Recs /\ r.status = p /\ r.reason = s.reason
  BY <1>1, <1>2, <1>5 DEF Rec, Recs
<1>7. Faithful(r)
  BY <1>4, <1>6 DEF Faithful
<1> QED
  BY <1>5, <1>6, <1>7 DEF r, s, p

\* A list that writes nothing else, and writes what is not there, concludes a local Task.
LEMMA ConcludesLocally ==
  ASSUME NEW q, NEW r, NEW s, NEW row, NEW state, NEW report, NEW trace, NoTask # s,
         r.status \notin Active, s.status # "running", Public(s.status, s.reason) = r.status, s.reason = r.reason,
         NEW p, p.reason = r.reason,
         \A w \in Written(q) : w \in {Write("row", r), Write("copy", r), Write("state", s),
                                      Write("trace", TRUE), Write("report", p)},
         Write("row", r) \in Written(q) \/ row = r,
         Write("state", s) \in Written(q) \/ state = s,
         Write("report", p) \in Written(q) \/ report.reason = r.reason,
         Write("trace", TRUE) \in Written(q) \/ trace = TRUE
  PROVE  Concludes(TRUE, q, r, s, row, state, report, trace)
<1>1. /\ Write("row", r).on = "row" /\ Write("row", r).val = r /\ Write("copy", r).on = "copy"
      /\ Write("state", s).on = "state" /\ Write("state", s).val = s
      /\ Write("trace", TRUE).on = "trace" /\ Write("trace", TRUE).val = TRUE
      /\ Write("report", p).on = "report" /\ Write("report", p).val = p
  BY DEF Write
<1>2. \A w \in Written(q) : (w.on = "row" => w.val = r) /\ (w.on = "state" => w.val = s)
                            /\ (w.on = "report" => w.val.reason = r.reason) /\ (w.on = "trace" => w.val = TRUE)
  BY <1>1
<1>3. /\ ~Has(q, {"row"}) => row = r
      /\ ~Has(q, {"state"}) => state = s
      /\ ~Has(q, {"report"}) => report.reason = r.reason
      /\ ~Has(q, {"trace"}) => trace = TRUE
  BY <1>1 DEF Has
<1> QED
  BY <1>2, <1>3 DEF Concludes

LEMMA ConcludesRemotely ==
  ASSUME NEW q, NEW r, NEW s, NEW row, NEW state, NEW report, NEW trace,
         r.status \notin Active,
         \A w \in Written(q) : w \in {Write("row", r), Write("copy", r)},
         Write("row", r) \in Written(q) \/ row = r
  PROVE  Concludes(FALSE, q, r, s, row, state, report, trace)
<1>1. /\ Write("row", r).on = "row" /\ Write("row", r).val = r /\ Write("copy", r).on = "copy"
  BY Fields
<1>2. \A w \in Written(q) : (w.on = "row" => w.val = r) /\ (w.on = "state" => w.val = s)
                            /\ (w.on = "report" => w.val.reason = r.reason) /\ (w.on = "trace" => w.val = TRUE)
  BY <1>1
<1>3. ~Has(q, {"row"}) => row = r
  BY <1>1 DEF Has
<1> QED
  BY <1>2, <1>3 DEF Concludes

\* What reconcile writes of a Task concludes it, whatever the process left behind when it died.
LEMMA RepairsConclude ==
  ASSUME RecoveryInv, RowsAreFaithful, NEW t \in Tasks
  PROVE  Faith(Repairs(t)) /\ Concluding(t, Repairs(t))
<1> DEFINE rec == kept.row[t]
           Done(q, r, s) == Concludes(t \notin Remote, q, r, s, rec, kept.state[t], kept.report[t], kept.trace[t])
<1>1. /\ rec \in Recs \cup {NoTask} /\ kept.state[t] \in Recs \cup {NoTask} /\ kept.trace[t] \in BOOLEAN
      /\ rec # NoTask => Faithful(rec)
  <2>1. KeptTyped
    BY DEF RecoveryInv, RecoveryTyped
  <2> QED
    BY <2>1, Seen DEF RowsAreFaithful, KeptTyped
<1>2. ASSUME NEW q, NEW r \in Recs, NEW s \in Recs, rec # NoTask, Done(q, r, s) PROVE Concluding(t, q)
  BY <1>2 DEF Concluding
<1>3. Interrupted \in Recs /\ Interrupted.status = "interrupted" /\ Interrupted.status \notin Active
      /\ Interrupted.reason = "service_restarted" /\ Faithful(Interrupted)
  <2>1. Interrupted.status = "interrupted" /\ Interrupted.reason = "service_restarted"
    BY DEF Interrupted, Rec
  <2> QED
    BY <2>1, RecordsAre, FaithfulRecords DEF Active
<1> HIDE DEF Done
<1>4. CASE rec = NoTask
  <2>1. Repairs(t) = <<>>
    BY <1>4 DEF Repairs, Known
  <2> QED
    BY <1>4, <2>1, FaithEmpty DEF Concluding
<1>5. CASE rec # NoTask /\ rec.status \in Active /\ t \in Remote
  <2>1. Repairs(t) = RowWrites(Interrupted)
    BY <1>5 DEF Repairs, Known
  <2>2. Written(RowWrites(Interrupted)) = {Write("row", Interrupted), Write("copy", Interrupted)}
    BY <1>3, RowList
  <2>3. Concludes(FALSE, RowWrites(Interrupted), Interrupted, Interrupted, rec, kept.state[t], kept.report[t], kept.trace[t])
    BY <1>3, <2>2, ConcludesRemotely
  <2>4. Done(RowWrites(Interrupted), Interrupted, Interrupted)
    BY <1>5, <2>3 DEF Done, Concludes
  <2> QED
    BY <1>2, <1>3, <1>5, <2>1, <2>4, FaithRow
<1>6. CASE rec # NoTask /\ rec.status \in Active /\ t \notin Remote /\ Readable(t)
  <2> DEFINE s == kept.state[t]
             r == Recovered(t)
             a == RepairWrites(t)
             q == a \o RowWrites(r)
  <2>1. Repairs(t) = q
    BY <1>6 DEF Repairs, Known
  <2>2. /\ s \in Recs /\ s.status # "running" /\ IsList(a) /\ ~Has(a, LastKinds)
        /\ Written(a) \subseteq {Write("trace", TRUE), Write("report", s)}
        /\ Write("trace", TRUE) \in Written(a) \/ kept.trace[t] = TRUE
        /\ Write("report", s) \in Written(a) \/ kept.report[t].reason = s.reason
    BY <1>6, RepairsWritten DEF Readable
  <2>3. /\ r \in Recs /\ r.status \notin Active /\ r.reason = s.reason
        /\ Public(s.status, s.reason) = r.status /\ Faithful(r)
    BY <2>2, RecoveredIs
  <2> HIDE DEF s, r, a
  <2>4. IsList(RowWrites(r)) /\ Written(RowWrites(r)) = {Write("row", r), Write("copy", r)}
    BY <2>3, RowList
  <2>5. Written(q) = Written(a) \cup {Write("row", r), Write("copy", r)}
    BY <2>2, <2>4, Concat
  <2> HIDE DEF q
  <2>6. s # NoTask
    BY <2>2, NoRecord
  <2>7. Concludes(TRUE, q, r, s, rec, s, kept.report[t], kept.trace[t])
    BY <2>2, <2>3, <2>5, <2>6, ConcludesLocally
  <2>8. Done(q, r, s)
    BY <1>6, <2>7 DEF Done, s, Concludes
  <2>9. Faith(q)
    <3>1. Write("trace", TRUE).on = "trace" /\ Write("report", s).on = "report"
      BY Fields
    <3> QED
      BY <2>2, <2>3, <2>5, <3>1, FaithOf
  <2> QED
    BY <1>2, <1>6, <2>1, <2>2, <2>3, <2>8, <2>9
<1>7. CASE rec # NoTask /\ rec.status \in Active /\ t \notin Remote /\ ~Readable(t)
  <2> DEFINE i == [Interrupted EXCEPT !.answer = "interrupted"]
             s == Artifact(i)
             a == ArtifactWrites(i)
             r == Interrupted
             q == a \o RowWrites(r)
  <2>1. Repairs(t) = q
    BY <1>7 DEF Repairs, Known
  <2>2. i \in Recs /\ i.status = "interrupted" /\ i.reason = "service_restarted"
    BY <1>3 DEF Recs, Answers
  <2> HIDE DEF i
  <2>3. /\ s \in Recs /\ IsList(a) /\ ~Has(a, LastKinds) /\ s.status = ArtifactStatus("interrupted")
        /\ s.reason = "service_restarted"
        /\ Written(a) = {Write("state", s), Write("trace", TRUE), Write("report", s)}
    BY <2>2, ArtifactsWritten
  <2>4. s.status = "failed" /\ Public(s.status, s.reason) = "interrupted"
    BY <2>3 DEF ArtifactStatus, Public
  <2> HIDE DEF s, a, r
  <2>5. /\ r \in Recs /\ r.status = "interrupted" /\ r.status \notin Active
        /\ r.reason = "service_restarted" /\ Faithful(r)
    BY <1>3 DEF r
  <2>6. IsList(RowWrites(r)) /\ Written(RowWrites(r)) = {Write("row", r), Write("copy", r)}
    BY <2>5, RowList
  <2>7. Written(q) = Written(a) \cup {Write("row", r), Write("copy", r)}
    BY <2>3, <2>6, Concat
  <2> HIDE DEF q
  <2>8. s # NoTask
    BY <2>3, NoRecord
  <2>9. Concludes(TRUE, q, r, s, rec, kept.state[t], kept.report[t], kept.trace[t])
    BY <2>3, <2>4, <2>5, <2>7, <2>8, ConcludesLocally
  <2>10. Done(q, r, s)
    BY <1>7, <2>9 DEF Done, Concludes
  <2>11. Faith(q)
    <3>1. Write("trace", TRUE).on = "trace" /\ Write("report", s).on = "report" /\ Write("state", s).on = "state"
      BY Fields
    <3> QED
      BY <2>3, <2>5, <2>7, <3>1, FaithOf
  <2> QED
    BY <1>2, <1>7, <2>1, <2>3, <2>5, <2>10, <2>11
<1>8. CASE rec # NoTask /\ rec.status \notin Active /\ t \in Remote
  <2>1. Repairs(t) = <<>>
    BY <1>8 DEF Repairs, Known
  <2>2. Concludes(FALSE, <<>>, rec, rec, rec, kept.state[t], kept.report[t], kept.trace[t])
    BY <1>8, NoWrites, ConcludesRemotely
  <2>3. Done(<<>>, rec, rec)
    BY <1>8, <2>2 DEF Done, Concludes
  <2> QED
    BY <1>1, <1>2, <1>8, <2>1, <2>3, FaithEmpty
<1>9. CASE rec # NoTask /\ rec.status \notin Active /\ t \notin Remote
  <2> DEFINE s == Artifact(rec)
             q == Repairs(t)
  <2>1. rec \in Recs /\ Faithful(rec)
    BY <1>1, <1>9
  <2>2. /\ s \in Recs /\ s.status = ArtifactStatus(rec.status) /\ s.reason = rec.reason
        /\ Written(ArtifactWrites(rec)) = {Write("state", s), Write("trace", TRUE), Write("report", s)}
    BY <2>1, ArtifactsWritten
  <2>3. s.status # "running" /\ Public(s.status, s.reason) = rec.status
    BY <1>9, <2>1, <2>2 DEF ArtifactStatus, Faithful
  <2>4. s # NoTask
    BY <2>2, NoRecord
  <2>5. /\ Written(q) \subseteq {Write("state", s), Write("trace", TRUE), Write("report", s)}
        /\ Write("state", s) \in Written(q) \/ kept.state[t] = s
        /\ Write("report", s) \in Written(q) \/ kept.report[t].reason = rec.reason
        /\ Write("trace", TRUE) \in Written(q) \/ kept.trace[t] = TRUE
    <3>1. CASE Matches(t, rec)
      <4>1. q = <<>>
        BY <1>9, <3>1 DEF Repairs, Known
      <4>2. kept.state[t] = s /\ kept.report[t].reason = rec.reason /\ kept.trace[t] = TRUE
        BY <1>1, <3>1 DEF Matches, Artifact
      <4> QED
        BY <4>1, <4>2, NoWrites
    <3>2. CASE ~Matches(t, rec)
      <4>1. q = ArtifactWrites(rec)
        BY <1>9, <3>2 DEF Repairs, Known
      <4> QED
        BY <2>2, <4>1
    <3> QED
      BY <3>1, <3>2
  <2> HIDE DEF s, q
  <2>6. Concludes(TRUE, q, rec, s, rec, kept.state[t], kept.report[t], kept.trace[t])
    BY <1>9, <2>2, <2>3, <2>4, <2>5, ConcludesLocally
  <2>7. Done(q, rec, s)
    BY <1>9, <2>6 DEF Done, Concludes
  <2>8. Faith(q)
    <3>1. Write("trace", TRUE).on = "trace" /\ Write("report", s).on = "report" /\ Write("state", s).on = "state"
      BY Fields
    <3> QED
      BY <2>5, <3>1 DEF Faith
  <2> QED
    BY <1>2, <1>9, <2>1, <2>2, <2>7, <2>8 DEF q
<1> QED
  BY <1>4, <1>5, <1>6, <1>7, <1>8, <1>9

\* What the later phases write, too, says nothing of a Task but of its Approval.
LEMMA LateLists ==
  ASSUME RecoveryInv, NEW t \in Tasks
  PROVE  LET e == IF kept.apr[t] = "pending" THEN AprWrites("expired") ELSE <<>>
             c == IF ~kept.open[t] THEN <<>>
                  ELSE (IF kept.apr[t] \in {"pending", "approved"} THEN AprWrites("expired") ELSE <<>>) \o Committed
         IN  /\ Written(e) \subseteq {Write("apr", "expired"), Write("aprCopy", "expired")}
             /\ kept.apr[t] = "pending" => Has(e, {"apr"})
             /\ Written(c) \subseteq {Write("apr", "expired"), Write("aprCopy", "expired"), Closes}
             /\ kept.open[t] => Has(c, {"open"})
<1> DEFINE e == IF kept.apr[t] = "pending" THEN AprWrites("expired") ELSE <<>>
           a == IF kept.apr[t] \in {"pending", "approved"} THEN AprWrites("expired") ELSE <<>>
           c == IF ~kept.open[t] THEN <<>> ELSE a \o Committed
<1>1. IsList(AprWrites("expired")) /\ Written(AprWrites("expired")) = {Write("apr", "expired"), Write("aprCopy", "expired")}
  BY AprList, StatesAre
<1>2. Written(<<>>) = {} /\ IsList(<<>>)
  BY NoWrites
<1>3. Write("apr", "expired").on = "apr" /\ Write("aprCopy", "expired").on = "aprCopy" /\ Closes.on = "open"
  BY Fields, JournalWrites
<1>4. /\ Written(e) \subseteq {Write("apr", "expired"), Write("aprCopy", "expired")}
      /\ kept.apr[t] = "pending" => Has(e, {"apr"})
  BY <1>1, <1>2, <1>3 DEF Has
<1>5. IsList(a) /\ ~Has(a, LastKinds) /\ Written(a) \subseteq {Write("apr", "expired"), Write("aprCopy", "expired")}
  BY <1>1, <1>2, <1>3 DEF Has, LastKinds
<1> HIDE DEF a
<1>6. IsList(a \o Committed) /\ Written(a \o Committed) = Written(a) \cup {Closes}
  BY <1>5, JournalLists, Concat
<1>7. /\ Written(c) \subseteq {Write("apr", "expired"), Write("aprCopy", "expired"), Closes}
      /\ kept.open[t] => Has(c, {"open"})
  BY <1>2, <1>3, <1>5, <1>6 DEF Has
<1> QED
  BY <1>4, <1>7 DEF a

LEMMA BootRows ==
  ASSUME RecoveryInv, RowsAreFaithful,
         BootWrites \/ \E t \in Tasks : Import(t) \/ Reconcile(t) \/ ExpireApproval(t) \/ CloseTransition(t)
  PROVE  RowsAreFaithful'
<1>1. /\ KeptTyped /\ BootTyped
      /\ Faith(run.todo) /\ Faith(api.todo) /\ Faith(boot.todo) /\ MemFits
  BY DEF RecoveryInv, RecoveryTyped, RowsAreFaithful
<1>2. ASSUME NEW t \in Tasks, NEW q, See(t, q), Faith(q) PROVE RowsAreFaithful'
  <2>1. boot'.todo = q /\ kept' = kept /\ run' = run /\ api' = api
    BY <1>1, <1>2 DEF See, BootTyped
  <2>2. MemFits'
    BY <1>1, <2>1 DEF MemFits
  <2> QED
    BY <1>1, <1>2, <2>1, <2>2, RowsStay
<1>3. Write("apr", "expired").on = "apr" /\ Write("aprCopy", "expired").on = "aprCopy" /\ Closes.on = "open"
  BY Fields, JournalWrites
<1>4. ASSUME NEW t \in Tasks, Import(t) PROVE RowsAreFaithful'
  <2> DEFINE a == IF Known(kept.copy[t]) THEN <<Write("row", kept.copy[t])>> ELSE <<>>
             b == IF kept.aprCopy[t] # "none" THEN <<Write("apr", kept.aprCopy[t])>> ELSE <<>>
  <2>1. See(t, a \o b)
    BY <1>4 DEF Import
  <2>2. IsList(a) /\ \A w \in Written(a) : w = Write("row", kept.copy[t]) /\ kept.copy[t] # NoTask
    <3>1. CASE Known(kept.copy[t])
      <4>1. kept.copy[t] \in Recs
        BY <3>1, Seen DEF Known
      <4>2. Writable(Write("row", kept.copy[t])) /\ Write("row", kept.copy[t]) # Opens
        BY <4>1, RecWritable DEF RecKinds
      <4> QED
        BY <3>1, <4>2, OneWrite DEF Known
    <3>2. CASE ~Known(kept.copy[t])
      BY <3>2, NoWrites
    <3> QED
      BY <3>1, <3>2
  <2>3. IsList(b) /\ \A w \in Written(b) : w = Write("apr", kept.aprCopy[t])
    <3>1. CASE kept.aprCopy[t] # "none"
      <4>1. Writable(Write("apr", kept.aprCopy[t])) /\ Write("apr", kept.aprCopy[t]) # Opens
        BY AprWritable, Seen DEF AprKinds
      <4> QED
        BY <3>1, <4>1, OneWrite
    <3>2. CASE kept.aprCopy[t] = "none"
      BY <3>2, NoWrites
    <3> QED
      BY <3>1, <3>2
  <2> HIDE DEF a, b
  <2>4. Write("row", kept.copy[t]).on = "row" /\ Write("row", kept.copy[t]).val = kept.copy[t]
        /\ Write("apr", kept.aprCopy[t]).on = "apr"
    BY Fields
  <2>5. ~Has(a, LastKinds)
    BY <2>2, <2>4 DEF Has, LastKinds
  <2>6. Written(a \o b) = Written(a) \cup Written(b)
    BY <2>2, <2>3, <2>5, Concat
  <2>7. kept.copy[t] # NoTask => Faithful(kept.copy[t])
    BY DEF RowsAreFaithful
  <2>8. Faith(a \o b)
    BY <2>2, <2>3, <2>4, <2>6, <2>7 DEF Faith
  <2> QED
    BY <1>2, <2>1, <2>8
<1>5. ASSUME NEW t \in Tasks, Reconcile(t) PROVE RowsAreFaithful'
  BY <1>2, <1>5, RepairsConclude DEF Reconcile
<1>6. ASSUME NEW t \in Tasks, ExpireApproval(t) PROVE RowsAreFaithful'
  <2> DEFINE q == IF kept.apr[t] = "pending" THEN AprWrites("expired") ELSE <<>>
  <2>1. See(t, q)
    BY <1>6 DEF ExpireApproval
  <2>2. Written(q) \subseteq {Write("apr", "expired"), Write("aprCopy", "expired")}
    BY LateLists
  <2> HIDE DEF q
  <2>3. Faith(q)
    BY <1>3, <2>2 DEF Faith
  <2> QED
    BY <1>2, <2>1, <2>3
<1>7. ASSUME NEW t \in Tasks, CloseTransition(t) PROVE RowsAreFaithful'
  <2> DEFINE q == IF ~kept.open[t] THEN <<>>
                  ELSE (IF kept.apr[t] \in {"pending", "approved"} THEN AprWrites("expired") ELSE <<>>) \o Committed
  <2>1. See(t, q)
    BY <1>7 DEF CloseTransition
  <2>2. Written(q) \subseteq {Write("apr", "expired"), Write("aprCopy", "expired"), Closes}
    BY LateLists
  <2> HIDE DEF q
  <2>3. Faith(q)
    BY <1>3, <2>2 DEF Faith
  <2> QED
    BY <1>2, <2>1, <2>3
<1>8. CASE BootWrites
  <2> DEFINE w == Head(boot.todo)
  <2>1. /\ boot.todo # <<>> /\ Store(boot.task, w) /\ boot'.todo = Tail(boot.todo)
        /\ run' = run /\ api' = api
    BY <1>1, <1>8 DEF BootWrites, BootTyped
  <2>2. boot.task \in Tasks /\ IsList(boot.todo)
    BY <1>1, <2>1 DEF BootTyped
  <2>3. /\ Writable(w) /\ Faith(boot'.todo) /\ (w.on \in {"row", "copy"} => Faithful(w.val))
        /\ w.on # "token"
    BY <1>1, <2>1, <2>2, FirstDone, FaithOn DEF BootTyped, Has
  <2>4. MemFits'
    BY <1>1, <2>1 DEF MemFits
  <2> HIDE DEF w
  <2> QED
    BY <1>1, <2>1, <2>2, <2>3, <2>4, RowsWritten
<1> QED
  BY <1>4, <1>5, <1>6, <1>7, <1>8

LEMMA RowsStep == RecoveryInv /\ RowsAreFaithful /\ [Next]_vars => RowsAreFaithful'
BY RunRows, ApiStepsRows, RestRows, BootRows DEF Next, BootStep

---------------------------------------------------------------------------
(* How far a restart has come.                                             *)

\* What is left of an end when the first write of q has been done.
LEMMA ConcludesOn ==
  ASSUME NEW q, IsList(q), q # <<>>, NEW local, NEW r, NEW s, NEW row, NEW state, NEW report, NEW trace,
         Concludes(local, q, r, s, row, state, report, trace)
  PROVE  LET w == Head(q)
         IN  Concludes(local, Tail(q), r, s, IF w.on = "row" THEN w.val ELSE row,
                       IF w.on = "state" THEN w.val ELSE state, IF w.on = "report" THEN w.val ELSE report,
                       IF w.on = "trace" THEN w.val ELSE trace)
<1> DEFINE w == Head(q)
           p == Tail(q)
<1>1. Written(q) = Written(p) \cup {w}
  BY FirstDone
<1> HIDE DEF w, p
<1>2. \A k \in {"row", "state", "report", "trace"} : ~Has(p, {k}) /\ w.on # k => ~Has(q, {k})
  BY <1>1 DEF Has
<1>3. \A x \in Written(q) : (x.on = "row" => x.val = r) /\ (x.on = "state" => x.val = s)
                            /\ (x.on = "report" => x.val.reason = r.reason) /\ (x.on = "trace" => x.val = TRUE)
  BY DEF Concludes
<1>4. ~Has(p, {"row"}) => (IF w.on = "row" THEN w.val ELSE row) = r
  BY <1>1, <1>2, <1>3 DEF Concludes
<1>5. local => /\ ~Has(p, {"state"}) => (IF w.on = "state" THEN w.val ELSE state) = s
               /\ ~Has(p, {"report"}) => (IF w.on = "report" THEN w.val ELSE report).reason = r.reason
               /\ ~Has(p, {"trace"}) => (IF w.on = "trace" THEN w.val ELSE trace) = TRUE
  BY <1>1, <1>2, <1>3 DEF Concludes
<1> QED
  BY <1>1, <1>3, <1>4, <1>5 DEF Concludes, w, p

\* What is kept of a Task that is not written stays.
LEMMA ConcludingStays ==
  ASSUME NEW t \in Tasks, NEW q, Concluding(t, q),
         kept'.row[t] = kept.row[t], kept'.state[t] = kept.state[t],
         kept'.report[t] = kept.report[t], kept'.trace[t] = kept.trace[t]
  PROVE  Concluding(t, q)'
BY DEF Concluding

LEMMA ProgressOf ==
  ASSUME RecoveryInv, RestartProgress, up = "starting", boot.ok, BootWrites
  PROVE  RestartProgress'
<1> DEFINE t == boot.task
           w == Head(boot.todo)
           p == Tail(boot.todo)
<1>1. KeptTyped /\ BootTyped
  BY DEF RecoveryInv, RecoveryTyped
<1>2. /\ boot.todo # <<>> /\ Store(t, w) /\ boot'.todo = p /\ boot'.task = t
      /\ boot'.left = boot.left /\ boot'.phase = boot.phase
  BY <1>1 DEF BootWrites, BootTyped
<1>3. /\ t \in Tasks /\ IsList(boot.todo) /\ Writable(w) /\ Written(boot.todo) = Written(p) \cup {w} /\ w.on # "token"
  BY <1>1, <1>2, FirstDone DEF BootTyped, Has
<1>4. \A x \in Tasks :
        /\ kept'.row[x]    = IF x = t /\ w.on = "row"    THEN w.val ELSE kept.row[x]
        /\ kept'.state[x]  = IF x = t /\ w.on = "state"  THEN w.val ELSE kept.state[x]
        /\ kept'.report[x] = IF x = t /\ w.on = "report" THEN w.val ELSE kept.report[x]
        /\ kept'.trace[x]  = IF x = t /\ w.on = "trace"  THEN w.val ELSE kept.trace[x]
        /\ kept'.apr[x]    = IF x = t /\ w.on = "apr"    THEN w.val ELSE kept.apr[x]
        /\ kept'.open[x]   = IF x = t /\ w.on = "open"   THEN w.val ELSE kept.open[x]
  BY <1>1, <1>2, <1>3, StoreGives
<1>5. /\ boot.phase \in {"import", "tasks"} \cup LatePhases
      /\ TasksAreConcluded /\ LaterPhasesClose /\ ApprovalsAreClosed /\ JournalIsClosed
  BY DEF RestartProgress
<1>6. \A kinds : Has(boot.todo, kinds) <=> (w.on \in kinds \/ Has(p, kinds))
  BY <1>2, <1>3, HasOn
<1> HIDE DEF w, p
<1>7. TasksAreConcluded'
  <2> SUFFICES ASSUME NEW x \in Tasks, (boot.phase = "tasks" /\ x \notin boot.left) \/ boot.phase \in LatePhases,
                      NEW q, q = IF t = x /\ boot.phase = "tasks" THEN p ELSE <<>>
               PROVE  Concluding(x, q)'
    BY <1>2 DEF TasksAreConcluded, Concluding
  <2>1. Concluding(x, IF t = x /\ boot.phase = "tasks" THEN boot.todo ELSE <<>>)
    BY <1>5 DEF TasksAreConcluded
  <2>2. CASE t = x /\ boot.phase = "tasks"
    <3>1. kept.row[t] # NoTask
      BY <1>2, <2>1, <2>2 DEF Concluding
    <3>2. PICK r, s \in Recs : Concludes(t \notin Remote, boot.todo, r, s, kept.row[t], kept.state[t],
                                         kept.report[t], kept.trace[t])
      BY <2>1, <2>2, <3>1 DEF Concluding
    <3>3. Concludes(t \notin Remote, p, r, s, IF w.on = "row" THEN w.val ELSE kept.row[t],
                    IF w.on = "state" THEN w.val ELSE kept.state[t],
                    IF w.on = "report" THEN w.val ELSE kept.report[t],
                    IF w.on = "trace" THEN w.val ELSE kept.trace[t])
      BY <1>2, <1>3, <3>2, ConcludesOn DEF w, p
    <3>4. /\ kept'.row[t] = IF w.on = "row" THEN w.val ELSE kept.row[t]
          /\ kept'.state[t] = IF w.on = "state" THEN w.val ELSE kept.state[t]
          /\ kept'.report[t] = IF w.on = "report" THEN w.val ELSE kept.report[t]
          /\ kept'.trace[t] = IF w.on = "trace" THEN w.val ELSE kept.trace[t]
      BY <1>3, <1>4
    <3>5. Concludes(t \notin Remote, p, r, s, kept'.row[t], kept'.state[t], kept'.report[t], kept'.trace[t])
      BY <3>3, <3>4
    <3>6. kept'.row[t] # NoTask
      BY <1>3, <3>1, <3>4, NoRecord DEF Writable, RecKinds
    <3>7. q = p /\ x = t
      BY <2>2
    <3> QED
      BY <3>5, <3>6, <3>7 DEF Concluding
  <2>3. CASE t # x
    BY <1>4, <2>1, <2>3, ConcludingStays
  <2>4. CASE boot.phase # "tasks"
    <3>1. w.on \in GateKinds
      BY <1>3, <1>5, <2>4 DEF LaterPhasesClose
    <3>2. /\ kept'.row[x] = kept.row[x] /\ kept'.state[x] = kept.state[x]
          /\ kept'.report[x] = kept.report[x] /\ kept'.trace[x] = kept.trace[x]
      BY <1>4, <3>1 DEF GateKinds
    <3> QED
      BY <2>1, <2>4, <3>2, ConcludingStays
  <2> QED
    BY <2>2, <2>3, <2>4
<1>8. LaterPhasesClose'
  BY <1>2, <1>3, <1>5 DEF LaterPhasesClose
<1>9. ApprovalsAreClosed'
  <2> SUFFICES ASSUME NEW x \in Tasks, kept'.apr[x] = "pending"
               PROVE  /\ boot.phase # "journal"
                      /\ boot.phase = "approvals" /\ x \notin boot.left => t = x /\ Has(p, {"apr"})
    BY <1>2 DEF ApprovalsAreClosed
  <2>1. CASE x = t /\ w.on = "apr"
    <3>1. w.val = "pending"
      BY <1>4, <2>1
    <3>2. boot.phase \notin LatePhases
      BY <1>3, <1>5, <2>1, <3>1 DEF LaterPhasesClose, AprKinds
    <3> QED
      BY <3>2 DEF LatePhases
  <2>2. CASE ~(x = t /\ w.on = "apr")
    <3>1. kept.apr[x] = "pending"
      BY <1>4, <2>2
    <3> QED
      BY <1>5, <1>6, <2>2, <3>1 DEF ApprovalsAreClosed
  <2> QED
    BY <2>1, <2>2
<1>10. JournalIsClosed'
  <2> SUFFICES ASSUME NEW x \in Tasks, boot.phase = "journal", x \notin boot.left, kept'.open[x]
               PROVE  t = x /\ Has(p, {"open"})
    BY <1>2 DEF JournalIsClosed
  <2>1. CASE x = t /\ w.on = "open"
    <3>1. w.val
      BY <1>4, <2>1
    <3> QED
      BY <1>3, <1>5, <2>1, <3>1 DEF LaterPhasesClose, LatePhases
  <2>2. CASE ~(x = t /\ w.on = "open")
    <3>1. kept.open[x]
      BY <1>4, <2>2
    <3> QED
      BY <1>5, <1>6, <2>2, <3>1 DEF JournalIsClosed
  <2> QED
    BY <2>1, <2>2
<1> QED
  BY <1>2, <1>5, <1>7, <1>8, <1>9, <1>10 DEF RestartProgress

\* A Task is seen, with these writes to do for it.
LEMMA ProgressSeen ==
  ASSUME RecoveryInv, RestartProgress, up = "starting", boot.ok, boot.todo = <<>>,
         NEW t \in Tasks, NEW q, See(t, q),
         boot.phase = "tasks" => Concluding(t, q),
         boot.phase \in LatePhases => \A w \in Written(q) :
           w.on \in GateKinds /\ (w.on \in AprKinds => w.val = "expired") /\ (w.on = "open" => ~w.val),
         kept.apr[t] = "pending" /\ boot.phase = "approvals" => Has(q, {"apr"}),
         kept.open[t] /\ boot.phase = "journal" => Has(q, {"open"})
  PROVE  RestartProgress'
<1>1. /\ boot'.phase = boot.phase /\ boot'.left = boot.left \ {t} /\ boot'.task = t /\ boot'.todo = q /\ kept' = kept
  <2>1. BootTyped
    BY DEF RecoveryInv, RecoveryTyped
  <2> QED
    BY <2>1 DEF See, BootTyped
<1>2. /\ boot.phase \in {"import", "tasks"} \cup LatePhases
      /\ TasksAreConcluded /\ LaterPhasesClose /\ ApprovalsAreClosed /\ JournalIsClosed
  BY DEF RestartProgress
<1>3. \A kinds : ~Has(boot.todo, kinds)
  BY HasNone
<1>4. TasksAreConcluded'
  <2> SUFFICES ASSUME NEW x \in Tasks, (boot.phase = "tasks" /\ x \notin boot.left \ {t}) \/ boot.phase \in LatePhases
               PROVE  Concluding(x, IF t = x /\ boot.phase = "tasks" THEN q ELSE <<>>)
    BY <1>1 DEF TasksAreConcluded, Concluding
  <2>1. CASE t = x /\ boot.phase = "tasks"
    BY <2>1
  <2>2. CASE ~(t = x /\ boot.phase = "tasks")
    <3>1. (boot.phase = "tasks" /\ x \notin boot.left) \/ boot.phase \in LatePhases
      BY <2>2
    <3>2. Concluding(x, <<>>)
      BY <1>2, <3>1 DEF TasksAreConcluded
    <3> QED
      BY <2>2, <3>2
  <2> QED
    BY <2>1, <2>2
<1>5. LaterPhasesClose'
  BY <1>1 DEF LaterPhasesClose
<1>6. ApprovalsAreClosed'
  BY <1>1, <1>2, <1>3 DEF ApprovalsAreClosed
<1>7. JournalIsClosed'
  BY <1>1, <1>2, <1>3 DEF JournalIsClosed
<1> QED
  BY <1>1, <1>2, <1>4, <1>5, <1>6, <1>7 DEF RestartProgress

\* Which steps start, end or finish starting the process.
LEMMA UpMoves == [Next]_vars => up' = up \/ Crash \/ Boot \/ NextPhase
<1> SUFFICES ASSUME [Next]_vars PROVE up' = up \/ Crash \/ Boot \/ NextPhase
  OBVIOUS
<1>1. ASSUME RunStep PROVE up' = up
  <2>1. CASE Begin \/ Prepare \/ CopyWorkspace \/ AskApproval \/ Answered
    BY <2>1 DEF Begin, Prepare, CopyWorkspace, AskApproval, Answered, GoOn
  <2>2. CASE Expire \/ LoopEnds \/ Gated \/ ApplyFile \/ Conflict
    BY <2>2 DEF Expire, LoopEnds, Gated, ApplyFile, Conflict, GoOn
  <2>3. CASE Applied \/ ReleaseLease \/ RemoveCopy \/ Converge \/ Release \/ RunWrites
    BY <2>3 DEF Applied, ReleaseLease, RemoveCopy, Converge, Release, RunWrites, GoOn
  <2> QED
    BY <1>1, <2>1, <2>2, <2>3 DEF RunStep
<1>2. ASSUME BootStep PROVE up' = up \/ Boot \/ NextPhase
  <2>1. ASSUME NEW t, NEW todo, See(t, todo) PROVE up' = up
    BY <2>1 DEF See
  <2>2. ASSUME NEW t \in Tasks, Import(t) \/ Reconcile(t) \/ ExpireApproval(t) \/ CloseTransition(t)
        PROVE  up' = up
    BY <2>1, <2>2 DEF Import, Reconcile, ExpireApproval, CloseTransition
  <2>3. CASE RecoverExpired \/ BootWrites
    BY <2>3 DEF RecoverExpired, BootWrites
  <2> QED
    BY <1>2, <2>2, <2>3 DEF BootStep
<1>3. ApiWrites \/ EndFails \/ ImportFails \/ BootFails \/ Cancel \/ LeaseExpires \/ UNCHANGED vars => up' = up
  BY DEF ApiWrites, EndFails, ImportFails, BootFails, Cancel, ApiDoes, LeaseExpires, vars
<1>4. (\E d \in {"approved", "rejected"} : Decide(d)) => up' = up
  BY DEF Decide, ApiDoes
<1>5. (\E t \in Tasks : Create(t) \/ RemoteStart(t) \/ RemoteEnds(t)) => up' = up
  BY DEF Create, RemoteStart, RemoteEnds, ApiDoes
<1> QED
  BY <1>1, <1>2, <1>3, <1>4, <1>5 DEF Next

LEMMA ProgressStep == RecoveryInv /\ RowsAreFaithful /\ RestartProgress /\ [Next]_vars => RestartProgress'
<1> SUFFICES ASSUME RecoveryInv, RowsAreFaithful, RestartProgress, [Next]_vars, up' = "starting", boot'.ok
             PROVE  RestartProgress'
  BY DEF RestartProgress
<1>1. BootTyped /\ UpTyped
  BY DEF RecoveryInv, RecoveryTyped
<1>2. CASE Boot
  <2>1. boot'.phase = "import" /\ boot'.todo = <<>>
    BY <1>2 DEF Boot, Resting
  <2> QED
    BY <2>1 DEF RestartProgress, TasksAreConcluded, LaterPhasesClose, ApprovalsAreClosed, JournalIsClosed, LatePhases
<1>3. CASE UNCHANGED <<kept, up, boot, run, api>>
  <2>1. UNCHANGED <<kept, up, boot>>
    BY <1>3
  <2> QED
    BY <2>1 DEF RestartProgress, TasksAreConcluded, LaterPhasesClose, ApprovalsAreClosed, JournalIsClosed, Concluding
<1>4. CASE RecoverExpired
  <2>1. /\ boot'.phase = "tasks" /\ boot'.left = Tasks /\ boot'.todo = <<>>
    BY <1>1, <1>4 DEF RecoverExpired, BootIs, Enter, BootTyped
  <2> QED
    BY <2>1 DEF RestartProgress, TasksAreConcluded, LaterPhasesClose, ApprovalsAreClosed, JournalIsClosed, LatePhases
<1>5. CASE NextPhase
  <2>1. /\ up = "starting" /\ boot.todo = <<>> /\ boot.left = {} /\ boot'.left = Tasks /\ boot'.todo = <<>>
        /\ kept' = kept /\ boot.ok
        /\ \/ boot.phase = "tasks" /\ boot'.phase = "approvals"
           \/ boot.phase = "approvals" /\ boot'.phase = "journal"
    BY <1>1, <1>5 DEF NextPhase, BootIs, Enter, BootTyped
  <2>2. TasksAreConcluded /\ ApprovalsAreClosed
    BY <2>1 DEF RestartProgress
  <2>3. \A t \in Tasks : Concluding(t, <<>>)
    BY <2>1, <2>2 DEF TasksAreConcluded, LatePhases
  <2>4. TasksAreConcluded'
    BY <2>1, <2>3 DEF TasksAreConcluded, Concluding
  <2>5. boot.phase = "approvals" => \A t \in Tasks : kept.apr[t] # "pending"
    BY <2>1, <2>2, HasNone DEF ApprovalsAreClosed
  <2>6. ApprovalsAreClosed'
    BY <2>1, <2>5 DEF ApprovalsAreClosed
  <2>7. LaterPhasesClose' /\ JournalIsClosed'
    BY <2>1, NoWrites DEF LaterPhasesClose, JournalIsClosed
  <2> QED
    BY <2>1, <2>4, <2>6, <2>7 DEF RestartProgress, LatePhases
<1>6. ASSUME NEW t \in Tasks, Import(t) \/ Reconcile(t) \/ ExpireApproval(t) \/ CloseTransition(t)
      PROVE  RestartProgress'
  <2>1. /\ Write("apr", "expired").on = "apr" /\ Write("apr", "expired").val = "expired"
        /\ Write("aprCopy", "expired").on = "aprCopy" /\ Write("aprCopy", "expired").val = "expired"
        /\ Closes.on = "open" /\ Closes.val = FALSE
    BY Fields, JournalWrites
  <2>2. up = "starting" /\ boot.todo = <<>> /\ boot.ok
    BY <1>1, <1>6 DEF Import, Reconcile, ExpireApproval, CloseTransition, BootIs, See, BootTyped
  <2>3. CASE Import(t)
    <3> DEFINE q == (IF Known(kept.copy[t]) THEN <<Write("row", kept.copy[t])>> ELSE <<>>)
                      \o (IF kept.aprCopy[t] # "none" THEN <<Write("apr", kept.aprCopy[t])>> ELSE <<>>)
    <3>1. See(t, q) /\ boot.phase = "import"
      BY <2>3 DEF Import, BootIs
    <3> HIDE DEF q
    <3> QED
      BY <2>2, <3>1, ProgressSeen DEF LatePhases
  <2>4. CASE Reconcile(t)
    <3>1. See(t, Repairs(t)) /\ boot.phase = "tasks"
      BY <2>4 DEF Reconcile, BootIs
    <3>2. Concluding(t, Repairs(t))
      BY RepairsConclude
    <3> QED
      BY <2>2, <3>1, <3>2, ProgressSeen DEF LatePhases
  <2>5. CASE ExpireApproval(t)
    <3> DEFINE q == IF kept.apr[t] = "pending" THEN AprWrites("expired") ELSE <<>>
    <3>1. See(t, q) /\ boot.phase = "approvals"
      BY <2>5 DEF ExpireApproval, BootIs
    <3>2. /\ Written(q) \subseteq {Write("apr", "expired"), Write("aprCopy", "expired")}
          /\ kept.apr[t] = "pending" => Has(q, {"apr"})
      BY LateLists
    <3> HIDE DEF q
    <3>3. \A w \in Written(q) :
            w.on \in GateKinds /\ (w.on \in AprKinds => w.val = "expired") /\ (w.on = "open" => ~w.val)
      BY <2>1, <3>2 DEF GateKinds, AprKinds
    <3> QED
      BY <2>2, <3>1, <3>2, <3>3, ProgressSeen
  <2>6. CASE CloseTransition(t)
    <3> DEFINE q == IF ~kept.open[t] THEN <<>>
                    ELSE (IF kept.apr[t] \in {"pending", "approved"} THEN AprWrites("expired") ELSE <<>>) \o Committed
    <3>1. See(t, q) /\ boot.phase = "journal"
      BY <2>6 DEF CloseTransition, BootIs
    <3>2. /\ Written(q) \subseteq {Write("apr", "expired"), Write("aprCopy", "expired"), Closes}
          /\ kept.open[t] => Has(q, {"open"})
      BY LateLists
    <3> HIDE DEF q
    <3>3. \A w \in Written(q) :
            w.on \in GateKinds /\ (w.on \in AprKinds => w.val = "expired") /\ (w.on = "open" => ~w.val)
      BY <2>1, <3>2 DEF GateKinds, AprKinds
    <3> QED
      BY <2>2, <3>1, <3>2, <3>3, ProgressSeen
  <2> QED
    BY <1>6, <2>3, <2>4, <2>5, <2>6
<1>7. CASE BootWrites
  <2>1. up = "starting" /\ boot.ok
    BY <1>1, <1>7 DEF BootWrites, BootTyped
  <2> QED
    BY <1>7, <2>1, ProgressOf
<1>8. ~Crash /\ ~ImportFails /\ ~BootFails
  <2>1. ~Crash
    BY DEF Crash
  <2>2. ~ImportFails /\ ~BootFails
    BY <1>1 DEF ImportFails, BootFails, BootTyped
  <2> QED
    BY <2>1, <2>2
<1>9. up # "up" => ~RunStep /\ ~ApiWrites /\ ~EndFails /\ ~Cancel /\ (\A d : ~Decide(d))
                   /\ \A t \in Tasks : ~Create(t) /\ ~RemoteStart(t) /\ ~RemoteEnds(t)
  <2> SUFFICES ASSUME up # "up"
               PROVE  ~RunStep /\ ~ApiWrites /\ ~EndFails /\ ~Cancel /\ (\A d : ~Decide(d))
                      /\ \A t \in Tasks : ~Create(t) /\ ~RemoteStart(t) /\ ~RemoteEnds(t)
    OBVIOUS
  <2>1. run.at = "idle" /\ run.todo = <<>>
    BY <1>1, IdleTyped DEF UpTyped
  <2>2. ~RunStep
    BY <2>1 DEF RunStep, Begin, Prepare, CopyWorkspace, AskApproval, Answered, Expire, LoopEnds, Gated, ApplyFile,
                Conflict, Applied, ReleaseLease, RemoveCopy, Converge, Release, RunWrites, RunIs
  <2>3. ~ApiWrites /\ ~EndFails /\ ~Cancel /\ (\A d : ~Decide(d))
        /\ \A t \in Tasks : ~Create(t) /\ ~RemoteStart(t) /\ ~RemoteEnds(t)
    BY DEF ApiWrites, EndFails, Cancel, Decide, Create, Ready, RemoteStart, RemoteEnds, ApiDoes
  <2> QED
    BY <2>2, <2>3
<1>10. CASE up = "up"
  <2>1. ~Boot /\ ~NextPhase
    BY <1>10 DEF Boot, NextPhase, BootIs
  <2> QED
    BY <1>8, <1>10, <2>1, UpMoves
<1>11. CASE up # "up"
  <2>1. LeaseExpires \/ UNCHANGED vars => UNCHANGED <<kept, up, boot, run, api>>
    BY DEF LeaseExpires, vars
  <2> QED
    BY <1>2, <1>3, <1>4, <1>5, <1>6, <1>7, <1>8, <1>9, <1>11, <2>1 DEF Next, BootStep
<1> QED
  BY <1>10, <1>11

\* When its list is done, a Task has ended and its artifacts tell the same end.
LEMMA Concluded ==
  ASSUME NEW t \in Tasks, Concluding(t, <<>>), kept.row[t] # NoTask
  PROVE  /\ Ended(t)
         /\ t \notin Remote => /\ Readable(t) /\ kept.trace[t]
                               /\ Recovered(t).status = kept.row[t].status
                               /\ Recovered(t).reason = kept.row[t].reason
                               /\ kept.report[t].reason = kept.row[t].reason
<1>1. PICK r, s \in Recs : Concludes(t \notin Remote, <<>>, r, s, kept.row[t], kept.state[t], kept.report[t], kept.trace[t])
  BY DEF Concluding
<1>2. \A kinds : ~Has(<<>>, kinds)
  BY HasNone
<1>3. kept.row[t] = r /\ r.status \notin Active
  BY <1>1, <1>2 DEF Concludes
<1>4. t \notin Remote => /\ s # NoTask /\ s.status # "running" /\ Public(s.status, s.reason) = r.status
                         /\ s.reason = r.reason /\ kept.state[t] = s /\ kept.report[t].reason = r.reason
                         /\ kept.trace[t] = TRUE
  BY <1>1, <1>2 DEF Concludes
<1>5. t \notin Remote => /\ Recovered(t).status = Public(s.status, s.reason) /\ Recovered(t).reason = s.reason
  BY <1>4 DEF Recovered, Public, Rec
<1> QED
  BY <1>3, <1>4, <1>5 DEF Ended, Known, Readable

\* What a restart has settled so far, and that every end in the records is one that
\* the artifacts written for it stand for (terminal_task_from_run).
THEOREM RestartInvHolds == Spec => []RestartInv
<1>1. Init => RestartInv
  <2> SUFFICES ASSUME Init PROVE RestartInv
    OBVIOUS
  <2>1. /\ up = "up" /\ run.todo = <<>> /\ run.mem = NoTask /\ api.todo = <<>> /\ boot.todo = <<>>
        /\ \A t \in Tasks : kept.row[t] = NoTask /\ kept.copy[t] = NoTask
    BY IdleTyped DEF Init, Resting
  <2> QED
    BY <2>1, FaithEmpty DEF RestartInv, RowsAreFaithful, RestartProgress, MemFits
<1>2. RecoveryInv /\ RestartInv /\ [Next]_vars => RestartInv'
  BY RowsStep, ProgressStep DEF RestartInv
<1> QED
  BY <1>1, <1>2, RecoveryInvHolds, PTL DEF Spec

\* A restart that says it is ready (reconcile in lifespan.py) has every Task ended with
\* the end its artifacts tell, no Approval pending and no transition open in the
\* journal, wherever the process, or an earlier restart, has died.
THEOREM RestartsSettle == Spec => RestartSettles
<1>1. RecoveryInv /\ RestartInv /\ [Next]_vars =>
        [(up = "starting" /\ up' = "up" /\ boot'.ok) =>
          \A t \in Tasks : Known(kept.row[t]) =>
             /\ Ended(t)
             /\ t \notin Remote => /\ Readable(t) /\ kept.trace[t]
                                   /\ Recovered(t).status = kept.row[t].status
                                   /\ Recovered(t).reason = kept.row[t].reason
                                   /\ kept.report[t].reason = kept.row[t].reason
             /\ kept.apr[t] # "pending" /\ ~kept.open[t]]_vars
  <2> SUFFICES ASSUME RecoveryInv, RestartInv, [Next]_vars, up = "starting", up' = "up", boot'.ok,
                      NEW t \in Tasks, Known(kept.row[t])
               PROVE  /\ Ended(t)
                      /\ t \notin Remote => /\ Readable(t) /\ kept.trace[t]
                                            /\ Recovered(t).status = kept.row[t].status
                                            /\ Recovered(t).reason = kept.row[t].reason
                                            /\ kept.report[t].reason = kept.row[t].reason
                      /\ kept.apr[t] # "pending" /\ ~kept.open[t]
    OBVIOUS
  <2>1. ~Crash /\ ~Boot
    BY DEF Crash, Boot
  <2>2. NextPhase
    BY <2>1, UpMoves
  <2>3. boot.phase = "journal" /\ boot.todo = <<>> /\ boot.left = {} /\ boot.ok
    BY <2>2 DEF NextPhase, BootIs, Resting
  <2>4. TasksAreConcluded /\ ApprovalsAreClosed /\ JournalIsClosed
    BY <2>3 DEF RestartInv, RestartProgress
  <2>5. Concluding(t, <<>>)
    BY <2>3, <2>4 DEF TasksAreConcluded, LatePhases
  <2>6. kept.apr[t] # "pending" /\ ~kept.open[t]
    BY <2>3, <2>4, HasNone DEF ApprovalsAreClosed, JournalIsClosed
  <2> QED
    BY <2>5, <2>6, Concluded DEF Known
<1> QED
  BY <1>1, RecoveryInvHolds, RestartInvHolds, PTL DEF Spec, RestartSettles
=============================================================================
