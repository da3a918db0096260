--------------------------- MODULE ToolBatchProofs ---------------------------
(***************************************************************************)
(* Theorems about ToolBatch for every batch of calls and every bound.      *)
(***************************************************************************)
EXTENDS ToolBatch, FiniteSetTheorems, TLAPS

-----------------------------------------------------------------------------
(* The parts of the inductive invariant.                                   *)

Stages == {"waiting", "running", "worked", "done", "raised", "committed"}
Entries == Paths \X Nat
Progress == [stage : Stages, status : {"none", "ok", "error", "partial_success", "rejected"},
             seen : SUBSET Entries, snap : SUBSET Entries, changed : SUBSET Paths, affected : SUBSET Paths]

BatchTyped ==
  /\ phase \in {"choose", "run", "raised"}
  /\ run \in [Indices -> Progress]
  /\ version \in [Paths -> Nat] /\ recorded \in SUBSET Paths
  /\ pool = {} \/ pool = Partition(calls)
  /\ phase = "choose" => calls = <<>>

\* When a serial call has started, the pool and the calls before it are over.
SerialOrder ==
  \A k \in Indices : k \notin pool /\ run[k].stage # "waiting" =>
    \A j \in Indices : j \in pool \/ j < k => run[j].stage \in Over

\* The digests a call began with, and what it has changed of the files since.
Snapped(i) ==
  /\ \A d \in run[i].snap : /\ d[1] \in Watched(calls[i])
                            /\ version[d[1]] = d[2] + (IF d[1] \in run[i].changed THEN 1 ELSE 0)
  /\ \A p \in Watched(calls[i]) : \E d \in run[i].snap : d[1] = p

CallsAgree ==
  \A i \in Indices :
    /\ run[i].changed \in SUBSET MayChange(calls[i])
    /\ run[i].stage \in {"waiting", "running"} => run[i].changed = {} /\ run[i].affected = {} /\ run[i].seen = {}
    /\ run[i].stage \in {"running", "worked"} => Snapped(i)
    /\ run[i].stage \in {"done", "committed"} => run[i].affected = run[i].changed
    /\ run[i].stage = "committed" => run[i].changed \in SUBSET recorded

\* A file has changed if the record names it, or a call of the turn has changed it.
LedgerAgrees ==
  \A p \in Paths : version[p] > 0 <=> p \in recorded \/ \E i \in Indices : p \in run[i].changed

\* What the calls of the turn from the i-th on have changed of p, so far.
ChangersFrom(i, p) == {k \in Indices : k >= i /\ p \in run[k].changed}

\* What a call has seen is what the calls before it had left, whatever came since.
SeenInOrder ==
  /\ IsFiniteSet({k \in Indices : run[k].changed # {}})
  /\ \A i \in Indices : \A e \in run[i].seen :
       /\ e[1] \in LooksAt(calls[i])
       /\ IF calls[i].name = "search" THEN e[2] >= VersionBefore(i, e[1]) ELSE e[2] = VersionBefore(i, e[1])

BatchInv == BatchTyped /\ SerialOrder /\ CallsAgree /\ LedgerAgrees /\ SeenInOrder

-----------------------------------------------------------------------------
(* What the partition keeps apart.                                         *)

\* What a call on the pool looks at, no call before it in the batch changes.
LEMMA NothingBefore ==
  ASSUME NEW c, NEW j \in Partition(c), NEW i \in 1 .. Len(c), i < j
  PROVE  MayChange(c[i]) \cap LooksAt(c[j]) = {}
<1> DEFINE before(n, names) == {k \in 1 .. Len(c) : k < n /\ c[k].name \in names}
<1>1. /\ j \in 1 .. Len(c) /\ c[i].name # "run_shell"
      /\ c[j].name = "search" => c[i].name \notin WriteTools
      /\ c[j].name = "read_file" => c[i].name \notin WriteTools \/ c[i].path # c[j].path
      /\ c[j].name \notin {"search", "read_file"} => c[j].name \in WriteTools
      /\ c[j].name \in WriteTools => c[i].name = "search" \/ c[i].path # c[j].path
  BY DEF Partition, WriteTools
<1> QED
  BY <1>1 DEF MayChange, LooksAt, WriteTools

\* What a call on the pool changes, no call before it looks at, but for a search.
LEMMA NothingBehind ==
  ASSUME NEW c, NEW k \in Partition(c), NEW i \in 1 .. Len(c), i < k, c[i].name # "search"
  PROVE  MayChange(c[k]) \cap LooksAt(c[i]) = {}
<1>1. /\ c[i].name # "run_shell" /\ c[k].name # "run_shell"
      /\ c[k].name \in WriteTools => c[i].path # c[k].path
  BY DEF Partition, WriteTools
<1> QED
  BY <1>1 DEF MayChange, LooksAt, WriteTools

LEMMA WatchedLooks ==
  ASSUME NEW c
  PROVE  /\ Watched(c) = MayChange(c) /\ MayChange(c) \in SUBSET Paths /\ LooksAt(c) \in SUBSET Paths
         /\ c.name # "run_shell" => Watched(c) \in SUBSET LooksAt(c)
         /\ c.name = "search" => Watched(c) = {}
BY DEF Watched, MayChange, LooksAt, WriteTools

\* Two calls on the pool do not watch what the other changes.
LEMMA PoolApart ==
  ASSUME NEW c, NEW i \in Partition(c), NEW k \in Partition(c), i # k
  PROVE  MayChange(c[i]) \cap Watched(c[k]) = {}
<1>1. i \in 1 .. Len(c) /\ k \in 1 .. Len(c) /\ c[i].name # "run_shell" /\ c[k].name # "run_shell"
  BY DEF Partition, WriteTools
<1>2. i < k \/ k < i
  BY <1>1
<1>3. CASE i < k
  BY <1>1, <1>3, NothingBefore, WatchedLooks
<1>4. CASE k < i
  BY <1>1, <1>4, NothingBehind, WatchedLooks
<1> QED
  BY <1>2, <1>3, <1>4

-----------------------------------------------------------------------------
(* What the steps of one call have in common.                              *)

\* A call that starts is at its turn, and one that is over stays so.
LEMMA OrderStays ==
  ASSUME BatchTyped, SerialOrder, NEW i \in Indices, calls' = calls, pool' = pool,
         \A k \in Indices \ {i} : run'[k] = run[k],
         run[i].stage \in Over => run'[i].stage \in Over,
         run[i].stage = "waiting" => Turn(i)
  PROVE  SerialOrder'
<1> SUFFICES ASSUME NEW k \in Indices, k \notin pool, run'[k].stage # "waiting", NEW j \in Indices, j \in pool \/ j < k
             PROVE  run'[j].stage \in Over
  BY DEF SerialOrder, Indices
<1>1. "waiting" \notin Over
  BY DEF Over
<1>2. run[j].stage \in Over
  <2>1. CASE run[k].stage # "waiting"
    BY <2>1 DEF SerialOrder
  <2>2. CASE run[k].stage = "waiting"
    <3>1. k = i /\ Turn(i)
      BY <2>2
    <3> QED
      BY <3>1 DEF Turn
  <2> QED
    BY <2>1, <2>2
<1> QED
  BY <1>2

\* Nothing is changed or seen by a step that leaves the files alone.
LEMMA SeenStays ==
  ASSUME SeenInOrder, calls' = calls, version' = version,
         \A k \in Indices : run'[k].changed = run[k].changed /\ run'[k].seen = run[k].seen
  PROVE  SeenInOrder'
<1>1. Indices' = Indices
  BY DEF Indices
<1>2. {k \in Indices : run[k].changed # {}}' = {k \in Indices : run[k].changed # {}}
  BY <1>1
<1>3. ASSUME NEW i \in Indices, NEW p
      PROVE  VersionBefore(i, p)' = VersionBefore(i, p)
  <2>1. {k \in Indices : k >= i /\ p \in run[k].changed}' = {k \in Indices : k >= i /\ p \in run[k].changed}
    BY <1>1
  <2> QED
    BY <2>1 DEF VersionBefore
<1>4. IsFiniteSet({k \in Indices : run[k].changed # {}})'
  BY <1>2 DEF SeenInOrder
<1>5. ASSUME NEW i \in Indices, NEW e \in run'[i].seen
      PROVE  /\ e[1] \in LooksAt(calls[i])
             /\ IF calls[i].name = "search" THEN e[2] >= VersionBefore(i, e[1])' ELSE e[2] = VersionBefore(i, e[1])'
  BY <1>3 DEF SeenInOrder
<1> QED
  BY <1>1, <1>4, <1>5 DEF SeenInOrder

LEMMA LedgerStays ==
  ASSUME LedgerAgrees, calls' = calls, version' = version, recorded' = recorded,
         \A k \in Indices : run'[k].changed = run[k].changed
  PROVE  LedgerAgrees'
BY DEF LedgerAgrees, Indices

\* One call's part of CallsAgree, for a step that changes no file.
LEMMA AgreeStays ==
  ASSUME BatchTyped, CallsAgree, NEW i \in Indices, calls' = calls, version' = version,
         recorded \in SUBSET recorded',
         \A k \in Indices \ {i} : run'[k] = run[k],
         /\ run'[i].changed = run[i].changed
         /\ run'[i].stage \in {"waiting", "running"} => run'[i].changed = {} /\ run'[i].affected = {} /\ run'[i].seen = {}
         /\ run'[i].stage \in {"running", "worked"} => Snapped(i)'
         /\ run'[i].stage \in {"done", "committed"} => run'[i].affected = run'[i].changed
         /\ run'[i].stage = "committed" => run'[i].changed \in SUBSET recorded'
  PROVE  CallsAgree'
<1>1. Indices' = Indices
  BY DEF Indices
<1>2. ASSUME NEW k \in Indices, k # i, run'[k].stage \in {"running", "worked"} PROVE Snapped(k)'
  <2>1. Snapped(k)
    BY <1>2 DEF CallsAgree
  <2> QED
    BY <1>2, <2>1 DEF Snapped
<1>3. ASSUME NEW k \in Indices, k # i
      PROVE  /\ run'[k].changed \in SUBSET MayChange(calls[k])
             /\ run'[k].stage \in {"waiting", "running"} => run'[k].changed = {} /\ run'[k].affected = {} /\ run'[k].seen = {}
             /\ run'[k].stage \in {"done", "committed"} => run'[k].affected = run'[k].changed
             /\ run'[k].stage = "committed" => run'[k].changed \in SUBSET recorded'
  BY <1>3 DEF CallsAgree
<1>4. run'[i].changed \in SUBSET MayChange(calls[i])
  BY DEF CallsAgree
<1> QED
  BY <1>1, <1>2, <1>3, <1>4 DEF CallsAgree

-----------------------------------------------------------------------------
(* The steps of one call that change no file.                              *)

LEMMA RefuseKeeps ==
  ASSUME BatchInv, NEW i \in Indices, RefuseRepeated(i) \/ RefuseOther(i)
  PROVE  BatchInv'
<1>1. run \in [Indices -> Progress] /\ Turn(i) /\ run[i].stage = "waiting"
  BY DEF BatchInv, BatchTyped, RefuseRepeated, RefuseOther, Admitted, Turn
<1>2. /\ run' = [run EXCEPT ![i].stage = "done", ![i].status = "rejected"]
      /\ UNCHANGED <<phase, calls, pool, version, recorded>>
  BY DEF RefuseRepeated, RefuseOther, Refuse
<1>3. run' \in [Indices -> Progress]
  <2> DEFINE r == [run[i] EXCEPT !.stage = "done", !.status = "rejected"]
  <2>1. run' = [run EXCEPT ![i] = r]
    BY <1>2
  <2>2. r \in Progress
    BY <1>1 DEF Progress, Stages
  <2> QED
    BY <1>1, <2>1, <2>2
<1>4. /\ \A k \in Indices \ {i} : run'[k] = run[k]
      /\ run'[i].stage = "done" /\ run'[i].changed = run[i].changed /\ run'[i].affected = run[i].affected
      /\ run'[i].seen = run[i].seen
  BY <1>1, <1>2 DEF Progress
<1>5. BatchTyped'
  BY <1>2, <1>3 DEF BatchInv, BatchTyped, Indices
<1>6. SerialOrder'
  BY <1>1, <1>2, <1>4, OrderStays DEF BatchInv, Over
<1>7. CallsAgree'
  <2>1. run[i].changed = {} /\ run[i].affected = {}
    BY <1>1 DEF BatchInv, CallsAgree
  <2> QED
    BY <1>2, <1>4, <2>1, AgreeStays DEF BatchInv
<1>8. LedgerAgrees' /\ SeenInOrder'
  BY <1>2, <1>4, LedgerStays, SeenStays DEF BatchInv
<1> QED
  BY <1>5, <1>6, <1>7, <1>8 DEF BatchInv

LEMMA BeginKeeps ==
  ASSUME BatchInv, NEW i \in Indices, Begin(i)
  PROVE  BatchInv'
<1> DEFINE snap == Digests(Watched(calls[i]))
<1>1. run \in [Indices -> Progress] /\ Turn(i) /\ run[i].stage = "waiting" /\ version \in [Paths -> Nat]
  BY DEF BatchInv, BatchTyped, Begin, Admitted, Turn
<1>2. /\ \/ run' = [run EXCEPT ![i].stage = "raised"]
         \/ run' = [run EXCEPT ![i].stage = "running", ![i].snap = snap]
      /\ UNCHANGED <<phase, calls, pool, version, recorded>>
  BY DEF Begin
<1>3. snap \in SUBSET Entries
  BY <1>1, WatchedLooks DEF Digests, Entries
<1>4. \A d \in snap : d[1] \in Watched(calls[i]) /\ version[d[1]] = d[2]
  BY DEF Digests
<1>5. ASSUME NEW p \in Watched(calls[i]) PROVE \E d \in snap : d[1] = p
  <2>1. <<p, version[p]>> \in snap /\ <<p, version[p]>>[1] = p
    BY DEF Digests
  <2> QED
    BY <2>1
<1> HIDE DEF snap
<1>6. run' \in [Indices -> Progress]
  BY <1>1, <1>2, <1>3 DEF Progress, Stages
<1>7. /\ \A k \in Indices \ {i} : run'[k] = run[k]
      /\ run'[i].changed = run[i].changed /\ run'[i].affected = run[i].affected /\ run'[i].seen = run[i].seen
      /\ \/ run'[i].stage = "raised"
         \/ run'[i].stage = "running" /\ run'[i].snap = snap
  BY <1>1, <1>2 DEF Progress
<1>8. run[i].changed = {} /\ run[i].affected = {} /\ run[i].seen = {}
  BY <1>1 DEF BatchInv, CallsAgree
<1>9. BatchTyped'
  BY <1>2, <1>6 DEF BatchInv, BatchTyped, Indices
<1>10. SerialOrder'
  BY <1>1, <1>2, <1>7, OrderStays DEF BatchInv, Over
<1>11. run'[i].stage = "running" => Snapped(i)'
  <2> SUFFICES ASSUME run'[i].stage = "running"
               PROVE  /\ \A d \in run'[i].snap : /\ d[1] \in Watched(calls[i])
                                                 /\ version[d[1]] = d[2] + (IF d[1] \in run'[i].changed THEN 1 ELSE 0)
                      /\ \A p \in Watched(calls[i]) : \E d \in run'[i].snap : d[1] = p
    BY <1>2 DEF Snapped
  <2>1. run'[i].snap = snap /\ run'[i].changed = {}
    BY <1>7, <1>8
  <2>2. \A d \in snap : d[2] \in Nat
    BY <1>3 DEF Entries
  <2> QED
    BY <1>4, <1>5, <2>1, <2>2
<1>12. CallsAgree'
  BY <1>2, <1>7, <1>8, <1>11, AgreeStays DEF BatchInv
<1>13. LedgerAgrees' /\ SeenInOrder'
  <2>1. \A k \in Indices : run'[k].changed = run[k].changed /\ run'[k].seen = run[k].seen
    BY <1>7
  <2> QED
    BY <1>2, <2>1, LedgerStays, SeenStays DEF BatchInv
<1> QED
  BY <1>9, <1>10, <1>12, <1>13 DEF BatchInv

LEMMA RaiseKeeps ==
  ASSUME BatchInv, NEW i \in Indices, RaiseUnsorted(i)
  PROVE  BatchInv'
<1>1. /\ run \in [Indices -> Progress] /\ run[i].stage \in {"waiting", "done"}
      /\ run[i].stage = "waiting" => Turn(i)
  BY DEF BatchInv, BatchTyped, RaiseUnsorted, CommitTurn, Turn
<1>2. /\ run' = [run EXCEPT ![i].stage = "raised"]
      /\ UNCHANGED <<phase, calls, pool, version, recorded>>
  BY DEF RaiseUnsorted
<1>3. run' \in [Indices -> Progress]
  <2> DEFINE r == [run[i] EXCEPT !.stage = "raised"]
  <2>1. run' = [run EXCEPT ![i] = r]
    BY <1>2
  <2>2. r \in Progress
    BY <1>1 DEF Progress, Stages
  <2> QED
    BY <1>1, <2>1, <2>2
<1>4. /\ \A k \in Indices \ {i} : run'[k] = run[k]
      /\ run'[i].stage = "raised" /\ run'[i].changed = run[i].changed /\ run'[i].affected = run[i].affected
      /\ run'[i].seen = run[i].seen
  BY <1>1, <1>2 DEF Progress
<1>5. BatchTyped'
  BY <1>2, <1>3 DEF BatchInv, BatchTyped, Indices
<1>6. SerialOrder'
  BY <1>1, <1>2, <1>4, OrderStays DEF BatchInv, Over
<1>7. CallsAgree'
  BY <1>2, <1>4, AgreeStays DEF BatchInv
<1>8. LedgerAgrees' /\ SeenInOrder'
  BY <1>2, <1>4, LedgerStays, SeenStays DEF BatchInv
<1> QED
  BY <1>5, <1>6, <1>7, <1>8 DEF BatchInv

\* The digests tell what a call has changed.
LEMMA AffectedIs ==
  ASSUME BatchInv, NEW i \in Indices, run[i].stage = "worked"
  PROVE  Affected(i) = run[i].changed
<1>1. run[i].changed \in SUBSET Watched(calls[i]) /\ Snapped(i)
  BY WatchedLooks DEF BatchInv, CallsAgree
<1>2. run[i].snap \in SUBSET Entries
  BY DEF BatchInv, BatchTyped, Progress
<1>3. ASSUME NEW d \in run[i].snap PROVE version[d[1]] # d[2] <=> d[1] \in run[i].changed
  <2>1. d[2] \in Nat
    BY <1>2 DEF Entries
  <2>2. version[d[1]] = d[2] + (IF d[1] \in run[i].changed THEN 1 ELSE 0)
    BY <1>1 DEF Snapped
  <2> QED
    BY <2>1, <2>2
<1>4. \A p \in run[i].changed : \E d \in run[i].snap : d[1] = p
  BY <1>1 DEF Snapped
<1> QED
  BY <1>3, <1>4 DEF Affected

LEMMA ConcludeKeeps ==
  ASSUME BatchInv, NEW i \in Indices, Conclude(i)
  PROVE  BatchInv'
<1>1. run \in [Indices -> Progress] /\ run[i].stage = "worked"
  BY DEF BatchInv, BatchTyped, Conclude
<1>2. PICK changed : changed = run[i].changed
  OBVIOUS
<1>3. Affected(i) = changed /\ changed \in SUBSET Paths
  BY <1>1, <1>2, AffectedIs DEF Progress
<1>4. /\ run' = [run EXCEPT ![i].stage = "done", ![i].affected = changed,
                            ![i].status = IF @ = "error" /\ changed # {} THEN "partial_success" ELSE @]
      /\ UNCHANGED <<phase, calls, pool, version, recorded>>
  BY <1>3 DEF Conclude
<1>5. run' \in [Indices -> Progress]
  <2> DEFINE status == IF run[i].status = "error" /\ changed # {} THEN "partial_success" ELSE run[i].status
             r == [run[i] EXCEPT !.stage = "done", !.affected = changed, !.status = status]
  <2>1. status \in {"none", "ok", "error", "partial_success", "rejected"}
    BY <1>1 DEF Progress
  <2>2. run' = [run EXCEPT ![i] = r]
    BY <1>4
  <2> HIDE DEF status
  <2>3. r \in Progress
    BY <1>1, <1>3, <2>1 DEF Progress, Stages
  <2> QED
    BY <1>1, <2>2, <2>3
<1>6. /\ \A k \in Indices \ {i} : run'[k] = run[k]
      /\ run'[i].stage = "done" /\ run'[i].changed = run[i].changed /\ run'[i].affected = changed
      /\ run'[i].seen = run[i].seen
  BY <1>1, <1>4 DEF Progress
<1>7. BatchTyped'
  BY <1>4, <1>5 DEF BatchInv, BatchTyped, Indices
<1>8. SerialOrder'
  BY <1>1, <1>4, <1>6, OrderStays DEF BatchInv, Over
<1>9. CallsAgree'
  BY <1>2, <1>4, <1>6, AgreeStays DEF BatchInv
<1>10. LedgerAgrees' /\ SeenInOrder'
  BY <1>4, <1>6, LedgerStays, SeenStays DEF BatchInv
<1> QED
  BY <1>7, <1>8, <1>9, <1>10 DEF BatchInv

-----------------------------------------------------------------------------
(* A call changes files.                                                   *)

\* A call that has started is on the pool, or the pool and all before it are over.
LEMMA OneAtATime ==
  ASSUME BatchInv, NEW i \in Indices, NEW k \in Indices, i # k,
         run[i].stage = "running", run[k].stage # "waiting"
  PROVE  /\ run[k].stage \notin Over => i \in Partition(calls) /\ k \in Partition(calls)
         /\ i < k => k \in Partition(calls)
<1>1. "running" \notin Over /\ "waiting" \notin Over
  BY DEF Over
<1>2. i < k \/ k < i
  BY DEF Indices
<1>3. ASSUME i < k PROVE k \in pool
  BY <1>1, <1>3 DEF BatchInv, SerialOrder
<1>4. ASSUME run[k].stage \notin Over PROVE i \in pool /\ k \in pool
  <2>1. k \in pool
    <3>1. CASE i < k
      BY <1>3, <3>1
    <3>2. CASE k < i
      <4>1. i \in pool
        BY <1>1, <1>4, <3>2 DEF BatchInv, SerialOrder
      <4> QED
        BY <1>1, <4>1 DEF BatchInv, SerialOrder
    <3> QED
      BY <1>2, <3>1, <3>2
  <2>2. i \in pool
    BY <1>1, <1>4, <2>1 DEF BatchInv, SerialOrder
  <2> QED
    BY <2>1, <2>2
<1>5. pool \in SUBSET Partition(calls)
  BY DEF BatchInv, BatchTyped
<1> QED
  BY <1>3, <1>4, <1>5

\* Nobody after a call that runs has changed what it looks at.
LEMMA NobodyAhead ==
  ASSUME BatchInv, NEW i \in Indices, run[i].stage = "running", calls[i].name # "search",
         NEW p \in LooksAt(calls[i])
  PROVE  ChangersFrom(i, p) = {}
<1> SUFFICES ASSUME NEW k \in Indices, k >= i, p \in run[k].changed PROVE FALSE
  BY DEF ChangersFrom
<1>1. run[i].changed = {} /\ run[k].changed \in SUBSET MayChange(calls[k])
      /\ run[k].stage # "waiting"
  BY DEF BatchInv, CallsAgree
<1>2. i # k /\ i < k
  BY <1>1 DEF Indices
<1>3. k \in Partition(calls)
  BY <1>1, <1>2, OneAtATime
<1>4. MayChange(calls[k]) \cap LooksAt(calls[i]) = {}
  BY <1>2, <1>3, NothingBehind DEF Indices
<1> QED
  BY <1>1, <1>4

\* Nobody before a call that has looked at a file changes it any more.
LEMMA NobodyBehind ==
  ASSUME BatchInv, NEW i \in Indices, run[i].stage = "running", NEW j \in Indices, run[j].seen # {}, i < j
  PROVE  MayChange(calls[i]) \cap LooksAt(calls[j]) = {}
<1>1. run[j].stage # "waiting" /\ i # j
  BY DEF BatchInv, CallsAgree, Indices
<1>2. j \in Partition(calls)
  BY <1>1, OneAtATime
<1> QED
  BY <1>2, NothingBefore DEF Indices

LEMMA FewerChangers ==
  ASSUME BatchInv, NEW j, NEW p
  PROVE  IsFiniteSet(ChangersFrom(j, p)) /\ Cardinality(ChangersFrom(j, p)) \in Nat
<1>1. ChangersFrom(j, p) \in SUBSET {k \in Indices : run[k].changed # {}}
  BY DEF ChangersFrom
<1>2. IsFiniteSet(ChangersFrom(j, p))
  BY <1>1, FS_Subset DEF BatchInv, SeenInOrder
<1> QED
  BY <1>2, FS_CardinalityType

LEMMA ChangeKeeps ==
  ASSUME BatchInv, NEW i \in Indices, run[i].stage = "running", NEW changed \in SUBSET MayChange(calls[i]),
         \A p \in Paths : version'[p] = version[p] + (IF p \in changed THEN 1 ELSE 0),
         version' \in [Paths -> Nat], UNCHANGED <<phase, calls, pool, recorded>>,
         run' \in [Indices -> Progress],
         \A k \in Indices \ {i} : run'[k] = run[k],
         run'[i].changed = changed, run'[i].snap = run[i].snap, run'[i].stage \in {"worked", "raised"},
         run'[i].seen = {} \/ run'[i].seen = Digests(LooksAt(calls[i]))
  PROVE  BatchInv'
<1>1. /\ run \in [Indices -> Progress] /\ version \in [Paths -> Nat] /\ changed \in SUBSET Paths
      /\ run[i].changed = {} /\ run[i].seen = {} /\ Indices' = Indices
  BY WatchedLooks DEF BatchInv, BatchTyped, CallsAgree, Indices
<1>2. BatchTyped'
  BY <1>1 DEF BatchInv, BatchTyped
<1>3. SerialOrder'
  BY OrderStays DEF BatchInv, Over
<1>4. CallsAgree'
  <2>1. Snapped(i)'
    <3>1. Snapped(i) /\ run[i].snap \in SUBSET Entries
      BY <1>1 DEF BatchInv, CallsAgree, Progress
    <3>2. ASSUME NEW d \in run[i].snap
          PROVE  d[1] \in Watched(calls[i]) /\ version'[d[1]] = d[2] + (IF d[1] \in changed THEN 1 ELSE 0)
      <4>1. d[1] \in Paths /\ d[2] \in Nat
        BY <3>1 DEF Entries
      <4>2. d[1] \in Watched(calls[i]) /\ version[d[1]] = d[2] + (IF d[1] \in run[i].changed THEN 1 ELSE 0)
        BY <3>1 DEF Snapped
      <4>3. version[d[1]] = d[2]
        BY <1>1, <4>1, <4>2
      <4> QED
        BY <4>1, <4>2, <4>3
    <3>3. \A p \in Watched(calls[i]) : \E d \in run[i].snap : d[1] = p
      BY <3>1 DEF Snapped
    <3> QED
      BY <3>2, <3>3 DEF Snapped
  <2>2. ASSUME NEW k \in Indices, k # i, run'[k].stage \in {"running", "worked"} PROVE Snapped(k)'
    <3>1. run'[k] = run[k] /\ Snapped(k) /\ run[k].snap \in SUBSET Entries
      BY <1>1, <2>2 DEF BatchInv, CallsAgree, Progress
    <3>2. i \in Partition(calls) /\ k \in Partition(calls)
      BY <2>2, <3>1, OneAtATime DEF Over
    <3>3. MayChange(calls[i]) \cap Watched(calls[k]) = {}
      BY <2>2, <3>2, PoolApart
    <3>4. ASSUME NEW d \in run[k].snap
          PROVE  d[1] \in Watched(calls[k]) /\ version'[d[1]] = d[2] + (IF d[1] \in run[k].changed THEN 1 ELSE 0)
      <4>1. d[1] \in Paths /\ d[1] \in Watched(calls[k]) /\ d[1] \notin changed
        BY <3>1, <3>3 DEF Entries, Snapped
      <4>2. version'[d[1]] = version[d[1]]
        BY <1>1, <4>1
      <4> QED
        BY <3>1, <4>1, <4>2 DEF Snapped
    <3>5. \A p \in Watched(calls[k]) : \E d \in run[k].snap : d[1] = p
      BY <3>1 DEF Snapped
    <3> QED
      BY <3>1, <3>4, <3>5 DEF Snapped
  <2>3. ASSUME NEW k \in Indices, k # i
        PROVE  /\ run'[k].changed \in SUBSET MayChange(calls[k])
               /\ run'[k].stage \in {"waiting", "running"} => run'[k].changed = {} /\ run'[k].affected = {}
                                                             /\ run'[k].seen = {}
               /\ run'[k].stage \in {"done", "committed"} => run'[k].affected = run'[k].changed
               /\ run'[k].stage = "committed" => run'[k].changed \in SUBSET recorded
    BY <2>3 DEF BatchInv, CallsAgree
  <2> QED
    BY <1>1, <2>1, <2>2, <2>3 DEF CallsAgree
<1>5. LedgerAgrees'
  <2> SUFFICES ASSUME NEW p \in Paths
               PROVE  version'[p] > 0 <=> p \in recorded \/ \E k \in Indices : p \in run'[k].changed
    BY <1>1 DEF LedgerAgrees
  <2>1. version[p] \in Nat /\ version'[p] = version[p] + (IF p \in changed THEN 1 ELSE 0)
    BY <1>1
  <2>2. version[p] > 0 <=> p \in recorded \/ \E k \in Indices : p \in run[k].changed
    BY DEF BatchInv, LedgerAgrees
  <2>3. (\E k \in Indices : p \in run'[k].changed) <=> p \in changed \/ \E k \in Indices : p \in run[k].changed
    BY <1>1
  <2> QED
    BY <2>1, <2>2, <2>3
<1>6. IsFiniteSet({k \in Indices : run'[k].changed # {}})
  <2> DEFINE C == {k \in Indices : run[k].changed # {}}
  <2>1. IsFiniteSet(C)
    BY DEF BatchInv, SeenInOrder
  <2>2. IsFiniteSet(C \cup {i})
    BY <2>1, FS_AddElement
  <2>3. {k \in Indices : run'[k].changed # {}} \in SUBSET (C \cup {i})
    OBVIOUS
  <2> QED
    BY <2>2, <2>3, FS_Subset
\* The order of what has been seen.
<1>7. ASSUME NEW j \in Indices, NEW p
      PROVE  /\ p \in changed /\ j <= i => ChangersFrom(j, p)' = ChangersFrom(j, p) \cup {i} /\ i \notin ChangersFrom(j, p)
             /\ p \notin changed \/ i < j => ChangersFrom(j, p)' = ChangersFrom(j, p)
  <2>1. ChangersFrom(j, p)' = {k \in Indices : k >= j /\ p \in run'[k].changed}
    BY <1>1 DEF ChangersFrom
  <2>2. \A k \in Indices : k # i => run'[k].changed = run[k].changed
    OBVIOUS
  <2>3. i \in Int /\ j \in Int
    BY DEF Indices
  <2>4. ASSUME p \in changed, j <= i
        PROVE  ChangersFrom(j, p)' = ChangersFrom(j, p) \cup {i} /\ i \notin ChangersFrom(j, p)
    BY <1>1, <2>1, <2>2, <2>3, <2>4 DEF ChangersFrom
  <2>5. ASSUME p \notin changed \/ i < j
        PROVE  ChangersFrom(j, p)' = ChangersFrom(j, p)
    <3>1. \A k \in Indices : k >= j /\ p \in run'[k].changed <=> k >= j /\ p \in run[k].changed
      BY <1>1, <2>2, <2>3, <2>5
    <3> QED
      BY <2>1, <3>1 DEF ChangersFrom
  <2> QED
    BY <2>4, <2>5
<1>8. ASSUME NEW j \in Indices, NEW p \in Paths, NEW before, before = VersionBefore(j, p),
             NEW after, after = VersionBefore(j, p)'
      PROVE  before \in Int /\ (p \in changed /\ i < j => after = before + 1) /\ (~(p \in changed /\ i < j) => after = before)
  <2>1. PICK n \in Nat : n = Cardinality(ChangersFrom(j, p))
    BY FewerChangers
  <2>2. PICK m : m = Cardinality(ChangersFrom(j, p)')
    OBVIOUS
  <2>3. before = version[p] - n /\ after = version'[p] - m
    BY <1>1, <1>8, <2>1, <2>2 DEF VersionBefore, ChangersFrom
  <2>4. i \in Int /\ j \in Int /\ version[p] \in Nat
    BY <1>1 DEF Indices
  <2>5. CASE p \in changed /\ j <= i
    <3>1. m = n + 1
      <4>1. PICK C, D : C = ChangersFrom(j, p) /\ D = ChangersFrom(j, p)'
        OBVIOUS
      <4>2. D = C \cup {i} /\ i \notin C /\ IsFiniteSet(C)
        BY <1>7, <2>5, <4>1, FewerChangers
      <4>3. Cardinality(C \cup {i}) = Cardinality(C) + 1
        BY <4>2, FS_AddElement
      <4> QED
        BY <2>1, <2>2, <4>1, <4>2, <4>3
    <3> QED
      BY <2>3, <2>4, <2>5, <3>1
  <2>6. CASE p \notin changed \/ i < j
    <3>1. m = n
      BY <1>7, <2>1, <2>2, <2>6
    <3> QED
      BY <2>3, <2>4, <2>6, <3>1
  <2> QED
    BY <2>4, <2>5, <2>6
<1>9. ASSUME NEW j \in Indices, NEW e \in run'[j].seen
      PROVE  /\ e[1] \in LooksAt(calls[j])
             /\ IF calls[j].name = "search" THEN e[2] >= VersionBefore(j, e[1])' ELSE e[2] = VersionBefore(j, e[1])'
  <2>1. e \in Entries /\ e[1] \in Paths /\ e[2] \in Nat
    BY DEF Progress, Entries
  <2>2. PICK before, after : before = VersionBefore(j, e[1]) /\ after = VersionBefore(j, e[1])'
    OBVIOUS
  <2>3. before \in Int /\ (e[1] \in changed /\ i < j => after = before + 1) /\ (~(e[1] \in changed /\ i < j) => after = before)
    BY <1>8, <2>1, <2>2
  <2>4. CASE j # i
    <3>1. run'[j].seen = run[j].seen
      BY <2>4
    <3>2. /\ e[1] \in LooksAt(calls[j])
          /\ IF calls[j].name = "search" THEN e[2] >= before ELSE e[2] = before
      BY <2>2, <3>1 DEF BatchInv, SeenInOrder
    <3>3. ~(e[1] \in changed /\ i < j)
      BY <3>1, <3>2, NobodyBehind
    <3> QED
      BY <2>2, <2>3, <3>2, <3>3
  <2>5. CASE j = i
    <3>1. e[1] \in LooksAt(calls[i]) /\ e[2] = version[e[1]]
      BY <2>5 DEF Digests
    <3>2. PICK n \in Nat : n = Cardinality(ChangersFrom(i, e[1]))
      BY FewerChangers
    <3>3. after = before /\ before = version[e[1]] - n
      <4>1. ~(i < i)
        BY DEF Indices
      <4> QED
        BY <2>2, <2>3, <2>5, <3>2, <4>1 DEF VersionBefore, ChangersFrom
    <3>4. CASE calls[i].name = "search"
      BY <2>1, <2>2, <2>5, <3>1, <3>2, <3>3, <3>4
    <3>5. CASE calls[i].name # "search"
      <4>1. n = 0
        BY <3>1, <3>2, <3>5, NobodyAhead, FS_EmptySet
      <4> QED
        BY <2>1, <2>2, <2>5, <3>1, <3>3, <3>5, <4>1
    <3> QED
      BY <3>4, <3>5
  <2> QED
    BY <2>4, <2>5
<1>10. SeenInOrder'
  BY <1>1, <1>6, <1>9 DEF SeenInOrder
<1> QED
  BY <1>2, <1>3, <1>4, <1>5, <1>10 DEF BatchInv

LEMMA WorkKeeps ==
  ASSUME BatchInv, NEW i \in Indices, Work(i) \/ StopShell(i)
  PROVE  BatchInv'
<1>1. run \in [Indices -> Progress] /\ run[i].stage = "running" /\ version \in [Paths -> Nat]
  BY DEF BatchInv, BatchTyped, Work, StopShell
<1>2. LooksAt(calls[i]) \in SUBSET Paths /\ MayChange(calls[i]) \in SUBSET Paths
  BY WatchedLooks
<1> DEFINE seen == Digests(LooksAt(calls[i]))
<1>3. seen \in SUBSET Entries
  BY <1>1, <1>2 DEF Digests, Entries
<1> HIDE DEF seen
<1>4. PICK changed \in SUBSET MayChange(calls[i]), status \in {"ok", "error"} :
        /\ version' = [p \in Paths |-> version[p] + (IF p \in changed THEN 1 ELSE 0)]
        /\ \/ run' = [run EXCEPT ![i].stage = "worked", ![i].status = status, ![i].seen = seen, ![i].changed = changed]
           \/ run' = [run EXCEPT ![i].stage = "raised", ![i].changed = changed]
  <2>1. CASE Work(i)
    BY <2>1 DEF Work, seen
  <2>2. CASE StopShell(i)
    <3>1. MayChange(calls[i]) = Paths
      BY <2>2 DEF StopShell, MayChange, WriteTools
    <3> QED
      BY <2>2, <3>1 DEF StopShell
  <2> QED
    BY <2>1, <2>2
<1>5. changed \in SUBSET Paths /\ UNCHANGED <<phase, calls, pool, recorded>>
  BY <1>2, <1>4 DEF Work, StopShell
<1>6. run' \in [Indices -> Progress]
  <2> DEFINE r == [run[i] EXCEPT !.stage = "worked", !.status = status, !.seen = seen, !.changed = changed]
             q == [run[i] EXCEPT !.stage = "raised", !.changed = changed]
  <2>1. run' = [run EXCEPT ![i] = r] \/ run' = [run EXCEPT ![i] = q]
    BY <1>4
  <2>2. r \in Progress /\ q \in Progress
    BY <1>1, <1>3, <1>5 DEF Progress, Stages
  <2> QED
    BY <1>1, <2>1, <2>2
<1>7. /\ \A k \in Indices \ {i} : run'[k] = run[k]
      /\ run'[i].changed = changed /\ run'[i].snap = run[i].snap /\ run'[i].stage \in {"worked", "raised"}
      /\ run'[i].seen = run[i].seen \/ run'[i].seen = seen
  BY <1>1, <1>4 DEF Progress
<1>8. run[i].seen = {}
  BY <1>1 DEF BatchInv, CallsAgree
<1>9. /\ version' \in [Paths -> Nat]
      /\ \A p \in Paths : version'[p] = version[p] + (IF p \in changed THEN 1 ELSE 0)
  BY <1>1, <1>4
<1> QED
  BY <1>1, <1>5, <1>6, <1>7, <1>8, <1>9, ChangeKeeps DEF seen

-----------------------------------------------------------------------------
(* The turn: its start and its end.                                        *)

\* A turn in which no call has done anything.
LEMMA TurnKeeps ==
  ASSUME BatchInv, version' = version, recorded' \in SUBSET Paths, phase' \in {"choose", "run"},
         \A k \in Indices' : run'[k] = Waiting, run' \in [Indices' -> Progress],
         pool' = {} \/ pool' = Partition(calls'), phase' = "choose" => calls' = <<>>,
         \A p \in Paths : version[p] > 0 <=> p \in recorded'
  PROVE  BatchInv'
<1>1. \A k \in Indices' : /\ run'[k].stage = "waiting" /\ run'[k].changed = {} /\ run'[k].affected = {}
                          /\ run'[k].seen = {}
  BY DEF Waiting
<1>2. BatchTyped'
  BY DEF BatchInv, BatchTyped
<1>3. SerialOrder' /\ CallsAgree' /\ LedgerAgrees'
  BY <1>1 DEF SerialOrder, CallsAgree, LedgerAgrees
<1>4. SeenInOrder'
  <2>1. {k \in Indices' : run'[k].changed # {}} = {}
    BY <1>1
  <2> QED
    BY <1>1, <2>1, FS_EmptySet DEF SeenInOrder
<1> QED
  BY <1>2, <1>3, <1>4 DEF BatchInv

LEMMA WaitingTyped == Waiting \in Progress
<1> DEFINE none == {}
<1>1. none \in SUBSET Entries /\ none \in SUBSET Paths
  OBVIOUS
<1>2. Waiting = [stage |-> "waiting", status |-> "none", seen |-> none, snap |-> none, changed |-> none,
                 affected |-> none]
  BY DEF Waiting
<1> HIDE DEF none
<1> QED
  BY <1>1, <1>2 DEF Progress, Stages

LEMMA NoIndices == calls = <<>> => Indices = {}
BY DEF Indices

LEMMA StartKeeps ==
  ASSUME BatchInv, NEW tools, NEW normal, NEW onPool, onPool = {} \/ onPool = Partition(normal),
         Start(tools, normal, onPool)
  PROVE  BatchInv'
<1>1. /\ phase = "choose" /\ phase' = "run" /\ calls' = normal /\ pool' = onPool
      /\ run' = [i \in 1 .. Len(normal) |-> Waiting] /\ version' = version /\ recorded' = recorded
  BY DEF Start
<1>2. Indices' = 1 .. Len(normal) /\ Indices = {} /\ recorded \in SUBSET Paths
  BY <1>1, NoIndices DEF BatchInv, BatchTyped, Indices
<1>3. run' \in [Indices' -> Progress] /\ \A k \in Indices' : run'[k] = Waiting
  BY <1>1, <1>2, WaitingTyped
<1>4. \A p \in Paths : version[p] > 0 <=> p \in recorded
  BY <1>2 DEF BatchInv, LedgerAgrees
<1> QED
  BY <1>1, <1>2, <1>3, <1>4, TurnKeeps

LEMMA CommitKeeps ==
  ASSUME BatchInv, NEW i \in Indices, Commit(i)
  PROVE  BatchInv'
<1>1. /\ run \in [Indices -> Progress] /\ run[i].stage = "done" /\ run[i].affected = run[i].changed
      /\ recorded' = recorded \cup run[i].changed /\ version' = version
      /\ recorded \in SUBSET Paths /\ run[i].changed \in SUBSET Paths
  BY DEF BatchInv, BatchTyped, CallsAgree, Commit, CommitTurn, Progress
<1>2. \A p \in Paths : version[p] > 0 <=> p \in recorded \/ \E k \in Indices : p \in run[k].changed
  BY DEF BatchInv, LedgerAgrees
<1>3. CASE i = Len(calls)
  <2>1. phase' = "choose" /\ calls' = <<>> /\ pool' = {} /\ run' = <<>>
    BY <1>3 DEF Commit
  <2>2. Indices' = {}
    BY <2>1 DEF Indices
  <2>3. run' \in [Indices' -> Progress]
    BY <2>1, <2>2
  <2>4. \A k \in Indices : k # i => run[k].changed \in SUBSET recorded
    <3>1. \A k \in Indices : k # i => k \in 1 .. (i - 1)
      BY <1>3 DEF Indices
    <3> QED
      BY <3>1 DEF Commit, CommitTurn, BatchInv, CallsAgree
  <2>5. \A p \in Paths : version[p] > 0 <=> p \in recorded'
    BY <1>1, <1>2, <2>4
  <2> QED
    BY <1>1, <2>1, <2>2, <2>3, <2>5, TurnKeeps
<1>4. CASE i # Len(calls)
  <2>1. run' = [run EXCEPT ![i].stage = "committed"] /\ UNCHANGED <<phase, asked, calls, pool>>
    BY <1>4 DEF Commit
  <2>2. run' \in [Indices -> Progress]
    <3> DEFINE r == [run[i] EXCEPT !.stage = "committed"]
    <3>1. run' = [run EXCEPT ![i] = r]
      BY <2>1
    <3>2. r \in Progress
      BY <1>1 DEF Progress, Stages
    <3> QED
      BY <1>1, <3>1, <3>2
  <2>3. /\ \A k \in Indices \ {i} : run'[k] = run[k]
        /\ run'[i].stage = "committed" /\ run'[i].changed = run[i].changed /\ run'[i].affected = run[i].affected
        /\ run'[i].seen = run[i].seen
    BY <1>1, <2>1 DEF Progress
  <2>4. BatchTyped'
    BY <1>1, <2>1, <2>2 DEF BatchInv, BatchTyped, Indices
  <2>5. SerialOrder'
    BY <1>1, <2>1, <2>3, OrderStays DEF BatchInv, Over
  <2>6. CallsAgree'
    BY <1>1, <2>1, <2>3, AgreeStays DEF BatchInv
  <2>7. SeenInOrder'
    BY <1>1, <2>1, <2>3, SeenStays DEF BatchInv
  <2>8. LedgerAgrees'
    BY <1>1, <1>2, <2>1, <2>3 DEF LedgerAgrees, Indices
  <2> QED
    BY <2>4, <2>5, <2>6, <2>7, <2>8 DEF BatchInv
<1> QED
  BY <1>3, <1>4

LEMMA PhaseKeeps ==
  ASSUME BatchInv, Cancel \/ Abort \/ UNCHANGED vars
  PROVE  BatchInv'
<1>1. UNCHANGED <<calls, pool, run, version, recorded>> /\ (phase' = phase \/ phase' = "raised")
  BY DEF Cancel, Abort, vars
<1>2. BatchTyped' /\ SerialOrder' /\ LedgerAgrees'
  BY <1>1 DEF BatchInv, BatchTyped, SerialOrder, LedgerAgrees, Indices
<1>3. SeenInOrder'
  BY <1>1, SeenStays DEF BatchInv
<1>4. CallsAgree'
  BY <1>1 DEF BatchInv, CallsAgree, Snapped, Indices
<1> QED
  BY <1>2, <1>3, <1>4 DEF BatchInv

-----------------------------------------------------------------------------
(* The theorems.                                                           *)

LEMMA BatchInit == Init => BatchInv
<1> SUFFICES ASSUME Init PROVE BatchInv
  OBVIOUS
<1>1. /\ phase = "choose" /\ calls = <<>> /\ pool = {} /\ run = <<>> /\ recorded = {}
      /\ version = [p \in Paths |-> 0] /\ Indices = {}
  BY NoIndices DEF Init
<1>2. BatchTyped /\ SerialOrder /\ CallsAgree /\ LedgerAgrees
  BY <1>1 DEF BatchTyped, SerialOrder, CallsAgree, LedgerAgrees
<1>3. SeenInOrder
  <2>1. {k \in Indices : run[k].changed # {}} = {}
    BY <1>1
  <2> QED
    BY <1>1, <2>1, FS_EmptySet DEF SeenInOrder
<1> QED
  BY <1>2, <1>3 DEF BatchInv

LEMMA BatchNext == BatchInv /\ [Next]_vars => BatchInv'
<1> SUFFICES ASSUME BatchInv, [Next]_vars PROVE BatchInv'
  OBVIOUS
<1>1. ASSUME NEW c \in Calls, Single(c) PROVE BatchInv'
  BY <1>1, StartKeeps DEF Single
<1>2. ASSUME NEW tools, Batch(tools) PROVE BatchInv'
  BY <1>2, StartKeeps DEF Batch
<1>3. ASSUME NEW i \in Indices, CallStep(i) PROVE BatchInv'
  BY <1>3, RefuseKeeps, BeginKeeps, WorkKeeps, ConcludeKeeps, CommitKeeps, RaiseKeeps DEF CallStep
<1>4. CASE Cancel \/ Abort \/ UNCHANGED vars
  BY <1>4, PhaseKeeps
<1> QED
  BY <1>1, <1>2, <1>3, <1>4 DEF Next

\* The invariant of a turn's calls, in every execution of ToolBatch.
THEOREM BatchInvHolds == Spec => []BatchInv
<1> QED
  BY BatchInit, BatchNext, PTL DEF Spec

\* For every batch, whatever its calls are and in whatever order the pool runs
\* them: a call is said to have affected exactly the files it changed, and between
\* turns the record of the task names exactly the files that have changed.
THEOREM AffectedChanged == Spec => []AffectedIsWhatChanged
<1>1. BatchInv => AffectedIsWhatChanged
  <2> SUFFICES ASSUME BatchInv PROVE AffectedIsWhatChanged
    OBVIOUS
  <2>1. Executed => \A i \in Indices : run[i].affected = run[i].changed
    BY DEF BatchInv, CallsAgree, Executed
  <2>2. ASSUME phase = "choose" PROVE recorded = {p \in Paths : version[p] > 0}
    <3>1. Indices = {} /\ recorded \in SUBSET Paths
      BY <2>2, NoIndices DEF BatchInv, BatchTyped
    <3> QED
      BY <3>1 DEF BatchInv, LedgerAgrees
  <2> QED
    BY <2>1, <2>2 DEF AffectedIsWhatChanged
<1> QED
  BY BatchInvHolds, <1>1, PTL

\* For every batch: when its calls are over each has found its file as the calls
\* before it had left it and no call after it had touched it, and a search has
\* missed no change of a call before it, in whatever order the pool ran them.
THEOREM CallsSeeOrder == Spec => []CallsSeeTheirOrder
<1>1. BatchInv => CallsSeeTheirOrder
  BY DEF BatchInv, SeenInOrder, CallsSeeTheirOrder
<1> QED
  BY BatchInvHolds, <1>1, PTL

-----------------------------------------------------------------------------
(* What a refused read had asked for.                                      *)

\* Reads in w have the lines that c asks for.
Known(c, w) ==
  \A line \in c.from .. c.to :
    \E k \in DOMAIN w : /\ w[k].call.name = "read_file" /\ w[k].call.path = c.path
                        /\ Open(w[k].call) \/ line \in w[k].call.from .. w[k].call.to

\* A read with both ends that the check before the call refuses.
LEMMA RepeatedIsKnown ==
  ASSUME NEW c, NEW w, c.name = "read_file", ~Open(c), PreRepeats(c, w)
  PROVE  Known(c, w)
<1>1. PICK i \in DOMAIN w : Matches(c, w[i].call) /\ (SameLines(c, w[i].call) \/ AsksNothingNew(c, w))
  BY DEF PreRepeats
<1>2. SUFFICES ASSUME NEW line \in c.from .. c.to
               PROVE  \E k \in DOMAIN w : /\ w[k].call.name = "read_file" /\ w[k].call.path = c.path
                                          /\ Open(w[k].call) \/ line \in w[k].call.from .. w[k].call.to
  BY DEF Known
<1>3. CASE SameLines(c, w[i].call)
  <2>1. w[i].call.name = "read_file" /\ w[i].call.path = c.path
    BY <1>1 DEF Matches
  <2>2. line \in w[i].call.from .. w[i].call.to
    BY <1>3 DEF SameLines
  <2> QED
    BY <2>1, <2>2
<1>4. CASE AsksNothingNew(c, w)
  <2>1. PICK r \in ReadBefore(w, c.path) : line \in r.from .. r.to
    BY <1>4 DEF AsksNothingNew, Unread
  <2>2. PICK k \in DOMAIN w : w[k].call.name = "read_file" /\ w[k].call.path = c.path /\ r = w[k].call
    BY <2>1 DEF ReadBefore, ReadsIn
  <2> QED
    BY <2>1, <2>2
<1> QED
  BY <1>1, <1>3, <1>4

\* The i-th call was refused, though it is a read with both ends.
RefusedRead(i) == run[i].status = "rejected" /\ calls[i].name = "read_file" /\ ~Open(calls[i])
NoneCommitted == \A k \in Indices : run[k].stage # "committed"

RefusedKnown == NoneCommitted => \A i \in Indices : RefusedRead(i) => Known(calls[i], window)

LEMMA RefusedKnownIs == BatchInv => (RefusedKnown <=> RefusedReadsAskNothingNew)
<1> SUFFICES ASSUME BatchInv PROVE RefusedKnown <=> RefusedReadsAskNothingNew
  OBVIOUS
<1>1. DOMAIN run = Indices
  BY DEF BatchInv, BatchTyped
<1>2. ASSUME NEW i \in Indices
      PROVE  Known(calls[i], window) <=>
               \A line \in calls[i].from .. calls[i].to :
                 \E k \in DOMAIN window :
                   LET c == window[k].call
                   IN  c.name = "read_file" /\ c.path = calls[i].path /\ (Open(c) \/ line \in c.from .. c.to)
  BY Zenon DEF Known
<1> QED
  BY <1>1, <1>2 DEF RefusedKnown, RefusedRead, NoneCommitted, RefusedReadsAskNothingNew

\* The window and the other calls stay, and the call that moves was known before.
LEMMA RefusedStays ==
  ASSUME RefusedKnown, NEW i \in Indices, calls' = calls, window' = window,
         \A k \in Indices \ {i} : run'[k] = run[k],
         run[i].stage # "committed",
         run'[i].status = "rejected" => run[i].status = "rejected" \/ (RefusedRead(i)' => Known(calls[i], window))
  PROVE  RefusedKnown'
<1>1. Indices' = Indices
  BY DEF Indices
<1> SUFFICES ASSUME NoneCommitted', NEW k \in Indices, RefusedRead(k)' PROVE Known(calls[k], window)
  BY <1>1 DEF RefusedKnown, Known
<1>2. NoneCommitted
  BY <1>1 DEF NoneCommitted
<1>3. run[k].status = "rejected" => RefusedRead(k)
  BY DEF RefusedRead
<1> QED
  BY <1>2, <1>3 DEF RefusedKnown, RefusedRead

LEMMA CallKeepsKnown ==
  ASSUME BatchInv, RefusedKnown, NEW i \in Indices,
         RefuseRepeated(i) \/ RefuseOther(i) \/ Begin(i) \/ Work(i) \/ StopShell(i) \/ Conclude(i) \/ RaiseUnsorted(i)
  PROVE  RefusedKnown'
<1>1. run \in [Indices -> Progress]
  BY DEF BatchInv, BatchTyped
<1>2. /\ calls' = calls /\ window' = window /\ \A k \in Indices \ {i} : run'[k] = run[k]
      /\ run[i].stage # "committed"
  <2>1. CASE RefuseRepeated(i) \/ RefuseOther(i)
    BY <1>1, <2>1 DEF RefuseRepeated, RefuseOther, Admitted, Refuse, Turn
  <2>2. CASE Begin(i) \/ RaiseUnsorted(i)
    BY <1>1, <2>2 DEF Begin, RaiseUnsorted, Admitted, Turn, CommitTurn
  <2>3. CASE Work(i) \/ StopShell(i) \/ Conclude(i)
    BY <1>1, <2>3 DEF Work, StopShell, Conclude
  <2> QED
    BY <2>1, <2>2, <2>3
<1>3. CASE RefuseRepeated(i)
  <2>1. RefusedRead(i)' => calls[i].name = "read_file" /\ ~Open(calls[i])
    BY <1>2 DEF RefusedRead, Open
  <2>2. calls[i].name = "read_file" => PreRepeats(calls[i], window)
    BY <1>3 DEF RefuseRepeated, HistoryRepeats, ReadOnlyTools
  <2> QED
    BY <1>2, <2>1, <2>2, RepeatedIsKnown, RefusedStays
<1>4. CASE RefuseOther(i)
  <2>1. ~RefusedRead(i)'
    BY <1>2, <1>4 DEF RefuseOther, RefusedRead, ReadOnlyTools
  <2> QED
    BY <1>2, <2>1, RefusedStays
<1>5. CASE Begin(i) \/ Work(i) \/ StopShell(i) \/ Conclude(i) \/ RaiseUnsorted(i)
  <2>1. run'[i].status = "rejected" => run[i].status = "rejected"
    <3>1. CASE Begin(i) \/ RaiseUnsorted(i)
      BY <1>1, <3>1 DEF Begin, RaiseUnsorted, Progress
    <3>2. CASE Work(i)
      <4>1. PICK good \in BOOLEAN : \E changed, seen :
              run' = [run EXCEPT ![i].stage = "worked", ![i].status = IF good THEN "ok" ELSE "error",
                                 ![i].seen = seen, ![i].changed = changed]
        BY <3>2 DEF Work
      <4>2. run'[i].status \in {"ok", "error"}
        BY <1>1, <4>1 DEF Progress
      <4> QED
        BY <4>2
    <3>3. CASE StopShell(i)
      <4>1. PICK changed : run' = [run EXCEPT ![i].stage = "raised", ![i].changed = changed]
        BY <3>3 DEF StopShell
      <4> QED
        BY <1>1, <4>1 DEF Progress
    <3>4. CASE Conclude(i)
      BY <1>1, <3>4 DEF Conclude, Progress
    <3> QED
      BY <1>5, <3>1, <3>2, <3>4, <3>3
  <2> QED
    BY <1>2, <2>1, RefusedStays
<1> QED
  BY <1>3, <1>4, <1>5

LEMMA CommitKeepsKnown ==
  ASSUME BatchInv, NEW i \in Indices, Commit(i)
  PROVE  RefusedKnown'
<1>1. CASE i = Len(calls)
  <2>1. Indices' = {}
    BY <1>1 DEF Commit, Indices
  <2> QED
    BY <2>1 DEF RefusedKnown
<1>2. CASE i # Len(calls)
  <2>1. Indices' = Indices /\ run'[i].stage = "committed"
    BY <1>2 DEF BatchInv, BatchTyped, Progress, Commit, Indices
  <2> QED
    BY <2>1 DEF RefusedKnown, NoneCommitted
<1> QED
  BY <1>1, <1>2

LEMMA StartKeepsKnown ==
  ASSUME NEW tools, NEW normal, NEW onPool, Start(tools, normal, onPool)
  PROVE  RefusedKnown'
<1>1. \A k \in Indices' : run'[k] = Waiting
  BY DEF Start, Indices
<1>2. \A k \in Indices' : run'[k].status = "none"
  BY <1>1 DEF Waiting
<1> QED
  BY <1>2 DEF RefusedKnown, RefusedRead

LEMMA RefusedNext == BatchInv /\ RefusedKnown /\ [Next]_vars => RefusedKnown'
<1> SUFFICES ASSUME BatchInv, RefusedKnown, [Next]_vars PROVE RefusedKnown'
  OBVIOUS
<1>1. ASSUME NEW c \in Calls, Single(c) PROVE RefusedKnown'
  BY <1>1, StartKeepsKnown DEF Single
<1>2. ASSUME NEW tools, Batch(tools) PROVE RefusedKnown'
  BY <1>2, StartKeepsKnown DEF Batch
<1>3. ASSUME NEW i \in Indices, CallStep(i) PROVE RefusedKnown'
  BY <1>3, CallKeepsKnown, CommitKeepsKnown DEF CallStep
<1>4. CASE Cancel \/ Abort \/ UNCHANGED vars
  <2>1. UNCHANGED <<calls, run, window>>
    BY <1>4 DEF Cancel, Abort, vars
  <2> QED
    BY <2>1 DEF RefusedKnown, RefusedRead, NoneCommitted, Known, Indices
<1> QED
  BY <1>1, <1>2, <1>3, <1>4 DEF Next

\* For every window, batch and file: a read that the check before a call refuses as
\* a repetition asks for no line but those that reads in the window have had.
THEOREM RefusedReadsAreKnown == Spec => []RefusedReadsAskNothingNew
<1>1. Init => RefusedKnown
  BY NoIndices DEF Init, RefusedKnown
<1>2. Spec => [](BatchInv /\ RefusedKnown)
  BY BatchInit, BatchNext, RefusedNext, <1>1, PTL DEF Spec
<1>3. BatchInv /\ RefusedKnown => RefusedReadsAskNothingNew
  BY RefusedKnownIs
<1> QED
  BY <1>2, <1>3, PTL
=============================================================================
