---------------------------- MODULE ToolBatch ----------------------------
(***************************************************************************)
(* The tool calls of a run: what AgentLoop does to a batch before it runs  *)
(* (truncation, deduplication, merging and slicing of reads, the split     *)
(* into a concurrent and a serial group), the calls that run on the pool's *)
(* threads under ToolExecutor's lock, and the commit in declared order     *)
(* with the window that tells a repeated call from a new one               *)
(* (agent_loop.py, tool_executor.py, runtime.py).                          *)
(*                                                                         *)
(* A file is its version, a number that each change increases; "search"    *)
(* stands for the two tools that look at the whole workspace.  A call has  *)
(* name, path, from, to (0: not given) and arg (a command or a text).      *)
(***************************************************************************)
EXTENDS Naturals, FiniteSets, Sequences, SequencesExt, FiniteSetsExt

CONSTANTS
    Paths,        \* the files of the workspace
    Calls,        \* the calls the model may make
    MaxParallel,  \* MAX_PARALLEL_TOOLS, 8 in the code
    ChunkLines,   \* MAX_READ_CHUNK_LINES, 200
    WindowSize,   \* the maxlen of recent_tool_fps, 6
    MaxCalls,     \* how many calls the model makes in all
    MayCancel     \* whether the user may cancel

NoPath == "."
ReadOnlyTools == {"read_file", "search"}
WriteTools == {"write_file"}

ASSUME ToolAssumption ==
    /\ {MaxParallel, ChunkLines, WindowSize} \subseteq Nat \ {0}
    /\ MaxCalls \in Nat /\ MayCancel \in BOOLEAN
    /\ NoPath \notin Paths /\ IsFiniteSet(Paths)
    /\ \A c \in Calls : c.path \in Paths \cup {NoPath} /\ c.name \in ReadOnlyTools \cup WriteTools \cup {"run_shell"}

VARIABLES
    phase,     \* choose, run, commit, or raised when the run has been aborted
    asked,     \* the calls of the turn as the model wrote them, cut to MaxParallel
    calls,     \* the calls that run: asked, deduplicated and with its reads normalised
    pool,      \* the indices of calls that run on the thread pool
    run,       \* how far each call is, and what it saw and did
    window,    \* recent_tool_fps: the last calls that were no repetition
    history,   \* the tool entries of the session, the last WindowSize of them
    version,   \* the workspace: the version of each file
    recorded,  \* TaskState.affected_paths
    cancelled, \* the cancellation token
    spent      \* how many calls the model has made

vars == <<phase, asked, calls, pool, run, window, history, version, recorded, cancelled, spent>>

-----------------------------------------------------------------------------
(* Line intervals of reads. *)

Open(c) == c.from = 0 \/ c.to = 0
Given(n, default) == IF n = 0 THEN default ELSE n

\* _interval_overlap_ratio(new, old) >= READ_OVERLAP_RATIO, which is 6/10.
Overlaps(new, old) ==
    LET af == Given(new.from, Given(old.from, 1))
        at == Given(new.to, Given(old.to, af))
        bf == Given(old.from, af)
        bt == Given(old.to, at)
        shared == Min({at, bt}) - Max({af, bf})
    IN  CASE at <= af /\ bt <= bf -> af = bf /\ at = bt
          [] at <= af /\ bt > bf -> bf <= af /\ af <= bt
          [] OTHER -> Min({at, bt}) > Max({af, bf}) /\ 10 * shared >= 6 * (at - af)

\* _merge_read_intervals, the part on intervals with both ends.
Merged(reads) ==
    LET sorted == SetToSortSeq({[from |-> c.from, to |-> c.to] : c \in reads},
                               LAMBDA x, y : x.from < y.from \/ (x.from = y.from /\ x.to < y.to))
        Join(acc, x) == IF acc # <<>> /\ x.from <= Last(acc).to + 1
                        THEN Append(Front(acc), [Last(acc) EXCEPT !.to = Max({@, x.to})])
                        ELSE Append(acc, x)
    IN  FoldLeft(Join, <<>>, sorted)

\* _uncovered_read_lines: the lines of a read that no read of the set has.
Unread(c, reads) == {line \in c.from..c.to : \A r \in reads : line \notin r.from..r.to}

\* Two intervals that sorted() can tell apart: it raises where only one of them
\* gives the end in which they differ first.
Comparable(x, y) ==
    IF x.from # y.from THEN 0 \notin {x.from, y.from} ELSE x.to = y.to \/ 0 \notin {x.to, y.to}

\* _chunk_read_intervals of one interval
Chunks(iv) ==
    LET n == (iv.to - iv.from) \div ChunkLines + 1
    IN  [k \in 1..n |-> [from |-> iv.from + (k - 1) * ChunkLines,
                         to   |-> Min({iv.to, iv.from + k * ChunkLines - 1})]]

-----------------------------------------------------------------------------
(* What becomes of a batch before it runs. *)

\* _normalize_tool_args: the line range of a read is dropped.
Normal(c) == IF c.name = "read_file" THEN [c EXCEPT !.from = 0, !.to = 0] ELSE c

\* P2: of the calls with the same name and normalised arguments the first stays.
Deduped(tools) ==
    LET Keep(acc, c) == IF \E k \in DOMAIN acc : Normal(acc[k]) = Normal(c) THEN acc ELSE Append(acc, c)
    IN  FoldLeft(Keep, <<>>, tools)

\* The reads of one file, merged and sliced, then those without both ends.
ReadsOf(tools, p) ==
    LET reads == SelectSeq(tools, LAMBDA c : c.name = "read_file" /\ c.path = p)
        definite == {c \in ToSet(reads) : ~Open(c)}
        Slice(acc, iv) == acc \o [k \in 1..Len(Chunks(iv)) |->
                                  [reads[1] EXCEPT !.from = Chunks(iv)[k].from, !.to = Chunks(iv)[k].to]]
        whole == SelectSeq(reads, Open)
    IN  FoldLeft(Slice, <<>>, Merged(definite)) \o [k \in DOMAIN whole |-> Normal(whole[k])]

\* _normalize_batch_reads: the other calls, then the reads file by file.
NormalizeReads(tools) ==
    LET isRead(c) == c.name = "read_file"
        files == FoldLeft(LAMBDA acc, c : IF isRead(c) /\ c.path \notin ToSet(acc) THEN Append(acc, c.path) ELSE acc,
                          <<>>, tools)
    IN  SelectSeq(tools, LAMBDA c : ~isRead(c))
        \o FoldLeft(LAMBDA acc, p : acc \o ReadsOf(tools, p), <<>>, files)

\* Every write on the pool, also one whose file an earlier call has touched.
PartitionByKind(tools) ==
    {i \in DOMAIN tools : /\ tools[i].name # "run_shell"
                          /\ \A k \in 1..(i - 1) : tools[k].name # "run_shell"
                                                 /\ (tools[i].name # "write_file" => tools[k].name # "write_file")}

\* _partition_batch_tools: the indices that run on the pool.  After a command
\* nothing does; a read does unless its file was written before, a search unless
\* anything was, and a write unless its file, or every file, was touched before.
Partition(tools) ==
    LET all == 1..Len(tools)
        before(i, names) == {k \in all : k < i /\ tools[k].name \in names}
        unwritten(i) == \A k \in before(i, WriteTools) : tools[k].path # tools[i].path
        untouched(i) ==
            /\ \A k \in before(i, {"search"}) : before(k, WriteTools) # {}
            /\ \A k \in all : k < i /\ tools[k].name # "search" => tools[k].path \notin {tools[i].path, NoPath}
        joins(i) == CASE tools[i].name = "search"      -> before(i, WriteTools) = {}
                      [] tools[i].name = "read_file"   -> unwritten(i)
                      [] tools[i].name \in WriteTools -> tools[i].path # NoPath /\ untouched(i)
                      [] OTHER -> FALSE
    IN  {i \in all : before(i, {"run_shell"}) = {} /\ joins(i)}

-----------------------------------------------------------------------------
(* Repetition.  An entry of the window is a call and the fingerprint of its   *)
(* result: the files and versions it saw, or nothing.                        *)

\* _tool_fingerprints_match
Matches(new, old) ==
    IF new.name = "read_file" /\ old.name = "read_file"
    THEN new.path = old.path /\ Overlaps(new, old)
    ELSE new = old

SameLines(c, d) == c.from = d.from /\ c.to = d.to
WrittenAfter(entries, i) == \E k \in DOMAIN entries : k > i /\ entries[k].call.name \notin ReadOnlyTools

\* The reads of the file in the window, and those of them that give both ends.
ReadsIn(w, p) == {w[k].call : k \in {j \in DOMAIN w : w[j].call.name = "read_file" /\ w[j].call.path = p}}
ReadBefore(w, p) == {r \in ReadsIn(w, p) : ~Open(r)}

\* A read of lines that the reads in the window have; one without both ends
\* counts as a read of nothing new.
AsksNothingNew(c, w) == Open(c) \/ Unread(c, ReadBefore(w, c.path)) = {}

\* The intervals of the file, merged, with those that lack an end, cannot be sorted.
Unsortable(w, p) ==
    LET open == {[from |-> r.from, to |-> r.to] : r \in ReadsIn(w, p) \ ReadBefore(w, p)}
        intervals == ToSet(Merged(ReadBefore(w, p))) \cup open
    IN  \E x, y \in intervals : ~Comparable(x, y)

\* The same call again: with the same result, and no writing tool in between.
Again(fp, w, i) == (fp = {} \/ w[i].fp = {} \/ fp = w[i].fp) /\ ~WrittenAfter(w, i)

\* _tool_call_repeats: a read that overlaps another interval repeats it when it
\* covers no new line; any other match repeats when it is the same call again.
Repeats(c, fp, w) ==
    \E i \in DOMAIN w :
        /\ Matches(c, w[i].call)
        /\ IF c.name = "read_file" /\ ~SameLines(c, w[i].call) THEN AsksNothingNew(c, w) ELSE Again(fp, w, i)

\* The scan of the window sorts the file's intervals at the first overlapping read
\* of other lines that it comes to, unless the same call ended it before.
Raises(c, fp, w, reached) ==
    /\ c.name = "read_file" /\ ~Open(c) /\ Unsortable(w, c.path)
    /\ \E i \in reached :
        /\ Matches(c, w[i].call) /\ ~SameLines(c, w[i].call)
        /\ \A k \in 1..(i - 1) : Matches(c, w[k].call) /\ SameLines(c, w[k].call) => ~Again(fp, w, k)

\* Every overlapping read refused, also one that extends what was read.
PreRepeatsOnOverlap(c, w) ==
    IF c.name # "read_file" THEN Repeats(c, {}, w)
    ELSE \E i \in DOMAIN w : Matches(c, w[i].call) /\ ~WrittenAfter(w, i)

\* The check of _execute_tool_action before a call runs.
PreRepeats(c, w) ==
    IF c.name # "read_file" THEN Repeats(c, {}, w)
    ELSE \E i \in DOMAIN w :
            /\ Matches(c, w[i].call)
            /\ ~WrittenAfter(w, i)
            /\ SameLines(c, w[i].call) \/ AsksNothingNew(c, w)

PreRaises(c, w) == Raises(c, {}, w, {i \in DOMAIN w : ~WrittenAfter(w, i)})

\* repeated_tool_call: of the tool entries of the session, which hold the calls
\* that were refused too.
HistoryRepeats(c) ==
    /\ c.name \notin ReadOnlyTools
    /\ Len(history) >= 2
    /\ \E i \in DOMAIN history : history[i].call = c /\ ~WrittenAfter(history, i)

PushAll(w, e) == Append(w, e)
\* A deque with a maxlen.
Push(w, e) == LET long == Append(w, e) IN IF Len(long) > WindowSize THEN Tail(long) ELSE long

-----------------------------------------------------------------------------
(* The turns of the model. *)

Waiting == [stage |-> "waiting", status |-> "none", seen |-> {}, snap |-> {}, changed |-> {}, affected |-> {}]

Init ==
    /\ phase = "choose"
    /\ asked = <<>> /\ calls = <<>> /\ pool = {} /\ run = <<>>
    /\ window = <<>> /\ history = <<>>
    /\ version = [p \in Paths |-> 0]
    /\ recorded = {}
    /\ cancelled = FALSE
    /\ spent = 0

Start(tools, normal, onPool) ==
    /\ phase = "choose"
    /\ spent + Len(tools) <= MaxCalls
    /\ phase' = "run"
    /\ asked' = tools /\ calls' = normal /\ pool' = onPool
    /\ run' = [i \in 1..Len(normal) |-> Waiting]
    /\ spent' = spent + Len(tools)
    /\ UNCHANGED <<window, history, version, recorded, cancelled>>

\* A turn with one call runs it as it is.
Single(c) == Start(<<c>>, <<c>>, {})

\* A turn with a batch of calls (_run_loop); a batch without calls is refused
\* there and takes no step here.
Batch(tools) ==
    LET cut == SubSeq(tools, 1, Min({Len(tools), MaxParallel}))
        normal == NormalizeReads(Deduped(cut))
    IN  Start(cut, normal, Partition(normal))

-----------------------------------------------------------------------------
(* One call: _execute_tool_action and ToolExecutor.execute. *)

Over == {"done", "raised", "committed"}
Indices == 1..Len(calls)

\* The pool's calls start at once; a serial call starts when the pool and the
\* serial calls before it are over, and none of them has raised.
Turn(i) ==
    /\ phase = "run"
    /\ run[i].stage = "waiting"
    /\ i \in pool \/ \A k \in Indices :
                        (k \in pool \/ k < i) => run[k].stage \in Over \ {"raised"}

\* The digests of every file, which a tool with a path does not take since its
\* siblings on the pool may be writing theirs.
WatchedWholly(c) == IF c.name \in ReadOnlyTools THEN {} ELSE Paths

\* The files whose digests the executor compares (execute): the call's own file
\* for a tool with a path, the whole workspace for the shell.
Watched(c) == CASE c.name \in WriteTools -> {c.path} \cap Paths [] c.name = "run_shell" -> Paths [] OTHER -> {}

\* The files the tool itself may change, and those it reads.
MayChange(c) == CASE c.name \in WriteTools -> {c.path} \cap Paths [] c.name = "run_shell" -> Paths [] OTHER -> {}
LooksAt(c) == IF c.name \in {"search", "run_shell"} /\ c.path = NoPath THEN Paths ELSE {c.path} \cap Paths
Digests(files) == {<<p, version[p]>> : p \in files}

Refuse(i) ==
    /\ run' = [run EXCEPT ![i].stage = "done", ![i].status = "rejected"]
    /\ UNCHANGED <<phase, asked, calls, pool, window, history, version, recorded, cancelled, spent>>

RefuseRepeated(i) ==
    /\ Turn(i) /\ ~PreRaises(calls[i], window)
    /\ PreRepeats(calls[i], window) \/ HistoryRepeats(calls[i])
    /\ Refuse(i)

\* A call that is no repetition goes to ToolExecutor.execute.
Admitted(i) ==
    /\ Turn(i) /\ ~PreRaises(calls[i], window)
    /\ ~PreRepeats(calls[i], window) /\ ~HistoryRepeats(calls[i])

\* Arguments that are not valid, an approval that is denied or expires.
RefuseOther(i) ==
    /\ Admitted(i)
    /\ calls[i].name \notin ReadOnlyTools
    /\ Refuse(i)

\* The head of execute, under the lock, up to the digests before the call.
Begin(i) ==
    /\ Admitted(i)
    /\ run' = [run EXCEPT ![i] = IF cancelled THEN [@ EXCEPT !.stage = "raised"]
                                 ELSE [@ EXCEPT !.stage = "running", !.snap = Digests(Watched(calls[i]))]]
    /\ UNCHANGED <<phase, asked, calls, pool, window, history, version, recorded, cancelled, spent>>

\* The tool itself, outside the lock.  It may fail, and a writing tool may have
\* changed files all the same.
Work(i) ==
    /\ phase = "run" /\ run[i].stage = "running"
    /\ \E good \in BOOLEAN, changed \in SUBSET MayChange(calls[i]) :
        /\ version' = [p \in Paths |-> version[p] + (IF p \in changed THEN 1 ELSE 0)]
        /\ run' = [run EXCEPT ![i].stage = "worked", ![i].status = IF good THEN "ok" ELSE "error",
                              ![i].seen = Digests(LooksAt(calls[i])), ![i].changed = changed]
    /\ UNCHANGED <<phase, asked, calls, pool, window, history, recorded, cancelled, spent>>

\* A shell stopped by the cancellation raises, whatever it had changed.
StopShell(i) ==
    /\ phase = "run" /\ run[i].stage = "running" /\ calls[i].name = "run_shell" /\ cancelled
    /\ \E changed \in SUBSET Paths :
        /\ version' = [p \in Paths |-> version[p] + (IF p \in changed THEN 1 ELSE 0)]
        /\ run' = [run EXCEPT ![i].stage = "raised", ![i].changed = changed]
    /\ UNCHANGED <<phase, asked, calls, pool, window, history, recorded, cancelled, spent>>

\* The end of execute, under the lock: which of the files watched have changed.
Affected(i) == {e[1] : e \in {d \in run[i].snap : version[d[1]] # d[2]}}

Conclude(i) ==
    /\ phase = "run" /\ run[i].stage = "worked"
    /\ run' = [run EXCEPT ![i].stage = "done", ![i].affected = Affected(i),
                          ![i].status = IF @ = "error" /\ Affected(i) # {} THEN "partial_success" ELSE @]
    /\ UNCHANGED <<phase, asked, calls, pool, window, history, version, recorded, cancelled, spent>>

\* The user cancels while calls are in progress.
Cancel ==
    /\ MayCancel /\ phase = "run" /\ ~cancelled
    /\ cancelled' = TRUE
    /\ UNCHANGED <<phase, asked, calls, pool, run, window, history, version, recorded, spent>>

-----------------------------------------------------------------------------
(* The end of a batch. *)

Executed == calls # <<>> /\ \A i \in Indices : run[i].stage \in {"done", "committed"}

\* _result_fingerprint
Fingerprint(i) ==
    IF calls[i].name \in ReadOnlyTools /\ run[i].status = "ok" THEN run[i].seen ELSE {}

\* _commit_tool_action, in declared order; after the last call the turn is over.
CommitTurn(i) ==
    /\ Executed /\ run[i].stage = "done"
    /\ \A k \in 1..(i - 1) : run[k].stage = "committed"

Commit(i) ==
    /\ CommitTurn(i) /\ ~Raises(calls[i], Fingerprint(i), window, DOMAIN window)
    /\ recorded' = recorded \cup run[i].affected
    /\ window' = IF Repeats(calls[i], Fingerprint(i), window) THEN window
                 ELSE Push(window, [call |-> calls[i], fp |-> Fingerprint(i)])
    /\ history' = Push(history, [call |-> calls[i]])
    /\ IF i = Len(calls)
       THEN phase' = "choose" /\ asked' = <<>> /\ calls' = <<>> /\ pool' = {} /\ run' = <<>>
       ELSE run' = [run EXCEPT ![i].stage = "committed"] /\ UNCHANGED <<phase, asked, calls, pool>>
    /\ UNCHANGED <<version, cancelled, spent>>

\* The check for repetitions raises, before the call or at its commit.
RaiseUnsorted(i) ==
    /\ \/ Turn(i) /\ PreRaises(calls[i], window)
       \/ CommitTurn(i) /\ Raises(calls[i], Fingerprint(i), window, DOMAIN window)
    /\ run' = [run EXCEPT ![i].stage = "raised"]
    /\ UNCHANGED <<phase, asked, calls, pool, window, history, version, recorded, cancelled, spent>>

\* A call that raised ends the run: the pool is waited for, nothing is committed.
Abort ==
    /\ phase = "run"
    /\ \E i \in Indices : run[i].stage = "raised"
    /\ \A i \in pool : run[i].stage \in Over
    /\ phase' = "raised"
    /\ UNCHANGED <<asked, calls, pool, run, window, history, version, recorded, cancelled, spent>>

CallStep(i) ==
    \/ RefuseRepeated(i) \/ RefuseOther(i) \/ Begin(i) \/ Work(i) \/ StopShell(i) \/ Conclude(i) \/ Commit(i)
    \/ RaiseUnsorted(i)

Next ==
    \/ \E c \in Calls : Single(c)
    \/ \E n \in 1..MaxCalls : \E tools \in [1..n -> Calls] : Batch(tools)
    \/ \E i \in Indices : CallStep(i)
    \/ Cancel
    \/ Abort

Spec == Init /\ [][Next]_vars

-----------------------------------------------------------------------------
(* Properties. *)

\* The type invariant of the calls in progress.
TypeOK ==
    /\ phase \in {"choose", "run", "raised"}
    /\ DOMAIN run = Indices /\ pool \subseteq Indices
    /\ \A i \in DOMAIN run :
        /\ run[i].stage \in {"waiting", "running", "worked"} \cup Over
        /\ run[i].status \in {"none", "ok", "error", "partial_success", "rejected"}
        /\ run[i].changed \cup run[i].affected \subseteq Paths
    /\ Len(window) <= WindowSize /\ Len(history) <= WindowSize
    /\ version \in [Paths -> 0..MaxCalls] /\ recorded \subseteq Paths

\* The version of p before call i, had the calls run one by one in their order.
VersionBefore(i, p) == version[p] - Cardinality({k \in Indices : k >= i /\ p \in run[k].changed})

\* When the calls of a batch are over, each has found its file as the calls
\* before it in the batch left it and no call after it had touched it, though
\* the pool ran them in any order; a search has missed no change of a call
\* before it (_partition_batch_tools).
CallsSeeTheirOrder ==
    Executed =>
        \A i \in Indices : \A e \in run[i].seen :
            IF calls[i].name = "search" THEN e[2] >= VersionBefore(i, e[1]) ELSE e[2] = VersionBefore(i, e[1])

\* The files a call is said to have affected are those it changed, whatever its
\* siblings on the pool were writing meanwhile, and between turns the task's
\* record names exactly the files that have changed (ToolExecutor.execute,
\* capture_path_snapshot, record_affected_paths).
AffectedIsWhatChanged ==
    /\ Executed => \A i \in Indices : run[i].affected = run[i].changed
    /\ phase = "choose" => recorded = {p \in Paths : version[p] > 0}

\* A read that is refused as a repetition asks for no line that the reads still
\* in the window had not covered (_execute_tool_action, _uncovered_read_lines).
RefusedReadsAskNothingNew ==
    \A i \in DOMAIN run :
        (/\ run[i].status = "rejected" /\ calls[i].name = "read_file" /\ ~Open(calls[i])
         /\ \A k \in DOMAIN run : run[k].stage # "committed") =>
            \A line \in calls[i].from..calls[i].to :
                \E k \in DOMAIN window :
                    LET c == window[k].call
                    IN  c.name = "read_file" /\ c.path = calls[i].path
                        /\ (Open(c) \/ line \in c.from..c.to)

\* Only a cancellation, or a tool that could not be cleaned up, makes a call raise
\* (comment at agent_loop.py:1740).  It does not hold: once the window has a read
\* of a whole file and one of some of its lines, a further read of its lines sorts
\* an interval without ends among others, which raises a TypeError.
OnlyCancellationRaises == (\E i \in Indices : run[i].stage = "raised") => cancelled

\* A read counts as repeated only when no writing tool has run since the read it
\* repeats: "if a writing tool came in after the match the workspace has changed
\* and reading again is reasonable" (docstring of _tool_call_repeats).  It does
\* not hold: the window is written at commit, after the whole batch has run.
ReadsAfterWritesCount ==
    Executed =>
        \A i \in Indices :
            (/\ calls[i].name = "read_file" /\ run[i].stage = "done"
             /\ \A k \in 1..(i - 1) : run[k].stage = "committed"
             /\ Repeats(calls[i], Fingerprint(i), window)) =>
                \E k \in DOMAIN window : Matches(calls[i], window[k].call) /\ ~WrittenAfter(window, k)

\* The reads that run cover the lines of all the reads the batch asked for:
\* reads of one file are merged into their union (_normalize_batch_reads).  It
\* does not hold: the dedupe before it compares paths, not lines (agent_loop.py:1650).
AskedLinesAreRead ==
    phase = "run" =>
        \A i \in DOMAIN asked : asked[i].name = "read_file" =>
            \A line \in asked[i].from..asked[i].to :
                \E k \in Indices :
                    /\ calls[k].name = "read_file" /\ calls[k].path = asked[i].path
                    /\ Open(calls[k]) \/ (calls[k].from <= line /\ line <= calls[k].to)
=============================================================================
