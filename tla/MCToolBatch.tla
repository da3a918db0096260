--------------------------- MODULE MCToolBatch ---------------------------
(* Instances of ToolBatch for TLC. *)
EXTENDS ToolBatch

CONSTANTS a, b

ThePaths == {a, b}

Call(name, p, from, to, arg) == [name |-> name, path |-> p, from |-> from, to |-> to, arg |-> arg]

\* Overlapping and adjacent reads of one file, a read of the other, a write of
\* each, a second text for the first file, a search and a command.
TheCalls ==
    {Call("read_file", a, 1, 4, ""), Call("read_file", a, 2, 4, ""), Call("read_file", a, 3, 5, ""),
     Call("read_file", a, 0, 0, ""),
     Call("write_file", a, 0, 0, "x"), Call("write_file", a, 0, 0, "y"), Call("write_file", b, 0, 0, "x"),
     Call("search", NoPath, 0, 0, "x"), Call("run_shell", NoPath, 0, 0, "x")}

-----------------------------------------------------------------------------
(* The scan of _uncovered_read_lines, against the set that ToolBatch takes    *)
(* for its outcome.                                                          *)

\* How many lines of the read no interval of merged has, interval by interval.
Uncovered(c, merged) ==
    LET Pass(acc, iv) ==
            IF iv.to < acc.at \/ iv.from > c.to THEN acc
            ELSE [at |-> Max({acc.at, iv.to + 1}),
                  lines |-> acc.lines + (IF iv.from > acc.at THEN iv.from - acc.at ELSE 0)]
        end == FoldLeft(Pass, [at |-> c.from, lines |-> 0], merged)
    IN  end.lines + (IF end.at <= c.to THEN c.to - end.at + 1 ELSE 0)

MaxLine == 6
Intervals == {iv \in [from : 1..MaxLine, to : 1..MaxLine] : iv.from <= iv.to}

\* Of up to three reads, merged: the scan counts the lines that none of them has.
ASSUME ScanCountsUnread ==
    \A reads \in kSubset(3, Intervals) \cup kSubset(2, Intervals) \cup kSubset(1, Intervals) \cup {{}} :
        \A c \in Intervals : Uncovered(c, Merged(reads)) = Cardinality(Unread(c, reads))
=============================================================================
