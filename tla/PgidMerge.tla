----------------------------- MODULE PgidMerge -----------------------------
(***************************************************************************)
(* pgids.merge and mergepgids of src/page.go: the sorted union of two      *)
(* ascending page-id lists, computed by copying, in turn, the longest      *)
(* prefix of the list with the lower head that is not above the other      *)
(* list's head.  Checked against a reference sort of the concatenation,    *)
(* for every pair of ascending lists over a small set of ids, overlapping  *)
(* ones included.                                                          *)
(***************************************************************************)
EXTENDS Integers, Sequences, SequencesExt, TLC

CONSTANTS
    Ids,        \* the page ids the lists are drawn from
    MaxLen,     \* the longest list
    Slack       \* how much shorter or longer than needed dst may be

\* Every ascending list of at most MaxLen ids; ids may repeat across lists.
Ascending(s) == \A i \in 1 .. (Len(s) - 1) : s[i] < s[i + 1]
Lists == {s \in BoundedSeq(Ids, MaxLen) : Ascending(s)}

\* sort.Search(len(lead), func(i) bool { return lead[i] > x }): the
\* number of leading elements of lead that are not above x; lead is
\* ascending, so they are all its elements not above x.
SearchAbove(lead, x) == Len(SelectSeq(lead, LAMBDA e : e <= x))

\* Bug variant of MergeLoop: what is left in follow is not appended.
RECURSIVE MergeLoopNoTail(_, _, _)
MergeLoopNoTail(merged, lead, follow) ==
    IF lead = <<>> THEN merged
    ELSE LET n == SearchAbove(lead, Head(follow))
             m == merged \o SubSeq(lead, 1, n)
         IN IF n >= Len(lead) THEN m
            ELSE MergeLoopNoTail(m, follow, SubSeq(lead, n + 1, Len(lead)))

\* The loop of mergepgids (page.go:230-244): copy the prefix of lead that
\* is not above follow's head; stop when that is all of lead, otherwise
\* swap lead and the rest; then append follow.
RECURSIVE MergeLoop(_, _, _)
MergeLoop(merged, lead, follow) ==
    IF lead = <<>> THEN merged \o follow
    ELSE LET n == SearchAbove(lead, Head(follow))
             m == merged \o SubSeq(lead, 1, n)
         IN IF n >= Len(lead) THEN m \o follow
            ELSE MergeLoop(m, follow, SubSeq(lead, n + 1, Len(lead)))

\* dst with its first Len(src) slots replaced by src (copy, append into
\* dst[:0] within its capacity).
CopyInto(dst, src) == src \o SubSeq(dst, Len(src) + 1, Len(dst))

\* mergepgids(dst, a, b) (page.go:207-245): whether it panics because dst
\* is shorter than a and b together, and dst after the call.
Mergepgids(dst, a, b) ==
    [panic |-> Len(dst) < Len(a) + Len(b),
     dst |-> IF Len(dst) < Len(a) + Len(b) THEN dst
             ELSE IF a = <<>> THEN CopyInto(dst, b)
             ELSE IF b = <<>> THEN CopyInto(dst, a)
             ELSE CopyInto(dst, IF Head(b) < Head(a) THEN MergeLoop(<<>>, b, a)
                                                    ELSE MergeLoop(<<>>, a, b))]

\* pgids.merge (page.go:192-203): either list when the other is empty,
\* otherwise mergepgids into a new slice of the combined length.
Merge(a, b) ==
    IF a = <<>> THEN b
    ELSE IF b = <<>> THEN a
    ELSE Mergepgids([i \in 1 .. (Len(a) + Len(b)) |-> 0], a, b).dst

\* Every call: the two lists, a dst filled with a marker, its result.
VARIABLES a, b, dst, out, merged

vars == <<a, b, dst, out, merged>>

Marker == -1

Init ==
    /\ a = <<>> /\ b = <<>> /\ dst = <<>>
    /\ out = [panic |-> FALSE, dst |-> <<>>] /\ merged = <<>>

Call(x, y, k) ==
    LET d == [i \in 1 .. k |-> Marker]
    IN /\ a' = x /\ b' = y /\ dst' = d
       /\ out' = Mergepgids(d, x, y)
       /\ merged' = Merge(x, y)

Next ==
    \E x, y \in Lists :
        \E k \in {n \in (Len(x) + Len(y) - Slack) .. (Len(x) + Len(y) + Slack) :
                    n >= 0} :
            Call(x, y, k)

Spec == Init /\ [][Next]_vars

-----------------------------------------------------------------------------
\* The reference: the ascending sort of both lists together, duplicates
\* kept.
Union(x, y) == SortSeq(x \o y, <)

\* mergepgids leaves the sorted union of a and b, duplicates kept, in the
\* first Len(a) + Len(b) slots of dst and the rest of dst untouched, and
\* panics exactly when dst is too short; merge returns the sorted union.
MergeIsSortedUnion ==
    /\ out.panic <=> Len(dst) < Len(a) + Len(b)
    /\ ~out.panic => out.dst = CopyInto(dst, Union(a, b))
    /\ merged = Union(a, b)

=============================================================================
