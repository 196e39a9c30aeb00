------------------------------ MODULE PageWalk ------------------------------
(***************************************************************************)
(* Tx.forEachPage (src/tx.go:455-476): a depth-first walk of the page tree *)
(* under a root that calls fn(p, depth, pgidstack) for every page, where   *)
(* pgidstack is the path of page ids from the root.  The stack is a Go     *)
(* slice: forEachPage makes a backing array of 10 ids and passes its first *)
(* element; each level appends the child, which writes into the shared     *)
(* array while it has room and copies into a new array once it has not.   *)
(* The recursion is made explicit as a stack of frames, and the backing    *)
(* arrays as a sequence, so that the aliasing is modelled as Go does it.   *)
(***************************************************************************)
EXTENDS Integers, Sequences, SequencesExt

CONSTANTS
    Pgids,      \* page ids of the tree; the root is the least
    StackCap    \* the capacity of the first backing array (10 in the code)

Root == CHOOSE p \in Pgids : \A q \in Pgids : p <= q

\* Every tree over Pgids: each page but the root has a lower-numbered
\* parent, whose branch page lists it.
Trees == {par \in [Pgids \ {Root} -> Pgids] : \A c \in DOMAIN par : par[c] < c}

\* The children a branch page lists, in element order; a page without any
\* is a leaf.
Kids(par, p) == SetToSortSeq({c \in DOMAIN par : par[c] = p}, <)

VARIABLES
    tree,       \* the parent function of the pages walked
    arrays,     \* the backing arrays the slices share
    frames,     \* the forEachPageInternal calls in progress
    visits      \* the calls to fn: page, depth and the stack passed

vars == <<tree, arrays, frames, visits>>

\* A slice: backing array, length, capacity.
Slice(a, n, c) == [arr |-> a, len |-> n, cap |-> c]
Frame(sl) == [sl |-> sl, i |-> 0, entered |-> FALSE]

\* Bug variant of ForEachPage: the whole backing array is passed.
ForEachPageFullSlice == Frame(Slice(1, StackCap, StackCap))

\* forEachPage: stack := make([]pgid, 10); stack[0] = pgidnum; the first
\* call gets stack[:1].
ForEachPage == Frame(Slice(1, 1, StackCap))

Init ==
    /\ tree \in Trees
    /\ arrays = <<[i \in 1 .. StackCap |-> IF i = 1 THEN Root ELSE 0]>>
    /\ frames = <<ForEachPage>>
    /\ visits = <<>>

Top == frames[Len(frames)]
Ids(sl) == SubSeq(arrays[sl.arr], 1, sl.len)
PageOf(sl) == arrays[sl.arr][sl.len]

\* forEachPageInternal entry: tx.page(pgidstack[len-1]), then fn.
Visit ==
    /\ frames # <<>>
    /\ ~Top.entered
    /\ visits' = Append(visits, [pgid |-> PageOf(Top.sl),
                                 depth |-> Top.sl.len - 1,
                                 stack |-> Ids(Top.sl)])
    /\ frames' = [frames EXCEPT ![Len(frames)].entered = TRUE]
    /\ UNCHANGED <<tree, arrays>>

\* append(pgidstack, elem.pgid): in place while len < cap, else into a
\* new array of twice the capacity holding a copy of the slice.
AppendChild(sl, x) ==
    IF sl.len < sl.cap
    THEN /\ arrays' = [arrays EXCEPT ![sl.arr][sl.len + 1] = x]
         /\ frames' = Append([frames EXCEPT ![Len(frames)].i = @ + 1],
                             Frame(Slice(sl.arr, sl.len + 1, sl.cap)))
    ELSE LET n == Len(arrays) + 1
             a == [i \in 1 .. (2 * sl.cap) |->
                     IF i <= sl.len THEN arrays[sl.arr][i]
                     ELSE IF i = sl.len + 1 THEN x ELSE 0]
         IN /\ arrays' = Append(arrays, a)
            /\ frames' = Append([frames EXCEPT ![Len(frames)].i = @ + 1],
                                Frame(Slice(n, sl.len + 1, 2 * sl.cap)))

\* The loop over a branch page's elements: recurse into the next child.
Descend ==
    LET ks == Kids(tree, PageOf(Top.sl))
    IN /\ frames # <<>>
       /\ Top.entered
       /\ Top.i < Len(ks)
       /\ AppendChild(Top.sl, ks[Top.i + 1])
       /\ UNCHANGED <<tree, visits>>

\* A leaf, or a branch whose children are all walked: return.
Return ==
    /\ frames # <<>>
    /\ Top.entered
    /\ Top.i = Len(Kids(tree, PageOf(Top.sl)))
    /\ frames' = Front(frames)
    /\ UNCHANGED <<tree, arrays, visits>>

Next == Visit \/ Descend \/ Return

Spec == Init /\ [][Next]_vars

-----------------------------------------------------------------------------
\* The reference: the preorder of the tree, each page with its depth and
\* the path of ids from the root to it.
RECURSIVE Preorder(_, _, _)
Preorder(par, p, path) ==
    LET RECURSIVE Under(_)
        Under(ks) == IF ks = <<>> THEN <<>>
                     ELSE Preorder(par, Head(ks), Append(path, Head(ks)))
                          \o Under(Tail(ks))
    IN <<[pgid |-> p, depth |-> Len(path) - 1, stack |-> path]>>
       \o Under(Kids(par, p))

\* When the walk returns, fn was called once for every page of the tree,
\* parents before children, each time with the page's depth and with a
\* stack that is exactly the path from the root, although sibling calls
\* share a backing array and deep ones have moved to a copy.
WalkIsPreorder == frames = <<>> => visits = Preorder(tree, Root, <<Root>>)

=============================================================================
