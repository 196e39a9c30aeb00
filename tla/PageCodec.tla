----------------------------- MODULE PageCodec -----------------------------
(***************************************************************************)
(* The page codec of src/page.go: the bit-packed leaf element (fill and    *)
(* its accessors) and the page-header consistency trap fastCheck with the  *)
(* type names of typ.                                                      *)
(*                                                                         *)
(* The leaf element is one uint64: 1 bit flags, 26 bits pos, 13 bits       *)
(* ksize, 24 bits vsize.  The widths are constants so that TLC can         *)
(* enumerate every value of a scaled-down word; shifts wrap at the word    *)
(* width as uint64 shifts do.                                              *)
(***************************************************************************)
EXTENDS Integers, Bitwise

CONSTANTS
    PosBits, KBits, VBits,     \* 26, 13, 24 in the code
    FlagsIn, PosIn, KIn, VIn,  \* the arguments fill is called with
    PageIds,                   \* page ids a page is fetched at
    FlagsValues                \* header flags a fetched page may carry

ASSUME PosBits \in Nat \ {0} /\ KBits \in Nat \ {0} /\ VBits \in Nat \ {0}

\* Bit positions of the fields (24, 37 and 63 in the code).
KShift == VBits
PosShift == VBits + KBits
FlagShift == VBits + KBits + PosBits
WordBits == FlagShift + 1

\* uint64(x) << s: the bits shifted past the word width are lost.
Shl(x, s) == (x * 2^s) % 2^WordBits

\* The masks 0x3FFFFFF, 0x1FFF and 0xFFFFFF keep the field's low bits.
Mask(bits) == 2^bits - 1
MaxPos == Mask(PosBits)

\* leafPageElement.flags, pos, ksize, vsize (page.go:141-155).
ElemFlags(d) == d \div 2^FlagShift
ElemPos(d) == (d \div 2^PosShift) & Mask(PosBits)
ElemKsize(d) == (d \div 2^KShift) & Mask(KBits)
ElemVsize(d) == d & Mask(VBits)

Decode(d) == [flags |-> ElemFlags(d), pos |-> ElemPos(d),
              ksize |-> ElemKsize(d), vsize |-> ElemVsize(d)]

\* Page type flags and the fastCheckBits table (page.go:17-30).
BranchPageFlag == 1
LeafPageFlag == 2
MetaPageFlag == 4
FreelistPageFlag == 16
FastCheckBits == [f \in 0 .. FreelistPageFlag |->
                    f \in {BranchPageFlag, LeafPageFlag, MetaPageFlag,
                           FreelistPageFlag}]

\* page.typ: the first type bit that is set names the page.
Typ(flags) ==
    CASE (flags & BranchPageFlag) # 0 -> "branch"
      [] (flags & LeafPageFlag) # 0 -> "leaf"
      [] (flags & MetaPageFlag) # 0 -> "meta"
      [] (flags & FreelistPageFlag) # 0 -> "freelist"
      [] OTHER -> "unknown"

TypFlag == [branch |-> BranchPageFlag, leaf |-> LeafPageFlag,
            meta |-> MetaPageFlag, freelist |-> FreelistPageFlag]

\* Each step is one call, on a fresh buffer; the other part is reset.
VARIABLES
    elem,      \* the word of the last filled leaf element
    args,      \* the arguments of the last fill
    filled,    \* "ok", or "panic" when fill's assertion fired
    hdr,       \* the header of the last page fetched
    want,      \* the id it was fetched at
    checked    \* "ok", or "panic" when fastCheck fired

vars == <<elem, args, filled, hdr, want, checked>>

Args == [flags : FlagsIn, pos : PosIn, ksize : KIn, vsize : VIn]

TypeOK ==
    /\ elem \in 0 .. (2^WordBits - 1)
    /\ args \in Args
    /\ filled \in {"ok", "panic"}
    /\ hdr \in [id : PageIds, flags : FlagsValues]
    /\ want \in PageIds
    /\ checked \in {"ok", "panic"}

Init ==
    /\ elem = 0
    /\ args = [flags |-> 0, pos |-> 0, ksize |-> 0, vsize |-> 0]
    /\ filled = "ok"
    /\ hdr = [id |-> 0, flags |-> MetaPageFlag]
    /\ want = 0
    /\ checked = "ok"

\* Bug variant of FillWord: no assertion on pos.
FillWordUnchecked(a) ==
    [ok |-> TRUE,
     word |-> Shl(a.flags, FlagShift) | Shl(a.pos, PosShift)
              | Shl(a.ksize, KShift) | a.vsize]

\* leafPageElement.fill (page.go:157-161): assert pos fits, then OR the
\* shifted fields together.
FillWord(a) ==
    [ok |-> a.pos <= MaxPos,
     word |-> Shl(a.flags, FlagShift) | Shl(a.pos, PosShift)
              | Shl(a.ksize, KShift) | a.vsize]

Fill(a) ==
    LET r == FillWord(a)
    IN /\ args' = a
       /\ filled' = IF r.ok THEN "ok" ELSE "panic"
       /\ elem' = IF r.ok THEN r.word ELSE 0
       /\ hdr' = [id |-> 0, flags |-> MetaPageFlag]
       /\ want' = 0
       /\ checked' = "ok"

\* page.fastCheck (page.go:64-72): the page must identify as the page it
\* was fetched at, and carry exactly one type flag; the first test keeps
\* the table lookup in bounds.
FastCheckPasses(p, id) ==
    /\ p.id = id
    /\ ~(p.flags > FreelistPageFlag \/ ~FastCheckBits[p.flags])

\* Tx.page(id) (tx.go:439-452) fetching a page and checking it.
FetchPage(p, id) ==
    /\ hdr' = p
    /\ want' = id
    /\ checked' = IF FastCheckPasses(p, id) THEN "ok" ELSE "panic"
    /\ elem' = 0
    /\ args' = [flags |-> 0, pos |-> 0, ksize |-> 0, vsize |-> 0]
    /\ filled' = "ok"

Next ==
    \/ \E a \in Args : Fill(a)
    \/ \E id, pid \in PageIds, f \in FlagsValues :
          FetchPage([id |-> pid, flags |-> f], id)

Spec == Init /\ [][Next]_vars

-----------------------------------------------------------------------------
\* Round trip (spec 8): a leaf element fill did not reject reads back, field
\* by field, exactly the arguments it was filled with.
FillRoundTrip == filled = "ok" => Decode(elem) = args

=============================================================================
