------------------------------- MODULE BitMask -------------------------------
(***************************************************************************)
(* toolpex::bit_mask (include/toolpex/bit_mask.h): a mask of one integer   *)
(* type and flags of any other.  A value is the set of its bits, the       *)
(* lowest is 0.  Before an operation integers narrower than int become     *)
(* int, and then the narrower of two becomes as wide as the other.         *)
(***************************************************************************)
EXTENDS Integers, Question

CONSTANTS Widths,     \* the widths of integer types, in bits
          IntWidth    \* that of int

MaskAssumption == Widths \subseteq Nat \ {0} /\ IntWidth \in Widths

Type == [width : Widths, signed : BOOLEAN]
Bits(width) == 0 .. width - 1
AllBits == UNION {Bits(width) : width \in Widths}

\* A value of type t in an integer of another width.
Converted(t, bits, width) ==
    (bits \cup IF t.signed /\ t.width - 1 \in bits THEN t.width .. width - 1
                                                   ELSE {}) \cap Bits(width)

Promoted(t) == IF t.width < IntWidth THEN [width |-> IntWidth, signed |-> TRUE]
               ELSE t

Wider(t, u) == IF Promoted(t).width > Promoted(u).width
               THEN Promoted(t).width ELSE Promoted(u).width

\* ~flag
Complement(t, flag) ==
    Bits(Promoted(t).width) \ Converted(t, flag, Promoted(t).width)

\* m_rep |= flag, for a mask of type rep and a flag of type t.
add(rep, mask, t, flag) ==
    LET width == Wider(rep, t)
    IN (Converted(rep, mask, width) \cup Converted(t, flag, width))
           \cap Bits(rep.width)

\* m_rep &= ~flag
remove(rep, mask, t, flag) ==
    LET width == Wider(rep, t)
    IN Converted(rep, mask, width)
           \cap Converted(Promoted(t), Complement(t, flag), width)
           \cap Bits(rep.width)

\* (m_rep & flag) == flag
contains(rep, mask, t, flag) ==
    Converted(t, flag, Wider(rep, t)) \subseteq Converted(rep, mask, Wider(rep, t))

Questions ==
    {a \in [about : {"mask"}, rep : Type, of : Type,
            mask : SUBSET AllBits, flag : SUBSET AllBits] :
        a.mask \subseteq Bits(a.rep.width) /\ a.flag \subseteq Bits(a.of.width)}

-----------------------------------------------------------------------------
(* Properties.                                                             *)

q == question
Added == add(q.rep, q.mask, q.of, q.flag)
Remaining == remove(q.rep, q.mask, q.of, q.flag)

\* A flag is in a mask after it was added and not before it was, and it is
\* gone after it was removed, with all its bits and no other: provided that
\* mask and flag have the same type.
OneTypeRight ==
    About("mask") /\ q.rep = q.of =>
        /\ Added = q.mask \cup q.flag
        /\ contains(q.rep, Added, q.of, q.flag)
        /\ contains(q.rep, q.mask, q.of, q.flag) <=> q.flag \subseteq q.mask
        /\ Remaining = q.mask \ q.flag

\* remove() takes bits with it that the flag has not, exactly if the flag's
\* type is unsigned, no narrower than int and narrower than the mask's: it is
\* inverted before it is widened, which clears all bits above.
RemoveTakesMore ==
    About("mask") /\ ~q.of.signed =>
        (Remaining = q.mask \ q.flag
             <=> \/ q.of.width < IntWidth \/ q.of.width >= q.rep.width
                 \/ q.mask \subseteq Bits(q.of.width))

\* A flag of an unsigned type no wider than the mask's is found once added, and
\* adds nothing to the mask but itself, whether or not the mask has a sign that
\* is extended on the way.
NarrowFlagFound ==
    About("mask") /\ ~q.of.signed /\ q.of.width <= q.rep.width =>
        /\ Added = q.mask \cup q.flag
        /\ contains(q.rep, Added, q.of, q.flag)

\* Masks are sets of flags, across integer types as far as those allow it.
MasksRight == OneTypeRight /\ RemoveTakesMore /\ NarrowFlagFound
=============================================================================
