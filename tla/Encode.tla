------------------------------- MODULE Encode -------------------------------
(***************************************************************************)
(* include/toolpex/encode.h: integers written to and read from byte        *)
(* buffers in either byte order, and appended to a string.  A byte has     *)
(* Base values; a Type is an integral type, its size in bytes and its      *)
(* signedness; native is the byte order of the machine.                    *)
(***************************************************************************)
EXTENDS Integers, SequencesExt, Powers

CONSTANTS Base, Type,
          Values,         \* the integers that are written
          MaxSize         \* bound: of the string

Order == {"big", "little"}

EncodeAssumption ==
    /\ Base \in Nat \ {0, 1}
    /\ \A t \in Type : t.size \in Nat \ {0} /\ t.signed \in BOOLEAN
    /\ MaxSize \in Nat

VARIABLES native,  \* the order of the machine
          dst,     \* the string
          items    \* what was written: type, order, value, and where

vars == <<native, dst, items>>

-----------------------------------------------------------------------------
\* The values of an integral type.
InType(t) == LET all == Power(Base)[t.size]
            IN IF t.signed THEN -(all \div 2) .. (all \div 2) - 1 ELSE 0 .. all - 1

ValuesOf(t) == InType(t) \cap Values

\* The bytes of an integer in memory, and the integer in bytes of memory.
Memory(v, t) ==
    LET little == [k \in 1 .. t.size |-> (v \div Power(Base)[k - 1]) % Base]
    IN IF native = "little" THEN little ELSE Reverse(little)

ValueOf(bytes, t) ==
    LET little == IF native = "little" THEN bytes ELSE Reverse(bytes)
        v == FoldLeftDomain(LAMBDA total, k :
                                total + little[k] * Power(Base)[k - 1],
                            0, little)
        all == Power(Base)[t.size]
    IN IF t.signed /\ v >= all \div 2 THEN v - all ELSE v

byteswap(v, t) == ValueOf(Reverse(Memory(v, t)), t)

\* The value whose bytes in memory are those of v in an order: the two orders
\* swap on the machines of the other.
Ordered(v, t, order) == IF order = native THEN v ELSE byteswap(v, t)

\* Mutant of Written: the bytes go one place too far.
MutantWrittenLate(v, t, order, at, buffer) ==
    [k \in DOMAIN buffer |->
        IF k - at - 1 \in 1 .. t.size THEN Memory(Ordered(v, t, order), t)[k - at - 1]
        ELSE buffer[k]]

\* encode_*_endian_to(v, buffer at an offset): the rest of the buffer stays.
Written(v, t, order, at, buffer) ==
    [k \in DOMAIN buffer |->
        IF k - at \in 1 .. t.size THEN Memory(Ordered(v, t, order), t)[k - at]
        ELSE buffer[k]]

\* decode_*_endian_from(buffer at an offset).
Decoded(buffer, t, order, at) ==
    Ordered(ValueOf(SubSeq(buffer, at + 1, at + t.size), t), t, order)

-----------------------------------------------------------------------------
Init == native \in Order /\ dst = <<>> /\ items = <<>>

Item(v, t, order, at) == [value |-> v, type |-> t, order |-> order, at |-> at]

\* append_encode_*_endian_to(): resize(), then encode behind the old size.
AppendEncode(v, t, order) ==
    /\ Len(dst) + t.size <= MaxSize
    /\ dst' = Written(v, t, order, Len(dst), dst \o [k \in 1 .. t.size |-> 0])
    /\ items' = Append(items, Item(v, t, order, Len(dst)))
    /\ UNCHANGED native

\* encode_*_endian_to() over an integer of the same type written before.
Overwrite(n, v, order) ==
    LET t == items[n].type  at == items[n].at
    IN /\ dst' = Written(v, t, order, at, dst)
       /\ items' = [items EXCEPT ![n] = Item(v, t, order, at)]
       /\ UNCHANGED native

Next == \E order \in Order :
            \/ \E t \in Type : \E v \in ValuesOf(t) : AppendEncode(v, t, order)
            \/ \E n \in DOMAIN items : \E v \in ValuesOf(items[n].type) :
                   Overwrite(n, v, order)

Spec == Init /\ [][Next]_vars

-----------------------------------------------------------------------------
(* Properties.                                                             *)

\* Every integer is read back as it was written last, whatever was written
\* around it, in whichever order, signed or not.
DecodesWhatWasWritten ==
    \A n \in DOMAIN items :
        Decoded(dst, items[n].type, items[n].order, items[n].at) = items[n].value

Less(s, t) == \E k \in DOMAIN s : /\ SubSeq(s, 1, k - 1) = SubSeq(t, 1, k - 1)
                                  /\ s[k] < t[k]
BytesOf(i) == SubSeq(dst, i.at + 1, i.at + i.type.size)

\* Big-endian bytes of an unsigned type compare, from the first on, as the
\* integers do, on a machine of either order.
BigEndianKeepsOrder ==
    \A n, m \in DOMAIN items :
        LET i == items[n]  j == items[m]
        IN /\ i.type = j.type /\ ~i.type.signed
           /\ i.order = "big" /\ j.order = "big"
           => (i.value < j.value <=> Less(BytesOf(i), BytesOf(j)))

\* The two byte orders of one integer are each other's reverse.
OrdersAreReverse ==
    \A n, m \in DOMAIN items :
        LET i == items[n]  j == items[m]
        IN i.type = j.type /\ i.value = j.value /\ i.order # j.order =>
               BytesOf(i) = Reverse(BytesOf(j))

\* Integers survive being written, in the byte order they were written in.
IntegersSurvive ==
    DecodesWhatWasWritten /\ BigEndianKeepsOrder /\ OrdersAreReverse
=============================================================================
