----------------------------- MODULE IpAddress -----------------------------
(***************************************************************************)
(* toolpex::ip_address (include/toolpex/ipaddress.h, src/ipaddress.cc) on  *)
(* a little-endian machine: addresses from text and from socket addresses, *)
(* and back; arithmetic and order.                                         *)
(* All of it is functions of values.                                       *)
(*                                                                         *)
(* A text is given by what the code reads in it: whether it has dots and   *)
(* colons; for version 4 its fields between dots, each with the number     *)
(* atoi() reads there and whether it is right, i.e. a decimal number below *)
(* 256; for version 6 whether inet_pton() accepts it and as what, whether  *)
(* it has characters other than ':' and '0', and whether it fits in the    *)
(* buffer.  Texts4 are those without a colon, Texts6 those with one.       *)
(***************************************************************************)
EXTENDS Integers, FiniteSets, SequencesExt, Question

CONSTANTS V4s, V6s,       \* the addresses asked about
          Ports,          \* the ports
          Texts4, Texts6, \* the texts
          Lengths,        \* what an uninitialised length may hold
          Steps           \* the arguments given to += and -=

Byte == 0 .. 255
Word == 0 .. 65535      \* 16 bits: a segment or a port
V4 == [1 .. 4 -> Byte]
V6 == [1 .. 8 -> Word]
Zero6 == [i \in 1 .. 8 |-> 0]
Field == {f \in [number : Int, right : BOOLEAN] : f.right => f.number \in Byte}

AddressAssumption ==
    /\ V4s \subseteq V4 /\ V6s \subseteq V6
    /\ Ports \subseteq Word
    /\ Texts4 \subseteq [dots : BOOLEAN, colons : {FALSE}, fields : Seq(Field)]
    /\ \A t \in Texts4 : t.dots <=> Len(t.fields) > 1
    /\ Texts6 \subseteq [dots : BOOLEAN, colons : {TRUE}, valid : BOOLEAN,
                        plain : BOOLEAN, fits : BOOLEAN, value : V6]
    /\ \A t \in Texts6 : t.valid /\ t.plain => t.value = Zero6
    /\ Lengths \subseteq Int
    /\ Steps \subseteq Int

Threw == <<>>       \* ip_address_exception: no address
Colon == -1         \* the character in a printed address

-----------------------------------------------------------------------------
(* From text.                                                              *)

\* push_back() into a vector of uint8_t keeps the low eight bits.
MakeV4(fields) == IF Len(fields) # 4 THEN Threw
                  ELSE [i \in 1 .. 4 |-> fields[i].number % 256]

\* inet_pton() answers 0 and writes nothing for a text that is wrong; the code
\* notices only when a character other than ':' and '0' should have shown.
MakeV6(text) ==
    LET written == IF text.valid THEN text.value ELSE Zero6
    IN IF \/ ~text.fits
          \/ written = Zero6 /\ ~text.plain
       THEN Threw ELSE written

\* ip_address::make(str); a text with neither dot nor colon is none of both.
MakeText(text) ==
    CASE text.dots /\ ~text.colons -> MakeV4(text.fields)
      [] text.colons -> MakeV6(text)
      [] OTHER -> Threw

-----------------------------------------------------------------------------
(* To text: a sequence of numbers and colons, without the brackets, and    *)
(* for version 4 the four numbers between dots.                            *)

\* Mutant of Printed: used_zero is not set, so each run of zeros is left out.
MutantPrinted(a) ==
    FoldLeftDomain(
        LAMBDA out, i :
            IF a[i] = 0 THEN out
            ELSE out \o (IF i > 1 /\ a[i - 1] = 0 THEN <<Colon>> ELSE <<>>)
                     \o (IF i > 1 THEN <<Colon>> ELSE <<>>) \o <<a[i]>>,
        <<>>, a)

\* used_zero: segment i comes after a run of zeros that was left out.
UsedZero(a, i) == \E j \in 2 .. i - 1 : a[j] # 0 /\ a[j - 1] = 0

\* ipv6_address::to_string()
Printed(a) ==
    FoldLeftDomain(
        LAMBDA out, i :
            IF a[i] = 0 /\ ~UsedZero(a, i) THEN out
            ELSE out \o (IF i > 1 /\ a[i - 1] = 0 /\ ~UsedZero(a, i)
                         THEN <<Colon>> ELSE <<>>)
                     \o (IF i > 1 THEN <<Colon>> ELSE <<>>) \o <<a[i]>>,
        <<>>, a)

PrintedV4(a) == [dots |-> TRUE, colons |-> FALSE,
                 fields |-> [i \in 1 .. 4 |-> [number |-> a[i], right |-> TRUE]]]

-----------------------------------------------------------------------------
(* Socket addresses: bytes in network order.                               *)

\* How a uint16_t lies in memory, and what memory says it is.
Memory(n) == <<n % 256, n \div 256>>
Number(bytes) == bytes[1] + 256 * bytes[2]

htons(n) == (n % 256) * 256 + n \div 256
ntohs(n) == htons(n)

Pair(bytes, i) == <<bytes[2 * i - 1], bytes[2 * i]>>

SockaddrV4(a, port) == [family |-> "AF_INET", len |-> 16,
                        port |-> Memory(htons(port)), bytes |-> a]
SockaddrV6(a, port) ==
    [family |-> "AF_INET6", len |-> 28, port |-> Memory(htons(port)),
     bytes |-> FlattenSeq([i \in 1 .. 8 |-> Memory(htons(a[i]))])]

\* The constructors from a socket address; another family is a logic_error.
FromSockaddrV4(sa) == IF sa.family = "AF_INET" THEN sa.bytes ELSE Threw
FromSockaddrV6(sa) == IF sa.family = "AF_INET6"
                      THEN [i \in 1 .. 8 |-> ntohs(Number(Pair(sa.bytes, i)))]
                      ELSE Threw

\* The constructors from segments.
FromSegments(vals) == IF Len(vals) = 8 THEN vals ELSE Threw

\* ip_address::make(addr, len)
Make(sa, len) ==
    CASE sa.family = "AF_INET" /\ len >= 16 ->
             <<FromSockaddrV4(sa), ntohs(Number(sa.port))>>
      [] sa.family = "AF_INET6" /\ len >= 28 ->
             <<FromSockaddrV6(sa), ntohs(Number(sa.port))>>
      [] OTHER -> Threw

\* The first n bytes of a socket address: family, port, then the address after
\* nothing or after the flow label, in a storage that was all zeros.
Truncated(sa, n) ==
    LET offset == IF sa.family = "AF_INET" THEN 4 ELSE 8
    IN [family |-> IF n >= 2 THEN sa.family ELSE "AF_UNSPEC", len |-> sa.len,
        port |-> [i \in 1 .. 2 |-> IF n >= 2 + i THEN sa.port[i] ELSE 0],
        bytes |-> [i \in DOMAIN sa.bytes |-> IF n >= offset + i THEN sa.bytes[i]
                                             ELSE 0]]

\* ip_address::getpeername() tells the kernel that its storage has as many bytes
\* as an uninitialised length happens to hold; the kernel fills that many, and
\* answers the length that the address has.
GetPeerName(sa, len) == IF len < 0 THEN Threw ELSE Make(Truncated(sa, len), sa.len)

\* to_v6addr(): the bytes follow the prefix as they lie in memory.
Embedded(a) == <<100, 65435, 0, 0, 0, 0, Number(Pair(a, 1)), Number(Pair(a, 2))>>

-----------------------------------------------------------------------------
(* Arithmetic and order, of the number the bytes make in memory: the first *)
(* byte counts least.  A number is given by its bytes, the least first.    *)
ToUint32(a) == a

\* ipv4_address(uint32_t): the highest byte of the number comes first.
FromUint32(n) == Reverse(n)

\* operator+= adds one, and operator-= takes one away, whatever the argument.
Added(a, i) ==
    [k \in 1 .. 4 |-> IF \A j \in 1 .. k - 1 : a[j] = 255
                      THEN (a[k] + 1) % 256 ELSE a[k]]

\* Mutant of Subtracted: the borrow does not travel.
MutantSubtracted(a, i) == [a EXCEPT ![1] = (a[1] + 255) % 256]

Subtracted(a, i) ==
    [k \in 1 .. 4 |-> IF \A j \in 1 .. k - 1 : a[j] = 0
                      THEN (a[k] + 255) % 256 ELSE a[k]]

\* ++ and --
Incremented(a) == Added(a, 1)
Decremented(a) == Subtracted(a, 1)

\* a before b when compared segment by segment in the given order.
Before(a, b, positions) ==
    \E k \in DOMAIN positions :
        /\ a[positions[k]] < b[positions[k]]
        /\ \A m \in 1 .. k - 1 : a[positions[m]] = b[positions[m]]

LessV4(a, b) == Before(ToUint32(a), ToUint32(b), <<4, 3, 2, 1>>)

\* Two numbers of 64 bits, the first half of the address first.
LessV6(a, b) == Before(a, b, <<4, 3, 2, 1, 8, 7, 6, 5>>)

-----------------------------------------------------------------------------
(* What is asked.                                                          *)

Questions == [about : {"v4"}, value : V4s]
             \cup [about : {"v6"}, value : V6s]
             \cup [about : {"text4"}, value : Texts4]
             \cup [about : {"text6"}, value : Texts6]

value == question.value

-----------------------------------------------------------------------------
(* Properties.                                                             *)

\* Four numbers below 256 make the address of those numbers, and a text with
\* more or fewer fields is refused.
V4TextsMade ==
    About("text4") =>
        LET fields == value.fields IN
        /\ Len(fields) # 4 => MakeText(value) = Threw
        /\ Len(fields) = 4 /\ (\A i \in 1 .. 4 : fields[i].right) =>
               MakeText(value) = [i \in 1 .. 4 |-> fields[i].number]

\* Every valid text of an address other than zero makes that address.
V6TextsMade ==
    About("text6") /\ value.valid /\ value.fits /\ value.value # Zero6 =>
        MakeText(value) = value.value

\* A text for which anything is wrong is refused, as the comment of make() says.
TextsRejectWrong ==
    /\ About("text4") /\ (\E i \in DOMAIN value.fields : ~value.fields[i].right)
           => MakeText(value) = Threw
    /\ About("text6") /\ ~value.valid => MakeText(value) = Threw

\* The usual text of a sequence of segments.
Joined(s) == FlattenSeq([i \in DOMAIN s |-> IF i = 1 THEN <<s[i]>>
                                            ELSE <<Colon, s[i]>>])

\* The texts of an address: all segments, or "::" in place of some zeros.
Denotes(out, a) ==
    \/ out = Joined(a)
    \/ \E i \in 1 .. 8 : \E j \in i .. 8 :
           /\ \A k \in i .. j : a[k] = 0
           /\ out = Joined(SubSeq(a, 1, i - 1)) \o <<Colon, Colon>>
                        \o Joined(SubSeq(a, j + 1, 8))

\* The first zeros of the address do not reach its end.
ZerosEnd(a) == \A i \in 1 .. 8 : a[i] = 0 => \E j \in i .. 8 : a[j] # 0

\* to_string() writes a text of the address, with one "::" at most, unless the
\* zeros reach to its end.
PrintedDenotes ==
    About("v6") /\ (ZerosEnd(value) \/ UsedZero(value, 8)) =>
        Denotes(Printed(value), value)

\* Different addresses have different texts.
PrintedInjective ==
    About("v6") => \A b \in V6s \ {value} : Printed(b) # Printed(value)

\* A printed version 4 address makes that address.
V4PrintedMade == About("v4") => MakeText(PrintedV4(value)) = value

\* make() of to_sockaddr() gives address and port back, in both families, and
\* a length that is too short is refused.
SockaddrRoundTrip ==
    \A port \in Ports :
        /\ About("v4") => /\ Make(SockaddrV4(value, port), 16) = <<value, port>>
                          /\ Make(SockaddrV4(value, port), 15) = Threw
        /\ About("v6") =>
               /\ Make(SockaddrV6(FromSegments(value), port), 28) = <<value, port>>
               /\ Make(SockaddrV6(value, port), 27) = Threw

\* A socket address carries the port and the segments high byte first.
NetworkByteOrder ==
    About("v6") => \A port \in Ports, i \in 1 .. 8 :
        LET sa == SockaddrV6(value, port)
        IN /\ 256 * Pair(sa.bytes, i)[1] + Pair(sa.bytes, i)[2] = value[i]
           /\ 256 * sa.port[1] + sa.port[2] = port

\* A version 6 address that embeds one of version 4 has the well-known prefix
\* and tells which one it embeds, also after its way over a socket address.
EmbeddingRecoverable ==
    About("v4") =>
        LET received == Make(SockaddrV6(Embedded(value), 80), 28)[1]
        IN /\ SubSeq(received, 1, 6) = <<100, 65435, 0, 0, 0, 0>>
           /\ Memory(received[7]) \o Memory(received[8]) = value

\* The peer's name is right if the length happens to be enough, and is refused
\* if not even the family fits; in between it may be anything.
PeerNamed ==
    \A port \in Ports, len \in Lengths :
        LET sa == IF About("v4") THEN SockaddrV4(value, port)
                                 ELSE SockaddrV6(value, port)
            named == GetPeerName(sa, len)
        IN About("v4") \/ About("v6") =>
               /\ len >= sa.len => named = <<value, port>>
               /\ len < 2 => named = Threw

\* The number of b less the number of a.
Difference(a, b) == (b[1] - a[1]) + 256 * (b[2] - a[2])
                    + 65536 * (b[3] - a[3]) + 16777216 * (b[4] - a[4])

Lowest == [i \in 1 .. 4 |-> 0]
Highest == [i \in 1 .. 4 |-> 255]

\* b is the number after a, and after the highest comes the lowest.
Follows(a, b) == IF a = Highest THEN b = Lowest ELSE Difference(a, b) = 1

\* ++ goes to the next number and -- to the one before, over every carry, borrow
\* and wrap-around.  += and -= do the same whatever argument they are given:
\* += 0 and += 2 do not add what they are told.
CountsByOne ==
    About("v4") =>
        /\ Follows(value, Incremented(value))
        /\ Follows(Decremented(value), value)
        /\ \A i \in Steps : /\ Follows(value, Added(value, i))
                            /\ Follows(Subtracted(value, i), value)

Upper(a) == Number(Pair(a, 2))
Lower(a) == Number(Pair(a, 1))

\* Version 4 addresses compare as their numbers do, of which Upper and Lower are
\* the halves; equal means the same.
ComparedAsNumbers ==
    About("v4") => \A b \in V4s :
        /\ LessV4(value, b) <=> \/ Upper(value) < Upper(b)
                                \/ Upper(value) = Upper(b) /\ Lower(value) < Lower(b)
        /\ value # b <=> LessV4(value, b) \/ LessV4(b, value)

\* Counting goes along the order: ++ leads to a greater address, and there is
\* none in between, except that the lowest comes after the highest.
CountedInOrder ==
    About("v4") /\ value # Highest =>
        /\ LessV4(value, Incremented(value))
        /\ \A b \in V4s : ~(LessV4(value, b) /\ LessV4(b, Incremented(value)))

\* The constructor from a number takes back to_uint32() once the bytes of the
\* number are turned, and then only.
NumberTurned ==
    About("v4") =>
        LET n == ToUint32(value)
        IN /\ FromUint32(Reverse(n)) = value
           /\ FromUint32(n) = value <=> n = Reverse(n)

\* Version 6 addresses, which cannot be counted, are in a strict total order, in
\* which equal means the same.
TotallyOrdered ==
    About("v6") => \A b \in V6s :
        /\ value # b <=> LessV6(value, b) \/ LessV6(b, value)
        /\ ~(LessV6(value, b) /\ LessV6(b, value))
        /\ LessV6(value, b) =>
               \A c \in V6s : LessV6(b, c) => LessV6(value, c)

\* Whatever way an address takes, into a text and back, into a socket address
\* and back, to a peer or into version 6, it stays the same address.
AddressesRoundTrip ==
    /\ V4TextsMade /\ V6TextsMade /\ V4PrintedMade
    /\ PrintedDenotes /\ PrintedInjective
    /\ SockaddrRoundTrip /\ NetworkByteOrder
    /\ EmbeddingRecoverable /\ PeerNamed

\* Version 4 addresses count up and down, one at a time, and compare as the
\* numbers they are; version 6 addresses only compare.
NumbersRight == /\ CountsByOne /\ ComparedAsNumbers /\ CountedInOrder
                /\ NumberTurned /\ TotallyOrdered
=============================================================================
