------------------------------- MODULE MCValues -------------------------------
(***************************************************************************)
(* The parts of the library that are functions of values, in one run:      *)
(* addresses, texts, times, errors, numbers and masks.                     *)
(*                                                                         *)
(* Addresses: bytes and segments around every boundary, all patterns of    *)
(* zero and other segments, texts with right and wrong fields, too few and *)
(* too many, lengths around those of all parts of a socket address; steps  *)
(* of one, of none, of more and backwards.                                 *)
(* Texts: all of up to MaxLength characters out of NUL, a blank and a      *)
(* letter in both cases; the blank and the letter stand for the two        *)
(* delimiters the library trims.  Times: small rates in the proportions    *)
(* that occur, a clock finer than the unit (system_clock to timeval), as   *)
(* fine (to timespec) and coarser (a clock of seconds).  Errors: EPERM,    *)
(* which is 1, and two others.  Numbers: across several powers of two.     *)
(* Masks: types narrower than int, as wide and wider, of both signs.       *)
(***************************************************************************)
EXTENDS Question, Integers, Sequences, TLC

CONSTANTS V4s, V6s, Ports, Texts4, Texts6, Lengths, Steps,
          Fold, Delim, MaxLength, SizeModulus,
          Rates, MaxTicks,
          Errnos, Results, Stack,
          MaxNumber, MaxTails,
          Widths, IntWidth

Ip == INSTANCE IpAddress
String == INSTANCE StringExt
Time == INSTANCE SysTime
Error == INSTANCE Errors
Math == INSTANCE MathExt
Mask == INSTANCE BitMask

ASSUME PartAssumptions ==
    /\ Ip!AddressAssumption /\ String!TextAssumption /\ Time!RateAssumption
    /\ Error!ErrorsAssumption /\ Math!MathAssumption
    /\ Mask!MaskAssumption

AskAddress == Ask(Ip!Questions)
AskString == Ask(String!Questions)
AskTime == Ask(Time!Questions)
AskError == Ask(Error!Questions)
AskNumber == Ask(Math!Questions)
AskMask == Ask(Mask!Questions)

-----------------------------------------------------------------------------
(* The values of the constants that Values.cfg does not write out.         *)

MCV4s == [1 .. 4 -> {0, 1, 254, 255}]
MCV6s == [1 .. 8 -> {0, 258}]
MCPorts == {0, 1, 80, 8889, 65535}
Field(n, right) == [number |-> n, right |-> right]
Fields == {Field(0, TRUE), Field(255, TRUE), Field(256, FALSE), Field(0, FALSE)}
Text4(fields) == [dots |-> Len(fields) > 1, colons |-> FALSE, fields |-> fields]
MCTexts4 == {Text4(f) : f \in UNION {[1 .. n -> Fields] : n \in 1 .. 5}}
MCTexts6 == {t \in [dots : BOOLEAN, colons : {TRUE},
                    valid : BOOLEAN, plain : BOOLEAN, fits : BOOLEAN,
                    value : {a \in MCV6s : \A i \in 3 .. 8 : a[i] = 0}] :
                ~t.valid \/ t.plain => t.value = [i \in 1 .. 8 |-> 0]}
MCLengths == {-1, 0, 1, 2, 3, 4, 6, 8, 15, 16, 23, 27, 28, 128}
MCSteps == {-1, 0, 1, 2, 256}

MCFold == "nul" :> 0 @@ "blank" :> 1 @@ "A" :> 2 @@ "a" :> 2
MCDelim == {"blank", "a"}

Clock(clock, unit) == [clock |-> clock, unit |-> unit, system |-> 12]
MCRates == {Clock(12, 4), Clock(12, 12), Clock(4, 12), Clock(1, 4)}

-----------------------------------------------------------------------------
Next == \/ AskAddress \/ AskString \/ AskTime \/ AskError \/ AskNumber \/ AskMask
        \/ Answered

Spec == Init /\ [][Next]_question

-----------------------------------------------------------------------------
(* Properties: those of the parts, under their names.                      *)

\* ip_address: no way into another form and back changes an address.
AddressesRoundTrip == Ip!AddressesRoundTrip

\* ip_address: version 4 addresses count by one, whatever they are told to add,
\* and compare as numbers; version 6 addresses are totally ordered.
NumbersRight == Ip!NumbersRight

\* ip_address: every text for which anything is wrong is refused.
TextsRejectWrong == Ip!TextsRejectWrong

\* string_ext: trim() answers the text between the delimiters, and the
\* comparisons are one order, that of lower case.
StringsRight == String!StringsRight

\* convert_to_systime: conversions round down to a unit and keep the order.
TimesRight == Time!TimesRight

\* errret_thrower, posix_err_thrower: no failure of a call goes unnoticed.
ErrorsReported == Error!ErrorsReported

\* math_ext, skip_list, bit_mask: the levels a list is advised to have are
\* usable, and masks are sets of flags as far as their types allow it.
BitsRight == Math!LevelsRight /\ Mask!MasksRight
=============================================================================
