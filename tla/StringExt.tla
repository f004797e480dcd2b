----------------------------- MODULE StringExt -----------------------------
(***************************************************************************)
(* trim(), remove_quotation_mark() and the case-insensitive comparisons of *)
(* include/toolpex/string_ext.h.  A text is a sequence of characters; the  *)
(* indexes of the code start at 0 and are unsigned, modulo SizeModulus.    *)
(***************************************************************************)
EXTENDS Integers, SequencesExt, Question

CONSTANTS Fold,          \* tolower(): the code of each character, 0 for NUL
          Delim,         \* the delimiters asked about
          MaxLength,     \* bound: of the texts
          SizeModulus    \* the values of size_type

Char == DOMAIN Fold
Text == UNION {[1 .. n -> Char] : n \in 0 .. MaxLength}

TextAssumption == /\ \A c \in Char : Fold[c] \in Nat
                  /\ Delim \subseteq Char
                  /\ MaxLength \in Nat
                  /\ SizeModulus \in Nat /\ SizeModulus > MaxLength + 1

-----------------------------------------------------------------------------
(* trim().                                                                 *)

At(str, i) == str[i + 1]
Size(n) == n % SizeModulus

\* newstr_beg: where the first loop stops.
Beginning(str, d) ==
    Min({i \in 0 .. Len(str) - 1 : At(str, i) # d} \cup {Len(str)})

\* newstr_end: the second loop runs while i > newstr_beg - 1, which no i does
\* when newstr_beg is 0.
EndOf(str, beg, d) ==
    LET start == Size(Len(str) - 1)
        bound == Size(beg - 1)
    IN IF ~(start > bound) THEN Size(start + 1)
       ELSE Max({i \in bound .. start : i = bound \/ At(str, i) # d}) + 1

trim(str, d) == LET beg == Beginning(str, d)
                IN SubSeq(str, beg + 1, Min({EndOf(str, beg, d), Len(str)}))

-----------------------------------------------------------------------------
(* The comparisons.                                                        *)

\* Two equal NULs end the comparison.
strncasecmp(s1, s2, n) ==
    LET stops == {i \in 1 .. n : \/ Fold[s1[i]] # Fold[s2[i]]
                                 \/ Fold[s1[i]] = 0}
    IN IF stops = {} THEN 0
       ELSE Fold[s1[Min(stops)]] - Fold[s2[Min(stops)]]

\* Mutant of str_case_cmp: the lengths are not compared.
MutantCmpPrefix(s1, s2) == strncasecmp(s1, s2, Min({Len(s1), Len(s2)}))

\* Less than, equal to or greater than 0, as the two texts are.
str_case_cmp(s1, s2) ==
    LET result == strncasecmp(s1, s2, Min({Len(s1), Len(s2)}))
    IN IF result = 0 THEN Len(s1) - Len(s2) ELSE result

str_case_equal(s1, s2) == str_case_cmp(s1, s2) = 0
str_case_less(s1, s2) == str_case_cmp(s1, s2) < 0
str_case_greater(s1, s2) == str_case_cmp(s1, s2) > 0
str_case_leq(s1, s2) == str_case_cmp(s1, s2) < 0 \/ str_case_cmp(s1, s2) = 0
str_case_geq(s1, s2) == str_case_cmp(s1, s2) > 0 \/ str_case_cmp(s1, s2) = 0

-----------------------------------------------------------------------------
Questions == [about : {"trim"}, str : Text, d : Delim]
             \cup [about : {"order"}, s1 : Text, s2 : Text]

-----------------------------------------------------------------------------
(* Properties.                                                             *)

Trimmed == trim(question.str, question.d)
Starts == Len(question.str) > 0 /\ question.str[1] = question.d
Delims(n) == [i \in 1 .. n |-> question.d]

\* trim() drops nothing but delimiters at the two ends, and all in front.
DropsOnlyDelimiters ==
    About("trim") =>
        /\ Len(Trimmed) > 0 => Trimmed[1] # question.d
        /\ \E a, b \in 0 .. Len(question.str) :
               question.str = Delims(a) \o Trimmed \o Delims(b)

\* A text that begins with a delimiter is trimmed behind as well.
TrimsBehindWhenInFront ==
    About("trim") /\ Starts /\ Len(Trimmed) > 0 =>
        Last(Trimmed) # question.d

\* The comparisons agree with one total order of the texts, NULs or not.
CaseTotallyOrdered ==
    About("order") =>
        LET s1 == question.s1  s2 == question.s2
        IN /\ str_case_less(s1, s2) <=> ~str_case_leq(s2, s1)
           /\ str_case_greater(s1, s2) <=> str_case_less(s2, s1)
           /\ str_case_geq(s1, s2) <=> str_case_leq(s2, s1)
           /\ \A s3 \in Text : /\ str_case_leq(s1, s2) /\ str_case_leq(s2, s3)
                                     => str_case_leq(s1, s3)
                        /\ str_case_equal(s1, s2) =>
                                     (str_case_less(s1, s3) <=>
                                      str_case_less(s2, s3))

\* Texts without NUL are equal exactly if they differ in case only.
EqualIfCaseDiffers ==
    About("order") =>
        LET folded(s) == [i \in DOMAIN s |-> Fold[s[i]]]
        IN (\A i \in DOMAIN question.s1 : Fold[question.s1[i]] # 0) =>
               (str_case_equal(question.s1, question.s2) <=>
                folded(question.s1) = folded(question.s2))

\* trim() answers its text between the delimiters, where it trims at all, and
\* the comparisons are one order, that of the texts in lower case.
StringsRight == /\ DropsOnlyDelimiters /\ TrimsBehindWhenInFront
                /\ CaseTotallyOrdered /\ EqualIfCaseDiffers
=============================================================================
