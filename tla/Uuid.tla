-------------------------------- MODULE Uuid --------------------------------
(***************************************************************************)
(* toolpex::uuid (include/toolpex/uuid.h, src/uuid.cc): an identifier that *)
(* keeps its text once to_string() has made it.  to_string() is const, but *)
(* it fills m_str in steps, without a lock: Discipline "alone" says that   *)
(* no thread uses an object while another is in to_string() on it.         *)
(***************************************************************************)
EXTENDS Integers, FiniteSets

CONSTANTS Object, Thread,
          Id,           \* the values of uuid_t
          Spelling,     \* the ways to write an identifier, "canonical" is one
          None, Discipline

UuidAssumption == /\ None \notin Id
                  /\ "canonical" \in Spelling
                         /\ Discipline \subseteq {"alone"}

Text(id, spelling) == [of |-> id, spelling |-> spelling]
Empty == Text(None, "empty")
Zeros == Text(None, "zeros")    \* of the right length, without a character
Texts == [of : Id, spelling : Spelling] \cup {Empty, Zeros}

VARIABLES
    m_uuid,      \* the identifier of each object; None while there is no object
    m_str,
    at,          \* the line of to_string() a thread is at, "out" of it if none
    self,        \* the object it was called on
    generated,   \* the identifiers generated so far
    answer       \* what the last to_string() of each thread answered, and for what

vars == <<m_uuid, m_str, at, self, generated, answer>>
client == <<at, self, answer>>

Live == {o \in Object : m_uuid[o] # None}
Inside(o) == {t \in Thread : at[t] # "out" /\ self[t] = o}
Usable(o) == "alone" \in Discipline => Inside(o) = {}

Init == /\ m_uuid = [o \in Object |-> None]
        /\ m_str = [o \in Object |-> Empty]
        /\ at = [t \in Thread |-> "out"]
        /\ self = [t \in Thread |-> None]
        /\ generated = {}
        /\ answer = [t \in Thread |-> None]

-----------------------------------------------------------------------------
(* Objects.  They are made, assigned and destroyed by one thread, while no  *)
(* other is using them.                                                    *)

Becomes(o, id, str) == /\ m_uuid' = [m_uuid EXCEPT ![o] = id]
                       /\ m_str' = [m_str EXCEPT ![o] = str]

\* uuid_generate() never answers the same identifier twice.
Generate(o) == /\ o \notin Live
               /\ \E id \in Id \ generated :
                      /\ Becomes(o, id, Empty)
                      /\ generated' = generated \cup {id}
               /\ UNCHANGED client

\* The text is kept as it was written; a wrong one throws and makes no object.
Parse(o) == /\ o \notin Live
            /\ \E id \in Id, spelling \in Spelling :
                   Becomes(o, id, Text(id, spelling))
            /\ UNCHANGED <<generated, client>>

\* Copy construction, and copy assignment.
Copy(o, other) == /\ other \in Live
                  /\ Inside(o) = {} /\ Inside(other) = {}
                  /\ Becomes(o, m_uuid[other], m_str[other])
                  /\ UNCHANGED <<generated, client>>

\* Mutant of Move: only the identifier is copied.
MutantMoveIdOnly(o, other) ==
    /\ other \in Live
    /\ Inside(o) = {} /\ Inside(other) = {}
    /\ m_uuid' = [m_uuid EXCEPT ![o] = m_uuid[other]]
    /\ m_str' = [m_str EXCEPT ![other] = Empty]
    /\ UNCHANGED <<generated, client>>

\* Move construction, and move assignment: the identifier is copied, the text
\* moved, so that the source can still make its text anew.
Move(o, other) ==
    /\ other \in Live
    /\ Inside(o) = {} /\ Inside(other) = {}
    /\ m_uuid' = [m_uuid EXCEPT ![o] = m_uuid[other]]
    /\ m_str' = [m_str EXCEPT ![o] = m_str[other], ![other] = Empty]
    /\ UNCHANGED <<generated, client>>

Destroy(o) == /\ o \in Live /\ Inside(o) = {}
              /\ Becomes(o, None, Empty)
              /\ UNCHANGED <<generated, client>>

-----------------------------------------------------------------------------
(* to_string().                                                            *)

Goes(t, line) == at' = [at EXCEPT ![t] = line]

Call(t, o) == /\ at[t] = "out" /\ o \in Live /\ Usable(o)
              /\ Goes(t, "check") /\ self' = [self EXCEPT ![t] = o]
              /\ UNCHANGED <<m_uuid, m_str, generated, answer>>

Check(t) == /\ at[t] = "check"
            /\ Goes(t, IF m_str[self[t]] = Empty THEN "resize" ELSE "view")
            /\ UNCHANGED <<m_uuid, m_str, self, generated, answer>>

Resize(t) == /\ at[t] = "resize" /\ Goes(t, "unparse")
             /\ m_str' = [m_str EXCEPT ![self[t]] = Zeros]
             /\ UNCHANGED <<m_uuid, self, generated, answer>>

Unparse(t) ==
    /\ at[t] = "unparse" /\ Goes(t, "view")
    /\ m_str' = [m_str EXCEPT ![self[t]] = Text(m_uuid[self[t]], "canonical")]
    /\ UNCHANGED <<m_uuid, self, generated, answer>>

View(t) == /\ at[t] = "view" /\ Goes(t, "out") /\ self' = [self EXCEPT ![t] = None]
           /\ answer' = [answer EXCEPT ![t] = [id   |-> m_uuid[self[t]],
                                               text |-> m_str[self[t]]]]
           /\ UNCHANGED <<m_uuid, m_str, generated>>

Next == \/ \E o \in Object : \/ Generate(o) \/ Parse(o) \/ Destroy(o)
                             \/ \E other \in Object : Copy(o, other) \/ Move(o, other)
        \/ \E t \in Thread : \/ \E o \in Object : Call(t, o)
                             \/ Check(t) \/ Resize(t) \/ Unparse(t) \/ View(t)

Spec == Init /\ [][Next]_vars

-----------------------------------------------------------------------------
(* Properties.                                                             *)

\* Every variable keeps to its type; a thread is in to_string() of an object.
TypeOK == /\ m_uuid \in [Object -> Id \cup {None}]
          /\ m_str \in [Object -> Texts]
          /\ at \in [Thread -> {"out", "check", "resize", "unparse", "view"}]
          /\ \A t \in Thread : at[t] # "out" => self[t] \in Live
          /\ generated \subseteq Id

\* The text an object keeps is of the identifier it has, whatever was copied,
\* moved or assigned to it since the text was made.
TextIsOfIdentifier ==
    \A o \in Live : Inside(o) = {} /\ m_str[o] # Empty =>
                        m_str[o] # Zeros /\ m_str[o].of = m_uuid[o]

\* to_string() never answers an empty or unfinished text, nor another's.
AnswersText ==
    \A t \in Thread : answer[t] # None =>
        /\ answer[t].text \notin {Empty, Zeros}
        /\ answer[t].text.of = answer[t].id

\* Texts, kept or answered, are those of their identifiers.
TextsRight == TypeOK /\ TextIsOfIdentifier /\ AnswersText
=============================================================================
