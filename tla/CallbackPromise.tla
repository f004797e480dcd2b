-------------------------- MODULE CallbackPromise --------------------------
(***************************************************************************)
(* toolpex::callback_promise and future_frame                              *)
(* (include/toolpex/callback_promise.h): an outcome is put into a frame,   *)
(* the frame is moved into the callback, and whoever destroys a frame that *)
(* still has its exception throws it, out of a destructor.                 *)
(*                                                                         *)
(* A callback may do anything.  It is careless if it                       *)
(*   - reads a value where there is none: before the exception is taken,   *)
(*     after that, or in a frame that was moved from;                      *)
(*   - destroys a frame, or leaves it behind, with its exception;          *)
(*   - throws while it handles an exception.                               *)
(*                                                                         *)
(* A promise for values keeps each on the heap, one for references the     *)
(* address of each, and one for void nothing at all.                       *)
(***************************************************************************)
EXTENDS Integers, FiniteSets

CONSTANTS Exception,   \* each is raised at most once
          Held,        \* the values a frame may hold
          None

CallbackAssumption == None \notin Exception \cup Held

\* The frames of a call, from the promise's local one to the callback's
\* parameter, and one that the callback may move its parameter into.
Place == {"ff", "argument", "parameter", "kept"}

VARIABLES
    promised,        \* "value" (references included) or "void"
    m_ex, m_value,   \* of the frame in each place
    alive,           \* the places that hold a frame object
    step,            \* where the call of the callback is
    failing,         \* whether it is a call of set_exception()
    thrown,          \* whether the callback has thrown
    raised, taken,   \* the exceptions given to the promise, and taken
    ended,           \* "no", or how the program came to its end
    careless         \* whether a callback was, see above

vars == <<promised, m_ex, m_value, alive, step, failing, thrown, raised, taken,
          ended, careless>>
frames == <<promised, m_ex, m_value, alive>>
history == <<raised, taken, ended, careless>>

Init == /\ promised \in {"value", "void"}
        /\ m_ex = [p \in Place |-> None] /\ m_value = [p \in Place |-> None]
        /\ alive = {} /\ step = "idle"
        /\ failing = FALSE /\ thrown = FALSE
        /\ raised = {} /\ taken = {} /\ ended = "no"
        /\ careless = FALSE

Careless(slip) == careless' = (careless \/ slip)

safely_done(p) == m_ex[p] = None

-----------------------------------------------------------------------------
(* The promise.                                                            *)

SetValue(v) ==
    /\ ended = "no" /\ step = "idle" /\ promised = "value"
    /\ alive' = alive \cup {"ff"} /\ step' = "ff"
    /\ m_value' = [m_value EXCEPT !["ff"] = v]
    /\ UNCHANGED <<promised, m_ex, failing, thrown, history>>

\* Making the value throws: the callback is not called, the frame goes.
SetValueThrows ==
    /\ ended = "no" /\ step = "idle" /\ promised = "value"
    /\ alive' = alive \cup {"ff"} /\ step' = "leaving" /\ thrown' = TRUE
    /\ UNCHANGED <<promised, m_ex, m_value, failing, history>>

\* m_cb({}): the frame is made where the wrapper expects its argument.
SetVoid ==
    /\ ended = "no" /\ step = "idle" /\ promised = "void"
    /\ alive' = alive \cup {"argument"} /\ step' = "argument"
    /\ UNCHANGED <<promised, m_ex, m_value, failing, thrown, history>>

SetException(e) ==
    /\ ended = "no" /\ step = "idle" /\ e \notin raised
    /\ alive' = alive \cup {"ff"} /\ step' = "ff"
    /\ m_ex' = [m_ex EXCEPT !["ff"] = e]
    /\ failing' = TRUE /\ raised' = raised \cup {e}
    /\ UNCHANGED <<promised, m_value, thrown, taken, ended, careless>>

\* Mutant of Moved: the source keeps its exception.
MutantMovedShares(from, to) ==
    /\ m_ex' = [m_ex EXCEPT ![to] = m_ex[from]]
    /\ m_value' = [m_value EXCEPT ![to] = m_value[from], ![from] = None]
    /\ alive' = alive \cup {to}

\* A frame constructed from another, with both of its bases.
Moved(from, to) ==
    /\ m_ex' = [m_ex EXCEPT ![to] = m_ex[from], ![from] = None]
    /\ m_value' = [m_value EXCEPT ![to] = m_value[from], ![from] = None]
    /\ alive' = alive \cup {to}

\* m_cb(::std::move(ff)): once into the argument of the function wrapper, once
\* into the parameter of the callback.
Pass == \E hop \in {<<"ff", "argument">>, <<"argument", "parameter">>} :
            /\ ended = "no" /\ step = hop[1]
            /\ Moved(hop[1], hop[2])
            /\ step' = hop[2]
            /\ UNCHANGED <<promised, failing, thrown, history>>

-----------------------------------------------------------------------------
(* The callback, and its client later on.                                  *)

Reachable(p) == /\ ended = "no" /\ p \in alive
                /\ p \in {"parameter", "kept"}
                /\ p = "parameter" => step = "parameter"

\* value() asserts that there is one, but for void.
Missing(p) == promised = "value" /\ m_value[p] = None

ReadValue(p) ==
    /\ Reachable(p)
    /\ Careless(Missing(p))
    /\ ended' = IF Missing(p) THEN "asserted" ELSE ended
    /\ UNCHANGED <<frames, step, failing, thrown, raised, taken>>

\* get_exception().
GetException(p) ==
    /\ Reachable(p) /\ ~safely_done(p)
    /\ taken' = taken \cup {m_ex[p]}
    /\ m_ex' = [m_ex EXCEPT ![p] = None]
    /\ UNCHANGED <<promised, m_value, alive, step, failing, thrown, raised, ended,
                   careless>>

Keep == /\ Reachable("parameter") /\ "kept" \notin alive
        /\ Moved("parameter", "kept")
        /\ UNCHANGED <<promised, step, failing, thrown, history>>

Return ==
    /\ Reachable("parameter") /\ step' = "leaving"
    /\ Careless(~safely_done("parameter"))
    /\ UNCHANGED <<frames, failing, thrown, raised, taken, ended>>

Throw ==
    /\ Reachable("parameter") /\ step' = "leaving" /\ thrown' = TRUE
    /\ Careless(failing \/ ~safely_done("parameter"))
    /\ UNCHANGED <<frames, failing, raised, taken, ended>>

-----------------------------------------------------------------------------
(* Destruction.                                                            *)

\* Mutant of EndAfter: a frame is destroyed with its exception, silently.
MutantEndAfterSilent(p) == ended

\* The destructor throws, and as nothing says it may, that ends the program.
EndAfter(p) == IF m_ex[p] # None THEN "terminated" ELSE ended

Destroyed(p) == /\ ended' = EndAfter(p)
                /\ alive' = alive \ {p}
                /\ m_ex' = [m_ex EXCEPT ![p] = None]
                /\ m_value' = [m_value EXCEPT ![p] = None]

\* The parameter, the argument and the local frame go, in this order.
Leave(p) ==
    /\ ended = "no" /\ step = "leaving" /\ p \in alive
    /\ p = "argument" => "parameter" \notin alive
    /\ p = "ff" => alive \cap {"argument", "parameter"} = {}
    /\ Destroyed(p)
    /\ UNCHANGED <<promised, step, failing, thrown, raised, taken, careless>>

\* An exception of the callback goes to the caller of set_value(), and ends
\* the program in set_exception(), which is noexcept.
BackToCaller ==
    /\ ended = "no" /\ step = "leaving"
    /\ alive \subseteq {"kept"}
    /\ ended' = IF thrown /\ failing THEN "terminated" ELSE ended
    /\ step' = "idle" /\ thrown' = FALSE /\ failing' = FALSE
    /\ UNCHANGED <<frames, raised, taken, careless>>

DropKept ==
    /\ Reachable("kept")
    /\ Careless(~safely_done("kept"))
    /\ Destroyed("kept")
    /\ UNCHANGED <<promised, step, failing, thrown, raised, taken>>

Next == \/ \E v \in Held : SetValue(v)
        \/ SetValueThrows \/ SetVoid
        \/ \E e \in Exception : SetException(e)
        \/ Pass
        \/ \E p \in {"parameter", "kept"} : ReadValue(p) \/ GetException(p)
        \/ Keep \/ Return \/ Throw
        \/ \E p \in {"parameter", "argument", "ff"} : Leave(p)
        \/ BackToCaller
        \/ DropKept

Spec == Init /\ [][Next]_vars

-----------------------------------------------------------------------------
(* Properties.                                                             *)

\* Every variable keeps to its type; only objects have contents.
TypeOK == /\ m_ex \in [Place -> Exception \cup {None}]
          /\ m_value \in [Place -> Held \cup {None}]
          /\ alive \subseteq Place
          /\ \A p \in Place \ alive : m_ex[p] = None /\ m_value[p] = None
          /\ step \in {"idle", "ff", "argument", "parameter", "leaving"}
          /\ failing \in BOOLEAN /\ thrown \in BOOLEAN
          /\ taken \subseteq raised /\ raised \subseteq Exception
          /\ ended \in {"no", "asserted", "terminated"}
          /\ careless \in BOOLEAN

\* An exception given to the promise is never lost: as long as the program
\* runs, a frame holds it or somebody took it.
ExceptionNeverLost ==
    ended # "terminated" =>
        \A e \in raised : e \in taken \/ \E p \in alive : m_ex[p] = e

\* Nobody meets an exception twice, in two frames or after it was taken.
ExceptionHeldOnce ==
    \A e \in Exception :
        Cardinality({p \in alive : m_ex[p] = e}) <= IF e \in taken THEN 0 ELSE 1

\* Callbacks that are not careless never bring the program to its end, whatever
\* they take, keep for later and throw.
NeverEnds == ~careless => ended = "no"

\* Every exception reaches somebody, exactly once, or ends the program.
ExceptionsDelivered == TypeOK /\ ExceptionNeverLost /\ ExceptionHeldOnce
=============================================================================
