---------------------------- MODULE LimitCounter ----------------------------
(***************************************************************************)
(* What an approximate limit counter promises: one value between 0 and a   *)
(* limit, which a granted call moves by exactly its argument, once, between *)
(* the call and its return.  "Approximate" is the freedom to refuse a call *)
(* that would have fitted.                                                 *)
(***************************************************************************)
EXTENDS Integers

CONSTANTS Unit,      \* the execution units calling the counter
          Limits,    \* the limits it may be given
          Calls      \* the calls: records of an op and an arg

VARIABLES limit, value,
          call,      \* the call each unit is in
          answer     \* what that call has been told so far

vars == <<limit, value, call, answer>>

NoCall == [op |-> "none", arg |-> 0]

Init == /\ limit \in Limits
        /\ value = 0
        /\ call = [u \in Unit |-> NoCall]
        /\ answer = [u \in Unit |-> "none"]

Ask(u) == /\ call[u] = NoCall
          /\ \E c \in Calls : call' = [call EXCEPT ![u] = c]
          /\ UNCHANGED <<limit, value, answer>>

Tell(u, op, a) == /\ call[u].op = op
                  /\ answer[u] = "none"
                  /\ answer' = [answer EXCEPT ![u] = a]
                  /\ UNCHANGED call

GrantAdd(u) == /\ Tell(u, "add", "granted")
               /\ value + call[u].arg <= limit
               /\ value' = value + call[u].arg
               /\ UNCHANGED limit

GrantSub(u) == /\ Tell(u, "sub", "granted")
               /\ value >= call[u].arg
               /\ value' = value - call[u].arg
               /\ UNCHANGED limit

Refuse(u) == /\ \E op \in {"add", "sub"} : Tell(u, op, "refused")
             /\ UNCHANGED <<limit, value>>

Finish(u) == /\ \E op \in {"read", "unregister"} : Tell(u, op, "done")
             /\ UNCHANGED <<limit, value>>

Reset(u) == /\ Tell(u, "reset", "done")
            /\ value' = 0
            /\ limit' = call[u].arg

Return(u) == /\ answer[u] # "none"
             /\ call' = [call EXCEPT ![u] = NoCall]
             /\ answer' = [answer EXCEPT ![u] = "none"]
             /\ UNCHANGED <<limit, value>>

Next == \E u \in Unit : \/ Ask(u)
                        \/ GrantAdd(u)
                        \/ GrantSub(u)
                        \/ Refuse(u)
                        \/ Finish(u)
                        \/ Reset(u)
                        \/ Return(u)

Spec == Init /\ [][Next]_vars
=============================================================================
