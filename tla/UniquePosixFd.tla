--------------------------- MODULE UniquePosixFd ---------------------------
(***************************************************************************)
(* toolpex::unique_posix_fd (include/toolpex/unique_posix_fd.h): handles   *)
(* that own file descriptors, made, moved, closed and destroyed in any     *)
(* order.  The kernel reuses the numbers of closed descriptors, so closing *)
(* one twice would close somebody else's.                                  *)
(***************************************************************************)
EXTENDS Integers, FiniteSets, FiniteSetsExt

CONSTANTS Handle,   \* the handle objects
          MaxFd     \* bound: the largest descriptor the kernel gives

FdAssumption == MaxFd \in Nat /\ MaxFd >= 2

VARIABLES
    m_fd,       \* the descriptor of each handle; Gone while there is no object
    open,       \* the kernel's open descriptors
    serial,     \* which open() each open descriptor came from, modulo 2
    got         \* the same, as each handle remembers it

vars == <<m_fd, open, serial, got>>

Gone == -2
Invalid == -1
StdFds == 0 .. 2
Fds == 0 .. MaxFd

Live == {h \in Handle : m_fd[h] # Gone}
valid(h) == m_fd[h] # Invalid

Init == /\ m_fd = [h \in Handle |-> Gone]
        /\ open = StdFds
        /\ serial = [n \in Fds |-> 0]
        /\ got = [h \in Handle |-> 0]

\* Descriptors closed by close() of the handle: none for the standard streams.
Closed(h) == IF valid(h) THEN {m_fd[h]} \ StdFds ELSE {}

\* unique_posix_fd()
MakeEmpty(h) == /\ m_fd[h] = Gone
                /\ m_fd' = [m_fd EXCEPT ![h] = Invalid]
                /\ UNCHANGED <<open, serial, got>>

\* unique_posix_fd(::open(...)), or of another call that makes a descriptor;
\* the kernel gives the lowest one free.
MakeOpen(h) == /\ m_fd[h] = Gone
               /\ open # Fds
               /\ LET n == Min(Fds \ open) IN
                     /\ m_fd' = [m_fd EXCEPT ![h] = n]
                     /\ open' = open \cup {n}
                     /\ serial' = [serial EXCEPT ![n] = 1 - @]
                     /\ got' = [got EXCEPT ![h] = serial'[n]]

\* unique_posix_fd(STDOUT_FILENO)
MakeStd(h) == /\ m_fd[h] = Gone
              /\ \E n \in StdFds :
                    /\ m_fd' = [m_fd EXCEPT ![h] = n]
                    /\ got' = [got EXCEPT ![h] = serial[n]]
              /\ UNCHANGED <<open, serial>>

\* release() leaves the handle invalid.
Released(fds, from) == [fds EXCEPT ![from] = Invalid]

MoveConstruct(h, from) ==
    /\ m_fd[h] = Gone /\ from \in Live
    /\ m_fd' = [Released(m_fd, from) EXCEPT ![h] = m_fd[from]]
    /\ got' = [got EXCEPT ![h] = got[from]]
    /\ UNCHANGED <<open, serial>>

\* Mutant of MoveAssign: the descriptor of the target is not closed.
MutantAssignKeepsOpen(h, from) ==
    /\ {h, from} \subseteq Live
    /\ m_fd' = [Released(m_fd, from) EXCEPT ![h] = m_fd[from]]
    /\ got' = [got EXCEPT ![h] = got[from]]
    /\ UNCHANGED <<open, serial>>

\* operator= closes the target's first; assigned to itself, a handle is closed.
MoveAssign(h, from) ==
    /\ {h, from} \subseteq Live
    /\ open' = open \ Closed(h)
    /\ m_fd' = IF h = from THEN Released(m_fd, h)
               ELSE [Released(m_fd, from) EXCEPT ![h] = m_fd[from]]
    /\ got' = [got EXCEPT ![h] = got[from]]
    /\ UNCHANGED serial

Close(h) ==
    /\ h \in Live
    /\ open' = open \ Closed(h)
    /\ m_fd' = Released(m_fd, h)
    /\ UNCHANGED <<serial, got>>

\* The destructor closes.
Destroy(h) ==
    /\ h \in Live
    /\ open' = open \ Closed(h)
    /\ m_fd' = [m_fd EXCEPT ![h] = Gone]
    /\ UNCHANGED <<serial, got>>

Next == \E h \in Handle : \/ MakeEmpty(h) \/ MakeOpen(h) \/ MakeStd(h)
                          \/ \E from \in Handle : \/ MoveConstruct(h, from)
                                                  \/ MoveAssign(h, from)
                          \/ Close(h) \/ Destroy(h)

Spec == Init /\ [][Next]_vars

-----------------------------------------------------------------------------
(* Properties.                                                             *)

\* Every variable keeps to its type, and the standard streams stay open.
TypeOK == /\ m_fd \in [Handle -> Fds \cup {Invalid, Gone}]
          /\ StdFds \subseteq open /\ open \subseteq Fds
          /\ serial \in [Fds -> {0, 1}]
          /\ got \in [Handle -> {0, 1}]

Owned == {m_fd[h] : h \in Live} \ (StdFds \cup {Invalid})

\* Descriptors are neither leaked nor closed under a handle: the open ones are
\* the standard streams and those that handles hold, in every order of moves,
\* self-assignments, closes and destructions.
OpenIffOwned == open = StdFds \cup Owned

\* A handle holds the descriptor it was made with, not a later one that got
\* the same number, and no two handles hold the same one.
HoldsItsOwn ==
    \A h \in Live : m_fd[h] \notin StdFds \cup {Invalid} =>
        /\ got[h] = serial[m_fd[h]]
        /\ \A g \in Live \ {h} : m_fd[g] # m_fd[h]

\* Every descriptor is closed exactly once, by the last handle that holds it.
DescriptorsOwned == TypeOK /\ OpenIffOwned /\ HoldsItsOwn
=============================================================================
