------------------------------- MODULE Errors -------------------------------
(***************************************************************************)
(* What becomes of the answer of a system call in the library's throwers:  *)
(* errret_thrower (include/toolpex/errret_thrower.h) and posix_err_thrower *)
(* (posix_err_thrower.h), and in socket_nonblock() (src/socket_util.cc).   *)
(*                                                                         *)
(* Calls answer by one of three conventions.  "posix": a result, or -1 and *)
(* an errno.  "kernel": a result, or a negative errno.  "status": 0, or an *)
(* errno.                                                                  *)
(***************************************************************************)
EXTENDS Integers, Question

CONSTANTS Errnos,    \* the errors calls fail with
          Results,   \* what calls answer that succeed
          Stack      \* bound: the nested calls that the stack holds

ErrorsAssumption == /\ Errnos \subseteq Nat \ {0} /\ Results \subseteq Nat
                    /\ Stack \in Nat

Returned(n) == [end |-> "returned", with |-> n]
Threw(err) == [end |-> "threw", with |-> err]
Overflow == [end |-> "stack overflow", with |-> 0]

-----------------------------------------------------------------------------
\* Mutant of ErrRet: -1 is taken for an errno as any other negative answer.
MutantErrRetNegates(err, errno) ==
    IF err >= 0 THEN Returned(err) ELSE Threw(-err)

\* errret_thrower of a number.
ErrRet(err, errno) == CASE err >= 0 -> Returned(err)
                        [] err = -1 -> Threw(errno)
                        [] OTHER -> Threw(-err)

\* errret_thrower of an error_code.
ErrRetCode(ec) == IF ec = 0 THEN Returned(0) ELSE Threw(ec)

\* posix_err_thrower of a number: everything but 0 is an error.
Pet(err) == IF err # 0 THEN Threw(err) ELSE Returned(err)

\* posix_err_thrower of an error_code: what it throws is another thrower, whose
\* constructor makes the same call first.
PetCode(ec) ==
    LET nested[left \in 0 .. Stack] ==
            IF ec = 0 THEN Returned(0)
            ELSE IF left = 0 THEN Overflow ELSE nested[left - 1]
    IN nested[Stack]

\* The answer of socket(2) goes through posix_err_thrower.
socket_nonblock(fd) == Pet(fd)

-----------------------------------------------------------------------------
(* What is asked: calls that succeed and calls that fail.                  *)

Convention == {"posix", "kernel", "status"}
Questions ==
    [about : {"call"}, by : Convention, ok : {TRUE}, value : Results]
    \cup [about : {"call"}, by : Convention, ok : {FALSE}, value : Errnos]

\* The answer of a call, and errno after it: errret_thrower's constructor has
\* set it to 0 before.
Answer(c) == CASE c.by = "status" -> IF c.ok THEN 0 ELSE c.value
               [] c.by = "posix" -> IF c.ok THEN c.value ELSE -1
               [] c.by = "kernel" -> IF c.ok THEN c.value ELSE -c.value

Errno(c) == IF ~c.ok /\ c.by = "posix" THEN c.value ELSE 0

-----------------------------------------------------------------------------
(* Properties.                                                             *)

\* errret_thrower serves two conventions at once: results come through, errors
\* are thrown, and under their own number but for the kernel's -EPERM.
ErrRetRight ==
    About("call") /\ question.by \in {"posix", "kernel"} =>
        LET end == ErrRet(Answer(question), Errno(question)) IN
        /\ question.ok => end = Returned(question.value)
        /\ ~question.ok => end.end = "threw"
        /\ ~question.ok /\ (question.by = "posix" \/ question.value # 1)
               => end = Threw(question.value)

\* posix_err_thrower throws every error of a status under its number, and lets
\* no failure pass of a call that answers by another convention.
PetRight ==
    About("call") =>
        LET end == Pet(Answer(question)) IN
        /\ question.by = "status" =>
               end = IF question.ok THEN Returned(0) ELSE Threw(question.value)
        /\ ~question.ok => end.end = "threw"

\* An error_code comes through errret_thrower exactly if it stands for success,
\* and posix_err_thrower returns from no other either.
CodesRight ==
    About("call") /\ question.by = "status" =>
        LET ec == Answer(question) IN
        /\ ErrRetCode(ec) = IF question.ok THEN Returned(0) ELSE Threw(ec)
        /\ PetCode(ec).end = "returned" <=> question.ok

\* No failure of a system call goes unnoticed, whichever thrower looks at it.
\* What socket_nonblock() returns is a socket, though not every socket.
ErrorsReported ==
    /\ ErrRetRight /\ PetRight /\ CodesRight
    /\ About("call") /\ question.by = "posix" =>
           LET end == socket_nonblock(Answer(question))
           IN end.end = "returned" => question.ok /\ end.with = question.value
=============================================================================
