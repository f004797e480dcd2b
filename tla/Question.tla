------------------------------ MODULE Question ------------------------------
(* A part of the library that is functions of values is checked by putting  *)
(* one question after the other about them.                                 *)
VARIABLE question

Nothing == [about |-> "nothing"]
About(topic) == question.about = topic

Init == question = Nothing
Ask(questions) == question = Nothing /\ question' \in questions
Answered == question # Nothing /\ question' = Nothing
=============================================================================
