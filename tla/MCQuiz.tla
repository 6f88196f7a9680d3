------------------------------ MODULE MCQuiz -------------------------------
(* Instance of Quiz for TLC.                                               *)
EXTENDS Quiz
=============================================================================
