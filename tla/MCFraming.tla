------------------------------ MODULE MCFraming ------------------------------
(* Framing with messages of every kind of length: empty, usual and too long. *)
EXTENDS Framing

SomeRequests == <<1, 0, 2>>
SomeAnswers  == <<2, 0, 3>>

=============================================================================
