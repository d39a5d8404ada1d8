------------------------------- MODULE MCEvsip -------------------------------
(* A small instance of Evsip for TLC. *)
EXTENDS Evsip

CONSTANTS h1, h2, u1

\* Two hosts register, one of them goes again: the owner of the list or not.
MCRegister(h, x) ==
  [line |-> TRUE, to |-> TRUE, expires |-> x, contact |-> [host |-> h, user |-> u1, expires |-> NULL]]

MCRequests == {MCRegister(h1, 60), MCRegister(h2, 60), MCRegister(h2, 0)}
=============================================================================
