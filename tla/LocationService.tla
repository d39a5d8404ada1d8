-------------------------- MODULE LocationService --------------------------
(***************************************************************************)
(* What evsip promises as a SIP registrar: a partial map from contact host *)
(* to contact user, and the final answer given to the last REGISTER.  A    *)
(* 200 OK is the only answer that may change the map, it may change it at  *)
(* the host of the Contact it echoes only, and its Expires tells whether   *)
(* that host is bound afterwards, to the user it echoes.  The service may  *)
(* die at any REGISTER; it then has no bindings, answers and changes       *)
(* nothing any more.                                                       *)
(*                                                                         *)
(* A REGISTER whose Contact has no host is bound under the key NULL, and   *)
(* only as the first binding: from then on no host can be looked up.       *)
(***************************************************************************)
EXTENDS Integers, Functions

CONSTANTS Host, User, NULL

VARIABLES binding, answer, dead

vars == <<binding, answer, dead>>

HostKey == Host \cup {NULL}
UserName == User \cup {NULL}
NoAnswer == [code |-> 0, host |-> NULL, user |-> NULL, expires |-> 0]

Init ==
  /\ binding = [h \in {} |-> NULL]
  /\ answer = NoAnswer
  /\ dead = FALSE

\* The binding of h can be looked up among the present ones.
Searchable(h) == IF h = NULL THEN DOMAIN binding = {} ELSE NULL \notin DOMAIN binding

Bind(h, u) ==
  /\ ~dead
  /\ Searchable(h)
  /\ binding' = [k \in DOMAIN binding \cup {h} |-> IF k = h THEN u ELSE binding[k]]
  /\ answer'.expires \in Int \ {0}
  /\ answer' = [code |-> 200, host |-> h, user |-> u, expires |-> answer'.expires]
  /\ UNCHANGED dead

\* Removing a binding that is not there succeeds as well.
Unbind(h) ==
  /\ ~dead
  /\ Searchable(h)
  /\ binding' = Restrict(binding, DOMAIN binding \ {h})
  /\ \E u \in UserName : answer' = [code |-> 200, host |-> h, user |-> u, expires |-> 0]
  /\ UNCHANGED dead

Refuse(code) ==
  /\ ~dead
  /\ answer' = [NoAnswer EXCEPT !.code = code]
  /\ UNCHANGED <<binding, dead>>

\* A request that is not a REGISTER.
Ignore ==
  /\ ~dead
  /\ answer' = NoAnswer
  /\ UNCHANGED <<binding, dead>>

Die ==
  /\ dead' = TRUE
  /\ answer' = NoAnswer
  /\ binding' = [h \in {} |-> NULL]

Next ==
  \/ \E h \in HostKey : Unbind(h) \/ \E u \in UserName : Bind(h, u)
  \/ \E code \in {401, 500} : Refuse(code)
  \/ Ignore
  \/ Die

Spec == Init /\ [][Next]_vars
=============================================================================
