------------------------------ MODULE SipServer ------------------------------
(***************************************************************************)
(* What the evsip process promises as a server: it starts, and either      *)
(* fails or serves; only while it serves does it answer and change         *)
(* bindings, and then as a location service does; it stops with the        *)
(* bindings and the answer it last gave.  It may die while it starts,      *)
(* while it takes back a failed start and at a request, but not between    *)
(* the requests and not once it has stopped.                               *)
(***************************************************************************)
CONSTANTS Host, User, NULL

VARIABLES phase, binding, answer

vars == <<phase, binding, answer>>

Location == INSTANCE LocationService WITH dead <- phase = "dead"

Init == phase = "starting" /\ Location!Init

Ready ==
  /\ phase = "starting" /\ phase' = "serving"
  /\ UNCHANGED <<binding, answer>>

GiveUp ==
  /\ phase = "starting" /\ phase' = "failed"
  /\ UNCHANGED <<binding, answer>>

\* Location!Next says when the request is the last one.
Serve ==
  /\ phase = "serving" /\ phase' \in {"serving", "dead"}
  /\ Location!Next

Stop ==
  /\ phase = "serving" /\ phase' = "stopped"
  /\ UNCHANGED <<binding, answer>>

Die ==
  /\ phase \in {"starting", "failed"} /\ phase' = "dead"
  /\ UNCHANGED <<binding, answer>>

Next == Ready \/ GiveUp \/ Serve \/ Stop \/ Die

\* A start comes to an end.
Spec == Init /\ [][Next]_vars /\ WF_vars(Ready \/ GiveUp)
=============================================================================
