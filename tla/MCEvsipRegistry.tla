--------------------------- MODULE MCEvsipRegistry ---------------------------
(* Small instances of EvsipRegistry for TLC. *)
EXTENDS EvsipRegistry, TLC

\* Header and parameter, each absent, zero, ordinary; the parameter negative.
MCExpires == {<<NULL, NULL>>, <<300, NULL>>, <<0, NULL>>, <<0, 60>>, <<60, 0>>,
              <<NULL, 0>>, <<NULL, 60>>, <<NULL, -1>>}

MCContacts == [host : Host \cup {NULL}, user : User \cup {NULL}]

MCComplete ==
  { [line |-> TRUE, to |-> TRUE, expires |-> x[1],
     contact |-> [host |-> c.host, user |-> c.user, expires |-> x[2]]] :
    c \in MCContacts, x \in MCExpires }

MCBroken ==
  { [line |-> l, to |-> t, expires |-> NULL, contact |-> NULL] : l \in BOOLEAN, t \in BOOLEAN }

MCRequests == MCComplete \cup MCBroken

\* Requests any user agent sends: a Contact with a host and a user.
MCOrdinary == { r \in MCComplete : NULL \notin {r.contact.host, r.contact.user} }

MCSymmetry == Permutations(Endp) \cup Permutations(Host)

\* Every complete REGISTER gets its final response: README.md:11 "the Server
\* can handle REGISTER requests, and send a 200Ok response".
EveryRegisterAnswered == reply.sent # <<>> => Last(reply.sent) \in {200, 401, 500}

\* The list of end points is global: evsip_endp.c:51 "Global cached end
\* point".  Its memory is not given back when one end point is destroyed.
GlobalListOutlivesEndpoints == listHome # NULL => home[listHome] # "released"
=============================================================================
