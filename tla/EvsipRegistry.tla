---------------------------- MODULE EvsipRegistry ----------------------------
(***************************************************************************)
(* The registrar of evsip: evsip_register_handler with the list of end     *)
(* points it maintains (src/src/evsip_register.c, src/src/evsip_endp.c).   *)
(* nua delivers one event at a time to evsip_evsofia_main on the thread of *)
(* the root event loop, and the CLI runs on that thread too, so a handler  *)
(* is one step.  What is hard is the lifetime of the memory: the vector    *)
(* gpEndpList is allocated in the home of the end point that was added     *)
(* first, extracting an end point already destroys it, and no field of a   *)
(* request is checked before it is used.                                   *)
(*                                                                         *)
(* Memory.  An end point is carved out of memPage, which keeps the struct  *)
(* until the process ends; its home owns only its strings and, for one end *)
(* point, the vector.  So `home' is "none" before evsip_endp_create,       *)
(* "empty" while nothing was allocated in it, then "live", and "released"  *)
(* after su_home_unref.  An access C gives no meaning to sets `fault' and  *)
(* nothing is claimed, or happens, afterwards.                             *)
(*                                                                         *)
(* Two history variables say what a lack of memory did: `lost', the end    *)
(* points that evsip_endp_add could not put in the list, and `starved',    *)
(* whether a string could not be copied.                                   *)
(***************************************************************************)
EXTENDS Integers, SequencesExt

CONSTANTS
  Host,        \* host parts of Contact URLs
  User,        \* user parts of Contact URLs
  Endp,        \* end point objects, each allocated at most once (bound)
  NULL,        \* the null pointer, and an absent header or parameter
  Requests,    \* the REGISTER requests that may arrive
  AllocFault,  \* the allocations that may fail
  Word         \* 2^64 in the code: exptime is a uint64_t

Contact == [host : Host \cup {NULL}, user : User \cup {NULL}, expires : Int \cup {NULL}]

\* line: the packet has a request line; to: the To URL has a user and a host;
\* expires: the Expires header; contact.expires: atol of the Contact's parameter.
Request == [line : BOOLEAN, to : BOOLEAN, contact : Contact \cup {NULL},
            expires : 0..(Word - 1) \cup {NULL}]

ASSUME NullAssumption == NULL \notin Host \cup User \cup Endp \cup Int
ASSUME RequestsAssumption == Requests \subseteq Request
ASSUME AllocFaultAssumption == AllocFault \subseteq {"clone", "strdup", "vector", "append"}
ASSUME WordAssumption == Word \in Nat /\ Word > 300

VARIABLES
  info,        \* end point -> the strings of its struct
  home,        \* end point -> the state of its memory
  added,       \* end points with EVSIP_ENDP_FLAG_ADDED
  gpEndpList,  \* the items of the vector
  listHome,    \* the end point whose home holds the vector, NULL: no vector yet
  reply,       \* the responses to the last REGISTER
  lost, starved,
  fault        \* the undefined behaviour met, if any

history == <<lost, starved>>
endpVars == <<info, home, added, gpEndpList, listHome, history>>
vars == <<endpVars, reply, fault>>

Info == [host : Host \cup {NULL}, contact : User \cup {NULL}]
NoInfo == [host |-> NULL, contact |-> NULL]
Plain(codes) == [host |-> NULL, user |-> NULL, sent |-> codes, expires |-> 0]
NoReply == Plain(<<>>)
Reply == [host : Host \cup {NULL}, user : User \cup {NULL},
          sent : Seq({100, 200, 401, 500}), expires : Int]
Listed == ToSet(gpEndpList)

Init ==
  /\ info = [e \in Endp |-> NoInfo]
  /\ home = [e \in Endp |-> "none"]
  /\ added = {}
  /\ gpEndpList = <<>>
  /\ listHome = NULL
  /\ reply = NoReply
  /\ lost = {} /\ starved = FALSE
  /\ fault = "none"

-----------------------------------------------------------------------------
(* The fields of a request. *)

Complete(r) == r.line /\ r.to

\* The Expires header wins over the parameter; atol's long is stored in a
\* uint64_t, so a negative parameter becomes a huge duration.
ExpTime(r) ==
  IF r.expires # NULL THEN r.expires
  ELSE IF r.contact.expires # NULL THEN r.contact.expires % Word
  ELSE 300

\* The text of the answer's Expires: %ld prints the uint64_t as signed.
Printed(t) == IF t >= Word \div 2 THEN t - Word ELSE t

\* The 200 echoes the Contact of the request.
Answer(r, codes) ==
  reply' = [host |-> r.contact.host, user |-> r.contact.user, sent |-> codes,
            expires |-> Printed(ExpTime(r))]

-----------------------------------------------------------------------------
(* evsip_endp_findByIpv4: strcmp on every item up to the first match. *)

HostAt(i) == info[gpEndpList[i]].host
PassedOver(h, i) == \A j \in 1..(i - 1) : HostAt(j) # h
FoundAt(h, i) == /\ i \in DOMAIN gpEndpList
                 /\ HostAt(i) = h
                 /\ PassedOver(h, i)
\* Seeded bug: the search gives up after the first item.
Bug_NotFound(h) == \A i \in DOMAIN gpEndpList \cap {1} : HostAt(i) # h

NotFound(h) == \A i \in DOMAIN gpEndpList : HostAt(i) # h
LookupFaults(h) == \E i \in DOMAIN gpEndpList : PassedOver(h, i) /\ NULL \in {h, HostAt(i)}

Looked(r) ==
  /\ fault = "none"
  /\ Complete(r)
  /\ r.contact # NULL
  /\ ~LookupFaults(r.contact.host)

-----------------------------------------------------------------------------
(* Storing an end point: setHostIpv4, setContact, isAttached, add. *)

Strdup(s) == {s} \cup {NULL : k \in AllocFault \cap {"strdup"}}

\* Seeded bug: a refresh keeps the user it has.
Bug_SetInfo(e, c) ==
  \E h \in Strdup(c.host), u \in Strdup(c.user) :
     /\ info' = [info EXCEPT ![e] = [host |-> h, contact |-> IF @.contact = NULL THEN u ELSE @.contact]]
     /\ starved' = (starved \/ h # c.host \/ u # c.user)

SetInfo(e, c) ==
  \E h \in Strdup(c.host), u \in Strdup(c.user) :
     /\ info' = [info EXCEPT ![e] = [host |-> h, contact |-> u]]
     /\ starved' = (starved \/ h # c.host \/ u # c.user)

IsAttached(e) == e \in added /\ e \in Listed

\* Seeded bug: the vector is filled from the front.
Bug_Appended(e) ==
  /\ gpEndpList' = <<e>> \o gpEndpList
  /\ added' = added \cup {e}
  /\ UNCHANGED lost

\* Seeded bug: the flag is never set.
Bug_AppendedWithoutFlag(e) ==
  /\ gpEndpList' = Append(gpEndpList, e)
  /\ UNCHANGED <<added, lost>>

Appended(e) ==
  /\ gpEndpList' = Append(gpEndpList, e)
  /\ added' = added \cup {e}
  /\ UNCHANGED lost

\* Seeded bug: the flag is set before the append is known to work.
Bug_NotAppended(e) ==
  /\ added' = added \cup {e}
  /\ lost' = lost \cup {e}
  /\ UNCHANGED gpEndpList

NotAppended(e) ==
  /\ added' = added \ {e}
  /\ lost' = lost \cup {e}
  /\ UNCHANGED gpEndpList

\* The vector is created in the home of the end point at hand.
Add(e) ==
  \/ "vector" \in AllocFault /\ listHome = NULL /\ NotAppended(e) /\ UNCHANGED listHome
  \/ /\ Appended(e) \/ ("append" \in AllocFault /\ NotAppended(e))
     /\ listHome' = IF listHome = NULL THEN e ELSE listHome

\* The home becomes live with the first block allocated in it.
Store(e, c) ==
  /\ SetInfo(e, c)
  /\ IF IsAttached(e) THEN UNCHANGED <<added, gpEndpList, listHome, lost>> ELSE Add(e)
  /\ home' = [home EXCEPT ![e] =
       IF info'[e] # NoInfo \/ listHome' # listHome THEN "live"
       ELSE IF @ = "none" THEN "empty" ELSE @]

-----------------------------------------------------------------------------
(* evsip_register_handler, one action per path through it. *)

RegisterMalformed(r) ==
  /\ fault = "none" /\ ~r.line
  /\ reply' = Plain(<<500>>)
  /\ UNCHANGED <<endpVars, fault>>

RegisterIncomplete(r) ==
  /\ fault = "none" /\ r.line /\ ~r.to
  /\ reply' = Plain(<<401>>)
  /\ UNCHANGED <<endpVars, fault>>

\* sip_contact is guarded where the host is read, not where the user is logged.
RegisterWithoutContact(r) ==
  /\ fault = "none" /\ Complete(r) /\ r.contact = NULL
  /\ reply' = Plain(<<100>>)
  /\ fault' = "null_deref"
  /\ UNCHANGED endpVars

\* strcmp with a null argument: of this Contact, or of a listed end point.
RegisterLookupFaults(r) ==
  /\ fault = "none" /\ Complete(r) /\ r.contact # NULL
  /\ LookupFaults(r.contact.host)
  /\ reply' = Plain(<<100>>)
  /\ fault' = "null_deref"
  /\ UNCHANGED endpVars

\* Seeded bug: the result of evsip_endp_create is not looked at.
Bug_RegisterCreateFails(r) ==
  /\ Looked(r) /\ NotFound(r.contact.host) /\ ExpTime(r) > 0
  /\ "clone" \in AllocFault
  /\ Answer(r, <<100, 200>>)
  /\ UNCHANGED <<endpVars, fault>>

RegisterCreateFails(r) ==
  /\ Looked(r) /\ NotFound(r.contact.host) /\ ExpTime(r) > 0
  /\ "clone" \in AllocFault
  /\ reply' = Plain(<<100, 500>>)
  /\ UNCHANGED <<endpVars, fault>>

\* Seeded bug: the block of a destroyed end point is taken again.
Bug_RegisterNewRecycles(r, e) ==
  /\ Looked(r) /\ NotFound(r.contact.host) /\ ExpTime(r) > 0
  /\ home[e] \in {"none", "released"}
  /\ Store(e, r.contact)
  /\ Answer(r, <<100, 200>>)
  /\ UNCHANGED fault

RegisterNew(r, e) ==
  /\ Looked(r) /\ NotFound(r.contact.host) /\ ExpTime(r) > 0
  /\ home[e] = "none"
  /\ Store(e, r.contact)
  /\ Answer(r, <<100, 200>>)
  /\ UNCHANGED fault

RegisterRefresh(r, i) ==
  /\ Looked(r) /\ FoundAt(r.contact.host, i) /\ ExpTime(r) > 0
  /\ Store(gpEndpList[i], r.contact)
  /\ Answer(r, <<100, 200>>)
  /\ UNCHANGED fault

\* su_home_unref: strings and vector go, the struct stays.
Unref(e) == home' = [home EXCEPT ![e] = IF @ = "live" THEN "released" ELSE @]

\* Seeded bug: destroyed, but left in the vector.
Bug_RemoveWithoutExtract(r, i) ==
  /\ Looked(r) /\ FoundAt(r.contact.host, i) /\ ExpTime(r) = 0
  /\ gpEndpList[i] # listHome
  /\ Unref(gpEndpList[i])
  /\ Answer(r, <<100, 200>>)
  /\ UNCHANGED <<info, added, gpEndpList, listHome, history, fault>>

\* Seeded bug: extracted, but never destroyed.
Bug_RemoveWithoutDestroy(r, i) ==
  /\ Looked(r) /\ FoundAt(r.contact.host, i) /\ ExpTime(r) = 0
  /\ gpEndpList[i] # listHome
  /\ gpEndpList' = RemoveAt(gpEndpList, i)
  /\ added' = added \ {gpEndpList[i]}
  /\ Answer(r, <<100, 200>>)
  /\ UNCHANGED <<info, home, listHome, history, fault>>

\* su_vector_remove runs evsip_endp_destroy on the item and then shifts the
\* rest; evsip_register_handler destroys it again, which finds an empty home.
RegisterRemove(r, i) ==
  /\ Looked(r) /\ FoundAt(r.contact.host, i) /\ ExpTime(r) = 0
  /\ LET e == gpEndpList[i] IN
     /\ e # listHome
     /\ Unref(e)
     /\ gpEndpList' = IF e \in added THEN RemoveAt(gpEndpList, i) ELSE gpEndpList
     /\ added' = added \ {e}
  /\ Answer(r, <<100, 200>>)
  /\ UNCHANGED <<info, listHome, history, fault>>

\* The same for the end point whose home holds the vector: the destructor
\* frees the vector that su_vector_remove is about to shift.
RegisterRemoveOwner(r, i) ==
  /\ Looked(r) /\ FoundAt(r.contact.host, i) /\ ExpTime(r) = 0
  /\ gpEndpList[i] = listHome
  /\ Unref(listHome)
  /\ fault' = "use_after_free"
  /\ reply' = Plain(<<100>>)
  /\ UNCHANGED <<info, added, gpEndpList, listHome, history>>

\* Seeded bug: an unknown host is answered 404.
Bug_RemoveUnknown(r) ==
  /\ Looked(r) /\ NotFound(r.contact.host) /\ ExpTime(r) = 0
  /\ Answer(r, <<100, 404>>)
  /\ UNCHANGED <<endpVars, fault>>

RegisterRemoveUnknown(r) ==
  /\ Looked(r) /\ NotFound(r.contact.host) /\ ExpTime(r) = 0
  /\ Answer(r, <<100, 200>>)
  /\ UNCHANGED <<endpVars, fault>>

Register(r) ==
  \/ RegisterMalformed(r)
  \/ RegisterIncomplete(r)
  \/ RegisterWithoutContact(r)
  \/ RegisterLookupFaults(r)
  \/ RegisterCreateFails(r)
  \/ \E e \in Endp : RegisterNew(r, e)
  \/ \E i \in DOMAIN gpEndpList :
        RegisterRefresh(r, i) \/ RegisterRemove(r, i) \/ RegisterRemoveOwner(r, i)
  \/ RegisterRemoveUnknown(r)

\* What evsip_endp_dumpList reads: the vector and the strings of every item.
ListGone ==
  \/ listHome # NULL /\ home[listHome] = "released"
  \/ \E e \in Listed : home[e] = "released"

DumpList == fault' = IF ListGone THEN "use_after_free" ELSE fault

\* evsip_invite_handler prints the list and sends nothing.
Invite ==
  /\ fault = "none"
  /\ reply' = NoReply
  /\ DumpList
  /\ UNCHANGED endpVars

Next == Invite \/ \E r \in Requests : Register(r)

Spec == Init /\ [][Next]_vars

-----------------------------------------------------------------------------
(* Properties. *)

Running == fault = "none"

\* Every variable has the shape the C declarations give it.
TypeOK ==
  /\ info \in [Endp -> Info]
  /\ home \in [Endp -> {"none", "empty", "live", "released"}]
  /\ added \subseteq Endp
  /\ gpEndpList \in Seq(Endp)
  /\ listHome \in Endp \cup {NULL}
  /\ reply \in Reply
  /\ lost \subseteq Endp /\ starved \in BOOLEAN
  /\ fault \in {"none", "null_deref", "use_after_free"}

\* EVSIP_ENDP_FLAG_ADDED and the vector agree, so that evsip_endp_isAttached
\* never has to repair the flag and evsip_endp_extract finds what it removes.
FlagMatchesList == added = Listed /\ IsInjective(gpEndpList)

\* Two listed end points never have the same host: evsip_endp_findByIpv4
\* returns the only one there is.
HostsUnique ==
  \A i, j \in DOMAIN gpEndpList : HostAt(i) = HostAt(j) /\ HostAt(i) # NULL => i = j

\* Whatever findByIpv4 and dumpList touch can still be read as long as the
\* server runs: no end point that evsip_endp_destroy released stays in the
\* vector, and the memory of the vector itself has not been given back with the
\* home of the end point it was created in.
ListedReadable ==
  Running =>
    /\ \A e \in Listed : home[e] \notin {"none", "released"}
    /\ listHome # NULL => home[listHome] = "live"

\* The vector lives in the home of the oldest end point in the list, which
\* is why deregistering the oldest one is the only deregistration that
\* breaks; or in one that could not be listed, and then it is there for good.
OwnerIsOldest ==
  Running /\ listHome # NULL => listHome \in lost \/ (gpEndpList # <<>> /\ listHome = gpEndpList[1])

\* No end point is forgotten: one that was created and not released is in the
\* list, unless evsip_endp_add could not put it there, and then it never is.
NoOrphan ==
  Running => /\ \A e \in Endp : home[e] \in {"empty", "live"} => e \in Listed \cup lost
             /\ lost \cap Listed = {}

\* The handler answers 200 even when evsip_endp_add failed: a host that was
\* promised a duration is then in no list, but an end point was made for it.
AnsweredIsStored ==
  Running /\ ~starved /\ reply.sent = <<100, 200>> /\ reply.expires # 0 =>
    \E e \in Listed \cup lost : info[e] = [host |-> reply.host, contact |-> reply.user]

\* A released end point is never written, listed or allocated in again,
\* although memPage keeps its struct and evsip_endp_destroy runs on it twice.
ReleasedForGood ==
  [][\A e \in Endp : home[e] = "released" =>
        /\ info'[e] = info[e] /\ home'[e] = "released"
        /\ e \in ToSet(gpEndpList') => e \in Listed]_vars

-----------------------------------------------------------------------------
(* The registrar implements the location service. *)

\* The map of hosts to users that end points with these strings make up.
Bindings(strings, endps) ==
  [h \in {strings[e].host : e \in endps} |->
     strings[CHOOSE e \in endps : strings[e].host = h].contact]

\* Until the first lack of memory for a string, the vector or an append.
Serving == Running /\ lost = {} /\ ~starved

Bound == Bindings(info, IF Serving THEN Listed ELSE {})

FinalAnswer ==
  IF Serving /\ reply.sent # <<>>
  THEN [code |-> Last(reply.sent), host |-> reply.host, user |-> reply.user,
        expires |-> reply.expires]
  ELSE [code |-> 0, host |-> NULL, user |-> NULL, expires |-> 0]

Registrar == INSTANCE LocationService WITH
  binding <- Bound, answer <- FinalAnswer, dead <- ~Serving

\* Seen through the final answers and the list, the handler is a location
\* service: an answer other than 200 changes no binding, a 200 changes the one
\* of the host it echoes, to what its Contact and Expires say.
ImplementsLocationService == Registrar!Spec
=============================================================================
