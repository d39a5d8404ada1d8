------------------------- MODULE EvsipRegistryProofs -------------------------
(***************************************************************************)
(* Proofs about EvsipRegistry, for every set of hosts, users, end points   *)
(* and requests and whichever allocations may fail.                        *)
(***************************************************************************)
EXTENDS EvsipRegistry, ListLemmas

-----------------------------------------------------------------------------
(* Lemmas about the operators of the model. *)

\* The duration of a REGISTER with a Contact is a uint64_t and prints as an integer.
LEMMA ExpTimeType ==
  ASSUME NEW r \in Requests, r.contact # NULL
  PROVE  ExpTime(r) \in 0..(Word - 1) /\ Printed(ExpTime(r)) \in Int
<1>1. r.expires \in 0..(Word - 1) \cup {NULL} /\ r.contact \in Contact
  BY RequestsAssumption DEF Request
<1>2. r.contact.expires \in Int \cup {NULL}
  BY <1>1 DEF Contact
<1>3. ExpTime(r) \in 0..(Word - 1)
  BY <1>1, <1>2, WordAssumption DEF ExpTime
<1> QED
  BY <1>3, WordAssumption DEF Printed

LEMMA AnswerType ==
  ASSUME NEW r \in Requests, r.contact # NULL, Answer(r, <<100, 200>>)
  PROVE  reply' \in Reply
<1>1. r.contact \in Contact
  BY RequestsAssumption DEF Request
<1>2. r.contact.host \in Host \cup {NULL} /\ r.contact.user \in User \cup {NULL}
  BY <1>1 DEF Contact
<1>3. Printed(ExpTime(r)) \in Int
  BY ExpTimeType
<1>4. <<100, 200>> \in Seq({100, 200, 401, 500})
  OBVIOUS
<1> QED
  BY <1>2, <1>3, <1>4 DEF Answer, Reply

-----------------------------------------------------------------------------
(* The inductive invariant. *)

\* Only while nothing is listed there is no vector; it lives in the home of the
\* oldest end point or of one that is lost.
OwnerOK ==
  /\ listHome = NULL => gpEndpList = <<>>
  /\ listHome # NULL => listHome \in lost \/ (gpEndpList # <<>> /\ listHome = gpEndpList[1])

\* Where the end points are that were created and not released; a home in which
\* nothing was allocated is one of an end point without strings.
Kept ==
  /\ \A e \in Endp : home[e] \in {"empty", "live"} => e \in Listed \cup lost
  /\ \A e \in lost : home[e] \in {"empty", "live"} /\ e \notin Listed
  /\ \A e \in Endp : home[e] = "empty" => info[e] = NoInfo

\* The part of the invariant about end points and list, on a running server.
EndpOK ==
  /\ info \in [Endp -> Info]
  /\ home \in [Endp -> {"none", "empty", "live", "released"}]
  /\ added \subseteq Endp
  /\ gpEndpList \in Seq(Endp)
  /\ listHome \in Endp \cup {NULL}
  /\ lost \subseteq Endp /\ starved \in BOOLEAN
  /\ FlagMatchesList
  /\ HostsUnique
  /\ \A e \in Listed : home[e] \notin {"none", "released"}
  /\ listHome # NULL => home[listHome] = "live"
  /\ OwnerOK
  /\ Kept

IInv ==
  /\ TypeOK
  /\ FlagMatchesList
  /\ HostsUnique
  /\ ListedReadable
  /\ Running => OwnerOK /\ Kept

LEMMA EndpOKFromIInv == IInv /\ Running => EndpOK
  BY DEF IInv, EndpOK, TypeOK, ListedReadable, Running

\* A step that changes no end point keeps what is known of them.
LEMMA EndpUnchanged == EndpOK /\ UNCHANGED endpVars => EndpOK'
<1> SUFFICES ASSUME EndpOK, UNCHANGED endpVars PROVE EndpOK'
  OBVIOUS
<1>1. UNCHANGED <<info, home, added, gpEndpList, listHome, lost, starved>>
  BY DEF endpVars, history
<1>2. Listed' = Listed
  BY <1>1 DEF Listed
<1>3. FlagMatchesList' /\ HostsUnique'
  BY <1>1, <1>2 DEF EndpOK, FlagMatchesList, HostsUnique, HostAt
<1>4. OwnerOK' /\ Kept'
  BY <1>1, <1>2 DEF EndpOK, OwnerOK, Kept
<1> QED
  BY <1>1, <1>2, <1>3, <1>4 DEF EndpOK

\* evsip_endp_setHostIpv4 and setContact write a string or, without memory, NULL.
LEMMA SetInfoResult ==
  ASSUME NEW r \in Requests, r.contact # NULL, NEW e \in Endp, info \in [Endp -> Info],
         SetInfo(e, r.contact)
  PROVE  /\ info' \in [Endp -> Info]
         /\ info'[e].host \in {r.contact.host, NULL}
         /\ \A d \in Endp \ {e} : info'[d] = info[d]
         /\ starved \in BOOLEAN => starved' \in BOOLEAN
         /\ ~starved' => info'[e] = [host |-> r.contact.host, contact |-> r.contact.user]
<1>1. r.contact \in Contact
  BY RequestsAssumption DEF Request
<1>2. r.contact.host \in Host \cup {NULL} /\ r.contact.user \in User \cup {NULL}
  BY <1>1 DEF Contact
<1>3. PICK h \in {r.contact.host, NULL}, u \in {r.contact.user, NULL} :
        /\ info' = [info EXCEPT ![e] = [host |-> h, contact |-> u]]
        /\ starved' = (starved \/ h # r.contact.host \/ u # r.contact.user)
  BY DEF SetInfo, Strdup
<1> QED
  BY <1>2, <1>3 DEF Info

\* Adding an end point that is new to a list that does not know its host.
LEMMA StoreNew ==
  ASSUME EndpOK, NEW r \in Requests, r.contact # NULL, NEW e \in Endp,
         home[e] = "none", NotFound(r.contact.host), Store(e, r.contact)
  PROVE  EndpOK' /\ e \in Listed' \cup lost'
<1>1. /\ info' \in [Endp -> Info]
      /\ info'[e].host \in {r.contact.host, NULL}
      /\ \A d \in Endp \ {e} : info'[d] = info[d]
      /\ starved' \in BOOLEAN
  BY SetInfoResult DEF Store, EndpOK
<1>2. e \notin Listed /\ e \notin added /\ listHome # e /\ e \notin lost
  BY NullAssumption DEF EndpOK, FlagMatchesList, Kept
<1>3. Add(e)
  BY <1>2 DEF Store, IsAttached
<1>4. home' = [home EXCEPT ![e] = IF info'[e] # NoInfo \/ listHome' # listHome THEN "live"
                                  ELSE IF @ = "none" THEN "empty" ELSE @]
  BY DEF Store
<1>5. /\ home' \in [Endp -> {"none", "empty", "live", "released"}]
      /\ home'[e] \in {"empty", "live"} /\ (home'[e] = "empty" => info'[e] = NoInfo)
      /\ \A d \in Endp \ {e} : home'[d] = home[d]
  BY <1>4 DEF EndpOK
<1>6. listHome' = listHome \/ (listHome = NULL /\ listHome' = e)
  BY <1>3 DEF Add
<1>7. listHome' \in Endp \cup {NULL} /\ (listHome' # NULL => home'[listHome'] = "live")
  BY <1>2, <1>4, <1>5, <1>6 DEF EndpOK
<1>8. NotAppended(e) \/ (Appended(e) /\ listHome' = IF listHome = NULL THEN e ELSE listHome)
  BY <1>3 DEF Add
<1>9. CASE NotAppended(e)
  <2>1. gpEndpList' = gpEndpList /\ lost' = lost \cup {e} /\ added' = added
    BY <1>2, <1>9 DEF NotAppended
  <2>2. Listed' = Listed
    BY <2>1 DEF Listed
  <2>3. \A i \in DOMAIN gpEndpList : gpEndpList[i] \in Endp \ {e}
    BY <1>2 DEF EndpOK, Listed, ToSet
  <2>4. HostsUnique'
    BY <1>1, <2>1, <2>3 DEF EndpOK, HostsUnique, HostAt
  <2>5. FlagMatchesList'
    BY <2>1, <2>2 DEF EndpOK, FlagMatchesList
  <2>6. \A d \in Listed' : home'[d] \notin {"none", "released"}
    BY <1>2, <1>5, <2>2 DEF EndpOK, FlagMatchesList
  <2>7. OwnerOK'
    BY <1>6, <2>1, NullAssumption DEF EndpOK, OwnerOK
  <2>8. Kept'
    BY <1>1, <1>2, <1>5, <2>1, <2>2 DEF EndpOK, Kept
  <2>9. added' \subseteq Endp /\ gpEndpList' \in Seq(Endp) /\ lost' \subseteq Endp
    BY <2>1 DEF EndpOK
  <2> QED
    BY <1>1, <1>5, <1>7, <2>1, <2>4, <2>5, <2>6, <2>7, <2>8, <2>9 DEF EndpOK
<1>10. CASE Appended(e) /\ listHome' = IF listHome = NULL THEN e ELSE listHome
  <2>1. gpEndpList \in Seq(Endp)
    BY DEF EndpOK
  <2> DEFINE n == Len(gpEndpList)
  <2>2. /\ gpEndpList' \in Seq(Endp)
        /\ n \in Nat
        /\ DOMAIN gpEndpList' = 1..(n + 1)
        /\ DOMAIN gpEndpList = 1..n
        /\ \A i \in 1..n : gpEndpList'[i] = gpEndpList[i]
        /\ gpEndpList'[n + 1] = e
    BY <1>10, <2>1 DEF Appended
  <2>3. \A i \in 1..n : gpEndpList[i] \in Endp \ {e}
    BY <1>2, <2>1, <2>2 DEF Listed, ToSet
  <2>a. gpEndpList' # <<>> /\ (gpEndpList # <<>> => gpEndpList'[1] = gpEndpList[1])
        /\ (gpEndpList = <<>> => gpEndpList'[1] = e)
    BY <2>1, <2>2
  <2> HIDE DEF n
  <2>4. Listed' = Listed \cup {e}
    BY <2>2 DEF Listed, ToSet
  <2>5. IsInjective(gpEndpList')
    BY <2>2, <2>3 DEF EndpOK, FlagMatchesList, IsInjective
  <2>b. added' = added \cup {e} /\ lost' = lost
    BY <1>10 DEF Appended
  <2>6. FlagMatchesList'
    BY <2>4, <2>5, <2>b DEF EndpOK, FlagMatchesList
  <2>7. \A i \in 1..n : info[gpEndpList[i]].host # r.contact.host
    BY <2>2 DEF NotFound, HostAt
  <2>8. \A i \in 1..n : info'[gpEndpList'[i]].host = info[gpEndpList[i]].host
    BY <1>1, <2>2, <2>3
  <2>9. info'[gpEndpList'[n + 1]].host \in {r.contact.host, NULL}
    BY <1>1, <2>2
  <2>10. HostsUnique'
    <3> SUFFICES ASSUME NEW i \in 1..(n + 1), NEW j \in 1..(n + 1),
                        info'[gpEndpList'[i]].host = info'[gpEndpList'[j]].host,
                        info'[gpEndpList'[i]].host # NULL
                 PROVE  i = j
      BY <2>2 DEF HostsUnique, HostAt
    <3>1. CASE i \in 1..n /\ j \in 1..n
      BY <2>2, <2>8, <3>1 DEF EndpOK, HostsUnique, HostAt
    <3>2. CASE i = n + 1 /\ j \in 1..n
      BY <2>7, <2>8, <2>9, <3>2
    <3>3. CASE i \in 1..n /\ j = n + 1
      BY <2>7, <2>8, <2>9, <3>3
    <3> QED
      BY <2>2, <3>1, <3>2, <3>3
  <2>11. \A d \in Listed' : home'[d] \notin {"none", "released"}
    BY <1>5, <2>4 DEF EndpOK, FlagMatchesList
  <2>12. OwnerOK'
    BY <1>10, <2>a, <2>b, NullAssumption DEF EndpOK, OwnerOK
  <2>13. Kept'
    BY <1>1, <1>2, <1>5, <2>4, <2>b DEF EndpOK, Kept
  <2>14. added' \subseteq Endp /\ lost' \subseteq Endp
    BY <2>b DEF EndpOK
  <2> QED
    BY <1>1, <1>5, <1>7, <2>2, <2>4, <2>6, <2>10, <2>11, <2>12, <2>13, <2>14 DEF EndpOK
<1> QED
  BY <1>8, <1>9, <1>10

\* A refresh finds its end point attached, and keeps list and vector.
LEMMA StoreFound ==
  ASSUME EndpOK, NEW r \in Requests, r.contact # NULL, NEW i \in DOMAIN gpEndpList,
         FoundAt(r.contact.host, i), Store(gpEndpList[i], r.contact)
  PROVE  EndpOK' /\ gpEndpList[i] \in Listed'
<1> DEFINE e == gpEndpList[i]
<1>1. e \in Endp /\ e \in Listed /\ e \in added /\ home[e] \notin {"none", "released"}
  BY DEF EndpOK, FlagMatchesList, Listed, ToSet
<1>2. /\ info' \in [Endp -> Info]
      /\ info'[e].host \in {r.contact.host, NULL}
      /\ \A d \in Endp \ {e} : info'[d] = info[d]
      /\ starved' \in BOOLEAN
  BY <1>1, SetInfoResult DEF Store, EndpOK
<1>3. UNCHANGED <<added, gpEndpList, listHome, lost>>
  BY <1>1 DEF Store, IsAttached
<1>4. home' = [home EXCEPT ![e] = IF info'[e] # NoInfo \/ listHome' # listHome THEN "live"
                                  ELSE IF @ = "none" THEN "empty" ELSE @]
  BY DEF Store
<1>5. /\ home' \in [Endp -> {"none", "empty", "live", "released"}]
      /\ home'[e] \in {"live", home[e]} /\ (home'[e] = "empty" => info'[e] = NoInfo)
      /\ \A d \in Endp \ {e} : home'[d] = home[d]
  BY <1>1, <1>4 DEF EndpOK
<1>6. Listed' = Listed
  BY <1>3 DEF Listed
<1>7. \A j \in DOMAIN gpEndpList : gpEndpList[j] \in Endp
  BY DEF EndpOK
<1>8. info[e].host = r.contact.host
  BY DEF FoundAt, HostAt
<1> HIDE DEF e
<1>9. \A j \in DOMAIN gpEndpList : info'[gpEndpList[j]].host \in {info[gpEndpList[j]].host, NULL}
  BY <1>2, <1>7, <1>8
<1>10. HostsUnique'
  BY <1>3, <1>9 DEF EndpOK, HostsUnique, HostAt
<1>11. FlagMatchesList'
  BY <1>3, <1>6 DEF EndpOK, FlagMatchesList
<1>12. \A d \in Listed' : home'[d] \notin {"none", "released"}
  BY <1>1, <1>5, <1>6 DEF EndpOK, FlagMatchesList
<1>13. listHome' # NULL => home'[listHome'] = "live"
  BY <1>3, <1>5 DEF EndpOK
<1>14. OwnerOK'
  BY <1>3 DEF EndpOK, OwnerOK
<1>15. Kept'
  BY <1>1, <1>2, <1>3, <1>5, <1>6 DEF EndpOK, Kept
<1>16. /\ added' \subseteq Endp /\ gpEndpList' \in Seq(Endp) /\ lost' \subseteq Endp
       /\ listHome' \in Endp \cup {NULL}
  BY <1>3 DEF EndpOK
<1>17. EndpOK'
  BY <1>2, <1>5, <1>10, <1>11, <1>12, <1>13, <1>14, <1>15, <1>16 DEF EndpOK
<1> QED
  BY <1>1, <1>6, <1>17 DEF e

\* Extracting and destroying an end point that does not own the vector.
LEMMA RemoveListed ==
  ASSUME EndpOK, NEW i \in DOMAIN gpEndpList, gpEndpList[i] # listHome, HostAt(i) # NULL,
         Unref(gpEndpList[i]), gpEndpList' = RemoveAt(gpEndpList, i),
         added' = added \ {gpEndpList[i]}, UNCHANGED <<info, listHome, lost, starved>>
  PROVE  EndpOK'
<1> DEFINE e == gpEndpList[i]
           n == Len(gpEndpList)
<1>1. gpEndpList \in Seq(Endp) /\ n \in Nat /\ DOMAIN gpEndpList = 1..n /\ i \in 1..n
  <2>1. gpEndpList \in Seq(Endp)
    BY DEF EndpOK
  <2> QED
    BY <2>1
<1> DEFINE r == RemoveAt(gpEndpList, i)
<1>r. r \in Seq(Endp) /\ Len(r) = n - 1
  BY <1>1, RemoveAtShifts, Zenon
<1>s. \A j \in 1..(n - 1) : r[j] = IF j < i THEN gpEndpList[j] ELSE gpEndpList[j + 1]
  BY <1>1, RemoveAtShifts
<1>2. gpEndpList' = r
  OBVIOUS
<1> HIDE DEF r
<1>p. gpEndpList' \in Seq(Endp) /\ DOMAIN gpEndpList' = 1..(n - 1)
  BY <1>r, <1>2
<1>q. ASSUME NEW j \in 1..(n - 1)
      PROVE  gpEndpList'[j] = IF j < i THEN gpEndpList[j] ELSE gpEndpList[j + 1]
  BY <1>s, <1>2
<1>c. IsInjective(gpEndpList) /\ i \in 1..Len(gpEndpList)
  BY <1>1 DEF EndpOK, FlagMatchesList
<1>3. \A j, k \in 1..n : gpEndpList[j] = gpEndpList[k] => j = k
  BY <1>1, <1>c DEF IsInjective
<1>4. e \in Endp /\ e \in Listed /\ added = Listed
  BY <1>1 DEF EndpOK, FlagMatchesList, Listed, ToSet
<1>5. Listed = {gpEndpList[j] : j \in 1..n} /\ Listed' = {gpEndpList'[j] : j \in 1..(n - 1)}
  BY <1>1, <1>p, <1>q DEF Listed, ToSet
<1>6. /\ home' \in [Endp -> {"none", "empty", "live", "released"}]
      /\ \A d \in Endp \ {e} : home'[d] = home[d]
  BY <1>4 DEF EndpOK, Unref
<1>7. \A j \in 1..n : gpEndpList[j] \in Endp
  BY <1>1
<1> HIDE DEF n
<1>8. Listed' = Listed \ {e}
  BY <1>1, <1>c, RemoveAtTakesOne DEF Listed, e
<1> DEFINE old(j) == IF j < i THEN j ELSE j + 1
<1>a. ASSUME NEW j \in 1..(n - 1)
      PROVE  old(j) \in 1..n /\ gpEndpList'[j] = gpEndpList[old(j)]
  BY <1>1, <1>p, <1>q
<1>b. ASSUME NEW j \in 1..(n - 1), NEW k \in 1..(n - 1), old(j) = old(k) PROVE j = k
  BY <1>1, <1>b
<1> HIDE DEF old
<1>9. IsInjective(gpEndpList')
  BY <1>p, <1>q, <1>3, <1>a, <1>b DEF IsInjective
<1>10. FlagMatchesList'
  BY <1>4, <1>8, <1>9 DEF FlagMatchesList
<1>11. HostsUnique'
  <2>1. \A j, k \in 1..n : info[gpEndpList[j]].host = info[gpEndpList[k]].host
                           /\ info[gpEndpList[j]].host # NULL => j = k
    BY <1>1 DEF EndpOK, HostsUnique, HostAt
  <2> SUFFICES ASSUME NEW j \in 1..(n - 1), NEW k \in 1..(n - 1),
                      info[gpEndpList'[j]].host = info[gpEndpList'[k]].host,
                      info[gpEndpList'[j]].host # NULL
               PROVE  j = k
    BY <1>p, <1>q DEF HostsUnique, HostAt
  <2>2. old(j) = old(k)
    BY <1>a, <2>1
  <2> QED
    BY <1>b, <2>2
<1>12. \A d \in Listed' : home'[d] \notin {"none", "released"}
  BY <1>4, <1>6, <1>8 DEF EndpOK
<1>13. listHome' # NULL => home'[listHome'] = "live"
  BY <1>6 DEF EndpOK
<1>14. /\ info' \in [Endp -> Info] /\ added' \subseteq Endp /\ listHome' \in Endp \cup {NULL}
       /\ lost' \subseteq Endp /\ starved' \in BOOLEAN
  BY DEF EndpOK
<1>15. OwnerOK'
  <2>1. CASE listHome = NULL
    BY <1>1, <2>1 DEF EndpOK, OwnerOK
  <2>2. CASE listHome \in lost
    BY <2>2, NullAssumption DEF EndpOK, OwnerOK
  <2>3. CASE listHome # NULL /\ listHome = gpEndpList[1]
    <3>1. i # 1
      BY <2>3 DEF e
    <3>2. 1 \in 1..(n - 1) /\ 1 < i
      BY <1>1, <3>1
    <3>3. gpEndpList'[1] = gpEndpList[1] /\ 1 \in DOMAIN gpEndpList'
      BY <1>p, <1>q, <3>2
    <3> QED
      BY <2>3, <3>3 DEF OwnerOK
  <2> QED
    BY <2>1, <2>2, <2>3 DEF EndpOK, OwnerOK
<1>16. home'[e] = "released"
  <2>1. info[e] # NoInfo
    BY DEF HostAt, NoInfo, e
  <2>2. home[e] = "live"
    BY <1>4, <2>1 DEF EndpOK, Kept
  <2> QED
    BY <1>4, <2>2 DEF EndpOK, Unref, e
<1>17. Kept'
  BY <1>4, <1>6, <1>8, <1>16 DEF EndpOK, Kept
<1> QED
  BY <1>p, <1>q, <1>6, <1>10, <1>11, <1>12, <1>13, <1>14, <1>15, <1>17 DEF EndpOK

-----------------------------------------------------------------------------
(* Safety of the handler, for whatever allocations fail. *)

\* The answers of the paths that echo nothing.
LEMMA PlainAnswers ==
  /\ Plain(<<>>) \in Reply
  /\ Plain(<<100>>) \in Reply
  /\ Plain(<<401>>) \in Reply
  /\ Plain(<<500>>) \in Reply
  /\ Plain(<<100, 500>>) \in Reply
<1> DEFINE Codes == Seq({100, 200, 401, 500})
<1>1. ASSUME NEW codes \in Codes PROVE Plain(codes) \in Reply
  BY DEF Plain, Reply
<1>2. <<>> \in Codes
  OBVIOUS
<1>3. <<100>> \in Codes
  OBVIOUS
<1>4. <<401>> \in Codes
  OBVIOUS
<1>5. <<500>> \in Codes
  OBVIOUS
<1>6. <<100, 500>> \in Codes
  OBVIOUS
<1> HIDE DEF Codes
<1>7. Plain(<<>>) \in Reply
  BY <1>1, <1>2
<1>8. Plain(<<100>>) \in Reply
  BY <1>1, <1>3
<1>9. Plain(<<401>>) \in Reply
  BY <1>1, <1>4
<1>10. Plain(<<500>>) \in Reply
  BY <1>1, <1>5
<1>11. Plain(<<100, 500>>) \in Reply
  BY <1>1, <1>6
<1> QED
  BY <1>7, <1>8, <1>9, <1>10, <1>11

Faults == {"none", "null_deref", "use_after_free"}

LEMMA IInvFromEndpOK == EndpOK /\ reply \in Reply /\ fault \in Faults => IInv
BY DEF EndpOK, IInv, TypeOK, ListedReadable, Faults

LEMMA InitIInv == Init => IInv
<1> SUFFICES ASSUME Init PROVE IInv
  OBVIOUS
<1>1. Listed = {} /\ gpEndpList \in Seq(Endp)
  BY DEF Init, Listed, ToSet
<1>2. FlagMatchesList /\ HostsUnique
  BY <1>1 DEF Init, FlagMatchesList, IsInjective, HostsUnique
<1>3. OwnerOK /\ Kept
  BY DEF Init, OwnerOK, Kept
<1>4. EndpOK
  BY <1>1, <1>2, <1>3 DEF Init, EndpOK, NoInfo, Info
<1>5. reply \in Reply
  BY PlainAnswers DEF Init, NoReply
<1>6. fault \in Faults
  BY DEF Init, Faults
<1> QED
  BY <1>4, <1>5, <1>6, IInvFromEndpOK

\* The step that ends in undefined behaviour leaves the shape of everything.
LEMMA OwnerReleased ==
  ASSUME EndpOK, Unref(listHome), UNCHANGED <<info, added, gpEndpList, listHome, lost, starved>>,
         reply' \in Reply, fault' = "use_after_free"
  PROVE  IInv'
<1>1. home' \in [Endp -> {"none", "empty", "live", "released"}]
  BY DEF EndpOK, Unref
<1>2. Listed' = Listed
  BY DEF Listed
<1>3. FlagMatchesList' /\ HostsUnique'
  BY <1>2 DEF EndpOK, FlagMatchesList, HostsUnique, HostAt
<1>4. TypeOK'
  BY <1>1 DEF EndpOK, TypeOK
<1>5. ~Running'
  BY DEF Running
<1> QED
  BY <1>3, <1>4, <1>5 DEF IInv, ListedReadable

\* What a path through the handler must establish.
LEMMA IInvNext == EndpOK' /\ reply' \in Reply /\ fault' \in Faults => IInv'
BY DEF EndpOK, IInv, TypeOK, ListedReadable, Faults

\* A path that changes no end point.
LEMMA QuietStep ==
  ASSUME IInv, fault = "none", UNCHANGED endpVars, reply' \in Reply, fault' \in Faults
  PROVE  IInv'
<1>1. EndpOK
  BY EndpOKFromIInv DEF Running
<1>2. EndpOK'
  BY <1>1, EndpUnchanged
<1> QED
  BY <1>2, IInvNext

\* Before a path is taken that needs what the list says.
LEMMA LookedMeans ==
  ASSUME IInv, NEW r \in Requests, Looked(r)
  PROVE  /\ EndpOK /\ fault = "none" /\ r.contact # NULL
         /\ \A i \in DOMAIN gpEndpList : FoundAt(r.contact.host, i) => HostAt(i) # NULL
<1>1. fault = "none" /\ r.contact # NULL /\ ~LookupFaults(r.contact.host)
  BY DEF Looked
<1>2. EndpOK
  BY <1>1, EndpOKFromIInv DEF Running
<1>3. \A i \in DOMAIN gpEndpList : PassedOver(r.contact.host, i) => HostAt(i) # NULL
  BY <1>1 DEF LookupFaults
<1> QED
  BY <1>1, <1>2, <1>3 DEF FoundAt

\* The answers of the handler's last line.
LEMMA AnsweredKeeps ==
  ASSUME IInv, NEW r \in Requests, Looked(r), EndpOK', Answer(r, <<100, 200>>), UNCHANGED fault
  PROVE  IInv'
<1>1. r.contact # NULL /\ fault = "none"
  BY DEF Looked
<1>2. reply' \in Reply
  BY <1>1, AnswerType
<1>3. fault' \in Faults
  BY <1>1 DEF Faults
<1> QED
  BY <1>2, <1>3, IInvNext

LEMMA NewIInv ==
  ASSUME IInv, NEW r \in Requests, NEW e \in Endp, RegisterNew(r, e)
  PROVE  IInv' /\ e \in Listed' \cup lost'
<1>1. /\ Looked(r) /\ NotFound(r.contact.host) /\ home[e] = "none"
      /\ Store(e, r.contact) /\ Answer(r, <<100, 200>>) /\ UNCHANGED fault
  BY DEF RegisterNew
<1>2. EndpOK /\ r.contact # NULL
  BY <1>1, LookedMeans
<1>3. EndpOK' /\ e \in Listed' \cup lost'
  BY <1>1, <1>2, StoreNew
<1> QED
  BY <1>1, <1>3, AnsweredKeeps

LEMMA RefreshIInv ==
  ASSUME IInv, NEW r \in Requests, NEW i \in DOMAIN gpEndpList, RegisterRefresh(r, i)
  PROVE  IInv' /\ gpEndpList[i] \in Listed'
<1>1. /\ Looked(r) /\ FoundAt(r.contact.host, i) /\ Store(gpEndpList[i], r.contact)
      /\ Answer(r, <<100, 200>>) /\ UNCHANGED fault
  BY DEF RegisterRefresh
<1>2. EndpOK /\ r.contact # NULL
  BY <1>1, LookedMeans
<1>3. EndpOK' /\ gpEndpList[i] \in Listed'
  BY <1>1, <1>2, StoreFound
<1> QED
  BY <1>1, <1>3, AnsweredKeeps

LEMMA RemoveIInv ==
  ASSUME IInv, NEW r \in Requests, NEW i \in DOMAIN gpEndpList, RegisterRemove(r, i)
  PROVE  IInv'
<1>1. /\ Looked(r) /\ FoundAt(r.contact.host, i) /\ gpEndpList[i] # listHome
      /\ Unref(gpEndpList[i]) /\ added' = added \ {gpEndpList[i]}
      /\ Answer(r, <<100, 200>>)
  BY DEF RegisterRemove
<1>2. /\ gpEndpList' = IF gpEndpList[i] \in added THEN RemoveAt(gpEndpList, i) ELSE gpEndpList
      /\ UNCHANGED <<info, listHome, history, fault>>
  BY DEF RegisterRemove
<1>3. EndpOK /\ HostAt(i) # NULL
  BY <1>1, LookedMeans
<1>4. gpEndpList[i] \in added
  BY <1>3 DEF EndpOK, FlagMatchesList, Listed, ToSet
<1>5. gpEndpList' = RemoveAt(gpEndpList, i) /\ UNCHANGED <<info, listHome, lost, starved>>
  BY <1>2, <1>4 DEF history
<1>6. EndpOK'
  BY <1>1, <1>3, <1>5, RemoveListed
<1> QED
  BY <1>1, <1>2, <1>6, AnsweredKeeps

LEMMA RemoveOwnerIInv ==
  ASSUME IInv, NEW r \in Requests, NEW i \in DOMAIN gpEndpList, RegisterRemoveOwner(r, i)
  PROVE  IInv'
<1>1. /\ Looked(r) /\ Unref(listHome) /\ fault' = "use_after_free" /\ reply' = Plain(<<100>>)
      /\ UNCHANGED <<info, added, gpEndpList, listHome, history>>
  BY DEF RegisterRemoveOwner
<1>2. EndpOK
  BY <1>1, LookedMeans
<1>3. reply' \in Reply
  BY <1>1, PlainAnswers
<1>4. UNCHANGED <<info, added, gpEndpList, listHome, lost, starved>>
  BY <1>1 DEF history
<1> QED
  BY <1>1, <1>2, <1>3, <1>4, OwnerReleased

\* The paths that answer without a look at the list, or with a wild pointer.
LEMMA QuietIInv ==
  ASSUME IInv, NEW r \in Requests,
         \/ RegisterMalformed(r) \/ RegisterIncomplete(r) \/ RegisterWithoutContact(r)
         \/ RegisterLookupFaults(r) \/ RegisterCreateFails(r) \/ RegisterRemoveUnknown(r)
  PROVE  IInv'
<1>1. fault = "none" /\ UNCHANGED endpVars
  BY DEF RegisterMalformed, RegisterIncomplete, RegisterWithoutContact, RegisterLookupFaults,
         RegisterCreateFails, RegisterRemoveUnknown, Looked
<1>2. fault' \in Faults
  BY <1>1 DEF RegisterMalformed, RegisterIncomplete, RegisterWithoutContact, RegisterLookupFaults,
              RegisterCreateFails, RegisterRemoveUnknown, Faults
<1>3. reply' \in Reply
  <2>1. CASE RegisterRemoveUnknown(r)
    <3>1. r.contact # NULL /\ Answer(r, <<100, 200>>)
      BY <2>1 DEF RegisterRemoveUnknown, Looked
    <3> QED
      BY <3>1, AnswerType
  <2>2. CASE ~RegisterRemoveUnknown(r)
    <3>1. \/ reply' = Plain(<<500>>) \/ reply' = Plain(<<401>>)
          \/ reply' = Plain(<<100>>) \/ reply' = Plain(<<100, 500>>)
      BY <2>2 DEF RegisterMalformed, RegisterIncomplete, RegisterWithoutContact,
                  RegisterLookupFaults, RegisterCreateFails
    <3> QED
      BY <3>1, PlainAnswers
  <2> QED
    BY <2>1, <2>2
<1> QED
  BY <1>1, <1>2, <1>3, QuietStep

\* Every path through the handler, and the invite handler, keep the invariant.
LEMMA NextIInv == IInv /\ [Next]_vars => IInv'
<1> SUFFICES ASSUME IInv, [Next]_vars PROVE IInv'
  OBVIOUS
<1>1. CASE UNCHANGED vars
  <2>1. UNCHANGED <<info, home, added, gpEndpList, listHome, lost, starved, reply, fault>>
    BY <1>1 DEF vars, endpVars, history
  <2>2. Listed' = Listed
    BY <2>1 DEF Listed
  <2>3. TypeOK' /\ FlagMatchesList' /\ HostsUnique'
    BY <2>1, <2>2 DEF IInv, TypeOK, FlagMatchesList, HostsUnique, HostAt
  <2>4. ListedReadable'
    BY <2>1, <2>2 DEF IInv, ListedReadable, Running
  <2>5. Running' => OwnerOK' /\ Kept'
    BY <2>1, <2>2 DEF IInv, OwnerOK, Kept, Running
  <2> QED
    BY <2>3, <2>4, <2>5 DEF IInv
<1>2. CASE Invite
  <2>1. fault = "none" /\ UNCHANGED endpVars /\ reply' = NoReply
    BY <1>2 DEF Invite
  <2>2. fault' \in Faults
    BY <1>2, <2>1 DEF Invite, DumpList, Faults
  <2>3. reply' \in Reply
    BY <2>1, PlainAnswers DEF NoReply
  <2> QED
    BY <2>1, <2>2, <2>3, QuietStep
<1>3. ASSUME NEW r \in Requests, Register(r) PROVE IInv'
  <2>1. CASE \E e \in Endp : RegisterNew(r, e)
    BY <2>1, NewIInv
  <2>2. CASE \E i \in DOMAIN gpEndpList : RegisterRefresh(r, i)
    BY <2>2, RefreshIInv
  <2>3. CASE \E i \in DOMAIN gpEndpList : RegisterRemove(r, i)
    BY <2>3, RemoveIInv
  <2>4. CASE \E i \in DOMAIN gpEndpList : RegisterRemoveOwner(r, i)
    BY <2>4, RemoveOwnerIInv
  <2> QED
    BY <1>3, <2>1, <2>2, <2>3, <2>4, QuietIInv DEF Register
<1> QED
  BY <1>1, <1>2, <1>3 DEF Next

-----------------------------------------------------------------------------
(* What a positive answer promises. *)

\* A Contact that was stored whole is what the answer echoes.
LEMMA StoredWhole ==
  ASSUME NEW r \in Requests, r.contact # NULL, NEW e \in Endp, info \in [Endp -> Info],
         Store(e, r.contact), Answer(r, <<100, 200>>), e \in Listed' \cup lost'
  PROVE  AnsweredIsStored'
<1>1. SetInfo(e, r.contact)
  BY DEF Store
<1>2. ~starved' => info'[e] = [host |-> r.contact.host, contact |-> r.contact.user]
  BY <1>1, SetInfoResult
<1>3. reply'.host = r.contact.host /\ reply'.user = r.contact.user
  BY DEF Answer
<1> QED
  BY <1>2, <1>3 DEF AnsweredIsStored

\* An answer that is not a positive one, or promises no duration, is none.
LEMMA NothingPromised ==
  ASSUME reply'.sent # <<100, 200>> \/ reply'.expires = 0
  PROVE  AnsweredIsStored'
BY DEF AnsweredIsStored

LEMMA NextAnswered == IInv /\ AnsweredIsStored /\ [Next]_vars => AnsweredIsStored'
<1> SUFFICES ASSUME IInv, AnsweredIsStored, [Next]_vars PROVE AnsweredIsStored'
  OBVIOUS
<1>1. CASE UNCHANGED vars
  BY <1>1 DEF vars, endpVars, history, AnsweredIsStored, Listed, Running
<1>2. CASE Invite
  BY <1>2, NothingPromised DEF Invite, NoReply, Plain
<1>3. ASSUME NEW r \in Requests, Register(r) PROVE AnsweredIsStored'
  <2>1. ASSUME NEW e \in Endp, RegisterNew(r, e) PROVE AnsweredIsStored'
    <3>1. EndpOK /\ r.contact # NULL
      BY <2>1, LookedMeans DEF RegisterNew
    <3>2. e \in Listed' \cup lost'
      BY <2>1, NewIInv
    <3> QED
      BY <2>1, <3>1, <3>2, StoredWhole DEF RegisterNew, EndpOK
  <2>2. ASSUME NEW i \in DOMAIN gpEndpList, RegisterRefresh(r, i) PROVE AnsweredIsStored'
    <3>1. EndpOK /\ r.contact # NULL
      BY <2>2, LookedMeans DEF RegisterRefresh
    <3>2. gpEndpList[i] \in Listed' /\ gpEndpList[i] \in Endp
      BY <2>2, <3>1, RefreshIInv DEF EndpOK
    <3> QED
      BY <2>2, <3>1, <3>2, StoredWhole DEF RegisterRefresh, EndpOK
  <2>3. CASE ExpTime(r) = 0 /\ Answer(r, <<100, 200>>)
    <3>1. reply'.expires = 0
      BY <2>3, WordAssumption DEF Answer, Printed
    <3> QED
      BY <3>1, NothingPromised
  <2>4. CASE \E codes \in {<<100>>, <<401>>, <<500>>, <<100, 500>>} : reply' = Plain(codes)
    BY <2>4, NothingPromised DEF Plain
  <2>5. \/ \E e \in Endp : RegisterNew(r, e)
        \/ \E i \in DOMAIN gpEndpList : RegisterRefresh(r, i)
        \/ ExpTime(r) = 0 /\ Answer(r, <<100, 200>>)
        \/ \E codes \in {<<100>>, <<401>>, <<500>>, <<100, 500>>} : reply' = Plain(codes)
    BY <1>3 DEF Register, RegisterMalformed, RegisterIncomplete, RegisterWithoutContact,
                RegisterLookupFaults, RegisterCreateFails, RegisterRemove, RegisterRemoveOwner,
                RegisterRemoveUnknown
  <2> QED
    BY <2>1, <2>2, <2>3, <2>4, <2>5
<1> QED
  BY <1>1, <1>2, <1>3 DEF Next

-----------------------------------------------------------------------------
(* What a released end point is never used for. *)

\* Storing writes, lists and allocates in no other end point.
LEMMA StoreTouchesOne ==
  ASSUME EndpOK, NEW e \in Endp, NEW c \in Contact, Store(e, c), NEW d \in Endp \ {e}
  PROVE  info'[d] = info[d] /\ home'[d] = home[d] /\ (d \in Listed' => d \in Listed)
<1>1. info'[d] = info[d]
  BY DEF Store, SetInfo, EndpOK
<1>2. home'[d] = home[d]
  BY DEF Store, EndpOK
<1>3. gpEndpList' = gpEndpList \/ gpEndpList' = Append(gpEndpList, e)
  BY DEF Store, Add, Appended, NotAppended
<1>4. ASSUME gpEndpList' = gpEndpList PROVE d \in Listed' => d \in Listed
  BY <1>4 DEF Listed
<1>5. ASSUME gpEndpList' = Append(gpEndpList, e) PROVE d \in Listed' => d \in Listed
  <2>1. gpEndpList \in Seq(Endp)
    BY DEF EndpOK
  <2>2. ToSet(Append(gpEndpList, e)) \subseteq ToSet(gpEndpList) \cup {e}
    BY <2>1 DEF ToSet
  <2> QED
    BY <1>5, <2>2 DEF Listed
<1> QED
  BY <1>1, <1>2, <1>3, <1>4, <1>5

\* Removing releases, and lists nothing new.
LEMMA RemoveTouchesOne ==
  ASSUME EndpOK, NEW i \in DOMAIN gpEndpList, Unref(gpEndpList[i]),
         gpEndpList' \in {gpEndpList, RemoveAt(gpEndpList, i)},
         NEW d \in Endp, home[d] = "released"
  PROVE  home'[d] = "released" /\ (d \in Listed' => d \in Listed)
<1>1. home'[d] = "released"
  BY DEF EndpOK, Unref
<1>2. ASSUME gpEndpList' = gpEndpList PROVE d \in Listed' => d \in Listed
  BY <1>2 DEF Listed
<1>3. ASSUME gpEndpList' = RemoveAt(gpEndpList, i) PROVE d \in Listed' => d \in Listed
  <2>1. gpEndpList \in Seq(Endp) /\ i \in 1..Len(gpEndpList) /\ IsInjective(gpEndpList)
    BY DEF EndpOK, FlagMatchesList
  <2> QED
    BY <1>3, <2>1, RemoveAtTakesOne DEF Listed
<1> QED
  BY <1>1, <1>2, <1>3

LEMMA ReleasedStays ==
  ASSUME IInv, Next, NEW e \in Endp, home[e] = "released"
  PROVE  info'[e] = info[e] /\ home'[e] = "released" /\ (e \in Listed' => e \in Listed)
<1>1. CASE UNCHANGED endpVars
  BY <1>1 DEF endpVars, Listed
<1>2. ASSUME NEW r \in Requests, NEW d \in Endp, RegisterNew(r, d)
      PROVE  info'[e] = info[e] /\ home'[e] = "released" /\ (e \in Listed' => e \in Listed)
  <2>1. EndpOK /\ r.contact \in Contact /\ Store(d, r.contact) /\ d # e
    BY <1>2, LookedMeans, RequestsAssumption DEF RegisterNew, Request
  <2> QED
    BY <2>1, StoreTouchesOne
<1>3. ASSUME NEW r \in Requests, NEW i \in DOMAIN gpEndpList, RegisterRefresh(r, i)
      PROVE  info'[e] = info[e] /\ home'[e] = "released" /\ (e \in Listed' => e \in Listed)
  <2>1. EndpOK /\ r.contact \in Contact /\ Store(gpEndpList[i], r.contact)
    BY <1>3, LookedMeans, RequestsAssumption DEF RegisterRefresh, Request
  <2>2. gpEndpList[i] \in Endp /\ gpEndpList[i] # e
    BY <2>1 DEF EndpOK, Listed, ToSet
  <2> QED
    BY <2>1, <2>2, StoreTouchesOne
<1>4. ASSUME NEW r \in Requests, NEW i \in DOMAIN gpEndpList,
             RegisterRemove(r, i) \/ RegisterRemoveOwner(r, i)
      PROVE  info'[e] = info[e] /\ home'[e] = "released" /\ (e \in Listed' => e \in Listed)
  <2>1. EndpOK
    BY <1>4, LookedMeans DEF RegisterRemove, RegisterRemoveOwner
  <2>2. /\ info' = info /\ Unref(gpEndpList[i])
        /\ gpEndpList' \in {gpEndpList, RemoveAt(gpEndpList, i)}
    BY <1>4 DEF RegisterRemove, RegisterRemoveOwner
  <2> QED
    BY <2>1, <2>2, RemoveTouchesOne
<1>5. ASSUME NEW r \in Requests, Register(r)
      PROVE  info'[e] = info[e] /\ home'[e] = "released" /\ (e \in Listed' => e \in Listed)
  <2>1. \/ UNCHANGED endpVars
        \/ \E d \in Endp : RegisterNew(r, d)
        \/ \E i \in DOMAIN gpEndpList :
             RegisterRefresh(r, i) \/ RegisterRemove(r, i) \/ RegisterRemoveOwner(r, i)
    BY <1>5 DEF Register, RegisterMalformed, RegisterIncomplete, RegisterWithoutContact,
                RegisterLookupFaults, RegisterCreateFails, RegisterRemoveUnknown
  <2> QED
    BY <2>1, <1>1, <1>2, <1>3, <1>4
<1> QED
  BY <1>1, <1>5 DEF Next, Invite

-----------------------------------------------------------------------------
(* The theorems. *)

THEOREM Invariance == Spec => []IInv
BY InitIInv, NextIInv, PTL DEF Spec

\* Every variable keeps the shape its C declaration gives it.
THEOREM TypeCorrect == Spec => []TypeOK
<1>1. IInv => TypeOK
  BY DEF IInv
<1> QED
  BY <1>1, Invariance, PTL

\* EVSIP_ENDP_FLAG_ADDED marks exactly the end points of the vector, each of
\* which is in it once: isAttached never repairs, extract never misses.
THEOREM FlagIsTruthful == Spec => []FlagMatchesList
<1>1. IInv => FlagMatchesList
  BY DEF IInv
<1> QED
  BY <1>1, Invariance, PTL

\* A host has at most one end point in the list, whatever the sequence of
\* registrations, refreshes, removals and failed allocations.
THEOREM OneEndpointPerHost == Spec => []HostsUnique
<1>1. IInv => HostsUnique
  BY DEF IInv
<1> QED
  BY <1>1, Invariance, PTL

\* While the server runs, the vector and the strings of every end point in it
\* are allocated: the double destruction of evsip_register_handler releases
\* nothing that is still listed.
THEOREM ListedMemoryIsLive == Spec => []ListedReadable
<1>1. IInv => ListedReadable
  BY DEF IInv
<1> QED
  BY <1>1, Invariance, PTL

\* The vector is in the home of the oldest listed end point, or of one that can
\* never be found and so never removed: deregistering the oldest host is the only
\* request that pulls the list out from under the server.
THEOREM VectorOwner == Spec => []OwnerIsOldest
<1>1. IInv => OwnerIsOldest
  BY DEF IInv, OwnerIsOldest, OwnerOK
<1> QED
  BY <1>1, Invariance, PTL

\* An end point that was created and not destroyed is in the list, or in none
\* from the start because evsip_endp_add failed.
THEOREM NothingForgotten == Spec => []NoOrphan
<1>1. IInv => NoOrphan
  BY DEF IInv, NoOrphan, Kept
<1> QED
  BY <1>1, Invariance, PTL

\* A 200 that promises a duration was given for an end point that exists and holds
\* what the answer echoes: in the list, or lost to it when evsip_endp_add failed.
THEOREM PromiseIsStored == Spec => []AnsweredIsStored
<1>1. Init => AnsweredIsStored
  BY DEF Init, AnsweredIsStored, NoReply, Plain
<1> QED
  BY <1>1, InitIInv, NextIInv, NextAnswered, PTL DEF Spec

\* The struct of a destroyed end point stays in memPage and is not used again.
THEOREM DestroyedForGood == Spec => ReleasedForGood
<1>1. IInv /\ [Next]_vars =>
        [\A e \in Endp : home[e] = "released" =>
           /\ info'[e] = info[e] /\ home'[e] = "released"
           /\ e \in ToSet(gpEndpList') => e \in Listed]_vars
  BY ReleasedStays DEF Listed
<1> QED
  BY <1>1, Invariance, PTL DEF Spec, ReleasedForGood

-----------------------------------------------------------------------------
(* The refinement: the handler implements LocationService, every step being *)
(* one of the service, its death, or none.                                  *)

(* The map that a set of end points makes up. *)

OneEach(strings, endps) ==
  \A d, e \in endps : strings[d].host = strings[e].host => d = e

\* Three lemmas, since the equation of the first one sends the provers astray
\* where the other two are needed.
LEMMA BindingsMap ==
  ASSUME NEW strings, NEW endps
  PROVE  Bindings(strings, endps) = [h \in DOMAIN Bindings(strings, endps) |->
                                       Bindings(strings, endps)[h]]
  BY DEF Bindings

LEMMA BindingsDomain ==
  ASSUME NEW strings, NEW endps
  PROVE  DOMAIN Bindings(strings, endps) = {strings[e].host : e \in endps}
  BY DEF Bindings

LEMMA BindingsOf ==
  ASSUME NEW strings, NEW endps, OneEach(strings, endps), NEW e \in endps
  PROVE  Bindings(strings, endps)[strings[e].host] = strings[e].contact
<1>1. (CHOOSE d \in endps : strings[d].host = strings[e].host) = e
  BY DEF OneEach
<1> DEFINE D == {strings[d].host : d \in endps}
           g(h) == strings[CHOOSE d \in endps : strings[d].host = h].contact
<1>2. Bindings(strings, endps) = [h \in D |-> g(h)]
  BY DEF Bindings
<1>3. strings[e].host \in D /\ g(strings[e].host) = strings[e].contact
  BY <1>1
<1> HIDE DEF g, D
<1> QED
  BY <1>2, <1>3

LEMMA SameFunction ==
  ASSUME NEW f, NEW g, f = [x \in DOMAIN f |-> f[x]], g = [x \in DOMAIN g |-> g[x]],
         DOMAIN f = DOMAIN g, \A x \in DOMAIN f : f[x] = g[x]
  PROVE  f = g
  OBVIOUS

\* A map that agrees with the end points is the one they make up.
LEMMA BindingsAre ==
  ASSUME NEW strings, NEW endps, OneEach(strings, endps),
         NEW f, f = [h \in DOMAIN f |-> f[h]],
         DOMAIN f = {strings[e].host : e \in endps},
         \A e \in endps : f[strings[e].host] = strings[e].contact
  PROVE  Bindings(strings, endps) = f
<1>1. Bindings(strings, endps) = [h \in DOMAIN Bindings(strings, endps) |->
                                   Bindings(strings, endps)[h]]
  BY BindingsMap
<1>2. DOMAIN Bindings(strings, endps) = {strings[e].host : e \in endps}
  BY BindingsDomain
<1>3. \A e \in endps : Bindings(strings, endps)[strings[e].host] = strings[e].contact
  BY BindingsOf
<1>4. DOMAIN Bindings(strings, endps) = DOMAIN f
  BY <1>2
<1>5. \A h \in DOMAIN f : Bindings(strings, endps)[h] = f[h]
  BY <1>3
<1> QED
  BY <1>1, <1>4, <1>5, SameFunction

LEMMA NobodyBound == \A strings : Bindings(strings, {}) = [h \in {} |-> NULL]
  BY DEF Bindings

-----------------------------------------------------------------------------
(* While it serves, an end point without a host is alone in the list. *)

NullAlone == Serving => \A i \in DOMAIN gpEndpList : HostAt(i) = NULL => Len(gpEndpList) = 1

LEMMA ServingMeans ==
  ASSUME IInv, NullAlone, Serving
  PROVE  /\ EndpOK /\ fault = "none" /\ lost = {} /\ starved = FALSE
         /\ OneEach(info, Listed)
         /\ DOMAIN Bound = {info[e].host : e \in Listed}
         /\ \A e \in Listed : Bound[info[e].host] = info[e].contact
<1>1. EndpOK /\ fault = "none" /\ lost = {} /\ starved = FALSE
  BY EndpOKFromIInv DEF Serving, Running, EndpOK
<1>2. OneEach(info, Listed)
  <2> SUFFICES ASSUME NEW i \in DOMAIN gpEndpList, NEW j \in DOMAIN gpEndpList,
                      HostAt(i) = HostAt(j)
               PROVE  i = j
    BY DEF OneEach, Listed, ToSet, HostAt
  <2>1. CASE HostAt(i) = NULL
    BY <1>1, <2>1 DEF NullAlone, EndpOK
  <2>2. CASE HostAt(i) # NULL
    BY <1>1, <2>2 DEF EndpOK, HostsUnique
  <2> QED
    BY <2>1, <2>2
<1>3. DOMAIN Bindings(info, Listed) = {info[e].host : e \in Listed}
  BY BindingsDomain
<1>4. \A e \in Listed : Bindings(info, Listed)[info[e].host] = info[e].contact
  BY <1>2, BindingsOf
<1>5. Bound = Bindings(info, Listed)
  BY DEF Bound
<1> QED
  BY <1>1, <1>2, <1>3, <1>4, <1>5

\* Once something was lost, the service is dead for good.
LEMMA DeadForGood == IInv /\ ~Serving /\ [Next]_vars => ~Serving'
<1> SUFFICES ASSUME IInv, ~Serving, [Next]_vars PROVE ~Serving'
  OBVIOUS
<1>1. CASE UNCHANGED vars
  BY <1>1 DEF vars, endpVars, history, Serving, Running
<1>2. CASE Next
  <2>1. fault = "none"
    BY <1>2 DEF Next, Invite, Register, RegisterMalformed, RegisterIncomplete,
       RegisterWithoutContact, RegisterLookupFaults, RegisterCreateFails, RegisterNew,
       RegisterRefresh, RegisterRemove, RegisterRemoveOwner, RegisterRemoveUnknown, Looked
  <2>2. lost # {} \/ starved
    BY <2>1 DEF Serving, Running
  <2>3. ASSUME NEW e, NEW c, Store(e, c) PROVE lost \subseteq lost' /\ (starved => starved')
    BY <2>3 DEF Store, SetInfo, Add, Appended, NotAppended
  <2>4. lost \subseteq lost' /\ (starved => starved')
    BY <1>2, <2>3 DEF Next, Invite, Register, RegisterMalformed, RegisterIncomplete,
       RegisterWithoutContact, RegisterLookupFaults, RegisterCreateFails, RegisterNew,
       RegisterRefresh, RegisterRemove, RegisterRemoveOwner, RegisterRemoveUnknown,
       endpVars, history
  <2> QED
    BY <2>2, <2>4 DEF Serving
<1> QED
  BY <1>1, <1>2

\* What a dead service shows.
LEMMA DeadShows ==
  ~Serving => /\ Bound = [h \in {} |-> NULL]
              /\ FinalAnswer = [code |-> 0, host |-> NULL, user |-> NULL, expires |-> 0]
BY NobodyBound DEF Bound, FinalAnswer

LEMMA Dies == ASSUME ~Serving' PROVE Registrar!Die
<1>1. Bound' = [h \in {} |-> NULL] /\ FinalAnswer' = Registrar!NoAnswer
  BY NobodyBound DEF Bound, FinalAnswer, Registrar!NoAnswer
<1> QED
  BY <1>1 DEF Registrar!Die

-----------------------------------------------------------------------------
(* The steps while it serves. *)

\* A lookup that does not fault meets no end point without a host.
LEMMA NoNullMet ==
  ASSUME IInv, NullAlone, Serving, NEW h, ~LookupFaults(h)
  PROVE  /\ \A i \in DOMAIN gpEndpList : HostAt(i) # NULL
         /\ h = NULL => gpEndpList = <<>>
         /\ Registrar!Searchable(h)
<1>1. EndpOK /\ gpEndpList \in Seq(Endp)
  BY ServingMeans DEF EndpOK
<1>2. DOMAIN Bound = {info[e].host : e \in Listed}
  BY ServingMeans
<1>3. PassedOver(h, 1)
  BY DEF PassedOver
<1>4. \A i \in DOMAIN gpEndpList : HostAt(i) # NULL
  <2> SUFFICES ASSUME NEW i \in DOMAIN gpEndpList, HostAt(i) = NULL PROVE FALSE
    OBVIOUS
  <2>1. i = 1
    BY <1>1 DEF NullAlone
  <2> QED
    BY <1>3, <2>1 DEF LookupFaults
<1>5. h = NULL => gpEndpList = <<>>
  <2> SUFFICES ASSUME h = NULL, gpEndpList # <<>> PROVE FALSE
    OBVIOUS
  <2>1. 1 \in DOMAIN gpEndpList
    BY <1>1
  <2> QED
    BY <1>3, <2>1 DEF LookupFaults
<1>6. gpEndpList = <<>> => Listed = {}
  BY DEF Listed, ToSet
<1>7. NULL \notin DOMAIN Bound
  BY <1>2, <1>4 DEF Listed, ToSet, HostAt
<1> QED
  BY <1>2, <1>4, <1>5, <1>6, <1>7 DEF Registrar!Searchable

LEMMA AnswerShows ==
  ASSUME Serving', NEW r \in Requests, Answer(r, <<100, 200>>)
  PROVE  FinalAnswer' = [code |-> 200, host |-> r.contact.host, user |-> r.contact.user,
                         expires |-> Printed(ExpTime(r))]
<1>1. Last(<<100, 200>>) = 200 /\ <<100, 200>> # <<>>
  BY DEF Last
<1> QED
  BY <1>1 DEF Answer, FinalAnswer

\* A step after which e, and no other end point, has the host of the Contact.
LEMMA NowBound ==
  ASSUME IInv, NullAlone, Serving, Serving',
         NEW r \in Requests, Looked(r), ExpTime(r) > 0, Answer(r, <<100, 200>>),
         NEW e \in Listed',
         info'[e] = [host |-> r.contact.host, contact |-> r.contact.user],
         Listed' = Listed \cup {e},
         \A d \in Listed \ {e} : info'[d] = info[d] /\ info[d].host # r.contact.host,
         e \in Listed => info[e].host = r.contact.host
  PROVE  Registrar!Next
<1> DEFINE h == r.contact.host
           u == r.contact.user
           f == [k \in DOMAIN Bound \cup {h} |-> IF k = h THEN u ELSE Bound[k]]
<1>1. r.contact # NULL /\ ~LookupFaults(h)
  BY DEF Looked
<1>2. h \in Host \cup {NULL} /\ u \in User \cup {NULL}
  BY <1>1, RequestsAssumption DEF Request, Contact
<1>3. OneEach(info, Listed)
  BY ServingMeans
<1>4. /\ DOMAIN Bound = {info[d].host : d \in Listed}
      /\ \A d \in Listed : Bound[info[d].host] = info[d].contact
  BY ServingMeans
<1> HIDE DEF h, u
<1>5. info'[e].host = h /\ info'[e].contact = u
  BY DEF h, u
<1>6. \A d \in Listed \ {e} : info'[d] = info[d] /\ info[d].host # h
  BY DEF h
<1>7. e \in Listed => info[e].host = h
  BY DEF h
<1>8. OneEach(info', Listed')
  BY <1>3, <1>5, <1>6 DEF OneEach
<1>9. DOMAIN f = {info'[d].host : d \in Listed'}
  <2>1. DOMAIN f = {info[d].host : d \in Listed} \cup {h}
    BY <1>4
  <2> QED
    BY <1>5, <1>6, <1>7, <2>1
<1>10. \A d \in Listed' : f[info'[d].host] = info'[d].contact
  BY <1>4, <1>5, <1>6
<1>11. f = [k \in DOMAIN f |-> f[k]]
  OBVIOUS
<1> HIDE DEF f
<1>12. Bindings(info', Listed') = f
  BY <1>8, <1>9, <1>10, <1>11, BindingsAre
<1>13. Bound' = f
  BY <1>12 DEF Bound
<1>14. FinalAnswer' = [code |-> 200, host |-> h, user |-> u, expires |-> Printed(ExpTime(r))]
  BY AnswerShows DEF h, u
<1>15. Printed(ExpTime(r)) \in Int \ {0}
  BY <1>1, ExpTimeType, WordAssumption DEF Printed
<1>16. Registrar!Searchable(h)
  BY <1>1, NoNullMet DEF h
<1>17. Registrar!Bind(h, u)
  BY <1>13, <1>14, <1>15, <1>16 DEF Registrar!Bind, f
<1> QED
  BY <1>2, <1>17 DEF Registrar!Next, Registrar!HostKey, Registrar!UserName

LEMMA NewBinds ==
  ASSUME IInv, NullAlone, Serving, Serving', NEW r \in Requests, NEW e \in Endp, RegisterNew(r, e)
  PROVE  NullAlone' /\ Registrar!Next
<1>1. /\ Looked(r) /\ NotFound(r.contact.host) /\ ExpTime(r) > 0 /\ home[e] = "none"
      /\ Store(e, r.contact) /\ Answer(r, <<100, 200>>)
  BY DEF RegisterNew
<1>2. EndpOK /\ r.contact # NULL /\ ~LookupFaults(r.contact.host) /\ gpEndpList \in Seq(Endp)
  BY <1>1, LookedMeans DEF Looked, EndpOK
<1>3. e \notin Listed /\ e \notin added
  BY <1>1, <1>2 DEF EndpOK, FlagMatchesList
<1>4. lost' = {} /\ ~starved'
  BY DEF Serving
<1>5. Appended(e)
  BY <1>1, <1>3, <1>4 DEF Store, IsAttached, Add, NotAppended
<1>6. /\ info'[e] = [host |-> r.contact.host, contact |-> r.contact.user]
      /\ \A d \in Endp \ {e} : info'[d] = info[d]
  BY <1>1, <1>2, <1>4, SetInfoResult DEF Store, EndpOK
<1> DEFINE n == Len(gpEndpList)
<1>7. /\ n \in Nat /\ DOMAIN gpEndpList = 1..n /\ DOMAIN gpEndpList' = 1..(n + 1)
      /\ Len(gpEndpList') = n + 1
      /\ gpEndpList'[n + 1] = e /\ \A i \in 1..n : gpEndpList'[i] = gpEndpList[i]
  BY <1>2, <1>5 DEF Appended
<1> HIDE DEF n
<1>8. Listed' = Listed \cup {e} /\ Listed \subseteq Endp
  BY <1>2, <1>7 DEF Listed, ToSet
<1>9. \A d \in Listed : info[d].host # r.contact.host
  BY <1>1 DEF NotFound, HostAt, Listed, ToSet
<1>10. Registrar!Next
  BY <1>1, <1>3, <1>6, <1>8, <1>9, NowBound
<1>11. \A i \in 1..n : HostAt(i) # NULL
  BY <1>2, <1>7, NoNullMet
<1>12. r.contact.host = NULL => n = 0
  BY <1>2, NoNullMet DEF n
<1>13. \A i \in 1..n : info'[gpEndpList'[i]].host # NULL
  BY <1>3, <1>6, <1>7, <1>8, <1>11 DEF HostAt, Listed, ToSet
<1>14. info'[gpEndpList'[n + 1]].host = r.contact.host
  BY <1>6, <1>7
<1>15. NullAlone'
  BY <1>7, <1>12, <1>13, <1>14 DEF NullAlone, HostAt
<1> QED
  BY <1>10, <1>15

LEMMA RefreshBinds ==
  ASSUME IInv, NullAlone, Serving, Serving', NEW r \in Requests, NEW i \in DOMAIN gpEndpList,
         RegisterRefresh(r, i)
  PROVE  NullAlone' /\ Registrar!Next
<1> DEFINE e == gpEndpList[i]
<1>1. /\ Looked(r) /\ HostAt(i) = r.contact.host /\ ExpTime(r) > 0
      /\ Store(e, r.contact) /\ Answer(r, <<100, 200>>)
  BY DEF RegisterRefresh, FoundAt
<1>2. EndpOK /\ r.contact # NULL /\ ~LookupFaults(r.contact.host) /\ OneEach(info, Listed)
  BY <1>1, LookedMeans, ServingMeans DEF Looked
<1>3. e \in Endp /\ e \in Listed /\ e \in added /\ Listed \subseteq Endp
  BY <1>2 DEF EndpOK, FlagMatchesList, Listed, ToSet
<1>4. gpEndpList' = gpEndpList /\ Listed' = Listed
  BY <1>1, <1>3 DEF Store, IsAttached, Listed
<1>5. /\ info'[e] = [host |-> r.contact.host, contact |-> r.contact.user]
      /\ \A d \in Endp \ {e} : info'[d] = info[d]
  BY <1>1, <1>2, <1>3, SetInfoResult DEF Store, EndpOK, Serving
<1>6. info[e].host = r.contact.host
  BY <1>1 DEF HostAt
<1>7. \A d \in Listed \ {e} : info[d].host # r.contact.host
  BY <1>2, <1>3, <1>6 DEF OneEach
<1>8. Listed' = Listed \cup {e} /\ e \in Listed'
  BY <1>3, <1>4
<1>9. \A j \in DOMAIN gpEndpList : HostAt(j) # NULL
  BY <1>2, NoNullMet
<1>10. \A d \in Listed : info'[d].host = info[d].host
  BY <1>3, <1>5, <1>6
<1>11. NullAlone'
  BY <1>4, <1>9, <1>10 DEF NullAlone, HostAt, Listed, ToSet
<1> HIDE DEF e
<1>12. \A d \in Listed \ {e} : info'[d] = info[d] /\ info[d].host # r.contact.host
  BY <1>3, <1>5, <1>7
<1>13. Registrar!Next
  BY <1>1, <1>5, <1>6, <1>8, <1>12, NowBound
<1> QED
  BY <1>11, <1>13

\* A step after which no end point has the host of the Contact.
LEMMA NowUnbound ==
  ASSUME IInv, NullAlone, Serving, Serving',
         NEW r \in Requests, Looked(r), ExpTime(r) = 0, Answer(r, <<100, 200>>),
         UNCHANGED info,
         Listed' = {d \in Listed : info[d].host # r.contact.host}
  PROVE  Registrar!Next
<1> DEFINE h == r.contact.host
           u == r.contact.user
           f == [k \in DOMAIN Bound \ {h} |-> Bound[k]]
<1>1. r.contact # NULL /\ ~LookupFaults(h)
  BY DEF Looked
<1>2. h \in Host \cup {NULL} /\ u \in User \cup {NULL}
  BY <1>1, RequestsAssumption DEF Request, Contact
<1>3. OneEach(info, Listed)
  BY ServingMeans
<1>4. /\ DOMAIN Bound = {info[d].host : d \in Listed}
      /\ \A d \in Listed : Bound[info[d].host] = info[d].contact
  BY ServingMeans
<1> HIDE DEF h, u
<1>5. Listed' = {d \in Listed : info[d].host # h}
  BY DEF h
<1>6. OneEach(info', Listed')
  BY <1>3, <1>5 DEF OneEach
<1>7. DOMAIN f = {info'[d].host : d \in Listed'}
  BY <1>4, <1>5
<1>8. \A d \in Listed' : f[info'[d].host] = info'[d].contact
  BY <1>4, <1>5
<1>9. f = [k \in DOMAIN f |-> f[k]]
  OBVIOUS
<1> HIDE DEF f
<1>10. Bindings(info', Listed') = f
  BY <1>6, <1>7, <1>8, <1>9, BindingsAre
<1>11. Bound' = f
  BY <1>10 DEF Bound
<1>12. Printed(ExpTime(r)) = 0
  BY WordAssumption DEF Printed
<1>13. FinalAnswer' = [code |-> 200, host |-> h, user |-> u, expires |-> 0]
  BY <1>12, AnswerShows DEF h, u
<1>14. Registrar!Searchable(h)
  BY <1>1, NoNullMet DEF h
<1>15. Registrar!Unbind(h)
  BY <1>2, <1>11, <1>13, <1>14
     DEF Registrar!Unbind, Registrar!Restrict, Registrar!UserName, f
<1> QED
  BY <1>2, <1>15 DEF Registrar!Next, Registrar!HostKey

LEMMA RemoveUnbinds ==
  ASSUME IInv, NullAlone, Serving, Serving', NEW r \in Requests, NEW i \in DOMAIN gpEndpList,
         RegisterRemove(r, i)
  PROVE  NullAlone' /\ Registrar!Next
<1> DEFINE e == gpEndpList[i]
<1>1. /\ Looked(r) /\ HostAt(i) = r.contact.host /\ ExpTime(r) = 0 /\ Answer(r, <<100, 200>>)
      /\ gpEndpList' = IF e \in added THEN RemoveAt(gpEndpList, i) ELSE gpEndpList
      /\ info' = info
  BY DEF RegisterRemove, FoundAt
<1>2. /\ EndpOK /\ ~LookupFaults(r.contact.host) /\ OneEach(info, Listed)
      /\ gpEndpList \in Seq(Endp) /\ IsInjective(gpEndpList) /\ i \in 1..Len(gpEndpList)
  BY <1>1, LookedMeans, ServingMeans DEF Looked, EndpOK, FlagMatchesList
<1>3. e \in Listed /\ e \in added
  BY <1>2 DEF EndpOK, FlagMatchesList, Listed, ToSet
<1>4. Listed' = Listed \ {e}
  BY <1>1, <1>2, <1>3, RemoveAtTakesOne DEF Listed
<1>5. info[e].host = r.contact.host
  BY <1>1 DEF HostAt
<1>6. \A j \in DOMAIN gpEndpList : HostAt(j) # NULL
  BY <1>2, NoNullMet
<1>7. \A d \in Listed' : info'[d].host # NULL
  BY <1>1, <1>4, <1>6 DEF Listed, ToSet, HostAt
<1>8. NullAlone'
  BY <1>7 DEF NullAlone, HostAt, Listed, ToSet
<1> HIDE DEF e
<1>9. Listed' = {d \in Listed : info[d].host # r.contact.host}
  BY <1>2, <1>3, <1>4, <1>5 DEF OneEach
<1>10. Registrar!Next
  BY <1>1, <1>9, NowUnbound
<1> QED
  BY <1>8, <1>10

\* The paths that change no end point, and the death of the service.
LEMMA QuietServes ==
  ASSUME IInv, NullAlone, Serving, Serving', NEW r \in Requests,
         \/ RegisterMalformed(r) \/ RegisterIncomplete(r) \/ RegisterCreateFails(r)
         \/ RegisterRemoveUnknown(r)
  PROVE  NullAlone' /\ Registrar!Next
<1>1. UNCHANGED endpVars
  BY DEF RegisterMalformed, RegisterIncomplete, RegisterCreateFails, RegisterRemoveUnknown
<1>2. UNCHANGED <<info, gpEndpList>> /\ Listed' = Listed
  BY <1>1 DEF endpVars, Listed
<1>3. NullAlone'
  BY <1>2 DEF NullAlone, HostAt
<1>4. Bound' = Bound
  BY <1>2 DEF Bound
<1>5. ASSUME NEW codes, codes # <<>>, reply' = Plain(codes)
      PROVE  FinalAnswer' = [Registrar!NoAnswer EXCEPT !.code = Last(codes)]
  BY <1>5 DEF FinalAnswer, Plain, Registrar!NoAnswer
<1>6. Last(<<500>>) = 500 /\ Last(<<401>>) = 401 /\ Last(<<100, 500>>) = 500
  BY DEF Last
<1>7. CASE RegisterMalformed(r)
  <2>1. Registrar!Refuse(500)
    BY <1>4, <1>5, <1>6, <1>7 DEF RegisterMalformed, Registrar!Refuse
  <2> QED
    BY <1>3, <2>1 DEF Registrar!Next
<1>8. CASE RegisterIncomplete(r)
  <2>1. Registrar!Refuse(401)
    BY <1>4, <1>5, <1>6, <1>8 DEF RegisterIncomplete, Registrar!Refuse
  <2> QED
    BY <1>3, <2>1 DEF Registrar!Next
<1>9. CASE RegisterCreateFails(r)
  <2>1. Registrar!Refuse(500)
    BY <1>4, <1>5, <1>6, <1>9 DEF RegisterCreateFails, Registrar!Refuse
  <2> QED
    BY <1>3, <2>1 DEF Registrar!Next
<1>10. CASE RegisterRemoveUnknown(r)
  <2>1. \A d \in Listed : info[d].host # r.contact.host
    BY <1>10 DEF RegisterRemoveUnknown, NotFound, HostAt, Listed, ToSet
  <2>2. Listed' = {d \in Listed : info[d].host # r.contact.host}
    BY <1>2, <2>1
  <2> QED
    BY <1>2, <1>3, <1>10, <2>2, NowUnbound DEF RegisterRemoveUnknown
<1> QED
  BY <1>7, <1>8, <1>9, <1>10

LEMMA InviteIgnored ==
  ASSUME IInv, NullAlone, Serving, Serving', Invite
  PROVE  NullAlone' /\ Registrar!Next
<1>1. UNCHANGED <<info, gpEndpList>> /\ Listed' = Listed /\ reply'.sent = <<>>
  BY DEF Invite, endpVars, Listed, NoReply, Plain
<1>2. NullAlone' /\ Bound' = Bound
  BY <1>1 DEF NullAlone, HostAt, Bound
<1>3. FinalAnswer' = Registrar!NoAnswer
  BY <1>1 DEF FinalAnswer, Registrar!NoAnswer
<1>4. Registrar!Ignore
  BY <1>2, <1>3 DEF Registrar!Ignore
<1> QED
  BY <1>2, <1>4 DEF Registrar!Next

LEMMA StepServes ==
  ASSUME IInv, NullAlone, [Next]_vars
  PROVE  NullAlone' /\ [Registrar!Next]_<<Bound, FinalAnswer, ~Serving>>
<1>1. CASE ~Serving
  <2>1. ~Serving'
    BY <1>1, DeadForGood
  <2>2. /\ Bound = [h \in {} |-> NULL] /\ Bound' = [h \in {} |-> NULL]
        /\ FinalAnswer' = FinalAnswer
    BY <1>1, <2>1, NobodyBound DEF Bound, FinalAnswer
  <2> QED
    BY <1>1, <2>1, <2>2 DEF NullAlone
<1>2. CASE Serving /\ ~Serving'
  BY <1>2, Dies DEF NullAlone, Registrar!Next
<1>3. CASE Serving /\ Serving' /\ UNCHANGED vars
  <2>1. UNCHANGED <<info, gpEndpList, reply>> /\ Listed' = Listed
    BY <1>3 DEF vars, endpVars, Listed
  <2> QED
    BY <1>3, <2>1 DEF NullAlone, HostAt, Bound, FinalAnswer
<1>4. CASE Serving /\ Serving' /\ Invite
  BY <1>4, InviteIgnored
<1>5. ASSUME Serving, Serving', NEW r \in Requests, Register(r)
      PROVE  NullAlone' /\ Registrar!Next
  <2>1. ~RegisterWithoutContact(r) /\ ~RegisterLookupFaults(r)
        /\ \A i \in DOMAIN gpEndpList : ~RegisterRemoveOwner(r, i)
    BY <1>5 DEF Serving, Running, RegisterWithoutContact, RegisterLookupFaults, RegisterRemoveOwner
  <2> QED
    BY <1>5, <2>1, NewBinds, RefreshBinds, RemoveUnbinds, QuietServes DEF Register
<1> QED
  BY <1>1, <1>2, <1>3, <1>4, <1>5 DEF Next

\* As long as memory lasts, nothing is lost and the service lives until a fault.
LEMMA NothingLost ==
  ASSUME AllocFault = {}, lost = {}, starved = FALSE, Next
  PROVE  lost' = {} /\ starved' = FALSE
<1>1. ASSUME NEW e, NEW c, Store(e, c) PROVE lost' = {} /\ starved' = FALSE
  <2>1. starved' = FALSE
    BY <1>1 DEF Store, SetInfo, Strdup
  <2>2. lost' = {}
    BY <1>1 DEF Store, Add, Appended
  <2> QED
    BY <2>1, <2>2
<1>2. CASE UNCHANGED history
  BY <1>2 DEF history
<1>3. Invite => UNCHANGED history
  BY DEF Invite, endpVars
<1>4. ASSUME NEW r,
             \/ RegisterMalformed(r) \/ RegisterIncomplete(r) \/ RegisterWithoutContact(r)
             \/ RegisterLookupFaults(r) \/ RegisterCreateFails(r) \/ RegisterRemoveUnknown(r)
      PROVE  UNCHANGED history
  BY <1>4 DEF RegisterMalformed, RegisterIncomplete, RegisterWithoutContact,
     RegisterLookupFaults, RegisterCreateFails, RegisterRemoveUnknown, endpVars
<1>5. ASSUME NEW r, NEW i, RegisterRemove(r, i) \/ RegisterRemoveOwner(r, i)
      PROVE  UNCHANGED history
  BY <1>5 DEF RegisterRemove, RegisterRemoveOwner
<1>6. ASSUME NEW r, NEW e, RegisterNew(r, e) PROVE lost' = {} /\ starved' = FALSE
  BY <1>1, <1>6 DEF RegisterNew
<1>7. ASSUME NEW r, NEW i, RegisterRefresh(r, i) PROVE lost' = {} /\ starved' = FALSE
  BY <1>1, <1>7 DEF RegisterRefresh
<1> QED
  BY <1>2, <1>3, <1>4, <1>5, <1>6, <1>7 DEF Next, Register

\* The handler, the list behind it and their failures are a location service:
\* no sequence of requests and failed allocations makes it answer or forget what
\* LocationService would not.
THEOREM RegistrarIsLocationService == Spec => ImplementsLocationService
<1>1. Init => NullAlone /\ Registrar!Init
  <2> SUFFICES ASSUME Init PROVE NullAlone /\ Registrar!Init
    OBVIOUS
  <2>1. Listed = {} /\ Serving /\ reply.sent = <<>>
    BY DEF Init, Listed, ToSet, Serving, Running, NoReply, Plain
  <2>2. Bound = [h \in {} |-> NULL] /\ FinalAnswer = Registrar!NoAnswer
    BY <2>1, NobodyBound DEF Bound, FinalAnswer, Registrar!NoAnswer
  <2> QED
    BY <2>1, <2>2 DEF Init, NullAlone, Registrar!Init
<1>2. IInv /\ NullAlone /\ [Next]_vars =>
        NullAlone' /\ [Registrar!Next]_<<Bound, FinalAnswer, ~Serving>>
  BY StepServes
<1> QED
  BY <1>1, <1>2, InitIInv, NextIInv, PTL
     DEF Spec, ImplementsLocationService, Registrar!Spec, Registrar!vars
=============================================================================
