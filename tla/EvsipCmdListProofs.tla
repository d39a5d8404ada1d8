-------------------------- MODULE EvsipCmdListProofs --------------------------
(***************************************************************************)
(* Proofs about EvsipCmdList, for any number of commands, any names and    *)
(* whichever allocations fail: what the index of a command is worth while  *)
(* others come and go.                                                     *)
(***************************************************************************)
EXTENDS EvsipCmdList, ListLemmas

\* A command is listed once, alive and with its name; its index is never
\* before its position.
ItemsOK ==
  /\ \A i, j \in DOMAIN items : items[i] = items[j] => i = j
  /\ \A i \in DOMAIN items : home[items[i]] = "live" /\ index[items[i]] >= i - 1

\* Only what was just registered or found may be destroyed: its index is its
\* position, or behind the end if it is not listed.
SureOK ==
  /\ \A i \in DOMAIN items : items[i] \in sure => index[items[i]] = i - 1
  /\ \A c \in sure \ Listed : index[c] >= Len(items)

LiveNamed == \A c \in Cmd : home[c] = "live" => cmd[c] \in Name

IInv == TypeOK /\ ItemsOK /\ SureOK /\ LiveNamed

LEMMA InitIInv == Init => IInv
<1> SUFFICES ASSUME Init PROVE IInv
  OBVIOUS
<1>1. TypeOK
  BY DEF Init, TypeOK
<1>2. ItemsOK /\ SureOK /\ LiveNamed
  BY DEF Init, ItemsOK, SureOK, LiveNamed, Listed, ToSet
<1> QED
  BY <1>1, <1>2 DEF IInv

-----------------------------------------------------------------------------
(* One step of each operation. *)

LEMMA CmdInitIInv ==
  ASSUME IInv, NEW c \in Cmd, NEW n \in Name, CmdInit(c, n)
  PROVE  IInv'
<1>1. TypeOK'
  BY DEF IInv, TypeOK, CmdInit
<1>2. \A i \in DOMAIN items : items[i] # c
  BY DEF IInv, ItemsOK, CmdInit
<1>3. ItemsOK'
  BY <1>2 DEF IInv, TypeOK, ItemsOK, CmdInit
<1>4. SureOK'
  BY DEF IInv, SureOK, CmdInit, Listed
<1>5. LiveNamed'
  BY DEF IInv, TypeOK, LiveNamed, CmdInit
<1> QED
  BY <1>1, <1>3, <1>4, <1>5 DEF IInv

LEMMA CmdAppendIInv ==
  ASSUME IInv, NEW c \in Cmd, Registrable(c), CmdAppend(c),
         UNCHANGED <<vector, cmd, home, fault>>
  PROVE  IInv'
<1> DEFINE n == Len(items)
<1>1. n \in Nat /\ DOMAIN items = 1..n /\ items \in Seq(Cmd)
  BY DEF IInv, TypeOK
<1>2. /\ items' \in Seq(Cmd) /\ DOMAIN items' = 1..(n + 1) /\ Len(items') = n + 1
      /\ items'[n + 1] = c
      /\ \A i \in 1..n : items'[i] = items[i]
  BY <1>1 DEF CmdAppend
<1>3. index' \in [Cmd -> Nat] /\ index'[c] = n /\ \A d \in Cmd : d # c => index'[d] = index[d]
  BY <1>1 DEF IInv, TypeOK, CmdAppend
<1>4. \A i \in 1..n : items[i] # c /\ items[i] \in Cmd
  BY <1>1 DEF Registrable, Listed, ToSet
<1> HIDE DEF n
<1>5. TypeOK'
  BY <1>2, <1>3 DEF IInv, TypeOK, CmdAppend
<1>6. ItemsOK'
  <2>1. \A i, j \in 1..(n + 1) : items'[i] = items'[j] => i = j
    BY <1>1, <1>2, <1>4 DEF IInv, ItemsOK
  <2>2. \A i \in 1..n : home[items[i]] = "live" /\ index[items[i]] >= i - 1
    BY <1>1 DEF IInv, ItemsOK
  <2>3. \A i \in 1..n : home'[items'[i]] = "live" /\ index'[items'[i]] >= i - 1
    BY <1>2, <1>3, <1>4, <2>2
  <2>4. home'[items'[n + 1]] = "live" /\ index'[items'[n + 1]] >= n + 1 - 1
    BY <1>1, <1>2, <1>3 DEF Registrable
  <2> QED
    BY <1>1, <1>2, <2>1, <2>3, <2>4 DEF ItemsOK
<1>7. SureOK'
  <2>1. sure' \subseteq Listed'
    BY <1>1, <1>2 DEF CmdAppend, Listed, ToSet
  <2>2. \A i \in DOMAIN items' : items'[i] \in sure' => index'[items'[i]] = i - 1
    BY <1>1, <1>2, <1>3, <1>4 DEF IInv, SureOK, CmdAppend
  <2> QED
    BY <2>1, <2>2 DEF SureOK
<1>8. LiveNamed'
  BY DEF IInv, LiveNamed
<1> QED
  BY <1>5, <1>6, <1>7, <1>8 DEF IInv

LEMMA CmdAppendFailsIInv ==
  ASSUME IInv, NEW c \in Cmd, Registrable(c), CmdAppendFails(c),
         UNCHANGED <<vector, cmd, home, fault>>
  PROVE  IInv'
<1>1. Len(items) \in Nat /\ \A i \in DOMAIN items : items[i] # c /\ items[i] \in Cmd
  BY DEF IInv, TypeOK, Registrable, Listed, ToSet
<1>2. /\ index' \in [Cmd -> Nat] /\ index'[c] = Len(items)
      /\ \A d \in Cmd : d # c => index'[d] = index[d]
  BY <1>1 DEF IInv, TypeOK, CmdAppendFails
<1>3. TypeOK'
  BY <1>2 DEF IInv, TypeOK, CmdAppendFails
<1>4. ItemsOK'
  BY <1>1, <1>2 DEF IInv, ItemsOK, CmdAppendFails
<1>5. SureOK'
  BY <1>1, <1>2 DEF IInv, TypeOK, SureOK, CmdAppendFails, Listed
<1>6. LiveNamed'
  BY DEF IInv, LiveNamed
<1> QED
  BY <1>3, <1>4, <1>5, <1>6 DEF IInv

LEMMA CmdFindIInv ==
  ASSUME IInv, NEW text, CmdFind(text)
  PROVE  IInv'
<1>1. CASE FindHits(text) /\ Indexed(text) /\ UNCHANGED fault
  <2> DEFINE i == Min(StopsAt(text))
  <2>1. StopsAt(text) \in SUBSET Nat /\ StopsAt(text) # {}
    BY <1>1 DEF IInv, TypeOK, StopsAt, FindHits, Hit
  <2>2. i \in StopsAt(text)
    BY <2>1, MinOfPositions
  <2> HIDE DEF i
  <2>3. i \in DOMAIN items /\ i >= 1 /\ i - 1 \in Nat
    BY <2>2 DEF IInv, TypeOK, StopsAt
  <2>4. Hit(text) = items[i] /\ items[i] \in Cmd
    BY <2>1, <2>3 DEF Hit, i, IInv, TypeOK
  <2>5. /\ index' \in [Cmd -> Nat] /\ index'[items[i]] = i - 1
        /\ \A d \in Cmd : d # items[i] => index'[d] = index[d]
    BY <1>1, <2>3, <2>4 DEF Indexed, i, IInv, TypeOK
  <2>6. sure' = sure \cup {items[i]} /\ UNCHANGED <<vector, items, cmd, home, fault>>
    BY <1>1, <2>4 DEF Indexed, CmdFind
  <2>7. \A j \in DOMAIN items : items[j] \in Cmd /\ (items[j] = items[i] => j = i)
    BY <2>3 DEF IInv, TypeOK, ItemsOK
  <2>8. TypeOK'
    BY <2>4, <2>5, <2>6 DEF IInv, TypeOK
  <2>9. ItemsOK'
    <3>1. \A j \in DOMAIN items : home[items[j]] = "live" /\ index[items[j]] >= j - 1
      BY DEF IInv, ItemsOK
    <3>2. \A j \in DOMAIN items : index'[items[j]] >= j - 1
      BY <2>3, <2>5, <2>7, <3>1
    <3>3. \A j, k \in DOMAIN items : items[j] = items[k] => j = k
      BY DEF IInv, ItemsOK
    <3> QED
      BY <2>6, <3>1, <3>2, <3>3 DEF ItemsOK
  <2>10. SureOK'
    <3>1. \A c \in sure' \ Listed : c \in sure \ Listed /\ c \in Cmd /\ c # items[i]
      BY <2>3, <2>6 DEF IInv, TypeOK, Listed, ToSet
    <3> QED
      BY <2>5, <2>6, <2>7, <3>1 DEF IInv, SureOK, Listed
  <2>11. LiveNamed'
    BY <2>6 DEF IInv, LiveNamed
  <2> QED
    BY <2>8, <2>9, <2>10, <2>11 DEF IInv
<1>2. CASE UNCHANGED <<index, sure>> /\ fault' \in {"none", "bad_read"}
  BY <1>2 DEF CmdFind, IInv, TypeOK, ItemsOK, SureOK, LiveNamed, Listed
<1> QED
  BY <1>1, <1>2 DEF CmdFind

\* The command that goes is the one at its own index, or nothing goes.
LEMMA DestroyRemovesItself ==
  ASSUME IInv, NEW c \in Cmd, CmdDestroy(c)
  PROVE  \/ /\ c \notin Listed /\ items' = items
         \/ /\ index[c] + 1 \in 1..Len(items) /\ items[index[c] + 1] = c
            /\ items' = RemoveAt(items, index[c] + 1)
<1>1. CASE c \in Listed
  <2>1. PICK i \in DOMAIN items : items[i] = c
    BY <1>1 DEF Listed, ToSet
  <2>2. index[c] = i - 1
    BY <2>1 DEF IInv, SureOK, CmdDestroy
  <2>3. i \in 1..Len(items) /\ Len(items) \in Nat
    BY <2>1 DEF IInv, TypeOK
  <2> QED
    BY <2>1, <2>2, <2>3 DEF CmdDestroy
<1>2. CASE c \notin Listed
  <2>1. index[c] >= Len(items) /\ index[c] \in Nat /\ Len(items) \in Nat
    BY <1>2 DEF IInv, SureOK, TypeOK, CmdDestroy
  <2> QED
    BY <1>2, <2>1 DEF CmdDestroy
<1> QED
  BY <1>1, <1>2

LEMMA CmdDestroyIInv ==
  ASSUME IInv, NEW c \in Cmd, CmdDestroy(c)
  PROVE  IInv' /\ Listed \ Listed' \subseteq {c}
<1>1. /\ sure' = {} /\ UNCHANGED <<vector, cmd, index, fault>>
      /\ home' \in [Cmd -> {"none", "live", "released"}]
      /\ \A d \in Cmd : d # c => home'[d] = home[d]
      /\ home'[c] = "released"
  BY DEF IInv, TypeOK, CmdDestroy
<1>2. LiveNamed'
  BY <1>1 DEF IInv, LiveNamed
<1>3. CASE c \notin Listed /\ items' = items
  <2>1. \A i \in DOMAIN items : items[i] # c /\ items[i] \in Cmd
    BY <1>3 DEF IInv, TypeOK, Listed, ToSet
  <2>2. TypeOK' /\ ItemsOK' /\ SureOK'
    BY <1>1, <1>3, <2>1 DEF IInv, TypeOK, ItemsOK, SureOK
  <2> QED
    BY <1>2, <1>3, <2>2 DEF IInv, Listed
<1>4. CASE /\ index[c] + 1 \in 1..Len(items) /\ items[index[c] + 1] = c
           /\ items' = RemoveAt(items, index[c] + 1)
  <2> DEFINE i == index[c] + 1
             n == Len(items)
  <2>1. n \in Nat /\ DOMAIN items = 1..n /\ items \in Seq(Cmd)
    BY DEF IInv, TypeOK
  <2>2. i \in 1..n /\ items[i] = c
    BY <1>4
  <2>3. /\ items' \in Seq(Cmd)
        /\ \A j \in 1..(n - 1) : items'[j] = IF j < i THEN items[j] ELSE items[j + 1]
    <3> DEFINE r == RemoveAt(items, i)
    <3>1. r \in Seq(Cmd)
      BY <2>1, <2>2, RemoveAtShifts
    <3>2. \A j \in 1..(n - 1) : r[j] = IF j < i THEN items[j] ELSE items[j + 1]
      BY <2>1, <2>2, RemoveAtShifts, Zenon
    <3>3. items' = r
      BY <1>4
    <3> HIDE DEF r, i, n
    <3> QED
      BY <3>1, <3>2, <3>3
  <2>4. DOMAIN items' = 1..(n - 1)
    <3>1. RemoveAt(items, i) \in Seq(Cmd) /\ Len(RemoveAt(items, i)) = n - 1
      BY <2>1, <2>2, RemoveAtShifts, Zenon
    <3> QED
      BY <1>4, <3>1
  <2> HIDE DEF i, n
  <2>5. \A j, k \in 1..n : items[j] = items[k] => j = k
    BY <2>1 DEF IInv, ItemsOK
  <2>6. \A j \in 1..n : items[j] \in Cmd /\ (items[j] = c => j = i)
    BY <2>1, <2>2, <2>5
  <2>7. ItemsOK'
    <3>1. \A j, k \in DOMAIN items' : items'[j] = items'[k] => j = k
      BY <2>1, <2>2, <2>3, <2>4, <2>5
    <3>2. ASSUME NEW j \in DOMAIN items'
          PROVE  home'[items'[j]] = "live" /\ index'[items'[j]] >= j - 1
      <4>1. PICK k \in 1..n : items'[j] = items[k] /\ k # i /\ k >= j
        BY <2>1, <2>2, <2>3, <2>4
      <4>2. items[k] \in Cmd /\ items[k] # c
        BY <4>1, <2>6
      <4>3. home[items[k]] = "live" /\ index[items[k]] >= k - 1 /\ index[items[k]] \in Nat
        BY <2>1, <4>1, <4>2 DEF IInv, TypeOK, ItemsOK
      <4> QED
        BY <1>1, <2>1, <2>4, <4>1, <4>2, <4>3
    <3> QED
      BY <3>1, <3>2 DEF ItemsOK
  <2>8. TypeOK' /\ SureOK'
    BY <1>1, <2>3 DEF IInv, TypeOK, SureOK
  <2>9. Listed \ Listed' \subseteq {c}
    <3>1. ASSUME NEW k \in 1..n, k # i
          PROVE  \E j \in 1..(n - 1) : items'[j] = items[k]
      <4>1. CASE k < i
        <5>1. k \in 1..(n - 1) /\ items'[k] = items[k]
          BY <2>1, <2>2, <2>3, <2>4, <4>1
        <5> QED
          BY <5>1
      <4>2. CASE k > i
        <5>1. k - 1 \in 1..(n - 1) /\ items'[k - 1] = items[k]
          BY <2>1, <2>2, <2>3, <2>4, <4>2
        <5> QED
          BY <5>1
      <4> QED
        BY <2>2, <3>1, <4>1, <4>2
    <3> QED
      BY <2>1, <2>2, <2>4, <3>1 DEF Listed, ToSet
  <2> QED
    BY <1>2, <2>7, <2>8, <2>9 DEF IInv
<1> QED
  BY <1>3, <1>4, DestroyRemovesItself

LEMMA CmdDestroyAllIInv ==
  ASSUME IInv, CmdDestroyAll
  PROVE  IInv'
<1>1. CASE vector = "live" /\ vector' = "freed" /\ items' = <<>> /\ sure' = {} /\ UNCHANGED fault
  <2>1. TypeOK'
    BY <1>1 DEF IInv, TypeOK, CmdDestroyAll
  <2>2. ItemsOK' /\ SureOK' /\ LiveNamed'
    BY <1>1 DEF IInv, ItemsOK, SureOK, LiveNamed, CmdDestroyAll
  <2> QED
    BY <2>1, <2>2 DEF IInv
<1>2. CASE UNCHANGED <<vector, items, sure>> /\ fault' \in {"none", "bad_read"}
  BY <1>2 DEF CmdDestroyAll, IInv, TypeOK, ItemsOK, SureOK, LiveNamed, Listed
<1> QED
  BY <1>1, <1>2 DEF CmdDestroyAll

LEMMA NextIInv == IInv /\ [Next]_vars => IInv'
<1> SUFFICES ASSUME IInv, [Next]_vars PROVE IInv'
  OBVIOUS
<1>1. ASSUME NEW c \in Cmd, NEW n \in Name, CmdInit(c, n) PROVE IInv'
  BY <1>1, CmdInitIInv
<1>2. ASSUME NEW c \in Cmd, CmdRegister(c) PROVE IInv'
  BY <1>2, CmdAppendIInv, CmdAppendFailsIInv DEF CmdRegister
<1>3. ASSUME NEW c \in Cmd, CmdDestroy(c) PROVE IInv'
  BY <1>3, CmdDestroyIInv
<1>4. ASSUME NEW text \in Name, CmdFind(text) PROVE IInv'
  BY <1>4, CmdFindIInv
<1>5. CASE CmdDestroyAll
  BY <1>5, CmdDestroyAllIInv
<1>6. CASE UNCHANGED vars
  BY <1>6 DEF vars, cmdlVars, IInv, TypeOK, ItemsOK, SureOK, LiveNamed, Listed
<1> QED
  BY <1>1, <1>2, <1>3, <1>4, <1>5, <1>6 DEF Next

LEMMA Invariance == Spec => []IInv
  BY InitIInv, NextIInv, PTL DEF Spec

-----------------------------------------------------------------------------
(* The properties of the run `cmd_list'. *)

LEMMA PositionOfItem ==
  ASSUME IInv, NEW c \in Listed
  PROVE  Position(c) \in DOMAIN items /\ items[Position(c)] = c
  BY DEF Listed, ToSet, Position

\* Every variable has the shape the C declarations give it.
THEOREM TypeCorrect == Spec => []TypeOK
<1>1. IInv => TypeOK
  BY DEF IInv
<1> QED
  BY <1>1, Invariance, PTL

\* evsip_cli_cmd_destroy of a command that was just registered or found takes
\* out this command, and nothing when the registration failed.
THEOREM IndexIsSure == Spec => []SureIndex
<1>1. IInv => SureIndex
  BY PositionOfItem DEF IInv, TypeOK, SureOK, SureIndex
<1> QED
  BY <1>1, Invariance, PTL

\* evsip_cli_cmd_find and "help" never read the name of a destroyed command.
THEOREM ListIsUsable == Spec => []ListedUsable
<1>1. IInv => ListedUsable
  BY NullAssumption DEF IInv, TypeOK, ItemsOK, LiveNamed, ListedUsable, Listed, ToSet
<1> QED
  BY <1>1, Invariance, PTL

\* An index that was passed over by removals points at its command or behind.
THEOREM StaleIndexIsBehind == Spec => []StaleIndexNotBefore
<1>1. IInv => StaleIndexNotBefore
  BY PositionOfItem DEF IInv, ItemsOK, StaleIndexNotBefore
<1> QED
  BY <1>1, Invariance, PTL

\* Destroying one command takes no other one out of the list.
THEOREM OthersStay == Spec => OnlyDestroyedLeave
<1>1. IInv /\ [Next]_vars =>
        [vector' = "live" => \A c \in Listed \ ToSet(items') : home'[c] = "released"]_vars
  <2> SUFFICES ASSUME IInv, Next, vector' = "live"
               PROVE  \A c \in Listed \ ToSet(items') : home'[c] = "released"
    OBVIOUS
  <2>1. ASSUME NEW c \in Cmd, NEW n \in Name, CmdInit(c, n) PROVE items' = items
    BY <2>1 DEF CmdInit
  <2>2. ASSUME NEW c \in Cmd, CmdRegister(c) PROVE Listed \subseteq Listed'
    <3>1. CASE CmdAppend(c)
      <4>1. /\ DOMAIN items \subseteq DOMAIN items'
            /\ \A i \in DOMAIN items : items'[i] = items[i]
        BY <3>1 DEF CmdAppend, IInv, TypeOK
      <4> QED
        BY <4>1 DEF Listed, ToSet
    <3>2. CASE CmdAppendFails(c)
      <4>1. items' = items
        BY <3>2 DEF CmdAppendFails
      <4> QED
        BY <4>1 DEF Listed
    <3> QED
      BY <2>2, <3>1, <3>2 DEF CmdRegister
  <2>3. ASSUME NEW c \in Cmd, CmdDestroy(c)
        PROVE  Listed \ Listed' \subseteq {c} /\ home'[c] = "released"
    BY <2>3, CmdDestroyIInv DEF CmdDestroy, IInv, TypeOK
  <2>4. ASSUME NEW text \in Name, CmdFind(text) PROVE items' = items
    BY <2>4 DEF CmdFind
  <2>5. CASE CmdDestroyAll
    <3>1. items' = items
      BY <2>5 DEF CmdDestroyAll
    <3> QED
      BY <3>1 DEF Listed
  <2> QED
    BY <2>1, <2>2, <2>3, <2>4, <2>5 DEF Next, Listed
<1> QED
  BY <1>1, Invariance, PTL DEF Spec, OnlyDestroyedLeave
===============================================================================
