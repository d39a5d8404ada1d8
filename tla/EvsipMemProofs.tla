--------------------------- MODULE EvsipMemProofs ---------------------------
(***************************************************************************)
(* Proofs about EvsipMem, for any number of objects, references and nested *)
(* destructors.  CountInv speaks of the objects whose count fits its field *)
(* and asks nothing of the destructors; SafeInv adds what holds while none *)
(* of them has dropped the last reference of its own object.               *)
(***************************************************************************)
EXTENDS EvsipMem, SequenceTheorems, TLAPS

CountInv ==
  /\ TypeOK
  /\ CountIsHeld
  /\ HeldIsLive
  /\ NoLeak
  /\ NullMeansFreed

Orderly == wrapped = {} /\ reentered = {}

StackOK ==
  /\ fault = "none"
  /\ \A i \in DOMAIN destroying : destroying[i] \in dh /\ mem[destroying[i]] = "live"
  /\ \A i, j \in DOMAIN destroying : destroying[i] = destroying[j] => i = j

SafeInv == Orderly => StackOK

-----------------------------------------------------------------------------
(* A remainder by 2^32 is a count. *)
LEMMA ModInRange ==
  ASSUME NEW n \in Int
  PROVE  n % Word \in 0..(Word - 1)
  BY WordAssumption, SMT

(* The remainder by 2^32 of a count in range is the count itself. *)
LEMMA ModSmall ==
  ASSUME NEW n \in 0..(Word - 1)
  PROVE  n % Word = n
  BY WordAssumption, SMT

(* A reference more does not wrap unless the field is full. *)
LEMMA OneMore ==
  ASSUME NEW n \in 0..(Word - 1), n + 1 # Word
  PROVE  (n + 1) % Word = n + 1
  <1>1. n + 1 \in 0..(Word - 1)
    BY WordAssumption
  <1>. QED  BY <1>1, ModSmall

(* A reference less of what somebody owns does not wrap either. *)
LEMMA OneLess ==
  ASSUME NEW n \in 0..(Word - 1), n > 0
  PROVE  /\ (n - 1) % Word = n - 1
         /\ n - 1 \in 0..(Word - 1)
  <1>1. n - 1 \in 0..(Word - 1)
    BY WordAssumption
  <1>. QED  BY <1>1, ModSmall

(* Taking the innermost destructor off the stack leaves the others on it. *)
LEMMA Popped ==
  ASSUME NEW s \in Seq(Obj), s # <<>>
  PROVE  /\ Last(s) \in Obj
         /\ Last(s) = s[Len(s)]
         /\ Len(s) \in DOMAIN s
         /\ Front(s) \in Seq(Obj)
         /\ DOMAIN Front(s) = 1..(Len(s) - 1)
         /\ \A i \in 1..(Len(s) - 1) : Front(s)[i] = s[i]
         /\ \A o \in ToSet(s) : o # Last(s) => o \in ToSet(Front(s))
  <1>1. Len(s) \in Nat /\ Len(s) > 0
    BY EmptySeq, LenProperties
  <1>2. Last(s) = s[Len(s)] /\ Len(s) \in DOMAIN s /\ s[Len(s)] \in Obj
    BY <1>1, ElementOfSeq, LenProperties DEF Last
  <1>3. /\ Front(s) \in Seq(Obj)
        /\ DOMAIN Front(s) = 1..(Len(s) - 1)
        /\ \A i \in 1..(Len(s) - 1) : Front(s)[i] = s[i]
    BY <1>1 DEF Front
  <1>4. \A o \in ToSet(s) : o # Last(s) => o \in ToSet(Front(s))
    BY <1>1, <1>2, <1>3, LenProperties DEF ToSet
  <1>. QED  BY <1>1, <1>2, <1>3, <1>4

(* Appending a destructor keeps the ones below it. *)
LEMMA Pushed ==
  ASSUME NEW s \in Seq(Obj), NEW o \in Obj
  PROVE  /\ Append(s, o) \in Seq(Obj)
         /\ ToSet(Append(s, o)) = ToSet(s) \cup {o}
         /\ DOMAIN Append(s, o) = 1..(Len(s) + 1)
         /\ Append(s, o)[Len(s) + 1] = o
         /\ \A i \in DOMAIN s : Append(s, o)[i] = s[i]
  <1>1. Len(s) \in Nat /\ DOMAIN s = 1..Len(s)
    BY LenProperties
  <1>2. /\ Append(s, o) \in Seq(Obj)
        /\ DOMAIN Append(s, o) = 1..(Len(s) + 1)
        /\ Append(s, o)[Len(s) + 1] = o
        /\ \A i \in DOMAIN s : Append(s, o)[i] = s[i]
    BY <1>1
  <1>3. ToSet(Append(s, o)) = ToSet(s) \cup {o}
    BY <1>1, <1>2 DEF ToSet
  <1>. QED  BY <1>2, <1>3

(* A stack on which nobody is twice stays one when it grows by somebody new, *)
(* and when it shrinks the one that left is not on it any more.              *)
LEMMA PushedOnce ==
  ASSUME NEW s \in Seq(Obj), NEW o \in Obj, o \notin ToSet(s),
         \A i, j \in DOMAIN s : s[i] = s[j] => i = j
  PROVE  LET t == Append(s, o) IN
         /\ \A i, j \in DOMAIN t : t[i] = t[j] => i = j
         /\ \A i \in DOMAIN t : t[i] = o \/ (i \in DOMAIN s /\ t[i] = s[i])
  <1>. DEFINE t == Append(s, o)
  <1>1. Len(s) \in Nat /\ DOMAIN s = 1..Len(s) /\ ToSet(s) = {s[i] : i \in DOMAIN s}
    BY LenProperties DEF ToSet
  <1>2. DOMAIN t = 1..(Len(s) + 1) /\ t[Len(s) + 1] = o /\ \A i \in DOMAIN s : t[i] = s[i]
    BY Pushed
  <1>. HIDE DEF t
  <1>3. \A i \in DOMAIN s : t[i] # o
    BY <1>1, <1>2
  <1>4. \A i \in DOMAIN t : i \in DOMAIN s \/ i = Len(s) + 1
    BY <1>1, <1>2
  <1>. QED  BY <1>2, <1>3, <1>4 DEF t

LEMMA PoppedOnce ==
  ASSUME NEW s \in Seq(Obj), s # <<>>,
         \A i, j \in DOMAIN s : s[i] = s[j] => i = j
  PROVE  /\ \A i, j \in DOMAIN Front(s) : Front(s)[i] = Front(s)[j] => i = j
         /\ \A i \in DOMAIN Front(s) : /\ i \in DOMAIN s
                                      /\ Front(s)[i] = s[i]
                                      /\ Front(s)[i] # Last(s)
  <1>1. Len(s) \in Nat /\ DOMAIN s = 1..Len(s)
    BY LenProperties
  <1>2. \A n \in Nat : \A i \in 1..(n - 1) : i \in 1..n /\ i # n
    OBVIOUS
  <1>3. /\ Last(s) = s[Len(s)] /\ Len(s) \in DOMAIN s
        /\ DOMAIN Front(s) = 1..(Len(s) - 1)
        /\ \A i \in 1..(Len(s) - 1) : Front(s)[i] = s[i]
    BY Popped
  <1>. QED  BY <1>1, <1>2, <1>3

-----------------------------------------------------------------------------
(* The counting invariant. *)

LEMMA InitCount == Init => CountInv
  BY WordAssumption, HeldAssumption
     DEF Init, CountInv, TypeOK, CountIsHeld, HeldIsLive, NoLeak, NullMeansFreed, history

LEMMA NextCount ==
  ASSUME CountInv, [Next]_vars
  PROVE  CountInv'
  <1>. USE DEF CountInv, TypeOK, CountIsHeld, HeldIsLive, NoLeak, NullMeansFreed, Destroyed, history
  <1>1. ASSUME NEW o \in Obj, NEW d \in BOOLEAN, Alloc(o, d) PROVE CountInv'
    BY <1>1, WordAssumption, HeldAssumption DEF Alloc
  <1>2. ASSUME NEW o \in Obj, Ref(o) PROVE CountInv'
    <2>1. /\ mem[o] = "live" /\ held[o] + 1 \in 0..MaxHeld
          /\ nbRefs[o] \in 0..(Word - 1) /\ held[o] \in Nat
          /\ nbRefs' = [nbRefs EXCEPT ![o] = (nbRefs[o] + 1) % Word]
          /\ held' = [held EXCEPT ![o] = held[o] + 1]
          /\ wrapped' = IF nbRefs[o] + 1 = Word THEN wrapped \cup {o} ELSE wrapped
          /\ UNCHANGED <<mem, dh, destroying, ret, fault, reentered>>
      BY <1>2, HeldAssumption DEF Ref, Referable
    <2>2. (nbRefs[o] + 1) % Word \in 0..(Word - 1)
      <3>1. nbRefs[o] + 1 \in Int
        BY <2>1, WordAssumption
      <3>. HIDE DEF CountInv
      <3>. QED  BY <3>1, ModInRange
    <2>3. o \notin wrapped' => (nbRefs[o] + 1) % Word = held[o] + 1
      BY <2>1, OneMore
    <2>. HIDE DEF history
    <2>4. TypeOK'
      BY <2>1, <2>2
    <2>. QED  BY <2>1, <2>3, <2>4
  <1>3. ASSUME NEW o \in Obj, RefFreed(o) \/ DerefFreed(o) PROVE CountInv'
    BY <1>3 DEF RefFreed, DerefFreed
  <1>4. ASSUME NEW o \in Obj, DerefKeeps(o) \/ DerefFrees(o) \/ DerefDestroys(o) PROVE CountInv'
    <2>1. /\ mem[o] = "live" /\ held[o] \in 1..MaxHeld /\ held[o] - 1 \in 0..MaxHeld
          /\ nbRefs[o] \in 0..(Word - 1)
          /\ nbRefs' = [nbRefs EXCEPT ![o] = Left(o)]
          /\ held' = [held EXCEPT ![o] = held[o] - 1]
      BY <1>4, HeldAssumption DEF DerefKeeps, DerefFrees, DerefDestroys, Dereferable, Counted
    <2>2. Left(o) \in 0..(Word - 1)
      <3>1. nbRefs[o] - 1 \in Int
        BY <2>1, WordAssumption
      <3>. HIDE DEF CountInv
      <3>. QED  BY <3>1, ModInRange DEF Left
    <2>3. o \notin wrapped => Left(o) = held[o] - 1
      BY <2>1, OneLess, HeldAssumption DEF Left
    <2>4. CASE DerefKeeps(o)
      BY <2>1, <2>2, <2>3, <2>4, ObjAssumption DEF DerefKeeps, Returns
    <2>5. CASE DerefFrees(o)
      BY <2>1, <2>2, <2>3, <2>5 DEF DerefFrees, Returns
    <2>6. CASE DerefDestroys(o)
      <3>1. /\ destroying' \in Seq(Obj)
            /\ ToSet(destroying') = ToSet(destroying) \cup {o}
        BY <2>6, Pushed DEF DerefDestroys
      <3>. QED  BY <2>1, <2>2, <2>3, <2>6, <3>1 DEF DerefDestroys
    <2>. QED  BY <1>4, <2>4, <2>5, <2>6
  <1>5. ASSUME DestructorReturns PROVE CountInv'
    <2>. DEFINE o == Last(destroying)
    <2>1. destroying \in Seq(Obj) /\ destroying # <<>>
      BY <1>5 DEF DestructorReturns
    <2>2. /\ o \in Obj /\ Front(destroying) \in Seq(Obj)
          /\ \A p \in ToSet(destroying) : p # o => p \in ToSet(Front(destroying))
      BY <2>1, Popped
    <2>. HIDE DEF o
    <2>3. CASE mem[o] = "live" /\ nbRefs[o] > 0
      BY <1>5, <2>2, <2>3, ObjAssumption DEF DestructorReturns, Returns, o
    <2>4. CASE mem[o] = "live" /\ nbRefs[o] = 0
      <3>1. /\ mem' = [mem EXCEPT ![o] = "freed"]
            /\ ret' = [of |-> o, value |-> NULL]
            /\ destroying' = Front(destroying)
            /\ UNCHANGED <<nbRefs, dh, held, fault, wrapped, reentered>>
        BY <1>5, <2>4 DEF DestructorReturns, Returns, o
      <3>2. o \notin wrapped => held[o] = 0
        BY <2>2, <2>4
      <3>3. TypeOK'
        BY <2>2, <3>1
      <3>4. CountIsHeld' /\ HeldIsLive' /\ NoLeak'
        BY <2>2, <3>1, <3>2
      <3>. QED  BY <2>2, <3>1, <3>3, <3>4
    <2>5. CASE mem[o] = "freed"
      BY <1>5, <2>5 DEF DestructorReturns, o
    <2>. QED  BY <1>5, <2>2, <2>3, <2>4, <2>5 DEF DestructorReturns, o
  <1>6. CASE UNCHANGED vars
    BY <1>6 DEF vars
  <1>. QED  BY <1>1, <1>2, <1>3, <1>4, <1>5, <1>6 DEF Next

-----------------------------------------------------------------------------
(* What is added when no destructor drops its own object. *)

LEMMA InitSafe == Init => SafeInv
  BY DEF Init, SafeInv, StackOK

(* A step that pushes and pops nothing, and frees nothing that is on the stack. *)
LEMMA StackKept ==
  ASSUME StackOK, UNCHANGED <<destroying, fault>>, dh \subseteq dh',
         \A i \in DOMAIN destroying : mem'[destroying[i]] = mem[destroying[i]]
  PROVE  StackOK'
  BY DEF StackOK

LEMMA NextStack ==
  ASSUME CountInv, Orderly', StackOK, Orderly, [Next]_vars
  PROVE  StackOK'
  <1>0. /\ destroying \in Seq(Obj) /\ ToSet(destroying) = {destroying[i] : i \in DOMAIN destroying}
        /\ mem \in [Obj -> {"none", "live", "freed"}] /\ dh \subseteq Obj
    BY DEF ToSet, CountInv, TypeOK
  <1>a. \A i \in DOMAIN destroying : destroying[i] \in dh /\ mem[destroying[i]] = "live"
    BY DEF StackOK
  <1>1. ASSUME NEW o \in Obj, NEW d \in BOOLEAN, Alloc(o, d) PROVE StackOK'
    <2>1. /\ mem[o] = "none" /\ mem' = [mem EXCEPT ![o] = "live"] /\ dh \subseteq dh'
          /\ UNCHANGED <<destroying, fault>>
      BY <1>1 DEF Alloc
    <2>2. \A i \in DOMAIN destroying : mem'[destroying[i]] = mem[destroying[i]]
      BY <1>0, <1>a, <2>1
    <2>. QED  BY <2>1, <2>2, StackKept
  <1>2. ASSUME NEW o \in Obj, Ref(o) \/ DerefKeeps(o) PROVE StackOK'
    BY <1>2, StackKept DEF Ref, DerefKeeps
  <1>3. ASSUME NEW o \in Obj PROVE ~RefFreed(o) /\ ~DerefFreed(o)
    <2>1. o \in Destroyed => mem[o] = "live"
      BY <1>0, <1>a DEF Destroyed
    <2>2. held[o] > 0 => mem[o] = "live"
      BY DEF CountInv, HeldIsLive, Orderly
    <2>. QED  BY <2>1, <2>2 DEF RefFreed, DerefFreed, Referable, Dereferable
  <1>4. ASSUME NEW o \in Obj, DerefFrees(o) PROVE StackOK'
    <2>1. o \notin dh /\ mem' = [mem EXCEPT ![o] = "freed"] /\ UNCHANGED <<dh, destroying, fault>>
      BY <1>4 DEF DerefFrees
    <2>2. \A i \in DOMAIN destroying : mem'[destroying[i]] = mem[destroying[i]]
      BY <1>0, <1>a, <2>1
    <2>. QED  BY <2>1, <2>2, StackKept
  <1>5. ASSUME NEW o \in Obj, DerefDestroys(o) PROVE StackOK'
    <2>1. /\ o \in dh /\ mem[o] = "live" /\ destroying' = Append(destroying, o)
          /\ UNCHANGED <<mem, dh, fault>>
      BY <1>5 DEF DerefDestroys
    <2>2. o \notin ToSet(destroying)
      BY <1>5 DEF DerefDestroys, Destroyed, Orderly
    <2>3. \A i, j \in DOMAIN destroying : destroying[i] = destroying[j] => i = j
      BY DEF StackOK
    <2>4. /\ \A i, j \in DOMAIN destroying' : destroying'[i] = destroying'[j] => i = j
          /\ \A i \in DOMAIN destroying' :
               destroying'[i] = o \/ (i \in DOMAIN destroying /\ destroying'[i] = destroying[i])
      BY <1>0, <2>1, <2>2, <2>3, PushedOnce
    <2>5. \A i \in DOMAIN destroying' : destroying'[i] \in dh /\ mem[destroying'[i]] = "live"
      BY <1>a, <2>1, <2>4
    <2>6. fault = "none"
      BY DEF StackOK
    <2>. QED  BY <2>1, <2>4, <2>5, <2>6 DEF StackOK
  <1>6. ASSUME DestructorReturns PROVE StackOK'
    <2>. DEFINE o == Last(destroying)
    <2>1. destroying # <<>>
      BY <1>6 DEF DestructorReturns
    <2>a. \A i, j \in DOMAIN destroying : destroying[i] = destroying[j] => i = j
      BY DEF StackOK
    <2>2. /\ \A i, j \in DOMAIN Front(destroying) : Front(destroying)[i] = Front(destroying)[j] => i = j
          /\ \A i \in DOMAIN Front(destroying) : /\ i \in DOMAIN destroying
                                                /\ Front(destroying)[i] = destroying[i]
                                                /\ Front(destroying)[i] # o
      BY <1>0, <2>1, <2>a, PoppedOnce
    <2>3. o \in Obj /\ mem[o] = "live"
      BY <1>0, <1>a, <2>1, Popped
    <2>4. destroying' = Front(destroying) /\ UNCHANGED <<dh, fault>>
      BY <1>6, <2>3 DEF DestructorReturns
    <2>5. mem' = mem \/ mem' = [mem EXCEPT ![o] = "freed"]
      BY <1>6 DEF DestructorReturns
    <2>. HIDE DEF o
    <2>6. ASSUME NEW i \in DOMAIN destroying'
          PROVE  destroying'[i] \in dh /\ mem'[destroying'[i]] = "live"
      <3>1. i \in DOMAIN destroying /\ destroying'[i] = destroying[i] /\ destroying[i] # o
        BY <2>2, <2>4
      <3>2. destroying[i] \in dh /\ mem[destroying[i]] = "live"
        BY <1>a, <3>1
      <3>3. mem'[destroying[i]] = mem[destroying[i]]
        BY <1>0, <2>3, <2>5, <3>1, <3>2
      <3>. QED  BY <3>1, <3>2, <3>3
    <2>7. \A i, j \in DOMAIN destroying' : destroying'[i] = destroying'[j] => i = j
      BY <2>2, <2>4
    <2>8. fault = "none"
      BY DEF StackOK
    <2>. QED  BY <2>4, <2>6, <2>7, <2>8 DEF StackOK
  <1>7. CASE UNCHANGED vars
    BY <1>7, StackKept DEF vars
  <1>. QED  BY <1>1, <1>2, <1>3, <1>4, <1>5, <1>6, <1>7 DEF Next

(* Both histories only grow, so a step to an orderly state starts in one. *)
LEMMA NextSafe ==
  ASSUME CountInv, SafeInv, [Next]_vars
  PROVE  SafeInv'
  <1>1. wrapped \subseteq wrapped' /\ reentered \subseteq reentered'
    BY DEF Next, vars, history, Alloc, Ref, RefFreed, DerefKeeps, DerefFrees, DerefDestroys, DerefFreed,
           DestructorReturns
  <1>2. Orderly' => Orderly
    BY <1>1 DEF Orderly
  <1>. QED  BY <1>2, NextStack DEF SafeInv

-----------------------------------------------------------------------------
(* The theorems. *)

(* The counting invariant holds in every reachable state. *)
THEOREM Counting == Spec => []CountInv
  BY InitCount, NextCount, PTL DEF Spec

(* Headers, counts and the stack of destructors keep their types, whatever *)
(* wraps.                                                                  *)
THEOREM TypeCorrect == Spec => []TypeOK
  <1>1. CountInv => TypeOK
    BY DEF CountInv
  <1>. QED  BY <1>1, Counting, PTL

(* nbRefs is the number of references the callers own, however the calls of *)
(* evsip_mem_ref and evsip_mem_deref nest in destructors.                   *)
THEOREM CountTruthful == Spec => []CountIsHeld
  <1>1. CountInv => CountIsHeld
    BY DEF CountInv
  <1>. QED  BY <1>1, Counting, PTL

(* An object is never given back while a caller still owns a reference. *)
THEOREM HeldObjectsLive == Spec => []HeldIsLive
  <1>1. CountInv => HeldIsLive
    BY DEF CountInv
  <1>. QED  BY <1>1, Counting, PTL

(* An object without references is given back, at the latest when its *)
(* destructor returns.                                                *)
THEOREM NothingLeaks == Spec => []NoLeak
  <1>1. CountInv => NoLeak
    BY DEF CountInv
  <1>. QED  BY <1>1, Counting, PTL

(* NULL from evsip_mem_deref means the object is gone. *)
THEOREM NullIsTruthful == Spec => []NullMeansFreed
  <1>1. CountInv => NullMeansFreed
    BY DEF CountInv
  <1>. QED  BY <1>1, Counting, PTL

(* No header that is gone is touched, as long as no count wrapped and no *)
(* destructor dropped the last reference of the object it destroys.      *)
THEOREM NeverAfterFree == Spec => []MemorySafe
  <1>1. Init => CountInv /\ SafeInv
    BY InitCount, InitSafe
  <1>2. CountInv /\ SafeInv /\ [Next]_vars => CountInv' /\ SafeInv'
    BY NextCount, NextSafe
  <1>3. SafeInv => MemorySafe
    BY DEF SafeInv, Orderly, StackOK, MemorySafe
  <1>. QED  BY <1>1, <1>2, <1>3, PTL DEF Spec
=============================================================================
