------------------------------ MODULE EvsipMem ------------------------------
(***************************************************************************)
(* Reference counted memory objects (src/src/evsip_mem.c).  The module is  *)
(* a library for one thread; its difficulty is that evsip_mem_deref calls  *)
(* the object's destructor in the middle, and that a destructor is code    *)
(* like any other: it may reference, dereference and allocate objects, the *)
(* one it destroys included.  `destroying' is the stack of the destructors *)
(* in progress, so every action below may run inside any of them.          *)
(*                                                                         *)
(* The callers are modelled by `held', the references they own.  They      *)
(* dereference what they own, and reference what they own or what is being *)
(* destroyed under their hands (the argument of the destructor).           *)
(*                                                                         *)
(* Reading or writing a header that su_free has taken back sets `fault'.   *)
(* Two history variables say which objects were used beyond what the       *)
(* library can do: `wrapped', whose count did not fit its field, and       *)
(* `reentered', whose last reference went a second time while their        *)
(* destructor was running.                                                 *)
(***************************************************************************)
EXTENDS Integers, SequencesExt

CONSTANTS
  Obj,       \* memory objects, each allocated at most once (bound)
  NULL,
  Word,      \* 2^32 in the code: nbRefs is a uint32_t
  MaxHeld,   \* references the callers own of one object (bound)
  MaxDepth   \* destructors nested in one another (bound)

ASSUME ObjAssumption == NULL \notin Obj
ASSUME WordAssumption == Word \in Nat /\ Word > 1
ASSUME HeldAssumption == MaxHeld \in Nat \ {0} /\ MaxDepth \in Nat

VARIABLES
  mem,         \* object -> "none", "live" or "freed"
  nbRefs,      \* object -> the count in its header
  dh,          \* the objects with a destructor
  destroying,  \* the destructors in progress, the innermost last
  held,        \* object -> the references callers own
  ret,         \* what the last evsip_mem_deref returned, and for which object
  fault,
  wrapped, reentered

history == <<wrapped, reentered>>
vars == <<mem, nbRefs, dh, destroying, held, ret, fault, history>>

Init ==
  /\ mem = [o \in Obj |-> "none"]
  /\ nbRefs = [o \in Obj |-> 0]
  /\ dh = {}
  /\ destroying = <<>>
  /\ held = [o \in Obj |-> 0]
  /\ ret = [of |-> NULL, value |-> NULL]
  /\ fault = "none"
  /\ wrapped = {} /\ reentered = {}

Destroyed == ToSet(destroying)
Returns(o, value) == ret' = [of |-> o, value |-> value]

\* The destructor, if d, is called when the count gets to zero.
Alloc(o, d) ==
  /\ fault = "none" /\ mem[o] = "none"
  /\ mem' = [mem EXCEPT ![o] = "live"]
  /\ nbRefs' = [nbRefs EXCEPT ![o] = 1]
  /\ dh' = IF d THEN dh \cup {o} ELSE dh
  /\ held' = [held EXCEPT ![o] = 1]
  /\ UNCHANGED <<destroying, ret, fault, history>>

Referable(o) == fault = "none" /\ held[o] < MaxHeld /\ (held[o] > 0 \/ o \in Destroyed)

\* Seeded bug: an object under destruction is not counted any more.
Bug_Ref(o) ==
  /\ Referable(o) /\ mem[o] = "live"
  /\ nbRefs' = [nbRefs EXCEPT ![o] = IF o \in Destroyed THEN @ ELSE (@ + 1) % Word]
  /\ held' = [held EXCEPT ![o] = @ + 1]
  /\ wrapped' = IF nbRefs[o] + 1 = Word THEN wrapped \cup {o} ELSE wrapped
  /\ UNCHANGED <<mem, dh, destroying, ret, fault, reentered>>

\* Seeded bug: the count is kept in a wider integer than its field.
Bug_RefWide(o) ==
  /\ Referable(o) /\ mem[o] = "live"
  /\ nbRefs' = [nbRefs EXCEPT ![o] = @ + 1]
  /\ held' = [held EXCEPT ![o] = @ + 1]
  /\ wrapped' = IF nbRefs[o] + 1 = Word THEN wrapped \cup {o} ELSE wrapped
  /\ UNCHANGED <<mem, dh, destroying, ret, fault, reentered>>

Ref(o) ==
  /\ Referable(o) /\ mem[o] = "live"
  /\ nbRefs' = [nbRefs EXCEPT ![o] = (@ + 1) % Word]
  /\ held' = [held EXCEPT ![o] = @ + 1]
  /\ wrapped' = IF nbRefs[o] + 1 = Word THEN wrapped \cup {o} ELSE wrapped
  /\ UNCHANGED <<mem, dh, destroying, ret, fault, reentered>>

RefFreed(o) ==
  /\ Referable(o) /\ mem[o] = "freed"
  /\ fault' = "use_after_free"
  /\ UNCHANGED <<mem, nbRefs, dh, destroying, held, ret, history>>

Left(o) == (nbRefs[o] - 1) % Word

Dereferable(o) == fault = "none" /\ held[o] > 0

Counted(o) ==
  /\ nbRefs' = [nbRefs EXCEPT ![o] = Left(o)]
  /\ held' = [held EXCEPT ![o] = @ - 1]

DerefKeeps(o) ==
  /\ Dereferable(o) /\ mem[o] = "live" /\ Left(o) > 0
  /\ Counted(o)
  /\ Returns(o, o)
  /\ UNCHANGED <<mem, dh, destroying, fault, history>>

\* Seeded bug: only objects with a destructor are freed.
Bug_DerefFrees(o) ==
  /\ Dereferable(o) /\ mem[o] = "live" /\ Left(o) = 0 /\ o \notin dh
  /\ Counted(o)
  /\ Returns(o, NULL)
  /\ UNCHANGED <<mem, dh, destroying, fault, history>>

DerefFrees(o) ==
  /\ Dereferable(o) /\ mem[o] = "live" /\ Left(o) = 0 /\ o \notin dh
  /\ Counted(o)
  /\ mem' = [mem EXCEPT ![o] = "freed"]
  /\ Returns(o, NULL)
  /\ UNCHANGED <<dh, destroying, fault, history>>

\* Seeded bug: the block goes before its destructor has run.
Bug_DerefDestroysFreed(o) ==
  /\ Dereferable(o) /\ mem[o] = "live" /\ Left(o) = 0 /\ o \in dh
  /\ Len(destroying) < MaxDepth
  /\ Counted(o)
  /\ mem' = [mem EXCEPT ![o] = "freed"]
  /\ destroying' = Append(destroying, o)
  /\ UNCHANGED <<dh, ret, fault, history>>

\* The count is zero while the destructor runs.
DerefDestroys(o) ==
  /\ Dereferable(o) /\ mem[o] = "live" /\ Left(o) = 0 /\ o \in dh
  /\ Len(destroying) < MaxDepth
  /\ Counted(o)
  /\ destroying' = Append(destroying, o)
  /\ reentered' = IF o \in Destroyed THEN reentered \cup {o} ELSE reentered
  /\ UNCHANGED <<mem, dh, ret, fault, wrapped>>

\* The count wrapped and the object went while somebody still held it.
DerefFreed(o) ==
  /\ Dereferable(o) /\ mem[o] = "freed"
  /\ fault' = "use_after_free"
  /\ UNCHANGED <<mem, nbRefs, dh, destroying, held, ret, history>>

\* Seeded bug: the count is not looked at again after the destructor.
Bug_DestructorReturns ==
  /\ fault = "none" /\ destroying # <<>>
  /\ LET o == Last(destroying) IN
     /\ mem' = [mem EXCEPT ![o] = "freed"]
     /\ Returns(o, NULL)
  /\ destroying' = Front(destroying)
  /\ UNCHANGED <<nbRefs, dh, held, fault, history>>

\* Seeded bug: NULL whatever the destructor did.
Bug_DestructorReturnsNull ==
  /\ fault = "none" /\ destroying # <<>>
  /\ LET o == Last(destroying) IN
     /\ mem[o] = "live"
     /\ mem' = [mem EXCEPT ![o] = IF nbRefs[o] > 0 THEN @ ELSE "freed"]
     /\ Returns(o, NULL)
  /\ destroying' = Front(destroying)
  /\ UNCHANGED <<nbRefs, dh, held, fault, history>>

\* The destructor may have referenced the object again, or even freed it.
DestructorReturns ==
  /\ fault = "none" /\ destroying # <<>>
  /\ LET o == Last(destroying) IN
     \/ /\ mem[o] = "live" /\ nbRefs[o] > 0
        /\ Returns(o, o)
        /\ destroying' = Front(destroying)
        /\ UNCHANGED <<mem, fault>>
     \/ /\ mem[o] = "live" /\ nbRefs[o] = 0
        /\ mem' = [mem EXCEPT ![o] = "freed"]
        /\ Returns(o, NULL)
        /\ destroying' = Front(destroying)
        /\ UNCHANGED fault
     \/ /\ mem[o] = "freed"
        /\ fault' = "use_after_free"
        /\ UNCHANGED <<mem, destroying, ret>>
  /\ UNCHANGED <<nbRefs, dh, held, history>>

Next ==
  \/ \E o \in Obj :
       \/ \E d \in BOOLEAN : Alloc(o, d)
       \/ Ref(o) \/ RefFreed(o)
       \/ DerefKeeps(o) \/ DerefFrees(o) \/ DerefDestroys(o) \/ DerefFreed(o)
  \/ DestructorReturns

Spec == Init /\ [][Next]_vars

-----------------------------------------------------------------------------
(* Properties. *)

\* Every variable has the shape the C declarations give it.
TypeOK ==
  /\ mem \in [Obj -> {"none", "live", "freed"}]
  /\ nbRefs \in [Obj -> 0..(Word - 1)]
  /\ dh \subseteq Obj
  /\ destroying \in Seq(Obj)
  /\ held \in [Obj -> 0..MaxHeld]
  /\ ret \in [of : Obj \cup {NULL}, value : Obj \cup {NULL}]
  /\ fault \in {"none", "use_after_free"}
  /\ wrapped \subseteq Obj /\ reentered \subseteq Obj

\* The count of an allocated object is the number of references its callers
\* own, through all nested destructors, as long as it fits its field.
CountIsHeld == \A o \in Obj \ wrapped : mem[o] = "live" => nbRefs[o] = held[o]

\* An object somebody holds a reference of is allocated, unless its count has
\* wrapped, whatever destructors did to it.
HeldIsLive == \A o \in Obj \ wrapped : held[o] > 0 => mem[o] = "live"

\* An object nobody holds is given back at once, or at the latest when the
\* destructor that is running for it returns.
NoLeak == \A o \in Obj \ wrapped : mem[o] = "live" /\ held[o] = 0 => o \in Destroyed

\* evsip_mem_deref returns NULL only of an object that is gone: a caller that
\* clears its pointer on NULL never loses one that is still referenced.
NullMeansFreed == ret.of # NULL /\ ret.value = NULL => mem[ret.of] = "freed"

\* No destructor, whatever it does to other objects and however deeply it
\* nests, makes the library touch a header that is gone, unless a count
\* wrapped or a destructor dropped the last reference of its own object.
MemorySafe == wrapped = {} /\ reentered = {} => fault = "none"
=============================================================================
