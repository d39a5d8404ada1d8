---------------------------- MODULE EvsipCmdList ----------------------------
(***************************************************************************)
(* The list of CLI commands (src/src/evsip_cli_cmdlst.c): a vector of      *)
(* command objects, each of which remembers its position in `index'.       *)
(* evsip_cli_cmd_register sets the index to the end of the vector,         *)
(* evsip_cli_cmd_find to where it found the command; removing a command    *)
(* shifts the later ones and leaves their indices as they are.             *)
(* evsip_cli_cmd_destroy removes whatever is at the index.                 *)
(*                                                                         *)
(* A command object is never reused: memPage keeps its struct, and         *)
(* destroying it releases only its home, that is its strings.  Reading a   *)
(* released string, or a vector that was given back, sets `fault'.         *)
(***************************************************************************)
EXTENDS Integers, SequencesExt

CONSTANTS
  Cmd,         \* command objects, each initialised at most once (bound)
  Name,        \* the command strings, sequences of characters
  NULL,
  AllocFault   \* the allocations that may fail

ASSUME NameAssumption == Name \subseteq Seq(STRING) /\ <<>> \notin Name
ASSUME NullAssumption == NULL \notin Name /\ NULL \notin Cmd
ASSUME AllocFaultAssumption == AllocFault \subseteq {"vector", "clone", "strdup", "append", "array"}

VARIABLES
  vector,  \* evsip_cmdl: "null", "live" or "freed"
  items,   \* the items of the vector
  cmd,     \* command -> its name
  home,    \* command -> "none", "live" or "released"
  index,   \* command -> the position it remembers, from 0
  sure,    \* commands nothing was removed since they were registered or found
  fault

cmdlVars == <<vector, items, cmd, home, index, sure>>
vars == <<cmdlVars, fault>>

Listed == ToSet(items)

Init ==
  /\ vector = "null" /\ items = <<>>
  /\ cmd = [c \in Cmd |-> NULL]
  /\ home = [c \in Cmd |-> "none"]
  /\ index = [c \in Cmd |-> 0]
  /\ sure = {}
  /\ fault = "none"

-----------------------------------------------------------------------------
(* evsip_cli_cmd_init: the vector, the object, then its two strings. *)

CmdInit(c, n) ==
  /\ fault = "none" /\ home[c] = "none"
  /\ \/ "vector" \in AllocFault /\ vector = "null" /\ UNCHANGED <<vector, cmd, home>>
     \/ /\ vector' = IF vector = "null" THEN "live" ELSE vector
        /\ \/ "clone" \in AllocFault /\ UNCHANGED <<cmd, home>>
           \/ "strdup" \in AllocFault /\ home' = [home EXCEPT ![c] = "released"] /\ UNCHANGED cmd
           \/ home' = [home EXCEPT ![c] = "live"] /\ cmd' = [cmd EXCEPT ![c] = n]
  /\ UNCHANGED <<items, index, sure, fault>>

-----------------------------------------------------------------------------
(* evsip_cli_cmd_register. *)

Registrable(c) == home[c] = "live" /\ c \notin Listed /\ c \notin sure

\* Seeded bug: the index is taken of the list without the command.
Bug_CmdAppendBefore(c) ==
  /\ index' = [index EXCEPT ![c] = Len(items) - 1]
  /\ items' = Append(items, c)
  /\ sure' = (sure \cap Listed) \cup {c}

\* Seeded bug: new commands come first.
Bug_CmdPrepend(c) ==
  /\ index' = [index EXCEPT ![c] = 0]
  /\ items' = <<c>> \o items
  /\ sure' = (sure \cap Listed) \cup {c}

\* Whatever failed to be registered before is behind the end no more.
CmdAppend(c) ==
  /\ index' = [index EXCEPT ![c] = Len(items)]
  /\ items' = Append(items, c)
  /\ sure' = (sure \cap Listed) \cup {c}

\* Seeded bug: the index is stored once the command is in the vector.
Bug_CmdAppendFails(c) ==
  /\ "append" \in AllocFault
  /\ sure' = sure \cup {c}
  /\ UNCHANGED <<items, index>>

CmdAppendFails(c) ==
  /\ "append" \in AllocFault
  /\ index' = [index EXCEPT ![c] = Len(items)]
  /\ sure' = sure \cup {c}
  /\ UNCHANGED items

CmdRegister(c) ==
  /\ fault = "none" /\ Registrable(c) /\ vector = "live"
  /\ CmdAppend(c) \/ CmdAppendFails(c)
  /\ UNCHANGED <<vector, cmd, home, fault>>

-----------------------------------------------------------------------------
(* evsip_cli_cmd_find: strncmp over the length of the registered name, so a *)
(* name is found by every text it is a prefix of.                           *)

\* Seeded bug: strncmp over the length of the text.
Bug_Stops(text, i) == home[items[i]] = "released" \/ IsPrefix(text, cmd[items[i]])

Stops(text, i) == home[items[i]] = "released" \/ IsPrefix(cmd[items[i]], text)
StopsAt(text) == {i \in DOMAIN items : Stops(text, i)}
Hit(text) == IF StopsAt(text) = {} THEN NULL ELSE items[Min(StopsAt(text))]

\* The copy of the vector is not checked, the vector may be gone, a listed
\* command may have no string any more.
FindFaults(text) ==
  \/ vector = "freed"
  \/ "array" \in AllocFault /\ items # <<>>
  \/ Hit(text) # NULL /\ home[Hit(text)] = "released"

FindHits(text) == vector # "freed" /\ Hit(text) # NULL /\ home[Hit(text)] = "live"
FindMisses(text) == vector # "freed" /\ Hit(text) = NULL

\* Seeded bug: the index is left as it is.
Bug_Indexed(text) ==
  /\ sure' = sure \cup {Hit(text)}
  /\ UNCHANGED index

Indexed(text) ==
  /\ index' = [index EXCEPT ![Hit(text)] = Min(StopsAt(text)) - 1]
  /\ sure' = sure \cup {Hit(text)}

CmdFind(text) ==
  /\ fault = "none"
  /\ \/ FindFaults(text) /\ fault' = "bad_read" /\ UNCHANGED <<index, sure>>
     \/ FindHits(text) /\ Indexed(text) /\ UNCHANGED fault
     \/ FindMisses(text) /\ UNCHANGED <<index, sure, fault>>
  /\ UNCHANGED <<vector, items, cmd, home>>

-----------------------------------------------------------------------------
(* evsip_cli_cmd_destroy and evsip_cli_cmd_destroy_all. *)

\* Seeded bug: destroying leaves the object in the vector.
Bug_CmdDestroy(c) ==
  /\ fault = "none" /\ home[c] = "live" /\ vector = "live"
  /\ c \in sure
  /\ home' = [home EXCEPT ![c] = "released"]
  /\ sure' = {}
  /\ UNCHANGED <<vector, items, cmd, index, fault>>

\* Seeded bug: the commands behind the destroyed one are cut off.
Bug_CmdDestroyTail(c) ==
  /\ fault = "none" /\ home[c] = "live" /\ vector = "live"
  /\ c \in sure
  /\ items' = SubSeq(items, 1, index[c])
  /\ home' = [home EXCEPT ![c] = "released"]
  /\ sure' = {}
  /\ UNCHANGED <<vector, cmd, index, fault>>

\* Callers destroy what they just registered or found, and give the handle up.
CmdDestroy(c) ==
  /\ fault = "none" /\ home[c] = "live" /\ vector = "live"
  /\ c \in sure
  /\ items' = IF index[c] < Len(items) THEN RemoveAt(items, index[c] + 1) ELSE items
  /\ home' = [home EXCEPT ![c] = "released"]
  /\ sure' = {}
  /\ UNCHANGED <<vector, cmd, index, fault>>

\* evsip_cmdl keeps pointing at the vector, the commands keep their homes.
CmdDestroyAll ==
  /\ fault = "none"
  /\ \/ vector = "null" /\ UNCHANGED <<vector, items, sure, fault>>
     \/ vector = "live" /\ vector' = "freed" /\ items' = <<>> /\ sure' = {} /\ UNCHANGED fault
     \/ vector = "freed" /\ fault' = "bad_read" /\ UNCHANGED <<vector, items, sure>>
  /\ UNCHANGED <<cmd, home, index>>

Next ==
  \/ \E c \in Cmd :
       \/ \E n \in Name : CmdInit(c, n)
       \/ CmdRegister(c) \/ CmdDestroy(c)
  \/ \E text \in Name : CmdFind(text)
  \/ CmdDestroyAll

Spec == Init /\ [][Next]_vars

-----------------------------------------------------------------------------
(* Properties. *)

\* Every variable has the shape the C declarations give it.
TypeOK ==
  /\ vector \in {"null", "live", "freed"}
  /\ items \in Seq(Cmd)
  /\ cmd \in [Cmd -> Name \cup {NULL}]
  /\ home \in [Cmd -> {"none", "live", "released"}]
  /\ index \in [Cmd -> Nat]
  /\ sure \subseteq Cmd
  /\ fault \in {"none", "bad_read"}

Position(c) == CHOOSE i \in DOMAIN items : items[i] = c

\* The index of a command nothing was removed since it was registered or
\* found is its position, and that of one that failed to be registered is
\* behind the end: evsip_cli_cmd_destroy may rely on it.
SureIndex ==
  \A c \in sure : IF c \in Listed THEN index[c] = Position(c) - 1 ELSE index[c] >= Len(items)

\* Whatever is listed can still be read by evsip_cli_cmd_find and "help": no
\* command stays in the vector when its strings go.
ListedUsable == \A c \in Listed : home[c] = "live" /\ cmd[c] # NULL

\* A command leaves the list only when it is destroyed itself, never because
\* another one is.
OnlyDestroyedLeave ==
  [][vector' = "live" => \A c \in Listed \ ToSet(items') : home'[c] = "released"]_vars

\* A stale index never points before its command: destroying through it may
\* take out a command that was registered later, never an earlier one.
StaleIndexNotBefore == \A c \in Listed : index[c] >= Position(c) - 1
=============================================================================
