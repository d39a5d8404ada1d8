------------------------------ MODULE EvsipCli ------------------------------
(***************************************************************************)
(* The command line interface (src/src/evsip_cli.c) on top of the command  *)
(* list: the commands are registered one after the other while the program *)
(* starts, then evsip_cli_input_handler is called for every character.     *)
(* The line is a zero-terminated string in the fixed array cur_cmd,        *)
(* cur_cmd_len is an unsigned size_t.                                      *)
(***************************************************************************)
EXTENDS EvsipCmdList

CONSTANTS
  Char,    \* the characters that are entered, other than the keys below
  NUL,     \* the null character
  MaxLen,  \* 255 in the code: the last position of cur_cmd
  Word,    \* 2^64 in the code: size_t
  StartUp  \* the commands in the order they are registered, with what a failure does

ASSUME MaxLenAssumption == MaxLen \in Nat /\ Word \in Nat /\ Word > MaxLen + 1
ASSUME NulAssumption == NUL \notin Char /\ Name \subseteq Seq(Char)
ASSUME StartUpAssumption ==
  /\ StartUp \in Seq([name : Name, destroys : BOOLEAN])
  /\ Cmd = DOMAIN StartUp   \* each registration creates one object

VARIABLES
  started,      \* how many commands the start-up is done with
  handle,       \* the command it is about to register or destroy, NULL: none
  cur_cmd,      \* the array
  cur_cmd_len,
  ran           \* what the last Enter did: the name it ran, NotFound or Nothing

lineVars == <<cur_cmd, cur_cmd_len>>
cliVars == <<started, handle, lineVars, ran>>
allVars == <<cmdlVars, fault, cliVars>>

Nothing == <<>>
NotFound == <<NUL>>
Cleared == [i \in 0..MaxLen |-> NUL]

CliInit ==
  /\ Init
  /\ started = 0 /\ handle = NULL
  /\ cur_cmd = Cleared /\ cur_cmd_len = 0
  /\ ran = Nothing

-----------------------------------------------------------------------------
(* Start-up: init, register, and destroy what could not be registered. *)

Starting == started < Len(StartUp)
Step == StartUp[started + 1]

StartInit ==
  /\ Starting /\ handle = NULL
  /\ CmdInit(started + 1, Step.name)
  /\ IF home'[started + 1] = "live" THEN handle' = started + 1 /\ UNCHANGED started
     ELSE started' = started + 1 /\ UNCHANGED handle
  /\ UNCHANGED <<lineVars, ran>>

StartRegister ==
  /\ Starting /\ handle # NULL
  /\ CmdRegister(handle)
  /\ IF handle \notin ToSet(items') /\ Step.destroys THEN UNCHANGED <<started, handle>>
     ELSE started' = started + 1 /\ handle' = NULL
  /\ UNCHANGED <<lineVars, ran>>

StartDestroy ==
  /\ Starting /\ handle # NULL /\ handle \in sure
  /\ CmdDestroy(handle)
  /\ started' = started + 1 /\ handle' = NULL
  /\ UNCHANGED <<lineVars, ran>>

-----------------------------------------------------------------------------
(* evsip_cli_input_handler, one action per kind of character. *)

Prompting == ~Starting /\ fault = "none"

\* The line as a C string.
Text ==
  LET end == Min({i \in 0..MaxLen : cur_cmd[i] = NUL} \cup {MaxLen + 1})
  IN  [i \in 1..end |-> cur_cmd[i - 1]]

\* Seeded bug: a character too much is let in.
Bug_Key(c) ==
  /\ Prompting
  /\ IF cur_cmd_len <= MaxLen
       THEN /\ cur_cmd' = [cur_cmd EXCEPT ![cur_cmd_len] = c]
            /\ cur_cmd_len' = cur_cmd_len + 1
       ELSE UNCHANGED lineVars
  /\ UNCHANGED <<cmdlVars, fault, started, handle, ran>>

\* NUL is also what a failed read() leaves: its -1 is a large size_t.
Key(c) ==
  /\ Prompting
  /\ IF cur_cmd_len < MaxLen
       THEN /\ cur_cmd' = [cur_cmd EXCEPT ![cur_cmd_len] = c]
            /\ cur_cmd_len' = cur_cmd_len + 1
       ELSE UNCHANGED lineVars
  /\ UNCHANGED <<cmdlVars, fault, started, handle, ran>>

\* Seeded bug: the length is signed.
Bug_KeyBackspaceSigned ==
  /\ Prompting
  /\ cur_cmd_len' = cur_cmd_len - 1
  /\ IF cur_cmd_len > 0
       THEN cur_cmd' = [cur_cmd EXCEPT ![cur_cmd_len - 1] = NUL] /\ UNCHANGED fault
       ELSE fault' = "out_of_bounds" /\ UNCHANGED cur_cmd
  /\ UNCHANGED <<cmdlVars, started, handle, ran>>

\* Seeded bug: the length goes back, the character stays.
Bug_KeyBackspace ==
  /\ Prompting /\ cur_cmd_len > 0
  /\ cur_cmd_len' = cur_cmd_len - 1
  /\ UNCHANGED <<cur_cmd, cmdlVars, fault, started, handle, ran>>

\* On an empty line the length wraps and the write is before the array.
KeyBackspace ==
  /\ Prompting
  /\ cur_cmd_len' = (cur_cmd_len - 1) % Word
  /\ IF cur_cmd_len > 0
       THEN cur_cmd' = [cur_cmd EXCEPT ![cur_cmd_len - 1] = NUL] /\ UNCHANGED fault
       ELSE fault' = "out_of_bounds" /\ UNCHANGED cur_cmd
  /\ UNCHANGED <<cmdlVars, started, handle, ran>>

\* Tab looks the command up, prints it and keeps the line.
KeyTab ==
  /\ Prompting
  /\ CmdFind(Text)
  /\ UNCHANGED cliVars

CleanPrompt == cur_cmd' = Cleared /\ cur_cmd_len' = 0

\* Seeded bug: the line stays after an unknown command.
Bug_Enter ==
  /\ Prompting /\ cur_cmd_len > 0
  /\ CmdFind(Text)
  /\ \/ fault' # "none" /\ UNCHANGED <<ran, lineVars>>
     \/ /\ fault' = "none" /\ Hit(Text) # NULL
        /\ ran' = cmd[Hit(Text)] /\ CleanPrompt
     \/ /\ fault' = "none" /\ Hit(Text) = NULL
        /\ ran' = NotFound /\ UNCHANGED lineVars
  /\ UNCHANGED <<started, handle>>

\* The commands themselves only read, print, or ask nua to shut down; "help"
\* copies the vector as evsip_cli_cmd_find does, and does not check the copy.
Enter ==
  /\ Prompting /\ cur_cmd_len > 0
  /\ CmdFind(Text)
  /\ \/ fault' # "none" /\ UNCHANGED <<ran, lineVars>>
     \/ fault' = "none" /\ ran' = (IF Hit(Text) = NULL THEN NotFound ELSE cmd[Hit(Text)]) /\ CleanPrompt
  /\ UNCHANGED <<started, handle>>

EnterHelpFaults ==
  /\ Prompting /\ cur_cmd_len > 0
  /\ "array" \in AllocFault /\ FindHits(Text) /\ cmd[Hit(Text)] = StartUp[2].name
  /\ fault' = "bad_read"
  /\ UNCHANGED <<cmdlVars, cliVars>>

EnterEmpty ==
  /\ Prompting /\ cur_cmd_len = 0
  /\ CleanPrompt
  /\ ran' = Nothing
  /\ UNCHANGED <<cmdlVars, fault, started, handle>>

CliNext ==
  \/ StartInit \/ StartRegister \/ StartDestroy
  \/ \E c \in Char \cup {NUL} : Key(c)
  \/ KeyBackspace \/ KeyTab
  \/ Enter \/ EnterHelpFaults \/ EnterEmpty

CliSpec == CliInit /\ [][CliNext]_allVars

-----------------------------------------------------------------------------
(* Properties. *)

\* Every variable has the shape the C declarations give it.
CliTypeOK ==
  /\ started \in 0..Len(StartUp) /\ handle \in Cmd \cup {NULL}
  /\ cur_cmd \in [0..MaxLen -> Char \cup {NUL}] /\ cur_cmd_len \in 0..(Word - 1)
  /\ ran \in Name \cup {Nothing, NotFound}
  /\ fault \in {"none", "bad_read", "out_of_bounds"}

\* Nothing is left in the array behind the line, so that the string that is
\* looked up is the line that was entered, and always ends in the array.
BufferClean ==
  fault = "none" => cur_cmd_len <= MaxLen /\ \A i \in cur_cmd_len..MaxLen : cur_cmd[i] = NUL

\* A command that could not be registered takes none of the others with it
\* when it is destroyed: what was offered at the prompt stays.
OffersKept == [][Listed \subseteq ToSet(items')]_allVars

Prompt == INSTANCE CommandLine WITH
  line    <- [i \in 1..(IF fault = "none" THEN cur_cmd_len ELSE 0) |-> cur_cmd[i - 1]],
  table   <- [i \in DOMAIN items |-> cmd[items[i]]],
  outcome <- ran,
  dead    <- fault # "none"

\* What happens at the prompt is what CommandLine says: the array, its length
\* and the indices in the commands make no difference.
ImplementsCommandLine == Prompt!Spec
=============================================================================
