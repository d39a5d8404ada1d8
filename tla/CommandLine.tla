----------------------------- MODULE CommandLine -----------------------------
(***************************************************************************)
(* What evsip promises at its prompt: a line of limited length is edited,  *)
(* and on Enter the first command offered whose name the line begins with  *)
(* is run.  A null character hides what follows it.  The command line may  *)
(* die, and then does nothing any more.                                    *)
(***************************************************************************)
EXTENDS Integers, SequencesExt

CONSTANTS Char, NUL, Name, MaxLen

VARIABLES
  line,     \* the characters entered
  table,    \* the commands offered, in order
  outcome,  \* what the last Enter did: the name it ran, NotFound or Nothing
  dead

vars == <<line, table, outcome, dead>>

\* Neither is the name of a command.
Nothing == <<>>
NotFound == <<NUL>>

Init == line = <<>> /\ table = <<>> /\ outcome = Nothing /\ dead = FALSE

Text == SubSeq(line, 1, Min({i \in DOMAIN line : line[i] = NUL} \cup {Len(line) + 1}) - 1)

Hits == {i \in DOMAIN table : IsPrefix(table[i], Text)}

Offer(n) ==
  /\ ~dead
  /\ table' = Append(table, n)
  /\ UNCHANGED <<line, outcome, dead>>

Type(c) ==
  /\ ~dead
  /\ line' = IF Len(line) < MaxLen THEN Append(line, c) ELSE line
  /\ UNCHANGED <<table, outcome, dead>>

Rub ==
  /\ ~dead /\ line # <<>>
  /\ line' = Front(line)
  /\ UNCHANGED <<table, outcome, dead>>

Enter ==
  /\ ~dead
  /\ outcome' = IF line = <<>> THEN Nothing
                ELSE IF Hits = {} THEN NotFound ELSE table[Min(Hits)]
  /\ line' = <<>>
  /\ UNCHANGED <<table, dead>>

Die ==
  /\ dead' = TRUE /\ line' = <<>>
  /\ UNCHANGED <<table, outcome>>

Next ==
  \/ \E n \in Name : Offer(n)
  \/ \E c \in Char \cup {NUL} : Type(c)
  \/ Rub \/ Enter \/ Die

Spec == Init /\ [][Next]_vars
=============================================================================
