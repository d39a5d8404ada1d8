----------------------------- MODULE MCEvsipCli -----------------------------
(* Small instances of EvsipCli for TLC. *)
EXTENDS EvsipCli

\* Two characters stand for each name of the code, "conf", "help", "dump" and
\* "exit": what matters is that none is a prefix of another.
MCStartUp == <<[name |-> <<"c", "c">>, destroys |-> TRUE], [name |-> <<"h">>, destroys |-> FALSE],
               [name |-> <<"c", "h">>, destroys |-> TRUE], [name |-> <<"e">>, destroys |-> TRUE]>>
MCName == {s.name : s \in ToSet(MCStartUp)}
MCChar == {"c", "h", "e"}

\* The line never gets longer than evsip_cli.h:29 "Max command line length".
WithinMaxLength == cur_cmd_len <= MaxLen
=============================================================================
