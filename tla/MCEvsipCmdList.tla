--------------------------- MODULE MCEvsipCmdList ---------------------------
(* Small instances of EvsipCmdList for TLC. *)
EXTENDS EvsipCmdList

\* One name is a prefix of another, as the API allows.
MCName == {<<"h">>, <<"h", "e">>, <<"x">>}
=============================================================================
