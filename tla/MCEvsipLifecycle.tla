--------------------------- MODULE MCEvsipLifecycle ---------------------------
(* Instances of EvsipLifecycle for TLC, and what the comments of the code    *)
(* claim that does not hold.                                                 *)
EXTENDS EvsipLifecycle

\* A process that ends by itself leaves the terminal as it found it:
\* evsip_cli.c:288 "if the TTY was changed, retrive last conf and set it again".
TerminalRestored == pc \in {"EXIT_SUCCESS", "EXIT_FAILURE"} => tty = "cooked"
===============================================================================
