------------------------------ MODULE MCStartup ------------------------------
(* Constants for model checking Startup. *)
EXTENDS Startup

\* The command line tool runs once; the server as often as it takes.
OneCli == [server |-> 7, cli |-> 1]
=============================================================================
