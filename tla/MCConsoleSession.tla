-------------------------- MODULE MCConsoleSession --------------------------
(* Two tabs, the first with two requests. *)
EXTENDS ConsoleSession, TLC

CONSTANTS t1, t2, r1, r2, r3

TabOfRequest == r1 :> t1 @@ r2 :> t1 @@ r3 :> t2
=============================================================================
