------------------------- MODULE MCSessionWriteLock -------------------------
(* TLC instance of SessionWriteLock: two tasks in a gateway, one in a       *)
(* command line process.                                                    *)
EXTENDS SessionWriteLock, TLC

CONSTANTS a, b, c, gateway, cli

MCProcOf == a :> gateway @@ b :> gateway @@ c :> cli
MCFirstPid == gateway :> 1 @@ cli :> 2
=============================================================================
