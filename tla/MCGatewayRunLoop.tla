--------------------------- MODULE MCGatewayRunLoop ---------------------------
(* TLC instances of GatewayRunLoop: a session's lane, whose limit is always *)
(* 1, and the main lane, whose limit is configured.                         *)
EXTENDS GatewayRunLoop, TLC

CONSTANTS session, main, a, b, c

MCLanes == {session, main}
MCConfigured == {main}
MCEntries == {a, b, c}
MCLaneOf == (a :> session) @@ (b :> session) @@ (c :> main)

AnyPhase == {"starting", "waiting"}
===============================================================================
