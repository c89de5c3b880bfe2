--------------------------- MODULE MCFollowupQueue ---------------------------
(* TLC instances of FollowupQueue. *)
EXTENDS FollowupQueue

CONSTANTS first, m1, m2, m3, m4, o1, o2, o3, room

MCSome == {first, m1, m2, m3}
MCRepeat == {first, m1, m2, m4}
MCOneObject == {o1}
MCObjects == {o1, o2}
MCManyObjects == {o1, o2, o3}

(* Every message has its own provider id, or m4 is m1 delivered again. *)
DistinctIds == [m \in Messages |-> m]
Redelivered == [m \in Messages |-> IF m = m4 THEN m1 ELSE m]

(* One conversation; or one, no routing metadata, and a channel that       *)
(* cannot be routed to.                                                    *)
OneTarget == [m \in Messages |-> room]
MixedTargets ==
    [m \in Messages |-> CASE m = m2 -> Unkeyed [] m = m3 -> Unroutable [] OTHER -> room]

BothModes == {"collect", "followup"}
CollectOnly == {"collect"}
Overwriting == {"old", "summarize"}
RejectNew == {"new"}
Summarize == {"summarize"}
Caps1 == {1}
Caps12 == {1, 2}

Symmetry == Permutations(Objects)
=============================================================================
