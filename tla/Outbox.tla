-------------------------------- MODULE Outbox --------------------------------
(***************************************************************************)
(* What the write-ahead delivery queue promises, without files, attempts   *)
(* or crashes: a delivery it has accepted is owed until every payload has  *)
(* been handed to the channel, or it is put aside as failed, or its caller *)
(* aborts it, or the channel cuts it short; and what is settled stays      *)
(* settled.                                                                *)
(***************************************************************************)
CONSTANTS Deliveries, Payloads

VARIABLES
    outcome,  \* what has become of each delivery
    handed    \* payloads of each delivery that the channel has taken

outboxVars == <<outcome, handed>>

Outcomes == {"none", "owed", "delivered", "failed", "aborted", "cutShort"}

Init ==
    /\ outcome = [d \in Deliveries |-> "none"]
    /\ handed = [d \in Deliveries |-> {}]

Accept(d) ==
    /\ outcome[d] = "none"
    /\ outcome' = [outcome EXCEPT ![d] = "owed"]
    /\ UNCHANGED handed

(* The queue is best effort: a delivery it did not accept is sent as well. *)
Hand(d, p) ==
    /\ outcome[d] \in {"none", "owed"}
    /\ handed' = [handed EXCEPT ![d] = @ \union {p}]
    /\ UNCHANGED outcome

Settle(d, o) ==
    /\ outcome[d] = "owed"
    /\ o \in {"delivered", "failed", "aborted", "cutShort"}
    /\ o = "delivered" => handed[d] = Payloads
    /\ outcome' = [outcome EXCEPT ![d] = o]
    /\ UNCHANGED handed

Next ==
    \E d \in Deliveries :
      \/ Accept(d)
      \/ \E p \in Payloads : Hand(d, p)
      \/ \E o \in Outcomes : Settle(d, o)

Spec == Init /\ [][Next]_outboxVars
=============================================================================
