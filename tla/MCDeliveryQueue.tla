--------------------------- MODULE MCDeliveryQueue ---------------------------
(* TLC instances of DeliveryQueue: two deliveries, one of them bestEffort. *)
EXTENDS DeliveryQueue

CONSTANTS plain, lenient

Both == {plain, lenient}
OnlyLenient == {lenient}
OnlyPlain == {plain}
None == {}
=============================================================================
