----------------------------- MODULE MCStatePin -----------------------------
(* The Telnet server alone, with the reset on disconnection enabled.       *)
EXTENDS StatePin

MCSetups == {[state_pin_mode |-> 1, client_mode |-> 0, reset_on_disconnect |-> TRUE]}
=============================================================================
