---------------------------- MODULE MCSensorLink ----------------------------
(* The sensor's link on a small instance: few sessions, a short sequence   *)
(* space and a short receive queue.                                        *)
EXTENDS SensorLink, TLC

\* Sessions are only ever compared.
Sessions == Permutations(Session)
=============================================================================
