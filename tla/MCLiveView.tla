----------------------------- MODULE MCLiveView -----------------------------
(* Instances of LiveView for TLC. *)
EXTENDS LiveView

CONSTANTS d1, l1
=============================================================================
