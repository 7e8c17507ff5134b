----------------------------- MODULE MCNeoCache -----------------------------
(* Two pictures, both shown by widgets, and three loads at once: one per   *)
(* picture and one evicted in flight.                                      *)
EXTENDS NeoCache
=============================================================================
