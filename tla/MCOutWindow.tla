---------------------------- MODULE MCOutWindow ----------------------------
(* OutWindow for TLC: the window is small enough to wrap several times.    *)
EXTENDS OutWindow

ASSUME WindowIsAtMostHalf == HalfRange
=============================================================================
