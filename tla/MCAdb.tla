------------------------------- MODULE MCAdb -------------------------------
(* Adb for a client that closes channels in any state.                     *)
EXTENDS Adb
AnyState  == ChanStates
=============================================================================
