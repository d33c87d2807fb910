---------------------------- MODULE MCGuestSpin ----------------------------
(* Instances of GuestSpin for TLC. *)
EXTENDS GuestSpin

BothModes == BOOLEAN
ConcurrentOnly == {TRUE}
=============================================================================
