----------------------------- MODULE MCTexture -----------------------------
(* Texture on buffers of four cells; one of the lengths exceeds them.      *)
EXTENDS Texture

MCLengths == {2, 3, 5}
MCBurst   == [flip |-> 1, reset |-> 0]
=============================================================================
