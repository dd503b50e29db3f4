---------------------------- MODULE HapticOutput ----------------------------
(***************************************************************************)
(* What the haptic output promises, without its buffers: one texture is    *)
(* current at a time, a newer one replaces it at once and as a whole, and  *)
(* whatever the timer plays belongs to the current one.                    *)
(***************************************************************************)
EXTENDS Integers

CONSTANT MaxCmds

VARIABLES playing,    \* the timer plays the current texture
          current,    \* the command that delivered it, 0 before the first
          out         \* what the output was last set from

vars == <<playing, current, out>>

Init ==
    /\ playing = FALSE
    /\ current = 0
    /\ out = [cmd |-> "NONE", id |-> 0]

\* A newer texture becomes current.
Replace ==
    /\ \E i \in current + 1 .. MaxCmds : current' = i
    /\ UNCHANGED <<playing, out>>

Start ==
    /\ current > 0
    /\ playing' = TRUE
    /\ UNCHANGED <<current, out>>

\* The timer plays a sample of the current texture.
Play ==
    /\ playing
    /\ out' = [cmd |-> "TEXT", id |-> current]
    /\ UNCHANGED <<playing, current>>

Magnitude ==
    /\ \E i \in 1 .. MaxCmds : out' = [cmd |-> "MAG", id |-> i]
    /\ UNCHANGED <<playing, current>>

Stop ==
    /\ playing' = FALSE
    /\ UNCHANGED <<current, out>>

Next == Replace \/ Start \/ Play \/ Magnitude \/ Stop

Spec == Init /\ [][Next]_vars
=============================================================================
