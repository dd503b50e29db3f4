----------------------------- MODULE MCCommands -----------------------------
(* An instance of Commands for TLC.                                        *)
EXTENDS Commands

\* One that is too short, the shortest that plays, and one with samples that
\* look like commands.
MCTextures == {<<255, 10>>, <<0, 3, 128, 255, 64>>,
               <<10, 255, 13, 11, 12, 0, 10>>}
=============================================================================
