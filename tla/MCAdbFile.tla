----------------------------- MODULE MCAdbFile -----------------------------
(* Replies for AdbFile.                                                     *)
EXTENDS AdbFile
Msg(i, n) == [id |-> i, size |-> n]
MCReplies == {
    <<Msg("DATA", 2), Msg("DONE", 0)>>,
    <<Msg("DATA", 1), Msg("DATA", 2), Msg("DONE", 0)>>,
    <<Msg("DONE", 0)>>,
    <<Msg("FAIL", 1)>>,
    <<Msg("BAD", 0)>>,
    <<Msg("DATA", 1), Msg("FAIL", 1)>>,
    <<Msg("DONE", 0), Msg("DATA", 1)>>,
    <<Msg("DONE", 0), Msg("DONE", 0)>>}
=============================================================================
