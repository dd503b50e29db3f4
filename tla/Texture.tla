------------------------------ MODULE Texture ------------------------------
(***************************************************************************)
(* The haptic output of the TPad firmware (main.c): the texture double     *)
(* buffer tBuff, shared without a lock between                             *)
(*   - the main loop, in which ADBCallback handles COMMAND_TEXT and        *)
(*     COMMAND_MAG, and                                                    *)
(*   - Timer3ISR, which plays one sample of the front buffer per period.   *)
(*                                                                         *)
(* Every store the callback makes to a shared variable is a step of its    *)
(* own: the interrupt may fall between any two of them.  The interrupt     *)
(* itself is one step, for the main loop cannot preempt it.                *)
(*                                                                         *)
(* A sample is represented by the number of the command that delivered it: *)
(* what matters is which texture a cell of a buffer belongs to, not the    *)
(* level it encodes (module Commands treats the levels).                        *)
(***************************************************************************)
EXTENDS Integers

CONSTANTS
    MaxLen,    \* MAX_BUFFER_LENGTH, the cells of a buffer
    Lengths,   \* lengths of the textures that reach handleTexture
    MinText,   \* the shortest of them: the callback wants data_len > 5
    Burst,     \* interrupts that may fall between the two commit stores,
               \* by the store that is still to be made
    MaxCmds    \* bound on the number of commands received

ASSUME TextureAssumption ==
    /\ MaxLen \in Nat /\ MinText \in Nat /\ MaxCmds \in Nat
    /\ 0 < MinText /\ MinText <= MaxLen
    /\ Lengths \subseteq {n \in Nat : MinText <= n}

ASSUME BurstAssumption == Burst \in [{"flip", "reset"} -> Nat]

VARIABLES
    Buff,      \* tBuff.Buff0 and tBuff.Buff1
    Front,     \* tBuff.Front, the buffer the interrupt plays
    Index,     \* tBuff.Index, its next sample
    Length,    \* tBuff.Length0 and tBuff.Length1
    On,        \* tBuff.On
    T3IE,      \* the interrupt enable bit of Timer 3
    out,       \* what OC3RS was last computed from
    pc,        \* where the main loop is in the handler
    msg,       \* the command being handled, or handled last
    copied,    \* cells memmove has written
    ticks,     \* interrupts since the store that opened the commit
    seq        \* commands received so far

tBuff == <<Buff, Front, Index, Length, On>>
vars  == <<Buff, Front, Index, Length, On, T3IE, out, pc, msg, copied,
           ticks, seq>>

Slots   == 0 .. 1
Cells   == 0 .. MaxLen - 1
Ids     == 0 .. MaxCmds
Back    == 1 - Front

Cut(n) == IF n < MaxLen + 1 THEN n ELSE MaxLen

\* The points at which one of the two commit stores is still to be made.
Window  == {"flip", "reset"}

TypeOK ==
    /\ Buff \in [Slots -> [Cells -> Ids]]
    /\ Front \in Slots
    /\ Index \in Cells
    /\ Length \in [Slots -> 0 .. MaxLen]
    /\ On \in BOOLEAN
    /\ T3IE \in BOOLEAN
    /\ out \in [cmd : {"NONE", "TEXT", "MAG"}, id : Ids]
    /\ pc \in {"idle", "length", "copy", "commit", "flip", "reset", "start",
               "resume", "duty", "pause", "off"}
    /\ msg \in [cmd : {"NONE", "TEXT", "MAG"}, len : Lengths \union {0},
                id : Ids]
    /\ copied \in 0 .. MaxLen
    /\ ticks \in Nat
    /\ seq \in Ids

Init ==
    /\ Buff = [s \in Slots |-> [c \in Cells |-> 0]]
    /\ Front = 0
    /\ Index = 0
    /\ Length = [s \in Slots |-> 0]
    /\ On = FALSE
    /\ T3IE = FALSE                        \* setupTimer3 leaves it disabled
    /\ out = [cmd |-> "NONE", id |-> 0]    \* initPWM
    /\ pc = "idle"
    /\ msg = [cmd |-> "NONE", len |-> 0, id |-> 0]
    /\ copied = 0
    /\ ticks = 0
    /\ seq = 0

----------------------------------------------------------------------------
(* The main loop: ADBCallback and handleTexture, store by store.           *)

\* ADBCallback is entered with the next command.
ReceiveTexture ==
    /\ pc = "idle" /\ seq < MaxCmds
    /\ \E n \in Lengths :
          msg' = [cmd |-> "TEXT", len |-> n, id |-> seq + 1]
    /\ seq' = seq + 1
    /\ pc' = "length"
    /\ UNCHANGED <<tBuff, T3IE, out, copied, ticks>>

ReceiveMagnitude ==
    /\ pc = "idle" /\ seq < MaxCmds
    /\ msg' = [cmd |-> "MAG", len |-> 0, id |-> seq + 1]
    /\ seq' = seq + 1
    /\ pc' = "duty"
    /\ UNCHANGED <<tBuff, T3IE, out, copied, ticks>>

\* tBuff.LengthN = raw_length, cut to the size of the buffer.
SetLength ==
    /\ pc = "length"
    /\ Length' = [Length EXCEPT ![Back] = Cut(msg.len)]
    /\ copied' = 0
    /\ pc' = "copy"
    /\ UNCHANGED <<Buff, Front, Index, On, T3IE, out, msg, ticks, seq>>

\* The copy that forgets which buffer is being played.
CopyCellToFront ==
    /\ pc = "copy"
    /\ Buff' = [Buff EXCEPT ![Front][copied] = msg.id]
    /\ copied' = copied + 1
    /\ pc' = IF copied + 1 = Length[Back] THEN "commit" ELSE "copy"
    /\ UNCHANGED <<Front, Index, Length, On, T3IE, out, msg, ticks, seq>>

\* memmove into the back buffer, a cell at a time.
CopyCell ==
    /\ pc = "copy"
    /\ Buff' = [Buff EXCEPT ![Back][copied] = msg.id]
    /\ copied' = copied + 1
    /\ pc' = IF copied + 1 = Length[Back] THEN "commit" ELSE "copy"
    /\ UNCHANGED <<Front, Index, Length, On, T3IE, out, msg, ticks, seq>>

\* tBuff.Index = 0; tBuff.Front = back.  tBuff is not volatile, so a build
\* may also make the two stores in the other order.
CommitIndex ==
    /\ pc = "commit"
    /\ Index' = 0
    /\ ticks' = 0
    /\ pc' = "flip"
    /\ UNCHANGED <<Buff, Front, Length, On, T3IE, out, msg, copied, seq>>

\* The two branches of handleTexture with the same store at their end.
FlipFrontToOne ==
    /\ pc = "flip"
    /\ Front' = 1
    /\ pc' = "start"
    /\ UNCHANGED <<Buff, Index, Length, On, T3IE, out, msg, copied, ticks,
                   seq>>

FlipFront ==
    /\ pc = "flip"
    /\ Front' = Back
    /\ pc' = "start"
    /\ UNCHANGED <<Buff, Index, Length, On, T3IE, out, msg, copied, ticks,
                   seq>>

CommitFront ==
    /\ pc = "commit"
    /\ Front' = Back
    /\ ticks' = 0
    /\ pc' = "reset"
    /\ UNCHANGED <<Buff, Index, Length, On, T3IE, out, msg, copied, seq>>

ResetIndex ==
    /\ pc = "reset"
    /\ Index' = 0
    /\ pc' = "start"
    /\ UNCHANGED <<Buff, Front, Length, On, T3IE, out, msg, copied, ticks,
                   seq>>

\* The flag is set and the timer left as it is.
StartTimerOnly ==
    /\ pc = "start"
    /\ On' = TRUE
    /\ pc' = "idle"
    /\ UNCHANGED <<Buff, Front, Index, Length, T3IE, out, msg, copied, ticks,
                   seq>>

\* if (tBuff.On == 0) { tBuff.On = 1; resumeTimer3(); }
StartTimer ==
    /\ pc = "start"
    /\ On' = TRUE
    /\ pc' = IF On THEN "idle" ELSE "resume"
    /\ UNCHANGED <<Buff, Front, Index, Length, T3IE, out, msg, copied, ticks,
                   seq>>

ResumeTimer3 ==
    /\ pc = "resume"
    /\ T3IE' = TRUE
    /\ pc' = "idle"
    /\ UNCHANGED <<tBuff, out, msg, copied, ticks, seq>>

\* COMMAND_MAG: PWM_Set_DC(...); pauseTimer3(); tBuff.On = 0.
SetMagnitude ==
    /\ pc = "duty"
    /\ out' = [cmd |-> "MAG", id |-> msg.id]
    /\ pc' = "pause"
    /\ UNCHANGED <<tBuff, T3IE, msg, copied, ticks, seq>>

PauseTimer3 ==
    /\ pc = "pause"
    /\ T3IE' = FALSE
    /\ pc' = "off"
    /\ UNCHANGED <<tBuff, out, msg, copied, ticks, seq>>

SwitchOff ==
    /\ pc = "off"
    /\ On' = FALSE
    /\ pc' = "idle"
    /\ UNCHANGED <<Buff, Front, Index, Length, T3IE, out, msg, copied, ticks,
                   seq>>

\* The steps of a handler that has been entered.
Handler ==
    \/ SetLength \/ CopyCell
    \/ CommitIndex \/ FlipFront \/ CommitFront \/ ResetIndex
    \/ StartTimer \/ ResumeTimer3
    \/ SetMagnitude \/ PauseTimer3 \/ SwitchOff

----------------------------------------------------------------------------
(* The interrupt.  Its period is 4000 clocks while the two commit stores   *)
(* are an instruction or two apart; Burst says how many periods may        *)
(* nevertheless elapse between them.                                       *)

\* The index after the sample at i was played: past the valid data it wraps.
NextIndexLate(i) == IF i + 1 > Length[Front] THEN 0 ELSE i + 1
NextIndex(i) == IF i + 1 > Length[Front] - 1 THEN 0 ELSE i + 1

\* The interrupt is enabled, and the window is not over yet.
MayInterrupt == T3IE /\ (pc \in Window => ticks < Burst[pc])

Timer3ISR ==
    /\ MayInterrupt
    /\ out' = [cmd |-> "TEXT", id |-> Buff[Front][Index]]
    /\ Index' = NextIndex(Index)
    /\ ticks' = IF pc \in Window THEN ticks + 1 ELSE ticks
    /\ UNCHANGED <<Buff, Front, Length, On, T3IE, pc, msg, copied, seq>>

Next ==
    \/ ReceiveTexture \/ ReceiveMagnitude
    \/ Handler
    \/ Timer3ISR

Spec == Init /\ [][Next]_vars

\* The callback runs to its end, for nothing in it waits, and the hardware
\* timer keeps counting.  Nothing makes a command arrive.
FairSpec == Spec /\ WF_vars(Handler) /\ WF_vars(Timer3ISR)

----------------------------------------------------------------------------
(* Properties.                                                             *)

\* The sample the interrupt would play lies in the valid data of the front
\* buffer: never a cell left over from a longer texture (main.c:386 "off the
\* end of our valid data").  Requires fewer interrupts before the flip than the
\* shortest texture has samples, and none between a flip and a later reset.
PlaysValidData == MayInterrupt => Index < Length[Front]

\* While the timer runs, the front buffer holds one whole texture: a texture
\* is never heard while memmove is still writing it.
FrontIsWhole ==
    T3IE => \A c \in 0 .. Length[Front] - 1 : Buff[Front][c] = Buff[Front][0]

\* Between commands the flag tBuff.On agrees with the interrupt enable bit:
\* when it does not, either a texture never starts (On stuck at 1) or a
\* magnitude is overwritten for ever (the interrupt left on).
OnMatchesTimer == pc = "idle" => (On <=> T3IE)

\* Once the handler of a texture has returned, the front buffer carries that
\* texture and no other.
NewestInFront ==
    pc = "idle" /\ msg.cmd = "TEXT" => Buff[Front][0] = msg.id

\* The double buffer implements HapticOutput: replacing a texture is atomic
\* for the listener, and no older texture comes back (main.c:342-406).
Haptic == INSTANCE HapticOutput WITH playing <- T3IE, current <- Buff[Front][0]

HapticSpec == Haptic!Spec

\* A texture handed to the callback is heard, or a later command supersedes it.
TextureHeard ==
    \A i \in 1 .. MaxCmds :
        (msg.cmd = "TEXT" /\ msg.id = i)
            ~> (out = [cmd |-> "TEXT", id |-> i] \/ msg.id > i)
=============================================================================
