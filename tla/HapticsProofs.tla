--------------------------- MODULE HapticsProofs ---------------------------
(***************************************************************************)
(* What is proved of main.c.                                               *)
(*                                                                         *)
(* Of Texture, for every buffer size, every set of texture lengths and any *)
(* number of commands.  Then of Commands, for any levels, textures and     *)
(* number of commands:                                                     *)
(*                                                                         *)
(* Oscillates is about a few counts: it holds of every pulse that is set   *)
(* for one period and is still there in another, if no two periods are     *)
(* more than an octave apart; however the commands are put into packets.   *)
(*                                                                         *)
(* Obeyed needs what the commands that are under way will make of the      *)
(* device: the wishes that lie between what it is and what is meant        *)
(* (Leads).                                                                *)
(***************************************************************************)
EXTENDS Texture, Commands, WellFoundedInduction, TLAPS


\* Where the back buffer is being filled, and where it is complete.
Filling  == {"length", "copy", "commit", "flip"}
Complete == {"commit", "flip"}
Swapped  == {"reset", "start", "resume"}

\* The lengths: the back buffer is long enough from the moment its length is
\* set, and so is the front buffer from the first swap on.
LengthInv ==
    /\ pc = "length" => msg.len \in Lengths
    /\ pc \in {"copy", "commit", "flip"} => MinText <= Length[Back]
    /\ pc = "copy" => copied < Length[Back]
    /\ pc \in Swapped => MinText <= Length[Front]
    /\ T3IE => MinText <= Length[Front]

\* The contents: the copied cells carry the command being handled, and the
\* valid data of the front buffer a single older or equal one.
ContentInv ==
    /\ pc = "copy" => \A c \in 0 .. copied - 1 : Buff[Back][c] = msg.id
    /\ pc \in Complete =>
          \A c \in 0 .. Length[Back] - 1 : Buff[Back][c] = msg.id
    /\ \A c \in 0 .. Length[Front] - 1 : Buff[Front][c] = Buff[Front][0]

\* The order of commands.
OrderInv ==
    /\ msg.id = seq
    /\ pc # "idle" => 0 < seq
    /\ Buff[Front][0] <= seq
    /\ pc \in Filling => Buff[Front][0] < seq
    /\ pc \in Filling \union Swapped => msg.cmd = "TEXT"
    /\ pc \in {"duty", "pause", "off"} => msg.cmd = "MAG"
    /\ pc \in Swapped => Buff[Front][0] = msg.id
    /\ NewestInFront

\* The timer and its flag: they differ only inside a handler.
TimerInv ==
    /\ pc \in {"resume"} => On /\ ~T3IE
    /\ pc = "off" => ~T3IE
    /\ pc \notin {"resume", "off"} => (On <=> T3IE)

\* Before the flip the index has only counted the interrupts of the window;
\* but between a flip and a later reset it is valid for the front buffer.
IndexInv ==
    /\ pc = "flip" => Index <= ticks /\ ticks <= Burst["flip"]
    /\ pc # "reset" /\ MinText <= Length[Front] => Index < Length[Front]

\* How few interrupts fall between the stores: fewer than the shortest texture
\* has samples before the flip, none between the flip and a later reset.
FewInterrupts == Burst["flip"] < MinText /\ Burst["reset"] = 0

Inv == TypeOK /\ LengthInv /\ ContentInv /\ OrderInv /\ TimerInv

----------------------------------------------------------------------------
(* Type correctness.                                                       *)

\* The cut length of a texture fits the buffer and keeps the minimum
\* (handleTexture, main.c:348-353).
LEMMA CutBounds ==
    ASSUME NEW n \in Lengths
    PROVE  Cut(n) \in MinText .. MaxLen
BY TextureAssumption DEF Cut

\* The invariant on types and lengths holds initially.
LEMMA InitTypes == Init => TypeOK /\ LengthInv
<1> SUFFICES ASSUME Init
             PROVE  TypeOK /\ LengthInv
  OBVIOUS
<1>1. 0 \in Ids /\ 0 \in Cells /\ 0 \in 0 .. MaxLen /\ 0 \in Slots
  BY TextureAssumption DEF Ids, Cells, Slots
<1>2. Buff \in [Slots -> [Cells -> Ids]]
  BY <1>1 DEF Init
<1>3. Length \in [Slots -> 0 .. MaxLen]
  BY <1>1 DEF Init
<1>4. TypeOK
  BY <1>1, <1>2, <1>3 DEF Init, TypeOK
<1>5. LengthInv
  BY DEF Init, LengthInv, Swapped
<1> QED
  BY <1>4, <1>5

\* Every step keeps the types, given the lengths.
LEMMA NextTypes == TypeOK /\ LengthInv /\ [Next]_vars => TypeOK'
<1> SUFFICES ASSUME TypeOK, LengthInv, [Next]_vars
             PROVE  TypeOK'
  OBVIOUS
<1> USE TextureAssumption DEF TypeOK, LengthInv, tBuff, Slots, Cells, Ids
<1>1. CASE ReceiveTexture
  BY <1>1 DEF ReceiveTexture
<1>2. CASE ReceiveMagnitude
  BY <1>2 DEF ReceiveMagnitude
<1>3. CASE SetLength
  <2>1. Cut(msg.len) \in MinText .. MaxLen
    <3>1. msg.len \in Lengths
      BY <1>3 DEF SetLength
    <3> QED
      BY <3>1, CutBounds
  <2> QED
    BY <1>3, <2>1 DEF SetLength, Back
<1>4. CASE CopyCell
  <2>1. Back \in Slots /\ copied \in Cells /\ msg.id \in Ids
    BY <1>4 DEF CopyCell, Back
  <2>2. Buff' \in [Slots -> [Cells -> Ids]]
    BY <1>4, <2>1 DEF CopyCell
  <2>3. copied' \in 0 .. MaxLen
    BY <1>4, <2>1 DEF CopyCell
  <2> QED
    BY <1>4, <2>2, <2>3 DEF CopyCell
<1>5. CASE CommitIndex
  BY <1>5 DEF CommitIndex
<1>6. CASE FlipFront
  BY <1>6 DEF FlipFront, Back
<1>7. CASE CommitFront
  BY <1>7 DEF CommitFront, Back
<1>8. CASE ResetIndex
  BY <1>8 DEF ResetIndex
<1>9. CASE StartTimer
  BY <1>9 DEF StartTimer
<1>10. CASE ResumeTimer3
  BY <1>10 DEF ResumeTimer3
<1>11. CASE SetMagnitude
  BY <1>11 DEF SetMagnitude
<1>12. CASE PauseTimer3
  BY <1>12 DEF PauseTimer3
<1>13. CASE SwitchOff
  BY <1>13 DEF SwitchOff
<1>14. CASE Timer3ISR
  <2>1. /\ ticks' \in Nat /\ Index' \in Cells
        /\ UNCHANGED <<Buff, Front, Length, On, T3IE, pc, msg, copied, seq>>
    BY <1>14 DEF Timer3ISR, NextIndex
  <2>2. Buff[Front][Index] \in Ids /\ Buff \in [Slots -> [Cells -> Ids]]
    OBVIOUS
  <2>3. out' \in [cmd : {"NONE", "TEXT", "MAG"}, id : Ids]
    BY <1>14, <2>2 DEF Timer3ISR
  <2> QED
    BY <2>1, <2>3
<1>15. CASE UNCHANGED vars
  BY <1>15 DEF vars
<1> QED
  BY <1>1, <1>2, <1>3, <1>4, <1>5, <1>6, <1>7, <1>8, <1>9, <1>10, <1>11,
     <1>12, <1>13, <1>14, <1>15 DEF Next, Handler

\* Every step keeps the lengths.
LEMMA NextLengths == TypeOK /\ LengthInv /\ [Next]_vars => LengthInv'
<1> SUFFICES ASSUME TypeOK, LengthInv, [Next]_vars
             PROVE  LengthInv'
  OBVIOUS
<1> USE TextureAssumption DEF TypeOK, LengthInv, Swapped, Back, Slots, tBuff
<1>1. CASE ReceiveTexture
  BY <1>1 DEF ReceiveTexture
<1>2. CASE ReceiveMagnitude
  BY <1>2 DEF ReceiveMagnitude
<1>3. CASE SetLength
  <2>1. Cut(msg.len) \in MinText .. MaxLen
    BY <1>3, CutBounds DEF SetLength
  <2> QED
    BY <1>3, <2>1 DEF SetLength
<1>4. CASE CopyCell
  BY <1>4 DEF CopyCell
<1>5. CASE CommitIndex
  BY <1>5 DEF CommitIndex
<1>6. CASE FlipFront
  BY <1>6 DEF FlipFront
<1>7. CASE CommitFront
  BY <1>7 DEF CommitFront
<1>8. CASE ResetIndex
  BY <1>8 DEF ResetIndex
<1>9. CASE StartTimer
  BY <1>9 DEF StartTimer
<1>10. CASE ResumeTimer3
  BY <1>10 DEF ResumeTimer3
<1>11. CASE SetMagnitude
  BY <1>11 DEF SetMagnitude
<1>12. CASE PauseTimer3
  BY <1>12 DEF PauseTimer3
<1>13. CASE SwitchOff
  BY <1>13 DEF SwitchOff
<1>14. CASE Timer3ISR
  BY <1>14 DEF Timer3ISR, MayInterrupt
<1>15. CASE UNCHANGED vars
  BY <1>15 DEF vars
<1> QED
  BY <1>1, <1>2, <1>3, <1>4, <1>5, <1>6, <1>7, <1>8, <1>9, <1>10, <1>11,
     <1>12, <1>13, <1>14, <1>15 DEF Next, Handler

\* The index stays inside the buffer and every variable keeps its type,
\* whatever the order of the commit stores and however many interrupts fall
\* between them (main.c:342-406).
THEOREM TypeCorrect == Spec => []TypeOK
<1>1. Init => TypeOK /\ LengthInv
  BY InitTypes
<1>2. TypeOK /\ LengthInv /\ [Next]_vars => (TypeOK /\ LengthInv)'
  BY NextTypes, NextLengths
<1> QED
  BY <1>1, <1>2, PTL DEF Spec

----------------------------------------------------------------------------
(* The front buffer is one whole texture.                                  *)

\* The front buffer carries the number of a command.
LEMMA FrontId == TypeOK => Buff[Front][0] \in Ids
<1>1. 0 \in Cells
  BY TextureAssumption DEF Cells
<1> QED
  BY <1>1 DEF TypeOK, Slots

\* Every step keeps what is known of the contents of the buffers.
LEMMA NextContent ==
    TypeOK /\ LengthInv /\ ContentInv /\ [Next]_vars => ContentInv'
<1> SUFFICES ASSUME TypeOK, LengthInv, ContentInv, [Next]_vars
             PROVE  ContentInv'
  OBVIOUS
<1> USE TextureAssumption DEF TypeOK, ContentInv, Complete, Back, Slots, tBuff
<1>1. CASE ReceiveTexture
  BY <1>1 DEF ReceiveTexture
<1>2. CASE ReceiveMagnitude
  BY <1>2 DEF ReceiveMagnitude
<1>3. CASE SetLength
  BY <1>3 DEF SetLength
<1>4. CASE CopyCell
  <2>1. /\ copied \in Cells /\ Back \in Slots /\ Back # Front
        /\ copied < Length[Back] /\ UNCHANGED <<Front, Length, msg>>
    BY <1>4 DEF CopyCell, LengthInv, Cells
  <2>2. \A c \in Cells :
           Buff'[Back][c] = IF c = copied THEN msg.id ELSE Buff[Back][c]
    BY <1>4, <2>1 DEF CopyCell
  <2>3. Buff'[Front] = Buff[Front]
    BY <1>4, <2>1 DEF CopyCell
  <2>4. \A c \in 0 .. copied : Buff'[Back][c] = msg.id
    <3> SUFFICES ASSUME NEW c \in 0 .. copied
                 PROVE  Buff'[Back][c] = msg.id
      OBVIOUS
    <3>1. c \in Cells /\ (c = copied \/ c \in 0 .. copied - 1)
      BY <2>1 DEF Cells
    <3>2. pc = "copy"
      BY <1>4 DEF CopyCell
    <3> QED
      BY <2>2, <3>1, <3>2
  <2>5. copied' = copied + 1 /\ (pc' = "copy" \/ copied + 1 = Length[Back])
    BY <1>4 DEF CopyCell
  <2>6. pc' \in {"copy", "commit"}
    BY <1>4 DEF CopyCell
  <2>7. pc' = "commit" => copied + 1 = Length[Back]
    BY <1>4 DEF CopyCell
  <2> QED
    BY <2>1, <2>3, <2>4, <2>5, <2>6, <2>7
<1>5. CASE CommitIndex
  BY <1>5 DEF CommitIndex
<1>6. CASE FlipFront
  <2>1. MinText <= Length[Back]
    BY <1>6 DEF FlipFront, LengthInv
  <2> QED
    BY <1>6, <2>1 DEF FlipFront
<1>7. CASE CommitFront
  <2>1. MinText <= Length[Back]
    BY <1>7 DEF CommitFront, LengthInv
  <2> QED
    BY <1>7, <2>1 DEF CommitFront
<1>8. CASE ResetIndex
  BY <1>8 DEF ResetIndex
<1>9. CASE StartTimer
  BY <1>9 DEF StartTimer
<1>10. CASE ResumeTimer3
  BY <1>10 DEF ResumeTimer3
<1>11. CASE SetMagnitude
  BY <1>11 DEF SetMagnitude
<1>12. CASE PauseTimer3
  BY <1>12 DEF PauseTimer3
<1>13. CASE SwitchOff
  BY <1>13 DEF SwitchOff
<1>14. CASE Timer3ISR
  BY <1>14 DEF Timer3ISR, MayInterrupt
<1>15. CASE UNCHANGED vars
  BY <1>15 DEF vars
<1> QED
  BY <1>1, <1>2, <1>3, <1>4, <1>5, <1>6, <1>7, <1>8, <1>9, <1>10, <1>11,
     <1>12, <1>13, <1>14, <1>15 DEF Next, Handler

\* While the timer runs the front buffer holds one whole texture, in either
\* order of the commit stores (main.c:342-406).
THEOREM WholeTexture == Spec => []FrontIsWhole
<1>1. Init => TypeOK /\ LengthInv /\ ContentInv
  <2>1. Init => ContentInv
    BY DEF Init, ContentInv, Complete, Slots
  <2> QED
    BY <2>1, InitTypes
<1>2. TypeOK /\ LengthInv /\ ContentInv /\ [Next]_vars
        => (TypeOK /\ LengthInv /\ ContentInv)'
  BY NextTypes, NextLengths, NextContent
<1>3. ContentInv => FrontIsWhole
  BY DEF ContentInv, FrontIsWhole
<1> QED
  BY <1>1, <1>2, <1>3, PTL DEF Spec

----------------------------------------------------------------------------
(* Only valid data is played.                                              *)

\* Every step keeps the index valid when few interrupts fall between the stores.
LEMMA NextIndices ==
    ASSUME FewInterrupts,
           TypeOK, LengthInv, IndexInv, [Next]_vars
    PROVE  IndexInv'
<1> USE TextureAssumption, BurstAssumption DEF TypeOK, LengthInv, IndexInv,
        Back, Slots, Cells, tBuff, FewInterrupts
<1>1. CASE ReceiveTexture
  BY <1>1 DEF ReceiveTexture
<1>2. CASE ReceiveMagnitude
  BY <1>2 DEF ReceiveMagnitude
<1>3. CASE SetLength
  BY <1>3 DEF SetLength
<1>4. CASE CopyCell
  BY <1>4 DEF CopyCell
<1>5. CASE CommitIndex
  BY <1>5 DEF CommitIndex
<1>6. CASE FlipFront
  BY <1>6 DEF FlipFront
<1>7. CASE CommitFront
  BY <1>7 DEF CommitFront
<1>8. CASE ResetIndex
  BY <1>8 DEF ResetIndex
<1>9. CASE StartTimer
  BY <1>9 DEF StartTimer
<1>10. CASE ResumeTimer3
  BY <1>10 DEF ResumeTimer3
<1>11. CASE SetMagnitude
  BY <1>11 DEF SetMagnitude
<1>12. CASE PauseTimer3
  BY <1>12 DEF PauseTimer3
<1>13. CASE SwitchOff
  BY <1>13 DEF SwitchOff
<1>14. CASE Timer3ISR
  BY <1>14 DEF Timer3ISR, MayInterrupt, NextIndex, Window
<1>15. CASE UNCHANGED vars
  BY <1>15 DEF vars
<1> QED
  BY <1>1, <1>2, <1>3, <1>4, <1>5, <1>6, <1>7, <1>8, <1>9, <1>10, <1>11,
     <1>12, <1>13, <1>14, <1>15 DEF Next, Handler

\* The interrupt never plays a cell beyond the valid data of the front buffer
\* (main.c:386), in either order of the commit stores.
THEOREM ValidPlayback ==
    ASSUME FewInterrupts
    PROVE  Spec => []PlaysValidData
<1>1. Init => TypeOK /\ LengthInv /\ IndexInv
  <2>1. Init => IndexInv
    BY TextureAssumption DEF Init, IndexInv, Slots
  <2> QED
    BY <2>1, InitTypes
<1>2. TypeOK /\ LengthInv /\ IndexInv /\ [Next]_vars
        => (TypeOK /\ LengthInv /\ IndexInv)'
  BY NextTypes, NextLengths, NextIndices
<1>3. TypeOK /\ LengthInv /\ IndexInv => PlaysValidData
  BY DEF LengthInv, IndexInv, PlaysValidData, MayInterrupt, FewInterrupts,
     Window, TypeOK
<1> QED
  BY <1>1, <1>2, <1>3, PTL DEF Spec

----------------------------------------------------------------------------
(* The newest command wins, and the flag follows the timer.                *)

\* Every step keeps the order of the commands.
LEMMA NextOrder ==
    TypeOK /\ LengthInv /\ ContentInv /\ OrderInv /\ [Next]_vars => OrderInv'
<1> SUFFICES ASSUME TypeOK, LengthInv, ContentInv, OrderInv, [Next]_vars
             PROVE  OrderInv'
  OBVIOUS
<1>0. Buff[Front][0] \in Ids
  BY FrontId
<1> USE TextureAssumption DEF TypeOK, OrderInv, NewestInFront, Filling,
        Swapped, Back, Slots, Ids, tBuff
<1>1. CASE ReceiveTexture
  <2>1. msg'.id = seq' /\ seq' = seq + 1 /\ UNCHANGED <<Buff, Front>>
    BY <1>1 DEF ReceiveTexture
  <2>2. pc' = "length" /\ msg'.cmd = "TEXT"
    BY <1>1 DEF ReceiveTexture
  <2> QED
    BY <1>0, <2>1, <2>2
<1>2. CASE ReceiveMagnitude
  <2>1. msg'.id = seq' /\ seq' = seq + 1 /\ UNCHANGED <<Buff, Front>>
    BY <1>2 DEF ReceiveMagnitude
  <2>2. pc' = "duty" /\ msg'.cmd = "MAG"
    BY <1>2 DEF ReceiveMagnitude
  <2> QED
    BY <1>0, <2>1, <2>2
<1>3. CASE SetLength
  BY <1>3 DEF SetLength
<1>4. CASE CopyCell
  <2>1. Buff'[Front] = Buff[Front]
    BY <1>4 DEF CopyCell
  <2> QED
    BY <1>4, <2>1 DEF CopyCell
<1>5. CASE CommitIndex
  BY <1>5 DEF CommitIndex
<1>6. CASE FlipFront
  <2>1. Buff[Back][0] = msg.id
    BY <1>6 DEF FlipFront, ContentInv, LengthInv, Complete
  <2> QED
    BY <1>6, <2>1 DEF FlipFront
<1>7. CASE CommitFront
  <2>1. Buff[Back][0] = msg.id
    BY <1>7 DEF CommitFront, ContentInv, LengthInv, Complete
  <2> QED
    BY <1>7, <2>1 DEF CommitFront
<1>8. CASE ResetIndex
  BY <1>8 DEF ResetIndex
<1>9. CASE StartTimer
  BY <1>9 DEF StartTimer
<1>10. CASE ResumeTimer3
  BY <1>10 DEF ResumeTimer3
<1>11. CASE SetMagnitude
  BY <1>11 DEF SetMagnitude
<1>12. CASE PauseTimer3
  BY <1>12 DEF PauseTimer3
<1>13. CASE SwitchOff
  BY <1>13 DEF SwitchOff
<1>14. CASE Timer3ISR
  BY <1>14 DEF Timer3ISR, MayInterrupt
<1>15. CASE UNCHANGED vars
  BY <1>15 DEF vars
<1> QED
  BY <1>1, <1>2, <1>3, <1>4, <1>5, <1>6, <1>7, <1>8, <1>9, <1>10, <1>11,
     <1>12, <1>13, <1>14, <1>15 DEF Next, Handler

\* Every step keeps the timer and its flag together.
LEMMA NextTimer == TypeOK /\ TimerInv /\ [Next]_vars => TimerInv'
<1> SUFFICES ASSUME TypeOK, TimerInv, [Next]_vars
             PROVE  TimerInv'
  OBVIOUS
<1> USE DEF TypeOK, TimerInv, tBuff
<1>1. CASE ReceiveTexture
  BY <1>1 DEF ReceiveTexture
<1>2. CASE ReceiveMagnitude
  BY <1>2 DEF ReceiveMagnitude
<1>3. CASE SetLength
  BY <1>3 DEF SetLength
<1>4. CASE CopyCell
  BY <1>4 DEF CopyCell
<1>5. CASE CommitIndex
  BY <1>5 DEF CommitIndex
<1>6. CASE FlipFront
  BY <1>6 DEF FlipFront
<1>7. CASE CommitFront
  BY <1>7 DEF CommitFront
<1>8. CASE ResetIndex
  BY <1>8 DEF ResetIndex
<1>9. CASE StartTimer
  BY <1>9 DEF StartTimer
<1>10. CASE ResumeTimer3
  BY <1>10 DEF ResumeTimer3
<1>11. CASE SetMagnitude
  BY <1>11 DEF SetMagnitude
<1>12. CASE PauseTimer3
  BY <1>12 DEF PauseTimer3
<1>13. CASE SwitchOff
  BY <1>13 DEF SwitchOff
<1>14. CASE Timer3ISR
  BY <1>14 DEF Timer3ISR, MayInterrupt
<1>15. CASE UNCHANGED vars
  BY <1>15 DEF vars
<1> QED
  BY <1>1, <1>2, <1>3, <1>4, <1>5, <1>6, <1>7, <1>8, <1>9, <1>10, <1>11,
     <1>12, <1>13, <1>14, <1>15 DEF Next, Handler

\* The inductive invariant behind the theorems below.
LEMMA Invariance == Spec => []Inv
<1>1. Init => Inv
  <2>1. Init => ContentInv
    BY DEF Init, ContentInv, Complete, Slots
  <2>2. Init => OrderInv
    BY TextureAssumption DEF Init, OrderInv, NewestInFront, Filling, Swapped,
       Slots, Cells
  <2>3. Init => TimerInv
    BY DEF Init, TimerInv
  <2> QED
    BY <2>1, <2>2, <2>3, InitTypes DEF Inv
<1>2. Inv /\ [Next]_vars => Inv'
  BY NextTypes, NextLengths, NextContent, NextOrder, NextTimer DEF Inv
<1> QED
  BY <1>1, <1>2, PTL DEF Spec

\* Between commands tBuff.On agrees with the interrupt enable bit
\* (main.c:326-327 and 373-376).
THEOREM FlagFollowsTimer == Spec => []OnMatchesTimer
<1>1. Inv => OnMatchesTimer
  BY DEF Inv, TimerInv, OnMatchesTimer
<1> QED
  BY <1>1, Invariance, PTL

\* A texture whose handler returned is the one that is played (main.c:342).
THEOREM NewestWins == Spec => []NewestInFront
<1>1. Inv => NewestInFront
  BY DEF Inv, OrderInv
<1> QED
  BY <1>1, Invariance, PTL

----------------------------------------------------------------------------
(* The double buffer implements HapticOutput.                              *)

\* Every step is a step of HapticOutput or leaves its variables alone.
LEMMA StepRefines ==
    ASSUME FewInterrupts, Inv, IndexInv, [Next]_vars
    PROVE  [Haptic!Next]_(Haptic!vars)
<1> USE TextureAssumption DEF Inv, TypeOK, OrderInv, Back, Slots, Ids, tBuff,
        Filling, Swapped
<1>1. CASE ReceiveTexture
  BY <1>1 DEF ReceiveTexture, Haptic!vars
<1>2. CASE ReceiveMagnitude
  BY <1>2 DEF ReceiveMagnitude, Haptic!vars
<1>3. CASE SetLength
  BY <1>3 DEF SetLength, Haptic!vars
<1>4. CASE CopyCell
  BY <1>4 DEF CopyCell, Haptic!vars
<1>5. CASE CommitIndex
  BY <1>5 DEF CommitIndex, Haptic!vars
<1>6. CASE FlipFront
  <2>1. Buff[Back][0] = msg.id
    BY <1>6 DEF FlipFront, ContentInv, LengthInv, Complete
  <2>2. Buff[Front][0] \in Ids
    BY FrontId DEF Ids
  <2>3. Buff'[Front'][0] = msg.id /\ UNCHANGED <<T3IE, out>>
    BY <1>6, <2>1 DEF FlipFront
  <2>4. msg.id \in Buff[Front][0] + 1 .. MaxCmds
    BY <1>6, <2>2 DEF FlipFront
  <2>5. Haptic!Replace
    BY <2>3, <2>4 DEF Haptic!Replace
  <2> QED
    BY <2>5 DEF Haptic!Next
<1>7. CASE CommitFront
  <2>1. Buff[Back][0] = msg.id
    BY <1>7 DEF CommitFront, ContentInv, LengthInv, Complete
  <2>2. Buff[Front][0] \in Ids
    BY FrontId DEF Ids
  <2>3. Buff'[Front'][0] = msg.id /\ UNCHANGED <<T3IE, out>>
    BY <1>7, <2>1 DEF CommitFront
  <2>4. msg.id \in Buff[Front][0] + 1 .. MaxCmds
    BY <1>7, <2>2 DEF CommitFront
  <2>5. Haptic!Replace
    BY <2>3, <2>4 DEF Haptic!Replace
  <2> QED
    BY <2>5 DEF Haptic!Next
<1>8. CASE ResetIndex
  BY <1>8 DEF ResetIndex, Haptic!vars
<1>9. CASE StartTimer
  BY <1>9 DEF StartTimer, Haptic!vars
<1>10. CASE ResumeTimer3
  <2>1. Haptic!Start
    BY <1>10 DEF ResumeTimer3, Haptic!Start
  <2> QED
    BY <2>1 DEF Haptic!Next
<1>11. CASE SetMagnitude
  <2>1. msg.id \in 1 .. MaxCmds
    BY <1>11 DEF SetMagnitude
  <2>2. Haptic!Magnitude
    BY <1>11, <2>1 DEF SetMagnitude, Haptic!Magnitude
  <2> QED
    BY <2>2 DEF Haptic!Next
<1>12. CASE PauseTimer3
  <2>1. Haptic!Stop
    BY <1>12 DEF PauseTimer3, Haptic!Stop
  <2> QED
    BY <2>1 DEF Haptic!Next
<1>13. CASE SwitchOff
  BY <1>13 DEF SwitchOff, Haptic!vars
<1>14. CASE Timer3ISR
  <2>1. Index \in 0 .. Length[Front] - 1
    BY <1>14 DEF Timer3ISR, MayInterrupt, LengthInv, IndexInv,
       Cells, Window, FewInterrupts
  <2>2. Buff[Front][Index] = Buff[Front][0]
    BY <2>1 DEF ContentInv
  <2>3. Haptic!Play
    BY <1>14, <2>2 DEF Timer3ISR, MayInterrupt, Haptic!Play
  <2> QED
    BY <2>3 DEF Haptic!Next
<1>15. CASE UNCHANGED vars
  BY <1>15 DEF vars, Haptic!vars
<1> QED
  BY <1>1, <1>2, <1>3, <1>4, <1>5, <1>6, <1>7, <1>8, <1>9, <1>10, <1>11,
     <1>12, <1>13, <1>14, <1>15 DEF Next, Handler

\* Replacing a texture is atomic for the listener and no older texture comes
\* back (main.c:342-406), when few interrupts fall between the stores.
THEOREM Refinement ==
    ASSUME FewInterrupts
    PROVE  Spec => HapticSpec
<1>1. Init => Haptic!Init
  BY TextureAssumption DEF Init, Haptic!Init, Slots, Cells
<1>2. Init => IndexInv
  BY TextureAssumption DEF Init, IndexInv, Slots
<1>3. Inv /\ IndexInv /\ [Next]_vars => IndexInv'
  BY NextIndices DEF Inv
<1>4. Inv /\ IndexInv /\ [Next]_vars => [Haptic!Next]_(Haptic!vars)
  BY StepRefines
<1> QED
  BY <1>1, <1>2, <1>3, <1>4, Invariance, PTL DEF Spec, HapticSpec, Haptic!Spec

----------------------------------------------------------------------------
(* Commands.                                                               *)


\* The frequencies of the output, at the start and later.
OutputFreqs == Freqs \union {OUTPUT_FREQ}

\* No two periods are more than an octave apart, and one percent of a period is
\* two counts or more.  So it is from 20000 to 40000 Hz.
WithinOctave ==
    /\ \A f \in OutputFreqs : Period(f) >= 199
    /\ \A f, g \in OutputFreqs : Period(f) + 1 <= 2 * (Period(g) + 1)

\* A command, as the app puts it into bytes.
MagBytes(l)     == <<COMMAND_MAG, l>>
FreqBytes(f)    == <<COMMAND_FREQ>> \o IntToBytes(f)
TextureBytes(t) == <<COMMAND_TEXT>> \o t
AliveBytes      == <<COMMAND_ALIVE>>
Command(m) ==
    \/ \E l \in Levels : m = MagBytes(l)
    \/ \E f \in Freqs : m = FreqBytes(f)
    \/ \E t \in Textures : m = TextureBytes(t)
    \/ m = AliveBytes

----------------------------------------------------------------------------
(* Numbers.                                                                *)

LEMMA PeriodIs ==
    ASSUME NEW f \in Nat, f # 0
    PROVE  Period(f) \in Nat /\ Period(f) < 65536
<1> DEFINE x == SYS_FREQ \div f - 1
<1>1. x \in Int
  BY DEF SYS_FREQ
<1>2. Period(f) = Word16(x)
  BY DEF Period
<1> HIDE DEF x
<1>3. Word16(x) \in Nat /\ Word16(x) < 65536
  BY <1>1 DEF Word16
<1> QED BY <1>2, <1>3

LEMMA FrequenciesAre ==
    ASSUME NEW f \in OutputFreqs
    PROVE  f \in Nat /\ 1 <= f /\ f <= 40000000
BY CommandsAssumption DEF OutputFreqs, OUTPUT_FREQ

\* A pulse is one count at least, and no more than half a period.
LEMMA DutyBounds ==
    ASSUME NEW mag \in Byte, NEW n \in Nat, 200 <= n, n <= 65536,
           NEW d \in Duty(mag, n)
    PROVE  d \in Nat /\ 1 <= d /\ 2 * (d + 1) <= n
<1> DEFINE p == mag * n
<1>1. CASE mag * 50 < 255
  <2>1. n \div 100 \in Nat /\ 2 <= n \div 100 /\ n \div 100 <= 655
      /\ 100 * (n \div 100) <= n
    OBVIOUS
  <2>2. Word16(n \div 100 - 1) = n \div 100 - 1
    BY <2>1 DEF Word16
  <2>3. d = n \div 100 - 1
    BY <1>1, <2>2 DEF Duty
  <2> QED BY <2>1, <2>3
<1>2. CASE ~(mag * 50 < 255)
  <2>1. mag \in 6 .. 255
    BY <1>2 DEF Byte
  <2>2. p \in Nat /\ 1200 <= p /\ p <= 255 * n
    <3>1. 6 * 200 <= 6 * n /\ 6 * n <= mag * n
      BY <2>1
    <3>2. mag * n <= 255 * n /\ mag * n \in Nat
      BY <2>1
    <3> QED BY <3>1, <3>2
  <2> HIDE DEF p
  <2> DEFINE q == p \div 510
  <2>3. q \in Nat /\ 510 * q <= p /\ p < 510 * q + 510 /\ p % 510 = p - 510 * q
    BY <2>2
  <2> HIDE DEF q
  <2>4. q \in Nat /\ 2 <= q /\ q <= 32768 /\ 2 * q <= n
    BY <2>2, <2>3
  <2>5. p % 510 = 0 => q >= 3
    BY <2>2, <2>3
  <2>6. Word16(q - 1) = q - 1 /\ Word16(q - 2) = q - 2
    BY <2>4 DEF Word16
  <2>7. d = Word16(q - 1) \/ (p % 510 = 0 /\ d = Word16(q - 2))
    BY <1>2 DEF Duty, p, q
  <2> QED BY <2>4, <2>5, <2>6, <2>7
<1> QED BY <1>1, <1>2

\* A pulse for one period is shorter than any other.
LEMMA PulseFits ==
    ASSUME WithinOctave, NEW f \in OutputFreqs, NEW g \in OutputFreqs,
           NEW l \in Byte, NEW d \in Duty(l, Period(f) + 1)
    PROVE  d \in Nat /\ 0 < d /\ d <= Period(g)
<1>1. /\ Period(f) \in Nat /\ 199 <= Period(f) /\ Period(f) < 65536
      /\ Period(g) \in Nat
  BY FrequenciesAre, PeriodIs DEF WithinOctave
<1>2. /\ Period(f) + 1 \in Nat /\ 200 <= Period(f) + 1 /\ Period(f) + 1 <= 65536
      /\ Period(f) + 1 <= 2 * (Period(g) + 1)
  BY <1>1 DEF WithinOctave
<1>3. d \in Nat /\ 1 <= d /\ 2 * (d + 1) <= Period(f) + 1
  BY <1>2, DutyBounds
<1> HIDE DEF Period
<1> QED BY <1>1, <1>2, <1>3

\* What TPad.java makes of a number, main.c makes the number of.
LEMMA NumberReturns ==
    ASSUME NEW i \in Nat, i <= 40000000
    PROVE  IntFromBytes(IntToBytes(i)) = i
<1>1. (i % 256) + ((i \div 256) % 256) * 256 + ((i \div 65536) % 256) * 65536
         + (i \div 16777216) * 16777216 = i
  OBVIOUS
<1> QED BY <1>1 DEF IntFromBytes, IntToBytes

LEMMA NumberBytes ==
    ASSUME NEW i \in Nat, i <= 40000000
    PROVE  IntToBytes(i) \in Seq(Byte) /\ Len(IntToBytes(i)) = 4
<1>1. /\ i % 256 \in Byte /\ (i \div 256) % 256 \in Byte
      /\ (i \div 65536) % 256 \in Byte /\ i \div 16777216 \in Byte
  BY DEF Byte
<1> QED BY <1>1 DEF IntToBytes

----------------------------------------------------------------------------
(* A packet.                                                               *)

\* What the naturals have in common with all sets that 0 is in and n + 1 with
\* every n: for there is no least number that is not.
LEMMA NatIsInductive ==
    ASSUME NEW S, 0 \in S, \A n \in Nat : n \in S => n + 1 \in S
    PROVE  Nat \subseteq S
<1>1. SUFFICES ASSUME Nat \ S # {} PROVE FALSE
  OBVIOUS
<1>2. PICK x \in Nat \ S : \A y \in Nat \ S : ~ (<<y, x>> \in OpToRel(<, Nat))
  BY <1>1, NatLessThanWellFounded, WFMin
<1>3. x # 0 /\ x \in Nat
  OBVIOUS
<1>4. x - 1 \in Nat /\ (x - 1) + 1 = x /\ x - 1 < x
  BY <1>3
<1>5. x - 1 \in Nat \ S
  BY <1>4
<1>6. <<x - 1, x>> \in OpToRel(<, Nat)
  BY <1>4, <1>3 DEF OpToRel
<1> QED BY <1>2, <1>5, <1>6

\* g has the first n sums that FlattenSeq takes of s.
IsFlat(g, s, n) ==
    g = [i \in 1 .. n |-> IF i = 1 THEN s[i] ELSE g[i - 1] \o s[i]]

LEMMA FlatExists ==
    ASSUME NEW s PROVE \A n \in Nat : \E g : IsFlat(g, s, n)
<1> DEFINE T == {n \in Nat : \E g : IsFlat(g, s, n)}
<1>1. 0 \in T
  <2> DEFINE g == [i \in 1 .. 0 |-> s]
  <2>1. IsFlat(g, s, 0)
    BY DEF IsFlat
  <2> QED BY <2>1
<1>2. ASSUME NEW n \in Nat, n \in T PROVE n + 1 \in T
  <2>1. PICK g : IsFlat(g, s, n)
    BY <1>2
  <2> DEFINE h == [i \in 1 .. n + 1 |->
                      IF i <= n THEN g[i]
                      ELSE IF i = 1 THEN s[i] ELSE g[n] \o s[i]]
             H == [i \in 1 .. n + 1 |-> IF i = 1 THEN s[i] ELSE h[i - 1] \o s[i]]
  <2>2. ASSUME NEW i \in 1 .. n + 1 PROVE h[i] = H[i]
    <3>1. CASE i = 1
      <4>1. i <= n => g[i] = s[i]
        BY <2>1, <3>1 DEF IsFlat
      <4> QED BY <3>1, <4>1
    <3>2. CASE i # 1 /\ i <= n
      <4>1. i - 1 \in 1 .. n /\ i \in 1 .. n
        BY <3>2
      <4>2. h[i - 1] = g[i - 1] /\ h[i] = g[i]
        BY <4>1
      <4>3. g[i] = g[i - 1] \o s[i]
        BY <2>1, <3>2, <4>1 DEF IsFlat
      <4> QED BY <3>2, <4>2, <4>3
    <3>3. CASE i # 1 /\ ~(i <= n)
      <4>1. i = n + 1 /\ i - 1 = n /\ n \in 1 .. n /\ n \in 1 .. n + 1
        BY <3>3
      <4>2. h[n] = g[n]
        BY <4>1
      <4>3. h[i] = g[n] \o s[i]
        BY <3>3
      <4>4. H[i] = h[n] \o s[i]
        BY <3>3, <4>1
      <4> QED BY <4>2, <4>3, <4>4
    <3> QED BY <3>1, <3>2, <3>3
  <2>3. h = H
    <3> HIDE DEF h
    <3> DEFINE hh == h
    <3>1. h = [i \in 1 .. n + 1 |-> h[i]]
      BY DEF h
    <3> QED BY <2>2, <3>1
  <2> HIDE DEF h
  <2>4. IsFlat(h, s, n + 1)
    BY <2>3 DEF IsFlat
  <2> QED BY <2>4
<1> HIDE DEF T
<1>3. Nat \subseteq T
  BY <1>1, <1>2, NatIsInductive
<1> QED BY <1>3 DEF T

LEMMA FlatAt ==
    ASSUME NEW n \in Nat, NEW s, NEW g, IsFlat(g, s, n), NEW i \in 1 .. n
    PROVE  g[i] = IF i = 1 THEN s[i] ELSE g[i - 1] \o s[i]
<1> DEFINE e(k) == IF k = 1 THEN s[k] ELSE g[k - 1] \o s[k]
<1>1. g = [k \in 1 .. n |-> e(k)]
  BY DEF IsFlat
<1> HIDE DEF e
<1>2. g[i] = e(i)
  BY <1>1
<1> QED BY <1>2 DEF e

LEMMA FlattenIs ==
    ASSUME NEW s, Len(s) \in Nat \ {0}
    PROVE  \E g : IsFlat(g, s, Len(s)) /\ Seqs!FlattenSeq(s) = g[Len(s)]
<1>1. \E g : IsFlat(g, s, Len(s))
  BY FlatExists
<1>2. Len(s) # 0
  OBVIOUS
<1> QED BY ONLY <1>1, <1>2, Zenon DEF Seqs!FlattenSeq, IsFlat

\* A packet is its first command and what may come after that.
LEMMA FlattenFirst ==
    ASSUME NEW S, NEW s \in Seq(Seq(S)), Len(s) >= 1
    PROVE  /\ \E rest \in Seq(S) : Seqs!FlattenSeq(s) = s[1] \o rest
           /\ Len(s) = 1 => Seqs!FlattenSeq(s) = s[1]
<1> DEFINE n == Len(s)
<1>1. n \in Nat \ {0} /\ n >= 1 /\ \A i \in 1 .. n : s[i] \in Seq(S)
  OBVIOUS
<1>2. PICK g : IsFlat(g, s, n) /\ Seqs!FlattenSeq(s) = g[n]
  BY <1>1, FlattenIs
<1> HIDE DEF n
<1>3. \A i \in 1 .. n : g[i] = IF i = 1 THEN s[i] ELSE g[i - 1] \o s[i]
  BY <1>1, <1>2, FlatAt
<1>4. g[1] = s[1] /\ s[1] \in Seq(S)
  <2>1. 1 \in 1 .. n
    BY <1>1
  <2> QED BY <1>1, <1>3, <2>1
<1> DEFINE Starts(i) == \E rest \in Seq(S) : g[i] = s[1] \o rest
           T == {i \in Nat : i + 1 \in 1 .. n => Starts(i + 1)}
<1>5. 0 \in T
  <2>1. <<>> \in Seq(S) /\ s[1] = s[1] \o <<>>
    BY <1>4
  <2>2. 0 + 1 = 1
    OBVIOUS
  <2>3. Starts(1)
    BY <1>4, <2>1
  <2> QED BY <2>2, <2>3
<1>6. ASSUME NEW i \in Nat, i \in T PROVE i + 1 \in T
  <2> SUFFICES ASSUME (i + 1) + 1 \in 1 .. n PROVE Starts((i + 1) + 1)
    OBVIOUS
  <2>1. i + 1 \in 1 .. n /\ (i + 1) + 1 # 1 /\ ((i + 1) + 1) - 1 = i + 1
    BY <1>1
  <2>2. PICK rest \in Seq(S) : g[i + 1] = s[1] \o rest
    BY <1>6, <2>1
  <2>3. g[(i + 1) + 1] = g[i + 1] \o s[(i + 1) + 1]
    BY <1>3, <2>1
  <2> DEFINE t == s[(i + 1) + 1]
  <2>4. t \in Seq(S)
    BY <1>1
  <2> HIDE DEF t
  <2>5. rest \o t \in Seq(S)
    BY <2>4
  <2>6. (s[1] \o rest) \o t = s[1] \o (rest \o t)
    <3> DEFINE h == s[1]
    <3>1. h \in Seq(S)
      BY <1>4
    <3> HIDE DEF h
    <3>2. (h \o rest) \o t = h \o (rest \o t)
      BY ONLY rest \in Seq(S), <2>4, <3>1
    <3> QED BY <3>2 DEF h
  <2> QED BY <2>2, <2>3, <2>5, <2>6 DEF t
<1> HIDE DEF T
<1>7. n - 1 \in T
  <2>1. Nat \subseteq T
    BY ONLY <1>5, <1>6, NatIsInductive
  <2> QED BY <1>1, <2>1
<1>8. Starts(n)
  <2>1. n - 1 \in Nat /\ (n - 1) + 1 = n /\ n \in 1 .. n
    BY <1>1
  <2> QED BY <1>7, <2>1 DEF T
<1>9. n = 1 => Seqs!FlattenSeq(s) = s[1]
  BY <1>2, <1>4
<1> QED BY <1>2, <1>8, <1>9 DEF n

----------------------------------------------------------------------------
(* The commands.                                                           *)

\* A byte before others.
LEMMA Prefixed ==
    ASSUME NEW c \in Byte, NEW b \in Seq(Byte), NEW m, m = <<c>> \o b
    PROVE  /\ m \in Seq(Byte) /\ Len(b) \in Nat /\ Len(m) = Len(b) + 1 /\ m[1] = c
           /\ \A k \in 1 .. Len(b) : m[k + 1] = b[k]
<1> DEFINE a == <<c>>
<1>1. a \in Seq(Byte) /\ Len(a) = 1 /\ a[1] = c
  OBVIOUS
<1>2. m = a \o b
  OBVIOUS
<1> HIDE DEF a
<1>3. m \in Seq(Byte) /\ Len(b) \in Nat /\ Len(m) = Len(b) + 1
  BY <1>1, <1>2
<1>4. m[1] = a[1]
  BY <1>1, <1>2
<1>5. \A k \in 1 .. Len(b) : m[k + 1] = b[k]
  BY <1>1, <1>2
<1> QED BY <1>1, <1>3, <1>4, <1>5

LEMMA FourBytes ==
    ASSUME NEW b \in Seq(Byte), Len(b) = 4, NEW m, m = <<COMMAND_FREQ>> \o b
    PROVE  m \in Seq(Byte) /\ Len(m) = 5 /\ m[1] = COMMAND_FREQ
           /\ IntFromBytes(Payload(m)) = IntFromBytes(b)
<1>1. COMMAND_FREQ \in Byte
  BY DEF COMMAND_FREQ, Byte
<1> DEFINE c == COMMAND_FREQ
<1> HIDE DEF c
<1>2. m \in Seq(Byte) /\ Len(m) = Len(b) + 1 /\ m[1] = c
  <2>1. c \in Byte /\ m = <<c>> \o b
    BY <1>1 DEF c
  <2> QED BY ONLY b \in Seq(Byte), <2>1, Prefixed
<1>3. \A k \in 1 .. Len(b) : m[k + 1] = b[k]
  BY <1>1, Prefixed
<1>4. Len(m) = 5
  BY <1>2
<1>5. m[2] = b[1] /\ m[3] = b[2] /\ m[4] = b[3] /\ m[5] = b[4]
  <2>1. /\ m[1 + 1] = b[1] /\ m[2 + 1] = b[2]
        /\ m[3 + 1] = b[3] /\ m[4 + 1] = b[4]
    BY <1>3
  <2> QED BY <2>1
<1>6. /\ Payload(m)[1] = m[2] /\ Payload(m)[2] = m[3]
      /\ Payload(m)[3] = m[4] /\ Payload(m)[4] = m[5]
  BY <1>2, <1>4 DEF Payload
<1> QED BY <1>2, <1>4, <1>5, <1>6 DEF IntFromBytes, c

LEMMA FreqShape ==
    ASSUME NEW f \in Freqs
    PROVE  /\ FreqBytes(f) \in Seq(Byte) /\ Len(FreqBytes(f)) = 5
           /\ FreqBytes(f)[1] = COMMAND_FREQ
           /\ IntFromBytes(Payload(FreqBytes(f))) = f
<1>1. f \in Nat /\ f <= 40000000
  BY FrequenciesAre DEF OutputFreqs
<1>2. PICK b : b = IntToBytes(f)
  OBVIOUS
<1>3. b \in Seq(Byte) /\ Len(b) = 4 /\ IntFromBytes(b) = f
  BY <1>1, <1>2, NumberBytes, NumberReturns
<1>4. FreqBytes(f) = <<COMMAND_FREQ>> \o b
  BY <1>2 DEF FreqBytes
<1> QED BY ONLY <1>3, <1>4, FourBytes

LEMMA TextureShape ==
    ASSUME NEW t \in Textures
    PROVE  /\ TextureBytes(t) \in Seq(Byte) /\ Len(t) \in Nat
           /\ Len(TextureBytes(t)) = Len(t) + 1
           /\ TextureBytes(t)[1] = COMMAND_TEXT /\ Payload(TextureBytes(t)) = t
<1>1. t \in Seq(Byte)
  BY CommandsAssumption
<1>2. PICK m : m = <<COMMAND_TEXT>> \o t
  OBVIOUS
<1>3. COMMAND_TEXT \in Byte
  BY DEF COMMAND_TEXT, Byte
<1>4. m \in Seq(Byte) /\ Len(m) = Len(t) + 1 /\ Len(t) \in Nat /\ m[1] = COMMAND_TEXT
  BY ONLY <1>1, <1>2, <1>3, Prefixed
<1>5. \A k \in 1 .. Len(t) : m[k + 1] = t[k]
  BY ONLY <1>1, <1>2, <1>3, Prefixed
<1>6. Payload(m) = t
  <2> DEFINE p == SubSeq(m, 2, Len(m))
  <2>1. p = [k \in 1 .. Len(t) |-> m[k + 1]]
    BY <1>4
  <2>2. t = [k \in 1 .. Len(t) |-> t[k]]
    BY <1>1
  <2> QED BY <1>5, <2>1, <2>2 DEF Payload
<1> QED BY <1>2, <1>4, <1>6 DEF TextureBytes

\* What a command is to ADBCallback.
LEMMA CommandShape ==
    ASSUME NEW m, Command(m)
    PROVE  /\ m \in Seq(Byte) /\ Len(m) \in Nat /\ Len(m) >= 1
           /\ \/ \E l \in Levels : Len(m) = 2 /\ m[1] = COMMAND_MAG /\ m[2] = l
              \/ \E f \in Freqs : /\ Len(m) = 5 /\ m[1] = COMMAND_FREQ
                                  /\ IntFromBytes(Payload(m)) = f
              \/ \E t \in Textures : /\ Len(m) = Len(t) + 1 /\ m[1] = COMMAND_TEXT
                                     /\ Payload(m) = t
              \/ Len(m) = 1 /\ m[1] = COMMAND_ALIVE
<1> USE DEF COMMAND_MAG, COMMAND_FREQ, COMMAND_TEXT, COMMAND_ALIVE
<1>1. ASSUME NEW l \in Levels, m = MagBytes(l)
      PROVE  m \in Seq(Byte) /\ Len(m) = 2 /\ m[1] = COMMAND_MAG /\ m[2] = l
  <2>1. l \in Byte /\ 10 \in Byte
    BY CommandsAssumption DEF Byte
  <2> QED BY <1>1, <2>1 DEF MagBytes
<1>2. ASSUME NEW f \in Freqs, m = FreqBytes(f)
      PROVE  m \in Seq(Byte) /\ Len(m) = 5 /\ m[1] = COMMAND_FREQ
             /\ IntFromBytes(Payload(m)) = f
  BY <1>2, FreqShape
<1>3. ASSUME NEW t \in Textures, m = TextureBytes(t)
      PROVE  m \in Seq(Byte) /\ Len(m) = Len(t) + 1 /\ m[1] = COMMAND_TEXT
             /\ Payload(m) = t /\ Len(t) \in Nat
  BY <1>3, TextureShape
<1>4. ASSUME m = AliveBytes
      PROVE  m \in Seq(Byte) /\ Len(m) = 1 /\ m[1] = COMMAND_ALIVE
  BY <1>4 DEF AliveBytes, Byte
<1>5. CASE \E l \in Levels : m = MagBytes(l)
  BY <1>1, <1>5
<1>6. CASE \E f \in Freqs : m = FreqBytes(f)
  BY <1>2, <1>6
<1>7. CASE \E t \in Textures : m = TextureBytes(t)
  BY <1>3, <1>7
<1>8. CASE m = AliveBytes
  BY <1>4, <1>8
<1> QED BY <1>5, <1>6, <1>7, <1>8 DEF Command

LEMMA OfPacket ==
    ASSUME NEW m, Command(m), NEW rest \in Seq(Byte), NEW d, d = m \o rest
    PROVE  /\ d \in Seq(Byte) /\ Len(d) \in Nat /\ Len(d) >= 1
           /\ d[1] = COMMAND_MAG => d[2] \in Levels
           /\ d[1] = COMMAND_FREQ /\ Len(d) <= 5 => IntFromBytes(Payload(d)) \in Freqs
<1> USE DEF COMMAND_MAG, COMMAND_FREQ, COMMAND_TEXT, COMMAND_ALIVE
<1>1. m \in Seq(Byte) /\ Len(m) \in Nat /\ Len(m) >= 1
  BY CommandShape
<1>2. /\ d \in Seq(Byte) /\ Len(d) = Len(m) + Len(rest) /\ Len(rest) \in Nat
      /\ d[1] = m[1]
  BY <1>1
<1>3. Len(m) >= 2 => d[2] = m[2]
  BY <1>1
<1>4. Len(rest) = 0 => d = m
  BY <1>1
<1>5. CASE \E l \in Levels : Len(m) = 2 /\ m[1] = COMMAND_MAG /\ m[2] = l
  BY <1>1, <1>2, <1>3, <1>5
<1>6. CASE \E f \in Freqs : /\ Len(m) = 5 /\ m[1] = COMMAND_FREQ
                            /\ IntFromBytes(Payload(m)) = f
  <2>1. PICK f \in Freqs : /\ Len(m) = 5 /\ m[1] = COMMAND_FREQ
                            /\ IntFromBytes(Payload(m)) = f
    BY <1>6
  <2>2. Len(d) <= 5 => d = m
    BY <1>2, <1>4, <2>1
  <2>3. d[1] # COMMAND_MAG /\ Len(d) >= 1 /\ Len(d) \in Nat
    BY <1>2, <2>1
  <2> QED BY <1>2, <2>1, <2>2, <2>3
<1>7. CASE \E t \in Textures : /\ Len(m) = Len(t) + 1 /\ m[1] = COMMAND_TEXT
                               /\ Payload(m) = t
  BY <1>1, <1>2, <1>7
<1>8. CASE Len(m) = 1 /\ m[1] = COMMAND_ALIVE
  BY <1>1, <1>2, <1>8
<1> QED BY <1>5, <1>6, <1>7, <1>8, CommandShape

----------------------------------------------------------------------------
(* The invariants.                                                         *)

Messages == {m \in Seq(Byte) : Command(m)}

\* What is there is of the kind it should be; the pulse is one that was set for
\* a level, though the period may have been another.
Types ==
    /\ wire \in Seq(Messages)
    /\ texture \in Seq(Byte) /\ tpadMAG \in Byte /\ textureOn \in BOOLEAN
    /\ \E f \in OutputFreqs : PR2 = Period(f)
    /\ \E f \in OutputFreqs, l \in Byte : OC3RS \in Duty(l, Period(f) + 1)

\* The pulse, if no texture plays, is that of the magnitude.
Steady == textureOn \/ \E f \in OutputFreqs : OC3RS \in Duty(tpadMAG, Period(f) + 1)

LEMMA CommandsInitTypes == CommandsInit => Types /\ Steady
<1> SUFFICES ASSUME CommandsInit PROVE Types /\ Steady
  OBVIOUS
<1>1. wire \in Seq(Messages) /\ texture \in Seq(Byte) /\ textureOn \in BOOLEAN
  <2>1. wire = <<>> /\ texture = <<>> /\ textureOn = FALSE
    BY DEF CommandsInit
  <2>2. wire \in Seq(Messages) /\ texture \in Seq(Byte)
    BY ONLY <2>1
  <2> QED BY <2>1, <2>2
<1>2. tpadMAG = 0 /\ 0 \in Byte
  BY DEF CommandsInit, Byte
<1>3. OUTPUT_FREQ \in OutputFreqs
  BY DEF OutputFreqs
<1>4. PR2 = Period(OUTPUT_FREQ) /\ OC3RS \in Duty(0, Period(OUTPUT_FREQ) + 1)
  BY DEF CommandsInit
<1> QED BY <1>1, <1>2, <1>3, <1>4 DEF Types, Steady

\* A pulse that is set for the period there is.
LEMMA PulseIsSet ==
    ASSUME Types, NEW l \in Byte, OC3RS' \in Duty(l, PR2 + 1)
    PROVE  /\ \E f \in OutputFreqs : OC3RS' \in Duty(l, Period(f) + 1)
           /\ \E f \in OutputFreqs, q \in Byte : OC3RS' \in Duty(q, Period(f) + 1)
<1>1. PICK f \in OutputFreqs : PR2 = Period(f)
  BY DEF Types
<1>2. OC3RS' \in Duty(l, Period(f) + 1)
  BY <1>1
<1> QED BY <1>2

LEMMA TypesSend ==
    ASSUME Types, NEW m, NEW wish, m \in Messages, Sends(m, wish)
    PROVE  Types'
<1>1. wire' \in Seq(Messages)
  BY DEF Sends, Types
<1>2. UNCHANGED <<PR2, OC3RS, tpadMAG, textureOn, texture>>
  BY DEF Sends
<1> QED BY <1>1, <1>2 DEF Types

LEMMA CommandsAreMessages == ASSUME NEW m, Command(m) PROVE m \in Messages
BY CommandShape DEF Messages

LEMMA TypesHandler ==
    ASSUME Types, wire' \in Seq(Messages), NEW m, Command(m), NEW rest \in Seq(Byte),
           NEW d, d = m \o rest, ADBCallback(d)
    PROVE  Types'
<1>1. /\ d \in Seq(Byte) /\ Len(d) \in Nat /\ Len(d) >= 1
      /\ d[1] = COMMAND_MAG => d[2] \in Levels
      /\ d[1] = COMMAND_FREQ /\ Len(d) <= 5 => IntFromBytes(Payload(d)) \in Freqs
  BY OfPacket
<1>2. Payload(d) \in Seq(Byte)
  BY <1>1 DEF Payload
<1>3. CASE handleTexture(Payload(d))
  <2>1. Len(Payload(d)) > MAX_BUFFER_LENGTH =>
           SubSeq(Payload(d), 1, MAX_BUFFER_LENGTH) \in Seq(Byte)
    <3> DEFINE p == Payload(d)
    <3>1. p \in Seq(Byte)
      BY <1>2
    <3> HIDE DEF p
    <3>2. MAX_BUFFER_LENGTH \in Nat
      BY DEF MAX_BUFFER_LENGTH
    <3>3. Len(p) > MAX_BUFFER_LENGTH => SubSeq(p, 1, MAX_BUFFER_LENGTH) \in Seq(Byte)
      BY ONLY <3>1, <3>2
    <3> QED BY <3>3 DEF p
  <2>2. texture' \in Seq(Byte) /\ textureOn' \in BOOLEAN
    BY <1>2, <1>3, <2>1 DEF handleTexture
  <2> QED BY <1>3, <2>2 DEF handleTexture, Types
<1>4. CASE Ignored
  BY <1>4 DEF Ignored, Types
<1>5. CASE d[1] = COMMAND_FREQ /\ Len(d) <= 5 /\ HandleFreq(d)
  <2>1. \E f \in OutputFreqs : PR2' = Period(f)
    BY <1>1, <1>5 DEF HandleFreq, OutputFreqs
  <2> QED BY <1>5, <2>1 DEF HandleFreq, Types
<1>6. CASE d[1] = COMMAND_MAG /\ HandleMag(d)
  <2>1. tpadMAG' \in Byte
    <3>1. Levels \subseteq Byte
      BY CommandsAssumption
    <3>2. tpadMAG' = d[2] /\ d[2] \in Levels
      BY <1>1, <1>6 DEF HandleMag, LevelOf
    <3> QED BY <3>1, <3>2
  <2>2. \E f \in OutputFreqs, q \in Byte : OC3RS' \in Duty(q, Period(f) + 1)
    BY <1>6, <2>1, PulseIsSet DEF HandleMag
  <2> QED BY <1>6, <2>1, <2>2 DEF HandleMag, Types
<1>7. CASE HandleAlive
  BY <1>7 DEF HandleAlive, Types
<1>8. Len(d) > 5 \/ Len(d) <= 5
  BY <1>1
<1> QED BY <1>3, <1>4, <1>5, <1>6, <1>7, <1>8 DEF ADBCallback

\* The packet that Receive takes.
LEMMA PacketIs ==
    ASSUME Types, NEW k \in 1 .. Len(wire)
    PROVE  /\ Command(wire[1])
           /\ \E rest \in Seq(Byte) :
                 Seqs!FlattenSeq(SubSeq(wire, 1, k)) = wire[1] \o rest
           /\ k = 1 => Seqs!FlattenSeq(SubSeq(wire, 1, k)) = wire[1]
           /\ SubSeq(wire, k + 1, Len(wire)) \in Seq(Messages)
<1> DEFINE s == SubSeq(wire, 1, k)
<1>1. wire \in Seq(Messages) /\ Len(wire) \in Nat /\ Len(wire) >= 1 /\ k \in Nat /\ k >= 1
  BY DEF Types
<1>2. s \in Seq(Messages) /\ Len(s) = k /\ s[1] = wire[1]
  BY <1>1
<1>3. s \in Seq(Seq(Byte))
  <2> HIDE DEF s
  <2>1. s = [i \in 1 .. Len(s) |-> s[i]] /\ \A i \in 1 .. Len(s) : s[i] \in Seq(Byte)
    BY <1>2 DEF Messages
  <2> QED BY <1>1, <1>2, <2>1
<1>4. wire[1] \in Messages
  BY <1>1
<1>5. SubSeq(wire, k + 1, Len(wire)) \in Seq(Messages)
  BY <1>1
<1> HIDE DEF s
<1>6. /\ \E rest \in Seq(Byte) : Seqs!FlattenSeq(s) = s[1] \o rest
      /\ Len(s) = 1 => Seqs!FlattenSeq(s) = s[1]
  <2>1. Len(s) >= 1
    BY <1>1, <1>2
  <2> QED BY ONLY <1>3, <2>1, FlattenFirst
<1> QED BY <1>2, <1>4, <1>5, <1>6 DEF s, Messages

LEMMA TypesNext == Types /\ [CommandsNext]_commandVars => Types'
<1> SUFFICES ASSUME Types, [CommandsNext]_commandVars PROVE Types'
  OBVIOUS
<1>1. ASSUME SendMag \/ SendFreq \/ SendTexture \/ KeepAlive PROVE Types'
  <2>1. \E m, wish : Command(m) /\ Sends(m, wish)
    BY <1>1 DEF SendMag, SendFreq, SendTexture, KeepAlive, Command, MagBytes,
       FreqBytes, TextureBytes, AliveBytes
  <2> QED BY <2>1, TypesSend, CommandsAreMessages
<1>2. CASE Receive
  <2>1. PICK k \in 1 .. Len(wire) :
             /\ ADBCallback(Seqs!FlattenSeq(SubSeq(wire, 1, k)))
             /\ wire' = SubSeq(wire, k + 1, Len(wire))
    BY <1>2 DEF Receive
  <2>2. /\ Command(wire[1]) /\ wire' \in Seq(Messages)
        /\ \E rest \in Seq(Byte) : Seqs!FlattenSeq(SubSeq(wire, 1, k)) = wire[1] \o rest
    BY <2>1, PacketIs
  <2> QED BY <2>1, <2>2, TypesHandler
<1>3. CASE PlaySample
  <2>1. PICK i \in 1 .. Len(texture) : OC3RS' \in Duty(texture[i], PR2 + 1)
    BY <1>3 DEF PlaySample
  <2>2. texture[i] \in Byte
    BY DEF Types
  <2>3. \E f \in OutputFreqs, q \in Byte : OC3RS' \in Duty(q, Period(f) + 1)
    BY <2>1, <2>2, PulseIsSet
  <2> QED BY <1>3, <2>3 DEF PlaySample, Types
<1>4. CASE UNCHANGED commandVars
  BY <1>4 DEF commandVars, Types
<1> QED BY <1>1, <1>2, <1>3, <1>4 DEF CommandsNext

LEMMA TypesHold == CommandsSpec => []Types
BY CommandsInitTypes, TypesNext, PTL DEF CommandsSpec

\* If the periods are within an octave of each other, the output goes high and
\* low in every one of them, however the commands come and however packets
\* divide them: PWM_Set_DC keeps the pulse between a percent and half of the
\* period it was set for (main.c:316-330), and that is less than any period.
THEOREM OutputOscillates == WithinOctave /\ CommandsSpec => []Oscillates
<1>1. CASE WithinOctave
  <2>1. ASSUME Types PROVE Oscillates
    BY <1>1, <2>1, PulseFits DEF Types, Oscillates
  <2> QED BY <2>1, TypesHold, PTL
<1> QED BY <1>1

----------------------------------------------------------------------------
(* What the commands that are under way will do.                           *)

\* No texture is longer than the buffer, and a packet holds one command.
Paced == MaxMerge = 1 /\ \A t \in Textures : Len(t) <= MAX_BUFFER_LENGTH

Outputs(a, b, c, d, e) ==
    [period |-> a, level |-> b, playing |-> c, texture |-> d, rewound |-> e]
Device == Outputs(PR2, tpadMAG, textureOn, texture, rewound)

\* What a command makes of wish x.
Plays(x, p) == [x EXCEPT !.texture = p, !.playing = TRUE]
Made(x, m) ==
    IF m[1] = COMMAND_MAG THEN [x EXCEPT !.level = m[2], !.playing = FALSE]
    ELSE IF m[1] = COMMAND_FREQ
      THEN [x EXCEPT !.period = Period(IntFromBytes(Payload(m)))]
    ELSE IF m[1] = COMMAND_TEXT
      THEN IF Len(m) > 5 THEN Plays(x, Payload(m)) ELSE x
    ELSE [x EXCEPT !.rewound = @ + 1]

\* w leads from x over the commands c to y.
Leads(w, x, c, y) ==
    /\ w[0] = x /\ w[Len(c)] = y
    /\ \A k \in 1 .. Len(c) : w[k] = Made(w[k - 1], c[k])

WillObey == \E w : Leads(w, Device, wire, meant)

LEMMA InitObeys == CommandsInit => WillObey
<1> SUFFICES ASSUME CommandsInit PROVE WillObey
  OBVIOUS
<1> DEFINE w == [k \in {0} |-> meant]
<1>1. Device = meant
  BY DEF CommandsInit, Device, Outputs
<1>2. Len(wire) = 0 /\ w[0] = meant
  BY DEF CommandsInit
<1> HIDE DEF w
<1>3. Leads(w, Device, wire, meant)
  BY <1>1, <1>2 DEF Leads
<1> QED BY <1>3 DEF WillObey

\* A command that is sent makes the wish of what was meant.
LEMMA SendObeys ==
    ASSUME Types, WillObey, NEW m, m \in Messages, Sends(m, Made(meant, m))
    PROVE  WillObey'
<1> DEFINE n == Len(wire)
           y == Made(meant, m)
<1>1. wire' = Append(wire, m) /\ meant' = y /\ Device' = Device
  BY DEF Sends, Device
<1>2. /\ n \in Nat /\ Len(wire') = n + 1 /\ wire'[n + 1] = m
      /\ \A k \in 1 .. n : wire'[k] = wire[k]
  BY <1>1 DEF Types
<1>3. PICK w : Leads(w, Device, wire, meant)
  BY DEF WillObey
<1> DEFINE v == [k \in 0 .. n + 1 |-> IF k = n + 1 THEN y ELSE w[k]]
<1> HIDE DEF n, y
<1>4. /\ v[n + 1] = y /\ \A k \in 0 .. n : v[k] = w[k]
  BY <1>2
<1> HIDE DEF v
<1>5. ASSUME NEW k \in 1 .. n + 1 PROVE v[k] = Made(v[k - 1], wire'[k])
  <2>1. CASE k = n + 1
    <3>1. k - 1 = n /\ n \in 0 .. n
      BY <1>2, <2>1
    <3>2. v[n] = meant
      BY <1>3, <1>4, <3>1 DEF Leads, n
    <3> QED BY <1>2, <1>4, <2>1, <3>1, <3>2 DEF y
  <2>2. CASE k # n + 1
    <3>1. k \in 1 .. n /\ k \in 0 .. n /\ k - 1 \in 0 .. n
      BY <1>2, <2>2
    <3>2. w[k] = Made(w[k - 1], wire[k])
      BY <1>3, <3>1 DEF Leads, n
    <3> QED BY <1>2, <1>4, <3>1, <3>2
  <2> QED BY <2>1, <2>2
<1>6. v[0] = Device'
  <2>1. 0 \in 0 .. n
    BY <1>2
  <2> QED BY <1>1, <1>3, <1>4, <2>1 DEF Leads
<1>7. Leads(v, Device', wire', meant')
  BY <1>1, <1>2, <1>4, <1>5, <1>6 DEF Leads
<1> QED BY <1>7 DEF WillObey

\* The device with a texture that plays.
LEMMA DevicePlays ==
    ASSUME NEW p
    PROVE  Plays(Device, p) = Outputs(PR2, tpadMAG, TRUE, p, rewound)
<1> DEFINE F == {"period", "level", "playing", "texture", "rewound"}
           u == Plays(Device, p)
           v == Outputs(PR2, tpadMAG, TRUE, p, rewound)
<1>1. u = [i \in F |-> u[i]] /\ v = [i \in F |-> v[i]]
  BY DEF Plays, Outputs, Device
<1>2. /\ u.period = PR2 /\ u.level = tpadMAG /\ u.playing = TRUE
      /\ u.texture = p /\ u.rewound = rewound
  BY DEF Plays, Outputs, Device
<1>3. /\ v.period = PR2 /\ v.level = tpadMAG /\ v.playing = TRUE
      /\ v.texture = p /\ v.rewound = rewound
  BY DEF Outputs
<1> HIDE DEF u, v
<1>4. \A i \in F : u[i] = v[i]
  BY <1>2, <1>3
<1>5. u = v
  <2> HIDE DEF F
  <2> QED BY <1>1, <1>4
<1> QED BY <1>5 DEF u, v

\* The rest of a sequence.
LEMMA RestOf ==
    ASSUME NEW S, NEW s \in Seq(S), Len(s) >= 1
    PROVE  /\ Len(SubSeq(s, 2, Len(s))) = Len(s) - 1
           /\ \A j \in 1 .. Len(s) - 1 : SubSeq(s, 2, Len(s))[j] = s[j + 1]
OBVIOUS

\* The callback makes of the device what the command makes of a wish.
LEMMA HandlerObeys ==
    ASSUME Types, Paced, NEW m, Command(m), ADBCallback(m)
    PROVE  Device' = Made(Device, m)
<1> USE DEF COMMAND_MAG, COMMAND_FREQ, COMMAND_TEXT, COMMAND_ALIVE
<1>1. m \in Seq(Byte) /\ Len(m) \in Nat /\ Len(m) >= 1
  BY CommandShape
<1>2. CASE \E l \in Levels : Len(m) = 2 /\ m[1] = COMMAND_MAG /\ m[2] = l
  <2>1. HandleMag(m)
    BY <1>2 DEF ADBCallback
  <2> QED BY <1>2, <2>1 DEF HandleMag, LevelOf, Device, Outputs, Made
<1>3. CASE \E f \in Freqs : /\ Len(m) = 5 /\ m[1] = COMMAND_FREQ
                            /\ IntFromBytes(Payload(m)) = f
  <2>1. HandleFreq(m)
    BY <1>3 DEF ADBCallback
  <2> QED BY <1>3, <2>1 DEF HandleFreq, Device, Outputs, Made
<1>4. CASE \E t \in Textures : /\ Len(m) = Len(t) + 1 /\ m[1] = COMMAND_TEXT
                               /\ Payload(m) = t
  <2>1. CASE Len(m) > 5
    <3>1. handleTexture(Payload(m)) /\ m[1] = COMMAND_TEXT
      BY <1>4, <2>1 DEF ADBCallback
    <3>2. ~(Len(Payload(m)) > MAX_BUFFER_LENGTH)
      <4>1. PICK t \in Textures : Payload(m) = t /\ Len(m) = Len(t) + 1
        BY <1>4
      <4>2. Len(t) <= MAX_BUFFER_LENGTH /\ Len(t) \in Nat
        BY CommandsAssumption DEF Paced
      <4> QED BY <4>1, <4>2 DEF MAX_BUFFER_LENGTH
    <3>3. /\ texture' = Payload(m) /\ textureOn' = TRUE
          /\ UNCHANGED <<PR2, OC3RS, tpadMAG, rewound>>
      BY <3>1, <3>2 DEF handleTexture
    <3>4. Made(Device, m) = Plays(Device, Payload(m))
      BY <2>1, <3>1 DEF Made
    <3>5. Plays(Device, Payload(m)) = Outputs(PR2, tpadMAG, TRUE, Payload(m), rewound)
      BY DevicePlays
    <3> QED BY <3>3, <3>4, <3>5 DEF Device
  <2>2. CASE ~(Len(m) > 5)
    <3>1. Ignored /\ m[1] = COMMAND_TEXT
      BY <1>4, <2>2 DEF ADBCallback
    <3> QED BY <2>2, <3>1 DEF Ignored, Device, Made
  <2> QED BY <2>1, <2>2
<1>5. CASE Len(m) = 1 /\ m[1] = COMMAND_ALIVE
  <2>1. HandleAlive
    BY <1>5 DEF ADBCallback
  <2> QED BY <1>5, <2>1 DEF HandleAlive, Device, Outputs, Made
<1> QED BY <1>2, <1>3, <1>4, <1>5, CommandShape

\* The same of the pulse.
LEMMA HandlerSteady ==
    ASSUME Types, Steady, NEW m, Command(m), ADBCallback(m)
    PROVE  Steady'
<1>1. CASE \E p : handleTexture(p)
  BY <1>1 DEF handleTexture, Steady
<1>2. CASE Ignored \/ HandleFreq(m) \/ HandleAlive
  <2>1. textureOn' = textureOn /\ OC3RS' = OC3RS /\ tpadMAG' = tpadMAG
    BY <1>2 DEF Ignored, HandleFreq, HandleAlive
  <2> QED BY <2>1 DEF Steady
<1>3. CASE m[1] = COMMAND_MAG /\ HandleMag(m)
  <2>1. tpadMAG' \in Byte
    <3>1. Levels \subseteq Byte
      BY CommandsAssumption
    <3>2. m \in Seq(Byte) /\ m \o <<>> = m /\ <<>> \in Seq(Byte)
      BY CommandShape
    <3>3. m[2] \in Levels
      BY <1>3, <3>2, OfPacket
    <3> QED BY <1>3, <3>1, <3>3 DEF HandleMag, LevelOf
  <2> QED BY <1>3, <2>1, PulseIsSet DEF HandleMag, Steady
<1> QED BY <1>1, <1>2, <1>3 DEF ADBCallback

LEMMA ReceiveObeys ==
    ASSUME Types, WillObey, Steady, Paced, Receive
    PROVE  WillObey' /\ Steady'
<1>1. PICK k \in 1 .. Len(wire) :
           /\ k <= MaxMerge
           /\ ADBCallback(Seqs!FlattenSeq(SubSeq(wire, 1, k)))
           /\ wire' = SubSeq(wire, k + 1, Len(wire)) /\ meant' = meant
  BY DEF Receive
<1> DEFINE m == wire[1]
           n == Len(wire)
<1>2. /\ k = 1 /\ n \in Nat /\ n >= 1
      /\ Command(m) /\ ADBCallback(m)
  <2>1. n \in Nat /\ k = 1
    BY <1>1 DEF Paced, Types
  <2> QED BY <1>1, <2>1, PacketIs
<1>3. /\ Len(wire') = n - 1
      /\ \A j \in 1 .. n - 1 : wire'[j] = wire[j + 1]
  <2>1. wire' = SubSeq(wire, 2, n) /\ wire \in Seq(Messages)
    BY <1>1, <1>2 DEF Types
  <2>2. Len(SubSeq(wire, 2, n)) = n - 1
    BY <1>2, <2>1, RestOf
  <2>3. \A j \in 1 .. n - 1 : SubSeq(wire, 2, n)[j] = wire[j + 1]
    BY <1>2, <2>1, RestOf
  <2> QED BY <2>1, <2>2, <2>3
<1>4. Device' = Made(Device, m)
  BY <1>2, HandlerObeys
<1>5. PICK w : Leads(w, Device, wire, meant)
  BY DEF WillObey
<1> HIDE DEF m
<1>6. /\ w[1] = Made(Device, m) /\ w[n] = meant
      /\ \A j \in 2 .. n : w[j] = Made(w[j - 1], wire[j])
  <2>1. 1 \in 1 .. n /\ 1 - 1 = 0
    BY <1>2
  <2> QED BY <1>5, <2>1 DEF Leads, m
<1> DEFINE v == [j \in 0 .. n - 1 |-> w[j + 1]]
<1> HIDE DEF n
<1>7. \A j \in 0 .. n - 1 : v[j] = w[j + 1]
  OBVIOUS
<1> HIDE DEF v
<1>8. v[0] = Device' /\ v[n - 1] = meant'
  <2>1. 0 \in 0 .. n - 1 /\ n - 1 \in 0 .. n - 1 /\ 0 + 1 = 1 /\ (n - 1) + 1 = n
    BY <1>2
  <2> QED BY <1>1, <1>4, <1>6, <1>7, <2>1
<1>9. ASSUME NEW j \in 1 .. n - 1 PROVE v[j] = Made(v[j - 1], wire'[j])
  <2>1. /\ j \in 0 .. n - 1 /\ j - 1 \in 0 .. n - 1 /\ j + 1 \in 2 .. n
        /\ (j - 1) + 1 = j /\ (j + 1) - 1 = j
    BY <1>2
  <2>2. w[j + 1] = Made(w[j], wire[j + 1])
    BY <1>6, <2>1
  <2> QED BY <1>3, <1>7, <2>1, <2>2
<1>10. Leads(v, Device', wire', meant')
  BY <1>3, <1>8, <1>9 DEF Leads
<1>11. Steady'
  BY <1>2, HandlerSteady
<1> QED BY <1>10, <1>11 DEF WillObey

LEMMA ObeysNext ==
    ASSUME Paced, Types, WillObey, Steady, [CommandsNext]_commandVars
    PROVE  WillObey' /\ Steady'
<1>1. ASSUME NEW m, Command(m), Sends(m, Made(meant, m))
      PROVE  WillObey' /\ Steady'
  <2>1. WillObey'
    BY <1>1, SendObeys, CommandsAreMessages
  <2>2. textureOn' = textureOn /\ OC3RS' = OC3RS /\ tpadMAG' = tpadMAG
    BY <1>1 DEF Sends
  <2> QED BY <2>1, <2>2 DEF Steady
<1>2. ASSUME SendMag \/ SendFreq \/ SendTexture \/ KeepAlive
      PROVE  \E m : Command(m) /\ Sends(m, Made(meant, m))
  <2> USE DEF COMMAND_MAG, COMMAND_FREQ, COMMAND_TEXT, COMMAND_ALIVE
  <2>1. CASE SendMag
    <3>1. PICK l \in Levels : Sends(MagBytes(l),
               [meant EXCEPT !.level = l, !.playing = FALSE])
      BY <2>1 DEF SendMag, MagBytes
    <3>2. MagBytes(l)[1] = COMMAND_MAG /\ MagBytes(l)[2] = l
      BY DEF MagBytes
    <3>3. Made(meant, MagBytes(l)) = [meant EXCEPT !.level = l, !.playing = FALSE]
      BY <3>2 DEF Made
    <3> QED BY <3>1, <3>3 DEF Command
  <2>2. CASE SendFreq
    <3>1. PICK f \in Freqs : Sends(FreqBytes(f), [meant EXCEPT !.period = Period(f)])
      BY <2>2 DEF SendFreq, FreqBytes
    <3>2. FreqBytes(f)[1] = COMMAND_FREQ /\ IntFromBytes(Payload(FreqBytes(f))) = f
      BY FreqShape
    <3>3. Made(meant, FreqBytes(f)) = [meant EXCEPT !.period = Period(f)]
      BY <3>2 DEF Made
    <3> QED BY <3>1, <3>3 DEF Command
  <2>3. CASE SendTexture
    <3>1. PICK t \in Textures : Sends(TextureBytes(t),
               IF Len(t) < MinTexture THEN meant
               ELSE [meant EXCEPT !.texture = t, !.playing = TRUE])
      BY <2>3 DEF SendTexture, TextureBytes
    <3>2. /\ TextureBytes(t)[1] = COMMAND_TEXT /\ Payload(TextureBytes(t)) = t
          /\ Len(TextureBytes(t)) = Len(t) + 1 /\ Len(t) \in Nat
      BY TextureShape
    <3>3. Len(t) < MinTexture <=> ~(Len(TextureBytes(t)) > 5)
      BY <3>2 DEF MinTexture
    <3>4. Made(meant, TextureBytes(t)) =
               IF Len(t) < MinTexture THEN meant
               ELSE [meant EXCEPT !.texture = t, !.playing = TRUE]
      BY <3>2, <3>3 DEF Made, Plays
    <3> QED BY <3>1, <3>4 DEF Command
  <2>4. CASE KeepAlive
    <3>1. Sends(AliveBytes, [meant EXCEPT !.rewound = @ + 1])
      BY <2>4 DEF KeepAlive, AliveBytes
    <3>2. AliveBytes[1] = COMMAND_ALIVE
      BY DEF AliveBytes
    <3>3. Made(meant, AliveBytes) = [meant EXCEPT !.rewound = @ + 1]
      BY <3>2 DEF Made
    <3> QED BY <3>1, <3>3 DEF Command
  <2> QED BY <1>2, <2>1, <2>2, <2>3, <2>4
<1>3. CASE PlaySample
  <2>1. textureOn /\ textureOn' = textureOn /\ wire' = wire /\ meant' = meant /\ Device' = Device
    BY <1>3 DEF PlaySample, Device
  <2> QED BY <2>1 DEF Steady, WillObey
<1>4. CASE UNCHANGED commandVars
  <2>1. /\ textureOn' = textureOn /\ OC3RS' = OC3RS /\ tpadMAG' = tpadMAG
        /\ wire' = wire /\ meant' = meant /\ Device' = Device
    BY <1>4 DEF commandVars, Device
  <2> QED BY <2>1 DEF Steady, WillObey
<1> QED BY <1>1, <1>2, <1>3, <1>4, ReceiveObeys DEF CommandsNext

\* If packets hold one command each and textures fit the buffer, then once all
\* commands have arrived the device is as the last of each kind asks, for any
\* levels, frequencies, textures and number of commands (main.c:250-315): what
\* is under way leads from what the device is to what is meant.
THEOREM CommandsAreObeyed == Paced /\ CommandsSpec => []Obeyed
<1>1. CASE Paced
  <2> DEFINE ObeyInv == Types /\ WillObey /\ Steady
  <2>1. CommandsInit => ObeyInv
    BY CommandsInitTypes, InitObeys
  <2>2. ObeyInv /\ [CommandsNext]_commandVars => ObeyInv'
    BY <1>1, TypesNext, ObeysNext
  <2>3. ASSUME ObeyInv PROVE Obeyed
    <3> SUFFICES ASSUME wire = <<>> PROVE Device = meant /\ Steady
      BY DEF Obeyed, Device, Outputs, Steady, OutputFreqs
    <3>1. PICK w : Leads(w, Device, wire, meant)
      BY <2>3 DEF WillObey
    <3>2. Len(wire) = 0
      OBVIOUS
    <3> QED BY <2>3, <3>1, <3>2 DEF Leads
  <2> HIDE DEF ObeyInv
  <2> QED BY <2>1, <2>2, <2>3, PTL DEF CommandsSpec
<1> QED BY <1>1

=============================================================================
