------------------------------ MODULE Commands ------------------------------
(***************************************************************************)
(* What the commands of an app make of the outputs of the TPad: the bytes  *)
(* TPad.java sends, how ADBCallback of main.c reads them, and the PWM they *)
(* set.  The channel between the two is a TCP stream that adbd cuts into   *)
(* packets: a packet may hold several commands, when they were written     *)
(* while the phone was waiting for the answer to the packet before.        *)
(*                                                                         *)
(* The handler and the interrupt are one step each; module Texture has     *)
(* their interleaving, module Adb the channel.                             *)
(***************************************************************************)
EXTENDS Integers, Sequences

Seqs == INSTANCE SequencesExt

CONSTANTS
    Levels,     \* magnitudes, as bytes
    Freqs,      \* frequencies of the PWM, in Hz
    Textures,   \* sequences of levels
    MaxMerge,   \* commands a packet may hold
    MaxSent     \* bound on the commands of the app

Byte == 0 .. 255

ASSUME CommandsAssumption ==
    /\ Levels \subseteq Byte
    /\ Freqs \subseteq Nat /\ \A f \in Freqs : 1 <= f /\ f <= 40000000
    /\ Textures \subseteq Seq(Byte)
    /\ MaxMerge \in Nat \ {0} /\ MaxSent \in Nat

VARIABLES
    wire,       \* the messages that are under way
    PR2,        \* the period register of timer 2
    OC3RS,      \* the pulse width of the output, in counts of timer 2
    tpadMAG,    \* the last magnitude
    textureOn,  \* tBuff.On: timer 3 plays the texture
    texture,    \* the front buffer of tBuff
    rewound,    \* calls of WriteCoreTimer(0)
    meant,      \* what the commands sent so far ask for
    sent        \* counted for the bound

commandVars == <<wire, PR2, OC3RS, tpadMAG, textureOn, texture, rewound, meant, sent>>

SYS_FREQ          == 40000000
OUTPUT_FREQ       == 33500
MAX_BUFFER_LENGTH == 1000
COMMAND_MAG       == 10
COMMAND_FREQ      == 11
COMMAND_TEXT      == 12
COMMAND_ALIVE     == 13
MinTexture        == 5      \* samples of a message of more than five bytes

Word16(n) == n % 65536
Period(f) == Word16(SYS_FREQ \div f - 1)

\* PWM_Set_DC(mag / 255.0 * 50) for a period of n counts: the duty cycle is
\* kept in 1 .. 50 percent.  A quotient that is whole may come out just below
\* in floating point.
UnclampedDuty(mag, n) == {Word16((mag * n) \div 510 - 1)}
Duty(mag, n) ==
    IF mag * 50 < 255 THEN {Word16(n \div 100 - 1)}
    ELSE {Word16((mag * n) \div 510 - 1)} \union
         (IF mag < 255 /\ (mag * n) % 510 = 0
            THEN {Word16((mag * n) \div 510 - 2)} ELSE {})

\* main: setTimer2(OUTPUT_FREQ), initPWM.
CommandsInit ==
    /\ wire = <<>> /\ sent = 0
    /\ PR2 = Period(OUTPUT_FREQ)
    /\ OC3RS \in Duty(0, PR2 + 1)
    /\ tpadMAG = 0 /\ textureOn = FALSE /\ texture = <<>> /\ rewound = 0
    /\ meant = [period |-> PR2, level |-> 0, playing |-> FALSE,
                texture |-> <<>>, rewound |-> 0]

----------------------------------------------------------------------------
(* The app.  TPad.java puts integers in little-endian order.               *)

IntToBytes(i) ==
    <<i % 256, (i \div 256) % 256, (i \div 65536) % 256, i \div 16777216>>

Sends(msg, wish) ==
    /\ sent < MaxSent
    /\ sent' = sent + 1
    /\ wire' = Append(wire, msg)
    /\ meant' = wish
    /\ UNCHANGED <<PR2, OC3RS, tpadMAG, textureOn, texture, rewound>>

SendMag == \E l \in Levels :
    Sends(<<COMMAND_MAG, l>>,
          [meant EXCEPT !.level = l, !.playing = FALSE])

SendFreq == \E f \in Freqs :
    Sends(<<COMMAND_FREQ>> \o IntToBytes(f),
          [meant EXCEPT !.period = Period(f)])

\* A texture that is too short asks for nothing: the firmware has no case for
\* it, and the app does not know.
SendTexture == \E t \in Textures :
    Sends(<<COMMAND_TEXT>> \o t,
          IF Len(t) < MinTexture THEN meant
          ELSE [meant EXCEPT !.texture = t, !.playing = TRUE])

KeepAlive ==
    Sends(<<COMMAND_ALIVE>>, [meant EXCEPT !.rewound = @ + 1])

----------------------------------------------------------------------------
(* The firmware.  Each case of the callback names what it leaves alone.    *)

IntFromBytes(b) == b[1] + b[2] * 256 + b[3] * 65536 + b[4] * 16777216
Payload(data)   == SubSeq(data, 2, Len(data))

HandleFreq(data) ==
    /\ PR2' = Period(IntFromBytes(Payload(data)))
    /\ UNCHANGED <<OC3RS, tpadMAG, textureOn, texture, rewound>>

LevelOf(data)   == data[2]

HandleMag(data) ==
    /\ tpadMAG' = LevelOf(data)
    /\ OC3RS' \in Duty(tpadMAG', PR2 + 1)
    /\ textureOn' = FALSE
    /\ UNCHANGED <<PR2, texture, rewound>>

HandleAlive ==
    /\ rewound' = rewound + 1
    /\ UNCHANGED <<PR2, OC3RS, tpadMAG, textureOn, texture>>

\* A texture that is longer than the buffer is cut.
handleTexture(raw) ==
    /\ texture' = IF Len(raw) > MAX_BUFFER_LENGTH
                    THEN SubSeq(raw, 1, MAX_BUFFER_LENGTH) ELSE raw
    /\ textureOn' = TRUE
    /\ UNCHANGED <<PR2, OC3RS, tpadMAG, rewound>>

Ignored == UNCHANGED <<PR2, OC3RS, tpadMAG, textureOn, texture, rewound>>

\* Only textures are longer than five bytes; or any command may be.
ADBCallbackLong(data) ==
    IF data[1] = COMMAND_TEXT THEN handleTexture(Payload(data))
    ELSE IF Len(data) > 4 THEN Ignored
    ELSE \/ data[1] = COMMAND_FREQ /\ HandleFreq(data)
         \/ data[1] = COMMAND_MAG /\ HandleMag(data)
         \/ data[1] = COMMAND_ALIVE /\ HandleAlive

ADBCallback(data) ==
    IF Len(data) > 5
      THEN IF data[1] = COMMAND_TEXT THEN handleTexture(Payload(data))
           ELSE Ignored
    ELSE \/ data[1] = COMMAND_FREQ /\ HandleFreq(data)
         \/ data[1] = COMMAND_MAG /\ HandleMag(data)
         \/ data[1] = COMMAND_ALIVE /\ HandleAlive
         \/ data[1] = COMMAND_TEXT /\ Ignored

\* The callback is called with the data of one packet.
Receive ==
    \E k \in 1 .. Len(wire) :
        /\ k <= MaxMerge
        /\ ADBCallback(Seqs!FlattenSeq(SubSeq(wire, 1, k)))
        /\ wire' = SubSeq(wire, k + 1, Len(wire))
        /\ UNCHANGED <<meant, sent>>

\* A sample of the texture is played.
PlaySample ==
    /\ textureOn
    /\ \E i \in 1 .. Len(texture) : OC3RS' \in Duty(texture[i], PR2 + 1)
    /\ UNCHANGED <<wire, PR2, tpadMAG, textureOn, texture, rewound, meant, sent>>

CommandsNext ==
    \/ SendMag \/ SendFreq \/ SendTexture \/ KeepAlive
    \/ Receive
    \/ PlaySample

CommandsSpec == CommandsInit /\ [][CommandsNext]_commandVars

----------------------------------------------------------------------------
(* Properties.                                                             *)

\* Once all commands have arrived the device is as they ask: whatever came
\* before, a frequency, a magnitude, a texture or a keep-alive takes effect
\* and disturbs none of the others; a texture of less than five samples does
\* nothing (main.c:295).  The pulse of a steady level is the one of
\* that level for a period the device has had.
Obeyed ==
    wire = <<>> =>
        /\ meant = [period |-> PR2, level |-> tpadMAG, playing |-> textureOn,
                    texture |-> texture, rewound |-> rewound]
        /\ textureOn \/ \E f \in Freqs \union {OUTPUT_FREQ} :
                   OC3RS \in Duty(meant.level, Period(f) + 1)

\* The output goes high and low in every period, also when the frequency was
\* changed after the pulse was set (main.c:316 leaves OC3RS alone) and for the
\* lowest level: a width of 0 keeps it low, one above the period keeps it high.
Oscillates == 0 < OC3RS /\ OC3RS <= PR2

=============================================================================
