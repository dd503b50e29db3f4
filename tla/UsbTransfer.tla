---------------------------- MODULE UsbTransfer ----------------------------
(***************************************************************************)
(* The transfers of the USB host stack (usb_host.c), token by token: the   *)
(* control endpoint, an interrupt endpoint and the two bulk endpoints, as  *)
(* a Bluetooth dongle has them.                                            *)
(*                                                                         *)
(* A transfer is started by USBHostTasks or a driver, in one step here:    *)
(* module AdbPacket splits it.  The rest is done by the interrupt: one     *)
(* token is out at a time, its end is dealt with and the next is chosen.   *)
(* Tokens, data and handshakes may be lost; the data toggle of either side *)
(* tells a packet that comes again from a new one.                         *)
(*                                                                         *)
(* The device is external.  Sizes are counted in units, MaxPacketSize of   *)
(* which fill a packet.  No endpoint is isochronous, and the events of     *)
(* USB_ENABLE_TRANSFER_EVENT are not configured.                           *)
(***************************************************************************)
EXTENDS Integers, FiniteSets

CONSTANTS
    MaxPacketSize,  \* wMaxPacketSize
    Sizes,          \* sizes of the transfers, and of what the device answers
    ReadSize,       \* the buffer for a read: there is room in it
    RetryAttempts,  \* USB_TRANSACTION_RETRY_ATTEMPTS
    ControlNaks,    \* USB_NUM_CONTROL_NAKS
    Interval,       \* wInterval of the interrupt endpoint
    Uses,           \* bound: the sets of endpoints that are used together
    MaxFaults       \* bound on what the bus loses

ASSUME TransferAssumption ==
    /\ MaxPacketSize \in Nat \ {0} /\ Sizes \subseteq Nat \ {0}
    /\ ReadSize \in Nat /\ \A s \in Sizes : s < ReadSize
    /\ RetryAttempts \in Nat \ {0} /\ ControlNaks \in Nat /\ Interval \in Nat
    /\ MaxFaults \in Nat /\ Uses \subseteq SUBSET {"ep0", "bulkOut", "bulkIn", "intIn"}

\* pEndpointList, which endpoint 0 is not in.
List == <<"bulkOut", "bulkIn", "intIn">>
Eps  == {"ep0", "bulkOut", "bulkIn", "intIn"}
Ins  == {"bulkIn", "intIn"}
Kinds == {"NO_DATA", "CONTROL_READ", "CONTROL_WRITE"}
Type == [ep0 |-> "CONTROL", intIn |-> "INTERRUPT", bulkIn |-> "BULK",
         bulkOut |-> "BULK"]

VARIABLES
    ep,     \* the USB_ENDPOINT_INFO of each endpoint
    bus,    \* usbBusInfo: the token that is out and its endpoint, the types
            \* that are done in this frame, lastBulkTransaction
    dev,    \* the device, by endpoint: its toggle, and how far it is in the
            \* data of the transfer; whether it did what it was asked
    used,   \* the endpoints that are used
    faults  \* counted for the bound
vars == <<ep, bus, dev, used, faults>>

None    == -1
NoneDone == [control |-> FALSE, interrupt |-> FALSE, bulk |-> FALSE]
NoToken == [ep |-> "ep0", pid |-> "none"]

(***************************************************************************)
(* The stages of a transfer: transferState.                                *)
(***************************************************************************)
After(kind, stage) ==
    CASE stage = "SETUP" -> IF kind = "NO_DATA" THEN "ACK" ELSE "DATA"
      [] stage = "DATA"  -> IF kind \in {"READ", "WRITE"} THEN "COMPLETE" ELSE "ACK"
      [] stage = "ACK"   -> "COMPLETE"

NextStage(x) == [x EXCEPT !.stage = After(x.kind, x.stage)]
Fails(x, why) == [x EXCEPT !.failed = why, !.stage = "ERROR"]
\* The counts of the transfer are not read before the next one resets them.
Idle(x)      == [x EXCEPT !.stage = "IDLE", !.complete = TRUE,
                          !.errors = 0, !.naks = 0]
IsOver(x)    == x.stage \in {"COMPLETE", "ERROR"}

\* _USB_InitControlRead and the like; an endpoint keeps its toggle and its
\* errors, but for endpoint 0.
Init1(x, kind, size) ==
    [x EXCEPT !.kind = kind, !.count = 0, !.max = size, !.errors = 0,
              !.naks = 0, !.nakd = FALSE, !.ok = FALSE, !.complete = FALSE]
InitControl(x, kind, size) ==
    [Init1(x, kind, size) EXCEPT !.stage = "SETUP", !.failed = "none"]
InitData(x, kind, size) == [Init1(x, kind, size) EXCEPT !.stage = "DATA"]

(***************************************************************************)
(* _USB_FindNextToken, on the endpoints e and the state b of the bus.      *)
(***************************************************************************)
Pid(x) ==
    CASE x.stage = "SETUP" -> "SETUP"
      [] x.stage = "DATA"  -> IF x.kind \in {"READ", "CONTROL_READ"} THEN "IN" ELSE "OUT"
      [] x.stage = "ACK"   -> IF x.kind = "CONTROL_READ" THEN "OUT" ELSE "IN"

\* _USB_SetDATA01 and what else a token sets in its endpoint.
Prepared(x) ==
    CASE x.stage = "SETUP" -> [x EXCEPT !.toggle = 0]
      [] x.stage = "ACK"   -> [x EXCEPT !.toggle = 1, !.max = x.count]
      [] x.stage = "DATA"  -> x

\* _USB_SetBDT and _USB_SendToken.
SendToken(s, e) ==
    [s EXCEPT !.ep[e] = Prepared(@),
              !.bus.token = [ep |-> e, pid |-> Pid(s.ep[e])]]
Written(s) == s.bus.token.pid # "none"

\* One control transaction in a frame.
Control(s) ==
    LET x == s.ep.ep0
        t == [s EXCEPT !.bus.done.control = TRUE] IN
    IF s.bus.done.control \/ x.complete THEN t
    ELSE IF IsOver(x) THEN [t EXCEPT !.ep.ep0 = Idle(@)]
    ELSE SendToken(t, "ep0")

\* An endpoint that is not in use has its interval begin again, too.
Interrupts(s) ==
    LET x == s.ep.intIn
        t == [s EXCEPT !.bus.done.interrupt = TRUE] IN
    IF Written(s) \/ s.bus.done.interrupt THEN s
    ELSE IF x.complete
      THEN [t EXCEPT !.ep.intIn.wait = IF @ = 0 THEN Interval ELSE @]
    ELSE IF IsOver(x) THEN [t EXCEPT !.ep.intIn = Idle(@)]
    ELSE IF x.wait > 0 THEN t
    ELSE SendToken([s EXCEPT !.ep.intIn.wait = Interval], "intIn")

\* Round the bulk endpoints that need service and were not refused in this
\* frame: the one after lastBulkTransaction, or else from the first again.
Needs(x)  == ~x.complete /\ ~x.nakd
TryBulk(s) ==
    LET ready == {i \in DOMAIN List : Type[List[i]] = "BULK" /\ Needs(s.ep[List[i]])}
        turn  == {i \in ready : Cardinality({j \in ready : j < i}) = s.bus.last}
        e     == List[CHOOSE i \in turn : TRUE] IN
    IF Written(s) \/ s.bus.done.bulk THEN s
    ELSE IF ready = {} THEN [s EXCEPT !.bus.done.bulk = TRUE]
    ELSE IF turn = {} THEN [s EXCEPT !.bus.last = 0]
    ELSE IF IsOver(s.ep[e]) THEN [s EXCEPT !.ep[e] = Idle(@), !.bus.last = 0]
    ELSE SendToken([s EXCEPT !.bus.last = @ + 1], e)

\* The loop for bulk ends within the rounds that are made here: each endpoint
\* is completed once, and the round begins again for it.
FindNextToken(e, b) ==
    \E s \in {[ep |-> e, bus |-> b]} :
       IF Written(s) THEN ep' = e /\ bus' = b
       ELSE \E c \in {Control(s)} : \E i \in {Interrupts(c)} :
            \E t1 \in {TryBulk(i)}  : \E t2 \in {TryBulk(t1)} :
            \E t3 \in {TryBulk(t2)} : \E t4 \in {TryBulk(t3)} :
            \E t5 \in {TryBulk(t4)} : \E t6 \in {TryBulk(t5)} :
               ep' = t6.ep /\ bus' = t6.bus

(***************************************************************************)
(* Starting a transfer.                                                    *)
(***************************************************************************)
UNCHANGED_bus == UNCHANGED <<bus, used, faults>>
StartControl ==
    /\ "ep0" \in used /\ ep.ep0.complete
    /\ \E kind \in Kinds, size \in Sizes :
          /\ ep' = [ep EXCEPT !.ep0 = InitControl(@, kind, IF kind = "NO_DATA" THEN 0 ELSE size)]
          /\ dev' = [dev EXCEPT !.ep0.pos = 0, !.ep0.done = FALSE]
    /\ UNCHANGED_bus

\* USBHostRead and USBHostWrite refuse an endpoint that has failed, or is busy.
MayStart(e) == e \in used /\ ep[e].failed = "none" /\ ep[e].complete
StartRead ==
    /\ \E e \in Ins : MayStart(e) /\ ep' = [ep EXCEPT ![e] = InitData(@, "READ", ReadSize)]
    /\ UNCHANGED dev
    /\ UNCHANGED_bus
StartWrite ==
    /\ MayStart("bulkOut")
    /\ \E size \in Sizes : ep' = [ep EXCEPT !.bulkOut = InitData(@, "WRITE", size)]
    /\ dev' = [dev EXCEPT !.bulkOut.pos = 0]
    /\ UNCHANGED_bus

(***************************************************************************)
(* The end of a token, as the interrupt sees it in the descriptor.         *)
(***************************************************************************)
Least(a, b) == IF a < b THEN a ELSE b
OutSize(x) == IF x.stage = "SETUP" THEN MaxPacketSize
              ELSE Least(MaxPacketSize, x.max - x.count)
Flipped(x) == [x EXCEPT !.toggle = 1 - @]

\* (Mutant: the toggle stays after a short packet.)
MovedShort(x, size) ==
    LET y == [x EXCEPT !.toggle = IF size < MaxPacketSize THEN @ ELSE 1 - @,
                       !.count = @ + size, !.naks = 0] IN
    IF size < MaxPacketSize \/ y.count >= y.max
      THEN NextStage([y EXCEPT !.ok = TRUE]) ELSE y
\* The last packet of a stage is short, or is the last there is room for.
Moved(x, size) ==
    LET y == [Flipped(x) EXCEPT !.count = @ + size, !.naks = 0] IN
    IF size < MaxPacketSize \/ y.count >= y.max
      THEN NextStage([y EXCEPT !.ok = TRUE]) ELSE y

PidAck(x) ==
    IF x.stage = "SETUP" THEN NextStage([Flipped(x) EXCEPT !.naks = 0])
    ELSE Moved(x, OutSize(x))
PidData(x, size) == Moved(x, size)

\* For bulk there is no time-out: the count is left out.
PidNak(x, type) ==
    CASE type = "BULK"      -> [x EXCEPT !.nakd = TRUE]
      [] type = "INTERRUPT" -> NextStage([x EXCEPT !.ok = TRUE])
      [] type = "CONTROL"   -> IF x.naks >= ControlNaks THEN Fails(x, "nak")
                               ELSE [x EXCEPT !.naks = @ + 1]
PidStall(x) == Fails(x, "stall")

\* Too many errors of a transfer end it.  (Mutant: of the endpoint.)
ErrorOver(x) ==
    LET y == [x EXCEPT !.errors = @ + 1] IN
    IF y.errors + 1 >= RetryAttempts THEN Fails(y, "error") ELSE y
Error(x) ==
    LET y == [x EXCEPT !.errors = @ + 1] IN
    IF y.errors >= RetryAttempts THEN Fails(y, "error") ELSE y

Token   == bus.token
E       == Token.ep
X       == ep[E]
D       == dev[E]
Cleared == [bus EXCEPT !.token = NoToken]
Fault   == faults < MaxFaults /\ faults' = faults + 1

\* The Transfer Done part of the interrupt, which ends in the next token.
Done(x) == FindNextToken([ep EXCEPT ![E] = x], Cleared)

\* The error interrupt: with the transfer's, which counts it once more, or
\* alone, and then nothing is sent before the next frame.
BusError ==
    \/ Done(Error(Error(X)))
    \/ ep' = [ep EXCEPT ![E] = Error(X)] /\ bus' = Cleared

(***************************************************************************)
(* The device.                                                             *)
(***************************************************************************)
\* It has a message for one of its endpoints, or an answer for endpoint 0.
HasMessage(e) ==
    /\ e \in used /\ dev[e].len = None
    /\ \E len \in Sizes : dev' = [dev EXCEPT ![e].len = len]
    /\ UNCHANGED <<ep, bus, used, faults>>

\* What it sends for a token: data, while it has any, or the empty packet of a
\* status stage; a message ends with a short packet.
InSize  == IF Token.ep = "ep0" /\ X.stage = "ACK" THEN 0
           ELSE Least(MaxPacketSize, D.len - D.pos)
LastIn  == InSize < MaxPacketSize
Sent  == [D EXCEPT !.done = @ \/ (E = "ep0" /\ X.stage = "ACK")]
Given ==
    LET d == [Sent EXCEPT !.toggle = 1 - @, !.pos = @ + InSize] IN
    IF E # "ep0" /\ LastIn THEN [d EXCEPT !.pos = 0, !.len = None] ELSE d
\* That of a status stage is DATA1 always.
DeviceToggle == IF Token.ep = "ep0" /\ X.stage = "ACK" THEN 1 ELSE D.toggle
\* What it takes: a packet it has had already is only acknowledged.
Taken ==
    CASE Token.pid = "SETUP" -> {[toggle |-> 1, pos |-> 0, done |-> FALSE,
                                  len |-> n] : n \in {s \in Sizes : s <= X.max} \union {0}}
      [] Token.pid = "OUT" ->
           {IF X.toggle = DeviceToggle
              THEN [D EXCEPT !.toggle = 1 - @, !.pos = @ + OutSize(X),
                             !.done = @ \/ (E = "ep0" /\ X.stage = "ACK")]
              ELSE D}

\* The token is lost, or the first answer to it.
Lost ==
    /\ Token.pid # "none"
    /\ Fault /\ BusError /\ UNCHANGED <<dev, used>>

OutTaken(e) ==
    /\ Token.pid \in {"SETUP", "OUT"} /\ E = e
    /\ Done(PidAck(X))
    /\ \E d \in Taken : dev' = [dev EXCEPT ![E] = d]
    /\ UNCHANGED <<used, faults>>
OutAckLost ==
    /\ Token.pid \in {"SETUP", "OUT"}
    /\ Fault
    /\ BusError
    /\ \E d \in Taken : dev' = [dev EXCEPT ![E] = d]
    /\ UNCHANGED used

\* A packet with the toggle of the one before is acknowledged, and no data.
HasIn == Token.pid = "IN" /\ (E = "ep0" \/ D.len # None)
InResult == IF X.toggle = DeviceToggle THEN PidData(X, InSize) ELSE Error(X)
InGiven ==
    /\ HasIn
    /\ Done(InResult)
    /\ dev' = [dev EXCEPT ![E] = Given]
    /\ UNCHANGED <<used, faults>>
InAckLost ==
    /\ HasIn
    /\ Fault
    /\ Done(InResult)
    /\ dev' = [dev EXCEPT ![E] = Sent]
    /\ UNCHANGED used

\* It is not ready; with data it is, but on endpoint 0.
Nak ==
    /\ Token.pid \in {"IN", "OUT"}
    /\ E \in Ins => D.len = None
    /\ Done(PidNak(X, Type[E]))
    /\ UNCHANGED <<dev, used, faults>>

\* It refuses a request.
Stall ==
    /\ E = "ep0" /\ Token.pid \in {"IN", "OUT"}
    /\ Done(PidStall(X))
    /\ UNCHANGED <<dev, used, faults>>

\* An endpoint may be asked again.  (Mutant: the NAK is not forgotten.)
StillNakd(x) == [x EXCEPT !.wait = IF @ > 0 THEN @ - 1 ELSE 0]
Waits(x) == [x EXCEPT !.nakd = FALSE, !.wait = IF @ > 0 THEN @ - 1 ELSE 0]

\* The start of a frame.  The tokens of the control and interrupt endpoints
\* come first in a frame, which has time for them.
StartOfFrame ==
    /\ Token.pid = "none" \/ Type[E] = "BULK"
    /\ FindNextToken([e \in Eps |-> IF e = "ep0" THEN ep[e] ELSE Waits(ep[e])],
                     [bus EXCEPT !.done = NoneDone, !.last = 0])
    /\ UNCHANGED <<dev, used, faults>>

Init ==
    /\ ep = [e \in Eps |-> [kind |-> "READ", stage |-> "IDLE", complete |-> TRUE,
                            ok |-> FALSE, failed |-> "none", errors |-> 0,
                            naks |-> 0, nakd |-> FALSE, toggle |-> 0, count |-> 0,
                            max |-> 0, wait |-> IF e = "intIn" THEN Interval ELSE 0]]
    /\ bus = [token |-> NoToken, last |-> 0,
              done |-> NoneDone]
    /\ dev = [e \in Eps |-> [toggle |-> 0, pos |-> 0, len |-> None, done |-> FALSE]]
    /\ used \in Uses
    /\ faults = 0

Clients == StartControl \/ StartRead \/ StartWrite
TokenEnds ==
    \/ Lost \/ OutAckLost \/ InGiven \/ InAckLost \/ Nak \/ Stall
    \/ \E e \in Eps : OutTaken(e)
Next == Clients \/ (\E e \in Ins : HasMessage(e)) \/ TokenEnds \/ StartOfFrame

Spec == Init /\ [][Next]_vars

\* A token comes to its end, frames go on, and the device neither refuses data
\* for ever nor has nothing more to say.
FairSpec ==
    /\ Spec
    /\ WF_vars(TokenEnds) /\ WF_vars(StartOfFrame)
    /\ SF_vars(OutTaken("bulkOut")) /\ WF_vars(HasMessage("bulkIn"))

-----------------------------------------------------------------------------
(***************************************************************************)
(* Properties.                                                             *)
(***************************************************************************)

\* Data that are written come to the device once, whatever is lost: it is
\* never more than a packet ahead of what the host knows of, and has it all
\* when the transfer is reported as successful (bfNextDATA01).
SentOnce ==
    LET x == ep.bulkOut IN
    /\ ~x.complete => dev.bulkOut.pos \in x.count .. x.count + MaxPacketSize
    /\ x.ok => dev.bulkOut.pos = x.max

\* A read that is successful brings one message of the device, from its first
\* unit to its last, and a packet that comes again is not taken twice; only
\* from a device that has no message does a read bring nothing.
ReceivedWhole ==
    [][\A e \in Ins :
          /\ ep'[e].count > ep[e].count => ep[e].count = dev[e].pos
          /\ ep'[e].ok /\ ~ep[e].ok => 
               ep'[e].count = IF dev[e].len = None THEN 0 ELSE dev[e].len]_vars

\* No transfer fails for errors before the bus has lost half as many packets
\* as USB_TRANSACTION_RETRY_ATTEMPTS: an error may count twice.
FewFaultsAreOvercome ==
    \A e \in Eps : ep[e].failed = "error" => 2 * faults >= RetryAttempts

\* Every transfer ends, and none keeps another from its turn: the control
\* transfers and reads of events that never stop leave time for the data.
TransfersEnd == \A e \in Eps : ~ep[e].complete ~> ep[e].complete
=============================================================================
