----------------------------- MODULE AdbPacket -----------------------------
(***************************************************************************)
(* The packet layer of the ADB host (adb_packet.c) on the Android driver   *)
(* (usb_host_android.c) and the bulk transfers of the USB host stack       *)
(* (usb_host.c), down to the interrupt that performs them.                 *)
(*                                                                         *)
(* A packet is a transfer for its header and, if it has data, one for      *)
(* them.  The main loop starts a transfer by filling in the endpoint and   *)
(* clearing bfTransferComplete last; the USB interrupt sends a token for   *)
(* an endpoint whose flag is clear, takes the result, and sets the flag    *)
(* again at the end of the transfer; the main loop polls it.  Nothing      *)
(* locks an endpoint: the interrupt may fall between any two accesses of   *)
(* the main loop.  pc is the place in a pass of it, in its order:          *)
(*   rxPoll, rxStat, txPoll, txStat   USBHostAndroidTasks                  *)
(*   send, sendArm, recv, recvArm     ADBPacketTasks                       *)
(*   client                           the rest of ADBTasks                 *)
(*                                                                         *)
(* Sizes are counted in units: a header is one, a USB packet up to         *)
(* MaxPacketSize.  The phone is external.                                  *)
(***************************************************************************)
EXTENDS Integers, Sequences

CONSTANTS
    MaxPacketSize,  \* wMaxPacketSize of the two endpoints
    SendLens,       \* lengths of the data of packets to the phone
    RecvLens,       \* and of those from it
    MaxPackets,     \* bound on the packets of either side
    MaxFaults,      \* bound on failed transfers and bad packets
    Faults          \* how a packet of the phone may be bad

ASSUME PacketAssumption ==
    /\ MaxPacketSize \in Nat \ {0, 1}
    /\ SendLens \subseteq Nat /\ RecvLens \subseteq Nat
    /\ MaxPackets \in Nat \ {0} /\ MaxFaults \in Nat
    /\ Faults \subseteq {"magic", "checksum", "short"}

VARIABLES
    pc,
    sendState, recvState,   \* adb_packet_send_state, adb_packet_recv_state
    sendHdr, recvHdr,       \* adb_packet_send_header, adb_packet_recv_header
    recvData,               \* adb_packet_recv_data: whose data they are
    tx, rx,                 \* the flags and results in gc_DevData
    seen,                   \* transferComplete in USBHostTransferIsComplete
    epIn, epOut,            \* the USB_ENDPOINT_INFO of the two endpoints
    token,                  \* the token written and not yet done
    handled,                \* the last packet ADBTasks has handled
    dev,                    \* the phone: what it reads
    inq,                    \* and its transfers to the firmware, in order
    made, faults            \* counted for the bounds

packet == <<sendState, recvState, sendHdr, recvHdr, recvData>>
driver == <<tx, rx, seen>>
bus    == <<epIn, epOut, token>>
phone  == <<dev, inq, made>>
vars   == <<pc, packet, driver, bus, handled, phone, faults>>

\* Every good header and every good data of a length look alike: what keeps
\* them apart is order, not the checksum.
Header(n, re, len, fault) ==
    [id |-> n, part |-> "header", size |-> 1, re |-> re, len |-> len,
     fault |-> fault]
DataOf(h) == [h EXCEPT !.part = "data",
                       !.size = IF h.fault = "short" THEN h.len - 1
                                ELSE h.len]
Nothing == Header(0, 0, 0, "none")

Contents == [id : 0 .. MaxPackets, part : {"header", "data"}, size : Nat,
             re : 0 .. MaxPackets, len : SendLens \union RecvLens \union {0},
             fault : Faults \union {"none", "checksum"}]
BusyStates   == {"START", "WAIT_HEADER", "WAIT_DATA"}
PacketStates == BusyStates \union {"IDLE", "ERROR"}

\* stage is the substate of transferState; failed is bfStalled or bfError.
Endpoint == [stage : {"IDLE", "DATA", "COMPLETE", "ERROR"},
             complete : BOOLEAN, successful : BOOLEAN, failed : BOOLEAN,
             nakd : BOOLEAN, count : Nat, max : Nat, buf : Contents]
NewEndpoint ==
    [stage |-> "IDLE", complete |-> TRUE, successful |-> FALSE,
     failed |-> FALSE, nakd |-> FALSE, count |-> 0, max |-> 0,
     buf |-> Nothing]

TypeOK ==
    /\ pc \in {"rxPoll", "rxStat", "txPoll", "txStat", "send", "sendArm",
               "recv", "recvArm", "client"}
    /\ sendState \in PacketStates /\ recvState \in PacketStates
    /\ sendHdr \in Contents /\ recvHdr \in Contents /\ recvData \in Contents
    /\ tx \in [busy : BOOLEAN, ok : BOOLEAN]
    /\ rx \in [busy : BOOLEAN, ok : BOOLEAN, length : Nat]
    /\ seen \in BOOLEAN
    /\ epIn \in Endpoint /\ epOut \in Endpoint
    /\ token \in {"none", "IN", "OUT"}
    /\ handled \in 0 .. MaxPackets
    /\ dev \in [taken : 0 .. MaxPackets, hdr : Contents, want : Nat,
                lost : BOOLEAN]
    /\ inq \in Seq(Contents)
    /\ made \in 0 .. MaxPackets /\ faults \in 0 .. MaxFaults

NewPhone(n) == [taken |-> n, hdr |-> Nothing, want |-> 0, lost |-> FALSE]

\* The phone was attached and ADBTasks has started to receive and to send
\* CNXN, which always has data.
Init ==
    /\ pc = "rxPoll"
    /\ sendState = "START" /\ recvState = "START"
    /\ \E n \in SendLens \ {0} : sendHdr = Header(1, 0, n, "none")
    /\ recvHdr = Nothing /\ recvData = Nothing
    /\ tx = [busy |-> FALSE, ok |-> TRUE]
    /\ rx = [busy |-> FALSE, ok |-> TRUE, length |-> 0]
    /\ seen = FALSE
    /\ epIn = NewEndpoint /\ epOut = NewEndpoint /\ token = "none"
    /\ handled = 0
    /\ dev = NewPhone(0)
    /\ inq = <<>> /\ made = 0 /\ faults = 0

----------------------------------------------------------------------------
(* USBHostAndroidTasks: the two endpoints are polled, IN first.            *)

\* The first access of USBHostTransferIsComplete is to bfTransferComplete.
RxPoll ==
    /\ pc = "rxPoll"
    /\ pc' = IF rx.busy THEN "rxStat" ELSE "txPoll"
    /\ seen' = (rx.busy /\ epIn.complete)
    /\ UNCHANGED <<packet, tx, rx, bus, handled, phone, faults>>

TxPoll ==
    /\ pc = "txPoll"
    /\ pc' = IF tx.busy THEN "txStat" ELSE "send"
    /\ seen' = (tx.busy /\ epOut.complete)
    /\ UNCHANGED <<packet, tx, rx, bus, handled, phone, faults>>

\* The transfer has ended: by its substate, which changes first, and by the
\* flag that was read.
FinishedEarly(ep) == seen \/ ep.stage = "COMPLETE"
Finished(ep)      == seen

RxResult == [busy |-> FALSE, ok |-> epIn.successful, length |-> epIn.count]

RxStat ==
    /\ pc = "rxStat"
    /\ pc' = "txPoll"
    /\ rx' = IF Finished(epIn) THEN RxResult ELSE rx
    /\ seen' = FALSE
    /\ UNCHANGED <<packet, tx, bus, handled, phone, faults>>

TxStat ==
    /\ pc = "txStat"
    /\ pc' = "send"
    /\ tx' = IF Finished(epOut)
               THEN [busy |-> FALSE, ok |-> epOut.successful]
               ELSE tx
    /\ seen' = FALSE
    /\ UNCHANGED <<packet, rx, bus, handled, phone, faults>>

----------------------------------------------------------------------------
(* Starting a transfer: USBHostRead, USBHostWrite.                         *)

Accepts(ep) == ~ep.failed /\ ep.complete

Filled(ep, max, buf) ==
    [ep EXCEPT !.stage = "DATA", !.successful = FALSE, !.nakd = FALSE,
               !.count = 0, !.max = max, !.buf = buf]
Armed(ep) == [ep EXCEPT !.complete = FALSE]

----------------------------------------------------------------------------
(* ADBPacketTasks.                                                         *)

\* ADBPacketSendTasks starts the transfer of c, or fails.
StartWrite(c, next) ==
    IF tx.busy \/ ~Accepts(epOut)
      THEN /\ sendState' = "ERROR" /\ pc' = "recv"
           /\ UNCHANGED <<tx, epOut>>
      ELSE /\ sendState' = next /\ pc' = "sendArm"
           /\ tx' = [tx EXCEPT !.busy = TRUE]
           /\ epOut' = Filled(epOut, c.size, c)

\* The data is not looked at: a packet ends with its header.
SentHeaderOnly == sendState = "WAIT_HEADER"
\* The transfer that was finished was the last of the packet.
SentLast == sendState = "WAIT_DATA" \/ sendHdr.len = 0

SendTasks ==
    /\ pc = "send"
    /\ IF sendState = "START" THEN StartWrite(sendHdr, "WAIT_HEADER")
       ELSE IF sendState = "WAIT_HEADER" /\ ~tx.busy /\ tx.ok /\ ~SentLast
         THEN StartWrite(DataOf(sendHdr), "WAIT_DATA")
       ELSE /\ sendState' = IF sendState \notin BusyStates \/ tx.busy
                              THEN sendState
                            ELSE IF tx.ok THEN "IDLE" ELSE "ERROR"
            /\ pc' = "recv"
            /\ UNCHANGED <<tx, epOut>>
    /\ UNCHANGED <<recvState, sendHdr, recvHdr, recvData, rx, seen, epIn,
                   token, handled, phone, faults>>

SendArm ==
    /\ pc = "sendArm"
    /\ pc' = "recv"
    /\ epOut' = Armed(epOut)
    /\ UNCHANGED <<packet, driver, epIn, token, handled, phone, faults>>

StartRead(max, next) ==
    IF rx.busy \/ ~Accepts(epIn)
      THEN /\ recvState' = "ERROR" /\ pc' = "client"
           /\ UNCHANGED <<rx, epIn>>
      ELSE /\ recvState' = next /\ pc' = "recvArm"
           /\ rx' = [rx EXCEPT !.busy = TRUE, !.length = 0]
           /\ epIn' = Filled(epIn, max, Nothing)

\* A header has the size of one and a command that fits its magic; the fault
\* "magic" also stands for a length the buffer does not hold.
BadHeader == rx.length # 1 \/ epIn.buf.part # "header"
             \/ epIn.buf.fault = "magic"
\* The length and the checksum of the data are those of the header; or the
\* length alone.
BadLength == rx.length # recvHdr.len
BadData == rx.length # recvHdr.len \/ epIn.buf.fault = "checksum"

\* A transfer ended and what it brought is refused.
Refuses ==
    \/ ~rx.ok
    \/ recvState = "WAIT_HEADER" /\ BadHeader
    \/ recvState = "WAIT_DATA" /\ BadData

\* The buffers of the header and of the data are those of the transfer.
RecvTasks ==
    LET ended == recvState \in {"WAIT_HEADER", "WAIT_DATA"} /\ ~rx.busy IN
    /\ pc = "recv"
    /\ recvHdr' = IF recvState = "WAIT_HEADER" /\ ended THEN epIn.buf
                  ELSE recvHdr
    /\ recvData' = IF recvState = "WAIT_DATA" /\ ended THEN epIn.buf
                   ELSE recvData
    /\ IF recvState = "START" THEN StartRead(1, "WAIT_HEADER")
       ELSE IF ended /\ ~Refuses /\ recvState = "WAIT_HEADER"
                     /\ epIn.buf.len > 0
         THEN StartRead(epIn.buf.len, "WAIT_DATA")
       ELSE /\ recvState' = IF ~ended THEN recvState
                            ELSE IF Refuses THEN "ERROR" ELSE "IDLE"
            /\ pc' = "client"
            /\ UNCHANGED <<rx, epIn>>
    /\ UNCHANGED <<sendState, sendHdr, tx, seen, epOut, token, handled, phone,
                   faults>>

RecvArm ==
    /\ pc = "recvArm"
    /\ pc' = "client"
    /\ epIn' = Armed(epIn)
    /\ UNCHANGED <<packet, driver, epOut, token, handled, phone, faults>>

----------------------------------------------------------------------------
(* The rest of ADBTasks, as far as the packet layer sees it.               *)

\* ADBPacketSend of the next packet.
NextSend ==
    \/ UNCHANGED <<sendState, sendHdr>>
    \/ /\ sendState = "IDLE" /\ sendHdr.id < MaxPackets
       /\ sendState' = "START"
       /\ \E n \in SendLens : sendHdr' = Header(sendHdr.id + 1, 0, n, "none")

\* The received packet is handled, ADBPacketRecv asks for another, and a
\* channel may have something to send.
Work ==
    /\ pc = "client" /\ "ERROR" \notin {sendState, recvState}
    /\ pc' = "rxPoll"
    /\ IF recvState = "IDLE"
         THEN recvState' = "START" /\ handled' = recvHdr.id
         ELSE UNCHANGED <<recvState, handled>>
    /\ NextSend
    /\ UNCHANGED <<recvHdr, recvData, driver, bus, phone, faults>>

\* An error resets the USB device: after the enumeration the endpoints are new
\* ones, both sides have forgotten what was under way, and ADBReset sends CNXN,
\* which takes the place of the packet before it.
Restart ==
    /\ pc = "client" /\ "ERROR" \in {sendState, recvState}
    /\ pc' = "rxPoll"
    /\ sendState' = "START" /\ recvState' = "START"
    /\ \E n \in SendLens \ {0} : sendHdr' = Header(sendHdr.id, 0, n, "none")
    /\ recvHdr' = Nothing /\ recvData' = Nothing
    /\ tx' = [busy |-> FALSE, ok |-> TRUE]
    /\ rx' = [busy |-> FALSE, ok |-> TRUE, length |-> 0]
    /\ seen' = FALSE
    /\ epIn' = NewEndpoint /\ epOut' = NewEndpoint /\ token' = "none"
    /\ handled' = made
    /\ dev' = NewPhone(sendHdr.id - 1) /\ inq' = <<>>
    /\ UNCHANGED <<made, faults>>

Loop ==
    \/ RxPoll \/ RxStat \/ TxPoll \/ TxStat
    \/ SendTasks \/ SendArm \/ RecvTasks \/ RecvArm
    \/ Work \/ Restart

----------------------------------------------------------------------------
(* The USB interrupt.                                                      *)

Ready(ep) == ~ep.complete /\ ~ep.nakd
Over(ep)  == Ready(ep) /\ ep.stage \in {"COMPLETE", "ERROR"}
Closed(ep) == [ep EXCEPT !.stage = "IDLE", !.complete = TRUE]

\* _USB_FindNextToken, from the endpoints i and o the interrupt has updated:
\* transfers that are over are completed until one is found that needs a
\* token, in the order of the rounds, which is left open.
FindNextToken(i, o) ==
    \E ci, co \in BOOLEAN :
        /\ ci => Over(i)
        /\ co => Over(o)
        /\ epIn'  = IF ci THEN Closed(i) ELSE i
        /\ epOut' = IF co THEN Closed(o) ELSE o
        /\ \/ Ready(i) /\ i.stage = "DATA" /\ token' = "IN"
           \/ Ready(o) /\ o.stage = "DATA" /\ token' = "OUT"
           \/ /\ ~(Ready(i) /\ i.stage = "DATA")
              /\ ~(Ready(o) /\ o.stage = "DATA")
              /\ Over(i) => ci
              /\ Over(o) => co
              /\ token' = "none"

Interrupt == UNCHANGED <<pc, packet, driver, handled>>

\* Start of frame, when an endpoint that was refused stays so.
SofNakd ==
    /\ Interrupt
    /\ IF token = "none" THEN FindNextToken(epIn, epOut)
       ELSE UNCHANGED <<epIn, epOut, token>>
    /\ UNCHANGED <<phone, faults>>

\* Start of frame; a token that is under way is left alone.
Sof ==
    /\ Interrupt
    /\ LET i == [epIn EXCEPT !.nakd = FALSE]
           o == [epOut EXCEPT !.nakd = FALSE] IN
       IF token = "none" THEN FindNextToken(i, o)
       ELSE epIn' = i /\ epOut' = o /\ UNCHANGED token
    /\ UNCHANGED <<phone, faults>>

Least(a, b) == IF a < b THEN a ELSE b

\* A USB packet of s units went over ep: the last one is short, or fills the
\* transfer.
Moved(ep, s, buf) ==
    LET full == s < MaxPacketSize \/ ep.count + s >= ep.max IN
    [ep EXCEPT !.count = @ + s, !.buf = buf, !.successful = @ \/ full,
               !.stage = IF full THEN "COMPLETE" ELSE @]

\* PID_ACK for an OUT token; the phone has taken the units.
OutAck ==
    LET s == Least(MaxPacketSize, epOut.max - epOut.count)
        c == epOut.buf IN
    /\ token = "OUT" /\ Interrupt
    /\ FindNextToken(epIn, Moved(epOut, s, c))
    /\ dev' = IF c.part = "header"
                THEN [dev EXCEPT !.hdr = c, !.want = c.len,
                                 !.lost = @ \/ dev.want > 0,
                                 !.taken = IF c.len = 0 THEN c.id ELSE @]
              ELSE [dev EXCEPT !.want = @ - s,
                               !.lost = @ \/ c.id # dev.hdr.id
                                          \/ s > dev.want,
                               !.taken = IF s = dev.want THEN c.id ELSE @]
    /\ UNCHANGED <<inq, made, faults>>

\* PID_DATA for an IN token.
InData ==
    /\ token = "IN" /\ inq # <<>> /\ Interrupt
    /\ LET c == Head(inq)
           s == Least(MaxPacketSize, c.size)
           rest == [c EXCEPT !.size = @ - s]
           \* What two transfers were put together from fits no checksum.
           mixed == epIn.count > 0 /\ epIn.buf.id # c.id
           buf == IF mixed THEN [c EXCEPT !.fault = "checksum"] ELSE c IN
       /\ FindNextToken(Moved(epIn, s, buf), epOut)
       /\ inq' = IF rest.size = 0 THEN Tail(inq) ELSE <<rest>> \o Tail(inq)
    /\ UNCHANGED <<dev, made, faults>>

\* PID_NAK: not again in this frame.
Nak ==
    /\ Interrupt
    /\ \/ token = "OUT" /\ FindNextToken(epIn, [epOut EXCEPT !.nakd = TRUE])
       \/ token = "IN" /\ FindNextToken([epIn EXCEPT !.nakd = TRUE], epOut)
    /\ UNCHANGED <<phone, faults>>

\* A stall, or more errors than are retried, ends the transfer.
BusError ==
    LET Fails(ep) == [ep EXCEPT !.failed = TRUE, !.stage = "ERROR"] IN
    /\ faults < MaxFaults /\ Interrupt
    /\ \/ token = "OUT" /\ FindNextToken(epIn, Fails(epOut))
       \/ token = "IN" /\ FindNextToken(Fails(epIn), epOut)
    /\ faults' = faults + 1
    /\ UNCHANGED phone

\* The phone sends a packet, as a transfer for its header and one for its
\* data; re is the last packet it had taken by then.  Its first is CNXN, which
\* has data.
PhoneSends ==
    /\ made < MaxPackets /\ Interrupt /\ UNCHANGED <<bus, dev>>
    /\ made' = made + 1
    /\ \E n \in RecvLens, f \in Faults \union {"none"} :
          LET h == Header(made + 1, dev.taken, n, f) IN
          /\ f # "none" => faults < MaxFaults
          /\ made = 0 => n > 0
          /\ f = "short" => n > 1
          /\ f = "checksum" => n > 0
          /\ f = "magic" => n = 0  \* refused before the length is looked at
          /\ faults' = IF f = "none" THEN faults ELSE faults + 1
          /\ inq' = inq \o IF n = 0 THEN <<h>> ELSE <<h, DataOf(h)>>

Next ==
    \/ Loop
    \/ Sof \/ OutAck \/ InData \/ Nak \/ BusError
    \/ PhoneSends

Spec == Init /\ [][Next]_vars

\* The loop never stops, frames go on, a token has some answer (none is an
\* error), and it is not NAK for ever.  Nothing makes the phone send.
Fairness ==
    /\ WF_vars(Loop) /\ WF_vars(Sof)
    /\ WF_vars(OutAck \/ InData \/ Nak \/ BusError)
    /\ SF_vars(OutAck) /\ SF_vars(InData)

FairSpec == Spec /\ Fairness

----------------------------------------------------------------------------
(* Properties.                                                             *)

\* A packet reported as sent is with the phone, whole; and the phone has never
\* got data or a header in the wrong place.
SentIsTaken ==
    /\ ~dev.lost
    /\ sendState = "IDLE" => dev.taken = sendHdr.id

\* A packet handed up is the next one of the phone, header and data belong
\* together and are good, though all checksums agree.
ReceivedIntact ==
    recvState = "IDLE" =>
        /\ recvHdr.id = handled + 1
        /\ recvHdr.fault = "none"
        /\ recvHdr.len > 0 => recvData = [DataOf(recvHdr) EXCEPT
                                            !.size = recvData.size]

\* The interrupt does not write to the receive buffers while ADBTasks may read
\* them (usb_host.c:2916-2918 "must remain valid during the entire time").
BufferIsStable ==
    (recvState = "IDLE" => epIn.complete) /\ (sendState = "IDLE" => epOut.complete)

\* A packet that is being sent ends as sent or as failed, whatever the bus does
\* and however the interrupt falls between the accesses of the loop.
SendEnds == sendState \in BusyStates ~> sendState \notin BusyStates

=============================================================================
