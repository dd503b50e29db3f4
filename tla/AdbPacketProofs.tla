-------------------------- MODULE AdbPacketProofs --------------------------
(***************************************************************************)
(* The safety invariants of AdbPacket, for packets of any length, any      *)
(* number of them, any faults, and the USB interrupt between any two       *)
(* accesses of the loop.                                                   *)
(*                                                                         *)
(* BufferIsStable is not inductive: the loop knows a transfer by its busy  *)
(* flag, and the flag it read a while ago by seen.  Flags ties these three *)
(* to bfTransferComplete, which the interrupt only ever sets.              *)
(*                                                                         *)
(* SentIsTaken needs what the phone has read at every moment of a          *)
(* transfer (PhoneReads), and what the endpoint knows of it (OutTransfer). *)
(* ReceivedIntact needs the place in the phone's stream that an open       *)
(* transfer has got to (InTransfer), and that the rest of the stream is    *)
(* well formed (StreamTo).                                                 *)
(***************************************************************************)
EXTENDS AdbPacket, TLAPS

\* What the flags need of TypeOK.
Types ==
    /\ tx \in [busy : BOOLEAN, ok : BOOLEAN]
    /\ rx \in [busy : BOOLEAN, ok : BOOLEAN, length : Nat]
    /\ seen \in BOOLEAN
    /\ epIn \in Endpoint /\ epOut \in Endpoint
    /\ sendHdr \in Contents /\ sendHdr.id # 0 /\ sendHdr.fault = "none"
    /\ epOut.count <= epOut.max
    /\ dev \in [taken : 0 .. MaxPackets, hdr : Contents, want : Int,
                lost : BOOLEAN]
    /\ inq \in Seq(Contents)
    /\ made \in 0 .. MaxPackets

Flags ==
    /\ ~rx.busy => epIn.complete
    /\ ~tx.busy => epOut.complete
    /\ pc = "rxStat" /\ seen => epIn.complete
    /\ pc = "txStat" /\ seen => epOut.complete
    /\ recvState \in {"IDLE", "START"} => ~rx.busy
    /\ sendState \in {"IDLE", "START"} => ~tx.busy
    /\ pc = "recvArm" => rx.busy /\ recvState \notin {"IDLE", "START"}
    /\ pc = "sendArm" => tx.busy /\ sendState \notin {"IDLE", "START"}

Inv == Types /\ Flags

----------------------------------------------------------------------------
(* Lemmas on the operators.                                                *)

\* A header of a legal length, and its data, are contents (ADBPacketSend).
LEMMA HeaderType ==
    ASSUME NEW n \in 0 .. MaxPackets, NEW re \in 0 .. MaxPackets,
           NEW len \in SendLens \union RecvLens \union {0},
           NEW f \in Faults \union {"none", "checksum"}
    PROVE  /\ Header(n, re, len, f) \in Contents
           /\ Header(n, re, len, f).id = n
           /\ Header(n, re, len, f).len = len
           /\ Header(n, re, len, f).fault = f
BY DEF Header, Contents

\* Lengths are counts of units (ADB_PACKET_HEADER.data_length).
LEMMA LenType == ASSUME NEW h \in Contents PROVE h.len \in Nat
<1>1. h.len \in SendLens \union RecvLens \union {0}
  BY DEF Contents
<1>2. CASE h.len = 0
  BY <1>2
<1>3. CASE h.len # 0
  BY <1>1, <1>3, PacketAssumption, Zenon
<1> QED
  BY <1>2, <1>3

LEMMA DataType ==
    ASSUME NEW h \in Contents, h.fault = "short" => h.len > 1
    PROVE  DataOf(h) \in Contents
<1>1. h.len \in Nat
  BY LenType
<1>2. (IF h.fault = "short" THEN h.len - 1 ELSE h.len) \in Nat
  BY <1>1
<1> QED
  BY <1>2 DEF DataOf, Contents

LEMMA NothingType == Nothing \in Contents
BY HeaderType, PacketAssumption DEF Nothing

\* New endpoints are idle and complete (usb_host.c:5140-5150).
LEMMA NewEndpointType ==
    /\ NewEndpoint \in Endpoint /\ NewEndpoint.complete
    /\ NewEndpoint.count <= NewEndpoint.max
BY NothingType DEF NewEndpoint, Endpoint

\* Filling in an endpoint keeps it complete, arming it keeps its type.
LEMMA FilledType ==
    ASSUME NEW ep \in Endpoint, NEW max \in Nat, NEW buf \in Contents
    PROVE  /\ Filled(ep, max, buf) \in Endpoint
           /\ Filled(ep, max, buf).complete = ep.complete
           /\ Filled(ep, max, buf).count <= Filled(ep, max, buf).max
<1>1. Filled(ep, max, buf) \in Endpoint
  BY DEF Filled, Endpoint
<1>2. /\ Filled(ep, max, buf).complete = ep.complete
      /\ Filled(ep, max, buf).count = 0 /\ Filled(ep, max, buf).max = max
  BY DEF Filled, Endpoint
<1> QED
  BY <1>1, <1>2

LEMMA ArmedType ==
    ASSUME NEW ep \in Endpoint
    PROVE  /\ Armed(ep) \in Endpoint
           /\ Armed(ep).count = ep.count /\ Armed(ep).max = ep.max
BY DEF Armed, Endpoint

\* What the interrupt makes of a USB packet leaves the flag alone.
LEMMA MovedType ==
    ASSUME NEW ep \in Endpoint, NEW s \in Nat, NEW buf \in Contents
    PROVE  /\ Moved(ep, s, buf) \in Endpoint
           /\ Moved(ep, s, buf).complete = ep.complete
           /\ Moved(ep, s, buf).count = ep.count + s
           /\ Moved(ep, s, buf).max = ep.max
<1> DEFINE full == s < MaxPacketSize \/ ep.count + s >= ep.max
<1>1. ep.count + s \in Nat
  BY DEF Endpoint
<1>2. full \in BOOLEAN
  OBVIOUS
<1> HIDE DEF full
<1>3. [ep EXCEPT !.count = @ + s, !.buf = buf, !.successful = @ \/ full,
                 !.stage = IF full THEN "COMPLETE" ELSE @] \in Endpoint
  BY <1>1, <1>2 DEF Endpoint
<1> QED
  BY <1>3 DEF Moved, full, Endpoint

\* The interrupt ends by looking for a token: it sets bfTransferComplete of
\* transfers that are over and never clears it (usb_host.c:4094-4266).
LEMMA FindTypes ==
    ASSUME NEW i \in Endpoint, NEW o \in Endpoint, FindNextToken(i, o)
    PROVE  /\ epIn' \in Endpoint /\ epOut' \in Endpoint
           /\ i.complete => epIn'.complete
           /\ o.complete => epOut'.complete
           /\ epOut'.count = o.count /\ epOut'.max = o.max
<1>1. \A ep \in Endpoint :
         /\ Closed(ep) \in Endpoint /\ Closed(ep).complete
         /\ Closed(ep).count = ep.count /\ Closed(ep).max = ep.max
  BY DEF Closed, Endpoint
<1>2. epIn' \in {i, Closed(i)} /\ epOut' \in {o, Closed(o)}
  BY DEF FindNextToken
<1> QED
  BY <1>1, <1>2

----------------------------------------------------------------------------
(* The initial states, and the steps.                                      *)

LEMMA InitInv == Init => Inv
<1> SUFFICES ASSUME Init PROVE Inv
  OBVIOUS
<1>1. Types
  <2>1. PICK n \in SendLens : sendHdr = Header(1, 0, n, "none")
    BY DEF Init
  <2>2. 1 \in 0 .. MaxPackets /\ 0 \in 0 .. MaxPackets
    BY PacketAssumption
  <2>3. sendHdr \in Contents /\ sendHdr.id # 0 /\ sendHdr.fault = "none"
    BY <2>1, <2>2, HeaderType
  <2>4. epIn \in Endpoint /\ epOut \in Endpoint /\ epOut.count <= epOut.max
    BY NewEndpointType DEF Init
  <2>5. /\ dev \in [taken : 0 .. MaxPackets, hdr : Contents, want : Int,
                    lost : BOOLEAN]
        /\ made \in 0 .. MaxPackets
    BY <2>2, NothingType DEF Init, NewPhone
  <2>6. inq \in Seq(Contents)
    BY DEF Init
  <2>7. /\ tx \in [busy : BOOLEAN, ok : BOOLEAN]
        /\ rx \in [busy : BOOLEAN, ok : BOOLEAN, length : Nat]
        /\ seen \in BOOLEAN
    BY DEF Init
  <2> QED
    BY <2>3, <2>4, <2>5, <2>6, <2>7 DEF Types
<1>2. Flags
  BY NewEndpointType DEF Init, Flags
<1> QED
  BY <1>1, <1>2 DEF Inv

\* USBHostAndroidTasks reads the flag, then the result (usb_host_android.c:206-232).
LEMMA PollInv == Inv /\ (RxPoll \/ RxStat \/ TxPoll \/ TxStat) => Inv'
<1> SUFFICES ASSUME Inv, RxPoll \/ RxStat \/ TxPoll \/ TxStat PROVE Inv'
  OBVIOUS
<1> USE DEF Inv, Types, Flags, packet, driver, bus, phone
<1>1. CASE RxPoll
  BY <1>1 DEF RxPoll
<1>2. CASE RxStat
  <2>1. RxResult \in [busy : BOOLEAN, ok : BOOLEAN, length : Nat]
        /\ ~RxResult.busy
    BY DEF RxResult, Endpoint
  <2> QED
    BY <1>2, <2>1 DEF RxStat, Finished
<1>3. CASE TxPoll
  BY <1>3 DEF TxPoll
<1>4. CASE TxStat
  <2>1. epOut.successful \in BOOLEAN
    BY DEF Endpoint
  <2> QED
    BY <1>4, <2>1 DEF TxStat, Finished
<1> QED
  BY <1>1, <1>2, <1>3, <1>4

\* Starting a write leaves its endpoint complete until it is armed
\* (usb_host_android.c:247-267).
LEMMA WriteInv ==
    ASSUME Inv, NEW c \in Contents, NEW next \in {"WAIT_HEADER", "WAIT_DATA"},
           pc = "send", ~tx.busy, StartWrite(c, next)
    PROVE  /\ tx' \in [busy : BOOLEAN, ok : BOOLEAN]
           /\ epOut' \in Endpoint /\ epOut'.complete
           /\ epOut'.count <= epOut'.max
           /\ sendState' \in {next, "ERROR"}
           /\ pc' \in {"recv", "sendArm"}
           /\ pc' = "sendArm" => tx'.busy /\ sendState' = next
<1>1. c.size \in Nat
  BY DEF Contents
<1>2. epOut.complete
  BY DEF Inv, Flags
<1>3. CASE tx.busy \/ ~Accepts(epOut)
  BY <1>2, <1>3 DEF StartWrite, Inv, Types
<1>4. CASE ~(tx.busy \/ ~Accepts(epOut))
  <2>1. /\ sendState' = next /\ pc' = "sendArm"
        /\ tx' = [tx EXCEPT !.busy = TRUE]
        /\ epOut' = Filled(epOut, c.size, c)
    BY <1>4 DEF StartWrite
  <2>2. /\ epOut' \in Endpoint /\ epOut'.complete
        /\ epOut'.count <= epOut'.max
    BY <1>1, <1>2, <2>1, FilledType DEF Inv, Types
  <2>3. tx' \in [busy : BOOLEAN, ok : BOOLEAN] /\ tx'.busy
    BY <2>1 DEF Inv, Types
  <2> QED
    BY <2>1, <2>2, <2>3
<1> QED
  BY <1>3, <1>4

LEMMA ReadInv ==
    ASSUME Inv, NEW max \in Nat, NEW next \in {"WAIT_HEADER", "WAIT_DATA"},
           pc = "recv", ~rx.busy, StartRead(max, next)
    PROVE  /\ rx' \in [busy : BOOLEAN, ok : BOOLEAN, length : Nat]
           /\ epIn' \in Endpoint /\ epIn'.complete
           /\ recvState' \in {next, "ERROR"}
           /\ pc' \in {"client", "recvArm"}
           /\ pc' = "recvArm" => rx'.busy /\ recvState' = next
<1>1. epIn.complete
  BY DEF Inv, Flags
<1>2. CASE rx.busy \/ ~Accepts(epIn)
  BY <1>1, <1>2 DEF StartRead, Inv, Types
<1>3. CASE ~(rx.busy \/ ~Accepts(epIn))
  <2>1. /\ recvState' = next /\ pc' = "recvArm"
        /\ rx' = [rx EXCEPT !.busy = TRUE, !.length = 0]
        /\ epIn' = Filled(epIn, max, Nothing)
    BY <1>3 DEF StartRead
  <2>2. epIn' \in Endpoint /\ epIn'.complete
    BY <1>1, <2>1, FilledType, NothingType DEF Inv, Types
  <2>3. rx' \in [busy : BOOLEAN, ok : BOOLEAN, length : Nat] /\ rx'.busy
    BY <2>1 DEF Inv, Types
  <2> QED
    BY <2>1, <2>2, <2>3
<1> QED
  BY <1>2, <1>3

\* ADBPacketSendTasks starts a transfer only when none is under way
\* (adb_packet.c:89-136).
LEMMA SendInv == Inv /\ (SendTasks \/ SendArm) => Inv'
<1> SUFFICES ASSUME Inv, SendTasks \/ SendArm PROVE Inv'
  OBVIOUS
<1>1. CASE SendArm
  BY <1>1, ArmedType DEF SendArm, Inv, Types, Flags, packet, driver, phone
<1>2. CASE SendTasks /\ sendState = "START"
  <2>1. StartWrite(sendHdr, "WAIT_HEADER") /\ ~tx.busy /\ pc = "send"
    BY <1>2 DEF SendTasks, Inv, Flags
  <2>2. sendHdr \in Contents
    BY DEF Inv, Types
  <2> QED
    BY <1>2, <2>1, <2>2, WriteInv DEF SendTasks, Inv, Types, Flags, phone
<1>3. CASE SendTasks /\ sendState = "WAIT_HEADER" /\ ~tx.busy /\ tx.ok
                     /\ ~SentLast
  <2>1. StartWrite(DataOf(sendHdr), "WAIT_DATA") /\ pc = "send"
    BY <1>3 DEF SendTasks
  <2>2. DataOf(sendHdr) \in Contents
    <3>1. sendHdr \in Contents /\ sendHdr.fault # "short"
      BY DEF Inv, Types
    <3> QED
      BY <3>1, DataType
  <2> QED
    BY <1>3, <2>1, <2>2, WriteInv DEF SendTasks, Inv, Types, Flags, phone
<1>4. CASE /\ SendTasks /\ sendState # "START"
           /\ ~(sendState = "WAIT_HEADER" /\ ~tx.busy /\ tx.ok /\ ~SentLast)
  BY <1>4 DEF SendTasks, Inv, Types, Flags, phone, BusyStates
<1> QED
  BY <1>1, <1>2, <1>3, <1>4

\* So does ADBPacketRecvTasks (adb_packet.c:138-205).
LEMMA RecvInv == Inv /\ (RecvTasks \/ RecvArm) => Inv'
<1> SUFFICES ASSUME Inv, RecvTasks \/ RecvArm PROVE Inv'
  OBVIOUS
<1> DEFINE ended == recvState \in {"WAIT_HEADER", "WAIT_DATA"} /\ ~rx.busy
           again == /\ ended /\ ~Refuses /\ recvState = "WAIT_HEADER"
                    /\ epIn.buf.len > 0
<1>1. CASE RecvArm
  BY <1>1, ArmedType DEF RecvArm, Inv, Types, Flags, packet, driver, phone
<1>2. CASE RecvTasks /\ recvState = "START"
  <2>1. StartRead(1, "WAIT_HEADER") /\ ~rx.busy /\ pc = "recv"
    BY <1>2 DEF RecvTasks, Inv, Flags
  <2> QED
    BY <1>2, <2>1, ReadInv DEF RecvTasks, Inv, Types, Flags, phone
<1>3. CASE RecvTasks /\ recvState # "START" /\ again
  <2>1. StartRead(epIn.buf.len, "WAIT_DATA") /\ ~rx.busy /\ pc = "recv"
    BY <1>3 DEF RecvTasks
  <2>2. epIn.buf \in Contents
    BY DEF Inv, Types, Endpoint
  <2>3. epIn.buf.len \in Nat
    BY <2>2, LenType
  <2> QED
    BY <1>3, <2>1, <2>3, ReadInv DEF RecvTasks, Inv, Types, Flags, phone
<1>4. CASE RecvTasks /\ recvState # "START" /\ ~again
  <2>1. /\ recvState' = IF ~ended THEN recvState
                         ELSE IF Refuses THEN "ERROR" ELSE "IDLE"
        /\ pc' = "client"
        /\ UNCHANGED <<rx, epIn>>
    BY <1>4 DEF RecvTasks
  <2>2. recvState' \in {"IDLE", "START"} => ~rx.busy
    BY <1>4, <2>1 DEF Inv, Flags
  <2> HIDE DEF ended, again
  <2> QED
    BY <1>4, <2>1, <2>2 DEF RecvTasks, Inv, Types, Flags, phone
<1> QED
  BY <1>1, <1>2, <1>3, <1>4

\* A packet is asked for, or sent, only when none is under way
\* (adb_packet.c:208, 225).
LEMMA WorkInv == Inv /\ Work => Inv'
<1> SUFFICES ASSUME Inv, Work PROVE Inv'
  OBVIOUS
<1>1. sendHdr' \in Contents /\ sendHdr'.id # 0 /\ sendHdr'.fault = "none"
  <2>1. CASE UNCHANGED sendHdr
    BY <2>1 DEF Inv, Types
  <2>2. CASE /\ sendHdr.id < MaxPackets
             /\ \E n \in SendLens :
                   sendHdr' = Header(sendHdr.id + 1, 0, n, "none")
    <3>1. sendHdr.id + 1 \in 0 .. MaxPackets /\ sendHdr.id + 1 # 0
          /\ 0 \in 0 .. MaxPackets
      <4>1. sendHdr.id \in 0 .. MaxPackets
        BY DEF Inv, Types, Contents
      <4> QED
        BY <2>2, <4>1, PacketAssumption
    <3>2. PICK n \in SendLens :
                   sendHdr' = Header(sendHdr.id + 1, 0, n, "none")
      BY <2>2
    <3> QED
      BY <3>1, <3>2, HeaderType
  <2> QED
    BY <2>1, <2>2 DEF Work, NextSend
<1>2. sendState' \in {"IDLE", "START"} => ~tx.busy
  BY DEF Work, NextSend, Inv, Flags
<1>3. recvState' \in {"IDLE", "START"} => ~rx.busy
  BY DEF Work, Inv, Flags
<1> QED
  BY <1>1, <1>2, <1>3 DEF Work, Inv, Types, Flags, driver, bus, phone

LEMMA RestartInv == Inv /\ Restart => Inv'
<1> SUFFICES ASSUME Inv, Restart PROVE Inv'
  OBVIOUS
<1>1. sendHdr.id \in 1 .. MaxPackets /\ 0 \in 0 .. MaxPackets
  <2>1. sendHdr.id \in 0 .. MaxPackets /\ sendHdr.id # 0
    BY DEF Inv, Types, Contents
  <2> QED
    BY <2>1, PacketAssumption
<1>2. sendHdr' \in Contents /\ sendHdr'.id # 0 /\ sendHdr'.fault = "none"
  <2>1. PICK n \in SendLens : sendHdr' = Header(sendHdr.id, 0, n, "none")
    BY DEF Restart
  <2> QED
    BY <1>1, <2>1, HeaderType
<1>3. dev' \in [taken : 0 .. MaxPackets, hdr : Contents, want : Int,
                lost : BOOLEAN]
  <2>1. sendHdr.id - 1 \in 0 .. MaxPackets
    BY <1>1, PacketAssumption
  <2>2. dev' = NewPhone(sendHdr.id - 1)
    BY DEF Restart
  <2> QED
    BY <2>1, <2>2, NothingType DEF NewPhone
<1>4. Types'
  <2>1. /\ epIn' \in Endpoint /\ epOut' \in Endpoint
        /\ epOut'.count <= epOut'.max
    BY NewEndpointType DEF Restart
  <2>2. /\ tx' \in [busy : BOOLEAN, ok : BOOLEAN]
        /\ rx' \in [busy : BOOLEAN, ok : BOOLEAN, length : Nat]
        /\ seen' \in BOOLEAN
    BY DEF Restart
  <2>3. inq' \in Seq(Contents)
    <3>1. inq' = <<>>
      BY DEF Restart
    <3> QED
      BY <3>1
  <2>4. made' \in 0 .. MaxPackets
    BY DEF Restart, Inv, Types
  <2> QED
    BY <1>2, <1>3, <2>1, <2>2, <2>3, <2>4 DEF Types
<1>5. Flags'
  BY NewEndpointType DEF Restart, Flags
<1> QED
  BY <1>4, <1>5 DEF Inv

\* A step of the interrupt leaves the loop's state alone; what it finds keeps
\* the types and clears no flag.
LEMMA InterruptKeeps ==
    ASSUME Inv, Interrupt,
           epIn' \in Endpoint, epOut' \in Endpoint,
           epOut'.count <= epOut'.max,
           epIn.complete => epIn'.complete,
           epOut.complete => epOut'.complete,
           dev' \in [taken : 0 .. MaxPackets, hdr : Contents, want : Int,
                     lost : BOOLEAN],
           inq' \in Seq(Contents), made' \in 0 .. MaxPackets
    PROVE  Inv'
<1>1. Types'
  BY DEF Interrupt, Inv, Types, packet, driver
<1>2. Flags'
  BY DEF Interrupt, Inv, Flags, packet, driver
<1> QED
  BY <1>1, <1>2 DEF Inv

LEMMA SofInv == Inv /\ Sof => Inv'
<1> SUFFICES ASSUME Inv, Sof PROVE Inv'
  OBVIOUS
<1> DEFINE i == [epIn EXCEPT !.nakd = FALSE]
           o == [epOut EXCEPT !.nakd = FALSE]
<1>1. /\ i \in Endpoint /\ o \in Endpoint
      /\ i.complete = epIn.complete /\ o.complete = epOut.complete
      /\ o.count = epOut.count /\ o.max = epOut.max
  BY DEF Inv, Types, Endpoint
<1>2. \/ FindNextToken(i, o)
      \/ epIn' = i /\ epOut' = o
  BY DEF Sof
<1> HIDE DEF i, o
<1>3. /\ epIn' \in Endpoint /\ epOut' \in Endpoint
      /\ epIn.complete => epIn'.complete
      /\ epOut.complete => epOut'.complete
      /\ epOut'.count = epOut.count /\ epOut'.max = epOut.max
  BY <1>1, <1>2, FindTypes
<1> QED
  BY <1>3, InterruptKeeps DEF Sof, phone, Inv, Types

LEMMA NakInv == Inv /\ Nak => Inv'
<1> SUFFICES ASSUME Inv, Nak PROVE Inv'
  OBVIOUS
<1> DEFINE i == [epIn EXCEPT !.nakd = TRUE]
           o == [epOut EXCEPT !.nakd = TRUE]
<1>1. /\ i \in Endpoint /\ o \in Endpoint
      /\ epIn \in Endpoint /\ epOut \in Endpoint
      /\ i.complete = epIn.complete /\ o.complete = epOut.complete
      /\ o.count = epOut.count /\ o.max = epOut.max
  BY DEF Inv, Types, Endpoint
<1>2. FindNextToken(epIn, o) \/ FindNextToken(i, epOut)
  BY DEF Nak
<1> HIDE DEF i, o
<1>3. /\ epIn' \in Endpoint /\ epOut' \in Endpoint
      /\ epIn.complete => epIn'.complete
      /\ epOut.complete => epOut'.complete
      /\ epOut'.count = epOut.count /\ epOut'.max = epOut.max
  BY <1>1, <1>2, FindTypes
<1> QED
  BY <1>3, InterruptKeeps DEF Nak, phone, Inv, Types

LEMMA BusErrorInv == Inv /\ BusError => Inv'
<1> SUFFICES ASSUME Inv, BusError PROVE Inv'
  OBVIOUS
<1> DEFINE Fails(ep) == [ep EXCEPT !.failed = TRUE, !.stage = "ERROR"]
           i == Fails(epIn)
           o == Fails(epOut)
<1>1. /\ i \in Endpoint /\ o \in Endpoint
      /\ epIn \in Endpoint /\ epOut \in Endpoint
      /\ i.complete = epIn.complete /\ o.complete = epOut.complete
      /\ o.count = epOut.count /\ o.max = epOut.max
  BY DEF Inv, Types, Endpoint
<1>2. FindNextToken(epIn, o) \/ FindNextToken(i, epOut)
  BY DEF BusError
<1> HIDE DEF i, o
<1>3. /\ epIn' \in Endpoint /\ epOut' \in Endpoint
      /\ epIn.complete => epIn'.complete
      /\ epOut.complete => epOut'.complete
      /\ epOut'.count = epOut.count /\ epOut'.max = epOut.max
  BY <1>1, <1>2, FindTypes
<1> QED
  BY <1>3, InterruptKeeps DEF BusError, phone, Inv, Types

\* The units sent never pass the end of the transfer, as the packet is cut to
\* what is left (usb_host.c:5476-5482).
LEMMA OutAckInv == Inv /\ OutAck => Inv'
<1> SUFFICES ASSUME Inv, OutAck PROVE Inv'
  OBVIOUS
<1> DEFINE s == Least(MaxPacketSize, epOut.max - epOut.count)
           c == epOut.buf
           m == Moved(epOut, s, c)
<1>1. /\ epIn \in Endpoint /\ epOut \in Endpoint /\ c \in Contents
      /\ epOut.count \in Nat /\ epOut.max \in Nat
  BY DEF Inv, Types, Endpoint
<1>2. s \in Nat /\ epOut.count + s <= epOut.max
  BY <1>1, PacketAssumption DEF Inv, Types, Least
<1>3. FindNextToken(epIn, m)
  BY DEF OutAck
<1>4. dev' \in [taken : 0 .. MaxPackets, hdr : Contents, want : Int,
                lost : BOOLEAN]
  <2>1. c.id \in 0 .. MaxPackets /\ c.len \in Int
    BY <1>1, LenType DEF Contents
  <2> HIDE DEF s, c
  <2>2. dev' = IF c.part = "header"
                THEN [dev EXCEPT !.hdr = c, !.want = c.len,
                                 !.lost = @ \/ dev.want > 0,
                                 !.taken = IF c.len = 0 THEN c.id ELSE @]
              ELSE [dev EXCEPT !.want = @ - s,
                               !.lost = @ \/ c.id # dev.hdr.id
                                          \/ s > dev.want,
                               !.taken = IF s = dev.want THEN c.id ELSE @]
    BY DEF OutAck, s, c
  <2>3. dev \in [taken : 0 .. MaxPackets, hdr : Contents, want : Int,
                 lost : BOOLEAN]
    BY DEF Inv, Types
  <2>4. CASE c.part = "header"
    BY <1>1, <2>1, <2>2, <2>3, <2>4
  <2>5. CASE c.part # "header"
    <3>1. dev' = [dev EXCEPT !.want = @ - s,
                             !.lost = @ \/ c.id # dev.hdr.id
                                        \/ s > dev.want,
                             !.taken = IF s = dev.want THEN c.id ELSE @]
      BY <2>2, <2>5
    <3>2. dev.want - s \in Int
      BY <1>2, <2>3
    <3>3. (s = dev.want) \in BOOLEAN /\ (s > dev.want) \in BOOLEAN
      OBVIOUS
    <3> DEFINE l == dev.lost \/ c.id # dev.hdr.id \/ s > dev.want
               t == IF s = dev.want THEN c.id ELSE dev.taken
               w == dev.want - s
    <3>4. l \in BOOLEAN /\ t \in 0 .. MaxPackets /\ w \in Int
      BY <2>1, <2>3, <3>2, <3>3
    <3>5. dev' = [dev EXCEPT !.want = w, !.lost = l, !.taken = t]
      BY <2>3, <3>1
    <3> HIDE DEF l, t, w
    <3> QED
      BY <2>3, <3>4, <3>5
  <2> QED
    BY <2>4, <2>5
<1> HIDE DEF s, c
<1>5. /\ m \in Endpoint /\ m.complete = epOut.complete
      /\ m.count <= m.max
  BY <1>1, <1>2, MovedType
<1> HIDE DEF m
<1>6. /\ epIn' \in Endpoint /\ epOut' \in Endpoint
      /\ epIn.complete => epIn'.complete
      /\ epOut.complete => epOut'.complete
      /\ epOut'.count <= epOut'.max
  BY <1>1, <1>3, <1>5, FindTypes
<1> QED
  BY <1>4, <1>6, InterruptKeeps DEF OutAck, Inv, Types

LEMMA InDataInv == Inv /\ InData => Inv'
<1> SUFFICES ASSUME Inv, InData PROVE Inv'
  OBVIOUS
<1> DEFINE c == Head(inq)
           s == Least(MaxPacketSize, c.size)
           rest == [c EXCEPT !.size = @ - s]
           mixed == epIn.count > 0 /\ epIn.buf.id # c.id
           buf == IF mixed THEN [c EXCEPT !.fault = "checksum"] ELSE c
           m == Moved(epIn, s, buf)
<1>1. /\ epIn \in Endpoint /\ epOut \in Endpoint
      /\ inq \in Seq(Contents) /\ inq # <<>>
  BY DEF Inv, Types, InData
<1>2. c \in Contents /\ Tail(inq) \in Seq(Contents)
  BY <1>1
<1>3. s \in Nat /\ c.size - s \in Nat
  BY <1>2, PacketAssumption DEF Contents, Least
<1>4. /\ FindNextToken(m, epOut)
      /\ inq' = IF rest.size = 0 THEN Tail(inq) ELSE <<rest>> \o Tail(inq)
  BY DEF InData
<1> HIDE DEF c, s
<1>5. rest \in Contents /\ buf \in Contents
  BY <1>2, <1>3 DEF Contents
<1> HIDE DEF rest, buf
<1>6. inq' \in Seq(Contents)
  BY <1>2, <1>4, <1>5
<1>7. m \in Endpoint /\ m.complete = epIn.complete
  BY <1>1, <1>3, <1>5, MovedType
<1> HIDE DEF m
<1>8. /\ epIn' \in Endpoint /\ epOut' \in Endpoint
      /\ epIn.complete => epIn'.complete
      /\ epOut.complete => epOut'.complete
      /\ epOut'.count = epOut.count /\ epOut'.max = epOut.max
  BY <1>1, <1>4, <1>7, FindTypes
<1> QED
  BY <1>6, <1>8, InterruptKeeps DEF InData, Inv, Types

LEMMA PhoneInv == Inv /\ PhoneSends => Inv'
<1> SUFFICES ASSUME Inv, PhoneSends PROVE Inv'
  OBVIOUS
<1>1. made' \in 0 .. MaxPackets /\ made + 1 = made'
  BY PacketAssumption DEF PhoneSends, Inv, Types
<1>2. PICK n \in RecvLens, f \in Faults \union {"none"} :
         LET h == Header(made + 1, dev.taken, n, f) IN
         /\ f = "short" => n > 1
         /\ inq' = inq \o IF n = 0 THEN <<h>> ELSE <<h, DataOf(h)>>
  BY DEF PhoneSends
<1> DEFINE h == Header(made + 1, dev.taken, n, f)
<1>3. dev.taken \in 0 .. MaxPackets
  BY DEF Inv, Types
<1>4. h \in Contents /\ h.fault = f /\ h.len = n
  BY <1>1, <1>3, HeaderType
<1>5. DataOf(h) \in Contents
  BY <1>2, <1>4, DataType
<1>6. inq' = inq \o IF n = 0 THEN <<h>> ELSE <<h, DataOf(h)>>
  BY <1>2
<1> HIDE DEF h
<1>7. inq' \in Seq(Contents)
  BY <1>4, <1>5, <1>6 DEF Inv, Types
<1> QED
  BY <1>1, <1>7, InterruptKeeps DEF PhoneSends, bus, Inv, Types

----------------------------------------------------------------------------
(* The theorem.                                                            *)

LEMMA NextInv == Inv /\ [Next]_vars => Inv'
<1> SUFFICES ASSUME Inv, [Next]_vars PROVE Inv'
  OBVIOUS
<1>1. CASE Loop
  BY <1>1, PollInv, SendInv, RecvInv, WorkInv, RestartInv DEF Loop
<1>2. CASE Sof
  BY <1>2, SofInv
<1>3. CASE OutAck
  BY <1>3, OutAckInv
<1>4. CASE InData
  BY <1>4, InDataInv
<1>5. CASE Nak
  BY <1>5, NakInv
<1>6. CASE BusError
  BY <1>6, BusErrorInv
<1>7. CASE PhoneSends
  BY <1>7, PhoneInv
<1>8. CASE UNCHANGED vars
  BY <1>8 DEF vars, packet, driver, bus, phone, Inv, Types, Flags
<1> QED
  BY <1>1, <1>2, <1>3, <1>4, <1>5, <1>6, <1>7, <1>8 DEF Next

\* While a received packet is being handled, and while ADBChannelTasks fills the
\* packet to be sent, no transfer into or out of their buffers is open: the
\* interrupt leaves them alone, for any lengths, faults and number of packets
\* (usb_host.c:2916-2918).
THEOREM StableBuffers == Spec => []BufferIsStable
<1>1. Inv => BufferIsStable
  BY DEF Inv, Flags, BufferIsStable
<1> QED
  BY <1>1, InitInv, NextInv, PTL DEF Spec

----------------------------------------------------------------------------
(* What is under way: the packet to the phone, and the one from it.        *)

Moving == {"WAIT_HEADER", "WAIT_DATA"}
InFlight == IF sendState = "WAIT_HEADER" THEN sendHdr ELSE DataOf(sendHdr)

\* The transfer that is open, or has ended and is not looked at, is the one
\* the send state says.
OutTransfer ==
    /\ tx.busy => sendState \in Moving
    /\ token = "OUT" => ~epOut.complete /\ epOut.stage = "DATA"
    /\ pc = "sendArm" => epOut.complete
    /\ sendState \in Moving =>
         /\ epOut.buf = InFlight /\ epOut.max = InFlight.size
         /\ epOut.stage = "DATA" => epOut.count < epOut.max
         /\ epOut.successful => epOut.count = epOut.max
         /\ ~tx.busy /\ tx.ok => epOut.successful

\* What the phone has read is what the endpoint has sent.
PacketOpen == dev.taken = sendHdr.id - 1
PhoneReads ==
    /\ ~dev.lost
    /\ sendHdr.part = "header" /\ sendHdr.size = 1
    /\ sendState = "START" => PacketOpen /\ dev.want = 0
    /\ sendState = "IDLE" => dev.taken = sendHdr.id /\ dev.want = 0
    /\ sendState = "WAIT_HEADER" =>
         IF epOut.count = 0 THEN PacketOpen /\ dev.want = 0
         ELSE /\ dev.hdr = sendHdr /\ dev.want = sendHdr.len
              /\ IF sendHdr.len = 0 THEN dev.taken = sendHdr.id
                 ELSE PacketOpen
    /\ sendState = "WAIT_DATA" =>
         /\ sendHdr.len > 0
         /\ dev.hdr = sendHdr /\ dev.want = sendHdr.len - epOut.count
         /\ IF epOut.count = sendHdr.len THEN dev.taken = sendHdr.id
            ELSE PacketOpen

SendInvariant == Inv /\ OutTransfer /\ PhoneReads

----------------------------------------------------------------------------
(* More lemmas on the operators.                                           *)

LEMMA DataFields ==
    ASSUME NEW h \in Contents
    PROVE  /\ DataOf(h).part = "data" /\ DataOf(h).id = h.id
           /\ DataOf(h).len = h.len /\ DataOf(h).fault = h.fault
           /\ DataOf(h).size = IF h.fault = "short" THEN h.len - 1
                               ELSE h.len
BY DEF DataOf, Contents

LEMMA HeaderFields ==
    ASSUME NEW n, NEW re, NEW len, NEW f
    PROVE  /\ Header(n, re, len, f).id = n
           /\ Header(n, re, len, f).part = "header"
           /\ Header(n, re, len, f).size = 1
           /\ Header(n, re, len, f).len = len
           /\ Header(n, re, len, f).fault = f
BY DEF Header

LEMMA FilledFields ==
    ASSUME NEW ep \in Endpoint, NEW max \in Nat, NEW buf \in Contents
    PROVE  /\ Filled(ep, max, buf).stage = "DATA"
           /\ ~Filled(ep, max, buf).successful
           /\ Filled(ep, max, buf).complete = ep.complete
           /\ Filled(ep, max, buf).count = 0
           /\ Filled(ep, max, buf).max = max
           /\ Filled(ep, max, buf).buf = buf
BY DEF Filled, Endpoint

LEMMA ArmedFields ==
    ASSUME NEW ep \in Endpoint
    PROVE  /\ Armed(ep).stage = ep.stage /\ Armed(ep).buf = ep.buf
           /\ Armed(ep).successful = ep.successful /\ ~Armed(ep).complete
           /\ Armed(ep).count = ep.count /\ Armed(ep).max = ep.max
BY DEF Armed, Endpoint

LEMMA MovedFields ==
    ASSUME NEW ep \in Endpoint, NEW s \in Nat, NEW buf \in Contents
    PROVE  /\ Moved(ep, s, buf).buf = buf
           /\ Moved(ep, s, buf).count = ep.count + s
           /\ Moved(ep, s, buf).max = ep.max
           /\ Moved(ep, s, buf).complete = ep.complete
           /\ IF s < MaxPacketSize \/ ep.count + s >= ep.max
                THEN /\ Moved(ep, s, buf).successful
                     /\ Moved(ep, s, buf).stage = "COMPLETE"
              ELSE /\ Moved(ep, s, buf).successful = ep.successful
                   /\ Moved(ep, s, buf).stage = ep.stage
<1> DEFINE full == s < MaxPacketSize \/ ep.count + s >= ep.max
<1>1. full \in BOOLEAN
  OBVIOUS
<1>2. Moved(ep, s, buf) =
        [ep EXCEPT !.count = @ + s, !.buf = buf, !.successful = @ \/ full,
                   !.stage = IF full THEN "COMPLETE" ELSE @]
  BY DEF Moved
<1> HIDE DEF full
<1>3. /\ Moved(ep, s, buf).buf = buf
      /\ Moved(ep, s, buf).count = ep.count + s
      /\ Moved(ep, s, buf).max = ep.max
      /\ Moved(ep, s, buf).complete = ep.complete
      /\ Moved(ep, s, buf).successful = (ep.successful \/ full)
      /\ Moved(ep, s, buf).stage = IF full THEN "COMPLETE" ELSE ep.stage
  BY <1>1, <1>2 DEF Endpoint
<1>4. ep.successful \in BOOLEAN
  BY DEF Endpoint
<1> QED
  BY <1>3, <1>4 DEF full

\* What a round of _USB_FindNextToken leaves of a transfer: its contents and
\* result, and a stage that it has not reopened.
Same(e, d) == /\ e.buf = d.buf /\ e.count = d.count /\ e.max = d.max
              /\ e.successful = d.successful
              /\ e.stage = "DATA" => d.stage = "DATA"
LEMMA FindSame ==
    ASSUME NEW i \in Endpoint, NEW o \in Endpoint, FindNextToken(i, o)
    PROVE  /\ Same(epIn', i) /\ Same(epOut', o)
           /\ token' = "IN" => ~epIn'.complete /\ epIn'.stage = "DATA"
           /\ token' = "OUT" => ~epOut'.complete /\ epOut'.stage = "DATA"
<1>1. \A ep \in Endpoint : Same(ep, ep) /\ Same(Closed(ep), ep)
  BY DEF Same, Closed, Endpoint
<1>2. PICK ci, co \in BOOLEAN :
        /\ ci => Over(i)
        /\ co => Over(o)
        /\ epIn'  = IF ci THEN Closed(i) ELSE i
        /\ epOut' = IF co THEN Closed(o) ELSE o
        /\ \/ Ready(i) /\ i.stage = "DATA" /\ token' = "IN"
           \/ Ready(o) /\ o.stage = "DATA" /\ token' = "OUT"
           \/ token' = "none"
  BY DEF FindNextToken
<1>3. /\ token' = "IN" => Ready(i) /\ i.stage = "DATA" /\ epIn' = i
      /\ token' = "OUT" => Ready(o) /\ o.stage = "DATA" /\ epOut' = o
  BY <1>2 DEF Over
<1> QED
  BY <1>1, <1>2, <1>3 DEF Ready

----------------------------------------------------------------------------
(* A packet that is reported as sent is with the phone.                    *)

LEMMA SendInit == Init => SendInvariant
<1> SUFFICES ASSUME Init PROVE SendInvariant
  OBVIOUS
<1>1. PICK n \in SendLens : sendHdr = Header(1, 0, n, "none")
  BY DEF Init
<1>2. sendHdr.id = 1 /\ sendHdr.part = "header" /\ sendHdr.size = 1
  BY <1>1, HeaderFields
<1>3. OutTransfer
  BY DEF OutTransfer, Init, Moving
<1>4. dev.taken = 0 /\ dev.want = 0 /\ ~dev.lost
  BY DEF Init, NewPhone
<1>5. PhoneReads
  BY <1>2, <1>4 DEF PhoneReads, PacketOpen, Init
<1> QED
  BY <1>3, <1>5, InitInv DEF SendInvariant

\* Steps that only look at the OUT endpoint, or end its transfer.
LEMMA SendKept ==
    ASSUME SendInvariant, Inv', UNCHANGED <<sendState, sendHdr, tx, dev>>,
           Same(epOut', epOut),
           token' = "OUT" => ~epOut'.complete /\ epOut'.stage = "DATA",
           pc' = "sendArm" => epOut'.complete
    PROVE  SendInvariant'
<1>1. InFlight' = InFlight
  BY DEF InFlight
<1>2. OutTransfer'
  BY <1>1 DEF SendInvariant, OutTransfer, Same
<1>3. PhoneReads'
  BY DEF SendInvariant, PhoneReads, PacketOpen, Same
<1> QED
  BY <1>2, <1>3 DEF SendInvariant

LEMMA SendLooks ==
    SendInvariant /\ (RxPoll \/ RxStat \/ TxPoll \/ RecvTasks \/ RecvArm
                      \/ PhoneSends) => SendInvariant'
<1> SUFFICES ASSUME SendInvariant,
                    RxPoll \/ RxStat \/ TxPoll \/ RecvTasks \/ RecvArm
                      \/ PhoneSends
             PROVE  SendInvariant'
  OBVIOUS
<1>1. Inv'
  BY PollInv, RecvInv, PhoneInv DEF SendInvariant
<1>2. UNCHANGED <<sendState, sendHdr, tx, dev, epOut, token>>
  BY DEF RxPoll, RxStat, TxPoll, RecvTasks, RecvArm, PhoneSends, packet,
         driver, bus, phone, Interrupt
<1>3. pc' = "sendArm" => pc = "sendArm"
  BY DEF RxPoll, RxStat, TxPoll, RecvTasks, RecvArm, PhoneSends, StartRead,
         Interrupt
<1>4. Same(epOut', epOut)
  BY <1>2 DEF Same
<1> QED
  BY <1>1, <1>2, <1>3, <1>4, SendKept DEF SendInvariant, OutTransfer

LEMMA SendPolled == SendInvariant /\ TxStat => SendInvariant'
<1> SUFFICES ASSUME SendInvariant, TxStat PROVE SendInvariant'
  OBVIOUS
<1>1. Inv'
  BY PollInv DEF SendInvariant
<1>2. UNCHANGED <<sendState, sendHdr, dev, epOut, token>>
  BY DEF TxStat, packet, bus, phone
<1>3. PhoneReads' /\ InFlight' = InFlight
  BY <1>2 DEF SendInvariant, PhoneReads, PacketOpen, InFlight
<1>4. \/ tx' = tx
      \/ tx' = [busy |-> FALSE, ok |-> epOut.successful]
  BY DEF TxStat
<1>5. OutTransfer'
  BY <1>2, <1>3, <1>4 DEF TxStat, SendInvariant, OutTransfer
<1> QED
  BY <1>1, <1>3, <1>5 DEF SendInvariant

LEMMA SendArmed == SendInvariant /\ SendArm => SendInvariant'
<1> SUFFICES ASSUME SendInvariant, SendArm PROVE SendInvariant'
  OBVIOUS
<1>1. Inv'
  BY SendInv DEF SendInvariant
<1>2. epOut \in Endpoint
  BY DEF SendInvariant, Inv, Types
<1>3. Same(epOut', epOut)
  BY <1>2, ArmedFields DEF SendArm, Same
<1>4. token # "OUT" /\ UNCHANGED <<token, sendState, sendHdr, tx, dev>>
      /\ pc' # "sendArm"
  BY DEF SendArm, SendInvariant, OutTransfer, packet, driver, phone
<1> QED
  BY <1>1, <1>3, <1>4, SendKept

\* ADBPacketSendTasks goes on to the data, or to the next packet, only when the
\* phone has what went before (adb_packet.c:89-136).
LEMMA SendWrites ==
    ASSUME SendInvariant, NEW c \in Contents, NEW next \in Moving,
           pc = "send", StartWrite(c, next), UNCHANGED <<sendHdr, token, dev>>,
           c = IF next = "WAIT_HEADER" THEN sendHdr ELSE DataOf(sendHdr),
           c.size > 0, PacketOpen, ~tx.busy,
           next = "WAIT_HEADER" => dev.want = 0,
           next = "WAIT_DATA" => /\ sendHdr.len > 0 /\ dev.hdr = sendHdr
                                 /\ dev.want = sendHdr.len
    PROVE  OutTransfer' /\ PhoneReads'
<1>1. epOut \in Endpoint /\ c.size \in Nat /\ epOut.complete
  BY DEF SendInvariant, Inv, Types, Flags, Contents
<1>2. token # "OUT" /\ token' # "OUT"
  BY <1>1 DEF SendInvariant, OutTransfer
<1>3. sendHdr'.part = "header" /\ sendHdr'.size = 1 /\ ~dev'.lost
  BY DEF SendInvariant, PhoneReads
<1>4. CASE tx.busy \/ ~Accepts(epOut)
  <2>1. sendState' = "ERROR" /\ pc' = "recv" /\ UNCHANGED <<tx, epOut>>
    BY <1>4 DEF StartWrite
  <2>2. OutTransfer'
    BY <1>2, <2>1 DEF OutTransfer, Moving
  <2>3. PhoneReads'
    BY <1>3, <2>1 DEF PhoneReads
  <2> QED
    BY <2>2, <2>3
<1>5. CASE ~(tx.busy \/ ~Accepts(epOut))
  <2>1. /\ sendState' = next /\ pc' = "sendArm"
        /\ tx' = [tx EXCEPT !.busy = TRUE]
        /\ epOut' = Filled(epOut, c.size, c)
    BY <1>5 DEF StartWrite
  <2>2. /\ epOut'.buf = c /\ epOut'.max = c.size /\ epOut'.count = 0
        /\ ~epOut'.successful /\ epOut'.complete
    BY <1>1, <2>1, FilledFields
  <2>3. tx'.busy
    BY <2>1 DEF SendInvariant, Inv, Types
  <2>4. InFlight' = c
    BY <2>1 DEF InFlight, Moving
  <2>5. OutTransfer'
    BY <1>1, <1>2, <2>1, <2>2, <2>3, <2>4 DEF OutTransfer
  <2>6. sendHdr.len \in Nat
    BY LenType DEF SendInvariant, Inv, Types
  <2>7. PhoneReads'
    BY <1>3, <2>1, <2>2, <2>6 DEF PhoneReads, PacketOpen, Moving
  <2> QED
    BY <2>5, <2>7
<1> QED
  BY <1>4, <1>5

LEMMA SendGoesOn == SendInvariant /\ SendTasks => SendInvariant'
<1> SUFFICES ASSUME SendInvariant, SendTasks PROVE SendInvariant'
  OBVIOUS
<1>1. Inv'
  BY SendInv DEF SendInvariant
<1>2. /\ sendHdr \in Contents /\ sendHdr.size = 1 /\ sendHdr.len \in Nat
      /\ sendHdr.fault = "none"
  BY LenType DEF SendInvariant, Inv, Types, PhoneReads
<1>3. /\ DataOf(sendHdr) \in Contents
      /\ DataOf(sendHdr).size = sendHdr.len
  BY <1>2, DataType, DataFields
<1>4. UNCHANGED <<sendHdr, token, dev>> /\ pc = "send"
  BY DEF SendTasks, phone
<1>5. CASE sendState = "START"
  <2>1. StartWrite(sendHdr, "WAIT_HEADER") /\ ~tx.busy
    BY <1>5 DEF SendTasks, SendInvariant, Inv, Flags
  <2>2. PacketOpen /\ dev.want = 0
    BY <1>5 DEF SendInvariant, PhoneReads
  <2> QED
    BY <1>1, <1>2, <1>4, <2>1, <2>2, SendWrites DEF SendInvariant, Moving
<1>6. CASE sendState = "WAIT_HEADER" /\ ~tx.busy /\ tx.ok /\ ~SentLast
  <2>1. StartWrite(DataOf(sendHdr), "WAIT_DATA")
    BY <1>6 DEF SendTasks
  <2>2. epOut.count = epOut.max /\ epOut.max = 1
    BY <1>2, <1>6 DEF SendInvariant, OutTransfer, Moving, InFlight
  <2>3. sendHdr.len > 0
    BY <1>2, <1>6 DEF SentLast
  <2>4. PacketOpen /\ dev.hdr = sendHdr /\ dev.want = sendHdr.len
    BY <1>6, <2>2, <2>3 DEF SendInvariant, PhoneReads
  <2> QED
    BY <1>1, <1>3, <1>4, <1>6, <2>1, <2>3, <2>4, SendWrites
    DEF SendInvariant, Moving
<1>7. CASE /\ sendState # "START"
           /\ ~(sendState = "WAIT_HEADER" /\ ~tx.busy /\ tx.ok /\ ~SentLast)
  <2>1. /\ sendState' = IF sendState \notin BusyStates \/ tx.busy
                          THEN sendState
                        ELSE IF tx.ok THEN "IDLE" ELSE "ERROR"
        /\ pc' = "recv" /\ UNCHANGED <<tx, epOut>>
    BY <1>7 DEF SendTasks
  <2>2. CASE sendState' = sendState
    BY <1>1, <1>4, <2>1, <2>2, SendKept
    DEF SendInvariant, OutTransfer, Same
  <2>3. CASE sendState' = "ERROR" /\ ~tx.busy
    BY <1>1, <1>4, <2>1, <2>3
    DEF SendInvariant, OutTransfer, PhoneReads, Moving
  <2>4. CASE sendState \in Moving /\ ~tx.busy /\ tx.ok /\ sendState' = "IDLE"
    <3>1. epOut.count = epOut.max /\ epOut.max = InFlight.size
      BY <2>4 DEF SendInvariant, OutTransfer
    <3>2. dev.taken = sendHdr.id /\ dev.want = 0
      <4>1. CASE sendState = "WAIT_HEADER"
        BY <1>2, <1>7, <2>4, <3>1, <4>1
        DEF SendInvariant, PhoneReads, InFlight, SentLast
      <4>2. CASE sendState = "WAIT_DATA"
        BY <1>2, <1>3, <3>1, <4>2 DEF SendInvariant, PhoneReads, InFlight
      <4> QED
        BY <2>4, <4>1, <4>2 DEF Moving
    <3> QED
      BY <1>1, <1>4, <2>1, <2>4, <3>2
      DEF SendInvariant, OutTransfer, PhoneReads, Moving
  <2> QED
    BY <1>7, <2>1, <2>2, <2>3, <2>4 DEF Moving, BusyStates
<1> QED
  BY <1>5, <1>6, <1>7

\* ADBPacketSend and ADBReset set up the next packet (adb_packet.c:208-222).
LEMMA SendStarts == SendInvariant /\ (Work \/ Restart) => SendInvariant'
<1> SUFFICES ASSUME SendInvariant, Work \/ Restart PROVE SendInvariant'
  OBVIOUS
<1>1. Inv'
  BY WorkInv, RestartInv DEF SendInvariant
<1>2. sendHdr.id \in Nat
  BY DEF SendInvariant, Inv, Types, Contents
<1>3. CASE Work /\ UNCHANGED <<sendState, sendHdr>>
  BY <1>1, <1>3, SendKept
  DEF Work, driver, bus, phone, SendInvariant, OutTransfer, Same
<1>4. CASE Work /\ ~UNCHANGED <<sendState, sendHdr>>
  <2>1. /\ sendState = "IDLE" /\ sendState' = "START" /\ pc' = "rxPoll"
        /\ \E n \in SendLens : sendHdr' = Header(sendHdr.id + 1, 0, n, "none")
        /\ UNCHANGED <<tx, token, epOut, dev>>
    BY <1>4 DEF Work, NextSend, driver, bus, phone
  <2>2. /\ sendHdr'.id = sendHdr.id + 1 /\ sendHdr'.part = "header"
        /\ sendHdr'.size = 1
    BY <2>1, HeaderFields
  <2>3. dev.taken = sendHdr.id /\ dev.want = 0 /\ ~dev.lost
    BY <2>1 DEF SendInvariant, PhoneReads
  <2>4. PhoneReads'
    BY <1>2, <2>1, <2>2, <2>3 DEF PhoneReads, PacketOpen
  <2>5. OutTransfer'
    BY <2>1 DEF SendInvariant, OutTransfer, Moving
  <2> QED
    BY <1>1, <2>4, <2>5 DEF SendInvariant
<1>5. CASE Restart
  <2>1. /\ sendState' = "START" /\ pc' = "rxPoll" /\ token' = "none"
        /\ \E n \in SendLens : sendHdr' = Header(sendHdr.id, 0, n, "none")
        /\ tx' = [busy |-> FALSE, ok |-> TRUE]
        /\ dev' = NewPhone(sendHdr.id - 1)
    BY <1>5 DEF Restart
  <2>2. /\ sendHdr'.id = sendHdr.id /\ sendHdr'.part = "header"
        /\ sendHdr'.size = 1
    BY <2>1, HeaderFields
  <2>3. /\ dev'.taken = sendHdr.id - 1 /\ dev'.want = 0 /\ ~dev'.lost
    BY <2>1 DEF NewPhone
  <2>4. PhoneReads'
    BY <2>1, <2>2, <2>3 DEF PhoneReads, PacketOpen
  <2>5. OutTransfer'
    BY <2>1 DEF OutTransfer, Moving
  <2> QED
    BY <1>1, <2>4, <2>5 DEF SendInvariant
<1> QED
  BY <1>3, <1>4, <1>5

\* The interrupt, when it does not put units into a packet to the phone.
LEMMA SendInterrupted ==
    SendInvariant /\ (Sof \/ InData \/ Nak \/ BusError) => SendInvariant'
<1> SUFFICES ASSUME SendInvariant, Sof \/ InData \/ Nak \/ BusError
             PROVE  SendInvariant'
  OBVIOUS
<1>1. Inv'
  BY SofInv, InDataInv, NakInv, BusErrorInv DEF SendInvariant
<1>2. UNCHANGED <<sendState, sendHdr, tx, dev, pc>>
  BY DEF Sof, InData, Nak, BusError, Interrupt, packet, driver, phone
<1>3. epIn \in Endpoint /\ epOut \in Endpoint
  BY DEF SendInvariant, Inv, Types
<1>4. ASSUME NEW i \in Endpoint, NEW o \in Endpoint, FindNextToken(i, o),
             Same(o, epOut), o.complete = epOut.complete
      PROVE  SendInvariant'
  <2>1. /\ Same(epOut', o)
        /\ token' = "OUT" => ~epOut'.complete /\ epOut'.stage = "DATA"
    BY <1>4, FindSame
  <2>2. Same(epOut', epOut)
    BY <1>4, <2>1 DEF Same
  <2>3. o.complete => epOut'.complete
    BY <1>4, FindTypes
  <2> QED
    BY <1>1, <1>2, <1>4, <2>1, <2>2, <2>3, SendKept
    DEF SendInvariant, OutTransfer
<1>5. CASE Sof
  <2> DEFINE i == [epIn EXCEPT !.nakd = FALSE]
             o == [epOut EXCEPT !.nakd = FALSE]
  <2>1. /\ i \in Endpoint /\ o \in Endpoint /\ Same(o, epOut)
        /\ o.complete = epOut.complete /\ o.stage = epOut.stage
    BY <1>3 DEF Endpoint, Same
  <2>2. FindNextToken(i, o) \/ (epOut' = o /\ UNCHANGED token)
    BY <1>5 DEF Sof
  <2> HIDE DEF i, o
  <2>3. CASE epOut' = o /\ UNCHANGED token
    BY <1>1, <1>2, <2>1, <2>3, SendKept DEF SendInvariant, OutTransfer
  <2> QED
    BY <1>4, <2>1, <2>2, <2>3
<1>6. CASE Nak
  <2> DEFINE i == [epIn EXCEPT !.nakd = TRUE]
             o == [epOut EXCEPT !.nakd = TRUE]
  <2>1. /\ i \in Endpoint /\ o \in Endpoint /\ Same(o, epOut)
        /\ o.complete = epOut.complete /\ Same(epOut, epOut)
    BY <1>3 DEF Endpoint, Same
  <2>2. FindNextToken(epIn, o) \/ FindNextToken(i, epOut)
    BY <1>6 DEF Nak
  <2> HIDE DEF i, o
  <2> QED
    BY <1>3, <1>4, <2>1, <2>2
<1>7. CASE BusError
  <2> DEFINE i == [epIn EXCEPT !.failed = TRUE, !.stage = "ERROR"]
             o == [epOut EXCEPT !.failed = TRUE, !.stage = "ERROR"]
  <2>1. /\ i \in Endpoint /\ o \in Endpoint /\ Same(o, epOut)
        /\ o.complete = epOut.complete /\ Same(epOut, epOut)
    BY <1>3 DEF Endpoint, Same
  <2>2. FindNextToken(epIn, o) \/ FindNextToken(i, epOut)
    BY <1>7 DEF BusError
  <2> HIDE DEF i, o
  <2> QED
    BY <1>3, <1>4, <2>1, <2>2
<1>8. CASE InData
  <2> DEFINE c == Head(inq)
             s == Least(MaxPacketSize, c.size)
             mixed == epIn.count > 0 /\ epIn.buf.id # c.id
             buf == IF mixed THEN [c EXCEPT !.fault = "checksum"] ELSE c
  <2>1. inq \in Seq(Contents) /\ inq # <<>>
    BY <1>8 DEF InData, SendInvariant, Inv, Types
  <2>2. c \in Contents
    BY <2>1
  <2>3. s \in Nat
    BY <2>2, PacketAssumption DEF Contents, Least
  <2>4. FindNextToken(Moved(epIn, s, buf), epOut)
    BY <1>8 DEF InData
  <2> HIDE DEF c, s
  <2>5. buf \in Contents
    BY <2>2 DEF Contents
  <2> HIDE DEF buf
  <2>6. Moved(epIn, s, buf) \in Endpoint /\ Same(epOut, epOut)
    BY <1>3, <2>3, <2>5, MovedType DEF Same
  <2> QED
    BY <1>3, <1>4, <2>4, <2>6
<1> QED
  BY <1>5, <1>6, <1>7, <1>8

\* The phone takes what comes, in order: a header between packets, data up to
\* the length of their header.
LEMMA SendTaken == SendInvariant /\ OutAck => SendInvariant'
<1> SUFFICES ASSUME SendInvariant, OutAck PROVE SendInvariant'
  OBVIOUS
<1> DEFINE s == Least(MaxPacketSize, epOut.max - epOut.count)
           c == epOut.buf
           m == Moved(epOut, s, c)
           full == s < MaxPacketSize \/ epOut.count + s >= epOut.max
<1>1. Inv'
  BY OutAckInv DEF SendInvariant
<1>2. UNCHANGED <<sendState, sendHdr, tx, pc>>
  BY DEF OutAck, Interrupt, packet, driver
<1>3. /\ epIn \in Endpoint /\ epOut \in Endpoint /\ c \in Contents
      /\ epOut.count \in Nat /\ epOut.max \in Nat
  BY DEF SendInvariant, Inv, Types, Endpoint
<1>4. /\ ~epOut.complete /\ epOut.stage = "DATA" /\ sendState \in Moving
      /\ c = InFlight /\ epOut.max = InFlight.size /\ epOut.count < epOut.max
      /\ tx.busy /\ pc # "sendArm"
  BY DEF OutAck, SendInvariant, OutTransfer, Inv, Flags
<1>5. /\ s \in Nat /\ s > 0 /\ full \in BOOLEAN
      /\ epOut.count + s <= epOut.max
      /\ full <=> epOut.count + s = epOut.max
  BY <1>3, <1>4, PacketAssumption DEF Least
<1>6. FindNextToken(epIn, m)
  BY DEF OutAck
<1>7. /\ m.buf = c /\ m.max = epOut.max /\ m.count = epOut.count + s
      /\ IF full THEN m.successful /\ m.stage = "COMPLETE"
         ELSE m.successful = epOut.successful /\ m.stage = "DATA"
      /\ m \in Endpoint
  <2> HIDE DEF s, c
  <2>1. s \in Nat /\ c \in Contents /\ epOut \in Endpoint
    BY <1>3, <1>5
  <2>2. m \in Endpoint
    BY <2>1, MovedType
  <2>3. /\ m.buf = c /\ m.max = epOut.max /\ m.count = epOut.count + s
        /\ IF full THEN m.successful /\ m.stage = "COMPLETE"
           ELSE m.successful = epOut.successful /\ m.stage = epOut.stage
    BY <2>1, MovedFields, Zenon
  <2> QED
    BY <1>4, <2>2, <2>3
<1>8. ~epOut.successful
  BY <1>3, <1>4 DEF SendInvariant, OutTransfer
<1>9. /\ epOut'.buf = c /\ epOut'.max = epOut.max
      /\ epOut'.count = epOut.count + s
      /\ epOut'.successful => full
      /\ epOut'.stage = "DATA" => ~full
      /\ token' = "OUT" => ~epOut'.complete /\ epOut'.stage = "DATA"
  <2> HIDE DEF s, c, m, full
  <2>1. Same(epOut', m)
    BY <1>3, <1>6, <1>7, FindSame
  <2>2. token' = "OUT" => ~epOut'.complete /\ epOut'.stage = "DATA"
    BY <1>3, <1>6, <1>7, FindSame
  <2> QED
    BY <1>7, <1>8, <2>1, <2>2 DEF Same
<1>10. /\ sendHdr \in Contents /\ sendHdr.len \in Nat /\ sendHdr.id \in Nat
       /\ sendHdr.part = "header" /\ sendHdr.size = 1
       /\ sendHdr.fault = "none"
  BY LenType DEF SendInvariant, PhoneReads, Inv, Types, Contents
<1>11. OutTransfer'
  <2>1. InFlight' = InFlight
    BY <1>2 DEF InFlight
  <2> HIDE DEF s, c, m, full
  <2>2. epOut'.stage = "DATA" => epOut'.count < epOut'.max
    BY <1>3, <1>5, <1>9
  <2>3. epOut'.successful => epOut'.count = epOut'.max
    BY <1>3, <1>5, <1>9
  <2> QED
    BY <1>2, <1>4, <1>9, <2>1, <2>2, <2>3 DEF OutTransfer
<1> HIDE DEF m, full
<1>12. dev' = IF c.part = "header"
                THEN [dev EXCEPT !.hdr = c, !.want = c.len,
                                 !.lost = @ \/ dev.want > 0,
                                 !.taken = IF c.len = 0 THEN c.id ELSE @]
              ELSE [dev EXCEPT !.want = @ - s,
                               !.lost = @ \/ c.id # dev.hdr.id
                                          \/ s > dev.want,
                               !.taken = IF s = dev.want THEN c.id ELSE @]
  BY DEF OutAck
<1>13. dev \in [taken : 0 .. MaxPackets, hdr : Contents, want : Int,
                lost : BOOLEAN]
  BY DEF SendInvariant, Inv, Types
<1> HIDE DEF s, c
<1>14. CASE sendState = "WAIT_HEADER"
  <2>1. c = sendHdr /\ epOut.max = 1 /\ epOut.count = 0 /\ s = 1
    BY <1>3, <1>4, <1>5, <1>10, <1>14 DEF InFlight
  <2>2. PacketOpen /\ dev.want = 0 /\ ~dev.lost
    BY <1>14, <2>1 DEF SendInvariant, PhoneReads
  <2>3. /\ dev'.hdr = sendHdr /\ dev'.want = sendHdr.len
        /\ dev'.taken = IF sendHdr.len = 0 THEN sendHdr.id ELSE dev.taken
        /\ ~dev'.lost
    <3>1. dev' = [dev EXCEPT !.hdr = c, !.want = c.len,
                             !.lost = @ \/ dev.want > 0,
                             !.taken = IF c.len = 0 THEN c.id ELSE @]
      BY <1>10, <1>12, <2>1
    <3> QED
      BY <1>13, <2>1, <2>2, <3>1
  <2>4. PhoneReads'
    BY <1>2, <1>9, <1>10, <1>14, <2>1, <2>2, <2>3 DEF PhoneReads, PacketOpen
  <2> QED
    BY <1>1, <1>11, <2>4 DEF SendInvariant
<1>15. CASE sendState = "WAIT_DATA"
  <2>1. /\ c.part = "data" /\ c.id = sendHdr.id /\ epOut.max = sendHdr.len
    BY <1>4, <1>10, <1>15, DataFields DEF InFlight
  <2>2. /\ dev.hdr = sendHdr /\ dev.want = sendHdr.len - epOut.count
        /\ PacketOpen /\ ~dev.lost /\ sendHdr.len > 0
    BY <1>3, <1>4, <1>10, <1>15, <2>1 DEF SendInvariant, PhoneReads
  <2>3. dev' = [dev EXCEPT !.want = @ - s,
                           !.lost = @ \/ c.id # dev.hdr.id \/ s > dev.want,
                           !.taken = IF s = dev.want THEN c.id ELSE @]
    BY <1>12, <2>1
  <2>4. ~(s > dev.want)
    BY <1>3, <1>5, <1>10, <2>1, <2>2
  <2>5. /\ dev'.hdr = dev.hdr /\ dev'.want = dev.want - s
        /\ dev'.taken = IF s = dev.want THEN sendHdr.id ELSE dev.taken
        /\ ~dev'.lost
    BY <1>13, <2>1, <2>2, <2>3, <2>4
  <2>6. /\ dev'.want = sendHdr.len - epOut'.count
        /\ s = dev.want <=> epOut'.count = sendHdr.len
    BY <1>3, <1>5, <1>9, <1>10, <2>2, <2>5
  <2>7. PhoneReads'
    BY <1>2, <1>10, <1>15, <2>2, <2>5, <2>6 DEF PhoneReads, PacketOpen
  <2> QED
    BY <1>1, <1>11, <2>7 DEF SendInvariant
<1> QED
  BY <1>4, <1>14, <1>15 DEF Moving

LEMMA SendNext == SendInvariant /\ [Next]_vars => SendInvariant'
<1> SUFFICES ASSUME SendInvariant, [Next]_vars PROVE SendInvariant'
  OBVIOUS
<1>1. CASE UNCHANGED vars
  BY <1>1, NextInv, SendKept
  DEF vars, packet, driver, bus, phone, SendInvariant, OutTransfer, Same
<1> QED
  BY <1>1, SendLooks, SendPolled, SendArmed, SendGoesOn, SendStarts,
     SendInterrupted, SendTaken DEF Next, Loop

\* A packet that the firmware counts as sent is with the phone, header and data,
\* and the phone never got data or a header in the wrong place, whatever the
\* bus did and wherever the interrupt fell: for packets of any length and any
\* number of errors and resets (adb_packet.c:89-136, usb_host_android.c:206-267).
THEOREM SentPacketsAreTaken == Spec => []SentIsTaken
<1>1. SendInvariant => SentIsTaken
  BY DEF SendInvariant, PhoneReads, SentIsTaken
<1> QED
  BY <1>1, SendInit, SendNext, PTL DEF Spec

----------------------------------------------------------------------------
(* The phone's transfers that have not been read are the rest of a stream  *)
(* of packets, which ends with the last one made.                          *)

\* A header as the phone makes it: one unit, with a fault that its length
\* allows.
Fit(h) ==
    /\ h.part = "header" /\ h.size = 1
    /\ h.fault = "magic" => h.len = 0
    /\ h.fault = "checksum" => h.len > 0
    /\ h.fault = "short" => h.len > 1
Follows(c, d) ==
    IF c.part = "header" /\ c.len > 0 THEN d = DataOf(c)
    ELSE d.part = "header" /\ d.id = c.id + 1
Closes(c) == c.part = "data" \/ c.len = 0

StreamTo(q, n) ==
    /\ \A i \in 1 .. Len(q) :
          q[i].size > 0 /\ (q[i].part = "header" => Fit(q[i]))
    /\ \A i \in 1 .. Len(q) - 1 : Follows(q[i], q[i + 1])
    /\ q # <<>> => q[Len(q)].id = n /\ Closes(q[Len(q)])

\* The next thing read will be the header of packet n; or the data of h, of
\* which k units have been read.
HeaderNext(q, last, n) ==
    IF q = <<>> THEN last + 1 = n
    ELSE Head(q).part = "header" /\ Head(q).id = n
DataNext(q, h, k) ==
    /\ q # <<>> /\ k < DataOf(h).size
    /\ Head(q) = [DataOf(h) EXCEPT !.size = @ - k]

\* Reading a whole transfer leaves a stream, at the place after it.
LEMMA StreamRead ==
    ASSUME NEW q \in Seq(Contents), NEW n \in Nat, q # <<>>, StreamTo(q, n)
    PROVE  /\ StreamTo(Tail(q), n)
           /\ Closes(Head(q)) => HeaderNext(Tail(q), n, Head(q).id + 1)
           /\ ~Closes(Head(q)) => /\ Tail(q) # <<>>
                                  /\ Head(q).part = "header"
                                     => Head(Tail(q)) = DataOf(Head(q))
<1> DEFINE r == Tail(q)
<1>1. /\ Len(q) \in Nat \ {0} /\ Len(r) = Len(q) - 1
      /\ \A i \in 1 .. Len(r) : r[i] = q[i + 1]
      /\ Head(q) = q[1]
      /\ r # <<>> <=> Len(r) > 0
      /\ r # <<>> => Head(r) = q[2]
  <2>1. Len(q) \in Nat \ {0} /\ Head(q) = q[1] /\ r \in Seq(Contents)
    OBVIOUS
  <2>2. Len(r) = Len(q) - 1 /\ \A i \in 1 .. Len(r) : r[i] = q[i + 1]
    OBVIOUS
  <2> HIDE DEF r
  <2>3. /\ r # <<>> <=> Len(r) > 0
        /\ r # <<>> => Head(r) = r[1]
    BY <2>1
  <2> QED
    BY <2>1, <2>2, <2>3
<1>2. /\ \A i \in 1 .. Len(r) :
            r[i].size > 0 /\ (r[i].part = "header" => Fit(r[i]))
      /\ \A i \in 1 .. Len(r) - 1 : Follows(r[i], r[i + 1])
  BY <1>1 DEF StreamTo
<1>3. r # <<>> => r[Len(r)] = q[Len(q)]
  BY <1>1
<1>4. StreamTo(r, n)
  BY <1>2, <1>3 DEF StreamTo
<1>5. r = <<>> => Head(q) = q[Len(q)]
  BY <1>1
<1>6. r # <<>> => Follows(Head(q), Head(r))
  BY <1>1 DEF StreamTo
<1>7. Head(q).len \in Nat
  <2>1. Head(q) \in Contents
    OBVIOUS
  <2> QED
    BY <2>1, LenType
<1> HIDE DEF r
<1>8. /\ Closes(Head(q)) => HeaderNext(r, n, Head(q).id + 1)
      /\ ~Closes(Head(q)) => r # <<>>
  BY <1>5, <1>6, <1>7 DEF HeaderNext, Follows, Closes, StreamTo
<1>9. ~Closes(Head(q)) /\ Head(q).part = "header" => Head(r) = DataOf(Head(q))
  BY <1>6, <1>7, <1>8 DEF Follows, Closes
<1> QED
  BY <1>4, <1>8, <1>9 DEF r

\* Reading a part of data leaves a stream.
LEMMA StreamCut ==
    ASSUME NEW q \in Seq(Contents), NEW n \in Nat, q # <<>>, StreamTo(q, n),
           NEW c \in Contents, Head(q).part = "data",
           c.part = "data" /\ c.id = Head(q).id /\ c.size > 0
    PROVE  /\ StreamTo(<<c>> \o Tail(q), n)
           /\ <<c>> \o Tail(q) # <<>> /\ Head(<<c>> \o Tail(q)) = c
<1> DEFINE r == <<c>> \o Tail(q)
<1>1. /\ Len(q) \in Nat \ {0} /\ Len(r) = Len(q)
      /\ \A i \in 2 .. Len(r) : r[i] = q[i]
      /\ r[1] = c /\ Head(q) = q[1] /\ r # <<>> /\ Head(r) = c
  OBVIOUS
<1> HIDE DEF r
<1>2. \A i \in 1 .. Len(r) :
         r[i].size > 0 /\ (r[i].part = "header" => Fit(r[i]))
  BY <1>1 DEF StreamTo
<1>3. ASSUME NEW i \in 1 .. Len(r) - 1 PROVE Follows(r[i], r[i + 1])
  <2>1. Follows(q[i], q[i + 1]) /\ r[i + 1] = q[i + 1]
    BY <1>1 DEF StreamTo
  <2>2. CASE i = 1
    BY <1>1, <2>1, <2>2 DEF Follows
  <2>3. CASE i # 1
    BY <1>1, <2>1, <2>3
  <2> QED
    BY <2>2, <2>3
<1>4. r[Len(r)].id = n /\ Closes(r[Len(r)])
  <2>1. CASE Len(r) = 1
    BY <1>1, <2>1 DEF StreamTo, Closes
  <2>2. CASE Len(r) # 1
    BY <1>1, <2>2 DEF StreamTo
  <2> QED
    BY <2>1, <2>2
<1>5. StreamTo(r, n)
  BY <1>2, <1>3, <1>4 DEF StreamTo
<1> QED
  BY <1>1, <1>5 DEF r

\* A packet the phone adds goes on with the stream.
LEMMA StreamAdd ==
    ASSUME NEW q \in Seq(Contents), NEW n \in Nat, StreamTo(q, n),
           NEW h \in Contents, Fit(h), h.id = n + 1,
           NEW p, p = IF h.len = 0 THEN <<h>> ELSE <<h, DataOf(h)>>
    PROVE  /\ StreamTo(q \o p, n + 1)
           /\ q \o p # <<>>
           /\ IF q = <<>> THEN Head(q \o p) = h ELSE Head(q \o p) = Head(q)
<1> DEFINE r == q \o p
           d == DataOf(h)
<1>1. h.len \in Nat
  BY LenType
<1>2. d \in Contents
  BY DataType DEF Fit
<1>3. h.len # 0 => d.part = "data" /\ d.id = n + 1 /\ d.size > 0
  BY <1>1, DataFields DEF Fit
<1> HIDE DEF d
<1>4. q = <<>> \/ Follows(q[Len(q)], h)
  BY DEF StreamTo, Follows, Closes, Fit
<1>5. CASE h.len = 0
  <2>1. p = <<h>>
    BY <1>5
  <2>2. /\ Len(q) \in Nat /\ Len(r) = Len(q) + 1
        /\ \A i \in 1 .. Len(q) : r[i] = q[i]
        /\ r[Len(q) + 1] = h /\ r # <<>>
        /\ q = <<>> <=> Len(q) = 0
        /\ q # <<>> => Head(q) = q[1]
        /\ Head(r) = r[1]
    BY <2>1
  <2> HIDE DEF r
  <2>3. /\ \A i \in 1 .. Len(r) :
              r[i].size > 0 /\ (r[i].part = "header" => Fit(r[i]))
    BY <2>2 DEF StreamTo, Fit
  <2>4. ASSUME NEW i \in 1 .. Len(r) - 1 PROVE Follows(r[i], r[i + 1])
    BY <1>4, <2>2 DEF StreamTo
  <2>5. r[Len(r)].id = n + 1 /\ Closes(r[Len(r)])
    BY <1>5, <2>2 DEF Closes
  <2>6. StreamTo(r, n + 1)
    BY <2>3, <2>4, <2>5 DEF StreamTo
  <2> QED
    BY <2>2, <2>6 DEF r
<1>6. CASE h.len # 0
  <2>1. p = <<h, d>>
    BY <1>6 DEF d
  <2>2. /\ Len(q) \in Nat /\ Len(r) = Len(q) + 2
        /\ \A i \in 1 .. Len(q) : r[i] = q[i]
        /\ r[Len(q) + 1] = h /\ r[Len(q) + 2] = d /\ r # <<>>
        /\ q = <<>> <=> Len(q) = 0
        /\ q # <<>> => Head(q) = q[1]
        /\ Head(r) = r[1]
    BY <1>2, <2>1
  <2> HIDE DEF r
  <2>3. /\ \A i \in 1 .. Len(r) :
              r[i].size > 0 /\ (r[i].part = "header" => Fit(r[i]))
    BY <1>3, <1>6, <2>2 DEF StreamTo, Fit
  <2>4. ASSUME NEW i \in 1 .. Len(r) - 1 PROVE Follows(r[i], r[i + 1])
    <3>1. CASE i < Len(q)
      BY <2>2, <3>1 DEF StreamTo
    <3>2. CASE i = Len(q)
      BY <1>4, <2>2, <3>2
    <3>3. CASE i = Len(q) + 1
      BY <1>1, <1>6, <2>2, <3>3 DEF Follows, d, Fit
    <3> QED
      BY <2>2, <3>1, <3>2, <3>3
  <2>5. r[Len(r)].id = n + 1 /\ Closes(r[Len(r)])
    BY <1>3, <1>6, <2>2 DEF Closes
  <2>6. StreamTo(r, n + 1)
    BY <2>3, <2>4, <2>5 DEF StreamTo
  <2> QED
    BY <2>2, <2>6 DEF r
<1> QED
  BY <1>5, <1>6

----------------------------------------------------------------------------
(* A packet that is handed up is the next of the phone, whole.             *)

\* c is the data of h, or a part of them.
PartOf(c, h) == c = [DataOf(h) EXCEPT !.size = c.size]

\* The open transfer for the data of recvHdr: where it is in the stream, and
\* what a transfer that has ended has brought.  Short data may be followed by
\* the next header in the same transfer: then the checksum tells.
DataTransfer ==
    LET h == recvHdr IN
    /\ Fit(h) /\ h.id = handled + 1 /\ h.len > 0
    /\ epIn.max = h.len
    /\ IF epIn.successful
         THEN IF h.fault = "short"
                THEN epIn.count # h.len \/ epIn.buf.fault = "checksum"
              ELSE /\ epIn.count = h.len /\ PartOf(epIn.buf, h)
                   /\ HeaderNext(inq, made, handled + 2)
       ELSE /\ epIn.count > 0 => epIn.buf.id = h.id
            /\ IF epIn.count < DataOf(h).size
                 THEN DataNext(inq, h, epIn.count)
               ELSE /\ h.fault = "short" /\ epIn.count = h.len - 1
                    /\ HeaderNext(inq, made, handled + 2)

HeaderTransfer ==
    /\ epIn.max = 1
    /\ IF epIn.successful
         THEN /\ epIn.count = 1
              /\ Fit(epIn.buf) /\ epIn.buf.id = handled + 1
              /\ IF epIn.buf.len = 0 THEN HeaderNext(inq, made, handled + 2)
                 ELSE DataNext(inq, epIn.buf, 0)
       ELSE epIn.count = 0 /\ HeaderNext(inq, made, handled + 1)

InTransfer ==
    /\ rx.busy => recvState \in Moving
    /\ token = "IN" => ~epIn.complete /\ epIn.stage = "DATA"
    /\ recvState \in Moving =>
         /\ epIn.stage = "DATA" => ~epIn.successful
         /\ ~rx.busy => /\ rx.ok => epIn.successful
                        /\ rx.length = epIn.count
    /\ recvState = "START" => HeaderNext(inq, made, handled + 1)
    /\ recvState = "WAIT_HEADER" => HeaderTransfer
    /\ recvState = "WAIT_DATA" => DataTransfer
    /\ recvState = "IDLE" => HeaderNext(inq, made, handled + 2)

ReceiveTypes == recvHdr \in Contents /\ recvData \in Contents /\ handled \in Nat

ReceiveInvariant ==
    /\ Inv /\ ReceiveTypes /\ StreamTo(inq, made) /\ InTransfer
    /\ ReceivedIntact

LEMMA ReceiveInit == Init => ReceiveInvariant
<1> SUFFICES ASSUME Init PROVE ReceiveInvariant
  OBVIOUS
<1>1. ReceiveTypes
  BY NothingType DEF Init, ReceiveTypes
<1>2. StreamTo(inq, made)
  <2>1. inq = <<>> /\ Len(inq) = 0
    BY DEF Init
  <2> QED
    BY <2>1 DEF StreamTo
<1>3. InTransfer
  BY DEF InTransfer, Init, Moving, HeaderNext
<1>4. ReceivedIntact
  BY DEF ReceivedIntact, Init
<1> QED
  BY <1>1, <1>2, <1>3, <1>4, InitInv DEF ReceiveInvariant

\* Steps that only look at the IN endpoint, or end its transfer.
LEMMA ReceiveKept ==
    ASSUME ReceiveInvariant, Inv',
           UNCHANGED <<recvState, recvHdr, recvData, rx, handled, made, inq>>,
           Same(epIn', epIn),
           token' = "IN" => ~epIn'.complete /\ epIn'.stage = "DATA"
    PROVE  ReceiveInvariant'
<1>1. StreamTo(inq, made)' /\ ReceiveTypes' /\ ReceivedIntact'
  BY DEF ReceiveInvariant, StreamTo, ReceiveTypes, ReceivedIntact
<1>2. /\ epIn'.buf = epIn.buf /\ epIn'.count = epIn.count
      /\ epIn'.max = epIn.max /\ epIn'.successful = epIn.successful
      /\ epIn'.stage = "DATA" => epIn.stage = "DATA"
  BY DEF Same
<1>3. /\ HeaderTransfer => HeaderTransfer'
      /\ DataTransfer => DataTransfer'
  BY <1>2 DEF HeaderTransfer, DataTransfer
<1>4. InTransfer'
  BY <1>2, <1>3 DEF ReceiveInvariant, InTransfer
<1> QED
  BY <1>1, <1>4 DEF ReceiveInvariant

LEMMA ReceiveLooks ==
    ReceiveInvariant /\ (RxPoll \/ TxPoll \/ TxStat \/ SendTasks \/ SendArm)
      => ReceiveInvariant'
<1> SUFFICES ASSUME ReceiveInvariant,
                    RxPoll \/ TxPoll \/ TxStat \/ SendTasks \/ SendArm
             PROVE  ReceiveInvariant'
  OBVIOUS
<1>1. Inv'
  BY PollInv, SendInv DEF ReceiveInvariant
<1>2. UNCHANGED <<recvState, recvHdr, recvData, rx, handled, made, inq, epIn,
                  token>>
  BY DEF RxPoll, TxPoll, TxStat, SendTasks, SendArm, packet, driver, bus, phone
<1>3. Same(epIn', epIn)
  BY <1>2 DEF Same
<1> QED
  BY <1>1, <1>2, <1>3, ReceiveKept DEF ReceiveInvariant, InTransfer

LEMMA ReceiveArmed == ReceiveInvariant /\ RecvArm => ReceiveInvariant'
<1> SUFFICES ASSUME ReceiveInvariant, RecvArm PROVE ReceiveInvariant'
  OBVIOUS
<1>1. Inv'
  BY RecvInv DEF ReceiveInvariant
<1>2. epIn \in Endpoint
  BY DEF ReceiveInvariant, Inv, Types
<1>3. epIn' = Armed(epIn) /\ UNCHANGED <<packet, driver, handled, phone, token>>
  BY DEF RecvArm
<1>4. Same(epIn', epIn) /\ ~epIn'.complete /\ epIn'.stage = epIn.stage
  BY <1>2, <1>3, ArmedFields DEF Same
<1> QED
  BY <1>1, <1>3, <1>4, ReceiveKept
  DEF ReceiveInvariant, InTransfer, packet, driver, phone

LEMMA ReceivePolled == ReceiveInvariant /\ RxStat => ReceiveInvariant'
<1> SUFFICES ASSUME ReceiveInvariant, RxStat PROVE ReceiveInvariant'
  OBVIOUS
<1>1. Inv'
  BY PollInv DEF ReceiveInvariant
<1>2. UNCHANGED <<recvState, recvHdr, recvData, handled, made, inq, epIn, token>>
  BY DEF RxStat, packet, bus, phone
<1>3. StreamTo(inq, made)' /\ ReceiveTypes' /\ ReceivedIntact'
  BY <1>2 DEF ReceiveInvariant, StreamTo, ReceiveTypes, ReceivedIntact
<1>4. /\ HeaderTransfer => HeaderTransfer'
      /\ DataTransfer => DataTransfer'
  BY <1>2 DEF HeaderTransfer, DataTransfer
<1>5. \/ rx' = rx
      \/ ~rx'.busy /\ rx'.ok = epIn.successful /\ rx'.length = epIn.count
  BY DEF RxStat, RxResult
<1>6. InTransfer'
  BY <1>2, <1>4, <1>5 DEF ReceiveInvariant, InTransfer
<1> QED
  BY <1>1, <1>3, <1>6 DEF ReceiveInvariant

\* ADBTasks and ADBReset: the next packet is asked for.
LEMMA ReceiveStarts == ReceiveInvariant /\ (Work \/ Restart) => ReceiveInvariant'
<1> SUFFICES ASSUME ReceiveInvariant, Work \/ Restart PROVE ReceiveInvariant'
  OBVIOUS
<1>1. Inv'
  BY WorkInv, RestartInv DEF ReceiveInvariant
<1>2. made \in Nat /\ handled \in Nat
  BY DEF ReceiveInvariant, ReceiveTypes, Inv, Types
<1>3. CASE Work /\ recvState # "IDLE"
  <2>1. UNCHANGED <<recvState, recvHdr, recvData, rx, handled, made, inq, epIn,
                    token>>
    BY <1>3 DEF Work, driver, bus, phone
  <2>2. Same(epIn', epIn)
    BY <2>1 DEF Same
  <2> QED
    BY <1>1, <2>1, <2>2, ReceiveKept DEF ReceiveInvariant, InTransfer
<1>4. CASE Work /\ recvState = "IDLE"
  <2>1. /\ recvState' = "START" /\ handled' = recvHdr.id
        /\ UNCHANGED <<recvHdr, recvData, rx, made, inq, epIn, token>>
    BY <1>4 DEF Work, driver, bus, phone
  <2>2. handled' = handled + 1 /\ HeaderNext(inq, made, handled + 2)
    BY <1>4, <2>1 DEF ReceiveInvariant, InTransfer, ReceivedIntact
  <2>3. HeaderNext(inq, made, handled + 1)'
    BY <1>2, <2>1, <2>2 DEF HeaderNext
  <2>4. InTransfer'
    BY <1>4, <2>1, <2>3 DEF ReceiveInvariant, InTransfer, Moving
  <2>5. StreamTo(inq, made)' /\ ReceiveTypes' /\ ReceivedIntact'
    BY <1>2, <2>1, <2>2 DEF ReceiveInvariant, StreamTo, ReceiveTypes,
       ReceivedIntact
  <2> QED
    BY <1>1, <2>4, <2>5 DEF ReceiveInvariant
<1>5. CASE Restart
  <2>1. /\ recvState' = "START" /\ handled' = made /\ made' = made
        /\ inq' = <<>> /\ token' = "none" /\ ~rx'.busy
        /\ recvHdr' = Nothing /\ recvData' = Nothing
    BY <1>5 DEF Restart
  <2>2. StreamTo(inq, made)'
    <3>1. Len(inq') = 0
      BY <2>1
    <3> QED
      BY <2>1, <3>1 DEF StreamTo
  <2>3. ReceiveTypes' /\ ReceivedIntact'
    BY <1>2, <2>1, NothingType DEF ReceiveTypes, ReceivedIntact
  <2>4. HeaderNext(inq, made, handled + 1)'
    BY <2>1 DEF HeaderNext
  <2>5. InTransfer'
    BY <2>1, <2>4 DEF InTransfer, Moving
  <2> QED
    BY <1>1, <2>2, <2>3, <2>5 DEF ReceiveInvariant
<1> QED
  BY <1>3, <1>4, <1>5

LEMMA ReceiveMore == ReceiveInvariant /\ PhoneSends => ReceiveInvariant'
<1> SUFFICES ASSUME ReceiveInvariant, PhoneSends PROVE ReceiveInvariant'
  OBVIOUS
<1>1. Inv'
  BY PhoneInv DEF ReceiveInvariant
<1>2. UNCHANGED <<recvState, recvHdr, recvData, rx, handled, epIn, token>>
      /\ made' = made + 1
  BY DEF PhoneSends, Interrupt, packet, driver, bus
<1>3. /\ made \in Nat /\ made + 1 \in 0 .. MaxPackets /\ handled \in Nat
      /\ inq \in Seq(Contents) /\ dev.taken \in 0 .. MaxPackets
  BY PacketAssumption DEF ReceiveInvariant, ReceiveTypes, Inv, Types, PhoneSends
<1>4. PICK n \in RecvLens, f \in Faults \union {"none"} :
         LET h == Header(made + 1, dev.taken, n, f) IN
         /\ f = "short" => n > 1
         /\ f = "checksum" => n > 0
         /\ f = "magic" => n = 0
         /\ inq' = inq \o IF n = 0 THEN <<h>> ELSE <<h, DataOf(h)>>
  BY DEF PhoneSends
<1> DEFINE h == Header(made + 1, dev.taken, n, f)
           p == IF h.len = 0 THEN <<h>> ELSE <<h, DataOf(h)>>
<1>5. h.len = n /\ h.fault = f /\ h.id = made + 1 /\ h.part = "header"
      /\ h.size = 1
  BY HeaderFields
<1>6. h \in Contents
  BY <1>3, HeaderType
<1>7. inq' = inq \o p
  BY <1>4, <1>5
<1>8. Fit(h)
  BY <1>4, <1>5 DEF Fit
<1> HIDE DEF h
<1>9. /\ StreamTo(inq, made)' /\ inq' # <<>>
      /\ IF inq = <<>> THEN Head(inq') = h ELSE Head(inq') = Head(inq)
  BY <1>2, <1>3, <1>5, <1>6, <1>7, <1>8, StreamAdd DEF ReceiveInvariant
<1>10. \A m \in Nat : HeaderNext(inq, made, m) => HeaderNext(inq', made', m)
  BY <1>2, <1>5, <1>9 DEF HeaderNext
<1>11. \A g, k : DataNext(inq, g, k) => DataNext(inq', g, k)
  BY <1>9 DEF DataNext
<1>12. handled + 1 \in Nat /\ handled + 2 \in Nat
  BY <1>3
<1>13. HeaderTransfer => HeaderTransfer'
  BY <1>2, <1>10, <1>11, <1>12 DEF HeaderTransfer
<1>14. DataTransfer => DataTransfer'
  BY <1>2, <1>10, <1>11, <1>12 DEF DataTransfer
<1>15. InTransfer'
  BY <1>2, <1>10, <1>12, <1>13, <1>14 DEF ReceiveInvariant, InTransfer
<1>16. ReceiveTypes' /\ ReceivedIntact'
  BY <1>2 DEF ReceiveInvariant, ReceiveTypes, ReceivedIntact
<1> QED
  BY <1>1, <1>9, <1>15, <1>16 DEF ReceiveInvariant

\* ADBPacketRecvTasks starts a read (adb_packet.c:138-205).
LEMMA ReceiveReads ==
    ASSUME ReceiveInvariant, NEW max \in Nat, NEW next,
           pc = "recv", StartRead(max, next), ~rx.busy
    PROVE  \/ recvState' = "ERROR" /\ ~rx'.busy
           \/ /\ recvState' = next /\ rx'.busy
              /\ epIn'.max = max /\ epIn'.count = 0 /\ ~epIn'.successful
<1>1. epIn \in Endpoint
  BY DEF ReceiveInvariant, Inv, Types
<1>2. CASE rx.busy \/ ~Accepts(epIn)
  BY <1>2 DEF StartRead
<1>3. CASE ~(rx.busy \/ ~Accepts(epIn))
  <2>1. /\ recvState' = next /\ rx' = [rx EXCEPT !.busy = TRUE, !.length = 0]
        /\ epIn' = Filled(epIn, max, Nothing)
    BY <1>3 DEF StartRead
  <2>2. /\ epIn'.max = max /\ epIn'.count = 0 /\ ~epIn'.successful
    BY <1>1, <2>1, NothingType, FilledFields
  <2>3. rx'.busy
    BY <2>1 DEF ReceiveInvariant, Inv, Types
  <2> QED
    BY <2>1, <2>2, <2>3
<1> QED
  BY <1>2, <1>3

LEMMA ReceiveGoesOn == ReceiveInvariant /\ RecvTasks => ReceiveInvariant'
<1> SUFFICES ASSUME ReceiveInvariant, RecvTasks PROVE ReceiveInvariant'
  OBVIOUS
<1> DEFINE ended == recvState \in {"WAIT_HEADER", "WAIT_DATA"} /\ ~rx.busy
<1>1. Inv'
  BY RecvInv DEF ReceiveInvariant
<1>2. UNCHANGED <<handled, made, inq, token>> /\ pc = "recv"
  BY DEF RecvTasks, phone
<1>3. /\ handled \in Nat /\ epIn.buf \in Contents /\ recvHdr \in Contents
      /\ epIn.count \in Nat
  BY DEF ReceiveInvariant, ReceiveTypes, Inv, Types, Endpoint
<1>4. StreamTo(inq, made)' /\ ReceiveTypes'
  BY <1>2, <1>3 DEF RecvTasks, ReceiveInvariant, StreamTo, ReceiveTypes
<1>5. ~rx.busy => token # "IN"
  BY DEF ReceiveInvariant, InTransfer, Inv, Flags
<1>6. ASSUME recvState' = "ERROR", ~rx'.busy, token' # "IN"
      PROVE  ReceiveInvariant'
  <2>1. InTransfer' /\ ReceivedIntact'
    BY <1>6 DEF InTransfer, ReceivedIntact, Moving
  <2> QED
    BY <1>1, <1>4, <2>1 DEF ReceiveInvariant
<1>7. CASE recvState = "START"
  <2>1. StartRead(1, "WAIT_HEADER") /\ ~rx.busy
    BY <1>7 DEF RecvTasks, ReceiveInvariant, Inv, Flags
  <2>2. HeaderNext(inq, made, handled + 1)'
    BY <1>2, <1>7 DEF ReceiveInvariant, InTransfer
  <2>3. ASSUME recvState' = "WAIT_HEADER", rx'.busy, epIn'.max = 1,
               epIn'.count = 0, ~epIn'.successful
        PROVE  ReceiveInvariant'
    <3>1. HeaderTransfer'
      BY <2>2, <2>3 DEF HeaderTransfer
    <3>2. InTransfer' /\ ReceivedIntact'
      BY <1>2, <1>5, <2>1, <2>3, <3>1 DEF InTransfer, ReceivedIntact, Moving
    <3> QED
      BY <1>1, <1>4, <3>2 DEF ReceiveInvariant
  <2> QED
    BY <1>2, <1>5, <1>6, <2>1, <2>3, ReceiveReads
<1>8. CASE recvState # "START" /\ ~ended
  <2>1. UNCHANGED <<recvState, recvHdr, recvData, rx, handled, made, inq, epIn,
                    token>>
    BY <1>2, <1>8 DEF RecvTasks
  <2>2. Same(epIn', epIn)
    BY <2>1 DEF Same
  <2> QED
    BY <1>1, <2>1, <2>2, ReceiveKept DEF ReceiveInvariant, InTransfer
<1>9. CASE ended /\ Refuses
  <2>1. recvState' = "ERROR" /\ rx' = rx
    BY <1>9 DEF RecvTasks
  <2> QED
    BY <1>2, <1>5, <1>6, <1>9, <2>1
<1>10. CASE ended /\ ~Refuses /\ recvState = "WAIT_HEADER"
  <2>1. /\ HeaderTransfer /\ epIn.successful
    BY <1>10 DEF ReceiveInvariant, InTransfer, Refuses, Moving
  <2>2. /\ Fit(epIn.buf) /\ epIn.buf.id = handled + 1
        /\ IF epIn.buf.len = 0 THEN HeaderNext(inq, made, handled + 2)
           ELSE DataNext(inq, epIn.buf, 0)
    BY <2>1 DEF HeaderTransfer
  <2>3. recvHdr' = epIn.buf /\ epIn.buf.len \in Nat
    BY <1>3, <1>10, LenType DEF RecvTasks
  <2>4. CASE epIn.buf.len > 0
    <3>1. StartRead(epIn.buf.len, "WAIT_DATA")
      BY <1>10, <2>4 DEF RecvTasks
    <3>2. ASSUME recvState' = "WAIT_DATA", rx'.busy,
                 epIn'.max = epIn.buf.len, epIn'.count = 0, ~epIn'.successful
          PROVE  ReceiveInvariant'
      <4>1. DataNext(inq, recvHdr, 0)'
        BY <1>2, <2>2, <2>3, <2>4
      <4>2. DataTransfer'
        BY <1>2, <2>2, <2>3, <2>4, <3>2, <4>1 DEF DataTransfer, DataNext
      <4>3. InTransfer' /\ ReceivedIntact'
        BY <1>2, <1>5, <1>10, <3>2, <4>2 DEF InTransfer, ReceivedIntact, Moving
      <4> QED
        BY <1>1, <1>4, <4>3 DEF ReceiveInvariant
    <3> QED
      BY <1>2, <1>5, <1>6, <1>10, <2>3, <3>1, <3>2, ReceiveReads
  <2>5. CASE epIn.buf.len = 0
    <3>1. recvState' = "IDLE" /\ rx' = rx
      BY <1>10, <2>5 DEF RecvTasks
    <3>2. epIn.buf.fault # "magic"
      BY <1>10 DEF Refuses, BadHeader
    <3>3. epIn.buf.fault = "none"
      <4>1. epIn.buf.fault \in {"none", "magic", "checksum", "short"}
        BY <1>3, PacketAssumption DEF Contents
      <4> QED
        BY <2>2, <2>5, <3>2, <4>1 DEF Fit
    <3>4. ReceivedIntact'
      BY <1>2, <2>2, <2>3, <2>5, <3>3 DEF ReceivedIntact
    <3>5. InTransfer'
      BY <1>2, <1>5, <1>10, <2>2, <2>5, <3>1 DEF InTransfer, Moving, HeaderNext
    <3> QED
      BY <1>1, <1>4, <3>4, <3>5 DEF ReceiveInvariant
  <2> QED
    BY <2>3, <2>4, <2>5
<1>11. CASE ended /\ ~Refuses /\ recvState = "WAIT_DATA"
  <2>1. /\ recvState' = "IDLE" /\ rx' = rx /\ recvHdr' = recvHdr
        /\ recvData' = epIn.buf
    BY <1>11 DEF RecvTasks
  <2>2. /\ DataTransfer /\ epIn.successful /\ rx.length = epIn.count
    BY <1>11 DEF ReceiveInvariant, InTransfer, Refuses, Moving
  <2>3. epIn.count = recvHdr.len /\ epIn.buf.fault # "checksum"
    BY <1>11, <2>2 DEF Refuses, BadData
  <2>4. /\ Fit(recvHdr) /\ recvHdr.id = handled + 1 /\ recvHdr.len > 0
        /\ recvHdr.fault # "short" /\ PartOf(epIn.buf, recvHdr)
        /\ HeaderNext(inq, made, handled + 2)
    BY <2>2, <2>3 DEF DataTransfer
  <2>5. epIn.buf.fault = recvHdr.fault
    BY <1>3, <2>4, DataFields DEF PartOf, DataOf, Contents
  <2>6. recvHdr.fault = "none"
    <3>1. recvHdr.fault \in {"none", "magic", "checksum", "short"}
      BY <1>3, PacketAssumption DEF Contents
    <3> QED
      BY <1>3, <2>3, <2>4, <2>5, <3>1, LenType DEF Fit
  <2>7. ReceivedIntact'
    BY <1>2, <2>1, <2>4, <2>6 DEF ReceivedIntact, PartOf
  <2>8. InTransfer'
    BY <1>2, <1>5, <1>11, <2>1, <2>4 DEF InTransfer, Moving, HeaderNext
  <2> QED
    BY <1>1, <1>4, <2>7, <2>8 DEF ReceiveInvariant
<1> QED
  BY <1>7, <1>8, <1>9, <1>10, <1>11

LEMMA ReceiveInterrupted ==
    ReceiveInvariant /\ (Sof \/ OutAck \/ Nak \/ BusError) => ReceiveInvariant'
<1> SUFFICES ASSUME ReceiveInvariant, Sof \/ OutAck \/ Nak \/ BusError
             PROVE  ReceiveInvariant'
  OBVIOUS
<1>1. Inv'
  BY SofInv, OutAckInv, NakInv, BusErrorInv DEF ReceiveInvariant
<1>2. UNCHANGED <<recvState, recvHdr, recvData, rx, handled, made, inq>>
  BY DEF Sof, OutAck, Nak, BusError, Interrupt, packet, driver, phone
<1>3. epIn \in Endpoint /\ epOut \in Endpoint
  BY DEF ReceiveInvariant, Inv, Types
<1>4. ASSUME NEW i \in Endpoint, NEW o \in Endpoint, FindNextToken(i, o),
             Same(i, epIn)
      PROVE  ReceiveInvariant'
  <2>1. /\ Same(epIn', i)
        /\ token' = "IN" => ~epIn'.complete /\ epIn'.stage = "DATA"
    BY <1>4, FindSame
  <2>2. Same(epIn', epIn)
    BY <1>4, <2>1 DEF Same
  <2> QED
    BY <1>1, <1>2, <2>1, <2>2, ReceiveKept
<1>5. CASE Sof
  <2> DEFINE i == [epIn EXCEPT !.nakd = FALSE]
             o == [epOut EXCEPT !.nakd = FALSE]
  <2>1. /\ i \in Endpoint /\ o \in Endpoint /\ Same(i, epIn)
        /\ i.complete = epIn.complete /\ i.stage = epIn.stage
    BY <1>3 DEF Endpoint, Same
  <2>2. FindNextToken(i, o) \/ (epIn' = i /\ UNCHANGED token)
    BY <1>5 DEF Sof
  <2> HIDE DEF i, o
  <2>3. CASE epIn' = i /\ UNCHANGED token
    BY <1>1, <1>2, <2>1, <2>3, ReceiveKept DEF ReceiveInvariant, InTransfer
  <2> QED
    BY <1>4, <2>1, <2>2, <2>3
<1>6. CASE Nak
  <2> DEFINE i == [epIn EXCEPT !.nakd = TRUE]
             o == [epOut EXCEPT !.nakd = TRUE]
  <2>1. /\ i \in Endpoint /\ o \in Endpoint /\ Same(i, epIn)
        /\ Same(epIn, epIn)
    BY <1>3 DEF Endpoint, Same
  <2>2. FindNextToken(epIn, o) \/ FindNextToken(i, epOut)
    BY <1>6 DEF Nak
  <2> HIDE DEF i, o
  <2> QED
    BY <1>3, <1>4, <2>1, <2>2
<1>7. CASE BusError
  <2> DEFINE i == [epIn EXCEPT !.failed = TRUE, !.stage = "ERROR"]
             o == [epOut EXCEPT !.failed = TRUE, !.stage = "ERROR"]
  <2>1. /\ i \in Endpoint /\ o \in Endpoint /\ Same(i, epIn)
        /\ Same(epIn, epIn)
    BY <1>3 DEF Endpoint, Same
  <2>2. FindNextToken(epIn, o) \/ FindNextToken(i, epOut)
    BY <1>7 DEF BusError
  <2> HIDE DEF i, o
  <2> QED
    BY <1>3, <1>4, <2>1, <2>2
<1>8. CASE OutAck
  <2> DEFINE s == Least(MaxPacketSize, epOut.max - epOut.count)
  <2>1. FindNextToken(epIn, Moved(epOut, s, epOut.buf))
    BY <1>8 DEF OutAck
  <2>2. epOut.count \in Nat /\ epOut.max \in Nat /\ epOut.buf \in Contents
    BY <1>3 DEF Endpoint
  <2>3. epOut.count <= epOut.max
    BY DEF ReceiveInvariant, Inv, Types
  <2>4. s \in Nat
    BY <2>2, <2>3, PacketAssumption DEF Least
  <2> HIDE DEF s
  <2>5. Moved(epOut, s, epOut.buf) \in Endpoint /\ Same(epIn, epIn)
    BY <1>3, <2>2, <2>4, MovedType DEF Same
  <2> QED
    BY <1>3, <1>4, <2>1, <2>5
<1> QED
  BY <1>5, <1>6, <1>7, <1>8

\* PID_DATA: what is read goes on with what was read before, or is refused when
\* the transfer is looked at (usb_host.c:5603-5690).
LEMMA ReceiveTaken == ReceiveInvariant /\ InData => ReceiveInvariant'
<1> SUFFICES ASSUME ReceiveInvariant, InData PROVE ReceiveInvariant'
  OBVIOUS
<1> DEFINE c == Head(inq)
           s == Least(MaxPacketSize, c.size)
           rest == [c EXCEPT !.size = @ - s]
           mixed == epIn.count > 0 /\ epIn.buf.id # c.id
           buf == IF mixed THEN [c EXCEPT !.fault = "checksum"] ELSE c
           m == Moved(epIn, s, buf)
           full == s < MaxPacketSize \/ epIn.count + s >= epIn.max
           h == recvHdr
<1>1. Inv'
  BY InDataInv DEF ReceiveInvariant
<1>2. UNCHANGED <<recvState, recvHdr, recvData, rx, handled, made>>
  BY DEF InData, Interrupt, packet, driver
<1>3. /\ epIn \in Endpoint /\ epOut \in Endpoint
      /\ epIn.count \in Nat /\ epIn.max \in Nat
      /\ inq \in Seq(Contents) /\ inq # <<>> /\ StreamTo(inq, made)
      /\ made \in Nat /\ handled \in Nat /\ h \in Contents
  BY DEF ReceiveInvariant, ReceiveTypes, Inv, Types, Endpoint, InData
<1>4. /\ c \in Contents /\ c.size \in Nat /\ c.size > 0 /\ c.len \in Nat
      /\ c.part = "header" => Fit(c)
      /\ Tail(inq) \in Seq(Contents)
  <2>1. c \in Contents /\ c = inq[1] /\ 1 \in 1 .. Len(inq)
        /\ Tail(inq) \in Seq(Contents)
    BY <1>3
  <2>2. c.size > 0 /\ (c.part = "header" => Fit(c))
    BY <1>3, <2>1 DEF StreamTo
  <2> HIDE DEF c
  <2> QED
    BY <2>1, <2>2, LenType DEF Contents
<1>5. /\ s \in Nat /\ s > 0 /\ s <= c.size /\ c.size - s \in Nat
      /\ s < MaxPacketSize => s = c.size
      /\ c.size = 1 => s = 1 /\ s < MaxPacketSize
  BY <1>4, PacketAssumption DEF Least
<1>6. /\ FindNextToken(m, epOut)
      /\ inq' = IF rest.size = 0 THEN Tail(inq) ELSE <<rest>> \o Tail(inq)
  BY DEF InData
<1> HIDE DEF c, s
<1>7. /\ rest \in Contents /\ rest.size = c.size - s /\ rest.part = c.part
      /\ rest.id = c.id
      /\ buf \in Contents /\ buf.id = c.id
      /\ mixed => buf.fault = "checksum"
      /\ ~mixed => buf = c
  BY <1>4, <1>5 DEF Contents
<1> HIDE DEF buf
<1>8. /\ m.buf = buf /\ m.count = epIn.count + s /\ m.max = epIn.max
      /\ IF full THEN m.successful /\ m.stage = "COMPLETE"
         ELSE m.successful = epIn.successful /\ m.stage = epIn.stage
  <2>1. epIn \in Endpoint /\ s \in Nat /\ buf \in Contents
    BY <1>3, <1>5, <1>7
  <2> HIDE DEF mixed, rest
  <2> QED
    BY <2>1, MovedFields, Zenon
<1>9. m \in Endpoint
  BY <1>3, <1>5, <1>7, MovedType
<1>10. /\ ~epIn.successful /\ recvState \in Moving /\ rx.busy
       /\ epIn.stage = "DATA"
  BY DEF ReceiveInvariant, InTransfer, InData, Inv, Flags
<1> HIDE DEF m, full
<1>11. /\ epIn'.buf = buf /\ epIn'.count = epIn.count + s
       /\ epIn'.max = epIn.max
       /\ epIn'.successful <=> full
       /\ epIn'.stage = "DATA" => ~full
       /\ token' = "IN" => ~epIn'.complete /\ epIn'.stage = "DATA"
  <2>1. /\ Same(epIn', m)
        /\ token' = "IN" => ~epIn'.complete /\ epIn'.stage = "DATA"
    BY <1>3, <1>6, <1>9, FindSame
  <2> QED
    BY <1>8, <1>10, <2>1 DEF Same
<1> HIDE DEF mixed, rest
<1>12. StreamTo(inq, made)'
  <2>1. CASE rest.size = 0
    BY <1>2, <1>3, <1>6, <2>1, StreamRead
  <2>2. CASE rest.size # 0
    <3>1. c.part = "data"
      <4>1. c.part # "header"
        BY <1>4, <1>5, <1>7, <2>2 DEF Fit
      <4> QED
        BY <1>4, <4>1 DEF Contents
    <3> QED
      BY <1>2, <1>3, <1>4, <1>5, <1>6, <1>7, <2>2, <3>1, StreamCut DEF c
  <2> QED
    BY <2>1, <2>2
<1>13. /\ rest.size = 0 /\ Closes(c) => HeaderNext(inq', made, c.id + 1)
       /\ rest.size = 0 /\ ~Closes(c) =>
            /\ inq' # <<>>
            /\ c.part = "header" => Head(inq') = DataOf(c)
       /\ rest.size # 0 => inq' # <<>> /\ Head(inq') = rest
  <2>1. CASE rest.size = 0
    BY <1>3, <1>6, <2>1, StreamRead DEF c
  <2>2. CASE rest.size # 0
    BY <1>3, <1>4, <1>6, <1>7, <2>2
  <2> QED
    BY <2>1, <2>2
<1>14. ReceiveTypes' /\ ReceivedIntact'
  BY <1>2, <1>10 DEF ReceiveInvariant, ReceiveTypes, ReceivedIntact, Moving
<1>15. CASE recvState = "WAIT_HEADER"
  <2>1. /\ epIn.max = 1 /\ epIn.count = 0
        /\ c.part = "header" /\ c.id = handled + 1
    BY <1>3, <1>10, <1>15
    DEF ReceiveInvariant, InTransfer, HeaderTransfer, HeaderNext, c
  <2>2. Fit(c) /\ c.size = 1 /\ s = 1 /\ rest.size = 0 /\ full /\ buf = c
    BY <1>4, <1>5, <1>7, <2>1 DEF Fit, full, mixed
  <2>3. IF c.len = 0 THEN HeaderNext(inq', made, handled + 2)
        ELSE DataNext(inq', c, 0)
    <3>1. CASE c.len = 0
      <4>1. c.id + 1 = handled + 2
        BY <1>3, <2>1
      <4> QED
        BY <1>13, <2>2, <3>1, <4>1 DEF Closes
    <3>2. CASE c.len # 0
      <4>1. /\ inq' # <<>> /\ Head(inq') = DataOf(c)
        BY <1>13, <2>1, <2>2, <3>2 DEF Closes
      <4>2. DataOf(c).size \in Nat /\ DataOf(c).size > 0
        BY <1>4, <2>2, <3>2, DataFields DEF Fit
      <4>3. DataOf(c) \in Contents
        BY <1>4, <2>2, DataType DEF Fit
      <4>4. DataOf(c) = [DataOf(c) EXCEPT !.size = @ - 0]
        BY <4>2, <4>3 DEF Contents
      <4> QED
        BY <3>2, <4>1, <4>2, <4>4 DEF DataNext
    <3> QED
      BY <3>1, <3>2
  <2>4. HeaderTransfer'
    BY <1>2, <1>11, <2>1, <2>2, <2>3 DEF HeaderTransfer
  <2>5. InTransfer'
    BY <1>2, <1>10, <1>11, <1>15, <2>4 DEF InTransfer, Moving
  <2> QED
    BY <1>1, <1>12, <1>14, <2>5 DEF ReceiveInvariant
<1>16. CASE recvState = "WAIT_DATA"
  <2>1. /\ Fit(h) /\ h.id = handled + 1 /\ h.len > 0 /\ epIn.max = h.len
        /\ epIn.count > 0 => epIn.buf.id = h.id
        /\ IF epIn.count < DataOf(h).size
             THEN DataNext(inq, h, epIn.count)
           ELSE /\ h.fault = "short" /\ epIn.count = h.len - 1
                /\ HeaderNext(inq, made, handled + 2)
    BY <1>10, <1>16 DEF ReceiveInvariant, InTransfer, DataTransfer
  <2>2. /\ h.len \in Nat /\ DataOf(h) \in Contents
        /\ DataOf(h).id = h.id /\ DataOf(h).part = "data"
        /\ DataOf(h).fault = h.fault /\ DataOf(h).len = h.len
        /\ DataOf(h).size = IF h.fault = "short" THEN h.len - 1 ELSE h.len
    BY <1>3, <2>1, LenType, DataType, DataFields DEF Fit
  <2>3. SUFFICES DataTransfer'
    <3>1. InTransfer'
      BY <1>2, <1>10, <1>11, <1>16, <2>3 DEF InTransfer, Moving
    <3> QED
      BY <1>1, <1>12, <1>14, <3>1 DEF ReceiveInvariant
  <2> HIDE DEF h
  <2>4. CASE epIn.count < DataOf(h).size
    <3>1. c = [DataOf(h) EXCEPT !.size = @ - epIn.count]
      BY <2>1, <2>4 DEF DataNext, c
    <3>2. /\ c.part = "data" /\ c.id = h.id /\ PartOf(c, h)
          /\ c.size = DataOf(h).size - epIn.count
      BY <2>2, <3>1 DEF PartOf, Contents
    <3>3. buf = c /\ Closes(c)
      BY <1>7, <2>1, <3>2 DEF mixed, Closes
    <3>4. c.id + 1 = handled + 2
      BY <1>3, <2>1, <3>2
    <3>5. CASE epIn.count + s = DataOf(h).size
      <4>1. rest.size = 0
        BY <1>3, <1>5, <1>7, <2>2, <3>2, <3>5
      <4>2. HeaderNext(inq', made, handled + 2)
        BY <1>13, <3>3, <3>4, <4>1
      <4>3. CASE h.fault = "short"
        <5>1. /\ epIn'.count = h.len - 1 /\ epIn'.count # h.len
              /\ ~(epIn'.count < DataOf(h).size)
          BY <1>11, <2>2, <3>5, <4>3
        <5> QED
          BY <1>2, <1>11, <2>1, <3>2, <3>3, <4>2, <4>3, <5>1
          DEF DataTransfer, h
      <4>4. CASE h.fault # "short"
        <5>1. full
          BY <1>3, <1>5, <2>1, <2>2, <3>5, <4>4 DEF full
        <5> QED
          BY <1>2, <1>11, <2>1, <2>2, <3>2, <3>3, <3>5, <4>2, <4>4, <5>1
          DEF DataTransfer, h
      <4> QED
        BY <4>3, <4>4
    <3>6. CASE epIn.count + s # DataOf(h).size
      <4>1. /\ epIn.count + s < DataOf(h).size /\ ~full /\ rest.size # 0
        BY <1>3, <1>5, <1>7, <2>1, <2>2, <3>2, <3>6 DEF full
      <4>2. rest = [DataOf(h) EXCEPT !.size = @ - (epIn.count + s)]
        <5>1. rest = [c EXCEPT !.size = @ - s]
          BY DEF rest
        <5>2. (DataOf(h).size - epIn.count) - s
                = DataOf(h).size - (epIn.count + s)
          BY <1>3, <1>5, <2>2
        <5> QED
          BY <2>2, <3>1, <5>1, <5>2 DEF Contents
      <4>3. DataNext(inq', h, epIn.count + s)
        BY <1>13, <4>1, <4>2 DEF DataNext
      <4> QED
        BY <1>2, <1>11, <2>1, <3>2, <3>3, <4>1, <4>3 DEF DataTransfer, h
    <3> QED
      BY <3>5, <3>6
  <2>5. CASE ~(epIn.count < DataOf(h).size)
    <3>1. /\ h.fault = "short" /\ epIn.count = h.len - 1
          /\ c.part = "header" /\ c.id = handled + 2
      BY <1>3, <2>1, <2>5 DEF HeaderNext, c
    <3>2. mixed /\ s = 1 /\ full
      BY <1>3, <1>4, <1>5, <2>1, <2>2, <3>1 DEF mixed, full, Fit
    <3>3. epIn'.successful /\ epIn'.buf.fault = "checksum"
      BY <1>7, <1>11, <3>2
    <3> QED
      BY <1>2, <1>11, <2>1, <3>1, <3>3 DEF DataTransfer, h
  <2> QED
    BY <2>4, <2>5
<1> QED
  BY <1>10, <1>15, <1>16 DEF Moving

LEMMA ReceiveNext == ReceiveInvariant /\ [Next]_vars => ReceiveInvariant'
<1> SUFFICES ASSUME ReceiveInvariant, [Next]_vars PROVE ReceiveInvariant'
  OBVIOUS
<1>1. CASE UNCHANGED vars
  BY <1>1, NextInv, ReceiveKept
  DEF vars, packet, driver, bus, phone, ReceiveInvariant, InTransfer, Same
<1> QED
  BY <1>1, ReceiveLooks, ReceiveArmed, ReceivePolled, ReceiveStarts,
     ReceiveMore, ReceiveGoesOn, ReceiveInterrupted, ReceiveTaken
  DEF Next, Loop

\* A packet that is handed to ADBTasks is the one after the last, its header and
\* its data are of the same packet and neither is bad: also when data came short
\* and the next header was read into the same transfer, when a transfer failed
\* half way and when the device was reset (adb_packet.c:138-205).
THEOREM ReceivedPacketsAreIntact == Spec => []ReceivedIntact
<1>1. ReceiveInvariant => ReceivedIntact
  BY DEF ReceiveInvariant
<1> QED
  BY <1>1, ReceiveInit, ReceiveNext, PTL DEF Spec
=============================================================================
