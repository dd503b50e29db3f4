----------------------------- MODULE AdbProofs -----------------------------
(***************************************************************************)
(* What is proved of the ADB host (module Adb), for any number of channels,*)
(* openings, sessions, errors and packets in flight: its handles and its   *)
(* reception; then what it writes, acknowledges and delivers, and in which *)
(* order; and at the end of the main loop over it (module TPadMain), that  *)
(* it never mistakes a channel of an earlier session for its own.          *)
(***************************************************************************)
EXTENDS TPadMain, FiniteSetTheorems, TLAPS

\* A channel its client holds is in one of these states.
Live == {"START", "WAIT_OPEN", "IDLE", "WAIT_READY"}

\* What makes HeldIsLive inductive: a client that holds a channel did not close
\* it, and after an unplugging it holds none.
HeldInv ==
    /\ \A h \in Handles :
          Holds(h) => /\ adb_channels[h].state \in Live
                      /\ adb_channels[h].local = LocalId(app[h], h)
    /\ adb_state = "DISCONNECTED" => \A h \in Handles : ~Holds(h)

\* The reference count is the one reference of the reception itself.
CountInv ==
    /\ adb_buffer_refcount \in {0, 1}
    /\ ADBConnected => adb_buffer_refcount = 1

----------------------------------------------------------------------------
(* Types of the parts.                                                     *)

LEMMA PacketType ==
    ASSUME NEW cmd \in Commands, NEW a0 \in Ids, NEW a1 \in Ids, NEW d \in Data
    PROVE  Packet(cmd, a0, a1, d) \in Packets
BY DEF Packet, Packets

LEMMA ZeroTypes == 0 \in Ids /\ 0 \in LocalIds /\ 0 \in Data
BY AdbAssumption DEF Ids, LocalIds, Data

LEMMA SettledType ==
    ASSUME NEW st \in PortStates PROVE Settled(st) \in Ports
<1>1. NoPacket \in Packets
  BY PacketType, ZeroTypes DEF NoPacket, Commands
<1> QED BY <1>1 DEF Settled, Ports

LEMMA FreeType == Free \in Channels
BY ZeroTypes DEF Free, Channels, ChanStates

LEMMA SocketType == NoSocket \in Sockets
BY ZeroTypes DEF NoSocket, Sockets

LEMMA NextDataType ==
    ASSUME NEW d \in Data PROVE NextData(d) \in Data
BY AdbAssumption DEF NextData, Data

LEMMA LocalIdType ==
    ASSUME NEW n \in Opens, NEW h \in Handles
    PROVE  LocalId(n, h) \in LocalIds /\ LocalId(n, h) \in Ids
BY DEF LocalIds, Ids

\* What ADBChannelTasks sends for a channel is a packet, and what it leaves is
\* a channel.
LEMMA ServedType ==
    ASSUME NEW ch \in Channels
    PROVE  Message(ch) \in Packets /\ Served(ch) \in Channels
<1>1. ch.local \in Ids /\ ch.remote \in Ids /\ ch.data \in Data
  BY DEF Channels, Ids
<1>2. Message(ch) \in Packets
  BY <1>1, PacketType, ZeroTypes DEF Message, Commands
<1>3. Served(ch) \in Channels
  BY DEF Served, Channels, ChanStates
<1> QED BY <1>2, <1>3

LEMMA OnOkayType ==
    ASSUME NEW ch \in Channels, NEW r \in Ids
    PROVE  OnOkay(ch, r) \in Channels
BY ZeroTypes DEF OnOkay, Channels, ChanStates

\* The places after the last channel served are channels.
LEMMA AfterType ==
    ASSUME current_channel \in Handles, NEW i \in 1 .. MaxChannels
    PROVE  After(i) \in Handles
BY AdbAssumption DEF After, Handles
----------------------------------------------------------------------------
(* Type correctness.                                                       *)

\* The daemon's state when its session ends.
LEMMA PhoneLostType ==
    ASSUME TypeOK, PhoneLost
    PROVE  /\ adbd' \in [online : BOOLEAN, next : 1 .. MaxOpens + 1,
                         sockets : [Opens -> Sockets]]
           /\ toDev' \in Seq(Packets) /\ toHost' \in Seq(Packets)
<1> DEFINE none == [r \in Opens |-> NoSocket]
<1>1. none \in [Opens -> Sockets]
  BY SocketType
<1> HIDE DEF none
<1>2. adbd' = [adbd EXCEPT !.online = FALSE, !.sockets = none]
  BY DEF PhoneLost, none
<1>3. toDev' = <<>> /\ toHost' = <<>>
  BY DEF PhoneLost
<1>4. adbd \in [online : BOOLEAN, next : 1 .. MaxOpens + 1,
                sockets : [Opens -> Sockets]]
  BY DEF TypeOK
<1>5. adbd' \in [online : BOOLEAN, next : 1 .. MaxOpens + 1,
                 sockets : [Opens -> Sockets]]
  BY <1>1, <1>2, <1>4
<1> QED BY <1>3, <1>5

\* The client's state when it gives up channels.
LEMMA GiveUpType ==
    ASSUME TypeOK, NEW hs, GiveUp(hs)
    PROVE  /\ app' \in [Handles -> {0} \union Opens]
           /\ got' \in [Handles -> Data] /\ wrote' \in [Handles -> Data]
BY ZeroTypes DEF TypeOK, GiveUp

LEMMA NotifyType ==
    ASSUME TypeOK, NEW hs \in SUBSET Handles, NotifyClosed(hs)
    PROVE  calls' \subseteq Calls
<1>1. \A h \in hs : [h |-> h, local |-> adb_channels[h].local, data |-> 0]
                       \in Calls
  BY ZeroTypes DEF TypeOK, Calls, Channels
<1> QED BY <1>1 DEF NotifyClosed

LEMMA UnrefType ==
    ASSUME TypeOK, 0 < adb_buffer_refcount, NEW c, Unref(c)
    PROVE  adb_buffer_refcount' \in Nat /\ recvPort' \in Ports
<1>1. Settled("BUSY") \in Ports
  BY SettledType DEF PortStates
<1> QED BY <1>1 DEF TypeOK, Unref

\* The received packet.
LEMMA ReceivedType ==
    ASSUME TypeOK, NEW p, Received(p)
    PROVE  p \in Packets /\ 0 < adb_buffer_refcount
BY DEF TypeOK, Received, HasReceived, Ports

\* The client's calls keep the types (adb.c:257-295).
LEMMA ClientTypes == TypeOK /\ Client => TypeOK'
<1> SUFFICES ASSUME TypeOK, Client PROVE TypeOK'
  OBVIOUS
<1> USE DEF conn, host, port, owner, phone, count
<1>1. CASE ClientOpen
  <2> PICK h \in Handles :
         /\ ADBOpen(h)
         /\ app' = [app EXCEPT ![h] = local_id_counter]
         /\ got' = [got EXCEPT ![h] = 0] /\ wrote' = [wrote EXCEPT ![h] = 0]
    BY <1>1 DEF ClientOpen
  <2>1. local_id_counter \in Opens
    BY <1>1 DEF ClientOpen, TypeOK, Opens
  <2>2. LocalId(local_id_counter, h) \in LocalIds
    BY <2>1, LocalIdType
  <2>3. adb_channels' \in [Handles -> Channels]
    <3>1. Opened(adb_channels[h], LocalId(local_id_counter, h)) \in Channels
      BY <2>2, ZeroTypes DEF TypeOK, Opened, Channels, ChanStates
    <3> QED BY <3>1 DEF TypeOK, ADBOpen
  <2>4. local_id_counter' \in 1 .. MaxOpens + 1
    BY <2>1, AdbAssumption DEF ADBOpen, Opens
  <2>5. /\ app' \in [Handles -> {0} \union Opens]
        /\ got' \in [Handles -> Data] /\ wrote' \in [Handles -> Data]
    BY <2>1, ZeroTypes DEF TypeOK
  <2> QED BY <1>1, <2>3, <2>4, <2>5 DEF TypeOK, ClientOpen
<1>2. CASE ClientWrite
  <2> PICK h \in Handles : /\ ADBWrite(h, NextData(wrote[h]))
                           /\ wrote' = [wrote EXCEPT ![h] = NextData(@)]
    BY <1>2 DEF ClientWrite
  <2>1. NextData(wrote[h]) \in Data
    BY NextDataType DEF TypeOK
  <2>2. adb_channels' \in [Handles -> Channels] /\ wrote' \in [Handles -> Data]
    BY <2>1 DEF TypeOK, ADBWrite, Channels
  <2> QED BY <1>2, <2>2 DEF TypeOK, ClientWrite
<1>3. CASE ClientClose
  <2> PICK h \in Handles : ADBClose(h) /\ GiveUp({h})
    BY <1>3 DEF ClientClose
  <2>1. adb_channels' \in [Handles -> Channels]
    <3> DEFINE st == IF adb_channels[h].state = "FREE"
                       THEN adb_channels[h].state ELSE "CLOSE_REQUESTED"
    <3>1. adb_channels \in [Handles -> Channels]
      BY DEF TypeOK
    <3>2. st \in ChanStates
      BY <3>1 DEF Channels, ChanStates
    <3>3. [adb_channels[h] EXCEPT !.state = st] \in Channels
      BY <3>1, <3>2 DEF Channels
    <3>4. adb_channels' = [adb_channels EXCEPT
                             ![h] = [adb_channels[h] EXCEPT !.state = st]]
      BY <3>1 DEF ADBClose
    <3> HIDE DEF st
    <3> QED BY <3>1, <3>3, <3>4
  <2> QED BY <1>3, <2>1, GiveUpType DEF TypeOK, ClientClose
<1> QED BY <1>1, <1>2, <1>3 DEF Client

\* The bus keeps the types.
LEMMA BusTypes == TypeOK /\ (Attach \/ Detach \/ Bus) => TypeOK'
<1> SUFFICES ASSUME TypeOK, Attach \/ Detach \/ Bus PROVE TypeOK'
  OBVIOUS
<1> USE DEF conn, host, port, owner, phone, count
<1>0. \A st \in PortStates : Settled(st) \in Ports
  BY SettledType
<1>1. CASE Attach
  BY <1>1, AdbAssumption DEF TypeOK, Attach
<1>2. CASE Detach
  BY <1>2, PhoneLostType DEF TypeOK, Detach
<1>3. CASE SendDone
  <2>1. sendPort.pkt \in Packets
    BY DEF TypeOK, Ports
  <2> QED BY <1>0, <1>3, <2>1 DEF TypeOK, SendDone, PortStates
<1>4. CASE RecvDone
  <2>1. Head(toHost) \in Packets /\ Tail(toHost) \in Seq(Packets)
    BY <1>4 DEF TypeOK, RecvDone
  <2>2. recvPort' \in Ports
    BY <1>4, <2>1 DEF RecvDone, Ports, PortStates
  <2> QED BY <1>4, <2>1, <2>2 DEF TypeOK, RecvDone
<1>5. CASE SendFails
  BY <1>0, <1>5, AdbAssumption DEF TypeOK, SendFails, PortStates
<1>6. CASE RecvFails
  BY <1>0, <1>6, AdbAssumption DEF TypeOK, RecvFails, PortStates
<1> QED BY <1>1, <1>2, <1>3, <1>4, <1>5, <1>6 DEF Bus

\* Handling what was received keeps the types (adb.c:183-255, 318-329).
LEMMA ReceiveTypes == TypeOK /\ Receive => TypeOK'
<1> SUFFICES ASSUME TypeOK, Receive PROVE TypeOK'
  OBVIOUS
<1> USE DEF conn, host, port, owner, phone, count
<1> DEFINE p == recvPort.pkt
<1>0. ASSUME NEW c, 0 < adb_buffer_refcount, Unref(c)
      PROVE  adb_buffer_refcount' \in Nat /\ recvPort' \in Ports
  BY <1>0, UnrefType
<1>1. CASE ReceiveError
  <2>1. adb_buffer_refcount' \in Nat /\ recvPort' \in Ports
    BY <1>0, <1>1 DEF ReceiveError, HasReceived, TypeOK
  <2> QED BY <1>1, <2>1 DEF TypeOK, ReceiveError, ConnStates
<1>2. CASE HandleCnxn
  <2>1. adb_buffer_refcount' \in Nat /\ recvPort' \in Ports
    BY <1>0, <1>2, ReceivedType DEF HandleCnxn
  <2> QED BY <1>2, <2>1 DEF TypeOK, HandleCnxn, Received, ConnStates
<1>3. CASE HandleOkay
  <2>1. adb_buffer_refcount' \in Nat /\ recvPort' \in Ports
    BY <1>0, <1>3, ReceivedType DEF HandleOkay
  <2>2. p.arg0 \in Ids
    BY <1>3, ReceivedType DEF HandleOkay, Packets
  <2>3. \A h \in Handles : OnOkay(adb_channels[h], p.arg0) \in Channels
    BY <2>2, OnOkayType DEF TypeOK
  <2>4. adb_channels' \in [Handles -> Channels]
    BY <1>3, <2>3 DEF TypeOK, HandleOkay
  <2> QED BY <1>3, <2>1, <2>4 DEF TypeOK, HandleOkay, Received
<1>4. CASE HandleClse
  <2>1. adb_buffer_refcount' \in Nat /\ recvPort' \in Ports
    BY <1>0, <1>4, ReceivedType DEF HandleClse
  <2>2. PICK lost \in SUBSET Handles : NotifyClosed(lost)
    BY <1>4 DEF HandleClse, Addressed
  <2>3. \A h \in Handles : [adb_channels[h] EXCEPT !.state = "FREE"] \in Channels
    BY DEF TypeOK, Channels, ChanStates
  <2>4. adb_channels' \in [Handles -> Channels]
    BY <1>4, <2>3 DEF TypeOK, HandleClse
  <2>5. calls' \subseteq Calls
    BY <2>2, NotifyType
  <2>6. /\ app' \in [Handles -> {0} \union Opens]
        /\ got' \in [Handles -> Data] /\ wrote' \in [Handles -> Data]
    BY <2>2, GiveUpType DEF NotifyClosed
  <2> QED BY <1>4, <2>1, <2>4, <2>5, <2>6 DEF TypeOK, HandleClse, Received
<1>5. CASE HandleWrte
  <2>1. adb_buffer_refcount' \in Nat /\ recvPort' \in Ports
    BY <1>0, <1>5, ReceivedType DEF HandleWrte
  <2>2. p \in Packets
    BY <1>5, ReceivedType DEF HandleWrte
  <2>3. adb_channels' \in [Handles -> Channels]
    BY <1>5 DEF TypeOK, HandleWrte, Channels
  <2>4. \A h \in Addressed(p) : [h |-> h, local |-> p.arg1, data |-> p.data]
                                  \in Calls
    BY <2>2 DEF TypeOK, Addressed, Calls, Packets, Channels
  <2>5. calls' \subseteq Calls
    BY <1>5, <2>4 DEF HandleWrte
  <2>6. got' \in [Handles -> Data]
    BY <1>5, <2>2 DEF TypeOK, HandleWrte, Packets
  <2> QED BY <1>5, <2>1, <2>3, <2>5, <2>6 DEF TypeOK, HandleWrte, Received
<1>6. CASE HandleOther
  <2>1. adb_buffer_refcount' \in Nat /\ recvPort' \in Ports
    BY <1>0, <1>6, ReceivedType DEF HandleOther
  <2> QED BY <1>6, <2>1 DEF TypeOK, HandleOther, Received
<1> QED BY <1>1, <1>2, <1>3, <1>4, <1>5, <1>6 DEF Receive

\* So does the rest of a pass (adb.c:118-181, 331-356).
LEMMA SendTypes == TypeOK /\ Send => TypeOK'
<1> SUFFICES ASSUME TypeOK, Send PROVE TypeOK'
  OBVIOUS
<1> USE DEF conn, host, port, owner, phone, count, Returns
<1>1. CASE Connect
  <2>1. recvPort' \in Ports /\ adb_buffer_refcount' \in Nat
    BY <1>1, SettledType DEF Connect, StartRecv, PortStates
  <2>2. Packet("CNXN", 0, 0, 0) \in Packets
    BY PacketType, ZeroTypes DEF Commands
  <2>3. sendPort' \in Ports
    BY <1>1, <2>2 DEF Connect, StartSend, Ports, PortStates
  <2> QED BY <1>1, <2>1, <2>3 DEF TypeOK, Connect, ConnStates
<1>2. CASE AwaitConnect
  BY <1>2 DEF TypeOK, AwaitConnect
<1>3. CASE ServeChannel
  <2> PICK i \in PendingAt :
         LET h == After(i) IN
         /\ StartSend(Message(adb_channels[h]))
         /\ adb_channels' = [adb_channels EXCEPT ![h] = Served(@)]
         /\ current_channel' = h
    BY <1>3 DEF ServeChannel
  <2>1. After(i) \in Handles
    BY AfterType DEF TypeOK, PendingAt
  <2>2. adb_channels[After(i)] \in Channels
    BY <2>1 DEF TypeOK
  <2>3. sendPort' \in Ports
    BY <2>2, ServedType DEF StartSend, Ports, PortStates
  <2>4. adb_channels' \in [Handles -> Channels]
    BY <2>1, <2>2, ServedType DEF TypeOK
  <2> QED BY <1>3, <2>1, <2>3, <2>4 DEF TypeOK, ServeChannel
<1>4. CASE NothingToSend
  BY <1>4 DEF TypeOK, NothingToSend
<1>5. CASE SendError
  BY <1>5 DEF TypeOK, SendError, ConnStates
<1>6. CASE ADBReset
  <2>1. calls' \subseteq Calls
    BY <1>6, NotifyType DEF ADBReset
  <2>2. /\ app' \in [Handles -> {0} \union Opens]
        /\ got' \in [Handles -> Data] /\ wrote' \in [Handles -> Data]
    BY <1>6, GiveUpType DEF ADBReset, NotifyClosed
  <2> QED BY <1>6, <2>1, <2>2, FreeType, PhoneLostType
          DEF TypeOK, ADBReset, ConnStates
<1> QED BY <1>1, <1>2, <1>3, <1>4, <1>5, <1>6 DEF Send

\* And the daemon.
LEMMA DaemonTypes == TypeOK /\ (Answer \/ AdbdSend \/ AdbdClose) => TypeOK'
<1> SUFFICES ASSUME TypeOK, Answer \/ AdbdSend \/ AdbdClose PROVE TypeOK'
  OBVIOUS
<1> USE DEF conn, host, port, owner, phone, count, AdbdStep
<1> DEFINE p == Head(toDev)
           Daemon == [online : BOOLEAN, next : 1 .. MaxOpens + 1,
                      sockets : [Opens -> Sockets]]
<1> HIDE DEF Daemon
<1>0. ASSUME toDev # <<>>, AdbdReads(p)
      PROVE  /\ p \in Packets /\ p.arg0 \in Ids /\ p.arg1 \in Ids
             /\ p.data \in Data
             /\ toDev' \in Seq(Packets)
  <2>1. toDev \in Seq(Packets) /\ toDev # <<>> /\ toDev' = Tail(toDev)
    BY <1>0 DEF TypeOK, AdbdReads
  <2>2. p \in Packets /\ toDev' \in Seq(Packets)
    BY <2>1
  <2> QED BY <2>2 DEF Packets
<1>a. ASSUME NEW q \in Packets, Reply(q) PROVE toHost' \in Seq(Packets)
  BY <1>a DEF TypeOK, Reply
<1>b. adbd \in Daemon /\ adbd.sockets \in [Opens -> Sockets]
  BY DEF TypeOK, Daemon
<1>c. ASSUME NEW r \in Opens, NEW k \in Sockets
      PROVE  [adbd EXCEPT !.sockets[r] = k] \in Daemon
  BY <1>b DEF Daemon
<1>d. ASSUME adbd' \in Daemon, toHost' \in Seq(Packets),
             toDev' \in Seq(Packets), AdbdStep
      PROVE  TypeOK'
  BY <1>d DEF TypeOK, Daemon
<1> DEFINE Said(cmd, a0, a1, d) == Packet(cmd, a0, a1, d) \in Packets
<1>1. CASE AdbdCnxn
  <2>1. Packet("CNXN", 0, 0, 0) \in Packets /\ Packet("OTHER", 0, 0, 0) \in Packets
    BY PacketType, ZeroTypes DEF Commands
  <2>2. toHost' \in Seq(Packets)
    <3> DEFINE cnxn  == Packet("CNXN", 0, 0, 0)
               other == Packet("OTHER", 0, 0, 0)
    <3>1. toHost' = Append(toHost, cnxn) \/ toHost' = toHost \o <<other, cnxn>>
      BY <1>1 DEF AdbdCnxn
    <3> HIDE DEF cnxn, other
    <3>2. cnxn \in Packets /\ other \in Packets /\ toHost \in Seq(Packets)
      BY <2>1 DEF cnxn, other, TypeOK
    <3>3. <<other, cnxn>> \in Seq(Packets)
      BY <3>2
    <3>4. Append(toHost, cnxn) \in Seq(Packets)
      BY <3>2
    <3>5. toHost \o <<other, cnxn>> \in Seq(Packets)
      BY <3>2, <3>3
    <3> QED BY <3>1, <3>4, <3>5
  <2>3. adbd' \in Daemon
    BY <1>1, <1>b DEF AdbdCnxn, Daemon
  <2> QED BY <1>0, <1>1, <1>d, <2>2, <2>3 DEF AdbdCnxn, AdbdReads
<1>2. CASE AdbdOpen
  <2>0. adbd.next \in Opens /\ adbd.next \in Ids
    BY <1>2 DEF AdbdOpen, TypeOK, Opens, Ids
  <2>1. /\ Packet("OKAY", adbd.next, p.arg0, 0) \in Packets
        /\ Packet("CLSE", 0, p.arg0, 0) \in Packets
    BY <1>0, <1>2, <2>0, PacketType, ZeroTypes DEF Commands, AdbdOpen
  <2>2. toHost' \in Seq(Packets)
    BY <1>2, <1>a, <2>1 DEF AdbdOpen
  <2>3. [NoSocket EXCEPT !.local = p.arg0, !.open = TRUE] \in Sockets
    BY <1>0, <1>2, SocketType DEF AdbdOpen, Sockets
  <2>4. adbd' \in Daemon
    <3> DEFINE k == [NoSocket EXCEPT !.local = p.arg0, !.open = TRUE]
    <3>1. \/ UNCHANGED adbd
          \/ adbd' = [adbd EXCEPT !.next = adbd.next + 1,
                                  !.sockets[adbd.next] = k]
      BY <1>2 DEF AdbdOpen
    <3>2. adbd.next + 1 \in 1 .. MaxOpens + 1
      BY <2>0, AdbAssumption DEF Opens
    <3>3. k \in Sockets
      BY <2>3
    <3> HIDE DEF k
    <3>4. CASE UNCHANGED adbd
      BY <1>b, <3>4
    <3>5. CASE adbd' = [adbd EXCEPT !.next = adbd.next + 1,
                                    !.sockets[adbd.next] = k]
      <4> DEFINE n == adbd.next + 1
                 m == [adbd.sockets EXCEPT ![adbd.next] = k]
      <4>1. m \in [Opens -> Sockets]
        BY <1>b, <3>3
      <4>2. n \in 1 .. MaxOpens + 1
        BY <3>2
      <4>3. adbd' = [adbd EXCEPT !.next = n, !.sockets = m]
        BY <1>b, <3>5 DEF Daemon
      <4> HIDE DEF m, n
      <4> QED BY <1>b, <4>1, <4>2, <4>3 DEF Daemon
    <3> QED BY <3>1, <3>4, <3>5
  <2> QED BY <1>0, <1>2, <1>d, <2>2, <2>4 DEF AdbdOpen, AdbdReads
<1>3. CASE AdbdWrte
  <2>1. CASE IsOpen(p.arg1)
    <3>1. toHost' \in Seq(Packets)
      <4>1. Packet("OKAY", p.arg1, p.arg0, 0) \in Packets
        BY <1>0, <1>3, PacketType, ZeroTypes DEF Commands, AdbdWrte
      <4> QED BY <1>3, <1>a, <2>1, <4>1 DEF AdbdWrte
    <3>2. adbd' \in Daemon
      <4> DEFINE r == p.arg1
                 k == [adbd.sockets[r] EXCEPT !.read = p.data]
      <4>1. r \in Opens
        BY <2>1 DEF IsOpen
      <4>2. p.data \in Data
        BY <1>0, <1>3 DEF AdbdWrte
      <4>3. k \in Sockets
        BY <1>b, <4>1, <4>2 DEF Sockets
      <4>4. adbd' = [adbd EXCEPT !.sockets[r] = k]
        BY <1>3, <2>1 DEF AdbdWrte
      <4> HIDE DEF k
      <4> QED BY <1>c, <4>1, <4>3, <4>4
    <3> QED BY <1>0, <1>3, <1>d, <3>1, <3>2 DEF AdbdWrte, AdbdReads
  <2>2. CASE ~IsOpen(p.arg1)
    BY <1>0, <1>3, <1>b, <1>d, <2>2 DEF AdbdWrte, AdbdReads, TypeOK
  <2> QED BY <2>1, <2>2
<1>4. CASE AdbdOkay
  <2>1. adbd' \in Daemon
    BY <1>4, <1>b DEF AdbdOkay, IsOpen, Daemon, Sockets
  <2> QED BY <1>0, <1>4, <1>d, <2>1 DEF AdbdOkay, AdbdReads, TypeOK
<1>5. CASE AdbdClse
  <2>1. CASE IsOpen(p.arg1)
    <3>1. toHost' \in Seq(Packets)
      <4>1. Packet("CLSE", 0, p.arg0, 0) \in Packets
        BY <1>0, <1>5, PacketType, ZeroTypes DEF Commands, AdbdClse
      <4> QED BY <1>5, <1>a, <2>1, <4>1 DEF AdbdClse
    <3>2. adbd' \in Daemon
      BY <1>5, <1>c, <2>1, SocketType DEF AdbdClse, IsOpen
    <3> QED BY <1>0, <1>5, <1>d, <3>1, <3>2 DEF AdbdClse, AdbdReads
  <2>2. CASE ~IsOpen(p.arg1)
    BY <1>0, <1>5, <1>b, <1>d, <2>2 DEF AdbdClse, AdbdReads, TypeOK
  <2> QED BY <2>1, <2>2
<1>6. CASE AdbdSend
  <2> PICK r \in Opens :
        /\ Reply(Packet("WRTE", r, adbd.sockets[r].local,
                        NextData(adbd.sockets[r].sent)))
        /\ adbd' = [adbd EXCEPT !.sockets[r].sent = NextData(@),
                                !.sockets[r].unacked = TRUE]
    BY <1>6 DEF AdbdSend
  <2>1. NextData(adbd.sockets[r].sent) \in Data /\ adbd.sockets[r].local \in Ids
    BY <1>b, NextDataType DEF Sockets
  <2>2. toHost' \in Seq(Packets)
    <3>1. r \in Ids
      BY DEF Ids, Opens
    <3> QED BY <1>a, <2>1, <3>1, PacketType DEF Commands
  <2>3. adbd' \in Daemon
    <3> DEFINE k == [adbd.sockets[r] EXCEPT
                       !.sent = NextData(adbd.sockets[r].sent),
                       !.unacked = TRUE]
    <3>1. k \in Sockets
      BY <1>b, <2>1 DEF Sockets
    <3>2. adbd' = [adbd EXCEPT !.sockets[r] = k]
      BY <1>b
    <3> HIDE DEF k
    <3> QED BY <1>c, <3>1, <3>2
  <2> QED BY <1>6, <1>d, <2>2, <2>3 DEF AdbdSend, TypeOK
<1>7. CASE AdbdClose
  <2> PICK r \in Opens :
        /\ Reply(Packet("CLSE", 0, adbd.sockets[r].local, 0))
        /\ adbd' = [adbd EXCEPT !.sockets[r] = NoSocket]
    BY <1>7 DEF AdbdClose
  <2>1. Packet("CLSE", 0, adbd.sockets[r].local, 0) \in Packets
    BY <1>b, PacketType, ZeroTypes DEF Commands, Sockets
  <2>2. toHost' \in Seq(Packets) /\ adbd' \in Daemon
    BY <1>a, <1>c, <2>1, SocketType
  <2> QED BY <1>7, <1>d, <2>2 DEF AdbdClose, TypeOK
<1> QED BY <1>1, <1>2, <1>3, <1>4, <1>5, <1>6, <1>7 DEF Answer

LEMMA TypeInit == Init => TypeOK
<1> SUFFICES ASSUME Init PROVE TypeOK
  OBVIOUS
<1>1. NoPacket \in Packets
  BY PacketType, ZeroTypes DEF NoPacket, Commands
<1>2. sendPort \in Ports /\ recvPort \in Ports
  BY <1>1 DEF Init, Ports, PortStates
<1>3. /\ app \in [Handles -> {0} \union Opens]
      /\ got \in [Handles -> Data] /\ wrote \in [Handles -> Data]
  BY ZeroTypes DEF Init
<1>4. adbd \in [online : BOOLEAN, next : 1 .. MaxOpens + 1,
                sockets : [Opens -> Sockets]]
  BY SocketType, AdbAssumption DEF Init
<1>5. adb_channels \in [Handles -> Channels]
  BY FreeType DEF Init
<1>6. /\ local_id_counter \in 1 .. MaxOpens + 1 /\ current_channel \in Handles
      /\ sessions \in 0 .. MaxSessions /\ errors \in 0 .. MaxErrors
  BY AdbAssumption DEF Init, Handles
<1>7. /\ pc = "idle" /\ attached = FALSE /\ adb_state = "DISCONNECTED"
      /\ adb_conn_state \in ConnStates /\ adb_buffer_refcount \in Nat
      /\ calls \subseteq Calls
      /\ toDev \in Seq(Packets) /\ toHost \in Seq(Packets)
  BY DEF Init, ConnStates
<1> QED BY <1>2, <1>3, <1>4, <1>5, <1>6, <1>7 DEF TypeOK

LEMMA TypeStep == TypeOK /\ [Next]_vars => TypeOK'
<1> SUFFICES ASSUME TypeOK, [Next]_vars PROVE TypeOK'
  OBVIOUS
<1> USE DEF conn, host, port, owner, phone, count
<1>1. CASE ConnDetached
  BY <1>1, GiveUpType DEF TypeOK, ConnDetached
<1>2. CASE ADBInit
  BY <1>2, FreeType DEF TypeOK, ADBInit, ConnStates
<1>3. CASE UNCHANGED vars
  BY <1>3 DEF TypeOK, vars
<1> QED BY <1>1, <1>2, <1>3, ClientTypes, BusTypes, ReceiveTypes, SendTypes,
           DaemonTypes DEF Next, Loop

\* Every variable keeps its type, however many channels, sessions and packets
\* there are: the indices of adb_channels stay in its bounds, the reference
\* count never goes below zero.
THEOREM TypeCorrect == Spec => []TypeOK
BY TypeInit, TypeStep, PTL DEF Spec

----------------------------------------------------------------------------
(* Held channels.                                                          *)

\* What a held channel is kept as, when its state and its client's hold on it
\* do not get worse.
LEMMA HeldKept ==
    ASSUME HeldInv,
           \A h \in Handles :
              app'[h] # 0 =>
                 /\ app'[h] = app[h]
                 /\ adb_channels[h].state \in Live
                       => adb_channels'[h].state \in Live
                 /\ adb_channels'[h].local = adb_channels[h].local,
           adb_state # "DISCONNECTED" => adb_state' # "DISCONNECTED"
    PROVE  HeldInv'
BY DEF HeldInv, Holds

LEMMA HeldReceive == TypeOK /\ HeldInv /\ Receive => HeldInv'
<1> SUFFICES ASSUME TypeOK, HeldInv, Receive PROVE HeldInv'
  OBVIOUS
<1> USE DEF owner
<1> DEFINE p == recvPort.pkt
<1>1. CASE ReceiveError \/ HandleCnxn \/ HandleOther
  BY <1>1, HeldKept DEF ReceiveError, HandleCnxn, HandleOther, Received
<1>2. CASE HandleOkay
  <2>1. \A ch \in Channels, r \in Ids :
           /\ OnOkay(ch, r).local = ch.local
           /\ ch.state \in Live => OnOkay(ch, r).state \in Live
    BY DEF OnOkay, Channels, Live
  <2>2. p.arg0 \in Ids
    BY <1>2, ReceivedType DEF HandleOkay, Packets
  <2> QED BY <1>2, <2>1, <2>2, HeldKept DEF TypeOK, HandleOkay, Received
<1>3. CASE HandleClse
  <2> DEFINE lost == {h \in Addressed(p) : adb_channels[h].state \in Reported}
             done == {h \in Addressed(p) : adb_channels[h].state \in Closing}
  <2>1. /\ app' = [h \in Handles |-> IF h \in lost THEN 0 ELSE app[h]]
        /\ adb_channels' =
              [h \in Handles |->
                 IF h \in lost \union done
                   THEN [adb_channels[h] EXCEPT !.state = "FREE"]
                   ELSE adb_channels[h]]
        /\ adb_state' = adb_state
    BY <1>3 DEF HandleClse, NotifyClosed, GiveUp, Received
  <2> SUFFICES ASSUME NEW h \in Handles, app'[h] # 0
               PROVE  /\ app'[h] = app[h]
                      /\ adb_channels[h].state \in Live
                            => adb_channels'[h].state \in Live
                      /\ adb_channels'[h].local = adb_channels[h].local
    BY <2>1, HeldKept
  <2>2. h \notin lost /\ app'[h] = app[h]
    BY <2>1
  <2>3. adb_channels[h].state \in Live
    BY <2>2 DEF HeldInv, Holds
  <2>4. h \notin done
    BY <2>3 DEF Live, Closing
  <2> QED BY <2>1, <2>2, <2>4
<1>4. CASE HandleWrte
  <2>1. \A h \in Handles : /\ adb_channels'[h].state = adb_channels[h].state
                           /\ adb_channels'[h].local = adb_channels[h].local
    BY <1>4 DEF HandleWrte, TypeOK, Channels
  <2> QED BY <1>4, <2>1, HeldKept DEF HandleWrte, Received
<1> QED BY <1>1, <1>2, <1>3, <1>4 DEF Receive

LEMMA HeldSend == TypeOK /\ HeldInv /\ Send => HeldInv'
<1> SUFFICES ASSUME TypeOK, HeldInv, Send PROVE HeldInv'
  OBVIOUS
<1> USE DEF owner, host, Returns
<1>1. CASE Connect \/ AwaitConnect \/ NothingToSend \/ SendError
  BY <1>1, HeldKept DEF Connect, AwaitConnect, NothingToSend, SendError
<1>2. CASE ServeChannel
  <2> PICK i \in PendingAt :
        adb_channels' = [adb_channels EXCEPT ![After(i)] = Served(@)]
    BY <1>2 DEF ServeChannel
  <2>1. \A ch \in Channels :
           /\ Served(ch).local = ch.local
           /\ ch.state \in Live => Served(ch).state \in Live
    BY DEF Served, Channels, Live
  <2>2. \A h \in Handles :
           \/ adb_channels'[h] = adb_channels[h]
           \/ adb_channels'[h] = Served(adb_channels[h])
    BY DEF TypeOK
  <2>3. app' = app /\ adb_state' # "DISCONNECTED"
    BY <1>2 DEF ServeChannel
  <2> QED BY <2>1, <2>2, <2>3, HeldKept DEF TypeOK
<1>3. CASE ADBReset
  <2>1. \A h \in Handles : app'[h] = 0
    BY <1>3 DEF ADBReset, NotifyClosed, GiveUp, HeldInv, Holds, Live
  <2>2. adb_state' = adb_state
    BY <1>3 DEF ADBReset
  <2> QED BY <2>1, <2>2 DEF HeldInv, Holds
<1> QED BY <1>1, <1>2, <1>3 DEF Send

LEMMA HeldClient == TypeOK /\ HeldInv /\ Client => HeldInv'
<1> SUFFICES ASSUME TypeOK, HeldInv, Client PROVE HeldInv'
  OBVIOUS
<1> USE DEF conn
<1>1. CASE ClientOpen
  <2> PICK h \in Handles :
         ADBOpen(h) /\ app' = [app EXCEPT ![h] = local_id_counter]
    BY <1>1 DEF ClientOpen
  <2>1. /\ adb_channels'[h].state = "START"
        /\ adb_channels'[h].local = LocalId(local_id_counter, h)
        /\ \A g \in Handles \ {h} : adb_channels'[g] = adb_channels[g]
    BY DEF ADBOpen, Opened, TypeOK, Channels
  <2>2. /\ app'[h] = local_id_counter
        /\ \A g \in Handles \ {h} : app'[g] = app[g]
    BY DEF TypeOK
  <2>3. adb_state' # "DISCONNECTED"
    BY <1>1 DEF ClientOpen, ClientRuns
  <2> QED BY <2>1, <2>2, <2>3 DEF HeldInv, Holds, Live
<1>2. CASE ClientWrite
  <2>1. \A h \in Handles : /\ adb_channels'[h].state = adb_channels[h].state
                           /\ adb_channels'[h].local = adb_channels[h].local
    BY <1>2 DEF ClientWrite, ADBWrite, TypeOK, Channels
  <2> QED BY <1>2, <2>1, HeldKept DEF ClientWrite
<1>3. CASE ClientClose
  <2> PICK h \in Handles : ADBClose(h) /\ GiveUp({h})
    BY <1>3 DEF ClientClose
  <2>1. /\ app'[h] = 0
        /\ \A g \in Handles \ {h} : /\ app'[g] = app[g]
                                    /\ adb_channels'[g] = adb_channels[g]
    BY DEF ADBClose, GiveUp, TypeOK
  <2> QED BY <1>3, <2>1, HeldKept DEF ClientClose
<1> QED BY <1>1, <1>2, <1>3 DEF Client

LEMMA HeldStep ==
    ASSUME DropOnDetach
    PROVE  TypeOK /\ HeldInv /\ [Next]_vars => HeldInv'
<1> SUFFICES ASSUME TypeOK, HeldInv, [Next]_vars PROVE HeldInv'
  OBVIOUS
<1> USE DEF conn, host, owner, AdbdStep, AdbdReads
<1>1. CASE Attach \/ Detach \/ Bus
  BY <1>1, HeldKept DEF Attach, Detach, Bus, SendDone, RecvDone, SendFails,
                        RecvFails
<1>2. CASE Answer \/ AdbdSend \/ AdbdClose
  BY <1>2, HeldKept DEF Answer, AdbdCnxn, AdbdOpen, AdbdWrte, AdbdOkay,
                        AdbdClse, AdbdSend, AdbdClose
<1>3. CASE ConnDetached
  BY <1>3 DEF ConnDetached, GiveUp, HeldInv, Holds
<1>4. CASE ADBInit
  BY <1>4 DEF ADBInit, HeldInv, Holds
<1>5. CASE UNCHANGED vars
  BY <1>5, HeldKept DEF vars
<1> QED BY <1>1, <1>2, <1>3, <1>4, <1>5, HeldReceive, HeldSend, HeldClient
        DEF Next, Loop

\* A client that watches ADBAttached, as main.c:190 does, never holds a handle
\* to a channel that was cleared, closed by the phone or given to another
\* opening, through any number of attachments, resets and reuses of a slot.
THEOREM HeldChannels == ASSUME DropOnDetach PROVE Spec => []HeldIsLive
<1>1. Init => HeldInv
  BY DEF Init, HeldInv, Holds
<1>2. TypeOK /\ HeldInv /\ [Next]_vars => HeldInv'
  BY HeldStep
<1>3. HeldInv => HeldIsLive
  BY DEF HeldInv, HeldIsLive, Live
<1> QED BY <1>1, <1>2, <1>3, TypeCorrect, PTL DEF Spec

----------------------------------------------------------------------------
(* The reception.                                                          *)

LEMMA CountReceive == TypeOK /\ CountInv /\ Receive => CountInv'
<1> SUFFICES ASSUME TypeOK, CountInv, Receive PROVE CountInv'
  OBVIOUS
<1>1. adb_buffer_refcount = 1
  <2>1. HasReceived
    BY DEF Receive, ReceiveError, HandleCnxn, HandleOkay, HandleClse,
           HandleWrte, HandleOther, Received
  <2> QED BY <2>1 DEF CountInv, HasReceived
<1>2. CASE ReceiveError
  BY <1>1, <1>2 DEF ReceiveError, Unref, CountInv, ADBConnected
<1>3. CASE HandleCnxn
  BY <1>1, <1>3 DEF HandleCnxn, Unref, CountInv, ADBConnected
<1>4. CASE HandleOkay \/ HandleClse \/ HandleWrte \/ HandleOther
  <2>1. Unref(ADBConnected) /\ adb_conn_state' = adb_conn_state
    BY <1>4 DEF HandleOkay, HandleClse, HandleWrte, HandleOther
  <2> QED BY <1>1, <2>1 DEF Unref, CountInv, ADBConnected
<1> QED BY <1>2, <1>3, <1>4 DEF Receive

LEMMA CountStep == TypeOK /\ CountInv /\ [Next]_vars => CountInv'
<1> SUFFICES ASSUME TypeOK, CountInv, [Next]_vars PROVE CountInv'
  OBVIOUS
<1> USE DEF conn, host, CountInv, ADBConnected
<1>1. CASE Attach \/ Detach \/ Bus
  BY <1>1 DEF Attach, Detach, Bus, SendDone, RecvDone, SendFails, RecvFails
<1>2. CASE Answer \/ AdbdSend \/ AdbdClose
  BY <1>2 DEF Answer, AdbdCnxn, AdbdOpen, AdbdWrte, AdbdOkay, AdbdClse,
              AdbdSend, AdbdClose, AdbdStep, AdbdReads
<1>3. CASE Client
  BY <1>3 DEF Client, ClientOpen, ClientWrite, ClientClose
<1>4. CASE ConnDetached \/ ADBInit
  BY <1>4 DEF ConnDetached, ADBInit
<1>5. CASE Send
  BY <1>5 DEF Send, Connect, StartRecv, AwaitConnect, ServeChannel,
              NothingToSend, SendError, ADBReset
<1>6. CASE UNCHANGED vars
  BY <1>6 DEF vars
<1> QED BY <1>1, <1>2, <1>3, <1>4, <1>5, <1>6, CountReceive DEF Next, Loop

\* While there is a connection the reception keeps its one reference, whatever
\* packets arrive: ADBBufferUnref restarts it (adb.c:135-143).
THEOREM ReceptionGoesOn == Spec => []ReceiverArmed
<1>1. Init => CountInv
  BY DEF Init, CountInv, ADBConnected
<1>2. TypeOK /\ CountInv /\ [Next]_vars => CountInv'
  BY CountStep
<1>3. CountInv => ReceiverArmed
  BY DEF CountInv, ReceiverArmed
<1> QED BY <1>1, <1>2, <1>3, TypeCorrect, PTL DEF Spec

-----------------------------------------------------------------------------
(***************************************************************************)
(* What the ADB host writes, acknowledges and delivers, and in which       *)
(* order, proved for any number of channels, openings, sessions, errors    *)
(* and packets in flight.                                                  *)
(*                                                                         *)
(* The argument: the packets between host and phone are two streams,       *)
(* Incoming and Outgoing, to which the packet being received or sent       *)
(* belongs, so that a transfer moves nothing.  A step then takes the first *)
(* packet of a stream, adds one at the end, or does neither.  OrderInv     *)
(* says what every packet, channel and socket may name (IdInv, BindInv),   *)
(* when an opening may be answered and closed (OpenInv, CloseInv), that    *)
(* data, the acknowledgement a channel owes for them and its OKAY are one  *)
(* token of the socket (AckInv), as are a WRTE and its OKAY (WriteInv),    *)
(* and which data the token carries (DeliverInv, WriteInv).  Before there  *)
(* is a connection nothing of this can be under way (StartInv).            *)
(***************************************************************************)

----------------------------------------------------------------------------
(* The order of what is acknowledged, written and delivered.               *)

\* ADBTasks has the phone; there is, or was, a connection with it.
Session == attached /\ adb_state # "DISCONNECTED"
Linked  == Session /\ adb_conn_state \in {"CONNECTED", "ERROR"}

\* The packets between the two in the order in which they are read, those in
\* the ports included: a transfer that ends changes neither.
Incoming == IF recvPort.state = "IDLE" THEN <<recvPort.pkt>> \o toHost
            ELSE toHost
Outgoing == IF sendPort.state = "BUSY" THEN Append(toDev, sendPort.pkt)
            ELSE toDev
InData(i)  == Incoming[i].data
OutData(i) == Outgoing[i].data

\* The i-th packet to the host is one from socket r to the local id l, and the
\* i-th to the daemon one from l to r.
InOkay(i, r, l)  == /\ i \in 1 .. Len(Incoming) /\ Incoming[i].cmd = "OKAY"
                    /\ Incoming[i].arg0 = r /\ Incoming[i].arg1 = l
InWrte(i, r, l)  == /\ i \in 1 .. Len(Incoming) /\ Incoming[i].cmd = "WRTE"
                    /\ Incoming[i].arg0 = r /\ Incoming[i].arg1 = l
InClse(i, l)     == /\ i \in 1 .. Len(Incoming) /\ Incoming[i].cmd = "CLSE"
                    /\ Incoming[i].arg1 = l
OutOpen(i, l)    == /\ i \in 1 .. Len(Outgoing) /\ Outgoing[i].cmd = "OPEN"
                    /\ Outgoing[i].arg0 = l
OutOkay(i, r, l) == /\ i \in 1 .. Len(Outgoing) /\ Outgoing[i].cmd = "OKAY"
                    /\ Outgoing[i].arg0 = l /\ Outgoing[i].arg1 = r
OutWrte(i, r, l) == /\ i \in 1 .. Len(Outgoing) /\ Outgoing[i].cmd = "WRTE"
                    /\ Outgoing[i].arg0 = l /\ Outgoing[i].arg1 = r
OutClse(i, r, l) == /\ i \in 1 .. Len(Outgoing) /\ Outgoing[i].cmd = "CLSE"
                    /\ Outgoing[i].arg0 = l /\ Outgoing[i].arg1 = r

\* Socket r is open for the local id l; channel h has something under way.
Sock(r, l) == /\ r \in Opens /\ adbd.sockets[r].open
              /\ adbd.sockets[r].local = l
Active(h)  == adb_channels[h].state \in {"IDLE", "WAIT_READY"}
\* Channel h is, or waits to become, open.
Fresh(h)   == adb_channels[h].state \in {"START", "WAIT_OPEN"}

\* The ids that were given.
Given(l) == 0 < l /\ l < LocalId(local_id_counter, 0)
Used(r)  == 0 < r /\ r < adbd.next

\* Before there is a connection nothing is open, and only CNXN is on its way.
Plain(s) == \A i \in 1 .. Len(s) : s[i].cmd \in {"CNXN", "OTHER"}
StartInv ==
    /\ ~Linked => /\ Plain(toDev) /\ Plain(toHost)
                  /\ \A r \in Opens : ~adbd.sockets[r].open
    /\ Session /\ ~Linked => adb_channels = [h \in Handles |-> Free]
    /\ Session /\ adb_conn_state = "WAIT_CONNECT" =>
          Plain(Incoming) /\ Plain(Outgoing)
    /\ pc = "send" => Session

\* What is named was given.
IdIn ==
    /\ \A i \in Nat, r, l \in Ids :
          InOkay(i, r, l) \/ InWrte(i, r, l) => Used(r) /\ Given(l)
    /\ \A i \in Nat, l \in Ids : InClse(i, l) => Given(l)
IdOut ==
    /\ \A i \in Nat, l \in Ids : OutOpen(i, l) => Given(l)
    /\ \A i \in Nat, r, l \in Ids :
          /\ OutOkay(i, r, l) \/ OutWrte(i, r, l) => Used(r) /\ Given(l)
          /\ OutClse(i, r, l) => r < adbd.next /\ Given(l)
IdSock == \A r, l \in Ids : Sock(r, l) => Used(r) /\ Given(l)
IdChan ==
    \A h \in Handles :
       /\ adb_channels[h].local = 0 \/ Given(adb_channels[h].local)
       /\ adb_channels[h].local # 0 => HandleOf(adb_channels[h].local) = h
       /\ adb_channels[h].state # "FREE" => adb_channels[h].local # 0
       /\ adb_channels[h].remote < adbd.next
       /\ Active(h) \/ adb_channels[h].ack => 0 < adb_channels[h].remote
IdInv == IdIn /\ IdOut /\ IdSock /\ IdChan

\* Socket r is the one of the opening with the local id l.
Binds(r, l) ==
    \/ \E i \in Nat : InOkay(i, r, l) \/ InWrte(i, r, l) \/ OutWrte(i, r, l)
    \/ Sock(r, l)
    \/ \E h \in Handles : /\ Active(h) /\ adb_channels[h].remote = r
                          /\ adb_channels[h].local = l
BindInv ==
    \A r, l, q \in Ids :
       /\ Binds(r, l) /\ Binds(q, l) => q = r
       /\ Binds(r, l) /\ Binds(r, q) => q = l

\* The opening with the local id l has not been answered.
Unasked(l) == (\A r \in Ids : ~Binds(r, l)) /\ (\A i \in Nat : ~InClse(i, l))
\* An answer to it is on the way, before any data.
Answered(r, l) ==
    \E i \in Nat : /\ InOkay(i, r, l)
                   /\ \A j \in Nat : InWrte(j, r, l) => i < j
OpenOut ==
    \A i \in Nat, l \in Ids :
       OutOpen(i, l) =>
          /\ Unasked(l)
          /\ \A j \in Nat : OutOpen(j, l) => j = i
          /\ \A h \in Handles :
                adb_channels[h].local = l =>
                   adb_channels[h].state \notin {"FREE", "START"}
OpenChan ==
    \A h \in Handles, l \in Ids :
       adb_channels[h].local = l =>
          /\ adb_channels[h].state = "START" => Unasked(l)
          /\ adb_channels[h].state = "WAIT_OPEN" =>
               \A r \in Ids : Binds(r, l) => Answered(r, l)
FreshInv ==
    \A h \in Handles :
       Fresh(h) => /\ ~adb_channels[h].ack /\ adb_channels[h].data = 0
                   /\ got[h] = 0 /\ wrote[h] = 0
OpenInv == OpenOut /\ OpenChan /\ FreshInv

\* Nothing comes after a closure, and closures concern the socket they name.
CloseIn ==
    \A i \in Nat, r, l \in Ids :
       InClse(i, l) => /\ ~Sock(r, l)
                       /\ \A j \in Nat : InWrte(j, r, l) => j < i
CloseChan ==
    \A h \in Handles, r, l \in Ids :
       /\ adb_channels[h].state = "FREE" /\ adb_channels[h].local = l =>
             ~Sock(r, l) /\ \A j \in Nat : ~InWrte(j, r, l)
       /\ Sock(r, l) /\ adb_channels[h].remote = r =>
             adb_channels[h].local = l
CloseOut ==
    \A i \in Nat, r, l, q \in Ids : OutClse(i, r, l) /\ Sock(r, q) => l = q
CloseInv == CloseIn /\ CloseChan /\ CloseOut

\* Data of socket r, what the host keeps of them and their acknowledgement: one
\* at most, and the daemon awaits it.
Awaits(r)   == r \in Opens /\ adbd.sockets[r].open => adbd.sockets[r].unacked
AckAt(h, r) == adb_channels[h].ack /\ adb_channels[h].remote = r
AckAwaited ==
    /\ \A i \in Nat, r, l \in Ids :
          InWrte(i, r, l) \/ OutOkay(i, r, l) => Awaits(r)
    /\ \A h \in Handles, r \in Ids : AckAt(h, r) => Awaits(r)
AckOnce ==
    \A i, j \in Nat, r, l, q \in Ids :
       /\ InWrte(i, r, l) /\ InWrte(j, r, q) => j = i
       /\ OutOkay(i, r, l) /\ OutOkay(j, r, q) => j = i
       /\ ~(InWrte(i, r, l) /\ OutOkay(j, r, q))
AckChan ==
    /\ \A h \in Handles, r \in Ids :
          AckAt(h, r) => \A i \in Nat, l \in Ids :
                            ~InWrte(i, r, l) /\ ~OutOkay(i, r, l)
    /\ \A g, h \in Handles, r \in Ids : AckAt(h, r) /\ AckAt(g, r) => g = h
AckInv == AckAwaited /\ AckOnce /\ AckChan

\* Data for a channel are the next that its client has not got.
DeliverInv ==
    \A h \in Handles, l \in Ids :
       adb_channels[h].state \in Live /\ adb_channels[h].local = l =>
          /\ Holds(h) /\ l = LocalId(app[h], h)
          /\ \A i \in Nat, r \in Ids :
                InWrte(i, r, l) =>
                   /\ InData(i) = NextData(got[h])
                   /\ Sock(r, l) => adbd.sockets[r].sent = InData(i)
          /\ \A r \in Ids :
                Sock(r, l) => \/ adbd.sockets[r].sent = got[h]
                              \/ \E i \in Nat : InWrte(i, r, l)

\* What is written to socket r and the answer: one at most, and what comes to
\* the socket is the next that it has not read.
WriteOnce ==
    \A i, j \in Nat, r, l, q \in Ids :
       /\ OutWrte(i, r, l) /\ OutWrte(j, r, q) => j = i
       /\ InOkay(i, r, l) /\ InOkay(j, r, q) => j = i
       /\ ~(OutWrte(i, r, l) /\ InOkay(j, r, q))
WriteOut ==
    \A i \in Nat, r, l \in Ids :
       OutWrte(i, r, l) /\ Sock(r, l) =>
          OutData(i) = NextData(adbd.sockets[r].read)
Written(h, r) ==
    IF adb_channels[h].data = 0
      THEN wrote[h] = adbd.sockets[r].read
      ELSE /\ adb_channels[h].data = wrote[h]
           /\ wrote[h] = NextData(adbd.sockets[r].read)
WriteIdle ==
    \A h \in Handles, r \in Ids :
       adb_channels[h].state = "IDLE" /\ adb_channels[h].remote = r =>
          /\ \A i \in Nat, l \in Ids : ~OutWrte(i, r, l) /\ ~InOkay(i, r, l)
          /\ \A l \in Ids : Sock(r, l) => Written(h, r)
WriteReady ==
    \A h \in Handles, r \in Ids :
       adb_channels[h].state = "WAIT_READY" /\ adb_channels[h].remote = r =>
          \A i \in Nat, l \in Ids :
             Sock(r, l) =>
                /\ OutWrte(i, r, l) => OutData(i) = wrote[h]
                /\ InOkay(i, r, l) => wrote[h] = adbd.sockets[r].read
WriteOpen ==
    \A h \in Handles, l \in Ids :
       adb_channels[h].state = "WAIT_OPEN" /\ adb_channels[h].local = l =>
          \A i \in Nat, r \in Ids :
             Sock(r, l) /\ InOkay(i, r, l) => adbd.sockets[r].read = 0
WriteInv == WriteOnce /\ WriteOut /\ WriteIdle /\ WriteReady /\ WriteOpen

Parts == /\ IdInv /\ BindInv /\ OpenInv /\ CloseInv
         /\ AckInv /\ DeliverInv /\ WriteInv
OrderInv == StartInv /\ (Linked => Parts)

----------------------------------------------------------------------------
(* What a step does to the two streams.                                    *)

\* The first k packets have been read, or more of a kind.
OkayFewer(k) ==
    \A i \in Nat, r, l \in Ids : InOkay(i, r, l)' => InOkay(i + k, r, l)
WrteFewer(k) ==
    \A i \in Nat, r, l \in Ids :
       InWrte(i, r, l)' => InWrte(i + k, r, l) /\ InData(i)' = InData(i + k)
\* No answer, no data were among them.
OkayKept(k) ==
    /\ OkayFewer(k)
    /\ \A i \in Nat, r, l \in Ids :
          InOkay(i, r, l) => i - k \in Nat /\ InOkay(i - k, r, l)'
WrteKept(k) ==
    /\ WrteFewer(k)
    /\ \A i \in Nat, r, l \in Ids :
          InWrte(i, r, l) => i - k \in Nat /\ InWrte(i - k, r, l)'
ClseKept(k) == \A i \in Nat, l \in Ids : InClse(i, l)' => InClse(i + k, l)
InKept(k)   == OkayKept(k) /\ WrteKept(k) /\ ClseKept(k)

\* The first packet has been read.
InTaken ==
    /\ \A i \in Nat, l \in Ids : InClse(i, l)' => 0 < i /\ InClse(i + 1, l)
    /\ \A i \in Nat, r, l \in Ids :
          /\ InOkay(i, r, l)' => 0 < i /\ InOkay(i + 1, r, l)
          /\ InWrte(i, r, l)' => /\ 0 < i /\ InWrte(i + 1, r, l)
                                 /\ InData(i)' = InData(i + 1)
          /\ InOkay(i, r, l) => i = 1 \/ (i - 1 \in Nat /\ InOkay(i - 1, r, l)')
          /\ InWrte(i, r, l) => i = 1 \/ (i - 1 \in Nat /\ InWrte(i - 1, r, l)')

\* The packets after the first k are left, or fewer.
OutFewer(k) ==
    /\ \A i \in Nat, l \in Ids : OutOpen(i, l)' => 0 < i /\ OutOpen(i + k, l)
    /\ \A i \in Nat, r, l \in Ids :
          /\ OutOkay(i, r, l)' => 0 < i /\ OutOkay(i + k, r, l)
          /\ OutWrte(i, r, l)' => /\ 0 < i /\ OutWrte(i + k, r, l)
                                  /\ OutData(i)' = OutData(i + k)
          /\ OutClse(i, r, l)' => 0 < i /\ OutClse(i + k, r, l)

\* The packet p comes last.
InGets(p) ==
    \E n \in Nat :
       /\ \A i \in Nat, r, l \in Ids :
             /\ InOkay(i, r, l)' <=>
                   \/ InOkay(i, r, l)
                   \/ p.cmd = "OKAY" /\ i = n /\ r = p.arg0 /\ l = p.arg1
             /\ InWrte(i, r, l)' <=>
                   \/ InWrte(i, r, l)
                   \/ p.cmd = "WRTE" /\ i = n /\ r = p.arg0 /\ l = p.arg1
             /\ InOkay(i, r, l) \/ InWrte(i, r, l) => 0 < i /\ i < n
       /\ \A i \in Nat, l \in Ids :
             /\ InClse(i, l)' <=>
                   \/ InClse(i, l)
                   \/ p.cmd = "CLSE" /\ i = n /\ l = p.arg1
             /\ InClse(i, l) => 0 < i /\ i < n
       /\ \A i \in Nat : 0 < i /\ i < n => InData(i)' = InData(i)
       /\ InData(n)' = p.data
OutGets(p) ==
    \E n \in Nat :
       /\ \A i \in Nat, r, l \in Ids :
             /\ OutOkay(i, r, l)' <=>
                   \/ OutOkay(i, r, l)
                   \/ p.cmd = "OKAY" /\ i = n /\ l = p.arg0 /\ r = p.arg1
             /\ OutWrte(i, r, l)' <=>
                   \/ OutWrte(i, r, l)
                   \/ p.cmd = "WRTE" /\ i = n /\ l = p.arg0 /\ r = p.arg1
             /\ OutClse(i, r, l)' <=>
                   \/ OutClse(i, r, l)
                   \/ p.cmd = "CLSE" /\ i = n /\ l = p.arg0 /\ r = p.arg1
             /\ OutOkay(i, r, l) \/ OutWrte(i, r, l) => 0 < i /\ i < n
       /\ \A i \in Nat, l \in Ids :
             OutOpen(i, l)' <=> \/ OutOpen(i, l)
                                \/ p.cmd = "OPEN" /\ i = n /\ l = p.arg0
       /\ \A i \in Nat : 0 < i /\ i < n => OutData(i)' = OutData(i)
       /\ OutData(n)' = p.data

\* A port and a queue make a stream.
LEMMA StreamType ==
    ASSUME NEW p \in Ports, NEW s \in Seq(Packets)
    PROVE  /\ (IF p.state = "IDLE" THEN <<p.pkt>> \o s ELSE s) \in Seq(Packets)
           /\ (IF p.state = "BUSY" THEN Append(s, p.pkt) ELSE s) \in Seq(Packets)
<1>1. p.pkt \in Packets
  BY DEF Ports
<1>2. <<p.pkt>> \o s \in Seq(Packets)
  BY <1>1
<1>3. Append(s, p.pkt) \in Seq(Packets)
  BY <1>1
<1> QED BY <1>2, <1>3

\* The streams are sequences of packets.
LEMMA StreamTypes ==
    /\ TypeOK => Incoming \in Seq(Packets) /\ Outgoing \in Seq(Packets)
    /\ TypeOK' => Incoming' \in Seq(Packets) /\ Outgoing' \in Seq(Packets)
<1>1. ASSUME TypeOK PROVE Incoming \in Seq(Packets) /\ Outgoing \in Seq(Packets)
  BY <1>1, StreamType DEF TypeOK, Incoming, Outgoing
<1>2. ASSUME TypeOK' PROVE Incoming' \in Seq(Packets) /\ Outgoing' \in Seq(Packets)
  BY <1>2, StreamType DEF TypeOK, Incoming, Outgoing
<1> QED BY <1>1, <1>2

\* s without its first packet, and s with p after its last.
IsTail(t, s) == /\ Len(s) > 0 /\ Len(t) = Len(s) - 1
                /\ \A i \in 1 .. Len(t) : t[i] = s[i + 1]
IsAppend(t, s, p) == /\ Len(t) = Len(s) + 1 /\ t[Len(s) + 1] = p
                     /\ \A i \in 1 .. Len(s) : t[i] = s[i]
IsFront(t, s) == /\ Len(s) > 0 /\ Len(t) = Len(s) - 1
                 /\ \A i \in 1 .. Len(t) : t[i] = s[i]

\* What these are for the packets named by their ids.
LEMMA InSame ==
    ASSUME TypeOK, TypeOK', Incoming' = Incoming
    PROVE  InKept(0)
<1>1. Incoming \in Seq(Packets)
  BY StreamTypes
<1> QED BY <1>1
   DEF InKept, OkayKept, OkayFewer, WrteKept, WrteFewer, ClseKept, InOkay,
       InWrte, InClse, InData

\* Its first packet is taken.
LEMMA InTake ==
    ASSUME TypeOK, TypeOK', IsTail(Incoming', Incoming)
    PROVE  InTaken
<1>1. Incoming \in Seq(Packets) /\ Incoming' \in Seq(Packets)
  BY StreamTypes
<1> QED BY <1>1 DEF IsTail, InTaken, InOkay, InWrte, InClse, InData

\* What is neither an answer nor data is taken unnoticed.
LEMMA InSkip ==
    ASSUME InTaken, \A r, l \in Ids : ~InOkay(1, r, l) /\ ~InWrte(1, r, l)
    PROVE  InKept(1)
BY DEF InTaken, InKept, OkayKept, OkayFewer, WrteKept, WrteFewer, ClseKept

\* The daemon sends.
LEMMA InAppend ==
    ASSUME TypeOK, TypeOK', NEW p \in Packets, IsAppend(Incoming', Incoming, p)
    PROVE  InGets(p)
<1>1. Incoming \in Seq(Packets) /\ Incoming' \in Seq(Packets)
  BY StreamTypes
<1> PICK n \in Nat : n = Len(Incoming) + 1
  BY <1>1
<1>2. \A i \in Nat, r, l \in Ids :
        /\ InOkay(i, r, l)' <=>
              \/ InOkay(i, r, l)
              \/ p.cmd = "OKAY" /\ i = n /\ r = p.arg0 /\ l = p.arg1
        /\ InWrte(i, r, l)' <=>
              \/ InWrte(i, r, l)
              \/ p.cmd = "WRTE" /\ i = n /\ r = p.arg0 /\ l = p.arg1
        /\ InOkay(i, r, l) \/ InWrte(i, r, l) => 0 < i /\ i < n
  BY <1>1 DEF IsAppend, InOkay, InWrte
<1>3. \A i \in Nat, l \in Ids :
        /\ InClse(i, l)' <=>
              \/ InClse(i, l)
              \/ p.cmd = "CLSE" /\ i = n /\ l = p.arg1
        /\ InClse(i, l) => 0 < i /\ i < n
  BY <1>1 DEF IsAppend, InClse
<1>4. /\ \A i \in Nat : 0 < i /\ i < n => InData(i)' = InData(i)
      /\ InData(n)' = p.data
  BY <1>1 DEF IsAppend, InData
<1> QED BY <1>2, <1>3, <1>4, SMTT(30) DEF InGets

\* What is sent is no answer, no data and no closure.
LEMMA InPlain ==
    ASSUME NEW p, InGets(p), p.cmd \in {"CNXN", "OTHER"}
    PROVE  InKept(0)
<1>1. \A i \in Nat : i + 0 = i /\ i - 0 = i
  OBVIOUS
<1>2. p.cmd # "OKAY" /\ p.cmd # "WRTE" /\ p.cmd # "CLSE"
  OBVIOUS
<1>3. OkayKept(0)
  BY <1>1, <1>2 DEF InGets, OkayKept, OkayFewer
<1>4. WrteKept(0)
  BY <1>1, <1>2 DEF InGets, WrteKept, WrteFewer
<1>5. ClseKept(0)
  BY <1>1, <1>2 DEF InGets, ClseKept
<1> QED BY <1>3, <1>4, <1>5 DEF InKept

\* Nothing was taken.
LEMMA ZeroKept ==
    /\ OkayKept(0) => \A i \in Nat, r, l \in Ids : InOkay(i, r, l)' <=> InOkay(i, r, l)
    /\ WrteKept(0) => \A i \in Nat, r, l \in Ids :
                         /\ InWrte(i, r, l)' <=> InWrte(i, r, l)
                         /\ InWrte(i, r, l)' => InData(i)' = InData(i)
    /\ ClseKept(0) => \A i \in Nat, l \in Ids : InClse(i, l)' => InClse(i, l)
<1>0. \A i \in Nat : i + 0 = i /\ i - 0 = i
  OBVIOUS
<1>1. ASSUME OkayKept(0), NEW i \in Nat, NEW r \in Ids, NEW l \in Ids
      PROVE  InOkay(i, r, l)' <=> InOkay(i, r, l)
  <2>1. InOkay(i, r, l)' => InOkay(i + 0, r, l)
    BY <1>1 DEF OkayKept, OkayFewer
  <2>2. InOkay(i, r, l) => InOkay(i - 0, r, l)'
    BY <1>1 DEF OkayKept, OkayFewer
  <2> QED BY <1>0, <2>1, <2>2
<1>2. ASSUME WrteKept(0), NEW i \in Nat, NEW r \in Ids, NEW l \in Ids
      PROVE  /\ InWrte(i, r, l)' <=> InWrte(i, r, l)
             /\ InWrte(i, r, l)' => InData(i)' = InData(i)
  <2>1. InWrte(i, r, l)' => InWrte(i + 0, r, l) /\ InData(i)' = InData(i + 0)
    BY <1>2 DEF WrteKept, WrteFewer
  <2>2. InWrte(i, r, l) => InWrte(i - 0, r, l)'
    BY <1>2 DEF WrteKept, WrteFewer
  <2> QED BY <1>0, <2>1, <2>2
<1>3. ASSUME ClseKept(0), NEW i \in Nat, NEW l \in Ids
      PROVE  InClse(i, l)' => InClse(i, l)
  <2>1. InClse(i, l)' => InClse(i + 0, l)
    BY <1>3 DEF ClseKept
  <2> QED BY <1>0, <2>1
<1> QED BY <1>1, <1>2, <1>3

AnswersKept == \A r, l \in Ids : Answered(r, l) => Answered(r, l)'

\* A packet that comes last leaves the others where they are.
LEMMA InGetsKeeps ==
    ASSUME NEW p, InGets(p)
    PROVE  /\ p.cmd # "OKAY" => OkayKept(0)
           /\ p.cmd # "WRTE" => WrteKept(0)
           /\ p.cmd # "CLSE" => ClseKept(0)
           /\ AnswersKept
<1>0. \A i \in Nat : i + 0 = i /\ i - 0 = i
  OBVIOUS
<1>1. p.cmd # "OKAY" => OkayKept(0)
  BY <1>0 DEF InGets, OkayKept, OkayFewer
<1>2. p.cmd # "WRTE" => WrteKept(0)
  BY <1>0 DEF InGets, WrteKept, WrteFewer
<1>3. p.cmd # "CLSE" => ClseKept(0)
  BY <1>0 DEF InGets, ClseKept
<1>4. ASSUME NEW r \in Ids, NEW l \in Ids, Answered(r, l) PROVE Answered(r, l)'
  <2> PICK i \in Nat : InOkay(i, r, l) /\ \A j \in Nat : InWrte(j, r, l) => i < j
    BY <1>4 DEF Answered
  <2>1. InOkay(i, r, l)'
    BY DEF InGets
  <2>2. \A j \in Nat : InWrte(j, r, l)' => i < j
    BY DEF InGets
  <2> QED BY <2>1, <2>2 DEF Answered
<1> QED BY <1>1, <1>2, <1>3, <1>4 DEF AnswersKept

\* The stream to the daemon stays.
LEMMA OutSame ==
    ASSUME TypeOK, TypeOK', Outgoing' = Outgoing
    PROVE  OutFewer(0)
<1>1. Outgoing \in Seq(Packets)
  BY StreamTypes
<1> QED BY <1>1 DEF OutFewer, OutOpen, OutOkay, OutWrte, OutClse, OutData

\* The daemon reads.
LEMMA OutTake ==
    ASSUME TypeOK, TypeOK', IsTail(Outgoing', Outgoing)
    PROVE  OutFewer(1)
<1>1. Outgoing \in Seq(Packets) /\ Outgoing' \in Seq(Packets)
  BY StreamTypes
<1> QED BY <1>1
   DEF IsTail, OutFewer, OutOpen, OutOkay, OutWrte, OutClse, OutData

\* A send that failed loses its packet.
LEMMA OutLose ==
    ASSUME TypeOK, TypeOK', IsFront(Outgoing', Outgoing)
    PROVE  OutFewer(0)
<1>1. Outgoing \in Seq(Packets) /\ Outgoing' \in Seq(Packets)
  BY StreamTypes
<1> QED BY <1>1
   DEF IsFront, OutFewer, OutOpen, OutOkay, OutWrte, OutClse, OutData

\* ADBChannelTasks sends.
LEMMA OutAppend ==
    ASSUME TypeOK, TypeOK', NEW p \in Packets, IsAppend(Outgoing', Outgoing, p)
    PROVE  OutGets(p)
<1>1. Outgoing \in Seq(Packets) /\ Outgoing' \in Seq(Packets)
  BY StreamTypes
<1> PICK n \in Nat : n = Len(Outgoing) + 1
  BY <1>1
<1>2. \A i \in Nat, r, l \in Ids :
        /\ OutOkay(i, r, l)' <=>
              \/ OutOkay(i, r, l)
              \/ p.cmd = "OKAY" /\ i = n /\ l = p.arg0 /\ r = p.arg1
        /\ OutWrte(i, r, l)' <=>
              \/ OutWrte(i, r, l)
              \/ p.cmd = "WRTE" /\ i = n /\ l = p.arg0 /\ r = p.arg1
        /\ OutClse(i, r, l)' <=>
              \/ OutClse(i, r, l)
              \/ p.cmd = "CLSE" /\ i = n /\ l = p.arg0 /\ r = p.arg1
        /\ OutOkay(i, r, l) \/ OutWrte(i, r, l) => 0 < i /\ i < n
  BY <1>1 DEF IsAppend, OutOkay, OutWrte, OutClse
<1>3. \A i \in Nat, l \in Ids :
        OutOpen(i, l)' <=> \/ OutOpen(i, l)
                           \/ p.cmd = "OPEN" /\ i = n /\ l = p.arg0
  BY <1>1 DEF IsAppend, OutOpen
<1>4. /\ \A i \in Nat : 0 < i /\ i < n => OutData(i)' = OutData(i)
      /\ OutData(n)' = p.data
  BY <1>1 DEF IsAppend, OutData
<1> QED BY <1>2, <1>3, <1>4, SMTT(30) DEF OutGets

----------------------------------------------------------------------------
(* Steps that only take something away.                                    *)

\* The host keeps what it has, or closes channels and forgets what they had.
HostKept ==
    /\ local_id_counter' = local_id_counter
    /\ \A h \in Handles :
          /\ adb_channels'[h].local = adb_channels[h].local
          /\ adb_channels'[h].remote = adb_channels[h].remote
          /\ adb_channels'[h].ack => adb_channels[h].ack
          /\ adb_channels'[h].state # "FREE" => adb_channels[h].state # "FREE"
          /\ adb_channels'[h].state \in Live =>
                /\ adb_channels'[h] = adb_channels[h]
                /\ app'[h] = app[h] /\ got'[h] = got[h] /\ wrote'[h] = wrote[h]
\* No channel becomes free.
FreeKept ==
    \A h \in Handles :
       adb_channels'[h].state = "FREE" => adb_channels[h].state = "FREE"
HostSame == /\ adb_channels' = adb_channels
            /\ local_id_counter' = local_id_counter
            /\ app' = app /\ got' = got /\ wrote' = wrote
\* The sockets that are open were so, and have sent and read what they had.
SocksKept == /\ adbd'.next = adbd.next
             /\ \A r, l \in Ids : Sock(r, l)' => Sock(r, l)
SentsKept == \A r, l \in Ids :
                Sock(r, l)' => adbd'.sockets[r].sent = adbd.sockets[r].sent
ReadsKept == \A r, l \in Ids :
                Sock(r, l)' => adbd'.sockets[r].read = adbd.sockets[r].read
SocksFewer == SocksKept /\ SentsKept /\ ReadsKept
AwaitsKept == \A r \in Ids : Awaits(r) => Awaits(r)'
BindsFewer == \A r, l \in Ids : Binds(r, l)' => Binds(r, l)

\* Ids that were given are, and no others.
LEMMA GivenSame ==
    ASSUME local_id_counter' = local_id_counter
    PROVE  \A l \in Ids : Given(l)' <=> Given(l)
BY DEF Given, LocalId

\* The same of the daemon's ids.
LEMMA UsedSame ==
    ASSUME adbd'.next = adbd.next
    PROVE  \A r \in Ids : Used(r)' <=> Used(r)
BY DEF Used

\* Local ids compare as integers.
LEMMA LocalIdsAreInts == \A l \in LocalIds : l \in Int
BY AdbAssumption DEF LocalIds, LocalId, Opens, Handles

\* The ids in the channels are ids.
LEMMA IdsHere ==
    ASSUME TypeOK
    PROVE  \A h \in Handles : /\ adb_channels[h].local \in Ids
                              /\ adb_channels[h].remote \in Ids
BY DEF TypeOK, Channels, Ids

\* Fewer bindings contradict each other no more.
LEMMA BindFewer ==
    ASSUME BindInv, BindsFewer PROVE BindInv'
BY DEF BindInv, BindsFewer

\* What a connection of the channels binds is what it did.
ActiveKept ==
    \A h \in Handles :
       Active(h)' => /\ Active(h)
                     /\ adb_channels'[h].remote = adb_channels[h].remote
                     /\ adb_channels'[h].local = adb_channels[h].local

\* Channels that were closed bind nothing.
LEMMA HostActive ==
    ASSUME HostKept PROVE ActiveKept
BY DEF HostKept, ActiveKept, Active, Live

\* A step that only takes something away binds nothing new.
LEMMA LossBinds ==
    ASSUME ActiveKept, SocksKept, NEW k \in {0, 1}, NEW m \in {0, 1},
           OkayFewer(k), WrteFewer(k), OutFewer(m)
    PROVE  BindsFewer
<1> SUFFICES ASSUME NEW r \in Ids, NEW l \in Ids, Binds(r, l)'
             PROVE  Binds(r, l)
  BY DEF BindsFewer
<1>1. CASE \E i \in Nat : InOkay(i, r, l)' \/ InWrte(i, r, l)' \/ OutWrte(i, r, l)'
  <2>1. PICK i \in Nat : InOkay(i, r, l)' \/ InWrte(i, r, l)' \/ OutWrte(i, r, l)'
    BY <1>1
  <2>2. i + k \in Nat /\ i + m \in Nat
    OBVIOUS
  <2>3. InOkay(i, r, l)' => InOkay(i + k, r, l)
    BY DEF OkayFewer
  <2>4. InWrte(i, r, l)' => InWrte(i + k, r, l)
    BY DEF WrteFewer
  <2>5. OutWrte(i, r, l)' => OutWrte(i + m, r, l)
    BY DEF OutFewer
  <2> QED BY <2>1, <2>2, <2>3, <2>4, <2>5 DEF Binds
<1>2. CASE Sock(r, l)'
  BY <1>2 DEF Binds, SocksKept
<1>3. CASE \E h \in Handles : /\ Active(h)' /\ adb_channels'[h].remote = r
                              /\ adb_channels'[h].local = l
  BY <1>3 DEF Binds, ActiveKept
<1> QED BY <1>1, <1>2, <1>3 DEF Binds

\* An opening that was answered before any data still is.
LEMMA LossAnswered ==
    ASSUME NEW k \in {0, 1}, OkayKept(k), WrteFewer(k)
    PROVE  AnswersKept
<1> SUFFICES ASSUME NEW r \in Ids, NEW l \in Ids, Answered(r, l)
             PROVE  Answered(r, l)'
  BY DEF AnswersKept
<1> PICK i \in Nat : /\ InOkay(i, r, l)
                     /\ \A j \in Nat : InWrte(j, r, l) => i < j
  BY DEF Answered
<1>1. i - k \in Nat /\ InOkay(i - k, r, l)'
  BY DEF OkayKept
<1>2. \A j \in Nat : InWrte(j, r, l)' => i < j + k /\ j + k \in Nat
  BY DEF WrteFewer
<1> QED BY <1>1, <1>2 DEF Answered

\* The parts of the invariant, one by one, after such a step.
LEMMA LossIdIn ==
    ASSUME IdIn, NEW k \in {0, 1}, OkayFewer(k), WrteFewer(k), ClseKept(k),
           local_id_counter' = local_id_counter, adbd'.next = adbd.next
    PROVE  IdIn'
<1>0. \A i \in Nat : i + k \in Nat
  OBVIOUS
<1>1. \A l \in Ids : (Given(l)' <=> Given(l)) /\ (Used(l)' <=> Used(l))
  BY GivenSame, UsedSame
<1>2. \A i \in Nat, r, l \in Ids :
          InOkay(i, r, l)' \/ InWrte(i, r, l)' => Used(r)' /\ Given(l)'
  BY <1>0, <1>1 DEF IdIn, OkayFewer, WrteFewer
<1>3. \A i \in Nat, l \in Ids : InClse(i, l)' => Given(l)'
  BY <1>0, <1>1 DEF IdIn, ClseKept
<1> QED BY <1>2, <1>3 DEF IdIn

LEMMA LossIdOut ==
    ASSUME IdOut, NEW m \in {0, 1}, OutFewer(m),
           local_id_counter' = local_id_counter, adbd'.next = adbd.next
    PROVE  IdOut'
<1>0. \A i \in Nat : i + m \in Nat
  OBVIOUS
<1>1. \A l \in Ids : (Given(l)' <=> Given(l)) /\ (Used(l)' <=> Used(l))
  BY GivenSame, UsedSame
<1>2. \A i \in Nat, r, l \in Ids :
          OutOkay(i, r, l)' \/ OutWrte(i, r, l)' => Used(r)' /\ Given(l)'
  BY <1>0, <1>1 DEF IdOut, OutFewer
<1>3. \A i \in Nat, r, l \in Ids : OutClse(i, r, l)' => r < adbd'.next /\ Given(l)'
  BY <1>0, <1>1 DEF IdOut, OutFewer
<1>4. \A i \in Nat, l \in Ids : OutOpen(i, l)' => Given(l)'
  BY <1>0, <1>1 DEF IdOut, OutFewer
<1> QED BY <1>2, <1>3, <1>4 DEF IdOut

LEMMA LossIdSock ==
    ASSUME IdSock, SocksKept, local_id_counter' = local_id_counter
    PROVE  IdSock'
<1>1. \A l \in Ids : (Given(l)' <=> Given(l)) /\ (Used(l)' <=> Used(l))
  BY GivenSame, UsedSame DEF SocksKept
<1> QED BY <1>1 DEF IdSock, SocksKept

LEMMA LossIdChan ==
    ASSUME TypeOK, IdChan, HostKept, adbd'.next = adbd.next
    PROVE  IdChan'
<1>1. \A l \in Ids : Given(l)' <=> Given(l)
  BY GivenSame DEF HostKept
<1>2. ActiveKept
  BY HostActive
<1>3. \A h \in Handles :
         /\ adb_channels'[h].local = 0 \/ Given(adb_channels[h].local)'
         /\ adb_channels'[h].local # 0 => HandleOf(adb_channels'[h].local) = h
         /\ adb_channels'[h].state # "FREE" => adb_channels'[h].local # 0
         /\ adb_channels'[h].remote < adbd'.next
  BY <1>1, IdsHere DEF IdChan, HostKept
<1>4. \A h \in Handles :
         Active(h)' \/ adb_channels'[h].ack => 0 < adb_channels'[h].remote
  BY <1>2 DEF IdChan, HostKept, ActiveKept
<1> QED BY <1>3, <1>4 DEF IdChan

\* An opening without an answer still has none.
LEMMA LossUnasked ==
    ASSUME BindsFewer, NEW k \in {0, 1}, ClseKept(k)
    PROVE  \A l \in Ids : Unasked(l) => Unasked(l)'
<1>1. \A i \in Nat : i + k \in Nat
  OBVIOUS
<1> QED BY <1>1 DEF BindsFewer, ClseKept, Unasked

LEMMA LossOpenOut ==
    ASSUME OpenOut, NEW m \in {0, 1}, OutFewer(m),
           \A l \in Ids, i \in Nat : OutOpen(i, l)' /\ Unasked(l) => Unasked(l)',
           \A h \in Handles, l \in Ids, i \in Nat :
              OutOpen(i, l)' /\ adb_channels'[h].local = l =>
                 /\ adb_channels[h].local = l
                 /\ adb_channels'[h].state \in {"FREE", "START"}
                       => adb_channels[h].state \in {"FREE", "START"}
    PROVE  OpenOut'
<1> SUFFICES ASSUME NEW i \in Nat, NEW l \in Ids, OutOpen(i, l)'
             PROVE  /\ Unasked(l)'
                    /\ \A j \in Nat : OutOpen(j, l)' => j = i
                    /\ \A h \in Handles :
                          adb_channels'[h].local = l =>
                             adb_channels'[h].state \notin {"FREE", "START"}
  BY DEF OpenOut
<1>1. i + m \in Nat /\ OutOpen(i + m, l)
  BY DEF OutFewer
<1>2. \A j \in Nat : OutOpen(j, l)' => j + m = i + m
  BY <1>1 DEF OpenOut, OutFewer
<1> QED BY <1>1, <1>2 DEF OpenOut

LEMMA LossOpenChan ==
    ASSUME OpenChan, HostKept, NEW k \in {0, 1}, ClseKept(k), BindsFewer,
           AnswersKept
    PROVE  OpenChan'
<1>1. \A l \in Ids : Unasked(l) => Unasked(l)'
  BY LossUnasked
<1> QED BY <1>1 DEF OpenChan, HostKept, Live, BindsFewer, AnswersKept

LEMMA LossFresh ==
    ASSUME FreshInv, HostKept PROVE FreshInv'
BY DEF FreshInv, Fresh, HostKept, Live

LEMMA LossOpen ==
    ASSUME OpenInv, HostKept, FreeKept, NEW k \in {0, 1}, NEW m \in {0, 1},
           ClseKept(k), OutFewer(m), BindsFewer, AnswersKept
    PROVE  OpenInv'
<1>1. \A l \in Ids : Unasked(l) => Unasked(l)'
  BY LossUnasked
<1>2. \A h \in Handles :
         /\ adb_channels'[h].local = adb_channels[h].local
         /\ adb_channels'[h].state \in {"FREE", "START"}
               => adb_channels[h].state \in {"FREE", "START"}
  BY DEF HostKept, FreeKept, Live
<1>3. OpenOut'
  BY <1>1, <1>2, LossOpenOut DEF OpenInv
<1> QED BY <1>3, LossOpenChan, LossFresh DEF OpenInv

LEMMA LossCloseIn ==
    ASSUME CloseIn, SocksKept, NEW k \in {0, 1}, WrteFewer(k), ClseKept(k)
    PROVE  CloseIn'
<1> SUFFICES ASSUME NEW i \in Nat, NEW r \in Ids, NEW l \in Ids, InClse(i, l)'
             PROVE  ~Sock(r, l)' /\ \A j \in Nat : InWrte(j, r, l)' => j < i
  BY DEF CloseIn
<1>1. InClse(i + k, l) /\ i + k \in Nat
  BY DEF ClseKept
<1>2. \A j \in Nat : InWrte(j, r, l)' => j + k < i + k
  BY <1>1 DEF CloseIn, WrteFewer
<1> QED BY <1>1, <1>2 DEF CloseIn, SocksKept

LEMMA LossCloseChan ==
    ASSUME CloseChan, SocksKept, NEW k \in {0, 1}, WrteFewer(k), FreeKept,
           \A h \in Handles :
              /\ adb_channels'[h].local = adb_channels[h].local
              /\ adb_channels'[h].remote = adb_channels[h].remote
    PROVE  CloseChan'
<1>1. \A i \in Nat : i + k \in Nat
  OBVIOUS
<1> QED BY <1>1 DEF CloseChan, WrteFewer, SocksKept, FreeKept

LEMMA LossCloseOut ==
    ASSUME CloseOut, SocksKept, NEW m \in {0, 1}, OutFewer(m)
    PROVE  CloseOut'
<1>1. \A i \in Nat : i + m \in Nat
  OBVIOUS
<1> QED BY <1>1 DEF CloseOut, OutFewer, SocksKept

LEMMA LossAck ==
    ASSUME AckInv, NEW k \in {0, 1}, NEW m \in {0, 1}, WrteFewer(k), OutFewer(m),
           \A h \in Handles, r \in Ids : AckAt(h, r)' => AckAt(h, r),
           \A r \in Ids :
              Awaits(r) => \/ Awaits(r)'
                           \/ /\ \A i \in Nat, l \in Ids : /\ ~InWrte(i, r, l)'
                                                           /\ ~OutOkay(i, r, l)'
                              /\ \A h \in Handles : ~AckAt(h, r)
    PROVE  AckInv'
<1>0. \A i \in Nat : i + k \in Nat /\ i + m \in Nat
  OBVIOUS
<1>1. \A i \in Nat, r, l \in Ids :
         /\ InWrte(i, r, l)' => InWrte(i + k, r, l)
         /\ OutOkay(i, r, l)' => OutOkay(i + m, r, l)
  BY DEF WrteFewer, OutFewer
<1>2. AckAwaited'
  BY <1>0, <1>1 DEF AckInv, AckAwaited
<1>3. AckOnce'
  <2> SUFFICES ASSUME NEW i \in Nat, NEW j \in Nat,
                      NEW r \in Ids, NEW l \in Ids, NEW q \in Ids
               PROVE  /\ InWrte(i, r, l)' /\ InWrte(j, r, q)' => j = i
                      /\ OutOkay(i, r, l)' /\ OutOkay(j, r, q)' => j = i
                      /\ ~(InWrte(i, r, l)' /\ OutOkay(j, r, q)')
    BY DEF AckOnce
  <2>1. /\ i + k \in Nat /\ i + m \in Nat /\ j + k \in Nat /\ j + m \in Nat
        /\ InWrte(i, r, l)' /\ InWrte(j, r, q)' => j + k = i + k
        /\ OutOkay(i, r, l)' /\ OutOkay(j, r, q)' => j + m = i + m
        /\ ~(InWrte(i, r, l)' /\ OutOkay(j, r, q)')
    BY <1>0, <1>1 DEF AckInv, AckOnce
  <2> QED BY <2>1
<1>4. AckChan'
  BY <1>0, <1>1 DEF AckInv, AckChan
<1> QED BY <1>2, <1>3, <1>4 DEF AckInv

\* Channels that were closed owe no new acknowledgement.
LEMMA HostAcks ==
    ASSUME HostKept
    PROVE  \A h \in Handles, r \in Ids : AckAt(h, r)' => AckAt(h, r)
BY DEF HostKept, AckAt

LEMMA LossDeliver ==
    ASSUME DeliverInv, SocksKept, SentsKept, NEW k \in {0, 1}, WrteKept(k),
           \A h \in Handles :
              adb_channels'[h].state \in Live =>
                 /\ adb_channels[h].state \in Live
                 /\ adb_channels'[h].local = adb_channels[h].local
                 /\ app'[h] = app[h] /\ got'[h] = got[h]
    PROVE  DeliverInv'
<1> SUFFICES ASSUME NEW h \in Handles, NEW l \in Ids,
                    adb_channels'[h].state \in Live, adb_channels'[h].local = l
             PROVE  /\ Holds(h)' /\ l = LocalId(app'[h], h)
                    /\ \A i \in Nat, r \in Ids :
                          InWrte(i, r, l)' =>
                             /\ InData(i)' = NextData(got'[h])
                             /\ Sock(r, l)' => adbd'.sockets[r].sent = InData(i)'
                    /\ \A r \in Ids :
                          Sock(r, l)' => \/ adbd'.sockets[r].sent = got'[h]
                                         \/ \E i \in Nat : InWrte(i, r, l)'
  BY DEF DeliverInv
<1>1. /\ adb_channels[h].state \in Live /\ adb_channels[h].local = l
      /\ app'[h] = app[h] /\ got'[h] = got[h]
  OBVIOUS
<1>2. Holds(h)' /\ l = LocalId(app'[h], h)
  BY <1>1 DEF DeliverInv, Holds
<1>3. ASSUME NEW i \in Nat, NEW r \in Ids, InWrte(i, r, l)'
      PROVE  /\ InData(i)' = NextData(got'[h])
             /\ Sock(r, l)' => adbd'.sockets[r].sent = InData(i)'
  <2>1. i + k \in Nat /\ InWrte(i + k, r, l) /\ InData(i)' = InData(i + k)
    BY <1>3 DEF WrteKept, WrteFewer
  <2> QED BY <1>1, <2>1 DEF DeliverInv, SocksKept, SentsKept
<1>4. ASSUME NEW r \in Ids, Sock(r, l)'
      PROVE  \/ adbd'.sockets[r].sent = got'[h]
             \/ \E i \in Nat : InWrte(i, r, l)'
  BY <1>1, <1>4 DEF DeliverInv, SocksKept, SentsKept, WrteKept
<1> QED BY <1>2, <1>3, <1>4

LEMMA LossWriteOnce ==
    ASSUME WriteOnce, NEW k \in {0, 1}, NEW m \in {0, 1}, OkayFewer(k), OutFewer(m)
    PROVE  WriteOnce'
<1> SUFFICES ASSUME NEW i \in Nat, NEW j \in Nat,
                    NEW r \in Ids, NEW l \in Ids, NEW q \in Ids
             PROVE  /\ OutWrte(i, r, l)' /\ OutWrte(j, r, q)' => j = i
                    /\ InOkay(i, r, l)' /\ InOkay(j, r, q)' => j = i
                    /\ ~(OutWrte(i, r, l)' /\ InOkay(j, r, q)')
  BY DEF WriteOnce
<1>1. /\ i + k \in Nat /\ j + k \in Nat /\ i + m \in Nat /\ j + m \in Nat
      /\ InOkay(i, r, l)' => InOkay(i + k, r, l)
      /\ InOkay(j, r, q)' => InOkay(j + k, r, q)
      /\ OutWrte(i, r, l)' => OutWrte(i + m, r, l)
      /\ OutWrte(j, r, q)' => OutWrte(j + m, r, q)
  BY DEF OkayFewer, OutFewer
<1>2. /\ ~(OutWrte(i, r, l)' /\ InOkay(j, r, q)')
      /\ OutWrte(i, r, l)' /\ OutWrte(j, r, q)' => j + m = i + m
      /\ InOkay(i, r, l)' /\ InOkay(j, r, q)' => j + k = i + k
  BY <1>1 DEF WriteOnce
<1> QED BY <1>2

LEMMA LossWriteOut ==
    ASSUME WriteOut, SocksKept, ReadsKept, NEW m \in {0, 1}, OutFewer(m)
    PROVE  WriteOut'
<1>0. \A i \in Nat : i + m \in Nat
  OBVIOUS
<1> QED BY <1>0 DEF WriteOut, SocksKept, ReadsKept, OutFewer

LEMMA LossWrite ==
    ASSUME WriteInv, SocksKept, ReadsKept, NEW k \in {0, 1}, NEW m \in {0, 1},
           OkayFewer(k), OutFewer(m),
           \A h \in Handles :
              adb_channels'[h].state \in {"WAIT_OPEN", "IDLE", "WAIT_READY"} =>
                 /\ adb_channels'[h].state = adb_channels[h].state
                 /\ adb_channels'[h].data = adb_channels[h].data
                 /\ adb_channels'[h].local = adb_channels[h].local
                 /\ adb_channels'[h].remote = adb_channels[h].remote
                 /\ wrote'[h] = wrote[h]
    PROVE  WriteInv'
<1>0. \A i \in Nat : i + k \in Nat /\ i + m \in Nat
  OBVIOUS
<1>1. WriteOnce' /\ WriteOut'
  BY LossWriteOnce, LossWriteOut DEF WriteInv
<1>2. WriteIdle'
  <2>1. \A h \in Handles, r, l \in Ids :
           Sock(r, l)' /\ adb_channels'[h].state = "IDLE" /\ Written(h, r)
              => Written(h, r)'
    BY DEF ReadsKept, Written
  <2> QED BY <1>0, <2>1 DEF WriteInv, WriteIdle, SocksKept, OkayFewer, OutFewer
<1>3. WriteReady'
  <2> SUFFICES ASSUME NEW h \in Handles, NEW r \in Ids,
                      adb_channels'[h].state = "WAIT_READY",
                      adb_channels'[h].remote = r,
                      NEW i \in Nat, NEW l \in Ids, Sock(r, l)'
               PROVE  /\ OutWrte(i, r, l)' => OutData(i)' = wrote'[h]
                      /\ InOkay(i, r, l)' => wrote'[h] = adbd'.sockets[r].read
    BY DEF WriteReady
  <2>1. /\ OutWrte(i, r, l)' => /\ OutWrte(i + m, r, l)
                                /\ OutData(i)' = OutData(i + m)
        /\ InOkay(i, r, l)' => InOkay(i + k, r, l)
        /\ Sock(r, l) /\ adbd'.sockets[r].read = adbd.sockets[r].read
    BY DEF OkayFewer, OutFewer, SocksKept, ReadsKept
  <2>2. /\ adb_channels[h].state = "WAIT_READY" /\ adb_channels[h].remote = r
        /\ wrote'[h] = wrote[h]
    OBVIOUS
  <2> QED BY <1>0, <2>1, <2>2 DEF WriteInv, WriteReady
<1>4. WriteOpen'
  BY <1>0 DEF WriteInv, WriteOpen, SocksKept, ReadsKept, OkayFewer
<1> QED BY <1>1, <1>2, <1>3, <1>4 DEF WriteInv

\* Those that were not keep what they are about to write.
LEMMA HostWrites ==
    ASSUME HostKept
    PROVE  \A h \in Handles :
              adb_channels'[h].state \in Live =>
                 /\ adb_channels'[h].state = adb_channels[h].state
                 /\ adb_channels'[h].data = adb_channels[h].data
                 /\ adb_channels'[h].local = adb_channels[h].local
                 /\ adb_channels'[h].remote = adb_channels[h].remote
                 /\ app'[h] = app[h] /\ got'[h] = got[h] /\ wrote'[h] = wrote[h]
BY DEF HostKept

\* A host that stays the same keeps everything.
LEMMA HostSameKept ==
    ASSUME HostSame
    PROVE  /\ HostKept /\ FreeKept /\ ActiveKept
           /\ adb_channels' = adb_channels /\ local_id_counter' = local_id_counter
           /\ app' = app /\ got' = got /\ wrote' = wrote
           /\ \A h \in Handles, r \in Ids : AckAt(h, r)' => AckAt(h, r)
<1>1. HostKept /\ FreeKept
  BY DEF HostSame, HostKept, FreeKept
<1> QED BY <1>1, HostActive, HostAcks DEF HostSame

\* The invariant but for the acknowledgements, which some steps settle, and the
\* openings and closures, which closing a channel concerns.
LEMMA LossData ==
    ASSUME TypeOK, Parts, HostKept, SocksFewer,
           NEW k \in {0, 1}, NEW m \in {0, 1}, OkayFewer(k), WrteKept(k),
           ClseKept(k), OutFewer(m)
    PROVE  IdInv' /\ BindInv' /\ BindsFewer /\ DeliverInv' /\ WriteInv'
<1>1. /\ adbd'.next = adbd.next /\ local_id_counter' = local_id_counter
      /\ SocksKept /\ SentsKept /\ ReadsKept /\ WrteFewer(k)
  BY DEF SocksFewer, SocksKept, HostKept, WrteKept
<1>2. IdInv'
  BY <1>1, LossIdIn, LossIdOut, LossIdSock, LossIdChan DEF Parts, IdInv
<1>3. BindsFewer
  BY <1>1, LossBinds, HostActive
<1>4. DeliverInv'
  BY <1>1, LossDeliver, HostWrites DEF Parts
<1>5. WriteInv'
  <2>1. \A h \in Handles :
           adb_channels'[h].state \in {"WAIT_OPEN", "IDLE", "WAIT_READY"} =>
              /\ adb_channels'[h].state = adb_channels[h].state
              /\ adb_channels'[h].data = adb_channels[h].data
              /\ adb_channels'[h].local = adb_channels[h].local
              /\ adb_channels'[h].remote = adb_channels[h].remote
              /\ wrote'[h] = wrote[h]
    BY HostWrites DEF Live
  <2> QED BY <1>1, <2>1, LossWrite DEF Parts
<1> QED BY <1>2, <1>3, <1>4, <1>5, BindFewer DEF Parts

\* The openings and closures too.
LEMMA LossRest ==
    ASSUME TypeOK, Parts, HostKept, FreeKept, SocksFewer,
           NEW k \in {0, 1}, NEW m \in {0, 1}, InKept(k), OutFewer(m)
    PROVE  /\ IdInv' /\ BindInv' /\ OpenInv' /\ CloseInv'
           /\ DeliverInv' /\ WriteInv'
<1>1. OkayKept(k) /\ OkayFewer(k) /\ WrteKept(k) /\ WrteFewer(k) /\ ClseKept(k)
      /\ SocksKept
  BY DEF InKept, OkayKept, WrteKept, SocksFewer
<1>2. /\ IdInv' /\ BindInv' /\ DeliverInv' /\ WriteInv'
      /\ BindsFewer /\ AnswersKept
  BY <1>1, LossData, LossAnswered
<1>3. OpenInv'
  BY <1>1, <1>2, LossOpen DEF Parts
<1>4. CloseInv'
  BY <1>1, LossCloseIn, LossCloseChan, LossCloseOut
     DEF Parts, CloseInv, HostKept
<1> QED BY <1>2, <1>3, <1>4

\* Together: nothing that was only taken away breaks the invariant.
LEMMA LossParts ==
    ASSUME TypeOK, Parts, HostKept, FreeKept, SocksFewer, AwaitsKept,
           NEW k \in {0, 1}, NEW m \in {0, 1}, InKept(k), OutFewer(m)
    PROVE  Parts'
<1>1. AckInv'
  BY LossAck, HostAcks DEF Parts, InKept, WrteKept, AwaitsKept
<1> QED BY <1>1, LossRest DEF Parts

----------------------------------------------------------------------------
(* The daemon's steps.                                                     *)

\* A daemon's answer is the last packet to the host, what it reads the first
\* from it.
LEMMA ReplyEffect ==
    ASSUME TypeOK, TypeOK', NEW p \in Packets, recvPort' = recvPort
    PROVE  /\ Reply(p) => InGets(p)
           /\ toHost' = toHost => InKept(0)
<1>1. ASSUME Reply(p) PROVE IsAppend(Incoming', Incoming, p)
  <2>1. recvPort.pkt \in Packets /\ toHost \in Seq(Packets)
    BY DEF TypeOK, Ports
  <2>2. toHost' = Append(toHost, p)
    BY <1>1 DEF Reply
  <2>3. CASE recvPort.state = "IDLE"
    <3>1. /\ Incoming = <<recvPort.pkt>> \o toHost
          /\ Incoming' = <<recvPort.pkt>> \o Append(toHost, p)
      BY <2>2, <2>3 DEF Incoming
    <3> QED BY <2>1, <3>1 DEF IsAppend
  <2>4. CASE recvPort.state # "IDLE"
    BY <2>1, <2>2, <2>4 DEF Incoming, IsAppend
  <2> QED BY <2>3, <2>4
<1>2. toHost' = toHost => Incoming' = Incoming
  BY DEF Incoming
<1> QED BY <1>1, <1>2, InAppend, InSame

\* What the daemon reads was the first packet to it.
LEMMA ReadEffect ==
    ASSUME TypeOK, TypeOK', toDev # <<>>, AdbdReads(Head(toDev))
    PROVE  /\ OutFewer(1)
           /\ Head(toDev) \in Packets /\ Len(Outgoing) >= 1
           /\ Outgoing[1] = Head(toDev)
<1>1. sendPort.pkt \in Packets /\ toDev \in Seq(Packets)
  BY DEF TypeOK, Ports
<1>2. toDev' = Tail(toDev) /\ sendPort' = sendPort
  BY DEF AdbdReads, AdbdStep, port
<1>3. CASE sendPort.state = "BUSY"
  <2>1. /\ Outgoing = Append(toDev, sendPort.pkt)
        /\ Outgoing' = Append(Tail(toDev), sendPort.pkt)
    BY <1>2, <1>3 DEF Outgoing
  <2>2. IsTail(Outgoing', Outgoing) /\ Len(Outgoing) >= 1
        /\ Outgoing[1] = Head(toDev)
    BY <1>1, <2>1 DEF IsTail
  <2> QED BY <1>1, <2>2, OutTake
<1>4. CASE sendPort.state # "BUSY"
  <2>1. Outgoing = toDev /\ Outgoing' = Tail(toDev)
    BY <1>2, <1>4 DEF Outgoing
  <2>2. IsTail(Outgoing', Outgoing) /\ Len(Outgoing) >= 1
        /\ Outgoing[1] = Head(toDev)
    BY <1>1, <2>1 DEF IsTail
  <2> QED BY <1>1, <2>2, OutTake
<1> QED BY <1>3, <1>4

\* The daemon's steps leave the host alone.
LEMMA DaemonHostSame ==
    ASSUME AdbdStep PROVE HostSame /\ port' = port
BY DEF AdbdStep, HostSame, host, owner

\* The closure of an opening that has no socket, or has none any more.
LEMMA ClosureParts ==
    ASSUME TypeOK, Parts, HostSame, SocksFewer, AwaitsKept,
           NEW m \in {0, 1}, OutFewer(m),
           NEW l0 \in Ids, Given(l0), InGets(Packet("CLSE", 0, l0, 0)),
           \A r \in Ids : ~Sock(r, l0)', \A i \in Nat : ~OutOpen(i, l0)',
           \A h \in Handles :
              adb_channels[h].local = l0 => adb_channels[h].state # "START"
    PROVE  Parts'
<1>1. OkayKept(0) /\ WrteKept(0) /\ AnswersKept
  BY InGetsKeeps DEF Packet
<1>0. /\ HostKept /\ FreeKept /\ ActiveKept
      /\ adb_channels' = adb_channels /\ local_id_counter' = local_id_counter
      /\ app' = app /\ got' = got /\ wrote' = wrote
      /\ \A h \in Handles, r \in Ids : AckAt(h, r)' => AckAt(h, r)
  BY HostSameKept
<1>2. SocksKept /\ SentsKept /\ ReadsKept /\ OkayFewer(0) /\ WrteFewer(0)
      /\ BindsFewer
  BY <1>0, <1>1, LossBinds DEF SocksFewer, OkayKept, WrteKept
<1>3. BindInv' /\ AckInv' /\ DeliverInv' /\ WriteInv'
  BY <1>0, <1>1, <1>2, BindFewer, LossAck, LossDeliver, LossWrite
     DEF Parts, AwaitsKept
<1>4. PICK n \in Nat :
         \A i \in Nat, l \in Ids :
            /\ InClse(i, l)' <=> InClse(i, l) \/ (i = n /\ l = l0)
            /\ \A r \in Ids : InWrte(i, r, l) => i < n
  BY DEF InGets, Packet
<1>5. /\ adbd'.next = adbd.next /\ adb_channels' = adb_channels
      /\ local_id_counter' = local_id_counter
  BY DEF SocksFewer, SocksKept, HostSame
<1>6. IdInv'
  <2>1. \A l \in Ids : (Given(l)' <=> Given(l)) /\ (Used(l)' <=> Used(l))
    BY <1>5, GivenSame, UsedSame
  <2>2. \A i \in Nat, r, l \in Ids :
            InOkay(i, r, l)' \/ InWrte(i, r, l)' => Used(r)' /\ Given(l)'
    BY <1>1, <2>1, ZeroKept DEF IdInv, IdIn, Parts
  <2>3. \A i \in Nat, l \in Ids : InClse(i, l)' => Given(l)'
    BY <1>4, <2>1 DEF IdInv, IdIn, Parts
  <2> QED BY <1>0, <1>2, <1>5, <2>2, <2>3, LossIdOut, LossIdSock, LossIdChan
          DEF IdInv, IdIn, Parts
<1>7. OpenInv'
  <2>1. \A l \in Ids : l # l0 /\ Unasked(l) => Unasked(l)'
    BY <1>2, <1>4 DEF Unasked, BindsFewer
  <2>2. OpenOut'
    BY <1>5, <2>1, LossOpenOut DEF OpenInv, Parts
  <2>3. OpenChan'
    BY <1>1, <1>2, <1>5, <2>1
       DEF OpenInv, OpenChan, Parts, BindsFewer, AnswersKept
  <2> QED BY <2>2, <2>3 DEF OpenInv, FreshInv, Fresh, Parts, HostSame
<1>8. CloseInv'
  <2>1. \A j \in Nat, r, l \in Ids : InWrte(j, r, l)' => InWrte(j, r, l) /\ j < n
    BY <1>1, <1>4, ZeroKept
  <2>2. CloseIn'
    BY <1>4, <2>1 DEF CloseInv, CloseIn, Parts, SocksFewer, SocksKept
  <2> QED BY <1>0, <1>2, <1>5, <2>2, LossCloseChan, LossCloseOut
     DEF CloseInv, Parts
<1> QED BY <1>3, <1>6, <1>7, <1>8 DEF Parts

\* The daemon closes a socket.
LEMMA CloseEffect ==
    ASSUME TypeOK, NEW q \in Opens, adbd.sockets[q].open,
           adbd' = [adbd EXCEPT !.sockets[q] = NoSocket]
    PROVE  /\ SocksFewer /\ AwaitsKept
           /\ \A l \in Ids : ~Sock(q, l)'
           /\ adbd.sockets[q].local \in Ids /\ Sock(q, adbd.sockets[q].local)
<1>1. /\ adbd'.next = adbd.next
      /\ adbd'.sockets[q].open = FALSE
      /\ \A r \in Opens \ {q} : adbd'.sockets[r] = adbd.sockets[r]
  BY DEF TypeOK, NoSocket
<1>2. SocksFewer
  BY <1>1 DEF SocksFewer, SocksKept, SentsKept, ReadsKept, Sock
<1>3. AwaitsKept
  BY <1>1 DEF AwaitsKept, Awaits
<1>4. \A l \in Ids : ~Sock(q, l)'
  BY <1>1 DEF Sock
<1>5. adbd.sockets[q].local \in Ids /\ Sock(q, adbd.sockets[q].local)
  BY DEF TypeOK, Sockets, Sock
<1> QED BY <1>2, <1>3, <1>4, <1>5

\* What binds an opening was asked for: the opening has been read.
LEMMA BoundIsAsked ==
    ASSUME Parts, NEW r \in Ids, NEW l \in Ids, Sock(r, l)
    PROVE  /\ Given(l)
           /\ \A i \in Nat : ~OutOpen(i, l)
           /\ \A h \in Handles :
                 adb_channels[h].local = l => adb_channels[h].state # "START"
           /\ \A q \in Ids : Sock(q, l) => q = r
<1>1. \A q \in Ids : Sock(q, l) => Binds(q, l)
  BY DEF Binds
<1> QED BY <1>1 DEF Parts, IdInv, IdSock, BindInv, OpenInv, OpenOut, OpenChan,
                   Unasked

\* The sockets of a daemon that does nothing.
LEMMA SocksSame ==
    ASSUME UNCHANGED adbd PROVE SocksFewer /\ AwaitsKept
BY DEF SocksFewer, SocksKept, SentsKept, ReadsKept, AwaitsKept, Sock, Awaits

\* What the first packet to the daemon is.
LEMMA FirstOut ==
    ASSUME TypeOK, Len(Outgoing) >= 1, NEW p, p = Outgoing[1]
    PROVE  /\ p.cmd = "OPEN" => OutOpen(1, p.arg0)
           /\ p.cmd = "OKAY" => OutOkay(1, p.arg1, p.arg0)
           /\ p.cmd = "WRTE" => OutWrte(1, p.arg1, p.arg0) /\ OutData(1) = p.data
           /\ p.cmd = "CLSE" => OutClse(1, p.arg1, p.arg0)
<1>1. 1 \in 1 .. Len(Outgoing)
  BY StreamTypes
<1> QED BY <1>1 DEF OutOpen, OutOkay, OutWrte, OutClse, OutData

\* The ids in a packet are ids.
LEMMA PacketIds ==
    ASSUME NEW p \in Packets
    PROVE  p.arg0 \in Ids /\ p.arg1 \in Ids /\ p.data \in Data
BY DEF Packets

\* A second CNXN opens nothing.
LEMMA PartsCnxn ==
    ASSUME TypeOK, TypeOK', Parts, AdbdCnxn
    PROVE  Parts'
<1>1. OutFewer(1) /\ HostSame /\ recvPort' = recvPort
  BY ReadEffect, DaemonHostSame DEF AdbdCnxn, AdbdReads, port
<1>2. SocksFewer /\ AwaitsKept
  <2>1. adbd'.next = adbd.next /\ adbd'.sockets = adbd.sockets
    BY DEF AdbdCnxn, TypeOK
  <2> QED BY <2>1
     DEF SocksFewer, SocksKept, SentsKept, ReadsKept, AwaitsKept, Sock,
         Awaits
<1>3. InKept(0)
  <2> DEFINE cnxn  == Packet("CNXN", 0, 0, 0)
             other == Packet("OTHER", 0, 0, 0)
  <2>1. cnxn \in Packets /\ other \in Packets
    BY PacketType, ZeroTypes DEF Commands
  <2>2. CASE toHost' = Append(toHost, cnxn)
    BY <1>1, <2>1, <2>2, ReplyEffect, InPlain DEF Reply, Packet
  <2>3. CASE toHost' = toHost \o <<other, cnxn>>
    <3>1. toHost \in Seq(Packets) /\ recvPort.pkt \in Packets
      BY DEF TypeOK, Ports
    <3>2. other.cmd = "OTHER" /\ cnxn.cmd = "CNXN"
      BY DEF Packet
    <3> HIDE DEF cnxn, other
    <3>3. /\ Len(Incoming') = Len(Incoming) + 2
          /\ \A i \in 1 .. Len(Incoming) : Incoming'[i] = Incoming[i]
          /\ Incoming'[Len(Incoming) + 1] = other
          /\ Incoming'[Len(Incoming) + 2] = cnxn
      <4>1. CASE recvPort.state = "IDLE"
        <5>1. /\ Incoming = <<recvPort.pkt>> \o toHost
              /\ Incoming' = <<recvPort.pkt>> \o (toHost \o <<other, cnxn>>)
          BY <1>1, <2>3, <4>1 DEF Incoming
        <5> QED BY <2>1, <3>1, <5>1
      <4>2. CASE recvPort.state # "IDLE"
        <5>1. Incoming = toHost /\ Incoming' = toHost \o <<other, cnxn>>
          BY <1>1, <2>3, <4>2 DEF Incoming
        <5> QED BY <2>1, <3>1, <5>1
      <4> QED BY <4>1, <4>2
    <3>4. Incoming \in Seq(Packets)
      BY StreamTypes
    <3>5. \A i \in 1 .. Len(Incoming') :
             i \in 1 .. Len(Incoming) \/ Incoming'[i].cmd \in {"CNXN", "OTHER"}
      BY <3>2, <3>3, <3>4
    <3>6. \A i \in Nat, r, l \in Ids : InOkay(i, r, l)' <=> InOkay(i, r, l)
      BY <3>3, <3>4, <3>5 DEF InOkay
    <3>7. \A i \in Nat, r, l \in Ids :
             /\ InWrte(i, r, l)' <=> InWrte(i, r, l)
             /\ InWrte(i, r, l) => InData(i)' = InData(i)
      BY <3>3, <3>4, <3>5 DEF InWrte, InData
    <3>8. \A i \in Nat, l \in Ids : InClse(i, l)' => InClse(i, l)
      BY <3>3, <3>4, <3>5 DEF InClse
    <3> QED BY <3>6, <3>7, <3>8
       DEF InKept, OkayKept, OkayFewer, WrteKept, WrteFewer, ClseKept
  <2> QED BY <2>2, <2>3 DEF AdbdCnxn
<1> QED BY <1>1, <1>2, <1>3, HostSameKept, LossParts

\* The daemon takes an acknowledgement: none is left for that socket.
LEMMA PartsOkay ==
    ASSUME TypeOK, TypeOK', Parts, AdbdOkay
    PROVE  Parts'
<1> PICK p \in Packets : p = Head(toDev)
  BY ReadEffect DEF AdbdOkay
<1>1. /\ OutFewer(1) /\ HostSame /\ recvPort' = recvPort
      /\ Len(Outgoing) >= 1 /\ Outgoing[1] = p
  BY ReadEffect, DaemonHostSame DEF AdbdOkay, AdbdReads, port
<1>2. InKept(0)
  <2>1. NoPacket \in Packets
    BY PacketType, ZeroTypes DEF NoPacket, Commands
  <2> QED BY <1>1, <2>1, ReplyEffect DEF AdbdOkay
<1>3. CASE IsOpen(p.arg1)
  <2> PICK q \in Ids, l \in Ids : q = p.arg1 /\ l = p.arg0
    BY PacketIds
  <2>1. adbd' = [adbd EXCEPT !.sockets[q].unacked = FALSE]
    BY <1>3 DEF AdbdOkay
  <2>2. q \in Opens
    BY <1>3 DEF IsOpen
  <2>3. /\ adbd'.next = adbd.next
        /\ \A r \in Opens :
              /\ adbd'.sockets[r].open = adbd.sockets[r].open
              /\ adbd'.sockets[r].local = adbd.sockets[r].local
              /\ adbd'.sockets[r].sent = adbd.sockets[r].sent
              /\ adbd'.sockets[r].read = adbd.sockets[r].read
              /\ r # q => adbd'.sockets[r].unacked = adbd.sockets[r].unacked
    <3>1. /\ adbd'.next = adbd.next
          /\ adbd'.sockets[q] = [adbd.sockets[q] EXCEPT !.unacked = FALSE]
          /\ \A r \in Opens \ {q} : adbd'.sockets[r] = adbd.sockets[r]
      BY <2>1, <2>2 DEF TypeOK
    <3>2. adbd.sockets[q] \in Sockets
      BY <2>2 DEF TypeOK
    <3>3. /\ adbd'.sockets[q].open = adbd.sockets[q].open
          /\ adbd'.sockets[q].local = adbd.sockets[q].local
          /\ adbd'.sockets[q].sent = adbd.sockets[q].sent
          /\ adbd'.sockets[q].read = adbd.sockets[q].read
      BY <3>1, <3>2 DEF Sockets
    <3> QED BY <3>1, <3>3
  <2>4. SocksFewer
    BY <2>3 DEF SocksFewer, SocksKept, SentsKept, ReadsKept, Sock
  <2>5. OutOkay(1, q, l)
    BY <1>1, FirstOut DEF AdbdOkay
  <2>6. \A r \in Ids : r # q /\ Awaits(r) => Awaits(r)'
    BY <2>3 DEF Awaits
  <2>7. \A i \in Nat, k \in Ids : ~InWrte(i, q, k)'
    BY <1>2, <2>5, ZeroKept DEF AckInv, AckOnce, Parts, InKept
  <2>8. \A h \in Handles : ~AckAt(h, q)
    BY <2>5 DEF AckInv, AckChan, Parts
  <2>9. \A i \in Nat, k \in Ids : ~OutOkay(i, q, k)'
    <3> SUFFICES ASSUME NEW i \in Nat, NEW k \in Ids, OutOkay(i, q, k)'
                 PROVE  FALSE
      OBVIOUS
    <3>1. OutOkay(i + 1, q, k) /\ 0 < i /\ i + 1 \in Nat
      BY <1>1 DEF OutFewer
    <3>2. i + 1 = 1
      BY <2>5, <3>1 DEF AckInv, AckOnce, Parts
    <3> QED BY <3>1, <3>2
  <2>10. \A r \in Ids :
            Awaits(r) => \/ Awaits(r)'
                         \/ /\ \A i \in Nat, k \in Ids : /\ ~InWrte(i, r, k)'
                                                         /\ ~OutOkay(i, r, k)'
                            /\ \A h \in Handles : ~AckAt(h, r)
    BY <2>6, <2>7, <2>8, <2>9
  <2>11. AckInv'
    BY <1>1, <1>2, <2>10, HostSameKept, LossAck DEF Parts, InKept, WrteKept
  <2> QED BY <1>1, <1>2, <2>4, <2>11, HostSameKept, LossRest DEF Parts
<1>4. CASE ~IsOpen(p.arg1)
  BY <1>1, <1>2, <1>4, SocksSame, HostSameKept, LossParts DEF AdbdOkay
<1> QED BY <1>3, <1>4

\* The server closes its end: the closure of that socket's opening.
LEMMA PartsClose ==
    ASSUME TypeOK, TypeOK', Parts, AdbdClose
    PROVE  Parts'
<1> PICK r \in Opens :
        /\ IsOpen(r)
        /\ Reply(Packet("CLSE", 0, adbd.sockets[r].local, 0))
        /\ adbd' = [adbd EXCEPT !.sockets[r] = NoSocket]
  BY DEF AdbdClose
<1>1. HostSame /\ port' = port /\ toDev' = toDev
  BY DaemonHostSame DEF AdbdClose
<1>2. OutFewer(0)
  BY <1>1, OutSame DEF Outgoing, port
<1>3. adbd.sockets[r].open
  BY DEF IsOpen
<1> PICK l \in Ids : l = adbd.sockets[r].local
  BY <1>3, CloseEffect
<1>4. /\ SocksFewer /\ AwaitsKept /\ \A q \in Ids : ~Sock(r, q)'
      /\ Sock(r, l)
  BY <1>3, CloseEffect
<1>5. r \in Ids
  BY DEF Ids, Opens
<1>6. /\ Given(l) /\ \A i \in Nat : ~OutOpen(i, l)
      /\ \A h \in Handles :
            adb_channels[h].local = l => adb_channels[h].state # "START"
      /\ \A q \in Ids : Sock(q, l) => q = r
  BY <1>4, <1>5, BoundIsAsked
<1>7. \A q \in Ids : ~Sock(q, l)'
  BY <1>4, <1>6 DEF SocksFewer, SocksKept
<1>8. \A i \in Nat : ~OutOpen(i, l)'
  <2>1. \A i \in Nat : i + 0 \in Nat
    OBVIOUS
  <2> QED BY <1>2, <1>6, <2>1 DEF OutFewer
<1>9. InGets(Packet("CLSE", 0, l, 0))
  <2>1. Packet("CLSE", 0, l, 0) \in Packets
    BY PacketType, ZeroTypes DEF Commands
  <2> QED BY <1>1, <2>1, ReplyEffect DEF port
<1> QED BY <1>1, <1>2, <1>4, <1>6, <1>7, <1>8, <1>9, ClosureParts

\* The daemon answers a closure of the host.
LEMMA PartsClse ==
    ASSUME TypeOK, TypeOK', Parts, AdbdClse
    PROVE  Parts'
<1> PICK p \in Packets : p = Head(toDev)
  BY ReadEffect DEF AdbdClse
<1>1. /\ OutFewer(1) /\ HostSame /\ recvPort' = recvPort
      /\ Len(Outgoing) >= 1 /\ Outgoing[1] = p
  BY ReadEffect, DaemonHostSame DEF AdbdClse, AdbdReads, port
<1>2. CASE IsOpen(p.arg1)
  <2> PICK r \in Ids, l \in Ids : r = p.arg1 /\ l = p.arg0
    BY PacketIds
  <2>1. adbd' = [adbd EXCEPT !.sockets[r] = NoSocket] /\ r \in Opens
        /\ adbd.sockets[r].open /\ Reply(Packet("CLSE", 0, l, 0))
    BY <1>2 DEF AdbdClse, IsOpen
  <2>3. OutClse(1, r, l)
    BY <1>1, FirstOut DEF AdbdClse
  <2> PICK k \in Ids : k = adbd.sockets[r].local
    BY <2>1, CloseEffect
  <2>4. /\ SocksFewer /\ AwaitsKept /\ \A q \in Ids : ~Sock(r, q)'
        /\ Sock(r, k)
    BY <2>1, CloseEffect
  <2>5. k = l
    BY <2>3, <2>4 DEF Parts, CloseInv, CloseOut
  <2>6. /\ Given(l) /\ \A i \in Nat : ~OutOpen(i, l)
        /\ \A h \in Handles :
              adb_channels[h].local = l => adb_channels[h].state # "START"
        /\ \A q \in Ids : Sock(q, l) => q = r
    BY <2>4, <2>5, BoundIsAsked
  <2>7. \A q \in Ids : ~Sock(q, l)'
    BY <2>4, <2>6 DEF SocksFewer, SocksKept
  <2>8. \A i \in Nat : ~OutOpen(i, l)'
    <3>1. \A i \in Nat : i + 1 \in Nat
      OBVIOUS
    <3> QED BY <1>1, <2>6, <3>1 DEF OutFewer
  <2>9. InGets(Packet("CLSE", 0, l, 0))
    <3>1. Packet("CLSE", 0, l, 0) \in Packets
      BY PacketType, ZeroTypes DEF Commands
    <3> QED BY <1>1, <2>1, <3>1, ReplyEffect
  <2> QED BY <1>1, <2>4, <2>6, <2>7, <2>8, <2>9, ClosureParts
<1>3. CASE ~IsOpen(p.arg1)
  <2>1. InKept(0) /\ UNCHANGED adbd
    <3>1. NoPacket \in Packets
      BY PacketType, ZeroTypes DEF NoPacket, Commands
    <3> QED BY <1>1, <1>3, <3>1, ReplyEffect DEF AdbdClse
  <2> QED BY <1>1, <2>1, SocksSame, HostSameKept, LossParts
<1> QED BY <1>2, <1>3


\* The daemon accepts a channel: its opening gets a socket of its own.
LEMMA OpenEffect ==
    ASSUME TypeOK, Parts, NEW r0 \in Ids, NEW l0 \in Ids, r0 \in Opens,
           r0 = adbd.next,
           adbd' = [adbd EXCEPT
                !.next = r0 + 1,
                !.sockets[r0] = [NoSocket EXCEPT !.local = l0, !.open = TRUE]]
    PROVE  /\ adbd'.next = r0 + 1
           /\ ~Used(r0) /\ \A l \in Ids : ~Sock(r0, l) /\ ~Binds(r0, l)
           /\ \A i \in Nat, l \in Ids : /\ ~InOkay(i, r0, l) /\ ~InWrte(i, r0, l)
                                        /\ ~OutOkay(i, r0, l) /\ ~OutWrte(i, r0, l)
                                        /\ ~OutClse(i, r0, l)
           /\ \A h \in Handles : adb_channels[h].remote # r0
           /\ \A r, l \in Ids :
                 Sock(r, l)' <=> Sock(r, l) \/ (r = r0 /\ l = l0)
           /\ adbd'.sockets[r0].sent = 0 /\ adbd'.sockets[r0].read = 0
           /\ \A r \in Opens : r # r0 => adbd'.sockets[r] = adbd.sockets[r]
           /\ \A r \in Ids : r # r0 => (Used(r)' <=> Used(r))
           /\ Used(r0)'
           /\ \A r \in Ids : r # r0 /\ Awaits(r) => Awaits(r)'
<1>1. /\ adbd'.next = r0 + 1 /\ r0 \in Nat /\ 0 < r0
      /\ adbd'.sockets[r0] = [NoSocket EXCEPT !.local = l0, !.open = TRUE]
      /\ \A r \in Opens : r # r0 => adbd'.sockets[r] = adbd.sockets[r]
  <2> DEFINE new == [NoSocket EXCEPT !.local = l0, !.open = TRUE]
  <2>1. adbd' = [adbd EXCEPT !.next = r0 + 1, !.sockets[r0] = new]
    OBVIOUS
  <2> HIDE DEF new
  <2>2. adbd \in [online : BOOLEAN, next : 1 .. MaxOpens + 1,
                  sockets : [Opens -> Sockets]]
    BY DEF TypeOK
  <2>3. /\ adbd'.next = r0 + 1 /\ adbd'.sockets[r0] = new
        /\ \A r \in Opens : r # r0 => adbd'.sockets[r] = adbd.sockets[r]
    <3>1. adbd'.next = r0 + 1
      BY <2>1, <2>2
    <3>2. adbd'.sockets = [adbd.sockets EXCEPT ![r0] = new]
      BY <2>1, <2>2
    <3> QED BY <2>2, <3>1, <3>2
  <2> QED BY <2>3, AdbAssumption DEF Opens, new
<1>2. /\ adbd'.sockets[r0].open /\ adbd'.sockets[r0].local = l0
      /\ adbd'.sockets[r0].sent = 0 /\ adbd'.sockets[r0].read = 0
  <2> DEFINE k == [NoSocket EXCEPT !.local = l0, !.open = TRUE]
  <2>1. k.open /\ k.local = l0 /\ k.sent = 0 /\ k.read = 0
    BY DEF NoSocket
  <2> HIDE DEF k
  <2>2. adbd'.sockets[r0] = k
    BY <1>1 DEF k
  <2> QED BY <2>1, <2>2
<1>3. ~Used(r0) /\ \A l \in Ids : ~Sock(r0, l)
  BY <1>1 DEF Used, Parts, IdInv, IdSock
<1>4. /\ \A i \in Nat, l \in Ids : /\ ~InOkay(i, r0, l) /\ ~InWrte(i, r0, l)
                                   /\ ~OutOkay(i, r0, l) /\ ~OutWrte(i, r0, l)
  BY <1>3 DEF Parts, IdInv, IdIn, IdOut
<1>5. /\ \A h \in Handles : adb_channels[h].remote # r0
      /\ \A i \in Nat, l \in Ids : ~OutClse(i, r0, l)
  BY <1>1 DEF Parts, IdInv, IdOut, IdChan
<1>6. \A l \in Ids : ~Binds(r0, l)
  BY <1>3, <1>4, <1>5 DEF Binds
<1>7. \A r, l \in Ids : Sock(r, l)' <=> Sock(r, l) \/ (r = r0 /\ l = l0)
  BY <1>1, <1>2, <1>3 DEF Sock
<1>8. /\ \A r \in Ids : r # r0 => (Used(r)' <=> Used(r))
      /\ Used(r0)'
  <2>1. \A r \in Ids : r \in Int
    BY LocalIdsAreInts DEF Ids
  <2> QED BY <1>1, <2>1 DEF Used
<1>9. \A r \in Ids : r # r0 /\ Awaits(r) => Awaits(r)'
  BY <1>1 DEF Awaits
<1> QED BY <1>1, <1>2, <1>3, <1>4, <1>5, <1>6, <1>7, <1>8, <1>9

\* Its answer is the first thing that names the new socket.
LEMMA AcceptParts ==
    ASSUME TypeOK, Parts, NEW r0 \in Ids, NEW l0 \in Ids, r0 \in Opens,
           r0 = adbd.next,
           adbd' = [adbd EXCEPT
                !.next = r0 + 1,
                !.sockets[r0] = [NoSocket EXCEPT !.local = l0, !.open = TRUE]],
           HostSame, OutFewer(1), OutOpen(1, l0),
           InGets(Packet("OKAY", r0, l0, 0))
    PROVE  Parts'
<1>1. /\ adbd'.next = r0 + 1
      /\ ~Used(r0) /\ \A l \in Ids : ~Sock(r0, l) /\ ~Binds(r0, l)
      /\ \A i \in Nat, l \in Ids : /\ ~InOkay(i, r0, l) /\ ~InWrte(i, r0, l)
                                   /\ ~OutOkay(i, r0, l) /\ ~OutWrte(i, r0, l)
                                   /\ ~OutClse(i, r0, l)
      /\ \A h \in Handles : adb_channels[h].remote # r0
  BY OpenEffect
<1>2. /\ \A r, l \in Ids : Sock(r, l)' <=> Sock(r, l) \/ (r = r0 /\ l = l0)
      /\ adbd'.sockets[r0].sent = 0 /\ adbd'.sockets[r0].read = 0
      /\ \A r \in Opens : r # r0 => adbd'.sockets[r] = adbd.sockets[r]
  BY OpenEffect
<1>3. /\ \A r \in Ids : Used(r)' <=> (Used(r) \/ r = r0)
      /\ \A l \in Ids : Given(l)' <=> Given(l)
  <2>1. \A r \in Ids : r # r0 => (Used(r)' <=> Used(r))
    BY OpenEffect
  <2>2. Used(r0)'
    BY OpenEffect
  <2> QED BY <1>1, <2>1, <2>2, GivenSame DEF HostSame
<1>4. \A r, l \in Ids : Sock(r, l)' /\ r # r0 =>
         /\ Sock(r, l)
         /\ adbd'.sockets[r].sent = adbd.sockets[r].sent
         /\ adbd'.sockets[r].read = adbd.sockets[r].read
  BY <1>2 DEF Sock
<1>5. /\ Given(l0) /\ Unasked(l0)
      /\ \A i \in Nat : OutOpen(i, l0) => i = 1
      /\ \A h \in Handles : adb_channels[h].local = l0 =>
                               adb_channels[h].state \notin {"FREE", "START"}
  BY DEF Parts, IdInv, IdOut, OpenInv, OpenOut
<1>6. WrteKept(0) /\ ClseKept(0) /\ AnswersKept
  BY InGetsKeeps DEF Packet
<1>7. PICK n \in Nat :
         \A i \in Nat, r, l \in Ids :
            InOkay(i, r, l)' <=> InOkay(i, r, l) \/ (i = n /\ r = r0 /\ l = l0)
  BY DEF InGets, Packet
<1>8. /\ \A i \in Nat, r, l \in Ids :
            /\ InWrte(i, r, l)' <=> InWrte(i, r, l)
            /\ InWrte(i, r, l)' => InData(i)' = InData(i)
      /\ \A i \in Nat, l \in Ids : InClse(i, l)' => InClse(i, l)
  BY <1>6, ZeroKept
<1>9. \A i \in Nat : i + 1 \in Nat
  OBVIOUS
<1>10. /\ adb_channels' = adb_channels /\ local_id_counter' = local_id_counter
       /\ app' = app /\ got' = got /\ wrote' = wrote
  BY DEF HostSame
<1>11. \A r, l \in Ids : Binds(r, l)' => Binds(r, l) \/ (r = r0 /\ l = l0)
  <2> SUFFICES ASSUME NEW r \in Ids, NEW l \in Ids, Binds(r, l)'
               PROVE  Binds(r, l) \/ (r = r0 /\ l = l0)
    OBVIOUS
  <2>1. CASE \E i \in Nat : InOkay(i, r, l)' \/ InWrte(i, r, l)' \/ OutWrte(i, r, l)'
    BY <1>7, <1>8, <1>9, <2>1 DEF Binds, OutFewer
  <2>2. CASE Sock(r, l)'
    BY <1>2, <2>2 DEF Binds
  <2>3. CASE \E h \in Handles : /\ Active(h)' /\ adb_channels'[h].remote = r
                                /\ adb_channels'[h].local = l
    BY <1>10, <2>3 DEF Binds, Active
  <2> QED BY <2>1, <2>2, <2>3 DEF Binds
<1>12. /\ \A r \in Ids : ~Binds(r, l0)
       /\ \A i \in Nat : ~InClse(i, l0)
  BY <1>5 DEF Unasked
<1>13. IdInv'
  <2>1. IdIn'
    BY <1>3, <1>5, <1>7, <1>8 DEF Parts, IdInv, IdIn
  <2>2. IdOut'
    <3>1. \A i \in Nat, l \in Ids : OutOpen(i, l)' => Given(l)'
      BY <1>3, <1>9 DEF Parts, IdInv, IdOut, OutFewer
    <3>2. \A i \in Nat, r, l \in Ids :
             OutOkay(i, r, l)' \/ OutWrte(i, r, l)' => Used(r)' /\ Given(l)'
      BY <1>3, <1>9 DEF Parts, IdInv, IdOut, OutFewer
    <3>3. \A i \in Nat, r, l \in Ids : OutClse(i, r, l)' => r < r0 /\ Given(l)'
      BY <1>3, <1>9 DEF Parts, IdInv, IdOut, OutFewer
    <3>4. \A r \in Ids : r < r0 => r < adbd'.next
      BY <1>1, LocalIdsAreInts DEF Ids
    <3> QED BY <3>1, <3>2, <3>3, <3>4 DEF IdOut
  <2>3. IdSock'
    BY <1>2, <1>3, <1>5 DEF Parts, IdInv, IdSock
  <2>4. IdChan'
    <3>1. \A h \in Handles : adb_channels[h].remote < adbd'.next
      BY <1>1, IdsHere, LocalIdsAreInts DEF Parts, IdInv, IdChan, Ids
    <3> QED BY <1>3, <1>10, <3>1, IdsHere DEF Parts, IdInv, IdChan, Active
  <2> QED BY <2>1, <2>2, <2>3, <2>4 DEF IdInv
<1>14. BindInv'
  BY <1>1, <1>11, <1>12 DEF Parts, BindInv
<1>15. \A l \in Ids : l # l0 /\ Unasked(l) => Unasked(l)'
  BY <1>8, <1>11 DEF Unasked
<1>16. OpenInv'
  <2>1. OpenOut'
    <3>1. \A l \in Ids, i \in Nat : OutOpen(i, l)' => l # l0
      <4> SUFFICES ASSUME NEW i \in Nat, OutOpen(i, l0)' PROVE FALSE
        OBVIOUS
      <4>1. 0 < i /\ OutOpen(i + 1, l0)
        BY DEF OutFewer
      <4>2. i + 1 = 1
        BY <1>5, <1>9, <4>1
      <4> QED BY <4>1, <4>2
    <3> QED BY <1>10, <1>15, <3>1, LossOpenOut DEF OpenInv, Parts
  <2>2. Answered(r0, l0)'
    <3>1. InOkay(n, r0, l0)' /\ \A j \in Nat : ~InWrte(j, r0, l0)'
      BY <1>1, <1>7, <1>8
    <3> QED BY <3>1 DEF Answered
  <2>3. OpenChan'
    <3> SUFFICES ASSUME NEW h \in Handles, NEW l \in Ids, adb_channels[h].local = l
                 PROVE  /\ adb_channels[h].state = "START" => Unasked(l)'
                        /\ adb_channels[h].state = "WAIT_OPEN" =>
                             \A r \in Ids : Binds(r, l)' => Answered(r, l)'
      BY <1>10 DEF OpenChan
    <3>1. adb_channels[h].state = "START" => Unasked(l)'
      BY <1>5, <1>15 DEF Parts, OpenInv, OpenChan
    <3>2. ASSUME adb_channels[h].state = "WAIT_OPEN", NEW r \in Ids, Binds(r, l)'
          PROVE  Answered(r, l)'
      BY <1>6, <1>11, <2>2, <3>2 DEF Parts, OpenInv, OpenChan, AnswersKept
    <3> QED BY <3>1, <3>2
  <2> QED BY <1>10, <2>1, <2>3 DEF Parts, OpenInv, FreshInv, Fresh
<1>17. CloseInv'
  <2>1. CloseIn'
    BY <1>2, <1>8, <1>12 DEF Parts, CloseInv, CloseIn
  <2>2. CloseChan'
    BY <1>1, <1>2, <1>5, <1>8, <1>10 DEF Parts, CloseInv, CloseChan
  <2>3. CloseOut'
    BY <1>1, <1>2, <1>9 DEF Parts, CloseInv, CloseOut, OutFewer
  <2> QED BY <2>1, <2>2, <2>3 DEF CloseInv
<1>18. AckInv'
  <2>1. /\ \A i \in Nat, l \in Ids : ~InWrte(i, r0, l)' /\ ~OutOkay(i, r0, l)'
        /\ \A h \in Handles : ~AckAt(h, r0)
    BY <1>1, <1>8, <1>9 DEF AckAt, OutFewer
  <2>2. \A r \in Ids :
           Awaits(r) => \/ Awaits(r)'
                        \/ /\ \A i \in Nat, l \in Ids : /\ ~InWrte(i, r, l)'
                                                        /\ ~OutOkay(i, r, l)'
                           /\ \A h \in Handles : ~AckAt(h, r)
    <3>1. \A r \in Ids : r # r0 /\ Awaits(r) => Awaits(r)'
      BY OpenEffect
    <3> QED BY <2>1, <3>1
  <2> QED BY <1>6, <2>2, HostSameKept, LossAck DEF Parts, WrteKept
<1>19. DeliverInv'
  <2> SUFFICES ASSUME NEW h \in Handles, NEW l \in Ids,
                      adb_channels[h].state \in Live, adb_channels[h].local = l
               PROVE  /\ Holds(h)' /\ l = LocalId(app'[h], h)
                      /\ \A i \in Nat, r \in Ids :
                            InWrte(i, r, l)' =>
                               /\ InData(i)' = NextData(got'[h])
                               /\ Sock(r, l)' => adbd'.sockets[r].sent = InData(i)'
                      /\ \A r \in Ids :
                            Sock(r, l)' => \/ adbd'.sockets[r].sent = got'[h]
                                           \/ \E i \in Nat : InWrte(i, r, l)'
    BY <1>10 DEF DeliverInv
  <2>1. Holds(h)' /\ l = LocalId(app'[h], h)
    BY <1>10 DEF Parts, DeliverInv, Holds
  <2>2. ASSUME NEW i \in Nat, NEW r \in Ids, InWrte(i, r, l)'
        PROVE  /\ InData(i)' = NextData(got'[h])
               /\ Sock(r, l)' => adbd'.sockets[r].sent = InData(i)'
    <3>1. InWrte(i, r, l) /\ InData(i)' = InData(i) /\ r # r0
      BY <1>1, <1>8, <2>2
    <3> QED BY <1>4, <1>10, <3>1 DEF Parts, DeliverInv
  <2>3. ASSUME NEW r \in Ids, Sock(r, l)'
        PROVE  \/ adbd'.sockets[r].sent = got'[h]
               \/ \E i \in Nat : InWrte(i, r, l)'
    <3>1. CASE r = r0
      <4>1. l = l0
        BY <1>1, <1>2, <2>3, <3>1
      <4>2. ~Active(h)
        BY <1>12, <4>1, IdsHere DEF Binds
      <4>3. Fresh(h)
        BY <1>5, <4>1, <4>2 DEF Active, Fresh, Live
      <4> QED BY <1>2, <1>10, <3>1, <4>3 DEF Parts, OpenInv, FreshInv
    <3>2. CASE r # r0
      BY <1>4, <1>8, <1>10, <2>3, <3>2 DEF Parts, DeliverInv
    <3> QED BY <3>1, <3>2
  <2> QED BY <2>1, <2>2, <2>3
<1>20. WriteInv'
  <2>1. \A i \in Nat, r, l \in Ids : OutWrte(i, r, l)' => r # r0
    BY <1>1, <1>9 DEF OutFewer
  <2>2. WriteOnce'
    <3> SUFFICES ASSUME NEW i \in Nat, NEW j \in Nat,
                        NEW r \in Ids, NEW l \in Ids, NEW q \in Ids
                 PROVE  /\ OutWrte(i, r, l)' /\ OutWrte(j, r, q)' => j = i
                        /\ InOkay(i, r, l)' /\ InOkay(j, r, q)' => j = i
                        /\ ~(OutWrte(i, r, l)' /\ InOkay(j, r, q)')
      BY DEF WriteOnce
    <3>1. OutWrte(i, r, l)' /\ OutWrte(j, r, q)' => j + 1 = i + 1
      BY <1>9 DEF Parts, WriteInv, WriteOnce, OutFewer
    <3>2. InOkay(i, r, l)' /\ InOkay(j, r, q)' => j = i
      BY <1>1, <1>7 DEF Parts, WriteInv, WriteOnce
    <3>3. ~(OutWrte(i, r, l)' /\ InOkay(j, r, q)')
      BY <1>1, <1>7, <1>9, <2>1 DEF Parts, WriteInv, WriteOnce, OutFewer
    <3> QED BY <3>1, <3>2, <3>3
  <2>3. WriteOut'
    BY <1>4, <1>9, <2>1 DEF Parts, WriteInv, WriteOut, OutFewer
  <2>4. WriteIdle'
    <3>1. \A h \in Handles, r, l \in Ids :
             Sock(r, l)' /\ r # r0 /\ Written(h, r) => Written(h, r)'
      BY <1>4, <1>10 DEF Written
    <3> QED BY <1>1, <1>4, <1>7, <1>9, <1>10, <3>1
            DEF Parts, WriteInv, WriteIdle, OutFewer
  <2>5. WriteReady'
    BY <1>1, <1>4, <1>7, <1>9, <1>10 DEF Parts, WriteInv, WriteReady, OutFewer
  <2>6. WriteOpen'
    BY <1>1, <1>2, <1>4, <1>7, <1>10 DEF Parts, WriteInv, WriteOpen
  <2> QED BY <2>2, <2>3, <2>4, <2>5, <2>6 DEF WriteInv
<1> QED BY <1>13, <1>14, <1>16, <1>17, <1>18, <1>19, <1>20 DEF Parts

\* An opening is accepted or refused.
LEMMA PartsOpen ==
    ASSUME TypeOK, TypeOK', Parts, AdbdOpen
    PROVE  Parts'
<1> PICK p \in Packets : p = Head(toDev)
  BY ReadEffect DEF AdbdOpen
<1> PICK l \in Ids : l = p.arg0
  BY PacketIds
<1>1. /\ OutFewer(1) /\ HostSame /\ recvPort' = recvPort
      /\ Len(Outgoing) >= 1 /\ Outgoing[1] = p
  BY ReadEffect, DaemonHostSame DEF AdbdOpen, AdbdReads, port
<1>2. OutOpen(1, l)
  BY <1>1, FirstOut DEF AdbdOpen
<1> PICK r \in Opens : r = adbd.next
  BY DEF AdbdOpen, TypeOK, Opens
<1>3. r \in Ids
  BY DEF Ids, Opens
<1>4. CASE /\ Reply(Packet("OKAY", r, l, 0))
           /\ adbd' = [adbd EXCEPT
                !.next = r + 1,
                !.sockets[r] = [NoSocket EXCEPT !.local = l, !.open = TRUE]]
  <2>1. Packet("OKAY", r, l, 0) \in Packets
    BY <1>3, PacketType, ZeroTypes DEF Commands
  <2>2. InGets(Packet("OKAY", r, l, 0))
    BY <1>1, <1>4, <2>1, ReplyEffect
  <2> QED BY <1>1, <1>2, <1>3, <1>4, <2>2, AcceptParts
<1>5. CASE Reply(Packet("CLSE", 0, l, 0)) /\ UNCHANGED adbd
  <2>1. InGets(Packet("CLSE", 0, l, 0))
    <3>1. Packet("CLSE", 0, l, 0) \in Packets
      BY PacketType, ZeroTypes DEF Commands
    <3> QED BY <1>1, <1>5, <3>1, ReplyEffect
  <2>2. SocksFewer /\ AwaitsKept /\ SocksKept
    BY <1>5, SocksSame DEF SocksFewer
  <2>3. /\ Given(l) /\ Unasked(l) /\ \A i \in Nat : OutOpen(i, l) => i = 1
        /\ \A h \in Handles :
              adb_channels[h].local = l => adb_channels[h].state # "START"
    BY <1>2 DEF Parts, IdInv, IdOut, OpenInv, OpenOut
  <2>4. \A q \in Ids : ~Sock(q, l)'
    BY <2>2, <2>3 DEF Unasked, Binds, SocksKept
  <2>5. \A i \in Nat : ~OutOpen(i, l)'
    <3> SUFFICES ASSUME NEW i \in Nat, OutOpen(i, l)' PROVE FALSE
      OBVIOUS
    <3>1. 0 < i /\ i + 1 \in Nat /\ OutOpen(i + 1, l)
      BY <1>1 DEF OutFewer
    <3> QED BY <2>3, <3>1
  <2> QED BY <1>1, <2>1, <2>2, <2>3, <2>4, <2>5, ClosureParts
<1> QED BY <1>4, <1>5 DEF AdbdOpen

\* Data for an open socket are read and answered.
LEMMA AnswerParts ==
    ASSUME TypeOK, Parts, NEW q \in Ids, NEW l0 \in Ids, NEW d,
           q \in Opens, adbd.sockets[q].open,
           adbd' = [adbd EXCEPT !.sockets[q].read = d],
           HostSame, OutFewer(1), OutWrte(1, q, l0), OutData(1) = d,
           InGets(Packet("OKAY", q, l0, 0))
    PROVE  Parts'
<1>1. /\ adbd'.next = adbd.next /\ adbd'.sockets[q].read = d
      /\ \A r \in Opens :
            /\ adbd'.sockets[r].open = adbd.sockets[r].open
            /\ adbd'.sockets[r].local = adbd.sockets[r].local
            /\ adbd'.sockets[r].sent = adbd.sockets[r].sent
            /\ adbd'.sockets[r].unacked = adbd.sockets[r].unacked
            /\ r # q => adbd'.sockets[r].read = adbd.sockets[r].read
  <2>1. /\ adbd'.next = adbd.next
        /\ adbd'.sockets[q] = [adbd.sockets[q] EXCEPT !.read = d]
        /\ \A r \in Opens \ {q} : adbd'.sockets[r] = adbd.sockets[r]
    BY DEF TypeOK
  <2>2. adbd.sockets[q] \in Sockets
    BY DEF TypeOK
  <2>3. /\ adbd'.sockets[q].open = adbd.sockets[q].open
        /\ adbd'.sockets[q].local = adbd.sockets[q].local
        /\ adbd'.sockets[q].sent = adbd.sockets[q].sent
        /\ adbd'.sockets[q].unacked = adbd.sockets[q].unacked
        /\ adbd'.sockets[q].read = d
    <3>1. ASSUME NEW k \in Sockets, NEW m, m = [k EXCEPT !.read = d]
          PROVE  /\ m.open = k.open /\ m.local = k.local /\ m.sent = k.sent
                 /\ m.unacked = k.unacked /\ m.read = d
      BY <3>1 DEF Sockets
    <3> QED BY <2>1, <2>2, <3>1
  <2> QED BY <2>1, <2>3
<1>2. \A r, l \in Ids : Sock(r, l)' <=> Sock(r, l)
  BY <1>1 DEF Sock
<1>3. SocksKept /\ SentsKept /\ AwaitsKept
  BY <1>1, <1>2 DEF SocksKept, SentsKept, AwaitsKept, Awaits, Sock
<1>4. \A r, l \in Ids : Sock(r, l)' /\ r # q =>
                           adbd'.sockets[r].read = adbd.sockets[r].read
  BY <1>1 DEF Sock
<1>5. Sock(q, l0)
  <2> PICK k \in Ids : k = adbd.sockets[q].local
    BY DEF TypeOK, Sockets
  <2>1. Sock(q, k)
    BY DEF Sock
  <2>2. Binds(q, k) /\ Binds(q, l0)
    BY <2>1 DEF Binds
  <2> QED BY <2>1, <2>2 DEF Parts, BindInv
<1>6. WrteKept(0) /\ ClseKept(0) /\ AnswersKept
  BY InGetsKeeps DEF Packet
<1>7. PICK n \in Nat :
         \A i \in Nat, r, l \in Ids :
            InOkay(i, r, l)' <=> InOkay(i, r, l) \/ (i = n /\ r = q /\ l = l0)
  BY DEF InGets, Packet
<1>8. /\ \A i \in Nat, r, l \in Ids :
            /\ InWrte(i, r, l)' <=> InWrte(i, r, l)
            /\ InWrte(i, r, l)' => InData(i)' = InData(i)
      /\ \A i \in Nat, l \in Ids : InClse(i, l)' => InClse(i, l)
  BY <1>6, ZeroKept
<1>9. \A i \in Nat : i + 1 \in Nat
  OBVIOUS
<1>10. /\ adb_channels' = adb_channels /\ local_id_counter' = local_id_counter
       /\ app' = app /\ got' = got /\ wrote' = wrote
  BY DEF HostSame
<1>11. Binds(q, l0)
  BY <1>5 DEF Binds
<1>12. BindsFewer
  <2> SUFFICES ASSUME NEW r \in Ids, NEW l \in Ids, Binds(r, l)'
               PROVE  Binds(r, l)
    BY DEF BindsFewer
  <2>1. CASE \E i \in Nat : InOkay(i, r, l)' \/ InWrte(i, r, l)' \/ OutWrte(i, r, l)'
    BY <1>7, <1>8, <1>9, <1>11, <2>1 DEF Binds, OutFewer
  <2>2. CASE Sock(r, l)'
    BY <1>2, <2>2 DEF Binds
  <2>3. CASE \E h \in Handles : /\ Active(h)' /\ adb_channels'[h].remote = r
                                /\ adb_channels'[h].local = l
    BY <1>10, <2>3 DEF Binds, Active
  <2> QED BY <2>1, <2>2, <2>3 DEF Binds
<1>13. IdInv'
  <2>1. \A l \in Ids : (Given(l)' <=> Given(l)) /\ (Used(l)' <=> Used(l))
    BY <1>1, <1>10, GivenSame, UsedSame
  <2>2. Used(q) /\ Given(l0)
    BY <1>5 DEF Parts, IdInv, IdSock
  <2>3. IdIn'
    BY <1>7, <1>8, <2>1, <2>2 DEF Parts, IdInv, IdIn
  <2> QED BY <1>1, <1>3, <1>10, <2>3, HostSameKept, LossIdOut, LossIdSock,
          LossIdChan
          DEF Parts, IdInv
<1>14. OpenInv' /\ BindInv'
  BY <1>6, <1>12, HostSameKept, LossOpen, BindFewer DEF Parts
<1>15. CloseInv'
  BY <1>3, <1>6, HostSameKept, LossCloseIn, LossCloseChan, LossCloseOut
     DEF Parts, CloseInv, WrteKept
<1>16. AckInv'
  BY <1>3, <1>6, HostSameKept, LossAck DEF Parts, AwaitsKept, WrteKept
<1>17. DeliverInv'
  BY <1>3, <1>6, <1>10, LossDeliver DEF Parts
<1>18. /\ \A i \in Nat, l \in Ids : ~InOkay(i, q, l)
       /\ \A i \in Nat, l \in Ids : OutWrte(i, q, l) => i = 1
  BY DEF Parts, WriteInv, WriteOnce
<1>19. \A i \in Nat, l \in Ids : ~OutWrte(i, q, l)'
  <2> SUFFICES ASSUME NEW i \in Nat, NEW l \in Ids, OutWrte(i, q, l)' PROVE FALSE
    OBVIOUS
  <2>1. 0 < i /\ i + 1 \in Nat /\ OutWrte(i + 1, q, l)
    BY DEF OutFewer
  <2>2. i + 1 = 1
    BY <1>18, <2>1
  <2> QED BY <2>1, <2>2
<1>20. WriteInv'
  <2>1. WriteOnce'
    <3> SUFFICES ASSUME NEW i \in Nat, NEW j \in Nat,
                        NEW r \in Ids, NEW l \in Ids, NEW k \in Ids
                 PROVE  /\ OutWrte(i, r, l)' /\ OutWrte(j, r, k)' => j = i
                        /\ InOkay(i, r, l)' /\ InOkay(j, r, k)' => j = i
                        /\ ~(OutWrte(i, r, l)' /\ InOkay(j, r, k)')
      BY DEF WriteOnce
    <3>1. OutWrte(i, r, l)' /\ OutWrte(j, r, k)' => j + 1 = i + 1
      BY <1>9 DEF Parts, WriteInv, WriteOnce, OutFewer
    <3>2. InOkay(i, r, l)' /\ InOkay(j, r, k)' => j = i
      BY <1>7, <1>18 DEF Parts, WriteInv, WriteOnce
    <3>3. ~(OutWrte(i, r, l)' /\ InOkay(j, r, k)')
      BY <1>7, <1>9, <1>19 DEF Parts, WriteInv, WriteOnce, OutFewer
    <3> QED BY <3>1, <3>2, <3>3
  <2>2. WriteOut'
    BY <1>2, <1>4, <1>9, <1>19 DEF Parts, WriteInv, WriteOut, OutFewer
  <2>3. \A h \in Handles :
           adb_channels[h].state = "IDLE" => adb_channels[h].remote # q
    BY DEF Parts, WriteInv, WriteIdle
  <2>4. WriteIdle'
    <3>1. \A h \in Handles, r, l \in Ids :
             Sock(r, l)' /\ r # q /\ Written(h, r) => Written(h, r)'
      BY <1>4, <1>10 DEF Written
    <3> QED BY <1>2, <1>7, <1>9, <1>10, <2>3, <3>1
            DEF Parts, WriteInv, WriteIdle, OutFewer
  <2>5. WriteReady'
    <3> SUFFICES ASSUME NEW h \in Handles, NEW r \in Ids,
                        adb_channels[h].state = "WAIT_READY",
                        adb_channels[h].remote = r,
                        NEW i \in Nat, NEW l \in Ids, Sock(r, l)'
                 PROVE  /\ OutWrte(i, r, l)' => OutData(i)' = wrote[h]
                        /\ InOkay(i, r, l)' => wrote[h] = adbd'.sockets[r].read
      BY <1>10 DEF WriteReady
    <3>1. CASE r = q
      <4>1. l = l0
        BY <1>2, <1>5, <3>1 DEF Sock
      <4>2. wrote[h] = d
        BY <1>5, <3>1 DEF Parts, WriteInv, WriteReady
      <4> QED BY <1>1, <1>19, <3>1, <4>2
    <3>2. CASE r # q
      BY <1>2, <1>4, <1>7, <1>9, <3>2 DEF Parts, WriteInv, WriteReady, OutFewer
    <3> QED BY <3>1, <3>2
  <2>6. WriteOpen'
    <3> SUFFICES ASSUME NEW h \in Handles, NEW l \in Ids,
                        adb_channels[h].state = "WAIT_OPEN",
                        adb_channels[h].local = l,
                        NEW i \in Nat, NEW r \in Ids, Sock(r, l)', InOkay(i, r, l)'
                 PROVE  adbd'.sockets[r].read = 0
      BY <1>10 DEF WriteOpen
    <3>1. r # q
      <4> SUFFICES ASSUME r = q PROVE FALSE
        OBVIOUS
      <4>1. Binds(q, l)
        BY <1>2 DEF Binds
      <4>2. Answered(q, l)
        BY <4>1 DEF Parts, OpenInv, OpenChan
      <4> QED BY <1>18, <4>2 DEF Answered
    <3> QED BY <1>2, <1>4, <1>7, <3>1 DEF Parts, WriteInv, WriteOpen
  <2> QED BY <2>1, <2>2, <2>4, <2>5, <2>6 DEF WriteInv
<1> QED BY <1>13, <1>14, <1>15, <1>16, <1>17, <1>20 DEF Parts

\* Data are answered if their socket is open, else they are dropped.
LEMMA PartsWrte ==
    ASSUME TypeOK, TypeOK', Parts, AdbdWrte
    PROVE  Parts'
<1> PICK p \in Packets : p = Head(toDev)
  BY ReadEffect DEF AdbdWrte
<1>1. /\ OutFewer(1) /\ HostSame /\ recvPort' = recvPort
      /\ Len(Outgoing) >= 1 /\ Outgoing[1] = p
  BY ReadEffect, DaemonHostSame DEF AdbdWrte, AdbdReads, port
<1>2. CASE IsOpen(p.arg1)
  <2> PICK r \in Ids, l \in Ids : r = p.arg1 /\ l = p.arg0
    BY PacketIds
  <2>1. /\ adbd' = [adbd EXCEPT !.sockets[r].read = p.data]
        /\ r \in Opens /\ adbd.sockets[r].open
        /\ Reply(Packet("OKAY", r, l, 0))
    BY <1>2 DEF AdbdWrte, IsOpen
  <2>2. OutWrte(1, r, l) /\ OutData(1) = p.data
    BY <1>1, FirstOut DEF AdbdWrte
  <2>3. InGets(Packet("OKAY", r, l, 0))
    <3>1. Packet("OKAY", r, l, 0) \in Packets
      BY PacketType, ZeroTypes DEF Commands
    <3> QED BY <1>1, <2>1, <3>1, ReplyEffect
  <2> QED BY <1>1, <2>1, <2>2, <2>3, AnswerParts
<1>3. CASE ~IsOpen(p.arg1)
  <2>1. InKept(0) /\ UNCHANGED adbd
    <3>1. NoPacket \in Packets
      BY PacketType, ZeroTypes DEF NoPacket, Commands
    <3> QED BY <1>1, <1>3, <3>1, ReplyEffect DEF AdbdWrte
  <2> QED BY <1>1, <2>1, SocksSame, HostSameKept, LossParts
<1> QED BY <1>2, <1>3

\* The daemon sends on a socket with nothing to be acknowledged.
LEMMA SendParts ==
    ASSUME TypeOK, Parts, NEW q \in Ids, NEW l0 \in Ids, NEW d,
           Sock(q, l0), ~adbd.sockets[q].unacked,
           d = NextData(adbd.sockets[q].sent),
           adbd' = [adbd EXCEPT !.sockets[q].sent = d,
                                !.sockets[q].unacked = TRUE],
           HostSame, OutFewer(0), InGets(Packet("WRTE", q, l0, d))
    PROVE  Parts'
<1>1. /\ adbd'.next = adbd.next
      /\ adbd'.sockets[q].sent = d /\ adbd'.sockets[q].unacked
      /\ \A r \in Opens :
            /\ adbd'.sockets[r].open = adbd.sockets[r].open
            /\ adbd'.sockets[r].local = adbd.sockets[r].local
            /\ adbd'.sockets[r].read = adbd.sockets[r].read
            /\ r # q => /\ adbd'.sockets[r].unacked = adbd.sockets[r].unacked
                        /\ adbd'.sockets[r].sent = adbd.sockets[r].sent
  <2>0. q \in Opens
    BY DEF Sock
  <2>1. /\ adbd'.next = adbd.next
        /\ adbd'.sockets[q] = [adbd.sockets[q] EXCEPT !.sent = d, !.unacked = TRUE]
        /\ \A r \in Opens \ {q} : adbd'.sockets[r] = adbd.sockets[r]
    BY <2>0 DEF TypeOK
  <2>2. adbd.sockets[q] \in Sockets
    BY <2>0 DEF TypeOK
  <2>3. /\ adbd'.sockets[q].open = adbd.sockets[q].open
        /\ adbd'.sockets[q].local = adbd.sockets[q].local
        /\ adbd'.sockets[q].read = adbd.sockets[q].read
        /\ adbd'.sockets[q].unacked
        /\ adbd'.sockets[q].sent = d
    <3>1. ASSUME NEW k \in Sockets, NEW m,
                 m = [k EXCEPT !.sent = d, !.unacked = TRUE]
          PROVE  /\ m.open = k.open /\ m.local = k.local /\ m.sent = d
                 /\ m.unacked /\ m.read = k.read
      BY <3>1 DEF Sockets
    <3> QED BY <2>1, <2>2, <3>1
  <2> QED BY <2>1, <2>3
<1>2. \A r, l \in Ids : Sock(r, l)' <=> Sock(r, l)
  BY <1>1 DEF Sock
<1>3. SocksKept /\ ReadsKept
  BY <1>1, <1>2 DEF SocksKept, ReadsKept, Sock
<1>4. \A r, l \in Ids : Sock(r, l)' /\ r # q =>
                           adbd'.sockets[r].sent = adbd.sockets[r].sent
  BY <1>1 DEF Sock
<1>5. /\ \A r \in Ids : Awaits(r) => Awaits(r)'
      /\ Awaits(q)' /\ ~Awaits(q)
  BY <1>1 DEF Awaits, Sock
<1>6. OkayKept(0) /\ ClseKept(0) /\ AnswersKept
  BY InGetsKeeps DEF Packet
<1>7. PICK n \in Nat :
         /\ \A i \in Nat, r, l \in Ids :
               /\ InWrte(i, r, l)' <=> InWrte(i, r, l) \/ (i = n /\ r = q /\ l = l0)
               /\ InWrte(i, r, l) => InData(i)' = InData(i)
         /\ InData(n)' = d
  BY DEF InGets, Packet
<1>8. /\ \A i \in Nat, r, l \in Ids : InOkay(i, r, l)' <=> InOkay(i, r, l)
      /\ \A i \in Nat, l \in Ids : InClse(i, l)' => InClse(i, l)
  BY <1>6, ZeroKept
<1>9. \A i \in Nat : i + 0 = i
  OBVIOUS
<1>10. /\ adb_channels' = adb_channels /\ local_id_counter' = local_id_counter
       /\ app' = app /\ got' = got /\ wrote' = wrote
  BY DEF HostSame
<1>11. Binds(q, l0)
  BY DEF Binds
<1>12. BindsFewer
  <2> SUFFICES ASSUME NEW r \in Ids, NEW l \in Ids, Binds(r, l)'
               PROVE  Binds(r, l)
    BY DEF BindsFewer
  <2>1. CASE \E i \in Nat : InOkay(i, r, l)' \/ InWrte(i, r, l)' \/ OutWrte(i, r, l)'
    BY <1>7, <1>8, <1>9, <1>11, <2>1 DEF Binds, OutFewer
  <2>2. CASE Sock(r, l)'
    BY <1>2, <2>2 DEF Binds
  <2>3. CASE \E h \in Handles : /\ Active(h)' /\ adb_channels'[h].remote = r
                                /\ adb_channels'[h].local = l
    BY <1>10, <2>3 DEF Binds, Active
  <2> QED BY <2>1, <2>2, <2>3 DEF Binds
<1>13. IdInv'
  <2>1. \A l \in Ids : (Given(l)' <=> Given(l)) /\ (Used(l)' <=> Used(l))
    BY <1>1, <1>10, GivenSame, UsedSame
  <2>2. Used(q) /\ Given(l0)
    BY DEF Parts, IdInv, IdSock
  <2>3. IdIn'
    BY <1>7, <1>8, <2>1, <2>2 DEF Parts, IdInv, IdIn
  <2> QED BY <1>1, <1>3, <1>10, <2>3, HostSameKept, LossIdOut, LossIdSock,
          LossIdChan
          DEF Parts, IdInv
<1>14. OpenInv' /\ BindInv'
  BY <1>6, <1>12, HostSameKept, LossOpen, BindFewer DEF Parts
<1>15. CloseInv'
  <2>1. CloseIn'
    BY <1>2, <1>7, <1>8 DEF Parts, CloseInv, CloseIn
  <2>2. CloseChan'
    BY <1>2, <1>7, <1>10 DEF Parts, CloseInv, CloseChan
  <2> QED BY <1>3, <2>1, <2>2, LossCloseOut DEF Parts, CloseInv
<1>16. /\ \A i \in Nat, l \in Ids : ~InWrte(i, q, l) /\ ~OutOkay(i, q, l)
       /\ \A h \in Handles : ~AckAt(h, q)
  BY <1>5 DEF Parts, AckInv, AckAwaited
<1>17. AckInv'
  <2>1. \A i \in Nat, r, l \in Ids : OutOkay(i, r, l)' => OutOkay(i, r, l)
    BY <1>9 DEF OutFewer
  <2>2. \A h \in Handles, r \in Ids : AckAt(h, r)' <=> AckAt(h, r)
    BY <1>10 DEF AckAt
  <2>3. AckAwaited'
    BY <1>5, <1>7, <2>1, <2>2 DEF Parts, AckInv, AckAwaited
  <2>4. AckOnce'
    BY <1>7, <1>16, <2>1 DEF Parts, AckInv, AckOnce
  <2>5. AckChan'
    BY <1>7, <1>16, <2>1, <2>2 DEF Parts, AckInv, AckChan
  <2> QED BY <2>3, <2>4, <2>5 DEF AckInv
<1>18. DeliverInv'
  <2> SUFFICES ASSUME NEW h \in Handles, NEW l \in Ids,
                      adb_channels[h].state \in Live, adb_channels[h].local = l
               PROVE  /\ Holds(h)' /\ l = LocalId(app'[h], h)
                      /\ \A i \in Nat, r \in Ids :
                            InWrte(i, r, l)' =>
                               /\ InData(i)' = NextData(got'[h])
                               /\ Sock(r, l)' => adbd'.sockets[r].sent = InData(i)'
                      /\ \A r \in Ids :
                            Sock(r, l)' => \/ adbd'.sockets[r].sent = got'[h]
                                           \/ \E i \in Nat : InWrte(i, r, l)'
    BY <1>10 DEF DeliverInv
  <2>1. Holds(h)' /\ l = LocalId(app'[h], h)
    BY <1>10 DEF Parts, DeliverInv, Holds
  <2>2. l = l0 => adbd.sockets[q].sent = got[h]
    BY <1>16 DEF Parts, DeliverInv
  <2>3. ASSUME NEW i \in Nat, NEW r \in Ids, InWrte(i, r, l)'
        PROVE  /\ InData(i)' = NextData(got'[h])
               /\ Sock(r, l)' => adbd'.sockets[r].sent = InData(i)'
    <3>1. CASE r = q
      BY <1>1, <1>7, <1>10, <1>16, <2>2, <2>3, <3>1
    <3>2. CASE r # q
      <4>1. InWrte(i, r, l) /\ InData(i)' = InData(i)
        BY <1>7, <2>3, <3>2
      <4> QED BY <1>2, <1>4, <1>10, <3>2, <4>1 DEF Parts, DeliverInv
    <3> QED BY <3>1, <3>2
  <2>4. ASSUME NEW r \in Ids, Sock(r, l)'
        PROVE  \/ adbd'.sockets[r].sent = got'[h]
               \/ \E i \in Nat : InWrte(i, r, l)'
    <3>1. CASE r = q
      <4>1. l = l0
        BY <1>2, <2>4, <3>1 DEF Sock
      <4> QED BY <1>7, <3>1, <4>1
    <3>2. CASE r # q
      BY <1>2, <1>4, <1>7, <1>10, <2>4, <3>2 DEF Parts, DeliverInv
    <3> QED BY <3>1, <3>2
  <2> QED BY <2>1, <2>3, <2>4
<1>19. WriteInv'
  BY <1>3, <1>6, <1>10, LossWrite DEF Parts, OkayKept
<1> QED BY <1>13, <1>14, <1>15, <1>17, <1>18, <1>19 DEF Parts

\* It sends the next data and awaits their acknowledgement.
LEMMA PartsSend ==
    ASSUME TypeOK, TypeOK', Parts, AdbdSend
    PROVE  Parts'
<1> PICK r \in Opens :
        /\ IsOpen(r) /\ ~adbd.sockets[r].unacked
        /\ Reply(Packet("WRTE", r, adbd.sockets[r].local,
                        NextData(adbd.sockets[r].sent)))
        /\ adbd' = [adbd EXCEPT !.sockets[r].sent = NextData(@),
                                !.sockets[r].unacked = TRUE]
  BY DEF AdbdSend
<1>0. adbd.sockets[r] \in Sockets
  BY DEF TypeOK
<1> PICK l \in Ids, d \in Data : /\ l = adbd.sockets[r].local
                                 /\ d = NextData(adbd.sockets[r].sent)
  BY <1>0, NextDataType DEF Sockets
<1>1. HostSame /\ port' = port /\ toDev' = toDev
  BY DaemonHostSame DEF AdbdSend
<1>2. OutFewer(0)
  BY <1>1, OutSame DEF Outgoing, port
<1>3. r \in Ids
  BY DEF Ids, Opens
<1>4. Sock(r, l)
  BY DEF IsOpen, Sock
<1>5. InGets(Packet("WRTE", r, l, d))
  <2>1. Packet("WRTE", r, l, d) \in Packets
    BY <1>3, PacketType DEF Commands
  <2> QED BY <1>1, <2>1, ReplyEffect DEF port
<1>6. adbd' = [adbd EXCEPT !.sockets[r].sent = d, !.sockets[r].unacked = TRUE]
  OBVIOUS
<1> QED BY <1>1, <1>2, <1>3, <1>4, <1>5, <1>6, SendParts

----------------------------------------------------------------------------
(* The bus: a transfer that ends changes neither stream, one that fails    *)
(* loses the packet that was being sent.                                   *)

\* A transfer that ends or fails changes no channel and no socket.
LEMMA BusHostSame ==
    ASSUME Bus
    PROVE  HostSame /\ SocksFewer /\ AwaitsKept
<1>1. HostSame /\ UNCHANGED adbd
  BY DEF Bus, SendDone, RecvDone, SendFails, RecvFails, HostSame, host, owner,
         phone
<1> QED BY <1>1, SocksSame

\* It moves a packet within its stream, or loses it.
LEMMA BusStreams ==
    ASSUME TypeOK, TypeOK', Bus
    PROVE  InKept(0) /\ OutFewer(0)
<1>0. /\ sendPort.pkt \in Packets /\ recvPort.pkt \in Packets
      /\ toDev \in Seq(Packets) /\ toHost \in Seq(Packets)
  BY DEF TypeOK, Ports
<1>1. CASE SendDone
  <2>1. Incoming' = Incoming
    BY <1>1 DEF SendDone, Incoming
  <2>2. Outgoing' = Outgoing
    BY <1>1 DEF SendDone, Outgoing, Settled
  <2> QED BY <2>1, <2>2, InSame, OutSame
<1>2. CASE RecvDone
  <2>1. Outgoing' = Outgoing
    BY <1>2 DEF RecvDone, Outgoing
  <2>2. Incoming = toHost /\ Incoming' = <<Head(toHost)>> \o Tail(toHost)
    BY <1>2 DEF RecvDone, Incoming
  <2>3. Incoming' = Incoming
    BY <1>0, <1>2, <2>2 DEF RecvDone
  <2> QED BY <2>1, <2>3, InSame, OutSame
<1>3. CASE SendFails
  <2>1. Incoming' = Incoming
    BY <1>3 DEF SendFails, Incoming, phone
  <2>2. Outgoing = Append(toDev, sendPort.pkt) /\ Outgoing' = toDev
    BY <1>3 DEF SendFails, Outgoing, phone, Settled
  <2>3. IsFront(Outgoing', Outgoing)
    BY <1>0, <2>2 DEF IsFront
  <2> QED BY <2>1, <2>3, InSame, OutLose
<1>4. CASE RecvFails
  <2>1. Outgoing' = Outgoing
    BY <1>4 DEF RecvFails, Outgoing, phone
  <2>2. Incoming' = Incoming
    BY <1>4 DEF RecvFails, Incoming, phone, Settled
  <2> QED BY <2>1, <2>2, InSame, OutSame
<1> QED BY <1>1, <1>2, <1>3, <1>4 DEF Bus

\* The transfers.
LEMMA PartsBus ==
    ASSUME TypeOK, TypeOK', Parts, Bus
    PROVE  Parts'
BY BusHostSame, BusStreams, HostSameKept, LossParts

----------------------------------------------------------------------------
(* ADBHandlePacket: the first packet to the host is taken.                 *)

\* ADBTasks hands on the first packet of the stream, and Unref starts the
\* reception of the next.
LEMMA TakeEffect ==
    ASSUME TypeOK, TypeOK', CountInv, ADBConnected, NEW p, Received(p), Unref(TRUE)
    PROVE  /\ InTaken /\ OutFewer(0) /\ SocksFewer /\ AwaitsKept
           /\ local_id_counter' = local_id_counter
           /\ p \in Packets /\ Len(Incoming) >= 1 /\ Incoming[1] = p
<1>1. /\ recvPort.pkt \in Packets /\ toHost \in Seq(Packets)
      /\ p = recvPort.pkt /\ recvPort.state = "IDLE"
      /\ toHost' = toHost /\ toDev' = toDev /\ sendPort' = sendPort
      /\ adbd' = adbd /\ local_id_counter' = local_id_counter
  BY DEF TypeOK, Ports, Received, phone
<1>2. recvPort' = Settled("BUSY")
  BY DEF CountInv, Unref
<1>3. Incoming = <<p>> \o toHost /\ Incoming' = toHost
  BY <1>1, <1>2 DEF Incoming, Settled
<1>4. IsTail(Incoming', Incoming) /\ Len(Incoming) >= 1 /\ Incoming[1] = p
  BY <1>1, <1>3 DEF IsTail
<1>5. Outgoing' = Outgoing
  BY <1>1 DEF Outgoing
<1> QED BY <1>1, <1>4, <1>5, InTake, OutSame, SocksSame

\* What the first packet to the host is, and what is left.
LEMMA FirstIn ==
    ASSUME TypeOK, Len(Incoming) >= 1, NEW p, p = Incoming[1], InTaken
    PROVE  /\ p.cmd = "OKAY" => InOkay(1, p.arg0, p.arg1)
           /\ p.cmd = "WRTE" => InWrte(1, p.arg0, p.arg1) /\ InData(1) = p.data
           /\ p.cmd = "CLSE" => InClse(1, p.arg1)
           /\ p.cmd # "OKAY" => OkayKept(1)
           /\ p.cmd # "WRTE" => WrteKept(1)
           /\ OkayFewer(1) /\ WrteFewer(1) /\ ClseKept(1)
           /\ \A r, l \in Ids :
                 /\ p.cmd = "OKAY" /\ InOkay(1, r, l) => r = p.arg0 /\ l = p.arg1
                 /\ p.cmd = "WRTE" /\ InWrte(1, r, l) => r = p.arg0 /\ l = p.arg1
<1>1. 1 \in 1 .. Len(Incoming)
  BY StreamTypes
<1>2. \A r, l \in Ids : /\ p.cmd # "OKAY" => ~InOkay(1, r, l)
                        /\ p.cmd # "WRTE" => ~InWrte(1, r, l)
  BY DEF InOkay, InWrte
<1>3. OkayFewer(1) /\ WrteFewer(1) /\ ClseKept(1)
  BY DEF InTaken, OkayFewer, WrteFewer, ClseKept
<1>4. p.cmd # "OKAY" => OkayKept(1)
  BY <1>2, <1>3 DEF InTaken, OkayKept
<1>5. p.cmd # "WRTE" => WrteKept(1)
  BY <1>2, <1>3 DEF InTaken, WrteKept
<1> QED BY <1>1, <1>3, <1>4, <1>5 DEF InOkay, InWrte, InClse, InData

\* A packet that ADBHandlePacket does not act on.
LEMMA IgnoreParts ==
    ASSUME TypeOK, TypeOK', CountInv, Parts, ADBConnected, NEW p, Received(p),
           Unref(TRUE), p.cmd # "OKAY", p.cmd # "WRTE",
           adb_channels' = adb_channels, UNCHANGED owner
    PROVE  Parts'
<1>1. /\ InTaken /\ OutFewer(0) /\ SocksFewer /\ AwaitsKept
      /\ local_id_counter' = local_id_counter
      /\ Len(Incoming) >= 1 /\ Incoming[1] = p
  BY TakeEffect
<1>2. InKept(1)
  BY <1>1, FirstIn DEF InKept
<1>3. HostSame
  BY <1>1 DEF HostSame, owner
<1> QED BY <1>1, <1>2, <1>3, HostSameKept, LossParts

\* The only channel with the local id l is the one addressed.
LEMMA OnlyOne ==
    ASSUME IdChan, NEW l \in Ids, Given(l)
    PROVE  \A g, h \in Handles :
              adb_channels[g].local = l /\ adb_channels[h].local = l => g = h
BY DEF IdChan, Given

\* A packet is addressed to the one channel that has its local id.
LEMMA AddressedTo ==
    ASSUME IdChan, NEW p, Given(p.arg1)
    PROVE  Addressed(p) = {h \in Handles : adb_channels[h].local = p.arg1}
BY DEF IdChan, Given, Addressed

----------------------------------------------------------------------------
(* ADB_OKAY: the channel is open, or what it wrote was read.               *)

\* What an OKAY from socket r for l makes of channel h.
OpenedNow(h, r, l) ==
    /\ adb_channels[h].local = l /\ adb_channels[h].state = "WAIT_OPEN"
    /\ adb_channels'[h].state = "IDLE" /\ adb_channels'[h].remote = r
    /\ adb_channels'[h].data = adb_channels[h].data
Readied(h, r, l) ==
    /\ adb_channels[h].local = l /\ adb_channels[h].state = "WAIT_READY"
    /\ adb_channels[h].remote = r /\ adb_channels'[h].remote = r
    /\ adb_channels'[h].state = "IDLE" /\ adb_channels'[h].data = 0
Unmoved(h, r, l) ==
    /\ adb_channels'[h] = adb_channels[h]
    /\ adb_channels[h].local = l =>
          /\ adb_channels[h].state # "WAIT_OPEN"
          /\ adb_channels[h].state # "WAIT_READY" \/ adb_channels[h].remote # r

\* What ADB_OKAY does to a channel.
LEMMA OkayEffect ==
    ASSUME TypeOK, IdChan, NEW p \in Packets, Given(p.arg1),
           adb_channels' =
              [h \in Handles |->
                 IF h \in Addressed(p) THEN OnOkay(adb_channels[h], p.arg0)
                 ELSE adb_channels[h]]
    PROVE  \A h \in Handles :
              /\ adb_channels'[h].local = adb_channels[h].local
              /\ adb_channels'[h].ack = adb_channels[h].ack
              /\ \/ Unmoved(h, p.arg0, p.arg1)
                 \/ OpenedNow(h, p.arg0, p.arg1)
                 \/ Readied(h, p.arg0, p.arg1)
<1> SUFFICES ASSUME NEW h \in Handles
             PROVE  /\ adb_channels'[h].local = adb_channels[h].local
                    /\ adb_channels'[h].ack = adb_channels[h].ack
                    /\ \/ Unmoved(h, p.arg0, p.arg1)
                       \/ OpenedNow(h, p.arg0, p.arg1)
                       \/ Readied(h, p.arg0, p.arg1)
  OBVIOUS
<1>1. /\ adb_channels[h] \in Channels
      /\ adb_channels'[h] = IF adb_channels[h].local = p.arg1
                              THEN OnOkay(adb_channels[h], p.arg0)
                              ELSE adb_channels[h]
  BY AddressedTo DEF TypeOK
<1>2. ASSUME NEW ch \in Channels, NEW r
      PROVE  /\ OnOkay(ch, r).local = ch.local /\ OnOkay(ch, r).ack = ch.ack
             /\ ch.state = "WAIT_OPEN" =>
                   /\ OnOkay(ch, r).state = "IDLE" /\ OnOkay(ch, r).remote = r
                   /\ OnOkay(ch, r).data = ch.data
             /\ ch.state = "WAIT_READY" /\ ch.remote = r =>
                   /\ OnOkay(ch, r).state = "IDLE" /\ OnOkay(ch, r).data = 0
                   /\ OnOkay(ch, r).remote = r
             /\ ch.state # "WAIT_OPEN" /\ (ch.state # "WAIT_READY" \/ ch.remote # r)
                   => OnOkay(ch, r) = ch
  BY DEF OnOkay, Channels
<1> QED BY <1>1, <1>2 DEF Unmoved, OpenedNow, Readied

\* The answer to an opening or to a WRTE is taken.
LEMMA OkayParts ==
    ASSUME TypeOK, Parts, NEW r0 \in Ids, NEW l0 \in Ids,
           InOkay(1, r0, l0), InTaken, OkayFewer(1), WrteKept(1), ClseKept(1),
           \A r, l \in Ids : InOkay(1, r, l) => r = r0 /\ l = l0,
           OutFewer(0), SocksFewer, AwaitsKept,
           local_id_counter' = local_id_counter, UNCHANGED owner,
           \A h \in Handles :
              /\ adb_channels'[h].local = adb_channels[h].local
              /\ adb_channels'[h].ack = adb_channels[h].ack
              /\ \/ Unmoved(h, r0, l0) \/ OpenedNow(h, r0, l0) \/ Readied(h, r0, l0)
    PROVE  Parts'
<1>1. /\ SocksKept /\ SentsKept /\ ReadsKept /\ WrteFewer(1)
      /\ adbd'.next = adbd.next /\ app' = app /\ got' = got /\ wrote' = wrote
  BY DEF SocksFewer, SocksKept, WrteKept, owner
<1>2. Used(r0) /\ Given(l0) /\ Binds(r0, l0)
  BY DEF Parts, IdInv, IdIn, Binds
<1>3. \A h \in Handles :
         OpenedNow(h, r0, l0) =>
            /\ ~adb_channels[h].ack /\ adb_channels[h].data = 0 /\ wrote[h] = 0
  BY DEF OpenedNow, Parts, OpenInv, FreshInv, Fresh
<1>4. BindsFewer
  <2> SUFFICES ASSUME NEW r \in Ids, NEW l \in Ids, Binds(r, l)'
               PROVE  Binds(r, l)
    BY DEF BindsFewer
  <2>1. CASE \E i \in Nat : InOkay(i, r, l)' \/ InWrte(i, r, l)' \/ OutWrte(i, r, l)'
    <3>1. \A i \in Nat : i + 1 \in Nat /\ i + 0 \in Nat
      OBVIOUS
    <3> QED BY <1>1, <2>1, <3>1 DEF Binds, OkayFewer, WrteFewer, OutFewer
  <2>2. CASE Sock(r, l)'
    BY <1>1, <2>2 DEF Binds, SocksKept
  <2>3. CASE \E h \in Handles : /\ Active(h)' /\ adb_channels'[h].remote = r
                                /\ adb_channels'[h].local = l
    <3> PICK h \in Handles : /\ Active(h)' /\ adb_channels'[h].remote = r
                             /\ adb_channels'[h].local = l
      BY <2>3
    <3>1. CASE Unmoved(h, r0, l0) \/ Readied(h, r0, l0)
      BY <3>1 DEF Binds, Active, Unmoved, Readied
    <3>2. CASE OpenedNow(h, r0, l0)
      BY <1>2, <3>2 DEF OpenedNow
    <3> QED BY <3>1, <3>2
  <2> QED BY <2>1, <2>2, <2>3 DEF Binds
<1>5. IdInv'
  <2>1. \A l \in Ids : (Given(l)' <=> Given(l)) /\ (Used(l)' <=> Used(l))
    BY <1>1, GivenSame, UsedSame
  <2>2. IdChan'
    <3> SUFFICES ASSUME NEW h \in Handles
                 PROVE  /\ adb_channels'[h].local = 0 \/ Given(adb_channels[h].local)'
                        /\ adb_channels'[h].local # 0 =>
                              HandleOf(adb_channels'[h].local) = h
                        /\ adb_channels'[h].state # "FREE" =>
                              adb_channels'[h].local # 0
                        /\ adb_channels'[h].remote < adbd'.next
                        /\ Active(h)' \/ adb_channels'[h].ack =>
                              0 < adb_channels'[h].remote
      BY DEF IdChan
    <3>1. /\ adb_channels'[h].local = 0 \/ Given(adb_channels[h].local)'
          /\ adb_channels'[h].local # 0 => HandleOf(adb_channels'[h].local) = h
      BY <2>1, IdsHere DEF Parts, IdInv, IdChan
    <3>2. CASE Unmoved(h, r0, l0)
      BY <1>1, <3>1, <3>2 DEF Parts, IdInv, IdChan, Unmoved, Active
    <3>3. CASE OpenedNow(h, r0, l0)
      BY <1>1, <1>2, <3>1, <3>3 DEF Parts, IdInv, IdChan, OpenedNow, Used
    <3>4. CASE Readied(h, r0, l0)
      BY <1>1, <1>2, <3>1, <3>4 DEF Parts, IdInv, IdChan, Readied, Used
    <3> QED BY <3>1, <3>2, <3>3, <3>4
  <2> QED BY <1>1, <2>2, LossIdIn, LossIdOut, LossIdSock DEF Parts, IdInv
<1>6. BindInv'
  BY <1>4, BindFewer DEF Parts
<1>7. \A h \in Handles :
         adb_channels'[h].state \notin {"IDLE"} => adb_channels'[h] = adb_channels[h]
  BY DEF Unmoved, OpenedNow, Readied
<1>8. OpenInv'
  <2>1. \A l \in Ids : Unasked(l) => Unasked(l)'
    BY <1>4, LossUnasked
  <2>2. OpenOut'
    BY <1>7, <2>1, LossOpenOut DEF Parts, OpenInv
  <2>3. OpenChan'
    <3> SUFFICES ASSUME NEW h \in Handles, NEW l \in Ids,
                        adb_channels'[h].local = l
                 PROVE  /\ adb_channels'[h].state = "START" => Unasked(l)'
                        /\ adb_channels'[h].state = "WAIT_OPEN" =>
                             \A r \in Ids : Binds(r, l)' => Answered(r, l)'
      BY DEF OpenChan
    <3>1. adb_channels'[h].state = "START" => Unasked(l)'
      BY <1>7, <2>1 DEF Parts, OpenInv, OpenChan
    <3>2. ASSUME adb_channels'[h].state = "WAIT_OPEN", NEW r \in Ids, Binds(r, l)'
          PROVE  Answered(r, l)'
      <4>1. adb_channels[h].state = "WAIT_OPEN" /\ l # l0
        BY <1>7, <3>2 DEF Unmoved, OpenedNow, Readied
      <4>2. Answered(r, l)
        BY <1>4, <3>2, <4>1 DEF Parts, OpenInv, OpenChan, BindsFewer
      <4> PICK i \in Nat : InOkay(i, r, l) /\ \A j \in Nat : InWrte(j, r, l) => i < j
        BY <4>2 DEF Answered
      <4>3. i # 1
        BY <4>1
      <4>4. i - 1 \in Nat /\ InOkay(i - 1, r, l)'
        BY <4>3 DEF InTaken
      <4>5. \A j \in Nat : InWrte(j, r, l)' => i < j + 1 /\ j + 1 \in Nat
        BY DEF WrteKept, WrteFewer
      <4> QED BY <4>4, <4>5 DEF Answered
    <3> QED BY <3>1, <3>2
  <2>4. FreshInv'
    BY <1>1, <1>7 DEF Parts, OpenInv, FreshInv, Fresh
  <2> QED BY <2>2, <2>3, <2>4 DEF OpenInv
<1>9. CloseInv'
  <2>1. CloseChan'
    <3> SUFFICES ASSUME NEW h \in Handles, NEW r \in Ids, NEW l \in Ids
                 PROVE  /\ /\ adb_channels'[h].state = "FREE"
                           /\ adb_channels'[h].local = l
                           => ~Sock(r, l)' /\ \A j \in Nat : ~InWrte(j, r, l)'
                        /\ Sock(r, l)' /\ adb_channels'[h].remote = r =>
                              adb_channels'[h].local = l
      BY DEF CloseChan
    <3>1. /\ adb_channels'[h].state = "FREE" /\ adb_channels'[h].local = l
          => ~Sock(r, l)' /\ \A j \in Nat : ~InWrte(j, r, l)'
      <4>1. \A i \in Nat : i + 1 \in Nat
        OBVIOUS
      <4> QED BY <1>1, <1>7, <4>1
         DEF Parts, CloseInv, CloseChan, SocksKept, WrteFewer
    <3>2. ASSUME Sock(r, l)', adb_channels'[h].remote = r
          PROVE  adb_channels'[h].local = l
      <4>1. Sock(r, l) /\ Binds(r, l)
        BY <1>1, <3>2 DEF SocksKept, Binds
      <4>2. CASE Unmoved(h, r0, l0) \/ Readied(h, r0, l0)
        BY <3>2, <4>1, <4>2 DEF Parts, CloseInv, CloseChan, Unmoved, Readied
      <4>3. CASE OpenedNow(h, r0, l0)
        BY <1>2, <3>2, <4>1, <4>3 DEF Parts, BindInv, OpenedNow
      <4> QED BY <4>2, <4>3
    <3> QED BY <3>1, <3>2
  <2> QED BY <1>1, <2>1, LossCloseIn, LossCloseOut DEF Parts, CloseInv
<1>10. AckInv'
  <2>1. \A h \in Handles, r \in Ids : AckAt(h, r)' => AckAt(h, r)
    BY <1>3 DEF AckAt, Unmoved, OpenedNow, Readied
  <2> QED BY <1>1, <2>1, LossAck DEF Parts, AwaitsKept
<1>11. DeliverInv'
  <2>1. \A h \in Handles :
           adb_channels'[h].state \in Live => adb_channels[h].state \in Live
    BY DEF Live, Unmoved, OpenedNow, Readied
  <2> QED BY <1>1, <2>1, LossDeliver DEF Parts
<1>12. /\ \A i \in Nat, l \in Ids : ~OutWrte(i, r0, l) /\ ~OutWrte(i, r0, l)'
       /\ \A i \in Nat, l \in Ids : ~InOkay(i, r0, l)'
  <2>1. \A i \in Nat, l \in Ids : ~OutWrte(i, r0, l)
    BY DEF Parts, WriteInv, WriteOnce
  <2>2. \A i \in Nat, l \in Ids : ~OutWrte(i, r0, l)'
    <3>1. \A i \in Nat : i + 0 = i
      OBVIOUS
    <3> QED BY <2>1, <3>1 DEF OutFewer
  <2>3. ASSUME NEW i \in Nat, NEW l \in Ids, InOkay(i, r0, l)' PROVE FALSE
    <3>1. 0 < i /\ i + 1 \in Nat /\ InOkay(i + 1, r0, l)
      BY <2>3 DEF InTaken
    <3>2. i + 1 = 1
      BY <3>1 DEF Parts, WriteInv, WriteOnce
    <3> QED BY <3>1, <3>2
  <2> QED BY <2>1, <2>2, <2>3
<1>13. WriteInv'
  <2>0. \A i \in Nat : i + 1 \in Nat /\ i + 0 \in Nat
    OBVIOUS
  <2>1. WriteOnce' /\ WriteOut'
    BY <1>1, LossWriteOnce, LossWriteOut DEF Parts, WriteInv
  <2>2. WriteIdle'
    <3> SUFFICES ASSUME NEW h \in Handles, NEW r \in Ids,
                        adb_channels'[h].state = "IDLE", adb_channels'[h].remote = r
                 PROVE  /\ \A i \in Nat, l \in Ids :
                              ~OutWrte(i, r, l)' /\ ~InOkay(i, r, l)'
                        /\ \A l \in Ids : Sock(r, l)' => Written(h, r)'
      BY DEF WriteIdle
    <3>1. CASE Unmoved(h, r0, l0)
      <4>1. adb_channels[h].state = "IDLE" /\ adb_channels[h].remote = r
            /\ adb_channels'[h].data = adb_channels[h].data
        BY <3>1 DEF Unmoved
      <4>2. \A i \in Nat, l \in Ids : ~OutWrte(i, r, l)' /\ ~InOkay(i, r, l)'
        BY <2>0, <4>1 DEF Parts, WriteInv, WriteIdle, OutFewer, OkayFewer
      <4>3. \A l \in Ids : Sock(r, l)' => Written(h, r)'
        BY <1>1, <4>1
           DEF Parts, WriteInv, WriteIdle, Written, SocksKept, ReadsKept
      <4> QED BY <4>2, <4>3
    <3>2. CASE OpenedNow(h, r0, l0)
      <4>1. r = r0 /\ adb_channels'[h].data = 0 /\ wrote'[h] = 0
        BY <1>1, <1>3, <3>2 DEF OpenedNow
      <4>2. ASSUME NEW l \in Ids, Sock(r, l)' PROVE Written(h, r)'
        <5>1. Sock(r, l) /\ adbd'.sockets[r].read = adbd.sockets[r].read
          BY <1>1, <4>2 DEF SocksKept, ReadsKept
        <5>2. l = l0
          BY <1>2, <4>1, <5>1 DEF Parts, BindInv, Binds
        <5>3. adbd.sockets[r].read = 0
          BY <3>2, <4>1, <5>1, <5>2 DEF Parts, WriteInv, WriteOpen, OpenedNow
        <5> QED BY <4>1, <5>1, <5>3 DEF Written
      <4> QED BY <1>12, <4>1, <4>2
    <3>3. CASE Readied(h, r0, l0)
      <4>1. r = r0 /\ adb_channels'[h].data = 0 /\ wrote'[h] = wrote[h]
        BY <1>1, <3>3 DEF Readied
      <4>2. ASSUME NEW l \in Ids, Sock(r, l)' PROVE Written(h, r)'
        <5>1. Sock(r, l) /\ adbd'.sockets[r].read = adbd.sockets[r].read
          BY <1>1, <4>2 DEF SocksKept, ReadsKept
        <5>2. l = l0
          BY <1>2, <4>1, <5>1 DEF Parts, BindInv, Binds
        <5>3. wrote[h] = adbd.sockets[r].read
          BY <3>3, <4>1, <5>1, <5>2 DEF Parts, WriteInv, WriteReady, Readied
        <5> QED BY <4>1, <5>1, <5>3 DEF Written
      <4> QED BY <1>12, <4>1, <4>2
    <3> QED BY <3>1, <3>2, <3>3
  <2>3. WriteReady'
    <3> SUFFICES ASSUME NEW h \in Handles, NEW r \in Ids,
                        adb_channels'[h].state = "WAIT_READY",
                        adb_channels'[h].remote = r,
                        NEW i \in Nat, NEW l \in Ids, Sock(r, l)'
                 PROVE  /\ OutWrte(i, r, l)' => OutData(i)' = wrote'[h]
                        /\ InOkay(i, r, l)' => wrote'[h] = adbd'.sockets[r].read
      BY DEF WriteReady
    <3>1. adb_channels[h].state = "WAIT_READY" /\ adb_channels[h].remote = r
      BY <1>7
    <3>2. Sock(r, l) /\ adbd'.sockets[r].read = adbd.sockets[r].read
      BY <1>1 DEF SocksKept, ReadsKept
    <3> QED BY <1>1, <2>0, <3>1, <3>2
            DEF Parts, WriteInv, WriteReady, OutFewer, OkayFewer
  <2>4. WriteOpen'
    BY <1>1, <1>7, <2>0
       DEF Parts, WriteInv, WriteOpen, SocksKept, ReadsKept, OkayFewer
  <2> QED BY <2>1, <2>2, <2>3, <2>4 DEF WriteInv
<1> QED BY <1>5, <1>6, <1>8, <1>9, <1>10, <1>11, <1>13 DEF Parts

\* ADB_OKAY, whether or not it is for a channel.
LEMMA PartsHandleOkay ==
    ASSUME TypeOK, TypeOK', CountInv, Parts, ADBConnected, HandleOkay
    PROVE  Parts'
<1> PICK p \in Packets : p = recvPort.pkt
  BY DEF TypeOK, Ports
<1>1. /\ Received(p) /\ Unref(TRUE) /\ p.cmd = "OKAY"
      /\ UNCHANGED owner
      /\ adb_channels' =
            [h \in Handles |->
               IF h \in Addressed(p) THEN OnOkay(adb_channels[h], p.arg0)
               ELSE adb_channels[h]]
  BY DEF HandleOkay, Unref
<1>2. /\ InTaken /\ OutFewer(0) /\ SocksFewer /\ AwaitsKept
      /\ local_id_counter' = local_id_counter
      /\ Len(Incoming) >= 1 /\ Incoming[1] = p
  BY <1>1, TakeEffect
<1> PICK r \in Ids, l \in Ids : r = p.arg0 /\ l = p.arg1
  BY PacketIds
<1>3. InOkay(1, r, l)
  BY <1>1, <1>2, FirstIn
<1>4. /\ OkayFewer(1) /\ WrteKept(1) /\ ClseKept(1)
      /\ \A q, k \in Ids : InOkay(1, q, k) => q = r /\ k = l
  BY <1>1, <1>2, FirstIn
<1>5. Given(l)
  BY <1>3 DEF Parts, IdInv, IdIn
<1>6. \A h \in Handles :
         /\ adb_channels'[h].local = adb_channels[h].local
         /\ adb_channels'[h].ack = adb_channels[h].ack
         /\ \/ Unmoved(h, r, l) \/ OpenedNow(h, r, l) \/ Readied(h, r, l)
  BY <1>1, <1>5, OkayEffect DEF Parts, IdInv
<1> QED BY <1>1, <1>2, <1>3, <1>4, <1>6, OkayParts

----------------------------------------------------------------------------
(* ADB_CLSE: the channel is free again.                                    *)

\* What ADB_CLSE does to a channel.
LEMMA ClseEffect ==
    ASSUME TypeOK, HandleClse, NEW p, p = recvPort.pkt
    PROVE  \A h \in Handles :
              /\ adb_channels'[h].local = adb_channels[h].local
              /\ adb_channels'[h].remote = adb_channels[h].remote
              /\ adb_channels'[h].ack = adb_channels[h].ack
              /\ adb_channels'[h].state # "FREE" => adb_channels'[h] = adb_channels[h]
              /\ adb_channels'[h].state \in Live =>
                    app'[h] = app[h] /\ got'[h] = got[h] /\ wrote'[h] = wrote[h]
              /\ \/ adb_channels'[h] = adb_channels[h]
                 \/ /\ adb_channels'[h].state = "FREE"
                    /\ adb_channels[h].local = p.arg1
<1> PICK lost \in SUBSET Handles, closing \in SUBSET Handles :
       /\ lost = {h \in Addressed(p) : adb_channels[h].state \in Reported}
       /\ closing = {h \in Addressed(p) : adb_channels[h].state \in Closing}
  BY DEF Addressed
<1>1. /\ adb_channels' =
            [h \in Handles |->
               IF h \in lost \union closing
                 THEN [adb_channels[h] EXCEPT !.state = "FREE"]
                 ELSE adb_channels[h]]
      /\ GiveUp(lost)
  BY DEF HandleClse, NotifyClosed
<1>2. \A h \in Handles : h \notin lost =>
         app'[h] = app[h] /\ got'[h] = got[h] /\ wrote'[h] = wrote[h]
  BY <1>1 DEF GiveUp
<1>3. \A h \in Handles :
         h \in lost \union closing => adb_channels[h].local = p.arg1
  BY DEF Addressed
<1>4. ASSUME NEW h \in Handles
      PROVE  /\ h \in lost \union closing =>
                   adb_channels'[h] = [adb_channels[h] EXCEPT !.state = "FREE"]
             /\ h \notin lost \union closing => adb_channels'[h] = adb_channels[h]
             /\ adb_channels[h] \in Channels
  BY <1>1 DEF TypeOK
<1>5. ASSUME NEW ch \in Channels, NEW ck, ck = [ch EXCEPT !.state = "FREE"]
      PROVE  /\ ck.local = ch.local /\ ck.remote = ch.remote /\ ck.ack = ch.ack
             /\ ck.state = "FREE"
  BY <1>5 DEF Channels
<1> SUFFICES ASSUME NEW h \in Handles
             PROVE  /\ adb_channels'[h].local = adb_channels[h].local
                    /\ adb_channels'[h].remote = adb_channels[h].remote
                    /\ adb_channels'[h].ack = adb_channels[h].ack
                    /\ adb_channels'[h].state # "FREE" =>
                          adb_channels'[h] = adb_channels[h]
                    /\ adb_channels'[h].state \in Live =>
                          app'[h] = app[h] /\ got'[h] = got[h] /\ wrote'[h] = wrote[h]
                    /\ \/ adb_channels'[h] = adb_channels[h]
                       \/ /\ adb_channels'[h].state = "FREE"
                          /\ adb_channels[h].local = p.arg1
  OBVIOUS
<1>6. CASE h \in lost \union closing
  <2>1. adb_channels[h].local = p.arg1
    BY <1>3, <1>6
  <2>2. /\ adb_channels'[h].local = adb_channels[h].local
        /\ adb_channels'[h].remote = adb_channels[h].remote
        /\ adb_channels'[h].ack = adb_channels[h].ack
        /\ adb_channels'[h].state = "FREE"
    <3> PICK ch \in Channels : ch = adb_channels[h]
      BY <1>4
    <3> PICK ck : ck = adb_channels'[h]
      OBVIOUS
    <3>1. ck = [ch EXCEPT !.state = "FREE"]
      BY <1>4, <1>6
    <3>2. /\ ck.local = ch.local /\ ck.remote = ch.remote /\ ck.ack = ch.ack
          /\ ck.state = "FREE"
      BY <1>5, <3>1
    <3> QED BY <3>2
  <2>3. adb_channels'[h].state \notin Live
    BY <2>2 DEF Live
  <2> QED BY <2>1, <2>2, <2>3
<1>7. CASE h \notin lost \union closing
  <2>1. adb_channels'[h] = adb_channels[h]
    BY <1>4, <1>7
  <2>2. app'[h] = app[h] /\ got'[h] = got[h] /\ wrote'[h] = wrote[h]
    BY <1>2, <1>7
  <2> QED BY <2>1, <2>2
<1> QED BY <1>6, <1>7

\* A closure is taken, and the channel of its opening is free.
LEMMA ClseParts ==
    ASSUME TypeOK, Parts, HostKept, SocksFewer, AwaitsKept,
           OutFewer(0), OkayKept(1), WrteKept(1), ClseKept(1), InTaken,
           NEW l0 \in Ids, InClse(1, l0),
           \A h \in Handles :
              \/ adb_channels'[h].state = adb_channels[h].state
              \/ adb_channels'[h].state = "FREE" /\ adb_channels[h].local = l0
    PROVE  Parts'
<1>1. /\ SocksKept /\ WrteFewer(1) /\ OkayFewer(1)
      /\ \A h \in Handles :
            /\ adb_channels'[h].local = adb_channels[h].local
            /\ adb_channels'[h].remote = adb_channels[h].remote
  BY DEF SocksFewer, WrteKept, OkayKept, HostKept
<1>2. IdInv' /\ BindInv' /\ BindsFewer /\ DeliverInv' /\ WriteInv' /\ AnswersKept
  BY <1>1, LossData, LossAnswered
<1>3. AckInv'
  BY <1>1, LossAck, HostAcks DEF Parts, AwaitsKept
<1>4. OpenInv'
  <2>1. \A l \in Ids : Unasked(l) => Unasked(l)'
    BY <1>2, LossUnasked
  <2>2. \A l \in Ids, i \in Nat : OutOpen(i, l)' => l # l0
    <3>1. \A i \in Nat : i + 0 = i
      OBVIOUS
    <3> QED BY <3>1 DEF Parts, OpenInv, OpenOut, OutFewer, Unasked
  <2>3. OpenOut'
    BY <1>1, <2>1, <2>2, LossOpenOut DEF Parts, OpenInv
  <2> QED BY <1>2, <2>3, LossOpenChan, LossFresh DEF Parts, OpenInv
<1>5. CloseInv'
  <2>1. CloseChan'
    <3> SUFFICES ASSUME NEW h \in Handles, NEW r \in Ids, NEW l \in Ids
                 PROVE  /\ /\ adb_channels'[h].state = "FREE"
                           /\ adb_channels'[h].local = l
                           => ~Sock(r, l)' /\ \A j \in Nat : ~InWrte(j, r, l)'
                        /\ Sock(r, l)' /\ adb_channels'[h].remote = r =>
                              adb_channels'[h].local = l
      BY DEF CloseChan
    <3>1. Sock(r, l)' /\ adb_channels'[h].remote = r => adb_channels'[h].local = l
      BY <1>1 DEF Parts, CloseInv, CloseChan, SocksKept
    <3>2. ASSUME adb_channels'[h].state = "FREE", adb_channels'[h].local = l
          PROVE  ~Sock(r, l)' /\ \A j \in Nat : ~InWrte(j, r, l)'
      <4>1. CASE adb_channels[h].state = "FREE"
        <5>1. \A i \in Nat : i + 1 \in Nat
          OBVIOUS
        <5> QED BY <1>1, <3>2, <4>1, <5>1
                DEF Parts, CloseInv, CloseChan, SocksKept, WrteFewer
      <4>2. CASE l = l0
        <5>1. ~Sock(r, l)'
          BY <1>1, <4>2 DEF Parts, CloseInv, CloseIn, SocksKept
        <5>2. \A j \in Nat : InWrte(j, r, l)' => 0 < j /\ j + 1 < 1
          <6>1. \A j \in Nat : j + 1 \in Nat
            OBVIOUS
          <6> QED BY <4>2, <6>1 DEF Parts, CloseInv, CloseIn, InTaken
        <5> QED BY <5>1, <5>2
      <4> QED BY <1>1, <3>2, <4>1, <4>2
    <3> QED BY <3>1, <3>2
  <2> QED BY <1>1, <2>1, LossCloseIn, LossCloseOut DEF Parts, CloseInv
<1> QED BY <1>2, <1>3, <1>4, <1>5 DEF Parts

\* ADB_CLSE, whatever the state of the channel.
LEMMA PartsHandleClse ==
    ASSUME TypeOK, TypeOK', CountInv, Parts, ADBConnected, HandleClse
    PROVE  Parts'
<1> PICK p \in Packets : p = recvPort.pkt
  BY DEF TypeOK, Ports
<1>1. Received(p) /\ Unref(TRUE) /\ p.cmd = "CLSE"
  BY DEF HandleClse, Unref
<1>2. /\ InTaken /\ OutFewer(0) /\ SocksFewer /\ AwaitsKept
      /\ local_id_counter' = local_id_counter
      /\ Len(Incoming) >= 1 /\ Incoming[1] = p
  BY <1>1, TakeEffect
<1> PICK l \in Ids : l = p.arg1
  BY PacketIds
<1>3. InClse(1, l) /\ OkayKept(1) /\ WrteKept(1) /\ ClseKept(1)
  BY <1>1, <1>2, FirstIn
<1>4. \A h \in Handles :
         /\ adb_channels'[h].local = adb_channels[h].local
         /\ adb_channels'[h].remote = adb_channels[h].remote
         /\ adb_channels'[h].ack = adb_channels[h].ack
         /\ adb_channels'[h].state # "FREE" => adb_channels'[h] = adb_channels[h]
         /\ adb_channels'[h].state \in Live =>
               app'[h] = app[h] /\ got'[h] = got[h] /\ wrote'[h] = wrote[h]
         /\ \/ adb_channels'[h] = adb_channels[h]
            \/ adb_channels'[h].state = "FREE" /\ adb_channels[h].local = l
  BY ClseEffect
<1>5. HostKept
  BY <1>2, <1>4 DEF HostKept, Live
<1> QED BY <1>2, <1>3, <1>4, <1>5, ClseParts

----------------------------------------------------------------------------
(* ADB_WRTE: the client has the data, they will be acknowledged.           *)

\* What the packet's channel is: one that is open, with that socket.
LEMMA WrteChannel ==
    ASSUME TypeOK, Parts, NEW r0 \in Ids, NEW l0 \in Ids, InWrte(1, r0, l0),
           NEW h \in Handles, adb_channels[h].local = l0
    PROVE  /\ ~Fresh(h) /\ adb_channels[h].state # "FREE"
           /\ Active(h) => adb_channels[h].remote = r0
<1>1. Binds(r0, l0)
  BY DEF Binds
<1>2. adb_channels[h].state # "START"
  BY <1>1 DEF Parts, OpenInv, OpenChan, Unasked
<1>3. adb_channels[h].state # "WAIT_OPEN"
  <2> SUFFICES ASSUME adb_channels[h].state = "WAIT_OPEN" PROVE FALSE
    OBVIOUS
  <2>1. Answered(r0, l0)
    BY <1>1 DEF Parts, OpenInv, OpenChan
  <2> PICK i \in Nat : InOkay(i, r0, l0) /\ i < 1
    BY <2>1 DEF Answered
  <2> QED BY DEF InOkay
<1>4. adb_channels[h].state # "FREE"
  BY DEF Parts, CloseInv, CloseChan
<1>5. Active(h) => adb_channels[h].remote = r0
  BY <1>1, IdsHere DEF Parts, BindInv, Binds
<1> QED BY <1>2, <1>3, <1>4, <1>5 DEF Fresh

\* Data are taken, and become an acknowledgement that is owed.
LEMMA WrteParts ==
    ASSUME TypeOK, Parts, NEW r0 \in Ids, NEW l0 \in Ids, NEW d0,
           InWrte(1, r0, l0), InData(1) = d0,
           InTaken, OkayKept(1), WrteFewer(1), ClseKept(1),
           \A r, l \in Ids : InWrte(1, r, l) => r = r0 /\ l = l0,
           OutFewer(0), SocksFewer, AwaitsKept,
           local_id_counter' = local_id_counter, app' = app, wrote' = wrote,
           \A h \in Handles :
              /\ adb_channels'[h].state = adb_channels[h].state
              /\ adb_channels'[h].local = adb_channels[h].local
              /\ adb_channels'[h].remote = adb_channels[h].remote
              /\ adb_channels'[h].data = adb_channels[h].data
              /\ adb_channels'[h].ack <=>
                    \/ adb_channels[h].ack
                    \/ adb_channels[h].local = l0 /\ adb_channels[h].remote = r0
              /\ got'[h] = IF /\ adb_channels[h].local = l0
                              /\ adb_channels[h].remote = r0
                              /\ adb_channels[h].state \notin Closing /\ Holds(h)
                             THEN d0 ELSE got[h]
    PROVE  Parts'
<1>1. /\ SocksKept /\ SentsKept /\ ReadsKept /\ OkayFewer(1)
      /\ adbd'.next = adbd.next
  BY DEF SocksFewer, SocksKept, OkayKept
<1>2. Used(r0) /\ Given(l0) /\ Binds(r0, l0)
  BY DEF Parts, IdInv, IdIn, Binds
<1>3. ActiveKept /\ FreeKept
  BY DEF ActiveKept, FreeKept, Active
<1>4. BindsFewer /\ AnswersKept
  BY <1>1, <1>3, LossBinds, LossAnswered
<1>5. IdInv'
  <2>1. \A l \in Ids : (Given(l)' <=> Given(l)) /\ (Used(l)' <=> Used(l))
    BY <1>1, GivenSame, UsedSame
  <2>2. \A h \in Handles :
           /\ adb_channels'[h].local = 0 \/ Given(adb_channels[h].local)'
           /\ adb_channels'[h].local # 0 => HandleOf(adb_channels'[h].local) = h
           /\ adb_channels'[h].state # "FREE" => adb_channels'[h].local # 0
           /\ adb_channels'[h].remote < adbd'.next
    BY <1>1, <2>1, IdsHere DEF Parts, IdInv, IdChan
  <2>3. \A h \in Handles :
           Active(h)' \/ adb_channels'[h].ack => 0 < adb_channels'[h].remote
    BY <1>2 DEF Parts, IdInv, IdChan, Active, Used
  <2>4. IdChan'
    BY <2>2, <2>3 DEF IdChan
  <2> QED BY <1>1, <2>4, LossIdIn, LossIdOut, LossIdSock DEF Parts, IdInv
<1>6. BindInv'
  BY <1>4, BindFewer DEF Parts
<1>7. \A h \in Handles : Fresh(h) => adb_channels[h].local # l0
  BY WrteChannel
<1>8. OpenInv'
  <2>1. \A l \in Ids : Unasked(l) => Unasked(l)'
    BY <1>4, LossUnasked
  <2>2. OpenOut'
    BY <2>1, LossOpenOut DEF Parts, OpenInv
  <2>3. OpenChan'
    BY <1>4, <2>1 DEF Parts, OpenInv, OpenChan, BindsFewer, AnswersKept
  <2>4. FreshInv'
    BY <1>7 DEF Parts, OpenInv, FreshInv, Fresh
  <2> QED BY <2>2, <2>3, <2>4 DEF OpenInv
<1>9. CloseInv'
  BY <1>1, <1>3, LossCloseIn, LossCloseChan, LossCloseOut DEF Parts, CloseInv
<1>10. \A i \in Nat, l \in Ids : ~InWrte(i, r0, l)'
  <2> SUFFICES ASSUME NEW i \in Nat, NEW l \in Ids, InWrte(i, r0, l)' PROVE FALSE
    OBVIOUS
  <2>0. i + 1 \in Nat
    OBVIOUS
  <2>1. 0 < i /\ i + 1 \in Nat /\ InWrte(i + 1, r0, l)
    BY <2>0 DEF InTaken
  <2>2. i + 1 = 1
    BY <2>1 DEF Parts, AckInv, AckOnce
  <2> QED BY <2>1, <2>2
<1>11. AckInv'
  <2>0. \A i \in Nat : i + 1 \in Nat /\ i + 0 = i
    OBVIOUS
  <2>1. \A h \in Handles, r \in Ids :
           AckAt(h, r)' => \/ AckAt(h, r)
                           \/ r = r0 /\ adb_channels[h].local = l0
    BY DEF AckAt
  <2>2. \A i \in Nat, r, l \in Ids :
           /\ InWrte(i, r, l)' => InWrte(i + 1, r, l)
           /\ OutOkay(i, r, l)' => OutOkay(i, r, l)
    BY <2>0 DEF WrteFewer, OutFewer
  <2>3. Awaits(r0) /\ \A h \in Handles : ~AckAt(h, r0)
    BY DEF Parts, AckInv, AckAwaited, AckChan
  <2>4. AckAwaited'
    BY <2>0, <2>1, <2>2, <2>3 DEF Parts, AckInv, AckAwaited, AwaitsKept
  <2>5. AckOnce'
    <3> SUFFICES ASSUME NEW i \in Nat, NEW j \in Nat,
                        NEW r \in Ids, NEW l \in Ids, NEW q \in Ids
                 PROVE  /\ InWrte(i, r, l)' /\ InWrte(j, r, q)' => j = i
                        /\ OutOkay(i, r, l)' /\ OutOkay(j, r, q)' => j = i
                        /\ ~(InWrte(i, r, l)' /\ OutOkay(j, r, q)')
      BY DEF AckOnce
    <3>1. InWrte(i, r, l)' /\ InWrte(j, r, q)' => j + 1 = i + 1
      BY <2>0, <2>2 DEF Parts, AckInv, AckOnce
    <3>2. /\ OutOkay(i, r, l)' /\ OutOkay(j, r, q)' => j = i
          /\ ~(InWrte(i, r, l)' /\ OutOkay(j, r, q)')
      BY <2>0, <2>2 DEF Parts, AckInv, AckOnce
    <3> QED BY <3>1, <3>2
  <2>6. \A i \in Nat, l \in Ids : ~OutOkay(i, r0, l)'
    BY <2>2 DEF Parts, AckInv, AckOnce
  <2>7. AckChan'
    <3>1. \A g, h \in Handles :
             adb_channels[g].local = l0 /\ adb_channels[h].local = l0 => g = h
      BY <1>2, OnlyOne DEF Parts, IdInv
    <3>2. ASSUME NEW h \in Handles, NEW r \in Ids, AckAt(h, r)',
                 NEW i \in Nat, NEW l \in Ids
          PROVE  ~InWrte(i, r, l)' /\ ~OutOkay(i, r, l)'
      BY <1>10, <2>0, <2>1, <2>2, <2>6, <3>2 DEF Parts, AckInv, AckChan
    <3>3. ASSUME NEW h \in Handles, NEW g \in Handles, NEW r \in Ids,
                 AckAt(h, r)', AckAt(g, r)'
          PROVE  g = h
      BY <2>1, <2>3, <3>1, <3>3 DEF Parts, AckInv, AckChan
    <3> QED BY <3>2, <3>3 DEF AckChan
  <2> QED BY <2>4, <2>5, <2>7 DEF AckInv
<1>12. DeliverInv'
  <2> SUFFICES ASSUME NEW h \in Handles, NEW l \in Ids,
                      adb_channels[h].state \in Live, adb_channels[h].local = l
               PROVE  /\ Holds(h)' /\ l = LocalId(app'[h], h)
                      /\ \A i \in Nat, r \in Ids :
                            InWrte(i, r, l)' =>
                               /\ InData(i)' = NextData(got'[h])
                               /\ Sock(r, l)' => adbd'.sockets[r].sent = InData(i)'
                      /\ \A r \in Ids :
                            Sock(r, l)' => \/ adbd'.sockets[r].sent = got'[h]
                                           \/ \E i \in Nat : InWrte(i, r, l)'
    BY DEF DeliverInv
  <2>1. Holds(h) /\ Holds(h)' /\ l = LocalId(app'[h], h)
    BY DEF Parts, DeliverInv, Holds
  <2>2. CASE l = l0
    <3>1. adb_channels[h].remote = r0 /\ adb_channels[h].state \notin Closing
      BY <2>2, WrteChannel DEF Fresh, Active, Live, Closing
    <3>2. got'[h] = d0
      BY <2>1, <2>2, <3>1
    <3>3. \A r \in Ids : Binds(r, l) => r = r0
      BY <1>2, <2>2 DEF Parts, BindInv
    <3>4. ASSUME NEW i \in Nat, NEW r \in Ids, InWrte(i, r, l)' PROVE FALSE
      <4>1. Binds(r, l)'
        BY <3>4 DEF Binds
      <4> QED BY <1>4, <1>10, <3>3, <3>4, <4>1 DEF BindsFewer
    <3>5. ASSUME NEW r \in Ids, Sock(r, l)'
          PROVE  adbd'.sockets[r].sent = got'[h]
      <4>1. Sock(r, l) /\ adbd'.sockets[r].sent = adbd.sockets[r].sent
        BY <1>1, <3>5 DEF SocksKept, SentsKept
      <4>2. r = r0
        BY <3>3, <4>1 DEF Binds
      <4>3. adbd.sockets[r].sent = InData(1)
        BY <2>2, <4>1, <4>2 DEF Parts, DeliverInv
      <4> QED BY <3>2, <4>1, <4>3
    <3> QED BY <2>1, <3>4, <3>5
  <2>3. CASE l # l0
    <3>1. got'[h] = got[h]
      BY <2>3
    <3>2. ASSUME NEW i \in Nat, NEW r \in Ids, InWrte(i, r, l)'
          PROVE  /\ InData(i)' = NextData(got'[h])
                 /\ Sock(r, l)' => adbd'.sockets[r].sent = InData(i)'
      <4>1. i + 1 \in Nat /\ InWrte(i + 1, r, l) /\ InData(i)' = InData(i + 1)
        BY <3>2 DEF WrteFewer
      <4> QED BY <1>1, <3>1, <4>1 DEF Parts, DeliverInv, SocksKept, SentsKept
    <3>3. ASSUME NEW r \in Ids, Sock(r, l)'
          PROVE  \/ adbd'.sockets[r].sent = got'[h]
                 \/ \E i \in Nat : InWrte(i, r, l)'
      <4>1. Sock(r, l) /\ adbd'.sockets[r].sent = adbd.sockets[r].sent
        BY <1>1, <3>3 DEF SocksKept, SentsKept
      <4>2. CASE adbd.sockets[r].sent = got[h]
        BY <3>1, <4>1, <4>2
      <4>3. CASE \E i \in Nat : InWrte(i, r, l)
        <5> PICK i \in Nat : InWrte(i, r, l)
          BY <4>3
        <5>1. i # 1
          BY <2>3
        <5> QED BY <5>1 DEF InTaken
      <4> QED BY <4>1, <4>2, <4>3 DEF Parts, DeliverInv
    <3> QED BY <2>1, <3>2, <3>3
  <2> QED BY <2>2, <2>3
<1>13. WriteInv'
  BY <1>1, LossWrite DEF Parts
<1> QED BY <1>5, <1>6, <1>8, <1>9, <1>11, <1>12, <1>13 DEF Parts

\* ADB_WRTE, whether or not a channel takes it.
LEMMA PartsHandleWrte ==
    ASSUME TypeOK, TypeOK', CountInv, Parts, ADBConnected, HandleWrte
    PROVE  Parts'
<1> PICK p \in Packets : p = recvPort.pkt
  BY DEF TypeOK, Ports
<1> PICK hs \in SUBSET Handles :
       hs = {h \in Addressed(p) : adb_channels[h].remote = p.arg0}
  BY DEF Addressed
<1>1. /\ Received(p) /\ Unref(TRUE) /\ p.cmd = "WRTE"
      /\ adb_channels' = [h \in Handles |->
            [adb_channels[h] EXCEPT !.ack = @ \/ h \in hs]]
      /\ got' = [h \in Handles |->
            IF /\ h \in {g \in hs : Takes(adb_channels[g])}
               /\ Holds(h) THEN p.data ELSE got[h]]
      /\ app' = app /\ wrote' = wrote
  BY DEF HandleWrte, Unref
<1>2. /\ InTaken /\ OutFewer(0) /\ SocksFewer /\ AwaitsKept
      /\ local_id_counter' = local_id_counter
      /\ Len(Incoming) >= 1 /\ Incoming[1] = p
  BY <1>1, TakeEffect
<1> PICK r \in Ids, l \in Ids : r = p.arg0 /\ l = p.arg1
  BY PacketIds
<1>3. InWrte(1, r, l) /\ InData(1) = p.data
  BY <1>1, <1>2, FirstIn
<1>4. /\ OkayKept(1) /\ WrteFewer(1) /\ ClseKept(1)
      /\ \A q, k \in Ids : InWrte(1, q, k) => q = r /\ k = l
  BY <1>1, <1>2, FirstIn
<1>5. Given(l)
  BY <1>3 DEF Parts, IdInv, IdIn
<1>6. hs = {h \in Handles : /\ adb_channels[h].local = l
                            /\ adb_channels[h].remote = r}
  BY <1>5, AddressedTo DEF Parts, IdInv
<1>7. \A h \in Handles :
         /\ adb_channels'[h].state = adb_channels[h].state
         /\ adb_channels'[h].local = adb_channels[h].local
         /\ adb_channels'[h].remote = adb_channels[h].remote
         /\ adb_channels'[h].data = adb_channels[h].data
         /\ (adb_channels'[h].ack <=> adb_channels[h].ack \/ h \in hs)
  <2>1. ASSUME NEW ch \in Channels, NEW b \in BOOLEAN, NEW ck,
               ck = [ch EXCEPT !.ack = b]
        PROVE  /\ ck.state = ch.state /\ ck.local = ch.local
               /\ ck.remote = ch.remote /\ ck.data = ch.data /\ ck.ack = b
    BY <2>1 DEF Channels
  <2>2. \A h \in Handles :
           /\ adb_channels[h] \in Channels
           /\ (adb_channels[h].ack \/ h \in hs) \in BOOLEAN
           /\ adb_channels'[h] = [adb_channels[h] EXCEPT
                                    !.ack = adb_channels[h].ack \/ h \in hs]
    BY <1>1 DEF TypeOK
  <2> SUFFICES ASSUME NEW h \in Handles
               PROVE  /\ adb_channels'[h].state = adb_channels[h].state
                      /\ adb_channels'[h].local = adb_channels[h].local
                      /\ adb_channels'[h].remote = adb_channels[h].remote
                      /\ adb_channels'[h].data = adb_channels[h].data
                      /\ adb_channels'[h].ack <=> adb_channels[h].ack \/ h \in hs
    OBVIOUS
  <2> PICK b \in BOOLEAN : b <=> adb_channels[h].ack \/ h \in hs
    OBVIOUS
  <2>3. adb_channels'[h] = [adb_channels[h] EXCEPT !.ack = b]
    BY <2>2
  <2> QED BY <2>1, <2>2, <2>3
<1>8. \A h \in Handles :
         got'[h] = IF /\ adb_channels[h].local = l /\ adb_channels[h].remote = r
                      /\ adb_channels[h].state \notin Closing /\ Holds(h)
                     THEN p.data ELSE got[h]
  BY <1>1, <1>6 DEF Takes
<1>9. \A h \in Handles :
         adb_channels'[h].ack <=>
            \/ adb_channels[h].ack
            \/ adb_channels[h].local = l /\ adb_channels[h].remote = r
  BY <1>6, <1>7
<1>10. \A h \in Handles :
         /\ adb_channels'[h].state = adb_channels[h].state
         /\ adb_channels'[h].local = adb_channels[h].local
         /\ adb_channels'[h].remote = adb_channels[h].remote
         /\ adb_channels'[h].data = adb_channels[h].data
         /\ adb_channels'[h].ack <=>
               \/ adb_channels[h].ack
               \/ adb_channels[h].local = l /\ adb_channels[h].remote = r
         /\ got'[h] = IF /\ adb_channels[h].local = l
                         /\ adb_channels[h].remote = r
                         /\ adb_channels[h].state \notin Closing /\ Holds(h)
                        THEN p.data ELSE got[h]
  BY <1>7, <1>8, <1>9
<1>11. app' = app /\ wrote' = wrote
  BY <1>1
<1> PICK d \in Data : d = p.data
  BY PacketIds
<1>12. \A h \in Handles :
         /\ adb_channels'[h].state = adb_channels[h].state
         /\ adb_channels'[h].local = adb_channels[h].local
         /\ adb_channels'[h].remote = adb_channels[h].remote
         /\ adb_channels'[h].data = adb_channels[h].data
         /\ adb_channels'[h].ack <=>
               \/ adb_channels[h].ack
               \/ adb_channels[h].local = l /\ adb_channels[h].remote = r
         /\ got'[h] = IF /\ adb_channels[h].local = l
                         /\ adb_channels[h].remote = r
                         /\ adb_channels[h].state \notin Closing /\ Holds(h)
                        THEN d ELSE got[h]
  BY <1>10
<1>13. InData(1) = d
  BY <1>3
<1> QED BY <1>2, <1>3, <1>4, <1>11, <1>12, <1>13, WrteParts

----------------------------------------------------------------------------
(* Steps that leave the channels and the streams alone.                    *)

\* A step that changes nothing of these.
LEMMA SameParts ==
    ASSUME TypeOK, TypeOK', Parts, HostSame, UNCHANGED adbd,
           Incoming' = Incoming, Outgoing' = Outgoing
    PROVE  Parts'
BY InSame, OutSame, SocksSame, HostSameKept, LossParts

\* A failed reception.
LEMMA PartsReceiveError ==
    ASSUME TypeOK, TypeOK', Parts, ReceiveError
    PROVE  Parts'
<1>1. HostSame /\ UNCHANGED adbd
  BY DEF ReceiveError, HostSame, owner, phone
<1>2. recvPort' = recvPort
  BY DEF ReceiveError, Unref
<1>3. Incoming' = Incoming /\ Outgoing' = Outgoing
  BY <1>2 DEF ReceiveError, Incoming, Outgoing, phone
<1> QED BY <1>1, <1>3, SameParts

\* CNXN and what ADBHandlePacket does not know.
LEMMA PartsIgnored ==
    ASSUME TypeOK, TypeOK', CountInv, Parts, ADBConnected,
           HandleCnxn \/ HandleOther
    PROVE  Parts'
<1> PICK p \in Packets : p = recvPort.pkt
  BY DEF TypeOK, Ports
<1>1. /\ Received(p) /\ Unref(TRUE) /\ p.cmd # "OKAY" /\ p.cmd # "WRTE"
      /\ adb_channels' = adb_channels /\ UNCHANGED owner
  BY DEF HandleCnxn, HandleOther, Unref
<1> QED BY <1>1, IgnoreParts

\* A pass that sends nothing.
LEMMA PartsQuiet ==
    ASSUME TypeOK, TypeOK', Parts,
           NothingToSend \/ SendError \/ UNCHANGED vars
    PROVE  Parts'
<1>1. HostSame /\ UNCHANGED adbd
  BY DEF NothingToSend, SendError, vars, HostSame, host, owner, phone
<1>2. Incoming' = Incoming /\ Outgoing' = Outgoing
  BY DEF NothingToSend, SendError, vars, Incoming, Outgoing, phone, port
<1> QED BY <1>1, <1>2, SameParts

----------------------------------------------------------------------------
(* The client.                                                             *)

\* A call of the client touches neither stream nor the daemon.
LEMMA ClientStreams ==
    ASSUME TypeOK, TypeOK', Client
    PROVE  /\ InKept(0) /\ OutFewer(0) /\ SocksFewer /\ AwaitsKept
           /\ AnswersKept /\ UNCHANGED adbd
<1>1. UNCHANGED adbd
  BY DEF Client, ClientOpen, ClientWrite, ClientClose, phone
<1>2. Incoming' = Incoming /\ Outgoing' = Outgoing
  BY DEF Client, ClientOpen, ClientWrite, ClientClose, phone, port, Incoming,
         Outgoing
<1>3. InKept(0) /\ OutFewer(0)
  BY <1>2, InSame, OutSame
<1>4. AnswersKept
  BY <1>3, LossAnswered DEF InKept, WrteKept
<1> QED BY <1>1, <1>3, <1>4, SocksSame

\* ADBClose: the channel binds, delivers and writes nothing more.
LEMMA PartsClientClose ==
    ASSUME TypeOK, TypeOK', Parts, ClientClose
    PROVE  Parts'
<1>1. InKept(0) /\ OutFewer(0) /\ SocksFewer /\ AwaitsKept
  BY ClientStreams DEF Client
<1> PICK h \in Handles : ADBClose(h) /\ GiveUp({h})
  BY DEF ClientClose
<1>2. \A g \in Handles \ {h} :
         /\ adb_channels'[g] = adb_channels[g]
         /\ app'[g] = app[g] /\ got'[g] = got[g] /\ wrote'[g] = wrote[g]
  BY DEF TypeOK, ADBClose, GiveUp
<1>3. /\ adb_channels'[h].local = adb_channels[h].local
      /\ adb_channels'[h].remote = adb_channels[h].remote
      /\ adb_channels'[h].ack = adb_channels[h].ack
      /\ adb_channels'[h].state \notin Live
      /\ adb_channels'[h].state = "FREE" <=> adb_channels[h].state = "FREE"
  <2>1. ASSUME NEW ch \in Channels, NEW ck, NEW st \in {"FREE", "CLOSE_REQUESTED"},
               ck = [ch EXCEPT !.state = st]
        PROVE  /\ ck.local = ch.local /\ ck.remote = ch.remote
               /\ ck.ack = ch.ack /\ ck.state = st
    BY <2>1 DEF Channels
  <2> PICK ch \in Channels : ch = adb_channels[h]
    BY DEF TypeOK
  <2> PICK ck : ck = adb_channels'[h]
    OBVIOUS
  <2> PICK st \in {"FREE", "CLOSE_REQUESTED"} :
         st = IF ch.state = "FREE" THEN "FREE" ELSE "CLOSE_REQUESTED"
    OBVIOUS
  <2>2. adb_channels'[h] = [adb_channels[h] EXCEPT
           !.state = IF @ = "FREE" THEN @ ELSE "CLOSE_REQUESTED"]
    BY DEF ADBClose, TypeOK
  <2>3. ck = [ch EXCEPT !.state = st]
    BY <2>2
  <2>4. /\ ck.local = ch.local /\ ck.remote = ch.remote
        /\ ck.ack = ch.ack /\ ck.state = st
    BY <2>1, <2>3
  <2>5. st \notin Live /\ (st = "FREE" <=> ch.state = "FREE")
    BY DEF Live
  <2> QED BY <2>4, <2>5
<1>4. local_id_counter' = local_id_counter
  BY DEF ClientClose
<1>5. HostKept /\ FreeKept
  BY <1>2, <1>3, <1>4 DEF HostKept, FreeKept
<1> QED BY <1>1, <1>5, LossParts

\* ADBWrite: the channel holds the data after the last that were written.
LEMMA PartsClientWrite ==
    ASSUME TypeOK, TypeOK', Parts, ClientWrite
    PROVE  Parts'
<1>1. /\ InKept(0) /\ OutFewer(0) /\ SocksFewer /\ AwaitsKept
      /\ AnswersKept /\ UNCHANGED adbd
  BY ClientStreams DEF Client
<1>2. /\ SocksKept /\ SentsKept /\ ReadsKept /\ OkayFewer(0) /\ WrteFewer(0)
      /\ WrteKept(0) /\ ClseKept(0) /\ adbd'.next = adbd.next
  BY <1>1 DEF SocksFewer, SocksKept, InKept, OkayKept, WrteKept
<1> PICK h \in Handles : /\ ADBChannelReady(h)
                         /\ ADBWrite(h, NextData(wrote[h]))
                         /\ wrote' = [wrote EXCEPT ![h] = NextData(@)]
  BY DEF ClientWrite
<1> PICK d \in Data : d = NextData(wrote[h])
  BY NextDataType DEF TypeOK
<1>3. d # 0
  <2> PICK w \in Data : w = wrote[h]
    BY DEF TypeOK
  <2>1. w \in Nat /\ d = IF w < MaxData THEN w + 1 ELSE 1
    BY AdbAssumption DEF NextData, Data
  <2> QED BY <2>1
<1>4. /\ local_id_counter' = local_id_counter /\ app' = app /\ got' = got
      /\ wrote'[h] = d
      /\ \A g \in Handles \ {h} : wrote'[g] = wrote[g]
  BY DEF ClientWrite, TypeOK
<1>5. /\ adb_channels[h].state = "IDLE" /\ adb_channels[h].data = 0
      /\ adb_channels'[h].data = d
      /\ \A g \in Handles :
            /\ adb_channels'[g].state = adb_channels[g].state
            /\ adb_channels'[g].local = adb_channels[g].local
            /\ adb_channels'[g].remote = adb_channels[g].remote
            /\ adb_channels'[g].ack = adb_channels[g].ack
            /\ g # h => adb_channels'[g].data = adb_channels[g].data
  <2>1. ASSUME NEW ch \in Channels, NEW ck, ck = [ch EXCEPT !.data = d]
        PROVE  /\ ck.local = ch.local /\ ck.remote = ch.remote
               /\ ck.ack = ch.ack /\ ck.state = ch.state /\ ck.data = d
    BY <2>1 DEF Channels
  <2> PICK ch \in Channels : ch = adb_channels[h]
    BY DEF TypeOK
  <2> PICK ck : ck = adb_channels'[h]
    OBVIOUS
  <2>2. /\ ck = [ch EXCEPT !.data = d]
        /\ \A g \in Handles \ {h} : adb_channels'[g] = adb_channels[g]
    BY DEF ADBWrite, TypeOK
  <2>3. /\ ck.local = ch.local /\ ck.remote = ch.remote
        /\ ck.ack = ch.ack /\ ck.state = ch.state /\ ck.data = d
    BY <2>1, <2>2
  <2> QED BY <2>2, <2>3 DEF ADBChannelReady
<1>6. ActiveKept /\ FreeKept
  BY <1>5 DEF ActiveKept, FreeKept, Active
<1>7. BindsFewer
  BY <1>2, <1>1, <1>6, LossBinds
<1>8. IdInv'
  <2>1. \A l \in Ids : Given(l)' <=> Given(l)
    BY <1>4, GivenSame
  <2>2. \A g \in Handles :
           /\ adb_channels'[g].local = 0 \/ Given(adb_channels[g].local)'
           /\ adb_channels'[g].local # 0 => HandleOf(adb_channels'[g].local) = g
           /\ adb_channels'[g].state # "FREE" => adb_channels'[g].local # 0
           /\ adb_channels'[g].remote < adbd'.next
           /\ Active(g)' \/ adb_channels'[g].ack => 0 < adb_channels'[g].remote
    BY <1>2, <1>5, <2>1, IdsHere DEF Parts, IdInv, IdChan, Active
  <2>3. IdChan'
    BY <1>5, <2>2 DEF IdChan
  <2> QED BY <1>1, <1>2, <1>4, <2>3, LossIdIn, LossIdOut, LossIdSock
          DEF Parts, IdInv
<1>9. BindInv'
  BY <1>7, BindFewer DEF Parts
<1>10. OpenInv'
  <2>1. \A l \in Ids : Unasked(l) => Unasked(l)'
    BY <1>2, <1>7, LossUnasked
  <2>2. OpenOut'
    BY <1>1, <1>5, <2>1, LossOpenOut DEF Parts, OpenInv
  <2>3. OpenChan'
    BY <1>1, <1>5, <1>7, <2>1
       DEF Parts, OpenInv, OpenChan, BindsFewer, AnswersKept
  <2>4. FreshInv'
    BY <1>4, <1>5 DEF Parts, OpenInv, FreshInv, Fresh
  <2> QED BY <2>2, <2>3, <2>4 DEF OpenInv
<1>11. CloseInv'
  BY <1>1, <1>2, <1>5, <1>6, LossCloseIn, LossCloseChan, LossCloseOut
     DEF Parts, CloseInv
<1>12. AckInv'
  <2>1. \A g \in Handles, r \in Ids : AckAt(g, r)' => AckAt(g, r)
    BY <1>5 DEF AckAt
  <2> QED BY <1>1, <1>2, <2>1, LossAck DEF Parts, AwaitsKept
<1>13. DeliverInv'
  BY <1>2, <1>4, <1>5, LossDeliver DEF Parts
<1>14. WriteInv'
  <2>0. \A i \in Nat : i + 0 = i
    OBVIOUS
  <2>1. WriteOnce' /\ WriteOut'
    BY <1>1, <1>2, LossWriteOnce, LossWriteOut DEF Parts, WriteInv
  <2>2. \A i \in Nat, r, l \in Ids :
           /\ OutWrte(i, r, l)' => OutWrte(i, r, l) /\ OutData(i)' = OutData(i)
           /\ InOkay(i, r, l)' => InOkay(i, r, l)
    BY <1>1, <1>2, <2>0 DEF OutFewer, OkayFewer
  <2>3. \A r, l \in Ids : Sock(r, l)' => Sock(r, l)
    BY <1>2 DEF SocksKept
  <2>4. WriteIdle'
    <3> SUFFICES ASSUME NEW g \in Handles, NEW r \in Ids,
                        adb_channels'[g].state = "IDLE",
                        adb_channels'[g].remote = r
                 PROVE  /\ \A i \in Nat, l \in Ids :
                              ~OutWrte(i, r, l)' /\ ~InOkay(i, r, l)'
                        /\ \A l \in Ids : Sock(r, l)' => Written(g, r)'
      BY DEF WriteIdle
    <3>1. adb_channels[g].state = "IDLE" /\ adb_channels[g].remote = r
      BY <1>5
    <3>2. \A i \in Nat, l \in Ids : ~OutWrte(i, r, l)' /\ ~InOkay(i, r, l)'
      BY <2>2, <3>1 DEF Parts, WriteInv, WriteIdle
    <3>3. ASSUME NEW l \in Ids, Sock(r, l)' PROVE Written(g, r)'
      <4>1. Written(g, r)
        BY <2>3, <3>1, <3>3 DEF Parts, WriteInv, WriteIdle
      <4> QED BY <1>1, <1>3, <1>4, <1>5, <4>1 DEF Written
    <3> QED BY <3>2, <3>3
  <2>5. \A g \in Handles :
           adb_channels[g].state \in {"WAIT_READY", "WAIT_OPEN"} =>
              wrote'[g] = wrote[g]
    BY <1>4, <1>5
  <2>6. WriteReady'
    BY <1>1, <1>5, <2>2, <2>3, <2>5 DEF Parts, WriteInv, WriteReady
  <2>7. WriteOpen'
    BY <1>1, <1>5, <2>2, <2>3 DEF Parts, WriteInv, WriteOpen
  <2> QED BY <2>1, <2>4, <2>6, <2>7 DEF WriteInv
<1> QED BY <1>8, <1>9, <1>10, <1>11, <1>12, <1>13, <1>14 DEF Parts

\* The first free channel gets an id that nothing names.
LEMMA FreshId ==
    ASSUME TypeOK, NEW c \in Opens, c = local_id_counter, NEW h \in Handles,
           local_id_counter' = c + 1
    PROVE  /\ LocalId(c, h) \in LocalIds /\ LocalId(c, h) \in Ids
           /\ ~Given(LocalId(c, h))
           /\ Given(LocalId(c, h))'
           /\ HandleOf(LocalId(c, h)) = h /\ LocalId(c, h) # 0
           /\ \A l \in Ids : Given(l) => Given(l)'
<1>1. LocalId(c, h) \in LocalIds /\ LocalId(c, h) \in Ids
  BY LocalIdType
<1> PICK b \in Nat : b = HandleBase
  BY AdbAssumption
<1>2. h \in Nat /\ h < b /\ c \in Nat /\ 0 < c
  BY AdbAssumption DEF Handles, Opens
<1>3. LocalId(c, h) = c * b + h /\ LocalId(c, 0) = c * b
  BY <1>2 DEF LocalId
<1>4. LocalId(c + 1, 0) = (c + 1) * b
  BY <1>2 DEF LocalId
<1>5. (c + 1) * b = c * b + b /\ c * b \in Nat /\ b <= c * b
  BY <1>2
<1>6. (c * b + h) % b = h
  BY <1>2
<1>7. Given(LocalId(c, h))'
  BY <1>2, <1>3, <1>4, <1>5 DEF Given
<1>8. ~Given(LocalId(c, h))
  BY <1>2, <1>3, <1>5 DEF Given
<1>9. HandleOf(LocalId(c, h)) = h /\ LocalId(c, h) # 0
  BY <1>2, <1>3, <1>5, <1>6 DEF HandleOf
<1>10. ASSUME NEW l \in Ids, Given(l) PROVE Given(l)'
  <2>1. l \in Int
    BY LocalIdsAreInts, AdbAssumption DEF Ids
  <2>2. 0 < l /\ l < c * b
    BY <1>3, <1>10 DEF Given
  <2>3. l < (c + 1) * b
    BY <1>2, <1>5, <2>1, <2>2
  <2> QED BY <1>4, <2>2, <2>3 DEF Given
<1> QED BY <1>1, <1>7, <1>8, <1>9, <1>10

\* ADBOpen: a new opening, which nothing names yet.
LEMMA PartsClientOpen ==
    ASSUME TypeOK, TypeOK', Parts, ClientOpen
    PROVE  Parts'
<1>1. /\ InKept(0) /\ OutFewer(0) /\ SocksFewer /\ AwaitsKept
      /\ AnswersKept /\ UNCHANGED adbd
  BY ClientStreams DEF Client
<1>2. /\ SocksKept /\ SentsKept /\ ReadsKept /\ OkayFewer(0) /\ WrteFewer(0)
      /\ WrteKept(0) /\ ClseKept(0) /\ adbd'.next = adbd.next
  BY <1>1 DEF SocksFewer, SocksKept, InKept, OkayKept, WrteKept
<1> PICK h \in Handles :
       /\ ADBOpen(h)
       /\ app' = [app EXCEPT ![h] = local_id_counter]
       /\ got' = [got EXCEPT ![h] = 0] /\ wrote' = [wrote EXCEPT ![h] = 0]
  BY DEF ClientOpen
<1> PICK c \in Opens : c = local_id_counter
  BY DEF ClientOpen, TypeOK, Opens
<1> PICK id \in Ids : id = LocalId(c, h)
  BY LocalIdType
<1>3. /\ ~Given(id) /\ Given(id)' /\ HandleOf(id) = h /\ id # 0
      /\ \A l \in Ids : Given(l) => Given(l)'
  BY FreshId DEF ADBOpen
<1>4. /\ app'[h] = c /\ got'[h] = 0 /\ wrote'[h] = 0
      /\ \A g \in Handles \ {h} :
            /\ app'[g] = app[g] /\ got'[g] = got[g] /\ wrote'[g] = wrote[g]
  BY DEF TypeOK
<1>5. /\ adb_channels[h].state = "FREE"
      /\ adb_channels'[h].state = "START" /\ adb_channels'[h].data = 0
      /\ adb_channels'[h].local = id /\ ~adb_channels'[h].ack
      /\ adb_channels'[h].remote = adb_channels[h].remote
      /\ \A g \in Handles \ {h} : adb_channels'[g] = adb_channels[g]
  <2> PICK ch \in Channels : ch = adb_channels[h]
    BY DEF TypeOK
  <2> PICK ck : ck = adb_channels'[h]
    OBVIOUS
  <2>1. /\ ck = Opened(ch, id)
        /\ \A g \in Handles \ {h} : adb_channels'[g] = adb_channels[g]
    BY DEF ADBOpen, TypeOK
  <2>2. /\ ck.state = "START" /\ ck.data = 0 /\ ck.local = id
        /\ ck.remote = ch.remote /\ ck.ack = FALSE
    <3>1. ASSUME NEW cj \in Channels, NEW cn, cn = Opened(cj, id)
          PROVE  /\ cn.state = "START" /\ cn.data = 0 /\ cn.local = id
                 /\ cn.remote = cj.remote /\ cn.ack = FALSE
      BY <3>1 DEF Opened, Channels
    <3> QED BY <2>1, <3>1
  <2> QED BY <2>1, <2>2 DEF ADBOpen, FreeHandles
<1>6. ActiveKept /\ FreeKept
  BY <1>5 DEF ActiveKept, FreeKept, Active
<1>7. BindsFewer
  BY <1>1, <1>2, <1>6, LossBinds
<1>8. /\ \A r \in Ids : ~Sock(r, id)
      /\ \A i \in Nat, r \in Ids : ~InOkay(i, r, id) /\ ~InWrte(i, r, id)
      /\ \A i \in Nat : ~InClse(i, id) /\ ~OutOpen(i, id)
      /\ \A i \in Nat, r \in Ids : ~OutWrte(i, r, id)
  BY <1>3 DEF Parts, IdInv, IdIn, IdOut, IdSock
<1>9. \A g \in Handles : adb_channels[g].local # id
  BY <1>3 DEF Parts, IdInv, IdChan
<1>10. Unasked(id)
  BY <1>8, <1>9 DEF Unasked, Binds
<1>11. \A i \in Nat : i + 0 = i
  OBVIOUS
<1>12. /\ \A i \in Nat, r, l \in Ids :
             /\ InWrte(i, r, l)' => InWrte(i, r, l)
             /\ InOkay(i, r, l)' => InOkay(i, r, l)
             /\ OutWrte(i, r, l)' => OutWrte(i, r, l)
             /\ OutOkay(i, r, l)' => OutOkay(i, r, l)
             /\ OutClse(i, r, l)' => OutClse(i, r, l)
       /\ \A i \in Nat, l \in Ids : /\ InClse(i, l)' => InClse(i, l)
                                    /\ OutOpen(i, l)' => OutOpen(i, l)
       /\ \A r, l \in Ids : Sock(r, l)' => Sock(r, l)
  BY <1>1, <1>2, <1>11 DEF OkayFewer, WrteFewer, OutFewer, ClseKept, SocksKept
<1>13. IdInv'
  <2>1. \A r \in Ids : Used(r)' <=> Used(r)
    BY <1>2, UsedSame
  <2>2. IdIn' /\ IdSock'
    BY <1>3, <1>12, <2>1 DEF Parts, IdInv, IdIn, IdSock
  <2>3. IdOut'
    <3>1. \A i \in Nat, l \in Ids : OutOpen(i, l)' => Given(l)'
      BY <1>3, <1>12 DEF Parts, IdInv, IdOut
    <3>2. \A i \in Nat, r, l \in Ids :
             OutOkay(i, r, l)' \/ OutWrte(i, r, l)' => Used(r)' /\ Given(l)'
      BY <1>3, <1>12, <2>1 DEF Parts, IdInv, IdOut
    <3>3. \A i \in Nat, r, l \in Ids :
             OutClse(i, r, l)' => r < adbd'.next /\ Given(l)'
      BY <1>2, <1>3, <1>12 DEF Parts, IdInv, IdOut
    <3> QED BY <3>1, <3>2, <3>3 DEF IdOut
  <2>4. ASSUME NEW g \in Handles
        PROVE  /\ adb_channels'[g].local = 0 \/ Given(adb_channels[g].local)'
               /\ adb_channels'[g].local # 0 => HandleOf(adb_channels'[g].local) = g
               /\ adb_channels'[g].state # "FREE" => adb_channels'[g].local # 0
               /\ adb_channels'[g].remote < adbd'.next
               /\ Active(g)' \/ adb_channels'[g].ack => 0 < adb_channels'[g].remote
    <3>1. CASE g = h
      <4>1. ~Active(g)' /\ adb_channels'[g].remote < adbd'.next
        BY <1>2, <1>5, <3>1 DEF Active, Parts, IdInv, IdChan
      <4> QED BY <1>3, <1>5, <3>1, <4>1
    <3>2. CASE g # h
      <4>1. adb_channels'[g] = adb_channels[g] /\ adb_channels[g].local \in Ids
        BY <1>5, <3>2, IdsHere
      <4> QED BY <1>2, <1>3, <4>1 DEF Parts, IdInv, IdChan, Active
    <3> QED BY <3>1, <3>2
  <2>5. IdChan'
    BY <2>4 DEF IdChan
  <2> QED BY <2>2, <2>3, <2>5 DEF IdInv
<1>14. BindInv'
  BY <1>7, BindFewer DEF Parts
<1>15. OpenInv'
  <2>1. \A l \in Ids : Unasked(l) => Unasked(l)'
    BY <1>2, <1>7, LossUnasked
  <2>2. \A g \in Handles, l \in Ids, i \in Nat :
           OutOpen(i, l)' /\ adb_channels'[g].local = l =>
              /\ adb_channels[g].local = l
              /\ adb_channels'[g].state \in {"FREE", "START"}
                    => adb_channels[g].state \in {"FREE", "START"}
    BY <1>5, <1>8, <1>12
  <2>3. OpenOut'
    BY <1>1, <2>1, <2>2, LossOpenOut DEF Parts, OpenInv
  <2>4. OpenChan'
    <3> SUFFICES ASSUME NEW g \in Handles, NEW l \in Ids,
                        adb_channels'[g].local = l
                 PROVE  /\ adb_channels'[g].state = "START" => Unasked(l)'
                        /\ adb_channels'[g].state = "WAIT_OPEN" =>
                             \A r \in Ids : Binds(r, l)' => Answered(r, l)'
      BY DEF OpenChan
    <3>1. CASE g = h
      BY <1>5, <1>10, <2>1, <3>1
    <3>2. CASE g # h
      BY <1>1, <1>5, <1>7, <2>1, <3>2
         DEF Parts, OpenInv, OpenChan, BindsFewer, AnswersKept
    <3> QED BY <3>1, <3>2
  <2>5. FreshInv'
    BY <1>4, <1>5 DEF Parts, OpenInv, FreshInv, Fresh
  <2> QED BY <2>3, <2>4, <2>5 DEF OpenInv
<1>16. CloseInv'
  <2>1. ASSUME NEW g \in Handles, NEW r \in Ids, NEW l \in Ids,
               Sock(r, l)', adb_channels'[g].remote = r
        PROVE  adb_channels'[g].local = l
    <3>1. Sock(r, l) /\ adb_channels[g].remote = r /\ adb_channels[g].local = l
      BY <1>5, <1>12, <2>1 DEF Parts, CloseInv, CloseChan
    <3>2. g # h
      BY <1>5, <3>1 DEF Parts, CloseInv, CloseChan
    <3> QED BY <1>5, <3>1, <3>2
  <2>2. ASSUME NEW g \in Handles, NEW r \in Ids, NEW l \in Ids,
               adb_channels'[g].state = "FREE", adb_channels'[g].local = l
        PROVE  ~Sock(r, l)' /\ \A j \in Nat : ~InWrte(j, r, l)'
    <3>1. adb_channels[g].state = "FREE" /\ adb_channels[g].local = l
      BY <1>5, <2>2
    <3> QED BY <1>12, <3>1 DEF Parts, CloseInv, CloseChan
  <2>3. CloseChan'
    BY <2>1, <2>2 DEF CloseChan
  <2> QED BY <1>1, <1>2, <2>3, LossCloseIn, LossCloseOut DEF Parts, CloseInv
<1>17. AckInv'
  <2>1. \A g \in Handles, r \in Ids : AckAt(g, r)' => AckAt(g, r)
    BY <1>5 DEF AckAt
  <2> QED BY <1>1, <1>2, <2>1, LossAck DEF Parts, AwaitsKept
<1>18. DeliverInv'
  <2> SUFFICES ASSUME NEW g \in Handles, NEW l \in Ids,
                      adb_channels'[g].state \in Live, adb_channels'[g].local = l
               PROVE  /\ Holds(g)' /\ l = LocalId(app'[g], g)
                      /\ \A i \in Nat, r \in Ids :
                            InWrte(i, r, l)' =>
                               /\ InData(i)' = NextData(got'[g])
                               /\ Sock(r, l)' => adbd'.sockets[r].sent = InData(i)'
                      /\ \A r \in Ids :
                            Sock(r, l)' => \/ adbd'.sockets[r].sent = got'[g]
                                           \/ \E i \in Nat : InWrte(i, r, l)'
    BY DEF DeliverInv
  <2>1. CASE g = h
    <3>1. Holds(g)' /\ l = LocalId(app'[g], g) /\ l = id
      BY <1>4, <1>5, <2>1 DEF Holds, Opens
    <3> QED BY <1>8, <1>12, <3>1
  <2>2. CASE g # h
    <3>1. adb_channels[g].state \in Live /\ adb_channels[g].local = l
          /\ app'[g] = app[g] /\ got'[g] = got[g]
      BY <1>4, <1>5, <2>2
    <3>2. Holds(g)' /\ l = LocalId(app'[g], g)
      BY <3>1 DEF Parts, DeliverInv, Holds
    <3>3. \A i \in Nat, r \in Ids :
             InWrte(i, r, l)' => InWrte(i, r, l) /\ InData(i)' = InData(i)
      BY <1>2, <1>11 DEF WrteFewer
    <3>4. ASSUME NEW i \in Nat, NEW r \in Ids, InWrte(i, r, l)'
          PROVE  /\ InData(i)' = NextData(got'[g])
                 /\ Sock(r, l)' => adbd'.sockets[r].sent = InData(i)'
      BY <1>1, <1>12, <3>1, <3>3, <3>4 DEF Parts, DeliverInv
    <3>5. ASSUME NEW r \in Ids, Sock(r, l)'
          PROVE  \/ adbd'.sockets[r].sent = got'[g]
                 \/ \E i \in Nat : InWrte(i, r, l)'
      BY <1>1, <1>2, <1>12, <3>1, <3>5, ZeroKept DEF Parts, DeliverInv
    <3> QED BY <3>2, <3>4, <3>5
  <2> QED BY <2>1, <2>2
<1>19. WriteInv'
  BY <1>1, <1>2, <1>4, <1>5, LossWrite DEF Parts
<1> QED BY <1>13, <1>14, <1>15, <1>16, <1>17, <1>18, <1>19 DEF Parts

----------------------------------------------------------------------------
(* ADBChannelTasks: what a channel has to say comes last.                  *)

\* The packet p is sent for channel h, and nothing else happens.
Serves(h, p) ==
    /\ adbd' = adbd /\ local_id_counter' = local_id_counter
    /\ app' = app /\ got' = got /\ wrote' = wrote
    /\ InKept(0) /\ OutGets(p)
    /\ p.arg0 = adb_channels[h].local
    /\ adb_channels[h].state # "FREE" /\ adb_channels'[h].state # "FREE"
    /\ adb_channels'[h].local = adb_channels[h].local
    /\ adb_channels'[h].remote = adb_channels[h].remote
    /\ adb_channels'[h].data = adb_channels[h].data
    /\ \A g \in Handles : g # h => adb_channels'[g] = adb_channels[g]

\* What the four kinds of packets do to it.
SendsOpen(h, p) ==
    /\ p.cmd = "OPEN"
    /\ adb_channels[h].state = "START" /\ adb_channels'[h].state = "WAIT_OPEN"
    /\ adb_channels'[h].ack = adb_channels[h].ack
SendsOkay(h, p) ==
    /\ p.cmd = "OKAY" /\ p.arg1 = adb_channels[h].remote
    /\ adb_channels[h].ack /\ ~adb_channels'[h].ack
    /\ adb_channels[h].state # "START"
    /\ adb_channels'[h].state = adb_channels[h].state
SendsClse(h, p) ==
    /\ p.cmd = "CLSE" /\ p.arg1 = adb_channels[h].remote
    /\ adb_channels[h].state = "CLOSE_REQUESTED"
    /\ adb_channels'[h].state = "WAIT_CLOSE"
    /\ adb_channels'[h].ack = adb_channels[h].ack
SendsWrte(h, p) ==
    /\ p.cmd = "WRTE" /\ p.arg1 = adb_channels[h].remote
    /\ adb_channels[h].data # 0 /\ p.data = adb_channels[h].data
    /\ adb_channels[h].state = "IDLE" /\ adb_channels'[h].state = "WAIT_READY"
    /\ adb_channels'[h].ack = adb_channels[h].ack

\* The packet for a channel and what it leaves, field by field.
LEMMA ServedFields ==
    ASSUME NEW ch \in Channels, NEW ck, ck = Served(ch), NEW p, p = Message(ch),
           Pending(ch)
    PROVE  /\ p.arg0 = ch.local /\ ch.state # "FREE" /\ ck.state # "FREE"
           /\ ck.local = ch.local /\ ck.remote = ch.remote /\ ck.data = ch.data
           /\ \/ /\ p.cmd = "OPEN"
                 /\ ch.state = "START" /\ ck.state = "WAIT_OPEN"
                 /\ ck.ack = ch.ack
              \/ /\ p.cmd = "OKAY" /\ p.arg1 = ch.remote
                 /\ ch.ack /\ ~ck.ack /\ ch.state # "START"
                 /\ ck.state = ch.state
              \/ /\ p.cmd = "CLSE" /\ p.arg1 = ch.remote
                 /\ ch.state = "CLOSE_REQUESTED" /\ ck.state = "WAIT_CLOSE"
                 /\ ck.ack = ch.ack
              \/ /\ p.cmd = "WRTE" /\ p.arg1 = ch.remote
                 /\ ch.data # 0 /\ p.data = ch.data
                 /\ ch.state = "IDLE" /\ ck.state = "WAIT_READY"
                 /\ ck.ack = ch.ack
<1>0. ASSUME NEW st \in ChanStates, NEW cj, cj = [ch EXCEPT !.state = st]
      PROVE  /\ cj.state = st /\ cj.local = ch.local /\ cj.remote = ch.remote
             /\ cj.data = ch.data /\ cj.ack = ch.ack
  BY <1>0 DEF Channels
<1>1. CASE ch.state = "START"
  <2>1. ck = [ch EXCEPT !.state = "WAIT_OPEN"] /\ p = Packet("OPEN", ch.local, 0, 0)
    BY <1>1 DEF Served, Message
  <2> QED BY <1>0, <1>1, <2>1 DEF Packet, ChanStates
<1>2. CASE ch.state # "START" /\ ch.ack
  <2>1. ck = [ch EXCEPT !.ack = FALSE]
        /\ p = Packet("OKAY", ch.local, ch.remote, 0)
    BY <1>2 DEF Served, Message
  <2>2. /\ ck.state = ch.state /\ ck.local = ch.local /\ ck.remote = ch.remote
        /\ ck.data = ch.data /\ ck.ack = FALSE
    BY <2>1 DEF Channels
  <2> QED BY <1>2, <2>1, <2>2 DEF Packet, Pending
<1>3. CASE ch.state = "CLOSE_REQUESTED" /\ ~ch.ack
  <2>1. ck = [ch EXCEPT !.state = "WAIT_CLOSE"]
        /\ p = Packet("CLSE", ch.local, ch.remote, 0)
    BY <1>3 DEF Served, Message
  <2> QED BY <1>0, <1>3, <2>1 DEF Packet, ChanStates
<1>4. CASE ch.state \notin {"START", "CLOSE_REQUESTED"} /\ ~ch.ack
  <2>1. ck = [ch EXCEPT !.state = "WAIT_READY"]
        /\ p = Packet("WRTE", ch.local, ch.remote, ch.data)
    BY <1>4 DEF Served, Message
  <2>2. ch.state = "IDLE" /\ ch.data # 0
    BY <1>4 DEF Pending
  <2> QED BY <1>0, <2>1, <2>2 DEF Packet, ChanStates
<1> QED BY <1>1, <1>2, <1>3, <1>4

\* One channel is served, and its packet comes last in the stream.
LEMMA ServeEffect ==
    ASSUME TypeOK, TypeOK', ServeChannel
    PROVE  \E h \in Handles, p \in Packets :
              /\ Serves(h, p)
              /\ \/ SendsOpen(h, p) \/ SendsOkay(h, p) \/ SendsClse(h, p)
                 \/ SendsWrte(h, p)
<1> PICK i \in PendingAt :
       LET h == After(i) IN
       /\ StartSend(Message(adb_channels[h]))
       /\ adb_channels' = [adb_channels EXCEPT ![h] = Served(@)]
  BY DEF ServeChannel
<1> PICK h \in Handles : h = After(i)
  BY AfterType DEF PendingAt, TypeOK
<1> PICK ch \in Channels : ch = adb_channels[h]
  BY DEF TypeOK
<1> PICK p \in Packets : p = Message(ch)
  BY ServedType
<1> PICK ck : ck = Served(ch)
  OBVIOUS
<1>1. /\ adb_channels'[h] = ck
      /\ \A g \in Handles : g # h => adb_channels'[g] = adb_channels[g]
  BY DEF TypeOK
<1>2. Pending(ch)
  BY DEF PendingAt
<1>3. /\ adbd' = adbd /\ local_id_counter' = local_id_counter
      /\ app' = app /\ got' = got /\ wrote' = wrote
  BY DEF ServeChannel, owner, phone
<1>4. Incoming' = Incoming
  BY DEF ServeChannel, Incoming, phone
<1>5. OutGets(p)
  <2>1. Outgoing = toDev /\ Outgoing' = Append(toDev, p)
    BY DEF ServeChannel, Outgoing, StartSend, phone
  <2>2. IsAppend(Outgoing', Outgoing, p)
    BY <2>1 DEF IsAppend, TypeOK
  <2> QED BY <2>2, OutAppend
<1>6. InKept(0)
  BY <1>4, InSame
<1>7. /\ p.arg0 = ch.local /\ ch.state # "FREE" /\ ck.state # "FREE"
      /\ ck.local = ch.local /\ ck.remote = ch.remote /\ ck.data = ch.data
      /\ \/ /\ p.cmd = "OPEN"
            /\ ch.state = "START" /\ ck.state = "WAIT_OPEN"
            /\ ck.ack = ch.ack
         \/ /\ p.cmd = "OKAY" /\ p.arg1 = ch.remote
            /\ ch.ack /\ ~ck.ack /\ ch.state # "START"
            /\ ck.state = ch.state
         \/ /\ p.cmd = "CLSE" /\ p.arg1 = ch.remote
            /\ ch.state = "CLOSE_REQUESTED" /\ ck.state = "WAIT_CLOSE"
            /\ ck.ack = ch.ack
         \/ /\ p.cmd = "WRTE" /\ p.arg1 = ch.remote
            /\ ch.data # 0 /\ p.data = ch.data
            /\ ch.state = "IDLE" /\ ck.state = "WAIT_READY"
            /\ ck.ack = ch.ack
  BY <1>2, ServedFields
<1>8. Serves(h, p)
  BY <1>1, <1>3, <1>5, <1>6, <1>7 DEF Serves
<1>9. SendsOpen(h, p) \/ SendsOkay(h, p) \/ SendsClse(h, p) \/ SendsWrte(h, p)
  BY <1>1, <1>7 DEF SendsOpen, SendsOkay, SendsClse, SendsWrte
<1> QED BY <1>8, <1>9

Sends(h, p) == \/ SendsOpen(h, p) \/ SendsOkay(h, p) \/ SendsClse(h, p)
               \/ SendsWrte(h, p)

\* What it does to every channel, and what it leaves.
LEMMA ServeChannels ==
    ASSUME NEW h \in Handles, NEW p \in Packets, Serves(h, p), Sends(h, p)
    PROVE  \A g \in Handles :
              /\ adb_channels'[g].local = adb_channels[g].local
              /\ adb_channels'[g].remote = adb_channels[g].remote
              /\ adb_channels'[g].data = adb_channels[g].data
              /\ adb_channels'[g].ack => adb_channels[g].ack
              /\ adb_channels'[g].state = "FREE" <=> adb_channels[g].state = "FREE"
              /\ adb_channels'[g].state = "START" => adb_channels[g].state = "START"
              /\ adb_channels'[g].state \in Live => adb_channels[g].state \in Live
              /\ Active(g)' <=> Active(g)
<1> SUFFICES ASSUME NEW g \in Handles
             PROVE  /\ adb_channels'[g].local = adb_channels[g].local
                    /\ adb_channels'[g].remote = adb_channels[g].remote
                    /\ adb_channels'[g].data = adb_channels[g].data
                    /\ adb_channels'[g].ack => adb_channels[g].ack
                    /\ adb_channels'[g].state = "FREE"
                          <=> adb_channels[g].state = "FREE"
                    /\ adb_channels'[g].state = "START"
                          => adb_channels[g].state = "START"
                    /\ adb_channels'[g].state \in Live
                          => adb_channels[g].state \in Live
                    /\ Active(g)' <=> Active(g)
  OBVIOUS
<1>1. CASE g = h
  BY <1>1
     DEF Serves, Sends, SendsOpen, SendsOkay, SendsClse, SendsWrte, Live,
         Active
<1>2. CASE g # h
  <2>1. adb_channels'[g] = adb_channels[g]
    BY <1>2 DEF Serves
  <2> QED BY <2>1 DEF Active
<1> QED BY <1>1, <1>2

\* The stream to the host and the daemon stay the same.
LEMMA ServeStreams ==
    ASSUME NEW h \in Handles, NEW p \in Packets, Serves(h, p)
    PROVE  /\ SocksKept /\ SentsKept /\ ReadsKept /\ AwaitsKept /\ AnswersKept
           /\ adbd' = adbd /\ adbd'.next = adbd.next
           /\ local_id_counter' = local_id_counter
           /\ app' = app /\ got' = got /\ wrote' = wrote
           /\ OkayFewer(0) /\ WrteFewer(0) /\ WrteKept(0) /\ ClseKept(0)
           /\ \A i \in Nat, r, l \in Ids :
                 /\ InWrte(i, r, l)' <=> InWrte(i, r, l)
                 /\ InOkay(i, r, l)' <=> InOkay(i, r, l)
           /\ \A i \in Nat, l \in Ids : InClse(i, l)' => InClse(i, l)
           /\ \A r, l \in Ids : Sock(r, l)' <=> Sock(r, l)
<1>1. adbd' = adbd /\ InKept(0)
  BY DEF Serves
<1>2. /\ SocksKept /\ SentsKept /\ ReadsKept /\ AwaitsKept
      /\ \A r, l \in Ids : Sock(r, l)' <=> Sock(r, l)
  BY <1>1 DEF SocksKept, SentsKept, ReadsKept, AwaitsKept, Awaits, Sock
<1>3. OkayKept(0) /\ OkayFewer(0) /\ WrteFewer(0) /\ WrteKept(0) /\ ClseKept(0)
  BY <1>1 DEF InKept, OkayKept, WrteKept
<1> QED BY <1>1, <1>2, <1>3, LossAnswered, ZeroKept DEF Serves

\* The ids that are sent were given; data bind what was bound.
LEMMA ServeIds ==
    ASSUME TypeOK, Parts, NEW h \in Handles, NEW p \in Packets,
           Serves(h, p), Sends(h, p)
    PROVE  /\ Given(p.arg0)
           /\ p.cmd \in {"OKAY", "WRTE"} => Used(p.arg1)
           /\ p.cmd = "CLSE" => p.arg1 < adbd.next
           /\ p.cmd = "WRTE" => Binds(p.arg1, p.arg0)
<1>1. IdChan
  BY DEF Parts, IdInv
<1>2. Given(p.arg0)
  BY <1>1 DEF IdChan, Serves
<1>3. p.cmd \in {"OKAY", "WRTE"} => Used(p.arg1)
  <2>1. CASE SendsOkay(h, p)
    BY <1>1, <2>1 DEF IdChan, SendsOkay, Used
  <2>2. CASE SendsWrte(h, p)
    BY <1>1, <2>2 DEF IdChan, SendsWrte, Used, Active
  <2> QED BY <2>1, <2>2 DEF Sends, SendsOpen, SendsClse
<1>4. p.cmd = "CLSE" => p.arg1 < adbd.next
  BY <1>1 DEF IdChan, Sends, SendsOpen, SendsOkay, SendsClse, SendsWrte
<1>5. p.cmd = "WRTE" => Binds(p.arg1, p.arg0)
  BY
     DEF Sends, SendsOpen, SendsOkay, SendsClse, SendsWrte, Serves, Binds,
         Active
<1> QED BY <1>2, <1>3, <1>4, <1>5

\* Nothing new is bound: a WRTE names the socket its channel has.
LEMMA ServeBinds ==
    ASSUME TypeOK, Parts, NEW h \in Handles, NEW p \in Packets,
           Serves(h, p), Sends(h, p)
    PROVE  BindsFewer
<1> SUFFICES ASSUME NEW r \in Ids, NEW l \in Ids, Binds(r, l)'
             PROVE  Binds(r, l)
  BY DEF BindsFewer
<1>1. CASE \E i \in Nat : InOkay(i, r, l)' \/ InWrte(i, r, l)'
  BY <1>1, ServeStreams DEF Binds
<1>2. CASE \E i \in Nat : OutWrte(i, r, l)'
  <2>1. (\E i \in Nat : OutWrte(i, r, l))
        \/ (p.cmd = "WRTE" /\ l = p.arg0 /\ r = p.arg1)
    BY <1>2 DEF Serves, OutGets
  <2> QED BY <2>1, ServeIds DEF Binds
<1>3. CASE Sock(r, l)'
  BY <1>3, ServeStreams DEF Binds
<1>4. CASE \E g \in Handles : /\ Active(g)' /\ adb_channels'[g].remote = r
                              /\ adb_channels'[g].local = l
  BY <1>4, ServeChannels DEF Binds
<1> QED BY <1>1, <1>2, <1>3, <1>4 DEF Binds

\* The parts of the invariant, one by one.
LEMMA ServeId ==
    ASSUME TypeOK, Parts, NEW h \in Handles, NEW p \in Packets,
           Serves(h, p), Sends(h, p)
    PROVE  IdInv'
<1>1. /\ local_id_counter' = local_id_counter /\ adbd'.next = adbd.next
      /\ SocksKept /\ OkayFewer(0) /\ WrteFewer(0) /\ ClseKept(0)
  BY ServeStreams
<1>2. \A l \in Ids : (Given(l)' <=> Given(l)) /\ (Used(l)' <=> Used(l))
  BY <1>1, GivenSame, UsedSame
<1>3. IdIn' /\ IdSock'
  BY <1>1, LossIdIn, LossIdSock DEF Parts, IdInv
<1>4. /\ Given(p.arg0)
      /\ p.cmd \in {"OKAY", "WRTE"} => Used(p.arg1)
      /\ p.cmd = "CLSE" => p.arg1 < adbd.next
  BY ServeIds
<1>5. OutGets(p) /\ IdOut
  BY DEF Serves, Parts, IdInv
<1>6. IdOut'
  <2>1. \A i \in Nat, l \in Ids : OutOpen(i, l)' => Given(l)
    BY <1>4, <1>5 DEF IdOut, OutGets
  <2>2. \A i \in Nat, r, l \in Ids : OutOkay(i, r, l)' => Used(r) /\ Given(l)
    BY <1>4, <1>5 DEF IdOut, OutGets
  <2>3. \A i \in Nat, r, l \in Ids : OutWrte(i, r, l)' => Used(r) /\ Given(l)
    BY <1>4, <1>5 DEF IdOut, OutGets
  <2>4. \A i \in Nat, r, l \in Ids : OutClse(i, r, l)' => r < adbd.next /\ Given(l)
    BY <1>4, <1>5 DEF IdOut, OutGets
  <2> QED BY <1>1, <1>2, <2>1, <2>2, <2>3, <2>4 DEF IdOut
<1>7. ASSUME NEW g \in Handles
      PROVE  /\ adb_channels'[g].local = 0 \/ Given(adb_channels[g].local)'
             /\ adb_channels'[g].local # 0 => HandleOf(adb_channels'[g].local) = g
             /\ adb_channels'[g].state # "FREE" => adb_channels'[g].local # 0
             /\ adb_channels'[g].remote < adbd'.next
             /\ Active(g)' \/ adb_channels'[g].ack => 0 < adb_channels'[g].remote
  <2>1. /\ adb_channels'[g].local = adb_channels[g].local
        /\ adb_channels'[g].remote = adb_channels[g].remote
        /\ adb_channels'[g].ack => adb_channels[g].ack
        /\ adb_channels'[g].state = "FREE" <=> adb_channels[g].state = "FREE"
        /\ Active(g)' <=> Active(g)
    BY ServeChannels
  <2> QED BY <1>1, <1>2, <2>1, IdsHere DEF Parts, IdInv, IdChan
<1>8. \A g \in Handles : adb_channels'[g].local = adb_channels[g].local
  BY ServeChannels
<1>9. IdChan'
  BY <1>7, <1>8 DEF IdChan
<1> QED BY <1>3, <1>6, <1>9 DEF IdInv

\* The only channel of an opening, and of its socket.
LEMMA SendsAlone ==
    ASSUME TypeOK, Parts, NEW h \in Handles, NEW p \in Packets,
           Serves(h, p), Sends(h, p)
    PROVE  /\ \A g \in Handles : adb_channels[g].local = p.arg0 => g = h
           /\ SendsWrte(h, p) =>
                 \A g \in Handles :
                    Active(g) /\ adb_channels[g].remote = p.arg1 => g = h
<1>1. p.arg0 \in Ids /\ p.arg1 \in Ids /\ Given(p.arg0)
      /\ adb_channels[h].local = p.arg0
  BY PacketIds, ServeIds DEF Serves
<1>2. \A g \in Handles : adb_channels[g].local = p.arg0 => g = h
  BY <1>1, OnlyOne DEF Parts, IdInv
<1>3. ASSUME SendsWrte(h, p), NEW g \in Handles, Active(g),
             adb_channels[g].remote = p.arg1
      PROVE  g = h
  <2>1. Active(h) /\ adb_channels[h].remote = p.arg1
    BY <1>3 DEF SendsWrte, Active
  <2> PICK l \in Ids : l = adb_channels[g].local
    BY IdsHere
  <2>2. Binds(p.arg1, p.arg0) /\ Binds(p.arg1, l)
    BY <1>1, <1>3, <2>1 DEF Binds
  <2>3. l = p.arg0
    BY <1>1, <2>2 DEF Parts, BindInv
  <2> QED BY <1>2, <2>3
<1> QED BY <1>2, <1>3

\* An OPEN is the only one of its opening.
LEMMA ServeOpen ==
    ASSUME TypeOK, Parts, NEW h \in Handles, NEW p \in Packets,
           Serves(h, p), Sends(h, p)
    PROVE  OpenInv'
<1> PICK l0 \in Ids : l0 = p.arg0
  BY PacketIds
<1>1. BindsFewer /\ ClseKept(0) /\ AnswersKept
  BY ServeBinds, ServeStreams
<1>2. \A l \in Ids : Unasked(l) => Unasked(l)'
  BY <1>1, LossUnasked
<1>3. adb_channels[h].local = l0
  BY DEF Serves
<1>4. SendsOpen(h, p) => Unasked(l0) /\ \A i \in Nat : ~OutOpen(i, l0)
  <2> SUFFICES ASSUME SendsOpen(h, p)
               PROVE  Unasked(l0) /\ \A i \in Nat : ~OutOpen(i, l0)
    OBVIOUS
  <2>1. adb_channels[h].state = "START"
    BY DEF SendsOpen
  <2>2. Unasked(l0)
    BY <1>3, <2>1 DEF Parts, OpenInv, OpenChan
  <2>3. \A i \in Nat : ~OutOpen(i, l0)
    BY <1>3, <2>1 DEF Parts, OpenInv, OpenOut
  <2> QED BY <2>2, <2>3
<1>5. \A g \in Handles :
         /\ adb_channels'[g].local = adb_channels[g].local
         /\ adb_channels'[g].state = "FREE" <=> adb_channels[g].state = "FREE"
         /\ adb_channels'[g].state = "START" => adb_channels[g].state = "START"
  BY ServeChannels
<1>6. PICK n \in Nat :
         \A i \in Nat, l \in Ids :
            OutOpen(i, l)' <=> \/ OutOpen(i, l)
                               \/ p.cmd = "OPEN" /\ i = n /\ l = l0
  BY DEF Serves, OutGets
<1>7. p.cmd = "OPEN" => SendsOpen(h, p)
  BY DEF Sends, SendsOkay, SendsClse, SendsWrte
<1>8. OpenOut'
  <2> SUFFICES ASSUME NEW i \in Nat, NEW l \in Ids, OutOpen(i, l)'
               PROVE  /\ Unasked(l)'
                      /\ \A j \in Nat : OutOpen(j, l)' => j = i
                      /\ \A g \in Handles :
                            adb_channels'[g].local = l =>
                               adb_channels'[g].state \notin {"FREE", "START"}
    BY DEF OpenOut
  <2>1. CASE OutOpen(i, l)
    <3>1. ~(p.cmd = "OPEN" /\ l = l0)
      BY <1>4, <1>7, <2>1
    <3> QED BY <1>2, <1>5, <1>6, <2>1, <3>1 DEF Parts, OpenInv, OpenOut
  <2>2. CASE p.cmd = "OPEN" /\ i = n /\ l = l0
    <3>1. SendsOpen(h, p)
      BY <1>7, <2>2
    <3>2. Unasked(l)' /\ \A j \in Nat : OutOpen(j, l)' => j = i
      BY <1>2, <1>4, <1>6, <2>2, <3>1
    <3>3. \A g \in Handles : adb_channels'[g].local = l => g = h
      BY <1>5, <2>2, SendsAlone
    <3>4. adb_channels'[h].state = "WAIT_OPEN"
      BY <3>1 DEF SendsOpen
    <3> QED BY <3>2, <3>3, <3>4
  <2> QED BY <1>6, <2>1, <2>2
<1>9. OpenChan'
  <2> SUFFICES ASSUME NEW g \in Handles, NEW l \in Ids, adb_channels'[g].local = l
               PROVE  /\ adb_channels'[g].state = "START" => Unasked(l)'
                      /\ adb_channels'[g].state = "WAIT_OPEN" =>
                           \A r \in Ids : Binds(r, l)' => Answered(r, l)'
    BY DEF OpenChan
  <2>1. adb_channels'[g].state = "START" => Unasked(l)'
    BY <1>2, <1>5 DEF Parts, OpenInv, OpenChan
  <2>2. ASSUME adb_channels'[g].state = "WAIT_OPEN", NEW r \in Ids, Binds(r, l)'
        PROVE  Answered(r, l)'
    <3>1. Binds(r, l) /\ adb_channels[g].local = l
      BY <1>1, <1>5, <2>2 DEF BindsFewer
    <3>2. adb_channels[g].state = "WAIT_OPEN"
      <4>1. CASE g = h
        <5>1. ~SendsOpen(h, p)
          BY <1>3, <1>4, <3>1, <4>1 DEF Unasked
        <5> QED BY <2>2, <4>1, <5>1 DEF Sends, SendsOkay, SendsClse, SendsWrte
      <4>2. CASE g # h
        BY <2>2, <4>2 DEF Serves
      <4> QED BY <4>1, <4>2
    <3> QED BY <1>1, <3>1, <3>2 DEF Parts, OpenInv, OpenChan, AnswersKept
  <2> QED BY <2>1, <2>2
<1>10. FreshInv'
  <2> SUFFICES ASSUME NEW g \in Handles, Fresh(g)'
               PROVE  /\ ~adb_channels'[g].ack /\ adb_channels'[g].data = 0
                      /\ got'[g] = 0 /\ wrote'[g] = 0
    BY DEF FreshInv
  <2>1. Fresh(g)
    <3>1. CASE g = h
      BY <3>1 DEF Sends, SendsOpen, SendsOkay, SendsClse, SendsWrte, Fresh
    <3>2. CASE g # h
      BY <3>2 DEF Serves, Fresh
    <3> QED BY <3>1, <3>2
  <2>2. /\ adb_channels'[g].data = adb_channels[g].data
        /\ adb_channels'[g].ack => adb_channels[g].ack
    BY ServeChannels
  <2> QED BY <2>1, <2>2, ServeStreams DEF Parts, OpenInv, FreshInv
<1> QED BY <1>8, <1>9, <1>10 DEF OpenInv

\* A CLSE names the channel's own socket.
LEMMA ServeClose ==
    ASSUME TypeOK, Parts, NEW h \in Handles, NEW p \in Packets,
           Serves(h, p), Sends(h, p)
    PROVE  CloseInv'
<1>1. /\ SocksKept /\ WrteFewer(0) /\ ClseKept(0)
      /\ \A r, l \in Ids : Sock(r, l)' <=> Sock(r, l)
  BY ServeStreams
<1>2. FreeKept /\ \A g \in Handles :
                     /\ adb_channels'[g].local = adb_channels[g].local
                     /\ adb_channels'[g].remote = adb_channels[g].remote
  BY ServeChannels DEF FreeKept
<1>3. CloseIn' /\ CloseChan'
  BY <1>1, <1>2, LossCloseIn, LossCloseChan DEF Parts, CloseInv
<1>4. PICK n \in Nat :
         \A i \in Nat, r, l \in Ids :
            OutClse(i, r, l)' <=>
               \/ OutClse(i, r, l)
               \/ p.cmd = "CLSE" /\ i = n /\ l = p.arg0 /\ r = p.arg1
  BY DEF Serves, OutGets
<1>5. CloseOut'
  <2> SUFFICES ASSUME NEW i \in Nat, NEW r \in Ids, NEW l \in Ids, NEW q \in Ids,
                      OutClse(i, r, l)', Sock(r, q)'
               PROVE  l = q
    BY DEF CloseOut
  <2>1. CASE OutClse(i, r, l)
    BY <1>1, <2>1 DEF Parts, CloseInv, CloseOut
  <2>2. CASE p.cmd = "CLSE" /\ l = p.arg0 /\ r = p.arg1
    <3>1. adb_channels[h].local = l /\ adb_channels[h].remote = r
      BY <2>2 DEF Serves, Sends, SendsOpen, SendsOkay, SendsClse, SendsWrte
    <3> QED BY <1>1, <3>1 DEF Parts, CloseInv, CloseChan
  <2> QED BY <1>4, <2>1, <2>2
<1> QED BY <1>3, <1>5 DEF CloseInv

\* An acknowledgement that was owed is on its way, and owed no more.
LEMMA ServeAck ==
    ASSUME TypeOK, Parts, NEW h \in Handles, NEW p \in Packets,
           Serves(h, p), Sends(h, p)
    PROVE  AckInv'
<1> PICK r0 \in Ids : r0 = p.arg1
  BY PacketIds
<1>1. /\ AwaitsKept
      /\ \A i \in Nat, r, l \in Ids : InWrte(i, r, l)' <=> InWrte(i, r, l)
  BY ServeStreams
<1>2. \A g \in Handles, r \in Ids : AckAt(g, r)' => AckAt(g, r)
  BY ServeChannels DEF AckAt
<1>3. PICK n \in Nat :
         \A i \in Nat, r, l \in Ids :
            OutOkay(i, r, l)' <=>
               \/ OutOkay(i, r, l)
               \/ p.cmd = "OKAY" /\ i = n /\ l = p.arg0 /\ r = r0
  BY DEF Serves, OutGets
<1>4. AckInv
  BY DEF Parts
<1>5. p.cmd = "OKAY" =>
         /\ Awaits(r0)
         /\ \A i \in Nat, l \in Ids : ~InWrte(i, r0, l) /\ ~OutOkay(i, r0, l)
         /\ \A g \in Handles : ~AckAt(g, r0)'
  <2> SUFFICES ASSUME p.cmd = "OKAY"
               PROVE  /\ Awaits(r0)
                      /\ \A i \in Nat, l \in Ids : /\ ~InWrte(i, r0, l)
                                                   /\ ~OutOkay(i, r0, l)
                      /\ \A g \in Handles : ~AckAt(g, r0)'
    OBVIOUS
  <2>1. SendsOkay(h, p)
    BY DEF Sends, SendsOpen, SendsClse, SendsWrte
  <2>2. AckAt(h, r0) /\ ~AckAt(h, r0)'
    BY <2>1 DEF SendsOkay, AckAt
  <2>3. /\ Awaits(r0)
        /\ \A i \in Nat, l \in Ids : ~InWrte(i, r0, l) /\ ~OutOkay(i, r0, l)
    BY <1>4, <2>2 DEF AckInv, AckAwaited, AckChan
  <2>4. \A g \in Handles : AckAt(g, r0)' => g = h
    BY <1>2, <1>4, <2>2 DEF AckInv, AckChan
  <2> QED BY <2>2, <2>3, <2>4
<1>6. AckAwaited'
  <2>1. \A i \in Nat, r, l \in Ids :
           InWrte(i, r, l)' \/ OutOkay(i, r, l)' => Awaits(r)'
    BY <1>1, <1>3, <1>4, <1>5 DEF AckInv, AckAwaited, AwaitsKept
  <2>2. \A g \in Handles, r \in Ids : AckAt(g, r)' => Awaits(r)'
    BY <1>1, <1>2, <1>4 DEF AckInv, AckAwaited, AwaitsKept
  <2> QED BY <2>1, <2>2 DEF AckAwaited
<1>7. AckOnce'
  <2> SUFFICES ASSUME NEW i \in Nat, NEW j \in Nat,
                      NEW r \in Ids, NEW l \in Ids, NEW q \in Ids
               PROVE  /\ InWrte(i, r, l)' /\ InWrte(j, r, q)' => j = i
                      /\ OutOkay(i, r, l)' /\ OutOkay(j, r, q)' => j = i
                      /\ ~(InWrte(i, r, l)' /\ OutOkay(j, r, q)')
    BY DEF AckOnce
  <2>1. InWrte(i, r, l)' /\ InWrte(j, r, q)' => j = i
    BY <1>1, <1>4 DEF AckInv, AckOnce
  <2>2. OutOkay(i, r, l)' /\ OutOkay(j, r, q)' => j = i
    <3>1. CASE OutOkay(i, r, l) /\ OutOkay(j, r, q)
      BY <1>4, <3>1 DEF AckInv, AckOnce
    <3>2. CASE p.cmd = "OKAY" /\ r = r0
      BY <1>3, <1>5, <3>2
    <3> QED BY <1>3, <3>1, <3>2
  <2>3. ~(InWrte(i, r, l)' /\ OutOkay(j, r, q)')
    <3>1. InWrte(i, r, l) => ~OutOkay(j, r, q)
      BY <1>4 DEF AckInv, AckOnce
    <3>2. p.cmd = "OKAY" /\ r = r0 => ~InWrte(i, r, l)
      BY <1>5
    <3> QED BY <1>1, <1>3, <3>1, <3>2
  <2> QED BY <2>1, <2>2, <2>3
<1>8. AckChan'
  <2>1. ASSUME NEW g \in Handles, NEW r \in Ids, AckAt(g, r)',
               NEW i \in Nat, NEW l \in Ids
        PROVE  ~InWrte(i, r, l)' /\ ~OutOkay(i, r, l)'
    BY <1>1, <1>2, <1>3, <1>4, <1>5, <2>1 DEF AckInv, AckChan
  <2>2. \A g, k \in Handles, r \in Ids : AckAt(k, r)' /\ AckAt(g, r)' => g = k
    BY <1>2, <1>4 DEF AckInv, AckChan
  <2> QED BY <2>1, <2>2 DEF AckChan
<1> QED BY <1>6, <1>7, <1>8 DEF AckInv

\* What is delivered does not change.
LEMMA ServeDeliver ==
    ASSUME Parts, NEW h \in Handles, NEW p \in Packets, Serves(h, p), Sends(h, p)
    PROVE  DeliverInv'
<1>1. /\ SocksKept /\ SentsKept /\ WrteKept(0) /\ app' = app /\ got' = got
  BY ServeStreams
<1>2. \A g \in Handles :
         adb_channels'[g].state \in Live =>
            /\ adb_channels[g].state \in Live
            /\ adb_channels'[g].local = adb_channels[g].local
            /\ app'[g] = app[g] /\ got'[g] = got[g]
  BY <1>1, ServeChannels
<1> QED BY <1>1, <1>2, LossDeliver DEF Parts

\* A WRTE is the only one, and carries the data its socket waits for.
LEMMA ServeWrite ==
    ASSUME TypeOK, Parts, NEW h \in Handles, NEW p \in Packets,
           Serves(h, p), Sends(h, p)
    PROVE  WriteInv'
<1> PICK r0 \in Ids, l0 \in Ids : r0 = p.arg1 /\ l0 = p.arg0
  BY PacketIds
<1>1. /\ adbd' = adbd /\ wrote' = wrote
      /\ \A i \in Nat, r, l \in Ids : InOkay(i, r, l)' <=> InOkay(i, r, l)
      /\ \A r, l \in Ids : Sock(r, l)' <=> Sock(r, l)
  BY ServeStreams
<1>2. WriteInv
  BY DEF Parts
<1>3. PICK n \in Nat :
         /\ \A i \in Nat, r, l \in Ids :
               /\ OutWrte(i, r, l)' <=>
                     \/ OutWrte(i, r, l)
                     \/ p.cmd = "WRTE" /\ i = n /\ l = l0 /\ r = r0
               /\ OutWrte(i, r, l) => OutData(i)' = OutData(i)
         /\ OutData(n)' = p.data
  BY DEF Serves, OutGets
<1>4. p.cmd = "WRTE" =>
         /\ SendsWrte(h, p)
         /\ \A i \in Nat, l \in Ids : ~OutWrte(i, r0, l) /\ ~InOkay(i, r0, l)
         /\ \A l \in Ids :
               Sock(r0, l) => /\ p.data = wrote[h]
                              /\ p.data = NextData(adbd.sockets[r0].read)
         /\ \A g \in Handles : Active(g) /\ adb_channels[g].remote = r0 => g = h
  <2> SUFFICES ASSUME p.cmd = "WRTE"
               PROVE  /\ SendsWrte(h, p)
                      /\ \A i \in Nat, l \in Ids : /\ ~OutWrte(i, r0, l)
                                                   /\ ~InOkay(i, r0, l)
                      /\ \A l \in Ids :
                            Sock(r0, l) =>
                               /\ p.data = wrote[h]
                               /\ p.data = NextData(adbd.sockets[r0].read)
                      /\ \A g \in Handles :
                            Active(g) /\ adb_channels[g].remote = r0 => g = h
    OBVIOUS
  <2>1. SendsWrte(h, p)
    BY DEF Sends, SendsOpen, SendsOkay, SendsClse
  <2>2. adb_channels[h].state = "IDLE" /\ adb_channels[h].remote = r0
    BY <2>1 DEF SendsWrte
  <2>3. \A i \in Nat, l \in Ids : ~OutWrte(i, r0, l) /\ ~InOkay(i, r0, l)
    BY <1>2, <2>2 DEF WriteInv, WriteIdle
  <2>4. \A l \in Ids : Sock(r0, l) => Written(h, r0)
    BY <1>2, <2>2 DEF WriteInv, WriteIdle
  <2>5. \A g \in Handles : Active(g) /\ adb_channels[g].remote = r0 => g = h
    BY <2>1, SendsAlone
  <2>6. ASSUME NEW l \in Ids, Sock(r0, l)
        PROVE  p.data = wrote[h] /\ p.data = NextData(adbd.sockets[r0].read)
    <3>1. Written(h, r0)
      BY <2>4, <2>6
    <3>2. adb_channels[h].data # 0 /\ p.data = adb_channels[h].data
      BY <2>1 DEF SendsWrte
    <3> QED BY <3>1, <3>2 DEF Written
  <2> QED BY <2>1, <2>3, <2>5, <2>6
<1>5. \A g \in Handles :
         /\ adb_channels'[g].remote = adb_channels[g].remote
         /\ adb_channels'[g].local = adb_channels[g].local
         /\ adb_channels'[g].data = adb_channels[g].data
         /\ Active(g)' <=> Active(g)
  BY ServeChannels
<1>6. WriteOnce'
  <2> SUFFICES ASSUME NEW i \in Nat, NEW j \in Nat,
                      NEW r \in Ids, NEW l \in Ids, NEW q \in Ids
               PROVE  /\ OutWrte(i, r, l)' /\ OutWrte(j, r, q)' => j = i
                      /\ InOkay(i, r, l)' /\ InOkay(j, r, q)' => j = i
                      /\ ~(OutWrte(i, r, l)' /\ InOkay(j, r, q)')
    BY DEF WriteOnce
  <2>1. InOkay(i, r, l)' /\ InOkay(j, r, q)' => j = i
    <3>1. InOkay(i, r, l) /\ InOkay(j, r, q) => j = i
      BY <1>2 DEF WriteInv, WriteOnce
    <3> QED BY <1>1, <3>1
  <2>2. OutWrte(i, r, l)' /\ OutWrte(j, r, q)' => j = i
    <3>1. CASE OutWrte(i, r, l) /\ OutWrte(j, r, q)
      BY <1>2, <3>1 DEF WriteInv, WriteOnce
    <3>2. CASE p.cmd = "WRTE" /\ r = r0
      BY <1>3, <1>4, <3>2
    <3> QED BY <1>3, <3>1, <3>2
  <2>3. ~(OutWrte(i, r, l)' /\ InOkay(j, r, q)')
    <3>1. OutWrte(i, r, l) => ~InOkay(j, r, q)
      BY <1>2 DEF WriteInv, WriteOnce
    <3>2. p.cmd = "WRTE" /\ r = r0 => ~InOkay(j, r, q)
      BY <1>4
    <3> QED BY <1>1, <1>3, <3>1, <3>2
  <2> QED BY <2>1, <2>2, <2>3
<1>7. WriteOut'
  <2> SUFFICES ASSUME NEW i \in Nat, NEW r \in Ids, NEW l \in Ids,
                      OutWrte(i, r, l)', Sock(r, l)'
               PROVE  OutData(i)' = NextData(adbd'.sockets[r].read)
    BY DEF WriteOut
  <2>1. CASE OutWrte(i, r, l)
    BY <1>1, <1>2, <1>3, <2>1 DEF WriteInv, WriteOut
  <2>2. CASE p.cmd = "WRTE" /\ i = n /\ l = l0 /\ r = r0
    BY <1>1, <1>3, <1>4, <2>2
  <2> QED BY <1>3, <2>1, <2>2
<1>8. WriteIdle'
  <2> SUFFICES ASSUME NEW g \in Handles, NEW r \in Ids,
                      adb_channels'[g].state = "IDLE", adb_channels'[g].remote = r
               PROVE  /\ \A i \in Nat, l \in Ids :
                            ~OutWrte(i, r, l)' /\ ~InOkay(i, r, l)'
                      /\ \A l \in Ids : Sock(r, l)' => Written(g, r)'
    BY DEF WriteIdle
  <2>1. adb_channels[g].state = "IDLE"
    <3>1. CASE g = h
      BY <3>1 DEF Sends, SendsOpen, SendsOkay, SendsClse, SendsWrte
    <3>2. CASE g # h
      BY <3>2 DEF Serves
    <3> QED BY <3>1, <3>2
  <2>2. adb_channels[g].remote = r /\ Active(g)
    BY <1>5, <2>1 DEF Active
  <2>3. ~(p.cmd = "WRTE" /\ r = r0)
    <3> SUFFICES ASSUME p.cmd = "WRTE", r = r0 PROVE FALSE
      OBVIOUS
    <3>1. g = h /\ adb_channels'[h].state = "WAIT_READY"
      BY <1>4, <2>2 DEF SendsWrte
    <3> QED BY <3>1
  <2>4. \A i \in Nat, l \in Ids : ~OutWrte(i, r, l)' /\ ~InOkay(i, r, l)'
    BY <1>1, <1>2, <1>3, <2>1, <2>2, <2>3 DEF WriteInv, WriteIdle
  <2>5. ASSUME NEW l \in Ids, Sock(r, l)' PROVE Written(g, r)'
    <3>1. Written(g, r)
      BY <1>1, <1>2, <2>1, <2>2, <2>5 DEF WriteInv, WriteIdle
    <3> QED BY <1>1, <1>5, <3>1 DEF Written
  <2> QED BY <2>4, <2>5
<1>9. WriteReady'
  <2> SUFFICES ASSUME NEW g \in Handles, NEW r \in Ids,
                      adb_channels'[g].state = "WAIT_READY",
                      adb_channels'[g].remote = r,
                      NEW i \in Nat, NEW l \in Ids, Sock(r, l)'
               PROVE  /\ OutWrte(i, r, l)' => OutData(i)' = wrote'[g]
                      /\ InOkay(i, r, l)' => wrote'[g] = adbd'.sockets[r].read
    BY DEF WriteReady
  <2>0. adb_channels[g].remote = r /\ Active(g) /\ Sock(r, l)
    BY <1>1, <1>5 DEF Active
  <2>1. CASE SendsWrte(h, p) /\ g = h
    <3>1. p.cmd = "WRTE" /\ r = r0
      BY <2>0, <2>1 DEF SendsWrte
    <3>2. ~OutWrte(i, r, l) /\ ~InOkay(i, r, l)' /\ p.data = wrote[g]
      BY <1>1, <1>4, <2>0, <2>1, <3>1
    <3> QED BY <1>1, <1>3, <3>2
  <2>2. CASE ~(SendsWrte(h, p) /\ g = h)
    <3>1. adb_channels[g].state = "WAIT_READY"
      <4>1. CASE g = h
        BY <2>2, <4>1 DEF Sends, SendsOpen, SendsOkay, SendsClse
      <4>2. CASE g # h
        BY <4>2 DEF Serves
      <4> QED BY <4>1, <4>2
    <3>2. ~(p.cmd = "WRTE" /\ r = r0)
      BY <1>4, <2>0, <2>2
    <3> QED BY <1>1, <1>2, <1>3, <2>0, <3>1, <3>2 DEF WriteInv, WriteReady
  <2> QED BY <2>1, <2>2
<1>10. WriteOpen'
  <2> SUFFICES ASSUME NEW g \in Handles, NEW l \in Ids,
                      adb_channels'[g].state = "WAIT_OPEN",
                      adb_channels'[g].local = l,
                      NEW i \in Nat, NEW r \in Ids, Sock(r, l)', InOkay(i, r, l)'
               PROVE  adbd'.sockets[r].read = 0
    BY DEF WriteOpen
  <2>0. adb_channels[g].local = l /\ Sock(r, l) /\ InOkay(i, r, l) /\ Binds(r, l)
    BY <1>1, <1>5 DEF Binds
  <2>1. adb_channels[g].state # "START"
    BY <2>0 DEF Parts, OpenInv, OpenChan, Unasked
  <2>2. adb_channels[g].state = "WAIT_OPEN"
    <3>1. CASE g = h
      BY <2>1, <3>1 DEF Sends, SendsOpen, SendsOkay, SendsClse, SendsWrte
    <3>2. CASE g # h
      BY <3>2 DEF Serves
    <3> QED BY <3>1, <3>2
  <2> QED BY <1>1, <1>2, <2>0, <2>2 DEF WriteInv, WriteOpen
<1> QED BY <1>6, <1>7, <1>8, <1>9, <1>10 DEF WriteInv

\* ADBChannelTasks.
LEMMA PartsServe ==
    ASSUME TypeOK, TypeOK', Parts, ServeChannel
    PROVE  Parts'
<1> PICK h \in Handles, p \in Packets : Serves(h, p) /\ Sends(h, p)
  BY ServeEffect DEF Sends
<1>1. IdInv' /\ BindInv'
  BY ServeId, ServeBinds, BindFewer DEF Parts
<1>2. OpenInv' /\ CloseInv'
  BY ServeOpen, ServeClose
<1>3. AckInv' /\ DeliverInv' /\ WriteInv'
  BY ServeAck, ServeDeliver, ServeWrite
<1> QED BY <1>1, <1>2, <1>3 DEF Parts

----------------------------------------------------------------------------
(* Before the connection.                                                  *)

PlainCmd == {"CNXN", "OTHER"}

\* Streams that carry CNXN and unknown packets only.
LEMMA PlainSeq ==
    ASSUME NEW s \in Seq(Packets), NEW p \in Packets
    PROVE  /\ Plain(s) /\ s # <<>> => Plain(Tail(s)) /\ Head(s).cmd \in PlainCmd
           /\ Plain(s) /\ p.cmd \in PlainCmd => Plain(Append(s, p))
           /\ Plain(Append(s, p)) => Plain(s) /\ p.cmd \in PlainCmd
           /\ Plain(<<p>> \o s) => Plain(s) /\ p.cmd \in PlainCmd
<1>1. Plain(s) /\ s # <<>> => Plain(Tail(s)) /\ Head(s).cmd \in PlainCmd
  BY DEF Plain, PlainCmd
<1>2. Plain(s) /\ p.cmd \in PlainCmd => Plain(Append(s, p))
  BY DEF Plain, PlainCmd
<1>3. ASSUME Plain(Append(s, p)) PROVE Plain(s) /\ p.cmd \in PlainCmd
  <2>1. \A i \in 1 .. Len(s) : Append(s, p)[i] = s[i]
    OBVIOUS
  <2>2. Append(s, p)[Len(s) + 1] = p /\ Len(Append(s, p)) = Len(s) + 1
    OBVIOUS
  <2> QED BY <1>3, <2>1, <2>2 DEF Plain, PlainCmd
<1>4. ASSUME Plain(<<p>> \o s) PROVE Plain(s) /\ p.cmd \in PlainCmd
  <2>0. /\ (<<p>> \o s)[1] = p /\ Len(<<p>> \o s) = Len(s) + 1
        /\ <<p>> \o s \in Seq(Packets)
    OBVIOUS
  <2>5. \A i \in 1 .. Len(s) : (<<p>> \o s)[i + 1] = s[i]
    OBVIOUS
  <2> PICK t \in Seq(Packets) : t = <<p>> \o s
    BY <2>0
  <2>6. \A i \in 1 .. Len(s) : i + 1 \in 1 .. Len(s) + 1
    OBVIOUS
  <2>7. 1 \in 1 .. Len(s) + 1
    OBVIOUS
  <2>1. /\ t[1] = p /\ 1 \in 1 .. Len(t)
        /\ \A i \in 1 .. Len(s) : t[i + 1] = s[i] /\ i + 1 \in 1 .. Len(t)
    BY <2>0, <2>5, <2>6, <2>7
  <2>2. \A i \in 1 .. Len(t) : t[i].cmd \in {"CNXN", "OTHER"}
    BY <1>4 DEF Plain
  <2>3. p.cmd \in PlainCmd
    BY <2>1, <2>2 DEF PlainCmd
  <2>4. \A i \in 1 .. Len(s) : s[i].cmd \in {"CNXN", "OTHER"}
    BY <2>1, <2>2
  <2> QED BY <2>3, <2>4 DEF Plain
<1> QED BY <1>1, <1>2, <1>3, <1>4

\* With nothing open and nothing under way the invariant holds.
LEMMA EmptyParts ==
    ASSUME TypeOK', Plain(Incoming)', Plain(Outgoing)',
           \A r \in Opens : ~adbd'.sockets[r].open,
           adb_channels' = [h \in Handles |-> Free]
    PROVE  Parts'
<1>1. \A i \in Nat, r, l \in Ids : ~InOkay(i, r, l)' /\ ~InWrte(i, r, l)'
  BY DEF Plain, InOkay, InWrte
<1>2. \A i \in Nat, l \in Ids : ~InClse(i, l)' /\ ~OutOpen(i, l)'
  BY DEF Plain, InClse, OutOpen
<1>3. \A i \in Nat, r, l \in Ids :
         ~OutOkay(i, r, l)' /\ ~OutWrte(i, r, l)' /\ ~OutClse(i, r, l)'
  BY DEF Plain, OutOkay, OutWrte, OutClse
<1>4. \A r, l \in Ids : ~Sock(r, l)'
  BY DEF Sock
<1>5. \A h \in Handles :
         /\ adb_channels'[h].state = "FREE" /\ adb_channels'[h].local = 0
         /\ adb_channels'[h].remote = 0 /\ ~adb_channels'[h].ack
  BY DEF Free
<1>6. \A h \in Handles : ~Active(h)' /\ ~Fresh(h)' /\ adb_channels'[h].state \notin Live
  BY <1>5 DEF Active, Fresh, Live
<1>7. \A h \in Handles, r \in Ids : ~AckAt(h, r)'
  BY <1>5 DEF AckAt
<1>8. \A r, l \in Ids : ~Binds(r, l)'
  BY <1>1, <1>3, <1>4, <1>6 DEF Binds
<1>9. adbd'.next \in Nat /\ 0 < adbd'.next
  BY DEF TypeOK
<1>10. IdInv'
  <2>1. IdIn' /\ IdSock'
    BY <1>1, <1>2, <1>4 DEF IdIn, IdSock
  <2>2. IdOut'
    BY <1>2, <1>3 DEF IdOut
  <2>3. IdChan'
    BY <1>5, <1>6, <1>9 DEF IdChan
  <2> QED BY <2>1, <2>2, <2>3 DEF IdInv
<1>11. BindInv'
  BY <1>8 DEF BindInv
<1>12. OpenInv'
  <2>1. OpenOut' /\ FreshInv'
    BY <1>2, <1>6 DEF OpenOut, FreshInv
  <2>2. OpenChan'
    BY <1>5 DEF OpenChan
  <2> QED BY <2>1, <2>2 DEF OpenInv
<1>13. CloseInv'
  <2>1. CloseIn' /\ CloseOut'
    BY <1>2, <1>3 DEF CloseIn, CloseOut
  <2>2. CloseChan'
    BY <1>1, <1>4 DEF CloseChan
  <2> QED BY <2>1, <2>2 DEF CloseInv
<1>14. AckInv'
  <2>1. AckAwaited' /\ AckChan'
    BY <1>1, <1>3, <1>7 DEF AckAwaited, AckChan
  <2>2. AckOnce'
    BY <1>1, <1>3 DEF AckOnce
  <2> QED BY <2>1, <2>2 DEF AckInv
<1>15. DeliverInv'
  BY <1>6 DEF DeliverInv
<1>16. WriteInv'
  <2>1. WriteOnce' /\ WriteOut'
    BY <1>1, <1>3 DEF WriteOnce, WriteOut
  <2>2. WriteIdle' /\ WriteReady' /\ WriteOpen'
    BY <1>5 DEF WriteIdle, WriteReady, WriteOpen
  <2> QED BY <2>1, <2>2 DEF WriteInv
<1> QED BY <1>10, <1>11, <1>12, <1>13, <1>14, <1>15, <1>16 DEF Parts

\* What there is before a connection.
Before == /\ Plain(toDev) /\ Plain(toHost)
          /\ \A r \in Opens : ~adbd.sockets[r].open

\* A step after which there is a connection, or no session, or only packets
\* that open nothing.
LEMMA StartKept ==
    ASSUME pc' = "send" => Session',
           \/ Linked'
           \/ /\ Before'
              /\ \/ ~Session'
                 \/ /\ adb_channels' = [h \in Handles |-> Free]
                    /\ adb_conn_state' = "WAIT_CONNECT" =>
                          Plain(Incoming)' /\ Plain(Outgoing)'
    PROVE  StartInv'
BY DEF StartInv, Before, Linked

\* The session of the phone ends.
LEMMA LostStart ==
    ASSUME TypeOK, PhoneLost, ~attached', pc' = "idle"
    PROVE  StartInv' /\ ~Linked'
<1>1. \A r \in Opens : ~adbd'.sockets[r].open
  BY DEF PhoneLost, TypeOK, NoSocket
<1>2. Plain(toDev)' /\ Plain(toHost)'
  BY DEF PhoneLost, Plain
<1>3. ~Session' /\ ~Linked'
  BY DEF Session, Linked
<1> QED BY <1>1, <1>2, <1>3, StartKept DEF Before

\* What StartInv is for a step taken without a connection.
LEMMA StartFacts ==
    ASSUME TypeOK, StartInv, ~Linked
    PROVE  /\ Before
           /\ Session => adb_channels = [h \in Handles |-> Free]
           /\ Session => adb_conn_state \in {"WAIT_ATTACH", "WAIT_CONNECT"}
           /\ Session /\ adb_conn_state = "WAIT_CONNECT" =>
                 Plain(Incoming) /\ Plain(Outgoing)
           /\ pc = "send" => Session
BY DEF StartInv, Before, Linked, TypeOK, ConnStates

\* The transfers of the first packets.
LEMMA StartBus ==
    ASSUME TypeOK, TypeOK', StartInv, ~Linked, Bus
    PROVE  StartInv' /\ ~Linked'
<1>1. /\ Session /\ adb_conn_state = "WAIT_CONNECT"
      /\ Plain(Incoming) /\ Plain(Outgoing) /\ Before
      /\ adb_channels = [h \in Handles |-> Free]
  BY StartFacts DEF Bus, SendDone, RecvDone, SendFails, RecvFails, PortRuns,
                    Session, Linked
<1>2. /\ attached' = attached /\ UNCHANGED conn /\ pc' = pc /\ UNCHANGED host
      /\ adbd' = adbd
  BY DEF Bus, SendDone, RecvDone, SendFails, RecvFails, phone
<1>3. Session' /\ adb_channels' = adb_channels /\ ~Linked'
  BY <1>1, <1>2 DEF Session, Linked, conn, host
<1>0. /\ sendPort.pkt \in Packets /\ recvPort.pkt \in Packets
      /\ toDev \in Seq(Packets) /\ toHost \in Seq(Packets)
  BY DEF TypeOK, Ports
<1>4. Plain(toDev)' /\ Plain(Outgoing)'
  <2>1. CASE SendDone
    <3>1. Outgoing = Append(toDev, sendPort.pkt) /\ toDev' = Append(toDev, sendPort.pkt)
          /\ Outgoing' = toDev'
      BY <2>1 DEF SendDone, Outgoing, Settled
    <3> QED BY <1>1, <3>1
  <2>2. CASE RecvDone
    BY <1>1, <2>2 DEF RecvDone, Outgoing, Before
  <2>3. CASE SendFails
    BY <1>1, <2>3 DEF SendFails, Outgoing, Settled, phone, Before
  <2>4. CASE RecvFails
    BY <1>1, <2>4 DEF RecvFails, Outgoing, phone, Before
  <2> QED BY <2>1, <2>2, <2>3, <2>4 DEF Bus
<1>5. Plain(toHost)' /\ Plain(Incoming)'
  <2>1. CASE SendDone
    BY <1>1, <2>1 DEF SendDone, Incoming, Before
  <2>2. CASE RecvDone
    <3>1. Incoming = toHost /\ toHost' = Tail(toHost) /\ toHost # <<>>
          /\ Incoming' = <<Head(toHost)>> \o Tail(toHost)
      BY <2>2 DEF RecvDone, Incoming
    <3>2. Incoming' = Incoming
      BY <1>0, <3>1
    <3>3. Plain(toHost)'
      BY <1>0, <1>1, <3>1, PlainSeq DEF Before
    <3> QED BY <1>1, <3>2, <3>3 DEF Plain
  <2>3. CASE SendFails
    BY <1>1, <2>3 DEF SendFails, Incoming, phone, Before
  <2>4. CASE RecvFails
    BY <1>1, <2>4 DEF RecvFails, Incoming, Settled, phone, Before
  <2> QED BY <2>1, <2>2, <2>3, <2>4 DEF Bus
<1>6. Before' /\ (pc' = "send" => Session')
  BY <1>1, <1>2, <1>3, <1>4, <1>5 DEF Before
<1> QED BY <1>1, <1>3, <1>4, <1>5, <1>6, StartKept

\* The daemon answers CNXN, and has nothing else to do.
LEMMA StartDaemon ==
    ASSUME TypeOK, TypeOK', StartInv, ~Linked, Answer \/ AdbdSend \/ AdbdClose
    PROVE  StartInv' /\ ~Linked'
<1>1. Before
  BY StartFacts
<1>2. toDev \in Seq(Packets) /\ toHost \in Seq(Packets) /\ recvPort.pkt \in Packets
      /\ sendPort.pkt \in Packets
  BY DEF TypeOK, Ports
<1>3. AdbdCnxn
  <2>1. \A r \in Opens : ~IsOpen(r)
    BY <1>1 DEF Before, IsOpen
  <2>2. toDev # <<>> => Head(toDev).cmd \in PlainCmd
    BY <1>1, <1>2, PlainSeq DEF Before
  <2> QED BY <2>1, <2>2 DEF Answer, AdbdOpen, AdbdWrte, AdbdOkay, AdbdClse,
                            AdbdSend, AdbdClose, PlainCmd
<1>4. /\ attached' = attached /\ UNCHANGED conn /\ UNCHANGED host /\ pc' = pc
      /\ UNCHANGED port /\ toDev' = Tail(toDev) /\ toDev # <<>>
  BY <1>3 DEF AdbdCnxn, AdbdReads, AdbdStep
<1>5. \A r \in Opens : ~adbd'.sockets[r].open
  BY <1>1, <1>3 DEF AdbdCnxn, Before, TypeOK
<1>6. Plain(toDev)' /\ (Plain(Outgoing) => Plain(Outgoing)')
  <2>1. Plain(toDev)'
    BY <1>1, <1>2, <1>4, PlainSeq DEF Before
  <2>2. ASSUME Plain(Outgoing) PROVE Plain(Outgoing)'
    <3>1. CASE sendPort.state = "BUSY"
      <4>1. sendPort.pkt.cmd \in PlainCmd
        BY <1>2, <2>2, <3>1, PlainSeq DEF Outgoing
      <4>2. Outgoing' = Append(Tail(toDev), sendPort.pkt)
        BY <1>4, <3>1 DEF Outgoing, port
      <4>3. Plain(Tail(toDev)) /\ Tail(toDev) \in Seq(Packets)
        BY <1>2, <1>4, <2>1
      <4>4. Plain(Append(Tail(toDev), sendPort.pkt))
        BY <1>2, <4>1, <4>3, PlainSeq
      <4> QED BY <4>2, <4>4 DEF Plain
    <3>2. CASE sendPort.state # "BUSY"
      BY <1>4, <2>1, <3>2 DEF Outgoing, port
    <3> QED BY <3>1, <3>2
  <2> QED BY <2>1, <2>2
<1>7. Plain(toHost)' /\ (Plain(Incoming) => Plain(Incoming)')
  <2> PICK cnxn \in Packets, other \in Packets :
         cnxn = Packet("CNXN", 0, 0, 0) /\ other = Packet("OTHER", 0, 0, 0)
    BY PacketType, ZeroTypes DEF Commands
  <2>1. cnxn.cmd \in PlainCmd /\ other.cmd \in PlainCmd
    BY DEF Packet, PlainCmd
  <2>2. toHost' = Append(toHost, cnxn) \/ toHost' = toHost \o <<other, cnxn>>
    BY <1>3 DEF AdbdCnxn
  <2>3. ASSUME NEW s \in Seq(Packets), Plain(s)
        PROVE  Plain(Append(s, cnxn)) /\ Plain(s \o <<other, cnxn>>)
    <3>1. Plain(Append(s, cnxn)) /\ Plain(Append(s, other))
      BY <2>1, <2>3, PlainSeq
    <3>2. s \o <<other, cnxn>> = Append(Append(s, other), cnxn)
      OBVIOUS
    <3>4. Append(s, other) \in Seq(Packets)
      OBVIOUS
    <3> PICK u \in Seq(Packets) : u = Append(s, other)
      BY <3>4
    <3>3. Plain(Append(u, cnxn))
      BY <2>1, <3>1, PlainSeq
    <3> QED BY <3>1, <3>2, <3>3
  <2>4. Plain(toHost)'
    BY <1>1, <1>2, <2>2, <2>3 DEF Before
  <2>5. ASSUME Plain(Incoming) PROVE Plain(Incoming)'
    <3>1. CASE recvPort.state = "IDLE"
      <4> PICK p \in Packets, q \in Seq(Packets) : p = recvPort.pkt /\ q = toHost
        BY <1>2
      <4>0. <<p>> \o q \in Seq(Packets)
        OBVIOUS
      <4> PICK s \in Seq(Packets) : s = <<p>> \o q
        BY <4>0
      <4>1. Plain(s)
        BY <2>5, <3>1 DEF Incoming
      <4>2. Incoming' = Append(s, cnxn) \/ Incoming' = s \o <<other, cnxn>>
        <5>1. Incoming' = <<recvPort.pkt>> \o toHost'
          BY <1>4, <3>1 DEF Incoming, port
        <5>2. <<p>> \o Append(q, cnxn) = Append(s, cnxn)
          OBVIOUS
        <5>3. <<p>> \o (q \o <<other, cnxn>>) = s \o <<other, cnxn>>
          OBVIOUS
        <5> QED BY <2>2, <5>1, <5>2, <5>3
      <4> QED BY <2>3, <4>1, <4>2
    <3>2. CASE recvPort.state # "IDLE"
      BY <1>4, <2>4, <3>2 DEF Incoming, port
    <3> QED BY <3>1, <3>2
  <2> QED BY <2>4, <2>5
<1>8. Before' /\ (pc' = "send" => Session') /\ ~Linked' /\ (Session' <=> Session)
  BY <1>4, <1>5, <1>6, <1>7, StartFacts DEF Before, Session, Linked, conn
<1> QED BY <1>4, <1>6, <1>7, <1>8, StartFacts, StartKept DEF conn, host

\* A step that changes neither what there is nor how far the session is.
LEMMA StartQuiet ==
    ASSUME TypeOK, StartInv, ~Linked, UNCHANGED phone, UNCHANGED adb_channels,
           Incoming' = Incoming, Outgoing' = Outgoing,
           adb_conn_state' = adb_conn_state, Session' <=> Session,
           pc' = "send" => Session'
    PROVE  StartInv' /\ ~Linked'
<1>1. ~Linked'
  BY DEF Linked
<1>2. Before'
  BY StartFacts DEF Before, Plain, phone
<1>3. Session => adb_channels' = [h \in Handles |-> Free]
  BY StartFacts
<1>4. Session /\ adb_conn_state' = "WAIT_CONNECT" => Plain(Incoming)' /\ Plain(Outgoing)'
  BY StartFacts DEF Plain
<1> QED BY <1>1, <1>2, <1>3, <1>4, StartKept

\* The cable, and the loop's way to a connection.
LEMMA StartCable ==
    ASSUME TypeOK, TypeOK', StartInv, ~Linked,
           Attach \/ Detach \/ ConnDetached \/ ADBInit
    PROVE  StartInv' /\ ~Linked'
<1>1. CASE Detach
  BY <1>1, LostStart DEF Detach
<1>2. CASE Attach \/ ConnDetached \/ ADBInit
  <2>1. UNCHANGED phone /\ pc' # "send"
    BY <1>2 DEF Attach, ConnDetached, ADBInit
  <2>2. Before'
    BY <2>1, StartFacts DEF Before, Plain, phone
  <2>3. CASE Attach \/ ConnDetached
    <3>1. ~Session'
      BY <2>3 DEF Attach, ConnDetached, Session, conn
    <3> QED BY <2>1, <2>2, <3>1, StartKept DEF Linked
  <2>4. CASE ADBInit
    <3>1. adb_channels' = [h \in Handles |-> Free] /\ adb_conn_state' = "WAIT_ATTACH"
      BY <2>4 DEF ADBInit
    <3> QED BY <2>1, <2>2, <3>1, StartKept DEF Linked
  <2> QED BY <1>2, <2>3, <2>4
<1> QED BY <1>1, <1>2

\* The first packets received: CNXN makes the connection, a failure ends it.
LEMMA StartReceive ==
    ASSUME TypeOK, TypeOK', CountInv, StartInv, ~Linked, Receive
    PROVE  OrderInv'
<1>1. /\ Session /\ adb_conn_state = "WAIT_CONNECT" /\ HasReceived
      /\ adb_buffer_refcount = 1 /\ UNCHANGED phone
      /\ attached' = attached /\ adb_state' = adb_state /\ sendPort' = sendPort
  <2>1. /\ InTasks /\ HasReceived /\ UNCHANGED phone
        /\ attached' = attached /\ adb_state' = adb_state /\ sendPort' = sendPort
    BY DEF Receive, ReceiveError, HandleCnxn, HandleOkay, HandleClse,
           HandleWrte, HandleOther, Received
  <2>2. Session /\ adb_conn_state = "WAIT_CONNECT"
    BY <2>1 DEF InTasks, HasReceived, Session, Linked
  <2>3. adb_buffer_refcount = 1
    BY <2>1 DEF HasReceived, CountInv
  <2> QED BY <2>1, <2>2, <2>3
<1>2. /\ Plain(Incoming) /\ Plain(Outgoing) /\ Before
      /\ adb_channels = [h \in Handles |-> Free]
  BY <1>1, StartFacts
<1>3. Session' /\ Before'
  BY <1>1, <1>2 DEF Session, Before, Plain, phone
<1>4. Outgoing' = Outgoing
  BY <1>1 DEF Outgoing, phone
<1>5. Plain(Outgoing)'
  BY <1>2, <1>4 DEF Plain
<1>6. recvPort.state = "IDLE" => recvPort.pkt.cmd \in PlainCmd /\ Plain(toHost)
  <2> SUFFICES ASSUME recvPort.state = "IDLE"
               PROVE  recvPort.pkt.cmd \in PlainCmd /\ Plain(toHost)
    OBVIOUS
  <2> PICK p \in Packets, q \in Seq(Packets) : p = recvPort.pkt /\ q = toHost
    BY DEF TypeOK, Ports
  <2>1. Incoming = <<p>> \o q
    BY DEF Incoming
  <2> QED BY <1>2, <2>1, PlainSeq
<1>7. \/ Linked' /\ Parts'
      \/ /\ adb_channels' = [h \in Handles |-> Free]
         /\ Plain(Incoming)' /\ ~Linked'
  <2>1. CASE ReceiveError
    <3>1. Linked' /\ adb_channels' = adb_channels /\ recvPort' = recvPort
      BY <1>3, <2>1 DEF ReceiveError, Linked, Unref
    <3>2. Plain(Incoming)'
      BY <1>1, <1>2, <3>1 DEF Plain, Incoming, phone
    <3>3. Parts'
      BY <1>2, <1>3, <1>5, <3>1, <3>2, EmptyParts DEF Before
    <3> QED BY <3>1, <3>3
  <2>2. CASE HandleCnxn
    <3>1. Linked' /\ adb_channels' = adb_channels /\ recvPort' = Settled("BUSY")
          /\ recvPort.state = "IDLE"
      BY <1>1, <1>3, <2>2 DEF HandleCnxn, Linked, Unref, Received
    <3>2. Incoming' = toHost
      BY <1>1, <3>1 DEF Incoming, Settled, phone
    <3>3. Plain(Incoming)'
      BY <1>6, <3>1, <3>2 DEF Plain
    <3>4. Parts'
      BY <1>2, <1>3, <1>5, <3>1, <3>3, EmptyParts DEF Before
    <3> QED BY <3>1, <3>4
  <2>3. CASE HandleOther
    <3>1. adb_channels' = adb_channels /\ adb_conn_state' = adb_conn_state
      BY <2>3 DEF HandleOther
    <3>2. recvPort' = recvPort
      BY <1>1, <2>3 DEF HandleOther, Unref, ADBConnected
    <3>3. Plain(Incoming)'
      BY <1>1, <1>2, <3>2 DEF Plain, Incoming, phone
    <3> QED BY <1>1, <1>2, <3>1, <3>3 DEF Linked
  <2>4. ~HandleOkay /\ ~HandleClse /\ ~HandleWrte
    BY <1>6 DEF HandleOkay, HandleClse, HandleWrte, Received, PlainCmd
  <2> QED BY <2>1, <2>2, <2>3, <2>4 DEF Receive
<1>8. StartInv'
  BY <1>3, <1>5, <1>7, StartKept
<1> QED BY <1>7, <1>8 DEF OrderInv

\* Without a connection the second half of ADBTasks sends CNXN or waits.
LEMMA StartSending ==
    ASSUME TypeOK, TypeOK', StartInv, ~Linked, Send
    PROVE  StartInv' /\ ~Linked'
<1>1. Session
  BY StartFacts DEF Send, Connect, AwaitConnect, ServeChannel, NothingToSend,
                    SendError, ADBReset, AtSwitch, InTasks, Session
<1>2. Before /\ adb_channels = [h \in Handles |-> Free]
  BY <1>1, StartFacts
<1>3. CASE Connect
  <2>1. /\ UNCHANGED phone /\ adb_channels' = adb_channels /\ pc' = "idle"
        /\ adb_conn_state' = "WAIT_CONNECT"
        /\ recvPort' = Settled("BUSY")
        /\ sendPort' = [state |-> "BUSY", pkt |-> Packet("CNXN", 0, 0, 0)]
    BY <1>3 DEF Connect, StartRecv, StartSend
  <2>2. Before'
    BY <1>2, <2>1 DEF Before, Plain, phone
  <2>3. Incoming' = toHost
    BY <2>1 DEF Incoming, Settled, phone
  <2> PICK cnxn \in Packets : cnxn = Packet("CNXN", 0, 0, 0)
    BY PacketType, ZeroTypes DEF Commands
  <2>4. Outgoing' = Append(toDev, cnxn) /\ cnxn.cmd \in PlainCmd
    BY <2>1 DEF Outgoing, phone, Packet, PlainCmd
  <2>5. Plain(Outgoing)'
    <3>1. Plain(Append(toDev, cnxn))
      BY <1>2, <2>4, PlainSeq DEF Before, TypeOK
    <3> QED BY <2>4, <3>1 DEF Plain
  <2>6. Plain(Incoming)'
    BY <1>2, <2>3 DEF Before, Plain
  <2> QED BY <1>2, <2>1, <2>2, <2>5, <2>6, StartKept DEF Linked
<1>4. CASE AwaitConnect
  <2>1. /\ UNCHANGED phone /\ adb_channels' = adb_channels /\ pc' = "idle"
        /\ adb_conn_state' = adb_conn_state
        /\ recvPort' = recvPort /\ sendPort' = sendPort
        /\ attached' = attached /\ adb_state' = "INITIALIZING"
    BY <1>4 DEF AwaitConnect, host, port, Returns
  <2>2. Incoming' = Incoming /\ Outgoing' = Outgoing
    BY <2>1 DEF Incoming, Outgoing, phone
  <2>3. Session'
    BY <1>1, <2>1 DEF Session
  <2> QED BY <1>1, <2>1, <2>2, <2>3, StartQuiet
<1>5. CASE ADBReset
  BY <1>5, LostStart DEF ADBReset
<1>6. ~ServeChannel /\ ~NothingToSend /\ ~SendError
  BY <1>1 DEF ServeChannel, NothingToSend, SendError, Linked
<1> QED BY <1>3, <1>4, <1>5, <1>6 DEF Send

\* Nor can the client do anything.
LEMMA StartClient ==
    ASSUME TypeOK, TypeOK', StartInv, ~Linked, Client \/ UNCHANGED vars
    PROVE  StartInv' /\ ~Linked'
<1>1. CASE UNCHANGED vars
  <2>1. /\ UNCHANGED phone /\ adb_channels' = adb_channels /\ pc' = pc
        /\ attached' = attached /\ UNCHANGED conn /\ UNCHANGED port
    BY <1>1 DEF vars, host
  <2>2. Incoming' = Incoming /\ Outgoing' = Outgoing
    BY <2>1 DEF Incoming, Outgoing, phone, port
  <2> QED BY <2>1, <2>2, StartQuiet, StartFacts DEF Session, conn
<1>2. CASE Client
  <2>1. Session
    BY <1>2
       DEF Client, ClientOpen, ClientWrite, ClientClose, ClientRuns, Session
  <2>2. adb_channels = [h \in Handles |-> Free]
    BY <2>1, StartFacts
  <2>3. ~ClientOpen
    BY <2>1 DEF ClientOpen, ADBConnected, Linked
  <2>4. ~ClientWrite
    BY <2>2 DEF ClientWrite, ADBChannelReady, Free
  <2>5. ClientClose
    BY <1>2, <2>3, <2>4 DEF Client
  <2> PICK h \in Handles : ADBClose(h)
    BY <2>5 DEF ClientClose
  <2>6. adb_channels' = adb_channels
    <3>1. adb_channels' \in [Handles -> Channels] /\ adb_channels \in [Handles -> Channels]
      BY DEF TypeOK
    <3>2. adb_channels[h].state = "FREE"
      BY <2>2 DEF Free
    <3>3. adb_channels' = [adb_channels EXCEPT ![h].state = "FREE"]
      BY <3>2 DEF ADBClose
    <3>4. ASSUME NEW g \in Handles PROVE adb_channels'[g] = adb_channels[g]
      <4>1. CASE g # h
        BY <3>1, <3>3, <4>1
      <4>2. CASE g = h
        BY <2>2, <3>1, <3>3, <4>2 DEF Free
      <4> QED BY <4>1, <4>2
    <3> QED BY <3>1, <3>4
  <2>7. /\ UNCHANGED phone /\ pc' = pc /\ UNCHANGED conn /\ UNCHANGED port
        /\ attached' = attached
    BY <2>5 DEF ClientClose
  <2>8. Incoming' = Incoming /\ Outgoing' = Outgoing
    BY <2>7 DEF Incoming, Outgoing, phone, port
  <2> QED BY <2>1, <2>6, <2>7, <2>8, StartQuiet DEF Session, conn
<1> QED BY <1>1, <1>2

----------------------------------------------------------------------------
(* The steps.                                                              *)

\* A step taken without a connection.
LEMMA StartStep ==
    ASSUME TypeOK, TypeOK', CountInv, StartInv, ~Linked, [Next]_vars
    PROVE  OrderInv'
<1>1. CASE Receive
  BY <1>1, StartReceive
<1>2. CASE ~Receive
  <2>1. StartInv' /\ ~Linked'
    BY <1>2, StartBus, StartDaemon, StartCable, StartSending, StartClient
    DEF Next, Loop
  <2> QED BY <2>1 DEF OrderInv
<1> QED BY <1>1, <1>2

\* A step taken with one keeps it, or ends the session.
LEMMA LinkedStep ==
    ASSUME TypeOK, TypeOK', CountInv, Parts, Linked, [Next]_vars
    PROVE  OrderInv'
<1>1. CASE Detach \/ ADBReset
  <2>1. StartInv' /\ ~Linked'
    BY <1>1, LostStart DEF Detach, ADBReset
  <2> QED BY <2>1 DEF OrderInv
<1>2. CASE ~(Detach \/ ADBReset)
  <2>1. ~Attach /\ ~ConnDetached /\ ~ADBInit /\ ~Connect /\ ~AwaitConnect
    BY DEF Linked, Session, Attach, ConnDetached, ADBInit, Connect, AwaitConnect
  <2>2. Linked' /\ Parts'
    <3>1. CASE Bus
      <4>1. Linked'
        BY <3>1 DEF Bus, SendDone, RecvDone, SendFails, RecvFails, Linked,
                    Session, conn
      <4> QED BY <3>1, <4>1, PartsBus
    <3>2. CASE Answer \/ AdbdSend \/ AdbdClose
      <4>1. Linked'
        BY <3>2 DEF Answer, AdbdCnxn, AdbdOpen, AdbdWrte, AdbdOkay, AdbdClse,
                    AdbdSend, AdbdClose, AdbdReads, AdbdStep, Linked, Session,
                    conn
      <4> QED BY <3>2, <4>1, PartsCnxn, PartsOpen, PartsWrte, PartsOkay,
                 PartsClse, PartsSend, PartsClose DEF Answer
    <3>3. CASE Receive
      <4>1. CASE ReceiveError
        BY <4>1, PartsReceiveError DEF ReceiveError, Linked, Session
      <4>2. CASE ~ReceiveError
        <5>1. ADBConnected /\ attached' = attached /\ adb_state' = adb_state
          BY <3>3, <4>2 DEF Receive, HandleCnxn, HandleOkay, HandleClse,
                            HandleWrte, HandleOther, Received, HasReceived,
                            Linked, ADBConnected
        <5>2. adb_conn_state' = "CONNECTED"
          BY <3>3, <4>2, <5>1 DEF Receive, HandleCnxn, HandleOkay, HandleClse,
                            HandleWrte, HandleOther, ADBConnected
        <5>3. Linked'
          BY <5>1, <5>2 DEF Linked, Session
        <5>4. Parts'
          BY <3>3, <4>2, <5>1, PartsIgnored, PartsHandleOkay, PartsHandleClse,
             PartsHandleWrte DEF Receive
        <5> QED BY <5>3, <5>4
      <4> QED BY <4>1, <4>2
    <3>4. CASE ServeChannel \/ NothingToSend \/ SendError
      <4>1. Linked'
        BY <3>4 DEF ServeChannel, NothingToSend, SendError, Linked, Session,
                    Returns
      <4> QED BY <3>4, <4>1, PartsServe, PartsQuiet
    <3>5. CASE Client
      <4>1. Linked'
        BY <3>5 DEF Client, ClientOpen, ClientWrite, ClientClose, Linked,
                    Session, conn
      <4> QED BY <3>5, <4>1, PartsClientOpen, PartsClientWrite, PartsClientClose
                 DEF Client
    <3>6. CASE UNCHANGED vars
      <4>1. Linked'
        BY <3>6 DEF vars, Linked, Session, conn
      <4> QED BY <3>6, <4>1, PartsQuiet
    <3> QED BY <1>2, <2>1, <3>1, <3>2, <3>3, <3>4, <3>5, <3>6
            DEF Next, Loop, Send
  <2>3. StartInv'
    BY <2>2, StartKept DEF Linked
  <2> QED BY <2>2, <2>3 DEF OrderInv
<1> QED BY <1>1, <1>2

\* Every step keeps the invariant.
LEMMA OrderStep ==
    ASSUME TypeOK, TypeOK', CountInv, OrderInv, [Next]_vars
    PROVE  OrderInv'
BY StartStep, LinkedStep DEF OrderInv

\* It holds at first, for the phone is not attached.
LEMMA OrderInit == Init => OrderInv
<1> SUFFICES ASSUME Init PROVE OrderInv
  OBVIOUS
<1>1. ~Session /\ ~Linked /\ pc # "send"
  BY DEF Init, Session, Linked
<1>2. Plain(toDev) /\ Plain(toHost)
  BY DEF Init, Plain
<1>3. \A r \in Opens : ~adbd.sockets[r].open
  BY DEF Init, NoSocket
<1> QED BY <1>1, <1>2, <1>3 DEF OrderInv, StartInv

----------------------------------------------------------------------------
(* What is concluded.                                                      *)

\* The invariant, with those it needs.
LEMMA OrderAlways == Spec => [](TypeOK /\ CountInv /\ OrderInv)
<1>1. Init => CountInv
  BY DEF Init, CountInv, ADBConnected
<1>2. TypeOK /\ CountInv /\ OrderInv /\ [Next]_vars
         => TypeOK' /\ CountInv' /\ OrderInv'
  BY TypeStep, CountStep, OrderStep
<1> QED BY <1>1, <1>2, TypeInit, OrderInit, PTL DEF Spec

\* A socket is open in a session with a connection only.
LEMMA OpenLinked ==
    ASSUME OrderInv, NEW r, IsOpen(r) PROVE Linked /\ Parts
BY DEF OrderInv, StartInv, IsOpen

\* What the client wrote reaches the daemon once and in order: a channel has one
\* WRTE or its OKAY under way, and the next is sent when that was answered
\* (adb.c:64-121, 163-186).
THEOREM WritesInOrder == Spec => []InOrderWrites
<1>1. ASSUME TypeOK, OrderInv PROVE InOrderWrites
  <2> SUFFICES ASSUME toDev # <<>>, Head(toDev).cmd = "WRTE",
                      IsOpen(Head(toDev).arg1)
               PROVE  Head(toDev).data
                         = NextData(adbd.sockets[Head(toDev).arg1].read)
    BY DEF InOrderWrites
  <2> PICK p \in Packets : p = Head(toDev)
    BY <1>1 DEF TypeOK
  <2> PICK r \in Ids, l \in Ids, k \in Ids :
         r = p.arg1 /\ l = p.arg0 /\ k = adbd.sockets[r].local
    BY <1>1 DEF TypeOK, Packets, IsOpen, Sockets
  <2>1. Parts
    BY <1>1, OpenLinked
  <2>2. Sock(r, k)
    BY DEF Sock, IsOpen
  <2>3. 1 \in 1 .. Len(Outgoing) /\ Outgoing[1] = p
    <3> PICK out \in Seq(Packets), s \in Packets : out = toDev /\ s = sendPort.pkt
      BY <1>1 DEF TypeOK, Ports
    <3>1. out # <<>> /\ out[1] = p /\ 1 \in 1 .. Len(out)
      OBVIOUS
    <3>2. 1 \in 1 .. Len(Append(out, s)) /\ Append(out, s)[1] = out[1]
      BY <3>1
    <3> QED BY <3>1, <3>2 DEF Outgoing
  <2>4. OutWrte(1, r, l) /\ OutData(1) = p.data
    BY <2>3 DEF OutWrte, OutData
  <2>5. Binds(r, k) /\ Binds(r, l)
    BY <2>2, <2>4 DEF Binds
  <2>6. k = l
    BY <2>1, <2>5 DEF Parts, BindInv
  <2> QED BY <2>1, <2>2, <2>4, <2>6 DEF Parts, WriteInv, WriteOut
<1> QED BY <1>1, OrderAlways, PTL

\* The places of the packets of a stream.
InPlace(i)  == IF recvPort.state # "IDLE" THEN <<"toHost", i>>
               ELSE IF i = 1 THEN <<"recvPort", 0>> ELSE <<"toHost", i - 1>>
OutPlace(i) == IF i = Len(toDev) + 1 THEN <<"sendPort", 0>> ELSE <<"toDev", i>>

\* What leads to an acknowledgement is data in the stream to the host, an
\* acknowledgement in the stream to the daemon, or one a channel owes.
LEMMA AckPlace ==
    ASSUME TypeOK, NEW r \in Opens, NEW x \in AcksUnderWay(r)
    PROVE  \/ \E i \in Nat, l \in Ids : InWrte(i, r, l) /\ x = InPlace(i)
           \/ \E i \in Nat, l \in Ids : OutOkay(i, r, l) /\ x = OutPlace(i)
           \/ \E h \in Handles : AckAt(h, r) /\ x = <<"ack", h>>
<1> PICK in \in Seq(Packets), out \in Seq(Packets) : in = toHost /\ out = toDev
  BY DEF TypeOK
<1>0. recvPort.pkt \in Packets /\ sendPort.pkt \in Packets
  BY DEF TypeOK, Ports
<1>1. ASSUME NEW i \in DOMAIN toHost, toHost[i].cmd = "WRTE", toHost[i].arg0 = r,
             x = <<"toHost", i>>
      PROVE  \E j \in Nat, l \in Ids : InWrte(j, r, l) /\ x = InPlace(j)
  <2>1. i \in 1 .. Len(in) /\ in[i] \in Packets
    BY <1>1
  <2> PICK p \in Packets : p = in[i]
    BY <2>1
  <2>2. p.cmd = "WRTE" /\ p.arg0 = r /\ p.arg1 \in Ids
    BY <1>1 DEF Packets
  <2>3. CASE recvPort.state = "IDLE"
    <3> PICK q \in Packets : q = recvPort.pkt
      BY <1>0
    <3>1. Incoming = <<q>> \o in
      BY <2>3 DEF Incoming
    <3>2. i + 1 \in 1 .. Len(<<q>> \o in) /\ (<<q>> \o in)[i + 1] = in[i]
      BY <2>1
    <3>3. InWrte(i + 1, r, p.arg1)
      BY <2>2, <3>1, <3>2 DEF InWrte
    <3>4. i + 1 \in Nat /\ i + 1 # 1 /\ (i + 1) - 1 = i
      BY <2>1
    <3>5. x = InPlace(i + 1)
      BY <1>1, <2>3, <3>4 DEF InPlace
    <3> QED BY <2>2, <3>3, <3>4, <3>5
  <2>4. CASE recvPort.state # "IDLE"
    <3>1. InWrte(i, r, p.arg1)
      BY <2>1, <2>2, <2>4 DEF InWrte, Incoming
    <3>2. x = InPlace(i) /\ i \in Nat
      BY <1>1, <2>1, <2>4 DEF InPlace
    <3> QED BY <2>2, <3>1, <3>2
  <2> QED BY <2>3, <2>4
<1>2. ASSUME NEW i \in DOMAIN toDev, toDev[i].cmd = "OKAY", toDev[i].arg1 = r,
             x = <<"toDev", i>>
      PROVE  \E j \in Nat, l \in Ids : OutOkay(j, r, l) /\ x = OutPlace(j)
  <2>1. i \in 1 .. Len(out) /\ out[i] \in Packets /\ i \in Nat /\ i # Len(out) + 1
    BY <1>2
  <2> PICK p \in Packets : p = out[i]
    BY <2>1
  <2>2. p.cmd = "OKAY" /\ p.arg1 = r /\ p.arg0 \in Ids
    BY <1>2 DEF Packets
  <2>3. i \in 1 .. Len(Outgoing) /\ Outgoing[i] = p
    <3>1. CASE sendPort.state = "BUSY"
      <4> PICK q \in Packets : q = sendPort.pkt
        BY <1>0
      <4>1. Outgoing = Append(out, q)
        BY <3>1 DEF Outgoing
      <4>2. i \in 1 .. Len(Append(out, q)) /\ Append(out, q)[i] = out[i]
        BY <2>1
      <4> QED BY <4>1, <4>2
    <3>2. CASE sendPort.state # "BUSY"
      BY <2>1, <3>2 DEF Outgoing
    <3> QED BY <3>1, <3>2
  <2>4. OutOkay(i, r, p.arg0)
    BY <2>2, <2>3 DEF OutOkay
  <2>5. x = OutPlace(i)
    BY <1>2, <2>1 DEF OutPlace
  <2> QED BY <2>1, <2>2, <2>4, <2>5
<1>3. ASSUME recvPort.state = "IDLE", recvPort.pkt.cmd = "WRTE",
             recvPort.pkt.arg0 = r, x = <<"recvPort", 0>>
      PROVE  \E j \in Nat, l \in Ids : InWrte(j, r, l) /\ x = InPlace(j)
  <2> PICK q \in Packets : q = recvPort.pkt
    BY <1>0
  <2>1. Incoming = <<q>> \o in
    BY <1>3 DEF Incoming
  <2>2. 1 \in 1 .. Len(<<q>> \o in) /\ (<<q>> \o in)[1] = q
    OBVIOUS
  <2>3. q.arg1 \in Ids
    BY DEF Packets
  <2>4. InWrte(1, r, q.arg1)
    BY <1>3, <2>1, <2>2 DEF InWrte
  <2>5. x = InPlace(1)
    BY <1>3 DEF InPlace
  <2> QED BY <2>3, <2>4, <2>5
<1>4. ASSUME sendPort.state = "BUSY", sendPort.pkt.cmd = "OKAY",
             sendPort.pkt.arg1 = r, x = <<"sendPort", 0>>
      PROVE  \E j \in Nat, l \in Ids : OutOkay(j, r, l) /\ x = OutPlace(j)
  <2> PICK q \in Packets : q = sendPort.pkt
    BY <1>0
  <2> PICK n \in Nat : n = Len(out) + 1
    OBVIOUS
  <2>1. Outgoing = Append(out, q)
    BY <1>4 DEF Outgoing
  <2>2. n \in 1 .. Len(Append(out, q)) /\ Append(out, q)[n] = q
    OBVIOUS
  <2>3. q.arg0 \in Ids
    BY DEF Packets
  <2>4. OutOkay(n, r, q.arg0)
    BY <1>4, <2>1, <2>2 DEF OutOkay
  <2>5. x = OutPlace(n)
    BY <1>4 DEF OutPlace
  <2> QED BY <2>3, <2>4, <2>5
<1>5. ASSUME NEW h \in Handles, adb_channels[h].ack, adb_channels[h].remote = r,
             x = <<"ack", h>>
      PROVE  \E g \in Handles : AckAt(g, r) /\ x = <<"ack", g>>
  BY <1>5 DEF AckAt
<1> QED BY <1>1, <1>2, <1>3, <1>4, <1>5 DEF AcksUnderWay

\* Flow control: an acknowledgement is under way for an open socket only when
\* the daemon waits for one, and then only one, whatever becomes of the channel
\* that owes it (adb.c:64-121, 187-201).
THEOREM AcksAreAwaited == Spec => []NoSpuriousAck
<1>1. ASSUME TypeOK, OrderInv, NEW r \in Opens, IsOpen(r)
      PROVE  Cardinality(AcksUnderWay(r))
                <= (IF adbd.sockets[r].unacked THEN 1 ELSE 0)
  <2> PICK acks : acks = AcksUnderWay(r)
    OBVIOUS
  <2> PICK q \in Ids : q = r
    BY DEF Ids, Opens
  <2>1. AckInv
    BY <1>1, OpenLinked DEF Parts
  <2>2. ASSUME NEW x \in acks PROVE adbd.sockets[r].unacked
    BY <1>1, <2>1, <2>2, AckPlace DEF AckInv, AckAwaited, Awaits, IsOpen
  <2>3. ASSUME NEW x \in acks, NEW y \in acks PROVE x = y
    <3>1. \/ \E i \in Nat, l \in Ids : InWrte(i, q, l) /\ x = InPlace(i)
          \/ \E i \in Nat, l \in Ids : OutOkay(i, q, l) /\ x = OutPlace(i)
          \/ \E h \in Handles : AckAt(h, q) /\ x = <<"ack", h>>
      BY <1>1, <2>3, AckPlace
    <3>2. \/ \E i \in Nat, l \in Ids : InWrte(i, q, l) /\ y = InPlace(i)
          \/ \E i \in Nat, l \in Ids : OutOkay(i, q, l) /\ y = OutPlace(i)
          \/ \E h \in Handles : AckAt(h, q) /\ y = <<"ack", h>>
      BY <1>1, <2>3, AckPlace
    <3> QED BY <2>1, <3>1, <3>2 DEF AckInv, AckOnce, AckChan
  <2>4. CASE acks = {}
    BY <2>4, FS_EmptySet
  <2>5. CASE acks # {}
    <3> PICK x : x \in acks
      BY <2>5
    <3>1. acks = {x}
      BY <2>3
    <3> QED BY <2>2, <3>1, FS_Singleton
  <2> QED BY <2>4, <2>5
<1>2. TypeOK /\ OrderInv => NoSpuriousAck
  BY <1>1 DEF NoSpuriousAck
<1> QED BY <1>2, OrderAlways, PTL

\* What a callback gets was sent on the opening its client holds, and is the next
\* it has not had: a slot that was reused, a session that ended or a channel
\* being closed delivers nothing of before (adb.c:187-201).
THEOREM DeliveryInOrder == Spec => InOrderDelivery
<1>1. ASSUME TypeOK, CountInv, OrderInv, [Next]_vars, NEW c \in calls',
             c.data > 0, vars' # vars
      PROVE  /\ c.local = LocalId(app[c.h], c.h)
             /\ c.data = NextData(got[c.h])
  <2>1. CASE HandleWrte
    <3> PICK p \in Packets, q \in Seq(Packets) : p = recvPort.pkt /\ q = toHost
      BY <1>1 DEF TypeOK, Ports
    <3> PICK r \in Ids, l \in Ids : r = p.arg0 /\ l = p.arg1
      BY DEF Packets
    <3>1. /\ recvPort.state = "IDLE" /\ p.cmd = "WRTE" /\ Session
          /\ adb_conn_state \in {"WAIT_CONNECT", "CONNECTED"}
      BY <2>1 DEF HandleWrte, Received, InTasks, HasReceived, Session
    <3>2. Incoming = <<p>> \o q
      BY <3>1 DEF Incoming
    <3>3. 1 \in 1 .. Len(<<p>> \o q) /\ (<<p>> \o q)[1] = p
      OBVIOUS
    <3>4. InWrte(1, r, l) /\ InData(1) = p.data
      BY <3>1, <3>2, <3>3 DEF InWrte, InData
    <3>5. Linked
      <4> SUFFICES ASSUME ~Linked PROVE FALSE
        OBVIOUS
      <4>1. Plain(<<p>> \o q)
        BY <1>1, <3>1, <3>2 DEF OrderInv, StartInv, Linked
      <4> QED BY <3>1, <4>1, PlainSeq DEF PlainCmd
    <3>6. Parts
      BY <1>1, <3>5 DEF OrderInv
    <3> PICK h \in Handles :
           /\ c = [h |-> h, local |-> p.arg1, data |-> p.data]
           /\ h \in Addressed(p) /\ adb_channels[h].remote = p.arg0
           /\ Takes(adb_channels[h])
      BY <1>1, <2>1 DEF HandleWrte, Addressed
    <3>7. adb_channels[h].local = l
      BY DEF Addressed
    <3>8. adb_channels[h].state \in Live
      <4>1. ~Fresh(h) /\ adb_channels[h].state # "FREE"
        BY <1>1, <3>4, <3>6, <3>7, WrteChannel
      <4>2. adb_channels[h].state \in ChanStates
        BY <1>1 DEF TypeOK, Channels
      <4> QED BY <4>1, <4>2 DEF Takes, Closing, Live, Fresh, ChanStates
    <3> QED BY <3>4, <3>6, <3>7, <3>8 DEF Parts, DeliverInv
  <2>2. CASE ~HandleWrte
    <3>1. CASE HandleClse
      <4> PICK hs : NotifyClosed(hs)
        BY <3>1 DEF HandleClse
      <4> QED BY <1>1 DEF NotifyClosed
    <3>2. CASE ADBReset
      <4> PICK hs : NotifyClosed(hs)
        BY <3>2 DEF ADBReset
      <4> QED BY <1>1 DEF NotifyClosed
    <3>3. CASE ~HandleClse /\ ~ADBReset
      <4>1. CASE Receive
        BY <1>1, <2>2, <3>3, <4>1
        DEF Receive, ReceiveError, HandleCnxn, HandleOkay, HandleOther
      <4>2. CASE Send
        BY <1>1, <3>3, <4>2
        DEF Send, Connect, AwaitConnect, ServeChannel, NothingToSend, SendError
      <4>3. CASE Answer \/ AdbdSend \/ AdbdClose
        BY <1>1, <4>3
        DEF Answer, AdbdCnxn, AdbdOpen, AdbdWrte, AdbdOkay, AdbdClse, AdbdSend,
            AdbdClose, AdbdReads, AdbdStep
      <4>4. CASE Client
        BY <1>1, <4>4 DEF Client, ClientOpen, ClientWrite, ClientClose
      <4>5. CASE Attach \/ Detach \/ Bus \/ ConnDetached \/ ADBInit
        BY <1>1, <4>5
        DEF Attach, Detach, Bus, SendDone, RecvDone, SendFails, RecvFails,
            ConnDetached, ADBInit
      <4> QED BY <1>1, <4>1, <4>2, <4>3, <4>4, <4>5 DEF Next, Loop
    <3> QED BY <3>1, <3>2, <3>3
  <2> QED BY <2>1, <2>2
<1>2. TypeOK /\ CountInv /\ OrderInv /\ [Next]_vars
         => [\A c \in calls' :
                c.data > 0 => /\ c.local = LocalId(app[c.h], c.h)
                              /\ c.data = NextData(got[c.h])]_vars
  BY <1>1
<1> QED BY <1>2, OrderAlways, PTL DEF Spec, InOrderDelivery

-----------------------------------------------------------------------------
(* The main loop (module TPadMain).                                        *)

CanOpen ==
    /\ ADBConnected /\ local_id_counter <= MaxOpens
    /\ FreeHandles # {}

\* What makes FreshSession inductive.  main leaves an unplugged phone in the
\* pass that sees it gone, but ADBConnected still answers for the lost
\* connection: a main that was connecting opens a channel on it, once, and
\* leaves in the next pass.  The phone is not back before.
SessionInv ==
    /\ FreshSession
    /\ unplugged \in Nat /\ local_id_counter \in Nat
    /\ pc = "send" => attached /\ adb_state # "DISCONNECTED" /\ turn = "adb"
    /\ turn = "adb" /\ attached /\ unplugged >= 1
          => adb_state = "DISCONNECTED"
    /\ unplugged >= 1 /\ (~attached \/ turn = "adb")
          => ~(main_state = "CONNECTING" /\ CanOpen)
    /\ unplugged >= 2 => main_state # "CONNECTED"

LEMMA SessionInit == MainInit => SessionInv
BY DEF MainInit, Init, SessionInv, FreshSession

LEMMA SessionWorld == SessionInv /\ World => SessionInv'
<1> SUFFICES ASSUME SessionInv, World PROVE SessionInv'
  OBVIOUS
<1> USE DEF World, mainVars, conn, host, count, SessionInv, FreshSession,
            CanOpen, ADBConnected, FreeHandles
<1>1. CASE Attach /\ unplugged = EnumPasses
  BY <1>1, MainAssumption DEF Attach
<1>2. CASE Detach
  BY <1>2 DEF Detach
<1>3. CASE Bus
  BY <1>3 DEF Bus, SendDone, RecvDone, SendFails, RecvFails
<1>4. CASE Answer \/ AdbdSend \/ AdbdClose
  BY <1>4 DEF Answer, AdbdCnxn, AdbdOpen, AdbdWrte, AdbdOkay, AdbdClse,
              AdbdSend, AdbdClose, AdbdStep, AdbdReads
<1> QED BY <1>1, <1>2, <1>3, <1>4

\* The ADB host runs for an attached phone, and then the firmware has not
\* seen it gone; otherwise it only notes that the phone is gone.
LEMMA SessionConnection == SessionInv /\ ConnectionTasks => SessionInv'
<1> SUFFICES ASSUME SessionInv, ConnectionTasks PROVE SessionInv'
  OBVIOUS
<1> USE DEF ConnectionTasks, mainState, SessionInv, FreshSession, CanOpen,
            ADBConnected, FreeHandles
<1>1. CASE ConnDetached
  BY <1>1 DEF ConnDetached, host
<1>2. CASE ADBInit
  BY <1>2 DEF ADBInit, count
<1>3. CASE Receive
  <2>1. /\ attached /\ adb_state # "DISCONNECTED"
        /\ UNCHANGED <<attached, adb_state, local_id_counter, sessions>>
        /\ pc' = "send"
    BY <1>3 DEF Receive, ReceiveError, HandleCnxn, HandleOkay, HandleClse,
                HandleWrte, HandleOther, Received, InTasks, count
  <2> QED BY <2>1
<1>4. CASE Send
  <2>1. /\ attached /\ adb_state # "DISCONNECTED" /\ pc' = "idle"
        /\ attached' \/ adb_conn_state' = "WAIT_ATTACH"
    BY <1>4 DEF Send, Connect, AwaitConnect, ServeChannel, NothingToSend,
                SendError, ADBReset, AtSwitch, InTasks
  <2>2. attached' => attached
    BY <2>1
  <2>3. UNCHANGED <<sessions, unplugged, local_id_counter>>
    BY <1>4 DEF Send, Connect, AwaitConnect, ServeChannel, NothingToSend,
                SendError, ADBReset, count, host
  <2> QED BY <2>1, <2>2, <2>3
<1> QED BY <1>1, <1>2, <1>3, <1>4 DEF Loop

LEMMA SessionMain == SessionInv /\ (Tick \/ Main) => SessionInv'
<1> SUFFICES ASSUME SessionInv, Tick \/ Main PROVE SessionInv'
  OBVIOUS
<1> USE DEF mainState, SessionInv, FreshSession, CanOpen, ADBConnected,
            FreeHandles, Pass, NoCall, conn, count
<1>1. CASE Tick
  BY <1>1 DEF Tick, vars, host
<1>2. CASE PassInit
  BY <1>2, MainAssumption DEF PassInit
<1>3. CASE PassWaiting
  BY <1>3, MainAssumption DEF PassWaiting
<1>4. CASE PassNotConnected
  BY <1>4, MainAssumption, AdbAssumption DEF PassNotConnected
<1>5. CASE PassOpen
  <2>1. CanOpen /\ turn = "main" /\ main_state = "CONNECTING"
    BY <1>5 DEF PassOpen
  <2>2. attached \/ unplugged = 0
    BY <2>1
  <2>3. unplugged' \in {0, 1} /\ turn' = "adb" /\ pc' = pc
    BY <1>5, <2>2, MainAssumption DEF PassOpen
  <2>4. main_state' = "CONNECTED" /\ openedIn' = sessions
        /\ attached' = attached /\ sessions' = sessions
    BY <1>5 DEF PassOpen
  <2>5. attached => unplugged' = 0
    BY <1>5 DEF PassOpen
  <2>6. local_id_counter' \in Nat
    BY <1>5 DEF PassOpen
  <2> QED BY <2>1, <2>3, <2>4, <2>5, <2>6
<1>6. CASE PassNoChannel
  BY <1>6, MainAssumption DEF PassNoChannel
<1>7. CASE PassConnected
  BY <1>7, MainAssumption DEF PassConnected, Leaves
<1> QED BY <1>1, <1>2, <1>3, <1>4, <1>5, <1>6, <1>7 DEF Main

\* While a phone is attached, the channel main relies on was opened with this
\* phone, for any number of channels, openings, attachments and errors: main
\* leaves on detachment (main.c:190) before an enumeration can be over.
THEOREM FreshChannel == MainSpec => []FreshSession
<1>1. SessionInv /\ [MainNext]_allVars => SessionInv'
  <2>1. CASE UNCHANGED allVars
    BY <2>1 DEF allVars, vars, mainVars, conn, host, count, SessionInv,
                FreshSession, CanOpen, ADBConnected, FreeHandles
  <2> QED BY <2>1, SessionWorld, SessionConnection, SessionMain DEF MainNext
<1>2. SessionInv => FreshSession
  BY DEF SessionInv
<1> QED BY <1>1, <1>2, SessionInit, PTL DEF MainSpec

============================================================================
