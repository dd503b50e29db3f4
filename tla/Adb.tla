-------------------------------- MODULE Adb --------------------------------
(***************************************************************************)
(* The ADB host of the firmware: the channel layer of adb.c, driven by     *)
(* ConnADBTasks of connection.c, above the packet layer of adb_packet.c,   *)
(* which is seen here as one packet being sent and one being received      *)
(* (module AdbPacket has its transfers).                                   *)
(*                                                                         *)
(* The firmware is a single loop; pc is the point a pass of it is at:      *)
(*   "idle"  before ADBTasks: the client runs, USBHostTasks and            *)
(*           USBHostAndroidTasks report what happened on the bus, and the  *)
(*           phone takes its steps, for the loop sees the phone only       *)
(*           through finished transfers; then a received packet is handled *)
(*   "send"  ADBTasks goes on with the state of the connection and         *)
(*           ADBChannelTasks.                                              *)
(* A client holds channels and forgets a handle when its callback reports  *)
(* the closure.  The phone's adb daemon is external: it answers as         *)
(* ADBHandlePacket expects.                                                *)
(***************************************************************************)
EXTENDS Integers, Sequences, FiniteSets

CONSTANTS
    MaxChannels,    \* ADB_MAX_CHANNELS (8)
    HandleBase,     \* 256: a local id is counter << 8 | handle
    MaxOpens,       \* bound on ADBOpen calls, hence on local ids
    MaxData,        \* data are numbered 1 .. MaxData, over and over
    MaxSessions,    \* bound on USB attachments
    MaxErrors,      \* bound on failed transfers
    QueueCap,       \* packets a side's USB buffers hold
    ForeignFirst,   \* may the phone send some other packet before CNXN?
    MayDetach,      \* may the phone be unplugged?
    DropOnDetach,   \* does the client watch ADBAttached, as main.c does?
    MayWrite,       \* does the client write?
    CloseStates     \* channel states in which the client calls ADBClose

Handles   == 0 .. MaxChannels - 1
Opens     == 1 .. MaxOpens

ASSUME AdbAssumption ==
    /\ MaxChannels \in Nat \ {0} /\ HandleBase \in Nat
    /\ MaxChannels <= HandleBase
    /\ MaxOpens \in Nat /\ MaxData \in Nat \ {0} /\ MaxSessions \in Nat
    /\ MaxErrors \in Nat /\ QueueCap \in Nat \ {0}
    /\ ForeignFirst \in BOOLEAN /\ MayDetach \in BOOLEAN
    /\ DropOnDetach \in BOOLEAN /\ MayWrite \in BOOLEAN

ChanStates  == {"FREE", "START", "WAIT_OPEN", "IDLE", "WAIT_READY",
                "CLOSE_REQUESTED", "WAIT_CLOSE"}
ConnStates  == {"ERROR", "WAIT_ATTACH", "WAIT_CONNECT", "CONNECTED"}
PortStates  == {"IDLE", "BUSY", "ERROR"}
Commands    == {"CNXN", "OPEN", "OKAY", "CLSE", "WRTE", "OTHER"}

VARIABLES
    pc,
    attached,             \* ADBAttached()
    adb_state,            \* connection.c
    adb_conn_state,
    adb_channels,
    adb_buffer_refcount,
    local_id_counter,
    current_channel,      \* static in ADBChannelTasks
    sendPort,             \* adb_packet.c: the packet being sent
    recvPort,             \*               the packet being received
    calls,                \* the callbacks the last step made
    app,                  \* which opening of a channel the client holds
    got,                  \* the last data it received on each
    wrote,                \* the last data it wrote
    adbd,                 \* the daemon: its sockets
    toDev, toHost,        \* packets between the two, in order
    sessions, errors      \* counted for the bounds

conn  == <<adb_state, adb_conn_state>>
host  == <<adb_channels, adb_buffer_refcount, local_id_counter,
           current_channel>>
port  == <<sendPort, recvPort>>
owner == <<app, got, wrote>>
phone == <<adbd, toDev, toHost>>
count == <<sessions, errors>>
vars  == <<pc, attached, conn, host, port, calls, owner, phone, count>>

Packet(cmd, a0, a1, d) == [cmd |-> cmd, arg0 |-> a0, arg1 |-> a1, data |-> d]
NoPacket    == Packet("OTHER", 0, 0, 0)
\* A port whose packet no longer matters.
Settled(st) == [state |-> st, pkt |-> NoPacket]
Free        == [state |-> "FREE", data |-> 0, local |-> 0, remote |-> 0,
                ack |-> FALSE]
NoSocket    == [local |-> 0, open |-> FALSE, unacked |-> FALSE, sent |-> 0,
                read |-> 0]

\* The number of the data after d.
NextData(d) == IF d < MaxData THEN d + 1 ELSE 1

\* adb_channels[h].local_id = (local_id_counter++) << 8 | h
LocalId(n, h) == n * HandleBase + h
HandleOf(id)  == id % HandleBase

LocalIds  == {0} \union {LocalId(n, h) : n \in Opens, h \in Handles}
Ids       == LocalIds \union 0 .. MaxOpens      \* and those of the daemon
Data      == 0 .. MaxData       \* 0 is no data
Packets   == [cmd : Commands, arg0 : Ids, arg1 : Ids, data : Data]
Channels  == [state : ChanStates, data : Data, local : LocalIds,
              remote : Ids, ack : BOOLEAN]
Sockets   == [local : Ids, open : BOOLEAN, unacked : BOOLEAN, sent : Data,
              read : Data]
Ports     == [state : PortStates, pkt : Packets]
Calls     == [h : Handles, local : LocalIds, data : Data]

TypeOK ==
    /\ pc \in {"idle", "send"}
    /\ attached \in BOOLEAN
    /\ adb_state \in {"DISCONNECTED", "INITIALIZING", "INITIALIZED"}
    /\ adb_conn_state \in ConnStates
    /\ adb_channels \in [Handles -> Channels]
    /\ adb_buffer_refcount \in Nat
    /\ local_id_counter \in 1 .. MaxOpens + 1
    /\ current_channel \in Handles
    /\ sendPort \in Ports /\ recvPort \in Ports
    /\ calls \subseteq Calls
    /\ app \in [Handles -> {0} \union Opens]
    /\ got \in [Handles -> Data] /\ wrote \in [Handles -> Data]
    /\ adbd \in [online : BOOLEAN, next : 1 .. MaxOpens + 1,
                 sockets : [Opens -> Sockets]]
    /\ toDev \in Seq(Packets) /\ toHost \in Seq(Packets)
    /\ sessions \in 0 .. MaxSessions /\ errors \in 0 .. MaxErrors

Init ==
    /\ pc = "idle"
    /\ attached = FALSE
    /\ adb_state = "DISCONNECTED"               \* ConnectionInit
    /\ adb_conn_state = "ERROR"                 \* a zeroed global
    /\ adb_channels = [h \in Handles |-> Free]
    /\ adb_buffer_refcount = 0
    /\ local_id_counter = 1
    /\ current_channel = 0
    /\ sendPort = [state |-> "BUSY", pkt |-> NoPacket]    \* START is 0, too
    /\ recvPort = [state |-> "BUSY", pkt |-> NoPacket]
    /\ calls = {}
    /\ app = [h \in Handles |-> 0]
    /\ got = [h \in Handles |-> 0] /\ wrote = [h \in Handles |-> 0]
    /\ adbd = [online |-> FALSE, next |-> 1,
               sockets |-> [r \in Opens |-> NoSocket]]
    /\ toDev = <<>> /\ toHost = <<>>
    /\ sessions = 0 /\ errors = 0

----------------------------------------------------------------------------
(* The client's side of the interface: ADBOpen, ADBWrite, ADBClose.        *)

ADBConnected    == adb_conn_state = "CONNECTED"
ADBChannelReady(h) ==
    adb_channels[h].state = "IDLE" /\ adb_channels[h].data = 0

FreeHandles == {h \in Handles : adb_channels[h].state = "FREE"}

\* remote_id keeps the value of the last use of the slot.
Opened(ch, id) ==
    [ch EXCEPT !.state = "START", !.ack = FALSE, !.data = 0, !.local = id]

\* The first free channel.
ADBOpen(h) ==
    /\ h \in FreeHandles /\ \A g \in FreeHandles : h <= g
    /\ adb_channels' =
          [adb_channels EXCEPT
             ![h] = Opened(@, LocalId(local_id_counter, h))]
    /\ local_id_counter' = local_id_counter + 1

ADBWrite(h, d) == adb_channels' = [adb_channels EXCEPT ![h].data = d]

ADBClose(h) ==
    adb_channels' =
        [adb_channels EXCEPT ![h].state = IF @ = "FREE" THEN @
                                          ELSE "CLOSE_REQUESTED"]

Holds(h) == app[h] # 0

\* The client no longer holds the channels hs.
GiveUp(hs) ==
    /\ app' = [h \in Handles |-> IF h \in hs THEN 0 ELSE app[h]]
    /\ got' = [h \in Handles |-> IF h \in hs THEN 0 ELSE got[h]]
    /\ wrote' = [h \in Handles |-> IF h \in hs THEN 0 ELSE wrote[h]]

\* The client runs after ConnADBTasks has seen the phone.
ClientRuns == pc = "idle" /\ attached /\ adb_state # "DISCONNECTED"

ClientOpen ==
    /\ ClientRuns /\ ADBConnected
    /\ local_id_counter <= MaxOpens
    /\ \E h \in Handles :
          /\ ADBOpen(h)
          /\ app' = [app EXCEPT ![h] = local_id_counter]
          /\ got' = [got EXCEPT ![h] = 0] /\ wrote' = [wrote EXCEPT ![h] = 0]
    /\ calls' = {}
    /\ UNCHANGED <<pc, attached, conn, adb_buffer_refcount, current_channel,
                   port, phone, count>>

ClientWrite ==
    /\ ClientRuns /\ MayWrite
    /\ \E h \in Handles :
          /\ Holds(h) /\ ADBChannelReady(h)
          /\ ADBWrite(h, NextData(wrote[h]))
          /\ wrote' = [wrote EXCEPT ![h] = NextData(@)]
    /\ calls' = {}
    /\ UNCHANGED <<pc, attached, conn, adb_buffer_refcount, local_id_counter,
                   current_channel, port, app, got, phone, count>>

ClientClose ==
    /\ ClientRuns
    /\ \E h \in Handles :
          /\ Holds(h) /\ adb_channels[h].state \in CloseStates
          /\ ADBClose(h)
          /\ GiveUp({h})
    /\ calls' = {}
    /\ UNCHANGED <<pc, attached, conn, adb_buffer_refcount, local_id_counter,
                   current_channel, port, phone, count>>

Client == ClientOpen \/ ClientWrite \/ ClientClose

----------------------------------------------------------------------------
(* The bus and the packet layer.                                           *)

\* The session of the daemon ends, and with it whatever was under way.
PhoneLost ==
    /\ adbd' = [adbd EXCEPT !.online = FALSE,
                            !.sockets = [r \in Opens |-> NoSocket]]
    /\ toDev' = <<>> /\ toHost' = <<>>

\* Enumeration takes many passes of the loop, so that a detachment has always
\* been seen by ConnADBTasks before the next attachment.
Attach ==
    /\ pc = "idle" /\ ~attached /\ adb_state = "DISCONNECTED"
    /\ sessions < MaxSessions
    /\ attached' = TRUE
    /\ sessions' = sessions + 1
    /\ calls' = {}
    /\ UNCHANGED <<pc, conn, host, port, owner, phone, errors>>

Detach ==
    /\ pc = "idle" /\ attached /\ MayDetach
    /\ attached' = FALSE
    /\ PhoneLost
    /\ calls' = {}
    /\ UNCHANGED <<pc, conn, host, port, owner, count>>

\* ADBPacketTasks runs, for ADBTasks calls it in these states only.
PortRuns ==
    /\ pc = "idle" /\ attached /\ adb_state # "DISCONNECTED"
    /\ adb_conn_state \in {"WAIT_CONNECT", "CONNECTED"}

SendDone ==
    /\ PortRuns /\ sendPort.state = "BUSY" /\ Len(toDev) < QueueCap
    /\ sendPort' = Settled("IDLE")
    /\ toDev' = Append(toDev, sendPort.pkt)
    /\ calls' = {}
    /\ UNCHANGED <<pc, attached, conn, host, recvPort, owner, adbd,
                   toHost, count>>

RecvDone ==
    /\ PortRuns /\ recvPort.state = "BUSY" /\ toHost # <<>>
    /\ recvPort' = [state |-> "IDLE", pkt |-> Head(toHost)]
    /\ toHost' = Tail(toHost)
    /\ calls' = {}
    /\ UNCHANGED <<pc, attached, conn, host, sendPort, owner, adbd,
                   toDev, count>>

\* A transfer fails, or what was received is not a well-formed packet.
SendFails ==
    /\ PortRuns /\ sendPort.state = "BUSY" /\ errors < MaxErrors
    /\ sendPort' = Settled("ERROR")
    /\ errors' = errors + 1
    /\ calls' = {}
    /\ UNCHANGED <<pc, attached, conn, host, recvPort, owner, phone,
                   sessions>>

RecvFails ==
    /\ PortRuns /\ recvPort.state = "BUSY" /\ errors < MaxErrors
    /\ recvPort' = Settled("ERROR")
    /\ errors' = errors + 1
    /\ calls' = {}
    /\ UNCHANGED <<pc, attached, conn, host, sendPort, owner, phone,
                   sessions>>

----------------------------------------------------------------------------
(* A pass of the loop enters ConnADBTasks.                                 *)

\* A client that watches ADBAttached gives up its channels in the same pass.
ConnDetached ==
    /\ pc = "idle" /\ ~attached
    /\ adb_state' = "DISCONNECTED"
    /\ IF DropOnDetach
         THEN GiveUp(Handles)
         ELSE UNCHANGED owner
    /\ calls' = {}
    /\ UNCHANGED <<pc, attached, adb_conn_state, host, port, phone, count>>

\* ADBInit clears the channels and calls nobody.
ADBInit ==
    /\ pc = "idle" /\ attached /\ adb_state = "DISCONNECTED"
    /\ adb_channels' = [h \in Handles |-> Free]
    /\ adb_conn_state' = "WAIT_ATTACH"
    /\ adb_state' = "INITIALIZING"
    /\ calls' = {}
    /\ UNCHANGED <<pc, attached, adb_buffer_refcount, local_id_counter,
                   current_channel, port, owner, phone, count>>

----------------------------------------------------------------------------
(* ADBTasks looks for a packet, ADBHandlePacket handles it.                *)

\* Without the restart.
UnrefOnce(connected) ==
    adb_buffer_refcount' = adb_buffer_refcount - 1 /\ UNCHANGED recvPort
\* if (adb_conn_state != CONNECTED) return; the last reference restarts the
\* reception.
Unref(connected) ==
    IF connected /\ adb_buffer_refcount = 1
      THEN /\ adb_buffer_refcount' = 1
           /\ recvPort' = Settled("BUSY")
      ELSE /\ adb_buffer_refcount' = adb_buffer_refcount - 1
           /\ UNCHANGED recvPort

\* ADBTasks is entered in a state of the connection it attends to.
InTasks == pc = "idle" /\ attached /\ adb_state # "DISCONNECTED"

\* A packet, or the failure of a packet, is there to be handled.
HasReceived ==
    /\ adb_conn_state \in {"WAIT_CONNECT", "CONNECTED"}
    /\ adb_buffer_refcount > 0 /\ recvPort.state # "BUSY"

ReceiveError ==
    /\ InTasks /\ HasReceived /\ recvPort.state = "ERROR"
    /\ adb_conn_state' = "ERROR"
    /\ Unref(FALSE)
    /\ pc' = "send"
    /\ calls' = {}
    /\ UNCHANGED <<attached, adb_state, adb_channels, local_id_counter,
                   current_channel, sendPort, owner, phone, count>>

\* ADBTasks hands p to ADBHandlePacket and then drops its reference.
Received(p) ==
    /\ InTasks /\ HasReceived /\ recvPort.state = "IDLE"
    /\ p = recvPort.pkt
    /\ pc' = "send"
    /\ UNCHANGED <<attached, adb_state, local_id_counter, current_channel,
                   sendPort, phone, count>>

\* The channel a packet is addressed to, by its full local id.
Addressed(p) == {h \in Handles : /\ h = HandleOf(p.arg1)
                                 /\ adb_channels[h].local = p.arg1}

\* The channels are gone and nobody is told.
NotifyNobody(hs) == calls' = {} /\ UNCHANGED <<app, got, wrote>>

\* recv_func(h, NULL, 0): the client learns that its channel is gone.
NotifyClosed(hs) ==
    /\ calls' = {[h |-> h, local |-> adb_channels[h].local, data |-> 0] :
                    h \in hs}
    /\ GiveUp(hs)

HandleCnxn ==
    /\ Received(recvPort.pkt) /\ recvPort.pkt.cmd = "CNXN"
    /\ adb_conn_state' = "CONNECTED"
    /\ Unref(TRUE)
    /\ calls' = {}
    /\ UNCHANGED <<adb_channels, owner>>

\* The channel is open, or what it wrote has arrived.
OnOkay(ch, remote) ==
    IF ch.state = "WAIT_OPEN"
      THEN [ch EXCEPT !.state = "IDLE", !.remote = remote]
    ELSE IF ch.state = "WAIT_READY" /\ ch.remote = remote
      THEN [ch EXCEPT !.state = "IDLE", !.data = 0]
    ELSE ch

HandleOkay ==
    LET p == recvPort.pkt IN
    /\ Received(p) /\ p.cmd = "OKAY"
    /\ adb_channels' =
          [h \in Handles |->
             IF h \in Addressed(p) THEN OnOkay(adb_channels[h], p.arg0)
             ELSE adb_channels[h]]
    /\ Unref(ADBConnected)
    /\ calls' = {}
    /\ UNCHANGED <<adb_conn_state, owner>>

Reported     == {"WAIT_OPEN", "WAIT_READY", "IDLE"}
ClosingSent  == {"WAIT_CLOSE"}                  \* once CLSE was sent
Closing      == {"CLOSE_REQUESTED", "WAIT_CLOSE"}

\* In FREE and START the packet is ignored.
HandleClse ==
    LET p     == recvPort.pkt
        In(S) == {h \in Addressed(p) : adb_channels[h].state \in S}
        lost  == In(Reported) IN
    /\ Received(p) /\ p.cmd = "CLSE"
    /\ adb_channels' =
          [h \in Handles |->
             IF h \in lost \union In(Closing)
               THEN [adb_channels[h] EXCEPT !.state = "FREE"]
               ELSE adb_channels[h]]
    /\ NotifyClosed(lost)
    /\ Unref(ADBConnected)
    /\ UNCHANGED adb_conn_state

\* Only a channel with nothing under way passes its data on.
TakesIdle(ch) == ch.state = "IDLE"
Takes(ch)     == ch.state \notin Closing

\* Data reaches the client unless its channel is being closed; it is
\* acknowledged in any case.
HandleWrte ==
    LET p  == recvPort.pkt
        hs == {h \in Addressed(p) : adb_channels[h].remote = p.arg0}
        ds == {h \in hs : Takes(adb_channels[h])} IN
    /\ Received(p) /\ p.cmd = "WRTE"
    /\ adb_channels' = [h \in Handles |->
          [adb_channels[h] EXCEPT !.ack = @ \/ h \in hs]]
    /\ calls' = {[h |-> h, local |-> p.arg1, data |-> p.data] :
                    h \in ds}
    /\ got' = [h \in Handles |-> IF h \in ds /\ Holds(h) THEN p.data
                                 ELSE got[h]]
    /\ Unref(ADBConnected)
    /\ UNCHANGED <<adb_conn_state, app, wrote>>

\* ADB_OPEN and whatever ADBHandlePacket does not know.
HandleOther ==
    /\ Received(recvPort.pkt) /\ recvPort.pkt.cmd \in {"OPEN", "OTHER"}
    /\ Unref(ADBConnected)
    /\ calls' = {}
    /\ UNCHANGED <<adb_conn_state, adb_channels, owner>>

Receive ==
    \/ ReceiveError
    \/ HandleCnxn \/ HandleOkay \/ HandleClse \/ HandleWrte \/ HandleOther

----------------------------------------------------------------------------
(* ADBTasks acts on the state of the connection.                           *)

\* The second half follows a handled packet, or starts the pass if there is
\* none.
AtSwitch == pc = "send" \/ (InTasks /\ ~HasReceived)

StartSend(p) == sendPort' = [state |-> "BUSY", pkt |-> p]

\* ConnADBTasks follows the result of ADBTasks, ADBConnected() afterwards.
Returns(connected) ==
    adb_state' = IF connected THEN "INITIALIZED" ELSE "INITIALIZING"

\* The reception is started, but not counted as a reference.
StartRecvUncounted ==
    UNCHANGED adb_buffer_refcount /\ recvPort' = Settled("BUSY")
StartRecv ==
    adb_buffer_refcount' = 1 /\ recvPort' = Settled("BUSY")

Connect ==
    /\ AtSwitch /\ adb_conn_state = "WAIT_ATTACH"
    /\ StartRecv
    /\ StartSend(Packet("CNXN", 0, 0, 0))
    /\ adb_conn_state' = "WAIT_CONNECT"
    /\ Returns(FALSE)
    /\ pc' = "idle"
    /\ calls' = {}
    /\ UNCHANGED <<attached, adb_channels, local_id_counter, current_channel,
                   owner, phone, count>>

AwaitConnect ==
    /\ AtSwitch /\ adb_conn_state = "WAIT_CONNECT"
    /\ Returns(FALSE)
    /\ pc' = "idle"
    /\ calls' = {}
    /\ UNCHANGED <<attached, adb_conn_state, host, port, owner, phone,
                   count>>

\* A channel ADBChannelTasks has something to send for.
Pending(ch) ==
    \/ ch.state \in {"START", "CLOSE_REQUESTED"}
    \/ ch.state # "FREE" /\ ch.ack
    \/ ch.state = "IDLE" /\ ch.data # 0

\* Always from the first channel on.
AfterFirst(i) == i - 1

\* The handle i places after current_channel, and the first pending one.
After(i)   == IF current_channel + i < MaxChannels THEN current_channel + i
              ELSE current_channel + i - MaxChannels
PendingAt  == {i \in 1 .. MaxChannels : Pending(adb_channels[After(i)])}

\* What is sent for a pending channel, and the channel afterwards: opening it
\* comes first, an acknowledgement before a closure, data last.
Message(ch) ==
    CASE ch.state = "START" -> Packet("OPEN", ch.local, 0, 0)
      [] ch.state # "START" /\ ch.ack -> Packet("OKAY", ch.local, ch.remote, 0)
      [] ch.state = "CLOSE_REQUESTED" /\ ~ch.ack ->
            Packet("CLSE", ch.local, ch.remote, 0)
      [] OTHER -> Packet("WRTE", ch.local, ch.remote, ch.data)

ServedUnreset(ch) ==
    CASE ch.state = "START" -> [ch EXCEPT !.state = "WAIT_OPEN"]
      [] ch.state # "START" /\ ch.ack -> ch
      [] ch.state = "CLOSE_REQUESTED" /\ ~ch.ack ->
            [ch EXCEPT !.state = "WAIT_CLOSE"]
      [] OTHER -> [ch EXCEPT !.state = "WAIT_READY"]
ServedTwice(ch) ==
    IF ch.state = "IDLE" /\ ~ch.ack THEN ch ELSE
    CASE ch.state = "START" -> [ch EXCEPT !.state = "WAIT_OPEN"]
      [] ch.state # "START" /\ ch.ack -> [ch EXCEPT !.ack = FALSE]
      [] OTHER -> [ch EXCEPT !.state = "WAIT_CLOSE"]

Served(ch) ==
    CASE ch.state = "START" -> [ch EXCEPT !.state = "WAIT_OPEN"]
      [] ch.state # "START" /\ ch.ack -> [ch EXCEPT !.ack = FALSE]
      [] ch.state = "CLOSE_REQUESTED" /\ ~ch.ack ->
            [ch EXCEPT !.state = "WAIT_CLOSE"]
      [] OTHER -> [ch EXCEPT !.state = "WAIT_READY"]

ServeChannel ==
    /\ AtSwitch /\ adb_conn_state = "CONNECTED"
    /\ sendPort.state = "IDLE"
    /\ \E i \in PendingAt :
          LET h == After(i) IN
          /\ \A j \in PendingAt : i <= j
          /\ StartSend(Message(adb_channels[h]))
          /\ adb_channels' = [adb_channels EXCEPT ![h] = Served(@)]
          /\ current_channel' = h
    /\ Returns(TRUE)
    /\ pc' = "idle"
    /\ calls' = {}
    /\ UNCHANGED <<attached, adb_conn_state, adb_buffer_refcount,
                   local_id_counter, recvPort, owner, phone, count>>

NothingToSend ==
    /\ AtSwitch /\ adb_conn_state = "CONNECTED"
    /\ sendPort.state = "BUSY" \/ (sendPort.state = "IDLE" /\ PendingAt = {})
    /\ Returns(TRUE)
    /\ pc' = "idle"
    /\ calls' = {}
    /\ UNCHANGED <<attached, adb_conn_state, host, port, owner, phone,
                   count>>

\* The error is acted upon in the next pass, if the phone is still there.
SendError ==
    /\ AtSwitch /\ adb_conn_state = "CONNECTED" /\ sendPort.state = "ERROR"
    /\ adb_conn_state' = "ERROR"
    /\ Returns(FALSE)
    /\ pc' = "idle"
    /\ calls' = {}
    /\ UNCHANGED <<attached, host, port, owner, phone, count>>

\* ADBReset reports every channel, whoever closed it; -1 makes ConnADBTasks
\* reset the USB device, which has to attach again.
ADBReset ==
    /\ AtSwitch /\ adb_conn_state = "ERROR"
    /\ NotifyClosed({h \in Handles : adb_channels[h].state # "FREE"})
    /\ adb_channels' = [h \in Handles |-> Free]
    /\ adb_buffer_refcount' = 0
    /\ adb_conn_state' = "WAIT_ATTACH"
    /\ attached' = FALSE
    /\ pc' = "idle"
    /\ PhoneLost
    /\ UNCHANGED <<adb_state, local_id_counter, current_channel, port, count>>

Send ==
    \/ Connect \/ AwaitConnect
    \/ ServeChannel \/ NothingToSend \/ SendError
    \/ ADBReset

----------------------------------------------------------------------------
(* The daemon on the phone.                                                *)

Reply(p)   == toHost' = Append(toHost, p)
IsOpen(r)  == r \in Opens /\ adbd.sockets[r].open

AdbdStep ==
    /\ pc = "idle" /\ attached
    /\ calls' = {}
    /\ UNCHANGED <<pc, attached, conn, host, port, owner, count>>

\* It reads the next packet p while its answer has room.
AdbdReads(p) ==
    /\ AdbdStep
    /\ toDev # <<>> /\ p = Head(toDev) /\ Len(toHost) < QueueCap
    /\ toDev' = Tail(toDev)

AdbdCnxn ==
    /\ toDev # <<>> /\ Head(toDev).cmd = "CNXN"
    /\ AdbdReads(Head(toDev))
    /\ \/ toHost' = Append(toHost, Packet("CNXN", 0, 0, 0))
       \/ /\ ForeignFirst
          /\ toHost' = toHost \o <<Packet("OTHER", 0, 0, 0),
                                   Packet("CNXN", 0, 0, 0)>>
    /\ adbd' = [adbd EXCEPT !.online = TRUE]

\* It accepts the channel under an id of its own, or refuses it.
AdbdOpen ==
    /\ toDev # <<>> /\ Head(toDev).cmd = "OPEN" /\ adbd.online
    /\ adbd.next <= MaxOpens
    /\ AdbdReads(Head(toDev))
    /\ LET p == Head(toDev)
           r == adbd.next IN
       \/ /\ Reply(Packet("OKAY", r, p.arg0, 0))
          /\ adbd' = [adbd EXCEPT
                !.next = r + 1,
                !.sockets[r] = [NoSocket EXCEPT !.local = p.arg0,
                                                !.open = TRUE]]
       \/ /\ Reply(Packet("CLSE", 0, p.arg0, 0))
          /\ UNCHANGED adbd

AdbdWrte ==
    /\ toDev # <<>> /\ Head(toDev).cmd = "WRTE"
    /\ AdbdReads(Head(toDev))
    /\ LET p == Head(toDev) IN
       IF IsOpen(p.arg1)
         THEN /\ Reply(Packet("OKAY", p.arg1, p.arg0, 0))
              /\ adbd' = [adbd EXCEPT !.sockets[p.arg1].read = p.data]
         ELSE UNCHANGED <<adbd, toHost>>

AdbdOkay ==
    /\ toDev # <<>> /\ Head(toDev).cmd = "OKAY"
    /\ AdbdReads(Head(toDev))
    /\ LET p == Head(toDev) IN
       adbd' = IF IsOpen(p.arg1)
                 THEN [adbd EXCEPT !.sockets[p.arg1].unacked = FALSE]
                 ELSE adbd
    /\ UNCHANGED toHost

\* A socket that gets closed answers CLSE with a zero id, an unknown one does
\* not answer.
AdbdClse ==
    /\ toDev # <<>> /\ Head(toDev).cmd = "CLSE"
    /\ AdbdReads(Head(toDev))
    /\ LET p == Head(toDev) IN
       IF IsOpen(p.arg1)
         THEN /\ Reply(Packet("CLSE", 0, p.arg0, 0))
              /\ adbd' = [adbd EXCEPT !.sockets[p.arg1] = NoSocket]
         ELSE UNCHANGED <<adbd, toHost>>

\* It sends on an open socket once its last data was acknowledged.
AdbdSend ==
    /\ AdbdStep /\ Len(toHost) < QueueCap
    /\ \E r \in Opens :
          LET k == adbd.sockets[r] IN
          /\ IsOpen(r) /\ ~k.unacked
          /\ Reply(Packet("WRTE", r, k.local, NextData(k.sent)))
          /\ adbd' = [adbd EXCEPT !.sockets[r].sent = NextData(@),
                                  !.sockets[r].unacked = TRUE]
    /\ UNCHANGED toDev

\* The server on the phone closes its end.
AdbdClose ==
    /\ AdbdStep /\ Len(toHost) < QueueCap
    /\ \E r \in Opens :
          /\ IsOpen(r)
          /\ Reply(Packet("CLSE", 0, adbd.sockets[r].local, 0))
          /\ adbd' = [adbd EXCEPT !.sockets[r] = NoSocket]
    /\ UNCHANGED toDev

Answer == AdbdCnxn \/ AdbdOpen \/ AdbdWrte \/ AdbdOkay \/ AdbdClse

----------------------------------------------------------------------------
Bus  == SendDone \/ RecvDone \/ SendFails \/ RecvFails
Loop ==
    \/ ConnDetached \/ ADBInit
    \/ Receive \/ Send

Next ==
    \/ Attach \/ Detach
    \/ Bus
    \/ Answer \/ AdbdSend \/ AdbdClose
    \/ Loop
    \/ Client

Spec == Init /\ [][Next]_vars

\* The loop never stops; the bus finishes the transfers it was given (or
\* reports them failed), for the hardware retries and times out; the daemon
\* answers what it reads.  Nothing forces the client, the server on the phone
\* or the cable.
Fairness ==
    /\ WF_vars(Loop)
    /\ SF_vars(SendDone \/ SendFails) /\ SF_vars(RecvDone \/ RecvFails)
    /\ SF_vars(Answer)

FairSpec == Spec /\ Fairness

----------------------------------------------------------------------------
(* Properties.                                                             *)

\* A channel the client holds is in use and still the one it opened: it is not
\* cleared, nor given to another opening, without the client being told
\* (adb.h "They will be notified of the closure").
HeldIsLive ==
    \A h \in Handles :
        Holds(h) => /\ adb_channels[h].state # "FREE"
                    /\ adb_channels[h].local = LocalId(app[h], h)

\* Data that reaches a callback was sent on the opening the client holds, and
\* is the next it has not had: nothing of an earlier use of the slot, nothing
\* twice, nothing out of order.
InOrderDelivery ==
    [][\A c \in calls' :
          c.data > 0 => /\ c.local = LocalId(app[c.h], c.h)
                        /\ c.data = NextData(got[c.h])]_vars

\* What the client wrote reaches the daemon once and in order: a WRTE an open
\* socket is about to read carries the data after the last it has read.
InOrderWrites ==
    LET p == Head(toDev) IN
    toDev # <<>> /\ p.cmd = "WRTE" /\ IsOpen(p.arg1) =>
        p.data = NextData(adbd.sockets[p.arg1].read)

\* Where a packet is that is, or will lead to, an acknowledgement for socket r.
AcksUnderWay(r) ==
    LET Wrte(p) == p.cmd = "WRTE" /\ p.arg0 = r
        Okay(p) == p.cmd = "OKAY" /\ p.arg1 = r IN
    {<<"toHost", i>> : i \in {j \in DOMAIN toHost : Wrte(toHost[j])}}
    \union {<<"toDev", i>> : i \in {j \in DOMAIN toDev : Okay(toDev[j])}}
    \union {<<"ack", h>> : h \in {g \in Handles : adb_channels[g].ack
                                          /\ adb_channels[g].remote = r}}
    \union (IF recvPort.state = "IDLE" /\ Wrte(recvPort.pkt)
              THEN {<<"recvPort", 0>>} ELSE {})
    \union (IF sendPort.state = "BUSY" /\ Okay(sendPort.pkt)
              THEN {<<"sendPort", 0>>} ELSE {})

\* Flow control: an acknowledgement is under way for an open socket only when
\* the daemon waits for one, and then only one.
NoSpuriousAck ==
    \A r \in Opens :
        IsOpen(r) =>
            Cardinality(AcksUnderWay(r))
                <= (IF adbd.sockets[r].unacked THEN 1 ELSE 0)

\* The receiver never stops while there is a connection: one reference keeps
\* the reception going (adb.c:131-143).
ReceiverArmed ==
    attached /\ adb_state # "DISCONNECTED" /\ ADBConnected
        => adb_buffer_refcount = 1

Opening(n) == \E h \in Handles :
    app[h] = n /\ adb_channels[h].state \in {"START", "WAIT_OPEN"}

\* adb.h "The open request will result in either a "ready" state or a close
\* indication": no opening stays undecided, however busy the other channels.
OpenResolves == \A n \in Opens : Opening(n) ~> ~Opening(n)

\* A channel the client closed, with no data of the daemon left to acknowledge.
\* An acknowledgement goes before the closure, and may do so again as long as
\* the daemon keeps sending.
MayFinish(h) ==
    /\ adb_channels[h].state \in {"CLOSE_REQUESTED", "WAIT_CLOSE"}
    /\ \A r \in Opens :
          IsOpen(r) /\ adbd.sockets[r].local = adb_channels[h].local
              => ~adbd.sockets[r].unacked

\* The daemon's CLSE for channel h is on its way, or will answer the channel's,
\* which names its socket.  A channel that was closed before the OKAY to its
\* OPEN was handled does not know that socket: ADBHandlePacket drops an OKAY
\* outside WAIT_OPEN (adb.c:198), and CLSE goes out with the id of the slot's
\* last use (adb.c:170), which the daemon does not answer.
ClosureAnswered(h) ==
    LET ch == adb_channels[h]
        Clse(p) == p.cmd = "CLSE" /\ p.arg1 = ch.local IN
    \/ IsOpen(ch.remote) /\ adbd.sockets[ch.remote].local = ch.local
    \/ \E i \in DOMAIN toHost : Clse(toHost[i])
    \/ recvPort.state = "IDLE" /\ Clse(recvPort.pkt)

\* adb.h "The actual close will happen shortly after calling this function":
\* a slot the client gave up, at whatever point, becomes free again if its
\* closure is answered.
CloseCompletes == \A h \in Handles : (MayFinish(h) /\ ClosureAnswered(h)) ~> ~MayFinish(h)

=============================================================================
