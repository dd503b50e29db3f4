----------------------------- MODULE Connection -----------------------------
(***************************************************************************)
(* The connection layer (connection.c), with the Open Accessory channel    *)
(* (accessory.c) over the Android driver (usb_host_android.c).  ADB and    *)
(* Bluetooth are modules of their own; here they are attached, give their  *)
(* results, and may be accepting.                                          *)
(*                                                                         *)
(* The main loop calls ConnectionTasks and then the client: turn is the    *)
(* part that is next.  The device and the interrupt go on all the time.    *)
(*                                                                         *)
(* The phone's app is external.  It asks for the channel with a packet,    *)
(* hears a byte, 1 when the channel is open and 0 when it is not, and then *)
(* sends its data, which are numbered here, and packets that say nothing.  *)
(***************************************************************************)
EXTENDS Integers, Sequences

CONSTANTS
    Devices,    \* what may be plugged in: sets of interfaces
    EnumPasses, \* passes of the loop an enumeration takes at least
    PipeCap,    \* packets the phone's side of the USB pipe holds
    MaxData,    \* bound on the packets with data
    MaxPlugs,   \* bound on the devices that are plugged in
    MaxErrors,  \* bound on the transfers that fail
    Careful     \* a client that asks for its interface first in each pass

ASSUME ConnectionAssumption ==
    /\ Devices \subseteq SUBSET {"ACC", "ADB", "BT"}
    /\ {} \notin Devices
    /\ EnumPasses \in Nat /\ EnumPasses >= 2
    /\ {PipeCap, MaxData, MaxPlugs, MaxErrors} \subseteq Nat
    /\ Careful \in BOOLEAN

VARIABLES
    turn,       \* the part of the main loop that is next
    usb,        \* port: what is plugged in; attached: what the drivers have;
                \* passes: for how long there is nothing
    acc,        \* the ACC interface of gc_DevData, and its two endpoints
    chan,       \* channel_state and is_channel_open in accessory.c
    conn,       \* acc_state, adb_state and bt_state in connection.c
    adb,        \* adb_conn_state
    client,     \* of the accessory channel: its state, and the last it heard
    app,        \* the phone's app: its state, the pipe, and the last it sent
    failed,     \* the assertions that failed
    errors,     \* counted for the bounds
    plugs
vars == <<turn, usb, acc, chan, conn, adb, client, app, failed, errors, plugs>>

NoPacket == 0
Ask      == -1      \* packets that are no data
Ping     == -2
NoAcc    == [rxBusy |-> FALSE, rx |-> NoPacket, rxError |-> FALSE,
             txBusy |-> FALSE, txError |-> FALSE,
             in |-> "idle", got |-> NoPacket, out |-> "idle", what |-> "data"]

Attached(i)  == i \in usb.attached
Assert(S)    == failed' = failed \union S
Unless(p, a) == IF p THEN {} ELSE {a}
Fault        == errors < MaxErrors /\ errors' = errors + 1

\* gc_DevData is cleared; the device goes, and its app finds the pipe closed.
Cleared ==
    /\ usb' = [usb EXCEPT !.attached = {}, !.passes = 0]
    /\ acc' = NoAcc
    /\ app' = [app EXCEPT !.state = "closed", !.pipe = <<>>]

(***************************************************************************)
(* USBHostAndroidRead and USBHostAndroidWrite: a busy endpoint is left as  *)
(* it is, and one that has failed takes no transfer.                       *)
(***************************************************************************)
Read(d) ==
    CASE d.rxBusy        -> d
      [] d.in = "failed" -> [d EXCEPT !.rx = NoPacket]
      [] OTHER           -> [d EXCEPT !.rxBusy = TRUE, !.rx = NoPacket, !.in = "busy"]
Write(d, what) ==
    IF d.txBusy \/ d.out = "failed" THEN d
    ELSE [d EXCEPT !.txBusy = TRUE, !.out = "busy", !.what = what]

\* USBHostAndroidTasks: what has become of the transfers.  (Mutant: of the
\* read only.)
PolledRead(d) ==
    IF d.rxBusy /\ d.in # "busy"
      THEN [d EXCEPT !.rxBusy = FALSE, !.rx = d.got, !.got = NoPacket,
                     !.rxError = d.in = "failed"]
      ELSE d
Polled(d) ==
    IF d.txBusy /\ d.out # "busy"
      THEN [PolledRead(d) EXCEPT !.txBusy = FALSE, !.txError = d.out = "failed"]
      ELSE PolledRead(d)

(***************************************************************************)
(* ConnectionTasks, part by part.                                          *)
(***************************************************************************)
Turn(a, b) == turn = a /\ turn' = b

\* USBHostTasks and the driver's: a device that has gone is noticed, one that
\* is there is enumerated at last, and may take its time.
USBTasks ==
    /\ Turn("usb", "bt")
    /\ CASE usb.attached # {} /\ usb.port = {} -> Cleared
         [] usb.attached # {} /\ usb.port # {} ->
              acc' = Polled(acc) /\ UNCHANGED <<usb, app>>
         [] usb.attached = {} ->
              /\ \/ /\ usb.port # {} /\ usb.passes = EnumPasses
                    /\ usb' = [usb EXCEPT !.attached = usb.port]
                 \/ usb' = [usb EXCEPT !.passes = IF @ = EnumPasses THEN @ ELSE @ + 1]
              /\ UNCHANGED <<acc, app>>
    /\ UNCHANGED <<chan, conn, adb, client, failed, errors, plugs>>

BTTasks ==
    /\ Turn("bt", "adb")
    /\ \E accepting \in BOOLEAN :
          conn' = [conn EXCEPT !.bt =
                     CASE ~Attached("BT")                     -> "DISCONNECTED"
                       [] Attached("BT") /\ @ = "DISCONNECTED" -> "INITIALIZING"
                       [] OTHER -> IF accepting THEN "INITIALIZED" ELSE "INITIALIZING"]
    /\ UNCHANGED <<usb, acc, chan, adb, client, app, failed, errors, plugs>>

\* The results of ADBTasks: after an error it starts again, and the device is
\* reset, but not the state of the interface.
ADBWorks ==
    \E s \in IF adb = "WAIT_CONNECT" THEN {"WAIT_CONNECT", "CONNECTED"}
             ELSE IF adb = "WAIT_ATTACH" THEN {"WAIT_CONNECT"} ELSE {adb} :
       /\ adb' = s
       /\ conn' = [conn EXCEPT !.adb = IF s = "CONNECTED" THEN "INITIALIZED"
                                       ELSE "INITIALIZING"]
ADBTasks ==
    /\ Turn("adb", "acc")
    /\ \/ /\ \/ /\ ~Attached("ADB")
                /\ conn' = [conn EXCEPT !.adb = "DISCONNECTED"] /\ UNCHANGED adb
             \/ /\ Attached("ADB") /\ conn.adb = "DISCONNECTED"
                /\ conn' = [conn EXCEPT !.adb = "INITIALIZING"] /\ adb' = "WAIT_ATTACH"
             \/ Attached("ADB") /\ conn.adb # "DISCONNECTED" /\ ADBWorks
          /\ UNCHANGED <<usb, acc, app, errors>>
       \/ /\ Attached("ADB") /\ conn.adb # "DISCONNECTED" /\ adb # "WAIT_ATTACH"
          /\ Fault /\ adb' = "WAIT_ATTACH"
          /\ Cleared /\ UNCHANGED conn
    /\ UNCHANGED <<chan, client, failed, plugs>>

(***************************************************************************)
(* AccessoryTasks, with what ConnAccessoryTasks makes of its result.       *)
(***************************************************************************)
\* (Mutant: the channel may be opened while the last one is closing.)
GoesEarly(d, c, client_) ==
    /\ acc' = d /\ chan' = c /\ client' = client_
    /\ conn' = [conn EXCEPT !.acc = IF c.state \in {"INIT", "WAIT_CLOSED"} THEN "INITIALIZED"
                                    ELSE "INITIALIZING"]
    /\ UNCHANGED <<usb, app>>
AccGoes(d, c, client_) ==
    /\ acc' = d /\ chan' = c /\ client' = client_
    /\ conn' = [conn EXCEPT !.acc = IF c.state = "INIT" THEN "INITIALIZED"
                                    ELSE "INITIALIZING"]
    /\ UNCHANGED <<usb, app>>
AccFails == Cleared /\ UNCHANGED <<chan, client, conn>>

Init1 == AccGoes(Read(acc), [chan EXCEPT !.state = "WAIT_OPEN"], client)
\* Whatever comes is a request.
WaitOpen ==
    IF chan.open
      THEN AccGoes(Read(Write(acc, "answer")), [chan EXCEPT !.state = "OPEN"], client)
      ELSE AccGoes(Write(acc, "answer"), [chan EXCEPT !.state = "WAIT_CLOSED"], client)
\* AccessoryCloseChannel.  (Mutant: is_channel_open is left.)
ClosedOnly(c) == [c EXCEPT !.state = "WAIT_CLOSED"]
Closed(c) == [c EXCEPT !.open = FALSE, !.state = "WAIT_CLOSED"]
\* The client may close the channel from within its callback.
Heard == [client EXCEPT !.heard = IF acc.rx > 0 THEN acc.rx ELSE @, !.knows = TRUE]
\* (Mutant: nothing is read after data.)
OpenOnce ==
    AccGoes(IF acc.rx = NoPacket THEN Read(acc) ELSE acc, chan,
            IF acc.rx = NoPacket THEN client ELSE Heard)
Open ==
    \/ /\ acc.rx # NoPacket
       /\ \/ AccGoes(Read(acc), chan, Heard)
          \/ AccGoes(acc, Closed(chan), [Heard EXCEPT !.state = "closing"])
    \/ acc.rx = NoPacket /\ AccGoes(Read(acc), chan, client)
WaitClosed ==
    AccGoes(acc, [chan EXCEPT !.state = "INIT"],
            [client EXCEPT !.state = IF @ = "closing" THEN "none" ELSE @])

AccessoryTasks ==
    LET s     == chan.state
        ready == (s \in {"WAIT_OPEN", "OPEN"} /\ ~acc.rxBusy) \/ (s = "WAIT_CLOSED" /\ ~acc.txBusy)
        error == IF s = "WAIT_CLOSED" THEN acc.txError ELSE acc.rxError
    IN  CASE s = "INIT"      -> Init1
          [] ready /\ error  -> AccFails
          [] ready /\ ~error /\ s = "WAIT_OPEN"   -> WaitOpen
          [] ready /\ ~error /\ s = "OPEN"        -> Open
          [] ready /\ ~error /\ s = "WAIT_CLOSED" -> WaitClosed
          [] OTHER           -> AccGoes(acc, chan, client)

ConnAccessoryTasks ==
    /\ Turn("acc", "client")
    /\ CASE conn.acc = "DISCONNECTED" /\ Attached("ACC") ->
              /\ chan' = [state |-> "INIT", open |-> FALSE]
              /\ conn' = [conn EXCEPT !.acc = "INITIALIZING"]
              /\ UNCHANGED <<usb, acc, client, app>>
         [] conn.acc = "DISCONNECTED" /\ ~Attached("ACC") ->
              UNCHANGED <<usb, acc, chan, conn, client, app>>
         [] conn.acc # "DISCONNECTED" /\ Attached("ACC") -> AccessoryTasks
         [] conn.acc # "DISCONNECTED" /\ ~Attached("ACC") ->
              \* AccessoryShutdown: the callback is forgotten.
              /\ conn' = [conn EXCEPT !.acc = "DISCONNECTED"]
              /\ UNCHANGED <<usb, acc, chan, client, app>>
    /\ UNCHANGED <<adb, failed, errors, plugs>>

(***************************************************************************)
(* The client of the channels, once in a pass.                             *)
(***************************************************************************)
\* A client that wants the channel opens it as soon as it can.
CanOpenAcc == client.state = "none" /\ conn.acc = "INITIALIZED"
MayUse     == client.state = "open" /\ (Careful => Attached("ACC"))
Connected  == adb = "CONNECTED"

ClientOpens ==
    /\ CanOpenAcc
    /\ chan' = [chan EXCEPT !.open = TRUE]
    /\ client' = [client EXCEPT !.state = "open", !.knows = FALSE]
    /\ Assert(Unless(chan.state \in {"INIT", "WAIT_OPEN"}, "accessory.c:95"))
    /\ UNCHANGED <<usb, acc, conn, adb, app, errors, plugs>>

\* ConnectionCanSend, and then ConnectionSend.  ConnectionCanSend resets a
\* device that did not take the last write and says TRUE all the same, so that
\* ConnectionSend finds no device: that assertion goes by a name of its own.
AfterReset == "usb_host_android.c:252 after accessory.c:123"
ClientSends ==
    /\ MayUse /\ chan.state = "OPEN" /\ ~acc.txBusy
    /\ client' = [client EXCEPT !.knows = TRUE]
    /\ IF acc.txError
         THEN /\ Cleared
              /\ Assert({AfterReset}
                        \union Unless(usb.attached # {}, "usb_host_android.c:168"))
         ELSE /\ acc' = Write(acc, "data")
              /\ Assert(Unless(Attached("ACC"), "usb_host_android.c:252"))
              /\ UNCHANGED <<usb, app>>
    /\ UNCHANGED <<chan, conn, adb, errors, plugs>>

ClientAsks ==
    /\ MayUse /\ (chan.state # "OPEN" \/ acc.txBusy)
    /\ Assert(Unless(chan.state # "WAIT_CLOSED", "accessory.c:118"))
    /\ UNCHANGED <<usb, acc, chan, conn, adb, client, app, errors, plugs>>

ClientCloses ==
    /\ MayUse /\ client.knows
    /\ chan' = Closed(chan)
    /\ client' = [client EXCEPT !.state = "closing"]
    /\ Assert(Unless(chan.state = "OPEN", "accessory.c:104"))
    /\ UNCHANGED <<usb, acc, conn, adb, app, errors, plugs>>

\* The channel has gone with the device.
ClientDrops ==
    /\ Careful /\ client.state # "none" /\ ~Attached("ACC")
    /\ client' = [client EXCEPT !.state = "none"]
    /\ UNCHANGED <<usb, acc, chan, conn, adb, app, failed, errors, plugs>>

\* ConnectionOpenChannelAdb, once ConnectionCanOpenChannel says that it may.
ClientOpensAdb ==
    /\ conn.adb = "INITIALIZED" /\ ~CanOpenAcc
    /\ Careful => Connected
    /\ Assert(Unless(Connected, "connection.c:219"))
    /\ UNCHANGED <<usb, acc, chan, conn, adb, client, app, errors, plugs>>

ClientIdles ==
    /\ ~CanOpenAcc
    /\ Careful => client.state = "none" \/ Attached("ACC")
    /\ UNCHANGED <<usb, acc, chan, conn, adb, client, app, failed, errors, plugs>>

Client ==
    /\ Turn("client", "usb")
    /\ \/ ClientOpens \/ ClientSends \/ ClientAsks \/ ClientCloses
       \/ ClientDrops \/ ClientOpensAdb \/ ClientIdles

(***************************************************************************)
(* The device, its app, and the interrupt.                                 *)
(***************************************************************************)
Others == <<turn, chan, conn, adb, client, failed>>

Plug ==
    /\ usb.port = {} /\ usb.attached = {} /\ plugs < MaxPlugs
    /\ \E d \in Devices : usb' = [usb EXCEPT !.port = d, !.passes = 0]
    /\ plugs' = plugs + 1
    /\ UNCHANGED <<acc, app, errors>> /\ UNCHANGED Others
Unplug ==
    /\ usb.port # {}
    /\ usb' = [usb EXCEPT !.port = {}]
    /\ UNCHANGED <<acc, app, errors, plugs>> /\ UNCHANGED Others

There == Attached("ACC") /\ usb.port # {}
AppPuts(p) == app' = [app EXCEPT !.pipe = Append(@, p)]
AppAsks ==
    /\ There /\ app.state = "closed" /\ Len(app.pipe) < PipeCap
    /\ app' = [app EXCEPT !.pipe = Append(@, Ask), !.state = "asking"]
    /\ UNCHANGED <<usb, acc, errors, plugs>> /\ UNCHANGED Others
\* The read that a closed channel left behind may have taken the request.
AppAsksAgain ==
    /\ There /\ app.state = "asking" /\ app.pipe = <<>>
    /\ AppPuts(Ask)
    /\ UNCHANGED <<usb, acc, errors, plugs>> /\ UNCHANGED Others
AppPings ==
    /\ There /\ app.state = "open" /\ app.pipe = <<>>
    /\ AppPuts(Ping)
    /\ UNCHANGED <<usb, acc, errors, plugs>> /\ UNCHANGED Others
AppSends ==
    /\ There /\ app.state = "open" /\ app.sent < MaxData /\ Len(app.pipe) < PipeCap
    /\ app' = [app EXCEPT !.pipe = Append(@, app.sent + 1), !.sent = @ + 1]
    /\ UNCHANGED <<usb, acc, errors, plugs>> /\ UNCHANGED Others

InDone ==
    /\ There /\ acc.in = "busy" /\ app.pipe # <<>>
    /\ acc' = [acc EXCEPT !.in = "idle", !.got = Head(app.pipe)]
    /\ app' = [app EXCEPT !.pipe = Tail(@)]
    /\ UNCHANGED <<usb, errors, plugs>> /\ UNCHANGED Others
\* The answer is read when it is sent: it is in is_channel_open until then.
OutDone ==
    /\ There /\ acc.out = "busy"
    /\ acc' = [acc EXCEPT !.out = "idle"]
    /\ app' = [app EXCEPT !.state =
                 CASE acc.what = "answer" /\ ~chan.open -> "closed"
                   [] acc.what = "answer" /\ chan.open /\ @ = "asking" -> "open"
                   [] OTHER -> @]
    /\ UNCHANGED <<usb, errors, plugs>> /\ UNCHANGED Others
TransferFails ==
    /\ There /\ Fault
    /\ \/ acc.in = "busy" /\ acc' = [acc EXCEPT !.in = "failed"]
       \/ acc.out = "busy" /\ acc' = [acc EXCEPT !.out = "failed"]
    /\ UNCHANGED <<usb, app, plugs>> /\ UNCHANGED Others

Init ==
    /\ turn = "usb"
    /\ usb = [port |-> {}, attached |-> {}, passes |-> 0]
    /\ acc = NoAcc
    /\ chan = [state |-> "INIT", open |-> FALSE]
    /\ conn = [acc |-> "DISCONNECTED", adb |-> "DISCONNECTED", bt |-> "DISCONNECTED"]
    /\ adb = "WAIT_ATTACH"
    /\ client = [state |-> "none", knows |-> FALSE, heard |-> 0]
    /\ app = [state |-> "closed", pipe |-> <<>>, sent |-> 0]
    /\ failed = {} /\ errors = 0 /\ plugs = 0

Loop == USBTasks \/ BTTasks \/ ADBTasks \/ ConnAccessoryTasks \/ Client
World == Plug \/ Unplug \/ AppAsks \/ AppAsksAgain \/ AppPings \/ AppSends \/ InDone \/ OutDone
           \/ TransferFails
Next == Loop \/ World
Spec == Init /\ [][Next]_vars

\* The loop goes on, the transfers do, and the app tries again.
FairSpec ==
    /\ Spec
    /\ WF_vars(Loop) /\ WF_vars(InDone) /\ WF_vars(OutDone)
    /\ WF_vars(AppAsks) /\ WF_vars(AppAsksAgain) /\ WF_vars(AppPings)

-----------------------------------------------------------------------------
(***************************************************************************)
(* Properties.                                                             *)
(***************************************************************************)

\* Of the assertions of connection.c, accessory.c and usb_host_android.c one
\* alone fails for a client that goes by what ConnectionTypeSupported,
\* ConnectionCanOpenChannel and ConnectionCanSend say, and by the callback: that
\* of USBHostAndroidWrite, where ConnectionCanSend says TRUE of a device that it
\* has just reset (accessory.c:120-125).
AssertsHold == failed \subseteq {AfterReset}

\* The app is not told that the channel is open unless it is, with a client,
\* though the answer is sent by reference and the client may close first.
AnswerIsTrue ==
    [][app.state = "asking" /\ app'.state = "open" =>
          chan.state = "OPEN" /\ client.state = "open"]_vars

\* The data of a channel come to its client in order and none comes twice, over
\* the ends and failures of channels.
HandsUp ==
    /\ turn = "acc" /\ turn' = "client" /\ Attached("ACC")
    /\ conn.acc # "DISCONNECTED" /\ chan.state = "OPEN"
    /\ ~acc.rxBusy /\ ~acc.rxError /\ acc.rx > 0
DataInOrder == [][HandsUp => acc.rx > client.heard]_vars

\* A client gets its channel, as long as the app asks for it and the device
\* stays; the one pass in which it may open one does come.
ChannelOpens ==
    client.state = "none" /\ Attached("ACC")
        ~> (client.state = "open" /\ chan.state = "OPEN") \/ ~Attached("ACC")
=============================================================================
