-------------------------- MODULE ConnectionProofs --------------------------
(***************************************************************************)
(* A client that asks before it calls breaks one assertion of the          *)
(* connection layer (module Connection) and no other, for any devices, and *)
(* any number of them, of transfers that fail and of data.                 *)
(***************************************************************************)
EXTENDS Connection, TLAPS

Turns     == {"usb", "bt", "adb", "acc", "client"}
Ifs       == {"ACC", "ADB", "BT"}
IfStates  == {"DISCONNECTED", "INITIALIZING", "INITIALIZED"}
Transfers == {"idle", "busy", "failed"}
Packets   == Nat \union {Ask, Ping}
Accs ==
    [rxBusy : BOOLEAN, rx : Packets, rxError : BOOLEAN,
     txBusy : BOOLEAN, txError : BOOLEAN,
     in : Transfers, got : Packets, out : Transfers, what : {"data", "answer"}]
Chans == [state : {"INIT", "WAIT_OPEN", "OPEN", "WAIT_CLOSED"}, open : BOOLEAN]
Conns == [acc : IfStates, adb : IfStates, bt : IfStates]
Usbs == [port : SUBSET Ifs, attached : SUBSET Ifs, passes : Nat]
Apps == [state : {"closed", "asking", "open"}, pipe : Seq(Packets), sent : Nat]
Clients == [state : {"none", "open", "closing"}, knows : BOOLEAN, heard : Nat]

TypeOK ==
    /\ turn \in Turns
    /\ usb \in Usbs
    /\ acc \in Accs
    /\ chan \in Chans
    /\ conn \in Conns
    /\ adb \in {"WAIT_ATTACH", "WAIT_CONNECT", "CONNECTED"}
    /\ client \in Clients
    /\ app \in Apps
    /\ errors \in Nat /\ plugs \in Nat

(***************************************************************************)
(* Types.                                                                  *)
(***************************************************************************)
LEMMA ReadType == ASSUME NEW d \in Accs PROVE Read(d) \in Accs
BY DEF Read, Accs, Transfers, Packets, NoPacket

LEMMA WriteType ==
    ASSUME NEW d \in Accs, NEW what \in {"data", "answer"} PROVE Write(d, what) \in Accs
BY DEF Write, Accs, Transfers

LEMMA PolledType == ASSUME NEW d \in Accs PROVE Polled(d) \in Accs
<1>1. PolledRead(d) \in Accs
  BY DEF PolledRead, Accs, Transfers, Packets, NoPacket
<1> QED
  BY <1>1 DEF Polled, Accs, Transfers

LEMMA NoAccType == NoAcc \in Accs
BY DEF NoAcc, Accs, Transfers, Packets, NoPacket

LEMMA ClearedType ==
    ASSUME TypeOK, Cleared PROVE usb' \in Usbs /\ acc' \in Accs /\ app' \in Apps
<1>1. usb' \in Usbs
  BY DEF TypeOK, Cleared, Usbs
<1>2. app' \in Apps
  <2>1. <<>> \in Seq(Packets)
    OBVIOUS
  <2> QED
    BY <2>1 DEF TypeOK, Cleared, Apps
<1> QED
  BY <1>1, <1>2, NoAccType DEF Cleared

LEMMA TypeInit == Init => TypeOK
BY NoAccType DEF Init, TypeOK, Turns, Chans, Conns, IfStates, Clients, Usbs, Apps

LEMMA ClosedType == ASSUME NEW c \in Chans PROVE Closed(c) \in Chans
BY DEF Closed, Chans

LEMMA HeardType == ASSUME TypeOK PROVE Heard \in Clients
<1>1. (IF acc.rx > 0 THEN acc.rx ELSE client.heard) \in Nat
  BY DEF TypeOK, Clients, Accs, Packets, Ask, Ping
<1> QED
  BY <1>1 DEF TypeOK, Heard, Clients

LEMMA AccGoesType ==
    ASSUME TypeOK, NEW d \in Accs, NEW c \in Chans, NEW client_ \in Clients,
           AccGoes(d, c, client_)
    PROVE  /\ acc' \in Accs /\ chan' \in Chans /\ client' \in Clients
           /\ conn' \in Conns /\ usb' \in Usbs /\ app' \in Apps
BY DEF TypeOK, AccGoes, Conns, IfStates

LEMMA AccessoryType ==
    ASSUME TypeOK, AccessoryTasks
    PROVE  /\ acc' \in Accs /\ chan' \in Chans /\ client' \in Clients
           /\ conn' \in Conns /\ usb' \in Usbs /\ app' \in Apps
<1> USE DEF TypeOK
<1>1. CASE AccFails
  BY <1>1, ClearedType DEF AccFails
<1>2. CASE Init1
  BY <1>2, ReadType, AccGoesType DEF Init1, Chans
<1>3. CASE WaitOpen
  <2>1. Write(acc, "answer") \in Accs /\ Read(Write(acc, "answer")) \in Accs
    BY ReadType, WriteType
  <2>2. /\ [chan EXCEPT !.state = "OPEN"] \in Chans
        /\ [chan EXCEPT !.state = "WAIT_CLOSED"] \in Chans
    BY DEF Chans
  <2> QED
    BY <1>3, <2>1, <2>2, AccGoesType DEF WaitOpen
<1>4. CASE Open
  BY <1>4, ReadType, ClosedType, HeardType, AccGoesType DEF Open, Clients
<1>5. CASE WaitClosed
  BY <1>5, AccGoesType DEF WaitClosed, Chans, Clients
<1>6. CASE AccGoes(acc, chan, client)
  BY <1>6, AccGoesType
<1> QED
  BY <1>1, <1>2, <1>3, <1>4, <1>5, <1>6 DEF AccessoryTasks

LEMMA TypeLoop == TypeOK /\ Loop => TypeOK'
<1> SUFFICES ASSUME TypeOK, Loop PROVE TypeOK'
  OBVIOUS
<1> USE DEF TypeOK, Turns, Turn
<1>1. CASE USBTasks
  <2>1. CASE Cleared
    BY <1>1, <2>1, ClearedType DEF USBTasks
  <2>2. CASE acc' = Polled(acc) /\ UNCHANGED <<usb, app>>
    BY <1>1, <2>2, PolledType DEF USBTasks
  <2>3. CASE usb.attached = {} /\ UNCHANGED <<acc, app>>
    BY <1>1, <2>3, ConnectionAssumption DEF USBTasks, Usbs
  <2> QED
    BY <1>1, <2>1, <2>2, <2>3 DEF USBTasks
<1>2. CASE BTTasks
  BY <1>2 DEF BTTasks, Conns, IfStates
<1>3. CASE ADBTasks
  <2>1. CASE UNCHANGED <<usb, acc, app, errors>>
    BY <1>3, <2>1 DEF ADBTasks, ADBWorks, Conns, IfStates, Fault, Cleared
  <2>2. CASE Fault /\ Cleared /\ UNCHANGED conn /\ adb' = "WAIT_ATTACH"
    BY <1>3, <2>2, ClearedType DEF ADBTasks, Fault
  <2> QED
    BY <1>3, <2>1, <2>2 DEF ADBTasks
<1>4. CASE ConnAccessoryTasks
  <2>1. CASE AccessoryTasks
    BY <1>4, <2>1, AccessoryType DEF ConnAccessoryTasks
  <2>2. CASE conn.acc = "DISCONNECTED"
    <3>1. CASE Attached("ACC")
      <4>1. /\ chan' = [state |-> "INIT", open |-> FALSE]
            /\ conn' = [conn EXCEPT !.acc = "INITIALIZING"]
            /\ UNCHANGED <<usb, acc, client, app>>
        BY <1>4, <2>2, <3>1 DEF ConnAccessoryTasks
      <4> QED
        BY <1>4, <4>1 DEF ConnAccessoryTasks, Chans, Conns, IfStates
    <3>2. CASE ~Attached("ACC")
      BY <1>4, <2>2, <3>2 DEF ConnAccessoryTasks
    <3> QED
      BY <3>1, <3>2
  <2>3. CASE ~Attached("ACC")
    BY <1>4, <2>3 DEF ConnAccessoryTasks, Conns, IfStates
  <2> QED
    BY <1>4, <2>1, <2>2, <2>3 DEF ConnAccessoryTasks
<1>5. CASE Client
  <2> USE DEF Client
  <2>1. CASE ClientOpens
    BY <1>5, <2>1 DEF ClientOpens, Chans, Clients
  <2>2. CASE ClientSends
    <3>1. CASE Cleared
      BY <1>5, <2>2, <3>1, ClearedType DEF ClientSends, Clients
    <3>2. CASE acc' = Write(acc, "data") /\ UNCHANGED <<usb, app>>
      BY <1>5, <2>2, <3>2, WriteType DEF ClientSends, Clients
    <3> QED
      BY <2>2, <3>1, <3>2 DEF ClientSends
  <2>3. CASE ClientCloses
    BY <1>5, <2>3, ClosedType DEF ClientCloses, Clients
  <2>4. CASE ClientDrops
    BY <1>5, <2>4 DEF ClientDrops, Clients
  <2>5. CASE ClientAsks \/ ClientOpensAdb \/ ClientIdles
    BY <1>5, <2>5 DEF ClientAsks, ClientOpensAdb, ClientIdles
  <2> QED
    BY <1>5, <2>1, <2>2, <2>3, <2>4, <2>5
<1> QED
  BY <1>1, <1>2, <1>3, <1>4, <1>5 DEF Loop

LEMMA TypeWorld == TypeOK /\ World => TypeOK'
<1> SUFFICES ASSUME TypeOK, World PROVE TypeOK'
  OBVIOUS
<1> USE DEF TypeOK, Others
<1>1. CASE Plug
  <2>1. PICK d \in Devices : usb' = [usb EXCEPT !.port = d, !.passes = 0]
    BY <1>1 DEF Plug
  <2>2. d \in SUBSET Ifs
    BY ConnectionAssumption DEF Ifs
  <2>3. usb' \in Usbs
    BY <2>1, <2>2 DEF Usbs
  <2>4. plugs' \in Nat
    BY <1>1 DEF Plug
  <2> QED
    BY <1>1, <2>3, <2>4 DEF Plug
<1>2. CASE Unplug
  BY <1>2 DEF Unplug, Usbs
<1>3. ASSUME NEW p \in Packets PROVE Append(app.pipe, p) \in Seq(Packets)
  BY DEF Apps
<1>4. CASE AppAsks \/ AppAsksAgain \/ AppPings
  <2>1. Append(app.pipe, Ask) \in Seq(Packets) /\ Append(app.pipe, Ping) \in Seq(Packets)
    BY <1>3 DEF Packets
  <2>2. app' \in Apps
    BY <1>4, <2>1 DEF AppAsks, AppAsksAgain, AppPings, AppPuts, Apps
  <2> QED
    BY <1>4, <2>2 DEF AppAsks, AppAsksAgain, AppPings
<1>5. CASE AppSends
  <2>1. app.sent + 1 \in Nat /\ app.sent + 1 \in Packets
    BY DEF Apps, Packets
  <2>2. Append(app.pipe, app.sent + 1) \in Seq(Packets)
    BY <1>3, <2>1
  <2>3. app' \in Apps
    BY <1>5, <2>1, <2>2 DEF AppSends, Apps
  <2> QED
    BY <1>5, <2>3 DEF AppSends
<1>6. CASE InDone
  <2>1. Head(app.pipe) \in Packets /\ Tail(app.pipe) \in Seq(Packets)
    BY <1>6 DEF InDone, Apps
  <2> QED
    BY <1>6, <2>1 DEF InDone, Apps, Accs, Transfers
<1>7. CASE OutDone
  BY <1>7 DEF OutDone, Apps, Accs, Transfers
<1>8. CASE TransferFails
  BY <1>8 DEF TransferFails, Fault, Accs, Transfers
<1> QED
  BY <1>1, <1>2, <1>4, <1>5, <1>6, <1>7, <1>8 DEF World

(***************************************************************************)
(* What makes AssertsHold and AnswerIsTrue inductive.  An interface is     *)
(* INITIALIZED only while its channel is INIT.  The channel and its client *)
(* agree as long as the device is there and the layer knows it (Agree).    *)
(* When the device has gone, the layer and the client find that out before *)
(* another can be enumerated (EnumPasses): ClientOpensAdb may keep the     *)
(* client from it in one pass, not in two, since ADBTasks sees the same    *)
(* device gone (Missed).  A write is under way only on a channel that is   *)
(* OPEN or waits for its end.                                              *)
(***************************************************************************)
Missed ==
    /\ usb.attached = {}
    /\ usb.passes <= 1
    /\ turn = "usb" => usb.passes = 0
Agree ==
    /\ chan.open <=> client.state = "open"
    /\ chan.open => chan.state # "WAIT_CLOSED"
    /\ chan.state = "OPEN" => chan.open
    /\ chan.open /\ client.knows => chan.state = "OPEN"
    /\ acc.txBusy => chan.state \in {"OPEN", "WAIT_CLOSED"}
Inv ==
    /\ TypeOK
    /\ AssertsHold
    /\ conn.acc = "INITIALIZED" => chan.state = "INIT" /\ (turn = "client" => Attached("ACC"))
    /\ Attached("ACC") /\ conn.acc # "DISCONNECTED" => Agree
    /\ Attached("ACC") /\ conn.acc = "DISCONNECTED" => client.state = "none"
    /\ ~Attached("ACC") /\ client.state # "none" =>
          Missed /\ (turn \in {"acc", "client"} /\ usb.passes = 1 => conn.adb = "DISCONNECTED")
    /\ ~Attached("ACC") /\ conn.acc # "DISCONNECTED" =>
          Missed /\ (turn = "client" => usb.passes = 0)
    /\ ~Attached("ACC") \/ conn.acc = "DISCONNECTED" => ~acc.txBusy
    /\ acc.out = "busy" => acc.txBusy

\* Every variable of the connection layer, its client and the app keeps its
\* type.
THEOREM TypeCorrect == Spec => []TypeOK
<1>1. TypeOK /\ UNCHANGED vars => TypeOK'
  BY DEF TypeOK, vars
<1> QED
  BY <1>1, TypeInit, TypeLoop, TypeWorld, PTL DEF Spec, Next

LEMMA ClearedInv ==
    ASSUME Inv, Cleared, TypeOK',
           turn' = "client" => conn'.acc # "INITIALIZED",
           conn'.acc = conn.acc, chan' = chan, failed' \subseteq failed \union {AfterReset},
           client'.state # "none" => client.state # "none"
    PROVE  Inv'
<1>1. ~Attached("ACC")' /\ Missed' /\ usb'.passes = 0 /\ ~acc'.txBusy /\ acc'.out # "busy"
  BY DEF Inv, TypeOK, Cleared, Missed, Attached, Usbs, NoAcc
<1> QED
  BY <1>1 DEF Inv, AssertsHold

LEMMA InvWorld == Inv /\ World => Inv'
<1> SUFFICES ASSUME Inv, World PROVE Inv'
  OBVIOUS
<1>1. TypeOK'
  BY TypeWorld DEF Inv
<1> USE DEF World, Plug, Unplug, AppAsks, AppAsksAgain, AppPings, AppSends, InDone, OutDone,
            TransferFails, Others
<1>2. UNCHANGED <<turn, chan, conn, adb, client, failed>>
  OBVIOUS
<1>3. usb'.attached = usb.attached /\ usb'.passes \in {usb.passes, 0}
  BY DEF Inv, TypeOK, Usbs
<1>4. acc'.txBusy = acc.txBusy /\ (acc'.out = "busy" => acc.out = "busy")
  BY DEF Inv, TypeOK, Accs
<1> HIDE DEF World
<1>5. (Missed => Missed') /\ (usb.passes = 0 => usb'.passes = 0)
  BY <1>2, <1>3 DEF Missed
<1>6. (Agree => Agree') /\ Attached("ACC")' = Attached("ACC")
  BY <1>2, <1>3, <1>4 DEF Agree, Attached
<1>7. usb'.passes = 1 => usb.passes = 1
  BY <1>3
<1> QED
  BY <1>1, <1>2, <1>4, <1>5, <1>6, <1>7 DEF Inv, AssertsHold

LEMMA InvUSB == Inv /\ USBTasks => Inv'
<1> SUFFICES ASSUME Inv, USBTasks PROVE Inv'
  OBVIOUS
<1>1. TypeOK'
  BY TypeLoop DEF Inv, Loop
<1>2. UNCHANGED <<chan, conn, adb, client, failed>> /\ turn = "usb" /\ turn' = "bt"
  BY DEF USBTasks, Turn
<1>3. CASE usb.attached # {} /\ usb.port = {}
  BY <1>1, <1>2, <1>3, ClearedInv DEF USBTasks
<1>4. CASE usb.attached # {} /\ usb.port # {}
  <2>1. acc' = Polled(acc) /\ usb' = usb
    BY <1>4 DEF USBTasks
  <2>2. /\ acc'.txBusy => acc.txBusy
        /\ acc'.out = "busy" => acc.out = "busy" /\ acc'.txBusy = acc.txBusy
    BY <2>1 DEF Polled, PolledRead, Inv, TypeOK, Accs
  <2>3. ~Missed
    BY <1>4 DEF Missed
  <2>4. Attached("ACC")' = Attached("ACC") /\ (Agree => Agree')
    BY <1>2, <2>1, <2>2 DEF Agree, Attached
  <2> QED
    BY <1>1, <1>2, <2>1, <2>2, <2>3, <2>4 DEF Inv, AssertsHold
<1>5. CASE usb.attached = {}
  <2>1. ~Attached("ACC") /\ acc' = acc
    BY <1>5 DEF USBTasks, Attached
  <2>2. CASE usb' = [usb EXCEPT !.attached = usb.port] /\ usb.passes = EnumPasses
    <3>1. client.state = "none" /\ conn.acc = "DISCONNECTED"
      BY <1>2, <2>1, <2>2, ConnectionAssumption DEF Inv, Missed
    <3> QED
      BY <1>1, <1>2, <2>1, <3>1 DEF Inv, AssertsHold
  <2>3. CASE usb' = [usb EXCEPT !.passes = IF @ = EnumPasses THEN @ ELSE @ + 1]
    <3>1. Missed => Missed'
      BY <1>2, <2>3, ConnectionAssumption DEF Inv, TypeOK, Missed, Usbs
    <3>2. ~Attached("ACC")'
      BY <1>5, <2>3 DEF Inv, TypeOK, Usbs, Attached
    <3> QED
      BY <1>1, <1>2, <2>1, <3>1, <3>2 DEF Inv, AssertsHold
  <2> QED
    BY <1>5, <2>2, <2>3 DEF USBTasks
<1> QED
  BY <1>3, <1>4, <1>5

LEMMA InvBT == Inv /\ BTTasks => Inv'
<1> SUFFICES ASSUME Inv, BTTasks PROVE Inv'
  OBVIOUS
<1>1. TypeOK'
  BY TypeLoop DEF Inv, Loop
<1>2. /\ turn = "bt" /\ turn' = "adb" /\ conn'.acc = conn.acc
      /\ UNCHANGED <<usb, acc, chan, client, failed>>
  BY DEF BTTasks, Turn, Inv, TypeOK, Conns
<1>3. (Missed => Missed') /\ (Agree => Agree') /\ Attached("ACC")' = Attached("ACC")
  BY <1>2 DEF Missed, Agree, Attached
<1> QED
  BY <1>1, <1>2, <1>3 DEF Inv, AssertsHold

LEMMA InvADB == Inv /\ ADBTasks => Inv'
<1> SUFFICES ASSUME Inv, ADBTasks PROVE Inv'
  OBVIOUS
<1>1. TypeOK'
  BY TypeLoop DEF Inv, Loop
<1>2. turn = "adb" /\ turn' = "acc" /\ UNCHANGED <<chan, client, failed>>
  BY DEF ADBTasks, Turn
<1>3. CASE UNCHANGED <<usb, acc>> /\ conn' # conn
  <2>1. conn'.acc = conn.acc /\ (usb.attached = {} => conn'.adb = "DISCONNECTED")
    BY <1>3 DEF ADBTasks, ADBWorks, Inv, TypeOK, Conns, Attached, Fault
  <2>2. (Missed => Missed') /\ (Agree => Agree') /\ Attached("ACC")' = Attached("ACC")
    BY <1>2, <1>3 DEF Missed, Agree, Attached
  <2> QED
    BY <1>1, <1>2, <1>3, <2>1, <2>2 DEF Inv, Missed, AssertsHold
<1>4. CASE Cleared /\ UNCHANGED conn
  BY <1>1, <1>2, <1>4, ClearedInv
<1>5. CASE UNCHANGED <<usb, acc, conn>> /\ (usb.attached = {} => conn.adb = "DISCONNECTED")
  <2>1. (Missed => Missed') /\ (Agree => Agree') /\ Attached("ACC")' = Attached("ACC")
    BY <1>2, <1>5 DEF Missed, Agree, Attached
  <2> QED
    BY <1>1, <1>2, <1>5, <2>1 DEF Inv, Missed, AssertsHold
<1>6. (conn' = conn /\ usb.attached = {} => conn.adb = "DISCONNECTED") \/ Cleared
  BY DEF ADBTasks, ADBWorks, Inv, TypeOK, Conns, Attached
<1> QED
  BY <1>3, <1>4, <1>5, <1>6 DEF ADBTasks

\* A pass of AccessoryTasks that goes from one state of the channel to another.
LEMMA InvGoes ==
    ASSUME Inv, ConnAccessoryTasks, Attached("ACC"), TypeOK',
           NEW d, NEW c, NEW client_, AccGoes(d, c, client_),
           c.open <=> client_.state = "open",
           c.open => c.state # "WAIT_CLOSED",
           c.state = "OPEN" => c.open,
           c.open /\ client_.knows => c.state = "OPEN",
           d.txBusy => c.state \in {"OPEN", "WAIT_CLOSED"},
           d.out = "busy" => d.txBusy
    PROVE  Inv'
<1>1. conn'.acc # "DISCONNECTED" /\ (conn'.acc = "INITIALIZED" => c.state = "INIT")
  BY DEF AccGoes, Inv, TypeOK, Conns
<1>2. usb' = usb /\ acc' = d /\ chan' = c /\ client' = client_ /\ failed' = failed
  BY DEF AccGoes, ConnAccessoryTasks
<1>3. Agree' /\ Attached("ACC")'
  BY <1>2 DEF Agree, Attached
<1> QED
  BY <1>1, <1>2, <1>3 DEF Inv, AssertsHold

LEMMA InvAcc == Inv /\ ConnAccessoryTasks => Inv'
<1> SUFFICES ASSUME Inv, ConnAccessoryTasks PROVE Inv'
  OBVIOUS
<1>1. TypeOK'
  BY TypeLoop DEF Inv, Loop
<1>2. failed' = failed /\ turn = "acc" /\ turn' = "client" /\ adb' = adb
  BY DEF ConnAccessoryTasks, Turn
<1>3. CASE conn.acc = "DISCONNECTED" /\ Attached("ACC")
  <2>1. /\ chan' = [state |-> "INIT", open |-> FALSE]
        /\ conn' = [conn EXCEPT !.acc = "INITIALIZING"]
        /\ UNCHANGED <<usb, acc, client, app>>
    BY <1>3 DEF ConnAccessoryTasks
  <2>2. conn'.acc = "INITIALIZING" /\ Attached("ACC")'
    BY <1>3, <2>1 DEF Inv, TypeOK, Conns, Attached
  <2>3. client.state = "none" /\ ~acc.txBusy
    BY <1>3 DEF Inv
  <2>4. Agree'
    BY <2>1, <2>3 DEF Agree
  <2> QED
    BY <1>1, <1>2, <2>1, <2>2, <2>3, <2>4 DEF Inv, AssertsHold
<1>4. CASE conn.acc = "DISCONNECTED" /\ ~Attached("ACC")
  <2>1. UNCHANGED <<usb, acc, chan, conn, client, app>>
    BY <1>4 DEF ConnAccessoryTasks
  <2> QED
    BY <1>1, <1>2, <1>4, <2>1 DEF Inv, Missed, AssertsHold, Attached
<1>5. CASE conn.acc # "DISCONNECTED" /\ ~Attached("ACC")
  <2>1. conn' = [conn EXCEPT !.acc = "DISCONNECTED"] /\ UNCHANGED <<usb, acc, chan, client, app>>
    BY <1>5 DEF ConnAccessoryTasks
  <2>2. conn'.acc = "DISCONNECTED" /\ conn'.adb = conn.adb
    BY <2>1 DEF Inv, TypeOK, Conns
  <2> QED
    BY <1>1, <1>2, <1>5, <2>1, <2>2 DEF Inv, Missed, AssertsHold, Attached
<1>6. CASE conn.acc # "DISCONNECTED" /\ Attached("ACC")
  <2> USE <1>1
  <2>1. AccessoryTasks
    BY <1>6 DEF ConnAccessoryTasks
  <2>2. /\ Agree /\ (acc.out = "busy" => acc.txBusy)
        /\ acc \in Accs /\ chan \in Chans /\ client \in Clients
    BY <1>6 DEF Inv, TypeOK
  <2>3. CASE chan.state \in {"WAIT_OPEN", "OPEN", "WAIT_CLOSED"} /\ AccFails
    BY <1>2, <2>3, ClearedInv DEF AccFails, Inv
  <2>4. Read(acc).txBusy = acc.txBusy /\ Read(acc).out = acc.out
    BY <2>2 DEF Read, Accs
  <2>5. CASE chan.state = "INIT" /\ Init1
    <3> DEFINE c == [chan EXCEPT !.state = "WAIT_OPEN"]
    <3>1. c.state = "WAIT_OPEN" /\ c.open = chan.open
      BY <2>2 DEF Chans
    <3>2. ~acc.txBusy /\ ~(c.open /\ client.knows) /\ (c.open <=> client.state = "open")
      BY <2>2, <2>5, <3>1 DEF Agree, Chans
    <3>3. AccGoes(Read(acc), c, client)
      BY <2>5 DEF Init1
    <3> HIDE DEF c
    <3> QED
      BY <1>6, <2>2, <2>4, <3>1, <3>2, <3>3, InvGoes
  <2>6. CASE chan.state = "WAIT_OPEN" /\ WaitOpen
    <3> DEFINE w == Write(acc, "answer")
    <3>1. w \in Accs /\ (w.out = "busy" => w.txBusy)
      BY <2>2, WriteType DEF Write, Accs
    <3>2. Read(w).txBusy = w.txBusy /\ Read(w).out = w.out
      BY <3>1 DEF Read, Accs
    <3>3. chan.open <=> client.state = "open"
      BY <2>2 DEF Agree
    <3>4. CASE chan.open
      <4> DEFINE c == [chan EXCEPT !.state = "OPEN"]
      <4>1. c.state = "OPEN" /\ c.open = chan.open
        BY <2>2 DEF Chans
      <4>2. AccGoes(Read(w), c, client)
        BY <2>6, <3>4 DEF WaitOpen
      <4> HIDE DEF c, w
      <4> QED
        BY <1>6, <3>1, <3>2, <3>3, <3>4, <4>1, <4>2, InvGoes
    <3>5. CASE ~chan.open
      <4> DEFINE c == [chan EXCEPT !.state = "WAIT_CLOSED"]
      <4>1. c.state = "WAIT_CLOSED" /\ c.open = chan.open
        BY <2>2 DEF Chans
      <4>2. AccGoes(w, c, client)
        BY <2>6, <3>5 DEF WaitOpen
      <4> HIDE DEF c, w
      <4> QED
        BY <1>6, <3>1, <3>3, <3>5, <4>1, <4>2, InvGoes
    <3> QED
      BY <3>4, <3>5
  <2>7. CASE chan.state = "OPEN" /\ Open
    <3>1. Heard.state = client.state /\ Heard \in Clients
      BY <2>2, HeardType DEF Heard, Clients, Inv
    <3>2. chan.open /\ client.state = "open"
      BY <2>2, <2>7 DEF Agree
    <3>3. CASE AccGoes(Read(acc), chan, Heard)
      BY <1>6, <2>2, <2>4, <2>7, <3>1, <3>2, <3>3, InvGoes
    <3>4. CASE AccGoes(acc, Closed(chan), [Heard EXCEPT !.state = "closing"])
      <4>1. Closed(chan).state = "WAIT_CLOSED" /\ ~Closed(chan).open
        BY <2>2 DEF Closed, Chans
      <4>2. [Heard EXCEPT !.state = "closing"].state = "closing"
        BY <3>1 DEF Clients
      <4> QED
        BY <1>6, <2>2, <3>4, <4>1, <4>2, InvGoes
    <3>5. CASE AccGoes(Read(acc), chan, client)
      BY <1>6, <2>2, <2>4, <2>7, <3>2, <3>5, InvGoes
    <3> QED
      BY <2>7, <3>3, <3>4, <3>5 DEF Open
  <2>8. CASE chan.state = "WAIT_CLOSED" /\ ~acc.txBusy /\ WaitClosed
    <3> DEFINE c == [chan EXCEPT !.state = "INIT"]
               k == [client EXCEPT !.state = IF @ = "closing" THEN "none" ELSE @]
    <3>1. c.state = "INIT" /\ c.open = chan.open /\ ~chan.open
      BY <2>2, <2>8 DEF Chans, Agree
    <3>2. k.state # "open"
      BY <2>2, <3>1 DEF Agree, Clients
    <3>3. AccGoes(acc, c, k)
      BY <2>8 DEF WaitClosed
    <3> HIDE DEF c, k
    <3> QED
      BY <1>6, <2>2, <2>8, <3>1, <3>2, <3>3, InvGoes
  <2>9. CASE AccGoes(acc, chan, client)
    BY <1>6, <2>2, <2>9, InvGoes DEF Agree
  <2> QED
    BY <2>1, <2>2, <2>3, <2>5, <2>6, <2>7, <2>8, <2>9 DEF AccessoryTasks, Chans
<1> QED
  BY <1>3, <1>4, <1>5, <1>6
LEMMA InvClient == Careful /\ Inv /\ Client => Inv'
<1> SUFFICES ASSUME Careful, Inv, Client PROVE Inv'
  OBVIOUS
<1>1. TypeOK'
  BY TypeLoop DEF Inv, Loop
<1>2. turn = "client" /\ turn' = "usb" /\ failed \subseteq {AfterReset}
  BY DEF Client, Turn, Inv, AssertsHold
<1>3. chan \in Chans /\ client \in Clients /\ acc \in Accs
  BY DEF Inv, TypeOK
<1>4. Attached("ACC") => (Agree \/ client.state = "none")
  BY DEF Inv
<1>5. CASE ClientOpens
  <2>1. /\ Attached("ACC") /\ chan.state = "INIT" /\ client.state = "none"
        /\ conn.acc = "INITIALIZED" /\ Agree
    BY <1>2, <1>5 DEF ClientOpens, CanOpenAcc, Inv
  <2>2. /\ chan'.open /\ chan'.state = "INIT"
        /\ client'.state = "open" /\ ~client'.knows
    BY <1>3, <1>5, <2>1 DEF ClientOpens, Chans, Clients
  <2>3. UNCHANGED <<usb, acc, conn, adb, app>> /\ failed' \subseteq {AfterReset}
    BY <1>2, <1>5, <2>1 DEF ClientOpens, Assert, Unless
  <2>4. Agree' /\ Attached("ACC")'
    BY <2>1, <2>2, <2>3 DEF Agree, Attached
  <2> QED
    BY <1>1, <1>2, <2>1, <2>2, <2>3, <2>4 DEF Inv, AssertsHold
<1>6. CASE ClientSends
  <2>1. Attached("ACC") /\ client.state = "open" /\ Agree /\ usb.attached # {}
    BY <1>4, <1>6 DEF ClientSends, MayUse, Attached
  <2>2. client'.state = "open"
    BY <1>3, <1>6, <2>1 DEF ClientSends, Clients
  <2>3. UNCHANGED <<chan, conn, adb>> /\ failed' \subseteq {AfterReset}
    BY <1>2, <1>6, <2>1 DEF ClientSends, Assert, Unless
  <2>4. CASE Cleared
    BY <1>1, <1>2, <2>1, <2>3, <2>4, ClearedInv
  <2>5. CASE acc' = Write(acc, "data") /\ UNCHANGED <<usb, app>>
    <3>1. acc'.out = "busy" => acc'.txBusy
      BY <1>3, <2>5 DEF Write, Accs, Inv
    <3>2. chan.state = "OPEN" /\ conn.acc # "DISCONNECTED"
      BY <1>6, <2>1 DEF ClientSends, Inv
    <3>3. Agree' /\ Attached("ACC")'
      BY <2>1, <2>2, <2>3, <2>5, <3>2 DEF Agree, Attached
    <3> QED
      BY <1>1, <1>2, <2>1, <2>3, <2>5, <3>1, <3>2, <3>3 DEF Inv, AssertsHold
  <2> QED
    BY <1>6, <2>4, <2>5 DEF ClientSends
<1>7. CASE ClientCloses
  <2>1. Attached("ACC") /\ client.state = "open" /\ Agree /\ client.knows
    BY <1>4, <1>7 DEF ClientCloses, MayUse
  <2>2. chan.state = "OPEN" /\ conn.acc # "DISCONNECTED"
    BY <2>1 DEF Agree, Inv
  <2>3. /\ ~chan'.open /\ chan'.state = "WAIT_CLOSED" /\ client'.state = "closing"
        /\ UNCHANGED <<usb, acc, conn, adb, app>> /\ failed' \subseteq {AfterReset}
    BY <1>2, <1>3, <1>7, <2>2 DEF ClientCloses, Closed, Chans, Clients, Assert, Unless
  <2>4. Agree' /\ Attached("ACC")'
    BY <2>1, <2>3 DEF Agree, Attached
  <2> QED
    BY <1>1, <1>2, <2>1, <2>2, <2>3, <2>4 DEF Inv, AssertsHold
<1>8. CASE ClientDrops
  <2>1. /\ ~Attached("ACC") /\ client'.state = "none"
        /\ UNCHANGED <<usb, acc, chan, conn, adb, app, failed>>
    BY <1>3, <1>8 DEF ClientDrops, Clients
  <2>2. ~Attached("ACC")' /\ (Missed /\ usb.passes = 0 => Missed')
    BY <1>2, <2>1 DEF Attached, Missed
  <2> QED
    BY <1>1, <1>2, <2>1, <2>2 DEF Inv, AssertsHold
<1>9. CASE ClientAsks \/ ClientOpensAdb \/ ClientIdles
  <2>1. UNCHANGED <<usb, acc, chan, conn, adb, client, app>>
    BY <1>9 DEF ClientAsks, ClientOpensAdb, ClientIdles
  <2>2. failed' \subseteq {AfterReset}
    BY <1>2, <1>4, <1>9 DEF ClientAsks, ClientOpensAdb, ClientIdles, MayUse, Agree,
                            Assert, Unless
  <2>3. ~Attached("ACC") /\ client.state # "none" => usb.passes = 0
    BY <1>2, <1>9 DEF ClientAsks, ClientOpensAdb, ClientIdles, MayUse, Inv, TypeOK,
                      Usbs, Missed
  <2>4. /\ Attached("ACC")' = Attached("ACC") /\ (Agree => Agree')
        /\ (Missed /\ usb.passes = 0 => Missed')
    BY <1>2, <2>1 DEF Attached, Agree, Missed
  <2> QED
    BY <1>1, <1>2, <2>1, <2>2, <2>3, <2>4 DEF Inv, AssertsHold
<1> QED
  BY <1>5, <1>6, <1>7, <1>8, <1>9 DEF Client

LEMMA InvInit == Init => Inv
BY TypeInit DEF Init, Inv, AssertsHold, Attached, NoAcc

LEMMA InvNext == Careful /\ Inv /\ [Next]_vars => Inv'
<1> SUFFICES ASSUME Careful, Inv, [Next]_vars PROVE Inv'
  OBVIOUS
<1>1. CASE UNCHANGED vars
  BY <1>1 DEF Inv, TypeOK, AssertsHold, Agree, Missed, Attached, vars
<1> QED
  BY <1>1, InvUSB, InvBT, InvADB, InvAcc, InvClient, InvWorld DEF Next, Loop

\* A client that asks before it calls, and hears its callback, makes no
\* assertion of connection.c, accessory.c or usb_host_android.c fail but that of
\* USBHostAndroidWrite after the reset in AccessoryCanWrite (accessory.c:123),
\* of which ConnectionCanSend tells it nothing.
THEOREM OneAssertionFails == ASSUME Careful PROVE Spec => []AssertsHold
<1>1. Inv => AssertsHold
  BY DEF Inv
<1> QED
  BY <1>1, InvInit, InvNext, PTL DEF Spec

\* The app that is told that the channel is open has an open channel with a
\* client: the answer that accessory.c:54 sends by reference was not changed
\* under the transfer in any other way.
THEOREM TrueAnswers == ASSUME Careful PROVE Spec => AnswerIsTrue
<1> DEFINE Told == app.state = "asking" /\ app'.state = "open" =>
                       chan.state = "OPEN" /\ client.state = "open"
<1>1. ASSUME Inv, [Next]_vars, app.state = "asking", app'.state = "open"
      PROVE  chan.state = "OPEN" /\ client.state = "open"
  <2>1. app \in Apps
    BY <1>1 DEF Inv, TypeOK
  <2>2. ~Cleared
    BY <1>1, <2>1 DEF Cleared, Apps
  <2>3. OutDone
    BY <1>1, <2>1, <2>2 DEF Next, Loop, World, vars, USBTasks, BTTasks, ADBTasks,
         ConnAccessoryTasks, AccessoryTasks, Client, ClientOpens, ClientSends, ClientAsks,
         ClientCloses, ClientDrops, ClientOpensAdb, ClientIdles, AccFails, AccGoes, Init1,
         WaitOpen, Open, WaitClosed, Plug, Unplug, AppAsks, AppAsksAgain, AppPings, AppSends,
         AppPuts, InDone, TransferFails, Apps
  <2>4. Attached("ACC") /\ acc.txBusy /\ chan.open
    BY <1>1, <2>1, <2>3 DEF OutDone, There, Inv, Apps
  <2>5. Agree
    BY <1>1, <2>4 DEF Inv
  <2> QED
    BY <2>4, <2>5 DEF Agree
<1>2. Inv /\ [Next]_vars => [Told]_vars
  BY <1>1
<1> QED
  BY <1>2, InvInit, InvNext, PTL DEF Spec, AnswerIsTrue
-----------------------------------------------------------------------------
(***************************************************************************)
(* The data of the app, on their way to the client: in the pipe, then got  *)
(* by the endpoint, then read by the driver.  Each is later than those     *)
(* before it.  A packet that was read stays in rx when the client closes   *)
(* the channel from within its callback, or while there is no client: it   *)
(* counts only while the channel is OPEN.                                  *)
(***************************************************************************)
Unread(p) == chan.state = "OPEN" /\ p > 0
RxInv ==
    /\ acc.rxBusy => acc.rx = NoPacket
    /\ ~acc.rxBusy => acc.in # "busy" /\ acc.got = NoPacket
    /\ acc.in = "busy" => acc.got = NoPacket
Order ==
    /\ TypeOK
    /\ RxInv
    /\ client.heard <= app.sent
    /\ acc.got > 0 => client.heard < acc.got /\ acc.got <= app.sent
    /\ Unread(acc.rx) => client.heard < acc.rx /\ acc.rx <= app.sent
    /\ \A i \in 1 .. Len(app.pipe) : app.pipe[i] > 0 =>
          /\ client.heard < app.pipe[i] /\ app.pipe[i] <= app.sent
          /\ acc.got < app.pipe[i]
          /\ Unread(acc.rx) => acc.rx < app.pipe[i]
          /\ \A j \in 1 .. Len(app.pipe) : j < i => app.pipe[j] < app.pipe[i]

LEMMA OrderCleared ==
    ASSUME Order, TypeOK', Cleared, client'.heard = client.heard PROVE Order'
<1>1. app'.pipe = <<>> /\ app'.sent = app.sent
  BY DEF Cleared, Order, TypeOK, Apps
<1>2. acc'.rx = 0 /\ acc'.got = 0 /\ ~acc'.rxBusy /\ acc'.in = "idle"
  BY DEF Cleared, NoAcc, NoPacket
<1> QED
  BY <1>1, <1>2 DEF Order, RxInv, Unread, NoPacket

\* Nothing gets on; what was read may be forgotten.
LEMMA OrderStays ==
    ASSUME Order, TypeOK', RxInv', app'.pipe = app.pipe, app'.sent = app.sent,
           acc'.got = acc.got, client'.heard = client.heard,
           \/ acc'.rx = NoPacket
           \/ acc'.rx = acc.rx /\ (chan'.state = "OPEN" => chan.state = "OPEN")
    PROVE  Order'
BY DEF Order, Unread, NoPacket

LEMMA ReadOrder ==
    ASSUME Order
    PROVE  /\ Read(acc).got = acc.got
           /\ Read(acc).rx = NoPacket
           /\ acc' = Read(acc) => RxInv'
BY DEF Order, RxInv, TypeOK, Accs, Read, NoPacket

LEMMA WriteOrder ==
    ASSUME Order, NEW what \in {"data", "answer"}
    PROVE  LET w == Write(acc, what) IN
           w.got = acc.got /\ w.rx = acc.rx /\ w.rxBusy = acc.rxBusy /\ w.in = acc.in
BY DEF Order, TypeOK, Accs, Write

LEMMA OrderUSB == Order /\ USBTasks => Order'
<1> SUFFICES ASSUME Order, USBTasks PROVE Order'
  OBVIOUS
<1>1. TypeOK' /\ TypeOK
  BY TypeLoop DEF Order, Loop
<1>2. UNCHANGED <<chan, client>>
  BY DEF USBTasks
<1>3. CASE Cleared
  BY <1>1, <1>2, <1>3, OrderCleared
<1>4. CASE app' = app /\ acc' = acc
  BY <1>1, <1>2, <1>4, OrderStays DEF Order, RxInv
<1>5. CASE app' = app /\ acc' = Polled(acc)
  <2>1. CASE acc.rxBusy /\ acc.in # "busy"
    <3>1. acc'.rx = acc.got /\ acc'.got = NoPacket /\ ~acc'.rxBusy /\ acc'.in = acc.in
      BY <1>1, <1>5, <2>1 DEF Polled, PolledRead, TypeOK, Accs
    <3> QED
      BY <1>1, <1>2, <1>5, <2>1, <3>1 DEF Order, RxInv, Unread, NoPacket
  <2>2. CASE ~(acc.rxBusy /\ acc.in # "busy")
    <3>1. /\ acc'.rx = acc.rx /\ acc'.got = acc.got
          /\ acc'.rxBusy = acc.rxBusy /\ acc'.in = acc.in
      BY <1>1, <1>5, <2>2 DEF Polled, PolledRead, TypeOK, Accs
    <3> QED
      BY <1>1, <1>2, <1>5, <3>1, OrderStays DEF Order, RxInv
  <2> QED
    BY <2>1, <2>2
<1> QED
  BY <1>3, <1>4, <1>5 DEF USBTasks

LEMMA OrderAcc == Order /\ ConnAccessoryTasks => Order'
<1> SUFFICES ASSUME Order, ConnAccessoryTasks PROVE Order'
  OBVIOUS
<1>1. TypeOK' /\ TypeOK /\ acc \in Accs /\ chan \in Chans /\ client \in Clients
  BY TypeLoop DEF Order, Loop, TypeOK
<1>2. CASE AccFails
  BY <1>1, <1>2, OrderCleared DEF AccFails
<1>3. CASE UNCHANGED <<acc, client, app>> /\ chan'.state = "INIT"
  BY <1>1, <1>3, OrderStays DEF Order, RxInv
<1>4. CASE UNCHANGED <<acc, chan, client, app>>
  BY <1>1, <1>4, OrderStays DEF Order, RxInv
<1>5. CASE Init1
  <2>1. acc' = Read(acc) /\ client' = client /\ app' = app
    BY <1>5 DEF Init1, AccGoes
  <2> QED
    BY <1>1, <2>1, ReadOrder, OrderStays
<1>6. CASE ~acc.rxBusy /\ WaitOpen
  <2>1. client' = client /\ app' = app
    BY <1>6 DEF WaitOpen, AccGoes
  <2> DEFINE w == Write(acc, "answer")
  <2>2. w \in Accs /\ w.got = NoPacket /\ w.rx = acc.rx /\ ~w.rxBusy /\ w.in # "busy"
    BY <1>1, <1>6, WriteOrder, WriteType DEF Order, RxInv
  <2>3. CASE chan.open
    <3>1. acc' = Read(w)
      BY <1>6, <2>3 DEF WaitOpen, AccGoes
    <3> HIDE DEF w
    <3>2. acc'.rx = NoPacket /\ acc'.got = NoPacket /\ RxInv'
      BY <2>2, <3>1 DEF Read, Accs, RxInv, NoPacket
    <3> QED
      BY <1>1, <1>6, <2>1, <3>2, OrderStays DEF Order, RxInv
  <2>4. CASE ~chan.open
    <3>1. acc' = w /\ chan'.state = "WAIT_CLOSED"
      BY <1>1, <1>6, <2>4 DEF WaitOpen, AccGoes, Chans
    <3> HIDE DEF w
    <3>2. RxInv'
      BY <1>6, <2>2, <3>1 DEF RxInv, Order
    <3> QED
      BY <1>1, <1>6, <2>1, <2>2, <3>1, <3>2, OrderStays DEF Order, RxInv
  <2> QED
    BY <2>3, <2>4
<1>7. CASE chan.state = "OPEN" /\ ~acc.rxBusy /\ Open
  <2>1. app' = app
    BY <1>7 DEF Open, AccGoes
  <2>2. CASE acc' = Read(acc) /\ chan' = chan /\ client' = client
    BY <1>1, <2>1, <2>2, ReadOrder, OrderStays
  <2>3. CASE acc.rx # NoPacket /\ acc' = Read(acc) /\ chan' = chan /\ client' = Heard
    <3>1. client'.heard = IF acc.rx > 0 THEN acc.rx ELSE client.heard
      BY <1>1, <2>3 DEF Heard, Clients
    <3>2. acc'.got = 0 /\ acc.got = 0 /\ acc'.rx = 0 /\ RxInv'
      BY <1>7, <2>3, ReadOrder DEF Order, RxInv, NoPacket
    <3> QED
      BY <1>1, <1>7, <2>1, <3>1, <3>2 DEF Order, Unread
  <2>4. CASE acc.rx # NoPacket /\ acc' = acc /\ chan' = Closed(chan)
             /\ client' = [Heard EXCEPT !.state = "closing"]
    <3>1. client'.heard = IF acc.rx > 0 THEN acc.rx ELSE client.heard
      BY <1>1, <2>4 DEF Heard, Clients
    <3>2. acc.got = 0 /\ chan'.state = "WAIT_CLOSED"
      BY <1>1, <1>7, <2>4 DEF Order, RxInv, NoPacket, Closed, Chans
    <3> QED
      BY <1>1, <1>7, <2>1, <2>4, <3>1, <3>2 DEF Order, RxInv, Unread
  <2> QED
    BY <1>7, <2>2, <2>3, <2>4 DEF Open, AccGoes
<1>8. CASE WaitClosed
  <2>1. acc' = acc /\ app' = app /\ chan'.state = "INIT" /\ client'.heard = client.heard
    BY <1>1, <1>8 DEF WaitClosed, AccGoes, Chans, Clients
  <2> QED
    BY <1>1, <2>1, OrderStays DEF Order, RxInv
<1>9. CASE AccGoes(acc, chan, client)
  BY <1>1, <1>9, OrderStays DEF AccGoes, Order, RxInv
<1>10. CASE AccessoryTasks
  BY <1>1, <1>2, <1>5, <1>6, <1>7, <1>8, <1>9, <1>10 DEF AccessoryTasks, Chans
<1>11. CASE conn.acc = "DISCONNECTED" /\ Attached("ACC")
  BY <1>3, <1>11 DEF ConnAccessoryTasks
<1>12. CASE ~Attached("ACC")
  BY <1>4, <1>12 DEF ConnAccessoryTasks
<1>13. CASE conn.acc # "DISCONNECTED" /\ Attached("ACC")
  BY <1>10, <1>13 DEF ConnAccessoryTasks
<1> QED
  BY <1>11, <1>12, <1>13

LEMMA OrderClient == Order /\ Client => Order'
<1> SUFFICES ASSUME Order, Client PROVE Order'
  OBVIOUS
<1>1. TypeOK' /\ TypeOK /\ acc \in Accs /\ chan \in Chans /\ client \in Clients
  BY TypeLoop DEF Order, Loop, TypeOK
<1>2. client'.heard = client.heard /\ (chan'.state = "OPEN" => chan.state = "OPEN")
  BY <1>1 DEF Client, ClientOpens, ClientSends, ClientAsks, ClientCloses, ClientDrops,
              ClientOpensAdb, ClientIdles, Closed, Chans, Clients
<1>3. CASE Cleared
  BY <1>1, <1>2, <1>3, OrderCleared
<1>4. CASE acc' = Write(acc, "data") /\ app' = app
  <2>1. RxInv'
    BY <1>4, WriteOrder DEF Order, RxInv
  <2> QED
    BY <1>1, <1>2, <1>4, <2>1, WriteOrder, OrderStays
<1>5. CASE acc' = acc /\ app' = app
  BY <1>1, <1>2, <1>5, OrderStays DEF Order, RxInv
<1> QED
  BY <1>3, <1>4, <1>5 DEF Client, ClientOpens, ClientSends, ClientAsks, ClientCloses,
                          ClientDrops, ClientOpensAdb, ClientIdles
\* What the app puts into the pipe is later than what is on its way.
LEMMA OrderPut ==
    ASSUME Order, TypeOK', NEW p \in Packets, acc' = acc, client' = client, chan' = chan,
           app'.pipe = Append(app.pipe, p),
           \/ p < 0 /\ app'.sent = app.sent
           \/ p = app.sent + 1 /\ app'.sent = p
    PROVE  Order'
<1>1. app.pipe \in Seq(Packets) /\ app.sent \in Nat /\ client.heard \in Nat
  BY DEF Order, TypeOK, Apps, Clients
<1>2. acc.got \in Int /\ acc.rx \in Int
  BY DEF Order, TypeOK, Accs, Packets, Ask, Ping
<1>3. /\ Len(app'.pipe) = Len(app.pipe) + 1
      /\ \A i \in 1 .. Len(app.pipe) : app'.pipe[i] = app.pipe[i] /\ app.pipe[i] \in Int
      /\ app'.pipe[Len(app.pipe) + 1] = p /\ p \in Int
  BY <1>1 DEF Packets, Ask, Ping
<1>4. \A i \in 1 .. Len(app'.pipe) : app'.pipe[i] > 0 =>
        /\ client.heard < app'.pipe[i] /\ app'.pipe[i] <= app'.sent
        /\ acc.got < app'.pipe[i]
        /\ Unread(acc.rx) => acc.rx < app'.pipe[i]
        /\ \A j \in 1 .. Len(app'.pipe) : j < i => app'.pipe[j] < app'.pipe[i]
  <2> SUFFICES ASSUME NEW i \in 1 .. Len(app'.pipe), app'.pipe[i] > 0
               PROVE  /\ client.heard < app'.pipe[i] /\ app'.pipe[i] <= app'.sent
                      /\ acc.got < app'.pipe[i]
                      /\ Unread(acc.rx) => acc.rx < app'.pipe[i]
                      /\ \A j \in 1 .. Len(app'.pipe) : j < i => app'.pipe[j] < app'.pipe[i]
    OBVIOUS
  <2>1. CASE i \in 1 .. Len(app.pipe)
    BY <1>1, <1>2, <1>3, <2>1 DEF Order
  <2>2. CASE i = Len(app.pipe) + 1
    <3>1. p = app.sent + 1 /\ app'.sent = p
      BY <1>1, <1>3, <2>2
    <3>2. \A j \in 1 .. Len(app.pipe) : app.pipe[j] < p
      BY <1>1, <1>3, <3>1 DEF Order
    <3> QED
      BY <1>1, <1>2, <1>3, <2>2, <3>1, <3>2 DEF Order
  <2>3. i \in 1 .. Len(app.pipe) \/ i = Len(app.pipe) + 1
    <3>1. Len(app.pipe) \in Nat /\ i \in 1 .. Len(app.pipe) + 1
      BY <1>1, <1>3
    <3> QED
      BY <3>1
  <2> QED
    BY <2>1, <2>2, <2>3
<1> QED
  BY <1>1, <1>2, <1>4 DEF Order, RxInv, Unread

LEMMA OrderWorld == Order /\ World => Order'
<1> SUFFICES ASSUME Order, World PROVE Order'
  OBVIOUS
<1>1. TypeOK' /\ TypeOK /\ acc \in Accs /\ app \in Apps
  BY TypeWorld DEF Order, TypeOK
<1>2. UNCHANGED <<chan, client>>
  BY DEF World, Plug, Unplug, AppAsks, AppAsksAgain, AppPings, AppSends, InDone, OutDone,
         TransferFails, Others
<1>3. CASE Plug \/ Unplug \/ OutDone \/ TransferFails
  <2>1. app'.pipe = app.pipe /\ app'.sent = app.sent
    BY <1>1, <1>3 DEF Plug, Unplug, OutDone, TransferFails, Apps
  <2>2. /\ acc'.rx = acc.rx /\ acc'.got = acc.got /\ acc'.rxBusy = acc.rxBusy
        /\ acc'.in \in {acc.in, "failed"}
    BY <1>1, <1>3 DEF Plug, Unplug, OutDone, TransferFails, Accs
  <2> QED
    BY <1>1, <1>2, <2>1, <2>2, OrderStays DEF Order, RxInv
<1>4. CASE AppAsks \/ AppAsksAgain \/ AppPings
  <2>1. PICK p \in {Ask, Ping} : app'.pipe = Append(app.pipe, p) /\ app'.sent = app.sent
    BY <1>1, <1>4 DEF AppAsks, AppAsksAgain, AppPings, AppPuts, Apps
  <2>2. acc' = acc /\ p < 0 /\ p \in Packets
    BY <1>4 DEF AppAsks, AppAsksAgain, AppPings, Ask, Ping, Packets
  <2> QED
    BY <1>1, <1>2, <2>1, <2>2, OrderPut
<1>5. CASE AppSends
  <2>1. /\ app'.pipe = Append(app.pipe, app.sent + 1) /\ app'.sent = app.sent + 1
        /\ acc' = acc /\ app.sent + 1 \in Packets
    BY <1>1, <1>5 DEF AppSends, Apps, Packets
  <2> QED
    BY <1>1, <1>2, <2>1, OrderPut
<1>6. CASE InDone
  <2>1. app.pipe \in Seq(Packets) /\ app.pipe # <<>> /\ app.sent \in Nat
    BY <1>1, <1>6 DEF InDone, Apps
  <2>2. /\ acc'.got = Head(app.pipe) /\ acc'.in = "idle"
        /\ acc'.rx = acc.rx /\ acc'.rxBusy = acc.rxBusy
        /\ app'.pipe = Tail(app.pipe) /\ app'.sent = app.sent
    BY <1>1, <1>6 DEF InDone, Accs, Apps
  <2>3. acc.rxBusy /\ acc.rx = 0
    BY <1>6 DEF InDone, Order, RxInv, NoPacket
  <2>4. /\ Len(app'.pipe) = Len(app.pipe) - 1 /\ Len(app.pipe) \in Nat \ {0}
        /\ \A i \in 1 .. Len(app'.pipe) : app'.pipe[i] = app.pipe[i + 1]
        /\ Head(app.pipe) = app.pipe[1]
    BY <2>1, <2>2
  <2>5. acc'.got > 0 => client.heard < acc'.got /\ acc'.got <= app.sent
    BY <2>2, <2>4 DEF Order
  <2>6. ASSUME NEW i \in 1 .. Len(app'.pipe), app'.pipe[i] > 0
        PROVE  /\ client.heard < app'.pipe[i] /\ app'.pipe[i] <= app'.sent
               /\ acc'.got < app'.pipe[i]
               /\ \A j \in 1 .. Len(app'.pipe) : j < i => app'.pipe[j] < app'.pipe[i]
    <3>1. i + 1 \in 1 .. Len(app.pipe) /\ 1 \in 1 .. Len(app.pipe) /\ 1 < i + 1
      BY <2>4
    <3>2. \A j \in 1 .. Len(app'.pipe) : j < i => j + 1 \in 1 .. Len(app.pipe) /\ j + 1 < i + 1
      BY <2>4
    <3> QED
      BY <2>2, <2>4, <2>6, <3>1, <3>2 DEF Order
  <2> QED
    BY <1>1, <1>2, <2>2, <2>3, <2>5, <2>6 DEF Order, RxInv, Unread
<1> QED
  BY <1>3, <1>4, <1>5, <1>6 DEF World

LEMMA OrderNext == Order /\ [Next]_vars => Order'
<1> SUFFICES ASSUME Order, [Next]_vars PROVE Order'
  OBVIOUS
<1>1. TypeOK /\ TypeOK'
  BY TypeLoop, TypeWorld DEF Order, Next, TypeOK, vars
<1>2. CASE BTTasks \/ UNCHANGED vars
  BY <1>1, <1>2, OrderStays DEF BTTasks, vars, Order, RxInv
<1>3. CASE ADBTasks
  <2>1. client' = client /\ chan' = chan
    BY <1>3 DEF ADBTasks
  <2>2. Cleared \/ (acc' = acc /\ app' = app)
    BY <1>3 DEF ADBTasks
  <2> QED
    BY <1>1, <2>1, <2>2, OrderCleared, OrderStays DEF Order, RxInv
<1> QED
  BY <1>2, <1>3, OrderUSB, OrderAcc, OrderClient, OrderWorld DEF Next, Loop

\* The data of the app come to the client in order and none comes twice, over
\* the ends and failures of channels and whatever the client does.
THEOREM InOrder == Spec => DataInOrder
<1>1. Init => Order
  <2>1. ASSUME Init PROVE Order
    <3>1. /\ TypeOK /\ client.heard = 0 /\ app.sent = 0 /\ app.pipe = <<>>
          /\ acc.got = 0 /\ acc.rx = 0 /\ ~acc.rxBusy /\ acc.in = "idle"
      BY <2>1, TypeInit DEF Init, NoAcc, NoPacket
    <3> QED
      BY <3>1 DEF Order, RxInv, Unread, NoPacket
  <2> QED
    BY <2>1
<1>2. Order /\ [Next]_vars => [HandsUp => acc.rx > client.heard]_vars
  <2> SUFFICES ASSUME Order, HandsUp PROVE acc.rx > client.heard
    OBVIOUS
  <2> QED
    BY DEF Order, HandsUp, Unread, TypeOK, Accs, Packets, Ask, Ping, Clients
<1> QED
  BY <1>1, <1>2, OrderNext, PTL DEF Spec, DataInOrder
=============================================================================
