# A TLA+ model of TPadFire

TPadFire is a haptic touch screen. An Android application computes friction
patterns; a PIC32 microcontroller, attached to the phone over USB, drives a
glass plate with them. The firmware is the USB *host*: it enumerates the phone,
speaks the protocol of the Android Debug Bridge (ADB) to its adb daemon, and
through it opens a TCP channel (`tcp:4545`) to a server inside the application.
What the application writes there reaches a callback of the firmware as data,
and the callback sets timers and a PWM. The same firmware also carries the Open
Accessory and the Bluetooth way to a phone, behind one connection layer.

This directory holds the model of the program's own logic: TLA+ modules, the
configurations with which TLC checks them, and proofs for TLAPS.
`FW` stands for `src/TPadFirmwarev2/TPadFirmwareV2`, `L` for `FW/_Libraries`,
`JL` for `src/Android Applications/TPadLib/src/nxr/tpad/lib`.

## 1. Inventory

| Component | Code | State it keeps | Operations |
|---|---|---|---|
| Haptic output | `FW/main.c` 210-406 | `tBuff` (two buffers, front, index, lengths, `On`), Timer 3 enable bit, `OC3RS` | `ADBCallback` (texture, magnitude), `handleTexture`, `Timer3ISR` |
| Commands and PWM | `FW/main.c` 250-340, `JL/TPad.java` | `PR2`, `OC3RS`, `tpadMAG` | `send`, `freq`, `texture`, `keepAlive`; `ADBCallback`, `PWM_Set_DC` |
| Main loop | `FW/main.c` 118-208 | `state`, `h`, the core timer | the four states of `main` |
| Connection layer | `L/libconn/connection.c` | one state for each of ADB, accessory, Bluetooth | `ConnectionTasks`, generic channels |
| ADB host | `L/libadb/adb.c` | `adb_channels[8]`, `adb_conn_state`, the buffer's reference count, the id counter | `ADBOpen`, `ADBWrite`, `ADBClose`, `ADBTasks` |
| ADB packets | `L/libadb/adb_packet.c` | a state, a header and data for either direction | `ADBPacketSend`, `ADBPacketRecv`, `ADBPacketTasks` |
| ADB files | `L/libadb/adb_file.c` | two file slots, a message half received in each | `ADBFileRead`, `ADBFileClose`, its callback, `ADBFileTasks` |
| Open accessory | `L/libconn/accessory.c` | state of the one channel, the byte `is_channel_open` | `AccessoryOpenChannel`, `AccessoryWrite`, `AccessoryCloseChannel`, `AccessoryTasks` |
| Bluetooth application | `L/libconn/bt_app.c` | `rfcomm_channel_id`, `rfcomm_send_credit`, the client's callback | `BTInit`, `BTSetCallback`, `BTWrite`, `BTClose`, `PacketHandler` |
| Bluetooth stack | `L/libbtstack` (vendored) | `hci_stack`, channels and waiting responses of L2CAP, the multiplexer, its channel and credits, the SDP answer under way | handlers of events, of ACL packets and of sent packets |
| Android USB driver | `L/libusb/usb_host_android.c` | interfaces, busy flags and results of their endpoints | init handlers, `USBHostAndroidRead`, `Write`, `Tasks`, `Reset` |
| Bluetooth USB driver | `L/libusb/usb_host_bluetooth.c` | the device, four endpoints | init handler, reads and writes, `USBHostBluetoothTasks` |
| USB host stack | `L/microchip/usb/usb_host.c` (vendored) | host state and substates, descriptors and configurations in memory, endpoints and the token under way | `USBHostTasks`, `USBHostRead`, `USBHostWrite`, `USBHostIssueDeviceRequest`, the USB interrupt |
| App server | `JL/Server.java`, `JL/Client.java` | clients, listeners, threads | accept loop, client threads, `send`, `close`, `stop` |
| App library | `JL/TPad.java` | `isConnected`, keep-alive thread | `startTPad`, `stopTPad`, the commands |
| Pins, logging, tables, demo applications | | nothing that changes, or user interface | |

How they interact. The firmware has one loop and two interrupts. A pass of the
loop is `ConnectionTasks` (USB stack, drivers, then `ADBTasks`, `AccessoryTasks`
and the Bluetooth endpoints, each of which calls the callbacks above it)
followed by one step of `main`'s switch. Timer 3 interrupts it at 10 kHz to play
the next sample of a texture; the USB interrupt performs the transfers the loop
started. Nothing is locked: the interrupts and the loop share `tBuff`, the PWM
registers and the endpoints. The Bluetooth stack runs wholly in callbacks of the
driver's poll. The phone, its radio and the bus run concurrently with all of it.
In the app, the user interface, the thread that accepts, one thread per client
and the keep-alive thread share the list of clients and the sockets.

What is hard, and what correctness means for each part:

- *Haptic output*: the interrupt falls between any two stores of the callback,
  which the compiler may reorder. No sample of a half-written texture or beyond
  its end may be played; a newer texture wins and lasts.
- *Commands*: one packet need not be one command. When everything has arrived
  the device is as the commands ask, and the output is still a wave.
- *Main loop*: time-outs, an unplugged cable and a refused channel, in any
  order. `main` must not rely on a channel of an earlier phone, and must get a
  channel again.
- *ADB host*: eight channels share one packet slot in each direction, one data
  pointer per channel is the flow control, ids are reused, errors and
  detachment clear the table. Data arrive once and in order on the channel they
  were sent on; a channel the client holds is the one it opened; every opening
  and closing is resolved.
- *ADB packets*: the loop polls flags the interrupt writes; transfers fail half
  way through a packet. What is reported as sent was taken, what is handed up is
  whole, and every sending ends.
- *ADB files*: a message and its header are cut into packets anywhere, slots are
  found by the handle of a channel that may be reused, the client may close
  inside its callback. A client gets its file, all of it, once, and an end.
- *Connection layer and accessory*: three interfaces come and go, the answer to
  the app is a byte sent by reference, a failed write resets the device later.
  No assertion fails, the app hears the truth, data stay in order.
- *USB host stack, enumeration*: about twenty steps, each of which may fail, be
  tried again, or be cut short by the plug, with memory allocated on the way. No
  block is lost or freed twice, no driver keeps a device that has left, faults
  are overcome, and a departure is noticed.
- *USB host stack, transfers*: packets and handshakes get lost, tokens are
  refused, endpoints share the frame. Data arrive once and whole, and every
  transfer ends.
- *Bluetooth*: one buffer for commands and data, credits at three layers,
  answers that wait for the endpoint, connections that are lost at any point. No
  packet is overwritten, no credit exceeded, nothing of a connection remains
  after it, a session gets to its end.
- *App server*: threads are started before what they belong to is registered,
  and `stop` meets them half way. A device is told its frequency; no client,
  thread or socket of an ended connection remains.

`PROJECT.json` lists the hazards line by line with the properties that cover
them, and says of the others why none does.

## 2. Modules

| Module | Models | Lives on |
|---|---|---|
| `HapticOutput` | abstract: one current texture, replaced at once and as a whole | |
| `Texture` | `tBuff`, `handleTexture`, the magnitude command, `Timer3ISR` | implements `HapticOutput` |
| `Commands` | bytes of the commands, packets, dispatch, PWM counts | |
| `Adb` | `adb.c` and `ConnADBTasks`, with the daemon and the client | |
| `TPadMain` | `main` | EXTENDS `Adb`, whose client it is |
| `AdbPacket` | `adb_packet.c`, the driver, bulk transfers and interrupt | |
| `AdbFile` | `adb_file.c` over channels as `Adb` gives them | |
| `Connection` | `connection.c`, `accessory.c` and the driver's accessory endpoints | |
| `UsbHost` | enumeration, memory, drivers, detachment | |
| `UsbTransfer` | transfers token by token, toggles, errors, frames | |
| `Hci`, `L2cap`, `Rfcomm`, `Sdp` | the layers of the Bluetooth stack and `bt_app.c`, as functions of its state | each EXTENDS the one before |
| `BtStack` | the handlers that join the layers | EXTENDS `Sdp` |
| `Bluetooth` | the stack with its USB driver, the controller, a phone and the application | EXTENDS `BtStack` |
| `AppServer` | `Server.java`, `Client.java` and the threads of `TPad.java` | |
| `MCTexture`, `MCAdb`, `MCAdbFile`, `MCCommands`, `MCConnection`, `MCUsbHost`, `MCUsbTransfer` | values for TLC | |
| `HapticsProofs`, `AdbProofs`, `AdbFileProofs`, `AdbPacketProofs`, `ConnectionProofs`, `UsbHostProofs`, `UsbTransferProofs`, `BluetoothProofs` | theorems | `HapticsProofs` is about `Texture` and `Commands`, `AdbProofs` about `Adb` and `TPadMain` |

**Texture.** A store of the callback to a shared variable is a step: `SetLength`,
`CopyCell` (one cell of `memmove`), `CommitIndex` and `FlipFront`, or
`CommitFront` and `ResetIndex` (`tBuff` is not volatile, so the build may swap
the two), `StartTimer`, `ResumeTimer3`; `SetMagnitude`, `PauseTimer3`,
`SwitchOff` for a magnitude. `Timer3ISR` is one step, since the loop cannot
preempt it. A sample is represented by the number of the command that brought
it. `Burst` bounds the interrupts between two adjacent stores: the sample period
is 100 us, so it is 1 but for a very long stall, and 0 between a flip and a
later reset.

**Commands.** The app's messages are sequences of bytes as `TPad.java` encodes
them; `Receive` hands one packet, made of up to `MaxMerge` consecutive messages,
to `ADBCallback`. Commands that share a packet are lost or misread
(`main.c:293`), so `Obeyed` is for `MaxMerge = 1`. `Duty` is `PWM_Set_DC` in integers: a quotient that is whole
may come out one lower in floating point. `meant` is what the commands sent so
far ask for. The handler is one step here; its interleaving is `Texture`'s.

**Adb.** `pc` is the place in a pass of the loop: the client, the bus and the
phone act at "idle"; `ADBTasks` handles a received packet and then serves the
connection and one channel. `adb_packet.c` appears as one packet being sent and
one being received, each of which ends or fails. The daemon is external: it
answers OPEN, WRTE and CLSE as `ADBHandlePacket` expects, has one unacknowledged
packet per socket, and may send another packet before CNXN. The client's
openings are numbered; `app` is the opening it holds on each handle, which it
forgets when its callback reports a closure.

**TPadMain.** A pass is `ConnectionTasks` (the steps of `Adb`) and a step of
`main`, which is the client of `Adb`: `PassInit`, `PassWaiting`,
`PassNotConnected`, `PassOpen` (`ADBOpen` followed by the `ADBWrite` of the
hello), `PassNoChannel`, `PassConnected`. The core timer is one bit, `expired`,
set by `Tick` and cleared by `main` and by a keep-alive. A new enumeration takes
at least two passes (`EnumPasses`); it takes tens of milliseconds in reality.

**AdbPacket.** `pc` is the access of the loop that comes next, in the order of
the code: the flag of the IN endpoint and then its result, the same for OUT,
`ADBPacketSendTasks`, `ADBPacketRecvTasks`, the client. Filling in an endpoint
and clearing `bfTransferComplete` are two steps. The interrupt (`Sof`, `OutAck`,
`InData`, `Nak`, `BusError`, each ending in `FindNextToken`) may fall between
any two. The phone may cut the data of a packet short, spoil their checksum or
the header's magic; a transfer may stall. `Restart` is the reset of the USB
device after an error.

**AdbFile.** `files` are the slots, `chan` the channels of `adb.c` as a client
sees them, `reads` one record per call of `ADBFileRead` with what its callback
was given. `call` is the call of a callback that is under way: a turn of the loop
in `ADBFileCallback` is a step, so that the client's closing of a file within its
callback falls inside the loop. The phone answers with one of `Replies`, cut
into packets anywhere, and may close at any point. When a client closes inside
its callback, the slot is cleared under the loop. After a whole message
(`DataClosed`) the loop goes on as after one of 0 units, and takes the data that
it has just handed up for a header: if they fill one, the slot ends in an error
and a null pointer is called (`failed`); if not, it is left with a part of a
header and no client. After a part of a message (`DataPartClosed`) it returns. A
client that closes in the callback of the end leaves `ADBClose` with the handle
0, so that the channel of the application is closed (`DataDone`). Contents that
look like a header are left out. The other way to `failed` is `ADBReset`, which
calls the callback also of a channel that the end of a file or `ADBFileClose`
has closed, whose slot is cleared (`ResetOne`).

**Connection.** `turn` is the part of the main loop that is next: the drivers'
tasks, the accessory, ADB and Bluetooth states of `connection.c`, the client.
`acc` holds the interface of the driver with both endpoints, `chan` the channel
of `accessory.c`. The byte of the answer is read when it is *sent*, as the
transfer does, not when the write is started. Every assertion of the three files
is a guard whose failure puts its name into `failed`; the program goes on, as it
does in the build of the firmware, which defines `NDEBUG`. A client may use the
generic API; with `Careful` it asks first in each pass for its interface
(`ConnectionTypeSupported`), and asks `ADBConnected` as well as
`ConnectionCanOpenChannel`, since the latter alone lets `ADBOpen` be called in
the pass in which ADB had an error (`connection.c:219`). No such care helps in
`ClientSends`: `ConnectionCanSend` resets a device that did not take the last
write and says that it can be written to, and `ConnectionSend` then fails the
assertion of `USBHostAndroidWrite` (`AfterReset`).

**UsbHost.** `Now` is the host state and substate; a call of `USBHostTasks` is
the action named for the substate it is made in, with the control transfer it
starts or waits for as a step. `heap` counts the blocks of each kind malloc has
handed out beside the pointers and lists that hold them. Requests fail, malloc
returns nothing and clients reset the device, `MaxTrouble` times altogether; a
request that fails may have been carried out by the device. `android` and
`bluetooth` are the two drivers' own state. The interrupts set `override`, which
the next call takes as its state. A plug may leave between any two calls, and an
interrupt that is due is served before the next. Within a call it may leave only
in `HOLD_INIT`, which clears all flags (`usb_host.c:2633-2639`), and only with
`QuickUnplug`, as before the settling has begun: at both places the flag is
cleared after the departure, which is then missed. A module that set the flag
again while nothing is attached would need no such exception; the code does not
say that it does, and the model does not assume it.

**UsbTransfer.** `ep` is the host's view of its endpoints, `dev` the device's;
either has a toggle. A token, its data or its handshake may get lost. The
interrupt's end of a token (`TokenEnds`), the start of a frame, and the choice
of the next token (`FindNextToken`, in the order control, interrupt, bulk) are
the code's; the device refuses tokens as it likes.

**Bluetooth.** The stack has no concurrency of its own, so each layer is a module
of functions from its state `S` to the next, with the names of the C functions;
`BtStack` has the handlers of the three things the driver reports. A pass of the
driver looks at the four endpoints in turn; transfers complete, the controller
and the radio answer, the phone and the application act at any time between. The
phone pairs, queries the service record in pieces, opens multiplexer and channel,
exchanges data, closes in order or gets lost. It is one phone, polite and
sequential: a step of the protocol follows the answer to the one before, one
command per signaling packet, pairing before the connection is complete, of the
three queries of SDP only the one for services and attributes at once, a new
call only when the old connection has ended on both sides, and its first packet
after the controller's event of the connection was read. Transfers of an
attached dongle do not fail.

**AppServer.** A step is what a thread does to something another thread uses:
a field, the list (a walk sees it as it was at its start, as
`CopyOnWriteArrayList` does), a socket. `stop` may come at any step of the
others. The peer may go at any time, which is found out by a write, late, or by
the end of the stream.

## 3. Runs

Every run is expected to pass.

| Run | Question | Shown |
|---|---|---|
| `texture` | the double buffer, under every interleaving of the commit stores (in either order) with the interrupt | `PlaysValidData`; it implements `HapticOutput` (`HapticSpec`); `TextureHeard`, unless superseded |
| `commands` | a command per packet | `Obeyed`: the device is as the commands ask; `Oscillates`: the pulse is neither empty nor full |
| `tpad` | `main` over the ADB host, time-outs, an unplugging | `FreshSession`; `Connects` while a channel is free; `AbandonsDead` |
| `adb` | channels, flow control and reference count, with an error, a detachment and a foreign first packet | `HeldIsLive`, `InOrderWrites`, `NoSpuriousAck`, `ReceiverArmed`, `InOrderDelivery` |
| `adb_live` | openings, and closings at any point, beside a channel on which the daemon sends without end | `OpenResolves`; `CloseCompletes`, if the closure is answered |
| `adb_packet` | packets over transfers, the interrupt anywhere, faults | `SentIsTaken`, `ReceivedIntact`, `BufferIsStable`, `SendEnds` |
| `adb_file` | two files at once beside another channel, packets cut anywhere, resets, closings by either side | `HandsContents`, `SlotsMatch`, `ReadEnds` |
| `connection` | devices come and go, transfers fail, the accessory channel is asked for, opened, lost, closed | `AssertsHold`, but for one assertion; `AnswerIsTrue`, `DataInOrder`, `ChannelOpens` |
| `usb_host` | a device of any kind is enumerated and unplugged between any two calls of `USBHostTasks`, but not before the settling, with trouble | `NothingLeaks`, `DriversHaveADevice`, `FaultsAreOvercome`, `UnplugNoticed` |
| `usb_transfer` | two endpoints share the bus, which loses things | `SentOnce`, `ReceivedWhole`, `FewFaultsAreOvercome`, `TransfersEnd` |
| `bluetooth` | two sessions of a phone, with a loss of the radio, and an application that closes | `BufferIsStable`, `FlowIsKept`, `NothingStays`, `SessionEnds` |
| `app_server` | two connections that end at any moment, and a stop at any moment | `Tuned`, `ClientsEnd` |

Every property has a mutant in `PROJECT.json`: a plausible bug in one definition
under which its run fails.

What the code does that the properties have to excuse, each at its line:

- `main.c:325-327`: the interrupt between `PWM_Set_DC` and `pauseTimer3` replaces
  a magnitude by a sample. `HapticOutput` allows a sample until the timer pauses.
- `main.c:293`: of two commands in one packet the second is lost; `commands` sends
  one per packet.
- `main.c:182`: the hello is written on a channel that is not open yet, against
  the assertion in `adb.c:292`. The build defines `NDEBUG`, and the write is then
  sent when the channel opens: that is modelled, and no property speaks of the
  assertion.
- `main.c:198-200`: a time-out goes back to WAITING without closing the channel
  (the comment promises a USB reset), so that repeated time-outs use up the
  table; `Connects` asks for a free channel.
- `adb.c:302`: the detachment clears the channels and tells no client;
  `HeldIsLive` is for clients that watch `ADBAttached`, as `main` does.
- `adb.c:169-171`, `198-206`: a channel that is closed before the OKAY to its OPEN
  is handled does not learn its remote id. That OKAY is dropped, CLSE goes out
  with the id of the slot's last use, and the daemon does not answer it: the slot
  waits in WAIT_CLOSE until the connection ends, although "the actual close will
  happen shortly" (`adb.h:149`). `CloseCompletes` excuses just the channels whose
  closure the daemon has not answered and will not (`ClosureAnswered`).
- `adb.c:138`: a first packet other than CNXN ends the reception before there is a
  connection; `ReceiverArmed` speaks of a connected phone. `adb.c:343`: nobody
  looks at a CNXN that failed to be sent; the runs of liveness have no failed
  transfers.
- `adb_packet.c:185`: data that were announced and never come are waited for
  without a time-out; nothing is claimed of the end of a reception.
- `adb_file.c:150`, `190`: a client that closes its file inside the callback may
  leave the loop to call a null pointer. `adb_file.c:114`: after the end of a
  file or `ADBFileClose` the channel waits for the phone to close it, too; a reset
  in that time (`adb.c:121-123`) calls `ADBFileCallback`, which finds no slot and
  fails its assertion, although "the callback function will no longer be called"
  (`adb_file.h:91`). `ReadEnds` excuses a program that has stopped in one of these
  two ways (`Stopped`). `adb_file.c:155-156`: a client that closes in the
  callback of the end closes the application's channel with it; no property of
  `adb_file` is about that channel.
- `accessory.c:120-125`: `ConnectionCanSend` resets the device after a write that
  failed and says TRUE, and `ConnectionSend` then fails the assertion in
  `usb_host_android.c:252`. It is the one assertion that `AssertsHold` allows, under
  a name that no other place has (`AfterReset`). `connection.c:219`: see
  `Connection` above.
- `usb_host.c:2633-2639` and `1572-1591`: a plug that leaves in the call of
  `HOLD_INIT`, or before the settling has begun, is missed. With `QuickUnplug` only
  `NothingLeaks` holds; the other three properties of `usb_host` do not.
- `rfcomm.c:767`: a multiplexer that has still to answer on DLCI 0 stays when its
  connection is lost (`Leaked`). `l2cap.c:645`: a response that was kept back may
  wait for an event that is past (`Stalled`). `NothingStays` and `SessionEnds`
  excuse just these states.
- `TPad.java:91`: a client that connects before `addListener` is not tuned
  (`missed`). `Server.java:148`: a client accepted while `stop` walks the list
  stays open (`Late`). `TPad.java:136`: one flag for all clients; nothing reads
  it, and nothing is claimed of it.

Bounds, and why they suffice.

- `texture`: buffers of 4 cells and textures of 2 to more than 4 samples give
  every relation between an old length, a new length, the index and the
  capacity; 4 commands let a texture supersede one that superseded another.
- `adb`: 2 channels compete for the send slot, 2 openings reuse a slot and an id,
  2 numbers tell a datum from its neighbours since one is under way at a time, 1
  error, 1 attachment. `adb_live`: 2 channels so that one can starve the other;
  the client closes in every state of a channel, and 2 openings let a slot have
  had an id before.
- `tpad`: 1 channel, so that it runs out, 2 sessions and 2 openings.
- `adb_packet`: a USB packet of 2 units, data of 2 (exactly one USB packet) and 3
  (one and a short one), no data, 2 packets each way, 1 fault of any kind.
- `adb_file`: 2 slots and 3 channels, one of them the application's, so that
  handles and slots differ; a header of 2 units is cut in the middle by packets
  of 1 to 3; 8 replies with no, one and two messages of data, failures before
  and after data, unknown ids, data after the end and a second end.
- `usb_host`: 6 kinds of device (ADB in a second configuration, accessory
  protocol, accessory, dongle, hub, interfaces that do not suit), 2 tries of a
  command, 3 of an enumeration, 3 troubles: as many as give up an enumeration.
  A plug leaves before the settling delay and in the call of `HOLD_INIT` only with
  `QuickUnplug`, which is off.
- `usb_transfer`: messages of half and of exactly one packet, 3 retries, 1 control
  NAK, every pair of endpoints with a bulk one, 1 loss.
- `connection`: 4 kinds of device, 2 plugs so that one follows another, 1 failed
  transfer, 2 numbered data, one packet in the phone's pipe.
- `bluetooth`: as many L2CAP channels as the firmware (the record's and the
  serial one), 3 responses and 3 buffered packets as it has; the 0x30 and 5
  credits of RFCOMM become 1 and 1, and the phone gives 1, so that both run out;
  2 packets each way; the buffer of the record and an MTU of 60 make the answer
  come in pieces; 2 sessions with 1 loss, so that what a lost one leaves meets
  the next.
- `commands`: 4 messages; 4 magnitudes with the two ends and one under the
  1 percent clamp; 3 frequencies within 20 to 33.7 kHz; textures too short,
  shortest and longer with samples that look like commands.
- `app_server`: 2 connections, so that one outlives another.

Fairness. The firmware's loop never blocks, hence weak fairness of its steps.
Timer 3 and the start of frame are hardware and come for ever. A token has some
answer, no answer being an error; the bus and the phone do not refuse or delay
for ever what they can take, hence strong fairness of a transfer or an answer
that is enabled again and again. Nothing is assumed of the application or of
what the phone wants to send, except where a property is about a peer that goes
on: an app that asks again for its channel (`ChannelOpens`), a phone that ends
its replies (`ReadEnds`), a phone and a controller that go on (`SessionEnds`).
In `TPadMain` time passes only where no keep-alive can reset the timer
(`Silent`). In `AppServer` every thread that can run does, and so does a task on
the queue of the user interface. In `UsbHost` and `Connection` the plug, the
faults and the clients may act or not.

## 4. Proofs

All theorems hold for every value of the constants that meets the assumptions
named in the modules.

- `HapticsProofs`, on `Texture`. `TypeCorrect` and `WholeTexture` hold whatever the order of
  the commit stores and the number of interrupts. `ValidPlayback`,
  `FlagFollowsTimer`, `NewestWins` and `Refinement` follow from the inductive
  invariant `Inv`: types, the lengths of both buffers (`LengthInv`), what the
  buffers hold by the place in the handler (`ContentInv`), the order of commands
  (`OrderInv`), and the timer against the flag by the place in the handler
  (`TimerInv`). `PlaysValidData` is not inductive: between `Index = 0` and the
  flip the index moves on over the *old* front buffer, and may have passed by as
  many cells as there were interrupts; `IndexInv` says so, and needs `Burst` to
  be less than the shortest texture before a flip and 0 before a later reset.
  `Refinement` shows each step to be one of `HapticOutput` or a stutter.
- `HapticsProofs`, on `Commands`. `OutputOscillates` assumes `WithinOctave`, that no two periods
  are more than an octave apart and that one percent of each is two counts or
  more, as is so from 20000 to 40000 Hz: `PWM_Set_DC` keeps a pulse between a
  percent and half of the period it was set for, and a command for another
  frequency leaves the pulse as it is. It holds for packets of any number of
  commands, because a packet that `ADBCallback` takes for a frequency is no longer
  than that one command. `CommandsAreObeyed` assumes `Paced`, that a packet holds
  one command (with more, what comes after the first may be lost) and that
  no texture is longer than the buffer. What is sent but has not arrived is the
  difficulty: `WillObey` says that there is a row of states, one for each command
  under way, that leads from what the device is to what is meant.
- `AdbProofs`. `TypeCorrect`; `HeldChannels`: a client that watches `ADBAttached`
  never holds a channel that was cleared or reused, by an invariant that ties
  `app` to the local id and state of the slot through every packet handler;
  `ReceptionGoesOn`: the reference count is 1 whenever connected, by an
  invariant that adds what the count may be while a packet is being handled.
  `WritesInOrder`, `AcksAreAwaited` and `DeliveryInOrder`, from
  one inductive invariant, `OrderInv`. The packet in a port belongs to the stream
  of its direction (`Incoming`, `Outgoing`), so that a transfer that ends changes
  nothing and every other step takes the first packet of a stream, adds a last
  one, loses the one being sent, or does none of these. None of the three is
  inductive: each needs to know which channel, opening and socket a packet is
  about, long after the slot has been given to another opening. Hence the parts:
  ids that are named anywhere were given (`IdInv`), and bind one socket to one
  opening (`BindInv`); an opening is answered once, before any data (`OpenInv`);
  after a closure nothing of its socket comes (`CloseInv`); data, what the channel
  owes for them and the OKAY are one token, for which the daemon waits
  (`AckInv`); the token in the stream carries the next data (`DeliverInv`); a WRTE
  and its OKAY are one token, which a channel in IDLE does not have (`WriteInv`).
  Before a connection nothing is open and only CNXN and unknown packets are
  under way (`StartInv`), because `ADBReset` and a detachment end the session.
  `FreshChannel`: with a phone attached, `main`'s channel is of
  this session. The invariant counts the passes since the detachment against
  `main`'s state: after two passes `main` has left CONNECTED, and only then may
  an enumeration be over. One pass is not enough, because `ADBConnected` stays
  TRUE after the loss and `main` may open a channel in that pass.
- `AdbFileProofs`. `SlotsAreOwn` and `ContentsAreHanded`, for any slots, channels,
  reads, replies and errors, and packets of any size. Both assume `AppFirst`, that
  the first channel is the application's, as `main` sees to by opening it first:
  a slot that is free has handle 0, and `ADBFileCallback` looks slots up by their
  handle alone (`adb_file.c:103`, `198`). The first invariant (`SlotInv`) ties
  slots, channels and reads to each other in both directions: not only has a slot
  a live channel, an open channel of a read has its slot, and a slot that is
  called for is the one of the channel that calls. The second (`SlotsOk`) is the
  place in the reply that a slot has come to (`At`): so many messages are over,
  so much of the next one was handed on, and what is in hand together with what
  is still to come is the rest of the stream. The stream is a sum of sequences
  (`FlattenSeq`); what such a sum is after each of them is proved first, by
  induction over the naturals written as a set (`NatIsInductive`).
- `AdbPacketProofs`. `StableBuffers`: while a received packet is handled and
  while the next packet is filled in, no transfer over their buffers is open.
  The loop knows a transfer only by `rxBusy`/`txBusy`, which it clears one access
  after it has read `bfTransferComplete`; the invariant (`Flags`) ties the busy
  flags, the flag read (`seen`) and the states of `adb_packet.c` to
  `bfTransferComplete`, and every action of the interrupt is shown only ever to
  set it. Nothing is assumed of the order of the interrupt's search, of lengths
  or of faults.
  `SentPacketsAreTaken` and `ReceivedPacketsAreIntact` follow the units of a
  packet. For what is sent, `OutTransfer` says that the transfer that is open, or
  has ended and was not looked at, is the one of the send state, and `PhoneReads`
  that the phone has read just what the endpoint has sent of it and waits for the
  rest. For what is received, `StreamTo` says that the phone's transfers that were
  not read are the rest of a stream of packets, and `InTransfer` at which place in
  it the open transfer is. Data that come short are filled up with the next
  header; the checksum tells, but only once the transfer has ended, which is why
  the invariant lets the buffer hold such data until then.
- `ConnectionProofs`. `TypeCorrect`; `OneAssertionFails`: a `Careful` client makes
  no assertion of the three files fail but that of `USBHostAndroidWrite` after the
  reset in `AccessoryCanWrite`; `TrueAnswers`: the app hears 1 only of an
  open channel that has a client; `InOrder`, which needs no care of the client:
  data come in order, none twice. The invariant has two parts. `Agree` ties the
  state of `connection.c`, that of the channel, the busy flags and the client to
  each other and to what the driver has; between the pass in which a device
  leaves and the one in which `connection.c` sees it they disagree, and `Missed`
  says that this is over before the next device can be enumerated, which is
  where `EnumPasses >= 2` is used. `Order` is the chain along which data move:
  what the phone's pipe holds is newer than what the endpoint has got, that
  newer than what the driver hands up, and that newer than what was heard.

- `UsbHostProofs`. `NoLeak`: malloc and free of the host stay in balance for any
  set of devices and any failures. It rests on what each substate knows of the
  lists (`DescriptorInv`): `GET_DEVICE_DESCRIPTOR_SIZE` frees the descriptor of
  the try before, so that the malloc of its last step overwrites no pointer, and
  a configuration is read only after the node for it was made, of the device that
  is still there. `NoStaleDriver` and `FaultsOvercome` assume `QuickUnplug = FALSE`: a
  plug that leaves before `SETTLE` clears the flag of detachment, or while
  `HOLD_INIT` does, is not noticed, and the code has nothing against it. `Calm` says that no device has left since
  the settling began; then what the host has read is of the device that is there
  (`DeviceInv`), a driver has interfaces only from `INIT_CLIENT_DRIVERS` to its
  notification (`DriverInv`), and a try of the enumeration that is given up has
  cost a request that failed (`FaultInv`): the host and the device have the same
  address in every substate but between the device's obeying SET ADDRESS and the
  host's taking it over, or else such a request has already been counted.

- `UsbTransferProofs`. `WrittenOnce`, `ReadsAreWhole` and `FaultsAreOvercome`, for
  any messages, packet size and use of the endpoints. `Writes` says of an OUT
  endpoint that its toggle differs from the device's just when the device has the
  packet that will come again and its answer was lost; `Reads` the same of an IN
  endpoint the other way round, so that the host has what comes again and drops
  it. A packet that is to come again will be an error of its own (`Behind`), which
  the loss has to pay for in advance: so `Counted` bounds the errors of a transfer
  by twice the losses.
  The search for the next token runs through all endpoints; of it only `Kept` is
  needed, that it leaves an endpoint as it is or closes a transfer that is over.

- `BluetoothProofs`. `BufferStaysPut`, `EverythingEnds` and `SlotsAreKept`, for
  any number of sessions, losses, packets and credits, any MTU, and any number of
  slots that fits the byte `hci.c` keeps it in (`SlotsAssumption`). All assume
  `ChannelNumbersLast`: `l2cap_next_local_cid` counts in 16 bits and looks at
  nothing, so after 65471 channels a number may be that of a channel that is
  open. The proof has two halves. `Sound` is about the stack alone and is kept by
  every handler, whatever the phone sends: channels have numbers of their own and
  exist only while there is a connection; what `sdp.c` and the multiplexer name
  is an open channel of theirs, but for a multiplexer that waits to answer; a
  serial channel has a multiplexer, the application's is that channel. Each
  handler is shown to do one of a few things to the rest (`Handled`, `Steady`),
  and its loops end because each turn of them has one thing less to do. The other
  half (`IInv`) is the order of things. The buffer is shared by commands and
  data, and only some of those who fill it look whether they may: so the proof
  shows that commands and data belong to different phases. A command flies only
  while nothing else is there (`Silent`), the controller has room for a command
  only when none flies and the last one's answer was read (`TokenOk`), and the
  endpoint of the commands is polled between two reads of events
  (`EndpointsOk`); `PhasesOk` says for each phase of the phone what may wait in
  the queue of events and which command may fly, `BootOk` the same of the
  initialisation. Nothing is assumed of fairness or of the order in which the
  controller, the radio and the phone act.
  `SlotsAreKept` is the first part of `FlowIsKept`: the controller never has more
  packets to transmit than it has room for. Its invariant, `SlotsOk`, stands on
  `IInv` and is a balance: what `hci.c` counts as sent is what waits on the
  endpoint (`Pending`), is on the air (`radio`), or was reported in an event that
  was not read yet (`Completed`); when the link is gone but its end was not read,
  only the last of these is left, and is still no more than the count, so that
  the byte does not run below 0.

Only model-checked, and why: liveness and what rests on fairness or ENABLED;
the credits and contents in `FlowIsKept` of `Bluetooth` (its slots are proved),
which need to know of every packet on the way between the application and the
phone, through four layers, what it carries; and
`AppServer`, of whose properties only those of liveness are not plain.

## 5. Not modelled

- USB host stack: isochronous transfers and transfer events, which are not
  configured; suspend, resume, OTG and the configuration by a client, which
  nobody calls.
- Bluetooth: outgoing connections and channels, port negotiation, the link key
  database, timers and the UART transport, none of which the firmware uses;
  failed transfers of a dongle that stays, a second initialisation
  (`BTShutdown`), several phones, a phone that pipelines or sends malformed
  packets.
- `connection.c`: sending and closing an ADB channel through the generic API,
  which are `Adb`'s operations; its Bluetooth channels, which are `BtStack`'s.
- `adb.c`: `ADBBufferRef`, which has no caller; formatting in `ADBOpen`.
- App: data from the device, of which `TPad` makes nothing; I/O errors other
  than those of a closed or reset socket. The demo applications call `TPad.java`
  and draw.
- Pins, logging, USB tables, board layouts: no state that changes. The contents
  of the tables appear in `UsbHost` as `usbTPL`.
- Division by a frequency of 0, and frequencies beyond a TPad's resonance.
- The C compiler and the PIC32: a store is a step where it is shared with an
  interrupt, and a function is a step where it is not.
