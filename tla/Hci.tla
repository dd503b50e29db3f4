-------------------------------- MODULE Hci --------------------------------
(***************************************************************************)
(* The lower half of the Bluetooth stack of the firmware: hci.c over       *)
(* hci_transport_mchpusb.c and usb_host_bluetooth.c.                       *)
(*                                                                         *)
(* The stack is single threaded and made of callbacks, so that a handler   *)
(* is one function from the state of the stack to the next.  The state is  *)
(* a record; this module knows its fields usb and hci:                     *)
(*   usb   the endpoints and the one buffer commands and ACL packets share *)
(*   hci   hci_stack                                                       *)
(* A command and an event are records with a field "cmd" or "ev".          *)
(*                                                                         *)
(* The configuration is that of the firmware: no run loop, no timers, no   *)
(* control, no UART and no database of remote devices.                     *)
(***************************************************************************)
EXTENDS Integers, Sequences

CONSTANT
    HostAddr       \* what stands for no address

NONE == [cmd |-> "NONE"]

\* The endpoints: a read is armed, a write is under way.
UsbInit == [intIn |-> FALSE, bulkIn |-> FALSE,
            ctrlOut |-> NONE, bulkOut |-> NONE, buffer |-> NONE]

HciInit == [state |-> "OFF", substate |-> 0, num_cmd |-> 0, total_acl |-> 0,
            conn |-> NONE, decline |-> HostAddr, scan |-> NONE,
            discoverable |-> FALSE, connectable |-> FALSE, overrun |-> FALSE]

\* create_connection_for_addr: the pool has room for one.
NewConnection(addr) ==
    [cmd |-> "CONN", addr |-> addr, state |-> "RECEIVED_CONNECTION_REQUEST",
     open |-> FALSE, sent |-> 0, recombination |-> NONE]

connection_for_address(S, addr) ==
    S.hci.conn # NONE /\ S.hci.conn.addr = addr

connection_for_handle(S) == S.hci.conn # NONE /\ S.hci.conn.open

----------------------------------------------------------------------------
(* Sending.                                                                *)

hci_number_outgoing_packets(S) ==
    IF connection_for_handle(S) THEN S.hci.conn.sent ELSE 0

\* (Mutant: what is under way is not counted.)
AllSlots(S) == S.hci.total_acl

hci_number_free_acl_slots(S) ==
    IF S.hci.conn = NONE THEN S.hci.total_acl
    ELSE IF S.hci.total_acl < S.hci.conn.sent THEN 0
    ELSE S.hci.total_acl - S.hci.conn.sent

CanSendCommand(S) == S.usb.ctrlOut = NONE /\ S.hci.num_cmd > 0

\* (Mutant: the endpoint is not looked at.)
HasSlot(S) == hci_number_free_acl_slots(S) > 0

CanSendAcl(S) == S.usb.bulkOut = NONE /\ hci_number_free_acl_slots(S) > 0

\* hci_create_cmd_internal fills the buffer before hci_send_cmd_packet looks
\* at anything; the transport refuses a command while it is busy with one.
hci_send_cmd(S, c) ==
    [S EXCEPT !.usb.buffer = c,
              !.usb.ctrlOut = IF @ = NONE THEN c ELSE @,
              !.hci.num_cmd = (@ - 1) % 256,
              !.hci.overrun = @ \/ S.hci.num_cmd = 0]

\* An ACL packet whose content is already in the buffer.  Its slot is counted
\* whatever the transport says; for a connection that is gone nothing is sent.
hci_send_acl_packet(S, p) ==
    IF hci_number_free_acl_slots(S) = 0 \/ ~connection_for_handle(S)
      THEN [S EXCEPT !.usb.buffer = p]
    ELSE [S EXCEPT !.usb.buffer = p,
                   !.usb.bulkOut = IF @ = NONE THEN p ELSE @,
                   !.hci.conn.sent = @ + 1]

----------------------------------------------------------------------------
(* hci_run: one command at most, for the endpoint is busy after it.        *)

HasScan(S)   == S.hci.scan # NONE
ScanCommand(S) == [cmd |-> "WRITE_SCAN_ENABLE",
                   discoverable |-> S.hci.discoverable,
                   connectable |-> S.hci.connectable]

\* The commands of the initialisation, by substate; after each the substate is
\* odd until a command is complete.
InitCommand(S) ==
    CASE S.hci.substate = 0  -> [cmd |-> "RESET"]
      [] S.hci.substate = 6  -> [cmd |-> "READ_BD_ADDR"]
      [] S.hci.substate = 8  -> [cmd |-> "READ_BUFFER_SIZE"]
      [] S.hci.substate = 10 -> [cmd |-> "WRITE_PAGE_TIMEOUT"]
      [] S.hci.substate = 12 -> ScanCommand(S)
      [] OTHER -> NONE

\* RESET goes on with the substates of a controller that is no UART.
AfterCommand(substate) == IF substate = 0 THEN 5 ELSE substate + 1

\* HCI_STATE_WORKING is announced to PacketHandler, which names the device.
Working(S) ==
    [hci_send_cmd([S EXCEPT !.hci.state = "WORKING"], [cmd |-> "WRITE_LOCAL_NAME"])
        EXCEPT !.hci.substate = 15]

Accepts(S) ==
    S.hci.conn # NONE /\ S.hci.conn.state = "RECEIVED_CONNECTION_REQUEST"

hci_run(S) ==
    IF ~CanSendCommand(S) THEN S
    ELSE IF S.hci.decline # HostAddr THEN
        hci_send_cmd([S EXCEPT !.hci.decline = HostAddr],
                     [cmd |-> "REJECT", addr |-> S.hci.decline])
    ELSE IF HasScan(S) THEN
        hci_send_cmd([S EXCEPT !.hci.scan = NONE], S.hci.scan)
    ELSE IF Accepts(S) THEN
        hci_send_cmd([S EXCEPT !.hci.conn.state = "ACCEPTED_CONNECTION_REQUEST"],
                     [cmd |-> "ACCEPT", addr |-> S.hci.conn.addr])
    ELSE IF S.hci.state # "INITIALIZING" \/ S.hci.substate % 2 = 1 THEN S
    ELSE IF S.hci.substate = 14 THEN Working(S)
    ELSE [hci_send_cmd(S, InitCommand(S))
            EXCEPT !.hci.substate = AfterCommand(S.hci.substate)]

hci_update_scan_enable(S) == hci_run([S EXCEPT !.hci.scan = ScanCommand(S)])

hci_discoverable_control(S) ==
    IF S.hci.discoverable THEN S
    ELSE hci_update_scan_enable([S EXCEPT !.hci.discoverable = TRUE])

hci_connectable_control(S) ==
    IF S.hci.connectable THEN S
    ELSE hci_update_scan_enable([S EXCEPT !.hci.connectable = TRUE])

\* hci_power_control(HCI_POWER_ON) in HCI_STATE_OFF.
hci_power_on(S) ==
    hci_run([S EXCEPT !.hci.num_cmd = 1, !.hci.state = "INITIALIZING",
                      !.hci.substate = 0])

----------------------------------------------------------------------------
(* What event_handler does before it calls l2cap.                          *)

\* A request while the pool is empty is declined; one that finds its
\* connection there already starts it again.
OnConnectionRequest(S, e) ==
    IF connection_for_address(S, e.addr)
      THEN hci_run([S EXCEPT !.hci.conn.state = "RECEIVED_CONNECTION_REQUEST"])
    ELSE IF S.hci.conn = NONE
      THEN hci_run([S EXCEPT !.hci.conn = NewConnection(e.addr)])
    ELSE [S EXCEPT !.hci.decline = e.addr]

OnConnectionComplete(S, e) ==
    IF ~connection_for_address(S, e.addr) THEN S
    ELSE IF e.ok THEN [S EXCEPT !.hci.conn.state = "OPEN", !.hci.conn.open = TRUE]
    ELSE [S EXCEPT !.hci.conn = NONE]

\* Any command that is complete ends an odd substate.
Advance(S, e) ==
    IF S.hci.state = "INITIALIZING" /\ S.hci.substate % 2 = 1
           /\ e.ev = "COMMAND_COMPLETE"
      THEN [S EXCEPT !.hci.substate = @ + 1] ELSE S

OnCommandComplete(S, e) ==
    [S EXCEPT !.hci.num_cmd = e.num,
              !.hci.total_acl = IF e.cmd = "READ_BUFFER_SIZE" THEN e.total ELSE @]

OnCompletedPackets(S, e) ==
    IF connection_for_handle(S) THEN [S EXCEPT !.hci.conn.sent = (@ - e.num) % 256]
    ELSE S

HciEvent(S, e) ==
    Advance(CASE e.ev = "COMMAND_COMPLETE" -> OnCommandComplete(S, e)
              [] e.ev = "COMMAND_STATUS" -> [S EXCEPT !.hci.num_cmd = e.num]
              [] e.ev = "COMPLETED_PACKETS" -> OnCompletedPackets(S, e)
              [] e.ev = "CONNECTION_REQUEST" -> OnConnectionRequest(S, e)
              [] e.ev = "CONNECTION_COMPLETE" -> OnConnectionComplete(S, e)
              [] OTHER -> S, e)

----------------------------------------------------------------------------
(* acl_handler: the fragments of an L2CAP packet are put together.  A      *)
(* packet is handed up when complete; a fragment out of its turn is        *)
(* dropped.                                                                *)

AclTaken(S, p) ==
    connection_for_handle(S) /\ ((p.frag = "last") <=> (S.hci.conn.recombination # NONE))

AclState(S, p) ==
    CASE p.frag = "first" -> [S EXCEPT !.hci.conn.recombination = p.pdu]
      [] p.frag = "last"  -> [S EXCEPT !.hci.conn.recombination = NONE]
      [] OTHER -> S

AclPacket(S, p) ==
    CASE p.frag = "first" -> NONE
      [] p.frag = "last"  -> S.hci.conn.recombination
      [] OTHER -> p.pdu
=============================================================================
