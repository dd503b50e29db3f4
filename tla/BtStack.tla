------------------------------ MODULE BtStack ------------------------------
(***************************************************************************)
(* The handlers of the Bluetooth stack: l2cap.c's, which call its clients  *)
(* rfcomm.c and sdp.c, and above them the handlers of hci.c, one for each  *)
(* thing the USB driver reports: an event, an ACL packet, a packet sent.   *)
(***************************************************************************)
EXTENDS Sdp

----------------------------------------------------------------------------
(* Events of a channel, to the client of its service.                      *)

IsSdp(c) == c.psm = PSM_SDP

EmitIncoming(S, c) ==
    IF IsSdp(c) THEN SdpIncoming(S, c.cid) ELSE RfcommIncoming(S, c.cid)

EmitOpened(S, c) == IF IsSdp(c) THEN S ELSE rfcomm_run(S)

l2cap_emit_credits(S, cid) ==
    LET c == Channel(S, cid)
        T == SetChannel(S, [c EXCEPT !.granted = @ + 1])
    IN  IF IsSdp(c) THEN sdp_try_respond(T) ELSE RfcommCredits(T, cid)

EmitClosed(S, c) == IF IsSdp(c) THEN SdpClosed(S, c.cid) ELSE RfcommClosed(S, c.cid)

EmitPacketSent(S, c) == IF IsSdp(c) THEN sdp_try_respond(S) ELSE rfcomm_run(S)

l2cap_dispatch(S, c, body) ==
    IF IsSdp(c) THEN SdpQuery(S, c.cid, body) ELSE rfcomm_packet_handler(S, c.cid, body)

CidList(S) == [i \in DOMAIN S.l2cap.channels |-> S.l2cap.channels[i].cid]

\* A loop over the channels looks at each in the state the one before has left,
\* if it is still there.
GiveCredit(S, cid) ==
    IF cid \in Cids(S) /\ Deserves(S, Channel(S, cid)) THEN l2cap_emit_credits(S, cid) ELSE S

\* A client that got its credit may send.
l2cap_hand_out_credits(S) ==
    LET cids == CidList(S)
        after[i \in 0 .. Len(cids)] == IF i = 0 THEN S ELSE GiveCredit(after[i - 1], cids[i])
    IN  after[Len(cids)]

----------------------------------------------------------------------------
(* l2cap_run.                                                              *)

\* With no connection an answer is dropped, and so is the next.
SendResponses(S) ==
    IF S.l2cap.responses = <<>> \/ ~CanSendAcl(S) THEN S
    ELSE LET T == l2cap_send_signaling_packet(S, Response(Head(S.l2cap.responses)))
         IN  [T EXCEPT !.l2cap.responses = IF connection_for_handle(S) THEN Tail(@) ELSE <<>>]

l2cap_channel_ready_for_open(c) == {"RCVD_CONF_RSP", "SENT_CONF_RSP"} \subseteq c.vars

OpenChannel(S, cid) ==
    IF ~l2cap_channel_ready_for_open(Channel(S, cid)) THEN S
    ELSE l2cap_emit_credits(EmitOpened(SetChannelState(S, cid, "OPEN"), Channel(S, cid)), cid)

l2cap_finalize_channel_close(S, cid) ==
    RemoveChannel(EmitClosed(SetChannelState(S, cid, "CLOSED"), Channel(S, cid)), cid)

\* An answer to the phone comes before a question of one's own.
Configure(S, c) ==
    CASE "SEND_CONF_RSP" \in c.vars ->
            l2cap_send_signaling_packet(
                SetChannel(S, [c EXCEPT !.vars = (@ \ {"SEND_CONF_RSP"}) \cup {"SENT_CONF_RSP"}]),
                [Command("CONFIGURE_RESPONSE", c.remote_sig) EXCEPT !.scid = c.remote])
      [] "SEND_CONF_REQ" \in c.vars /\ "SEND_CONF_RSP" \notin c.vars ->
            LET T == l2cap_next_sig_id(S)
            IN  l2cap_send_signaling_packet(
                    SetChannel(T, [c EXCEPT
                        !.vars = (@ \ {"SEND_CONF_REQ"}) \cup {"SENT_CONF_REQ"},
                        !.local_sig = T.l2cap.next_sig]),
                    [Command("CONFIGURE_REQUEST", T.l2cap.next_sig) EXCEPT !.dcid = c.remote])
      [] OTHER -> S

RunChannel(S, cid) ==
    LET c == Channel(S, cid)
    IN  CASE c.state = "WILL_SEND_CONNECTION_RESPONSE_DECLINE" ->
                RemoveChannel(l2cap_send_signaling_packet(S,
                    [Command("CONNECTION_RESPONSE", c.remote_sig)
                        EXCEPT !.result = c.reason]), cid)
          [] c.state = "WILL_SEND_CONNECTION_RESPONSE_ACCEPT" ->
                l2cap_send_signaling_packet(
                    SetChannel(S, [c EXCEPT !.state = "CONFIG", !.vars = @ \cup {"SEND_CONF_REQ"}]),
                    [Command("CONNECTION_RESPONSE", c.remote_sig)
                        EXCEPT !.dcid = c.cid, !.scid = c.remote])
          [] c.state = "CONFIG" -> OpenChannel(Configure(S, c), cid)
          [] c.state = "WILL_SEND_DISCONNECT_RESPONSE" ->
                l2cap_finalize_channel_close(l2cap_send_signaling_packet(S,
                    [Command("DISCONNECTION_RESPONSE", c.remote_sig)
                        EXCEPT !.dcid = c.cid, !.scid = c.remote]), cid)
          [] c.state = "WILL_SEND_DISCONNECT_REQUEST" ->
                LET T == l2cap_next_sig_id(S)
                IN  l2cap_send_signaling_packet(
                        SetChannel(T, [c EXCEPT !.state = "WAIT_DISCONNECT",
                                                !.local_sig = T.l2cap.next_sig]),
                        [Command("DISCONNECTION_REQUEST", T.l2cap.next_sig)
                            EXCEPT !.dcid = c.remote, !.scid = c.cid])
          [] OTHER -> S

\* Though it is an ACL packet that is to be sent, a channel waits for the
\* command endpoint too.
RunIfFree(S, cid) ==
    IF cid \in Cids(S) /\ CanSendCommand(S) /\ CanSendAcl(S) THEN RunChannel(S, cid) ELSE S

l2cap_run(S) ==
    LET R    == SendResponses(S)
        cids == CidList(R)
        after[i \in 0 .. Len(cids)] == IF i = 0 THEN R ELSE RunIfFree(after[i - 1], cids[i])
    IN  after[Len(cids)]

----------------------------------------------------------------------------
(* The signaling channel.                                                  *)

l2cap_handle_connection_request(S, m) ==
    IF m.psm \notin Services
      THEN l2cap_register_signaling_response(S, m.code, m.id, 2)
    ELSE IF ~connection_for_handle(S) THEN S
    ELSE IF Len(S.l2cap.channels) = ChannelPool
      THEN l2cap_register_signaling_response(S, m.code, m.id, 4)
    ELSE LET c == NewChannel(S.l2cap.next_cid, m.scid, m.psm, m.id)
         IN  EmitIncoming([S EXCEPT !.l2cap.next_cid = (@ + 1) % 65536,
                                    !.l2cap.channels = <<c>> \o @], c)

Disconnectable == {"CONFIG", "OPEN", "WILL_SEND_DISCONNECT_REQUEST", "WAIT_DISCONNECT"}

OnConfigure(S, c, m) ==
    CASE m.code = "CONFIGURE_REQUEST" ->
            SetChannel(S, [c EXCEPT !.vars = @ \cup {"RCVD_CONF_REQ", "SEND_CONF_RSP"},
                                    !.remote_sig = m.id,
                                    !.mtu = IF m.mtu = 0 THEN @ ELSE m.mtu])
      [] m.code = "CONFIGURE_RESPONSE" ->
            SetChannel(S, [c EXCEPT !.vars = @ \cup {"RCVD_CONF_RSP"}])
      [] OTHER -> S

l2cap_signaling_handler_channel(S, c, m) ==
    CASE m.code = "DISCONNECTION_REQUEST" /\ c.state \in Disconnectable ->
            SetChannel(S, [c EXCEPT !.state = "WILL_SEND_DISCONNECT_RESPONSE",
                                    !.remote_sig = m.id])
      [] m.code # "DISCONNECTION_REQUEST" /\ c.state = "CONFIG" ->
            OpenChannel(OnConfigure(S, c, m), c.cid)
      [] m.code = "DISCONNECTION_RESPONSE" /\ c.state = "WAIT_DISCONNECT" ->
            l2cap_finalize_channel_close(S, c.cid)
      [] OTHER -> S

\* A response is for the channel that asked last with its identifier, a
\* request for the channel it names.
Addressees(S, m) ==
    {i \in DOMAIN S.l2cap.channels :
        LET c == S.l2cap.channels[i]
        IN  IF Responds(m.code) THEN c.local_sig = m.id ELSE c.cid = m.dcid}

\* Of two channels the first in the list is taken.
l2cap_signaling_handler_dispatch(S, m) ==
    CASE m.code = "CONNECTION_REQUEST" -> l2cap_handle_connection_request(S, m)
      [] m.code = "ECHO_REQUEST" -> l2cap_register_signaling_response(S, m.code, m.id, 0)
      [] m.code = "INFORMATION_REQUEST" ->
            l2cap_register_signaling_response(S, m.code, m.id, m.result)
      [] OTHER ->
            LET to == Addressees(S, m)
            IN  IF to = {} THEN S
                ELSE l2cap_signaling_handler_channel(S,
                        S.l2cap.channels[CHOOSE i \in to : \A j \in to : i <= j], m)

l2cap_acl_handler(S, p) ==
    l2cap_run(IF p.cid = SIGNALING THEN l2cap_signaling_handler_dispatch(S, p.body)
              ELSE IF p.cid \in Cids(S) THEN l2cap_dispatch(S, Channel(S, p.cid), p.body)
              ELSE S)

----------------------------------------------------------------------------
(* l2cap_event_handler, and PacketHandler of bt_app.c as its last step.    *)

\* A channel is out of the list when its client hears of it; a multiplexer
\* that ends then runs l2cap_run for the channels that are left.
RunIfMuxEnded(S, T) == IF HasMux(S) /\ ~HasMux(T) THEN l2cap_run(T) ELSE T

CloseWithConnection(S, cid) ==
    IF cid \notin Cids(S) THEN S
    ELSE RunIfMuxEnded(S, EmitClosed(RemoveChannel(S, cid), Channel(S, cid)))

CloseAll(S) ==
    LET cids == CidList(S)
        after[i \in 0 .. Len(cids)] ==
            IF i = 0 THEN S ELSE CloseWithConnection(after[i - 1], cids[i])
    IN  after[Len(cids)]

TellSent(S, cid) == IF cid \in Cids(S) THEN EmitPacketSent(S, Channel(S, cid)) ELSE S

TellAllSent(S) ==
    LET cids == CidList(S)
        after[i \in 0 .. Len(cids)] == IF i = 0 THEN S ELSE TellSent(after[i - 1], cids[i])
    IN  after[Len(cids)]

L2capEvent(S, e) ==
    CASE \/ e.ev \in {"COMMAND_COMPLETE", "COMMAND_STATUS"}
         \/ e.ev = "CONNECTION_COMPLETE" /\ e.ok -> l2cap_run(S)
      [] e.ev = "DISCONNECTION_COMPLETE" -> CloseAll(S)
      [] e.ev = "COMPLETED_PACKETS" -> l2cap_hand_out_credits(l2cap_run(S))
      [] e.ev = "PACKET_SENT" -> TellAllSent(S)
      [] OTHER -> S

\* The answers to a pairing are sent whether a command may be sent or not.
PacketHandler(S, e) ==
    CASE e.ev = "COMMAND_COMPLETE" /\ e.cmd = "WRITE_LOCAL_NAME" -> hci_discoverable_control(S)
      [] e.ev = "LINK_KEY_REQUEST" -> hci_send_cmd(S, [cmd |-> "LINK_KEY_NEGATIVE"])
      [] e.ev = "PIN_CODE_REQUEST" -> hci_send_cmd(S, [cmd |-> "PIN_CODE"])
      [] OTHER -> S

----------------------------------------------------------------------------
(* What the transport calls: event_handler and acl_handler of hci.c.       *)

\* hci_shutdown_connection tells l2cap while the connection is still there,
\* and then l2cap hears of the event itself.
Shutdown(S, e) ==
    IF e.ev = "DISCONNECTION_COMPLETE" /\ connection_for_handle(S)
      THEN [L2capEvent(S, e) EXCEPT !.hci.conn = NONE] ELSE S

event_handler(S, e) ==
    hci_run(PacketHandler(L2capEvent(Shutdown(HciEvent(S, e), e), e), e))

acl_handler(S, p) ==
    LET T   == AclState(S, p)
        pdu == AclPacket(S, p)
    IN  IF ~AclTaken(S, p) THEN S
        ELSE hci_run(IF pdu = NONE THEN T ELSE l2cap_acl_handler(T, pdu))

----------------------------------------------------------------------------
(* BTInit: a service is registered before the power is on, so that the     *)
(* first command is that of the scan.                                      *)

BTInit ==
    hci_power_on(hci_connectable_control(
        [usb |-> UsbInit, hci |-> HciInit, l2cap |-> L2capInit,
         rfcomm |-> RfcommInit, sdp |-> SdpInit, app |-> AppInit]))
=============================================================================
