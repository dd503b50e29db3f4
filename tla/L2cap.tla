------------------------------- MODULE L2cap -------------------------------
(***************************************************************************)
(* The part of l2cap.c that its clients call: the list of channels, the    *)
(* services, the answers that wait to be sent, sending.                    *)
(*                                                                         *)
(* The field l2cap of the stack's state is                                 *)
(*   channels    the list l2cap_channels, the newest first                 *)
(*   responses   signaling_responses                                       *)
(*   next_cid, next_sig   the generators of l2cap_signaling.c              *)
(*                                                                         *)
(* There is one connection at a time and its channels end with it, so that *)
(* the handle of a channel is always that of the connection.  A PDU is its *)
(* channel and its body; the body of the signaling channel is a command.   *)
(***************************************************************************)
EXTENDS Hci, SequencesExt

CONSTANTS
    ChannelPool,      \* MAX_NO_L2CAP_CHANNELS
    ResponsePool,     \* NR_PENDING_SIGNALING_RESPONSES
    Buffered          \* NR_BUFFERED_ACL_PACKETS

PSM_SDP    == 1
PSM_RFCOMM == 3
SIGNALING  == 1                     \* the channel of the commands
Services   == {PSM_SDP, PSM_RFCOMM} \* what BTInit registers

L2capInit == [channels |-> <<>>, responses |-> <<>>, next_cid |-> 64, next_sig |-> 255]

NewChannel(cid, remote, psm, sig) ==
    [cid |-> cid, remote |-> remote, psm |-> psm,
     state |-> "WAIT_CLIENT_ACCEPT_OR_REJECT", vars |-> {},
     remote_sig |-> sig, local_sig |-> 0, granted |-> 0, mtu |-> 672, reason |-> 0]

----------------------------------------------------------------------------
(* Channels.                                                               *)

Cids(S) == {S.l2cap.channels[i].cid : i \in DOMAIN S.l2cap.channels}

PlaceOf(S, cid) == CHOOSE i \in DOMAIN S.l2cap.channels : S.l2cap.channels[i].cid = cid

Channel(S, cid) == S.l2cap.channels[PlaceOf(S, cid)]

\* A channel is written back under its cid.
SetChannel(S, c) ==
    [S EXCEPT !.l2cap.channels =
        [i \in DOMAIN @ |-> IF @[i].cid = c.cid THEN c ELSE @[i]]]

SetChannelState(S, cid, state) ==
    SetChannel(S, [Channel(S, cid) EXCEPT !.state = state])

RemoveChannel(S, cid) ==
    [S EXCEPT !.l2cap.channels = RemoveAt(@, PlaceOf(S, cid))]

----------------------------------------------------------------------------
(* What the clients ask of a channel.  Each of these ends with l2cap_run   *)
(* in the code.  They are only called from the handlers of a packet or an  *)
(* event, which run l2cap_run at their own end, with nothing that sends in *)
(* between: the run is left to them.                                       *)

l2cap_accept_connection(S, cid) ==
    SetChannelState(S, cid, "WILL_SEND_CONNECTION_RESPONSE_ACCEPT")

l2cap_decline_connection(S, cid, reason) ==
    SetChannel(S, [Channel(S, cid) EXCEPT
        !.state = "WILL_SEND_CONNECTION_RESPONSE_DECLINE", !.reason = reason])

l2cap_disconnect(S, cid) ==
    IF cid \in Cids(S) THEN SetChannelState(S, cid, "WILL_SEND_DISCONNECT_REQUEST")
    ELSE S

l2cap_get_remote_mtu(S, cid) == IF cid \in Cids(S) THEN Channel(S, cid).mtu ELSE 0

----------------------------------------------------------------------------
(* Sending.                                                                *)

Acl(cid, body) == [cmd |-> "ACL", pdu |-> [cid |-> cid, body |-> body]]

l2cap_can_send_packet_now(S, cid) ==
    /\ cid \in Cids(S)
    /\ Channel(S, cid).granted > 0
    /\ CanSendAcl(S)

\* l2cap_send_prepared up to the credits it hands out, when it may send.
SendOnChannel(S, cid, body) ==
    LET c == Channel(S, cid)
    IN  hci_send_acl_packet(SetChannel(S, [c EXCEPT !.granted = @ - 1]),
                            Acl(c.remote, body))

\* The channels l2cap_hand_out_credits gives a packet to.
Deserves(S, c) ==
    /\ hci_number_free_acl_slots(S) > 0
    /\ c.state = "OPEN"
    /\ hci_number_outgoing_packets(S) < Buffered
    /\ c.granted = 0

l2cap_send_signaling_packet(S, command) ==
    IF CanSendAcl(S) THEN hci_send_acl_packet(S, Acl(SIGNALING, command)) ELSE S

----------------------------------------------------------------------------
(* Commands of the signaling channel.                                      *)

Command(code, id) == [code |-> code, id |-> id, psm |-> 0, scid |-> 0,
                      dcid |-> 0, result |-> 0, mtu |-> 0]

Responds(code) == code \in {"CONNECTION_RESPONSE", "CONFIGURE_RESPONSE",
                            "DISCONNECTION_RESPONSE"}

l2cap_next_sig_id(S) ==
    [S EXCEPT !.l2cap.next_sig = IF @ = 255 THEN 1 ELSE @ + 1]

l2cap_register_signaling_response(S, code, id, data) ==
    IF Len(S.l2cap.responses) = ResponsePool THEN S
    ELSE [S EXCEPT !.l2cap.responses =
            Append(@, [code |-> code, id |-> id, data |-> data])]

\* The answer of l2cap_run to a request that waits in signaling_responses.
Response(r) ==
    CASE r.code = "CONNECTION_REQUEST" ->
            [Command("CONNECTION_RESPONSE", r.id) EXCEPT !.result = r.data]
      [] r.code = "ECHO_REQUEST" -> Command("ECHO_RESPONSE", r.id)
      [] r.code = "INFORMATION_REQUEST" ->
            [Command("INFORMATION_RESPONSE", r.id) EXCEPT
                !.result = IF r.data = 2 THEN 0 ELSE 1]
=============================================================================
