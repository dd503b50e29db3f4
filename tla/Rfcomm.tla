------------------------------- MODULE Rfcomm -------------------------------
(***************************************************************************)
(* rfcomm.c over L2cap, and bt_app.c over rfcomm.c: serial channels with   *)
(* credits in both directions, of which the application has one.           *)
(*                                                                         *)
(* The fields of the stack's state:                                        *)
(*   rfcomm.mux      the multiplexer, there is one                         *)
(*   rfcomm.channel  the channel, there is one; out are the packets it may *)
(*                   send, in those the phone may send, new those that are *)
(*                   to be given to the phone                              *)
(*   app             bt_app.c: channel is rfcomm_channel_id; got is what   *)
(*                   its callback was given, open that a channel was       *)
(*                   reported and neither closed nor its end reported      *)
(*                                                                         *)
(* The firmware never opens a channel itself, so the states of an outgoing *)
(* one are left out.  rfcomm_run sends one packet at most, for the bulk    *)
(* endpoint is busy after it.                                              *)
(***************************************************************************)
EXTENDS L2cap

CONSTANTS
    NewCredits,     \* 0x30, the packets the phone is allowed at a time
    LowCredits      \* 5: fewer than these are made up for

ServerChannel == 1                 \* rfcomm_channel_nr
ServerDlci    == 2 * ServerChannel \* on a multiplexer that the phone opened

RfcommInit == [mux |-> NONE, channel |-> NONE, next_cid |-> 1]
AppInit    == [channel |-> 0, credit |-> FALSE, open |-> FALSE, got |-> <<>>]

NewMultiplexer(cid) ==
    [cmd |-> "MUX", state |-> "W4_SABM_0", l2cap_cid |-> cid, credits |-> 0, dm |-> 0]

\* rfcomm_channel_initialize for a service without flow control.
NewRfcommChannel(S) ==
    [cmd |-> "DLC", cid |-> S.rfcomm.next_cid, dlci |-> ServerDlci, state |-> "CLOSED",
     vars |-> {}, out |-> 0, in |-> 0, new |-> NewCredits, granted |-> 0]

HasMux(S)     == S.rfcomm.mux # NONE
HasChannel(S) == S.rfcomm.channel # NONE

rfcomm_multiplexer_for_l2cap_cid(S, cid) == HasMux(S) /\ S.rfcomm.mux.l2cap_cid = cid
rfcomm_channel_for_dlci(S, dlci) == HasChannel(S) /\ S.rfcomm.channel.dlci = dlci
rfcomm_channel_for_rfcomm_cid(S, cid) == HasChannel(S) /\ S.rfcomm.channel.cid = cid

----------------------------------------------------------------------------
(* What PacketHandler of bt_app.c does with the events of rfcomm.c.        *)

AppAsked(S)  == [S EXCEPT !.app.channel = S.rfcomm.channel.cid, !.app.got = <<>>]
AppOpened(S) == [S EXCEPT !.app.channel = S.rfcomm.channel.cid, !.app.credit = TRUE,
                          !.app.open = TRUE]
AppClosed(S) == [S EXCEPT !.app.channel = 0, !.app.open = FALSE]
AppData(S, data) == [S EXCEPT !.app.got = Append(@, data), !.app.credit = TRUE]

----------------------------------------------------------------------------
(* Credits and sending.                                                    *)

\* rfcomm_hand_out_credits: the application may send a packet.
rfcomm_hand_out_credits(S) ==
    IF /\ HasChannel(S) /\ S.rfcomm.channel.state = "OPEN"
       /\ S.rfcomm.channel.granted = 0
       /\ S.rfcomm.channel.out > 0
       /\ S.rfcomm.mux.credits > 0
      THEN [S EXCEPT !.rfcomm.channel.granted = 1] ELSE S

HandOutIfOpen(S) ==
    IF HasMux(S) /\ S.rfcomm.mux.state = "OPEN" THEN rfcomm_hand_out_credits(S) ELSE S

\* l2cap_hand_out_credits as the last thing of l2cap_send_prepared.  The bulk
\* endpoint is busy, so that no client sends in the event it gets.
HandOutWhileBusy(S) ==
    LET given == {cid \in Cids(S) : Deserves(S, Channel(S, cid))}
        l2cap == [S EXCEPT !.l2cap.channels =
                    [i \in DOMAIN @ |-> IF @[i].cid \in given
                                        THEN [@[i] EXCEPT !.granted = 1] ELSE @[i]]]
    IN  IF ~HasMux(S) \/ S.rfcomm.mux.l2cap_cid \notin given THEN l2cap
        ELSE HandOutIfOpen([l2cap EXCEPT !.rfcomm.mux.credits = @ + 1])

l2cap_send_prepared(S, cid, body) == HandOutWhileBusy(SendOnChannel(S, cid, body))

MuxCanSend(S) == HasMux(S) /\ l2cap_can_send_packet_now(S, S.rfcomm.mux.l2cap_cid)

rfcomm_send_packet(S, frame) ==
    IF ~MuxCanSend(S) THEN S
    ELSE l2cap_send_prepared(
            [S EXCEPT !.rfcomm.mux.credits = IF @ = 0 THEN 0 ELSE @ - 1],
            S.rfcomm.mux.l2cap_cid, frame)

\* Frames: SABM, UA, DISC, DM, UIH and UIH_PF, which carries credits; a UIH
\* frame on DLCI 0 carries a message, about the DLCI in of.
Frame(dlci, type) == [dlci |-> dlci, type |-> type, msg |-> "", of |-> 0,
                      credits |-> 0, data |-> 0]
Message(msg, of)  == [Frame(0, "UIH") EXCEPT !.msg = msg, !.of = of]

rfcomm_send_uih_credits(S, dlci, n) ==
    rfcomm_send_packet(S, [Frame(dlci, "UIH_PF") EXCEPT !.credits = n])

----------------------------------------------------------------------------
(* The end of a channel and of a multiplexer.                              *)

rfcomm_channel_finalize(S) == [S EXCEPT !.rfcomm.channel = NONE]

\* Of its channel, one that is open is closed; another one only fails to open.
rfcomm_multiplexer_finalize(S) ==
    LET cid  == S.rfcomm.mux.l2cap_cid
        told == IF HasChannel(S) /\ S.rfcomm.channel.state = "OPEN"
                THEN AppClosed(S) ELSE S
    IN  l2cap_disconnect([told EXCEPT !.rfcomm.mux = NONE, !.rfcomm.channel = NONE], cid)

----------------------------------------------------------------------------
(* rfcomm_channel_state_machine, a state of the channel at a time.         *)

With(S, vars)    == [S EXCEPT !.rfcomm.channel.vars = @ \cup vars]
Without(S, var)  == [S EXCEPT !.rfcomm.channel.vars = @ \ {var}]
Marked(S, var)   == var \in S.rfcomm.channel.vars
EnterState(S, state) == [S EXCEPT !.rfcomm.channel.state = state]
Dlci(S)          == S.rfcomm.channel.dlci

\* rfcomm_accept_connection_internal up to its rfcomm_run, which every handler
\* of a packet ends with.
rfcomm_accept_connection(S) ==
    LET pn == IF Marked(S, "RCVD_PN") THEN {"SEND_PN_RSP"} ELSE {}
        ua == IF Marked(S, "RCVD_SABM") THEN {"SEND_UA"} ELSE {}
    IN  With(S, {"CLIENT_ACCEPTED"} \cup pn \cup ua)

\* The first packet asks the application, and the application accepts.
InClosed(S, ev, n) ==
    LET setup == EnterState(S, "INCOMING_SETUP")
    IN  CASE ev = "SABM" ->
                rfcomm_accept_connection(AppAsked(With(setup, {"RCVD_SABM"})))
          [] ev = "PN" ->
                rfcomm_accept_connection(AppAsked(
                    [With(setup, {"RCVD_PN"}) EXCEPT !.rfcomm.channel.out = n]))
          [] OTHER -> S

SetupSends(S) ==
    IF Marked(S, "SEND_PN_RSP")
      THEN rfcomm_send_packet(Without(S, "SEND_PN_RSP"), Message("PN_RSP", Dlci(S)))
    ELSE IF Marked(S, "SEND_UA")
      THEN rfcomm_send_packet(Without(S, "SEND_UA"), Frame(Dlci(S), "UA"))
    ELSE S

InSetup(S, ev, n) ==
    LET accepted == Marked(S, "CLIENT_ACCEPTED")
    IN  CASE ev = "SABM" ->
                With(S, {"RCVD_SABM"} \cup (IF accepted THEN {"SEND_UA"} ELSE {}))
          [] ev = "PN" ->
                With([S EXCEPT !.rfcomm.channel.out = n],
                     {"RCVD_PN"} \cup (IF accepted THEN {"SEND_PN_RSP"} ELSE {}))
          [] ev = "READY" /\ accepted /\ Marked(S, "RCVD_SABM") ->
                EnterState(With(SetupSends(S), {"SEND_MSC_CMD", "SEND_CREDITS"}), "DLC_SETUP")
          [] ev = "READY" -> SetupSends(S)
          [] OTHER -> S

\* The credits are counted after the packet that carries them.
SendNewCredits(S) ==
    LET n == S.rfcomm.channel.new
    IN  IF n = 0 THEN S
        ELSE [rfcomm_send_uih_credits([S EXCEPT !.rfcomm.channel.new = 0], Dlci(S), n)
                EXCEPT !.rfcomm.channel.in = (@ + n) % 256]

DlcSends(S) ==
    IF Marked(S, "SEND_MSC_CMD")
      THEN rfcomm_send_packet(With(Without(S, "SEND_MSC_CMD"), {"SENT_MSC_CMD"}),
                              Message("MSC_CMD", Dlci(S)))
    ELSE IF Marked(S, "SEND_MSC_RSP")
      THEN rfcomm_send_packet(With(Without(S, "SEND_MSC_RSP"), {"SENT_MSC_RSP"}),
                              Message("MSC_RSP", Dlci(S)))
    ELSE IF Marked(S, "SEND_CREDITS")
      THEN SendNewCredits(With(Without(S, "SEND_CREDITS"), {"SENT_CREDITS"}))
    ELSE S

rfcomm_channel_ready_for_open(S) ==
    /\ {"RCVD_MSC_RSP", "SENT_MSC_RSP", "SENT_CREDITS"} \subseteq S.rfcomm.channel.vars
    /\ S.rfcomm.channel.out > 0

\* Its rfcomm_run is again left to the handler that is under way.
rfcomm_channel_opened(S) == rfcomm_hand_out_credits(AppOpened(EnterState(S, "OPEN")))

OpenIfReady(S) ==
    IF rfcomm_channel_ready_for_open(S) THEN rfcomm_channel_opened(S) ELSE S

InDlcSetup(S, ev) ==
    OpenIfReady(CASE ev = "MSC_CMD" -> With(S, {"RCVD_MSC_CMD", "SEND_MSC_RSP"})
                  [] ev = "MSC_RSP" -> With(S, {"RCVD_MSC_RSP"})
                  [] ev = "READY"   -> DlcSends(S)
                  [] OTHER -> S)

InOpen(S, ev) ==
    CASE ev = "MSC_CMD" -> With(S, {"SEND_MSC_RSP"})
      [] ev = "READY" ->
            IF Marked(S, "SEND_MSC_RSP")
              THEN rfcomm_send_packet(Without(S, "SEND_MSC_RSP"), Message("MSC_RSP", Dlci(S)))
            ELSE SendNewCredits(S)
      [] OTHER -> S

\* A channel the application closed is gone with its DISC, before the UA.
InSendDisc(S, ev) ==
    IF ev # "READY" THEN S
    ELSE rfcomm_channel_finalize(AppClosed(rfcomm_send_packet(
            EnterState(S, "CLOSED"), Frame(Dlci(S), "DISC"))))

InSendUa(S, ev) ==
    IF ev # "READY" THEN S
    ELSE rfcomm_channel_finalize(rfcomm_send_packet(
            EnterState(S, "CLOSED"), Frame(Dlci(S), "UA")))

rfcomm_channel_state_machine(S, ev, n) ==
    LET state == S.rfcomm.channel.state
    IN  CASE ev = "DISC" -> EnterState(AppClosed(S), "SEND_UA_AFTER_DISC")
          [] ev = "DM" -> rfcomm_channel_finalize(AppClosed(S))
          [] ev = "RPN" -> With(S, {"SEND_RPN_RSP"})
          [] ev = "READY" /\ Marked(S, "SEND_RPN_RSP") ->
                rfcomm_send_packet(Without(S, "SEND_RPN_RSP"), Message("RPN_RSP", Dlci(S)))
          [] OTHER ->
                CASE state = "CLOSED" -> InClosed(S, ev, n)
                  [] state = "INCOMING_SETUP" -> InSetup(S, ev, n)
                  [] state = "DLC_SETUP" -> InDlcSetup(S, ev)
                  [] state = "OPEN" -> InOpen(S, ev)
                  [] state = "SEND_DISC" -> InSendDisc(S, ev)
                  [] state = "SEND_UA_AFTER_DISC" -> InSendUa(S, ev)

\* rfcomm_channel_state_machine_2: the channel of an event, made if need be;
\* the phone is told when there is none.
Creates(S, dlci, ev) ==
    dlci \div 2 = ServerChannel /\ ev \in {"SABM", "PN", "RPN"} /\ ~HasChannel(S)

WithChannel(S, dlci, ev) ==
    IF Creates(S, dlci, ev)
      THEN [S EXCEPT !.rfcomm.channel = NewRfcommChannel(S), !.rfcomm.next_cid = @ + 1]
    ELSE S

rfcomm_channel_state_machine_2(S, dlci, ev, n) ==
    IF rfcomm_channel_for_dlci(S, dlci) \/ Creates(S, dlci, ev)
      THEN rfcomm_channel_state_machine(WithChannel(S, dlci, ev), ev, n)
    ELSE [S EXCEPT !.rfcomm.mux.dm = dlci]

----------------------------------------------------------------------------
(* rfcomm_run: the multiplexer, then the channel, each if it may send.     *)

SendDm(S) ==
    IF S.rfcomm.mux.dm = 0 THEN S
    ELSE [rfcomm_send_packet(S, Frame(S.rfcomm.mux.dm, "DM")) EXCEPT !.rfcomm.mux.dm = 0]

\* rfcomm_multiplexer_state_machine.  After a DM the endpoint is busy and the
\* UA is not sent, though the multiplexer goes on.
SendUa(S) ==
    CASE S.rfcomm.mux.state = "SEND_UA_0" ->
            rfcomm_send_packet([S EXCEPT !.rfcomm.mux.state = "OPEN"], Frame(0, "UA"))
      [] S.rfcomm.mux.state = "SEND_UA_0_AND_DISC" ->
            rfcomm_multiplexer_finalize(rfcomm_send_packet(
                [S EXCEPT !.rfcomm.mux.state = "CLOSED"], Frame(0, "UA")))
      [] OTHER -> S

rfcomm_multiplexer_state_machine(S) ==
    IF MuxCanSend(S) THEN SendUa(SendDm(S)) ELSE S

RunDlc(S) ==
    IF HasChannel(S) /\ MuxCanSend(S) THEN rfcomm_channel_state_machine(S, "READY", 0)
    ELSE S

rfcomm_run(S) == RunDlc(rfcomm_multiplexer_state_machine(S))

----------------------------------------------------------------------------
(* rfcomm_multiplexer_hci_event_handler, an event at a time.               *)

\* A phone that has a multiplexer already is declined.
RfcommIncoming(S, cid) ==
    IF HasMux(S) THEN l2cap_decline_connection(S, cid, 4)
    ELSE l2cap_accept_connection([S EXCEPT !.rfcomm.mux = NewMultiplexer(cid)], cid)

\* One packet more may be sent: pending frames first, then the application.
RfcommCredits(S, cid) ==
    IF ~rfcomm_multiplexer_for_l2cap_cid(S, cid) THEN S
    ELSE HandOutIfOpen(rfcomm_run([S EXCEPT !.rfcomm.mux.credits = @ + 1]))

\* (Mutant: a multiplexer that nobody opened yet is kept.)
ClosedOpen(S, cid) ==
    IF rfcomm_multiplexer_for_l2cap_cid(S, cid) /\ S.rfcomm.mux.state = "OPEN"
      THEN rfcomm_run(rfcomm_multiplexer_finalize(S))
    ELSE S

\* In SEND_UA_0 and SEND_UA_0_AND_DISC the multiplexer stays.
RfcommClosed(S, cid) ==
    IF rfcomm_multiplexer_for_l2cap_cid(S, cid)
           /\ S.rfcomm.mux.state \in {"W4_SABM_0", "OPEN"}
      THEN rfcomm_run(rfcomm_multiplexer_finalize(S))
    ELSE S

----------------------------------------------------------------------------
(* rfcomm_packet_handler for a frame.                                      *)

\* (Mutant: one packet too late.)
ReplenishLate(S) ==
    IF S.rfcomm.channel.in < LowCredits - 1
      THEN [S EXCEPT !.rfcomm.channel.new = NewCredits] ELSE S

Replenish(S) ==
    IF S.rfcomm.channel.in < LowCredits
      THEN [S EXCEPT !.rfcomm.channel.new = NewCredits] ELSE S

\* Credits come before the data of the same frame.
rfcomm_channel_packet_handler_uih(S, f) ==
    LET credited == IF f.type = "UIH_PF"
                    THEN rfcomm_channel_state_machine(
                            [S EXCEPT !.rfcomm.channel.out = (@ + f.credits) % 256],
                            "CREDITS", 0)
                    ELSE S
        heard == IF f.data = 0 THEN credited
                 ELSE AppData([credited EXCEPT !.rfcomm.channel.in = IF @ = 0 THEN 0 ELSE @ - 1],
                              f.data)
    IN  IF ~rfcomm_channel_for_dlci(S, f.dlci) THEN S
        ELSE rfcomm_hand_out_credits(Replenish(heard))

rfcomm_channel_packet_handler(S, f) ==
    LET direct == f.type \in {"SABM", "UA", "DISC", "DM"}
        ev == CASE direct -> f.type
                [] f.msg = "PN_CMD" -> "PN"
                [] f.msg \in {"RPN_CMD", "RPN_REQ"} -> "RPN"
                [] OTHER -> f.msg
    IN  IF direct \/ f.msg \in {"PN_CMD", "PN_RSP", "MSC_CMD", "MSC_RSP", "RPN_CMD", "RPN_REQ"}
          THEN rfcomm_channel_state_machine_2(S, IF direct THEN f.dlci ELSE f.of, ev, f.credits)
        ELSE S

\* Frames of DLCI 0 that the multiplexer keeps for itself.
MuxTakes(S, f) ==
    /\ f.dlci = 0
    /\ \/ f.type = "SABM" /\ S.rfcomm.mux.state = "W4_SABM_0"
       \/ f.type \in {"DISC", "DM"}
       \/ f.type = "UIH" /\ f.msg = "CLD"

MuxFrame(S, f) ==
    CASE f.type = "SABM" -> [S EXCEPT !.rfcomm.mux.state = "SEND_UA_0"]
      [] f.type = "DISC" -> [S EXCEPT !.rfcomm.mux.state = "SEND_UA_0_AND_DISC"]
      [] OTHER -> rfcomm_multiplexer_finalize(S)

rfcomm_packet_handler(S, cid, f) ==
    IF ~rfcomm_multiplexer_for_l2cap_cid(S, cid) THEN S
    ELSE IF ~MuxTakes(S, f) /\ S.rfcomm.mux.state # "OPEN" THEN S
    ELSE rfcomm_run(IF MuxTakes(S, f) THEN MuxFrame(S, f)
                    ELSE IF f.dlci # 0 /\ f.type \in {"UIH", "UIH_PF"}
                    THEN rfcomm_channel_packet_handler_uih(S, f)
                    ELSE rfcomm_channel_packet_handler(S, f))

----------------------------------------------------------------------------
(* What the application calls.                                             *)

rfcomm_can_send(S, cid) ==
    /\ rfcomm_channel_for_rfcomm_cid(S, cid)
    /\ S.rfcomm.channel.out > 0
    /\ S.rfcomm.channel.granted > 0
    /\ MuxCanSend(S)

BTCanWrite(S)  == rfcomm_can_send(S, S.app.channel)

\* rfcomm_send_internal; what cannot be sent gives its credits back.
BTWrite(S, data) ==
    LET T == [S EXCEPT !.rfcomm.channel.out = @ - 1, !.rfcomm.channel.granted = @ - 1]
    IN  IF ~rfcomm_channel_for_rfcomm_cid(S, S.app.channel)
               \/ S.rfcomm.channel.out = 0 \/ S.rfcomm.channel.granted = 0
               \/ ~MuxCanSend(S)
          THEN S
        ELSE rfcomm_hand_out_credits(rfcomm_send_packet(T,
                [Frame(S.rfcomm.channel.dlci, "UIH") EXCEPT !.data = data]))

\* rfcomm_disconnect_internal.
BTClose(S) ==
    IF rfcomm_channel_for_rfcomm_cid(S, S.app.channel)
      THEN [EnterState(S, "SEND_DISC") EXCEPT !.app.open = FALSE]
    ELSE S

\* BTTasks after the transport's: a service without flow control is granted
\* no credits.
BTGrant(S) ==
    IF S.app.channel # 0 /\ S.app.credit THEN [S EXCEPT !.app.credit = FALSE] ELSE S
=============================================================================
