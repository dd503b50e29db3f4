----------------------------- MODULE Bluetooth -----------------------------
(***************************************************************************)
(* The Bluetooth stack of the firmware with what is around it: the USB     *)
(* driver that polls four endpoints (usb_host_bluetooth.c), the controller *)
(* on the dongle, a phone, and the application that uses the channel.      *)
(*                                                                         *)
(* A pass of the driver looks at the endpoints in one order and calls the  *)
(* stack for each whose transfer is complete; between two passes the reads *)
(* are armed again and the application runs.  A transfer completes at any  *)
(* time.  The controller and the radio answer at any time.                 *)
(*                                                                         *)
(* The phone is polite: it does a step of the protocols when the one       *)
(* before is answered, and keeps to its credits.  It asks for the service  *)
(* record, opens the serial channel, exchanges data and closes everything  *)
(* in order; its radio may get lost.                                       *)
(***************************************************************************)
EXTENDS BtStack, FiniteSets

CONSTANTS
    Phone,          \* the address of the phone
    Slots,          \* ACL packets the controller has room for
    Sessions,       \* connections the phone makes
    Losses,         \* how often its radio gets lost
    FromPhone,      \* packets the phone sends on a channel
    ToPhone,        \* packets the application writes
    PhoneCredits,   \* packets the phone allows at a time
    PhoneMtu        \* the MTU it asks for

\* hci.c keeps the number of slots, and how many are in use, in a byte.
ASSUME SlotsAssumption == Slots \in 0 .. 255

VARIABLES
    S,              \* the stack
    turn,           \* the endpoint the pass of the driver has come to
    done,           \* the endpoints whose write is complete
    ctl,            \* the controller
    radio,          \* the packets it has still to transmit
    phone,
    written         \* what the application has written to the channel

vars == <<S, turn, done, ctl, radio, phone, written>>

----------------------------------------------------------------------------
(* Names.                                                                  *)

Event(ev) == [ev |-> ev, cmd |-> "", num |-> 0, total |-> 0, addr |-> Phone, ok |-> TRUE]

Whole(cid, body) == [frag |-> "whole", pdu |-> [cid |-> cid, body |-> body]]

\* The channels of the phone have numbers of its own.
PhoneCid(psm) == 100 + psm
PsmOf(cid)    == cid - 100

NewPhone(left, losses) ==
    [at |-> "away", left |-> left, losses |-> losses,
     remote |-> [p \in Services |-> 0], conf |-> [p \in Services |-> {}],
     bytes |-> 0, garbled |-> FALSE, sent |-> 0, allowed |-> 0, room |-> 0,
     got |-> <<>>, overrun |-> FALSE]

Init ==
    /\ S = BTInit
    /\ turn = 4
    /\ done = {}
    /\ ctl = [events |-> <<>>, acl |-> <<>>, scan |-> FALSE, link |-> FALSE]
    /\ radio = <<>>
    /\ phone = NewPhone(Sessions, Losses)
    /\ written = 0

----------------------------------------------------------------------------
(* USBHostBluetoothTasks: the endpoints in their order.                    *)

EventDone == S.usb.intIn /\ ctl.events # <<>>
AclDone   == S.usb.bulkIn /\ ctl.acl # <<>>

\* The next endpoint of the pass that has something.
Ready(e) ==
    CASE e = 0 -> EventDone
      [] e = 1 -> AclDone
      [] e = 2 -> "bulkOut" \in done
      [] e = 3 -> "ctrlOut" \in done

Reaches(e) == turn <= e /\ Ready(e) /\ \A d \in turn .. e - 1 : ~Ready(d)

PollEvents ==
    /\ Reaches(0)
    /\ S' = event_handler([S EXCEPT !.usb.intIn = FALSE], Head(ctl.events))
    /\ ctl' = [ctl EXCEPT !.events = Tail(@)]
    /\ turn' = 1
    /\ UNCHANGED <<done, radio, phone, written>>

PollAcl ==
    /\ Reaches(1)
    /\ S' = acl_handler([S EXCEPT !.usb.bulkIn = FALSE], Head(ctl.acl))
    /\ ctl' = [ctl EXCEPT !.acl = Tail(@)]
    /\ turn' = 2
    /\ UNCHANGED <<done, radio, phone, written>>

\* The endpoint is free before the stack hears of it.
PollBulkOut ==
    /\ Reaches(2)
    /\ S' = event_handler([S EXCEPT !.usb.bulkOut = NONE], Event("PACKET_SENT"))
    /\ done' = done \ {"bulkOut"}
    /\ turn' = 3
    /\ UNCHANGED <<ctl, radio, phone, written>>

PollControlOut ==
    /\ Reaches(3)
    /\ S' = event_handler([S EXCEPT !.usb.ctrlOut = NONE], Event("PACKET_SENT"))
    /\ done' = done \ {"ctrlOut"}
    /\ turn' = 4
    /\ UNCHANGED <<ctl, radio, phone, written>>

\* The rest of the pass found nothing; BTTasks.
Tasks ==
    /\ \A e \in turn .. 3 : ~Ready(e)
    /\ S' = BTGrant([S EXCEPT !.usb.intIn = TRUE, !.usb.bulkIn = TRUE])
    /\ turn' = 0
    /\ UNCHANGED <<done, ctl, radio, phone, written>>

----------------------------------------------------------------------------
(* The controller takes what is in the buffer when the transfer happens.   *)

Complete(cmd) == [Event("COMMAND_COMPLETE") EXCEPT !.cmd = cmd, !.num = 1, !.total = Slots]

EventsOf(c) ==
    CASE c.cmd = "ACCEPT" -> <<[Event("COMMAND_STATUS") EXCEPT !.num = 1]>>
      [] c.cmd = "LINK_KEY_NEGATIVE" -> <<Complete(c.cmd), Event("PIN_CODE_REQUEST")>>
      [] c.cmd = "PIN_CODE" -> <<Complete(c.cmd), Event("CONNECTION_COMPLETE")>>
      [] OTHER -> <<Complete(c.cmd)>>

TakeCommand ==
    LET c == S.usb.buffer
    IN  /\ S.usb.ctrlOut # NONE /\ "ctrlOut" \notin done
        /\ done' = done \cup {"ctrlOut"}
        /\ ctl' = [ctl EXCEPT !.events = @ \o EventsOf(c),
                              !.scan = IF c.cmd = "WRITE_SCAN_ENABLE" THEN c.connectable ELSE @,
                              !.link = @ \/ c.cmd = "PIN_CODE"]
        /\ phone' = [phone EXCEPT !.at = CASE c.cmd = "ACCEPT" -> "accepted"
                                           [] c.cmd = "PIN_CODE" -> "linked"
                                           [] OTHER -> @]
        /\ UNCHANGED <<S, turn, radio, written>>

\* A packet for a connection that is gone is dropped.
TakeAcl ==
    /\ S.usb.bulkOut # NONE /\ "bulkOut" \notin done
    /\ done' = done \cup {"bulkOut"}
    /\ radio' = IF ctl.link THEN Append(radio, S.usb.buffer) ELSE radio
    /\ UNCHANGED <<S, turn, ctl, phone, written>>

----------------------------------------------------------------------------
(* The phone.  Sends(p, out) is the phone after a step and what it sends.  *)

ToChannel(ph, psm, body) == Whole(ph.remote[psm], body)
ToMux(ph, body) == ToChannel(ph, PSM_RFCOMM, body)

ConnectTo(psm) ==
    Whole(SIGNALING, [Command("CONNECTION_REQUEST", 9) EXCEPT !.psm = psm, !.scid = PhoneCid(psm)])

Hello == Whole(SIGNALING, [Command("INFORMATION_REQUEST", 9) EXCEPT !.result = 2])

Disconnect(ph, psm) ==
    Whole(SIGNALING, [Command("DISCONNECTION_REQUEST", 9)
                        EXCEPT !.dcid = ph.remote[psm], !.scid = PhoneCid(psm)])

AllIds == {Record[i].id : i \in DOMAIN Record}

Query(more) == [id |-> "SEARCH_ATTRIBUTE", pattern |-> {4353}, ids |-> AllIds,
                handle |-> RecordHandle, max |-> 65535, more |-> more]

\* The answer to the whole query, if it came in one piece.
WholeAnswer ==
    Header("list") \o Header("record") \o Filter(AllIds, 0, 65535).out

Sends(ph, out) == [ph |-> ph, out |-> out]
Stays(ph) == Sends(ph, <<>>)

\* What the phone does with a channel that is configured on both sides.
Uses(ph, psm) ==
    IF ph.conf[psm] # {"sent", "received"} THEN Stays(ph)
    ELSE IF psm = PSM_SDP
      THEN Sends([ph EXCEPT !.at = "asking"], <<ToChannel(ph, PSM_SDP, Query(0))>>)
    ELSE Sends([ph EXCEPT !.at = "starting"], <<ToMux(ph, Frame(0, "SABM"))>>)

Also(step, out) == [step EXCEPT !.out = out \o @]

PsmSought(ph) == IF ph.at = "sdp" THEN PSM_SDP ELSE PSM_RFCOMM

OnCommand(ph, m) ==
    CASE m.code = "CONNECTION_RESPONSE" ->
            LET psm == PsmSought(ph)
            IN  IF m.result # 0 THEN Stays([ph EXCEPT !.at = "refused"])
                ELSE Sends([ph EXCEPT !.remote[psm] = m.dcid],
                           <<Whole(SIGNALING, [Command("CONFIGURE_REQUEST", 9)
                                                EXCEPT !.dcid = m.dcid, !.mtu = PhoneMtu])>>)
      [] m.code = "CONFIGURE_REQUEST" ->
            LET psm == PsmOf(m.dcid)
            IN  Also(Uses([ph EXCEPT !.conf[psm] = @ \cup {"sent"}], psm),
                     <<Whole(SIGNALING, Command("CONFIGURE_RESPONSE", m.id))>>)
      [] m.code = "CONFIGURE_RESPONSE" ->
            Uses([ph EXCEPT !.conf[PsmOf(m.scid)] = @ \cup {"received"}], PsmOf(m.scid))
      [] m.code = "DISCONNECTION_REQUEST" ->
            Sends([ph EXCEPT !.at = "finished"],
                  <<Whole(SIGNALING, Command("DISCONNECTION_RESPONSE", m.id))>>)
      [] OTHER -> Stays(ph)

\* The pieces of the answer are put together; with the last one the phone
\* goes on to the serial channel.
OnAnswer(ph, a) ==
    LET n == ph.bytes + Len(a.body)
        heard == [ph EXCEPT !.bytes = n,
                    !.garbled = @ \/ n > Len(WholeAnswer)
                                  \/ a.body # SubSeq(WholeAnswer, ph.bytes + 1, n)]
    IN  IF a.more # 0 THEN Sends(heard, <<ToChannel(ph, PSM_SDP, Query(a.more))>>)
        ELSE Sends([heard EXCEPT !.at = "rfcomm"],
                   <<Disconnect(ph, PSM_SDP), ConnectTo(PSM_RFCOMM)>>)

\* Data uses up the room the phone made; it makes more when that is empty.
OnData(ph, f) ==
    LET heard == [ph EXCEPT !.got = Append(@, f.data), !.overrun = @ \/ ph.room = 0,
                            !.room = IF @ = 0 THEN 0 ELSE @ - 1]
    IN  IF heard.room # 0 THEN Stays(heard)
        ELSE Sends([heard EXCEPT !.room = PhoneCredits],
                   <<ToMux(ph, [Frame(ServerDlci, "UIH_PF") EXCEPT !.credits = PhoneCredits])>>)

Negotiate(ph) ==
    Sends([ph EXCEPT !.at = "negotiating", !.room = PhoneCredits],
          <<ToMux(ph, [Message("PN_CMD", ServerDlci) EXCEPT !.credits = PhoneCredits])>>)

CloseMux(ph) ==
    Sends([ph EXCEPT !.at = "stopping"], <<ToMux(ph, Frame(0, "DISC"))>>)

OnFrame(ph, f) ==
    CASE f.type = "UA" /\ ph.at = "starting" -> Negotiate(ph)
      [] f.type = "UA" /\ ph.at = "opening" ->
            Sends([ph EXCEPT !.at = "open"], <<ToMux(ph, Message("MSC_CMD", ServerDlci))>>)
      [] f.type \in {"UA", "DM"} /\ ph.at = "closing" -> CloseMux(ph)
      [] f.type = "DISC" ->
            Also(IF ph.at = "open" THEN CloseMux(ph) ELSE Stays(ph),
                 <<ToMux(ph, Frame(f.dlci, "UA"))>>)
      [] f.msg = "PN_RSP" ->
            Sends([ph EXCEPT !.at = "opening"], <<ToMux(ph, Frame(ServerDlci, "SABM"))>>)
      [] f.msg = "MSC_CMD" -> Sends(ph, <<ToMux(ph, Message("MSC_RSP", ServerDlci))>>)
      [] f.type = "UIH_PF" -> Stays([ph EXCEPT !.allowed = @ + f.credits])
      [] f.data # 0 -> OnData(ph, f)
      [] OTHER -> Stays(ph)

Hears(ph, pdu) ==
    CASE pdu.cid = SIGNALING -> OnCommand(ph, pdu.body)
      [] pdu.cid = PhoneCid(PSM_SDP) -> OnAnswer(ph, pdu.body)
      [] OTHER -> OnFrame(ph, pdu.body)

\* A packet goes out by radio, and the controller has room for another.
Deliver ==
    /\ radio # <<>>
    /\ radio' = Tail(radio)
    /\ LET step == Hears(phone, Head(radio).pdu)
       IN  /\ phone' = step.ph
           /\ ctl' = [ctl EXCEPT !.acl = @ \o step.out,
                        !.events = Append(@, [Event("COMPLETED_PACKETS") EXCEPT !.num = 1])]
    /\ UNCHANGED <<S, turn, done, written>>

\* The phone looks for the device when everything of an earlier connection is
\* over.
Page ==
    /\ phone.at = "away" /\ phone.left > 0
    /\ ctl.scan /\ ctl.events = <<>> /\ ctl.acl = <<>>
    /\ done = {} /\ S.usb.ctrlOut = NONE /\ S.usb.bulkOut = NONE
    /\ phone' = [NewPhone(phone.left - 1, phone.losses) EXCEPT !.at = "paging"]
    /\ ctl' = [ctl EXCEPT !.events = <<Event("CONNECTION_REQUEST")>>]
    /\ written' = 0
    /\ UNCHANGED <<S, turn, done, radio>>

\* A phone that knows the device already has no need to pair.
Pair ==
    /\ phone.at = "accepted"
    /\ \/ /\ phone' = [phone EXCEPT !.at = "linked"]
          /\ ctl' = [ctl EXCEPT !.events = Append(@, Event("CONNECTION_COMPLETE")),
                                !.link = TRUE]
       \/ /\ phone' = [phone EXCEPT !.at = "pairing"]
          /\ ctl' = [ctl EXCEPT !.events = Append(@, Event("LINK_KEY_REQUEST"))]
    /\ UNCHANGED <<S, turn, done, radio, written>>

PhoneDoes(at, step) ==
    /\ phone.at = at
    /\ phone' = step.ph
    /\ ctl' = [ctl EXCEPT !.acl = @ \o step.out]
    /\ UNCHANGED <<S, turn, done, radio, written>>

\* The first packet comes after the event of the connection was read.
Greet ==
    /\ ctl.events = <<>>
    /\ PhoneDoes("linked", Sends([phone EXCEPT !.at = "sdp"], <<Hello, ConnectTo(PSM_SDP)>>))

Fragments(p) == {<<p>>, <<[p EXCEPT !.frag = "first"], [p EXCEPT !.frag = "last"]>>}

SendData ==
    /\ phone.allowed > 0 /\ phone.sent < FromPhone
    /\ \E out \in Fragments(ToMux(phone, [Frame(ServerDlci, "UIH")
                                            EXCEPT !.data = phone.sent + 1])) :
          PhoneDoes("open", Sends([phone EXCEPT !.sent = @ + 1, !.allowed = @ - 1], out))

\* The phone closes the channel when both sides had their say.
CloseChannel ==
    /\ phone.sent = FromPhone /\ Len(phone.got) = ToPhone
    /\ PhoneDoes("open", Sends([phone EXCEPT !.at = "closing"],
                               <<ToMux(phone, Frame(ServerDlci, "DISC"))>>))

Gone(ph) == [ph EXCEPT !.at = "away"]

LoseLink ==
    /\ radio' = <<>>
    /\ ctl' = [ctl EXCEPT !.link = FALSE,
                          !.events = Append(@, Event("DISCONNECTION_COMPLETE"))]
    /\ UNCHANGED <<S, turn, done, written>>

HangUp ==
    /\ phone.at = "finished"
    /\ phone' = Gone(phone)
    /\ LoseLink

Loss ==
    /\ ctl.link /\ phone.losses > 0
    /\ phone' = [Gone(phone) EXCEPT !.losses = @ - 1]
    /\ LoseLink

----------------------------------------------------------------------------
(* The application, between two passes.                                    *)

Write ==
    /\ turn = 0
    /\ written < ToPhone
    /\ BTCanWrite(S)
    /\ S' = BTWrite(S, written + 1)
    /\ written' = written + 1
    /\ UNCHANGED <<turn, done, ctl, radio, phone>>

Close ==
    /\ turn = 0
    /\ S.app.open
    /\ S' = BTClose(S)
    /\ UNCHANGED <<turn, done, ctl, radio, phone, written>>

----------------------------------------------------------------------------
Driver == PollEvents \/ PollAcl \/ PollBulkOut \/ PollControlOut \/ Tasks
PhoneActs == Page \/ Pair \/ Greet \/ SendData \/ CloseChannel \/ HangUp

Next == Driver \/ TakeCommand \/ TakeAcl \/ Deliver \/ PhoneActs \/ Loss \/ Write \/ Close

\* The main loop polls for ever, transfers and radio get done, the phone goes
\* on, and the application writes what it has to write.  Nobody must close
\* early or get lost.  Each of these names the variable its action alone moves,
\* and how.
NextTurn ==
    LET ready == {e \in turn .. 3 : Ready(e)}
    IN  IF ready = {} THEN 0 ELSE 1 + CHOOSE e \in ready : \A d \in ready : e <= d

Taken(e) == done' = done \cup {e}

Fairness ==
    /\ WF_turn(turn' = NextTurn)
    /\ WF_done(S.usb.ctrlOut # NONE /\ Taken("ctrlOut"))
    /\ WF_done(S.usb.bulkOut # NONE /\ Taken("bulkOut"))
    /\ WF_radio(radio # <<>> /\ radio' = Tail(radio))
    /\ WF_phone(PhoneActs)
    /\ SF_written(turn = 0 /\ written < ToPhone /\ BTCanWrite(S) /\ written' = written + 1)

Spec == Init /\ [][Next]_vars /\ Fairness

----------------------------------------------------------------------------
(* Properties.                                                             *)

\* The one buffer holds a packet until it is transmitted, and no command is
\* sent that the controller has no room for: the handlers of hci.c that check
\* and those of bt_app.c that do not never meet.
BufferIsStable ==
    /\ ~S.hci.overrun
    /\ S.usb.ctrlOut # NONE /\ "ctrlOut" \notin done => S.usb.buffer = S.usb.ctrlOut
    /\ S.usb.bulkOut # NONE /\ "bulkOut" \notin done => S.usb.buffer = S.usb.bulkOut

IsUpTo(s, n) == Len(s) <= n /\ \A i \in DOMAIN s : s[i] = i

\* Three kinds of credit keep the traffic within its bounds, and what gets
\* through gets through in order: the controller has a slot for each packet,
\* the phone room for each it gets, the record arrives byte for byte.
FlowIsKept ==
    /\ Len(radio) <= Slots
    /\ ~phone.overrun
    /\ ~phone.garbled
    /\ IsUpTo(phone.got, written)
    /\ S.app.open => IsUpTo(S.app.got, phone.sent)

\* A multiplexer that waits to answer on DLCI 0 is not ended with its channel.
Leaked == HasMux(S) /\ S.rfcomm.mux.state \in {"SEND_UA_0", "SEND_UA_0_AND_DISC"}

\* With the connection everything that was built on it is gone, in all layers;
\* the application that has a channel has that of the stack, and was told when
\* it ended.
NothingStays ==
    /\ S.app.open => rfcomm_channel_for_rfcomm_cid(S, S.app.channel) /\ HasMux(S)
    /\ S.hci.conn = NONE /\ ~Leaked =>
        /\ S.l2cap.channels = <<>>
        /\ S.sdp.cid = 0
        /\ ~HasMux(S) /\ ~HasChannel(S)

\* l2cap_run is not called when a packet was sent, only when the controller
\* reports it completed.  If that is read first, what l2cap has to say itself
\* waits for an event that nobody causes.
Quiet == /\ ctl.events = <<>> /\ ctl.acl = <<>> /\ radio = <<>>
         /\ S.usb.bulkOut = NONE /\ S.usb.ctrlOut = NONE

Speaks(c) ==
    \/ c.state \in {"WILL_SEND_CONNECTION_RESPONSE_ACCEPT",
                    "WILL_SEND_CONNECTION_RESPONSE_DECLINE",
                    "WILL_SEND_DISCONNECT_RESPONSE", "WILL_SEND_DISCONNECT_REQUEST"}
    \/ c.state = "CONFIG" /\ c.vars \cap {"SEND_CONF_REQ", "SEND_CONF_RSP"} # {}

Stalled ==
    /\ Quiet
    /\ S.l2cap.responses # <<>> \/ \E i \in DOMAIN S.l2cap.channels : Speaks(S.l2cap.channels[i])

\* A phone gets its connection, the record, a channel, its data across and
\* everything closed again, though nobody asks for credits or retries; a
\* stall of l2cap_run is all that can keep it from it.
SessionEnds == phone.at = "paging" ~> (phone.at = "away" \/ Leaked \/ Stalled)
=============================================================================
