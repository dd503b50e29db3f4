-------------------------------- MODULE Sdp --------------------------------
(***************************************************************************)
(* sdp.c and sdp_util.c: the service record of the firmware, and how a     *)
(* query for it is answered in pieces that fit a packet.                   *)
(*                                                                         *)
(* A data element is known by its length, an attribute is its number and   *)
(* the length of its value; a byte of an answer is named by what it is     *)
(* part of and its place there.  The field sdp of the stack's state is     *)
(* cid, the one channel that is served, and response, the answer that      *)
(* waits to be sent.                                                       *)
(***************************************************************************)
EXTENDS Rfcomm

CONSTANTS
    ResponseSize,   \* SDP_RESPONSE_BUFFER_SIZE
    NameSize        \* the length of the service's name

SdpInit == [cid |-> 0, response |-> NONE]

----------------------------------------------------------------------------
(* Data elements: sizes of sdp_util.c's constructors.                      *)

de_number(bytes)  == 1 + bytes
de_data(bytes)    == bytes + IF bytes > 255 THEN 3 ELSE 2
de_sequence(lens) == 3 + FoldLeft(LAMBDA sum, len : sum + len, 0, lens)

Attribute(id, len) == [id |-> id, len |-> len]

\* sdp_create_spp_service.
Record ==
    LET Uuid == de_number(2)
    IN  << Attribute(0, de_number(4)),
           Attribute(1, de_sequence(<<Uuid>>)),
           Attribute(4, de_sequence(<<de_sequence(<<Uuid>>),
                                      de_sequence(<<Uuid, de_number(1)>>)>>)),
           Attribute(5, de_sequence(<<Uuid>>)),
           Attribute(6, de_sequence(<<Uuid, Uuid, Uuid>>)),
           Attribute(9, de_sequence(<<de_sequence(<<Uuid, Uuid>>)>>)),
           Attribute(256, de_data(NameSize)) >>

RecordUuids  == {4353, 256, 3, 4098}      \* in any depth of the record
RecordHandle == 65537

\* sdp_record_matches_service_search_pattern.
Matches(pattern) == pattern \subseteq RecordUuids

----------------------------------------------------------------------------
(* sdp_filter_attributes_in_attributeIDList.  The traversal carries what   *)
(* is to be skipped, what still fits, and what was written.                *)

\* An attribute in the answer: 3 bytes of its number, then its value.
\* attributeIDList is a set of numbers.
Wanted(ids) == SelectSeq(Record, LAMBDA a : a.id \in ids)

\* Bytes from .. to of a part of an attribute.
Bytes(part, id, from, to) == [i \in 1 .. to - from |-> <<part, id, from + i>>]

\* spd_append_range.
AppendRange(ctx, part, id, len) ==
    LET remainder == len - ctx.start
        n == IF ctx.max < remainder THEN ctx.max ELSE remainder
    IN  [start |-> 0, max |-> ctx.max - n, complete |-> n = remainder,
         out |-> ctx.out \o Bytes(part, id, ctx.start, ctx.start + n)]

FilterId(ctx, a) ==
    IF ctx.start >= 3 THEN [ctx EXCEPT !.start = @ - 3]
    ELSE AppendRange(ctx, "id", a.id, 3)

FilterValue(ctx, a) ==
    IF ctx.start >= a.len THEN [ctx EXCEPT !.start = @ - a.len]
    ELSE AppendRange(ctx, "value", a.id, a.len)

\* Nothing more is written after a part that did not fit.
FilterAttribute(ctx, a) ==
    LET head == FilterId(ctx, a)
    IN  IF ~ctx.complete THEN ctx
        ELSE IF ~head.complete THEN head
        ELSE FilterValue(head, a)

Filter(ids, start, max) ==
    FoldLeft(FilterAttribute, [start |-> start, max |-> max, complete |-> TRUE,
                               out |-> <<>>], Wanted(ids))

----------------------------------------------------------------------------
(* The answers.  A query has a continuation: where the last answer ended,  *)
(* 0 in the first one.  With one record the service's index in it is 0.    *)

SizeLimit(q, mtu, overhead) ==
    IF mtu - overhead < q.max THEN mtu - overhead ELSE q.max

Answer(id, body, more) == [id |-> id, body |-> body, more |-> more]

\* The handles of the records that match, here one or none.
sdp_handle_service_search_request(q) ==
    Answer("SEARCH_RESPONSE", IF Matches(q.pattern) THEN <<RecordHandle>> ELSE <<>>, 0)

Header(part) == Bytes(part, 0, 0, 3)

sdp_handle_service_attribute_request(q, mtu) ==
    LET first == q.more = 0
        limit == SizeLimit(q, mtu, 10)
        part  == Filter(q.ids, q.more, IF first THEN limit - 3 ELSE limit)
    IN  IF q.handle # RecordHandle THEN Answer("ERROR", <<>>, 0)
        ELSE Answer("ATTRIBUTE_RESPONSE",
                    (IF first THEN Header("record") ELSE <<>>) \o part.out,
                    IF part.complete THEN 0 ELSE q.more + Len(part.out))

\* The list of lists has a header too.
sdp_handle_service_search_attribute_request(q, mtu) ==
    LET first == q.more = 0
        limit == SizeLimit(q, mtu, 12)
        part  == Filter(q.ids, q.more, IF first THEN limit - 6 ELSE limit)
        list  == IF first THEN Header("list") ELSE <<>>
    IN  IF ~Matches(q.pattern) THEN Answer("SEARCH_ATTRIBUTE_RESPONSE", list, 0)
        ELSE Answer("SEARCH_ATTRIBUTE_RESPONSE",
                    list \o (IF first THEN Header("record") ELSE <<>>) \o part.out,
                    IF part.complete THEN 0 ELSE q.more + Len(part.out))

SdpAnswer(q, mtu) ==
    CASE q.id = "SEARCH" -> sdp_handle_service_search_request(q)
      [] q.id = "ATTRIBUTE" -> sdp_handle_service_attribute_request(q, mtu)
      [] q.id = "SEARCH_ATTRIBUTE" -> sdp_handle_service_search_attribute_request(q, mtu)
      [] OTHER -> Answer("ERROR", <<>>, 0)

----------------------------------------------------------------------------
(* sdp_packet_handler.                                                     *)

sdp_try_respond(S) ==
    IF S.sdp.response = NONE \/ ~l2cap_can_send_packet_now(S, S.sdp.cid) THEN S
    ELSE l2cap_send_prepared([S EXCEPT !.sdp.response = NONE], S.sdp.cid, S.sdp.response)

\* The answer takes the place of one that was not sent yet.
SdpQuery(S, cid, q) ==
    LET mtu == l2cap_get_remote_mtu(S, cid)
    IN  sdp_try_respond([S EXCEPT !.sdp.response =
            SdpAnswer(q, IF mtu > ResponseSize THEN ResponseSize ELSE mtu)])

SdpIncoming(S, cid) ==
    IF S.sdp.cid # 0 THEN l2cap_decline_connection(S, cid, 13)
    ELSE l2cap_accept_connection([S EXCEPT !.sdp.cid = cid, !.sdp.response = NONE], cid)

SdpClosed(S, cid) == IF cid = S.sdp.cid THEN [S EXCEPT !.sdp.cid = 0] ELSE S
=============================================================================
