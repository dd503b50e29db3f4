------------------------------ MODULE AdbFile ------------------------------
(***************************************************************************)
(* Reading files of the phone (adb_file.c): the sync service of the daemon *)
(* over channels of adb.c.                                                 *)
(*                                                                         *)
(* A read takes a slot and a channel.  The phone answers a request with    *)
(* messages, a header and data each, cut into packets anywhere: the        *)
(* callback of the channel puts them together over several calls.  call is *)
(* the call under way; a step of it is a turn of the callback's loop.      *)
(*                                                                         *)
(* The channels are those of adb.c as a client sees them: module Adb has   *)
(* their protocol.  The phone is external.  Sizes are in units, some bytes *)
(* each, and a header is HeaderSize of them.                               *)
(***************************************************************************)
EXTENDS Integers, Sequences, SequencesExt

CONSTANTS
    MaxFiles,      \* ADB_FILE_MAX_FILES
    MaxChannels,   \* ADB_MAX_CHANNELS
    HeaderSize,    \* sizeof f->msg.data
    MaxPacket,     \* units of a packet from the phone
    Replies,       \* what the phone may answer: sequences of messages, no
                   \* DATA empty and DONE without any, as adbd has them
    MaxReads,      \* bound on the calls of ADBFileRead
    MaxResets,     \* bound on errors of the connection
    AppFirst       \* TRUE if the first channel is always the application's

Message == [id : {"DATA", "DONE", "FAIL", "BAD"}, size : Nat]

ASSUME FileAssumption ==
    /\ MaxFiles \in Nat \ {0} /\ MaxChannels \in Nat \ {0}
    /\ HeaderSize \in Nat \ {0} /\ MaxPacket \in Nat \ {0}
    /\ MaxReads \in Nat /\ MaxResets \in Nat
    /\ Replies \subseteq Seq(Message)
    /\ \A reply \in Replies : \A i \in 1 .. Len(reply) :
          /\ reply[i].id = "DATA" => reply[i].size > 0
          /\ reply[i].id = "DONE" => reply[i].size = 0
    /\ AppFirst \in BOOLEAN

VARIABLES
    files,     \* adb_files
    chan,      \* the channels of adb.c: their state and whose they are
    stream,    \* for each channel, what the phone has still to send
    call,      \* the call of ADBFileCallback under way
    reset,     \* the next channel ADBReset tells, MaxChannels if none
    reads,     \* what the client knows of its reads
    nreads, resets,  \* counted for the bounds
    failed     \* an assertion failed, or NULL was called: nothing goes on

vars == <<files, chan, stream, call, reset, reads, nreads, resets, failed>>

Slots    == 0 .. MaxFiles - 1
Channels == 0 .. MaxChannels - 1
Reads    == 1 .. MaxReads
Other    == 0   \* the owner of a channel that is not of a read

\* A unit of the stream of read r: of the header of a message, or the j-th of
\* its data.
HeaderUnit(m)     == [part |-> "header", id |-> m.id, size |-> m.size]
DataUnit(r, i, j) == [part |-> "data", of |-> <<r, i, j>>]
StreamOf(r, reply) ==
    FlattenSeq([i \in 1 .. Len(reply) |->
        [j \in 1 .. HeaderSize |-> HeaderUnit(reply[i])]
        \o [j \in 1 .. reply[i].size |-> DataUnit(r, i, j)]])
\* The contents of the file are the data of DATA messages up to DONE.
ContentsOf(r, reply) ==
    FlattenSeq([i \in 1 .. Len(reply) |->
        IF reply[i].id = "DATA" /\ \A k \in 1 .. i : reply[k].id # "DONE"
          THEN [j \in 1 .. reply[i].size |-> DataUnit(r, i, j)]
          ELSE <<>>])

\* memset(f, 0, sizeof(ADB_FILE)); func is the read whose callback it is.
FreeFile == [state |-> "FREE", func |-> 0, handle |-> 0, remain |-> 0,
             id |-> "NONE", size |-> 0]
FreeChannel == [state |-> "FREE", owner |-> Other]
NoCall == [kind |-> "none", h |-> 0, slot |-> 0, data |-> <<>>]
NewRead == [state |-> "none", slot |-> 0, reply |-> <<>>, got |-> <<>>,
            end |-> "no"]

\* The application has opened a channel of its own, the first one.
AppChannel == [state |-> "IDLE", owner |-> Other]
Init ==
    /\ files = [i \in Slots |-> FreeFile]
    /\ chan = [h \in Channels |->
                IF h = 0 /\ AppFirst THEN AppChannel ELSE FreeChannel]
    /\ stream = [h \in Channels |-> <<>>]
    /\ call = NoCall /\ reset = MaxChannels
    /\ reads = [r \in Reads |-> NewRead]
    /\ nreads = 0 /\ resets = 0 /\ failed = FALSE

Quiet == call = NoCall /\ reset = MaxChannels /\ ~failed

----------------------------------------------------------------------------
(* ADBFileRead, ADBFileClose, ADBFileTasks.                                *)

FirstFree(f, D) == {x \in D : /\ f[x].state = "FREE"
                              /\ \A y \in D : y < x => f[y].state # "FREE"}

\* A read that finds a slot and a channel; otherwise nothing changes but the
\* handle of the slot, which is not looked at.
Read ==
    /\ Quiet /\ nreads < MaxReads
    /\ AppFirst => chan[0] # FreeChannel
    /\ nreads' = nreads + 1
    /\ LET r == nreads + 1 IN
       \E i \in FirstFree(files, Slots), h \in FirstFree(chan, Channels) :
          /\ chan' = [chan EXCEPT ![h] = [state |-> "OPENING", owner |-> r]]
          /\ files' = [files EXCEPT ![i] = [FreeFile EXCEPT
                        !.state = "WAIT_OPEN", !.func = r, !.handle = h]]
          /\ reads' = [reads EXCEPT ![r].state = "open", ![r].slot = i]
          /\ stream' = [stream EXCEPT ![h] = <<>>]
    /\ UNCHANGED <<call, reset, resets, failed>>

\* ADBClose.
Closed(c, h) == IF c[h].state = "FREE" THEN c
                ELSE [c EXCEPT ![h].state = "CLOSING"]

\* The client closes a file it reads, from outside its callback.
CloseFile(r) ==
    /\ Quiet /\ reads[r].state = "open" /\ reads[r].end = "no"
    /\ LET i == reads[r].slot IN
       IF files[i].state # "FREE"
         THEN /\ chan' = Closed(chan, files[i].handle)
              /\ files' = [files EXCEPT ![i] = FreeFile]
         ELSE UNCHANGED <<chan, files>>
    /\ reads' = [reads EXCEPT ![r].state = "closed"]
    /\ UNCHANGED <<stream, call, reset, nreads, resets, failed>>

\* Mutant: only the first slot is looked at.
FileTasksFirst(i) ==
    /\ Quiet /\ i = 0 /\ files[i].state = "WAIT_OPEN"
    /\ chan[files[i].handle].state = "IDLE"
    /\ chan' = [chan EXCEPT ![files[i].handle].state = "BUSY"]
    /\ files' = [files EXCEPT ![i].state = "WAIT_HEADER",
                              ![i].remain = HeaderSize]
    /\ UNCHANGED <<stream, call, reset, reads, nreads, resets, failed>>

\* ADBFileTasks, for one slot: the request is written.
FileTasks(i) ==
    /\ Quiet /\ files[i].state = "WAIT_OPEN"
    /\ chan[files[i].handle].state = "IDLE"
    /\ chan' = [chan EXCEPT ![files[i].handle].state = "BUSY"]
    /\ files' = [files EXCEPT ![i].state = "WAIT_HEADER",
                              ![i].remain = HeaderSize]
    /\ UNCHANGED <<stream, call, reset, reads, nreads, resets, failed>>

----------------------------------------------------------------------------
(* The channels: adb.c and the phone.                                      *)

Opens(h) ==
    /\ Quiet /\ chan[h].state = "OPENING"
    /\ chan' = [chan EXCEPT ![h].state = "IDLE"]
    /\ UNCHANGED <<files, stream, call, reset, reads, nreads, resets, failed>>

\* The phone takes the request, and has the reply ready.
Acknowledges(h) ==
    /\ Quiet /\ chan[h].state = "BUSY"
    /\ chan' = [chan EXCEPT ![h].state = "IDLE"]
    /\ \E reply \in Replies :
          /\ stream' = [stream EXCEPT ![h] = StreamOf(chan[h].owner, reply)]
          /\ reads' = [reads EXCEPT ![chan[h].owner].reply = reply]
    /\ UNCHANGED <<files, call, reset, nreads, resets, failed>>

\* Some slot has this handle: the first one gets the call, in use or not.
HasSlot(h) == \E i \in Slots : files[i].handle = h
SlotOf(h) ==
    CHOOSE i \in Slots :
        files[i].handle = h /\ \A j \in Slots : j < i => files[j].handle # h

\* The call of the callback of a read's channel.
Calls(h, kind, data) ==
    IF HasSlot(h)
      THEN /\ call' = [kind |-> kind, h |-> h, slot |-> SlotOf(h), data |-> data]
           /\ UNCHANGED failed
      ELSE failed' = TRUE /\ UNCHANGED call   \* assert(i < ADB_FILE_MAX_FILES)

\* A packet of n units.  Nothing is handed up on a channel that is closing.
Packet(h, n) ==
    /\ Quiet /\ chan[h].state \in {"IDLE", "BUSY"} /\ n <= Len(stream[h])
    /\ Calls(h, "data", SubSeq(stream[h], 1, n))
    /\ stream' = [stream EXCEPT ![h] = SubSeq(@, n + 1, Len(@))]
    /\ UNCHANGED <<files, chan, reset, reads, nreads, resets>>

\* The phone speaks before it is asked.
SpeaksFirst(h) ==
    /\ Quiet /\ chan[h].state = "IDLE" /\ chan[h].owner # Other
    /\ reads[chan[h].owner].reply = <<>>
    /\ Calls(h, "data", <<HeaderUnit([id |-> "BAD", size |-> 0])>>)
    /\ UNCHANGED <<files, chan, stream, reset, reads, nreads, resets>>

\* CLSE: the channel is freed after its callback was called.  The application's
\* is closed only from here, in DataDone.
PhoneCloses(h) ==
    /\ Quiet
    /\ chan[h].owner # Other \/ chan[h].state = "CLOSING"
    /\ chan[h].state \in {"OPENING", "IDLE", "BUSY", "CLOSING"}
    /\ chan' = [chan EXCEPT ![h] = FreeChannel]
    /\ IF chan[h].state = "CLOSING" THEN UNCHANGED <<call, failed>>
       ELSE Calls(h, "closed", <<>>)
    /\ stream' = [stream EXCEPT ![h] = <<>>]
    /\ UNCHANGED <<files, reset, reads, nreads, resets>>

\* After an error the application opens its channel in the next pass.
AppOpens ==
    /\ AppFirst /\ Quiet /\ chan[0] = FreeChannel
    /\ chan' = [chan EXCEPT ![0] = AppChannel]
    /\ UNCHANGED <<files, stream, call, reset, reads, nreads, resets, failed>>

\* ADBReset tells every channel that is not free, one after the other, those too
\* that the client or the end of a file has closed: their slot was cleared, and
\* the assertion fails (adb_file.c:114).
StartReset ==
    /\ Quiet /\ resets < MaxResets
    /\ resets' = resets + 1 /\ reset' = 0
    /\ UNCHANGED <<files, chan, stream, call, reads, nreads, failed>>

ResetOne ==
    /\ call = NoCall /\ ~failed /\ reset < MaxChannels
    /\ IF chan[reset].owner # Other THEN Calls(reset, "closed", <<>>)
       ELSE UNCHANGED <<call, failed>>
    /\ IF failed' THEN UNCHANGED <<chan, stream, reset>>
       ELSE /\ reset' = reset + 1
            /\ chan' = [chan EXCEPT ![reset] = FreeChannel]
            /\ stream' = [stream EXCEPT ![reset] = <<>>]
    /\ UNCHANGED <<files, reads, nreads, resets>>

\* The phone is attached again: ADBInit and ADBFileInit clear the tables and
\* tell nobody; the client has watched ADBAttached and forgets its reads.
Reattach ==
    /\ Quiet /\ resets < MaxResets
    /\ resets' = resets + 1
    /\ files' = [i \in Slots |-> FreeFile]
    /\ chan' = [h \in Channels |-> FreeChannel]
    /\ stream' = [h \in Channels |-> <<>>]
    /\ reads' = [r \in Reads |-> IF reads[r].state = "open"
                                   THEN [reads[r] EXCEPT !.state = "gone"]
                                 ELSE reads[r]]
    /\ UNCHANGED <<call, reset, nreads, failed>>

----------------------------------------------------------------------------
(* ADBFileCallback.                                                        *)

In(s)  == call.kind = "data" /\ files[call.slot].state = s
File   == files[call.slot]
Have   == Len(call.data)
Rest(n) == [call EXCEPT !.data = SubSeq(@, n + 1, Len(@))]

Returns == call' = NoCall
Still   == UNCHANGED <<stream, reset, nreads, resets>>

\* f->func(i, units, n), if there is a unit.
Tells(units) ==
    IF units = <<>> THEN UNCHANGED reads
    ELSE reads' = [reads EXCEPT ![File.func].got = @ \o units]

\* f->func(i, NULL, how), if somebody is to be told; otherwise NULL is called,
\* and the program stops where it is.
TellsEnd(how) ==
    reads' = [reads EXCEPT ![File.func].end = IF @ = "no" THEN how ELSE "again"]
CallsNull == File.func = 0 /\ failed' = TRUE /\ UNCHANGED <<files, reads, call>>

\* Mutant: the slot is not freed.
ErrorNotFreed ==
    \/ CallsNull
    \/ File.func # 0 /\ TellsEnd("error") /\ Returns /\ UNCHANGED <<files, failed>>

\* error: the client is told, and the slot is free.  A client that closes the
\* file in this callback changes nothing any more.
Error ==
    \/ CallsNull
    \/ /\ File.func # 0 /\ TellsEnd("error")
       /\ files' = [files EXCEPT ![call.slot] = FreeFile]
       /\ Returns /\ UNCHANGED failed
CloseAndError == Error /\ chan' = Closed(chan, File.handle)

\* The channel was closed, or reset.
ClosedUnexpectedly ==
    /\ call.kind = "closed" /\ ~failed
    /\ Error /\ UNCHANGED chan /\ Still

\* Data that nobody has asked for.
Unasked == (In("FREE") \/ In("WAIT_OPEN")) /\ ~failed /\ CloseAndError /\ Still

\* What the rest of the header brings; which it is, its last unit tells.  Data
\* in its place are none: contents that look like a header are left out.
Header ==
    /\ In("WAIT_HEADER") /\ Have >= File.remain /\ ~failed
    /\ LET u == call.data[File.remain] IN
       IF (\A k \in 1 .. File.remain : call.data[k].part = "header") /\ u.id # "BAD"
         THEN /\ files' = [files EXCEPT ![call.slot] =
                    [@ EXCEPT !.id = u.id, !.size = u.size, !.remain = u.size,
                       !.state = IF u.id = "FAIL" THEN "WAIT_FAIL_DATA"
                                 ELSE "WAIT_DATA"]]
              /\ call' = Rest(File.remain)
              /\ UNCHANGED <<chan, reads, failed>>
         ELSE CloseAndError
    /\ Still

\* Mutant: what came is not counted.
PartNotCounted(s) ==
    /\ In(s) /\ Have < File.remain /\ ~failed
    /\ Returns
    /\ UNCHANGED <<files, chan, failed>> /\ Still

PartOf(s) ==
    /\ In(s) /\ Have < File.remain /\ ~failed
    /\ files' = [files EXCEPT ![call.slot].remain = @ - Have]
    /\ Returns
    /\ UNCHANGED <<chan, failed>> /\ Still

HeaderPart   == PartOf("WAIT_HEADER") /\ UNCHANGED reads
FailDataPart == PartOf("WAIT_FAIL_DATA") /\ UNCHANGED reads
DataPart     == (File.func # 0 \/ Have = 0) /\ PartOf("WAIT_DATA") /\ Tells(call.data)

FailData ==
    /\ In("WAIT_FAIL_DATA") /\ Have >= File.remain /\ ~failed
    /\ CloseAndError /\ Still

\* The client closes the file inside the callback that hands it units, and the
\* slot is cleared under the loop, which makes f of it.  The channel has still to
\* be closed.
ClosesInside(units, f) ==
    /\ reads' = [reads EXCEPT ![File.func].got = @ \o units,
                              ![File.func].state = "closed"]
    /\ chan' = Closed(chan, File.handle)
    /\ files' = [files EXCEPT ![call.slot] = f]
    /\ UNCHANGED failed

\* The loop goes on as after data of 0 units: it passes over nothing, takes what
\* was just handed up for a header, and the slot waits for one, with no client.
Loose == [FreeFile EXCEPT !.state = "WAIT_HEADER", !.remain = HeaderSize]
DataClosed ==
    /\ In("WAIT_DATA") /\ Have >= File.remain /\ Have > 0 /\ ~failed
    /\ File.func # 0
    /\ ClosesInside(SubSeq(call.data, 1, File.remain), Loose)
    /\ UNCHANGED call /\ Still

\* read_remain wraps in the free slot, where nobody looks at it.
DataPartClosed ==
    /\ In("WAIT_DATA") /\ Have < File.remain /\ Have > 0 /\ ~failed
    /\ File.func # 0
    /\ ClosesInside(call.data, FreeFile)
    /\ Returns /\ Still

\* The data of the message are complete, and the next header is expected.
Data ==
    /\ In("WAIT_DATA") /\ Have >= File.remain /\ File.id # "DONE" /\ ~failed
    /\ File.func # 0
    /\ files' = [files EXCEPT ![call.slot] =
          [@ EXCEPT !.remain = HeaderSize, !.state = "WAIT_HEADER"]]
    /\ reads' = [reads EXCEPT
          ![File.func].got = @ \o SubSeq(call.data, 1, File.remain)]
    /\ call' = Rest(File.remain)
    /\ UNCHANGED <<chan, failed>> /\ Still

\* DONE is the last message: nothing may follow.  ADBClose comes after the
\* callback: if the client has closed the file there, the handle is 0 and the
\* channel of the application is closed.
DataDone ==
    /\ In("WAIT_DATA") /\ Have >= File.remain /\ File.id = "DONE" /\ ~failed
    /\ File.func # 0
    /\ IF Have # File.remain THEN CloseAndError
       ELSE /\ TellsEnd("eof")
            /\ \/ chan' = Closed(chan, File.handle)
               \/ chan' = Closed(Closed(chan, File.handle), 0)
            /\ files' = [files EXCEPT ![call.slot] = FreeFile]
            /\ Returns /\ UNCHANGED failed
    /\ Still

\* Data, or the end, for a slot that the client closed inside the callback.
NobodyToTell ==
    /\ In("WAIT_DATA") /\ ~failed
    /\ Have > 0 \/ Have >= File.remain
    /\ CallsNull /\ UNCHANGED chan /\ Still

Callback ==
    \/ ClosedUnexpectedly \/ Unasked
    \/ Header \/ HeaderPart
    \/ Data \/ DataDone \/ DataPart \/ DataClosed \/ DataPartClosed
    \/ FailData \/ FailDataPart \/ NobodyToTell

Next ==
    \/ Read
    \/ \E r \in Reads : CloseFile(r)
    \/ \E i \in Slots : FileTasks(i)
    \/ \E h \in Channels :
          \/ Opens(h) \/ Acknowledges(h) \/ SpeaksFirst(h)
          \/ PhoneCloses(h)
          \/ \E n \in 1 .. MaxPacket : Packet(h, n)
    \/ StartReset \/ ResetOne \/ Reattach \/ AppOpens
    \/ Callback

\* The main loop and the phone go on; a packet has as many units as it likes.
Fairness ==
    /\ \A i \in Slots : WF_vars(FileTasks(i))
    /\ \A h \in Channels :
          /\ WF_vars(Opens(h)) /\ WF_vars(Acknowledges(h))
          /\ WF_vars(\E n \in 1 .. MaxPacket : Packet(h, n))
    /\ WF_vars(ResetOne) /\ WF_vars(Callback)

Spec == Init /\ [][Next]_vars /\ Fairness

----------------------------------------------------------------------------
(* Properties.                                                             *)

\* However the reply is cut into packets, and whatever is read at the same
\* time, a client is handed the contents of its own file from the first unit
\* on, and the end of the file only after the last one.
HandsContents ==
    \A r \in Reads :
        LET contents == ContentsOf(r, reads[r].reply) IN
        /\ IsPrefix(reads[r].got, contents)
        /\ reads[r].end = "eof" => reads[r].got = contents

\* A slot is in use exactly while its read is under way, and has a channel of
\* its own that is live: no read outlives its channel, and no channel is left
\* to a slot that another read may take.  A reset that has come to a channel
\* calls the slot in the step after.  (A slot whose client closed the file inside
\* the callback has no client.)
SlotsMatch ==
    \A i \in Slots :
        (files[i].state # "FREE" /\ files[i].func # 0) =>
            LET r == files[i].func
                h == files[i].handle IN
            /\ reads[r].slot = i
            /\ reads[r].state = "open" /\ reads[r].end = "no"
            /\ \/ chan[h].owner = r /\ chan[h].state \in {"OPENING", "IDLE", "BUSY"}
               \/ call.kind = "closed" /\ call.slot = i

\* The code has two ways to stop.  NULL is called, for a client that closed its
\* file inside the callback (adb_file.c:149, 190).  Or ADBReset comes to a channel
\* that is being closed, after the end of its file or ADBFileClose, and finds no
\* slot (adb_file.c:114), although "the callback function will no longer be
\* called" (adb_file.h:91).
Stopped ==
    /\ failed
    /\ \/ call.kind = "data" /\ File.func = 0
       \/ reset < MaxChannels /\ chan[reset].state = "CLOSING"

\* Every read comes to an end, if the phone ends its replies and the program
\* has not stopped in one of these two ways.
ReadEnds ==
    \A r \in Reads :
        reads[r].state = "open" ~>
            (reads[r].end # "no" \/ reads[r].state # "open" \/ Stopped)

=============================================================================
