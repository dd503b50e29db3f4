--------------------------- MODULE AdbFileProofs ---------------------------
(***************************************************************************)
(* The safety properties of AdbFile, for any number of slots, channels,    *)
(* reads and errors, any replies, and packets of any size.                 *)
(*                                                                         *)
(* SlotsMatch needs to know of the slots and channels that are free, too:  *)
(* a channel that is open has its slot (ItsSlot), and the slot that the    *)
(* callback runs for is the one of its channel (ItsCall).                  *)
(*                                                                         *)
(* HandsContents needs the place in the stream that a slot has come to     *)
(* (At): how many messages are over, what of the next one was handed on,   *)
(* and that what is in hand and what is still to come are the rest of the  *)
(* stream.  The stream is the sum of a sequence of sequences; what that    *)
(* sum is after each of them is proved first, by induction over the        *)
(* naturals as a set (NatIsInductive).                                     *)
(***************************************************************************)
EXTENDS AdbFile, WellFoundedInduction, TLAPS

\* The values of the fields.
FileStates == {"FREE", "WAIT_OPEN", "WAIT_HEADER", "WAIT_DATA", "WAIT_FAIL_DATA"}
ReadStates == {"none", "open", "closed", "gone"}
Ends       == {"no", "error", "eof", "again"}
Calling    == {"none", "data", "closed"}
Live       == {"OPENING", "IDLE", "BUSY"}

IsFile(f) ==
    /\ f = [state |-> f.state, func |-> f.func, handle |-> f.handle,
            remain |-> f.remain, id |-> f.id, size |-> f.size]
    /\ f.state \in FileStates /\ f.func \in 0 .. MaxReads
    /\ f.handle \in Channels
IsRead(x) ==
    /\ x = [state |-> x.state, slot |-> x.slot, reply |-> x.reply,
            got |-> x.got, end |-> x.end]
    /\ x.state \in ReadStates /\ x.slot \in Slots /\ x.end \in Ends
IsCall(c) ==
    /\ c = [kind |-> c.kind, h |-> c.h, slot |-> c.slot, data |-> c.data]
    /\ c.kind \in Calling /\ c.h \in Channels /\ c.slot \in Slots
    /\ c.kind = "none" => c = NoCall

Types ==
    /\ files = [i \in Slots |-> files[i]] /\ \A i \in Slots : IsFile(files[i])
    /\ reads = [r \in Reads |-> reads[r]] /\ \A r \in Reads : IsRead(reads[r])
    /\ chan \in [Channels -> [state : Live \cup {"FREE", "CLOSING"},
                              owner : 0 .. MaxReads]]
    /\ IsCall(call)
    /\ stream = [h \in Channels |-> stream[h]]
    /\ reset \in 0 .. MaxChannels /\ nreads \in 0 .. MaxReads
    /\ failed \in BOOLEAN

\* A slot is free or left over, or it is read r's that is under way.
OwnSlot ==
    \A i \in Slots :
        /\ files[i].func = 0 <=> files[i].handle = 0
        /\ files[i].state = "FREE" => files[i].func = 0
        /\ files[i].state = "WAIT_OPEN" => files[i].func # 0
        /\ files[i].func # 0 =>
              /\ files[i].state # "FREE"
              /\ reads[files[i].func].slot = i
              /\ reads[files[i].func].state = "open"
              /\ reads[files[i].func].end = "no"
OwnRead ==
    \A r \in Reads :
        /\ r > nreads => reads[r] = NewRead
        /\ reads[r].state = "open" /\ reads[r].end = "no"
              => files[reads[r].slot].func = r
OwnHandle ==
    \A i, j \in Slots :
        files[i].handle = files[j].handle /\ files[i].handle # 0 => i = j

\* The slot that is told its channel is closed.
Told(i) == call.kind = "closed" /\ call.slot = i
OwnChannel ==
    \A i \in Slots : files[i].func # 0 =>
        \/ /\ chan[files[i].handle].owner = files[i].func
           /\ chan[files[i].handle].state \in Live
        \/ /\ Told(i) /\ chan[files[i].handle] = FreeChannel
\* The channels that are free, and the application's.
FreeChannels ==
    /\ \A h \in Channels : chan[h].state = "FREE" => chan[h] = FreeChannel
    /\ chan[0].owner = Other
\* A channel that is open has its slot.
ItsSlot ==
    \A h \in Channels :
        chan[h].owner # Other /\ chan[h].state \in Live =>
            \E i \in Slots : files[i].handle = h /\ files[i].func = chan[h].owner
ItsCall ==
    /\ call.kind = "closed" =>
        /\ files[call.slot].handle = call.h /\ chan[call.h] = FreeChannel
        /\ call.h # 0
    /\ call.kind # "none" /\ files[call.slot].func # 0 =>
          files[call.slot].handle = call.h

SlotInv == /\ Types /\ OwnSlot /\ OwnRead /\ OwnHandle /\ OwnChannel
           /\ FreeChannels /\ ItsSlot /\ ItsCall

LEMMA InitSlot == Init /\ AppFirst => SlotInv
<1> SUFFICES ASSUME Init, AppFirst PROVE SlotInv
  OBVIOUS
<1> USE FileAssumption
<1>0. 0 \in Slots /\ 0 \in Channels
  BY DEF Slots, Channels
<1>1. Types
  <2>1. IsFile(FreeFile) /\ IsRead(NewRead) /\ IsCall(NoCall)
    BY <1>0 DEF IsFile, IsRead, IsCall, FreeFile, NewRead, NoCall, FileStates,
           ReadStates, Ends, Calling
  <2>2. /\ FreeChannel \in [state : Live \cup {"FREE", "CLOSING"}, owner : 0 .. MaxReads]
        /\ AppChannel \in [state : Live \cup {"FREE", "CLOSING"}, owner : 0 .. MaxReads]
    BY DEF FreeChannel, AppChannel, Live, Other
  <2>3. /\ files = [i \in Slots |-> files[i]]
        /\ \A i \in Slots : files[i] = FreeFile
        /\ reads = [r \in Reads |-> reads[r]]
        /\ \A r \in Reads : reads[r] = NewRead
        /\ stream = [h \in Channels |-> stream[h]]
    BY DEF Init
  <2>4. chan \in [Channels -> [state : Live \cup {"FREE", "CLOSING"},
                              owner : 0 .. MaxReads]]
    BY <2>2 DEF Init
  <2>5. reset \in 0 .. MaxChannels /\ nreads \in 0 .. MaxReads
    BY DEF Init
  <2>6. failed \in BOOLEAN /\ call = NoCall
    BY DEF Init
  <2> QED BY <2>1, <2>3, <2>4, <2>5, <2>6 DEF Types
<1>2. /\ \A i \in Slots : files[i] = FreeFile
      /\ \A r \in Reads : reads[r] = NewRead
      /\ \A h \in Channels : chan[h] = IF h = 0 THEN AppChannel ELSE FreeChannel
      /\ call = NoCall
  BY DEF Init
<1> QED
  BY <1>0, <1>1, <1>2 DEF SlotInv, OwnSlot, OwnRead, OwnHandle, OwnChannel, FreeChannels,
      ItsSlot, ItsCall, FreeFile, NewRead, NoCall, FreeChannel, AppChannel, Other

\* A step that calls the slot of channel h, or finds none.
LEMMA CallsSlot ==
    ASSUME NEW h \in Channels, NEW kind \in {"data", "closed"}, NEW data,
           Types, Calls(h, kind, data)
    PROVE  \/ \E s \in Slots :
                 /\ files[s].handle = h
                 /\ call' = [kind |-> kind, h |-> h, slot |-> s, data |-> data]
                 /\ failed' = failed
           \/ /\ \A i \in Slots : files[i].handle # h
              /\ failed' = TRUE /\ call' = call
<1>1. CASE HasSlot(h)
  <2>1. PICK i \in Slots : files[i].handle = h
    BY <1>1 DEF HasSlot
  <2> DEFINE S == {j \in Slots : files[j].handle = h}
  <2>2. \E s \in S : \A j \in S : ~ (<<j, s>> \in OpToRel(<, Nat))
    <3>1. S \subseteq Nat /\ S # {}
      BY <2>1, FileAssumption DEF Slots
    <3> HIDE DEF S
    <3> QED BY <3>1, NatLessThanWellFounded, WFMin
  <2>3. PICK s \in S : \A j \in S : ~ (<<j, s>> \in OpToRel(<, Nat))
    BY <2>2
  <2>4. \A j \in Slots : j < s => files[j].handle # h
    <3> SUFFICES ASSUME NEW j \in Slots, j < s, files[j].handle = h PROVE FALSE
      OBVIOUS
    <3>1. j \in Nat /\ s \in Nat
      BY FileAssumption DEF Slots
    <3>2. <<j, s>> \in OpToRel(<, Nat)
      BY <3>1 DEF OpToRel
    <3> QED BY <3>2, <2>3
  <2>5. SlotOf(h) \in Slots /\ files[SlotOf(h)].handle = h
    BY <2>4, <2>3 DEF SlotOf
  <2> QED BY <1>1, <2>5 DEF Calls
<1>2. CASE ~HasSlot(h)
  BY <1>2 DEF Calls, HasSlot
<1> QED BY <1>1, <1>2

\* The record of a read with one field changed.
LEMMA ReadChange ==
    ASSUME NEW x, IsRead(x), NEW v
    PROVE  /\ [x EXCEPT !.end = v] = [state |-> x.state, slot |-> x.slot,
                  reply |-> x.reply, got |-> x.got, end |-> v]
           /\ [x EXCEPT !.got = v] = [state |-> x.state, slot |-> x.slot,
                  reply |-> x.reply, got |-> v, end |-> x.end]
<1> DEFINE r == [state |-> x.state, slot |-> x.slot, reply |-> x.reply,
                 got |-> x.got, end |-> x.end]
<1>1. x = r
  BY DEF IsRead
<1>2. [r EXCEPT !.end = v] = [state |-> x.state, slot |-> x.slot,
                  reply |-> x.reply, got |-> x.got, end |-> v]
  OBVIOUS
<1>3. [r EXCEPT !.got = v] = [state |-> x.state, slot |-> x.slot,
                  reply |-> x.reply, got |-> v, end |-> x.end]
  OBVIOUS
<1> HIDE DEF r
<1> QED BY <1>1, <1>2, <1>3

\* What is left of a read when its end is set.
LEMMA ReadEnd ==
    ASSUME NEW x, IsRead(x), NEW v \in Ends
    PROVE  LET y == [x EXCEPT !.end = v]
           IN  /\ IsRead(y) /\ y.end = v /\ y.got = x.got /\ y.reply = x.reply
               /\ y.state = x.state /\ y.slot = x.slot
<1> DEFINE y == [x EXCEPT !.end = v]
<1>1. y = [state |-> x.state, slot |-> x.slot, reply |-> x.reply, got |-> x.got,
           end |-> v]
  BY ReadChange
<1> HIDE DEF y
<1>2. /\ y.end = v /\ y.got = x.got /\ y.reply = x.reply
      /\ y.state = x.state /\ y.slot = x.slot
  BY <1>1
<1>3. IsRead(y)
  <2>1. x.state \in ReadStates /\ x.slot \in Slots
    BY DEF IsRead
  <2> QED BY <1>1, <1>2, <2>1 DEF IsRead
<1> QED BY <1>2, <1>3 DEF y

\* The slot of a read that begins.
OpenedFile(r, h) == [state |-> "WAIT_OPEN", func |-> r, handle |-> h,
                     remain |-> 0, id |-> "NONE", size |-> 0]
LEMMA OpenedIs ==
    ASSUME NEW r, NEW h
    PROVE  [FreeFile EXCEPT !.state = "WAIT_OPEN", !.func = r, !.handle = h]
             = OpenedFile(r, h)
<1> DEFINE a == [state |-> "WAIT_OPEN", func |-> 0, handle |-> 0,
                 remain |-> 0, id |-> "NONE", size |-> 0]
           b == [state |-> "WAIT_OPEN", func |-> r, handle |-> 0,
                 remain |-> 0, id |-> "NONE", size |-> 0]
<1>1. [FreeFile EXCEPT !.state = "WAIT_OPEN"] = a
  BY DEF FreeFile
<1>2. [a EXCEPT !.func = r] = b
  OBVIOUS
<1>3. [b EXCEPT !.handle = h] = OpenedFile(r, h)
  BY DEF OpenedFile
<1> HIDE DEF a, b
<1> QED BY <1>1, <1>2, <1>3

LEMMA SlotRead == SlotInv /\ AppFirst /\ Read => SlotInv'
<1> SUFFICES ASSUME SlotInv, AppFirst, Read PROVE SlotInv'
  OBVIOUS
<1> DEFINE r == nreads + 1
<1>1. /\ Quiet /\ nreads < MaxReads /\ nreads' = r /\ chan[0] # FreeChannel
      /\ call' = call /\ reset' = reset /\ failed' = failed
  BY DEF Read
<1>2. PICK i \in FirstFree(files, Slots), h \in FirstFree(chan, Channels) :
          /\ chan' = [chan EXCEPT ![h] = [state |-> "OPENING", owner |-> r]]
          /\ files' = [files EXCEPT ![i] = [FreeFile EXCEPT
                        !.state = "WAIT_OPEN", !.func = r, !.handle = h]]
          /\ reads' = [reads EXCEPT ![r].state = "open", ![r].slot = i]
          /\ stream' = [stream EXCEPT ![h] = <<>>]
  BY DEF Read
<1>3. /\ i \in Slots /\ files[i].state = "FREE"
      /\ h \in Channels /\ chan[h].state = "FREE" /\ chan[h] = FreeChannel
  BY <1>2 DEF FirstFree, SlotInv, FreeChannels
<1>4. h # 0 /\ r \in Reads /\ nreads \in Nat /\ call = NoCall /\ MaxReads \in Nat
  BY <1>1, <1>3, FileAssumption DEF SlotInv, Types, Reads, Quiet
<1> HIDE DEF r
<1> DEFINE f == OpenedFile(r, h)
<1>5. /\ files[i].func = 0 /\ files'[i] = f
      /\ files' = [j \in Slots |-> files'[j]]
      /\ \A j \in Slots : j # i => files'[j] = files[j]
  <2>1. [FreeFile EXCEPT !.state = "WAIT_OPEN", !.func = r, !.handle = h] = f
    BY OpenedIs
  <2> HIDE DEF f
  <2>2. files = [j \in Slots |-> files[j]]
    BY DEF SlotInv, Types
  <2> QED BY <2>1, <2>2, <1>2, <1>3 DEF SlotInv, OwnSlot
<1>6. /\ reads[r] = NewRead /\ reads'[r] = [NewRead EXCEPT !.state = "open", !.slot = i]
      /\ reads' = [q \in Reads |-> reads'[q]]
      /\ \A q \in Reads : q # r => reads'[q] = reads[q]
  <2>1. reads[r] = NewRead
    BY <1>4 DEF SlotInv, OwnRead, r
  <2> QED BY <2>1, <1>2, <1>4 DEF SlotInv, Types, NewRead
<1>7. /\ chan'[h] = [state |-> "OPENING", owner |-> r]
      /\ \A g \in Channels : g # h => chan'[g] = chan[g]
      /\ chan' \in [Channels -> [state : Live \cup {"FREE", "CLOSING"},
                                 owner : 0 .. MaxReads]]
      /\ stream' = [g \in Channels |-> stream'[g]]
  <2> DEFINE c == [state |-> "OPENING", owner |-> r]
  <2>1. c \in [state : Live \cup {"FREE", "CLOSING"}, owner : 0 .. MaxReads]
    BY <1>4 DEF Live, Reads
  <2> HIDE DEF c
  <2>2. chan' = [chan EXCEPT ![h] = c]
    BY <1>2 DEF c
  <2>3. /\ chan \in [Channels -> [state : Live \cup {"FREE", "CLOSING"},
                                 owner : 0 .. MaxReads]]
        /\ stream = [g \in Channels |-> stream[g]]
    BY DEF SlotInv, Types
  <2>4. stream' = [g \in Channels |-> stream'[g]]
    BY <2>3, <1>2
  <2> QED BY <2>1, <2>2, <2>3, <2>4, <1>3 DEF c
<1>8. reads'[r].state = "open" /\ reads'[r].end = "no" /\ reads'[r].slot = i
  BY <1>6 DEF NewRead
<1>9. \A j \in Slots : files[j].func # r /\ files[j].handle # h
  <2> SUFFICES ASSUME NEW j \in Slots, files[j].func # 0 PROVE files[j].func # r /\ files[j].handle # h
    BY <1>4 DEF SlotInv, OwnSlot, Reads
  <2>1. files[j].func # r
    BY <1>6 DEF SlotInv, OwnSlot, NewRead
  <2>2. chan[files[j].handle].state \in Live
    BY <1>4 DEF SlotInv, OwnChannel, Told, NoCall
  <2> QED BY <2>1, <2>2, <1>3 DEF Live
<1> HIDE DEF f
<1>10. f.state = "WAIT_OPEN" /\ f.func = r /\ f.handle = h
  BY DEF f, OpenedFile
<1>11. Types'
  <2>1. IsFile(f)
    BY <1>3, <1>4 DEF IsFile, FileStates, f, OpenedFile, Reads
  <2>2. IsRead(reads'[r])
    BY <1>3, <1>6 DEF IsRead, NewRead, ReadStates, Ends
  <2>3. IsCall(call')
    BY <1>1 DEF SlotInv, Types
  <2>4. nreads' \in 0 .. MaxReads
    BY <1>1, <1>4 DEF r, Reads
  <2>5. \A j \in Slots : IsFile(files'[j])
    BY <2>1, <1>5 DEF SlotInv, Types
  <2>6. \A q \in Reads : IsRead(reads'[q])
    BY <2>2, <1>6 DEF SlotInv, Types
  <2> QED BY <2>3, <2>4, <2>5, <2>6, <1>1, <1>5, <1>6, <1>7 DEF SlotInv, Types
<1>12. OwnSlot'
  <2>1. ASSUME NEW j \in Slots, j # i, files[j].func # 0
        PROVE  reads'[files[j].func] = reads[files[j].func]
    <3>1. files[j].func \in Reads
      BY <2>1 DEF SlotInv, Types, IsFile, Reads
    <3> QED BY <3>1, <1>6, <1>9
  <2> QED BY <2>1, <1>4, <1>5, <1>8, <1>10 DEF SlotInv, OwnSlot, Reads
<1>13. OwnRead'
  <2>1. \A q \in Reads : q > r => q # r /\ q > nreads
    BY <1>4 DEF r, Reads
  <2>2. ASSUME NEW q \in Reads, q # r, reads[q].state = "open", reads[q].end = "no"
        PROVE  files'[reads[q].slot].func = q
    <3>1. files[reads[q].slot].func = q /\ reads[q].slot \in Slots
      BY <2>2 DEF SlotInv, OwnRead, Types, IsRead
    <3>2. reads[q].slot # i
      BY <3>1, <1>5 DEF Reads
    <3> QED BY <3>1, <3>2, <1>5
  <2> QED BY <2>1, <2>2, <1>1, <1>5, <1>6, <1>8, <1>10 DEF SlotInv, OwnRead
<1>14. OwnHandle'
  BY <1>5, <1>9, <1>10 DEF SlotInv, OwnHandle
<1>15. OwnChannel'
  BY <1>1, <1>3, <1>5, <1>7, <1>9, <1>10 DEF SlotInv, OwnChannel, Told, Live, Types, IsFile
<1>16. FreeChannels'
  <2>1. chan'[h].state # "FREE" /\ 0 \in Channels
    BY <1>7, FileAssumption DEF Channels
  <2> QED BY <2>1, <1>4, <1>7 DEF SlotInv, FreeChannels
<1>17. ItsSlot'
  <2>1. ASSUME NEW g \in Channels, g # h, chan[g].owner # Other, chan[g].state \in Live
        PROVE  \E j \in Slots : files'[j].handle = g /\ files'[j].func = chan[g].owner
    <3>1. PICK j \in Slots : files[j].handle = g /\ files[j].func = chan[g].owner
      BY <2>1 DEF SlotInv, ItsSlot
    <3>2. j # i
      BY <3>1, <2>1, <1>5 DEF Other
    <3> QED BY <3>1, <3>2, <1>5
  <2> QED BY <2>1, <1>3, <1>5, <1>7, <1>10 DEF ItsSlot
<1>18. ItsCall'
  BY <1>1, <1>4 DEF ItsCall, NoCall
<1> QED BY <1>11, <1>12, <1>13, <1>14, <1>15, <1>16, <1>17, <1>18 DEF SlotInv

\* The channels, as Types says of them.
ChanType == [Channels -> [state : Live \cup {"FREE", "CLOSING"}, owner : 0 .. MaxReads]]

\* ADBClose: no other channel changes, and none comes to life.
LEMMA ClosedAs ==
    ASSUME NEW c \in ChanType, NEW h \in Channels
    PROVE  /\ Closed(c, h) \in ChanType /\ Closed(c, h)[h].state \notin Live
           /\ \A g \in Channels :
                 /\ Closed(c, h)[g].owner = c[g].owner
                 /\ Closed(c, h)[g].state \in Live => Closed(c, h)[g] = c[g]
                 /\ Closed(c, h)[g].state = "FREE" => Closed(c, h)[g] = c[g]
                 /\ g # h => Closed(c, h)[g] = c[g]
BY DEF Closed, ChanType, Live

\* What the steps below have in common.  The client of slot i lets it go, or is
\* told that it is over.
LEMMA Releases ==
    ASSUME SlotInv, AppFirst, Types', NEW i \in Slots, NEW f,
           f.func = 0, f.handle = 0, f.state # "WAIT_OPEN",
           files'[i] = f, \A j \in Slots : j # i => files'[j] = files[j],
           \A q \in Reads : q # files[i].func => reads'[q] = reads[q],
           \A q \in Reads : q = files[i].func =>
               reads'[q].state # "open" \/ reads'[q].end # "no",
           nreads' = nreads,
           \/ chan' = Closed(chan, files[i].handle)
           \/ chan' = Closed(Closed(chan, files[i].handle), 0)
           \/ chan' = chan /\ (files[i].func # 0 => Told(i)),
           \A j \in Slots : j # i => ~Told(j),
           ItsCall'
    PROVE  SlotInv'
<1>1. OwnSlot'
  <2>1. ASSUME NEW j \in Slots, j # i, files[j].func # 0
        PROVE  reads'[files[j].func] = reads[files[j].func]
    <3>1. files[j].func \in Reads /\ files[j].func # files[i].func
      BY <2>1 DEF SlotInv, Types, IsFile, Reads, OwnSlot
    <3> QED BY <3>1
  <2> QED BY <2>1 DEF SlotInv, OwnSlot
<1>2. OwnRead'
  <2>1. ASSUME NEW q \in Reads, q > nreads PROVE reads'[q] = NewRead
    <3>1. reads[q] = NewRead
      BY <2>1 DEF SlotInv, OwnRead
    <3>2. q # files[i].func
      BY <3>1, FileAssumption DEF SlotInv, OwnSlot, NewRead, Reads
    <3> QED BY <3>1, <3>2
  <2>2. ASSUME NEW q \in Reads, reads'[q].state = "open", reads'[q].end = "no"
        PROVE  files'[reads'[q].slot].func = q
    <3>1. q # files[i].func /\ reads'[q] = reads[q]
      BY <2>2
    <3>2. files[reads[q].slot].func = q /\ reads[q].slot \in Slots
      BY <2>2, <3>1 DEF SlotInv, OwnRead, Types, IsRead
    <3> QED BY <3>1, <3>2
  <2> QED BY <2>1, <2>2 DEF OwnRead
<1>3. OwnHandle'
  BY DEF SlotInv, OwnHandle
<1> DEFINE h == files[i].handle
           c == Closed(chan, h)
<1>a. /\ h \in Channels /\ 0 \in Channels /\ chan \in ChanType
      /\ \/ chan' = c
         \/ chan' = Closed(c, 0)
         \/ chan' = chan /\ (files[i].func # 0 => Told(i))
  BY FileAssumption DEF SlotInv, Types, IsFile, ChanType, Channels
<1>b. /\ c \in ChanType /\ c[h].state \notin Live
      /\ \A g \in Channels : /\ c[g].owner = chan[g].owner
                             /\ c[g].state \in Live => c[g] = chan[g]
                             /\ c[g].state = "FREE" => c[g] = chan[g]
                             /\ g # h => c[g] = chan[g]
  BY <1>a, ClosedAs
<1> HIDE DEF c
<1>c. \A g \in Channels :
         /\ Closed(c, 0)[g].owner = c[g].owner
         /\ Closed(c, 0)[g].state \in Live => Closed(c, 0)[g] = c[g]
         /\ Closed(c, 0)[g].state = "FREE" => Closed(c, 0)[g] = c[g]
         /\ g # 0 => Closed(c, 0)[g] = c[g]
  BY <1>a, <1>b, ClosedAs
<1>d. ASSUME NEW g \in Channels
      PROVE  /\ chan'[g].owner = chan[g].owner
             /\ chan'[g].state \in Live => chan'[g] = chan[g]
             /\ chan'[g].state = "FREE" => chan'[g] = chan[g]
             /\ g # h /\ g # 0 => chan'[g] = chan[g]
             /\ chan' = c \/ chan' = Closed(c, 0)
                   => (g = h => chan'[g].state \notin Live)
  <2>1. /\ c[g].owner = chan[g].owner
        /\ c[g].state \in Live => c[g] = chan[g]
        /\ c[g].state = "FREE" => c[g] = chan[g]
        /\ g # h => c[g] = chan[g]
        /\ g = h => c[g].state \notin Live
    BY <1>b
  <2>2. /\ Closed(c, 0)[g].owner = c[g].owner
        /\ Closed(c, 0)[g].state \in Live => Closed(c, 0)[g] = c[g]
        /\ Closed(c, 0)[g].state = "FREE" => Closed(c, 0)[g] = c[g]
        /\ g # 0 => Closed(c, 0)[g] = c[g]
    BY <1>c
  <2>3. CASE chan' = c
    BY <2>1, <2>3
  <2>4. CASE chan' = Closed(c, 0)
    <3> DEFINE e == Closed(c, 0)
    <3> HIDE DEF e
    <3>1. /\ e[g].owner = c[g].owner
          /\ e[g].state \in Live => e[g] = c[g]
          /\ e[g].state = "FREE" => e[g] = c[g]
          /\ g # 0 => e[g] = c[g]
          /\ chan' = e
      BY <2>2, <2>4 DEF e
    <3> QED BY <2>1, <3>1
  <2>5. CASE chan' = chan /\ chan' # c /\ chan' # Closed(c, 0)
    BY <2>5
  <2> QED BY <1>a, <2>3, <2>4, <2>5
<1>4. \A g \in Channels : g # h /\ g # 0 => chan'[g] = chan[g]
  BY <1>d
<1>5. OwnChannel'
  <2> SUFFICES ASSUME NEW j \in Slots, j # i, files[j].func # 0
               PROVE  /\ chan'[files[j].handle].owner = files[j].func
                      /\ chan'[files[j].handle].state \in Live
    BY DEF OwnChannel
  <2>1. /\ files[j].handle # 0 /\ files[j].handle \in Channels
        /\ files[j].handle # files[i].handle
    BY DEF SlotInv, OwnSlot, OwnHandle, Types, IsFile
  <2> QED BY <2>1, <1>4 DEF SlotInv, OwnChannel
<1>6. \A g \in Channels : /\ chan'[g].owner = chan[g].owner
                          /\ chan'[g].state = "FREE" => chan'[g] = chan[g]
                          /\ chan'[g].state \in Live => chan'[g] = chan[g]
  BY <1>d
<1>7. FreeChannels'
  <2>1. 0 \in Channels
    BY FileAssumption DEF Channels
  <2> QED BY <2>1, <1>6 DEF SlotInv, FreeChannels
<1>8. ItsSlot'
  <2> SUFFICES ASSUME NEW g \in Channels, chan[g].owner # Other, chan[g].state \in Live,
                      chan'[g] = chan[g]
               PROVE  \E j \in Slots : /\ files'[j].handle = g
                                       /\ files'[j].func = chan[g].owner
    BY <1>6 DEF ItsSlot
  <2>1. PICK j \in Slots : files[j].handle = g /\ files[j].func = chan[g].owner
    BY DEF SlotInv, ItsSlot
  <2>2. j # i
    <3> SUFFICES ASSUME j = i PROVE FALSE
      OBVIOUS
    <3>1. CASE chan' = c \/ chan' = Closed(c, 0)
      <4>1. g = h /\ chan'[h].state \in Live
        BY <2>1
      <4> QED BY <4>1, <3>1, <1>d
    <3>2. CASE Told(i)
      BY <2>1, <3>2 DEF SlotInv, ItsCall, Told, FreeChannel, Live, Other
    <3>3. files[i].func # 0
      BY <2>1 DEF Other
    <3> QED BY <3>1, <3>2, <3>3, <1>a
  <2> QED BY <2>1, <2>2
<1> QED BY <1>1, <1>2, <1>3, <1>5, <1>7, <1>8 DEF SlotInv

\* The reads look the same to the slots.
SameReads ==
    \A q \in Reads : /\ reads'[q].state = reads[q].state
                     /\ reads'[q].slot = reads[q].slot
                     /\ reads'[q].end = reads[q].end
                     /\ reads[q] = NewRead => reads'[q] = NewRead
SameChannels ==
    \A h \in Channels :
        \/ chan'[h] = chan[h]
        \/ chan'[h].owner = chan[h].owner /\ {chan[h].state, chan'[h].state} \subseteq Live
        \/ h = 0 /\ chan'[h].owner = Other /\ chan'[h].state # "FREE"

\* A slot goes on with its read, on the channel it has.
LEMMA Continues ==
    ASSUME SlotInv, AppFirst, Types', NEW i \in Slots, NEW f,
           f.func = files[i].func, f.handle = files[i].handle,
           f.state # "FREE" \/ f = files[i], f.state # "WAIT_OPEN" \/ f = files[i],
           files'[i] = f, \A j \in Slots : j # i => files'[j] = files[j],
           SameReads, SameChannels, nreads' = nreads,
           \A j \in Slots : ~Told(j), ItsCall'
    PROVE  SlotInv'
<1>0. \A j \in Slots : /\ files'[j].func = files[j].func
                       /\ files'[j].handle = files[j].handle
                       /\ files'[j].state = files[j].state \/ files'[j].state \notin {"FREE", "WAIT_OPEN"}
  OBVIOUS
<1>1. OwnSlot'
  <2>1. \A j \in Slots : files[j].func # 0 => files[j].func \in Reads
    BY DEF SlotInv, Types, IsFile, Reads
  <2> QED BY <1>0, <2>1 DEF SlotInv, OwnSlot, SameReads
<1>2. OwnRead'
  <2>1. \A q \in Reads : reads[q].slot \in Slots
    BY DEF SlotInv, Types, IsRead
  <2> QED BY <1>0, <2>1 DEF SlotInv, OwnRead, SameReads
<1>3. OwnHandle'
  BY <1>0 DEF SlotInv, OwnHandle
<1>4. OwnChannel'
  <2> SUFFICES ASSUME NEW j \in Slots, files[j].func # 0
               PROVE  /\ chan'[files[j].handle].owner = files[j].func
                      /\ chan'[files[j].handle].state \in Live
    BY <1>0 DEF OwnChannel
  <2>1. files[j].handle \in Channels /\ files[j].handle # 0
    BY DEF SlotInv, OwnSlot, Types, IsFile
  <2>2. chan[files[j].handle].owner = files[j].func /\ chan[files[j].handle].state \in Live
    BY DEF SlotInv, OwnChannel
  <2> QED BY <2>1, <2>2 DEF SameChannels
<1>5. FreeChannels'
  <2>1. 0 \in Channels
    BY FileAssumption DEF Channels
  <2> QED BY <2>1 DEF SlotInv, FreeChannels, SameChannels, Live
<1>6. ItsSlot'
  <2> SUFFICES ASSUME NEW h \in Channels, chan'[h].owner # Other, chan'[h].state \in Live
               PROVE  \E j \in Slots : /\ files'[j].handle = h
                                       /\ files'[j].func = chan'[h].owner
    BY DEF ItsSlot
  <2>1. chan[h].owner = chan'[h].owner /\ chan[h].state \in Live
    BY DEF SameChannels
  <2> QED BY <2>1, <1>0 DEF SlotInv, ItsSlot
<1> QED BY <1>1, <1>2, <1>3, <1>4, <1>5, <1>6 DEF SlotInv

\* Channel h is lost, and its slot is called.
LEMMA Loses ==
    ASSUME SlotInv, AppFirst, Types', NEW h \in Channels, call = NoCall,
           files' = files, reads' = reads, nreads' = nreads,
           chan'[h] = FreeChannel, \A g \in Channels : g # h => chan'[g] = chan[g],
           \A i \in Slots : files[i].handle = h /\ files[i].func # 0 => Told(i)',
           call'.kind # "none" => /\ call'.kind = "closed" /\ call'.h = h /\ h # 0
                                  /\ files[call'.slot].handle = h
    PROVE  SlotInv'
<1>1. OwnSlot' /\ OwnRead' /\ OwnHandle'
  BY DEF SlotInv, OwnSlot, OwnRead, OwnHandle
<1>2. OwnChannel'
  <2> SUFFICES ASSUME NEW i \in Slots, files[i].func # 0
               PROVE  \/ /\ chan'[files[i].handle].owner = files[i].func
                         /\ chan'[files[i].handle].state \in Live
                      \/ Told(i)' /\ chan'[files[i].handle] = FreeChannel
    BY DEF OwnChannel
  <2>1. ~Told(i)
    BY DEF Told, NoCall
  <2>2. files[i].handle \in Channels
    BY DEF SlotInv, Types, IsFile
  <2> QED BY <2>1, <2>2 DEF SlotInv, OwnChannel
<1>3. FreeChannels'
  <2>1. 0 \in Channels
    BY FileAssumption DEF Channels
  <2> QED BY <2>1 DEF SlotInv, FreeChannels, FreeChannel
<1>4. ItsSlot'
  BY DEF SlotInv, ItsSlot, FreeChannel, Live
<1>5. ItsCall'
  BY DEF ItsCall, Types, IsCall
<1> QED BY <1>1, <1>2, <1>3, <1>4, <1>5 DEF SlotInv

----------------------------------------------------------------------------
(* The steps.                                                              *)

LEMMA FreeIs == IsFile(FreeFile) /\ FreeFile.func = 0 /\ FreeFile.handle = 0
                /\ FreeFile.state = "FREE"
BY FileAssumption DEF IsFile, FreeFile, FileStates, Channels

LEMMA ClosedType ==
    ASSUME Types, NEW h \in Channels
    PROVE  Closed(chan, h) \in ChanType
BY ClosedAs DEF Types, ChanType

LEMMA SlotClose ==
    ASSUME SlotInv, AppFirst, NEW r \in Reads, CloseFile(r)
    PROVE  SlotInv'
<1> DEFINE i == reads[r].slot
<1>1. /\ Quiet /\ reads[r].state = "open" /\ reads[r].end = "no"
      /\ reads' = [reads EXCEPT ![r].state = "closed"]
      /\ UNCHANGED <<stream, call, reset, nreads, resets, failed>>
  BY DEF CloseFile
<1>2. i \in Slots /\ files[i].func = r /\ files[i].state # "FREE" /\ IsFile(files[i])
  BY <1>1 DEF SlotInv, OwnRead, OwnSlot, Types, IsRead, Reads
<1>3. chan' = Closed(chan, files[i].handle) /\ files' = [files EXCEPT ![i] = FreeFile]
  BY <1>2 DEF CloseFile
<1> HIDE DEF i
<1>4. files'[i] = FreeFile /\ \A j \in Slots : j # i => files'[j] = files[j]
  BY <1>2, <1>3 DEF SlotInv, Types
<1>5. /\ \A q \in Reads : q # r => reads'[q] = reads[q]
      /\ reads'[r].state = "closed" /\ IsRead(reads'[r])
      /\ reads' = [q \in Reads |-> reads'[q]]
  <2>1. reads = [q \in Reads |-> reads[q]] /\ IsRead(reads[r])
    BY DEF SlotInv, Types
  <2> DEFINE x == [reads[r] EXCEPT !.state = "closed"]
  <2>2. x.state = "closed" /\ IsRead(x)
    BY <2>1 DEF IsRead, ReadStates
  <2>3. reads' = [reads EXCEPT ![r] = x]
    BY <1>1
  <2> HIDE DEF x
  <2> QED BY <2>1, <2>2, <2>3
<1>6. Types'
  <2>1. files' = [j \in Slots |-> files'[j]] /\ \A j \in Slots : IsFile(files'[j])
    BY <1>3, <1>4, FreeIs DEF SlotInv, Types
  <2>2. \A q \in Reads : IsRead(reads'[q])
    BY <1>5 DEF SlotInv, Types
  <2>3. chan' \in ChanType
    BY <1>2, <1>3, ClosedType DEF SlotInv, IsFile
  <2> QED BY <2>1, <2>2, <2>3, <1>1, <1>5 DEF SlotInv, Types, ChanType
<1>7. ItsCall' /\ \A j \in Slots : ~Told(j)
  BY <1>1 DEF Quiet, NoCall, ItsCall, Told
<1> QED BY <1>1, <1>2, <1>3, <1>4, <1>5, <1>6, <1>7, FreeIs, Releases

\* A step that changes one channel within its life.
LEMMA ChannelChange ==
    ASSUME Types, NEW h \in Channels, chan[h].state \in Live, NEW s \in Live,
           chan' = [chan EXCEPT ![h].state = s]
    PROVE  SameChannels /\ chan' \in ChanType
<1>1. chan \in ChanType
  BY DEF Types, ChanType
<1> QED BY <1>1 DEF SameChannels, ChanType

LEMMA SlotFileTasks ==
    ASSUME SlotInv, AppFirst, NEW i \in Slots, FileTasks(i)
    PROVE  SlotInv'
<1> DEFINE f == [files[i] EXCEPT !.state = "WAIT_HEADER", !.remain = HeaderSize]
<1>1. /\ Quiet /\ files[i].state = "WAIT_OPEN"
      /\ chan[files[i].handle].state = "IDLE"
      /\ chan' = [chan EXCEPT ![files[i].handle].state = "BUSY"]
      /\ UNCHANGED <<stream, call, reset, reads, nreads, resets, failed>>
  BY DEF FileTasks
<1>2. IsFile(files[i]) /\ files[i].handle \in Channels
  BY DEF SlotInv, Types, IsFile
<1>3. /\ IsFile(f) /\ f.func = files[i].func /\ f.handle = files[i].handle
      /\ f.state = "WAIT_HEADER"
  <2> DEFINE x == [files[i] EXCEPT !.state = "WAIT_HEADER"]
  <2>1. /\ IsFile(x) /\ x.func = files[i].func /\ x.handle = files[i].handle
        /\ x.state = "WAIT_HEADER"
    BY <1>2 DEF IsFile, FileStates
  <2>2. f = [x EXCEPT !.remain = HeaderSize]
    OBVIOUS
  <2> HIDE DEF x, f
  <2> QED BY <2>1, <2>2 DEF IsFile
<1>4. files' = [files EXCEPT ![i] = f]
  BY DEF FileTasks, SlotInv, Types
<1> HIDE DEF f
<1>5. /\ files'[i] = f /\ \A j \in Slots : j # i => files'[j] = files[j]
      /\ files' = [j \in Slots |-> files'[j]]
  BY <1>4 DEF SlotInv, Types
<1>6. SameChannels /\ chan' \in ChanType
  BY <1>1, <1>2, ChannelChange DEF SlotInv, Live
<1>7. Types'
  <2>1. \A j \in Slots : IsFile(files'[j])
    BY <1>3, <1>5 DEF SlotInv, Types
  <2> QED BY <2>1, <1>1, <1>5, <1>6 DEF SlotInv, Types, ChanType
<1>8. ItsCall' /\ SameReads /\ \A j \in Slots : ~Told(j)
  BY <1>1 DEF Quiet, NoCall, ItsCall, Told, SameReads
<1> QED BY <1>1, <1>3, <1>5, <1>6, <1>7, <1>8, Continues

LEMMA SlotOpens ==
    ASSUME SlotInv, AppFirst, NEW h \in Channels, Opens(h)
    PROVE  SlotInv'
<1>1. /\ Quiet /\ chan[h].state = "OPENING" /\ chan' = [chan EXCEPT ![h].state = "IDLE"]
      /\ UNCHANGED <<files, stream, call, reset, reads, nreads, resets, failed>>
  BY DEF Opens
<1>2. SameChannels /\ chan' \in ChanType
  BY <1>1, ChannelChange DEF SlotInv, Live
<1>3. Types'
  BY <1>1, <1>2 DEF SlotInv, Types, ChanType
<1>4. ItsCall' /\ SameReads /\ \A j \in Slots : ~Told(j)
  BY <1>1 DEF Quiet, NoCall, ItsCall, Told, SameReads
<1>5. 0 \in Slots
  BY FileAssumption DEF Slots
<1> QED BY <1>1, <1>2, <1>3, <1>4, <1>5, Continues

LEMMA SlotAcknowledges ==
    ASSUME SlotInv, AppFirst, NEW h \in Channels, Acknowledges(h)
    PROVE  SlotInv'
<1>1. /\ Quiet /\ chan[h].state = "BUSY" /\ chan' = [chan EXCEPT ![h].state = "IDLE"]
      /\ UNCHANGED <<files, call, reset, nreads, resets, failed>>
  BY DEF Acknowledges
<1>2. PICK reply \in Replies :
        /\ stream' = [stream EXCEPT ![h] = StreamOf(chan[h].owner, reply)]
        /\ reads' = [reads EXCEPT ![chan[h].owner].reply = reply]
  BY DEF Acknowledges
<1>3. SameChannels /\ chan' \in ChanType
  BY <1>1, ChannelChange DEF SlotInv, Live
<1>4. /\ SameReads /\ reads' = [q \in Reads |-> reads'[q]]
      /\ \A q \in Reads : IsRead(reads'[q])
  <2>1. reads = [q \in Reads |-> reads[q]] /\ \A q \in Reads : IsRead(reads[q])
    BY DEF SlotInv, Types
  <2>2. CASE chan[h].owner \in Reads
    <3> DEFINE r == chan[h].owner
               x == [reads[r] EXCEPT !.reply = reply]
    <3>1. /\ x.state = reads[r].state /\ x.slot = reads[r].slot /\ x.end = reads[r].end
          /\ IsRead(x)
      BY <2>1, <2>2 DEF IsRead
    <3>2. reads' = [reads EXCEPT ![r] = x]
      BY <1>2
    <3>3. reads[r] # NewRead
      <4>1. PICK i \in Slots : files[i].func = r
        BY <1>1, <2>2 DEF SlotInv, ItsSlot, Reads, Live, Other
      <4> QED BY <4>1, <2>2 DEF SlotInv, OwnSlot, Reads, NewRead
    <3> HIDE DEF x
    <3> QED BY <2>1, <2>2, <3>1, <3>2, <3>3 DEF SameReads
  <2>3. CASE chan[h].owner \notin Reads
    <3>1. reads' = reads
      BY <2>1, <2>3, <1>2
    <3> QED BY <2>1, <3>1 DEF SameReads
  <2> QED BY <2>2, <2>3
<1>5. stream' = [g \in Channels |-> stream'[g]]
  BY <1>2 DEF SlotInv, Types
<1>6. Types'
  BY <1>1, <1>3, <1>4, <1>5 DEF SlotInv, Types, ChanType
<1>7. ItsCall' /\ \A j \in Slots : ~Told(j)
  BY <1>1 DEF Quiet, NoCall, ItsCall, Told
<1>8. 0 \in Slots
  BY FileAssumption DEF Slots
<1> QED BY <1>1, <1>3, <1>4, <1>6, <1>7, <1>8, Continues

\* A packet comes on a channel that is open.
LEMMA SlotCalled ==
    ASSUME SlotInv, AppFirst, Quiet, NEW h \in Channels, NEW data,
           Calls(h, "data", data), stream' = [g \in Channels |-> stream'[g]],
           UNCHANGED <<files, chan, reset, reads, nreads>>
    PROVE  SlotInv'
<1>1. call = NoCall /\ (\A j \in Slots : ~Told(j)) /\ SameReads /\ SameChannels
  BY DEF Quiet, NoCall, Told, SameReads, SameChannels
<1>2. 0 \in Slots
  BY FileAssumption DEF Slots
<1>3. CASE \E s \in Slots :
             /\ files[s].handle = h
             /\ call' = [kind |-> "data", h |-> h, slot |-> s, data |-> data]
             /\ failed' = failed
  <2> PICK s \in Slots :
             /\ files[s].handle = h
             /\ call' = [kind |-> "data", h |-> h, slot |-> s, data |-> data]
             /\ failed' = failed
    BY <1>3
  <2>1. IsCall(call')
    BY DEF IsCall, Calling
  <2>2. Types'
    BY <2>1 DEF SlotInv, Types
  <2>3. ItsCall'
    BY DEF ItsCall
  <2> QED BY <1>1, <1>2, <2>2, <2>3, Continues
<1>4. CASE failed' = TRUE /\ call' = call
  <2>1. Types'
    BY <1>4 DEF SlotInv, Types
  <2>2. ItsCall'
    BY <1>1, <1>4 DEF ItsCall, NoCall
  <2> QED BY <1>1, <1>2, <1>4, <2>1, <2>2, Continues
<1> QED BY <1>3, <1>4, CallsSlot DEF SlotInv

LEMMA SlotPacket ==
    ASSUME SlotInv, AppFirst, NEW h \in Channels, NEW n \in 1 .. MaxPacket,
           Packet(h, n)
    PROVE  SlotInv'
<1>1. /\ Quiet /\ Calls(h, "data", SubSeq(stream[h], 1, n))
      /\ UNCHANGED <<files, chan, reset, reads, nreads>>
      /\ stream' = [g \in Channels |-> stream'[g]]
  BY DEF Packet, SlotInv, Types
<1> QED BY <1>1, SlotCalled

LEMMA SlotSpeaksFirst ==
    ASSUME SlotInv, AppFirst, NEW h \in Channels, SpeaksFirst(h)
    PROVE  SlotInv'
<1>1. /\ Quiet /\ Calls(h, "data", <<HeaderUnit([id |-> "BAD", size |-> 0])>>)
      /\ UNCHANGED <<files, chan, reset, reads, nreads>>
      /\ stream' = [g \in Channels |-> stream'[g]]
  BY DEF SpeaksFirst, SlotInv, Types
<1> QED BY <1>1, SlotCalled

\* What PhoneCloses and ResetOne make of channel h.
LEMMA SlotLoses ==
    ASSUME SlotInv, AppFirst, call = NoCall, NEW h \in Channels,
           chan' = [chan EXCEPT ![h] = FreeChannel],
           stream' = [stream EXCEPT ![h] = <<>>],
           UNCHANGED <<files, reads, nreads>>, reset' \in 0 .. MaxChannels,
           \/ Calls(h, "closed", <<>>) /\ h # 0
           \/ /\ chan[h].owner = Other \/ chan[h].state = "CLOSING"
              /\ UNCHANGED <<call, failed>>
    PROVE  SlotInv'
<1>1. FreeChannel \in [state : Live \cup {"FREE", "CLOSING"}, owner : 0 .. MaxReads]
  BY FileAssumption DEF FreeChannel, Other
<1>2. /\ chan'[h] = FreeChannel /\ \A g \in Channels : g # h => chan'[g] = chan[g]
      /\ chan' \in ChanType
  BY <1>1 DEF SlotInv, Types, ChanType
<1>3. stream' = [g \in Channels |-> stream'[g]]
  BY DEF SlotInv, Types
<1>4. IsCall(NoCall)
  BY DEF SlotInv, Types
<1>5. CASE \E s \in Slots :
             /\ files[s].handle = h /\ h # 0
             /\ call' = [kind |-> "closed", h |-> h, slot |-> s, data |-> <<>>]
             /\ failed' = failed
  <2> PICK s \in Slots :
             /\ files[s].handle = h /\ h # 0
             /\ call' = [kind |-> "closed", h |-> h, slot |-> s, data |-> <<>>]
             /\ failed' = failed
    BY <1>5
  <2>1. IsCall(call')
    BY DEF IsCall, Calling
  <2>2. Types'
    BY <2>1, <1>2, <1>3 DEF SlotInv, Types, ChanType
  <2>3. \A i \in Slots : files[i].handle = h => i = s
    BY DEF SlotInv, OwnHandle
  <2> QED BY <1>2, <2>2, <2>3, Loses DEF Told
<1>6. ASSUME failed' \in BOOLEAN, call' = call,
             \A i \in Slots : files[i].func = 0 \/ files[i].handle # h
      PROVE  SlotInv'
  <2>1. Types'
    BY <1>2, <1>3, <1>4, <1>6 DEF SlotInv, Types, ChanType
  <2>2. call'.kind = "none"
    BY <1>6 DEF NoCall
  <2>3. \A i \in Slots : files[i].handle = h /\ files[i].func # 0 => Told(i)'
    BY <1>6
  <2> QED BY <1>2, <2>1, <2>2, <2>3, Loses
<1>7. CASE Calls(h, "closed", <<>>) /\ h # 0
  <2>1. CASE \A i \in Slots : files[i].handle # h /\ failed' = TRUE /\ call' = call
    <3>1. failed' = TRUE /\ call' = call
      BY <2>1, FileAssumption DEF Slots
    <3> QED BY <2>1, <3>1, <1>6
  <2>2. \/ \E s \in Slots :
             /\ files[s].handle = h /\ h # 0
             /\ call' = [kind |-> "closed", h |-> h, slot |-> s, data |-> <<>>]
             /\ failed' = failed
        \/ \A i \in Slots : files[i].handle # h /\ failed' = TRUE /\ call' = call
    <3>1. Types /\ Calls(h, "closed", <<>>) /\ h # 0
      BY <1>7 DEF SlotInv
    <3>2. \/ \E s \in Slots :
               /\ files[s].handle = h
               /\ call' = [kind |-> "closed", h |-> h, slot |-> s, data |-> <<>>]
               /\ failed' = failed
          \/ /\ \A i \in Slots : files[i].handle # h
             /\ failed' = TRUE /\ call' = call
      BY ONLY h \in Channels, <3>1, CallsSlot
    <3> QED BY <3>1, <3>2
  <2> QED BY <2>1, <2>2, <1>5
<1>8. CASE /\ chan[h].owner = Other \/ chan[h].state = "CLOSING"
           /\ UNCHANGED <<call, failed>>
  <2>1. ASSUME NEW i \in Slots, files[i].func # 0 PROVE files[i].handle # h
    <3>1. ~Told(i)
      BY DEF Told, NoCall
    <3> QED BY <2>1, <3>1, <1>8 DEF SlotInv, OwnChannel, Other, Live
  <2>2. failed' \in BOOLEAN
    BY <1>8 DEF SlotInv, Types
  <2> QED BY <1>8, <1>6, <2>1, <2>2
<1> QED BY <1>7, <1>8

\* A step that stops the program.
LEMMA SlotStops ==
    ASSUME SlotInv, AppFirst, failed' \in BOOLEAN,
           UNCHANGED <<files, stream, call, reset, reads, nreads>>,
           \/ chan' = chan
           \/ chan' = Closed(chan, 0) /\ call.kind # "closed"
    PROVE  SlotInv'
<1>1. 0 \in Channels /\ 0 \in Slots /\ chan \in ChanType
  BY FileAssumption DEF Channels, Slots, SlotInv, Types, ChanType
<1>2. chan' \in ChanType
  BY <1>1, ClosedAs
<1>3. Types'
  BY <1>2 DEF SlotInv, Types, ChanType
<1>4. CASE chan' = chan
  BY <1>3, <1>4 DEF SlotInv, OwnSlot, OwnRead, OwnHandle, OwnChannel, FreeChannels,
      ItsSlot, ItsCall, Told
<1>5. CASE chan' = Closed(chan, 0) /\ call.kind # "closed"
  <2>1. SameChannels
    <3>1. chan[0].owner = Other
      BY DEF SlotInv, FreeChannels
    <3>2. \A g \in Channels : /\ chan'[g].owner = chan[g].owner
                              /\ chan'[g].state = "FREE" => chan'[g] = chan[g]
                              /\ g # 0 => chan'[g] = chan[g]
      BY <1>1, <1>5, ClosedAs
    <3>3. ASSUME NEW g \in Channels
          PROVE  \/ chan'[g] = chan[g]
                 \/ g = 0 /\ chan'[g].owner = Other /\ chan'[g].state # "FREE"
      BY <3>1, <3>2
    <3> QED BY <3>3 DEF SameChannels
  <2>2. ItsCall' /\ SameReads /\ \A j \in Slots : ~Told(j)
    BY <1>5 DEF SlotInv, ItsCall, SameReads, Told
  <2> QED BY <1>1, <1>3, <2>1, <2>2, Continues
<1> QED BY <1>4, <1>5

LEMMA SlotPhoneCloses ==
    ASSUME SlotInv, AppFirst, NEW h \in Channels, PhoneCloses(h)
    PROVE  SlotInv'
<1>1. chan[h].state # "CLOSING" => h # 0
  BY DEF PhoneCloses, SlotInv, FreeChannels
<1> QED BY <1>1, SlotLoses DEF PhoneCloses, Quiet, SlotInv, Types

LEMMA SlotResetOne == SlotInv /\ AppFirst /\ ResetOne => SlotInv'
<1> SUFFICES ASSUME SlotInv, AppFirst, ResetOne PROVE SlotInv'
  OBVIOUS
<1>1. reset \in Channels /\ reset' \in 0 .. MaxChannels
  BY FileAssumption DEF ResetOne, SlotInv, Types, Channels
<1>2. chan[reset].owner # Other => reset # 0
  BY DEF SlotInv, FreeChannels
<1>3. /\ call = NoCall /\ ~failed /\ UNCHANGED <<files, reads, nreads>>
      /\ \/ Calls(reset, "closed", <<>>) /\ chan[reset].owner # Other
         \/ chan[reset].owner = Other /\ UNCHANGED <<call, failed>>
  BY DEF ResetOne
<1>4. failed' \in BOOLEAN
  BY <1>1, <1>3, CallsSlot DEF SlotInv, Types
<1>5. CASE ~failed'
  <2>1. /\ chan' = [chan EXCEPT ![reset] = FreeChannel]
        /\ stream' = [stream EXCEPT ![reset] = <<>>]
    BY <1>5 DEF ResetOne
  <2> QED BY <2>1, <1>1, <1>2, <1>3, SlotLoses
<1>6. CASE failed'
  <2>1. UNCHANGED <<chan, stream, reset>>
    BY <1>6 DEF ResetOne
  <2>2. call' = call
    BY <1>1, <1>3, <1>4, <1>6, CallsSlot DEF SlotInv, Types
  <2> QED BY <1>3, <1>4, <2>1, <2>2, SlotStops
<1> QED BY <1>4, <1>5, <1>6

LEMMA SlotAppOpens == SlotInv /\ AppFirst /\ AppOpens => SlotInv'
<1> SUFFICES ASSUME SlotInv, AppFirst, AppOpens PROVE SlotInv'
  OBVIOUS
<1>1. /\ Quiet /\ chan[0] = FreeChannel /\ chan' = [chan EXCEPT ![0] = AppChannel]
      /\ UNCHANGED <<files, stream, call, reset, reads, nreads, resets, failed>>
  BY DEF AppOpens
<1>2. 0 \in Slots /\ 0 \in Channels
  BY FileAssumption DEF Slots, Channels
<1>3. AppChannel \in [state : Live \cup {"FREE", "CLOSING"}, owner : 0 .. MaxReads]
  BY FileAssumption DEF AppChannel, Other, Live
<1>4. SameChannels /\ chan' \in ChanType
  BY <1>1, <1>2, <1>3 DEF SameChannels, ChanType, SlotInv, Types, AppChannel
<1>5. Types'
  BY <1>1, <1>4 DEF SlotInv, Types, ChanType
<1>6. ItsCall' /\ SameReads /\ \A j \in Slots : ~Told(j)
  BY <1>1 DEF Quiet, NoCall, ItsCall, Told, SameReads
<1> QED BY <1>1, <1>2, <1>4, <1>5, <1>6, Continues

LEMMA SlotStartReset == SlotInv /\ AppFirst /\ StartReset => SlotInv'
<1> SUFFICES ASSUME SlotInv, AppFirst, StartReset PROVE SlotInv'
  OBVIOUS
<1>1. Quiet /\ reset' = 0 /\ UNCHANGED <<files, chan, stream, call, reads, nreads, failed>>
  BY DEF StartReset
<1>2. 0 \in Slots /\ 0 \in 0 .. MaxChannels
  BY FileAssumption DEF Slots
<1>3. Types'
  BY <1>1, <1>2 DEF SlotInv, Types
<1>4. ItsCall' /\ SameReads /\ SameChannels /\ \A j \in Slots : ~Told(j)
  BY <1>1 DEF Quiet, NoCall, ItsCall, Told, SameReads, SameChannels
<1> QED BY <1>1, <1>2, <1>3, <1>4, Continues

LEMMA SlotReattach == SlotInv /\ AppFirst /\ Reattach => SlotInv'
<1> SUFFICES ASSUME SlotInv, AppFirst, Reattach PROVE SlotInv'
  OBVIOUS
<1>1. /\ Quiet /\ files' = [i \in Slots |-> FreeFile]
      /\ chan' = [h \in Channels |-> FreeChannel]
      /\ stream' = [h \in Channels |-> <<>>]
      /\ UNCHANGED <<call, reset, nreads, failed>>
  BY DEF Reattach
<1>2. reads' = [r \in Reads |-> IF reads[r].state = "open"
                                  THEN [reads[r] EXCEPT !.state = "gone"]
                                ELSE reads[r]]
  BY DEF Reattach
<1>3. ASSUME NEW r \in Reads
      PROVE  /\ IsRead(reads'[r]) /\ reads'[r].state # "open"
             /\ reads[r] = NewRead => reads'[r] = NewRead
  <2>1. IsRead(reads[r])
    BY DEF SlotInv, Types
  <2>2. CASE reads[r].state = "open"
    <3> DEFINE x == [reads[r] EXCEPT !.state = "gone"]
    <3>1. IsRead(x) /\ x.state = "gone"
      BY <2>1 DEF IsRead, ReadStates
    <3>2. reads'[r] = x
      BY <1>2, <2>2
    <3> HIDE DEF x
    <3> QED BY <2>2, <3>1, <3>2 DEF NewRead
  <2>3. CASE reads[r].state # "open"
    BY <2>1, <2>3, <1>2
  <2> QED BY <2>2, <2>3
<1>4. \A i \in Slots : files'[i] = FreeFile
  BY <1>1
<1>5. \A h \in Channels : chan'[h] = FreeChannel
  BY <1>1
<1>6. Types'
  <2>1. FreeChannel \in [state : Live \cup {"FREE", "CLOSING"}, owner : 0 .. MaxReads]
    BY FileAssumption DEF FreeChannel, Other
  <2>2. chan' \in ChanType
    BY <1>1, <2>1 DEF ChanType
  <2>3. /\ files' = [i \in Slots |-> files'[i]] /\ reads' = [r \in Reads |-> reads'[r]]
        /\ stream' = [h \in Channels |-> stream'[h]]
    BY <1>1, <1>2
  <2> QED BY <1>1, <1>3, <1>4, <2>2, <2>3, FreeIs DEF SlotInv, Types, ChanType
<1>7. OwnSlot' /\ OwnHandle' /\ OwnChannel'
  BY <1>4, FreeIs DEF OwnSlot, OwnHandle, OwnChannel
<1>8. OwnRead'
  BY <1>1, <1>3 DEF SlotInv, OwnRead
<1>9. FreeChannels' /\ ItsSlot'
  <2>1. 0 \in Channels
    BY FileAssumption DEF Channels
  <2> QED BY <1>5, <2>1 DEF FreeChannels, ItsSlot, FreeChannel
<1>10. ItsCall'
  BY <1>1 DEF Quiet, ItsCall, NoCall
<1> QED BY <1>6, <1>7, <1>8, <1>9, <1>10 DEF SlotInv

----------------------------------------------------------------------------
(* The callback.                                                           *)

\* What holds while it runs.
LEMMA InCallback ==
    ASSUME SlotInv, call.kind # "none"
    PROVE  /\ call.slot \in Slots /\ IsFile(File)
           /\ files = [j \in Slots |-> files[j]]
           /\ \A j \in Slots : j # call.slot => ~Told(j)
           /\ File.func # 0 => /\ File.func \in Reads
                               /\ reads[File.func].state = "open"
                               /\ reads[File.func].end = "no"
           /\ File.func = 0 \/ File.handle = call.h
           /\ reads = [q \in Reads |-> reads[q]]
           /\ \A q \in Reads : IsRead(reads[q])
BY DEF SlotInv, Types, IsCall, File, IsFile, Told, OwnSlot, Reads, ItsCall

LEMMA ReturnsCall ==
    ASSUME SlotInv, Returns
    PROVE  IsCall(call') /\ ItsCall' /\ call'.kind = "none"
<1>1. NoCall = [kind |-> "none", h |-> 0, slot |-> 0, data |-> <<>>]
  BY DEF NoCall
<1>2. IsCall(NoCall)
  BY <1>1, FileAssumption DEF IsCall, Calling, Channels, Slots
<1> QED BY <1>1, <1>2 DEF Returns, ItsCall

\* The client is told that its read is over, and the slot is free.
LEMMA SlotTold ==
    ASSUME SlotInv, AppFirst, call.kind # "none", Error, Still, File.func # 0,
           \/ chan' = Closed(chan, File.handle)
           \/ chan' = chan /\ call.kind = "closed"
    PROVE  SlotInv'
<1> DEFINE i == call.slot
           r == files[i].func
<1>1. /\ i \in Slots /\ IsFile(files[i])
      /\ files = [j \in Slots |-> files[j]] /\ \A j \in Slots : j # i => ~Told(j)
      /\ r # 0 => r \in Reads
      /\ reads = [q \in Reads |-> reads[q]] /\ \A q \in Reads : IsRead(reads[q])
  BY InCallback DEF File
<1>2. /\ files' = [files EXCEPT ![i] = FreeFile] /\ Returns /\ failed' = failed
      /\ reads' = [reads EXCEPT ![r].end = IF @ = "no" THEN "error" ELSE "again"]
  BY DEF Error, CallsNull, TellsEnd, File
<1>3. files'[i] = FreeFile /\ \A j \in Slots : j # i => files'[j] = files[j]
  BY <1>1, <1>2
<1>4. /\ reads' = [q \in Reads |-> reads'[q]] /\ \A q \in Reads : IsRead(reads'[q])
      /\ \A q \in Reads : q # r => reads'[q] = reads[q]
      /\ r \in Reads => reads'[r].end # "no"
      /\ failed' \in BOOLEAN
  <2> DEFINE e == IF reads[r].end = "no" THEN "error" ELSE "again"
             x == [reads[r] EXCEPT !.end = e]
  <2>1. reads' = [reads EXCEPT ![r] = x] /\ r \in Reads
    BY <1>1, <1>2 DEF File
  <2>2. e \in Ends /\ e # "no"
    BY DEF Ends
  <2> HIDE DEF e
  <2>3. IsRead(x) /\ x.end # "no"
    <3>1. IsRead(reads[r]) /\ e \in Ends
      BY <1>1, <2>1, <2>2
    <3> QED BY <2>2, <3>1, ReadEnd
  <2>4. failed \in BOOLEAN
    BY DEF SlotInv, Types
  <2> HIDE DEF x
  <2> QED BY <1>1, <1>2, <2>1, <2>3, <2>4
<1>5. chan' \in ChanType
  BY <1>1, ClosedType DEF SlotInv, Types, ChanType, IsFile, File
<1>6. IsCall(call') /\ ItsCall'
  BY <1>2, ReturnsCall
<1>7. Types'
  <2>1. files' = [j \in Slots |-> files'[j]] /\ \A j \in Slots : IsFile(files'[j])
    BY <1>1, <1>2, <1>3, FreeIs DEF SlotInv, Types
  <2> QED BY <2>1, <1>4, <1>5, <1>6 DEF SlotInv, Types, ChanType, Still
<1>8. Told(i) \/ chan' = Closed(chan, files[i].handle)
  BY DEF Told, File
<1>9. chan' = Closed(chan, files[i].handle) \/ (chan' = chan /\ Told(i))
  BY DEF Told, File
<1>10. nreads' = nreads
  BY DEF Still
<1> HIDE DEF i, r
<1>11. \A q \in Reads : q = r => reads'[q].end # "no"
  BY <1>4
<1> QED BY <1>1, <1>3, <1>4, <1>6, <1>7, <1>9, <1>10, <1>11, FreeIs, Releases DEF r

LEMMA SlotError ==
    ASSUME SlotInv, AppFirst, call.kind # "none", Error, Still,
           \/ chan' = Closed(chan, File.handle)
           \/ chan' = chan /\ call.kind = "closed"
    PROVE  SlotInv'
<1>1. CASE File.func = 0
  <2>1. failed' = TRUE /\ UNCHANGED <<files, reads, call, stream, reset, nreads>>
    BY <1>1 DEF Error, CallsNull, Still
  <2>2. call.slot \in Slots
    BY InCallback
  <2>3. File.handle = 0 /\ call.kind # "closed"
    BY <1>1, <2>2 DEF SlotInv, OwnSlot, ItsCall, File
  <2> QED BY <2>1, <2>3, SlotStops
<1> QED BY <1>1, SlotTold

\* The slot of the call changes as f, and the callback goes on or returns.
LEMMA SlotGoesOn ==
    ASSUME SlotInv, AppFirst, call.kind = "data", NEW f, IsFile(f),
           f.func = File.func, f.handle = File.handle,
           f.state \notin {"FREE", "WAIT_OPEN"},
           files' = [files EXCEPT ![call.slot] = f],
           SameReads, reads' = [q \in Reads |-> reads'[q]],
           \A q \in Reads : IsRead(reads'[q]),
           chan' = chan, failed' \in BOOLEAN, Still,
           Returns \/ \E n : call' = Rest(n)
    PROVE  SlotInv'
<1> DEFINE i == call.slot
<1>1. /\ i \in Slots /\ IsFile(files[i])
      /\ files = [j \in Slots |-> files[j]] /\ \A j \in Slots : ~Told(j)
  BY InCallback DEF File, Told
<1>2. files'[i] = f /\ \A j \in Slots : j # i => files'[j] = files[j]
  BY <1>1
<1>3. IsCall(call') /\ ItsCall'
  <2>1. CASE Returns
    BY <2>1, ReturnsCall
  <2>2. ASSUME NEW n, call' = Rest(n) PROVE IsCall(call') /\ ItsCall'
    <3>1. IsCall(call)
      BY DEF SlotInv, Types
    <3>2. IsCall(call') /\ call'.kind = "data" /\ call'.slot = i /\ call'.h = call.h
      BY <3>1, <2>2 DEF IsCall, Rest
    <3> QED BY <3>2, <1>2 DEF ItsCall, SlotInv, File
  <2> QED BY <2>1, <2>2
<1>4. Types'
  <2>1. files' = [j \in Slots |-> files'[j]] /\ \A j \in Slots : IsFile(files'[j])
    BY <1>1, <1>2 DEF SlotInv, Types
  <2> QED BY <2>1, <1>3 DEF SlotInv, Types, Still
<1>5. SameChannels /\ nreads' = nreads
  BY DEF SameChannels, Still
<1> QED BY <1>1, <1>2, <1>3, <1>4, <1>5, Continues DEF File

LEMMA SlotClosedUnexpectedly ==
    SlotInv /\ AppFirst /\ ClosedUnexpectedly => SlotInv'
BY SlotError DEF ClosedUnexpectedly, Still

LEMMA SlotCloseAndError ==
    ASSUME SlotInv, AppFirst, call.kind = "data", CloseAndError, Still
    PROVE  SlotInv'
BY SlotError DEF CloseAndError

LEMMA SlotHeader == SlotInv /\ AppFirst /\ Header => SlotInv'
<1> SUFFICES ASSUME SlotInv, AppFirst, Header PROVE SlotInv'
  OBVIOUS
<1> DEFINE u == call.data[File.remain]
<1>1. call.kind = "data" /\ File.state = "WAIT_HEADER" /\ Still
  BY DEF Header, In, File
<1> DEFINE good == /\ \A k \in 1 .. File.remain : call.data[k].part = "header"
                   /\ u.id # "BAD"
<1>2. CASE good
  <2> DEFINE s == IF u.id = "FAIL" THEN "WAIT_FAIL_DATA" ELSE "WAIT_DATA"
             f == [File EXCEPT !.id = u.id, !.size = u.size, !.remain = u.size,
                               !.state = s]
  <2>1. /\ files' = [files EXCEPT ![call.slot] =
              [@ EXCEPT !.id = u.id, !.size = u.size, !.remain = u.size, !.state = s]]
        /\ call' = Rest(File.remain) /\ UNCHANGED <<chan, reads, failed>>
    BY <1>2 DEF Header
  <2>2. /\ call.slot \in Slots /\ IsFile(File) /\ files = [j \in Slots |-> files[j]]
        /\ reads = [q \in Reads |-> reads[q]] /\ \A q \in Reads : IsRead(reads[q])
    BY <1>1, InCallback
  <2>3. s \in FileStates /\ s \notin {"FREE", "WAIT_OPEN"}
    BY DEF FileStates
  <2> HIDE DEF s, u
  <2>4. /\ IsFile(f) /\ f.func = File.func /\ f.handle = File.handle /\ f.state = s
    <3> DEFINE a == [File EXCEPT !.id = u.id]
               b == [a EXCEPT !.size = u.size]
               c == [b EXCEPT !.remain = u.size]
               d == [c EXCEPT !.state = s]
    <3>1. IsFile(a) /\ a.func = File.func /\ a.handle = File.handle
      BY <2>2 DEF IsFile
    <3> HIDE DEF a
    <3>2. IsFile(b) /\ b.func = File.func /\ b.handle = File.handle
      BY <3>1 DEF IsFile
    <3> HIDE DEF b
    <3>3. IsFile(c) /\ c.func = File.func /\ c.handle = File.handle
      BY <3>2 DEF IsFile
    <3> HIDE DEF c
    <3>4. IsFile(d) /\ d.func = File.func /\ d.handle = File.handle /\ d.state = s
      BY <3>3, <2>3 DEF IsFile
    <3>5. f = d
      BY DEF a, b, c
    <3> QED BY <3>4, <3>5
  <2>5. files' = [files EXCEPT ![call.slot] = f]
    BY <2>1, <2>2 DEF File
  <2>6. SameReads /\ failed' \in BOOLEAN
    BY <2>1 DEF SameReads, SlotInv, Types
  <2> HIDE DEF f
  <2> QED BY <1>1, <2>1, <2>2, <2>3, <2>4, <2>5, <2>6, SlotGoesOn
<1>3. CASE ~good
  BY <1>1, <1>3, SlotCloseAndError DEF Header
<1> QED BY <1>2, <1>3

LEMMA SlotPart ==
    ASSUME SlotInv, AppFirst, NEW s \in FileStates \ {"FREE", "WAIT_OPEN"}, PartOf(s),
           SameReads, reads' = [q \in Reads |-> reads'[q]],
           \A q \in Reads : IsRead(reads'[q])
    PROVE  SlotInv'
<1> DEFINE f == [File EXCEPT !.remain = @ - Have]
<1>1. /\ call.kind = "data" /\ File.state = s /\ Still /\ Returns
      /\ files' = [files EXCEPT ![call.slot].remain = @ - Have]
      /\ chan' = chan /\ failed' = failed
  BY DEF PartOf, In, File
<1>2. /\ call.slot \in Slots /\ IsFile(File) /\ files = [j \in Slots |-> files[j]]
  BY <1>1, InCallback
<1>3. /\ IsFile(f) /\ f.func = File.func /\ f.handle = File.handle /\ f.state = s
  BY <1>1, <1>2 DEF IsFile
<1>4. files' = [files EXCEPT ![call.slot] = f]
  BY <1>1, <1>2 DEF File
<1>5. failed' \in BOOLEAN
  BY <1>1 DEF SlotInv, Types
<1> HIDE DEF f
<1> QED BY <1>1, <1>3, <1>4, <1>5, SlotGoesOn

\* More of the file for the client of the slot.
LEMMA MoreRead ==
    ASSUME NEW x, IsRead(x), NEW g
    PROVE  LET y == [x EXCEPT !.got = g]
           IN  IsRead(y) /\ y.state = x.state /\ y.slot = x.slot /\ y.end = x.end
BY DEF IsRead

LEMMA SlotTells ==
    ASSUME SlotInv, call.kind = "data", NEW units, Tells(units)
    PROVE  /\ SameReads /\ reads' = [q \in Reads |-> reads'[q]]
           /\ \A q \in Reads : IsRead(reads'[q])
<1> DEFINE r == File.func
<1>1. /\ reads = [q \in Reads |-> reads[q]] /\ \A q \in Reads : IsRead(reads[q])
      /\ r # 0 => r \in Reads /\ reads[r].state = "open"
  BY InCallback
<1>2. CASE reads' = reads
  BY <1>1, <1>2 DEF SameReads
<1>3. CASE reads' # reads
  <2>1. reads' = [reads EXCEPT ![r].got = @ \o units]
    BY <1>3 DEF Tells
  <2>2. r \in Reads
    BY <2>1, <1>1, <1>3 DEF Reads
  <2> DEFINE y == [reads[r] EXCEPT !.got = reads[r].got \o units]
  <2>3. /\ IsRead(y) /\ y.state = reads[r].state /\ y.slot = reads[r].slot
        /\ y.end = reads[r].end
    BY <2>2, <1>1, MoreRead
  <2>4. reads' = [reads EXCEPT ![r] = y]
    BY <2>1
  <2>5. reads[r] # NewRead
    BY <1>1, <2>2 DEF NewRead, Reads
  <2> HIDE DEF y
  <2> QED BY <1>1, <2>2, <2>3, <2>4, <2>5 DEF SameReads
<1> QED BY <1>2, <1>3

LEMMA SlotDataPart == SlotInv /\ AppFirst /\ DataPart => SlotInv'
<1> SUFFICES ASSUME SlotInv, AppFirst, DataPart PROVE SlotInv'
  OBVIOUS
<1>1. PartOf("WAIT_DATA") /\ Tells(call.data) /\ call.kind = "data"
  BY DEF DataPart, PartOf, In
<1> QED BY <1>1, SlotTells, SlotPart DEF FileStates

LEMMA SlotOtherPart == SlotInv /\ AppFirst /\ (HeaderPart \/ FailDataPart) => SlotInv'
<1> SUFFICES ASSUME SlotInv, AppFirst, HeaderPart \/ FailDataPart PROVE SlotInv'
  OBVIOUS
<1>1. /\ SameReads /\ reads' = [q \in Reads |-> reads'[q]]
      /\ \A q \in Reads : IsRead(reads'[q])
  BY DEF HeaderPart, FailDataPart, SameReads, SlotInv, Types
<1>2. PartOf("WAIT_HEADER") \/ PartOf("WAIT_FAIL_DATA")
  BY DEF HeaderPart, FailDataPart
<1> QED BY <1>1, <1>2, SlotPart DEF FileStates

LEMMA SlotData == SlotInv /\ AppFirst /\ Data => SlotInv'
<1> SUFFICES ASSUME SlotInv, AppFirst, Data PROVE SlotInv'
  OBVIOUS
<1> DEFINE units == SubSeq(call.data, 1, File.remain)
           f == [File EXCEPT !.remain = HeaderSize, !.state = "WAIT_HEADER"]
<1>1. /\ files' = [files EXCEPT ![call.slot] =
            [@ EXCEPT !.remain = HeaderSize, !.state = "WAIT_HEADER"]]
      /\ reads' = [reads EXCEPT ![File.func].got = @ \o units]
      /\ call' = Rest(File.remain) /\ chan' = chan /\ failed' = failed
      /\ call.kind = "data" /\ Still /\ File.func # 0
  BY DEF Data, In
<1>2. /\ call.slot \in Slots /\ IsFile(File) /\ files = [j \in Slots |-> files[j]]
      /\ File.func \in Reads /\ reads[File.func].state = "open"
      /\ reads = [q \in Reads |-> reads[q]] /\ \A q \in Reads : IsRead(reads[q])
  BY <1>1, InCallback
<1>3. files' = [files EXCEPT ![call.slot] = f]
  BY <1>1, <1>2 DEF File
<1>4. IsFile(f) /\ f.func = File.func /\ f.handle = File.handle /\ f.state = "WAIT_HEADER"
  <2> DEFINE b == [File EXCEPT !.remain = HeaderSize]
  <2>1. f = [b EXCEPT !.state = "WAIT_HEADER"]
    OBVIOUS
  <2> HIDE DEF f
  <2>2. IsFile(b) /\ b.func = File.func /\ b.handle = File.handle
    BY <1>2 DEF IsFile
  <2> HIDE DEF b
  <2> QED BY <2>1, <2>2 DEF IsFile, FileStates
<1> HIDE DEF f
<1>5. SameReads /\ reads' = [q \in Reads |-> reads'[q]] /\ \A q \in Reads : IsRead(reads'[q])
  <2> DEFINE r == File.func
             y == [reads[r] EXCEPT !.got = reads[r].got \o units]
  <2>1. /\ IsRead(y) /\ y.state = reads[r].state /\ y.slot = reads[r].slot
        /\ y.end = reads[r].end
    BY <1>2, MoreRead
  <2>2. reads' = [reads EXCEPT ![r] = y] /\ reads[r] # NewRead
    BY <1>1, <1>2 DEF NewRead
  <2> HIDE DEF y, r
  <2> QED BY <1>2, <2>1, <2>2 DEF SameReads, r
<1>6. failed' \in BOOLEAN
  BY <1>1 DEF SlotInv, Types
<1> QED BY <1>1, <1>3, <1>4, <1>5, <1>6, SlotGoesOn

\* The client closes the file inside the callback.
LEMMA SlotClosesInside ==
    ASSUME SlotInv, AppFirst, call.kind = "data", File.func # 0, Still,
           NEW units, NEW f, IsFile(f), f.func = 0, f.handle = 0, f.state # "WAIT_OPEN",
           ClosesInside(units, f), call' = call \/ Returns
    PROVE  SlotInv'
<1> DEFINE i == call.slot
           r == files[i].func
           y == [[reads[r] EXCEPT !.got = reads[r].got \o units] EXCEPT !.state = "closed"]
<1>1. /\ files' = [files EXCEPT ![i] = f] /\ failed' = failed
      /\ reads' = [reads EXCEPT ![r].got = @ \o units, ![r].state = "closed"]
      /\ chan' = Closed(chan, files[i].handle)
  BY DEF ClosesInside, File
<1>2. /\ i \in Slots /\ IsFile(files[i]) /\ files = [j \in Slots |-> files[j]]
      /\ \A j \in Slots : ~Told(j)
      /\ r \in Reads /\ r # 0
      /\ reads = [q \in Reads |-> reads[q]] /\ \A q \in Reads : IsRead(reads[q])
  BY InCallback DEF File, Told
<1>3. reads' = [reads EXCEPT ![r] = y]
  BY <1>1, <1>2
<1>4. IsRead(y) /\ y.state = "closed"
  <2> DEFINE a == [reads[r] EXCEPT !.got = reads[r].got \o units]
  <2>1. IsRead(a)
    BY <1>2, MoreRead
  <2> HIDE DEF a
  <2>2. LET z == [a EXCEPT !.state = "closed"] IN IsRead(z) /\ z.state = "closed"
    BY <2>1 DEF IsRead, ReadStates
  <2> QED BY <2>2 DEF a
<1> HIDE DEF y
<1>5. /\ files'[i] = f /\ \A j \in Slots : j # i => files'[j] = files[j]
      /\ files' = [j \in Slots |-> files'[j]]
      /\ reads'[r] = y /\ \A q \in Reads : q # r => reads'[q] = reads[q]
      /\ reads' = [q \in Reads |-> reads'[q]]
  BY <1>1, <1>2, <1>3
<1>6. IsCall(call') /\ ItsCall'
  <2>1. CASE Returns
    BY <2>1, ReturnsCall
  <2>2. CASE call' = call
    BY <1>5, <2>2 DEF SlotInv, Types, ItsCall
  <2> QED BY <2>1, <2>2
<1>7. chan' \in ChanType
  BY <1>1, <1>2, ClosedType DEF IsFile, SlotInv
<1>8. /\ \A q \in Reads : IsRead(reads'[q])
      /\ \A j \in Slots : IsFile(files'[j])
  BY <1>2, <1>4, <1>5 DEF SlotInv, Types
<1>9. Types'
  BY <1>1, <1>5, <1>6, <1>7, <1>8 DEF SlotInv, Types, ChanType, Still
<1>10. nreads' = nreads /\ reads'[r].state # "open"
  BY <1>4, <1>5 DEF Still
<1> HIDE DEF i, r
<1> QED BY <1>1, <1>2, <1>5, <1>6, <1>9, <1>10, Releases DEF r

LEMMA LooseIs == IsFile(Loose) /\ Loose.func = 0 /\ Loose.handle = 0
                 /\ Loose.state = "WAIT_HEADER"
<1> DEFINE a == [FreeFile EXCEPT !.state = "WAIT_HEADER"]
<1>1. IsFile(a) /\ a.func = 0 /\ a.handle = 0 /\ a.state = "WAIT_HEADER"
  BY FreeIs DEF IsFile, FileStates
<1>2. Loose = [a EXCEPT !.remain = HeaderSize]
  BY DEF Loose
<1> HIDE DEF a
<1> QED BY <1>1, <1>2 DEF IsFile

LEMMA SlotDataClosed ==
    SlotInv /\ AppFirst /\ (DataClosed \/ DataPartClosed) => SlotInv'
<1> SUFFICES ASSUME SlotInv, AppFirst, DataClosed \/ DataPartClosed PROVE SlotInv'
  OBVIOUS
<1>1. CASE DataClosed
  <2>1. /\ call.kind = "data" /\ File.func # 0 /\ Still /\ call' = call
        /\ ClosesInside(SubSeq(call.data, 1, File.remain), Loose)
    BY <1>1 DEF DataClosed, In
  <2> QED BY <2>1, LooseIs, SlotClosesInside
<1>2. CASE DataPartClosed
  <2>1. /\ call.kind = "data" /\ File.func # 0 /\ Still /\ Returns
        /\ ClosesInside(call.data, FreeFile)
    BY <1>2 DEF DataPartClosed, In
  <2> QED BY <2>1, FreeIs, SlotClosesInside
<1> QED BY <1>1, <1>2

LEMMA SlotDataDone == SlotInv /\ AppFirst /\ DataDone => SlotInv'
<1> SUFFICES ASSUME SlotInv, AppFirst, DataDone PROVE SlotInv'
  OBVIOUS
<1> DEFINE i == call.slot
           r == files[i].func
<1>1. call.kind = "data" /\ Still /\ File.func # 0
  BY DEF DataDone, In
<1>2. /\ i \in Slots /\ IsFile(files[i]) /\ files = [j \in Slots |-> files[j]]
      /\ \A j \in Slots : ~Told(j)
      /\ r \in Reads /\ reads[r].end = "no"
      /\ reads = [q \in Reads |-> reads[q]] /\ \A q \in Reads : IsRead(reads[q])
  BY <1>1, InCallback DEF File, Told
<1>3. CASE Have # File.remain
  BY <1>1, <1>3, SlotCloseAndError DEF DataDone
<1>4. CASE Have = File.remain
  <2>1. /\ reads' = [reads EXCEPT ![File.func].end = IF @ = "no" THEN "eof" ELSE "again"]
        /\ \/ chan' = Closed(chan, File.handle)
           \/ chan' = Closed(Closed(chan, File.handle), 0)
        /\ files' = [files EXCEPT ![call.slot] = FreeFile]
        /\ Returns /\ failed' = failed
    BY <1>4 DEF DataDone, TellsEnd
  <2> DEFINE y == [reads[r] EXCEPT !.end = "eof"]
  <2>2. reads' = [reads EXCEPT ![r] = y] /\ files' = [files EXCEPT ![i] = FreeFile]
    BY <2>1, <1>2 DEF File
  <2>3. IsRead(y) /\ y.end = "eof"
    <3>1. IsRead(reads[r]) /\ "eof" \in Ends
      BY <1>2 DEF Ends
    <3> QED BY <3>1, ReadEnd
  <2> HIDE DEF y
  <2>4. /\ files'[i] = FreeFile /\ \A j \in Slots : j # i => files'[j] = files[j]
        /\ files' = [j \in Slots |-> files'[j]]
        /\ reads'[r] = y /\ \A q \in Reads : q # r => reads'[q] = reads[q]
        /\ reads' = [q \in Reads |-> reads'[q]]
    BY <1>2, <2>2
  <2>5. /\ \A q \in Reads : IsRead(reads'[q])
        /\ \A j \in Slots : IsFile(files'[j])
    BY <1>2, <2>3, <2>4, FreeIs DEF SlotInv, Types
  <2>6. /\ \/ chan' = Closed(chan, files[i].handle)
           \/ chan' = Closed(Closed(chan, files[i].handle), 0)
        /\ chan' \in ChanType
    <3>1. /\ files[i].handle \in Channels /\ 0 \in Channels
          /\ chan \in ChanType
      BY <1>2, FileAssumption DEF IsFile, Channels, SlotInv, Types, ChanType
    <3> QED BY <2>1, <3>1, ClosedAs DEF File
  <2>7. IsCall(call') /\ ItsCall'
    BY <2>1, ReturnsCall
  <2>8. Types'
    BY <1>1, <2>1, <2>4, <2>5, <2>6, <2>7 DEF SlotInv, Types, ChanType, Still
  <2>9. nreads' = nreads /\ reads'[r].end # "no"
    BY <1>1, <2>3, <2>4 DEF Still
  <2> HIDE DEF i, r
  <2> QED BY <1>2, <2>4, <2>6, <2>7, <2>8, <2>9, FreeIs, Releases DEF r
<1> QED BY <1>3, <1>4

LEMMA SlotNobodyToTell == SlotInv /\ AppFirst /\ NobodyToTell => SlotInv'
<1> SUFFICES ASSUME SlotInv, AppFirst, NobodyToTell PROVE SlotInv'
  OBVIOUS
<1>1. /\ call.kind = "data" /\ Still /\ failed' = TRUE
      /\ UNCHANGED <<files, chan, call, reads>>
  BY DEF NobodyToTell, CallsNull, In
<1>2. Types'
  BY <1>1 DEF SlotInv, Types, Still
<1>3. ItsCall' /\ SameReads /\ SameChannels /\ \A j \in Slots : ~Told(j)
  BY <1>1 DEF SlotInv, ItsCall, Told, SameReads, SameChannels
<1>4. 0 \in Slots /\ nreads' = nreads
  BY <1>1, FileAssumption DEF Slots, Still
<1> QED BY <1>1, <1>2, <1>3, <1>4, Continues

LEMMA SlotStutter == SlotInv /\ UNCHANGED vars => SlotInv'
BY DEF vars, SlotInv, Types, OwnSlot, OwnRead, OwnHandle, OwnChannel,
       FreeChannels, ItsSlot, ItsCall, Told

LEMMA SlotCallback == SlotInv /\ AppFirst /\ Callback => SlotInv'
<1> SUFFICES ASSUME SlotInv, AppFirst, Callback PROVE SlotInv'
  OBVIOUS
<1>1. CASE Unasked \/ FailData
  BY <1>1, SlotCloseAndError DEF Unasked, FailData, In
<1> QED BY <1>1, SlotClosedUnexpectedly, SlotHeader, SlotOtherPart, SlotData,
           SlotDataClosed, SlotDataDone, SlotDataPart, SlotNobodyToTell DEF Callback

LEMMA SlotStep == SlotInv /\ AppFirst /\ [Next]_vars => SlotInv'
<1> SUFFICES ASSUME SlotInv, AppFirst, [Next]_vars PROVE SlotInv'
  OBVIOUS
<1>1. ASSUME NEW h \in Channels,
             \/ Opens(h) \/ Acknowledges(h) \/ SpeaksFirst(h) \/ PhoneCloses(h)
             \/ \E n \in 1 .. MaxPacket : Packet(h, n)
      PROVE  SlotInv'
  BY <1>1, SlotOpens, SlotAcknowledges, SlotSpeaksFirst, SlotPhoneCloses, SlotPacket
<1> QED BY <1>1, SlotRead, SlotClose, SlotFileTasks, SlotStartReset, SlotResetOne,
           SlotReattach, SlotAppOpens, SlotCallback, SlotStutter DEF Next

\* If the application has the first channel, every slot in use is that of one
\* read under way, and its channel is live, or the slot is being called for its
\* loss, for any number of slots, channels, reads and errors.  For a free slot
\* looks as if it had the first channel (adb_file.c:103, 198): without this it
\* would be called for another.
THEOREM SlotsAreOwn == AppFirst /\ Spec => []SlotsMatch
<1>1. SlotInv => SlotsMatch
  BY DEF SlotInv, OwnSlot, OwnChannel, SlotsMatch, Told, Live
<1>2. CASE AppFirst
  <2>1. Init => SlotInv
    BY <1>2, InitSlot
  <2>2. SlotInv /\ [Next]_vars => SlotInv'
    BY <1>2, SlotStep
  <2> QED BY <1>1, <2>1, <2>2, PTL DEF Spec
<1> QED BY <1>2

----------------------------------------------------------------------------
(* The contents.                                                           *)

\* The sum of the first i sequences of s.
Upto(s, i) == FlattenSeq(SubSeq(s, 1, i))

\* The messages of a reply as the phone sends them, and what of them is the
\* contents.
HeaderOf(m)     == [j \in 1 .. HeaderSize |-> HeaderUnit(m)]
DataOf(r, i, n) == [j \in 1 .. n |-> DataUnit(r, i, j)]
Pieces(r, reply) ==
    [i \in 1 .. Len(reply) |->
        HeaderOf(reply[i]) \o DataOf(r, i, reply[i].size)]
Contents(r, reply) ==
    [i \in 1 .. Len(reply) |->
        IF reply[i].id = "DATA" /\ \A k \in 1 .. i : reply[k].id # "DONE"
          THEN DataOf(r, i, reply[i].size) ELSE <<>>]

\* Where message i of the stream ends.
EndOf(r, reply, i) == Len(Upto(Pieces(r, reply), i))

\* The stream without its first n units.
From(t, n) == SubSeq(t, n + 1, Len(t))

Units == {HeaderUnit(m) : m \in Message}
           \cup {DataUnit(r, i, j) : r \in Reads, i \in Nat, j \in Nat}

\* What is known of a slot f that read x has, when d is what the callback has
\* in hand of its stream, w what is still to come, and c the state of its
\* channel.  Either the phone has not answered, or has nothing to say.
Waiting(f, x, d, w, c) ==
    /\ x.reply = <<>> /\ x.got = <<>> /\ w = <<>>
    /\ \A k \in 1 .. Len(d) : d[k].id = "BAD"
    /\ f.state \in {"WAIT_OPEN", "WAIT_HEADER"}
    /\ f.state = "WAIT_HEADER" => f.remain \in 1 .. HeaderSize
    /\ c = "BUSY" =>
          f.state = "WAIT_HEADER" /\ f.remain = HeaderSize /\ d = <<>>

\* Or i messages of the reply are over, and the slot is in the next one: what
\* is unread, u, is the stream from there on.
InHeader(f, x, u, i) ==
    /\ f.state = "WAIT_HEADER" /\ f.remain \in 1 .. HeaderSize
    /\ x.got = Upto(Contents(f.func, x.reply), i)
    /\ u = From(StreamOf(f.func, x.reply),
                EndOf(f.func, x.reply, i) + (HeaderSize - f.remain))
InData(f, x, u, i) ==
    LET m == x.reply[i + 1] IN
    /\ f.state = "WAIT_DATA" /\ i < Len(x.reply)
    /\ f.id = m.id /\ m.id \in {"DATA", "DONE"}
    /\ f.remain \in 0 .. m.size
    /\ x.got = Upto(Contents(f.func, x.reply), i)
                 \o DataOf(f.func, i + 1, m.size - f.remain)
    /\ u = From(StreamOf(f.func, x.reply),
                EndOf(f.func, x.reply, i) + (HeaderSize + (m.size - f.remain)))
InFailData(f, x, i) ==
    /\ f.state = "WAIT_FAIL_DATA"
    /\ x.got = Upto(Contents(f.func, x.reply), i)
At(f, x, u, i) == InHeader(f, x, u, i) \/ InData(f, x, u, i) \/ InFailData(f, x, i)
Parsing(f, x, u, c) ==
    /\ x.reply \in Replies /\ x.reply # <<>> /\ c # "BUSY"
    /\ \E i \in 0 .. Len(x.reply) :
          (\A k \in 1 .. i : x.reply[k].id # "DONE") /\ At(f, x, u, i)

\* One or the other.
SlotAt(f, x, d, w, c) ==
    /\ d \in Seq(Units) /\ w \in Seq(Units)
    /\ Waiting(f, x, d, w, c) \/ Parsing(f, x, d \o w, c)

\* What the callback has in hand of slot s.
InHand(s) == IF call.kind = "data" /\ call.slot = s THEN call.data ELSE <<>>
SlotOk(s) ==
    files[s].func # 0 /\ ~Told(s) =>
        SlotAt(files[s], reads[files[s].func], InHand(s),
               stream[files[s].handle], chan[files[s].handle].state)
SlotsOk == \A s \in Slots : SlotOk(s)

----------------------------------------------------------------------------
(* Sequences of sequences, put together.                                   *)

\* What the naturals have in common with all sets that 0 is in and n + 1 with
\* every n: for there is no least number that is not.
LEMMA NatIsInductive ==
    ASSUME NEW S, 0 \in S, \A n \in Nat : n \in S => n + 1 \in S
    PROVE  Nat \subseteq S
<1>1. SUFFICES ASSUME Nat \ S # {} PROVE FALSE
  OBVIOUS
<1>2. PICK x \in Nat \ S : \A y \in Nat \ S : ~ (<<y, x>> \in OpToRel(<, Nat))
  BY <1>1, NatLessThanWellFounded, WFMin
<1>3. x # 0 /\ x \in Nat
  OBVIOUS
<1>4. x - 1 \in Nat /\ (x - 1) + 1 = x /\ x - 1 < x
  BY <1>3
<1>5. x - 1 \in Nat \ S
  BY <1>4
<1>6. <<x - 1, x>> \in OpToRel(<, Nat)
  BY <1>4, <1>3 DEF OpToRel
<1> QED BY <1>2, <1>5, <1>6

\* g has the first n sums that FlattenSeq takes of s.
IsFlat(g, s, n) ==
    g = [i \in 1 .. n |-> IF i = 1 THEN s[i] ELSE g[i - 1] \o s[i]]

LEMMA FlatExists ==
    ASSUME NEW s PROVE \A n \in Nat : \E g : IsFlat(g, s, n)
<1> DEFINE T == {n \in Nat : \E g : IsFlat(g, s, n)}
<1>1. 0 \in T
  <2> DEFINE g == [i \in 1 .. 0 |-> s]
  <2>1. IsFlat(g, s, 0)
    BY DEF IsFlat
  <2> QED BY <2>1
<1>2. ASSUME NEW n \in Nat, n \in T PROVE n + 1 \in T
  <2>1. PICK g : IsFlat(g, s, n)
    BY <1>2
  <2> DEFINE h == [i \in 1 .. n + 1 |->
                      IF i <= n THEN g[i]
                      ELSE IF i = 1 THEN s[i] ELSE g[n] \o s[i]]
             H == [i \in 1 .. n + 1 |-> IF i = 1 THEN s[i] ELSE h[i - 1] \o s[i]]
  <2>2. ASSUME NEW i \in 1 .. n + 1 PROVE h[i] = H[i]
    <3>1. CASE i = 1
      <4>1. i <= n => g[i] = s[i]
        BY <2>1, <3>1 DEF IsFlat
      <4> QED BY <3>1, <4>1
    <3>2. CASE i # 1 /\ i <= n
      <4>1. i - 1 \in 1 .. n /\ i \in 1 .. n
        BY <3>2
      <4>2. h[i - 1] = g[i - 1] /\ h[i] = g[i]
        BY <4>1
      <4>3. g[i] = g[i - 1] \o s[i]
        BY <2>1, <3>2, <4>1 DEF IsFlat
      <4> QED BY <3>2, <4>2, <4>3
    <3>3. CASE i # 1 /\ ~(i <= n)
      <4>1. i = n + 1 /\ i - 1 = n /\ n \in 1 .. n /\ n \in 1 .. n + 1
        BY <3>3
      <4>2. h[n] = g[n]
        BY <4>1
      <4>3. h[i] = g[n] \o s[i]
        BY <3>3
      <4>4. H[i] = h[n] \o s[i]
        BY <3>3, <4>1
      <4> QED BY <4>2, <4>3, <4>4
    <3> QED BY <3>1, <3>2, <3>3
  <2>3. h = H
    <3> HIDE DEF h
    <3> DEFINE hh == h
    <3>1. h = [i \in 1 .. n + 1 |-> h[i]]
      BY DEF h
    <3> QED BY <2>2, <3>1
  <2> HIDE DEF h
  <2>4. IsFlat(h, s, n + 1)
    BY <2>3 DEF IsFlat
  <2> QED BY <2>4
<1> HIDE DEF T
<1>3. Nat \subseteq T
  BY <1>1, <1>2, NatIsInductive
<1> QED BY <1>3 DEF T

LEMMA FlatAt ==
    ASSUME NEW n \in Nat, NEW s, NEW g, IsFlat(g, s, n), NEW i \in 1 .. n
    PROVE  g[i] = IF i = 1 THEN s[i] ELSE g[i - 1] \o s[i]
<1> DEFINE e(k) == IF k = 1 THEN s[k] ELSE g[k - 1] \o s[k]
<1>1. g = [k \in 1 .. n |-> e(k)]
  BY DEF IsFlat
<1> HIDE DEF e
<1>2. g[i] = e(i)
  BY <1>1
<1> QED BY <1>2 DEF e

\* Two sequences have the same first n elements.
Agree(s, t, n) == \A i \in 1 .. n : s[i] = t[i]

LEMMA FlatUnique ==
    ASSUME NEW n \in Nat, NEW m \in Nat, n <= m, NEW s, NEW t, NEW g, NEW h,
           IsFlat(g, s, n), IsFlat(h, t, m), Agree(s, t, n)
    PROVE  Agree(g, h, n)
<1> USE DEF Agree
<1> DEFINE T == {i \in Nat : i \in 1 .. n => g[i] = h[i]}
<1>1. 0 \in T
  OBVIOUS
<1>2. ASSUME NEW i \in Nat, i \in T PROVE i + 1 \in T
  <2> SUFFICES ASSUME i + 1 \in 1 .. n PROVE g[i + 1] = h[i + 1]
    OBVIOUS
  <2>1. /\ g[i + 1] = IF i + 1 = 1 THEN s[i + 1] ELSE g[(i + 1) - 1] \o s[i + 1]
        /\ h[i + 1] = IF i + 1 = 1 THEN t[i + 1] ELSE h[(i + 1) - 1] \o t[i + 1]
    <3>1. i + 1 \in 1 .. m
      OBVIOUS
    <3> QED BY <3>1, FlatAt
  <2>2. CASE i = 0
    BY <2>1, <2>2
  <2>3. CASE i # 0
    <3>1. i \in 1 .. n /\ (i + 1) - 1 = i
      BY <2>3
    <3> QED BY <1>2, <2>1, <3>1
  <2> QED BY <2>2, <2>3
<1> HIDE DEF T
<1>3. Nat \subseteq T
  BY <1>1, <1>2, NatIsInductive
<1> QED BY <1>3 DEF T

LEMMA FlattenIs ==
    ASSUME NEW s, Len(s) \in Nat \ {0}
    PROVE  \E g : IsFlat(g, s, Len(s)) /\ FlattenSeq(s) = g[Len(s)]
<1>1. \E g : IsFlat(g, s, Len(s))
  BY FlatExists
<1>2. Len(s) # 0
  OBVIOUS
<1> QED BY ONLY <1>1, <1>2, Zenon DEF FlattenSeq, IsFlat

----------------------------------------------------------------------------
\* The first i of the sequences of s, put together.
LEMMA UptoZero == ASSUME NEW S, NEW s \in Seq(S) PROVE Upto(s, 0) = <<>>
<1>1. Len(SubSeq(s, 1, 0)) = 0 /\ SubSeq(s, 1, 0) = <<>>
  OBVIOUS
<1> QED BY <1>1 DEF Upto, FlattenSeq

LEMMA UptoAll == ASSUME NEW S, NEW s \in Seq(S) PROVE Upto(s, Len(s)) = FlattenSeq(s)
<1>1. SubSeq(s, 1, Len(s)) = s
  OBVIOUS
<1> QED BY <1>1 DEF Upto

LEMMA UptoNext ==
    ASSUME NEW S, NEW s \in Seq(Seq(S)), NEW i \in 0 .. Len(s) - 1
    PROVE  Upto(s, i + 1) = Upto(s, i) \o s[i + 1]
<1> DEFINE a == SubSeq(s, 1, i)
           b == SubSeq(s, 1, i + 1)
<1>1. /\ i \in Nat /\ i + 1 \in 1 .. Len(s) /\ i + 1 \in Nat \ {0}
      /\ Len(a) = i /\ Len(b) = i + 1
  OBVIOUS
<1>2. \A k \in 1 .. i : a[k] = s[k]
  OBVIOUS
<1>3. \A k \in 1 .. i + 1 : b[k] = s[k]
  OBVIOUS
<1> HIDE DEF a, b
<1>4. PICK h : IsFlat(h, b, i + 1) /\ FlattenSeq(b) = h[i + 1]
  BY <1>1, FlattenIs
<1>5. h[i + 1] = IF i + 1 = 1 THEN b[i + 1] ELSE h[(i + 1) - 1] \o b[i + 1]
  <2>1. i + 1 \in Nat /\ i + 1 \in 1 .. i + 1
    BY <1>1
  <2> QED BY <1>4, <2>1, FlatAt
<1>6. CASE i = 0
  <2>1. Upto(s, i) = <<>>
    BY <1>6, UptoZero
  <2>2. FlattenSeq(b) = s[1]
    BY <1>3, <1>4, <1>5, <1>6
  <2>3. s[1] \in Seq(S)
    BY <1>1
  <2>4. <<>> \o s[1] = s[1]
    BY <2>3
  <2>5. Upto(s, i + 1) = FlattenSeq(b)
    BY DEF Upto, b
  <2> QED BY <1>6, <2>1, <2>2, <2>4, <2>5
<1>7. CASE i # 0
  <2>1. PICK g : IsFlat(g, a, i) /\ FlattenSeq(a) = g[i]
    BY <1>1, <1>7, FlattenIs
  <2>2. \A k \in 1 .. i : a[k] = b[k]
    <3>1. \A k \in 1 .. i : k \in 1 .. i + 1
      BY <1>1
    <3> QED BY <1>2, <1>3, <3>1
  <2>3. i <= i + 1 /\ i \in 1 .. i /\ (i + 1) - 1 = i
    BY <1>1, <1>7
  <2>4. \A k \in 1 .. i : g[k] = h[k]
    <3>1. i \in Nat /\ i + 1 \in Nat /\ IsFlat(g, a, i) /\ IsFlat(h, b, i + 1)
      BY <1>1, <1>4, <2>1
    <3>2. Agree(a, b, i)
      BY <2>2 DEF Agree
    <3>3. Agree(g, h, i)
      BY ONLY <3>1, <3>2, <2>3, FlatUnique
    <3> QED BY <3>3 DEF Agree
  <2>5. FlattenSeq(b) = FlattenSeq(a) \o s[i + 1]
    <3>1. g[i] = h[i]
      BY <2>3, <2>4
    <3>2. h[i + 1] = h[i] \o b[i + 1]
      <4>1. i + 1 # 1
        BY <1>1, <1>7
      <4> QED BY <1>5, <2>3, <4>1
    <3>3. b[i + 1] = s[i + 1]
      BY <1>1, <1>3
    <3> QED BY <1>4, <2>1, <3>1, <3>2, <3>3
  <2> QED BY <2>5 DEF Upto, a, b
<1> QED BY <1>6, <1>7

LEMMA UptoType ==
    ASSUME NEW S, NEW s \in Seq(Seq(S))
    PROVE  \A i \in 0 .. Len(s) : Upto(s, i) \in Seq(S)
<1> DEFINE T == {i \in Nat : i <= Len(s) => Upto(s, i) \in Seq(S)}
<1>1. 0 \in T
  <2>1. Upto(s, 0) = <<>>
    BY UptoZero
  <2>2. <<>> \in Seq(S)
    OBVIOUS
  <2> HIDE DEF T
  <2>3. Upto(s, 0) \in Seq(S)
    BY <2>1, <2>2
  <2> QED BY <2>3 DEF T
<1>2. ASSUME NEW i \in Nat, i \in T PROVE i + 1 \in T
  <2> SUFFICES ASSUME i + 1 <= Len(s) PROVE Upto(s, i + 1) \in Seq(S)
    OBVIOUS
  <2>1. i \in 0 .. Len(s) - 1 /\ i <= Len(s) /\ i + 1 \in 1 .. Len(s)
    OBVIOUS
  <2>2. Upto(s, i) \in Seq(S) /\ s[i + 1] \in Seq(S)
    BY <1>2, <2>1
  <2>3. Upto(s, i + 1) = Upto(s, i) \o s[i + 1]
    BY <2>1, UptoNext
  <2>4. \A u, v \in Seq(S) : u \o v \in Seq(S)
    OBVIOUS
  <2> QED BY <2>2, <2>3, <2>4
<1> HIDE DEF T
<1>3. Nat \subseteq T
  BY <1>1, <1>2, NatIsInductive
<1> QED BY <1>3 DEF T

\* The first i are the beginning of the first j.
LEMMA UptoBegins ==
    ASSUME NEW S, NEW s \in Seq(Seq(S)), NEW i \in 0 .. Len(s)
    PROVE  \A j \in i .. Len(s) :
              /\ Len(Upto(s, i)) <= Len(Upto(s, j))
              /\ \A k \in 1 .. Len(Upto(s, i)) : Upto(s, j)[k] = Upto(s, i)[k]
<1> DEFINE Begins(u, v) == /\ Len(u) <= Len(v)
                           /\ \A k \in 1 .. Len(u) : v[k] = u[k]
           T == {n \in Nat : i + n <= Len(s) => Begins(Upto(s, i), Upto(s, i + n))}
<1>0. i \in Nat /\ Len(s) \in Nat /\ Upto(s, i) \in Seq(S)
  BY UptoType
<1>1. 0 \in T
  <2>1. i + 0 = i
    BY <1>0
  <2> QED BY <1>0, <2>1
<1>2. ASSUME NEW n \in Nat, n \in T PROVE n + 1 \in T
  <2> SUFFICES ASSUME i + (n + 1) <= Len(s) PROVE Begins(Upto(s, i), Upto(s, i + (n + 1)))
    OBVIOUS
  <2> DEFINE j == i + n
  <2>1. j \in 0 .. Len(s) - 1 /\ j \in 0 .. Len(s) /\ i + (n + 1) = j + 1 /\ j + 1 \in 1 .. Len(s)
    BY <1>0
  <2>2. Begins(Upto(s, i), Upto(s, j))
    BY <1>2, <2>1
  <2> HIDE DEF j
  <2>3. Upto(s, j) \in Seq(S) /\ s[j + 1] \in Seq(S)
    BY <2>1, UptoType
  <2>4. Upto(s, j + 1) = Upto(s, j) \o s[j + 1]
    BY <2>1, UptoNext
  <2>5. /\ Len(Upto(s, j + 1)) = Len(Upto(s, j)) + Len(s[j + 1])
        /\ \A k \in 1 .. Len(Upto(s, j)) : Upto(s, j + 1)[k] = Upto(s, j)[k]
        /\ Len(Upto(s, j)) \in Nat /\ Len(s[j + 1]) \in Nat /\ Len(Upto(s, i)) \in Nat
    BY <1>0, <2>3, <2>4
  <2> DEFINE u == Upto(s, i)
             v == Upto(s, j)
             w == Upto(s, j + 1)
  <2>6. Len(u) <= Len(v) /\ \A k \in 1 .. Len(u) : v[k] = u[k]
    BY <2>2
  <2> HIDE DEF u, v, w
  <2>7. \A k \in 1 .. Len(u) : k \in 1 .. Len(v)
    BY <2>5, <2>6 DEF u, v
  <2>8. Len(u) <= Len(w) /\ \A k \in 1 .. Len(u) : w[k] = u[k]
    BY <2>5, <2>6, <2>7 DEF u, v, w
  <2> QED BY <2>1, <2>8 DEF u, w
<1> HIDE DEF T
<1>3. Nat \subseteq T
  BY <1>1, <1>2, NatIsInductive
<1>4. ASSUME NEW j \in i .. Len(s) PROVE Begins(Upto(s, i), Upto(s, j))
  <2>1. j - i \in Nat /\ i + (j - i) = j /\ j <= Len(s)
    BY <1>0
  <2> QED BY <1>3, <2>1 DEF T
<1> QED BY <1>4

\* Nothing is added by sequences that are empty.
LEMMA UptoEmpty ==
    ASSUME NEW S, NEW s \in Seq(Seq(S)), NEW i \in 0 .. Len(s),
           \A k \in i + 1 .. Len(s) : s[k] = <<>>
    PROVE  FlattenSeq(s) = Upto(s, i)
<1> DEFINE T == {n \in Nat : i + n <= Len(s) => Upto(s, i + n) = Upto(s, i)}
<1>0. i \in Nat /\ Len(s) \in Nat /\ Upto(s, i) \in Seq(S)
  BY UptoType
<1>1. 0 \in T
  <2>1. i + 0 = i
    BY <1>0
  <2> QED BY <1>0, <2>1
<1>2. ASSUME NEW n \in Nat, n \in T PROVE n + 1 \in T
  <2> SUFFICES ASSUME i + (n + 1) <= Len(s) PROVE Upto(s, i + (n + 1)) = Upto(s, i)
    OBVIOUS
  <2> DEFINE j == i + n
  <2>1. j \in 0 .. Len(s) - 1 /\ i + (n + 1) = j + 1 /\ j + 1 \in i + 1 .. Len(s)
    BY <1>0
  <2>2. Upto(s, j) = Upto(s, i)
    BY <1>2, <2>1
  <2> HIDE DEF j
  <2>3. Upto(s, j + 1) = Upto(s, j) \o s[j + 1] /\ s[j + 1] = <<>>
    BY <2>1, UptoNext
  <2> QED BY <1>0, <2>1, <2>2, <2>3
<1> HIDE DEF T
<1>3. Nat \subseteq T
  BY <1>1, <1>2, NatIsInductive
<1>4. Len(s) - i \in Nat /\ i + (Len(s) - i) = Len(s)
  BY <1>0
<1>5. Upto(s, Len(s)) = Upto(s, i)
  <2>1. Len(s) - i \in T
    BY <1>3, <1>4
  <2> QED BY <1>0, <1>4, <2>1 DEF T
<1> QED BY <1>5, UptoAll

----------------------------------------------------------------------------
(* Where a message is in the stream, and what it adds to the contents.     *)

LEMMA HeaderType ==
    ASSUME NEW m \in Message PROVE HeaderOf(m) \in Seq(Units) /\ Len(HeaderOf(m)) = HeaderSize
<1>1. HeaderUnit(m) \in Units
  BY DEF Units
<1> QED BY <1>1, FileAssumption DEF HeaderOf

LEMMA DataType ==
    ASSUME NEW r \in Reads, NEW i \in Nat, NEW n \in Nat
    PROVE  /\ DataOf(r, i, n) \in Seq(Units) /\ Len(DataOf(r, i, n)) = n
           /\ \A j \in 1 .. n : DataOf(r, i, n)[j] = DataUnit(r, i, j)
<1>1. \A j \in 1 .. n : DataUnit(r, i, j) \in Units
  BY DEF Units
<1> QED BY <1>1 DEF DataOf

LEMMA Joined ==
    ASSUME NEW S, NEW u \in Seq(S), NEW v \in Seq(S)
    PROVE  /\ u \o v \in Seq(S) /\ Len(u) \in Nat /\ Len(v) \in Nat
           /\ Len(u \o v) = Len(u) + Len(v)
           /\ \A k \in 1 .. Len(u) : (u \o v)[k] = u[k]
           /\ \A k \in 1 .. Len(v) : (u \o v)[Len(u) + k] = v[k]
<1>1. u \o v \in Seq(S) /\ Len(u) \in Nat /\ Len(v) \in Nat
  OBVIOUS
<1>2. Len(u \o v) = Len(u) + Len(v)
  OBVIOUS
<1>3. \A k \in 1 .. Len(u) : (u \o v)[k] = u[k]
  OBVIOUS
<1>4. ASSUME NEW k \in 1 .. Len(v) PROVE (u \o v)[Len(u) + k] = v[k]
  <2>1. Len(u) + k \in 1 .. Len(u) + Len(v) /\ ~(Len(u) + k <= Len(u))
        /\ (Len(u) + k) - Len(u) = k
    BY <1>1
  <2> QED BY <1>1, <2>1
<1> QED BY <1>1, <1>2, <1>3, <1>4

LEMMA JoinedUnits ==
    ASSUME NEW u \in Seq(Units), NEW v \in Seq(Units)
    PROVE  /\ \A k \in 1 .. Len(u) : (u \o v)[k] = u[k]
           /\ \A k \in 1 .. Len(v) : (u \o v)[Len(u) + k] = v[k]
BY Joined

\* The parts of a reply.
LEMMA PiecesType ==
    ASSUME NEW r \in Reads, NEW reply \in Replies
    PROVE  /\ Len(reply) \in Nat /\ \A i \in 1 .. Len(reply) : reply[i] \in Message
           /\ Pieces(r, reply) \in Seq(Seq(Units)) /\ Len(Pieces(r, reply)) = Len(reply)
           /\ Contents(r, reply) \in Seq(Seq(Units)) /\ Len(Contents(r, reply)) = Len(reply)
           /\ \A i \in 1 .. Len(reply) :
                 Pieces(r, reply)[i] = HeaderOf(reply[i]) \o DataOf(r, i, reply[i].size)
           /\ StreamOf(r, reply) = FlattenSeq(Pieces(r, reply))
           /\ ContentsOf(r, reply) = FlattenSeq(Contents(r, reply))
<1>1. Len(reply) \in Nat /\ \A i \in 1 .. Len(reply) : reply[i] \in Message
  BY FileAssumption
<1>2. \A i \in 1 .. Len(reply) : reply[i].size \in Nat
  BY <1>1 DEF Message
<1>3. ASSUME NEW i \in 1 .. Len(reply)
      PROVE  HeaderOf(reply[i]) \o DataOf(r, i, reply[i].size) \in Seq(Units)
  <2>1. HeaderOf(reply[i]) \in Seq(Units)
    BY <1>1, HeaderType
  <2>2. DataOf(r, i, reply[i].size) \in Seq(Units)
    <3>1. i \in Nat /\ reply[i].size \in Nat
      BY <1>1, <1>2
    <3> QED BY <3>1, DataType
  <2> QED BY <2>1, <2>2
<1>4. Pieces(r, reply) \in Seq(Seq(Units)) /\ Len(Pieces(r, reply)) = Len(reply)
  BY <1>1, <1>3 DEF Pieces
<1>5. ASSUME NEW i \in 1 .. Len(reply) PROVE DataOf(r, i, reply[i].size) \in Seq(Units)
  <2>1. i \in Nat /\ reply[i].size \in Nat
    BY <1>1, <1>2
  <2> QED BY <2>1, DataType
<1>6. Contents(r, reply) \in Seq(Seq(Units)) /\ Len(Contents(r, reply)) = Len(reply)
  BY <1>1, <1>5 DEF Contents
<1>7. \A i \in 1 .. Len(reply) :
         Pieces(r, reply)[i] = HeaderOf(reply[i]) \o DataOf(r, i, reply[i].size)
  BY DEF Pieces
<1>8. StreamOf(r, reply) = FlattenSeq(Pieces(r, reply))
  BY DEF StreamOf, Pieces, HeaderOf, DataOf
<1>9. ContentsOf(r, reply) = FlattenSeq(Contents(r, reply))
  BY DEF ContentsOf, Contents, DataOf
<1> QED BY <1>1, <1>4, <1>6, <1>7, <1>8, <1>9

LEMMA PieceIs ==
    ASSUME NEW r \in Reads, NEW reply \in Replies, NEW i \in 1 .. Len(reply)
    PROVE  LET p == Pieces(r, reply)[i]
           IN  /\ p \in Seq(Units) /\ reply[i].size \in Nat
               /\ Len(p) = HeaderSize + reply[i].size
               /\ \A j \in 1 .. HeaderSize : p[j] = HeaderUnit(reply[i])
               /\ \A j \in 1 .. reply[i].size : p[HeaderSize + j] = DataUnit(r, i, j)
<1> DEFINE a == HeaderOf(reply[i])
           b == DataOf(r, i, reply[i].size)
<1>1. reply[i] \in Message /\ reply[i].size \in Nat /\ i \in Nat /\ HeaderSize \in Nat
  BY PiecesType, FileAssumption DEF Message
<1>2. a \in Seq(Units) /\ Len(a) = HeaderSize /\ \A j \in 1 .. HeaderSize : a[j] = HeaderUnit(reply[i])
  BY <1>1, HeaderType DEF HeaderOf
<1>3. /\ b \in Seq(Units) /\ Len(b) = reply[i].size
      /\ \A j \in 1 .. reply[i].size : b[j] = DataUnit(r, i, j)
  BY <1>1, DataType
<1>4. Pieces(r, reply)[i] = a \o b
  BY PiecesType
<1> HIDE DEF a, b
<1> DEFINE c == a \o b
<1>5. /\ c \in Seq(Units) /\ Len(c) = Len(a) + Len(b)
      /\ \A k \in 1 .. Len(a) : c[k] = a[k]
      /\ \A k \in 1 .. Len(b) : c[Len(a) + k] = b[k]
  <2>1. a \in Seq(Units) /\ b \in Seq(Units)
    BY <1>2, <1>3
  <2>2. c \in Seq(Units) /\ Len(c) = Len(a) + Len(b)
    BY <2>1, Joined
  <2>3. \A k \in 1 .. Len(a) : c[k] = a[k]
    BY ONLY <2>1, Joined
  <2>4. \A k \in 1 .. Len(b) : c[Len(a) + k] = b[k]
    BY ONLY <2>1, Joined
  <2> QED BY <2>2, <2>3, <2>4
<1> HIDE DEF c
<1>6. Len(c) = HeaderSize + reply[i].size
  BY <1>2, <1>3, <1>5
<1>7. \A j \in 1 .. HeaderSize : c[j] = HeaderUnit(reply[i])
  BY <1>2, <1>5
<1>8. \A j \in 1 .. reply[i].size : c[HeaderSize + j] = DataUnit(r, i, j)
  BY <1>2, <1>3, <1>5
<1>9. Pieces(r, reply)[i] = c
  BY <1>4 DEF c
<1> QED BY <1>1, <1>5, <1>6, <1>7, <1>8, <1>9

LEMMA EndIs ==
    ASSUME NEW r \in Reads, NEW reply \in Replies
    PROVE  /\ EndOf(r, reply, 0) = 0
           /\ EndOf(r, reply, Len(reply)) = Len(StreamOf(r, reply))
           /\ \A i \in 0 .. Len(reply) : /\ EndOf(r, reply, i) \in Nat
                                         /\ EndOf(r, reply, i) <= Len(StreamOf(r, reply))
           /\ \A i \in 0 .. Len(reply) - 1 :
                 EndOf(r, reply, i + 1) = EndOf(r, reply, i) + HeaderSize + reply[i + 1].size
           /\ StreamOf(r, reply) \in Seq(Units)
<1> DEFINE P == Pieces(r, reply)
           n == Len(reply)
<1>1. P \in Seq(Seq(Units)) /\ Len(P) = n /\ n \in Nat /\ StreamOf(r, reply) = FlattenSeq(P)
  BY PiecesType
<1> HIDE DEF P
<1>2. Upto(P, 0) = <<>> /\ Upto(P, n) = FlattenSeq(P)
  BY <1>1, UptoZero, UptoAll
<1>3. \A i \in 0 .. n : Upto(P, i) \in Seq(Units)
  BY <1>1, UptoType
<1>4. ASSUME NEW i \in 0 .. n PROVE Len(Upto(P, i)) <= Len(Upto(P, n))
  <2>1. n \in i .. Len(P) /\ i \in 0 .. Len(P)
    BY <1>1
  <2> QED BY <1>1, <2>1, UptoBegins
<1>5. ASSUME NEW i \in 0 .. n - 1
      PROVE  Len(Upto(P, i + 1)) = Len(Upto(P, i)) + HeaderSize + reply[i + 1].size
  <2>1. i + 1 \in 1 .. n /\ i \in 0 .. n /\ i \in 0 .. Len(P) - 1
    BY <1>1
  <2>2. Upto(P, i + 1) = Upto(P, i) \o P[i + 1]
    BY <1>1, <2>1, UptoNext
  <2>3. /\ P[i + 1] \in Seq(Units) /\ Len(P[i + 1]) = HeaderSize + reply[i + 1].size
        /\ reply[i + 1].size \in Nat
    BY <2>1, PieceIs DEF P
  <2>4. Len(Upto(P, i + 1)) = Len(Upto(P, i)) + Len(P[i + 1])
    BY <1>3, <2>1, <2>2, <2>3
  <2>5. Len(Upto(P, i)) \in Nat
    BY <1>3, <2>1
  <2> QED BY <2>3, <2>4, <2>5, FileAssumption
<1>6. \A i \in 0 .. n : Len(Upto(P, i)) \in Nat
  BY <1>3
<1>7. \A i \in 0 .. n : EndOf(r, reply, i) = Len(Upto(P, i))
  BY DEF EndOf, P
<1>8. 0 \in 0 .. n /\ n \in 0 .. n /\ \A i \in 0 .. n - 1 : i \in 0 .. n /\ i + 1 \in 0 .. n
  BY <1>1
<1>9. Len(<<>>) = 0
  OBVIOUS
<1> HIDE DEF n
<1> QED BY <1>1, <1>2, <1>3, <1>4, <1>5, <1>6, <1>7, <1>8, <1>9 DEF n

\* The units of a message in the stream.
LEMMA UnitsAre ==
    ASSUME NEW r \in Reads, NEW reply \in Replies, NEW i \in 0 .. Len(reply) - 1
    PROVE  LET e == EndOf(r, reply, i)
           IN  /\ \A j \in 1 .. HeaderSize :
                     StreamOf(r, reply)[e + j] = HeaderUnit(reply[i + 1])
               /\ \A j \in 1 .. reply[i + 1].size :
                     StreamOf(r, reply)[e + HeaderSize + j] = DataUnit(r, i + 1, j)
<1> DEFINE P == Pieces(r, reply)
           u == Upto(P, i)
           v == Upto(P, i + 1)
           p == P[i + 1]
           t == StreamOf(r, reply)
<1>1. P \in Seq(Seq(Units)) /\ Len(P) = Len(reply) /\ Len(reply) \in Nat /\ t = FlattenSeq(P)
  BY PiecesType
<1>2. i + 1 \in 1 .. Len(reply) /\ i \in Nat
  BY <1>1
<1>3. /\ p \in Seq(Units) /\ reply[i + 1].size \in Nat
      /\ Len(p) = HeaderSize + reply[i + 1].size
      /\ \A j \in 1 .. HeaderSize : p[j] = HeaderUnit(reply[i + 1])
      /\ \A j \in 1 .. reply[i + 1].size : p[HeaderSize + j] = DataUnit(r, i + 1, j)
  BY <1>2, PieceIs
<1>4. EndOf(r, reply, i) = Len(u)
  BY DEF EndOf
<1> HIDE DEF P
<1>5. u \in Seq(Units) /\ v = u \o p
  BY <1>1, <1>2, UptoType, UptoNext
<1>6. \A k \in 1 .. Len(v) : t[k] = v[k]
  <2>1. i + 1 \in 0 .. Len(P) /\ Len(P) \in i + 1 .. Len(P)
    BY <1>1, <1>2
  <2>2. t = Upto(P, Len(P))
    BY <1>1, UptoAll
  <2> QED BY <1>1, <2>1, <2>2, UptoBegins
<1> HIDE DEF u, v, p, t
<1>7. /\ Len(u) \in Nat /\ Len(v) = Len(u) + Len(p)
      /\ \A j \in 1 .. Len(p) : v[Len(u) + j] = p[j]
  BY <1>3, <1>5, Joined
<1>8. \A j \in 1 .. Len(p) : t[Len(u) + j] = p[j]
  <2> TAKE j \in 1 .. Len(p)
  <2>1. Len(u) + j \in 1 .. Len(v)
    BY <1>3, <1>7
  <2> QED BY <1>6, <1>7, <2>1
<1>9. HeaderSize \in Nat
  BY FileAssumption
<1>10. \A j \in 1 .. HeaderSize : t[Len(u) + j] = HeaderUnit(reply[i + 1])
  <2> TAKE j \in 1 .. HeaderSize
  <2>1. j \in 1 .. Len(p)
    BY <1>3, <1>9
  <2> QED BY <1>3, <1>8, <2>1
<1>11. \A j \in 1 .. reply[i + 1].size : t[Len(u) + HeaderSize + j] = DataUnit(r, i + 1, j)
  <2> TAKE j \in 1 .. reply[i + 1].size
  <2>1. HeaderSize + j \in 1 .. Len(p) /\ Len(u) + HeaderSize + j = Len(u) + (HeaderSize + j)
    BY <1>3, <1>7, <1>9
  <2> QED BY <1>3, <1>8, <2>1
<1> QED BY <1>4, <1>10, <1>11 DEF t

\* The contents with the messages that come before a DONE.
LEMMA ContentsNext ==
    ASSUME NEW r \in Reads, NEW reply \in Replies, NEW i \in 0 .. Len(reply) - 1,
           \A k \in 1 .. i : reply[k].id # "DONE", reply[i + 1].id = "DATA"
    PROVE  Upto(Contents(r, reply), i + 1)
             = Upto(Contents(r, reply), i) \o DataOf(r, i + 1, reply[i + 1].size)
<1>1. /\ Contents(r, reply) \in Seq(Seq(Units)) /\ Len(Contents(r, reply)) = Len(reply)
      /\ Len(reply) \in Nat
  BY PiecesType
<1>2. i + 1 \in 1 .. Len(reply) /\ \A k \in 1 .. i + 1 : k \in 1 .. i \/ k = i + 1
  BY <1>1
<1>3. Contents(r, reply)[i + 1] = DataOf(r, i + 1, reply[i + 1].size)
  BY <1>2 DEF Contents
<1> QED BY <1>1, <1>3, UptoNext

LEMMA ContentsDone ==
    ASSUME NEW r \in Reads, NEW reply \in Replies, NEW i \in 0 .. Len(reply) - 1,
           reply[i + 1].id = "DONE"
    PROVE  ContentsOf(r, reply) = Upto(Contents(r, reply), i)
<1>1. /\ Contents(r, reply) \in Seq(Seq(Units)) /\ Len(Contents(r, reply)) = Len(reply)
      /\ Len(reply) \in Nat /\ ContentsOf(r, reply) = FlattenSeq(Contents(r, reply))
  BY PiecesType
<1>2. \A k \in i + 1 .. Len(reply) : k \in 1 .. Len(reply) /\ i + 1 \in 1 .. k
  BY <1>1
<1>3. \A k \in i + 1 .. Len(reply) : Contents(r, reply)[k] = <<>>
  BY <1>2 DEF Contents
<1>4. i \in 0 .. Len(Contents(r, reply))
  BY <1>1
<1> QED BY <1>1, <1>3, <1>4, UptoEmpty

\* s is the beginning of t.
Begins(s, t) == Len(s) <= Len(t) /\ \A k \in 1 .. Len(s) : t[k] = s[k]
LEMMA BeginsPrefix ==
    ASSUME NEW S, NEW s \in Seq(S), NEW t \in Seq(S), Begins(s, t)
    PROVE  IsPrefix(s, t)
<1> DEFINE a == SubSeq(s, 1, Len(s))
           b == SubSeq(t, 1, Len(s))
<1>1. a \in Seq(S) /\ Len(a) = Len(s) /\ \A k \in 1 .. Len(s) : a[k] = s[k]
  OBVIOUS
<1>2. b \in Seq(S) /\ Len(b) = Len(s) /\ \A k \in 1 .. Len(s) : b[k] = t[k]
  BY DEF Begins
<1> HIDE DEF a, b
<1>3. a = b
  BY <1>1, <1>2 DEF Begins
<1> QED BY <1>3 DEF IsPrefix, Begins, a, b

LEMMA ContentsPrefix ==
    ASSUME NEW r \in Reads, NEW reply \in Replies, NEW i \in 0 .. Len(reply)
    PROVE  /\ Upto(Contents(r, reply), i) \in Seq(Units)
           /\ ContentsOf(r, reply) \in Seq(Units)
           /\ Begins(Upto(Contents(r, reply), i), ContentsOf(r, reply))
<1> DEFINE C == Contents(r, reply)
<1>1. /\ C \in Seq(Seq(Units)) /\ Len(C) = Len(reply)
      /\ Len(reply) \in Nat /\ ContentsOf(r, reply) = FlattenSeq(C)
  BY PiecesType
<1> HIDE DEF C
<1>2. i \in 0 .. Len(C) /\ Len(C) \in i .. Len(C) /\ Len(C) \in 0 .. Len(C)
  BY <1>1
<1>3. ContentsOf(r, reply) = Upto(C, Len(C))
  BY <1>1, UptoAll
<1>4. Upto(C, i) \in Seq(Units) /\ Upto(C, Len(C)) \in Seq(Units)
  BY <1>1, <1>2, UptoType
<1>5. Begins(Upto(C, i), Upto(C, Len(C)))
  BY <1>1, <1>2, UptoBegins DEF Begins
<1> QED BY <1>3, <1>4, <1>5 DEF C

\* So far n units of message i + 1 were handed on.
LEMMA PartPrefix ==
    ASSUME NEW r \in Reads, NEW reply \in Replies, NEW i \in 0 .. Len(reply) - 1,
           \A k \in 1 .. i : reply[k].id # "DONE", reply[i + 1].id = "DATA",
           NEW n \in 0 .. reply[i + 1].size
    PROVE  IsPrefix(Upto(Contents(r, reply), i) \o DataOf(r, i + 1, n),
                    ContentsOf(r, reply))
<1> DEFINE u == Upto(Contents(r, reply), i)
           v == Upto(Contents(r, reply), i + 1)
           d == DataOf(r, i + 1, n)
           e == DataOf(r, i + 1, reply[i + 1].size)
           c == ContentsOf(r, reply)
<1>1. Len(reply) \in Nat /\ i + 1 \in 1 .. Len(reply) /\ reply[i + 1].size \in Nat
  <2>1. Len(reply) \in Nat
    BY PiecesType
  <2>2. i + 1 \in 1 .. Len(reply)
    BY <2>1
  <2> QED BY <2>1, <2>2, PieceIs
<1>2. /\ i \in 0 .. Len(reply) /\ i + 1 \in 0 .. Len(reply) /\ i + 1 \in Nat /\ n \in Nat
      /\ n <= reply[i + 1].size
  BY <1>1
<1>3. u \in Seq(Units) /\ v \in Seq(Units) /\ c \in Seq(Units) /\ Begins(v, c)
  BY <1>2, ContentsPrefix
<1>4. v = u \o e
  BY ContentsNext
<1>5. /\ d \in Seq(Units) /\ Len(d) = n /\ \A j \in 1 .. n : d[j] = DataUnit(r, i + 1, j)
      /\ e \in Seq(Units) /\ Len(e) = reply[i + 1].size
      /\ \A j \in 1 .. reply[i + 1].size : e[j] = DataUnit(r, i + 1, j)
  BY <1>1, <1>2, DataType
<1> HIDE DEF u, v, d, e, c
<1>6. \A j \in 1 .. n : e[j] = d[j]
  BY <1>1, <1>2, <1>5
<1>7. u \o d \in Seq(Units) /\ Begins(u \o d, v)
  <2> DEFINE w == u \o d
  <2>1. w \in Seq(Units) /\ Len(w) = Len(u) + Len(d) /\ Len(u) \in Nat
    BY <1>3, <1>5, Joined
  <2>0. u \in Seq(Units) /\ d \in Seq(Units)
    BY <1>3, <1>5
  <2>2. \A k \in 1 .. Len(u) : w[k] = u[k]
    BY ONLY <2>0, JoinedUnits
  <2>3. \A k \in 1 .. Len(d) : w[Len(u) + k] = d[k]
    BY ONLY <2>0, JoinedUnits
  <2>4. Len(v) = Len(u) + Len(e)
    BY <1>3, <1>4, <1>5, Joined
  <2>5. \A k \in 1 .. Len(u) : v[k] = u[k]
    BY ONLY <1>3, <1>4, <1>5, Joined
  <2>6. \A k \in 1 .. Len(e) : v[Len(u) + k] = e[k]
    BY ONLY <1>3, <1>4, <1>5, Joined
  <2> HIDE DEF w
  <2>7. Len(w) <= Len(v) /\ Len(w) = Len(u) + n
    BY <1>1, <1>2, <1>5, <2>1, <2>4
  <2>8. ASSUME NEW k \in 1 .. Len(w) PROVE v[k] = w[k]
    <3>1. CASE k <= Len(u)
      <4>1. k \in 1 .. Len(u)
        BY <2>1, <3>1
      <4> QED BY <2>2, <2>5, <4>1
    <3>2. CASE ~(k <= Len(u))
      <4> DEFINE j == k - Len(u)
      <4>1. j \in 1 .. n /\ Len(u) + j = k
        BY <1>2, <2>1, <2>7, <3>2
      <4>2. j \in 1 .. Len(e) /\ j \in 1 .. Len(d)
        BY <1>1, <1>2, <1>5, <4>1
      <4> HIDE DEF j
      <4> QED BY <1>6, <2>3, <2>6, <4>1, <4>2
    <3> QED BY <3>1, <3>2
  <2> QED BY <2>1, <2>7, <2>8 DEF Begins, w
<1>8. Begins(u \o d, c)
  <2> DEFINE w == u \o d
  <2>1. Len(w) \in Nat /\ Len(v) \in Nat /\ Len(c) \in Nat
    BY <1>3, <1>7
  <2> HIDE DEF w
  <2> QED BY <1>3, <1>7, <2>1 DEF Begins, w
<1> QED BY <1>3, <1>7, <1>8, BeginsPrefix DEF u, d, c

LEMMA FromAt ==
    ASSUME NEW S, NEW t \in Seq(S), NEW p \in Nat
    PROVE  LET f == From(t, p)
           IN  /\ f \in Seq(S) /\ Len(f) = IF p <= Len(t) THEN Len(t) - p ELSE 0
               /\ \A k \in 1 .. Len(f) : f[k] = t[p + k]
<1> DEFINE f == From(t, p)
<1>1. Len(t) \in Nat
  OBVIOUS
<1>2. CASE p <= Len(t)
  <2>1. f \in Seq(S) /\ Len(f) = Len(t) - p
    BY <1>2 DEF From
  <2>2. ASSUME NEW k \in 1 .. Len(t) - p PROVE f[k] = t[p + k]
    BY <1>1, <1>2 DEF From
  <2> HIDE DEF f
  <2>3. \A k \in 1 .. Len(f) : f[k] = t[p + k]
    BY <2>1, <2>2
  <2> QED BY <1>2, <2>1, <2>3 DEF f
<1>3. CASE ~(p <= Len(t))
  <2>1. f = <<>>
    BY <1>1, <1>3 DEF From
  <2> HIDE DEF f
  <2>2. f \in Seq(S) /\ Len(f) = 0
    BY <2>1
  <2> QED BY <1>3, <2>2 DEF f
<1> QED BY <1>2, <1>3

\* Of the units d in hand, with those of w still to come, n are taken.
Taken(t, d, w, p, n, S) ==
    /\ From(d, n) \in Seq(S) /\ From(d, n) \o w = From(t, p + n)
    /\ n > 0 => p + n <= Len(t)
    /\ SubSeq(d, 1, n) \in Seq(S) /\ Len(SubSeq(d, 1, n)) = n
    /\ \A k \in 1 .. n : SubSeq(d, 1, n)[k] = t[p + k] /\ d[k] = t[p + k]
LEMMA Takes ==
    ASSUME NEW S, NEW t \in Seq(S), NEW d \in Seq(S), NEW w \in Seq(S), NEW p \in Nat,
           d \o w = From(t, p), NEW n \in 0 .. Len(d)
    PROVE  Taken(t, d, w, p, n, S)
<1> DEFINE a == From(d, n)
           b == SubSeq(d, 1, n)
           f == From(t, p)
           g == From(t, p + n)
<1>1. Len(d) \in Nat /\ Len(w) \in Nat /\ Len(t) \in Nat /\ n \in Nat /\ n <= Len(d)
  OBVIOUS
<1>2. /\ a \in Seq(S) /\ Len(a) = Len(d) - n
      /\ \A k \in 1 .. Len(d) - n : a[k] = d[n + k]
  BY <1>1 DEF From
<1>3. b \in Seq(S) /\ Len(b) = n /\ \A k \in 1 .. n : b[k] = d[k]
  BY <1>1
<1>4. /\ f \in Seq(S) /\ Len(f) = IF p <= Len(t) THEN Len(t) - p ELSE 0
      /\ \A k \in 1 .. Len(f) : f[k] = t[p + k]
  BY FromAt
<1>5. /\ g \in Seq(S) /\ Len(g) = IF p + n <= Len(t) THEN Len(t) - (p + n) ELSE 0
      /\ \A k \in 1 .. Len(g) : g[k] = t[p + n + k]
  <2>1. p + n \in Nat
    BY <1>1
  <2> QED BY <2>1, FromAt
<1>6. /\ Len(f) = Len(d) + Len(w)
      /\ \A k \in 1 .. Len(d) : f[k] = d[k]
      /\ \A k \in 1 .. Len(w) : f[Len(d) + k] = w[k]
  <2>1. f = d \o w
    OBVIOUS
  <2> HIDE DEF f
  <2> QED BY <1>1, <2>1, Joined
<1> HIDE DEF a, b, f, g
<1>7. n > 0 => p + n <= Len(t)
  <2> SUFFICES ASSUME n > 0 PROVE p + n <= Len(t)
    OBVIOUS
  <2>1. Len(f) > 0 /\ n <= Len(f)
    BY <1>1, <1>6
  <2>2. Len(f) = Len(t) - p
    BY <1>1, <1>4, <2>1
  <2> QED BY <1>1, <2>1, <2>2
<1>8. \A k \in 1 .. n : b[k] = t[p + k] /\ d[k] = t[p + k]
  <2> TAKE k \in 1 .. n
  <2>1. k \in 1 .. Len(d) /\ k \in 1 .. Len(f)
    BY <1>1, <1>6
  <2> QED BY <1>3, <1>4, <1>6, <2>1
<1>9. a \o w = g
  <2> DEFINE h == a \o w
  <2>1. /\ h \in Seq(S) /\ Len(h) = Len(d) - n + Len(w)
        /\ \A k \in 1 .. Len(d) - n : h[k] = a[k]
        /\ \A k \in 1 .. Len(w) : h[Len(d) - n + k] = w[k]
    <3>1. /\ h \in Seq(S) /\ Len(h) = Len(a) + Len(w)
          /\ \A k \in 1 .. Len(a) : h[k] = a[k]
          /\ \A k \in 1 .. Len(w) : h[Len(a) + k] = w[k]
      <4>1. a \in Seq(S) /\ w \in Seq(S)
        BY <1>2
      <4>2. h \in Seq(S) /\ Len(h) = Len(a) + Len(w)
        BY <4>1, Joined
      <4>3. \A k \in 1 .. Len(a) : h[k] = a[k]
        BY ONLY <4>1, Joined
      <4>4. \A k \in 1 .. Len(w) : h[Len(a) + k] = w[k]
        BY ONLY <4>1, Joined
      <4> QED BY <4>2, <4>3, <4>4
    <3> HIDE DEF h
    <3> QED BY <1>2, <3>1
  <2> HIDE DEF h
  <2>2. Len(h) = Len(g)
    <3>1. CASE p + n <= Len(t)
      <4>1. p <= Len(t) /\ Len(f) = Len(t) - p /\ Len(g) = Len(t) - (p + n)
        BY <1>1, <1>4, <1>5, <3>1
      <4> QED BY <1>1, <1>6, <2>1, <4>1
    <3>2. CASE ~(p + n <= Len(t))
      <4>1. n = 0 /\ Len(g) = 0 /\ ~(p <= Len(t))
        BY <1>1, <1>5, <1>7, <3>2
      <4>2. Len(f) = 0
        BY <1>4, <4>1
      <4>3. Len(d) + Len(w) = 0 /\ Len(h) = Len(d) - 0 + Len(w)
        BY <1>6, <2>1, <4>1, <4>2
      <4> QED BY <1>1, <4>1, <4>3
    <3> QED BY <3>1, <3>2
  <2>3. ASSUME NEW k \in 1 .. Len(h) PROVE h[k] = g[k]
    <3>1. k \in Nat /\ n + k \in 1 .. Len(f) /\ p + n + k = p + (n + k) /\ k \in 1 .. Len(g)
      BY <1>1, <1>6, <2>1, <2>2
    <3>2. g[k] = f[n + k]
      BY <1>4, <1>5, <3>1
    <3>3. CASE k <= Len(d) - n
      <4>1. n + k \in 1 .. Len(d) /\ k \in 1 .. Len(d) - n
        BY <1>1, <3>1, <3>3
      <4> QED BY <1>2, <1>6, <2>1, <3>2, <4>1
    <3>4. CASE k > Len(d) - n
      <4> DEFINE j == k - (Len(d) - n)
      <4>1. j \in 1 .. Len(w) /\ n + k = Len(d) + j /\ k = Len(d) - n + j
        BY <1>1, <2>1, <3>1, <3>4
      <4> HIDE DEF j
      <4> QED BY <1>6, <2>1, <3>2, <4>1
    <3> QED BY <1>1, <3>1, <3>3, <3>4
  <2>4. h = g
    <3>1. h \in Seq(S) /\ g \in Seq(S) /\ Len(h) = Len(g)
      BY <1>5, <2>1, <2>2
    <3>2. h = [k \in 1 .. Len(h) |-> h[k]] /\ g = [k \in 1 .. Len(g) |-> g[k]]
      BY <3>1
    <3> QED BY <2>3, <3>1, <3>2
  <2> QED BY <2>4 DEF h
<1> QED BY <1>2, <1>3, <1>7, <1>8, <1>9 DEF a, b, g, Taken

----------------------------------------------------------------------------
(* What the callback's steps do to a slot.                                 *)

LEMMA NoReply == \A r : StreamOf(r, <<>>) = <<>> /\ ContentsOf(r, <<>>) = <<>>
<1> TAKE r
<1> DEFINE P == Pieces(r, <<>>)
           C == Contents(r, <<>>)
<1>1. Len(<<>>) = 0
  OBVIOUS
<1>2. P = <<>> /\ C = <<>>
  BY DEF Pieces, Contents
<1>3. FlattenSeq(<<>>) = <<>>
  BY <1>1 DEF FlattenSeq
<1>4. StreamOf(r, <<>>) = FlattenSeq(P)
  BY DEF StreamOf, Pieces, HeaderOf, DataOf
<1>5. ContentsOf(r, <<>>) = FlattenSeq(C)
  BY DEF ContentsOf, Contents, DataOf
<1> QED BY <1>2, <1>3, <1>4, <1>5

LEMMA FromIs ==
    ASSUME NEW S, NEW t \in Seq(S)
    PROVE  /\ From(t, 0) = t /\ From(t, Len(t)) = <<>>
           /\ \A n \in 0 .. Len(t) : /\ SubSeq(t, 1, n) \in Seq(S) /\ From(t, n) \in Seq(S)
                                     /\ SubSeq(t, 1, n) \o From(t, n) = t
<1>1. \A n \in 0 .. Len(t) : /\ SubSeq(t, 1, n) \in Seq(S) /\ From(t, n) \in Seq(S)
                             /\ Len(SubSeq(t, 1, n)) = n /\ Len(From(t, n)) = Len(t) - n
                             /\ \A k \in 1 .. n : SubSeq(t, 1, n)[k] = t[k]
                             /\ \A k \in 1 .. Len(t) - n : From(t, n)[k] = t[n + k]
  BY DEF From
<1>2. From(t, 0) = t
  BY DEF From
<1>3. From(t, Len(t)) = <<>>
  <2>1. Len(t) \in 0 .. Len(t)
    OBVIOUS
  <2>2. Len(From(t, Len(t))) = 0 /\ From(t, Len(t)) \in Seq(S)
    BY <1>1, <2>1
  <2> QED BY <2>2
<1>4. ASSUME NEW n \in 0 .. Len(t) PROVE SubSeq(t, 1, n) \o From(t, n) = t
  <2> DEFINE a == SubSeq(t, 1, n)
             b == From(t, n)
             h == a \o b
  <2>1. /\ a \in Seq(S) /\ b \in Seq(S) /\ Len(a) = n /\ Len(b) = Len(t) - n
        /\ \A k \in 1 .. n : a[k] = t[k]
        /\ \A k \in 1 .. Len(t) - n : b[k] = t[n + k]
    BY <1>1
  <2> HIDE DEF a, b
  <2>2. h \in Seq(S) /\ Len(h) = Len(a) + Len(b)
    BY <2>1, Joined
  <2>3. \A k \in 1 .. Len(a) : h[k] = a[k]
    BY ONLY <2>1, Joined
  <2>4. \A k \in 1 .. Len(b) : h[Len(a) + k] = b[k]
    BY ONLY <2>1, Joined
  <2> HIDE DEF h
  <2>5. ASSUME NEW k \in 1 .. Len(t) PROVE h[k] = t[k]
    <3>1. CASE k <= n
      <4>1. k \in 1 .. n
        BY <3>1
      <4> QED BY <2>1, <2>3, <4>1
    <3>2. CASE ~(k <= n)
      <4> DEFINE j == k - n
      <4>1. j \in 1 .. Len(t) - n /\ n + j = k
        BY <3>2
      <4> HIDE DEF j
      <4> QED BY <2>1, <2>4, <4>1
    <3> QED BY <3>1, <3>2
  <2>6. Len(h) = Len(t)
    BY <2>1, <2>2
  <2>7. h = [k \in 1 .. Len(h) |-> h[k]] /\ t = [k \in 1 .. Len(t) |-> t[k]]
    BY <2>2
  <2>8. h = t
    BY <2>5, <2>6, <2>7
  <2> QED BY <2>8 DEF h, a, b
<1> QED BY <1>1, <1>2, <1>3, <1>4

LEMMA EmptyJoins ==
    ASSUME NEW S, NEW t \in Seq(S)
    PROVE  <<>> \o t = t /\ t \o <<>> = t
OBVIOUS

LEMMA JoinsTwice ==
    ASSUME NEW S, NEW u \in Seq(S), NEW v \in Seq(S), NEW w \in Seq(S)
    PROVE  (u \o v) \o w = u \o (v \o w)
OBVIOUS

LEMMA UnitsJoinTwice ==
    ASSUME NEW u \in Seq(Units), NEW v \in Seq(Units), NEW w \in Seq(Units)
    PROVE  (u \o v) \o w = u \o (v \o w)
BY JoinsTwice

\* More of the data of a message.
LEMMA DataJoins ==
    ASSUME NEW r \in Reads, NEW i \in Nat, NEW n \in Nat, NEW b \in Seq(Units),
           \A k \in 1 .. Len(b) : b[k] = DataUnit(r, i, n + k)
    PROVE  DataOf(r, i, n) \o b = DataOf(r, i, n + Len(b))
<1> DEFINE a == DataOf(r, i, n)
           e == DataOf(r, i, n + Len(b))
           h == a \o b
<1>1. Len(b) \in Nat /\ n + Len(b) \in Nat
  OBVIOUS
<1>2. /\ a \in Seq(Units) /\ Len(a) = n /\ \A k \in 1 .. n : a[k] = DataUnit(r, i, k)
      /\ e \in Seq(Units) /\ Len(e) = n + Len(b)
      /\ \A k \in 1 .. n + Len(b) : e[k] = DataUnit(r, i, k)
  BY <1>1, DataType
<1> HIDE DEF a, e
<1>3. h \in Seq(Units) /\ Len(h) = Len(a) + Len(b)
  BY <1>2, Joined
<1>4. \A k \in 1 .. Len(a) : h[k] = a[k]
  BY ONLY <1>2, b \in Seq(Units), Joined
<1>5. \A k \in 1 .. Len(b) : h[Len(a) + k] = b[k]
  BY ONLY <1>2, b \in Seq(Units), Joined
<1> HIDE DEF h
<1>6. ASSUME NEW k \in 1 .. n + Len(b) PROVE h[k] = e[k]
  <2>1. CASE k <= n
    <3>1. k \in 1 .. n
      BY <2>1, <1>1
    <3> QED BY <1>2, <1>4, <3>1
  <2>2. CASE ~(k <= n)
    <3> DEFINE j == k - n
    <3>1. j \in 1 .. Len(b) /\ n + j = k
      BY <2>2, <1>1
    <3> HIDE DEF j
    <3> QED BY <1>2, <1>5, <3>1
  <2> QED BY <2>1, <2>2
<1>7. Len(h) = Len(e) /\ Len(e) = n + Len(b)
  BY <1>2, <1>3
<1>8. h = [k \in 1 .. Len(h) |-> h[k]] /\ e = [k \in 1 .. Len(e) |-> e[k]]
  BY <1>2, <1>3
<1>9. h = e
  BY <1>6, <1>7, <1>8
<1> QED BY <1>9 DEF h, a, e

\* What a slot's read was handed is the beginning of its contents.
LEMMA SlotHands ==
    ASSUME NEW f, f.func \in Reads, NEW x, NEW d, NEW w, NEW c, SlotAt(f, x, d, w, c)
    PROVE  /\ IsPrefix(x.got, ContentsOf(f.func, x.reply))
           /\ x.got \in Seq(Units)
<1> DEFINE r == f.func
<1>1. CASE Waiting(f, x, d, w, c)
  <2>1. x.got = <<>> /\ x.reply = <<>> /\ ContentsOf(r, x.reply) = <<>>
    BY <1>1, NoReply DEF Waiting
  <2>2. <<>> \in Seq(Units) /\ Begins(<<>>, <<>>)
    BY DEF Begins
  <2> QED BY <2>1, <2>2, BeginsPrefix
<1>2. CASE Parsing(f, x, d \o w, c)
  <2>1. PICK i \in 0 .. Len(x.reply) :
            (\A k \in 1 .. i : x.reply[k].id # "DONE") /\ At(f, x, d \o w, i)
    BY <1>2 DEF Parsing
  <2>2. x.reply \in Replies /\ Len(x.reply) \in Nat
    BY <1>2, PiecesType DEF Parsing
  <2> DEFINE C == Upto(Contents(r, x.reply), i)
  <2>3. /\ C \in Seq(Units) /\ ContentsOf(r, x.reply) \in Seq(Units)
        /\ Begins(C, ContentsOf(r, x.reply))
    BY <2>2, ContentsPrefix
  <2>4. CASE x.got = C
    BY <2>3, <2>4, BeginsPrefix
  <2>5. CASE InData(f, x, d \o w, i)
    <3> DEFINE n == x.reply[i + 1].size - f.remain
    <3>1. /\ i < Len(x.reply) /\ x.got = C \o DataOf(r, i + 1, n)
          /\ f.remain \in 0 .. x.reply[i + 1].size
          /\ x.reply[i + 1].id \in {"DATA", "DONE"}
      BY <2>5 DEF InData
    <3>2. i \in 0 .. Len(x.reply) - 1 /\ i + 1 \in 1 .. Len(x.reply) /\ i + 1 \in Nat
      BY <2>2, <3>1
    <3>3. x.reply[i + 1].size \in Nat
      BY <2>2, <3>2, PieceIs
    <3>4. n \in 0 .. x.reply[i + 1].size /\ n \in Nat
      BY <3>1, <3>3
    <3> HIDE DEF n, C
    <3>5. DataOf(r, i + 1, n) \in Seq(Units)
      BY <3>2, <3>4, DataType
    <3>6. x.got \in Seq(Units)
      BY <2>3, <3>1, <3>5
    <3>7. CASE x.reply[i + 1].id = "DATA"
      <4>1. IsPrefix(C \o DataOf(r, i + 1, n), ContentsOf(r, x.reply))
        BY <2>1, <2>2, <3>2, <3>4, <3>7, PartPrefix DEF C
      <4> QED BY <3>1, <3>6, <4>1
    <3>8. CASE x.reply[i + 1].id = "DONE"
      <4>1. x.reply[i + 1].size = 0
        BY <2>2, <3>2, <3>8, FileAssumption
      <4>2. n = 0
        BY <3>4, <4>1
      <4>3. DataOf(r, i + 1, n) = <<>>
        BY <4>2 DEF DataOf
      <4>4. x.got = C
        BY <2>3, <3>1, <4>3
      <4> QED BY <2>3, <4>4, BeginsPrefix
    <3> QED BY <3>1, <3>7, <3>8
  <2> QED BY <2>1, <2>4, <2>5 DEF At, InHeader, InFailData
<1> QED BY <1>1, <1>2 DEF SlotAt

LEMMA Asked ==
    ASSUME NEW f, NEW g, NEW x, NEW w, NEW c, SlotAt(f, x, <<>>, w, c),
           f.state = "WAIT_OPEN", g.state = "WAIT_HEADER", g.remain = HeaderSize
    PROVE  SlotAt(g, x, <<>>, w, "BUSY")
<1>1. Waiting(f, x, <<>>, w, c)
  BY DEF SlotAt, Parsing, At, InHeader, InData, InFailData
<1>2. HeaderSize \in 1 .. HeaderSize
  BY FileAssumption
<1> QED BY <1>1, <1>2 DEF SlotAt, Waiting

LEMMA Answered ==
    ASSUME NEW f, f.func \in Reads, NEW x, NEW y, NEW w, SlotAt(f, x, <<>>, w, "BUSY"),
           NEW reply \in Replies, y.reply = reply, y.got = x.got
    PROVE  SlotAt(f, y, <<>>, StreamOf(f.func, reply), "IDLE")
<1> DEFINE t == StreamOf(f.func, reply)
<1>1. Waiting(f, x, <<>>, w, "BUSY")
  BY DEF SlotAt, Parsing
<1>2. f.state = "WAIT_HEADER" /\ f.remain = HeaderSize /\ x.got = <<>>
  BY <1>1 DEF Waiting
<1>3. t \in Seq(Units) /\ <<>> \in Seq(Units)
  BY EndIs
<1>4. CASE reply = <<>>
  <2>1. t = <<>>
    BY <1>4, NoReply
  <2>2. HeaderSize \in 1 .. HeaderSize
    BY FileAssumption
  <2> QED BY <1>2, <1>3, <1>4, <2>1, <2>2 DEF SlotAt, Waiting
<1>5. CASE reply # <<>>
  <2>1. /\ Len(reply) \in Nat /\ 0 \in 0 .. Len(reply)
        /\ Contents(f.func, reply) \in Seq(Seq(Units))
    BY PiecesType
  <2>2. Upto(Contents(f.func, reply), 0) = <<>>
    BY <2>1, UptoZero
  <2>3. EndOf(f.func, reply, 0) + (HeaderSize - f.remain) = 0
    BY <1>2, EndIs, FileAssumption
  <2>4. <<>> \o t = t /\ From(t, 0) = t
    BY <1>3, EmptyJoins, FromIs
  <2>5. HeaderSize \in 1 .. HeaderSize
    BY FileAssumption
  <2>6. InHeader(f, y, <<>> \o t, 0)
    BY <1>2, <2>2, <2>3, <2>4, <2>5 DEF InHeader
  <2>7. \A k \in 1 .. 0 : y.reply[k].id # "DONE"
    OBVIOUS
  <2>8. Parsing(f, y, <<>> \o t, "IDLE")
    BY <1>5, <2>1, <2>6, <2>7 DEF Parsing, At
  <2> QED BY <1>3, <2>8 DEF SlotAt
<1> QED BY <1>4, <1>5

LEMMA Delivered ==
    ASSUME NEW f, NEW x, NEW w, NEW c, SlotAt(f, x, <<>>, w, c), NEW n \in 1 .. Len(w)
    PROVE  SlotAt(f, x, SubSeq(w, 1, n), From(w, n), c)
<1>1. w \in Seq(Units) /\ n \in 0 .. Len(w) /\ Len(w) # 0
  BY DEF SlotAt
<1>2. Parsing(f, x, <<>> \o w, c)
  <2>1. w # <<>>
    BY <1>1
  <2> QED BY <2>1 DEF SlotAt, Waiting
<1>3. <<>> \o w = w
  BY <1>1, EmptyJoins
<1>4. /\ SubSeq(w, 1, n) \in Seq(Units) /\ From(w, n) \in Seq(Units)
      /\ SubSeq(w, 1, n) \o From(w, n) = w
  BY <1>1, FromIs
<1> QED BY <1>2, <1>3, <1>4 DEF SlotAt

Unknown == HeaderUnit([id |-> "BAD", size |-> 0])
LEMMA SpokenTo ==
    ASSUME NEW f, NEW x, NEW w, NEW c, SlotAt(f, x, <<>>, w, c), c # "BUSY",
           x.reply = <<>>
    PROVE  SlotAt(f, x, <<Unknown>>, w, c)
<1> DEFINE m == [id |-> "BAD", size |-> 0]
<1>0. m \in Message /\ m.id = "BAD" /\ Unknown = HeaderUnit(m)
  BY DEF Unknown, Message
<1> HIDE DEF m
<1>1. Unknown \in Units /\ Unknown.id = "BAD"
  <2>1. HeaderUnit(m).id = m.id
    BY DEF HeaderUnit
  <2> QED BY <1>0, <2>1 DEF Units
<1>2. Waiting(f, x, <<>>, w, c)
  BY DEF SlotAt, Parsing
<1>3. <<Unknown>> \in Seq(Units) /\ \A k \in 1 .. Len(<<Unknown>>) : <<Unknown>>[k].id = "BAD"
  BY <1>1
<1> QED BY <1>2, <1>3 DEF SlotAt, Waiting

\* Where a slot is once n of the units in hand are taken: message i + 1, whose
\* header the last of them may be.
HeaderAt(f, x, d, w, n, i) ==
    /\ \A k \in 1 .. i : x.reply[k].id # "DONE"
    /\ InHeader(f, x, d \o w, i)
    /\ x.reply \in Replies /\ Len(x.reply) \in Nat
    /\ From(d, n) \in Seq(Units)
    /\ From(d, n) \o w = From(StreamOf(f.func, x.reply),
          EndOf(f.func, x.reply, i) + (HeaderSize - f.remain) + n)
    /\ n = f.remain => i < Len(x.reply) /\ d[n] = HeaderUnit(x.reply[i + 1])

LEMMA AtHeader ==
    ASSUME NEW f, f.func \in Reads, NEW x, NEW d, NEW w, NEW c, SlotAt(f, x, d, w, c),
           f.state = "WAIT_HEADER", Parsing(f, x, d \o w, c), NEW n \in 0 .. Len(d)
    PROVE  \E i \in 0 .. Len(x.reply) : HeaderAt(f, x, d, w, n, i)
<1> DEFINE r == f.func
           t == StreamOf(r, x.reply)
<1>1. PICK i \in 0 .. Len(x.reply) :
          (\A k \in 1 .. i : x.reply[k].id # "DONE") /\ InHeader(f, x, d \o w, i)
  BY DEF Parsing, At, InData, InFailData
<1>2. x.reply \in Replies /\ Len(x.reply) \in Nat /\ i \in Nat
  BY PiecesType DEF Parsing
<1> DEFINE p == EndOf(r, x.reply, i) + (HeaderSize - f.remain)
<1>3. /\ d \in Seq(Units) /\ w \in Seq(Units) /\ f.remain \in 1 .. HeaderSize
      /\ d \o w = From(t, p)
  BY <1>1 DEF SlotAt, InHeader
<1>4. /\ t \in Seq(Units) /\ EndOf(r, x.reply, i) \in Nat
      /\ EndOf(r, x.reply, Len(x.reply)) = Len(t)
  BY <1>2, EndIs
<1>5. p \in Nat
  BY <1>3, <1>4, FileAssumption
<1> HIDE DEF p, t
<1>6. /\ From(d, n) \in Seq(Units) /\ From(d, n) \o w = From(t, p + n)
      /\ n > 0 => p + n <= Len(t)
      /\ \A k \in 1 .. n : d[k] = t[p + k]
  <2>1. d \in Seq(Units) /\ w \in Seq(Units) /\ t \in Seq(Units) /\ p \in Nat
        /\ d \o w = From(t, p) /\ n \in 0 .. Len(d)
    BY <1>3, <1>4, <1>5
  <2>2. Taken(t, d, w, p, n, Units)
    BY ONLY <2>1, Takes
  <2> QED BY <2>2 DEF Taken
<1>7. ASSUME n = f.remain PROVE i < Len(x.reply) /\ d[n] = HeaderUnit(x.reply[i + 1])
  <2>1. p + n = EndOf(r, x.reply, i) + HeaderSize /\ n \in 1 .. n /\ n > 0
        /\ HeaderSize \in 1 .. HeaderSize /\ HeaderSize > 0 /\ HeaderSize \in Nat
    BY <1>3, <1>4, <1>7, FileAssumption DEF p
  <2>2. i < Len(x.reply)
    <3>1. SUFFICES ASSUME i = Len(x.reply) PROVE FALSE
      BY <1>2
    <3> QED BY <1>4, <1>6, <2>1, <3>1
  <2>3. i \in 0 .. Len(x.reply) - 1
    BY <1>2, <2>2
  <2>4. t[EndOf(r, x.reply, i) + HeaderSize] = HeaderUnit(x.reply[i + 1])
    BY <1>2, <2>1, <2>3, UnitsAre DEF t
  <2> QED BY <1>6, <2>1, <2>2, <2>4
<1> QED BY <1>1, <1>2, <1>6, <1>7 DEF p, t, HeaderAt

LEMMA HeaderRead ==
    ASSUME NEW f, f.func \in Reads, NEW x, NEW d, NEW w, NEW c, SlotAt(f, x, d, w, c),
           f.state = "WAIT_HEADER", Len(d) >= f.remain, d[f.remain].id # "BAD",
           NEW g, g.func = f.func, g.id = d[f.remain].id, g.remain = d[f.remain].size,
           g.state = IF d[f.remain].id = "FAIL" THEN "WAIT_FAIL_DATA" ELSE "WAIT_DATA"
    PROVE  SlotAt(g, x, From(d, f.remain), w, c)
<1>1. d \in Seq(Units) /\ w \in Seq(Units) /\ f.remain \in 1 .. HeaderSize
  BY DEF SlotAt, Waiting, Parsing, At, InHeader, InData, InFailData
<1>2. f.remain \in 1 .. Len(d) /\ f.remain \in 0 .. Len(d)
  BY <1>1, FileAssumption
<1>3. Parsing(f, x, d \o w, c)
  BY <1>2 DEF SlotAt, Waiting
<1> DEFINE n == f.remain
           r == f.func
<1>4. PICK i \in 0 .. Len(x.reply) :
              /\ \A k \in 1 .. i : x.reply[k].id # "DONE"
              /\ InHeader(f, x, d \o w, i)
              /\ x.reply \in Replies /\ Len(x.reply) \in Nat
              /\ From(d, n) \in Seq(Units)
              /\ From(d, n) \o w = From(StreamOf(f.func, x.reply),
                    EndOf(f.func, x.reply, i) + (HeaderSize - f.remain) + n)
              /\ i < Len(x.reply) /\ d[n] = HeaderUnit(x.reply[i + 1])
  <2>1. PICK i \in 0 .. Len(x.reply) : HeaderAt(f, x, d, w, n, i)
    BY <1>2, <1>3, AtHeader
  <2> QED BY <2>1 DEF HeaderAt
<1>5. /\ i \in 0 .. Len(x.reply) - 1 /\ i + 1 \in 1 .. Len(x.reply) /\ i + 1 \in Nat
  BY <1>4
<1>6. x.reply[i + 1] \in Message /\ x.reply[i + 1].size \in Nat
  BY <1>4, <1>5, PiecesType DEF Message
<1>7. d[n].id = x.reply[i + 1].id /\ d[n].size = x.reply[i + 1].size
  BY <1>4 DEF HeaderUnit
<1>8. /\ x.got = Upto(Contents(r, x.reply), i)
      /\ EndOf(r, x.reply, i) \in Nat
  BY <1>4, EndIs DEF InHeader
<1>9. At(g, x, From(d, n) \o w, i)
  <2>1. CASE d[n].id = "FAIL"
    BY <1>8, <2>1 DEF At, InFailData
  <2>2. CASE d[n].id # "FAIL"
    <3>1. x.reply[i + 1].id \in {"DATA", "DONE"}
      BY <1>6, <1>7, <2>2 DEF Message
    <3>2. x.reply[i + 1].size - g.remain = 0 /\ g.remain \in 0 .. x.reply[i + 1].size
      BY <1>6, <1>7
    <3>3. DataOf(r, i + 1, 0) = <<>>
      BY DEF DataOf
    <3>4. x.got = Upto(Contents(r, x.reply), i) \o <<>>
      BY <1>4, <1>8, ContentsPrefix, EmptyJoins
    <3>5. EndOf(r, x.reply, i) + (HeaderSize - f.remain) + n
            = EndOf(r, x.reply, i) + (HeaderSize + 0)
      BY <1>1, <1>8, FileAssumption
    <3>6. InData(g, x, From(d, n) \o w, i)
      BY <1>4, <1>7, <2>2, <3>1, <3>2, <3>3, <3>4, <3>5 DEF InData
    <3> QED BY <3>6 DEF At
  <2> QED BY <2>1, <2>2
<1>10. Parsing(g, x, From(d, n) \o w, c)
  BY <1>3, <1>4, <1>9 DEF Parsing
<1> QED BY <1>1, <1>4, <1>10 DEF SlotAt

LEMMA HeaderPartRead ==
    ASSUME NEW f, f.func \in Reads, NEW x, NEW d, NEW w, NEW c, SlotAt(f, x, d, w, c),
           f.state = "WAIT_HEADER", Len(d) < f.remain,
           NEW g, g.func = f.func, g.state = f.state, g.remain = f.remain - Len(d)
    PROVE  SlotAt(g, x, <<>>, w, c)
<1>1. d \in Seq(Units) /\ w \in Seq(Units) /\ f.remain \in 1 .. HeaderSize /\ Len(d) \in Nat
  BY DEF SlotAt, Waiting, Parsing, At, InHeader, InData, InFailData
<1>2. g.remain \in 1 .. HeaderSize
  BY <1>1, FileAssumption
<1>3. <<>> \in Seq(Units)
  OBVIOUS
<1>4. CASE Waiting(f, x, d, w, c)
  <2>1. c = "BUSY" => g.remain = HeaderSize
    <3>1. d = <<>> => Len(d) = 0
      OBVIOUS
    <3> QED BY <1>1, <1>4, <3>1, FileAssumption DEF Waiting
  <2>2. \A k \in 1 .. Len(<<>>) : <<>>[k].id = "BAD"
    OBVIOUS
  <2> QED BY <1>1, <1>2, <1>3, <1>4, <2>1, <2>2 DEF SlotAt, Waiting
<1>5. CASE Parsing(f, x, d \o w, c)
  <2>1. Len(d) \in 0 .. Len(d)
    BY <1>1
  <2>2. PICK i \in 0 .. Len(x.reply) :
              /\ \A k \in 1 .. i : x.reply[k].id # "DONE"
              /\ InHeader(f, x, d \o w, i)
              /\ x.reply \in Replies /\ Len(x.reply) \in Nat
              /\ From(d, Len(d)) \o w = From(StreamOf(f.func, x.reply),
                    EndOf(f.func, x.reply, i) + (HeaderSize - f.remain) + Len(d))
    <3>1. PICK i \in 0 .. Len(x.reply) : HeaderAt(f, x, d, w, Len(d), i)
      BY <1>5, <2>1, AtHeader
    <3> QED BY <3>1 DEF HeaderAt
  <2>3. From(d, Len(d)) = <<>>
    BY <1>1, FromIs
  <2>4. EndOf(f.func, x.reply, i) \in Nat
    BY <2>2, EndIs
  <2>5. EndOf(f.func, x.reply, i) + (HeaderSize - f.remain) + Len(d)
          = EndOf(f.func, x.reply, i) + (HeaderSize - g.remain)
    BY <1>1, <2>4, FileAssumption
  <2>6. InHeader(g, x, <<>> \o w, i)
    BY <1>2, <2>2, <2>3, <2>5 DEF InHeader
  <2>7. Parsing(g, x, <<>> \o w, c)
    BY <1>5, <2>2, <2>6 DEF Parsing, At
  <2> QED BY <1>1, <1>3, <2>7 DEF SlotAt
<1> QED BY <1>4, <1>5 DEF SlotAt

\* The same in the data of a message, of which n units more are handed on.
DataAt(f, x, d, w, n, i) ==
    LET m == x.reply[i + 1] IN
    /\ \A k \in 1 .. i : x.reply[k].id # "DONE"
    /\ InData(f, x, d \o w, i)
    /\ x.reply \in Replies /\ Len(x.reply) \in Nat /\ m.size \in Nat
    /\ From(d, n) \in Seq(Units)
    /\ From(d, n) \o w = From(StreamOf(f.func, x.reply),
          EndOf(f.func, x.reply, i) + (HeaderSize + (m.size - f.remain)) + n)
    /\ x.got \o SubSeq(d, 1, n) = Upto(Contents(f.func, x.reply), i)
          \o DataOf(f.func, i + 1, m.size - f.remain + n)

LEMMA AtData ==
    ASSUME NEW f, f.func \in Reads, NEW x, NEW d, NEW w, NEW c, SlotAt(f, x, d, w, c),
           f.state = "WAIT_DATA", NEW n \in 0 .. Len(d), n <= f.remain
    PROVE  \E i \in 0 .. Len(x.reply) : DataAt(f, x, d, w, n, i)
<1> DEFINE r == f.func
           t == StreamOf(r, x.reply)
<1>1. Parsing(f, x, d \o w, c) /\ d \in Seq(Units) /\ w \in Seq(Units)
  BY DEF SlotAt, Waiting
<1>2. PICK i \in 0 .. Len(x.reply) :
          (\A k \in 1 .. i : x.reply[k].id # "DONE") /\ InData(f, x, d \o w, i)
  BY <1>1 DEF Parsing, At, InHeader, InFailData
<1> DEFINE m == x.reply[i + 1]
           a == m.size - f.remain
           p == EndOf(r, x.reply, i) + (HeaderSize + a)
           C == Upto(Contents(r, x.reply), i)
           b == SubSeq(d, 1, n)
<1>3. x.reply \in Replies /\ Len(x.reply) \in Nat
  BY <1>1, PiecesType DEF Parsing
<1>4. /\ i < Len(x.reply) /\ f.remain \in 0 .. m.size /\ x.got = C \o DataOf(r, i + 1, a)
      /\ d \o w = From(t, p)
  BY <1>2 DEF InData
<1>5. i \in 0 .. Len(x.reply) - 1 /\ i + 1 \in 1 .. Len(x.reply) /\ i + 1 \in Nat
  BY <1>3, <1>4
<1>6. m.size \in Nat
  BY <1>3, <1>5, PieceIs
<1>7. a \in Nat /\ f.remain \in Nat /\ n \in Nat /\ a + f.remain = m.size
  <2>1. n \in Nat
    BY <1>1
  <2>2. f.remain \in 0 .. m.size
    BY <1>4
  <2> HIDE DEF m
  <2>3. f.remain \in Nat /\ m.size - f.remain \in Nat
        /\ (m.size - f.remain) + f.remain = m.size
    BY ONLY <1>6, <2>2
  <2> QED BY <2>1, <2>3
<1>8. t \in Seq(Units) /\ EndOf(r, x.reply, i) \in Nat /\ HeaderSize \in Nat
  BY <1>3, EndIs, FileAssumption
<1>9. p \in Nat
  BY <1>7, <1>8
<1>10. C \in Seq(Units)
  BY <1>3, ContentsPrefix
<1>11. \A j \in 1 .. m.size : t[EndOf(r, x.reply, i) + HeaderSize + j] = DataUnit(r, i + 1, j)
  BY <1>3, <1>5, UnitsAre
<1>12. Taken(t, d, w, p, n, Units)
  <2> HIDE DEF p, t
  <2> QED BY <1>1, <1>4, <1>8, <1>9, Takes
<1>13. b \in Seq(Units) /\ Len(b) = n /\ \A k \in 1 .. n : b[k] = t[p + k]
  <2> HIDE DEF p, t
  <2> QED BY <1>12 DEF Taken
<1>14. ASSUME NEW k \in 1 .. Len(b) PROVE b[k] = DataUnit(r, i + 1, a + k)
  <2>1. k \in 1 .. n /\ a + k \in 1 .. m.size
        /\ p + k = EndOf(r, x.reply, i) + HeaderSize + (a + k)
    <3> DEFINE q == EndOf(r, x.reply, i)
    <3>1. q \in Nat /\ p = q + (HeaderSize + a)
      BY <1>8
    <3>2. k \in 1 .. n
      BY <1>13
    <3> HIDE DEF a, b, m, q, p
    <3>3. a \in Nat /\ n \in Nat /\ n <= f.remain /\ f.remain \in Nat
          /\ a + f.remain = m.size /\ HeaderSize \in Nat
      BY <1>7, <1>8
    <3>4. a + k \in 1 .. m.size
      BY ONLY <3>2, <3>3
    <3>5. p + k = q + HeaderSize + (a + k)
      BY ONLY <3>1, <3>2, <3>3
    <3> QED BY <3>2, <3>4, <3>5 DEF q
  <2> HIDE DEF a, b, m, p, t
  <2> QED BY <1>11, <1>13, <2>1
<1> HIDE DEF a, b, C, m, p, t
<1>15. DataOf(r, i + 1, a) \o b = DataOf(r, i + 1, a + n)
  <2>1. i + 1 \in Nat /\ a \in Nat /\ b \in Seq(Units) /\ Len(b) = n
    BY <1>5, <1>7, <1>13
  <2>2. DataOf(r, i + 1, a) \o b = DataOf(r, i + 1, a + Len(b))
    BY <1>14, <2>1, DataJoins
  <2> QED BY <2>1, <2>2
<1>16. x.got \o b = C \o DataOf(r, i + 1, a + n)
  <2>1. DataOf(r, i + 1, a) \in Seq(Units)
    BY <1>5, <1>7, DataType
  <2>2. (C \o DataOf(r, i + 1, a)) \o b = C \o (DataOf(r, i + 1, a) \o b)
    <3>1. C \in Seq(Units) /\ b \in Seq(Units)
      BY <1>10, <1>13
    <3> HIDE DEF C, b
    <3> QED BY ONLY <2>1, <3>1, UnitsJoinTwice
  <2> QED BY <1>4, <1>15, <2>2
<1> QED BY <1>2, <1>3, <1>6, <1>12, <1>16 DEF DataAt, Taken, a, b, C, m, p, t

LEMMA DataRead ==
    ASSUME NEW f, f.func \in Reads, NEW x, NEW d, NEW w, NEW c, SlotAt(f, x, d, w, c),
           f.state = "WAIT_DATA", f.id # "DONE", f.remain <= Len(d),
           NEW g, g.func = f.func, g.state = "WAIT_HEADER", g.remain = HeaderSize,
           NEW y, y.reply = x.reply, y.got = x.got \o SubSeq(d, 1, f.remain)
    PROVE  SlotAt(g, y, From(d, f.remain), w, c)
<1> DEFINE n == f.remain
           r == f.func
           reply == x.reply
<1>1. Parsing(f, x, d \o w, c) /\ d \in Seq(Units) /\ w \in Seq(Units)
  BY DEF SlotAt, Waiting
<1>2. n \in Nat
  <2>1. PICK i \in 0 .. Len(x.reply) : InData(f, x, d \o w, i)
    BY <1>1 DEF Parsing, At, InHeader, InFailData
  <2> QED BY <2>1 DEF InData
<1>3. n \in 0 .. Len(d) /\ n <= f.remain
  BY <1>1, <1>2
<1>4. PICK i \in 0 .. Len(reply) : DataAt(f, x, d, w, n, i)
  BY <1>3, AtData
<1> DEFINE m == reply[i + 1]
<1>5. /\ \A k \in 1 .. i : reply[k].id # "DONE"
      /\ f.id = m.id /\ m.id \in {"DATA", "DONE"} /\ i < Len(reply)
      /\ reply \in Replies /\ Len(reply) \in Nat /\ m.size \in Nat
      /\ From(d, n) \in Seq(Units)
      /\ From(d, n) \o w = From(StreamOf(r, reply),
            EndOf(r, reply, i) + (HeaderSize + (m.size - n)) + n)
      /\ y.got = Upto(Contents(r, reply), i) \o DataOf(r, i + 1, m.size - n + n)
  BY <1>4 DEF DataAt, InData
<1>6. i + 1 \in 0 .. Len(reply) /\ i \in 0 .. Len(reply) - 1 /\ m.size - n + n = m.size
  <2>1. m.size \in Nat /\ n \in Nat
    BY <1>2, <1>5
  <2> HIDE DEF m, n
  <2>2. m.size - n + n = m.size
    BY ONLY <2>1
  <2>3. i < Len(reply) /\ Len(reply) \in Nat
    BY <1>5
  <2>4. i + 1 \in 0 .. Len(reply) /\ i \in 0 .. Len(reply) - 1
    BY <2>3
  <2> QED BY <2>2, <2>4
<1>7. \A k \in 1 .. i + 1 : reply[k].id # "DONE"
  <2>1. \A k \in 1 .. i + 1 : k \in 1 .. i \/ k = i + 1
    BY <1>6
  <2> QED BY <1>5, <2>1
<1>8. y.got = Upto(Contents(r, reply), i + 1)
  <2>1. reply[i + 1].id = "DATA"
    BY <1>5
  <2> QED BY <1>5, <1>6, <2>1, ContentsNext
<1>9. EndOf(r, reply, i) + (HeaderSize + (m.size - n)) + n
        = EndOf(r, reply, i + 1) + (HeaderSize - HeaderSize)
  <2>1. /\ EndOf(r, reply, i) \in Nat
        /\ EndOf(r, reply, i + 1) = EndOf(r, reply, i) + HeaderSize + m.size
    BY <1>5, <1>6, EndIs
  <2>2. m.size \in Nat /\ n \in Nat /\ HeaderSize \in Nat
    BY <1>2, <1>5, FileAssumption
  <2> HIDE DEF m, n
  <2>3. (HeaderSize + (m.size - n)) + n = HeaderSize + m.size /\ HeaderSize - HeaderSize = 0
    BY ONLY <2>2
  <2>4. EndOf(r, reply, i) + (HeaderSize + (m.size - n)) + n
          = EndOf(r, reply, i) + (HeaderSize + m.size)
    BY ONLY <2>1, <2>2
  <2>5. EndOf(r, reply, i + 1) = EndOf(r, reply, i) + (HeaderSize + m.size)
    BY ONLY <2>1, <2>2
  <2>6. EndOf(r, reply, i) + (HeaderSize + m.size) \in Nat
    BY ONLY <2>1, <2>2
  <2> QED BY ONLY <2>2, <2>4, <2>5, <2>6
<1>10. HeaderSize \in 1 .. HeaderSize
  BY FileAssumption
<1>11. InHeader(g, y, From(d, n) \o w, i + 1)
  BY <1>5, <1>8, <1>9, <1>10 DEF InHeader
<1>12. Parsing(g, y, From(d, n) \o w, c)
  BY <1>1, <1>6, <1>7, <1>11 DEF Parsing, At
<1> QED BY <1>1, <1>5, <1>12 DEF SlotAt

LEMMA DataPartRead ==
    ASSUME NEW f, f.func \in Reads, NEW x, NEW d, NEW w, NEW c, SlotAt(f, x, d, w, c),
           f.state = "WAIT_DATA", Len(d) < f.remain,
           NEW g, g.func = f.func, g.state = f.state, g.id = f.id,
           g.remain = f.remain - Len(d),
           NEW y, y.reply = x.reply, y.got = x.got \o d
    PROVE  SlotAt(g, y, <<>>, w, c)
<1> DEFINE n == Len(d)
           r == f.func
           reply == x.reply
<1>1. /\ Parsing(f, x, d \o w, c) /\ d \in Seq(Units) /\ w \in Seq(Units)
      /\ n \in Nat /\ n \in 0 .. Len(d)
  BY DEF SlotAt, Waiting
<1>2. n <= f.remain /\ f.remain \in Nat
  <2>1. PICK i \in 0 .. Len(x.reply) : InData(f, x, d \o w, i)
    BY <1>1 DEF Parsing, At, InHeader, InFailData
  <2>2. f.remain \in Nat
    BY <2>1 DEF InData
  <2> QED BY <1>1, <2>2
<1>3. PICK i \in 0 .. Len(reply) : DataAt(f, x, d, w, n, i)
  BY <1>1, <1>2, AtData
<1> DEFINE m == reply[i + 1]
<1>4. SubSeq(d, 1, n) = d /\ From(d, n) = <<>>
  BY <1>1, FromIs
<1>5. /\ \A k \in 1 .. i : reply[k].id # "DONE"
      /\ f.id = m.id /\ m.id \in {"DATA", "DONE"} /\ i < Len(reply)
      /\ f.remain \in 0 .. m.size
      /\ reply \in Replies /\ Len(reply) \in Nat /\ m.size \in Nat
      /\ <<>> \o w = From(StreamOf(r, reply),
            EndOf(r, reply, i) + (HeaderSize + (m.size - f.remain)) + n)
      /\ y.got = Upto(Contents(r, reply), i) \o DataOf(r, i + 1, m.size - f.remain + n)
  BY <1>3, <1>4 DEF DataAt, InData
<1>6. EndOf(r, reply, i) \in Nat
  BY <1>5, EndIs
<1>7. /\ m.size - f.remain + n = m.size - g.remain /\ g.remain \in 0 .. m.size
      /\ EndOf(r, reply, i) + (HeaderSize + (m.size - f.remain)) + n
           = EndOf(r, reply, i) + (HeaderSize + (m.size - g.remain))
  <2>1. m.size \in Nat /\ f.remain \in 0 .. m.size
    BY <1>5
  <2>2. /\ n \in Nat /\ n < f.remain /\ g.remain = f.remain - n
        /\ EndOf(r, reply, i) \in Nat /\ HeaderSize \in Nat
    BY <1>1, <1>6, FileAssumption
  <2> HIDE DEF n, m
  <2>3. /\ m.size - f.remain + n = m.size - g.remain /\ g.remain \in 0 .. m.size
        /\ m.size - f.remain \in Nat /\ m.size - g.remain \in Nat
    BY ONLY <2>1, <2>2
  <2> QED BY ONLY <2>2, <2>3
<1>8. InData(g, y, <<>> \o w, i)
  BY <1>5, <1>7 DEF InData
<1>9. Parsing(g, y, <<>> \o w, c)
  BY <1>1, <1>5, <1>8 DEF Parsing, At
<1>10. <<>> \in Seq(Units)
  OBVIOUS
<1> QED BY <1>1, <1>9, <1>10 DEF SlotAt

LEMMA FailPartRead ==
    ASSUME NEW f, NEW x, NEW d, NEW w, NEW c, SlotAt(f, x, d, w, c),
           f.state = "WAIT_FAIL_DATA", NEW g, g.func = f.func, g.state = f.state
    PROVE  SlotAt(g, x, <<>>, w, c)
<1>1. Parsing(f, x, d \o w, c) /\ w \in Seq(Units) /\ <<>> \in Seq(Units)
  BY DEF SlotAt, Waiting
<1>2. PICK i \in 0 .. Len(x.reply) :
          (\A k \in 1 .. i : x.reply[k].id # "DONE") /\ InFailData(f, x, i)
  BY <1>1 DEF Parsing, At, InHeader, InData
<1>3. InFailData(g, x, i)
  BY <1>2 DEF InFailData
<1>4. Parsing(g, x, <<>> \o w, c)
  BY <1>1, <1>2, <1>3 DEF Parsing, At
<1> QED BY <1>1, <1>4 DEF SlotAt

LEMMA DoneRead ==
    ASSUME NEW f, f.func \in Reads, NEW x, NEW d, NEW w, NEW c, SlotAt(f, x, d, w, c),
           f.state = "WAIT_DATA", f.id = "DONE"
    PROVE  x.got = ContentsOf(f.func, x.reply) /\ f.remain = 0
<1>1. Parsing(f, x, d \o w, c)
  BY DEF SlotAt, Waiting
<1>2. PICK i \in 0 .. Len(x.reply) : InData(f, x, d \o w, i)
  BY <1>1 DEF Parsing, At, InHeader, InFailData
<1>3. x.reply \in Replies /\ Len(x.reply) \in Nat
  BY <1>1, PiecesType DEF Parsing
<1> DEFINE C == Upto(Contents(f.func, x.reply), i)
<1>4. /\ i \in 0 .. Len(x.reply) - 1 /\ i + 1 \in 1 .. Len(x.reply)
      /\ x.reply[i + 1].id = "DONE" /\ f.remain \in 0 .. x.reply[i + 1].size
      /\ x.got = C \o DataOf(f.func, i + 1, x.reply[i + 1].size - f.remain)
  BY <1>2, <1>3 DEF InData
<1>5. x.reply[i + 1].size - f.remain = 0 /\ f.remain = 0
  <2>1. x.reply[i + 1].size = 0
    BY <1>3, <1>4, FileAssumption
  <2> QED BY <1>4, <2>1
<1>6. DataOf(f.func, i + 1, 0) = <<>>
  BY DEF DataOf
<1>7. C \in Seq(Units) /\ ContentsOf(f.func, x.reply) = C
  BY <1>3, <1>4, ContentsPrefix, ContentsDone
<1> HIDE DEF C
<1>8. x.got = C
  BY <1>4, <1>5, <1>6, <1>7, EmptyJoins
<1> QED BY <1>5, <1>7, <1>8

----------------------------------------------------------------------------
(* The steps.                                                              *)

\* HandsContents, of one read; and the invariant.
HandsOf(x, r) ==
    /\ IsPrefix(x.got, ContentsOf(r, x.reply))
    /\ x.end = "eof" => x.got = ContentsOf(r, x.reply)
ContInv == SlotsOk /\ \A r \in Reads : HandsOf(reads[r], r)

\* What a step leaves alone of a slot, and of a read.
KeptSlot(j) ==
    files'[j].func # 0 /\ ~Told(j)' =>
        /\ files'[j] = files[j] /\ ~Told(j) /\ InHand(j)' = InHand(j)
        /\ reads'[files[j].func].reply = reads[files[j].func].reply
        /\ reads'[files[j].func].got = reads[files[j].func].got
        /\ stream'[files[j].handle] = stream[files[j].handle]
        /\ chan'[files[j].handle].state = "BUSY" =>
              chan[files[j].handle].state = "BUSY"
KeptRead(q) ==
    /\ reads'[q].reply = reads[q].reply /\ reads'[q].got = reads[q].got
    /\ reads'[q].end = "eof" => reads[q].end = "eof"

LEMMA SlotSame ==
    ASSUME NEW f, NEW x, NEW d, NEW w, NEW c, SlotAt(f, x, d, w, c),
           NEW y, y.reply = x.reply, y.got = x.got, NEW e, e = "BUSY" => c = "BUSY"
    PROVE  SlotAt(f, y, d, w, e)
BY DEF SlotAt, Waiting, Parsing, At, InHeader, InData, InFailData

LEMMA ContStep ==
    ASSUME SlotInv, SlotInv', ContInv,
           \A j \in Slots : KeptSlot(j) \/ SlotOk(j)',
           \A q \in Reads : \/ KeptRead(q) \/ HandsOf(reads'[q], q)
                            \/ \E s \in Slots : files'[s].func = q /\ ~Told(s)'
    PROVE  ContInv'
<1>1. ASSUME NEW j \in Slots PROVE SlotOk(j)'
  <2>1. CASE SlotOk(j)'
    BY <2>1
  <2>2. CASE KeptSlot(j)
    <3> SUFFICES ASSUME files'[j].func # 0, ~Told(j)'
                 PROVE  SlotAt(files'[j], reads'[files'[j].func], InHand(j)',
                               stream'[files'[j].handle], chan'[files'[j].handle].state)
      BY DEF SlotOk
    <3> DEFINE f == files[j]
               h == files[j].handle
    <3>1. /\ files'[j] = f /\ ~Told(j) /\ InHand(j)' = InHand(j)
          /\ reads'[f.func].reply = reads[f.func].reply
          /\ reads'[f.func].got = reads[f.func].got
          /\ stream'[h] = stream[h]
          /\ chan'[h].state = "BUSY" => chan[h].state = "BUSY"
      BY <2>2 DEF KeptSlot
    <3>2. SlotAt(f, reads[f.func], InHand(j), stream[h], chan[h].state)
      BY <3>1 DEF ContInv, SlotsOk, SlotOk
    <3>3. SlotAt(f, reads'[f.func], InHand(j), stream[h], chan'[h].state)
      <4> DEFINE x == reads[f.func]
                 y == reads'[f.func]
                 c == chan[h].state
                 e == chan'[h].state
      <4>1. /\ y.reply = x.reply /\ y.got = x.got
            /\ e = "BUSY" => c = "BUSY"
            /\ SlotAt(f, x, InHand(j), stream[h], c)
        BY <3>1, <3>2
      <4> HIDE DEF x, y, c, e
      <4>2. SlotAt(f, y, InHand(j), stream[h], e)
        BY <4>1, SlotSame
      <4> QED BY <4>2 DEF y, e
    <3>4. /\ files'[j].func = f.func /\ files'[j].handle = h
          /\ stream'[h] = stream[h]
      BY <3>1
    <3> HIDE DEF f, h
    <3>5. files'[j] = f /\ InHand(j)' = InHand(j)
      BY <3>1 DEF f
    <3> QED BY <3>3, <3>4, <3>5
  <2> QED BY <2>1, <2>2
<1>2. ASSUME NEW q \in Reads PROVE HandsOf(reads'[q], q)
  <2>1. CASE KeptRead(q)
    BY <2>1 DEF KeptRead, ContInv, HandsOf
  <2>2. ASSUME NEW s \in Slots, files'[s].func = q, ~Told(s)'
        PROVE  HandsOf(reads'[q], q)
    <3>1. q # 0
      BY DEF Reads
    <3>2. SlotAt(files'[s], reads'[q], InHand(s)', stream'[files'[s].handle],
                 chan'[files'[s].handle].state)
      BY <1>1, <2>2, <3>1 DEF SlotOk
    <3>3. IsPrefix(reads'[q].got, ContentsOf(q, reads'[q].reply))
      BY <2>2, <3>2, SlotHands
    <3>4. reads'[q].end = "no"
      BY <2>2, <3>1 DEF SlotInv, OwnSlot
    <3> QED BY <3>3, <3>4 DEF HandsOf
  <2> QED BY <2>1, <2>2
<1> QED BY <1>1, <1>2 DEF ContInv, SlotsOk

\* The slots that another slot does not touch.
LEMMA OtherSlot ==
    ASSUME SlotInv, NEW i \in Slots, NEW j \in Slots, j # i, files[j].func # 0, ~Told(j)
    PROVE  /\ files[j].func \in Reads /\ files[j].func # files[i].func
           /\ files[j].handle # files[i].handle /\ files[j].handle # 0
           /\ files[j].handle \in Channels
           /\ reads[files[j].func].state = "open" /\ reads[files[j].func].end = "no"
           /\ reads[files[j].func].slot = j
           /\ chan[files[j].handle].owner = files[j].func
           /\ chan[files[j].handle].state \in Live
<1>1. /\ files[j].func \in Reads /\ files[j].handle # 0 /\ files[j].handle \in Channels
      /\ reads[files[j].func].state = "open" /\ reads[files[j].func].end = "no"
      /\ reads[files[j].func].slot = j
  BY DEF SlotInv, Types, IsFile, OwnSlot, Reads
<1>2. files[j].func # files[i].func
  <2>1. files[i].func # 0 => reads[files[i].func].slot = i
    BY DEF SlotInv, OwnSlot
  <2> QED BY <1>1, <2>1
<1>3. files[j].handle # files[i].handle
  BY <1>1 DEF SlotInv, OwnHandle
<1>4. chan[files[j].handle].owner = files[j].func /\ chan[files[j].handle].state \in Live
  BY DEF SlotInv, OwnChannel
<1> QED BY <1>1, <1>2, <1>3, <1>4

LEMMA ClosedOther ==
    ASSUME NEW c \in ChanType, NEW h, NEW g, g # h PROVE Closed(c, h)[g] = c[g]
BY DEF Closed, ChanType

\* Slot i is let go.
LEMMA ContReleases ==
    ASSUME SlotInv, SlotInv', ContInv, NEW i \in Slots, files'[i].func = 0,
           \A j \in Slots : j # i => files'[j] = files[j] /\ ~Told(j) /\ InHand(j)' = InHand(j),
           \A q \in Reads : q # files[i].func => reads'[q] = reads[q],
           \A q \in Reads : q = files[i].func => HandsOf(reads'[q], q),
           stream' = stream,
           \/ chan' = Closed(chan, files[i].handle) \/ chan' = chan
           \/ chan' = Closed(Closed(chan, files[i].handle), 0)
    PROVE  ContInv'
<1>1. ASSUME NEW j \in Slots PROVE KeptSlot(j)
  <2> SUFFICES ASSUME files'[j].func # 0
               PROVE  /\ files'[j] = files[j] /\ ~Told(j) /\ InHand(j)' = InHand(j)
                      /\ reads'[files[j].func] = reads[files[j].func]
                      /\ chan'[files[j].handle] = chan[files[j].handle]
    BY DEF KeptSlot
  <2>1. j # i /\ files'[j] = files[j] /\ ~Told(j) /\ InHand(j)' = InHand(j)
    OBVIOUS
  <2>2. /\ files[j].func \in Reads /\ files[j].func # files[i].func
        /\ files[j].handle # files[i].handle /\ files[j].handle # 0
    BY <2>1, OtherSlot
  <2> DEFINE c == Closed(chan, files[i].handle)
  <2>3. c[files[j].handle] = chan[files[j].handle] /\ c \in ChanType
    <3>1. files[i].handle \in Channels
      BY DEF SlotInv, Types, IsFile
    <3>2. chan \in ChanType
      BY DEF SlotInv, Types, ChanType
    <3> QED BY <2>2, <3>1, <3>2, ClosedOther, ClosedAs
  <2> HIDE DEF c
  <2>4. Closed(c, 0)[files[j].handle] = c[files[j].handle]
    BY <2>2, <2>3, ClosedOther
  <2>5. chan' = c \/ chan' = chan \/ chan' = Closed(c, 0)
    BY DEF c
  <2>6. chan'[files[j].handle] = chan[files[j].handle]
    BY <2>3, <2>4, <2>5
  <2> QED BY <2>1, <2>2, <2>6
<1>2. ASSUME NEW q \in Reads PROVE KeptRead(q) \/ HandsOf(reads'[q], q)
  <2>1. CASE q # files[i].func
    BY <2>1 DEF KeptRead
  <2> QED BY <2>1
<1> QED BY <1>1, <1>2, ContStep

\* Slot i goes on with its stream, from call.
LEMMA ContGoesOn ==
    ASSUME SlotInv, SlotInv', ContInv, NEW i \in Slots,
           files'[i].func = files[i].func, ~Told(i)', SlotOk(i)',
           \A j \in Slots : j # i => files'[j] = files[j] /\ ~Told(j) /\ InHand(j)' = InHand(j),
           \A q \in Reads : q # files[i].func => reads'[q] = reads[q],
           \A j \in Slots : j # i /\ files[j].func # 0 =>
               /\ stream'[files[j].handle] = stream[files[j].handle]
               /\ chan'[files[j].handle].state = chan[files[j].handle].state
    PROVE  ContInv'
<1>1. ASSUME NEW j \in Slots PROVE KeptSlot(j) \/ SlotOk(j)'
  <2>1. CASE j # i /\ files'[j].func # 0
    <3>1. files'[j] = files[j] /\ ~Told(j) /\ InHand(j)' = InHand(j)
      BY <2>1
    <3>2. files[j].func \in Reads /\ files[j].func # files[i].func
      BY <2>1, <3>1, OtherSlot
    <3> QED BY <2>1, <3>1, <3>2 DEF KeptSlot
  <2> QED BY <2>1 DEF SlotOk
<1>2. ASSUME NEW q \in Reads
      PROVE  \/ KeptRead(q) \/ HandsOf(reads'[q], q)
             \/ \E s \in Slots : files'[s].func = q /\ ~Told(s)'
  <2>1. CASE q # files[i].func
    BY <2>1 DEF KeptRead
  <2> QED BY <2>1
<1> QED BY <1>1, <1>2, ContStep

LEMMA NoHand ==
    ASSUME call = NoCall PROVE \A s \in Slots : InHand(s) = <<>> /\ ~Told(s)
BY DEF InHand, Told, NoCall

LEMMA NoHandNext ==
    ASSUME call' = NoCall PROVE \A s \in Slots : InHand(s)' = <<>> /\ ~Told(s)'
BY DEF InHand, Told, NoCall

LEMMA ContInit == Init => ContInv
<1> SUFFICES ASSUME Init PROVE ContInv
  OBVIOUS
<1>1. SlotsOk
  <2>1. \A i \in Slots : files[i] = FreeFile
    BY DEF Init
  <2> QED BY <2>1 DEF SlotsOk, SlotOk, FreeFile
<1>2. ASSUME NEW r \in Reads PROVE HandsOf(reads[r], r)
  <2>1. reads[r].got = <<>> /\ reads[r].reply = <<>> /\ reads[r].end = "no"
    BY <1>2 DEF Init, NewRead
  <2>2. <<>> \in Seq(Units) /\ Begins(<<>>, <<>>)
    BY DEF Begins
  <2> QED BY <2>1, <2>2, NoReply, BeginsPrefix DEF HandsOf
<1> QED BY <1>1, <1>2 DEF ContInv

LEMMA ContRead ==
    ASSUME SlotInv, SlotInv', ContInv, Read PROVE ContInv'
<1> DEFINE r == nreads + 1
<1>1. /\ call = NoCall /\ call' = call /\ nreads < MaxReads
  BY DEF Read, Quiet
<1>2. PICK i \in FirstFree(files, Slots), h \in FirstFree(chan, Channels) :
          /\ chan' = [chan EXCEPT ![h] = [state |-> "OPENING", owner |-> r]]
          /\ files' = [files EXCEPT ![i] = [FreeFile EXCEPT
                        !.state = "WAIT_OPEN", !.func = r, !.handle = h]]
          /\ reads' = [reads EXCEPT ![r].state = "open", ![r].slot = i]
          /\ stream' = [stream EXCEPT ![h] = <<>>]
  BY DEF Read
<1>3. /\ i \in Slots /\ h \in Channels /\ chan[h].state = "FREE"
  BY <1>2 DEF FirstFree
<1>4. r \in Reads /\ r # 0 /\ reads[r] = NewRead
  BY <1>1, FileAssumption DEF SlotInv, Types, OwnRead, Reads
<1> HIDE DEF r
<1>5. files' = [files EXCEPT ![i] = OpenedFile(r, h)]
  BY <1>2, OpenedIs
<1>6. /\ files'[i] = OpenedFile(r, h) /\ \A j \in Slots : j # i => files'[j] = files[j]
      /\ stream'[h] = <<>> /\ \A g \in Channels : g # h => stream'[g] = stream[g]
      /\ chan'[h].state = "OPENING" /\ \A g \in Channels : g # h => chan'[g] = chan[g]
  BY <1>2, <1>3, <1>5 DEF SlotInv, Types
<1>7. \A q \in Reads : /\ reads'[q].reply = reads[q].reply /\ reads'[q].got = reads[q].got
                       /\ reads'[q].end = reads[q].end
  <2> DEFINE x == reads[r]
             a == [x EXCEPT !.state = "open"]
             b == [a EXCEPT !.slot = i]
  <2>1. reads = [q \in Reads |-> reads[q]] /\ IsRead(x)
    BY <1>4 DEF SlotInv, Types
  <2>2. reads' = [reads EXCEPT ![r] = b]
    BY <1>2, <1>4, <2>1
  <2> HIDE DEF x
  <2>3. a = [state |-> "open", slot |-> x.slot, reply |-> x.reply, got |-> x.got,
             end |-> x.end]
    BY <2>1 DEF IsRead
  <2> HIDE DEF a
  <2>4. b.reply = x.reply /\ b.got = x.got /\ b.end = x.end
    BY <2>3
  <2> HIDE DEF b
  <2>5. reads'[r] = b /\ \A q \in Reads : q # r => reads'[q] = reads[q]
    BY <1>4, <2>1, <2>2
  <2> QED BY <2>4, <2>5 DEF x
<1>8. \A s \in Slots : InHand(s) = <<>> /\ ~Told(s) /\ InHand(s)' = <<>> /\ ~Told(s)'
  BY <1>1, NoHand, NoHandNext
<1>9. ASSUME NEW j \in Slots PROVE KeptSlot(j) \/ SlotOk(j)'
  <2>1. CASE j = i
    <3>1. /\ files'[i].func = r /\ files'[i].handle = h /\ files'[i].state = "WAIT_OPEN"
      BY <1>6 DEF OpenedFile
    <3>2. reads'[r].reply = <<>> /\ reads'[r].got = <<>>
      BY <1>4, <1>7 DEF NewRead
    <3>3. <<>> \in Seq(Units) /\ \A k \in 1 .. Len(<<>>) : <<>>[k].id = "BAD"
      OBVIOUS
    <3>4. Waiting(files'[i], reads'[r], <<>>, <<>>, "OPENING")
      BY <3>1, <3>2, <3>3 DEF Waiting
    <3>5. SlotAt(files'[i], reads'[r], <<>>, <<>>, "OPENING")
      BY <3>3, <3>4 DEF SlotAt
    <3> QED BY <1>6, <1>8, <2>1, <3>1, <3>5 DEF SlotOk
  <2>2. CASE j # i
    <3> SUFFICES ASSUME files[j].func # 0 PROVE KeptSlot(j)
      BY <1>6, <2>2 DEF KeptSlot
    <3>1. /\ files[j].func \in Reads /\ files[j].handle \in Channels
          /\ chan[files[j].handle].state \in Live
      BY <1>3, <1>8, <2>2, OtherSlot
    <3>2. files[j].handle # h
      BY <1>3, <3>1 DEF Live
    <3> QED BY <1>6, <1>7, <1>8, <2>2, <3>1, <3>2 DEF KeptSlot
  <2> QED BY <2>1, <2>2
<1>10. \A q \in Reads : KeptRead(q)
  BY <1>7 DEF KeptRead
<1> QED BY <1>9, <1>10, ContStep

LEMMA ContClose ==
    ASSUME SlotInv, SlotInv', ContInv, NEW r \in Reads, CloseFile(r) PROVE ContInv'
<1> DEFINE i == reads[r].slot
<1>1. /\ call = NoCall /\ call' = call /\ reads[r].state = "open" /\ reads[r].end = "no"
      /\ reads' = [reads EXCEPT ![r].state = "closed"] /\ stream' = stream
  BY DEF CloseFile, Quiet
<1>2. /\ i \in Slots /\ files[i].func = r /\ r # 0 /\ files[i].state # "FREE"
      /\ IsRead(reads[r]) /\ reads = [q \in Reads |-> reads[q]]
  BY <1>1 DEF SlotInv, OwnRead, OwnSlot, Types, IsRead, Reads
<1>3. /\ chan' = Closed(chan, files[i].handle) /\ files' = [files EXCEPT ![i] = FreeFile]
  BY <1>2 DEF CloseFile
<1>4. files'[i].func = 0 /\ \A j \in Slots : j # i => files'[j] = files[j]
  BY <1>2, <1>3, FreeIs DEF SlotInv, Types
<1>5. \A s \in Slots : InHand(s) = <<>> /\ ~Told(s) /\ InHand(s)' = <<>>
  BY <1>1, NoHand, NoHandNext
<1>6. \A q \in Reads : q # r => reads'[q] = reads[q]
  BY <1>1, <1>2
<1>7. /\ reads'[r].got = reads[r].got /\ reads'[r].reply = reads[r].reply
      /\ reads'[r].end = reads[r].end
  BY <1>1, <1>2 DEF IsRead
<1>8. HandsOf(reads'[r], r)
  BY <1>7 DEF ContInv, HandsOf
<1> HIDE DEF i
<1> QED BY <1>1, <1>2, <1>3, <1>4, <1>5, <1>6, <1>8, ContReleases

LEMMA ContFileTasks ==
    ASSUME SlotInv, SlotInv', ContInv, NEW i \in Slots, FileTasks(i) PROVE ContInv'
<1> DEFINE f == [files[i] EXCEPT !.state = "WAIT_HEADER", !.remain = HeaderSize]
           h == files[i].handle
<1>1. /\ call = NoCall /\ call' = call /\ files[i].state = "WAIT_OPEN"
      /\ chan' = [chan EXCEPT ![h].state = "BUSY"]
      /\ stream' = stream /\ reads' = reads
  BY DEF FileTasks, Quiet
<1>2. IsFile(files[i]) /\ files = [j \in Slots |-> files[j]] /\ files[i].func # 0
  BY <1>1 DEF SlotInv, Types, OwnSlot
<1>3. files' = [files EXCEPT ![i] = f]
  BY <1>2 DEF FileTasks
<1>4. /\ f.state = "WAIT_HEADER" /\ f.remain = HeaderSize
      /\ f.func = files[i].func /\ f.handle = files[i].handle
  BY <1>2 DEF IsFile
<1> HIDE DEF f
<1>5. files'[i] = f /\ \A j \in Slots : j # i => files'[j] = files[j]
  BY <1>2, <1>3
<1>6. /\ h \in Channels /\ chan'[h].state = "BUSY"
      /\ \A g \in Channels : g # h => chan'[g] = chan[g]
  BY <1>1, <1>2 DEF SlotInv, Types, IsFile
<1>7. \A s \in Slots : InHand(s) = <<>> /\ ~Told(s) /\ InHand(s)' = <<>> /\ ~Told(s)'
  BY <1>1, NoHand, NoHandNext
<1>8. SlotOk(i)'
  <2>1. SlotAt(files[i], reads[f.func], <<>>, stream[h], chan[h].state)
    BY <1>2, <1>4, <1>7 DEF ContInv, SlotsOk, SlotOk
  <2>2. SlotAt(f, reads[f.func], <<>>, stream[h], "BUSY")
    BY <1>1, <1>4, <2>1, Asked
  <2> HIDE DEF h
  <2>3. SlotAt(files'[i], reads'[f.func], InHand(i)', stream'[h], chan'[h].state)
    BY <1>1, <1>5, <1>6, <1>7, <2>2
  <2>4. files'[i].func = f.func /\ files'[i].handle = h
    BY <1>4, <1>5 DEF h
  <2> QED BY <2>3, <2>4 DEF SlotOk
<1>9. ASSUME NEW j \in Slots, j # i, files[j].func # 0
      PROVE  chan'[files[j].handle].state = chan[files[j].handle].state
  BY <1>6, <1>7, <1>9, OtherSlot
<1> QED BY <1>1, <1>4, <1>5, <1>7, <1>8, <1>9, ContGoesOn

LEMMA ContOpens ==
    ASSUME SlotInv, SlotInv', ContInv, NEW h \in Channels, Opens(h) PROVE ContInv'
<1>1. /\ call' = call /\ call = NoCall /\ chan' = [chan EXCEPT ![h].state = "IDLE"]
      /\ UNCHANGED <<files, stream, reads>>
  BY DEF Opens, Quiet
<1>2. \A s \in Slots : InHand(s) = <<>> /\ ~Told(s) /\ InHand(s)' = <<>>
  BY <1>1, NoHand, NoHandNext
<1>3. \A g \in Channels : chan'[g].state = "BUSY" => chan[g].state = "BUSY"
  BY <1>1 DEF SlotInv, Types
<1>4. \A j \in Slots : KeptSlot(j)
  BY <1>1, <1>2, <1>3 DEF KeptSlot, SlotInv, Types, IsFile
<1>5. \A q \in Reads : KeptRead(q)
  BY <1>1 DEF KeptRead
<1> QED BY <1>4, <1>5, ContStep

LEMMA ContAcknowledges ==
    ASSUME SlotInv, SlotInv', ContInv, NEW h \in Channels, Acknowledges(h) PROVE ContInv'
<1> DEFINE o == chan[h].owner
<1>1. /\ call' = call /\ call = NoCall /\ chan[h].state = "BUSY"
      /\ chan' = [chan EXCEPT ![h].state = "IDLE"] /\ files' = files
  BY DEF Acknowledges, Quiet
<1>2. PICK reply \in Replies :
        /\ stream' = [stream EXCEPT ![h] = StreamOf(o, reply)]
        /\ reads' = [reads EXCEPT ![o].reply = reply]
  BY DEF Acknowledges
<1>3. \A s \in Slots : InHand(s) = <<>> /\ ~Told(s) /\ InHand(s)' = <<>> /\ ~Told(s)'
  BY <1>1, NoHand, NoHandNext
<1>4. /\ chan'[h].state = "IDLE" /\ stream'[h] = StreamOf(o, reply)
      /\ \A g \in Channels : g # h => chan'[g] = chan[g] /\ stream'[g] = stream[g]
  BY <1>1, <1>2 DEF SlotInv, Types
<1>5. \A q \in Reads : q # o => reads'[q] = reads[q]
  BY <1>2 DEF SlotInv, Types
<1>6. ASSUME NEW j \in Slots, files[j].func # 0
      PROVE  /\ files[j].func \in Reads /\ files[j].handle \in Channels
             /\ files[j].handle = h => files[j].func = o
             /\ files[j].handle # h => files[j].func # o
  <2>1. /\ files[j].func \in Reads /\ files[j].handle \in Channels
        /\ chan[files[j].handle].owner = files[j].func
    BY <1>3, <1>6 DEF SlotInv, Types, IsFile, Reads, OwnChannel
  <2>2. ASSUME files[j].func = o PROVE files[j].handle = h
    <3>1. o # Other /\ chan[h].state \in Live
      BY <1>1, <1>6, <2>2 DEF Other, Live
    <3>2. PICK i \in Slots : files[i].handle = h /\ files[i].func = o
      BY <3>1 DEF SlotInv, ItsSlot
    <3>3. reads[o].slot = i /\ reads[o].slot = j
      BY <1>6, <2>2, <3>2 DEF SlotInv, OwnSlot
    <3> QED BY <3>2, <3>3
  <2> QED BY <2>1, <2>2
<1>7. ASSUME NEW j \in Slots PROVE KeptSlot(j) \/ SlotOk(j)'
  <2>1. CASE files[j].func # 0 /\ files[j].handle = h
    <3> DEFINE f == files[j]
               x == reads[o]
               y == reads'[o]
               w == stream[h]
    <3>1. f.func = o /\ o \in Reads /\ f.handle = h
      BY <1>6, <2>1
    <3>2. IsRead(reads[o]) /\ reads = [q \in Reads |-> reads[q]]
      BY <3>1 DEF SlotInv, Types
    <3>3. y.reply = reply /\ y.got = x.got
      BY <1>2, <3>1, <3>2 DEF IsRead
    <3>4. SlotAt(f, x, <<>>, w, "BUSY")
      BY <1>1, <1>3, <2>1, <3>1 DEF ContInv, SlotsOk, SlotOk
    <3> HIDE DEF f, x, y, w, o
    <3>5. SlotAt(f, y, <<>>, StreamOf(f.func, reply), "IDLE")
      BY <3>1, <3>3, <3>4, Answered
    <3>6. files'[j] = f /\ y = reads'[f.func]
      BY <1>1, <3>1 DEF f, y
    <3> QED BY <1>3, <1>4, <3>1, <3>5, <3>6 DEF SlotOk
  <2>2. CASE files[j].func # 0 /\ files[j].handle # h
    BY <1>1, <1>3, <1>4, <1>5, <1>6, <2>2 DEF KeptSlot
  <2> QED BY <1>1, <2>1, <2>2 DEF KeptSlot
<1>8. ASSUME NEW q \in Reads
      PROVE  \/ KeptRead(q) \/ HandsOf(reads'[q], q)
             \/ \E s \in Slots : files'[s].func = q /\ ~Told(s)'
  <2>1. CASE q # o
    BY <1>5, <2>1 DEF KeptRead
  <2>2. CASE q = o
    <3>1. o # Other /\ chan[h].state \in Live
      BY <1>1, <2>2 DEF Other, Live, Reads
    <3>2. PICK i \in Slots : files[i].handle = h /\ files[i].func = o
      BY <3>1 DEF SlotInv, ItsSlot
    <3> QED BY <1>1, <1>3, <2>2, <3>2
  <2> QED BY <2>1, <2>2
<1> QED BY <1>7, <1>8, ContStep

\* The slot of channel h is called with data of its stream.
LEMMA ContCalls ==
    ASSUME SlotInv, SlotInv', ContInv, call = NoCall, NEW h \in Channels, NEW data,
           Calls(h, "data", data), UNCHANGED <<files, chan, reads>>,
           \A g \in Channels : g # h => stream'[g] = stream[g],
           \A f : SlotAt(f, reads[chan[h].owner], <<>>, stream[h], chan[h].state)
                    => SlotAt(f, reads[chan[h].owner], data, stream'[h], chan[h].state)
    PROVE  ContInv'
<1>1. \A s \in Slots : InHand(s) = <<>> /\ ~Told(s)
  BY NoHand
<1>2. \/ \E s \in Slots :
             /\ files[s].handle = h
             /\ call' = [kind |-> "data", h |-> h, slot |-> s, data |-> data]
      \/ (\A i \in Slots : files[i].handle # h) /\ call' = call
  BY CallsSlot DEF SlotInv
<1>3. ASSUME NEW j \in Slots, files[j].func # 0, files[j].handle = h
      PROVE  SlotOk(j)'
  <2>1. PICK s \in Slots :
             /\ files[s].handle = h
             /\ call' = [kind |-> "data", h |-> h, slot |-> s, data |-> data]
    BY <1>2, <1>3
  <2>2. files[j].handle # 0
    BY <1>3 DEF SlotInv, OwnSlot
  <2>3. j = s
    BY <1>3, <2>1, <2>2 DEF SlotInv, OwnHandle
  <2>4. InHand(j)' = data
    BY <2>1, <2>3 DEF InHand
  <2>5. chan[h].owner = files[j].func
    BY <1>1, <1>3 DEF SlotInv, OwnChannel
  <2>6. SlotAt(files[j], reads[chan[h].owner], <<>>, stream[h], chan[h].state)
    BY <1>1, <1>3, <2>5 DEF ContInv, SlotsOk, SlotOk
  <2>7. SlotAt(files[j], reads[chan[h].owner], data, stream'[h], chan[h].state)
    BY <2>6
  <2> QED BY <1>3, <2>4, <2>5, <2>7 DEF SlotOk
<1>4. ASSUME NEW j \in Slots, files[j].func # 0, files[j].handle # h
      PROVE  KeptSlot(j)
  <2>1. files[j].handle \in Channels
    BY DEF SlotInv, Types, IsFile
  <2>2. InHand(j)' = <<>>
    <3>1. CASE call' = call
      BY <3>1, NoHandNext
    <3>2. ASSUME NEW s \in Slots, files[s].handle = h,
                 call' = [kind |-> "data", h |-> h, slot |-> s, data |-> data]
          PROVE  InHand(j)' = <<>>
      <4>1. j # s
        BY <1>4, <3>2
      <4> QED BY <3>2, <4>1 DEF InHand
    <3> QED BY <1>2, <3>1, <3>2
  <2> QED BY <1>1, <1>4, <2>1, <2>2 DEF KeptSlot
<1>5. ASSUME NEW j \in Slots PROVE KeptSlot(j) \/ SlotOk(j)'
  <2>1. CASE files[j].func = 0
    BY <2>1 DEF KeptSlot
  <2> QED BY <1>3, <1>4, <2>1
<1>6. \A q \in Reads : KeptRead(q)
  BY DEF KeptRead
<1> QED BY <1>5, <1>6, ContStep

LEMMA ContPacket ==
    ASSUME SlotInv, SlotInv', ContInv, NEW h \in Channels, NEW n \in 1 .. MaxPacket,
           Packet(h, n)
    PROVE  ContInv'
<1> DEFINE x == reads[chan[h].owner]
           w == stream[h]
           c == chan[h].state
<1>1. /\ call = NoCall /\ Calls(h, "data", SubSeq(w, 1, n)) /\ UNCHANGED <<files, chan, reads>>
      /\ n <= Len(w) /\ stream' = [stream EXCEPT ![h] = SubSeq(@, n + 1, Len(@))]
  BY DEF Packet, Quiet
<1>2. /\ stream'[h] = From(w, n)
      /\ \A g \in Channels : g # h => stream'[g] = stream[g]
  BY <1>1 DEF SlotInv, Types, From
<1>3. ASSUME NEW f, SlotAt(f, x, <<>>, w, c)
      PROVE  SlotAt(f, x, SubSeq(w, 1, n), stream'[h], c)
  <2> HIDE DEF x, w, c
  <2>1. w \in Seq(Units)
    BY <1>3 DEF SlotAt
  <2>2. n \in 1 .. Len(w)
    BY <1>1, <2>1
  <2> QED BY <1>2, <1>3, <2>2, Delivered
<1> QED BY <1>1, <1>2, <1>3, ContCalls

LEMMA ContSpeaksFirst ==
    ASSUME SlotInv, SlotInv', ContInv, NEW h \in Channels, SpeaksFirst(h)
    PROVE  ContInv'
<1> DEFINE x == reads[chan[h].owner]
           w == stream[h]
           c == chan[h].state
<1>1. /\ call = NoCall /\ Calls(h, "data", <<Unknown>>) /\ UNCHANGED <<files, chan, reads>>
      /\ stream' = stream /\ c = "IDLE" /\ x.reply = <<>>
  BY DEF SpeaksFirst, Quiet, Unknown
<1>2. ASSUME NEW f, SlotAt(f, x, <<>>, w, c)
      PROVE  SlotAt(f, x, <<Unknown>>, stream'[h], c)
  <2>1. stream'[h] = w
    BY <1>1
  <2> HIDE DEF x, w, c
  <2> QED BY <1>1, <1>2, <2>1, SpokenTo
<1>3. \A g \in Channels : g # h => stream'[g] = stream[g]
  BY <1>1
<1> QED BY <1>1, <1>2, <1>3, ContCalls

\* Channel h is lost, and its slot called, if a read has it.
LEMMA ContLoses ==
    ASSUME SlotInv, SlotInv', ContInv, call = NoCall, NEW h \in Channels,
           chan' = [chan EXCEPT ![h] = FreeChannel],
           stream' = [stream EXCEPT ![h] = <<>>],
           UNCHANGED <<files, reads>>,
           \/ Calls(h, "closed", <<>>)
           \/ /\ chan[h].owner = Other \/ chan[h].state = "CLOSING"
              /\ UNCHANGED call
    PROVE  ContInv'
<1>1. \A s \in Slots : InHand(s) = <<>> /\ ~Told(s)
  BY NoHand
<1>2. \A g \in Channels : g # h => chan'[g] = chan[g] /\ stream'[g] = stream[g]
  BY DEF SlotInv, Types
<1>3. /\ \/ call' = call
         \/ \E s \in Slots :
               /\ files[s].handle = h
               /\ call' = [kind |-> "closed", h |-> h, slot |-> s, data |-> <<>>]
      /\ call' = call => \/ chan[h].owner = Other \/ chan[h].state = "CLOSING"
                         \/ \A i \in Slots : files[i].handle # h
  <2>1. CASE Calls(h, "closed", <<>>)
    <3>1. \/ \E s \in Slots :
               /\ files[s].handle = h
               /\ call' = [kind |-> "closed", h |-> h, slot |-> s, data |-> <<>>]
          \/ (\A i \in Slots : files[i].handle # h) /\ call' = call
      BY <2>1, CallsSlot DEF SlotInv
    <3>2. \A s \in Slots :
             call' = [kind |-> "closed", h |-> h, slot |-> s, data |-> <<>>] => call' # call
      BY DEF NoCall
    <3> QED BY <3>1, <3>2
  <2> QED BY <2>1
<1>4. \A s \in Slots : InHand(s)' = <<>>
  BY <1>3 DEF InHand, NoCall
<1>5. ASSUME NEW j \in Slots, files[j].func # 0, ~Told(j)' PROVE files[j].handle # h
  <2> SUFFICES ASSUME files[j].handle = h PROVE FALSE
    OBVIOUS
  <2>1. /\ chan[h].owner # Other /\ chan[h].state # "CLOSING" /\ h # 0
    BY <1>1, <1>5 DEF SlotInv, OwnChannel, OwnSlot, Other, Live
  <2>2. PICK s \in Slots :
          /\ files[s].handle = h
          /\ call' = [kind |-> "closed", h |-> h, slot |-> s, data |-> <<>>]
    BY <1>3, <2>1
  <2>3. s = j
    BY <2>1, <2>2 DEF SlotInv, OwnHandle
  <2> QED BY <1>5, <2>2, <2>3 DEF Told
<1>6. ASSUME NEW j \in Slots PROVE KeptSlot(j)
  <2> SUFFICES ASSUME files[j].func # 0, ~Told(j)' PROVE KeptSlot(j)
    BY DEF KeptSlot
  <2>1. files[j].handle \in Channels /\ files[j].handle # h
    BY <1>5 DEF SlotInv, Types, IsFile
  <2> QED BY <1>1, <1>2, <1>4, <2>1 DEF KeptSlot
<1>7. \A q \in Reads : KeptRead(q)
  BY DEF KeptRead
<1> QED BY <1>6, <1>7, ContStep

LEMMA ContPhoneCloses ==
    ASSUME SlotInv, SlotInv', ContInv, NEW h \in Channels, PhoneCloses(h)
    PROVE  ContInv'
BY ContLoses DEF PhoneCloses, Quiet

\* Steps that no slot has part in.
LEMMA ContElsewhere ==
    ASSUME SlotInv, SlotInv', ContInv, UNCHANGED <<files, stream, call, reads>>,
           \A g \in Channels : chan'[g].state = "BUSY" => chan[g].state = "BUSY"
    PROVE  ContInv'
<1>1. ASSUME NEW j \in Slots PROVE KeptSlot(j)
  <2>1. Told(j)' = Told(j) /\ InHand(j)' = InHand(j) /\ files[j].handle \in Channels
    BY DEF Told, InHand, SlotInv, Types, IsFile
  <2> QED BY <2>1 DEF KeptSlot
<1>2. \A q \in Reads : KeptRead(q)
  BY DEF KeptRead
<1> QED BY <1>1, <1>2, ContStep

LEMMA ContResetOne ==
    ASSUME SlotInv, SlotInv', ContInv, ResetOne PROVE ContInv'
<1>1. reset \in Channels
  BY FileAssumption DEF ResetOne, SlotInv, Types, Channels
<1>2. /\ call = NoCall /\ UNCHANGED <<files, reads>>
      /\ \/ Calls(reset, "closed", <<>>)
         \/ chan[reset].owner = Other /\ UNCHANGED call
  BY DEF ResetOne
<1>3. CASE ~failed'
  <2>1. /\ chan' = [chan EXCEPT ![reset] = FreeChannel]
        /\ stream' = [stream EXCEPT ![reset] = <<>>]
    BY <1>3 DEF ResetOne
  <2> QED BY <2>1, <1>1, <1>2, ContLoses
<1>4. CASE failed'
  <2>1. UNCHANGED <<chan, stream>> /\ ~failed
    BY <1>4 DEF ResetOne
  <2>2. call' = call
    BY <1>1, <1>4, <2>1, CallsSlot DEF SlotInv, ResetOne
  <2> QED BY <1>2, <2>1, <2>2, ContElsewhere
<1> QED BY <1>3, <1>4

LEMMA ContAppOpens ==
    ASSUME SlotInv, SlotInv', ContInv, AppOpens PROVE ContInv'
<1>1. \A g \in Channels : chan'[g].state = "BUSY" => chan[g].state = "BUSY"
  BY DEF AppOpens, AppChannel, SlotInv, Types
<1> QED BY <1>1, ContElsewhere DEF AppOpens

LEMMA ContReattach ==
    ASSUME SlotInv, SlotInv', ContInv, Reattach PROVE ContInv'
<1>1. \A j \in Slots : KeptSlot(j)
  BY FreeIs DEF Reattach, KeptSlot
<1>2. ASSUME NEW q \in Reads PROVE KeptRead(q)
  <2>1. IsRead(reads[q])
    BY DEF SlotInv, Types
  <2>2. LET y == [reads[q] EXCEPT !.state = "gone"]
        IN  y.reply = reads[q].reply /\ y.got = reads[q].got /\ y.end = reads[q].end
    BY <2>1 DEF IsRead
  <2>3. reads'[q] = IF reads[q].state = "open" THEN [reads[q] EXCEPT !.state = "gone"]
                    ELSE reads[q]
    BY DEF Reattach
  <2> QED BY <2>2, <2>3 DEF KeptRead
<1> QED BY <1>1, <1>2, ContStep

----------------------------------------------------------------------------
\* What is left in hand.
LEMMA HandReturns ==
    ASSUME call.kind # "none", Returns
    PROVE  /\ \A j \in Slots : j # call.slot => InHand(j)' = InHand(j) /\ ~Told(j)
           /\ \A j \in Slots : InHand(j)' = <<>> /\ ~Told(j)'
BY NoHandNext DEF Returns, InHand, Told

LEMMA HandRest ==
    ASSUME SlotInv, call.kind = "data", NEW n, call' = Rest(n)
    PROVE  /\ \A j \in Slots : j # call.slot => InHand(j)' = InHand(j) /\ ~Told(j)
           /\ \A j \in Slots : j = call.slot => InHand(j)' = From(call.data, n)
           /\ \A j \in Slots : ~Told(j)'
<1>1. call'.kind = "data" /\ call'.slot = call.slot /\ call'.data = From(call.data, n)
  <2> DEFINE d == SubSeq(call.data, n + 1, Len(call.data))
  <2>1. call' = [call EXCEPT !.data = d] /\ IsCall(call)
    BY DEF Rest, SlotInv, Types
  <2> HIDE DEF d
  <2>2. call'.kind = call.kind /\ call'.slot = call.slot /\ call'.data = d
    BY <2>1 DEF IsCall
  <2> QED BY <2>2 DEF d, From
<1>2. \A j \in Slots : j = call.slot => InHand(j)' = From(call.data, n)
  BY <1>1 DEF InHand
<1> QED BY <1>1, <1>2 DEF InHand, Told

LEMMA CalledSlot ==
    ASSUME SlotInv, ContInv, call.kind = "data", File.func # 0
    PROVE  /\ SlotAt(File, reads[File.func], call.data, stream[File.handle],
                     chan[File.handle].state)
           /\ File.func \in Reads
<1>1. call.slot \in Slots /\ File.func \in Reads
  BY InCallback
<1>2. ~Told(call.slot) /\ InHand(call.slot) = call.data
  BY DEF Told, InHand
<1> QED BY <1>1, <1>2 DEF ContInv, SlotsOk, SlotOk, File

LEMMA ContTold ==
    ASSUME SlotInv, SlotInv', ContInv, call.kind # "none", Error, Still, File.func # 0,
           chan' = Closed(chan, File.handle) \/ chan' = chan
    PROVE  ContInv'
<1> DEFINE i == call.slot
           r == files[i].func
<1>1. /\ i \in Slots /\ files = [j \in Slots |-> files[j]]
      /\ r # 0 => r \in Reads
      /\ reads = [q \in Reads |-> reads[q]] /\ \A q \in Reads : IsRead(reads[q])
  BY InCallback DEF File
<1>2. /\ files' = [files EXCEPT ![i] = FreeFile] /\ Returns /\ stream' = stream
      /\ reads' = [reads EXCEPT ![r].end = IF @ = "no" THEN "error" ELSE "again"]
  BY DEF Error, CallsNull, TellsEnd, File, Still
<1>3. files'[i].func = 0 /\ \A j \in Slots : j # i => files'[j] = files[j]
  BY <1>1, <1>2, FreeIs
<1>4. \A j \in Slots : j # i => InHand(j)' = InHand(j) /\ ~Told(j)
  BY <1>2, HandReturns
<1>5. \A q \in Reads : q # r => reads'[q] = reads[q]
  BY <1>1, <1>2
<1>6. ASSUME NEW q \in Reads, q = r PROVE HandsOf(reads'[q], q)
  <2>1. r # 0 /\ r \in Reads
    BY <1>6 DEF Reads
  <2> DEFINE e == IF reads[r].end = "no" THEN "error" ELSE "again"
             y == [reads[r] EXCEPT !.end = e]
  <2>2. reads'[r] = y
    BY <1>1, <1>2, <2>1
  <2>3. y.got = reads[r].got /\ y.reply = reads[r].reply /\ y.end = e /\ e # "eof"
    <3>1. IsRead(reads[r]) /\ e \in Ends /\ e # "eof"
      BY <1>1, <2>1 DEF Ends
    <3> HIDE DEF e
    <3> QED BY <3>1, ReadEnd
  <2> HIDE DEF y, e
  <2> QED BY <1>6, <2>1, <2>2, <2>3 DEF ContInv, HandsOf
<1>7. chan' = Closed(chan, files[i].handle) \/ chan' = chan
  BY DEF File
<1> HIDE DEF i, r
<1> QED BY <1>1, <1>2, <1>3, <1>4, <1>5, <1>6, <1>7, ContReleases DEF r

LEMMA ContError ==
    ASSUME SlotInv, SlotInv', ContInv, call.kind # "none", Error, Still,
           chan' = Closed(chan, File.handle) \/ chan' = chan
    PROVE  ContInv'
<1>1. CASE File.func = 0
  <2>1. UNCHANGED <<files, stream, call, reads>>
    BY <1>1 DEF Error, CallsNull, Still
  <2>2. \A g \in Channels : chan'[g].state = "BUSY" => chan[g].state = "BUSY"
    BY DEF Closed, SlotInv, Types
  <2> QED BY <2>1, <2>2, ContElsewhere
<1> QED BY <1>1, ContTold

LEMMA ContCalled ==
    ASSUME SlotInv, SlotInv', ContInv, call.kind = "data", NEW f, NEW d,
           files' = [files EXCEPT ![call.slot] = f],
           f.func = File.func, f.handle = File.handle,
           \A j \in Slots : j # call.slot => InHand(j)' = InHand(j) /\ ~Told(j),
           \A j \in Slots : j = call.slot => InHand(j)' = d, \A j \in Slots : ~Told(j)',
           \A q \in Reads : q # File.func => reads'[q] = reads[q],
           stream' = stream, chan' = chan,
           File.func # 0 => SlotAt(f, reads'[File.func], d, stream[File.handle],
                                   chan[File.handle].state)
    PROVE  ContInv'
<1>1. PICK i \in Slots : i = call.slot
  BY InCallback
<1>0. /\ files = [j \in Slots |-> files[j]] /\ File = files[i] /\ InHand(i)' = d
      /\ ~Told(i)' /\ \A j \in Slots : j # i => InHand(j)' = InHand(j) /\ ~Told(j)
  BY <1>1, InCallback DEF File
<1>2. files'[i] = f /\ \A j \in Slots : j # i => files'[j] = files[j]
  BY <1>0, <1>1
<1>3. SlotOk(i)'
  <2>1. SUFFICES ASSUME files'[i].func # 0
                 PROVE  SlotAt(files'[i], reads'[files'[i].func], InHand(i)',
                               stream'[files'[i].handle], chan'[files'[i].handle].state)
    BY DEF SlotOk
  <2>2. SlotAt(f, reads'[File.func], d, stream[File.handle], chan[File.handle].state)
    BY <1>0, <1>2, <2>1
  <2> QED BY <1>0, <1>2, <2>2
<1>4. files'[i].func = files[i].func /\ \A q \in Reads : q # files[i].func => reads'[q] = reads[q]
  BY <1>0, <1>2
<1>5. \A j \in Slots : j # i /\ files[j].func # 0 =>
               /\ stream'[files[j].handle] = stream[files[j].handle]
               /\ chan'[files[j].handle].state = chan[files[j].handle].state
  OBVIOUS
<1> QED BY <1>0, <1>2, <1>3, <1>4, <1>5, ContGoesOn

LEMMA ContHeader ==
    ASSUME SlotInv, SlotInv', ContInv, Header PROVE ContInv'
<1> DEFINE u == call.data[File.remain]
           d == From(call.data, File.remain)
<1>1. /\ call.kind = "data" /\ File.state = "WAIT_HEADER" /\ Still
      /\ Len(call.data) >= File.remain
  BY DEF Header, In, File, Have
<1> DEFINE good == /\ \A k \in 1 .. File.remain : call.data[k].part = "header"
                   /\ u.id # "BAD"
<1>2. CASE good
  <2> DEFINE s == IF u.id = "FAIL" THEN "WAIT_FAIL_DATA" ELSE "WAIT_DATA"
             f == [File EXCEPT !.id = u.id, !.size = u.size, !.remain = u.size,
                               !.state = s]
  <2>1. /\ files' = [files EXCEPT ![call.slot] = f] /\ call' = Rest(File.remain)
        /\ chan' = chan /\ reads' = reads
    BY <1>2, InCallback, <1>1 DEF Header, File
  <2>2. IsFile(File)
    BY <1>1, InCallback
  <2>3. /\ f.id = u.id /\ f.remain = u.size /\ f.state = s
        /\ f.func = File.func /\ f.handle = File.handle
    <3> DEFINE v == u.id
               z == u.size
               e == [File EXCEPT !.id = v]
               a == [e EXCEPT !.size = z]
               b == [a EXCEPT !.remain = z]
    <3>1. f = [b EXCEPT !.state = s]
      OBVIOUS
    <3> HIDE DEF v, z, s, f
    <3>5. e = [state |-> File.state, func |-> File.func, handle |-> File.handle,
               remain |-> File.remain, id |-> v, size |-> File.size]
      BY <2>2 DEF IsFile
    <3> HIDE DEF e
    <3>2. /\ a = [state |-> File.state, func |-> File.func, handle |-> File.handle,
                  remain |-> File.remain, id |-> v, size |-> z]
      BY <3>5
    <3> HIDE DEF a
    <3>3. b = [state |-> File.state, func |-> File.func, handle |-> File.handle,
               remain |-> z, id |-> v, size |-> z]
      BY <3>2
    <3> HIDE DEF b
    <3>4. f = [state |-> s, func |-> File.func, handle |-> File.handle,
               remain |-> z, id |-> v, size |-> z]
      BY <3>1, <3>3
    <3> QED BY <3>4 DEF v, z
  <2> HIDE DEF f
  <2>4. /\ \A j \in Slots : j # call.slot => InHand(j)' = InHand(j) /\ ~Told(j)
        /\ \A j \in Slots : j = call.slot => InHand(j)' = d
        /\ \A j \in Slots : ~Told(j)'
    BY <1>1, <2>1, HandRest
  <2>5. ASSUME File.func # 0
        PROVE  SlotAt(f, reads'[File.func], d, stream[File.handle], chan[File.handle].state)
    <3>1. /\ SlotAt(File, reads[File.func], call.data, stream[File.handle],
                    chan[File.handle].state)
          /\ File.func \in Reads
      BY <1>1, <2>5, CalledSlot
    <3>2. SlotAt(f, reads[File.func], d, stream[File.handle], chan[File.handle].state)
      BY <1>1, <1>2, <2>3, <3>1, HeaderRead
    <3> QED BY <2>1, <3>2
  <2>6. stream' = stream /\ \A q \in Reads : q # File.func => reads'[q] = reads[q]
    BY <1>1, <2>1 DEF Still
  <2> HIDE DEF d, u
  <2> QED BY <1>1, <2>1, <2>3, <2>4, <2>5, <2>6, ContCalled
<1>3. CASE ~good
  BY <1>1, <1>3, ContError DEF Header, CloseAndError
<1> QED BY <1>2, <1>3

\* A part of what the slot waits for.
LEMMA ContPart ==
    ASSUME SlotInv, SlotInv', ContInv,
           NEW s \in {"WAIT_HEADER", "WAIT_DATA", "WAIT_FAIL_DATA"}, PartOf(s),
           \A q \in Reads : q # File.func => reads'[q] = reads[q],
           File.func # 0 =>
               /\ reads'[File.func].reply = reads[File.func].reply
               /\ s # "WAIT_DATA" => reads'[File.func] = reads[File.func]
               /\ s = "WAIT_DATA" =>
                    reads'[File.func].got = reads[File.func].got \o call.data
    PROVE  ContInv'
<1> DEFINE f == [File EXCEPT !.remain = @ - Have]
<1>1. /\ call.kind = "data" /\ File.state = s /\ Still /\ Returns
      /\ Len(call.data) < File.remain /\ chan' = chan
      /\ files' = [files EXCEPT ![call.slot].remain = @ - Have]
  BY DEF PartOf, In, File, Have
<1>2. /\ call.slot \in Slots /\ IsFile(File) /\ files = [j \in Slots |-> files[j]]
  BY <1>1, InCallback
<1>3. files' = [files EXCEPT ![call.slot] = f]
  BY <1>1, <1>2 DEF File
<1>4. /\ f.id = File.id /\ f.remain = File.remain - Len(call.data) /\ f.state = File.state
      /\ f.func = File.func /\ f.handle = File.handle
  BY <1>2 DEF IsFile, Have
<1> HIDE DEF f
<1>5. /\ \A j \in Slots : j # call.slot => InHand(j)' = InHand(j) /\ ~Told(j)
      /\ \A j \in Slots : j = call.slot => InHand(j)' = <<>>
      /\ \A j \in Slots : ~Told(j)'
  BY <1>1, <1>2, HandReturns
<1>6. ASSUME File.func # 0
      PROVE  SlotAt(f, reads'[File.func], <<>>, stream[File.handle], chan[File.handle].state)
  <2> DEFINE x == reads[File.func]
             y == reads'[File.func]
             w == stream[File.handle]
             c == chan[File.handle].state
  <2>1. SlotAt(File, x, call.data, w, c) /\ File.func \in Reads
    BY <1>1, <1>6, CalledSlot
  <2>2. /\ y.reply = x.reply
        /\ s # "WAIT_DATA" => y = x
        /\ s = "WAIT_DATA" => y.got = x.got \o call.data
    BY <1>6
  <2> HIDE DEF x, y, w, c
  <2>3. CASE s = "WAIT_HEADER"
    <3>1. SlotAt(f, x, <<>>, w, c)
      BY <1>1, <1>4, <2>1, <2>3, HeaderPartRead
    <3> QED BY <2>2, <2>3, <3>1 DEF y, w, c
  <2>4. CASE s = "WAIT_FAIL_DATA"
    <3>1. SlotAt(f, x, <<>>, w, c)
      BY <1>1, <1>4, <2>1, <2>4, FailPartRead
    <3> QED BY <2>2, <2>4, <3>1 DEF y, w, c
  <2>5. CASE s = "WAIT_DATA"
    <3>1. SlotAt(f, y, <<>>, w, c)
      <4>1. /\ File.func \in Reads /\ SlotAt(File, x, call.data, w, c)
            /\ File.state = "WAIT_DATA" /\ Len(call.data) < File.remain
            /\ f.func = File.func /\ f.state = File.state /\ f.id = File.id
            /\ f.remain = File.remain - Len(call.data)
            /\ y.reply = x.reply /\ y.got = x.got \o call.data
        BY <1>1, <1>4, <2>1, <2>2, <2>5
      <4> QED BY ONLY <4>1, DataPartRead
    <3> QED BY <3>1 DEF y, w, c
  <2> QED BY <2>3, <2>4, <2>5
<1>7. stream' = stream
  BY <1>1 DEF Still
<1> QED BY <1>1, <1>3, <1>4, <1>5, <1>6, <1>7, ContCalled

LEMMA ContOtherPart ==
    ASSUME SlotInv, SlotInv', ContInv, HeaderPart \/ FailDataPart PROVE ContInv'
<1>1. reads' = reads
  BY DEF HeaderPart, FailDataPart
<1>2. CASE HeaderPart
  BY <1>1, <1>2, ContPart DEF HeaderPart
<1>3. CASE FailDataPart
  BY <1>1, <1>3, ContPart DEF FailDataPart
<1> QED BY <1>2, <1>3

\* What the client is handed, the slot's read has.
LEMMA TellsRead ==
    ASSUME SlotInv, ContInv, call.kind = "data", Tells(call.data)
    PROVE  /\ \A q \in Reads : q # File.func => reads'[q] = reads[q]
           /\ File.func # 0 =>
                 /\ reads'[File.func].reply = reads[File.func].reply
                 /\ reads'[File.func].got = reads[File.func].got \o call.data
<1> DEFINE r == File.func
<1>1. reads = [q \in Reads |-> reads[q]] /\ \A q \in Reads : IsRead(reads[q])
  BY InCallback
<1>2. CASE call.data = <<>>
  <2>1. reads' = reads
    BY <1>2 DEF Tells
  <2>2. ASSUME r # 0 PROVE reads[r].got \o call.data = reads[r].got
    <3>1. reads[r].got \in Seq(Units)
      BY <2>2, CalledSlot, SlotHands
    <3> QED BY <1>2, <3>1, EmptyJoins
  <2> QED BY <2>1, <2>2
<1>3. CASE call.data # <<>>
  <2> DEFINE y == [reads[r] EXCEPT !.got = @ \o call.data]
  <2>1. reads' = [reads EXCEPT ![r] = y]
    BY <1>3 DEF Tells
  <2>2. ASSUME r # 0 PROVE r \in Reads /\ IsRead(reads[r])
    BY <1>1, <2>2, CalledSlot
  <2>3. r # 0 => y.reply = reads[r].reply /\ y.got = reads[r].got \o call.data
    BY <2>2 DEF IsRead
  <2> HIDE DEF y, r
  <2>4. /\ \A q \in Reads : q # r => reads'[q] = reads[q]
        /\ r # 0 => reads'[r] = y
    BY <1>1, <2>1, <2>2
  <2> QED BY <2>3, <2>4 DEF r
<1> QED BY <1>2, <1>3

LEMMA ContDataPart ==
    ASSUME SlotInv, SlotInv', ContInv, DataPart PROVE ContInv'
<1>1. PartOf("WAIT_DATA") /\ Tells(call.data) /\ call.kind = "data"
  BY DEF DataPart, PartOf, In
<1> QED BY <1>1, TellsRead, ContPart

LEMMA ContData ==
    ASSUME SlotInv, SlotInv', ContInv, Data PROVE ContInv'
<1> DEFINE r == File.func
           units == SubSeq(call.data, 1, File.remain)
           d == From(call.data, File.remain)
           y == [reads[r] EXCEPT !.got = reads[r].got \o units]
           g == [File EXCEPT !.remain = HeaderSize, !.state = "WAIT_HEADER"]
<1>1. /\ call.kind = "data" /\ stream' = stream /\ r # 0 /\ chan' = chan
      /\ File.state = "WAIT_DATA" /\ File.id # "DONE" /\ File.remain <= Len(call.data)
      /\ call' = Rest(File.remain)
      /\ files' = [files EXCEPT ![call.slot] =
            [@ EXCEPT !.remain = HeaderSize, !.state = "WAIT_HEADER"]]
      /\ reads' = [reads EXCEPT ![r].got = @ \o units]
  BY DEF Data, In, Still, File, Have
<1>2. /\ call.slot \in Slots /\ IsFile(File) /\ files = [j \in Slots |-> files[j]]
      /\ r \in Reads
      /\ reads = [q \in Reads |-> reads[q]] /\ \A q \in Reads : IsRead(reads[q])
  BY <1>1, InCallback
<1>3. files' = [files EXCEPT ![call.slot] = g] /\ reads' = [reads EXCEPT ![r] = y]
  BY <1>1, <1>2 DEF File
<1>4. /\ g.func = r /\ g.handle = File.handle
      /\ g.state = "WAIT_HEADER" /\ g.remain = HeaderSize
  BY <1>2 DEF IsFile
<1>5. y.reply = reads[r].reply /\ y.got = reads[r].got \o units
  <2> DEFINE h == reads[r].got \o units
  <2>1. IsRead(reads[r]) /\ y = [reads[r] EXCEPT !.got = h]
    BY <1>2
  <2> HIDE DEF h, y
  <2>2. y = [state |-> reads[r].state, slot |-> reads[r].slot, reply |-> reads[r].reply,
             got |-> h, end |-> reads[r].end]
    BY <2>1, ReadChange
  <2> QED BY <2>2 DEF h
<1> HIDE DEF g, y
<1>6. reads'[r] = y /\ \A q \in Reads : q # r => reads'[q] = reads[q]
  BY <1>2, <1>3
<1>7. /\ \A j \in Slots : j # call.slot => InHand(j)' = InHand(j) /\ ~Told(j)
      /\ \A j \in Slots : j = call.slot => InHand(j)' = d
      /\ \A j \in Slots : ~Told(j)'
  BY <1>1, HandRest
<1>8. SlotAt(g, y, d, stream[File.handle], chan[File.handle].state)
  <2> DEFINE x == reads[r]
             w == stream[File.handle]
             c == chan[File.handle].state
  <2>1. SlotAt(File, x, call.data, w, c) /\ File.func \in Reads /\ File.func = r
    BY <1>1, CalledSlot
  <2>2. y.reply = x.reply /\ y.got = x.got \o units
    BY <1>5
  <2> HIDE DEF x, w, c
  <2>3. SlotAt(g, y, From(call.data, File.remain), w, c)
    BY <1>1, <1>4, <2>1, <2>2, DataRead
  <2> QED BY <2>3 DEF w, c
<1> HIDE DEF d
<1> QED BY <1>1, <1>3, <1>4, <1>6, <1>7, <1>8, ContCalled

\* What the client has when it closes the file in the callback is of the contents.
LEMMA HandsInside ==
    ASSUME SlotInv, ContInv, call.kind = "data", File.func # 0,
           File.state = "WAIT_DATA", NEW x, NEW y, x = reads[File.func],
           y.reply = x.reply, y.end = "no",
           \/ /\ Len(call.data) < File.remain
              /\ y.got = x.got \o call.data
           \/ /\ File.remain <= Len(call.data)
              /\ y.got = x.got \o SubSeq(call.data, 1, File.remain)
    PROVE  HandsOf(y, File.func)
<1> DEFINE r == File.func
           w == stream[File.handle]
           c == chan[File.handle].state
<1>1. SlotAt(File, x, call.data, w, c) /\ r \in Reads /\ IsFile(File)
  BY CalledSlot, InCallback
<1> HIDE DEF w, c
<1>2. CASE Len(call.data) < File.remain /\ y.got = x.got \o call.data
  <2> DEFINE f == [state |-> File.state, func |-> r, handle |-> File.handle,
                   remain |-> File.remain - Len(call.data), id |-> File.id,
                   size |-> File.size]
  <2>1. /\ f.func = File.func /\ f.state = File.state /\ f.id = File.id
        /\ f.remain = File.remain - Len(call.data)
    OBVIOUS
  <2> HIDE DEF f
  <2>2. SlotAt(f, y, <<>>, w, c)
    BY <1>1, <1>2, <2>1, DataPartRead
  <2> QED BY <1>1, <2>1, <2>2, SlotHands DEF HandsOf
<1>3. CASE /\ File.remain <= Len(call.data)
           /\ y.got = x.got \o SubSeq(call.data, 1, File.remain)
  <2>1. CASE File.id # "DONE"
    <3> DEFINE g == [state |-> "WAIT_HEADER", func |-> r, handle |-> File.handle,
                     remain |-> HeaderSize, id |-> File.id, size |-> File.size]
    <3>1. /\ g.func = r /\ g.state = "WAIT_HEADER" /\ g.remain = HeaderSize
      OBVIOUS
    <3> HIDE DEF g
    <3>2. SlotAt(g, y, From(call.data, File.remain), w, c)
      BY <1>1, <1>3, <2>1, <3>1, DataRead
    <3> QED BY <1>1, <3>1, <3>2, SlotHands DEF HandsOf
  <2>2. CASE File.id = "DONE"
    <3>1. x.got = ContentsOf(r, x.reply) /\ File.remain = 0
      BY <1>1, <2>2, DoneRead
    <3>2. SubSeq(call.data, 1, 0) = <<>> /\ x.got \in Seq(Units)
      BY <1>1, SlotHands
    <3>3. y.got = x.got
      BY <1>3, <3>1, <3>2, EmptyJoins
    <3>4. HandsOf(x, r)
      BY <1>1 DEF ContInv
    <3> QED BY <3>3, <3>4 DEF HandsOf
  <2> QED BY <2>1, <2>2
<1> QED BY <1>2, <1>3

LEMMA ContDataClosed ==
    ASSUME SlotInv, SlotInv', ContInv, DataClosed \/ DataPartClosed PROVE ContInv'
<1> DEFINE i == call.slot
           r == files[i].func
<1>1. PICK units, f :
          /\ ClosesInside(units, f) /\ f.func = 0
          /\ \/ Len(call.data) < File.remain /\ units = call.data
             \/ /\ File.remain <= Len(call.data)
                /\ units = SubSeq(call.data, 1, File.remain)
          /\ call' = call \/ Returns
          /\ call.kind = "data" /\ Still /\ File.func # 0 /\ File.state = "WAIT_DATA"
  <2>1. CASE DataClosed
    <3>1. /\ ClosesInside(SubSeq(call.data, 1, File.remain), Loose)
          /\ File.remain <= Len(call.data)
          /\ call' = call /\ call.kind = "data" /\ Still /\ File.func # 0
          /\ File.state = "WAIT_DATA"
      BY <2>1 DEF DataClosed, In, File, Have
    <3> QED BY <3>1, LooseIs
  <2>2. CASE DataPartClosed
    <3>1. /\ ClosesInside(call.data, FreeFile) /\ Len(call.data) < File.remain
          /\ Returns /\ call.kind = "data" /\ Still /\ File.func # 0
          /\ File.state = "WAIT_DATA"
      BY <2>2 DEF DataPartClosed, In, File, Have
    <3> QED BY <3>1, FreeIs
  <2> QED BY <2>1, <2>2
<1>2. /\ i \in Slots /\ files = [j \in Slots |-> files[j]]
      /\ r \in Reads /\ reads[r].end = "no"
      /\ reads = [q \in Reads |-> reads[q]] /\ \A q \in Reads : IsRead(reads[q])
      /\ \A j \in Slots : j # i => ~Told(j)
  BY <1>1, InCallback DEF File
<1> DEFINE y == [[reads[r] EXCEPT !.got = reads[r].got \o units] EXCEPT !.state = "closed"]
<1>3. /\ files' = [files EXCEPT ![i] = f] /\ reads' = [reads EXCEPT ![r] = y]
      /\ chan' = Closed(chan, files[i].handle) /\ stream' = stream
  BY <1>1, <1>2 DEF ClosesInside, File, Still
<1>4. y.reply = reads[r].reply /\ y.got = reads[r].got \o units /\ y.end = "no"
  <2> DEFINE h == reads[r].got \o units
             a == [reads[r] EXCEPT !.got = h]
  <2>1. y = [a EXCEPT !.state = "closed"]
    OBVIOUS
  <2> HIDE DEF h, y
  <2>2. a = [state |-> reads[r].state, slot |-> reads[r].slot, reply |-> reads[r].reply,
             got |-> h, end |-> reads[r].end]
    BY <1>2, ReadChange
  <2> HIDE DEF a
  <2>3. y = [state |-> "closed", slot |-> reads[r].slot, reply |-> reads[r].reply,
             got |-> h, end |-> reads[r].end]
    BY <2>1, <2>2
  <2> QED BY <1>2, <2>3 DEF h
<1> HIDE DEF y
<1>5. /\ files'[i] = f /\ \A j \in Slots : j # i => files'[j] = files[j]
      /\ reads'[r] = y /\ \A q \in Reads : q # r => reads'[q] = reads[q]
  BY <1>2, <1>3
<1>6. HandsOf(y, r)
  <2>1. r = File.func
    BY DEF File
  <2> HIDE DEF r
  <2> QED BY ONLY SlotInv, ContInv, <1>1, <1>4, <2>1, HandsInside
<1>7. \A q \in Reads : q = r => HandsOf(reads'[q], q)
  BY <1>5, <1>6
<1>8. \A j \in Slots : j # i => InHand(j)' = InHand(j) /\ ~Told(j)
  <2>1. CASE Returns
    BY <1>1, <2>1, HandReturns
  <2>2. CASE call' = call
    BY <1>2, <2>2 DEF InHand
  <2> QED BY <1>1, <2>1, <2>2
<1>9. files'[i].func = 0
  BY <1>1, <1>5
<1> HIDE DEF i, r
<1> QED BY <1>2, <1>3, <1>5, <1>7, <1>8, <1>9, ContReleases DEF r

LEMMA ContDataDone ==
    ASSUME SlotInv, SlotInv', ContInv, DataDone PROVE ContInv'
<1> DEFINE i == call.slot
           r == files[i].func
<1>1. /\ call.kind = "data" /\ Still /\ File.func # 0
      /\ File.state = "WAIT_DATA" /\ File.id = "DONE"
  BY DEF DataDone, In, File
<1>2. /\ i \in Slots /\ files = [j \in Slots |-> files[j]]
      /\ r \in Reads /\ reads[r].end = "no"
      /\ reads = [q \in Reads |-> reads[q]] /\ \A q \in Reads : IsRead(reads[q])
  BY <1>1, InCallback DEF File
<1>3. CASE Have # File.remain
  BY <1>1, <1>3, ContError DEF DataDone, CloseAndError
<1>4. CASE Have = File.remain
  <2>1. /\ reads' = [reads EXCEPT ![File.func].end = IF @ = "no" THEN "eof" ELSE "again"]
        /\ \/ chan' = Closed(chan, File.handle)
           \/ chan' = Closed(Closed(chan, File.handle), 0)
        /\ files' = [files EXCEPT ![call.slot] = FreeFile]
        /\ Returns
    BY <1>4 DEF DataDone, TellsEnd
  <2> DEFINE y == [reads[r] EXCEPT !.end = "eof"]
  <2>2. reads' = [reads EXCEPT ![r] = y] /\ files' = [files EXCEPT ![i] = FreeFile]
    BY <2>1, <1>2 DEF File
  <2>3. y.got = reads[r].got /\ y.reply = reads[r].reply
    <3>1. IsRead(reads[r]) /\ "eof" \in Ends
      BY <1>2 DEF Ends
    <3> QED BY <3>1, ReadEnd
  <2> HIDE DEF y
  <2>4. /\ files'[i] = FreeFile /\ \A j \in Slots : j # i => files'[j] = files[j]
        /\ reads'[r] = y /\ \A q \in Reads : q # r => reads'[q] = reads[q]
    BY <1>2, <2>2
  <2>5. reads[r].got = ContentsOf(r, reads[r].reply)
    <3>1. /\ SlotAt(File, reads[r], call.data, stream[File.handle], chan[File.handle].state)
          /\ File.func \in Reads /\ File.func = r
      BY <1>1, CalledSlot DEF File
    <3> QED BY <1>1, <3>1, DoneRead
  <2>6. HandsOf(y, r)
    BY <1>2, <2>3, <2>5 DEF ContInv, HandsOf
  <2>7. \A q \in Reads : q = r => HandsOf(reads'[q], q)
    BY <2>4, <2>6
  <2>8. \A j \in Slots : j # i => InHand(j)' = InHand(j) /\ ~Told(j)
    BY <1>1, <2>1, HandReturns
  <2>9. /\ files'[i].func = 0 /\ stream' = stream
        /\ \/ chan' = Closed(chan, files[i].handle)
           \/ chan' = Closed(Closed(chan, files[i].handle), 0)
    BY <1>1, <2>1, <2>4, FreeIs DEF File, Still
  <2> HIDE DEF i, r
  <2> QED BY <1>2, <2>4, <2>7, <2>8, <2>9, ContReleases DEF r
<1> QED BY <1>3, <1>4

LEMMA ContCallback ==
    ASSUME SlotInv, SlotInv', ContInv, Callback PROVE ContInv'
<1>1. CASE ClosedUnexpectedly
  BY <1>1, ContError DEF ClosedUnexpectedly
<1>2. CASE Unasked \/ FailData
  BY <1>2, ContError DEF Unasked, FailData, In, CloseAndError
<1>3. CASE NobodyToTell
  BY <1>3, ContElsewhere DEF NobodyToTell, CallsNull, Still
<1> QED BY <1>1, <1>2, <1>3, ContHeader, ContOtherPart, ContDataPart, ContData,
           ContDataClosed, ContDataDone DEF Callback

LEMMA ContNext ==
    ASSUME SlotInv, SlotInv', ContInv, [Next]_vars PROVE ContInv'
<1>1. ASSUME NEW h \in Channels,
             \/ Opens(h) \/ Acknowledges(h) \/ SpeaksFirst(h) \/ PhoneCloses(h)
             \/ \E n \in 1 .. MaxPacket : Packet(h, n)
      PROVE  ContInv'
  BY <1>1, ContOpens, ContAcknowledges, ContSpeaksFirst, ContPhoneCloses, ContPacket
<1>2. CASE StartReset
  BY <1>2, ContElsewhere DEF StartReset
<1>3. CASE UNCHANGED vars
  BY <1>3, ContElsewhere DEF vars
<1> QED BY <1>1, <1>2, <1>3, ContRead, ContClose, ContFileTasks, ContResetOne,
           ContReattach, ContAppOpens, ContCallback DEF Next

\* If the application has the first channel, a client is handed the contents of
\* its own file, for any replies cut into packets of any size, and the end of
\* the file after the last unit: however the callback's calls divide headers and
\* data, and whatever is read, closed or reset at the same time.
THEOREM ContentsAreHanded == AppFirst /\ Spec => []HandsContents
<1>1. ContInv => HandsContents
  BY DEF ContInv, HandsOf, HandsContents
<1>2. CASE AppFirst
  <2>1. Init => SlotInv /\ ContInv
    BY <1>2, InitSlot, ContInit
  <2>2. SlotInv /\ ContInv /\ [Next]_vars => (SlotInv /\ ContInv)'
    BY <1>2, SlotStep, ContNext
  <2> QED BY <1>1, <2>1, <2>2, PTL DEF Spec
<1> QED BY <1>2

====
