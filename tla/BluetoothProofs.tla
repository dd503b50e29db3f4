-------------------------- MODULE BluetoothProofs --------------------------
(***************************************************************************)
(* Safety properties of Bluetooth, for any number of sessions, packets,    *)
(* slots and credits and a pool of any size.                               *)
(***************************************************************************)
EXTENDS Bluetooth, FiniteSetTheorems, TLAPS

----------------------------------------------------------------------------
(* The state of the stack is made of records.  The channels are a list of  *)
(* records with numbers of their own; an operator on the state that only   *)
(* looks at the list is one on lists here.                                 *)

Chans(X) == X.l2cap.channels

CidsOf(list)       == {list[i].cid : i \in DOMAIN list}
PlaceIn(list, cid) == CHOOSE i \in DOMAIN list : list[i].cid = cid
On(list, cid)      == list[PlaceIn(list, cid)]

IsList(list) == list \in Seq({list[i] : i \in DOMAIN list})

IsChannel(c) ==
    DOMAIN c = {"cid", "remote", "psm", "state", "vars", "remote_sig",
                "local_sig", "granted", "mtu", "reason"}

IsChannelList(list) ==
    /\ IsList(list)
    /\ \A i \in DOMAIN list : IsChannel(list[i])
    /\ \A i, j \in DOMAIN list : list[i].cid = list[j].cid => i = j

HasConn(X) == X.hci.conn # NONE

IsStack(X) ==
    /\ DOMAIN X = {"usb", "hci", "l2cap", "rfcomm", "sdp", "app"}
    /\ DOMAIN X.usb = {"intIn", "bulkIn", "ctrlOut", "bulkOut", "buffer"}
    /\ DOMAIN X.hci = {"state", "substate", "num_cmd", "total_acl", "conn", "decline",
                       "scan", "discoverable", "connectable", "overrun"}
    /\ DOMAIN X.l2cap = {"channels", "responses", "next_cid", "next_sig"}
    /\ DOMAIN X.rfcomm = {"mux", "channel", "next_cid"}
    /\ DOMAIN X.sdp = {"cid", "response"}
    /\ DOMAIN X.app = {"channel", "credit", "open", "got"}
    /\ HasConn(X) => /\ DOMAIN X.hci.conn = {"cmd", "addr", "state", "open", "sent",
                                             "recombination"}
                     /\ X.hci.conn.cmd = "CONN"
    /\ HasMux(X) => /\ DOMAIN X.rfcomm.mux = {"cmd", "state", "l2cap_cid", "credits", "dm"}
                    /\ X.rfcomm.mux.cmd = "MUX"
    /\ HasChannel(X) => /\ DOMAIN X.rfcomm.channel = {"cmd", "cid", "dlci", "state", "vars",
                                                      "out", "in", "new", "granted"}
                        /\ X.rfcomm.channel.cmd = "DLC"
    /\ IsChannelList(Chans(X))

LEMMA Lists ==
    ASSUME NEW X
    PROVE  /\ Cids(X) = CidsOf(Chans(X))
           /\ \A cid : Channel(X, cid) = On(Chans(X), cid)
           /\ \A cid : PlaceOf(X, cid) = PlaceIn(Chans(X), cid)
BY Zenon DEF Cids, CidsOf, Channel, On, PlaceOf, PlaceIn, Chans

LEMMA PlaceIs ==
    ASSUME NEW list, NEW cid \in CidsOf(list)
    PROVE  PlaceIn(list, cid) \in DOMAIN list /\ On(list, cid).cid = cid
BY DEF CidsOf, PlaceIn, On

LEMMA OnlyOne ==
    ASSUME NEW list, IsChannelList(list), NEW i \in DOMAIN list
    PROVE  list[i].cid \in CidsOf(list) /\ On(list, list[i].cid) = list[i]
<1>1. list[i].cid \in CidsOf(list)
  BY DEF CidsOf
<1>2. PlaceIn(list, list[i].cid) = i
  BY <1>1, PlaceIs DEF IsChannelList, On
<1> QED BY <1>1, <1>2 DEF On

LEMMA ListBasics ==
    ASSUME NEW list, IsList(list)
    PROVE  Len(list) \in Nat /\ DOMAIN list = 1 .. Len(list) /\ list = [i \in 1 .. Len(list) |-> list[i]]
BY DEF IsList

LEMMA ListIs ==
    ASSUME NEW n \in Nat, NEW list, list = [i \in 1 .. n |-> list[i]]
    PROVE  IsList(list) /\ Len(list) = n
BY DEF IsList

\* What SetChannel, RemoveChannel and a new channel make of the list.
LEMMA SetInList ==
    ASSUME NEW list, IsChannelList(list), NEW c, IsChannel(c), c.cid \in CidsOf(list),
           NEW new, new = [i \in DOMAIN list |-> IF list[i].cid = c.cid THEN c ELSE list[i]]
    PROVE  /\ IsChannelList(new)
           /\ CidsOf(new) = CidsOf(list)
           /\ On(new, c.cid) = c
           /\ \A cid \in CidsOf(list) : cid # c.cid => On(new, cid) = On(list, cid)
<1>1. Len(list) \in Nat /\ DOMAIN list = 1 .. Len(list)
  BY ListBasics DEF IsChannelList
<1>2. DOMAIN new = DOMAIN list /\ \A i \in DOMAIN list : new[i].cid = list[i].cid
  OBVIOUS
<1>3. new = [i \in 1 .. Len(list) |-> new[i]]
  BY <1>1
<1>4. IsList(new)
  BY <1>1, <1>3, ListIs
<1>5. \A i \in DOMAIN new : IsChannel(new[i])
  BY <1>2 DEF IsChannelList
<1>6. IsChannelList(new)
  BY <1>2, <1>4, <1>5 DEF IsChannelList
<1>7. CidsOf(new) = CidsOf(list)
  BY <1>2 DEF CidsOf
<1>8. ASSUME NEW cid \in CidsOf(list)
      PROVE  On(new, cid) = IF cid = c.cid THEN c ELSE On(list, cid)
  <2>1. PICK i \in DOMAIN list : list[i].cid = cid
    BY DEF CidsOf
  <2>2. new[i].cid = cid /\ i \in DOMAIN new
    BY <1>2, <2>1
  <2>3. On(new, cid) = new[i] /\ On(list, cid) = list[i]
    BY <1>6, <2>1, <2>2, OnlyOne
  <2> QED BY <2>1, <2>3
<1> QED BY <1>6, <1>7, <1>8

LEMMA RemoveInList ==
    ASSUME NEW list, IsChannelList(list), NEW cid \in CidsOf(list),
           NEW new, new = RemoveAt(list, PlaceIn(list, cid))
    PROVE  /\ IsChannelList(new)
           /\ CidsOf(new) = CidsOf(list) \ {cid}
           /\ \A d \in CidsOf(new) : On(new, d) = On(list, d)
<1> DEFINE n == Len(list)
           p == PlaceIn(list, cid)
           Elems == {list[i] : i \in DOMAIN list}
<1>1. n \in Nat /\ DOMAIN list = 1 .. n /\ list \in Seq(Elems)
  BY ListBasics DEF IsChannelList, IsList
<1>2. p \in 1 .. n /\ list[p].cid = cid
  BY <1>1, PlaceIs DEF On
<1> HIDE DEF n, p
<1>3. new = SubSeq(list, 1, p - 1) \o SubSeq(list, p + 1, n)
  BY DEF RemoveAt, n, p
<1> HIDE DEF Elems
<1>4. /\ SubSeq(list, 1, p - 1) \in Seq(Elems) /\ Len(SubSeq(list, 1, p - 1)) = p - 1
      /\ \A i \in 1 .. p - 1 : SubSeq(list, 1, p - 1)[i] = list[i]
  BY <1>1, <1>2 DEF n
<1>5. /\ SubSeq(list, p + 1, n) \in Seq(Elems) /\ Len(SubSeq(list, p + 1, n)) = n - p
      /\ \A i \in 1 .. n - p : SubSeq(list, p + 1, n)[i] = list[p + i]
  <2>1. p + 1 \in Nat /\ p + 1 >= 1 /\ p + 1 <= n + 1 /\ (1 + n) - (p + 1) = n - p
    BY <1>1, <1>2
  <2> DEFINE q == p + 1
  <2>2. q \in Nat /\ q >= 1 /\ q <= n + 1 /\ q = p + 1
    BY <2>1
  <2> HIDE DEF q
  <2>3. /\ SubSeq(list, q, n) \in Seq(Elems) /\ Len(SubSeq(list, q, n)) = (1 + n) - q
        /\ \A i \in 1 .. (1 + n) - q : SubSeq(list, q, n)[i] = list[i + q - 1]
    BY <1>1, <2>2 DEF n
  <2>4. (1 + n) - q = n - p /\ \A i \in 1 .. n - p : i + q - 1 = p + i
    BY <1>1, <1>2, <2>2
  <2> QED BY <2>2, <2>3, <2>4
<1>6. Len(new) = n - 1 /\ DOMAIN new = 1 .. n - 1
  BY <1>1, <1>2, <1>3, <1>4, <1>5
<1>7. \A i \in 1 .. n - 1 : new[i] = IF i < p THEN list[i] ELSE list[i + 1]
  <2> TAKE i \in 1 .. n - 1
  <2>1. CASE i < p
    BY <2>1, <1>1, <1>2, <1>3, <1>4, <1>5
  <2>2. CASE ~(i < p)
    <3>3. i - (p - 1) \in 1 .. n - p /\ i \in 1 .. (p - 1) + (n - p) /\ ~(i <= p - 1)
      BY <2>2, <1>1, <1>2
    <3> DEFINE front == SubSeq(list, 1, p - 1)
               back  == SubSeq(list, p + 1, n)
    <3>4. front \in Seq(Elems) /\ back \in Seq(Elems) /\ Len(front) = p - 1 /\ Len(back) = n - p
      BY <1>4, <1>5
    <3> HIDE DEF front, back
    <3>5. (front \o back)[i] = back[i - Len(front)]
      BY <3>3, <3>4, <1>1, <1>2
    <3>1. new[i] = SubSeq(list, p + 1, n)[i - (p - 1)] /\ i - (p - 1) \in 1 .. n - p
      BY <3>3, <3>4, <3>5, <1>3 DEF front, back
    <3>2. p + (i - (p - 1)) = i + 1
      BY <1>2
    <3> QED BY <2>2, <3>1, <3>2, <1>5
  <2> QED BY <2>1, <2>2
<1>8. IsList(new)
  <2>1. new \in Seq(Elems)
    BY <1>3, <1>4, <1>5
  <2>2. new = [i \in 1 .. n - 1 |-> new[i]] /\ n - 1 \in Nat
    BY <1>1, <1>2, <1>6, <2>1
  <2> QED BY <2>2, ListIs
<1>9. \A i \in DOMAIN new : \E j \in DOMAIN list : j # p /\ new[i] = list[j]
  <2> TAKE i \in DOMAIN new
  <2>1. CASE i < p
    BY <2>1, <1>1, <1>2, <1>6, <1>7
  <2>2. CASE ~(i < p)
    <3>1. i + 1 \in DOMAIN list /\ i + 1 # p
      BY <2>2, <1>1, <1>2, <1>6
    <3> QED BY <2>2, <3>1, <1>6, <1>7
  <2> QED BY <2>1, <2>2
<1>10. \A j \in DOMAIN list : j # p => \E i \in DOMAIN new : new[i] = list[j]
  <2> TAKE j \in DOMAIN list
  <2>1. CASE j < p
    BY <2>1, <1>1, <1>2, <1>6, <1>7
  <2>2. CASE j > p
    <3>1. j - 1 \in DOMAIN new /\ ~(j - 1 < p) /\ (j - 1) + 1 = j
      BY <2>2, <1>1, <1>2, <1>6
    <3> QED BY <3>1, <1>6, <1>7
  <2> QED BY <2>1, <2>2, <1>1, <1>2
<1>11. \A i, j \in DOMAIN new : new[i].cid = new[j].cid => i = j
  <2> TAKE i, j \in DOMAIN new
  <2> DEFINE At(k) == IF k < p THEN k ELSE k + 1
  <2>1. /\ At(i) \in DOMAIN list /\ new[i] = list[At(i)]
        /\ At(j) \in DOMAIN list /\ new[j] = list[At(j)]
    BY <1>1, <1>2, <1>6, <1>7
  <2>2. At(i) = At(j) => i = j
    BY <1>1, <1>2, <1>6
  <2> QED BY <2>1, <2>2 DEF IsChannelList
<1>12. IsChannelList(new)
  BY <1>8, <1>9, <1>11 DEF IsChannelList
<1>13. \A j \in DOMAIN list : list[j].cid = cid => j = p
  BY <1>1, <1>2 DEF IsChannelList
<1>14. CidsOf(new) = CidsOf(list) \ {cid}
  BY <1>9, <1>10, <1>13, <1>1, <1>2 DEF CidsOf
<1>15. ASSUME NEW d \in CidsOf(new) PROVE On(new, d) = On(list, d)
  <2>1. PICK i \in DOMAIN new : new[i].cid = d
    BY DEF CidsOf
  <2>2. PICK j \in DOMAIN list : new[i] = list[j]
    BY <1>9
  <2> QED BY <2>1, <2>2, <1>12, OnlyOne
<1> QED BY <1>12, <1>14, <1>15

InFront(c, list) == <<c>> \o list

LEMMA NewInList ==
    ASSUME NEW list, IsChannelList(list), NEW c, IsChannel(c), c.cid \notin CidsOf(list),
           NEW new, new = InFront(c, list)
    PROVE  /\ IsChannelList(new)
           /\ CidsOf(new) = CidsOf(list) \union {c.cid}
           /\ On(new, c.cid) = c
           /\ \A d \in CidsOf(list) : On(new, d) = On(list, d)
<1> DEFINE n == Len(list)
           Elems == {list[i] : i \in DOMAIN list} \union {c}
<1>1. n \in Nat /\ DOMAIN list = 1 .. n
  BY ListBasics DEF IsChannelList, IsList
<1>2. list \in Seq(Elems)
  <2>1. list = [i \in 1 .. n |-> list[i]]
    BY ListBasics DEF IsChannelList
  <2> QED BY <1>1, <2>1
<1> HIDE DEF n
<1>3. <<c>> \in Seq(Elems) /\ Len(<<c>>) = 1 /\ <<c>>[1] = c
  OBVIOUS
<1> HIDE DEF Elems
<1>13. new = <<c>> \o list
  BY DEF InFront
<1>4. new \in Seq(Elems) /\ Len(new) = n + 1 /\ DOMAIN new = 1 .. n + 1
  BY <1>1, <1>2, <1>3, <1>13 DEF n
<1>5. new[1] = c /\ \A i \in 1 .. n : new[i + 1] = list[i]
  BY <1>1, <1>2, <1>3, <1>13 DEF n
<1>6. IsList(new)
  <2>1. new = [i \in 1 .. n + 1 |-> new[i]] /\ n + 1 \in Nat
    BY <1>1, <1>4
  <2> QED BY <2>1, ListIs
<1>7. \A i \in DOMAIN new :
        \/ i = 1 /\ new[i] = c
        \/ i # 1 /\ i - 1 \in DOMAIN list /\ new[i] = list[i - 1]
  <2> TAKE i \in DOMAIN new
  <2>1. CASE i = 1
    <3>1. new[1] = c
      BY <1>5
    <3>2. i = 1 /\ new[i] = c
      BY <2>1, <3>1
    <3> QED BY <3>2
  <2>2. CASE i # 1
    <3> DEFINE k == i - 1
    <3>1. k \in 1 .. n /\ k + 1 = i
      BY <2>2, <1>1, <1>4
    <3> HIDE DEF k
    <3>2. new[k + 1] = list[k]
      BY <3>1, <1>5
    <3> QED BY <2>2, <3>1, <3>2, <1>1 DEF k
  <2> QED BY <2>1, <2>2
<1>8. \A i \in DOMAIN list : list[i].cid # c.cid
  BY DEF CidsOf
<1>9. IsChannelList(new)
  <2>1. \A i \in DOMAIN new : IsChannel(new[i])
    BY <1>7 DEF IsChannelList
  <2>2. \A i, j \in DOMAIN new : new[i].cid = new[j].cid => i = j
    <3> TAKE i, j \in DOMAIN new
    <3>1. i \in Int /\ j \in Int
      BY <1>4
    <3>2. i # 1 /\ j # 1 /\ i - 1 = j - 1 => i = j
      BY <3>1
    <3> QED BY <3>1, <3>2, <1>7, <1>8 DEF IsChannelList
  <2> QED BY <1>6, <2>1, <2>2 DEF IsChannelList
<1>10. CidsOf(new) = CidsOf(list) \union {c.cid}
  <2>1. 1 \in DOMAIN new /\ \A i \in DOMAIN list : i + 1 \in DOMAIN new /\ new[i + 1] = list[i]
    BY <1>1, <1>4, <1>5
  <2>2. CidsOf(new) \subseteq CidsOf(list) \union {c.cid}
    BY <1>7 DEF CidsOf
  <2>3. c.cid \in CidsOf(new)
    BY <2>1, <1>5 DEF CidsOf
  <2>4. ASSUME NEW d \in CidsOf(list) PROVE d \in CidsOf(new)
    <3>1. PICK i \in DOMAIN list : list[i].cid = d
      BY DEF CidsOf
    <3>2. new[i + 1].cid = d
      BY <2>1, <3>1
    <3> QED BY <2>1, <3>2 DEF CidsOf
  <2> QED BY <2>2, <2>3, <2>4
<1>11. On(new, c.cid) = c
  <2>1. 1 \in DOMAIN new
    BY <1>1, <1>4
  <2> QED BY <2>1, <1>5, <1>9, OnlyOne
<1>12. ASSUME NEW d \in CidsOf(list) PROVE On(new, d) = On(list, d)
  <2>1. PICK i \in DOMAIN list : list[i].cid = d
    BY DEF CidsOf
  <2>2. i + 1 \in DOMAIN new /\ new[i + 1] = list[i]
    BY <1>1, <1>4, <1>5
  <2> QED BY <2>1, <2>2, <1>9, OnlyOne
<1> QED BY <1>9, <1>10, <1>11, <1>12
----------------------------------------------------------------------------
(* What a function of the stack may change.  Low is what those above hci   *)
(* do to what is below them: they fill the buffer only while the bulk      *)
(* endpoint is free, and with no connection they start nothing.            *)

SameConn(X, Y) ==
    /\ HasConn(Y) <=> HasConn(X)
    /\ HasConn(X) => /\ Y.hci.conn.addr = X.hci.conn.addr
                     /\ Y.hci.conn.state = X.hci.conn.state
                     /\ Y.hci.conn.open = X.hci.conn.open

SameHci(X, Y) ==
    /\ Y.hci.state = X.hci.state
    /\ Y.hci.substate = X.hci.substate
    /\ Y.hci.num_cmd = X.hci.num_cmd
    /\ Y.hci.decline = X.hci.decline
    /\ Y.hci.scan = X.hci.scan
    /\ Y.hci.discoverable = X.hci.discoverable
    /\ Y.hci.overrun = X.hci.overrun

\* A packet that goes out takes a slot of the controller that is free.
Counted(X, Y) ==
    /\ Y.hci.total_acl = X.hci.total_acl
    /\ HasConn(X) =>
        \/ Y.usb.bulkOut = X.usb.bulkOut /\ Y.hci.conn.sent = X.hci.conn.sent
        \/ /\ X.usb.bulkOut = NONE /\ Y.usb.bulkOut # NONE
           /\ hci_number_free_acl_slots(X) # 0
           /\ Y.hci.conn.sent = X.hci.conn.sent + 1

Low(X, Y) ==
    /\ Y.usb.ctrlOut = X.usb.ctrlOut
    /\ SameHci(X, Y)
    /\ SameConn(X, Y)
    /\ Counted(X, Y)
    /\ \/ Y.usb.bulkOut = X.usb.bulkOut /\ Y.usb.buffer = X.usb.buffer
       \/ X.usb.bulkOut = NONE /\ Y.usb.bulkOut \in {NONE, Y.usb.buffer}
    /\ ~connection_for_handle(X) => Y.usb.bulkOut = X.usb.bulkOut

SameList(X, Y) ==
    /\ Y.l2cap.next_cid = X.l2cap.next_cid
    /\ CidsOf(Chans(Y)) = CidsOf(Chans(X))
    /\ \A cid \in CidsOf(Chans(X)) :
          /\ On(Chans(Y), cid).psm = On(Chans(X), cid).psm
          /\ On(Chans(Y), cid).state = On(Chans(X), cid).state

SameMux(X, Y) ==
    /\ Y.sdp.cid = X.sdp.cid
    /\ HasMux(Y) <=> HasMux(X)
    /\ HasMux(X) => /\ Y.rfcomm.mux.l2cap_cid = X.rfcomm.mux.l2cap_cid
                    /\ Y.rfcomm.mux.state = X.rfcomm.mux.state

SameApp(X, Y) ==
    /\ Y.app.open = X.app.open
    /\ Y.app.channel = X.app.channel
    /\ HasChannel(Y) <=> HasChannel(X)
    /\ HasChannel(X) => /\ Y.rfcomm.channel.cid = X.rfcomm.channel.cid
                        /\ Y.rfcomm.channel.state = X.rfcomm.channel.state

\* Sending, credits, marks and answers that wait: nobody's state changes.
Alike(X, Y) ==
    /\ IsStack(Y)
    /\ Low(X, Y)
    /\ SameList(X, Y)
    /\ SameMux(X, Y)
    /\ SameApp(X, Y)

LEMMA LowIsOrder ==
    ASSUME NEW X, NEW Y, NEW Z
    PROVE  /\ Low(X, X)
           /\ Low(X, Y) /\ Low(Y, Z) => Low(X, Z)
<1>1. Low(X, X)
  BY DEF Low, SameHci, SameConn, Counted, connection_for_handle, HasConn
<1>2. ASSUME Low(X, Y), Low(Y, Z)
      PROVE  Low(X, Z)
  <2>1. SameHci(X, Z) /\ SameConn(X, Z) /\ Z.usb.ctrlOut = X.usb.ctrlOut
    BY <1>2 DEF Low, SameHci, SameConn
  <2>2. connection_for_handle(Y) <=> connection_for_handle(X)
    BY <1>2 DEF Low, SameConn, connection_for_handle, HasConn
  <2>3. Counted(X, Z)
    <3>1. Counted(X, Y) /\ Counted(Y, Z) /\ SameConn(X, Y)
      BY <1>2 DEF Low
    <3>2. HasConn(X) /\ Y.hci.total_acl = X.hci.total_acl /\ Y.hci.conn.sent = X.hci.conn.sent =>
            hci_number_free_acl_slots(Y) = hci_number_free_acl_slots(X)
      BY <3>1 DEF SameConn, HasConn, hci_number_free_acl_slots
    <3> QED BY <3>1, <3>2 DEF Counted, SameConn
  <2> QED BY <1>2, <2>1, <2>2, <2>3 DEF Low
<1> QED BY <1>1, <1>2

LEMMA AlikeIsOrder ==
    ASSUME NEW X, NEW Y, NEW Z
    PROVE  /\ IsStack(X) => Alike(X, X)
           /\ Alike(X, Y) /\ Alike(Y, Z) => Alike(X, Z)
<1>1. IsStack(X) => Alike(X, X)
  BY LowIsOrder DEF Alike, SameList, SameMux, SameApp
<1>2. ASSUME Alike(X, Y), Alike(Y, Z)
      PROVE  Alike(X, Z)
  <2>1. IsStack(Z) /\ Low(X, Z)
    BY <1>2, LowIsOrder DEF Alike
  <2>2. SameList(X, Z)
    BY <1>2 DEF Alike, SameList
  <2>3. SameMux(X, Z)
    BY <1>2 DEF Alike, SameMux
  <2>4. SameApp(X, Z)
    BY <1>2 DEF Alike, SameApp
  <2> QED BY <2>1, <2>2, <2>3, <2>4 DEF Alike
<1> QED BY <1>1, <1>2

\* A list of which only the details of the channels change.
LEMMA DetailsInList ==
    ASSUME NEW list, IsChannelList(list), NEW new, new = [i \in DOMAIN list |-> new[i]],
           \A i \in DOMAIN list : /\ IsChannel(new[i])
                                  /\ new[i].cid = list[i].cid
                                  /\ new[i].psm = list[i].psm
                                  /\ new[i].state = list[i].state
    PROVE  /\ IsChannelList(new)
           /\ CidsOf(new) = CidsOf(list)
           /\ \A cid \in CidsOf(list) : /\ On(new, cid).psm = On(list, cid).psm
                                        /\ On(new, cid).state = On(list, cid).state
<1>1. Len(list) \in Nat /\ DOMAIN list = 1 .. Len(list)
  BY ListBasics DEF IsChannelList
<1>2. DOMAIN new = DOMAIN list
  OBVIOUS
<1>3. IsList(new)
  BY <1>1, ListIs
<1>4. IsChannelList(new)
  BY <1>2, <1>3 DEF IsChannelList
<1>5. CidsOf(new) = CidsOf(list)
  BY <1>2 DEF CidsOf
<1>6. ASSUME NEW cid \in CidsOf(list)
      PROVE  /\ On(new, cid).psm = On(list, cid).psm
             /\ On(new, cid).state = On(list, cid).state
  <2>1. PICK i \in DOMAIN list : list[i].cid = cid
    BY DEF CidsOf
  <2>2. new[i].cid = cid /\ i \in DOMAIN new
    BY <1>2, <2>1
  <2>3. On(new, cid) = new[i] /\ On(list, cid) = list[i]
    BY <1>4, <2>1, <2>2, OnlyOne
  <2> QED BY <2>1, <2>3
<1> QED BY <1>4, <1>5, <1>6

OnlyL2cap(X, Y) ==
    /\ Y.usb = X.usb
    /\ Y.hci = X.hci
    /\ Y.rfcomm = X.rfcomm
    /\ Y.sdp = X.sdp
    /\ Y.app = X.app

\* A list put into the stack.
LEMMA ListInStack ==
    ASSUME NEW X, IsStack(X), NEW list, IsChannelList(list),
           NEW Y, Y = [X EXCEPT !.l2cap.channels = list]
    PROVE  /\ IsStack(Y) /\ Chans(Y) = list
           /\ Low(X, Y) /\ SameMux(X, Y) /\ SameApp(X, Y)
           /\ Y.l2cap.next_cid = X.l2cap.next_cid
           /\ OnlyL2cap(X, Y)
<1>1. Chans(Y) = list /\ Y.l2cap.next_cid = X.l2cap.next_cid
  BY DEF IsStack, Chans
<1>2. OnlyL2cap(X, Y)
  BY DEF IsStack, OnlyL2cap
<1>3. IsStack(Y)
  BY <1>1, <1>2 DEF OnlyL2cap, IsStack, HasConn, HasMux, HasChannel, Chans
<1>4. SameMux(X, Y) /\ SameApp(X, Y)
  BY <1>2 DEF OnlyL2cap, SameMux, SameApp, HasMux, HasChannel
<1>5. Low(X, Y)
  BY <1>2 DEF OnlyL2cap, Low, Counted, SameConn, SameHci, HasConn, connection_for_handle
<1> QED BY <1>1, <1>2, <1>3, <1>4, <1>5

LEMMA ChannelIs ==
    ASSUME NEW X, IsStack(X), NEW cid \in Cids(X)
    PROVE  IsChannel(Channel(X, cid)) /\ Channel(X, cid).cid = cid
<1>1. cid \in CidsOf(Chans(X)) /\ Channel(X, cid) = On(Chans(X), cid)
  BY Lists
<1> QED BY <1>1, PlaceIs DEF IsStack, IsChannelList, On

\* A channel is written back.
LEMMA SetChannelIs ==
    ASSUME NEW X, IsStack(X), NEW c, IsChannel(c), c.cid \in Cids(X)
    PROVE  LET Y == SetChannel(X, c)
           IN  /\ IsStack(Y) /\ Low(X, Y) /\ SameMux(X, Y) /\ SameApp(X, Y)
               /\ Y.l2cap.next_cid = X.l2cap.next_cid
               /\ Cids(Y) = Cids(X)
               /\ Channel(Y, c.cid) = c
               /\ \A cid \in Cids(X) : cid # c.cid => Channel(Y, cid) = Channel(X, cid)
               /\ OnlyL2cap(X, Y)
<1> DEFINE new == [i \in DOMAIN Chans(X) |-> IF Chans(X)[i].cid = c.cid THEN c ELSE Chans(X)[i]]
           Y == SetChannel(X, c)
<1>1. Y = [X EXCEPT !.l2cap.channels = new]
  BY DEF SetChannel, Chans, IsStack
<1>2. c.cid \in CidsOf(Chans(X)) /\ IsChannelList(Chans(X))
  BY Lists DEF IsStack
<1>3. new = [i \in DOMAIN Chans(X) |-> IF Chans(X)[i].cid = c.cid THEN c ELSE Chans(X)[i]]
  OBVIOUS
<1> HIDE DEF new, Y
<1>4. /\ IsChannelList(new) /\ CidsOf(new) = CidsOf(Chans(X)) /\ On(new, c.cid) = c
      /\ \A cid \in CidsOf(Chans(X)) : cid # c.cid => On(new, cid) = On(Chans(X), cid)
  BY <1>2, <1>3, SetInList
<1>5. /\ IsStack(Y) /\ Chans(Y) = new
      /\ Low(X, Y) /\ SameMux(X, Y) /\ SameApp(X, Y)
      /\ Y.l2cap.next_cid = X.l2cap.next_cid
      /\ OnlyL2cap(X, Y)
  BY <1>1, <1>4, ListInStack
<1>6. /\ Cids(Y) = Cids(X) /\ Channel(Y, c.cid) = c
      /\ \A cid \in Cids(X) : cid # c.cid => Channel(Y, cid) = Channel(X, cid)
  BY <1>4, <1>5, Lists
<1> QED BY <1>5, <1>6 DEF Y

\* The same of a channel with its state and its service.
LEMMA DetailsOfChannel ==
    ASSUME NEW X, IsStack(X), NEW c, IsChannel(c), c.cid \in Cids(X),
           c.psm = Channel(X, c.cid).psm, c.state = Channel(X, c.cid).state
    PROVE  Alike(X, SetChannel(X, c))
<1> DEFINE Y == SetChannel(X, c)
<1>1. /\ IsStack(Y) /\ Low(X, Y) /\ SameMux(X, Y) /\ SameApp(X, Y)
      /\ Y.l2cap.next_cid = X.l2cap.next_cid
      /\ Cids(Y) = Cids(X)
      /\ Channel(Y, c.cid) = c
      /\ \A cid \in Cids(X) : cid # c.cid => Channel(Y, cid) = Channel(X, cid)
  BY SetChannelIs
<1> HIDE DEF Y
<1>2. \A cid \in Cids(X) : /\ Channel(Y, cid).psm = Channel(X, cid).psm
                           /\ Channel(Y, cid).state = Channel(X, cid).state
  BY <1>1
<1>3. SameList(X, Y)
  BY <1>1, <1>2, Lists DEF SameList
<1>4. Alike(X, Y)
  BY <1>1, <1>3 DEF Alike
<1> QED BY <1>4 DEF Y

----------------------------------------------------------------------------
(* Sending.                                                                *)

LEMMA AclIsSomething ==
    ASSUME NEW cid, NEW body
    PROVE  Acl(cid, body) # NONE
BY DEF Acl, NONE

LEMMA SendAcl ==
    ASSUME NEW X, IsStack(X), X.usb.bulkOut = NONE, NEW p, p # NONE
    PROVE  /\ Alike(X, hci_send_acl_packet(X, p))
           /\ Chans(hci_send_acl_packet(X, p)) = Chans(X)
<1> DEFINE Y == hci_send_acl_packet(X, p)
<1>1. Chans(Y) = Chans(X) /\ Y.rfcomm = X.rfcomm /\ Y.app = X.app /\ Y.sdp = X.sdp /\ Y.l2cap = X.l2cap
  BY DEF hci_send_acl_packet, IsStack, Chans
<1>2. IsStack(Y)
  BY DEF hci_send_acl_packet, IsStack, HasConn, HasMux, HasChannel, Chans, connection_for_handle, NONE
<1>3. Low(X, Y)
  <2>1. Low(X, Y) \/ ~Counted(X, Y)
    BY DEF hci_send_acl_packet, IsStack, HasConn, Low, SameHci, SameConn, connection_for_handle, NONE
  <2>2. Counted(X, Y)
    BY DEF hci_send_acl_packet, IsStack, HasConn, Counted, connection_for_handle, NONE
  <2> QED BY <2>1, <2>2
<1> HIDE DEF Y
<1>4. SameList(X, Y) /\ SameMux(X, Y) /\ SameApp(X, Y)
  BY <1>1 DEF SameList, SameMux, SameApp, HasMux, HasChannel
<1>5. Alike(X, Y) /\ Chans(Y) = Chans(X)
  BY <1>1, <1>2, <1>3, <1>4 DEF Alike
<1> QED BY <1>5 DEF Y

LEMMA SendSignal ==
    ASSUME NEW X, IsStack(X), NEW command
    PROVE  /\ Alike(X, l2cap_send_signaling_packet(X, command))
           /\ Chans(l2cap_send_signaling_packet(X, command)) = Chans(X)
<1>1. CASE CanSendAcl(X)
  <2>1. X.usb.bulkOut = NONE
    BY <1>1 DEF CanSendAcl
  <2> QED BY <1>1, <2>1, AclIsSomething, SendAcl DEF l2cap_send_signaling_packet
<1>2. CASE ~CanSendAcl(X)
  BY <1>2, AlikeIsOrder DEF l2cap_send_signaling_packet
<1> QED BY <1>1, <1>2

LEMMA SendOnIt ==
    ASSUME NEW X, IsStack(X), NEW cid \in Cids(X), CanSendAcl(X), NEW body
    PROVE  Alike(X, SendOnChannel(X, cid, body))
<1> DEFINE c == Channel(X, cid)
           d == [c EXCEPT !.granted = @ - 1]
           Y == SetChannel(X, d)
           p == Acl(c.remote, body)
<1>1. IsChannel(c) /\ c.cid = cid
  BY ChannelIs
<1> HIDE DEF c
<1>2. IsChannel(d) /\ d.cid = cid /\ d.psm = c.psm /\ d.state = c.state
  BY <1>1 DEF IsChannel
<1> HIDE DEF d
<1>3. Alike(X, Y) /\ OnlyL2cap(X, Y)
  BY <1>2, DetailsOfChannel, SetChannelIs DEF c
<1>4. SendOnChannel(X, cid, body) = hci_send_acl_packet(Y, p)
  BY DEF SendOnChannel, c, d
<1> HIDE DEF Y, p
<1>5. Y.usb.bulkOut = NONE /\ IsStack(Y)
  BY <1>3 DEF CanSendAcl, OnlyL2cap, Alike
<1>6. p # NONE
  BY AclIsSomething DEF p
<1> QED BY <1>3, <1>4, <1>5, <1>6, SendAcl, AlikeIsOrder

LEMMA HandOut ==
    ASSUME NEW X, IsStack(X)
    PROVE  Alike(X, rfcomm_hand_out_credits(X)) /\ Alike(X, HandOutIfOpen(X))
<1> DEFINE Y == rfcomm_hand_out_credits(X)
<1>1. Chans(Y) = Chans(X) /\ Y.usb = X.usb /\ Y.hci = X.hci /\ Y.l2cap = X.l2cap /\ Y.sdp = X.sdp
  BY DEF rfcomm_hand_out_credits, IsStack, Chans
<1>2. IsStack(Y) /\ SameApp(X, Y) /\ SameMux(X, Y)
  BY DEF rfcomm_hand_out_credits, IsStack, HasConn, HasMux, HasChannel, Chans, NONE, SameApp, SameMux
<1> HIDE DEF Y
<1>3. Low(X, Y)
  BY <1>1 DEF Low, Counted, SameHci, SameConn, HasConn, connection_for_handle
<1>4. SameList(X, Y)
  BY <1>1 DEF SameList
<1>5. Alike(X, Y)
  BY <1>2, <1>3, <1>4 DEF Alike
<1> QED BY <1>5, AlikeIsOrder DEF Y, HandOutIfOpen

LEMMA HandOutBusy ==
    ASSUME NEW X, IsStack(X)
    PROVE  Alike(X, HandOutWhileBusy(X))
<1> DEFINE given == {cid \in Cids(X) : Deserves(X, Channel(X, cid))}
           list  == Chans(X)
           new   == [i \in DOMAIN list |-> IF list[i].cid \in given
                                           THEN [list[i] EXCEPT !.granted = 1] ELSE list[i]]
           Y == [X EXCEPT !.l2cap.channels = new]
           Z == [Y EXCEPT !.rfcomm.mux.credits = @ + 1]
<1>1. HandOutWhileBusy(X) =
        IF ~HasMux(X) \/ X.rfcomm.mux.l2cap_cid \notin given THEN Y ELSE HandOutIfOpen(Z)
  BY DEF HandOutWhileBusy, Chans, IsStack
<1> HIDE DEF given
<1>2. IsChannelList(list)
  BY DEF IsStack
<1> HIDE DEF list
<1>3. /\ new = [i \in DOMAIN list |-> new[i]]
      /\ \A i \in DOMAIN list : /\ IsChannel(new[i])
                                /\ new[i].cid = list[i].cid
                                /\ new[i].psm = list[i].psm
                                /\ new[i].state = list[i].state
  BY <1>2 DEF IsChannelList, IsChannel
<1> HIDE DEF new
<1>4. /\ IsChannelList(new) /\ CidsOf(new) = CidsOf(list)
      /\ \A cid \in CidsOf(list) : /\ On(new, cid).psm = On(list, cid).psm
                                   /\ On(new, cid).state = On(list, cid).state
  BY <1>2, <1>3, DetailsInList
<1>5. /\ IsStack(Y) /\ Chans(Y) = new
      /\ Low(X, Y) /\ SameMux(X, Y) /\ SameApp(X, Y)
      /\ Y.l2cap.next_cid = X.l2cap.next_cid /\ OnlyL2cap(X, Y)
  BY <1>4, ListInStack
<1> HIDE DEF Y
<1>6. Alike(X, Y)
  BY <1>4, <1>5 DEF Alike, SameList, list
<1>7. HasMux(X) => Alike(Y, Z)
  <2> SUFFICES ASSUME HasMux(X) PROVE Alike(Y, Z)
    OBVIOUS
  <2>1. HasMux(Y)
    BY <1>5 DEF SameMux
  <2>2. Z.usb = Y.usb /\ Z.hci = Y.hci /\ Z.l2cap = Y.l2cap /\ Z.app = Y.app /\ Z.sdp = Y.sdp
    BY <1>5 DEF IsStack
  <2>3. IsStack(Z) /\ SameMux(Y, Z) /\ SameApp(Y, Z)
    BY <1>5, <2>1 DEF IsStack, HasConn, HasMux, HasChannel, Chans, NONE, SameMux, SameApp
  <2> HIDE DEF Z
  <2>4. Low(Y, Z) /\ SameList(Y, Z)
    BY <2>2 DEF Low, Counted, SameHci, SameConn, HasConn, connection_for_handle, SameList, Chans
  <2> QED BY <2>3, <2>4 DEF Alike
<1> HIDE DEF Z
<1>8. HasMux(X) => Alike(X, HandOutIfOpen(Z))
  BY <1>6, <1>7, HandOut, AlikeIsOrder DEF Alike
<1> QED BY <1>1, <1>6, <1>8

LEMMA SendPrepared ==
    ASSUME NEW X, IsStack(X), NEW cid, l2cap_can_send_packet_now(X, cid), NEW body
    PROVE  Alike(X, l2cap_send_prepared(X, cid, body))
<1>1. Alike(X, SendOnChannel(X, cid, body))
  BY SendOnIt DEF l2cap_can_send_packet_now
<1> QED BY <1>1, HandOutBusy, AlikeIsOrder DEF l2cap_send_prepared, Alike

\* The multiplexer counts its credits before the packet.
LEMMA CountCredits ==
    ASSUME NEW X, IsStack(X), HasMux(X), NEW n
    PROVE  LET Y == [X EXCEPT !.rfcomm.mux.credits = n]
           IN  /\ Alike(X, Y) /\ Y.usb = X.usb /\ Y.hci = X.hci /\ Y.l2cap = X.l2cap
               /\ Y.rfcomm.mux.l2cap_cid = X.rfcomm.mux.l2cap_cid
<1> DEFINE Y == [X EXCEPT !.rfcomm.mux.credits = n]
<1>1. /\ Y.usb = X.usb /\ Y.hci = X.hci /\ Y.l2cap = X.l2cap /\ Y.app = X.app /\ Y.sdp = X.sdp
      /\ Y.rfcomm.mux.l2cap_cid = X.rfcomm.mux.l2cap_cid
  BY DEF IsStack, HasMux
<1>2. IsStack(Y) /\ SameMux(X, Y) /\ SameApp(X, Y)
  BY DEF IsStack, HasConn, HasMux, HasChannel, Chans, NONE, SameMux, SameApp
<1> HIDE DEF Y
<1>3. Low(X, Y) /\ SameList(X, Y)
  BY <1>1 DEF Low, Counted, SameHci, SameConn, HasConn, connection_for_handle, SameList, Chans
<1>4. Alike(X, Y)
  BY <1>2, <1>3 DEF Alike
<1> QED BY <1>1, <1>4 DEF Y

LEMMA SendFrame ==
    ASSUME NEW X, IsStack(X), NEW frame
    PROVE  Alike(X, rfcomm_send_packet(X, frame))
<1>1. CASE ~MuxCanSend(X)
  BY <1>1, AlikeIsOrder DEF rfcomm_send_packet
<1>2. CASE MuxCanSend(X)
  <2> DEFINE n == IF X.rfcomm.mux.credits = 0 THEN 0 ELSE X.rfcomm.mux.credits - 1
             Y == [X EXCEPT !.rfcomm.mux.credits = n]
             cid == X.rfcomm.mux.l2cap_cid
  <2>1. HasMux(X) /\ l2cap_can_send_packet_now(X, cid)
    BY <1>2 DEF MuxCanSend
  <2>2. rfcomm_send_packet(X, frame) = l2cap_send_prepared(Y, cid, frame)
    BY <1>2, <2>1 DEF rfcomm_send_packet, IsStack, HasMux
  <2> HIDE DEF n
  <2>3. /\ Alike(X, Y) /\ Y.usb = X.usb /\ Y.hci = X.hci /\ Y.l2cap = X.l2cap
    BY <2>1, CountCredits
  <2> HIDE DEF Y, cid
  <2>4. l2cap_can_send_packet_now(Y, cid)
    BY <2>1, <2>3 DEF l2cap_can_send_packet_now, Cids, Channel, PlaceOf, CanSendAcl, hci_number_free_acl_slots
  <2>5. IsStack(Y)
    BY <2>3 DEF Alike
  <2> QED BY <2>2, <2>3, <2>4, <2>5, SendPrepared, AlikeIsOrder
<1> QED BY <1>1, <1>2

----------------------------------------------------------------------------
(* What ties the layers to each other.  A handler may break a part of it   *)
(* and mend it later; the parts are stated one by one.                     *)

Waiting   == {"SEND_UA_0", "SEND_UA_0_AND_DISC"}
MuxStates == {"W4_SABM_0", "OPEN"} \union Waiting
DlcStates == {"CLOSED", "INCOMING_SETUP", "DLC_SETUP", "OPEN", "SEND_DISC",
              "SEND_UA_AFTER_DISC"}
DECLINED  == "WILL_SEND_CONNECTION_RESPONSE_DECLINE"

\* Channel numbers are not used again, so that one that is gone is nobody's.
ListOk(X) ==
    /\ X.l2cap.next_cid \in Nat
    /\ 64 <= X.l2cap.next_cid
    /\ \A cid \in Cids(X) : cid \in Nat /\ 64 <= cid /\ cid < X.l2cap.next_cid

\* A channel that is declined has no client: with it nothing ends.
SdpOk(X) ==
    X.sdp.cid # 0 => /\ X.sdp.cid \in Cids(X)
                     /\ Channel(X, X.sdp.cid).psm = PSM_SDP
                     /\ Channel(X, X.sdp.cid).state # DECLINED

\* A multiplexer outlives its channel only where it waits to answer.
MuxOk(X) ==
    HasMux(X) =>
        /\ X.rfcomm.mux.l2cap_cid \in Nat
        /\ X.rfcomm.mux.l2cap_cid < X.l2cap.next_cid
        /\ X.rfcomm.mux.state \in MuxStates
        /\ X.rfcomm.mux.state \notin Waiting => X.rfcomm.mux.l2cap_cid \in Cids(X)
        /\ X.rfcomm.mux.l2cap_cid \in Cids(X) =>
                /\ Channel(X, X.rfcomm.mux.l2cap_cid).psm = PSM_RFCOMM
                /\ Channel(X, X.rfcomm.mux.l2cap_cid).state # DECLINED

AppOk(X) ==
    /\ HasChannel(X) => HasMux(X) /\ X.rfcomm.channel.state \in DlcStates
    /\ X.app.open => /\ HasChannel(X)
                     /\ X.rfcomm.channel.state = "OPEN"
                     /\ X.app.channel = X.rfcomm.channel.cid

ConnOk(X) == Cids(X) # {} => connection_for_handle(X)

\* Without the multiplexer, which is about to go.
Bare(X) == IsStack(X) /\ ListOk(X) /\ SdpOk(X) /\ AppOk(X) /\ ConnOk(X)

Sound(X) == Bare(X) /\ MuxOk(X)

SameLower(X, Y) ==
    /\ IsStack(Y)
    /\ Low(X, Y)
    /\ SameList(X, Y)
    /\ SameMux(X, Y)

AppKept(X, Y) == SameLower(X, Y) /\ AppOk(Y)

LEMMA SameLowerIsOrder ==
    ASSUME NEW X, NEW Y, NEW Z
    PROVE  /\ IsStack(X) => SameLower(X, X)
           /\ Alike(X, Y) => SameLower(X, Y)
           /\ SameLower(X, Y) /\ SameLower(Y, Z) => SameLower(X, Z)
<1>1. IsStack(X) => SameLower(X, X)
  BY AlikeIsOrder DEF SameLower, Alike
<1>2. Alike(X, Y) => SameLower(X, Y)
  BY DEF SameLower, Alike
<1>3. ASSUME SameLower(X, Y), SameLower(Y, Z)
      PROVE  SameLower(X, Z)
  <2>1. IsStack(Z) /\ Low(X, Z)
    BY <1>3, LowIsOrder DEF SameLower
  <2>2. SameList(X, Z)
    BY <1>3 DEF SameLower, SameList
  <2>3. SameMux(X, Z)
    BY <1>3 DEF SameLower, SameMux
  <2> QED BY <2>1, <2>2, <2>3 DEF SameLower
<1> QED BY <1>1, <1>2, <1>3

LEMMA AlikeKeepsApp ==
    ASSUME NEW X, NEW Y, Alike(X, Y), AppOk(X)
    PROVE  AppKept(X, Y)
BY SameLowerIsOrder DEF Alike, AppKept, AppOk, SameApp, SameMux

LEMMA AppKeptIsSound ==
    ASSUME NEW X, NEW Y, AppKept(X, Y)
    PROVE  /\ Bare(X) => Bare(Y)
           /\ Sound(X) => Sound(Y)
<1>1. Cids(Y) = Cids(X) /\ \A cid \in Cids(X) : /\ Channel(Y, cid).psm = Channel(X, cid).psm
                                                /\ Channel(Y, cid).state = Channel(X, cid).state
  BY Lists DEF AppKept, SameLower, SameList
<1>2. Y.l2cap.next_cid = X.l2cap.next_cid /\ SameMux(X, Y) /\ AppOk(Y) /\ IsStack(Y)
  BY DEF AppKept, SameLower, SameList
<1>3. connection_for_handle(X) => connection_for_handle(Y)
  BY DEF AppKept, SameLower, Low, SameConn, connection_for_handle, HasConn
<1>4. ListOk(X) => ListOk(Y)
  BY <1>1, <1>2 DEF ListOk
<1>5. SdpOk(X) => SdpOk(Y)
  BY <1>1, <1>2 DEF SdpOk, SameMux
<1>6. MuxOk(X) => MuxOk(Y)
  BY <1>1, <1>2 DEF MuxOk, SameMux
<1>7. ConnOk(X) => ConnOk(Y)
  BY <1>1, <1>3 DEF ConnOk
<1> QED BY <1>2, <1>4, <1>5, <1>6, <1>7 DEF Bare, Sound

\* What only changes the serial channel and the application.
OnlyDlc(X, Y) ==
    /\ Y.usb = X.usb
    /\ Y.hci = X.hci
    /\ Y.l2cap = X.l2cap
    /\ Y.rfcomm.mux = X.rfcomm.mux
    /\ Y.sdp = X.sdp

LEMMA OnlyDlcIsLower ==
    ASSUME NEW X, NEW Y, OnlyDlc(X, Y), IsStack(Y)
    PROVE  SameLower(X, Y)
<1>1. Low(X, Y) /\ SameList(X, Y)
  BY DEF OnlyDlc, Low, Counted, SameHci, SameConn, HasConn, connection_for_handle, SameList, Chans
<1>2. SameMux(X, Y)
  BY DEF OnlyDlc, SameMux, HasMux
<1> QED BY <1>1, <1>2 DEF SameLower

----------------------------------------------------------------------------
(* The serial channel.                                                     *)

SetDlc(X, c) == [X EXCEPT !.rfcomm.channel = c]

IsDlc(c) ==
    /\ DOMAIN c = {"cmd", "cid", "dlci", "state", "vars", "out", "in", "new", "granted"}
    /\ c.cmd = "DLC"

LEMMA DlcChange ==
    ASSUME NEW X, IsStack(X), NEW c, IsDlc(c)
    PROVE  /\ IsStack(SetDlc(X, c)) /\ HasChannel(SetDlc(X, c)) /\ OnlyDlc(X, SetDlc(X, c))
           /\ SetDlc(X, c).app = X.app /\ SetDlc(X, c).rfcomm.channel = c
<1> DEFINE Y == SetDlc(X, c)
<1>1. OnlyDlc(X, Y) /\ Y.app = X.app /\ Y.rfcomm.channel = c
  BY DEF IsStack, OnlyDlc, SetDlc
<1>2. IsStack(Y) /\ HasChannel(Y)
  BY DEF IsStack, HasConn, HasMux, HasChannel, Chans, NONE, SetDlc, IsDlc
<1> QED BY <1>1, <1>2

LEMMA DlcDetails ==
    ASSUME NEW X, IsStack(X), HasChannel(X), NEW c, IsDlc(c),
           c.cid = X.rfcomm.channel.cid, c.state = X.rfcomm.channel.state
    PROVE  Alike(X, SetDlc(X, c))
<1> DEFINE Y == SetDlc(X, c)
<1>1. IsStack(Y) /\ HasChannel(Y) /\ OnlyDlc(X, Y) /\ Y.app = X.app /\ Y.rfcomm.channel = c
  BY DlcChange
<1> HIDE DEF Y
<1>2. Alike(X, Y)
  BY <1>1, OnlyDlcIsLower DEF Alike, SameLower, SameApp
<1> QED BY <1>2 DEF Y

LEMMA Marks ==
    ASSUME NEW X, IsStack(X), HasChannel(X)
    PROVE  /\ \A more : Alike(X, With(X, more))
           /\ \A var : Alike(X, Without(X, var))
<1> DEFINE c == X.rfcomm.channel
<1>1. IsDlc(c)
  BY DEF IsStack, IsDlc
<1>2. ASSUME NEW v PROVE Alike(X, SetDlc(X, [c EXCEPT !.vars = v]))
  <2> DEFINE d == [c EXCEPT !.vars = v]
  <2>1. IsDlc(d) /\ d.cid = c.cid /\ d.state = c.state
    BY <1>1 DEF IsDlc
  <2> HIDE DEF d
  <2>2. Alike(X, SetDlc(X, d))
    BY <2>1, DlcDetails
  <2> QED BY <2>2 DEF d
<1>3. \A more : With(X, more) = SetDlc(X, [c EXCEPT !.vars = @ \union more])
  BY DEF SetDlc, With, IsStack
<1>4. \A var : Without(X, var) = SetDlc(X, [c EXCEPT !.vars = @ \ {var}])
  BY DEF SetDlc, Without, IsStack
<1>5. \A more : Alike(X, With(X, more))
  BY <1>1, <1>2, <1>3
<1>6. \A var : Alike(X, Without(X, var))
  BY <1>1, <1>2, <1>4
<1> QED BY <1>5, <1>6

LEMMA Entering ==
    ASSUME NEW X, IsStack(X), HasChannel(X), NEW state
    PROVE  LET Y == EnterState(X, state)
           IN  /\ IsStack(Y) /\ SameLower(X, Y) /\ HasChannel(Y) /\ Y.app = X.app
               /\ Y.rfcomm.channel.state = state
               /\ Y.rfcomm.channel.cid = X.rfcomm.channel.cid
<1> DEFINE c == [X.rfcomm.channel EXCEPT !.state = state]
           Y == EnterState(X, state)
<1>1. Y = SetDlc(X, c)
  BY DEF EnterState, IsStack, SetDlc
<1>2. IsDlc(c) /\ c.state = state /\ c.cid = X.rfcomm.channel.cid
  BY DEF IsStack, IsDlc
<1> HIDE DEF c, Y
<1>3. IsStack(Y) /\ HasChannel(Y) /\ OnlyDlc(X, Y) /\ Y.app = X.app /\ Y.rfcomm.channel = c
  BY <1>1, <1>2, DlcChange
<1> QED BY <1>2, <1>3, OnlyDlcIsLower DEF Y

\* The application hears of its channel.
LEMMA AppHears ==
    ASSUME NEW X, IsStack(X), NEW app, DOMAIN app = DOMAIN X.app,
           NEW Y, Y = [X EXCEPT !.app = app]
    PROVE  IsStack(Y) /\ SameLower(X, Y) /\ Y.app = app /\ Y.rfcomm = X.rfcomm
<1>1. OnlyDlc(X, Y) /\ Y.app = app /\ Y.rfcomm = X.rfcomm
  BY DEF IsStack, OnlyDlc
<1>2. IsStack(Y)
  BY DEF IsStack, HasConn, HasMux, HasChannel, Chans
<1> QED BY <1>1, <1>2, OnlyDlcIsLower

LEMMA AppIs ==
    ASSUME NEW X, IsStack(X)
    PROVE  /\ AppAsked(X) = [X EXCEPT !.app = [X.app EXCEPT !.channel = X.rfcomm.channel.cid,
                                                            !.got = <<>>]]
           /\ AppOpened(X) = [X EXCEPT !.app = [X.app EXCEPT !.channel = X.rfcomm.channel.cid,
                                                             !.credit = TRUE, !.open = TRUE]]
           /\ AppClosed(X) = [X EXCEPT !.app = [X.app EXCEPT !.channel = 0, !.open = FALSE]]
           /\ \A data : AppData(X, data) = [X EXCEPT !.app = [X.app EXCEPT !.got = Append(@, data),
                                                                           !.credit = TRUE]]
BY DEF AppAsked, AppOpened, AppClosed, AppData, IsStack

LEMMA AppChange ==
    ASSUME NEW X, IsStack(X)
    PROVE  /\ SameLower(X, AppAsked(X)) /\ AppAsked(X).rfcomm = X.rfcomm
           /\ AppAsked(X).app.open = X.app.open
           /\ SameLower(X, AppOpened(X)) /\ AppOpened(X).rfcomm = X.rfcomm
           /\ AppOpened(X).app.open /\ AppOpened(X).app.channel = X.rfcomm.channel.cid
           /\ SameLower(X, AppClosed(X)) /\ AppClosed(X).rfcomm = X.rfcomm
           /\ ~AppClosed(X).app.open
           /\ \A data : Alike(X, AppData(X, data))
<1> DEFINE asked  == [X.app EXCEPT !.channel = X.rfcomm.channel.cid, !.got = <<>>]
           opened == [X.app EXCEPT !.channel = X.rfcomm.channel.cid, !.credit = TRUE, !.open = TRUE]
           closed == [X.app EXCEPT !.channel = 0, !.open = FALSE]
<1>1. /\ DOMAIN asked = DOMAIN X.app /\ asked.open = X.app.open
      /\ DOMAIN opened = DOMAIN X.app /\ opened.open /\ opened.channel = X.rfcomm.channel.cid
      /\ DOMAIN closed = DOMAIN X.app /\ ~closed.open
  BY DEF IsStack
<1>2. /\ AppAsked(X) = [X EXCEPT !.app = asked]
      /\ AppOpened(X) = [X EXCEPT !.app = opened]
      /\ AppClosed(X) = [X EXCEPT !.app = closed]
  BY AppIs
<1> HIDE DEF asked, opened, closed
<1>3. SameLower(X, AppAsked(X)) /\ AppAsked(X).rfcomm = X.rfcomm /\ AppAsked(X).app = asked
  BY <1>1, <1>2, AppHears
<1>4. SameLower(X, AppOpened(X)) /\ AppOpened(X).rfcomm = X.rfcomm /\ AppOpened(X).app = opened
  BY <1>1, <1>2, AppHears
<1>5. SameLower(X, AppClosed(X)) /\ AppClosed(X).rfcomm = X.rfcomm /\ AppClosed(X).app = closed
  BY <1>1, <1>2, AppHears
<1>6. ASSUME NEW data PROVE Alike(X, AppData(X, data))
  <2> DEFINE app == [X.app EXCEPT !.got = Append(@, data), !.credit = TRUE]
  <2>1. AppData(X, data) = [X EXCEPT !.app = app]
    BY AppIs
  <2>2. DOMAIN app = DOMAIN X.app /\ app.open = X.app.open /\ app.channel = X.app.channel
    BY DEF IsStack
  <2> HIDE DEF app
  <2>3. SameLower(X, AppData(X, data)) /\ AppData(X, data).rfcomm = X.rfcomm /\ AppData(X, data).app = app
    BY <2>1, <2>2, AppHears
  <2> QED BY <2>2, <2>3 DEF Alike, SameLower, SameApp, HasChannel
<1> QED BY <1>1, <1>3, <1>4, <1>5, <1>6

----------------------------------------------------------------------------
(* rfcomm_channel_state_machine.                                           *)

LEMMA AppKeptIsOrder ==
    ASSUME NEW X, NEW Y, NEW Z
    PROVE  /\ IsStack(X) /\ AppOk(X) => AppKept(X, X)
           /\ SameLower(X, Y) /\ AppKept(Y, Z) => AppKept(X, Z)
           /\ AppKept(X, Y) /\ Alike(Y, Z) => AppKept(X, Z)
<1>1. IsStack(X) /\ AppOk(X) => AppKept(X, X)
  BY SameLowerIsOrder DEF AppKept
<1>2. SameLower(X, Y) /\ AppKept(Y, Z) => AppKept(X, Z)
  BY SameLowerIsOrder DEF AppKept
<1>3. AppKept(X, Y) /\ Alike(Y, Z) => AppKept(Y, Z)
  BY AlikeKeepsApp DEF AppKept
<1> QED BY <1>1, <1>2, <1>3 DEF AppKept

\* The channel is in a state and the application has not heard of it.
InState(X, Y, state) ==
    /\ SameLower(X, Y)
    /\ HasChannel(Y)
    /\ Y.rfcomm.channel.state = state
    /\ Y.app.open = X.app.open

LEMMA StaysInState ==
    ASSUME NEW X, NEW Y, NEW Z, NEW state, InState(X, Y, state)
    PROVE  /\ IsStack(Y)
           /\ Alike(Y, Z) => InState(X, Z, state)
           /\ HasMux(X) /\ ~X.app.open /\ state \in DlcStates => AppKept(X, Y)
<1>1. Alike(Y, Z) => InState(X, Z, state)
  BY SameLowerIsOrder DEF InState, Alike, SameApp
<1>2. HasMux(X) /\ ~X.app.open /\ state \in DlcStates => AppKept(X, Y)
  BY DEF InState, AppKept, AppOk, SameLower, SameMux
<1> QED BY <1>1, <1>2 DEF InState, SameLower

LEMMA EntersState ==
    ASSUME NEW X, IsStack(X), HasChannel(X), NEW state
    PROVE  InState(X, EnterState(X, state), state)
BY Entering DEF InState

LEMMA Counts ==
    ASSUME NEW X, IsStack(X), HasChannel(X), NEW n
    PROVE  /\ Alike(X, [X EXCEPT !.rfcomm.channel.out = n])
           /\ Alike(X, [X EXCEPT !.rfcomm.channel.in = n])
           /\ Alike(X, [X EXCEPT !.rfcomm.channel.new = n])
<1> DEFINE c == X.rfcomm.channel
           o == [c EXCEPT !.out = n]
           i == [c EXCEPT !.in = n]
           w == [c EXCEPT !.new = n]
<1>1. /\ IsDlc(o) /\ o.cid = c.cid /\ o.state = c.state
      /\ IsDlc(i) /\ i.cid = c.cid /\ i.state = c.state
      /\ IsDlc(w) /\ w.cid = c.cid /\ w.state = c.state
  BY DEF IsStack, IsDlc
<1>2. /\ [X EXCEPT !.rfcomm.channel.out = n] = SetDlc(X, o)
      /\ [X EXCEPT !.rfcomm.channel.in = n] = SetDlc(X, i)
      /\ [X EXCEPT !.rfcomm.channel.new = n] = SetDlc(X, w)
  BY DEF IsStack, SetDlc
<1> HIDE DEF o, i, w
<1> QED BY <1>1, <1>2, DlcDetails

LEMMA Accepting ==
    ASSUME NEW X, IsStack(X), HasChannel(X)
    PROVE  Alike(X, rfcomm_accept_connection(X))
BY Marks DEF rfcomm_accept_connection

LEMMA Asking ==
    ASSUME NEW X, NEW Y, NEW state, InState(X, Y, state)
    PROVE  InState(X, rfcomm_accept_connection(AppAsked(Y)), state)
<1>1. InState(X, AppAsked(Y), state)
  BY AppChange, SameLowerIsOrder DEF InState, SameLower, HasChannel
<1>2. Alike(AppAsked(Y), rfcomm_accept_connection(AppAsked(Y)))
  BY <1>1, Accepting DEF InState, SameLower
<1> QED BY <1>1, <1>2, StaysInState

LEMMA ClosedStep ==
    ASSUME NEW X, IsStack(X), HasChannel(X), AppOk(X), X.rfcomm.channel.state = "CLOSED",
           NEW ev, NEW n
    PROVE  AppKept(X, InClosed(X, ev, n))
<1> DEFINE setup == EnterState(X, "INCOMING_SETUP")
           sabm  == With(setup, {"RCVD_SABM"})
           pn    == With(setup, {"RCVD_PN"})
           out   == [pn EXCEPT !.rfcomm.channel.out = n]
<1>1. HasMux(X) /\ ~X.app.open /\ "INCOMING_SETUP" \in DlcStates
  BY DEF AppOk, DlcStates
<1>2. InState(X, setup, "INCOMING_SETUP")
  BY EntersState
<1>3. Alike(setup, sabm) /\ Alike(setup, pn)
  BY <1>2, Marks DEF InState, SameLower
<1>4. InClosed(X, ev, n) = IF ev = "SABM" THEN rfcomm_accept_connection(AppAsked(sabm))
                           ELSE IF ev = "PN" THEN rfcomm_accept_connection(AppAsked(out))
                           ELSE X
  BY DEF InClosed
<1> HIDE DEF setup, sabm, pn
<1>5. InState(X, sabm, "INCOMING_SETUP") /\ InState(X, pn, "INCOMING_SETUP")
  BY <1>2, <1>3, StaysInState
<1>6. Alike(pn, out)
  BY <1>5, Counts DEF InState, SameLower
<1> HIDE DEF out
<1>7. InState(X, out, "INCOMING_SETUP")
  BY <1>5, <1>6, StaysInState
<1>8. /\ AppKept(X, rfcomm_accept_connection(AppAsked(sabm)))
      /\ AppKept(X, rfcomm_accept_connection(AppAsked(out)))
  BY <1>1, <1>5, <1>7, Asking, StaysInState
<1> QED BY <1>4, <1>8, AppKeptIsOrder

LEMMA MarkAndSend ==
    ASSUME NEW X, IsStack(X), HasChannel(X), NEW var, NEW frame
    PROVE  Alike(X, rfcomm_send_packet(Without(X, var), frame))
<1>1. Alike(X, Without(X, var))
  BY Marks
<1> QED BY <1>1, SendFrame, AlikeIsOrder DEF Alike

LEMMA SetupSending ==
    ASSUME NEW X, IsStack(X), HasChannel(X)
    PROVE  Alike(X, SetupSends(X))
BY MarkAndSend, AlikeIsOrder DEF SetupSends

LEMMA SetupStep ==
    ASSUME NEW X, IsStack(X), HasChannel(X), AppOk(X), X.rfcomm.channel.state = "INCOMING_SETUP",
           NEW ev, NEW n
    PROVE  AppKept(X, InSetup(X, ev, n))
<1> DEFINE sabm == {"RCVD_SABM"} \union (IF Marked(X, "CLIENT_ACCEPTED") THEN {"SEND_UA"} ELSE {})
           pn   == {"RCVD_PN"} \union (IF Marked(X, "CLIENT_ACCEPTED") THEN {"SEND_PN_RSP"} ELSE {})
           out  == [X EXCEPT !.rfcomm.channel.out = n]
           sent == With(SetupSends(X), {"SEND_MSC_CMD", "SEND_CREDITS"})
<1>1. HasMux(X) /\ ~X.app.open /\ "DLC_SETUP" \in DlcStates
  BY DEF AppOk, DlcStates
<1>2. \/ InSetup(X, ev, n) = With(X, sabm)
      \/ InSetup(X, ev, n) = With(out, pn)
      \/ InSetup(X, ev, n) = EnterState(sent, "DLC_SETUP")
      \/ InSetup(X, ev, n) = SetupSends(X)
      \/ InSetup(X, ev, n) = X
  BY DEF InSetup
<1>3. Alike(X, out) /\ Alike(X, SetupSends(X))
  BY Counts, SetupSending
<1> HIDE DEF sabm, pn, out
<1>4. Alike(out, With(out, pn)) /\ Alike(SetupSends(X), sent)
  BY <1>3, Marks DEF Alike, SameApp
<1> HIDE DEF sent
<1>5. Alike(X, With(X, sabm)) /\ Alike(X, With(out, pn)) /\ Alike(X, sent)
  BY <1>3, <1>4, Marks, AlikeIsOrder
<1>6. AppKept(X, EnterState(sent, "DLC_SETUP"))
  <2>1. InState(sent, EnterState(sent, "DLC_SETUP"), "DLC_SETUP")
    BY <1>5, EntersState DEF Alike, SameApp
  <2>2. HasMux(sent) /\ ~sent.app.open
    BY <1>1, <1>5 DEF Alike, SameApp, SameMux
  <2>3. AppKept(sent, EnterState(sent, "DLC_SETUP"))
    BY <1>1, <2>1, <2>2, StaysInState
  <2> QED BY <1>5, <2>3, SameLowerIsOrder, AppKeptIsOrder
<1> QED BY <1>2, <1>3, <1>5, <1>6, AlikeKeepsApp, AppKeptIsOrder

LEMMA NewCreditsSent ==
    ASSUME NEW X, IsStack(X), HasChannel(X)
    PROVE  Alike(X, SendNewCredits(X))
<1> DEFINE n == X.rfcomm.channel.new
           none == [X EXCEPT !.rfcomm.channel.new = 0]
           sent == rfcomm_send_uih_credits(none, Dlci(X), n)
           in == (sent.rfcomm.channel.in + n) % 256
           Y == [sent EXCEPT !.rfcomm.channel.in = in]
<1>1. SendNewCredits(X) = IF n = 0 THEN X ELSE Y
  BY DEF SendNewCredits
<1>2. Alike(X, none)
  BY Counts
<1> HIDE DEF n, none
<1>3. Alike(none, sent)
  BY <1>2, SendFrame DEF Alike, rfcomm_send_uih_credits
<1> HIDE DEF sent, in
<1>4. Alike(X, sent)
  BY <1>2, <1>3, AlikeIsOrder
<1>5. Alike(sent, Y)
  BY <1>4, Counts DEF Alike, SameApp
<1> HIDE DEF Y
<1> QED BY <1>1, <1>4, <1>5, AlikeIsOrder

LEMMA DlcSending ==
    ASSUME NEW X, IsStack(X), HasChannel(X)
    PROVE  Alike(X, DlcSends(X))
<1>1. ASSUME NEW var, NEW more
      PROVE  Alike(X, With(Without(X, var), more)) /\ HasChannel(With(Without(X, var), more))
  <2>1. Alike(X, Without(X, var))
    BY Marks
  <2>2. Alike(Without(X, var), With(Without(X, var), more))
    BY <2>1, Marks DEF Alike, SameApp
  <2> QED BY <2>1, <2>2, AlikeIsOrder DEF Alike, SameApp
<1>2. ASSUME NEW var, NEW more, NEW frame
      PROVE  Alike(X, rfcomm_send_packet(With(Without(X, var), more), frame))
  BY <1>1, SendFrame, AlikeIsOrder DEF Alike
<1>3. ASSUME NEW var, NEW more
      PROVE  Alike(X, SendNewCredits(With(Without(X, var), more)))
  BY <1>1, NewCreditsSent, AlikeIsOrder DEF Alike
<1> QED BY <1>2, <1>3, AlikeIsOrder DEF DlcSends

LEMMA Opening ==
    ASSUME NEW X, IsStack(X), HasChannel(X), HasMux(X)
    PROVE  AppKept(X, rfcomm_channel_opened(X)) /\ HasChannel(rfcomm_channel_opened(X))
<1> DEFINE open == EnterState(X, "OPEN")
           told == AppOpened(open)
<1>1. InState(X, open, "OPEN") /\ IsStack(open)
  BY EntersState DEF InState, SameLower
<1> HIDE DEF open
<1>2. /\ SameLower(open, told) /\ told.rfcomm = open.rfcomm
      /\ told.app.open /\ told.app.channel = open.rfcomm.channel.cid
  BY <1>1, AppChange
<1>3. AppOk(told)
  BY <1>1, <1>2 DEF AppOk, InState, HasChannel, HasMux, SameLower, SameMux, DlcStates
<1>4. AppKept(X, told) /\ HasChannel(told)
  BY <1>1, <1>2, <1>3, SameLowerIsOrder DEF AppKept, InState, HasChannel
<1>5. Alike(told, rfcomm_hand_out_credits(told))
  BY <1>4, HandOut DEF AppKept, SameLower
<1>6. rfcomm_channel_opened(X) = rfcomm_hand_out_credits(told)
  BY DEF rfcomm_channel_opened, open
<1> HIDE DEF told
<1>7. HasChannel(rfcomm_hand_out_credits(told))
  BY <1>4, <1>5 DEF Alike, SameApp
<1> QED BY <1>4, <1>5, <1>6, <1>7, AppKeptIsOrder

LEMMA DlcSetupStep ==
    ASSUME NEW X, IsStack(X), HasChannel(X), AppOk(X), NEW ev
    PROVE  AppKept(X, InDlcSetup(X, ev))
<1>1. \E Y : Alike(X, Y) /\ InDlcSetup(X, ev) = OpenIfReady(Y)
  <2>1. /\ Alike(X, With(X, {"RCVD_MSC_CMD", "SEND_MSC_RSP"}))
        /\ Alike(X, With(X, {"RCVD_MSC_RSP"}))
        /\ Alike(X, DlcSends(X))
        /\ Alike(X, X)
    BY Marks, DlcSending, AlikeIsOrder
  <2> QED BY <2>1 DEF InDlcSetup
<1>2. PICK Y : Alike(X, Y) /\ InDlcSetup(X, ev) = OpenIfReady(Y)
  BY <1>1
<1>3. IsStack(Y) /\ HasChannel(Y) /\ HasMux(Y) /\ AppKept(X, Y)
  BY <1>2, AlikeKeepsApp DEF Alike, SameApp, AppKept, AppOk
<1>4. AppKept(Y, OpenIfReady(Y))
  BY <1>3, Opening, AppKeptIsOrder DEF OpenIfReady, AppKept
<1> QED BY <1>2, <1>3, <1>4, AppKeptIsOrder DEF AppKept

LEMMA OpenStep ==
    ASSUME NEW X, IsStack(X), HasChannel(X), NEW ev
    PROVE  Alike(X, InOpen(X, ev))
BY Marks, MarkAndSend, NewCreditsSent, AlikeIsOrder DEF InOpen

LEMMA Finalizing ==
    ASSUME NEW X, IsStack(X)
    PROVE  LET Y == rfcomm_channel_finalize(X)
           IN  SameLower(X, Y) /\ ~HasChannel(Y) /\ Y.app = X.app
<1> DEFINE Y == rfcomm_channel_finalize(X)
<1>1. OnlyDlc(X, Y) /\ Y.app = X.app /\ ~HasChannel(Y)
  BY DEF rfcomm_channel_finalize, IsStack, OnlyDlc, HasChannel
<1>2. IsStack(Y)
  BY DEF rfcomm_channel_finalize, IsStack, HasConn, HasMux, HasChannel, Chans, NONE
<1> QED BY <1>1, <1>2, OnlyDlcIsLower

\* A channel that ends: the application hears of it unless it has closed it.
LEMMA Ending ==
    ASSUME NEW X, NEW Y, SameLower(X, Y), ~Y.app.open
    PROVE  /\ AppKept(X, rfcomm_channel_finalize(Y))
           /\ SameLower(X, AppClosed(Y)) /\ ~AppClosed(Y).app.open
<1>1. IsStack(Y)
  BY DEF SameLower
<1>2. LET Z == rfcomm_channel_finalize(Y)
      IN  SameLower(Y, Z) /\ ~HasChannel(Z) /\ Z.app = Y.app
  BY <1>1, Finalizing
<1>3. AppKept(X, rfcomm_channel_finalize(Y))
  BY <1>2, SameLowerIsOrder DEF AppKept, AppOk
<1>4. SameLower(Y, AppClosed(Y)) /\ ~AppClosed(Y).app.open
  BY <1>1, AppChange
<1> QED BY <1>3, <1>4, SameLowerIsOrder

LEMMA EndingSteps ==
    ASSUME NEW X, IsStack(X), HasChannel(X), AppOk(X), NEW ev,
           X.rfcomm.channel.state \in {"SEND_DISC", "SEND_UA_AFTER_DISC"}
    PROVE  AppKept(X, InSendDisc(X, ev)) /\ AppKept(X, InSendUa(X, ev))
<1>1. ~X.app.open
  BY DEF AppOk
<1>2. ASSUME NEW frame
      PROVE  LET Y == rfcomm_send_packet(EnterState(X, "CLOSED"), frame)
             IN  SameLower(X, Y) /\ ~Y.app.open
  <2>1. InState(X, EnterState(X, "CLOSED"), "CLOSED") /\ IsStack(EnterState(X, "CLOSED"))
    BY EntersState DEF InState, SameLower
  <2>2. Alike(EnterState(X, "CLOSED"), rfcomm_send_packet(EnterState(X, "CLOSED"), frame))
    BY <2>1, SendFrame
  <2>3. InState(X, rfcomm_send_packet(EnterState(X, "CLOSED"), frame), "CLOSED")
    BY <2>1, <2>2, StaysInState
  <2> QED BY <1>1, <2>3 DEF InState
<1>3. AppKept(X, X)
  BY AppKeptIsOrder
<1>4. AppKept(X, InSendDisc(X, ev))
  <2> DEFINE Y == rfcomm_send_packet(EnterState(X, "CLOSED"), Frame(Dlci(X), "DISC"))
  <2>1. SameLower(X, Y) /\ ~Y.app.open
    BY <1>2
  <2>2. InSendDisc(X, ev) = IF ev # "READY" THEN X ELSE rfcomm_channel_finalize(AppClosed(Y))
    BY DEF InSendDisc
  <2> HIDE DEF Y
  <2>3. AppKept(X, rfcomm_channel_finalize(AppClosed(Y)))
    BY <2>1, Ending
  <2> QED BY <1>3, <2>2, <2>3
<1>5. AppKept(X, InSendUa(X, ev))
  BY <1>2, <1>3, Ending DEF InSendUa
<1> QED BY <1>4, <1>5

LEMMA DlcStep ==
    ASSUME NEW X, IsStack(X), HasChannel(X), AppOk(X), NEW ev, NEW n
    PROVE  AppKept(X, rfcomm_channel_state_machine(X, ev, n))
<1> DEFINE state == X.rfcomm.channel.state
           Y == rfcomm_channel_state_machine(X, ev, n)
           closed == AppClosed(X)
<1>1. state \in DlcStates /\ HasMux(X)
  BY DEF AppOk
<1>2. SameLower(X, closed) /\ ~closed.app.open /\ closed.rfcomm = X.rfcomm
  BY AppChange
<1>3. CASE ev = "DISC"
  <2>1. Y = EnterState(closed, "SEND_UA_AFTER_DISC")
    BY <1>3 DEF rfcomm_channel_state_machine
  <2>2. IsStack(closed) /\ HasChannel(closed) /\ HasMux(closed)
    BY <1>1, <1>2 DEF SameLower, SameMux, HasChannel
  <2> HIDE DEF closed
  <2>3. InState(closed, EnterState(closed, "SEND_UA_AFTER_DISC"), "SEND_UA_AFTER_DISC")
    BY <2>2, EntersState
  <2>4. AppKept(closed, Y)
    BY <1>2, <2>1, <2>2, <2>3, StaysInState DEF DlcStates
  <2> QED BY <1>2, <2>4, AppKeptIsOrder
<1>4. CASE ev = "DM"
  <2>1. Y = rfcomm_channel_finalize(closed)
    BY <1>4 DEF rfcomm_channel_state_machine
  <2> QED BY <1>2, <2>1, Ending
<1>5. CASE ev = "RPN"
  <2>1. Y = With(X, {"SEND_RPN_RSP"})
    BY <1>5 DEF rfcomm_channel_state_machine
  <2> QED BY <2>1, Marks, AlikeKeepsApp
<1>6. CASE ev = "READY" /\ Marked(X, "SEND_RPN_RSP")
  <2>1. Y = rfcomm_send_packet(Without(X, "SEND_RPN_RSP"), Message("RPN_RSP", Dlci(X)))
    BY <1>6 DEF rfcomm_channel_state_machine
  <2> QED BY <2>1, MarkAndSend, AlikeKeepsApp
<1>7. CASE ev \notin {"DISC", "DM", "RPN"} /\ ~(ev = "READY" /\ Marked(X, "SEND_RPN_RSP"))
  <2>1. /\ state = "CLOSED" => Y = InClosed(X, ev, n)
        /\ state = "INCOMING_SETUP" => Y = InSetup(X, ev, n)
        /\ state = "DLC_SETUP" => Y = InDlcSetup(X, ev)
        /\ state = "OPEN" => Y = InOpen(X, ev)
        /\ state = "SEND_DISC" => Y = InSendDisc(X, ev)
        /\ state = "SEND_UA_AFTER_DISC" => Y = InSendUa(X, ev)
    BY <1>7 DEF rfcomm_channel_state_machine
  <2> HIDE DEF Y
  <2>2. state = "OPEN" => AppKept(X, Y)
    BY <2>1, OpenStep, AlikeKeepsApp
  <2>3. state \in {"SEND_DISC", "SEND_UA_AFTER_DISC"} => AppKept(X, Y)
    BY <2>1, EndingSteps
  <2>4. state = "CLOSED" => AppKept(X, Y)
    BY <2>1, ClosedStep
  <2>5. state = "INCOMING_SETUP" => AppKept(X, Y)
    BY <2>1, SetupStep
  <2>6. state = "DLC_SETUP" => AppKept(X, Y)
    BY <2>1, DlcSetupStep
  <2> QED BY <1>1, <2>2, <2>3, <2>4, <2>5, <2>6 DEF DlcStates, Y
<1> QED BY <1>3, <1>4, <1>5, <1>6, <1>7

LEMMA DlcEvent ==
    ASSUME NEW X, IsStack(X), HasMux(X), AppOk(X), NEW dlci, NEW ev, NEW n
    PROVE  AppKept(X, rfcomm_channel_state_machine_2(X, dlci, ev, n))
<1> DEFINE Y == WithChannel(X, dlci, ev)
           c == NewRfcommChannel(X)
           Z == SetDlc(X, c)
           dm == [X EXCEPT !.rfcomm.mux.dm = dlci]
<1>1. AppKept(X, Y) /\ (Creates(X, dlci, ev) => HasChannel(Y))
  <2>1. CASE ~Creates(X, dlci, ev)
    BY <2>1, AppKeptIsOrder DEF WithChannel
  <2>2. CASE Creates(X, dlci, ev)
    <3>1. IsDlc(c) /\ c.state = "CLOSED"
      BY DEF IsDlc, NewRfcommChannel
    <3> HIDE DEF c
    <3>2. Y = [Z EXCEPT !.rfcomm.next_cid = X.rfcomm.next_cid + 1]
      BY <2>2 DEF WithChannel, SetDlc, IsStack, c
    <3>3. /\ IsStack(Z) /\ HasChannel(Z) /\ OnlyDlc(X, Z)
          /\ Z.app = X.app /\ Z.rfcomm.channel = c
      BY <3>1, DlcChange
    <3> HIDE DEF Z, Y
    <3>4. IsStack(Y) /\ HasChannel(Y) /\ OnlyDlc(Z, Y) /\ Y.app = Z.app /\ Y.rfcomm.channel = c
      BY <3>2, <3>3 DEF IsStack, HasConn, HasMux, HasChannel, Chans, OnlyDlc
    <3>5. SameLower(X, Y)
      BY <3>3, <3>4, OnlyDlcIsLower, SameLowerIsOrder
    <3>6. ~X.app.open
      BY <2>2 DEF Creates, AppOk
    <3>7. AppOk(Y)
      BY <3>1, <3>3, <3>4, <3>5, <3>6 DEF AppOk, SameLower, SameMux, DlcStates
    <3> QED BY <3>4, <3>5, <3>7 DEF AppKept
  <2> QED BY <2>1, <2>2
<1> HIDE DEF Y
<1>2. CASE rfcomm_channel_for_dlci(X, dlci) \/ Creates(X, dlci, ev)
  <2>1. HasChannel(Y) /\ IsStack(Y) /\ AppOk(Y)
    BY <1>1, <1>2 DEF rfcomm_channel_for_dlci, Y, WithChannel, AppKept, SameLower
  <2>2. AppKept(Y, rfcomm_channel_state_machine(Y, ev, n))
    BY <2>1, DlcStep
  <2>3. rfcomm_channel_state_machine_2(X, dlci, ev, n) = rfcomm_channel_state_machine(Y, ev, n)
    BY <1>2 DEF rfcomm_channel_state_machine_2, Y
  <2> QED BY <1>1, <2>2, <2>3, AppKeptIsOrder DEF AppKept
<1>3. CASE ~(rfcomm_channel_for_dlci(X, dlci) \/ Creates(X, dlci, ev))
  <2>1. rfcomm_channel_state_machine_2(X, dlci, ev, n) = dm
    BY <1>3 DEF rfcomm_channel_state_machine_2
  <2>2. IsStack(dm) /\ SameMux(X, dm) /\ SameApp(X, dm)
    BY DEF IsStack, HasConn, HasMux, HasChannel, Chans, NONE, SameMux, SameApp
  <2>3. dm.usb = X.usb /\ dm.hci = X.hci /\ dm.l2cap = X.l2cap
    BY DEF IsStack
  <2> HIDE DEF dm
  <2>4. Low(X, dm) /\ SameList(X, dm)
    BY <2>3 DEF Low, Counted, SameHci, SameConn, HasConn, connection_for_handle, SameList, Chans
  <2>5. Alike(X, dm)
    BY <2>2, <2>4 DEF Alike
  <2> QED BY <2>1, <2>5, AlikeKeepsApp
<1> QED BY <1>2, <1>3

----------------------------------------------------------------------------
(* The multiplexer.                                                        *)

\* The same channels are there, and everything fits.
Keeps(X, Y) ==
    /\ Sound(Y)
    /\ Low(X, Y)
    /\ Y.l2cap.next_cid = X.l2cap.next_cid
    /\ Cids(Y) = Cids(X)

LEMMA KeepsIsOrder ==
    ASSUME NEW X, NEW Y, NEW Z
    PROVE  /\ Sound(X) => Keeps(X, X)
           /\ Keeps(X, Y) /\ Keeps(Y, Z) => Keeps(X, Z)
           /\ Sound(X) /\ AppKept(X, Y) => Keeps(X, Y)
           /\ Sound(X) /\ Alike(X, Y) => Keeps(X, Y)
<1>1. Sound(X) => Keeps(X, X)
  BY LowIsOrder DEF Keeps
<1>2. Keeps(X, Y) /\ Keeps(Y, Z) => Keeps(X, Z)
  BY LowIsOrder DEF Keeps
<1>3. Sound(X) /\ AppKept(X, Y) => Keeps(X, Y)
  BY AppKeptIsSound, Lists DEF Keeps, AppKept, SameLower, SameList
<1>4. Sound(X) /\ Alike(X, Y) => AppKept(X, Y)
  BY AlikeKeepsApp DEF Sound, Bare
<1> QED BY <1>1, <1>2, <1>3, <1>4

\* A channel goes on to a state in which it has its client.
LEMMA ChannelGoesOn ==
    ASSUME NEW X, Bare(X), NEW c, IsChannel(c), c.cid \in Cids(X),
           c.psm = Channel(X, c.cid).psm, c.state # DECLINED
    PROVE  LET Y == SetChannel(X, c)
           IN  /\ Bare(Y) /\ (Sound(X) => Keeps(X, Y)) /\ OnlyL2cap(X, Y) /\ Low(X, Y)
               /\ Y.l2cap.next_cid = X.l2cap.next_cid
               /\ Cids(Y) = Cids(X)
               /\ Channel(Y, c.cid) = c
               /\ \A cid \in Cids(X) : Channel(Y, cid).psm = Channel(X, cid).psm
<1> DEFINE Y == SetChannel(X, c)
<1>1. /\ IsStack(Y) /\ Low(X, Y) /\ SameMux(X, Y) /\ SameApp(X, Y)
      /\ Y.l2cap.next_cid = X.l2cap.next_cid
      /\ Cids(Y) = Cids(X)
      /\ Channel(Y, c.cid) = c
      /\ \A cid \in Cids(X) : cid # c.cid => Channel(Y, cid) = Channel(X, cid)
      /\ OnlyL2cap(X, Y)
  BY SetChannelIs DEF Bare
<1> HIDE DEF Y
<1>2. \A cid \in Cids(X) : Channel(Y, cid).psm = Channel(X, cid).psm
  BY <1>1
<1>3. SdpOk(Y)
  BY <1>1, <1>2 DEF Bare, SdpOk, SameMux
<1>4. MuxOk(X) => MuxOk(Y)
  BY <1>1, <1>2 DEF MuxOk, SameMux
<1>5. ListOk(Y) /\ ConnOk(Y)
  BY <1>1 DEF Bare, ListOk, ConnOk, OnlyL2cap, connection_for_handle
<1>6. AppOk(Y)
  BY <1>1 DEF Bare, AppOk, OnlyL2cap, HasChannel, HasMux
<1>7. Bare(Y) /\ (Sound(X) => Keeps(X, Y))
  BY <1>1, <1>3, <1>4, <1>5, <1>6 DEF Bare, Sound, Keeps
<1> QED BY <1>1, <1>2, <1>7 DEF Y

LEMMA StateGoesOn ==
    ASSUME NEW X, Bare(X), NEW cid \in Cids(X), NEW state, state # DECLINED
    PROVE  LET Y == SetChannelState(X, cid, state)
           IN  /\ Bare(Y) /\ (Sound(X) => Keeps(X, Y)) /\ OnlyL2cap(X, Y) /\ Low(X, Y)
               /\ Y.l2cap.next_cid = X.l2cap.next_cid
               /\ Cids(Y) = Cids(X)
               /\ Channel(Y, cid).state = state
               /\ \A d \in Cids(X) : Channel(Y, d).psm = Channel(X, d).psm
<1> DEFINE c == [Channel(X, cid) EXCEPT !.state = state]
<1>1. IsChannel(Channel(X, cid)) /\ Channel(X, cid).cid = cid
  BY ChannelIs DEF Bare
<1>2. IsChannel(c) /\ c.cid = cid /\ c.psm = Channel(X, cid).psm /\ c.state = state
  BY <1>1 DEF IsChannel
<1>3. SetChannelState(X, cid, state) = SetChannel(X, c)
  BY DEF SetChannelState
<1> HIDE DEF c
<1> QED BY <1>2, <1>3, ChannelGoesOn

\* The multiplexer and its channel are gone.
LEMMA MuxGone ==
    ASSUME NEW X, Bare(X), HasChannel(X) /\ X.rfcomm.channel.state = "OPEN" => ~X.app.open
    PROVE  LET Y == [X EXCEPT !.rfcomm.mux = NONE, !.rfcomm.channel = NONE]
           IN  /\ Sound(Y) /\ Low(X, Y) /\ ~HasMux(Y) /\ ~HasChannel(Y)
               /\ Y.l2cap = X.l2cap /\ Y.sdp = X.sdp
<1> DEFINE Y == [X EXCEPT !.rfcomm.mux = NONE, !.rfcomm.channel = NONE]
<1>1. IsStack(X)
  BY DEF Bare
<1>2. /\ Y.usb = X.usb /\ Y.hci = X.hci /\ Y.l2cap = X.l2cap /\ Y.sdp = X.sdp /\ Y.app = X.app
      /\ ~HasMux(Y) /\ ~HasChannel(Y)
  BY <1>1 DEF IsStack, HasMux, HasChannel
<1>3. IsStack(Y)
  BY <1>1 DEF IsStack, HasConn, HasMux, HasChannel, Chans
<1> HIDE DEF Y
<1>4. Low(X, Y)
  BY <1>2 DEF Low, Counted, SameHci, SameConn, HasConn, connection_for_handle
<1>5. ListOk(Y) /\ SdpOk(Y) /\ ConnOk(Y)
  BY <1>2 DEF Bare, ListOk, SdpOk, ConnOk, Cids, Channel, PlaceOf, connection_for_handle
<1>6. AppOk(Y) /\ MuxOk(Y)
  BY <1>2 DEF Bare, AppOk, MuxOk
<1>7. Sound(Y)
  BY <1>3, <1>5, <1>6 DEF Sound, Bare
<1> QED BY <1>2, <1>4, <1>7 DEF Y

LEMMA MuxEnds ==
    ASSUME NEW X, Bare(X), HasMux(X)
    PROVE  LET Y == rfcomm_multiplexer_finalize(X)
           IN  /\ Sound(Y) /\ Low(X, Y) /\ ~HasMux(Y) /\ ~HasChannel(Y)
               /\ Y.l2cap.next_cid = X.l2cap.next_cid
               /\ Cids(Y) = Cids(X)
               /\ Y.sdp = X.sdp
               /\ X.rfcomm.mux.l2cap_cid \notin Cids(X) => Y.l2cap = X.l2cap
<1> DEFINE cid  == X.rfcomm.mux.l2cap_cid
           told == IF HasChannel(X) /\ X.rfcomm.channel.state = "OPEN" THEN AppClosed(X) ELSE X
           ended == [told EXCEPT !.rfcomm.mux = NONE, !.rfcomm.channel = NONE]
           Y == rfcomm_multiplexer_finalize(X)
<1>1. Y = l2cap_disconnect(ended, cid)
  BY DEF rfcomm_multiplexer_finalize
<1>2. /\ Bare(told) /\ Low(X, told)
      /\ HasChannel(told) /\ told.rfcomm.channel.state = "OPEN" => ~told.app.open
      /\ told.l2cap = X.l2cap /\ told.sdp = X.sdp
  <2>1. CASE HasChannel(X) /\ X.rfcomm.channel.state = "OPEN"
    <3> DEFINE T == AppClosed(X)
    <3>1. SameLower(X, T) /\ T.rfcomm = X.rfcomm /\ ~T.app.open
      BY AppChange DEF Bare
    <3>2. T.l2cap = X.l2cap /\ T.sdp = X.sdp
      BY DEF AppClosed, Bare, IsStack
    <3>3. told = T
      BY <2>1
    <3> HIDE DEF T, told
    <3>4. AppOk(T)
      BY <3>1 DEF Bare, AppOk, HasChannel, HasMux
    <3>5. Bare(T)
      BY <3>1, <3>4, AppKeptIsSound DEF AppKept
    <3> QED BY <3>1, <3>2, <3>3, <3>5 DEF SameLower
  <2>2. CASE ~(HasChannel(X) /\ X.rfcomm.channel.state = "OPEN")
    <3>1. told = X
      BY <2>2
    <3> QED BY <2>2, <3>1, LowIsOrder
  <2> QED BY <2>1, <2>2
<1> HIDE DEF told
<1>3. /\ Sound(ended) /\ Low(told, ended) /\ ~HasMux(ended) /\ ~HasChannel(ended)
      /\ ended.l2cap = told.l2cap /\ ended.sdp = told.sdp
  BY <1>2, MuxGone
<1> HIDE DEF ended, cid, Y
<1>4. Low(X, ended) /\ ended.l2cap = X.l2cap /\ Cids(ended) = Cids(X) /\ ended.sdp = X.sdp
  BY <1>2, <1>3, LowIsOrder DEF Cids
<1>5. CASE cid \in Cids(ended)
  <2> DEFINE Z == SetChannelState(ended, cid, "WILL_SEND_DISCONNECT_REQUEST")
  <2>1. Y = Z
    BY <1>1, <1>5 DEF l2cap_disconnect
  <2>2. /\ Keeps(ended, Z) /\ OnlyL2cap(ended, Z)
    BY <1>3, <1>5, StateGoesOn DEF Sound, DECLINED
  <2> HIDE DEF Z
  <2>3. Low(X, Z)
    BY <1>4, <2>2, LowIsOrder DEF Keeps
  <2>4. ~HasMux(Z) /\ ~HasChannel(Z) /\ Z.sdp = X.sdp
    BY <1>3, <1>4, <2>2 DEF OnlyL2cap, HasMux, HasChannel
  <2> QED BY <1>4, <1>5, <2>1, <2>2, <2>3, <2>4 DEF Keeps, cid, Y
<1>6. CASE cid \notin Cids(ended)
  <2>1. Y = ended
    BY <1>1, <1>6 DEF l2cap_disconnect
  <2> QED BY <1>3, <1>4, <2>1 DEF Y
<1> QED BY <1>5, <1>6

LEMMA MuxEnter ==
    ASSUME NEW X, IsStack(X), HasMux(X), NEW state
    PROVE  LET Y == [X EXCEPT !.rfcomm.mux.state = state]
           IN  /\ IsStack(Y) /\ Low(X, Y) /\ SameList(X, Y) /\ SameApp(X, Y) /\ HasMux(Y)
               /\ Y.rfcomm.mux.state = state
               /\ Y.rfcomm.mux.l2cap_cid = X.rfcomm.mux.l2cap_cid
               /\ Y.l2cap = X.l2cap
               /\ Bare(X) => Bare(Y)
<1> DEFINE Y == [X EXCEPT !.rfcomm.mux.state = state]
<1>1. /\ Y.usb = X.usb /\ Y.hci = X.hci /\ Y.l2cap = X.l2cap /\ Y.sdp = X.sdp /\ Y.app = X.app
      /\ Y.rfcomm.channel = X.rfcomm.channel
      /\ Y.rfcomm.mux.state = state /\ Y.rfcomm.mux.l2cap_cid = X.rfcomm.mux.l2cap_cid
  BY DEF IsStack, HasMux
<1>2. IsStack(Y) /\ HasMux(Y)
  BY DEF IsStack, HasConn, HasMux, HasChannel, Chans, NONE
<1> HIDE DEF Y
<1>3. Low(X, Y) /\ SameList(X, Y) /\ SameApp(X, Y)
  BY <1>1 DEF Low, Counted, SameHci, SameConn, HasConn, connection_for_handle, SameList, Chans, SameApp, HasChannel
<1>4. Bare(X) => Bare(Y)
  BY <1>1, <1>2 DEF Bare, ListOk, SdpOk, ConnOk, AppOk, HasChannel, Cids, Channel, PlaceOf, connection_for_handle
<1> QED BY <1>1, <1>2, <1>3, <1>4 DEF Y

LEMMA AlikeIsBare ==
    ASSUME NEW X, NEW Y, Bare(X), Alike(X, Y)
    PROVE  /\ Bare(Y)
           /\ HasMux(Y) <=> HasMux(X)
           /\ Cids(Y) = Cids(X)
           /\ Y.l2cap.next_cid = X.l2cap.next_cid
           /\ Low(X, Y)
<1>1. AppKept(X, Y)
  BY AlikeKeepsApp DEF Bare
<1> QED BY <1>1, AppKeptIsSound, Lists DEF Alike, SameMux, SameList

LEMMA UaSent ==
    ASSUME NEW X, Sound(X), HasMux(X), X.rfcomm.mux.l2cap_cid \in Cids(X)
    PROVE  Keeps(X, SendUa(X))
<1> DEFINE state == X.rfcomm.mux.state
           opened == [X EXCEPT !.rfcomm.mux.state = "OPEN"]
           closed == [X EXCEPT !.rfcomm.mux.state = "CLOSED"]
<1>1. CASE state = "SEND_UA_0"
  <2>1. SendUa(X) = rfcomm_send_packet(opened, Frame(0, "UA"))
    BY <1>1 DEF SendUa
  <2>2. /\ IsStack(opened) /\ Low(X, opened) /\ HasMux(opened)
        /\ opened.rfcomm.mux.state = "OPEN"
        /\ opened.rfcomm.mux.l2cap_cid = X.rfcomm.mux.l2cap_cid
        /\ opened.l2cap = X.l2cap
        /\ Bare(opened)
    BY MuxEnter DEF Sound, Bare
  <2> HIDE DEF opened
  <2>3. MuxOk(opened)
    BY <2>2 DEF Sound, MuxOk, MuxStates, Cids, Channel, PlaceOf
  <2>4. Keeps(X, opened)
    BY <2>2, <2>3 DEF Keeps, Sound, Cids
  <2>5. Keeps(opened, rfcomm_send_packet(opened, Frame(0, "UA")))
    BY <2>2, <2>4, SendFrame, KeepsIsOrder DEF Keeps
  <2> QED BY <2>1, <2>4, <2>5, KeepsIsOrder
<1>2. CASE state = "SEND_UA_0_AND_DISC"
  <2> DEFINE sent == rfcomm_send_packet(closed, Frame(0, "UA"))
             Y == rfcomm_multiplexer_finalize(sent)
  <2>1. SendUa(X) = Y
    BY <1>2 DEF SendUa
  <2>2. IsStack(closed) /\ Low(X, closed) /\ HasMux(closed) /\ Bare(closed) /\ closed.l2cap = X.l2cap
    BY MuxEnter DEF Sound, Bare
  <2>6. Cids(closed) = Cids(X)
    BY <2>2 DEF Cids
  <2> HIDE DEF closed
  <2>3. Alike(closed, sent)
    BY <2>2, SendFrame
  <2> HIDE DEF sent
  <2>4. /\ Bare(sent) /\ HasMux(sent) /\ Low(X, sent) /\ Cids(sent) = Cids(X)
        /\ sent.l2cap.next_cid = X.l2cap.next_cid
    BY <2>2, <2>3, <2>6, AlikeIsBare, LowIsOrder
  <2>5. Sound(Y) /\ Low(sent, Y) /\ Y.l2cap.next_cid = sent.l2cap.next_cid /\ Cids(Y) = Cids(sent)
    BY <2>4, MuxEnds
  <2> HIDE DEF Y
  <2> QED BY <2>1, <2>4, <2>5, LowIsOrder DEF Keeps
<1>3. CASE state \notin {"SEND_UA_0", "SEND_UA_0_AND_DISC"}
  BY <1>3, KeepsIsOrder DEF SendUa
<1> QED BY <1>1, <1>2, <1>3

LEMMA DmSent ==
    ASSUME NEW X, IsStack(X), HasMux(X)
    PROVE  Alike(X, SendDm(X))
<1> DEFINE sent == rfcomm_send_packet(X, Frame(X.rfcomm.mux.dm, "DM"))
           Y == [sent EXCEPT !.rfcomm.mux.dm = 0]
<1>1. SendDm(X) = IF X.rfcomm.mux.dm = 0 THEN X ELSE Y
  BY DEF SendDm
<1>2. Alike(X, sent)
  BY SendFrame
<1> HIDE DEF sent
<1>3. IsStack(sent) /\ HasMux(sent)
  BY <1>2 DEF Alike, SameMux
<1>4. Y.usb = sent.usb /\ Y.hci = sent.hci /\ Y.l2cap = sent.l2cap
  BY <1>3 DEF IsStack
<1>5. IsStack(Y) /\ SameMux(sent, Y) /\ SameApp(sent, Y)
  BY <1>3 DEF IsStack, HasConn, HasMux, HasChannel, Chans, NONE, SameMux, SameApp
<1> HIDE DEF Y
<1>6. Low(sent, Y) /\ SameList(sent, Y)
  BY <1>4 DEF Low, Counted, SameHci, SameConn, HasConn, connection_for_handle, SameList, Chans
<1>7. Alike(X, Y)
  BY <1>2, <1>5, <1>6, AlikeIsOrder DEF Alike
<1> QED BY <1>1, <1>7, AlikeIsOrder

LEMMA MuxRuns ==
    ASSUME NEW X, Sound(X)
    PROVE  Keeps(X, rfcomm_multiplexer_state_machine(X))
<1>1. CASE MuxCanSend(X)
  <2> DEFINE Y == SendDm(X)
  <2>1. HasMux(X) /\ X.rfcomm.mux.l2cap_cid \in Cids(X) /\ IsStack(X)
    BY <1>1 DEF MuxCanSend, l2cap_can_send_packet_now, Sound, Bare
  <2>2. Alike(X, Y)
    BY <2>1, DmSent
  <2>3. rfcomm_multiplexer_state_machine(X) = SendUa(Y)
    BY <1>1 DEF rfcomm_multiplexer_state_machine
  <2> HIDE DEF Y
  <2>4. Keeps(X, Y)
    BY <2>2, KeepsIsOrder
  <2>5. HasMux(Y) /\ Y.rfcomm.mux.l2cap_cid \in Cids(Y)
    BY <2>1, <2>2, <2>4 DEF Alike, SameMux, Keeps
  <2>6. Keeps(Y, SendUa(Y))
    BY <2>4, <2>5, UaSent DEF Keeps
  <2> QED BY <2>3, <2>4, <2>6, KeepsIsOrder
<1>2. CASE ~MuxCanSend(X)
  BY <1>2, KeepsIsOrder DEF rfcomm_multiplexer_state_machine
<1> QED BY <1>1, <1>2

LEMMA RfcommRuns ==
    ASSUME NEW X, Sound(X)
    PROVE  /\ Keeps(X, rfcomm_run(X))
           /\ ~HasMux(X) => rfcomm_run(X) = X
<1> DEFINE Y == rfcomm_multiplexer_state_machine(X)
<1>1. Keeps(X, Y)
  BY MuxRuns
<1>2. ~HasMux(X) => Y = X
  BY DEF rfcomm_multiplexer_state_machine, MuxCanSend
<1> HIDE DEF Y
<1>3. Keeps(Y, RunDlc(Y))
  <2>1. Sound(Y)
    BY <1>1 DEF Keeps
  <2>2. HasChannel(Y) => AppKept(Y, rfcomm_channel_state_machine(Y, "READY", 0))
    BY <2>1, DlcStep DEF Sound, Bare
  <2>3. HasChannel(Y) => Keeps(Y, rfcomm_channel_state_machine(Y, "READY", 0))
    BY <2>1, <2>2, KeepsIsOrder
  <2> QED BY <2>1, <2>3, KeepsIsOrder DEF RunDlc
<1>4. ~HasMux(X) => RunDlc(X) = X
  BY DEF RunDlc, MuxCanSend
<1>5. rfcomm_run(X) = RunDlc(Y)
  BY DEF rfcomm_run, Y
<1> QED BY <1>1, <1>2, <1>3, <1>4, <1>5, KeepsIsOrder

LEMMA CreditsCome ==
    ASSUME NEW X, Sound(X), NEW cid
    PROVE  Keeps(X, RfcommCredits(X, cid))
<1>1. CASE ~rfcomm_multiplexer_for_l2cap_cid(X, cid)
  BY <1>1, KeepsIsOrder DEF RfcommCredits
<1>2. CASE rfcomm_multiplexer_for_l2cap_cid(X, cid)
  <2> DEFINE n == X.rfcomm.mux.credits + 1
             Y == [X EXCEPT !.rfcomm.mux.credits = n]
             Z == rfcomm_run(Y)
  <2>1. RfcommCredits(X, cid) = HandOutIfOpen(Z)
    BY <1>2 DEF RfcommCredits
  <2> HIDE DEF n
  <2>2. Alike(X, Y)
    BY <1>2, CountCredits DEF rfcomm_multiplexer_for_l2cap_cid, Sound, Bare
  <2> HIDE DEF Y
  <2>3. Keeps(X, Y)
    BY <2>2, KeepsIsOrder
  <2>4. Keeps(Y, Z)
    BY <2>3, RfcommRuns DEF Keeps
  <2> HIDE DEF Z
  <2>5. Alike(Z, HandOutIfOpen(Z)) /\ Sound(Z)
    BY <2>4, HandOut DEF Keeps, Sound, Bare
  <2> QED BY <2>1, <2>3, <2>4, <2>5, KeepsIsOrder
<1> QED BY <1>1, <1>2

----------------------------------------------------------------------------
(* Frames, and what the application calls.                                 *)

LEMMA DlcStaysOnCredits ==
    ASSUME NEW X, IsStack(X), HasChannel(X), AppOk(X)
    PROVE  HasChannel(rfcomm_channel_state_machine(X, "CREDITS", 0))
<1> DEFINE state == X.rfcomm.channel.state
<1>1. \/ rfcomm_channel_state_machine(X, "CREDITS", 0) = X
      \/ rfcomm_channel_state_machine(X, "CREDITS", 0) = OpenIfReady(X)
  BY DEF AppOk, DlcStates, rfcomm_channel_state_machine, InClosed, InSetup, InDlcSetup,
         InOpen, InSendDisc, InSendUa
<1>2. HasChannel(OpenIfReady(X))
  BY Opening DEF OpenIfReady, AppOk
<1> QED BY <1>1, <1>2

LEMMA UihTaken ==
    ASSUME NEW X, IsStack(X), AppOk(X), NEW f
    PROVE  AppKept(X, rfcomm_channel_packet_handler_uih(X, f))
<1>1. CASE ~rfcomm_channel_for_dlci(X, f.dlci)
  BY <1>1, AppKeptIsOrder DEF rfcomm_channel_packet_handler_uih
<1>2. CASE rfcomm_channel_for_dlci(X, f.dlci)
  <2> DEFINE n == (X.rfcomm.channel.out + f.credits) % 256
             more == [X EXCEPT !.rfcomm.channel.out = n]
             credited == IF f.type = "UIH_PF"
                         THEN rfcomm_channel_state_machine(more, "CREDITS", 0) ELSE X
             in == IF credited.rfcomm.channel.in = 0 THEN 0 ELSE credited.rfcomm.channel.in - 1
             used == [credited EXCEPT !.rfcomm.channel.in = in]
             heard == IF f.data = 0 THEN credited ELSE AppData(used, f.data)
             filled == Replenish(heard)
  <2>1. HasChannel(X)
    BY <1>2 DEF rfcomm_channel_for_dlci
  <2>2. rfcomm_channel_packet_handler_uih(X, f) = rfcomm_hand_out_credits(filled)
    BY <1>2 DEF rfcomm_channel_packet_handler_uih
  <2> HIDE DEF n
  <2>3. Alike(X, more)
    BY <2>1, Counts
  <2> HIDE DEF more
  <2>4. AppKept(X, credited) /\ HasChannel(credited)
    <3>1. AppKept(X, more) /\ IsStack(more) /\ AppOk(more) /\ HasChannel(more)
      BY <2>1, <2>3, AlikeKeepsApp DEF AppKept, Alike, SameApp
    <3>2. AppKept(more, rfcomm_channel_state_machine(more, "CREDITS", 0))
      BY <3>1, DlcStep
    <3>3. HasChannel(rfcomm_channel_state_machine(more, "CREDITS", 0))
      BY <3>1, DlcStaysOnCredits
    <3> QED BY <2>1, <3>1, <3>2, <3>3, AppKeptIsOrder DEF AppKept
  <2> HIDE DEF credited, in
  <2>5. IsStack(credited)
    BY <2>4 DEF AppKept, SameLower
  <2>6. Alike(credited, used)
    BY <2>4, <2>5, Counts
  <2> HIDE DEF used
  <2>7. Alike(used, AppData(used, f.data))
    BY <2>6, AppChange DEF Alike
  <2>8. Alike(credited, heard)
    BY <2>5, <2>6, <2>7, AlikeIsOrder
  <2> HIDE DEF heard
  <2>9. HasChannel(heard) /\ IsStack(heard)
    BY <2>4, <2>8 DEF Alike, SameApp
  <2>10. Alike(heard, filled)
    BY <2>9, Counts, AlikeIsOrder DEF Replenish
  <2> HIDE DEF filled
  <2>11. Alike(filled, rfcomm_hand_out_credits(filled))
    BY <2>10, HandOut DEF Alike
  <2> QED BY <2>2, <2>4, <2>8, <2>10, <2>11, AppKeptIsOrder
<1> QED BY <1>1, <1>2

LEMMA DirectTaken ==
    ASSUME NEW X, IsStack(X), HasMux(X), AppOk(X), NEW f
    PROVE  AppKept(X, rfcomm_channel_packet_handler(X, f))
<1>1. \/ \E dlci, ev, n : rfcomm_channel_packet_handler(X, f) = rfcomm_channel_state_machine_2(X, dlci, ev, n)
      \/ rfcomm_channel_packet_handler(X, f) = X
  BY Zenon DEF rfcomm_channel_packet_handler
<1> QED BY <1>1, DlcEvent, AppKeptIsOrder

LEMMA MuxFrameTaken ==
    ASSUME NEW X, Sound(X), HasMux(X), NEW f
    PROVE  Keeps(X, MuxFrame(X, f))
<1>1. ASSUME NEW state \in Waiting
      PROVE  Keeps(X, [X EXCEPT !.rfcomm.mux.state = state])
  <2> DEFINE Y == [X EXCEPT !.rfcomm.mux.state = state]
  <2>1. /\ IsStack(Y) /\ Low(X, Y) /\ HasMux(Y)
        /\ Y.rfcomm.mux.state = state
        /\ Y.rfcomm.mux.l2cap_cid = X.rfcomm.mux.l2cap_cid
        /\ Y.l2cap = X.l2cap
        /\ Bare(Y)
    BY MuxEnter DEF Sound, Bare
  <2> HIDE DEF Y
  <2>2. MuxOk(Y)
    BY <2>1 DEF Sound, MuxOk, MuxStates, Cids, Channel, PlaceOf
  <2>3. Keeps(X, Y)
    BY <2>1, <2>2 DEF Keeps, Sound, Cids
  <2> QED BY <2>3 DEF Y
<1>2. Keeps(X, rfcomm_multiplexer_finalize(X))
  BY MuxEnds DEF Keeps, Sound
<1> QED BY <1>1, <1>2 DEF MuxFrame, Waiting

LEMMA RfcommTaken ==
    ASSUME NEW X, Sound(X), NEW cid, NEW f
    PROVE  Keeps(X, rfcomm_packet_handler(X, cid, f))
<1> DEFINE uih == rfcomm_channel_packet_handler_uih(X, f)
           direct == rfcomm_channel_packet_handler(X, f)
<1>1. \/ rfcomm_packet_handler(X, cid, f) = X
      \/ HasMux(X) /\ \/ rfcomm_packet_handler(X, cid, f) = rfcomm_run(MuxFrame(X, f))
                      \/ rfcomm_packet_handler(X, cid, f) = rfcomm_run(uih)
                      \/ rfcomm_packet_handler(X, cid, f) = rfcomm_run(direct)
  BY DEF rfcomm_packet_handler, rfcomm_multiplexer_for_l2cap_cid
<1>2. HasMux(X) => Keeps(X, MuxFrame(X, f)) /\ Keeps(X, uih) /\ Keeps(X, direct)
  BY MuxFrameTaken, UihTaken, DirectTaken, KeepsIsOrder DEF Sound, Bare
<1> HIDE DEF uih, direct
<1>3. \A Y : Keeps(X, Y) => Keeps(X, rfcomm_run(Y))
  BY RfcommRuns, KeepsIsOrder DEF Keeps
<1> QED BY <1>1, <1>2, <1>3, KeepsIsOrder

----------------------------------------------------------------------------
(* The service, and what the application calls.                            *)

SetSdp(X, sdp) == [X EXCEPT !.sdp = sdp]

LEMMA SdpChange ==
    ASSUME NEW X, IsStack(X), NEW sdp, DOMAIN sdp = {"cid", "response"}
    PROVE  LET Y == SetSdp(X, sdp)
           IN  /\ IsStack(Y) /\ Low(X, Y) /\ SameList(X, Y) /\ SameApp(X, Y)
               /\ Y.usb = X.usb /\ Y.hci = X.hci /\ Y.l2cap = X.l2cap
               /\ Y.rfcomm = X.rfcomm /\ Y.app = X.app /\ Y.sdp = sdp
<1> DEFINE Y == SetSdp(X, sdp)
<1>1. /\ Y.usb = X.usb /\ Y.hci = X.hci /\ Y.l2cap = X.l2cap
      /\ Y.rfcomm = X.rfcomm /\ Y.app = X.app /\ Y.sdp = sdp
  BY DEF IsStack, SetSdp
<1>2. IsStack(Y)
  BY DEF IsStack, SetSdp, HasConn, HasMux, HasChannel, Chans
<1> HIDE DEF Y
<1>3. Low(X, Y) /\ SameList(X, Y) /\ SameApp(X, Y)
  BY <1>1 DEF Low, Counted, SameHci, SameConn, HasConn, connection_for_handle, SameList, Chans, SameApp, HasChannel
<1> QED BY <1>1, <1>2, <1>3 DEF Y

LEMMA SdpWaits ==
    ASSUME NEW X, IsStack(X), NEW r
    PROVE  LET Y == [X EXCEPT !.sdp.response = r]
           IN  Alike(X, Y) /\ Y.usb = X.usb /\ Y.hci = X.hci /\ Y.l2cap = X.l2cap
<1> DEFINE sdp == [X.sdp EXCEPT !.response = r]
           Y == SetSdp(X, sdp)
<1>1. DOMAIN sdp = {"cid", "response"} /\ sdp.cid = X.sdp.cid
  BY DEF IsStack
<1>2. [X EXCEPT !.sdp.response = r] = Y
  BY DEF IsStack, SetSdp
<1> HIDE DEF sdp
<1>3. /\ IsStack(Y) /\ Low(X, Y) /\ SameList(X, Y) /\ SameApp(X, Y)
      /\ Y.usb = X.usb /\ Y.hci = X.hci /\ Y.l2cap = X.l2cap
      /\ Y.rfcomm = X.rfcomm /\ Y.sdp = sdp
  BY <1>1, SdpChange
<1> HIDE DEF Y
<1>4. Alike(X, Y)
  BY <1>1, <1>3 DEF Alike, SameMux, HasMux
<1> QED BY <1>2, <1>3, <1>4

LEMMA SdpResponds ==
    ASSUME NEW X, IsStack(X)
    PROVE  Alike(X, sdp_try_respond(X))
<1>1. CASE X.sdp.response = NONE \/ ~l2cap_can_send_packet_now(X, X.sdp.cid)
  BY <1>1, AlikeIsOrder DEF sdp_try_respond
<1>2. CASE ~(X.sdp.response = NONE \/ ~l2cap_can_send_packet_now(X, X.sdp.cid))
  <2> DEFINE Y == [X EXCEPT !.sdp.response = NONE]
  <2>1. sdp_try_respond(X) = l2cap_send_prepared(Y, X.sdp.cid, X.sdp.response)
    BY <1>2 DEF sdp_try_respond
  <2>2. Alike(X, Y) /\ Y.usb = X.usb /\ Y.hci = X.hci /\ Y.l2cap = X.l2cap
    BY SdpWaits
  <2> HIDE DEF Y
  <2>3. l2cap_can_send_packet_now(Y, X.sdp.cid)
    BY <1>2, <2>2 DEF l2cap_can_send_packet_now, Cids, Channel, PlaceOf, CanSendAcl, hci_number_free_acl_slots
  <2>4. Alike(Y, l2cap_send_prepared(Y, X.sdp.cid, X.sdp.response))
    BY <2>2, <2>3, SendPrepared DEF Alike
  <2> QED BY <2>1, <2>2, <2>4, AlikeIsOrder
<1> QED BY <1>1, <1>2

LEMMA SdpAsked ==
    ASSUME NEW X, IsStack(X), NEW cid, NEW q
    PROVE  Alike(X, SdpQuery(X, cid, q))
<1>1. PICK r : SdpQuery(X, cid, q) = sdp_try_respond([X EXCEPT !.sdp.response = r])
  BY Zenon DEF SdpQuery
<1>2. Alike(X, [X EXCEPT !.sdp.response = r])
  BY SdpWaits
<1> QED BY <1>1, <1>2, SdpResponds, AlikeIsOrder DEF Alike

LEMMA SdpFree ==
    ASSUME NEW X, IsStack(X), ListOk(X), MuxOk(X), AppOk(X), ConnOk(X)
    PROVE  LET Y == [X EXCEPT !.sdp.cid = 0]
           IN  Keeps(X, Y) /\ Y.sdp.cid = 0 /\ Y.rfcomm = X.rfcomm
<1> DEFINE sdp == [X.sdp EXCEPT !.cid = 0]
           Y == SetSdp(X, sdp)
<1>1. DOMAIN sdp = {"cid", "response"} /\ sdp.cid = 0
  BY DEF IsStack
<1>2. [X EXCEPT !.sdp.cid = 0] = Y
  BY DEF IsStack, SetSdp
<1> HIDE DEF sdp
<1>3. /\ IsStack(Y) /\ Low(X, Y)
      /\ Y.hci = X.hci /\ Y.l2cap = X.l2cap /\ Y.app = X.app
      /\ Y.rfcomm = X.rfcomm /\ Y.sdp = sdp
  BY <1>1, SdpChange
<1> HIDE DEF Y
<1>4. SdpOk(Y)
  BY <1>1, <1>3 DEF SdpOk
<1>5. ListOk(Y) /\ MuxOk(Y) /\ AppOk(Y) /\ ConnOk(Y)
  BY <1>3 DEF ListOk, MuxOk, AppOk, ConnOk, Cids, Channel, PlaceOf, HasMux, HasChannel,
              connection_for_handle
<1>6. Keeps(X, Y)
  BY <1>3, <1>4, <1>5 DEF Keeps, Sound, Bare, Cids
<1> QED BY <1>1, <1>2, <1>3, <1>6

LEMMA Granting ==
    ASSUME NEW X, IsStack(X)
    PROVE  Alike(X, BTGrant(X))
<1> DEFINE app == [X.app EXCEPT !.credit = FALSE]
           Y == [X EXCEPT !.app = app]
<1>1. BTGrant(X) = X \/ BTGrant(X) = Y
  BY DEF BTGrant, IsStack
<1>2. DOMAIN app = DOMAIN X.app /\ app.open = X.app.open /\ app.channel = X.app.channel
  BY DEF IsStack
<1> HIDE DEF app
<1>3. SameLower(X, Y) /\ Y.app = app /\ Y.rfcomm = X.rfcomm
  BY <1>2, AppHears
<1> HIDE DEF Y
<1>4. Alike(X, Y)
  BY <1>2, <1>3 DEF Alike, SameLower, SameApp, HasChannel
<1> QED BY <1>1, <1>4, AlikeIsOrder

LEMMA Writing ==
    ASSUME NEW X, IsStack(X), NEW data
    PROVE  Alike(X, BTWrite(X, data))
<1> DEFINE c == X.rfcomm.channel
           d == [c EXCEPT !.out = @ - 1, !.granted = @ - 1]
           T == SetDlc(X, d)
           frame == [Frame(X.rfcomm.channel.dlci, "UIH") EXCEPT !.data = data]
           sent == rfcomm_send_packet(T, frame)
<1>4. [X EXCEPT !.rfcomm.channel.out = @ - 1, !.rfcomm.channel.granted = @ - 1] = T
  BY DEF SetDlc, IsStack
<1>1. \/ BTWrite(X, data) = X
      \/ HasChannel(X) /\ BTWrite(X, data) = rfcomm_hand_out_credits(sent)
  BY <1>4, Zenon DEF BTWrite, rfcomm_channel_for_rfcomm_cid
<1>2. CASE HasChannel(X)
  <2>1. IsDlc(d) /\ d.cid = c.cid /\ d.state = c.state
    BY <1>2 DEF IsStack, IsDlc
  <2> HIDE DEF d, frame
  <2>2. Alike(X, T)
    BY <1>2, <2>1, DlcDetails
  <2> HIDE DEF T
  <2>3. Alike(T, sent)
    BY <2>2, SendFrame DEF Alike
  <2> HIDE DEF sent
  <2>4. Alike(sent, rfcomm_hand_out_credits(sent))
    BY <2>3, HandOut DEF Alike
  <2> QED BY <1>1, <2>2, <2>3, <2>4, AlikeIsOrder
<1>3. CASE ~HasChannel(X)
  BY <1>1, <1>3, AlikeIsOrder
<1> QED BY <1>2, <1>3

LEMMA Closing ==
    ASSUME NEW X, IsStack(X), AppOk(X)
    PROVE  AppKept(X, BTClose(X))
<1> DEFINE Y == EnterState(X, "SEND_DISC")
           app == [Y.app EXCEPT !.open = FALSE]
           Z == [Y EXCEPT !.app = app]
<1>1. CASE HasChannel(X)
  <2>1. /\ IsStack(Y) /\ SameLower(X, Y) /\ HasChannel(Y) /\ Y.app = X.app
        /\ Y.rfcomm.channel.state = "SEND_DISC"
    BY <1>1, Entering
  <2>2. BTClose(X) = X \/ BTClose(X) = Z
    BY <2>1 DEF BTClose, IsStack
  <2> HIDE DEF Y
  <2>3. DOMAIN app = DOMAIN Y.app /\ ~app.open
    BY <2>1 DEF IsStack
  <2> HIDE DEF app
  <2>4. SameLower(Y, Z) /\ Z.app = app /\ Z.rfcomm = Y.rfcomm
    BY <2>1, <2>3, AppHears
  <2> HIDE DEF Z
  <2>5. SameLower(X, Z)
    BY <2>1, <2>4, SameLowerIsOrder
  <2>6. AppOk(Z)
    BY <1>1, <2>1, <2>3, <2>4, <2>5 DEF AppOk, SameLower, SameMux, HasChannel, DlcStates
  <2> QED BY <2>2, <2>5, <2>6, AppKeptIsOrder DEF AppKept
<1>2. CASE ~HasChannel(X)
  BY <1>2, AppKeptIsOrder DEF BTClose, rfcomm_channel_for_rfcomm_cid
<1> QED BY <1>1, <1>2

----------------------------------------------------------------------------
(* The events of a channel.                                                *)

LEMMA CreditsEmitted ==
    ASSUME NEW X, Sound(X), NEW cid \in Cids(X)
    PROVE  Keeps(X, l2cap_emit_credits(X, cid))
<1> DEFINE c == Channel(X, cid)
           d == [c EXCEPT !.granted = @ + 1]
           Y == SetChannel(X, d)
<1>1. IsChannel(c) /\ c.cid = cid /\ IsStack(X)
  BY ChannelIs DEF Sound, Bare
<1>2. l2cap_emit_credits(X, cid) = IF IsSdp(c) THEN sdp_try_respond(Y) ELSE RfcommCredits(Y, cid)
  BY DEF l2cap_emit_credits
<1>3. IsChannel(d) /\ d.cid = cid /\ d.psm = c.psm /\ d.state = c.state
  BY <1>1 DEF IsChannel
<1> HIDE DEF d
<1>4. Keeps(X, Y)
  BY <1>1, <1>3, DetailsOfChannel, KeepsIsOrder
<1> HIDE DEF Y
<1>5. Keeps(Y, sdp_try_respond(Y)) /\ Keeps(Y, RfcommCredits(Y, cid))
  BY <1>4, SdpResponds, CreditsCome, KeepsIsOrder DEF Keeps, Sound, Bare
<1> QED BY <1>2, <1>4, <1>5, KeepsIsOrder

LEMMA Emitted ==
    ASSUME NEW X, Sound(X), NEW c
    PROVE  /\ Keeps(X, EmitOpened(X, c))
           /\ Keeps(X, EmitPacketSent(X, c))
           /\ \A body : Keeps(X, l2cap_dispatch(X, c, body))
<1>1. IsStack(X)
  BY DEF Sound, Bare
<1>2. Keeps(X, X) /\ Keeps(X, rfcomm_run(X))
  BY KeepsIsOrder, RfcommRuns
<1>3. Keeps(X, sdp_try_respond(X))
  BY <1>1, SdpResponds, KeepsIsOrder
<1>4. \A body : Keeps(X, SdpQuery(X, c.cid, body)) /\ Keeps(X, rfcomm_packet_handler(X, c.cid, body))
  BY <1>1, SdpAsked, RfcommTaken, KeepsIsOrder
<1> QED BY <1>2, <1>3, <1>4 DEF EmitOpened, EmitPacketSent, l2cap_dispatch

LEMMA Opened ==
    ASSUME NEW X, Sound(X), NEW cid \in Cids(X)
    PROVE  Keeps(X, OpenChannel(X, cid))
<1> DEFINE Y == SetChannelState(X, cid, "OPEN")
           Z == EmitOpened(Y, Channel(X, cid))
<1>1. OpenChannel(X, cid) = X \/ OpenChannel(X, cid) = l2cap_emit_credits(Z, cid)
  BY DEF OpenChannel
<1>2. Keeps(X, Y)
  BY StateGoesOn DEF Sound, DECLINED
<1> HIDE DEF Y
<1>3. Keeps(Y, Z)
  BY <1>2, Emitted DEF Keeps
<1> HIDE DEF Z
<1>4. Keeps(Z, l2cap_emit_credits(Z, cid))
  BY <1>2, <1>3, CreditsEmitted DEF Keeps
<1> QED BY <1>1, <1>2, <1>3, <1>4, KeepsIsOrder

\* Nothing is built on the channel any more.
NoClient(X, cid) ==
    /\ X.sdp.cid # cid
    /\ HasMux(X) /\ X.rfcomm.mux.l2cap_cid = cid => X.rfcomm.mux.state \in Waiting

LEMMA ClosedEmitted ==
    ASSUME NEW X, Sound(X), NEW cid \in Cids(X), NEW c, c.cid = cid, c.psm = Channel(X, cid).psm
    PROVE  Keeps(X, EmitClosed(X, c)) /\ NoClient(EmitClosed(X, c), cid)
<1>1. cid \in Nat /\ 64 <= cid /\ cid # 0
  BY DEF Sound, Bare, ListOk
<1>2. CASE IsSdp(c)
  <2> DEFINE Y == [X EXCEPT !.sdp.cid = 0]
  <2>1. EmitClosed(X, c) = IF cid = X.sdp.cid THEN Y ELSE X
    BY <1>2 DEF EmitClosed, SdpClosed
  <2>2. Keeps(X, Y) /\ Y.sdp.cid = 0 /\ Y.rfcomm = X.rfcomm
    BY SdpFree DEF Sound, Bare
  <2> HIDE DEF Y
  <2>4. Channel(X, cid).psm # PSM_RFCOMM
    BY <1>2 DEF IsSdp, PSM_SDP, PSM_RFCOMM
  <2>3. HasMux(X) => X.rfcomm.mux.l2cap_cid # cid
    BY <2>4 DEF Sound, MuxOk
  <2> QED BY <1>1, <2>1, <2>2, <2>3, KeepsIsOrder DEF NoClient, HasMux
<1>3. CASE ~IsSdp(c)
  <2> DEFINE ends == /\ rfcomm_multiplexer_for_l2cap_cid(X, cid)
                     /\ X.rfcomm.mux.state \in {"W4_SABM_0", "OPEN"}
             Y == rfcomm_multiplexer_finalize(X)
  <2>1. X.sdp.cid # cid
    BY <1>1, <1>3 DEF Sound, Bare, SdpOk, IsSdp
  <2>2. EmitClosed(X, c) = IF ends THEN rfcomm_run(Y) ELSE X
    BY <1>3 DEF EmitClosed, RfcommClosed
  <2>3. CASE ends
    <3>1. /\ Sound(Y) /\ Low(X, Y) /\ ~HasMux(Y)
          /\ Y.l2cap.next_cid = X.l2cap.next_cid /\ Cids(Y) = Cids(X) /\ Y.sdp = X.sdp
      BY <2>3, MuxEnds DEF rfcomm_multiplexer_for_l2cap_cid, Sound
    <3> HIDE DEF Y
    <3>2. rfcomm_run(Y) = Y
      BY <3>1, RfcommRuns
    <3> QED BY <2>1, <2>2, <2>3, <3>1, <3>2 DEF Keeps, NoClient
  <2>4. CASE ~ends
    <3>1. NoClient(X, cid)
      BY <2>1, <2>4 DEF NoClient, rfcomm_multiplexer_for_l2cap_cid, Sound, MuxOk, MuxStates
    <3> QED BY <2>2, <2>4, <3>1, KeepsIsOrder
  <2> QED BY <2>3, <2>4
<1> QED BY <1>2, <1>3

----------------------------------------------------------------------------
(* l2cap_run.                                                              *)

Shrinks(X, Y) ==
    /\ Sound(Y)
    /\ Low(X, Y)
    /\ Y.l2cap.next_cid = X.l2cap.next_cid
    /\ Cids(Y) \subseteq Cids(X)

LEMMA ShrinksIsOrder ==
    ASSUME NEW X, NEW Y, NEW Z
    PROVE  /\ Keeps(X, Y) => Shrinks(X, Y)
           /\ Sound(X) => Shrinks(X, X)
           /\ Shrinks(X, Y) /\ Shrinks(Y, Z) => Shrinks(X, Z)
<1>1. Keeps(X, Y) => Shrinks(X, Y)
  BY DEF Keeps, Shrinks
<1>2. Sound(X) => Shrinks(X, X)
  BY LowIsOrder DEF Shrinks
<1>3. Shrinks(X, Y) /\ Shrinks(Y, Z) => Shrinks(X, Z)
  BY LowIsOrder DEF Shrinks
<1> QED BY <1>1, <1>2, <1>3

LEMMA RemoveIs ==
    ASSUME NEW X, IsStack(X), NEW cid \in Cids(X)
    PROVE  LET Y == RemoveChannel(X, cid)
           IN  /\ IsStack(Y) /\ Low(X, Y) /\ OnlyL2cap(X, Y)
               /\ Y.l2cap.next_cid = X.l2cap.next_cid
               /\ Cids(Y) = Cids(X) \ {cid}
               /\ \A d \in Cids(Y) : Channel(Y, d) = Channel(X, d)
<1> DEFINE list == Chans(X)
           new  == RemoveAt(list, PlaceIn(list, cid))
           Y    == RemoveChannel(X, cid)
<1>1. Y = [X EXCEPT !.l2cap.channels = new]
  BY Lists DEF RemoveChannel, Chans, IsStack
<1>2. cid \in CidsOf(list) /\ IsChannelList(list)
  BY Lists DEF IsStack
<1>3. new = RemoveAt(list, PlaceIn(list, cid))
  OBVIOUS
<1> HIDE DEF new, Y, list
<1>4. /\ IsChannelList(new)
      /\ CidsOf(new) = CidsOf(list) \ {cid}
      /\ \A d \in CidsOf(new) : On(new, d) = On(list, d)
  BY <1>2, <1>3, RemoveInList
<1>5. /\ IsStack(Y) /\ Chans(Y) = new /\ Low(X, Y)
      /\ Y.l2cap.next_cid = X.l2cap.next_cid /\ OnlyL2cap(X, Y)
  BY <1>1, <1>4, ListInStack
<1>6. Cids(Y) = Cids(X) \ {cid} /\ \A d \in Cids(Y) : Channel(Y, d) = Channel(X, d)
  BY <1>4, <1>5, Lists DEF list
<1> QED BY <1>5, <1>6 DEF Y

LEMMA Removed ==
    ASSUME NEW X, Sound(X), NEW cid \in Cids(X), NoClient(X, cid)
    PROVE  Shrinks(X, RemoveChannel(X, cid)) /\ Cids(RemoveChannel(X, cid)) = Cids(X) \ {cid}
<1> DEFINE Y == RemoveChannel(X, cid)
<1>1. /\ IsStack(Y) /\ Low(X, Y) /\ OnlyL2cap(X, Y)
      /\ Y.l2cap.next_cid = X.l2cap.next_cid
      /\ Cids(Y) = Cids(X) \ {cid}
      /\ \A d \in Cids(Y) : Channel(Y, d) = Channel(X, d)
  BY RemoveIs DEF Sound, Bare
<1> HIDE DEF Y
<1>2. ListOk(Y) /\ ConnOk(Y) /\ AppOk(Y)
  BY <1>1 DEF Sound, Bare, ListOk, ConnOk, AppOk, OnlyL2cap, connection_for_handle, HasMux, HasChannel
<1>3. SdpOk(Y)
  BY <1>1 DEF Sound, Bare, SdpOk, NoClient, OnlyL2cap
<1>4. MuxOk(Y)
  BY <1>1 DEF Sound, MuxOk, NoClient, OnlyL2cap, HasMux
<1>5. Shrinks(X, Y)
  BY <1>1, <1>2, <1>3, <1>4 DEF Shrinks, Sound, Bare
<1> QED BY <1>1, <1>5 DEF Y

LEMMA CloseFinalized ==
    ASSUME NEW X, Sound(X), NEW cid \in Cids(X)
    PROVE  Shrinks(X, l2cap_finalize_channel_close(X, cid))
<1> DEFINE c == Channel(X, cid)
           Y == SetChannelState(X, cid, "CLOSED")
           Z == EmitClosed(Y, c)
<1>1. l2cap_finalize_channel_close(X, cid) = RemoveChannel(Z, cid)
  BY DEF l2cap_finalize_channel_close
<1>2. c.cid = cid
  BY ChannelIs DEF Sound, Bare
<1>3. Keeps(X, Y) /\ Cids(Y) = Cids(X) /\ Channel(Y, cid).psm = c.psm
  BY StateGoesOn DEF Sound, DECLINED
<1> HIDE DEF c, Y
<1>4. Keeps(Y, Z) /\ NoClient(Z, cid)
  BY <1>2, <1>3, ClosedEmitted DEF Keeps
<1> HIDE DEF Z
<1>5. Shrinks(Z, RemoveChannel(Z, cid))
  BY <1>3, <1>4, Removed DEF Keeps
<1> QED BY <1>1, <1>3, <1>4, <1>5, ShrinksIsOrder

LEMMA SigIdNext ==
    ASSUME NEW X, IsStack(X)
    PROVE  /\ Alike(X, l2cap_next_sig_id(X))
           /\ Chans(l2cap_next_sig_id(X)) = Chans(X)
<1> DEFINE Y == l2cap_next_sig_id(X)
<1>1. OnlyL2cap(X, Y) /\ Y.l2cap.next_cid = X.l2cap.next_cid /\ Chans(Y) = Chans(X)
  BY DEF l2cap_next_sig_id, IsStack, OnlyL2cap, Chans
<1>2. IsStack(Y)
  BY DEF l2cap_next_sig_id, IsStack, HasConn, HasMux, HasChannel, Chans
<1> HIDE DEF Y
<1>3. Low(X, Y) /\ SameList(X, Y) /\ SameMux(X, Y) /\ SameApp(X, Y)
  BY <1>1 DEF OnlyL2cap, Low, Counted, SameHci, SameConn, HasConn, connection_for_handle, SameList,
              SameMux, SameApp, HasMux, HasChannel
<1>4. Alike(X, Y)
  BY <1>2, <1>3 DEF Alike
<1> QED BY <1>1, <1>4 DEF Y

\* Answers that wait.
LEMMA Answers ==
    ASSUME NEW X, IsStack(X), NEW r
    PROVE  Alike(X, [X EXCEPT !.l2cap.responses = r])
<1> DEFINE Y == [X EXCEPT !.l2cap.responses = r]
<1>1. OnlyL2cap(X, Y) /\ Y.l2cap.next_cid = X.l2cap.next_cid /\ Chans(Y) = Chans(X)
  BY DEF IsStack, OnlyL2cap, Chans
<1>2. IsStack(Y)
  BY DEF IsStack, HasConn, HasMux, HasChannel, Chans
<1> HIDE DEF Y
<1>3. Low(X, Y) /\ SameList(X, Y) /\ SameMux(X, Y) /\ SameApp(X, Y)
  BY <1>1 DEF OnlyL2cap, Low, Counted, SameHci, SameConn, HasConn, connection_for_handle, SameList,
              SameMux, SameApp, HasMux, HasChannel
<1>4. Alike(X, Y)
  BY <1>2, <1>3 DEF Alike
<1> QED BY <1>4 DEF Y

LEMMA ResponsesSent ==
    ASSUME NEW X, IsStack(X)
    PROVE  Alike(X, SendResponses(X))
<1>1. \/ SendResponses(X) = X
      \/ \E command, r : SendResponses(X)
            = [l2cap_send_signaling_packet(X, command) EXCEPT !.l2cap.responses = r]
  BY Zenon DEF SendResponses
<1>2. ASSUME NEW command, NEW r
      PROVE  Alike(X, [l2cap_send_signaling_packet(X, command) EXCEPT !.l2cap.responses = r])
  BY SendSignal, Answers, AlikeIsOrder DEF Alike
<1> QED BY <1>1, <1>2, AlikeIsOrder

LEMMA Registered ==
    ASSUME NEW X, IsStack(X), NEW code, NEW id, NEW data
    PROVE  Alike(X, l2cap_register_signaling_response(X, code, id, data))
BY Answers, AlikeIsOrder DEF l2cap_register_signaling_response

LEMMA Configured ==
    ASSUME NEW X, IsStack(X), NEW cid \in Cids(X)
    PROVE  Alike(X, Configure(X, Channel(X, cid)))
<1> DEFINE c == Channel(X, cid)
<1>1. IsChannel(c) /\ c.cid = cid
  BY ChannelIs
<1> HIDE DEF c
<1>2. CASE "SEND_CONF_RSP" \in c.vars
  <2> DEFINE d == [c EXCEPT !.vars = (@ \ {"SEND_CONF_RSP"}) \union {"SENT_CONF_RSP"}]
             Y == SetChannel(X, d)
  <2>1. PICK command : Configure(X, c) = l2cap_send_signaling_packet(Y, command)
    BY <1>2 DEF Configure
  <2>2. IsChannel(d) /\ d.cid = cid /\ d.psm = c.psm /\ d.state = c.state
    BY <1>1 DEF IsChannel
  <2> HIDE DEF d
  <2>3. Alike(X, Y)
    BY <2>2, DetailsOfChannel DEF c
  <2> HIDE DEF Y
  <2>4. Alike(Y, l2cap_send_signaling_packet(Y, command))
    BY <2>3, SendSignal DEF Alike
  <2> QED BY <2>1, <2>3, <2>4, AlikeIsOrder DEF c
<1>3. CASE "SEND_CONF_REQ" \in c.vars /\ "SEND_CONF_RSP" \notin c.vars
  <2> DEFINE T == l2cap_next_sig_id(X)
             sig == T.l2cap.next_sig
             d == [c EXCEPT !.vars = (@ \ {"SEND_CONF_REQ"}) \union {"SENT_CONF_REQ"},
                            !.local_sig = sig]
             Y == SetChannel(T, d)
  <2>1. PICK command : Configure(X, c) = l2cap_send_signaling_packet(Y, command)
    BY <1>3 DEF Configure
  <2>2. Alike(X, T) /\ Chans(T) = Chans(X)
    BY SigIdNext
  <2> HIDE DEF T, sig
  <2>3. IsChannel(d) /\ d.cid = cid /\ d.psm = c.psm /\ d.state = c.state
    BY <1>1 DEF IsChannel
  <2>4. cid \in Cids(T) /\ Channel(T, cid) = c
    BY <2>2, Lists DEF c
  <2> HIDE DEF d
  <2>5. Alike(T, Y)
    BY <2>2, <2>3, <2>4, DetailsOfChannel DEF Alike
  <2> HIDE DEF Y
  <2>6. Alike(Y, l2cap_send_signaling_packet(Y, command))
    BY <2>5, SendSignal DEF Alike
  <2> QED BY <2>1, <2>2, <2>5, <2>6, AlikeIsOrder DEF c
<1>4. CASE "SEND_CONF_REQ" \notin c.vars /\ "SEND_CONF_RSP" \notin c.vars
  <2>1. Configure(X, c) = X
    BY <1>4 DEF Configure
  <2> QED BY <2>1, AlikeIsOrder DEF c
<1> QED BY <1>2, <1>3, <1>4

LEMMA ChannelRuns ==
    ASSUME NEW X, Sound(X), NEW cid \in Cids(X)
    PROVE  Shrinks(X, RunChannel(X, cid))
<1> DEFINE c == Channel(X, cid)
<1>1. IsChannel(c) /\ c.cid = cid /\ IsStack(X)
  BY ChannelIs DEF Sound, Bare
<1>2. \A command : Keeps(X, l2cap_send_signaling_packet(X, command))
  BY <1>1, SendSignal, KeepsIsOrder
<1>3. CASE c.state = DECLINED
  <2>1. PICK command : RunChannel(X, cid) = RemoveChannel(l2cap_send_signaling_packet(X, command), cid)
    BY <1>3 DEF RunChannel, DECLINED
  <2> DEFINE Y == l2cap_send_signaling_packet(X, command)
  <2>2. Alike(X, Y) /\ Keeps(X, Y)
    BY <1>1, <1>2, SendSignal
  <2>3. NoClient(X, cid)
    <3>1. X.sdp.cid # cid
      <4>1. cid # 0
        BY DEF Sound, Bare, ListOk
      <4> QED BY <1>3, <4>1 DEF Sound, Bare, SdpOk
    <3>2. HasMux(X) => X.rfcomm.mux.l2cap_cid # cid
      BY <1>3 DEF Sound, MuxOk
    <3> QED BY <3>1, <3>2 DEF NoClient
  <2>4. NoClient(Y, cid)
    BY <2>2, <2>3 DEF NoClient, Alike, SameMux
  <2> HIDE DEF Y
  <2>5. Shrinks(Y, RemoveChannel(Y, cid))
    BY <2>2, <2>4, Removed DEF Keeps
  <2> QED BY <2>1, <2>2, <2>5, ShrinksIsOrder DEF Y
<1>4. CASE c.state = "WILL_SEND_CONNECTION_RESPONSE_ACCEPT"
  <2> DEFINE d == [c EXCEPT !.state = "CONFIG", !.vars = @ \union {"SEND_CONF_REQ"}]
             Y == SetChannel(X, d)
  <2>1. PICK command : RunChannel(X, cid) = l2cap_send_signaling_packet(Y, command)
    BY <1>4 DEF RunChannel
  <2>2. IsChannel(d) /\ d.cid = cid /\ d.psm = c.psm /\ d.state # DECLINED
    BY <1>1 DEF IsChannel, DECLINED
  <2> HIDE DEF d
  <2>3. Keeps(X, Y)
    BY <2>2, ChannelGoesOn DEF Sound
  <2> HIDE DEF Y
  <2>4. Keeps(Y, l2cap_send_signaling_packet(Y, command))
    BY <2>3, SendSignal, KeepsIsOrder DEF Keeps, Sound, Bare
  <2> QED BY <2>1, <2>3, <2>4, KeepsIsOrder, ShrinksIsOrder
<1>5. CASE c.state = "CONFIG"
  <2> DEFINE Y == Configure(X, c)
  <2>1. RunChannel(X, cid) = OpenChannel(Y, cid)
    BY <1>5 DEF RunChannel
  <2>2. Keeps(X, Y)
    BY <1>1, Configured, KeepsIsOrder
  <2> HIDE DEF Y
  <2>3. Keeps(Y, OpenChannel(Y, cid))
    BY <2>2, Opened DEF Keeps
  <2> QED BY <2>1, <2>2, <2>3, KeepsIsOrder, ShrinksIsOrder
<1>6. CASE c.state = "WILL_SEND_DISCONNECT_RESPONSE"
  <2>1. PICK command : RunChannel(X, cid)
                         = l2cap_finalize_channel_close(l2cap_send_signaling_packet(X, command), cid)
    BY <1>6 DEF RunChannel
  <2> DEFINE Y == l2cap_send_signaling_packet(X, command)
  <2>2. Keeps(X, Y)
    BY <1>2
  <2> HIDE DEF Y
  <2>3. Shrinks(Y, l2cap_finalize_channel_close(Y, cid))
    BY <2>2, CloseFinalized DEF Keeps
  <2> QED BY <2>1, <2>2, <2>3, ShrinksIsOrder DEF Y
<1>7. CASE c.state = "WILL_SEND_DISCONNECT_REQUEST"
  <2> DEFINE T == l2cap_next_sig_id(X)
             sig == T.l2cap.next_sig
             d == [c EXCEPT !.state = "WAIT_DISCONNECT", !.local_sig = sig]
             Y == SetChannel(T, d)
  <2>1. PICK command : RunChannel(X, cid) = l2cap_send_signaling_packet(Y, command)
    BY <1>7 DEF RunChannel
  <2>2. Keeps(X, T) /\ Chans(T) = Chans(X)
    BY <1>1, SigIdNext, KeepsIsOrder
  <2> HIDE DEF T, sig
  <2>3. IsChannel(d) /\ d.cid = cid /\ d.psm = c.psm /\ d.state # DECLINED
    BY <1>1 DEF IsChannel, DECLINED
  <2>4. cid \in Cids(T) /\ Channel(T, cid) = c
    BY <2>2, Lists
  <2> HIDE DEF d, c
  <2>5. Keeps(T, Y)
    BY <2>2, <2>3, <2>4, ChannelGoesOn DEF Keeps, Sound
  <2> HIDE DEF Y
  <2>6. Keeps(Y, l2cap_send_signaling_packet(Y, command))
    BY <2>5, SendSignal, KeepsIsOrder DEF Keeps, Sound, Bare
  <2> QED BY <2>1, <2>2, <2>5, <2>6, KeepsIsOrder, ShrinksIsOrder
<1>8. CASE c.state \notin {DECLINED, "WILL_SEND_CONNECTION_RESPONSE_ACCEPT", "CONFIG",
                           "WILL_SEND_DISCONNECT_RESPONSE", "WILL_SEND_DISCONNECT_REQUEST"}
  <2>1. RunChannel(X, cid) = X
    BY <1>8 DEF RunChannel, DECLINED
  <2> QED BY <2>1, ShrinksIsOrder
<1> QED BY <1>3, <1>4, <1>5, <1>6, <1>7, <1>8

----------------------------------------------------------------------------
(* The loops over the channels.                                            *)

\* What the naturals have in common with all sets that 0 is in and n + 1 with
\* every n: for there is no least number that is not.
LEMMA NatIsInductive ==
    ASSUME NEW T, 0 \in T, \A n \in Nat : n \in T => n + 1 \in T
    PROVE  Nat \subseteq T
<1>1. SUFFICES ASSUME Nat \ T # {} PROVE FALSE
  OBVIOUS
<1>2. PICK x \in Nat \ T : \A y \in Nat \ T : ~ (<<y, x>> \in OpToRel(<, Nat))
  BY <1>1, NatLessThanWellFounded, WFMin
<1>3. x # 0 /\ x \in Nat
  OBVIOUS
<1>4. x - 1 \in Nat /\ (x - 1) + 1 = x /\ x - 1 < x
  BY <1>3
<1>5. x - 1 \in Nat \ T
  BY <1>4
<1>6. <<x - 1, x>> \in OpToRel(<, Nat)
  BY <1>4, <1>3 DEF OpToRel
<1> QED BY <1>2, <1>5, <1>6

LoopStep(loop, X, cid) ==
    CASE loop = "run"     -> RunIfFree(X, cid)
      [] loop = "credits" -> GiveCredit(X, cid)
      [] loop = "close"   -> CloseWithConnection(X, cid)
      [] loop = "sent"    -> TellSent(X, cid)

\* g has the states in the first n rounds of a loop.
IsLoop(g, loop, X, cids, n) ==
    g = [i \in 0 .. n |-> IF i = 0 THEN X ELSE LoopStep(loop, g[i - 1], cids[i])]

LEMMA LoopExists ==
    ASSUME NEW loop, NEW X, NEW cids
    PROVE  \A n \in Nat : \E g : IsLoop(g, loop, X, cids, n)
<1> DEFINE T == {n \in Nat : \E g : IsLoop(g, loop, X, cids, n)}
<1>1. 0 \in T
  <2> DEFINE g == [i \in 0 .. 0 |-> X]
  <2>1. IsLoop(g, loop, X, cids, 0)
    BY DEF IsLoop
  <2> QED BY <2>1
<1>2. ASSUME NEW n \in Nat, n \in T PROVE n + 1 \in T
  <2>1. PICK g : IsLoop(g, loop, X, cids, n)
    BY <1>2
  <2> DEFINE s(Y, i) == LoopStep(loop, Y, cids[i])
             h == [i \in 0 .. n + 1 |-> IF i <= n THEN g[i] ELSE s(g[n], i)]
             H == [i \in 0 .. n + 1 |-> IF i = 0 THEN X ELSE s(h[i - 1], i)]
  <2> HIDE DEF s
  <2>2. ASSUME NEW i \in 0 .. n + 1 PROVE h[i] = H[i]
    <3>1. CASE i = 0
      <4>1. g[0] = X
        BY <2>1 DEF IsLoop
      <4> QED BY <3>1, <4>1
    <3>2. CASE i # 0 /\ i <= n
      <4>1. i - 1 \in 0 .. n + 1 /\ i - 1 <= n /\ i \in 0 .. n
        BY <3>2
      <4>2. h[i - 1] = g[i - 1] /\ h[i] = g[i]
        BY <4>1, <3>2
      <4>3. g[i] = s(g[i - 1], i)
        BY <2>1, <3>2, <4>1 DEF IsLoop, s
      <4> QED BY <3>2, <4>2, <4>3
    <3>3. CASE ~(i <= n)
      <4>1. i = n + 1 /\ i - 1 = n /\ n \in 0 .. n + 1 /\ i # 0
        BY <3>3
      <4>2. h[n] = g[n]
        BY <4>1
      <4>3. h[i] = s(g[n], i)
        BY <3>3
      <4>4. H[i] = s(h[n], i)
        BY <3>3, <4>1
      <4> QED BY <4>2, <4>3, <4>4
    <3> QED BY <3>1, <3>2, <3>3
  <2>3. h = H
    <3> HIDE DEF h
    <3>1. h = [i \in 0 .. n + 1 |-> h[i]]
      BY DEF h
    <3> QED BY <2>2, <3>1
  <2> HIDE DEF h
  <2>4. IsLoop(h, loop, X, cids, n + 1)
    BY <2>3 DEF IsLoop, s
  <2> QED BY <2>4
<1> HIDE DEF T
<1>3. Nat \subseteq T
  BY <1>1, <1>2, NatIsInductive
<1> QED BY <1>3 DEF T

LEMMA CidListIs ==
    ASSUME NEW X, IsStack(X)
    PROVE  /\ Len(CidList(X)) \in Nat
           /\ \A i \in 1 .. Len(CidList(X)) : CidList(X)[i] \in Cids(X)
           /\ \A cid \in Cids(X) : \E i \in 1 .. Len(CidList(X)) : CidList(X)[i] = cid
<1> DEFINE list == Chans(X)
           n == Len(list)
<1>1. n \in Nat /\ DOMAIN list = 1 .. n
  BY ListBasics DEF IsStack, IsChannelList
<1>2. CidList(X) = [i \in DOMAIN list |-> list[i].cid] /\ Cids(X) = {list[i].cid : i \in DOMAIN list}
  BY DEF CidList, Cids, Chans
<1> HIDE DEF list, n
<1>3. CidList(X) = [i \in 1 .. n |-> list[i].cid]
  BY <1>1, <1>2
<1>4. Len(CidList(X)) = n
  BY <1>1, <1>3
<1> QED BY <1>1, <1>2, <1>3, <1>4

\* The value of each loop.
LEMMA LoopValues ==
    ASSUME NEW X, NEW R, Len(CidList(R)) \in Nat
    PROVE  /\ R = SendResponses(X) =>
                \E g : /\ IsLoop(g, "run", R, CidList(R), Len(CidList(R)))
                       /\ l2cap_run(X) = g[Len(CidList(R))]
           /\ \E g : /\ IsLoop(g, "credits", R, CidList(R), Len(CidList(R)))
                     /\ l2cap_hand_out_credits(R) = g[Len(CidList(R))]
           /\ \E g : /\ IsLoop(g, "close", R, CidList(R), Len(CidList(R)))
                     /\ CloseAll(R) = g[Len(CidList(R))]
           /\ \E g : /\ IsLoop(g, "sent", R, CidList(R), Len(CidList(R)))
                     /\ TellAllSent(R) = g[Len(CidList(R))]
<1> DEFINE cids == CidList(R)
           n == Len(cids)
<1>0. n \in Nat
  OBVIOUS
<1>1. ASSUME R = SendResponses(X)
      PROVE  \E g : IsLoop(g, "run", R, cids, n) /\ l2cap_run(X) = g[n]
  <2> DEFINE P(g) == g = [i \in 0 .. n |-> IF i = 0 THEN R ELSE RunIfFree(g[i - 1], cids[i])]
  <2>1. \A g : IsLoop(g, "run", R, cids, n) <=> P(g)
    BY DEF IsLoop, LoopStep
  <2>2. \E g : P(g)
    BY <1>0, <2>1, LoopExists
  <2>3. P(CHOOSE g : P(g)) /\ l2cap_run(X) = (CHOOSE g : P(g))[n]
    BY ONLY <1>1, <2>2, Zenon DEF l2cap_run
  <2> HIDE DEF P
  <2> QED BY <2>1, <2>3
<1>2. \E g : IsLoop(g, "credits", R, cids, n) /\ l2cap_hand_out_credits(R) = g[n]
  <2> DEFINE P(g) == g = [i \in 0 .. n |-> IF i = 0 THEN R ELSE GiveCredit(g[i - 1], cids[i])]
  <2>1. \A g : IsLoop(g, "credits", R, cids, n) <=> P(g)
    BY DEF IsLoop, LoopStep
  <2>2. \E g : P(g)
    BY <1>0, <2>1, LoopExists
  <2>3. P(CHOOSE g : P(g)) /\ l2cap_hand_out_credits(R) = (CHOOSE g : P(g))[n]
    BY ONLY <2>2, Zenon DEF l2cap_hand_out_credits
  <2> HIDE DEF P
  <2> QED BY <2>1, <2>3
<1>3. \E g : IsLoop(g, "close", R, cids, n) /\ CloseAll(R) = g[n]
  <2> DEFINE P(g) == g = [i \in 0 .. n |-> IF i = 0 THEN R ELSE CloseWithConnection(g[i - 1], cids[i])]
  <2>1. \A g : IsLoop(g, "close", R, cids, n) <=> P(g)
    BY DEF IsLoop, LoopStep
  <2>2. \E g : P(g)
    BY <1>0, <2>1, LoopExists
  <2>3. P(CHOOSE g : P(g)) /\ CloseAll(R) = (CHOOSE g : P(g))[n]
    BY ONLY <2>2, Zenon DEF CloseAll
  <2> HIDE DEF P
  <2> QED BY <2>1, <2>3
<1>4. \E g : IsLoop(g, "sent", R, cids, n) /\ TellAllSent(R) = g[n]
  <2> DEFINE P(g) == g = [i \in 0 .. n |-> IF i = 0 THEN R ELSE TellSent(g[i - 1], cids[i])]
  <2>1. \A g : IsLoop(g, "sent", R, cids, n) <=> P(g)
    BY DEF IsLoop, LoopStep
  <2>2. \E g : P(g)
    BY <1>0, <2>1, LoopExists
  <2>3. P(CHOOSE g : P(g)) /\ TellAllSent(R) = (CHOOSE g : P(g))[n]
    BY ONLY <2>2, Zenon DEF TellAllSent
  <2> HIDE DEF P
  <2> QED BY <2>1, <2>3
<1> QED BY <1>1, <1>2, <1>3, <1>4

LEMMA LoopAt ==
    ASSUME NEW g, NEW loop, NEW X, NEW cids, NEW n \in Nat, IsLoop(g, loop, X, cids, n)
    PROVE  /\ g[0] = X
           /\ \A k \in Nat : k + 1 \in 1 .. n => g[k + 1] = LoopStep(loop, g[k], cids[k + 1])
<1> DEFINE s(Y, i) == LoopStep(loop, Y, cids[i])
<1>1. g = [i \in 0 .. n |-> IF i = 0 THEN X ELSE s(g[i - 1], i)]
  BY DEF IsLoop
<1> HIDE DEF s
<1>2. g[0] = X
  BY <1>1
<1>3. ASSUME NEW k \in Nat, k + 1 \in 1 .. n
      PROVE  g[k + 1] = s(g[k], k + 1)
  <2>1. k + 1 # 0 /\ k + 1 \in 0 .. n /\ (k + 1) - 1 = k
    BY <1>3
  <2> DEFINE i == k + 1
  <2>2. i # 0 /\ i \in 0 .. n /\ i - 1 = k
    BY <2>1
  <2> HIDE DEF i
  <2>3. g[i] = s(g[i - 1], i)
    BY <1>1, <2>2
  <2> QED BY <2>2, <2>3 DEF i
<1> QED BY <1>2, <1>3 DEF s

\* A loop of which each round shrinks the stack does so.
LEMMA Chain ==
    ASSUME NEW g, NEW n \in Nat, Sound(g[0]),
           \A k \in Nat : k + 1 \in 1 .. n /\ Sound(g[k]) => Shrinks(g[k], g[k + 1])
    PROVE  /\ \A k \in 0 .. n : Shrinks(g[0], g[k])
           /\ Shrinks(g[0], g[n])
<1> DEFINE T == {k \in Nat : k \in 0 .. n => Shrinks(g[0], g[k])}
<1>1. 0 \in T
  BY ShrinksIsOrder
<1>2. ASSUME NEW k \in Nat, k \in T PROVE k + 1 \in T
  <2> SUFFICES ASSUME k + 1 \in 0 .. n PROVE Shrinks(g[0], g[k + 1])
    OBVIOUS
  <2>1. k \in 0 .. n /\ k + 1 \in 1 .. n
    OBVIOUS
  <2>2. Shrinks(g[0], g[k])
    BY <1>2, <2>1
  <2>3. Shrinks(g[k], g[k + 1])
    BY <2>1, <2>2 DEF Shrinks
  <2> QED BY <2>2, <2>3, ShrinksIsOrder
<1> HIDE DEF T
<1>3. Nat \subseteq T
  BY <1>1, <1>2, NatIsInductive
<1> QED BY <1>3 DEF T

LEMMA RunShrinks ==
    ASSUME NEW X, Sound(X)
    PROVE  Shrinks(X, l2cap_run(X))
<1> DEFINE R == SendResponses(X)
           cids == CidList(R)
           n == Len(cids)
<1>1. Keeps(X, R)
  BY ResponsesSent, KeepsIsOrder DEF Sound, Bare
<1>2. n \in Nat
  BY <1>1, CidListIs DEF Keeps, Sound, Bare
<1>3. R = SendResponses(X)
  OBVIOUS
<1> HIDE DEF R
<1>4. PICK g : IsLoop(g, "run", R, cids, n) /\ l2cap_run(X) = g[n]
  BY <1>2, <1>3, LoopValues
<1> HIDE DEF cids, n
<1>5. g[0] = R /\ \A k \in Nat : k + 1 \in 1 .. n => g[k + 1] = RunIfFree(g[k], cids[k + 1])
  BY <1>2, <1>4, LoopAt DEF LoopStep
<1>6. \A k \in Nat : k + 1 \in 1 .. n /\ Sound(g[k]) => Shrinks(g[k], g[k + 1])
  BY <1>5, ChannelRuns, ShrinksIsOrder DEF RunIfFree
<1>7. Shrinks(g[0], g[n])
  BY <1>1, <1>2, <1>5, <1>6, Chain DEF Keeps
<1> QED BY <1>1, <1>4, <1>5, <1>7, ShrinksIsOrder

LEMMA CreditsShrink ==
    ASSUME NEW X, Sound(X)
    PROVE  Shrinks(X, l2cap_hand_out_credits(X)) /\ Shrinks(X, TellAllSent(X))
<1> DEFINE cids == CidList(X)
           n == Len(cids)
<1>1. n \in Nat
  BY CidListIs DEF Sound, Bare
<1>2. Shrinks(X, l2cap_hand_out_credits(X))
  <2>1. PICK g : IsLoop(g, "credits", X, cids, n) /\ l2cap_hand_out_credits(X) = g[n]
    BY <1>1, LoopValues
  <2> HIDE DEF cids, n
  <2>2. g[0] = X /\ \A k \in Nat : k + 1 \in 1 .. n => g[k + 1] = GiveCredit(g[k], cids[k + 1])
    BY <1>1, <2>1, LoopAt DEF LoopStep
  <2>3. \A k \in Nat : k + 1 \in 1 .. n /\ Sound(g[k]) => Shrinks(g[k], g[k + 1])
    BY <2>2, CreditsEmitted, ShrinksIsOrder DEF GiveCredit
  <2>4. Shrinks(g[0], g[n])
    BY <1>1, <2>2, <2>3, Chain
  <2> QED BY <2>1, <2>2, <2>4
<1>3. Shrinks(X, TellAllSent(X))
  <2>1. PICK g : IsLoop(g, "sent", X, cids, n) /\ TellAllSent(X) = g[n]
    BY <1>1, LoopValues
  <2> HIDE DEF cids, n
  <2>2. g[0] = X /\ \A k \in Nat : k + 1 \in 1 .. n => g[k + 1] = TellSent(g[k], cids[k + 1])
    BY <1>1, <2>1, LoopAt DEF LoopStep
  <2>3. \A k \in Nat : k + 1 \in 1 .. n /\ Sound(g[k]) => Shrinks(g[k], g[k + 1])
    BY <2>2, Emitted, ShrinksIsOrder DEF TellSent
  <2>4. Shrinks(g[0], g[n])
    BY <1>1, <2>2, <2>3, Chain
  <2> QED BY <2>1, <2>2, <2>4
<1> QED BY <1>2, <1>3

\* A channel ends with the connection: it is out of the list when its client
\* hears of it.
LEMMA ClosedOne ==
    ASSUME NEW X, Sound(X), NEW cid \in Cids(X)
    PROVE  /\ Shrinks(X, CloseWithConnection(X, cid))
           /\ cid \notin Cids(CloseWithConnection(X, cid))
<1> DEFINE c == Channel(X, cid)
           R == RemoveChannel(X, cid)
           E == EmitClosed(R, c)
<1>1. CloseWithConnection(X, cid) = IF HasMux(X) /\ ~HasMux(E) THEN l2cap_run(E) ELSE E
  BY DEF CloseWithConnection, RunIfMuxEnded
<1>2. IsChannel(c) /\ c.cid = cid /\ cid # 0 /\ IsStack(X)
  BY ChannelIs DEF Sound, Bare, ListOk
<1>3. /\ IsStack(R) /\ Low(X, R) /\ OnlyL2cap(X, R)
      /\ R.l2cap.next_cid = X.l2cap.next_cid
      /\ Cids(R) = Cids(X) \ {cid}
      /\ \A d \in Cids(R) : Channel(R, d) = Channel(X, d)
  BY <1>2, RemoveIs
<1>4. NoClient(X, cid) => Shrinks(X, R)
  BY Removed
<1> HIDE DEF R
<1>5. ListOk(R) /\ AppOk(R) /\ ConnOk(R) /\ (HasMux(R) <=> HasMux(X))
  BY <1>3 DEF Sound, Bare, ListOk, AppOk, ConnOk, OnlyL2cap, HasMux, HasChannel, connection_for_handle
<1>6. CASE IsSdp(c)
  <2> DEFINE F == [R EXCEPT !.sdp.cid = 0]
  <2>1. E = IF cid = R.sdp.cid THEN F ELSE R
    BY <1>2, <1>6 DEF EmitClosed, SdpClosed
  <2>2. c.psm # PSM_RFCOMM
    BY <1>6 DEF IsSdp, PSM_SDP, PSM_RFCOMM
  <2>3. HasMux(X) => X.rfcomm.mux.l2cap_cid # cid
    BY <2>2 DEF Sound, MuxOk
  <2>4. MuxOk(R)
    BY <1>3, <2>3 DEF Sound, MuxOk, OnlyL2cap, HasMux
  <2>5. Keeps(R, F) /\ F.rfcomm = R.rfcomm
    BY <1>3, <1>5, <2>4, SdpFree
  <2> HIDE DEF F, E, c
  <2>6. CASE cid = R.sdp.cid
    <3>1. E = F /\ Shrinks(X, F) /\ cid \notin Cids(F)
      BY <1>3, <2>1, <2>5, <2>6, LowIsOrder DEF Keeps, Shrinks
    <3>2. HasMux(X) <=> HasMux(F)
      BY <1>5, <2>5 DEF HasMux
    <3> QED BY <1>1, <3>1, <3>2
  <2>7. CASE cid # R.sdp.cid
    <3>1. NoClient(X, cid)
      BY <1>3, <2>3, <2>7 DEF NoClient, OnlyL2cap
    <3> QED BY <1>1, <1>3, <1>4, <1>5, <2>1, <2>7, <3>1
  <2> QED BY <2>6, <2>7
<1>7. CASE ~IsSdp(c)
  <2> DEFINE ends == /\ rfcomm_multiplexer_for_l2cap_cid(R, cid)
                     /\ R.rfcomm.mux.state \in {"W4_SABM_0", "OPEN"}
             M == rfcomm_multiplexer_finalize(R)
  <2>1. X.sdp.cid # cid
    BY <1>2, <1>7 DEF Sound, Bare, SdpOk, IsSdp
  <2>2. E = IF ends THEN rfcomm_run(M) ELSE R
    BY <1>2, <1>7 DEF EmitClosed, RfcommClosed
  <2>3. CASE ends
    <3>1. SdpOk(R)
      BY <1>3, <2>1 DEF Sound, Bare, SdpOk, OnlyL2cap
    <3>2. /\ Sound(M) /\ Low(R, M) /\ ~HasMux(M)
          /\ M.l2cap.next_cid = R.l2cap.next_cid /\ Cids(M) = Cids(R)
      BY <1>3, <1>5, <2>3, <3>1, MuxEnds DEF Bare, rfcomm_multiplexer_for_l2cap_cid
    <3>3. HasMux(X)
      BY <1>5, <2>3 DEF rfcomm_multiplexer_for_l2cap_cid
    <3> HIDE DEF M
    <3>4. rfcomm_run(M) = M
      BY <3>2, RfcommRuns
    <3>5. E = M
      BY <2>2, <2>3, <3>4
    <3> HIDE DEF E
    <3>6. Shrinks(X, M) /\ cid \notin Cids(M)
      BY <1>3, <3>2, LowIsOrder DEF Shrinks
    <3>7. Shrinks(M, l2cap_run(M))
      BY <3>2, RunShrinks
    <3>8. Shrinks(X, l2cap_run(M)) /\ cid \notin Cids(l2cap_run(M))
      BY <3>6, <3>7, ShrinksIsOrder DEF Shrinks
    <3> QED BY <1>1, <3>2, <3>3, <3>5, <3>8
  <2>4. CASE ~ends
    <3>1. E = R
      BY <2>2, <2>4
    <3>2. NoClient(X, cid)
      BY <1>3, <1>5, <2>1, <2>4 DEF NoClient, rfcomm_multiplexer_for_l2cap_cid, Sound, MuxOk, MuxStates, OnlyL2cap
    <3> HIDE DEF E
    <3> QED BY <1>1, <1>3, <1>4, <1>5, <3>1, <3>2
  <2> QED BY <2>3, <2>4
<1> QED BY <1>6, <1>7

LEMMA ClosedAll ==
    ASSUME NEW X, Sound(X)
    PROVE  Shrinks(X, CloseAll(X)) /\ Cids(CloseAll(X)) = {}
<1> DEFINE cids == CidList(X)
           n == Len(cids)
<1>1. /\ n \in Nat
      /\ \A cid \in Cids(X) : \E i \in 1 .. n : cids[i] = cid
  BY CidListIs DEF Sound, Bare
<1>2. PICK g : IsLoop(g, "close", X, cids, n) /\ CloseAll(X) = g[n]
  BY <1>1, LoopValues
<1> HIDE DEF cids, n
<1>3. g[0] = X /\ \A k \in Nat : k + 1 \in 1 .. n => g[k + 1] = CloseWithConnection(g[k], cids[k + 1])
  BY <1>1, <1>2, LoopAt DEF LoopStep
<1>4. \A k \in Nat : k + 1 \in 1 .. n /\ Sound(g[k]) =>
            Shrinks(g[k], g[k + 1]) /\ cids[k + 1] \notin Cids(g[k + 1])
  <2> TAKE k \in Nat
  <2> HAVE k + 1 \in 1 .. n /\ Sound(g[k])
  <2> DEFINE Y == g[k]
             cid == cids[k + 1]
  <2>1. g[k + 1] = CloseWithConnection(Y, cid) /\ Sound(Y)
    BY <1>3
  <2> HIDE DEF Y, cid
  <2>2. CASE cid \in Cids(Y)
    BY <2>1, <2>2, ClosedOne DEF Y, cid
  <2>3. CASE cid \notin Cids(Y)
    <3>1. CloseWithConnection(Y, cid) = Y
      BY <2>3 DEF CloseWithConnection
    <3> QED BY <2>1, <2>3, <3>1, ShrinksIsOrder DEF Y, cid
  <2> QED BY <2>2, <2>3
<1>5. /\ \A k \in 0 .. n : Shrinks(X, g[k])
      /\ Shrinks(X, g[n])
  <2>1. \A k \in Nat : k + 1 \in 1 .. n /\ Sound(g[k]) => Shrinks(g[k], g[k + 1])
    BY <1>4
  <2>2. Sound(g[0])
    BY <1>3
  <2>3. /\ \A k \in 0 .. n : Shrinks(g[0], g[k])
        /\ Shrinks(g[0], g[n])
    BY <1>1, <2>1, <2>2, Chain
  <2> QED BY <1>3, <2>3
<1> DEFINE Over(k) == \A i \in 1 .. k : cids[i] \notin Cids(g[k])
           T == {k \in Nat : k <= n => Over(k)}
<1>6. 0 \in T
  OBVIOUS
<1>7. ASSUME NEW k \in Nat, k \in T PROVE k + 1 \in T
  <2> SUFFICES ASSUME k + 1 <= n PROVE Over(k + 1)
    BY DEF T
  <2>1. k \in 0 .. n /\ k + 1 \in 1 .. n
    BY <1>1
  <2>2. Sound(g[k])
    BY <1>5, <2>1 DEF Shrinks
  <2>3. Cids(g[k + 1]) \subseteq Cids(g[k]) /\ cids[k + 1] \notin Cids(g[k + 1])
    BY <1>4, <2>1, <2>2 DEF Shrinks
  <2>4. \A i \in 1 .. k : cids[i] \notin Cids(g[k])
    BY <1>1, <1>7, <2>1
  <2>5. \A i \in 1 .. k + 1 : i \in 1 .. k \/ i = k + 1
    OBVIOUS
  <2> QED BY <2>3, <2>4, <2>5
<1> HIDE DEF T
<1>8. Nat \subseteq T
  BY <1>6, <1>7, NatIsInductive
<1>9. Over(n)
  BY <1>1, <1>8 DEF T
<1>10. Cids(g[n]) = {}
  BY <1>1, <1>5, <1>9 DEF Shrinks
<1> QED BY <1>2, <1>5, <1>10

----------------------------------------------------------------------------
(* A new channel.  This is the one handler that makes the list longer, and *)
(* the one that takes a number from the generator.                         *)

Handled(X, Y) == Sound(Y) /\ Low(X, Y)

LEMMA HandledIsOrder ==
    ASSUME NEW X, NEW Y, NEW Z
    PROVE  /\ Sound(X) => Handled(X, X)
           /\ Shrinks(X, Y) => Handled(X, Y)
           /\ Keeps(X, Y) => Handled(X, Y)
           /\ Handled(X, Y) /\ Handled(Y, Z) => Handled(X, Z)
BY LowIsOrder DEF Handled, Shrinks, Keeps

WithNew(X, c) ==
    [X EXCEPT !.l2cap.next_cid = (@ + 1) % 65536, !.l2cap.channels = <<c>> \o @]

\* Nobody knows the channel yet.
Unknown(X, cid) == X.sdp.cid # cid /\ (HasMux(X) => X.rfcomm.mux.l2cap_cid # cid)

LEMMA NewIs ==
    ASSUME NEW X, Sound(X), connection_for_handle(X), X.l2cap.next_cid < 65535,
           NEW remote, NEW psm, NEW sig, NEW c, c = NewChannel(X.l2cap.next_cid, remote, psm, sig)
    PROVE  LET Y == WithNew(X, c)
           IN  /\ Handled(X, Y) /\ IsChannel(c)
               /\ c.cid \in Cids(Y) /\ Channel(Y, c.cid) = c
               /\ Unknown(Y, c.cid)
<1> DEFINE next == X.l2cap.next_cid
           list == Chans(X)
           new  == InFront(c, list)
           after == (next + 1) % 65536
           Y    == WithNew(X, c)
<1>1. /\ IsStack(X) /\ next \in Nat /\ 64 <= next
      /\ \A cid \in Cids(X) : cid \in Nat /\ 64 <= cid /\ cid < next
  BY DEF Sound, Bare, ListOk
<1>2. after = next + 1
  BY <1>1
<1>3. IsChannel(c) /\ c.cid = next /\ c.psm = psm
  BY DEF NewChannel, IsChannel
<1>5. IsChannelList(list) /\ c.cid \notin CidsOf(list)
  BY <1>1, <1>3, Lists DEF IsStack
<1>6. new = InFront(c, list)
  OBVIOUS
<1>18. Y = [X EXCEPT !.l2cap.next_cid = after, !.l2cap.channels = new]
  BY <1>1 DEF WithNew, IsStack, Chans, InFront
<1> HIDE DEF Y, new, list, after
<1>4. /\ Y.l2cap.next_cid = after /\ Chans(Y) = new
      /\ Y.usb = X.usb /\ Y.hci = X.hci /\ Y.rfcomm = X.rfcomm /\ Y.sdp = X.sdp /\ Y.app = X.app
      /\ DOMAIN Y = DOMAIN X /\ DOMAIN Y.l2cap = DOMAIN X.l2cap
  BY ONLY <1>1, <1>18 DEF IsStack, Chans
<1>7. /\ IsChannelList(new) /\ CidsOf(new) = CidsOf(list) \union {c.cid}
      /\ On(new, c.cid) = c
      /\ \A d \in CidsOf(list) : On(new, d) = On(list, d)
  BY ONLY <1>3, <1>5, <1>6, NewInList
<1>8. /\ Cids(Y) = Cids(X) \union {next} /\ Channel(Y, next) = c
      /\ \A d \in Cids(X) : Channel(Y, d) = Channel(X, d)
  BY <1>3, <1>4, <1>7, Lists DEF list
<1>9. IsStack(Y)
  BY <1>1, <1>4, <1>7 DEF IsStack, HasConn, HasMux, HasChannel
<1>10. Low(X, Y)
  BY ONLY <1>4 DEF Low, Counted, SameHci, SameConn, HasConn, connection_for_handle
<1>11. ListOk(Y)
  BY <1>1, <1>2, <1>4, <1>8 DEF ListOk
<1>12. AppOk(Y) /\ ConnOk(Y)
  BY <1>4 DEF Sound, Bare, AppOk, ConnOk, HasMux, HasChannel, connection_for_handle
<1>13. SdpOk(Y)
  BY <1>4, <1>8 DEF Sound, Bare, SdpOk
<1>14. next \notin Cids(X)
  BY <1>1
<1>15. HasMux(X) => X.rfcomm.mux.l2cap_cid # next
  BY <1>1 DEF Sound, MuxOk
<1>16. MuxOk(Y)
  BY <1>1, <1>2, <1>4, <1>8, <1>15 DEF Sound, MuxOk, HasMux
<1>17. X.sdp.cid # next
  BY <1>1, <1>14 DEF Sound, Bare, SdpOk
<1> QED BY <1>3, <1>4, <1>8, <1>9, <1>10, <1>11, <1>12, <1>13, <1>15, <1>16, <1>17
           DEF Handled, Sound, Bare, Unknown, HasMux, Y

LEMMA Declined ==
    ASSUME NEW X, Sound(X), NEW cid \in Cids(X), Unknown(X, cid), NEW reason
    PROVE  Keeps(X, l2cap_decline_connection(X, cid, reason))
<1> DEFINE c == [Channel(X, cid) EXCEPT !.state = "WILL_SEND_CONNECTION_RESPONSE_DECLINE",
                                        !.reason = reason]
           Y == SetChannel(X, c)
<1>1. IsChannel(c) /\ c.cid = cid
  BY ChannelIs DEF Sound, Bare, IsChannel
<1>2. l2cap_decline_connection(X, cid, reason) = Y
  BY DEF l2cap_decline_connection
<1> HIDE DEF c
<1>3. /\ IsStack(Y) /\ Low(X, Y)
      /\ Y.l2cap.next_cid = X.l2cap.next_cid
      /\ Cids(Y) = Cids(X)
      /\ \A d \in Cids(X) : d # cid => Channel(Y, d) = Channel(X, d)
      /\ OnlyL2cap(X, Y)
  BY <1>1, SetChannelIs DEF Sound, Bare
<1> HIDE DEF Y
<1>4. ListOk(Y) /\ ConnOk(Y) /\ AppOk(Y)
  BY <1>3 DEF Sound, Bare, ListOk, ConnOk, AppOk, OnlyL2cap, connection_for_handle, HasMux, HasChannel
<1>5. SdpOk(Y)
  BY <1>3 DEF Sound, Bare, SdpOk, Unknown, OnlyL2cap
<1>6. MuxOk(Y)
  BY <1>3 DEF Sound, MuxOk, Unknown, OnlyL2cap, HasMux
<1> QED BY <1>2, <1>3, <1>4, <1>5, <1>6 DEF Keeps, Sound, Bare

\* A channel is accepted when its client has taken it as its own.
LEMMA Accepted ==
    ASSUME NEW X, Sound(X), NEW cid \in Cids(X)
    PROVE  Keeps(X, l2cap_accept_connection(X, cid))
BY StateGoesOn DEF l2cap_accept_connection, Sound, DECLINED

LEMMA Incoming ==
    ASSUME NEW X, Sound(X), NEW c, c.cid \in Cids(X), Channel(X, c.cid) = c, Unknown(X, c.cid),
           c.psm \in Services, c.state # DECLINED
    PROVE  Handled(X, EmitIncoming(X, c))
<1> DEFINE cid == c.cid
<1>1. IsStack(X) /\ cid \in Nat /\ cid < X.l2cap.next_cid
  BY DEF Sound, Bare, ListOk
<1>2. \A reason : Keeps(X, l2cap_decline_connection(X, cid, reason))
  BY Declined
<1>3. CASE IsSdp(c)
  <2> DEFINE sdp == [X.sdp EXCEPT !.cid = cid, !.response = NONE]
             Y == SetSdp(X, sdp)
  <2>1. EmitIncoming(X, c) = SdpIncoming(X, cid)
    BY <1>3 DEF EmitIncoming
  <2>2. [X EXCEPT !.sdp.cid = cid, !.sdp.response = NONE] = Y
    BY <1>1 DEF SetSdp, IsStack
  <2>3. SdpIncoming(X, cid) = IF X.sdp.cid # 0 THEN l2cap_decline_connection(X, cid, 13)
                              ELSE l2cap_accept_connection(Y, cid)
    BY <2>2 DEF SdpIncoming
  <2>4. DOMAIN sdp = {"cid", "response"} /\ sdp.cid = cid
    BY <1>1 DEF IsStack
  <2> HIDE DEF sdp
  <2>5. /\ IsStack(Y) /\ Low(X, Y) /\ Y.hci = X.hci /\ Y.l2cap = X.l2cap
        /\ Y.rfcomm = X.rfcomm /\ Y.app = X.app /\ Y.sdp = sdp
    BY <1>1, <2>4, SdpChange
  <2> HIDE DEF Y
  <2>6. Cids(Y) = Cids(X) /\ \A d : Channel(Y, d) = Channel(X, d)
    BY <2>5 DEF Cids, Channel, PlaceOf
  <2>7. SdpOk(Y)
    BY <1>3, <2>4, <2>5, <2>6 DEF SdpOk, IsSdp
  <2>8. ListOk(Y) /\ MuxOk(Y) /\ AppOk(Y) /\ ConnOk(Y)
    BY <2>5, <2>6 DEF Sound, Bare, ListOk, MuxOk, AppOk, ConnOk, HasMux, HasChannel,
                      connection_for_handle
  <2>9. Handled(X, Y)
    BY <2>5, <2>7, <2>8 DEF Handled, Sound, Bare
  <2>10. Keeps(Y, l2cap_accept_connection(Y, cid))
    BY <2>6, <2>9, Accepted DEF Handled
  <2> QED BY <1>2, <2>1, <2>3, <2>9, <2>10, HandledIsOrder
<1>4. CASE ~IsSdp(c)
  <2> DEFINE mux == NewMultiplexer(cid)
             Y == [X EXCEPT !.rfcomm.mux = mux]
  <2>1. EmitIncoming(X, c) = RfcommIncoming(X, cid)
    BY <1>4 DEF EmitIncoming
  <2>2. RfcommIncoming(X, cid) = IF HasMux(X) THEN l2cap_decline_connection(X, cid, 4)
                                 ELSE l2cap_accept_connection(Y, cid)
    BY DEF RfcommIncoming
  <2>3. CASE HasMux(X)
    BY <1>2, <2>1, <2>2, <2>3, HandledIsOrder
  <2>4. CASE ~HasMux(X)
    <3>1. /\ Y.usb = X.usb /\ Y.hci = X.hci /\ Y.l2cap = X.l2cap /\ Y.sdp = X.sdp /\ Y.app = X.app
          /\ Y.rfcomm.channel = X.rfcomm.channel /\ Y.rfcomm.mux = mux
      BY <1>1 DEF IsStack
    <3>2. /\ DOMAIN mux = {"cmd", "state", "l2cap_cid", "credits", "dm"} /\ mux.cmd = "MUX"
          /\ mux.l2cap_cid = cid /\ mux.state = "W4_SABM_0"
      BY DEF NewMultiplexer
    <3> HIDE DEF mux
    <3>3. mux # NONE
      BY <3>2 DEF NONE
    <3>4. IsStack(Y) /\ HasMux(Y)
      BY <1>1, <3>1, <3>2, <3>3 DEF IsStack, HasConn, HasMux, HasChannel, Chans
    <3> HIDE DEF Y
    <3>5. Cids(Y) = Cids(X) /\ \A d : Channel(Y, d) = Channel(X, d)
      BY <3>1 DEF Cids, Channel, PlaceOf
    <3>6. MuxOk(Y)
      BY <1>1, <1>4, <3>1, <3>2, <3>5 DEF MuxOk, MuxStates, IsSdp, Services
    <3>7. ListOk(Y) /\ SdpOk(Y) /\ AppOk(Y) /\ ConnOk(Y)
      BY <2>4, <3>1, <3>5 DEF Sound, Bare, ListOk, SdpOk, AppOk, ConnOk, HasChannel, connection_for_handle
    <3>8. Low(X, Y)
      BY <3>1 DEF Low, Counted, SameHci, SameConn, HasConn, connection_for_handle
    <3>9. Handled(X, Y)
      BY <3>4, <3>6, <3>7, <3>8 DEF Handled, Sound, Bare
    <3>10. Keeps(Y, l2cap_accept_connection(Y, cid))
      BY <3>5, <3>9, Accepted DEF Handled
    <3> QED BY <2>1, <2>2, <2>4, <3>9, <3>10, HandledIsOrder
  <2> QED BY <2>3, <2>4
<1> QED BY <1>3, <1>4

LEMMA Least ==
    ASSUME NEW K, K \subseteq Nat, K # {}
    PROVE  \E i \in K : \A j \in K : i <= j
<1>1. PICK i \in K : \A j \in K : ~ (<<j, i>> \in OpToRel(<, Nat))
  BY NatLessThanWellFounded, WFMin
<1>2. ASSUME NEW j \in K PROVE i <= j
  <2>1. CASE j < i
    <3>1. <<j, i>> \in OpToRel(<, Nat)
      BY <2>1 DEF OpToRel
    <3> QED BY <1>1, <3>1
  <2> QED BY <2>1
<1> QED BY <1>2

----------------------------------------------------------------------------
(* The signaling channel.                                                  *)

LEMMA NewHandled ==
    ASSUME NEW X, Sound(X), X.l2cap.next_cid < 65535, NEW m
    PROVE  Handled(X, l2cap_handle_connection_request(X, m))
<1> DEFINE c == NewChannel(X.l2cap.next_cid, m.scid, m.psm, m.id)
           Y == WithNew(X, c)
<1>1. \A code, id, data : Handled(X, l2cap_register_signaling_response(X, code, id, data))
  BY Registered, KeepsIsOrder, HandledIsOrder DEF Sound, Bare
<1>2. \/ l2cap_handle_connection_request(X, m) = l2cap_register_signaling_response(X, m.code, m.id, 2)
      \/ l2cap_handle_connection_request(X, m) = l2cap_register_signaling_response(X, m.code, m.id, 4)
      \/ l2cap_handle_connection_request(X, m) = X
      \/ /\ connection_for_handle(X) /\ m.psm \in Services
         /\ l2cap_handle_connection_request(X, m) = EmitIncoming(Y, c)
  BY SMT DEF l2cap_handle_connection_request, WithNew
<1>3. c.psm = m.psm /\ c.state # DECLINED
  BY DEF NewChannel, DECLINED
<1>4. c = NewChannel(X.l2cap.next_cid, m.scid, m.psm, m.id)
  OBVIOUS
<1> HIDE DEF c
<1>5. CASE connection_for_handle(X) /\ m.psm \in Services
  <2>1. /\ Handled(X, Y)
        /\ c.cid \in Cids(Y) /\ Channel(Y, c.cid) = c
        /\ Unknown(Y, c.cid)
    BY <1>4, <1>5, NewIs
  <2> HIDE DEF Y
  <2>2. Handled(Y, EmitIncoming(Y, c))
    BY <1>3, <1>5, <2>1, Incoming DEF Handled
  <2> QED BY <1>1, <1>2, <2>1, <2>2, HandledIsOrder
<1>6. CASE ~(connection_for_handle(X) /\ m.psm \in Services)
  BY <1>1, <1>2, <1>6, HandledIsOrder
<1> QED BY <1>5, <1>6

LEMMA OnConfigureIs ==
    ASSUME NEW X, IsStack(X), NEW cid \in Cids(X), NEW m
    PROVE  Alike(X, OnConfigure(X, Channel(X, cid), m))
<1> DEFINE c == Channel(X, cid)
           asked == [c EXCEPT !.vars = @ \union {"RCVD_CONF_REQ", "SEND_CONF_RSP"},
                              !.remote_sig = m.id,
                              !.mtu = IF m.mtu = 0 THEN @ ELSE m.mtu]
           answered == [c EXCEPT !.vars = @ \union {"RCVD_CONF_RSP"}]
<1>1. IsChannel(c) /\ c.cid = cid
  BY ChannelIs
<1>2. \/ OnConfigure(X, c, m) = SetChannel(X, asked)
      \/ OnConfigure(X, c, m) = SetChannel(X, answered)
      \/ OnConfigure(X, c, m) = X
  BY DEF OnConfigure
<1>3. /\ IsChannel(asked) /\ asked.cid = cid /\ asked.psm = c.psm /\ asked.state = c.state
      /\ IsChannel(answered) /\ answered.cid = cid /\ answered.psm = c.psm /\ answered.state = c.state
  BY <1>1 DEF IsChannel
<1> HIDE DEF asked, answered
<1>4. Alike(X, SetChannel(X, asked)) /\ Alike(X, SetChannel(X, answered))
  BY <1>3, DetailsOfChannel
<1> QED BY <1>2, <1>4, AlikeIsOrder

LEMMA SignalShrinks ==
    ASSUME NEW X, Sound(X), NEW cid \in Cids(X), NEW m
    PROVE  Shrinks(X, l2cap_signaling_handler_channel(X, Channel(X, cid), m))
<1> DEFINE c == Channel(X, cid)
           ending == [c EXCEPT !.state = "WILL_SEND_DISCONNECT_RESPONSE", !.remote_sig = m.id]
           Y == OnConfigure(X, c, m)
<1>1. IsChannel(c) /\ c.cid = cid
  BY ChannelIs DEF Sound, Bare
<1>2. \/ l2cap_signaling_handler_channel(X, c, m) = SetChannel(X, ending)
      \/ l2cap_signaling_handler_channel(X, c, m) = OpenChannel(Y, cid)
      \/ l2cap_signaling_handler_channel(X, c, m) = l2cap_finalize_channel_close(X, cid)
      \/ l2cap_signaling_handler_channel(X, c, m) = X
  BY <1>1 DEF l2cap_signaling_handler_channel
<1>3. IsChannel(ending) /\ ending.cid = cid /\ ending.psm = c.psm /\ ending.state # DECLINED
  BY <1>1 DEF IsChannel, DECLINED
<1> HIDE DEF ending
<1>4. Keeps(X, SetChannel(X, ending))
  BY <1>3, ChannelGoesOn DEF Sound
<1>5. Keeps(X, Y)
  BY OnConfigureIs, KeepsIsOrder DEF Sound, Bare
<1> HIDE DEF Y
<1>6. Keeps(Y, OpenChannel(Y, cid))
  BY <1>5, Opened DEF Keeps
<1>7. Shrinks(X, l2cap_finalize_channel_close(X, cid))
  BY CloseFinalized
<1> QED BY <1>2, <1>4, <1>5, <1>6, <1>7, KeepsIsOrder, ShrinksIsOrder

LEMMA SignalHandled ==
    ASSUME NEW X, Sound(X), X.l2cap.next_cid < 65535, NEW m
    PROVE  Handled(X, l2cap_signaling_handler_dispatch(X, m))
<1> DEFINE to    == Addressees(X, m)
           first == CHOOSE i \in to : \A j \in to : i <= j
           c     == Chans(X)[first]
           Y     == l2cap_signaling_handler_dispatch(X, m)
<1>1. \/ Y = l2cap_handle_connection_request(X, m)
      \/ Y = l2cap_register_signaling_response(X, m.code, m.id, 0)
      \/ Y = l2cap_register_signaling_response(X, m.code, m.id, m.result)
      \/ Y = X
      \/ to # {} /\ Y = l2cap_signaling_handler_channel(X, c, m)
  BY SMT DEF l2cap_signaling_handler_dispatch, Chans
<1>2. \A code, id, data : Handled(X, l2cap_register_signaling_response(X, code, id, data))
  BY Registered, KeepsIsOrder, HandledIsOrder DEF Sound, Bare
<1>3. Handled(X, l2cap_handle_connection_request(X, m))
  BY NewHandled
<1>4. ASSUME to # {}
      PROVE  Handled(X, l2cap_signaling_handler_channel(X, c, m))
  <2>1. IsChannelList(Chans(X)) /\ DOMAIN Chans(X) \subseteq Nat
    <3>1. IsChannelList(Chans(X))
      BY DEF Sound, Bare, IsStack
    <3> QED BY <3>1, ListBasics DEF IsChannelList
  <2>2. to \subseteq DOMAIN Chans(X)
    BY DEF Addressees, Chans
  <2> HIDE DEF to
  <2>3. \E i \in to : \A j \in to : i <= j
    BY <1>4, <2>1, <2>2, Least
  <2>4. first \in DOMAIN Chans(X)
    BY <2>2, <2>3
  <2> HIDE DEF first
  <2>5. c.cid \in Cids(X) /\ Channel(X, c.cid) = c
    BY <2>1, <2>4, OnlyOne, Lists
  <2> HIDE DEF c
  <2>6. Shrinks(X, l2cap_signaling_handler_channel(X, Channel(X, c.cid), m))
    BY <2>5, SignalShrinks
  <2> QED BY <2>5, <2>6, HandledIsOrder
<1> HIDE DEF Y, c, to
<1> QED BY <1>1, <1>2, <1>3, <1>4, HandledIsOrder DEF Y

LEMMA AclHandled ==
    ASSUME NEW X, Sound(X), X.l2cap.next_cid < 65535, NEW p
    PROVE  Handled(X, l2cap_acl_handler(X, p))
<1> DEFINE Y == IF p.cid = SIGNALING THEN l2cap_signaling_handler_dispatch(X, p.body)
                ELSE IF p.cid \in Cids(X) THEN l2cap_dispatch(X, Channel(X, p.cid), p.body)
                ELSE X
<1>1. l2cap_acl_handler(X, p) = l2cap_run(Y)
  BY DEF l2cap_acl_handler
<1>2. Handled(X, l2cap_signaling_handler_dispatch(X, p.body))
  BY SignalHandled
<1>3. Keeps(X, l2cap_dispatch(X, Channel(X, p.cid), p.body))
  BY Emitted
<1>4. Handled(X, Y)
  BY <1>2, <1>3, HandledIsOrder
<1> HIDE DEF Y
<1>5. Shrinks(Y, l2cap_run(Y))
  BY <1>4, RunShrinks DEF Handled
<1> QED BY <1>1, <1>4, <1>5, HandledIsOrder

----------------------------------------------------------------------------
(* The handlers of hci.c.  What is above them is not touched by hci.c      *)
(* itself; of the connection it must not forget that it is open.           *)

SameUpper(X, Y) ==
    /\ Y.l2cap = X.l2cap
    /\ Y.rfcomm = X.rfcomm
    /\ Y.sdp = X.sdp
    /\ Y.app = X.app

Below(X, Y) == IsStack(Y) /\ SameUpper(X, Y)

LEMMA BelowIsOrder ==
    ASSUME NEW X, NEW Y, NEW Z
    PROVE  /\ IsStack(X) => Below(X, X)
           /\ Below(X, Y) /\ Below(Y, Z) => Below(X, Z)
BY DEF Below, SameUpper

LEMMA BelowIsSound ==
    ASSUME NEW X, NEW Y, Sound(X), Below(X, Y),
           connection_for_handle(X) /\ Cids(X) # {} => connection_for_handle(Y)
    PROVE  Sound(Y) /\ Cids(Y) = Cids(X)
<1>1. Cids(Y) = Cids(X) /\ \A d : Channel(Y, d) = Channel(X, d)
  BY DEF Below, SameUpper, Cids, Channel, PlaceOf
<1>2. ListOk(Y) /\ SdpOk(Y) /\ MuxOk(Y) /\ AppOk(Y)
  BY <1>1 DEF Below, SameUpper, Sound, Bare, ListOk, SdpOk, MuxOk, AppOk, HasMux, HasChannel
<1>3. ConnOk(Y)
  BY <1>1 DEF Sound, Bare, ConnOk
<1> QED BY <1>1, <1>2, <1>3 DEF Sound, Bare, Below

\* A command: it takes the buffer, and the endpoint if that is free.
LEMMA CommandSent ==
    ASSUME NEW X, IsStack(X), NEW c
    PROVE  LET Y == hci_send_cmd(X, c)
           IN  /\ Below(X, Y)
               /\ Y.usb.buffer = c /\ Y.usb.bulkOut = X.usb.bulkOut
               /\ Y.usb.ctrlOut = IF X.usb.ctrlOut = NONE THEN c ELSE X.usb.ctrlOut
               /\ Y.hci.num_cmd = (X.hci.num_cmd - 1) % 256
               /\ Y.hci.overrun = (X.hci.overrun \/ X.hci.num_cmd = 0)
               /\ Y.hci.state = X.hci.state /\ Y.hci.substate = X.hci.substate
               /\ Y.hci.decline = X.hci.decline /\ Y.hci.scan = X.hci.scan
               /\ Y.hci.discoverable = X.hci.discoverable
               /\ Y.hci.connectable = X.hci.connectable
               /\ Y.hci.conn = X.hci.conn /\ Y.hci.total_acl = X.hci.total_acl
<1> DEFINE Y == hci_send_cmd(X, c)
           n == (X.hci.num_cmd - 1) % 256
           o == X.hci.overrun \/ X.hci.num_cmd = 0
           out == IF X.usb.ctrlOut = NONE THEN c ELSE X.usb.ctrlOut
<1>1. Y = [X EXCEPT !.usb.buffer = c, !.usb.ctrlOut = out, !.hci.num_cmd = n, !.hci.overrun = o]
  BY DEF hci_send_cmd, IsStack
<1> HIDE DEF n, o, out, Y
<1>2. /\ SameUpper(X, Y) /\ DOMAIN Y = DOMAIN X /\ DOMAIN Y.usb = DOMAIN X.usb
      /\ DOMAIN Y.hci = DOMAIN X.hci
      /\ Y.usb.buffer = c /\ Y.usb.bulkOut = X.usb.bulkOut /\ Y.usb.ctrlOut = out
      /\ Y.hci.num_cmd = n /\ Y.hci.overrun = o
      /\ Y.hci.state = X.hci.state /\ Y.hci.substate = X.hci.substate
      /\ Y.hci.decline = X.hci.decline /\ Y.hci.scan = X.hci.scan
      /\ Y.hci.discoverable = X.hci.discoverable
      /\ Y.hci.connectable = X.hci.connectable
      /\ Y.hci.conn = X.hci.conn /\ Y.hci.total_acl = X.hci.total_acl
  BY <1>1 DEF IsStack, SameUpper
<1>3. IsStack(Y)
  BY <1>2 DEF SameUpper, IsStack, HasConn, HasMux, HasChannel, Chans
<1> QED BY <1>2, <1>3 DEF Below, Y, n, o, out

\* Fields of hci that are written one by one.
LEMMA HciChange ==
    ASSUME NEW X, IsStack(X), NEW hci, DOMAIN hci = DOMAIN X.hci,
           \/ hci.conn = NONE
           \/ /\ DOMAIN hci.conn = {"cmd", "addr", "state", "open", "sent", "recombination"}
              /\ hci.conn.cmd = "CONN"
    PROVE  LET Y == [X EXCEPT !.hci = hci]
           IN  Below(X, Y) /\ Y.usb = X.usb /\ Y.hci = hci
<1> DEFINE Y == [X EXCEPT !.hci = hci]
<1>1. SameUpper(X, Y) /\ Y.usb = X.usb /\ Y.hci = hci /\ DOMAIN Y = DOMAIN X
  BY DEF IsStack, SameUpper
<1> HIDE DEF Y
<1>2. IsStack(Y)
  BY <1>1 DEF SameUpper, IsStack, HasConn, HasMux, HasChannel, Chans
<1> QED BY <1>1, <1>2 DEF Below, Y

LEMMA UsbChange ==
    ASSUME NEW X, IsStack(X), NEW usb, DOMAIN usb = DOMAIN X.usb,
           NEW Y, Y = [X EXCEPT !.usb = usb]
    PROVE  Below(X, Y) /\ Y.hci = X.hci /\ Y.usb = usb
<1>1. SameUpper(X, Y) /\ Y.hci = X.hci /\ Y.usb = usb /\ DOMAIN Y = DOMAIN X
  BY DEF IsStack, SameUpper
<1>2. IsStack(Y)
  BY <1>1 DEF SameUpper, IsStack, HasConn, HasMux, HasChannel, Chans
<1> QED BY <1>1, <1>2 DEF Below

SameCount(X, Y) ==
    /\ Y.hci.total_acl = X.hci.total_acl
    /\ HasConn(X) => Y.hci.conn.sent = X.hci.conn.sent

\* What hci_run does when it sends, whatever it is that is sent.
Commanded(X, Y, c) ==
    /\ Below(X, Y) /\ SameCount(X, Y)
    /\ Y.usb.ctrlOut = c /\ Y.usb.buffer = c /\ Y.usb.bulkOut = X.usb.bulkOut
    /\ Y.hci.num_cmd = (X.hci.num_cmd - 1) % 256
    /\ Y.hci.overrun = (X.hci.overrun \/ X.hci.num_cmd = 0)
    /\ Y.hci.decline = X.hci.decline
    /\ Y.hci.discoverable = X.hci.discoverable
    /\ HasConn(Y) <=> HasConn(X)
    /\ HasConn(X) => Y.hci.conn.addr = X.hci.conn.addr /\ Y.hci.conn.open = X.hci.conn.open

Rests(X) ==
    /\ ~HasScan(X)
    /\ ~Accepts(X)
    /\ X.hci.state # "INITIALIZING" \/ X.hci.substate % 2 = 1

SendsScan(X, Y) ==
    /\ Commanded(X, Y, X.hci.scan) /\ HasScan(X)
    /\ Y.hci.scan = NONE /\ Y.hci.state = X.hci.state /\ Y.hci.substate = X.hci.substate
    /\ Y.hci.conn = X.hci.conn

SendsAccept(X, Y) ==
    /\ \E c : c.cmd = "ACCEPT" /\ Commanded(X, Y, c)
    /\ Accepts(X) /\ ~HasScan(X)
    /\ Y.hci.scan = X.hci.scan /\ Y.hci.state = X.hci.state /\ Y.hci.substate = X.hci.substate
    /\ Y.hci.conn.state = "ACCEPTED_CONNECTION_REQUEST"

SendsName(X, Y) ==
    /\ \E c : c.cmd = "WRITE_LOCAL_NAME" /\ Commanded(X, Y, c)
    /\ X.hci.state = "INITIALIZING" /\ X.hci.substate = 14 /\ ~HasScan(X)
    /\ Y.hci.scan = X.hci.scan /\ Y.hci.state = "WORKING" /\ Y.hci.conn = X.hci.conn

SendsInit(X, Y) ==
    /\ Commanded(X, Y, InitCommand(X))
    /\ X.hci.state = "INITIALIZING" /\ X.hci.substate % 2 # 1 /\ X.hci.substate # 14
    /\ ~HasScan(X)
    /\ Y.hci.scan = X.hci.scan /\ Y.hci.state = X.hci.state
    /\ Y.hci.substate = AfterCommand(X.hci.substate) /\ Y.hci.conn = X.hci.conn

SetSubstate(X, n) == [X EXCEPT !.hci.substate = n]

LEMMA RunIs ==
    ASSUME NEW X, IsStack(X), X.hci.decline = HostAddr
    PROVE  LET Y == hci_run(X)
           IN  \/ Y = X /\ (~CanSendCommand(X) \/ Rests(X))
               \/ /\ CanSendCommand(X)
                  /\ SendsScan(X, Y) \/ SendsAccept(X, Y) \/ SendsName(X, Y) \/ SendsInit(X, Y)
<1> DEFINE Y == hci_run(X)
<1>1. CASE ~CanSendCommand(X) \/ Rests(X)
  BY <1>1 DEF hci_run, Rests
<1>2. CASE CanSendCommand(X) /\ HasScan(X)
  <2> DEFINE hci == [X.hci EXCEPT !.scan = NONE]
             T == [X EXCEPT !.hci = hci]
             c == X.hci.scan
  <2>1. Y = hci_send_cmd(T, c)
    <3>1. [X EXCEPT !.hci.scan = NONE] = T
      BY DEF IsStack
    <3> QED BY <1>2, <3>1 DEF hci_run
  <2>2. /\ DOMAIN hci = DOMAIN X.hci /\ hci.conn = X.hci.conn /\ hci.num_cmd = X.hci.num_cmd
        /\ hci.overrun = X.hci.overrun /\ hci.total_acl = X.hci.total_acl /\ hci.decline = X.hci.decline
        /\ hci.discoverable = X.hci.discoverable /\ hci.scan = NONE
        /\ hci.state = X.hci.state /\ hci.substate = X.hci.substate
    BY DEF IsStack
  <2> HIDE DEF hci, c
  <2>3. Below(X, T) /\ T.usb = X.usb /\ T.hci = hci
    BY <2>2, HciChange DEF IsStack, HasConn
  <2> HIDE DEF T, Y
  <2>4. SendsScan(X, Y)
    BY <1>2, <2>1, <2>2, <2>3, CommandSent, BelowIsOrder
       DEF SendsScan, Commanded, SameCount, Below, CanSendCommand, HasConn, c
  <2> QED BY <1>2, <2>4 DEF Y
<1>3. CASE CanSendCommand(X) /\ ~HasScan(X) /\ Accepts(X)
  <2> DEFINE conn == [X.hci.conn EXCEPT !.state = "ACCEPTED_CONNECTION_REQUEST"]
             hci == [X.hci EXCEPT !.conn = conn]
             T == [X EXCEPT !.hci = hci]
             c == [cmd |-> "ACCEPT", addr |-> X.hci.conn.addr]
  <2>1. Y = hci_send_cmd(T, c)
    <3>1. [X EXCEPT !.hci.conn.state = "ACCEPTED_CONNECTION_REQUEST"] = T
      BY DEF IsStack
    <3> QED BY <1>3, <3>1 DEF hci_run
  <2>2. HasConn(X) /\ X.hci.conn # NONE
    BY <1>3 DEF Accepts, HasConn
  <2>3. /\ DOMAIN conn = {"cmd", "addr", "state", "open", "sent", "recombination"}
        /\ conn.cmd = "CONN" /\ conn.addr = X.hci.conn.addr /\ conn.open = X.hci.conn.open
        /\ conn.state = "ACCEPTED_CONNECTION_REQUEST" /\ conn.sent = X.hci.conn.sent
    BY <2>2 DEF IsStack
  <2> HIDE DEF conn
  <2>4. /\ DOMAIN hci = DOMAIN X.hci /\ hci.conn = conn /\ hci.num_cmd = X.hci.num_cmd
        /\ hci.overrun = X.hci.overrun /\ hci.total_acl = X.hci.total_acl /\ hci.decline = X.hci.decline
        /\ hci.discoverable = X.hci.discoverable /\ hci.scan = X.hci.scan
        /\ hci.state = X.hci.state /\ hci.substate = X.hci.substate
    BY DEF IsStack
  <2>5. c.cmd = "ACCEPT"
    OBVIOUS
  <2> HIDE DEF hci, c
  <2>6. Below(X, T) /\ T.usb = X.usb /\ T.hci = hci
    BY <2>3, <2>4, HciChange
  <2>7. conn # NONE
    BY <2>3 DEF NONE
  <2> HIDE DEF T, Y
  <2>8. Commanded(X, Y, c)
    BY <1>3, <2>1, <2>2, <2>3, <2>4, <2>6, <2>7, CommandSent, BelowIsOrder
       DEF Commanded, SameCount, Below, CanSendCommand, HasConn
  <2>9. Y.hci.scan = X.hci.scan /\ Y.hci.state = X.hci.state /\ Y.hci.substate = X.hci.substate
        /\ Y.hci.conn = conn
    BY <2>1, <2>4, <2>6, CommandSent DEF Below
  <2>10. SendsAccept(X, Y)
    BY <1>3, <2>3, <2>5, <2>8, <2>9 DEF SendsAccept
  <2> QED BY <1>3, <2>10 DEF Y
<1>4. CASE /\ CanSendCommand(X) /\ ~HasScan(X) /\ ~Accepts(X)
           /\ X.hci.state = "INITIALIZING" /\ X.hci.substate % 2 # 1
  <2> DEFINE named == [cmd |-> "WRITE_LOCAL_NAME"]
             hci == [X.hci EXCEPT !.state = "WORKING"]
             T == [X EXCEPT !.hci = hci]
             U == hci_send_cmd(T, named)
             V == hci_send_cmd(X, InitCommand(X))
  <2>1. Y = IF X.hci.substate = 14 THEN [U EXCEPT !.hci.substate = 15]
            ELSE [V EXCEPT !.hci.substate = AfterCommand(X.hci.substate)]
    <3>1. [X EXCEPT !.hci.state = "WORKING"] = T
      BY DEF IsStack
    <3> QED BY <1>4, <3>1 DEF hci_run, Working
  <2>2. /\ DOMAIN hci = DOMAIN X.hci /\ hci.conn = X.hci.conn /\ hci.num_cmd = X.hci.num_cmd
        /\ hci.overrun = X.hci.overrun /\ hci.total_acl = X.hci.total_acl /\ hci.decline = X.hci.decline
        /\ hci.discoverable = X.hci.discoverable /\ hci.scan = X.hci.scan
        /\ hci.state = "WORKING" /\ hci.substate = X.hci.substate
    BY DEF IsStack
  <2>3. named.cmd = "WRITE_LOCAL_NAME"
    OBVIOUS
  <2> HIDE DEF hci, named
  <2>4. Below(X, T) /\ T.usb = X.usb /\ T.hci = hci
    BY <2>2, HciChange DEF IsStack, HasConn
  <2> HIDE DEF T
  <2>5. /\ Commanded(X, U, named)
        /\ U.hci.scan = X.hci.scan /\ U.hci.state = "WORKING" /\ U.hci.conn = X.hci.conn
    BY <1>4, <2>2, <2>4, CommandSent, BelowIsOrder DEF Commanded, SameCount, Below, CanSendCommand, HasConn
  <2>6. /\ Commanded(X, V, InitCommand(X))
        /\ V.hci.scan = X.hci.scan /\ V.hci.state = X.hci.state /\ V.hci.conn = X.hci.conn
    BY <1>4, CommandSent DEF Commanded, SameCount, Below, CanSendCommand, HasConn
  <2> HIDE DEF U, V
  <2>7. ASSUME NEW Z, NEW d, NEW m, Commanded(X, Z, d), NEW W, W = SetSubstate(Z, m)
        PROVE  /\ Commanded(X, W, d) /\ W.hci.substate = m
               /\ W.hci.scan = Z.hci.scan /\ W.hci.state = Z.hci.state
               /\ W.hci.conn = Z.hci.conn
    <3> DEFINE new == [Z.hci EXCEPT !.substate = m]
    <3>1. W = [Z EXCEPT !.hci = new] /\ IsStack(Z)
      BY <2>7 DEF Commanded, Below, IsStack, SetSubstate
    <3>2. /\ DOMAIN new = DOMAIN Z.hci /\ new.conn = Z.hci.conn /\ new.num_cmd = Z.hci.num_cmd
          /\ new.overrun = Z.hci.overrun /\ new.total_acl = Z.hci.total_acl /\ new.decline = Z.hci.decline
          /\ new.discoverable = Z.hci.discoverable /\ new.scan = Z.hci.scan
          /\ new.state = Z.hci.state /\ new.substate = m
      BY <3>1 DEF IsStack
    <3> HIDE DEF new
    <3>3. Below(Z, W) /\ W.usb = Z.usb /\ W.hci = new
      BY <3>1, <3>2, HciChange DEF IsStack, HasConn
    <3>4. Commanded(X, W, d)
      BY <2>7, <3>2, <3>3, BelowIsOrder DEF Commanded, SameCount, HasConn
    <3> QED BY <3>1, <3>2, <3>3, <3>4
  <2>8. CASE X.hci.substate = 14
    <3> DEFINE W == SetSubstate(U, 15)
    <3>1. Y = W
      BY <2>1, <2>8 DEF SetSubstate
    <3>2. /\ Commanded(X, W, named)
          /\ W.hci.scan = X.hci.scan /\ W.hci.state = "WORKING" /\ W.hci.conn = X.hci.conn
      BY <2>5, <2>7
    <3> HIDE DEF W
    <3>3. SendsName(X, W)
      BY <1>4, <2>3, <2>8, <3>2 DEF SendsName
    <3> QED BY <1>4, <3>1, <3>3
  <2>9. CASE X.hci.substate # 14
    <3> DEFINE n == AfterCommand(X.hci.substate)
               c == InitCommand(X)
               W == SetSubstate(V, n)
    <3>1. Y = W
      BY <2>1, <2>9 DEF SetSubstate
    <3>4. /\ Commanded(X, V, c) /\ W = SetSubstate(V, n)
          /\ V.hci.scan = X.hci.scan /\ V.hci.state = X.hci.state /\ V.hci.conn = X.hci.conn
      BY <2>6
    <3> HIDE DEF n, c, W
    <3>2. /\ Commanded(X, W, c) /\ W.hci.substate = n
          /\ W.hci.scan = X.hci.scan /\ W.hci.state = X.hci.state /\ W.hci.conn = X.hci.conn
      BY <2>7, <3>4
    <3>3. SendsInit(X, W)
      BY <1>4, <2>9, <3>2 DEF SendsInit, n, c
    <3> QED BY <1>4, <3>1, <3>3
  <2> QED BY <2>8, <2>9
<1> QED BY <1>1, <1>2, <1>3, <1>4 DEF Rests

----------------------------------------------------------------------------
(* An event.  Once the device has started, hci_run has a command to send   *)
(* only where a connection is asked for.                                   *)

Settled(X) ==
    /\ X.hci.state = "WORKING"
    /\ X.hci.discoverable
    /\ X.hci.scan = NONE
    /\ HasConn(X) => X.hci.conn.state # "RECEIVED_CONNECTION_REQUEST"

LEMMA SettledRests ==
    ASSUME NEW X, IsStack(X), X.hci.decline = HostAddr, Settled(X)
    PROVE  hci_run(X) = X
<1>1. Rests(X)
  BY DEF Settled, Rests, HasScan, Accepts, HasConn
<1> QED BY <1>1 DEF hci_run, Rests

IsCompletion(e) == e.ev \in {"COMMAND_COMPLETE", "COMMAND_STATUS"}

\* What hci.c notes of an event before the others hear of it.
Noted(X, Y, e) ==
    /\ Below(X, Y)
    /\ Y.usb = X.usb
    /\ Y.hci.state = X.hci.state
    /\ Y.hci.decline = X.hci.decline
    /\ Y.hci.scan = X.hci.scan
    /\ Y.hci.discoverable = X.hci.discoverable
    /\ Y.hci.overrun = X.hci.overrun
    /\ Y.hci.num_cmd = IF IsCompletion(e) THEN e.num ELSE X.hci.num_cmd
    /\ Y.hci.total_acl = IF e.ev = "COMMAND_COMPLETE" /\ e.cmd = "READ_BUFFER_SIZE"
                         THEN e.total ELSE X.hci.total_acl
    /\ Y.hci.substate = IF /\ X.hci.state = "INITIALIZING" /\ X.hci.substate % 2 = 1
                           /\ e.ev = "COMMAND_COMPLETE"
                        THEN X.hci.substate + 1 ELSE X.hci.substate
    /\ HasConn(Y) <=> HasConn(X)
    /\ HasConn(X) =>
        /\ Y.hci.conn.addr = X.hci.conn.addr
        /\ Y.hci.conn.state = IF e.ev = "CONNECTION_COMPLETE" THEN "OPEN" ELSE X.hci.conn.state
        /\ Y.hci.conn.open = IF e.ev = "CONNECTION_COMPLETE" THEN TRUE ELSE X.hci.conn.open
        /\ Y.hci.conn.sent = IF e.ev = "COMPLETED_PACKETS" /\ connection_for_handle(X)
                             THEN (X.hci.conn.sent - e.num) % 256 ELSE X.hci.conn.sent

\* An event of the controllers and phones that are modelled.
IsFair(X, e) == e.ok = TRUE /\ (HasConn(X) => X.hci.conn.addr = e.addr)


LEMMA HciNotes ==
    ASSUME NEW X, IsStack(X), NEW e, IsFair(X, e), e.ev # "CONNECTION_REQUEST"
    PROVE  Noted(X, HciEvent(X, e), e)
<1> DEFINE sent == (X.hci.conn.sent - e.num) % 256
           total == IF e.cmd = "READ_BUFFER_SIZE" THEN e.total ELSE X.hci.total_acl
           next == X.hci.substate + 1
           odd == X.hci.state = "INITIALIZING" /\ X.hci.substate % 2 = 1
           complete == [X.hci EXCEPT !.num_cmd = e.num, !.total_acl = total]
           advanced == [complete EXCEPT !.substate = next]
           status == [X.hci EXCEPT !.num_cmd = e.num]
           opened == [X.hci EXCEPT !.conn = [X.hci.conn EXCEPT !.state = "OPEN", !.open = TRUE]]
           counted == [X.hci EXCEPT !.conn = [X.hci.conn EXCEPT !.sent = sent]]
           Y(hci) == [X EXCEPT !.hci = hci]
           shape == {"state", "substate", "num_cmd", "total_acl", "conn", "decline",
                     "scan", "discoverable", "connectable", "overrun"}
<1>0. DOMAIN X.hci = shape /\ (HasConn(X) \/ X.hci.conn = NONE)
  BY DEF IsStack, HasConn
<1>9. HasConn(X) => /\ DOMAIN X.hci.conn = {"cmd", "addr", "state", "open", "sent", "recombination"}
                    /\ X.hci.conn.cmd = "CONN"
  BY DEF IsStack
<1>1. CASE e.ev = "COMMAND_COMPLETE"
  <2>1. HciEvent(X, e) = IF odd THEN Y(advanced) ELSE Y(complete)
    BY <1>1 DEF HciEvent, Advance, OnCommandComplete, IsStack
  <2>2. /\ DOMAIN complete = DOMAIN X.hci /\ complete.conn = X.hci.conn /\ complete.num_cmd = e.num
        /\ complete.state = X.hci.state /\ complete.substate = X.hci.substate
        /\ complete.decline = X.hci.decline /\ complete.scan = X.hci.scan
        /\ complete.discoverable = X.hci.discoverable /\ complete.overrun = X.hci.overrun /\ complete.total_acl = total
    BY <1>0
  <2> HIDE DEF complete, next, total
  <2>3. /\ DOMAIN advanced = DOMAIN X.hci /\ advanced.conn = X.hci.conn /\ advanced.num_cmd = e.num
        /\ advanced.state = X.hci.state /\ advanced.substate = next
        /\ advanced.decline = X.hci.decline /\ advanced.scan = X.hci.scan
        /\ advanced.discoverable = X.hci.discoverable /\ advanced.overrun = X.hci.overrun /\ advanced.total_acl = total
    BY <1>0, <2>2
  <2> HIDE DEF advanced
  <2>4. Below(X, Y(complete)) /\ Y(complete).usb = X.usb /\ Y(complete).hci = complete
    BY <1>0, <1>9, <2>2, HciChange
  <2>5. Below(X, Y(advanced)) /\ Y(advanced).usb = X.usb /\ Y(advanced).hci = advanced
    BY <1>0, <1>9, <2>3, HciChange
  <2> HIDE DEF Y
  <2>6. CASE odd
    BY <1>1, <2>1, <2>3, <2>5, <2>6 DEF Noted, HasConn, IsCompletion, next, total
  <2>7. CASE ~odd
    BY <1>1, <2>1, <2>2, <2>4, <2>7 DEF Noted, HasConn, IsCompletion, total
  <2> QED BY <2>6, <2>7
<1>2. CASE e.ev = "COMMAND_STATUS"
  <2>1. HciEvent(X, e) = Y(status)
    BY <1>2 DEF HciEvent, Advance, IsStack
  <2>2. /\ DOMAIN status = DOMAIN X.hci /\ status.conn = X.hci.conn /\ status.num_cmd = e.num
        /\ status.state = X.hci.state /\ status.substate = X.hci.substate
        /\ status.decline = X.hci.decline /\ status.scan = X.hci.scan
        /\ status.discoverable = X.hci.discoverable /\ status.overrun = X.hci.overrun /\ status.total_acl = X.hci.total_acl
    BY <1>0
  <2> HIDE DEF status
  <2>3. Below(X, Y(status)) /\ Y(status).usb = X.usb /\ Y(status).hci = status
    BY <1>0, <1>9, <2>2, HciChange
  <2> HIDE DEF Y
  <2> QED BY <1>2, <2>1, <2>2, <2>3 DEF Noted, HasConn, IsCompletion
<1>3. CASE e.ev = "CONNECTION_COMPLETE" /\ HasConn(X)
  <2>1. HciEvent(X, e) = Y(opened)
    BY <1>3 DEF HciEvent, Advance, OnConnectionComplete, connection_for_address, HasConn, IsFair, IsStack
  <2>2. /\ DOMAIN opened = DOMAIN X.hci /\ opened.num_cmd = X.hci.num_cmd
        /\ opened.state = X.hci.state /\ opened.substate = X.hci.substate
        /\ opened.decline = X.hci.decline /\ opened.scan = X.hci.scan
        /\ opened.discoverable = X.hci.discoverable /\ opened.overrun = X.hci.overrun /\ opened.total_acl = X.hci.total_acl
        /\ DOMAIN opened.conn = DOMAIN X.hci.conn /\ opened.conn.cmd = "CONN"
        /\ opened.conn.addr = X.hci.conn.addr /\ opened.conn.state = "OPEN" /\ opened.conn.open = TRUE
        /\ opened.conn.sent = X.hci.conn.sent
    BY <1>0, <1>3, <1>9
  <2> HIDE DEF opened
  <2>3. Below(X, Y(opened)) /\ Y(opened).usb = X.usb /\ Y(opened).hci = opened
    BY <1>3, <1>9, <2>2, HciChange
  <2>4. opened.conn # NONE
    BY <2>2 DEF NONE
  <2> HIDE DEF Y
  <2> QED BY <1>3, <2>1, <2>2, <2>3, <2>4 DEF Noted, HasConn, IsCompletion
<1>4. CASE e.ev = "COMPLETED_PACKETS" /\ connection_for_handle(X)
  <2>1. HciEvent(X, e) = Y(counted)
    BY <1>4 DEF HciEvent, Advance, OnCompletedPackets, IsStack
  <2>2. HasConn(X)
    BY <1>4 DEF connection_for_handle, HasConn
  <2> HIDE DEF sent
  <2>3. /\ DOMAIN counted = DOMAIN X.hci /\ counted.num_cmd = X.hci.num_cmd
        /\ counted.state = X.hci.state /\ counted.substate = X.hci.substate
        /\ counted.decline = X.hci.decline /\ counted.scan = X.hci.scan
        /\ counted.discoverable = X.hci.discoverable /\ counted.overrun = X.hci.overrun /\ counted.total_acl = X.hci.total_acl
        /\ DOMAIN counted.conn = DOMAIN X.hci.conn /\ counted.conn.cmd = "CONN"
        /\ counted.conn.addr = X.hci.conn.addr /\ counted.conn.state = X.hci.conn.state
        /\ counted.conn.open = X.hci.conn.open /\ counted.conn.sent = sent
    BY <1>0, <1>9, <2>2
  <2> HIDE DEF counted
  <2>4. Below(X, Y(counted)) /\ Y(counted).usb = X.usb /\ Y(counted).hci = counted
    BY <1>9, <2>2, <2>3, HciChange
  <2>5. counted.conn # NONE
    BY <2>3 DEF NONE
  <2> HIDE DEF Y
  <2> QED BY <1>4, <2>1, <2>2, <2>3, <2>4, <2>5 DEF Noted, HasConn, IsCompletion, sent
<1>5. CASE /\ ~IsCompletion(e)
           /\ ~(e.ev = "CONNECTION_COMPLETE" /\ HasConn(X))
           /\ ~(e.ev = "COMPLETED_PACKETS" /\ connection_for_handle(X))
  <2>1. HciEvent(X, e) = X
    BY <1>5 DEF HciEvent, Advance, OnConnectionComplete, OnCompletedPackets, connection_for_address,
                HasConn, IsCompletion
  <2> QED BY <1>5, <2>1, BelowIsOrder DEF Noted, IsCompletion
<1> QED BY <1>1, <1>2, <1>3, <1>4, <1>5 DEF IsCompletion

LEMMA NotedIsSound ==
    ASSUME NEW X, NEW Y, NEW e, Sound(X), Noted(X, Y, e)
    PROVE  Sound(Y)
<1>1. connection_for_handle(X) => connection_for_handle(Y)
  BY DEF Noted, connection_for_handle, HasConn
<1> QED BY <1>1, BelowIsSound DEF Noted

LEMMA HeardAbove ==
    ASSUME NEW X, Sound(X), NEW e, e.ev # "DISCONNECTION_COMPLETE"
    PROVE  Handled(X, L2capEvent(X, e))
<1>1. Shrinks(X, l2cap_run(X)) /\ Shrinks(X, TellAllSent(X))
  BY RunShrinks, CreditsShrink
<1>2. Shrinks(l2cap_run(X), l2cap_hand_out_credits(l2cap_run(X)))
  BY <1>1, CreditsShrink DEF Shrinks
<1>3. \/ L2capEvent(X, e) = l2cap_run(X)
      \/ L2capEvent(X, e) = l2cap_hand_out_credits(l2cap_run(X))
      \/ L2capEvent(X, e) = TellAllSent(X)
      \/ L2capEvent(X, e) = X
  BY DEF L2capEvent
<1> QED BY <1>1, <1>2, <1>3, ShrinksIsOrder, HandledIsOrder

\* The buffer is taken for a packet only while the bulk endpoint is free.
Bulk(X, Y) ==
    \/ Y.usb.bulkOut = X.usb.bulkOut /\ Y.usb.buffer = X.usb.buffer
    \/ X.usb.bulkOut = NONE /\ Y.usb.bulkOut \in {NONE, Y.usb.buffer}

\* A handler of a device that has started.
Steady(X, Y) ==
    /\ Sound(Y) /\ Settled(Y)
    /\ Y.hci.decline = HostAddr
    /\ Y.hci.overrun = X.hci.overrun
    /\ Y.usb.ctrlOut = X.usb.ctrlOut
    /\ Bulk(X, Y)

\* What it leaves of the connection.
Leaves(X, Y) ==
    /\ Y.hci.num_cmd = X.hci.num_cmd
    /\ SameConn(X, Y)
    /\ Counted(X, Y)

\* The event handler after hci.c has noted the event.
LEMMA SteadyAfter ==
    ASSUME NEW X, Sound(X), Settled(X), X.hci.decline = HostAddr, NEW Y, Handled(X, Y)
    PROVE  /\ Steady(X, Y) /\ Leaves(X, Y) /\ hci_run(Y) = Y
           /\ ~connection_for_handle(X) => Y.usb.bulkOut = X.usb.bulkOut
<1>1. /\ Sound(Y) /\ SameHci(X, Y) /\ SameConn(X, Y) /\ Y.usb.ctrlOut = X.usb.ctrlOut /\ Bulk(X, Y)
      /\ ~connection_for_handle(X) => Y.usb.bulkOut = X.usb.bulkOut
      /\ Counted(X, Y)
  BY DEF Handled, Low, Bulk
<1>2. Settled(Y) /\ Y.hci.decline = HostAddr
  BY <1>1 DEF Settled, SameHci, SameConn
<1>3. hci_run(Y) = Y
  BY <1>1, <1>2, SettledRests DEF Sound, Bare
<1> QED BY <1>1, <1>2, <1>3 DEF Steady, Leaves, SameHci

Ordinary == {"COMMAND_COMPLETE", "COMMAND_STATUS", "CONNECTION_COMPLETE",
             "COMPLETED_PACKETS", "PACKET_SENT"}

LEMMA EventIsSteady ==
    ASSUME NEW X, Sound(X), Settled(X), X.hci.decline = HostAddr,
           NEW e, IsFair(X, e), e.ev \in Ordinary
    PROVE  LET Y == event_handler(X, e)
           IN  /\ Steady(X, Y)
               /\ Y.hci.num_cmd = IF IsCompletion(e) THEN e.num ELSE X.hci.num_cmd
               /\ HasConn(Y) <=> HasConn(X)
               /\ HasConn(X) =>
                    /\ Y.hci.conn.addr = X.hci.conn.addr
                    /\ e.ev # "CONNECTION_COMPLETE" => SameConn(X, Y)
                    /\ connection_for_handle(X) \/ e.ev = "CONNECTION_COMPLETE" => connection_for_handle(Y)
               /\ ~connection_for_handle(X) /\ e.ev # "CONNECTION_COMPLETE" =>
                    Y.usb.bulkOut = X.usb.bulkOut
               /\ \E T : Noted(X, T, e) /\ Counted(T, Y)
<1> DEFINE T == HciEvent(X, e)
           U == L2capEvent(T, e)
           Y == event_handler(X, e)
<1>1. Noted(X, T, e)
  BY HciNotes DEF Sound, Bare, Ordinary
<1>2. Shutdown(T, e) = T
  BY DEF Shutdown, Ordinary
<1>3. Y = hci_run(PacketHandler(U, e))
  BY <1>2 DEF event_handler
<1> HIDE DEF T
<1>4. Sound(T)
  BY <1>1, NotedIsSound
<1>5. Settled(T) /\ T.hci.decline = HostAddr
  <2>1. HasConn(T) => T.hci.conn.state # "RECEIVED_CONNECTION_REQUEST"
    BY <1>1 DEF Noted, Settled
  <2>2. /\ T.hci.state = X.hci.state /\ T.hci.scan = X.hci.scan
        /\ T.hci.discoverable = X.hci.discoverable /\ T.hci.decline = X.hci.decline
    BY <1>1 DEF Noted
  <2> QED BY <2>1, <2>2 DEF Settled
<1>6. Handled(T, U)
  BY <1>4, HeardAbove DEF Ordinary
<1> HIDE DEF U, Y
<1>7. /\ Steady(T, U) /\ Leaves(T, U) /\ hci_run(U) = U
      /\ ~connection_for_handle(T) => U.usb.bulkOut = T.usb.bulkOut
  BY <1>4, <1>5, <1>6, SteadyAfter
<1>8. PacketHandler(U, e) = U
  BY <1>7 DEF PacketHandler, hci_discoverable_control, Steady, Settled, Ordinary
<1>9. Y = U
  BY <1>3, <1>7, <1>8
<1>10. Steady(X, U)
  BY <1>1, <1>7 DEF Steady, Noted, Bulk
<1>11. U.hci.num_cmd = IF IsCompletion(e) THEN e.num ELSE X.hci.num_cmd
  BY <1>1, <1>7 DEF Leaves, Noted
<1>12. /\ HasConn(U) <=> HasConn(X)
       /\ HasConn(X) =>
            /\ U.hci.conn.addr = X.hci.conn.addr
            /\ e.ev # "CONNECTION_COMPLETE" => SameConn(X, U)
            /\ connection_for_handle(X) \/ e.ev = "CONNECTION_COMPLETE" => connection_for_handle(U)
  BY <1>1, <1>7 DEF Noted, Leaves, SameConn, connection_for_handle, HasConn
<1>13. ~connection_for_handle(X) /\ e.ev # "CONNECTION_COMPLETE" => U.usb.bulkOut = X.usb.bulkOut
  BY <1>1, <1>7 DEF Noted, connection_for_handle, HasConn
<1>14. Noted(X, T, e) /\ Counted(T, U)
  BY <1>1, <1>7 DEF Leaves
<1> QED BY <1>9, <1>10, <1>11, <1>12, <1>13, <1>14 DEF Y

\* The end of the connection, which is told to the upper layers twice.
LEMMA DisconnectionIsSteady ==
    ASSUME NEW X, Sound(X), Settled(X), X.hci.decline = HostAddr, connection_for_handle(X),
           NEW e, IsFair(X, e), e.ev = "DISCONNECTION_COMPLETE"
    PROVE  LET Y == event_handler(X, e)
           IN  /\ Steady(X, Y) /\ Y.hci.num_cmd = X.hci.num_cmd /\ ~HasConn(Y)
               /\ Y.hci.total_acl = X.hci.total_acl
<1> DEFINE T == HciEvent(X, e)
           C == CloseAll(T)
           hci == [C.hci EXCEPT !.conn = NONE]
           D == [C EXCEPT !.hci = hci]
           U == CloseAll(D)
           Y == event_handler(X, e)
<1>1. Noted(X, T, e)
  BY HciNotes DEF Sound, Bare
<1>2. connection_for_handle(T)
  BY <1>1 DEF Noted, connection_for_handle, HasConn
<1>3. L2capEvent(T, e) = C
  BY DEF L2capEvent
<1>4. Y = hci_run(PacketHandler(L2capEvent([C EXCEPT !.hci.conn = NONE], e), e))
  BY <1>2, <1>3 DEF event_handler, Shutdown
<1> HIDE DEF T
<1>5. Sound(T) /\ Settled(T) /\ T.hci.decline = HostAddr
  BY <1>1, NotedIsSound DEF Noted, Settled
<1>6. Shrinks(T, C) /\ Cids(C) = {}
  BY <1>5, ClosedAll
<1> HIDE DEF C
<1>7. Steady(T, C) /\ Leaves(T, C)
  BY <1>5, <1>6, SteadyAfter, HandledIsOrder
<1>8. [C EXCEPT !.hci.conn = NONE] = D /\ IsStack(C)
  BY <1>7 DEF Steady, Sound, Bare, IsStack
<1>9. /\ DOMAIN hci = DOMAIN C.hci /\ hci.conn = NONE
      /\ hci.state = C.hci.state /\ hci.discoverable = C.hci.discoverable /\ hci.scan = C.hci.scan
      /\ hci.decline = C.hci.decline /\ hci.overrun = C.hci.overrun /\ hci.total_acl = C.hci.total_acl /\ hci.num_cmd = C.hci.num_cmd
  BY <1>8 DEF IsStack
<1> HIDE DEF hci
<1>10. Below(C, D) /\ D.usb = C.usb /\ D.hci = hci
  BY <1>8, <1>9, HciChange
<1> HIDE DEF D
<1>11. Sound(D)
  BY <1>6, <1>7, <1>10, BelowIsSound DEF Steady
<1>12. Settled(D) /\ D.hci.decline = HostAddr /\ ~HasConn(D)
  BY <1>7, <1>9, <1>10 DEF Steady, Settled, HasConn
<1>13. L2capEvent(D, e) = U
  BY DEF L2capEvent
<1>14. Shrinks(D, U)
  BY <1>11, ClosedAll
<1> HIDE DEF U, Y
<1>15. Steady(D, U) /\ Leaves(D, U) /\ hci_run(U) = U
  BY <1>11, <1>12, <1>14, SteadyAfter, HandledIsOrder
<1>16. PacketHandler(U, e) = U
  BY DEF PacketHandler
<1>17. Y = U
  BY <1>4, <1>8, <1>13, <1>15, <1>16
<1>18. /\ U.hci.overrun = X.hci.overrun /\ U.usb.ctrlOut = X.usb.ctrlOut
       /\ U.hci.num_cmd = X.hci.num_cmd /\ ~HasConn(U)
       /\ U.hci.total_acl = X.hci.total_acl
  BY <1>1, <1>7, <1>9, <1>10, <1>12, <1>15 DEF Noted, Steady, Leaves, SameConn, Counted, IsCompletion
<1>19. Bulk(X, U)
  BY <1>1, <1>7, <1>10, <1>15 DEF Noted, Steady, Bulk
<1> QED BY <1>15, <1>17, <1>18, <1>19 DEF Steady, Y

\* A connection is asked for: it is accepted at once.
LEMMA RequestAccepted ==
    ASSUME NEW X, Sound(X), Settled(X), X.hci.decline = HostAddr, ~HasConn(X),
           X.usb.ctrlOut = NONE, X.hci.num_cmd = 1,
           NEW e, IsFair(X, e), e.ev = "CONNECTION_REQUEST"
    PROVE  LET Y == event_handler(X, e)
           IN  /\ Sound(Y) /\ Settled(Y)
               /\ Y.hci.decline = HostAddr
               /\ ~X.hci.overrun => ~Y.hci.overrun
               /\ Y.hci.num_cmd = 0
               /\ Y.usb.ctrlOut # NONE /\ Y.usb.ctrlOut.cmd = "ACCEPT"
               /\ Y.usb.buffer = Y.usb.ctrlOut /\ Y.usb.bulkOut = X.usb.bulkOut
               /\ HasConn(Y) /\ ~connection_for_handle(Y) /\ Y.hci.conn.addr = e.addr
               /\ Y.hci.conn.state = "ACCEPTED_CONNECTION_REQUEST"
               /\ Y.hci.conn.sent = 0 /\ Y.hci.total_acl = X.hci.total_acl
<1> DEFINE conn == NewConnection(e.addr)
           hci == [X.hci EXCEPT !.conn = conn]
           T == [X EXCEPT !.hci = hci]
           U == hci_run(T)
           Y == event_handler(X, e)
<1>0. IsStack(X) /\ X.hci.conn = NONE
  BY DEF Sound, Bare, HasConn
<1>1. HciEvent(X, e) = hci_run([X EXCEPT !.hci.conn = conn])
  BY <1>0 DEF HciEvent, Advance, OnConnectionRequest, connection_for_address
<1>2. [X EXCEPT !.hci.conn = conn] = T
  BY <1>0 DEF IsStack
<1>3. Shutdown(U, e) = U /\ L2capEvent(U, e) = U /\ PacketHandler(U, e) = U
  BY DEF Shutdown, L2capEvent, PacketHandler
<1>4. Y = hci_run(U)
  BY <1>1, <1>2, <1>3 DEF event_handler
<1>5. /\ DOMAIN conn = {"cmd", "addr", "state", "open", "sent", "recombination"}
      /\ conn.cmd = "CONN" /\ conn.addr = e.addr /\ conn.state = "RECEIVED_CONNECTION_REQUEST"
      /\ conn.open = FALSE /\ conn.sent = 0
  BY DEF NewConnection
<1> HIDE DEF conn
<1>6. conn # NONE
  BY <1>5 DEF NONE
<1>7. /\ DOMAIN hci = DOMAIN X.hci /\ hci.conn = conn /\ hci.num_cmd = X.hci.num_cmd
      /\ hci.overrun = X.hci.overrun /\ hci.total_acl = X.hci.total_acl /\ hci.decline = X.hci.decline
      /\ hci.discoverable = X.hci.discoverable /\ hci.scan = X.hci.scan
      /\ hci.state = X.hci.state
  BY <1>0 DEF IsStack
<1> HIDE DEF hci
<1>8. Below(X, T) /\ T.usb = X.usb /\ T.hci = hci
  BY <1>0, <1>5, <1>7, HciChange
<1> HIDE DEF T
<1>9. /\ CanSendCommand(T) /\ Accepts(T) /\ ~HasScan(T) /\ T.hci.state = "WORKING"
      /\ T.hci.decline = HostAddr
  BY <1>5, <1>6, <1>7, <1>8 DEF CanSendCommand, Accepts, HasScan, Settled
<1>10. SendsAccept(T, U)
  BY <1>8, <1>9, RunIs DEF Below, Rests, SendsScan, SendsName, SendsInit
<1> HIDE DEF U, Y
<1>11. PICK c : c.cmd = "ACCEPT" /\ Commanded(T, U, c)
  BY <1>10 DEF SendsAccept
<1>12. c # NONE
  BY <1>11 DEF NONE
<1>13. /\ U.usb.ctrlOut = c /\ U.usb.buffer = c /\ U.usb.bulkOut = X.usb.bulkOut
       /\ U.hci.decline = HostAddr
       /\ U.hci.discoverable = X.hci.discoverable
       /\ HasConn(U) /\ U.hci.conn.addr = e.addr /\ U.hci.conn.open = FALSE
       /\ U.hci.conn.sent = 0 /\ U.hci.total_acl = X.hci.total_acl
  BY <1>5, <1>6, <1>7, <1>8, <1>9, <1>11 DEF Commanded, SameCount, HasConn
<1>14. U.hci.num_cmd = 0 /\ (~X.hci.overrun => ~U.hci.overrun)
  <2>1. ~X.hci.overrun => ~U.hci.overrun
    <3>1. U.hci.overrun = (T.hci.overrun \/ T.hci.num_cmd = 0)
      BY <1>11 DEF Commanded
    <3>2. T.hci.num_cmd # 0 /\ T.hci.overrun = X.hci.overrun
      BY <1>7, <1>8
    <3> QED BY <3>1, <3>2
  <2>2. U.hci.num_cmd = (1 - 1) % 256
    BY <1>7, <1>8, <1>11 DEF Commanded
  <2> QED BY <2>1, <2>2
<1>15. Settled(U)
  BY <1>7, <1>8, <1>10, <1>13 DEF SendsAccept, Settled
<1>16. Below(X, U)
  BY <1>8, <1>11, BelowIsOrder DEF Commanded
<1>17. Sound(U)
  BY <1>16, BelowIsSound DEF connection_for_handle, HasConn
<1>18. Y = U
  BY <1>4, <1>13, <1>15, <1>16, SettledRests DEF Below
<1> QED BY <1>10, <1>11, <1>12, <1>13, <1>14, <1>15, <1>17, <1>18
        DEF SendsAccept, connection_for_handle, Y

\* What a command for the pairing does, or one that accepts.
Replied(X, Y, cmd) ==
    /\ Sound(Y) /\ Settled(Y)
    /\ Y.hci.decline = HostAddr
    /\ ~X.hci.overrun => ~Y.hci.overrun
    /\ Y.hci.num_cmd = 0
    /\ Y.usb.ctrlOut # NONE /\ Y.usb.ctrlOut.cmd = cmd
    /\ Y.usb.buffer = Y.usb.ctrlOut /\ Y.usb.bulkOut = X.usb.bulkOut
    /\ SameCount(X, Y)

\* The application answers to a pairing when the controller is free.
LEMMA KeyAnswered ==
    ASSUME NEW X, Sound(X), Settled(X), X.hci.decline = HostAddr,
           X.usb.ctrlOut = NONE, X.hci.num_cmd = 1,
           NEW e, IsFair(X, e), e.ev \in {"LINK_KEY_REQUEST", "PIN_CODE_REQUEST"}
    PROVE  LET Y == event_handler(X, e)
           IN  /\ Replied(X, Y, IF e.ev = "PIN_CODE_REQUEST" THEN "PIN_CODE" ELSE "LINK_KEY_NEGATIVE")
               /\ SameConn(X, Y)
<1> DEFINE cmd == IF e.ev = "PIN_CODE_REQUEST" THEN "PIN_CODE" ELSE "LINK_KEY_NEGATIVE"
           c == [cmd |-> cmd]
           T == HciEvent(X, e)
           U == hci_send_cmd(T, c)
           Y == event_handler(X, e)
<1>1. Noted(X, T, e)
  BY HciNotes DEF Sound, Bare
<1>2. Y = hci_run(U)
  BY DEF event_handler, Shutdown, L2capEvent, PacketHandler
<1>3. c.cmd = cmd /\ cmd # "NONE"
  OBVIOUS
<1> HIDE DEF T, c, cmd
<1>4. c # NONE
  BY <1>3 DEF NONE
<1>5. /\ IsStack(X) /\ Below(X, T) /\ T.usb = X.usb /\ T.hci.num_cmd = 1
      /\ T.hci.state = X.hci.state /\ T.hci.decline = HostAddr /\ T.hci.scan = X.hci.scan
      /\ T.hci.discoverable = X.hci.discoverable /\ T.hci.overrun = X.hci.overrun
      /\ SameConn(X, T)
  BY <1>1 DEF Noted, IsCompletion, SameConn, Sound, Bare
<1>6. /\ Below(T, U) /\ U.usb.buffer = c /\ U.usb.bulkOut = T.usb.bulkOut
      /\ U.usb.ctrlOut = c
      /\ U.hci.num_cmd = (1 - 1) % 256
      /\ U.hci.overrun = (T.hci.overrun \/ T.hci.num_cmd = 0)
      /\ U.hci.state = T.hci.state /\ U.hci.decline = T.hci.decline /\ U.hci.scan = T.hci.scan
      /\ U.hci.discoverable = T.hci.discoverable /\ U.hci.conn = T.hci.conn
      /\ U.hci.total_acl = T.hci.total_acl
  BY <1>5, CommandSent DEF Below
<1> HIDE DEF U, Y
<1>7. ~X.hci.overrun => ~U.hci.overrun
  <2>1. T.hci.num_cmd # 0 /\ T.hci.overrun = X.hci.overrun
    BY <1>5
  <2>2. U.hci.overrun = (T.hci.overrun \/ T.hci.num_cmd = 0)
    BY <1>6
  <2> QED BY <2>1, <2>2
<1>8. U.hci.num_cmd = 0
  BY <1>6
<1>9. SameConn(X, U)
  BY <1>5, <1>6 DEF SameConn, HasConn
<1>10. Settled(U) /\ U.hci.decline = HostAddr
  BY <1>5, <1>6, <1>9 DEF Settled, SameConn
<1>11. Below(X, U)
  BY <1>5, <1>6, BelowIsOrder
<1>12. Sound(U)
  BY <1>9, <1>11, BelowIsSound DEF SameConn, connection_for_handle, HasConn
<1>13. Y = U
  BY <1>2, <1>10, <1>11, SettledRests DEF Below
<1>14. SameCount(X, U)
  BY <1>1, <1>6 DEF Noted, SameCount
<1>15. Replied(X, U, cmd)
  BY <1>14, <1>3, <1>4, <1>5, <1>6, <1>7, <1>8, <1>10, <1>12 DEF Replied
<1> QED BY <1>9, <1>13, <1>15 DEF Y, cmd

\* An ACL packet.
LEMMA AclSteady ==
    ASSUME NEW X, Sound(X), Settled(X), X.hci.decline = HostAddr, X.l2cap.next_cid < 65535, NEW p
    PROVE  LET Y == acl_handler(X, p)
           IN  /\ Steady(X, Y) /\ Leaves(X, Y)
               /\ ~connection_for_handle(X) => Y.usb.bulkOut = X.usb.bulkOut
<1> DEFINE conn(r) == [X.hci.conn EXCEPT !.recombination = r]
           hci(r) == [X.hci EXCEPT !.conn = conn(r)]
           W(r) == [X EXCEPT !.hci = hci(r)]
           T == AclState(X, p)
           U == l2cap_acl_handler(T, AclPacket(X, p))
           Y == acl_handler(X, p)
<1>0. IsStack(X)
  BY DEF Sound, Bare
<1>1. CASE ~AclTaken(X, p)
  <2>1. Y = X
    BY <1>1 DEF acl_handler
  <2> QED BY <2>1, HandledIsOrder, SteadyAfter
<1>2. CASE AclTaken(X, p)
  <2>1. HasConn(X)
    BY <1>2 DEF AclTaken, connection_for_handle, HasConn
  <2>2. T \in {X, W(p.pdu), W(NONE)}
    <3>1. [X EXCEPT !.hci.conn.recombination = p.pdu] = W(p.pdu)
      BY <1>0, <2>1 DEF IsStack
    <3>2. [X EXCEPT !.hci.conn.recombination = NONE] = W(NONE)
      BY <1>0, <2>1 DEF IsStack
    <3> QED BY <3>1, <3>2 DEF AclState
  <2>3. ASSUME NEW r
        PROVE  Handled(X, W(r))
    <3>1. /\ DOMAIN conn(r) = {"cmd", "addr", "state", "open", "sent", "recombination"}
          /\ conn(r).cmd = "CONN" /\ conn(r).addr = X.hci.conn.addr
          /\ conn(r).state = X.hci.conn.state /\ conn(r).open = X.hci.conn.open
          /\ conn(r).sent = X.hci.conn.sent
      BY <1>0, <2>1 DEF IsStack
    <3> HIDE DEF conn
    <3>2. conn(r) # NONE
      BY <3>1 DEF NONE
    <3>3. /\ DOMAIN hci(r) = DOMAIN X.hci /\ hci(r).conn = conn(r) /\ hci(r).num_cmd = X.hci.num_cmd
          /\ hci(r).overrun = X.hci.overrun /\ hci(r).total_acl = X.hci.total_acl /\ hci(r).decline = X.hci.decline
          /\ hci(r).discoverable = X.hci.discoverable /\ hci(r).scan = X.hci.scan
          /\ hci(r).state = X.hci.state /\ hci(r).substate = X.hci.substate
      BY <1>0 DEF IsStack
    <3> HIDE DEF hci
    <3>4. Below(X, W(r)) /\ W(r).usb = X.usb /\ W(r).hci = hci(r)
      BY <1>0, <3>1, <3>3, HciChange
    <3> HIDE DEF W
    <3>5. SameHci(X, W(r)) /\ SameConn(X, W(r))
      BY <2>1, <3>1, <3>2, <3>3, <3>4 DEF SameHci, SameConn, HasConn
    <3>6. Counted(X, W(r))
      BY <2>1, <3>1, <3>3, <3>4 DEF Counted
    <3>7. Low(X, W(r))
      BY <3>4, <3>5, <3>6 DEF Low
    <3>8. Sound(W(r))
      BY <3>4, <3>5, BelowIsSound DEF SameConn, connection_for_handle, HasConn
    <3> QED BY <3>7, <3>8 DEF Handled
  <2>4. Handled(X, T)
    BY <2>2, <2>3, HandledIsOrder
  <2>5. T.l2cap = X.l2cap
    BY <1>0, <2>2 DEF IsStack
  <2>6. Y = hci_run(T) \/ Y = hci_run(U)
    BY <1>2 DEF acl_handler
  <2> HIDE DEF T
  <2>7. Handled(T, U)
    BY <2>4, <2>5, AclHandled DEF Handled
  <2>8. Handled(X, U)
    BY <2>4, <2>7, HandledIsOrder
  <2> HIDE DEF U, Y
  <2> QED BY <2>4, <2>6, <2>8, SteadyAfter DEF Y
<1> QED BY <1>1, <1>2

----------------------------------------------------------------------------
(* The initialisation.  No connection is there while it goes on, and       *)
(* hci_run always has the next command to send.                            *)

Going(X) ==
    /\ X.hci.state \in {"INITIALIZING", "WORKING"}
    /\ X.hci.state = "INITIALIZING" =>
        /\ X.hci.substate \in {0} \union (5 .. 14)
        /\ X.hci.num_cmd = 1 => X.hci.substate % 2 = 0
    /\ HasScan(X) => X.hci.scan.cmd = "WRITE_SCAN_ENABLE"

Booting(X) ==
    /\ Going(X)
    /\ X.hci.state = "WORKING" /\ X.hci.num_cmd = 1 => X.hci.discoverable

Waits(X) == CanSendCommand(X) => Settled(X)

\* The name of the device is the last command but that of the scan.
Unnamed(X) == X.hci.state = "WORKING" /\ ~X.hci.discoverable

ForPhones == {"ACCEPT", "LINK_KEY_NEGATIVE", "PIN_CODE"}

StartSent(X, Y) ==
    /\ X.usb.ctrlOut = NONE /\ X.hci.num_cmd = 1
    /\ Y.usb.ctrlOut # NONE /\ Y.usb.ctrlOut.cmd \notin ForPhones
    /\ Y.usb.buffer = Y.usb.ctrlOut
    /\ Y.hci.num_cmd = 0
    /\ ~X.hci.overrun => ~Y.hci.overrun
    /\ Unnamed(Y) => Y.usb.ctrlOut.cmd = "WRITE_LOCAL_NAME"

Starts(X) ==
    /\ IsStack(X) /\ X.hci.decline = HostAddr /\ ~HasConn(X)
    /\ Booting(X)
    /\ X.hci.num_cmd \in {0, 1}

LEMMA WaitsRests ==
    ASSUME NEW X, IsStack(X), X.hci.decline = HostAddr, Waits(X)
    PROVE  hci_run(X) = X
<1>1. CASE ~CanSendCommand(X)
  BY <1>1 DEF hci_run
<1>2. CASE Settled(X)
  BY <1>2, SettledRests
<1> QED BY <1>1, <1>2 DEF Waits

LEMMA InitCommands ==
    ASSUME NEW X, X.hci.substate \in {0, 6, 8, 10, 12}
    PROVE  /\ InitCommand(X).cmd \notin ForPhones \union {"NONE"}
           /\ AfterCommand(X.hci.substate) \in 5 .. 14
<1>1. InitCommand(X).cmd \in {"RESET", "READ_BD_ADDR", "READ_BUFFER_SIZE",
                              "WRITE_PAGE_TIMEOUT", "WRITE_SCAN_ENABLE"}
  BY DEF InitCommand, ScanCommand
<1>2. AfterCommand(X.hci.substate) \in 5 .. 14
  BY DEF AfterCommand
<1> QED BY <1>1, <1>2 DEF ForPhones

LEMMA StartRuns ==
    ASSUME NEW X, Starts(X)
    PROVE  LET Y == hci_run(X)
           IN  /\ Starts(Y) /\ Waits(Y) /\ Below(X, Y)
               /\ Y.usb.bulkOut = X.usb.bulkOut /\ Y.hci.total_acl = X.hci.total_acl
               /\ Y = X \/ StartSent(X, Y)
<1> DEFINE Y == hci_run(X)
<1>1. \/ Y = X /\ (~CanSendCommand(X) \/ Rests(X))
      \/ /\ CanSendCommand(X)
         /\ SendsScan(X, Y) \/ SendsAccept(X, Y) \/ SendsName(X, Y) \/ SendsInit(X, Y)
  BY RunIs DEF Starts
<1> HIDE DEF Y
<1>2. CASE Y = X /\ (~CanSendCommand(X) \/ Rests(X))
  <2>1. CanSendCommand(X) /\ Rests(X) => Settled(X)
    BY DEF Starts, Booting, Going, CanSendCommand, Rests, Settled, HasScan
  <2> QED BY <1>2, <2>1, BelowIsOrder DEF Starts, Waits, Y
<1>3. CASE CanSendCommand(X) /\ (SendsScan(X, Y) \/ SendsAccept(X, Y) \/ SendsName(X, Y) \/ SendsInit(X, Y))
  <2>1. X.usb.ctrlOut = NONE /\ X.hci.num_cmd = 1
    BY <1>3 DEF CanSendCommand, Starts
  <2>2. ~Accepts(X)
    BY DEF Starts, Accepts, HasConn
  <2>3. X.hci.state = "WORKING" => X.hci.discoverable
    BY <2>1 DEF Starts, Booting, Going
  <2>4. X.hci.state = "INITIALIZING" => X.hci.substate \in {0, 6, 8, 10, 12, 14}
    BY <2>1 DEF Starts, Booting, Going
  <2>5. ASSUME NEW c, Commanded(X, Y, c), c.cmd \notin ForPhones \union {"NONE"},
               Unnamed(Y) => c.cmd = "WRITE_LOCAL_NAME",
               Y.hci.state \in {"INITIALIZING", "WORKING"},
               Y.hci.state = "INITIALIZING" => Y.hci.substate \in {0} \union (5 .. 14),
               HasScan(Y) => Y.hci.scan.cmd = "WRITE_SCAN_ENABLE"
        PROVE  /\ Starts(Y) /\ Waits(Y) /\ Below(X, Y) /\ Y.usb.bulkOut = X.usb.bulkOut /\ StartSent(X, Y)
               /\ Y.hci.total_acl = X.hci.total_acl
    <3>1. c # NONE
      BY <2>5 DEF NONE
    <3>2. Y.hci.num_cmd = 0
      BY <2>1, <2>5 DEF Commanded
    <3>3. ~X.hci.overrun => ~Y.hci.overrun
      <4>1. Y.hci.overrun = (X.hci.overrun \/ X.hci.num_cmd = 0)
        BY <2>5 DEF Commanded
      <4>2. X.hci.num_cmd # 0
        BY <2>1
      <4> QED BY <4>1, <4>2
    <3>4. /\ Below(X, Y) /\ Y.usb.ctrlOut = c /\ Y.usb.buffer = c /\ Y.usb.bulkOut = X.usb.bulkOut
          /\ Y.hci.decline = X.hci.decline /\ (HasConn(Y) <=> HasConn(X))
          /\ Y.hci.total_acl = X.hci.total_acl
      BY <2>5 DEF Commanded, SameCount
    <3>5. Starts(Y)
      BY <2>5, <3>2, <3>4 DEF Starts, Booting, Going, Below
    <3>6. Waits(Y)
      BY <3>1, <3>4 DEF Waits, CanSendCommand
    <3> QED BY <2>1, <2>5, <3>1, <3>2, <3>3, <3>4, <3>5, <3>6 DEF StartSent
  <2>6. CASE SendsScan(X, Y)
    <3> DEFINE c == X.hci.scan
    <3>1. Commanded(X, Y, c) /\ c.cmd = "WRITE_SCAN_ENABLE"
      BY <2>6 DEF SendsScan, Starts, Booting, Going
    <3>2. /\ Y.hci.scan = NONE /\ Y.hci.state = X.hci.state /\ Y.hci.substate = X.hci.substate
          /\ Y.hci.discoverable = X.hci.discoverable
      BY <2>6 DEF SendsScan, Commanded
    <3> HIDE DEF c
    <3>3. ~Unnamed(Y) /\ ~HasScan(Y)
      BY <2>3, <3>2 DEF Unnamed, HasScan
    <3>4. c.cmd \notin ForPhones \union {"NONE"}
      BY <3>1 DEF ForPhones
    <3>5. /\ Y.hci.state \in {"INITIALIZING", "WORKING"}
          /\ Y.hci.state = "INITIALIZING" => Y.hci.substate \in {0} \union (5 .. 14)
      BY <3>2 DEF Starts, Booting, Going
    <3> QED BY <2>5, <3>1, <3>3, <3>4, <3>5 DEF Y
  <2>7. CASE SendsName(X, Y)
    <3>1. PICK c : c.cmd = "WRITE_LOCAL_NAME" /\ Commanded(X, Y, c)
      BY <2>7 DEF SendsName
    <3>2. Y.hci.state = "WORKING" /\ ~HasScan(Y)
      BY <2>7 DEF SendsName, HasScan
    <3>3. c.cmd \notin ForPhones \union {"NONE"}
      BY <3>1 DEF ForPhones
    <3> QED BY <2>5, <3>1, <3>2, <3>3 DEF Y
  <2>8. CASE SendsInit(X, Y)
    <3> DEFINE c == InitCommand(X)
    <3>1. /\ Commanded(X, Y, c) /\ X.hci.state = "INITIALIZING"
          /\ Y.hci.state = X.hci.state /\ ~HasScan(Y)
          /\ Y.hci.substate = AfterCommand(X.hci.substate)
      BY <2>8 DEF SendsInit, HasScan
    <3>2. X.hci.substate \in {0, 6, 8, 10, 12}
      BY <2>4, <2>8 DEF SendsInit
    <3>3. c.cmd \notin ForPhones \union {"NONE"} /\ Y.hci.substate \in 5 .. 14
      BY <3>1, <3>2, InitCommands
    <3> HIDE DEF c
    <3>4. ~Unnamed(Y)
      BY <3>1 DEF Unnamed
    <3> QED BY <2>5, <3>1, <3>3, <3>4 DEF Y
  <2> QED BY <1>3, <2>2, <2>6, <2>7, <2>8 DEF SendsAccept
<1> QED BY <1>1, <1>2, <1>3

\* What an event leaves while the device starts: one command more is on its
\* way, or none could be sent.
StartLeft(X, Y, e) ==
    \/ /\ Y.usb.ctrlOut = X.usb.ctrlOut
       /\ Y.hci.overrun = X.hci.overrun
       /\ Y.hci.num_cmd = IF IsCompletion(e) THEN 1 ELSE X.hci.num_cmd
       /\ ~IsCompletion(e) => (Unnamed(Y) <=> Unnamed(X))
    \/ \E Z : /\ StartSent(Z, Y)
              /\ Z.usb.ctrlOut = X.usb.ctrlOut
              /\ Z.hci.overrun = X.hci.overrun
              /\ Z.hci.num_cmd = IF IsCompletion(e) THEN 1 ELSE X.hci.num_cmd

LEMMA StartGoesOn ==
    ASSUME NEW X, Sound(X), Starts(X)
    PROVE  LET Y == hci_run(X)
           IN  /\ Sound(Y) /\ Starts(Y) /\ Waits(Y) /\ hci_run(Y) = Y
               /\ Y.usb.bulkOut = X.usb.bulkOut /\ Y.hci.total_acl = X.hci.total_acl
               /\ Y = X \/ StartSent(X, Y)
<1> DEFINE Y == hci_run(X)
<1>1. /\ Starts(Y) /\ Waits(Y) /\ Below(X, Y) /\ Y.usb.bulkOut = X.usb.bulkOut /\ Y.hci.total_acl = X.hci.total_acl
      /\ Y = X \/ StartSent(X, Y)
  BY StartRuns
<1> HIDE DEF Y
<1>2. Sound(Y)
  BY <1>1, BelowIsSound DEF Starts, connection_for_handle, HasConn
<1>3. hci_run(Y) = Y
  BY <1>1, WaitsRests DEF Starts
<1> QED BY <1>1, <1>2, <1>3 DEF Y

\* When the device has its name it is made discoverable.
LEMMA Named ==
    ASSUME NEW X, Sound(X), Going(X), X.hci.decline = HostAddr, ~HasConn(X),
           X.hci.num_cmd \in {0, 1}, ~X.hci.discoverable
    PROVE  \E Z : /\ Sound(Z) /\ Starts(Z) /\ Z.usb = X.usb
                  /\ Z.hci.overrun = X.hci.overrun /\ Z.hci.num_cmd = X.hci.num_cmd
                  /\ Z.hci.total_acl = X.hci.total_acl
                  /\ hci_discoverable_control(X) = hci_run(Z)
<1> DEFINE D == [X EXCEPT !.hci.discoverable = TRUE]
           scan == ScanCommand(D)
           hci == [X.hci EXCEPT !.discoverable = TRUE, !.scan = scan]
           Z == [X EXCEPT !.hci = hci]
<1>0. IsStack(X)
  BY DEF Sound, Bare
<1>1. [D EXCEPT !.hci.scan = scan] = Z
  BY <1>0 DEF IsStack
<1>2. hci_discoverable_control(X) = hci_run(Z)
  BY <1>1 DEF hci_discoverable_control, hci_update_scan_enable
<1>3. scan.cmd = "WRITE_SCAN_ENABLE"
  BY DEF ScanCommand
<1> HIDE DEF scan
<1>4. /\ DOMAIN hci = DOMAIN X.hci /\ hci.conn = X.hci.conn /\ hci.num_cmd = X.hci.num_cmd
      /\ hci.overrun = X.hci.overrun /\ hci.total_acl = X.hci.total_acl /\ hci.decline = X.hci.decline
      /\ hci.discoverable = TRUE /\ hci.scan = scan
      /\ hci.state = X.hci.state /\ hci.substate = X.hci.substate
  BY <1>0 DEF IsStack
<1> HIDE DEF hci
<1>5. Below(X, Z) /\ Z.usb = X.usb /\ Z.hci = hci
  BY <1>0, <1>4, HciChange DEF HasConn
<1> HIDE DEF Z
<1>6. Starts(Z)
  BY <1>3, <1>4, <1>5 DEF Starts, Booting, Going, HasConn, HasScan, Below
<1>7. Sound(Z)
  BY <1>5, BelowIsSound DEF connection_for_handle, HasConn
<1> QED BY <1>2, <1>4, <1>5, <1>6, <1>7

LEMMA StartStep ==
    ASSUME NEW X, Sound(X), X.hci.decline = HostAddr, ~HasConn(X), Booting(X),
           X.hci.num_cmd \in {0, 1},
           NEW e, IsFair(X, e),
           \/ e.ev = "PACKET_SENT"
           \/ /\ e.ev = "COMMAND_COMPLETE" /\ e.num = 1
              /\ X.hci.num_cmd = 0
              /\ Unnamed(X) => e.cmd = "WRITE_LOCAL_NAME"
    PROVE  LET Y == event_handler(X, e)
           IN  /\ Sound(Y) /\ Starts(Y) /\ Waits(Y)
               /\ Y.usb.bulkOut = X.usb.bulkOut
               /\ StartLeft(X, Y, e)
               /\ Y.hci.total_acl \in {X.hci.total_acl, e.total}
<1> DEFINE num == IF IsCompletion(e) THEN 1 ELSE X.hci.num_cmd
           T == HciEvent(X, e)
           U == L2capEvent(T, e)
           P == PacketHandler(U, e)
           Y == event_handler(X, e)
<1>1. Noted(X, T, e)
  BY HciNotes DEF Sound, Bare
<1>2. Shutdown(T, e) = T
  BY DEF Shutdown
<1>3. Y = hci_run(P)
  BY <1>2 DEF event_handler
<1> HIDE DEF T
<1>4. Sound(T)
  BY <1>1, NotedIsSound
<1>5. Handled(T, U)
  BY <1>4, HeardAbove
<1>6. PacketHandler(U, e) = IF IsCompletion(e) /\ e.cmd = "WRITE_LOCAL_NAME"
                            THEN hci_discoverable_control(U) ELSE U
  BY DEF PacketHandler, IsCompletion
<1> HIDE DEF U, P, Y
<1>7. ~connection_for_handle(T) /\ ~HasConn(T)
  BY <1>1 DEF Noted, connection_for_handle, HasConn
<1>8. /\ Sound(U) /\ U.usb.ctrlOut = X.usb.ctrlOut /\ U.usb.bulkOut = X.usb.bulkOut
      /\ SameHci(T, U) /\ ~HasConn(U)
  BY <1>1, <1>5, <1>7 DEF Handled, Low, SameConn, Noted
<1>9. /\ U.hci.overrun = X.hci.overrun /\ U.hci.num_cmd = num /\ U.hci.decline = HostAddr
      /\ U.hci.state = X.hci.state /\ U.hci.discoverable = X.hci.discoverable
      /\ U.hci.scan = X.hci.scan
      /\ U.hci.substate = T.hci.substate
      /\ U.hci.total_acl \in {X.hci.total_acl, e.total}
  BY <1>1, <1>5, <1>8 DEF SameHci, Noted, IsCompletion, Handled, Low, Counted
<1>10. X.hci.state = "INITIALIZING" =>
         /\ U.hci.substate \in {0} \union (5 .. 14)
         /\ U.hci.num_cmd = 1 => U.hci.substate % 2 = 0
  <2>1. CASE e.ev = "PACKET_SENT"
    <3>1. T.hci.substate = X.hci.substate /\ num = X.hci.num_cmd
      BY <1>1, <2>1 DEF Noted, IsCompletion
    <3> QED BY <1>9, <3>1 DEF Booting, Going
  <2>2. CASE e.ev = "COMMAND_COMPLETE"
    <3>1. T.hci.substate = IF X.hci.state = "INITIALIZING" /\ X.hci.substate % 2 = 1
                           THEN X.hci.substate + 1 ELSE X.hci.substate
      BY <1>1, <2>2 DEF Noted
    <3>2. X.hci.state = "INITIALIZING" => X.hci.substate \in {0} \union (5 .. 14)
      BY DEF Booting, Going
    <3>3. X.hci.state = "INITIALIZING" =>
            U.hci.substate \in {0} \union (5 .. 14) /\ U.hci.substate % 2 = 0
      BY <1>9, <3>1, <3>2
    <3> QED BY <3>3
  <2> QED BY <2>1, <2>2
<1>11. num \in {0, 1}
  OBVIOUS
<1>12. Going(U)
  BY <1>8, <1>9, <1>10 DEF Booting, Going, HasScan
<1>13. \E Z : /\ Sound(Z) /\ Starts(Z) /\ Z.usb = U.usb
              /\ Z.hci.overrun = U.hci.overrun /\ Z.hci.num_cmd = U.hci.num_cmd
              /\ Z.hci.total_acl = U.hci.total_acl
              /\ P = Z \/ P = hci_run(Z)
              /\ ~IsCompletion(e) => Z = U
  <2>1. CASE IsCompletion(e) /\ e.cmd = "WRITE_LOCAL_NAME" /\ ~U.hci.discoverable
    <3>1. PICK Z : /\ Sound(Z) /\ Starts(Z) /\ Z.usb = U.usb
                   /\ Z.hci.overrun = U.hci.overrun /\ Z.hci.num_cmd = U.hci.num_cmd
                   /\ Z.hci.total_acl = U.hci.total_acl
                   /\ hci_discoverable_control(U) = hci_run(Z)
      BY <1>8, <1>9, <1>11, <1>12, <2>1, Named
    <3> QED BY <1>6, <2>1, <3>1 DEF P
  <2>2. CASE ~(IsCompletion(e) /\ e.cmd = "WRITE_LOCAL_NAME" /\ ~U.hci.discoverable)
    <3>1. P = U
      BY <1>6, <2>2 DEF P, hci_discoverable_control
    <3>2. U.hci.state = "WORKING" /\ U.hci.num_cmd = 1 => U.hci.discoverable
      <4>1. CASE e.ev = "PACKET_SENT"
        BY <1>9, <4>1 DEF Booting, IsCompletion
      <4>2. CASE e.ev = "COMMAND_COMPLETE" /\ e.cmd = "WRITE_LOCAL_NAME"
        BY <2>2, <4>2 DEF IsCompletion
      <4>3. CASE e.ev = "COMMAND_COMPLETE" /\ e.cmd # "WRITE_LOCAL_NAME"
        BY <1>9, <4>3 DEF Unnamed
      <4> QED BY <4>1, <4>2, <4>3
    <3>3. Booting(U)
      BY <1>12, <3>2 DEF Booting
    <3>4. Starts(U)
      BY <1>8, <1>9, <1>11, <3>3 DEF Starts, Sound, Bare
    <3> QED BY <1>8, <3>1, <3>4
  <2> QED BY <2>1, <2>2
<1>14. PICK Z : /\ Sound(Z) /\ Starts(Z) /\ Z.usb = U.usb
                /\ Z.hci.overrun = U.hci.overrun /\ Z.hci.num_cmd = U.hci.num_cmd
                /\ Z.hci.total_acl = U.hci.total_acl
                /\ P = Z \/ P = hci_run(Z)
                /\ ~IsCompletion(e) => Z = U
  BY <1>13
<1>15. /\ Sound(Y) /\ Starts(Y) /\ Waits(Y) /\ Y.usb.bulkOut = Z.usb.bulkOut /\ Y.hci.total_acl = Z.hci.total_acl
       /\ Y = Z \/ StartSent(Z, Y)
  <2> DEFINE R == hci_run(Z)
  <2>1. /\ Sound(R) /\ Starts(R) /\ Waits(R) /\ hci_run(R) = R /\ R.usb.bulkOut = Z.usb.bulkOut
        /\ R.hci.total_acl = Z.hci.total_acl
        /\ R = Z \/ StartSent(Z, R)
    BY <1>14, StartGoesOn
  <2>2. Y = R
    BY <1>3, <1>14, <2>1
  <2> QED BY <2>1, <2>2
<1>18. Y.hci.total_acl \in {X.hci.total_acl, e.total}
  BY <1>9, <1>14, <1>15
<1>16. CASE Y = Z
  <2>1. /\ Y.usb.ctrlOut = X.usb.ctrlOut /\ Y.hci.overrun = X.hci.overrun /\ Y.hci.num_cmd = num
    BY <1>8, <1>9, <1>14, <1>16
  <2>2. ~IsCompletion(e) => (Unnamed(Y) <=> Unnamed(X))
    BY <1>9, <1>14, <1>16 DEF Unnamed
  <2> QED BY <1>8, <1>14, <1>15, <1>18, <2>1, <2>2 DEF StartLeft, Y
<1>17. CASE StartSent(Z, Y)
  <2>1. StartLeft(X, Y, e)
    BY <1>8, <1>9, <1>14, <1>17 DEF StartLeft
  <2> QED BY <1>8, <1>14, <1>15, <1>18, <2>1 DEF Y
<1> QED BY <1>15, <1>16, <1>17

LEMMA Begins ==
    /\ Sound(BTInit) /\ Starts(BTInit) /\ Waits(BTInit)
    /\ ~BTInit.hci.overrun /\ BTInit.hci.num_cmd = 0
    /\ BTInit.usb.ctrlOut # NONE /\ BTInit.usb.ctrlOut.cmd \notin ForPhones
    /\ BTInit.usb.buffer = BTInit.usb.ctrlOut
    /\ BTInit.usb.bulkOut = NONE /\ BTInit.hci.total_acl = 0
    /\ Unnamed(BTInit) => BTInit.usb.ctrlOut.cmd = "WRITE_LOCAL_NAME"
<1> DEFINE Blank == [usb |-> UsbInit, hci |-> HciInit, l2cap |-> L2capInit,
                     rfcomm |-> RfcommInit, sdp |-> SdpInit, app |-> AppInit]
           On1 == [Blank EXCEPT !.hci.connectable = TRUE]
           scan == ScanCommand(On1)
           Off1 == [On1 EXCEPT !.hci.scan = scan]
           X == [Off1 EXCEPT !.hci.num_cmd = 1, !.hci.state = "INITIALIZING", !.hci.substate = 0]
           Y == hci_run(X)
           Fields(Z) ==
              /\ DOMAIN Z = {"usb", "hci", "l2cap", "rfcomm", "sdp", "app"}
              /\ Z.usb = UsbInit /\ Z.l2cap = L2capInit
              /\ Z.rfcomm = RfcommInit /\ Z.sdp = SdpInit /\ Z.app = AppInit
              /\ DOMAIN Z.hci = {"state", "substate", "num_cmd", "total_acl", "conn", "decline",
                                 "scan", "discoverable", "connectable", "overrun"}
              /\ Z.hci.conn = NONE /\ Z.hci.decline = HostAddr /\ Z.hci.overrun = FALSE
              /\ Z.hci.total_acl = 0
<1>1. hci_connectable_control(Blank) = hci_run(Off1)
  BY DEF hci_connectable_control, hci_update_scan_enable, HciInit
<1>2. scan.cmd = "WRITE_SCAN_ENABLE"
  BY DEF ScanCommand
<1>14. Fields(Blank) /\ Blank.hci.num_cmd = 0
  BY DEF HciInit
<1> HIDE DEF scan, Blank
<1>15. Fields(On1) /\ On1.hci.num_cmd = 0
  BY <1>14
<1> HIDE DEF On1
<1>16. Fields(Off1) /\ Off1.hci.num_cmd = 0 /\ Off1.hci.scan = scan
  BY <1>15
<1> HIDE DEF Off1
<1>17. hci_run(Off1) = Off1
  BY <1>16 DEF hci_run, CanSendCommand
<1>18. BTInit = Y
  BY <1>1, <1>17 DEF BTInit, hci_power_on, Blank
<1>3. /\ Fields(X) /\ X.hci.scan = scan
      /\ X.hci.state = "INITIALIZING" /\ X.hci.substate = 0 /\ X.hci.num_cmd = 1
  BY <1>16
<1> HIDE DEF X, Y
<1>4. X.usb = UsbInit /\ X.l2cap = L2capInit /\ X.rfcomm = RfcommInit /\ X.sdp = SdpInit /\ X.app = AppInit
  BY <1>3
<1>5. Chans(X) = <<>> /\ DOMAIN Chans(X) = {} /\ IsChannelList(Chans(X))
  BY <1>4 DEF Chans, L2capInit, IsChannelList, IsList
<1>6. Cids(X) = {}
  BY <1>5 DEF Cids, Chans
<1>7. ~HasConn(X) /\ ~HasMux(X) /\ ~HasChannel(X)
  BY <1>3, <1>4 DEF HasConn, HasMux, HasChannel, RfcommInit
<1>8. IsStack(X)
  BY <1>3, <1>4, <1>5, <1>7 DEF IsStack, UsbInit, L2capInit, RfcommInit, SdpInit, AppInit
<1>9. Sound(X)
  BY <1>4, <1>6, <1>7, <1>8 DEF Sound, Bare, ListOk, SdpOk, MuxOk, AppOk, ConnOk,
                               L2capInit, SdpInit, AppInit
<1>10. Starts(X)
  BY <1>2, <1>3, <1>4, <1>7, <1>8 DEF Starts, Booting, Going
<1>11. CanSendCommand(X) /\ ~Settled(X)
  BY <1>3, <1>4 DEF CanSendCommand, Settled, UsbInit
<1>12. /\ Sound(Y) /\ Starts(Y) /\ Waits(Y) /\ Y.usb.bulkOut = X.usb.bulkOut /\ Y.hci.total_acl = X.hci.total_acl
       /\ Y = X \/ StartSent(X, Y)
  BY <1>9, <1>10, StartGoesOn DEF Y
<1>13. StartSent(X, Y)
  BY <1>11, <1>12 DEF Waits
<1> QED BY <1>18, <1>3, <1>4, <1>12, <1>13 DEF StartSent, UsbInit

\* What the application does without the stack's sending anything.
LEMMA OnlyApp ==
    ASSUME NEW X, Sound(X)
    PROVE  /\ Handled(X, BTGrant(X)) /\ BTGrant(X).usb = X.usb /\ BTGrant(X).hci = X.hci
           /\ Handled(X, BTClose(X)) /\ BTClose(X).usb = X.usb /\ BTClose(X).hci = X.hci
<1>1. Handled(X, BTGrant(X)) /\ Handled(X, BTClose(X))
  BY Granting, Closing, KeepsIsOrder, HandledIsOrder DEF Sound, Bare
<1>2. BTGrant(X).usb = X.usb /\ BTGrant(X).hci = X.hci
  BY DEF BTGrant, Sound, Bare, IsStack
<1>3. BTClose(X).usb = X.usb /\ BTClose(X).hci = X.hci
  BY DEF BTClose, EnterState, Sound, Bare, IsStack
<1> QED BY <1>1, <1>2, <1>3

LEMMA WriteIsSteady ==
    ASSUME NEW X, Sound(X), Settled(X), X.hci.decline = HostAddr, NEW data
    PROVE  Steady(X, BTWrite(X, data)) /\ Leaves(X, BTWrite(X, data))
<1>1. Handled(X, BTWrite(X, data))
  BY Writing, KeepsIsOrder, HandledIsOrder DEF Sound, Bare
<1> QED BY <1>1, SteadyAfter

LEMMA WriteNeedsConnection ==
    ASSUME NEW X, Sound(X), BTCanWrite(X)
    PROVE  connection_for_handle(X)
<1>1. X.rfcomm.mux.l2cap_cid \in Cids(X)
  BY DEF BTCanWrite, rfcomm_can_send, MuxCanSend, l2cap_can_send_packet_now
<1> QED BY <1>1 DEF Sound, Bare, ConnOk

----------------------------------------------------------------------------
(* The queue of events: an answer to a command is first in it, and what    *)
(* the stack answers to with a command is last.                            *)

IsLast(e) == e.ev \in {"CONNECTION_REQUEST", "LINK_KEY_REQUEST", "PIN_CODE_REQUEST",
                       "DISCONNECTION_COMPLETE"}

In(q) == {q[i] : i \in DOMAIN q}

IsEvent(e) ==
    /\ e.ev \in Ordinary \/ IsLast(e)
    /\ e.ok = TRUE /\ e.addr = Phone
    /\ IsCompletion(e) => e.num = 1

QueueOk(q) ==
    /\ IsList(q)
    /\ \A i \in DOMAIN q :
        /\ IsEvent(q[i])
        /\ IsCompletion(q[i]) => i = 1
        /\ IsLast(q[i]) => i = Len(q)

LEMMA HeadAndTail ==
    ASSUME NEW q, QueueOk(q), q # <<>>
    PROVE  /\ QueueOk(Tail(q))
           /\ IsEvent(Head(q)) /\ In(q) = In(Tail(q)) \union {Head(q)}
           /\ \A e \in In(Tail(q)) : ~IsCompletion(e) /\ IsEvent(e)
           /\ IsLast(Head(q)) => Tail(q) = <<>>
           /\ Tail(q) # <<>> => ~IsCompletion(Head(Tail(q)))
<1> DEFINE n == Len(q)
           t == Tail(q)
           Elems == {q[i] : i \in DOMAIN q}
<1>1. n \in Nat /\ DOMAIN q = 1 .. n /\ q \in Seq(Elems)
  BY ListBasics DEF QueueOk, IsList
<1> HIDE DEF Elems
<1>2. n # 0
  BY <1>1
<1>3. /\ t \in Seq(Elems) /\ Len(t) = n - 1 /\ DOMAIN t = 1 .. n - 1
      /\ \A i \in 1 .. n - 1 : t[i] = q[i + 1]
      /\ Head(q) = q[1]
  BY <1>1, <1>2
<1> HIDE DEF n, t
<1>4. IsList(t)
  <2>1. t = [i \in 1 .. n - 1 |-> t[i]] /\ n - 1 \in Nat
    BY <1>1, <1>2, <1>3
  <2> QED BY <2>1, ListIs
<1>5. \A i \in DOMAIN t : i + 1 \in DOMAIN q /\ t[i] = q[i + 1] /\ i + 1 # 1 /\ i \in Int
  BY <1>1, <1>3
<1>6. \A i \in DOMAIN t : IsEvent(t[i]) /\ ~IsCompletion(t[i]) /\ (IsLast(t[i]) => i + 1 = n)
  BY <1>5 DEF QueueOk, n
<1>7. QueueOk(t)
  BY <1>1, <1>3, <1>4, <1>5, <1>6 DEF QueueOk
<1>8. \A i \in DOMAIN q : i = 1 \/ (i - 1 \in DOMAIN t /\ (i - 1) + 1 = i)
  BY <1>1, <1>3
<1>9. In(q) = In(t) \union {Head(q)}
  <2>1. \A x \in In(q) : x \in In(t) \union {Head(q)}
    BY <1>3, <1>5, <1>8 DEF In
  <2>2. \A x \in In(t) : x \in In(q)
    BY <1>5 DEF In
  <2>3. Head(q) \in In(q)
    BY <1>1, <1>2, <1>3 DEF In
  <2> QED BY <2>1, <2>2, <2>3
<1>10. \A e \in In(t) : ~IsCompletion(e) /\ IsEvent(e)
  BY <1>6 DEF In
<1>11. IsEvent(Head(q)) /\ (IsLast(Head(q)) => n = 1)
  BY <1>1, <1>2, <1>3 DEF QueueOk, n
<1>12. IsLast(Head(q)) => t = <<>>
  BY <1>3, <1>11
<1>13. t # <<>> => Head(t) \in In(t)
  <2>1. t # <<>> => Len(t) # 0
    BY <1>3
  <2>2. t # <<>> => 1 \in DOMAIN t /\ Head(t) = t[1]
    BY <1>1, <1>2, <1>3, <2>1
  <2> QED BY <2>2 DEF In
<1> QED BY <1>7, <1>9, <1>10, <1>11, <1>12, <1>13 DEF t

LEMMA HeadOfQueue ==
    ASSUME NEW q, QueueOk(q)
    PROVE  /\ \A e \in In(q) : IsEvent(e) /\ (IsCompletion(e) => q # <<>> /\ e = Head(q))
           /\ q = <<>> <=> In(q) = {}
<1>1. CASE q = <<>>
  <2>1. In(q) = {}
    BY <1>1 DEF In
  <2> QED BY <1>1, <2>1
<1>2. CASE q # <<>>
  BY <1>2, HeadAndTail
<1> QED BY <1>1, <1>2

LEMMA Queued ==
    ASSUME NEW q, QueueOk(q), \A x \in In(q) : ~IsLast(x),
           NEW e, IsEvent(e), IsCompletion(e) => q = <<>>
    PROVE  /\ QueueOk(Append(q, e)) /\ In(Append(q, e)) = In(q) \union {e}
           /\ Append(q, e) # <<>>
           /\ Head(Append(q, e)) = IF q = <<>> THEN e ELSE Head(q)
<1> DEFINE n == Len(q)
           a == Append(q, e)
           Elems == {q[i] : i \in DOMAIN q} \union {e}
<1>1. n \in Nat /\ DOMAIN q = 1 .. n /\ q = [i \in 1 .. n |-> q[i]]
  BY ListBasics DEF QueueOk
<1>2. q \in Seq(Elems) /\ e \in Elems
  BY <1>1
<1> HIDE DEF Elems
<1>3. /\ a \in Seq(Elems) /\ Len(a) = n + 1 /\ DOMAIN a = 1 .. n + 1
      /\ a[n + 1] = e /\ \A i \in 1 .. n : a[i] = q[i]
  BY <1>1, <1>2
<1>4. q = <<>> <=> n = 0
  BY <1>1, <1>2
<1>5. Head(a) = a[1] /\ (q # <<>> => Head(q) = q[1])
  BY <1>1, <1>2, <1>3, <1>4
<1> HIDE DEF n, a
<1>6. IsList(a)
  <2>1. a = [i \in 1 .. n + 1 |-> a[i]] /\ n + 1 \in Nat
    BY <1>1, <1>3
  <2> QED BY <2>1, ListIs
<1>7. \A i \in DOMAIN a : \/ i \in DOMAIN q /\ a[i] = q[i]
                          \/ i = n + 1 /\ a[i] = e
  BY <1>1, <1>3
<1>8. QueueOk(a)
  <2> SUFFICES ASSUME NEW i \in DOMAIN a
               PROVE  /\ IsEvent(a[i])
                      /\ IsCompletion(a[i]) => i = 1
                      /\ IsLast(a[i]) => i = Len(a)
    BY <1>6 DEF QueueOk
  <2>1. CASE i \in DOMAIN q /\ a[i] = q[i]
    <3>1. q[i] \in In(q)
      BY <2>1 DEF In
    <3> QED BY <2>1, <3>1 DEF QueueOk
  <2>2. CASE i = n + 1 /\ a[i] = e
    BY <1>3, <1>4, <2>2
  <2> QED BY <1>7, <2>1, <2>2
<1>9. In(a) = In(q) \union {e}
  <2>1. \A x \in In(a) : x \in In(q) \union {e}
    BY <1>7 DEF In
  <2>2. \A x \in In(q) : x \in In(a)
    BY <1>1, <1>3 DEF In
  <2>3. n + 1 \in DOMAIN a
    BY <1>1, <1>3
  <2>4. e \in In(a)
    BY <1>3, <2>3 DEF In
  <2> QED BY <2>1, <2>2, <2>4
<1>10. a # <<>>
  BY <1>1, <1>3
<1>11. Head(a) = IF q = <<>> THEN e ELSE Head(q)
  BY <1>1, <1>3, <1>4, <1>5
<1> QED BY <1>8, <1>9, <1>10, <1>11 DEF a

LEMMA EmptyQueue == QueueOk(<<>>) /\ In(<<>>) = {}
BY DEF QueueOk, IsList, In

\* What the controller answers to a command.
Answering(q, c) ==
    /\ QueueOk(q) /\ q # <<>> /\ IsCompletion(Head(q))
    /\ Head(q).ev = IF c.cmd = "ACCEPT" THEN "COMMAND_STATUS" ELSE "COMMAND_COMPLETE"
    /\ c.cmd # "ACCEPT" => Head(q).cmd = c.cmd
    /\ \A e \in In(q) :
          \/ e = Head(q)
          \/ c.cmd = "LINK_KEY_NEGATIVE" /\ e.ev = "PIN_CODE_REQUEST"
          \/ c.cmd = "PIN_CODE" /\ e.ev = "CONNECTION_COMPLETE"
    /\ c.cmd = "LINK_KEY_NEGATIVE" => \E e \in In(q) : e.ev = "PIN_CODE_REQUEST"
    /\ c.cmd = "PIN_CODE" => \E e \in In(q) : e.ev = "CONNECTION_COMPLETE"

LEMMA CommandAnswered ==
    ASSUME NEW c
    PROVE  Answering(EventsOf(c), c)
<1> DEFINE status == [Event("COMMAND_STATUS") EXCEPT !.num = 1]
           complete == Complete(c.cmd)
           pin == Event("PIN_CODE_REQUEST")
           opened == Event("CONNECTION_COMPLETE")
<1>1. /\ IsEvent(status) /\ IsCompletion(status) /\ ~IsLast(status) /\ status.ev = "COMMAND_STATUS"
      /\ IsEvent(complete) /\ IsCompletion(complete) /\ ~IsLast(complete)
      /\ complete.ev = "COMMAND_COMPLETE" /\ complete.cmd = c.cmd
      /\ IsEvent(pin) /\ ~IsCompletion(pin) /\ pin.ev = "PIN_CODE_REQUEST"
      /\ IsEvent(opened) /\ ~IsCompletion(opened) /\ opened.ev = "CONNECTION_COMPLETE"
  BY DEF Event, Complete, IsEvent, IsCompletion, IsLast, Ordinary
<1>2. /\ c.cmd = "ACCEPT" => EventsOf(c) = <<status>>
      /\ c.cmd = "LINK_KEY_NEGATIVE" => EventsOf(c) = <<complete, pin>>
      /\ c.cmd = "PIN_CODE" => EventsOf(c) = <<complete, opened>>
      /\ c.cmd \notin ForPhones => EventsOf(c) = <<complete>>
  BY DEF EventsOf, ForPhones
<1> HIDE DEF status, complete, pin, opened
<1>3. ASSUME NEW a, IsEvent(a), IsCompletion(a), ~IsLast(a)
      PROVE  QueueOk(<<a>>) /\ In(<<a>>) = {a} /\ <<a>> # <<>> /\ Head(<<a>>) = a
  <2> DEFINE none == <<>>
             one == <<a>>
  <2>1. one = Append(none, a)
    OBVIOUS
  <2>2. QueueOk(none) /\ In(none) = {}
    BY EmptyQueue
  <2>3. none = <<>>
    OBVIOUS
  <2> HIDE DEF none, one
  <2>4. QueueOk(one) /\ In(one) = {a} /\ one # <<>> /\ Head(one) = a
    BY <1>3, <2>1, <2>2, <2>3, Queued
  <2> QED BY <2>4 DEF one
<1>4. ASSUME NEW a, IsEvent(a), IsCompletion(a), ~IsLast(a), NEW b, IsEvent(b), ~IsCompletion(b)
      PROVE  QueueOk(<<a, b>>) /\ In(<<a, b>>) = {a, b} /\ <<a, b>> # <<>> /\ Head(<<a, b>>) = a
  <2> DEFINE one == <<a>>
             two == <<a, b>>
  <2>1. two = Append(one, b)
    OBVIOUS
  <2>2. QueueOk(one) /\ In(one) = {a} /\ one # <<>> /\ Head(one) = a
    BY <1>3, <1>4
  <2> HIDE DEF one, two
  <2>3. QueueOk(two) /\ In(two) = {a, b} /\ two # <<>> /\ Head(two) = a
    BY <1>4, <2>1, <2>2, Queued
  <2> QED BY <2>3 DEF two
<1>5. CASE c.cmd = "ACCEPT"
  BY <1>1, <1>2, <1>3, <1>5 DEF Answering
<1>6. CASE c.cmd = "LINK_KEY_NEGATIVE"
  BY <1>1, <1>2, <1>4, <1>6 DEF Answering
<1>7. CASE c.cmd = "PIN_CODE"
  BY <1>1, <1>2, <1>4, <1>7 DEF Answering
<1>8. CASE c.cmd \notin ForPhones
  BY <1>1, <1>2, <1>3, <1>8 DEF ForPhones, Answering
<1> QED BY <1>5, <1>6, <1>7, <1>8 DEF ForPhones

----------------------------------------------------------------------------
(* The phone, once its connection is there: what it hears never sets it    *)
(* back to before that.                                                    *)

Before == {"away", "paging", "accepted", "pairing"}

IsUp(ph) == "at" \in DOMAIN ph /\ ph.at \notin Before

LEMMA StaysUp ==
    ASSUME NEW ph, IsUp(ph), NEW pdu
    PROVE  IsUp(Hears(ph, pdu).ph)
<1>1. ASSUME NEW p, IsUp(p), NEW psm
      PROVE  IsUp(Uses(p, psm).ph)
  BY <1>1 DEF Uses, Stays, Sends, IsUp, Before
<1>2. ASSUME NEW p, NEW out
      PROVE  Sends(p, out).ph = p /\ Stays(p).ph = p
  BY DEF Sends, Stays
<1>3. ASSUME NEW step, DOMAIN step = {"ph", "out"}, NEW out
      PROVE  Also(step, out).ph = step.ph
  BY <1>3 DEF Also
<1>4. ASSUME NEW p, NEW psm
      PROVE  DOMAIN Uses(p, psm) = {"ph", "out"}
  BY DEF Uses, Stays, Sends
<1>5. ASSUME NEW m
      PROVE  IsUp(OnCommand(ph, m).ph)
  <2>1. CASE m.code = "CONNECTION_RESPONSE"
    BY <1>2, <2>1 DEF OnCommand, IsUp, Before
  <2>2. CASE m.code = "CONFIGURE_REQUEST"
    <3> DEFINE psm == PsmOf(m.dcid)
               p == [ph EXCEPT !.conf[psm] = @ \union {"sent"}]
    <3>1. \E out : OnCommand(ph, m) = Also(Uses(p, psm), out)
      BY <2>2, Zenon DEF OnCommand
    <3>2. IsUp(p)
      BY DEF IsUp
    <3> HIDE DEF p, psm
    <3> QED BY <1>1, <1>3, <1>4, <3>1, <3>2
  <2>3. CASE m.code = "CONFIGURE_RESPONSE"
    <3> DEFINE psm == PsmOf(m.scid)
               p == [ph EXCEPT !.conf[psm] = @ \union {"received"}]
    <3>1. OnCommand(ph, m) = Uses(p, psm)
      BY <2>3, Zenon DEF OnCommand
    <3>2. IsUp(p)
      BY DEF IsUp
    <3> HIDE DEF p, psm
    <3> QED BY <1>1, <3>1, <3>2
  <2>4. CASE m.code = "DISCONNECTION_REQUEST"
    <3> DEFINE p == [ph EXCEPT !.at = "finished"]
    <3>1. \E out : OnCommand(ph, m) = Sends(p, out)
      BY <2>4, Zenon DEF OnCommand
    <3>2. IsUp(p)
      BY DEF IsUp, Before
    <3> HIDE DEF p
    <3> QED BY <1>2, <3>1, <3>2
  <2>5. CASE m.code \notin {"CONNECTION_RESPONSE", "CONFIGURE_REQUEST", "CONFIGURE_RESPONSE",
                            "DISCONNECTION_REQUEST"}
    BY <1>2, <2>5 DEF OnCommand
  <2> QED BY <2>1, <2>2, <2>3, <2>4, <2>5
<1>6. ASSUME NEW a
      PROVE  IsUp(OnAnswer(ph, a).ph)
  <2> DEFINE n == ph.bytes + Len(a.body)
             lost == \/ ph.garbled
                     \/ n > Len(WholeAnswer)
                     \/ a.body # SubSeq(WholeAnswer, ph.bytes + 1, n)
             heard == [ph EXCEPT !.bytes = n, !.garbled = lost]
             p == [heard EXCEPT !.at = "rfcomm"]
  <2>1. IsUp(heard) /\ IsUp(p)
    BY DEF IsUp, Before
  <2>2. heard = [ph EXCEPT !.bytes = n,
                    !.garbled = @ \/ n > Len(WholeAnswer)
                                  \/ a.body # SubSeq(WholeAnswer, ph.bytes + 1, n)]
    OBVIOUS
  <2>3. OnAnswer(ph, a).ph \in {heard, p}
    BY <1>2, <2>2 DEF OnAnswer
  <2> HIDE DEF heard, p
  <2> QED BY <2>1, <2>3
<1>7. ASSUME NEW f
      PROVE  IsUp(OnData(ph, f).ph)
  <2> DEFINE late == ph.overrun \/ ph.room = 0
             room == IF ph.room = 0 THEN 0 ELSE ph.room - 1
             heard == [ph EXCEPT !.got = Append(@, f.data), !.overrun = late, !.room = room]
             p == [heard EXCEPT !.room = PhoneCredits]
  <2>1. IsUp(heard) /\ IsUp(p)
    BY DEF IsUp
  <2>2. heard = [ph EXCEPT !.got = Append(@, f.data), !.overrun = @ \/ ph.room = 0,
                           !.room = IF @ = 0 THEN 0 ELSE @ - 1]
    OBVIOUS
  <2>3. OnData(ph, f) = IF heard.room # 0 THEN Stays(heard)
                        ELSE Sends(p, <<ToMux(ph, [Frame(ServerDlci, "UIH_PF")
                                                     EXCEPT !.credits = PhoneCredits])>>)
    BY <2>2 DEF OnData
  <2> HIDE DEF heard, p
  <2> QED BY <1>2, <2>1, <2>3
<1>8. IsUp(Negotiate(ph).ph) /\ IsUp(CloseMux(ph).ph)
  <2> DEFINE p == [ph EXCEPT !.at = "negotiating", !.room = PhoneCredits]
             q == [ph EXCEPT !.at = "stopping"]
  <2>1. IsUp(p) /\ IsUp(q)
    BY DEF IsUp, Before
  <2>2. \E out : Negotiate(ph) = Sends(p, out)
    BY Zenon DEF Negotiate
  <2>3. \E out : CloseMux(ph) = Sends(q, out)
    BY Zenon DEF CloseMux
  <2> HIDE DEF p, q
  <2> QED BY <1>2, <2>1, <2>2, <2>3
<1>9. ASSUME NEW f
      PROVE  IsUp(OnFrame(ph, f).ph)
  <2> DEFINE open == [ph EXCEPT !.at = "open"]
             opening == [ph EXCEPT !.at = "opening"]
             allowed == [ph EXCEPT !.allowed = @ + f.credits]
             step == IF ph.at = "open" THEN CloseMux(ph) ELSE Stays(ph)
  <2>1. IsUp(open) /\ IsUp(opening) /\ IsUp(allowed)
    BY DEF IsUp, Before
  <2>2. DOMAIN step = {"ph", "out"} /\ IsUp(step.ph)
    BY <1>2, <1>8 DEF CloseMux, Stays, Sends
  <2>3. \/ OnFrame(ph, f) = Negotiate(ph)
        \/ OnFrame(ph, f) = CloseMux(ph)
        \/ OnFrame(ph, f) = OnData(ph, f)
        \/ OnFrame(ph, f) = Stays(ph)
        \/ OnFrame(ph, f) = Stays(allowed)
        \/ OnFrame(ph, f) = Sends(open, <<ToMux(ph, Message("MSC_CMD", ServerDlci))>>)
        \/ OnFrame(ph, f) = Sends(opening, <<ToMux(ph, Frame(ServerDlci, "SABM"))>>)
        \/ OnFrame(ph, f) = Sends(ph, <<ToMux(ph, Message("MSC_RSP", ServerDlci))>>)
        \/ OnFrame(ph, f) = Also(step, <<ToMux(ph, Frame(f.dlci, "UA"))>>)
    BY DEF OnFrame
  <2> HIDE DEF open, opening, allowed, step
  <2> QED BY <1>2, <1>3, <1>7, <1>8, <2>1, <2>2, <2>3
<1> QED BY <1>5, <1>6, <1>9 DEF Hears

----------------------------------------------------------------------------
(* The inductive invariant.  A command takes the buffer, and so does an    *)
(* ACL packet; that they never meet is a matter of the connection's        *)
(* phases.  Before it is open, nothing but commands is sent; afterwards no *)
(* command is.  While a command flies, the queue of events is empty, and   *)
(* the controller has room for one command only when it does not fly and   *)
(* its answer was read.                                                    *)

Flying   == S.usb.ctrlOut # NONE /\ "ctrlOut" \notin done
Answered == ctl.events # <<>> /\ IsCompletion(Head(ctl.events))

ShapeOk ==
    /\ Sound(S)
    /\ DOMAIN ctl = {"events", "acl", "scan", "link"}
    /\ "at" \in DOMAIN phone
    /\ QueueOk(ctl.events)

TokenOk ==
    /\ S.hci.num_cmd \in {0, 1}
    /\ ~S.hci.overrun
    /\ Flying => S.hci.num_cmd = 0 /\ ctl.events = <<>>
    /\ Answered => S.hci.num_cmd = 0
    /\ S.hci.num_cmd = 0 => Flying \/ Answered

\* The driver comes to the endpoint of the commands after that of the events,
\* before it reads the next event.
EndpointsOk ==
    /\ done \subseteq {"ctrlOut", "bulkOut"}
    /\ "ctrlOut" \in done => S.usb.ctrlOut # NONE
    /\ "bulkOut" \in done => S.usb.bulkOut # NONE
    /\ "ctrlOut" \in done /\ ~Answered => turn \in 1 .. 3
    /\ Flying => S.usb.buffer = S.usb.ctrlOut
    /\ S.usb.bulkOut # NONE /\ "bulkOut" \notin done => S.usb.buffer = S.usb.bulkOut

Has(ev)      == \E e \in In(ctl.events) : e.ev = ev
Only(evs)    == \A e \in In(ctl.events) : e.ev \in evs
ConnIn(s)   == HasConn(S) /\ S.hci.conn.state = s
Carries(cmds) == Flying /\ S.usb.ctrlOut.cmd \in cmds

\* Nothing goes on but commands and events.
Silent ==
    /\ ctl.acl = <<>> /\ radio = <<>>
    /\ S.usb.bulkOut = NONE /\ "bulkOut" \notin done
    /\ ~ctl.link /\ ~connection_for_handle(S)

Opens == HasConn(S) /\ (connection_for_handle(S) \/ Has("CONNECTION_COMPLETE"))

AwayOk ==
    /\ ~ctl.link /\ radio = <<>>
    /\ Has("DISCONNECTION_COMPLETE") => ~Flying /\ Settled(S) /\ Opens
    /\ ~Has("DISCONNECTION_COMPLETE") =>
        /\ ~HasConn(S)
        /\ Only({"COMMAND_COMPLETE"})
        /\ Flying => S.usb.ctrlOut.cmd \notin ForPhones

PagingOk ==
    /\ Silent
    /\ ctl.events = <<>> => Carries({"ACCEPT"}) /\ ConnIn("ACCEPTED_CONNECTION_REQUEST")
    /\ ctl.events # <<>> => ~HasConn(S) /\ S.usb.ctrlOut = NONE /\ Only({"CONNECTION_REQUEST"})

AcceptedOk ==
    /\ Silent /\ ~Flying
    /\ ConnIn("ACCEPTED_CONNECTION_REQUEST")
    /\ Only({"COMMAND_STATUS"})

PairingOk ==
    /\ Silent
    /\ ConnIn("ACCEPTED_CONNECTION_REQUEST")
    /\ Only({"COMMAND_COMPLETE", "COMMAND_STATUS", "LINK_KEY_REQUEST", "PIN_CODE_REQUEST"})
    /\ ctl.events = <<>> => Carries({"LINK_KEY_NEGATIVE", "PIN_CODE"})
    /\ ctl.events # <<>> => Has("LINK_KEY_REQUEST") \/ Has("PIN_CODE_REQUEST")

LinkedOk ==
    /\ ~Flying /\ ctl.link /\ Opens
    /\ Only({"COMMAND_COMPLETE", "COMMAND_STATUS", "CONNECTION_COMPLETE", "COMPLETED_PACKETS"})

PhasesOk ==
    /\ S.hci.decline = HostAddr
    /\ HasConn(S) => S.hci.conn.addr = Phone
    /\ phone.at # "away" => Settled(S)
    /\ Flying => Silent /\ phone.at \in {"away", "paging", "pairing"}
    /\ ~Settled(S) => Silent
    /\ phone.at = "away" => AwayOk
    /\ phone.at = "paging" => PagingOk
    /\ phone.at = "accepted" => AcceptedOk
    /\ phone.at = "pairing" => PairingOk
    /\ phone.at \notin Before => LinkedOk

BootOk ==
    /\ Booting(S) /\ Waits(S)
    /\ Unnamed(S) =>
        \/ Carries({"WRITE_LOCAL_NAME"})
        \/ Answered /\ Head(ctl.events).cmd = "WRITE_LOCAL_NAME"

IInv == ShapeOk /\ TokenOk /\ EndpointsOk /\ PhasesOk /\ BootOk

----------------------------------------------------------------------------
(* The steps.                                                              *)

\* The driver marks an endpoint before it calls the stack.
SameBelow(X, Y) == Sound(Y) /\ Y.hci = X.hci /\ Y.l2cap = X.l2cap

LEMMA UsbFields ==
    ASSUME NEW X, Sound(X)
    PROVE  /\ LET Y == [X EXCEPT !.usb.intIn = FALSE]
              IN  /\ SameBelow(X, Y) /\ Y.usb.ctrlOut = X.usb.ctrlOut
                  /\ Y.usb.bulkOut = X.usb.bulkOut /\ Y.usb.buffer = X.usb.buffer
           /\ LET Y == [X EXCEPT !.usb.bulkIn = FALSE]
              IN  /\ SameBelow(X, Y) /\ Y.usb.ctrlOut = X.usb.ctrlOut
                  /\ Y.usb.bulkOut = X.usb.bulkOut /\ Y.usb.buffer = X.usb.buffer
           /\ LET Y == [X EXCEPT !.usb.intIn = TRUE, !.usb.bulkIn = TRUE]
              IN  /\ SameBelow(X, Y) /\ Y.usb.ctrlOut = X.usb.ctrlOut
                  /\ Y.usb.bulkOut = X.usb.bulkOut /\ Y.usb.buffer = X.usb.buffer
           /\ LET Y == [X EXCEPT !.usb.bulkOut = NONE]
              IN  /\ SameBelow(X, Y) /\ Y.usb.ctrlOut = X.usb.ctrlOut
                  /\ Y.usb.bulkOut = NONE /\ Y.usb.buffer = X.usb.buffer
           /\ LET Y == [X EXCEPT !.usb.ctrlOut = NONE]
              IN  /\ SameBelow(X, Y) /\ Y.usb.ctrlOut = NONE
                  /\ Y.usb.bulkOut = X.usb.bulkOut /\ Y.usb.buffer = X.usb.buffer
<1>1. IsStack(X)
  BY DEF Sound, Bare
<1>2. ASSUME NEW usb, DOMAIN usb = DOMAIN X.usb, NEW Y, Y = [X EXCEPT !.usb = usb]
      PROVE  SameBelow(X, Y) /\ Y.usb = usb
  <2>1. Below(X, Y) /\ Y.hci = X.hci /\ Y.usb = usb
    BY <1>1, <1>2, UsbChange
  <2>2. Sound(Y)
    BY <2>1, BelowIsSound DEF connection_for_handle
  <2> QED BY <2>1, <2>2 DEF SameBelow, Below, SameUpper
<1> DEFINE a == [X.usb EXCEPT !.intIn = FALSE]
           b == [X.usb EXCEPT !.bulkIn = FALSE]
           c == [X.usb EXCEPT !.intIn = TRUE, !.bulkIn = TRUE]
           d == [X.usb EXCEPT !.bulkOut = NONE]
           f == [X.usb EXCEPT !.ctrlOut = NONE]
<1>3. /\ DOMAIN a = DOMAIN X.usb /\ DOMAIN b = DOMAIN X.usb /\ DOMAIN c = DOMAIN X.usb
      /\ DOMAIN d = DOMAIN X.usb /\ DOMAIN f = DOMAIN X.usb
      /\ a.ctrlOut = X.usb.ctrlOut /\ a.bulkOut = X.usb.bulkOut /\ a.buffer = X.usb.buffer
      /\ b.ctrlOut = X.usb.ctrlOut /\ b.bulkOut = X.usb.bulkOut /\ b.buffer = X.usb.buffer
      /\ c.ctrlOut = X.usb.ctrlOut /\ c.bulkOut = X.usb.bulkOut /\ c.buffer = X.usb.buffer
      /\ d.ctrlOut = X.usb.ctrlOut /\ d.bulkOut = NONE /\ d.buffer = X.usb.buffer
      /\ f.ctrlOut = NONE /\ f.bulkOut = X.usb.bulkOut /\ f.buffer = X.usb.buffer
  BY <1>1 DEF IsStack
<1>4. /\ [X EXCEPT !.usb.intIn = FALSE] = [X EXCEPT !.usb = a]
      /\ [X EXCEPT !.usb.bulkIn = FALSE] = [X EXCEPT !.usb = b]
      /\ [X EXCEPT !.usb.intIn = TRUE, !.usb.bulkIn = TRUE] = [X EXCEPT !.usb = c]
      /\ [X EXCEPT !.usb.bulkOut = NONE] = [X EXCEPT !.usb = d]
      /\ [X EXCEPT !.usb.ctrlOut = NONE] = [X EXCEPT !.usb = f]
  BY <1>1 DEF IsStack
<1> HIDE DEF a, b, c, d, f
<1> DEFINE A == [X EXCEPT !.usb.intIn = FALSE]
           B == [X EXCEPT !.usb.bulkIn = FALSE]
           C == [X EXCEPT !.usb.intIn = TRUE, !.usb.bulkIn = TRUE]
           D == [X EXCEPT !.usb.bulkOut = NONE]
           F == [X EXCEPT !.usb.ctrlOut = NONE]
<1>5. SameBelow(X, A) /\ A.usb = a
  BY <1>2, <1>3, <1>4
<1>6. SameBelow(X, B) /\ B.usb = b
  BY <1>2, <1>3, <1>4
<1>7. SameBelow(X, C) /\ C.usb = c
  BY <1>2, <1>3, <1>4
<1>8. SameBelow(X, D) /\ D.usb = d
  BY <1>2, <1>3, <1>4
<1>9. SameBelow(X, F) /\ F.usb = f
  BY <1>2, <1>3, <1>4
<1> HIDE DEF A, B, C, D, F
<1>10. /\ SameBelow(X, A) /\ A.usb.ctrlOut = X.usb.ctrlOut
       /\ A.usb.bulkOut = X.usb.bulkOut /\ A.usb.buffer = X.usb.buffer
  BY <1>3, <1>5
<1>11. /\ SameBelow(X, B) /\ B.usb.ctrlOut = X.usb.ctrlOut
       /\ B.usb.bulkOut = X.usb.bulkOut /\ B.usb.buffer = X.usb.buffer
  BY <1>3, <1>6
<1>12. /\ SameBelow(X, C) /\ C.usb.ctrlOut = X.usb.ctrlOut
       /\ C.usb.bulkOut = X.usb.bulkOut /\ C.usb.buffer = X.usb.buffer
  BY <1>3, <1>7
<1>13. /\ SameBelow(X, D) /\ D.usb.ctrlOut = X.usb.ctrlOut
       /\ D.usb.bulkOut = NONE /\ D.usb.buffer = X.usb.buffer
  BY <1>3, <1>8
<1>14. /\ SameBelow(X, F) /\ F.usb.ctrlOut = NONE
       /\ F.usb.bulkOut = X.usb.bulkOut /\ F.usb.buffer = X.usb.buffer
  BY <1>3, <1>9
<1> QED BY <1>10, <1>11, <1>12, <1>13, <1>14 DEF A, B, C, D, F

\* A step that changes nothing the invariant speaks of but the turn.
LEMMA QuietStep ==
    ASSUME IInv,
           Sound(S'), S'.hci = S.hci, S'.usb.ctrlOut = S.usb.ctrlOut,
           S'.usb.bulkOut = S.usb.bulkOut, S'.usb.buffer = S.usb.buffer,
           UNCHANGED <<done, ctl, radio, phone>>,
           "ctrlOut" \in done /\ ~Answered => turn' \in 1 .. 3
    PROVE  IInv'
<1>1. /\ Flying' <=> Flying
      /\ Answered' <=> Answered
      /\ \A ev : Has(ev)' <=> Has(ev)
      /\ \A evs : Only(evs)' <=> Only(evs)
      /\ \A s : ConnIn(s)' <=> ConnIn(s)
      /\ \A cmds : Carries(cmds)' <=> Carries(cmds)
      /\ HasConn(S') <=> HasConn(S)
      /\ connection_for_handle(S') <=> connection_for_handle(S)
      /\ Settled(S') <=> Settled(S)
  BY DEF Flying, Answered, Has, Only, ConnIn, Carries, HasConn, connection_for_handle, Settled
<1>2. (Silent' <=> Silent) /\ (Opens' <=> Opens)
  BY <1>1 DEF Silent, Opens
<1>3. ShapeOk' /\ TokenOk'
  BY <1>1 DEF IInv, ShapeOk, TokenOk
<1>4. EndpointsOk'
  BY <1>1 DEF IInv, EndpointsOk
<1>5. PhasesOk'
  BY <1>1, <1>2 DEF IInv, PhasesOk, AwayOk, PagingOk, AcceptedOk, PairingOk, LinkedOk
<1>6. BootOk'
  BY <1>1 DEF IInv, BootOk, Booting, Going, HasScan, Waits, CanSendCommand, Unnamed
<1> QED BY <1>3, <1>4, <1>5, <1>6 DEF IInv

\* Waiting for one's turn is all the same while the queue is.
LEMMA NobodyTurns == IInv /\ UNCHANGED vars => IInv'
<1> SUFFICES ASSUME IInv, UNCHANGED vars PROVE IInv'
  OBVIOUS
<1> QED BY QuietStep DEF vars, IInv, ShapeOk, EndpointsOk

\* A step of a device that has started, in which no command is sent.
LEMMA SteadyStep ==
    ASSUME IInv, ~Flying, Settled(S),
           Sound(S'), Settled(S'), S'.hci.decline = HostAddr, S'.hci.overrun = S.hci.overrun,
           done' \subseteq done,
           S'.usb.ctrlOut # NONE <=> "ctrlOut" \in done',
           "ctrlOut" \in done' /\ ~Answered' => turn' \in 1 .. 3,
           \/ /\ S'.usb.bulkOut = S.usb.bulkOut /\ S'.usb.buffer = S.usb.buffer
              /\ "bulkOut" \in done' <=> "bulkOut" \in done
           \/ "bulkOut" \notin done' /\ S'.usb.bulkOut \in {NONE, S'.usb.buffer},
           DOMAIN ctl' = DOMAIN ctl, ctl'.link = ctl.link, ctl.acl = <<>> => ctl'.acl = <<>>,
           UNCHANGED <<radio, phone>>,
           QueueOk(ctl'.events),
           \A e \in In(ctl'.events) : e \in In(ctl.events),
           \A e \in In(ctl.events) : e \in In(ctl'.events) \/ e.ev \in Ordinary,
           S'.hci.num_cmd \in {0, 1}, S'.hci.num_cmd = 0 <=> Answered',
           HasConn(S') <=> HasConn(S),
           HasConn(S) => S'.hci.conn.addr = S.hci.conn.addr,
           connection_for_handle(S) => connection_for_handle(S'),
           \/ SameConn(S, S') /\ \A e \in In(ctl.events) :
                                    e.ev = "CONNECTION_COMPLETE" => e \in In(ctl'.events)
           \/ /\ Has("CONNECTION_COMPLETE")
              /\ HasConn(S) => connection_for_handle(S'),
           Silent /\ ~Has("CONNECTION_COMPLETE") =>
                S'.usb.bulkOut = S.usb.bulkOut
    PROVE  IInv'
<1>1. ~Flying'
  BY DEF Flying
<1>2. ShapeOk'
  BY DEF IInv, ShapeOk
<1>3. TokenOk'
  BY <1>1 DEF IInv, TokenOk
<1>4. EndpointsOk'
  BY <1>1 DEF IInv, EndpointsOk
<1>5. \A ev : ev \notin Ordinary => (Has(ev)' <=> Has(ev))
  BY DEF Has
<1>6. \A evs : Only(evs) => Only(evs)'
  BY DEF Only
<1>7. ctl.events # <<>> /\ (\A e \in In(ctl.events) : e.ev \notin Ordinary) => ctl'.events # <<>>
  BY HeadOfQueue DEF IInv, ShapeOk
<1>8. Opens => Opens'
  BY DEF Opens, Has, SameConn, connection_for_handle, HasConn
<1>9. Silent /\ ~Has("CONNECTION_COMPLETE") => Silent' /\ SameConn(S, S')
  <2> SUFFICES ASSUME Silent, ~Has("CONNECTION_COMPLETE")
               PROVE  Silent' /\ SameConn(S, S')
    OBVIOUS
  <2>1. SameConn(S, S') /\ ~connection_for_handle(S')
    BY DEF SameConn, connection_for_handle, HasConn, Silent
  <2> QED BY <2>1 DEF Silent
<1>10. phone.at = "away" => AwayOk'
  <2> SUFFICES ASSUME phone.at = "away", AwayOk PROVE AwayOk'
    BY DEF IInv, PhasesOk
  <2>1. Has("DISCONNECTION_COMPLETE")' <=> Has("DISCONNECTION_COMPLETE")
    BY <1>5 DEF Ordinary
  <2> QED BY <1>1, <1>6, <1>8, <2>1 DEF AwayOk
<1>11. phone.at = "paging" => PagingOk'
  <2> SUFFICES ASSUME phone.at = "paging", PagingOk PROVE PagingOk'
    BY DEF IInv, PhasesOk
  <2>1. ctl.events # <<>> /\ ~HasConn(S) /\ S.usb.ctrlOut = NONE /\ Only({"CONNECTION_REQUEST"})
    BY DEF PagingOk, Carries
  <2>2. ctl'.events # <<>> /\ ~Has("CONNECTION_COMPLETE")
    BY <1>7, <2>1 DEF Only, Has, Ordinary
  <2>3. S'.usb.ctrlOut = NONE
    BY <2>1 DEF IInv, EndpointsOk
  <2> QED BY <1>6, <1>9, <2>1, <2>2, <2>3 DEF PagingOk
<1>12. phone.at = "accepted" => AcceptedOk'
  <2> SUFFICES ASSUME phone.at = "accepted", AcceptedOk PROVE AcceptedOk'
    BY DEF IInv, PhasesOk
  <2>1. ~Has("CONNECTION_COMPLETE")
    BY DEF AcceptedOk, Only, Has
  <2>2. Silent' /\ SameConn(S, S')
    BY <1>9, <2>1 DEF AcceptedOk
  <2> QED BY <1>1, <1>6, <2>2 DEF AcceptedOk, ConnIn, SameConn
<1>13. phone.at = "pairing" => PairingOk'
  <2> SUFFICES ASSUME phone.at = "pairing", PairingOk PROVE PairingOk'
    BY DEF IInv, PhasesOk
  <2>1. ~Has("CONNECTION_COMPLETE")
    BY DEF PairingOk, Only, Has
  <2>2. Silent' /\ SameConn(S, S')
    BY <1>9, <2>1 DEF PairingOk
  <2>3. Has("LINK_KEY_REQUEST") \/ Has("PIN_CODE_REQUEST")
    BY DEF PairingOk, Carries
  <2>4. Has("LINK_KEY_REQUEST")' \/ Has("PIN_CODE_REQUEST")'
    BY <1>5, <2>3 DEF Ordinary
  <2>5. ctl'.events # <<>>
    BY <2>4 DEF Has, In
  <2> QED BY <1>6, <2>2, <2>4, <2>5 DEF PairingOk, ConnIn, SameConn
<1>14. phone.at \notin Before => LinkedOk'
  <2> SUFFICES ASSUME phone.at \notin Before, LinkedOk PROVE LinkedOk'
    BY DEF IInv, PhasesOk
  <2> QED BY <1>1, <1>6, <1>8 DEF LinkedOk
<1>15. PhasesOk'
  BY <1>1, <1>10, <1>11, <1>12, <1>13, <1>14 DEF IInv, PhasesOk
<1>16. BootOk'
  BY DEF BootOk, Booting, Going, HasScan, Waits, Unnamed, Settled
<1> QED BY <1>2, <1>3, <1>4, <1>15, <1>16 DEF IInv

\* The parts of the invariant the steps use most.
LEMMA Apart ==
    ASSUME IInv
    PROVE  /\ ~Flying => (S.usb.ctrlOut # NONE <=> "ctrlOut" \in done)
           /\ ctl.events # <<>> => ~Flying
           /\ ~Flying => (S.hci.num_cmd = 0 <=> Answered)
           /\ ~Silent => Settled(S) /\ ~Flying
           /\ S.usb.bulkOut = NONE => "bulkOut" \notin done
           /\ HasConn(S) => S.hci.conn.addr = Phone
           /\ turn <= 0 /\ ~Flying /\ ~Answered => S.usb.ctrlOut = NONE /\ S.hci.num_cmd = 1
           /\ \A e \in In(ctl.events) : IsFair(S, e)
           /\ \A e \in In(ctl.events) : IsCompletion(e) => Answered /\ e = Head(ctl.events)
<1>1. ~Flying => (S.usb.ctrlOut # NONE <=> "ctrlOut" \in done)
  BY DEF IInv, EndpointsOk, Flying
<1>2. ~Flying => (S.hci.num_cmd = 0 <=> Answered)
  BY DEF IInv, TokenOk
<1>3. turn <= 0 /\ ~Flying /\ ~Answered => S.usb.ctrlOut = NONE /\ S.hci.num_cmd = 1
  <2>1. turn <= 0 => turn \notin 1 .. 3
    OBVIOUS
  <2> QED BY <1>1, <2>1 DEF IInv, EndpointsOk, TokenOk
<1>4. HasConn(S) => S.hci.conn.addr = Phone
  BY DEF IInv, PhasesOk
<1>5. \A e \in In(ctl.events) : IsEvent(e) /\ (IsCompletion(e) => ctl.events # <<>> /\ e = Head(ctl.events))
  BY HeadOfQueue DEF IInv, ShapeOk
<1>6. \A e \in In(ctl.events) : IsFair(S, e)
  BY <1>4, <1>5 DEF IsFair, IsEvent
<1>7. \A e \in In(ctl.events) : IsCompletion(e) => Answered /\ e = Head(ctl.events)
  BY <1>5 DEF Answered
<1>8. /\ ctl.events # <<>> => ~Flying
      /\ ~Silent => Settled(S) /\ ~Flying
      /\ S.usb.bulkOut = NONE => "bulkOut" \notin done
  BY DEF IInv, TokenOk, EndpointsOk, PhasesOk
<1> QED BY <1>1, <1>2, <1>3, <1>4, <1>6, <1>7, <1>8

\* While the device starts, nothing is there but its commands.
LEMMA Unsettled ==
    ASSUME IInv, ~Settled(S)
    PROVE  /\ phone.at = "away" /\ Silent /\ ~HasConn(S) /\ Only({"COMMAND_COMPLETE"})
           /\ ctl.events # <<>> => Answered /\ Head(ctl.events).ev = "COMMAND_COMPLETE"
<1>1. phone.at = "away" /\ Silent /\ AwayOk
  BY DEF IInv, PhasesOk
<1>2. ~HasConn(S) /\ Only({"COMMAND_COMPLETE"})
  BY <1>1 DEF AwayOk
<1>3. ctl.events # <<>> => Head(ctl.events) \in In(ctl.events)
  BY HeadAndTail DEF IInv, ShapeOk
<1>4. ctl.events # <<>> => Head(ctl.events).ev = "COMMAND_COMPLETE"
  BY <1>2, <1>3 DEF Only
<1> QED BY <1>1, <1>2, <1>4 DEF Answered, IsCompletion

\* A step of a device that starts.
LEMMA StartingStep ==
    ASSUME IInv, ~Settled(S),
           Sound(S'), Starts(S'), Waits(S'), S'.usb.bulkOut = S.usb.bulkOut,
           DOMAIN ctl' = DOMAIN ctl, ctl'.link = ctl.link, ctl'.acl = ctl.acl,
           UNCHANGED <<radio, phone>>,
           done' \subseteq done,
           QueueOk(ctl'.events), \A e \in In(ctl'.events) : e \in In(ctl.events),
           ~S'.hci.overrun,
           \/ /\ S'.usb.ctrlOut # NONE <=> "ctrlOut" \in done'
              /\ "ctrlOut" \in done' /\ ~Answered' => turn' \in 1 .. 3
              /\ S'.hci.num_cmd = 0 <=> Answered'
              /\ Unnamed(S') => Answered' /\ Head(ctl'.events).cmd = "WRITE_LOCAL_NAME"
           \/ /\ ctl'.events = <<>> /\ "ctrlOut" \notin done'
              /\ S'.hci.num_cmd = 0
              /\ S'.usb.ctrlOut # NONE /\ S'.usb.ctrlOut.cmd \notin ForPhones
              /\ S'.usb.buffer = S'.usb.ctrlOut
              /\ Unnamed(S') => S'.usb.ctrlOut.cmd = "WRITE_LOCAL_NAME"
    PROVE  IInv'
<1>1. phone.at = "away" /\ Silent /\ Only({"COMMAND_COMPLETE"})
  BY Unsettled
<1>2. ~HasConn(S') /\ ~connection_for_handle(S') /\ S'.hci.decline = HostAddr
  BY DEF Starts, HasConn, connection_for_handle
<1>3. Silent'
  BY <1>1, <1>2 DEF Silent
<1>4. Only({"COMMAND_COMPLETE"})' /\ ~Has("DISCONNECTION_COMPLETE")'
  BY <1>1 DEF Only, Has
<1>5. \/ /\ ~Flying'
         /\ S'.usb.ctrlOut # NONE <=> "ctrlOut" \in done'
         /\ "ctrlOut" \in done' /\ ~Answered' => turn' \in 1 .. 3
         /\ S'.hci.num_cmd = 0 <=> Answered'
         /\ Unnamed(S') => Answered' /\ Head(ctl'.events).cmd = "WRITE_LOCAL_NAME"
      \/ /\ Flying' /\ ctl'.events = <<>> /\ "ctrlOut" \notin done'
         /\ S'.hci.num_cmd = 0
         /\ S'.usb.ctrlOut # NONE /\ S'.usb.ctrlOut.cmd \notin ForPhones
         /\ S'.usb.buffer = S'.usb.ctrlOut
         /\ Unnamed(S') => S'.usb.ctrlOut.cmd = "WRITE_LOCAL_NAME"
  BY DEF Flying
<1>6. ctl'.events = <<>> => ~Answered'
  BY DEF Answered
<1>7. ShapeOk'
  BY DEF IInv, ShapeOk
<1>8. TokenOk'
  BY <1>5, <1>6 DEF TokenOk, Starts
<1>9. EndpointsOk'
  <2>1. S'.usb.bulkOut = NONE /\ "bulkOut" \notin done'
    BY <1>3 DEF Silent
  <2> QED BY <1>5, <2>1 DEF IInv, EndpointsOk
<1>10. AwayOk'
  BY <1>2, <1>3, <1>4, <1>5 DEF AwayOk, Silent
<1>11. PhasesOk'
  BY <1>1, <1>2, <1>3, <1>10 DEF PhasesOk, Before
<1>12. BootOk'
  BY <1>5 DEF BootOk, Starts, Carries
<1> QED BY <1>7, <1>8, <1>9, <1>11, <1>12 DEF IInv

\* The event at the head of the queue goes to the stack.
Polled(X, e) ==
    /\ e = Head(ctl.events) /\ ctl.events # <<>>
    /\ SameBelow(S, X)
    /\ X.usb.ctrlOut = S.usb.ctrlOut /\ X.usb.bulkOut = S.usb.bulkOut /\ X.usb.buffer = S.usb.buffer
    /\ S' = event_handler(X, e)
    /\ DOMAIN ctl' = DOMAIN ctl /\ ctl'.link = ctl.link /\ ctl'.acl = ctl.acl
    /\ ctl'.events = Tail(ctl.events)
    /\ turn <= 0 /\ turn' = 1
    /\ UNCHANGED <<done, radio, phone, written>>

\* What is known of it.
LEMMA HeadKnown ==
    ASSUME IInv, NEW X, NEW e, Polled(X, e)
    PROVE  /\ ~Flying /\ e \in In(ctl.events) /\ IsEvent(e) /\ IsFair(X, e)
           /\ QueueOk(ctl'.events) /\ In(ctl.events) = In(ctl'.events) \union {e}
           /\ ~Answered'
           /\ IsLast(e) => ctl'.events = <<>> /\ In(ctl'.events) = {}
           /\ \A d \in In(ctl'.events) : ~IsCompletion(d)
           /\ IsCompletion(e) => e.num = 1
           /\ IsCompletion(e) <=> Answered
           /\ ~Answered => S.usb.ctrlOut = NONE /\ S.hci.num_cmd = 1
           /\ Answered => S.hci.num_cmd = 0
<1>1. /\ QueueOk(ctl'.events)
      /\ IsEvent(e) /\ In(ctl.events) = In(ctl'.events) \union {e}
      /\ \A d \in In(ctl'.events) : ~IsCompletion(d)
      /\ IsLast(e) => ctl'.events = <<>>
      /\ ctl'.events # <<>> => ~IsCompletion(Head(ctl'.events))
  BY HeadAndTail DEF Polled, IInv, ShapeOk
<1>2. e \in In(ctl.events)
  BY <1>1
<1>3. IsFair(X, e)
  <2>1. IsFair(S, e)
    BY <1>2, Apart
  <2> QED BY <2>1 DEF IsFair, Polled, SameBelow, HasConn
<1>4. ~Answered' /\ (IsCompletion(e) <=> Answered)
  BY <1>1 DEF Answered, Polled
<1>5. ~Flying /\ (~Answered => S.usb.ctrlOut = NONE /\ S.hci.num_cmd = 1)
  BY Apart DEF Polled
<1>6. Answered => S.hci.num_cmd = 0
  BY DEF IInv, TokenOk
<1>7. ctl'.events = <<>> => In(ctl'.events) = {}
  BY EmptyQueue
<1>8. IsCompletion(e) => e.num = 1
  BY <1>1 DEF IsEvent
<1> QED BY <1>1, <1>2, <1>3, <1>4, <1>5, <1>6, <1>7, <1>8

LEMMA PolledOrdinary ==
    ASSUME IInv, NEW X, NEW e, Polled(X, e), Settled(S), e.ev \in Ordinary
    PROVE  IInv'
<1> DEFINE Y == event_handler(X, e)
<1>1. Sound(X) /\ Settled(X) /\ X.hci.decline = HostAddr /\ X.hci = S.hci
  BY DEF Polled, SameBelow, Settled, HasConn, IInv, PhasesOk
<1>2. IsFair(X, e)
  BY HeadKnown
<1>3. /\ Steady(X, Y)
      /\ Y.hci.num_cmd = IF IsCompletion(e) THEN e.num ELSE X.hci.num_cmd
      /\ HasConn(Y) <=> HasConn(X)
      /\ HasConn(X) =>
           /\ Y.hci.conn.addr = X.hci.conn.addr
           /\ e.ev # "CONNECTION_COMPLETE" => SameConn(X, Y)
           /\ connection_for_handle(X) \/ e.ev = "CONNECTION_COMPLETE" => connection_for_handle(Y)
      /\ ~connection_for_handle(X) /\ e.ev # "CONNECTION_COMPLETE" => Y.usb.bulkOut = X.usb.bulkOut
  BY <1>1, <1>2, EventIsSteady
<1>4. S' = Y
  BY DEF Polled
<1> HIDE DEF Y
<1>5. /\ ~Flying /\ QueueOk(ctl'.events) /\ In(ctl.events) = In(ctl'.events) \union {e}
      /\ e \in In(ctl.events) /\ ~Answered'
      /\ IsCompletion(e) => e.num = 1
      /\ ~IsCompletion(e) => S.hci.num_cmd = 1
  BY HeadKnown
<1>6. S'.hci.num_cmd = 1
  BY <1>1, <1>3, <1>4, <1>5
<1>7. Sound(S') /\ Settled(S') /\ S'.hci.decline = HostAddr /\ S'.hci.overrun = S.hci.overrun
  BY <1>1, <1>3, <1>4 DEF Steady
<1>8. S'.usb.ctrlOut # NONE <=> "ctrlOut" \in done'
  BY <1>3, <1>4, <1>5, Apart DEF Steady, Polled
<1>9. \/ /\ S'.usb.bulkOut = S.usb.bulkOut /\ S'.usb.buffer = S.usb.buffer
         /\ "bulkOut" \in done' <=> "bulkOut" \in done
      \/ "bulkOut" \notin done' /\ S'.usb.bulkOut \in {NONE, S'.usb.buffer}
  BY <1>3, <1>4, Apart DEF Steady, Bulk, Polled
<1>10. /\ HasConn(S') <=> HasConn(S)
       /\ HasConn(S) => S'.hci.conn.addr = S.hci.conn.addr
       /\ connection_for_handle(S) => connection_for_handle(S')
       /\ e.ev # "CONNECTION_COMPLETE" => SameConn(S, S')
       /\ e.ev = "CONNECTION_COMPLETE" /\ HasConn(S) => connection_for_handle(S')
  BY <1>1, <1>3, <1>4 DEF SameConn, HasConn, connection_for_handle
<1>11. \/ SameConn(S, S') /\ \A d \in In(ctl.events) :
                                d.ev = "CONNECTION_COMPLETE" => d \in In(ctl'.events)
       \/ /\ Has("CONNECTION_COMPLETE")
          /\ HasConn(S) => connection_for_handle(S')
  BY <1>5, <1>10 DEF Has
<1>12. Silent /\ ~Has("CONNECTION_COMPLETE") => S'.usb.bulkOut = S.usb.bulkOut
  <2>1. Silent /\ ~Has("CONNECTION_COMPLETE") =>
          ~connection_for_handle(X) /\ e.ev # "CONNECTION_COMPLETE"
    BY <1>1, <1>5 DEF Silent, Has, connection_for_handle
  <2> QED BY <1>3, <1>4, <2>1 DEF Polled
<1>13. turn' \in 1 .. 3
  BY DEF Polled
<1> QED BY <1>5, <1>6, <1>7, <1>8, <1>9, <1>10, <1>11, <1>12, <1>13, SteadyStep DEF Polled

LEMMA PolledStarting ==
    ASSUME IInv, NEW X, NEW e, Polled(X, e), ~Settled(S)
    PROVE  IInv'
<1> DEFINE Y == event_handler(X, e)
<1>1. /\ ~HasConn(S) /\ Answered /\ e.ev = "COMMAND_COMPLETE" /\ IsCompletion(e)
      /\ Only({"COMMAND_COMPLETE"})
  BY Unsettled DEF Polled, Answered
<1>2. /\ Sound(X) /\ ~HasConn(X) /\ X.hci.decline = HostAddr /\ Booting(X)
      /\ X.hci.num_cmd = 0 /\ X.hci.overrun = S.hci.overrun
  <2>1. S.hci.num_cmd = 0 /\ Booting(S) /\ S.hci.decline = HostAddr
    BY <1>1 DEF IInv, TokenOk, BootOk, PhasesOk
  <2> QED BY <1>1, <2>1 DEF Polled, SameBelow, Booting, Going, HasScan, HasConn
<1>3. /\ ~Flying /\ IsFair(X, e) /\ e.num = 1
      /\ QueueOk(ctl'.events) /\ In(ctl.events) = In(ctl'.events) \union {e}
      /\ ~Answered' /\ \A d \in In(ctl'.events) : ~IsCompletion(d)
  BY <1>1, HeadKnown
<1>4. ctl'.events = <<>>
  <2>1. In(ctl'.events) = {}
    BY <1>1, <1>3 DEF Only, IsCompletion
  <2> QED BY <1>3, <2>1, HeadOfQueue
<1>5. Unnamed(X) => e.cmd = "WRITE_LOCAL_NAME"
  BY <1>3 DEF Polled, SameBelow, Unnamed, IInv, BootOk, Carries
<1>6. /\ Sound(Y) /\ Starts(Y) /\ Waits(Y) /\ Y.usb.bulkOut = X.usb.bulkOut
      /\ StartLeft(X, Y, e)
  BY <1>1, <1>2, <1>3, <1>5, StartStep
<1>7. S' = Y
  BY DEF Polled
<1> HIDE DEF Y
<1>8. ~S.hci.overrun
  BY DEF IInv, TokenOk
<1>9. X.usb.ctrlOut = S.usb.ctrlOut /\ X.usb.bulkOut = S.usb.bulkOut /\ done' = done
  BY DEF Polled
<1>10. CASE /\ Y.usb.ctrlOut = X.usb.ctrlOut
            /\ Y.hci.overrun = X.hci.overrun
            /\ Y.hci.num_cmd = 1
  <2>1. ~Unnamed(Y)
    BY <1>6, <1>10 DEF Unnamed, Starts, Booting
  <2>2. S'.usb.ctrlOut # NONE <=> "ctrlOut" \in done'
    BY <1>3, <1>7, <1>9, <1>10, Apart
  <2>3. turn' \in 1 .. 3 /\ S'.hci.num_cmd = 1 /\ ~S'.hci.overrun
    BY <1>2, <1>7, <1>8, <1>10 DEF Polled
  <2> QED BY <1>3, <1>4, <1>6, <1>7, <1>9, <2>1, <2>2, <2>3, StartingStep DEF Polled
<1>11. CASE \E Z : /\ StartSent(Z, Y)
                   /\ Z.usb.ctrlOut = X.usb.ctrlOut
                   /\ Z.hci.overrun = X.hci.overrun
  <2>1. /\ Y.usb.ctrlOut # NONE /\ Y.usb.ctrlOut.cmd \notin ForPhones
        /\ Y.usb.buffer = Y.usb.ctrlOut
        /\ Y.hci.num_cmd = 0
        /\ ~X.hci.overrun => ~Y.hci.overrun
        /\ Unnamed(Y) => Y.usb.ctrlOut.cmd = "WRITE_LOCAL_NAME"
        /\ X.usb.ctrlOut = NONE
    BY <1>11 DEF StartSent
  <2>2. "ctrlOut" \notin done'
    BY <1>3, <1>9, <2>1, Apart
  <2>3. ~S'.hci.overrun
    BY <1>2, <1>7, <1>8, <2>1
  <2> QED BY <1>3, <1>4, <1>6, <1>7, <1>9, <2>1, <2>2, <2>3, StartingStep DEF Polled
<1> QED BY <1>1, <1>6, <1>10, <1>11 DEF StartLeft

\* What the stack answers with a command: that flies, and nothing else is there.
LEMMA Commanding ==
    ASSUME IInv, NEW X, NEW e, Polled(X, e), Settled(S), IsLast(e), e.ev # "DISCONNECTION_COMPLETE",
           Silent,
           Sound(S'), Settled(S'), S'.hci.decline = HostAddr,
           ~S.hci.overrun => ~S'.hci.overrun,
           S'.hci.num_cmd = 0, S'.usb.ctrlOut # NONE,
           S'.usb.buffer = S'.usb.ctrlOut, S'.usb.bulkOut = S.usb.bulkOut,
           ~connection_for_handle(S')
    PROVE  /\ ShapeOk' /\ TokenOk' /\ EndpointsOk' /\ BootOk'
           /\ Silent' /\ Flying' /\ ctl'.events = <<>> /\ Only({})'
<1>1. /\ ~Flying /\ QueueOk(ctl'.events) /\ ctl'.events = <<>> /\ In(ctl'.events) = {}
      /\ ~Answered' /\ ~Answered /\ S.usb.ctrlOut = NONE
  BY HeadKnown DEF IsCompletion, IsLast
<1>2. "ctrlOut" \notin done /\ "bulkOut" \notin done /\ S.usb.bulkOut = NONE
  BY <1>1 DEF Silent, IInv, EndpointsOk
<1>3. Flying'
  BY <1>2 DEF Flying, Polled
<1>4. ShapeOk'
  BY <1>1 DEF IInv, ShapeOk, Polled
<1>5. TokenOk'
  BY <1>1, <1>3 DEF IInv, TokenOk
<1>6. EndpointsOk'
  BY <1>1, <1>2 DEF IInv, EndpointsOk, Polled
<1>7. BootOk'
  BY DEF BootOk, Booting, Going, HasScan, Waits, Unnamed, Settled
<1>8. Silent'
  BY <1>2 DEF Silent, Polled
<1>9. Only({})'
  BY <1>1 DEF Only
<1> QED BY <1>1, <1>3, <1>4, <1>5, <1>6, <1>7, <1>8, <1>9

\* What is last in the queue and first is all of it.
LEMMA Alone ==
    ASSUME IInv, NEW X, NEW e, Polled(X, e), IsLast(e)
    PROVE  \A ev : Has(ev) <=> ev = e.ev
<1>1. In(ctl.events) = {e}
  BY HeadKnown
<1> QED BY <1>1 DEF Has

LEMMA PolledRequest ==
    ASSUME IInv, NEW X, NEW e, Polled(X, e), Settled(S), e.ev = "CONNECTION_REQUEST"
    PROVE  IInv'
<1> DEFINE Y == event_handler(X, e)
<1>1. /\ IsLast(e) /\ ~Flying /\ e \in In(ctl.events) /\ IsEvent(e) /\ IsFair(X, e)
      /\ S.usb.ctrlOut = NONE /\ S.hci.num_cmd = 1
      /\ \A ev : Has(ev) <=> ev = "CONNECTION_REQUEST"
  BY HeadKnown, Alone DEF IsCompletion, IsLast
<1>2. phone.at = "paging" /\ PagingOk
  <2>1. phone.at # "away"
    BY <1>1 DEF IInv, PhasesOk, AwayOk, Only
  <2>2. phone.at # "accepted" /\ phone.at # "pairing"
    BY <1>1 DEF IInv, PhasesOk, AcceptedOk, PairingOk, Only
  <2>3. phone.at \in Before
    BY <1>1 DEF IInv, PhasesOk, LinkedOk, Only
  <2> QED BY <2>1, <2>2, <2>3 DEF Before, IInv, PhasesOk
<1>3. Silent /\ ~HasConn(S)
  BY <1>2 DEF PagingOk, Polled
<1>4. /\ Sound(X) /\ Settled(X) /\ X.hci.decline = HostAddr /\ ~HasConn(X)
      /\ X.usb.ctrlOut = NONE /\ X.hci.num_cmd = 1
      /\ X.hci = S.hci /\ X.usb.bulkOut = S.usb.bulkOut
  BY <1>1, <1>3 DEF Polled, SameBelow, Settled, HasConn, IInv, PhasesOk
<1>5. /\ Sound(Y) /\ Settled(Y)
      /\ Y.hci.decline = HostAddr
      /\ ~X.hci.overrun => ~Y.hci.overrun
      /\ Y.hci.num_cmd = 0
      /\ Y.usb.ctrlOut # NONE /\ Y.usb.ctrlOut.cmd = "ACCEPT"
      /\ Y.usb.buffer = Y.usb.ctrlOut /\ Y.usb.bulkOut = X.usb.bulkOut
      /\ HasConn(Y) /\ ~connection_for_handle(Y) /\ Y.hci.conn.addr = e.addr
      /\ Y.hci.conn.state = "ACCEPTED_CONNECTION_REQUEST"
  BY <1>1, <1>4, RequestAccepted
<1>6. S' = Y
  BY DEF Polled
<1> HIDE DEF Y
<1>7. /\ ShapeOk' /\ TokenOk' /\ EndpointsOk' /\ BootOk'
      /\ Silent' /\ Flying' /\ ctl'.events = <<>> /\ Only({})'
  BY <1>1, <1>3, <1>4, <1>5, <1>6, Commanding
<1>8. PagingOk' /\ phone'.at = "paging"
  BY <1>2, <1>5, <1>6, <1>7 DEF PagingOk, Carries, ConnIn, Polled
<1>9. PhasesOk'
  BY <1>1, <1>5, <1>6, <1>7, <1>8 DEF PhasesOk, Before, IsEvent
<1> QED BY <1>7, <1>9 DEF IInv

LEMMA PolledKey ==
    ASSUME IInv, NEW X, NEW e, Polled(X, e), Settled(S),
           e.ev \in {"LINK_KEY_REQUEST", "PIN_CODE_REQUEST"}
    PROVE  IInv'
<1> DEFINE Y == event_handler(X, e)
<1>1. /\ IsLast(e) /\ ~Flying /\ e \in In(ctl.events) /\ IsEvent(e) /\ IsFair(X, e)
      /\ S.usb.ctrlOut = NONE /\ S.hci.num_cmd = 1
      /\ \A ev : Has(ev) <=> ev = e.ev
  BY HeadKnown, Alone DEF IsCompletion, IsLast
<1>2. phone.at = "pairing" /\ PairingOk
  <2>1. phone.at # "away"
    BY <1>1 DEF IInv, PhasesOk, AwayOk, Only
  <2>2. phone.at # "accepted" /\ phone.at # "paging"
    BY <1>1 DEF IInv, PhasesOk, AcceptedOk, PagingOk, Only, Polled
  <2>3. phone.at \in Before
    BY <1>1 DEF IInv, PhasesOk, LinkedOk, Only
  <2> QED BY <2>1, <2>2, <2>3 DEF Before, IInv, PhasesOk
<1>3. Silent /\ ConnIn("ACCEPTED_CONNECTION_REQUEST")
  BY <1>2 DEF PairingOk
<1>4. /\ Sound(X) /\ Settled(X) /\ X.hci.decline = HostAddr
      /\ X.usb.ctrlOut = NONE /\ X.hci.num_cmd = 1
      /\ X.hci = S.hci /\ X.usb.bulkOut = S.usb.bulkOut
  BY <1>1, <1>3 DEF Polled, SameBelow, Settled, HasConn, IInv, PhasesOk
<1> DEFINE cmd == IF e.ev = "PIN_CODE_REQUEST" THEN "PIN_CODE" ELSE "LINK_KEY_NEGATIVE"
<1>5. Replied(X, Y, cmd) /\ SameConn(X, Y)
  BY <1>1, <1>4, KeyAnswered
<1>6. S' = Y
  BY DEF Polled
<1> HIDE DEF Y
<1>7. /\ Sound(S') /\ Settled(S')
      /\ S'.hci.decline = HostAddr
      /\ ~S.hci.overrun => ~S'.hci.overrun
      /\ S'.hci.num_cmd = 0
      /\ S'.usb.ctrlOut # NONE /\ S'.usb.ctrlOut.cmd \in {"PIN_CODE", "LINK_KEY_NEGATIVE"}
      /\ S'.usb.buffer = S'.usb.ctrlOut /\ S'.usb.bulkOut = S.usb.bulkOut
      /\ SameConn(S, S') /\ ~connection_for_handle(S')
  <2>1. SameConn(S, S') /\ ~connection_for_handle(S')
    BY <1>3, <1>4, <1>5, <1>6 DEF SameConn, HasConn, connection_for_handle, Silent
  <2> QED BY <1>4, <1>5, <1>6, <2>1 DEF Replied
<1>8. /\ ShapeOk' /\ TokenOk' /\ EndpointsOk' /\ BootOk'
      /\ Silent' /\ Flying' /\ ctl'.events = <<>> /\ Only({})'
  BY <1>1, <1>3, <1>7, Commanding
<1>9. PairingOk' /\ phone'.at = "pairing"
  BY <1>2, <1>7, <1>8 DEF PairingOk, Carries, ConnIn, SameConn, Only, Polled
<1>10. HasConn(S') => S'.hci.conn.addr = Phone
  BY <1>7 DEF SameConn, IInv, PhasesOk
<1>11. PhasesOk'
  BY <1>7, <1>8, <1>9, <1>10 DEF PhasesOk, Before
<1> QED BY <1>8, <1>11 DEF IInv

LEMMA PolledEnd ==
    ASSUME IInv, NEW X, NEW e, Polled(X, e), Settled(S), e.ev = "DISCONNECTION_COMPLETE"
    PROVE  IInv'
<1> DEFINE Y == event_handler(X, e)
<1>1. /\ IsLast(e) /\ ~Flying /\ e \in In(ctl.events) /\ IsEvent(e) /\ IsFair(X, e)
      /\ ~Answered /\ S.usb.ctrlOut = NONE /\ S.hci.num_cmd = 1
      /\ \A ev : Has(ev) <=> ev = "DISCONNECTION_COMPLETE"
      /\ QueueOk(ctl'.events) /\ ctl'.events = <<>> /\ In(ctl'.events) = {} /\ ~Answered'
  BY HeadKnown, Alone DEF IsCompletion, IsLast
<1>2. phone.at = "away" /\ AwayOk
  <2>1. phone.at # "paging" /\ phone.at # "accepted" /\ phone.at # "pairing"
    BY <1>1 DEF IInv, PhasesOk, AcceptedOk, PagingOk, PairingOk, Only, Polled
  <2>2. phone.at \in Before
    BY <1>1 DEF IInv, PhasesOk, LinkedOk, Only
  <2> QED BY <2>1, <2>2 DEF Before, IInv, PhasesOk
<1>3. connection_for_handle(S)
  BY <1>1, <1>2 DEF AwayOk, Opens
<1>4. /\ Sound(X) /\ Settled(X) /\ X.hci.decline = HostAddr /\ connection_for_handle(X)
      /\ X.hci = S.hci
  BY <1>3 DEF Polled, SameBelow, Settled, HasConn, connection_for_handle, IInv, PhasesOk
<1>5. Steady(X, Y) /\ Y.hci.num_cmd = X.hci.num_cmd /\ ~HasConn(Y)
  BY <1>1, <1>4, DisconnectionIsSteady
<1>6. S' = Y
  BY DEF Polled
<1> HIDE DEF Y
<1>7. /\ Sound(S') /\ Settled(S') /\ S'.hci.decline = HostAddr /\ ~S'.hci.overrun
      /\ S'.hci.num_cmd = 1 /\ S'.usb.ctrlOut = NONE /\ ~HasConn(S')
  BY <1>1, <1>4, <1>5, <1>6 DEF Steady, Polled, IInv, TokenOk
<1>8. \/ S'.usb.bulkOut = S.usb.bulkOut /\ S'.usb.buffer = S.usb.buffer
      \/ S.usb.bulkOut = NONE /\ S'.usb.bulkOut \in {NONE, S'.usb.buffer}
  BY <1>5, <1>6 DEF Steady, Bulk, Polled
<1>9. ~Flying' /\ ~Has("DISCONNECTION_COMPLETE")' /\ Only({"COMMAND_COMPLETE"})'
  BY <1>1, <1>7 DEF Flying, Has, Only
<1>10. ShapeOk' /\ TokenOk'
  BY <1>1, <1>7, <1>9 DEF IInv, ShapeOk, TokenOk, Polled
<1>11. EndpointsOk'
  BY <1>1, <1>7, <1>8, <1>9 DEF IInv, EndpointsOk, Polled
<1>12. AwayOk' /\ phone'.at = "away"
  BY <1>2, <1>7, <1>9 DEF AwayOk, Polled
<1>13. PhasesOk'
  BY <1>7, <1>9, <1>12 DEF PhasesOk, Before
<1>14. BootOk'
  BY <1>7 DEF BootOk, Booting, Going, HasScan, Waits, Unnamed, Settled
<1> QED BY <1>10, <1>11, <1>13, <1>14 DEF IInv

LEMMA PollEventsStep == IInv /\ PollEvents => IInv'
<1> SUFFICES ASSUME IInv, PollEvents PROVE IInv'
  OBVIOUS
<1> DEFINE X == [S EXCEPT !.usb.intIn = FALSE]
           e == Head(ctl.events)
<1>1. turn <= 0 /\ ctl.events # <<>> /\ turn' = 1
  BY DEF PollEvents, Reaches, Ready, EventDone
<1>2. /\ SameBelow(S, X) /\ X.usb.ctrlOut = S.usb.ctrlOut
      /\ X.usb.bulkOut = S.usb.bulkOut /\ X.usb.buffer = S.usb.buffer
  BY UsbFields DEF IInv, ShapeOk
<1>3. S' = event_handler(X, e)
  BY DEF PollEvents
<1>4. /\ DOMAIN ctl' = DOMAIN ctl /\ ctl'.link = ctl.link /\ ctl'.acl = ctl.acl
      /\ ctl'.events = Tail(ctl.events)
      /\ UNCHANGED <<done, radio, phone, written>>
  BY DEF PollEvents, IInv, ShapeOk
<1> HIDE DEF X
<1>5. Polled(X, e)
  BY <1>1, <1>2, <1>3, <1>4 DEF Polled
<1>6. IsEvent(e)
  BY <1>5, HeadKnown
<1> HIDE DEF e
<1>7. CASE ~Settled(S)
  BY <1>5, <1>7, PolledStarting
<1>8. CASE Settled(S)
  BY <1>5, <1>6, <1>8, PolledOrdinary, PolledRequest, PolledKey, PolledEnd DEF IsEvent, IsLast
<1> QED BY <1>7, <1>8

\* Channels that are opened get numbers of their own while the 16 bits last.
ChannelNumbersLast == S.l2cap.next_cid < 65535

\* A settled step that leaves the queue of events alone.
LEMMA UnheardStep ==
    ASSUME IInv, ~Flying, Settled(S),
           NEW X, X.hci = S.hci, Steady(X, S'), Leaves(X, S'),
           X.usb.ctrlOut # NONE <=> "ctrlOut" \in done',
           "ctrlOut" \in done' /\ ~Answered => turn' \in 1 .. 3,
           done' \subseteq done,
           \/ /\ X.usb.bulkOut = S.usb.bulkOut /\ X.usb.buffer = S.usb.buffer
              /\ "bulkOut" \in done' <=> "bulkOut" \in done
           \/ X.usb.bulkOut = NONE /\ "bulkOut" \notin done',
           Silent => S'.usb.bulkOut = S.usb.bulkOut,
           DOMAIN ctl' = DOMAIN ctl, ctl'.link = ctl.link, ctl'.events = ctl.events,
           ctl.acl = <<>> => ctl'.acl = <<>>,
           UNCHANGED <<radio, phone>>
    PROVE  IInv'
<1>1. Answered' <=> Answered
  BY DEF Answered
<1>2. /\ Sound(S') /\ Settled(S') /\ S'.hci.decline = HostAddr /\ S'.hci.overrun = S.hci.overrun
      /\ S'.hci.num_cmd = S.hci.num_cmd /\ S'.usb.ctrlOut = X.usb.ctrlOut
  BY DEF Steady, Leaves
<1>3. SameConn(S, S')
  BY DEF Leaves, SameConn, HasConn
<1>4. /\ HasConn(S') <=> HasConn(S)
      /\ HasConn(S) => S'.hci.conn.addr = S.hci.conn.addr
      /\ connection_for_handle(S) => connection_for_handle(S')
  BY <1>3 DEF SameConn, HasConn, connection_for_handle
<1>5. \/ /\ S'.usb.bulkOut = S.usb.bulkOut /\ S'.usb.buffer = S.usb.buffer
         /\ "bulkOut" \in done' <=> "bulkOut" \in done
      \/ "bulkOut" \notin done' /\ S'.usb.bulkOut \in {NONE, S'.usb.buffer}
  BY Apart DEF Steady, Bulk
<1>6. S'.hci.num_cmd \in {0, 1} /\ (S'.hci.num_cmd = 0 <=> Answered')
  BY <1>1, <1>2, Apart DEF IInv, TokenOk
<1>7. QueueOk(ctl'.events) /\ \A d \in In(ctl.events) : d \in In(ctl'.events)
  BY DEF IInv, ShapeOk
<1> QED BY <1>1, <1>2, <1>3, <1>4, <1>5, <1>6, <1>7, SteadyStep

LEMMA PollAclStep == IInv /\ ChannelNumbersLast /\ PollAcl => IInv'
<1> SUFFICES ASSUME IInv, ChannelNumbersLast, PollAcl PROVE IInv'
  OBVIOUS
<1> DEFINE X == [S EXCEPT !.usb.bulkIn = FALSE]
           p == Head(ctl.acl)
           Y == acl_handler(X, p)
<1>1. ctl.acl # <<>> /\ turn' = 2 /\ S' = Y
  BY DEF PollAcl, Reaches, Ready, AclDone
<1>2. /\ SameBelow(S, X) /\ X.usb.ctrlOut = S.usb.ctrlOut
      /\ X.usb.bulkOut = S.usb.bulkOut /\ X.usb.buffer = S.usb.buffer
  BY UsbFields DEF IInv, ShapeOk
<1>3. /\ DOMAIN ctl' = DOMAIN ctl /\ ctl'.link = ctl.link /\ ctl'.events = ctl.events
      /\ UNCHANGED <<done, radio, phone>>
  BY DEF PollAcl, IInv, ShapeOk
<1> HIDE DEF X
<1>4. ~Silent /\ Settled(S) /\ ~Flying
  BY <1>1, Apart DEF Silent
<1>5. Sound(X) /\ Settled(X) /\ X.hci.decline = HostAddr /\ X.l2cap.next_cid < 65535 /\ X.hci = S.hci
  BY <1>2, <1>4 DEF SameBelow, Settled, HasConn, IInv, PhasesOk, ChannelNumbersLast
<1>6. Steady(X, Y) /\ Leaves(X, Y)
  BY <1>5, AclSteady
<1> HIDE DEF p, Y
<1>7. X.usb.ctrlOut # NONE <=> "ctrlOut" \in done'
  BY <1>2, <1>3, <1>4, Apart
<1>8. turn' \in 1 .. 3
  BY <1>1
<1> QED BY <1>1, <1>2, <1>3, <1>4, <1>5, <1>6, <1>7, <1>8, UnheardStep

\* An event that does not speak of packets leaves their count.
LEMMA NotedCounts ==
    ASSUME NEW X, NEW T, NEW Y, NEW e, Noted(X, T, e), Counted(T, Y),
           ~IsCompletion(e), e.ev \notin {"COMPLETED_PACKETS", "CONNECTION_COMPLETE"}
    PROVE  Counted(X, Y)
<1>1. /\ T.hci.total_acl = X.hci.total_acl /\ T.usb = X.usb
      /\ HasConn(T) <=> HasConn(X)
      /\ HasConn(X) => T.hci.conn.sent = X.hci.conn.sent
  BY DEF Noted, IsCompletion
<1>2. hci_number_free_acl_slots(T) = hci_number_free_acl_slots(X)
  BY <1>1 DEF hci_number_free_acl_slots, HasConn
<1> QED BY <1>1, <1>2 DEF Counted

LEMMA PacketSent ==
    ASSUME NEW X, Sound(X), Settled(X), X.hci.decline = HostAddr,
           HasConn(X) => X.hci.conn.addr = Phone
    PROVE  LET Y == event_handler(X, Event("PACKET_SENT"))
           IN  /\ Steady(X, Y) /\ Leaves(X, Y)
               /\ ~connection_for_handle(X) => Y.usb.bulkOut = X.usb.bulkOut
<1> DEFINE e == Event("PACKET_SENT")
           Y == event_handler(X, e)
<1>1. e.ev = "PACKET_SENT" /\ e.ok = TRUE /\ e.addr = Phone
  BY DEF Event
<1> HIDE DEF e
<1>2. IsFair(X, e) /\ e.ev \in Ordinary /\ ~IsCompletion(e) /\ e.ev # "CONNECTION_COMPLETE"
  BY <1>1 DEF IsFair, Ordinary, IsCompletion
<1>3. /\ Steady(X, Y)
      /\ Y.hci.num_cmd = IF IsCompletion(e) THEN e.num ELSE X.hci.num_cmd
      /\ HasConn(Y) <=> HasConn(X)
      /\ HasConn(X) => (e.ev # "CONNECTION_COMPLETE" => SameConn(X, Y))
      /\ ~connection_for_handle(X) /\ e.ev # "CONNECTION_COMPLETE" => Y.usb.bulkOut = X.usb.bulkOut
      /\ \E T : Noted(X, T, e) /\ Counted(T, Y)
  BY <1>2, EventIsSteady
<1>4. Leaves(X, Y)
  <2> HIDE DEF Y
  <2>1. PICK T : Noted(X, T, e) /\ Counted(T, Y)
    BY <1>3
  <2>2. Counted(X, Y)
    BY <1>1, <2>1, NotedCounts DEF IsCompletion
  <2> QED BY <1>2, <1>3, <2>2 DEF Leaves, SameConn
<1>5. ~connection_for_handle(X) => Y.usb.bulkOut = X.usb.bulkOut
  BY <1>2, <1>3
<1> QED BY <1>3, <1>4, <1>5 DEF e

LEMMA PollBulkOutStep == IInv /\ PollBulkOut => IInv'
<1> SUFFICES ASSUME IInv, PollBulkOut PROVE IInv'
  OBVIOUS
<1> DEFINE X == [S EXCEPT !.usb.bulkOut = NONE]
           Y == event_handler(X, Event("PACKET_SENT"))
<1>1. "bulkOut" \in done /\ turn' = 3 /\ S' = Y
  BY DEF PollBulkOut, Reaches, Ready
<1>2. /\ SameBelow(S, X) /\ X.usb.ctrlOut = S.usb.ctrlOut
      /\ X.usb.bulkOut = NONE /\ X.usb.buffer = S.usb.buffer
  BY UsbFields DEF IInv, ShapeOk
<1>3. done' = done \ {"bulkOut"} /\ UNCHANGED <<ctl, radio, phone>>
  BY DEF PollBulkOut
<1> HIDE DEF X
<1>4. ~Silent /\ Settled(S) /\ ~Flying
  BY <1>1, Apart DEF Silent
<1>5. /\ Sound(X) /\ Settled(X) /\ X.hci.decline = HostAddr /\ X.hci = S.hci
      /\ HasConn(X) => X.hci.conn.addr = Phone
  BY <1>2, <1>4 DEF SameBelow, Settled, HasConn, IInv, PhasesOk
<1>6. Steady(X, Y) /\ Leaves(X, Y)
  BY <1>5, PacketSent
<1> HIDE DEF Y
<1>7. (X.usb.ctrlOut # NONE <=> "ctrlOut" \in done') /\ done' \subseteq done /\ "bulkOut" \notin done'
  BY <1>2, <1>3, <1>4, Apart
<1>8. turn' \in 1 .. 3
  BY <1>1
<1> QED BY <1>1, <1>2, <1>3, <1>4, <1>5, <1>6, <1>7, <1>8, UnheardStep

LEMMA PollControlOutStep == IInv /\ PollControlOut => IInv'
<1> SUFFICES ASSUME IInv, PollControlOut PROVE IInv'
  OBVIOUS
<1> DEFINE X == [S EXCEPT !.usb.ctrlOut = NONE]
           e == Event("PACKET_SENT")
           Y == event_handler(X, e)
<1>1. "ctrlOut" \in done /\ S' = Y
  BY DEF PollControlOut, Reaches, Ready
<1>2. /\ SameBelow(S, X) /\ X.usb.ctrlOut = NONE
      /\ X.usb.bulkOut = S.usb.bulkOut /\ X.usb.buffer = S.usb.buffer
  BY UsbFields DEF IInv, ShapeOk
<1>3. done' = done \ {"ctrlOut"} /\ UNCHANGED <<ctl, radio, phone>>
  BY DEF PollControlOut
<1> HIDE DEF X
<1>4. ~Flying
  BY <1>1 DEF Flying
<1>5. "ctrlOut" \notin done' /\ done' \subseteq done /\ ("bulkOut" \in done' <=> "bulkOut" \in done)
  BY <1>3
<1>6. CASE Settled(S)
  <2>1. /\ Sound(X) /\ Settled(X) /\ X.hci.decline = HostAddr /\ X.hci = S.hci
        /\ HasConn(X) => X.hci.conn.addr = Phone
    BY <1>2, <1>6 DEF SameBelow, Settled, HasConn, IInv, PhasesOk
  <2>2. Steady(X, Y) /\ Leaves(X, Y) /\ (~connection_for_handle(X) => Y.usb.bulkOut = X.usb.bulkOut)
    BY <2>1, PacketSent
  <2> HIDE DEF Y
  <2>3. Silent => S'.usb.bulkOut = S.usb.bulkOut
    BY <1>1, <1>2, <2>1, <2>2 DEF Silent, connection_for_handle
  <2> QED BY <1>1, <1>2, <1>3, <1>4, <1>5, <1>6, <2>1, <2>2, <2>3, UnheardStep
<1>7. CASE ~Settled(S)
  <2>1. ~HasConn(S) /\ (ctl.events # <<>> => Answered)
    BY <1>7, Unsettled
  <2>2. /\ Sound(X) /\ ~HasConn(X) /\ X.hci.decline = HostAddr /\ Booting(X)
        /\ X.hci = S.hci /\ X.hci.num_cmd \in {0, 1}
    BY <1>2, <2>1 DEF SameBelow, Booting, Going, HasScan, HasConn, IInv, TokenOk, BootOk, PhasesOk
  <2>3. e.ev = "PACKET_SENT" /\ IsFair(X, e) /\ ~IsCompletion(e)
    BY <2>2 DEF Event, IsFair, IsCompletion
  <2> HIDE DEF e
  <2>4. /\ Sound(Y) /\ Starts(Y) /\ Waits(Y) /\ Y.usb.bulkOut = X.usb.bulkOut
        /\ StartLeft(X, Y, e)
    BY <2>2, <2>3, StartStep
  <2> HIDE DEF Y
  <2>5. QueueOk(ctl'.events) /\ ctl'.events = ctl.events /\ ~S.hci.overrun
    BY <1>3 DEF IInv, ShapeOk, TokenOk
  <2>6. (Answered' <=> Answered) /\ (S.hci.num_cmd = 0 <=> Answered)
    BY <1>3, <1>4, Apart DEF Answered
  <2>7. CASE /\ Y.usb.ctrlOut = X.usb.ctrlOut
             /\ Y.hci.overrun = X.hci.overrun
             /\ Y.hci.num_cmd = X.hci.num_cmd
             /\ Unnamed(Y) <=> Unnamed(X)
    <3>1. Unnamed(S) => Answered /\ Head(ctl.events).cmd = "WRITE_LOCAL_NAME"
      BY <1>4 DEF IInv, BootOk, Carries
    <3>2. Unnamed(S') => Answered' /\ Head(ctl'.events).cmd = "WRITE_LOCAL_NAME"
      BY <1>1, <2>2, <2>5, <2>6, <2>7, <3>1 DEF Unnamed
    <3>3. S'.usb.ctrlOut = NONE /\ ~S'.hci.overrun /\ (S'.hci.num_cmd = 0 <=> Answered')
      BY <1>1, <1>2, <2>2, <2>5, <2>6, <2>7
    <3> QED BY <1>1, <1>2, <1>3, <1>5, <1>7, <2>4, <2>5, <3>2, <3>3, StartingStep
  <2>8. CASE \E Z : /\ StartSent(Z, Y)
                    /\ Z.hci.overrun = X.hci.overrun
                    /\ Z.hci.num_cmd = X.hci.num_cmd
    <3>1. /\ Y.usb.ctrlOut # NONE /\ Y.usb.ctrlOut.cmd \notin ForPhones
          /\ Y.usb.buffer = Y.usb.ctrlOut
          /\ Y.hci.num_cmd = 0
          /\ ~X.hci.overrun => ~Y.hci.overrun
          /\ Unnamed(Y) => Y.usb.ctrlOut.cmd = "WRITE_LOCAL_NAME"
          /\ X.hci.num_cmd = 1
      BY <2>8 DEF StartSent
    <3>2. ctl.events = <<>>
      BY <2>1, <2>2, <2>6, <3>1
    <3>3. ~S'.hci.overrun
      BY <1>1, <2>2, <2>5, <3>1
    <3> QED BY <1>1, <1>2, <1>3, <1>5, <1>7, <2>4, <2>5, <3>1, <3>2, <3>3, StartingStep
  <2> QED BY <2>3, <2>4, <2>7, <2>8 DEF StartLeft
<1> QED BY <1>6, <1>7

LEMMA TasksStep == IInv /\ Tasks => IInv'
<1> SUFFICES ASSUME IInv, Tasks PROVE IInv'
  OBVIOUS
<1> DEFINE X == [S EXCEPT !.usb.intIn = TRUE, !.usb.bulkIn = TRUE]
<1>1. S' = BTGrant(X) /\ UNCHANGED <<done, ctl, radio, phone>>
  BY DEF Tasks
<1>2. /\ SameBelow(S, X) /\ X.usb.ctrlOut = S.usb.ctrlOut
      /\ X.usb.bulkOut = S.usb.bulkOut /\ X.usb.buffer = S.usb.buffer
  BY UsbFields DEF IInv, ShapeOk
<1> HIDE DEF X
<1>3. Handled(X, S') /\ S'.usb = X.usb /\ S'.hci = X.hci
  BY <1>1, <1>2, OnlyApp DEF SameBelow
<1>4. Sound(S')
  BY <1>3 DEF Handled
<1>5. turn \in 1 .. 3 => "ctrlOut" \notin done
  <2>1. turn \in 1 .. 3 => 3 \in turn .. 3
    OBVIOUS
  <2>2. \A n \in turn .. 3 : ~Ready(n)
    BY DEF Tasks
  <2>3. Ready(3) <=> "ctrlOut" \in done
    BY DEF Ready
  <2> QED BY <2>1, <2>2, <2>3
<1>6. "ctrlOut" \in done => Answered
  BY <1>5 DEF IInv, EndpointsOk
<1> QED BY <1>1, <1>2, <1>3, <1>4, <1>6, QuietStep DEF SameBelow

LEMMA CloseStep == IInv /\ Close => IInv'
<1> SUFFICES ASSUME IInv, Close PROVE IInv'
  OBVIOUS
<1>1. S' = BTClose(S) /\ UNCHANGED <<turn, done, ctl, radio, phone>>
  BY DEF Close
<1>2. Handled(S, S') /\ S'.usb = S.usb /\ S'.hci = S.hci
  BY <1>1, OnlyApp DEF IInv, ShapeOk
<1>3. Sound(S')
  BY <1>2 DEF Handled
<1>4. "ctrlOut" \in done /\ ~Answered => turn' \in 1 .. 3
  BY <1>1 DEF IInv, EndpointsOk
<1> QED BY <1>1, <1>2, <1>3, <1>4, QuietStep

LEMMA WriteStep == IInv /\ Write => IInv'
<1> SUFFICES ASSUME IInv, Write PROVE IInv'
  OBVIOUS
<1>1. S' = BTWrite(S, written + 1) /\ UNCHANGED <<turn, done, ctl, radio, phone>>
  BY DEF Write
<1>2. Sound(S) /\ connection_for_handle(S)
  BY WriteNeedsConnection DEF Write, IInv, ShapeOk
<1>3. ~Silent /\ Settled(S) /\ ~Flying
  BY <1>2, Apart DEF Silent
<1>4. S.hci.decline = HostAddr
  BY DEF IInv, PhasesOk
<1>5. Steady(S, S') /\ Leaves(S, S')
  BY <1>1, <1>2, <1>3, <1>4, WriteIsSteady
<1>6. "ctrlOut" \in done /\ ~Answered => turn' \in 1 .. 3
  BY <1>1 DEF IInv, EndpointsOk
<1>7. S.usb.ctrlOut # NONE <=> "ctrlOut" \in done'
  BY <1>1, <1>3, Apart
<1> QED BY <1>1, <1>3, <1>5, <1>6, <1>7, UnheardStep

\* The command is the one in the buffer.
LEMMA TakeCommandStep == IInv /\ TakeCommand => IInv'
<1> SUFFICES ASSUME IInv, TakeCommand PROVE IInv'
  OBVIOUS
<1> DEFINE c == S.usb.buffer
           q == EventsOf(c)
           at == CASE c.cmd = "ACCEPT" -> "accepted"
                   [] c.cmd = "PIN_CODE" -> "linked"
                   [] OTHER -> phone.at
<1>1. Flying /\ c = S.usb.ctrlOut /\ S.usb.ctrlOut # NONE /\ S.hci.num_cmd = 0 /\ ctl.events = <<>>
  BY DEF TakeCommand, Flying, IInv, TokenOk, EndpointsOk
<1>2. Answering(q, c)
  BY CommandAnswered
<1>3. ctl'.events = q
  <2>1. ctl'.events = ctl.events \o q
    BY DEF TakeCommand, IInv, ShapeOk
  <2>2. \E n \in Nat : DOMAIN q = 1 .. n /\ q = [i \in 1 .. n |-> q[i]]
    BY <1>2, ListBasics DEF Answering, QueueOk
  <2> HIDE DEF q
  <2>3. q \in Seq({q[i] : i \in DOMAIN q})
    BY <2>2
  <2> QED BY <1>1, <2>1, <2>3
<1>4. /\ UNCHANGED <<S, turn, radio>> /\ done' = done \union {"ctrlOut"}
      /\ DOMAIN ctl' = DOMAIN ctl /\ ctl'.acl = ctl.acl
      /\ c.cmd # "PIN_CODE" => (ctl'.link <=> ctl.link)
      /\ c.cmd = "PIN_CODE" => ctl'.link
  BY DEF TakeCommand, IInv, ShapeOk
<1>5. "at" \in DOMAIN phone' /\ phone'.at = at
  BY DEF TakeCommand, IInv, ShapeOk
<1> HIDE DEF q
<1>6. Answered' /\ ~Flying'
  BY <1>2, <1>3, <1>4 DEF Answered, Flying, Answering
<1>7. Silent /\ phone.at \in {"away", "paging", "pairing"}
  BY <1>1 DEF IInv, PhasesOk
<1>8. c.cmd # "PIN_CODE" => Silent'
  BY <1>4, <1>7 DEF Silent
<1>9. /\ Head(q) \in In(q) => Head(q).ev \in {"COMMAND_STATUS", "COMMAND_COMPLETE"}
      /\ \A ev : Has(ev)' <=> \E e \in In(q) : e.ev = ev
      /\ \A evs : Only(evs)' <=> \A e \in In(q) : e.ev \in evs
      /\ ctl'.events # <<>>
  BY <1>2, <1>3 DEF Has, Only, Answering
<1>10. ShapeOk'
  BY <1>2, <1>3, <1>4, <1>5 DEF IInv, ShapeOk, Answering
<1>11. TokenOk'
  BY <1>1, <1>4, <1>6 DEF IInv, TokenOk
<1>12. EndpointsOk'
  BY <1>1, <1>4, <1>6 DEF IInv, EndpointsOk
<1>13. BootOk'
  <2>1. Unnamed(S) => c.cmd = "WRITE_LOCAL_NAME"
    BY <1>1 DEF IInv, BootOk, Carries, Answered
  <2>2. c.cmd = "WRITE_LOCAL_NAME" => Head(q).cmd = "WRITE_LOCAL_NAME"
    BY <1>2 DEF Answering
  <2> QED BY <1>3, <1>4, <1>6, <2>1, <2>2 DEF IInv, BootOk
<1> HIDE DEF c, at
<1>14. CASE phone.at = "away"
  <2>1. AwayOk /\ ~Has("DISCONNECTION_COMPLETE")
    BY <1>1, <1>14 DEF IInv, PhasesOk, AwayOk
  <2>2. c.cmd \notin ForPhones /\ ~HasConn(S)
    BY <1>1, <2>1 DEF AwayOk
  <2>3. phone'.at = "away" /\ Silent'
    BY <1>5, <1>8, <1>14, <2>2 DEF at, ForPhones
  <2>4. \A e \in In(q) : e.ev = "COMMAND_COMPLETE"
    BY <1>2, <2>2 DEF Answering, ForPhones
  <2>5. AwayOk'
    BY <1>4, <1>6, <1>9, <2>1, <2>2, <2>3, <2>4 DEF AwayOk, Silent
  <2>6. PhasesOk'
    BY <1>4, <1>6, <2>2, <2>3, <2>5 DEF IInv, PhasesOk, Before
  <2> QED BY <1>10, <1>11, <1>12, <1>13, <2>6 DEF IInv
<1>15. CASE phone.at = "paging"
  <2>1. c.cmd = "ACCEPT" /\ ConnIn("ACCEPTED_CONNECTION_REQUEST") /\ Settled(S)
    BY <1>1, <1>15 DEF IInv, PhasesOk, PagingOk, Carries
  <2>2. phone'.at = "accepted" /\ Silent'
    BY <1>5, <1>8, <2>1 DEF at
  <2>3. \A e \in In(q) : e.ev = "COMMAND_STATUS"
    BY <1>2, <2>1 DEF Answering
  <2>4. AcceptedOk'
    BY <1>4, <1>6, <1>9, <2>1, <2>2, <2>3 DEF AcceptedOk, ConnIn
  <2>5. PhasesOk'
    BY <1>4, <1>6, <2>1, <2>2, <2>4 DEF IInv, PhasesOk, Before
  <2> QED BY <1>10, <1>11, <1>12, <1>13, <2>5 DEF IInv
<1>16. CASE phone.at = "pairing" /\ c.cmd = "LINK_KEY_NEGATIVE"
  <2>1. ConnIn("ACCEPTED_CONNECTION_REQUEST") /\ Settled(S)
    BY <1>16 DEF IInv, PhasesOk, PairingOk
  <2>2. phone'.at = "pairing" /\ Silent'
    BY <1>5, <1>8, <1>16 DEF at
  <2>3. /\ \A e \in In(q) : e.ev \in {"COMMAND_COMPLETE", "PIN_CODE_REQUEST"}
        /\ \E e \in In(q) : e.ev = "PIN_CODE_REQUEST"
    BY <1>2, <1>16 DEF Answering
  <2>4. PairingOk'
    BY <1>4, <1>6, <1>9, <2>1, <2>2, <2>3 DEF PairingOk, ConnIn
  <2>5. PhasesOk'
    BY <1>4, <1>6, <2>1, <2>2, <2>4 DEF IInv, PhasesOk, Before
  <2> QED BY <1>10, <1>11, <1>12, <1>13, <2>5 DEF IInv
<1>17. CASE phone.at = "pairing" /\ c.cmd = "PIN_CODE"
  <2>1. HasConn(S) /\ Settled(S)
    BY <1>17 DEF IInv, PhasesOk, PairingOk, ConnIn
  <2>2. phone'.at = "linked" /\ ctl'.link
    BY <1>4, <1>5, <1>17 DEF at
  <2>3. /\ \A e \in In(q) : e.ev \in {"COMMAND_COMPLETE", "CONNECTION_COMPLETE"}
        /\ \E e \in In(q) : e.ev = "CONNECTION_COMPLETE"
    BY <1>2, <1>17 DEF Answering
  <2>4. LinkedOk'
    BY <1>4, <1>6, <1>9, <2>1, <2>2, <2>3 DEF LinkedOk, Opens
  <2>5. PhasesOk'
    BY <1>4, <1>6, <2>1, <2>2, <2>4 DEF IInv, PhasesOk, Before
  <2> QED BY <1>10, <1>11, <1>12, <1>13, <2>5 DEF IInv
<1>18. phone.at = "pairing" => c.cmd \in {"LINK_KEY_NEGATIVE", "PIN_CODE"}
  BY <1>1 DEF IInv, PhasesOk, PairingOk, Carries
<1> QED BY <1>7, <1>14, <1>15, <1>16, <1>17, <1>18

\* A step of the controller or the phone: the stack does not see it yet.
LEMMA OutsideStep ==
    ASSUME IInv, Settled(S), ~Flying, UNCHANGED <<S, turn>>,
           done' \subseteq {"ctrlOut", "bulkOut"},
           "ctrlOut" \in done' <=> "ctrlOut" \in done,
           "bulkOut" \in done => "bulkOut" \in done',
           "bulkOut" \in done' => S.usb.bulkOut # NONE,
           DOMAIN ctl' = DOMAIN ctl, "at" \in DOMAIN phone',
           QueueOk(ctl'.events), Answered' <=> Answered,
           ~Flying' =>
               \/ phone'.at = "away" /\ AwayOk'
               \/ phone'.at = "paging" /\ PagingOk'
               \/ phone'.at = "accepted" /\ AcceptedOk'
               \/ phone'.at = "pairing" /\ PairingOk'
               \/ phone'.at \notin Before /\ LinkedOk'
    PROVE  IInv'
<1>1. ~Flying'
  BY DEF Flying
<1>2. Settled(S')
  BY DEF Settled, HasConn
<1>3. ShapeOk'
  BY DEF IInv, ShapeOk
<1>4. TokenOk'
  BY <1>1 DEF IInv, TokenOk
<1>5. EndpointsOk'
  BY <1>1 DEF IInv, EndpointsOk
<1>6. BootOk'
  <2>1. ~Unnamed(S')
    BY <1>2 DEF Unnamed, Settled
  <2> QED BY <2>1 DEF IInv, BootOk
<1>7. PhasesOk'
  <2>1. S'.hci.decline = HostAddr /\ (HasConn(S') => S'.hci.conn.addr = Phone)
    BY DEF IInv, PhasesOk
  <2> QED BY <1>1, <1>2, <2>1 DEF PhasesOk, Before
<1> QED BY <1>3, <1>4, <1>5, <1>6, <1>7 DEF IInv

\* An event that is not an answer goes to the end of the queue.
LEMMA Enqueued ==
    ASSUME IInv, NEW e, IsEvent(e), ~IsCompletion(e), \A x \in In(ctl.events) : ~IsLast(x),
           ctl'.events = Append(ctl.events, e)
    PROVE  /\ QueueOk(ctl'.events) /\ In(ctl'.events) = In(ctl.events) \union {e}
           /\ ctl'.events # <<>> /\ (Answered' <=> Answered)
<1>1. /\ QueueOk(ctl'.events) /\ In(ctl'.events) = In(ctl.events) \union {e}
      /\ ctl'.events # <<>>
      /\ Head(ctl'.events) = IF ctl.events = <<>> THEN e ELSE Head(ctl.events)
  BY Queued DEF IInv, ShapeOk
<1> QED BY <1>1 DEF Answered

\* A phone with a connection, or anything on the air, or a link.
LEMMA PhoneIsUp ==
    ASSUME IInv, phone.at \notin Before \/ radio # <<>> \/ ctl.link
    PROVE  /\ IsUp(phone) /\ LinkedOk /\ Settled(S) /\ ~Flying
           /\ \A x \in In(ctl.events) : ~IsLast(x)
<1>1. phone.at \notin Before
  BY DEF IInv, PhasesOk, AwayOk, PagingOk, AcceptedOk, PairingOk, Silent, Before
<1>2. IsUp(phone) /\ LinkedOk /\ Settled(S)
  BY <1>1 DEF IInv, ShapeOk, PhasesOk, IsUp, Before
<1> QED BY <1>2 DEF LinkedOk, Only, IsLast

LEMMA TakeAclStep == IInv /\ TakeAcl => IInv'
<1> SUFFICES ASSUME IInv, TakeAcl PROVE IInv'
  OBVIOUS
<1>1. /\ S.usb.bulkOut # NONE /\ done' = done \union {"bulkOut"}
      /\ UNCHANGED <<S, turn, ctl, phone>>
      /\ ~ctl.link => radio' = radio
  BY DEF TakeAcl
<1>2. ~Silent /\ Settled(S) /\ ~Flying
  BY <1>1, Apart DEF Silent
<1>3. Answered' <=> Answered
  BY <1>1 DEF Answered
<1>4. (\A ev : Has(ev)' <=> Has(ev)) /\ (\A evs : Only(evs)' <=> Only(evs)) /\ (Opens' <=> Opens)
  BY <1>1 DEF Has, Only, Opens
<1>5. ASSUME ~Flying'
      PROVE  \/ phone'.at = "away" /\ AwayOk'
             \/ phone'.at \notin Before /\ LinkedOk'
  <2>1. phone.at = "away" \/ phone.at \notin Before
    BY <1>2 DEF IInv, PhasesOk, PagingOk, AcceptedOk, PairingOk, Before
  <2>2. CASE phone.at = "away"
    <3>1. AwayOk
      BY <2>2 DEF IInv, PhasesOk
    <3>2. AwayOk'
      BY <1>1, <1>2, <1>4, <1>5, <3>1 DEF AwayOk
    <3> QED BY <1>1, <2>2, <3>2
  <2>3. CASE phone.at \notin Before
    <3>1. LinkedOk
      BY <2>3, PhoneIsUp
    <3>2. LinkedOk'
      BY <1>1, <1>4, <1>5, <3>1 DEF LinkedOk
    <3> QED BY <1>1, <2>3, <3>2
  <2> QED BY <2>1, <2>2, <2>3
<1>6. QueueOk(ctl'.events) /\ "at" \in DOMAIN phone' /\ done' \subseteq {"ctrlOut", "bulkOut"}
  BY <1>1 DEF IInv, ShapeOk, EndpointsOk
<1> QED BY <1>1, <1>2, <1>3, <1>5, <1>6, OutsideStep

\* What the phone does with a connection that stays.
LEMMA UpStep ==
    ASSUME IInv, phone.at \notin Before \/ radio # <<>>, IsUp(phone'),
           UNCHANGED <<S, turn, done>>, DOMAIN ctl' = DOMAIN ctl, ctl'.link = ctl.link,
           \/ ctl'.events = ctl.events
           \/ ctl'.events = Append(ctl.events, [Event("COMPLETED_PACKETS") EXCEPT !.num = 1])
    PROVE  IInv'
<1> DEFINE e == [Event("COMPLETED_PACKETS") EXCEPT !.num = 1]
<1>1. IsEvent(e) /\ ~IsCompletion(e) /\ ~IsLast(e) /\ e.ev = "COMPLETED_PACKETS"
  BY DEF Event, IsEvent, IsCompletion, IsLast, Ordinary
<1> HIDE DEF e
<1>2. /\ IsUp(phone) /\ LinkedOk /\ Settled(S) /\ ~Flying
      /\ \A x \in In(ctl.events) : ~IsLast(x)
  BY PhoneIsUp
<1>3. /\ QueueOk(ctl'.events) /\ (Answered' <=> Answered)
      /\ \A x \in In(ctl'.events) : x \in In(ctl.events) \/ x = e
      /\ \A x \in In(ctl.events) : x \in In(ctl'.events)
  <2>1. CASE ctl'.events = ctl.events
    BY <2>1 DEF IInv, ShapeOk, Answered
  <2>2. CASE ctl'.events = Append(ctl.events, e)
    BY <1>1, <1>2, <2>2, Enqueued
  <2> QED BY <2>1, <2>2 DEF e
<1>4. ASSUME ~Flying' PROVE LinkedOk'
  <2>1. Opens'
    BY <1>2, <1>3 DEF LinkedOk, Opens, Has
  <2>2. \A x \in In(ctl'.events) : x.ev \in {"COMMAND_COMPLETE", "COMMAND_STATUS",
                                             "CONNECTION_COMPLETE", "COMPLETED_PACKETS"}
    BY <1>1, <1>2, <1>3 DEF LinkedOk, Only
  <2> QED BY <1>2, <1>4, <2>1, <2>2 DEF LinkedOk, Only
<1>5. /\ done' \subseteq {"ctrlOut", "bulkOut"}
      /\ "bulkOut" \in done' => S.usb.bulkOut # NONE
  BY DEF IInv, EndpointsOk
<1> QED BY <1>2, <1>3, <1>4, <1>5, OutsideStep DEF IsUp

LEMMA DeliverStep == IInv /\ Deliver => IInv'
<1> SUFFICES ASSUME IInv, Deliver PROVE IInv'
  OBVIOUS
<1> DEFINE pdu == Head(radio).pdu
           step == Hears(phone, pdu)
<1>1. radio # <<>> /\ UNCHANGED <<S, turn, done>> /\ phone' = step.ph
  BY DEF Deliver
<1>2. /\ DOMAIN ctl' = DOMAIN ctl /\ ctl'.link = ctl.link
      /\ ctl'.events = Append(ctl.events, [Event("COMPLETED_PACKETS") EXCEPT !.num = 1])
  BY DEF Deliver, IInv, ShapeOk
<1> HIDE DEF pdu
<1>3. IsUp(phone)
  BY <1>1, PhoneIsUp
<1>4. IsUp(phone')
  BY <1>1, <1>3, StaysUp
<1> HIDE DEF step
<1> QED BY <1>1, <1>2, <1>4, UpStep

LEMMA PhoneStep ==
    ASSUME IInv, NEW at, at \notin Before, NEW ph, IsUp(ph), NEW out,
           PhoneDoes(at, Sends(ph, out))
    PROVE  IInv'
<1>1. Sends(ph, out).ph = ph
  BY DEF Sends
<1>2. /\ phone.at = at /\ phone' = ph /\ UNCHANGED <<S, turn, done>>
      /\ DOMAIN ctl' = DOMAIN ctl /\ ctl'.link = ctl.link /\ ctl'.events = ctl.events
  BY <1>1 DEF PhoneDoes, IInv, ShapeOk
<1> QED BY <1>2, UpStep

LEMMA TalkStep == IInv /\ (Greet \/ SendData \/ CloseChannel) => IInv'
<1> SUFFICES ASSUME IInv, Greet \/ SendData \/ CloseChannel PROVE IInv'
  OBVIOUS
<1> DEFINE greeting == [phone EXCEPT !.at = "sdp"]
           sending == [phone EXCEPT !.sent = @ + 1, !.allowed = @ - 1]
           closing == [phone EXCEPT !.at = "closing"]
<1>1. "at" \in DOMAIN phone
  BY DEF IInv, ShapeOk
<1>2. IsUp(greeting) /\ IsUp(closing) /\ (phone.at = "open" => IsUp(sending))
  BY <1>1 DEF IsUp, Before
<1>3. "linked" \notin Before /\ "open" \notin Before
  BY DEF Before
<1>4. CASE Greet
  <2>1. \E out : PhoneDoes("linked", Sends(greeting, out))
    BY <1>4, Zenon DEF Greet
  <2> HIDE DEF greeting
  <2> QED BY <1>2, <1>3, <2>1, PhoneStep
<1>5. CASE SendData
  <2>1. \E out : PhoneDoes("open", Sends(sending, out))
    BY <1>5, Zenon DEF SendData
  <2>2. phone.at = "open"
    BY <2>1 DEF PhoneDoes
  <2> HIDE DEF sending
  <2> QED BY <1>2, <1>3, <2>1, <2>2, PhoneStep
<1>6. CASE CloseChannel
  <2>1. \E out : PhoneDoes("open", Sends(closing, out))
    BY <1>6, Zenon DEF CloseChannel
  <2> HIDE DEF closing
  <2> QED BY <1>2, <1>3, <2>1, PhoneStep
<1> QED BY <1>4, <1>5, <1>6

LEMMA EndStep == IInv /\ (HangUp \/ Loss) => IInv'
<1> SUFFICES ASSUME IInv, HangUp \/ Loss PROVE IInv'
  OBVIOUS
<1> DEFINE e == Event("DISCONNECTION_COMPLETE")
<1>1. IsEvent(e) /\ ~IsCompletion(e) /\ e.ev = "DISCONNECTION_COMPLETE"
  BY DEF Event, IsEvent, IsCompletion, IsLast
<1>2. LoseLink /\ (phone.at \notin Before \/ ctl.link)
  BY DEF HangUp, Loss, Before
<1>3. /\ radio' = <<>> /\ UNCHANGED <<S, turn, done>>
      /\ DOMAIN ctl' = DOMAIN ctl /\ ~ctl'.link /\ ctl'.events = Append(ctl.events, e)
  BY <1>2 DEF LoseLink, IInv, ShapeOk
<1>4. "at" \in DOMAIN phone' /\ phone'.at = "away"
  BY DEF HangUp, Loss, Gone, IInv, ShapeOk
<1> HIDE DEF e
<1>5. /\ LinkedOk /\ Settled(S) /\ ~Flying
      /\ \A x \in In(ctl.events) : ~IsLast(x)
  BY <1>2, PhoneIsUp
<1>6. /\ QueueOk(ctl'.events) /\ In(ctl'.events) = In(ctl.events) \union {e}
      /\ Answered' <=> Answered
  BY <1>1, <1>3, <1>5, Enqueued
<1>7. ASSUME ~Flying' PROVE AwayOk'
  <2>1. Has("DISCONNECTION_COMPLETE")'
    BY <1>1, <1>6 DEF Has
  <2>2. Opens' /\ Settled(S')
    BY <1>3, <1>5, <1>6 DEF LinkedOk, Opens, Has
  <2> QED BY <1>3, <1>7, <2>1, <2>2 DEF AwayOk
<1>8. /\ done' \subseteq {"ctrlOut", "bulkOut"}
      /\ "bulkOut" \in done' => S.usb.bulkOut # NONE
  BY <1>3 DEF IInv, EndpointsOk
<1> QED BY <1>3, <1>4, <1>5, <1>6, <1>7, <1>8, OutsideStep

LEMMA PairStep == IInv /\ Pair => IInv'
<1> SUFFICES ASSUME IInv, Pair PROVE IInv'
  OBVIOUS
<1> DEFINE opened == Event("CONNECTION_COMPLETE")
           asked == Event("LINK_KEY_REQUEST")
<1>1. /\ IsEvent(opened) /\ ~IsCompletion(opened) /\ opened.ev = "CONNECTION_COMPLETE"
      /\ IsEvent(asked) /\ ~IsCompletion(asked) /\ asked.ev = "LINK_KEY_REQUEST"
  BY DEF Event, IsEvent, IsCompletion, IsLast, Ordinary
<1>2. AcceptedOk /\ Settled(S) /\ UNCHANGED <<S, turn, done, radio>>
  BY DEF Pair, IInv, PhasesOk
<1>3. \A x \in In(ctl.events) : x.ev = "COMMAND_STATUS" /\ ~IsLast(x)
  BY <1>2 DEF AcceptedOk, Only, IsLast
<1>4. /\ done' \subseteq {"ctrlOut", "bulkOut"}
      /\ "bulkOut" \in done' => S.usb.bulkOut # NONE
  BY <1>2 DEF IInv, EndpointsOk
<1>5. \/ /\ "at" \in DOMAIN phone' /\ phone'.at = "linked"
         /\ DOMAIN ctl' = DOMAIN ctl /\ ctl'.events = Append(ctl.events, opened) /\ ctl'.link
      \/ /\ "at" \in DOMAIN phone' /\ phone'.at = "pairing"
         /\ DOMAIN ctl' = DOMAIN ctl /\ ctl'.events = Append(ctl.events, asked)
         /\ ctl'.link = ctl.link /\ ctl'.acl = ctl.acl
  BY DEF Pair, IInv, ShapeOk
<1> HIDE DEF opened, asked
<1>6. CASE /\ phone'.at = "linked" /\ "at" \in DOMAIN phone'
           /\ DOMAIN ctl' = DOMAIN ctl /\ ctl'.events = Append(ctl.events, opened) /\ ctl'.link
  <2>1. /\ QueueOk(ctl'.events) /\ In(ctl'.events) = In(ctl.events) \union {opened}
        /\ Answered' <=> Answered
    BY <1>1, <1>3, <1>6, Enqueued
  <2>2. ASSUME ~Flying' PROVE LinkedOk'
    <3>1. Opens'
      BY <1>1, <1>2, <2>1 DEF Opens, Has, AcceptedOk, ConnIn
    <3>2. \A x \in In(ctl'.events) : x.ev \in {"COMMAND_COMPLETE", "COMMAND_STATUS",
                                               "CONNECTION_COMPLETE", "COMPLETED_PACKETS"}
      BY <1>1, <1>3, <2>1
    <3> QED BY <1>6, <2>2, <3>1, <3>2 DEF LinkedOk, Only
  <2>3. "linked" \notin Before
    BY DEF Before
  <2> QED BY <1>2, <1>4, <1>6, <2>1, <2>2, <2>3, OutsideStep DEF AcceptedOk
<1>7. CASE /\ phone'.at = "pairing" /\ "at" \in DOMAIN phone'
           /\ DOMAIN ctl' = DOMAIN ctl /\ ctl'.events = Append(ctl.events, asked)
           /\ ctl'.link = ctl.link /\ ctl'.acl = ctl.acl
  <2>1. /\ QueueOk(ctl'.events) /\ In(ctl'.events) = In(ctl.events) \union {asked}
        /\ ctl'.events # <<>> /\ (Answered' <=> Answered)
    BY <1>1, <1>3, <1>7, Enqueued
  <2>2. ASSUME ~Flying' PROVE PairingOk'
    <3>1. Has("LINK_KEY_REQUEST")'
      BY <1>1, <2>1 DEF Has
    <3>2. \A x \in In(ctl'.events) : x.ev \in {"COMMAND_COMPLETE", "COMMAND_STATUS",
                                               "LINK_KEY_REQUEST", "PIN_CODE_REQUEST"}
      BY <1>1, <1>3, <2>1
    <3>3. Silent' /\ ConnIn("ACCEPTED_CONNECTION_REQUEST")'
      BY <1>2, <1>7 DEF AcceptedOk, Silent, ConnIn
    <3> QED BY <2>1, <3>1, <3>2, <3>3 DEF PairingOk, Only
  <2> QED BY <1>2, <1>4, <1>7, <2>1, <2>2, OutsideStep DEF AcceptedOk
<1> QED BY <1>5, <1>6, <1>7

LEMMA PageStep == IInv /\ Page => IInv'
<1> SUFFICES ASSUME IInv, Page PROVE IInv'
  OBVIOUS
<1> DEFINE e == Event("CONNECTION_REQUEST")
           none == <<>>
           one == <<e>>
<1>1. IsEvent(e) /\ ~IsCompletion(e) /\ e.ev = "CONNECTION_REQUEST"
  BY DEF Event, IsEvent, IsCompletion, IsLast
<1>2. /\ phone.at = "away" /\ ctl.events = none /\ ctl.acl = <<>> /\ done = {}
      /\ S.usb.ctrlOut = NONE /\ S.usb.bulkOut = NONE
      /\ UNCHANGED <<S, turn, done, radio>>
  BY DEF Page
<1>3. /\ DOMAIN ctl' = DOMAIN ctl /\ ctl'.link = ctl.link /\ ctl'.acl = ctl.acl /\ ctl'.events = one
  BY DEF Page, IInv, ShapeOk
<1>4. "at" \in DOMAIN phone' /\ phone'.at = "paging"
  BY DEF Page, NewPhone
<1>5. QueueOk(none) /\ In(none) = {} /\ one = Append(none, e) /\ none = <<>>
  BY EmptyQueue
<1> HIDE DEF e, none, one
<1>6. QueueOk(one) /\ In(one) = {e} /\ one # <<>> /\ Head(one) = e
  BY <1>1, <1>5, Queued
<1>7. ~Flying /\ ~Answered /\ ~Has("DISCONNECTION_COMPLETE") /\ AwayOk
  BY <1>2, <1>5 DEF Flying, Answered, Has, IInv, PhasesOk
<1>8. ~HasConn(S) /\ ~ctl.link /\ radio = <<>>
  BY <1>7 DEF AwayOk
<1>9. Settled(S)
  <2>1. S.hci.num_cmd = 1
    BY <1>7, Apart DEF IInv, TokenOk
  <2> QED BY <1>2, <2>1 DEF IInv, BootOk, Waits, CanSendCommand
<1>10. ~Answered'
  BY <1>1, <1>3, <1>6 DEF Answered
<1>11. PagingOk'
  <2>1. Silent'
    BY <1>2, <1>3, <1>8 DEF Silent, HasConn, connection_for_handle
  <2>2. Only({"CONNECTION_REQUEST"})'
    BY <1>1, <1>3, <1>6 DEF Only
  <2> QED BY <1>2, <1>3, <1>6, <1>8, <2>1, <2>2 DEF PagingOk
<1> QED BY <1>2, <1>3, <1>4, <1>6, <1>7, <1>9, <1>10, <1>11, OutsideStep

LEMMA InitIsOk == Init => IInv
<1> SUFFICES ASSUME Init PROVE IInv
  OBVIOUS
<1>1. /\ S = BTInit /\ turn = 4 /\ done = {} /\ radio = <<>>
      /\ DOMAIN ctl = {"events", "acl", "scan", "link"}
      /\ ctl.events = <<>> /\ ctl.acl = <<>> /\ ~ctl.link
      /\ "at" \in DOMAIN phone /\ phone.at = "away"
  BY DEF Init, NewPhone
<1>2. /\ Sound(S) /\ Starts(S) /\ Waits(S)
      /\ ~S.hci.overrun /\ S.hci.num_cmd = 0
      /\ S.usb.ctrlOut # NONE /\ S.usb.ctrlOut.cmd \notin ForPhones
      /\ S.usb.buffer = S.usb.ctrlOut /\ S.usb.bulkOut = NONE
      /\ Unnamed(S) => S.usb.ctrlOut.cmd = "WRITE_LOCAL_NAME"
  BY <1>1, Begins
<1>3. QueueOk(ctl.events) /\ In(ctl.events) = {}
  BY <1>1, EmptyQueue
<1>4. Flying /\ ~Answered
  BY <1>1, <1>2 DEF Flying, Answered
<1>5. Silent
  BY <1>1, <1>2 DEF Silent, Starts, HasConn, connection_for_handle
<1>6. AwayOk
  BY <1>1, <1>2, <1>3 DEF AwayOk, Has, Only, Starts
<1>7. ShapeOk
  BY <1>1, <1>2, <1>3 DEF ShapeOk
<1>8. TokenOk
  BY <1>1, <1>2, <1>4 DEF TokenOk
<1>9. EndpointsOk
  BY <1>1, <1>2 DEF EndpointsOk
<1>10. PhasesOk
  BY <1>1, <1>2, <1>5, <1>6 DEF PhasesOk, Starts, Before
<1>11. BootOk
  BY <1>2, <1>4 DEF BootOk, Starts, Carries
<1> QED BY <1>7, <1>8, <1>9, <1>10, <1>11 DEF IInv

\* Every step keeps the invariant while there are channel numbers.
LEMMA EveryStep == IInv /\ ChannelNumbersLast /\ [Next]_vars => IInv'
<1> SUFFICES ASSUME IInv, ChannelNumbersLast, [Next]_vars PROVE IInv'
  OBVIOUS
<1>1. CASE Driver
  BY <1>1, PollEventsStep, PollAclStep, PollBulkOutStep, PollControlOutStep, TasksStep DEF Driver
<1>2. CASE PhoneActs
  BY <1>2, PageStep, PairStep, TalkStep, EndStep DEF PhoneActs
<1>3. CASE TakeCommand \/ TakeAcl \/ Deliver \/ Loss \/ Write \/ Close
  BY <1>3, TakeCommandStep, TakeAclStep, DeliverStep, EndStep, WriteStep, CloseStep
<1>4. CASE UNCHANGED vars
  BY <1>4, NobodyTurns
<1> QED BY <1>1, <1>2, <1>3, <1>4 DEF Next

LEMMA AlwaysOk == Spec /\ []ChannelNumbersLast => []IInv
BY InitIsOk, EveryStep, PTL DEF Spec

----------------------------------------------------------------------------
(* What follows.                                                           *)

\* The one buffer holds a packet until the transfer is done, and no command is
\* sent that the controller has no room for: BTIncoming, hci_run and the
\* handlers of bt_app.c, which do not look whether they may send, never meet.
THEOREM BufferStaysPut == Spec /\ []ChannelNumbersLast => []BufferIsStable
<1>1. IInv => BufferIsStable
  BY DEF IInv, TokenOk, EndpointsOk, Flying, BufferIsStable
<1> QED BY <1>1, AlwaysOk, PTL

\* With the connection its channels, the answer to a query, the multiplexer and
\* the serial channel are gone in l2cap.c, sdp.c and rfcomm.c, and the
\* application that believes in a channel has that of rfcomm.c.
THEOREM EverythingEnds == Spec /\ []ChannelNumbersLast => []NothingStays
<1>1. ASSUME Sound(S) PROVE NothingStays
  <2>1. S.app.open => rfcomm_channel_for_rfcomm_cid(S, S.app.channel) /\ HasMux(S)
    BY <1>1 DEF Sound, Bare, AppOk, rfcomm_channel_for_rfcomm_cid
  <2>2. ASSUME S.hci.conn = NONE, ~Leaked
        PROVE  /\ S.l2cap.channels = <<>>
               /\ S.sdp.cid = 0
               /\ ~HasMux(S) /\ ~HasChannel(S)
    <3>1. Cids(S) = {}
      BY <1>1, <2>2 DEF Sound, Bare, ConnOk, connection_for_handle
    <3>2. S.l2cap.channels = <<>>
      <4> DEFINE list == S.l2cap.channels
      <4>1. IsList(list) /\ CidsOf(list) = {}
        BY <1>1, <3>1 DEF Sound, Bare, IsStack, IsChannelList, Cids, CidsOf, Chans
      <4>2. DOMAIN list = {}
        BY <4>1 DEF CidsOf
      <4>3. Len(list) \in Nat /\ DOMAIN list = 1 .. Len(list) /\ list = [i \in 1 .. Len(list) |-> list[i]]
        BY <4>1, ListBasics
      <4> HIDE DEF list
      <4>4. Len(list) = 0
        BY <4>2, <4>3
      <4>5. list = <<>>
        BY <4>3, <4>4
      <4> QED BY <4>5 DEF list
    <3>3. S.sdp.cid = 0
      BY <1>1, <3>1 DEF Sound, Bare, SdpOk
    <3>4. ~HasMux(S)
      BY <1>1, <2>2, <3>1 DEF Sound, MuxOk, Leaked, Waiting
    <3>5. ~HasChannel(S)
      BY <1>1, <3>4 DEF Sound, Bare, AppOk
    <3> QED BY <3>2, <3>3, <3>4, <3>5
  <2> QED BY <2>1, <2>2 DEF NothingStays
<1>2. IInv => NothingStays
  BY <1>1 DEF IInv, ShapeOk
<1> QED BY <1>2, AlwaysOk, PTL
----------------------------------------------------------------------------
(* The slots of the controller.  hci.c counts a packet as sent when it     *)
(* hands it to the endpoint, and as completed when the controller says so: *)
(* what it counts is on the endpoint, on the air, or reported in an event  *)
(* that was not read yet.  It sends nothing when as many are under way as  *)
(* the controller has room for.                                            *)

Completions(q) == {i \in DOMAIN q : q[i].ev = "COMPLETED_PACKETS"}
Completed(q)   == Cardinality(Completions(q))

LEMMA CompletedBasics ==
    ASSUME NEW q, IsList(q)
    PROVE  /\ IsFiniteSet(Completions(q)) /\ Completed(q) \in Nat
           /\ (\A e \in In(q) : e.ev # "COMPLETED_PACKETS") => Completed(q) = 0
<1>1. Len(q) \in Nat /\ DOMAIN q = 1 .. Len(q)
  BY ListBasics
<1>2. IsFiniteSet(1 .. Len(q))
  BY <1>1, FS_Interval
<1>3. Completions(q) \in SUBSET (1 .. Len(q))
  BY <1>1 DEF Completions
<1>4. IsFiniteSet(Completions(q))
  BY <1>2, <1>3, FS_Subset
<1>5. Completed(q) \in Nat
  BY <1>4, FS_CardinalityType DEF Completed
<1>6. ASSUME \A e \in In(q) : e.ev # "COMPLETED_PACKETS"
      PROVE  Completed(q) = 0
  <2>1. Completions(q) = {}
    BY <1>6 DEF Completions, In
  <2> QED BY <2>1, FS_EmptySet DEF Completed
<1> QED BY <1>4, <1>5, <1>6

LEMMA CompletedAppended ==
    ASSUME NEW q, IsList(q), NEW e
    PROVE  Completed(Append(q, e)) =
               Completed(q) + (IF e.ev = "COMPLETED_PACKETS" THEN 1 ELSE 0)
<1> DEFINE n == Len(q)
           a == Append(q, e)
           Elems == {q[i] : i \in DOMAIN q} \union {e}
<1>1. n \in Nat /\ DOMAIN q = 1 .. n /\ q = [i \in 1 .. n |-> q[i]]
  BY ListBasics
<1>2. q \in Seq(Elems) /\ e \in Elems
  BY <1>1
<1> HIDE DEF Elems
<1>3. DOMAIN a = 1 .. n + 1 /\ a[n + 1] = e /\ \A i \in 1 .. n : a[i] = q[i]
  BY <1>1, <1>2
<1> HIDE DEF n, a
<1>4. IsFiniteSet(Completions(q)) /\ Completed(q) \in Nat /\ n + 1 \notin Completions(q)
  <2>1. IsFiniteSet(Completions(q)) /\ Completed(q) \in Nat
    BY CompletedBasics
  <2>2. n + 1 \notin Completions(q)
    BY <1>1 DEF Completions
  <2> QED BY <2>1, <2>2
<1>5. CASE e.ev = "COMPLETED_PACKETS"
  <2>1. Completions(a) = Completions(q) \union {n + 1}
    BY <1>1, <1>3, <1>5 DEF Completions
  <2> QED BY <1>4, <1>5, <2>1, FS_AddElement DEF Completed, a
<1>6. CASE e.ev # "COMPLETED_PACKETS"
  <2>1. Completions(a) = Completions(q)
    BY <1>1, <1>3, <1>6 DEF Completions
  <2> QED BY <1>4, <1>6, <2>1 DEF Completed, a
<1> QED BY <1>5, <1>6

LEMMA CompletedTaken ==
    ASSUME NEW q, IsList(q), q # <<>>
    PROVE  /\ IsList(Tail(q))
           /\ Completed(q) =
                Completed(Tail(q)) + (IF Head(q).ev = "COMPLETED_PACKETS" THEN 1 ELSE 0)
<1> DEFINE n == Len(q)
           t == Tail(q)
           Elems == {q[i] : i \in DOMAIN q}
           rest == Completions(q) \ {1}
<1>1. n \in Nat /\ DOMAIN q = 1 .. n /\ q \in Seq(Elems)
  BY ListBasics DEF IsList
<1> HIDE DEF Elems
<1>2. n # 0
  BY <1>1
<1>3. /\ t \in Seq(Elems) /\ Len(t) = n - 1 /\ DOMAIN t = 1 .. n - 1
      /\ \A i \in 1 .. n - 1 : t[i] = q[i + 1]
      /\ Head(q) = q[1]
  BY <1>1, <1>2
<1> HIDE DEF n, t
<1>4. IsList(t)
  <2>1. t = [i \in 1 .. n - 1 |-> t[i]] /\ n - 1 \in Nat
    BY <1>1, <1>2, <1>3
  <2> QED BY <2>1, ListIs
<1>5. /\ IsFiniteSet(Completions(q)) /\ IsFiniteSet(Completions(t))
      /\ Completed(q) \in Nat /\ Completed(t) \in Nat
  BY <1>4, CompletedBasics
<1>6. IsFiniteSet(rest) /\ Completed(q) =
        Cardinality(rest) + (IF Head(q).ev = "COMPLETED_PACKETS" THEN 1 ELSE 0)
  <2>1. 1 \in Completions(q) <=> Head(q).ev = "COMPLETED_PACKETS"
    BY <1>1, <1>2, <1>3 DEF Completions
  <2>2. /\ IsFiniteSet(rest)
        /\ Cardinality(rest) = IF 1 \in Completions(q) THEN Completed(q) - 1 ELSE Completed(q)
    BY <1>5, FS_RemoveElement DEF Completed
  <2> HIDE DEF rest
  <2>3. Completed(q) = Cardinality(rest) + (IF 1 \in Completions(q) THEN 1 ELSE 0)
    BY <1>5, <2>2
  <2> QED BY <2>1, <2>2, <2>3
<1>7. Cardinality(rest) = Completed(t)
  <2> DEFINE f == [i \in Completions(t) |-> i + 1]
  <2>1. f \in [Completions(t) -> rest]
    BY <1>1, <1>2, <1>3 DEF Completions
  <2>2. \A i, j \in Completions(t) : f[i] = f[j] => i = j
    BY <1>3 DEF Completions
  <2>3. \A j \in rest : \E i \in Completions(t) : f[i] = j
    <3> TAKE j \in rest
    <3>1. j \in 1 .. n /\ j # 1 /\ q[j].ev = "COMPLETED_PACKETS"
      BY <1>1 DEF Completions
    <3>2. j - 1 \in 1 .. n - 1 /\ (j - 1) + 1 = j
      BY <1>1, <3>1
    <3>3. j - 1 \in Completions(t)
      BY <1>3, <3>1, <3>2 DEF Completions
    <3> QED BY <3>2, <3>3
  <2> HIDE DEF f
  <2>4. f \in Bijection(Completions(t), rest)
    BY <2>1, <2>2, <2>3 DEF Bijection, Injection, Surjection, IsInjective
  <2>5. ExistsBijection(Completions(t), rest)
    BY <2>4 DEF ExistsBijection
  <2> QED BY <1>5, <2>5, FS_Bijection DEF Completed
<1> QED BY <1>4, <1>6, <1>7 DEF t

\* A packet is on the endpoint and not taken yet.
Pending == IF S.usb.bulkOut # NONE /\ "bulkOut" \notin done THEN 1 ELSE 0

\* What the controller says in its events.
TrueEvents ==
    \A e \in In(ctl.events) :
        /\ e.ev = "COMMAND_COMPLETE" => e.total = Slots
        /\ e.ev = "COMPLETED_PACKETS" => e.num = 1

SlotsOk ==
    /\ IsList(radio) /\ TrueEvents
    /\ S.hci.total_acl \in {0, Slots}
    /\ HasConn(S) =>
        /\ S.hci.conn.sent \in 0 .. Slots
        /\ Completed(ctl.events) <= S.hci.conn.sent
        /\ ~connection_for_handle(S) => S.hci.conn.sent = 0
    /\ ctl.link => S.hci.conn.sent = Len(radio) + Pending + Completed(ctl.events)

LEMMA SlotsBasics ==
    ASSUME IInv, SlotsOk
    PROVE  /\ Len(radio) \in Nat /\ IsList(ctl.events) /\ Completed(ctl.events) \in Nat
           /\ Pending \in {0, 1} /\ Slots \in 0 .. 255
           /\ radio # <<>> => ctl.link
           /\ ctl.link => HasConn(S)
           /\ Silent /\ HasConn(S) => S.hci.conn.sent = 0
<1>1. Len(radio) \in Nat
  BY ListBasics DEF SlotsOk
<1>2. IsList(ctl.events) /\ Completed(ctl.events) \in Nat
  BY CompletedBasics DEF IInv, ShapeOk, QueueOk
<1>3. radio # <<>> \/ ctl.link => ctl.link /\ HasConn(S)
  BY PhoneIsUp DEF LinkedOk, Opens
<1>4. Silent /\ HasConn(S) => S.hci.conn.sent = 0
  BY DEF SlotsOk, Silent
<1> QED BY <1>1, <1>2, <1>3, <1>4, SlotsAssumption DEF Pending

\* Nothing is under way.
LEMMA NothingSent ==
    ASSUME IInv, SlotsOk, IsList(radio'), TrueEvents', S'.hci.total_acl \in {0, Slots},
           HasConn(S') => S'.hci.conn.sent = 0 /\ Completed(ctl'.events) = 0,
           ~ctl'.link
    PROVE  SlotsOk'
<1>1. Slots \in 0 .. 255
  BY SlotsAssumption
<1> QED BY <1>1 DEF SlotsOk

\* A step of the stack, which may have read that k packets are complete and
\* that the endpoint is free, and may have sent one.
LEMMA CountedStep ==
    ASSUME IInv, SlotsOk, NEW X, NEW k \in {0, 1}, TrueEvents',
           X.hci.total_acl \in {0, Slots},
           HasConn(X) <=> HasConn(S), HasConn(S') <=> HasConn(S),
           HasConn(S) => X.hci.conn.sent = S.hci.conn.sent - k,
           Completed(ctl'.events) \in Nat,
           Completed(ctl.events) = Completed(ctl'.events) + k,
           Counted(X, S'),
           ~connection_for_handle(S') =>
               ~connection_for_handle(S) /\ (HasConn(S') => S'.usb.bulkOut = X.usb.bulkOut),
           \/ /\ X.usb.bulkOut = S.usb.bulkOut
              /\ "bulkOut" \in done' <=> "bulkOut" \in done
           \/ X.usb.bulkOut = NONE /\ "bulkOut" \in done /\ "bulkOut" \notin done',
           ctl'.link = ctl.link, radio' = radio
    PROVE  SlotsOk'
<1>1. /\ Len(radio) \in Nat /\ Slots \in 0 .. 255
      /\ ctl.link => HasConn(S)
  BY SlotsBasics
<1>2. S.usb.bulkOut = NONE => "bulkOut" \notin done
  BY Apart
<1>3. S'.hci.total_acl \in {0, Slots} /\ IsList(radio')
  BY DEF Counted, SlotsOk
<1>4. HasConn(S) => /\ S.hci.conn.sent \in 0 .. Slots
                    /\ Completed(ctl.events) <= S.hci.conn.sent
                    /\ ~connection_for_handle(S) => S.hci.conn.sent = 0
  BY DEF SlotsOk
<1>5. ctl.link => S.hci.conn.sent = Len(radio) + Pending + Completed(ctl.events)
  BY DEF SlotsOk
<1>6. HasConn(S) => X.hci.conn.sent \in 0 .. Slots /\ Completed(ctl'.events) <= X.hci.conn.sent
  BY <1>1, <1>4
<1>7. CASE ~HasConn(S)
  BY <1>1, <1>3, <1>7 DEF SlotsOk
<1>8. CASE HasConn(S) /\ S'.usb.bulkOut = X.usb.bulkOut /\ S'.hci.conn.sent = X.hci.conn.sent
  <2>1. Pending' = Pending
    BY <1>8 DEF Pending
  <2>2. ctl'.link => S'.hci.conn.sent = Len(radio) + Pending' + Completed(ctl'.events)
    BY <1>1, <1>4, <1>5, <1>8, <2>1 DEF Pending
  <2>3. ~connection_for_handle(S') => S'.hci.conn.sent = 0
    <3>1. ~connection_for_handle(S') => S.hci.conn.sent = 0 /\ Completed(ctl.events) <= 0
      BY <1>4, <1>8
    <3>2. ~connection_for_handle(S') => k = 0
      BY <3>1
    <3> QED BY <1>8, <3>1, <3>2
  <2> QED BY <1>3, <1>6, <1>8, <2>2, <2>3 DEF SlotsOk
<1>9. CASE /\ HasConn(S)
           /\ X.usb.bulkOut = NONE /\ S'.usb.bulkOut # NONE
           /\ hci_number_free_acl_slots(X) # 0
           /\ S'.hci.conn.sent = X.hci.conn.sent + 1
  <2>1. Pending' = 1 /\ Pending = 0
    BY <1>2, <1>9 DEF Pending
  <2>2. X.hci.conn.sent < Slots
    <3>1. X.hci.conn.sent < X.hci.total_acl
      BY <1>1, <1>6, <1>9 DEF hci_number_free_acl_slots, HasConn
    <3> QED BY <1>1, <1>6, <1>9, <3>1
  <2>3. S'.hci.conn.sent \in 0 .. Slots /\ Completed(ctl'.events) <= S'.hci.conn.sent
    BY <1>1, <1>6, <1>9, <2>2
  <2>4. ctl'.link => S'.hci.conn.sent = Len(radio) + Pending' + Completed(ctl'.events)
    BY <1>1, <1>4, <1>5, <1>9, <2>1
  <2>5. connection_for_handle(S')
    BY <1>9
  <2> QED BY <1>3, <1>9, <2>3, <2>4, <2>5 DEF SlotsOk
<1> QED BY <1>7, <1>8, <1>9 DEF Counted

\* The head of the queue is read.
LEMMA HeadCounted ==
    ASSUME IInv, SlotsOk, NEW X, NEW e, Polled(X, e)
    PROVE  /\ TrueEvents' /\ Completed(ctl'.events) \in Nat
           /\ Completed(ctl.events) =
                Completed(ctl'.events) + (IF e.ev = "COMPLETED_PACKETS" THEN 1 ELSE 0)
           /\ e.ev = "COMMAND_COMPLETE" => e.total = Slots
           /\ e.ev = "COMPLETED_PACKETS" => e.num = 1
<1>1. e \in In(ctl.events) /\ In(ctl.events) = In(ctl'.events) \union {e}
  BY HeadKnown
<1>2. TrueEvents /\ TrueEvents'
  BY <1>1 DEF SlotsOk, TrueEvents
<1>3. IsList(ctl'.events) /\ Completed(ctl.events) =
        Completed(ctl'.events) + (IF e.ev = "COMPLETED_PACKETS" THEN 1 ELSE 0)
  BY CompletedTaken, SlotsBasics DEF Polled
<1>4. Completed(ctl'.events) \in Nat
  BY <1>3, CompletedBasics
<1> QED BY <1>1, <1>2, <1>3, <1>4 DEF TrueEvents

LEMMA OrdinaryCounts ==
    ASSUME IInv, SlotsOk, NEW X, NEW e, Polled(X, e), Settled(S), e.ev \in Ordinary
    PROVE  SlotsOk'
<1> DEFINE k == IF e.ev = "COMPLETED_PACKETS" THEN 1 ELSE 0
<1>1. /\ Sound(X) /\ Settled(X) /\ X.hci.decline = HostAddr /\ X.hci = S.hci /\ IsFair(X, e)
      /\ X.usb.bulkOut = S.usb.bulkOut /\ ctl'.link = ctl.link /\ radio' = radio /\ done' = done
  BY HeadKnown DEF Polled, SameBelow, Settled, HasConn, IInv, PhasesOk
<1>2. /\ HasConn(S') <=> HasConn(X)
      /\ HasConn(X) /\ (connection_for_handle(X) \/ e.ev = "CONNECTION_COMPLETE") =>
             connection_for_handle(S')
      /\ ~connection_for_handle(X) /\ e.ev # "CONNECTION_COMPLETE" => S'.usb.bulkOut = X.usb.bulkOut
      /\ \E T : Noted(X, T, e) /\ Counted(T, S')
  BY <1>1, EventIsSteady DEF Polled
<1>3. PICK T : Noted(X, T, e) /\ Counted(T, S')
  BY <1>2
<1>4. /\ TrueEvents' /\ Completed(ctl'.events) \in Nat
      /\ Completed(ctl.events) = Completed(ctl'.events) + k
      /\ e.ev = "COMMAND_COMPLETE" => e.total = Slots
      /\ e.ev = "COMPLETED_PACKETS" => e.num = 1
  BY HeadCounted
<1>5. /\ T.usb = X.usb /\ (HasConn(T) <=> HasConn(X))
      /\ T.hci.total_acl \in {X.hci.total_acl, Slots}
      /\ HasConn(X) => T.hci.conn.sent = IF e.ev = "COMPLETED_PACKETS" /\ connection_for_handle(X)
                                         THEN (X.hci.conn.sent - 1) % 256 ELSE X.hci.conn.sent
  BY <1>3, <1>4 DEF Noted
<1>6. (HasConn(X) <=> HasConn(S)) /\ (connection_for_handle(X) <=> connection_for_handle(S))
  BY <1>1 DEF HasConn, connection_for_handle
<1>7. S.hci.total_acl \in {0, Slots} /\ Slots \in 0 .. 255
  BY SlotsAssumption DEF SlotsOk
<1>8. T.hci.total_acl \in {0, Slots}
  BY <1>1, <1>5, <1>7
<1>9. HasConn(S) => T.hci.conn.sent = S.hci.conn.sent - k
  <2>1. CASE e.ev = "COMPLETED_PACKETS"
    <3>1. HasConn(S) => S.hci.conn.sent \in 0 .. 255 /\ S.hci.conn.sent >= 1
      <4>1. Completed(ctl.events) >= 1 /\ Completed(ctl.events) \in Nat
        BY <1>4, <2>1
      <4> HIDE DEF k
      <4>2. HasConn(S) => S.hci.conn.sent \in 0 .. Slots /\ Completed(ctl.events) <= S.hci.conn.sent
        BY DEF SlotsOk
      <4> QED BY <1>7, <4>1, <4>2
    <3>2. HasConn(S) => connection_for_handle(S)
      BY <3>1 DEF SlotsOk
    <3>3. ASSUME HasConn(S) PROVE (S.hci.conn.sent - 1) % 256 = S.hci.conn.sent - 1
      BY <3>1, <3>3
    <3> QED BY <1>1, <1>5, <1>6, <2>1, <3>2, <3>3
  <2>2. CASE e.ev # "COMPLETED_PACKETS"
    <3>1. HasConn(S) => S.hci.conn.sent \in Int
      BY <1>7 DEF SlotsOk
    <3> QED BY <1>1, <1>5, <1>6, <2>2, <3>1
  <2> QED BY <2>1, <2>2
<1>10. ~connection_for_handle(S') =>
           ~connection_for_handle(S) /\ (HasConn(S') => S'.usb.bulkOut = T.usb.bulkOut)
  BY <1>2, <1>5, <1>6 DEF connection_for_handle, HasConn
<1>11. k \in {0, 1}
  OBVIOUS
<1> HIDE DEF k
<1> QED BY <1>1, <1>2, <1>3, <1>4, <1>5, <1>6, <1>8, <1>9, <1>10, <1>11, CountedStep

LEMMA StartingCounts ==
    ASSUME IInv, SlotsOk, NEW X, NEW e, ~Settled(S),
           SameBelow(S, X), S' = event_handler(X, e),
           \/ Polled(X, e)
           \/ e = Event("PACKET_SENT") /\ UNCHANGED <<ctl, radio>>
    PROVE  SlotsOk'
<1>1. Silent /\ ~HasConn(S) /\ Only({"COMMAND_COMPLETE"})
  BY Unsettled
<1>2. /\ Sound(X) /\ ~HasConn(X) /\ X.hci.decline = HostAddr /\ Booting(X)
      /\ X.hci = S.hci /\ X.hci.num_cmd \in {0, 1}
  BY <1>1 DEF SameBelow, Booting, Going, HasScan, HasConn, IInv, TokenOk, BootOk, PhasesOk
<1>3. /\ TrueEvents' /\ ctl'.link = ctl.link /\ radio' = radio
      /\ e.total \in {0, Slots} /\ IsFair(X, e)
      /\ \/ e.ev = "PACKET_SENT"
         \/ /\ e.ev = "COMMAND_COMPLETE" /\ e.num = 1 /\ X.hci.num_cmd = 0
            /\ Unnamed(X) => e.cmd = "WRITE_LOCAL_NAME"
  <2>1. CASE Polled(X, e)
    <3>1. /\ Answered /\ e = Head(ctl.events) /\ e \in In(ctl.events) /\ IsFair(X, e)
          /\ IsCompletion(e) => e.num = 1
          /\ ~Flying /\ S.hci.num_cmd = 0
      BY <2>1, Unsettled, HeadKnown DEF Polled
    <3>2. e.ev = "COMMAND_COMPLETE" /\ e.num = 1
      BY <1>1, <3>1 DEF Only, IsCompletion
    <3>3. Unnamed(X) => e.cmd = "WRITE_LOCAL_NAME"
      BY <1>2, <3>1 DEF Unnamed, IInv, BootOk, Carries
    <3>4. TrueEvents' /\ e.total = Slots
      BY <2>1, <3>2, HeadCounted
    <3> QED BY <1>2, <2>1, <3>1, <3>2, <3>3, <3>4 DEF Polled
  <2>2. CASE e = Event("PACKET_SENT") /\ UNCHANGED <<ctl, radio>>
    <3>1. e.ev = "PACKET_SENT" /\ e.total = 0 /\ IsFair(X, e)
      BY <1>2, <2>2 DEF Event, IsFair
    <3>2. TrueEvents'
      BY <2>2 DEF SlotsOk, TrueEvents
    <3> QED BY <2>2, <3>1, <3>2
  <2> QED BY <2>1, <2>2
<1>4. Starts(S') /\ S'.hci.total_acl \in {X.hci.total_acl, e.total}
  BY <1>2, <1>3, StartStep
<1>5. ~HasConn(S') /\ S'.hci.total_acl \in {0, Slots} /\ IsList(radio') /\ ~ctl'.link
  BY <1>1, <1>2, <1>3, <1>4 DEF Starts, SlotsOk, Silent
<1> QED BY <1>3, <1>5, NothingSent

LEMMA PollEventsCounts == IInv /\ SlotsOk /\ PollEvents => SlotsOk'
<1> SUFFICES ASSUME IInv, SlotsOk, PollEvents PROVE SlotsOk'
  OBVIOUS
<1> DEFINE X == [S EXCEPT !.usb.intIn = FALSE]
           e == Head(ctl.events)
<1>1. turn <= 0 /\ ctl.events # <<>> /\ turn' = 1
  BY DEF PollEvents, Reaches, Ready, EventDone
<1>2. /\ SameBelow(S, X) /\ X.usb.ctrlOut = S.usb.ctrlOut
      /\ X.usb.bulkOut = S.usb.bulkOut /\ X.usb.buffer = S.usb.buffer
  BY UsbFields DEF IInv, ShapeOk
<1>3. S' = event_handler(X, e)
  BY DEF PollEvents
<1>4. /\ DOMAIN ctl' = DOMAIN ctl /\ ctl'.link = ctl.link /\ ctl'.acl = ctl.acl
      /\ ctl'.events = Tail(ctl.events)
      /\ UNCHANGED <<done, radio, phone, written>>
  BY DEF PollEvents, IInv, ShapeOk
<1> HIDE DEF X
<1>5. Polled(X, e)
  BY <1>1, <1>2, <1>3, <1>4 DEF Polled
<1>6. IsEvent(e) /\ IsFair(X, e) /\ e \in In(ctl.events)
  BY <1>5, HeadKnown
<1> HIDE DEF e
<1>7. CASE ~Settled(S)
  BY <1>2, <1>3, <1>5, <1>7, StartingCounts
<1>8. CASE Settled(S) /\ e.ev \in Ordinary
  BY <1>5, <1>8, OrdinaryCounts
<1>9. CASE Settled(S) /\ IsLast(e)
  <2>1. /\ Sound(X) /\ Settled(X) /\ X.hci.decline = HostAddr /\ X.hci = S.hci
        /\ S.usb.ctrlOut = NONE /\ S.hci.num_cmd = 1 /\ ctl'.events = <<>>
    BY <1>2, <1>5, <1>9, HeadKnown DEF SameBelow, Settled, HasConn, IInv, PhasesOk, IsCompletion, IsLast
  <2>2. TrueEvents' /\ Completed(ctl'.events) = 0
    <3>1. IsList(ctl'.events) /\ In(ctl'.events) = {}
      BY <2>1, EmptyQueue DEF QueueOk
    <3> QED BY <3>1, CompletedBasics DEF TrueEvents
  <2>3. \A ev : Has(ev) <=> ev = e.ev
    BY <1>5, <1>9, Alone
  <2>4. S.hci.total_acl \in {0, Slots} /\ IsList(radio')
    BY <1>4 DEF SlotsOk
  <2>5. CASE e.ev = "CONNECTION_REQUEST"
    <3>1. phone.at = "paging" /\ PagingOk
      <4>1. phone.at # "away"
        BY <1>6, <2>3, <2>5 DEF IInv, PhasesOk, AwayOk, Only
      <4>2. phone.at # "accepted" /\ phone.at # "pairing"
        BY <1>6, <2>5 DEF IInv, PhasesOk, AcceptedOk, PairingOk, Only
      <4>3. phone.at \in Before
        BY <1>6, <2>5 DEF IInv, PhasesOk, LinkedOk, Only
      <4> QED BY <4>1, <4>2, <4>3 DEF Before, IInv, PhasesOk
    <3>2. ~HasConn(X) /\ ~ctl'.link
      BY <1>1, <1>4, <2>1, <3>1 DEF PagingOk, Silent, HasConn
    <3>3. S'.hci.conn.sent = 0 /\ S'.hci.total_acl = X.hci.total_acl
      BY <1>2, <1>3, <1>6, <2>1, <2>5, <3>2, RequestAccepted
    <3> QED BY <2>1, <2>2, <2>4, <3>2, <3>3, NothingSent
  <2>6. CASE e.ev \in {"LINK_KEY_REQUEST", "PIN_CODE_REQUEST"}
    <3>1. phone.at = "pairing" /\ PairingOk
      <4>1. phone.at # "away"
        BY <1>6, <2>3, <2>6 DEF IInv, PhasesOk, AwayOk, Only
      <4>2. phone.at # "accepted" /\ phone.at # "paging"
        BY <1>1, <1>6, <2>6 DEF IInv, PhasesOk, AcceptedOk, PagingOk, Only
      <4>3. phone.at \in Before
        BY <1>6, <2>6 DEF IInv, PhasesOk, LinkedOk, Only
      <4> QED BY <4>1, <4>2, <4>3 DEF Before, IInv, PhasesOk
    <3>2. Silent /\ HasConn(S) /\ S.hci.conn.sent = 0 /\ ~ctl'.link
      BY <1>4, <3>1, SlotsBasics DEF PairingOk, ConnIn, Silent
    <3>3. SameCount(X, S')
      <4>1. \E cmd : Replied(X, S', cmd)
        BY <1>2, <1>3, <1>6, <2>1, <2>6, KeyAnswered
      <4> QED BY <4>1 DEF Replied
    <3>4. S'.hci.conn.sent = 0 /\ S'.hci.total_acl = S.hci.total_acl
      BY <2>1, <3>2, <3>3 DEF SameCount, HasConn
    <3> QED BY <2>2, <2>4, <3>2, <3>4, NothingSent
  <2>7. CASE e.ev = "DISCONNECTION_COMPLETE"
    <3>1. phone.at = "away" /\ AwayOk
      <4>1. phone.at # "paging" /\ phone.at # "accepted" /\ phone.at # "pairing"
        BY <1>1, <1>6, <2>7 DEF IInv, PhasesOk, AcceptedOk, PagingOk, PairingOk, Only
      <4>2. phone.at \in Before
        BY <1>6, <2>7 DEF IInv, PhasesOk, LinkedOk, Only
      <4> QED BY <4>1, <4>2 DEF Before, IInv, PhasesOk
    <3>2. connection_for_handle(X) /\ ~ctl'.link
      BY <1>4, <2>1, <2>3, <2>7, <3>1 DEF AwayOk, Opens, connection_for_handle
    <3>3. ~HasConn(S') /\ S'.hci.total_acl = X.hci.total_acl
      BY <1>3, <1>6, <2>1, <2>7, <3>2, DisconnectionIsSteady
    <3> QED BY <2>1, <2>2, <2>4, <3>2, <3>3, NothingSent
  <2> QED BY <1>9, <2>5, <2>6, <2>7 DEF IsLast
<1> QED BY <1>6, <1>7, <1>8, <1>9 DEF IsEvent

\* A step of the stack that leaves the events alone.
LEMMA UnheardCounts ==
    ASSUME IInv, SlotsOk, NEW X, X.hci = S.hci, Counted(X, S'), SameConn(X, S'),
           ~connection_for_handle(X) => S'.usb.bulkOut = X.usb.bulkOut,
           \/ /\ X.usb.bulkOut = S.usb.bulkOut
              /\ "bulkOut" \in done' <=> "bulkOut" \in done
           \/ X.usb.bulkOut = NONE /\ "bulkOut" \in done /\ "bulkOut" \notin done',
           ctl'.link = ctl.link, ctl'.events = ctl.events, radio' = radio
    PROVE  SlotsOk'
<1>1. /\ HasConn(X) <=> HasConn(S)
      /\ HasConn(S') <=> HasConn(S)
      /\ connection_for_handle(S') <=> connection_for_handle(S)
      /\ connection_for_handle(X) <=> connection_for_handle(S)
  BY DEF SameConn, HasConn, connection_for_handle
<1>2. TrueEvents' /\ S.hci.total_acl \in {0, Slots}
  BY DEF SlotsOk, TrueEvents
<1>3. Completed(ctl'.events) \in Nat /\ Completed(ctl.events) = Completed(ctl'.events) + 0
  BY SlotsBasics
<1>4. HasConn(S) => X.hci.conn.sent = S.hci.conn.sent - 0
  BY SlotsBasics DEF SlotsOk
<1>5. 0 \in {0, 1}
  OBVIOUS
<1> QED BY <1>1, <1>2, <1>3, <1>4, <1>5, CountedStep

LEMMA PollAclCounts == IInv /\ SlotsOk /\ ChannelNumbersLast /\ PollAcl => SlotsOk'
<1> SUFFICES ASSUME IInv, SlotsOk, ChannelNumbersLast, PollAcl PROVE SlotsOk'
  OBVIOUS
<1> DEFINE X == [S EXCEPT !.usb.bulkIn = FALSE]
           p == Head(ctl.acl)
           Y == acl_handler(X, p)
<1>1. ctl.acl # <<>> /\ S' = Y
  BY DEF PollAcl, Reaches, Ready, AclDone
<1>2. SameBelow(S, X) /\ X.usb.bulkOut = S.usb.bulkOut
  BY UsbFields DEF IInv, ShapeOk
<1>3. ctl'.link = ctl.link /\ ctl'.events = ctl.events /\ UNCHANGED <<done, radio>>
  BY DEF PollAcl, IInv, ShapeOk
<1> HIDE DEF X
<1>4. Settled(S)
  BY <1>1, Apart DEF Silent
<1>5. Sound(X) /\ Settled(X) /\ X.hci.decline = HostAddr /\ X.l2cap.next_cid < 65535 /\ X.hci = S.hci
  BY <1>2, <1>4 DEF SameBelow, Settled, HasConn, IInv, PhasesOk, ChannelNumbersLast
<1>6. Leaves(X, Y) /\ (~connection_for_handle(X) => Y.usb.bulkOut = X.usb.bulkOut)
  BY <1>5, AclSteady
<1> HIDE DEF p, Y
<1> QED BY <1>1, <1>2, <1>3, <1>5, <1>6, UnheardCounts DEF Leaves

LEMMA PollBulkOutCounts == IInv /\ SlotsOk /\ PollBulkOut => SlotsOk'
<1> SUFFICES ASSUME IInv, SlotsOk, PollBulkOut PROVE SlotsOk'
  OBVIOUS
<1> DEFINE X == [S EXCEPT !.usb.bulkOut = NONE]
           Y == event_handler(X, Event("PACKET_SENT"))
<1>1. "bulkOut" \in done /\ S' = Y
  BY DEF PollBulkOut, Reaches, Ready
<1>2. SameBelow(S, X) /\ X.usb.bulkOut = NONE
  BY UsbFields DEF IInv, ShapeOk
<1>3. done' = done \ {"bulkOut"} /\ UNCHANGED <<ctl, radio>>
  BY DEF PollBulkOut
<1> HIDE DEF X
<1>4. Settled(S)
  BY <1>1, Apart DEF Silent
<1>5. /\ Sound(X) /\ Settled(X) /\ X.hci.decline = HostAddr /\ X.hci = S.hci
      /\ HasConn(X) => X.hci.conn.addr = Phone
  BY <1>2, <1>4 DEF SameBelow, Settled, HasConn, IInv, PhasesOk
<1>6. Leaves(X, Y) /\ (~connection_for_handle(X) => Y.usb.bulkOut = X.usb.bulkOut)
  BY <1>5, PacketSent
<1> HIDE DEF Y
<1>7. "bulkOut" \notin done'
  BY <1>3
<1> QED BY <1>1, <1>2, <1>3, <1>5, <1>6, <1>7, UnheardCounts DEF Leaves

LEMMA PollControlOutCounts == IInv /\ SlotsOk /\ PollControlOut => SlotsOk'
<1> SUFFICES ASSUME IInv, SlotsOk, PollControlOut PROVE SlotsOk'
  OBVIOUS
<1> DEFINE X == [S EXCEPT !.usb.ctrlOut = NONE]
           e == Event("PACKET_SENT")
           Y == event_handler(X, e)
<1>1. S' = Y
  BY DEF PollControlOut
<1>2. SameBelow(S, X) /\ X.usb.bulkOut = S.usb.bulkOut
  BY UsbFields DEF IInv, ShapeOk
<1>3. ("bulkOut" \in done' <=> "bulkOut" \in done) /\ UNCHANGED <<ctl, radio>>
  BY DEF PollControlOut
<1> HIDE DEF X
<1>4. CASE Settled(S)
  <2>1. /\ Sound(X) /\ Settled(X) /\ X.hci.decline = HostAddr /\ X.hci = S.hci
        /\ HasConn(X) => X.hci.conn.addr = Phone
    BY <1>2, <1>4 DEF SameBelow, Settled, HasConn, IInv, PhasesOk
  <2>2. Leaves(X, Y) /\ (~connection_for_handle(X) => Y.usb.bulkOut = X.usb.bulkOut)
    BY <2>1, PacketSent
  <2> HIDE DEF Y
  <2> QED BY <1>1, <1>2, <1>3, <2>1, <2>2, UnheardCounts DEF Leaves
<1>5. CASE ~Settled(S)
  BY <1>1, <1>2, <1>3, <1>5, StartingCounts
<1> QED BY <1>4, <1>5

LEMMA ApplicationCounts == IInv /\ SlotsOk /\ (Tasks \/ Close \/ Write) => SlotsOk'
<1> SUFFICES ASSUME IInv, SlotsOk, Tasks \/ Close \/ Write PROVE SlotsOk'
  OBVIOUS
<1>1. UNCHANGED <<done, ctl, radio>>
  BY DEF Tasks, Close, Write
<1>2. CASE Tasks
  <2> DEFINE X == [S EXCEPT !.usb.intIn = TRUE, !.usb.bulkIn = TRUE]
  <2>1. S' = BTGrant(X)
    BY <1>2 DEF Tasks
  <2>2. SameBelow(S, X) /\ X.usb.bulkOut = S.usb.bulkOut
    BY UsbFields DEF IInv, ShapeOk
  <2> HIDE DEF X
  <2>3. Handled(X, S') /\ S'.usb = X.usb /\ X.hci = S.hci
    BY <2>1, <2>2, OnlyApp DEF SameBelow
  <2> QED BY <1>1, <2>2, <2>3, UnheardCounts DEF Handled, Low
<1>3. CASE Close
  <2>1. Handled(S, S') /\ S'.usb = S.usb
    BY <1>3, OnlyApp DEF Close, IInv, ShapeOk
  <2> QED BY <1>1, <2>1, UnheardCounts DEF Handled, Low
<1>4. CASE Write
  <2>1. S' = BTWrite(S, written + 1)
    BY <1>4 DEF Write
  <2>2. Sound(S) /\ connection_for_handle(S)
    BY <1>4, WriteNeedsConnection DEF Write, IInv, ShapeOk
  <2>3. Settled(S) /\ S.hci.decline = HostAddr
    BY <2>2, Apart DEF Silent, IInv, PhasesOk
  <2>4. Leaves(S, S')
    BY <2>1, <2>2, <2>3, WriteIsSteady
  <2> QED BY <1>1, <2>2, <2>4, UnheardCounts DEF Leaves
<1> QED BY <1>2, <1>3, <1>4

\* The controller answers a command: nothing else is there.
LEMMA TakeCommandCounts == IInv /\ SlotsOk /\ TakeCommand => SlotsOk'
<1> SUFFICES ASSUME IInv, SlotsOk, TakeCommand PROVE SlotsOk'
  OBVIOUS
<1> DEFINE c == S.usb.buffer
           q == EventsOf(c)
<1>1. Flying /\ ctl.events = <<>>
  BY DEF TakeCommand, Flying, IInv, TokenOk
<1>2. Silent
  BY <1>1 DEF IInv, PhasesOk
<1>3. Answering(q, c)
  BY CommandAnswered
<1>4. IsList(q)
  BY <1>3 DEF Answering, QueueOk
<1>5. \A e \in In(q) : /\ e.ev = "COMMAND_COMPLETE" => e.total = Slots
                       /\ e.ev # "COMPLETED_PACKETS"
  <2>1. /\ Event("PIN_CODE_REQUEST").ev = "PIN_CODE_REQUEST"
        /\ Event("CONNECTION_COMPLETE").ev = "CONNECTION_COMPLETE"
        /\ [Event("COMMAND_STATUS") EXCEPT !.num = 1].ev = "COMMAND_STATUS"
    BY DEF Event
  <2>2. \A cmd : Complete(cmd).ev = "COMMAND_COMPLETE" /\ Complete(cmd).total = Slots
    BY DEF Complete, Event
  <2>3. In(q) \subseteq {[Event("COMMAND_STATUS") EXCEPT !.num = 1], Complete(c.cmd),
                         Event("PIN_CODE_REQUEST"), Event("CONNECTION_COMPLETE")}
    BY DEF EventsOf, In
  <2> QED BY <2>1, <2>2, <2>3
<1>6. ctl'.events = q
  <2>1. ctl'.events = ctl.events \o q
    BY DEF TakeCommand, IInv, ShapeOk
  <2>2. \E n \in Nat : DOMAIN q = 1 .. n /\ q = [i \in 1 .. n |-> q[i]]
    BY <1>4, ListBasics
  <2> HIDE DEF q
  <2>3. q \in Seq({q[i] : i \in DOMAIN q})
    BY <2>2
  <2> QED BY <1>1, <2>1, <2>3
<1> HIDE DEF q
<1>7. TrueEvents' /\ Completed(ctl'.events) = 0
  BY <1>4, <1>5, <1>6, CompletedBasics DEF TrueEvents
<1>8. /\ S' = S /\ radio' = radio /\ radio = <<>> /\ ~ctl.link
      /\ S.usb.bulkOut = NONE /\ ~connection_for_handle(S)
  BY <1>2 DEF TakeCommand, Silent
<1>9. /\ S.hci.total_acl \in {0, Slots} /\ IsList(radio)
      /\ HasConn(S) => S.hci.conn.sent = 0
  BY <1>2, SlotsBasics DEF SlotsOk
<1>10. CASE ~ctl'.link
  BY <1>7, <1>8, <1>9, <1>10, NothingSent
<1>11. CASE ctl'.link
  <2>1. c.cmd = "PIN_CODE"
    BY <1>8, <1>11 DEF TakeCommand, IInv, ShapeOk
  <2>2. HasConn(S)
    <3>1. c = S.usb.ctrlOut /\ c.cmd \in ForPhones
      BY <1>1, <2>1 DEF IInv, EndpointsOk, ForPhones
    <3>2. phone.at # "away"
      BY <1>1, <3>1 DEF IInv, PhasesOk, AwayOk
    <3>3. phone.at # "paging"
      BY <1>1, <2>1, <3>1 DEF IInv, PhasesOk, PagingOk, Carries
    <3>4. phone.at = "pairing"
      BY <1>1, <3>2, <3>3 DEF IInv, PhasesOk
    <3> QED BY <3>4 DEF IInv, PhasesOk, PairingOk, ConnIn
  <2>3. Len(radio) = 0 /\ Pending' = 0 /\ 0 \in 0 .. Slots
    BY <1>8, SlotsAssumption DEF Pending
  <2> QED BY <1>7, <1>8, <1>9, <2>2, <2>3 DEF SlotsOk
<1> QED BY <1>10, <1>11

LEMMA AppendedList ==
    ASSUME NEW list, IsList(list), NEW e
    PROVE  /\ IsList(Append(list, e)) /\ Len(Append(list, e)) = Len(list) + 1
           /\ In(Append(list, e)) = In(list) \union {e}
<1> DEFINE n == Len(list)
           a == Append(list, e)
           Elems == {list[i] : i \in DOMAIN list} \union {e}
<1>1. n \in Nat /\ DOMAIN list = 1 .. n /\ list = [i \in 1 .. n |-> list[i]]
  BY ListBasics
<1>2. list \in Seq(Elems) /\ e \in Elems
  BY <1>1
<1> HIDE DEF Elems
<1>3. /\ a \in Seq(Elems) /\ Len(a) = n + 1 /\ DOMAIN a = 1 .. n + 1
      /\ a[n + 1] = e /\ \A i \in 1 .. n : a[i] = list[i]
  BY <1>1, <1>2
<1> HIDE DEF n, a
<1>4. IsList(a)
  <2>1. a = [i \in 1 .. n + 1 |-> a[i]] /\ n + 1 \in Nat
    BY <1>1, <1>3
  <2> QED BY <2>1, ListIs
<1>5. In(a) = In(list) \union {e}
  <2>1. \A i \in DOMAIN a : a[i] = e \/ (i \in DOMAIN list /\ a[i] = list[i])
    BY <1>1, <1>3
  <2>2. \A i \in DOMAIN list : i \in DOMAIN a /\ a[i] = list[i]
    BY <1>1, <1>3
  <2>3. n + 1 \in DOMAIN a
    BY <1>1, <1>3
  <2> QED BY <1>3, <2>1, <2>2, <2>3 DEF In
<1> QED BY <1>3, <1>4, <1>5 DEF a, n

LEMMA ShortenedList ==
    ASSUME NEW list, IsList(list), list # <<>>
    PROVE  IsList(Tail(list)) /\ Len(Tail(list)) = Len(list) - 1
<1> DEFINE n == Len(list)
           t == Tail(list)
           Elems == {list[i] : i \in DOMAIN list}
<1>1. n \in Nat /\ DOMAIN list = 1 .. n /\ list \in Seq(Elems)
  BY ListBasics DEF IsList
<1> HIDE DEF Elems
<1>2. n # 0
  BY <1>1
<1>3. t \in Seq(Elems) /\ Len(t) = n - 1 /\ DOMAIN t = 1 .. n - 1
  BY <1>1, <1>2
<1> HIDE DEF n, t
<1>4. IsList(t)
  <2>1. t = [i \in 1 .. n - 1 |-> t[i]] /\ n - 1 \in Nat
    BY <1>1, <1>2, <1>3
  <2> QED BY <2>1, ListIs
<1> QED BY <1>3, <1>4 DEF t, n

LEMMA TakeAclCounts == IInv /\ SlotsOk /\ TakeAcl => SlotsOk'
<1> SUFFICES ASSUME IInv, SlotsOk, TakeAcl PROVE SlotsOk'
  OBVIOUS
<1>1. /\ S.usb.bulkOut # NONE /\ "bulkOut" \notin done /\ done' = done \union {"bulkOut"}
      /\ radio' = IF ctl.link THEN Append(radio, S.usb.buffer) ELSE radio
      /\ UNCHANGED <<S, ctl>>
  BY DEF TakeAcl
<1>2. Pending = 1 /\ Pending' = 0
  BY <1>1 DEF Pending
<1>3. IsList(Append(radio, S.usb.buffer)) /\ Len(Append(radio, S.usb.buffer)) = Len(radio) + 1
  BY AppendedList DEF SlotsOk
<1>4. TrueEvents'
  BY <1>1 DEF SlotsOk, TrueEvents
<1>5. Len(radio) \in Nat /\ Completed(ctl.events) \in Nat
  BY SlotsBasics
<1>6. ctl.link => S.hci.conn.sent = Len(radio') + Pending' + Completed(ctl.events)
  BY <1>1, <1>2, <1>3, <1>5 DEF SlotsOk
<1> QED BY <1>1, <1>3, <1>4, <1>6 DEF SlotsOk

\* An event of the controller or the phone that says nothing of packets.
LEMMA AppendedCounts ==
    ASSUME IInv, SlotsOk, NEW ev,
           ev \notin {"COMMAND_COMPLETE", "COMPLETED_PACKETS"},
           ctl'.events = Append(ctl.events, Event(ev))
    PROVE  TrueEvents' /\ Completed(ctl'.events) = Completed(ctl.events)
<1>1. Event(ev).ev = ev
  BY DEF Event
<1>2. IsList(ctl.events) /\ Completed(ctl.events) \in Nat
  BY SlotsBasics
<1>3. Completed(ctl'.events) = Completed(ctl.events)
  BY <1>1, <1>2, CompletedAppended
<1>4. In(ctl'.events) = In(ctl.events) \union {Event(ev)}
  BY <1>2, AppendedList
<1>5. TrueEvents'
  BY <1>1, <1>4 DEF SlotsOk, TrueEvents
<1> QED BY <1>3, <1>5

LEMMA DeliverCounts == IInv /\ SlotsOk /\ Deliver => SlotsOk'
<1> SUFFICES ASSUME IInv, SlotsOk, Deliver PROVE SlotsOk'
  OBVIOUS
<1> DEFINE e == [Event("COMPLETED_PACKETS") EXCEPT !.num = 1]
<1>1. e.ev = "COMPLETED_PACKETS" /\ e.num = 1
  BY DEF Event
<1>2. /\ radio # <<>> /\ radio' = Tail(radio) /\ UNCHANGED <<S, done>>
      /\ ctl'.link = ctl.link /\ ctl'.events = Append(ctl.events, e)
  BY DEF Deliver, IInv, ShapeOk
<1> HIDE DEF e
<1>3. /\ IsList(ctl.events) /\ Completed(ctl.events) \in Nat /\ Len(radio) \in Nat
      /\ Pending \in {0, 1} /\ Slots \in 0 .. 255
      /\ ctl.link /\ HasConn(S)
  BY <1>2, SlotsBasics
<1>4. IsList(Tail(radio)) /\ Len(Tail(radio)) = Len(radio) - 1
  BY <1>2, ShortenedList DEF SlotsOk
<1>5. Completed(ctl'.events) = Completed(ctl.events) + 1
  BY <1>1, <1>2, <1>3, CompletedAppended
<1>6. In(ctl'.events) = In(ctl.events) \union {e}
  BY <1>2, <1>3, AppendedList
<1>7. TrueEvents'
  BY <1>1, <1>6 DEF SlotsOk, TrueEvents
<1>8. Pending' = Pending
  BY <1>2 DEF Pending
<1>9. /\ S.hci.conn.sent \in 0 .. Slots
      /\ S.hci.conn.sent = Len(radio) + Pending + Completed(ctl.events)
  BY <1>3 DEF SlotsOk
<1>10. Len(radio') = Len(radio) - 1 /\ Len(radio') \in Nat
  BY <1>2, <1>4, ListBasics
<1>11. /\ Completed(ctl'.events) <= S.hci.conn.sent
       /\ S.hci.conn.sent = Len(radio') + Pending' + Completed(ctl'.events)
  BY <1>3, <1>5, <1>8, <1>9, <1>10
<1> QED BY <1>2, <1>3, <1>4, <1>7, <1>11 DEF SlotsOk

LEMMA PhoneCounts ==
    IInv /\ SlotsOk /\ (Page \/ Pair \/ Greet \/ SendData \/ CloseChannel \/ HangUp \/ Loss) => SlotsOk'
<1> SUFFICES ASSUME IInv, SlotsOk, Page \/ Pair \/ Greet \/ SendData \/ CloseChannel \/ HangUp \/ Loss
             PROVE  SlotsOk'
  OBVIOUS
<1>1. S' = S /\ done' = done
  BY DEF Page, Pair, Greet, SendData, CloseChannel, HangUp, Loss, PhoneDoes, LoseLink
<1>2. Pending' = Pending
  BY <1>1 DEF Pending
<1>3. /\ S.hci.total_acl \in {0, Slots} /\ IsList(radio) /\ Slots \in 0 .. 255
      /\ IsList(ctl.events) /\ Completed(ctl.events) \in Nat /\ Len(radio) \in Nat
  BY SlotsBasics DEF SlotsOk
<1>4. CASE Greet \/ SendData \/ CloseChannel
  <2>1. ctl'.events = ctl.events /\ ctl'.link = ctl.link /\ radio' = radio
    BY <1>4 DEF Greet, SendData, CloseChannel, PhoneDoes, IInv, ShapeOk
  <2> QED BY <1>1, <1>2, <2>1 DEF SlotsOk, TrueEvents
<1>5. CASE HangUp \/ Loss
  <2>1. /\ radio' = <<>> /\ ~ctl'.link
        /\ ctl'.events = Append(ctl.events, Event("DISCONNECTION_COMPLETE"))
    BY <1>5 DEF HangUp, Loss, LoseLink, IInv, ShapeOk
  <2>2. TrueEvents' /\ Completed(ctl'.events) = Completed(ctl.events)
    BY <2>1, AppendedCounts
  <2>3. IsList(<<>>)
    BY EmptyQueue DEF QueueOk
  <2> QED BY <1>1, <2>1, <2>2, <2>3 DEF SlotsOk
<1>6. CASE Page
  <2> DEFINE e == Event("CONNECTION_REQUEST")
             none == <<>>
             one == <<e>>
  <2>1. phone.at = "away" /\ ctl.events = none /\ ctl'.events = one /\ ctl'.link = ctl.link /\ radio' = radio
    BY <1>6 DEF Page, IInv, ShapeOk
  <2>2. one = Append(none, e)
    OBVIOUS
  <2> HIDE DEF none, one
  <2>3. ctl'.events = Append(ctl.events, e)
    BY <2>1, <2>2
  <2>4. TrueEvents' /\ Completed(ctl'.events) = Completed(ctl.events)
    BY <2>3, AppendedCounts
  <2>5. ~ctl.link
    BY <2>1 DEF IInv, PhasesOk, AwayOk
  <2> QED BY <1>1, <2>1, <2>4, <2>5 DEF SlotsOk
<1>7. CASE Pair
  <2>1. AcceptedOk
    BY <1>7 DEF Pair, IInv, PhasesOk
  <2>2. /\ Silent /\ HasConn(S) /\ radio = <<>> /\ Pending = 0
        /\ Completed(ctl.events) = 0
    <3>1. \A e \in In(ctl.events) : e.ev # "COMPLETED_PACKETS"
      BY <2>1 DEF AcceptedOk, Only
    <3> QED BY <1>3, <2>1, <3>1, CompletedBasics DEF AcceptedOk, ConnIn, Silent, Pending
  <2>3. S.hci.conn.sent = 0 /\ Len(radio) = 0
    BY <2>2, SlotsBasics
  <2>4. /\ radio' = radio
        /\ \/ ctl'.events = Append(ctl.events, Event("CONNECTION_COMPLETE"))
           \/ ctl'.events = Append(ctl.events, Event("LINK_KEY_REQUEST"))
    BY <1>7 DEF Pair, IInv, ShapeOk
  <2>5. TrueEvents' /\ Completed(ctl'.events) = 0
    BY <2>2, <2>4, AppendedCounts
  <2> QED BY <1>1, <1>2, <1>3, <2>2, <2>3, <2>4, <2>5 DEF SlotsOk
<1> QED BY <1>4, <1>5, <1>6, <1>7

LEMMA InitCounts == Init => SlotsOk
<1> SUFFICES ASSUME Init PROVE SlotsOk
  OBVIOUS
<1>1. S = BTInit /\ radio = <<>> /\ ctl.events = <<>> /\ ~ctl.link
  BY DEF Init
<1>2. S.hci.total_acl = 0 /\ ~HasConn(S)
  BY <1>1, Begins DEF Starts
<1>3. IsList(radio) /\ TrueEvents
  BY <1>1, EmptyQueue DEF QueueOk, TrueEvents
<1> QED BY <1>1, <1>2, <1>3 DEF SlotsOk

LEMMA EveryStepCounts == IInv /\ SlotsOk /\ ChannelNumbersLast /\ [Next]_vars => SlotsOk'
<1> SUFFICES ASSUME IInv, SlotsOk, ChannelNumbersLast, [Next]_vars PROVE SlotsOk'
  OBVIOUS
<1>1. CASE Driver
  BY <1>1, PollEventsCounts, PollAclCounts, PollBulkOutCounts, PollControlOutCounts,
     ApplicationCounts DEF Driver
<1>2. CASE PhoneActs \/ Loss
  BY <1>2, PhoneCounts DEF PhoneActs
<1>3. CASE TakeCommand \/ TakeAcl \/ Deliver \/ Write \/ Close
  BY <1>3, TakeCommandCounts, TakeAclCounts, DeliverCounts, ApplicationCounts
<1>4. CASE UNCHANGED vars
  BY <1>4 DEF vars, SlotsOk, TrueEvents, Pending
<1> QED BY <1>1, <1>2, <1>3, <1>4 DEF Next

SlotsAreFree ==
    /\ Len(radio) <= Slots
    /\ HasConn(S) => S.hci.conn.sent \in Completed(ctl.events) .. Slots

LEMMA PartOfSum ==
    ASSUME NEW s \in Int, NEW a \in Nat, NEW b \in {0, 1}, NEW c \in Nat, s = a + b + c
    PROVE  a <= s
OBVIOUS

\* The controller never has more packets to transmit than it has room for, and
\* the count of hci.c is never more than that nor less than what the controller
\* will report completed, so that the byte does not run below 0:
\* hci_number_free_acl_slots, by which hci.c decides whether to send, is never
\* too large, in whatever order packets are taken, transmitted and reported, and
\* across connections that are lost.  This is the first part of FlowIsKept.
THEOREM SlotsAreKept == Spec /\ []ChannelNumbersLast => []SlotsAreFree
<1>1. Spec /\ []ChannelNumbersLast => []SlotsOk
  BY InitCounts, EveryStepCounts, AlwaysOk, PTL DEF Spec
<1>2. IInv /\ SlotsOk => SlotsAreFree
  <2> SUFFICES ASSUME IInv, SlotsOk PROVE SlotsAreFree
    OBVIOUS
  <2> DEFINE air == Len(radio)
             told == Completed(ctl.events)
             sent == S.hci.conn.sent
  <2>1. /\ air \in Nat /\ Slots \in 0 .. 255 /\ Pending \in {0, 1} /\ told \in Nat
        /\ radio # <<>> => ctl.link /\ HasConn(S)
    BY SlotsBasics
  <2>2. HasConn(S) => sent \in 0 .. Slots /\ told <= sent
    BY DEF SlotsOk
  <2>3. HasConn(S) /\ ctl.link => sent = air + Pending + told
    BY DEF SlotsOk
  <2>4. radio = <<>> => air = 0
    OBVIOUS
  <2> HIDE DEF air, told, sent
  <2>5. HasConn(S) => sent \in Int /\ sent <= Slots /\ sent \in told .. Slots
    BY <2>1, <2>2
  <2>6. air <= Slots
    <3>1. CASE radio # <<>>
      <4>1. air <= sent
        BY <2>1, <2>3, <2>5, <3>1, PartOfSum
      <4> QED BY <2>1, <2>5, <3>1, <4>1
    <3>2. CASE radio = <<>>
      BY <2>1, <2>4, <3>2
    <3> QED BY <3>1, <3>2
  <2> QED BY <2>5, <2>6 DEF SlotsAreFree, air, told, sent
<1> QED BY <1>1, <1>2, AlwaysOk, PTL
=============================================================================
