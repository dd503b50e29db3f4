------------------------- MODULE UsbTransferProofs -------------------------
(***************************************************************************)
(* The safety properties of UsbTransfer, for transfers and packets of any  *)
(* size, any number of faults and any set of endpoints that are used.      *)
(*                                                                         *)
(* They all come down to the data toggles of the two sides.  On an OUT     *)
(* endpoint toggles that differ mean that the device has the packet that   *)
(* will come again (Writes); on an IN endpoint, that the host has the one  *)
(* that the device will send again (Reads), which costs an error that the  *)
(* fault has to be counted for (Counted).                                  *)
(*                                                                         *)
(* An endpoint and its side of the device are looked at by themselves      *)
(* (Good): what _USB_FindNextToken does to the endpoints is the same for   *)
(* every step of the interrupt (Kept).                                     *)
(***************************************************************************)
EXTENDS UsbTransfer, TLAPS

Stages == {"IDLE", "SETUP", "DATA", "ACK", "COMPLETE", "ERROR"}
Open   == {"SETUP", "DATA", "ACK"}
Endpoint ==
    [kind : Kinds \union {"READ", "WRITE"}, stage : Stages,
     complete : BOOLEAN, ok : BOOLEAN,
     failed : {"none", "error", "nak", "stall"},
     errors : Nat, naks : Nat, nakd : BOOLEAN, toggle : {0, 1},
     count : Int, max : Int, wait : Nat]
Bus == [token : [ep : Eps, pid : {"none", "SETUP", "IN", "OUT"}],
        last : Nat,
        done : [control : BOOLEAN, interrupt : BOOLEAN, bulk : BOOLEAN]]
Device == [toggle : {0, 1}, pos : Int, len : Int, done : BOOLEAN]

\* An endpoint has the transfers of its type, and a stage while it has one.
KindsOf(e) == IF e = "ep0" THEN Kinds
              ELSE IF e = "bulkOut" THEN {"WRITE"} ELSE {"READ"}
Fits(e, x) ==
    /\ x.complete <=> x.stage = "IDLE"
    /\ ~x.complete => x.kind \in KindsOf(e)
    /\ e # "ep0" => x.stage \notin {"SETUP", "ACK"}

\* The token that is out belongs to the stage of its transfer.
TokenFits(s) ==
    Written(s) =>
      /\ ~s.ep[s.bus.token.ep].complete
      /\ s.ep[s.bus.token.ep].stage \in Open
      /\ s.bus.token.pid = Pid(s.ep[s.bus.token.ep])
      /\ s.ep[s.bus.token.ep].stage = "ACK" =>
           s.ep[s.bus.token.ep].toggle = 1
      /\ s.ep[s.bus.token.ep].stage = "SETUP" =>
           s.ep[s.bus.token.ep].toggle = 0

Sound(s) ==
    /\ s \in [ep : [Eps -> Endpoint], bus : Bus]
    /\ \A e \in Eps : Fits(e, s.ep[e])
    /\ TokenFits(s)

\* Data to the device.
Writes(x, d) ==
    /\ x.count <= x.max
    /\ x.ok => d.pos = x.max /\ x.count = x.max
    /\ x.failed = "none" /\ x.stage # "DATA" => x.toggle = d.toggle
    /\ x.failed # "none" => x.stage \in {"ERROR", "IDLE"}
    /\ x.stage = "COMPLETE" => x.ok
    /\ x.stage \in {"DATA", "ERROR"} =>
         /\ ~x.ok
         /\ d.pos = IF x.toggle = d.toggle THEN x.count
                    ELSE x.count + Least(MaxPacketSize, x.max - x.count)

\* Data from the device.  What it sends again is the last packet of a message
\* that the host has, or the one before in this transfer.
Reads(x, d) ==
    /\ x.count >= 0
    /\ IF d.len = None THEN d.pos = 0 ELSE d.len \in Sizes /\ d.pos \in 0 .. d.len
    /\ x.failed # "none" => x.stage # "DATA"
    /\ x.stage = "DATA" => ~x.ok /\ x.max = ReadSize
    /\ x.failed = "none" =>
         IF x.toggle = d.toggle
           THEN d.pos = IF x.stage = "DATA" THEN x.count ELSE 0
         ELSE /\ d.len # None
              /\ IF d.len - d.pos < MaxPacketSize
                   THEN x.stage = "DATA" => x.count = 0
                 ELSE x.stage = "DATA" /\ x.count = d.pos + MaxPacketSize

\* Errors, of which b were paid for.
Behind(e, x, d) ==
    /\ x.toggle # d.toggle
    /\ e \in Ins \/ (e = "ep0" /\ x.stage = "DATA" /\ x.kind = "CONTROL_READ")
Counted(e, x, d, b) ==
    /\ x.errors + (IF Behind(e, x, d) THEN 1 ELSE 0) <= b
    /\ x.failed = "error" => RetryAttempts <= b

Good(e, x, d, b) ==
    /\ x \in Endpoint /\ Fits(e, x) /\ d \in Device
    /\ Counted(e, x, d, b)
    /\ e = "bulkOut" => Writes(x, d)
    /\ e \in Ins => Reads(x, d)

\* What a step may do to a read: its endpoint x becomes y, with d to come.
Whole(x, y, d) ==
    /\ y.count > x.count => x.count = d.pos
    /\ y.ok /\ ~x.ok => y.count = IF d.len = None THEN 0 ELSE d.len

State == [ep |-> ep, bus |-> bus]
Inv ==
    /\ Sound(State)
    /\ dev \in [Eps -> Device] /\ faults \in Nat /\ used \subseteq Eps
    /\ \A e \in Eps : Good(e, ep[e], dev[e], 2 * faults)
Received == \A e \in Ins : Whole(ep[e], ep'[e], dev[e])

-----------------------------------------------------------------------------
(* Looking for a token.                                                    *)

\* What a search leaves of an endpoint.
Kept(e, x, y) ==
    /\ y.kind = x.kind /\ y.ok = x.ok /\ y.failed = x.failed
    /\ y.count = x.count
    /\ e # "ep0" => y.max = x.max
    /\ e # "ep0" \/ x.stage = "DATA" => y.toggle = x.toggle
    /\ \/ y.complete = x.complete /\ y.stage = x.stage /\ y.errors = x.errors
       \/ ~x.complete /\ IsOver(x) /\ y.complete /\ y.stage = "IDLE"
          /\ y.errors = 0

LEMMA KeptSelf ==
    ASSUME NEW e, NEW x \in Endpoint PROVE Kept(e, x, x)
BY DEF Kept

LEMMA KeptTwice ==
    ASSUME NEW e, NEW x \in Endpoint, NEW y \in Endpoint, NEW z \in Endpoint,
           Kept(e, x, y), Kept(e, y, z)
    PROVE  Kept(e, x, z)
BY DEF Kept, IsOver

LEMMA IdleKept ==
    ASSUME NEW e \in Eps, NEW x \in Endpoint, ~x.complete, IsOver(x), Fits(e, x)
    PROVE  Idle(x) \in Endpoint /\ Fits(e, Idle(x)) /\ Kept(e, x, Idle(x))
<1>1. /\ Idle(x) \in Endpoint
      /\ Idle(x).stage = "IDLE" /\ Idle(x).complete /\ Idle(x).errors = 0
      /\ Idle(x).kind = x.kind /\ Idle(x).ok = x.ok
      /\ Idle(x).failed = x.failed /\ Idle(x).count = x.count
      /\ Idle(x).max = x.max /\ Idle(x).toggle = x.toggle
  BY DEF Idle, Endpoint, Stages
<1> QED
  BY <1>1 DEF Kept, Fits

LEMMA PreparedKept ==
    ASSUME NEW e \in Eps, NEW x \in Endpoint, ~x.complete, ~IsOver(x), Fits(e, x)
    PROVE  /\ Prepared(x) \in Endpoint /\ Fits(e, Prepared(x))
           /\ Kept(e, x, Prepared(x))
           /\ ~Prepared(x).complete /\ Prepared(x).stage \in Open
           /\ Pid(Prepared(x)) = Pid(x) /\ Pid(x) \in {"SETUP", "IN", "OUT"}
           /\ Prepared(x).stage = "ACK" => Prepared(x).toggle = 1
           /\ Prepared(x).stage = "SETUP" => Prepared(x).toggle = 0
<1>1. x.stage \in Open
  BY DEF Endpoint, Stages, Open, IsOver, Fits
<1>2. CASE x.stage = "SETUP"
  <2>1. Prepared(x) = [x EXCEPT !.toggle = 0]
    BY <1>2 DEF Prepared
  <2>2. [x EXCEPT !.toggle = 0] \in Endpoint
    BY DEF Endpoint
  <2> QED
    BY <1>2, <2>1, <2>2 DEF Endpoint, Kept, Fits, Pid, Open
<1>3. CASE x.stage = "ACK"
  <2>1. Prepared(x) = [x EXCEPT !.toggle = 1, !.max = x.count]
    BY <1>3 DEF Prepared
  <2>2. [x EXCEPT !.toggle = 1, !.max = x.count] \in Endpoint
    BY DEF Endpoint
  <2> QED
    BY <1>3, <2>1, <2>2 DEF Endpoint, Kept, Fits, Pid, Open
<1>4. CASE x.stage = "DATA"
  <2>1. Prepared(x) = x
    BY <1>4 DEF Prepared
  <2> QED
    BY <1>4, <2>1, KeptSelf DEF Pid, Open
<1> QED
  BY <1>1, <1>2, <1>3, <1>4 DEF Open

\* The two parts of a state, when one or both are changed.
LEMMA BusIs ==
    ASSUME NEW A, NEW B, NEW s \in [ep : A, bus : B], NEW v
    PROVE  [s EXCEPT !.bus = v] = [ep |-> s.ep, bus |-> v]
OBVIOUS

LEMMA EpIs ==
    ASSUME NEW A, NEW B, NEW s \in [ep : A, bus : B], NEW v
    PROVE  [s EXCEPT !.ep = v] = [ep |-> v, bus |-> s.bus]
OBVIOUS

LEMMA BothAre ==
    ASSUME NEW A, NEW B, NEW s \in [ep : A, bus : B], NEW v, NEW w
    PROVE  [s EXCEPT !.ep = v, !.bus = w] = [ep |-> v, bus |-> w]
<1>1. [s EXCEPT !.ep = v] = [ep |-> v, bus |-> s.bus]
  BY EpIs
<1> DEFINE u == [ep |-> v, bus |-> s.bus]
<1>2. u \in [ep : {v}, bus : B]
  OBVIOUS
<1>3. [s EXCEPT !.ep = v, !.bus = w] = [u EXCEPT !.bus = w]
  BY <1>1
<1>4. u.ep = v
  OBVIOUS
<1> HIDE DEF u
<1> QED
  BY <1>2, <1>3, <1>4, BusIs

\* The state t that a part of the search makes of s.
After1(s, t) == Sound(t) /\ \A e \in Eps : Kept(e, s.ep[e], t.ep[e])

LEMMA AfterSelf == ASSUME NEW s, Sound(s) PROVE After1(s, s)
BY KeptSelf DEF After1, Sound

LEMMA AfterTwice ==
    ASSUME NEW s, NEW t, NEW u, Sound(s), After1(s, t), After1(t, u)
    PROVE  After1(s, u)
<1>1. \A e \in Eps : s.ep[e] \in Endpoint /\ t.ep[e] \in Endpoint
                     /\ u.ep[e] \in Endpoint
  BY DEF After1, Sound
<1>2. ASSUME NEW e \in Eps PROVE Kept(e, s.ep[e], u.ep[e])
  BY <1>1, KeptTwice DEF After1
<1> QED
  BY <1>2 DEF After1

\* One endpoint changes, no token is written.
LEMMA AfterOne ==
    ASSUME NEW s, Sound(s), ~Written(s), NEW e \in Eps, NEW y \in Endpoint,
           Fits(e, y), Kept(e, s.ep[e], y),
           NEW b \in Bus, b.token = s.bus.token,
           NEW t, t = [ep |-> [s.ep EXCEPT ![e] = y], bus |-> b]
    PROVE  After1(s, t)
<1>1. t \in [ep : [Eps -> Endpoint], bus : Bus]
  BY DEF Sound
<1>2. \A f \in Eps : t.ep[f] = IF f = e THEN y ELSE s.ep[f]
  BY DEF Sound
<1>3. ~Written(t)
  BY DEF Written
<1>4. \A f \in Eps : s.ep[f] \in Endpoint
  BY DEF Sound
<1> QED
  BY <1>1, <1>2, <1>3, <1>4, KeptSelf DEF After1, Sound, TokenFits

\* A token is sent for an endpoint that has a transfer.
LEMMA AfterSend ==
    ASSUME NEW s, Sound(s), NEW e \in Eps,
           ~s.ep[e].complete, ~IsOver(s.ep[e])
    PROVE  After1(s, SendToken(s, e))
<1> DEFINE t == SendToken(s, e)
           x == s.ep[e]
<1>1. x \in Endpoint /\ Fits(e, x)
  BY DEF Sound
<1>2. /\ Prepared(x) \in Endpoint /\ Fits(e, Prepared(x))
      /\ Kept(e, x, Prepared(x))
      /\ ~Prepared(x).complete /\ Prepared(x).stage \in Open
      /\ Pid(Prepared(x)) = Pid(x) /\ Pid(x) \in {"SETUP", "IN", "OUT"}
      /\ Prepared(x).stage = "ACK" => Prepared(x).toggle = 1
      /\ Prepared(x).stage = "SETUP" => Prepared(x).toggle = 0
  BY <1>1, PreparedKept
<1>3. /\ t.ep = [s.ep EXCEPT ![e] = Prepared(x)]
      /\ t.bus = [s.bus EXCEPT !.token = [ep |-> e, pid |-> Pid(x)]]
      /\ t = [ep |-> t.ep, bus |-> t.bus]
  <2>1. s \in [ep : [Eps -> Endpoint], bus : Bus]
    BY DEF Sound
  <2>2. t = [s EXCEPT !.ep = [s.ep EXCEPT ![e] = Prepared(x)],
                      !.bus = [s.bus EXCEPT !.token =
                                            [ep |-> e, pid |-> Pid(x)]]]
    BY <2>1 DEF SendToken
  <2> HIDE DEF t
  <2> QED
    BY <2>1, <2>2, BothAre
<1> HIDE DEF t, x
<1>4. t.ep \in [Eps -> Endpoint]
  BY <1>2, <1>3 DEF Sound
<1>5. t.bus \in Bus /\ t.bus.token = [ep |-> e, pid |-> Pid(x)]
  <2>1. s.bus \in Bus
    BY DEF Sound
  <2>2. [ep |-> e, pid |-> Pid(x)] \in [ep : Eps, pid : {"none", "SETUP", "IN", "OUT"}]
    BY <1>2
  <2> QED
    BY <1>3, <2>1, <2>2 DEF Bus
<1>6. \A f \in Eps : t.ep[f] = IF f = e THEN Prepared(x) ELSE s.ep[f]
  BY <1>3 DEF Sound
<1>7. TokenFits(t)
  BY <1>2, <1>5, <1>6 DEF TokenFits
<1>8. \A f \in Eps : s.ep[f] \in Endpoint /\ Fits(f, s.ep[f])
  BY DEF Sound
<1>9. t \in [ep : [Eps -> Endpoint], bus : Bus]
  BY <1>3, <1>4, <1>5
<1>10. \A f \in Eps : Fits(f, t.ep[f]) /\ Kept(f, s.ep[f], t.ep[f])
  BY <1>2, <1>6, <1>8, KeptSelf DEF x
<1> QED
  BY <1>7, <1>9, <1>10 DEF After1, Sound, t

LEMMA AfterBus ==
    ASSUME NEW s, Sound(s), ~Written(s), NEW b \in Bus, b.token = s.bus.token,
           NEW t, t = [ep |-> s.ep, bus |-> b]
    PROVE  After1(s, t)
<1>1. t \in [ep : [Eps -> Endpoint], bus : Bus] /\ t.ep = s.ep
  BY DEF Sound
<1>2. ~Written(t)
  BY DEF Written
<1>3. \A f \in Eps : s.ep[f] \in Endpoint
  BY DEF Sound
<1> QED
  BY <1>1, <1>2, <1>3, KeptSelf DEF After1, Sound, TokenFits

LEMMA ControlAfter == ASSUME NEW s, Sound(s), ~Written(s) PROVE After1(s, Control(s))
<1> DEFINE x == s.ep.ep0
           b == [s.bus EXCEPT !.done.control = TRUE]
           t == [s EXCEPT !.bus.done.control = TRUE]
<1>1. "ep0" \in Eps /\ x = s.ep["ep0"] /\ x \in Endpoint /\ Fits("ep0", x)
  BY DEF Sound, Eps
<1>2. b \in Bus /\ b.token = s.bus.token
  BY DEF Sound, Bus
<1>3. t = [ep |-> s.ep, bus |-> b]
  <2>1. s \in [ep : [Eps -> Endpoint], bus : Bus]
    BY DEF Sound
  <2>2. t = [s EXCEPT !.bus = b]
    BY <2>1
  <2> HIDE DEF b, t
  <2> QED
    BY <2>1, <2>2, BusIs
<1> HIDE DEF b, t
<1>4. After1(s, t)
  BY <1>2, <1>3, AfterBus
<1>5. CASE s.bus.done.control \/ x.complete
  BY <1>4, <1>5 DEF Control, t
<1>6. CASE ~(s.bus.done.control \/ x.complete) /\ IsOver(x)
  <2>1. Control(s) = [t EXCEPT !.ep.ep0 = Idle(@)]
    BY <1>6 DEF Control, t
  <2>2. Control(s) = [ep |-> [s.ep EXCEPT !["ep0"] = Idle(x)], bus |-> b]
    BY <1>3, <2>1
  <2>3. Idle(x) \in Endpoint /\ Fits("ep0", Idle(x)) /\ Kept("ep0", x, Idle(x))
    BY <1>1, <1>6, IdleKept
  <2> QED
    BY <1>1, <1>2, <2>2, <2>3, AfterOne
<1>7. CASE ~(s.bus.done.control \/ x.complete) /\ ~IsOver(x)
  <2>1. Control(s) = SendToken(t, "ep0")
    BY <1>7 DEF Control, t
  <2>2. Sound(t) /\ t.ep["ep0"] = x
    BY <1>3, <1>4 DEF After1
  <2>3. After1(t, SendToken(t, "ep0"))
    BY <1>1, <1>7, <2>2, AfterSend
  <2> QED
    BY <1>4, <2>1, <2>3, AfterTwice
<1> QED
  BY <1>5, <1>6, <1>7

LEMMA InterruptsAfter ==
    ASSUME NEW s, Sound(s) PROVE After1(s, Interrupts(s))
<1> DEFINE x == s.ep.intIn
           b == [s.bus EXCEPT !.done.interrupt = TRUE]
           t == [s EXCEPT !.bus.done.interrupt = TRUE]
           v == [x EXCEPT !.wait = IF @ = 0 THEN Interval ELSE @]
           w == [x EXCEPT !.wait = Interval]
           u == [s EXCEPT !.ep.intIn.wait = Interval]
<1>1. "intIn" \in Eps /\ x = s.ep["intIn"] /\ x \in Endpoint
      /\ Fits("intIn", x) /\ Interval \in Nat
      /\ s \in [ep : [Eps -> Endpoint], bus : Bus]
  BY TransferAssumption DEF Sound, Eps
<1>2. b \in Bus /\ b.token = s.bus.token
  BY DEF Sound, Bus
<1>3. t = [ep |-> s.ep, bus |-> b]
  <2>1. t = [s EXCEPT !.bus = b]
    BY <1>1
  <2> HIDE DEF b, t
  <2> QED
    BY <1>1, <2>1, BusIs
<1>4. /\ v \in Endpoint /\ Fits("intIn", v) /\ Kept("intIn", x, v)
      /\ w \in Endpoint /\ Fits("intIn", w) /\ Kept("intIn", x, w)
      /\ w.complete = x.complete /\ IsOver(w) = IsOver(x)
  BY <1>1 DEF Endpoint, Fits, Kept, IsOver
<1>5. u = [ep |-> [s.ep EXCEPT !["intIn"] = w], bus |-> s.bus]
  <2> DEFINE e == [s.ep EXCEPT !["intIn"] = w]
  <2>1. u = [s EXCEPT !.ep = e]
    BY <1>1
  <2> HIDE DEF u, e
  <2>2. u = [ep |-> e, bus |-> s.bus]
    BY <1>1, <2>1, EpIs
  <2> QED
    BY <2>2 DEF e
<1> HIDE DEF b, w
<1>6. CASE Written(s) \/ s.bus.done.interrupt
  BY <1>6, AfterSelf DEF Interrupts
<1> DEFINE free == ~(Written(s) \/ s.bus.done.interrupt)
<1>7. CASE free /\ x.complete
  <2>1. Interrupts(s) = [t EXCEPT !.ep.intIn.wait = IF @ = 0 THEN Interval ELSE @]
    BY <1>7 DEF Interrupts
  <2> HIDE DEF t
  <2>2. Interrupts(s) = [ep |-> [s.ep EXCEPT !["intIn"] = v], bus |-> b]
    BY <1>3, <2>1
  <2> HIDE DEF v
  <2> QED
    BY <1>1, <1>2, <1>4, <1>7, <2>2, AfterOne
<1>8. CASE free /\ ~x.complete /\ IsOver(x)
  <2>1. Interrupts(s) = [t EXCEPT !.ep.intIn = Idle(@)]
    BY <1>8 DEF Interrupts
  <2> HIDE DEF t
  <2>2. Interrupts(s) = [ep |-> [s.ep EXCEPT !["intIn"] = Idle(x)], bus |-> b]
    BY <1>3, <2>1
  <2>3. Idle(x) \in Endpoint /\ Fits("intIn", Idle(x)) /\ Kept("intIn", x, Idle(x))
    BY <1>1, <1>8, IdleKept
  <2> QED
    BY <1>1, <1>2, <1>8, <2>2, <2>3, AfterOne
<1>9. CASE free /\ ~x.complete /\ ~IsOver(x) /\ x.wait > 0
  <2>1. Interrupts(s) = t
    BY <1>9 DEF Interrupts
  <2> HIDE DEF t
  <2> QED
    BY <1>2, <1>3, <1>9, <2>1, AfterBus
<1>10. CASE free /\ ~x.complete /\ ~IsOver(x) /\ ~(x.wait > 0)
  <2>1. Interrupts(s) = SendToken(u, "intIn")
    BY <1>10 DEF Interrupts
  <2> HIDE DEF u
  <2>2. s.bus \in Bus
    BY <1>1
  <2>3. After1(s, u)
    BY <1>1, <1>4, <1>5, <1>10, <2>2, AfterOne
  <2>4. u.ep["intIn"] = w
    BY <1>1, <1>5
  <2>5. After1(u, SendToken(u, "intIn"))
    BY <1>1, <1>4, <1>10, <2>3, <2>4, AfterSend DEF After1
  <2> QED
    BY <2>1, <2>3, <2>5, AfterTwice
<1> QED
  BY <1>6, <1>7, <1>8, <1>9, <1>10

LEMMA TryBulkAfter == ASSUME NEW s, Sound(s) PROVE After1(s, TryBulk(s))
<1> DEFINE ready == {i \in DOMAIN List : Type[List[i]] = "BULK"
                                         /\ Needs(s.ep[List[i]])}
           turn  == {i \in ready : Cardinality({j \in ready : j < i}) = s.bus.last}
           e     == List[CHOOSE i \in turn : TRUE]
           free  == ~(Written(s) \/ s.bus.done.bulk)
           b1    == [s.bus EXCEPT !.done.bulk = TRUE]
           b2    == [s.bus EXCEPT !.last = 0]
           b3    == [s.bus EXCEPT !.last = @ + 1]
<1>1. s \in [ep : [Eps -> Endpoint], bus : Bus] /\ s.bus \in Bus
  BY DEF Sound
<1>2. /\ b1 \in Bus /\ b1.token = s.bus.token
      /\ b2 \in Bus /\ b2.token = s.bus.token
      /\ b3 \in Bus /\ b3.token = s.bus.token
  <2>1. b1 \in Bus /\ b1.token = s.bus.token
    BY <1>1 DEF Bus
  <2>2. b2 \in Bus /\ b2.token = s.bus.token
    BY <1>1 DEF Bus
  <2>3. s.bus.last + 1 \in Nat
    BY <1>1 DEF Bus
  <2>4. b3 \in Bus /\ b3.token = s.bus.token
    BY <1>1, <2>3 DEF Bus
  <2> QED
    BY <2>1, <2>2, <2>4
<1>3. turn # {} => e \in Eps /\ Needs(s.ep[e])
  <2>1. turn # {} => (CHOOSE i \in turn : TRUE) \in ready
    OBVIOUS
  <2>2. \A i \in ready : List[i] \in Eps /\ Needs(s.ep[List[i]])
    BY DEF List, Eps
  <2> HIDE DEF ready, turn
  <2> QED
    BY <2>1, <2>2
<1>4. TryBulk(s) =
        IF Written(s) \/ s.bus.done.bulk THEN s
        ELSE IF ready = {} THEN [s EXCEPT !.bus.done.bulk = TRUE]
        ELSE IF turn = {} THEN [s EXCEPT !.bus.last = 0]
        ELSE IF IsOver(s.ep[e]) THEN [s EXCEPT !.ep[e] = Idle(@), !.bus.last = 0]
        ELSE SendToken([s EXCEPT !.bus.last = @ + 1], e)
  BY DEF TryBulk
<1> HIDE DEF ready, turn, e
<1>5. CASE ~free
  BY <1>4, <1>5, AfterSelf
<1>6. CASE free /\ ready = {}
  <2>1. TryBulk(s) = [s EXCEPT !.bus = b1]
    BY <1>1, <1>4, <1>6
  <2> HIDE DEF b1
  <2>2. TryBulk(s) = [ep |-> s.ep, bus |-> b1]
    BY <1>1, <2>1, BusIs
  <2> QED
    BY <1>2, <1>6, <2>2, AfterBus
<1>7. CASE free /\ ready # {} /\ turn = {}
  <2>1. TryBulk(s) = [s EXCEPT !.bus = b2]
    BY <1>1, <1>4, <1>7
  <2> HIDE DEF b2
  <2>2. TryBulk(s) = [ep |-> s.ep, bus |-> b2]
    BY <1>1, <2>1, BusIs
  <2> QED
    BY <1>2, <1>7, <2>2, AfterBus
<1>8. CASE free /\ ready # {} /\ turn # {} /\ IsOver(s.ep[e])
  <2> DEFINE q == [s.ep EXCEPT ![e] = Idle(s.ep[e])]
  <2>1. TryBulk(s) = [s EXCEPT !.ep = q, !.bus = b2]
    BY <1>1, <1>4, <1>8
  <2> HIDE DEF b2, q
  <2>2. TryBulk(s) = [ep |-> q, bus |-> b2]
    BY <1>1, <2>1, BothAre
  <2>3. s.ep[e] \in Endpoint /\ Fits(e, s.ep[e]) /\ ~s.ep[e].complete
    BY <1>1, <1>3, <1>8 DEF Sound, Needs
  <2>4. /\ Idle(s.ep[e]) \in Endpoint /\ Fits(e, Idle(s.ep[e]))
        /\ Kept(e, s.ep[e], Idle(s.ep[e]))
    BY <1>3, <1>8, <2>3, IdleKept
  <2> QED
    BY <1>2, <1>3, <1>8, <2>2, <2>4, AfterOne DEF q
<1>9. CASE free /\ ready # {} /\ turn # {} /\ ~IsOver(s.ep[e])
  <2> DEFINE t == [s EXCEPT !.bus.last = @ + 1]
  <2>1. TryBulk(s) = SendToken(t, e)
    BY <1>4, <1>9
  <2>2. t = [s EXCEPT !.bus = b3]
    BY <1>1
  <2> HIDE DEF b3, t
  <2>3. t = [ep |-> s.ep, bus |-> b3]
    BY <1>1, <2>2, BusIs
  <2>4. After1(s, t) /\ t.ep[e] = s.ep[e]
    BY <1>2, <1>9, <2>3, AfterBus
  <2>5. After1(t, SendToken(t, e))
    BY <1>3, <1>9, <2>4, AfterSend DEF After1, Needs
  <2> QED
    BY <2>1, <2>4, <2>5, AfterTwice
<1> QED
  BY <1>5, <1>6, <1>7, <1>8, <1>9

\* _USB_FindNextToken leaves endpoints that are sound, and each of them as it
\* was but for what the search may do (usb_host.c:3384-4271).
LEMMA FindAfter ==
    ASSUME NEW e \in [Eps -> Endpoint], NEW b \in Bus,
           Sound([ep |-> e, bus |-> b]), FindNextToken(e, b)
    PROVE  Sound(State)' /\ \A f \in Eps : Kept(f, e[f], ep'[f])
<1> DEFINE s == [ep |-> e, bus |-> b]
<1>1. s.ep = e /\ s.bus = b
  OBVIOUS
<1>2. CASE Written(s)
  <2>1. ep' = e /\ bus' = b
    BY <1>2 DEF FindNextToken
  <2> QED
    BY <2>1, KeptSelf DEF State, Sound
<1>3. CASE ~Written(s)
  <2>1. PICK c, i, t1, t2, t3, t4, t5, t6 :
               /\ c = Control(s) /\ i = Interrupts(c) /\ t1 = TryBulk(i)
               /\ t2 = TryBulk(t1) /\ t3 = TryBulk(t2) /\ t4 = TryBulk(t3)
               /\ t5 = TryBulk(t4) /\ t6 = TryBulk(t5)
               /\ ep' = t6.ep /\ bus' = t6.bus
    BY <1>3 DEF FindNextToken
  <2> HIDE DEF s
  <2>2. Sound(s) /\ After1(s, c)
    BY <1>3, <2>1, ControlAfter DEF s
  <2>3. After1(s, i)
    BY <2>1, <2>2, InterruptsAfter, AfterTwice DEF After1
  <2>4. After1(s, t1)
    BY <2>1, <2>2, <2>3, TryBulkAfter, AfterTwice DEF After1
  <2>5. After1(s, t2)
    BY <2>1, <2>2, <2>4, TryBulkAfter, AfterTwice DEF After1
  <2>6. After1(s, t3)
    BY <2>1, <2>2, <2>5, TryBulkAfter, AfterTwice DEF After1
  <2>7. After1(s, t4)
    BY <2>1, <2>2, <2>6, TryBulkAfter, AfterTwice DEF After1
  <2>8. After1(s, t5)
    BY <2>1, <2>2, <2>7, TryBulkAfter, AfterTwice DEF After1
  <2>9. After1(s, t6)
    BY <2>1, <2>2, <2>8, TryBulkAfter, AfterTwice DEF After1
  <2>10. t6 = [ep |-> t6.ep, bus |-> t6.bus]
    BY <2>9 DEF After1, Sound
  <2>11. State' = t6
    BY <2>1, <2>10 DEF State
  <2> QED
    BY <1>1, <2>1, <2>9, <2>11 DEF After1
<1> QED
  BY <1>2, <1>3

-----------------------------------------------------------------------------
(* One endpoint and its side of the device.                                *)

\* A search for a token, and the start of a frame, leave it good.
LEMMA GoodKept ==
    ASSUME NEW e \in Eps, NEW x, NEW d, NEW b \in Nat, Good(e, x, d, b),
           NEW y \in Endpoint, Fits(e, y), Kept(e, x, y)
    PROVE  Good(e, y, d, b)
<1>1. x \in Endpoint /\ d \in Device /\ Counted(e, x, d, b) /\ Fits(e, x)
  BY DEF Good
<1>2. "ep0" \notin Ins /\ "bulkOut" # "ep0"
  BY DEF Ins
<1>3. Counted(e, y, d, b)
  <2>1. Behind(e, y, d) => Behind(e, x, d)
    BY <1>2 DEF Behind, Kept, Fits
  <2>2. /\ x.errors + (IF Behind(e, x, d) THEN 1 ELSE 0) <= b
        /\ y.errors <= x.errors /\ y.failed = x.failed
        /\ x.errors \in Nat /\ y.errors \in Nat
    BY <1>1 DEF Counted, Kept, Endpoint
  <2> QED
    BY <1>1, <2>1, <2>2 DEF Counted
<1>4. ASSUME e = "bulkOut" PROVE Writes(y, d)
  <2>1. Writes(x, d)
    BY <1>4 DEF Good
  <2> QED
    BY <1>1, <1>2, <1>4, <2>1 DEF Writes, Kept, IsOver
<1>5. ASSUME e \in Ins PROVE Reads(y, d)
  <2>1. Reads(x, d)
    BY <1>5 DEF Good
  <2> QED
    BY <1>1, <1>2, <1>5, <2>1 DEF Reads, Kept, IsOver
<1> QED
  BY <1>1, <1>3, <1>4, <1>5 DEF Good

\* More faults only pay for more errors.
LEMMA GoodMore ==
    ASSUME NEW e \in Eps, NEW x, NEW d, NEW b \in Nat, NEW c \in Nat, b <= c,
           Good(e, x, d, b)
    PROVE  Good(e, x, d, c)
<1>1. x.errors \in Nat /\ RetryAttempts \in Nat
  BY TransferAssumption DEF Good, Endpoint
<1> QED
  BY <1>1 DEF Good, Counted

\* An error is one more, or ends the transfer.
LEMMA ErrorType ==
    ASSUME NEW x \in Endpoint
    PROVE  /\ Error(x) \in Endpoint
           /\ Error(x).errors = x.errors + 1
           /\ Error(x).kind = x.kind /\ Error(x).complete = x.complete
           /\ Error(x).ok = x.ok /\ Error(x).toggle = x.toggle
           /\ Error(x).count = x.count /\ Error(x).max = x.max
           /\ IF x.errors + 1 >= RetryAttempts
                THEN Error(x).stage = "ERROR" /\ Error(x).failed = "error"
              ELSE Error(x).stage = x.stage /\ Error(x).failed = x.failed
<1> DEFINE y == [x EXCEPT !.errors = @ + 1]
<1>1. /\ y \in Endpoint /\ y.errors = x.errors + 1
      /\ y.kind = x.kind /\ y.complete = x.complete
      /\ y.ok = x.ok /\ y.toggle = x.toggle
      /\ y.count = x.count /\ y.max = x.max
      /\ y.stage = x.stage /\ y.failed = x.failed
  BY DEF Endpoint
<1>2. Error(x) = IF y.errors >= RetryAttempts THEN Fails(y, "error") ELSE y
  BY DEF Error
<1> HIDE DEF y
<1>3. /\ Fails(y, "error") \in Endpoint
      /\ Fails(y, "error").errors = y.errors
      /\ Fails(y, "error").kind = y.kind
      /\ Fails(y, "error").complete = y.complete
      /\ Fails(y, "error").ok = y.ok /\ Fails(y, "error").toggle = y.toggle
      /\ Fails(y, "error").count = y.count /\ Fails(y, "error").max = y.max
      /\ Fails(y, "error").stage = "ERROR"
      /\ Fails(y, "error").failed = "error"
  BY <1>1 DEF Fails, Endpoint, Stages
<1> QED
  BY <1>1, <1>2, <1>3

LEMMA GoodError ==
    ASSUME NEW e \in Eps, NEW x, NEW d, NEW b \in Nat, Good(e, x, d, b),
           ~x.complete, x.stage \in Open \union {"ERROR"}
    PROVE  /\ Good(e, Error(x), d, b + 1)
           /\ ~Error(x).complete /\ Error(x).stage \in Open \union {"ERROR"}
<1> DEFINE y == Error(x)
<1>1. x \in Endpoint /\ d \in Device /\ Counted(e, x, d, b) /\ Fits(e, x)
  BY DEF Good
<1>2. /\ y \in Endpoint
      /\ y.errors = x.errors + 1
      /\ y.kind = x.kind /\ y.complete = x.complete
      /\ y.ok = x.ok /\ y.toggle = x.toggle
      /\ y.count = x.count /\ y.max = x.max
      /\ IF x.errors + 1 >= RetryAttempts
           THEN y.stage = "ERROR" /\ y.failed = "error"
         ELSE y.stage = x.stage /\ y.failed = x.failed
  BY <1>1, ErrorType
<1> HIDE DEF y
<1>3. Fits(e, y)
  BY <1>1, <1>2 DEF Fits, Open
<1>4. Counted(e, y, d, b + 1)
  <2>1. Behind(e, y, d) => Behind(e, x, d)
    BY <1>2 DEF Behind
  <2>2. x.errors \in Nat /\ RetryAttempts \in Nat
    BY <1>1, TransferAssumption DEF Endpoint
  <2> QED
    BY <1>1, <1>2, <2>1, <2>2 DEF Counted
<1>5. ASSUME e = "bulkOut" PROVE Writes(y, d)
  <2>1. Writes(x, d) /\ x.stage \in {"DATA", "ERROR"}
    BY <1>1, <1>5 DEF Good, Fits, Open
  <2> QED
    BY <1>2, <2>1 DEF Writes
<1>6. ASSUME e \in Ins PROVE Reads(y, d)
  <2>1. Reads(x, d)
    BY <1>6 DEF Good
  <2> QED
    BY <1>2, <2>1 DEF Reads
<1> QED
  BY <1>1, <1>2, <1>3, <1>4, <1>5, <1>6 DEF Good, y

-----------------------------------------------------------------------------
(* The end of a token.                                                     *)

\* What is known while a token is out.
LEMMA TokenOut ==
    ASSUME Inv, Token.pid # "none"
    PROVE  /\ E \in Eps /\ Good(E, X, D, 2 * faults)
           /\ X \in Endpoint /\ D \in Device /\ Fits(E, X)
           /\ ~X.complete /\ X.stage \in Open /\ Token.pid = Pid(X)
           /\ X.stage = "ACK" => X.toggle = 1
           /\ X.stage = "SETUP" => X.toggle = 0
<1>1. Sound(State) /\ State.ep = ep /\ State.bus = bus
  BY DEF Inv, State
<1>2. bus \in Bus
  BY <1>1 DEF Sound
<1>3. E \in Eps
  BY <1>2 DEF Bus, E, Token
<1>4. /\ ~X.complete /\ X.stage \in Open /\ Token.pid = Pid(X)
      /\ X.stage = "ACK" => X.toggle = 1
      /\ X.stage = "SETUP" => X.toggle = 0
  BY <1>1 DEF Sound, TokenFits, Written, Token, X, E
<1>5. Good(E, X, D, 2 * faults)
  BY <1>3 DEF Inv, X, D
<1> QED
  BY <1>3, <1>4, <1>5 DEF Good

\* A step that ends the token, after which the endpoint is x and the device d,
\* and looks for the next, or leaves that to the next frame.
LEMMA TokenDone ==
    ASSUME Inv, Token.pid # "none", NEW x, NEW d, NEW n \in Nat, n >= faults,
           Good(E, x, d, 2 * n), E \in Ins => Whole(X, x, D),
           \/ Done(x)
           \/ ep' = [ep EXCEPT ![E] = x] /\ bus' = Cleared,
           dev' = [dev EXCEPT ![E] = d], faults' = n, used' = used
    PROVE  Inv' /\ Received
<1> DEFINE g == [ep EXCEPT ![E] = x]
<1>1. /\ Sound(State) /\ State.ep = ep /\ State.bus = bus
      /\ dev \in [Eps -> Device] /\ faults \in Nat /\ used \subseteq Eps
      /\ \A f \in Eps : Good(f, ep[f], dev[f], 2 * faults)
  BY DEF Inv, State
<1>2. /\ ep \in [Eps -> Endpoint] /\ bus \in Bus
      /\ x \in Endpoint /\ d \in Device /\ Fits(E, x)
  BY <1>1 DEF Sound, Good
<1>3. E \in Eps
  BY TokenOut
<1>4. /\ g \in [Eps -> Endpoint]
      /\ \A f \in Eps : g[f] = IF f = E THEN x ELSE ep[f]
      /\ \A f \in Eps : Fits(f, g[f])
  BY <1>1, <1>2, <1>3 DEF Sound
<1>5. Cleared \in Bus /\ Cleared.token.pid = "none"
  BY <1>2 DEF Cleared, Bus, NoToken, Eps
<1> HIDE DEF g
<1>6. Sound([ep |-> g, bus |-> Cleared])
  BY <1>4, <1>5 DEF Sound, TokenFits, Written
<1>7. Sound(State)' /\ \A f \in Eps : Kept(f, g[f], ep'[f])
  <2>1. CASE Done(x)
    BY <1>4, <1>5, <1>6, <2>1, FindAfter DEF Done, g
  <2>2. CASE ep' = g /\ bus' = Cleared
    BY <1>4, <1>6, <2>2, KeptSelf DEF State
  <2> QED
    BY <2>1, <2>2 DEF g
<1>8. /\ dev' \in [Eps -> Device]
      /\ \A f \in Eps : dev'[f] = IF f = E THEN d ELSE dev[f]
  BY <1>1, <1>2, <1>3
<1>9. 2 * n \in Nat /\ 2 * faults \in Nat /\ 2 * faults <= 2 * n
  BY <1>1
<1>10. ASSUME NEW f \in Eps PROVE Good(f, g[f], dev'[f], 2 * n)
  BY <1>1, <1>4, <1>8, <1>9, <1>10, GoodMore
<1>11. \A f \in Eps : ep'[f] \in Endpoint /\ Fits(f, ep'[f])
  BY <1>7 DEF Sound, State
<1>12. ASSUME NEW f \in Eps PROVE Good(f, ep'[f], dev'[f], 2 * n)
  BY <1>7, <1>9, <1>10, <1>11, <1>12, GoodKept
<1>13. Received
  <2>1. ASSUME NEW f \in Ins PROVE Whole(ep[f], ep'[f], dev[f])
    <3>1. /\ f \in Eps /\ ep'[f].count = g[f].count /\ ep'[f].ok = g[f].ok
          /\ ep[f] \in Endpoint /\ ep[f].count \in Int
      BY <1>2, <1>7 DEF Kept, Eps, Ins, Endpoint
    <3>2. CASE f = E
      BY <1>4, <2>1, <3>1, <3>2 DEF Whole, X, D
    <3>3. CASE f # E
      BY <1>4, <3>1, <3>3 DEF Whole
    <3> QED
      BY <3>2, <3>3
  <2> QED
    BY <2>1 DEF Received
<1> QED
  BY <1>1, <1>7, <1>8, <1>12, <1>13 DEF Inv

-----------------------------------------------------------------------------
(* What a token brings to an endpoint and to the device.                   *)

\* The next packet of a stage, and the end of the stage.
LEMMA MovedType ==
    ASSUME NEW x \in Endpoint, x.stage \in {"DATA", "ACK"}, NEW size \in Int
    PROVE  /\ Moved(x, size) \in Endpoint
           /\ Moved(x, size).toggle = 1 - x.toggle
           /\ Moved(x, size).count = x.count + size
           /\ Moved(x, size).max = x.max
           /\ Moved(x, size).errors = x.errors
           /\ Moved(x, size).failed = x.failed
           /\ Moved(x, size).kind = x.kind
           /\ Moved(x, size).complete = x.complete
           /\ IF size < MaxPacketSize \/ x.count + size >= x.max
                THEN /\ Moved(x, size).ok
                     /\ Moved(x, size).stage =
                          IF x.stage = "DATA" /\ x.kind \notin {"READ", "WRITE"}
                            THEN "ACK" ELSE "COMPLETE"
              ELSE /\ Moved(x, size).ok = x.ok
                   /\ Moved(x, size).stage = x.stage
<1> DEFINE y == [Flipped(x) EXCEPT !.count = @ + size, !.naks = 0]
           z == [y EXCEPT !.ok = TRUE]
           a == After(x.kind, x.stage)
<1>1. /\ y \in Endpoint /\ y.toggle = 1 - x.toggle
      /\ y.count = x.count + size /\ y.max = x.max /\ y.errors = x.errors
      /\ y.failed = x.failed /\ y.kind = x.kind /\ y.complete = x.complete
      /\ y.ok = x.ok /\ y.stage = x.stage
  <2>1. /\ 1 - x.toggle \in {0, 1} /\ x.count + size \in Int
    BY DEF Endpoint
  <2>2. y = [x EXCEPT !.toggle = 1 - x.toggle, !.count = x.count + size,
                      !.naks = 0]
    BY DEF Flipped, Endpoint
  <2> HIDE DEF y
  <2> QED
    BY <2>1, <2>2 DEF Endpoint
<1>2. a = IF x.stage = "DATA" /\ x.kind \notin {"READ", "WRITE"}
            THEN "ACK" ELSE "COMPLETE"
  BY DEF After
<1>3. Moved(x, size) = IF size < MaxPacketSize \/ y.count >= y.max
                         THEN NextStage(z) ELSE y
  BY DEF Moved
<1> HIDE DEF y
<1>4. /\ z \in Endpoint /\ z.toggle = y.toggle /\ z.count = y.count
      /\ z.max = y.max /\ z.errors = y.errors /\ z.failed = y.failed
      /\ z.kind = y.kind /\ z.complete = y.complete /\ z.ok
      /\ z.stage = y.stage
  BY <1>1 DEF Endpoint
<1>5. NextStage(z) = [z EXCEPT !.stage = a]
  BY <1>1, <1>4 DEF NextStage
<1> HIDE DEF z, a
<1>6. a \in Stages
  BY <1>2 DEF Stages
<1>7. /\ NextStage(z) \in Endpoint /\ NextStage(z).toggle = z.toggle
      /\ NextStage(z).count = z.count /\ NextStage(z).max = z.max
      /\ NextStage(z).errors = z.errors /\ NextStage(z).failed = z.failed
      /\ NextStage(z).kind = z.kind /\ NextStage(z).complete = z.complete
      /\ NextStage(z).ok = z.ok /\ NextStage(z).stage = a
  BY <1>4, <1>5, <1>6 DEF Endpoint
<1> QED
  BY <1>1, <1>2, <1>3, <1>4, <1>7

\* The request has been sent.
LEMMA SetupAcked ==
    ASSUME NEW x \in Endpoint, x.stage = "SETUP"
    PROVE  /\ PidAck(x) \in Endpoint
           /\ PidAck(x).toggle = 1 - x.toggle
           /\ PidAck(x).errors = x.errors /\ PidAck(x).failed = x.failed
           /\ PidAck(x).kind = x.kind /\ PidAck(x).complete = x.complete
           /\ PidAck(x).stage = IF x.kind = "NO_DATA" THEN "ACK" ELSE "DATA"
<1> DEFINE y == [x EXCEPT !.toggle = 1 - x.toggle, !.naks = 0]
           a == IF x.kind = "NO_DATA" THEN "ACK" ELSE "DATA"
<1>1. /\ y \in Endpoint /\ y.toggle = 1 - x.toggle
      /\ y.errors = x.errors /\ y.failed = x.failed
      /\ y.kind = x.kind /\ y.complete = x.complete /\ y.stage = x.stage
  <2>1. 1 - x.toggle \in {0, 1}
    BY DEF Endpoint
  <2> QED
    BY <2>1 DEF Endpoint
<1>2. y = [Flipped(x) EXCEPT !.naks = 0]
  BY DEF Flipped
<1>3. PidAck(x) = NextStage(y)
  BY <1>2 DEF PidAck
<1> HIDE DEF y
<1>4. After(y.kind, y.stage) = a
  BY <1>1 DEF After
<1>5. PidAck(x) = [y EXCEPT !.stage = a] /\ a \in Stages
  BY <1>3, <1>4 DEF NextStage, Stages
<1> HIDE DEF a
<1> QED
  BY <1>1, <1>5 DEF Endpoint, a

\* A request, or data, that the device takes: whether the host hears of it or
\* not, both sides know what comes next.
LEMMA TakenGood ==
    ASSUME Inv, Token.pid \in {"SETUP", "OUT"}, NEW d \in Taken
    PROVE  /\ Good(E, X, d, 2 * faults) /\ Good(E, PidAck(X), d, 2 * faults)
           /\ E \notin Ins
<1> DEFINE x == X
           y == PidAck(X)
           b == 2 * faults
<1>1. /\ E \in Eps /\ Good(E, x, D, b) /\ x \in Endpoint /\ D \in Device
      /\ Fits(E, x) /\ ~x.complete /\ x.stage \in Open /\ Token.pid = Pid(x)
      /\ x.stage = "SETUP" => x.toggle = 0
  BY TokenOut
<1>2. Counted(E, x, D, b) /\ b \in Nat /\ RetryAttempts \in Nat
      /\ x.errors \in Nat
  BY <1>1, TransferAssumption DEF Good, Inv, Endpoint
<1>3. CASE x.stage = "SETUP"
  <2>1. E = "ep0" /\ Token.pid = "SETUP" /\ "ep0" \notin Ins
    BY <1>1, <1>3 DEF Fits, Pid, Ins
  <2>2. PICK n \in {s \in Sizes : s <= X.max} \union {0} :
               d = [toggle |-> 1, pos |-> 0, done |-> FALSE, len |-> n]
    BY <2>1 DEF Taken
  <2>3. n \in Int
    BY <2>2, TransferAssumption
  <2>4. d \in Device /\ d.toggle = 1
    BY <2>2, <2>3 DEF Device
  <2>5. /\ y \in Endpoint /\ y.toggle = 1 /\ y.errors = x.errors
        /\ y.failed = x.failed /\ y.kind = x.kind /\ y.complete = x.complete
        /\ y.stage \in {"ACK", "DATA"}
    BY <1>1, <1>3, SetupAcked
  <2> HIDE DEF x, y, b
  <2>6. Counted(E, x, d, b) /\ Counted(E, y, d, b)
    BY <1>2, <1>3, <2>1, <2>4, <2>5 DEF Counted, Behind
  <2>7. Fits(E, y)
    BY <1>1, <2>1, <2>5 DEF Fits
  <2> QED
    BY <1>1, <2>1, <2>4, <2>5, <2>6, <2>7 DEF Good, x, y, b
<1>4. CASE x.stage # "SETUP"
  <2> DEFINE size == OutSize(x)
  <2>1. /\ Token.pid = "OUT" /\ x.stage \in {"DATA", "ACK"}
        /\ x.stage = "DATA" => x.kind \notin {"READ", "CONTROL_READ"}
    BY <1>1, <1>4 DEF Pid, Open
  <2>2. d = IF X.toggle = DeviceToggle
              THEN [D EXCEPT !.toggle = 1 - @, !.pos = @ + OutSize(X),
                             !.done = @ \/ (E = "ep0" /\ X.stage = "ACK")]
              ELSE D
    BY <2>1 DEF Taken
  <2>3. size = Least(MaxPacketSize, x.max - x.count) /\ size \in Int
        /\ x.count \in Int /\ x.max \in Int
    BY <1>1, <1>4, TransferAssumption DEF OutSize, Least, Endpoint
  <2>4. y = Moved(x, size)
    BY <1>4 DEF PidAck
  <2> HIDE DEF size, x, y, b
  <2>5. /\ y \in Endpoint /\ y.toggle = 1 - x.toggle
        /\ y.count = x.count + size /\ y.max = x.max
        /\ y.errors = x.errors /\ y.failed = x.failed
        /\ y.kind = x.kind /\ y.complete = x.complete
        /\ IF size < MaxPacketSize \/ x.count + size >= x.max
             THEN y.ok /\ y.stage = IF x.stage = "DATA" /\ x.kind \notin {"READ", "WRITE"}
                                      THEN "ACK" ELSE "COMPLETE"
           ELSE y.ok = x.ok /\ y.stage = x.stage
    BY <1>1, <2>1, <2>3, <2>4, MovedType
  <2>6. IF x.toggle = DeviceToggle
          THEN d.toggle = 1 - D.toggle /\ d.pos = D.pos + size
        ELSE d = D
    BY <1>1, <2>2 DEF Device, x, size
  <2>7. d \in Device
    <3>1. /\ 1 - D.toggle \in {0, 1} /\ D.pos + size \in Int
          /\ (D.done \/ (E = "ep0" /\ X.stage = "ACK")) \in BOOLEAN
      BY <1>1, <2>3 DEF Device
    <3> QED
      BY <1>1, <2>2, <3>1 DEF Device, x, size
  <2>8. E \notin Ins
    BY <1>1, <2>1 DEF Fits, KindsOf, Ins
  <2>9. Fits(E, y)
    BY <1>1, <2>1, <2>5 DEF Fits, KindsOf
  <2>10. Counted(E, x, d, b) /\ Counted(E, y, d, b)
    BY <1>2, <2>1, <2>5, <2>8 DEF Counted, Behind
  <2>11. ASSUME E = "bulkOut" PROVE Writes(x, d) /\ Writes(y, d)
    <3>1. /\ Writes(x, D) /\ x.stage = "DATA" /\ x.kind = "WRITE"
          /\ DeviceToggle = D.toggle
      BY <1>1, <2>1, <2>11 DEF Good, Fits, KindsOf, DeviceToggle, E
    <3>2. /\ x.toggle \in {0, 1} /\ D.toggle \in {0, 1} /\ D.pos \in Int
          /\ MaxPacketSize \in Nat \ {0}
      BY <1>1, TransferAssumption DEF Endpoint, Device
    <3>3. /\ x.count <= x.max /\ x.failed = "none" /\ ~x.ok
          /\ D.pos = IF x.toggle = D.toggle THEN x.count ELSE x.count + size
      BY <2>3, <3>1 DEF Writes
    <3>4. /\ size <= x.max - x.count
          /\ size < MaxPacketSize => size = x.max - x.count
      BY <2>3, <3>2, <3>3 DEF Least
    <3>5. d.pos = x.count + size /\ x.toggle # d.toggle /\ y.toggle = d.toggle
      BY <2>5, <2>6, <3>1, <3>2, <3>3
    <3>6. Writes(x, d)
      BY <2>3, <3>1, <3>3, <3>5 DEF Writes
    <3>7. y.count <= y.max /\ (y.ok => y.count = y.max)
      BY <2>3, <2>5, <3>2, <3>3, <3>4
    <3>8. Writes(y, d)
      BY <2>5, <3>1, <3>3, <3>5, <3>7 DEF Writes
    <3> QED
      BY <3>6, <3>8
  <2> QED
    BY <1>1, <2>5, <2>7, <2>8, <2>9, <2>10, <2>11 DEF Good, x, y, b
<1> QED
  BY <1>3, <1>4

LEMMA NoneIs == None \in Int /\ \A n \in Nat : n # None
BY DEF None

\* The device's side of a token for data.
LEMMA InDevice ==
    ASSUME Inv, HasIn
    PROVE  /\ InSize \in Int
           /\ Sent \in Device /\ Sent.toggle = D.toggle
           /\ Sent.pos = D.pos /\ Sent.len = D.len
           /\ Given \in Device /\ Given.toggle = 1 - D.toggle
           /\ IF E # "ep0" /\ LastIn
                THEN Given.pos = 0 /\ Given.len = None
              ELSE Given.pos = D.pos + InSize /\ Given.len = D.len
<1>1. D \in Device /\ E \in Eps
  BY TokenOut DEF HasIn
<1>2. InSize \in Int
  BY <1>1, TransferAssumption DEF InSize, Least, Device
<1>3. /\ Sent \in Device /\ Sent.toggle = D.toggle
      /\ Sent.pos = D.pos /\ Sent.len = D.len
  <2> DEFINE done == D.done \/ (E = "ep0" /\ X.stage = "ACK")
  <2>1. done \in BOOLEAN
    BY <1>1 DEF Device
  <2>2. Sent = [D EXCEPT !.done = done]
    BY <1>1 DEF Sent, Device
  <2> HIDE DEF done
  <2> QED
    BY <1>1, <2>1, <2>2 DEF Device
<1> DEFINE g == [Sent EXCEPT !.toggle = 1 - @, !.pos = @ + InSize]
<1>4. g \in Device /\ g.toggle = 1 - D.toggle
      /\ g.pos = D.pos + InSize /\ g.len = D.len
  <2>1. 1 - D.toggle \in {0, 1} /\ D.pos + InSize \in Int
    BY <1>1, <1>2 DEF Device
  <2>2. g = [Sent EXCEPT !.toggle = 1 - D.toggle, !.pos = D.pos + InSize]
    BY <1>3 DEF Device
  <2> HIDE DEF g
  <2> QED
    BY <1>3, <2>1, <2>2 DEF Device
<1>5. Given = IF E # "ep0" /\ LastIn THEN [g EXCEPT !.pos = 0, !.len = None]
              ELSE g
  BY DEF Given
<1> HIDE DEF g
<1> DEFINE h == [g EXCEPT !.pos = 0, !.len = None]
<1>6. h \in Device /\ h.toggle = g.toggle /\ h.pos = 0 /\ h.len = None
  <2>1. None \in Int /\ 0 \in Int
    BY NoneIs
  <2>2. g \in [toggle : {0, 1}, pos : Int, len : Int, done : BOOLEAN]
    BY <1>4 DEF Device
  <2> QED
    BY <2>1, <2>2 DEF Device
<1> HIDE DEF h
<1> QED
  BY <1>2, <1>3, <1>4, <1>5, <1>6 DEF h

\* The status stage of a control transfer is always the packet that is asked
\* for; nothing is behind when it has come.
LEMMA InAckGood ==
    ASSUME Inv, HasIn, X.stage = "ACK"
    PROVE  /\ Good(E, InResult, Given, 2 * faults)
           /\ Good(E, InResult, Sent, 2 * faults)
<1> DEFINE x == X
           y == InResult
<1>1. /\ E \in Eps /\ Good(E, x, D, 2 * faults) /\ x \in Endpoint
      /\ D \in Device /\ Fits(E, x) /\ ~x.complete /\ x.stage \in Open
      /\ x.toggle = 1
  BY TokenOut DEF HasIn
<1>2. E = "ep0" /\ E \notin Ins
  BY <1>1 DEF Fits, Ins
<1>3. y = Moved(x, 0)
  BY <1>1, <1>2 DEF InResult, DeviceToggle, PidData, InSize, E
<1> HIDE DEF x, y
<1>4. /\ y \in Endpoint /\ y.errors = x.errors /\ y.failed = x.failed
      /\ y.kind = x.kind /\ y.complete = x.complete /\ y.stage = "COMPLETE"
  <2>1. 0 < MaxPacketSize
    BY TransferAssumption
  <2>2. x.stage = "ACK"
    BY DEF x
  <2> QED
    BY <1>1, <1>3, <2>1, <2>2, MovedType
<1>5. Fits(E, y)
  BY <1>1, <1>2, <1>4 DEF Fits
<1>6. ASSUME NEW d \in Device PROVE Good(E, y, d, 2 * faults)
  <2>1. Counted(E, x, D, 2 * faults) /\ x.errors \in Nat /\ 2 * faults \in Nat
    BY <1>1 DEF Good, Inv, Endpoint
  <2>2. Counted(E, y, d, 2 * faults)
    BY <1>2, <1>4, <2>1 DEF Counted, Behind
  <2> QED
    BY <1>2, <1>4, <1>5, <1>6, <2>2 DEF Good
<1> QED
  BY <1>6, InDevice DEF y

\* Data for the host: a packet that it has already is an error that was paid
\* for, and when its acknowledgement is lost the next one is.
LEMMA InDataGood ==
    ASSUME Inv, HasIn, X.stage = "DATA"
    PROVE  /\ Good(E, InResult, Given, 2 * faults)
           /\ Good(E, InResult, Sent, 2 * (faults + 1))
           /\ E \in Ins => Whole(X, InResult, D)
<1> DEFINE x == X
           y == InResult
           b == 2 * faults
           c == 2 * (faults + 1)
           size == InSize
           same == x.toggle = D.toggle
<1>1. /\ E \in Eps /\ Good(E, x, D, b) /\ x \in Endpoint
      /\ D \in Device /\ Fits(E, x) /\ ~x.complete /\ x.stage = "DATA"
      /\ Token.pid = Pid(x) /\ Token.pid = "IN"
  BY TokenOut DEF HasIn
<1>2. /\ E \in Ins \/ E = "ep0"
      /\ E = "ep0" => x.kind = "CONTROL_READ"
      /\ E \in Ins => x.kind = "READ" /\ E # "ep0" /\ D.len # None
  BY <1>1 DEF Fits, KindsOf, Pid, Kinds, Ins, Eps, HasIn
<1>3. size \in Int
  BY InDevice
<1>4. y = IF same THEN Moved(x, size) ELSE Error(x)
  BY <1>1 DEF InResult, DeviceToggle, PidData
<1>5. /\ x.errors \in Nat /\ b \in Nat /\ RetryAttempts \in Nat \ {0}
      /\ MaxPacketSize \in Nat \ {0} /\ x.count \in Int
      /\ x.toggle \in {0, 1} /\ D.toggle \in {0, 1}
      /\ D.pos \in Int /\ D.len \in Int /\ c = b + 2 /\ c \in Nat
  BY <1>1, TransferAssumption DEF Inv, Endpoint, Device
<1>6. size = Least(MaxPacketSize, D.len - D.pos)
  BY <1>1 DEF InSize
<1> HIDE DEF size, x, y, b, c
<1>7. /\ y \in Endpoint /\ y.kind = x.kind /\ y.complete = x.complete
      /\ IF same
           THEN /\ y.toggle = 1 - x.toggle
                /\ y.count = x.count + size /\ y.max = x.max
                /\ y.errors = x.errors /\ y.failed = x.failed
                /\ IF size < MaxPacketSize \/ x.count + size >= x.max
                     THEN y.ok /\ y.stage = IF x.kind \notin {"READ", "WRITE"}
                                              THEN "ACK" ELSE "COMPLETE"
                   ELSE y.ok = x.ok /\ y.stage = "DATA"
         ELSE /\ y.toggle = x.toggle /\ y.count = x.count /\ y.max = x.max
              /\ y.errors = x.errors + 1 /\ y.ok = x.ok
              /\ IF x.errors + 1 >= RetryAttempts
                   THEN y.stage = "ERROR" /\ y.failed = "error"
                 ELSE y.stage = "DATA" /\ y.failed = x.failed
  <2>1. CASE same
    BY <1>1, <1>3, <1>4, <2>1, MovedType
  <2>2. CASE ~same
    BY <1>1, <1>4, <2>2, ErrorType
  <2> QED
    BY <2>1, <2>2
<1>8. Fits(E, y)
  BY <1>1, <1>2, <1>7 DEF Fits
<1>9. /\ Sent \in Device /\ Sent.toggle = D.toggle
      /\ Sent.pos = D.pos /\ Sent.len = D.len
      /\ Given \in Device /\ Given.toggle = 1 - D.toggle
      /\ IF E # "ep0" /\ size < MaxPacketSize
           THEN Given.pos = 0 /\ Given.len = None
         ELSE Given.pos = D.pos + size /\ Given.len = D.len
  BY InDevice DEF LastIn, size
<1>10. Counted(E, y, Given, b) /\ Counted(E, y, Sent, c)
  <2>1. Counted(E, x, D, b)
    BY <1>1 DEF Good
  <2>2. y.toggle = Given.toggle
    BY <1>5, <1>7, <1>9
  <2>3. ~same => Behind(E, x, D)
    BY <1>1, <1>2 DEF Behind
  <2>4. CASE same
    BY <1>5, <1>7, <2>1, <2>2, <2>4 DEF Counted, Behind
  <2>5. CASE ~same
    BY <1>5, <1>7, <2>1, <2>2, <2>3, <2>5 DEF Counted, Behind
  <2> QED
    BY <2>4, <2>5
<1>11. ASSUME E \in Ins
       PROVE  Reads(y, Given) /\ Reads(y, Sent) /\ Whole(x, y, D)
  <2>1. /\ Reads(x, D) /\ x.failed = "none" /\ ~x.ok /\ x.max = ReadSize
        /\ D.len \in Sizes /\ D.pos \in 0 .. D.len /\ x.count >= 0
    BY <1>1, <1>2, <1>11 DEF Good, Reads
  <2>2. /\ ReadSize \in Nat /\ D.len < ReadSize /\ D.len \in Nat
        /\ D.len # None
    BY <2>1, TransferAssumption, NoneIs
  <2>3. /\ size <= D.len - D.pos /\ size >= 0
        /\ IF D.len - D.pos < MaxPacketSize
             THEN size < MaxPacketSize ELSE size = MaxPacketSize
    BY <1>5, <1>6, <2>1, <2>2 DEF Least
  <2>4. CASE same
    <3>1. D.pos = x.count
      BY <1>1, <2>1, <2>4 DEF Reads
    <3>2. x.count + size < x.max
      BY <1>3, <1>5, <2>1, <2>2, <2>3, <3>1
    <3>3. /\ y.count = D.pos + size /\ y.max = ReadSize /\ y.failed = "none"
          /\ y.toggle # D.toggle /\ y.toggle = Given.toggle
          /\ IF size < MaxPacketSize THEN y.stage = "COMPLETE"
             ELSE y.stage = "DATA" /\ ~y.ok
      <4>1. x.kind = "READ" /\ y.count = x.count + size /\ y.max = x.max
            /\ y.failed = "none" /\ y.toggle = 1 - x.toggle
        BY <1>2, <1>7, <1>11, <2>1, <2>4
      <4>2. IF size < MaxPacketSize THEN y.stage = "COMPLETE"
            ELSE y.stage = "DATA" /\ ~y.ok
        BY <1>1, <1>3, <1>5, <1>7, <2>1, <2>2, <2>4, <3>2, <4>1
      <4> QED
        BY <1>5, <1>9, <2>1, <2>4, <3>1, <4>1, <4>2
    <3>6. y.count >= 0
      BY <1>3, <2>1, <2>2, <2>3, <3>3
    <3>4. Reads(y, Sent)
      BY <1>5, <1>9, <2>1, <2>2, <2>3, <3>3, <3>6 DEF Reads
    <3>5. Reads(y, Given)
      <4>1. CASE size < MaxPacketSize
        BY <1>2, <1>9, <1>11, <3>3, <3>6, <4>1 DEF Reads
      <4>2. CASE ~(size < MaxPacketSize)
        <5>1. Given.pos = D.pos + size /\ Given.len = D.len
          BY <1>9, <4>2
        <5>2. D.pos + size \in 0 .. D.len
          BY <1>3, <2>1, <2>2, <2>3
        <5> QED
          BY <2>1, <2>2, <3>3, <3>6, <4>2, <5>1, <5>2 DEF Reads
      <4> QED
        BY <4>1, <4>2
    <3>7. Whole(x, y, D)
      BY <1>3, <1>5, <1>6, <2>1, <2>2, <2>3, <3>1, <3>3 DEF Whole, Least
    <3> QED
      BY <3>4, <3>5, <3>7
  <2>5. CASE ~same
    <3>1. /\ y.toggle = x.toggle /\ y.count = x.count /\ y.count >= 0
          /\ y.max = ReadSize /\ ~y.ok
          /\ \/ y.stage = "ERROR" /\ y.failed = "error"
             \/ y.stage = "DATA" /\ y.failed = "none"
      BY <1>7, <2>1, <2>5
    <3>2. IF D.len - D.pos < MaxPacketSize THEN x.count = 0
          ELSE x.count = D.pos + MaxPacketSize
      BY <1>1, <2>1, <2>5 DEF Reads
    <3>3. Reads(y, Sent)
      BY <1>9, <2>1, <2>2, <2>5, <3>1, <3>2 DEF Reads
    <3>4. y.toggle = Given.toggle
      BY <1>5, <1>9, <2>5, <3>1
    <3>5. Reads(y, Given)
      <4>1. CASE D.len - D.pos < MaxPacketSize
        BY <1>2, <1>9, <1>11, <2>3, <3>1, <3>2, <3>4, <4>1 DEF Reads
      <4>2. CASE ~(D.len - D.pos < MaxPacketSize)
        <5>1. size = MaxPacketSize
          BY <2>3, <4>2
        <5>2. Given.pos = D.pos + size /\ Given.len = D.len
          BY <1>5, <1>9, <5>1
        <5>3. D.pos + size \in 0 .. D.len
          BY <1>3, <2>1, <2>2, <2>3
        <5> QED
          BY <2>1, <2>2, <3>1, <3>2, <3>4, <4>2, <5>1, <5>2, <5>3 DEF Reads
      <4> QED
        BY <4>1, <4>2
    <3>6. Whole(x, y, D)
      BY <1>5, <3>1 DEF Whole
    <3> QED
      BY <3>3, <3>5, <3>6
  <2> QED
    BY <2>4, <2>5
<1>12. E # "bulkOut"
  BY <1>2 DEF Ins
<1>13. /\ Good(E, y, Given, b) /\ Good(E, y, Sent, c)
       /\ E \in Ins => Whole(x, y, D)
  BY <1>7, <1>8, <1>9, <1>10, <1>11, <1>12 DEF Good
<1> QED
  BY <1>13 DEF x, y, b, c

\* The device is not ready: what is not asked again is a read of events, which
\* has brought nothing then.
LEMMA NakType ==
    ASSUME NEW x \in Endpoint, NEW e \in Eps, Fits(e, x), ~x.complete,
           x.stage \in Open
    PROVE  LET y == PidNak(x, Type[e]) IN
           /\ y \in Endpoint /\ y.kind = x.kind /\ y.complete = x.complete
           /\ y.errors = x.errors /\ y.toggle = x.toggle
           /\ y.count = x.count /\ y.max = x.max
           /\ e = "bulkOut" \/ e = "bulkIn" =>
                y.stage = x.stage /\ y.failed = x.failed /\ y.ok = x.ok
           /\ e = "intIn" => y.stage = "COMPLETE" /\ y.failed = x.failed /\ y.ok
           /\ e = "ep0" => \/ y.stage = "ERROR" /\ y.failed = "nak"
                           \/ y.stage = x.stage /\ y.failed = x.failed
<1> DEFINE y == PidNak(x, Type[e])
<1>1. CASE e \in {"bulkOut", "bulkIn"}
  <2>1. y = [x EXCEPT !.nakd = TRUE]
    BY <1>1 DEF PidNak, Type
  <2> QED
    BY <1>1, <2>1 DEF Endpoint
<1>2. CASE e = "intIn"
  <2> DEFINE z == [x EXCEPT !.ok = TRUE]
  <2>1. y = NextStage(z)
    BY <1>2 DEF PidNak, Type
  <2>2. /\ z \in Endpoint /\ z.kind = x.kind /\ z.complete = x.complete
        /\ z.errors = x.errors /\ z.toggle = x.toggle
        /\ z.count = x.count /\ z.max = x.max
        /\ z.stage = x.stage /\ z.failed = x.failed /\ z.ok
    BY DEF Endpoint
  <2>3. x.stage = "DATA" /\ x.kind = "READ"
    BY <1>2 DEF Fits, Open, KindsOf
  <2> HIDE DEF z
  <2>4. y = [z EXCEPT !.stage = "COMPLETE"]
    BY <2>1, <2>2, <2>3 DEF NextStage, After
  <2> QED
    BY <1>2, <2>2, <2>4 DEF Endpoint, Stages
<1>3. CASE e = "ep0"
  <2>1. y = IF x.naks >= ControlNaks THEN Fails(x, "nak")
            ELSE [x EXCEPT !.naks = @ + 1]
    BY <1>3 DEF PidNak, Type
  <2>2. CASE x.naks >= ControlNaks
    <3>1. y = [x EXCEPT !.failed = "nak", !.stage = "ERROR"]
      BY <2>1, <2>2 DEF Fails
    <3> QED
      BY <1>3, <3>1 DEF Endpoint, Stages
  <2>3. CASE ~(x.naks >= ControlNaks)
    <3>1. y = [x EXCEPT !.naks = x.naks + 1] /\ x.naks + 1 \in Nat
      BY <2>1, <2>3 DEF Endpoint
    <3> QED
      BY <1>3, <3>1 DEF Endpoint
  <2> QED
    BY <2>2, <2>3
<1> QED
  BY <1>1, <1>2, <1>3 DEF Eps

LEMMA NakGood ==
    ASSUME Inv, Nak
    PROVE  /\ Good(E, PidNak(X, Type[E]), D, 2 * faults)
           /\ E \in Ins => Whole(X, PidNak(X, Type[E]), D)
<1> DEFINE x == X
           y == PidNak(X, Type[E])
           b == 2 * faults
<1>1. /\ E \in Eps /\ Good(E, x, D, b) /\ x \in Endpoint
      /\ D \in Device /\ Fits(E, x) /\ ~x.complete /\ x.stage \in Open
  BY TokenOut DEF Nak
<1>2. /\ y \in Endpoint /\ y.kind = x.kind /\ y.complete = x.complete
      /\ y.errors = x.errors /\ y.toggle = x.toggle
      /\ y.count = x.count /\ y.max = x.max
      /\ E = "bulkOut" \/ E = "bulkIn" =>
           y.stage = x.stage /\ y.failed = x.failed /\ y.ok = x.ok
      /\ E = "intIn" => y.stage = "COMPLETE" /\ y.failed = x.failed /\ y.ok
      /\ E = "ep0" => \/ y.stage = "ERROR" /\ y.failed = "nak"
                      \/ y.stage = x.stage /\ y.failed = x.failed
  BY <1>1, NakType
<1>3. /\ Counted(E, x, D, b) /\ b \in Nat /\ RetryAttempts \in Nat
      /\ x.errors \in Nat /\ (E \in Ins => D.len = None)
  BY <1>1, TransferAssumption DEF Good, Inv, Endpoint, Nak
<1> HIDE DEF x, y, b
<1>4. Fits(E, y)
  BY <1>1, <1>2 DEF Fits, Eps
<1>5. Counted(E, y, D, b)
  BY <1>1, <1>2, <1>3 DEF Counted, Behind, Ins, Eps
<1>6. ASSUME E = "bulkOut" PROVE Writes(y, D)
  <2>1. Writes(x, D)
    BY <1>1, <1>6 DEF Good
  <2> QED
    BY <1>2, <1>6, <2>1 DEF Writes
<1>7. ASSUME E \in Ins PROVE Reads(y, D) /\ Whole(x, y, D)
  <2>1. Reads(x, D) /\ D.len = None /\ x.stage = "DATA"
    BY <1>1, <1>3, <1>7 DEF Good, Fits, Open, Ins
  <2>2. E = "bulkIn" \/ E = "intIn"
    BY <1>7 DEF Ins
  <2>3. x.count \in Int
    BY <1>1 DEF Endpoint
  <2>4. Reads(y, D)
    BY <1>2, <2>1, <2>2 DEF Reads
  <2>5. Whole(x, y, D)
    BY <1>2, <2>1, <2>2, <2>3, <2>4 DEF Whole, Reads
  <2> QED
    BY <2>4, <2>5
<1> QED
  BY <1>1, <1>2, <1>4, <1>5, <1>6, <1>7 DEF Good, x, y, b

LEMMA StallGood ==
    ASSUME Inv, Stall
    PROVE  Good(E, PidStall(X), D, 2 * faults)
<1> DEFINE x == X
           y == PidStall(X)
           b == 2 * faults
<1>1. /\ E = "ep0" /\ Good(E, x, D, b) /\ x \in Endpoint
      /\ D \in Device /\ Fits(E, x) /\ ~x.complete
  BY TokenOut DEF Stall
<1>2. y = [x EXCEPT !.failed = "stall", !.stage = "ERROR"]
  BY DEF PidStall, Fails
<1> HIDE DEF x, y, b
<1>3. /\ y \in Endpoint /\ y.kind = x.kind /\ y.complete = x.complete
      /\ y.errors = x.errors /\ y.stage = "ERROR" /\ y.failed = "stall"
  BY <1>1, <1>2 DEF Endpoint, Stages
<1>4. Fits(E, y) /\ E \in Eps /\ E # "bulkOut" /\ E \notin Ins
  BY <1>1, <1>3 DEF Fits, KindsOf, Ins, Eps
<1>5. Counted(E, y, D, b)
  <2>1. Counted(E, x, D, b) /\ x.errors \in Nat /\ b \in Nat
    BY <1>1 DEF Good, Endpoint, Inv, b
  <2> QED
    BY <1>3, <1>4, <2>1 DEF Counted, Behind
<1> QED
  BY <1>1, <1>3, <1>4, <1>5 DEF Good, y, b

\* An error of the bus counts once or twice; either way it has been paid for.
LEMMA BusErrorDone ==
    ASSUME Inv, Token.pid # "none", NEW d, Good(E, X, d, 2 * faults),
           Fault, BusError, dev' = [dev EXCEPT ![E] = d], used' = used
    PROVE  Inv' /\ Received
<1> DEFINE b == 2 * faults
           n == faults + 1
<1>1. /\ E \in Eps /\ ~X.complete /\ X.stage \in Open \union {"ERROR"}
      /\ faults' = n
  BY TokenOut DEF Fault
<1>2. /\ b \in Nat /\ b + 1 \in Nat /\ b + 2 \in Nat /\ n \in Nat
      /\ n >= faults /\ b + 1 <= b + 2 /\ 2 * n = b + 2 /\ (b + 1) + 1 = b + 2
  BY DEF Inv
<1>3. Good(E, X, d, b)
  OBVIOUS
<1> HIDE DEF b, n
<1>4. /\ Good(E, Error(X), d, b + 1)
      /\ ~Error(X).complete /\ Error(X).stage \in Open \union {"ERROR"}
  BY <1>1, <1>2, <1>3, GoodError
<1>5. Good(E, Error(Error(X)), d, 2 * n)
  <2>1. Good(E, Error(Error(X)), d, (b + 1) + 1)
    BY <1>1, <1>2, <1>4, GoodError
  <2> QED
    BY <1>2, <2>1
<1>6. Good(E, Error(X), d, 2 * n)
  <2>1. Good(E, Error(X), d, b + 2)
    BY <1>1, <1>2, <1>4, GoodMore
  <2> QED
    BY <1>2, <2>1
<1>9. Whole(X, Error(X), D) /\ Whole(X, Error(Error(X)), D)
  <2>1. X \in Endpoint /\ Error(X) \in Endpoint
    BY <1>3, ErrorType DEF Good
  <2>2. /\ X.count \in Int /\ Error(X).count = X.count /\ Error(X).ok = X.ok
        /\ Error(Error(X)).count = X.count /\ Error(Error(X)).ok = X.ok
    BY <2>1, ErrorType DEF Endpoint
  <2> QED
    BY <2>2 DEF Whole
<1>7. CASE Done(Error(Error(X)))
  BY <1>1, <1>2, <1>5, <1>7, <1>9, TokenDone
<1>8. CASE ep' = [ep EXCEPT ![E] = Error(X)] /\ bus' = Cleared
  BY <1>1, <1>2, <1>6, <1>8, <1>9, TokenDone
<1> QED
  BY <1>7, <1>8 DEF BusError

-----------------------------------------------------------------------------
(* Every step.                                                             *)

LEMMA TokenEndsInv == ASSUME Inv, TokenEnds PROVE Inv' /\ Received
<1>1. /\ dev \in [Eps -> Device] /\ faults \in Nat
      /\ 2 * faults \in Nat /\ faults >= faults
      /\ faults + 1 \in Nat /\ faults + 1 >= faults
      /\ 2 * (faults + 1) \in Nat /\ 2 * faults <= 2 * (faults + 1)
  BY DEF Inv
<1>2. /\ D = dev[E] /\ dev = [dev EXCEPT ![E] = D]
      /\ Token.pid # "none" => E \in Eps /\ Good(E, X, D, 2 * faults)
  BY <1>1, TokenOut DEF D
<1>3. CASE Lost
  <2>1. /\ Token.pid # "none" /\ Fault /\ BusError
        /\ dev' = [dev EXCEPT ![E] = D] /\ used' = used
    BY <1>2, <1>3 DEF Lost
  <2> QED
    BY <1>2, <2>1, BusErrorDone
<1>4. CASE OutAckLost
  <2>1. PICK d \in Taken : dev' = [dev EXCEPT ![E] = d]
    BY <1>4 DEF OutAckLost
  <2>2. /\ Token.pid \in {"SETUP", "OUT"} /\ Token.pid # "none"
        /\ Fault /\ BusError /\ used' = used
    BY <1>4 DEF OutAckLost
  <2>3. Good(E, X, d, 2 * faults)
    BY <2>1, <2>2, TakenGood
  <2> QED
    BY <2>1, <2>2, <2>3, BusErrorDone
<1>5. CASE InGiven
  <2>1. /\ HasIn /\ Token.pid # "none" /\ Done(InResult)
        /\ dev' = [dev EXCEPT ![E] = Given]
        /\ used' = used /\ faults' = faults
    BY <1>5 DEF InGiven, HasIn
  <2>2. /\ Good(E, InResult, Given, 2 * faults)
        /\ E \in Ins => Whole(X, InResult, D)
    BY <2>1, TokenOut, InAckGood, InDataGood DEF HasIn, Open, Pid, Fits, Ins
  <2> QED
    BY <1>1, <2>1, <2>2, TokenDone
<1>6. CASE InAckLost
  <2>1. /\ HasIn /\ Token.pid # "none" /\ Done(InResult)
        /\ dev' = [dev EXCEPT ![E] = Sent]
        /\ used' = used /\ faults' = faults + 1
    BY <1>6 DEF InAckLost, HasIn, Fault
  <2>2. /\ X.stage \in {"DATA", "ACK"} /\ E \in Eps
        /\ X.stage = "ACK" => E \notin Ins
    BY <2>1, TokenOut DEF HasIn, Open, Pid, Fits, Ins
  <2>3. /\ Good(E, InResult, Sent, 2 * (faults + 1))
        /\ E \in Ins => Whole(X, InResult, D)
    BY <1>1, <2>1, <2>2, InAckGood, InDataGood, GoodMore
  <2> QED
    BY <1>1, <2>1, <2>3, TokenDone
<1>7. CASE Nak
  <2>1. /\ Token.pid # "none" /\ Done(PidNak(X, Type[E]))
        /\ dev' = [dev EXCEPT ![E] = D]
        /\ used' = used /\ faults' = faults
    BY <1>2, <1>7 DEF Nak
  <2>2. /\ Good(E, PidNak(X, Type[E]), D, 2 * faults)
        /\ E \in Ins => Whole(X, PidNak(X, Type[E]), D)
    BY <1>7, NakGood
  <2> QED
    BY <1>1, <2>1, <2>2, TokenDone
<1>8. CASE Stall
  <2>1. /\ Token.pid # "none" /\ Done(PidStall(X))
        /\ dev' = [dev EXCEPT ![E] = D]
        /\ used' = used /\ faults' = faults
    BY <1>2, <1>8 DEF Stall
  <2>2. Good(E, PidStall(X), D, 2 * faults) /\ E \notin Ins
    BY <1>8, StallGood DEF Stall, Ins
  <2> QED
    BY <1>1, <2>1, <2>2, TokenDone
<1>9. CASE \E e \in Eps : OutTaken(e)
  <2>1. PICK d \in Taken : dev' = [dev EXCEPT ![E] = d]
    BY <1>9 DEF OutTaken
  <2>2. /\ Token.pid \in {"SETUP", "OUT"} /\ Token.pid # "none"
        /\ Done(PidAck(X)) /\ used' = used /\ faults' = faults
    BY <1>9 DEF OutTaken
  <2>3. Good(E, PidAck(X), d, 2 * faults) /\ E \notin Ins
    BY <2>1, <2>2, TakenGood
  <2> QED
    BY <1>1, <2>1, <2>2, <2>3, TokenDone
<1> QED
  BY <1>3, <1>4, <1>5, <1>6, <1>7, <1>8, <1>9 DEF TokenEnds

\* An endpoint that has no transfer, and so no token, or its side of the
\* device, changes by itself.
LEMMA AloneInv ==
    ASSUME Inv, NEW e \in Eps, NEW y, NEW d, Good(e, y, d, 2 * faults),
           ep[e].complete \/ y = ep[e],
           ep' = [ep EXCEPT ![e] = y], dev' = [dev EXCEPT ![e] = d],
           UNCHANGED_bus, e \in Ins => Whole(ep[e], y, dev[e])
    PROVE  Inv' /\ Received
<1>1. /\ Sound(State) /\ State.ep = ep /\ State.bus = bus
      /\ dev \in [Eps -> Device] /\ faults \in Nat /\ used \subseteq Eps
      /\ \A f \in Eps : Good(f, ep[f], dev[f], 2 * faults)
      /\ ep \in [Eps -> Endpoint] /\ bus \in Bus
  BY DEF Inv, State, Sound
<1>2. y \in Endpoint /\ Fits(e, y) /\ d \in Device
  BY DEF Good
<1>3. bus' = bus /\ used' = used /\ faults' = faults
  BY DEF UNCHANGED_bus
<1>4. /\ ep' \in [Eps -> Endpoint]
      /\ \A f \in Eps : ep'[f] = IF f = e THEN y ELSE ep[f]
  BY <1>1, <1>2
<1>5. /\ dev' \in [Eps -> Device]
      /\ \A f \in Eps : dev'[f] = IF f = e THEN d ELSE dev[f]
  BY <1>1, <1>2
<1>6. State'.ep = ep' /\ State'.bus = bus
      /\ State' \in [ep : [Eps -> Endpoint], bus : Bus]
  BY <1>1, <1>3, <1>4 DEF State
<1>7. TokenFits(State)'
  <2>1. bus.token.ep \in Eps
    BY <1>1 DEF Bus
  <2>2. Written(State) => ep'[bus.token.ep] = ep[bus.token.ep]
    BY <1>1, <1>4, <2>1 DEF Sound, TokenFits
  <2> QED
    BY <1>1, <1>6, <2>2 DEF Sound, TokenFits, Written
<1>8. \A f \in Eps : Fits(f, ep'[f])
  BY <1>1, <1>2, <1>4 DEF Sound
<1>9. Sound(State)'
  BY <1>6, <1>7, <1>8 DEF Sound
<1>10. \A f \in Eps : Good(f, ep'[f], dev'[f], 2 * faults)
  BY <1>1, <1>4, <1>5
<1>11. \A f \in Eps : f \in Ins => Whole(ep[f], ep'[f], dev[f])
  <2>1. \A f \in Eps : ep[f].count \in Int
    BY <1>1 DEF Endpoint
  <2> QED
    BY <1>4, <2>1 DEF Whole
<1> QED
  BY <1>1, <1>3, <1>5, <1>9, <1>10, <1>11 DEF Inv, Received, Eps, Ins

LEMMA Init1Type ==
    ASSUME NEW x \in Endpoint, NEW kind \in Kinds \union {"READ", "WRITE"},
           NEW size \in Int
    PROVE  LET y == Init1(x, kind, size) IN
           /\ y \in Endpoint /\ y.kind = kind /\ y.count = 0 /\ y.max = size
           /\ y.errors = 0 /\ ~y.ok /\ ~y.complete
           /\ y.failed = x.failed /\ y.toggle = x.toggle
<1> DEFINE y == Init1(x, kind, size)
           v == [x EXCEPT !.kind = kind, !.count = 0, !.max = size, !.errors = 0]
<1>1. /\ v \in Endpoint /\ v.kind = kind /\ v.count = 0 /\ v.max = size
      /\ v.errors = 0 /\ v.failed = x.failed /\ v.toggle = x.toggle
  <2>1. kind \in (Kinds \union {"READ", "WRITE"}) /\ 0 \in Nat /\ 0 \in Int
    OBVIOUS
  <2> DEFINE w == [x EXCEPT !.kind = kind, !.count = 0]
  <2>2. /\ w \in Endpoint /\ w.kind = kind /\ w.count = 0
        /\ w.failed = x.failed /\ w.toggle = x.toggle
    BY <2>1 DEF Endpoint
  <2>3. v = [w EXCEPT !.max = size, !.errors = 0]
    BY DEF Endpoint
  <2> HIDE DEF w
  <2> QED
    BY <2>1, <2>2, <2>3 DEF Endpoint
<1>2. y = [v EXCEPT !.naks = 0, !.nakd = FALSE, !.ok = FALSE, !.complete = FALSE]
  BY DEF Init1, Endpoint
<1> HIDE DEF v, y
<1> QED
  BY <1>1, <1>2 DEF Endpoint, y

\* An endpoint x with a new transfer y of data.
Begun(x, y, kind, size) ==
    /\ y \in Endpoint /\ y.kind = kind /\ y.count = 0 /\ y.max = size
    /\ y.errors = 0 /\ ~y.ok /\ ~y.complete
    /\ y.failed = x.failed /\ y.toggle = x.toggle /\ y.stage = "DATA"

LEMMA InitDataType ==
    ASSUME NEW x \in Endpoint, NEW kind \in {"READ", "WRITE"}, NEW size \in Int
    PROVE  Begun(x, InitData(x, kind, size), kind, size)
<1> DEFINE z == Init1(x, kind, size)
<1>1. /\ z \in Endpoint /\ z.kind = kind /\ z.count = 0 /\ z.max = size
      /\ z.errors = 0 /\ ~z.ok /\ ~z.complete
      /\ z.failed = x.failed /\ z.toggle = x.toggle
  <2>1. kind \in Kinds \union {"READ", "WRITE"}
    OBVIOUS
  <2> QED
    BY <2>1, Init1Type
<1>2. InitData(x, kind, size) = [z EXCEPT !.stage = "DATA"]
  BY DEF InitData
<1> HIDE DEF z
<1> QED
  BY <1>1, <1>2 DEF Endpoint, Stages, Begun

LEMMA InitControlType ==
    ASSUME NEW x \in Endpoint, NEW kind \in Kinds, NEW size \in Int
    PROVE  LET y == InitControl(x, kind, size) IN
           /\ y \in Endpoint /\ y.kind = kind /\ y.errors = 0 /\ ~y.complete
           /\ y.failed = "none" /\ y.stage = "SETUP"
<1> DEFINE z == Init1(x, kind, size)
<1>1. z \in Endpoint /\ z.kind = kind /\ z.errors = 0 /\ ~z.complete
  BY Init1Type
<1>2. InitControl(x, kind, size) = [z EXCEPT !.stage = "SETUP", !.failed = "none"]
  BY DEF InitControl
<1> HIDE DEF z
<1> QED
  BY <1>1, <1>2 DEF Endpoint, Stages

LEMMA ClientsInv == ASSUME Inv, Clients PROVE Inv' /\ Received
<1> DEFINE b == 2 * faults
<1>1. /\ ep \in [Eps -> Endpoint] /\ dev \in [Eps -> Device] /\ b \in Nat
      /\ \A e \in Eps : Good(e, ep[e], dev[e], b)
      /\ RetryAttempts \in Nat /\ Sizes \subseteq Nat
      /\ ReadSize \in Nat
  BY TransferAssumption DEF Inv, Sound, State
<1>2. CASE StartControl
  <2>1. PICK kind \in Kinds, size \in Sizes :
               /\ ep' = [ep EXCEPT !["ep0"] =
                           InitControl(@, kind, IF kind = "NO_DATA" THEN 0 ELSE size)]
               /\ dev' = [dev EXCEPT !.ep0.pos = 0, !.ep0.done = FALSE]
    BY <1>2 DEF StartControl
  <2> DEFINE x == ep["ep0"]
             n == IF kind = "NO_DATA" THEN 0 ELSE size
             y == InitControl(x, kind, n)
             d == [dev["ep0"] EXCEPT !.pos = 0, !.done = FALSE]
  <2>2. "ep0" \in Eps /\ "ep0" \notin Ins
    BY DEF Eps, Ins
  <2>3. ep' = [ep EXCEPT !["ep0"] = y]
    BY <1>1, <2>1
  <2>4. dev' = [dev EXCEPT !["ep0"] = d]
    BY <1>1, <2>1, <2>2
  <2>5. n \in Int
    BY <1>1, <2>1
  <2>6. x \in Endpoint /\ x.complete
    BY <1>1, <1>2, <2>2 DEF StartControl
  <2>7. d \in Device
    <3>1. dev["ep0"] \in Device /\ 0 \in Int
      BY <1>1, <2>2
    <3> HIDE DEF b
    <3> QED
      BY <3>1 DEF Device
  <2> HIDE DEF n, d
  <2>8. /\ y \in Endpoint /\ y.kind = kind /\ y.errors = 0 /\ ~y.complete
        /\ y.failed = "none" /\ y.stage = "SETUP"
    BY <2>5, <2>6, InitControlType
  <2> HIDE DEF y, b
  <2>9. Good("ep0", y, d, b)
    BY <1>1, <2>2, <2>7, <2>8 DEF Good, Fits, KindsOf, Counted, Behind
  <2> QED
    BY <1>2, <2>2, <2>3, <2>4, <2>6, <2>9, AloneInv DEF StartControl, b
<1>3. CASE StartRead
  <2>1. PICK e \in Ins : /\ MayStart(e)
                         /\ ep' = [ep EXCEPT ![e] = InitData(@, "READ", ReadSize)]
    BY <1>3 DEF StartRead
  <2> DEFINE x == ep[e]
             d == dev[e]
             y == InitData(x, "READ", ReadSize)
  <2>2. e \in Eps /\ e # "ep0" /\ e # "bulkOut"
    BY DEF Eps, Ins
  <2>3. /\ ep' = [ep EXCEPT ![e] = y] /\ dev' = [dev EXCEPT ![e] = d]
        /\ UNCHANGED_bus
    BY <1>1, <1>3, <2>1, <2>2 DEF StartRead
  <2>4. /\ x \in Endpoint /\ x.complete /\ x.failed = "none"
        /\ Good(e, x, d, b) /\ d \in Device
    BY <1>1, <2>1, <2>2 DEF MayStart
  <2>5. /\ y \in Endpoint /\ y.kind = "READ" /\ y.count = 0 /\ y.max = ReadSize
        /\ y.errors = 0 /\ ~y.ok /\ ~y.complete
        /\ y.failed = x.failed /\ y.toggle = x.toggle /\ y.stage = "DATA"
    <3>1. ReadSize \in Int /\ "READ" \in {"READ", "WRITE"}
      BY <1>1
    <3>2. Begun(x, y, "READ", ReadSize)
      BY <2>4, <3>1, InitDataType
    <3> HIDE DEF x, y
    <3> QED
      BY <3>1, <3>2 DEF Begun
  <2> HIDE DEF x, y, b, d
  <2>6. Fits(e, y) /\ x.stage = "IDLE" /\ x.errors \in Nat
    BY <2>2, <2>4, <2>5 DEF Fits, KindsOf, Good, Endpoint
  <2>7. Counted(e, y, d, b)
    <3>1. Counted(e, x, d, b)
      BY <2>4 DEF Good
    <3> QED
      BY <1>1, <2>1, <2>4, <2>5, <2>6, <3>1 DEF Counted, Behind
  <2>8. Reads(y, d)
    <3>1. Reads(x, d)
      BY <2>1, <2>4 DEF Good
    <3> QED
      BY <2>4, <2>5, <2>6, <3>1 DEF Reads
  <2>9. Good(e, y, d, b)
    BY <2>1, <2>2, <2>4, <2>5, <2>6, <2>7, <2>8 DEF Good
  <2>10. Whole(x, y, d)
    <3>1. x.count \in Int /\ x.count >= 0
      BY <2>1, <2>4 DEF Good, Reads, Endpoint
    <3> QED
      BY <2>5, <3>1 DEF Whole
  <2> QED
    BY <2>2, <2>3, <2>4, <2>9, <2>10, AloneInv DEF b, x, d
<1>4. CASE StartWrite
  <2>1. PICK size \in Sizes :
               ep' = [ep EXCEPT !["bulkOut"] = InitData(@, "WRITE", size)]
    BY <1>4 DEF StartWrite
  <2> DEFINE x == ep["bulkOut"]
             d == [dev["bulkOut"] EXCEPT !.pos = 0]
             y == InitData(x, "WRITE", size)
  <2>2. "bulkOut" \in Eps /\ "bulkOut" \notin Ins
    BY DEF Eps, Ins
  <2>3. /\ ep' = [ep EXCEPT !["bulkOut"] = y] /\ dev' = [dev EXCEPT !["bulkOut"] = d]
        /\ UNCHANGED_bus
    BY <1>1, <1>4, <2>1, <2>2 DEF StartWrite
  <2>4. /\ x \in Endpoint /\ x.complete /\ x.failed = "none"
        /\ Good("bulkOut", x, dev["bulkOut"], b) /\ dev["bulkOut"] \in Device
    BY <1>1, <1>4, <2>2 DEF StartWrite, MayStart
  <2>5. d \in Device /\ d.pos = 0 /\ d.toggle = dev["bulkOut"].toggle
    BY <2>4 DEF Device
  <2>6. /\ y \in Endpoint /\ y.kind = "WRITE" /\ y.count = 0 /\ y.max = size
        /\ y.errors = 0 /\ ~y.ok /\ ~y.complete /\ size \in Nat
        /\ y.failed = x.failed /\ y.toggle = x.toggle /\ y.stage = "DATA"
    <3>1. size \in Nat /\ size \in Int /\ "WRITE" \in {"READ", "WRITE"}
      BY <1>1
    <3>2. Begun(x, y, "WRITE", size)
      BY <2>4, <3>1, InitDataType
    <3> HIDE DEF x, y
    <3> QED
      BY <3>1, <3>2 DEF Begun
  <2> HIDE DEF x, y, b, d
  <2>7. Fits("bulkOut", y) /\ x.stage = "IDLE"
    BY <2>4, <2>6 DEF Fits, KindsOf, Good
  <2>8. Counted("bulkOut", y, d, b)
    BY <1>1, <2>2, <2>4, <2>6 DEF Counted, Behind
  <2>9. Writes(y, d)
    <3>1. x.toggle = d.toggle
      BY <2>4, <2>5, <2>7 DEF Good, Writes
    <3> QED
      BY <2>4, <2>5, <2>6, <3>1 DEF Writes
  <2>10. Good("bulkOut", y, d, b)
    BY <2>2, <2>5, <2>6, <2>7, <2>8, <2>9 DEF Good
  <2> QED
    BY <2>2, <2>3, <2>4, <2>10, AloneInv DEF b, x
<1> QED
  BY <1>2, <1>3, <1>4 DEF Clients

LEMMA HasMessageInv ==
    ASSUME Inv, NEW e \in Ins, HasMessage(e) PROVE Inv' /\ Received
<1> DEFINE b == 2 * faults
           x == ep[e]
<1>1. PICK len \in Sizes : dev' = [dev EXCEPT ![e].len = len]
  BY DEF HasMessage
<1> DEFINE d == [dev[e] EXCEPT !.len = len]
<1>2. /\ e \in Eps /\ dev \in [Eps -> Device] /\ dev[e] \in Device
      /\ Good(e, x, dev[e], b) /\ dev[e].len = None /\ ep \in [Eps -> Endpoint]
  BY DEF Eps, Ins, Inv, HasMessage, Sound, State
<1>3. len \in Nat /\ len # None
  BY TransferAssumption, NoneIs
<1>4. d \in Device /\ d.len = len /\ d.pos = dev[e].pos /\ d.toggle = dev[e].toggle
  BY <1>2, <1>3 DEF Device
<1>5. dev' = [dev EXCEPT ![e] = d]
  BY <1>1, <1>2
<1> HIDE DEF d, b
<1>6. Reads(x, d)
  <2>1. Reads(x, dev[e])
    BY <1>2 DEF Good
  <2> QED
    BY <1>2, <1>3, <1>4, <2>1 DEF Reads
<1>7. Counted(e, x, d, b)
  BY <1>2, <1>4 DEF Good, Counted, Behind
<1>8. e # "bulkOut" /\ x \in Endpoint
  BY <1>2 DEF Ins
<1>9. Good(e, x, d, b)
  BY <1>2, <1>4, <1>6, <1>7, <1>8 DEF Good
<1>10. ep' = [ep EXCEPT ![e] = x] /\ UNCHANGED_bus
  BY <1>2 DEF HasMessage, UNCHANGED_bus
<1>11. Whole(x, x, dev[e])
  BY <1>8 DEF Whole, Endpoint
<1> QED
  BY <1>2, <1>5, <1>9, <1>10, <1>11, AloneInv DEF b

LEMMA WaitsKept ==
    ASSUME NEW e \in Eps, NEW x \in Endpoint, Fits(e, x)
    PROVE  /\ Waits(x) \in Endpoint /\ Fits(e, Waits(x)) /\ Kept(e, x, Waits(x))
           /\ Waits(x).complete = x.complete /\ Waits(x).stage = x.stage
           /\ Waits(x).kind = x.kind /\ Waits(x).toggle = x.toggle
<1> DEFINE w == IF x.wait > 0 THEN x.wait - 1 ELSE 0
           y == Waits(x)
<1>1. w \in Nat
  BY DEF Endpoint
<1>2. y = [x EXCEPT !.nakd = FALSE, !.wait = w]
  BY DEF Waits, Endpoint
<1> HIDE DEF w, y
<1>3. /\ y \in Endpoint /\ y.complete = x.complete /\ y.stage = x.stage
      /\ y.kind = x.kind /\ y.toggle = x.toggle /\ y.ok = x.ok
      /\ y.failed = x.failed /\ y.count = x.count /\ y.max = x.max
      /\ y.errors = x.errors
  BY <1>1, <1>2 DEF Endpoint
<1>4. Fits(e, y)
  BY <1>3 DEF Fits
<1> QED
  BY <1>3, <1>4 DEF Kept, y

\* What the search of a new frame begins from.
NewFrame == [e \in Eps |-> IF e = "ep0" THEN ep[e] ELSE Waits(ep[e])]
LEMMA FrameKept ==
    ASSUME Inv, StartOfFrame
    PROVE  Sound(State)' /\ \A e \in Eps : Kept(e, ep[e], ep'[e])
<1> DEFINE b == [bus EXCEPT !.done = NoneDone, !.last = 0]
           g == NewFrame
<1>1. /\ Sound(State) /\ State.ep = ep /\ State.bus = bus
      /\ ep \in [Eps -> Endpoint] /\ bus \in Bus
      /\ \A e \in Eps : ep[e] \in Endpoint /\ Fits(e, ep[e])
  BY DEF Inv, State, Sound
<1>2. b \in Bus /\ b.token = bus.token
  BY <1>1 DEF Bus, NoneDone
<1>3. FindNextToken(g, b)
  BY DEF StartOfFrame, NewFrame
<1>4. ASSUME NEW e \in Eps
      PROVE  /\ g[e] \in Endpoint /\ Fits(e, g[e]) /\ Kept(e, ep[e], g[e])
             /\ g[e].complete = ep[e].complete /\ g[e].stage = ep[e].stage
             /\ g[e].kind = ep[e].kind /\ g[e].toggle = ep[e].toggle
  <2>1. g[e] = IF e = "ep0" THEN ep[e] ELSE Waits(ep[e])
    BY DEF NewFrame
  <2> QED
    BY <1>1, <1>4, <2>1, WaitsKept, KeptSelf
<1>5. g \in [Eps -> Endpoint]
  BY <1>4 DEF NewFrame
<1> HIDE DEF b, g
<1>6. TokenFits([ep |-> g, bus |-> b])
  <2>1. bus.token.ep \in Eps
    BY <1>1 DEF Bus
  <2>2. Pid(g[bus.token.ep]) = Pid(ep[bus.token.ep])
    BY <1>4, <2>1 DEF Pid
  <2> QED
    BY <1>1, <1>2, <1>4, <2>1, <2>2 DEF Sound, TokenFits, Written
<1>7. Sound([ep |-> g, bus |-> b])
  BY <1>2, <1>4, <1>5, <1>6 DEF Sound
<1>8. Sound(State)' /\ \A e \in Eps : Kept(e, g[e], ep'[e])
  BY <1>2, <1>3, <1>5, <1>7, FindAfter
<1>9. \A e \in Eps : ep'[e] \in Endpoint
  BY <1>8 DEF Sound, State
<1> QED
  BY <1>1, <1>4, <1>8, <1>9, KeptTwice

LEMMA FrameInv == ASSUME Inv, StartOfFrame PROVE Inv' /\ Received
<1>1. Sound(State)' /\ \A e \in Eps : Kept(e, ep[e], ep'[e])
  BY FrameKept
<1>2. dev' = dev /\ used' = used /\ faults' = faults
  BY DEF StartOfFrame
<1>3. /\ dev \in [Eps -> Device] /\ faults \in Nat /\ used \subseteq Eps
      /\ 2 * faults \in Nat
      /\ \A e \in Eps : Good(e, ep[e], dev[e], 2 * faults)
  BY DEF Inv
<1>4. \A e \in Eps : ep'[e] \in Endpoint /\ Fits(e, ep'[e])
  BY <1>1 DEF Sound, State
<1>5. ASSUME NEW e \in Eps PROVE Good(e, ep'[e], dev[e], 2 * faults)
  BY <1>1, <1>3, <1>4, GoodKept
<1>6. Received
  <2>1. \A e \in Eps : ep[e].count \in Int
    BY <1>3 DEF Good, Endpoint
  <2>2. \A e \in Ins : ep'[e].count = ep[e].count /\ ep'[e].ok = ep[e].ok
    BY <1>1 DEF Kept, Eps, Ins
  <2> QED
    BY <2>1, <2>2 DEF Received, Whole, Eps, Ins
<1> QED
  BY <1>1, <1>2, <1>3, <1>5, <1>6 DEF Inv

LEMMA InitInv == Init => Inv
<1> SUFFICES ASSUME Init PROVE Inv
  OBVIOUS
<1>1. /\ ep \in [Eps -> Endpoint]
      /\ \A e \in Eps : /\ ep[e].stage = "IDLE" /\ ep[e].complete /\ ~ep[e].ok
                        /\ ep[e].failed = "none" /\ ep[e].errors = 0
                        /\ ep[e].toggle = 0 /\ ep[e].count = 0 /\ ep[e].max = 0
  <2>1. ASSUME NEW e \in Eps
        PROVE  /\ ep[e] \in Endpoint
               /\ ep[e].stage = "IDLE" /\ ep[e].complete /\ ~ep[e].ok
               /\ ep[e].failed = "none" /\ ep[e].errors = 0
               /\ ep[e].toggle = 0 /\ ep[e].count = 0 /\ ep[e].max = 0
    <3> DEFINE w == IF e = "intIn" THEN Interval ELSE 0
    <3>1. w \in Nat
      BY TransferAssumption
    <3>2. ep[e] = [kind |-> "READ", stage |-> "IDLE", complete |-> TRUE,
                   ok |-> FALSE, failed |-> "none", errors |-> 0,
                   naks |-> 0, nakd |-> FALSE, toggle |-> 0, count |-> 0,
                   max |-> 0, wait |-> w]
      BY DEF Init
    <3> HIDE DEF w
    <3> QED
      BY <3>1, <3>2 DEF Endpoint, Stages
  <2>2. ep = [e \in Eps |-> ep[e]]
    BY DEF Init
  <2> QED
    BY <2>1, <2>2
<1>2. bus \in Bus /\ bus.token.pid = "none"
  BY DEF Init, Bus, NoToken, NoneDone, Eps
<1>3. /\ dev \in [Eps -> Device]
      /\ \A e \in Eps : /\ dev[e].toggle = 0 /\ dev[e].pos = 0
                        /\ dev[e].len = None
  BY NoneIs DEF Init, Device
<1>4. faults = 0 /\ used \subseteq Eps
  BY TransferAssumption DEF Init, Eps
<1>5. \A e \in Eps : Fits(e, ep[e])
  BY <1>1 DEF Fits
<1>6. Sound(State)
  BY <1>1, <1>2, <1>5 DEF Sound, State, TokenFits, Written
<1>7. ASSUME NEW e \in Eps PROVE Good(e, ep[e], dev[e], 2 * faults)
  <2>1. Counted(e, ep[e], dev[e], 2 * faults)
    BY <1>1, <1>3, <1>4 DEF Counted, Behind
  <2>2. Writes(ep[e], dev[e]) /\ Reads(ep[e], dev[e])
    BY <1>1, <1>3 DEF Writes, Reads
  <2> QED
    BY <1>1, <1>3, <1>5, <2>1, <2>2 DEF Good
<1> QED
  BY <1>3, <1>4, <1>6, <1>7 DEF Inv

LEMMA NextInv == Inv /\ [Next]_vars => Inv' /\ Received
<1> SUFFICES ASSUME Inv, [Next]_vars PROVE Inv' /\ Received
  OBVIOUS
<1>1. CASE UNCHANGED vars
  <2>1. Inv'
    BY <1>1 DEF Inv, State, vars, Sound, TokenFits, Written, Good
  <2>2. \A e \in Ins : ep[e].count \in Int
    BY DEF Inv, Good, Endpoint, Eps, Ins
  <2>3. Received
    BY <1>1, <2>2 DEF Received, Whole, vars
  <2> QED
    BY <2>1, <2>3
<1> QED
  BY <1>1, ClientsInv, HasMessageInv, TokenEndsInv, FrameInv DEF Next

-----------------------------------------------------------------------------
(* What the transfers promise.                                             *)

LEMMA InvHolds == Spec => []Inv
<1>1. Inv /\ [Next]_vars => Inv'
  BY NextInv
<1> QED
  BY InitInv, <1>1, PTL DEF Spec

\* Data that are written come to the device once, whatever packets and
\* acknowledgements the bus loses: the toggles tell the host's side of the
\* endpoint how far the device is (usb_host.c:5927-5977).
THEOREM WrittenOnce == Spec => []SentOnce
<1>1. ASSUME Inv PROVE SentOnce
  <2> DEFINE x == ep["bulkOut"]
             d == dev["bulkOut"]
  <2>1. Writes(x, d) /\ x \in Endpoint /\ Fits("bulkOut", x) /\ d \in Device
    BY <1>1 DEF Inv, Good, Eps
  <2>2. /\ x.count \in Int /\ x.max \in Int /\ d.pos \in Int
        /\ x.count <= x.max /\ MaxPacketSize \in Nat \ {0}
    BY <2>1, TransferAssumption DEF Endpoint, Device, Writes
  <2>3. x.ok => d.pos = x.max /\ x.count = x.max
    BY <2>1 DEF Writes
  <2>4. ~x.complete => x.stage \in {"DATA", "ERROR"} \/ x.ok
    BY <2>1 DEF Fits, Endpoint, Stages, Writes
  <2>5. x.stage \in {"DATA", "ERROR"} =>
          d.pos \in x.count .. x.count + MaxPacketSize
    BY <2>1, <2>2 DEF Writes, Least
  <2>6. x.ok => d.pos \in x.count .. x.count + MaxPacketSize
    BY <2>2, <2>3
  <2> QED
    BY <2>3, <2>4, <2>5, <2>6 DEF SentOnce
<1> QED
  BY <1>1, InvHolds, PTL

\* No transfer is given up for errors before the bus has lost half as many
\* packets as USB_TRANSACTION_RETRY_ATTEMPTS: a loss is an error, or two where
\* both interrupts report it, or one and the packet that comes again for it.
THEOREM FaultsAreOvercome == Spec => []FewFaultsAreOvercome
<1>1. ASSUME Inv PROVE FewFaultsAreOvercome
  <2>1. faults \in Nat /\ RetryAttempts \in Nat
    BY <1>1, TransferAssumption DEF Inv
  <2>2. \A e \in Eps : ep[e].failed = "error" => RetryAttempts <= 2 * faults
    BY <1>1 DEF Inv, Good, Counted
  <2> QED
    BY <2>1, <2>2 DEF FewFaultsAreOvercome
<1> QED
  BY <1>1, InvHolds, PTL

\* A read takes only what comes next of the message, and is successful with the
\* whole of it, or with nothing where the device has none.
THEOREM ReadsAreWhole == Spec => ReceivedWhole
<1>1. ASSUME Inv, [Next]_vars
      PROVE  [\A e \in Ins :
                 /\ ep'[e].count > ep[e].count => ep[e].count = dev[e].pos
                 /\ ep'[e].ok /\ ~ep[e].ok =>
                      ep'[e].count = IF dev[e].len = None THEN 0 ELSE dev[e].len]_vars
  BY <1>1, NextInv DEF Received, Whole
<1> QED
  BY <1>1, InvHolds, PTL DEF Spec, ReceivedWhole
=============================================================================
