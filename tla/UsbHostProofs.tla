--------------------------- MODULE UsbHostProofs ---------------------------
(***************************************************************************)
(* Theorems about UsbHost: no memory of the host is lost, and, if no plug  *)
(* leaves before the settling delay or in the call of HOLD_INIT            *)
(* (QuickUnplug), drivers keep to the device that is there and requests    *)
(* that fail are overcome.                                                 *)
(*                                                                         *)
(* The invariant goes by the substate.  A device that leaves is seen by    *)
(* the next call of USBHostTasks (Calm is that none has left since the     *)
(* settling began), so that what the host has read is of the device that   *)
(* is there.                                                               *)
(***************************************************************************)
EXTENDS UsbHost, FiniteSetTheorems, TLAPS

----------------------------------------------------------------------------
(* Types.                                                                  *)

Subs       == {"INITIALIZE", "WAIT_FOR_POWER", "TURN_ON_POWER", "WAIT_FOR_DEVICE",
               "SETTLE", "RESET_DEVICE", "GET_DEVICE_DESCRIPTOR_SIZE",
               "GET_DEVICE_DESCRIPTOR", "VALIDATE_VID_PID", "SET_DEVICE_ADDRESS",
               "INIT_CONFIGURATION", "GET_CONFIG_DESCRIPTOR_SIZE",
               "GET_CONFIG_DESCRIPTOR", "SELECT_CONFIGURATION",
               "ENABLE_ACCESSORY", "SET_CONFIGURATION", "NORMAL_RUN",
               "HOLD_INIT", "HOLD"}
Interfaces == {"none", "AND_INT", "AND_DEV", "BT_DEV"}
Requests   == {"none", "DEVICE_DESCRIPTOR", "SET_ADDRESS", "CONFIG_DESCRIPTOR",
               "GET_PROTOCOL", "START_ACCESSORY", "SET_CONFIGURATION", "COMMAND"}
Claim      == [num : {0, 1}, whole : BOOLEAN, driver : Interfaces \ {"none"}]
Config     == [num : Nat \ {0}, ifs : Seq(Interface)]
Configs    == Seq(Config)
Blocks     == [ep0data : Int, descriptor : Int, configs : Int, ifaces : Int]

HeapType(h) ==
    /\ h \in [ep0data : BOOLEAN, descriptor : Kinds \union {None},
              configs : Configs, ifaces : {h.ifaces}, blocks : Blocks]
    /\ h.ifaces \in [DOMAIN h.ifaces -> Claim] /\ IsFiniteSet(DOMAIN h.ifaces)

HeapInv(h) == HeapType(h) /\ Balanced(h)

Hosts      == [sub : Subs, step : Nat]
Infos      == [deviceAddress : {0, 1}, address : {0, 1}, conf : Nat,
               driver : Interfaces \ {"AND_INT"}]
Transfers  == [busy : BOOLEAN, ok : BOOLEAN, req : Requests, got : Kinds \union {None}]
Hws        == [on : BOOLEAN, attachIE : BOOLEAN, detachIE : BOOLEAN,
               trnIE : BOOLEAN, timer : BOOLEAN, detachIF : BOOLEAN]
Androids   == [address : {0, 1}, ifs : SUBSET {0, 1}]
Bluetooths == [address : {0, 1}, initialized : BOOLEAN]
Devices    == [kind : Kinds \union {None}, addr : {0, 1}, conf : Nat]

TypeOK ==
    /\ host \in Hosts
    /\ override \in {NoState, To("SETTLE"), To("INITIALIZE")}
    /\ errorCode \in {"none", "stale", "OUT_OF_MEMORY", "CANNOT_ENUMERATE",
                      "UNSUPPORTED_HUB", "UNSUPPORTED_DEVICE", "CLIENT_INIT_ERROR"}
    /\ tries \in [command : Int, enumeration : Int]
    /\ info \in Infos
    /\ node \in Nat /\ count \in Nat
    /\ ep0 \in Transfers
    /\ hw \in Hws
    /\ android \in Androids
    /\ bluetooth \in Bluetooths
    /\ device \in Devices
    /\ trouble \in Nat

----------------------------------------------------------------------------
(* What holds in the substates.                                            *)

Place(sub, step) == [sub |-> sub, step |-> step]

Unattached == {"WAIT_FOR_POWER", "TURN_ON_POWER", "WAIT_FOR_DEVICE"}
Reading    == {"SETTLE", "RESET_DEVICE", "GET_DEVICE_DESCRIPTOR_SIZE"}
Described  == {"GET_DEVICE_DESCRIPTOR", "VALIDATE_VID_PID", "SET_DEVICE_ADDRESS"}
Counting   == {"GET_CONFIG_DESCRIPTOR_SIZE", "GET_CONFIG_DESCRIPTOR"}
Selected   == {"ENABLE_ACCESSORY", "SET_CONFIGURATION"}
Configuring == {"INIT_CONFIGURATION", "SELECT_CONFIGURATION"} \union Counting \union Selected
Enumerating == Reading \union Described \union Configuring
Settled    == {"NORMAL_RUN", "HOLD_INIT", "HOLD"}
Attached   == Enumerating \union Settled

\* The requests a failure of which is counted, and all that are awaited.
Retried == {Place("GET_DEVICE_DESCRIPTOR_SIZE", 1), Place("GET_DEVICE_DESCRIPTOR", 1),
            Place("SET_DEVICE_ADDRESS", 1), Place("GET_CONFIG_DESCRIPTOR_SIZE", 1),
            Place("GET_CONFIG_DESCRIPTOR", 1), Place("SET_CONFIGURATION", 1)}
Awaits  == Retried \union {Place("ENABLE_ACCESSORY", 1), Place("ENABLE_ACCESSORY", 5)}

Calm == override = NoState /\ ~hw.detachIF

\* The interrupts that can come.
InterruptInv ==
    /\ hw.on /\ hw.timer => host \in {Place("SETTLE", 1), Place("RESET_DEVICE", 1),
                                      Place("RESET_DEVICE", 3)}
    /\ hw.on /\ hw.attachIE => host = To("WAIT_FOR_DEVICE") /\ override = NoState
    /\ override = To("SETTLE") => host = To("WAIT_FOR_DEVICE") /\ hw.on
    /\ host.sub \in Unattached => override # To("INITIALIZE") /\ ~hw.detachIE /\ ~hw.timer
    /\ host.sub \in Attached =>
         hw.on /\ (override = To("INITIALIZE") \/ (override = NoState /\ hw.detachIE))
    /\ host.sub = "SETTLE" => host.step > 0

\* The control transfer that is awaited.
TransferInv ==
    /\ ep0.busy => host \in Awaits \/ host.sub \in {"NORMAL_RUN", "INITIALIZE"}
    /\ ep0.busy => ~ep0.ok
    /\ host \in Awaits /\ ep0.ok => ep0.got # None
    /\ host \in Awaits =>
         /\ ep0.req = "SET_ADDRESS" <=> host = Place("SET_DEVICE_ADDRESS", 1)
         /\ ep0.req = "SET_CONFIGURATION" <=> host = Place("SET_CONFIGURATION", 1)
    /\ ep0.busy /\ host.sub = "NORMAL_RUN" => ep0.req = "COMMAND"
    /\ host \in Retried => ep0.req # "GET_PROTOCOL"

\* What was read of the device.
DescriptorInv ==
    /\ host.sub \in Unattached =>
         heap.descriptor = None /\ heap.configs = <<>> /\ heap.ifaces = <<>>
    /\ host = Place("GET_DEVICE_DESCRIPTOR_SIZE", 1) => heap.descriptor = None
    /\ host = Place("GET_DEVICE_DESCRIPTOR_SIZE", 2) =>
         heap.descriptor = None /\ ep0.got # None /\ (Calm => ep0.got = device.kind)
    /\ host.sub \in Described \union Configuring => heap.descriptor # None
    /\ host.sub \in Enumerating /\ Calm =>
         /\ heap.descriptor # None => heap.descriptor = device.kind
         /\ host \in Awaits /\ ep0.ok => ep0.got = device.kind
    /\ host.sub \in Counting => count \in 1 .. Len(heap.descriptor.configs)

\* The drivers and the list of the interfaces they are told by.
DriverInv ==
    /\ android.address = 0 <=> android.ifs = {}
    /\ host.sub \in Selected \/ host = Place("SELECT_CONFIGURATION", 1) =>
         \A i \in DOMAIN heap.ifaces :
            heap.ifaces[i].driver = IF info.driver # "none" THEN info.driver ELSE "AND_INT"
    /\ host.sub \in Configuring => info.deviceAddress = 1
    /\ host.sub = "SET_DEVICE_ADDRESS" /\ host.step > 0 => info.deviceAddress = 1
    /\ android.ifs # {} \/ bluetooth.initialized => host.sub \in Settled \union {"INITIALIZE"}
    /\ android.ifs # {} =>
         /\ info.deviceAddress = 1
         /\ \E i \in DOMAIN heap.ifaces : heap.ifaces[i].driver \in {"AND_INT", "AND_DEV"}
    /\ bluetooth.initialized =>
         /\ info.deviceAddress = 1 /\ bluetooth.address = 1
         /\ \E i \in DOMAIN heap.ifaces : heap.ifaces[i].driver = "BT_DEV"

MemoryInv ==
    TypeOK /\ HeapInv(heap) /\ InterruptInv /\ TransferInv /\ DescriptorInv /\ DriverInv

\* The device that is there.
DeviceInv ==
    /\ override = To("SETTLE") => device.kind # None
    /\ host.sub \in Attached /\ Calm => device.kind # None
    /\ Calm /\ (\/ host = Place("SET_DEVICE_ADDRESS", 1) /\ ep0.ok
                \/ host = Place("SET_DEVICE_ADDRESS", 2)) => device.addr = 1
    /\ Calm /\ host.sub \in Configuring => device.addr = 1 /\ info.address = 1
    /\ host.sub \in Selected \/ host = Place("SELECT_CONFIGURATION", 1) =>
         (node # 0 => info.conf # 0)
    /\ host.sub = "SET_CONFIGURATION" /\ host.step > 0 => node # 0
    /\ Calm /\ (\/ host = Place("SET_CONFIGURATION", 1) /\ ep0.ok
                \/ host.sub = "SET_CONFIGURATION" /\ host.step > 1) => device.conf # 0
    /\ Calm /\ host.sub \in Settled /\ (android.ifs # {} \/ bluetooth.initialized) =>
         device.addr = 1 /\ device.conf # 0

\* What the requests that failed have cost.
Spent == EnumerationTries - tries.enumeration
FaultInv ==
    /\ host.sub # "INITIALIZE" => trouble >= Spent
    /\ errorCode = "CANNOT_ENUMERATE" => trouble >= EnumerationTries
    /\ Calm /\ host \in Retried /\ ~ep0.busy /\ ~ep0.ok => trouble > Spent
    /\ Calm /\ host.sub \in Enumerating \ {"SETTLE"} /\ host # To("RESET_DEVICE") =>
         \/ device.addr = info.address
         \/ trouble > Spent
         \/ host = Place("SET_DEVICE_ADDRESS", 2)
         \/ host = Place("SET_DEVICE_ADDRESS", 1) /\ ep0.ok

Inv == MemoryInv /\ DeviceInv /\ FaultInv

----------------------------------------------------------------------------
(* The heap.                                                               *)

LEMMA EmptyList == <<>> \in [{} -> Claim] /\ DOMAIN <<>> = {} /\ Cardinality({}) = 0
BY FS_EmptySet

LEMMA CountType == ASSUME NEW h, HeapType(h) PROVE Cardinality(DOMAIN h.ifaces) \in Nat
BY FS_CardinalityType DEF HeapType

Purses == {"ep0data", "descriptor", "configs", "ifaces"}

LEMMA AccountType ==
    ASSUME NEW h, HeapType(h), NEW what \in Purses, NEW n \in Int
    PROVE  /\ HeapType(Account(h, what, n))
           /\ Account(h, what, n).ep0data = h.ep0data
           /\ Account(h, what, n).descriptor = h.descriptor
           /\ Account(h, what, n).configs = h.configs
           /\ Account(h, what, n).ifaces = h.ifaces
           /\ \A w \in Purses : Account(h, what, n).blocks[w] =
                                  IF w = what THEN h.blocks[w] + n ELSE h.blocks[w]
<1>1. Account(h, what, n) = [h EXCEPT !.blocks = [h.blocks EXCEPT ![what] = @ + n]]
  BY DEF Account, HeapType
<1>2. [h.blocks EXCEPT ![what] = @ + n] \in Blocks
  BY DEF HeapType, Blocks, Purses
<1> QED
  BY <1>1, <1>2 DEF HeapType, Blocks, Purses

LEMMA FreeConfigMemoryInv ==
    ASSUME NEW h, HeapInv(h)
    PROVE  /\ HeapInv(FreeConfigMemory(h)) /\ FreeConfigMemory(h).ifaces = <<>>
           /\ FreeConfigMemory(h).ep0data = h.ep0data
           /\ FreeConfigMemory(h).descriptor = h.descriptor
           /\ FreeConfigMemory(h).configs = h.configs
<1> DEFINE n == - Cardinality(DOMAIN h.ifaces)
           a == Account(h, "ifaces", n)
<1>1. FreeConfigMemory(h) = [a EXCEPT !.ifaces = <<>>]
  BY DEF FreeConfigMemory
<1>2. HeapType(h) /\ n \in Int /\ "ifaces" \in Purses
  BY CountType DEF HeapInv, HeapType, Configs, Purses
<1>3. /\ HeapType(a)
       /\ a.ep0data = h.ep0data
       /\ a.descriptor = h.descriptor
       /\ a.configs = h.configs
       /\ a.ifaces = h.ifaces
       /\ \A w \in Purses : a.blocks[w] = IF w = "ifaces" THEN h.blocks[w] + n
                                                  ELSE h.blocks[w]
  BY <1>2, AccountType
<1> HIDE DEF a
<1> DEFINE b == FreeConfigMemory(h)
<1>4. /\ b.ep0data = h.ep0data /\ b.descriptor = h.descriptor
      /\ b.configs = h.configs /\ b.ifaces = <<>> /\ b.blocks = a.blocks
  BY <1>1, <1>3 DEF HeapType
<1>5. HeapType(b)
  BY <1>1, <1>3, <1>4, EmptyList, FS_EmptySet DEF HeapType
<1>6. Balanced(b)
  BY <1>2, <1>3, <1>4, EmptyList, CountType DEF HeapInv, Balanced, Purses
<1> QED
  BY <1>4, <1>5, <1>6 DEF HeapInv

LEMMA FreeConfigsInv ==
    ASSUME NEW h, HeapInv(h)
    PROVE  /\ HeapInv(FreeConfigs(h)) /\ FreeConfigs(h).configs = <<>>
           /\ FreeConfigs(h).ep0data = h.ep0data
           /\ FreeConfigs(h).descriptor = h.descriptor
           /\ FreeConfigs(h).ifaces = h.ifaces
<1> DEFINE n == - Len(h.configs)
           a == Account(h, "configs", n)
<1>1. FreeConfigs(h) = [a EXCEPT !.configs = <<>>]
  BY DEF FreeConfigs
<1>2. HeapType(h) /\ n \in Int /\ "configs" \in Purses /\ <<>> \in Configs
  BY DEF HeapInv, HeapType, Configs, Purses
<1>3. /\ HeapType(a)
       /\ a.ep0data = h.ep0data
       /\ a.descriptor = h.descriptor
       /\ a.configs = h.configs
       /\ a.ifaces = h.ifaces
       /\ \A w \in Purses : a.blocks[w] = IF w = "configs" THEN h.blocks[w] + n
                                                  ELSE h.blocks[w]
  BY <1>2, AccountType
<1> HIDE DEF a
<1> QED
  BY <1>1, <1>2, <1>3 DEF HeapInv, HeapType, Balanced, Purses

LEMMA FreeDescriptorInv ==
    ASSUME NEW h, HeapInv(h)
    PROVE  /\ HeapInv(FreeDescriptor(h)) /\ FreeDescriptor(h).descriptor = None
           /\ FreeDescriptor(h).ep0data = h.ep0data
           /\ FreeDescriptor(h).configs = h.configs
           /\ FreeDescriptor(h).ifaces = h.ifaces
<1> DEFINE n == -1
           a == Account(h, "descriptor", n)
<1>1. CASE h.descriptor = None
  BY <1>1 DEF FreeDescriptor, HeapInv, HeapType
<1>2. CASE h.descriptor # None
  <2>1. FreeDescriptor(h) = [a EXCEPT !.descriptor = None]
    BY <1>2 DEF FreeDescriptor
  <2>2. HeapType(h) /\ n \in Int /\ "descriptor" \in Purses
    BY DEF HeapInv, HeapType, Configs, Purses
  <2>3. /\ HeapType(a)
         /\ a.ep0data = h.ep0data
         /\ a.descriptor = h.descriptor
         /\ a.configs = h.configs
         /\ a.ifaces = h.ifaces
         /\ \A w \in Purses : a.blocks[w] = IF w = "descriptor" THEN h.blocks[w] + n
                                                    ELSE h.blocks[w]
    BY <2>2, AccountType
  <2> HIDE DEF a
  <2> QED
    BY <1>2, <2>1, <2>2, <2>3 DEF HeapInv, HeapType, Balanced, Purses
<1> QED
  BY <1>1, <1>2

LEMMA FreeEp0DataInv ==
    ASSUME NEW h, HeapInv(h)
    PROVE  /\ HeapInv(FreeEp0Data(h)) /\ FreeEp0Data(h).ep0data = FALSE
           /\ FreeEp0Data(h).descriptor = h.descriptor
           /\ FreeEp0Data(h).configs = h.configs
           /\ FreeEp0Data(h).ifaces = h.ifaces
<1> DEFINE n == -1
           a == Account(h, "ep0data", n)
<1>1. CASE ~h.ep0data
  BY <1>1 DEF FreeEp0Data, HeapInv, HeapType
<1>2. CASE h.ep0data
  <2>1. FreeEp0Data(h) = [a EXCEPT !.ep0data = FALSE]
    BY <1>2 DEF FreeEp0Data
  <2>2. HeapType(h) /\ n \in Int /\ "ep0data" \in Purses
    BY DEF HeapInv, HeapType, Configs, Purses
  <2>3. /\ HeapType(a)
         /\ a.ep0data = h.ep0data
         /\ a.descriptor = h.descriptor
         /\ a.configs = h.configs
         /\ a.ifaces = h.ifaces
         /\ \A w \in Purses : a.blocks[w] = IF w = "ep0data" THEN h.blocks[w] + n
                                                    ELSE h.blocks[w]
    BY <2>2, AccountType
  <2> HIDE DEF a
  <2> DEFINE b == FreeEp0Data(h)
  <2>4. /\ b.ep0data = FALSE /\ b.descriptor = h.descriptor
        /\ b.configs = h.configs /\ b.ifaces = h.ifaces /\ b.blocks = a.blocks
    BY <2>1, <2>3 DEF HeapType
  <2>5. HeapType(b)
    BY <2>1, <2>3, <2>4 DEF HeapType
  <2>6. Balanced(b)
    BY <1>2, <2>2, <2>3, <2>4 DEF HeapInv, Balanced, Purses
  <2> QED
    BY <2>4, <2>5, <2>6 DEF HeapInv
<1> QED
  BY <1>1, <1>2

LEMMA NewEp0DataInv ==
    ASSUME NEW h, HeapInv(h), ~h.ep0data
    PROVE  /\ HeapInv(NewEp0Data(h)) /\ NewEp0Data(h).ep0data = TRUE
           /\ NewEp0Data(h).descriptor = h.descriptor
           /\ NewEp0Data(h).configs = h.configs
           /\ NewEp0Data(h).ifaces = h.ifaces
<1> DEFINE n == 1
           a == Account(h, "ep0data", n)
<1>1. NewEp0Data(h) = [a EXCEPT !.ep0data = TRUE]
  BY DEF NewEp0Data
<1>2. HeapType(h) /\ n \in Int /\ "ep0data" \in Purses
  BY DEF HeapInv, HeapType, Configs, Purses
<1>3. /\ HeapType(a)
       /\ a.ep0data = h.ep0data
       /\ a.descriptor = h.descriptor
       /\ a.configs = h.configs
       /\ a.ifaces = h.ifaces
       /\ \A w \in Purses : a.blocks[w] = IF w = "ep0data" THEN h.blocks[w] + n
                                                  ELSE h.blocks[w]
  BY <1>2, AccountType
<1> HIDE DEF a
<1> DEFINE b == NewEp0Data(h)
<1>4. /\ b.ep0data = TRUE /\ b.descriptor = h.descriptor
      /\ b.configs = h.configs /\ b.ifaces = h.ifaces /\ b.blocks = a.blocks
  BY <1>1, <1>3 DEF HeapType
<1>5. HeapType(b)
  BY <1>1, <1>3, <1>4 DEF HeapType
<1>6. Balanced(b)
  BY <1>2, <1>3, <1>4 DEF HeapInv, Balanced, Purses
<1> QED
  BY <1>4, <1>5, <1>6 DEF HeapInv

LEMMA NewDescriptorInv ==
    ASSUME NEW h, HeapInv(h), h.descriptor = None, NEW kind \in Kinds
    PROVE  /\ HeapInv(NewDescriptor(h, kind)) /\ NewDescriptor(h, kind).descriptor = kind
           /\ NewDescriptor(h, kind).ep0data = h.ep0data
           /\ NewDescriptor(h, kind).configs = h.configs
           /\ NewDescriptor(h, kind).ifaces = h.ifaces
<1> DEFINE n == 1
           a == Account(h, "descriptor", n)
<1>1. NewDescriptor(h, kind) = [a EXCEPT !.descriptor = kind]
  BY DEF NewDescriptor
<1>2. HeapType(h) /\ n \in Int /\ "descriptor" \in Purses /\ kind # None
  BY UsbHostAssumption DEF HeapInv, HeapType, Configs, Purses
<1>3. /\ HeapType(a)
       /\ a.ep0data = h.ep0data
       /\ a.descriptor = h.descriptor
       /\ a.configs = h.configs
       /\ a.ifaces = h.ifaces
       /\ \A w \in Purses : a.blocks[w] = IF w = "descriptor" THEN h.blocks[w] + n
                                                  ELSE h.blocks[w]
  BY <1>2, AccountType
<1> HIDE DEF a
<1> QED
  BY <1>1, <1>2, <1>3 DEF HeapInv, HeapType, Balanced, Purses

LEMMA NewConfigInv ==
    ASSUME NEW h, HeapInv(h), NEW config \in Config
    PROVE  /\ HeapInv(NewConfig(h, config)) /\ NewConfig(h, config).configs = <<config>> \o h.configs
           /\ NewConfig(h, config).ep0data = h.ep0data
           /\ NewConfig(h, config).descriptor = h.descriptor
           /\ NewConfig(h, config).ifaces = h.ifaces
<1> DEFINE n == 1
           a == Account(h, "configs", n)
<1>1. NewConfig(h, config) = [a EXCEPT !.configs = <<config>> \o h.configs]
  BY DEF NewConfig
<1>2. HeapType(h) /\ n \in Int /\ "configs" \in Purses
      /\ <<config>> \o h.configs \in Configs
      /\ Len(<<config>> \o h.configs) = Len(h.configs) + 1
  BY DEF HeapInv, HeapType, Configs, Purses
<1>3. /\ HeapType(a)
       /\ a.ep0data = h.ep0data
       /\ a.descriptor = h.descriptor
       /\ a.configs = h.configs
       /\ a.ifaces = h.ifaces
       /\ \A w \in Purses : a.blocks[w] = IF w = "configs" THEN h.blocks[w] + n
                                                  ELSE h.blocks[w]
  BY <1>2, AccountType
<1> HIDE DEF a
<1> QED
  BY <1>1, <1>2, <1>3 DEF HeapInv, HeapType, Balanced, Purses

LEMMA NewIfacesInv ==
    ASSUME NEW h, HeapInv(h), h.ifaces = <<>>,
           NEW ifs, ifs \in [DOMAIN ifs -> Claim], IsFiniteSet(DOMAIN ifs)
    PROVE  /\ HeapInv(NewIfaces(h, ifs)) /\ NewIfaces(h, ifs).ifaces = ifs
           /\ NewIfaces(h, ifs).ep0data = h.ep0data
           /\ NewIfaces(h, ifs).descriptor = h.descriptor
           /\ NewIfaces(h, ifs).configs = h.configs
<1> DEFINE n == Cardinality(DOMAIN ifs)
           a == Account(h, "ifaces", n)
<1>1. NewIfaces(h, ifs) = [a EXCEPT !.ifaces = ifs]
  BY DEF NewIfaces
<1>2. HeapType(h) /\ n \in Int /\ "ifaces" \in Purses
  BY FS_CardinalityType DEF HeapInv, HeapType, Configs, Purses
<1>3. /\ HeapType(a)
       /\ a.ep0data = h.ep0data
       /\ a.descriptor = h.descriptor
       /\ a.configs = h.configs
       /\ a.ifaces = h.ifaces
       /\ \A w \in Purses : a.blocks[w] = IF w = "ifaces" THEN h.blocks[w] + n
                                                  ELSE h.blocks[w]
  BY <1>2, AccountType
<1> HIDE DEF a
<1> QED
  BY <1>1, <1>2, <1>3, EmptyList DEF HeapInv, HeapType, Balanced, Purses

LEMMA FreeMemoryInv ==
    ASSUME NEW h, HeapInv(h)
    PROVE  /\ HeapInv(FreeMemory(h))
           /\ FreeMemory(h).descriptor = None
           /\ FreeMemory(h).configs = <<>> /\ FreeMemory(h).ifaces = <<>>
<1> DEFINE a == FreeConfigs(h)
           b == FreeDescriptor(a)
           c == FreeEp0Data(b)
<1>1. HeapInv(a) /\ a.configs = <<>>
  BY FreeConfigsInv
<1>2. HeapInv(b) /\ b.configs = <<>> /\ b.descriptor = None
  BY <1>1, FreeDescriptorInv
<1>3. HeapInv(c) /\ c.configs = <<>> /\ c.descriptor = None
  BY <1>2, FreeEp0DataInv
<1>4. FreeMemory(h) = FreeConfigMemory(c)
  BY DEF FreeMemory
<1> HIDE DEF c
<1> QED
  BY <1>3, <1>4, FreeConfigMemoryInv

----------------------------------------------------------------------------
(* Drivers.                                                                *)

LEMMA MinOfFew ==
    ASSUME NEW S \in SUBSET (1 .. 4), S # {} PROVE Min(S) \in S
<1>1. \E x \in S : \A y \in S : x <= y
  <2>1. CASE 1 \in S
    BY <2>1
  <2>2. CASE 1 \notin S /\ 2 \in S
    BY <2>2
  <2>3. CASE 1 \notin S /\ 2 \notin S /\ 3 \in S
    BY <2>3
  <2>4. CASE 1 \notin S /\ 2 \notin S /\ 3 \notin S
    <3>1. \A y \in S : y = 4
      BY <2>4
    <3>2. 4 \in S
      BY <3>1
    <3> QED
      BY <3>1, <3>2
  <2> QED
    BY <2>1, <2>2, <2>3, <2>4
<1> QED
  BY <1>1 DEF Min

LEMMA FoundDriver ==
    ASSUME NEW id
    PROVE  /\ FindDriver(id, TRUE) \in {"none", "AND_INT"}
           /\ FindDriver(id, FALSE) \in {"none", "AND_DEV", "BT_DEV"}
<1> DEFINE fits(interface) ==
             {i \in DOMAIN usbTPL : usbTPL[i].id = id /\ usbTPL[i].interface = interface}
<1>1. DOMAIN usbTPL = 1 .. 4
  BY DEF usbTPL
<1>2. ASSUME NEW interface \in BOOLEAN
      PROVE  fits(interface) = {} \/ Min(fits(interface)) \in fits(interface)
  BY <1>1, MinOfFew
<1>3. \A i \in 1 .. 4 : IF usbTPL[i].interface THEN usbTPL[i].driver = "AND_INT"
                        ELSE usbTPL[i].driver \in {"AND_DEV", "BT_DEV"}
  BY DEF usbTPL
<1> QED
  BY <1>1, <1>2, <1>3 DEF FindDriver

LEMMA ClaimedType ==
    ASSUME TypeOK, NEW ifs \in Seq(Interface)
    PROVE  /\ Claimed(ifs) \in [DOMAIN Claimed(ifs) -> Claim]
           /\ IsFiniteSet(DOMAIN Claimed(ifs))
           /\ \A i \in DOMAIN Claimed(ifs) :
                 Claimed(ifs)[i].driver =
                    IF info.driver # "none" THEN info.driver ELSE "AND_INT"
<1>1. DOMAIN ifs = 1 .. Len(ifs) /\ Len(ifs) \in Nat
  OBVIOUS
<1>2. DOMAIN Claimed(ifs) \subseteq 1 .. Len(ifs)
  BY <1>1 DEF Claimed
<1>3. IsFiniteSet(DOMAIN Claimed(ifs))
  <2>1. IsFiniteSet(1 .. Len(ifs))
    BY <1>1, FS_Interval
  <2> QED
    BY <1>2, <2>1, FS_Subset
<1>4. ASSUME NEW i \in DOMAIN Claimed(ifs)
      PROVE  /\ Claimed(ifs)[i].driver =
                   IF info.driver # "none" THEN info.driver ELSE "AND_INT"
             /\ Claimed(ifs)[i] \in Claim
  <2>1. /\ ifs[i] \in Interface /\ DriverOf(ifs[i]) # "none"
        /\ Claimed(ifs)[i] = [num |-> ifs[i].num, whole |-> ifs[i].whole,
                              driver |-> DriverOf(ifs[i])]
    BY <1>1 DEF Claimed
  <2>2. DriverOf(ifs[i]) = IF info.driver # "none" THEN info.driver ELSE "AND_INT"
    BY <2>1, FoundDriver DEF DriverOf, FindClassDriver
  <2> QED
    BY <2>1, <2>2 DEF TypeOK, Infos, Claim, Interface, Interfaces
<1> QED
  BY <1>3, <1>4 DEF Claimed

LEMMA StateOfSub ==
    ASSUME NEW s \in Subs
    PROVE  StateOf[s] = "RUNNING" <=> s = "NORMAL_RUN"
BY DEF Subs, StateOf

----------------------------------------------------------------------------
(* Which steps change what.                                                *)

LEMMA Changes ==
    ASSUME Next
    PROVE
      /\ override' # override =>
           Initialize \/ StartSettling \/ ResetUSB \/ AttachInterrupt \/
           DetachInterrupt
      /\ errorCode' # errorCode =>
           Initialize \/ SetReset \/ WaitForGetDeviceDescriptorSize \/
           GetDeviceDescriptorSizeComplete \/
           GetConfigDescriptorSizeComplete \/ Unsupported \/
           InitClientDrivers \/ RequestFails
      /\ tries' # tries =>
           Initialize \/ SetReset \/ GetDeviceDescriptorSizeComplete \/
           GetDeviceDescriptorComplete \/ SetDeviceAddressComplete \/
           GetConfigDescriptorSizeComplete \/ GetConfigDescriptorComplete \/
           SetConfigurationComplete \/ RequestFails
      /\ info' # info =>
           Initialize \/ SetReset \/ ValidateVidPid \/
           SendSetDeviceAddress \/ SetDeviceAddressComplete \/
           SelectConfiguration \/ ResetUSB
      /\ heap' # heap =>
           Initialize \/ SetReset \/ SendGetDeviceDescriptorSize \/
           GetDeviceDescriptorSizeComplete \/ WaitForGetDeviceDescriptor \/
           InitConfiguration \/ GetConfigDescriptorSizeComplete \/
           WaitForGetConfigDescriptor \/ SelectConfiguration \/ ResetUSB
      /\ node' # node =>
           Initialize \/ SelectConfiguration
      /\ count' # count =>
           Initialize \/ InitConfiguration \/ GetConfigDescriptorComplete
      /\ ep0' # ep0 =>
           Initialize \/ IssueDeviceRequest \/ TransferEnds \/
           SendGetDeviceDescriptorSize \/ SendGetDeviceDescriptor \/
           SendSetDeviceAddress \/ SendGetConfigDescriptorSize \/
           SendGetConfigDescriptor \/ SendGetProtocol \/
           SendStartAccessory \/ SendSetConfiguration
      /\ hw' # hw =>
           Initialize \/ TurnOnPower \/ StartSettling \/ SetReset \/
           ResetRecovery \/ ResetComplete \/ HoldInit \/ ResetUSB \/
           TimerInterrupt \/ AttachInterrupt \/ DetachInterrupt \/ Unplug
      /\ android' # android =>
           Initialize \/ InitClientDrivers \/ AndroidReset \/ ResetUSB
      /\ bluetooth' # bluetooth =>
           Initialize \/ InitClientDrivers \/ BluetoothReset \/ ResetUSB
      /\ device' # device =>
           SetReset \/ HoldInit \/ TransferEnds \/ Plug \/ Unplug
      /\ trouble' # trouble =>
           SetReset \/ GetDeviceDescriptorSizeComplete \/
           GetConfigDescriptorSizeComplete \/ SelectConfiguration \/
           AndroidReset \/ BluetoothReset \/ ResetUSB \/ TransferEnds
<1> USE DEF Next, Tasks, Interrupts, rest, enumeration, drivers, Goes, Send,
        ResetDevice, CheckCommandAndEnumerationAttempts, Initialize,
        WaitForPower, TurnOnPower, StartSettling, SettlingDone, SetReset,
        ResetRecovery, ResetComplete, SendGetDeviceDescriptorSize,
        WaitForGetDeviceDescriptorSize, GetDeviceDescriptorSizeComplete,
        SendGetDeviceDescriptor, WaitForGetDeviceDescriptor,
        GetDeviceDescriptorComplete, ValidateVidPid, SendSetDeviceAddress,
        WaitForSetDeviceAddress, SetDeviceAddressComplete, InitConfiguration,
        SendGetConfigDescriptorSize, WaitForGetConfigDescriptorSize,
        GetConfigDescriptorSizeComplete, SendGetConfigDescriptor,
        WaitForGetConfigDescriptor, GetConfigDescriptorComplete,
        SelectConfiguration, SendSetOtg, SkipAccessory, SendGetProtocol,
        WaitForGetProtocol, SendAccessoryStrings, SendStartAccessory,
        WaitForStartAccessory, AccessoryFails, Unsupported,
        SendSetConfiguration, WaitForSetConfiguration,
        SetConfigurationComplete, InitClientDrivers, RequestFails, HoldInit,
        AndroidReset, BluetoothReset, ResetUSB, IssueDeviceRequest,
        TimerInterrupt, AttachInterrupt, DetachInterrupt, TransferEnds, Plug,
        Unplug
<1>1. override' # override =>
        Initialize \/ StartSettling \/ ResetUSB \/ AttachInterrupt \/
        DetachInterrupt
  OBVIOUS
<1>2. errorCode' # errorCode =>
        Initialize \/ SetReset \/ WaitForGetDeviceDescriptorSize \/
        GetDeviceDescriptorSizeComplete \/ GetConfigDescriptorSizeComplete \/
        Unsupported \/ InitClientDrivers \/ RequestFails
  OBVIOUS
<1>3. tries' # tries =>
        Initialize \/ SetReset \/ GetDeviceDescriptorSizeComplete \/
        GetDeviceDescriptorComplete \/ SetDeviceAddressComplete \/
        GetConfigDescriptorSizeComplete \/ GetConfigDescriptorComplete \/
        SetConfigurationComplete \/ RequestFails
  OBVIOUS
<1>4. info' # info =>
        Initialize \/ SetReset \/ ValidateVidPid \/ SendSetDeviceAddress \/
        SetDeviceAddressComplete \/ SelectConfiguration \/ ResetUSB
  OBVIOUS
<1>5. heap' # heap =>
        Initialize \/ SetReset \/ SendGetDeviceDescriptorSize \/
        GetDeviceDescriptorSizeComplete \/ WaitForGetDeviceDescriptor \/
        InitConfiguration \/ GetConfigDescriptorSizeComplete \/
        WaitForGetConfigDescriptor \/ SelectConfiguration \/ ResetUSB
  OBVIOUS
<1>6. node' # node =>
        Initialize \/ SelectConfiguration
  OBVIOUS
<1>7. count' # count =>
        Initialize \/ InitConfiguration \/ GetConfigDescriptorComplete
  OBVIOUS
<1>8. ep0' # ep0 =>
        Initialize \/ IssueDeviceRequest \/ TransferEnds \/
        SendGetDeviceDescriptorSize \/ SendGetDeviceDescriptor \/
        SendSetDeviceAddress \/ SendGetConfigDescriptorSize \/
        SendGetConfigDescriptor \/ SendGetProtocol \/ SendStartAccessory \/
        SendSetConfiguration
  OBVIOUS
<1>9. hw' # hw =>
        Initialize \/ TurnOnPower \/ StartSettling \/ SetReset \/
        ResetRecovery \/ ResetComplete \/ HoldInit \/ ResetUSB \/
        TimerInterrupt \/ AttachInterrupt \/ DetachInterrupt \/ Unplug
  OBVIOUS
<1>10. android' # android =>
        Initialize \/ InitClientDrivers \/ AndroidReset \/ ResetUSB
  OBVIOUS
<1>11. bluetooth' # bluetooth =>
        Initialize \/ InitClientDrivers \/ BluetoothReset \/ ResetUSB
  OBVIOUS
<1>12. device' # device =>
        SetReset \/ HoldInit \/ TransferEnds \/ Plug \/ Unplug
  OBVIOUS
<1>13. trouble' # trouble =>
        SetReset \/ GetDeviceDescriptorSizeComplete \/
        GetConfigDescriptorSizeComplete \/ SelectConfiguration \/
        AndroidReset \/ BluetoothReset \/ ResetUSB \/ TransferEnds
  OBVIOUS
<1> HIDE DEF Next, Tasks, Interrupts, rest, enumeration, drivers, Goes, Send,
        ResetDevice, CheckCommandAndEnumerationAttempts, Initialize,
        WaitForPower, TurnOnPower, StartSettling, SettlingDone, SetReset,
        ResetRecovery, ResetComplete, SendGetDeviceDescriptorSize,
        WaitForGetDeviceDescriptorSize, GetDeviceDescriptorSizeComplete,
        SendGetDeviceDescriptor, WaitForGetDeviceDescriptor,
        GetDeviceDescriptorComplete, ValidateVidPid, SendSetDeviceAddress,
        WaitForSetDeviceAddress, SetDeviceAddressComplete, InitConfiguration,
        SendGetConfigDescriptorSize, WaitForGetConfigDescriptorSize,
        GetConfigDescriptorSizeComplete, SendGetConfigDescriptor,
        WaitForGetConfigDescriptor, GetConfigDescriptorComplete,
        SelectConfiguration, SendSetOtg, SkipAccessory, SendGetProtocol,
        WaitForGetProtocol, SendAccessoryStrings, SendStartAccessory,
        WaitForStartAccessory, AccessoryFails, Unsupported,
        SendSetConfiguration, WaitForSetConfiguration,
        SetConfigurationComplete, InitClientDrivers, RequestFails, HoldInit,
        AndroidReset, BluetoothReset, ResetUSB, IssueDeviceRequest,
        TimerInterrupt, AttachInterrupt, DetachInterrupt, TransferEnds, Plug,
        Unplug
<1> QED
  BY <1>1, <1>2, <1>3, <1>4, <1>5, <1>6, <1>7, <1>8, <1>9, <1>10, <1>11,
     <1>12, <1>13

----------------------------------------------------------------------------
(* Types.                                                                  *)

LEMMA HostType == ASSUME TypeOK, Next PROVE host' \in Hosts
<1> USE DEF TypeOK, Hosts, Subs, Place, To, NextSub, NextStep, NoState, After,
        Hold, OutOfMemory, In, At, Now, Goes, Send, Answered, Failed, Shutdown,
        CheckCommandAndEnumerationAttempts
<1>1. CASE Initialize \/ WaitForPower \/ TurnOnPower \/ StartSettling \/ SettlingDone
  BY <1>1 DEF Initialize, WaitForPower, TurnOnPower, StartSettling, SettlingDone
<1>2. CASE SetReset \/ ResetRecovery \/ ResetComplete
  BY <1>2 DEF SetReset, ResetRecovery, ResetComplete
<1>3. CASE \/ SendGetDeviceDescriptorSize \/ WaitForGetDeviceDescriptorSize
           \/ GetDeviceDescriptorSizeComplete \/ SendGetDeviceDescriptor
           \/ WaitForGetDeviceDescriptor \/ GetDeviceDescriptorComplete \/ ValidateVidPid
  BY <1>3 DEF SendGetDeviceDescriptorSize, WaitForGetDeviceDescriptorSize,
     GetDeviceDescriptorSizeComplete, SendGetDeviceDescriptor,
     WaitForGetDeviceDescriptor, GetDeviceDescriptorComplete, ValidateVidPid
<1>4. CASE SendSetDeviceAddress \/ WaitForSetDeviceAddress \/ SetDeviceAddressComplete
  BY <1>4 DEF SendSetDeviceAddress, WaitForSetDeviceAddress, SetDeviceAddressComplete
<1>5. CASE \/ InitConfiguration \/ SendGetConfigDescriptorSize
           \/ WaitForGetConfigDescriptorSize \/ GetConfigDescriptorSizeComplete
           \/ SendGetConfigDescriptor \/ WaitForGetConfigDescriptor
           \/ GetConfigDescriptorComplete
  BY <1>5 DEF InitConfiguration, SendGetConfigDescriptorSize,
     WaitForGetConfigDescriptorSize, GetConfigDescriptorSizeComplete,
     SendGetConfigDescriptor, WaitForGetConfigDescriptor, GetConfigDescriptorComplete
<1>6. CASE SelectConfiguration
  <2>1. host = Place("SELECT_CONFIGURATION", 0) /\ host' \in {NextSub, NextStep}
    BY <1>6 DEF SelectConfiguration
  <2> QED
    BY <2>1
<1>7. CASE \/ SendSetOtg \/ SkipAccessory \/ SendGetProtocol \/ WaitForGetProtocol
           \/ SendAccessoryStrings \/ SendStartAccessory \/ WaitForStartAccessory
           \/ AccessoryFails
  BY <1>7 DEF SendSetOtg, SkipAccessory, SendGetProtocol, WaitForGetProtocol,
     SendAccessoryStrings, SendStartAccessory, WaitForStartAccessory, AccessoryFails
<1>8. CASE \/ Unsupported \/ SendSetConfiguration \/ WaitForSetConfiguration
           \/ SetConfigurationComplete
  BY <1>8 DEF Unsupported, SendSetConfiguration, WaitForSetConfiguration,
     SetConfigurationComplete
<1>9. CASE InitClientDrivers
  <2>1. host' \in {To("NORMAL_RUN"), To("HOLD_INIT")}
    BY <1>9 DEF InitClientDrivers
  <2> QED
    BY <2>1
<1>10. CASE RequestFails \/ HoldInit
  BY <1>10 DEF RequestFails, HoldInit
<1>11. CASE AndroidReset \/ BluetoothReset \/ ResetUSB \/ IssueDeviceRequest
  BY <1>11 DEF AndroidReset, BluetoothReset, ResetDevice, ResetUSB, IssueDeviceRequest
<1>12. CASE Interrupts \/ Plug \/ Unplug
  BY <1>12 DEF Interrupts, TimerInterrupt, AttachInterrupt, DetachInterrupt,
     TransferEnds, Plug, Unplug
<1> HIDE DEF TypeOK, Hosts, Subs, Place, To, NextSub, NextStep, NoState, After,
        Hold, OutOfMemory, In, At, Now, Goes, Send, Answered, Failed, Shutdown,
        CheckCommandAndEnumerationAttempts
<1> QED
  BY <1>1, <1>2, <1>3, <1>4, <1>5, <1>6, <1>7, <1>8, <1>9, <1>10, <1>11, <1>12
     DEF Next, Tasks

----------------------------------------------------------------------------
(* What the steps do to the heap.                                          *)

\* A call that finds the state it left goes on with the device of before.
LEMMA StaysCalm ==
    ASSUME TypeOK, InterruptInv, NEW sub, NEW step, In(sub, step), host.sub \in Attached
    PROVE  Calm
BY DEF TypeOK, InterruptInv, In, Pending, Calm, NoState, To, Hws

LEMMA ShutdownHeap ==
    ASSUME HeapInv(heap), Shutdown
    PROVE  /\ HeapInv(heap') /\ heap'.descriptor = None
           /\ heap'.configs = <<>> /\ heap'.ifaces = <<>>
BY FreeMemoryInv DEF Shutdown

LEMMA SetResetHeap ==
    ASSUME HeapInv(heap), SetReset
    PROVE  /\ HeapInv(heap') /\ heap'.descriptor = heap.descriptor
           /\ heap'.configs = heap.configs /\ heap'.ifaces = heap.ifaces
<1>1. heap' \in {FreeEp0Data(heap), NewEp0Data(FreeEp0Data(heap))}
  BY DEF SetReset
<1>2. /\ HeapInv(FreeEp0Data(heap)) /\ ~FreeEp0Data(heap).ep0data
      /\ FreeEp0Data(heap).descriptor = heap.descriptor
      /\ FreeEp0Data(heap).configs = heap.configs
      /\ FreeEp0Data(heap).ifaces = heap.ifaces
  BY FreeEp0DataInv
<1>3. /\ HeapInv(NewEp0Data(FreeEp0Data(heap)))
      /\ NewEp0Data(FreeEp0Data(heap)).descriptor = heap.descriptor
      /\ NewEp0Data(FreeEp0Data(heap)).configs = heap.configs
      /\ NewEp0Data(FreeEp0Data(heap)).ifaces = heap.ifaces
  BY <1>2, NewEp0DataInv
<1> QED
  BY <1>1, <1>2, <1>3

LEMMA DescriptorHeap ==
    ASSUME MemoryInv, GetDeviceDescriptorSizeComplete
    PROVE  /\ HeapInv(heap') /\ heap'.ifaces = heap.ifaces
           /\ \/ host' = To("GET_DEVICE_DESCRIPTOR") /\ heap'.descriptor = ep0.got
              \/ host' = To("HOLD_INIT")
<1> DEFINE first == NewDescriptor(heap, ep0.got)
<1>1. HeapInv(heap) /\ heap.descriptor = None /\ ep0.got \in Kinds
  BY DEF MemoryInv, DescriptorInv, GetDeviceDescriptorSizeComplete, In, Place,
     TypeOK, Transfers
<1>2. HeapInv(first) /\ first.descriptor = ep0.got /\ first.ifaces = heap.ifaces
  BY <1>1, NewDescriptorInv
<1>3. /\ HeapInv(FreeEp0Data(first)) /\ ~FreeEp0Data(first).ep0data
      /\ FreeEp0Data(first).descriptor = ep0.got
      /\ FreeEp0Data(first).ifaces = heap.ifaces
  BY <1>2, FreeEp0DataInv
<1>4. /\ HeapInv(NewEp0Data(FreeEp0Data(first)))
      /\ NewEp0Data(FreeEp0Data(first)).descriptor = ep0.got
      /\ NewEp0Data(FreeEp0Data(first)).ifaces = heap.ifaces
  BY <1>3, NewEp0DataInv
<1>5. \/ heap' = NewEp0Data(FreeEp0Data(first)) /\ host' = To("GET_DEVICE_DESCRIPTOR")
      \/ heap' \in {FreeEp0Data(first), heap} /\ host' = To("HOLD_INIT")
  BY DEF GetDeviceDescriptorSizeComplete, OutOfMemory, Hold, In, NextSub, After, To
<1> HIDE DEF first
<1> QED
  BY <1>1, <1>3, <1>4, <1>5

LEMMA RereadHeap ==
    ASSUME MemoryInv, WaitForGetDeviceDescriptor
    PROVE  /\ HeapInv(heap') /\ heap'.ifaces = heap.ifaces
           /\ heap'.configs = heap.configs /\ heap'.descriptor = ep0.got
<1>1. /\ HeapInv(heap) /\ heap.descriptor # None /\ ep0.got \in Kinds \union {None}
      /\ ep0.got # None /\ heap' = [heap EXCEPT !.descriptor = ep0.got]
  BY DEF MemoryInv, DescriptorInv, WaitForGetDeviceDescriptor, Answered, In, Place,
     TypeOK, Transfers, TransferInv, Awaits, Retried, Described
<1> QED
  BY <1>1 DEF HeapInv, HeapType, Balanced

LEMMA ConfigsHeap ==
    ASSUME MemoryInv, InitConfiguration
    PROVE  /\ HeapInv(heap') /\ heap'.descriptor = heap.descriptor
           /\ heap'.ifaces = heap.ifaces
           /\ count' \in 1 .. Len(heap.descriptor.configs)
<1>1. HeapInv(heap) /\ heap' = FreeConfigs(heap) /\ heap.descriptor \in Kinds
  BY DEF MemoryInv, DescriptorInv, InitConfiguration, In, Configuring, HeapInv, HeapType
<1>2. Len(heap.descriptor.configs) \in Nat \ {0}
  BY <1>1, UsbHostAssumption DEF Kind
<1> QED
  BY <1>1, <1>2, FreeConfigsInv DEF InitConfiguration

LEMMA NewConfigHeap ==
    ASSUME MemoryInv, GetConfigDescriptorSizeComplete
    PROVE  /\ HeapInv(heap') /\ heap'.descriptor = heap.descriptor
           /\ heap'.ifaces = heap.ifaces
           /\ host' \in {To("GET_CONFIG_DESCRIPTOR"), To("HOLD_INIT")}
<1>1. HeapInv(heap) /\ count \in Nat \ {0}
  BY DEF MemoryInv, DescriptorInv, GetConfigDescriptorSizeComplete, In, Counting, TypeOK
<1>2. [num |-> count, ifs |-> <<>>] \in Config
  BY <1>1 DEF Config
<1>3. /\ heap' \in {heap, NewConfig(heap, [num |-> count, ifs |-> <<>>])}
      /\ host' \in {To("GET_CONFIG_DESCRIPTOR"), To("HOLD_INIT")}
  BY DEF GetConfigDescriptorSizeComplete, OutOfMemory, Hold, In, NextSub, After, To
<1> QED
  BY <1>1, <1>2, <1>3, NewConfigInv

LEMMA ConfigHeap ==
    ASSUME MemoryInv, WaitForGetConfigDescriptor
    PROVE  /\ HeapInv(heap') /\ heap'.descriptor = heap.descriptor
           /\ heap'.ifaces = heap.ifaces
<1> DEFINE ifs == ep0.got.configs[count]
<1>1. Calm /\ HeapInv(heap)
  BY StaysCalm DEF MemoryInv, WaitForGetConfigDescriptor, Answered, In, Attached,
     Enumerating, Configuring, Counting
<1>2. /\ heap.descriptor \in Kinds /\ ep0.got = heap.descriptor
      /\ count \in 1 .. Len(heap.descriptor.configs)
  BY <1>1 DEF MemoryInv, DescriptorInv, WaitForGetConfigDescriptor, Answered, In, Place,
     Enumerating, Configuring, Counting, Awaits, Retried, HeapInv, HeapType
<1>3. ifs \in Seq(Interface)
  BY <1>2, UsbHostAssumption DEF Kind
<1>4. heap' = [heap EXCEPT !.configs = [heap.configs EXCEPT ![1].ifs = ifs]]
  BY <1>1 DEF WaitForGetConfigDescriptor, HeapInv, HeapType
<1> DEFINE configs == [heap.configs EXCEPT ![1].ifs = ifs]
<1>5. configs \in Configs /\ Len(configs) = Len(heap.configs)
  <2>1. heap.configs \in Seq(Config)
    BY <1>1 DEF HeapInv, HeapType, Configs
  <2>2. DOMAIN heap.configs = 1 .. Len(heap.configs) /\ Len(heap.configs) \in Nat
        /\ DOMAIN configs = DOMAIN heap.configs
    BY <2>1
  <2>3. ASSUME NEW n \in 1 .. Len(heap.configs) PROVE configs[n] \in Config
    <3>1. heap.configs[n] \in Config
      BY <2>1, <2>2
    <3> QED
      BY <1>3, <2>2, <3>1 DEF Config
  <2>4. configs \in [1 .. Len(heap.configs) -> Config]
    BY <2>2, <2>3
  <2> HIDE DEF configs
  <2> QED
    BY <2>2, <2>4 DEF Configs
<1> QED
  BY <1>1, <1>4, <1>5 DEF HeapInv, HeapType, Balanced

LEMMA SelectHeap ==
    ASSUME MemoryInv, SelectConfiguration
    PROVE  /\ HeapInv(heap') /\ heap'.descriptor = heap.descriptor
           /\ host = To("SELECT_CONFIGURATION")
           /\ host' \in {To("ENABLE_ACCESSORY"), Place("SELECT_CONFIGURATION", 1)}
           /\ node' \in Nat /\ info' \in Infos
           /\ info'.deviceAddress = info.deviceAddress /\ info'.address = info.address
           /\ node' # 0 => info'.conf # 0
           /\ \A i \in DOMAIN heap'.ifaces :
                 heap'.ifaces[i].driver = IF info'.driver # "none" THEN info'.driver
                                                                   ELSE "AND_INT"
<1>1. /\ HeapInv(heap) /\ TypeOK
      /\ host = To("SELECT_CONFIGURATION")
      /\ host' \in {To("ENABLE_ACCESSORY"), Place("SELECT_CONFIGURATION", 1)}
  <2>1. HeapInv(heap) /\ TypeOK
    BY DEF MemoryInv
  <2>2. host = To("SELECT_CONFIGURATION") /\ host' \in {NextSub, NextStep}
    BY DEF SelectConfiguration, In, To
  <2> QED
    BY <2>1, <2>2 DEF NextSub, NextStep, After, To, Place
<1>2. /\ HeapInv(FreeConfigMemory(heap)) /\ FreeConfigMemory(heap).ifaces = <<>>
      /\ FreeConfigMemory(heap).descriptor = heap.descriptor
  BY <1>1, FreeConfigMemoryInv
<1>3. CASE node' = 0 /\ heap' = FreeConfigMemory(heap) /\ info' = info
  BY <1>1, <1>2, <1>3, EmptyList DEF TypeOK
<1>4. ASSUME NEW n \in DOMAIN heap.configs,
             node' = n, info' = [info EXCEPT !.conf = heap.configs[n].num],
             heap' = NewIfaces(FreeConfigMemory(heap), Claimed(heap.configs[n].ifs))
      PROVE  /\ HeapInv(heap') /\ heap'.descriptor = heap.descriptor
             /\ node' \in Nat /\ info' \in Infos
             /\ info'.deviceAddress = info.deviceAddress /\ info'.address = info.address
             /\ info'.conf # 0
             /\ \A i \in DOMAIN heap'.ifaces :
                 heap'.ifaces[i].driver = IF info'.driver # "none" THEN info'.driver
                                                                   ELSE "AND_INT"
  <2> DEFINE ifs == heap.configs[n].ifs
  <2>1. n \in Nat /\ heap.configs[n] \in Config
    BY <1>1, <1>4 DEF HeapInv, HeapType, Configs
  <2>2. ifs \in Seq(Interface) /\ heap.configs[n].num \in Nat \ {0}
    BY <2>1 DEF Config
  <2>3. /\ info' \in Infos /\ info'.conf = heap.configs[n].num
        /\ info'.driver = info.driver
        /\ info'.deviceAddress = info.deviceAddress /\ info'.address = info.address
    BY <1>1, <1>4, <2>2 DEF TypeOK, Infos
  <2>4. /\ Claimed(ifs) \in [DOMAIN Claimed(ifs) -> Claim]
        /\ IsFiniteSet(DOMAIN Claimed(ifs))
        /\ \A i \in DOMAIN Claimed(ifs) :
              Claimed(ifs)[i].driver =
                 IF info.driver # "none" THEN info.driver ELSE "AND_INT"
    BY <1>1, <2>2, ClaimedType
  <2>5. /\ HeapInv(heap') /\ heap'.ifaces = Claimed(ifs)
        /\ heap'.descriptor = heap.descriptor
    BY <1>2, <1>4, <2>4, NewIfacesInv
  <2> QED
    BY <1>4, <2>1, <2>2, <2>3, <2>4, <2>5
<1>5. \/ node' = 0 /\ heap' = FreeConfigMemory(heap) /\ info' = info
      \/ \E n \in DOMAIN heap.configs :
           /\ node' = n /\ info' = [info EXCEPT !.conf = heap.configs[n].num]
           /\ heap' = NewIfaces(FreeConfigMemory(heap), Claimed(heap.configs[n].ifs))
  BY DEF SelectConfiguration, Parsed
<1> QED
  BY <1>1, <1>3, <1>4, <1>5

----------------------------------------------------------------------------
(* Every step keeps the types.                                             *)

LEMMA HeapKept ==
    ASSUME MemoryInv, Next PROVE HeapInv(heap')
<1>1. CASE Initialize \/ ResetUSB
  BY <1>1, ShutdownHeap DEF Initialize, ResetUSB, MemoryInv
<1>2. CASE SetReset
  BY <1>2, SetResetHeap DEF MemoryInv
<1>3. CASE SendGetDeviceDescriptorSize
  BY <1>3, FreeDescriptorInv DEF SendGetDeviceDescriptorSize, MemoryInv
<1>4. CASE GetDeviceDescriptorSizeComplete
  BY <1>4, DescriptorHeap
<1>5. CASE WaitForGetDeviceDescriptor
  BY <1>5, RereadHeap
<1>6. CASE InitConfiguration
  BY <1>6, ConfigsHeap
<1>7. CASE GetConfigDescriptorSizeComplete
  BY <1>7, NewConfigHeap
<1>8. CASE WaitForGetConfigDescriptor
  BY <1>8, ConfigHeap
<1>9. CASE SelectConfiguration
  BY <1>9, SelectHeap
<1> QED
  BY <1>1, <1>2, <1>3, <1>4, <1>5, <1>6, <1>7, <1>8, <1>9, Changes DEF MemoryInv

LEMMA InfoType == ASSUME MemoryInv, Next PROVE info' \in Infos
<1> USE DEF MemoryInv, TypeOK, Infos
<1>1. CASE Initialize
  BY <1>1 DEF Initialize, Interfaces
<1>2. CASE SetReset
  <2>1. info' \in {info, AfterReset(info)}
    BY <1>2 DEF SetReset
  <2>2. AfterReset(info) \in Infos /\ info \in Infos
    BY DEF AfterReset, Interfaces
  <2> HIDE DEF Infos, TypeOK, MemoryInv
  <2> QED
    BY <2>1, <2>2
<1>3. CASE ValidateVidPid
  BY <1>3, FoundDriver DEF ValidateVidPid, FindDeviceLevelClientDriver, Interfaces
<1>4. CASE SendSetDeviceAddress
  BY <1>4 DEF SendSetDeviceAddress
<1>5. CASE SetDeviceAddressComplete
  BY <1>5 DEF SetDeviceAddressComplete
<1>6. CASE SelectConfiguration
  BY <1>6, SelectHeap
<1>7. CASE ResetUSB
  BY <1>7 DEF ResetUSB
<1> HIDE DEF MemoryInv, TypeOK, Infos
<1> QED
  BY <1>1, <1>2, <1>3, <1>4, <1>5, <1>6, <1>7, Changes DEF MemoryInv, TypeOK

LEMMA Ep0Type == ASSUME TypeOK, Next PROVE ep0' \in Transfers
<1> USE DEF TypeOK, Transfers, Requests, Request, Send
<1>1. CASE Initialize
  BY <1>1 DEF Initialize, Idle
<1>2. CASE IssueDeviceRequest
  BY <1>2 DEF IssueDeviceRequest
<1>3. CASE TransferEnds
  BY <1>3 DEF TransferEnds, Devices
<1>4. CASE SendGetDeviceDescriptorSize \/ SendGetDeviceDescriptor \/ SendSetDeviceAddress
  BY <1>4 DEF SendGetDeviceDescriptorSize, SendGetDeviceDescriptor, SendSetDeviceAddress
<1>5. CASE SendGetConfigDescriptorSize \/ SendGetConfigDescriptor \/ SendSetConfiguration
  BY <1>5 DEF SendGetConfigDescriptorSize, SendGetConfigDescriptor, SendSetConfiguration
<1>6. CASE SendGetProtocol \/ SendStartAccessory
  BY <1>6 DEF SendGetProtocol, SendStartAccessory
<1> HIDE DEF TypeOK, Transfers, Requests, Request, Send
<1> QED
  BY <1>1, <1>2, <1>3, <1>4, <1>5, <1>6, Changes DEF TypeOK

LEMMA HwType == ASSUME TypeOK, Next PROVE hw' \in Hws
<1> USE DEF TypeOK, Hws, Off
<1>1. CASE Initialize
  BY <1>1 DEF Initialize
<1>5. CASE HoldInit
  BY <1>5 DEF HoldInit
<1>4. CASE TurnOnPower \/ ResetUSB
  BY <1>4 DEF TurnOnPower, ResetUSB
<1>2. CASE StartSettling \/ SetReset \/ ResetRecovery \/ ResetComplete
  BY <1>2 DEF StartSettling, SetReset, ResetRecovery, ResetComplete
<1>3. CASE TimerInterrupt \/ AttachInterrupt \/ DetachInterrupt \/ Unplug
  BY <1>3 DEF TimerInterrupt, AttachInterrupt, DetachInterrupt, Unplug
<1> HIDE DEF TypeOK, Hws, Off
<1> QED
  BY <1>1, <1>2, <1>3, <1>4, <1>5, Changes DEF TypeOK

LEMMA DriverTypes ==
    ASSUME MemoryInv, Next PROVE android' \in Androids /\ bluetooth' \in Bluetooths
<1> USE DEF MemoryInv, TypeOK, Androids, Bluetooths, NoAndroid, NoBluetooth
<1>1. CASE Initialize \/ ResetUSB
  <2>1. android' \in {android, NoAndroid} /\ bluetooth' \in {bluetooth, NoBluetooth}
    BY <1>1 DEF Initialize, ResetUSB, Shutdown, NotifyDetach, AndroidDetached,
       BluetoothDetached
  <2>2. /\ {android, NoAndroid} \subseteq Androids
        /\ {bluetooth, NoBluetooth} \subseteq Bluetooths
    OBVIOUS
  <2> HIDE DEF MemoryInv, TypeOK, Androids, Bluetooths, NoAndroid, NoBluetooth
  <2> QED
    BY <2>1, <2>2
<1>2. CASE InitClientDrivers
  <2>1. Whole \subseteq DOMAIN heap.ifaces
    BY DEF Whole
  <2>2. {heap.ifaces[i].num : i \in Whole} \subseteq {0, 1}
    BY <2>1 DEF HeapInv, HeapType, Claim
  <2>3. AndroidInitInterface \in Androids /\ AndroidInitDevice \in Androids
    BY <2>2 DEF AndroidInitInterface, AndroidInitDevice, AndroidInitInterfaces,
       AdbInterface, Infos
  <2>4. \A fine \in BOOLEAN : BluetoothInit(fine) \in Bluetooths
    BY DEF BluetoothInit, Infos
  <2>5. /\ android' \in {android, AndroidInitInterface, AndroidInitDevice}
        /\ bluetooth' \in {bluetooth, BluetoothInit(TRUE), BluetoothInit(FALSE)}
    <3>1. android' \in {android, AndroidInitInterface, AndroidInitDevice}
      BY <1>2 DEF InitClientDrivers
    <3>2. CASE info.driver = "BT_DEV"
      <4>1. bluetooth' = BluetoothInit(Whole # {})
        BY <1>2, <3>2 DEF InitClientDrivers
      <4> QED
        BY <3>1, <4>1
    <3>3. CASE info.driver # "BT_DEV"
      BY <1>2, <3>1, <3>3 DEF InitClientDrivers
    <3> QED
      BY <3>2, <3>3
  <2> HIDE DEF Androids, Bluetooths
  <2> QED
    BY <2>3, <2>4, <2>5
<1>3. CASE AndroidReset \/ BluetoothReset
  <2>1. android' \in {android, NoAndroid} /\ bluetooth' \in {bluetooth, NoBluetooth}
    BY <1>3 DEF AndroidReset, BluetoothReset
  <2>2. /\ {android, NoAndroid} \subseteq Androids
        /\ {bluetooth, NoBluetooth} \subseteq Bluetooths
    OBVIOUS
  <2> HIDE DEF MemoryInv, TypeOK, Androids, Bluetooths, NoAndroid, NoBluetooth
  <2> QED
    BY <2>1, <2>2
<1> HIDE DEF TypeOK, Androids, Bluetooths, NoAndroid, NoBluetooth
<1> QED
  BY <1>1, <1>2, <1>3, Changes DEF TypeOK

LEMMA DeviceType == ASSUME TypeOK, Next PROVE device' \in Devices
<1> USE DEF TypeOK, Devices
<1>1. CASE SetReset
  <2>1. device' \in {device, [device EXCEPT !.addr = 0, !.conf = 0]}
    BY <1>1 DEF SetReset
  <2>2. [device EXCEPT !.addr = 0, !.conf = 0] \in Devices /\ device \in Devices
    OBVIOUS
  <2> HIDE DEF Devices, TypeOK
  <2> QED
    BY <2>1, <2>2
<1>2. CASE TransferEnds
  BY <1>2 DEF TransferEnds, Obeys, Infos
<1>3. CASE Plug \/ Unplug \/ HoldInit
  BY <1>3 DEF Plug, Unplug, HoldInit, Unplugged
<1> HIDE DEF Devices
<1> QED
  BY <1>1, <1>2, <1>3, Changes

LEMMA CounterTypes ==
    ASSUME MemoryInv, Next
    PROVE  /\ tries' \in [command : Int, enumeration : Int]
           /\ node' \in Nat /\ count' \in Nat /\ trouble' \in Nat
<1> USE DEF MemoryInv, TypeOK
<1>1. tries' \in [command : Int, enumeration : Int]
  <2>1. CASE Initialize \/ SetReset \/ RequestFails
    BY <2>1, UsbHostAssumption DEF Initialize, SetReset, RequestFails,
       CheckCommandAndEnumerationAttempts
  <2>2. CASE \/ GetDeviceDescriptorSizeComplete \/ GetDeviceDescriptorComplete
             \/ SetDeviceAddressComplete
    BY <2>2, UsbHostAssumption DEF InitErrorCounters, GetDeviceDescriptorSizeComplete,
       GetDeviceDescriptorComplete, SetDeviceAddressComplete
  <2>3. CASE \/ GetConfigDescriptorSizeComplete \/ GetConfigDescriptorComplete
             \/ SetConfigurationComplete
    BY <2>3, UsbHostAssumption DEF InitErrorCounters, GetConfigDescriptorSizeComplete,
       GetConfigDescriptorComplete, SetConfigurationComplete
  <2> QED
    BY <2>1, <2>2, <2>3, Changes
<1>2. node' \in Nat
  <2>1. CASE Initialize
    BY <2>1 DEF Initialize
  <2>2. CASE SelectConfiguration
    BY <2>2, SelectHeap
  <2> QED
    BY <2>1, <2>2, Changes
<1>3. count' \in Nat
  <2>1. CASE Initialize
    BY <2>1 DEF Initialize
  <2>2. CASE InitConfiguration
    BY <2>2, ConfigsHeap
  <2>3. CASE GetConfigDescriptorComplete
    BY <2>3 DEF GetConfigDescriptorComplete, In, DescriptorInv, Configuring, Counting
  <2> QED
    BY <2>1, <2>2, <2>3, Changes
<1>4. trouble' \in Nat
  <2>1. trouble' # trouble => trouble' = trouble + 1
    <3>1. CASE \/ SetReset \/ GetDeviceDescriptorSizeComplete
               \/ GetConfigDescriptorSizeComplete \/ SelectConfiguration
      BY <3>1 DEF Malloc, Trouble, SetReset, GetDeviceDescriptorSizeComplete,
         GetConfigDescriptorSizeComplete, SelectConfiguration
    <3>2. CASE AndroidReset \/ BluetoothReset \/ ResetUSB \/ TransferEnds
      BY <3>2 DEF Trouble, AndroidReset, BluetoothReset, ResetDevice, ResetUSB, TransferEnds
    <3> QED
      BY <3>1, <3>2, Changes
  <2> QED
    BY <2>1
<1> QED
  BY <1>1, <1>2, <1>3, <1>4

LEMMA StateTypes ==
    ASSUME TypeOK, Next
    PROVE  /\ override' \in {NoState, To("SETTLE"), To("INITIALIZE")}
           /\ errorCode' \in {"none", "stale", "OUT_OF_MEMORY", "CANNOT_ENUMERATE",
                              "UNSUPPORTED_HUB", "UNSUPPORTED_DEVICE", "CLIENT_INIT_ERROR"}
<1>1. override' \in {NoState, To("SETTLE"), To("INITIALIZE")}
  <2>1. CASE Initialize \/ StartSettling \/ ResetUSB \/ AttachInterrupt \/ DetachInterrupt
    BY <2>1 DEF TypeOK, Initialize, StartSettling, ResetUSB, Shutdown, AttachInterrupt,
       DetachInterrupt
  <2> QED
    BY <2>1, Changes DEF TypeOK
<1>2. errorCode' # errorCode =>
        errorCode' \in {"none", "stale", "OUT_OF_MEMORY", "CANNOT_ENUMERATE",
                        "UNSUPPORTED_HUB", "UNSUPPORTED_DEVICE", "CLIENT_INIT_ERROR"}
  <2>1. CASE Initialize \/ SetReset \/ WaitForGetDeviceDescriptorSize
    BY <2>1 DEF Hold, OutOfMemory, Initialize, SetReset, WaitForGetDeviceDescriptorSize
  <2>2. CASE GetDeviceDescriptorSizeComplete \/ GetConfigDescriptorSizeComplete
    BY <2>2 DEF Hold, OutOfMemory, GetDeviceDescriptorSizeComplete,
       GetConfigDescriptorSizeComplete
  <2>3. CASE Unsupported \/ InitClientDrivers
    BY <2>3 DEF Hold, Unsupported, InitClientDrivers
  <2>4. CASE RequestFails
    BY <2>4 DEF Hold, RequestFails, CheckCommandAndEnumerationAttempts
  <2> QED
    BY <2>1, <2>2, <2>3, <2>4, Changes
<1> QED
  BY <1>1, <1>2 DEF TypeOK

LEMMA TypesKept == ASSUME MemoryInv, Next PROVE TypeOK'
BY HostType, StateTypes, CounterTypes, InfoType, Ep0Type, HwType, DriverTypes, DeviceType
   DEF MemoryInv, TypeOK

\* The interrupts that can come are those of the substate.
LEMMA InterruptKept ==
    ASSUME MemoryInv, Next PROVE InterruptInv'
<1> USE DEF Subs, Unattached, Reading, Described, Counting, Selected,
        Configuring, Enumerating, Settled, Attached, rest, drivers,
        enumeration, To, NextSub, NextStep, NoState, Hold, Place, In, At, Now,
        Pending, Goes, Send, Answered, Failed, Request, After, OutOfMemory,
        Malloc, Trouble, CheckCommandAndEnumerationAttempts,
        InitErrorCounters, TypeOK, Hws, Hosts, InterruptInv, MemoryInv
<1>1. CASE Initialize
  BY <1>1 DEF Initialize, Shutdown, NotifyDetach, Idle, Off, AndroidDetached,
     BluetoothDetached, NoAndroid, NoBluetooth
<1>2. CASE WaitForPower
  BY <1>2 DEF WaitForPower
<1>3. CASE TurnOnPower
  BY <1>3 DEF TurnOnPower
<1>4. CASE StartSettling
  BY <1>4 DEF StartSettling
<1>5. CASE SettlingDone
  BY <1>5 DEF SettlingDone
<1>6. CASE SetReset
  BY <1>6 DEF SetReset, AfterReset
<1>7. CASE ResetRecovery
  BY <1>7 DEF ResetRecovery
<1>8. CASE ResetComplete
  BY <1>8 DEF ResetComplete
<1>9. CASE SendGetDeviceDescriptorSize
  BY <1>9 DEF SendGetDeviceDescriptorSize
<1>10. CASE WaitForGetDeviceDescriptorSize
  BY <1>10 DEF WaitForGetDeviceDescriptorSize
<1>11. CASE GetDeviceDescriptorSizeComplete
  BY <1>11 DEF GetDeviceDescriptorSizeComplete
<1>12. CASE SendGetDeviceDescriptor
  BY <1>12 DEF SendGetDeviceDescriptor
<1>13. CASE WaitForGetDeviceDescriptor
  BY <1>13 DEF WaitForGetDeviceDescriptor
<1>14. CASE GetDeviceDescriptorComplete
  BY <1>14 DEF GetDeviceDescriptorComplete
<1>15. CASE ValidateVidPid
  BY <1>15 DEF ValidateVidPid
<1>16. CASE SendSetDeviceAddress
  BY <1>16 DEF SendSetDeviceAddress
<1>17. CASE WaitForSetDeviceAddress
  BY <1>17 DEF WaitForSetDeviceAddress
<1>18. CASE SetDeviceAddressComplete
  BY <1>18 DEF SetDeviceAddressComplete
<1>19. CASE InitConfiguration
  BY <1>19 DEF InitConfiguration
<1>20. CASE SendGetConfigDescriptorSize
  BY <1>20 DEF SendGetConfigDescriptorSize
<1>21. CASE WaitForGetConfigDescriptorSize
  BY <1>21 DEF WaitForGetConfigDescriptorSize
<1>22. CASE GetConfigDescriptorSizeComplete
  BY <1>22 DEF GetConfigDescriptorSizeComplete
<1>23. CASE SendGetConfigDescriptor
  BY <1>23 DEF SendGetConfigDescriptor
<1>24. CASE WaitForGetConfigDescriptor
  BY <1>24 DEF WaitForGetConfigDescriptor
<1>25. CASE GetConfigDescriptorComplete
  BY <1>25 DEF GetConfigDescriptorComplete
<1>26. CASE SelectConfiguration
  <2>1. /\ host = To("SELECT_CONFIGURATION") /\ UNCHANGED <<override, hw>>
        /\ host' \in {To("ENABLE_ACCESSORY"), Place("SELECT_CONFIGURATION", 1)}
    BY <1>26, SelectHeap DEF SelectConfiguration
  <2> QED
    BY <2>1
<1>27. CASE SendSetOtg
  BY <1>27 DEF SendSetOtg
<1>28. CASE SkipAccessory
  BY <1>28 DEF SkipAccessory
<1>29. CASE SendGetProtocol
  BY <1>29 DEF SendGetProtocol
<1>30. CASE WaitForGetProtocol
  BY <1>30 DEF WaitForGetProtocol
<1>31. CASE SendAccessoryStrings
  BY <1>31 DEF SendAccessoryStrings
<1>32. CASE SendStartAccessory
  BY <1>32 DEF SendStartAccessory
<1>33. CASE WaitForStartAccessory
  BY <1>33 DEF WaitForStartAccessory
<1>34. CASE AccessoryFails
  BY <1>34 DEF AccessoryFails
<1>35. CASE Unsupported
  BY <1>35 DEF Unsupported
<1>36. CASE SendSetConfiguration
  BY <1>36 DEF SendSetConfiguration
<1>37. CASE WaitForSetConfiguration
  BY <1>37 DEF WaitForSetConfiguration
<1>38. CASE SetConfigurationComplete
  BY <1>38 DEF SetConfigurationComplete
<1>39. CASE InitClientDrivers
  BY <1>39 DEF InitClientDrivers, AndroidInitDevice, AndroidInitInterface,
     AndroidInitInterfaces, BluetoothInit, NoAndroid, Whole, AdbInterface
<1>40. CASE RequestFails
  BY <1>40 DEF RequestFails
<1>41. CASE HoldInit
  BY <1>41 DEF HoldInit, Off
<1>42. CASE AndroidReset
  BY <1>42 DEF AndroidReset, ResetDevice, NoAndroid, DriverInv, Androids
<1>43. CASE BluetoothReset
  BY <1>43 DEF BluetoothReset, ResetDevice, NoBluetooth, DriverInv, Bluetooths
<1>44. CASE ResetUSB
  BY <1>44 DEF ResetUSB, Shutdown, NotifyDetach, AndroidDetached,
     BluetoothDetached, NoAndroid, NoBluetooth
<1>45. CASE IssueDeviceRequest
  BY <1>45 DEF IssueDeviceRequest
<1>46. CASE TimerInterrupt
  BY <1>46 DEF TimerInterrupt
<1>47. CASE AttachInterrupt
  BY <1>47 DEF AttachInterrupt
<1>48. CASE DetachInterrupt
  BY <1>48 DEF DetachInterrupt
<1>49. CASE TransferEnds
  BY <1>49 DEF TransferEnds, Answers, Refuses, Obeys
<1>50. CASE Plug
  BY <1>50 DEF Plug, Unplugged
<1>51. CASE Unplug
  BY <1>51 DEF Unplug, Unplugged
<1> HIDE DEF Subs, Unattached, Reading, Described, Counting, Selected,
        Configuring, Enumerating, Settled, Attached, rest, drivers,
        enumeration, To, NextSub, NextStep, NoState, Hold, Place, In, At, Now,
        Pending, Goes, Send, Answered, Failed, Request, After, OutOfMemory,
        Malloc, Trouble, CheckCommandAndEnumerationAttempts,
        InitErrorCounters, TypeOK, Hws, Hosts, InterruptInv, MemoryInv
<1> QED
  BY <1>1, <1>2, <1>3, <1>4, <1>5, <1>6, <1>7, <1>8, <1>9, <1>10, <1>11,
     <1>12, <1>13, <1>14, <1>15, <1>16, <1>17, <1>18, <1>19, <1>20, <1>21,
     <1>22, <1>23, <1>24, <1>25, <1>26, <1>27, <1>28, <1>29, <1>30, <1>31,
     <1>32, <1>33, <1>34, <1>35, <1>36, <1>37, <1>38, <1>39, <1>40, <1>41,
     <1>42, <1>43, <1>44, <1>45, <1>46, <1>47, <1>48, <1>49, <1>50, <1>51 DEF
     Next, Tasks, Interrupts

\* The transfer is the one the substate awaits.
LEMMA TransferKept ==
    ASSUME MemoryInv, Next PROVE TransferInv'
<1> USE DEF Subs, Unattached, Reading, Described, Counting, Selected,
        Configuring, Enumerating, Settled, Attached, rest, drivers,
        enumeration, To, NextSub, NextStep, NoState, Hold, Place, In, At, Now,
        Pending, Goes, Send, Answered, Failed, Request, After, OutOfMemory,
        Malloc, Trouble, CheckCommandAndEnumerationAttempts,
        InitErrorCounters, Retried, Awaits, TypeOK, Transfers, Hosts,
        TransferInv, MemoryInv
<1>1. CASE Initialize
  BY <1>1 DEF Initialize, Shutdown, NotifyDetach, Idle, Off, AndroidDetached,
     BluetoothDetached, NoAndroid, NoBluetooth
<1>2. CASE WaitForPower
  BY <1>2 DEF WaitForPower
<1>3. CASE TurnOnPower
  BY <1>3 DEF TurnOnPower
<1>4. CASE StartSettling
  BY <1>4 DEF StartSettling, InterruptInv
<1>5. CASE SettlingDone
  BY <1>5 DEF SettlingDone
<1>6. CASE SetReset
  BY <1>6 DEF SetReset, AfterReset
<1>7. CASE ResetRecovery
  BY <1>7 DEF ResetRecovery
<1>8. CASE ResetComplete
  BY <1>8 DEF ResetComplete
<1>9. CASE SendGetDeviceDescriptorSize
  BY <1>9 DEF SendGetDeviceDescriptorSize
<1>10. CASE WaitForGetDeviceDescriptorSize
  BY <1>10 DEF WaitForGetDeviceDescriptorSize
<1>11. CASE GetDeviceDescriptorSizeComplete
  BY <1>11 DEF GetDeviceDescriptorSizeComplete
<1>12. CASE SendGetDeviceDescriptor
  BY <1>12 DEF SendGetDeviceDescriptor
<1>13. CASE WaitForGetDeviceDescriptor
  BY <1>13 DEF WaitForGetDeviceDescriptor
<1>14. CASE GetDeviceDescriptorComplete
  BY <1>14 DEF GetDeviceDescriptorComplete
<1>15. CASE ValidateVidPid
  BY <1>15 DEF ValidateVidPid
<1>16. CASE SendSetDeviceAddress
  BY <1>16 DEF SendSetDeviceAddress
<1>17. CASE WaitForSetDeviceAddress
  BY <1>17 DEF WaitForSetDeviceAddress
<1>18. CASE SetDeviceAddressComplete
  BY <1>18 DEF SetDeviceAddressComplete
<1>19. CASE InitConfiguration
  BY <1>19 DEF InitConfiguration
<1>20. CASE SendGetConfigDescriptorSize
  BY <1>20 DEF SendGetConfigDescriptorSize
<1>21. CASE WaitForGetConfigDescriptorSize
  BY <1>21 DEF WaitForGetConfigDescriptorSize
<1>22. CASE GetConfigDescriptorSizeComplete
  BY <1>22 DEF GetConfigDescriptorSizeComplete
<1>23. CASE SendGetConfigDescriptor
  BY <1>23 DEF SendGetConfigDescriptor
<1>24. CASE WaitForGetConfigDescriptor
  BY <1>24 DEF WaitForGetConfigDescriptor
<1>25. CASE GetConfigDescriptorComplete
  BY <1>25 DEF GetConfigDescriptorComplete
<1>26. CASE SelectConfiguration
  <2>1. /\ host = To("SELECT_CONFIGURATION") /\ UNCHANGED ep0
        /\ host' \in {To("ENABLE_ACCESSORY"), Place("SELECT_CONFIGURATION", 1)}
    BY <1>26, SelectHeap DEF SelectConfiguration
  <2> QED
    BY <2>1
<1>27. CASE SendSetOtg
  BY <1>27 DEF SendSetOtg
<1>28. CASE SkipAccessory
  BY <1>28 DEF SkipAccessory
<1>29. CASE SendGetProtocol
  BY <1>29 DEF SendGetProtocol
<1>30. CASE WaitForGetProtocol
  BY <1>30 DEF WaitForGetProtocol
<1>31. CASE SendAccessoryStrings
  BY <1>31 DEF SendAccessoryStrings
<1>32. CASE SendStartAccessory
  BY <1>32 DEF SendStartAccessory
<1>33. CASE WaitForStartAccessory
  BY <1>33 DEF WaitForStartAccessory
<1>34. CASE AccessoryFails
  BY <1>34 DEF AccessoryFails
<1>35. CASE Unsupported
  BY <1>35 DEF Unsupported
<1>36. CASE SendSetConfiguration
  BY <1>36 DEF SendSetConfiguration
<1>37. CASE WaitForSetConfiguration
  BY <1>37 DEF WaitForSetConfiguration
<1>38. CASE SetConfigurationComplete
  BY <1>38 DEF SetConfigurationComplete
<1>39. CASE InitClientDrivers
  BY <1>39 DEF InitClientDrivers, AndroidInitDevice, AndroidInitInterface,
     AndroidInitInterfaces, BluetoothInit, NoAndroid, Whole, AdbInterface
<1>40. CASE RequestFails
  BY <1>40 DEF RequestFails
<1>41. CASE HoldInit
  BY <1>41 DEF HoldInit, Off
<1>42. CASE AndroidReset
  BY <1>42 DEF AndroidReset, ResetDevice, NoAndroid
<1>43. CASE BluetoothReset
  BY <1>43 DEF BluetoothReset, ResetDevice, NoBluetooth
<1>44. CASE ResetUSB
  BY <1>44 DEF ResetUSB, Shutdown, NotifyDetach, AndroidDetached,
     BluetoothDetached, NoAndroid, NoBluetooth
<1>45. CASE IssueDeviceRequest
  BY <1>45, StateOfSub DEF IssueDeviceRequest
<1>46. CASE TimerInterrupt
  BY <1>46 DEF TimerInterrupt, InterruptInv
<1>47. CASE AttachInterrupt
  BY <1>47 DEF AttachInterrupt
<1>48. CASE DetachInterrupt
  BY <1>48 DEF DetachInterrupt
<1>49. CASE TransferEnds
  BY <1>49 DEF TransferEnds, Answers, Refuses, Obeys
<1>50. CASE Plug
  BY <1>50 DEF Plug, Unplugged
<1>51. CASE Unplug
  BY <1>51 DEF Unplug, Unplugged
<1> HIDE DEF Subs, Unattached, Reading, Described, Counting, Selected,
        Configuring, Enumerating, Settled, Attached, rest, drivers,
        enumeration, To, NextSub, NextStep, NoState, Hold, Place, In, At, Now,
        Pending, Goes, Send, Answered, Failed, Request, After, OutOfMemory,
        Malloc, Trouble, CheckCommandAndEnumerationAttempts,
        InitErrorCounters, Retried, Awaits, TypeOK, Transfers, Hosts,
        TransferInv, MemoryInv
<1> QED
  BY <1>1, <1>2, <1>3, <1>4, <1>5, <1>6, <1>7, <1>8, <1>9, <1>10, <1>11,
     <1>12, <1>13, <1>14, <1>15, <1>16, <1>17, <1>18, <1>19, <1>20, <1>21,
     <1>22, <1>23, <1>24, <1>25, <1>26, <1>27, <1>28, <1>29, <1>30, <1>31,
     <1>32, <1>33, <1>34, <1>35, <1>36, <1>37, <1>38, <1>39, <1>40, <1>41,
     <1>42, <1>43, <1>44, <1>45, <1>46, <1>47, <1>48, <1>49, <1>50, <1>51 DEF
     Next, Tasks, Interrupts

\* What was read is of the device that is there, as long as none has left.
LEMMA DescriptorKept ==
    ASSUME MemoryInv, Next PROVE DescriptorInv'
<1> USE DEF Subs, Unattached, Reading, Described, Counting, Selected,
        Configuring, Enumerating, Settled, Attached, Calm, Retried, Awaits,
        rest, drivers, enumeration, To, NextSub, NextStep, NoState, Hold,
        Place, In, At, Now, Pending, Goes, Send, Answered, Failed, Request,
        After, OutOfMemory, Malloc, Trouble,
        CheckCommandAndEnumerationAttempts, InitErrorCounters, TypeOK,
        Transfers, Hosts, Hws, DescriptorInv, MemoryInv
<1>1. CASE Initialize
  BY <1>1, ShutdownHeap DEF Initialize, Shutdown, NotifyDetach, Idle, Off,
     AndroidDetached, BluetoothDetached, NoAndroid, NoBluetooth
<1>2. CASE WaitForPower
  BY <1>2 DEF WaitForPower
<1>3. CASE TurnOnPower
  BY <1>3 DEF TurnOnPower
<1>4. CASE StartSettling
  BY <1>4 DEF StartSettling, InterruptInv
<1>5. CASE SettlingDone
  BY <1>5 DEF SettlingDone
<1>6. CASE SetReset
  <2>1. /\ host = To("RESET_DEVICE")
        /\ host' \in {Place("RESET_DEVICE", 1), To("HOLD_INIT")}
        /\ UNCHANGED <<ep0, override>>
    BY <1>6 DEF SetReset
  <2>3. hw'.detachIF = hw.detachIF /\ device'.kind = device.kind
    <3>1. /\ hw' = hw \/ hw' = [hw EXCEPT !.timer = TRUE]
          /\ device' = device \/ device' = [device EXCEPT !.addr = 0, !.conf = 0]
      BY <1>6 DEF SetReset
    <3> QED
      BY <3>1 DEF Devices
  <2>2. heap'.descriptor = heap.descriptor
    BY <1>6, SetResetHeap
  <2> QED
    BY <2>1, <2>2, <2>3
<1>7. CASE ResetRecovery
  BY <1>7 DEF ResetRecovery
<1>8. CASE ResetComplete
  BY <1>8 DEF ResetComplete
<1>9. CASE SendGetDeviceDescriptorSize
  BY <1>9, FreeDescriptorInv DEF SendGetDeviceDescriptorSize
<1>10. CASE WaitForGetDeviceDescriptorSize
  BY <1>10 DEF WaitForGetDeviceDescriptorSize, TransferInv
<1>11. CASE GetDeviceDescriptorSizeComplete
  <2>1. /\ host = Place("GET_DEVICE_DESCRIPTOR_SIZE", 2)
        /\ UNCHANGED <<ep0, override, hw, device>>
    BY <1>11 DEF GetDeviceDescriptorSizeComplete
  <2>2. /\ \/ host' = To("GET_DEVICE_DESCRIPTOR") /\ heap'.descriptor = ep0.got
           \/ host' = To("HOLD_INIT")
    BY <1>11, DescriptorHeap
  <2> QED
    BY <2>1, <2>2
<1>12. CASE SendGetDeviceDescriptor
  BY <1>12 DEF SendGetDeviceDescriptor
<1>13. CASE WaitForGetDeviceDescriptor
  BY <1>13, RereadHeap DEF WaitForGetDeviceDescriptor, TransferInv
<1>14. CASE GetDeviceDescriptorComplete
  BY <1>14 DEF GetDeviceDescriptorComplete
<1>15. CASE ValidateVidPid
  BY <1>15 DEF ValidateVidPid
<1>16. CASE SendSetDeviceAddress
  BY <1>16 DEF SendSetDeviceAddress
<1>17. CASE WaitForSetDeviceAddress
  BY <1>17 DEF WaitForSetDeviceAddress
<1>18. CASE SetDeviceAddressComplete
  BY <1>18 DEF SetDeviceAddressComplete
<1>19. CASE InitConfiguration
  <2>1. /\ host = To("INIT_CONFIGURATION")
        /\ host' = To("GET_CONFIG_DESCRIPTOR_SIZE")
        /\ UNCHANGED <<ep0, override, hw, device>>
    BY <1>19 DEF InitConfiguration
  <2>2. heap'.descriptor = heap.descriptor /\ count' \in 1 .. Len(heap.descriptor.configs)
    BY <1>19, ConfigsHeap
  <2> QED
    BY <2>1, <2>2
<1>20. CASE SendGetConfigDescriptorSize
  BY <1>20 DEF SendGetConfigDescriptorSize
<1>21. CASE WaitForGetConfigDescriptorSize
  BY <1>21 DEF WaitForGetConfigDescriptorSize
<1>22. CASE GetConfigDescriptorSizeComplete
  <2>1. /\ host = Place("GET_CONFIG_DESCRIPTOR_SIZE", 2)
        /\ UNCHANGED <<ep0, override, hw, device, count>>
    BY <1>22 DEF GetConfigDescriptorSizeComplete
  <2>2. /\ heap'.descriptor = heap.descriptor
        /\ host' \in {To("GET_CONFIG_DESCRIPTOR"), To("HOLD_INIT")}
    BY <1>22, NewConfigHeap
  <2> QED
    BY <2>1, <2>2
<1>23. CASE SendGetConfigDescriptor
  BY <1>23 DEF SendGetConfigDescriptor
<1>24. CASE WaitForGetConfigDescriptor
  BY <1>24, ConfigHeap DEF WaitForGetConfigDescriptor
<1>25. CASE GetConfigDescriptorComplete
  BY <1>25 DEF GetConfigDescriptorComplete
<1>26. CASE SelectConfiguration
  <2>1. /\ host = To("SELECT_CONFIGURATION") /\ UNCHANGED <<ep0, override, hw, device>>
        /\ host' \in {To("ENABLE_ACCESSORY"), Place("SELECT_CONFIGURATION", 1)}
        /\ heap'.descriptor = heap.descriptor
    BY <1>26, SelectHeap DEF SelectConfiguration
  <2> QED
    BY <2>1
<1>27. CASE SendSetOtg
  BY <1>27 DEF SendSetOtg
<1>28. CASE SkipAccessory
  BY <1>28 DEF SkipAccessory
<1>29. CASE SendGetProtocol
  BY <1>29 DEF SendGetProtocol
<1>30. CASE WaitForGetProtocol
  BY <1>30 DEF WaitForGetProtocol
<1>31. CASE SendAccessoryStrings
  BY <1>31 DEF SendAccessoryStrings
<1>32. CASE SendStartAccessory
  BY <1>32 DEF SendStartAccessory
<1>33. CASE WaitForStartAccessory
  BY <1>33 DEF WaitForStartAccessory
<1>34. CASE AccessoryFails
  BY <1>34 DEF AccessoryFails
<1>35. CASE Unsupported
  BY <1>35 DEF Unsupported
<1>36. CASE SendSetConfiguration
  BY <1>36 DEF SendSetConfiguration
<1>37. CASE WaitForSetConfiguration
  BY <1>37 DEF WaitForSetConfiguration
<1>38. CASE SetConfigurationComplete
  BY <1>38 DEF SetConfigurationComplete
<1>39. CASE InitClientDrivers
  BY <1>39 DEF InitClientDrivers, AndroidInitDevice, AndroidInitInterface,
     AndroidInitInterfaces, BluetoothInit, NoAndroid, Whole, AdbInterface
<1>40. CASE RequestFails
  BY <1>40 DEF RequestFails
<1>41. CASE HoldInit
  BY <1>41 DEF HoldInit, Off
<1>42. CASE AndroidReset
  BY <1>42 DEF AndroidReset, ResetDevice, NoAndroid
<1>43. CASE BluetoothReset
  BY <1>43 DEF BluetoothReset, ResetDevice, NoBluetooth
<1>44. CASE ResetUSB
  BY <1>44, ShutdownHeap DEF ResetUSB, Shutdown, NotifyDetach,
     AndroidDetached, BluetoothDetached, NoAndroid, NoBluetooth
<1>45. CASE IssueDeviceRequest
  BY <1>45, StateOfSub DEF IssueDeviceRequest
<1>46. CASE TimerInterrupt
  BY <1>46 DEF TimerInterrupt, InterruptInv
<1>47. CASE AttachInterrupt
  BY <1>47 DEF AttachInterrupt
<1>48. CASE DetachInterrupt
  BY <1>48 DEF DetachInterrupt
<1>49. CASE TransferEnds
  <2>1. /\ UNCHANGED <<host, override, heap, hw, count>> /\ ep0.busy
        /\ ep0'.got = device.kind \/ (ep0'.got = ep0.got /\ ep0'.ok = ep0.ok)
    BY <1>49 DEF TransferEnds
  <2>2. device'.kind = device.kind
    BY <1>49 DEF TransferEnds, Obeys, Devices
  <2>3. host \in Awaits \/ host.sub \in {"NORMAL_RUN", "INITIALIZE"}
    BY <2>1 DEF TransferInv
  <2>4. ep0.ok = FALSE
    BY <2>1 DEF TransferInv
  <2> QED
    BY <2>1, <2>2, <2>3, <2>4
<1>50. CASE Plug
  BY <1>50 DEF Plug, Unplugged, TransferInv
<1>51. CASE Unplug
  BY <1>51 DEF Unplug, Unplugged, InterruptInv
<1> HIDE DEF Subs, Unattached, Reading, Described, Counting, Selected,
        Configuring, Enumerating, Settled, Attached, Calm, Retried, Awaits,
        rest, drivers, enumeration, To, NextSub, NextStep, NoState, Hold,
        Place, In, At, Now, Pending, Goes, Send, Answered, Failed, Request,
        After, OutOfMemory, Malloc, Trouble,
        CheckCommandAndEnumerationAttempts, InitErrorCounters, TypeOK,
        Transfers, Hosts, Hws, DescriptorInv, MemoryInv
<1> QED
  BY <1>1, <1>2, <1>3, <1>4, <1>5, <1>6, <1>7, <1>8, <1>9, <1>10, <1>11,
     <1>12, <1>13, <1>14, <1>15, <1>16, <1>17, <1>18, <1>19, <1>20, <1>21,
     <1>22, <1>23, <1>24, <1>25, <1>26, <1>27, <1>28, <1>29, <1>30, <1>31,
     <1>32, <1>33, <1>34, <1>35, <1>36, <1>37, <1>38, <1>39, <1>40, <1>41,
     <1>42, <1>43, <1>44, <1>45, <1>46, <1>47, <1>48, <1>49, <1>50, <1>51 DEF
     Next, Tasks, Interrupts

\* A driver has interfaces only after INIT_CLIENT_DRIVERS, and stays in the list.
LEMMA DriverKept ==
    ASSUME MemoryInv, Next PROVE DriverInv'
<1> USE DEF Subs, Unattached, Reading, Described, Counting, Selected,
        Configuring, Enumerating, Settled, Attached, rest, drivers,
        enumeration, To, NextSub, NextStep, NoState, Hold, Place, In, At, Now,
        Pending, Goes, Send, Answered, Failed, Request, After, OutOfMemory,
        Malloc, Trouble, CheckCommandAndEnumerationAttempts,
        InitErrorCounters, TypeOK, Hosts, Infos, Interfaces, Androids,
        Bluetooths, DriverInv, MemoryInv
<1>1. CASE Initialize
  BY <1>1, ShutdownHeap DEF Initialize, Shutdown, NotifyDetach, Idle, Off,
     AndroidDetached, BluetoothDetached, NoAndroid, NoBluetooth
<1>2. CASE WaitForPower
  BY <1>2 DEF WaitForPower
<1>3. CASE TurnOnPower
  BY <1>3 DEF TurnOnPower
<1>4. CASE StartSettling
  BY <1>4 DEF StartSettling, InterruptInv
<1>5. CASE SettlingDone
  BY <1>5 DEF SettlingDone
<1>6. CASE SetReset
  BY <1>6, SetResetHeap DEF SetReset, AfterReset
<1>7. CASE ResetRecovery
  BY <1>7 DEF ResetRecovery
<1>8. CASE ResetComplete
  BY <1>8 DEF ResetComplete
<1>9. CASE SendGetDeviceDescriptorSize
  BY <1>9, FreeDescriptorInv DEF SendGetDeviceDescriptorSize
<1>10. CASE WaitForGetDeviceDescriptorSize
  BY <1>10 DEF WaitForGetDeviceDescriptorSize
<1>11. CASE GetDeviceDescriptorSizeComplete
  BY <1>11, DescriptorHeap DEF GetDeviceDescriptorSizeComplete
<1>12. CASE SendGetDeviceDescriptor
  BY <1>12 DEF SendGetDeviceDescriptor
<1>13. CASE WaitForGetDeviceDescriptor
  BY <1>13, RereadHeap DEF WaitForGetDeviceDescriptor
<1>14. CASE GetDeviceDescriptorComplete
  BY <1>14 DEF GetDeviceDescriptorComplete
<1>15. CASE ValidateVidPid
  BY <1>15 DEF ValidateVidPid
<1>16. CASE SendSetDeviceAddress
  BY <1>16 DEF SendSetDeviceAddress
<1>17. CASE WaitForSetDeviceAddress
  BY <1>17 DEF WaitForSetDeviceAddress
<1>18. CASE SetDeviceAddressComplete
  BY <1>18 DEF SetDeviceAddressComplete
<1>19. CASE InitConfiguration
  BY <1>19, ConfigsHeap DEF InitConfiguration
<1>20. CASE SendGetConfigDescriptorSize
  BY <1>20 DEF SendGetConfigDescriptorSize
<1>21. CASE WaitForGetConfigDescriptorSize
  BY <1>21 DEF WaitForGetConfigDescriptorSize
<1>22. CASE GetConfigDescriptorSizeComplete
  BY <1>22, NewConfigHeap DEF GetConfigDescriptorSizeComplete
<1>23. CASE SendGetConfigDescriptor
  BY <1>23 DEF SendGetConfigDescriptor
<1>24. CASE WaitForGetConfigDescriptor
  BY <1>24, ConfigHeap DEF WaitForGetConfigDescriptor
<1>25. CASE GetConfigDescriptorComplete
  BY <1>25 DEF GetConfigDescriptorComplete
<1>26. CASE SelectConfiguration
  BY <1>26, SelectHeap DEF SelectConfiguration
<1>27. CASE SendSetOtg
  BY <1>27 DEF SendSetOtg
<1>28. CASE SkipAccessory
  BY <1>28 DEF SkipAccessory
<1>29. CASE SendGetProtocol
  BY <1>29 DEF SendGetProtocol
<1>30. CASE WaitForGetProtocol
  BY <1>30 DEF WaitForGetProtocol
<1>31. CASE SendAccessoryStrings
  BY <1>31 DEF SendAccessoryStrings
<1>32. CASE SendStartAccessory
  BY <1>32 DEF SendStartAccessory
<1>33. CASE WaitForStartAccessory
  BY <1>33 DEF WaitForStartAccessory
<1>34. CASE AccessoryFails
  BY <1>34 DEF AccessoryFails
<1>35. CASE Unsupported
  BY <1>35 DEF Unsupported
<1>36. CASE SendSetConfiguration
  BY <1>36 DEF SendSetConfiguration
<1>37. CASE WaitForSetConfiguration
  BY <1>37 DEF WaitForSetConfiguration
<1>38. CASE SetConfigurationComplete
  BY <1>38 DEF SetConfigurationComplete
<1>39. CASE InitClientDrivers
  <2>1. /\ host = Place("SET_CONFIGURATION", 3)
        /\ host' \in {To("NORMAL_RUN"), To("HOLD_INIT")}
        /\ UNCHANGED <<heap, info>>
    BY <1>39 DEF InitClientDrivers
  <2>2. info.deviceAddress = 1 /\ android.ifs = {} /\ android.address = 0
        /\ ~bluetooth.initialized
    BY <2>1
  <2>3. \A i \in DOMAIN heap.ifaces :
           heap.ifaces[i].driver = IF info.driver # "none" THEN info.driver ELSE "AND_INT"
    BY <2>1
  <2>4. /\ android'.address = 0 <=> android'.ifs = {}
        /\ android'.ifs # {} => \E i \in DOMAIN heap.ifaces :
                                   heap.ifaces[i].driver \in {"AND_INT", "AND_DEV"}
    <3>1. CASE info.driver = "BT_DEV" \/ Whole = {}
      <4>1. android' = android \/ android' = NoAndroid
        BY <1>39, <3>1 DEF InitClientDrivers, AndroidInitDevice, AndroidInitInterface,
           AndroidInitInterfaces
      <4> QED
        BY <2>2, <4>1 DEF NoAndroid
    <3>2. CASE info.driver # "BT_DEV" /\ Whole # {}
      <4>1. PICK i \in DOMAIN heap.ifaces : i \in Whole
        BY <3>2 DEF Whole
      <4>2. heap.ifaces[i].driver \in {"AND_INT", "AND_DEV"}
        BY <2>3, <3>2
      <4>3. android' = AndroidInitInterface \/ android' = AndroidInitDevice
        BY <1>39, <3>2 DEF InitClientDrivers
      <4>4. ASSUME NEW before, NEW iids, iids # {}
            PROVE  /\ AndroidInitInterfaces(before, iids).address = 1
                   /\ AndroidInitInterfaces(before, iids).ifs # {}
        <5>1. AndroidInitInterfaces(before, iids) =
                 [address |-> info.deviceAddress, ifs |-> before.ifs \union iids]
          BY <3>2 DEF AndroidInitInterfaces
        <5>2. before.ifs \union iids # {}
          BY <4>4
        <5> QED
          BY <2>2, <5>1, <5>2
      <4>5. {AdbInterface} # {} /\ {heap.ifaces[j].num : j \in Whole} # {}
        BY <4>1
      <4>6. android'.address = 1 /\ android'.ifs # {}
        BY <4>3, <4>4, <4>5 DEF AndroidInitInterface, AndroidInitDevice
      <4> QED
        BY <4>2, <4>6
    <3> QED
      BY <3>1, <3>2
  <2>5. bluetooth'.initialized => /\ bluetooth'.address = 1
                                  /\ \E i \in DOMAIN heap.ifaces :
                                        heap.ifaces[i].driver = "BT_DEV"
    <3>1. bluetooth'.initialized =>
             /\ info.driver = "BT_DEV"
             /\ bluetooth' = BluetoothInit(Whole # {})
      BY <1>39, <2>2 DEF InitClientDrivers
    <3>2. Whole # {} => \E i \in DOMAIN heap.ifaces : i \in Whole
      BY DEF Whole
    <3> QED
      BY <2>2, <2>3, <3>1, <3>2 DEF BluetoothInit
  <2> QED
    BY <2>1, <2>2, <2>3, <2>4, <2>5
<1>40. CASE RequestFails
  BY <1>40 DEF RequestFails
<1>41. CASE HoldInit
  BY <1>41 DEF HoldInit, Off
<1>42. CASE AndroidReset
  BY <1>42 DEF AndroidReset, ResetDevice, NoAndroid
<1>43. CASE BluetoothReset
  BY <1>43 DEF BluetoothReset, ResetDevice, NoBluetooth
<1>44. CASE ResetUSB
  BY <1>44, ShutdownHeap DEF ResetUSB, Shutdown, NotifyDetach,
     AndroidDetached, BluetoothDetached, NoAndroid, NoBluetooth
<1>45. CASE IssueDeviceRequest
  BY <1>45 DEF IssueDeviceRequest
<1>46. CASE TimerInterrupt
  BY <1>46 DEF TimerInterrupt, InterruptInv
<1>47. CASE AttachInterrupt
  BY <1>47 DEF AttachInterrupt
<1>48. CASE DetachInterrupt
  BY <1>48 DEF DetachInterrupt
<1>49. CASE TransferEnds
  BY <1>49 DEF TransferEnds, Answers, Refuses, Obeys
<1>50. CASE Plug
  BY <1>50 DEF Plug, Unplugged
<1>51. CASE Unplug
  BY <1>51 DEF Unplug, Unplugged
<1> HIDE DEF Subs, Unattached, Reading, Described, Counting, Selected,
        Configuring, Enumerating, Settled, Attached, rest, drivers,
        enumeration, To, NextSub, NextStep, NoState, Hold, Place, In, At, Now,
        Pending, Goes, Send, Answered, Failed, Request, After, OutOfMemory,
        Malloc, Trouble, CheckCommandAndEnumerationAttempts,
        InitErrorCounters, TypeOK, Hosts, Infos, Interfaces, Androids,
        Bluetooths, DriverInv, MemoryInv
<1> QED
  BY <1>1, <1>2, <1>3, <1>4, <1>5, <1>6, <1>7, <1>8, <1>9, <1>10, <1>11,
     <1>12, <1>13, <1>14, <1>15, <1>16, <1>17, <1>18, <1>19, <1>20, <1>21,
     <1>22, <1>23, <1>24, <1>25, <1>26, <1>27, <1>28, <1>29, <1>30, <1>31,
     <1>32, <1>33, <1>34, <1>35, <1>36, <1>37, <1>38, <1>39, <1>40, <1>41,
     <1>42, <1>43, <1>44, <1>45, <1>46, <1>47, <1>48, <1>49, <1>50, <1>51 DEF
     Next, Tasks, Interrupts

----------------------------------------------------------------------------
(* The memory of the host.                                                 *)

LEMMA MemoryInit == Init => MemoryInv
<1> SUFFICES ASSUME Init PROVE MemoryInv
  OBVIOUS
<1> USE DEF Init, To, NoState, Idle, Off, NoAndroid, NoBluetooth, Unplugged
<1>1. TypeOK
  BY DEF TypeOK, Hosts, Subs, Infos, Interfaces, Transfers, Requests, Hws, Androids,
     Bluetooths, Devices
<1>2. HeapInv(heap)
  BY EmptyList, FS_EmptySet DEF HeapInv, HeapType, Balanced, Configs, Blocks
<1>3. InterruptInv /\ TransferInv
  BY DEF InterruptInv, TransferInv, Place, Awaits, Retried, Unattached, Attached,
     Enumerating, Settled, Reading, Described, Configuring, Counting, Selected
<1>4. DescriptorInv /\ DriverInv
  BY DEF DescriptorInv, DriverInv, Place, Awaits, Retried, Unattached,
     Enumerating, Settled, Reading, Described, Configuring, Counting, Selected
<1> QED
  BY <1>1, <1>2, <1>3, <1>4 DEF MemoryInv

LEMMA MemoryStep == MemoryInv /\ [Next]_vars => MemoryInv'
<1> SUFFICES ASSUME MemoryInv, [Next]_vars PROVE MemoryInv'
  OBVIOUS
<1>1. CASE Next
  BY <1>1, TypesKept, HeapKept, InterruptKept, TransferKept, DescriptorKept, DriverKept
     DEF MemoryInv
<1>2. CASE UNCHANGED vars
  BY <1>2 DEF vars, MemoryInv, TypeOK, HeapInv, HeapType, Balanced, InterruptInv,
     TransferInv, DescriptorInv, DriverInv, Calm
<1> QED
  BY <1>1, <1>2

LEMMA MemoryHolds == Spec => []MemoryInv
BY MemoryInit, MemoryStep, PTL DEF Spec

\* Whatever the devices, the failures and the moments at which they leave, the
\* host has of the heap what its pointers and lists hold: _USB_FreeMemory and
\* the retries of the enumeration give each block back once.
THEOREM NoLeak == Spec => []NothingLeaks
<1>1. MemoryInv => NothingLeaks
  BY DEF MemoryInv, HeapInv, NothingLeaks
<1> QED
  BY <1>1, MemoryHolds, PTL

\* The device has its address and its configuration in the substates after.
LEMMA DeviceKept ==
    ASSUME MemoryInv, DeviceInv, ~QuickUnplug, Next PROVE DeviceInv'
<1> USE DEF Subs, Unattached, Reading, Described, Counting, Selected,
        Configuring, Enumerating, Settled, Attached, Calm, rest, drivers,
        enumeration, To, NextSub, NextStep, NoState, Hold, Place, In, At, Now,
        Pending, Goes, Send, Answered, Failed, Request, After, OutOfMemory,
        Malloc, Trouble, CheckCommandAndEnumerationAttempts,
        InitErrorCounters, TypeOK, Hosts, Hws, Devices, DeviceInv, MemoryInv
<1>1. CASE Initialize
  BY <1>1 DEF Initialize, Shutdown, NotifyDetach, Idle, Off, AndroidDetached,
     BluetoothDetached, NoAndroid, NoBluetooth
<1>2. CASE WaitForPower
  BY <1>2 DEF WaitForPower
<1>3. CASE TurnOnPower
  BY <1>3 DEF TurnOnPower
<1>4. CASE StartSettling
  BY <1>4 DEF StartSettling, InterruptInv
<1>5. CASE SettlingDone
  BY <1>5 DEF SettlingDone
<1>6. CASE SetReset
  <2>1. /\ host = To("RESET_DEVICE")
        /\ host' \in {Place("RESET_DEVICE", 1), To("HOLD_INIT")}
        /\ UNCHANGED <<override, android, bluetooth>>
    BY <1>6 DEF SetReset
  <2>2. hw'.detachIF = hw.detachIF /\ device'.kind = device.kind
    <3>1. /\ hw' = hw \/ hw' = [hw EXCEPT !.timer = TRUE]
          /\ device' = device \/ device' = [device EXCEPT !.addr = 0, !.conf = 0]
      BY <1>6 DEF SetReset
    <3> QED
      BY <3>1
  <2>3. android.ifs = {} /\ ~bluetooth.initialized
    BY <2>1 DEF DriverInv
  <2> QED
    BY <2>1, <2>2, <2>3
<1>7. CASE ResetRecovery
  BY <1>7 DEF ResetRecovery
<1>8. CASE ResetComplete
  BY <1>8 DEF ResetComplete
<1>9. CASE SendGetDeviceDescriptorSize
  BY <1>9 DEF SendGetDeviceDescriptorSize
<1>10. CASE WaitForGetDeviceDescriptorSize
  BY <1>10 DEF WaitForGetDeviceDescriptorSize, DriverInv
<1>11. CASE GetDeviceDescriptorSizeComplete
  BY <1>11 DEF GetDeviceDescriptorSizeComplete, DriverInv
<1>12. CASE SendGetDeviceDescriptor
  BY <1>12 DEF SendGetDeviceDescriptor
<1>13. CASE WaitForGetDeviceDescriptor
  BY <1>13 DEF WaitForGetDeviceDescriptor
<1>14. CASE GetDeviceDescriptorComplete
  BY <1>14 DEF GetDeviceDescriptorComplete
<1>15. CASE ValidateVidPid
  BY <1>15 DEF ValidateVidPid
<1>16. CASE SendSetDeviceAddress
  BY <1>16 DEF SendSetDeviceAddress
<1>17. CASE WaitForSetDeviceAddress
  BY <1>17 DEF WaitForSetDeviceAddress
<1>18. CASE SetDeviceAddressComplete
  BY <1>18 DEF SetDeviceAddressComplete, DriverInv
<1>19. CASE InitConfiguration
  BY <1>19 DEF InitConfiguration
<1>20. CASE SendGetConfigDescriptorSize
  BY <1>20 DEF SendGetConfigDescriptorSize
<1>21. CASE WaitForGetConfigDescriptorSize
  BY <1>21 DEF WaitForGetConfigDescriptorSize
<1>22. CASE GetConfigDescriptorSizeComplete
  BY <1>22 DEF GetConfigDescriptorSizeComplete, DriverInv
<1>23. CASE SendGetConfigDescriptor
  BY <1>23 DEF SendGetConfigDescriptor
<1>24. CASE WaitForGetConfigDescriptor
  BY <1>24 DEF WaitForGetConfigDescriptor
<1>25. CASE GetConfigDescriptorComplete
  BY <1>25 DEF GetConfigDescriptorComplete
<1>26. CASE SelectConfiguration
  <2>1. /\ host = To("SELECT_CONFIGURATION")
        /\ UNCHANGED <<override, hw, device, android, bluetooth>>
    BY <1>26, SelectHeap DEF SelectConfiguration
  <2>2. /\ host' \in {To("ENABLE_ACCESSORY"), Place("SELECT_CONFIGURATION", 1)}
        /\ info'.address = info.address /\ (node' # 0 => info'.conf # 0)
    BY <1>26, SelectHeap
  <2> QED
    BY <2>1, <2>2
<1>27. CASE SendSetOtg
  BY <1>27 DEF SendSetOtg
<1>28. CASE SkipAccessory
  BY <1>28 DEF SkipAccessory
<1>29. CASE SendGetProtocol
  BY <1>29 DEF SendGetProtocol
<1>30. CASE WaitForGetProtocol
  BY <1>30 DEF WaitForGetProtocol
<1>31. CASE SendAccessoryStrings
  BY <1>31 DEF SendAccessoryStrings
<1>32. CASE SendStartAccessory
  BY <1>32 DEF SendStartAccessory
<1>33. CASE WaitForStartAccessory
  BY <1>33 DEF WaitForStartAccessory, DriverInv
<1>34. CASE AccessoryFails
  BY <1>34 DEF AccessoryFails
<1>35. CASE Unsupported
  BY <1>35 DEF Unsupported, DriverInv
<1>36. CASE SendSetConfiguration
  BY <1>36 DEF SendSetConfiguration
<1>37. CASE WaitForSetConfiguration
  BY <1>37 DEF WaitForSetConfiguration
<1>38. CASE SetConfigurationComplete
  BY <1>38 DEF SetConfigurationComplete
<1>39. CASE InitClientDrivers
  BY <1>39 DEF InitClientDrivers, AndroidInitDevice, AndroidInitInterface,
     AndroidInitInterfaces, BluetoothInit, NoAndroid, Whole, AdbInterface
<1>40. CASE RequestFails
  BY <1>40 DEF RequestFails, DriverInv
<1>41. CASE HoldInit
  BY <1>41 DEF HoldInit, Off, InterruptInv
<1>42. CASE AndroidReset
  BY <1>42 DEF AndroidReset, ResetDevice, NoAndroid
<1>43. CASE BluetoothReset
  BY <1>43 DEF BluetoothReset, ResetDevice, NoBluetooth
<1>44. CASE ResetUSB
  BY <1>44 DEF ResetUSB, Shutdown, NotifyDetach, AndroidDetached,
     BluetoothDetached, NoAndroid, NoBluetooth
<1>45. CASE IssueDeviceRequest
  BY <1>45 DEF IssueDeviceRequest
<1>46. CASE TimerInterrupt
  BY <1>46 DEF TimerInterrupt, InterruptInv
<1>47. CASE AttachInterrupt
  BY <1>47 DEF AttachInterrupt
<1>48. CASE DetachInterrupt
  BY <1>48 DEF DetachInterrupt
<1>49. CASE TransferEnds
  <2>1. UNCHANGED <<host, override, hw, info, node, android, bluetooth>> /\ ep0.busy
    BY <1>49 DEF TransferEnds
  <2>2. device'.kind = device.kind
    BY <1>49 DEF TransferEnds, Obeys
  <2>3. /\ host \in Awaits \/ host.sub \in {"NORMAL_RUN", "INITIALIZE"}
        /\ ~ep0.ok
        /\ host \in Awaits =>
             /\ ep0.req = "SET_ADDRESS" <=> host = Place("SET_DEVICE_ADDRESS", 1)
             /\ ep0.req = "SET_CONFIGURATION" <=> host = Place("SET_CONFIGURATION", 1)
        /\ host.sub = "NORMAL_RUN" => ep0.req = "COMMAND"
    BY <2>1 DEF TransferInv
  <2>4. /\ ep0.req # "SET_ADDRESS" => device'.addr = device.addr
        /\ ep0.req # "SET_CONFIGURATION" => device'.conf = device.conf
        /\ device'.addr \in {1, device.addr}
        /\ device'.conf \in {info.conf, device.conf}
    BY <1>49 DEF TransferEnds, Obeys
  <2>5. ep0'.ok => /\ ep0.req = "SET_ADDRESS" => device'.addr = 1
                   /\ ep0.req = "SET_CONFIGURATION" => device'.conf = info.conf
    BY <1>49, <2>3 DEF TransferEnds, Obeys, Transfers
  <2> QED
    BY <2>1, <2>2, <2>3, <2>4, <2>5 DEF Awaits, Retried
<1>50. CASE Plug
  BY <1>50 DEF Plug, Unplugged
<1>51. CASE Unplug
  BY <1>51 DEF Unplug, Unplugged, InterruptInv
<1> HIDE DEF Subs, Unattached, Reading, Described, Counting, Selected,
        Configuring, Enumerating, Settled, Attached, Calm, rest, drivers,
        enumeration, To, NextSub, NextStep, NoState, Hold, Place, In, At, Now,
        Pending, Goes, Send, Answered, Failed, Request, After, OutOfMemory,
        Malloc, Trouble, CheckCommandAndEnumerationAttempts,
        InitErrorCounters, TypeOK, Hosts, Hws, Devices, DeviceInv, MemoryInv
<1> QED
  BY <1>1, <1>2, <1>3, <1>4, <1>5, <1>6, <1>7, <1>8, <1>9, <1>10, <1>11,
     <1>12, <1>13, <1>14, <1>15, <1>16, <1>17, <1>18, <1>19, <1>20, <1>21,
     <1>22, <1>23, <1>24, <1>25, <1>26, <1>27, <1>28, <1>29, <1>30, <1>31,
     <1>32, <1>33, <1>34, <1>35, <1>36, <1>37, <1>38, <1>39, <1>40, <1>41,
     <1>42, <1>43, <1>44, <1>45, <1>46, <1>47, <1>48, <1>49, <1>50, <1>51 DEF
     Next, Tasks, Interrupts

\* Each enumeration that is given up has cost a request that failed.
LEMMA FaultKept ==
    ASSUME MemoryInv, DeviceInv, FaultInv, ~QuickUnplug, Next PROVE FaultInv'
<1> USE DEF Subs, Unattached, Reading, Described, Counting, Selected,
        Configuring, Enumerating, Settled, Attached, Calm, Spent, rest,
        drivers, enumeration, To, NextSub, NextStep, NoState, Hold, Place, In,
        At, Now, Pending, Goes, Send, Answered, Failed, Request, After,
        OutOfMemory, Malloc, Trouble, CheckCommandAndEnumerationAttempts,
        InitErrorCounters, Retried, TypeOK, Hosts, Hws, FaultInv, MemoryInv
<1>1. CASE Initialize
  BY <1>1, UsbHostAssumption DEF Initialize, Shutdown, NotifyDetach, Idle,
     Off, AndroidDetached, BluetoothDetached, NoAndroid, NoBluetooth
<1>2. CASE WaitForPower
  BY <1>2, UsbHostAssumption DEF WaitForPower
<1>3. CASE TurnOnPower
  BY <1>3, UsbHostAssumption DEF TurnOnPower
<1>4. CASE StartSettling
  BY <1>4, UsbHostAssumption DEF StartSettling, InterruptInv
<1>5. CASE SettlingDone
  BY <1>5, UsbHostAssumption DEF SettlingDone
<1>6. CASE SetReset
  <2>1. /\ host = To("RESET_DEVICE")
        /\ host' \in {Place("RESET_DEVICE", 1), To("HOLD_INIT")}
        /\ UNCHANGED override
        /\ errorCode' \in {errorCode, "OUT_OF_MEMORY"}
    BY <1>6 DEF SetReset
  <2>2. /\ tries'.enumeration = tries.enumeration /\ trouble' \in {trouble, trouble + 1}
    <3>1. /\ tries' = tries \/ tries' = [tries EXCEPT !.command = CommandTries]
          /\ trouble' \in {trouble, trouble + 1}
      BY <1>6 DEF SetReset
    <3> QED
      BY <3>1
  <2>3. host' = Place("RESET_DEVICE", 1) => device'.addr = 0 /\ info'.address = 0
    <3>1. host' = Place("RESET_DEVICE", 1) =>
             device' = [device EXCEPT !.addr = 0, !.conf = 0] /\ info' = AfterReset(info)
      BY <1>6 DEF SetReset
    <3> QED
      BY <3>1 DEF AfterReset, Devices, Infos
  <2> QED
    BY <2>1, <2>2, <2>3, UsbHostAssumption
<1>7. CASE ResetRecovery
  BY <1>7, UsbHostAssumption DEF ResetRecovery
<1>8. CASE ResetComplete
  BY <1>8, UsbHostAssumption DEF ResetComplete
<1>9. CASE SendGetDeviceDescriptorSize
  BY <1>9, UsbHostAssumption DEF SendGetDeviceDescriptorSize
<1>10. CASE WaitForGetDeviceDescriptorSize
  BY <1>10, UsbHostAssumption DEF WaitForGetDeviceDescriptorSize
<1>11. CASE GetDeviceDescriptorSizeComplete
  BY <1>11, UsbHostAssumption DEF GetDeviceDescriptorSizeComplete
<1>12. CASE SendGetDeviceDescriptor
  BY <1>12, UsbHostAssumption DEF SendGetDeviceDescriptor
<1>13. CASE WaitForGetDeviceDescriptor
  BY <1>13, UsbHostAssumption DEF WaitForGetDeviceDescriptor
<1>14. CASE GetDeviceDescriptorComplete
  BY <1>14, UsbHostAssumption DEF GetDeviceDescriptorComplete
<1>15. CASE ValidateVidPid
  BY <1>15, UsbHostAssumption DEF ValidateVidPid
<1>16. CASE SendSetDeviceAddress
  BY <1>16, UsbHostAssumption DEF SendSetDeviceAddress
<1>17. CASE WaitForSetDeviceAddress
  BY <1>17, UsbHostAssumption DEF WaitForSetDeviceAddress
<1>18. CASE SetDeviceAddressComplete
  BY <1>18, UsbHostAssumption DEF SetDeviceAddressComplete, DriverInv,
     DeviceInv
<1>19. CASE InitConfiguration
  BY <1>19, UsbHostAssumption DEF InitConfiguration
<1>20. CASE SendGetConfigDescriptorSize
  BY <1>20, UsbHostAssumption DEF SendGetConfigDescriptorSize
<1>21. CASE WaitForGetConfigDescriptorSize
  BY <1>21, UsbHostAssumption DEF WaitForGetConfigDescriptorSize
<1>22. CASE GetConfigDescriptorSizeComplete
  BY <1>22, UsbHostAssumption DEF GetConfigDescriptorSizeComplete
<1>23. CASE SendGetConfigDescriptor
  BY <1>23, UsbHostAssumption DEF SendGetConfigDescriptor
<1>24. CASE WaitForGetConfigDescriptor
  BY <1>24, UsbHostAssumption DEF WaitForGetConfigDescriptor
<1>25. CASE GetConfigDescriptorComplete
  BY <1>25, UsbHostAssumption DEF GetConfigDescriptorComplete
<1>26. CASE SelectConfiguration
  <2>1. /\ host = To("SELECT_CONFIGURATION") /\ override = NoState
        /\ UNCHANGED <<override, errorCode, tries, hw, device, ep0>>
        /\ trouble' \in {trouble, trouble + 1}
    BY <1>26 DEF SelectConfiguration
  <2>2. /\ host' \in {To("ENABLE_ACCESSORY"), Place("SELECT_CONFIGURATION", 1)}
        /\ info'.address = info.address
    BY <1>26, SelectHeap
  <2> QED
    BY <2>1, <2>2, UsbHostAssumption
<1>27. CASE SendSetOtg
  BY <1>27, UsbHostAssumption DEF SendSetOtg
<1>28. CASE SkipAccessory
  BY <1>28, UsbHostAssumption DEF SkipAccessory
<1>29. CASE SendGetProtocol
  BY <1>29, UsbHostAssumption DEF SendGetProtocol
<1>30. CASE WaitForGetProtocol
  BY <1>30, UsbHostAssumption DEF WaitForGetProtocol
<1>31. CASE SendAccessoryStrings
  BY <1>31, UsbHostAssumption DEF SendAccessoryStrings
<1>32. CASE SendStartAccessory
  BY <1>32, UsbHostAssumption DEF SendStartAccessory
<1>33. CASE WaitForStartAccessory
  BY <1>33, UsbHostAssumption DEF WaitForStartAccessory
<1>34. CASE AccessoryFails
  BY <1>34, UsbHostAssumption DEF AccessoryFails
<1>35. CASE Unsupported
  BY <1>35, UsbHostAssumption DEF Unsupported
<1>36. CASE SendSetConfiguration
  BY <1>36, UsbHostAssumption DEF SendSetConfiguration
<1>37. CASE WaitForSetConfiguration
  BY <1>37, UsbHostAssumption DEF WaitForSetConfiguration
<1>38. CASE SetConfigurationComplete
  BY <1>38, UsbHostAssumption DEF SetConfigurationComplete
<1>39. CASE InitClientDrivers
  BY <1>39, UsbHostAssumption DEF InitClientDrivers, AndroidInitDevice,
     AndroidInitInterface, AndroidInitInterfaces, BluetoothInit, NoAndroid,
     Whole, AdbInterface
<1>40. CASE RequestFails
  <2>1. /\ host \in Retried /\ ~ep0.busy /\ ~ep0.ok
        /\ Calm
        /\ UNCHANGED <<override, info, ep0, hw, device, trouble>>
    BY <1>40 DEF RequestFails, InterruptInv
  <2>2. trouble > Spent
    BY <2>1
  <2>3. CASE tries.command > 1
    <3>1. host' = To(host.sub) /\ UNCHANGED errorCode
          /\ tries'.enumeration = tries.enumeration
      BY <1>40, <2>3 DEF RequestFails
    <3> QED
      BY <2>1, <2>2, <3>1
  <2>4. CASE ~(tries.command > 1)
    <3>1. /\ tries'.enumeration = tries.enumeration - 1
          /\ IF tries.enumeration > 1
               THEN host' = To("RESET_DEVICE") /\ UNCHANGED errorCode
               ELSE host' = To("HOLD_INIT") /\ errorCode' = "CANNOT_ENUMERATE"
      BY <1>40, <2>4 DEF RequestFails
    <3> QED
      BY <2>1, <2>2, <3>1, UsbHostAssumption
  <2> QED
    BY <2>3, <2>4
<1>41. CASE HoldInit
  BY <1>41, UsbHostAssumption DEF HoldInit, Off
<1>42. CASE AndroidReset
  BY <1>42, UsbHostAssumption DEF AndroidReset, ResetDevice, NoAndroid
<1>43. CASE BluetoothReset
  BY <1>43, UsbHostAssumption DEF BluetoothReset, ResetDevice, NoBluetooth
<1>44. CASE ResetUSB
  BY <1>44, UsbHostAssumption DEF ResetUSB, Shutdown, NotifyDetach,
     AndroidDetached, BluetoothDetached, NoAndroid, NoBluetooth
<1>45. CASE IssueDeviceRequest
  BY <1>45, UsbHostAssumption, StateOfSub DEF IssueDeviceRequest
<1>46. CASE TimerInterrupt
  BY <1>46, UsbHostAssumption DEF TimerInterrupt, InterruptInv
<1>47. CASE AttachInterrupt
  BY <1>47, UsbHostAssumption DEF AttachInterrupt
<1>48. CASE DetachInterrupt
  BY <1>48, UsbHostAssumption DEF DetachInterrupt
<1>49. CASE TransferEnds
  <2>1. /\ UNCHANGED <<host, override, hw, info, tries, errorCode>>
        /\ ep0.busy /\ ~ep0.ok
        /\ trouble' \in {trouble, trouble + 1}
    BY <1>49 DEF TransferEnds, TransferInv
  <2>2. host.sub \in Enumerating => host \in Awaits
    BY <2>1 DEF TransferInv
  <2>3. CASE trouble' = trouble + 1
    <3>1. trouble' > Spent \/ host.sub = "INITIALIZE"
      BY <2>3, UsbHostAssumption
    <3> QED
      BY <2>1, <3>1, UsbHostAssumption
  <2>4. CASE ep0'.ok /\ Answers
    <3>1. device'.addr = device.addr \/ ep0.req = "SET_ADDRESS"
      BY <1>49 DEF TransferEnds, Obeys, Devices
    <3>2. host \in Awaits /\ ep0.req = "SET_ADDRESS" => host = Place("SET_DEVICE_ADDRESS", 1)
      BY DEF TransferInv
    <3> QED
      BY <2>1, <2>2, <2>4, <3>1, <3>2, UsbHostAssumption DEF Answers
  <2>5. CASE (Answers => Refuses) /\ UNCHANGED <<device, trouble>>
    <3>1. host \in Retried => ~Answers
      BY <2>5 DEF Refuses, TransferInv
    <3>2. Calm /\ host \in Retried => device.kind # None
      BY DEF DeviceInv
    <3>3. Calm /\ host \in Retried => trouble > Spent
      BY <2>1, <3>1, <3>2 DEF Answers
    <3> QED
      BY <2>1, <2>2, <2>5, <3>3, UsbHostAssumption
  <2>6. \/ ep0' = [ep0 EXCEPT !.busy = FALSE, !.ok = TRUE, !.got = device.kind] /\ Answers
        \/ (Answers => Refuses) /\ UNCHANGED <<device, trouble>>
        \/ trouble' = trouble + 1
    BY <1>49 DEF TransferEnds
  <2> QED
    BY <2>3, <2>4, <2>5, <2>6 DEF Transfers
<1>50. CASE Plug
  BY <1>50, UsbHostAssumption DEF Plug, Unplugged, DeviceInv
<1>51. CASE Unplug
  BY <1>51, UsbHostAssumption DEF Unplug, Unplugged, InterruptInv
<1> HIDE DEF Subs, Unattached, Reading, Described, Counting, Selected,
        Configuring, Enumerating, Settled, Attached, Calm, Spent, rest,
        drivers, enumeration, To, NextSub, NextStep, NoState, Hold, Place, In,
        At, Now, Pending, Goes, Send, Answered, Failed, Request, After,
        OutOfMemory, Malloc, Trouble, CheckCommandAndEnumerationAttempts,
        InitErrorCounters, Retried, TypeOK, Hosts, Hws, FaultInv, MemoryInv
<1> QED
  BY <1>1, <1>2, <1>3, <1>4, <1>5, <1>6, <1>7, <1>8, <1>9, <1>10, <1>11,
     <1>12, <1>13, <1>14, <1>15, <1>16, <1>17, <1>18, <1>19, <1>20, <1>21,
     <1>22, <1>23, <1>24, <1>25, <1>26, <1>27, <1>28, <1>29, <1>30, <1>31,
     <1>32, <1>33, <1>34, <1>35, <1>36, <1>37, <1>38, <1>39, <1>40, <1>41,
     <1>42, <1>43, <1>44, <1>45, <1>46, <1>47, <1>48, <1>49, <1>50, <1>51 DEF
     Next, Tasks, Interrupts

----------------------------------------------------------------------------
(* The device, when a plug does not leave where its flag is cleared next.  *)

LEMMA FaultInit == Init => DeviceInv /\ FaultInv
BY UsbHostAssumption DEF Init, To, NoState, Idle, Off, NoAndroid, NoBluetooth, Unplugged,
   DeviceInv, FaultInv, Spent, Calm, Place, Attached, Enumerating, Settled, Reading,
   Described, Configuring, Counting, Selected, Retried

LEMMA FaultStep ==
    ASSUME ~QuickUnplug PROVE Inv /\ [Next]_vars => Inv'
<1> SUFFICES ASSUME Inv, [Next]_vars PROVE Inv'
  OBVIOUS
<1>1. MemoryInv'
  BY MemoryStep DEF Inv
<1>2. CASE Next
  BY <1>1, <1>2, DeviceKept, FaultKept DEF Inv
<1>3. CASE UNCHANGED vars
  <2>1. DeviceInv'
    BY <1>3 DEF Inv, vars, DeviceInv, Calm
  <2>2. FaultInv'
    BY <1>3 DEF Inv, vars, FaultInv, Spent, Calm
  <2> QED
    BY <1>1, <2>1, <2>2 DEF Inv
<1> QED
  BY <1>2, <1>3

LEMMA FaultHolds == ASSUME ~QuickUnplug PROVE Spec => []Inv
<1>1. Init => Inv
  BY MemoryInit, FaultInit DEF Inv
<1> QED
  BY <1>1, FaultStep, PTL DEF Spec

\* Of any number of devices that come and leave, where no flag is cleared just
\* after (QuickUnplug), and of any failures in between, no driver keeps one that left: what
\* _USB_NotifyClients needs for it (the address and the list of interfaces) is
\* kept from the initialization of the driver to its end.
THEOREM NoStaleDriver == ASSUME ~QuickUnplug PROVE Spec => []DriversHaveADevice
<1>1. Inv => DriversHaveADevice
  <2> SUFFICES ASSUME Inv, android.ifs # {} \/ bluetooth.initialized, ~Leaving
               PROVE  device.kind # None /\ device.addr = 1 /\ device.conf # 0
    BY DEF DriversHaveADevice
  <2>1. host.sub \in Settled \union {"INITIALIZE"}
    BY DEF Inv, MemoryInv, DriverInv
  <2>2. host.sub \in Settled /\ Calm
    BY <2>1 DEF Inv, MemoryInv, TypeOK, Hws, InterruptInv, Leaving, Now, To, NoState,
       Calm, Attached, Settled
  <2> QED
    BY <2>2 DEF Inv, DeviceInv, Attached
<1> QED
  BY <1>1, FaultHolds, PTL

\* The host gives up no device that answers before as many requests have
\* failed as it tries enumerations.
THEOREM FaultsOvercome == ASSUME ~QuickUnplug PROVE Spec => []FaultsAreOvercome
<1>1. Inv => FaultsAreOvercome
  BY DEF Inv, FaultInv, FaultsAreOvercome
<1> QED
  BY <1>1, FaultHolds, PTL
=============================================================================
