------------------------------ MODULE UsbHost ------------------------------
(***************************************************************************)
(* How the USB host finds, configures and loses its device (usb_host.c),   *)
(* with the drivers it starts for it (usb_host_android.c and               *)
(* usb_host_bluetooth.c).                                                  *)
(*                                                                         *)
(* USBHostTasks is called over and over from the main loop: a call is an   *)
(* action, named for the substate it is made in, and the calls that change *)
(* nothing are left out.  Between two of them come the interrupts, the     *)
(* requests of the drivers' clients, and the user with the plug.           *)
(*                                                                         *)
(* A control transfer is one step: module UsbTransfer has its tokens.      *)
(* Nothing calls USBHostSuspendDevice, USBHostSetDeviceConfiguration or    *)
(* the other operations left out here; bfAllowHNP is never set, so that    *)
(* the request for OTG is not sent; CONFIGURE_UNKNOWN_DEVICE is not        *)
(* defined.                                                                *)
(***************************************************************************)
EXTENDS Integers, Sequences, FiniteSets, FiniteSetsExt

CONSTANTS
    Kinds,              \* the devices the user may plug in
    None,               \* no device, or nothing read of one
    CommandTries,       \* USB_NUM_COMMAND_TRIES
    EnumerationTries,   \* USB_NUM_ENUMERATION_TRIES
    QuickUnplug,        \* TRUE if a plug may leave where its flag is cleared
                        \* next: before the settling delay has begun, or in
                        \* the call of HOLD_INIT, and the flag stays cleared
    MaxTrouble          \* bound on requests that fail with the device there,
                        \* calls of malloc that fail, and resets by clients

\* The targeted peripheral list: what is known, whether by an interface of the
\* device or by the device itself, and the driver for it.
usbTPL ==
    << [id |-> "ADB",           interface |-> TRUE,  driver |-> "AND_INT"],
       [id |-> "BLUETOOTH",     interface |-> FALSE, driver |-> "BT_DEV"],
       [id |-> "ACCESSORY",     interface |-> FALSE, driver |-> "AND_DEV"],
       [id |-> "ACCESSORY_ADB", interface |-> FALSE, driver |-> "AND_DEV"] >>
Ids == {"other"} \union {usbTPL[i].id : i \in DOMAIN usbTPL}

\* num is bInterfaceNumber, id its class, whole whether the endpoints are as
\* the drivers want them.
Interface == [num : {0, 1}, id : Ids, whole : BOOLEAN]

\* id is the class of the device or its vendor and product, protocol the answer
\* to the first request of the accessory protocol, -1 for a stall.
Kind == [hub : BOOLEAN, id : Ids,
         protocol : {-1, 0, 1}, configs : Seq(Seq(Interface))]

ASSUME UsbHostAssumption ==
    /\ Kinds \subseteq Kind /\ None \notin Kinds
    /\ \A kind \in Kinds : kind.configs # <<>>
    /\ CommandTries \in Nat \ {0} /\ EnumerationTries \in Nat \ {0}
    /\ QuickUnplug \in BOOLEAN
    /\ MaxTrouble \in Nat

VARIABLES
    host,        \* usbHostState: substate and subsubstate
    override,    \* usbOverrideHostState
    errorCode,   \* of usbDeviceInfo
    tries,       \* numCommandTries and numEnumerationTries
    info,        \* of usbDeviceInfo: deviceAddress, the address of the tokens,
                 \* currentConfiguration, the driver of the device
    heap,        \* the pointers of the host to its buffers and lists, and how
                 \* many blocks of each malloc gave and free has not got back
    node,        \* pCurrentConfigurationNode, a place in the list, 0 for NULL
    count,       \* countConfigurations
    ep0,         \* the control transfer
    hw,          \* the interrupts that are enabled, the timer, DETACHIF
    android,     \* gc_DevData: the address, and the interfaces initialized
    bluetooth,   \* gc_BluetoothDevData
    device,      \* what is plugged in, its own address and configuration
    trouble      \* counted for the bound

vars == <<host, override, errorCode, tries, info, heap, node, count, ep0, hw,
          android, bluetooth, device, trouble>>
enumeration == <<errorCode, tries, info, heap, node, count>>
drivers     == <<android, bluetooth>>
rest        == <<ep0, hw, drivers, device, trouble>>

(***************************************************************************)
(* The substates and the states they are of.  NEXT_STATE is taken from the *)
(* last substate of a state only, and ends in the first of the next one:   *)
(* for it and NEXT_SUBSTATE one order will do.                             *)
(***************************************************************************)
StateOf ==
    [INITIALIZE                 |-> "DETACHED",
     WAIT_FOR_POWER             |-> "DETACHED",
     TURN_ON_POWER              |-> "DETACHED",
     WAIT_FOR_DEVICE            |-> "DETACHED",
     SETTLE                     |-> "ATTACHED",
     RESET_DEVICE               |-> "ATTACHED",
     GET_DEVICE_DESCRIPTOR_SIZE |-> "ATTACHED",
     GET_DEVICE_DESCRIPTOR      |-> "ATTACHED",
     VALIDATE_VID_PID           |-> "ATTACHED",
     SET_DEVICE_ADDRESS         |-> "ADDRESSING",
     INIT_CONFIGURATION         |-> "CONFIGURING",
     GET_CONFIG_DESCRIPTOR_SIZE |-> "CONFIGURING",
     GET_CONFIG_DESCRIPTOR      |-> "CONFIGURING",
     SELECT_CONFIGURATION       |-> "CONFIGURING",
     ENABLE_ACCESSORY           |-> "CONFIGURING",
     SET_CONFIGURATION          |-> "CONFIGURING",
     NORMAL_RUN                 |-> "RUNNING",
     HOLD_INIT                  |-> "HOLDING",
     HOLD                       |-> "HOLDING"]
After ==
    [INITIALIZE                 |-> "WAIT_FOR_POWER",
     WAIT_FOR_POWER             |-> "TURN_ON_POWER",
     TURN_ON_POWER              |-> "WAIT_FOR_DEVICE",
     SETTLE                     |-> "RESET_DEVICE",
     RESET_DEVICE               |-> "GET_DEVICE_DESCRIPTOR_SIZE",
     GET_DEVICE_DESCRIPTOR_SIZE |-> "GET_DEVICE_DESCRIPTOR",
     GET_DEVICE_DESCRIPTOR      |-> "VALIDATE_VID_PID",
     VALIDATE_VID_PID           |-> "SET_DEVICE_ADDRESS",
     SET_DEVICE_ADDRESS         |-> "INIT_CONFIGURATION",
     INIT_CONFIGURATION         |-> "GET_CONFIG_DESCRIPTOR_SIZE",
     GET_CONFIG_DESCRIPTOR_SIZE |-> "GET_CONFIG_DESCRIPTOR",
     GET_CONFIG_DESCRIPTOR      |-> "SELECT_CONFIGURATION",
     SELECT_CONFIGURATION       |-> "ENABLE_ACCESSORY",
     ENABLE_ACCESSORY           |-> "SET_CONFIGURATION",
     SET_CONFIGURATION          |-> "NORMAL_RUN",
     HOLD_INIT                  |-> "HOLD"]

To(sub)  == [sub |-> sub, step |-> 0]
NextSub  == To(After[host.sub])
NextStep == [host EXCEPT !.step = @ + 1]
NoState  == To("NO_STATE")
Hold(code) == host' = To("HOLD_INIT") /\ errorCode' = code

\* The state a call of USBHostTasks finds.  An interrupt is served before it.
Now == IF override = NoState THEN host ELSE override
Pending == hw.on /\ \/ hw.attachIE /\ device.kind # None
                    \/ hw.detachIE /\ hw.detachIF
At(sub, step) == Now = [sub |-> sub, step |-> step] /\ ~Pending
In(sub, step) == host = [sub |-> sub, step |-> step] /\ override = NoState /\ ~Pending

\* A step that does nothing but to go on.
Goes(next) ==
    /\ host' = next
    /\ UNCHANGED <<override, enumeration, rest>>

(***************************************************************************)
(* The heap.  A free takes the blocks a pointer or a list holds.           *)
(***************************************************************************)
Account(h, what, n) == [h EXCEPT !.blocks[what] = @ + n]

FreeConfigMemory(h) ==
    [Account(h, "ifaces", - Cardinality(DOMAIN h.ifaces)) EXCEPT !.ifaces = <<>>]
\* (Mutant: the list is forgotten.)
LosesConfigs(h) == [h EXCEPT !.configs = <<>>]
FreeConfigs(h) ==
    [Account(h, "configs", - Len(h.configs)) EXCEPT !.configs = <<>>]
FreeDescriptor(h) ==
    IF h.descriptor = None THEN h
    ELSE [Account(h, "descriptor", -1) EXCEPT !.descriptor = None]
FreeEp0Data(h) ==
    IF h.ep0data THEN [Account(h, "ep0data", -1) EXCEPT !.ep0data = FALSE] ELSE h
FreeMemory(h) ==
    FreeConfigMemory(FreeEp0Data(FreeDescriptor(FreeConfigs(h))))
NewEp0Data(h)    == [Account(h, "ep0data", 1) EXCEPT !.ep0data = TRUE]
NewDescriptor(h, kind) == [Account(h, "descriptor", 1) EXCEPT !.descriptor = kind]
NewConfig(h, config) ==
    [Account(h, "configs", 1) EXCEPT !.configs = <<config>> \o h.configs]
NewIfaces(h, ifs) ==
    [Account(h, "ifaces", Cardinality(DOMAIN ifs)) EXCEPT !.ifaces = ifs]

Trouble == trouble < MaxTrouble /\ trouble' = trouble + 1

\* Whether a call of malloc succeeds.
Malloc(ok) ==
    IF ok THEN UNCHANGED trouble ELSE Trouble
OutOfMemory == Hold("OUT_OF_MEMORY")

(***************************************************************************)
(* Control transfers: InitControlRead and InitControlWrite begin one, the  *)
(* interrupts end it.                                                      *)
(***************************************************************************)
Idle    == [busy |-> FALSE, ok |-> TRUE, req |-> "none", got |-> None]
Request(req) ==
    ep0' = [ep0 EXCEPT !.busy = TRUE, !.ok = FALSE, !.req = req]

\* A substate whose step sends a request, and the step that awaits its end.
Send(sub, step, req) ==
    /\ In(sub, step)
    /\ Request(req)
    /\ host' = NextStep
Answered(sub, step) == In(sub, step) /\ ~ep0.busy /\ ep0.ok
Failed(sub, step)   == In(sub, step) /\ ~ep0.busy /\ ~ep0.ok

InitErrorCounters == tries' = [tries EXCEPT !.command = CommandTries]

CheckCommandAndEnumerationAttempts ==
    /\ IF tries.command > 1
         THEN /\ host' = To(host.sub)
              /\ tries' = [tries EXCEPT !.command = @ - 1]
              /\ UNCHANGED errorCode
         ELSE /\ tries' = [command |-> 0, enumeration |-> tries.enumeration - 1]
              /\ IF tries.enumeration > 1
                   THEN host' = To("RESET_DEVICE") /\ UNCHANGED errorCode
                   ELSE Hold("CANNOT_ENUMERATE")

(***************************************************************************)
(* The drivers.  A driver is told of the end of its device only if it has  *)
(* an interface in the list, and if the address is its own.                *)
(***************************************************************************)
NoAndroid   == [address |-> 0, ifs |-> {}]
NoBluetooth == [address |-> 0, initialized |-> FALSE]

AndroidDetached(address) ==
    IF android.address = address THEN NoAndroid ELSE android
BluetoothDetached(address) ==
    IF bluetooth.address = address THEN NoBluetooth ELSE bluetooth

NotifyDetach(h, address) ==
    LET told(ids) == /\ address # 0
                     /\ \E i \in DOMAIN h.ifaces : h.ifaces[i].driver \in ids
    IN  /\ android' = IF told({"AND_INT", "AND_DEV"})
                        THEN AndroidDetached(address) ELSE android
        /\ bluetooth' = IF told({"BT_DEV"})
                          THEN BluetoothDetached(address) ELSE bluetooth

\* USBHostShutdown with the USBHostInit it ends in, which sets the state too.
\* (Mutant: the list is freed before the drivers in it are told.)
ShutdownTooSoon ==
    /\ NotifyDetach(FreeMemory(heap), info.deviceAddress)
    /\ heap' = FreeMemory(heap)
    /\ override' = NoState
Shutdown ==
    /\ NotifyDetach(heap, info.deviceAddress)
    /\ heap' = FreeMemory(heap)
    /\ override' = NoState

Unplugged == [kind |-> None, addr |-> 0, conf |-> 0]

(***************************************************************************)
(* USBHostTasks while nothing is attached.                                 *)
(***************************************************************************)
Off == [on |-> FALSE, attachIE |-> FALSE, detachIE |-> FALSE, trnIE |-> FALSE,
        timer |-> FALSE, detachIF |-> FALSE]

\* The command tries, node and count are forgotten here: each is written
\* before it is read again.  Of the error code it is kept that it is one of
\* another device.
Initialize ==
    /\ At("INITIALIZE", 0)
    /\ Shutdown
    /\ ep0' = Idle
    /\ tries' = [command |-> 0, enumeration |-> EnumerationTries]
    /\ node' = 0 /\ count' = 0
    /\ info' = [deviceAddress |-> 0, address |-> 0, conf |-> 0, driver |-> "none"]
    /\ hw' = Off
    /\ host' = To("WAIT_FOR_POWER")
    /\ errorCode' = IF errorCode = "none" THEN "none" ELSE "stale"
    /\ UNCHANGED <<device, trouble>>

\* The application lets anything have its power (USB_ApplicationEventHandler).
WaitForPower ==
    In("WAIT_FOR_POWER", 0) /\ Goes(NextSub)

TurnOnPower ==
    /\ In("TURN_ON_POWER", 0)
    /\ hw' = [hw EXCEPT !.on = TRUE, !.attachIE = TRUE]
    /\ host' = NextSub
    /\ UNCHANGED <<override, enumeration, ep0, drivers, device, trouble>>

(***************************************************************************)
(* STATE_ATTACHED.                                                         *)
(***************************************************************************)
StartSettling ==
    /\ At("SETTLE", 0)
    /\ hw' = [hw EXCEPT !.detachIF = FALSE, !.detachIE = TRUE, !.timer = TRUE]
    /\ host' = [sub |-> "SETTLE", step |-> 1]
    /\ override' = NoState
    /\ UNCHANGED <<enumeration, ep0, drivers, device, trouble>>

SettlingDone ==
    In("SETTLE", 2) /\ Goes(NextSub)

\* The address of the tokens is that of a device that was reset.
\* (Mutant: it stays.)
KeepsAddress(i) == [i EXCEPT !.conf = 0, !.driver = "none"]
AfterReset(i)   == [i EXCEPT !.address = 0, !.conf = 0, !.driver = "none"]
SetReset ==
    /\ In("RESET_DEVICE", 0)
    /\ \E ok \in BOOLEAN :
          /\ Malloc(ok)
          /\ IF ok
               THEN /\ heap' = NewEp0Data(FreeEp0Data(heap))
                    /\ info' = AfterReset(info)
                    /\ tries' = [tries EXCEPT !.command = CommandTries]
                    /\ hw' = [hw EXCEPT !.timer = TRUE]
                    /\ device' = [device EXCEPT !.addr = 0, !.conf = 0]
                    /\ host' = NextStep /\ UNCHANGED errorCode
               ELSE /\ heap' = FreeEp0Data(heap)
                    /\ OutOfMemory
                    /\ UNCHANGED <<info, tries, hw, device>>
    /\ UNCHANGED <<override, node, count, ep0, drivers>>

ResetRecovery ==
    /\ In("RESET_DEVICE", 2)
    /\ hw' = [hw EXCEPT !.timer = TRUE]
    /\ host' = NextStep
    /\ UNCHANGED <<override, enumeration, ep0, drivers, device, trouble>>

ResetComplete ==
    /\ In("RESET_DEVICE", 4)
    /\ hw' = [hw EXCEPT !.trnIE = TRUE, !.detachIE = TRUE]
    /\ host' = NextSub
    /\ UNCHANGED <<override, enumeration, ep0, drivers, device, trouble>>

SendGetDeviceDescriptorSize ==
    /\ Send("GET_DEVICE_DESCRIPTOR_SIZE", 0, "DEVICE_DESCRIPTOR")
    /\ heap' = FreeDescriptor(heap)
    /\ UNCHANGED <<override, errorCode, tries, info, node, count, hw, drivers,
                   device, trouble>>

WaitForGetDeviceDescriptorSize ==
    /\ Answered("GET_DEVICE_DESCRIPTOR_SIZE", 1)
    /\ IF ep0.got.hub THEN Hold("UNSUPPORTED_HUB")
                      ELSE host' = NextStep /\ UNCHANGED errorCode
    /\ UNCHANGED <<override, tries, info, heap, node, count, rest>>

\* The buffer for endpoint 0 is made anew, as large as its packets.
GetDeviceDescriptorSizeComplete ==
    /\ In("GET_DEVICE_DESCRIPTOR_SIZE", 2)
    /\ \E got \in {"both", "first", "none"} :
          LET first == NewDescriptor(heap, ep0.got)
          IN  /\ Malloc(got = "both")
              /\ heap' = CASE got = "both"  -> NewEp0Data(FreeEp0Data(first))
                           [] got = "first" -> FreeEp0Data(first)
                           [] got = "none"  -> heap
              /\ IF got = "both"
                   THEN /\ InitErrorCounters
                        /\ host' = NextSub /\ UNCHANGED errorCode
                   ELSE OutOfMemory /\ UNCHANGED tries
    /\ UNCHANGED <<override, info, node, count, ep0, hw, drivers, device>>

SendGetDeviceDescriptor ==
    /\ Send("GET_DEVICE_DESCRIPTOR", 0, "DEVICE_DESCRIPTOR")
    /\ UNCHANGED <<override, enumeration, hw, drivers, device, trouble>>

WaitForGetDeviceDescriptor ==
    /\ Answered("GET_DEVICE_DESCRIPTOR", 1)
    /\ heap' = [heap EXCEPT !.descriptor = ep0.got]
    /\ host' = NextStep
    /\ UNCHANGED <<override, errorCode, tries, info, node, count, rest>>

GetDeviceDescriptorComplete ==
    /\ In("GET_DEVICE_DESCRIPTOR", 2)
    /\ InitErrorCounters
    /\ host' = NextSub
    /\ UNCHANGED <<override, errorCode, info, heap, node, count, rest>>

\* The driver of the first entry of the list that fits.
FindDriver(id, interface) ==
    LET fits == {i \in DOMAIN usbTPL :
                   usbTPL[i].id = id /\ usbTPL[i].interface = interface}
    IN  IF fits = {} THEN "none" ELSE usbTPL[Min(fits)].driver
FindDeviceLevelClientDriver == FindDriver(heap.descriptor.id, FALSE)
FindClassDriver(class) == FindDriver(class, TRUE)

ValidateVidPid ==
    /\ In("VALIDATE_VID_PID", 0)
    /\ info' = [info EXCEPT !.driver = FindDeviceLevelClientDriver]
    /\ host' = NextSub
    /\ UNCHANGED <<override, errorCode, tries, heap, node, count, rest>>

(***************************************************************************)
(* STATE_ADDRESSING.                                                       *)
(***************************************************************************)
SendSetDeviceAddress ==
    /\ Send("SET_DEVICE_ADDRESS", 0, "SET_ADDRESS")
    /\ info' = [info EXCEPT !.deviceAddress = 1]
    /\ UNCHANGED <<override, errorCode, tries, heap, node, count, hw, drivers,
                   device, trouble>>

WaitForSetDeviceAddress ==
    Answered("SET_DEVICE_ADDRESS", 1) /\ Goes(NextStep)

SetDeviceAddressComplete ==
    /\ In("SET_DEVICE_ADDRESS", 2)
    /\ info' = [info EXCEPT !.address = info.deviceAddress]
    /\ InitErrorCounters
    /\ host' = NextSub
    /\ UNCHANGED <<override, errorCode, heap, node, count, rest>>

(***************************************************************************)
(* STATE_CONFIGURING.                                                      *)
(***************************************************************************)
InitConfiguration ==
    /\ In("INIT_CONFIGURATION", 0)
    /\ count' = Len(heap.descriptor.configs)
    /\ heap' = FreeConfigs(heap)
    /\ host' = NextSub
    /\ UNCHANGED <<override, errorCode, tries, info, node, rest>>

SendGetConfigDescriptorSize ==
    /\ Send("GET_CONFIG_DESCRIPTOR_SIZE", 0, "CONFIG_DESCRIPTOR")
    /\ UNCHANGED <<override, enumeration, hw, drivers, device, trouble>>

WaitForGetConfigDescriptorSize ==
    Answered("GET_CONFIG_DESCRIPTOR_SIZE", 1) /\ Goes(NextStep)

\* The list is built from its end: the first configuration comes to its head.
GetConfigDescriptorSizeComplete ==
    /\ In("GET_CONFIG_DESCRIPTOR_SIZE", 2)
    /\ \E ok \in BOOLEAN :
          /\ Malloc(ok)
          /\ IF ok
               THEN /\ heap' = NewConfig(heap, [num |-> count, ifs |-> <<>>])
                    /\ InitErrorCounters
                    /\ host' = NextSub /\ UNCHANGED errorCode
               ELSE OutOfMemory /\ UNCHANGED <<heap, tries>>
    /\ UNCHANGED <<override, info, node, count, ep0, hw, drivers, device>>

SendGetConfigDescriptor ==
    /\ Send("GET_CONFIG_DESCRIPTOR", 0, "CONFIG_DESCRIPTOR")
    /\ UNCHANGED <<override, enumeration, hw, drivers, device, trouble>>

WaitForGetConfigDescriptor ==
    /\ Answered("GET_CONFIG_DESCRIPTOR", 1)
    /\ heap' = [heap EXCEPT !.configs[1].ifs = ep0.got.configs[count]]
    /\ host' = NextStep
    /\ UNCHANGED <<override, errorCode, tries, info, node, count, rest>>

GetConfigDescriptorComplete ==
    /\ In("GET_CONFIG_DESCRIPTOR", 2)
    /\ InitErrorCounters
    /\ count' = count - 1
    /\ host' = IF count > 1 THEN To("GET_CONFIG_DESCRIPTOR_SIZE") ELSE NextSub
    /\ UNCHANGED <<override, errorCode, info, heap, node, rest>>

\* ParseConfigurationDescriptor: the interfaces it takes, and the driver of
\* each.  Nothing depends on the order of the list it makes of them: an
\* interface keeps its place in the configuration.
DriverOf(interface) ==
    IF info.driver # "none" THEN info.driver ELSE FindClassDriver(interface.id)
Claimed(ifs) ==
    [i \in {j \in DOMAIN ifs : DriverOf(ifs[j]) # "none"} |->
        [num |-> ifs[i].num, whole |-> ifs[i].whole, driver |-> DriverOf(ifs[i])]]

\* Its settings and endpoints: without the memory for one, all is freed again.
\* (For an interface itself the code goes on with a null pointer, and that is
\* left out.)
Parsed(ifs, ok) == IF ok THEN Claimed(ifs) ELSE <<>>

\* The first configuration with an interface for a driver.  Memory may run
\* out for one.
SelectConfiguration ==
    /\ In("SELECT_CONFIGURATION", 0)
    /\ \E ok \in BOOLEAN :
         LET usable == {n \in DOMAIN heap.configs : Parsed(heap.configs[n].ifs, TRUE) # <<>>}
             left   == {n \in usable : Parsed(heap.configs[n].ifs, ok \/ n # Min(usable)) # <<>>}
             freed  == FreeConfigMemory(heap)
         IN  /\ Malloc(ok)
             /\ \/ left = {} /\ node' = 0 /\ heap' = freed /\ UNCHANGED info
                \/ \E n \in left :
                     /\ \A k \in left : n <= k
                     /\ node' = n
                     /\ info' = [info EXCEPT !.conf = heap.configs[n].num]
                     /\ heap' = NewIfaces(freed, Parsed(heap.configs[n].ifs, TRUE))
             /\ host' = IF left = {} THEN NextSub ELSE NextStep
    /\ UNCHANGED <<override, errorCode, tries, count, ep0, hw, drivers,
                   device>>

SendSetOtg == In("SELECT_CONFIGURATION", 1) /\ Goes(NextSub)

\* The accessory protocol is tried on a device no configuration of which has
\* a driver.  The transfers of the strings are commented out: the steps that
\* go over them six times find the end of the request before.
SkipAccessory ==
    /\ In("ENABLE_ACCESSORY", 0) /\ node # 0
    /\ Goes(NextSub)

SendGetProtocol ==
    /\ node = 0
    /\ Send("ENABLE_ACCESSORY", 0, "GET_PROTOCOL")
    /\ UNCHANGED <<override, enumeration, hw, drivers, device, trouble>>

WaitForGetProtocol ==
    /\ Answered("ENABLE_ACCESSORY", 1)
    /\ Goes(IF ep0.got.protocol = 0 THEN NextSub ELSE NextStep)

SendAccessoryStrings ==
    In("ENABLE_ACCESSORY", 2) /\ Goes([host EXCEPT !.step = 4])

SendStartAccessory ==
    /\ Send("ENABLE_ACCESSORY", 4, "START_ACCESSORY")
    /\ UNCHANGED <<override, enumeration, hw, drivers, device, trouble>>

\* The phone will come back as an accessory: this device is done with.  What
\* errorCode says is left as it was.
WaitForStartAccessory ==
    /\ Answered("ENABLE_ACCESSORY", 5)
    /\ Goes(To("HOLD_INIT"))

AccessoryFails ==
    /\ \E step \in {1, 5} : Failed("ENABLE_ACCESSORY", step)
    /\ Goes(NextSub)

Unsupported ==
    /\ In("SET_CONFIGURATION", 0) /\ node = 0
    /\ Hold("UNSUPPORTED_DEVICE")
    /\ UNCHANGED <<override, tries, info, heap, node, count, rest>>

SendSetConfiguration ==
    /\ node # 0
    /\ Send("SET_CONFIGURATION", 0, "SET_CONFIGURATION")
    /\ UNCHANGED <<override, enumeration, hw, drivers, device, trouble>>

WaitForSetConfiguration ==
    Answered("SET_CONFIGURATION", 1) /\ Goes(NextStep)

SetConfigurationComplete ==
    /\ In("SET_CONFIGURATION", 2)
    /\ InitErrorCounters
    /\ host' = NextStep
    /\ UNCHANGED <<override, errorCode, info, heap, node, count, rest>>

(***************************************************************************)
(* INIT_CLIENT_DRIVERS: the driver of the device once, or that of every    *)
(* interface; the loop goes on after one that fails.                       *)
(***************************************************************************)
Whole == {i \in DOMAIN heap.ifaces : heap.ifaces[i].whole}

\* USBHostAndroidInitInterface for the whole ones, which are known by iids.
AndroidInitInterfaces(before, iids) ==
    IF Whole = {} THEN before
    ELSE [address |-> info.deviceAddress, ifs |-> before.ifs \union iids]

\* The flags of its entry in usbClientDrvTable say that AND_INT is ADB's.
AdbInterface == 1
AndroidInitInterface == AndroidInitInterfaces(android, {AdbInterface})
AndroidInitDevice ==
    AndroidInitInterfaces(NoAndroid, {heap.ifaces[i].num : i \in Whole})
BluetoothInit(fine) == [address |-> info.deviceAddress, initialized |-> fine]

InitClientDrivers ==
    /\ In("SET_CONFIGURATION", 3)
    /\ LET fine == CASE info.driver = "AND_DEV" -> TRUE
                     [] info.driver = "BT_DEV"  -> Whole # {}
                     [] OTHER                   -> Whole = DOMAIN heap.ifaces
       IN  /\ android' =
                CASE info.driver = "AND_DEV" -> AndroidInitDevice
                  [] info.driver = "BT_DEV"  -> android
                  [] OTHER                   -> AndroidInitInterface
           /\ bluetooth' =
                IF info.driver = "BT_DEV" THEN BluetoothInit(fine) ELSE bluetooth
           /\ IF fine THEN host' = NextSub /\ UNCHANGED errorCode
                      ELSE Hold("CLIENT_INIT_ERROR")
    /\ UNCHANGED <<override, tries, info, heap, node, count, ep0, hw, device,
                   trouble>>

\* The steps of the enumeration that try again when a request fails.
RequestFails ==
    /\ \/ Failed("GET_DEVICE_DESCRIPTOR_SIZE", 1)
       \/ Failed("GET_DEVICE_DESCRIPTOR", 1)
       \/ Failed("SET_DEVICE_ADDRESS", 1)
       \/ Failed("GET_CONFIG_DESCRIPTOR_SIZE", 1)
       \/ Failed("GET_CONFIG_DESCRIPTOR", 1)
       \/ Failed("SET_CONFIGURATION", 1)
    /\ CheckCommandAndEnumerationAttempts
    /\ UNCHANGED <<override, info, heap, node, count, rest>>

\* STATE_HOLDING: nothing but the end of the device is awaited.  A flag that is
\* set after the interrupts were turned off is cleared in the same call.
\* (Mutant: and not even the end is awaited.)
HoldDeaf ==
    /\ In("HOLD_INIT", 0)
    /\ hw' = [Off EXCEPT !.on = TRUE]
    /\ host' = NextSub
    /\ device' \in IF QuickUnplug THEN {device, Unplugged} ELSE {device}
    /\ UNCHANGED <<override, enumeration, ep0, drivers, trouble>>
HoldInit ==
    /\ In("HOLD_INIT", 0)
    /\ hw' = [Off EXCEPT !.on = TRUE, !.detachIE = TRUE]
    /\ host' = NextSub
    /\ device' \in IF QuickUnplug THEN {device, Unplugged} ELSE {device}
    /\ UNCHANGED <<override, enumeration, ep0, drivers, trouble>>

Tasks ==
    \/ Initialize \/ WaitForPower \/ TurnOnPower
    \/ StartSettling \/ SettlingDone
    \/ SetReset \/ ResetRecovery \/ ResetComplete
    \/ SendGetDeviceDescriptorSize \/ WaitForGetDeviceDescriptorSize
    \/ GetDeviceDescriptorSizeComplete
    \/ SendGetDeviceDescriptor \/ WaitForGetDeviceDescriptor
    \/ GetDeviceDescriptorComplete \/ ValidateVidPid
    \/ SendSetDeviceAddress \/ WaitForSetDeviceAddress
    \/ SetDeviceAddressComplete
    \/ InitConfiguration
    \/ SendGetConfigDescriptorSize \/ WaitForGetConfigDescriptorSize
    \/ GetConfigDescriptorSizeComplete
    \/ SendGetConfigDescriptor \/ WaitForGetConfigDescriptor
    \/ GetConfigDescriptorComplete
    \/ SelectConfiguration \/ SendSetOtg
    \/ SkipAccessory \/ SendGetProtocol \/ WaitForGetProtocol
    \/ SendAccessoryStrings
    \/ SendStartAccessory \/ WaitForStartAccessory \/ AccessoryFails
    \/ Unsupported \/ SendSetConfiguration \/ WaitForSetConfiguration
    \/ SetConfigurationComplete \/ InitClientDrivers
    \/ RequestFails \/ HoldInit

(***************************************************************************)
(* The drivers' clients and the application, between two calls.            *)
(***************************************************************************)
\* USBHostResetDevice, by USBHostAndroidReset and USBHostBluetoothReset: the
\* driver does not wait to be told.
ResetDevice(address) ==
    /\ Trouble
    /\ ~Pending
    /\ address # 0
    /\ host' = IF address = info.deviceAddress /\ StateOf[host.sub] # "DETACHED"
                 THEN To("INITIALIZE") ELSE host
    /\ UNCHANGED <<override, enumeration, ep0, hw, device>>
AndroidReset ==
    ResetDevice(android.address) /\ android' = NoAndroid /\ UNCHANGED bluetooth
BluetoothReset ==
    /\ bluetooth.initialized
    /\ ResetDevice(bluetooth.address) /\ bluetooth' = NoBluetooth
    /\ UNCHANGED android

\* ConnectionResetUSB: the module is off till it is initialized again.
ResetUSB ==
    /\ Trouble
    /\ ~Pending
    /\ Shutdown
    /\ host' = To("INITIALIZE")
    /\ hw' = [hw EXCEPT !.on = FALSE]
    /\ info' = [info EXCEPT !.deviceAddress = 0, !.address = 0]
    /\ UNCHANGED <<errorCode, tries, node, count, ep0, device>>

\* USBHostIssueDeviceRequest, for a command of Bluetooth.
IssueDeviceRequest ==
    /\ ~Pending
    /\ bluetooth.initialized /\ bluetooth.address = info.deviceAddress
    /\ StateOf[host.sub] = "RUNNING"
    /\ ~ep0.busy
    /\ Request("COMMAND")
    /\ UNCHANGED <<host, override, enumeration, hw, drivers, device, trouble>>

(***************************************************************************)
(* The interrupts.                                                         *)
(***************************************************************************)
TimerInterrupt ==
    /\ hw.on /\ hw.timer
    /\ hw' = [hw EXCEPT !.timer = FALSE]
    /\ host' = NextStep
    /\ UNCHANGED <<override, enumeration, ep0, drivers, device, trouble>>

\* The flag is set as long as a device is there.
AttachInterrupt ==
    /\ hw.on /\ hw.attachIE /\ device.kind # None
    /\ hw' = [hw EXCEPT !.attachIE = FALSE]
    /\ override' = IF host = To("WAIT_FOR_DEVICE") THEN To("SETTLE") ELSE override
    /\ UNCHANGED <<host, enumeration, ep0, drivers, device, trouble>>

DetachInterrupt ==
    /\ hw.on /\ hw.detachIE /\ hw.detachIF
    /\ hw' = [hw EXCEPT !.detachIE = FALSE, !.detachIF = FALSE]
    /\ override' = To("INITIALIZE")
    /\ UNCHANGED <<host, enumeration, ep0, drivers, device, trouble>>

\* The end of a control transfer: of one the device answers, of one it
\* refuses, or of one that gets no answer.  A fault may come after the device
\* did what it was asked to.
Answers == device.kind # None /\ device.addr = info.address
Refuses == ep0.req = "GET_PROTOCOL" /\ device.kind.protocol = -1
Obeys ==
    device' = CASE ep0.req = "SET_ADDRESS"       -> [device EXCEPT !.addr = 1]
                [] ep0.req = "SET_CONFIGURATION" -> [device EXCEPT !.conf = info.conf]
                [] OTHER -> device

TransferEnds ==
    /\ hw.on /\ hw.trnIE /\ ep0.busy
    /\ \/ /\ Answers /\ ~Refuses
          /\ ep0' = [ep0 EXCEPT !.busy = FALSE, !.ok = TRUE, !.got = device.kind]
          /\ Obeys
          /\ UNCHANGED trouble
       \/ /\ Answers => Refuses
          /\ ep0' = [ep0 EXCEPT !.busy = FALSE]
          /\ UNCHANGED <<device, trouble>>
       \/ /\ Answers /\ Trouble
          /\ ep0' = [ep0 EXCEPT !.busy = FALSE]
          /\ Obeys \/ UNCHANGED device
    /\ UNCHANGED <<host, override, enumeration, hw, drivers>>

Interrupts == TimerInterrupt \/ AttachInterrupt \/ DetachInterrupt \/ TransferEnds

(***************************************************************************)
(* The user.                                                               *)
(***************************************************************************)
Plug ==
    /\ device.kind = None
    /\ \E kind \in Kinds : device' = [Unplugged EXCEPT !.kind = kind]
    /\ UNCHANGED <<host, override, enumeration, ep0, hw, drivers, trouble>>

\* The module sees it even with the interrupt disabled: the flag waits.
Unplug ==
    /\ device.kind # None
    /\ QuickUnplug \/ override # To("SETTLE")
    /\ device' = Unplugged
    /\ hw' = [hw EXCEPT !.detachIF = hw.on]
    /\ UNCHANGED <<host, override, enumeration, ep0, drivers, trouble>>

Init ==
    /\ host = To("INITIALIZE") /\ override = NoState
    /\ errorCode = "none"
    /\ tries = [command |-> 0, enumeration |-> 0]
    /\ info = [deviceAddress |-> 0, address |-> 0, conf |-> 0, driver |-> "none"]
    /\ heap = [ep0data |-> FALSE, descriptor |-> None, configs |-> <<>>,
               ifaces |-> <<>>,
               blocks |-> [ep0data |-> 0, descriptor |-> 0, configs |-> 0, ifaces |-> 0]]
    /\ node = 0 /\ count = 0
    /\ ep0 = Idle
    /\ hw = Off
    /\ android = NoAndroid /\ bluetooth = NoBluetooth
    /\ device = Unplugged
    /\ trouble = 0

Next ==
    \/ Tasks
    \/ AndroidReset \/ BluetoothReset \/ ResetUSB \/ IssueDeviceRequest
    \/ Interrupts
    \/ Plug \/ Unplug

Spec == Init /\ [][Next]_vars
FairSpec ==
    /\ Spec
    /\ WF_vars(Tasks)
    /\ WF_vars(TimerInterrupt) /\ WF_vars(AttachInterrupt)
    /\ WF_vars(DetachInterrupt) /\ WF_vars(TransferEnds)

-----------------------------------------------------------------------------
(***************************************************************************)
(* Properties.                                                             *)
(***************************************************************************)

\* What malloc gave is what the pointers and lists of the host hold: nothing
\* is lost or freed twice when an enumeration is tried again, a configuration
\* is given up or the device leaves in the middle.
Balanced(h) ==
    /\ h.blocks.ep0data = IF h.ep0data THEN 1 ELSE 0
    /\ h.blocks.descriptor = IF h.descriptor = None THEN 0 ELSE 1
    /\ h.blocks.configs = Len(h.configs)
    /\ h.blocks.ifaces = Cardinality(DOMAIN h.ifaces)
NothingLeaks == Balanced(heap)

\* A driver that has an interface has it on the device that is plugged in,
\* addressed and configured since it was: the driver of the device before was
\* told that it left (_USB_NotifyClients in USBHostShutdown).
Leaving == \/ hw.detachIE /\ hw.detachIF
           \/ Now.sub = "INITIALIZE"
DriversHaveADevice ==
    android.ifs # {} \/ bluetooth.initialized =>
        Leaving \/ (device.kind # None /\ device.addr = 1 /\ device.conf # 0)

\* A device that answers is not given up for fewer requests that fail than
\* the host tries enumerations: whatever the steps that failed, the next try
\* finds the device and the host with the same address (USB_CANNOT_ENUMERATE).
FaultsAreOvercome == errorCode = "CANNOT_ENUMERATE" => trouble >= EnumerationTries

\* A device that leaves is missed: the host awaits the next.
UnplugNoticed ==
    device.kind = None ~> device.kind # None \/ host.sub = "WAIT_FOR_DEVICE"

=============================================================================
