----------------------------- MODULE MCUsbHost -----------------------------
\* Devices for UsbHost: a phone that refuses the accessory protocol and has ADB
\* in its second configuration, one that knows the protocol, the accessory it
\* becomes, a Bluetooth dongle, a hub, and one whose ADB interfaces are not
\* both as the driver wants them.
EXTENDS UsbHost

Iface(num, id, whole) == [num |-> num, id |-> id, whole |-> whole]
Plain(configs) ==
    [hub |-> FALSE, id |-> "other", protocol |-> -1, configs |-> configs]

Storage  == Iface(0, "other", TRUE)
Phone    == Plain(<< <<Storage>>, <<Storage, Iface(1, "ADB", TRUE)>> >>)
NewPhone == [Plain(<< <<Storage>> >>) EXCEPT !.protocol = 1]
Accessory == [Plain(<< <<Storage, Iface(1, "ADB", TRUE)>> >>) EXCEPT !.id = "ACCESSORY_ADB"]
Dongle   == [Plain(<< <<Storage>> >>) EXCEPT !.id = "BLUETOOTH"]
Hub      == [Plain(<< <<Storage>> >>) EXCEPT !.hub = TRUE]
HalfAdb  == Plain(<< <<Iface(0, "ADB", TRUE), Iface(1, "ADB", FALSE)>> >>)

MCKinds == {Phone, NewPhone, Accessory, Dongle, Hub, HalfAdb}
=============================================================================
