---------------------------- MODULE MCConnection ----------------------------
\* A phone in accessory mode, with and without ADB, a phone with ADB only, and
\* a Bluetooth dongle.
EXTENDS Connection

MCDevices == {{"ACC"}, {"ACC", "ADB"}, {"ADB"}, {"BT"}}
=============================================================================
