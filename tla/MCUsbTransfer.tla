--------------------------- MODULE MCUsbTransfer ---------------------------
\* A packet holds two units: a message of one is short, one of two needs an
\* empty packet to end it.
EXTENDS UsbTransfer, FiniteSets

MCSizes == {1, 2}

\* Two of the endpoints, one of which is of bulk type.
MCUses == {u \in SUBSET Eps : Cardinality(u) = 2 /\ u # {"ep0", "intIn"}}
=============================================================================
