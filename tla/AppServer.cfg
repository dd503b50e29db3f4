SPECIFICATION Spec
CONSTANTS
    Clients = {1, 2}
PROPERTIES
    Tuned
    ClientsEnd
CHECK_DEADLOCK FALSE
