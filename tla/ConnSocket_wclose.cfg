\* One message, a socket whose buffer fills up, one thread.
CONSTANTS
    MaxOut = 1
    MaxIn = 0
    MaxRoom = 1
    MaxEagain = 1
    Multithread = FALSE
SPECIFICATION SocketSpec
PROPERTIES
    WriteCloseCloses
CHECK_DEADLOCK FALSE
