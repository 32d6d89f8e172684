----------------------------- MODULE MCSerialPort -----------------------------
EXTENDS SerialPort

CONSTANTS b1, b2

MCData == {b1, b2}
=============================================================================
