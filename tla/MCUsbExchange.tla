--------------------------- MODULE MCUsbExchange ---------------------------
EXTENDS UsbExchange
CONSTANTS a, q, d1

\* "a?" is not a Windows name: it becomes that of another file on the phone.
MCSafe == [n \in Names |-> a]
\* So is the file of the PC.
MCNameOf == [f \in PcFiles |-> a]
=============================================================================
