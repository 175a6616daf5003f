--------------------------- MODULE MCSendSession ---------------------------
EXTENDS SendSession
CONSTANTS f1, f2, f3

\* A foreground session with more files than workers, and a small one that
\* runs in the background.
MCOffer == [s \in Sessions |-> IF s = 1 THEN {f1, f2, f3} ELSE {f1}]
=============================================================================
