-------------------------- MODULE MCReceiveSession --------------------------
EXTENDS ReceiveSession, TLC
CONSTANTS p1, p2, p3, f1, f2, f3, f4, u1, u2, a, b

MCOffer == [p \in Prepares |-> CASE p = p1 -> {f1} [] p = p2 -> {f2, f3} [] p = p3 -> {f4}]
MCIp == [p \in Prepares |-> IF p = p3 THEN b ELSE a]
=============================================================================
