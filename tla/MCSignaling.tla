---------------------------- MODULE MCSignaling ----------------------------
EXTENDS Signaling
CONSTANTS c1, c2, c3

OneTalker == [c \in Peers |-> IF c = c1 THEN 1 ELSE 0]
OneTalksTwice == [c \in Peers |-> IF c = c1 THEN 2 ELSE 0]
=============================================================================
