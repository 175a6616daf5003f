---------------------------- MODULE FileDelivery ----------------------------
(***************************************************************************)
(* What a receiver of files promises, whatever protocol it speaks: a file  *)
(* is written only after the person at the receiving device (or a setting  *)
(* of theirs) agreed to it, and the sender is told "received" only of a    *)
(* file that has been written.  None of the three facts is ever withdrawn. *)
(* Module ReceiveSession implements this specification.                    *)
(***************************************************************************)
CONSTANT Files                  \* the files that may be offered

VARIABLES consented,            \* files the receiving side agreed to
          stored,               \* files written in full
          acked                 \* files whose sender was told "received"

fdVars == <<consented, stored, acked>>

Init == /\ consented = {}
        /\ stored = {}
        /\ acked = {}

\* The receiving side agrees to the files of S.
Consent(S) == /\ consented' = consented \cup S
              /\ UNCHANGED <<stored, acked>>

Store(f) == /\ f \in consented
            /\ stored' = stored \cup {f}
            /\ UNCHANGED <<consented, acked>>

Ack(f) == /\ f \in stored
          /\ acked' = acked \cup {f}
          /\ UNCHANGED <<consented, stored>>

Next == \/ \E S \in SUBSET Files : Consent(S)
        \/ \E f \in Files : Store(f) \/ Ack(f)

Spec == Init /\ [][Next]_fdVars

=============================================================================
