--------------------------- MODULE MCWebRtcTransfer ---------------------------
(***************************************************************************)
(* WebRtcTransfer on small instances: every combination of PINs with keys   *)
(* that are not expected, as expected or not as expected, a single file and *)
(* nothing that fails; and two files with neither PIN nor key, where the    *)
(* network and the disk may fail.                                           *)
(***************************************************************************)
EXTENDS WebRtcTransfer
CONSTANTS f1, f2, right, wrong
Keys == {[S |-> None, R |-> None], [S |-> "R", R |-> "S"],
         [S |-> "X", R |-> None], [S |-> "R", R |-> "X"]}
Handshakes == {[pin |-> [S |-> s, R |-> r], key |-> k, files |-> {f1},
                 chunks |-> 2, faults |-> {}] :
                 s \in {None, right}, r \in {None, right}, k \in Keys}
Plain(files, faults) ==
  [pin |-> [s \in Sides |-> None], key |-> [s \in Sides |-> None], files |-> files,
   chunks |-> 1, faults |-> faults]
MCSetups == Handshakes \cup {Plain({f1, f2}, {"write"}), Plain({f1, f2}, {"network"})}
=============================================================================
