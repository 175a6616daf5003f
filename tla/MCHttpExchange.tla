---------------------------- MODULE MCHttpExchange ----------------------------
(***************************************************************************)
(* HttpExchange with two Rust servers, s with TLS and the legacy routes and *)
(* c without either, two devices, p and q, with the app's server, and x,    *)
(* whose certificate is not valid any more.  Four questions, each with the  *)
(* calls it needs: every operation by itself; a server that starts, fails   *)
(* and stops under a call; registration, request and upload while an        *)
(* address changes hands; three exchanges of nonces at once.                *)
(***************************************************************************)
EXTENDS HttpExchange
CONSTANTS c, s, p, q, x, hc, hs, hp, hq, hx, s6, c6

MCHome ==
  [h \in Hosts |-> CASE h \in {hc, c6} -> c [] h \in {hs, s6} -> s [] h = hp -> p
                     [] h = hq -> q [] h = hx -> x]
Request(from, host, op, https) ==
  [from |-> from, host |-> host, op |-> op, https |-> https,
   anonymous |-> FALSE, pinned |-> TRUE, size |-> 32]
Nonce(from, host, https) == Request(from, host, "nonce3", https)

Singly ==
  {Request(c, host, op, TRUE) : host \in {hs, hp}, op \in Operations}
    \cup {Request(s, hc, op, FALSE) : op \in Operations}
    \cup {[Nonce(c, hs, TRUE) EXCEPT !.size = n] : n \in {15, 16, 128, 129}}
    \cup {[Request(d, hs, "register2", TRUE) EXCEPT !.anonymous = a] : d \in {p, x}, a \in BOOLEAN}
    \cup {Request(c, hx, "register2", TRUE), Request(c, hs, "register2", FALSE)}
Starting == {Request(c, hs, "register3", TRUE), Request(c, s6, "register3", TRUE)}
Sending == {Request(c, hp, op, TRUE) : op \in {"register2", "prepare2", "upload2"}}
Exchanging == {Nonce(c, hs, TRUE), Nonce(p, hs, TRUE), Nonce(p, hc, FALSE)}

Look(requests, number, hosts, servers) ==
  [plans |-> requests, count |-> number, moving |-> hosts, booting |-> servers]
MCSetups == {Look(Singly, 1, {}, {}), Look(Starting, 2, {}, {s}), Look(Sending, 2, {hp, hq}, {}),
             Look(Exchanging, 3, {}, {})}
=============================================================================
