----------------------------- MODULE HttpExchange -----------------------------
(***************************************************************************)
(* Protocol 2 and 3 over HTTP as core/src/http speaks it: the clients       *)
(* (client/mod.rs, v2.rs, v3.rs), the server (server/mod.rs and its         *)
(* controllers) with its two listeners, and the maps in which both ends     *)
(* remember the nonces they have exchanged.                                 *)
(*                                                                          *)
(* A device is a client and may be a server; its key is the device itself.  *)
(* A host is an address, which belongs to one device at a time.  A call is  *)
(* one request of a client and its response; calls run at the same time.    *)
(* The servers of Dart are the app's, which is external here: they answer   *)
(* with any status the comments of client/v2.rs list.                       *)
(***************************************************************************)
EXTENDS Naturals, Sequences, FiniteSets

CONSTANTS
  Devices,
  Dart,       \* devices whose server is the app's
  Tls,        \* devices whose server was given a TlsConfig
  Legacy,     \* devices whose server was started with legacy_enabled
  Expired,    \* devices whose certificate is not valid any more
  Hosts,
  V6,         \* hosts that are IPv6 addresses
  Home,       \* whose address a host is at first
  Setups,     \* what is looked at: calls, and what changes under them
  Capacity,   \* entries a nonce map holds (200 in the code)
  None

Operations ==
  {"nonce3", "register3", "prepare3", "upload3", "cancel3", "register2", "prepare2",
   "upload2", "cancel2", "info2", "prepareDownload2", "download2"}
\* ClientError, as far as it is told apart.
Results == {"ok", "status", "reqwest", "other"}
\* Who calls which host with what; https or not, with the client's certificate or
\* without (try_new_without_cert), with the key the host is known by or without,
\* and how long the nonce is.
Plan == [from : Devices, host : Hosts, op : Operations, https : BOOLEAN,
         anonymous : BOOLEAN, pinned : BOOLEAN, size : Nat]
\* Up to `count` calls of these plans; two of the `moving` hosts may change hands once;
\* start_with_port of the `booting` servers has just returned, and they may fail.
IsSetup(w) ==
  /\ w.plans \subseteq Plan /\ None \notin w.plans /\ w.count \in Nat \ {0} /\ w.moving \subseteq Hosts
  /\ w.booting \subseteq Devices \ Dart

ASSUME ConstantsAssumption ==
  /\ \A ds \in {Dart, Tls, Legacy, Expired} : ds \subseteq Devices
  /\ V6 \subseteq Hosts /\ Home \in [Hosts -> Devices]
  /\ (\A w \in Setups : IsSetup(w)) /\ Capacity \in Nat \ {0}
  /\ None \notin Devices \cup Hosts \cup Results

Calls == UNION {1..w.count : w \in Setups}
Roles == {"client", "server"}
Ends == Devices \X Roles
Families == {4, 6}

VARIABLES
  setup,      \* which of Setups this is
  owner,      \* the device a host belongs to
  moved,      \* addresses have changed hands
  listener,   \* the listeners of start_with_port
  plan,       \* what each call is, None before it starts
  phase,      \* how far it is
  to,         \* the device that has accepted it
  caller,     \* the address it came from
  key,        \* the public key it was given to expect
  reply,      \* the response on its way
  result,     \* what the caller is told
  before,     \* history: calls that had ended when it started
  received,   \* received_nonce_map, oldest entry first, of clients and servers
  generated,  \* generated_nonce_map
  known       \* the key a client's user knows a host by

network == <<setup, owner, moved, listener>>
calls   == <<plan, phase, to, caller, key, reply, result, before>>
maps    == <<received, generated>>
vars == <<network, calls, maps, known>>

-----------------------------------------------------------------------------
(* Responses and what a client makes of them *)

Reply(status, dto) == [status |-> status, dto |-> dto]
\* Nobody tells the error statuses apart; 404 is the server's own, 400 any other.
Replies == [status : {200, 204, 400, 404}, dto : BOOLEAN]

Uses2(op) == op \notin {"nonce3", "register3", "prepare3", "upload3", "cancel3"}

\* The first thing that goes wrong is what the caller is told.
Told(checks) ==
  LET wrong == {i \in DOMAIN checks : ~checks[i][1]} IN
  IF wrong = {} THEN "ok" ELSE checks[CHOOSE i \in wrong : \A j \in wrong : i <= j][2]

\* Mutation: the public key is not compared.
AnyKey(device, expected) == device \notin Expired

\* verify_cert_from_der: a valid certificate, with the key that is expected.
VerifyCert(device, expected) == device \notin Expired /\ expected \in {None, device}

\* verify_cert_from_res
Verified(n, expected) == plan[n].https => VerifyCert(to[n], expected)

Register2(n, r) == Told(<< <<r.status = 200, "status">>, <<Verified(n, None), "other">>,
                           <<r.dto, "reqwest">> >>)

\* Protocol 3 does not look at the status.
Register3(n, r) == Told(<< <<Verified(n, None), "other">>, <<r.dto, "reqwest">> >>)

PrepareUpload2(n, r) == Told(<< <<Verified(n, key[n]), "other">>, <<r.status < 400, "status">>,
                                <<r.status = 204 \/ r.dto, "reqwest">> >>)

PrepareUpload3(n, r) == PrepareUpload2(n, r)

Upload2(n, r) == Told(<< <<Verified(n, key[n]), "other">>, <<r.status = 200, "status">> >>)

Upload3(n, r) == Upload2(n, r)

\* Neither the certificate nor the status of the answer to a cancellation matters.
Cancel2(n, r) == "ok"

Cancel3(n, r) == "ok"

Info2(n, r) == Told(<< <<r.status = 200, "status">>, <<r.dto, "reqwest">> >>)

PrepareDownload2(n, r) == Info2(n, r)

\* The body may break off on the way to the writer.
Download2(n, r) == Told(<< <<r.status = 200, "status">>, <<r.dto, "reqwest">> >>)

Nonce3(n, r) == Told(<< <<r.status = 200, "status">>, <<Verified(n, None), "other">>,
                        <<r.dto, "reqwest">> >>)

\* LsHttpClient, which the app calls through RsHttpClient, and the rest of the clients.
Outcome(n, r) ==
  CASE plan[n].op = "register2" -> Register2(n, r) [] plan[n].op = "register3" -> Register3(n, r)
    [] plan[n].op = "prepare2" -> PrepareUpload2(n, r)
    [] plan[n].op = "prepare3" -> PrepareUpload3(n, r)
    [] plan[n].op = "upload2" -> Upload2(n, r) [] plan[n].op = "upload3" -> Upload3(n, r)
    [] plan[n].op = "cancel2" -> Cancel2(n, r) [] plan[n].op = "cancel3" -> Cancel3(n, r)
    [] plan[n].op = "info2" -> Info2(n, r)
    [] plan[n].op = "prepareDownload2" -> PrepareDownload2(n, r)
    [] plan[n].op = "download2" -> Download2(n, r) [] plan[n].op = "nonce3" -> Nonce3(n, r)

-----------------------------------------------------------------------------
(* Routes of the server *)

ValidNonce(size) == 16 <= size /\ size <= 128

\* Every legacy route calls register, whose RegisterDto neither the body of a
\* protocol-2 registration (fingerprint, not token) nor that of another request is.
LegacyRoute(d) == IF d \in Legacy THEN {Reply(400, FALSE)} ELSE {Reply(404, FALSE)}

Route(d, p) ==
  CASE d \in Dart /\ Uses2(p.op) -> {r \in Replies : r.dto => r.status = 200}
    [] d \in Dart /\ ~Uses2(p.op) -> {Reply(404, FALSE)}
    [] d \notin Dart /\ p.op \in {"register2", "prepare2", "upload2", "cancel2"} -> LegacyRoute(d)
    [] d \notin Dart /\ p.op = "register3" -> {Reply(200, TRUE)}
    [] OTHER -> {Reply(404, FALSE)}

-----------------------------------------------------------------------------
(* Nonce maps *)

\* Mutation: an entry that is there already stays.
PutIfAbsent(map, id, n) ==
  IF \E i \in DOMAIN map : map[i].id = id THEN map
  ELSE LET longer == Append(map, [id |-> id, call |-> n])
       IN IF Len(longer) > Capacity THEN Tail(longer) ELSE longer

\* Mutation: the map forgets nobody.
PutMore(map, id, n) == Append(SelectSeq(map, LAMBDA e : e.id # id), [id |-> id, call |-> n])

\* LruCache::put: the entry that is there already, or the oldest one of a full map, goes.
Drop(map, k) == [i \in 1..(Len(map) - 1) |-> map[IF i < k THEN i ELSE i + 1]]
Put(map, id, n) ==
  LET gone == IF \E i \in DOMAIN map : map[i].id = id THEN {i \in DOMAIN map : map[i].id = id}
              ELSE IF Len(map) < Capacity THEN {} ELSE {1}
      rest == IF gone = {} THEN map ELSE Drop(map, CHOOSE i \in gone : TRUE)
  IN Append(rest, [id |-> id, call |-> n])

\* Whom an end takes the other one for: the key of the certificate, or the address.
ServersName(n) == IF plan[n].https THEN plan[n].from ELSE caller[n]

ClientsName(n) == IF plan[n].https THEN to[n] ELSE plan[n].host

\* The two maps an end writes, one after the other.
End(n, role) == IF role = "server" THEN <<to[n], role>> ELSE <<plan[n].from, role>>
Name(n, role) == IF role = "server" THEN ServersName(n) ELSE ClientsName(n)
Half(role) == IF role = "server" THEN "half served" ELSE "half stored"

\* Mutation: the lock of the first map is given back before the second is taken.
Unlocked(end) == TRUE

\* The lock of received_nonce_map is held until generated_nonce_map is written too.
LockFree(end) ==
  \A n \in Calls : plan[n] # None /\ phase[n] = Half(end[2]) => End(n, end[2]) # end

PutReceived(n, role) ==
  /\ LockFree(End(n, role))
  /\ received' = [received EXCEPT ![End(n, role)] = Put(@, Name(n, role), n)]
  /\ phase' = [phase EXCEPT ![n] = Half(role)]

PutGenerated(n, role) ==
  /\ phase[n] = Half(role)
  /\ generated' = [generated EXCEPT ![End(n, role)] = Put(@, Name(n, role), n)]

-----------------------------------------------------------------------------
Init ==
  /\ setup \in Setups /\ owner = Home /\ moved = FALSE
  /\ listener = [d \in Devices |->
                  [f \in Families |-> IF d \in setup.booting THEN "binding" ELSE "up"]]
  /\ plan = [n \in Calls |-> None] /\ phase = [n \in Calls |-> "idle"]
  /\ to = [n \in Calls |-> None] /\ caller = [n \in Calls |-> None]
  /\ key = [n \in Calls |-> None] /\ reply = [n \in Calls |-> None]
  /\ result = [n \in Calls |-> None] /\ before = [n \in Calls |-> {}]
  /\ received = [e \in Ends |-> <<>>] /\ generated = [e \in Ends |-> <<>>]
  /\ known = [d \in Devices |-> [h \in Hosts |-> None]]

-----------------------------------------------------------------------------
(* The server's listeners: start_with_port has returned before they are bound *)

Bind(d, f) ==
  /\ listener[d][f] = "binding" /\ listener' = [listener EXCEPT ![d][f] = "up"]
  /\ UNCHANGED <<setup, owner, moved, calls, maps, known>>

\* Mutation: the IPv6 listener goes on by itself.
Ipv4EndsAlone(d) ==
  /\ listener[d][4] \in {"binding", "up"}
  /\ listener' = [listener EXCEPT ![d][4] = "ended"]
  /\ UNCHANGED <<setup, owner, moved, calls, maps, known>>

\* An error of the IPv4 listener, when it binds or accepts, ends both.
Ipv4Ends(d) ==
  /\ listener[d][4] \in {"binding", "up"}
  /\ listener' = [listener EXCEPT ![d] = [f \in Families |-> "ended"]]
  /\ UNCHANGED <<setup, owner, moved, calls, maps, known>>

\* An error of the IPv6 listener leaves it asleep for ever.
Ipv6Sleeps(d) ==
  /\ listener[d][6] \in {"binding", "up"}
  /\ listener' = [listener EXCEPT ![d][6] = "asleep"]
  /\ UNCHANGED <<setup, owner, moved, calls, maps, known>>

\* stop_rx has its message, or its sender is gone.
Stop(d) ==
  /\ listener[d][4] # "ended"
  /\ listener' = [listener EXCEPT ![d] = [f \in Families |-> "ended"]]
  /\ UNCHANGED <<setup, owner, moved, calls, maps, known>>

\* Two devices swap addresses.
Move(g, h) ==
  /\ ~moved /\ {g, h} \subseteq setup.moving /\ owner[g] # owner[h] /\ moved' = TRUE
  /\ owner' = [owner EXCEPT ![g] = owner[h], ![h] = owner[g]]
  /\ UNCHANGED <<setup, listener, calls, maps, known>>

-----------------------------------------------------------------------------
(* A call *)

Start(n, p) ==
  /\ n <= setup.count /\ plan[n] = None /\ (\A i \in Calls : i < n => plan[i] # None)
  /\ p \in setup.plans /\ owner[p.host] # p.from
  /\ plan' = [plan EXCEPT ![n] = p] /\ phase' = [phase EXCEPT ![n] = "sent"]
  /\ key' = [key EXCEPT ![n] = IF p.pinned THEN known[p.from][p.host] ELSE None]
  /\ before' = [before EXCEPT ![n] = {i \in Calls : phase[i] = "done"}]
  /\ UNCHANGED <<network, to, caller, reply, result, maps, known>>

Family(h) == IF h \in V6 THEN 6 ELSE 4
Callers(n) == {h \in Hosts : owner[h] = plan[n].from /\ Family(h) = Family(plan[n].host)}

\* What the TLS acceptor wants: https on both sides, and of this server's clients a
\* certificate that is valid (CustomClientCertVerifier).
Handshake(d, p) ==
  /\ p.https = (d \in Tls)
  /\ d \in Tls \ Dart => ~p.anonymous /\ p.from \notin Expired

Accept(n) ==
  LET d == owner[plan[n].host] IN
  /\ phase[n] = "sent" /\ listener[d][Family(plan[n].host)] = "up" /\ Handshake(d, plan[n])
  /\ \E h \in Callers(n) : caller' = [caller EXCEPT ![n] = h]
  /\ to' = [to EXCEPT ![n] = d] /\ phase' = [phase EXCEPT ![n] = "accepted"]
  /\ UNCHANGED <<network, plan, key, reply, result, before, maps, known>>

Finish(n, told) ==
  /\ result' = [result EXCEPT ![n] = told] /\ phase' = [phase EXCEPT ![n] = "done"]
  /\ reply' = [reply EXCEPT ![n] = None]

\* Nobody listens, the handshake fails, or the connection breaks; a handler that
\* waits is dropped with it.
Breaks(n) ==
  /\ phase[n] \in {"sent", "accepted", "answered"} /\ Finish(n, "reqwest")
  /\ UNCHANGED <<network, plan, to, caller, key, before, maps, known>>

\* Mutation: the connections of a server end with its listener.
RunsWhileListening(n) ==
  phase[n] = "accepted" /\ listener[to[n]][Family(plan[n].host)] = "up"

\* A connection has a task of its own, which a stopped server leaves alone.
Runs(n) == phase[n] = "accepted"

Serve(n) ==
  /\ Runs(n) /\ (plan[n].op = "nonce3" => to[n] \in Dart)
  /\ \E r \in Route(to[n], plan[n]) : reply' = [reply EXCEPT ![n] = r]
  /\ phase' = [phase EXCEPT ![n] = "answered"]
  /\ UNCHANGED <<network, plan, to, caller, key, result, before, maps, known>>

\* nonce_exchange: a nonce of the wrong length is refused, another one is stored ...
RefuseNonce(n) ==
  /\ Runs(n) /\ plan[n].op = "nonce3" /\ to[n] \notin Dart /\ ~ValidNonce(plan[n].size)
  /\ reply' = [reply EXCEPT ![n] = Reply(400, FALSE)] /\ phase' = [phase EXCEPT ![n] = "answered"]
  /\ UNCHANGED <<network, plan, to, caller, key, result, before, maps, known>>

StoreReceived(n) ==
  /\ Runs(n) /\ plan[n].op = "nonce3" /\ to[n] \notin Dart /\ ValidNonce(plan[n].size)
  /\ PutReceived(n, "server")
  /\ UNCHANGED <<network, plan, to, caller, key, reply, result, before, generated, known>>

\* ... and the answer is stored and sent.
StoreGenerated(n) ==
  /\ PutGenerated(n, "server")
  /\ reply' = [reply EXCEPT ![n] = Reply(200, TRUE)] /\ phase' = [phase EXCEPT ![n] = "answered"]
  /\ UNCHANGED <<network, plan, to, caller, key, result, before, received, known>>

\* The response arrives.  A user keeps the public key a registration returns.
Receive(n) ==
  /\ phase[n] = "answered" /\ (plan[n].op = "nonce3" => Outcome(n, reply[n]) # "ok")
  /\ Finish(n, Outcome(n, reply[n]))
  /\ known' =
       IF plan[n].op \in {"register2", "register3"} /\ plan[n].https /\ result'[n] = "ok"
         THEN [known EXCEPT ![plan[n].from][plan[n].host] = to[n]] ELSE known
  /\ UNCHANGED <<network, plan, to, caller, key, before, maps>>

\* nonce: the client stores what it was answered and what it has sent.
RememberReceived(n) ==
  /\ phase[n] = "answered" /\ plan[n].op = "nonce3" /\ Outcome(n, reply[n]) = "ok"
  /\ PutReceived(n, "client")
  /\ UNCHANGED <<network, plan, to, caller, key, reply, result, before, generated, known>>

RememberGenerated(n) ==
  /\ PutGenerated(n, "client") /\ Finish(n, "ok")
  /\ UNCHANGED <<network, plan, to, caller, key, before, received, known>>

-----------------------------------------------------------------------------
ServerStep == \E d \in setup.booting :
  Ipv4Ends(d) \/ Ipv6Sleeps(d) \/ Stop(d) \/ \E f \in Families : Bind(d, f)
HandlerStep(n) == Serve(n) \/ RefuseNonce(n) \/ StoreReceived(n) \/ StoreGenerated(n)
ClientStep(n) == Receive(n) \/ RememberReceived(n) \/ RememberGenerated(n)

Next ==
  \/ ServerStep
  \/ \E g, h \in Hosts : Move(g, h)
  \/ \E n \in Calls :
       Accept(n) \/ Breaks(n) \/ HandlerStep(n) \/ ClientStep(n) \/ \E p \in setup.plans : Start(n, p)
Spec == Init /\ [][Next]_vars

\* The runtime runs the handlers and the clients; that a connection is accepted, or
\* that the app's server answers, is up to others.
Fairness == \A n \in Calls :
  WF_vars(ClientStep(n)) /\ WF_vars(HandlerStep(n) /\ to[n] \notin Dart)
FairSpec == Spec /\ Fairness

-----------------------------------------------------------------------------
\* Everything is in its range, the maps within their capacity.
TypeOK ==
  /\ owner \in [Hosts -> Devices] /\ moved \in BOOLEAN
  /\ \A d \in Devices, f \in Families : listener[d][f] \in {"binding", "up", "asleep", "ended"}
  /\ \A n \in Calls :
       /\ plan[n] \in setup.plans \cup {None} /\ to[n] \in Devices \cup {None}
       /\ phase[n] \in {"idle", "sent", "accepted", "half served", "answered", "half stored", "done"}
       /\ caller[n] \in Hosts \cup {None} /\ key[n] \in Devices \cup {None}
       /\ reply[n] \in Replies \cup {None} /\ result[n] \in Results \cup {None}
       /\ before[n] \subseteq Calls
  /\ \A e \in Ends : Len(received[e]) <= Capacity /\ Len(generated[e]) <= Capacity
  /\ \A d \in Devices, h \in Hosts : known[d][h] \in Devices \cup {None}

\* The two maps of an end are one table: the nonce received from somebody and the one
\* generated for them come from the same exchange and are forgotten together, however
\* many exchanges run at once, but for the moment between the two writes.
NoncesPaired ==
  \A e \in Ends : (\A n \in Calls : phase[n] = Half(e[2]) => End(n, e[2]) # e)
                  => received[e] = generated[e]

\* Client and server have the same exchange in mind: if the server's entry for the
\* client is of another exchange than the client's entry for the server, the two
\* exchanges ran at the same time, or the client never heard of the server's, or the
\* address was another client's.
Overlapped(m, n) == m \notin before[n] /\ n \notin before[m]
NoncesAgree ==
  \A c \in Devices : \A i \in DOMAIN generated[<<c, "client">>] :
    LET m == generated[<<c, "client">>][i].call
        table == generated[<<to[m], "server">>] IN
    \A j \in DOMAIN table :
      LET n == table[j].call IN
      n # m /\ table[j].id = ServersName(m) /\ plan[n].from = c /\ ClientsName(n) = ClientsName(m)
        => Overlapped(m, n) \/ result[n] # "ok"

\* A file is offered and sent to the device its receiver was known as: a call that was
\* given a public key and succeeds was answered by the device of that key, though
\* addresses change hands between the registration, the request and the response.
OkIsFromExpected ==
  \A n \in Calls :
    /\ result[n] = "ok" /\ plan[n].op \in {"prepare2", "prepare3", "upload2", "upload3"}
    /\ plan[n].https /\ key[n] # None
    => to[n] = key[n]

\* The listeners stand and fall with the IPv4 one: none is left when it has ended.
NoListenerAlone ==
  \A d \in Devices : listener[d][4] = "ended" => listener[d][6] = "ended"

\* A call that the Rust server has accepted is served and ends, even if the server is
\* stopped meanwhile and however many exchanges wait for the locks.
AcceptedIsServed ==
  \A n \in Calls : (phase[n] = "accepted" /\ to[n] \notin Dart) ~> (phase[n] = "done")
=============================================================================
