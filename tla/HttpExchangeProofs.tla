-------------------------- MODULE HttpExchangeProofs --------------------------
(***************************************************************************)
(* Proofs about HttpExchange, for any devices, hosts, setups and capacity   *)
(* of the nonce maps.  The two maps of an end agree because the same is     *)
(* done to both, in the same order of exchanges; the maps of the two ends   *)
(* of an exchange agree because each write replaces what its end had stored *)
(* of the other one, and a call that has ended writes nothing any more.     *)
(***************************************************************************)
EXTENDS HttpExchange, TLAPS

-----------------------------------------------------------------------------
(* The listeners *)

\* The listeners of a device, by address family.
ListenerType == listener \in [Devices -> [Families -> {"binding", "up", "asleep", "ended"}]]
SetupType == setup \in Setups

\* A listener ends only with its IPv4 one: neither binding late nor an error of
\* the IPv6 listener can bring one back.
LEMMA ListenerStep ==
    ASSUME ConstantsAssumption, SetupType, ListenerType, NoListenerAlone, [Next]_vars
    PROVE  ListenerType' /\ NoListenerAlone'
<1> USE DEF Families
<1>1. CASE UNCHANGED listener
  BY <1>1 DEF ListenerType, NoListenerAlone
<1>2. CASE ServerStep
  <2>1. PICK d \in setup.booting :
          Ipv4Ends(d) \/ Ipv6Sleeps(d) \/ Stop(d) \/ \E f \in Families : Bind(d, f)
    BY <1>2 DEF ServerStep
  <2>2. d \in Devices
    BY <2>1 DEF SetupType, ConstantsAssumption, IsSetup
  <2>3. CASE Ipv4Ends(d) \/ Stop(d)
    BY <2>2, <2>3 DEF Ipv4Ends, Stop, ListenerType, NoListenerAlone
  <2>4. CASE Ipv6Sleeps(d)
    BY <2>2, <2>4 DEF Ipv6Sleeps, ListenerType, NoListenerAlone
  <2>5. CASE \E f \in Families : Bind(d, f)
    <3>1. PICK f \in Families : Bind(d, f)
      BY <2>5
    <3>2. listener' = [listener EXCEPT ![d][f] = "up"] /\ listener[d][f] = "binding"
      BY <3>1 DEF Bind
    <3> QED BY <2>2, <3>2 DEF ListenerType, NoListenerAlone
  <2> QED BY <2>1, <2>3, <2>4, <2>5
<1>3. CASE \E g, h \in Hosts : Move(g, h)
  BY <1>3, <1>1 DEF Move
<1>4. ASSUME NEW n \in Calls, Accept(n) \/ Breaks(n) \/ HandlerStep(n) \/ ClientStep(n)
                               \/ \E p \in setup.plans : Start(n, p)
      PROVE  UNCHANGED listener
  BY <1>4 DEF network, Accept, Breaks, HandlerStep, Serve, RefuseNonce, StoreReceived, StoreGenerated,
              ClientStep, Receive, RememberReceived, RememberGenerated, Start
<1>5. CASE UNCHANGED vars
  BY <1>5, <1>1 DEF vars, network
<1> QED BY <1>1, <1>2, <1>3, <1>4, <1>5 DEF Next

\* The setup does not change.
LEMMA SetupStep == ASSUME SetupType, [Next]_vars PROVE SetupType'
<1> SUFFICES UNCHANGED setup BY DEF SetupType
<1>1. CASE ServerStep
  BY <1>1 DEF ServerStep, Ipv4Ends, Ipv6Sleeps, Stop, Bind
<1>2. CASE \E g, h \in Hosts : Move(g, h)
  BY <1>2 DEF Move
<1>3. ASSUME NEW n \in Calls, Accept(n) \/ Breaks(n) \/ HandlerStep(n) \/ ClientStep(n)
                               \/ \E p \in setup.plans : Start(n, p)
      PROVE  UNCHANGED setup
  BY <1>3 DEF network, Accept, Breaks, HandlerStep, Serve, RefuseNonce, StoreReceived, StoreGenerated,
              ClientStep, Receive, RememberReceived, RememberGenerated, Start
<1>4. CASE UNCHANGED vars
  BY <1>4 DEF vars, network
<1> QED BY <1>1, <1>2, <1>3, <1>4 DEF Next

\* Of a server started with start_with_port, no IPv6 listener is left when the
\* IPv4 listener has ended, whichever way and in whichever order they bound,
\* failed or were stopped.
THEOREM ListenersEndTogether == Spec => []NoListenerAlone
<1> USE ConstantsAssumption
<1>1. Init => SetupType /\ ListenerType /\ NoListenerAlone
  BY DEF Init, SetupType, ListenerType, NoListenerAlone, Families
<1>2. SetupType /\ ListenerType /\ NoListenerAlone /\ [Next]_vars
        => (SetupType /\ ListenerType /\ NoListenerAlone)'
  BY ListenerStep, SetupStep
<1> QED BY <1>1, <1>2, PTL DEF Spec

-----------------------------------------------------------------------------
(* Whom a successful call was answered by *)

\* What Told says of its checks is "ok" only if the first of them succeeds.
LEMMA FirstCheckSucceeds ==
    ASSUME NEW checks, 1 \in DOMAIN checks, DOMAIN checks \subseteq 1..3,
           checks[1][2] # "ok", Told(checks) = "ok"
    PROVE  checks[1][1]
<1> DEFINE wrong == {i \in DOMAIN checks : ~checks[i][1]}
           least == CHOOSE i \in wrong : \A j \in wrong : i <= j
<1> SUFFICES ASSUME ~checks[1][1] PROVE FALSE
  OBVIOUS
<1>1. 1 \in wrong /\ wrong \subseteq 1..3
  OBVIOUS
<1>2. \E i \in wrong : \A j \in wrong : i <= j
  BY <1>1
<1>3. least \in wrong /\ \A j \in wrong : least <= j
  BY <1>2
<1>4. least = 1
  BY <1>1, <1>3
<1>5. Told(checks) = checks[least][2]
  BY <1>1 DEF Told
<1> QED BY <1>4, <1>5

Addressed == {"prepare2", "prepare3", "upload2", "upload3"}

\* A request for files and an upload succeed only with a certificate that is valid
\* and has the expected key.
LEMMA SuccessIsVerified ==
    ASSUME NEW n \in Calls, plan[n].op \in Addressed, NEW r, Outcome(n, r) = "ok"
    PROVE  Verified(n, key[n])
<1>1. CASE plan[n].op \in {"prepare2", "prepare3"}
  <2> DEFINE checks == << <<Verified(n, key[n]), "other">>, <<r.status < 400, "status">>,
                          <<r.status = 204 \/ r.dto, "reqwest">> >>
  <2>1. Told(checks) = "ok"
    BY <1>1 DEF Outcome, PrepareUpload2, PrepareUpload3
  <2>2. /\ 1 \in DOMAIN checks /\ DOMAIN checks \subseteq 1..3
        /\ (checks[1][1] <=> Verified(n, key[n])) /\ checks[1][2] # "ok"
    OBVIOUS
  <2> HIDE DEF checks
  <2> QED BY <2>1, <2>2, FirstCheckSucceeds
<1>2. CASE plan[n].op \in {"upload2", "upload3"}
  <2> DEFINE checks == << <<Verified(n, key[n]), "other">>, <<r.status = 200, "status">> >>
  <2>1. Told(checks) = "ok"
    BY <1>2 DEF Outcome, Upload2, Upload3
  <2>2. /\ 1 \in DOMAIN checks /\ DOMAIN checks \subseteq 1..3
        /\ (checks[1][1] <=> Verified(n, key[n])) /\ checks[1][2] # "ok"
    OBVIOUS
  <2> HIDE DEF checks
  <2> QED BY <2>1, <2>2, FirstCheckSucceeds
<1> QED BY <1>1, <1>2 DEF Addressed

\* The tables of calls have an entry for each call.
CallTables ==
    /\ DOMAIN plan = Calls /\ DOMAIN phase = Calls /\ DOMAIN to = Calls
    /\ DOMAIN caller = Calls /\ DOMAIN key = Calls /\ DOMAIN result = Calls

\* What holds of a call between its steps: it has a plan when it is under way, only
\* an exchange of nonces writes maps, and who is told "ok" is not answered again.
CallInv(n) ==
    /\ plan[n] = None => phase[n] = "idle"
    /\ phase[n] \in {"half served", "half stored"} => plan[n].op = "nonce3"
    /\ result[n] = "ok" => phase[n] = "done"

FromExpected(n) ==
    result[n] = "ok" /\ plan[n].op \in Addressed /\ plan[n].https /\ key[n] # None => to[n] = key[n]

CallsInv == CallTables /\ \A n \in Calls : CallInv(n) /\ FromExpected(n)

\* A call another step is not about keeps what it is, where it was accepted, the key
\* it expects and what it was told.
Untouched(n) ==
    UNCHANGED <<plan[n], phase[n], to[n], caller[n], key[n], result[n]>>

LEMMA TablesStep ==
    ASSUME CallTables, NEW n \in Calls,
           Accept(n) \/ Breaks(n) \/ HandlerStep(n) \/ ClientStep(n) \/ \E p \in setup.plans : Start(n, p)
    PROVE  CallTables' /\ \A m \in Calls \ {n} : Untouched(m)
<1> USE DEF CallTables, Untouched
<1>1. CASE Accept(n)
  BY <1>1 DEF Accept
<1>2. CASE Breaks(n)
  BY <1>2 DEF Breaks, Finish
<1>3. CASE HandlerStep(n)
  BY <1>3 DEF HandlerStep, Serve, RefuseNonce, StoreReceived, StoreGenerated, PutReceived, PutGenerated
<1>4. CASE ClientStep(n)
  BY <1>4 DEF ClientStep, Receive, RememberReceived, RememberGenerated, Finish, PutReceived, PutGenerated
<1>5. CASE \E p \in setup.plans : Start(n, p)
  BY <1>5 DEF Start
<1> QED BY <1>1, <1>2, <1>3, <1>4, <1>5

\* A step of a call keeps what holds of it.
LEMMA CallStep ==
    ASSUME ConstantsAssumption, SetupType, CallTables, NEW n \in Calls, CallInv(n), FromExpected(n),
           Accept(n) \/ Breaks(n) \/ HandlerStep(n) \/ ClientStep(n) \/ \E p \in setup.plans : Start(n, p)
    PROVE  CallInv(n)' /\ FromExpected(n)'
<1> USE DEF CallTables, CallInv, FromExpected
<1>1. CASE Accept(n)
  BY <1>1 DEF Accept
<1>2. CASE Breaks(n)
  BY <1>2 DEF Breaks, Finish
<1>3. CASE Serve(n)
  BY <1>3 DEF Serve, Runs
<1>8. CASE RefuseNonce(n)
  BY <1>8 DEF RefuseNonce, Runs
<1>9. CASE StoreReceived(n)
  BY <1>9 DEF StoreReceived, PutReceived, Half, Runs
<1>10. CASE StoreGenerated(n)
  BY <1>10 DEF StoreGenerated, PutGenerated, Half
<1>4. CASE Receive(n)
  <2>1. /\ UNCHANGED <<plan, key, to>> /\ result'[n] = Outcome(n, reply[n])
        /\ phase[n] = "answered" /\ phase'[n] = "done"
    BY <1>4 DEF Receive, Finish
  <2>2. ASSUME result'[n] = "ok", plan[n].op \in Addressed, plan[n].https, key[n] # None
        PROVE  to[n] = key[n]
    BY <2>1, <2>2, SuccessIsVerified DEF Verified, VerifyCert
  <2> QED BY <2>1, <2>2
<1>5. CASE RememberReceived(n)
  BY <1>5 DEF RememberReceived, PutReceived, Half
<1>6. CASE RememberGenerated(n)
  <2>1. UNCHANGED <<plan, key, to>> /\ phase'[n] = "done" /\ phase[n] = "half stored"
    BY <1>6 DEF RememberGenerated, PutGenerated, Finish, Half
  <2> QED BY <2>1 DEF Addressed
<1>7. CASE \E p \in setup.plans : Start(n, p)
  <2>1. PICK p \in setup.plans : Start(n, p)
    BY <1>7
  <2>2. p # None
    BY <2>1 DEF SetupType, ConstantsAssumption, IsSetup
  <2>3. plan'[n] = p /\ phase'[n] = "sent" /\ result'[n] = result[n] /\ plan[n] = None
    BY <2>1 DEF Start
  <2> QED BY <2>2, <2>3
<1> QED BY <1>1, <1>2, <1>3, <1>4, <1>5, <1>6, <1>7, <1>8, <1>9, <1>10 DEF ClientStep, HandlerStep

LEMMA CallsStep == 
    ASSUME ConstantsAssumption, SetupType, CallsInv, [Next]_vars
    PROVE  CallsInv'
<1>1. CASE UNCHANGED calls
  BY <1>1 DEF calls, CallsInv, CallTables, CallInv, FromExpected
<1>2. CASE ServerStep
  BY <1>1, <1>2 DEF ServerStep, Ipv4Ends, Ipv6Sleeps, Stop, Bind
<1>3. CASE \E g, h \in Hosts : Move(g, h)
  BY <1>1, <1>3 DEF Move
<1>4. ASSUME NEW n \in Calls, Accept(n) \/ Breaks(n) \/ HandlerStep(n) \/ ClientStep(n)
                               \/ \E p \in setup.plans : Start(n, p)
      PROVE  CallsInv'
  <2>1. CallTables' /\ \A m \in Calls \ {n} : Untouched(m)
    BY <1>4, TablesStep DEF CallsInv
  <2>2. CallInv(n)' /\ FromExpected(n)'
    BY <1>4, CallStep DEF CallsInv
  <2>3. ASSUME NEW m \in Calls \ {n} PROVE CallInv(m)' /\ FromExpected(m)'
    <3>1. Untouched(m) /\ CallInv(m) /\ FromExpected(m)
      BY <2>1 DEF CallsInv
    <3> QED BY <3>1 DEF Untouched, CallInv, FromExpected
  <2> QED BY <2>1, <2>2, <2>3 DEF CallsInv
<1>5. CASE UNCHANGED vars
  BY <1>1, <1>5 DEF vars
<1> QED BY <1>2, <1>3, <1>4, <1>5 DEF Next

LEMMA CallsInit == ASSUME ConstantsAssumption PROVE Init => CallsInv
BY DEF ConstantsAssumption, Results, Init, CallsInv, CallTables, CallInv, FromExpected

\* A request for files or an upload that was given a public key and succeeds was
\* answered by the device with that key, whoever had the address when the call was
\* made, accepted and answered.
THEOREM OkIsAlwaysFromExpected == Spec => []OkIsFromExpected
<1> USE ConstantsAssumption
<1>1. CallsInv => OkIsFromExpected
  BY DEF CallsInv, FromExpected, OkIsFromExpected, Addressed
<1>2. Init => SetupType
  BY DEF Init, SetupType
<1>3. SetupType /\ CallsInv /\ [Next]_vars => (SetupType /\ CallsInv)'
  BY SetupStep, CallsStep
<1> QED BY CallsInit, <1>1, <1>2, <1>3, PTL DEF Spec

-----------------------------------------------------------------------------
(* The nonce maps of an end *)

HalfAt(n, e) == phase[n] = Half(e[2]) /\ End(n, e[2]) = e

\* The maps of an end are the same but for the entry of at most one call, which has
\* written the first one and holds its lock.
PairedAt(e) ==
    /\ (\A n \in Calls : ~HalfAt(n, e)) => received[e] = generated[e]
    /\ \A n \in Calls : HalfAt(n, e) =>
         /\ received[e] = Put(generated[e], Name(n, e[2]), n)
         /\ \A m \in Calls : HalfAt(m, e) => m = n

\* A call that has been accepted was accepted by a device.
AcceptedByDevice(n) ==
    /\ plan[n] # None => plan[n].from \in Devices /\ plan[n].host \in Hosts
    /\ phase[n] \notin {"idle", "sent", "done"} => to[n] \in Devices

MapsInv ==
    /\ DOMAIN received = Ends /\ DOMAIN generated = Ends
    /\ owner \in [Hosts -> Devices]
    /\ \A n \in Calls : AcceptedByDevice(n)
    /\ \A e \in Ends : PairedAt(e)

\* Neither map is written, and no call begins or ends its writing.
Quiet ==
    /\ UNCHANGED maps
    /\ \A n \in Calls :
         /\ phase'[n] = phase[n] \/ {phase[n], phase'[n]} \cap {"half served", "half stored"} = {}
         /\ phase[n] \in {"half served", "half stored"} =>
              UNCHANGED <<plan[n], to[n], caller[n]>>

LEMMA QuietKeepsPairs ==
    ASSUME NEW e \in Ends, PairedAt(e), Quiet
    PROVE  PairedAt(e)'
<1>1. \A n \in Calls : HalfAt(n, e)' <=> HalfAt(n, e)
  BY DEF Quiet, HalfAt, End, Half
<1>2. \A n \in Calls : HalfAt(n, e) => UNCHANGED Name(n, e[2])
  BY DEF Quiet, HalfAt, Half, Name, ServersName, ClientsName
<1>3. UNCHANGED <<received[e], generated[e]>>
  BY DEF Quiet, maps
<1> QED BY <1>1, <1>2, <1>3 DEF PairedAt

\* The end a call writes at is one of Ends.
LEMMA EndIsAnEnd ==
    ASSUME NEW n \in Calls, NEW role \in Roles, AcceptedByDevice(n), plan[n] # None,
           phase[n] \notin {"idle", "sent", "done"}
    PROVE  End(n, role) \in Ends /\ End(n, role)[2] = role
BY DEF End, Ends, Roles, AcceptedByDevice

Writing == {"half served", "half stored"}

\* The first write finds the two maps equal, because the lock is free.
LEMMA PutReceivedKeepsPairs ==
    ASSUME MapsInv, CallTables, NEW n \in Calls, NEW role \in Roles,
           \A m \in Calls : plan[m] = None => phase[m] = "idle",
           phase[n] \notin {"idle", "sent", "done"} \cup Writing,
           PutReceived(n, role), UNCHANGED <<plan, to, caller, generated>>,
           NEW e \in Ends
    PROVE  PairedAt(e)'
<1> DEFINE E == End(n, role)
<1>1. E \in Ends /\ E[2] = role
  BY EndIsAnEnd DEF MapsInv
<1>2. \A m \in Calls : ~HalfAt(m, E)
  BY <1>1 DEF PutReceived, LockFree, HalfAt, Half
<1>3. received[E] = generated[E]
  BY <1>1, <1>2 DEF MapsInv, PairedAt
<1>4. \A m \in Calls \ {n} : \A d \in Ends : HalfAt(m, d)' <=> HalfAt(m, d)
  BY DEF HalfAt, End, PutReceived, CallTables
<1>5. \A m \in Calls, d \in Ends : UNCHANGED Name(m, d[2])
  BY DEF Name, ServersName, ClientsName
<1>6. CASE e = E
  <2>1. (received[e] = Put(generated[e], Name(n, e[2]), n))'
    BY <1>1, <1>3, <1>5, <1>6 DEF PutReceived, MapsInv
  <2>2. HalfAt(n, e)'
    BY <1>1, <1>6 DEF HalfAt, PutReceived, CallTables, End
  <2>3. \A m \in Calls : HalfAt(m, e)' => m = n
    BY <1>2, <1>4, <1>6
  <2> HIDE DEF E
  <2> QED BY <2>1, <2>2, <2>3 DEF PairedAt
<1>7. CASE e # E
  <2>1. UNCHANGED <<received[e], generated[e]>>
    BY <1>7 DEF PutReceived, MapsInv
  <2>2. ~HalfAt(n, e) /\ ~HalfAt(n, e)'
    BY <1>1, <1>7 DEF HalfAt, PutReceived, CallTables, Half, Writing, Roles, Ends, End
  <2>3. \A m \in Calls : HalfAt(m, e)' <=> HalfAt(m, e)
    BY <1>4, <2>2
  <2> HIDE DEF E
  <2> QED BY <1>5, <2>1, <2>3 DEF PairedAt, MapsInv
<1> QED BY <1>6, <1>7

\* The second write makes the two maps equal again.
LEMMA PutGeneratedKeepsPairs ==
    ASSUME MapsInv, CallTables, NEW n \in Calls, NEW role \in Roles,
           \A m \in Calls : plan[m] = None => phase[m] = "idle",
           PutGenerated(n, role), UNCHANGED <<plan, to, caller, received>>,
           phase'[n] \notin Writing, \A m \in Calls \ {n} : UNCHANGED phase[m],
           NEW e \in Ends
    PROVE  PairedAt(e)'
<1> DEFINE E == End(n, role)
<1>1. phase[n] \in Writing /\ plan[n] # None
  BY DEF PutGenerated, Half, Writing
<1>2. E \in Ends /\ E[2] = role
  BY <1>1, EndIsAnEnd DEF MapsInv, Writing
<1>3. HalfAt(n, E)
  BY <1>2 DEF HalfAt, PutGenerated
<1>4. received[E] = Put(generated[E], Name(n, role), n) /\ \A m \in Calls : HalfAt(m, E) => m = n
  BY <1>2, <1>3 DEF MapsInv, PairedAt
<1>5. \A m \in Calls \ {n} : \A d \in Ends : HalfAt(m, d)' <=> HalfAt(m, d)
  BY DEF HalfAt, End
<1>6. \A m \in Calls, d \in Ends : UNCHANGED Name(m, d[2])
  BY DEF Name, ServersName, ClientsName
<1>7. \A d \in Ends : ~HalfAt(n, d)'
  BY DEF HalfAt, Half, Writing
<1>8. CASE e = E
  <2>1. received'[e] = generated'[e]
    BY <1>2, <1>4, <1>8 DEF PutGenerated, MapsInv
  <2>2. \A m \in Calls : ~HalfAt(m, e)'
    BY <1>4, <1>5, <1>7, <1>8
  <2> QED BY <2>1, <2>2 DEF PairedAt
<1>9. CASE e # E
  <2>1. UNCHANGED <<received[e], generated[e]>>
    BY <1>9 DEF PutGenerated, MapsInv
  <2>2. ~HalfAt(n, e)
    BY <1>2, <1>9 DEF HalfAt, PutGenerated, Half, Roles, Ends, End
  <2>3. \A m \in Calls : HalfAt(m, e)' <=> HalfAt(m, e)
    BY <1>5, <1>7, <2>2
  <2> HIDE DEF E
  <2> QED BY <1>6, <2>1, <2>3 DEF PairedAt, MapsInv
<1> QED BY <1>8, <1>9

CallAction(n) ==
    Accept(n) \/ Breaks(n) \/ HandlerStep(n) \/ ClientStep(n) \/ \E p \in setup.plans : Start(n, p)

\* Who has accepted a call is a device, and calls come from devices to hosts.
LEMMA AcceptedStep ==
    ASSUME ConstantsAssumption, SetupType, CallTables, owner \in [Hosts -> Devices],
           NEW n \in Calls, CallInv(n), AcceptedByDevice(n), CallAction(n)
    PROVE  AcceptedByDevice(n)'
<1> USE DEF CallTables, AcceptedByDevice
<1>1. CASE Accept(n)
  <2>1. to'[n] = owner[plan[n].host] /\ UNCHANGED plan /\ phase[n] = "sent"
    BY <1>1 DEF Accept
  <2> QED BY <2>1 DEF CallInv
<1>2. CASE \E p \in setup.plans : Start(n, p)
  <2>1. PICK p \in setup.plans : Start(n, p)
    BY <1>2
  <2>2. p \in Plan
    BY <2>1 DEF SetupType, ConstantsAssumption, IsSetup
  <2>3. plan'[n] = p /\ phase'[n] = "sent"
    BY <2>1 DEF Start
  <2> QED BY <2>2, <2>3 DEF Plan
<1>3. CASE Breaks(n)
  BY <1>3 DEF Breaks, Finish
<1>4. CASE HandlerStep(n)
  <2>1. UNCHANGED <<plan, to>>
    BY <1>4 DEF HandlerStep, Serve, RefuseNonce, StoreReceived, StoreGenerated
  <2>2. phase[n] \in {"accepted", "half served"}
    BY <1>4 DEF HandlerStep, Serve, RefuseNonce, StoreReceived, StoreGenerated, PutGenerated, Runs, Half
  <2> QED BY <2>1, <2>2
<1>5. CASE ClientStep(n)
  <2>1. UNCHANGED <<plan, to>>
    BY <1>5 DEF ClientStep, Receive, RememberReceived, RememberGenerated
  <2>2. phase[n] \in {"answered", "half stored"}
    BY <1>5 DEF ClientStep, Receive, RememberReceived, RememberGenerated, PutGenerated, Half
  <2> QED BY <2>1, <2>2
<1> QED BY <1>1, <1>2, <1>3, <1>4, <1>5 DEF CallAction

\* The steps that write no map are quiet.
LEMMA OthersAreQuiet ==
    ASSUME ConstantsAssumption, SetupType, CallsInv, NEW n \in Calls,
           \/ Accept(n) \/ Breaks(n) \/ Serve(n) \/ RefuseNonce(n) \/ Receive(n)
           \/ \E p \in setup.plans : Start(n, p)
    PROVE  Quiet
<1>1. CallTables' /\ \A m \in Calls \ {n} : Untouched(m)
  BY TablesStep DEF CallsInv, HandlerStep, ClientStep
<1>2. phase[n] \in {"idle", "sent", "accepted", "answered"} /\ phase'[n] \in {"sent", "accepted", "answered", "done"}
  <2>1. CASE Accept(n) \/ Breaks(n) \/ Serve(n) \/ RefuseNonce(n) \/ Receive(n)
    BY <2>1 DEF Accept, Breaks, Serve, RefuseNonce, Receive, Runs, Finish, CallsInv, CallTables
  <2>2. CASE \E p \in setup.plans : Start(n, p)
    BY <2>2 DEF Start, CallsInv, CallTables, CallInv
  <2> QED BY <2>1, <2>2
<1>3. UNCHANGED maps
  BY DEF Accept, Breaks, Serve, RefuseNonce, Receive, Start
<1> QED BY <1>1, <1>2, <1>3 DEF Quiet, Untouched

\* Every step keeps the maps of every end paired.
LEMMA PairsStep ==
    ASSUME ConstantsAssumption, SetupType, CallsInv, MapsInv, [Next]_vars, NEW e \in Ends
    PROVE  PairedAt(e)'
<1>1. CASE Quiet
  BY <1>1, QuietKeepsPairs DEF MapsInv
<1>2. CASE UNCHANGED <<calls, maps>>
  BY <1>1, <1>2 DEF Quiet, calls
<1>3. CASE ServerStep
  BY <1>2, <1>3 DEF ServerStep, Ipv4Ends, Ipv6Sleeps, Stop, Bind
<1>4. CASE \E g, h \in Hosts : Move(g, h)
  BY <1>2, <1>4 DEF Move
<1>5. ASSUME NEW n \in Calls, CallAction(n)
      PROVE  PairedAt(e)'
  <2>1. \A m \in Calls : plan[m] = None => phase[m] = "idle"
    BY DEF CallsInv, CallInv
  <2>2. CallTables /\ {"client", "server"} = Roles
    BY DEF CallsInv, Roles
  <2>3. CASE StoreReceived(n)
    BY <2>1, <2>2, <2>3, PutReceivedKeepsPairs DEF StoreReceived, Runs, Writing
  <2>4. CASE RememberReceived(n)
    BY <2>1, <2>2, <2>4, PutReceivedKeepsPairs DEF RememberReceived, Writing
  <2>5. CASE StoreGenerated(n)
    <3>1. phase'[n] = "answered" /\ \A m \in Calls \ {n} : UNCHANGED phase[m]
      BY <2>2, <2>5 DEF StoreGenerated, CallTables
    <3> QED BY <2>1, <2>2, <2>5, <3>1, PutGeneratedKeepsPairs DEF StoreGenerated, Writing
  <2>6. CASE RememberGenerated(n)
    <3>1. phase'[n] = "done" /\ \A m \in Calls \ {n} : UNCHANGED phase[m]
      BY <2>2, <2>6 DEF RememberGenerated, Finish, CallTables
    <3> QED BY <2>1, <2>2, <2>6, <3>1, PutGeneratedKeepsPairs DEF RememberGenerated, Writing
  <2> QED BY <1>1, <1>5, <2>3, <2>4, <2>5, <2>6, OthersAreQuiet DEF CallAction, HandlerStep, ClientStep
<1>6. CASE UNCHANGED vars
  BY <1>2, <1>6 DEF vars
<1> QED BY <1>3, <1>4, <1>5, <1>6 DEF Next, CallAction

LEMMA MapsStep ==
    ASSUME ConstantsAssumption, SetupType, CallsInv, MapsInv, [Next]_vars
    PROVE  MapsInv'
<1>1. \A e \in Ends : PairedAt(e)'
  BY PairsStep
<1>2. DOMAIN received' = Ends /\ DOMAIN generated' = Ends
  <2>1. CASE UNCHANGED maps
    BY <2>1 DEF maps, MapsInv
  <2>2. CASE \E n \in Calls : StoreReceived(n) \/ RememberReceived(n)
    BY <2>2 DEF StoreReceived, RememberReceived, PutReceived, MapsInv
  <2>3. CASE \E n \in Calls : StoreGenerated(n) \/ RememberGenerated(n)
    BY <2>3 DEF StoreGenerated, RememberGenerated, PutGenerated, MapsInv
  <2> QED BY <2>1, <2>2, <2>3 DEF Next, ServerStep, Ipv4Ends, Ipv6Sleeps, Stop, Bind, Move, Accept, Breaks,
        HandlerStep, Serve, RefuseNonce, ClientStep, Receive, Start, vars
<1>3. owner' \in [Hosts -> Devices]
  <2>1. CASE \E g, h \in Hosts : Move(g, h)
    BY <2>1 DEF Move, MapsInv
  <2>2. CASE UNCHANGED owner
    BY <2>2 DEF MapsInv
  <2> QED BY <2>1, <2>2, ZenonT(40) DEF Next, ServerStep, Ipv4Ends, Ipv6Sleeps, Stop, Bind, Accept, Breaks, network,
        HandlerStep, Serve, RefuseNonce, StoreReceived, StoreGenerated,
        ClientStep, Receive, RememberReceived, RememberGenerated, Start, vars
<1>4. ASSUME NEW n \in Calls PROVE AcceptedByDevice(n)'
  <2>1. CASE CallAction(n)
    BY <2>1, AcceptedStep DEF CallsInv, MapsInv
  <2>2. CASE Untouched(n)
    BY <2>2 DEF Untouched, AcceptedByDevice, MapsInv
  <2>3. CASE UNCHANGED calls
    BY <2>3 DEF calls, AcceptedByDevice, MapsInv
  <2>4. ASSUME NEW m \in Calls \ {n}, CallAction(m) PROVE Untouched(n)
    BY <2>4, TablesStep DEF CallAction, CallsInv
  <2>5. ServerStep \/ (\E g, h \in Hosts : Move(g, h)) \/ UNCHANGED vars => UNCHANGED calls
    BY DEF ServerStep, Ipv4Ends, Ipv6Sleeps, Stop, Bind, Move, vars
  <2> QED BY <2>1, <2>2, <2>3, <2>4, <2>5 DEF Next, CallAction
<1> QED BY <1>1, <1>2, <1>3, <1>4 DEF MapsInv

\* However many exchanges a device runs at once, as a client and as a server, the nonce
\* it has received from somebody and the one it has generated for them are those of
\* one exchange, except between the two writes of an exchange.
THEOREM NoncesStayPaired == Spec => []NoncesPaired
<1> USE ConstantsAssumption
<1>1. Init => SetupType /\ MapsInv
  BY DEF Init, SetupType, MapsInv, AcceptedByDevice, PairedAt, HalfAt, Half, ConstantsAssumption
<1>2. SetupType /\ CallsInv /\ MapsInv /\ [Next]_vars => (SetupType /\ CallsInv /\ MapsInv)'
  BY SetupStep, CallsStep, MapsStep
<1>3. MapsInv => NoncesPaired
  BY DEF MapsInv, PairedAt, NoncesPaired, HalfAt
<1> QED BY CallsInit, <1>1, <1>2, <1>3, PTL DEF Spec

-----------------------------------------------------------------------------
(* Ranges *)

Names == Devices \cup Hosts
Entry == [id : Names, call : Calls]

\* A nonce map: nobody has two entries, and there are no more than fit.
IsMap(map) ==
    /\ map \in Seq(Entry) /\ Len(map) <= Capacity
    /\ \A i, j \in DOMAIN map : map[i].id = map[j].id => i = j

\* A nonce map without one of its entries.
LEMMA DropsOne ==
    ASSUME ConstantsAssumption, NEW map, IsMap(map), NEW k \in DOMAIN map
    PROVE  /\ Drop(map, k) \in Seq(Entry) /\ Len(Drop(map, k)) < Capacity
           /\ \A i \in DOMAIN Drop(map, k) :
                \E j \in DOMAIN map : j # k /\ Drop(map, k)[i] = map[j]
           /\ \A i, j \in DOMAIN Drop(map, k) : Drop(map, k)[i].id = Drop(map, k)[j].id => i = j
<1>1. PICK rest : rest = Drop(map, k)
  OBVIOUS
<1>2. map \in Seq(Entry) /\ Len(map) \in Nat /\ DOMAIN map = 1..Len(map) /\ Capacity \in Nat \ {0}
  BY DEF IsMap, ConstantsAssumption
<1>3. /\ Drop(map, k) \in Seq(Entry) /\ Len(Drop(map, k)) = Len(map) - 1
      /\ \A i \in DOMAIN Drop(map, k) :
           /\ i \in Nat /\ i \in DOMAIN map /\ i + 1 \in DOMAIN map
           /\ i < k => Drop(map, k)[i] = map[i]
           /\ ~(i < k) => Drop(map, k)[i] = map[i + 1]
  <2>1. Len(map) - 1 \in Nat /\ k \in Nat
    BY <1>2
  <2>2. \A i \in 1..(Len(map) - 1) : i \in Nat /\ i \in DOMAIN map /\ i + 1 \in DOMAIN map
    BY <1>2
  <2>3. Drop(map, k) \in [1..(Len(map) - 1) -> Entry]
    BY <1>2, <2>2 DEF Drop
  <2>4. Drop(map, k) \in Seq(Entry)
    BY <2>1, <2>3
  <2>5. DOMAIN Drop(map, k) = 1..(Len(map) - 1)
    BY DEF Drop
  <2>6. Len(Drop(map, k)) = Len(map) - 1
    BY <2>1, <2>4, <2>5
  <2> QED BY <2>2, <2>4, <2>5, <2>6 DEF Drop
<1>4. /\ rest \in Seq(Entry) /\ Len(rest) = Len(map) - 1
      /\ \A i \in DOMAIN rest :
           /\ i \in Nat /\ i \in DOMAIN map /\ i + 1 \in DOMAIN map
           /\ i < k => rest[i] = map[i]
           /\ ~(i < k) => rest[i] = map[i + 1]
  BY <1>1, <1>3
<1>5. k \in Nat
  BY <1>2
<1>6. ASSUME NEW i \in DOMAIN rest
      PROVE  \E j \in DOMAIN map : j # k /\ rest[i] = map[j] /\ j = IF i < k THEN i ELSE i + 1
  <2>1. i \in Nat /\ i \in DOMAIN map /\ i + 1 \in DOMAIN map
    BY <1>4
  <2>2. CASE i < k
    <3>1. rest[i] = map[i] /\ i # k
      BY <1>4, <1>5, <2>1, <2>2
    <3> QED BY <2>1, <2>2, <3>1
  <2>3. CASE ~(i < k)
    <3>1. rest[i] = map[i + 1] /\ i + 1 # k
      BY <1>4, <1>5, <2>1, <2>3
    <3> QED BY <2>1, <2>3, <3>1
  <2> QED BY <2>2, <2>3
<1>7. ASSUME NEW i \in DOMAIN rest, NEW j \in DOMAIN rest, rest[i].id = rest[j].id PROVE i = j
  <2>1. PICK a \in DOMAIN map : a # k /\ rest[i] = map[a] /\ a = IF i < k THEN i ELSE i + 1
    BY <1>6
  <2>2. PICK b \in DOMAIN map : b # k /\ rest[j] = map[b] /\ b = IF j < k THEN j ELSE j + 1
    BY <1>6
  <2>3. a = b
    BY <1>7, <2>1, <2>2 DEF IsMap
  <2>4. i \in Nat /\ j \in Nat
    BY <1>4
  <2> QED BY <2>1, <2>2, <2>3, <2>4, <1>5
<1>8. Len(rest) < Capacity
  BY <1>2, <1>4 DEF IsMap
<1>9. \A i \in DOMAIN rest : \E j \in DOMAIN map : j # k /\ rest[i] = map[j]
  BY <1>6
<1> QED BY <1>1, <1>4, <1>7, <1>8, <1>9

\* LruCache::put leaves a nonce map, with the new entry and none but old entries of others.
LEMMA PutSpec ==
    ASSUME ConstantsAssumption, NEW map, IsMap(map), NEW id \in Names, NEW n \in Calls
    PROVE  /\ IsMap(Put(map, id, n))
           /\ \A i \in DOMAIN Put(map, id, n) :
                \/ Put(map, id, n)[i] = [id |-> id, call |-> n]
                \/ \E j \in DOMAIN map : Put(map, id, n)[i] = map[j] /\ map[j].id # id
<1> DEFINE e == [id |-> id, call |-> n]
           gone == IF \E i \in DOMAIN map : map[i].id = id THEN {i \in DOMAIN map : map[i].id = id}
                   ELSE IF Len(map) < Capacity THEN {} ELSE {1}
           k == CHOOSE i \in gone : TRUE
           rest == IF gone = {} THEN map ELSE Drop(map, k)
<1>1. Put(map, id, n) = Append(rest, e)
  BY DEF Put
<1>2. e \in Entry
  BY DEF Entry
<1>3. map \in Seq(Entry) /\ Len(map) \in Nat /\ DOMAIN map = 1..Len(map) /\ Capacity \in Nat \ {0}
  BY DEF IsMap, ConstantsAssumption
<1>4. /\ rest \in Seq(Entry) /\ Len(rest) < Capacity
      /\ \A i \in DOMAIN rest : rest[i].id # id /\ \E j \in DOMAIN map : rest[i] = map[j]
      /\ \A i, j \in DOMAIN rest : rest[i].id = rest[j].id => i = j
  <2>1. CASE gone = {}
    <3>1. rest = map
      BY <2>1
    <3>2. ~(\E i \in DOMAIN map : map[i].id = id) /\ Len(map) < Capacity
      BY <2>1
    <3> HIDE DEF gone, rest, k
    <3> QED BY <3>1, <3>2, <1>3 DEF IsMap
  <2>2. CASE gone # {}
    <3>1. k \in gone
      BY <2>2
    <3>2. k \in DOMAIN map
      BY <3>1, <1>3 DEF IsMap
    <3>3. \A i \in DOMAIN map : map[i].id = id => i = k
      BY <3>1 DEF IsMap
    <3>4. rest = Drop(map, k)
      BY <2>2
    <3> HIDE DEF gone, rest, k
    <3>5. /\ rest \in Seq(Entry) /\ Len(rest) < Capacity
          /\ \A i \in DOMAIN rest : \E j \in DOMAIN map : j # k /\ rest[i] = map[j]
          /\ \A i, j \in DOMAIN rest : rest[i].id = rest[j].id => i = j
      BY <3>2, <3>4, DropsOne
    <3> QED BY <3>3, <3>5
  <2> QED BY <2>1, <2>2
<1> HIDE DEF gone, k, rest, e
<1>5. Append(rest, e) \in Seq(Entry) /\ Len(Append(rest, e)) = Len(rest) + 1
  BY <1>2, <1>4
<1>6. \A i \in DOMAIN Append(rest, e) :
        \/ i = Len(rest) + 1 /\ Append(rest, e)[i] = e
        \/ i \in DOMAIN rest /\ Append(rest, e)[i] = rest[i]
  BY <1>2, <1>4
<1>7. e.id = id
  BY DEF e
<1>8. Len(Append(rest, e)) <= Capacity
  BY <1>3, <1>4, <1>5
<1>9. \A i, j \in DOMAIN Append(rest, e) : Append(rest, e)[i].id = Append(rest, e)[j].id => i = j
  BY <1>4, <1>6, <1>7
<1>10. \A i \in DOMAIN Append(rest, e) :
         Append(rest, e)[i] = e \/ \E j \in DOMAIN map : Append(rest, e)[i] = map[j] /\ map[j].id # id
  BY <1>4, <1>6
<1> QED BY <1>1, <1>5, <1>8, <1>9, <1>10 DEF IsMap, e

Phases == {"idle", "sent", "accepted", "half served", "answered", "half stored", "done"}

\* What is known of a call is in its range; an accepted one came from a host.
CallsType ==
    /\ plan \in [Calls -> setup.plans \cup {None}] /\ phase \in [Calls -> Phases]
    /\ to \in [Calls -> Devices \cup {None}] /\ caller \in [Calls -> Hosts \cup {None}]
    /\ key \in [Calls -> Devices \cup {None}] /\ reply \in [Calls -> Replies \cup {None}]
    /\ result \in [Calls -> Results \cup {None}] /\ before \in [Calls -> SUBSET Calls]
    /\ \A n \in Calls : phase[n] \notin {"idle", "sent", "done"} => caller[n] \in Hosts
UserType == moved \in BOOLEAN /\ known \in [Devices -> [Hosts -> Devices \cup {None}]]

\* The caller is told one of the Results, whatever the checks find.
LEMMA ToldIsAResult ==
    ASSUME NEW checks, DOMAIN checks \subseteq 1..3, \A i \in DOMAIN checks : checks[i][2] \in Results
    PROVE  Told(checks) \in Results
<1> DEFINE wrong == {i \in DOMAIN checks : ~checks[i][1]}
           least == CHOOSE i \in wrong : \A j \in wrong : i <= j
<1>1. CASE wrong = {}
  BY <1>1 DEF Told, Results
<1>2. CASE wrong # {}
  <2>1. wrong \subseteq 1..3
    OBVIOUS
  <2>2. \E i \in wrong : \A j \in wrong : i <= j
    BY <1>2, <2>1
  <2>3. least \in wrong
    BY <2>2
  <2>4. Told(checks) = checks[least][2]
    BY <1>2 DEF Told
  <2> QED BY <2>3, <2>4
<1> QED BY <1>1, <1>2

LEMMA TwoChecks ==
    ASSUME NEW a, NEW b, NEW x \in Results, NEW y \in Results
    PROVE  Told(<< <<a, x>>, <<b, y>> >>) \in Results
<1> DEFINE checks == << <<a, x>>, <<b, y>> >>
<1>1. DOMAIN checks \subseteq 1..3 /\ \A i \in DOMAIN checks : checks[i][2] \in Results
  OBVIOUS
<1> HIDE DEF checks
<1>2. Told(checks) \in Results
  BY <1>1, ToldIsAResult
<1> QED BY <1>2 DEF checks

LEMMA ThreeChecks ==
    ASSUME NEW a, NEW b, NEW c, NEW x \in Results, NEW y \in Results, NEW z \in Results
    PROVE  Told(<< <<a, x>>, <<b, y>>, <<c, z>> >>) \in Results
<1> DEFINE checks == << <<a, x>>, <<b, y>>, <<c, z>> >>
<1>1. DOMAIN checks \subseteq 1..3 /\ \A i \in DOMAIN checks : checks[i][2] \in Results
  OBVIOUS
<1> HIDE DEF checks
<1>2. Told(checks) \in Results
  BY <1>1, ToldIsAResult
<1> QED BY <1>2 DEF checks

LEMMA OutcomeIsAResult ==
    ASSUME NEW n, plan[n].op \in Operations, NEW r
    PROVE  Outcome(n, r) \in Results
<1>1. {"ok", "status", "reqwest", "other"} = Results
  BY DEF Results
<1>2. CASE plan[n].op \in {"register2", "prepare2", "prepare3", "nonce3"}
  BY <1>1, <1>2, ThreeChecks DEF Outcome, Register2, PrepareUpload2, PrepareUpload3, Nonce3
<1>3. CASE plan[n].op \in {"register3", "upload2", "upload3", "info2", "prepareDownload2", "download2"}
  BY <1>1, <1>3, TwoChecks DEF Outcome, Register3, Upload2, Upload3, Info2, PrepareDownload2, Download2
<1>4. CASE plan[n].op \in {"cancel2", "cancel3"}
  BY <1>1, <1>4 DEF Outcome, Cancel2, Cancel3
<1> QED BY <1>2, <1>3, <1>4 DEF Operations

\* Whatever a server answers is a reply.
LEMMA RouteReplies ==
    ASSUME NEW d, NEW p, p.op \in Operations
    PROVE  Route(d, p) \subseteq Replies
<1>1. Reply(404, FALSE) \in Replies /\ Reply(400, FALSE) \in Replies /\ Reply(200, TRUE) \in Replies
  BY DEF Reply, Replies
<1>2. {Reply(404, FALSE)} \subseteq Replies /\ {Reply(400, FALSE)} \subseteq Replies
      /\ {Reply(200, TRUE)} \subseteq Replies
  <2>1. \A r \in Replies : {r} \subseteq Replies
    OBVIOUS
  <2> QED BY ZenonT(40), <1>1, <2>1
<1>3. LegacyRoute(d) \subseteq Replies /\ {r \in Replies : r.dto => r.status = 200} \subseteq Replies
  BY <1>2 DEF LegacyRoute
<1>4. CASE d \in Dart
  <2>1. CASE Uses2(p.op)
    <3>1. Route(d, p) = {r \in Replies : r.dto => r.status = 200}
      BY <1>4, <2>1 DEF Route, Uses2
    <3> QED BY <1>3, <3>1
  <2>2. CASE ~Uses2(p.op)
    <3>1. Route(d, p) = {Reply(404, FALSE)}
      BY <1>4, <2>2 DEF Route, Uses2
    <3> QED BY ZenonT(40), <1>2, <3>1
  <2> QED BY <2>1, <2>2
<1>5. CASE d \notin Dart
  BY <1>2, <1>3, <1>5, ZenonT(40) DEF Route
<1> QED BY <1>4, <1>5

LEMMA PlansAreTyped ==
    ASSUME ConstantsAssumption, SetupType, NEW p \in setup.plans
    PROVE  p # None /\ p \in Plan /\ p.from \in Devices /\ p.host \in Hosts /\ p.op \in Operations
BY DEF SetupType, ConstantsAssumption, IsSetup, Plan

\* A step of a call keeps every call in its range.
LEMMA CallsTypeStep ==
    ASSUME ConstantsAssumption, SetupType, CallsInv, MapsInv, CallsType, UserType,
           NEW n \in Calls, CallAction(n), UNCHANGED setup
    PROVE  CallsType' /\ UserType'
<1> USE DEF CallsType
<1>1. CASE \E p \in setup.plans : Start(n, p)
  <2>1. PICK p \in setup.plans : Start(n, p)
    BY <1>1
  <2>2. p.from \in Devices /\ p.host \in Hosts
    BY PlansAreTyped
  <2>3. /\ plan' = [plan EXCEPT ![n] = p] /\ phase' = [phase EXCEPT ![n] = "sent"]
        /\ key' = [key EXCEPT ![n] = IF p.pinned THEN known[p.from][p.host] ELSE None]
        /\ before' = [before EXCEPT ![n] = {i \in Calls : phase[i] = "done"}]
        /\ UNCHANGED <<moved, to, caller, reply, result, known>>
    BY <2>1 DEF Start, network
  <2>4. known[p.from][p.host] \in Devices \cup {None}
    BY <2>2 DEF UserType
  <2>5. key' \in [Calls -> Devices \cup {None}]
    BY <2>3, <2>4
  <2>6. before' \in [Calls -> SUBSET Calls]
    BY <2>3
  <2>7. plan' \in [Calls -> setup.plans \cup {None}] /\ phase' \in [Calls -> Phases]
    BY <2>3 DEF Phases
  <2>8. \A m \in Calls : phase'[m] \notin {"idle", "sent", "done"} => caller[m] \in Hosts
    BY <2>3
  <2> QED BY <2>3, <2>5, <2>6, <2>7, <2>8 DEF UserType
<1>2. CASE Accept(n)
  <2>1. plan[n] # None
    BY <1>2 DEF Accept, CallsInv, CallInv
  <2>2. plan[n].host \in Hosts
    BY <2>1, PlansAreTyped
  <2>3. PICK h \in Hosts : caller' = [caller EXCEPT ![n] = h]
    BY <1>2 DEF Accept, Callers
  <2>4. /\ to' = [to EXCEPT ![n] = owner[plan[n].host]] /\ phase' = [phase EXCEPT ![n] = "accepted"]
        /\ UNCHANGED <<moved, plan, key, reply, result, before, known>>
    BY <1>2 DEF Accept, network
  <2>5. owner[plan[n].host] \in Devices
    BY <2>2 DEF MapsInv
  <2>6. to' \in [Calls -> Devices \cup {None}]
    BY <2>4, <2>5
  <2>7. caller' \in [Calls -> Hosts \cup {None}] /\ phase' \in [Calls -> Phases]
    BY <2>3, <2>4 DEF Phases
  <2>8. \A m \in Calls : phase'[m] \notin {"idle", "sent", "done"} => caller'[m] \in Hosts
    BY <2>3, <2>4
  <2> QED BY <2>4, <2>6, <2>7, <2>8 DEF UserType
<1>3. CASE Breaks(n)
  BY <1>3 DEF Breaks, Finish, network, UserType, Phases, Results
<1>4. CASE Serve(n)
  <2>1. plan[n] # None
    BY <1>4 DEF Serve, Runs, CallsInv, CallInv
  <2>2. plan[n].op \in Operations
    BY <2>1, PlansAreTyped
  <2>3. PICK r \in Replies : reply' = [reply EXCEPT ![n] = r]
    BY <1>4, <2>2, RouteReplies DEF Serve
  <2> QED BY <1>4, <2>3 DEF Serve, Runs, network, UserType, Phases
<1>5. CASE RefuseNonce(n)
  <2>1. /\ reply' = [reply EXCEPT ![n] = Reply(400, FALSE)] /\ phase' = [phase EXCEPT ![n] = "answered"]
        /\ phase[n] = "accepted" /\ UNCHANGED <<moved, plan, to, caller, key, result, before, known>>
    BY <1>5 DEF RefuseNonce, Runs, network
  <2>2. Reply(400, FALSE) \in Replies
    BY DEF Reply, Replies
  <2> QED BY <2>1, <2>2 DEF UserType, Phases
<1>6. CASE StoreReceived(n)
  BY <1>6 DEF StoreReceived, PutReceived, Half, Runs, network, UserType, Phases
<1>7. CASE StoreGenerated(n)
  <2>1. /\ reply' = [reply EXCEPT ![n] = Reply(200, TRUE)] /\ phase' = [phase EXCEPT ![n] = "answered"]
        /\ phase[n] = "half served" /\ UNCHANGED <<moved, plan, to, caller, key, result, before, known>>
    BY <1>7 DEF StoreGenerated, PutGenerated, Half, network
  <2>2. Reply(200, TRUE) \in Replies
    BY DEF Reply, Replies
  <2> QED BY <2>1, <2>2 DEF UserType, Phases
<1>8. CASE Receive(n)
  <2>1. plan[n] # None /\ to[n] \in Devices
    BY <1>8 DEF Receive, CallsInv, CallInv, MapsInv, AcceptedByDevice
  <2>2. plan[n].from \in Devices /\ plan[n].host \in Hosts /\ plan[n].op \in Operations
    BY <2>1, PlansAreTyped
  <2>3. PICK o \in Results : o = Outcome(n, reply[n])
    BY <2>2, OutcomeIsAResult
  <2>4. /\ result' = [result EXCEPT ![n] = o] /\ phase' = [phase EXCEPT ![n] = "done"]
        /\ reply' = [reply EXCEPT ![n] = None]
        /\ UNCHANGED <<moved, plan, to, caller, key, before>>
    BY <1>8, <2>3 DEF Receive, Finish, network
  <2>5. known' = [known EXCEPT ![plan[n].from][plan[n].host] = to[n]] \/ known' = known
    BY <1>8 DEF Receive
  <2>6. known' \in [Devices -> [Hosts -> Devices \cup {None}]]
    <3>1. PICK a \in Devices, h \in Hosts, d \in Devices \cup {None} :
            known' = [known EXCEPT ![a][h] = d] \/ known' = known
      BY <2>1, <2>2, <2>5
    <3>2. known \in [Devices -> [Hosts -> Devices \cup {None}]]
      BY DEF UserType
    <3>3. CASE known' = [known EXCEPT ![a][h] = d]
      BY <3>2, <3>3
    <3> QED BY <3>1, <3>2, <3>3
  <2> QED BY <2>4, <2>6 DEF UserType, Phases
<1>9. CASE RememberReceived(n)
  BY <1>9 DEF RememberReceived, PutReceived, Half, network, UserType, Phases
<1>10. CASE RememberGenerated(n)
  BY <1>10 DEF RememberGenerated, PutGenerated, Finish, network, UserType, Phases, Results
<1> QED BY <1>1, <1>2, <1>3, <1>4, <1>5, <1>6, <1>7, <1>8, <1>9, <1>10
        DEF CallAction, HandlerStep, ClientStep

\* Whom an end takes the other one for is a device or a host.
LEMMA NamesAreNames ==
    ASSUME ConstantsAssumption, SetupType, MapsInv, CallsType, NEW n \in Calls, NEW role \in Roles,
           plan[n] # None, phase[n] \notin {"idle", "sent", "done"}
    PROVE  Name(n, role) \in Names
<1>1. plan[n].from \in Devices /\ plan[n].host \in Hosts /\ to[n] \in Devices /\ caller[n] \in Hosts
  BY PlansAreTyped DEF CallsType, MapsInv, AcceptedByDevice
<1> QED BY <1>1 DEF Name, ServersName, ClientsName, Names

MapsAreMaps == \A e \in Ends : IsMap(received[e]) /\ IsMap(generated[e])

LEMMA MapsAreMapsStep ==
    ASSUME ConstantsAssumption, SetupType, CallsInv, MapsInv, CallsType, MapsAreMaps,
           NEW n \in Calls, CallAction(n)
    PROVE  MapsAreMaps'
<1>1. CASE UNCHANGED maps
  BY <1>1 DEF maps, MapsAreMaps
<1>2. ASSUME NEW role \in Roles, PutReceived(n, role), UNCHANGED generated, plan[n] # None,
             phase[n] \notin {"idle", "sent", "done"}
      PROVE  MapsAreMaps'
  <2>1. End(n, role) \in Ends /\ Name(n, role) \in Names
    BY <1>2, EndIsAnEnd, NamesAreNames DEF MapsInv
  <2>2. IsMap(Put(received[End(n, role)], Name(n, role), n))
    BY <2>1, PutSpec DEF MapsAreMaps
  <2>3. received' = [received EXCEPT ![End(n, role)] = Put(received[End(n, role)], Name(n, role), n)]
    BY <1>2 DEF PutReceived
  <2> QED BY <1>2, <2>1, <2>2, <2>3 DEF MapsAreMaps, MapsInv
<1>3. ASSUME NEW role \in Roles, PutGenerated(n, role), UNCHANGED received, plan[n] # None,
             phase[n] \notin {"idle", "sent", "done"}
      PROVE  MapsAreMaps'
  <2>1. End(n, role) \in Ends /\ Name(n, role) \in Names
    BY <1>3, EndIsAnEnd, NamesAreNames DEF MapsInv
  <2>2. IsMap(Put(generated[End(n, role)], Name(n, role), n))
    BY <2>1, PutSpec DEF MapsAreMaps
  <2>3. generated' = [generated EXCEPT ![End(n, role)] = Put(generated[End(n, role)], Name(n, role), n)]
    BY <1>3 DEF PutGenerated
  <2> QED BY <1>3, <2>1, <2>2, <2>3 DEF MapsAreMaps, MapsInv
<1>4. plan[n] = None => phase[n] = "idle"
  BY DEF CallsInv, CallInv
<1>5. {"client", "server"} = Roles
  BY DEF Roles
<1>6. CASE StoreReceived(n)
  BY <1>2, <1>4, <1>5, <1>6 DEF StoreReceived, Runs
<1>7. CASE RememberReceived(n)
  BY <1>2, <1>4, <1>5, <1>7 DEF RememberReceived
<1>8. CASE StoreGenerated(n)
  BY <1>3, <1>4, <1>5, <1>8 DEF StoreGenerated, PutGenerated, Half
<1>9. CASE RememberGenerated(n)
  BY <1>3, <1>4, <1>5, <1>9 DEF RememberGenerated, PutGenerated, Half
<1> QED BY <1>1, <1>6, <1>7, <1>8, <1>9 DEF CallAction, HandlerStep, ClientStep,
        Accept, Breaks, Serve, RefuseNonce, Receive, Start

Types == SetupType /\ ListenerType /\ NoListenerAlone /\ CallsInv /\ MapsInv /\ CallsType
         /\ UserType /\ MapsAreMaps

LEMMA TypesStep == ASSUME ConstantsAssumption, Types, [Next]_vars PROVE Types'
<1>1. SetupType' /\ ListenerType' /\ NoListenerAlone' /\ CallsInv' /\ MapsInv'
  BY SetupStep, ListenerStep, CallsStep, MapsStep DEF Types
<1>2. UNCHANGED setup
  <2>1. CASE ServerStep \/ \E g, h \in Hosts : Move(g, h)
    BY <2>1 DEF ServerStep, Ipv4Ends, Ipv6Sleeps, Stop, Bind, Move
  <2>2. ASSUME NEW n \in Calls, CallAction(n) PROVE UNCHANGED setup
    BY <2>2 DEF CallAction, network, Accept, Breaks, HandlerStep, Serve, RefuseNonce, StoreReceived,
                StoreGenerated, ClientStep, Receive, RememberReceived, RememberGenerated, Start
  <2>3. CASE UNCHANGED vars
    BY <2>3 DEF vars, network
  <2> QED BY <2>1, <2>2, <2>3 DEF Next, CallAction
<1>3. ASSUME UNCHANGED <<calls, maps, known>>, moved' \in BOOLEAN
      PROVE  CallsType' /\ UserType' /\ MapsAreMaps'
  BY <1>2, <1>3 DEF calls, maps, CallsType, UserType, MapsAreMaps, Types
<1>4. moved \in BOOLEAN
  BY DEF Types, UserType
<1>5. CASE ServerStep
  <2>1. UNCHANGED <<moved, calls, maps, known>>
    BY <1>5 DEF ServerStep, Ipv4Ends, Ipv6Sleeps, Stop, Bind
  <2> QED BY <1>1, <1>3, <1>4, <2>1 DEF Types
<1>6. CASE \E g, h \in Hosts : Move(g, h)
  <2>1. UNCHANGED <<calls, maps, known>> /\ moved' = TRUE
    BY <1>6 DEF Move
  <2> QED BY <1>1, <1>3, <2>1 DEF Types
<1>8. CASE UNCHANGED vars
  <2>1. UNCHANGED <<moved, calls, maps, known>>
    BY <1>8 DEF vars, network
  <2> QED BY <1>1, <1>3, <1>4, <2>1 DEF Types
<1>7. ASSUME NEW n \in Calls, CallAction(n) PROVE CallsType' /\ UserType' /\ MapsAreMaps'
  BY <1>2, <1>7, CallsTypeStep, MapsAreMapsStep DEF Types
<1> QED BY <1>1, <1>5, <1>6, <1>7, <1>8 DEF Types, Next, CallAction

LEMMA TypesInit == ASSUME ConstantsAssumption PROVE Init => Types
<1> SUFFICES ASSUME Init PROVE Types
  OBVIOUS
<1>1. SetupType /\ ListenerType /\ NoListenerAlone
  BY DEF Init, SetupType, ListenerType, NoListenerAlone, Families
<1>2. CallsInv
  BY CallsInit
<1>3. MapsInv
  BY DEF Init, MapsInv, AcceptedByDevice, PairedAt, HalfAt, Half, ConstantsAssumption
<1>4. CallsType /\ UserType
  BY DEF Init, CallsType, UserType, Phases
<1>5. IsMap(<<>>)
  BY DEF IsMap, ConstantsAssumption
<1>6. MapsAreMaps
  BY <1>5 DEF Init, MapsAreMaps
<1> QED BY <1>1, <1>2, <1>3, <1>4, <1>6 DEF Types

\* Every variable keeps its range, for any devices, hosts and setups, and no nonce map
\* outgrows its capacity.
THEOREM TypeCorrect == Spec => []TypeOK
<1> USE ConstantsAssumption
<1>1. Types /\ [Next]_vars => Types'
  BY TypesStep
<1>2. Types => TypeOK
  <2> SUFFICES ASSUME Types PROVE TypeOK
    OBVIOUS
  <2>1. owner \in [Hosts -> Devices] /\ moved \in BOOLEAN
    BY DEF Types, MapsInv, UserType
  <2>2. \A d \in Devices, f \in Families : listener[d][f] \in {"binding", "up", "asleep", "ended"}
    BY DEF Types, ListenerType
  <2>3. \A n \in Calls :
          /\ plan[n] \in setup.plans \cup {None} /\ to[n] \in Devices \cup {None}
          /\ phase[n] \in {"idle", "sent", "accepted", "half served", "answered", "half stored", "done"}
          /\ caller[n] \in Hosts \cup {None} /\ key[n] \in Devices \cup {None}
          /\ reply[n] \in Replies \cup {None} /\ result[n] \in Results \cup {None}
          /\ before[n] \subseteq Calls
    BY DEF Types, CallsType, Phases
  <2>4. \A e \in Ends : Len(received[e]) <= Capacity /\ Len(generated[e]) <= Capacity
    BY DEF Types, MapsAreMaps, IsMap
  <2>5. \A d \in Devices, h \in Hosts : known[d][h] \in Devices \cup {None}
    BY DEF Types, UserType
  <2> QED BY <2>1, <2>2, <2>3, <2>4, <2>5 DEF TypeOK
<1> QED BY TypesInit, <1>1, <1>2, PTL DEF Spec

-----------------------------------------------------------------------------
(* Whose nonces two ends have in mind *)

\* What an end has stored, whatever the order.
Stored(e) == {generated[e][i] : i \in DOMAIN generated[e]}

\* A call whose connection has been answered, and an exchange the server has stored.
Begun(n) == phase[n] \notin {"idle", "sent", "accepted"}
IsExchange(n) == plan[n] # None /\ plan[n].op = "nonce3"
Answered(n) ==
    /\ IsExchange(n)
    /\ \/ phase[n] = "answered" /\ reply[n].status = 200
       \/ phase[n] = "half stored"
       \/ result[n] = "ok"

\* What is stored is of an exchange, at the client of a successful one.
EntryInv(e) ==
    \A x \in Stored(e) :
      /\ x.call \in Calls /\ IsExchange(x.call) /\ Begun(x.call)
      /\ e[2] = "client" => /\ plan[x.call].from = e[1] /\ result[x.call] = "ok"
                            /\ x.id = ClientsName(x.call)

\* What the server has stored of the same client when it has answered an exchange is
\* not of one that had ended when this one began ...
ServerInv(m) ==
    Answered(m) =>
      /\ to[m] \in Devices
      /\ \A x \in Stored(<<to[m], "server">>) :
           x.id = ServersName(m) /\ x.call # m => x.call \notin before[m]

\* ... and neither is what a client has stored, when it has succeeded with another one.
ClientInv(c) ==
    \A x \in Stored(<<c, "client">>) : \A n \in Calls \ {x.call} :
      IsExchange(n) /\ result[n] = "ok" /\ plan[n].from = c /\ ClientsName(n) = ClientsName(x.call)
        => x.call \notin before[n]

AgreeInv ==
    /\ \A n \in Calls : \A m \in before[n] : phase[m] = "done"
    /\ \A e \in Ends : EntryInv(e)
    /\ \A m \in Calls : ServerInv(m)
    /\ \A c \in Devices : ClientInv(c)

LEMMA AgreeSuffices ==
    ASSUME AgreeInv PROVE NoncesAgree
<1> SUFFICES ASSUME NEW c \in Devices, NEW i \in DOMAIN generated[<<c, "client">>],
                    NEW m, m = generated[<<c, "client">>][i].call,
                    NEW j \in DOMAIN generated[<<to[m], "server">>],
                    NEW n, n = generated[<<to[m], "server">>][j].call,
                    n # m, generated[<<to[m], "server">>][j].id = ServersName(m), plan[n].from = c,
                    ClientsName(n) = ClientsName(m), result[n] = "ok"
             PROVE  Overlapped(m, n)
  BY ZenonT(40) DEF NoncesAgree
<1>1. <<c, "client">> \in Ends /\ generated[<<c, "client">>][i] \in Stored(<<c, "client">>)
  BY DEF Ends, Roles, Stored
<1>2. m \in Calls /\ IsExchange(m) /\ result[m] = "ok"
  BY <1>1 DEF AgreeInv, EntryInv
<1>3. ServerInv(m) /\ Answered(m)
  BY <1>2 DEF AgreeInv, Answered
<1>4. to[m] \in Devices
  BY <1>3 DEF ServerInv
<1>5. <<to[m], "server">> \in Ends
      /\ generated[<<to[m], "server">>][j] \in Stored(<<to[m], "server">>)
  BY <1>4 DEF Ends, Roles, Stored
<1>6. n \in Calls /\ IsExchange(n)
  BY <1>5 DEF AgreeInv, EntryInv
<1>7. n \notin before[m]
  BY <1>3, <1>5 DEF ServerInv
<1>8. m \notin before[n]
  BY <1>1, <1>6 DEF AgreeInv, ClientInv
<1> QED BY <1>7, <1>8 DEF Overlapped

\* The second write of an exchange replaces what the end has stored of the same other end.
LEMMA StoredStep ==
    ASSUME ConstantsAssumption, Types, NEW n \in Calls, NEW role \in Roles, plan[n] # None,
           PutGenerated(n, role), NEW e \in Ends
    PROVE  /\ e # End(n, role) => Stored(e)' = Stored(e)
           /\ e = End(n, role) =>
                \A x \in Stored(e)' :
                  \/ x = [id |-> Name(n, role), call |-> n]
                  \/ x \in Stored(e) /\ x.id # Name(n, role)
<1> DEFINE E == End(n, role)
           old == generated[E]
           new == Put(old, Name(n, role), n)
<1>1. phase[n] \in Writing
  BY DEF PutGenerated, Half, Writing
<1>2. E \in Ends /\ Name(n, role) \in Names
  BY <1>1, EndIsAnEnd, NamesAreNames DEF Types, MapsInv, Writing
<1>3. IsMap(old)
  BY <1>2 DEF Types, MapsAreMaps
<1>4. \A i \in DOMAIN new :
         \/ new[i] = [id |-> Name(n, role), call |-> n]
         \/ \E j \in DOMAIN old : new[i] = old[j] /\ old[j].id # Name(n, role)
  BY <1>2, <1>3, PutSpec
<1>5. generated' = [generated EXCEPT ![E] = new] /\ DOMAIN generated = Ends
  BY DEF PutGenerated, Types, MapsInv
<1> HIDE DEF E, new
<1>6. e # E => Stored(e)' = Stored(e)
  BY <1>5 DEF Stored
<1>7. ASSUME e = E, NEW x \in Stored(e)'
      PROVE  \/ x = [id |-> Name(n, role), call |-> n]
             \/ x \in Stored(e) /\ x.id # Name(n, role)
  <2>1. PICK i \in DOMAIN generated'[e] : x = generated'[e][i]
    BY <1>7 DEF Stored
  <2>2. i \in DOMAIN new /\ x = new[i]
    BY <1>5, <1>7, <2>1
  <2>3. \A j \in DOMAIN old : old[j] \in Stored(e)
    BY <1>7 DEF Stored
  <2> QED BY <1>4, <2>2, <2>3
<1> QED BY <1>6, <1>7 DEF E

LEMMA FirstOfThree ==
    ASSUME NEW a, NEW b, NEW c, NEW x, NEW y, NEW z, x # "ok", Told(<< <<a, x>>, <<b, y>>, <<c, z>> >>) = "ok"
    PROVE  a
<1> DEFINE checks == << <<a, x>>, <<b, y>>, <<c, z>> >>
<1>1. 1 \in DOMAIN checks /\ DOMAIN checks \subseteq 1..3 /\ (checks[1][1] <=> a) /\ checks[1][2] # "ok"
  OBVIOUS
<1> HIDE DEF checks
<1>2. Told(checks) = "ok"
  BY DEF checks
<1> QED BY <1>1, <1>2, FirstCheckSucceeds

\* What a step of a call does to the call: only StoreGenerated answers an exchange, and
\* only RememberGenerated makes one succeed.
LEMMA CallSummary ==
    ASSUME ConstantsAssumption, Types, NEW n \in Calls, CallAction(n)
    PROVE  /\ phase[n] # "done"
           /\ Begun(n) => Begun(n)' /\ UNCHANGED <<plan[n], to[n], caller[n], before[n]>>
           /\ \A m \in before'[n] : m \in before[n] \/ phase[m] = "done"
           /\ Answered(n)' => Answered(n) \/ StoreGenerated(n)
           /\ result'[n] = "ok" /\ IsExchange(n)' => RememberGenerated(n)
<1> USE DEF CallsInv, CallTables, CallInv, CallsType
<1>0. CallsInv /\ CallsType /\ SetupType
  BY DEF Types
<1>1. CASE \E p \in setup.plans : Start(n, p)
  <2>1. PICK p \in setup.plans : Start(n, p)
    BY <1>1
  <2>2. /\ phase[n] = "idle" /\ phase'[n] = "sent" /\ result'[n] = result[n] /\ result[n] # "ok"
        /\ before'[n] = {i \in Calls : phase[i] = "done"}
    BY <1>0, <2>1 DEF Start
  <2> QED BY <2>2 DEF Begun, Answered
<1>2. CASE Accept(n)
  BY <1>0, <1>2 DEF Accept, Begun, Answered
<1>3. CASE Breaks(n)
  BY <1>0, <1>3 DEF Breaks, Finish, Begun, Answered
<1>4. CASE Serve(n)
  <2>1. /\ phase[n] = "accepted" /\ phase'[n] = "answered"
        /\ UNCHANGED <<plan, to, result, before>> /\ result[n] # "ok"
    BY <1>0, <1>4 DEF Serve, Runs
  <2>2. ASSUME plan[n].op = "nonce3" PROVE reply'[n].status # 200
    <3>1. to[n] \in Dart /\ ~Uses2(plan[n].op)
      BY <1>4, <2>2 DEF Serve, Uses2
    <3>2. Route(to[n], plan[n]) = {Reply(404, FALSE)}
      BY <3>1 DEF Route
    <3>3. PICK r : r \in Route(to[n], plan[n]) /\ reply' = [reply EXCEPT ![n] = r]
      BY <1>4 DEF Serve
    <3>4. reply'[n] = Reply(404, FALSE)
      BY ZenonT(40), <1>0, <3>2, <3>3
    <3> QED BY <3>4 DEF Reply
  <2> QED BY <2>1, <2>2 DEF Begun, Answered, IsExchange
<1>5. CASE RefuseNonce(n)
  <2>1. /\ phase[n] = "accepted" /\ phase'[n] = "answered"
        /\ UNCHANGED <<plan, to, result, before>> /\ result[n] # "ok" /\ reply'[n] = Reply(400, FALSE)
    BY <1>0, <1>5 DEF RefuseNonce, Runs
  <2>2. reply'[n].status # 200
    BY <2>1 DEF Reply
  <2> QED BY <2>1, <2>2 DEF Begun, Answered
<1>6. CASE StoreReceived(n)
  BY <1>0, <1>6 DEF StoreReceived, PutReceived, Half, Runs, Begun, Answered
<1>7. CASE StoreGenerated(n)
  BY <1>0, <1>7 DEF StoreGenerated, PutGenerated, Half, Begun
<1>8. CASE Receive(n)
  <2>1. /\ phase[n] = "answered" /\ phase'[n] = "done" /\ UNCHANGED <<plan, to, caller, before>>
        /\ result'[n] = Outcome(n, reply[n]) /\ (plan[n].op = "nonce3" => Outcome(n, reply[n]) # "ok")
    BY <1>0, <1>8 DEF Receive, Finish
  <2> QED BY <2>1 DEF Begun, Answered, IsExchange
<1>9. CASE RememberReceived(n)
  <2>1. /\ phase[n] = "answered" /\ phase'[n] = "half stored"
        /\ UNCHANGED <<plan, to, caller, before, result>>
        /\ plan[n].op = "nonce3" /\ Outcome(n, reply[n]) = "ok" /\ result[n] # "ok" /\ plan[n] # None
    BY <1>0, <1>9 DEF RememberReceived, PutReceived, Half
  <2>2. reply[n].status = 200
    <3>1. Told(<< <<reply[n].status = 200, "status">>, <<Verified(n, None), "other">>,
                  <<reply[n].dto, "reqwest">> >>) = "ok"
      BY <2>1 DEF Outcome, Nonce3
    <3> QED BY <3>1, FirstOfThree
  <2> QED BY <2>1, <2>2 DEF Begun, Answered, IsExchange
<1>10. CASE RememberGenerated(n)
  <2>1. /\ phase[n] = "half stored" /\ phase'[n] = "done" /\ UNCHANGED <<plan, to, caller, before>>
    BY <1>0, <1>10 DEF RememberGenerated, PutGenerated, Half, Finish
  <2> QED BY <1>10, <2>1 DEF Begun, Answered, IsExchange
<1> QED BY <1>1, <1>2, <1>3, <1>4, <1>5, <1>6, <1>7, <1>8, <1>9, <1>10
        DEF CallAction, HandlerStep, ClientStep

\* The names an end is known by are those of an accepted call.
LEMMA OthersStay ==
    ASSUME Types, NEW n \in Calls, CallAction(n), NEW m \in Calls \ {n}
    PROVE  /\ UNCHANGED <<plan[m], phase[m], to[m], caller[m], reply[m], result[m], before[m]>>
           /\ UNCHANGED <<ServersName(m), ClientsName(m)>>
           /\ IsExchange(m)' = IsExchange(m) /\ Begun(m)' = Begun(m) /\ Answered(m)' = Answered(m)
<1>1. Untouched(m)
  BY TablesStep DEF Types, CallsInv, CallAction
<1>2. UNCHANGED <<reply[m], before[m]>>
  <2>1. DOMAIN reply = Calls /\ DOMAIN before = Calls
    BY DEF Types, CallsType
  <2> QED BY <2>1, ZenonT(40) DEF CallAction, Accept, Breaks, Finish, HandlerStep, Serve, RefuseNonce, StoreReceived,
             StoreGenerated, ClientStep, Receive, RememberReceived, RememberGenerated, Start
<1> QED BY <1>1, <1>2 DEF Untouched, ServersName, ClientsName, IsExchange, Begun, Answered

\* Nothing is stored but by the second write of an exchange.
LEMMA StoredStays ==
    ASSUME NEW n \in Calls, CallAction(n), ~StoreGenerated(n), ~RememberGenerated(n), NEW e
    PROVE  Stored(e)' = Stored(e)
<1>1. CASE StoreReceived(n) \/ RememberReceived(n)
  BY <1>1 DEF StoreReceived, RememberReceived, Stored
<1>2. CASE Accept(n) \/ Breaks(n) \/ \E p \in setup.plans : Start(n, p)
  BY <1>2 DEF Accept, Breaks, Start, maps, Stored
<1>3. CASE Serve(n) \/ RefuseNonce(n) \/ Receive(n)
  BY <1>3 DEF Serve, RefuseNonce, Receive, maps, Stored
<1> QED BY <1>1, <1>2, <1>3 DEF CallAction, HandlerStep, ClientStep

\* A step of a call keeps what the ends have in mind.
LEMMA AgreeStep ==
    ASSUME ConstantsAssumption, Types, AgreeInv, NEW n \in Calls, CallAction(n)
    PROVE  AgreeInv'
<1>1. /\ phase[n] # "done"
      /\ Begun(n) => Begun(n)' /\ UNCHANGED <<plan[n], to[n], caller[n], before[n]>>
      /\ \A m \in before'[n] : m \in before[n] \/ phase[m] = "done"
      /\ Answered(n)' => Answered(n) \/ StoreGenerated(n)
      /\ result'[n] = "ok" /\ IsExchange(n)' => RememberGenerated(n)
  BY CallSummary
<1>2. \A m \in Calls \ {n} :
        /\ UNCHANGED <<plan[m], phase[m], to[m], caller[m], reply[m], result[m], before[m]>>
        /\ UNCHANGED <<ServersName(m), ClientsName(m)>>
        /\ IsExchange(m)' = IsExchange(m) /\ Begun(m)' = Begun(m) /\ Answered(m)' = Answered(m)
  BY OthersStay
<1>3. \A m \in Calls : result[m] = "ok" => phase[m] = "done" /\ m # n
  BY <1>1 DEF Types, CallsInv, CallInv
<1>4. \A m \in Calls : before'[m] \subseteq Calls
  BY TypesStep DEF Types, CallsType, Next, CallAction
<1>5. ASSUME NEW m \in Calls, NEW k \in before'[m] PROVE phase'[k] = "done"
  <2>1. k \in Calls
    BY <1>4
  <2>2. phase[k] = "done"
    BY <1>1, <1>2 DEF AgreeInv
  <2> QED BY <1>1, <1>2, <2>1, <2>2
<1>6. \A m \in Calls : n \notin before[m]
  BY <1>1 DEF AgreeInv
<1>7. \A m \in Calls \ {n} : n \notin before'[m]
  BY <1>2, <1>6
\* What the step stores.
<1>8. StoreGenerated(n) \/ RememberGenerated(n) =>
        plan[n] # None /\ plan[n].op = "nonce3" /\ Begun(n) /\ plan[n].from \in Devices /\ to[n] \in Devices
  <2>1. StoreGenerated(n) \/ RememberGenerated(n) => phase[n] \in {"half served", "half stored"}
    BY DEF StoreGenerated, RememberGenerated, PutGenerated, Half
  <2> QED BY <2>1 DEF Types, CallsInv, CallInv, MapsInv, AcceptedByDevice, Begun
<1>9. ASSUME NEW e \in Ends, NEW x \in Stored(e)'
      PROVE  \/ x \in Stored(e)
             \/ x = [id |-> ServersName(n), call |-> n] /\ StoreGenerated(n) /\ e = <<to[n], "server">>
             \/ x = [id |-> ClientsName(n), call |-> n] /\ RememberGenerated(n) /\ e = <<plan[n].from, "client">>
  <2>1. CASE StoreGenerated(n)
    <3>1. PutGenerated(n, "server") /\ "server" \in Roles
      BY <2>1 DEF StoreGenerated, Roles
    <3>2. End(n, "server") = <<to[n], "server">> /\ Name(n, "server") = ServersName(n)
      BY DEF End, Name
    <3> QED BY <1>8, <2>1, <3>1, <3>2, StoredStep
  <2>2. CASE RememberGenerated(n)
    <3>1. PutGenerated(n, "client") /\ "client" \in Roles
      BY <2>2 DEF RememberGenerated, Roles
    <3>2. End(n, "client") = <<plan[n].from, "client">> /\ Name(n, "client") = ClientsName(n)
      BY DEF End, Name
    <3> QED BY <1>8, <2>2, <3>1, <3>2, StoredStep
  <2>3. CASE ~StoreGenerated(n) /\ ~RememberGenerated(n)
    BY <2>3, StoredStays
  <2> QED BY <2>1, <2>2, <2>3
<1>10. ASSUME StoreGenerated(n), NEW e, e = <<to[n], "server">>, NEW x \in Stored(e)', x.call # n
       PROVE  x.id # ServersName(n)
  <2>1. PutGenerated(n, "server") /\ "server" \in Roles /\ e \in Ends
    BY <1>8, <1>10 DEF StoreGenerated, Roles, Ends
  <2>2. End(n, "server") = e /\ Name(n, "server") = ServersName(n)
    BY <1>10 DEF End, Name
  <2>3. x = [id |-> Name(n, "server"), call |-> n] \/ x.id # Name(n, "server")
    BY <1>8, <1>10, <2>1, <2>2, StoredStep
  <2> QED BY <1>10, <2>2, <2>3
<1>11. ASSUME RememberGenerated(n), NEW e, e = <<plan[n].from, "client">>, NEW x \in Stored(e)', x.call # n
       PROVE  x.id # ClientsName(n)
  <2>1. PutGenerated(n, "client") /\ "client" \in Roles /\ e \in Ends
    BY <1>8, <1>11 DEF RememberGenerated, Roles, Ends
  <2>2. End(n, "client") = e /\ Name(n, "client") = ClientsName(n)
    BY <1>11 DEF End, Name
  <2>3. x = [id |-> Name(n, "client"), call |-> n] \/ x.id # Name(n, "client")
    BY <1>8, <1>11, <2>1, <2>2, StoredStep
  <2> QED BY <1>11, <2>2, <2>3
<1>12. Begun(n) => UNCHANGED <<plan[n], to[n], caller[n], before[n], ServersName(n), ClientsName(n)>>
                   /\ IsExchange(n)' = IsExchange(n) /\ Begun(n)'
  BY <1>1 DEF ServersName, ClientsName, IsExchange
<1>13. RememberGenerated(n) => result'[n] = "ok"
  BY DEF RememberGenerated, Finish, Types, CallsType
<1>14. ASSUME NEW e \in Ends PROVE EntryInv(e)'
  <2> SUFFICES ASSUME NEW x \in Stored(e)'
               PROVE  /\ x.call \in Calls /\ IsExchange(x.call)' /\ Begun(x.call)'
                      /\ e[2] = "client" => /\ plan'[x.call].from = e[1] /\ result'[x.call] = "ok"
                                            /\ x.id = ClientsName(x.call)'
    BY DEF EntryInv
  <2>1. CASE x \in Stored(e)
    <3>1. /\ x.call \in Calls /\ IsExchange(x.call) /\ Begun(x.call)
          /\ e[2] = "client" => /\ plan[x.call].from = e[1] /\ result[x.call] = "ok"
                                /\ x.id = ClientsName(x.call)
      BY <2>1 DEF AgreeInv, EntryInv
    <3>2. CASE x.call = n
      BY <1>3, <1>12, <3>1, <3>2
    <3>3. CASE x.call # n
      BY <1>2, <3>1, <3>3
    <3> QED BY <3>2, <3>3
  <2>2. CASE x.call = n /\ StoreGenerated(n) /\ e = <<to[n], "server">>
    BY <1>8, <1>12, <2>2 DEF IsExchange
  <2>3. CASE x.call = n /\ x.id = ClientsName(n) /\ RememberGenerated(n) /\ e = <<plan[n].from, "client">>
    BY <1>8, <1>12, <1>13, <2>3 DEF IsExchange
  <2> QED BY <1>9, <2>1, <2>2, <2>3
<1>15. ASSUME NEW m \in Calls PROVE ServerInv(m)'
  <2> SUFFICES ASSUME Answered(m)'
               PROVE  /\ to'[m] \in Devices
                      /\ \A x \in Stored(<<to[m], "server">>)' :
                           x.id = ServersName(m)' /\ x.call # m => x.call \notin before'[m]
    BY DEF ServerInv
  <2>1. CASE m # n
    <3>1. Answered(m) /\ UNCHANGED <<to[m], before[m], ServersName(m)>>
      BY <1>2, <2>1
    <3>2. /\ to[m] \in Devices
          /\ \A x \in Stored(<<to[m], "server">>) :
               x.id = ServersName(m) /\ x.call # m => x.call \notin before[m]
      BY <3>1 DEF AgreeInv, ServerInv
    <3>3. PICK e \in Ends : e = <<to[m], "server">>
      BY <3>2 DEF Ends, Roles
    <3>4. Stored(<<to[m], "server">>)' = Stored(e)'
      BY <3>1, <3>3 DEF Stored
    <3>5. ASSUME NEW x \in Stored(e)', x.id = ServersName(m), x.call # m PROVE x.call \notin before[m]
      <4>1. CASE x \in Stored(e)
        BY <3>2, <3>3, <3>5, <4>1
      <4>2. CASE x.call = n
        BY <1>6, <4>2
      <4> QED BY <1>9, <3>5, <4>1, <4>2
    <3> QED BY <3>1, <3>2, <3>4, <3>5
  <2>2. CASE m = n
    <3>1. to[n] \in Devices /\ Begun(n)
      <4>1. CASE Answered(n)
        BY <4>1, <1>3 DEF AgreeInv, ServerInv, Answered, Begun
      <4> QED BY <1>1, <1>8, <2>2, <4>1
    <3>2. PICK e \in Ends : e = <<to[n], "server">>
      BY <3>1 DEF Ends, Roles
    <3>3. Stored(<<to[n], "server">>)' = Stored(e)' /\ UNCHANGED <<to[n], before[n], ServersName(n)>>
      BY <1>12, <3>1, <3>2 DEF Stored
    <3>4. ASSUME NEW x \in Stored(e)', x.id = ServersName(n), x.call # n PROVE x.call \notin before[n]
      <4>1. ~StoreGenerated(n)
        BY <1>10, <3>2, <3>4
      <4>2. Answered(n) /\ x \in Stored(e)
        BY <1>1, <1>9, <2>2, <3>4, <4>1
      <4> QED BY <3>2, <3>4, <4>2 DEF AgreeInv, ServerInv
    <3> QED BY <2>2, <3>1, <3>3, <3>4
  <2> QED BY <2>1, <2>2
<1>16. ASSUME NEW c \in Devices PROVE ClientInv(c)'
  <2>1. PICK e \in Ends : e = <<c, "client">>
    BY DEF Ends, Roles
  <2> SUFFICES ASSUME NEW x \in Stored(e)', NEW k \in Calls \ {x.call},
                      IsExchange(k)', result'[k] = "ok", plan'[k].from = c, ClientsName(k)' = ClientsName(x.call)'
               PROVE  x.call \notin before'[k]
    BY <2>1 DEF ClientInv
  <2>2. CASE x.call = n
    BY <1>7, <2>2
  <2>3. CASE x.call # n
    <3>1. x \in Stored(e)
      BY <1>9, <2>3
    <3>2. x.call \in Calls /\ x.id = ClientsName(x.call)
      BY <2>1, <3>1 DEF AgreeInv, EntryInv
    <3>3. UNCHANGED ClientsName(x.call)
      BY <1>2, <2>3, <3>2
    <3>4. CASE k # n
      <4>1. IsExchange(k) /\ result[k] = "ok" /\ plan[k].from = c /\ ClientsName(k) = ClientsName(x.call)
            /\ before'[k] = before[k]
        BY <1>2, <3>3, <3>4
      <4> QED BY <2>1, <3>1, <4>1 DEF AgreeInv, ClientInv
    <3>5. CASE k = n
      <4>1. RememberGenerated(n)
        BY <1>1, <3>5
      <4>2. Begun(n) /\ plan[n].from = c /\ ClientsName(n)' = ClientsName(n)
        BY <1>8, <1>12, <3>5, <4>1
      <4>3. x.id # ClientsName(n)
        BY <1>11, <2>1, <2>3, <4>1, <4>2
      <4> QED BY <3>2, <3>3, <3>5, <4>2, <4>3
    <3> QED BY <3>4, <3>5
  <2> QED BY <2>2, <2>3
<1> QED BY <1>5, <1>14, <1>15, <1>16 DEF AgreeInv

\* When a server's entry for a client and the client's entry for that server are of two
\* exchanges, the two ran at the same time or the client has not heard of the server's,
\* for any capacity of the maps, any addresses and any number of exchanges.
THEOREM ExchangesAgree == Spec => []NoncesAgree
<1> USE ConstantsAssumption
<1>1. Init => AgreeInv
  BY DEF Init, AgreeInv, EntryInv, ServerInv, ClientInv, Stored, Answered, IsExchange, Ends, Roles
<1>2. Types /\ AgreeInv /\ [Next]_vars => (Types /\ AgreeInv)'
  <2> SUFFICES ASSUME Types, AgreeInv, [Next]_vars PROVE AgreeInv'
    BY TypesStep
  <2>1. CASE UNCHANGED <<calls, generated>>
    <3>1. \A e : Stored(e)' = Stored(e)
      BY <2>1 DEF Stored
    <3>2. UNCHANGED <<plan, phase, to, caller, reply, result, before>>
      BY <2>1 DEF calls
    <3>3. \A m : /\ IsExchange(m)' = IsExchange(m) /\ Begun(m)' = Begun(m) /\ Answered(m)' = Answered(m)
                 /\ UNCHANGED <<ClientsName(m), ServersName(m)>>
      BY <3>2 DEF Answered, IsExchange, Begun, ClientsName, ServersName
    <3>4. \A m \in Calls : Stored(<<to[m], "server">>)' = Stored(<<to[m], "server">>)
      BY <2>1, <3>2 DEF Stored
    <3>5. \A e \in Ends : EntryInv(e)'
      BY <3>1, <3>2, <3>3 DEF EntryInv, AgreeInv
    <3>6. \A m \in Calls : ServerInv(m)'
      BY <3>2, <3>3, <3>4 DEF ServerInv, AgreeInv
    <3>7. \A c \in Devices : ClientInv(c)'
      BY <3>1, <3>2, <3>3 DEF ClientInv, AgreeInv
    <3> QED BY <3>2, <3>5, <3>6, <3>7 DEF AgreeInv
  <2>2. CASE ServerStep \/ \E g, h \in Hosts : Move(g, h)
    BY <2>1, <2>2 DEF ServerStep, Ipv4Ends, Ipv6Sleeps, Stop, Bind, Move, maps
  <2>3. CASE UNCHANGED vars
    BY <2>1, <2>3 DEF vars, maps
  <2>4. ASSUME NEW n \in Calls, CallAction(n) PROVE AgreeInv'
    BY <2>4, AgreeStep
  <2> QED BY <2>2, <2>3, <2>4 DEF Next, CallAction
<1> QED BY TypesInit, AgreeSuffices, <1>1, <1>2, PTL DEF Spec

=============================================================================
