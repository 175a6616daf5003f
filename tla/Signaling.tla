----------------------------- MODULE Signaling -----------------------------
(***************************************************************************)
(* The signaling server: handle_socket in                                  *)
(* server/src/controller/ws_controller.rs with the shared maps of          *)
(* server/src/config/state.rs, for the clients of one IP group (groups     *)
(* share nothing), and what a client learns from the messages it gets.     *)
(*                                                                         *)
(* Every connection has a bounded queue.  Its handler registers it under a *)
(* lock, then announces it to the others one blocking send at a time, then *)
(* puts Hello into its own queue; only after that do two tasks start, one  *)
(* that empties the queue into the socket and one that reads the socket    *)
(* and sends into other connections' queues.  A send waits while the       *)
(* queue is full and fails at once when its receiver has been dropped.     *)
(*                                                                         *)
(* A connection has a fresh uuid: a client that comes back is another      *)
(* member of Peers.                                                        *)
(***************************************************************************)
EXTENDS Integers, Sequences, FiniteSets, SequencesExt

CONSTANTS
    Peers,            \* connections
    Capacity,         \* capacity of a queue: mpsc::channel(4)
    MaxConnections,   \* MAX_CONNECTIONS_PER_IP
    MaxRequests,      \* MAX_REQUESTS_PER_IP_PER_HOUR
    Kinds,            \* the kinds of messages clients send
    MaxSends          \* MaxSends[c]: how many messages client c sends (bound)

ASSUME SignalingAssumption ==
    /\ IsFiniteSet(Peers)
    /\ Capacity \in Nat \ {0}
    /\ Kinds \subseteq {"Update", "Offer", "Answer"}
    /\ MaxConnections \in Nat /\ MaxRequests \in Nat
    /\ MaxSends \in [Peers -> Nat]

VARIABLES
    registered,   \* the keys of the group's map in tx_map
    count,        \* request_count_map of the group
    pc,           \* where handle_socket is
    todo,         \* the connections the handler still has to send to, in order
    inbox,        \* the queue of each connection
    out,          \* what the receiving task is sending: kind and targets
    sent,         \* how many messages the client has sent
    closed,       \* has the client closed its socket?
    greeted,      \* has the client read its Hello?
    hello,        \* the peers listed in its Hello
    known         \* the peers the client believes to be there

serverVars == <<registered, count, pc, todo, inbox, out>>
clientVars == <<sent, closed, greeted, hello, known>>
vars == <<serverVars, clientVars>>

-----------------------------------------------------------------------------
Idle == [kind |-> "none", to |-> <<>>]

Msg(type, from) == [type |-> type, from |-> from]

Init ==
    /\ registered = {} /\ count = 0
    /\ pc = [c \in Peers |-> "new"]
    /\ todo = [c \in Peers |-> <<>>]
    /\ inbox = [c \in Peers |-> <<>>]
    /\ out = [c \in Peers |-> Idle]
    /\ sent = [c \in Peers |-> 0]
    /\ closed = [c \in Peers |-> FALSE]
    /\ greeted = [c \in Peers |-> FALSE]
    /\ hello = [c \in Peers |-> {}]
    /\ known = [c \in Peers |-> {}]

\* The receiver of q's queue exists: it is created with the connection and
\* dropped with the task that empties the queue.
RxAlive(q) == pc[q] \in {"joining", "running", "ended"}

\* Mutation: try_send, a message to a full queue is lost.
TrySend(q, m) ==
    inbox' = IF RxAlive(q) /\ Len(inbox[q]) < Capacity
             THEN [inbox EXCEPT ![q] = Append(@, m)] ELSE inbox

\* tx.send(m).await, its error ignored.
Send(q, m) ==
    \/ /\ RxAlive(q) /\ Len(inbox[q]) < Capacity
       /\ inbox' = [inbox EXCEPT ![q] = Append(@, m)]
    \/ ~RxAlive(q) /\ UNCHANGED inbox

-----------------------------------------------------------------------------
(* The handler: registration and announcement *)

\* Mutation: the limit is off by one.
ConnectOverLimit(c) ==
    /\ pc[c] = "new" /\ count < MaxRequests
    /\ Cardinality(registered) <= MaxConnections
    /\ count' = count + 1
    /\ registered' = registered \cup {c}
    /\ hello' = [hello EXCEPT ![c] = registered]
    /\ \E order \in SetToSeqs(registered) : todo' = [todo EXCEPT ![c] = order]
    /\ pc' = [pc EXCEPT ![c] = "joining"]
    /\ UNCHANGED <<inbox, out, sent, closed, greeted, known>>

\* Under the lock of tx_map: either limit refuses the connection; otherwise
\* the others are collected, in the order of a hash map, and c is inserted.
Connect(c) ==
    /\ pc[c] = "new"
    /\ \/ /\ \/ Cardinality(registered) >= MaxConnections
             \/ count >= MaxRequests
          /\ pc' = [pc EXCEPT ![c] = "refused"]
          /\ UNCHANGED <<registered, count, todo, hello>>
       \/ /\ Cardinality(registered) < MaxConnections
          /\ count < MaxRequests
          /\ count' = count + 1
          /\ registered' = registered \cup {c}
          /\ hello' = [hello EXCEPT ![c] = registered]
          /\ \E order \in SetToSeqs(registered) : todo' = [todo EXCEPT ![c] = order]
          /\ pc' = [pc EXCEPT ![c] = "joining"]
    /\ UNCHANGED <<inbox, out, sent, closed, greeted, known>>

SendJoin(c) ==
    /\ pc[c] = "joining" /\ todo[c] # <<>>
    /\ Send(Head(todo[c]), Msg("Join", c))
    /\ todo' = [todo EXCEPT ![c] = Tail(@)]
    /\ UNCHANGED <<registered, count, pc, out, clientVars>>

\* Mutation: the connection is served before it has been announced.
SendHelloEarly(c) ==
    /\ pc[c] = "joining"
    /\ Send(c, Msg("Hello", c))
    /\ pc' = [pc EXCEPT ![c] = "running"]
    /\ UNCHANGED <<registered, count, todo, out, clientVars>>

\* Hello goes into the connection's own queue, which nobody empties yet; then
\* the two tasks are spawned.
SendHello(c) ==
    /\ pc[c] = "joining" /\ todo[c] = <<>>
    /\ Send(c, Msg("Hello", c))
    /\ pc' = [pc EXCEPT ![c] = "running"]
    /\ UNCHANGED <<registered, count, todo, out, clientVars>>

-----------------------------------------------------------------------------
(* The two tasks of a connection *)

\* send_task: one message from the queue to the client, which keeps its own
\* list of peers.
Deliver(c) ==
    /\ pc[c] \in {"running", "ended"} /\ ~closed[c]
    /\ inbox[c] # <<>>
    /\ LET m == Head(inbox[c])
       IN  /\ greeted' = [greeted EXCEPT ![c] = @ \/ m.type = "Hello"]
           /\ known' = [known EXCEPT ![c] =
                           CASE m.type = "Hello" -> @ \cup hello[c]
                             [] m.type = "Join"  -> @ \cup {m.from}
                             [] m.type = "Left"  -> @ \ {m.from}
                             [] OTHER            -> @]
    /\ inbox' = [inbox EXCEPT ![c] = Tail(@)]
    /\ UNCHANGED <<registered, count, pc, todo, out, sent, closed, hello>>

\* recv_task reads a message.  The request limit answers 429 and ends the
\* task; an update goes to all others, an offer or answer to its target if that
\* is registered.
ClientSends(c, kind, target) ==
    /\ pc[c] = "running" /\ ~closed[c]
    /\ out[c] = Idle
    /\ sent[c] < MaxSends[c]
    /\ sent' = [sent EXCEPT ![c] = @ + 1]
    /\ \/ /\ count >= MaxRequests
          /\ out' = [out EXCEPT ![c] = [kind |-> "Error", to |-> <<c>>]]
          /\ UNCHANGED count
       \/ /\ count < MaxRequests
          /\ count' = count + 1
          /\ \E order \in SetToSeqs(IF kind = "Update" THEN registered \ {c}
                                                       ELSE registered \cap {target}) :
                out' = [out EXCEPT ![c] = IF order = <<>> THEN Idle
                                          ELSE [kind |-> kind, to |-> order]]
    /\ UNCHANGED <<registered, pc, todo, inbox, closed, greeted, hello, known>>

\* recv_task sends into one queue; after an error message it returns.
SendOut(c) ==
    LET rest == Tail(out[c].to)
    IN  /\ pc[c] = "running" /\ out[c] # Idle
        /\ Send(Head(out[c].to), Msg(out[c].kind, c))
        /\ out' = [out EXCEPT ![c] = IF rest = <<>> THEN Idle ELSE [@ EXCEPT !.to = rest]]
        /\ pc' = IF out[c].kind = "Error" THEN [pc EXCEPT ![c] = "ended"] ELSE pc
        /\ UNCHANGED <<registered, count, todo, clientVars>>

\* The client goes away, at any time.
ClientCloses(c) ==
    /\ RxAlive(c) /\ ~closed[c]
    /\ closed' = [closed EXCEPT ![c] = TRUE]
    /\ UNCHANGED <<serverVars, sent, greeted, hello, known>>

\* Mutation: the client's going is noticed once everything is delivered.
TaskEndsOnceDelivered(c) ==
    /\ pc[c] = "running" /\ closed[c]
    /\ out[c] = Idle /\ inbox[c] = <<>>
    /\ pc' = [pc EXCEPT ![c] = "ended"]
    /\ UNCHANGED <<registered, count, todo, inbox, out, clientVars>>

\* One of the tasks notices: recv_task when it reads, send_task when it writes.
TaskEnds(c) ==
    /\ pc[c] = "running" /\ closed[c]
    /\ out[c] = Idle \/ inbox[c] # <<>>
    /\ pc' = [pc EXCEPT ![c] = "ended"]
    /\ UNCHANGED <<registered, count, todo, inbox, out, clientVars>>

-----------------------------------------------------------------------------
(* The handler: removal *)

\* The other task is aborted in the middle of what it does, the connection is
\* removed under the lock and the remaining ones are collected.
Cleanup(c) ==
    /\ pc[c] = "ended"
    /\ registered' = registered \ {c}
    /\ inbox' = [inbox EXCEPT ![c] = <<>>]
    /\ out' = [out EXCEPT ![c] = Idle]
    /\ \E order \in SetToSeqs(registered \ {c}) : todo' = [todo EXCEPT ![c] = order]
    /\ pc' = [pc EXCEPT ![c] = "leaving"]
    /\ UNCHANGED <<count, clientVars>>

SendLeft(c) ==
    /\ pc[c] = "leaving" /\ todo[c] # <<>>
    /\ Send(Head(todo[c]), Msg("Left", c))
    /\ todo' = [todo EXCEPT ![c] = Tail(@)]
    /\ UNCHANGED <<registered, count, pc, out, clientVars>>

\* The scheduler clears the request counters every hour.
HourPasses ==
    /\ count > 0 /\ count' = 0
    /\ UNCHANGED <<registered, pc, todo, inbox, out, clientVars>>

-----------------------------------------------------------------------------
HandlerStep(c) == \/ SendJoin(c) \/ SendHello(c)
                  \/ Cleanup(c) \/ SendLeft(c)

RecvStep(c) == SendOut(c) \/ TaskEnds(c)

Next == \/ \E c \in Peers : \/ HandlerStep(c) \/ RecvStep(c) \/ Deliver(c)
                            \/ Connect(c) \/ ClientCloses(c)
        \/ \E c, target \in Peers, kind \in Kinds :
              ClientSends(c, kind, target)
        \/ HourPasses

Spec == Init /\ [][Next]_vars

\* The runtime polls every task that can go on.  Nobody makes a client read
\* what is sent to it.
FairSpec == /\ Spec
            /\ \A c \in Peers : WF_vars(HandlerStep(c)) /\ WF_vars(RecvStep(c))

\* The same with clients that read what arrives until they close their socket.
ReadingSpec == FairSpec /\ \A c \in Peers : WF_vars(Deliver(c))

-----------------------------------------------------------------------------
(* Properties *)

MsgType == {"Hello", "Join", "Left", "Update", "Offer", "Answer", "Error"}

\* Every variable has its type, and the three limits hold.
TypeOK ==
    /\ registered \in SUBSET Peers /\ Cardinality(registered) <= MaxConnections
    /\ count \in 0..MaxRequests
    /\ pc \in [Peers -> {"new", "refused", "joining", "running", "ended", "leaving"}]
    /\ todo \in [Peers -> Seq(Peers)]
    /\ inbox \in [Peers -> Seq([type : MsgType, from : Peers])]
    /\ \A c \in Peers : Len(inbox[c]) <= Capacity
    /\ out \in [Peers -> [kind : MsgType \cup {"none"}, to : Seq(Peers)]]
    /\ sent \in [Peers -> Nat] /\ \A c \in Peers : sent[c] <= MaxSends[c]
    /\ closed \in [Peers -> BOOLEAN] /\ greeted \in [Peers -> BOOLEAN]
    /\ hello \in [Peers -> SUBSET Peers] /\ known \in [Peers -> SUBSET Peers]

\* Nothing that would change c's list of peers is on its way to it.
Settled(c) ==
    /\ pc[c] = "running" /\ ~closed[c] /\ inbox[c] = <<>>
    /\ \A d \in Peers : \A i \in 1..Len(todo[d]) : todo[d][i] # c

\* A client to which nothing is on its way knows everybody who is registered:
\* whoever came before is in its Hello, whoever came after has announced
\* itself, and no Left overtakes a Join.
NobodyMissing ==
    \A c \in Peers : Settled(c) => registered \ {c} \subseteq known[c]

\* A client to which nothing is on its way has forgotten whoever joined after
\* it and is gone.  (Those listed in its Hello may have left before the
\* Hello was sent, and are then remembered for good.)
NewcomersAreForgotten ==
    \A c \in Peers : Settled(c) => known[c] \subseteq registered \cup hello[c]

\* An update, offer or answer reaches a client that has been greeted only from
\* a peer the client knows at that moment, so that it can name the sender.
StrangersDoNotCall ==
    \A c \in Peers :
        /\ pc[c] = "running" /\ greeted[c] /\ inbox[c] # <<>>
        /\ Head(inbox[c]).type \in {"Update", "Offer", "Answer"}
        /\ Head(inbox[c]).from # c
        => Head(inbox[c]).from \in known[c]

\* Every client's list of peers is right whenever a name of it is used, and when
\* nothing more is on its way.
ListsOfPeersAreRight == NobodyMissing /\ NewcomersAreForgotten /\ StrangersDoNotCall

Full(c) == Len(inbox[c]) = Capacity

\* A handler that waits for room in its own queue, which only it could empty.
Stuck(c) == pc[c] = "joining" /\ todo[c] = <<>> /\ Full(c)

\* A client that is there and does not read what is waiting for it.
Unread(c) == pc[c] = "running" /\ ~closed[c] /\ Full(c)

\* A task of c is in the middle of a send, with no room in the queue it sends to.
WaitsForRoom(c) ==
    \/ pc[c] = "joining" /\ todo[c] # <<>> /\ Full(Head(todo[c]))
    \/ pc[c] = "running" /\ out[c] # Idle /\ Full(Head(out[c].to))
    \/ Stuck(c)

\* Whether or not clients read, one that has gone is removed from the group,
\* or else one of its own sends waits for good, and then for a client that
\* does not read or for a handler stuck on its own queue: broadcasts that wait
\* for each other, and sockets that are closed with messages in their queues,
\* never keep a client registered.
GoneIsRemoved ==
    \A c \in Peers :
        closed[c] /\ c \in registered
            ~> \/ c \notin registered
               \/ [](WaitsForRoom(c) /\ \E d \in Peers : Unread(d) \/ Stuck(d))

\* "The initial message sent to the client that has just connected": whoever
\* is registered and stays gets its Hello.
HelloArrives == \A c \in Peers : pc[c] = "joining" ~> greeted[c] \/ closed[c]

=============================================================================
