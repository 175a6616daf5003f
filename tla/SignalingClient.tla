---------------------------- MODULE SignalingClient ----------------------------
(***************************************************************************)
(* One client of the signaling server: SignalingConnection and              *)
(* ManagedSignalingConnection of core/src/webrtc/signaling.rs, with the two *)
(* programs that use them, the app (connect of app/rust/src/api/webrtc.rs)  *)
(* and the command line (webrtc_test of core/src/main.rs).                  *)
(*                                                                          *)
(* A message of the server passes the websocket, the reader task, a channel *)
(* of one message, the listener task, which looks for an answer somebody    *)
(* waits for, and a channel of Room messages, before the user has it:       *)
(*                                                                          *)
(*   socket -> reading -> inner -> handling -> queue -> heard               *)
(*                                                                          *)
(* What the client says passes a channel of one message and the writer.     *)
(* The server is external: it says hello, may say other things before and   *)
(* after, answers offers that have reached it and may go away.              *)
(***************************************************************************)
EXTENDS Naturals, Sequences, FiniteSets

CONSTANTS
  Offers,      \* session ids of offers
  Users,       \* the programs looked at
  Room,        \* capacity of start_listener's channel (16 in the code)
  MaxOthers,   \* bound: messages that are neither hello nor an answer
  MaxEarly,    \* bound: how many of them come before hello
  None

ASSUME ConstantsAssumption ==
  /\ Room \in Nat \ {0} /\ MaxOthers \in Nat /\ MaxEarly \in 0..MaxOthers
  /\ Users \subseteq {"app", "cli"} /\ None \notin Offers
  /\ None \notin [kind : {"hello", "answer", "other"}, val : Offers \cup 1..MaxOthers \cup {None}]

VARIABLES
  user,      \* which program this is
  client,    \* how far connect and its caller are
  sent,      \* history: all that the server has said
  socket,    \* what has not been read yet
  reading,   \* the message the reader task has
  greeted,   \* the reader's place: hello is to be announced, was announced
  inner,     \* the channel between the reader and the listener
  handling,  \* the message the listener task has
  called,    \* the listener has looked for a callback
  queue,     \* the channel to the user
  heard,     \* what the user was given
  offers,    \* how far send_offer is, by session id
  early,     \* history: answers that came before somebody waited for them
  outbox,    \* the channel to the writer
  writer,    \* the writer task runs
  arrived,   \* offers that have reached the server
  down       \* the connection is gone

inward  == <<sent, socket, reading, greeted, inner>>
listener == <<handling, called, queue, early>>
outward == <<outbox, writer, arrived>>
vars == <<user, client, inward, listener, heard, offers, outward, down>>

-----------------------------------------------------------------------------
\* WsServerMessage, as far as anybody tells the messages apart; "other" is
\* Join, Update, Left, an offer of a peer or an Error, which carry a number.
M(kind, val) == [kind |-> kind, val |-> val]
Hello == M("hello", None)
Answer(o) == M("answer", o)
Other(n) == M("other", n)
ServerMessage == {Hello} \cup {Answer(o) : o \in Offers} \cup {Other(n) : n \in 1..MaxOthers}

\* WsClientMessage; a notice is an Update or an Answer, for which nobody waits.
ClientMessage == Offers \cup {"notice"}

Said(m) == \E i \in DOMAIN sent : sent[i] = m
Others == Cardinality({i \in DOMAIN sent : sent[i].kind = "other"})
Held(m) == IF m = None THEN <<>> ELSE <<m>>
First(s) == IF s = <<>> THEN {} ELSE {Head(s)}

Init ==
  /\ user \in Users /\ client = "dialing"
  /\ sent = <<>> /\ socket = <<>> /\ reading = None /\ greeted = FALSE /\ inner = <<>>
  /\ handling = None /\ called = FALSE /\ queue = <<>> /\ early = {}
  /\ heard = <<>> /\ offers = [o \in Offers |-> "idle"]
  /\ outbox = <<>> /\ writer = TRUE /\ arrived = {} /\ down = FALSE

-----------------------------------------------------------------------------
(* The server and the network, as the client sees them *)

Says(m) ==
  /\ client \notin {"dialing", "failed"} /\ ~down
  /\ sent' = Append(sent, m) /\ socket' = Append(socket, m)
  /\ UNCHANGED <<user, client, reading, greeted, inner, listener, heard, offers, outward, down>>

SayHello == ~Said(Hello) /\ Says(Hello)

SayOther ==
  /\ Others < IF Said(Hello) THEN MaxOthers ELSE MaxEarly
  /\ Says(Other(Others + 1))

SayAnswer(o) == o \in arrived /\ ~Said(Answer(o)) /\ Says(Answer(o))

\* The server closes, or the network fails and takes what was on its way along.
GoesDown ==
  /\ ~down /\ client \notin {"dialing", "failed"} /\ down' = TRUE
  /\ \E n \in 0..Len(socket) : socket' = SubSeq(socket, 1, n)
  /\ UNCHANGED <<user, client, sent, reading, greeted, inner, listener, heard, offers, outward>>

-----------------------------------------------------------------------------
(* connect *)

\* connect_async; the app's caller also ends here if its key is not valid.
Dial ==
  /\ client = "dialing" /\ client' \in {"connecting", "failed"}
  /\ UNCHANGED <<user, inward, listener, heard, offers, outward, down>>

\* The reader takes a message.
Read ==
  /\ client # "dialing" /\ reading = None /\ socket # <<>>
  /\ reading' = Head(socket) /\ socket' = Tail(socket)
  /\ UNCHANGED <<user, client, sent, greeted, inner, listener, heard, offers, outward, down>>

\* A hello is announced to connect first, which returns with it.
Greet ==
  /\ reading = Hello /\ ~greeted /\ greeted' = TRUE
  /\ client = "connecting" /\ client' = "connected"
  /\ UNCHANGED <<user, sent, socket, reading, inner, listener, heard, offers, outward, down>>

\* Mutation: what does not fit is dropped (try_send).
PassWithoutWaiting ==
  /\ reading # None /\ (reading = Hello => greeted)
  /\ inner' = (IF inner = <<>> THEN <<reading>> ELSE inner) /\ reading' = None
  /\ UNCHANGED <<user, client, sent, socket, greeted, listener, heard, offers, outward, down>>

\* Every message goes into the channel, which holds one.
Pass ==
  /\ reading # None /\ (reading = Hello => greeted)
  /\ inner = <<>> /\ inner' = <<reading>> /\ reading' = None
  /\ UNCHANGED <<user, client, sent, socket, greeted, listener, heard, offers, outward, down>>

\* The reader is at the end and takes client_tx along: connect, which unwraps
\* what it waits for, panics.
ConnectPanics ==
  /\ client = "connecting" /\ down /\ socket = <<>> /\ reading = None
  /\ client' = "failed"
  /\ UNCHANGED <<user, inward, listener, heard, offers, outward, down>>

-----------------------------------------------------------------------------
(* start_listener *)

\* The caller of connect starts the listener at once; the app then hands the
\* connection to its user and waits for on_connection before it reads.
StartListener ==
  /\ client = "connected" /\ client' = (IF user = "app" THEN "handed" ELSE "listening")
  /\ UNCHANGED <<user, inward, listener, heard, offers, outward, down>>

OnConnection ==
  /\ client = "handed" /\ client' = "listening"
  /\ UNCHANGED <<user, inward, listener, heard, offers, outward, down>>

Listening == client \in {"handed", "listening"}

Take ==
  /\ Listening /\ handling = None /\ inner # <<>>
  /\ handling' = Head(inner) /\ inner' = <<>> /\ called' = FALSE
  /\ UNCHANGED <<user, client, sent, socket, reading, greeted, queue, early, heard, offers,
                 outward, down>>

\* Mutation: the callback stays where it is and is not called.
CallNobody ==
  /\ handling # None /\ ~called /\ called' = TRUE
  /\ UNCHANGED <<user, client, inward, handling, queue, early, heard, offers, outward, down>>

\* The callback of the answer's session, if somebody waits, is removed and called;
\* an answer nobody waits for yet has no effect.
Call ==
  /\ handling # None /\ ~called /\ called' = TRUE
  /\ IF handling.kind # "answer" THEN UNCHANGED <<offers, early>>
     ELSE LET o == handling.val IN
       IF offers[o] = "waiting"
         THEN offers' = [offers EXCEPT ![o] = "answered"] /\ UNCHANGED early
         ELSE early' = early \cup {o} /\ UNCHANGED offers
  /\ UNCHANGED <<user, client, inward, handling, queue, heard, outward, down>>

\* Mutation: the channel has no bound.
ForwardAtOnce ==
  /\ handling # None /\ called
  /\ queue' = Append(queue, handling) /\ handling' = None /\ called' = FALSE
  /\ UNCHANGED <<user, client, inward, early, heard, offers, outward, down>>

\* Every message is passed on, the answers too, as soon as the user's channel has room.
Forward ==
  /\ handling # None /\ called /\ Len(queue) < Room
  /\ queue' = Append(queue, handling) /\ handling' = None /\ called' = FALSE
  /\ UNCHANGED <<user, client, inward, early, heard, offers, outward, down>>

-----------------------------------------------------------------------------
(* The user *)

\* The app reads on whatever else it does; the command line reads until a peer
\* joins and then waits for its offer to end.
Reads == client = "listening" /\ (user = "cli" => \A o \in Offers : offers[o] = "idle")

Hear ==
  /\ Reads /\ queue # <<>>
  /\ heard' = Append(heard, Head(queue)) /\ queue' = Tail(queue)
  /\ UNCHANGED <<user, client, inward, handling, called, early, offers, outward, down>>

\* send_update and send_answer: a message goes to the writer.
SendNotice ==
  /\ Listening /\ writer /\ outbox = <<>> /\ outbox' = <<"notice">>
  /\ UNCHANGED <<user, client, inward, listener, heard, offers, writer, arrived, down>>

StartOffer(o) ==
  /\ Listening /\ offers[o] = "idle"
  /\ user = "cli" => Reads /\ \E i \in DOMAIN heard : heard[i].kind = "other"
  /\ offers' = [offers EXCEPT ![o] = "sending"]
  /\ UNCHANGED <<user, client, inward, listener, heard, outward, down>>

\* send_offer of webrtc.rs: the offer goes out first ...
SendOffer(o) ==
  /\ offers[o] = "sending"
  /\ \/ /\ writer /\ outbox = <<>> /\ outbox' = <<o>>
        /\ offers' = [offers EXCEPT ![o] = "sent"]
     \/ /\ ~writer /\ offers' = [offers EXCEPT ![o] = "failed"] /\ UNCHANGED outbox
  /\ UNCHANGED <<user, client, inward, listener, heard, writer, arrived, down>>

\* ... and its callback is registered after that.
OnAnswer(o) ==
  /\ offers[o] = "sent" /\ offers' = [offers EXCEPT ![o] = "waiting"]
  /\ UNCHANGED <<user, client, inward, listener, heard, outward, down>>

\* The writer: a message is written, or the write fails and the writer ends.  A
\* write may succeed after the connection has gone; the ping after 120 s of
\* silence finds out.
Write ==
  /\ writer /\ outbox # <<>> /\ outbox' = <<>>
  /\ IF down THEN writer' \in BOOLEAN /\ UNCHANGED arrived
     ELSE arrived' = arrived \cup (Offers \cap {Head(outbox)}) /\ UNCHANGED writer
  /\ UNCHANGED <<user, client, inward, listener, heard, offers, down>>

Ping ==
  /\ writer /\ outbox = <<>> /\ down /\ writer' = FALSE
  /\ UNCHANGED <<user, client, inward, listener, heard, offers, outbox, arrived, down>>

-----------------------------------------------------------------------------
ServerStep == SayHello \/ SayOther \/ GoesDown \/ \E o \in Offers : SayAnswer(o)
ConnectStep == Dial \/ Greet \/ ConnectPanics \/ StartListener \/ OnConnection
TaskStep == Read \/ Pass \/ Take \/ Call \/ Forward \/ Write \/ Ping
UserStep == Hear \/ \E o \in Offers : StartOffer(o)
OfferStep == \E o \in Offers : SendOffer(o) \/ OnAnswer(o)

Next == ServerStep \/ ConnectStep \/ TaskStep \/ UserStep \/ OfferStep \/ SendNotice
Spec == Init /\ [][Next]_vars

\* The runtime runs the tasks and a user who reads goes on reading; nobody owes
\* the client a message, and nobody has to start an offer.
Fairness ==
  /\ WF_vars(ConnectStep) /\ WF_vars(Read) /\ WF_vars(Pass) /\ WF_vars(Take)
  /\ WF_vars(Call) /\ WF_vars(Forward) /\ WF_vars(Hear) /\ WF_vars(Write)
  /\ \A o \in Offers : WF_vars(OnAnswer(o)) /\ SF_vars(SendOffer(o))
FairSpec == Spec /\ Fairness

-----------------------------------------------------------------------------
\* Everything is in its range, the channels within their capacities.
TypeOK ==
  /\ user \in Users
  /\ client \in {"dialing", "connecting", "connected", "handed", "listening", "failed"}
  /\ \A s \in {sent, socket, heard} : \A i \in DOMAIN s : s[i] \in ServerMessage
  /\ reading \in ServerMessage \cup {None} /\ handling \in ServerMessage \cup {None}
  /\ greeted \in BOOLEAN /\ called \in BOOLEAN
  /\ inner \in {<<>>} \cup {<<m>> : m \in ServerMessage}
  /\ Len(queue) <= Room /\ \A i \in DOMAIN queue : queue[i] \in ServerMessage
  /\ offers \in [Offers -> {"idle", "sending", "sent", "waiting", "answered", "failed"}]
  /\ early \subseteq Offers /\ arrived \subseteq Offers
  /\ outbox \in {<<>>} \cup {<<m>> : m \in ClientMessage}
  /\ writer \in BOOLEAN /\ down \in BOOLEAN

\* Two tasks, two channels and a user who stops reading lie between the server and
\* the user: nothing the server said is lost, doubled or overtaken on the way, but
\* for the end of it when the connection goes down.
NothingIsLost ==
  LET way == heard \o queue \o Held(handling) \o inner \o Held(reading) \o socket IN
  /\ Len(way) <= Len(sent) /\ way = SubSeq(sent, 1, Len(way))
  /\ down \/ Len(way) = Len(sent)

\* An offer that is waiting is told its answer, whatever else is on the way, as long
\* as no more than the channel holds lies before it that the user has not read: a
\* user who waits for the offer and does not read, as the command line does, is
\* told of nothing behind that.  An answer that comes before its callback is
\* registered is the exception.
InReach(o) == \E i \in DOMAIN sent : sent[i] = Answer(o) /\ i <= Len(heard) + Room + 1
AnswerIsHeard ==
  \A o \in Offers : InReach(o) ~> (offers[o] = "answered" \/ o \in early \/ down)

\* connect comes to an end once the server has said hello, if at most one message
\* came before it: the channel behind the reader holds no more, and nobody takes
\* messages out of it before connect has returned.
ConnectEnds ==
  (\E i \in {1, 2} : i <= Len(sent) /\ sent[i] = Hello) ~> (client # "connecting")

\* Neither connect nor an offer waits for ever for a message that is there.
WaitingEnds == AnswerIsHeard /\ ConnectEnds
=============================================================================
