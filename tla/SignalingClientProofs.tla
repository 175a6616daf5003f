------------------------- MODULE SignalingClientProofs -------------------------
(***************************************************************************)
(* What the server says reaches the user whole and in order: a proof of     *)
(* TypeOK and NothingIsLost of SignalingClient for any offers, channel and  *)
(* bounds.                                                                  *)
(*                                                                          *)
(* The two tasks, the two channels and the socket are one way, a single     *)
(* sequence.  A step inside moves the boundary between two of its parts and *)
(* leaves the sequence as it is; only the server makes it longer, and only  *)
(* the loss of the connection makes it shorter, at its end.                 *)
(***************************************************************************)
EXTENDS SignalingClient, SequenceTheorems, FiniteSetTheorems, TLAPS

-----------------------------------------------------------------------------
(* Sequences *)

\* The first of b moves to the end of a.
LEMMA MoveFirst ==
  ASSUME NEW S, NEW a \in Seq(S), NEW b \in Seq(S), b # <<>>
  PROVE  /\ <<Head(b)>> \in Seq(S) /\ Tail(b) \in Seq(S)
         /\ (a \o <<Head(b)>>) \o Tail(b) = a \o b
<1>1. /\ Head(b) \in S /\ Tail(b) \in Seq(S) /\ Len(Tail(b)) = Len(b) - 1
      /\ \A i \in 1..Len(Tail(b)) : Tail(b)[i] = b[i + 1]
      /\ Len(b) \in Nat \ {0} /\ Head(b) = b[1]
  BY HeadTailProperties, EmptySeq
<1>2. <<Head(b)>> \in Seq(S) /\ Len(<<Head(b)>>) = 1 /\ <<Head(b)>>[1] = b[1]
  BY <1>1
<1> DEFINE c == <<Head(b)>>
           t == Tail(b)
<1> HIDE DEF c, t
<1>3. /\ c \o t \in Seq(S) /\ Len(c \o t) = Len(c) + Len(t)
      /\ \A i \in 1..Len(c) + Len(t) : (c \o t)[i] = IF i <= Len(c) THEN c[i] ELSE t[i - Len(c)]
  BY <1>1, <1>2, ConcatProperties DEF c, t
<1>4. \A i \in 1..Len(b) : (c \o t)[i] = b[i]
  <2> SUFFICES ASSUME NEW i \in 1..Len(b) PROVE (c \o t)[i] = b[i]
    OBVIOUS
  <2>1. CASE i = 1
    BY <1>1, <1>2, <1>3, <2>1 DEF c, t
  <2>2. CASE i # 1
    <3>1. i - 1 \in 1..Len(t) /\ ~(i <= 1) /\ i \in 1..Len(c) + Len(t) /\ (i - 1) + 1 = i
      BY <1>1, <1>2, <2>2 DEF c, t
    <3>2. (c \o t)[i] = t[i - 1]
      BY <1>2, <1>3, <3>1 DEF c
    <3> QED BY <1>1, <3>1, <3>2 DEF t
  <2> QED BY <2>1, <2>2
<1>5. c \o t = b
  <2>1. Len(c \o t) = Len(b)
    BY <1>1, <1>2, <1>3 DEF c, t
  <2> QED BY <1>3, <1>4, <2>1, SeqEqual
<1>6. (a \o c) \o t = a \o (c \o t)
  BY <1>1, <1>2, ConcatAssociative DEF c, t
<1> QED BY <1>1, <1>2, <1>5, <1>6 DEF c, t

-----------------------------------------------------------------------------
(* Type correctness *)

\* The messages, and that there may be none.
LEMMA MessageFacts ==
  /\ None \notin ServerMessage /\ Hello \in ServerMessage
  /\ \A o \in Offers : Answer(o) \in ServerMessage
  /\ \A n \in 1..MaxOthers : Other(n) \in ServerMessage
  /\ \A m \in ServerMessage : m.kind = "answer" => m.val \in Offers
  /\ \A m \in ServerMessage : <<m>> \in Seq(ServerMessage) /\ <<m>> # <<>> /\ Head(<<m>>) = m
<1>1. ServerMessage \subseteq [kind : {"hello", "answer", "other"}, val : Offers \cup 1..MaxOthers \cup {None}]
  BY DEF ServerMessage, Hello, Answer, Other, M
<1>2. None \notin ServerMessage
  BY <1>1, ConstantsAssumption DEF ConstantsAssumption
<1>3. \A m \in ServerMessage : m.kind = "answer" => m.val \in Offers
  BY DEF ServerMessage, Hello, Answer, Other, M
<1>4. \A m \in ServerMessage : <<m>> \in Seq(ServerMessage) /\ <<m>> # <<>> /\ Head(<<m>>) = m
  OBVIOUS
<1> QED BY <1>2, <1>3, <1>4 DEF ServerMessage

\* The parts of the way are sequences of messages.
Sequences == /\ sent \in Seq(ServerMessage) /\ socket \in Seq(ServerMessage)
             /\ heard \in Seq(ServerMessage) /\ queue \in Seq(ServerMessage)

TypeInv == TypeOK /\ Sequences

\* How many other messages have been said is a number.
LEMMA OthersIsNat == ASSUME sent \in Seq(ServerMessage) PROVE Others \in Nat
<1>1. Len(sent) \in Nat /\ DOMAIN sent = 1..Len(sent)
  BY LenProperties
<1>2. IsFiniteSet(1..Len(sent))
  BY <1>1, FS_Interval
<1>3. IsFiniteSet({i \in DOMAIN sent : sent[i].kind = "other"})
  BY <1>1, <1>2, FS_Subset
<1> QED BY <1>3, FS_CardinalityType DEF Others

\* The channels hold messages, and their range says so.
LEMMA TypeOfSequences ==
  ASSUME Sequences
  PROVE  \A s \in {sent, socket, heard, queue} : \A i \in DOMAIN s : s[i] \in ServerMessage
<1>1. \A s \in Seq(ServerMessage) : \A i \in DOMAIN s : s[i] \in ServerMessage
  BY LenProperties, ElementOfSeq
<1> QED BY <1>1 DEF Sequences

\* All that TypeOK says of variables that are no sequence of messages.
Ranges ==
  /\ user \in Users
  /\ client \in {"dialing", "connecting", "connected", "handed", "listening", "failed"}
  /\ reading \in ServerMessage \cup {None} /\ handling \in ServerMessage \cup {None}
  /\ greeted \in BOOLEAN /\ called \in BOOLEAN
  /\ inner \in {<<>>} \cup {<<m>> : m \in ServerMessage}
  /\ offers \in [Offers -> {"idle", "sending", "sent", "waiting", "answered", "failed"}]
  /\ early \subseteq Offers /\ arrived \subseteq Offers
  /\ outbox \in {<<>>} \cup {<<m>> : m \in ClientMessage}
  /\ writer \in BOOLEAN /\ down \in BOOLEAN

LEMMA TypeParts == TypeInv <=> Ranges /\ Sequences /\ Len(queue) <= Room
BY TypeOfSequences DEF TypeInv, TypeOK, Ranges

LEMMA NextTypeParts == TypeInv' <=> Ranges' /\ Sequences' /\ Len(queue') <= Room
<1>1. (TypeInv <=> Ranges /\ Sequences /\ Len(queue) <= Room)'
  BY TypeParts, PTL
<1> QED BY <1>1

LEMMA TypeInit == ASSUME Init PROVE TypeInv
<1>1. Ranges
  BY DEF Init, Ranges
<1>2. Sequences /\ Len(queue) <= Room
  BY EmptySeq, ConstantsAssumption DEF Init, Sequences, ConstantsAssumption
<1> QED BY <1>1, <1>2, TypeParts

\* The server says something, or goes.
LEMMA ServerType == ASSUME TypeInv, ServerStep PROVE TypeInv'
<1>1. Ranges /\ Sequences /\ Len(queue) <= Room
  BY TypeParts
<1>2. ASSUME NEW m \in ServerMessage, Says(m) PROVE TypeInv'
  <2>1. sent' \in Seq(ServerMessage) /\ socket' \in Seq(ServerMessage)
    BY <1>1, <1>2, AppendProperties DEF Says, Sequences
  <2>2. UNCHANGED <<user, client, reading, greeted, inner, listener, heard, offers, outward, down>>
    BY <1>2 DEF Says
  <2>3. Ranges'
    BY <1>1, <2>2 DEF Ranges, listener, outward
  <2>4. Sequences' /\ Len(queue') <= Room
    BY <1>1, <2>1, <2>2 DEF Sequences, listener
  <2> QED BY <2>3, <2>4, NextTypeParts
<1>3. CASE SayHello \/ \E o \in Offers : SayAnswer(o)
  BY <1>2, <1>3, MessageFacts DEF SayHello, SayAnswer
<1>4. CASE SayOther
  <2>1. Others + 1 \in 1..MaxOthers
    <3>1. Others \in Nat
      BY <1>1, OthersIsNat DEF Sequences
    <3>2. Others < MaxOthers
      BY <1>4, <3>1, ConstantsAssumption DEF SayOther, ConstantsAssumption
    <3> QED BY <3>1, <3>2, ConstantsAssumption DEF ConstantsAssumption
  <2> QED BY <1>2, <1>4, <2>1, MessageFacts DEF SayOther
<1>5. CASE GoesDown
  <2>1. down' \in BOOLEAN /\ UNCHANGED <<user, client, sent, reading, greeted, inner, listener, heard, offers, outward>>
    BY <1>5 DEF GoesDown
  <2>2. socket' \in Seq(ServerMessage)
    <3>1. PICK n \in 0..Len(socket) : socket' = SubSeq(socket, 1, n)
      BY <1>5 DEF GoesDown
    <3>2. socket \in Seq(ServerMessage) /\ Len(socket) \in Nat
      BY <1>1 DEF Sequences
    <3>3. \A i \in 1..n : socket[i] \in ServerMessage
      BY <3>2, ElementOfSeq
    <3> QED BY <3>1, <3>2, <3>3, SubSeqProperties
  <2>3. Ranges'
    BY <1>1, <2>1 DEF Ranges, listener, outward
  <2>4. Sequences' /\ Len(queue') <= Room
    BY <1>1, <2>1, <2>2 DEF Sequences, listener
  <2> QED BY <2>3, <2>4, NextTypeParts
<1> QED BY <1>3, <1>4, <1>5 DEF ServerStep

\* connect, the user's offers and the writer leave the sequences alone.
LEMMA OutwardType ==
  ASSUME TypeInv,
         \/ ConnectStep \/ Write \/ Ping \/ SendNotice
         \/ \E o \in Offers : StartOffer(o) \/ SendOffer(o) \/ OnAnswer(o)
  PROVE  TypeInv' /\ UNCHANGED <<sent, heard, queue, handling, inner, reading, socket, down>>
<1>1. Ranges /\ Sequences /\ Len(queue) <= Room
  BY TypeParts
<1>2. UNCHANGED <<sent, heard, queue, handling, inner, reading, socket, down>>
  BY DEF ConnectStep, Dial, Greet, ConnectPanics, StartListener, OnConnection, Write, Ping, SendNotice,
         StartOffer, SendOffer, OnAnswer, inward, listener, outward
<1>3. ASSUME ConnectStep PROVE Ranges'
  BY <1>1, <1>3 DEF Ranges, ConnectStep, Dial, Greet, ConnectPanics, StartListener, OnConnection,
                    inward, listener, outward
<1>4. ASSUME Write PROVE Ranges'
  <2>1. outbox' = <<>> /\ writer' \in BOOLEAN /\ arrived' \subseteq Offers
    BY <1>1, <1>4 DEF Write, Ranges
  <2> QED BY <1>1, <1>4, <2>1 DEF Write, Ranges, inward, listener
<1>5. ASSUME Ping PROVE Ranges'
  BY <1>1, <1>5 DEF Ping, Ranges, inward, listener
<1>6. ASSUME SendNotice PROVE Ranges'
  BY <1>1, <1>6 DEF SendNotice, Ranges, ClientMessage, inward, listener
<1>7. ASSUME NEW o \in Offers, StartOffer(o) \/ SendOffer(o) \/ OnAnswer(o) PROVE Ranges'
  <2>1. /\ UNCHANGED <<user, client, inward, listener, heard, writer, arrived, down>>
        /\ outbox' = outbox \/ outbox' = <<o>>
        /\ \E state \in {"sending", "sent", "waiting", "failed"} : offers' = [offers EXCEPT ![o] = state]
    BY <1>7 DEF StartOffer, SendOffer, OnAnswer, outward
  <2>2. o \in ClientMessage
    BY DEF ClientMessage
  <2> QED BY <1>1, <2>1, <2>2 DEF Ranges, inward, listener
<1>8. Ranges' => TypeInv'
  BY <1>1, <1>2, NextTypeParts DEF Sequences
<1>9. Ranges'
  BY <1>3, <1>4, <1>5, <1>6, <1>7
<1> QED BY <1>2, <1>8, <1>9

\* The steps of a message on its way to the user.
LEMMA InwardType ==
  ASSUME TypeInv, Read \/ Pass \/ Take \/ Call \/ Forward \/ Hear
  PROVE  TypeInv'
<1>1. Ranges /\ Sequences /\ Len(queue) <= Room
  BY TypeParts
<1>2. CASE Read
  <2>1. reading' \in ServerMessage /\ socket' \in Seq(ServerMessage)
    BY <1>1, <1>2, HeadTailProperties DEF Read, Sequences
  <2>2. UNCHANGED <<user, client, sent, greeted, inner, listener, heard, offers, outward, down>>
    BY <1>2 DEF Read
  <2> QED BY <1>1, <2>1, <2>2, NextTypeParts DEF Ranges, Sequences, listener, outward
<1>3. CASE Pass
  <2>1. reading' = None /\ inner' \in {<<m>> : m \in ServerMessage}
    BY <1>1, <1>3 DEF Pass, Ranges
  <2>2. UNCHANGED <<user, client, sent, socket, greeted, listener, heard, offers, outward, down>>
    BY <1>3 DEF Pass
  <2> QED BY <1>1, <2>1, <2>2, NextTypeParts DEF Ranges, Sequences, listener, outward
<1>4. CASE Take
  <2>1. inner' = <<>> /\ called' = FALSE /\ handling' \in ServerMessage
    BY <1>1, <1>4, MessageFacts DEF Take, Ranges
  <2>2. UNCHANGED <<user, client, sent, socket, reading, greeted, queue, early, heard, offers, outward, down>>
    BY <1>4 DEF Take
  <2> QED BY <1>1, <2>1, <2>2, NextTypeParts DEF Ranges, Sequences, outward
<1>5. CASE Call
  <2>1. UNCHANGED <<user, client, inward, handling, queue, heard, outward, down>> /\ called' = TRUE
    BY <1>5 DEF Call
  <2>2. /\ offers' \in [Offers -> {"idle", "sending", "sent", "waiting", "answered", "failed"}]
        /\ early' \subseteq Offers
    <3>1. handling \in ServerMessage
      BY <1>1, <1>5 DEF Call, Ranges
    <3> QED BY <1>1, <1>5, <3>1, MessageFacts DEF Call, Ranges
  <2> QED BY <1>1, <2>1, <2>2, NextTypeParts DEF Ranges, Sequences, inward, outward
<1>6. CASE Forward
  <2>1. handling' = None /\ called' = FALSE /\ queue' \in Seq(ServerMessage) /\ Len(queue') <= Room
    <3>1. handling \in ServerMessage /\ queue \in Seq(ServerMessage) /\ Len(queue) < Room
      BY <1>1, <1>6 DEF Forward, Ranges, Sequences
    <3>2. queue' \in Seq(ServerMessage) /\ Len(queue') = Len(queue) + 1 /\ Len(queue) \in Nat
      BY <1>6, <3>1, AppendProperties DEF Forward
    <3> QED BY <1>6, <3>1, <3>2, ConstantsAssumption DEF Forward, ConstantsAssumption
  <2>2. UNCHANGED <<user, client, inward, early, heard, offers, outward, down>>
    BY <1>6 DEF Forward
  <2> QED BY <1>1, <2>1, <2>2, NextTypeParts DEF Ranges, Sequences, inward, outward
<1>7. CASE Hear
  <2>1. /\ heard' \in Seq(ServerMessage) /\ queue' \in Seq(ServerMessage) /\ Len(queue') <= Room
    <3>1. queue \in Seq(ServerMessage) /\ queue # <<>> /\ heard \in Seq(ServerMessage) /\ Len(queue) \in Nat
      BY <1>1, <1>7 DEF Hear, Sequences
    <3>2. Head(queue) \in ServerMessage /\ queue' \in Seq(ServerMessage) /\ Len(queue') = Len(queue) - 1
      BY <1>7, <3>1, HeadTailProperties DEF Hear
    <3>3. heard' \in Seq(ServerMessage)
      BY <1>7, <3>1, <3>2, AppendProperties DEF Hear
    <3> QED BY <1>1, <3>1, <3>2, <3>3, ConstantsAssumption DEF ConstantsAssumption
  <2>2. UNCHANGED <<user, client, inward, handling, called, early, offers, outward, down>>
    BY <1>7 DEF Hear
  <2> QED BY <1>1, <2>1, <2>2, NextTypeParts DEF Ranges, Sequences, inward, outward
<1> QED BY <1>2, <1>3, <1>4, <1>5, <1>6, <1>7

LEMMA TypeStep == ASSUME TypeInv, [Next]_vars PROVE TypeInv'
<1>1. CASE UNCHANGED vars
  BY <1>1 DEF vars, TypeInv, TypeOK, Sequences, inward, listener, outward
<1> QED BY <1>1, ServerType, OutwardType, InwardType DEF Next, TaskStep, UserStep, OfferStep

\* Everything keeps its range, and the channels hold no more than they have room for.
THEOREM TypeCorrect == Spec => []TypeOK
<1>1. Init => TypeInv
  BY TypeInit
<1>2. TypeInv /\ [Next]_vars => TypeInv'
  BY TypeStep
<1>3. TypeInv => TypeOK
  BY DEF TypeInv
<1> QED BY <1>1, <1>2, <1>3, PTL DEF Spec

-----------------------------------------------------------------------------
(* The way to the user *)

Way == heard \o queue \o Held(handling) \o inner \o Held(reading) \o socket

\* The way holds all that was said, but for its end when the connection is down.
Kept ==
  /\ Len(Way) <= Len(sent) /\ \A i \in 1..Len(Way) : Way[i] = sent[i]
  /\ down \/ Len(Way) = Len(sent)

\* The parts of the way, and that they can be taken together.
LEMMA WayParts ==
  ASSUME TypeInv
  PROVE  /\ heard \in Seq(ServerMessage) /\ queue \in Seq(ServerMessage) /\ socket \in Seq(ServerMessage)
         /\ Held(handling) \in Seq(ServerMessage) /\ inner \in Seq(ServerMessage)
         /\ Held(reading) \in Seq(ServerMessage) /\ Way \in Seq(ServerMessage)
         /\ heard \o queue \in Seq(ServerMessage)
         /\ heard \o queue \o Held(handling) \in Seq(ServerMessage)
         /\ heard \o queue \o Held(handling) \o inner \in Seq(ServerMessage)
         /\ heard \o queue \o Held(handling) \o inner \o Held(reading) \in Seq(ServerMessage)
<1>1. Ranges /\ Sequences
  BY TypeParts
<1>2. /\ heard \in Seq(ServerMessage) /\ queue \in Seq(ServerMessage) /\ socket \in Seq(ServerMessage)
      /\ Held(handling) \in Seq(ServerMessage) /\ inner \in Seq(ServerMessage)
      /\ Held(reading) \in Seq(ServerMessage)
  BY <1>1, MessageFacts, EmptySeq DEF Ranges, Sequences, Held
<1>3. \A s, t \in Seq(ServerMessage) : s \o t \in Seq(ServerMessage)
  BY ConcatProperties
<1> QED BY <1>2, <1>3 DEF Way

\* A step of a message inside leaves the way as it is.
LEMMA InwardKeepsWay ==
  ASSUME TypeInv, Read \/ Pass \/ Take \/ Call \/ Forward \/ Hear
  PROVE  Way' = Way /\ UNCHANGED <<sent, down>>
<1>1. UNCHANGED <<sent, down>>
  BY DEF Read, Pass, Take, Call, Forward, Hear, inward
<1>2. CASE Read
  <2> DEFINE a == heard \o queue \o Held(handling) \o inner
  <2>1. a \in Seq(ServerMessage) /\ socket \in Seq(ServerMessage) /\ socket # <<>>
    BY <1>2, WayParts DEF Read
  <2>2. Held(reading) = <<>> /\ Held(reading') = <<Head(socket)>>
    <3>1. Head(socket) \in ServerMessage
      BY <2>1, HeadTailProperties
    <3> QED BY <1>2, <3>1, MessageFacts DEF Read, Held
  <2>3. Way = (a \o Held(reading)) \o socket /\ Way' = (a \o Held(reading')) \o Tail(socket)
    BY <1>2 DEF Way, Read, listener
  <2>4. a \o Held(reading) = a
    BY <2>1, <2>2, ConcatEmptySeq
  <2> HIDE DEF a
  <2> QED BY <1>1, <2>1, <2>2, <2>3, <2>4, MoveFirst
<1>3. CASE Pass
  <2> DEFINE a == heard \o queue \o Held(handling)
  <2>1. a \in Seq(ServerMessage) /\ Held(reading) \in Seq(ServerMessage)
    BY WayParts
  <2>2. inner = <<>> /\ inner' = Held(reading) /\ Held(reading') = <<>>
    BY <1>3 DEF Pass, Held
  <2>3. Way = ((a \o inner) \o Held(reading)) \o socket /\ Way' = ((a \o inner') \o Held(reading')) \o socket
    BY <1>3 DEF Way, Pass, listener
  <2>4. a \o Held(reading) \in Seq(ServerMessage)
    BY <2>1, ConcatProperties
  <2>5. (a \o inner) \o Held(reading) = a \o Held(reading)
    BY <2>1, <2>2, ConcatEmptySeq
  <2>6. (a \o inner') \o Held(reading') = a \o Held(reading)
    BY <2>1, <2>2, <2>4, ConcatEmptySeq
  <2> QED BY <1>1, <2>3, <2>5, <2>6
<1>4. CASE Take
  <2> DEFINE a == heard \o queue
  <2>1. a \in Seq(ServerMessage) /\ inner \in Seq(ServerMessage)
    BY WayParts
  <2>2. Held(handling) = <<>> /\ Held(handling') = inner /\ inner' = <<>>
    BY <1>4, TypeParts, MessageFacts DEF Take, Held, Ranges
  <2>3. /\ Way = ((a \o Held(handling)) \o inner) \o Held(reading) \o socket
        /\ Way' = ((a \o Held(handling')) \o inner') \o Held(reading) \o socket
    BY <1>4 DEF Way, Take
  <2>4. a \o inner \in Seq(ServerMessage)
    BY <2>1, ConcatProperties
  <2>5. (a \o Held(handling)) \o inner = a \o inner
    BY <2>1, <2>2, ConcatEmptySeq
  <2>6. (a \o Held(handling')) \o inner' = a \o inner
    BY <2>1, <2>2, <2>4, ConcatEmptySeq
  <2> QED BY <1>1, <2>3, <2>5, <2>6
<1>5. CASE Call
  BY <1>1, <1>5 DEF Call, Way, inward
<1>6. CASE Forward
  <2>1. /\ heard \in Seq(ServerMessage) /\ queue \in Seq(ServerMessage) /\ queue' \in Seq(ServerMessage)
        /\ handling \in ServerMessage /\ Held(handling) = <<handling>> /\ Held(handling) \in Seq(ServerMessage)
    BY <1>6, WayParts, TypeParts, InwardType DEF Forward, Held, Ranges, Sequences
  <2>2. queue' = queue \o Held(handling) /\ Held(handling') = <<>>
    BY <1>6, <2>1, AppendIsConcat DEF Forward, Held
  <2>3. /\ Way = ((heard \o queue) \o Held(handling)) \o inner \o Held(reading) \o socket
        /\ Way' = ((heard \o queue') \o Held(handling')) \o inner \o Held(reading) \o socket
    BY <1>6 DEF Way, Forward, inward
  <2>4. heard \o queue' = (heard \o queue) \o Held(handling)
    BY <2>1, <2>2, ConcatAssociative
  <2>5. (heard \o queue') \o Held(handling') = heard \o queue'
    BY <2>1, <2>2, ConcatProperties, ConcatEmptySeq
  <2> QED BY <1>1, <2>3, <2>4, <2>5
<1>7. CASE Hear
  <2>1. heard \in Seq(ServerMessage) /\ queue \in Seq(ServerMessage) /\ queue # <<>>
    BY <1>7, WayParts DEF Hear
  <2>2. heard' = heard \o <<Head(queue)>> /\ queue' = Tail(queue)
    BY <1>7, <2>1, HeadTailProperties, AppendIsConcat DEF Hear
  <2>3. heard' \o queue' = heard \o queue
    BY <2>1, <2>2, MoveFirst
  <2>4. Way' = (heard' \o queue') \o Held(handling) \o inner \o Held(reading) \o socket
    BY <1>7 DEF Way, Hear, inward
  <2> QED BY <1>1, <2>3, <2>4 DEF Way
<1> QED BY <1>2, <1>3, <1>4, <1>5, <1>6, <1>7

\* The server makes the way longer by what it says; the loss of the connection
\* makes it shorter at its end.
LEMMA ServerKeeps == ASSUME TypeInv, Kept, ServerStep PROVE Kept'
<1> DEFINE a == heard \o queue \o Held(handling) \o inner \o Held(reading)
<1>1. a \in Seq(ServerMessage) /\ socket \in Seq(ServerMessage) /\ sent \in Seq(ServerMessage) /\ Way = a \o socket
  BY WayParts, TypeParts DEF Way, Sequences
<1>2. /\ Way \in Seq(ServerMessage) /\ Len(Way) = Len(a) + Len(socket)
      /\ \A i \in 1..Len(a) + Len(socket) : Way[i] = IF i <= Len(a) THEN a[i] ELSE socket[i - Len(a)]
  BY <1>1, ConcatProperties
<1>3. Len(a) \in Nat /\ Len(socket) \in Nat /\ Len(sent) \in Nat
  BY <1>1
<1>4. ASSUME NEW m \in ServerMessage, Says(m) PROVE Kept'
  <2>1. /\ UNCHANGED <<heard, queue, handling, inner, reading, down>> /\ ~down
        /\ socket' = Append(socket, m) /\ sent' = Append(sent, m)
    BY <1>4 DEF Says, listener
  <2>a. Way' = a \o socket'
    BY <2>1 DEF Way
  <2> HIDE DEF a
  <2>2. <<m>> \in Seq(ServerMessage) /\ socket' = socket \o <<m>> /\ sent' = sent \o <<m>>
    BY <1>1, <2>1, AppendIsConcat, MessageFacts
  <2>3. Way' = Way \o <<m>>
    BY <1>1, <2>a, <2>2, ConcatAssociative, SMTT(30)
  <2>4. Way = sent
    BY <1>1, <1>2, <2>1, SeqEqual DEF Kept
  <2>5. Way' = sent' /\ Len(sent') \in Nat
    BY <1>1, <2>1, <2>2, <2>3, <2>4, AppendProperties
  <2> QED BY <2>5 DEF Kept
<1>5. CASE GoesDown
  <2>1. PICK n \in 0..Len(socket) : socket' = SubSeq(socket, 1, n)
    BY <1>5 DEF GoesDown
  <2>a. UNCHANGED <<heard, queue, handling, inner, reading, sent>> /\ down'
    BY <1>5 DEF GoesDown, listener
  <2>2. Way' = a \o socket' /\ sent' = sent /\ down'
    BY <2>a DEF Way
  <2> HIDE DEF a
  <2>3. \A i \in 1..n : socket[i] \in ServerMessage
    BY <1>1, <1>3, ElementOfSeq
  <2>4. socket' \in Seq(ServerMessage) /\ Len(socket') = n /\ \A i \in 1..n : socket'[i] = socket[i]
    BY <1>3, <2>1, <2>3, SubSeqProperties
  <2>5. /\ Len(Way') = Len(a) + n
        /\ \A i \in 1..Len(a) + n : Way'[i] = IF i <= Len(a) THEN a[i] ELSE socket'[i - Len(a)]
    <3>1. /\ Len(a \o socket') = Len(a) + Len(socket')
          /\ \A i \in 1..Len(a) + Len(socket') :
                (a \o socket')[i] = IF i <= Len(a) THEN a[i] ELSE socket'[i - Len(a)]
      BY <1>1, <2>4, ConcatProperties
    <3> QED BY <2>2, <2>4, <3>1
  <2>6. Len(Way') <= Len(Way)
    BY <1>2, <1>3, <2>5
  <2>7. ASSUME NEW i \in 1..Len(Way') PROVE Way'[i] = Way[i]
    <3>1. CASE i <= Len(a)
      BY <1>2, <1>3, <2>5, <2>7, <3>1
    <3>2. CASE ~(i <= Len(a))
      <4>1. i - Len(a) \in 1..n
        BY <1>3, <2>5, <2>7, <3>2
      <4> QED BY <1>2, <1>3, <2>4, <2>5, <2>7, <3>2, <4>1
    <3> QED BY <3>1, <3>2
  <2>8. Len(Way) \in Nat /\ Len(Way') \in Nat
    BY <1>2, <1>3, <2>5
  <2> QED BY <1>3, <2>2, <2>6, <2>7, <2>8 DEF Kept
<1>6. CASE SayHello \/ \E o \in Offers : SayAnswer(o)
  BY <1>4, <1>6, MessageFacts DEF SayHello, SayAnswer
<1>7. CASE SayOther
  <2>1. Others + 1 \in 1..MaxOthers
    <3>1. Others \in Nat
      BY <1>1, OthersIsNat
    <3>2. Others < MaxOthers
      BY <1>7, <3>1, ConstantsAssumption DEF SayOther, ConstantsAssumption
    <3> QED BY <3>1, <3>2, ConstantsAssumption DEF ConstantsAssumption
  <2> QED BY <1>4, <1>7, <2>1, MessageFacts DEF SayOther
<1> QED BY <1>5, <1>6, <1>7 DEF ServerStep

LEMMA KeptStep == ASSUME TypeInv, Kept, [Next]_vars PROVE Kept'
<1>1. (Way' = Way /\ UNCHANGED <<sent, down>>) => Kept'
  BY DEF Kept
<1>2. CASE UNCHANGED vars
  BY <1>1, <1>2 DEF vars, inward, listener, outward, Way
<1>3. UNCHANGED <<sent, heard, queue, handling, inner, reading, socket, down>> => Kept'
  BY <1>1 DEF Way
<1> QED BY <1>1, <1>2, <1>3, ServerKeeps, OutwardType, InwardKeepsWay DEF Next, TaskStep, UserStep, OfferStep

\* Nothing the server said is lost, doubled or overtaken between it and the user,
\* whoever reads and whoever waits, but for the end of it when the connection goes.
THEOREM AllIsKept == Spec => []NothingIsLost
<1>1. Init => TypeInv /\ Kept
  <2>1. Init => Way = <<>>
    <3>1. <<>> \o <<>> = <<>>
      BY EmptySeq, ConcatEmptySeq
    <3>2. Init => heard = <<>> /\ queue = <<>> /\ Held(handling) = <<>> /\ inner = <<>>
                  /\ Held(reading) = <<>> /\ socket = <<>>
      BY DEF Init, Held
    <3> QED BY <3>1, <3>2 DEF Way
  <2>2. Init => sent = <<>> /\ Len(<<>>) = 0 /\ 1..0 = {}
    BY EmptySeq DEF Init
  <2> QED BY <2>1, <2>2, TypeInit DEF Kept
<1>2. TypeInv /\ Kept /\ [Next]_vars => TypeInv' /\ Kept'
  BY TypeStep, KeptStep
<1>3. TypeInv /\ Kept => NothingIsLost
  <2> SUFFICES ASSUME TypeInv, Kept PROVE NothingIsLost
    OBVIOUS
  <2>1. Way \in Seq(ServerMessage) /\ sent \in Seq(ServerMessage) /\ Len(Way) \in Nat /\ Len(sent) \in Nat
    BY WayParts, TypeParts DEF Sequences
  <2>2. \A i \in 1..Len(Way) : sent[i] \in ServerMessage
    BY <2>1, ElementOfSeq DEF Kept
  <2>3. /\ SubSeq(sent, 1, Len(Way)) \in Seq(ServerMessage)
        /\ Len(SubSeq(sent, 1, Len(Way))) = Len(Way)
        /\ \A i \in 1..Len(Way) : SubSeq(sent, 1, Len(Way))[i] = sent[i]
    BY <2>1, <2>2, SubSeqProperties
  <2>4. Way = SubSeq(sent, 1, Len(Way))
    BY <2>1, <2>3, SeqEqual DEF Kept
  <2> QED BY <2>4 DEF NothingIsLost, Kept, Way
<1> QED BY <1>1, <1>2, <1>3, PTL DEF Spec

===============================================================================
