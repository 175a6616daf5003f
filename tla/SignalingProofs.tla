---------------------------- MODULE SignalingProofs ----------------------------
(***************************************************************************)
(* Every client's list of peers is right: a proof of TypeOK and of          *)
(* ListsOfPeersAreRight for any connections, queues, limits and messages.   *)
(*                                                                          *)
(* The lists are right when nothing is under way.  The invariant says where *)
(* the news of each peer is until then: in the list of a handler that has   *)
(* not sent it yet, in the queue of the client, or in a Hello.              *)
(***************************************************************************)
EXTENDS Signaling, SequenceTheorems, FiniteSetTheorems, TLAPS

-----------------------------------------------------------------------------
(* Orders of a set *)

\* An order of a finite set has all of its members and no others.
LEMMA OrdersAreComplete ==
    ASSUME NEW S, IsFiniteSet(S), NEW order \in SetToSeqs(S)
    PROVE  /\ order \in Seq(S)
           /\ \A x \in S : \E i \in 1..Len(order) : order[i] = x
<1> DEFINE D == 1..Cardinality(S)
<1>1. Cardinality(S) \in Nat
  BY FS_CardinalityType
<1>2. order \in [D -> S] /\ \A i, j \in D : i # j => order[i] # order[j]
  BY DEF SetToSeqs
<1>3. order \in Seq(S) /\ Len(order) = Cardinality(S)
  BY <1>1, <1>2
<1>4. order \in Injection(D, S)
  BY <1>2 DEF Injection, IsInjective
<1>5. Cardinality(D) = Cardinality(S)
  BY <1>1, FS_Interval
<1>6. order \in Surjection(D, S)
  BY <1>4, <1>5, FS_Injection
<1> QED BY <1>3, <1>6 DEF Surjection

-----------------------------------------------------------------------------
(* Type correctness *)

Message == [type : MsgType, from : Peers]

Sending == [kind : MsgType \cup {"none"}, to : Seq(Peers)]

\* Who is registered, and what is in the hands of a handler or a task.
Bookkeeping ==
    /\ registered = {c \in Peers : RxAlive(c)}
    /\ \A c \in Peers : out[c] # Idle => /\ out[c].kind \in {"Update", "Offer", "Answer", "Error"}
                                         /\ out[c].to # <<>>

TypeInv == TypeOK /\ Bookkeeping

LEMMA IdleIsSending == Idle \in Sending
<1>1. <<>> \in Seq(Peers)
  BY EmptySeq
<1> QED BY <1>1 DEF Idle, Sending

LEMMA TypeInit == ASSUME SignalingAssumption, Init PROVE TypeInv
<1>1. Cardinality({}) = 0
  BY FS_EmptySet
<1>2. TypeOK
  BY <1>1 DEF Init, TypeOK, SignalingAssumption, Idle
<1>3. Bookkeeping
  BY DEF Init, Bookkeeping, RxAlive, Idle
<1> QED BY <1>2, <1>3 DEF TypeInv

\* What is in the queues.
LEMMA InboxFacts ==
    ASSUME TypeOK
    PROVE  /\ inbox \in [Peers -> Seq(Message)] /\ \A c \in Peers : Len(inbox[c]) \in Nat
           /\ \A c \in Peers : \A i \in 1..Len(inbox[c]) :
                 inbox[c][i] \in Message /\ inbox[c][i].from \in Peers
<1>1. inbox \in [Peers -> Seq(Message)]
  BY DEF TypeOK, Message
<1>2. \A c \in Peers : \A i \in 1..Len(inbox[c]) : inbox[c][i] \in Message
  BY <1>1, ElementOfSeq
<1>3. \A m \in Message : m.from \in Peers
  BY DEF Message
<1> QED BY <1>1, <1>2, <1>3

\* What a send does to the queues: one of a living receiver gets one message at
\* its end.
Appended(q, m) ==
    /\ inbox' \in [Peers -> Seq(Message)]
    /\ \A c \in Peers : Len(inbox'[c]) <= Capacity
    /\ \A c \in Peers : Len(inbox[c]) \in Nat /\ Len(inbox'[c]) \in Nat /\ Len(inbox[c]) <= Len(inbox'[c])
    /\ \A c \in Peers : \A i \in 1..Len(inbox[c]) : inbox'[c][i] = inbox[c][i]
    /\ \A c \in Peers : \A i \in 1..Len(inbox'[c]) :
          \/ i \in 1..Len(inbox[c])
          \/ c = q /\ i = Len(inbox[q]) + 1 /\ inbox'[c][i] = m /\ RxAlive(q)
    /\ RxAlive(q) => Len(inbox'[q]) = Len(inbox[q]) + 1 /\ inbox'[q][Len(inbox[q]) + 1] = m

LEMMA SendFacts ==
    ASSUME SignalingAssumption, TypeOK, NEW q \in Peers, NEW m \in Message, Send(q, m)
    PROVE  Appended(q, m)
<1> USE DEF Appended
<1>1. inbox \in [Peers -> Seq(Message)] /\ \A c \in Peers : Len(inbox[c]) <= Capacity
  BY DEF TypeOK, Message
<1>2. \A c \in Peers : Len(inbox[c]) \in Nat
  BY <1>1
<1>3. CASE ~RxAlive(q) /\ UNCHANGED inbox
  BY <1>1, <1>2, <1>3
<1>4. CASE /\ RxAlive(q) /\ Len(inbox[q]) < Capacity
           /\ inbox' = [inbox EXCEPT ![q] = Append(@, m)]
  <2> DEFINE a == Append(inbox[q], m)
  <2>1. /\ a \in Seq(Message) /\ Len(a) = Len(inbox[q]) + 1
        /\ \A i \in 1..Len(inbox[q]) : a[i] = inbox[q][i]
        /\ a[Len(inbox[q]) + 1] = m
    BY <1>1, AppendProperties
  <2>2. inbox'[q] = a /\ \A c \in Peers \ {q} : inbox'[c] = inbox[c]
    BY <1>1, <1>4
  <2>3. inbox' \in [Peers -> Seq(Message)]
    BY <1>1, <1>4, <2>1
  <2> HIDE DEF a
  <2>4. \A c \in Peers : Len(inbox'[c]) <= Capacity
    BY <1>1, <1>2, <1>4, <2>1, <2>2 DEF SignalingAssumption
  <2> QED BY <1>2, <1>4, <2>1, <2>2, <2>3, <2>4
<1> QED BY <1>3, <1>4 DEF Send

\* What taking the first message does to a queue.
LEMMA TailFacts ==
    ASSUME TypeOK, NEW c \in Peers, inbox[c] # <<>>, inbox' = [inbox EXCEPT ![c] = Tail(@)]
    PROVE  /\ inbox' \in [Peers -> Seq(Message)]
           /\ \A d \in Peers : Len(inbox'[d]) <= Capacity
           /\ \A d \in Peers \ {c} : inbox'[d] = inbox[d]
           /\ Len(inbox[c]) \in Nat \ {0} /\ Len(inbox'[c]) = Len(inbox[c]) - 1
           /\ \A i \in 1..Len(inbox'[c]) : inbox'[c][i] = inbox[c][i + 1]
           /\ Head(inbox[c]) = inbox[c][1] /\ inbox[c][1] \in Message
<1>1. inbox \in [Peers -> Seq(Message)] /\ \A d \in Peers : Len(inbox[d]) <= Capacity
  BY DEF TypeOK, Message
<1>2. inbox[c] \in Seq(Message) /\ Len(inbox[c]) \in Nat \ {0}
  BY <1>1, EmptySeq
<1>3. /\ Tail(inbox[c]) \in Seq(Message) /\ Len(Tail(inbox[c])) = Len(inbox[c]) - 1
      /\ \A i \in 1..Len(Tail(inbox[c])) : Tail(inbox[c])[i] = inbox[c][i + 1]
      /\ Head(inbox[c]) = inbox[c][1] /\ inbox[c][1] \in Message
  BY <1>2, HeadTailProperties, ElementOfSeq
<1>4. inbox'[c] = Tail(inbox[c]) /\ \A d \in Peers \ {c} : inbox'[d] = inbox[d]
  BY <1>1
<1>5. inbox' \in [Peers -> Seq(Message)]
  BY <1>1, <1>3
<1>6. \A d \in Peers : Len(inbox'[d]) <= Capacity
  <2>1. Len(inbox[c]) - 1 <= Capacity \/ ~(Len(inbox[c]) <= Capacity)
    BY <1>2, SignalingAssumption DEF SignalingAssumption
  <2> QED BY <1>1, <1>3, <1>4, <2>1
<1> QED BY <1>2, <1>3, <1>4, <1>5, <1>6

LEMMA SendKinds ==
    ASSUME NEW c \in Peers, NEW type \in MsgType
    PROVE  Msg(type, c) \in Message
BY DEF Msg, Message

\* The steps of a handler before the tasks and after them.
LEMMA HandlerType ==
    ASSUME SignalingAssumption, TypeInv, NEW c \in Peers, Connect(c) \/ HandlerStep(c)
    PROVE  TypeInv'
<1> USE DEF TypeInv, Bookkeeping, RxAlive
<1>1. IsFiniteSet(registered)
  BY FS_Subset DEF SignalingAssumption, TypeOK
<1>2. CASE Connect(c)
  <2>1. CASE pc[c] = "new" /\ pc' = [pc EXCEPT ![c] = "refused"] /\ UNCHANGED <<registered, count, todo, hello, inbox, out>>
    BY <1>2, <2>1 DEF Connect, TypeOK
  <2>2. CASE pc[c] = "new" /\ pc' = [pc EXCEPT ![c] = "joining"] /\ registered' = registered \cup {c}
    <3>1. /\ Cardinality(registered) < MaxConnections /\ count < MaxRequests /\ count' = count + 1
          /\ hello' = [hello EXCEPT ![c] = registered]
          /\ \E order \in SetToSeqs(registered) : todo' = [todo EXCEPT ![c] = order]
          /\ UNCHANGED <<inbox, out, sent, closed, greeted, known>>
      BY <1>2, <2>2 DEF Connect, TypeOK
    <3>2. \A order \in SetToSeqs(registered) : order \in Seq(Peers)
      BY <1>1, OrdersAreComplete, SeqMonotonic DEF TypeOK
    <3>3. todo' \in [Peers -> Seq(Peers)]
      BY <3>1, <3>2 DEF TypeOK
    <3>4. Cardinality(registered') <= Cardinality(registered) + 1 /\ Cardinality(registered) \in Nat
      <4>1. Cardinality(registered) \in Nat
        BY <1>1, FS_CardinalityType
      <4>2. \/ Cardinality(registered') = Cardinality(registered)
            \/ Cardinality(registered') = Cardinality(registered) + 1
        BY <1>1, <2>2, FS_AddElement
      <4> QED BY <4>1, <4>2
    <3>5. Cardinality(registered') <= MaxConnections
      <4>1. Cardinality(registered') \in Nat
        BY <1>1, <2>2, FS_AddElement, FS_CardinalityType
      <4> QED BY <3>1, <3>4, <4>1 DEF SignalingAssumption
    <3>6. count' \in 0..MaxRequests
      BY <3>1 DEF TypeOK, SignalingAssumption
    <3>7. TypeOK'
      BY <2>2, <3>1, <3>3, <3>5, <3>6 DEF TypeOK
    <3>8. Bookkeeping'
      BY <2>2, <3>1, <3>7 DEF TypeOK
    <3> QED BY <3>7, <3>8
  <2> QED BY <1>2, <2>1, <2>2 DEF Connect
<1>3. CASE SendJoin(c) \/ SendLeft(c)
  <2>1. PICK type \in {"Join", "Left"} : Send(Head(todo[c]), Msg(type, c))
    BY <1>3 DEF SendJoin, SendLeft
  <2>2. todo[c] # <<>> /\ Head(todo[c]) \in Peers /\ Tail(todo[c]) \in Seq(Peers)
    BY <1>3, HeadTailProperties DEF SendJoin, SendLeft, TypeOK
  <2>3. todo' = [todo EXCEPT ![c] = Tail(@)] /\ UNCHANGED <<registered, count, pc, out, clientVars>>
    BY <1>3 DEF SendJoin, SendLeft
  <2>4. inbox' \in [Peers -> Seq(Message)] /\ \A d \in Peers : Len(inbox'[d]) <= Capacity
    BY <2>1, <2>2, SendFacts, SendKinds DEF MsgType, Appended
  <2> QED BY <2>2, <2>3, <2>4 DEF TypeOK, Message, clientVars
<1>4. CASE SendHello(c)
  <2>1. inbox' \in [Peers -> Seq(Message)] /\ \A d \in Peers : Len(inbox'[d]) <= Capacity
    BY <1>4, SendFacts, SendKinds DEF MsgType, SendHello, Appended
  <2>2. pc[c] = "joining" /\ pc' = [pc EXCEPT ![c] = "running"] /\ UNCHANGED <<registered, count, todo, out, clientVars>>
    BY <1>4 DEF SendHello
  <2>3. TypeOK'
    BY <2>1, <2>2 DEF TypeOK, Message, clientVars
  <2>4. Bookkeeping'
    BY <2>2 DEF TypeOK
  <2> QED BY <2>3, <2>4
<1>5. CASE Cleanup(c)
  <2>1. \A order \in SetToSeqs(registered \ {c}) : order \in Seq(Peers)
    <3>1. IsFiniteSet(registered \ {c}) /\ registered \ {c} \subseteq Peers
      BY <1>1, FS_Subset DEF TypeOK
    <3> QED BY <3>1, OrdersAreComplete, SeqMonotonic
  <2>2. todo' \in [Peers -> Seq(Peers)]
    BY <1>5, <2>1 DEF Cleanup, TypeOK
  <2>3. Cardinality(registered') <= MaxConnections
    <3>1. Cardinality(registered') <= Cardinality(registered) /\ Cardinality(registered') \in Nat
          /\ Cardinality(registered) \in Nat
      BY <1>1, <1>5, FS_Subset, FS_CardinalityType DEF Cleanup
    <3> QED BY <3>1 DEF TypeOK, SignalingAssumption
  <2>4. inbox' = [inbox EXCEPT ![c] = <<>>] /\ out' = [out EXCEPT ![c] = Idle] /\ registered' = registered \ {c}
        /\ pc[c] = "ended" /\ pc' = [pc EXCEPT ![c] = "leaving"] /\ UNCHANGED <<count, clientVars>>
    BY <1>5 DEF Cleanup
  <2>5. inbox' \in [Peers -> Seq(Message)] /\ \A d \in Peers : Len(inbox'[d]) <= Capacity
    <3>1. <<>> \in Seq(Message) /\ Len(<<>>) = 0
      BY EmptySeq
    <3>2. inbox \in [Peers -> Seq(Message)] /\ \A d \in Peers : Len(inbox[d]) <= Capacity
      BY DEF TypeOK, Message
    <3>3. inbox'[c] = <<>> /\ \A d \in Peers \ {c} : inbox'[d] = inbox[d]
      BY <2>4, <3>2
    <3>4. inbox' \in [Peers -> Seq(Message)]
      BY <2>4, <3>1, <3>2
    <3>5. \A d \in Peers : Len(inbox'[d]) <= Capacity
      BY <3>1, <3>2, <3>3, Capacity \in Nat DEF SignalingAssumption
    <3> QED BY <3>4, <3>5
  <2>6. TypeOK'
    <3>1. out' \in [Peers -> Sending]
      BY <2>4, IdleIsSending DEF TypeOK, Sending
    <3>2. pc' \in [Peers -> {"new", "refused", "joining", "running", "ended", "leaving"}]
      BY <2>4 DEF TypeOK
    <3> QED BY <2>2, <2>3, <2>4, <2>5, <3>1, <3>2 DEF TypeOK, Message, Sending, clientVars
  <2>7. Bookkeeping'
    BY <2>4 DEF TypeOK
  <2> QED BY <2>6, <2>7
<1> QED BY <1>2, <1>3, <1>4, <1>5 DEF HandlerStep

\* The steps of the two tasks and of the client.
LEMMA TaskType ==
    ASSUME SignalingAssumption, TypeInv, NEW c \in Peers,
           RecvStep(c) \/ Deliver(c) \/ ClientCloses(c)
    PROVE  TypeInv'
<1> USE DEF TypeInv, Bookkeeping, RxAlive
<1>1. CASE SendOut(c)
  <2>1. /\ pc[c] = "running" /\ out[c].kind \in {"Update", "Offer", "Answer", "Error"} /\ out[c].to # <<>>
        /\ out[c].to \in Seq(Peers)
    BY <1>1 DEF SendOut, TypeOK
  <2>2. Head(out[c].to) \in Peers /\ Tail(out[c].to) \in Seq(Peers)
    BY <2>1, HeadTailProperties
  <2>3. inbox' \in [Peers -> Seq(Message)] /\ \A d \in Peers : Len(inbox'[d]) <= Capacity
    BY <1>1, <2>1, <2>2, SendFacts, SendKinds DEF MsgType, SendOut, Appended
  <2>4. /\ pc' = [pc EXCEPT ![c] = "ended"] \/ pc' = pc
        /\ \/ out' = [out EXCEPT ![c] = Idle]
           \/ /\ Tail(out[c].to) # <<>>
              /\ out' = [out EXCEPT ![c] = [out[c] EXCEPT !.to = Tail(out[c].to)]]
        /\ UNCHANGED <<registered, count, todo, clientVars>>
    BY <1>1, <2>1 DEF SendOut, TypeOK
  <2> DEFINE next == [out[c] EXCEPT !.to = Tail(out[c].to)]
  <2>a. out[c] \in Sending /\ out \in [Peers -> Sending]
    BY DEF TypeOK, Sending
  <2>b. next \in Sending /\ next.kind = out[c].kind /\ next.to = Tail(out[c].to)
    BY <2>a, <2>2 DEF Sending
  <2>c. out' = [out EXCEPT ![c] = Idle] \/ (Tail(out[c].to) # <<>> /\ out' = [out EXCEPT ![c] = next])
    BY <2>4
  <2> HIDE DEF next
  <2>5. out' \in [Peers -> Sending]
    BY <2>a, <2>b, <2>c, IdleIsSending
  <2>6. \A d \in Peers : out'[d] # Idle => /\ out'[d].kind \in {"Update", "Offer", "Answer", "Error"}
                                           /\ out'[d].to # <<>>
    <3>1. \A d \in Peers \ {c} : out'[d] = out[d]
      BY <2>a, <2>c
    <3>2. out'[c] = Idle \/ (Tail(out[c].to) # <<>> /\ out'[c] = next)
      BY <2>a, <2>c
    <3> QED BY <2>1, <2>b, <3>1, <3>2
  <2>7. TypeOK'
    <3>1. pc' \in [Peers -> {"new", "refused", "joining", "running", "ended", "leaving"}]
      BY <2>4 DEF TypeOK
    <3> QED BY <2>3, <2>4, <2>5, <3>1 DEF TypeOK, Message, Sending, clientVars
  <2>8. \A d \in Peers : RxAlive(d)' <=> RxAlive(d)
    BY <2>1, <2>4 DEF TypeOK
  <2> QED BY <2>4, <2>6, <2>7, <2>8
<1>2. CASE TaskEnds(c)
  BY <1>2 DEF TaskEnds, TypeOK, clientVars
<1>3. CASE Deliver(c)
  <2>1. /\ inbox' \in [Peers -> Seq(Message)] /\ \A d \in Peers : Len(inbox'[d]) <= Capacity
        /\ Head(inbox[c]) \in Message
    BY <1>3, TailFacts DEF Deliver
  <2>2. known' \in [Peers -> SUBSET Peers] /\ greeted' \in [Peers -> BOOLEAN]
    <3>1. Head(inbox[c]).from \in Peers
      BY <2>1 DEF Message
    <3> QED BY <1>3, <3>1, ZenonT(40) DEF Deliver, TypeOK
  <2> QED BY <1>3, <2>1, <2>2 DEF Deliver, TypeOK, Message
<1>4. CASE ClientCloses(c)
  BY <1>4 DEF ClientCloses, TypeOK, serverVars
<1> QED BY <1>1, <1>2, <1>3, <1>4 DEF RecvStep

LEMMA ClientSendsType ==
    ASSUME SignalingAssumption, TypeInv, NEW c \in Peers, NEW target \in Peers, NEW kind \in Kinds,
           ClientSends(c, kind, target)
    PROVE  TypeInv'
<1> USE DEF TypeInv, Bookkeeping, RxAlive
<1>1. /\ sent' = [sent EXCEPT ![c] = @ + 1] /\ sent[c] < MaxSends[c]
      /\ UNCHANGED <<registered, pc, todo, inbox, closed, greeted, hello, known>>
  BY DEF ClientSends
<1>2. /\ count' \in 0..MaxRequests
      /\ \/ out' = [out EXCEPT ![c] = Idle]
         \/ \E k \in {"Update", "Offer", "Answer", "Error"}, order \in Seq(Peers) :
               order # <<>> /\ out' = [out EXCEPT ![c] = [kind |-> k, to |-> order]]
  <2>1. CASE UNCHANGED count /\ out' = [out EXCEPT ![c] = [kind |-> "Error", to |-> <<c>>]]
    <3>1. <<c>> \in Seq(Peers) /\ <<c>> # <<>>
      OBVIOUS
    <3> QED BY <2>1, <3>1 DEF TypeOK
  <2>2. ASSUME count < MaxRequests, count' = count + 1,
               NEW targets \in SUBSET registered, NEW order \in SetToSeqs(targets),
               out' = [out EXCEPT ![c] = IF order = <<>> THEN Idle ELSE [kind |-> kind, to |-> order]]
        PROVE  <1>2!1 /\ <1>2!2
    <3>1. count' \in 0..MaxRequests
      BY <2>2 DEF TypeOK, SignalingAssumption
    <3>2. IsFiniteSet(targets) /\ targets \subseteq Peers
      BY FS_Subset DEF SignalingAssumption, TypeOK
    <3>3. order \in Seq(Peers)
      BY <3>2, OrdersAreComplete, SeqMonotonic
    <3> QED BY <2>2, <3>1, <3>3 DEF SignalingAssumption
  <2>3. CASE kind = "Update"
    BY <2>1, <2>2, <2>3 DEF ClientSends
  <2>4. CASE kind # "Update"
    BY <2>1, <2>2, <2>4 DEF ClientSends
  <2> QED BY <2>3, <2>4
<1>a. \A k \in {"Update", "Offer", "Answer", "Error"}, order \in Seq(Peers) :
         LET o == [kind |-> k, to |-> order]
         IN  o \in Sending /\ o.kind = k /\ o.to = order
  BY DEF Sending, MsgType
<1>b. out \in [Peers -> Sending]
  BY DEF TypeOK, Sending
<1>3. out' \in [Peers -> Sending]
  <2>1. CASE out' = [out EXCEPT ![c] = Idle]
    BY <2>1, <1>b, IdleIsSending
  <2>2. ASSUME NEW k \in {"Update", "Offer", "Answer", "Error"}, NEW order \in Seq(Peers), order # <<>>,
               out' = [out EXCEPT ![c] = [kind |-> k, to |-> order]]
        PROVE  out' \in [Peers -> Sending]
    <3>1. [kind |-> k, to |-> order] \in Sending
      BY <1>a
    <3> QED BY <2>2, <3>1, <1>b
  <2> QED BY <1>2, <2>1, <2>2
<1>4. \A d \in Peers : out'[d] # Idle => /\ out'[d].kind \in {"Update", "Offer", "Answer", "Error"}
                                         /\ out'[d].to # <<>>
  <2>1. CASE out' = [out EXCEPT ![c] = Idle]
    BY <2>1, <1>b
  <2>2. ASSUME NEW k \in {"Update", "Offer", "Answer", "Error"}, NEW order \in Seq(Peers), order # <<>>,
               out' = [out EXCEPT ![c] = [kind |-> k, to |-> order]]
        PROVE  \A d \in Peers : out'[d] # Idle =>
                   /\ out'[d].kind \in {"Update", "Offer", "Answer", "Error"}
                   /\ out'[d].to # <<>>
    <3>1. PICK o : o = [kind |-> k, to |-> order]
      OBVIOUS
    <3>2. o.kind = k /\ o.to = order
      BY <3>1
    <3>3. \A d \in Peers : out'[d] = IF d = c THEN o ELSE out[d]
      BY <2>2, <3>1, <1>b
    <3> QED BY <2>2, <3>2, <3>3 DEF TypeInv, Bookkeeping
  <2> QED BY <1>2, <2>1, <2>2
<1>5. sent' \in [Peers -> Nat] /\ \A d \in Peers : sent'[d] <= MaxSends[d]
  <2>1. sent \in [Peers -> Nat] /\ (\A d \in Peers : sent[d] <= MaxSends[d]) /\ MaxSends \in [Peers -> Nat]
    BY DEF TypeOK, SignalingAssumption
  <2>2. PICK n \in Nat : n = sent[c] + 1 /\ n <= MaxSends[c]
    BY <1>1, <2>1
  <2>3. sent' = [sent EXCEPT ![c] = n]
    BY <1>1, <2>2
  <2> QED
    <3> HIDE DEF TypeInv, Bookkeeping, RxAlive
    <3> QED BY <2>1, <2>2, <2>3
<1>6. TypeOK'
  <2>1. count' \in 0..MaxRequests
    BY <1>2
  <2>2. out' \in [Peers -> [kind : MsgType \cup {"none"}, to : Seq(Peers)]]
    BY <1>3 DEF Sending
  <2> QED BY <1>1, <1>5, <2>1, <2>2 DEF TypeOK
<1> QED BY <1>1, <1>4, <1>6

LEMMA TypeStep == ASSUME SignalingAssumption, TypeInv, [Next]_vars PROVE TypeInv'
<1>1. CASE UNCHANGED vars
  BY <1>1 DEF TypeInv, TypeOK, Bookkeeping, RxAlive, vars, serverVars, clientVars
<1>2. CASE HourPasses
  <2>1. count' \in 0..MaxRequests
    BY <1>2 DEF HourPasses, SignalingAssumption
  <2>2. UNCHANGED <<registered, pc, todo, inbox, out, sent, closed, greeted, hello, known>>
    BY <1>2 DEF HourPasses, clientVars
  <2>3. TypeOK'
    BY <2>1, <2>2 DEF TypeInv, TypeOK
  <2>4. Bookkeeping'
    BY <2>2 DEF TypeInv, Bookkeeping, RxAlive
  <2> QED BY <2>3, <2>4 DEF TypeInv
<1> QED BY <1>1, <1>2, HandlerType, TaskType, ClientSendsType DEF Next

\* Every variable keeps its type and the server its three limits: the connections
\* of a group, its requests, and the messages in a queue.
THEOREM TypeCorrect == Spec => []TypeOK
<1> USE SignalingAssumption
<1>1. Init => TypeInv
  BY TypeInit
<1>2. TypeInv /\ [Next]_vars => TypeInv'
  BY TypeStep
<1>3. TypeInv => TypeOK
  BY DEF TypeInv
<1> QED BY <1>1, <1>2, <1>3, PTL DEF Spec

-----------------------------------------------------------------------------
(* Where the news of a peer is *)

Talk == {"Update", "Offer", "Answer"}

\* Message m waits in c's queue; a Hello waits there.
InBox(c, m) == \E i \in 1..Len(inbox[c]) : inbox[c][i] = m

HelloInBox(c) == \E i \in 1..Len(inbox[c]) : inbox[c][i].type = "Hello"

\* d's handler has yet to send to c.
Owes(d, c) == \E i \in 1..Len(todo[d]) : todo[d][i] = c

\* A client knows nothing before it is served, and a queue is empty before it
\* exists and after.
Fresh ==
    \A c \in Peers :
        /\ ~RxAlive(c) => inbox[c] = <<>>
        /\ pc[c] \in {"new", "refused", "joining"} => known[c] = {} /\ ~greeted[c]

\* A Left comes from a handler that is leaving, and nothing else its peer sent
\* is behind it; there is no Hello in the queue of a handler that has not sent it.
Ordered ==
    \A c \in Peers : \A i \in 1..Len(inbox[c]) :
        /\ inbox[c][i].type = "Left" =>
              /\ pc[inbox[c][i].from] = "leaving"
              /\ \A j \in 1..Len(inbox[c]) :
                    inbox[c][j].from = inbox[c][i].from /\ inbox[c][j].type # "Left" => j < i
        /\ inbox[c][i].type = "Hello" => pc[c] # "joining"

\* The news that d is there is with c or on its way to c.
IsAnnounced(d, c) ==
    \/ d \in known[c]
    \/ InBox(c, Msg("Join", d))
    \/ pc[d] = "joining" /\ Owes(d, c)
    \/ d \in hello[c] /\ (pc[c] = "joining" \/ HelloInBox(c))

Announced == \A c, d \in registered : c # d => IsAnnounced(d, c)

\* The news that x is gone is on its way to whoever knows it, or is going to,
\* except from its Hello.
IsDismissed(x, c) ==
    \/ x \in registered \cup hello[c]
    \/ pc[x] = "leaving" /\ Owes(x, c)
    \/ InBox(c, Msg("Left", x))

Dismissed ==
    \A c \in registered, x \in Peers :
        x \in known[c] \/ InBox(c, Msg("Join", x)) => IsDismissed(x, c)

\* Whoever calls has announced itself before: a message at place i of c's queue
\* that is read after the Hello comes from a peer c knows by then.
HelloBefore(c, i) == \E j \in 1..Len(inbox[c]) : j < i /\ inbox[c][j].type = "Hello"

IsIntroduced(d, c, i) ==
    \/ d \in known[c]
    \/ \E j \in 1..Len(inbox[c]) : j < i /\ inbox[c][j] = Msg("Join", d)
    \/ d \in hello[c] /\ HelloBefore(c, i)

Introduced ==
    \A c \in Peers : \A i \in 1..Len(inbox[c]) :
        /\ inbox[c][i].type \in Talk /\ inbox[c][i].from # c
        /\ greeted[c] \/ HelloBefore(c, i)
        => IsIntroduced(inbox[c][i].from, c, i)

NewsInv == Fresh /\ Ordered /\ Announced /\ Dismissed /\ Introduced

\* The parts of a message.
LEMMA MsgFacts ==
    /\ \A type \in MsgType, c \in Peers :
          Msg(type, c) \in Message /\ Msg(type, c).type = type /\ Msg(type, c).from = c
    /\ \A m \in Message : m = Msg(m.type, m.from) /\ m.type \in MsgType /\ m.from \in Peers
BY DEF Msg, Message

\* What a send does to the news in the queues.
LEMMA SendNews ==
    ASSUME SignalingAssumption, TypeOK, NEW q \in Peers, NEW m \in Message, Send(q, m)
    PROVE  /\ \A c \in Peers : \A n : InBox(c, n) => InBox(c, n)'
           /\ \A c \in Peers : \A n : InBox(c, n)' => InBox(c, n) \/ (c = q /\ n = m)
           /\ RxAlive(q) => InBox(q, m)'
           /\ \A c \in Peers : HelloInBox(c) => HelloInBox(c)'
           /\ m.type = "Hello" /\ RxAlive(q) => HelloInBox(q)'
           /\ \A c \in Peers : \A i \in 1..Len(inbox[c]) : HelloBefore(c, i)' => HelloBefore(c, i)
<1>1. Appended(q, m)
  BY SendFacts
<1>2. \A c \in Peers : \A n : InBox(c, n) => InBox(c, n)'
  BY <1>1 DEF Appended, InBox
<1>3. \A c \in Peers : \A n : InBox(c, n)' => InBox(c, n) \/ (c = q /\ n = m)
  BY <1>1 DEF Appended, InBox
<1>4. RxAlive(q) => Len(inbox[q]) + 1 \in 1..Len(inbox'[q]) /\ inbox'[q][Len(inbox[q]) + 1] = m
  BY <1>1 DEF Appended
<1>5. RxAlive(q) => InBox(q, m)'
  BY <1>4 DEF InBox
<1>6. \A c \in Peers : HelloInBox(c) => HelloInBox(c)'
  BY <1>1 DEF Appended, HelloInBox
<1>7. m.type = "Hello" /\ RxAlive(q) => HelloInBox(q)'
  BY <1>4 DEF HelloInBox
<1>8. \A c \in Peers : \A i \in 1..Len(inbox[c]) : HelloBefore(c, i)' => HelloBefore(c, i)
  BY <1>1 DEF Appended, HelloBefore
<1> QED BY <1>2, <1>3, <1>5, <1>6, <1>7, <1>8

\* Steps that leave the news alone.
LEMMA QuietStep ==
    ASSUME TypeOK, NewsInv, UNCHANGED <<registered, todo, inbox, greeted, hello, known>>,
           \A c \in Peers : \/ pc'[c] = pc[c]
                            \/ pc[c] = "new" /\ pc'[c] = "refused"
                            \/ pc[c] = "running" /\ pc'[c] = "ended"
    PROVE  NewsInv'
<1> USE DEF NewsInv
<1>1. Fresh'
  BY DEF Fresh, RxAlive
<1>2. Ordered'
  <2>1. \A c \in Peers : \A i \in 1..Len(inbox[c]) : inbox[c][i].from \in Peers
    BY InboxFacts
  <2> QED BY <2>1 DEF Ordered
<1>3. Announced'
  BY DEF Announced, IsAnnounced, InBox, HelloInBox, Owes, TypeOK
<1>4. Dismissed'
  BY DEF Dismissed, IsDismissed, InBox, Owes
<1>5. Introduced'
  BY DEF Introduced, IsIntroduced, HelloBefore
<1> QED BY <1>1, <1>2, <1>3, <1>4, <1>5

\* The parts of the invariant about the queues, after a send to q that is not a
\* Hello, by a sender whose Left has not been sent, or of its Left.
LEMMA SendOrdered ==
    ASSUME SignalingAssumption, TypeInv, NewsInv, NEW s \in Peers, NEW q \in Peers, NEW type \in MsgType,
           Send(q, Msg(type, s)),
           type = "Left" => pc[s] = "leaving",
           type # "Left" => pc[s] # "leaving",
           \A c \in Peers : pc[c] = "leaving" => pc'[c] = "leaving",
           \A c \in Peers : pc'[c] = "joining" => pc[c] = "joining",
           type = "Hello" => pc'[q] # "joining"
    PROVE  Ordered'
<1> DEFINE m == Msg(type, s)
<1>1. m \in Message /\ m.type = type /\ m.from = s
  BY MsgFacts
<1>2. \A c \in Peers : \A i \in 1..Len(inbox[c]) : inbox[c][i] \in Message
  BY InboxFacts DEF TypeInv
<1> HIDE DEF m
<1>3. Appended(q, m)
  BY <1>1, SendFacts DEF m, TypeInv
<1>4. /\ \A c \in Peers : \A i \in 1..Len(inbox[c]) : inbox'[c][i] = inbox[c][i]
      /\ \A c \in Peers : \A i \in 1..Len(inbox'[c]) :
            \/ i \in 1..Len(inbox[c])
            \/ c = q /\ i = Len(inbox[q]) + 1 /\ inbox'[c][i] = m
  BY <1>3 DEF Appended
<1> SUFFICES ASSUME NEW c \in Peers, NEW i \in 1..Len(inbox'[c])
             PROVE  /\ inbox'[c][i].type = "Left" =>
                          /\ pc'[inbox'[c][i].from] = "leaving"
                          /\ \A j \in 1..Len(inbox'[c]) :
                                inbox'[c][j].from = inbox'[c][i].from /\ inbox'[c][j].type # "Left" => j < i
                    /\ inbox'[c][i].type = "Hello" => pc'[c] # "joining"
  BY DEF Ordered
<1>5. CASE i \in 1..Len(inbox[c])
  <2>1. inbox'[c][i] = inbox[c][i] /\ inbox[c][i] \in Message /\ inbox[c][i].from \in Peers
    BY <1>2, <1>4, <1>5, MsgFacts
  <2>2. inbox[c][i].type = "Left" => pc[inbox[c][i].from] = "leaving"
    BY <1>5 DEF NewsInv, Ordered
  <2>3. ASSUME inbox[c][i].type = "Left", NEW j \in 1..Len(inbox'[c]),
               inbox'[c][j].from = inbox[c][i].from, inbox'[c][j].type # "Left"
        PROVE  j < i
    <3>1. CASE j \in 1..Len(inbox[c])
      BY <1>4, <1>5, <2>3, <3>1, SMTT(30) DEF NewsInv, Ordered
    <3>2. CASE inbox'[c][j] = m
      BY <1>1, <2>2, <2>3, <3>2
    <3> QED BY <1>4, <3>1, <3>2
  <2>4. inbox[c][i].type = "Hello" => pc'[c] # "joining"
    BY <1>5 DEF NewsInv, Ordered
  <2> QED BY <2>1, <2>2, <2>3, <2>4
<1>6. CASE c = q /\ i = Len(inbox[q]) + 1 /\ inbox'[c][i] = m
  <2>1. \A j \in 1..Len(inbox'[c]) : inbox'[c][j].type # "Left" => j < i \/ j = i
    BY <1>3, <1>4, <1>6 DEF Appended
  <2> QED BY <1>1, <1>6, <2>1
<1> QED BY <1>4, <1>5, <1>6

\* A send in which no call and no Hello is sent introduces everybody as before.
LEMMA SendIntroduced ==
    ASSUME SignalingAssumption, TypeInv, NewsInv, NEW q \in Peers, NEW m \in Message, Send(q, m),
           UNCHANGED <<greeted, hello, known>>,
           m.type \in Talk /\ m.from # q /\ RxAlive(q) /\ (greeted[q] \/ HelloInBox(q)) =>
              \/ m.from \in known[q] \/ InBox(q, Msg("Join", m.from))
              \/ m.from \in hello[q] /\ HelloInBox(q)
    PROVE  Introduced'
<1>3. Appended(q, m)
  BY SendFacts DEF TypeInv
<1>4. /\ \A c \in Peers : \A i \in 1..Len(inbox[c]) : inbox'[c][i] = inbox[c][i]
      /\ \A c \in Peers : \A i \in 1..Len(inbox'[c]) :
            \/ i \in 1..Len(inbox[c])
            \/ c = q /\ i = Len(inbox[q]) + 1 /\ inbox'[c][i] = m /\ RxAlive(q)
      /\ \A c \in Peers : Len(inbox[c]) <= Len(inbox'[c])
  BY <1>3 DEF Appended
<1> SUFFICES ASSUME NEW c \in Peers, NEW i \in 1..Len(inbox'[c]),
                    inbox'[c][i].type \in Talk, inbox'[c][i].from # c,
                    greeted[c] \/ HelloBefore(c, i)'
             PROVE  IsIntroduced(inbox[c][i].from, c, i)'
  BY DEF Introduced
<1>5. CASE i \in 1..Len(inbox[c])
  <2>1. HelloBefore(c, i)' => HelloBefore(c, i)
    BY <1>5, SendNews DEF TypeInv
  <2>2. IsIntroduced(inbox[c][i].from, c, i)
    BY <1>4, <1>5, <2>1 DEF NewsInv, Introduced
  <2>3. HelloBefore(c, i) => HelloBefore(c, i)'
    BY <1>3, <1>4, <1>5 DEF HelloBefore, Appended
  <2> QED BY <1>3, <1>4, <1>5, <2>2, <2>3 DEF IsIntroduced, Appended
<1>6. CASE c = q /\ i = Len(inbox[q]) + 1 /\ inbox'[c][i] = m /\ RxAlive(q)
  <2>0. /\ \A j \in 1..Len(inbox[c]) : j \in 1..Len(inbox'[c]) /\ j < i
        /\ \A j \in 1..Len(inbox'[c]) : j < i => j \in 1..Len(inbox[c])
    <3>1. Len(inbox[c]) \in Nat /\ Len(inbox'[c]) = Len(inbox[c]) + 1 /\ i = Len(inbox[c]) + 1
      BY <1>3, <1>6 DEF Appended
    <3> QED BY <3>1
  <2>1. HelloBefore(c, i)' <=> HelloInBox(c)
    BY <1>4, <2>0, SMTT(30) DEF HelloBefore, HelloInBox
  <2>2. InBox(c, Msg("Join", m.from)) => \E j \in 1..Len(inbox'[c]) : j < i /\ inbox'[c][j] = Msg("Join", m.from)
    BY <1>4, <2>0 DEF InBox
  <2> QED BY <1>6, <2>1, <2>2 DEF IsIntroduced
<1> QED BY <1>4, <1>5, <1>6

\* A send leaves the queue of a receiver that has been dropped alone.
LEMMA SendFresh ==
    ASSUME TypeOK, NEW q \in Peers, NEW m, Send(q, m), NEW c \in Peers, ~RxAlive(c)
    PROVE  inbox'[c] = inbox[c]
BY DEF Send, TypeOK

\* A handler that has sent to the first of its list owes it to the others.
LEMMA OwesAfterSend ==
    ASSUME TypeOK, NEW c \in Peers, todo[c] # <<>>, todo' = [todo EXCEPT ![c] = Tail(@)]
    PROVE  /\ Head(todo[c]) \in Peers
           /\ \A d \in Peers \ {c} : \A e : Owes(d, e) => Owes(d, e)'
           /\ \A e : Owes(c, e) => e = Head(todo[c]) \/ Owes(c, e)'
<1>1. todo \in [Peers -> Seq(Peers)] /\ todo[c] \in Seq(Peers)
  BY DEF TypeOK
<1>2. /\ Len(todo[c]) \in Nat \ {0} /\ Len(Tail(todo[c])) = Len(todo[c]) - 1
      /\ \A i \in 1..Len(Tail(todo[c])) : Tail(todo[c])[i] = todo[c][i + 1]
      /\ Head(todo[c]) = todo[c][1] /\ Head(todo[c]) \in Peers
  BY <1>1, HeadTailProperties, ElementOfSeq, EmptySeq
<1>3. todo'[c] = Tail(todo[c]) /\ \A d \in Peers \ {c} : todo'[d] = todo[d]
  BY <1>1
<1>4. ASSUME NEW e, Owes(c, e) PROVE e = Head(todo[c]) \/ Owes(c, e)'
  <2>1. PICK i \in 1..Len(todo[c]) : todo[c][i] = e
    BY <1>4 DEF Owes
  <2>2. CASE i = 1
    BY <1>2, <2>1, <2>2
  <2>3. CASE i # 1
    <3>1. i - 1 \in 1..Len(Tail(todo[c])) /\ (i - 1) + 1 = i
      BY <1>2, <2>3
    <3> QED BY <1>2, <1>3, <2>1, <3>1, ZenonT(40) DEF Owes
  <2> QED BY <2>2, <2>3
<1> QED BY <1>2, <1>3, <1>4 DEF Owes

LEMMA SendJoinStep ==
    ASSUME SignalingAssumption, TypeInv, NewsInv, NEW c \in Peers, SendJoin(c)
    PROVE  NewsInv'
<1>0. Head(todo[c]) \in Peers
  BY OwesAfterSend DEF TypeInv, SendJoin, SendLeft
<1> PICK q \in Peers : q = Head(todo[c])
  BY <1>0
<1>1. /\ pc[c] = "joining" /\ todo[c] # <<>> /\ todo' = [todo EXCEPT ![c] = Tail(@)]
      /\ Send(q, Msg("Join", c)) /\ UNCHANGED <<registered, pc, greeted, hello, known>>
  BY DEF SendJoin, clientVars
<1>2. /\ \A d \in Peers \ {c} : \A e : Owes(d, e) => Owes(d, e)'
      /\ \A e : Owes(c, e) => e = q \/ Owes(c, e)'
  BY <1>1, OwesAfterSend DEF TypeInv
<1>3. /\ Msg("Join", c) \in Message /\ Msg("Join", c).type = "Join" /\ Msg("Join", c).from = c
      /\ \A d \in Peers : Msg("Join", d) = Msg("Join", c) => d = c
  BY MsgFacts DEF MsgType
<1>4. registered \subseteq Peers /\ \A d \in Peers : d \in registered <=> RxAlive(d)
  BY DEF TypeInv, TypeOK, Bookkeeping
<1>5. /\ \A d \in Peers : \A n : InBox(d, n) => InBox(d, n)'
      /\ \A d \in Peers : \A n : InBox(d, n)' => InBox(d, n) \/ (d = q /\ n = Msg("Join", c))
      /\ RxAlive(q) => InBox(q, Msg("Join", c))'
      /\ \A d \in Peers : HelloInBox(d) => HelloInBox(d)'
  BY <1>1, <1>2, <1>3, SendNews DEF TypeInv
<1>6. Fresh'
  <2>1. \A d \in Peers : ~RxAlive(d) => inbox'[d] = inbox[d]
    BY <1>1, <1>2, SendFresh DEF TypeInv
  <2> QED BY <1>1, <1>2, <2>1 DEF NewsInv, Fresh, RxAlive
<1>7. Ordered'
  BY <1>1, <1>2, SendOrdered DEF MsgType
<1>8. Announced'
  <2> SUFFICES ASSUME NEW e \in registered, NEW d \in registered, e # d
               PROVE  IsAnnounced(d, e)'
    BY <1>1 DEF Announced
  <2>1. IsAnnounced(d, e) /\ d \in Peers /\ e \in Peers
    BY <1>4 DEF NewsInv, Announced
  <2>2. CASE d = c /\ Owes(d, e)
    <3>1. e = q \/ Owes(d, e)'
      BY <1>2, <2>2
    <3>2. e = q => InBox(e, Msg("Join", d))'
      BY <1>4, <1>5, <2>1, <2>2
    <3>3. pc'[d] = "joining"
      BY <1>1, <2>2
    <3> QED BY <3>1, <3>2, <3>3 DEF IsAnnounced
  <2> QED BY <1>1, <1>2, <1>5, <2>1, <2>2 DEF IsAnnounced
<1>9. Dismissed'
  <2> SUFFICES ASSUME NEW e \in registered, NEW x \in Peers, x \in known[e] \/ InBox(e, Msg("Join", x))'
               PROVE  IsDismissed(x, e)'
    BY <1>1 DEF Dismissed
  <2>1. x = c \/ x \in known[e] \/ InBox(e, Msg("Join", x))
    BY <1>3, <1>4, <1>5
  <2>2. c \in registered
    BY <1>1, <1>4 DEF RxAlive
  <2>3. x = c \/ IsDismissed(x, e)
    BY <2>1 DEF NewsInv, Dismissed
  <2> QED BY <1>1, <1>2, <1>4, <1>5, <2>2, <2>3 DEF IsDismissed
<1>10. Introduced'
  BY <1>1, <1>2, <1>3, SendIntroduced DEF Talk
<1> QED BY <1>6, <1>7, <1>8, <1>9, <1>10 DEF NewsInv

LEMMA SendLeftStep ==
    ASSUME SignalingAssumption, TypeInv, NewsInv, NEW c \in Peers, SendLeft(c)
    PROVE  NewsInv'
<1>0. Head(todo[c]) \in Peers
  BY OwesAfterSend DEF TypeInv, SendJoin, SendLeft
<1> PICK q \in Peers : q = Head(todo[c])
  BY <1>0
<1>1. /\ pc[c] = "leaving" /\ todo[c] # <<>> /\ todo' = [todo EXCEPT ![c] = Tail(@)]
      /\ Send(q, Msg("Left", c)) /\ UNCHANGED <<registered, pc, greeted, hello, known>>
  BY DEF SendLeft, clientVars
<1>2. /\ \A d \in Peers \ {c} : \A e : Owes(d, e) => Owes(d, e)'
      /\ \A e : Owes(c, e) => e = q \/ Owes(c, e)'
  BY <1>1, OwesAfterSend DEF TypeInv
<1>3. /\ Msg("Left", c) \in Message /\ Msg("Left", c).type = "Left" /\ Msg("Left", c).from = c
      /\ \A d \in Peers : Msg("Join", d) # Msg("Left", c)
  BY MsgFacts DEF MsgType
<1>4. registered \subseteq Peers /\ \A d \in Peers : d \in registered <=> RxAlive(d)
  BY DEF TypeInv, TypeOK, Bookkeeping
<1>5. /\ \A d \in Peers : \A n : InBox(d, n) => InBox(d, n)'
      /\ \A d \in Peers : \A n : InBox(d, n)' => InBox(d, n) \/ (d = q /\ n = Msg("Left", c))
      /\ RxAlive(q) => InBox(q, Msg("Left", c))'
      /\ \A d \in Peers : HelloInBox(d) => HelloInBox(d)'
  BY <1>1, <1>2, <1>3, SendNews DEF TypeInv
<1>6. Fresh'
  <2>1. \A d \in Peers : ~RxAlive(d) => inbox'[d] = inbox[d]
    BY <1>1, <1>2, SendFresh DEF TypeInv
  <2> QED BY <1>1, <1>2, <2>1 DEF NewsInv, Fresh, RxAlive
<1>7. Ordered'
  BY <1>1, <1>2, SendOrdered DEF MsgType
<1>8. Announced'
  <2> SUFFICES ASSUME NEW e \in registered, NEW d \in registered, e # d
               PROVE  IsAnnounced(d, e)'
    BY <1>1 DEF Announced
  <2>1. IsAnnounced(d, e) /\ d \in Peers /\ e \in Peers /\ d # c
    BY <1>1, <1>4 DEF NewsInv, Announced, RxAlive
  <2> QED BY <1>1, <1>2, <1>5, <2>1 DEF IsAnnounced
<1>9. Dismissed'
  <2> SUFFICES ASSUME NEW e \in registered, NEW x \in Peers, x \in known[e] \/ InBox(e, Msg("Join", x))'
               PROVE  IsDismissed(x, e)'
    BY <1>1 DEF Dismissed
  <2>1. IsDismissed(x, e)
    BY <1>3, <1>4, <1>5 DEF NewsInv, Dismissed
  <2>2. CASE x = c /\ Owes(x, e)
    <3>1. e = q \/ Owes(x, e)'
      BY <1>2, <2>2
    <3>2. e = q => InBox(e, Msg("Left", x))'
      BY <1>4, <1>5, <2>2
    <3>3. pc'[x] = "leaving"
      BY <1>1, <2>2
    <3> QED BY <3>1, <3>2, <3>3 DEF IsDismissed
  <2> QED BY <1>1, <1>2, <1>4, <1>5, <2>1, <2>2 DEF IsDismissed
<1>10. Introduced'
  BY <1>1, <1>2, <1>3, SendIntroduced DEF Talk
<1> QED BY <1>6, <1>7, <1>8, <1>9, <1>10 DEF NewsInv

LEMMA SendHelloStep ==
    ASSUME SignalingAssumption, TypeInv, NewsInv, NEW c \in Peers, SendHello(c)
    PROVE  NewsInv'
<1>1. /\ pc[c] = "joining" /\ todo[c] = <<>> /\ Send(c, Msg("Hello", c))
      /\ pc' = [pc EXCEPT ![c] = "running"] /\ UNCHANGED <<registered, todo, greeted, hello, known>>
  BY DEF SendHello, clientVars
<1>2. pc'[c] = "running" /\ \A d \in Peers \ {c} : pc'[d] = pc[d]
  BY <1>1 DEF TypeInv, TypeOK
<1>3. /\ Msg("Hello", c) \in Message /\ Msg("Hello", c).type = "Hello" /\ Msg("Hello", c).from = c
      /\ \A d \in Peers : Msg("Join", d) # Msg("Hello", c)
  BY MsgFacts DEF MsgType
<1>4. registered \subseteq Peers /\ \A d \in Peers : d \in registered <=> RxAlive(d)
  BY DEF TypeInv, TypeOK, Bookkeeping
<1>5. /\ \A d \in Peers : \A n : InBox(d, n) => InBox(d, n)'
      /\ \A d \in Peers : \A n : InBox(d, n)' => InBox(d, n) \/ (d = c /\ n = Msg("Hello", c))
      /\ RxAlive(c) => HelloInBox(c)'
      /\ \A d \in Peers : HelloInBox(d) => HelloInBox(d)'
  BY <1>1, <1>3, SendNews DEF TypeInv
<1>6. Fresh'
  <2>1. \A d \in Peers : ~RxAlive(d) => inbox'[d] = inbox[d]
    BY <1>1, <1>2, SendFresh DEF TypeInv
  <2> QED BY <1>1, <1>2, <2>1 DEF NewsInv, Fresh, RxAlive
<1>7. Ordered'
  BY <1>1, <1>2, SendOrdered DEF MsgType
<1>8. Announced'
  <2> SUFFICES ASSUME NEW e \in registered, NEW d \in registered, e # d
               PROVE  IsAnnounced(d, e)'
    BY <1>1 DEF Announced
  <2>1. IsAnnounced(d, e) /\ d \in Peers /\ e \in Peers
    BY <1>4 DEF NewsInv, Announced
  <2>2. ~Owes(c, e)
    BY <1>1 DEF Owes
  <2>3. pc[e] = "joining" => pc'[e] = "joining" \/ HelloInBox(e)'
    BY <1>1, <1>2, <1>5, <2>1 DEF RxAlive
  <2>4. Owes(d, e) => Owes(d, e)'
    BY <1>1 DEF Owes
  <2> QED BY <1>1, <1>2, <1>5, <2>1, <2>2, <2>3, <2>4 DEF IsAnnounced
<1>9. Dismissed'
  <2> SUFFICES ASSUME NEW e \in registered, NEW x \in Peers, x \in known[e] \/ InBox(e, Msg("Join", x))'
               PROVE  IsDismissed(x, e)'
    BY <1>1 DEF Dismissed
  <2>1. IsDismissed(x, e)
    BY <1>3, <1>4, <1>5 DEF NewsInv, Dismissed
  <2>2. Owes(x, e) => Owes(x, e)'
    BY <1>1 DEF Owes
  <2> QED BY <1>1, <1>2, <1>4, <1>5, <2>1, <2>2 DEF IsDismissed
<1>10. Introduced'
  BY <1>1, <1>3, SendIntroduced DEF Talk
<1> QED BY <1>6, <1>7, <1>8, <1>9, <1>10 DEF NewsInv

LEMMA SendOutStep ==
    ASSUME SignalingAssumption, TypeInv, NewsInv, NEW c \in Peers, SendOut(c)
    PROVE  NewsInv'
<1> DEFINE q == Head(out[c].to)
           m == Msg(out[c].kind, c)
<1>1. /\ pc[c] = "running" /\ out[c] # Idle /\ Send(q, m)
      /\ pc' = [pc EXCEPT ![c] = "ended"] \/ pc' = pc
      /\ UNCHANGED <<registered, todo, greeted, hello, known>>
  BY DEF SendOut, clientVars
<1>2. /\ q \in Peers /\ out[c].kind \in Talk \cup {"Error"}
  <2>1. out[c].to \in Seq(Peers) /\ out[c].to # <<>> /\ out[c].kind \in Talk \cup {"Error"}
    BY <1>1 DEF TypeInv, TypeOK, Bookkeeping, Talk
  <2> QED BY <2>1, HeadTailProperties
<1>a. /\ pc'[c] \in {"running", "ended"}
      /\ \A d \in Peers \ {c} : pc'[d] = pc[d]
  BY <1>1 DEF TypeInv, TypeOK
<1>3. /\ m \in Message /\ m.type = out[c].kind /\ m.from = c /\ m.type \in MsgType
      /\ \A d \in Peers : Msg("Join", d) # m
  BY <1>2, MsgFacts DEF MsgType, Talk
<1>7. Ordered'
  BY <1>1, <1>2, <1>3, <1>a, SendOrdered DEF Talk
<1> HIDE DEF q, m
<1>4. registered \subseteq Peers /\ \A d \in Peers : d \in registered <=> RxAlive(d)
  BY DEF TypeInv, TypeOK, Bookkeeping
<1>5. /\ \A d \in Peers : \A n : InBox(d, n) => InBox(d, n)'
      /\ \A d \in Peers : \A n : InBox(d, n)' => InBox(d, n) \/ (d = q /\ n = m)
      /\ \A d \in Peers : HelloInBox(d) => HelloInBox(d)'
  BY <1>1, <1>2, <1>3, SendNews DEF TypeInv
<1>b. \A d, e : Owes(d, e) => Owes(d, e)'
  BY <1>1 DEF Owes
<1>6. Fresh'
  BY <1>1, <1>2, <1>a, SendFresh DEF NewsInv, Fresh, RxAlive, TypeInv
<1>8. Announced'
  <2> SUFFICES ASSUME NEW e \in registered, NEW d \in registered, e # d
               PROVE  IsAnnounced(d, e)'
    BY <1>1 DEF Announced
  <2>1. IsAnnounced(d, e) /\ d \in Peers /\ e \in Peers
    BY <1>4 DEF NewsInv, Announced
  <2> QED BY <1>1, <1>a, <1>b, <1>5, <2>1 DEF IsAnnounced
<1>9. Dismissed'
  <2> SUFFICES ASSUME NEW e \in registered, NEW x \in Peers, x \in known[e] \/ InBox(e, Msg("Join", x))'
               PROVE  IsDismissed(x, e)'
    BY <1>1 DEF Dismissed
  <2>1. IsDismissed(x, e)
    BY <1>3, <1>4, <1>5 DEF NewsInv, Dismissed
  <2> QED BY <1>1, <1>a, <1>b, <1>4, <1>5, <2>1 DEF IsDismissed
<1>10. Introduced'
  <2>1. ASSUME RxAlive(q), c # q, greeted[q] \/ HelloInBox(q)
        PROVE  c \in known[q] \/ InBox(q, Msg("Join", c)) \/ (c \in hello[q] /\ HelloInBox(q))
    <3>1. c \in registered /\ q \in registered
      BY <1>1, <1>2, <1>4, <2>1 DEF RxAlive
    <3>2. IsAnnounced(c, q)
      BY <2>1, <3>1 DEF NewsInv, Announced
    <3>3. pc[q] = "joining" => ~greeted[q] /\ ~HelloInBox(q)
      BY <1>2 DEF NewsInv, Fresh, Ordered, HelloInBox
    <3> QED BY <1>1, <2>1, <3>2, <3>3 DEF IsAnnounced
  <2> QED BY <1>1, <1>2, <1>3, <2>1, SendIntroduced
<1> QED BY <1>6, <1>7, <1>8, <1>9, <1>10 DEF NewsInv

LEMMA DeliverStep ==
    ASSUME SignalingAssumption, TypeInv, NewsInv, NEW c \in Peers, Deliver(c)
    PROVE  NewsInv'
<1>1. /\ pc[c] \in {"running", "ended"} /\ inbox[c] # <<>> /\ inbox' = [inbox EXCEPT ![c] = Tail(@)]
      /\ UNCHANGED <<registered, pc, todo, hello>>
  BY DEF Deliver
<1>2. /\ \A d \in Peers \ {c} : inbox'[d] = inbox[d]
      /\ Len(inbox[c]) \in Nat \ {0} /\ Len(inbox'[c]) = Len(inbox[c]) - 1
      /\ \A i \in 1..Len(inbox'[c]) : inbox'[c][i] = inbox[c][i + 1]
      /\ Head(inbox[c]) = inbox[c][1] /\ inbox[c][1] \in Message
  BY <1>1, TailFacts DEF TypeInv
<1> PICK m \in Message : m = inbox[c][1]
  BY <1>2
<1>3. /\ greeted'[c] = (greeted[c] \/ m.type = "Hello")
      /\ m.type = "Hello" => known'[c] = known[c] \cup hello[c]
      /\ m.type = "Join"  => known'[c] = known[c] \cup {m.from}
      /\ m.type = "Left"  => known'[c] = known[c] \ {m.from}
      /\ m.type \notin {"Hello", "Join", "Left"} => known'[c] = known[c]
      /\ \A d \in Peers \ {c} : greeted'[d] = greeted[d] /\ known'[d] = known[d]
  <2>1. greeted \in [Peers -> BOOLEAN] /\ known \in [Peers -> SUBSET Peers]
    BY DEF TypeInv, TypeOK
  <2>2. /\ greeted' = [greeted EXCEPT ![c] = @ \/ m.type = "Hello"]
        /\ known' = [known EXCEPT ![c] =
                           CASE m.type = "Hello" -> @ \cup hello[c]
                             [] m.type = "Join"  -> @ \cup {m.from}
                             [] m.type = "Left"  -> @ \ {m.from}
                             [] OTHER            -> @]
    BY <1>2 DEF Deliver
  <2>3. greeted'[c] = (greeted[c] \/ m.type = "Hello") /\ \A d \in Peers \ {c} : greeted'[d] = greeted[d]
    BY <2>1, <2>2
  <2>4. known'[c] = CASE m.type = "Hello" -> known[c] \cup hello[c]
                      [] m.type = "Join"  -> known[c] \cup {m.from}
                      [] m.type = "Left"  -> known[c] \ {m.from}
                      [] OTHER            -> known[c]
    BY <2>1, <2>2
  <2>5. \A d \in Peers \ {c} : known'[d] = known[d]
    BY <2>1, <2>2
  <2> QED BY <2>3, <2>4, <2>5
<1>4. /\ \A x : x \in known[c] => x \in known'[c] \/ (m.type = "Left" /\ m.from = x)
      /\ \A x : x \in known'[c] => \/ x \in known[c] \/ (m.type = "Join" /\ m.from = x)
                                   \/ m.type = "Hello" /\ x \in hello[c]
      /\ m.type = "Join" => m.from \in known'[c]
      /\ m.type = "Left" => m.from \notin known'[c]
      /\ m.type = "Hello" => hello[c] \subseteq known'[c]
  BY <1>3
<1>5. /\ \A x \in Peers : (m = Msg("Join", x)) <=> (m.type = "Join" /\ m.from = x)
      /\ \A x \in Peers : (m = Msg("Left", x)) <=> (m.type = "Left" /\ m.from = x)
  BY MsgFacts DEF MsgType
<1>6. \A i \in 1..Len(inbox[c]) : i = 1 \/ (i - 1 \in 1..Len(inbox'[c]) /\ inbox'[c][i - 1] = inbox[c][i])
  <2> SUFFICES ASSUME NEW i \in 1..Len(inbox[c]), i # 1
               PROVE  i - 1 \in 1..Len(inbox'[c]) /\ inbox'[c][i - 1] = inbox[c][i]
    OBVIOUS
  <2>1. i - 1 \in 1..Len(inbox'[c]) /\ (i - 1) + 1 = i
    BY <1>2
  <2> QED BY <1>2, <2>1
<1>7. \A i \in 1..Len(inbox'[c]) : i + 1 \in 1..Len(inbox[c]) /\ inbox'[c][i] = inbox[c][i + 1]
  BY <1>2
<1>8. /\ \A n : InBox(c, n) => n = m \/ InBox(c, n)'
      /\ \A n : InBox(c, n)' => InBox(c, n)
      /\ HelloInBox(c) => m.type = "Hello" \/ HelloInBox(c)'
  BY <1>6, <1>7 DEF InBox, HelloInBox
<1>9. /\ \A d \in Peers \ {c} : \A n : InBox(d, n)' <=> InBox(d, n)
      /\ \A d \in Peers \ {c} : HelloInBox(d)' <=> HelloInBox(d)
      /\ \A d, e : Owes(d, e)' <=> Owes(d, e)
  BY <1>1, <1>2 DEF InBox, HelloInBox, Owes
<1>10. registered \subseteq Peers /\ \A d \in Peers : d \in registered <=> RxAlive(d)
  BY DEF TypeInv, TypeOK, Bookkeeping
<1>11. 1 \in 1..Len(inbox[c])
  BY <1>2
<1>12. Fresh'
  BY <1>1, <1>2, <1>3, ZenonT(40) DEF NewsInv, Fresh, RxAlive
<1>13. Ordered'
  <2> SUFFICES ASSUME NEW d \in Peers, NEW i \in 1..Len(inbox'[d])
               PROVE  /\ inbox'[d][i].type = "Left" =>
                            /\ pc'[inbox'[d][i].from] = "leaving"
                            /\ \A j \in 1..Len(inbox'[d]) :
                                  inbox'[d][j].from = inbox'[d][i].from /\ inbox'[d][j].type # "Left" => j < i
                      /\ inbox'[d][i].type = "Hello" => pc'[d] # "joining"
    BY DEF Ordered
  <2>1. CASE d # c
    BY <1>1, <1>2, <2>1 DEF NewsInv, Ordered
  <2>2. CASE d = c
    <3>1. i \in 1..Len(inbox'[c]) /\ i \in Nat /\ i + 1 \in 1..Len(inbox[c]) /\ inbox'[c][i] = inbox[c][i + 1]
      BY <1>7, <2>2
    <3>2. /\ inbox[c][i + 1].type = "Left" => pc[inbox[c][i + 1].from] = "leaving"
          /\ inbox[c][i + 1].type = "Hello" => pc[c] # "joining"
      BY <3>1 DEF NewsInv, Ordered
    <3>3. ASSUME inbox[c][i + 1].type = "Left", NEW j \in 1..Len(inbox'[c]),
                 inbox'[c][j].from = inbox[c][i + 1].from, inbox'[c][j].type # "Left"
          PROVE  j < i
      <4>1. j + 1 \in 1..Len(inbox[c]) /\ inbox'[c][j] = inbox[c][j + 1]
        BY <1>7
      <4>2. j + 1 < i + 1
        BY <3>1, <3>3, <4>1 DEF NewsInv, Ordered
      <4> QED BY <3>1, <4>2
    <3> QED BY <1>1, <2>2, <3>1, <3>2, <3>3
  <2> QED BY <2>1, <2>2
<1>14. Announced'
  <2> SUFFICES ASSUME NEW e \in registered, NEW d \in registered, e # d
               PROVE  IsAnnounced(d, e)'
    BY <1>1 DEF Announced
  <2>1. IsAnnounced(d, e) /\ d \in Peers /\ e \in Peers
    BY <1>10 DEF NewsInv, Announced
  <2>2. CASE e # c
    <3>1. /\ d \in known[e] => d \in known'[e]
          /\ InBox(e, Msg("Join", d)) => InBox(e, Msg("Join", d))'
          /\ HelloInBox(e) => HelloInBox(e)'
          /\ Owes(d, e) => Owes(d, e)'
      BY <1>3, <1>9, <2>1, <2>2
    <3> QED BY <1>1, <2>1, <3>1 DEF IsAnnounced
  <2>3. CASE e = c
    <3>1. ~(m.type = "Left" /\ m.from = d)
      <4>1. m.type = "Left" => pc[m.from] = "leaving"
        BY <1>11 DEF NewsInv, Ordered
      <4> QED BY <1>10, <2>1, <4>1 DEF RxAlive
    <3>2. pc[c] # "joining"
      BY <1>1
    <3> QED BY <1>1, <1>4, <1>5, <1>8, <1>9, <2>1, <2>3, <3>1, <3>2 DEF IsAnnounced
  <2> QED BY <2>2, <2>3
<1>15. Dismissed'
  <2> SUFFICES ASSUME NEW e \in registered, NEW x \in Peers, x \in known'[e] \/ InBox(e, Msg("Join", x))'
               PROVE  IsDismissed(x, e)'
    BY <1>1 DEF Dismissed
  <2>0. e \in Peers
    BY <1>10
  <2>1. CASE e # c
    <3>1. IsDismissed(x, e)
      BY <1>3, <1>9, <2>0, <2>1 DEF NewsInv, Dismissed
    <3> QED BY <1>1, <1>9, <2>0, <2>1, <3>1 DEF IsDismissed
  <2>2. CASE e = c /\ x \in hello[c]
    BY <1>1, <2>2 DEF IsDismissed
  <2>3. CASE e = c /\ x \notin hello[c]
    <3>1. x \in known[c] \/ InBox(c, Msg("Join", x))
      <4>1. m.type = "Join" /\ m.from = x => InBox(c, Msg("Join", x))
        BY <1>5, <1>11 DEF InBox
      <4> QED BY <1>4, <1>8, <2>3, <4>1
    <3>2. IsDismissed(x, c)
      BY <2>3, <3>1 DEF NewsInv, Dismissed
    <3>3. m # Msg("Left", x)
      <4> SUFFICES ASSUME m = Msg("Left", x) PROVE FALSE
        OBVIOUS
      <4>1. m.type = "Left" /\ m.from = x
        BY <1>5
      <4>2. InBox(c, Msg("Join", x))'
        BY <1>4, <2>3, <4>1
      <4>3. PICK j \in 1..Len(inbox'[c]) : inbox'[c][j] = Msg("Join", x)
        BY <4>2 DEF InBox
      <4>4. j + 1 \in 1..Len(inbox[c]) /\ inbox[c][j + 1].type = "Join" /\ inbox[c][j + 1].from = x
        BY <1>7, <4>3, MsgFacts DEF MsgType
      <4>5. j + 1 < 1
        <5>1. inbox[c][1].type = "Left" /\ inbox[c][1].from = x
          BY <4>1
        <5>2. inbox[c][j + 1].from = inbox[c][1].from /\ inbox[c][j + 1].type # "Left"
          BY <4>4, <5>1
        <5> QED BY <1>11, <4>4, <5>1, <5>2 DEF NewsInv, Ordered
      <4> QED BY <4>5
    <3> QED BY <1>1, <1>8, <1>9, <2>3, <3>2, <3>3 DEF IsDismissed
  <2> QED BY <2>1, <2>2, <2>3
<1>16. Introduced'
  <2> SUFFICES ASSUME NEW d \in Peers, NEW i \in 1..Len(inbox'[d]),
                      inbox'[d][i].type \in Talk, inbox'[d][i].from # d,
                      greeted'[d] \/ HelloBefore(d, i)'
               PROVE  IsIntroduced(inbox[d][i].from, d, i)'
    BY DEF Introduced
  <2>1. CASE d # c
    <3>1. HelloBefore(d, i)' <=> HelloBefore(d, i)
      BY <1>2, <2>1 DEF HelloBefore
    <3>2. IsIntroduced(inbox[d][i].from, d, i)
      BY <1>2, <1>3, <2>1, <3>1 DEF NewsInv, Introduced
    <3> QED BY <1>1, <1>2, <1>3, <2>1, <3>1, <3>2 DEF IsIntroduced
  <2>2. CASE d = c
    <3>1. i \in 1..Len(inbox'[c]) /\ i \in Nat /\ i + 1 \in 1..Len(inbox[c]) /\ inbox'[c][i] = inbox[c][i + 1]
      BY <1>7, <2>2
    <3> PICK k \in 1..Len(inbox[c]) : k = i + 1
      BY <3>1
    <3> DEFINE x == inbox[c][k].from
    <3>2. HelloBefore(c, i)' => HelloBefore(c, k)
      <4> SUFFICES ASSUME NEW j \in 1..Len(inbox'[c]), j < i, inbox'[c][j].type = "Hello"
                   PROVE  HelloBefore(c, k)
        BY DEF HelloBefore
      <4>1. j + 1 \in 1..Len(inbox[c]) /\ j + 1 < k /\ inbox[c][j + 1].type = "Hello"
        BY <1>7, <3>1, SMTT(30)
      <4> QED BY <4>1 DEF HelloBefore
    <3>3. m.type = "Hello" => HelloBefore(c, k)
      <4>1. 1 < k
        BY <3>1
      <4> QED BY <1>11, <4>1 DEF HelloBefore
    <3>4. IsIntroduced(x, c, k)
      BY <1>3, <2>2, <3>1, <3>2, <3>3 DEF NewsInv, Introduced
    <3>5. ~(m.type = "Left" /\ m.from = x)
      <4> SUFFICES ASSUME m.type = "Left" /\ m.from = x PROVE FALSE
        OBVIOUS
      <4>1. k < 1
        BY <1>11, <2>2, <3>1 DEF NewsInv, Ordered, Talk
      <4> QED BY <3>1, <4>1
    <3>6. ASSUME NEW j \in 1..Len(inbox[c]), j < k, j # 1
          PROVE  j - 1 \in 1..Len(inbox'[c]) /\ j - 1 < i /\ inbox'[c][j - 1] = inbox[c][j]
      <4>1. j - 1 < i
        BY <3>1, <3>6
      <4> QED BY <1>6, <3>6, <4>1
    <3>7. HelloBefore(c, k) => m.type = "Hello" \/ HelloBefore(c, i)'
      BY <3>6, SMTT(30) DEF HelloBefore
    <3>8. x \in Peers /\ inbox'[c][i].from = x
      BY <3>1, InboxFacts DEF TypeInv
    <3> HIDE DEF x
    <3>9. x \in known'[c] \/ (\E j \in 1..Len(inbox'[c]) : j < i /\ inbox'[c][j] = Msg("Join", x))
             \/ (x \in hello[c] /\ HelloBefore(c, i)')
      <4>1. CASE x \in known[c]
        BY <1>4, <3>5, <4>1
      <4>2. ASSUME NEW j \in 1..Len(inbox[c]), j < k, inbox[c][j] = Msg("Join", x)
            PROVE  <3>9
        <5>1. CASE j = 1
          BY <1>4, <1>5, <3>8, <4>2, <5>1
        <5>2. CASE j # 1
          BY <3>6, <4>2, <5>2
        <5> QED BY <5>1, <5>2
      <4>3. CASE x \in hello[c] /\ HelloBefore(c, k)
        BY <1>4, <3>7, <4>3
      <4> QED BY <3>4, <4>1, <4>2, <4>3 DEF IsIntroduced
    <3> QED BY <1>1, <2>2, <3>8, <3>9 DEF IsIntroduced
  <2> QED BY <2>1, <2>2
<1> QED BY <1>12, <1>13, <1>14, <1>15, <1>16 DEF NewsInv

\* A handler that has collected the members of a set owes its message to each.
LEMMA OwesAll ==
    ASSUME TypeOK, NEW c \in Peers, NEW S, IsFiniteSet(S), NEW order \in SetToSeqs(S),
           todo' = [todo EXCEPT ![c] = order]
    PROVE  /\ \A e \in S : Owes(c, e)'
           /\ \A d \in Peers \ {c} : \A e : Owes(d, e)' <=> Owes(d, e)
<1>1. todo'[c] = order /\ \A d \in Peers \ {c} : todo'[d] = todo[d]
  BY DEF TypeOK
<1>2. \A x \in S : \E i \in 1..Len(order) : order[i] = x
  BY OrdersAreComplete
<1> QED BY <1>1, <1>2 DEF Owes

LEMMA ConnectStep ==
    ASSUME SignalingAssumption, TypeInv, NewsInv, NEW c \in Peers, Connect(c)
    PROVE  NewsInv'
<1>1. CASE pc' = [pc EXCEPT ![c] = "refused"] /\ UNCHANGED <<registered, todo, hello>>
  <2>1. pc[c] = "new" /\ UNCHANGED <<inbox, greeted, known>>
    BY DEF Connect
  <2> QED BY <1>1, <2>1, QuietStep DEF TypeInv, TypeOK
<1>2. CASE pc' = [pc EXCEPT ![c] = "joining"] /\ registered' = registered \cup {c}
  <2>1. /\ pc[c] = "new" /\ hello' = [hello EXCEPT ![c] = registered] /\ UNCHANGED <<inbox, greeted, known>>
        /\ \E order \in SetToSeqs(registered) : todo' = [todo EXCEPT ![c] = order]
    BY <1>2 DEF Connect, TypeInv, TypeOK
  <2>2. registered \subseteq Peers /\ IsFiniteSet(registered) /\ \A d \in Peers : d \in registered <=> RxAlive(d)
    BY FS_Subset DEF SignalingAssumption, TypeInv, TypeOK, Bookkeeping
  <2>3. \A e \in registered : Owes(c, e)'
    BY <2>1, <2>2, OwesAll DEF TypeInv
  <2>4. \A d \in Peers \ {c} : \A e : Owes(d, e)' <=> Owes(d, e)
    BY <2>1, <2>2, OwesAll DEF TypeInv
  <2>5. /\ pc'[c] = "joining" /\ \A d \in Peers \ {c} : pc'[d] = pc[d]
        /\ hello'[c] = registered /\ \A d \in Peers \ {c} : hello'[d] = hello[d]
    BY <1>2, <2>1 DEF TypeInv, TypeOK
  <2>6. inbox[c] = <<>> /\ known[c] = {} /\ c \notin registered
    BY <2>1, <2>2 DEF NewsInv, Fresh, RxAlive
  <2>7. /\ \A d, n : InBox(d, n)' <=> InBox(d, n)
        /\ \A d : HelloInBox(d)' <=> HelloInBox(d)
        /\ \A d, i : HelloBefore(d, i)' <=> HelloBefore(d, i)
        /\ 1..Len(inbox[c]) = {}
    BY <2>1, <2>6 DEF InBox, HelloInBox, HelloBefore
  <2>8. Fresh'
    BY <2>1, <2>5, <2>6 DEF NewsInv, Fresh, RxAlive
  <2>9. Ordered'
    <3>1. \A d \in Peers : \A i \in 1..Len(inbox[d]) : inbox[d][i].from \in Peers
      BY InboxFacts DEF TypeInv
    <3>2. \A d \in Peers : pc[d] = "leaving" => pc'[d] = "leaving"
      BY <2>1, <2>5
    <3>3. \A d \in Peers : \A i \in 1..Len(inbox[d]) : d # c
      BY <2>7
    <3> QED BY SMTT(20), <2>1, <2>5, <3>1, <3>2, <3>3 DEF NewsInv, Ordered
  <2>10. Announced'
    <3> SUFFICES ASSUME NEW e \in registered \cup {c}, NEW d \in registered \cup {c}, e # d
                 PROVE  IsAnnounced(d, e)'
      BY <1>2 DEF Announced
    <3>1. CASE e = c
      BY <2>5, <3>1 DEF IsAnnounced
    <3>2. CASE d = c
      BY <2>3, <2>5, <3>2 DEF IsAnnounced
    <3>3. CASE e # c /\ d # c
      <4>1. IsAnnounced(d, e) /\ d \in Peers /\ e \in Peers
        BY <2>2, <3>3 DEF NewsInv, Announced
      <4> QED BY <2>1, <2>4, <2>5, <2>7, <3>3, <4>1 DEF IsAnnounced
    <3> QED BY <3>1, <3>2, <3>3
  <2>11. Dismissed'
    <3> SUFFICES ASSUME NEW e \in registered \cup {c}, NEW x \in Peers, x \in known[e] \/ InBox(e, Msg("Join", x))
                 PROVE  IsDismissed(x, e)'
      BY <1>2, <2>1, <2>7 DEF Dismissed
    <3>1. e # c
      BY <2>6, <2>7 DEF InBox
    <3>2. IsDismissed(x, e) /\ e \in Peers
      BY <2>2, <3>1 DEF NewsInv, Dismissed
    <3>3. CASE x = c
      BY <1>2, <3>3 DEF IsDismissed
    <3>4. CASE x # c
      BY <1>2, <2>4, <2>5, <2>7, <3>1, <3>2, <3>4 DEF IsDismissed
    <3> QED BY <3>3, <3>4
  <2>12. Introduced'
    <3> SUFFICES ASSUME NEW d \in Peers, NEW i \in 1..Len(inbox[d]),
                        inbox[d][i].type \in Talk, inbox[d][i].from # d,
                        greeted[d] \/ HelloBefore(d, i)
                 PROVE  IsIntroduced(inbox[d][i].from, d, i)'
      BY <2>1, <2>7 DEF Introduced
    <3>1. d # c /\ IsIntroduced(inbox[d][i].from, d, i)
      BY <2>7 DEF NewsInv, Introduced
    <3> QED BY <2>1, <2>5, <2>7, <3>1 DEF IsIntroduced
  <2> QED BY <2>8, <2>9, <2>10, <2>11, <2>12 DEF NewsInv
<1> QED BY <1>1, <1>2 DEF Connect

LEMMA CleanupStep ==
    ASSUME SignalingAssumption, TypeInv, NewsInv, NEW c \in Peers, Cleanup(c)
    PROVE  NewsInv'
<1>1. /\ pc[c] = "ended" /\ registered' = registered \ {c} /\ UNCHANGED <<greeted, hello, known>>
      /\ \E order \in SetToSeqs(registered \ {c}) : todo' = [todo EXCEPT ![c] = order]
      /\ pc' = [pc EXCEPT ![c] = "leaving"] /\ inbox' = [inbox EXCEPT ![c] = <<>>]
  BY DEF Cleanup, clientVars
<1>2. registered \subseteq Peers /\ IsFiniteSet(registered \ {c})
  BY FS_Subset DEF SignalingAssumption, TypeInv, TypeOK
<1>3. \A e \in registered \ {c} : Owes(c, e)'
  BY <1>1, <1>2, OwesAll DEF TypeInv
<1>4. \A d \in Peers \ {c} : \A e : Owes(d, e)' <=> Owes(d, e)
  BY <1>1, <1>2, OwesAll DEF TypeInv
<1>5. /\ pc'[c] = "leaving" /\ \A d \in Peers \ {c} : pc'[d] = pc[d]
      /\ inbox'[c] = <<>> /\ \A d \in Peers \ {c} : inbox'[d] = inbox[d]
  BY <1>1 DEF TypeInv, TypeOK
<1>6. 1..Len(inbox'[c]) = {}
  BY <1>5
<1>7. /\ \A d \in Peers \ {c} : \A n : InBox(d, n)' <=> InBox(d, n)
      /\ \A d \in Peers \ {c} : HelloInBox(d)' <=> HelloInBox(d)
      /\ \A d \in Peers \ {c} : \A i : HelloBefore(d, i)' <=> HelloBefore(d, i)
  BY <1>5 DEF InBox, HelloInBox, HelloBefore
<1>8. Fresh'
  BY <1>1, <1>5 DEF NewsInv, Fresh, RxAlive
<1>9. Ordered'
  <2>1. \A d \in Peers : \A i \in 1..Len(inbox[d]) : inbox[d][i].from \in Peers
    BY InboxFacts DEF TypeInv
  <2>2. \A d \in Peers : pc[d] = "leaving" => pc'[d] = "leaving"
    BY <1>1, <1>5
  <2>3. \A d \in Peers : \A i \in 1..Len(inbox'[d]) : d # c
    BY <1>6
  <2> QED BY <1>5, <2>1, <2>2, <2>3, SMTT(30) DEF NewsInv, Ordered
<1>10. Announced'
  <2> SUFFICES ASSUME NEW e \in registered \ {c}, NEW d \in registered \ {c}, e # d
               PROVE  IsAnnounced(d, e)'
    BY <1>1 DEF Announced
  <2>1. IsAnnounced(d, e) /\ d \in Peers \ {c} /\ e \in Peers \ {c}
    BY <1>2 DEF NewsInv, Announced
  <2> QED BY <1>1, <1>4, <1>5, <1>7, <2>1 DEF IsAnnounced
<1>11. Dismissed'
  <2> SUFFICES ASSUME NEW e \in registered \ {c}, NEW x \in Peers, x \in known[e] \/ InBox(e, Msg("Join", x))'
               PROVE  IsDismissed(x, e)'
    BY <1>1 DEF Dismissed
  <2>1. IsDismissed(x, e) /\ e \in Peers \ {c}
    BY <1>2, <1>7 DEF NewsInv, Dismissed
  <2>2. CASE x = c
    BY <1>3, <1>5, <2>2 DEF IsDismissed
  <2>3. CASE x # c
    BY <1>1, <1>4, <1>5, <1>7, <2>1, <2>3 DEF IsDismissed
  <2> QED BY <2>2, <2>3
<1>12. Introduced'
  <2> SUFFICES ASSUME NEW d \in Peers, NEW i \in 1..Len(inbox'[d]),
                      inbox'[d][i].type \in Talk, inbox'[d][i].from # d,
                      greeted[d] \/ HelloBefore(d, i)'
               PROVE  IsIntroduced(inbox[d][i].from, d, i)'
    BY <1>1 DEF Introduced
  <2>1. d # c
    BY <1>6
  <2>2. IsIntroduced(inbox[d][i].from, d, i)
    BY <1>5, <1>7, <2>1 DEF NewsInv, Introduced
  <2> QED BY <1>1, <1>5, <1>7, <2>1, <2>2 DEF IsIntroduced
<1> QED BY <1>8, <1>9, <1>10, <1>11, <1>12 DEF NewsInv

LEMMA NewsInit == ASSUME Init PROVE NewsInv
<1>1. Fresh /\ Ordered /\ Introduced
  BY DEF Init, Fresh, Ordered, Introduced
<1>2. Announced /\ Dismissed
  BY DEF Init, Announced, Dismissed
<1> QED BY <1>1, <1>2 DEF NewsInv

LEMMA NewsStep == ASSUME SignalingAssumption, TypeInv, NewsInv, [Next]_vars PROVE NewsInv'
<1> DEFINE Quiet == /\ UNCHANGED <<registered, todo, inbox, greeted, hello, known>>
                    /\ \A c \in Peers : pc'[c] = pc[c] \/ (pc[c] = "running" /\ pc'[c] = "ended")
<1>1. Quiet => NewsInv'
  BY QuietStep DEF TypeInv
<1>2. CASE UNCHANGED vars \/ HourPasses
  BY <1>1, <1>2 DEF HourPasses, vars, serverVars, clientVars
<1>3. ASSUME NEW c \in Peers, HandlerStep(c) \/ Connect(c) \/ Deliver(c) PROVE NewsInv'
  BY <1>3, SendJoinStep, SendHelloStep, CleanupStep, SendLeftStep, ConnectStep, DeliverStep DEF HandlerStep
<1>4. ASSUME NEW c \in Peers, RecvStep(c) \/ ClientCloses(c) PROVE NewsInv'
  <2>1. CASE SendOut(c)
    BY <2>1, SendOutStep
  <2>2. CASE TaskEnds(c)
    BY <1>1, <2>2 DEF TaskEnds, clientVars, TypeInv, TypeOK
  <2>3. CASE ClientCloses(c)
    BY <1>1, <2>3 DEF ClientCloses, serverVars
  <2> QED BY <1>4, <2>1, <2>2, <2>3 DEF RecvStep
<1>5. ASSUME NEW c \in Peers, NEW target \in Peers, NEW kind \in Kinds, ClientSends(c, kind, target)
      PROVE  NewsInv'
  BY <1>1, <1>5 DEF ClientSends
<1> QED BY <1>2, <1>3, <1>4, <1>5 DEF Next

\* Whatever the order in which connections come, send and go, and however full their
\* queues are: a client that no news is on its way to has exactly the right list,
\* and nobody unknown to a client calls it.
THEOREM ListsAreRight == Spec => []ListsOfPeersAreRight
<1> USE SignalingAssumption
<1>1. Init => TypeInv /\ NewsInv
  BY TypeInit, NewsInit
<1>2. TypeInv /\ NewsInv /\ [Next]_vars => TypeInv' /\ NewsInv'
  BY TypeStep, NewsStep
<1>3. ASSUME TypeInv, NewsInv PROVE ListsOfPeersAreRight
  <2>1. ASSUME NEW c \in Peers, Settled(c), NEW d \in registered \ {c} PROVE d \in known[c]
    <3>1. c \in registered /\ d \in registered /\ d \in Peers /\ pc[c] = "running" /\ 1..Len(inbox[c]) = {}
      BY <1>3, <2>1 DEF TypeInv, TypeOK, Bookkeeping, RxAlive, Settled
    <3>2. IsAnnounced(d, c)
      BY <1>3, <2>1, <3>1 DEF NewsInv, Announced
    <3>3. ~Owes(d, c)
      BY <2>1, <3>1 DEF Settled, Owes
    <3> QED BY <3>1, <3>2, <3>3 DEF IsAnnounced, InBox, HelloInBox
  <2>2. ASSUME NEW c \in Peers, Settled(c), NEW d \in known[c] PROVE d \in registered \cup hello[c]
    <3>1. c \in registered /\ d \in Peers /\ 1..Len(inbox[c]) = {}
      BY <1>3, <2>2 DEF TypeInv, TypeOK, Bookkeeping, RxAlive, Settled
    <3>2. IsDismissed(d, c)
      BY <1>3, <2>2, <3>1 DEF NewsInv, Dismissed
    <3>3. ~Owes(d, c)
      BY <2>2, <3>1 DEF Settled, Owes
    <3> QED BY <3>1, <3>2, <3>3 DEF IsDismissed, InBox
  <2>3. ASSUME NEW c \in Peers, greeted[c], inbox[c] # <<>>,
               Head(inbox[c]).type \in Talk, Head(inbox[c]).from # c
        PROVE  Head(inbox[c]).from \in known[c]
    <3>1. inbox[c] \in Seq(Message)
      BY <1>3, InboxFacts DEF TypeInv
    <3>2. Head(inbox[c]) = inbox[c][1] /\ Len(inbox[c]) \in Nat \ {0}
      BY <2>3, <3>1, HeadTailProperties, EmptySeq
    <3>3. 1 \in 1..Len(inbox[c])
      BY <3>2
    <3>4. IsIntroduced(inbox[c][1].from, c, 1)
      BY <1>3, <2>3, <3>2, <3>3 DEF NewsInv, Introduced
    <3>5. \A j \in 1..Len(inbox[c]) : ~(j < 1)
      BY <3>2
    <3> QED BY <3>2, <3>4, <3>5 DEF IsIntroduced, HelloBefore
  <2>4. NobodyMissing
    BY <2>1 DEF NobodyMissing
  <2>5. NewcomersAreForgotten
    BY <2>2 DEF NewcomersAreForgotten
  <2>6. StrangersDoNotCall
    BY <2>3 DEF StrangersDoNotCall, Talk
  <2> QED BY <2>4, <2>5, <2>6 DEF ListsOfPeersAreRight
<1>4. TypeInv /\ NewsInv => ListsOfPeersAreRight
  BY <1>3
<1> QED BY <1>1, <1>2, <1>4, PTL DEF Spec

===============================================================================
