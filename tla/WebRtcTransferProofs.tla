------------------------- MODULE WebRtcTransferProofs -------------------------
(***************************************************************************)
(* Nothing leaks before both tokens, both PINs and the choice allow it, and *)
(* files and answers stay whole: proofs of NothingLeaks, TypeOK and         *)
(* FilesStayWhole for any files, chunks, PINs, tries, expected keys and     *)
(* faults, and any capacity of the receive streams.                         *)
(*                                                                          *)
(* Until the first file the two tasks take turns: at any time one of them   *)
(* acts, or one message is under way, or the session is stuck.  Before and  *)
(* After name the combinations of program counters and messages that can    *)
(* occur, with what has been checked in each.                               *)
(*                                                                          *)
(* From the first file on many messages are under way.  The line is what R  *)
(* has dealt with last followed by its stream and the wire; each message of *)
(* it follows the one before (Follows), and what S sends next follows the   *)
(* last one (ToFeed).  A step only adds to the line, takes from it or cuts  *)
(* it off, so the file at hand is complete when the next text comes.        *)
(***************************************************************************)
EXTENDS WebRtcTransfer, SequenceTheorems, TLAPS

-----------------------------------------------------------------------------
(* Messages under way *)

Empty(s) == inbox[s] = <<>> /\ wire[s] = <<>>

\* m was sent to s and nothing else: it is in the stream or on the wire, or was lost.
One(s, m) ==
    \/ Empty(s)
    \/ inbox[s] = <<>> /\ wire[s] = <<m>>
    \/ inbox[s] = <<m>> /\ wire[s] = <<>>

\* The same for a message that ends with a delimiter.
Two(s, m) ==
    \/ Empty(s)
    \/ inbox[s] = <<>> /\ wire[s] = <<m, Delim>>
    \/ inbox[s] = <<m>> /\ wire[s] = <<Delim>>
    \/ inbox[s] = <<m, Delim>> /\ wire[s] = <<>>
    \/ inbox[s] = <<m>> /\ wire[s] = <<>>

-----------------------------------------------------------------------------
(* What has been checked *)

BothNonces == <<"nS", "nR">>
TokenOf(s) == [key |-> s, nonce |-> BothNonces]
Agreed == nonce["S"] = BothNonces /\ nonce["R"] = BothNonces
ReceiverTrusts == expect["R"] # None => expect["R"] = "S"
SenderTrusts == expect["S"] # None => expect["S"] = "R"
Known == Agreed /\ ReceiverTrusts /\ SenderTrusts
ReceiversPinPassed == pinOf["R"] = None \/ typed["S"] = pinOf["R"]
SendersPinPassed == pinOf["S"] = None \/ typed["R"] = pinOf["S"]

Checked == Known /\ ReceiversPinPassed /\ SendersPinPassed

At(a, b) == pc["S"] \in a /\ pc["R"] \in b

-----------------------------------------------------------------------------
(* The stages of a session *)

Asking == {"ask", "slot", "user"}

Opening ==
    \/ At({"open"}, {"nonce"}) /\ Empty("S") /\ Empty("R")
    \/ At({"nonce"}, {"nonce"}) /\ Empty("S") /\ One("R", M("nonce", "nS"))
    \/ /\ At({"nonce"}, {"token"}) /\ One("S", M("nonce", "nR")) /\ Empty("R")
       /\ nonce["R"] = BothNonces
    \/ At({"trust"}, {"token"}) /\ Empty("S") /\ One("R", M("token", TokenOf("S"))) /\ Agreed
    \/ /\ At({"trust"}, {"files"}) /\ One("S", M("tokenOk", TokenOf("R"))) /\ Empty("R")
       /\ Agreed /\ ReceiverTrusts /\ pinOf["R"] = None
    \/ /\ At({"trust"}, {"verify"}) /\ One("S", M("tokenPin", TokenOf("R"))) /\ Empty("R")
       /\ Agreed /\ ReceiverTrusts

ReceiversPin ==
    /\ Known
    /\ \/ At(Asking, {"verify"}) /\ Empty("S") /\ Empty("R")
       \/ At({"reply"}, {"verify"}) /\ Empty("S") /\ One("R", M("pin", typed["S"]))
       \/ At({"reply"}, {"verify"}) /\ One("S", M("pinAgain", None)) /\ Empty("R")
       \/ /\ At({"reply"}, {"files"}) /\ One("S", M("pinOk", None)) /\ Empty("R")
          /\ ReceiversPinPassed

SendersPin ==
    /\ Known /\ ReceiversPinPassed
    /\ \/ At({"verify"}, {"files", "reply"}) /\ Empty("S") /\ Two("R", M("askPin", None))
       \/ At({"verify"}, Asking) /\ Empty("S") /\ Empty("R")
       \/ At({"verify"}, {"reply"}) /\ One("S", M("pin", typed["R"])) /\ Empty("R")

Passed ==
    /\ Checked
    /\ \/ At({"list"}, {"files", "reply"}) /\ Empty("S") /\ Empty("R")
       \/ At({"selected"}, {"files", "reply"}) /\ Empty("S") /\ Two("R", M("files", None))

\* One side has given up before the list was shown; the other one can read its last
\* message, and waits for ever.
GivenUp ==
    \/ /\ At({"err", "tooMany"},
             {"nonce", "token", "verify", "files", "ask", "slot", "user", "reply", "err"})
       /\ Two("R", M("tooMany", None)) /\ (Empty("R") \/ pc["R"] = "reply")
    \/ /\ At({"nonce", "trust", "reply", "verify", "err"}, {"rejecting", "tooMany", "err"})
       /\ \/ Empty("S")
          \/ pc["S"] = "trust" /\ One("S", M("tokenInvalid", None))
          \/ pc["S"] = "reply" /\ One("S", M("pinTooMany", None))

NothingYet == ~listed /\ tokens["S"] = {} /\ \A f \in Files : fed[f] = None
NoTooMany == \A s \in Sides : "TooManyAttempts" \notin shown[s]

Before ==
    /\ NothingYet
    /\ GivenUp \/ (NoTooMany /\ (Opening \/ ReceiversPin \/ SendersPin \/ Passed))

\* S has the tokens; what follows is about files.
Filing == At({"send", "flush", "last", "ok", "err"}, {"receive", "result", "drain", "ok", "err"})

After ==
    /\ listed /\ Checked /\ NoTooMany
    /\ \/ /\ At({"selected"}, {"choose"}) /\ Empty("S") /\ Empty("R")
          /\ tokens["S"] = {} /\ \A f \in Files : fed[f] = None
       \/ /\ At({"selected"}, {"receive", "ok", "err"}) /\ Empty("R")
          /\ \/ Two("S", M("tokens", tokens["R"])) /\ pc["R"] # "ok"
             \/ Two("S", M("declined", None))
          /\ tokens["S"] = {} /\ \A f \in Files : fed[f] = None
       \/ /\ Filing
          /\ tokens["S"] \subseteq tokens["R"]
          /\ \A f \in Files : fed[f] # None => f \in tokens["S"]

Tables ==
    /\ DOMAIN pc = Sides /\ DOMAIN wire = Sides /\ DOMAIN inbox = Sides
    /\ DOMAIN nonce = Sides /\ DOMAIN typed = Sides /\ DOMAIN tokens = Sides
    /\ DOMAIN shown = Sides /\ DOMAIN fed = Files
    /\ feeding = None \/ feeding \in tokens["S"]

HInv == Tables /\ (Before \/ After)

\* The invariant says what the property says.
LEMMA InvariantSuffices == HInv => NothingLeaks
<1> SUFFICES ASSUME HInv PROVE NothingLeaks
  OBVIOUS
<1>1. PinBeforeFiles
  BY DEF HInv, Before, After, NothingYet, NoTooMany, Checked, ReceiversPinPassed, SendersPinPassed, PinBeforeFiles
<1>2. StrangersSeeNothing
  BY DEF HInv, Before, After, NothingYet, Checked, Known, Agreed, SenderTrusts, ReceiverTrusts, StrangersSeeNothing
<1>3. OnlyChosenFilesLeave
  BY DEF HInv, Before, After, NothingYet, OnlyChosenFilesLeave
<1> QED BY <1>1, <1>2, <1>3 DEF NothingLeaks

LEMMA InvariantInit == Init => HInv
BY DEF Init, HInv, Tables, Before, NothingYet, NoTooMany, Opening, At, Empty, Sides


-----------------------------------------------------------------------------
(* Every step keeps the invariant *)

control == <<setup, pc, nonce, typed, tokens, listed, fed, feeding>>

\* What is under way may have been delivered or lost, nothing was sent.
FlowsKept ==
    \A s \in Sides : /\ Empty(s) => Empty(s)'
                     /\ \A m : One(s, m) => One(s, m)'
                     /\ \A m : Two(s, m) => Two(s, m)'

\* Neither task moves: the stage stays what it is.
LEMMA StageStays ==
    ASSUME UNCHANGED control, FlowsKept
    PROVE  /\ Opening => Opening'
           /\ ReceiversPin => ReceiversPin'
           /\ SendersPin => SendersPin'
           /\ Passed => Passed'
           /\ GivenUp => GivenUp'
           /\ Checked => Checked'
<1> USE DEF control
<1>1. pinOf' = pinOf /\ expect' = expect
  BY DEF pinOf, expect
<1>2. (Known => Known') /\ (ReceiverTrusts => ReceiverTrusts') /\ (Agreed => Agreed')
  BY <1>1 DEF Known, ReceiverTrusts, SenderTrusts, Agreed
<1>3. (ReceiversPinPassed => ReceiversPinPassed') /\ (SendersPinPassed => SendersPinPassed')
  BY <1>1 DEF ReceiversPinPassed, SendersPinPassed
<1>4. \A a, b : At(a, b) => At(a, b)'
  BY DEF At
<1>5. \A s \in {"S", "R"} : /\ Empty(s) => Empty(s)'
                            /\ \A m : (One(s, m) => One(s, m)') /\ (Two(s, m) => Two(s, m)')
  BY DEF FlowsKept, Sides
<1>6. Opening => Opening'
  BY <1>1, <1>2, <1>4, <1>5 DEF Opening
<1>7. ReceiversPin => ReceiversPin'
  BY <1>2, <1>3, <1>4, <1>5 DEF ReceiversPin
<1>8. SendersPin => SendersPin'
  BY <1>2, <1>3, <1>4, <1>5 DEF SendersPin
<1>9. Passed => Passed'
  BY <1>2, <1>3, <1>4, <1>5 DEF Passed, Checked
<1>10. GivenUp => GivenUp'
  BY <1>4, <1>5 DEF GivenUp
<1> QED BY <1>2, <1>3, <1>6, <1>7, <1>8, <1>9, <1>10 DEF Checked

LEMMA InvariantStays ==
    ASSUME HInv, UNCHANGED control, FlowsKept, Tables', NoTooMany => NoTooMany'
    PROVE  HInv'
<1>1. Before => Before'
  BY StageStays DEF Before, NothingYet, control
<1>2. After => After'
  <2>1. Checked => Checked'
    BY StageStays
  <2>2. \A s \in {"S", "R"} : /\ Empty(s) => Empty(s)'
                              /\ \A m : Two(s, m) => Two(s, m)'
    BY DEF FlowsKept, Sides
  <2> QED BY <2>1, <2>2 DEF After, Filing, At, control
<1> QED BY <1>1, <1>2 DEF HInv

\* Only statuses change, and TooManyAttempts is not among them.
LEMMA OthersKeep ==
    ASSUME HInv, UNCHANGED <<control, wire, inbox>>,
           shown' = shown \/ \E s \in Sides, st \in Status \ {"TooManyAttempts"} : Show(s, st)
    PROVE  HInv'
<1>1. Tables'
  BY DEF HInv, Tables, Show, control
<1>2. NoTooMany => NoTooMany'
  BY DEF HInv, Tables, Show, NoTooMany
<1>3. FlowsKept
  BY DEF FlowsKept, Empty, One, Two
<1> QED BY <1>1, <1>2, <1>3, InvariantStays DEF control

LEMMA OuterKeeps == ASSUME HInv, OuterStep PROVE HInv'
<1> USE DEF control, users, sending, Status, Sides
<1>1. CASE AnswerOffer
  BY <1>1, OthersKeep DEF AnswerOffer
<1>2. CASE AnswerSent \/ AnswerArrives
  BY <1>2, OthersKeep DEF AnswerSent, AnswerArrives
<1>3. CASE \E s \in Sides : TaskDone(s) \/ TaskFailed(s) \/ ConnectionDone(s)
  BY <1>3, OthersKeep DEF TaskDone, TaskFailed, ConnectionDone
<1> QED BY <1>1, <1>2, <1>3 DEF OuterStep

LEMMA AppendPair == ASSUME NEW a, NEW b PROVE Append(<<a>>, b) = <<a, b>>
<1> DEFINE q == Append(<<a>>, b)
<1>1. <<a>> \in Seq({a, b}) /\ <<a, b>> \in Seq({a, b})
  OBVIOUS
<1>2. q \in Seq({a, b}) /\ Len(q) = 2 /\ q[1] = a /\ q[2] = b
  BY <1>1
<1>3. Len(<<a, b>>) = 2 /\ \A i \in 1..2 : i = 1 \/ i = 2
  OBVIOUS
<1> HIDE DEF q
<1>4. \A i \in 1..Len(q) : q[i] = <<a, b>>[i]
  BY <1>2, <1>3
<1>5. q = <<a, b>>
  BY <1>1, <1>2, <1>3, <1>4, SeqEqual
<1> QED BY <1>5 DEF q

\* A message moves from the wire into the stream.
LEMMA DeliverKeeps == ASSUME HInv, NEW s \in Sides, Deliver(s) PROVE HInv'
<1>1. /\ inbox'[s] = Append(inbox[s], Head(wire[s])) /\ wire'[s] = Tail(wire[s]) /\ wire[s] # <<>>
      /\ \A t \in Sides \ {s} : UNCHANGED <<inbox[t], wire[t]>>
      /\ DOMAIN inbox' = Sides /\ DOMAIN wire' = Sides
  BY DEF Deliver, HInv, Tables
<1>2. ~Empty(s)
  BY <1>1 DEF Empty
<1>3. ASSUME NEW m, One(s, m) PROVE One(s, m)'
  <2>1. inbox[s] = <<>> /\ wire[s] = <<m>>
    BY <1>1, <1>3 DEF One, Empty
  <2>2. inbox'[s] = <<m>> /\ wire'[s] = <<>>
    BY <1>1, <2>1
  <2> QED BY <2>2 DEF One
<1>4. ASSUME NEW m, Two(s, m) PROVE Two(s, m)'
  <2>1. CASE inbox[s] = <<>> /\ wire[s] = <<m, Delim>>
    <3>1. inbox'[s] = <<m>> /\ wire'[s] = <<Delim>>
      BY <1>1, <2>1
    <3> QED BY <3>1 DEF Two
  <2>2. CASE inbox[s] = <<m>> /\ wire[s] = <<Delim>>
    <3>1. Head(wire[s]) = Delim /\ Tail(wire[s]) = <<>>
      BY <2>2
    <3>2. Append(<<m>>, Delim) = <<m, Delim>>
      BY AppendPair
    <3>3. inbox'[s] = <<m, Delim>> /\ wire'[s] = <<>>
      BY <1>1, <2>2, <3>1, <3>2
    <3> QED BY <3>3 DEF Two
  <2> QED BY <1>1, <1>4, <2>1, <2>2 DEF Two, Empty
<1>5. FlowsKept
  BY <1>1, <1>2, <1>3, <1>4, ZenonT(40) DEF FlowsKept, One, Two, Empty
<1>6. UNCHANGED <<control, shown>>
  BY DEF Deliver, control, users, sending
<1> QED BY <1>1, <1>5, <1>6, InvariantStays DEF control, HInv, Tables, NoTooMany

\* What is on the wires is lost.
LEMMA DisconnectedKeeps == ASSUME HInv, NEW s \in Sides, Disconnected(s) PROVE HInv'
<1>1. wire' = [t \in Sides |-> <<>>] /\ UNCHANGED <<inbox, control, shown>>
  BY DEF Disconnected, control, users, sending
<1>2. FlowsKept
  BY <1>1 DEF FlowsKept, One, Two, Empty
<1> QED BY <1>1, <1>2, InvariantStays DEF control, HInv, Tables, NoTooMany

-----------------------------------------------------------------------------
(* Taking and sending a message *)

Apart(s, t) == (s = "S" /\ t = "R") \/ (s = "R" /\ t = "S")

LEMMA TakesOne ==
    ASSUME Tables, NEW s, NEW t, Apart(s, t), NEW p, NEW x, Takes(s, p, x),
           NEW m, One(s, m)
    PROVE  /\ x = m /\ pc[s] = p /\ ~Empty(s) /\ wire[s] = <<>> /\ inbox'[s] = <<>>
           /\ inbox'[t] = inbox[t] /\ DOMAIN inbox' = Sides
<1>1. /\ x \in Oldest(s) /\ pc[s] = p /\ inbox[s] # <<>> /\ inbox'[s] = Tail(inbox[s])
      /\ inbox'[t] = inbox[t] /\ DOMAIN inbox' = Sides
  BY DEF Takes, Oldest, Tables, Apart, Sides
<1>2. inbox[s] = <<m>> /\ wire[s] = <<>>
  BY <1>1 DEF One, Empty
<1>3. Head(<<m>>) = m /\ Tail(<<m>>) = <<>>
  OBVIOUS
<1> QED BY <1>1, <1>2, <1>3 DEF Oldest, Empty

\* Nothing can be taken where nothing is.
LEMMA TakesSomething ==
    /\ \A s, p, x : Takes(s, p, x) => pc[s] = p /\ ~Empty(s)
    /\ \A s, p, x : TakesChunks(s, p, x) => pc[s] = p /\ ~Empty(s)
BY DEF Takes, TakesChunks, Oldest, Empty

LEMMA TakesTwo ==
    ASSUME Tables, NEW s, NEW t, Apart(s, t), NEW p, NEW x, TakesChunks(s, p, x),
           NEW m, Two(s, m)
    PROVE  /\ x = m /\ wire[s] = <<>> /\ inbox'[s] = <<>>
           /\ inbox'[t] = inbox[t] /\ DOMAIN inbox' = Sides
<1>1. /\ x \in Oldest(s) /\ inbox[s] # <<>> /\ inbox'[s] = Tail(Tail(inbox[s]))
      /\ inbox'[t] = inbox[t] /\ DOMAIN inbox' = Sides /\ Len(inbox[s]) > 1
  BY DEF TakesChunks, Oldest, Tables, Apart, Sides
<1>2. Len(<<m>>) = 1 /\ Head(<<m, Delim>>) = m /\ Tail(Tail(<<m, Delim>>)) = <<>>
  OBVIOUS
<1>3. inbox[s] = <<m, Delim>> /\ wire[s] = <<>>
  <2>1. PICK n : n = Len(inbox[s]) /\ n > 1
    BY <1>1
  <2>2. ASSUME inbox[s] = <<m>> PROVE FALSE
    <3>1. n = 1
      BY <1>2, <2>1, <2>2, Zenon
    <3> QED BY <2>1, <3>1
  <2> QED BY <1>1, <2>2, Zenon DEF Two, Empty
<1> QED BY <1>1, <1>2, <1>3 DEF Oldest

\* Where nothing is under way, the message sent is all there is afterwards.
LEMMA SendsOne ==
    ASSUME Tables, NEW s, NEW t, Apart(s, t), NEW m, NEW next, Send(s, <<m>>, next),
           Empty(t), inbox'[t] = inbox[t]
    PROVE  /\ pc'[t] = pc[t] /\ wire'[s] = wire[s] /\ DOMAIN pc' = Sides /\ DOMAIN wire' = Sides
           /\ (pc'[s] = next /\ One(t, m)') \/ (pc'[s] = "err" /\ Empty(t)')
<1>1. s \in Sides /\ t \in Sides /\ s # t /\ Peer(s) = t
  BY DEF Apart, Sides, Peer
<1>2. <<>> \o <<m>> = <<m>>
  OBVIOUS
<1>3. CASE Up
  <2>1. wire'[t] = wire[t] \o <<m>> /\ pc'[s] = next
    BY <1>1, <1>3 DEF Send, Tables
  <2>2. wire'[t] = <<m>>
    BY <1>2, <2>1 DEF Empty
  <2> QED BY <1>1, <1>3, <2>1, <2>2 DEF Send, Tables, One, Empty
<1>4. CASE ~Up
  BY <1>1, <1>4 DEF Send, Tables, One, Empty
<1> QED BY <1>3, <1>4

LEMMA SendsTwo ==
    ASSUME Tables, NEW s, NEW t, Apart(s, t), NEW m, NEW next, Send(s, <<m, Delim>>, next),
           Empty(t), inbox'[t] = inbox[t]
    PROVE  /\ pc'[t] = pc[t] /\ wire'[s] = wire[s] /\ DOMAIN pc' = Sides /\ DOMAIN wire' = Sides
           /\ (pc'[s] = next /\ Two(t, m)') \/ (pc'[s] = "err" /\ Empty(t)')
<1>1. s \in Sides /\ t \in Sides /\ s # t /\ Peer(s) = t
  BY DEF Apart, Sides, Peer
<1>2. <<>> \o <<m, Delim>> = <<m, Delim>>
  OBVIOUS
<1>3. CASE Up
  <2>1. wire'[t] = wire[t] \o <<m, Delim>> /\ pc'[s] = next
    BY <1>1, <1>3 DEF Send, Tables
  <2>2. wire'[t] = <<m, Delim>>
    BY <1>2, <2>1 DEF Empty
  <2> QED BY <1>1, <1>3, <2>1, <2>2 DEF Send, Tables, Two, Empty
<1>4. CASE ~Up
  BY <1>1, <1>4 DEF Send, Tables, Two, Empty
<1> QED BY <1>3, <1>4

\* A task that moves without sending.
LEMMA Moves ==
    ASSUME Tables, NEW s, NEW t, Apart(s, t), NEW next, Goto(s, next)
    PROVE  /\ pc'[s] = next /\ pc'[t] = pc[t] /\ wire'[s] = wire[s] /\ wire'[t] = wire[t]
           /\ DOMAIN pc' = Sides /\ DOMAIN wire' = Sides
BY DEF Goto, Tables, Apart, Sides

LEMMA KnownStays ==
    ASSUME UNCHANGED <<setup, nonce>>
    PROVE  /\ pinOf' = pinOf /\ expect' = expect
           /\ (Agreed => Agreed') /\ (ReceiverTrusts => ReceiverTrusts') /\ (Known => Known')
           /\ \A s : TokenOf(s)' = TokenOf(s)
BY DEF pinOf, expect, Agreed, ReceiverTrusts, SenderTrusts, Known, TokenOf, BothNonces

LEMMA PinsStay ==
    ASSUME UNCHANGED <<setup, typed>>
    PROVE  (ReceiversPinPassed => ReceiversPinPassed') /\ (SendersPinPassed => SendersPinPassed')
BY DEF pinOf, ReceiversPinPassed, SendersPinPassed

-----------------------------------------------------------------------------
(* Nonce and token *)

\* Before the list nothing changes but the program counters and the messages.
LEMMA NothingStays ==
    ASSUME NothingYet, UNCHANGED <<tokens, listed, fed>> PROVE NothingYet'
BY DEF NothingYet

LEMMA OpenChannelKeeps == ASSUME HInv, OpenChannel PROVE HInv'
<1>1. /\ pc["R"] = "nonce" /\ Empty("S") /\ Empty("R") /\ NothingYet /\ NoTooMany /\ Tables
      /\ pc["S"] = "open"
  BY DEF OpenChannel, HInv, Before, After, GivenUp, Opening, ReceiversPin, SendersPin, Passed, Filing, At, Asking
<1>2. /\ Send("S", <<M("nonce", "nS")>>, "nonce")
      /\ UNCHANGED <<setup, inbox, shown, nonce, typed, tokens, listed, fed, feeding>>
  BY DEF OpenChannel, users, sending
<1>3. /\ pc'["R"] = pc["R"] /\ wire'["S"] = wire["S"] /\ DOMAIN pc' = Sides /\ DOMAIN wire' = Sides
      /\ (pc'["S"] = "nonce" /\ One("R", M("nonce", "nS"))') \/ (pc'["S"] = "err" /\ Empty("R")')
  BY <1>1, <1>2, SendsOne DEF Apart
<1>4. Tables' /\ NothingYet' /\ NoTooMany' /\ Empty("S")'
  BY <1>1, <1>2, <1>3, NothingStays DEF Tables, NoTooMany, Empty
<1>5. Opening' \/ GivenUp'
  BY <1>1, <1>3, <1>4 DEF Opening, GivenUp, At, Two
<1> QED BY <1>4, <1>5 DEF HInv, Before

\* Statuses other than TooManyAttempts.
LEMMA ShowsKeep ==
    ASSUME Tables, shown' = shown \/ \E s \in Sides, st \in Status \ {"TooManyAttempts"} : Show(s, st)
    PROVE  (NoTooMany => NoTooMany') /\ DOMAIN shown' = Sides
BY DEF Tables, NoTooMany, Show, Sides

LEMMA ReceiveNonceKeeps == ASSUME HInv, ReceiveNonce PROVE HInv'
<1> DEFINE m == M("nonce", "nS")
<1>0. M("nonce", "nS").val = "nS"
  BY DEF M
<1>1. Takes("R", "nonce", m) /\ nonce' = [nonce EXCEPT !["R"] = BothNonces]
      /\ Send("R", <<M("nonce", "nR")>>, "token")
      /\ UNCHANGED <<setup, shown, typed, tokens, listed, fed, feeding>>
  BY <1>0 DEF ReceiveNonce, users, sending, BothNonces
<1> HIDE DEF m
<1>2. pc["R"] = "nonce" /\ ~Empty("R")
  BY <1>1, TakesSomething
<1>3. /\ pc["S"] = "nonce" /\ Empty("S") /\ One("R", M("nonce", "nS")) /\ NothingYet /\ NoTooMany
      /\ Tables
  BY <1>2 DEF HInv, Before, After, GivenUp, Opening, ReceiversPin, SendersPin, Passed, Filing, At, Asking
<1>4. wire["R"] = <<>> /\ inbox'["R"] = <<>> /\ inbox'["S"] = inbox["S"] /\ DOMAIN inbox' = Sides
  BY <1>1, <1>3, TakesOne DEF Apart
<1>5. /\ pc'["S"] = pc["S"] /\ wire'["R"] = wire["R"] /\ DOMAIN pc' = Sides /\ DOMAIN wire' = Sides
      /\ (pc'["R"] = "token" /\ One("S", M("nonce", "nR"))') \/ (pc'["R"] = "err" /\ Empty("S")')
  BY <1>1, <1>3, <1>4, SendsOne DEF Apart
<1>6. Tables' /\ NothingYet' /\ NoTooMany' /\ Empty("R")' /\ nonce'["R"] = BothNonces
  BY <1>1, <1>3, <1>4, <1>5, NothingStays DEF Tables, NoTooMany, Empty, Sides
<1>7. Opening' \/ GivenUp'
  BY <1>3, <1>5, <1>6 DEF Opening, GivenUp, At
<1> QED BY <1>6, <1>7 DEF HInv, Before

LEMMA SendTokenKeeps == ASSUME HInv, SendToken PROVE HInv'
<1> DEFINE m == M("nonce", "nR")
<1>0. M("nonce", "nR").val = "nR"
  BY DEF M
<1>1. Takes("S", "nonce", m) /\ nonce' = [nonce EXCEPT !["S"] = BothNonces]
      /\ Send("S", <<M("token", [key |-> "S", nonce |-> nonce'["S"]])>>, "trust")
      /\ UNCHANGED <<setup, shown, typed, tokens, listed, fed, feeding>>
  BY <1>0 DEF SendToken, users, sending, BothNonces
<1> HIDE DEF m
<1>2. pc["S"] = "nonce" /\ ~Empty("S")
  BY <1>1, TakesSomething
<1>3. /\ pc["R"] = "token" /\ Empty("R") /\ One("S", M("nonce", "nR")) /\ NothingYet /\ NoTooMany
      /\ Tables /\ nonce["R"] = BothNonces
  BY <1>2 DEF HInv, Before, After, GivenUp, Opening, ReceiversPin, SendersPin, Passed, Filing, At, Asking
<1>4. wire["S"] = <<>> /\ inbox'["S"] = <<>> /\ inbox'["R"] = inbox["R"] /\ DOMAIN inbox' = Sides
  BY <1>1, <1>3, TakesOne DEF Apart
<1>5. Agreed' /\ DOMAIN nonce' = Sides
  BY <1>1, <1>3 DEF Agreed, Tables, Sides
<1>6. Send("S", <<M("token", TokenOf("S"))>>, "trust")
  BY <1>1, <1>5 DEF TokenOf, Agreed
<1>7. /\ pc'["R"] = pc["R"] /\ wire'["S"] = wire["S"] /\ DOMAIN pc' = Sides /\ DOMAIN wire' = Sides
      /\ (pc'["S"] = "trust" /\ One("R", M("token", TokenOf("S")))') \/ (pc'["S"] = "err" /\ Empty("R")')
  BY <1>3, <1>4, <1>6, SendsOne DEF Apart
<1>8. Tables' /\ NothingYet' /\ NoTooMany' /\ Empty("S")'
  BY <1>1, <1>3, <1>4, <1>5, <1>7, NothingStays DEF Tables, NoTooMany, Empty
<1>9. CASE pc'["S"] = "trust" /\ One("R", M("token", TokenOf("S")))'
  <2>1. TokenOf("S")' = TokenOf("S")
    BY DEF TokenOf, BothNonces
  <2>2. Opening'
    BY <1>3, <1>5, <1>7, <1>8, <1>9, <2>1 DEF Opening, At
  <2> QED BY <1>8, <2>2 DEF HInv, Before
<1>10. CASE pc'["S"] = "err" /\ Empty("R")'
  <2>1. GivenUp'
    BY <1>3, <1>7, <1>10 DEF GivenUp, At, Two
  <2> QED BY <1>8, <2>1 DEF HInv, Before
<1> QED BY <1>7, <1>9, <1>10

LEMMA ReceiveTokenKeeps == ASSUME HInv, ReceiveToken PROVE HInv'
<1>1. PICK m : Takes("R", "token", m)
               /\ IF ~Trusts("R", m.val)
                    THEN Send("R", <<M("tokenInvalid", None)>>, "rejecting") /\ UNCHANGED shown
                    ELSE IF pinOf["R"] = None
                      THEN Send("R", <<M("tokenOk", Token("R"))>>, "files") /\ UNCHANGED shown
                      ELSE Send("R", <<M("tokenPin", Token("R"))>>, "verify") /\ Show("R", "PinRequired")
  BY DEF ReceiveToken
<1>2. UNCHANGED <<setup, nonce, typed, tokens, listed, fed, feeding>>
  BY DEF ReceiveToken, users, sending
<1>3. pc["R"] = "token" /\ ~Empty("R")
  BY <1>1, TakesSomething
<1>4. /\ pc["S"] = "trust" /\ Empty("S") /\ One("R", M("token", TokenOf("S"))) /\ NothingYet
      /\ NoTooMany /\ Tables /\ Agreed
  BY <1>3 DEF HInv, Before, After, GivenUp, Opening, ReceiversPin, SendersPin, Passed, Filing, At, Asking
<1>5. /\ m = M("token", TokenOf("S"))
      /\ wire["R"] = <<>> /\ inbox'["R"] = <<>> /\ inbox'["S"] = inbox["S"] /\ DOMAIN inbox' = Sides
  BY <1>1, <1>4, TakesOne DEF Apart
<1>6. Token("R") = TokenOf("R")
  BY <1>4 DEF Token, TokenOf, Agreed
<1>7. ReceiverTrusts \/ ~Trusts("R", m.val)
  BY <1>5 DEF Trusts, TokenOf, ReceiverTrusts, M
<1>8. shown' = shown \/ Show("R", "PinRequired")
  BY <1>1
<1>9. NoTooMany' /\ DOMAIN shown' = Sides
  BY <1>4, <1>8, ShowsKeep DEF Sides, Status
<1>10. NothingYet' /\ (ReceiverTrusts => ReceiverTrusts') /\ Agreed' /\ pinOf' = pinOf
       /\ TokenOf("R")' = TokenOf("R")
  BY <1>2, <1>4, KnownStays, NothingStays
<1>11. ASSUME NEW x, NEW next, Send("R", <<x>>, next)
       PROVE  /\ pc'["S"] = "trust" /\ DOMAIN pc' = Sides /\ DOMAIN wire' = Sides /\ Empty("R")'
              /\ (pc'["R"] = next /\ One("S", x)') \/ (pc'["R"] = "err" /\ Empty("S")')
  BY <1>4, <1>5, <1>11, SendsOne DEF Apart, Empty
<1>12. Tables' /\ Empty("R")'
  BY <1>1, <1>2, <1>4, <1>5, <1>9, <1>11 DEF Tables
<1>13. CASE ~Trusts("R", m.val)
  <2>1. GivenUp'
    BY <1>1, <1>11, <1>13 DEF GivenUp, At
  <2> QED BY <1>10, <1>12, <2>1 DEF HInv, Before
<1>14. CASE Trusts("R", m.val) /\ pinOf["R"] = None
  <2>1. Opening' \/ GivenUp'
    BY <1>1, <1>6, <1>7, <1>10, <1>11, <1>14 DEF Opening, GivenUp, At
  <2> QED BY <1>9, <1>10, <1>12, <2>1 DEF HInv, Before
<1>15. CASE Trusts("R", m.val) /\ pinOf["R"] # None
  <2>1. Opening' \/ GivenUp'
    BY <1>1, <1>6, <1>7, <1>10, <1>11, <1>15 DEF Opening, GivenUp, At
  <2> QED BY <1>9, <1>10, <1>12, <2>1 DEF HInv, Before
<1> QED BY <1>13, <1>14, <1>15

\* R's refusal has been sent; a side has given up on the other's PINs.
LEMMA EndsKeep == ASSUME HInv, NEW s \in Sides, Rejected \/ GiveUpPin(s) PROVE HInv'
<1>1. PICK t \in Sides : /\ pc[t] \in {"rejecting", "tooMany"} /\ Goto(t, "err")
                         /\ shown' = shown \/ Show(t, "TooManyAttempts")
  BY DEF Rejected, GiveUpPin, Sides
<1>2. UNCHANGED <<setup, nonce, inbox, typed, tokens, listed, fed, feeding>>
  BY DEF Rejected, GiveUpPin, users, sending
<1>3. GivenUp /\ NothingYet /\ Tables
  BY <1>1 DEF HInv, Before, After, GivenUp, Opening, ReceiversPin, SendersPin, Passed, Filing, At, Asking, Sides
<1>4. pc' = [pc EXCEPT ![t] = "err"] /\ wire' = wire
  BY <1>1 DEF Goto
<1>5. Tables' /\ NothingYet'
  BY <1>1, <1>2, <1>3, <1>4, NothingStays DEF Tables, Show
<1>6. \A r : (Empty(r) <=> Empty(r)') /\ \A m : (One(r, m) => One(r, m)') /\ (Two(r, m) => Two(r, m)')
  BY <1>2, <1>4 DEF Empty, One, Two
<1>7. GivenUp'
  <2>1. CASE t = "S"
    <3>1. pc'["R"] = pc["R"] /\ pc'["S"] = "err" /\ (pc["S"] = "tooMany" \/ pc["S"] = "rejecting")
      BY <1>1, <1>3, <1>4, <2>1 DEF Tables, Sides
    <3> QED BY <1>3, <1>6, <3>1 DEF GivenUp, At
  <2>2. CASE t = "R"
    <3>1. pc'["S"] = pc["S"] /\ pc'["R"] = "err" /\ (pc["R"] = "tooMany" \/ pc["R"] = "rejecting")
      BY <1>1, <1>3, <1>4, <2>2 DEF Tables, Sides
    <3> QED BY <1>3, <1>6, <3>1 DEF GivenUp, At
  <2> QED BY <2>1, <2>2 DEF Sides
<1> QED BY <1>5, <1>7 DEF HInv, Before

-----------------------------------------------------------------------------
(* Trust and PINs *)

\* S has R's word for its PIN, or needs none.
LEMMA ListOrPin ==
    ASSUME AfterReceiversPin, Tables, Known, ReceiversPinPassed, pc["R"] \in {"files", "reply"},
           Empty("R"), inbox'["R"] = inbox["R"], inbox'["S"] = <<>>, wire["S"] = <<>>,
           UNCHANGED <<setup, nonce, typed>>
    PROVE  /\ Passed' \/ SendersPin' \/ GivenUp'
           /\ DOMAIN pc' = Sides /\ DOMAIN wire' = Sides
           /\ shown' = shown \/ Show("S", "PinRequired")
<1>1. Known' /\ ReceiversPinPassed' /\ pinOf' = pinOf
  BY KnownStays, PinsStay
<1>2. CASE pinOf["S"] = None
  <2>1. Goto("S", "list") /\ UNCHANGED shown
    BY <1>2 DEF AfterReceiversPin
  <2>2. /\ pc'["S"] = "list" /\ pc'["R"] = pc["R"] /\ Empty("S")' /\ Empty("R")'
        /\ DOMAIN pc' = Sides /\ DOMAIN wire' = Sides
    BY <2>1, Moves DEF Apart, Empty
  <2>3. Passed'
    BY <1>1, <1>2, <2>2 DEF Passed, Checked, SendersPinPassed, At
  <2> QED BY <2>1, <2>2, <2>3
<1>3. CASE pinOf["S"] # None
  <2>1. Send("S", <<M("askPin", None), Delim>>, "verify") /\ Show("S", "PinRequired")
    BY <1>3 DEF AfterReceiversPin, PinRequired, Chunked
  <2>2. /\ pc'["R"] = pc["R"] /\ DOMAIN pc' = Sides /\ DOMAIN wire' = Sides /\ Empty("S")'
        /\ (pc'["S"] = "verify" /\ Two("R", M("askPin", None))') \/ (pc'["S"] = "err" /\ Empty("R")')
    BY <2>1, SendsTwo DEF Apart, Empty
  <2>3. SendersPin' \/ GivenUp'
    BY <1>1, <2>2 DEF SendersPin, GivenUp, Two, At
  <2> QED BY <2>1, <2>2, <2>3
<1> QED BY <1>2, <1>3

LEMMA TokenResponseKeeps == ASSUME HInv, TokenResponse PROVE HInv'
<1>1. PICK m : Takes("S", "trust", m)
               /\ IF m.kind = "tokenInvalid" \/ ~Trusts("S", m.val)
                    THEN Goto("S", "err") /\ UNCHANGED shown
                    ELSE IF m.kind = "tokenPin"
                      THEN Goto("S", "ask") /\ UNCHANGED shown
                      ELSE AfterReceiversPin
  BY DEF TokenResponse
<1>2. UNCHANGED <<setup, nonce, typed, tokens, listed, fed, feeding>>
  BY DEF TokenResponse, users, sending
<1>3. pc["S"] = "trust" /\ ~Empty("S")
  BY <1>1, TakesSomething
<1>4. /\ Tables /\ NothingYet
      /\ \/ /\ NoTooMany /\ pc["R"] = "files" /\ One("S", M("tokenOk", TokenOf("R"))) /\ Empty("R")
            /\ Agreed /\ ReceiverTrusts /\ pinOf["R"] = None
         \/ /\ NoTooMany /\ pc["R"] = "verify" /\ One("S", M("tokenPin", TokenOf("R"))) /\ Empty("R")
            /\ Agreed /\ ReceiverTrusts
         \/ GivenUp /\ One("S", M("tokenInvalid", None)) /\ pc["R"] \in {"rejecting", "tooMany", "err"}
  BY <1>3 DEF HInv, Before, After, GivenUp, Opening, ReceiversPin, SendersPin, Passed, Filing, At, Asking
<1>5. wire["S"] = <<>> /\ inbox'["S"] = <<>> /\ inbox'["R"] = inbox["R"] /\ DOMAIN inbox' = Sides
  BY <1>1, <1>4, TakesOne DEF Apart
<1>6. NothingYet'
  BY <1>2, <1>4, NothingStays
<1>7. \A x : M("tokenInvalid", x).kind = "tokenInvalid" /\ M("tokenOk", x).kind = "tokenOk"
             /\ M("tokenPin", x).kind = "tokenPin" /\ M("tokenOk", x).val = x /\ M("tokenPin", x).val = x
  BY DEF M
<1>8. ASSUME NEW next, Goto("S", next), UNCHANGED shown
      PROVE  /\ pc'["S"] = next /\ pc'["R"] = pc["R"] /\ wire'["R"] = wire["R"] /\ Empty("S")'
             /\ Tables' /\ (NoTooMany => NoTooMany')
  BY <1>2, <1>4, <1>5, <1>8, Moves DEF Apart, Empty, Tables, NoTooMany
<1>9. CASE One("S", M("tokenInvalid", None)) /\ pc["R"] \in {"rejecting", "tooMany", "err"}
  <2>1. m = M("tokenInvalid", None)
    BY <1>1, <1>4, <1>9, TakesOne DEF Apart
  <2>2. Goto("S", "err") /\ UNCHANGED shown
    BY <1>1, <1>7, <2>1
  <2>3. GivenUp'
    BY <1>8, <1>9, <2>2 DEF GivenUp, At
  <2> QED BY <1>6, <1>8, <2>2, <2>3 DEF HInv, Before
<1>10. ASSUME Empty("R"), pc["R"] \in {"files", "verify"}, Goto("S", "err"), UNCHANGED shown
       PROVE  HInv'
  <2>1. Empty("R")'
    BY <1>5, <1>8, <1>10 DEF Empty
  <2>2. GivenUp'
    BY <1>8, <1>10, <2>1 DEF GivenUp, At, Two
  <2> QED BY <1>6, <1>8, <1>10, <2>2 DEF HInv, Before
<1>11. ASSUME Agreed, ReceiverTrusts, Trusts("S", TokenOf("R")) PROVE Known
  BY <1>11 DEF Known, SenderTrusts, Trusts, TokenOf
<1>12. CASE /\ NoTooMany /\ pc["R"] = "verify" /\ One("S", M("tokenPin", TokenOf("R"))) /\ Empty("R")
            /\ Agreed /\ ReceiverTrusts
  <2>1. m = M("tokenPin", TokenOf("R"))
    BY <1>1, <1>4, <1>12, TakesOne DEF Apart
  <2>2. CASE ~Trusts("S", TokenOf("R"))
    BY <1>1, <1>7, <1>10, <1>12, <2>1, <2>2
  <2>3. CASE Trusts("S", TokenOf("R"))
    <3>1. Goto("S", "ask") /\ UNCHANGED shown
      BY <1>1, <1>7, <2>1, <2>3
    <3>2. Known' /\ Empty("R")'
      BY <1>2, <1>5, <1>8, <1>11, <1>12, <2>3, <3>1, KnownStays DEF Empty
    <3>3. ReceiversPin'
      BY <1>8, <1>12, <3>1, <3>2 DEF ReceiversPin, At, Asking
    <3> QED BY <1>6, <1>8, <1>12, <3>1, <3>3 DEF HInv, Before
  <2> QED BY <2>2, <2>3
<1>13. CASE /\ NoTooMany /\ pc["R"] = "files" /\ One("S", M("tokenOk", TokenOf("R"))) /\ Empty("R")
            /\ Agreed /\ ReceiverTrusts /\ pinOf["R"] = None
  <2>1. m = M("tokenOk", TokenOf("R"))
    BY <1>1, <1>4, <1>13, TakesOne DEF Apart
  <2>2. CASE ~Trusts("S", TokenOf("R"))
    BY <1>1, <1>7, <1>10, <1>13, <2>1, <2>2
  <2>3. CASE Trusts("S", TokenOf("R"))
    <3>1. AfterReceiversPin
      BY <1>1, <1>7, <2>1, <2>3
    <3>2. Known /\ ReceiversPinPassed
      BY <1>11, <1>13, <2>3 DEF ReceiversPinPassed
    <3>3. /\ Passed' \/ SendersPin' \/ GivenUp'
          /\ DOMAIN pc' = Sides /\ DOMAIN wire' = Sides
          /\ shown' = shown \/ Show("S", "PinRequired")
      BY <1>2, <1>4, <1>5, <1>13, <3>1, <3>2, ListOrPin
    <3>4. NoTooMany' /\ DOMAIN shown' = Sides
      BY <1>4, <1>13, <3>3, ShowsKeep DEF Sides, Status
    <3>5. Tables'
      BY <1>2, <1>4, <1>5, <3>3, <3>4 DEF Tables
    <3> QED BY <1>6, <3>3, <3>4, <3>5 DEF HInv, Before
  <2> QED BY <2>2, <2>3
<1> QED BY <1>4, <1>9, <1>12, <1>13

\* A side that is asked for a PIN: the status, the slot.
LEMMA AskingKeeps == ASSUME HInv, NEW s \in Sides, AskPin(s) \/ OfferSlot(s) PROVE HInv'
<1>1. PICK next \in Asking : Goto(s, next)
  BY DEF AskPin, OfferSlot, Asking
<1>2. /\ UNCHANGED <<setup, nonce, inbox, typed, tokens, listed, fed, feeding>>
      /\ pc[s] \in Asking /\ (shown' = shown \/ Show(s, "PinRequired"))
  BY DEF AskPin, OfferSlot, Asking, users, sending
<1>3. /\ NothingYet /\ Tables
      /\ \/ s = "R" /\ pc["S"] \in {"err", "tooMany"} /\ Empty("R")
         \/ NoTooMany /\ Known /\ s = "S" /\ pc["R"] = "verify" /\ Empty("S") /\ Empty("R")
         \/ NoTooMany /\ Known /\ ReceiversPinPassed /\ s = "R" /\ pc["S"] = "verify" /\ Empty("S") /\ Empty("R")
  <2> USE DEF HInv, Before, After, GivenUp, Opening, ReceiversPin, SendersPin, Passed, Filing, At, Asking
  <2>1. CASE s = "S"
    <3>1. pc["S"] \in {"ask", "slot", "user"}
      BY <1>2, <2>1
    <3> QED BY <2>1, <3>1
  <2>2. CASE s = "R"
    <3>1. pc["R"] \in {"ask", "slot", "user"}
      BY <1>2, <2>2
    <3> QED BY <2>2, <3>1
  <2> QED BY <2>1, <2>2 DEF Sides
<1>4. pc' = [pc EXCEPT ![s] = next] /\ wire' = wire /\ pc'[s] \in Asking
  BY <1>1, <1>3 DEF Goto, Tables
<1>5. DOMAIN shown' = Sides /\ (NoTooMany => NoTooMany')
  BY <1>2, <1>3, ShowsKeep DEF Status
<1>6. Tables' /\ NothingYet'
  BY <1>2, <1>3, <1>4, <1>5, NothingStays DEF Tables
<1>7. \A r : (Empty(r) => Empty(r)') /\ \A m : (One(r, m) => One(r, m)') /\ (Two(r, m) => Two(r, m)')
  BY <1>2, <1>4 DEF Empty, One, Two
<1>8. (Known => Known') /\ (ReceiversPinPassed => ReceiversPinPassed')
  BY <1>2, KnownStays, PinsStay
<1>9. CASE s = "R" /\ pc["S"] \in {"err", "tooMany"} /\ Empty("R")
  <2>1. pc'["S"] = pc["S"] /\ pc'["R"] \in {"ask", "slot", "user"}
    BY <1>3, <1>4, <1>9 DEF Tables, Sides, Asking
  <2>2. GivenUp'
    BY <1>7, <1>9, <2>1 DEF GivenUp, At, Two
  <2> QED BY <1>6, <2>2 DEF HInv, Before
<1>10. CASE NoTooMany /\ Known /\ s = "S" /\ pc["R"] = "verify" /\ Empty("S") /\ Empty("R")
  <2>1. pc'["R"] = pc["R"]
    BY <1>3, <1>4, <1>10 DEF Tables, Sides
  <2>2. ReceiversPin'
    BY <1>4, <1>7, <1>8, <1>10, <2>1 DEF ReceiversPin, At
  <2> QED BY <1>5, <1>6, <1>10, <2>2 DEF HInv, Before
<1>11. CASE NoTooMany /\ Known /\ ReceiversPinPassed /\ s = "R" /\ pc["S"] = "verify" /\ Empty("S") /\ Empty("R")
  <2>1. pc'["S"] = pc["S"]
    BY <1>3, <1>4, <1>11 DEF Tables, Sides
  <2>2. SendersPin'
    BY <1>4, <1>7, <1>8, <1>11, <2>1 DEF SendersPin, At
  <2> QED BY <1>5, <1>6, <1>11, <2>2 DEF HInv, Before
<1> QED BY <1>3, <1>9, <1>10, <1>11

\* The PIN goes out, or the user leaves.
LEMMA UserKeeps ==
    ASSUME HInv, NEW s \in Sides, LeavePin(s) \/ \E p \in Pins : TypePin(s, p) PROVE HInv'
<1>1. /\ UNCHANGED <<setup, nonce, inbox, shown, tokens, listed, fed, feeding>> /\ pc[s] = "user"
      /\ \A t \in Sides \ {s} : DOMAIN typed = Sides => typed'[t] = typed[t]
      /\ DOMAIN typed = Sides => DOMAIN typed' = Sides
  BY DEF LeavePin, TypePin, users, sending
<1>2. \/ Goto(s, "err") /\ UNCHANGED typed
      \/ \E p \in Pins : Send(s, <<M("pin", p)>>, "reply") /\ typed' = [typed EXCEPT ![s] = p]
  BY DEF LeavePin, TypePin
<1>3. /\ NothingYet /\ Tables
      /\ \/ GivenUp /\ s = "R" /\ pc["S"] \in {"err", "tooMany"} /\ Empty("R")
         \/ NoTooMany /\ ReceiversPin /\ s = "S" /\ pc["R"] = "verify" /\ Empty("S") /\ Empty("R")
         \/ NoTooMany /\ SendersPin /\ s = "R" /\ pc["S"] = "verify" /\ Empty("S") /\ Empty("R")
  BY <1>1 DEF HInv, Before, After, GivenUp, Opening, ReceiversPin, SendersPin, Passed, Filing, At, Asking, Sides
<1>4. NothingYet' /\ (NoTooMany => NoTooMany')
  BY <1>1, <1>3, NothingStays DEF NoTooMany
<1>5. Known => Known'
  BY <1>1, KnownStays
<1>6. PICK p : \/ Goto(s, "err")
               \/ Send(s, <<M("pin", p)>>, "reply") /\ typed'[s] = p
  BY <1>2, <1>3 DEF Tables
<1>7. CASE GivenUp /\ s = "R" /\ pc["S"] \in {"err", "tooMany"} /\ Empty("R")
  <2>1. /\ pc'["S"] = pc["S"] /\ wire'["R"] = wire["R"] /\ pc'["R"] \in {"reply", "err"}
        /\ DOMAIN pc' = Sides /\ DOMAIN wire' = Sides
    BY <1>3, <1>6, <1>7 DEF Goto, Send, Tables, Sides, Peer
  <2>2. GivenUp' /\ Tables'
    BY <1>1, <1>3, <1>7, <2>1 DEF GivenUp, At, Tables, Empty, Two
  <2> QED BY <1>4, <2>2 DEF HInv, Before
<1>8. CASE NoTooMany /\ ReceiversPin /\ s = "S" /\ pc["R"] = "verify" /\ Empty("S") /\ Empty("R")
  <2>1. Known
    BY <1>8 DEF ReceiversPin
  <2>2. CASE Goto("S", "err")
    <3>1. pc'["S"] = "err" /\ pc'["R"] = pc["R"] /\ Empty("R")' /\ DOMAIN pc' = Sides /\ DOMAIN wire' = Sides
      BY <1>1, <1>3, <1>8, <2>2, Moves DEF Apart, Empty
    <3>2. GivenUp' /\ Tables'
      BY <1>1, <1>3, <1>8, <3>1 DEF GivenUp, At, Tables, Two
    <3> QED BY <1>4, <3>2 DEF HInv, Before
  <2>3. CASE Send("S", <<M("pin", p)>>, "reply") /\ typed'["S"] = p
    <3>1. /\ pc'["R"] = pc["R"] /\ DOMAIN pc' = Sides /\ DOMAIN wire' = Sides /\ Empty("S")'
          /\ (pc'["S"] = "reply" /\ One("R", M("pin", p))') \/ (pc'["S"] = "err" /\ Empty("R")')
      BY <1>1, <1>3, <1>8, <2>3, SendsOne DEF Apart, Empty
    <3>2. Tables'
      BY <1>1, <1>3, <3>1 DEF Tables
    <3>3. One("R", M("pin", p))' => One("R", M("pin", typed["S"]))'
      BY <2>3 DEF One, M, Empty
    <3>4. ReceiversPin' \/ GivenUp'
      BY <1>5, <1>8, <2>1, <3>1, <3>3 DEF ReceiversPin, GivenUp, At, Two
    <3> QED BY <1>4, <1>8, <3>2, <3>4 DEF HInv, Before
  <2> QED BY <1>6, <1>8, <2>2, <2>3
<1>9. CASE NoTooMany /\ SendersPin /\ s = "R" /\ pc["S"] = "verify" /\ Empty("S") /\ Empty("R")
  <2>1. Known /\ ReceiversPinPassed /\ typed'["S"] = typed["S"]
    BY <1>1, <1>3, <1>9 DEF SendersPin, Sides, Tables
  <2>2. ReceiversPinPassed'
    BY <1>1, <2>1 DEF ReceiversPinPassed, pinOf
  <2>3. CASE Goto("R", "err")
    <3>1. pc'["R"] = "err" /\ pc'["S"] = pc["S"] /\ Empty("S")' /\ DOMAIN pc' = Sides /\ DOMAIN wire' = Sides
      BY <1>1, <1>3, <1>9, <2>3, Moves DEF Apart, Empty
    <3>2. GivenUp' /\ Tables'
      BY <1>1, <1>3, <1>9, <3>1 DEF GivenUp, At, Tables
    <3> QED BY <1>4, <3>2 DEF HInv, Before
  <2>4. CASE Send("R", <<M("pin", p)>>, "reply") /\ typed'["R"] = p
    <3>1. /\ pc'["S"] = pc["S"] /\ DOMAIN pc' = Sides /\ DOMAIN wire' = Sides /\ Empty("R")'
          /\ (pc'["R"] = "reply" /\ One("S", M("pin", p))') \/ (pc'["R"] = "err" /\ Empty("S")')
      BY <1>1, <1>3, <1>9, <2>4, SendsOne DEF Apart, Empty
    <3>2. Tables'
      BY <1>1, <1>3, <3>1 DEF Tables
    <3>3. One("S", M("pin", p))' => One("S", M("pin", typed["R"]))'
      BY <2>4 DEF One, M, Empty
    <3>4. SendersPin' \/ GivenUp'
      BY <1>5, <1>9, <2>1, <2>2, <3>1, <3>3 DEF SendersPin, GivenUp, At
    <3> QED BY <1>4, <1>9, <3>2, <3>4 DEF HInv, Before
  <2> QED BY <1>6, <1>9, <2>3, <2>4
<1> QED BY <1>3, <1>7, <1>8, <1>9

\* R compares the PIN that S's user has typed.
LEMMA ReceiverVerifies == ASSUME HInv, VerifyPin("R") PROVE HInv'
<1>1. PICK m : /\ Takes("R", "verify", m)
               /\ IF m.val = pinOf["R"]
                    THEN Send("R", <<M("pinOk", None)>>, "files")
                    ELSE \/ Send("R", <<M("pinTooMany", None)>>, "tooMany")
                         \/ Send("R", <<M("pinAgain", None)>>, "verify")
  BY DEF VerifyPin, TooManyAttempts, PinRequired
<1>2. UNCHANGED <<setup, nonce, shown, typed, tokens, listed, fed, feeding>>
  BY DEF VerifyPin, sending
<1>3. pc["R"] = "verify" /\ ~Empty("R")
  BY <1>1, TakesSomething
<1>4. /\ pc["S"] = "reply" /\ Empty("S") /\ One("R", M("pin", typed["S"])) /\ NothingYet
      /\ NoTooMany /\ Tables /\ Known
  BY <1>3 DEF HInv, Before, After, GivenUp, Opening, ReceiversPin, SendersPin, Passed, Filing, At, Asking
<1>5. /\ m = M("pin", typed["S"])
      /\ wire["R"] = <<>> /\ inbox'["R"] = <<>> /\ inbox'["S"] = inbox["S"] /\ DOMAIN inbox' = Sides
  BY <1>1, <1>4, TakesOne DEF Apart
<1>6. m.val = typed["S"]
  BY <1>5 DEF M
<1>7. NothingYet' /\ NoTooMany' /\ Known' /\ (ReceiversPinPassed => ReceiversPinPassed')
  BY <1>2, <1>4, KnownStays, PinsStay, NothingStays DEF NoTooMany
<1>8. ASSUME NEW x, NEW next, Send("R", <<x>>, next)
      PROVE  /\ pc'["S"] = "reply" /\ DOMAIN pc' = Sides /\ DOMAIN wire' = Sides /\ Empty("R")'
             /\ (pc'["R"] = next /\ One("S", x)') \/ (pc'["R"] = "err" /\ Empty("S")')
  BY <1>4, <1>5, <1>8, SendsOne DEF Apart, Empty
<1>9. Tables' /\ Empty("R")'
  BY <1>1, <1>2, <1>4, <1>5, <1>8 DEF Tables
<1>10. CASE m.val = pinOf["R"]
  <2>1. ReceiversPinPassed
    BY <1>6, <1>10 DEF ReceiversPinPassed
  <2>2. ReceiversPin' \/ GivenUp'
    BY <1>1, <1>7, <1>8, <1>10, <2>1 DEF ReceiversPin, GivenUp, At
  <2> QED BY <1>7, <1>9, <2>2 DEF HInv, Before
<1>11. CASE m.val # pinOf["R"]
  <2>1. ReceiversPin' \/ GivenUp'
    BY <1>1, <1>7, <1>8, <1>11 DEF ReceiversPin, GivenUp, At
  <2> QED BY <1>7, <1>9, <2>1 DEF HInv, Before
<1> QED BY <1>10, <1>11

\* S compares the PIN that R's user has typed.
LEMMA SenderVerifies == ASSUME HInv, VerifyPin("S") PROVE HInv'
<1>1. PICK m : /\ Takes("S", "verify", m)
               /\ IF m.val = pinOf["S"]
                    THEN Goto("S", "list")
                    ELSE \/ Send("S", <<M("tooMany", None), Delim>>, "tooMany")
                         \/ Send("S", <<M("askPin", None), Delim>>, "verify")
  BY DEF VerifyPin, TooManyAttempts, PinRequired, Chunked
<1>2. UNCHANGED <<setup, nonce, shown, typed, tokens, listed, fed, feeding>>
  BY DEF VerifyPin, sending
<1>3. pc["S"] = "verify" /\ ~Empty("S")
  BY <1>1, TakesSomething
<1>4. /\ pc["R"] = "reply" /\ Empty("R") /\ One("S", M("pin", typed["R"])) /\ NothingYet
      /\ NoTooMany /\ Tables /\ Known /\ ReceiversPinPassed
  BY <1>3 DEF HInv, Before, After, GivenUp, Opening, ReceiversPin, SendersPin, Passed, Filing, At, Asking
<1>5. /\ m = M("pin", typed["R"])
      /\ wire["S"] = <<>> /\ inbox'["S"] = <<>> /\ inbox'["R"] = inbox["R"] /\ DOMAIN inbox' = Sides
  <2>1. Takes("S", "verify", m) /\ One("S", M("pin", typed["R"])) /\ Tables /\ Apart("S", "R")
    BY <1>1, <1>4 DEF Apart
  <2> QED BY <2>1, TakesOne
<1>6. m.val = typed["R"]
  BY <1>5 DEF M
<1>7. NothingYet' /\ NoTooMany' /\ Known' /\ ReceiversPinPassed' /\ (SendersPinPassed => SendersPinPassed')
  BY <1>2, <1>4, KnownStays, PinsStay, NothingStays DEF NoTooMany
<1>8. ASSUME NEW x, NEW next, Send("S", <<x, Delim>>, next)
      PROVE  /\ pc'["R"] = "reply" /\ DOMAIN pc' = Sides /\ DOMAIN wire' = Sides /\ Empty("S")'
             /\ (pc'["S"] = next /\ Two("R", x)') \/ (pc'["S"] = "err" /\ Empty("R")')
  BY <1>4, <1>5, <1>8, SendsTwo DEF Apart, Empty
<1>9. CASE m.val = pinOf["S"]
  <2>1. Goto("S", "list") /\ SendersPinPassed
    BY <1>1, <1>6, <1>9 DEF SendersPinPassed
  <2>2. /\ pc'["S"] = "list" /\ pc'["R"] = "reply" /\ Empty("S")' /\ Empty("R")'
        /\ DOMAIN pc' = Sides /\ DOMAIN wire' = Sides
    BY <1>4, <1>5, <2>1, Moves DEF Apart, Empty
  <2>3. Passed' /\ Tables'
    BY <1>2, <1>4, <1>5, <1>7, <2>1, <2>2 DEF Passed, Checked, At, Tables
  <2> QED BY <1>7, <2>3 DEF HInv, Before
<1>10. CASE m.val # pinOf["S"]
  <2>1. Tables'
    BY <1>1, <1>2, <1>4, <1>5, <1>8, <1>10 DEF Tables
  <2>2. SendersPin' \/ GivenUp'
    BY <1>1, <1>7, <1>8, <1>10 DEF SendersPin, GivenUp, At, Two
  <2> QED BY <1>7, <2>1, <2>2 DEF HInv, Before
<1> QED BY <1>9, <1>10

LEMMA SenderPinReplyKeeps == ASSUME HInv, SenderPinReply PROVE HInv'
<1>1. PICK m : /\ Takes("S", "reply", m)
               /\ m.kind = "pinOk" => AfterReceiversPin
               /\ m.kind = "pinAgain" => Goto("S", "ask") /\ UNCHANGED shown
               /\ m.kind = "pinTooMany" => Goto("S", "err") /\ Show("S", "TooManyAttempts")
  BY DEF SenderPinReply
<1>2. UNCHANGED <<setup, nonce, typed, tokens, listed, fed, feeding>>
  BY DEF SenderPinReply, users, sending
<1>3. pc["S"] = "reply" /\ ~Empty("S")
  BY <1>1, TakesSomething
<1>4. /\ Tables /\ NothingYet
      /\ \/ /\ NoTooMany /\ pc["R"] = "verify" /\ One("S", M("pinAgain", None)) /\ Empty("R") /\ Known
         \/ /\ NoTooMany /\ pc["R"] = "files" /\ One("S", M("pinOk", None)) /\ Empty("R")
            /\ Known /\ ReceiversPinPassed
         \/ One("S", M("pinTooMany", None)) /\ pc["R"] \in {"rejecting", "tooMany", "err"}
  BY <1>3 DEF HInv, Before, After, GivenUp, Opening, ReceiversPin, SendersPin, Passed, Filing, At, Asking
<1>5. wire["S"] = <<>> /\ inbox'["S"] = <<>> /\ inbox'["R"] = inbox["R"] /\ DOMAIN inbox' = Sides
  BY <1>1, <1>4, TakesOne DEF Apart
<1>6. NothingYet'
  BY <1>2, <1>4, NothingStays
<1>7. ASSUME NEW k, One("S", M(k, None)) PROVE m.kind = k
  BY <1>1, <1>4, <1>7, TakesOne DEF Apart, M
<1>8. ASSUME NEW next, Goto("S", next)
      PROVE  /\ pc'["S"] = next /\ pc'["R"] = pc["R"] /\ wire'["R"] = wire["R"] /\ Empty("S")'
             /\ DOMAIN pc' = Sides /\ DOMAIN wire' = Sides
  BY <1>4, <1>5, <1>8, Moves DEF Apart, Empty
<1>9. CASE One("S", M("pinTooMany", None)) /\ pc["R"] \in {"rejecting", "tooMany", "err"}
  <2>1. Goto("S", "err") /\ Show("S", "TooManyAttempts")
    BY <1>1, <1>7, <1>9
  <2>2. GivenUp'
    BY <1>8, <1>9, <2>1 DEF GivenUp, At
  <2>3. Tables'
    BY <1>2, <1>4, <1>5, <1>8, <2>1 DEF Tables, Show
  <2> QED BY <1>6, <2>2, <2>3 DEF HInv, Before
<1>10. CASE NoTooMany /\ pc["R"] = "verify" /\ One("S", M("pinAgain", None)) /\ Empty("R") /\ Known
  <2>1. Goto("S", "ask") /\ UNCHANGED shown
    BY <1>1, <1>7, <1>10
  <2>2. Known' /\ Empty("R")' /\ NoTooMany'
    BY <1>2, <1>5, <1>8, <1>10, <2>1, KnownStays DEF Empty, NoTooMany
  <2>3. ReceiversPin' /\ Tables'
    BY <1>2, <1>4, <1>5, <1>8, <1>10, <2>1, <2>2 DEF ReceiversPin, At, Asking, Tables
  <2> QED BY <1>6, <2>2, <2>3 DEF HInv, Before
<1>11. CASE /\ NoTooMany /\ pc["R"] = "files" /\ One("S", M("pinOk", None)) /\ Empty("R")
            /\ Known /\ ReceiversPinPassed
  <2>1. AfterReceiversPin
    BY <1>1, <1>7, <1>11
  <2>2. /\ Passed' \/ SendersPin' \/ GivenUp'
        /\ DOMAIN pc' = Sides /\ DOMAIN wire' = Sides
        /\ shown' = shown \/ Show("S", "PinRequired")
    BY <1>2, <1>4, <1>5, <1>11, <2>1, ListOrPin
  <2>3. NoTooMany' /\ DOMAIN shown' = Sides
    BY <1>4, <1>11, <2>2, ShowsKeep DEF Sides, Status
  <2>4. Tables'
    BY <1>2, <1>4, <1>5, <2>2, <2>3 DEF Tables
  <2> QED BY <1>6, <2>2, <2>3, <2>4 DEF HInv, Before
<1> QED BY <1>4, <1>9, <1>10, <1>11

-----------------------------------------------------------------------------
(* File list and selection *)

LEMMA SendFileListKeeps == ASSUME HInv, SendFileList PROVE HInv'
<1>1. /\ Send("S", <<M("files", None), Delim>>, "selected") /\ Show("S", "Connected") /\ pc["S"] = "list"
      /\ UNCHANGED <<setup, nonce, inbox, typed, tokens, listed, fed, feeding>>
  BY DEF SendFileList, Chunked, users, sending
<1>2. /\ pc["R"] \in {"files", "reply"} /\ Empty("S") /\ Empty("R") /\ NothingYet /\ NoTooMany
      /\ Tables /\ Checked
  BY <1>1 DEF HInv, Before, After, GivenUp, Opening, ReceiversPin, SendersPin, Passed, Filing, At, Asking
<1>3. /\ pc'["R"] = pc["R"] /\ DOMAIN pc' = Sides /\ DOMAIN wire' = Sides /\ Empty("S")'
      /\ (pc'["S"] = "selected" /\ Two("R", M("files", None))') \/ (pc'["S"] = "err" /\ Empty("R")')
  BY <1>1, <1>2, SendsTwo DEF Apart, Empty
<1>4. NothingYet' /\ Checked'
  BY <1>1, <1>2, NothingStays, KnownStays, PinsStay DEF Checked
<1>5. NoTooMany' /\ DOMAIN shown' = Sides
  BY <1>1, <1>2, ShowsKeep DEF Sides, Status
<1>6. Tables'
  BY <1>1, <1>2, <1>3, <1>5 DEF Tables
<1>7. Passed' \/ GivenUp'
  BY <1>2, <1>3, <1>4 DEF Passed, GivenUp, At, Two
<1> QED BY <1>4, <1>5, <1>6, <1>7 DEF HInv, Before

LEMMA ReceiveFileListKeeps == ASSUME HInv, ReceiveFileList PROVE HInv'
<1>1. PICK m : /\ \E p \in {"files", "reply"} : TakesChunks("R", p, m)
               /\ m.kind = "files" => Goto("R", "choose") /\ listed' = TRUE /\ Show("R", "Connected")
               /\ m.kind = "askPin" => Goto("R", "ask") /\ UNCHANGED <<listed, shown>>
               /\ m.kind = "tooMany" => Goto("R", "err") /\ Show("R", "TooManyAttempts") /\ UNCHANGED listed
  BY DEF ReceiveFileList
<1>2. UNCHANGED <<setup, nonce, typed, tokens, fed, feeding>>
  BY DEF ReceiveFileList, sending
<1>3. pc["R"] \in {"files", "reply"} /\ ~Empty("R")
  BY <1>1, TakesSomething
<1>4. /\ Tables /\ NothingYet
      /\ \/ /\ NoTooMany /\ pc["S"] = "verify" /\ Empty("S") /\ Two("R", M("askPin", None))
            /\ Known /\ ReceiversPinPassed
         \/ /\ NoTooMany /\ pc["S"] = "selected" /\ Empty("S") /\ Two("R", M("files", None)) /\ Checked
         \/ Two("R", M("tooMany", None)) /\ pc["S"] \in {"err", "tooMany"}
  <2> USE DEF HInv, Before, After, GivenUp, Opening, ReceiversPin, SendersPin, Passed, Filing, At, Asking
  <2>1. CASE pc["R"] = "files"
    BY <1>3, <2>1
  <2>2. CASE pc["R"] = "reply"
    BY <1>3, <2>2
  <2> QED BY <1>3, <2>1, <2>2
<1>5. ASSUME NEW k, Two("R", M(k, None))
      PROVE  /\ m.kind = k /\ wire["R"] = <<>> /\ inbox'["R"] = <<>>
             /\ inbox'["S"] = inbox["S"] /\ DOMAIN inbox' = Sides
  <2>1. PICK p : TakesChunks("R", p, m)
    BY <1>1
  <2>2. Apart("R", "S") /\ M(k, None).kind = k
    BY DEF Apart, M
  <2> QED BY <1>4, <1>5, <2>1, <2>2, TakesTwo
<1>6. ASSUME NEW next, Goto("R", next)
      PROVE  /\ pc'["R"] = next /\ pc'["S"] = pc["S"] /\ wire'["S"] = wire["S"] /\ wire'["R"] = wire["R"]
             /\ DOMAIN pc' = Sides /\ DOMAIN wire' = Sides
  BY <1>4, <1>6, Moves DEF Apart
<1>7. CASE Two("R", M("tooMany", None)) /\ pc["S"] \in {"err", "tooMany"}
  <2>1. Goto("R", "err") /\ Show("R", "TooManyAttempts") /\ UNCHANGED listed
    BY <1>1, <1>5, <1>7
  <2>2. Empty("R")'
    BY <1>5, <1>6, <1>7, <2>1 DEF Empty
  <2>3. GivenUp' /\ NothingYet'
    BY <1>2, <1>4, <1>6, <1>7, <2>1, <2>2 DEF GivenUp, At, Two, NothingYet
  <2>4. Tables'
    BY <1>2, <1>4, <1>5, <1>6, <1>7, <2>1 DEF Tables, Show
  <2> QED BY <2>3, <2>4 DEF HInv, Before
<1>8. CASE /\ NoTooMany /\ pc["S"] = "verify" /\ Empty("S") /\ Two("R", M("askPin", None))
           /\ Known /\ ReceiversPinPassed
  <2>1. Goto("R", "ask") /\ UNCHANGED <<listed, shown>>
    BY <1>1, <1>5, <1>8
  <2>2. Empty("R")' /\ Empty("S")'
    BY <1>5, <1>6, <1>8, <2>1 DEF Empty
  <2>3. Known' /\ ReceiversPinPassed' /\ NothingYet' /\ NoTooMany'
    BY <1>2, <1>4, <1>8, <2>1, KnownStays, PinsStay DEF NothingYet, NoTooMany
  <2>4. SendersPin'
    BY <1>6, <1>8, <2>1, <2>2, <2>3 DEF SendersPin, At, Asking
  <2>5. Tables'
    BY <1>2, <1>4, <1>5, <1>6, <1>8, <2>1 DEF Tables
  <2> QED BY <2>3, <2>4, <2>5 DEF HInv, Before
<1>9. CASE NoTooMany /\ pc["S"] = "selected" /\ Empty("S") /\ Two("R", M("files", None)) /\ Checked
  <2>1. Goto("R", "choose") /\ listed' = TRUE /\ Show("R", "Connected")
    BY <1>1, <1>5, <1>9
  <2>2. Empty("R")' /\ Empty("S")'
    BY <1>5, <1>6, <1>9, <2>1 DEF Empty
  <2>3. Checked'
    BY <1>2, <1>9, KnownStays, PinsStay DEF Checked
  <2>4. NoTooMany' /\ DOMAIN shown' = Sides
    BY <1>4, <1>9, <2>1, ShowsKeep DEF Sides, Status
  <2>5. Tables'
    BY <1>2, <1>4, <1>5, <1>6, <1>9, <2>1, <2>4 DEF Tables
  <2>6. tokens'["S"] = {} /\ \A f \in Files : fed'[f] = None
    BY <1>2, <1>4 DEF NothingYet
  <2>7. After'
    BY <1>6, <1>9, <2>1, <2>2, <2>3, <2>4, <2>6 DEF After, Filing, At
  <2> QED BY <2>5, <2>7 DEF HInv
<1> QED BY <1>4, <1>7, <1>8, <1>9

\* R's user chooses, declines or leaves.
LEMMA ChoiceKeeps ==
    ASSUME HInv, Decline \/ LeaveChoice \/ \E chosen \in SUBSET Offered : Select(chosen)
    PROVE  HInv'
<1>1. /\ pc["R"] = "choose" /\ UNCHANGED <<setup, nonce, inbox, shown, typed, listed, fed, feeding>>
      /\ DOMAIN tokens = Sides => DOMAIN tokens' = Sides /\ tokens'["S"] = tokens["S"]
  BY DEF Decline, LeaveChoice, Select, users, sending, Sides
<1>2. \/ Goto("R", "ok")
      \/ Send("R", <<M("declined", None), Delim>>, "ok")
      \/ \E chosen : Send("R", <<M("tokens", chosen), Delim>>, "receive")
                     /\ tokens' = [tokens EXCEPT !["R"] = chosen]
  BY DEF Decline, LeaveChoice, Select, Chunked
<1>3. /\ Tables /\ listed /\ Checked /\ NoTooMany /\ pc["S"] = "selected" /\ Empty("S") /\ Empty("R")
      /\ tokens["S"] = {} /\ \A f \in Files : fed[f] = None
  BY <1>1 DEF HInv, Before, After, GivenUp, Opening, ReceiversPin, SendersPin, Passed, Filing, At, Asking
<1>4. /\ DOMAIN tokens' = Sides /\ tokens'["S"] = {} /\ listed' /\ NoTooMany'
      /\ \A f \in Files : fed'[f] = None
  BY <1>1, <1>3 DEF NoTooMany, Tables
<1>5. Checked'
  BY <1>1, <1>3, KnownStays, PinsStay DEF Checked
<1>6. /\ pc'["S"] = "selected" /\ DOMAIN pc' = Sides /\ DOMAIN wire' = Sides /\ Empty("R")'
      /\ pc'["R"] \in {"receive", "ok", "err"}
      /\ \/ Two("S", M("declined", None))'
         \/ Two("S", M("tokens", tokens["R"]))' /\ pc'["R"] # "ok"
  <2>1. CASE Goto("R", "ok")
    BY <1>1, <1>3, <2>1, Moves DEF Apart, Empty, Two
  <2>2. CASE Send("R", <<M("declined", None), Delim>>, "ok")
    <3>1. /\ pc'["S"] = pc["S"] /\ wire'["R"] = wire["R"] /\ DOMAIN pc' = Sides /\ DOMAIN wire' = Sides
          /\ \/ pc'["R"] = "ok" /\ Two("S", M("declined", None))'
             \/ pc'["R"] = "err" /\ Empty("S")'
      BY <1>1, <1>3, <2>2, SendsTwo DEF Apart
    <3>2. Empty("S")' => Two("S", M("declined", None))'
      BY DEF Two
    <3> QED BY <1>1, <1>3, <3>1, <3>2 DEF Empty
  <2>3. ASSUME NEW chosen, Send("R", <<M("tokens", chosen), Delim>>, "receive"),
               tokens' = [tokens EXCEPT !["R"] = chosen]
        PROVE  /\ pc'["S"] = "selected" /\ DOMAIN pc' = Sides /\ DOMAIN wire' = Sides /\ Empty("R")'
               /\ pc'["R"] \in {"receive", "err"} /\ Two("S", M("tokens", tokens["R"]))'
    <3>1. tokens'["R"] = chosen
      BY <1>3, <2>3 DEF Tables, Sides
    <3>2. /\ pc'["S"] = pc["S"] /\ wire'["R"] = wire["R"] /\ DOMAIN pc' = Sides /\ DOMAIN wire' = Sides
          /\ (pc'["R"] = "receive" /\ Two("S", M("tokens", chosen))') \/ (pc'["R"] = "err" /\ Empty("S")')
      BY <1>1, <1>3, <2>3, SendsTwo DEF Apart
    <3>3. Two("S", M("tokens", chosen))' => Two("S", M("tokens", tokens["R"]))'
      BY <3>1 DEF Two, Empty, M
    <3> QED BY <1>1, <1>3, <3>2, <3>3 DEF Empty, Two
  <2> QED BY <1>2, <2>1, <2>2, <2>3
<1>7. Tables'
  BY <1>1, <1>3, <1>4, <1>6 DEF Tables
<1>8. After'
  BY <1>4, <1>5, <1>6 DEF After, Filing, At
<1> QED BY <1>7, <1>8 DEF HInv

LEMMA ReceiveTokensKeeps == ASSUME HInv, ReceiveTokens PROVE HInv'
<1>1. PICK m : /\ TakesChunks("S", "selected", m)
               /\ \/ /\ m.kind = "tokens" /\ UNCHANGED shown
                     /\ \/ Goto("S", "send") /\ tokens' = [tokens EXCEPT !["S"] = m.val]
                        \/ Goto("S", "err") /\ UNCHANGED tokens
                  \/ m.kind # "tokens" /\ Goto("S", "ok") /\ Show("S", "Declined") /\ UNCHANGED tokens
  BY DEF ReceiveTokens
<1>2. UNCHANGED <<setup, nonce, typed, listed, fed, feeding>>
  BY DEF ReceiveTokens, users, sending
<1>3. pc["S"] = "selected" /\ ~Empty("S")
  BY <1>1, TakesSomething
<1>4. /\ Tables /\ listed /\ Checked /\ NoTooMany /\ pc["R"] \in {"receive", "ok", "err"} /\ Empty("R")
      /\ Two("S", M("tokens", tokens["R"])) \/ Two("S", M("declined", None))
      /\ tokens["S"] = {} /\ \A f \in Files : fed[f] = None
  BY <1>3 DEF HInv, Before, After, GivenUp, Opening, ReceiversPin, SendersPin, Passed, Filing, At, Asking
<1>5. /\ m = M("tokens", tokens["R"]) \/ m = M("declined", None)
      /\ DOMAIN inbox' = Sides
  BY <1>1, <1>4, TakesTwo DEF Apart
<1>6. feeding = None
  BY <1>4 DEF Tables
<1>7. /\ tokens'["S"] \subseteq tokens'["R"] /\ DOMAIN tokens' = Sides
      /\ pc'["S"] \in {"send", "ok", "err"} /\ pc'["R"] = pc["R"] /\ DOMAIN pc' = Sides /\ DOMAIN wire' = Sides
      /\ shown' = shown \/ Show("S", "Declined")
  <2>1. CASE m = M("tokens", tokens["R"])
    <3>1. m.kind = "tokens" /\ m.val = tokens["R"]
      BY <2>1 DEF M
    <3>2. /\ UNCHANGED shown
          /\ \/ Goto("S", "send") /\ tokens' = [tokens EXCEPT !["S"] = tokens["R"]]
             \/ Goto("S", "err") /\ UNCHANGED tokens
      BY <1>1, <3>1
    <3>3. CASE Goto("S", "send") /\ tokens' = [tokens EXCEPT !["S"] = tokens["R"]]
      BY <1>4, <3>2, <3>3, Moves DEF Apart, Tables, Sides
    <3>4. CASE Goto("S", "err") /\ UNCHANGED tokens
      BY <1>4, <3>2, <3>4, Moves DEF Apart, Tables, Sides
    <3> QED BY <3>2, <3>3, <3>4
  <2>2. CASE m = M("declined", None)
    <3>1. Goto("S", "ok") /\ Show("S", "Declined") /\ UNCHANGED tokens
      BY <1>1, <2>2 DEF M
    <3> QED BY <1>4, <3>1, Moves DEF Apart, Tables, Sides
  <2> QED BY <1>5, <2>1, <2>2
<1>8. NoTooMany' /\ DOMAIN shown' = Sides
  BY <1>4, <1>7, ShowsKeep DEF Sides, Status
<1>9. Checked'
  BY <1>2, <1>4, KnownStays, PinsStay DEF Checked
<1>10. Tables'
  BY <1>2, <1>4, <1>5, <1>6, <1>7, <1>8 DEF Tables
<1>11. After'
  BY <1>2, <1>4, <1>7, <1>8, <1>9 DEF After, Filing, At
<1> QED BY <1>10, <1>11 DEF HInv

-----------------------------------------------------------------------------
(* Files *)

\* With the tokens at S the rest is about files: who has chosen what stays.
LEMMA FilesKeep ==
    ASSUME HInv, Filing, Filing',
           pc["S"] # "err" \/ pc["R"] \in {"receive", "result", "drain"},
           DOMAIN pc' = Sides, DOMAIN wire' = Sides, DOMAIN inbox' = Sides,
           UNCHANGED <<setup, nonce, typed, tokens, listed, shown>>,
           feeding' = None \/ feeding' \in tokens["S"],
           fed' = fed \/ \E f \in tokens["S"] : \E x : fed' = [fed EXCEPT ![f] = x]
    PROVE  HInv'
<1>1. /\ Tables /\ listed /\ Checked /\ NoTooMany /\ tokens["S"] \subseteq tokens["R"]
      /\ \A f \in Files : fed[f] # None => f \in tokens["S"]
  BY DEF HInv, Before, After, GivenUp, Opening, ReceiversPin, SendersPin, Passed, Filing, At, Asking
<1>2. Checked' /\ NoTooMany'
  BY <1>1, KnownStays, PinsStay DEF Checked, NoTooMany
<1>3. DOMAIN fed' = Files /\ \A f \in Files : fed'[f] # None => f \in tokens["S"]
  BY <1>1 DEF Tables
<1>4. Tables'
  BY <1>1, <1>3 DEF Tables
<1>5. After'
  BY <1>1, <1>2, <1>3 DEF After
<1> QED BY <1>4, <1>5 DEF HInv

\* Where the other task is while one handles files.
LEMMA FileStages ==
    ASSUME HInv
    PROVE  /\ Tables
           /\ pc["S"] \in {"send", "flush", "last", "ok"} =>
                pc["R"] \in {"receive", "result", "drain", "ok", "err"}
           /\ pc["R"] \in {"result", "drain"} \/ (pc["R"] = "receive" /\ ~Empty("R")) =>
                pc["S"] \in {"send", "flush", "last", "ok", "err"}
BY DEF HInv, Before, After, GivenUp, Opening, ReceiversPin, SendersPin, Passed, Filing, At, Asking

LEMMA SenderFilesKeep ==
    ASSUME HInv, SendChunk \/ EndFile \/ NoMoreFiles \/ SendDelimiter \/ ReceiveLast
                 \/ \E f \in Offered : SendFile(f)
    PROVE  HInv'
<1>1. /\ UNCHANGED <<setup, nonce, typed, tokens, listed, shown>> /\ pc["S"] \in {"send", "flush", "last"}
  BY DEF SendChunk, EndFile, NoMoreFiles, SendDelimiter, ReceiveLast, SendFile, users, Takes
<1>2. Tables /\ pc["R"] \in {"receive", "result", "drain", "ok", "err"}
  BY <1>1, FileStages
<1>3. ASSUME NEW next \in {"flush", "last", "ok"}, Goto("S", next) \/ Send("S", Delimiter, next)
      PROVE  pc'["R"] = pc["R"] /\ pc'["S"] \in {next, "err"} /\ DOMAIN pc' = Sides /\ DOMAIN wire' = Sides
  BY <1>2, <1>3 DEF Goto, Send, Tables, Sides
<1>4. CASE NoMoreFiles \/ SendDelimiter \/ ReceiveLast
  <2>1. /\ UNCHANGED <<feeding, fed>> /\ (DOMAIN inbox = Sides => DOMAIN inbox' = Sides)
        /\ \E next \in {"flush", "last", "ok"} : Goto("S", next) \/ Send("S", Delimiter, next)
    BY <1>4 DEF NoMoreFiles, SendDelimiter, ReceiveLast, sending, Takes
  <2>2. PICK next \in {"flush", "last", "ok"} : Goto("S", next) \/ Send("S", Delimiter, next)
    BY <2>1
  <2>3. Filing /\ Filing'
    BY <1>1, <1>2, <1>3, <2>2 DEF Filing, At
  <2> QED BY <1>1, <1>2, <1>3, <2>1, <2>2, <2>3, FilesKeep DEF Tables
<1>5. ASSUME NEW f \in tokens["S"], NEW m, NEW count, Feed(f, m, count)
      PROVE  /\ DOMAIN wire' = Sides
             /\ feeding' = None \/ feeding' \in tokens["S"]
             /\ fed' = fed \/ \E g \in tokens["S"] : \E x : fed' = [fed EXCEPT ![g] = x]
  BY <1>2, <1>5 DEF Feed, Tables
<1>6. CASE SendChunk \/ EndFile \/ \E f \in Offered : SendFile(f)
  <2>1. UNCHANGED <<pc, inbox>> /\ pc["S"] = "send"
    BY <1>6 DEF SendChunk, EndFile, SendFile
  <2>2. /\ DOMAIN wire' = Sides
        /\ feeding' = None \/ feeding' \in tokens["S"]
        /\ fed' = fed \/ \E g \in tokens["S"] : \E x : fed' = [fed EXCEPT ![g] = x]
    <3>1. CASE SendChunk
      <4>1. feeding \in tokens["S"]
        BY <1>2, <3>1 DEF SendChunk, Tables
      <4>2. \E m, count : Feed(feeding, m, count)
        BY <3>1 DEF SendChunk
      <4> QED BY <1>5, <4>1, <4>2
    <3>2. CASE EndFile
      BY <1>2, <3>2 DEF EndFile, Tables
    <3>3. CASE \E f \in Offered : SendFile(f)
      <4>1. PICK f \in Offered : SendFile(f)
        BY <3>3
      <4>2. CASE f \in tokens["S"]
        <5>1. \E m, count : Feed(f, m, count)
          BY <4>1, <4>2 DEF SendFile
        <5> QED BY <1>5, <4>2, <5>1
      <4>3. CASE f \notin tokens["S"]
        BY <1>2, <4>1, <4>3 DEF SendFile, Tables
      <4> QED BY <4>2, <4>3
    <3> QED BY <1>6, <3>1, <3>2, <3>3
  <2>3. Filing /\ Filing'
    BY <1>2, <2>1 DEF Filing, At
  <2> QED BY <1>1, <1>2, <2>1, <2>2, <2>3, FilesKeep DEF Tables
<1> QED BY <1>4, <1>6

LEMMA ReceiverFilesKeep ==
    ASSUME HInv, ReceiveText \/ ReceiveData \/ SendResult \/ Drained PROVE HInv'
<1>1. /\ UNCHANGED <<setup, nonce, typed, tokens, listed, shown, feeding, fed>>
      /\ pc["R"] \in {"result", "drain"} \/ (pc["R"] = "receive" /\ ~Empty("R"))
      /\ DOMAIN inbox = Sides => DOMAIN inbox' = Sides
  BY DEF ReceiveText, ReceiveData, SendResult, Drained, users, sending, Takes, Oldest, Empty
<1>2. Tables /\ pc["S"] \in {"send", "flush", "last", "ok", "err"}
  BY <1>1, FileStages
<1>3. \E next \in {"receive", "result", "drain", "ok", "err"} :
        Goto("R", next) \/ \E ms : Send("R", ms, next)
  BY DEF ReceiveText, ReceiveData, SendResult, Drained, OpenFile
<1>4. /\ pc'["S"] = pc["S"] /\ pc'["R"] \in {"receive", "result", "drain", "ok", "err"}
      /\ DOMAIN pc' = Sides /\ DOMAIN wire' = Sides
  BY <1>2, <1>3 DEF Goto, Send, Tables, Sides
<1>5. Filing /\ Filing'
  BY <1>1, <1>2, <1>4 DEF Filing, At
<1> QED BY <1>1, <1>2, <1>4, <1>5, FilesKeep DEF Tables

\* What does not concern the invariant at all.
LEMMA OthersStay ==
    ASSUME HInv, UNCHANGED <<control, wire, inbox, shown>> PROVE HInv'
BY OthersKeep

-----------------------------------------------------------------------------
LEMMA InvariantNext == ASSUME HInv, [Next]_vars PROVE HInv'
<1>1. CASE OuterStep
  BY <1>1, OuterKeeps
<1>2. CASE SenderStep
  BY <1>2, OpenChannelKeeps, SendTokenKeeps, TokenResponseKeeps, SenderPinReplyKeeps,
     SendFileListKeeps, ReceiveTokensKeeps, SenderFilesKeep DEF SenderStep
<1>3. CASE ReceiverStep
  <2>1. CASE Rejected
    BY <2>1, EndsKeep DEF Sides
  <2> QED BY <1>3, <2>1, ReceiveNonceKeeps, ReceiveTokenKeeps, ReceiveFileListKeeps,
             ReceiverFilesKeep DEF ReceiverStep
<1>4. CASE PinStep
  BY <1>4, AskingKeeps, ReceiverVerifies, SenderVerifies, EndsKeep DEF PinStep, Sides
<1>5. CASE DriverStep
  <2>1. CASE \E f \in Offered : \E ok \in BOOLEAN : Report(f, ok)
    BY <2>1, OthersStay DEF Report, control, users, sending
  <2> QED BY <1>5, <2>1, SenderFilesKeep DEF DriverStep
<1>6. CASE UserStep
  <2>1. CASE WriteFails
    BY <2>1, OthersStay DEF WriteFails, control, users, sending
  <2> QED BY <1>6, <2>1, UserKeeps, ChoiceKeeps DEF UserStep
<1>7. CASE NetworkStep
  <2>1. CASE \E s \in Sides : Acknowledge(s)
    BY <2>1, OthersStay DEF Acknowledge, control, users, sending
  <2> QED BY <1>7, <2>1, DeliverKeeps, DisconnectedKeeps DEF NetworkStep
<1>8. CASE UNCHANGED vars
  BY <1>8, OthersStay DEF vars, control, users, sending
<1> QED BY <1>1, <1>2, <1>3, <1>4, <1>5, <1>6, <1>7, <1>8 DEF Next

\* In any session, whatever the users type and the network does, R's user sees the
\* file list and S sends a file only after both tokens, both PINs and R's choice
\* (the checks of send_offer's and accept_offer's tasks) have allowed it.
THEOREM NothingLeaksEver == Spec => []NothingLeaks
<1>1. Init => HInv
  BY InvariantInit
<1>2. HInv /\ [Next]_vars => HInv'
  BY InvariantNext
<1>3. HInv => NothingLeaks
  BY InvariantSuffices
<1> QED BY <1>1, <1>2, <1>3, PTL DEF Spec

-----------------------------------------------------------------------------
(* Types *)

\* What a message may carry.
Values == {None, "nS", "nR"} \cup Pins \cup (SUBSET Files) \cup (Files \X BOOLEAN)
          \cup [key : Sides, nonce : Seq({"nS", "nR"})]
FileKinds == {"header", "data"}
TextKinds == Kinds \ {"header", "data", "delim"}
PlainMessage == [kind : TextKinds, val : Values] \cup {Delim}
Message == PlainMessage \cup [kind : {"header"}, val : Files]
                        \cup [kind : {"data"}, val : Files \X (Nat \ {0})]

SessionType ==
    /\ setup \in Setup /\ outer \in [Sides -> OuterStates] /\ shown \in [Sides -> SUBSET Status]
    /\ closed \in [Sides -> BOOLEAN] /\ lost \in [Sides -> BOOLEAN] /\ cut \in BOOLEAN

QueueType ==
    /\ pc \in [Sides -> TaskStates] /\ nonce \in [Sides -> Seq({"nS", "nR"})]
    /\ wire \in [Sides -> Seq(Message)] /\ inbox \in [Sides -> Seq(Message)]
    /\ \A s \in Sides : Len(inbox[s]) <= Cap

\* Where a side is before it has tried the last PIN.
ToVerify(s) == IF s = "S" THEN {"open", "nonce", "trust", "ask", "slot", "user", "reply", "verify"}
                          ELSE {"nonce", "token", "verify"}

UserType ==
    /\ slot \in [Sides -> BOOLEAN] /\ typed \in [Sides -> Pins \cup {None}]
    /\ tries \in [Sides -> 0..MaxTries] /\ listed \in BOOLEAN
    /\ tokens \in [Sides -> SUBSET Files]
    /\ \A s \in Sides : pc[s] \in ToVerify(s) => tries[s] < MaxTries

FileType ==
    /\ feeding \in Files \cup {None} /\ filing \in Files \cup {None}
    /\ fed \in [Files -> 0..MaxChunks \cup {None}]
    /\ refused \subseteq Files /\ whole \subseteq Files
    /\ got \in [Files -> Seq(Files \X (Nat \ {0}))]
    /\ verdict \in [Files -> BOOLEAN \cup {None}] /\ replies \in [Files -> BOOLEAN \cup {None}]
    /\ mailbox \in Seq(BOOLEAN) /\ Len(mailbox) <= 1 /\ broken \in BOOLEAN
    /\ feeding # None => fed[feeding] # None
    /\ pc["R"] = "result" => filing # None /\ held \in Message /\ held.kind \in {"header", "delim"}

Types == SessionType /\ QueueType /\ UserType /\ FileType

LEMMA MessageKinds == \A m \in Message : m.kind \in Kinds
BY DEF Message, PlainMessage, TextKinds, Delim, M, Kinds

LEMMA TypesInit == Init => Types
<1> SUFFICES ASSUME Init PROVE Types
  OBVIOUS
<1>1. SessionType
  BY SetupsAssumption DEF Init, SessionType, OuterStates, Sides
<1>2. QueueType
  BY CountsAssumption DEF Init, QueueType, TaskStates, Sides
<1>3. UserType
  <2>1. 0 \in 0..MaxTries /\ 0 < MaxTries
    BY CountsAssumption
  <2>2. /\ slot \in [Sides -> BOOLEAN] /\ typed \in [Sides -> Pins \cup {None}]
        /\ listed \in BOOLEAN /\ tokens \in [Sides -> SUBSET Files]
    BY DEF Init
  <2>3. tries \in [Sides -> 0..MaxTries] /\ \A s \in Sides : tries[s] < MaxTries
    BY <2>1 DEF Init
  <2> QED BY <2>2, <2>3 DEF UserType
<1>4. FileType
  <2>1. <<>> \in Seq(Files \X (Nat \ {0})) /\ <<>> \in Seq(BOOLEAN) /\ Len(<<>>) = 0
    BY EmptySeq
  <2>2. got \in [Files -> Seq(Files \X (Nat \ {0}))] /\ mailbox \in Seq(BOOLEAN) /\ Len(mailbox) <= 1
    BY <2>1 DEF Init
  <2>3. fed \in [Files -> 0..MaxChunks \cup {None}]
    BY DEF Init
  <2> QED BY <2>2, <2>3 DEF Init, FileType
<1> QED BY <1>1, <1>2, <1>3, <1>4 DEF Types

-----------------------------------------------------------------------------
(* The end *)

\* The messages in a queue.
Content(q) == {q[i] : i \in 1..Len(q)}

\* The delimiter comes when S has sent its files, and R's task ends well only behind it.
DelimiterIsLast ==
    pc["S"] \in {"send", "flush"} =>
        /\ pc["R"] \notin {"drain", "ok"}
        /\ pc["R"] = "result" => held # Delim
        /\ Delim \notin Content(inbox["R"]) \cup Content(wire["R"])

\* A stack has acknowledged no more than there is.
Counted == acked \in [Sides -> Nat] /\ \A s \in Sides : acked[s] <= Len(wire[s])

\* The delimiter comes when R's stack has the bytes before it.
AllAcknowledged ==
    pc["S"] \in {"last", "ok"} =>
        \A i \in 1..Len(wire["R"]) : wire["R"][i].kind = "data" => i <= acked["R"]

\* What S reads behind its files is R's answer for one of them.
Answered == \E f \in Files : replies[f] # None
AnswerAwaited ==
    /\ pc["S"] \in {"send", "flush", "last"} => Empty("S") \/ Answered
    /\ pc["S"] = "ok" => Answered \/ \A f \in Files : fed[f] = None

EndInv == DelimiterIsLast /\ Counted /\ AllAcknowledged /\ AnswerAwaited

-----------------------------------------------------------------------------
(* Before the first file *)

NothingStored ==
    /\ feeding = None /\ filing = None /\ whole = {} /\ mailbox = <<>> /\ ~broken
    /\ \A f \in Files : fed[f] = None /\ got[f] = <<>> /\ replies[f] = None

NoneOfAFile(q) == \A m \in Content(q) : m.kind \notin FileKinds

Quiet ==
    /\ NothingStored /\ pc["R"] \notin {"result", "drain"}
    /\ NoneOfAFile(inbox["R"]) /\ NoneOfAFile(wire["R"])
    /\ pc["S"] \in {"send", "flush"} => Empty("R")

-----------------------------------------------------------------------------
(* Files *)

\* The message that R's task has dealt with last, as far as a file goes.
Dealt ==
    IF pc["R"] = "result" THEN held
    ELSE IF filing = None THEN M("nonce", None)
    ELSE IF got[filing] = <<>> THEN M("header", filing)
    ELSE M("data", <<filing, Len(got[filing])>>)

\* It and what is under way to R.
LineLength(a, b) == 1 + Len(a) + Len(b)
LineOf(d, a, b) ==
    [i \in 1..LineLength(a, b) |-> IF i = 1 THEN d
                                   ELSE IF i <= 1 + Len(a) THEN a[i - 1] ELSE b[i - 1 - Len(a)]]
Line == LineOf(Dealt, inbox["R"], wire["R"])
Ahead == LineLength(inbox["R"], wire["R"])

\* The chunk of its file that m is, the header being the one before the first.
Place(m) == IF m.kind = "header" THEN <<m.val, 0>> ELSE m.val

\* After m nothing of its file comes, g being the file that S sends and F what it has sent.
Ended(m, F, g) ==
    /\ m.kind # "delim"
    /\ m.kind \in FileKinds =>
          /\ Place(m)[1] # g /\ F[Place(m)[1]] # None /\ F[Place(m)[1]] = Place(m)[2]

\* x may come after m.
Follows(m, x, F, g) ==
    IF x.kind = "data"
    THEN m.kind \in FileKinds /\ x.val = <<Place(m)[1], Place(m)[2] + 1>>
    ELSE x.kind \in {"header", "delim"} /\ Ended(m, F, g)

\* Each of the n messages of l follows the one before.
Chained(l, n, F, g) == \A i \in 1..(n - 1) : Follows(l[i], l[i + 1], F, g)

\* The header of a file comes once, before everything else of its file.
HeadersAreNew(l, n, G, w, f) ==
    \A i \in 2..n : l[i].kind = "header" =>
        /\ G[l[i].val] = <<>> /\ l[i].val \notin w /\ l[i].val # f
        /\ \A j \in 1..n : l[j].kind = "header" /\ l[j].val = l[i].val => j = i

\* What S appends next comes after m.
ToFeed(m, F, g) ==
    IF g = None THEN Ended(m, F, g) ELSE m.kind \in FileKinds /\ Place(m) = <<g, F[g]>>

Fits == Chained(Line, Ahead, fed, feeding) /\ HeadersAreNew(Line, Ahead, got, whole, filing)
Feedable == Up /\ pc["S"] \in {"send", "flush"} => ToFeed(Line[Ahead], fed, feeding)
AtHand ==
    /\ pc["R"] = "receive" => filing \notin whole
    /\ pc["R"] = "result" =>
          /\ filing \in whole
          /\ held.kind = "header" => got[held.val] = <<>> /\ held.val \notin whole
InOrder == pc["R"] \in {"receive", "result"} => Fits /\ Feedable /\ AtHand

\* S has begun the files that something is known of at R.
Sent(q, F) == \A m \in Content(q) : m.kind \in FileKinds => F[Place(m)[1]] # None

Begun ==
    /\ \A f \in Files : fed[f] = None => got[f] = <<>> /\ f \notin whole /\ f # filing /\ replies[f] = None
    /\ Sent(inbox["R"], fed) /\ Sent(wire["R"], fed)
    /\ pc["R"] = "result" /\ held.kind = "header" => fed[held.val] # None
    /\ pc["S"] # "send" => feeding = None

\* Each file that R has ended has been answered for, but for the last one.
AnswerInv ==
    /\ \A f \in whole : \/ verdict[f] # None \/ broken
                        \/ pc["R"] = "result" /\ f = filing
    /\ mailbox # <<>> => pc["R"] = "result" /\ mailbox = <<verdict[filing]>> /\ verdict[filing] # None
    /\ AnswersAreOfTheirFile

Core == InOrder /\ Begun /\ StreamsAreFiles /\ AnswerInv

FileInv == Quiet \/ (Filing /\ Core)

-----------------------------------------------------------------------------
\* At most one status is shown.
Shows == shown' = shown \/ \E s \in Sides, st \in Status : Show(s, st)

LEMMA ShownType ==
    ASSUME shown \in [Sides -> SUBSET Status], Shows PROVE shown' \in [Sides -> SUBSET Status]
BY DEF Shows, Show

-----------------------------------------------------------------------------
(* The steps of the tasks before the files *)

HandshakeStep ==
    \/ OpenChannel \/ SendToken \/ TokenResponse \/ SenderPinReply \/ SendFileList \/ ReceiveTokens
    \/ ReceiveNonce \/ ReceiveToken \/ Rejected \/ ReceiveFileList \/ PinStep
    \/ \E s \in Sides : LeavePin(s) \/ \E p \in Pins : TypePin(s, p)
    \/ \E chosen \in SUBSET Offered : Select(chosen)
    \/ Decline \/ LeaveChoice

FileStep ==
    \/ SendDelimiter \/ ReceiveLast \/ ReceiveText \/ ReceiveData \/ SendResult \/ Drained
    \/ DriverStep \/ WriteFails

LEMMA StepsOfNext == Next => OuterStep \/ HandshakeStep \/ FileStep \/ NetworkStep
BY DEF Next, SenderStep, ReceiverStep, UserStep, HandshakeStep, FileStep

FilingStages == {"send", "flush", "last", "receive", "result", "drain", "ok", "err"}
Reached == TaskStates \ {"flush", "last", "result", "drain"}

\* The task of s goes on and may send something that is not of a file.
Goes(s) ==
    \E to \in Reached, ms \in Seq(PlainMessage) :
        /\ pc' = [pc EXCEPT ![s] = to]
        /\ wire' = wire \/ wire' = [wire EXCEPT ![Peer(s)] = @ \o ms]

\* It has taken a message or two.
Pops(s) ==
    \/ inbox' = inbox
    \/ inbox[s] # <<>> /\ inbox' = [inbox EXCEPT ![s] = Tail(@)]
    \/ inbox[s] # <<>> /\ Len(inbox[s]) > 1 /\ inbox' = [inbox EXCEPT ![s] = Tail(Tail(@))]

Talks(s) ==
    /\ pc[s] \notin FilingStages /\ Goes(s) /\ Pops(s)
    /\ UNCHANGED <<setup, acked, session, sending, storing>>

LEMMA TokenValue ==
    ASSUME NEW k \in Sides, NEW n \in Seq({"nS", "nR"}) PROVE [key |-> k, nonce |-> n] \in Values
BY DEF Values

LEMMA PlainOnes ==
    ASSUME NEW k \in TextKinds, NEW v \in Values
    PROVE  /\ M(k, v) \in PlainMessage
           /\ <<M(k, v)>> \in Seq(PlainMessage) /\ <<M(k, v), Delim>> \in Seq(PlainMessage)
<1>1. M(k, v) \in PlainMessage /\ Delim \in PlainMessage
  BY DEF M, PlainMessage
<1> QED BY <1>1

LEMMA SendGoes ==
    ASSUME NEW s \in Sides, NEW ms \in Seq(PlainMessage), NEW next \in Reached, Send(s, ms, next)
    PROVE  Goes(s)
<1>1. "err" \in Reached
  BY DEF Reached, TaskStates
<1> QED BY <1>1 DEF Send, Goes

LEMMA GotoGoes == ASSUME NEW s \in Sides, NEW next \in Reached, Goto(s, next) PROVE Goes(s)
<1>1. <<>> \in Seq(PlainMessage)
  BY EmptySeq
<1> QED BY <1>1 DEF Goto, Goes

LEMMA TakesPops ==
    /\ \A s, p, m : Takes(s, p, m) => pc[s] = p /\ m \in Oldest(s) /\ Pops(s)
    /\ \A s, p, m : TakesChunks(s, p, m) => pc[s] = p /\ m \in Oldest(s) /\ Pops(s)
BY DEF Takes, TakesChunks, Pops, Oldest

\* S's PIN, or the list.
LEMMA AfterPinGoes == ASSUME AfterReceiversPin PROVE Goes("S") /\ Shows
<1>1. CASE pinOf["S"] = None
  <2>1. "list" \in Reached /\ "S" \in Sides
    BY DEF Reached, TaskStates, Sides
  <2> QED BY <1>1, <2>1, GotoGoes DEF AfterReceiversPin, Shows
<1>2. CASE pinOf["S"] # None
  <2>1. Send("S", <<M("askPin", None), Delim>>, "verify") /\ Show("S", "PinRequired")
    BY <1>2 DEF AfterReceiversPin, PinRequired, Chunked
  <2>2. "askPin" \in TextKinds /\ None \in Values /\ "verify" \in Reached
    BY DEF Kinds, TextKinds, Values, Reached, TaskStates
  <2>3. "S" \in Sides /\ "PinRequired" \in Status
    BY DEF Sides, Status
  <2> QED BY <2>1, <2>2, <2>3, PlainOnes, SendGoes DEF Shows
<1> QED BY <1>1, <1>2

\* What S may read of its PIN is one of the three replies.
LEMMA PinReplies ==
    ASSUME HInv, SenderPinReply
    PROVE  /\ pc["S"] = "reply" /\ Pops("S")
           /\ \/ AfterReceiversPin
              \/ Goto("S", "ask") /\ UNCHANGED shown
              \/ Goto("S", "err") /\ Show("S", "TooManyAttempts")
           /\ UNCHANGED <<setup, acked, session, nonce, users, tokens, sending, storing>>
<1>1. PICK m : /\ Takes("S", "reply", m)
               /\ m.kind = "pinOk" => AfterReceiversPin
               /\ m.kind = "pinAgain" => Goto("S", "ask") /\ UNCHANGED shown
               /\ m.kind = "pinTooMany" => Goto("S", "err") /\ Show("S", "TooManyAttempts")
               /\ UNCHANGED <<setup, acked, session, nonce, users, tokens, sending, storing>>
  BY DEF SenderPinReply
<1>2. pc["S"] = "reply" /\ ~Empty("S")
  BY <1>1, TakesSomething
<1>3. Tables /\ \E k \in {"pinAgain", "pinOk", "pinTooMany"} : One("S", M(k, None))
  BY <1>2 DEF HInv, Before, After, GivenUp, Opening, ReceiversPin, SendersPin, Passed, Filing, At, Asking
<1>4. m.kind \in {"pinAgain", "pinOk", "pinTooMany"}
  BY <1>1, <1>3, TakesOne DEF Apart, M
<1> QED BY <1>1, <1>4, TakesPops

\* What R may read with its delimiter is the list or of S's PIN.
LEMMA ListReplies ==
    ASSUME HInv, ReceiveFileList
    PROVE  /\ pc["R"] \in {"files", "reply"} /\ Pops("R")
           /\ \/ Goto("R", "choose") /\ listed' = TRUE /\ Show("R", "Connected")
              \/ Goto("R", "ask") /\ UNCHANGED <<listed, shown>>
              \/ Goto("R", "err") /\ Show("R", "TooManyAttempts") /\ UNCHANGED listed
           /\ UNCHANGED <<setup, acked, session, nonce, slot, typed, tries, tokens, sending, storing>>
<1>1. PICK m : /\ \E p \in {"files", "reply"} : TakesChunks("R", p, m)
               /\ m.kind = "files" => Goto("R", "choose") /\ listed' = TRUE /\ Show("R", "Connected")
               /\ m.kind = "askPin" => Goto("R", "ask") /\ UNCHANGED <<listed, shown>>
               /\ m.kind = "tooMany" => Goto("R", "err") /\ Show("R", "TooManyAttempts") /\ UNCHANGED listed
               /\ UNCHANGED <<setup, acked, session, nonce, slot, typed, tries, tokens, sending, storing>>
  BY DEF ReceiveFileList
<1>2. pc["R"] \in {"files", "reply"} /\ ~Empty("R")
  BY <1>1, TakesSomething
<1>3. Tables /\ \E k \in {"askPin", "files", "tooMany"} : Two("R", M(k, None))
  <2> USE DEF HInv, Before, After, GivenUp, Opening, ReceiversPin, SendersPin, Passed, Filing, At, Asking
  <2>1. CASE pc["R"] = "files"
    BY <1>2, <2>1
  <2>2. CASE pc["R"] = "reply"
    BY <1>2, <2>2
  <2> QED BY <1>2, <2>1, <2>2
<1>4. m.kind \in {"askPin", "files", "tooMany"}
  <2>1. PICK p : TakesChunks("R", p, m)
    BY <1>1
  <2>2. PICK k \in {"askPin", "files", "tooMany"} : Two("R", M(k, None))
    BY <1>3
  <2>3. m = M(k, None)
    BY <1>3, <2>1, <2>2, TakesTwo DEF Apart
  <2> QED BY <2>2, <2>3 DEF M
<1> QED BY <1>1, <1>2, <1>4, TakesPops

LEMMA ReceiverTalks ==
    ASSUME HInv, Types,
           \/ ReceiveNonce \/ ReceiveToken \/ Rejected \/ ReceiveFileList
           \/ \E chosen \in SUBSET Offered : Select(chosen)
           \/ Decline \/ LeaveChoice
    PROVE  Talks("R")
<1> USE DEF FilingStages
<1>0. /\ "R" \in Sides
      /\ {"token", "rejecting", "files", "verify", "err", "choose", "ask", "receive", "ok"} \subseteq Reached
      /\ {"nonce", "tokenInvalid", "tokenOk", "tokenPin", "tokens", "declined"} \subseteq TextKinds
      /\ None \in Values /\ "nR" \in Values
  BY DEF Sides, Reached, TaskStates, Kinds, TextKinds, Values
<1>1. CASE ReceiveNonce
  <2>1. Send("R", <<M("nonce", "nR")>>, "token") /\ pc["R"] = "nonce" /\ Pops("R")
    BY <1>1, TakesPops DEF ReceiveNonce
  <2>2. Goes("R")
    BY <1>0, <2>1, SendGoes, PlainOnes
  <2> QED BY <1>1, <2>1, <2>2 DEF ReceiveNonce, Talks
<1>2. CASE ReceiveToken
  <2>1. Token("R") \in Values
    <3>1. nonce["R"] \in Seq({"nS", "nR"})
      BY <1>0 DEF Types, QueueType
    <3> QED BY <1>0, <3>1, TokenValue DEF Token
  <2>2. /\ pc["R"] = "token" /\ Pops("R")
        /\ \/ Send("R", <<M("tokenInvalid", None)>>, "rejecting")
           \/ Send("R", <<M("tokenOk", Token("R"))>>, "files")
           \/ Send("R", <<M("tokenPin", Token("R"))>>, "verify")
    BY <1>2, TakesPops DEF ReceiveToken
  <2>3. Goes("R")
    BY <1>0, <2>1, <2>2, SendGoes, PlainOnes
  <2> QED BY <1>2, <2>2, <2>3 DEF ReceiveToken, Talks
<1>3. CASE Rejected
  <2>1. Goes("R")
    BY <1>0, <1>3, GotoGoes DEF Rejected
  <2> QED BY <1>3, <2>1 DEF Rejected, Talks, Pops
<1>4. CASE ReceiveFileList
  <2>1. Goes("R")
    BY <1>0, <1>4, ListReplies, GotoGoes
  <2> QED BY <1>4, <2>1, ListReplies DEF Talks
<1>5. ASSUME NEW chosen \in SUBSET Offered, Select(chosen) PROVE Talks("R")
  <2>1. chosen \in Values
    BY DEF Offered, Types, SessionType, Setup, Values
  <2>2. Send("R", <<M("tokens", chosen), Delim>>, "receive") /\ pc["R"] = "choose" /\ inbox' = inbox
    BY <1>5 DEF Select, Chunked
  <2>3. Goes("R")
    BY <1>0, <2>1, <2>2, SendGoes, PlainOnes
  <2> QED BY <1>5, <2>2, <2>3 DEF Select, Talks, Pops
<1>6. CASE Decline
  <2>1. Send("R", <<M("declined", None), Delim>>, "ok")
    BY <1>6 DEF Decline, Chunked
  <2>2. Goes("R")
    BY <1>0, <2>1, SendGoes, PlainOnes
  <2> QED BY <1>6, <2>2 DEF Decline, Talks, Pops
<1>7. CASE LeaveChoice
  <2>1. Goes("R")
    BY <1>0, <1>7, GotoGoes DEF LeaveChoice
  <2> QED BY <1>7, <2>1 DEF LeaveChoice, Talks, Pops
<1> QED BY <1>1, <1>2, <1>3, <1>4, <1>5, <1>6, <1>7

LEMMA SenderTalks ==
    ASSUME HInv, Types,
           OpenChannel \/ SendToken \/ TokenResponse \/ SenderPinReply \/ SendFileList \/ ReceiveTokens
    PROVE  Talks("S")
<1> USE DEF FilingStages
<1>0. /\ "S" \in Sides
      /\ {"nonce", "trust", "err", "ask", "list", "selected", "send", "ok"} \subseteq Reached
      /\ {"nonce", "token", "files"} \subseteq TextKinds
      /\ None \in Values /\ "nS" \in Values
  BY DEF Sides, Reached, TaskStates, Kinds, TextKinds, Values
<1>1. CASE OpenChannel
  <2>1. Goes("S")
    BY <1>0, <1>1, SendGoes, PlainOnes DEF OpenChannel
  <2> QED BY <1>1, <2>1 DEF OpenChannel, Talks, Pops
<1>2. CASE SendToken
  <2>0. M("nonce", "nR").val = "nR"
    BY DEF M
  <2>1. nonce' = [nonce EXCEPT !["S"] = <<"nS", "nR">>]
    BY <1>2, <2>0 DEF SendToken
  <2>2. nonce'["S"] = <<"nS", "nR">>
    <3>1. DOMAIN nonce = Sides
      BY DEF HInv, Tables
    <3> QED BY <1>0, <2>1, <3>1
  <2>3. PICK token \in Values : token = [key |-> "S", nonce |-> nonce'["S"]]
    <3>1. <<"nS", "nR">> \in Seq({"nS", "nR"})
      OBVIOUS
    <3> QED BY <1>0, <2>2, <3>1, TokenValue
  <2>4. Goes("S")
    <3>1. Send("S", <<M("token", token)>>, "trust")
      BY <1>2, <2>3 DEF SendToken
    <3> QED BY <1>0, <3>1, SendGoes, PlainOnes
  <2>5. Pops("S") /\ pc["S"] = "nonce"
    BY <1>2, TakesPops DEF SendToken
  <2> QED BY <1>2, <2>4, <2>5 DEF SendToken, Talks
<1>3. CASE TokenResponse
  <2>1. /\ pc["S"] = "trust" /\ Pops("S")
        /\ Goto("S", "err") \/ Goto("S", "ask") \/ AfterReceiversPin
    BY <1>3, TakesPops DEF TokenResponse
  <2>2. Goes("S")
    BY <1>0, <2>1, GotoGoes, AfterPinGoes
  <2> QED BY <1>3, <2>1, <2>2 DEF TokenResponse, Talks
<1>4. CASE SenderPinReply
  <2>1. Goes("S")
    BY <1>0, <1>4, PinReplies, GotoGoes, AfterPinGoes
  <2> QED BY <1>4, <2>1, PinReplies DEF Talks
<1>5. CASE SendFileList
  <2>1. Send("S", <<M("files", None), Delim>>, "selected")
    BY <1>5 DEF SendFileList, Chunked
  <2>2. Goes("S")
    BY <1>0, <2>1, SendGoes, PlainOnes
  <2> QED BY <1>5, <2>2 DEF SendFileList, Talks, Pops
<1>6. CASE ReceiveTokens
  <2>1. pc["S"] = "selected" /\ Pops("S") /\ (Goto("S", "send") \/ Goto("S", "ok") \/ Goto("S", "err"))
    BY <1>6, TakesPops DEF ReceiveTokens
  <2>2. Goes("S")
    BY <1>0, <2>1, GotoGoes
  <2> QED BY <1>6, <2>1, <2>2 DEF ReceiveTokens, Talks
<1> QED BY <1>1, <1>2, <1>3, <1>4, <1>5, <1>6

LEMMA PinTalks ==
    ASSUME Types, NEW s \in Sides,
           \/ AskPin(s) \/ OfferSlot(s) \/ VerifyPin(s) \/ GiveUpPin(s)
           \/ LeavePin(s) \/ \E p \in Pins : TypePin(s, p)
    PROVE  Talks(s)
<1> USE DEF FilingStages
<1>0. /\ {"slot", "user", "files", "list", "tooMany", "verify", "err", "reply"} \subseteq Reached
      /\ {"pinOk", "pinTooMany", "pinAgain", "tooMany", "askPin", "pin"} \subseteq TextKinds
      /\ None \in Values /\ Pins \subseteq Values
  BY DEF Reached, TaskStates, Kinds, TextKinds, Values
<1>1. CASE AskPin(s)
  <2>1. Goes(s)
    BY <1>0, <1>1, GotoGoes DEF AskPin
  <2> QED BY <1>1, <2>1 DEF AskPin, Talks, Pops
<1>2. CASE OfferSlot(s)
  <2>1. Goes(s)
    BY <1>0, <1>2, GotoGoes DEF OfferSlot
  <2> QED BY <1>2, <2>1 DEF OfferSlot, Talks, Pops
<1>3. CASE VerifyPin(s)
  <2>1. /\ pc[s] = "verify" /\ Pops(s)
        /\ \/ Send(s, <<M("pinOk", None)>>, "files")
           \/ Goto(s, "list")
           \/ Send(s, TooManyAttempts(s), "tooMany")
           \/ Send(s, PinRequired(s), "verify")
    BY <1>3, TakesPops DEF VerifyPin
  <2>2. TooManyAttempts(s) \in Seq(PlainMessage) /\ PinRequired(s) \in Seq(PlainMessage)
    BY <1>0, PlainOnes DEF TooManyAttempts, PinRequired, Chunked
  <2>3. Goes(s)
    BY <1>0, <2>1, <2>2, SendGoes, GotoGoes, PlainOnes
  <2> QED BY <1>3, <2>1, <2>3 DEF VerifyPin, Talks
<1>4. CASE GiveUpPin(s)
  <2>1. Goes(s)
    BY <1>0, <1>4, GotoGoes DEF GiveUpPin
  <2> QED BY <1>4, <2>1 DEF GiveUpPin, Talks, Pops
<1>5. CASE LeavePin(s)
  <2>1. Goes(s)
    BY <1>0, <1>5, GotoGoes DEF LeavePin
  <2> QED BY <1>5, <2>1 DEF LeavePin, Talks, Pops
<1>6. ASSUME NEW p \in Pins, TypePin(s, p) PROVE Talks(s)
  <2>1. Goes(s)
    BY <1>0, <1>6, SendGoes, PlainOnes DEF TypePin
  <2> QED BY <1>6, <2>1 DEF TypePin, Talks, Pops
<1> QED BY <1>1, <1>2, <1>3, <1>4, <1>5, <1>6

LEMMA HandshakeTalks ==
    ASSUME HInv, Types, HandshakeStep PROVE \E s \in Sides : Talks(s)
BY ReceiverTalks, SenderTalks, PinTalks DEF HandshakeStep, PinStep, Sides

LEMMA SessionTypeStep == ASSUME HInv, Types, [Next]_vars PROVE SessionType'
<1>0. SessionType
  BY DEF Types
<1>a. ASSUME UNCHANGED <<setup, session>>, Shows PROVE SessionType'
  BY <1>0, <1>a, ShownType DEF SessionType, session
<1>1. CASE OuterStep
  <2>1. setup' = setup /\ lost' = lost /\ cut' = cut
    BY <1>1 DEF OuterStep, AnswerOffer, AnswerSent, AnswerArrives, TaskDone, TaskFailed, ConnectionDone
  <2>2. \E s \in Sides, st \in OuterStates : outer' = [outer EXCEPT ![s] = st]
    BY <1>1 DEF OuterStep, AnswerOffer, AnswerSent, AnswerArrives, TaskDone, TaskFailed, ConnectionDone,
       Sides, OuterStates
  <2>3. closed' = closed \/ \E s \in Sides : closed' = [closed EXCEPT ![s] = TRUE]
    BY <1>1 DEF OuterStep, AnswerOffer, AnswerSent, AnswerArrives, TaskDone, TaskFailed, ConnectionDone
  <2>4. Shows
    BY <1>1 DEF OuterStep, AnswerOffer, AnswerSent, AnswerArrives, TaskDone, TaskFailed, ConnectionDone,
       Shows, Sides, Status
  <2> QED BY <1>0, <2>1, <2>2, <2>3, <2>4, ShownType DEF SessionType
<1>2. CASE SenderStep
  <2>1. UNCHANGED <<setup, session>>
    BY <1>2 DEF SenderStep, OpenChannel, SendToken, TokenResponse, SenderPinReply, SendFileList,
       ReceiveTokens, SendDelimiter, ReceiveLast
  <2>2. Shows
    <3>1. AfterReceiversPin => Shows
      BY DEF AfterReceiversPin, Shows, Sides, Status
    <3>2. CASE TokenResponse
      BY <3>1, <3>2 DEF TokenResponse, Shows
    <3>3. CASE SenderPinReply
      BY <3>1, <3>3, PinReplies DEF Shows, Sides, Status
    <3>4. CASE ReceiveTokens \/ SendFileList
      BY <3>4 DEF ReceiveTokens, SendFileList, Shows, Sides, Status
    <3> QED BY <1>2, <3>2, <3>3, <3>4 DEF SenderStep, OpenChannel, SendToken, SendDelimiter, ReceiveLast, Shows
  <2> QED BY <2>1, <2>2, <1>a
<1>3. CASE ReceiverStep
  <2>1. UNCHANGED <<setup, session>>
    BY <1>3 DEF ReceiverStep, ReceiveNonce, ReceiveToken, Rejected, ReceiveFileList, ReceiveText,
       ReceiveData, SendResult, Drained
  <2>2. Shows
    <3>1. CASE ReceiveToken
      BY <3>1 DEF ReceiveToken, Shows, Sides, Status
    <3>2. CASE ReceiveFileList
      BY <3>2, ListReplies DEF Shows, Sides, Status
    <3> QED BY <1>3, <3>1, <3>2 DEF ReceiverStep, ReceiveNonce, Rejected, ReceiveText,
                                    ReceiveData, SendResult, Drained, Shows
  <2> QED BY <2>1, <2>2, <1>a
<1>4. CASE PinStep
  BY <1>4, <1>a DEF PinStep, AskPin, OfferSlot, VerifyPin, GiveUpPin, Shows, Status
<1>5. CASE DriverStep
  BY <1>5, <1>a DEF DriverStep, SendChunk, EndFile, NoMoreFiles, SendFile, Report, Shows
<1>6. CASE UserStep
  BY <1>6, <1>a DEF UserStep, LeavePin, TypePin, Select, Decline, LeaveChoice, WriteFails, Shows
<1>7. CASE NetworkStep
  BY <1>0, <1>7 DEF NetworkStep, Acknowledge, Deliver, Disconnected, session, SessionType
<1>8. CASE UNCHANGED vars
  BY <1>8, <1>a DEF vars, Shows
<1> QED BY <1>1, <1>2, <1>3, <1>4, <1>5, <1>6, <1>7, <1>8 DEF Next

-----------------------------------------------------------------------------
LEMMA PlainIsMessage == PlainMessage \subseteq Message
BY DEF Message

LEMMA TalksType ==
    ASSUME Types, NEW s \in Sides, Talks(s)
    PROVE  /\ pc' \in [Sides -> TaskStates]
           /\ wire' \in [Sides -> Seq(Message)] /\ inbox' \in [Sides -> Seq(Message)]
           /\ \A t \in Sides : Len(inbox'[t]) <= Cap
<1>1. /\ pc \in [Sides -> TaskStates] /\ wire \in [Sides -> Seq(Message)] /\ inbox \in [Sides -> Seq(Message)]
      /\ \A t \in Sides : Len(inbox[t]) <= Cap
  BY DEF Types, QueueType
<1>2. PICK to \in Reached, ms \in Seq(PlainMessage) :
        /\ pc' = [pc EXCEPT ![s] = to]
        /\ wire' = wire \/ wire' = [wire EXCEPT ![Peer(s)] = @ \o ms]
  BY DEF Talks, Goes
<1>3. pc' \in [Sides -> TaskStates]
  BY <1>1, <1>2 DEF Reached
<1>4. wire' \in [Sides -> Seq(Message)]
  <2>1. ms \in Seq(Message) /\ Peer(s) \in Sides
    BY PlainIsMessage DEF Peer, Sides
  <2>2. wire[Peer(s)] \o ms \in Seq(Message)
    BY <1>1, <2>1
  <2> QED BY <1>1, <1>2, <2>1, <2>2
<1>5. inbox[s] # <<>> => /\ Tail(inbox[s]) \in Seq(Message) /\ Len(Tail(inbox[s])) <= Cap
                         /\ Len(inbox[s]) > 1 => /\ Tail(Tail(inbox[s])) \in Seq(Message)
                                                 /\ Len(Tail(Tail(inbox[s]))) <= Cap
  <2>1. inbox[s] \in Seq(Message) /\ Len(inbox[s]) <= Cap /\ Cap \in Nat
    BY <1>1, CountsAssumption
  <2>2. ASSUME inbox[s] # <<>> PROVE Tail(inbox[s]) \in Seq(Message) /\ Len(Tail(inbox[s])) = Len(inbox[s]) - 1
    BY <2>1, <2>2
  <2>3. ASSUME inbox[s] # <<>>, Len(inbox[s]) > 1
        PROVE  /\ Tail(Tail(inbox[s])) \in Seq(Message)
               /\ Len(Tail(Tail(inbox[s]))) = Len(inbox[s]) - 2
    <3>1. PICK q \in Seq(Message) : q = Tail(inbox[s])
      BY <2>2, <2>3
    <3>2. Len(q) = Len(inbox[s]) - 1 /\ Len(q) > 0
      BY <2>1, <2>2, <2>3, <3>1
    <3>3. q # <<>>
      BY <3>2
    <3>4. Tail(q) \in Seq(Message) /\ Len(Tail(q)) = Len(q) - 1
      BY <3>1, <3>3
    <3>5. PICK n \in Nat : n = Len(inbox[s])
      BY <2>1, LenProperties
    <3>6. Len(Tail(q)) = n - 1 - 1
      BY <3>2, <3>4, <3>5
    <3>7. n - 1 - 1 = n - 2
      OBVIOUS
    <3> QED BY <3>1, <3>4, <3>5, <3>6, <3>7
  <2> QED BY <2>1, <2>2, <2>3, LenProperties
<1>6. inbox' \in [Sides -> Seq(Message)] /\ \A t \in Sides : Len(inbox'[t]) <= Cap
  BY <1>1, <1>5 DEF Talks, Pops
<1> QED BY <1>3, <1>4, <1>6

LEMMA NonceType == ASSUME HInv, Types, [Next]_vars PROVE nonce' \in [Sides -> Seq({"nS", "nR"})]
<1>0. nonce \in [Sides -> Seq({"nS", "nR"})]
  BY DEF Types, QueueType
<1>1. <<"nS", "nR">> \in Seq({"nS", "nR"})
  OBVIOUS
<1>2. M("nonce", "nR").val = "nR" /\ M("nonce", "nS").val = "nS"
  BY DEF M
<1>3. CASE ReceiveNonce
  <2>1. nonce' = [nonce EXCEPT !["R"] = <<"nS", "nR">>]
    BY <1>2, <1>3 DEF ReceiveNonce
  <2> QED BY <1>0, <1>1, <2>1
<1>4. CASE SendToken
  <2>1. nonce' = [nonce EXCEPT !["S"] = <<"nS", "nR">>]
    BY <1>2, <1>4 DEF SendToken
  <2> QED BY <1>0, <1>1, <2>1
<1>5. ASSUME ~ReceiveNonce, ~SendToken PROVE nonce' = nonce
  <2>1. CASE OuterStep
    BY <2>1 DEF OuterStep, AnswerOffer, AnswerSent, AnswerArrives, TaskDone, TaskFailed, ConnectionDone
  <2>2. CASE SenderStep
    BY <1>5, <2>2 DEF SenderStep, OpenChannel, TokenResponse, SenderPinReply, SendFileList,
       ReceiveTokens, SendDelimiter, ReceiveLast
  <2>3. CASE ReceiverStep
    BY <1>5, <2>3 DEF ReceiverStep, ReceiveToken, Rejected, ReceiveFileList, ReceiveText,
       ReceiveData, SendResult, Drained
  <2>4. CASE PinStep
    BY <2>4 DEF PinStep, AskPin, OfferSlot, VerifyPin, GiveUpPin
  <2>5. CASE DriverStep
    BY <2>5 DEF DriverStep, SendChunk, EndFile, NoMoreFiles, SendFile, Report
  <2>6. CASE UserStep
    BY <2>6 DEF UserStep, LeavePin, TypePin, Select, Decline, LeaveChoice, WriteFails
  <2>7. CASE NetworkStep
    BY <2>7 DEF NetworkStep, Acknowledge, Deliver, Disconnected
  <2>8. CASE UNCHANGED vars
    BY <2>8 DEF vars
  <2> QED BY <2>1, <2>2, <2>3, <2>4, <2>5, <2>6, <2>7, <2>8 DEF Next
<1> QED BY <1>0, <1>3, <1>4, <1>5

-----------------------------------------------------------------------------
(* Types: users *)

\* A task that sends or goes on is at next or has failed.
LEMMA SendMoves ==
    ASSUME NEW s \in Sides, NEW ms, NEW next, Send(s, ms, next)
    PROVE  \E to \in {next, "err"} : pc' = [pc EXCEPT ![s] = to]
BY DEF Send

LEMMA UsersStay ==
    ASSUME UserType, UNCHANGED <<users, tokens>>,
           \A t \in Sides : pc'[t] \in ToVerify(t) => pc[t] \in ToVerify(t)
    PROVE  UserType'
BY DEF UserType, users, ToVerify

LEMMA MoveStays ==
    ASSUME UserType, UNCHANGED <<users, tokens>>, pc \in [Sides -> TaskStates], NEW s \in Sides, NEW to,
           pc' = [pc EXCEPT ![s] = to], to \in ToVerify(s) => pc[s] \in ToVerify(s)
    PROVE  UserType'
<1>1. \A t \in Sides : pc'[t] = IF t = s THEN to ELSE pc[t]
  OBVIOUS
<1> QED BY <1>1, UsersStay

LEMMA ErrIsLate == \A s \in Sides : "err" \notin ToVerify(s)
BY DEF ToVerify

LEMMA UserTypeHandshake == ASSUME HInv, Types, HandshakeStep PROVE UserType'
<1>0. /\ UserType /\ pc \in [Sides -> TaskStates] /\ "S" \in Sides /\ "R" \in Sides
      /\ setup \in Setup
  BY DEF Types, QueueType, SessionType, Sides
<1>a. /\ ToVerify("S") = {"open", "nonce", "trust", "ask", "slot", "user", "reply", "verify"}
      /\ ToVerify("R") = {"nonce", "token", "verify"}
  BY DEF ToVerify
<1>b. ASSUME NEW s \in Sides, pc[s] \in ToVerify(s), UNCHANGED <<users, tokens>>,
             \E to : pc' = [pc EXCEPT ![s] = to]
      PROVE  UserType'
  BY <1>0, <1>b, MoveStays
<1>c. ASSUME NEW s \in Sides, UNCHANGED <<users, tokens>>,
             \E to : to \notin ToVerify(s) /\ pc' = [pc EXCEPT ![s] = to]
      PROVE  UserType'
  BY <1>0, <1>c, MoveStays
<1>1. CASE OpenChannel \/ SendToken \/ TokenResponse
  <2>1. AfterReceiversPin => \E to : pc' = [pc EXCEPT !["S"] = to]
    BY <1>0, SendMoves DEF AfterReceiversPin, Goto
  <2>2. \E to : pc' = [pc EXCEPT !["S"] = to]
    BY <1>0, <1>1, <2>1, SendMoves DEF OpenChannel, SendToken, TokenResponse, Goto
  <2>3. UNCHANGED <<users, tokens>> /\ pc["S"] \in {"open", "nonce", "trust"}
    BY <1>1 DEF OpenChannel, SendToken, TokenResponse, Takes
  <2> QED BY <1>0, <1>a, <1>b, <2>2, <2>3
<1>2. CASE SenderPinReply
  <2>1. AfterReceiversPin => \E to : pc' = [pc EXCEPT !["S"] = to]
    BY <1>0, SendMoves DEF AfterReceiversPin, Goto
  <2>2. \E to : pc' = [pc EXCEPT !["S"] = to]
    BY <1>2, <2>1, PinReplies DEF Goto
  <2> QED BY <1>0, <1>2, <1>a, <1>b, <2>2, PinReplies
<1>3. CASE SendFileList
  <2>1. \E to \in {"selected", "err"} : pc' = [pc EXCEPT !["S"] = to]
    BY <1>0, <1>3, SendMoves DEF SendFileList
  <2> QED BY <1>0, <1>3, <1>a, <1>c, <2>1 DEF SendFileList
<1>4. CASE ReceiveTokens
  <2>1. \E to \in {"send", "ok", "err"} : pc' = [pc EXCEPT !["S"] = to]
    BY <1>4 DEF ReceiveTokens, Goto
  <2>2. UserType /\ UNCHANGED users /\ \A t \in Sides : pc'[t] \in ToVerify(t) => pc[t] \in ToVerify(t)
    BY <1>0, <1>4, <1>a, <2>1 DEF ReceiveTokens
  <2>3. tokens' \in [Sides -> SUBSET Files]
    <3>1. PICK m : /\ TakesChunks("S", "selected", m)
                   /\ tokens' = tokens \/ (m.kind = "tokens" /\ tokens' = [tokens EXCEPT !["S"] = m.val])
      BY <1>4 DEF ReceiveTokens
    <3>2. pc["S"] = "selected" /\ ~Empty("S")
      BY <3>1, TakesSomething
    <3>3. Tables /\ (Two("S", M("tokens", tokens["R"])) \/ Two("S", M("declined", None)))
      BY <3>2 DEF HInv, Before, After, GivenUp, Opening, ReceiversPin, SendersPin, Passed, Filing, At, Asking
    <3>4. m = M("tokens", tokens["R"]) \/ m = M("declined", None)
      BY <3>1, <3>3, TakesTwo DEF Apart
    <3>5. m.kind = "tokens" => m.val = tokens["R"]
      BY <3>4 DEF M
    <3> QED BY <1>0, <3>1, <3>5 DEF UserType
  <2> QED BY <2>2, <2>3 DEF UserType, users
<1>5. CASE ReceiveNonce \/ ReceiveToken
  <2>1. \E to : pc' = [pc EXCEPT !["R"] = to]
    BY <1>0, <1>5, SendMoves DEF ReceiveNonce, ReceiveToken
  <2>2. UNCHANGED <<users, tokens>> /\ pc["R"] \in {"nonce", "token"}
    BY <1>5 DEF ReceiveNonce, ReceiveToken, Takes
  <2> QED BY <1>0, <1>a, <1>b, <2>1, <2>2
<1>6. CASE Rejected \/ Decline \/ LeaveChoice
  <2>1. \E to \in {"ok", "err"} : pc' = [pc EXCEPT !["R"] = to]
    BY <1>0, <1>6, SendMoves DEF Rejected, Decline, LeaveChoice, Goto
  <2> QED BY <1>0, <1>6, <1>a, <1>c, <2>1 DEF Rejected, Decline, LeaveChoice
<1>7. CASE ReceiveFileList
  <2>1. \E to \in {"choose", "ask", "err"} : pc' = [pc EXCEPT !["R"] = to]
    BY <1>7, ListReplies DEF Goto
  <2>2. \A t \in Sides : pc'[t] \in ToVerify(t) => pc[t] \in ToVerify(t)
    BY <1>0, <1>a, <2>1
  <2>3. listed' \in BOOLEAN /\ UNCHANGED <<slot, typed, tries, tokens>>
    BY <1>0, <1>7, ListReplies DEF UserType
  <2> QED BY <1>0, <2>2, <2>3 DEF UserType
<1>8. ASSUME NEW chosen \in SUBSET Offered, Select(chosen) PROVE UserType'
  <2>1. \E to \in {"receive", "err"} : pc' = [pc EXCEPT !["R"] = to]
    BY <1>0, <1>8, SendMoves DEF Select
  <2>2. \A t \in Sides : pc'[t] \in ToVerify(t) => pc[t] \in ToVerify(t)
    BY <1>0, <1>a, <2>1
  <2>3. chosen \subseteq Files
    BY <1>0 DEF Offered, Setup
  <2>4. tokens' \in [Sides -> SUBSET Files] /\ UNCHANGED users
    BY <1>0, <1>8, <2>3 DEF Select, UserType
  <2> QED BY <1>0, <2>2, <2>4 DEF UserType, users
<1>9. ASSUME NEW s \in Sides, AskPin(s) \/ OfferSlot(s) \/ GiveUpPin(s) \/ LeavePin(s)
      PROVE  UserType'
  <2>1. PICK to \in {"slot", "user", "err"} :
           pc' = [pc EXCEPT ![s] = to] /\ (to # "err" => pc[s] \in {"ask", "slot"})
    BY <1>9 DEF AskPin, OfferSlot, GiveUpPin, LeavePin, Goto
  <2>2. \A t \in Sides : pc'[t] \in ToVerify(t) => pc[t] \in ToVerify(t)
    BY <1>0, <2>1 DEF ToVerify, Sides
  <2>3. slot' \in [Sides -> BOOLEAN] /\ UNCHANGED <<typed, tries, listed, tokens>>
    BY <1>0, <1>9 DEF AskPin, OfferSlot, GiveUpPin, LeavePin, users, UserType
  <2> QED BY <1>0, <2>2, <2>3 DEF UserType
<1>10. ASSUME NEW s \in Sides, NEW p \in Pins, TypePin(s, p) PROVE UserType'
  <2>1. PICK to \in {"reply", "err"} : pc' = [pc EXCEPT ![s] = to]
    BY <1>10, SendMoves DEF TypePin
  <2>2. \A t \in Sides : pc'[t] \in ToVerify(t) => pc[t] \in ToVerify(t)
    BY <1>0, <1>10, <2>1 DEF ToVerify, Sides, TypePin
  <2>3. slot' \in [Sides -> BOOLEAN] /\ typed' \in [Sides -> Pins \cup {None}] /\ UNCHANGED <<tries, listed, tokens>>
    BY <1>0, <1>10 DEF TypePin, UserType
  <2> QED BY <1>0, <2>2, <2>3 DEF UserType
<1>11. ASSUME NEW s \in Sides, VerifyPin(s) PROVE UserType'
  <2>1. /\ tries' = [tries EXCEPT ![s] = @ + 1] /\ pc[s] = "verify"
        /\ UNCHANGED <<slot, typed, listed, tokens>>
    BY <1>11 DEF VerifyPin, Takes
  <2>2. tries[s] \in 0..MaxTries /\ tries[s] < MaxTries /\ MaxTries \in Nat
    BY <1>0, <2>1, CountsAssumption DEF UserType, ToVerify
  <2>3. tries[s] + 1 \in 0..MaxTries /\ tries'[s] = tries[s] + 1
    BY <1>0, <2>1, <2>2 DEF UserType
  <2>4. tries' \in [Sides -> 0..MaxTries]
    BY <1>0, <2>1, <2>3 DEF UserType
  <2>5. \E to \in {"files", "list", "tooMany", "err", "verify"} :
           pc' = [pc EXCEPT ![s] = to] /\ (to = "verify" => ~OutOfTries(tries'[s]))
    BY <1>11, SendMoves DEF VerifyPin, Goto
  <2>6. tries'[s] < MaxTries \/ pc'[s] \notin ToVerify(s)
    BY <1>0, <2>2, <2>3, <2>5 DEF OutOfTries, ToVerify
  <2>7. \A t \in Sides \ {s} : pc'[t] = pc[t] /\ tries'[t] = tries[t]
    BY <1>0, <2>1, <2>5 DEF UserType
  <2> QED BY <1>0, <2>1, <2>4, <2>6, <2>7 DEF UserType, ToVerify
<1> QED BY <1>1, <1>2, <1>3, <1>4, <1>5, <1>6, <1>7, <1>8, <1>9, <1>10, <1>11 DEF HandshakeStep, PinStep

-----------------------------------------------------------------------------
(* The line of messages to R *)

LEMMA TailSteps ==
    ASSUME NEW q \in Seq(Message), q # <<>>
    PROVE  /\ Tail(q) \in Seq(Message) /\ Len(Tail(q)) = Len(q) - 1 /\ Len(q) \in Nat /\ Len(q) > 0
           /\ \A i \in 1..(Len(q) - 1) : Tail(q)[i] = q[i + 1]
           /\ Head(q) = q[1] /\ Head(q) \in Message
<1>1. Len(q) > 0 /\ Len(q) \in Nat
  BY EmptySeq, LenProperties
<1>2. Tail(q) \in Seq(Message) /\ Len(Tail(q)) = Len(q) - 1 /\ Head(q) \in Message
  BY HeadTailProperties
<1>3. \A i \in 1..Len(Tail(q)) : Tail(q)[i] = q[i + 1]
  BY HeadTailProperties
<1>4. Head(q) = q[1]
  BY <1>1
<1> QED BY <1>1, <1>2, <1>3, <1>4

LEMMA AppendSteps ==
    ASSUME NEW q \in Seq(Message), NEW m \in Message
    PROVE  /\ Append(q, m) \in Seq(Message) /\ Len(Append(q, m)) = Len(q) + 1
           /\ \A i \in 1..Len(q) : Append(q, m)[i] = q[i]
           /\ Append(q, m)[Len(q) + 1] = m
BY AppendProperties

\* A message is delivered: the line stays the same.
LEMMA LineDelivers ==
    ASSUME NEW d, NEW a \in Seq(Message), NEW b \in Seq(Message), b # <<>>
    PROVE  /\ LineOf(d, Append(a, Head(b)), Tail(b)) = LineOf(d, a, b)
           /\ LineLength(Append(a, Head(b)), Tail(b)) = LineLength(a, b)
<1>0. Len(Tail(b)) = Len(b) - 1 /\ \A i \in 1..(Len(b) - 1) : Tail(b)[i] = b[i + 1]
  BY TailSteps
<1>1. PICK c : c = Tail(b) /\ Len(c) = Len(b) - 1 /\ \A i \in 1..(Len(b) - 1) : c[i] = b[i + 1]
  BY <1>0, Zenon
<1>2. Head(b) = b[1] /\ Head(b) \in Message /\ Len(b) \in Nat /\ Len(b) > 0 /\ Len(a) \in Nat
  BY TailSteps, LenProperties
<1>3. PICK e : /\ e = Append(a, Head(b)) /\ Len(e) = Len(a) + 1
               /\ (\A i \in 1..Len(a) : e[i] = a[i]) /\ e[Len(a) + 1] = b[1]
  BY <1>2, AppendSteps
<1>4. LineLength(e, c) = LineLength(a, b) /\ LineLength(a, b) \in Nat
  BY <1>1, <1>2, <1>3 DEF LineLength
<1>5. ASSUME NEW i \in 1..LineLength(a, b) PROVE LineOf(d, e, c)[i] = LineOf(d, a, b)[i]
  <2>1. LineOf(d, a, b)[i] = IF i = 1 THEN d ELSE IF i <= 1 + Len(a) THEN a[i - 1] ELSE b[i - 1 - Len(a)]
    BY DEF LineOf
  <2>2. LineOf(d, e, c)[i] = IF i = 1 THEN d ELSE IF i <= 1 + Len(e) THEN e[i - 1] ELSE c[i - 1 - Len(e)]
    BY <1>4 DEF LineOf
  <2>3. CASE i <= 1 + Len(a)
    BY <1>2, <1>3, <2>1, <2>2, <2>3
  <2>4. CASE i = 2 + Len(a)
    <3>1. i - 1 - Len(a) = 1 /\ i - 1 = Len(a) + 1
      BY <1>2, <2>4
    <3> QED BY <1>2, <1>3, <2>1, <2>2, <2>4, <3>1
  <2>5. CASE i > 2 + Len(a)
    <3>1. i - 1 - Len(e) \in 1..(Len(b) - 1) /\ i - 1 - Len(a) = (i - 1 - Len(e)) + 1
      BY <1>2, <1>3, <2>5 DEF LineLength
    <3> QED BY <1>1, <1>2, <1>3, <2>1, <2>2, <2>5, <3>1
  <2> QED BY <1>2, <2>3, <2>4, <2>5
<1>6. LineOf(d, e, c) = LineOf(d, a, b)
  BY <1>4, <1>5 DEF LineOf
<1> QED BY <1>1, <1>3, <1>4, <1>6

\* A message is sent: it is the last of the line.
LEMMA LineGrows ==
    ASSUME NEW d, NEW a \in Seq(Message), NEW b \in Seq(Message), NEW m \in Message
    PROVE  LET n == LineLength(a, b)
           IN  /\ n \in Nat \ {0} /\ LineLength(a, Append(b, m)) = n + 1
               /\ \A i \in 1..n : LineOf(d, a, Append(b, m))[i] = LineOf(d, a, b)[i]
               /\ LineOf(d, a, Append(b, m))[n + 1] = m
<1>1. PICK c : c = Append(b, m) /\ Len(c) = Len(b) + 1 /\ (\A i \in 1..Len(b) : c[i] = b[i]) /\ c[Len(b) + 1] = m
  BY AppendSteps
<1>2. Len(b) \in Nat /\ Len(a) \in Nat
  BY LenProperties
<1>3. LineLength(a, c) = LineLength(a, b) + 1 /\ LineLength(a, b) \in Nat \ {0} /\ LineLength(a, b) = 1 + Len(a) + Len(b)
  BY <1>1, <1>2 DEF LineLength
<1>4. ASSUME NEW i \in 1..LineLength(a, b) PROVE LineOf(d, a, c)[i] = LineOf(d, a, b)[i]
  <2>1. LineOf(d, a, b)[i] = IF i = 1 THEN d ELSE IF i <= 1 + Len(a) THEN a[i - 1] ELSE b[i - 1 - Len(a)]
    BY DEF LineOf
  <2>2. LineOf(d, a, c)[i] = IF i = 1 THEN d ELSE IF i <= 1 + Len(a) THEN a[i - 1] ELSE c[i - 1 - Len(a)]
    BY <1>3 DEF LineOf
  <2>3. i > 1 + Len(a) => i - 1 - Len(a) \in 1..Len(b)
    BY <1>2, <1>3
  <2> QED BY <1>1, <2>1, <2>2, <2>3
<1>5. LineOf(d, a, c)[LineLength(a, b) + 1] = m
  <2>1. LineLength(a, b) + 1 - 1 - Len(a) = Len(b) + 1 /\ LineLength(a, b) + 1 > 1 + Len(a)
    BY <1>2, <1>3
  <2> QED BY <1>1, <1>2, <1>3, <2>1 DEF LineOf
<1> QED BY <1>1, <1>3, <1>4, <1>5

\* R's task takes a message and has dealt with it: the line loses its first.
LEMMA LineMoves ==
    ASSUME NEW d, NEW a \in Seq(Message), NEW b \in Seq(Message), a # <<>>
    PROVE  LET n == LineLength(a, b)
           IN  /\ n \in Nat /\ n > 1 /\ LineLength(Tail(a), b) = n - 1
               /\ \A i \in 1..(n - 1) : LineOf(Head(a), Tail(a), b)[i] = LineOf(d, a, b)[i + 1]
               /\ LineOf(d, a, b)[2] = Head(a)
<1>0. Len(Tail(a)) = Len(a) - 1 /\ \A i \in 1..(Len(a) - 1) : Tail(a)[i] = a[i + 1]
  BY TailSteps
<1>1. PICK c : c = Tail(a) /\ Len(c) = Len(a) - 1 /\ \A i \in 1..(Len(a) - 1) : c[i] = a[i + 1]
  BY <1>0, Zenon
<1>2. Head(a) = a[1] /\ Len(a) \in Nat /\ Len(a) > 0 /\ Len(b) \in Nat
  BY TailSteps, LenProperties
<1>3. /\ LineLength(c, b) = LineLength(a, b) - 1 /\ LineLength(a, b) \in Nat /\ LineLength(a, b) > 1
      /\ LineLength(a, b) = 1 + Len(a) + Len(b)
  BY <1>1, <1>2 DEF LineLength
<1>4. ASSUME NEW i \in 1..(LineLength(a, b) - 1) PROVE LineOf(Head(a), c, b)[i] = LineOf(d, a, b)[i + 1]
  <2>1. LineOf(d, a, b)[i + 1] = IF i + 1 <= 1 + Len(a) THEN a[i + 1 - 1] ELSE b[i + 1 - 1 - Len(a)]
    BY <1>3 DEF LineOf
  <2>2. LineOf(Head(a), c, b)[i] = IF i = 1 THEN Head(a) ELSE IF i <= 1 + Len(c) THEN c[i - 1] ELSE b[i - 1 - Len(c)]
    BY <1>3 DEF LineOf
  <2>3. CASE i = 1
    BY <1>2, <2>1, <2>2, <2>3
  <2>4. CASE i # 1 /\ i <= Len(a)
    <3>1. PICK j \in 1..(Len(a) - 1) : j = i - 1 /\ i + 1 - 1 = j + 1
      BY <1>2, <2>4
    <3> QED BY <1>1, <1>2, <2>1, <2>2, <2>4, <3>1
  <2>5. CASE i # 1 /\ i > Len(a)
    <3>1. i + 1 - 1 - Len(a) = i - 1 - Len(c)
      BY <1>1, <1>2
    <3> QED BY <1>1, <1>2, <2>1, <2>2, <2>5, <3>1
  <2> QED BY <1>2, <2>3, <2>4, <2>5
<1>5. LineOf(d, a, b)[2] = Head(a)
  BY <1>2, <1>3 DEF LineOf
<1> QED BY <1>1, <1>3, <1>4, <1>5

\* What is on the wire is lost: the line is a part of what it was.
LEMMA LineShrinks ==
    ASSUME NEW d, NEW a \in Seq(Message), NEW b \in Seq(Message)
    PROVE  LET n == LineLength(a, <<>>)
           IN  /\ n \in Nat \ {0} /\ n <= LineLength(a, b) /\ LineLength(a, b) \in Nat
               /\ \A i \in 1..n : LineOf(d, a, <<>>)[i] = LineOf(d, a, b)[i]
<1>1. Len(<<>>) = 0 /\ Len(a) \in Nat /\ Len(b) \in Nat
  BY EmptySeq, LenProperties
<1> DEFINE e == <<>>
<1>2. Len(e) = 0
  BY <1>1
<1> HIDE DEF e
<1>3. /\ LineLength(a, e) \in Nat \ {0} /\ LineLength(a, e) <= LineLength(a, b) /\ LineLength(a, b) \in Nat
      /\ LineLength(a, e) = 1 + Len(a)
  BY <1>1, <1>2 DEF LineLength
<1>4. ASSUME NEW i \in 1..LineLength(a, e) PROVE LineOf(d, a, e)[i] = LineOf(d, a, b)[i]
  BY <1>1, <1>3 DEF LineOf
<1> QED BY <1>3, <1>4 DEF e

-----------------------------------------------------------------------------
(* Types: queues *)

LEMMA BothSides == "S" \in Sides /\ "R" \in Sides /\ Peer("S") = "R" /\ Peer("R") = "S"
BY DEF Sides, Peer

\* What a step does to the queues: at most one message is taken and one is sent.
PcMoves == pc' = pc \/ \E s \in Sides, to \in TaskStates : pc' = [pc EXCEPT ![s] = to]
WireGrows == wire' = wire \/ \E s \in Sides, m \in Message : wire' = [wire EXCEPT ![s] = Append(@, m)]
InboxPops == inbox' = inbox \/ \E s \in Sides : inbox[s] # <<>> /\ inbox' = [inbox EXCEPT ![s] = Tail(@)]

LEMMA QueuesStay ==
    ASSUME QueueType, PcMoves, WireGrows, InboxPops, nonce' = nonce PROVE QueueType'
<1>1. /\ pc \in [Sides -> TaskStates] /\ wire \in [Sides -> Seq(Message)] /\ inbox \in [Sides -> Seq(Message)]
      /\ \A s \in Sides : Len(inbox[s]) <= Cap
  BY DEF QueueType
<1>2. pc' \in [Sides -> TaskStates]
  BY <1>1 DEF PcMoves
<1>3. wire' \in [Sides -> Seq(Message)]
  <2>1. \A s \in Sides, m \in Message : Append(wire[s], m) \in Seq(Message)
    BY <1>1, AppendSteps
  <2> QED BY <1>1, <2>1 DEF WireGrows
<1>4. inbox' \in [Sides -> Seq(Message)] /\ \A s \in Sides : Len(inbox'[s]) <= Cap
  <2>1. ASSUME NEW s \in Sides, inbox[s] # <<>>
        PROVE  Tail(inbox[s]) \in Seq(Message) /\ Len(Tail(inbox[s])) <= Cap
    <3>1. PICK q \in Seq(Message) : q = inbox[s] /\ q # <<>> /\ Len(q) <= Cap
      BY <1>1, <2>1
    <3>2. Tail(q) \in Seq(Message) /\ Len(Tail(q)) = Len(q) - 1 /\ Len(q) \in Nat
      BY <3>1, TailSteps
    <3> QED BY <3>1, <3>2, CountsAssumption
  <2> QED BY <1>1, <2>1 DEF InboxPops
<1> QED BY <1>2, <1>3, <1>4 DEF QueueType

\* What the sending of one message does.
LEMMA SendsLast ==
    ASSUME QueueType, NEW s \in Sides, NEW m \in Message, NEW next \in TaskStates, Send(s, <<m>>, next)
    PROVE  /\ PcMoves /\ WireGrows
           /\ \/ /\ Up /\ wire' = [wire EXCEPT ![Peer(s)] = Append(@, m)]
                 /\ pc' = [pc EXCEPT ![s] = next]
              \/ /\ ~Up /\ wire' = wire
                 /\ \E to \in {next, "err"} : pc' = [pc EXCEPT ![s] = to]
<1>1. Peer(s) \in Sides /\ "err" \in TaskStates
  BY DEF Peer, Sides, TaskStates
<1>2. wire[Peer(s)] \o <<m>> = Append(wire[Peer(s)], m)
  <2>1. wire[Peer(s)] \in Seq(Message)
    BY <1>1 DEF QueueType
  <2> QED BY <2>1, AppendIsConcat
<1>3. \/ /\ Up /\ wire' = [wire EXCEPT ![Peer(s)] = Append(@, m)]
         /\ pc' = [pc EXCEPT ![s] = next]
      \/ /\ ~Up /\ wire' = wire
         /\ \E to \in {next, "err"} : pc' = [pc EXCEPT ![s] = to]
  BY <1>2 DEF Send
<1> QED BY <1>1, <1>3 DEF PcMoves, WireGrows

LEMMA GotoMoves ==
    ASSUME NEW s \in Sides, NEW next \in TaskStates, Goto(s, next) PROVE PcMoves /\ WireGrows
BY DEF Goto, PcMoves, WireGrows

LEMMA TakesMoves ==
    ASSUME QueueType, NEW s \in Sides, NEW p, NEW m, Takes(s, p, m)
    PROVE  /\ InboxPops /\ m \in Message /\ inbox[s] # <<>> /\ m = Head(inbox[s])
           /\ inbox' = [inbox EXCEPT ![s] = Tail(@)] /\ pc[s] = p
<1>1. inbox[s] # <<>> /\ m = Head(inbox[s]) /\ inbox' = [inbox EXCEPT ![s] = Tail(@)] /\ pc[s] = p
  BY DEF Takes, Oldest
<1>2. inbox[s] \in Seq(Message)
  BY DEF QueueType
<1>3. Head(inbox[s]) \in Message
  BY <1>1, <1>2, HeadTailProperties
<1> QED BY <1>1, <1>3 DEF InboxPops

LEMMA FeedGrows ==
    ASSUME NEW f, NEW m \in Message, NEW count, Feed(f, m, count) PROVE WireGrows
BY BothSides DEF Feed, WireGrows

\* The messages of a file are messages.
LEMMA FileMessages ==
    /\ \A f \in Files : M("header", f) \in Message
    /\ \A f \in Files, n \in Nat \ {0} : M("data", <<f, n>>) \in Message
    /\ \A f \in Files, ok \in BOOLEAN : M("result", <<f, ok>>) \in Message
    /\ Delim \in Message /\ M("nonce", None) \in Message
<1>1. \A f \in Files : M("header", f) \in Message
  BY DEF M, Message
<1>2. \A f \in Files, n \in Nat \ {0} : M("data", <<f, n>>) \in Message
  BY DEF M, Message
<1>3. \A f \in Files, ok \in BOOLEAN : M("result", <<f, ok>>) \in Message
  <2>1. \A f \in Files, ok \in BOOLEAN : <<f, ok>> \in Values
    BY DEF Values
  <2>2. "result" \in TextKinds
    BY DEF TextKinds, Kinds
  <2> QED BY <2>1, <2>2 DEF M, Message, PlainMessage
<1>4. Delim \in Message
  BY DEF Message, PlainMessage
<1>5. M("nonce", None) \in Message
  <2>1. None \in Values /\ "nonce" \in TextKinds
    BY DEF Values, TextKinds, Kinds
  <2> QED BY <2>1 DEF M, Message, PlainMessage
<1> QED BY <1>1, <1>2, <1>3, <1>4, <1>5

-----------------------------------------------------------------------------
(* Types: every step *)

LEMMA OuterFrame ==
    ASSUME OuterStep
    PROVE  UNCHANGED <<setup, pc, wire, inbox, nonce, users, tokens, sending, storing, lost, cut>>
BY DEF OuterStep, AnswerOffer, AnswerSent, AnswerArrives, TaskDone, TaskFailed, ConnectionDone

LEMMA StillTyped ==
    ASSUME QueueType, UserType, FileType,
           UNCHANGED <<pc, wire, inbox, nonce, users, tokens, sending, storing>>
    PROVE  QueueType' /\ UserType' /\ FileType'
<1>1. QueueType'
  BY DEF QueueType
<1>2. UserType'
  BY DEF UserType, users, ToVerify
<1>3. FileType'
  BY DEF FileType, sending, storing
<1> QED BY <1>1, <1>2, <1>3

LEMMA NetworkFrame ==
    ASSUME NetworkStep
    PROVE  UNCHANGED <<setup, outer, closed, pc, shown, nonce, users, tokens, sending, storing>>
BY DEF NetworkStep, Acknowledge, Deliver, Disconnected, session

LEMMA DeliverType ==
    ASSUME QueueType, NEW s \in Sides, Deliver(s) PROVE QueueType'
<1>1. /\ pc \in [Sides -> TaskStates] /\ nonce \in [Sides -> Seq({"nS", "nR"})]
      /\ wire \in [Sides -> Seq(Message)] /\ inbox \in [Sides -> Seq(Message)]
      /\ \A t \in Sides : Len(inbox[t]) <= Cap
  BY DEF QueueType
<1>2. /\ wire[s] # <<>> /\ Len(inbox[s]) < Cap /\ UNCHANGED <<pc, nonce>>
      /\ inbox' = [inbox EXCEPT ![s] = Append(@, Head(wire[s]))]
      /\ wire' = [wire EXCEPT ![s] = Tail(@)]
  BY DEF Deliver
<1>3. Tail(wire[s]) \in Seq(Message) /\ Head(wire[s]) \in Message
  BY <1>1, <1>2, TailSteps
<1>4. Append(inbox[s], Head(wire[s])) \in Seq(Message) /\ Len(Append(inbox[s], Head(wire[s]))) <= Cap
  <2>1. PICK q \in Seq(Message), m \in Message : q = inbox[s] /\ m = Head(wire[s]) /\ Len(q) < Cap
    BY <1>1, <1>2, <1>3
  <2>2. Append(q, m) \in Seq(Message) /\ Len(Append(q, m)) = Len(q) + 1 /\ Len(q) \in Nat
    BY AppendSteps, LenProperties
  <2> QED BY <2>1, <2>2, CountsAssumption
<1> QED BY <1>1, <1>2, <1>3, <1>4 DEF QueueType

LEMMA NetworkType ==
    ASSUME Types, NetworkStep PROVE QueueType' /\ UserType' /\ FileType'
<1>0. QueueType /\ UserType /\ FileType
  BY DEF Types
<1>1. UserType' /\ FileType'
  <2>1. UNCHANGED <<pc, users, tokens, sending, storing>>
    BY NetworkFrame
  <2>2. UserType'
    BY <1>0, <2>1 DEF UserType, users, ToVerify
  <2>3. FileType'
    BY <1>0, <2>1 DEF FileType, sending, storing
  <2> QED BY <2>2, <2>3
<1>2. CASE \E s \in Sides : Deliver(s)
  BY <1>0, <1>1, <1>2, DeliverType
<1>3. CASE \E s \in Sides : Acknowledge(s)
  <2>1. UNCHANGED <<pc, wire, inbox, nonce>>
    BY <1>3 DEF Acknowledge
  <2> QED BY <1>0, <1>1, <2>1 DEF QueueType
<1>4. CASE \E s \in Sides : Disconnected(s)
  <2>1. wire' = [t \in Sides |-> <<>>] /\ UNCHANGED <<pc, inbox, nonce>>
    BY <1>4 DEF Disconnected
  <2>2. wire' \in [Sides -> Seq(Message)]
    BY <2>1, EmptySeq
  <2> QED BY <1>0, <1>1, <2>1, <2>2 DEF QueueType
<1> QED BY <1>2, <1>3, <1>4 DEF NetworkStep

LEMMA HandshakeType ==
    ASSUME HInv, Types, HandshakeStep PROVE QueueType' /\ UserType' /\ FileType'
<1>1. PICK s \in Sides : Talks(s)
  BY HandshakeTalks
<1>2. nonce' \in [Sides -> Seq({"nS", "nR"})]
  <2>1. Next
    BY DEF HandshakeStep, Next, SenderStep, ReceiverStep, UserStep
  <2> QED BY <2>1, NonceType
<1>3. QueueType'
  BY <1>1, <1>2, TalksType DEF QueueType
<1>4. UserType'
  BY UserTypeHandshake
<1>5. FileType'
  <2>1. FileType /\ UNCHANGED <<sending, storing>>
    BY <1>1 DEF Types, Talks
  <2>2. pc'["R"] = "result" => pc["R"] = "result"
    BY <1>1 DEF Talks, Goes, Types, QueueType, Reached
  <2> QED BY <2>1, <2>2 DEF FileType, sending, storing
<1> QED BY <1>3, <1>4, <1>5

\* Files are handled after the PINs.
LEMMA FileStepUsers == ASSUME Types, FileStep PROVE UserType'
<1>0. UserType /\ pc \in [Sides -> TaskStates]
  BY DEF Types, QueueType
<1>1. UNCHANGED <<users, tokens>>
  BY DEF FileStep, SendDelimiter, ReceiveLast, ReceiveText, ReceiveData, SendResult, Drained,
     DriverStep, SendChunk, EndFile, NoMoreFiles, SendFile, Report, WriteFails
<1>2. pc' = pc \/ \E s \in Sides, to \in FilingStages : pc' = [pc EXCEPT ![s] = to]
  BY BothSides DEF FileStep, SendDelimiter, ReceiveLast, ReceiveText, ReceiveData, SendResult, Drained,
     DriverStep, SendChunk, EndFile, NoMoreFiles, SendFile, Report, WriteFails,
     OpenFile, Goto, Send, FilingStages
<1>3. \A s \in Sides : FilingStages \cap ToVerify(s) = {}
  BY DEF FilingStages, ToVerify
<1>4. \A t \in Sides : pc'[t] \in ToVerify(t) => pc[t] \in ToVerify(t)
  BY <1>0, <1>2, <1>3
<1> QED BY <1>0, <1>1, <1>4, UsersStay

LEMMA FileStepQueues == ASSUME HInv, Types, FileStep PROVE QueueType' /\ WireGrows
<1>0. QueueType /\ {"flush", "last", "ok", "receive", "result", "err", "drain"} \subseteq TaskStates
  BY DEF Types, TaskStates
<1>1. nonce' = nonce
  BY DEF FileStep, SendDelimiter, ReceiveLast, ReceiveText, ReceiveData, SendResult, Drained,
     DriverStep, SendChunk, EndFile, NoMoreFiles, SendFile, Report, WriteFails
<1>2. CASE SendDelimiter
  <2>1. Send("S", <<Delim>>, "last") /\ inbox' = inbox
    BY <1>2 DEF SendDelimiter, Delimiter
  <2>2. PcMoves /\ WireGrows
    BY <1>0, <2>1, SendsLast, FileMessages, BothSides
  <2> QED BY <1>0, <1>1, <2>1, <2>2, QueuesStay DEF InboxPops
<1>3. CASE ReceiveLast
  <2>1. InboxPops
    BY <1>0, <1>3, TakesMoves, BothSides DEF ReceiveLast
  <2>2. PcMoves /\ WireGrows
    BY <1>0, <1>3, GotoMoves, BothSides DEF ReceiveLast
  <2> QED BY <1>0, <1>1, <2>1, <2>2, QueuesStay
<1>4. CASE ReceiveText
  <2>1. InboxPops
    BY <1>0, <1>4, TakesMoves, BothSides DEF ReceiveText
  <2>2. PcMoves /\ WireGrows
    BY <1>0, <1>4, GotoMoves, BothSides DEF ReceiveText, OpenFile
  <2> QED BY <1>0, <1>1, <2>1, <2>2, QueuesStay
<1>5. CASE ReceiveData
  <2>1. InboxPops
    BY <1>0, <1>5, TakesMoves, BothSides DEF ReceiveData
  <2>2. PcMoves /\ WireGrows
    BY <1>0, <1>5, GotoMoves, BothSides DEF ReceiveData
  <2> QED BY <1>0, <1>1, <2>1, <2>2, QueuesStay
<1>6. CASE SendResult
  <2>1. PICK ok \in BOOLEAN, next \in {"drain", "receive"} : Send("R", <<M("result", <<filing, ok>>)>>, next)
    <3>1. mailbox # <<>> => Head(mailbox) \in BOOLEAN
      BY HeadTailProperties DEF Types, FileType
    <3>2. (mailbox # <<>> /\ Head(mailbox)) \in BOOLEAN
      BY <3>1
    <3> QED BY <1>6, <3>2 DEF SendResult
  <2>2. filing \in Files
    BY <1>6 DEF SendResult, Types, FileType
  <2>3. PcMoves /\ WireGrows
    BY <1>0, <2>1, <2>2, SendsLast, FileMessages, BothSides
  <2> QED BY <1>0, <1>1, <1>6, <2>3, QueuesStay DEF SendResult, InboxPops
<1>7. CASE Drained \/ NoMoreFiles
  <2>1. PcMoves /\ WireGrows
    BY <1>0, <1>7, GotoMoves, BothSides DEF Drained, NoMoreFiles
  <2> QED BY <1>0, <1>1, <1>7, <2>1, QueuesStay DEF Drained, NoMoreFiles, InboxPops
<1>8. CASE \E f \in Offered : SendFile(f)
  <2>1. PICK f \in Offered : SendFile(f)
    BY <1>8
  <2>2. f \in Files
    BY DEF Types, SessionType, Setup, Offered
  <2>3. WireGrows
    BY <2>1, <2>2, FeedGrows, FileMessages DEF SendFile, WireGrows
  <2> QED BY <1>0, <1>1, <2>1, <2>3, QueuesStay DEF SendFile, PcMoves, InboxPops
<1>9. CASE SendChunk
  <2>1. feeding \in Files /\ fed[feeding] + 1 \in Nat \ {0}
    BY <1>9, CountsAssumption DEF SendChunk, Types, FileType
  <2>2. WireGrows
    BY <1>9, <2>1, FeedGrows, FileMessages DEF SendChunk
  <2> QED BY <1>0, <1>1, <1>9, <2>2, QueuesStay DEF SendChunk, PcMoves, InboxPops
<1>10. CASE EndFile \/ WriteFails \/ \E f \in Offered, ok \in BOOLEAN : Report(f, ok)
  BY <1>0, <1>1, <1>10, QueuesStay DEF EndFile, WriteFails, Report, PcMoves, WireGrows, InboxPops
<1> QED BY <1>2, <1>3, <1>4, <1>5, <1>6, <1>7, <1>8, <1>9, <1>10 DEF FileStep, DriverStep

-----------------------------------------------------------------------------
(* The end *)

\* S gets to its files from the tokens that R sent, and to the end without files from R's
\* refusal, with nothing else on the way.
LEMMA FirstToSend ==
    ASSUME HInv, Types, HandshakeStep, pc'["S"] \in {"send", "flush", "last", "ok"}
    PROVE  /\ ReceiveTokens /\ pc["S"] = "selected" /\ Empty("R") /\ UNCHANGED wire
           /\ inbox'["R"] = inbox["R"] /\ pc'["R"] = pc["R"]
           /\ pc["R"] \in {"receive", "ok", "err"}
           /\ (pc'["S"] \in {"send", "flush"} => pc["R"] \in {"receive", "err"})
           /\ pc'["S"] # "last" /\ Empty("S")' /\ (\A f \in Files : fed[f] = None)
<1>0. /\ pc \in [Sides -> TaskStates] /\ wire \in [Sides -> Seq(Message)] /\ inbox \in [Sides -> Seq(Message)]
  BY DEF Types, QueueType
<1>a. ASSUME NEW to, pc' = [pc EXCEPT !["S"] = to] PROVE to \in {"send", "flush", "last", "ok"}
  BY <1>0, <1>a, BothSides
<1>1. pc'["S"] # pc["S"]
  <2>1. ASSUME pc'["S"] = pc["S"] PROVE FALSE
    <3>1. PICK s \in Sides : Talks(s)
      BY HandshakeTalks
    <3>2. pc["R"] \in {"receive", "result", "drain", "ok", "err"}
      BY <2>1, FileStages
    <3>3. pc[s] \notin FilingStages
      BY <3>1 DEF Talks
    <3> QED BY <2>1, <3>2, <3>3 DEF FilingStages, Sides
  <2> QED BY <2>1
<1>2. ReceiveTokens
  <2>1. AfterReceiversPin => \E to \in {"list", "verify", "err"} : pc' = [pc EXCEPT !["S"] = to]
    BY <1>0, SendMoves, BothSides DEF AfterReceiversPin, Goto
  <2>2. CASE OpenChannel \/ SendToken \/ SendFileList \/ TokenResponse
    <3>1. \E to \in {"nonce", "trust", "err", "selected", "ask", "list", "verify"} : pc' = [pc EXCEPT !["S"] = to]
      BY <1>0, <2>1, <2>2, SendMoves, BothSides DEF OpenChannel, SendToken, SendFileList, TokenResponse, Goto
    <3> QED BY <1>a, <3>1
  <2>3. CASE SenderPinReply
    <3>1. \E to \in {"list", "verify", "err", "ask"} : pc' = [pc EXCEPT !["S"] = to]
      BY <2>1, <2>3, PinReplies DEF Goto
    <3> QED BY <1>a, <3>1
  <2>4. ASSUME ReceiveNonce \/ ReceiveToken \/ Rejected \/ ReceiveFileList \/ Decline \/ LeaveChoice
               \/ \E chosen \in SUBSET Offered : Select(chosen)
        PROVE  FALSE
    <3>1. Talks("R")
      BY <2>4, ReceiverTalks
    <3> QED BY <1>0, <1>1, <3>1, BothSides DEF Talks, Goes
  <2>5. ASSUME NEW s \in Sides, AskPin(s) \/ OfferSlot(s) \/ VerifyPin(s) \/ GiveUpPin(s)
               \/ LeavePin(s) \/ \E p \in Pins : TypePin(s, p)
        PROVE  FALSE
    <3>1. \E to \in {"slot", "user", "files", "list", "tooMany", "verify", "err", "reply"} : pc' = [pc EXCEPT ![s] = to]
      <4>1. CASE VerifyPin(s)
        <5>1. PICK ms : Send(s, ms, "files") \/ Send(s, ms, "tooMany") \/ Send(s, ms, "verify") \/ Goto(s, "list")
          BY <4>1 DEF VerifyPin
        <5> QED BY <5>1, SendMoves DEF Goto
      <4>2. CASE \E p \in Pins : TypePin(s, p)
        BY <4>2, SendMoves DEF TypePin
      <4> QED BY <2>5, <4>1, <4>2 DEF AskPin, OfferSlot, GiveUpPin, LeavePin, Goto
    <3>2. s = "S"
      BY <1>0, <1>1, <3>1, BothSides
    <3> QED BY <1>a, <3>1, <3>2
  <2> QED BY <2>2, <2>3, <2>4, <2>5 DEF HandshakeStep, PinStep
<1>3. PICK m : /\ TakesChunks("S", "selected", m)
               /\ \/ m.kind = "tokens" /\ (Goto("S", "send") \/ Goto("S", "err"))
                  \/ m.kind # "tokens" /\ Goto("S", "ok")
  BY <1>2 DEF ReceiveTokens
<1>4. \/ m.kind = "tokens" /\ Goto("S", "send")
      \/ m.kind # "tokens" /\ Goto("S", "ok")
  BY <1>3, <1>a DEF Goto
<1>5. pc["S"] = "selected" /\ ~Empty("S") /\ inbox' = [inbox EXCEPT !["S"] = Tail(Tail(@))]
  BY <1>3, TakesSomething DEF TakesChunks
<1>6. /\ Tables /\ Empty("R") /\ pc["R"] \in {"receive", "ok", "err"} /\ \A f \in Files : fed[f] = None
      /\ \/ Two("S", M("tokens", tokens["R"])) /\ pc["R"] # "ok"
         \/ Two("S", M("declined", None))
  <2>1. Tables /\ (Before \/ After)
    BY DEF HInv
  <2>2. CASE Before
    BY <1>5, <2>1, <2>2 DEF Before, GivenUp, Opening, ReceiversPin, SendersPin, Passed, At, Asking
  <2>3. CASE After
    BY <1>5, <2>1, <2>3 DEF After, Filing, At
  <2> QED BY <2>1, <2>2, <2>3
<1>7. PICK x : Two("S", x) /\ (x = M("declined", None) \/ pc["R"] # "ok")
  BY <1>6
<1>8. m = x /\ wire["S"] = <<>> /\ inbox'["S"] = <<>>
  BY <1>3, <1>6, <1>7, TakesTwo DEF Apart
<1>9. pc'["S"] \in {"send", "flush"} => pc["R"] # "ok"
  <2>1. pc'["S"] \in {"send", "flush"} => m.kind = "tokens"
    BY <1>0, <1>4, BothSides DEF Goto
  <2> QED BY <1>7, <1>8, <2>1 DEF M
<1>10. UNCHANGED wire /\ pc'["R"] = pc["R"] /\ pc'["S"] # "last" /\ inbox'["R"] = inbox["R"]
  BY <1>0, <1>4, <1>5, BothSides DEF Goto
<1>11. Empty("S")'
  BY <1>8, <1>10 DEF Empty
<1> QED BY <1>2, <1>5, <1>6, <1>9, <1>10, <1>11

\* What a queue holds after a message was taken, sent or delivered.
LEMMA ContentSteps ==
    ASSUME NEW q \in Seq(Message)
    PROVE  /\ Content(<<>>) = {}
           /\ q # <<>> => Content(Tail(q)) \subseteq Content(q) /\ Head(q) \in Content(q)
           /\ \A m \in Message : Content(Append(q, m)) = Content(q) \cup {m}
           /\ Content(q) \subseteq Message
<1>1. Content(<<>>) = {}
  BY EmptySeq DEF Content
<1>2. ASSUME q # <<>> PROVE Content(Tail(q)) \subseteq Content(q) /\ Head(q) \in Content(q)
  <2>1. /\ Len(Tail(q)) = Len(q) - 1 /\ Len(q) \in Nat /\ Len(q) > 0
        /\ \A i \in 1..(Len(q) - 1) : Tail(q)[i] = q[i + 1]
        /\ Head(q) = q[1]
    BY <1>2, TailSteps
  <2>2. ASSUME NEW i \in 1..Len(Tail(q)) PROVE Tail(q)[i] \in Content(q)
    <3>1. i \in 1..(Len(q) - 1) /\ i + 1 \in 1..Len(q)
      BY <2>1
    <3> QED BY <2>1, <3>1 DEF Content
  <2>3. 1 \in 1..Len(q)
    BY <2>1
  <2> QED BY <2>1, <2>2, <2>3 DEF Content
<1>3. ASSUME NEW m \in Message PROVE Content(Append(q, m)) = Content(q) \cup {m}
  <2>1. /\ Len(Append(q, m)) = Len(q) + 1 /\ Append(q, m)[Len(q) + 1] = m
        /\ \A i \in 1..Len(q) : Append(q, m)[i] = q[i]
    BY AppendSteps
  <2>2. Len(q) \in Nat
    BY LenProperties
  <2>3. PICK r : r = Append(q, m)
    OBVIOUS
  <2>4. 1..Len(r) = 1..Len(q) \cup {Len(q) + 1}
    BY <2>1, <2>2, <2>3
  <2>5. Content(r) = Content(q) \cup {m}
    BY <2>1, <2>3, <2>4 DEF Content
  <2> QED BY <2>3, <2>5
<1>4. Content(q) \subseteq Message
  BY ElementOfSeq DEF Content
<1> QED BY <1>1, <1>2, <1>3, <1>4

LEMMA ContentOfBoth ==
    ASSUME NEW q \in Seq(Message), NEW r \in Seq(Message)
    PROVE  Content(q \o r) \subseteq Content(q) \cup Content(r)
<1>1. /\ Len(q \o r) = Len(q) + Len(r) /\ Len(q) \in Nat /\ Len(r) \in Nat
      /\ \A i \in 1..(Len(q) + Len(r)) : (q \o r)[i] = IF i <= Len(q) THEN q[i] ELSE r[i - Len(q)]
  BY ConcatProperties, LenProperties
<1>2. ASSUME NEW i \in 1..(Len(q) + Len(r)) PROVE (q \o r)[i] \in Content(q) \cup Content(r)
  <2>1. CASE i <= Len(q)
    <3>1. i \in 1..Len(q) /\ (q \o r)[i] = q[i]
      BY <1>1, <2>1
    <3> QED BY <3>1 DEF Content
  <2>2. CASE i > Len(q)
    <3>1. i - Len(q) \in 1..Len(r) /\ (q \o r)[i] = r[i - Len(q)]
      BY <1>1, <2>2
    <3> QED BY <3>1 DEF Content
  <2> QED BY <1>1, <2>1, <2>2
<1> QED BY <1>1, <1>2 DEF Content

\* Deliveries and losses: nothing comes to the queues of a side that was not there.
LEMMA NetworkContent ==
    ASSUME Types, NetworkStep, NEW s \in Sides
    PROVE  /\ Content(inbox'[s]) \cup Content(wire'[s]) \subseteq Content(inbox[s]) \cup Content(wire[s])
           /\ Content(wire'[s]) \subseteq Content(wire[s])
           /\ Empty(s) => Empty(s)'
<1>0. wire \in [Sides -> Seq(Message)] /\ inbox \in [Sides -> Seq(Message)]
  BY DEF Types, QueueType
<1>1. ASSUME NEW t \in Sides, Deliver(t)
      PROVE  /\ Content(inbox'[s]) \cup Content(wire'[s]) \subseteq Content(inbox[s]) \cup Content(wire[s])
             /\ Content(wire'[s]) \subseteq Content(wire[s])
             /\ Empty(s) => Empty(s)'
  <2>1. CASE s = t
    <3>1. /\ wire[s] # <<>> /\ inbox'[s] = Append(inbox[s], Head(wire[s])) /\ wire'[s] = Tail(wire[s])
      BY <1>0, <1>1, <2>1 DEF Deliver
    <3>2. /\ Head(wire[s]) \in Content(wire[s]) /\ Content(Tail(wire[s])) \subseteq Content(wire[s])
          /\ Content(wire[s]) \subseteq Message
      BY <1>0, <3>1, ContentSteps
    <3>3. Content(inbox'[s]) = Content(inbox[s]) \cup {Head(wire[s])}
      BY <1>0, <3>1, <3>2, ContentSteps
    <3> QED BY <3>1, <3>2, <3>3 DEF Empty
  <2>2. CASE s # t
    BY <1>0, <1>1, <2>2 DEF Deliver, Empty
  <2> QED BY <2>1, <2>2
<1>2. ASSUME NEW t \in Sides, Disconnected(t)
      PROVE  /\ Content(inbox'[s]) \cup Content(wire'[s]) \subseteq Content(inbox[s]) \cup Content(wire[s])
             /\ Content(wire'[s]) \subseteq Content(wire[s])
             /\ Empty(s) => Empty(s)'
  <2>1. wire'[s] = <<>> /\ inbox' = inbox
    BY <1>2 DEF Disconnected
  <2>2. Content(<<>>) = {}
    BY <1>0, ContentSteps
  <2> QED BY <2>1, <2>2 DEF Empty
<1>3. ASSUME NEW t \in Sides, Acknowledge(t)
      PROVE  inbox' = inbox /\ wire' = wire
  BY <1>3 DEF Acknowledge
<1> QED BY <1>1, <1>2, <1>3 DEF NetworkStep, Empty

\* Until R's task reads the delimiter there is none, whatever else happens.
LEMMA DelimiterIsLastStep ==
    ASSUME HInv, Types, DelimiterIsLast, [Next]_vars PROVE DelimiterIsLast'
<1>0. /\ pc \in [Sides -> TaskStates] /\ wire \in [Sides -> Seq(Message)] /\ inbox \in [Sides -> Seq(Message)]
  BY DEF Types, QueueType
<1>1. CASE HandshakeStep
  <2> SUFFICES ASSUME pc'["S"] \in {"send", "flush"} PROVE DelimiterIsLast'
    BY DEF DelimiterIsLast
  <2>1. inbox'["R"] = <<>> /\ wire'["R"] = <<>> /\ pc'["R"] \in {"receive", "err"}
    BY <1>1, FirstToSend DEF Empty
  <2>2. Content(<<>>) = {}
    BY <1>0, ContentSteps, BothSides
  <2> QED BY <2>1, <2>2 DEF DelimiterIsLast
<1>2. CASE OuterStep \/ UNCHANGED vars
  <2>1. UNCHANGED <<pc, wire, inbox, held>>
    BY <1>2, OuterFrame DEF vars, storing
  <2> QED BY <2>1 DEF DelimiterIsLast
<1>3. CASE NetworkStep
  <2>1. UNCHANGED <<pc, held>>
    BY <1>3, NetworkFrame DEF storing
  <2>2. Content(inbox'["R"]) \cup Content(wire'["R"]) \subseteq Content(inbox["R"]) \cup Content(wire["R"])
    BY <1>3, NetworkContent, BothSides
  <2> QED BY <2>1, <2>2 DEF DelimiterIsLast
<1>4. CASE FileStep
  <2> SUFFICES ASSUME pc'["S"] \in {"send", "flush"} PROVE DelimiterIsLast'
    BY DEF DelimiterIsLast
  <2>a. ASSUME NEW t, pc' = [pc EXCEPT !["S"] = t] PROVE t \in {"send", "flush"}
    BY <1>0, <2>a, BothSides
  <2>b. Delim \notin Content(inbox["R"]) \cup Content(wire["R"])
        => /\ inbox["R"] # <<>> => Head(inbox["R"]) # Delim /\ Delim \notin Content(Tail(inbox["R"]))
           /\ \A m \in Message \ {Delim} : Delim \notin Content(Append(wire["R"], m))
    BY <1>0, ContentSteps, BothSides
  <2>c. ASSUME NEW m, NEW f, NEW n, m \in Message \ {Delim}, Feed(f, m, n), DelimiterIsLast,
               UNCHANGED <<pc, inbox, held>>
        PROVE  DelimiterIsLast'
    <3>1. wire'["R"] = wire["R"] \/ wire'["R"] = Append(wire["R"], m)
      BY <1>0, <2>c, BothSides DEF Feed
    <3> QED BY <2>b, <2>c, <3>1 DEF DelimiterIsLast
  <2>1. CASE SendDelimiter \/ ReceiveLast
    <3>1. \E t \in {"last", "err", "ok"} : pc' = [pc EXCEPT !["S"] = t]
      BY <2>1 DEF SendDelimiter, ReceiveLast, Goto, Send
    <3> QED BY <2>a, <3>1
  <2>2. CASE NoMoreFiles
    BY <1>0, <2>2, BothSides DEF NoMoreFiles, Goto, DelimiterIsLast, storing
  <2>3. CASE ReceiveText
    <3>1. /\ inbox["R"] # <<>> /\ inbox'["R"] = Tail(inbox["R"]) /\ wire' = wire /\ pc'["S"] = pc["S"]
          /\ pc'["R"] = "result" => held' = Head(inbox["R"])
          /\ pc'["R"] \in {"receive", "err", "result"}
      BY <1>0, <2>3, BothSides DEF ReceiveText, OpenFile, Goto, Takes, Oldest
    <3> QED BY <2>b, <3>1 DEF DelimiterIsLast
  <2>4. CASE ReceiveData
    <3>1. /\ inbox["R"] # <<>> /\ inbox'["R"] = Tail(inbox["R"]) /\ wire' = wire /\ pc'["S"] = pc["S"]
          /\ pc'["R"] \in {"receive", "err"}
      BY <1>0, <2>4, BothSides DEF ReceiveData, Goto, Takes, Oldest
    <3> QED BY <2>b, <3>1 DEF DelimiterIsLast
  <2>5. CASE SendResult
    <3>1. /\ pc["R"] = "result" /\ pc'["S"] = pc["S"] /\ wire'["R"] = wire["R"] /\ inbox' = inbox
          /\ held # Delim => pc'["R"] \in {"receive", "err"}
      BY <1>0, <2>5, BothSides DEF SendResult, Send
    <3> QED BY <3>1 DEF DelimiterIsLast
  <2>6. CASE Drained
    <3>1. pc["R"] = "drain" /\ pc'["S"] = pc["S"]
      BY <1>0, <2>6, BothSides DEF Drained, Goto
    <3> QED BY <3>1 DEF DelimiterIsLast
  <2>7. CASE \E f \in Offered : SendFile(f)
    <3>1. PICK f \in Offered : SendFile(f)
      BY <2>7
    <3>2. f \in Files
      BY DEF Types, SessionType, Setup, Offered
    <3>3. M("header", f) \in Message \ {Delim} /\ UNCHANGED <<pc, inbox, held>>
      BY <3>1, <3>2, FileMessages DEF M, Delim, SendFile, storing
    <3>4. Feed(f, M("header", f), 0) \/ wire' = wire
      BY <3>1 DEF SendFile
    <3> QED BY <2>c, <3>3, <3>4 DEF DelimiterIsLast
  <2>8. CASE SendChunk
    <3>1. feeding \in Files /\ fed[feeding] + 1 \in Nat \ {0}
      BY <2>8, CountsAssumption DEF SendChunk, Types, FileType
    <3>2. PICK m \in Message \ {Delim} : Feed(feeding, m, fed[feeding] + 1)
      BY <2>8, <3>1, FileMessages DEF SendChunk, M, Delim
    <3> QED BY <2>8, <2>c, <3>2 DEF SendChunk, storing
  <2>9. CASE EndFile \/ WriteFails \/ \E f \in Offered, ok \in BOOLEAN : Report(f, ok)
    BY <2>9 DEF EndFile, WriteFails, Report, DelimiterIsLast, storing
  <2> QED BY <1>4, <2>1, <2>2, <2>3, <2>4, <2>5, <2>6, <2>7, <2>8, <2>9 DEF FileStep, DriverStep
<1> QED BY <1>1, <1>2, <1>3, <1>4, StepsOfNext

-----------------------------------------------------------------------------
(* What the stacks have acknowledged *)

LEMMA FileStepKeepsAcked == ASSUME FileStep PROVE acked' = acked
BY DEF FileStep, SendDelimiter, ReceiveLast, ReceiveText, ReceiveData, SendResult, Drained,
     DriverStep, SendChunk, EndFile, NoMoreFiles, SendFile, Report, WriteFails

LEMMA CountedStep == ASSUME HInv, Types, Counted, [Next]_vars PROVE Counted'
<1>0. /\ wire \in [Sides -> Seq(Message)] /\ acked \in [Sides -> Nat]
      /\ \A s \in Sides : acked[s] <= Len(wire[s]) /\ Len(wire[s]) \in Nat
  <2>1. wire \in [Sides -> Seq(Message)]
    BY DEF Types, QueueType
  <2>2. \A s \in Sides : Len(wire[s]) \in Nat
    BY <2>1, LenProperties
  <2> QED BY <2>1, <2>2 DEF Counted
<1>1. ASSUME acked' = acked,
             \A s \in Sides : Len(wire'[s]) \in Nat /\ Len(wire[s]) <= Len(wire'[s])
      PROVE  Counted'
  <2> SUFFICES ASSUME NEW s \in Sides PROVE acked[s] <= Len(wire'[s])
    BY <1>0, <1>1 DEF Counted
  <2>1. PICK a \in Nat, b \in Nat, c \in Nat : a = acked[s] /\ b = Len(wire[s]) /\ c = Len(wire'[s])
    BY <1>0, <1>1
  <2>2. a <= b /\ b <= c
    BY <1>0, <1>1, <2>1
  <2> QED BY <2>1, <2>2
<1>2. CASE OuterStep \/ UNCHANGED vars
  <2>1. UNCHANGED <<acked, wire>>
    BY <1>2 DEF OuterStep, AnswerOffer, AnswerSent, AnswerArrives, TaskDone, TaskFailed, ConnectionDone, vars
  <2> QED BY <1>0, <1>1, <2>1
<1>3. CASE HandshakeStep
  <2>1. PICK t \in Sides : Talks(t)
    BY <1>3, HandshakeTalks
  <2>2. PICK ms \in Seq(PlainMessage) : wire' = wire \/ wire' = [wire EXCEPT ![Peer(t)] = @ \o ms]
    BY <2>1 DEF Talks, Goes
  <2>3. \A s \in Sides : Len(wire[s] \o ms) \in Nat /\ Len(wire[s]) <= Len(wire[s] \o ms)
    <3> SUFFICES ASSUME NEW s \in Sides
                 PROVE  Len(wire[s] \o ms) \in Nat /\ Len(wire[s]) <= Len(wire[s] \o ms)
      OBVIOUS
    <3>1. wire[s] \in Seq(Message) /\ ms \in Seq(Message)
      BY <1>0, PlainIsMessage
    <3>2. Len(wire[s] \o ms) = Len(wire[s]) + Len(ms) /\ Len(ms) \in Nat /\ Len(wire[s]) \in Nat
      BY <3>1, ConcatProperties, LenProperties
    <3> QED BY <3>2
  <2>4. \A s \in Sides : wire'[s] = wire[s] \/ wire'[s] = wire[s] \o ms
    BY <1>0, <2>2
  <2>5. \A s \in Sides : Len(wire'[s]) \in Nat /\ Len(wire[s]) <= Len(wire'[s])
    BY <1>0, <2>3, <2>4
  <2> QED BY <1>1, <2>1, <2>5 DEF Talks
<1>4. CASE FileStep
  <2>1. WireGrows /\ acked' = acked
    BY <1>4, FileStepQueues, FileStepKeepsAcked
  <2>2. \A s \in Sides : wire'[s] = wire[s] \/ \E m \in Message : wire'[s] = Append(wire[s], m)
    BY <1>0, <2>1 DEF WireGrows
  <2>3. \A s \in Sides, m \in Message : Len(Append(wire[s], m)) = Len(wire[s]) + 1
    BY <1>0, AppendSteps
  <2>4. \A s \in Sides : Len(wire'[s]) \in Nat /\ Len(wire[s]) <= Len(wire'[s])
    BY <1>0, <2>2, <2>3
  <2> QED BY <1>1, <2>1, <2>4
<1>5. ASSUME NEW s \in Sides, Acknowledge(s) PROVE Counted'
  <2>1. acked[s] < Len(wire[s]) /\ acked' = [acked EXCEPT ![s] = @ + 1] /\ wire' = wire
    BY <1>5 DEF Acknowledge
  <2>2. acked[s] + 1 \in Nat /\ acked[s] + 1 <= Len(wire[s])
    BY <1>0, <2>1
  <2> QED BY <1>0, <2>1, <2>2 DEF Counted
<1>6. ASSUME NEW s \in Sides, Deliver(s) PROVE Counted'
  <2>1. /\ wire[s] # <<>> /\ acked[s] > 0
        /\ wire' = [wire EXCEPT ![s] = Tail(@)] /\ acked' = [acked EXCEPT ![s] = @ - 1]
    BY <1>6 DEF Deliver
  <2>2. Len(Tail(wire[s])) = Len(wire[s]) - 1
    BY <1>0, <2>1, TailSteps
  <2>3. acked[s] - 1 \in Nat /\ acked[s] - 1 <= Len(Tail(wire[s]))
    BY <1>0, <2>1, <2>2
  <2> QED BY <1>0, <2>1, <2>3 DEF Counted
<1>7. ASSUME NEW s \in Sides, Disconnected(s) PROVE Counted'
  <2>1. wire' = [t \in Sides |-> <<>>] /\ acked' = [t \in Sides |-> 0] /\ Len(<<>>) = 0
    BY <1>7 DEF Disconnected
  <2> QED BY <2>1 DEF Counted
<1> QED BY <1>2, <1>3, <1>4, <1>5, <1>6, <1>7, StepsOfNext DEF NetworkStep

\* A step of a file's that leads S to the end.
LEMMA EndOfFiles ==
    ASSUME Types, FileStep, pc'["S"] \in {"last", "ok"}
    PROVE  \/ SendDelimiter
           \/ ReceiveLast
           \/ pc["S"] = pc'["S"] /\ wire'["R"] = wire["R"] /\ fed' = fed
<1>0. pc \in [Sides -> TaskStates] /\ wire \in [Sides -> Seq(Message)]
  BY DEF Types, QueueType
<1>1. CASE ReceiveText \/ ReceiveData \/ SendResult \/ Drained
  <2>1. /\ fed' = fed /\ \E to : pc' = [pc EXCEPT !["R"] = to]
        /\ wire' = wire \/ \E q : wire' = [wire EXCEPT !["S"] = q]
    BY <1>1, BothSides DEF ReceiveText, ReceiveData, SendResult, Drained, OpenFile, Goto, Send, sending
  <2> QED BY <1>0, <2>1, BothSides
<1>2. CASE NoMoreFiles
  BY <1>0, <1>2, BothSides DEF NoMoreFiles, Goto
<1>3. CASE SendChunk \/ EndFile \/ \E f \in Offered : SendFile(f)
  BY <1>3 DEF SendChunk, EndFile, SendFile
<1>4. CASE WriteFails \/ \E f \in Offered, ok \in BOOLEAN : Report(f, ok)
  BY <1>4 DEF WriteFails, Report, sending
<1> QED BY <1>1, <1>2, <1>3, <1>4 DEF FileStep, DriverStep

LEMMA AllAcknowledgedStep ==
    ASSUME HInv, Types, Counted, AllAcknowledged, [Next]_vars PROVE AllAcknowledged'
<1>0. /\ pc \in [Sides -> TaskStates] /\ wire \in [Sides -> Seq(Message)] /\ acked \in [Sides -> Nat]
      /\ wire["R"] \in Seq(Message) /\ Len(wire["R"]) \in Nat
  <2>1. pc \in [Sides -> TaskStates] /\ wire \in [Sides -> Seq(Message)]
    BY DEF Types, QueueType
  <2>2. wire["R"] \in Seq(Message)
    BY <2>1, BothSides
  <2> QED BY <2>1, <2>2, LenProperties DEF Counted
<1> SUFFICES ASSUME pc'["S"] \in {"last", "ok"}, NEW i \in 1..Len(wire'["R"]), wire'["R"][i].kind = "data"
             PROVE  i <= acked'["R"]
  BY DEF AllAcknowledged
<1>1. ASSUME pc["S"] \in {"last", "ok"}, wire'["R"] = wire["R"], acked'["R"] = acked["R"] PROVE i <= acked'["R"]
  BY <1>1 DEF AllAcknowledged
<1>2. CASE OuterStep \/ UNCHANGED vars
  <2>1. UNCHANGED <<acked, wire, pc>>
    BY <1>2 DEF OuterStep, AnswerOffer, AnswerSent, AnswerArrives, TaskDone, TaskFailed, ConnectionDone, vars
  <2> QED BY <1>1, <2>1
<1>3. CASE HandshakeStep
  <2>1. wire'["R"] = <<>>
    BY <1>3, FirstToSend DEF Empty
  <2>2. Len(wire'["R"]) = 0
    BY <2>1
  <2> QED BY <2>2
<1>4. CASE FileStep
  <2>1. acked' = acked
    BY <1>4, FileStepKeepsAcked
  <2>2. CASE SendDelimiter
    <3>1. acked["R"] = Len(wire["R"])
      BY <2>2, BothSides DEF SendDelimiter, BufferEmpty
    <3>2. wire' = wire \/ wire' = [wire EXCEPT !["R"] = Append(@, Delim)]
      <4>1. Send("S", <<Delim>>, "last") /\ "last" \in TaskStates /\ QueueType
        BY <2>2 DEF SendDelimiter, Delimiter, TaskStates, Types
      <4> QED BY <4>1, SendsLast, FileMessages, BothSides
    <3>3. CASE wire' = wire
      BY <3>1, <2>1, <3>3
    <3>4. CASE wire' = [wire EXCEPT !["R"] = Append(@, Delim)]
      <4>1. wire'["R"] = Append(wire["R"], Delim)
        BY <1>0, <3>4, BothSides
      <4>2. Len(wire'["R"]) = Len(wire["R"]) + 1 /\ wire'["R"][Len(wire["R"]) + 1] = Delim
        BY <1>0, <4>1, AppendSteps, FileMessages
      <4>3. i # Len(wire["R"]) + 1
        BY <4>2 DEF Delim, M
      <4> QED BY <1>0, <2>1, <3>1, <4>2, <4>3
    <3> QED BY <3>2, <3>3, <3>4
  <2>3. CASE ReceiveLast
    <3>1. wire' = wire /\ pc["S"] = "last"
      BY <2>3 DEF ReceiveLast, Goto, Takes
    <3> QED BY <1>1, <2>1, <3>1
  <2> QED BY <1>1, <1>4, <2>1, <2>2, <2>3, EndOfFiles
<1>5. CASE NetworkStep
  <2>0. pc["S"] \in {"last", "ok"}
    BY <1>5, NetworkFrame
  <2>1. ASSUME NEW s \in Sides, Acknowledge(s) PROVE i <= acked'["R"]
    <3>1. wire' = wire /\ acked' = [acked EXCEPT ![s] = @ + 1]
      BY <2>1 DEF Acknowledge
    <3>2. acked'["R"] = acked["R"] \/ acked'["R"] = acked["R"] + 1
      BY <1>0, <3>1, BothSides
    <3>3. i <= acked["R"] /\ i \in Nat /\ acked["R"] \in Nat
      BY <1>0, <2>0, <3>1, BothSides DEF AllAcknowledged
    <3> QED BY <3>2, <3>3
  <2>2. CASE Deliver("R")
    <3>1. /\ wire["R"] # <<>> /\ wire'["R"] = Tail(wire["R"]) /\ acked'["R"] = acked["R"] - 1
      BY <1>0, <2>2, BothSides DEF Deliver
    <3>2. /\ Len(wire'["R"]) = Len(wire["R"]) - 1
          /\ \A k \in 1..(Len(wire["R"]) - 1) : wire'["R"][k] = wire["R"][k + 1]
      BY <1>0, <3>1, TailSteps
    <3>3. i \in Nat /\ i + 1 \in 1..Len(wire["R"]) /\ wire["R"][i + 1].kind = "data"
      BY <1>0, <3>2
    <3>4. i + 1 <= acked["R"] /\ acked["R"] \in Nat
      BY <1>0, <2>0, <3>3, BothSides DEF AllAcknowledged
    <3> QED BY <3>1, <3>3, <3>4
  <2>3. CASE Deliver("S")
    <3>1. wire'["R"] = wire["R"] /\ acked'["R"] = acked["R"]
      BY <1>0, <2>3, BothSides DEF Deliver
    <3> QED BY <1>1, <2>0, <3>1
  <2>4. ASSUME NEW s \in Sides, Disconnected(s) PROVE FALSE
    <3>1. wire'["R"] = <<>>
      BY <2>4, BothSides DEF Disconnected
    <3>2. Len(wire'["R"]) = 0
      BY <3>1
    <3> QED BY <3>2
  <2> QED BY <1>5, <2>1, <2>2, <2>3, <2>4 DEF NetworkStep, Sides
<1> QED BY <1>2, <1>3, <1>4, <1>5, StepsOfNext

\* Nothing but R's answers goes to S once R's user has chosen.
LEMMA AnswerAwaitedStep ==
    ASSUME HInv, Types, AnswerAwaited, [Next]_vars PROVE AnswerAwaited'
<1>0. /\ pc \in [Sides -> TaskStates] /\ wire \in [Sides -> Seq(Message)] /\ inbox \in [Sides -> Seq(Message)]
      /\ replies \in [Files -> BOOLEAN \cup {None}]
  BY DEF Types, QueueType, FileType
<1>1. ASSUME UNCHANGED <<replies, fed>>, Empty("S") => Empty("S")', pc'["S"] = pc["S"]
      PROVE  AnswerAwaited'
  BY <1>1 DEF AnswerAwaited, Answered
<1>2. CASE OuterStep \/ UNCHANGED vars
  <2>1. UNCHANGED <<pc, wire, inbox, fed, replies>>
    BY <1>2, OuterFrame DEF vars, sending, storing
  <2> QED BY <1>1, <2>1 DEF Empty
<1>3. CASE HandshakeStep
  <2>1. CASE pc'["S"] \in {"send", "flush", "last", "ok"}
    <3>1. Empty("S")' /\ \A f \in Files : fed[f] = None
      BY <1>3, <2>1, FirstToSend
    <3>2. fed' = fed
      BY <1>3, HandshakeTalks DEF Talks, sending
    <3> QED BY <3>1, <3>2 DEF AnswerAwaited
  <2>2. CASE pc'["S"] \notin {"send", "flush", "last", "ok"}
    BY <2>2 DEF AnswerAwaited
  <2> QED BY <2>1, <2>2
<1>4. CASE NetworkStep
  <2>1. UNCHANGED <<pc, fed, replies>>
    BY <1>4, NetworkFrame DEF sending, storing
  <2>2. Empty("S") => Empty("S")'
    BY <1>4, NetworkContent, BothSides
  <2> QED BY <1>1, <2>1, <2>2
<1>5. CASE FileStep
  <2>1. CASE SendResult
    <3>1. PICK ok \in BOOLEAN : replies' = [replies EXCEPT ![filing] = ok]
      BY <2>1 DEF SendResult
    <3>2. filing \in Files
      BY <2>1 DEF SendResult, Types, FileType
    <3>3. replies'[filing] # None
      BY <1>0, <3>1, <3>2, NoneAssumption
    <3> QED BY <3>2, <3>3 DEF AnswerAwaited, Answered
  <2>2. CASE ReceiveLast
    <3>1. pc["S"] = "last" /\ ~Empty("S") /\ UNCHANGED <<replies>>
      BY <2>2, TakesSomething DEF ReceiveLast, storing
    <3> QED BY <3>1 DEF AnswerAwaited, Answered
  <2>3. CASE SendDelimiter \/ NoMoreFiles
    <3>1. /\ UNCHANGED <<inbox, replies>> /\ pc["S"] \in {"send", "flush"}
          /\ \E to \in {"flush", "last", "err"} : pc' = [pc EXCEPT !["S"] = to]
          /\ wire' = wire \/ \E q : wire' = [wire EXCEPT !["R"] = q]
      BY <2>3, BothSides DEF SendDelimiter, NoMoreFiles, Goto, Send, storing
    <3>2. wire'["S"] = wire["S"] /\ pc'["S"] # "ok"
      BY <1>0, <3>1, BothSides
    <3> QED BY <3>1, <3>2 DEF AnswerAwaited, Answered, Empty
  <2>4. CASE ReceiveText \/ ReceiveData \/ Drained
    <3>1. /\ UNCHANGED <<wire, fed, replies>>
          /\ inbox' = inbox \/ \E q : inbox' = [inbox EXCEPT !["R"] = q]
          /\ \E to : pc' = [pc EXCEPT !["R"] = to]
      BY <2>4 DEF ReceiveText, ReceiveData, Drained, OpenFile, Takes, Goto, sending, storing
    <3>2. pc'["S"] = pc["S"] /\ inbox'["S"] = inbox["S"]
      BY <1>0, <3>1, BothSides
    <3> QED BY <1>1, <3>1, <3>2 DEF Empty
  <2>5. CASE SendChunk \/ EndFile \/ \E f \in Offered : SendFile(f)
    <3>1. /\ UNCHANGED <<inbox, replies, pc>> /\ pc["S"] = "send"
          /\ wire' = wire \/ \E q : wire' = [wire EXCEPT !["R"] = q]
      BY <2>5 DEF SendChunk, EndFile, SendFile, Feed, storing
    <3>2. wire'["S"] = wire["S"]
      BY <1>0, <3>1, BothSides
    <3> QED BY <3>1, <3>2 DEF AnswerAwaited, Answered, Empty
  <2>6. CASE WriteFails \/ \E f \in Offered, ok \in BOOLEAN : Report(f, ok)
    <3>1. UNCHANGED <<wire, inbox, pc, fed, replies>>
      BY <2>6 DEF WriteFails, Report, sending
    <3> QED BY <1>1, <3>1 DEF Empty
  <2> QED BY <1>5, <2>1, <2>2, <2>3, <2>4, <2>5, <2>6 DEF FileStep, DriverStep
<1> QED BY <1>2, <1>3, <1>4, <1>5, StepsOfNext

-----------------------------------------------------------------------------
(* Before the first file *)

LEMMA QuietStays ==
    ASSUME Quiet, UNCHANGED <<sending, storing>>,
           pc'["R"] \in {"result", "drain"} => pc["R"] \in {"result", "drain"},
           Content(inbox'["R"]) \cup Content(wire'["R"])
             \subseteq Content(inbox["R"]) \cup Content(wire["R"]) \cup PlainMessage,
           pc'["S"] \in {"send", "flush"} => Empty("R")'
    PROVE  Quiet'
<1>1. NothingStored'
  BY DEF Quiet, NothingStored, sending, storing
<1>2. \A m \in PlainMessage : m.kind \notin FileKinds
  BY DEF PlainMessage, FileKinds, TextKinds, Delim, M
<1> QED BY <1>1, <1>2 DEF Quiet, NoneOfAFile

LEMMA HandshakeContent ==
    ASSUME HInv, Types, HandshakeStep
    PROVE  Content(inbox'["R"]) \cup Content(wire'["R"])
             \subseteq Content(inbox["R"]) \cup Content(wire["R"]) \cup PlainMessage
<1>0. wire \in [Sides -> Seq(Message)] /\ inbox \in [Sides -> Seq(Message)]
  BY DEF Types, QueueType
<1>1. PICK s \in Sides : Talks(s)
  BY HandshakeTalks
<1>2. Content(inbox'["R"]) \subseteq Content(inbox["R"])
  <2>1. PICK q \in Seq(Message) : q = inbox["R"]
    BY <1>0, BothSides
  <2>2. \/ inbox'["R"] = q
        \/ q # <<>> /\ inbox'["R"] = Tail(q)
        \/ q # <<>> /\ Len(q) > 1 /\ inbox'["R"] = Tail(Tail(q))
    BY <1>0, <1>1, <2>1, BothSides DEF Talks, Pops
  <2>3. ASSUME q # <<>> PROVE Content(Tail(q)) \subseteq Content(q) /\ Tail(q) \in Seq(Message) /\ Len(Tail(q)) = Len(q) - 1
    BY <2>3, ContentSteps, TailSteps
  <2>4. ASSUME q # <<>>, Len(q) > 1 PROVE Content(Tail(Tail(q))) \subseteq Content(Tail(q))
    <3>1. PICK r \in Seq(Message) : r = Tail(q) /\ Len(r) = Len(q) - 1
      BY <2>3, <2>4
    <3>2. Len(r) > 0
      BY <2>4, <3>1, LenProperties
    <3>3. r # <<>>
      BY <3>2
    <3>4. Content(Tail(r)) \subseteq Content(r)
      BY <3>3, ContentSteps
    <3> QED BY <3>1, <3>4
  <2> QED BY <2>1, <2>2, <2>3, <2>4
<1>3. Content(wire'["R"]) \subseteq Content(wire["R"]) \cup PlainMessage
  <2>1. PICK ms \in Seq(PlainMessage) : wire' = wire \/ wire' = [wire EXCEPT ![Peer(s)] = @ \o ms]
    BY <1>1 DEF Talks, Goes
  <2>2. ms \in Seq(Message) /\ Content(ms) \subseteq PlainMessage
    BY PlainIsMessage, ElementOfSeq DEF Content
  <2>3. Content(wire["R"] \o ms) \subseteq Content(wire["R"]) \cup Content(ms)
    BY <1>0, <2>2, ContentOfBoth, BothSides
  <2> QED BY <1>0, <2>1, <2>2, <2>3, BothSides
<1> QED BY <1>2, <1>3

LEMMA QuietHandshake == ASSUME HInv, Types, Quiet, HandshakeStep PROVE Quiet'
<1>1. PICK s \in Sides : Talks(s)
  BY HandshakeTalks
<1>2. UNCHANGED <<sending, storing>>
  BY <1>1 DEF Talks
<1>3. pc'["R"] \in {"result", "drain"} => pc["R"] \in {"result", "drain"}
  BY <1>1, BothSides DEF Talks, Goes, Types, QueueType, Reached
<1>4. pc'["S"] \in {"send", "flush"} => Empty("R")'
  BY FirstToSend DEF Empty
<1> QED BY <1>2, <1>3, <1>4, HandshakeContent, QuietStays

LEMMA QuietNetwork == ASSUME Types, Quiet, NetworkStep PROVE Quiet'
<1>1. UNCHANGED <<pc, sending, storing>>
  BY NetworkFrame
<1>2. /\ Content(inbox'["R"]) \cup Content(wire'["R"]) \subseteq Content(inbox["R"]) \cup Content(wire["R"])
      /\ Empty("R") => Empty("R")'
  BY NetworkContent, BothSides
<1>3. pc'["S"] \in {"send", "flush"} => Empty("R")'
  BY <1>1, <1>2 DEF Quiet
<1> QED BY <1>1, <1>2, <1>3, QuietStays

LEMMA QuietOthers == ASSUME Quiet, OuterStep \/ UNCHANGED vars PROVE Quiet'
<1>1. UNCHANGED <<pc, wire, inbox, sending, storing>>
  BY OuterFrame DEF vars
<1> QED BY <1>1, QuietStays DEF Quiet, Empty

\* Without a file S ends its task, and R can only read the delimiter, which is no header.
LEMMA QuietFiles ==
    ASSUME HInv, Types, Quiet, FileStep, \A f \in Offered : ~SendFile(f) PROVE Quiet'
<1>0. /\ pc \in [Sides -> TaskStates] /\ wire \in [Sides -> Seq(Message)] /\ inbox \in [Sides -> Seq(Message)]
  BY DEF Types, QueueType
<1>1. /\ feeding = None /\ filing = None /\ whole = {} /\ mailbox = <<>> /\ ~broken
      /\ pc["R"] \notin {"result", "drain"} /\ NoneOfAFile(inbox["R"])
  BY DEF Quiet, NothingStored
<1>2. CASE SendDelimiter
  <2>1. UNCHANGED <<inbox, sending, storing>> /\ Send("S", <<Delim>>, "last")
    BY <1>2 DEF SendDelimiter, Delimiter
  <2>2. /\ pc'["R"] = pc["R"] /\ pc'["S"] \in {"last", "err"}
        /\ wire'["R"] = wire["R"] \/ wire'["R"] = Append(wire["R"], Delim)
    <3>1. "last" \in TaskStates /\ "err" \in TaskStates
      BY DEF TaskStates
    <3>2. QueueType
      BY DEF Types
    <3>3. /\ wire' = wire \/ wire' = [wire EXCEPT ![Peer("S")] = Append(@, Delim)]
          /\ \E to \in {"last", "err"} : pc' = [pc EXCEPT !["S"] = to]
      BY <2>1, <3>1, <3>2, SendsLast, FileMessages, BothSides
    <3> QED BY <1>0, <3>3, BothSides
  <2>3. Content(wire'["R"]) \subseteq Content(wire["R"]) \cup PlainMessage
    <3>1. Content(Append(wire["R"], Delim)) = Content(wire["R"]) \cup {Delim}
      BY <1>0, ContentSteps, FileMessages, BothSides
    <3> QED BY <2>2, <3>1 DEF PlainMessage
  <2> QED BY <2>1, <2>2, <2>3, QuietStays
<1>3. CASE ReceiveLast
  <2>1. /\ UNCHANGED <<wire, sending, storing>> /\ inbox'["R"] = inbox["R"]
        /\ pc'["R"] = pc["R"] /\ pc'["S"] = "ok"
    BY <1>0, <1>3, BothSides DEF ReceiveLast, Takes, Goto
  <2> QED BY <2>1, QuietStays
<1>4. CASE ReceiveText \/ ReceiveData
  <2>1. PICK m : Takes("R", "receive", m) /\ UNCHANGED <<sending>>
    BY <1>4 DEF ReceiveText, ReceiveData
  <2>2. /\ inbox["R"] # <<>> /\ m = Head(inbox["R"]) /\ inbox'["R"] = Tail(inbox["R"]) /\ pc["R"] = "receive"
    BY <1>0, <2>1, BothSides DEF Takes, Oldest
  <2>3. m \in Content(inbox["R"]) /\ Content(Tail(inbox["R"])) \subseteq Content(inbox["R"])
    BY <1>0, <2>2, ContentSteps, BothSides
  <2>4. Head(inbox["R"]).kind \notin {"header", "data"}
    BY <1>1, <2>2, <2>3 DEF NoneOfAFile, FileKinds
  <2>5. ReceiveText /\ Goto("R", "err") /\ filing' = None /\ UNCHANGED <<whole, held, got, verdict, mailbox, replies, broken>>
    BY <1>1, <1>4, <2>4 DEF ReceiveText, ReceiveData, OpenFile, Takes, Oldest
  <2>6. UNCHANGED <<sending, storing>>
    BY <1>1, <2>1, <2>5 DEF storing
  <2>7. wire' = wire /\ pc'["R"] = "err" /\ pc'["S"] = pc["S"]
    BY <1>0, <2>5, BothSides DEF Goto
  <2>8. pc["S"] \notin {"send", "flush"}
    BY <2>2 DEF Quiet, Empty
  <2> QED BY <2>2, <2>3, <2>6, <2>7, <2>8, QuietStays
<1>5. CASE NoMoreFiles
  <2>1. UNCHANGED <<wire, inbox, sending, storing>> /\ pc'["R"] = pc["R"] /\ pc["S"] = "send"
    BY <1>0, <1>5, BothSides DEF NoMoreFiles, Goto
  <2> QED BY <2>1, QuietStays DEF Quiet, Empty
<1> QED BY <1>1, <1>2, <1>3, <1>4, <1>5
    DEF FileStep, DriverStep, SendResult, Drained, SendChunk, EndFile, Report, WriteFails

-----------------------------------------------------------------------------
(* Messages of a file *)

LEMMA MessageShape ==
    ASSUME NEW m \in Message
    PROVE  /\ m.kind = "header" => /\ m.val \in Files /\ m = M("header", m.val)
                                   /\ Place(m) = <<m.val, 0>> /\ Place(m)[1] = m.val /\ Place(m)[2] = 0
           /\ m.kind = "data" => /\ m.val \in Files \X (Nat \ {0}) /\ m = M("data", m.val) /\ Place(m) = m.val
           /\ m.kind = "delim" => m = Delim
           /\ m.kind \in FileKinds => Place(m)[1] \in Files /\ Place(m)[2] \in Nat
<1>1. ASSUME m.kind = "header"
      PROVE  /\ m.val \in Files /\ m = M("header", m.val)
             /\ Place(m) = <<m.val, 0>> /\ Place(m)[1] = m.val /\ Place(m)[2] = 0
  <2>1. m \in [kind : {"header"}, val : Files]
    BY <1>1 DEF Message, PlainMessage, TextKinds, Delim, M
  <2> QED BY <1>1, <2>1 DEF M, Place
<1>2. ASSUME m.kind = "data"
      PROVE  m.val \in Files \X (Nat \ {0}) /\ m = M("data", m.val) /\ Place(m) = m.val
  <2>1. m \in [kind : {"data"}, val : Files \X (Nat \ {0})]
    BY <1>2 DEF Message, PlainMessage, TextKinds, Delim, M
  <2> QED BY <1>2, <2>1 DEF M, Place
<1>3. ASSUME m.kind = "delim" PROVE m = Delim
  BY <1>3 DEF Message, PlainMessage, TextKinds
<1>4. m.kind \in FileKinds => Place(m)[1] \in Files /\ Place(m)[2] \in Nat
  BY <1>1, <1>2 DEF FileKinds
<1> QED BY <1>1, <1>2, <1>3, <1>4

-----------------------------------------------------------------------------
(* Chains *)

\* From F and g to F2 and h: S does not send again of a file that it has ended.
FedMoves(F, g, F2, h) == \A e \in Files : F[e] # None /\ e # g => F2[e] = F[e] /\ e # h

LEMMA EndedStays ==
    ASSUME NEW F, NEW g, NEW F2, NEW h, FedMoves(F, g, F2, h), NEW m \in Message, Ended(m, F, g)
    PROVE  Ended(m, F2, h)
BY MessageShape DEF FedMoves, Ended

LEMMA ChainStays ==
    ASSUME NEW F, NEW g, NEW F2, NEW h, FedMoves(F, g, F2, h),
           NEW l, NEW n \in Nat, \A i \in 1..n : l[i] \in Message, Chained(l, n, F, g)
    PROVE  Chained(l, n, F2, h)
<1> SUFFICES ASSUME NEW i \in 1..(n - 1) PROVE Follows(l[i], l[i + 1], F2, h)
  BY DEF Chained
<1>1. Follows(l[i], l[i + 1], F, g) /\ l[i] \in Message
  BY DEF Chained
<1> QED BY <1>1, EndedStays DEF Follows

LEMMA ChainGrows ==
    ASSUME NEW F, NEW g, NEW l, NEW n \in Nat \ {0}, Chained(l, n, F, g),
           NEW k, \A i \in 1..n : k[i] = l[i], Follows(l[n], k[n + 1], F, g)
    PROVE  Chained(k, n + 1, F, g)
<1> SUFFICES ASSUME NEW i \in 1..n PROVE Follows(k[i], k[i + 1], F, g)
  BY DEF Chained
<1>1. CASE i = n
  BY <1>1
<1>2. CASE i # n
  <2>1. i \in 1..(n - 1) /\ i + 1 \in 1..n
    BY <1>2
  <2> QED BY <2>1 DEF Chained
<1> QED BY <1>1, <1>2

LEMMA ChainPops ==
    ASSUME NEW F, NEW g, NEW l, NEW n \in Nat, n > 1, Chained(l, n, F, g),
           NEW k, \A i \in 1..(n - 1) : k[i] = l[i + 1]
    PROVE  Chained(k, n - 1, F, g)
<1> SUFFICES ASSUME NEW i \in 1..(n - 1 - 1) PROVE Follows(k[i], k[i + 1], F, g)
  BY DEF Chained
<1>1. i + 1 \in 1..(n - 1) /\ i \in 1..(n - 1)
  OBVIOUS
<1>2. Follows(l[i + 1], l[i + 1 + 1], F, g)
  BY <1>1 DEF Chained
<1> QED BY <1>1, <1>2

LEMMA ChainCut ==
    ASSUME NEW F, NEW g, NEW l, NEW n \in Nat, Chained(l, n, F, g),
           NEW p \in Nat, p <= n, NEW k, \A i \in 1..p : k[i] = l[i]
    PROVE  Chained(k, p, F, g)
<1> SUFFICES ASSUME NEW i \in 1..(p - 1) PROVE Follows(k[i], k[i + 1], F, g)
  BY DEF Chained
<1>1. i \in 1..(n - 1) /\ i \in 1..p /\ i + 1 \in 1..p
  OBVIOUS
<1> QED BY <1>1 DEF Chained

-----------------------------------------------------------------------------
(* Headers *)

LEMMA HeadersGrow ==
    ASSUME NEW l, NEW n \in Nat \ {0}, NEW G, NEW w, NEW f, HeadersAreNew(l, n, G, w, f),
           NEW k, \A i \in 1..n : k[i] = l[i],
           k[n + 1].kind = "header" =>
             /\ G[k[n + 1].val] = <<>> /\ k[n + 1].val \notin w /\ k[n + 1].val # f
             /\ \A i \in 1..n : ~(l[i].kind = "header" /\ l[i].val = k[n + 1].val)
    PROVE  HeadersAreNew(k, n + 1, G, w, f)
<1> SUFFICES ASSUME NEW i \in 2..(n + 1), k[i].kind = "header"
             PROVE  /\ G[k[i].val] = <<>> /\ k[i].val \notin w /\ k[i].val # f
                    /\ \A j \in 1..(n + 1) : k[j].kind = "header" /\ k[j].val = k[i].val => j = i
  BY DEF HeadersAreNew
<1>1. CASE i = n + 1
  <2>1. \A j \in 1..(n + 1) : j = i \/ j \in 1..n
    BY <1>1
  <2> QED BY <1>1, <2>1
<1>2. CASE i # n + 1
  <2>1. i \in 2..n /\ i \in 1..n /\ \A j \in 1..(n + 1) : j = n + 1 \/ j \in 1..n
    BY <1>2
  <2>2. k[i] = l[i]
    BY <2>1
  <2>3. /\ G[k[i].val] = <<>> /\ k[i].val \notin w /\ k[i].val # f
        /\ \A j \in 1..n : l[j].kind = "header" /\ l[j].val = l[i].val => j = i
    BY <2>1, <2>2 DEF HeadersAreNew
  <2>4. ~(k[n + 1].kind = "header" /\ k[n + 1].val = k[i].val)
    BY <2>1, <2>2
  <2> QED BY <2>1, <2>2, <2>3, <2>4
<1> QED BY <1>1, <1>2

LEMMA HeadersCut ==
    ASSUME NEW l, NEW n \in Nat, NEW G, NEW w, NEW f, HeadersAreNew(l, n, G, w, f),
           NEW p \in Nat, p <= n, NEW k, \A i \in 1..p : k[i] = l[i]
    PROVE  HeadersAreNew(k, p, G, w, f)
<1>1. (\A i \in 2..p : i \in 2..n /\ i \in 1..p) /\ \A i \in 1..p : i \in 1..n
  OBVIOUS
<1> QED BY <1>1 DEF HeadersAreNew

\* R deals with the first of the line, which may make f2 the file at hand and w2 the
\* ended ones, and G2 what is got: the headers further on are still new.
LEMMA HeadersPop ==
    ASSUME NEW l, NEW n \in Nat, n > 1, NEW G, NEW w, NEW f, HeadersAreNew(l, n, G, w, f),
           NEW G2, NEW w2, NEW f2,
           \A i \in 3..n : l[i].kind = "header" => /\ G2[l[i].val] = <<>> /\ l[i].val \notin w2
                                                   /\ l[i].val # f2,
           NEW k, \A i \in 1..(n - 1) : k[i] = l[i + 1]
    PROVE  HeadersAreNew(k, n - 1, G2, w2, f2)
<1> SUFFICES ASSUME NEW i \in 2..(n - 1), k[i].kind = "header"
             PROVE  /\ G2[k[i].val] = <<>> /\ k[i].val \notin w2 /\ k[i].val # f2
                    /\ \A j \in 1..(n - 1) : k[j].kind = "header" /\ k[j].val = k[i].val => j = i
  BY DEF HeadersAreNew
<1>1. i + 1 \in 3..n /\ i + 1 \in 2..n /\ k[i] = l[i + 1] /\ i \in 1..(n - 1)
  OBVIOUS
<1>2. \A j \in 1..n : l[j].kind = "header" /\ l[j].val = l[i + 1].val => j = i + 1
  BY <1>1 DEF HeadersAreNew
<1>3. ASSUME NEW j \in 1..(n - 1), k[j].kind = "header", k[j].val = k[i].val PROVE j = i
  <2>1. j + 1 \in 1..n /\ k[j] = l[j + 1]
    OBVIOUS
  <2>2. j + 1 = i + 1
    BY <1>1, <1>2, <1>3, <2>1
  <2> QED BY <2>2
<1> QED BY <1>1, <1>3

-----------------------------------------------------------------------------
(* The line in a state and in the next one *)

LEMMA DealtType ==
    ASSUME Types
    PROVE  /\ Dealt \in Message
           /\ wire["R"] \in Seq(Message) /\ inbox["R"] \in Seq(Message)
<1>1. FileType /\ wire["R"] \in Seq(Message) /\ inbox["R"] \in Seq(Message)
  BY BothSides DEF Types, QueueType
<1>2. Dealt \in Message
  <2>1. CASE pc["R"] = "result"
    BY <1>1, <2>1 DEF Dealt, FileType
  <2>2. CASE pc["R"] # "result" /\ filing = None
    BY <2>2, FileMessages DEF Dealt
  <2>3. CASE pc["R"] # "result" /\ filing # None
    <3>1. filing \in Files /\ got[filing] \in Seq(Files \X (Nat \ {0}))
      BY <1>1, <2>3 DEF FileType
    <3>2. got[filing] # <<>> => Len(got[filing]) \in Nat \ {0}
      BY <3>1, EmptySeq
    <3> QED BY <2>3, <3>1, <3>2, FileMessages DEF Dealt
  <2> QED BY <2>1, <2>2, <2>3
<1> QED BY <1>1, <1>2

LEMMA LineType ==
    ASSUME Types
    PROVE  /\ Ahead \in Nat \ {0} /\ Line[1] = Dealt
           /\ \A i \in 1..Ahead : Line[i] \in Message
           /\ \A i \in 2..Ahead : Line[i] \in Content(inbox["R"]) \cup Content(wire["R"])
<1>1. Dealt \in Message /\ wire["R"] \in Seq(Message) /\ inbox["R"] \in Seq(Message)
  BY DealtType
<1>2. PICK a \in Seq(Message), b \in Seq(Message), d \in Message : a = inbox["R"] /\ b = wire["R"] /\ d = Dealt
  BY <1>1
<1>3. Len(a) \in Nat /\ Len(b) \in Nat /\ LineLength(a, b) = 1 + Len(a) + Len(b) /\ LineLength(a, b) \in Nat \ {0}
  BY LenProperties DEF LineLength
<1>4. LineOf(d, a, b)[1] = d
  BY <1>3 DEF LineOf
<1>5. ASSUME NEW i \in 2..LineLength(a, b) PROVE LineOf(d, a, b)[i] \in Content(a) \cup Content(b)
  <2>1. LineOf(d, a, b)[i] = IF i <= 1 + Len(a) THEN a[i - 1] ELSE b[i - 1 - Len(a)]
    BY <1>3 DEF LineOf
  <2>2. CASE i <= 1 + Len(a)
    <3>1. i - 1 \in 1..Len(a)
      BY <1>3, <2>2
    <3> QED BY <2>1, <2>2, <3>1 DEF Content
  <2>3. CASE i > 1 + Len(a)
    <3>1. i - 1 - Len(a) \in 1..Len(b)
      BY <1>3, <2>3
    <3> QED BY <1>3, <2>1, <2>3, <3>1 DEF Content
  <2> QED BY <1>3, <2>2, <2>3
<1>6. Content(a) \subseteq Message /\ Content(b) \subseteq Message
  BY ContentSteps
<1>7. \A i \in 1..LineLength(a, b) : i = 1 \/ i \in 2..LineLength(a, b)
  BY <1>3
<1>8. \A i \in 1..LineLength(a, b) : LineOf(d, a, b)[i] \in Message
  BY <1>4, <1>5, <1>6, <1>7
<1> QED BY <1>2, <1>3, <1>4, <1>5, <1>8 DEF Line, Ahead

LEMMA LineStays ==
    ASSUME Dealt' = Dealt, inbox'["R"] = inbox["R"], wire'["R"] = wire["R"]
    PROVE  Line' = Line /\ Ahead' = Ahead
BY DEF Line, Ahead

LEMMA LineAppends ==
    ASSUME Types, NEW m \in Message,
           Dealt' = Dealt, inbox'["R"] = inbox["R"], wire'["R"] = Append(wire["R"], m)
    PROVE  Ahead' = Ahead + 1 /\ (\A i \in 1..Ahead : Line'[i] = Line[i]) /\ Line'[Ahead + 1] = m
<1>1. wire["R"] \in Seq(Message) /\ inbox["R"] \in Seq(Message)
  BY DealtType
<1>2. /\ Ahead' = LineLength(inbox["R"], Append(wire["R"], m))
      /\ Line' = LineOf(Dealt, inbox["R"], Append(wire["R"], m))
  BY DEF Line, Ahead
<1>3. /\ LineLength(inbox["R"], Append(wire["R"], m)) = Ahead + 1
      /\ \A i \in 1..Ahead : LineOf(Dealt, inbox["R"], Append(wire["R"], m))[i] = LineOf(Dealt, inbox["R"], wire["R"])[i]
      /\ LineOf(Dealt, inbox["R"], Append(wire["R"], m))[Ahead + 1] = m
  BY <1>1, LineGrows DEF Ahead
<1> QED BY <1>2, <1>3 DEF Line

LEMMA LineTakes ==
    ASSUME Types, inbox["R"] # <<>>,
           Dealt' = Head(inbox["R"]), inbox'["R"] = Tail(inbox["R"]), wire'["R"] = wire["R"]
    PROVE  /\ Ahead > 1 /\ Ahead' = Ahead - 1 /\ Line[2] = Head(inbox["R"])
           /\ \A i \in 1..(Ahead - 1) : Line'[i] = Line[i + 1]
<1>1. wire["R"] \in Seq(Message) /\ inbox["R"] \in Seq(Message)
  BY DealtType
<1>2. /\ Ahead' = LineLength(Tail(inbox["R"]), wire["R"])
      /\ Line' = LineOf(Head(inbox["R"]), Tail(inbox["R"]), wire["R"])
  BY DEF Line, Ahead
<1>3. /\ Ahead > 1 /\ LineLength(Tail(inbox["R"]), wire["R"]) = Ahead - 1
      /\ \A i \in 1..(Ahead - 1) : LineOf(Head(inbox["R"]), Tail(inbox["R"]), wire["R"])[i]
                                   = LineOf(Dealt, inbox["R"], wire["R"])[i + 1]
      /\ LineOf(Dealt, inbox["R"], wire["R"])[2] = Head(inbox["R"])
  BY <1>1, LineMoves DEF Ahead
<1> QED BY <1>2, <1>3 DEF Line

LEMMA LineLoses ==
    ASSUME Types, Dealt' = Dealt, inbox'["R"] = inbox["R"], wire'["R"] = <<>>
    PROVE  Ahead' \in Nat \ {0} /\ Ahead' <= Ahead /\ \A i \in 1..Ahead' : Line'[i] = Line[i]
<1>1. wire["R"] \in Seq(Message) /\ inbox["R"] \in Seq(Message)
  BY DealtType
<1>2. Ahead' = LineLength(inbox["R"], <<>>) /\ Line' = LineOf(Dealt, inbox["R"], <<>>)
  BY DEF Line, Ahead
<1>3. /\ LineLength(inbox["R"], <<>>) \in Nat \ {0} /\ LineLength(inbox["R"], <<>>) <= Ahead
      /\ \A i \in 1..LineLength(inbox["R"], <<>>) : LineOf(Dealt, inbox["R"], <<>>)[i] = LineOf(Dealt, inbox["R"], wire["R"])[i]
  BY <1>1, LineShrinks DEF Ahead
<1> QED BY <1>2, <1>3 DEF Line

LEMMA LineDelivered ==
    ASSUME Types, Dealt' = Dealt, wire["R"] # <<>>,
           inbox'["R"] = Append(inbox["R"], Head(wire["R"])), wire'["R"] = Tail(wire["R"])
    PROVE  Line' = Line /\ Ahead' = Ahead
<1>1. wire["R"] \in Seq(Message) /\ inbox["R"] \in Seq(Message)
  BY DealtType
<1> QED BY <1>1, LineDelivers DEF Line, Ahead

\* Whatever of a file is in the line, S has begun the file.
LEMMA LineSent ==
    ASSUME Types, Begun, pc["R"] \in {"receive", "result"}
    PROVE  \A i \in 1..Ahead : Line[i].kind \in FileKinds => fed[Place(Line[i])[1]] # None
<1> SUFFICES ASSUME NEW i \in 1..Ahead, Line[i].kind \in FileKinds
             PROVE  fed[Place(Line[i])[1]] # None
  OBVIOUS
<1>1. CASE i = 1
  <2>1. Line[i] = Dealt /\ FileType
    BY <1>1, LineType DEF Types
  <2>2. CASE pc["R"] = "result"
    <3>1. Dealt = held /\ held \in Message /\ held.kind \in {"header", "delim"}
      BY <2>1, <2>2 DEF Dealt, FileType
    <3>2. held.kind = "header" /\ Place(held)[1] = held.val
      BY <2>1, <3>1, MessageShape DEF FileKinds
    <3> QED BY <2>1, <2>2, <3>1, <3>2 DEF Begun
  <2>3. CASE pc["R"] = "receive"
    <3>1. CASE filing = None
      BY <2>1, <2>3, <3>1 DEF Dealt, M, FileKinds
    <3>2. CASE filing # None
      <4>1. filing \in Files /\ fed[filing] # None
        BY <2>1, <3>2 DEF FileType, Begun
      <4>2. Place(Dealt)[1] = filing
        BY <2>3, <3>2 DEF Dealt, M, Place
      <4> QED BY <2>1, <4>1, <4>2
    <3> QED BY <3>1, <3>2
  <2> QED BY <2>2, <2>3
<1>2. CASE i # 1
  <2>1. Ahead \in Nat /\ \A j \in 2..Ahead : Line[j] \in Content(inbox["R"]) \cup Content(wire["R"])
    BY LineType
  <2>2. Line[i] \in Content(inbox["R"]) \cup Content(wire["R"])
    BY <1>2, <2>1
  <2> QED BY <2>2 DEF Begun, Sent
<1> QED BY <1>1, <1>2

-----------------------------------------------------------------------------
(* Files: the sender's steps *)

LEMMA AnswersStay ==
    ASSUME AnswerInv, UNCHANGED storing, pc'["R"] = pc["R"] PROVE AnswerInv'
BY DEF AnswerInv, AnswersAreOfTheirFile, storing

LEMMA DealtStays ==
    ASSUME UNCHANGED storing, pc'["R"] = pc["R"] PROVE Dealt' = Dealt
BY DEF Dealt, storing

\* Neither the line nor what R has moves, S is where it was or ends its files.
LEMMA OrderStays ==
    ASSUME Types, InOrder, UNCHANGED storing, pc'["R"] = pc["R"],
           inbox'["R"] = inbox["R"], wire'["R"] = wire["R"], FedMoves(fed, feeding, fed', feeding'),
           Up' /\ pc'["S"] \in {"send", "flush"} => ToFeed(Line[Ahead], fed', feeding')
    PROVE  InOrder'
<1> SUFFICES ASSUME pc["R"] \in {"receive", "result"} PROVE Fits' /\ Feedable' /\ AtHand'
  BY DEF InOrder
<1>1. Line' = Line /\ Ahead' = Ahead
  BY DealtStays, LineStays
<1>2. Fits /\ AtHand
  BY DEF InOrder
<1>3. Chained(Line, Ahead, fed', feeding')
  BY <1>2, LineType, ChainStays DEF Fits
<1>4. Fits'
  BY <1>1, <1>2, <1>3 DEF Fits, storing, HeadersAreNew
<1>5. Feedable'
  BY <1>1 DEF Feedable
<1>6. AtHand'
  BY <1>2 DEF AtHand, storing
<1> QED BY <1>4, <1>5, <1>6

\* A message of the file that S sends.
Feeds(f, m, c) ==
    \/ feeding = None /\ fed[f] = None /\ c = 0 /\ m = M("header", f)
    \/ feeding = f /\ fed[f] # None /\ c = fed[f] + 1 /\ m = M("data", <<f, c>>)

LEMMA FeedMoves ==
    ASSUME Types, NEW f \in Files, NEW m \in Message, NEW c \in 0..MaxChunks, Feeds(f, m, c), Feed(f, m, c)
    PROVE  /\ FedMoves(fed, feeding, fed', feeding')
           /\ \/ /\ Up /\ wire' = [wire EXCEPT !["R"] = Append(@, m)]
                 /\ feeding' = f /\ fed' = [fed EXCEPT ![f] = c]
              \/ /\ ~Up /\ wire' = wire
                 /\ \/ feeding' = f /\ fed' = [fed EXCEPT ![f] = c]
                    \/ feeding' = None /\ fed' = fed
<1>1. fed \in [Files -> 0..MaxChunks \cup {None}] /\ None \notin Files /\ None \notin 0..MaxChunks
  BY SetupsAssumption, NoneAssumption DEF Types, FileType
<1>2. \/ /\ Up /\ wire' = [wire EXCEPT !["R"] = Append(@, m)]
         /\ feeding' = f /\ fed' = [fed EXCEPT ![f] = c]
      \/ /\ ~Up /\ wire' = wire
         /\ \/ feeding' = f /\ fed' = [fed EXCEPT ![f] = c]
            \/ feeding' = None /\ fed' = fed
  BY DEF Feed
<1>3. ASSUME NEW e \in Files, fed[e] # None, e # feeding PROVE fed'[e] = fed[e] /\ e # feeding'
  <2>1. e # f
    BY <1>3 DEF Feeds
  <2> QED BY <1>1, <1>2, <2>1
<1> QED BY <1>2, <1>3 DEF FedMoves

LEMMA FeedFollows ==
    ASSUME Types, NEW f \in Files, NEW m \in Message, NEW c \in 0..MaxChunks, Feeds(f, m, c),
           NEW l \in Message, ToFeed(l, fed, feeding)
    PROVE  /\ Follows(l, m, fed, feeding) /\ m.kind \in FileKinds /\ Place(m) = <<f, c>>
           /\ m.kind = "header" => m.val = f /\ fed[f] = None
<1>1. CASE m = M("header", f) /\ fed[f] = None /\ feeding = None /\ c = 0
  BY <1>1 DEF M, Follows, ToFeed, FileKinds, Place, Delim
<1>2. CASE feeding = f /\ fed[f] # None /\ c = fed[f] + 1 /\ m = M("data", <<f, c>>)
  <2>1. m.kind = "data" /\ m.val = <<f, c>> /\ f # None
    BY <1>2, SetupsAssumption DEF M
  <2>2. l.kind \in FileKinds /\ Place(l) = <<f, fed[f]>>
    BY <1>2, <2>1 DEF ToFeed
  <2>3. m.val = <<Place(l)[1], Place(l)[2] + 1>>
    BY <1>2, <2>1, <2>2
  <2> QED BY <2>1, <2>2, <2>3 DEF Follows, FileKinds, Place, Delim, M
<1> QED BY <1>1, <1>2 DEF Feeds

LEMMA FeedKeepsOrder ==
    ASSUME Types, InOrder, Begun, pc["S"] = "send", UNCHANGED <<session, pc, inbox, storing>>,
           NEW f \in Files, NEW m \in Message, NEW c \in 0..MaxChunks, Feeds(f, m, c), Feed(f, m, c)
    PROVE  InOrder'
<1>0. Up' = Up /\ wire \in [Sides -> Seq(Message)] /\ fed \in [Files -> 0..MaxChunks \cup {None}] /\ f # None
  BY SetupsAssumption DEF Up, session, Types, QueueType, FileType
<1>1. CASE ~Up
  <2>1. wire' = wire /\ FedMoves(fed, feeding, fed', feeding')
    BY <1>1, FeedMoves
  <2>2. pc' = pc /\ inbox' = inbox /\ UNCHANGED storing /\ ~Up'
    BY <1>0, <1>1
  <2>3. pc'["R"] = pc["R"] /\ inbox'["R"] = inbox["R"] /\ wire'["R"] = wire["R"]
    BY <2>1, <2>2
  <2> QED BY <2>1, <2>2, <2>3, OrderStays
<1>2. CASE Up
  <2> SUFFICES ASSUME pc["R"] \in {"receive", "result"} PROVE Fits' /\ Feedable' /\ AtHand'
    BY DEF InOrder
  <2>1. /\ wire'["R"] = Append(wire["R"], m) /\ feeding' = f /\ fed'[f] = c
        /\ FedMoves(fed, feeding, fed', feeding')
    BY <1>0, <1>2, FeedMoves, BothSides
  <2>2. Ahead' = Ahead + 1 /\ (\A i \in 1..Ahead : Line'[i] = Line[i]) /\ Line'[Ahead + 1] = m
    BY <2>1, DealtStays, LineAppends
  <2>3. Fits /\ AtHand /\ ToFeed(Line[Ahead], fed, feeding)
    BY <1>2 DEF InOrder, Feedable
  <2>4. Ahead \in Nat \ {0} /\ \A i \in 1..Ahead : Line[i] \in Message
    BY LineType
  <2>5. /\ Follows(Line[Ahead], m, fed, feeding) /\ m.kind \in FileKinds /\ Place(m) = <<f, c>>
        /\ m.kind = "header" => m.val = f /\ fed[f] = None
    <3>1. Line[Ahead] \in Message
      BY <2>4
    <3> QED BY <2>3, <3>1, FeedFollows
  <2>6. Chained(Line', Ahead + 1, fed, feeding)
    BY <2>2, <2>3, <2>4, <2>5, ChainGrows DEF Fits
  <2>7. \A i \in 1..(Ahead + 1) : Line'[i] \in Message
    <3>1. \A i \in 1..(Ahead + 1) : i \in 1..Ahead \/ i = Ahead + 1
      BY <2>4
    <3> QED BY <2>2, <2>4, <3>1
  <2>8. Chained(Line', Ahead + 1, fed', feeding')
    BY <2>1, <2>4, <2>6, <2>7, ChainStays
  <2>9. ASSUME m.kind = "header"
        PROVE  /\ got[f] = <<>> /\ f \notin whole /\ f # filing
               /\ \A i \in 1..Ahead : ~(Line[i].kind = "header" /\ Line[i].val = f)
    <3>1. fed[f] = None
      BY <2>5, <2>9
    <3>2. ASSUME NEW i \in 1..Ahead, Line[i].kind = "header", Line[i].val = f PROVE FALSE
      <4>1. Place(Line[i])[1] = f /\ Line[i].kind \in FileKinds
        BY <2>4, <3>2, MessageShape DEF FileKinds
      <4> QED BY <3>1, <4>1, LineSent
    <3> QED BY <3>1, <3>2 DEF Begun
  <2>10. HeadersAreNew(Line', Ahead + 1, got, whole, filing)
    BY <2>2, <2>3, <2>4, <2>5, <2>9, HeadersGrow DEF Fits
  <2>11. Fits'
    BY <2>2, <2>8, <2>10 DEF Fits, storing
  <2>12. Feedable'
    BY <1>0, <2>1, <2>2, <2>5 DEF Feedable, ToFeed
  <2>13. AtHand'
    BY <2>3 DEF AtHand, storing
  <2> QED BY <2>11, <2>12, <2>13
<1> QED BY <1>1, <1>2

LEMMA FeedKeeps ==
    ASSUME Types, Core, pc["S"] = "send", UNCHANGED <<session, pc, inbox, storing>>,
           NEW f \in Files, NEW m \in Message, NEW c \in 0..MaxChunks, Feeds(f, m, c), Feed(f, m, c)
    PROVE  Core'
<1>0. /\ wire \in [Sides -> Seq(Message)] /\ inbox \in [Sides -> Seq(Message)] /\ c # None
      /\ fed \in [Files -> 0..MaxChunks \cup {None}] /\ got \in [Files -> Seq(Files \X (Nat \ {0}))]
      /\ whole \subseteq Files /\ None \notin Files
  BY SetupsAssumption, NoneAssumption DEF Types, QueueType, FileType
<1>1. InOrder'
  BY FeedKeepsOrder DEF Core
<1>2. /\ FedMoves(fed, feeding, fed', feeding')
      /\ \/ /\ Up /\ wire'["R"] = Append(wire["R"], m)
            /\ feeding' = f /\ fed' = [fed EXCEPT ![f] = c]
         \/ /\ ~Up /\ wire'["R"] = wire["R"]
            /\ \/ feeding' = f /\ fed' = [fed EXCEPT ![f] = c]
               \/ feeding' = None /\ fed' = fed
  BY <1>0, FeedMoves, BothSides
<1>3. fed'[f] # None \/ fed' = fed
  BY <1>0, <1>2
<1>4. \A e \in Files : fed[e] # None => fed'[e] # None
  BY <1>0, <1>2
<1>5. m.kind \in FileKinds /\ Place(m)[1] = f
  BY DEF Feeds, M, Place, FileKinds
<1>6. Begun'
  <2>1. Sent(inbox'["R"], fed')
    <3>1. Sent(inbox["R"], fed) /\ Content(inbox["R"]) \subseteq Message
      BY <1>0, ContentSteps, BothSides DEF Core, Begun
    <3> QED BY <1>4, <3>1, MessageShape DEF Sent
  <2>2. Sent(wire'["R"], fed')
    <3>1. /\ Sent(wire["R"], fed) /\ Content(wire["R"]) \subseteq Message
          /\ Content(Append(wire["R"], m)) = Content(wire["R"]) \cup {m}
      BY <1>0, ContentSteps, BothSides DEF Core, Begun
    <3>2. Sent(wire["R"], fed')
      BY <1>4, <3>1, MessageShape DEF Sent
    <3>3. wire'["R"] = wire["R"] \/ (wire'["R"] = Append(wire["R"], m) /\ fed'[f] # None)
      BY <1>0, <1>2
    <3> QED BY <1>5, <3>1, <3>2, <3>3 DEF Sent
  <2>3. pc'["R"] = "result" /\ held'.kind = "header" => fed'[held'.val] # None
    <3>1. pc["R"] = "result" /\ held.kind = "header" => held.val \in Files /\ fed[held.val] # None
      BY MessageShape DEF Core, Begun, Types, FileType
    <3> QED BY <1>4, <3>1 DEF storing
  <2>4. \A e \in Files : fed'[e] = None =>
           got'[e] = <<>> /\ e \notin whole' /\ e # filing' /\ replies'[e] = None
    BY <1>4 DEF Core, Begun, storing
  <2> QED BY <2>1, <2>2, <2>3, <2>4 DEF Begun
<1>7. StreamsAreFiles'
  <2>1. \A e \in whole : fed[e] # None /\ e # feeding
    BY <1>0 DEF Core, Begun, StreamsAreFiles
  <2>2. \A e \in whole : fed'[e] = fed[e] /\ e # feeding'
    BY <1>0, <1>2, <2>1 DEF FedMoves
  <2> QED BY <1>0, <2>2 DEF Core, StreamsAreFiles, storing
<1>8. AnswerInv'
  BY AnswersStay DEF Core
<1> QED BY <1>1, <1>6, <1>7, <1>8 DEF Core

-----------------------------------------------------------------------------
\* Nothing of R's moves, nor what is under way to it.
LEMMA SenderMoves ==
    ASSUME Types, Core, UNCHANGED <<storing, fed>>, pc'["R"] = pc["R"],
           inbox'["R"] = inbox["R"], wire'["R"] = wire["R"],
           feeding' = feeding \/ feeding' = None, Up' => Up,
           pc'["S"] \in {"send", "flush"} => pc["S"] \in {"send", "flush"},
           pc'["S"] # "send" => feeding' = None
    PROVE  Core'
<1>0. /\ fed \in [Files -> 0..MaxChunks \cup {None}] /\ None \notin Files
      /\ feeding \in Files \cup {None} /\ (feeding # None => fed[feeding] # None)
      /\ whole \subseteq Files /\ InOrder
  BY SetupsAssumption DEF Types, FileType, Core
<1>1. FedMoves(fed, feeding, fed', feeding')
  BY <1>0 DEF FedMoves
<1>2. ASSUME NEW l, ToFeed(l, fed, feeding) PROVE ToFeed(l, fed', feeding')
  <2>1. CASE feeding' = feeding
    BY <1>2, <2>1 DEF ToFeed
  <2>2. CASE feeding' = None /\ feeding # None
    <3>1. l.kind \in FileKinds /\ Place(l) = <<feeding, fed[feeding]>>
      BY <1>2, <2>2 DEF ToFeed
    <3>2. Ended(l, fed, None)
      BY <1>0, <2>2, <3>1 DEF Ended, FileKinds
    <3> QED BY <2>2, <3>2 DEF ToFeed
  <2> QED BY <2>1, <2>2
<1>3. InOrder'
  <2>1. CASE pc["R"] \in {"receive", "result"}
    <3>1. Up' /\ pc'["S"] \in {"send", "flush"} => ToFeed(Line[Ahead], fed', feeding')
      BY <1>0, <1>2, <2>1 DEF InOrder, Feedable
    <3> QED BY <1>0, <1>1, <3>1, OrderStays
  <2>2. CASE pc["R"] \notin {"receive", "result"}
    BY <2>2 DEF InOrder
  <2> QED BY <2>1, <2>2
<1>4. Begun'
  BY DEF Core, Begun, storing
<1>5. StreamsAreFiles'
  BY <1>0 DEF Core, StreamsAreFiles, storing
<1>6. AnswerInv'
  BY AnswersStay DEF Core
<1> QED BY <1>3, <1>4, <1>5, <1>6 DEF Core

LEMMA SendFileKeeps ==
    ASSUME Types, Core, NEW f \in Offered, SendFile(f) PROVE Core'
<1>1. f \in Files /\ 0 \in 0..MaxChunks /\ M("header", f) \in Message
  BY CountsAssumption, FileMessages DEF Types, SessionType, Setup, Offered
<1>2. /\ pc["S"] = "send" /\ feeding = None /\ fed[f] = None /\ UNCHANGED <<session, pc, inbox, storing>>
      /\ \/ Feed(f, M("header", f), 0)
         \/ UNCHANGED <<wire, feeding, fed>>
  BY DEF SendFile, session
<1>3. CASE Feed(f, M("header", f), 0)
  <2>1. Feeds(f, M("header", f), 0)
    BY <1>2 DEF Feeds
  <2> QED BY <1>1, <1>2, <1>3, <2>1, FeedKeeps
<1>4. CASE UNCHANGED <<wire, feeding, fed>>
  <2>1. UNCHANGED <<closed, lost, cut, pc, inbox, wire, feeding, fed, storing>>
    BY <1>2, <1>4 DEF session
  <2>2. Up' = Up
    BY <2>1 DEF Up
  <2> QED BY <1>2, <2>1, <2>2, SenderMoves
<1> QED BY <1>2, <1>3, <1>4

LEMMA SendChunkKeeps ==
    ASSUME Types, Core, SendChunk PROVE Core'
<1>1. /\ pc["S"] = "send" /\ feeding # None /\ UNCHANGED <<session, pc, inbox, storing>>
      /\ fed[feeding] < setup.chunks
      /\ Feed(feeding, M("data", <<feeding, fed[feeding] + 1>>), fed[feeding] + 1)
  BY DEF SendChunk, session
<1>2. /\ feeding \in Files /\ fed[feeding] # None /\ fed[feeding] \in 0..MaxChunks
      /\ setup.chunks \in 0..MaxChunks /\ MaxChunks \in Nat
  BY <1>1, CountsAssumption DEF Types, FileType, SessionType, Setup
<1>3. PICK c \in 0..MaxChunks : c = fed[feeding] + 1 /\ c \in Nat \ {0}
  BY <1>1, <1>2
<1>4. M("data", <<feeding, c>>) \in Message
  BY <1>2, <1>3, FileMessages
<1>5. Feeds(feeding, M("data", <<feeding, c>>), c) /\ Feed(feeding, M("data", <<feeding, c>>), c)
  BY <1>1, <1>2, <1>3 DEF Feeds
<1> QED BY <1>1, <1>2, <1>4, <1>5, FeedKeeps

LEMMA EndFileKeeps == ASSUME Types, Core, EndFile PROVE Core'
<1>1. /\ pc["S"] = "send" /\ feeding' = None
      /\ UNCHANGED <<closed, lost, cut, pc, inbox, wire, fed, storing>>
  BY DEF EndFile, session
<1>2. Up' = Up
  BY <1>1 DEF Up
<1> QED BY <1>1, <1>2, SenderMoves

LEMMA NoMoreFilesKeeps == ASSUME Types, Core, NoMoreFiles PROVE Core'
<1>0. pc \in [Sides -> TaskStates]
  BY DEF Types, QueueType
<1>1. /\ pc["S"] = "send" /\ feeding = None /\ pc' = [pc EXCEPT !["S"] = "flush"]
      /\ UNCHANGED <<closed, lost, cut, inbox, wire, feeding, fed, storing>>
  BY DEF NoMoreFiles, session, sending, Goto
<1>2. pc'["S"] = "flush" /\ pc'["R"] = pc["R"]
  BY <1>0, <1>1, BothSides
<1>3. Up' = Up
  BY <1>1 DEF Up
<1> QED BY <1>1, <1>2, <1>3, SenderMoves

LEMMA ReceiveLastKeeps == ASSUME Types, Core, ReceiveLast PROVE Core'
<1>0. pc \in [Sides -> TaskStates] /\ inbox \in [Sides -> Seq(Message)] /\ QueueType
  BY DEF Types, QueueType
<1>1. PICK m : /\ Takes("S", "last", m) /\ pc' = [pc EXCEPT !["S"] = "ok"] /\ wire' = wire
               /\ UNCHANGED <<closed, lost, cut, feeding, fed, storing>>
  BY DEF ReceiveLast, session, sending, Goto
<1>2. pc["S"] = "last" /\ inbox' = [inbox EXCEPT !["S"] = Tail(@)]
  BY <1>1 DEF Takes
<1>3. pc'["S"] = "ok" /\ pc'["R"] = pc["R"] /\ inbox'["R"] = inbox["R"] /\ feeding = None
  BY <1>0, <1>1, <1>2, BothSides DEF Core, Begun
<1>4. Up' = Up
  BY <1>1 DEF Up
<1> QED BY <1>1, <1>3, <1>4, SenderMoves

\* The delimiter comes after what S has sent of its last file.
LEMMA SendDelimiterKeeps == ASSUME Types, Core, SendDelimiter PROVE Core'
<1>0. /\ pc \in [Sides -> TaskStates] /\ wire \in [Sides -> Seq(Message)] /\ QueueType
      /\ {"last", "err"} \subseteq TaskStates /\ Delim \in Message
  BY FileMessages DEF Types, QueueType, TaskStates
<1>1. /\ pc["S"] = "flush" /\ Send("S", <<Delim>>, "last")
      /\ UNCHANGED <<closed, lost, cut, inbox, feeding, fed, storing>>
  BY DEF SendDelimiter, Delimiter, session, sending
<1>2. \/ /\ Up /\ wire' = [wire EXCEPT !["R"] = Append(@, Delim)]
         /\ pc' = [pc EXCEPT !["S"] = "last"]
      \/ /\ ~Up /\ wire' = wire
         /\ \E to \in {"last", "err"} : pc' = [pc EXCEPT !["S"] = to]
  BY <1>0, <1>1, SendsLast, BothSides
<1>3. /\ pc'["R"] = pc["R"] /\ pc'["S"] \in {"last", "err"} /\ feeding = None /\ Up' = Up
      /\ \/ Up /\ wire'["R"] = Append(wire["R"], Delim)
         \/ ~Up /\ wire'["R"] = wire["R"]
  BY <1>0, <1>1, <1>2, BothSides DEF Core, Begun, Up
<1>4. Content(Append(wire["R"], Delim)) = Content(wire["R"]) \cup {Delim}
  BY <1>0, ContentSteps, BothSides
<1>5. Delim.kind = "delim" /\ Delim.kind \notin FileKinds
  BY DEF Delim, M, FileKinds
<1>6. CASE ~Up
  BY <1>1, <1>3, <1>6, SenderMoves
<1>7. CASE Up
  <2>1. wire'["R"] = Append(wire["R"], Delim)
    BY <1>3, <1>7
  <2>2. InOrder'
    <3> SUFFICES ASSUME pc["R"] \in {"receive", "result"} PROVE Fits' /\ Feedable' /\ AtHand'
      BY <1>3 DEF InOrder
    <3>1. Ahead' = Ahead + 1 /\ (\A i \in 1..Ahead : Line'[i] = Line[i]) /\ Line'[Ahead + 1] = Delim
      BY <1>0, <1>1, <1>3, <2>1, DealtStays, LineAppends
    <3>2. Fits /\ AtHand /\ ToFeed(Line[Ahead], fed, feeding)
      BY <1>1, <1>7 DEF Core, InOrder, Feedable
    <3>3. Ahead \in Nat \ {0}
      BY LineType
    <3>4. Follows(Line[Ahead], Delim, fed, feeding)
      BY <1>3, <1>5, <3>2 DEF ToFeed, Follows
    <3>5. Chained(Line', Ahead + 1, fed, feeding)
      BY <3>1, <3>2, <3>3, <3>4, ChainGrows DEF Fits
    <3>6. HeadersAreNew(Line', Ahead + 1, got, whole, filing)
      BY <1>5, <3>1, <3>2, <3>3, HeadersGrow DEF Fits
    <3>7. Fits'
      BY <1>1, <3>1, <3>5, <3>6 DEF Fits, storing
    <3>8. Feedable' /\ AtHand'
      BY <1>1, <1>3, <3>2 DEF Feedable, AtHand, storing
    <3> QED BY <3>7, <3>8
  <2>3. Begun'
    <3>1. Sent(wire'["R"], fed)
      BY <1>4, <1>5, <2>1 DEF Core, Begun, Sent
    <3> QED BY <1>1, <1>3, <3>1 DEF Core, Begun, storing
  <2>4. StreamsAreFiles'
    BY <1>1 DEF Core, StreamsAreFiles, storing
  <2>5. AnswerInv'
    BY <1>1, <1>3, AnswersStay DEF Core
  <2> QED BY <2>2, <2>3, <2>4, <2>5 DEF Core
<1> QED BY <1>6, <1>7

\* When S may send its first file the queue to R is empty.
LEMMA QuietIsCore ==
    ASSUME HInv, Types, EndInv, Quiet, pc["S"] \in {"send", "flush"} PROVE Filing /\ Core
<1>0. /\ pc["R"] \notin {"result", "drain", "ok"} /\ NothingStored
      /\ inbox["R"] = <<>> /\ wire["R"] = <<>>
  BY DEF Quiet, EndInv, DelimiterIsLast, Empty
<1>1. Filing /\ pc["R"] \in {"receive", "err"}
  <2>1. Filing
    BY DEF HInv, Before, After, GivenUp, Opening, ReceiversPin, SendersPin, Passed, Filing, At, Asking
  <2> QED BY <1>0, <2>1 DEF Filing, At
<1>2. Content(inbox["R"]) = {} /\ Content(wire["R"]) = {}
  <2>1. <<>> \in Seq(Message)
    BY EmptySeq
  <2> QED BY <1>0, <2>1, ContentSteps
<1>3. InOrder
  <2>1. Len(<<>>) = 0
    BY EmptySeq
  <2>2. Ahead = 1
    BY <1>0, <2>1 DEF Ahead, LineLength
  <2>3. Line[1] = M("nonce", None)
    BY <1>0, LineType DEF Dealt, NothingStored
  <2>4. Fits
    BY <2>2 DEF Fits, Chained, HeadersAreNew
  <2>5. ToFeed(Line[Ahead], fed, feeding)
    BY <1>0, <2>2, <2>3 DEF ToFeed, Ended, M, NothingStored, FileKinds
  <2>6. AtHand
    BY <1>0 DEF AtHand, NothingStored
  <2> QED BY <2>4, <2>5, <2>6 DEF InOrder, Feedable
<1>4. Begun
  BY <1>0, <1>2, SetupsAssumption DEF Begun, NothingStored, Sent
<1>5. StreamsAreFiles
  <2> SUFFICES ASSUME NEW f \in Files PROVE got[f] = [i \in 1..Len(got[f]) |-> <<f, i>>]
    BY <1>0 DEF StreamsAreFiles, NothingStored
  <2>1. got[f] = <<>> /\ Len(<<>>) = 0 /\ 1..0 = {}
    BY <1>0, EmptySeq DEF NothingStored
  <2>2. <<>> = [i \in 1..0 |-> <<f, i>>]
    BY <2>1
  <2> QED BY <2>1, <2>2
<1>6. AnswerInv
  BY <1>0 DEF AnswerInv, AnswersAreOfTheirFile, NothingStored
<1> QED BY <1>1, <1>3, <1>4, <1>5, <1>6 DEF Core

-----------------------------------------------------------------------------
(* Files: the receiver's steps *)

\* R deals with the next message: the rest of the line is in order.
LEMMA OrderTakes ==
    ASSUME Types, InOrder, pc["R"] \in {"receive", "result"}, inbox["R"] # <<>>,
           Dealt' = Head(inbox["R"]), inbox'["R"] = Tail(inbox["R"]), wire'["R"] = wire["R"],
           UNCHANGED <<fed, feeding>>, pc'["S"] = pc["S"], Up' = Up,
           \A i \in 3..Ahead : Line[i].kind = "header" =>
              got'[Line[i].val] = <<>> /\ Line[i].val \notin whole' /\ Line[i].val # filing'
    PROVE  Fits' /\ Feedable'
<1>1. /\ Ahead > 1 /\ Ahead' = Ahead - 1
      /\ \A i \in 1..(Ahead - 1) : Line'[i] = Line[i + 1]
  BY LineTakes
<1>2. Ahead \in Nat \ {0} /\ Fits /\ Feedable
  BY LineType DEF InOrder
<1>3. Chained(Line', Ahead - 1, fed, feeding)
  BY <1>1, <1>2, ChainPops DEF Fits
<1>4. HeadersAreNew(Line', Ahead - 1, got', whole', filing')
  BY <1>1, <1>2, HeadersPop DEF Fits
<1>5. Fits'
  BY <1>1, <1>3, <1>4 DEF Fits
<1>6. Line'[Ahead'] = Line[Ahead]
  <2>1. Ahead - 1 \in 1..(Ahead - 1) /\ (Ahead - 1) + 1 = Ahead
    BY <1>1, <1>2
  <2> QED BY <1>1, <2>1
<1>7. Feedable'
  BY <1>2, <1>6 DEF Feedable
<1> QED BY <1>5, <1>7

\* What R's task takes while it receives files.
LEMMA FileTaken ==
    ASSUME Types, Core, NEW m, Takes("R", "receive", m)
    PROVE  /\ pc["R"] = "receive" /\ m \in Message /\ inbox["R"] # <<>> /\ m = Head(inbox["R"])
           /\ inbox'["R"] = Tail(inbox["R"]) /\ Ahead > 1 /\ Ahead \in Nat
           /\ Line[2] = m /\ Line[1] = Dealt /\ Dealt \in Message /\ Fits /\ AtHand
           /\ Follows(Dealt, m, fed, feeding)
           /\ m.kind = "header" => got[m.val] = <<>> /\ m.val \notin whole /\ m.val # filing
           /\ \A i \in 3..Ahead : Line[i].kind = "header" =>
                 /\ got[Line[i].val] = <<>> /\ Line[i].val \notin whole /\ Line[i].val # filing
                 /\ m.kind = "header" => Line[i].val # m.val
<1>0. QueueType /\ inbox \in [Sides -> Seq(Message)] /\ wire["R"] \in Seq(Message) /\ inbox["R"] \in Seq(Message)
  BY BothSides DEF Types, QueueType
<1>1. /\ pc["R"] = "receive" /\ m \in Message /\ inbox["R"] # <<>> /\ m = Head(inbox["R"])
      /\ inbox' = [inbox EXCEPT !["R"] = Tail(@)]
  BY <1>0, TakesMoves, BothSides
<1>2. inbox'["R"] = Tail(inbox["R"])
  BY <1>0, <1>1, BothSides
<1>3. Fits /\ AtHand
  BY <1>1 DEF Core, InOrder
<1>4. Ahead \in Nat \ {0} /\ Line[1] = Dealt /\ Dealt \in Message
  BY LineType, DealtType
<1>5. Ahead > 1 /\ Line[2] = m
  <2>1. LineOf(Dealt, inbox["R"], wire["R"])[2] = Head(inbox["R"]) /\ LineLength(inbox["R"], wire["R"]) > 1
    BY <1>0, <1>1, <1>4, LineMoves
  <2> QED BY <1>1, <2>1 DEF Line, Ahead
<1>6. Follows(Dealt, m, fed, feeding)
  <2>1. 1 \in 1..(Ahead - 1)
    BY <1>4, <1>5
  <2>2. Follows(Line[1], Line[1 + 1], fed, feeding)
    BY <1>3, <2>1 DEF Fits, Chained
  <2> QED BY <1>4, <1>5, <2>2
<1>7. m.kind = "header" => got[m.val] = <<>> /\ m.val \notin whole /\ m.val # filing
  <2>1. 2 \in 2..Ahead
    BY <1>4, <1>5
  <2> QED BY <1>3, <1>5, <2>1 DEF Fits, HeadersAreNew
<1>8. ASSUME NEW i \in 3..Ahead, Line[i].kind = "header"
      PROVE  /\ got[Line[i].val] = <<>> /\ Line[i].val \notin whole /\ Line[i].val # filing
             /\ m.kind = "header" => Line[i].val # m.val
  <2>1. i \in 2..Ahead /\ 2 \in 1..Ahead /\ 2 # i
    BY <1>4, <1>5
  <2>2. /\ got[Line[i].val] = <<>> /\ Line[i].val \notin whole /\ Line[i].val # filing
        /\ \A j \in 1..Ahead : Line[j].kind = "header" /\ Line[j].val = Line[i].val => j = i
    BY <1>3, <1>8, <2>1 DEF Fits, HeadersAreNew
  <2> QED BY <1>5, <2>1, <2>2
<1> QED BY <1>1, <1>2, <1>3, <1>4, <1>5, <1>6, <1>7, <1>8

\* What is left S has begun, and the file that the message opens as well.
LEMMA TakenSent ==
    ASSUME Types, Begun, inbox["R"] # <<>>
    PROVE  /\ Sent(Tail(inbox["R"]), fed)
           /\ Head(inbox["R"]).kind = "header" => fed[Head(inbox["R"]).val] # None
<1>1. inbox["R"] \in Seq(Message) /\ Tail(inbox["R"]) \in Seq(Message) /\ Head(inbox["R"]) \in Message
  BY DealtType, TailSteps
<1>2. Content(Tail(inbox["R"])) \subseteq Content(inbox["R"]) /\ Head(inbox["R"]) \in Content(inbox["R"])
  BY <1>1, ContentSteps
<1>3. Sent(Tail(inbox["R"]), fed)
  BY <1>2 DEF Begun, Sent
<1>4. Head(inbox["R"]).kind = "header" => fed[Head(inbox["R"]).val] # None
  <2>1. Head(inbox["R"]).kind = "header" => Place(Head(inbox["R"]))[1] = Head(inbox["R"]).val
    BY <1>1, MessageShape
  <2> QED BY <1>2, <2>1 DEF Begun, Sent, FileKinds
<1> QED BY <1>3, <1>4

\* A text before the first file opens it, or is the end or an error.
LEMMA OpenFileKeeps ==
    ASSUME Types, Core, NEW m, Takes("R", "receive", m), m.kind # "data", filing = None,
           OpenFile(m), UNCHANGED <<session, sending, got, whole, verdict, mailbox, held, replies, broken>>
    PROVE  Core'
<1>0. pc \in [Sides -> TaskStates] /\ whole \subseteq Files
  BY DEF Types, QueueType, FileType
<1>1. /\ pc["R"] = "receive" /\ m \in Message /\ inbox["R"] # <<>> /\ m = Head(inbox["R"])
      /\ inbox'["R"] = Tail(inbox["R"])
      /\ m.kind = "header" => got[m.val] = <<>> /\ m.val \notin whole
      /\ \A i \in 3..Ahead : Line[i].kind = "header" =>
            /\ got[Line[i].val] = <<>> /\ Line[i].val \notin whole
            /\ m.kind = "header" => Line[i].val # m.val
  BY FileTaken
<1>2. /\ wire' = wire
      /\ \/ m.kind = "header" /\ pc' = [pc EXCEPT !["R"] = "receive"] /\ filing' = m.val
         \/ pc' = [pc EXCEPT !["R"] = "err"] /\ filing' = None
  BY DEF OpenFile, Goto
<1>3. /\ pc'["S"] = pc["S"] /\ Up' = Up
      /\ \/ m.kind = "header" /\ pc'["R"] = "receive" /\ filing' = m.val
         \/ pc'["R"] = "err" /\ filing' = None
  BY <1>0, <1>2, BothSides DEF session, Up
<1>4. Sent(Tail(inbox["R"]), fed) /\ (m.kind = "header" => fed[m.val] # None)
  BY <1>1, TakenSent DEF Core
<1>5. InOrder'
  <2> SUFFICES ASSUME pc'["R"] \in {"receive", "result"} PROVE Fits' /\ Feedable' /\ AtHand'
    BY DEF InOrder
  <2>1. m.kind = "header" /\ pc'["R"] = "receive" /\ filing' = m.val
    BY <1>3
  <2>2. m.val \in Files /\ m = M("header", m.val)
    BY <1>1, <2>1, MessageShape
  <2>3. Dealt' = m
    BY <1>1, <2>1, <2>2, SetupsAssumption DEF Dealt
  <2>4. AtHand'
    BY <1>1, <2>1 DEF AtHand
  <2>5. Fits' /\ Feedable'
    BY <1>1, <1>2, <1>3, <2>1, <2>3, OrderTakes DEF Core, sending
  <2> QED BY <2>4, <2>5
<1>6. Begun'
  BY <1>1, <1>2, <1>3, <1>4, SetupsAssumption DEF Core, Begun, sending
<1>7. StreamsAreFiles'
  BY DEF Core, StreamsAreFiles, sending
<1>8. AnswerInv'
  BY <1>1, <1>3 DEF Core, AnswerInv, AnswersAreOfTheirFile
<1> QED BY <1>5, <1>6, <1>7, <1>8 DEF Core

\* A text ends the file at hand, of which everything is there.
LEMMA CloseFileKeeps ==
    ASSUME Types, Core, NEW m, Takes("R", "receive", m), m.kind # "data", filing # None,
           Goto("R", "result"), held' = m, whole' = whole \cup {filing},
           UNCHANGED <<session, sending, filing, got, verdict, mailbox, replies, broken>>
    PROVE  Core'
<1>0. /\ pc \in [Sides -> TaskStates] /\ whole \subseteq Files /\ filing \in Files
      /\ got \in [Files -> Seq(Files \X (Nat \ {0}))]
      /\ fed \in [Files -> 0..MaxChunks \cup {None}]
  BY DEF Types, QueueType, FileType
<1>1. /\ pc["R"] = "receive" /\ m \in Message /\ inbox["R"] # <<>> /\ m = Head(inbox["R"])
      /\ inbox'["R"] = Tail(inbox["R"]) /\ Dealt \in Message /\ Follows(Dealt, m, fed, feeding)
      /\ m.kind = "header" => got[m.val] = <<>> /\ m.val \notin whole /\ m.val # filing
      /\ \A i \in 3..Ahead : Line[i].kind = "header" =>
            /\ got[Line[i].val] = <<>> /\ Line[i].val \notin whole /\ Line[i].val # filing
  BY FileTaken
<1>2. wire' = wire /\ pc'["S"] = pc["S"] /\ Up' = Up /\ pc'["R"] = "result"
  BY <1>0, BothSides DEF Goto, session, Up
<1>3. filing # feeding /\ fed[filing] # None /\ Len(got[filing]) = fed[filing]
  <2>1. Ended(Dealt, fed, feeding)
    BY <1>1 DEF Follows
  <2>2. CASE got[filing] = <<>>
    <3>1. Dealt = M("header", filing)
      BY <1>1, <2>2 DEF Dealt
    <3>2. Dealt.kind \in FileKinds /\ Place(Dealt)[1] = filing /\ Place(Dealt)[2] = 0
      BY <3>1 DEF Place, M, FileKinds
    <3>3. Len(got[filing]) = 0
      BY <2>2, EmptySeq
    <3> QED BY <2>1, <3>2, <3>3 DEF Ended
  <2>3. CASE got[filing] # <<>>
    <3>1. Dealt = M("data", <<filing, Len(got[filing])>>)
      BY <1>1, <2>3 DEF Dealt
    <3>2. Dealt.kind \in FileKinds /\ Place(Dealt)[1] = filing /\ Place(Dealt)[2] = Len(got[filing])
      BY <3>1 DEF Place, M, FileKinds
    <3> QED BY <2>1, <3>2 DEF Ended
  <2> QED BY <2>2, <2>3
<1>4. Sent(Tail(inbox["R"]), fed) /\ (m.kind = "header" => fed[m.val] # None)
  BY <1>1, TakenSent DEF Core
<1>5. InOrder'
  <2>1. Dealt' = m
    BY <1>2 DEF Dealt
  <2>2. AtHand'
    BY <1>1, <1>2 DEF AtHand
  <2>3. \A i \in 3..Ahead : Line[i].kind = "header" =>
              got'[Line[i].val] = <<>> /\ Line[i].val \notin whole' /\ Line[i].val # filing'
    BY <1>1
  <2>4. Fits' /\ Feedable'
    BY <1>1, <1>2, <2>1, <2>3, OrderTakes DEF Core, sending
  <2> QED BY <2>2, <2>4 DEF InOrder
<1>6. Begun'
  BY <1>1, <1>2, <1>3, <1>4 DEF Core, Begun, sending
<1>7. StreamsAreFiles'
  BY <1>3 DEF Core, StreamsAreFiles, sending
<1>8. AnswerInv'
  BY <1>1, <1>2 DEF Core, AnswerInv, AnswersAreOfTheirFile
<1> QED BY <1>5, <1>6, <1>7, <1>8 DEF Core

LEMMA ReceiveTextKeeps == ASSUME Types, Core, ReceiveText PROVE Core'
<1>1. PICK m : /\ Takes("R", "receive", m) /\ m.kind # "data"
               /\ IF filing = None
                    THEN OpenFile(m) /\ UNCHANGED <<whole, held>>
                    ELSE /\ Goto("R", "result") /\ held' = m
                         /\ whole' = whole \cup {filing} /\ UNCHANGED filing
               /\ UNCHANGED <<session, sending, got, verdict, mailbox, replies, broken>>
  BY DEF ReceiveText
<1>2. CASE filing = None
  BY <1>1, <1>2, OpenFileKeeps
<1>3. CASE filing # None
  BY <1>1, <1>3, CloseFileKeeps
<1> QED BY <1>2, <1>3

-----------------------------------------------------------------------------
\* One more chunk is one more of the file.
LEMMA StreamGrows ==
    ASSUME NEW f \in Files, NEW q \in Seq(Files \X (Nat \ {0})), q = [i \in 1..Len(q) |-> <<f, i>>]
    PROVE  /\ Len(Append(q, <<f, Len(q) + 1>>)) = Len(q) + 1 /\ Append(q, <<f, Len(q) + 1>>) # <<>>
           /\ Append(q, <<f, Len(q) + 1>>) = [i \in 1..(Len(q) + 1) |-> <<f, i>>]
<1>1. Len(q) \in Nat
  BY LenProperties
<1>2. <<f, Len(q) + 1>> \in Files \X (Nat \ {0})
  BY <1>1
<1>3. PICK r \in Seq(Files \X (Nat \ {0})) : r = Append(q, <<f, Len(q) + 1>>)
  BY <1>2, AppendProperties
<1>4. /\ Len(r) = Len(q) + 1 /\ r # <<>> /\ r[Len(q) + 1] = <<f, Len(q) + 1>>
      /\ \A i \in 1..Len(q) : r[i] = q[i]
  BY <1>2, <1>3, AppendProperties
<1>5. r = [i \in 1..Len(r) |-> r[i]]
  BY LenProperties
<1>6. ASSUME NEW i \in 1..(Len(q) + 1) PROVE r[i] = <<f, i>>
  <2>1. CASE i = Len(q) + 1
    BY <1>4, <2>1
  <2>2. CASE i # Len(q) + 1
    <3>1. i \in 1..Len(q)
      BY <1>1, <2>2
    <3>2. [j \in 1..Len(q) |-> <<f, j>>][i] = <<f, i>>
      BY <3>1
    <3> QED BY <1>4, <3>1, <3>2
  <2> QED BY <2>1, <2>2
<1>7. r = [i \in 1..(Len(q) + 1) |-> <<f, i>>]
  BY <1>4, <1>5, <1>6
<1> QED BY <1>3, <1>4, <1>7

\* R's user code is gone: the task fails at the chunk.
LEMMA ChunkFailsKeeps ==
    ASSUME Types, Core, NEW m, Takes("R", "receive", m), broken, Goto("R", "err"),
           UNCHANGED <<session, sending, storing>>
    PROVE  Core'
<1>0. pc \in [Sides -> TaskStates]
  BY DEF Types, QueueType
<1>1. /\ pc["R"] = "receive" /\ m \in Message /\ inbox["R"] # <<>> /\ m = Head(inbox["R"])
      /\ inbox'["R"] = Tail(inbox["R"])
  BY FileTaken
<1>2. wire' = wire /\ pc'["S"] = pc["S"] /\ pc'["R"] = "err"
  BY <1>0, BothSides DEF Goto
<1>3. Sent(Tail(inbox["R"]), fed)
  BY <1>1, TakenSent DEF Core
<1>4. InOrder'
  BY <1>2 DEF InOrder
<1>5. Begun' /\ StreamsAreFiles'
  BY <1>1, <1>2, <1>3 DEF Core, Begun, StreamsAreFiles, sending, storing
<1>6. AnswerInv'
  BY <1>1, <1>2 DEF Core, AnswerInv, AnswersAreOfTheirFile, storing
<1> QED BY <1>4, <1>5, <1>6 DEF Core

\* The next chunk of the file at hand.
LEMMA ChunkKeeps ==
    ASSUME Types, Core, NEW m, Takes("R", "receive", m), m.kind = "data", ~broken,
           Goto("R", "receive"), got' = [got EXCEPT ![filing] = Append(@, m.val)],
           UNCHANGED <<session, sending, filing, whole, verdict, mailbox, held, replies, broken>>
    PROVE  Core'
<1>0. /\ pc \in [Sides -> TaskStates] /\ whole \subseteq Files /\ filing \in Files \cup {None}
      /\ got \in [Files -> Seq(Files \X (Nat \ {0}))]
  BY DEF Types, QueueType, FileType
<1>1. /\ pc["R"] = "receive" /\ m \in Message /\ inbox["R"] # <<>> /\ m = Head(inbox["R"])
      /\ inbox'["R"] = Tail(inbox["R"]) /\ Dealt \in Message /\ Follows(Dealt, m, fed, feeding)
      /\ AtHand
      /\ \A i \in 3..Ahead : Line[i].kind = "header" =>
            /\ got[Line[i].val] = <<>> /\ Line[i].val \notin whole /\ Line[i].val # filing
  BY FileTaken
<1>2. wire' = wire /\ pc'["S"] = pc["S"] /\ Up' = Up /\ pc'["R"] = "receive"
  BY <1>0, BothSides DEF Goto, session, Up
<1>3. filing \in Files /\ m = M("data", <<filing, Len(got[filing]) + 1>>)
  <2>1. Dealt.kind \in FileKinds /\ m.val = <<Place(Dealt)[1], Place(Dealt)[2] + 1>> /\ m = M("data", m.val)
    BY <1>1, MessageShape DEF Follows
  <2>2. filing \in Files
    BY <1>0, <1>1, <2>1 DEF Dealt, M, FileKinds
  <2>3. Place(Dealt)[1] = filing /\ Place(Dealt)[2] = Len(got[filing])
    <3>1. CASE got[filing] = <<>>
      <4>1. Dealt = M("header", filing)
        BY <1>1, <2>2, <3>1, SetupsAssumption DEF Dealt
      <4>2. Len(got[filing]) = 0
        BY <3>1, EmptySeq
      <4> QED BY <4>1, <4>2 DEF Place, M
    <3>2. CASE got[filing] # <<>>
      <4>1. Dealt = M("data", <<filing, Len(got[filing])>>)
        BY <1>1, <2>2, <3>2, SetupsAssumption DEF Dealt
      <4> QED BY <4>1 DEF Place, M
    <3> QED BY <3>1, <3>2
  <2> QED BY <2>1, <2>2, <2>3
<1>4. m.val = <<filing, Len(got[filing]) + 1>> /\ m.kind = "data"
  BY <1>3 DEF M
<1>5. got[filing] = [i \in 1..Len(got[filing]) |-> <<filing, i>>] /\ got[filing] \in Seq(Files \X (Nat \ {0}))
  BY <1>0, <1>3 DEF Core, StreamsAreFiles
<1>6. /\ Len(Append(got[filing], m.val)) = Len(got[filing]) + 1 /\ Append(got[filing], m.val) # <<>>
      /\ Append(got[filing], m.val) = [i \in 1..(Len(got[filing]) + 1) |-> <<filing, i>>]
  <2>1. PICK q \in Seq(Files \X (Nat \ {0})) : q = got[filing]
    BY <1>5
  <2>2. q = [i \in 1..Len(q) |-> <<filing, i>>]
    BY <1>5, <2>1
  <2>3. /\ Len(Append(q, <<filing, Len(q) + 1>>)) = Len(q) + 1 /\ Append(q, <<filing, Len(q) + 1>>) # <<>>
        /\ Append(q, <<filing, Len(q) + 1>>) = [i \in 1..(Len(q) + 1) |-> <<filing, i>>]
    BY <1>3, <2>2, StreamGrows
  <2> QED BY <1>4, <2>1, <2>3
<1>7. /\ got'[filing] = Append(got[filing], m.val)
      /\ \A f \in Files : f # filing => got'[f] = got[f]
  BY <1>0, <1>3
<1>8. filing \notin whole /\ fed[filing] # None
  BY <1>1, <1>3 DEF AtHand, Core, Begun
<1>9. InOrder'
  <2>1. Dealt' = m
    BY <1>2, <1>3, <1>6, <1>7, SetupsAssumption DEF Dealt
  <2>2. AtHand'
    BY <1>2, <1>8 DEF AtHand
  <2>3. \A i \in 3..Ahead : Line[i].kind = "header" =>
              got'[Line[i].val] = <<>> /\ Line[i].val \notin whole' /\ Line[i].val # filing'
    <3>1. \A i \in 3..Ahead : i \in 1..Ahead
      OBVIOUS
    <3>2. \A i \in 3..Ahead : Line[i].kind = "header" => Line[i].val \in Files
      BY <3>1, LineType, MessageShape
    <3> QED BY <1>1, <1>7, <3>2
  <2>4. Fits' /\ Feedable'
    BY <1>1, <1>2, <2>1, <2>3, OrderTakes DEF Core, sending
  <2> QED BY <2>2, <2>4 DEF InOrder
<1>10. Sent(Tail(inbox["R"]), fed)
  BY <1>1, TakenSent DEF Core
<1>11. Begun'
  <2>1. \A f \in Files : fed[f] = None => got'[f] = <<>>
    BY <1>7, <1>8 DEF Core, Begun
  <2> QED BY <1>1, <1>2, <1>10, <2>1 DEF Core, Begun, sending
<1>12. StreamsAreFiles'
  <2> SUFFICES ASSUME NEW f \in Files
               PROVE  /\ got'[f] = [i \in 1..Len(got'[f]) |-> <<f, i>>]
                      /\ f \in whole => f # feeding /\ Len(got'[f]) = fed[f]
    BY DEF StreamsAreFiles, sending
  <2>1. CASE f = filing
    <3>1. PICK r : r = Append(got[filing], m.val)
      OBVIOUS
    <3>2. got'[f] = r /\ r = [i \in 1..(Len(got[filing]) + 1) |-> <<f, i>>] /\ Len(r) = Len(got[filing]) + 1
      BY <1>6, <1>7, <2>1, <3>1
    <3>3. got'[f] = [i \in 1..Len(got'[f]) |-> <<f, i>>]
      BY <3>2
    <3> QED BY <1>8, <2>1, <3>3
  <2>2. CASE f # filing
    BY <1>7, <2>2 DEF Core, StreamsAreFiles
  <2> QED BY <2>1, <2>2
<1>13. AnswerInv'
  BY <1>1, <1>2 DEF Core, AnswerInv, AnswersAreOfTheirFile
<1> QED BY <1>9, <1>11, <1>12, <1>13 DEF Core

LEMMA ReceiveDataKeeps == ASSUME Types, Core, ReceiveData PROVE Core'
<1>1. PICK m : /\ Takes("R", "receive", m) /\ m.kind = "data"
               /\ IF broken THEN Goto("R", "err") /\ UNCHANGED got
                            ELSE Goto("R", "receive") /\ got' = [got EXCEPT ![filing] = Append(@, m.val)]
               /\ UNCHANGED <<session, sending, filing, whole, verdict, mailbox, held, replies, broken>>
  BY DEF ReceiveData
<1>2. CASE broken
  <2>1. UNCHANGED storing
    BY <1>1, <1>2 DEF storing
  <2> QED BY <1>1, <1>2, <2>1, ChunkFailsKeeps
<1>3. CASE ~broken
  BY <1>1, <1>3, ChunkKeeps
<1> QED BY <1>2, <1>3

\* The answer is of the file at hand, and the next file's turn comes.
LEMMA SendResultKeeps == ASSUME Types, Core, SendResult PROVE Core'
<1>0. /\ QueueType /\ pc \in [Sides -> TaskStates] /\ wire \in [Sides -> Seq(Message)]
      /\ whole \subseteq Files /\ verdict \in [Files -> BOOLEAN \cup {None}]
      /\ replies \in [Files -> BOOLEAN \cup {None}] /\ broken \in BOOLEAN
      /\ {"drain", "receive", "err"} \subseteq TaskStates
  BY DEF Types, QueueType, FileType, TaskStates
<1>1. PICK ok \in BOOLEAN :
         /\ ok = (mailbox # <<>> /\ Head(mailbox))
         /\ replies' = [replies EXCEPT ![filing] = ok]
         /\ Send("R", <<M("result", <<filing, ok>>)>>, IF held = Delim THEN "drain" ELSE "receive")
  BY DEF SendResult
<1>2. /\ pc["R"] = "result" /\ (mailbox # <<>> \/ broken)
      /\ filing' = (IF held = Delim THEN None ELSE held.val) /\ mailbox' = <<>>
      /\ UNCHANGED <<closed, lost, cut, inbox, feeding, fed, refused, got, whole, verdict, broken>>
  BY DEF SendResult, ResultReady, NextFile, session, sending
<1>3. /\ filing \in Files /\ held \in Message /\ held.kind \in {"header", "delim"}
      /\ filing \in whole /\ Fits /\ Feedable
      /\ held.kind = "header" => got[held.val] = <<>> /\ held.val \notin whole
  <2>1. filing \in Files /\ held \in Message /\ held.kind \in {"header", "delim"}
    BY <1>2 DEF Types, FileType
  <2> QED BY <1>2, <2>1 DEF Core, InOrder, AtHand
<1>4. M("result", <<filing, ok>>) \in Message
  BY <1>3, FileMessages
<1>5. /\ wire'["R"] = wire["R"] /\ pc'["S"] = pc["S"] /\ pc'["R"] \in {"drain", "receive", "err"}
      /\ pc'["R"] = "receive" => held # Delim
  <2>1. \/ /\ wire' = [wire EXCEPT !["S"] = Append(@, M("result", <<filing, ok>>))]
           /\ pc' = [pc EXCEPT !["R"] = IF held = Delim THEN "drain" ELSE "receive"]
        \/ /\ wire' = wire
           /\ \E to \in {IF held = Delim THEN "drain" ELSE "receive", "err"} : pc' = [pc EXCEPT !["R"] = to]
    <3>1. PICK x \in Message : x = M("result", <<filing, ok>>)
      BY <1>4
    <3>2. PICK next \in TaskStates : next = IF held = Delim THEN "drain" ELSE "receive"
      BY <1>0
    <3>3. Send("R", <<x>>, next)
      BY <1>1, <3>1, <3>2
    <3>4. \/ wire' = [wire EXCEPT !["S"] = Append(@, x)] /\ pc' = [pc EXCEPT !["R"] = next]
          \/ wire' = wire /\ \E to \in {next, "err"} : pc' = [pc EXCEPT !["R"] = to]
      BY <1>0, <3>3, SendsLast, BothSides
    <3> QED BY <3>1, <3>2, <3>4
  <2>2. wire'["R"] = wire["R"]
    BY <1>0, <2>1, BothSides
  <2>3. \E to \in {IF held = Delim THEN "drain" ELSE "receive", "err"} : pc' = [pc EXCEPT !["R"] = to]
    BY <2>1
  <2> QED BY <1>0, <2>2, <2>3, BothSides
<1>6. held # Delim => /\ held.kind = "header" /\ held.val \in Files /\ held = M("header", held.val)
                      /\ filing' = held.val
  BY <1>2, <1>3, MessageShape
<1>7. InOrder'
  <2> SUFFICES ASSUME pc'["R"] = "receive" PROVE Fits' /\ Feedable' /\ AtHand'
    BY <1>5 DEF InOrder
  <2>1. held # Delim
    BY <1>5
  <2>2. Dealt' = held /\ Dealt = held
    BY <1>2, <1>3, <1>6, <2>1, SetupsAssumption DEF Dealt
  <2>3. Line' = Line /\ Ahead' = Ahead
    BY <1>2, <1>5, <2>2, LineStays
  <2>4. Up' = Up
    BY <1>2 DEF Up
  <2>5. Line[1] = held /\ Ahead \in Nat \ {0}
    BY <2>2, LineType
  <2>6. HeadersAreNew(Line, Ahead, got, whole, filing')
    <3> SUFFICES ASSUME NEW i \in 2..Ahead, Line[i].kind = "header"
                 PROVE  /\ got[Line[i].val] = <<>> /\ Line[i].val \notin whole /\ Line[i].val # filing'
                        /\ \A j \in 1..Ahead : Line[j].kind = "header" /\ Line[j].val = Line[i].val => j = i
      BY DEF HeadersAreNew
    <3>1. /\ got[Line[i].val] = <<>> /\ Line[i].val \notin whole
          /\ \A j \in 1..Ahead : Line[j].kind = "header" /\ Line[j].val = Line[i].val => j = i
      BY <1>3 DEF Fits, HeadersAreNew
    <3>2. 1 \in 1..Ahead /\ 1 # i
      BY <2>5
    <3>3. Line[i].val # held.val
      BY <1>6, <2>1, <2>5, <3>1, <3>2
    <3> QED BY <1>6, <2>1, <3>1, <3>3
  <2>7. Fits'
    BY <1>2, <1>3, <2>3, <2>6 DEF Fits
  <2>8. Feedable'
    BY <1>2, <1>3, <1>5, <2>3, <2>4 DEF Feedable
  <2>9. AtHand'
    BY <1>2, <1>3, <1>6, <2>1 DEF AtHand
  <2> QED BY <2>7, <2>8, <2>9
<1>8. Begun'
  <2>1. fed[filing] # None /\ (held # Delim => fed[held.val] # None)
    BY <1>2, <1>3, <1>6 DEF Core, Begun
  <2>2. \A f \in Files : fed[f] = None =>
           got'[f] = <<>> /\ f \notin whole' /\ f # filing' /\ replies'[f] = None
    BY <1>0, <1>1, <1>2, <1>6, <2>1, SetupsAssumption DEF Core, Begun
  <2> QED BY <1>2, <1>5, <2>2 DEF Core, Begun
<1>9. StreamsAreFiles'
  BY <1>2 DEF Core, StreamsAreFiles
<1>10. AnswerInv'
  <2>1. \A f \in whole : verdict[f] # None \/ broken
    BY <1>2 DEF Core, AnswerInv
  <2>2. ok = verdict[filing] \/ (broken /\ ~ok)
    <3>1. CASE mailbox # <<>>
      <4>1. mailbox = <<verdict[filing]>> /\ verdict[filing] \in BOOLEAN
        BY <1>0, <1>3, <3>1 DEF Core, AnswerInv
      <4>2. Head(<<verdict[filing]>>) = verdict[filing]
        OBVIOUS
      <4>3. ok = Head(mailbox)
        BY <1>1, <3>1, <4>1, <4>2
      <4> QED BY <4>1, <4>2, <4>3
    <3>2. CASE mailbox = <<>>
      BY <1>1, <1>2, <3>2
    <3> QED BY <3>1, <3>2
  <2>3. AnswersAreOfTheirFile'
    <3> SUFFICES ASSUME NEW f \in Files, replies'[f] # None
                 PROVE  f \in whole /\ (replies'[f] = verdict[f] \/ (broken /\ ~replies'[f]))
      BY <1>2 DEF AnswersAreOfTheirFile
    <3>1. CASE f = filing
      <4>1. replies'[f] = ok
        BY <1>0, <1>1, <1>3, <3>1
      <4> QED BY <1>3, <2>2, <3>1, <4>1
    <3>2. CASE f # filing
      <4>1. replies'[f] = replies[f]
        BY <1>0, <1>1, <3>2
      <4> QED BY <4>1 DEF Core, AnswerInv, AnswersAreOfTheirFile
    <3> QED BY <3>1, <3>2
  <2> QED BY <1>2, <2>1, <2>3 DEF AnswerInv
<1> QED BY <1>7, <1>8, <1>9, <1>10 DEF Core

LEMMA DrainedKeeps == ASSUME Types, Core, Drained PROVE Core'
<1>0. pc \in [Sides -> TaskStates]
  BY DEF Types, QueueType
<1>1. /\ pc["R"] = "drain" /\ pc' = [pc EXCEPT !["R"] = "ok"]
      /\ UNCHANGED <<closed, lost, cut, wire, inbox, sending, storing>>
  BY DEF Drained, Goto, session
<1>2. pc'["R"] = "ok" /\ pc'["S"] = pc["S"]
  BY <1>0, <1>1, BothSides
<1>3. InOrder' /\ Begun' /\ StreamsAreFiles'
  BY <1>1, <1>2 DEF Core, InOrder, Begun, StreamsAreFiles, sending, storing
<1>4. AnswerInv'
  BY <1>1, <1>2 DEF Core, AnswerInv, AnswersAreOfTheirFile, storing
<1> QED BY <1>3, <1>4 DEF Core

\* R's user reports on the file that was ended last: of the others it has.
LEMMA ReportKeeps ==
    ASSUME Types, Core, NEW f \in Offered, NEW ok \in BOOLEAN, Report(f, ok) PROVE Core'
<1>0. /\ whole \subseteq Files /\ verdict \in [Files -> BOOLEAN \cup {None}]
      /\ replies \in [Files -> BOOLEAN \cup {None}]
  BY DEF Types, FileType
<1>1. /\ f \in whole /\ verdict[f] = None /\ mailbox = <<>> /\ ~broken
      /\ verdict' = [verdict EXCEPT ![f] = ok] /\ mailbox' = <<ok>>
      /\ UNCHANGED <<closed, lost, cut, pc, wire, inbox, sending, filing, got, whole, held, replies, broken>>
  BY DEF Report, session
<1>2. pc["R"] = "result" /\ f = filing /\ f \in Files
  BY <1>0, <1>1 DEF Core, AnswerInv
<1>3. verdict'[f] = ok /\ ok # None /\ \A e \in Files : e # f => verdict'[e] = verdict[e]
  BY <1>0, <1>1, <1>2, NoneAssumption
<1>4. InOrder'
  <2>1. Dealt' = Dealt
    BY <1>1 DEF Dealt
  <2>2. Line' = Line /\ Ahead' = Ahead
    BY <1>1, <2>1, LineStays
  <2>3. Fits' /\ Feedable' /\ AtHand'
    BY <1>1, <1>2, <2>2 DEF Core, InOrder, Fits, Feedable, AtHand, Up, sending
  <2> QED BY <2>3 DEF InOrder
<1>5. Begun' /\ StreamsAreFiles'
  BY <1>1 DEF Core, Begun, StreamsAreFiles, sending
<1>6. AnswerInv'
  <2>1. \A e \in whole : \/ verdict'[e] # None \/ broken
                         \/ pc["R"] = "result" /\ e = filing
    BY <1>0, <1>2, <1>3 DEF Core, AnswerInv
  <2>2. mailbox' = <<verdict'[filing]>> /\ verdict'[filing] # None
    BY <1>1, <1>2, <1>3
  <2>3. AnswersAreOfTheirFile'
    <3>1. replies[f] = None
      BY <1>1, <1>2 DEF Core, AnswerInv, AnswersAreOfTheirFile
    <3>2. \A e \in Files : replies[e] # None =>
             e \in whole /\ (replies[e] = verdict'[e] \/ (broken /\ ~replies[e]))
      BY <1>3, <3>1 DEF Core, AnswerInv, AnswersAreOfTheirFile
    <3> QED BY <1>1, <3>2 DEF AnswersAreOfTheirFile
  <2> QED BY <1>1, <1>2, <2>1, <2>2, <2>3 DEF AnswerInv
<1> QED BY <1>4, <1>5, <1>6 DEF Core

LEMMA WriteFailsKeeps == ASSUME Types, Core, WriteFails PROVE Core'
<1>1. /\ broken' /\ broken' = TRUE
      /\ UNCHANGED <<closed, lost, cut, pc, wire, inbox, sending, filing, got, whole, verdict, mailbox, held, replies>>
  BY DEF WriteFails, session
<1>2. InOrder'
  <2>1. Dealt' = Dealt
    BY <1>1 DEF Dealt
  <2>2. Line' = Line /\ Ahead' = Ahead
    BY <1>1, <2>1, LineStays
  <2> QED BY <1>1, <2>2 DEF Core, InOrder, Fits, Feedable, AtHand, Up, sending
<1>3. Begun' /\ StreamsAreFiles'
  BY <1>1 DEF Core, Begun, StreamsAreFiles, sending
<1>4. AnswerInv'
  BY <1>1 DEF Core, AnswerInv, AnswersAreOfTheirFile
<1> QED BY <1>2, <1>3, <1>4 DEF Core

-----------------------------------------------------------------------------
(* Files: the network and the outer functions *)

\* A message that arrives has changed from the wire to the stream.
LEMMA ArrivalKeepsFiles == ASSUME Types, Core, Deliver("R") PROVE Core'
<1>0. /\ wire \in [Sides -> Seq(Message)] /\ inbox \in [Sides -> Seq(Message)]
      /\ wire["R"] \in Seq(Message) /\ inbox["R"] \in Seq(Message)
  BY BothSides DEF Types, QueueType
<1>1. /\ wire["R"] # <<>>
      /\ inbox'["R"] = Append(inbox["R"], Head(wire["R"])) /\ wire'["R"] = Tail(wire["R"])
      /\ UNCHANGED <<closed, lost, cut, pc, feeding, fed, refused, storing>>
  BY <1>0, BothSides DEF Deliver, session, sending
<1>2. Tail(wire["R"]) \in Seq(Message) /\ Head(wire["R"]) \in Message
  BY <1>0, <1>1, TailSteps
<1>3. /\ Content(Tail(wire["R"])) \subseteq Content(wire["R"]) /\ Head(wire["R"]) \in Content(wire["R"])
      /\ Content(Append(inbox["R"], Head(wire["R"]))) = Content(inbox["R"]) \cup {Head(wire["R"])}
  BY <1>0, <1>1, <1>2, ContentSteps
<1>4. Up' = Up
  BY <1>1 DEF Up
<1>5. InOrder'
  <2>1. Dealt' = Dealt
    BY <1>1, DealtStays
  <2>2. Line' = Line /\ Ahead' = Ahead
    BY <1>1, <2>1, LineDelivered
  <2> QED BY <1>1, <1>4, <2>2 DEF Core, InOrder, Fits, Feedable, AtHand, storing
<1>6. Begun'
  <2>1. Sent(inbox'["R"], fed) /\ Sent(wire'["R"], fed)
    BY <1>1, <1>3 DEF Core, Begun, Sent
  <2> QED BY <1>1, <2>1 DEF Core, Begun, storing
<1>7. StreamsAreFiles'
  BY <1>1 DEF Core, StreamsAreFiles, storing
<1>8. AnswerInv'
  BY <1>1, AnswersStay DEF Core
<1> QED BY <1>5, <1>6, <1>7, <1>8 DEF Core

\* What was on the wire is lost: the line is cut off.
LEMMA CutKeepsFiles ==
    ASSUME Types, Core, NEW s \in Sides, Disconnected(s) PROVE Core'
<1>0. lost \in [Sides -> BOOLEAN] /\ Peer(s) \in Sides
  BY BothSides DEF Types, SessionType, Sides
<1>1. /\ lost' = [lost EXCEPT ![s] = TRUE] /\ wire' = [t \in Sides |-> <<>>]
      /\ UNCHANGED <<closed, pc, inbox, feeding, fed, refused, storing>>
  BY DEF Disconnected, sending
<1>2. wire'["R"] = <<>> /\ ~Up'
  BY <1>0, <1>1, BothSides DEF Up
<1>3. <<>> \in Seq(Message) /\ Content(<<>>) = {}
  BY EmptySeq, ContentSteps
<1>4. InOrder'
  <2> SUFFICES ASSUME pc["R"] \in {"receive", "result"} PROVE Fits' /\ Feedable' /\ AtHand'
    BY <1>1 DEF InOrder
  <2>1. Dealt' = Dealt
    BY <1>1, DealtStays
  <2>2. Ahead' \in Nat \ {0} /\ Ahead' <= Ahead /\ \A i \in 1..Ahead' : Line'[i] = Line[i]
    BY <1>1, <1>2, <2>1, LineLoses
  <2>3. Ahead \in Nat /\ Fits /\ AtHand
    BY LineType DEF Core, InOrder
  <2>4. PICK p \in Nat : p = Ahead'
    BY <2>2
  <2>5. Chained(Line', p, fed, feeding)
    BY <2>2, <2>3, <2>4, ChainCut DEF Fits
  <2>6. HeadersAreNew(Line', p, got, whole, filing)
    BY <2>2, <2>3, <2>4, HeadersCut DEF Fits
  <2>7. Fits'
    BY <1>1, <2>4, <2>5, <2>6 DEF Fits, storing
  <2> QED BY <1>1, <1>2, <2>3, <2>7 DEF Feedable, AtHand, storing
<1>5. Begun'
  BY <1>1, <1>2, <1>3 DEF Core, Begun, Sent, storing
<1>6. StreamsAreFiles'
  BY <1>1 DEF Core, StreamsAreFiles, storing
<1>7. AnswerInv'
  BY <1>1, AnswersStay DEF Core
<1> QED BY <1>4, <1>5, <1>6, <1>7 DEF Core

\* A step of the network that leaves the queues to R alone.
LEMMA ElsewhereKeepsFiles ==
    ASSUME Types, Core, inbox'["R"] = inbox["R"], wire'["R"] = wire["R"],
           UNCHANGED <<closed, lost, pc, feeding, fed, storing>>
    PROVE  Core'
<1>1. Up' = Up
  BY DEF Up
<1> QED BY <1>1, SenderMoves DEF Core, Begun

LEMMA NetworkKeepsFiles == ASSUME Types, Core, NetworkStep PROVE Core'
<1>1. CASE Deliver("R")
  BY <1>1, ArrivalKeepsFiles
<1>2. CASE Deliver("S") \/ \E s \in Sides : Acknowledge(s)
  <2>1. /\ inbox'["R"] = inbox["R"] /\ wire'["R"] = wire["R"]
        /\ UNCHANGED <<closed, lost, pc, feeding, fed, storing>>
    BY <1>2, BothSides DEF Acknowledge, Deliver, session, sending, Types, QueueType
  <2> QED BY <2>1, ElsewhereKeepsFiles
<1>3. CASE \E s \in Sides : Disconnected(s)
  BY <1>3, CutKeepsFiles
<1> QED BY <1>1, <1>2, <1>3 DEF NetworkStep, Sides

LEMMA OuterKeepsFiles == ASSUME Types, Core, OuterStep \/ UNCHANGED vars PROVE Core'
<1>0. closed \in [Sides -> BOOLEAN]
  BY DEF Types, SessionType
<1>1. UNCHANGED <<pc, wire, inbox, feeding, fed, refused, storing, lost, cut>>
  BY OuterFrame DEF vars, sending, session
<1>2. Up' => Up
  <2>1. \A s \in Sides : closed[s] => closed'[s]
    BY <1>0 DEF OuterStep, AnswerOffer, AnswerSent, AnswerArrives, TaskDone, TaskFailed, ConnectionDone, vars, session
  <2> QED BY <1>1, <2>1 DEF Up
<1> QED BY <1>1, <1>2, SenderMoves DEF Core, Begun

-----------------------------------------------------------------------------
(* Files: all steps *)

LEMMA FilingStays == ASSUME Types, Filing, FileStep PROVE Filing'
<1>0. pc \in [Sides -> TaskStates]
  BY DEF Types, QueueType
<1>1. \/ pc' = pc
      \/ \E to \in {"flush", "last", "ok", "err"} : pc' = [pc EXCEPT !["S"] = to]
      \/ \E to \in {"receive", "result", "drain", "ok", "err"} : pc' = [pc EXCEPT !["R"] = to]
  BY DEF FileStep, SendDelimiter, ReceiveLast, ReceiveText, ReceiveData, SendResult, Drained,
     DriverStep, SendChunk, EndFile, NoMoreFiles, SendFile, Report, WriteFails, OpenFile, Goto, Send
<1> QED BY <1>0, <1>1, BothSides DEF Filing, At

LEMMA FileStepKeeps == ASSUME Types, Core, FileStep PROVE Core'
<1>1. CASE SendDelimiter \/ ReceiveLast \/ SendChunk \/ EndFile \/ NoMoreFiles
  BY <1>1, SendDelimiterKeeps, ReceiveLastKeeps, SendChunkKeeps, EndFileKeeps, NoMoreFilesKeeps
<1>2. CASE ReceiveText \/ ReceiveData \/ SendResult \/ Drained \/ WriteFails
  BY <1>2, ReceiveTextKeeps, ReceiveDataKeeps, SendResultKeeps, DrainedKeeps, WriteFailsKeeps
<1>3. CASE \E f \in Offered : SendFile(f)
  BY <1>3, SendFileKeeps
<1>4. CASE \E f \in Offered : \E ok \in BOOLEAN : Report(f, ok)
  BY <1>4, ReportKeeps
<1> QED BY <1>1, <1>2, <1>3, <1>4 DEF FileStep, DriverStep

LEMMA FileInvStep ==
    ASSUME HInv, Types, EndInv, FileInv, [Next]_vars PROVE FileInv'
<1>1. CASE OuterStep \/ UNCHANGED vars
  <2>1. pc' = pc
    BY <1>1, OuterFrame DEF vars
  <2>2. Filing => Filing'
    BY <2>1 DEF Filing, At
  <2> QED BY <1>1, <2>2, QuietOthers, OuterKeepsFiles DEF FileInv
<1>2. CASE NetworkStep
  <2>1. pc' = pc
    BY <1>2, NetworkFrame
  <2>2. Filing => Filing'
    BY <2>1 DEF Filing, At
  <2> QED BY <1>2, <2>2, QuietNetwork, NetworkKeepsFiles DEF FileInv
<1>3. CASE HandshakeStep
  <2>1. ~Filing
    BY <1>3, HandshakeTalks DEF Talks, Filing, At, FilingStages, Sides
  <2> QED BY <1>3, <2>1, QuietHandshake DEF FileInv
<1>4. CASE FileStep
  <2>1. CASE Quiet /\ \A f \in Offered : ~SendFile(f)
    BY <1>4, <2>1, QuietFiles DEF FileInv
  <2>2. CASE Quiet /\ \E f \in Offered : SendFile(f)
    <3>1. pc["S"] \in {"send", "flush"}
      BY <2>2 DEF SendFile
    <3>2. Filing /\ Core
      BY <2>2, <3>1, QuietIsCore
    <3> QED BY <1>4, <3>2, FilingStays, FileStepKeeps DEF FileInv
  <2>3. CASE Filing /\ Core
    BY <1>4, <2>3, FilingStays, FileStepKeeps DEF FileInv
  <2> QED BY <2>1, <2>2, <2>3 DEF FileInv
<1> QED BY <1>1, <1>2, <1>3, <1>4, StepsOfNext

-----------------------------------------------------------------------------
\* What is fed.
FedType == /\ feeding \in Files \cup {None} /\ fed \in [Files -> 0..MaxChunks \cup {None}]
           /\ refused \subseteq Files /\ (feeding # None => fed[feeding] # None)

LEMMA FeedType ==
    ASSUME FedType, NEW f \in Files, NEW m, NEW c \in 0..MaxChunks, Feed(f, m, c) PROVE FedType'
<1>1. c # None /\ None \notin Files
  BY SetupsAssumption, NoneAssumption
<1> QED BY <1>1 DEF FedType, Feed

LEMMA FedTypeStep == ASSUME Types, FileStep PROVE FedType'
<1>1. FedType /\ Offered \subseteq Files /\ setup.chunks \in 0..MaxChunks /\ MaxChunks \in Nat
  BY CountsAssumption DEF Types, FileType, FedType, SessionType, Setup, Offered
<1>2. CASE UNCHANGED sending
  BY <1>1, <1>2 DEF FedType, sending
<1>3. CASE \E f \in Offered : SendFile(f)
  <2>1. PICK f \in Files : SendFile(f)
    BY <1>1, <1>3
  <2>2. 0 \in 0..MaxChunks
    BY <1>1
  <2>3. CASE Feed(f, M("header", f), 0)
    BY <1>1, <2>2, <2>3, FeedType
  <2>4. CASE refused' = refused \cup {f} /\ UNCHANGED <<feeding, fed>>
    BY <1>1, <2>4 DEF FedType
  <2> QED BY <2>1, <2>3, <2>4 DEF SendFile
<1>4. CASE SendChunk
  <2>1. feeding \in Files /\ fed[feeding] \in 0..MaxChunks /\ fed[feeding] < setup.chunks
    BY <1>1, <1>4 DEF SendChunk, FedType
  <2>2. PICK c \in 0..MaxChunks : c = fed[feeding] + 1
    BY <1>1, <2>1
  <2>3. Feed(feeding, M("data", <<feeding, c>>), c)
    BY <1>4, <2>2 DEF SendChunk
  <2> QED BY <1>1, <2>1, <2>2, <2>3, FeedType
<1>5. CASE EndFile
  BY <1>1, <1>5 DEF EndFile, FedType
<1> QED BY <1>2, <1>3, <1>4, <1>5 DEF FileStep, SendDelimiter, ReceiveLast, ReceiveText, ReceiveData,
     SendResult, Drained, DriverStep, NoMoreFiles, Report, WriteFails

\* What is stored.
StoreType ==
    /\ filing \in Files \cup {None} /\ whole \subseteq Files
    /\ got \in [Files -> Seq(Files \X (Nat \ {0}))]
    /\ verdict \in [Files -> BOOLEAN \cup {None}] /\ replies \in [Files -> BOOLEAN \cup {None}]
    /\ mailbox \in Seq(BOOLEAN) /\ Len(mailbox) <= 1 /\ broken \in BOOLEAN
    /\ pc["R"] = "result" => filing # None /\ held \in Message /\ held.kind \in {"header", "delim"}

LEMMA TextType == ASSUME Types, filing # None => Core, ReceiveText PROVE StoreType'
<1>0. StoreType /\ pc \in [Sides -> TaskStates] /\ QueueType
  BY DEF Types, FileType, StoreType, QueueType
<1>1. PICK m : /\ Takes("R", "receive", m) /\ m.kind # "data"
               /\ IF filing = None
                    THEN OpenFile(m) /\ UNCHANGED <<whole, held>>
                    ELSE /\ Goto("R", "result") /\ held' = m
                         /\ whole' = whole \cup {filing} /\ UNCHANGED filing
               /\ UNCHANGED <<got, verdict, mailbox, replies, broken>>
  BY DEF ReceiveText
<1>2. m \in Message
  BY <1>0, <1>1, TakesMoves, BothSides
<1>3. CASE filing = None
  <2>1. m.kind = "header" => m.val \in Files
    BY <1>2, MessageShape
  <2>2. \E to \in {"receive", "err"} : pc' = [pc EXCEPT !["R"] = to]
    BY <1>1, <1>3 DEF OpenFile, Goto
  <2>3. pc'["R"] # "result"
    BY <1>0, <2>2, BothSides
  <2>4. filing' \in Files \cup {None} /\ whole' = whole
    BY <1>1, <1>3, <2>1 DEF OpenFile
  <2> QED BY <1>0, <1>1, <2>3, <2>4 DEF StoreType
<1>4. CASE filing # None
  <2>1. Follows(Dealt, m, fed, feeding)
    BY <1>1, <1>4, FileTaken
  <2>2. m.kind \in {"header", "delim"}
    BY <1>1, <2>1 DEF Follows
  <2> QED BY <1>0, <1>1, <1>2, <1>4, <2>2 DEF StoreType
<1> QED BY <1>3, <1>4

LEMMA DataType == ASSUME Types, ReceiveData PROVE StoreType'
<1>0. StoreType /\ pc \in [Sides -> TaskStates] /\ QueueType
  BY DEF Types, FileType, StoreType, QueueType
<1>1. PICK m : /\ Takes("R", "receive", m) /\ m.kind = "data"
               /\ (got' = got \/ got' = [got EXCEPT ![filing] = Append(@, m.val)])
               /\ (Goto("R", "err") \/ Goto("R", "receive"))
               /\ UNCHANGED <<filing, whole, verdict, mailbox, held, replies, broken>>
  BY DEF ReceiveData
<1>2. m \in Message
  BY <1>0, <1>1, TakesMoves, BothSides
<1>3. m.val \in Files \X (Nat \ {0})
  BY <1>1, <1>2, MessageShape
<1>4. PICK v \in Files \X (Nat \ {0}) : v = m.val
  BY <1>3
<1>5. \A f \in Files : Append(got[f], v) \in Seq(Files \X (Nat \ {0}))
  BY <1>0, AppendProperties DEF StoreType
<1>6. got' \in [Files -> Seq(Files \X (Nat \ {0}))]
  <2>1. CASE got' = got
    BY <1>0, <2>1 DEF StoreType
  <2>2. CASE got' = [got EXCEPT ![filing] = Append(@, v)]
    BY <1>0, <1>5, <2>2 DEF StoreType
  <2> QED BY <1>1, <1>4, <2>1, <2>2
<1>7. pc'["R"] # "result"
  BY <1>0, <1>1, BothSides DEF Goto
<1> QED BY <1>0, <1>1, <1>6, <1>7 DEF StoreType

LEMMA ResultType == ASSUME Types, SendResult PROVE StoreType'
<1>0. StoreType /\ pc \in [Sides -> TaskStates] /\ QueueType
  BY DEF Types, FileType, StoreType, QueueType
<1>1. PICK ok \in BOOLEAN : replies' = [replies EXCEPT ![filing] = ok]
  BY DEF SendResult
<1>2. /\ pc["R"] = "result" /\ filing' = (IF held = Delim THEN None ELSE held.val) /\ mailbox' = <<>>
      /\ \E to \in {"drain", "receive", "err"} : pc' = [pc EXCEPT !["R"] = to]
      /\ UNCHANGED <<got, whole, verdict, broken>>
  BY DEF SendResult, NextFile, Send
<1>3. pc'["R"] # "result"
  BY <1>0, <1>2, BothSides
<1>4. filing' \in Files \cup {None}
  <2>1. held \in Message /\ held.kind \in {"header", "delim"}
    BY <1>0, <1>2 DEF StoreType
  <2> QED BY <1>2, <2>1, MessageShape
<1>5. <<>> \in Seq(BOOLEAN) /\ Len(<<>>) <= 1
  BY EmptySeq
<1>6. replies' \in [Files -> BOOLEAN \cup {None}]
  BY <1>0, <1>1 DEF StoreType
<1> QED BY <1>0, <1>2, <1>3, <1>4, <1>5, <1>6 DEF StoreType

LEMMA StoreTypeStep == ASSUME Types, filing # None => Core, FileStep PROVE StoreType'
<1>0. StoreType /\ pc \in [Sides -> TaskStates]
  BY DEF Types, FileType, StoreType, QueueType
<1>1. CASE UNCHANGED storing /\ pc'["R"] = pc["R"]
  BY <1>0, <1>1 DEF StoreType, storing
<1>2. CASE ReceiveText \/ ReceiveData \/ SendResult
  BY <1>2, TextType, DataType, ResultType
<1>3. CASE Drained
  <2>1. pc' = [pc EXCEPT !["R"] = "ok"] /\ UNCHANGED storing
    BY <1>3 DEF Drained, Goto
  <2>2. pc'["R"] # "result"
    BY <1>0, <2>1, BothSides
  <2> QED BY <1>0, <2>1, <2>2 DEF StoreType, storing
<1>4. ASSUME NEW f, NEW ok \in BOOLEAN, Report(f, ok) PROVE StoreType'
  <2>1. /\ verdict' = [verdict EXCEPT ![f] = ok] /\ mailbox' = <<ok>>
        /\ UNCHANGED <<pc, filing, got, whole, held, replies, broken>>
    BY <1>4 DEF Report
  <2>2. <<ok>> \in Seq(BOOLEAN) /\ Len(<<ok>>) <= 1
    OBVIOUS
  <2>3. verdict' \in [Files -> BOOLEAN \cup {None}]
    BY <1>0, <2>1 DEF StoreType
  <2> QED BY <1>0, <2>1, <2>2, <2>3 DEF StoreType
<1>5. CASE WriteFails
  BY <1>0, <1>5 DEF WriteFails, StoreType
<1>6. ASSUME NEW to, pc' = [pc EXCEPT !["S"] = to] PROVE pc'["R"] = pc["R"]
  BY <1>0, <1>6, BothSides
<1>7. CASE SendDelimiter \/ ReceiveLast \/ NoMoreFiles
  <2>1. UNCHANGED storing /\ \E to : pc' = [pc EXCEPT !["S"] = to]
    BY <1>7 DEF SendDelimiter, ReceiveLast, NoMoreFiles, Goto, Send
  <2> QED BY <1>1, <1>6, <2>1
<1>8. CASE SendChunk \/ EndFile \/ \E f \in Offered : SendFile(f)
  BY <1>1, <1>8 DEF SendChunk, EndFile, SendFile
<1> QED BY <1>2, <1>3, <1>4, <1>5, <1>7, <1>8 DEF FileStep, DriverStep

LEMMA TypesStep == ASSUME HInv, Types, FileInv, [Next]_vars PROVE Types'
<1>1. SessionType'
  BY SessionTypeStep
<1>2. CASE OuterStep \/ UNCHANGED vars
  <2>1. UNCHANGED <<pc, wire, inbox, nonce, users, tokens, sending, storing>>
    BY <1>2, OuterFrame DEF vars
  <2> QED BY <1>1, <2>1, StillTyped DEF Types
<1>3. CASE HandshakeStep
  BY <1>1, <1>3, HandshakeType DEF Types
<1>4. CASE NetworkStep
  BY <1>1, <1>4, NetworkType DEF Types
<1>5. CASE FileStep
  <2>1. filing # None => Core
    BY DEF FileInv, Quiet, NothingStored
  <2>2. FedType' /\ StoreType'
    BY <1>5, <2>1, FedTypeStep, StoreTypeStep
  <2>3. FileType'
    BY <2>2 DEF FedType, StoreType, FileType
  <2> QED BY <1>1, <1>5, <2>3, FileStepUsers, FileStepQueues DEF Types
<1> QED BY <1>2, <1>3, <1>4, <1>5, StepsOfNext

-----------------------------------------------------------------------------
LEMMA TypesSuffice == Types /\ Counted => TypeOK
<1> SUFFICES ASSUME Types, Counted PROVE TypeOK
  OBVIOUS
<1>1. \A s \in Sides : (\A i \in 1..Len(wire[s]) : wire[s][i].kind \in Kinds)
                       /\ (\A i \in 1..Len(inbox[s]) : inbox[s][i].kind \in Kinds)
  <2> SUFFICES ASSUME NEW s \in Sides
               PROVE  (\A i \in 1..Len(wire[s]) : wire[s][i].kind \in Kinds)
                       /\ (\A i \in 1..Len(inbox[s]) : inbox[s][i].kind \in Kinds)
    OBVIOUS
  <2>1. wire[s] \in Seq(Message) /\ inbox[s] \in Seq(Message)
    BY DEF Types, QueueType
  <2> QED BY <2>1, MessageKinds
<1> QED BY <1>1 DEF Types, SessionType, QueueType, UserType, FileType, Counted, TypeOK

LEMMA FileInvSuffices == ASSUME Types, EndInv, FileInv PROVE FilesStayWhole
<1>1. Quiet => StreamsAreFiles /\ AnswersAreOfTheirFile
  <2> SUFFICES ASSUME Quiet PROVE StreamsAreFiles /\ AnswersAreOfTheirFile
    OBVIOUS
  <2>1. NothingStored
    BY DEF Quiet
  <2>2. StreamsAreFiles
    <3> SUFFICES ASSUME NEW f \in Files PROVE got[f] = [i \in 1..Len(got[f]) |-> <<f, i>>]
      BY <2>1 DEF StreamsAreFiles, NothingStored
    <3>1. got[f] = <<>> /\ Len(<<>>) = 0 /\ 1..0 = {}
      BY <2>1, EmptySeq DEF NothingStored
    <3>2. <<>> = [i \in 1..0 |-> <<f, i>>]
      BY <3>1
    <3> QED BY <3>1, <3>2
  <2> QED BY <2>1, <2>2 DEF AnswersAreOfTheirFile, NothingStored
<1>2. Core => StreamsAreFiles /\ AnswersAreOfTheirFile
  BY DEF Core, AnswerInv
<1>3. StreamsAreFiles /\ AnswersAreOfTheirFile
  BY <1>1, <1>2 DEF FileInv
<1>4. EndsAnswered
  BY <1>3 DEF EndsAnswered, AnswersAreOfTheirFile, EndInv, AllAcknowledged, AnswerAwaited, Answered
<1> QED BY <1>3, <1>4 DEF FilesStayWhole

LEMMA FileInvInit == Init => EndInv /\ FileInv
<1> SUFFICES ASSUME Init PROVE EndInv /\ FileInv
  OBVIOUS
<1>1. /\ pc = [S |-> "open", R |-> "nonce"] /\ wire["R"] = <<>> /\ inbox["R"] = <<>>
      /\ Up
  BY BothSides DEF Init, Up
<1>2. <<>> \in Seq(Message) /\ Content(<<>>) = {}
  BY EmptySeq, ContentSteps
<1>3. EndInv
  BY <1>1 DEF Init, EndInv, DelimiterIsLast, Counted, AllAcknowledged, AnswerAwaited, Sides
<1>4. NothingStored
  BY DEF Init, NothingStored
<1>5. Quiet
  BY <1>1, <1>2, <1>4 DEF Quiet, NoneOfAFile
<1> QED BY <1>3, <1>5 DEF FileInv

FullInv == HInv /\ Types /\ EndInv /\ FileInv

LEMMA FullInvStep == FullInv /\ [Next]_vars => FullInv'
<1> SUFFICES ASSUME HInv, Types, DelimiterIsLast, Counted, AllAcknowledged, AnswerAwaited, FileInv,
                    [Next]_vars
             PROVE  FullInv'
  BY DEF FullInv, EndInv
<1>1. HInv'
  BY InvariantNext
<1>2. Types'
  BY TypesStep
<1>3. EndInv'
  BY DelimiterIsLastStep, CountedStep, AllAcknowledgedStep, AnswerAwaitedStep DEF EndInv
<1>4. FileInv'
  BY FileInvStep DEF EndInv
<1> QED BY <1>1, <1>2, <1>3, <1>4 DEF FullInv

LEMMA FullInvEver == Spec => []FullInv
<1>1. Init => FullInv
  BY InvariantInit, TypesInit, FileInvInit DEF FullInv
<1>2. FullInv /\ [Next]_vars => FullInv'
  BY FullInvStep
<1> QED BY <1>1, <1>2, PTL DEF Spec

\* The state of a session keeps its form: no more than a wrong PIN too many, and no
\* more messages in a stream than it holds.
THEOREM TypeCorrect == Spec => []TypeOK
<1>1. FullInv => TypeOK
  BY TypesSuffice DEF FullInv, EndInv
<1> QED BY <1>1, FullInvEver, PTL

\* However the tasks, the users, the network and the outer functions interleave: what
\* R's user is handed is what S has read of that file, each answer of R is of its
\* file, and S ends well after its files only when R's stack has their bytes and R has
\* answered for a file that is complete.
THEOREM FilesStayWholeEver == Spec => []FilesStayWhole
<1>1. FullInv => FilesStayWhole
  BY FileInvSuffices DEF FullInv
<1> QED BY <1>1, FullInvEver, PTL
=============================================================================
