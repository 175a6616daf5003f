---------------------------- MODULE WebRtcTransfer ----------------------------
(***************************************************************************)
(* A transfer over one WebRTC data channel: send_offer and accept_offer of  *)
(* core/src/webrtc/webrtc.rs, the controllers the app wraps around them     *)
(* (app/rust/src/api/webrtc.rs) and the user code that drives them, which   *)
(* is the one of core/src/main.rs: the app's pages do not use them yet.     *)
(*                                                                          *)
(* "S" is the offering, sending peer, "R" the accepting, receiving one.     *)
(* Each has an outer function that waits for the connection and then for    *)
(* the first of "my task has ended" and "the connection is gone", and a     *)
(* spawned task that walks through nonce, token, PIN and file list to the   *)
(* files.  The task is not aborted when the outer function returns.         *)
(*                                                                          *)
(* The data channel is ordered and reliable while both ends are up: a sent  *)
(* message is under way until it is in the peer's receive stream.  Before   *)
(* that the peer's stack acknowledges it, which is all the sender sees, and *)
(* keeps it while the stream is full.  A JSON text is one message; the JSON *)
(* messages that are sent in chunks are a binary one and the delimiter.     *)
(***************************************************************************)
EXTENDS Naturals, Sequences, FiniteSets

CONSTANTS
  Files,       \* ids of files
  MaxChunks,   \* bound: a file has up to this many chunks
  Pins,        \* what users type
  MaxTries,    \* PinConfig.max_tries
  Cap,         \* messages the receive stream holds (16 in the code)
  Setups,      \* the sessions looked at: what send_offer and accept_offer are given
  None

ASSUME CountsAssumption ==
  /\ MaxChunks \in Nat /\ MaxTries \in Nat \ {0} /\ Cap \in Nat \ {0, 1}

Sides == {"S", "R"}
\* PinConfig.pin and expecting_public_key of each side (None if it has none), the
\* files on the list, the most chunks one has, and what may go wrong outside.
Setup == [pin : [Sides -> Pins \cup {None}], key : [Sides -> Sides \cup {"X", None}],
          files : SUBSET Files, chunks : 0..MaxChunks, faults : SUBSET {"network", "write"}]
ASSUME SetupsAssumption == Setups \subseteq Setup /\ None \notin Pins \cup Files
ASSUME NoneAssumption == None \notin 0..MaxChunks /\ None \notin BOOLEAN

Peer(s) == IF s = "S" THEN "R" ELSE "S"

VARIABLES
  setup,     \* the configuration of this session
  outer,     \* how far send_offer and accept_offer are
  pc,        \* how far the spawned tasks are
  wire,      \* messages on their way to a side
  acked,     \* how many of them its stack holds (the others: buffered_amount)
  inbox,     \* messages in a side's receive_rx
  closed,    \* peer_connection.close() was called
  lost,      \* the connection was reported Disconnected
  cut,       \* history: the network has failed
  shown,     \* statuses published on status_tx
  nonce,     \* the nonce as a side knows it
  slot,      \* a PIN may be typed: pin_tx of the controller is Some
  typed,     \* the last PIN a side's user has typed
  tries,     \* pin_try of the side that verifies
  tokens,    \* files with a token: file_tokens of R, file_map of S
  listed,    \* R's user has the file list
  feeding,   \* the file S is sending
  fed,       \* chunks of each file S has sent, None before its header
  refused,   \* files of which S's user was told there is no token
  filing,    \* file_state of R: the file whose bytes arrive
  got,       \* chunks each file's consumer at R was handed
  whole,     \* files whose consumer at R has seen the end of the stream
  verdict,   \* what R's user has said of each file
  mailbox,   \* user_error_tx: results R's task has not read
  held,      \* the text that ended a file and is looked at after its result
  replies,   \* results R has sent, by file
  broken     \* R's user code has died: its channels are dropped

session  == <<outer, closed, lost, cut>>
users    == <<slot, typed, tries, listed>>
sending  == <<feeding, fed, refused>>
storing  == <<filing, got, whole, verdict, mailbox, held, replies, broken>>
vars == <<setup, acked, session, pc, wire, inbox, shown, nonce, users, tokens, sending, storing>>

-----------------------------------------------------------------------------
pinOf == setup.pin
expect == setup.key
Offered == setup.files
Status == {"SdpExchanged", "Connected", "PinRequired", "TooManyAttempts",
           "Declined", "Finished", "Error"}
M(kind, val) == [kind |-> kind, val |-> val]
\* The JSON messages of the protocol and the binary data of a file.
Kinds == {"nonce", "token", "tokenOk", "tokenPin", "tokenInvalid",
          "pin", "pinOk", "pinAgain", "pinTooMany",
          "files", "askPin", "tooMany", "tokens", "declined",
          "header", "data", "result", "delim"}
Delim == M("delim", None)
Chunked(m) == <<m, Delim>>
Token(s) == [key |-> s, nonce |-> nonce[s]]
\* Mutation: the key that was expected is not compared.
TrustsAnyKey(s, token) == token.nonce = nonce[s]

Trusts(s, token) == expect[s] # None => token = [key |-> expect[s], nonce |-> nonce[s]]

Up == \A s \in Sides : ~closed[s] /\ ~lost[s]

\* The task of s sends ms and goes on at next; on a connection that is gone
\* the messages vanish or the send fails.
Send(s, ms, next) ==
  IF Up
    THEN /\ wire' = [wire EXCEPT ![Peer(s)] = @ \o ms]
         /\ pc' = [pc EXCEPT ![s] = next]
    ELSE /\ \E to \in {next, "err"} : pc' = [pc EXCEPT ![s] = to]
         /\ UNCHANGED wire

\* Mutation: send_delimiter is left out.
Nothing == <<>>

\* wait_buffer_empty: the peer's stack has acknowledged everything.
BufferEmpty(s) == acked[Peer(s)] = Len(wire[Peer(s)])

Delimiter == <<Delim>>

Goto(s, next) == pc' = [pc EXCEPT ![s] = next] /\ UNCHANGED wire
Show(s, st) == shown' = [shown EXCEPT ![s] = @ \cup {st}]

Oldest(s) == IF inbox[s] = <<>> THEN {} ELSE {Head(inbox[s])}
\* The task of s is at p and takes the next message, m.
Takes(s, p, m) ==
  /\ pc[s] = p /\ m \in Oldest(s)
  /\ inbox' = [inbox EXCEPT ![s] = Tail(@)]
\* The same for a message that comes in chunks up to a delimiter.
TakesChunks(s, p, m) ==
  /\ pc[s] = p /\ m \in Oldest(s) /\ Len(inbox[s]) > 1
  /\ inbox' = [inbox EXCEPT ![s] = Tail(Tail(@))]

Init ==
  /\ setup \in Setups
  /\ outer = [s \in Sides |-> "offered"]
  /\ pc = [S |-> "open", R |-> "nonce"]
  /\ wire = [s \in Sides |-> <<>>] /\ inbox = [s \in Sides |-> <<>>] /\ acked = [s \in Sides |-> 0]
  /\ closed = [s \in Sides |-> FALSE] /\ lost = [s \in Sides |-> FALSE] /\ cut = FALSE
  /\ shown = [s \in Sides |-> {}]
  /\ nonce = [s \in Sides |-> <<>>]
  /\ slot = [s \in Sides |-> FALSE] /\ typed = [s \in Sides |-> None]
  /\ tries = [s \in Sides |-> 0] /\ listed = FALSE
  /\ tokens = [s \in Sides |-> {}]
  /\ feeding = None /\ fed = [f \in Files |-> None] /\ refused = {}
  /\ filing = None /\ got = [f \in Files |-> <<>>] /\ whole = {}
  /\ verdict = [f \in Files |-> None] /\ mailbox = <<>> /\ held = None
  /\ replies = [f \in Files |-> None] /\ broken = FALSE

-----------------------------------------------------------------------------
(* The outer functions *)

\* accept_offer takes the offer, answers it and tells its user.
AnswerOffer ==
  /\ outer["R"] = "offered"
  /\ outer' = [outer EXCEPT !["R"] = "answered"]
  /\ UNCHANGED <<setup, acked, closed, lost, cut, pc, wire, inbox, shown, nonce, users, tokens, sending, storing>>

AnswerSent ==
  /\ outer["R"] = "answered"
  /\ outer' = [outer EXCEPT !["R"] = "running"]
  /\ Show("R", "SdpExchanged")
  /\ UNCHANGED <<setup, acked, closed, lost, cut, pc, wire, inbox, nonce, users, tokens, sending, storing>>

\* The answer reaches send_offer, which sets it as the remote description.
AnswerArrives ==
  /\ outer["S"] = "offered" /\ outer["R"] # "offered"
  /\ outer' = [outer EXCEPT !["S"] = "running"]
  /\ Show("S", "SdpExchanged")
  /\ UNCHANGED <<setup, acked, closed, lost, cut, pc, wire, inbox, nonce, users, tokens, sending, storing>>

\* The task has ended well: Finished, and the connection is closed.
TaskDone(s) ==
  /\ outer[s] = "running" /\ pc[s] = "ok"
  /\ outer' = [outer EXCEPT ![s] = "finished"]
  /\ closed' = [closed EXCEPT ![s] = TRUE]
  /\ Show(s, "Finished")
  /\ UNCHANGED <<setup, acked, lost, cut, pc, wire, inbox, nonce, users, tokens, sending, storing>>

\* The task has failed: the function returns its error, which the app's
\* wrapper publishes; nobody closes the connection.
TaskFailed(s) ==
  /\ outer[s] = "running" /\ pc[s] = "err"
  /\ outer' = [outer EXCEPT ![s] = "failed"]
  /\ Show(s, "Error")
  /\ UNCHANGED <<setup, acked, closed, lost, cut, pc, wire, inbox, nonce, users, tokens, sending, storing>>

\* done_rx: the connection is gone before the task has ended.  The task goes on.
ConnectionDone(s) ==
  /\ outer[s] = "running" /\ lost[s]
  /\ outer' = [outer EXCEPT ![s] = "finished"]
  /\ closed' = [closed EXCEPT ![s] = TRUE]
  /\ Show(s, "Finished")
  /\ UNCHANGED <<setup, acked, lost, cut, pc, wire, inbox, nonce, users, tokens, sending, storing>>

-----------------------------------------------------------------------------
(* The data channel and the network *)

\* The stack of s takes a message from the network, whether the stream has room or not.
Acknowledge(s) ==
  /\ acked[s] < Len(wire[s]) /\ ~lost[s] /\ ~closed[s]
  /\ acked' = [acked EXCEPT ![s] = @ + 1]
  /\ UNCHANGED <<setup, session, pc, wire, inbox, shown, nonce, users, tokens, sending, storing>>

\* on_message puts the next one into the stream, waiting for room.
Deliver(s) ==
  /\ wire[s] # <<>> /\ acked[s] > 0 /\ Len(inbox[s]) < Cap /\ ~lost[s] /\ ~closed[s]
  /\ inbox' = [inbox EXCEPT ![s] = Append(@, Head(wire[s]))]
  /\ wire' = [wire EXCEPT ![s] = Tail(@)] /\ acked' = [acked EXCEPT ![s] = @ - 1]
  /\ UNCHANGED <<setup, session, pc, shown, nonce, users, tokens, sending, storing>>

\* The peer has closed, or the network is gone: what is not in a stream is lost.
Disconnected(s) ==
  /\ ~lost[s] /\ outer[s] # "offered" /\ outer["S"] # "offered"
  /\ \/ closed[Peer(s)] /\ UNCHANGED cut
     \/ "network" \in setup.faults /\ ~closed[Peer(s)] /\ cut' = TRUE
  /\ lost' = [lost EXCEPT ![s] = TRUE]
  /\ wire' = [t \in Sides |-> <<>>] /\ acked' = [t \in Sides |-> 0]
  /\ UNCHANGED <<setup, outer, closed, pc, inbox, shown, nonce, users, tokens, sending, storing>>

-----------------------------------------------------------------------------
(* Nonce and token *)

\* S, the channel open: sends its nonce.
OpenChannel ==
  /\ pc["S"] = "open" /\ outer["S"] # "offered"
  /\ Send("S", <<M("nonce", "nS")>>, "nonce")
  /\ UNCHANGED <<setup, acked, session, inbox, shown, nonce, users, tokens, sending, storing>>

\* R: sender_nonce || receiver_nonce.
ReceiveNonce ==
  \E m \in {M("nonce", "nS")} :
    /\ Takes("R", "nonce", m)
    /\ nonce' = [nonce EXCEPT !["R"] = <<m.val, "nR">>]
    /\ Send("R", <<M("nonce", "nR")>>, "token")
    /\ UNCHANGED <<setup, acked, session, shown, users, tokens, sending, storing>>

SendToken ==
  \E m \in {M("nonce", "nR")} :
    /\ Takes("S", "nonce", m)
    /\ nonce' = [nonce EXCEPT !["S"] = <<"nS", m.val>>]
    /\ Send("S", <<M("token", [key |-> "S", nonce |-> nonce'["S"]])>>, "trust")
    /\ UNCHANGED <<setup, acked, session, shown, users, tokens, sending, storing>>

ReceiveToken ==
  \E m \in Oldest("R") :
    /\ Takes("R", "token", m)
    /\ IF ~Trusts("R", m.val)
         THEN Send("R", <<M("tokenInvalid", None)>>, "rejecting") /\ UNCHANGED shown
         ELSE IF pinOf["R"] = None
           THEN Send("R", <<M("tokenOk", Token("R"))>>, "files") /\ UNCHANGED shown
           ELSE Send("R", <<M("tokenPin", Token("R"))>>, "verify") /\ Show("R", "PinRequired")
    /\ UNCHANGED <<setup, acked, session, nonce, users, tokens, sending, storing>>

\* R has waited until its refusal was sent.
Rejected ==
  /\ pc["R"] = "rejecting" /\ BufferEmpty("R")
  /\ Goto("R", "err")
  /\ UNCHANGED <<setup, acked, session, inbox, shown, nonce, users, tokens, sending, storing>>

\* VerifyPinResult::TooManyAttempts and ::PinRequired as each side says it.
TooManyAttempts(s) == IF s = "R" THEN <<M("pinTooMany", None)>> ELSE Chunked(M("tooMany", None))

PinRequired(s) == IF s = "R" THEN <<M("pinAgain", None)>> ELSE Chunked(M("askPin", None))

\* Mutation: the file list follows R's PIN at once.
ListWithoutPin == Goto("S", "list") /\ UNCHANGED shown

\* S's own PIN comes next, or the file list.
AfterReceiversPin ==
  IF pinOf["S"] = None
    THEN Goto("S", "list") /\ UNCHANGED shown
    ELSE Send("S", PinRequired("S"), "verify") /\ Show("S", "PinRequired")

TokenResponse ==
  \E m \in Oldest("S") :
    /\ Takes("S", "trust", m)
    /\ IF m.kind = "tokenInvalid" \/ ~Trusts("S", m.val)
         THEN Goto("S", "err") /\ UNCHANGED shown
         ELSE IF m.kind = "tokenPin"
           THEN Goto("S", "ask") /\ UNCHANGED shown
           ELSE AfterReceiversPin
    /\ UNCHANGED <<setup, acked, session, nonce, users, tokens, sending, storing>>

-----------------------------------------------------------------------------
(* PINs: handle_pin asks the user and sends, verify_pin compares *)

AskPin(s) ==
  /\ pc[s] = "ask"
  /\ Goto(s, "slot") /\ Show(s, "PinRequired")
  /\ UNCHANGED <<setup, acked, session, inbox, nonce, users, tokens, sending, storing>>

\* The sender of the PIN is put into the controller after the status was shown.
OfferSlot(s) ==
  /\ pc[s] = "slot"
  /\ slot' = [slot EXCEPT ![s] = TRUE]
  /\ Goto(s, "user")
  /\ UNCHANGED <<setup, acked, session, inbox, shown, nonce, typed, tries, listed, tokens, sending, storing>>

\* send_pin of the controller; the waiting task sends the PIN on.
TypePin(s, p) ==
  /\ slot[s] /\ pc[s] = "user"
  /\ slot' = [slot EXCEPT ![s] = FALSE] /\ typed' = [typed EXCEPT ![s] = p]
  /\ Send(s, <<M("pin", p)>>, "reply")
  /\ UNCHANGED <<setup, acked, session, inbox, shown, nonce, tries, listed, tokens, sending, storing>>

\* Mutation: a wrong PIN too many is let through to another try.
OneTryMore(n) == n > MaxTries

OutOfTries(n) == n >= MaxTries

\* The loop of verify_pin after another PIN has come.
VerifyPin(s) ==
  \E m \in Oldest(s) :
    /\ Takes(s, "verify", m)
    /\ tries' = [tries EXCEPT ![s] = @ + 1]
    /\ IF m.val = pinOf[s]
         THEN IF s = "R" THEN Send(s, <<M("pinOk", None)>>, "files") ELSE Goto(s, "list")
         ELSE IF OutOfTries(tries'[s])
           THEN Send(s, TooManyAttempts(s), "tooMany")
           ELSE Send(s, PinRequired(s), "verify")
    /\ UNCHANGED <<setup, acked, session, shown, nonce, slot, typed, listed, tokens, sending, storing>>

\* The verifying side gives up: the peer has the message or 5 seconds are over.
GiveUpPin(s) ==
  /\ pc[s] = "tooMany"
  /\ Goto(s, "err") /\ Show(s, "TooManyAttempts")
  /\ UNCHANGED <<setup, acked, session, inbox, nonce, users, tokens, sending, storing>>

\* What the verifying peer said of S's PIN.
SenderPinReply ==
  \E m \in Oldest("S") :
    /\ Takes("S", "reply", m)
    /\ CASE m.kind = "pinOk" -> AfterReceiversPin
         [] m.kind = "pinAgain" -> Goto("S", "ask") /\ UNCHANGED shown
         [] m.kind = "pinTooMany" -> Goto("S", "err") /\ Show("S", "TooManyAttempts")
    /\ UNCHANGED <<setup, acked, session, nonce, users, tokens, sending, storing>>

-----------------------------------------------------------------------------
(* File list and selection *)

SendFileList ==
  /\ pc["S"] = "list"
  /\ Send("S", Chunked(M("files", None)), "selected") /\ Show("S", "Connected")
  /\ UNCHANGED <<setup, acked, session, inbox, nonce, users, tokens, sending, storing>>

\* R reads the PIN status or, with the right PIN or none, the file list.
ReceiveFileList ==
  \E m \in Oldest("R"), p \in {"files", "reply"} :
    /\ TakesChunks("R", p, m)
    /\ CASE m.kind = "files" ->
              Goto("R", "choose") /\ listed' = TRUE /\ Show("R", "Connected")
         [] m.kind = "askPin" -> Goto("R", "ask") /\ UNCHANGED <<listed, shown>>
         [] m.kind = "tooMany" ->
              Goto("R", "err") /\ Show("R", "TooManyAttempts") /\ UNCHANGED listed
    /\ UNCHANGED <<setup, acked, session, nonce, slot, typed, tries, tokens, sending, storing>>

\* R's user chooses files (send_selection); each gets a token.
Select(chosen) ==
  /\ pc["R"] = "choose"
  /\ tokens' = [tokens EXCEPT !["R"] = chosen]
  /\ Send("R", Chunked(M("tokens", chosen)), "receive")
  /\ UNCHANGED <<setup, acked, session, inbox, shown, nonce, users, sending, storing>>

\* R's user declines; the task ends without waiting until this was sent.
Decline ==
  /\ pc["R"] = "choose"
  /\ Send("R", Chunked(M("declined", None)), "ok")
  /\ UNCHANGED <<setup, acked, session, inbox, shown, nonce, users, tokens, sending, storing>>

\* S publishes the selection; if its user is gone, the task fails without a status.
ReceiveTokens ==
  \E m \in Oldest("S") :
    /\ TakesChunks("S", "selected", m)
    /\ \/ /\ m.kind = "tokens" /\ UNCHANGED shown
          /\ \/ Goto("S", "send") /\ tokens' = [tokens EXCEPT !["S"] = m.val]
             \/ Goto("S", "err") /\ UNCHANGED tokens
       \/ /\ m.kind # "tokens"
          /\ Goto("S", "ok") /\ Show("S", "Declined") /\ UNCHANGED tokens
    /\ UNCHANGED <<setup, acked, session, nonce, users, sending, storing>>

-----------------------------------------------------------------------------
(* Files, sending side *)

\* m, of file f, goes out; on a connection that is gone it vanishes, or S's user
\* is told of an error and the task turns to the next file.
Feed(f, m, count) ==
  \/ /\ wire' = IF Up THEN [wire EXCEPT !["R"] = Append(@, m)] ELSE wire
     /\ feeding' = f /\ fed' = [fed EXCEPT ![f] = count] /\ UNCHANGED refused
  \/ /\ ~Up
     /\ feeding' = None /\ refused' = refused \cup {f} /\ UNCHANGED <<wire, fed>>

\* Mutation: a file without a token is sent as well.
SendAnyFile(f) ==
  /\ pc["S"] = "send" /\ feeding = None /\ fed[f] = None /\ f \notin refused
  /\ Feed(f, M("header", f), 0)
  /\ UNCHANGED <<setup, acked, session, pc, inbox, shown, nonce, users, tokens, storing>>

\* S's user hands a file to the task (send_file): its header, or an error.
SendFile(f) ==
  /\ pc["S"] = "send" /\ feeding = None /\ fed[f] = None /\ f \notin refused
  /\ IF f \in tokens["S"]
       THEN Feed(f, M("header", f), 0)
       ELSE refused' = refused \cup {f} /\ UNCHANGED <<wire, feeding, fed>>
  /\ UNCHANGED <<setup, acked, session, pc, inbox, shown, nonce, users, tokens, storing>>

\* The next chunk of the file that S's user reads.
SendChunk ==
  /\ pc["S"] = "send" /\ feeding # None
  /\ fed[feeding] < setup.chunks
  /\ Feed(feeding, M("data", <<feeding, fed[feeding] + 1>>), fed[feeding] + 1)
  /\ UNCHANGED <<setup, acked, session, pc, inbox, shown, nonce, users, tokens, storing>>

\* The file's reader has reached the end and dropped its end of the channel.
EndFile ==
  /\ pc["S"] = "send" /\ feeding # None
  /\ feeding' = None
  /\ UNCHANGED <<setup, acked, session, pc, wire, inbox, shown, nonce, users, tokens, fed, refused, storing>>

\* S's user drops the controller's send_tx: no more files.
NoMoreFiles ==
  /\ pc["S"] = "send" /\ feeding = None
  /\ Goto("S", "flush")
  /\ UNCHANGED <<setup, acked, session, inbox, shown, nonce, users, tokens, sending, storing>>

\* R's stack has acknowledged everything: the delimiter after it.
SendDelimiter ==
  /\ pc["S"] = "flush" /\ BufferEmpty("S")
  /\ Send("S", Delimiter, "last")
  /\ UNCHANGED <<setup, acked, session, inbox, shown, nonce, users, tokens, sending, storing>>

\* One message more, whatever it is.
ReceiveLast ==
  \E m \in Oldest("S") :
    /\ Takes("S", "last", m)
    /\ Goto("S", "ok")
    /\ UNCHANGED <<setup, acked, session, shown, nonce, users, tokens, sending, storing>>

-----------------------------------------------------------------------------
(* Files, receiving side *)

\* A text that is read as a header: "0" is none.
OpenFile(m) ==
  IF m.kind = "header"
    THEN Goto("R", "receive") /\ filing' = m.val
    ELSE Goto("R", "err") /\ filing' = None

\* A text ends the file before it; its consumer sees the end of the stream.
ReceiveText ==
  \E m \in Oldest("R") :
    /\ Takes("R", "receive", m) /\ m.kind # "data"
    /\ IF filing = None
         THEN OpenFile(m) /\ UNCHANGED <<whole, held>>
         ELSE /\ Goto("R", "result") /\ held' = m
              /\ whole' = whole \cup {filing} /\ UNCHANGED filing
    /\ UNCHANGED <<setup, acked, session, shown, nonce, users, tokens, sending, got, verdict, mailbox, replies, broken>>

ReceiveData ==
  \E m \in Oldest("R") :
    /\ Takes("R", "receive", m) /\ m.kind = "data"
    /\ IF broken THEN Goto("R", "err") /\ UNCHANGED got
                 ELSE Goto("R", "receive") /\ got' = [got EXCEPT ![filing] = Append(@, m.val)]
    /\ UNCHANGED <<setup, acked, session, shown, nonce, users, tokens, sending, filing, whole,
                   verdict, mailbox, held, replies, broken>>

\* R's user, who waits for the end of a file's stream, has stored it or failed to:
\* the command line does so; the app's send_file_status has no caller yet.
Report(f, ok) ==
  /\ f \in whole /\ verdict[f] = None /\ mailbox = <<>> /\ ~broken
  /\ verdict' = [verdict EXCEPT ![f] = ok]
  /\ mailbox' = <<ok>>
  /\ UNCHANGED <<setup, acked, session, pc, wire, inbox, shown, nonce, users, tokens, sending, filing,
                 got, whole, held, replies, broken>>

\* Mutation: the answer is given without waiting for the user's result.
ResultAtOnce == TRUE

\* Mutation: the file's state is not replaced by the next file's.
SameFile == filing

\* user_error_tx.recv() returns: a result, or None if the user's end is dropped.
ResultReady == mailbox # <<>> \/ broken

NextFile == IF held = Delim THEN None ELSE held.val

\* The result of the ended file goes to S; then the text is the end or a header.
SendResult ==
  /\ pc["R"] = "result"
  /\ ResultReady
  /\ LET ok == mailbox # <<>> /\ Head(mailbox)
     IN /\ replies' = [replies EXCEPT ![filing] = ok]
        /\ Send("R", <<M("result", <<filing, ok>>)>>, IF held = Delim THEN "drain" ELSE "receive")
  /\ filing' = NextFile
  /\ mailbox' = <<>> /\ held' = None
  /\ UNCHANGED <<setup, acked, session, inbox, shown, nonce, users, tokens, sending, got, whole, verdict, broken>>

\* The last result has reached S, or 5 seconds are over.
Drained ==
  /\ pc["R"] = "drain"
  /\ Goto("R", "ok")
  /\ UNCHANGED <<setup, acked, session, inbox, shown, nonce, users, tokens, sending, storing>>

-----------------------------------------------------------------------------
(* Users that leave and user code that dies *)

\* The controller is dropped while a PIN is asked for.
LeavePin(s) ==
  /\ pc[s] = "user" /\ slot[s]
  /\ slot' = [slot EXCEPT ![s] = FALSE] /\ Goto(s, "err")
  /\ UNCHANGED <<setup, acked, session, inbox, shown, nonce, typed, tries, listed, tokens, sending, storing>>

\* The controller is dropped before the selection: the task ends in silence.
LeaveChoice ==
  /\ pc["R"] = "choose"
  /\ Goto("R", "ok")
  /\ UNCHANGED <<setup, acked, session, inbox, shown, nonce, users, tokens, sending, storing>>

\* The file cannot be written: the task that stores files panics.
WriteFails ==
  /\ "write" \in setup.faults /\ ~broken /\ pc["R"] \in {"receive", "result"} /\ filing # None
  /\ broken' = TRUE
  /\ UNCHANGED <<setup, acked, session, pc, wire, inbox, shown, nonce, users, tokens, sending, filing,
                 got, whole, verdict, mailbox, held, replies>>

-----------------------------------------------------------------------------
OuterStep == AnswerOffer \/ AnswerSent \/ AnswerArrives
             \/ \E s \in Sides : TaskDone(s) \/ TaskFailed(s) \/ ConnectionDone(s)
SenderStep == OpenChannel \/ SendToken \/ TokenResponse \/ SenderPinReply \/ SendFileList
              \/ ReceiveTokens \/ SendDelimiter \/ ReceiveLast
ReceiverStep == ReceiveNonce \/ ReceiveToken \/ Rejected \/ ReceiveFileList
                \/ ReceiveText \/ ReceiveData \/ SendResult \/ Drained
PinStep == \E s \in Sides : AskPin(s) \/ OfferSlot(s) \/ VerifyPin(s) \/ GiveUpPin(s)
\* What user code does without a user: read and send what was chosen, report.
DriverStep == SendChunk \/ EndFile \/ NoMoreFiles
              \/ \E f \in Offered : SendFile(f) \/ \E ok \in BOOLEAN : Report(f, ok)
UserStep == \/ \E s \in Sides : LeavePin(s) \/ \E p \in Pins : TypePin(s, p)
            \/ \E chosen \in SUBSET Offered : Select(chosen)
            \/ Decline \/ LeaveChoice \/ WriteFails
NetworkStep == \E s \in Sides : Acknowledge(s) \/ Deliver(s) \/ Disconnected(s)

Next == OuterStep \/ SenderStep \/ ReceiverStep \/ PinStep \/ DriverStep \/ UserStep \/ NetworkStep
Spec == Init /\ [][Next]_vars

\* Spawned tasks are polled, the channel is reliable, and a connection the peer
\* has closed is reported; nobody has to type, choose or stay.
Fairness ==
  /\ WF_vars(OuterStep)
  /\ WF_vars(SenderStep) /\ WF_vars(ReceiverStep) /\ WF_vars(PinStep)
  /\ WF_vars(SendChunk \/ EndFile) /\ WF_vars(NoMoreFiles)
  /\ WF_vars(\E f \in Files, ok \in BOOLEAN : Report(f, ok))
  /\ \A s \in Sides : WF_vars(Acknowledge(s)) /\ WF_vars(Deliver(s)) /\ WF_vars(closed[Peer(s)] /\ Disconnected(s))
FairSpec == Spec /\ Fairness
-----------------------------------------------------------------------------
(* Properties *)

OuterStates == {"offered", "answered", "running", "finished", "failed"}
TaskStates == {"open", "nonce", "token", "trust", "rejecting", "ask", "slot", "user", "reply",
               "verify", "tooMany", "list", "files", "choose", "selected", "send", "flush",
               "last", "receive", "result", "drain", "ok", "err"}

TypeOK ==
  /\ setup \in Setup /\ outer \in [Sides -> OuterStates] /\ pc \in [Sides -> TaskStates]
  /\ \A s \in Sides : acked[s] <= Len(wire[s]) /\ \A i \in 1..Len(wire[s]) : wire[s][i].kind \in Kinds
  /\ \A s \in Sides : Len(inbox[s]) <= Cap /\ \A i \in 1..Len(inbox[s]) : inbox[s][i].kind \in Kinds
  /\ closed \in [Sides -> BOOLEAN] /\ lost \in [Sides -> BOOLEAN]
  /\ shown \in [Sides -> SUBSET Status]
  /\ slot \in [Sides -> BOOLEAN] /\ typed \in [Sides -> Pins \cup {None}]
  /\ tries \in [Sides -> 0..MaxTries] /\ listed \in BOOLEAN
  /\ tokens \in [Sides -> SUBSET Files]
  /\ feeding \in Files \cup {None} /\ filing \in Files \cup {None}
  /\ fed \in [Files -> 0..MaxChunks \cup {None}]
  /\ refused \subseteq Files /\ whole \subseteq Files
  /\ verdict \in [Files -> BOOLEAN \cup {None}] /\ replies \in [Files -> BOOLEAN \cup {None}]
  /\ Len(mailbox) <= 1 /\ broken \in BOOLEAN

\* The file list is shown to R's user only after R has typed S's PIN, and S gets
\* tokens to send files with only after S has typed R's; both are checked by the
\* other side, over the channel, and within max_tries.
PinBeforeFiles ==
  /\ listed /\ pinOf["S"] # None => typed["R"] = pinOf["S"]
  /\ listed \/ tokens["S"] # {} => pinOf["R"] = None \/ typed["S"] = pinOf["R"]
  /\ \A s \in Sides : "TooManyAttempts" \in shown[s] => ~listed /\ tokens["S"] = {}

\* Nothing of S's files is told to a peer whose token is not of the expected
\* key and of this session's nonce, on either side.
StrangersSeeNothing ==
  listed \/ (\E f \in Files : fed[f] # None) =>
    /\ expect["S"] \in {None, "R"} /\ expect["R"] \in {None, "S"}
    /\ nonce["S"] = nonce["R"]

\* What R's user is handed as a file is what S has read of that file, in order,
\* from no other file; when its stream ends it is all that S has read of it.
StreamsAreFiles ==
  \A f \in Files :
    /\ got[f] = [i \in 1..Len(got[f]) |-> <<f, i>>]
    /\ f \in whole => f # feeding /\ Len(got[f]) = fed[f]

\* R answers for a file what R's user said of that file, although the user's
\* results come without being matched to files; a failure if the user is gone.
AnswersAreOfTheirFile ==
  \A f \in Files : replies[f] # None =>
    f \in whole /\ (replies[f] = verdict[f] \/ (broken /\ ~replies[f]))

\* The bytes of a file leave S only if R's user has chosen it from the list.
OnlyChosenFilesLeave == \A f \in Files : fed[f] # None => f \in tokens["R"]

\* Nothing of S leaks before both PINs, both tokens and R's choice allow it.
NothingLeaks == PinBeforeFiles /\ StrangersSeeNothing /\ OnlyChosenFilesLeave

\* S ends well after its files only when R's stack has all their bytes and R has answered
\* for one of them, which is complete at R.  The other ones need not be: what R's stream
\* has no room for is lost when S then closes the connection.
EndsAnswered ==
  /\ pc["S"] \in {"last", "ok"} =>
        \A i \in 1..Len(wire["R"]) : wire["R"][i].kind = "data" => i <= acked["R"]
  /\ pc["S"] = "ok" /\ (\E f \in Files : fed[f] # None) => \E f \in whole : replies[f] # None

\* Neither the bytes nor the results of two files are mixed up, and the sender's close
\* does not come before the first of them is answered.
FilesStayWhole == StreamsAreFiles /\ AnswersAreOfTheirFile /\ EndsAnswered

Disturbed == broken \/ cut

\* A single chosen file that S begins to send arrives completely, R's answer to
\* it goes out, and both users are told Finished.
ChosenFileArrives ==
  \A f \in Files :
    (fed[f] # None /\ tokens["R"] = {f}) ~>
      (Disturbed \/ /\ f \in whole /\ replies[f] # None
                    /\ \A s \in Sides : "Finished" \in shown[s])

\* When one side gives up on the other's PINs, both users are told.
GivingUpIsMutual ==
  \A s \in Sides : (pc[s] = "tooMany") ~>
    (Disturbed \/ \A t \in Sides : "TooManyAttempts" \in shown[t])

\* Both users are told how it ended, of a file that was sent and of a PIN that was
\* not guessed.
BothUsersAreTold == ChosenFileArrives /\ GivingUpIsMutual
=============================================================================
