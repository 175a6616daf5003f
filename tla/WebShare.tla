------------------------------ MODULE WebShare ------------------------------
(***************************************************************************)
(* The life of the app's HTTP server and the web share that needs a server *)
(* of its own: app/lib/provider/network/server/server_provider.dart,       *)
(* controller/send_controller.dart, controller/common.dart and             *)
(* app/lib/pages/web_send_page.dart.                                       *)
(*                                                                         *)
(* Starting and stopping the server suspend, at the bind and at the close, *)
(* and nothing keeps two such operations apart: the settings tab, the QR   *)
(* upload of the receive tab and the page of the web share each call them. *)
(* What lies between two awaits is one step here; the page calls _init once *)
(* per redraw (two taps on its encryption within a frame are left out).    *)
(*                                                                         *)
(* A session of the web share belongs to an address: the address is its    *)
(* id.  A request that changes nothing (the pages, a refusal, the file     *)
(* list for a visitor who has been accepted already) is a stuttering step. *)
(***************************************************************************)
EXTENDS Integers, FiniteSets

CONSTANTS
    Addresses,    \* where visitors come from
    Connections,  \* how many of their requests are open at once (bound)
    Pins,         \* what the user may choose
    Wrong,        \* any other PIN
    MaxGuesses,   \* how many wrong PINs of an address a share takes (3)
    Tasks,        \* operations of the two tabs that are under way (bound)
    Servers,      \* server sockets (bound)
    Https,        \* the setting: is the server encrypted?
    PortTaken,    \* may another program take the port?
    Page,         \* the web share's page, as a task
    None

ASSUME WebShareAssumption ==
    /\ Https \in BOOLEAN /\ PortTaken \in BOOLEAN
    /\ Page \notin Tasks /\ MaxGuesses \in Nat /\ Servers # {}
    /\ Wrong \notin Pins \cup {None}
    /\ {None, "active"} \cap Connections = {} /\ None # "active"
    /\ None \notin Addresses \cup Pins \cup Servers

AllTasks == Tasks \cup {Page}

VARIABLES
    sockets,    \* the server sockets: "free", "listening" or "closing"
    secure,     \* were they bound with the certificate?
    state,      \* ServerService.state: the server the app knows, or None
    share,      \* its webSendState, or None
    task,       \* where each operation is
    foreign,    \* does another program hold the port?
    page,       \* _stateEnum of the page, "closed" if there is none
    encrypted,  \* its _encrypted
    before,     \* beforeAutoAccept and beforePin of its _init
    request,    \* the open requests of visitors
    leaving,    \* does the user want to leave the page?
    wish,       \* history: what the user has chosen on the page
    consent     \* history: whose last request the user agreed to

serverVars == <<sockets, secure, state, share>>
pageVars == <<page, encrypted, before>>
userVars == <<leaving, wish, consent>>
vars == <<serverVars, task, foreign, pageVars, request, userVars>>

-----------------------------------------------------------------------------
Choices == [auto : BOOLEAN, pin : Pins \cup {None}]

\* A new page: settings.shareViaLinkAutoAccept is off.
Unset == [auto |-> FALSE, pin |-> None]

\* "active": responseHandler is null; a connection: its handler waits for the user.
SessionStates == {None, "active"} \cup Connections

Shares == [auto : BOOLEAN, pin : Pins \cup {None},
           sessions : [Addresses -> SessionStates],
           attempts : [Addresses -> 0..MaxGuesses]]

ASSUME ShareAssumption == None \notin Shares

Operations == [at : {"idle", "sleeping", "closing", "binding", "popping"},
               kind : {"none", "start", "stop", "restart"},
               secure : BOOLEAN, of : Servers \cup {None}]

Idle == [at |-> "idle", kind |-> "none", secure |-> FALSE, of |-> None]

\* of: the server it has reached; replaced: its session was overwritten.
Requests == [at : {"closed", "waiting", "streaming"}, address : Addresses \cup {None},
             of : Servers \cup {None}, replaced : BOOLEAN]

Closed == [at |-> "closed", address |-> None, of |-> None, replaced |-> FALSE]

Listening == {s \in Servers : sockets[s] = "listening"}

Binding == {t \in AllTasks : task[t].at = "binding"}

Init ==
    /\ foreign \in {FALSE, PortTaken}
    /\ state = IF foreign THEN None ELSE CHOOSE s \in Servers : TRUE
    /\ sockets = [s \in Servers |-> IF s = state THEN "listening" ELSE "free"]
    /\ secure = [s \in Servers |-> s = state /\ Https]
    /\ share = None
    /\ task = [t \in AllTasks |-> Idle]
    /\ page = "closed" /\ encrypted = FALSE /\ before = Unset
    /\ request = [c \in Connections |-> Closed]
    /\ leaving = FALSE /\ wish = Unset /\ consent = {}

-----------------------------------------------------------------------------
(* The server: startServer, stopServer, restartServer *)

\* HttpServer.close(force: true): nobody can connect any more.
CloseSocket(s) == [sockets EXCEPT ![s] = "closing"]

\* Its connections are destroyed.
CutRequests(s) == [c \in Connections |-> IF request[c].of = s THEN Closed ELSE request[c]]

\* What an operation does after stopServer.
AfterStop(op) == IF op.kind = "restart" THEN [op EXCEPT !.at = "binding", !.of = None] ELSE Idle

\* An operation begins with stopServer.  There is nothing to wait for if no
\* server is known.  It does not look whether another one is binding.
Stops(t, kind, enc) ==
    LET op == [at |-> "closing", kind |-> kind, secure |-> enc, of |-> state]
    IN  IF state = None
        THEN /\ task' = [task EXCEPT ![t] = AfterStop(op)]
             /\ UNCHANGED <<sockets, request>>
        ELSE /\ task' = [task EXCEPT ![t] = op]
             /\ sockets' = CloseSocket(state)
             /\ request' = CutRequests(state)

\* The socket is closed: everybody who waited for it goes on, in one turn.
SocketCloses(s) ==
    /\ sockets[s] = "closing"
    /\ sockets' = [sockets EXCEPT ![s] = "free"]
    /\ secure' = [secure EXCEPT ![s] = FALSE]
    /\ state' = None /\ share' = None /\ consent' = {}
    /\ task' = [t \in AllTasks |->
                   IF task[t].at = "closing" /\ task[t].of = s THEN AfterStop(task[t]) ELSE task[t]]
    /\ UNCHANGED <<foreign, pageVars, request, leaving, wish>>

\* Mutation: the choices are not carried over.
PlainShare(c) == [auto |-> FALSE, pin |-> None,
                  sessions |-> [a \in Addresses |-> None],
                  attempts |-> [a \in Addresses |-> 0]]

\* initializeWebSend and the two setters behind it in _init.
NewShare(c) == [auto |-> c.auto, pin |-> c.pin,
                sessions |-> [a \in Addresses |-> None],
                attempts |-> [a \in Addresses |-> 0]]

\* The bind succeeds; the caller goes on in the same turn.
Bound(t, s) ==
    /\ task[t].at = "binding" /\ sockets[s] = "free"
    /\ s = CHOOSE free \in Servers : sockets[free] = "free"
    /\ Listening = {} /\ ~foreign
    /\ sockets' = [sockets EXCEPT ![s] = "listening"]
    /\ secure' = [secure EXCEPT ![s] = task[t].secure]
    /\ state' = s
    /\ \/ /\ t # Page
          /\ share' = None
          /\ task' = [task EXCEPT ![t] = Idle]
          /\ UNCHANGED <<page, consent>>
       \/ /\ t = Page /\ page = "initializing"
          /\ share' = NewShare(before) /\ consent' = {}
          /\ page' = "running"
          /\ task' = [task EXCEPT ![t] = Idle]
       \/ /\ t = Page /\ page = "stopping"
          /\ share' = None
          /\ task' = [task EXCEPT ![t] = [Idle EXCEPT !.at = "popping"]]
          /\ UNCHANGED <<page, consent>>
    /\ UNCHANGED <<foreign, encrypted, before, request, leaving, wish>>

\* Mutation: an error clears the state.
ClearedState == None

\* startServer assigns its state only when the bind has succeeded.
StateAfterError == state

\* The port is in use.  The page shows the error; in onPop nothing catches it.
BindFails(t) ==
    /\ task[t].at = "binding"
    /\ foreign \/ \E s \in Servers : sockets[s] # "free"
    /\ task' = [task EXCEPT ![t] = Idle] /\ state' = StateAfterError
    /\ page' = IF t = Page /\ page = "initializing" THEN "error" ELSE page
    /\ UNCHANGED <<sockets, secure, share, foreign, encrypted, before, request, userVars>>

\* The buttons of the settings tab and prepareQrUpload of the receive tab, which
\* are below the page.  None is disabled while an operation is under way.
TapStart(t) ==
    /\ page = "closed" /\ task[t] = Idle /\ state = None
    /\ task' = [task EXCEPT ![t] = [at |-> "binding", kind |-> "start", secure |-> Https, of |-> None]]
    /\ UNCHANGED <<serverVars, foreign, pageVars, request, userVars>>

TapStop(t) ==
    /\ page = "closed" /\ task[t] = Idle /\ state # None
    /\ Stops(t, "stop", FALSE)
    /\ UNCHANGED <<secure, state, share, foreign, pageVars, userVars>>

TapRestart(t) ==
    /\ page = "closed" /\ task[t] = Idle /\ state # None
    /\ Stops(t, "restart", Https)
    /\ UNCHANGED <<secure, state, share, foreign, pageVars, userVars>>

PrepareQrUpload(t) ==
    /\ page = "closed" /\ task[t] = Idle /\ state # None /\ secure[state]
    /\ Stops(t, "restart", FALSE)
    /\ UNCHANGED <<secure, state, share, foreign, pageVars, userVars>>

\* Another program.
PortIsTaken ==
    /\ PortTaken /\ foreign' = ~foreign
    /\ Listening = {}
    /\ UNCHANGED <<serverVars, task, pageVars, request, userVars>>

-----------------------------------------------------------------------------
(* The page: _init, _revertServerState, its controls *)

\* initState: a new state object.
OpenPage ==
    /\ page = "closed"
    /\ page' = "initializing"
    /\ task' = [task EXCEPT ![Page] = [Idle EXCEPT !.at = "sleeping"]]
    /\ UNCHANGED <<serverVars, foreign, encrypted, before, request, userVars>>

\* The page shows the share and its controls; building it fails without one.
ShowsControls == page = "running" /\ share # None

\* The checkbox of the encryption: _init runs again.
ToggleEncryption ==
    /\ ShowsControls /\ ~leaving
    /\ page' = "initializing" /\ encrypted' = ~encrypted
    /\ before' = [auto |-> share.auto, pin |-> share.pin]
    /\ task' = [task EXCEPT ![Page] = [Idle EXCEPT !.at = "sleeping"]]
    /\ UNCHANGED <<serverVars, foreign, request, userVars>>

\* Mutation: the server keeps the page's protocol.
KeptProtocol == encrypted

\* _revertServerState restarts with the settings, _init with the page's choice.
NextProtocol == IF page = "initializing" THEN encrypted ELSE Https

\* The delay of _init or of onPop is over.
Wake ==
    /\ task[Page].at = "sleeping"
    /\ Stops(Page, "restart", NextProtocol)
    /\ UNCHANGED <<secure, state, share, foreign, pageVars, userVars>>

\* setWebSendPin and setWebSendAutoAccept.
Choose(c) ==
    /\ ShowsControls /\ wish' = c
    /\ share' = [share EXCEPT !.pin = c.pin, !.auto = c.auto]
    /\ UNCHANGED <<sockets, secure, state, task, foreign, pageVars, request, leaving, consent>>

\* The user decides to leave ...
WantToLeave ==
    /\ page # "closed" /\ ~leaving /\ leaving' = TRUE
    /\ UNCHANGED <<serverVars, task, foreign, pageVars, request, wish, consent>>

\* ... and presses back: onPop, which does nothing unless the page is running.
Back ==
    /\ leaving /\ page = "running"
    /\ page' = "stopping"
    /\ task' = [task EXCEPT ![Page] = [Idle EXCEPT !.at = "sleeping"]]
    /\ UNCHANGED <<serverVars, foreign, encrypted, before, request, userVars>>

\* The server has been reverted: context.pop(), which disposes the state object.
Pop ==
    /\ task[Page].at = "popping"
    /\ task' = [task EXCEPT ![Page] = Idle]
    /\ page' = "closed" /\ leaving' = FALSE
    /\ encrypted' = FALSE /\ before' = Unset /\ wish' = Unset
    /\ UNCHANGED <<serverVars, foreign, request, consent>>

-----------------------------------------------------------------------------
(* Visitors: prepare-download and download *)

\* Mutation: one guess more.
CheckPinLate(a, pin) ==
    IF share.pin = None THEN "correct"
    ELSE IF share.attempts[a] > MaxGuesses THEN "too many"
    ELSE IF pin = share.pin THEN "correct"
    ELSE IF pin = None THEN "missing" ELSE "wrong"

\* checkPin.  Only a PIN that is sent counts as an attempt.
CheckPin(a, pin) ==
    IF share.pin = None THEN "correct"
    ELSE IF share.attempts[a] >= MaxGuesses THEN "too many"
    ELSE IF pin = share.pin THEN "correct"
    ELSE IF pin = None THEN "missing" ELSE "wrong"

\* Mutation: a request that waits is taken for one that was accepted.
MayDownloadUnasked(a, id) == id = a /\ share.sessions[id] # None

\* A request from a names a session: it must be accepted and of that address.
MayDownload(a, id) == id = a /\ share.sessions[id] = "active"

\* A request reaches a server while the app has a share.
Reaches(s) == sockets[s] = "listening" /\ state # None /\ share # None

\* Mutation: the first request of an address keeps the prompt.
KeepSession(a, v) == IF share.sessions[a] = None THEN [share.sessions EXCEPT ![a] = v]
                     ELSE share.sessions

\* The session of an address is overwritten.
PutSession(a, v) == [share.sessions EXCEPT ![a] = v]

\* The request that waited with the session that is overwritten.
Replace(a) == [c \in Connections |->
    IF c = share.sessions[a] THEN [request[c] EXCEPT !.replaced = TRUE] ELSE request[c]]

\* A request takes a connection that is not in use, whichever.
IsNext(c) == request[c] = Closed /\ c = CHOOSE d \in Connections : request[d] = Closed

\* A PIN that is wrong: 401, or 429 the last time.
GuessWrong(s, a, id, pin) ==
    /\ Reaches(s) /\ ~MayDownload(a, id)
    /\ CheckPin(a, pin) = "wrong"
    /\ share' = [share EXCEPT !.attempts[a] = @ + 1]
    /\ UNCHANGED <<sockets, secure, state, task, foreign, pageVars, request, userVars>>

\* The share accepts everybody.
AutoAccept(s, a, id, pin) ==
    /\ Reaches(s) /\ ~MayDownload(a, id)
    /\ CheckPin(a, pin) = "correct" /\ share.auto
    /\ share' = [share EXCEPT !.sessions = PutSession(a, "active")]
    /\ request' = Replace(a) /\ consent' = consent \cup {a}
    /\ UNCHANGED <<sockets, secure, state, task, foreign, pageVars, leaving, wish>>

\* The user is asked; the handler waits for the answer.
Ask(c, s, a, id, pin) ==
    /\ Reaches(s) /\ ~MayDownload(a, id) /\ IsNext(c)
    /\ CheckPin(a, pin) = "correct" /\ ~share.auto
    /\ share' = [share EXCEPT !.sessions = PutSession(a, c)]
    /\ request' = [Replace(a) EXCEPT ![c] =
                      [at |-> "waiting", address |-> a, of |-> s, replaced |-> FALSE]]
    /\ consent' = consent \ {a}
    /\ UNCHANGED <<sockets, secure, state, task, foreign, pageVars, leaving, wish>>

\* acceptRequest and declineRequest with what the handler does then.
Respond(a, accepted) ==
    /\ ShowsControls /\ share.sessions[a] \in Connections
    /\ share' = [share EXCEPT !.sessions[a] = IF accepted THEN "active" ELSE None]
    /\ request' = [request EXCEPT ![share.sessions[a]] = Closed]
    /\ consent' = IF accepted THEN consent \cup {a} ELSE consent \ {a}
    /\ UNCHANGED <<sockets, secure, state, task, foreign, pageVars, leaving, wish>>

\* A download begins.
Download(c, s, a, id) ==
    /\ Reaches(s) /\ IsNext(c)
    /\ MayDownload(a, id)
    /\ request' = [request EXCEPT ![c] =
                      [at |-> "streaming", address |-> a, of |-> s, replaced |-> FALSE]]
    /\ UNCHANGED <<serverVars, task, foreign, pageVars, userVars>>

\* The file has been sent, or reading it failed.
DownloadEnds(c) ==
    /\ request[c].at = "streaming"
    /\ request' = [request EXCEPT ![c] = Closed]
    /\ UNCHANGED <<serverVars, task, foreign, pageVars, userVars>>

\* Every address may name any session and any PIN, or none.
Visit ==
    \E s \in Servers, a \in Addresses, id \in Addresses \cup {None} :
        \/ \E c \in Connections : Download(c, s, a, id)
        \/ \E pin \in Pins \cup {Wrong, None} :
              \/ GuessWrong(s, a, id, pin) \/ AutoAccept(s, a, id, pin)
              \/ \E c \in Connections : Ask(c, s, a, id, pin)

Next ==
    \/ \E s \in Servers : SocketCloses(s) \/ \E t \in AllTasks : Bound(t, s)
    \/ \E t \in AllTasks : BindFails(t)
    \/ \E t \in Tasks : TapStart(t) \/ TapStop(t) \/ TapRestart(t) \/ PrepareQrUpload(t)
    \/ PortIsTaken
    \/ OpenPage \/ ToggleEncryption \/ Wake \/ WantToLeave \/ Back \/ Pop
    \/ \E c \in Choices : Choose(c)
    \/ \E a \in Addresses, accepted \in BOOLEAN : Respond(a, accepted)
    \/ Visit
    \/ \E c \in Connections : DownloadEnds(c)

Spec == Init /\ [][Next]_vars

\* Delays pass, binds and closes end, and who wants to leave presses back.
Fairness ==
    /\ WF_vars(Wake) /\ WF_vars(Pop) /\ WF_vars(Back)
    /\ \A s \in Servers : WF_vars(SocketCloses(s))
    /\ \A t \in AllTasks : WF_vars(BindFails(t) \/ \E s \in Servers : Bound(t, s))

FairSpec == Spec /\ Fairness

-----------------------------------------------------------------------------
(* Properties *)

\* Every variable has its type; a share takes at most MaxGuesses wrong PINs of an address.
\* A restart for the encryption makes a new share, which keeps the PIN and counts anew.
TypeOK ==
    /\ sockets \in [Servers -> {"free", "listening", "closing"}]
    /\ secure \in [Servers -> BOOLEAN]
    /\ state \in Servers \cup {None} /\ share \in Shares \cup {None}
    /\ task \in [AllTasks -> Operations]
    /\ foreign \in BOOLEAN /\ leaving \in BOOLEAN /\ encrypted \in BOOLEAN
    /\ page \in {"closed", "initializing", "running", "stopping", "error"}
    /\ before \in Choices /\ wish \in Choices
    /\ request \in [Connections -> Requests]
    /\ consent \in SUBSET Addresses

\* A server is being closed although another one has been bound, or is about to be.
Racing == \E s \in Servers : sockets[s] = "closing" /\ (s # state \/ Binding # {})

\* The app has lost a server that listens.
Lost == state = None /\ Listening # {}

\* "Only one server can be running at a time" (server_provider.dart:22): a socket that
\* listens is the one the app knows, although starts, stops and restarts overlap and
\* binds fail.  It is lost only if a server was stopped while another operation was
\* binding: the end of that close forgets what has been bound since.
OneServer ==
    [][Listening \subseteq {state} /\ ~(Listening \subseteq {state})' => Racing]_vars

\* What the page reads with `!` is there, and it shows a share that is as the user
\* has chosen, also after a restart for the encryption, unless the server is lost.
PageShowsShare ==
    page = "running" =>
        \/ Lost
        \/ /\ state # None /\ secure[state] = encrypted
           /\ share # None /\ [auto |-> share.auto, pin |-> share.pin] = wish

\* Behind every prompt waits the request it stands for, and a request that waits
\* has its prompt, unless a later one of its address has taken it, its page is
\* about to restart the server, or the server is lost.
PromptsAreLive ==
    /\ share # None => \A a \in Addresses : share.sessions[a] \in Connections =>
          LET r == request[share.sessions[a]]
          IN  sockets[state] = "listening" =>
                 r.at = "waiting" /\ r.address = a /\ r.of = state /\ ~r.replaced
    /\ ~Lost => \A c \in Connections : request[c].at = "waiting" /\ ~request[c].replaced =>
          share # None /\ share.sessions[request[c].address] = c

\* A download begins only for an address whose last request the user agreed to, in
\* this share, whatever other requests of that address came in between.
ServedWithConsent ==
    [][\A c \in Connections :
          request[c].at # "streaming" /\ request'[c].at = "streaming"
             => request'[c].address \in consent]_vars

\* Who leaves a page that is running gets out of it, to a server as the settings
\* describe it and without the share, unless another program takes the port meanwhile
\* or operations race as above.  That is what _revertServerState makes, not "the
\* previous state" its comment promises (web_send_page.dart:79): a server that was
\* stopped before the page is started, one the QR upload had left on http encrypted.
\* A page that shows an error cannot be left at all.
LeavingRestarts ==
    leaving /\ page = "running"
        ~> \/ page = "closed" /\ share = None /\ state # None /\ secure[state] = Https
           \/ foreign \/ Racing
=============================================================================
