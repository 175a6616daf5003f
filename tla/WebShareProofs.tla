--------------------------- MODULE WebShareProofs ---------------------------
(***************************************************************************)
(* Proofs about WebShare, for any visitors, connections, PINs, sockets and *)
(* numbers of operations that overlap.  The invariant has four parts: who  *)
(* has a socket, where the page is, which request waits for which prompt,  *)
(* and whom the user agreed to.  A server may be lost, so most of it is    *)
(* about the server the app knows.                                         *)
(***************************************************************************)
EXTENDS WebShare, TLAPS

LEMMA Constants ==
    /\ Idle \in Operations /\ Closed \in Requests /\ Unset \in Choices
    /\ None \notin Servers /\ None \notin Connections /\ "active" \notin Connections
    /\ None # "active"
    /\ Page \in AllTasks /\ Page \notin Tasks /\ Tasks \subseteq AllTasks
BY WebShareAssumption DEF Idle, Operations, Closed, Requests, Unset, Choices, AllTasks

\* A new share, with the choices it is made with.
LEMMA NewShareIsEmpty ==
    ASSUME NEW c \in Choices
    PROVE  /\ NewShare(c) \in Shares /\ NewShare(c) # None
           /\ NewShare(c).auto = c.auto /\ NewShare(c).pin = c.pin
           /\ \A a \in Addresses : NewShare(c).sessions[a] = None
<1>1. NewShare(c) \in Shares
  BY WebShareAssumption DEF NewShare, Shares, Choices, SessionStates
<1> QED BY <1>1, ShareAssumption DEF NewShare

\* What the check of a PIN allows.
LEMMA WrongGuessIsCounted ==
    ASSUME NEW a, NEW pin, CheckPin(a, pin) = "wrong"
    PROVE  ~(share.attempts[a] >= MaxGuesses)
BY DEF CheckPin

\* stopServer waits, or the operation goes on at once.
LEMMA AfterStopIsTask ==
    ASSUME NEW op \in Operations
    PROVE  /\ AfterStop(op) \in Operations /\ AfterStop(op).at \in {"binding", "idle"}
           /\ AfterStop(op).at = "binding" => AfterStop(op).secure = op.secure
           /\ AfterStop(op).at # "binding" => AfterStop(op) = Idle
BY Constants DEF AfterStop, Operations, Idle

\* The two ways in which an operation begins with stopServer.
LEMMA StopsCases ==
    ASSUME TypeOK, NEW t \in AllTasks, NEW kind \in {"stop", "restart"}, NEW enc \in BOOLEAN,
           Stops(t, kind, enc)
    PROVE  \E op \in Operations :
              /\ task' = [task EXCEPT ![t] = op]
              /\ op.at \in {"binding", "closing", "idle"} /\ (op.at # "idle" => op.secure = enc)
              /\ op.at = "idle" => op = Idle
              /\ \/ /\ state = None /\ op.at # "closing"
                    /\ UNCHANGED <<sockets, request>>
                 \/ /\ state # None /\ op.at = "closing"
                    /\ sockets' = [sockets EXCEPT ![state] = "closing"]
                    /\ request' = CutRequests(state)
<1> DEFINE op == [at |-> "closing", kind |-> kind, secure |-> enc, of |-> state]
<1>1. op \in Operations
  BY DEF TypeOK, Operations
<1>2. op.secure = enc /\ op.at = "closing"
  OBVIOUS
<1>3. CASE state = None
  <2>1. task' = [task EXCEPT ![t] = AfterStop(op)] /\ UNCHANGED <<sockets, request>>
    BY <1>3 DEF Stops
  <2> HIDE DEF op
  <2> QED BY <1>1, <1>2, <1>3, <2>1, AfterStopIsTask
<1>4. CASE state # None
  <2>1. /\ task' = [task EXCEPT ![t] = op]
        /\ sockets' = [sockets EXCEPT ![state] = "closing"] /\ request' = CutRequests(state)
    BY <1>4 DEF Stops, CloseSocket
  <2> HIDE DEF op
  <2> QED BY <1>1, <1>2, <1>4, <2>1
<1> QED BY <1>3, <1>4

-----------------------------------------------------------------------------
(* Types *)

LEMMA InitTypes == Init => TypeOK
<1> SUFFICES ASSUME Init PROVE TypeOK
  OBVIOUS
<1>1. state \in Servers \cup {None} /\ foreign \in BOOLEAN
  BY WebShareAssumption DEF Init
<1>2. sockets \in [Servers -> {"free", "listening", "closing"}] /\ secure \in [Servers -> BOOLEAN]
  BY WebShareAssumption DEF Init
<1> QED BY <1>1, <1>2, Constants DEF TypeOK, Init

\* A share keeps its type when its sessions, its attempts or its choices change.
LEMMA ShareChanges ==
    ASSUME share \in Shares
    PROVE  /\ \A f \in [Addresses -> SessionStates] : [share EXCEPT !.sessions = f] \in Shares
           /\ \A a \in Addresses, v \in SessionStates :
                 /\ [share EXCEPT !.sessions[a] = v] \in Shares
                 /\ PutSession(a, v) \in [Addresses -> SessionStates]
           /\ \A a \in Addresses : ~(share.attempts[a] >= MaxGuesses)
                 => [share EXCEPT !.attempts[a] = @ + 1] \in Shares
           /\ \A c \in Choices : [share EXCEPT !.pin = c.pin, !.auto = c.auto] \in Shares
<1>1. \A f \in [Addresses -> SessionStates] : [share EXCEPT !.sessions = f] \in Shares
  BY DEF Shares
<1>2. ASSUME NEW a \in Addresses, NEW v \in SessionStates
      PROVE  PutSession(a, v) \in [Addresses -> SessionStates]
  BY DEF Shares, PutSession
<1>3. ASSUME NEW a \in Addresses, NEW v \in SessionStates
      PROVE  [share EXCEPT !.sessions[a] = v] \in Shares
  BY DEF Shares
<1>4. ASSUME NEW a \in Addresses, ~(share.attempts[a] >= MaxGuesses)
      PROVE  [share EXCEPT !.attempts[a] = @ + 1] \in Shares
  <2>1. share.attempts[a] + 1 \in 0..MaxGuesses
    BY <1>4, WebShareAssumption DEF Shares
  <2> QED BY <2>1 DEF Shares
<1>5. ASSUME NEW c \in Choices
      PROVE  [share EXCEPT !.pin = c.pin, !.auto = c.auto] \in Shares
  BY DEF Shares, Choices
<1> QED BY <1>1, <1>2, <1>3, <1>4, <1>5

LEMMA ReplaceIsRequests ==
    ASSUME request \in [Connections -> Requests], NEW a
    PROVE  Replace(a) \in [Connections -> Requests]
BY DEF Replace, Requests

\* One step of an operation.
LEMMA TaskTypes ==
    ASSUME TypeOK, NEW t \in AllTasks,
           (\E s \in Servers : SocketCloses(s) \/ Bound(t, s)) \/ BindFails(t)
    PROVE  TypeOK'
<1> USE DEF StateAfterError
<1>1. ASSUME NEW s \in Servers, SocketCloses(s)
      PROVE  TypeOK'
  <2>1. task' \in [AllTasks -> Operations]
    BY <1>1, AfterStopIsTask DEF TypeOK, SocketCloses
  <2> QED BY <1>1, <2>1 DEF TypeOK, SocketCloses, pageVars, userVars
<1>2. ASSUME NEW s \in Servers, Bound(t, s)
      PROVE  TypeOK'
  <2>1. task' \in [AllTasks -> Operations]
    <3>1. [Idle EXCEPT !.at = "popping"] \in Operations
      BY Constants DEF Operations, Idle
    <3> QED BY <1>2, <3>1, Constants DEF TypeOK, Bound
  <2>2. share' \in Shares \cup {None} /\ consent' \in SUBSET Addresses
        /\ page' \in {"closed", "initializing", "running", "stopping", "error"}
    BY <1>2, NewShareIsEmpty DEF TypeOK, Bound
  <2>3. sockets' \in [Servers -> {"free", "listening", "closing"}] /\ secure' \in [Servers -> BOOLEAN]
        /\ state' \in Servers \cup {None}
    <3>1. task[t].secure \in BOOLEAN
      BY DEF TypeOK, Operations
    <3> QED BY <1>2, <3>1 DEF TypeOK, Bound
  <2> QED BY <1>2, <2>1, <2>2, <2>3 DEF TypeOK, Bound
<1>3. CASE BindFails(t)
  BY <1>3, Constants DEF TypeOK, BindFails, userVars
<1> QED BY <1>1, <1>2, <1>3

\* An operation begins.
LEMMA StopsTypes ==
    ASSUME TypeOK, NEW t \in AllTasks, NEW kind \in {"stop", "restart"}, NEW enc \in BOOLEAN,
           Stops(t, kind, enc), UNCHANGED <<secure, state, share, foreign, pageVars, userVars>>
    PROVE  TypeOK'
<1>1. task' \in [AllTasks -> Operations]
  BY StopsCases DEF TypeOK
<1>2. sockets' \in [Servers -> {"free", "listening", "closing"}]
  BY StopsCases DEF TypeOK
<1>3. request' \in [Connections -> Requests]
  <2>1. CutRequests(state) \in [Connections -> Requests]
    BY Constants DEF TypeOK, CutRequests
  <2> QED BY <2>1, StopsCases DEF TypeOK
<1> QED BY <1>1, <1>2, <1>3 DEF TypeOK, pageVars, userVars

LEMMA TapTypes ==
    ASSUME TypeOK, NEW t \in Tasks, TapStart(t) \/ TapStop(t) \/ TapRestart(t) \/ PrepareQrUpload(t)
    PROVE  TypeOK'
<1> USE WebShareAssumption, Constants
<1>1. CASE TapStart(t)
  <2>1. [at |-> "binding", kind |-> "start", secure |-> Https, of |-> None] \in Operations
    BY DEF Operations
  <2> QED BY <1>1, <2>1 DEF TypeOK, TapStart, serverVars, pageVars, userVars
<1>2. CASE TapStop(t)
  BY <1>2, StopsTypes DEF TapStop
<1>3. CASE TapRestart(t)
  BY <1>3, StopsTypes DEF TapRestart
<1>4. CASE PrepareQrUpload(t)
  BY <1>4, StopsTypes DEF PrepareQrUpload
<1> QED BY <1>1, <1>2, <1>3, <1>4

\* What the user does on the page.
LEMMA PageTypes ==
    ASSUME TypeOK,
           \/ OpenPage \/ ToggleEncryption \/ Wake \/ WantToLeave \/ Back \/ Pop
           \/ \E c \in Choices : Choose(c)
    PROVE  TypeOK'
<1> USE WebShareAssumption, Constants
<1>1. [Idle EXCEPT !.at = "sleeping"] \in Operations
  BY DEF Operations, Idle
<1>2. CASE OpenPage
  BY <1>1, <1>2 DEF TypeOK, OpenPage, serverVars, userVars
<1>3. CASE ToggleEncryption
  <2>1. [auto |-> share.auto, pin |-> share.pin] \in Choices
    BY <1>3 DEF TypeOK, ToggleEncryption, ShowsControls, Shares, Choices
  <2> QED BY <1>1, <1>3, <2>1 DEF TypeOK, ToggleEncryption, serverVars, userVars
<1>4. CASE Wake
  <2>1. NextProtocol \in BOOLEAN
    BY DEF TypeOK, NextProtocol
  <2> QED BY <1>4, <2>1, StopsTypes DEF Wake
<1>5. CASE WantToLeave
  BY <1>5 DEF TypeOK, WantToLeave, serverVars, pageVars
<1>6. CASE Back
  BY <1>1, <1>6 DEF TypeOK, Back, serverVars, userVars
<1>7. CASE Pop
  BY <1>7 DEF TypeOK, Pop, serverVars
<1>8. ASSUME NEW c \in Choices, Choose(c)
      PROVE  TypeOK'
  <2>1. share' \in Shares
    BY <1>8, ShareChanges DEF TypeOK, Choose, ShowsControls
  <2> QED BY <1>8, <2>1 DEF TypeOK, Choose, pageVars
<1> QED BY <1>2, <1>3, <1>4, <1>5, <1>6, <1>7, <1>8

\* Requests and answers.
LEMMA VisitTypes ==
    ASSUME TypeOK,
           \/ Visit
           \/ \E a \in Addresses, accepted \in BOOLEAN : Respond(a, accepted)
           \/ \E c \in Connections : DownloadEnds(c)
    PROVE  TypeOK'
<1> USE Constants
<1>1. ASSUME NEW s, NEW a \in Addresses, NEW id, NEW pin, GuessWrong(s, a, id, pin)
      PROVE  TypeOK'
  <2>1. share' \in Shares
    BY <1>1, ShareChanges, WrongGuessIsCounted DEF TypeOK, GuessWrong, Reaches
  <2> QED BY <1>1, <2>1 DEF TypeOK, GuessWrong, pageVars, userVars
<1>2. ASSUME NEW s, NEW a \in Addresses, NEW id, NEW pin, AutoAccept(s, a, id, pin)
      PROVE  TypeOK'
  <2>1. share' \in Shares
    BY <1>2, ShareChanges DEF TypeOK, AutoAccept, Reaches, SessionStates
  <2>2. request' \in [Connections -> Requests]
    BY <1>2, ReplaceIsRequests DEF TypeOK, AutoAccept
  <2> QED BY <1>2, <2>1, <2>2 DEF TypeOK, AutoAccept, pageVars
<1>3. ASSUME NEW c \in Connections, NEW s \in Servers, NEW a \in Addresses, NEW id, NEW pin,
             Ask(c, s, a, id, pin)
      PROVE  TypeOK'
  <2>1. share' \in Shares
    BY <1>3, ShareChanges DEF TypeOK, Ask, Reaches, SessionStates
  <2>2. request' \in [Connections -> Requests]
    <3>1. [at |-> "waiting", address |-> a, of |-> s, replaced |-> FALSE] \in Requests
      BY DEF Requests
    <3> QED BY <1>3, <3>1, ReplaceIsRequests DEF TypeOK, Ask
  <2> QED BY <1>3, <2>1, <2>2 DEF TypeOK, Ask, pageVars
<1>4. ASSUME NEW c \in Connections, NEW s \in Servers, NEW a \in Addresses, NEW id, Download(c, s, a, id)
      PROVE  TypeOK'
  <2>1. [at |-> "streaming", address |-> a, of |-> s, replaced |-> FALSE] \in Requests
    BY DEF Requests
  <2> QED BY <1>4, <2>1 DEF TypeOK, Download, serverVars, pageVars, userVars
<1>5. ASSUME NEW a \in Addresses, NEW accepted \in BOOLEAN, Respond(a, accepted)
      PROVE  TypeOK'
  <2>1. share' \in Shares
    BY <1>5, ShareChanges DEF TypeOK, Respond, ShowsControls, SessionStates
  <2> QED BY <1>5, <2>1 DEF TypeOK, Respond, pageVars
<1>6. ASSUME NEW c \in Connections, DownloadEnds(c)
      PROVE  TypeOK'
  BY <1>6 DEF TypeOK, DownloadEnds, serverVars, pageVars, userVars
<1> QED BY <1>1, <1>2, <1>3, <1>4, <1>5, <1>6 DEF Visit

LEMMA TypeStep ==
    ASSUME TypeOK, [Next]_vars
    PROVE  TypeOK'
<1>1. CASE PortIsTaken
  BY <1>1 DEF TypeOK, PortIsTaken, serverVars, pageVars, userVars
<1>2. CASE UNCHANGED vars
  BY <1>2 DEF TypeOK, vars, serverVars, pageVars, userVars
<1> QED BY <1>1, <1>2, TaskTypes, TapTypes, PageTypes, VisitTypes, Constants DEF Next

\* Whatever visitors and answers do, they leave the server, its operations, the
\* page and the choices of the share alone.
LEMMA VisitsKeepServer ==
    ASSUME TypeOK,
           \/ Visit
           \/ \E a \in Addresses, accepted \in BOOLEAN : Respond(a, accepted)
           \/ \E c \in Connections : DownloadEnds(c)
    PROVE  /\ UNCHANGED <<sockets, secure, state, task, pageVars, wish>>
           /\ \/ share' = share
              \/ share' \in Shares /\ share'.auto = share.auto /\ share'.pin = share.pin
<1>1. ASSUME NEW s, NEW a \in Addresses, NEW id, NEW pin, GuessWrong(s, a, id, pin)
      PROVE  share' \in Shares /\ share'.auto = share.auto /\ share'.pin = share.pin
  BY <1>1, ShareChanges, WrongGuessIsCounted DEF GuessWrong, Reaches, TypeOK, Shares
<1>2. ASSUME NEW s, NEW a \in Addresses, NEW id, NEW pin, AutoAccept(s, a, id, pin)
      PROVE  share' \in Shares /\ share'.auto = share.auto /\ share'.pin = share.pin
  <2>1. share \in Shares /\ share' = [share EXCEPT !.sessions = PutSession(a, "active")]
    BY <1>2 DEF AutoAccept, Reaches, TypeOK
  <2> QED BY <2>1, ShareChanges DEF Shares, SessionStates
<1>3. ASSUME NEW c \in Connections, NEW s, NEW a \in Addresses, NEW id, NEW pin, Ask(c, s, a, id, pin)
      PROVE  share' \in Shares /\ share'.auto = share.auto /\ share'.pin = share.pin
  <2>1. share \in Shares /\ share' = [share EXCEPT !.sessions = PutSession(a, c)]
    BY <1>3 DEF Ask, Reaches, TypeOK
  <2> QED BY <2>1, ShareChanges DEF Shares, SessionStates
<1>4. ASSUME NEW a \in Addresses, NEW accepted \in BOOLEAN, Respond(a, accepted)
      PROVE  share' \in Shares /\ share'.auto = share.auto /\ share'.pin = share.pin
  <2>1. share \in Shares
        /\ share' = [share EXCEPT !.sessions[a] = IF accepted THEN "active" ELSE None]
    BY <1>4 DEF Respond, ShowsControls, TypeOK
  <2> QED BY <2>1, ShareChanges DEF Shares, SessionStates
<1>5. UNCHANGED <<sockets, secure, state, task, pageVars, wish>>
  BY DEF Visit, GuessWrong, AutoAccept, Ask, Download, Respond, DownloadEnds, serverVars, userVars
<1>6. ASSUME NEW c \in Connections, (\E s, a, id : Download(c, s, a, id)) \/ DownloadEnds(c)
      PROVE  share' = share
  BY <1>6 DEF Download, DownloadEnds, serverVars
<1> QED BY <1>1, <1>2, <1>3, <1>4, <1>5, <1>6 DEF Visit

-----------------------------------------------------------------------------
(* Sockets *)

\* At most one socket listens, and if the app knows a server, no other one does.  A server
\* it knows has its socket still, listening or being closed; a share needs a server.
SocketInv ==
    /\ \A s, z \in Servers : sockets[s] = "listening" /\ sockets[z] = "listening" => s = z
    /\ \A s \in Servers : sockets[s] = "listening" => state \in {s, None}
    /\ state # None => sockets[state] # "free"
    /\ share # None => state # None

\* A request that reaches a server reaches the one the app knows.
LEMMA ReachesKnown ==
    ASSUME SocketInv, NEW s \in Servers, Reaches(s)
    PROVE  state = s
BY DEF SocketInv, Reaches

\* Only the end of a close or a bind assigns the state, and only a bind opens a socket.
LEMMA OthersOpenNothing ==
    ASSUME TypeOK, [Next]_vars
    PROVE  \/ \E s \in Servers : SocketCloses(s) \/ \E t \in AllTasks : Bound(t, s)
           \/ state' = state /\ Listening' \subseteq Listening
<1>1. ASSUME NEW t \in AllTasks, NEW kind \in {"stop", "restart"}, NEW enc \in BOOLEAN,
             Stops(t, kind, enc)
      PROVE  Listening' \subseteq Listening
  <2>1. UNCHANGED sockets \/ (state # None /\ sockets' = [sockets EXCEPT ![state] = "closing"])
    BY <1>1, StopsCases
  <2> QED BY <2>1 DEF Listening, TypeOK
<1>2. ASSUME NEW t \in Tasks, TapStop(t) \/ TapRestart(t) \/ PrepareQrUpload(t)
      PROVE  state' = state /\ Listening' \subseteq Listening
  BY <1>1, <1>2, WebShareAssumption, Constants DEF TapStop, TapRestart, PrepareQrUpload
<1>3. CASE Wake
  <2>1. NextProtocol \in BOOLEAN
    BY WebShareAssumption DEF NextProtocol, TypeOK
  <2> QED BY <1>1, <1>3, <2>1, Constants DEF Wake
<1>4. CASE UNCHANGED <<sockets, state>>
  BY <1>4 DEF Listening
<1>5. CASE \/ Visit
           \/ \E a \in Addresses, accepted \in BOOLEAN : Respond(a, accepted)
           \/ \E c \in Connections : DownloadEnds(c)
  BY <1>4, <1>5, VisitsKeepServer
<1>6. ASSUME NEW t \in AllTasks, BindFails(t) \/ TapStart(t)
      PROVE  state' = state /\ Listening' \subseteq Listening
  BY <1>6 DEF BindFails, StateAfterError, TapStart, Listening, serverVars
<1>7. CASE \/ PortIsTaken \/ OpenPage \/ ToggleEncryption \/ WantToLeave \/ Back \/ Pop
           \/ UNCHANGED vars \/ \E c \in Choices : Choose(c)
  BY <1>4, <1>7 DEF PortIsTaken, OpenPage, ToggleEncryption, WantToLeave, Back, Pop, Choose, vars, serverVars
<1> QED BY <1>2, <1>3, <1>5, <1>6, <1>7, Constants DEF Next

\* Only the end of a close or a bind opens or frees a socket or assigns the state.
LEMMA SocketStep ==
    ASSUME TypeOK, SocketInv, [Next]_vars
    PROVE  SocketInv'
<1>1. ASSUME NEW s \in Servers, SocketCloses(s)
      PROVE  SocketInv'
  BY <1>1 DEF SocketInv, SocketCloses, TypeOK
<1>2. ASSUME NEW t \in AllTasks, NEW s \in Servers, Bound(t, s)
      PROVE  SocketInv'
  <2>1. \A z \in Servers : sockets[z] # "listening"
    BY <1>2 DEF Bound, Listening
  <2>2. /\ state' = s /\ s # None
        /\ \A z \in Servers : sockets'[z] = IF z = s THEN "listening" ELSE sockets[z]
    BY <1>2, Constants DEF Bound, TypeOK
  <2> QED BY <2>1, <2>2 DEF SocketInv
<1>3. ASSUME NEW t \in AllTasks, NEW kind \in {"stop", "restart"}, NEW enc \in BOOLEAN,
             Stops(t, kind, enc), UNCHANGED <<state, share>>
      PROVE  SocketInv'
  <2>1. UNCHANGED sockets \/ (state # None /\ sockets' = [sockets EXCEPT ![state] = "closing"])
    BY <1>3, StopsCases
  <2> QED BY <1>3, <2>1 DEF SocketInv, TypeOK
<1>4. ASSUME NEW t \in Tasks, TapStop(t) \/ TapRestart(t) \/ PrepareQrUpload(t)
      PROVE  SocketInv'
  BY <1>3, <1>4, WebShareAssumption, Constants DEF TapStop, TapRestart, PrepareQrUpload
<1>5. CASE Wake
  <2>1. NextProtocol \in BOOLEAN
    BY WebShareAssumption DEF NextProtocol, TypeOK
  <2> QED BY <1>3, <1>5, <2>1, Constants DEF Wake
<1>6. CASE UNCHANGED <<sockets, state, share>>
  BY <1>6 DEF SocketInv
<1>7. ASSUME NEW c \in Choices, Choose(c)
      PROVE  SocketInv'
  BY <1>7 DEF SocketInv, Choose, ShowsControls
<1>8. CASE \/ Visit
           \/ \E a \in Addresses, accepted \in BOOLEAN : Respond(a, accepted)
           \/ \E c \in Connections : DownloadEnds(c)
  <2>1. share # None \/ share' = share
    BY <1>8 DEF Visit, GuessWrong, AutoAccept, Ask, Download, Reaches, Respond, ShowsControls,
                DownloadEnds, serverVars
  <2> QED BY <1>8, <2>1, VisitsKeepServer DEF SocketInv
<1>9. ASSUME NEW t \in AllTasks, BindFails(t) \/ TapStart(t)
      PROVE  SocketInv'
  BY <1>6, <1>9 DEF BindFails, StateAfterError, TapStart, serverVars
<1>10. CASE PortIsTaken \/ OpenPage \/ ToggleEncryption \/ WantToLeave \/ Back \/ Pop \/ UNCHANGED vars
  BY <1>6, <1>10
     DEF PortIsTaken, OpenPage, ToggleEncryption, WantToLeave, Back, Pop, vars, serverVars
<1> QED BY <1>1, <1>2, <1>4, <1>5, <1>7, <1>8, <1>9, <1>10, Constants DEF Next

-----------------------------------------------------------------------------
(* The page *)

\* The page has no operation under way when it is closed, runs or shows an error; when it
\* runs, its server listens, unless it has been lost; and what it starts is what the user
\* has chosen.
PageInv ==
    /\ page \in {"running", "closed", "error"} => task[Page] = Idle
    /\ page = "running" /\ ~Lost => sockets[state] = "listening"
    /\ PageShowsShare
    /\ page \in {"closed", "initializing"} => before = wish
    /\ page = "initializing" /\ task[Page].at \in {"closing", "binding"} => task[Page].secure = encrypted

\* What the page has, as one fact.
LEMMA PageRuns ==
    ASSUME SocketInv, PageInv, page = "running", share # None
    PROVE  /\ ~Lost /\ state # None /\ sockets[state] = "listening" /\ secure[state] = encrypted
           /\ [auto |-> share.auto, pin |-> share.pin] = wish
BY DEF PageInv, PageShowsShare, SocketInv, Lost

LEMMA PageStep ==
    ASSUME TypeOK, SocketInv, PageInv, [Next]_vars
    PROVE  PageInv'
<1>1. ASSUME NEW s \in Servers, SocketCloses(s)
      PROVE  PageInv'
  <2>1. page = "running" => Lost'
    <3>1. CASE page = "running" /\ ~Lost
      <4>1. state \in Servers /\ sockets[state] = "listening"
        BY <3>1 DEF PageInv, PageShowsShare, TypeOK
      <4>2. state' = None /\ sockets'[state] = "listening"
        BY <1>1, <4>1 DEF SocketCloses, TypeOK
      <4> QED BY <4>1, <4>2 DEF Lost, Listening
    <3>2. CASE Lost
      <4>1. PICK z \in Servers : sockets[z] = "listening"
        BY <3>2 DEF Lost, Listening
      <4>2. state' = None /\ sockets'[z] = "listening"
        BY <1>1, <4>1 DEF SocketCloses, TypeOK
      <4> QED BY <4>2 DEF Lost, Listening
    <3> QED BY <3>1, <3>2
  <2>2. task'[Page] = task[Page] \/ (task[Page].at = "closing" /\ task'[Page] = AfterStop(task[Page]))
    BY <1>1, Constants DEF SocketCloses
  <2>3. task[Page] \in Operations
    BY Constants DEF TypeOK
  <2>4. UNCHANGED <<pageVars, wish>>
    BY <1>1 DEF SocketCloses
  <2>5. PageShowsShare'
    BY <2>1, <2>4 DEF PageShowsShare, pageVars
  <2> QED BY <2>1, <2>2, <2>3, <2>4, <2>5, AfterStopIsTask DEF PageInv, pageVars, Idle
<1>2. ASSUME NEW t \in AllTasks, NEW s \in Servers, Bound(t, s)
      PROVE  PageInv'
  <2>1. page # "running"
    <3>1. \A z \in Servers : sockets[z] # "listening"
      BY <1>2 DEF Bound, Listening
    <3> QED BY <3>1 DEF PageInv, PageShowsShare, Lost, Listening, TypeOK
  <2>2. CASE t # Page
    <3>1. page' = page /\ task'[Page] = task[Page]
      BY <1>2, <2>2, Constants DEF Bound, TypeOK
    <3> QED BY <1>2, <2>1, <3>1 DEF Bound, PageInv, PageShowsShare
  <2>3. CASE t = Page /\ page = "initializing"
    <3>1. /\ page' = "running" /\ share' = NewShare(before) /\ task'[Page] = Idle
          /\ state' = s /\ sockets'[s] = "listening" /\ secure'[s] = task[Page].secure
      BY <1>2, <2>3, Constants DEF Bound, TypeOK
    <3>2. before = wish /\ task[Page].secure = encrypted /\ UNCHANGED <<encrypted, wish>>
      BY <1>2, <2>3 DEF Bound, PageInv
    <3>4. state' # None
      BY <3>1, Constants
    <3>3. share' # None /\ [auto |-> share'.auto, pin |-> share'.pin] = wish
      BY <3>1, <3>2, NewShareIsEmpty DEF TypeOK, Choices
    <3> QED BY <3>1, <3>2, <3>3, <3>4 DEF PageInv, PageShowsShare
  <2>4. CASE t = Page /\ page = "stopping"
    BY <1>2, <2>4 DEF Bound, PageInv, PageShowsShare
  <2> QED BY <1>2, <2>2, <2>3, <2>4 DEF Bound
<1>3. ASSUME NEW t \in AllTasks, BindFails(t)
      PROVE  PageInv'
  <2>1. CASE t = Page
    <3>1. page \in {"initializing", "stopping"}
      BY <1>3, <2>1 DEF BindFails, PageInv, Idle, TypeOK
    <3> QED BY <1>3, <2>1, <3>1, Constants DEF BindFails, PageInv, PageShowsShare, TypeOK
  <2>2. CASE t # Page
    <3>1. task'[Page] = task[Page] /\ page' = page
      BY <1>3, <2>2, Constants DEF BindFails, TypeOK
    <3> QED BY <1>3, <3>1 DEF BindFails, StateAfterError, PageInv, PageShowsShare, Lost, Listening, userVars
  <2> QED BY <2>1, <2>2
<1>4. ASSUME NEW t \in Tasks, TapStart(t) \/ TapStop(t) \/ TapRestart(t) \/ PrepareQrUpload(t)
      PROVE  PageInv'
  <2>1. page = "closed" /\ page' = "closed"
    BY <1>4 DEF TapStart, TapStop, TapRestart, PrepareQrUpload, pageVars
  <2>2. \E op : task' = [task EXCEPT ![t] = op]
    BY <1>4 DEF TapStart, TapStop, TapRestart, PrepareQrUpload, Stops
  <2>3. UNCHANGED <<before, wish>>
    BY <1>4 DEF TapStart, TapStop, TapRestart, PrepareQrUpload, pageVars, userVars
  <2> QED BY <2>1, <2>2, <2>3, Constants DEF PageInv, PageShowsShare, TypeOK
<1>5. CASE Wake
  <2>1. page \in {"initializing", "stopping"}
    BY <1>5 DEF Wake, PageInv, Idle, TypeOK
  <2>2. NextProtocol \in BOOLEAN /\ (page = "initializing" => NextProtocol = encrypted)
    BY WebShareAssumption DEF NextProtocol, TypeOK
  <2>3. PICK op \in Operations :
          task' = [task EXCEPT ![Page] = op] /\ (op.at # "idle" => op.secure = NextProtocol)
    BY <1>5, <2>2, StopsCases, Constants DEF Wake
  <2>4. task'[Page] = op
    BY <2>3, Constants DEF TypeOK
  <2> QED BY <1>5, <2>1, <2>2, <2>3, <2>4 DEF Wake, PageInv, PageShowsShare, pageVars, userVars
<1>6. CASE OpenPage \/ ToggleEncryption \/ Back
  <2>1. task'[Page].at = "sleeping" /\ page' \in {"initializing", "stopping"}
    BY <1>6, Constants DEF OpenPage, ToggleEncryption, Back, Idle, TypeOK
  <2>2. page' = "initializing" => before' = wish'
    BY <1>6, PageRuns DEF OpenPage, ToggleEncryption, ShowsControls, Back, PageInv, userVars
  <2> QED BY <2>1, <2>2 DEF PageInv, PageShowsShare
<1>7. CASE Pop
  BY <1>7, Constants DEF Pop, PageInv, PageShowsShare, TypeOK
<1>8. ASSUME NEW c \in Choices, Choose(c)
      PROVE  PageInv'
  <2>1. share \in Shares /\ page = "running"
    BY <1>8 DEF Choose, ShowsControls, TypeOK
  <2>2. share' # None
    BY <1>8, <2>1, ShareChanges, ShareAssumption DEF Choose
  <2>3. [auto |-> share'.auto, pin |-> share'.pin] = c
    BY <1>8, <2>1 DEF Choose, Shares, Choices
  <2>4. UNCHANGED <<sockets, secure, state, task, page, encrypted>> /\ wish' = c
    BY <1>8 DEF Choose, pageVars
  <2>5. sockets[state] = "listening" /\ state # None /\ secure[state] = encrypted
    BY <1>8, <2>1, PageRuns DEF Choose, ShowsControls
  <2>6. PageShowsShare'
    BY <2>2, <2>3, <2>4, <2>5 DEF PageShowsShare
  <2> QED BY <2>1, <2>4, <2>5, <2>6 DEF PageInv
<1>9. CASE PortIsTaken \/ WantToLeave \/ UNCHANGED vars
  BY <1>9 DEF PortIsTaken, WantToLeave, PageInv, PageShowsShare, Lost, Listening, vars, serverVars,
              pageVars, userVars
<1>10. CASE \/ Visit
            \/ \E a \in Addresses, accepted \in BOOLEAN : Respond(a, accepted)
            \/ \E c \in Connections : DownloadEnds(c)
  BY <1>10, VisitsKeepServer, ShareAssumption DEF PageInv, PageShowsShare, Lost, Listening, pageVars
<1> QED BY <1>1, <1>2, <1>3, <1>4, <1>5, <1>6, <1>7, <1>8, <1>9, <1>10, Constants DEF Next

-----------------------------------------------------------------------------
(* Requests and prompts *)

\* An open request is at a server that listens.
OpenInv ==
    \A c \in Connections :
        \/ request[c] = Closed
        \/ /\ request[c].at \in {"waiting", "streaming"} /\ request[c].of \in Servers
           /\ sockets[request[c].of] = "listening"

\* Whoever has an active session was the last that the user agreed to.
ConsentInv == share # None => \A a \in Addresses : share.sessions[a] = "active" => a \in consent

RequestInv == OpenInv /\ PromptsAreLive /\ ConsentInv

\* When all requests are closed and there is no share, there is nothing to prompt for.
LEMMA NothingOpen ==
    ASSUME \A c \in Connections : request[c] = Closed,
           share = None \/ \A a \in Addresses : share.sessions[a] = None
    PROVE  RequestInv
<1>1. OpenInv
  BY DEF OpenInv
<1>2. ConsentInv
  BY Constants DEF ConsentInv
<1>3. \A c \in Connections : request[c].at # "waiting"
  BY DEF Closed
<1>4. share # None => \A a \in Addresses : share.sessions[a] \notin Connections
  BY Constants
<1>5. PromptsAreLive
  BY <1>3, <1>4 DEF PromptsAreLive
<1> QED BY <1>1, <1>2, <1>5 DEF RequestInv

LEMMA NothingOpenNext ==
    ASSUME \A c \in Connections : request'[c] = Closed,
           share' = None \/ \A a \in Addresses : share'.sessions[a] = None
    PROVE  RequestInv'
<1>1. OpenInv'
  BY DEF OpenInv
<1>2. ConsentInv'
  BY Constants DEF ConsentInv
<1>3. \A c \in Connections : request'[c].at # "waiting"
  BY DEF Closed
<1>4. share' # None => \A a \in Addresses : share'.sessions[a] \notin Connections
  BY Constants
<1>5. PromptsAreLive'
  BY <1>3, <1>4 DEF PromptsAreLive
<1> QED BY <1>1, <1>2, <1>5 DEF RequestInv

\* Nothing is open without a server that listens.
LEMMA ClosedWithServer ==
    ASSUME OpenInv, Listening = {}
    PROVE  \A c \in Connections : request[c] = Closed
BY DEF OpenInv, Listening

\* What PromptsAreLive says of one prompt ...
LEMMA Prompt ==
    ASSUME PromptsAreLive, share # None, sockets[state] = "listening",
           NEW a \in Addresses, share.sessions[a] \in Connections
    PROVE  /\ request[share.sessions[a]].at = "waiting" /\ request[share.sessions[a]].address = a
           /\ request[share.sessions[a]].of = state /\ ~request[share.sessions[a]].replaced
BY DEF PromptsAreLive

\* ... and of one request.
LEMMA Prompted ==
    ASSUME PromptsAreLive, ~Lost, NEW c \in Connections, request[c].at = "waiting", ~request[c].replaced
    PROVE  share # None /\ share.sessions[request[c].address] = c
BY DEF PromptsAreLive

\* The operations: the requests of a server end with it, and so do its prompts.
LEMMA RequestStops ==
    ASSUME TypeOK, SocketInv, RequestInv, NEW t \in AllTasks, NEW kind \in {"stop", "restart"},
           NEW enc \in BOOLEAN, Stops(t, kind, enc), UNCHANGED <<state, share, consent>>
    PROVE  RequestInv'
<1>1. CASE state = None /\ UNCHANGED <<sockets, request>>
  BY <1>1 DEF RequestInv, OpenInv, PromptsAreLive, ConsentInv, Lost, Listening
<1>2. CASE /\ state # None /\ sockets' = [sockets EXCEPT ![state] = "closing"]
           /\ request' = CutRequests(state)
  <2>1. \A c \in Connections : request'[c] = Closed
    <3>1. \A c \in Connections : request[c] = Closed \/ request[c].of = state
      BY <1>2 DEF RequestInv, OpenInv, SocketInv
    <3> QED BY <1>2, <3>1 DEF CutRequests
  <2>2. sockets'[state'] # "listening"
    BY <1>2 DEF TypeOK
  <2>3. OpenInv' /\ ConsentInv'
    BY <2>1 DEF RequestInv, OpenInv, ConsentInv
  <2>4. PromptsAreLive'
    BY <2>1, <2>2 DEF PromptsAreLive, Closed
  <2> QED BY <2>3, <2>4 DEF RequestInv
<1>3. PICK op \in Operations :
          \/ state = None /\ UNCHANGED <<sockets, request>>
          \/ /\ state # None /\ sockets' = [sockets EXCEPT ![state] = "closing"]
             /\ request' = CutRequests(state)
  BY StopsCases
<1> QED BY <1>1, <1>2, <1>3

\* Without a change of sessions and requests nothing changes.
LEMMA RequestStutter ==
    ASSUME RequestInv, UNCHANGED <<sockets, state, request, consent>>,
           share' = share \/ (share # None /\ share' # None /\ share'.sessions = share.sessions)
    PROVE  RequestInv'
<1>1. OpenInv' /\ ConsentInv'
  BY DEF RequestInv, OpenInv, ConsentInv
<1>2. Lost' <=> Lost
  BY DEF Lost, Listening
<1>3. PromptsAreLive'
  BY <1>2 DEF RequestInv, PromptsAreLive
<1> QED BY <1>1, <1>3 DEF RequestInv

\* A request from a takes over the session of its address, accepted or as a prompt.
Takes(s, a, v) ==
    /\ Reaches(s) /\ share' = [share EXCEPT !.sessions = PutSession(a, v)]
    /\ \/ v = "active" /\ request' = Replace(a) /\ consent' = consent \cup {a}
       \/ /\ v \in Connections /\ request[v] = Closed
          /\ request' = [Replace(a) EXCEPT ![v] =
                            [at |-> "waiting", address |-> a, of |-> s, replaced |-> FALSE]]
          /\ consent' = consent \ {a}
    /\ UNCHANGED <<sockets, state>>

LEMMA SessionTaken ==
    ASSUME TypeOK, SocketInv, RequestInv, NEW s \in Servers, NEW a \in Addresses,
           NEW v \in {"active"} \cup Connections, Takes(s, a, v)
    PROVE  RequestInv'
<1>1. /\ share \in Shares /\ share # None /\ state = s /\ s # None /\ sockets[s] = "listening"
      /\ UNCHANGED <<sockets, state>>
  BY ReachesKnown DEF Takes, Reaches, TypeOK
<1>l. ~Lost
  BY <1>1 DEF Lost
<1>2. share' \in Shares /\ share' # None
  BY <1>1, ShareChanges, ShareAssumption, ZenonT(40) DEF Takes, SessionStates
<1>3. share'.sessions = [share.sessions EXCEPT ![a] = v] /\ share.sessions \in [Addresses -> SessionStates]
  BY <1>1 DEF Takes, Shares, PutSession
<1>4. share'.sessions[a] = v /\ \A b \in Addresses : b # a => share'.sessions[b] = share.sessions[b]
  BY <1>3
<1>5. \A c \in Connections :
         /\ c # v /\ c = share.sessions[a] => request'[c] = [request[c] EXCEPT !.replaced = TRUE]
         /\ c # v /\ c # share.sessions[a] => request'[c] = request[c]
         /\ c = v => /\ request'[c].at = "waiting" /\ request'[c].address = a
                     /\ request'[c].of = s /\ ~request'[c].replaced
  <2>1. DOMAIN Replace(a) = Connections
    BY DEF Replace
  <2>2. v \in Connections => request'[v] = [at |-> "waiting", address |-> a, of |-> s, replaced |-> FALSE]
    BY <2>1, Constants DEF Takes
  <2>3. \A c \in Connections : c # v => request'[c] = Replace(a)[c]
    BY <2>1 DEF Takes
  <2>4. \A c \in Connections :
           Replace(a)[c] = IF c = share.sessions[a] THEN [request[c] EXCEPT !.replaced = TRUE] ELSE request[c]
    BY DEF Replace
  <2> QED BY <2>2, <2>3, <2>4
<1>u. v \in Connections => request[v] = Closed
  BY Constants DEF Takes
<1>6. ASSUME NEW b \in Addresses, b # a, share.sessions[b] \in Connections
      PROVE  /\ share.sessions[b] # v /\ share.sessions[b] # share.sessions[a]
             /\ request[share.sessions[b]].at = "waiting"
  <2>1. request[share.sessions[b]].at = "waiting" /\ request[share.sessions[b]].address = b
    BY <1>1, <1>6, Prompt DEF RequestInv
  <2>2. share.sessions[b] # v
    BY <1>u, <1>6, <2>1 DEF Closed
  <2>3. share.sessions[a] \in Connections => request[share.sessions[a]].address = a
    BY <1>1, Prompt DEF RequestInv
  <2> QED BY <1>6, <2>1, <2>2, <2>3
<1>7. OpenInv'
  <2> SUFFICES ASSUME NEW c \in Connections
               PROVE  (\/ request[c] = Closed
                       \/ /\ request[c].at \in {"waiting", "streaming"} /\ request[c].of \in Servers
                          /\ sockets[request[c].of] = "listening")'
    BY DEF OpenInv
  <2>1. CASE c # v /\ c = share.sessions[a]
    <3>1. request[c].at = "waiting" /\ request[c].of = s
      BY <1>1, <2>1, Prompt DEF RequestInv
    <3>2. request[c] \in Requests
      BY DEF TypeOK
    <3> QED BY <1>1, <1>5, <2>1, <3>1, <3>2 DEF Requests
  <2>2. CASE c # v /\ c # share.sessions[a]
    <3>1. request'[c] = request[c] /\ sockets' = sockets
      BY <1>1, <1>5, <2>2
    <3>2. \/ request[c] = Closed
          \/ /\ request[c].at \in {"waiting", "streaming"} /\ request[c].of \in Servers
             /\ sockets[request[c].of] = "listening"
      BY DEF RequestInv, OpenInv
    <3> QED BY <3>1, <3>2
  <2>3. CASE c = v
    <3>1. request'[c].at = "waiting" /\ request'[c].of = s /\ sockets'[s] = "listening"
      BY <1>1, <1>5, <2>3
    <3> QED BY <3>1
  <2> QED BY <2>1, <2>2, <2>3
<1>8. PromptsAreLive'
  <2>1. ASSUME NEW b \in Addresses, share'.sessions[b] \in Connections
        PROVE  LET r == request'[share'.sessions[b]]
               IN  r.at = "waiting" /\ r.address = b /\ r.of = state' /\ ~r.replaced
    <3>1. CASE b = a
      BY <1>1, <1>4, <1>5, <2>1, <3>1
    <3>2. CASE b # a
      <4>1. request'[share'.sessions[b]] = request[share.sessions[b]]
        BY <1>4, <1>5, <1>6, <2>1, <3>2
      <4>2. share.sessions[b] \in Connections
        BY <1>4, <2>1, <3>2
      <4> QED BY <1>1, <4>1, <4>2, Prompt DEF RequestInv
    <3> QED BY <3>1, <3>2
  <2>2. ASSUME NEW c \in Connections, request'[c].at = "waiting", ~request'[c].replaced
        PROVE  share'.sessions[request'[c].address] = c
    <3>1. CASE c = v
      BY <1>4, <1>5, <3>1
    <3>2. CASE c # v /\ c = share.sessions[a]
      BY <1>5, <2>2, <3>2 DEF TypeOK, Requests
    <3>3. CASE c # v /\ c # share.sessions[a]
      <4>1. request'[c] = request[c]
        BY <1>5, <3>3
      <4>2. share.sessions[request[c].address] = c
        BY <1>l, <2>2, <4>1, Prompted DEF RequestInv
      <4>3. request[c].address # a
        BY <3>3, <4>2
      <4> QED BY <1>3, <4>1, <4>2, <4>3
    <3> QED BY <3>1, <3>2, <3>3
  <2> QED BY <1>2, <2>1, <2>2 DEF PromptsAreLive
<1>9. ConsentInv'
  <2>1. v = "active" => a \in consent'
    BY Constants DEF Takes
  <2>2. consent \ {a} \subseteq consent'
    BY DEF Takes
  <2> QED BY <1>1, <1>4, <2>1, <2>2 DEF RequestInv, ConsentInv
<1> QED BY <1>7, <1>8, <1>9 DEF RequestInv

\* The user answers a prompt.
LEMMA Responded ==
    ASSUME TypeOK, SocketInv, PageInv, RequestInv, NEW a \in Addresses, NEW accepted \in BOOLEAN,
           Respond(a, accepted)
    PROVE  RequestInv'
<1> DEFINE c == share.sessions[a]
           answer == IF accepted THEN "active" ELSE None
<1>1. share \in Shares /\ sockets[state] = "listening" /\ ~Lost /\ c \in Connections
  BY PageRuns DEF Respond, ShowsControls, TypeOK
<1>2. share' \in Shares /\ share' # None /\ answer \in {None, "active"}
  BY <1>1, ShareChanges, ShareAssumption, ZenonT(40) DEF Respond, SessionStates
<1>3. share'.sessions = [share.sessions EXCEPT ![a] = answer] /\ share.sessions \in [Addresses -> SessionStates]
  BY <1>1 DEF Shares, Respond
<1>4. share'.sessions[a] = answer /\ \A b \in Addresses : b # a => share'.sessions[b] = share.sessions[b]
  BY <1>3
<1>5. /\ request' = [request EXCEPT ![c] = Closed] /\ UNCHANGED <<sockets, state>>
      /\ consent' = IF accepted THEN consent \cup {a} ELSE consent \ {a}
      /\ request \in [Connections -> Requests]
  BY DEF Respond, TypeOK
<1> HIDE DEF answer
<1>6. OpenInv'
  BY <1>1, <1>5 DEF RequestInv, OpenInv
<1>7. PromptsAreLive'
  <2>1. ASSUME NEW b \in Addresses, share'.sessions[b] \in Connections
        PROVE  LET r == request'[share'.sessions[b]]
               IN  r.at = "waiting" /\ r.address = b /\ r.of = state' /\ ~r.replaced
    <3>1. b # a
      BY <1>2, <1>4, <2>1, Constants
    <3>2. share.sessions[b] # c
      <4>1. share # None /\ share.sessions[b] \in Connections
        BY <1>1, <1>4, <2>1, <3>1, ShareAssumption
      <4>2. request[share.sessions[b]].address = b /\ request[c].address = a
        BY <1>1, <4>1, Prompt DEF RequestInv
      <4> QED BY <3>1, <4>2
    <3>3. share # None /\ share'.sessions[b] = share.sessions[b] /\ share.sessions[b] \in Connections
      BY <1>1, <1>4, <2>1, <3>1, ShareAssumption
    <3>4. request'[share.sessions[b]] = request[share.sessions[b]]
      BY <1>1, <1>5, <3>2, <3>3
    <3> QED BY <1>1, <1>5, <3>3, <3>4, Prompt DEF RequestInv
  <2>2. ASSUME NEW d \in Connections, request'[d].at = "waiting", ~request'[d].replaced
        PROVE  share'.sessions[request'[d].address] = d
    <3>1. d # c
      BY <1>1, <1>5, <2>2 DEF Closed
    <3>2. request'[d] = request[d] /\ share.sessions[request[d].address] = d
      BY <1>1, <1>5, <2>2, <3>1, Prompted DEF RequestInv
    <3> QED BY <1>3, <3>1, <3>2
  <2> QED BY <1>2, <2>1, <2>2 DEF PromptsAreLive
<1>8. ConsentInv'
  <2>1. answer = "active" => accepted
    BY Constants, WebShareAssumption DEF answer
  <2> QED BY <1>1, <1>2, <1>4, <1>5, <2>1, ShareAssumption DEF RequestInv, ConsentInv
<1> QED BY <1>6, <1>7, <1>8 DEF RequestInv

\* A download begins or ends; prompts wait on other connections.
LEMMA Downloaded ==
    ASSUME TypeOK, SocketInv, RequestInv, NEW c \in Connections,
           (\E s \in Servers, a \in Addresses, id \in Addresses \cup {None} : Download(c, s, a, id))
           \/ DownloadEnds(c)
    PROVE  RequestInv'
<1>1. request[c].at # "waiting"
  BY DEF Download, IsNext, DownloadEnds, Closed
<1>2. /\ UNCHANGED <<sockets, state, share, consent>> /\ DOMAIN request = Connections
      /\ \A d \in Connections : d # c => request'[d] = request[d]
  BY DEF Download, DownloadEnds, serverVars, userVars, TypeOK
<1>3. \/ request'[c] = Closed
      \/ /\ request'[c].at = "streaming" /\ request'[c].of \in Servers
         /\ sockets[request'[c].of] = "listening"
  BY Constants DEF Download, DownloadEnds, Reaches, TypeOK
<1>l. Lost' <=> Lost
  BY <1>2 DEF Lost, Listening
<1>4. OpenInv'
  BY <1>2, <1>3 DEF RequestInv, OpenInv
<1>5. PromptsAreLive'
  BY <1>1, <1>2, <1>3, <1>l DEF RequestInv, PromptsAreLive, Closed
<1> QED BY <1>2, <1>4, <1>5 DEF RequestInv, ConsentInv

LEMMA RequestStep ==
    ASSUME TypeOK, SocketInv, PageInv, RequestInv, [Next]_vars
    PROVE  RequestInv'
<1>1. ASSUME NEW s \in Servers, SocketCloses(s)
      PROVE  RequestInv'
  <2>1. /\ share' = None /\ state' = None /\ UNCHANGED request
        /\ \A z \in Servers : sockets[z] = "listening" => sockets'[z] = "listening"
    BY <1>1 DEF SocketCloses, TypeOK
  <2>2. OpenInv' /\ ConsentInv'
    BY <2>1 DEF RequestInv, OpenInv, ConsentInv
  <2>3. \A c \in Connections : request'[c].at = "waiting" => Lost'
    BY <2>1, <2>2 DEF OpenInv, Lost, Listening, Closed
  <2>4. PromptsAreLive'
    BY <2>1, <2>3 DEF PromptsAreLive
  <2> QED BY <2>2, <2>4 DEF RequestInv
<1>2. ASSUME NEW t \in AllTasks, NEW s \in Servers, Bound(t, s)
      PROVE  RequestInv'
  <2>1. \A c \in Connections : request[c] = Closed
    BY <1>2, ClosedWithServer DEF Bound, RequestInv
  <2>2. share' = None \/ \A a \in Addresses : share'.sessions[a] = None
    BY <1>2, NewShareIsEmpty DEF Bound, TypeOK
  <2> QED BY <1>2, <2>1, <2>2, NothingOpenNext DEF Bound
<1>3. ASSUME NEW t \in AllTasks, BindFails(t) \/ TapStart(t)
      PROVE  RequestInv'
  BY <1>3, RequestStutter DEF BindFails, StateAfterError, TapStart, serverVars, userVars
<1>4. ASSUME NEW t \in Tasks, TapStop(t) \/ TapRestart(t) \/ PrepareQrUpload(t)
      PROVE  RequestInv'
  BY <1>4, RequestStops, WebShareAssumption, Constants DEF TapStop, TapRestart, PrepareQrUpload, userVars
<1>5. CASE Wake
  <2>1. NextProtocol \in BOOLEAN
    BY WebShareAssumption DEF NextProtocol, TypeOK
  <2> QED BY <1>5, <2>1, RequestStops, Constants DEF Wake, userVars
<1>6. ASSUME NEW c \in Choices, Choose(c)
      PROVE  RequestInv'
  <2>1. share \in Shares
    BY <1>6 DEF Choose, ShowsControls, TypeOK
  <2>2. share' # None /\ share'.sessions = share.sessions
    BY <1>6, <2>1, ShareChanges, ShareAssumption DEF Choose, Shares
  <2> QED BY <1>6, <2>2, RequestStutter DEF Choose, ShowsControls
<1>7. CASE PortIsTaken \/ OpenPage \/ ToggleEncryption \/ WantToLeave \/ Back \/ Pop \/ UNCHANGED vars
  BY <1>7, RequestStutter
     DEF PortIsTaken, OpenPage, ToggleEncryption, WantToLeave, Back, Pop, vars, serverVars, userVars
<1>8. ASSUME NEW s \in Servers, NEW a \in Addresses, NEW id, NEW pin,
             GuessWrong(s, a, id, pin)
      PROVE  RequestInv'
  <2>1. share \in Shares /\ share # None
    BY <1>8 DEF GuessWrong, Reaches, TypeOK
  <2>2. share' # None /\ share'.sessions = share.sessions
    BY <1>8, <2>1, ShareChanges, WrongGuessIsCounted, ShareAssumption DEF GuessWrong, Shares
  <2> QED BY <1>8, <2>1, <2>2, RequestStutter DEF GuessWrong, userVars
<1>9. ASSUME NEW s \in Servers, NEW a \in Addresses, NEW id, NEW pin, AutoAccept(s, a, id, pin)
      PROVE  RequestInv'
  BY <1>9, SessionTaken DEF AutoAccept, Takes
<1>10. ASSUME NEW c \in Connections, NEW s \in Servers, NEW a \in Addresses, NEW id, NEW pin,
              Ask(c, s, a, id, pin)
       PROVE  RequestInv'
  BY <1>10, SessionTaken DEF Ask, IsNext, Takes
<1> QED BY <1>1, <1>2, <1>3, <1>4, <1>5, <1>6, <1>7, <1>8, <1>9, <1>10, Responded, Downloaded, Constants
        DEF Next, Visit

-----------------------------------------------------------------------------
Inv == TypeOK /\ SocketInv /\ PageInv /\ RequestInv

LEMMA InvInit == Init => Inv
<1> SUFFICES ASSUME Init PROVE Inv
  OBVIOUS
<1>1. SocketInv
  <2>1. state \in Servers \cup {None}
    BY WebShareAssumption DEF Init
  <2> QED BY <2>1 DEF Init, SocketInv
<1>2. PageInv
  BY Constants DEF Init, PageInv, PageShowsShare
<1>3. RequestInv
  BY NothingOpen DEF Init
<1> QED BY <1>1, <1>2, <1>3, InitTypes DEF Inv

LEMMA InvStep == Inv /\ [Next]_vars => Inv'
<1> SUFFICES ASSUME Inv, [Next]_vars PROVE Inv'
  OBVIOUS
<1> QED BY TypeStep, SocketStep, PageStep, RequestStep DEF Inv

LEMMA Invariance == Spec => []Inv
BY InvInit, InvStep, PTL DEF Spec

\* Every variable keeps its type.  In particular a share takes at most MaxGuesses wrong PINs
\* of an address; it does not follow for a PIN, which the next share may keep.
THEOREM TypesStay == Spec => []TypeOK
<1>1. Inv => TypeOK
  BY DEF Inv
<1> QED BY <1>1, Invariance, PTL

\* However many starts, stops and restarts overlap, and whatever becomes of their binds, the
\* app loses a server that listens only when a close ends that another operation's bind has
\* overtaken.
THEOREM OnlyOneServer == Spec => OneServer
<1> DEFINE Loses == Listening \subseteq {state} /\ ~(Listening \subseteq {state})' => Racing
<1>1. ASSUME TypeOK, SocketInv, Listening \subseteq {state}, ~(Listening \subseteq {state})', [Next]_vars
      PROVE  Racing
  <2>1. PICK z \in Servers : sockets'[z] = "listening" /\ state' # z
    BY <1>1 DEF Listening
  <2>2. ASSUME NEW s \in Servers, SocketCloses(s)
        PROVE  Racing
    <3>1. sockets[z] = "listening" /\ z # s /\ sockets[s] = "closing"
      BY <1>1, <2>1, <2>2 DEF SocketCloses, TypeOK
    <3>2. state = z
      BY <1>1, <3>1 DEF Listening
    <3> QED BY <3>1, <3>2 DEF Racing
  <2>3. ASSUME NEW t \in AllTasks, NEW s \in Servers, Bound(t, s)
        PROVE  FALSE
    <3>1. state' # None
      BY <2>3, Constants DEF Bound
    <3> QED BY <1>1, <2>1, <3>1, SocketStep DEF SocketInv
  <2>4. CASE state' = state /\ Listening' \subseteq Listening
    BY <1>1, <2>4
  <2> QED BY <1>1, <2>2, <2>3, <2>4, OthersOpenNothing
<1>2. Inv /\ [Next]_vars => [Loses]_vars
  BY <1>1 DEF Inv
<1> QED BY <1>2, Invariance, PTL DEF OneServer, Spec

\* The page that is running has the server and the share it reads, with the choices the
\* user has made before and after every restart, unless the server has been lost.
THEOREM PageAlwaysShowsShare == Spec => []PageShowsShare
<1>1. Inv => PageShowsShare
  BY DEF Inv, PageInv
<1> QED BY <1>1, Invariance, PTL

\* Any number of visitors: behind every prompt waits its request, and for every request that
\* waits there is its prompt, unless the server has been lost.
THEOREM PromptsStayLive == Spec => []PromptsAreLive
<1>1. Inv => PromptsAreLive
  BY DEF Inv, RequestInv
<1> QED BY <1>1, Invariance, PTL

\* No download begins without the user's consent to the last request of its address.
THEOREM AlwaysServedWithConsent == Spec => ServedWithConsent
<1> DEFINE Consented == \A c \in Connections :
              request[c].at # "streaming" /\ request'[c].at = "streaming"
                 => request'[c].address \in consent
<1>1. ASSUME TypeOK, RequestInv, [Next]_vars
      PROVE  Consented
  <2> SUFFICES ASSUME NEW c \in Connections,
                      request[c].at # "streaming", request'[c].at = "streaming"
               PROVE  request'[c].address \in consent
    OBVIOUS
  <2>1. ASSUME NEW s \in Servers, NEW a \in Addresses, NEW id, NEW d \in Connections, Download(d, s, a, id)
        PROVE  request'[c].address \in consent
    <3>1. d = c /\ request'[c].address = a
      BY <1>1, <2>1 DEF Download, TypeOK
    <3>2. a \in consent
      BY <1>1, <2>1 DEF Download, MayDownload, Reaches, RequestInv, ConsentInv
    <3> QED BY <3>1, <3>2
  <2>2. \A t \in AllTasks, kind \in {"stop", "restart"}, enc \in BOOLEAN :
           Stops(t, kind, enc) => request'[c].at # "streaming"
    BY <1>1, StopsCases DEF CutRequests, Closed
  <2>3. NextProtocol \in BOOLEAN
    BY <1>1, WebShareAssumption DEF NextProtocol, TypeOK
  <2>4. request \in [Connections -> Requests] /\ \A a : Replace(a)[c].at = request[c].at
    BY <1>1 DEF Replace, Requests, TypeOK
  <2>5. CASE Visit
    <3>1. ASSUME NEW s \in Servers, NEW a \in Addresses, NEW id, NEW pin,
                 GuessWrong(s, a, id, pin) \/ AutoAccept(s, a, id, pin)
          PROVE  FALSE
      BY <2>4, <3>1 DEF GuessWrong, AutoAccept
    <3>2. ASSUME NEW d \in Connections, NEW s \in Servers, NEW a \in Addresses, NEW id, NEW pin,
                 Ask(d, s, a, id, pin)
          PROVE  FALSE
      <4>1. DOMAIN Replace(a) = Connections
        BY DEF Replace
      <4>2. request'[c].at = IF c = d THEN "waiting" ELSE Replace(a)[c].at
        BY <3>2, <4>1 DEF Ask
      <4> QED BY <2>4, <4>2
    <3> QED BY <2>1, <2>5, <3>1, <3>2 DEF Visit
  <2>6. CASE \/ (\E a \in Addresses, accepted \in BOOLEAN : Respond(a, accepted))
             \/ \E d \in Connections : DownloadEnds(d)
    BY <2>4, <2>6 DEF Respond, DownloadEnds, Closed
  <2>7. CASE \/ Wake \/ \E t \in Tasks : TapStop(t) \/ TapRestart(t) \/ PrepareQrUpload(t)
    BY <2>2, <2>3, <2>7, WebShareAssumption, Constants DEF Wake, TapStop, TapRestart, PrepareQrUpload
  <2>8. CASE UNCHANGED request
    BY <2>8
  <2> QED BY <1>1, <2>5, <2>6, <2>7, <2>8 DEF Next, SocketCloses, Bound, BindFails, TapStart, PortIsTaken,
          OpenPage, ToggleEncryption, WantToLeave, Back, Pop, Choose, vars
<1>2. Inv /\ [Next]_vars => [Consented]_vars
  BY <1>1 DEF Inv
<1> QED BY <1>2, Invariance, PTL DEF ServedWithConsent, Spec

=============================================================================
