--------------------------- MODULE ReceiveSession ---------------------------
(***************************************************************************)
(* The receiving side of a transfer: ReceiveController in                  *)
(* app/lib/provider/network/server/controller/receive_controller.dart.     *)
(*                                                                         *)
(* The server keeps at most one receive session.  A prepare-upload request *)
(* creates it, waits for the person at the device and hands out one token  *)
(* per accepted file; upload requests carry one file each; the sender may  *)
(* cancel; the user accepts, declines, leaves.  Dart runs all of it on one *)
(* thread: what lies between two awaits is one action here, and every      *)
(* await is a point where any other action may come in between.            *)
(*                                                                         *)
(* Files are identified by the fresh uuid the sender gives them, so the    *)
(* files of two requests are disjoint.  A session is named by the request  *)
(* that created it and a token by the request whose handler issued it:     *)
(* both are fresh uuids in the code.                                       *)
(***************************************************************************)
EXTENDS Integers, FiniteSets

CONSTANTS
    Prepares,     \* prepare-upload requests
    Uploads,      \* upload requests
    Files,        \* the files on offer
    Offer,        \* Offer[p]: the files of request p
    Ip,           \* Ip[p]: the address request p comes from
    V1Senders,    \* requests of senders that speak protocol version 1
    Messages,     \* requests that carry one text message and no file to save
    QuickSave,    \* requests saved without asking (quickSave settings)
    Mobile,       \* TRUE on Android and iOS (storage permission is awaited)
    None          \* no session, no page, no token, no file

ASSUME ReceiveAssumption ==
    /\ Offer \in [Prepares -> (SUBSET Files) \ {{}}]
    /\ \A p, q \in Prepares : p # q => Offer[p] \cap Offer[q] = {}
    /\ DOMAIN Ip = Prepares
    /\ V1Senders \subseteq Prepares
    /\ Messages \subseteq Prepares
    /\ QuickSave \subseteq Prepares \ Messages
    /\ Mobile \in BOOLEAN
    /\ None \notin Prepares \cup Files

VARIABLES
    session,      \* the request whose session the server holds, or None
    status,       \* SessionStatus of that session
    files,        \* FileStatus of each file of that session
    token,        \* the token each of its files was given
    handler,      \* does the session still hold its responseHandler?
    pc,           \* where the handler of each prepare-upload request is
    verdict,      \* what was put into the StreamController of each request:
                  \*   "none" yet, "declined" (null) or "accepted" (a map)
    selected,     \* the files an accepted request's map selects
    granted,      \* the files of the tokens each request was answered with
    code,         \* the status code each prepare-upload request was answered,
                  \*   400 for a refusal (400, 401, 409) before its session
    upc,          \* where the handler of each upload request is
    ufile,        \* the file an upload request carries
    uown,         \* the session an upload request was admitted to
    ucode,        \* 200, 500, or 400 for a refusal before the body is read
    stored,       \* files that are completely on disk
    page,         \* the session the ReceivePage on screen was opened for
    shownCancel,  \* has that page been redrawn for "canceled by sender"?
    progressOpen, \* is a ProgressPage open?
    timers        \* uploads whose delayed closeSession() is still to run

sessionVars == <<session, status, files, token, handler>>
prepareVars == <<pc, verdict, selected, granted, code>>
uploadVars == <<upc, ufile, uown, ucode, stored>>
uiVars == <<page, shownCancel, progressOpen>>
vars == <<sessionVars, prepareVars, uploadVars, uiVars, timers>>

-----------------------------------------------------------------------------
SessionStatus == {"none", "waiting", "sending", "finished",
                  "finishedWithErrors", "canceledBySender"}
FileStatus == {"absent", "queue", "skipped", "sending", "failed", "finished"}

\* The states in which upload requests are served.
AllowedStates == {"sending", "finishedWithErrors"}

\* The handler of p is past the creation of its session, or has ended.
Created == {"window", "asked", "permission", "answered", "dead"}

\* Mutation: files still in the queue are forgotten.
IsFinishedOrErrorNoQueue(fs) == \A f \in Files : fs[f] # "sending"

IsFinishedOrError(fs) ==
    \A f \in Files : fs[f] \in {"absent", "skipped", "failed", "finished"}

NoFiles == [f \in Files |-> "absent"]
NoTokens == [f \in Files |-> None]

Init ==
    /\ session = None /\ status = "none" /\ handler = FALSE
    /\ files = NoFiles /\ token = NoTokens
    /\ pc = [p \in Prepares |-> "idle"]
    /\ verdict = [p \in Prepares |-> "none"]
    /\ selected = [p \in Prepares |-> {}]
    /\ granted = [p \in Prepares |-> {}]
    /\ code = [p \in Prepares |-> 0]
    /\ upc = [u \in Uploads |-> "idle"]
    /\ ufile = [u \in Uploads |-> None]
    /\ uown = [u \in Uploads |-> None]
    /\ ucode = [u \in Uploads |-> 0]
    /\ stored = {} /\ timers = {}
    /\ page = None /\ shownCancel = FALSE /\ progressOpen = FALSE

\* Mutation: the status survives the session.
CloseSessionKeepsStatus ==
    /\ session' = None /\ handler' = FALSE
    /\ files' = NoFiles /\ token' = NoTokens
    /\ UNCHANGED status

\* closeSession(): forgets whichever session is current.
CloseSession ==
    /\ session' = None /\ status' = "none" /\ handler' = FALSE
    /\ files' = NoFiles /\ token' = NoTokens

AnswerPrepare(p, c) ==
    /\ pc' = [pc EXCEPT ![p] = "answered"]
    /\ code' = [code EXCEPT ![p] = c]

-----------------------------------------------------------------------------
(* prepare-upload: _prepareUploadHandler *)

\* 409 while there is a session, then the PIN check, then the body is awaited.
\* Any number of requests may be past the check before one has its session.
PrepareArrives(p) ==
    /\ pc[p] = "idle"
    /\ timers = {}    \* Duration.zero: they run before a new connection is read
    /\ \/ AnswerPrepare(p, 400)    \* 409 if there is a session, else 401
       \/ /\ session = None
          /\ pc' = [pc EXCEPT ![p] = "body"]
          /\ UNCHANGED code
    /\ UNCHANGED <<sessionVars, verdict, selected, granted, uploadVars, uiVars, timers>>

\* The body has been read: malformed and empty requests are refused, then
\* the directories are awaited.
PrepareBodyRead(p) ==
    /\ pc[p] = "body"
    /\ \/ AnswerPrepare(p, 400)
       \/ pc' = [pc EXCEPT ![p] = "dirs"] /\ UNCHANGED code
    /\ UNCHANGED <<sessionVars, verdict, selected, granted, uploadVars, uiVars, timers>>

\* Mutation: every offered file gets a token, whatever was selected.
GrantEverything(p, selection, cur) ==
    /\ session' = cur /\ status' = "sending" /\ handler' = FALSE
    /\ files' = [f \in Files |-> IF f \in Offer[cur] THEN "queue" ELSE "absent"]
    /\ token' = [f \in Files |-> IF f \in Offer[cur] THEN p ELSE None]
    /\ granted' = [granted EXCEPT ![p] = Offer[cur]]
    /\ AnswerPrepare(p, 200)

\* The accepted files get tokens, the others are skipped; the session of the
\* moment (cur) goes to "sending", whatever it was.
Grant(p, selection, cur) ==
    LET accepted == Offer[cur] \cap selection
    IN  /\ session' = cur /\ status' = "sending" /\ handler' = FALSE
        /\ files' = [f \in Files |-> IF f \in accepted THEN "queue"
                                     ELSE IF f \in Offer[cur] THEN "skipped"
                                     ELSE "absent"]
        /\ token' = [f \in Files |-> IF f \in accepted THEN p ELSE None]
        /\ granted' = [granted EXCEPT ![p] = accepted]
        /\ IF Mobile THEN pc' = [pc EXCEPT ![p] = "permission"] /\ UNCHANGED code
                     ELSE AnswerPrepare(p, 200)

\* The handler goes on with the user's answer.
Resume(p, answer, selection) ==
    \/ /\ session = None
       /\ AnswerPrepare(p, 500)
       /\ UNCHANGED <<sessionVars, granted>>
    \/ /\ session # None /\ answer = "declined"
       /\ CloseSession /\ AnswerPrepare(p, 403)
       /\ UNCHANGED granted
    \/ /\ session # None /\ answer = "accepted" /\ selection = {}
       /\ CloseSession /\ AnswerPrepare(p, 204)
       /\ UNCHANGED granted
    \/ /\ session # None /\ answer = "accepted" /\ selection # {}
       /\ Grant(p, selection, session)

\* An await outside any try throws: nobody catches it (the router does not wait
\* for its handlers), the request is never answered and what the handler has
\* put into the state so far remains.
PrepareDies(p) ==
    /\ pc[p] \in {"dirs", "window"}
    /\ pc' = [pc EXCEPT ![p] = "dead"]
    /\ UNCHANGED <<sessionVars, verdict, selected, granted, code, uploadVars, uiVars, timers>>

\* The session is created, over any session that may exist by now.  With
\* quickSave everything is accepted in the same turn.
PrepareCreates(p) ==
    /\ pc[p] = "dirs"
    /\ \/ /\ p \in QuickSave
          /\ Grant(p, Offer[p], p)
          /\ verdict' = [verdict EXCEPT ![p] = "accepted"]
          /\ selected' = [selected EXCEPT ![p] = Offer[p]]
          /\ progressOpen' = TRUE
       \/ /\ p \notin QuickSave
          /\ session' = p /\ status' = "waiting" /\ handler' = TRUE
          /\ files' = [f \in Files |-> IF f \in Offer[p] THEN "queue" ELSE "absent"]
          /\ token' = NoTokens
          /\ pc' = [pc EXCEPT ![p] = "window"]
          /\ UNCHANGED <<verdict, selected, granted, code, progressOpen>>
    /\ UNCHANGED <<uploadVars, page, shownCancel, timers>>

\* Mutation: the stream does not buffer, an early answer is lost.
PreparePromptsUnbuffered(p) ==
    /\ pc[p] = "window"
    /\ page' = session
    /\ shownCancel' = (status = "canceledBySender")
    /\ pc' = [pc EXCEPT ![p] = "asked"]
    /\ UNCHANGED <<sessionVars, verdict, selected, granted, code>>
    /\ UNCHANGED <<uploadVars, progressOpen, timers>>

\* The window has been brought to front: the ReceivePage is pushed and the
\* handler waits for the controller, whose event may already be buffered.
PreparePrompts(p) ==
    /\ pc[p] = "window"
    /\ page' = session
    /\ shownCancel' = (status = "canceledBySender")
    /\ \/ /\ verdict[p] = "none"
          /\ pc' = [pc EXCEPT ![p] = "asked"]
          /\ UNCHANGED <<sessionVars, granted, code>>
       \/ verdict[p] # "none" /\ Resume(p, verdict[p], selected[p])
    /\ UNCHANGED <<verdict, selected, uploadVars, progressOpen, timers>>

\* The storage permission dialog has returned.
PermissionReturns(p) ==
    /\ pc[p] = "permission"
    /\ AnswerPrepare(p, 200)
    /\ UNCHANGED <<sessionVars, verdict, selected, granted, uploadVars, uiVars, timers>>

-----------------------------------------------------------------------------
(* The person at the receiving device: ReceivePage and ProgressPage *)

\* acceptFileRequest / declineFileRequest: the controller of the current
\* session takes one event; a handler that listens goes on at once.
PutReply(answer, selection) ==
    LET listening == handler /\ verdict[session] = "none"
    IN  \/ /\ listening
           /\ verdict' = [verdict EXCEPT ![session] = answer]
           /\ selected' = [selected EXCEPT ![session] = selection]
           /\ \/ pc[session] = "asked" /\ Resume(session, answer, selection)
              \/ pc[session] # "asked" /\ UNCHANGED <<sessionVars, pc, granted, code>>
        \/ ~listening /\ UNCHANGED <<sessionVars, prepareVars>>

PageGone == page' = None /\ shownCancel' = FALSE

\* Mutation: the page of a cancelled request still accepts.
UserAcceptsCancelled(selection) ==
    /\ page # None /\ session # None
    /\ selection \in (SUBSET Offer[page]) \ {{}}
    /\ progressOpen' = TRUE
    /\ PutReply("accepted", selection)
    /\ PageGone
    /\ UNCHANGED <<uploadVars, timers>>

\* "Accept": the selection was set when the page was opened.  A message has
\* nothing to select and its page never shows the cancellation.
UserAccepts(selection) ==
    /\ page # None /\ session # None
    /\ \/ /\ page \in Messages /\ selection = {}
          /\ UNCHANGED progressOpen
       \/ /\ page \notin Messages /\ ~shownCancel
          /\ selection \in (SUBSET Offer[page]) \ {{}}
          /\ progressOpen' = TRUE
    /\ PutReply("accepted", selection)
    /\ PageGone
    /\ UNCHANGED <<uploadVars, timers>>

\* "Decline", or the page is popped.
UserDeclines ==
    /\ page # None /\ session # None
    /\ PutReply("declined", {})
    /\ PageGone
    /\ UNCHANGED <<uploadVars, progressOpen, timers>>

\* "Close" on the page of a cancelled request.
UserCloses ==
    /\ page # None /\ session # None
    /\ page \notin Messages /\ shownCancel
    /\ CloseSession
    /\ PageGone
    /\ UNCHANGED <<prepareVars, uploadVars, progressOpen, timers>>

\* The page is blank once the session is gone.
UserPopsBlankPage ==
    /\ page # None /\ session = None
    /\ PageGone
    /\ UNCHANGED <<sessionVars, prepareVars, uploadVars, progressOpen, timers>>

\* Leaving the ProgressPage: cancelSession() while sending, closeSession()
\* otherwise; both forget the session, running uploads go on.
UserLeavesProgress ==
    /\ progressOpen /\ page = None
    /\ progressOpen' = FALSE
    /\ CloseSession
    /\ UNCHANGED <<prepareVars, uploadVars, page, shownCancel, timers>>

\* A frame: until then the page offers the buttons of the previous status.
PageRedraws ==
    /\ page # None
    /\ shownCancel # (status = "canceledBySender")
    /\ shownCancel' = (status = "canceledBySender")
    /\ UNCHANGED <<sessionVars, prepareVars, uploadVars, page, progressOpen, timers>>

-----------------------------------------------------------------------------
(* cancel: _cancelHandler while a receive session exists *)

\* The sender of p cancels; withId says whether it sends the session id it
\* got with its 200.  A refusal (403) changes nothing and is left out.
SenderCancels(p, withId) ==
    /\ pc[p] # "idle"
    /\ withId => code[p] = 200
    /\ session # None
    /\ p \in V1Senders => session \in V1Senders
    /\ Ip[p] = Ip[session]
    /\ p \notin V1Senders /\ status # "waiting" => withId /\ p = session
    /\ status \in {"waiting", "sending"}
    /\ status' = "canceledBySender"
    /\ UNCHANGED <<session, files, token, handler>>
    /\ UNCHANGED <<prepareVars, uploadVars, uiVars, timers>>

-----------------------------------------------------------------------------
(* upload: _uploadHandler *)

\* The checks an upload of file f by the sender of p passes.  It presents the
\* token it was given with f.
Admissible(p, f, withId) ==
    /\ session # None
    /\ Ip[p] = Ip[session]
    /\ status \in AllowedStates
    /\ p \notin V1Senders => withId /\ p = session
    /\ f \in Offer[session] /\ token[f] = p

UploadArrives(u, p, f, withId) ==
    /\ upc[u] = "idle"
    /\ timers = {}
    /\ code[p] = 200 /\ f \in granted[p]
    /\ ufile' = [ufile EXCEPT ![u] = f]
    /\ \/ /\ Admissible(p, f, withId)
          /\ upc' = [upc EXCEPT ![u] = "saving"]
          /\ uown' = [uown EXCEPT ![u] = session]
          /\ files' = [files EXCEPT ![f] = "sending"]
          /\ status' = "sending"
          /\ UNCHANGED ucode
       \/ /\ ~Admissible(p, f, withId)
          /\ upc' = [upc EXCEPT ![u] = "answered"]
          /\ ucode' = [ucode EXCEPT ![u] = 400]
          /\ UNCHANGED <<uown, files, status>>
    /\ UNCHANGED <<session, token, handler, prepareVars, stored, uiVars, timers>>

AnswerUpload(u, c) ==
    /\ upc' = [upc EXCEPT ![u] = "answered"]
    /\ ucode' = [ucode EXCEPT ![u] = c]

\* The session's status and the delayed close once its last file is done.
EndSession(fs) == IF \E f \in Files : fs[f] = "failed"
                  THEN "finishedWithErrors" ELSE "finished"

\* Mutation: the close waits for a moment without uploads, which nobody
\* looks for again.
ConcludeIfQuiet(u, fs) ==
    /\ session # None
    /\ files' = fs
    /\ \/ /\ status \in AllowedStates /\ IsFinishedOrError(fs)
          /\ status' = EndSession(fs)
          /\ timers' = IF \A v \in Uploads \ {u} : upc[v] # "history" THEN timers \cup {u} ELSE timers
       \/ /\ ~(status \in AllowedStates /\ IsFinishedOrError(fs))
          /\ UNCHANGED <<status, timers>>
    /\ AnswerUpload(u, IF fs[ufile[u]] = "finished" THEN 200 ELSE 500)
    /\ UNCHANGED <<session, token, handler>>

\* The end of the handler, fs being the session's files by then: the last
\* file ends the session, and the answer is what the session says of the file.
Conclude(u, fs) ==
    \/ /\ session = None
       /\ AnswerUpload(u, 500)
       /\ UNCHANGED <<sessionVars, timers>>
    \/ /\ session # None
       /\ files' = fs
       /\ \/ /\ status \in AllowedStates /\ IsFinishedOrError(fs)
             /\ status' = EndSession(fs)
             /\ timers' = IF session \in QuickSave THEN timers \cup {u} ELSE timers
          \/ /\ ~(status \in AllowedStates /\ IsFinishedOrError(fs))
             /\ UNCHANGED <<status, timers>>
       /\ AnswerUpload(u, IF fs[ufile[u]] = "finished" THEN 200 ELSE 500)
       /\ UNCHANGED <<session, token, handler>>

\* Mutation: only a file that is being sent can be finished.
ThrowsUnlessSending(u) == session # None /\ files[ufile[u]] # "sending"

\* fileFinished() throws when the current session has no such file, and the
\* catch clause calls it again: the request is never answered.
Throws(u) == session # None /\ files[ufile[u]] = "absent"

Hang(u) == /\ upc' = [upc EXCEPT ![u] = "hung"]
           /\ UNCHANGED <<sessionVars, ucode, timers>>

\* The file is on disk.
SaveSucceeds(u) ==
    /\ upc[u] = "saving"
    /\ stored' = stored \cup {ufile[u]}
    /\ \/ /\ status \notin AllowedStates
          /\ AnswerUpload(u, 500)
          /\ UNCHANGED <<sessionVars, timers>>
       \/ /\ status \in AllowedStates /\ Throws(u)
          /\ Hang(u)
       \/ /\ status \in AllowedStates /\ ~Throws(u)
          /\ files' = [files EXCEPT ![ufile[u]] = "finished"]
          /\ upc' = [upc EXCEPT ![u] = "history"]
          /\ UNCHANGED <<session, status, token, handler, ucode, timers>>
    /\ UNCHANGED <<prepareVars, ufile, uown, uiVars>>

\* The catch clause and what follows it.
Fail(u) ==
    \/ Throws(u) /\ Hang(u)
    \/ ~Throws(u) /\ Conclude(u, [files EXCEPT ![ufile[u]] = "failed"])

\* The body stream or the disk fails; the partial file is deleted.
SaveFails(u) ==
    /\ upc[u] = "saving"
    /\ Fail(u)
    /\ UNCHANGED <<prepareVars, ufile, uown, stored, uiVars>>

\* The history entry has been persisted, or that failed.
HistoryReturns(u) ==
    /\ upc[u] = "history"
    /\ Conclude(u, files) \/ Fail(u)
    /\ UNCHANGED <<prepareVars, ufile, uown, stored, uiVars>>

\* Future.delayed(Duration.zero): closes the session of the moment and goes
\* back to the home page.
TimerFires(u) ==
    /\ u \in timers
    /\ timers' = timers \ {u}
    /\ CloseSession
    /\ PageGone /\ progressOpen' = FALSE
    /\ UNCHANGED <<prepareVars, uploadVars>>

-----------------------------------------------------------------------------
PrepareStep(p) == \/ PrepareBodyRead(p) \/ PrepareCreates(p)
                  \/ PreparePrompts(p) \/ PermissionReturns(p)
                  \/ PrepareDies(p)

UploadStep(u) == SaveSucceeds(u) \/ SaveFails(u) \/ HistoryReturns(u) \/ TimerFires(u)

SenderStep == \/ \E p \in Prepares : PrepareArrives(p)
              \/ \E p \in Prepares, withId \in BOOLEAN : SenderCancels(p, withId)
              \/ \E u \in Uploads, p \in Prepares, f \in Files, withId \in BOOLEAN :
                    UploadArrives(u, p, f, withId)

UserStep == \/ \E selection \in SUBSET Files : UserAccepts(selection)
            \/ UserDeclines \/ UserCloses \/ UserPopsBlankPage
            \/ UserLeavesProgress \/ PageRedraws

Next == \/ \E p \in Prepares : PrepareStep(p)
        \/ \E u \in Uploads : UploadStep(u)
        \/ SenderStep \/ UserStep

Spec == Init /\ [][Next]_vars

\* Only what the event loop runs is fair: a directory lookup returns, a body
\* ends or breaks off, a timer fires.  No user and no sender has to act.
FairSpec == /\ Spec
            /\ \A p \in Prepares : WF_vars(PrepareStep(p))
            /\ \A u \in Uploads : WF_vars(UploadStep(u))

-----------------------------------------------------------------------------
(* Properties *)

PreparePc == {"idle", "body", "dirs"} \cup Created
UploadPc == {"idle", "saving", "history", "answered", "hung"}

\* Every variable has its type.
TypeOK ==
    /\ session \in Prepares \cup {None}
    /\ status \in SessionStatus
    /\ (session = None) <=> (status = "none")
    /\ files \in [Files -> FileStatus]
    /\ token \in [Files -> Prepares \cup {None}]
    /\ handler \in BOOLEAN
    /\ pc \in [Prepares -> PreparePc]
    /\ verdict \in [Prepares -> {"none", "declined", "accepted"}]
    /\ selected \in [Prepares -> SUBSET Files]
    /\ granted \in [Prepares -> SUBSET Files]
    /\ code \in [Prepares -> {0, 200, 204, 400, 403, 500}]
    /\ upc \in [Uploads -> UploadPc]
    /\ ufile \in [Uploads -> Files \cup {None}]
    /\ uown \in [Uploads -> Prepares \cup {None}]
    /\ ucode \in [Uploads -> {0, 200, 400, 500}]
    /\ stored \in SUBSET Files
    /\ page \in Prepares \cup {None}
    /\ shownCancel \in BOOLEAN /\ progressOpen \in BOOLEAN
    /\ timers \in SUBSET Uploads

\* What the receiving side agreed to: the selections put into the stream
\* controllers, and all of a quickSave request.
Consented == UNION {selected[p] : p \in Prepares}

\* The files whose sender was told 200.
Acked == {f \in Files : \E u \in Uploads : ufile[u] = f /\ ucode[u] = 200}

\* Nothing is on disk that the user did not select, although the selection is
\* read, turned into tokens, checked and used in four different turns of the
\* event loop, over sessions that come, go and replace each other.
StoredWithConsent == stored \subseteq Consented

\* The sender is told 200 only of a file that is completely on disk, also when
\* the same file is uploaded twice at once and one of the uploads fails.
AckedIsStored == Acked \subseteq stored

\* "finished, // all files sent": when the session says so, every accepted
\* file is on disk.
FinishedIsStored == status = "finished" => \A f \in Files : token[f] # None => f \in stored

\* Only the death of its own handler before the prompt can leave a waiting
\* session without anybody to read the user's answer.  Otherwise the handler is
\* on the way to the prompt or listens, and its controller has not been used
\* up, whatever other sessions came before it and were answered meanwhile.
WaitingIsAnswerable ==
    status = "waiting" => /\ handler
                          /\ pc[session] \in {"window", "asked", "dead"}
                          /\ verdict[session] # "none" => pc[session] # "asked"

\* A session whose cancellation by the sender the user has seen is not brought
\* back to "sending", unless a handler still has an earlier answer to read.
SeenCancelIsFinal ==
    [][status = "canceledBySender" /\ shownCancel /\ session' = session
           /\ status' # status
         => \E p \in Prepares : pc[p] = "window" /\ verdict[p] # "none"]_vars

\* "block incoming requests when we are already in a session": a session is not
\* replaced by another request's.
NoSessionReplaced == [][session # None => session' \in {session, None}]_vars

\* The delayed close of a finished quickSave session never hits a session in
\* which the user is still being asked.
TimerSparesWaiting == timers # {} => status # "waiting"

\* "close the session **after** return of the response": when the timer runs,
\* every upload of the session it closes has its response.
QuickCloseAfterResponses ==
    [][\A u \in timers : u \notin timers' =>
          \A v \in Uploads : uown[v] = session => upc[v] \notin {"saving", "history"}]_vars

\* An upload stays without an answer only if its session was gone when its
\* file was complete.
HungOnlyIfGone == \A u \in Uploads : upc[u] = "hung" => session # uown[u]

\* Once the user's answer is in the controller the request gets its response,
\* also if the answer came before the handler listened, unless the handler
\* died before it listened.
ReplyIsAnswered == \A p \in Prepares : verdict[p] # "none" ~> pc[p] \in {"answered", "dead"}

\* A finished quickSave session goes away without anyone's doing.
QuickSaveFrees == status = "finished" /\ session \in QuickSave ~> session = None

FD == INSTANCE FileDelivery WITH consented <- Consented, stored <- stored, acked <- Acked

\* The receiver implements the abstract promise.
ImplementsDelivery == FD!Spec

=============================================================================
