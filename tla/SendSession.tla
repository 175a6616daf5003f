---------------------------- MODULE SendSession ----------------------------
(***************************************************************************)
(* The sending side of a transfer: SendNotifier in                         *)
(* app/lib/provider/network/send_provider.dart, its pages, and the cancel  *)
(* requests a receiver sends back.                                         *)
(*                                                                         *)
(* startSession() asks the receiver, then a fixed number of upload         *)
(* isolates take file after file from one queue; a failed file can be sent *)
(* again from the progress page while the others are still under way.  A   *)
(* session is a value in a map that every await gives others the chance to *)
(* change or remove.  Sessions are numbered in the order in which they are *)
(* put into that map, which is the order a Dart map keeps.                 *)
(*                                                                         *)
(* The receiver is not modelled here: each request is answered in any way  *)
(* the code distinguishes, or breaks off.                                  *)
(***************************************************************************)
EXTENDS Integers, FiniteSets, FiniteSetsExt

CONSTANTS
    NSessions,    \* how many sessions are started
    Files,        \* the files that are sent
    Offer,        \* Offer[s]: the files of session s
    Workers,      \* upload isolates (uploadIsolateCount)
    Background,   \* sessions started with background = true (SendMode.multiple)
    MaxRetries,   \* how often the user sends a file again, per session
    None          \* no remote session id

Sessions == 1..NSessions

ASSUME SendAssumption ==
    /\ NSessions \in Nat
    /\ IsFiniteSet(Files)
    /\ Offer \in [Sessions -> (SUBSET Files) \ {{}}]
    /\ Workers \in Nat \ {0}
    /\ Background \subseteq Sessions
    /\ MaxRetries \in Nat
    /\ None \notin Sessions

VARIABLES
    status,       \* SessionStatus, "none" when the map holds no such session
    phase,        \* where startSession is
    files,        \* FileStatus of each file ("skipped" if not of the session)
    token,        \* the files the receiver gave a token for
    queue,        \* files of the send loop nobody has taken yet
    loop,         \* files the workers of the send loop are uploading
    retry,        \* how many uploads of each file the refresh button has begun
                  \*   that still run
    tries,        \* how many retries there were
    twice,        \* was a file ever sent again while it was being sent again?
    background,   \* SendSessionState.background
    page,         \* the page of this session that is open
    shown,        \* the files it showed a refresh button for in its last frame
    remote,       \* SendSessionState.remoteSessionId
    told          \* sessions whose receiver was sent a cancel request

transferVars == <<files, token, queue, loop, retry, tries, twice>>
pageVars == <<page, shown>>
vars == <<status, phase, transferVars, background, pageVars, remote, told>>

-----------------------------------------------------------------------------
SessionStatus == {"none", "waiting", "recipientBusy", "declined",
                  "tooManyAttempts", "sending", "finished",
                  "finishedWithErrors", "canceledBySender",
                  "canceledByReceiver"}
FileStatus == {"queue", "skipped", "sending", "failed", "finished"}

AllowedStates == {"sending", "finishedWithErrors"}

\* What startSession makes of a refusal: 403, 409, 429, anything else.
Refusals == {"declined", "recipientBusy", "tooManyAttempts", "finishedWithErrors"}

\* The progress page, opened by itself or in place of a send page that a tap
\* had opened.
ProgressPages == {"replaced", "progress"}

Live == {s \in Sessions : status[s] # "none"}

IsFinishedOrError(fs) == \A f \in Files : fs[f] \in {"skipped", "failed", "finished"}

HasError(fs) == \E f \in Files : fs[f] = "failed"

NewFiles(s) == [f \in Files |-> IF f \in Offer[s] THEN "queue" ELSE "skipped"]

Init ==
    /\ status = [s \in Sessions |-> "none"]
    /\ phase = [s \in Sessions |-> "idle"]
    /\ files = [s \in Sessions |-> NewFiles(s)]
    /\ token = [s \in Sessions |-> {}]
    /\ queue = [s \in Sessions |-> {}]
    /\ loop = [s \in Sessions |-> {}]
    /\ retry = [s \in Sessions |-> [f \in Files |-> 0]]
    /\ tries = [s \in Sessions |-> 0]
    /\ twice = [s \in Sessions |-> FALSE]
    /\ background = [s \in Sessions |-> s \in Background]
    /\ page = [s \in Sessions |-> "none"]
    /\ shown = [s \in Sessions |-> {}]
    /\ remote = [s \in Sessions |-> None]
    /\ told = {}

\* Mutation: the update does not look whether the session is still there.
UpdateStatusAlways(s, st) == status' = [status EXCEPT ![s] = st]

\* updateSession() changes nothing when the session is gone.
UpdateStatus(s, st) ==
    status' = IF s \in Live THEN [status EXCEPT ![s] = st] ELSE status

\* closeSession(): the map forgets the session; what runs for it runs on.
CloseSession(s) == status' = [status EXCEPT ![s] = "none"]

-----------------------------------------------------------------------------
(* startSession *)

\* The session is put into the map and the request goes out.
Start(s) ==
    /\ phase[s] = "idle"
    /\ \A t \in 1..(s - 1) : phase[t] # "idle"
    /\ phase' = [phase EXCEPT ![s] = "requesting"]
    /\ status' = [status EXCEPT ![s] = "waiting"]
    /\ page' = [page EXCEPT ![s] = IF s \in Background THEN "none" ELSE "send"]
    /\ UNCHANGED <<transferVars, background, shown, remote, told>>

\* 401: the PIN dialog is shown.
PinRequired(s) ==
    /\ phase[s] = "requesting"
    /\ phase' = [phase EXCEPT ![s] = "pin"]
    /\ UNCHANGED <<status, transferVars, background, pageVars, remote, told>>

\* The PIN is sent whether or not the session still exists.
PinEntered(s) ==
    /\ phase[s] = "pin"
    /\ phase' = [phase EXCEPT ![s] = "requesting"]
    /\ UNCHANGED <<status, transferVars, background, pageVars, remote, told>>

PinDismissed(s) ==
    /\ phase[s] = "pin"
    /\ phase' = [phase EXCEPT ![s] = "answered"]
    /\ UpdateStatus(s, "canceledBySender")
    /\ UNCHANGED <<transferVars, background, pageVars, remote, told>>

Refused(s, refusal) ==
    /\ phase[s] = "requesting"
    /\ phase' = [phase EXCEPT ![s] = "answered"]
    /\ UpdateStatus(s, refusal)
    /\ UNCHANGED <<transferVars, background, pageVars, remote, told>>

\* 204 or no token at all: the session is closed at once, and a foreground
\* session goes back to the home page.
NothingSelected(s) ==
    /\ phase[s] = "requesting"
    /\ phase' = [phase EXCEPT ![s] = "answered"]
    /\ CloseSession(s)
    /\ page' = IF s \in Live /\ ~background[s] THEN [page EXCEPT ![s] = "none"] ELSE page
    /\ UNCHANGED <<transferVars, background, shown, remote, told>>

\* Mutation: all uploads are started at once.
AcceptedAllAtOnce(s, S) ==
    /\ phase[s] = "requesting" /\ s \in Live
    /\ phase' = [phase EXCEPT ![s] = "answered"]
    /\ UpdateStatus(s, "sending")
    /\ token' = [token EXCEPT ![s] = S] /\ loop' = [loop EXCEPT ![s] = S]
    /\ files' = [files EXCEPT ![s] = [f \in Files |-> IF f \in S THEN "sending" ELSE "skipped"]]
    /\ page' = IF background[s] THEN page ELSE [page EXCEPT ![s] = "progress"]
    /\ UNCHANGED <<queue, retry, tries, twice, background, shown, remote, told>>

\* 200 with tokens for S: the workers start in the same turn.  The response's
\* session id names no session of the map (the local variable is shadowed), so
\* updateSession() stores it nowhere.  Without the session, the workers only
\* empty the queue.
Accepted(s, S) ==
    /\ phase[s] = "requesting"
    /\ phase' = [phase EXCEPT ![s] = "answered"]
    /\ UpdateStatus(s, "sending")
    /\ \/ s \notin Live /\ UNCHANGED <<token, queue, loop, files, page>>
       \/ /\ s \in Live
          /\ token' = [token EXCEPT ![s] = S]
          /\ \E W \in kSubset(Min({Workers, Cardinality(S)}), S) :
                /\ loop' = [loop EXCEPT ![s] = W]
                /\ queue' = [queue EXCEPT ![s] = S \ W]
                /\ files' = [files EXCEPT ![s] =
                      [f \in Files |-> IF f \in W THEN "sending"
                                       ELSE IF f \in S THEN "queue" ELSE "skipped"]]
          /\ page' = IF background[s] THEN page
                     ELSE [page EXCEPT ![s] = IF s \in Background THEN "replaced" ELSE "progress"]
    /\ UNCHANGED <<retry, tries, twice, background, shown, remote, told>>

-----------------------------------------------------------------------------
(* _sendLoop, sendFile, _finish *)

\* The files of the session are fs from now on, nothing else changes.
KeepSending(s, fs) ==
    /\ files' = [files EXCEPT ![s] = fs]
    /\ UNCHANGED status

\* _finish(): only a session that is sending gets an outcome; a background
\* session without errors is closed.
Finish(s, fs) ==
    /\ files' = [files EXCEPT ![s] = fs]
    /\ \/ status[s] # "sending" /\ UNCHANGED status
       \/ /\ status[s] = "sending" /\ HasError(fs)
          /\ UpdateStatus(s, "finishedWithErrors")
       \/ /\ status[s] = "sending" /\ ~HasError(fs) /\ ~background[s]
          /\ UpdateStatus(s, "finished")
       \/ /\ status[s] = "sending" /\ ~HasError(fs) /\ background[s]
          /\ CloseSession(s)

\* The session's files once the upload of f has ended.
Outcome(s, f, ok) ==
    IF s \in Live THEN [files[s] EXCEPT ![f] = IF ok THEN "finished" ELSE "failed"]
                  ELSE files[s]

\* Mutation: the worker does not look at the status again.
UploadEndsUnchecked(s, f, ok) ==
    /\ f \in loop[s]
    /\ \/ \E g \in queue[s] :
             /\ queue' = [queue EXCEPT ![s] = @ \ {g}]
             /\ loop' = [loop EXCEPT ![s] = (@ \ {f}) \cup {g}]
             /\ KeepSending(s, [Outcome(s, f, ok) EXCEPT ![g] = "sending"])
       \/ /\ queue[s] = {}
          /\ loop' = [loop EXCEPT ![s] = @ \ {f}]
          /\ UNCHANGED queue
          /\ Finish(s, Outcome(s, f, ok))
    /\ UNCHANGED <<phase, token, retry, tries, twice, background, pageVars, remote, told>>

\* Mutation: each worker finishes the session when it has nothing left.
UploadEndsFirst(s, f, ok) ==
    /\ f \in loop[s]
    /\ \/ \E g \in queue[s] :
             /\ queue' = [queue EXCEPT ![s] = @ \ {g}]
             /\ loop' = [loop EXCEPT ![s] = (@ \ {f}) \cup {g}]
             /\ KeepSending(s, [Outcome(s, f, ok) EXCEPT ![g] = "sending"])
       \/ /\ queue[s] = {}
          /\ loop' = [loop EXCEPT ![s] = @ \ {f}]
          /\ UNCHANGED queue
          /\ Finish(s, Outcome(s, f, ok))
    /\ UNCHANGED <<phase, token, retry, tries, twice, background, pageVars, remote, told>>

\* An upload of the send loop ends.  Its worker takes the next file if the
\* session may still send; otherwise it empties the queue.  The last worker to
\* stop finishes the session.
UploadEnds(s, f, ok) ==
    LET mayGoOn == status[s] \in AllowedStates
    IN  /\ f \in loop[s]
        /\ \/ \E g \in queue[s] :
                 /\ mayGoOn
                 /\ queue' = [queue EXCEPT ![s] = @ \ {g}]
                 /\ loop' = [loop EXCEPT ![s] = (@ \ {f}) \cup {g}]
                 /\ KeepSending(s, [Outcome(s, f, ok) EXCEPT ![g] = "sending"])
           \/ /\ queue[s] = {} \/ ~mayGoOn
              /\ queue' = [queue EXCEPT ![s] = {}]
              /\ loop' = [loop EXCEPT ![s] = @ \ {f}]
              /\ \/ loop[s] = {f} /\ Finish(s, Outcome(s, f, ok))
                 \/ loop[s] # {f} /\ KeepSending(s, Outcome(s, f, ok))
    /\ UNCHANGED <<phase, token, retry, tries, twice, background, pageVars, remote, told>>

\* Mutation: the button is offered for every file that is not finished.
RefreshableUnlessFinished(fs) == {f \in Files : fs[f] \notin {"skipped", "finished"}}

\* The files the progress page shows a refresh button for.
Refreshable(fs) == {f \in Files : fs[f] = "failed"}

\* A frame: until then the page offers the buttons of the previous one.
PageRedraws(s) ==
    LET buttons == IF s \in Live THEN Refreshable(files[s]) ELSE {}
    IN  /\ page[s] \in ProgressPages /\ shown[s] # buttons
        /\ shown' = [shown EXCEPT ![s] = buttons]
        /\ UNCHANGED <<status, phase, transferVars, background, page, remote, told>>

\* The refresh button: sendFile() looks at the state of the session, never at
\* that of the file, which is being sent again after a second tap.  In any
\* other state of the session it returns at once.
RetryStarts(s, f) ==
    /\ page[s] \in ProgressPages /\ f \in shown[s]
    /\ status[s] \in AllowedStates
    /\ tries[s] < MaxRetries
    /\ tries' = [tries EXCEPT ![s] = @ + 1]
    /\ status' = [status EXCEPT ![s] = "sending"]
    /\ files' = [files EXCEPT ![s][f] = "sending"]
    /\ retry' = [retry EXCEPT ![s][f] = @ + 1]
    /\ twice' = [twice EXCEPT ![s] = @ \/ retry[s][f] > 0]
    /\ UNCHANGED <<phase, token, queue, loop, background, pageVars, remote, told>>

\* Mutation: a retry leaves the outcome to the send loop.
RetryEndsQuietly(s, f, ok) ==
    /\ retry[s][f] > 0
    /\ retry' = [retry EXCEPT ![s][f] = @ - 1]
    /\ KeepSending(s, Outcome(s, f, ok))
    /\ UNCHANGED <<phase, token, queue, loop, tries, twice, background, pageVars, remote, told>>

\* A retry ends; it finishes the session if no file is left to be sent.
RetryEnds(s, f, ok) ==
    LET fs == Outcome(s, f, ok)
    IN  /\ retry[s][f] > 0
        /\ retry' = [retry EXCEPT ![s][f] = @ - 1]
        /\ \/ s \in Live /\ IsFinishedOrError(fs) /\ Finish(s, fs)
           \/ ~(s \in Live /\ IsFinishedOrError(fs)) /\ KeepSending(s, fs)
        /\ UNCHANGED <<phase, token, queue, loop, tries, twice, background, pageVars, remote, told>>

-----------------------------------------------------------------------------
(* The person at the sending device: SendPage, ProgressPage, the send tab *)

NoPage == \A s \in Sessions : page[s] = "none"

PageCloses(s) == /\ page' = [page EXCEPT ![s] = "none"]
                 /\ shown' = [shown EXCEPT ![s] = {}]

\* cancelSession(): the running uploads are told to stop (they end like any
\* other, in UploadEnds and RetryEnds), the receiver is notified if its session
\* id is known, and the session is closed.
UserCancels(s) ==
    /\ s \in Live
    /\ \/ page[s] = "send"
       \/ page[s] \in ProgressPages /\ status[s] = "sending"
    /\ told' = IF remote[s] = None THEN told ELSE told \cup {s}
    /\ CloseSession(s)
    /\ PageCloses(s)
    /\ UNCHANGED <<phase, transferVars, background, remote>>

\* Leaving the progress page of a session that is not sending.
UserCloses(s) ==
    /\ s \in Live
    /\ page[s] \in ProgressPages /\ status[s] # "sending"
    /\ CloseSession(s)
    /\ PageCloses(s)
    /\ UNCHANGED <<phase, transferVars, background, remote, told>>

\* The page of a session that is gone, or that lives on in the background.
UserLeaves(s) ==
    /\ page[s] # "none"
    /\ \/ s \notin Live /\ UNCHANGED background
       \/ /\ s \in Live /\ s \in Background
          /\ page[s] = "send" \/ status[s] \in AllowedStates
          /\ background' = [background EXCEPT ![s] = TRUE]
    /\ PageCloses(s)
    /\ UNCHANGED <<status, phase, transferVars, remote, told>>

\* A tap on the device of a background session opens its page.
UserOpens(s) ==
    /\ s \in Background /\ NoPage
    /\ status[s] \in {"waiting", "sending", "finishedWithErrors"}
    /\ background' = [background EXCEPT ![s] = FALSE]
    /\ page' = [page EXCEPT ![s] = IF status[s] = "waiting" THEN "send" ELSE "progress"]
    /\ UNCHANGED <<status, phase, transferVars, shown, remote, told>>

\* The send page was replaced by the progress page: the tap handler that
\* opened it goes on and puts the session back into the background.
OpenedPageReplaced(s) ==
    /\ page[s] = "replaced"
    /\ page' = [page EXCEPT ![s] = "progress"]
    /\ background' = IF s \in Live THEN [background EXCEPT ![s] = TRUE] ELSE background
    /\ UNCHANGED <<status, phase, transferVars, shown, remote, told>>

\* A tap on the device of a session that has ended otherwise closes it.
UserReplaces(s) ==
    /\ s \in Background /\ NoPage
    /\ s \in Live
    /\ status[s] \notin {"waiting", "sending", "finishedWithErrors"}
    /\ CloseSession(s)
    /\ UNCHANGED <<phase, transferVars, background, pageVars, remote, told>>

\* clearAllSessions(): the send mode is changed on the send tab.
ClearAllSessions ==
    /\ NoPage
    /\ Live # {}
    /\ status' = [s \in Sessions |-> "none"]
    /\ UNCHANGED <<phase, transferVars, background, pageVars, remote, told>>

-----------------------------------------------------------------------------
(* _cancelHandler while no receive session exists *)

\* The first session with the remote id of the request (protocol 2; None when
\* it carries none) or the only session (protocol 1); its target must be the
\* caller.
ReceiverCancels(s, id) ==
    /\ s \in Live
    /\ \/ remote[s] = id /\ \A t \in Live : t < s => remote[t] # id
       \/ Live = {s}
    /\ status[s] = "sending"
    /\ status' = [status EXCEPT ![s] = "canceledByReceiver"]
    /\ UNCHANGED <<phase, transferVars, background, pageVars, remote, told>>

-----------------------------------------------------------------------------
UploadStep(s) == \E f \in Files, ok \in BOOLEAN : UploadEnds(s, f, ok) \/ RetryEnds(s, f, ok)

ReplyStep(s) ==
    \/ PinRequired(s) \/ NothingSelected(s)
    \/ \E refusal \in Refusals : Refused(s, refusal)
    \/ \E S \in (SUBSET Offer[s]) \ {{}} : Accepted(s, S)
    \/ \E id \in Sessions \cup {None} : ReceiverCancels(s, id)

UserStep(s) ==
    \/ Start(s) \/ PinEntered(s) \/ PinDismissed(s)
    \/ UserCancels(s) \/ UserCloses(s) \/ UserLeaves(s)
    \/ UserOpens(s) \/ OpenedPageReplaced(s) \/ UserReplaces(s)
    \/ PageRedraws(s) \/ \E f \in Files : RetryStarts(s, f)

Next == \/ \E s \in Sessions : UploadStep(s) \/ ReplyStep(s) \/ UserStep(s)
        \/ ClearAllSessions

Spec == Init /\ [][Next]_vars

\* An upload ends: it is answered, breaks off, or its client gives up.  No
\* receiver has to answer the request and no user has to act.
FairSpec == Spec /\ \A s \in Sessions : WF_vars(UploadStep(s))

-----------------------------------------------------------------------------
(* Properties *)

\* Every variable has its type, and no more uploads run than there are workers.
TypeOK ==
    /\ status \in [Sessions -> SessionStatus]
    /\ phase \in [Sessions -> {"idle", "requesting", "pin", "answered"}]
    /\ files \in [Sessions -> [Files -> FileStatus]]
    /\ token \in [Sessions -> SUBSET Files]
    /\ queue \in [Sessions -> SUBSET Files]
    /\ loop \in [Sessions -> SUBSET Files]
    /\ retry \in [Sessions -> [Files -> Nat]]
    /\ tries \in [Sessions -> 0..MaxRetries]
    /\ twice \in [Sessions -> BOOLEAN]
    /\ background \in [Sessions -> BOOLEAN]
    /\ page \in [Sessions -> {"none", "send", "replaced", "progress"}]
    /\ shown \in [Sessions -> SUBSET Files]
    /\ remote \in [Sessions -> Sessions \cup {None}]
    /\ told \in SUBSET Sessions
    /\ \A s \in Sessions : Cardinality(loop[s]) <= Workers

\* The files that are being sent again.
Retried(s) == {f \in Files : retry[s][f] > 0}

\* The send loop and the refresh buttons never send the same file: what a page
\* offers to send again has left the loop for good, also when the page is a
\* frame behind or is tapped twice.
LoopAndRetriesApart ==
    \A s \in Sessions : /\ loop[s] \cap queue[s] = {}
                        /\ Retried(s) \cap (loop[s] \cup queue[s]) = {}

\* When a session has an outcome, no accepted file was left in the queue: a
\* retry that ends first does not end the session over the loop's head.
NothingLeftBehind ==
    \A s \in Sessions :
        /\ status[s] \in {"finished", "finishedWithErrors"}
        /\ token[s] # {}
        => /\ queue[s] = {} /\ loop[s] = {}
           /\ \A f \in token[s] : files[s][f] # "queue"

\* "finished but some files could not be sent": an error outcome after the
\* receiver accepted shows at least one file that can be sent again, also when
\* retries overlap with the loop and with each other.  A file that a second tap
\* sends twice at once may be shown as sent in a session with errors, if the
\* upload that ends first fails.
ErrorsAreShown ==
    \A s \in Sessions :
        status[s] = "finishedWithErrors" /\ token[s] # {} /\ ~twice[s] => HasError(files[s])

\* The outcome of a session is true of its files: none was left in the queue,
\* and one that could not be sent is there to be sent again.
OutcomeIsTrue == NothingLeftBehind /\ ErrorsAreShown

\* "finished, // all files sent": no accepted file of the session has failed
\* or is still on its way.
FinishedMeansSent ==
    \A s \in Sessions :
        status[s] = "finished" => \A f \in token[s] : files[s][f] = "finished"

\* No upload begins in a session that was cancelled, closed or cleared, although
\* the workers have files in their hands and the answer may come late.
NoUploadAfterCancel(s) ==
    ~(loop'[s] \subseteq loop[s]) \/ (\E f \in Files : retry'[s][f] > retry[s][f])
        => status[s] \in {"waiting"} \cup AllowedStates /\ status'[s] = "sending"

\* The receiver's cancellation stands until the session is removed, whatever
\* the uploads it interrupted report.
ReceiverCancelIsFinal(s) ==
    status[s] = "canceledByReceiver" => status'[s] \in {"canceledByReceiver", "none"}

\* A session that was removed does not come back with a late answer, a PIN or
\* the end of an upload.
RemovedStaysRemoved(s) ==
    status[s] = "none" /\ phase[s] # "idle" => status'[s] = "none"

KeepsEnded == \A s \in Sessions : /\ NoUploadAfterCancel(s)
                                 /\ ReceiverCancelIsFinal(s)
                                 /\ RemovedStaysRemoved(s)

\* What was ended by either side stays ended, although workers, retries, the
\* receiver's answer and the pages of the session go on behind it.
EndedStaysEnded == [][KeepsEnded]_vars

\* "Closes the send-session and sends a cancel event to the receiver": a
\* cancelled transfer is announced to the receiver that accepted it.
CancelIsAnnounced ==
    [][\A s \in Sessions : UserCancels(s) /\ token[s] # {} => s \in told']_vars

\* A session does not stay in "sending": the loop or the last retry ends it.
SendingEnds == \A s \in Sessions : status[s] = "sending" ~> status[s] # "sending"

=============================================================================
