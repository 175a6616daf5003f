--------------------------- MODULE SendSessionProofs ---------------------------
(***************************************************************************)
(* Proofs about SendSession, for any number of sessions, files, workers and *)
(* retries.                                                                 *)
(*                                                                          *)
(* The safety properties rest on SInv below: what the queue, the workers    *)
(* and the retries of one session hold, and which file states go with it.   *)
(* No step of a session changes what SInv says of another one.              *)
(***************************************************************************)
EXTENDS SendSession, FiniteSetTheorems, TLAPS

-----------------------------------------------------------------------------
(* Types *)

\* The part of TypeOK that is not about the number of uploads.
Shapes ==
    /\ status \in [Sessions -> SessionStatus]
    /\ phase \in [Sessions -> {"idle", "requesting", "pin", "answered"}]
    /\ files \in [Sessions -> [Files -> FileStatus]]
    /\ token \in [Sessions -> SUBSET Files]
    /\ queue \in [Sessions -> SUBSET Files]
    /\ loop \in [Sessions -> SUBSET Files]
    /\ retry \in [Sessions -> [Files -> Nat]]
    /\ tries \in [Sessions -> 0..MaxRetries]
    /\ twice \in [Sessions -> BOOLEAN]
    /\ background \in [Sessions -> BOOLEAN]
    /\ page \in [Sessions -> {"none", "send", "replaced", "progress"}]
    /\ shown \in [Sessions -> SUBSET Files]
    /\ remote \in [Sessions -> Sessions \cup {None}]
    /\ told \in SUBSET Sessions

\* The worker whose upload of f has ended takes g, or it stops.
TakesNext(s, f, ok, g) ==
    /\ status[s] \in AllowedStates
    /\ queue' = [queue EXCEPT ![s] = queue[s] \ {g}]
    /\ loop' = [loop EXCEPT ![s] = (loop[s] \ {f}) \cup {g}]
    /\ KeepSending(s, [Outcome(s, f, ok) EXCEPT ![g] = "sending"])

Stops(s, f, ok) ==
    /\ queue[s] = {} \/ status[s] \notin AllowedStates
    /\ queue' = [queue EXCEPT ![s] = {}]
    /\ loop' = [loop EXCEPT ![s] = loop[s] \ {f}]
    /\ \/ loop[s] = {f} /\ Finish(s, Outcome(s, f, ok))
       \/ loop[s] # {f} /\ KeepSending(s, Outcome(s, f, ok))

LEMMA UploadCases ==
    ASSUME NEW s \in Sessions, NEW f \in Files, NEW ok \in BOOLEAN, UploadEnds(s, f, ok)
    PROVE  (\E g \in queue[s] : TakesNext(s, f, ok, g)) \/ Stops(s, f, ok)
BY DEF UploadEnds, TakesNext, Stops

\* Whatever _finish() makes of a session's files has its type.
LEMMA FinishShape ==
    ASSUME Shapes, NEW s \in Sessions, NEW fs \in [Files -> FileStatus], Finish(s, fs)
    PROVE  /\ status' \in [Sessions -> SessionStatus]
           /\ files' \in [Sessions -> [Files -> FileStatus]]
<1>1. files' \in [Sessions -> [Files -> FileStatus]]
  BY DEF Finish, Shapes
<1>2. \E st \in SessionStatus : status' = status \/ status' = [status EXCEPT ![s] = st]
  BY Zenon DEF Finish, UpdateStatus, CloseSession, SessionStatus
<1>3. status' \in [Sessions -> SessionStatus]
  BY <1>2 DEF Shapes
<1> QED BY <1>1, <1>3

LEMMA OutcomeShape ==
    ASSUME Shapes, NEW s \in Sessions, NEW f \in Files, NEW ok \in BOOLEAN
    PROVE  Outcome(s, f, ok) \in [Files -> FileStatus]
BY DEF Outcome, Shapes, FileStatus

LEMMA AcceptedShapes ==
    ASSUME SendAssumption, Shapes, NEW s \in Sessions, NEW S \in SUBSET Offer[s], Accepted(s, S)
    PROVE  Shapes'
<1>1. S \in SUBSET Files
  BY DEF SendAssumption
<1>2. status' \in [Sessions -> SessionStatus]
  BY DEF Accepted, UpdateStatus, Shapes, SessionStatus
<1>3. phase' \in [Sessions -> {"idle", "requesting", "pin", "answered"}]
  BY DEF Accepted, Shapes
<1>4. CASE s \notin Live
  BY <1>2, <1>3, <1>4 DEF Accepted, Shapes
<1>5. CASE s \in Live
  <2>1. token' \in [Sessions -> SUBSET Files]
    <3>1. token' = [token EXCEPT ![s] = S]
      BY <1>5 DEF Accepted
    <3> QED BY <1>1, <3>1, Zenon DEF Shapes
  <2>2. PICK W \in kSubset(Min({Workers, Cardinality(S)}), S) :
           /\ loop' = [loop EXCEPT ![s] = W]
           /\ queue' = [queue EXCEPT ![s] = S \ W]
           /\ files' = [files EXCEPT ![s] =
                 [f \in Files |-> IF f \in W THEN "sending"
                                  ELSE IF f \in S THEN "queue" ELSE "skipped"]]
    BY <1>5 DEF Accepted
  <2>3. W \in SUBSET Files /\ S \ W \in SUBSET Files
    BY <1>1 DEF kSubset
  <2>4. loop' \in [Sessions -> SUBSET Files] /\ queue' \in [Sessions -> SUBSET Files]
    BY <2>2, <2>3, Zenon DEF Shapes
  <2>5. files' \in [Sessions -> [Files -> FileStatus]]
    BY <2>2 DEF Shapes, FileStatus
  <2>6. page' \in [Sessions -> {"none", "send", "replaced", "progress"}]
    <3>1. \E to \in {"replaced", "progress"} : page' = page \/ page' = [page EXCEPT ![s] = to]
      BY <1>5, Zenon DEF Accepted
    <3> QED BY <3>1 DEF Shapes
  <2> QED BY <1>2, <1>3, <2>1, <2>4, <2>5, <2>6 DEF Accepted, Shapes
<1> QED BY <1>4, <1>5

LEMMA UploadShapes ==
    ASSUME Shapes, NEW s \in Sessions, UploadStep(s)
    PROVE  Shapes'
<1>1. PICK f \in Files, ok \in BOOLEAN : UploadEnds(s, f, ok) \/ RetryEnds(s, f, ok)
  BY DEF UploadStep
<1>2. Outcome(s, f, ok) \in [Files -> FileStatus]
  BY OutcomeShape
<1>3. CASE UploadEnds(s, f, ok)
  <2>1. queue' \in [Sessions -> SUBSET Files] /\ loop' \in [Sessions -> SUBSET Files]
    <3>1. CASE \E g \in queue[s] : TakesNext(s, f, ok, g)
      <4>1. PICK g \in queue[s] : TakesNext(s, f, ok, g)
        BY <3>1
      <4>2. queue[s] \ {g} \in SUBSET Files /\ (loop[s] \ {f}) \cup {g} \in SUBSET Files
        BY DEF Shapes
      <4> QED BY <4>1, <4>2, Zenon DEF TakesNext, Shapes
    <3>2. CASE Stops(s, f, ok)
      <4>1. {} \in SUBSET Files /\ loop[s] \ {f} \in SUBSET Files
        BY DEF Shapes
      <4> QED BY <3>2, <4>1, Zenon DEF Stops, Shapes
    <3> QED BY <1>3, <3>1, <3>2, UploadCases
  <2>2. status' \in [Sessions -> SessionStatus] /\ files' \in [Sessions -> [Files -> FileStatus]]
    <3>1. CASE Finish(s, Outcome(s, f, ok))
      BY <1>2, <3>1, FinishShape
    <3>2. CASE KeepSending(s, Outcome(s, f, ok))
      BY <1>2, <3>2 DEF KeepSending, Shapes
    <3>3. CASE \E g \in queue[s] : KeepSending(s, [Outcome(s, f, ok) EXCEPT ![g] = "sending"])
      BY <1>2, <3>3 DEF KeepSending, Shapes, FileStatus
    <3> QED BY <1>3, <3>1, <3>2, <3>3 DEF UploadEnds
  <2> QED BY <1>3, <2>1, <2>2 DEF UploadEnds, Shapes, pageVars
<1>4. CASE RetryEnds(s, f, ok)
  <2>1. status' \in [Sessions -> SessionStatus] /\ files' \in [Sessions -> [Files -> FileStatus]]
    <3>1. CASE Finish(s, Outcome(s, f, ok))
      BY <1>2, <3>1, FinishShape
    <3>2. CASE KeepSending(s, Outcome(s, f, ok))
      BY <1>2, <3>2 DEF KeepSending, Shapes
    <3> QED BY <1>4, <3>1, <3>2 DEF RetryEnds
  <2>2. retry' \in [Sessions -> [Files -> Nat]]
    <3>1. retry' = [retry EXCEPT ![s][f] = retry[s][f] - 1] /\ retry[s][f] - 1 \in Nat
      BY <1>4 DEF RetryEnds, Shapes
    <3> QED BY <3>1 DEF Shapes
  <2> QED BY <1>4, <2>1, <2>2 DEF RetryEnds, Shapes, pageVars
<1> QED BY <1>1, <1>3, <1>4

LEMMA ReplyShapes ==
    ASSUME SendAssumption, Shapes, NEW s \in Sessions, ReplyStep(s)
    PROVE  Shapes'
<1>1. CASE PinRequired(s)
  BY <1>1 DEF PinRequired, Shapes, transferVars, pageVars
<1>2. CASE NothingSelected(s)
  BY <1>2 DEF NothingSelected, CloseSession, Shapes, SessionStatus, transferVars
<1>3. CASE \E refusal \in Refusals : Refused(s, refusal)
  BY <1>3 DEF Refused, Refusals, UpdateStatus, Shapes, SessionStatus, transferVars, pageVars
<1>4. CASE \E S \in (SUBSET Offer[s]) \ {{}} : Accepted(s, S)
  BY <1>4, AcceptedShapes
<1>5. CASE \E id \in Sessions \cup {None} : ReceiverCancels(s, id)
  BY <1>5 DEF ReceiverCancels, Shapes, SessionStatus, transferVars, pageVars
<1> QED BY <1>1, <1>2, <1>3, <1>4, <1>5 DEF ReplyStep

LEMMA UserShapes ==
    ASSUME SendAssumption, Shapes, NEW s \in Sessions, UserStep(s)
    PROVE  Shapes'
<1> USE DEF Shapes, transferVars, pageVars
<1>1. CASE Start(s)
  BY <1>1 DEF Start, SessionStatus
<1>2. CASE PinEntered(s)
  BY <1>2 DEF PinEntered
<1>3. CASE PinDismissed(s)
  BY <1>3 DEF PinDismissed, UpdateStatus, SessionStatus
<1>4. CASE UserCancels(s)
  BY <1>4 DEF UserCancels, CloseSession, PageCloses, SessionStatus
<1>5. CASE UserCloses(s)
  BY <1>5 DEF UserCloses, CloseSession, PageCloses, SessionStatus
<1>6. CASE UserLeaves(s)
  BY <1>6 DEF UserLeaves, PageCloses
<1>7. CASE UserOpens(s)
  BY <1>7 DEF UserOpens
<1>8. CASE OpenedPageReplaced(s)
  BY <1>8 DEF OpenedPageReplaced
<1>9. CASE UserReplaces(s)
  BY <1>9 DEF UserReplaces, CloseSession, SessionStatus
<1>10. CASE \E f \in Files : RetryStarts(s, f)
  <2>1. PICK f \in Files : RetryStarts(s, f)
    BY <1>10
  <2>2. status' \in [Sessions -> SessionStatus] /\ files' \in [Sessions -> [Files -> FileStatus]]
    BY <2>1 DEF RetryStarts, SessionStatus, FileStatus
  <2>3. retry' \in [Sessions -> [Files -> Nat]]
    BY <2>1 DEF RetryStarts
  <2>4. tries' \in [Sessions -> 0..MaxRetries]
    BY <2>1 DEF RetryStarts, SendAssumption
  <2>5. PICK b \in BOOLEAN : twice' = [twice EXCEPT ![s] = b]
    BY <2>1, Zenon DEF RetryStarts
  <2>6. twice' \in [Sessions -> BOOLEAN]
    BY <2>5
  <2> QED BY <2>1, <2>2, <2>3, <2>4, <2>6 DEF RetryStarts
<1>11. CASE PageRedraws(s)
  <2>1. Refreshable(files[s]) \in SUBSET Files
    BY DEF Refreshable
  <2> QED BY <1>11, <2>1 DEF PageRedraws
<1> QED BY <1>1, <1>2, <1>3, <1>4, <1>5, <1>6, <1>7, <1>8, <1>9, <1>10, <1>11 DEF UserStep

LEMMA ShapesStep == ASSUME SendAssumption, Shapes, [Next]_vars PROVE Shapes'
<1>1. CASE \E s \in Sessions : UploadStep(s) \/ ReplyStep(s) \/ UserStep(s)
  BY <1>1, UploadShapes, ReplyShapes, UserShapes
<1>2. CASE ClearAllSessions
  BY <1>2 DEF ClearAllSessions, Shapes, SessionStatus, transferVars, pageVars
<1>3. CASE UNCHANGED vars
  BY <1>3 DEF vars, transferVars, pageVars, Shapes
<1> QED BY <1>1, <1>2, <1>3 DEF Next

\* No more uploads than workers.
Busy == \A s \in Sessions : Cardinality(loop[s]) <= Workers

\* The smaller of two numbers is not greater than the first one.
LEMMA MinOfTwo == ASSUME NEW a \in Nat, NEW b \in Nat PROVE Min({a, b}) <= a
<1>1. \E x \in {a, b} : \A y \in {a, b} : x <= y
  BY SMT
<1> QED BY <1>1 DEF Min

LEMMA AcceptedBusy ==
    ASSUME SendAssumption, Shapes, Busy, NEW s \in Sessions, NEW S \in SUBSET Offer[s], Accepted(s, S)
    PROVE  Busy'
<1>1. CASE UNCHANGED loop
  BY <1>1 DEF Busy
<1>2. CASE \E W \in kSubset(Min({Workers, Cardinality(S)}), S) : loop' = [loop EXCEPT ![s] = W]
  <2>1. PICK W \in kSubset(Min({Workers, Cardinality(S)}), S) : loop' = [loop EXCEPT ![s] = W]
    BY <1>2
  <2>2. Cardinality(S) \in Nat
    <3>1. S \in SUBSET Files /\ IsFiniteSet(Files)
      BY DEF SendAssumption
    <3> QED BY <3>1, FS_Subset, FS_CardinalityType
  <2>3. Cardinality(W) <= Workers
    <3>1. Cardinality(W) = Min({Workers, Cardinality(S)})
      BY <2>1 DEF kSubset
    <3> QED BY <2>2, <3>1, MinOfTwo DEF SendAssumption
  <2> QED BY <2>1, <2>3 DEF Busy, Shapes
<1> QED BY <1>1, <1>2 DEF Accepted

LEMMA UploadBusy ==
    ASSUME SendAssumption, Shapes, Busy, NEW s \in Sessions, UploadStep(s)
    PROVE  Busy'
<1>1. PICK f \in Files, ok \in BOOLEAN : UploadEnds(s, f, ok) \/ RetryEnds(s, f, ok)
  BY DEF UploadStep
<1>2. CASE RetryEnds(s, f, ok)
  BY <1>2 DEF RetryEnds, Busy
<1>3. CASE UploadEnds(s, f, ok)
  <2>1. IsFiniteSet(loop[s]) /\ f \in loop[s]
    BY <1>3, FS_Subset DEF Shapes, SendAssumption, UploadEnds
  <2>2. Cardinality(loop[s]) \in Nat /\ Workers \in Nat /\ Cardinality(loop[s]) <= Workers
    BY <2>1, FS_CardinalityType DEF SendAssumption, Busy
  <2>3. IsFiniteSet(loop[s] \ {f}) /\ Cardinality(loop[s] \ {f}) = Cardinality(loop[s]) - 1
    BY <2>1, FS_RemoveElement
  <2>4. CASE Stops(s, f, ok)
    BY <2>2, <2>3, <2>4 DEF Stops, Busy, Shapes
  <2>5. CASE \E g \in queue[s] : TakesNext(s, f, ok, g)
    <3>1. PICK g \in queue[s] : TakesNext(s, f, ok, g)
      BY <2>5
    <3>2. Cardinality((loop[s] \ {f}) \cup {g}) \in {Cardinality(loop[s]) - 1, Cardinality(loop[s])}
      <4> DEFINE rest == loop[s] \ {f}
      <4> HIDE DEF rest
      <4>1. Cardinality(rest \cup {g}) \in {Cardinality(rest), Cardinality(rest) + 1}
        BY <2>3, FS_AddElement DEF rest
      <4> QED BY <2>2, <2>3, <4>1 DEF rest
    <3> QED BY <2>2, <3>1, <3>2 DEF TakesNext, Busy, Shapes
  <2> QED BY <1>3, <2>4, <2>5, UploadCases
<1> QED BY <1>1, <1>2, <1>3

LEMMA BusyStep == ASSUME SendAssumption, Shapes, Busy, [Next]_vars PROVE Busy'
<1>1. CASE \E s \in Sessions : UploadStep(s)
  BY <1>1, UploadBusy
<1>2. CASE \E s \in Sessions : \E S \in (SUBSET Offer[s]) \ {{}} : Accepted(s, S)
  BY <1>2, AcceptedBusy
<1>3. CASE UNCHANGED loop
  BY <1>3 DEF Busy
<1>4. ASSUME NEW s \in Sessions, ReplyStep(s) \/ UserStep(s)
      PROVE  UNCHANGED loop \/ \E S \in (SUBSET Offer[s]) \ {{}} : Accepted(s, S)
  BY <1>4 DEF ReplyStep, PinRequired, NothingSelected, Refused, ReceiverCancels,
              UserStep, Start, PinEntered, PinDismissed, UserCancels, UserCloses, UserLeaves,
              UserOpens, OpenedPageReplaced, UserReplaces, PageRedraws, RetryStarts, transferVars
<1>5. ClearAllSessions \/ UNCHANGED vars => UNCHANGED loop
  BY DEF ClearAllSessions, vars, transferVars
<1> QED BY <1>1, <1>2, <1>3, <1>4, <1>5 DEF Next

\* Every variable keeps its type, and no session ever has more uploads in its loop
\* than there are workers.
THEOREM TypeCorrect == Spec => []TypeOK
<1> USE SendAssumption
<1>1. Init => Shapes
  BY DEF Init, Shapes, NewFiles, SessionStatus, FileStatus
<1>2. Init => Busy
  BY FS_EmptySet DEF Init, Busy
<1>3. Shapes /\ Busy /\ [Next]_vars => (Shapes /\ Busy)'
  BY ShapesStep, BusyStep
<1>4. TypeOK <=> Shapes /\ Busy
  BY DEF TypeOK, Shapes, Busy
<1> QED BY <1>1, <1>2, <1>3, <1>4, PTL DEF Spec
-----------------------------------------------------------------------------
(* What the queue, the workers and the retries of a session hold *)

\* Before the receiver has answered, nothing is under way.
NotYet(s) ==
    /\ phase[s] = "idle" => status[s] = "none"
    /\ phase[s] \in {"requesting", "pin"} => status[s] \in {"none", "waiting"}
    /\ phase[s] # "answered" => /\ token[s] = {} /\ queue[s] = {} /\ loop[s] = {}
                                /\ Retried(s) = {} /\ shown[s] = {} /\ ~HasError(files[s])

\* A file is in one place of the loop, and what is or can be sent again is in none.
OnePlace(s) ==
    /\ loop[s] \cap queue[s] = {}
    /\ (Retried(s) \cup shown[s]) \cap (loop[s] \cup queue[s]) = {}

\* Where it is goes with its state, as long as the session is there to have states.
StatesMatch(s) ==
    s \in Live => /\ \A f \in loop[s] : files[s][f] = "sending"
                  /\ \A f \in queue[s] : files[s][f] = "queue"

\* As long as no file was sent again twice at once, the same goes for the retries.
RetriesMatch(s) ==
    ~twice[s] => \A f \in Retried(s) : /\ retry[s][f] = 1
                                       /\ s \in Live => files[s][f] = "sending"

\* Only the last worker or a retry after it ends the session.
LoopIsOver(s) == status[s] \in {"finished", "finishedWithErrors"} => queue[s] = {} /\ loop[s] = {}

\* An accepted file that waits is in the queue, unless the queue was emptied.
WaitsInQueue(s) ==
    status[s] \in {"sending", "finished", "finishedWithErrors"} =>
        \A f \in token[s] : files[s][f] = "queue" => f \in queue[s]

ErrorIsThere(s) ==
    status[s] = "finishedWithErrors" /\ token[s] # {} /\ ~twice[s] => HasError(files[s])

SInv(s) == /\ NotYet(s) /\ OnePlace(s) /\ StatesMatch(s) /\ RetriesMatch(s)
           /\ LoopIsOver(s) /\ WaitsInQueue(s) /\ ErrorIsThere(s)

Keeps(s) == NoUploadAfterCancel(s) /\ ReceiverCancelIsFinal(s) /\ RemovedStaysRemoved(s)

\* A step that begins no upload in a session may leave it in any state.
LEMMA NoneBegins ==
    ASSUME Shapes, NEW s \in Sessions, UNCHANGED retry[s], loop'[s] \subseteq loop[s]
    PROVE  NoUploadAfterCancel(s)
<1>1. \A f \in Files : ~(retry'[s][f] > retry[s][f])
  BY DEF Shapes
<1> QED BY <1>1 DEF NoUploadAfterCancel

\* What SInv and Keeps say of a session is left alone.
Same(s) ==
    UNCHANGED <<status[s], phase[s], files[s], token[s], queue[s], loop[s], retry[s], twice[s], shown[s]>>
Others(s) == \A t \in Sessions \ {s} : Same(t)

LEMMA SameKeeps == ASSUME Shapes, NEW s \in Sessions, SInv(s), Same(s) PROVE SInv(s)' /\ Keeps(s)
<1>1. UNCHANGED Retried(s)
  BY DEF Same, Retried
<1>2. SInv(s)'
  BY <1>1 DEF SInv, Same, NotYet, OnePlace, StatesMatch, RetriesMatch, LoopIsOver, WaitsInQueue,
              ErrorIsThere, HasError, Live
<1>3. Keeps(s)
  BY NoneBegins DEF Same, Keeps, ReceiverCancelIsFinal, RemovedStaysRemoved
<1> QED BY <1>2, <1>3

\* The effect of the steps on the status of a session that leave its files alone.
StatusOnly(s) ==
    /\ UNCHANGED <<files, token, queue, loop, retry, twice>>
    /\ shown'[s] = {} \/ UNCHANGED shown[s]
    /\ phase' \in [Sessions -> {"idle", "requesting", "pin", "answered"}]
    /\ \A t \in Sessions \ {s} : UNCHANGED <<status[t], phase[t], shown[t]>>
    /\ \/ UNCHANGED <<status[s], phase[s]>>
       \/ phase[s] = "idle" /\ phase'[s] = "requesting" /\ status'[s] = "waiting"
       \/ phase[s] \in {"requesting", "pin"} /\ phase'[s] \in {"requesting", "pin"} /\ UNCHANGED status[s]
       \/ status'[s] = "none" /\ (phase'[s] = phase[s] \/ phase'[s] = "answered")
       \/ /\ phase[s] \in {"requesting", "pin"} /\ phase'[s] = "answered"
          /\ status[s] # "none" /\ status'[s] # "none"
       \/ /\ status[s] = "sending" /\ status'[s] = "canceledByReceiver" /\ UNCHANGED phase[s]

LEMMA StatusOnlyKeeps ==
    ASSUME Shapes, NEW s \in Sessions, SInv(s), StatusOnly(s)
    PROVE  SInv(s)' /\ Keeps(s) /\ Others(s)
<1>0. UNCHANGED Retried(s)
  BY DEF StatusOnly, Retried
<1>1. Others(s)
  BY DEF StatusOnly, Others, Same
<1>2. Keeps(s)
  <2>1. NoUploadAfterCancel(s)
    BY NoneBegins DEF StatusOnly
  <2> QED BY <2>1 DEF StatusOnly, Keeps, ReceiverCancelIsFinal, RemovedStaysRemoved, SInv, NotYet
<1>3. NotYet(s)'
  BY <1>0 DEF StatusOnly, SInv, NotYet, HasError
<1>4. OnePlace(s)'
  BY <1>0 DEF StatusOnly, SInv, OnePlace
<1>5. StatesMatch(s)' /\ RetriesMatch(s)'
  BY <1>0 DEF StatusOnly, SInv, NotYet, StatesMatch, RetriesMatch, Live
<1>6. LoopIsOver(s)' /\ WaitsInQueue(s)' /\ ErrorIsThere(s)'
  BY DEF StatusOnly, SInv, NotYet, LoopIsOver, WaitsInQueue, ErrorIsThere, HasError
<1> QED BY <1>1, <1>2, <1>3, <1>4, <1>5, <1>6 DEF SInv

\* Most steps are of that kind.
LEMMA MostAreStatusOnly ==
    ASSUME Shapes, NEW s \in Sessions, SInv(s),
           \/ Start(s) \/ PinRequired(s) \/ PinEntered(s) \/ PinDismissed(s)
           \/ NothingSelected(s) \/ \E refusal \in Refusals : Refused(s, refusal)
           \/ UserCancels(s) \/ UserCloses(s) \/ UserLeaves(s) \/ UserOpens(s)
           \/ OpenedPageReplaced(s) \/ UserReplaces(s)
           \/ \E id \in Sessions \cup {None} : ReceiverCancels(s, id)
    PROVE  StatusOnly(s)
<1> USE DEF StatusOnly, Shapes, transferVars, pageVars
<1>1. CASE Start(s)
  BY <1>1 DEF Start
<1>2. CASE PinRequired(s) \/ PinEntered(s)
  BY <1>2 DEF PinRequired, PinEntered
<1>3. CASE PinDismissed(s)
  BY <1>3 DEF PinDismissed, UpdateStatus, Live
<1>4. CASE NothingSelected(s)
  BY <1>4 DEF NothingSelected, CloseSession
<1>5. CASE \E refusal \in Refusals : Refused(s, refusal)
  BY <1>5 DEF Refused, Refusals, UpdateStatus, Live
<1>6. CASE UserCancels(s) \/ UserCloses(s) \/ UserReplaces(s)
  BY <1>6 DEF UserCancels, UserCloses, UserReplaces, CloseSession, PageCloses
<1>7. CASE UserLeaves(s) \/ UserOpens(s) \/ OpenedPageReplaced(s)
  BY <1>7 DEF UserLeaves, UserOpens, OpenedPageReplaced, PageCloses
<1>8. CASE \E id \in Sessions \cup {None} : ReceiverCancels(s, id)
  BY <1>8 DEF ReceiverCancels
<1> QED BY <1>1, <1>2, <1>3, <1>4, <1>5, <1>6, <1>7, <1>8

\* Tokens for S: the workers have W in their hands, the rest of S waits.
LEMMA AcceptedKeeps ==
    ASSUME SendAssumption, Shapes, NEW s \in Sessions, SInv(s),
           NEW S \in (SUBSET Offer[s]) \ {{}}, Accepted(s, S)
    PROVE  SInv(s)' /\ Keeps(s) /\ Others(s)
<1>1. CASE s \notin Live
  <2>1. StatusOnly(s)
    BY <1>1 DEF Accepted, UpdateStatus, StatusOnly, Live, Shapes
  <2> QED BY <2>1, StatusOnlyKeeps
<1>2. CASE s \in Live
  <2>1. status[s] = "waiting" /\ Retried(s) = {} /\ shown[s] = {}
    BY <1>2 DEF Accepted, SInv, NotYet, Live
  <2>2. /\ status'[s] = "sending" /\ phase'[s] = "answered" /\ token'[s] = S
        /\ UNCHANGED <<retry, twice, shown>> /\ Retried(s)' = {}
        /\ \A t \in Sessions \ {s} : UNCHANGED <<status[t], phase[t], token[t]>>
    BY <1>2, <2>1 DEF Accepted, UpdateStatus, Shapes, Retried
  <2>3. PICK W \in kSubset(Min({Workers, Cardinality(S)}), S) :
           /\ loop' = [loop EXCEPT ![s] = W]
           /\ queue' = [queue EXCEPT ![s] = S \ W]
           /\ files' = [files EXCEPT ![s] =
                 [f \in Files |-> IF f \in W THEN "sending"
                                  ELSE IF f \in S THEN "queue" ELSE "skipped"]]
    BY <1>2 DEF Accepted
  <2>4. W \subseteq S /\ S \subseteq Files
    BY DEF kSubset, SendAssumption
  <2>5. /\ loop'[s] = W /\ queue'[s] = S \ W
        /\ \A f \in Files : files'[s][f] = IF f \in W THEN "sending"
                                           ELSE IF f \in S THEN "queue" ELSE "skipped"
        /\ \A t \in Sessions \ {s} : UNCHANGED <<loop[t], queue[t], files[t]>>
    BY <2>3 DEF Shapes
  <2>6. Others(s)
    BY <2>2, <2>5 DEF Others, Same
  <2>7. Keeps(s)
    BY <2>1, <2>2 DEF Keeps, NoUploadAfterCancel, ReceiverCancelIsFinal, RemovedStaysRemoved
  <2>8. SInv(s)'
    BY <2>1, <2>2, <2>4, <2>5 DEF SInv, NotYet, OnePlace, StatesMatch, RetriesMatch, LoopIsOver,
                                  WaitsInQueue, ErrorIsThere
  <2> QED BY <2>6, <2>7, <2>8
<1> QED BY <1>1, <1>2

\* A page offers only files that have failed, and those are nowhere in the loop.
LEMMA PageRedrawsKeeps ==
    ASSUME Shapes, NEW s \in Sessions, SInv(s), PageRedraws(s)
    PROVE  SInv(s)' /\ Keeps(s) /\ Others(s)
<1>1. /\ UNCHANGED <<status, phase, files, token, queue, loop, retry, twice>>
      /\ shown'[s] = IF s \in Live THEN Refreshable(files[s]) ELSE {}
      /\ \A t \in Sessions \ {s} : UNCHANGED shown[t]
  BY DEF PageRedraws, transferVars, Shapes
<1>2. UNCHANGED Retried(s)
  BY <1>1 DEF Retried
<1>3. Others(s)
  BY <1>1 DEF Others, Same
<1>4. Keeps(s)
  BY <1>1, NoneBegins DEF Keeps, ReceiverCancelIsFinal, RemovedStaysRemoved
<1>5. NotYet(s)'
  <2>1. phase[s] # "answered" => shown'[s] = {}
    BY <1>1 DEF SInv, NotYet, HasError, Refreshable
  <2> QED BY <1>1, <1>2, <2>1 DEF SInv, NotYet, HasError
<1>6. OnePlace(s)'
  <2>1. \A f \in shown'[s] : s \in Live /\ files[s][f] = "failed"
    BY <1>1 DEF Refreshable
  <2>2. shown'[s] \cap (loop[s] \cup queue[s]) = {}
    BY <2>1 DEF SInv, StatesMatch
  <2> QED BY <1>1, <1>2, <2>2 DEF SInv, OnePlace
<1>7. StatesMatch(s)' /\ RetriesMatch(s)' /\ LoopIsOver(s)' /\ WaitsInQueue(s)' /\ ErrorIsThere(s)'
  BY <1>1, <1>2 DEF SInv, StatesMatch, RetriesMatch, LoopIsOver, WaitsInQueue, ErrorIsThere, HasError, Live
<1> QED BY <1>3, <1>4, <1>5, <1>6, <1>7 DEF SInv

\* A file that is sent again is nowhere in the loop, although the page may be a frame behind.
LEMMA RetryStartsKeeps ==
    ASSUME Shapes, NEW s \in Sessions, SInv(s), NEW f \in Files, RetryStarts(s, f)
    PROVE  SInv(s)' /\ Keeps(s) /\ Others(s)
<1>1. status[s] \in AllowedStates /\ f \in shown[s] /\ s \in Live
  BY DEF RetryStarts, Live, AllowedStates
<1>2. f \notin loop[s] \cup queue[s] /\ phase[s] = "answered"
  BY <1>1 DEF SInv, OnePlace, NotYet, Shapes
<1>3. /\ status'[s] = "sending" /\ UNCHANGED <<phase, token, queue, loop, shown>>
      /\ files'[s] = [files[s] EXCEPT ![f] = "sending"]
      /\ retry'[s] = [retry[s] EXCEPT ![f] = retry[s][f] + 1]
      /\ \A t \in Sessions \ {s} : UNCHANGED <<status[t], retry[t], files[t], twice[t]>>
  BY DEF RetryStarts, Shapes, pageVars
<1>4. \A g \in Files : files'[s][g] = IF g = f THEN "sending" ELSE files[s][g]
  BY <1>3 DEF Shapes
<1>5. /\ retry[s] \in [Files -> Nat]
      /\ \A g \in Files : retry'[s][g] = IF g = f THEN retry[s][f] + 1 ELSE retry[s][g]
  BY <1>3 DEF Shapes
<1>6. Retried(s)' = Retried(s) \cup {f}
  BY <1>5 DEF Retried
<1>7. ~twice'[s] => ~twice[s] /\ retry[s][f] = 0
  <2>1. PICK b : b = (twice[s] \/ retry[s][f] > 0) /\ twice' = [twice EXCEPT ![s] = b]
    BY Zenon DEF RetryStarts
  <2>2. twice'[s] = b
    BY <2>1, Zenon DEF Shapes
  <2>3. ~twice'[s] => ~twice[s] /\ ~(retry[s][f] > 0)
    BY <2>1, <2>2, Zenon
  <2> QED BY <1>5, <2>3
<1>8. Others(s)
  BY <1>3 DEF Others, Same
<1>9. Keeps(s)
  BY <1>1, <1>3 DEF Keeps, NoUploadAfterCancel, ReceiverCancelIsFinal, RemovedStaysRemoved, AllowedStates
<1>10. NotYet(s)' /\ OnePlace(s)' /\ LoopIsOver(s)' /\ ErrorIsThere(s)'
  BY <1>1, <1>2, <1>3, <1>6 DEF SInv, NotYet, OnePlace, LoopIsOver, ErrorIsThere
<1>11. StatesMatch(s)'
  BY <1>1, <1>2, <1>3, <1>4 DEF SInv, StatesMatch, Shapes
<1>12. RetriesMatch(s)'
  <2>1. ASSUME ~twice'[s], NEW g \in Retried(s)'
        PROVE  retry'[s][g] = 1 /\ files'[s][g] = "sending"
    <3>1. CASE g = f
      BY <1>4, <1>5, <1>7, <2>1, <3>1
    <3>2. CASE g # f
      <4>1. g \in Retried(s) /\ g \in Files
        BY <1>6, <3>2 DEF Retried
      <4> QED BY <1>1, <1>4, <1>5, <1>7, <2>1, <3>2, <4>1 DEF SInv, RetriesMatch
    <3> QED BY <3>1, <3>2
  <2> QED BY <2>1 DEF RetriesMatch
<1>13. WaitsInQueue(s)'
  BY <1>1, <1>3, <1>4 DEF SInv, WaitsInQueue, AllowedStates, Shapes
<1> QED BY <1>8, <1>9, <1>10, <1>11, <1>12, <1>13 DEF SInv

\* What _finish() makes of the status of a session whose files are fs.
LEMMA FinishStatus ==
    ASSUME Shapes, NEW s \in Sessions, NEW fs, Finish(s, fs)
    PROVE  /\ files'[s] = fs /\ \A t \in Sessions \ {s} : UNCHANGED <<files[t], status[t]>>
           /\ status[s] # "sending" => UNCHANGED status[s]
           /\ status[s] = "sending" =>
                status'[s] \in {"none"} \cup (IF HasError(fs) THEN {"finishedWithErrors"} ELSE {"finished"})
<1>1. files'[s] = fs /\ \A t \in Sessions \ {s} : UNCHANGED files[t]
  BY DEF Finish, Shapes
<1>2. CASE status[s] # "sending"
  <2>1. UNCHANGED status
    BY <1>2 DEF Finish
  <2> QED BY <1>1, <1>2, <2>1
<1>3. CASE status[s] = "sending"
  <2>1. \E st \in {"none"} \cup (IF HasError(fs) THEN {"finishedWithErrors"} ELSE {"finished"}) :
          status' = [status EXCEPT ![s] = st]
    BY <1>3, Zenon DEF Finish, UpdateStatus, CloseSession, Live
  <2> QED BY <1>1, <1>3, <2>1 DEF Shapes
<1> QED BY <1>2, <1>3

\* The end of a retry: it changes the state of that file only, and ends the session only
\* if no other file is under way or waits.
LEMMA RetryEndsKeeps ==
    ASSUME Shapes, NEW s \in Sessions, SInv(s), NEW f \in Files, NEW ok \in BOOLEAN, RetryEnds(s, f, ok)
    PROVE  SInv(s)' /\ Keeps(s) /\ Others(s)
<1> DEFINE fs == Outcome(s, f, ok)
<1>1. /\ f \in Retried(s) /\ retry'[s] = [retry[s] EXCEPT ![f] = retry[s][f] - 1]
      /\ UNCHANGED <<phase, token, queue, loop, twice, shown>>
      /\ \A t \in Sessions \ {s} : UNCHANGED retry[t]
  BY DEF RetryEnds, Shapes, Retried, pageVars
<1>2. phase[s] = "answered" /\ f \notin loop[s] \cup queue[s]
  BY <1>1 DEF SInv, NotYet, OnePlace
<1>20. /\ retry[s] \in [Files -> Nat]
       /\ \A g \in Files : retry'[s][g] = IF g = f THEN retry[s][f] - 1 ELSE retry[s][g]
  BY <1>1 DEF Shapes
<1>21. Retried(s)' \subseteq Retried(s) /\ (retry[s][f] = 1 => f \notin Retried(s)')
  BY <1>20 DEF Retried
<1>3. fs \in [Files -> FileStatus] /\ \A g \in Files \ {f} : fs[g] = files[s][g]
  BY OutcomeShape DEF Outcome, Shapes
<1>4. s \in Live => fs[f] \in {"finished", "failed"}
  BY <1>1 DEF Outcome, Shapes
<1>5. files'[s] = fs /\ \A t \in Sessions \ {s} : UNCHANGED <<files[t], status[t]>>
  <2>1. CASE Finish(s, fs)
    BY <2>1, FinishStatus
  <2>2. CASE KeepSending(s, fs)
    BY <2>2 DEF KeepSending, Shapes
  <2> QED BY <2>1, <2>2 DEF RetryEnds
<1>6. \/ UNCHANGED status[s]
      \/ /\ status[s] = "sending" /\ IsFinishedOrError(fs)
         /\ status'[s] \in {"none"} \cup (IF HasError(fs) THEN {"finishedWithErrors"} ELSE {"finished"})
  <2>1. CASE Finish(s, fs) /\ IsFinishedOrError(fs)
    BY <2>1, FinishStatus
  <2>2. CASE KeepSending(s, fs)
    BY <2>2 DEF KeepSending
  <2> QED BY <2>1, <2>2 DEF RetryEnds
<1> HIDE DEF fs
<1>7. Others(s)
  BY <1>1, <1>5 DEF Others, Same
<1>8. Keeps(s)
  <2>1. loop'[s] \subseteq loop[s] /\ \A g \in Files : ~(retry'[s][g] > retry[s][g])
    BY <1>1, <1>20
  <2>2. NoUploadAfterCancel(s)
    BY <2>1 DEF NoUploadAfterCancel
  <2> QED BY <1>1, <1>6, <2>2 DEF Keeps, ReceiverCancelIsFinal, RemovedStaysRemoved
<1>9. NotYet(s)' /\ OnePlace(s)'
  BY <1>1, <1>2, <1>21 DEF SInv, NotYet, OnePlace
<1>10. StatesMatch(s)' /\ RetriesMatch(s)'
  <2>1. s \in Live' => s \in Live
    BY <1>6 DEF Live
  <2>2. StatesMatch(s)'
    BY <1>1, <1>2, <1>3, <1>5, <2>1 DEF SInv, StatesMatch, Shapes
  <2>3. ASSUME ~twice[s], NEW g \in Retried(s)'
        PROVE  retry'[s][g] = 1 /\ (s \in Live' => files'[s][g] = "sending")
    <3>1. g \in Retried(s) /\ g \in Files /\ g # f
      BY <1>1, <1>21, <2>3 DEF SInv, RetriesMatch, Retried
    <3> QED BY <1>3, <1>5, <1>20, <2>1, <2>3, <3>1 DEF SInv, RetriesMatch
  <2>4. RetriesMatch(s)'
    BY <1>1, <2>3 DEF RetriesMatch
  <2> QED BY <2>2, <2>4
<1>11. WaitsInQueue(s)'
  <2>1. status'[s] \in {"sending", "finished", "finishedWithErrors"} =>
          status[s] \in {"sending", "finished", "finishedWithErrors"} /\ s \in Live
    BY <1>6 DEF Live
  <2> QED BY <1>1, <1>3, <1>4, <1>5, <2>1 DEF SInv, WaitsInQueue, Shapes
<1>12. LoopIsOver(s)'
  <2>1. CASE UNCHANGED status[s]
    BY <1>1, <2>1 DEF SInv, LoopIsOver
  <2>2. CASE status[s] = "sending" /\ IsFinishedOrError(fs)
    <3>1. \A g \in loop[s] \cup queue[s] : g \in Files \ {f} /\ fs[g] \in {"sending", "queue"}
      BY <1>2, <1>3, <2>2 DEF SInv, StatesMatch, Live, Shapes
    <3>2. loop[s] = {} /\ queue[s] = {}
      BY <2>2, <3>1 DEF IsFinishedOrError
    <3> QED BY <1>1, <3>2 DEF LoopIsOver
  <2> QED BY <1>6, <2>1, <2>2
<1>13. ErrorIsThere(s)'
  <2>1. CASE UNCHANGED status[s] /\ status[s] = "finishedWithErrors"
    <3>1. s \in Live
      BY <2>1 DEF Live
    <3>2. ~twice[s] => files[s][f] = "sending"
      BY <1>1, <3>1 DEF SInv, RetriesMatch
    <3> QED BY <1>1, <1>3, <1>4, <1>5, <2>1, <3>1, <3>2 DEF SInv, ErrorIsThere, HasError
  <2>2. CASE status'[s] = "finishedWithErrors" /\ status[s] = "sending"
    BY <1>5, <1>6, <2>2 DEF ErrorIsThere
  <2> QED BY <1>6, <2>1, <2>2 DEF ErrorIsThere
<1> QED BY <1>7, <1>8, <1>9, <1>10, <1>11, <1>12, <1>13 DEF SInv

\* A worker that goes on does so in a session that is still sending.
LEMMA TakesNextKeeps ==
    ASSUME Shapes, NEW s \in Sessions, SInv(s), NEW f \in loop[s], NEW ok \in BOOLEAN,
           NEW g \in queue[s], TakesNext(s, f, ok, g), UNCHANGED <<phase, token, retry, twice, shown>>
    PROVE  SInv(s)' /\ Keeps(s) /\ Others(s)
<1> DEFINE fs == [Outcome(s, f, ok) EXCEPT ![g] = "sending"]
<1>0. UNCHANGED Retried(s) /\ Retried(s) \subseteq Files
  BY DEF Retried
<1>1. f \in Files /\ g \in Files /\ g # f /\ f \notin queue[s] \cup Retried(s) /\ g \notin Retried(s)
      /\ phase[s] = "answered"
  BY DEF Shapes, SInv, OnePlace, NotYet
<1>2. status[s] = "sending" /\ s \in Live
  BY DEF TakesNext, AllowedStates, SInv, LoopIsOver, Live
<1>3. /\ queue'[s] = queue[s] \ {g} /\ loop'[s] = (loop[s] \ {f}) \cup {g}
      /\ files'[s] = fs /\ UNCHANGED status
      /\ \A t \in Sessions \ {s} : UNCHANGED <<queue[t], loop[t], files[t]>>
  BY DEF TakesNext, KeepSending, Shapes
<1>4. fs[g] = "sending" /\ fs[f] # "queue" /\ \A h \in Files \ {f, g} : fs[h] = files[s][h]
  BY <1>1, <1>2, OutcomeShape DEF Outcome, Shapes
<1> HIDE DEF fs
<1>5. Others(s)
  BY <1>3 DEF Others, Same
<1>6. Keeps(s)
  BY <1>2, <1>3 DEF Keeps, NoUploadAfterCancel, ReceiverCancelIsFinal, RemovedStaysRemoved, AllowedStates
<1>7. NotYet(s)' /\ OnePlace(s)' /\ LoopIsOver(s)' /\ ErrorIsThere(s)' /\ RetriesMatch(s)'
  <2>1. \A h \in Retried(s) : fs[h] = files[s][h]
    BY <1>0, <1>1, <1>4
  <2> QED BY <1>0, <1>1, <1>2, <1>3, <2>1 DEF SInv, NotYet, OnePlace, LoopIsOver, ErrorIsThere, RetriesMatch, Live
<1>8. StatesMatch(s)'
  <2>1. \A h \in loop'[s] : h = g \/ h \in loop[s] \ {f, g}
    BY <1>1, <1>3
  <2>2. \A h \in loop[s] : h \in Files /\ files[s][h] = "sending"
    BY <1>2 DEF SInv, StatesMatch, Shapes
  <2>3. \A h \in loop'[s] : fs[h] = "sending"
    BY <1>4, <2>1, <2>2
  <2>4. \A h \in queue'[s] : h \in Files \ {f, g} /\ files[s][h] = "queue"
    BY <1>1, <1>2, <1>3 DEF SInv, StatesMatch, Shapes
  <2> QED BY <1>3, <1>4, <2>3, <2>4 DEF StatesMatch
<1>9. WaitsInQueue(s)'
  BY <1>1, <1>2, <1>3, <1>4 DEF SInv, WaitsInQueue, Shapes
<1> QED BY <1>5, <1>6, <1>7, <1>8, <1>9 DEF SInv

\* A worker that stops empties the queue; the last one ends the session, unless
\* it was ended otherwise.
LEMMA StopsKeeps ==
    ASSUME Shapes, NEW s \in Sessions, SInv(s), NEW f \in loop[s], NEW ok \in BOOLEAN,
           Stops(s, f, ok), UNCHANGED <<phase, token, retry, twice, shown>>
    PROVE  SInv(s)' /\ Keeps(s) /\ Others(s)
<1> DEFINE fs == Outcome(s, f, ok)
<1>0. UNCHANGED Retried(s) /\ Retried(s) \subseteq Files
  BY DEF Retried
<1>1. f \in Files /\ f \notin queue[s] \cup Retried(s) /\ phase[s] = "answered"
  BY DEF Shapes, SInv, OnePlace, NotYet
<1>2. status[s] \notin {"finished", "finishedWithErrors"} /\ (status[s] = "sending" => queue[s] = {})
  BY DEF SInv, LoopIsOver, Stops, AllowedStates
<1>3. /\ queue'[s] = {} /\ loop'[s] = loop[s] \ {f}
      /\ \A t \in Sessions \ {s} : UNCHANGED <<queue[t], loop[t]>>
  BY DEF Stops, Shapes
<1>4. s \in Live => fs[f] # "queue"
  BY <1>1 DEF Outcome, Shapes
<1>5. \A h \in Files \ {f} : fs[h] = files[s][h]
  BY DEF Outcome, Shapes
<1>6. files'[s] = fs /\ \A t \in Sessions \ {s} : UNCHANGED <<files[t], status[t]>>
  <2>1. CASE Finish(s, fs)
    BY <2>1, FinishStatus
  <2>2. CASE KeepSending(s, fs)
    BY <2>2 DEF KeepSending, Shapes
  <2> QED BY <2>1, <2>2 DEF Stops
<1>7. \/ UNCHANGED status[s]
      \/ /\ status[s] = "sending" /\ loop[s] = {f}
         /\ status'[s] \in {"none"} \cup (IF HasError(fs) THEN {"finishedWithErrors"} ELSE {"finished"})
  <2>1. CASE Finish(s, fs) /\ loop[s] = {f}
    BY <2>1, FinishStatus
  <2>2. CASE KeepSending(s, fs)
    BY <2>2 DEF KeepSending
  <2> QED BY <2>1, <2>2 DEF Stops
<1> HIDE DEF fs
<1>8. Others(s)
  BY <1>3, <1>6 DEF Others, Same
<1>9. Keeps(s)
  BY <1>3, <1>7, NoneBegins DEF Keeps, ReceiverCancelIsFinal, RemovedStaysRemoved
<1>10. NotYet(s)' /\ OnePlace(s)'
  BY <1>0, <1>1, <1>3 DEF SInv, NotYet, OnePlace
<1>11. StatesMatch(s)' /\ RetriesMatch(s)'
  <2>1. s \in Live' => s \in Live
    BY <1>7 DEF Live
  <2>2. \A h \in Retried(s) : fs[h] = files[s][h]
    BY <1>0, <1>1, <1>5
  <2> QED BY <1>0, <1>1, <1>3, <1>5, <1>6, <2>1, <2>2 DEF SInv, StatesMatch, RetriesMatch, Shapes
<1>12. LoopIsOver(s)' /\ ErrorIsThere(s)'
  BY <1>2, <1>3, <1>6, <1>7 DEF LoopIsOver, ErrorIsThere
<1>13. WaitsInQueue(s)'
  <2>1. status'[s] \in {"sending", "finished", "finishedWithErrors"} =>
          status[s] = "sending" /\ s \in Live /\ queue[s] = {}
    BY <1>2, <1>7 DEF Live
  <2> QED BY <1>3, <1>4, <1>5, <1>6, <2>1 DEF SInv, WaitsInQueue, Shapes
<1> QED BY <1>8, <1>9, <1>10, <1>11, <1>12, <1>13 DEF SInv

\* Every step of a session keeps its invariant and leaves the others alone.
LEMMA SessionStep ==
    ASSUME SendAssumption, Shapes, NEW s \in Sessions, SInv(s), UploadStep(s) \/ ReplyStep(s) \/ UserStep(s)
    PROVE  SInv(s)' /\ Keeps(s) /\ Others(s)
<1>1. CASE StatusOnly(s)
  BY <1>1, StatusOnlyKeeps
<1>2. CASE \E S \in (SUBSET Offer[s]) \ {{}} : Accepted(s, S)
  BY <1>2, AcceptedKeeps
<1>3. CASE \E f \in Files : RetryStarts(s, f)
  BY <1>3, RetryStartsKeeps
<1>7. CASE PageRedraws(s)
  BY <1>7, PageRedrawsKeeps
<1>4. CASE UploadStep(s)
  <2>1. PICK f \in Files, ok \in BOOLEAN : UploadEnds(s, f, ok) \/ RetryEnds(s, f, ok)
    BY <1>4 DEF UploadStep
  <2>2. CASE RetryEnds(s, f, ok)
    BY <2>2, RetryEndsKeeps
  <2>3. CASE UploadEnds(s, f, ok)
    <3>1. f \in loop[s] /\ UNCHANGED <<phase, token, retry, twice, shown>>
      BY <2>3 DEF UploadEnds, pageVars
    <3>2. CASE \E g \in queue[s] : TakesNext(s, f, ok, g)
      BY <3>1, <3>2, TakesNextKeeps
    <3>3. CASE Stops(s, f, ok)
      BY <3>1, <3>3, StopsKeeps
    <3> QED BY <2>3, <3>2, <3>3, UploadCases
  <2> QED BY <2>1, <2>2, <2>3
<1>5. CASE ReplyStep(s)
  BY <1>1, <1>2, <1>5, MostAreStatusOnly DEF ReplyStep
<1>6. CASE UserStep(s)
  BY <1>1, <1>3, <1>6, <1>7, MostAreStatusOnly DEF UserStep
<1> QED BY <1>4, <1>5, <1>6

\* Every step keeps the invariant of every session.
LEMMA InvStep ==
    ASSUME SendAssumption, Shapes, \A s \in Sessions : SInv(s), [Next]_vars, NEW t \in Sessions
    PROVE  SInv(t)' /\ Keeps(t)
<1>1. ASSUME NEW s \in Sessions, UploadStep(s) \/ ReplyStep(s) \/ UserStep(s)
      PROVE  SInv(t)' /\ Keeps(t)
  <2>1. SInv(s)' /\ Keeps(s) /\ Others(s)
    BY <1>1, SessionStep
  <2>2. CASE t # s
    BY <2>1, <2>2, SameKeeps DEF Others
  <2> QED BY <2>1, <2>2
<1>2. CASE ClearAllSessions
  <2>1. SInv(t)'
    <3>1. /\ UNCHANGED <<files[t], phase[t], token[t], queue[t], loop[t], retry[t], twice[t], shown[t]>>
          /\ status'[t] = "none" /\ UNCHANGED Retried(t)
      BY <1>2 DEF ClearAllSessions, transferVars, pageVars, Retried
    <3> QED BY <3>1 DEF SInv, NotYet, OnePlace, StatesMatch, RetriesMatch, LoopIsOver,
                        WaitsInQueue, ErrorIsThere, Live, HasError
  <2>2. Keeps(t)
    <3>1. NoUploadAfterCancel(t)
      BY <1>2, NoneBegins DEF ClearAllSessions, transferVars
    <3> QED BY <1>2, <3>1 DEF ClearAllSessions, Keeps, ReceiverCancelIsFinal, RemovedStaysRemoved
  <2> QED BY <2>1, <2>2
<1>3. CASE UNCHANGED vars
  BY <1>3, SameKeeps DEF vars, transferVars, pageVars, Same
<1> QED BY <1>1, <1>2, <1>3 DEF Next

LEMMA InvInit == Init => \A s \in Sessions : SInv(s)
<1> SUFFICES ASSUME Init, NEW s \in Sessions PROVE SInv(s)
  OBVIOUS
<1>1. Retried(s) = {} /\ shown[s] = {} /\ ~HasError(files[s])
  BY DEF Init, Retried, HasError, NewFiles
<1> QED BY <1>1 DEF Init, SInv, NotYet, OnePlace, StatesMatch, RetriesMatch, LoopIsOver, WaitsInQueue,
                    ErrorIsThere, Live

\* The inductive invariant of the module: whatever the receivers answer and the users
\* tap, the files of each session are where their states say.
THEOREM Invariance == Spec => [](Shapes /\ \A s \in Sessions : SInv(s))
<1> USE SendAssumption
<1>1. Init => Shapes
  BY DEF Init, Shapes, NewFiles, SessionStatus, FileStatus
<1>2. Shapes /\ (\A s \in Sessions : SInv(s)) /\ [Next]_vars => (Shapes /\ \A s \in Sessions : SInv(s))'
  BY ShapesStep, InvStep
<1> QED BY InvInit, <1>1, <1>2, PTL DEF Spec

\* A refresh button never sends a file that a worker holds or will take, however many
\* retries overlap with the loop and with each other, and although the page that shows
\* the button may be a frame behind.
THEOREM UploadsDoNotMeet == Spec => []LoopAndRetriesApart
<1>1. (\A s \in Sessions : SInv(s)) => LoopAndRetriesApart
  BY DEF SInv, OnePlace, LoopAndRetriesApart
<1> QED BY <1>1, Invariance, PTL

\* When a session has an outcome, no accepted file was left in the queue; an outcome with
\* errors shows a file to send again unless a file was sent again twice at once.  (That a
\* finished session has sent every file is not so: see FinishedMeansSent.)
THEOREM OutcomesAreTrue == Spec => []OutcomeIsTrue
<1>1. (\A s \in Sessions : SInv(s)) => OutcomeIsTrue
  BY DEF SInv, LoopIsOver, WaitsInQueue, ErrorIsThere, OutcomeIsTrue, NothingLeftBehind, ErrorsAreShown
<1> QED BY <1>1, Invariance, PTL

\* No late answer, PIN, worker or retry starts an upload in a session that was cancelled,
\* closed or cleared, brings it back, or overwrites the receiver's cancellation.
THEOREM EndedSessionsStayEnded == Spec => EndedStaysEnded
<1> USE SendAssumption
<1>1. Shapes /\ (\A s \in Sessions : SInv(s)) /\ [Next]_vars => [KeepsEnded]_vars
  BY InvStep DEF KeepsEnded, Keeps
<1> QED BY <1>1, Invariance, PTL DEF Spec, EndedStaysEnded

=============================================================================
