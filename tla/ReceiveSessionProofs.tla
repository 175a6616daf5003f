------------------------ MODULE ReceiveSessionProofs ------------------------
(***************************************************************************)
(* Proofs about ReceiveSession, for any requests, uploads, files, senders  *)
(* and settings.                                                           *)
(*                                                                         *)
(* TypeOK is inductive by itself.  The safety invariants are not: IInv     *)
(* below adds what the handlers rely on from one await to the next.        *)
(***************************************************************************)
EXTENDS ReceiveSession, TLAPS

-----------------------------------------------------------------------------
(* The effect of the helpers on the type of the state *)

\* Granting keeps the types of what the session holds.
LEMMA GrantType ==
    ASSUME TypeOK, NEW p \in Prepares, NEW cur \in Prepares,
           NEW selection \in SUBSET Files, Grant(p, selection, cur)
    PROVE  /\ session' = cur /\ status' = "sending" /\ handler' = FALSE
           /\ files' \in [Files -> FileStatus]
           /\ token' \in [Files -> Prepares \cup {None}]
           /\ granted' \in [Prepares -> SUBSET Files]
           /\ pc' \in [Prepares -> PreparePc]
           /\ code' \in [Prepares -> {0, 200, 204, 400, 403, 500}]
<1>1. files' \in [Files -> FileStatus]
  BY DEF Grant, FileStatus
<1>2. token' \in [Files -> Prepares \cup {None}]
  BY DEF Grant
<1>3. granted' \in [Prepares -> SUBSET Files]
  BY DEF Grant, TypeOK
<1>4. pc' \in [Prepares -> PreparePc] /\ code' \in [Prepares -> {0, 200, 204, 400, 403, 500}]
  BY DEF Grant, TypeOK, AnswerPrepare, PreparePc, Created
<1> QED BY <1>1, <1>2, <1>3, <1>4 DEF Grant

\* What every step keeps of the session's own variables.
SessionType ==
    /\ session \in Prepares \cup {None}
    /\ status \in SessionStatus
    /\ (session = None) <=> (status = "none")
    /\ files \in [Files -> FileStatus]
    /\ token \in [Files -> Prepares \cup {None}]
    /\ handler \in BOOLEAN

\* What Resume writes has its type.
LEMMA ResumeType ==
    ASSUME ReceiveAssumption, TypeOK, NEW p \in Prepares, NEW answer,
           NEW selection \in SUBSET Files, Resume(p, answer, selection)
    PROVE  /\ SessionType'
           /\ granted' \in [Prepares -> SUBSET Files]
           /\ pc' \in [Prepares -> PreparePc]
           /\ code' \in [Prepares -> {0, 200, 204, 400, 403, 500}]
<1>1. CASE session = None
  BY SMTT(20), <1>1 DEF Resume, AnswerPrepare, TypeOK, SessionType, sessionVars, PreparePc, Created
<1>2. CASE session # None /\ CloseSession /\ UNCHANGED granted /\ \E c \in {403, 204} : AnswerPrepare(p, c)
  <2>1. SessionType'
    BY <1>2 DEF CloseSession, SessionType, SessionStatus, FileStatus, NoFiles, NoTokens
  <2>2. PICK c \in {403, 204} : AnswerPrepare(p, c)
    BY <1>2
  <2>3. pc' \in [Prepares -> PreparePc] /\ code' \in [Prepares -> {0, 200, 204, 400, 403, 500}]
    BY <2>2 DEF AnswerPrepare, TypeOK, PreparePc, Created
  <2> QED BY <1>2, <2>1, <2>3 DEF TypeOK
<1>3. CASE session # None /\ Grant(p, selection, session)
  <2>1. session \in Prepares
    BY <1>3 DEF TypeOK
  <2>2. session # None /\ status' # "none" /\ status' \in SessionStatus
    BY <1>3 DEF Grant, SessionStatus
  <2>3. /\ session' = session /\ handler' = FALSE
        /\ files' \in [Files -> FileStatus]
        /\ token' \in [Files -> Prepares \cup {None}]
        /\ granted' \in [Prepares -> SUBSET Files]
        /\ pc' \in [Prepares -> PreparePc]
        /\ code' \in [Prepares -> {0, 200, 204, 400, 403, 500}]
    BY ZenonT(40), <1>3, <2>1, GrantType
  <2> QED BY <2>1, <2>2, <2>3, ReceiveAssumption DEF SessionType, ReceiveAssumption
<1>4. CASE session # None /\ CloseSession /\ UNCHANGED granted /\ AnswerPrepare(p, 403)
  BY <1>2, <1>4
<1>5. CASE session # None /\ CloseSession /\ UNCHANGED granted /\ AnswerPrepare(p, 204)
  BY <1>2, <1>5
<1> QED BY <1>1, <1>3, <1>4, <1>5 DEF Resume

\* So has what an answer of the user writes.
LEMMA PutReplyType ==
    ASSUME ReceiveAssumption, TypeOK, handler => session # None,
           NEW answer \in {"declined", "accepted"},
           NEW selection \in SUBSET Files, PutReply(answer, selection)
    PROVE  /\ SessionType'
           /\ verdict' \in [Prepares -> {"none", "declined", "accepted"}]
           /\ selected' \in [Prepares -> SUBSET Files]
           /\ granted' \in [Prepares -> SUBSET Files]
           /\ pc' \in [Prepares -> PreparePc]
           /\ code' \in [Prepares -> {0, 200, 204, 400, 403, 500}]
<1>1. CASE UNCHANGED <<sessionVars, prepareVars>>
  BY <1>1 DEF TypeOK, SessionType, sessionVars, prepareVars
<1>2. CASE /\ handler
           /\ verdict' = [verdict EXCEPT ![session] = answer]
           /\ selected' = [selected EXCEPT ![session] = selection]
           /\ \/ Resume(session, answer, selection)
              \/ UNCHANGED <<sessionVars, pc, granted, code>>
  <2>1. session \in Prepares
    BY <1>2 DEF TypeOK
  <2>2. /\ verdict' \in [Prepares -> {"none", "declined", "accepted"}]
        /\ selected' \in [Prepares -> SUBSET Files]
    BY <1>2, <2>1 DEF TypeOK
  <2>3. CASE UNCHANGED <<sessionVars, pc, granted, code>>
    BY <2>2, <2>3 DEF TypeOK, SessionType, sessionVars
  <2>4. CASE Resume(session, answer, selection)
    BY <2>1, <2>2, <2>4, ResumeType
  <2> QED BY <1>2, <2>3, <2>4
<1> QED BY <1>1, <1>2 DEF PutReply

-----------------------------------------------------------------------------
(* Type correctness *)

\* A response handler belongs to a session.
HandlerHasSession == handler => session # None

\* The variables of the prepare-upload requests, of the uploads and of the
\* pages, as TypeOK types them.
PrepareType ==
    /\ pc \in [Prepares -> PreparePc]
    /\ verdict \in [Prepares -> {"none", "declined", "accepted"}]
    /\ selected \in [Prepares -> SUBSET Files]
    /\ granted \in [Prepares -> SUBSET Files]
    /\ code \in [Prepares -> {0, 200, 204, 400, 403, 500}]

UploadType ==
    /\ upc \in [Uploads -> UploadPc]
    /\ ufile \in [Uploads -> Files \cup {None}]
    /\ uown \in [Uploads -> Prepares \cup {None}]
    /\ ucode \in [Uploads -> {0, 200, 400, 500}]
    /\ stored \in SUBSET Files

PageType ==
    /\ page \in Prepares \cup {None}
    /\ shownCancel \in BOOLEAN /\ progressOpen \in BOOLEAN
    /\ timers \in SUBSET Uploads

LEMMA TypeParts == TypeOK <=> SessionType /\ PrepareType /\ UploadType /\ PageType
BY DEF TypeOK, SessionType, PrepareType, UploadType, PageType

LEMMA TypePartsNext ==
    (SessionType /\ PrepareType /\ UploadType /\ PageType)' => TypeOK'
BY DEF TypeOK, SessionType, PrepareType, UploadType, PageType

\* A file an upload may carry while it is being served.
ServedFile == \A u \in Uploads : upc[u] \in {"saving", "history"} => ufile[u] \in Files

TypeInv == TypeOK /\ HandlerHasSession /\ ServedFile

LEMMA TypeInit == ASSUME ReceiveAssumption, Init PROVE TypeInv
BY ZenonT(40) DEF ReceiveAssumption, Init, TypeInv, TypeOK, HandlerHasSession, ServedFile,
       SessionStatus, FileStatus, PreparePc, UploadPc, NoFiles, NoTokens

\* Closing the session leaves no session, whichever it was.
LEMMA CloseType == ASSUME CloseSession PROVE SessionType' /\ HandlerHasSession'
BY DEF CloseSession, SessionType, HandlerHasSession, SessionStatus, FileStatus, NoFiles, NoTokens

\* Every step of a prepare-upload handler keeps the types.
LEMMA PrepareStepType ==
    ASSUME ReceiveAssumption, TypeInv, NEW p \in Prepares, PrepareArrives(p) \/ PrepareStep(p)
    PROVE  TypeInv'
<1> USE DEF TypeInv
<1>1. CASE PrepareArrives(p) \/ PrepareBodyRead(p) \/ PermissionReturns(p) \/ PrepareDies(p)
  <2>1. UNCHANGED <<sessionVars, verdict, selected, granted, uploadVars, uiVars, timers>>
    BY <1>1 DEF PrepareArrives, PrepareBodyRead, PermissionReturns, PrepareDies
  <2>2. PrepareType'
    BY <1>1, <2>1, SMTT(30) DEF PrepareArrives, PrepareBodyRead, PermissionReturns, PrepareDies, AnswerPrepare,
                      TypeOK, PrepareType, PreparePc, Created
  <2>3. SessionType' /\ UploadType' /\ PageType' /\ HandlerHasSession' /\ ServedFile'
    BY <2>1 DEF TypeOK, SessionType, UploadType, PageType, HandlerHasSession, ServedFile,
                sessionVars, uploadVars, uiVars
  <2> QED BY <2>2, <2>3, TypePartsNext
<1>2. CASE PrepareCreates(p)
  <2>1. UploadType' /\ PageType' /\ ServedFile'
    BY <1>2, ZenonT(40) DEF PrepareCreates, TypeOK, UploadType, PageType, ServedFile, uploadVars
  <2>2. CASE Grant(p, Offer[p], p) /\ p \in QuickSave
    <3>1. Offer[p] \in SUBSET Files
      BY DEF ReceiveAssumption
    <3>2. /\ session' = p /\ status' = "sending" /\ handler' = FALSE
          /\ files' \in [Files -> FileStatus]
          /\ token' \in [Files -> Prepares \cup {None}]
          /\ granted' \in [Prepares -> SUBSET Files]
          /\ pc' \in [Prepares -> PreparePc]
          /\ code' \in [Prepares -> {0, 200, 204, 400, 403, 500}]
      BY <2>2, <3>1, GrantType
    <3>3. SessionType' /\ HandlerHasSession'
      BY <3>2 DEF SessionType, HandlerHasSession, SessionStatus, ReceiveAssumption
    <3>4. /\ verdict' = [verdict EXCEPT ![p] = "accepted"]
          /\ selected' = [selected EXCEPT ![p] = Offer[p]]
      BY <1>2, <2>2 DEF PrepareCreates
    <3>5. PrepareType'
      BY <3>1, <3>2, <3>4 DEF PrepareType, TypeOK
    <3> QED BY <2>1, <3>3, <3>5, TypePartsNext
  <2>3. CASE p \notin QuickSave
    <3>1. SessionType' /\ HandlerHasSession'
      BY <1>2, <2>3 DEF PrepareCreates, SessionType, HandlerHasSession, SessionStatus, FileStatus,
                        NoTokens, ReceiveAssumption
    <3>2. PrepareType'
      BY <1>2, <2>3 DEF PrepareCreates, PrepareType, TypeOK, PreparePc, Created
    <3> QED BY <2>1, <3>1, <3>2, TypePartsNext
  <2> QED BY <1>2, <2>2, <2>3 DEF PrepareCreates
<1>3. CASE PreparePrompts(p)
  <2>1. UploadType' /\ PageType' /\ ServedFile'
    BY <1>3 DEF PreparePrompts, TypeOK, UploadType, PageType, ServedFile, uploadVars
  <2>2. CASE pc' = [pc EXCEPT ![p] = "asked"] /\ UNCHANGED <<sessionVars, granted, code>>
    <3>1. SessionType' /\ HandlerHasSession' /\ PrepareType'
      BY <1>3, <2>2 DEF PreparePrompts, TypeOK, SessionType, HandlerHasSession, PrepareType,
                        sessionVars, PreparePc, Created
    <3> QED BY <2>1, <3>1, TypePartsNext
  <2>3. CASE Resume(p, verdict[p], selected[p])
    <3>1. selected[p] \in SUBSET Files
      BY DEF TypeOK
    <3>2. /\ SessionType'
          /\ granted' \in [Prepares -> SUBSET Files]
          /\ pc' \in [Prepares -> PreparePc]
          /\ code' \in [Prepares -> {0, 200, 204, 400, 403, 500}]
      BY <2>3, <3>1, ResumeType
    <3>3. HandlerHasSession'
      BY <2>3 DEF Resume, Grant, CloseSession, sessionVars, HandlerHasSession
    <3>4. PrepareType'
      BY <1>3, <3>2 DEF PreparePrompts, PrepareType, TypeOK
    <3> QED BY <2>1, <3>2, <3>3, <3>4, TypePartsNext
  <2> QED BY <1>3, <2>2, <2>3 DEF PreparePrompts
<1> QED BY <1>1, <1>2, <1>3 DEF PrepareStep

\* So does every step of an upload handler.
LEMMA UploadStepType ==
    ASSUME ReceiveAssumption, TypeInv, NEW u \in Uploads, UploadStep(u)
    PROVE  TypeInv'
<1> USE DEF TypeInv
<1>1. CASE TimerFires(u)
  <2>1. PrepareType' /\ UploadType' /\ PageType' /\ ServedFile'
    BY <1>1, ZenonT(40) DEF TimerFires, PageGone, TypeOK, PrepareType, UploadType, PageType, ServedFile,
                prepareVars, uploadVars
  <2> QED BY <1>1, <2>1, CloseType, TypePartsNext DEF TimerFires
<1>2. ASSUME upc[u] \in {"saving", "history"},
             ufile' = ufile, uown' = uown,
             stored' \in SUBSET Files,
             UNCHANGED <<prepareVars, uiVars>>,
             SessionType', HandlerHasSession',
             timers' \in SUBSET Uploads,
             \E s \in {"history", "answered", "hung"} : upc' = [upc EXCEPT ![u] = s],
             ucode' = ucode \/ \E c \in {200, 500} : ucode' = [ucode EXCEPT ![u] = c]
      PROVE  TypeInv'
  <2>1. PrepareType' /\ PageType'
    BY <1>2 DEF TypeOK, PrepareType, PageType, prepareVars, uiVars
  <2>2. UploadType' /\ ServedFile'
    BY <1>2 DEF TypeOK, UploadType, UploadPc, ServedFile
  <2> QED BY <1>2, <2>1, <2>2, TypePartsNext
<1>3. ASSUME upc[u] \in {"saving", "history"}, ufile' = ufile, uown' = uown,
             stored' \in SUBSET Files, UNCHANGED <<prepareVars, uiVars>>, Hang(u)
      PROVE  TypeInv'
  <2>1. SessionType' /\ HandlerHasSession' /\ timers' \in SUBSET Uploads
    BY <1>3 DEF Hang, TypeOK, SessionType, HandlerHasSession, sessionVars
  <2> QED BY <1>2, <1>3, <2>1 DEF Hang
<1>4. ASSUME upc[u] \in {"saving", "history"}, ufile' = ufile, uown' = uown,
             stored' \in SUBSET Files, UNCHANGED <<prepareVars, uiVars>>,
             NEW fs \in [Files -> FileStatus], Conclude(u, fs)
      PROVE  TypeInv'
  <2>1. SessionType' /\ HandlerHasSession' /\ timers' \in SUBSET Uploads
    BY <1>4 DEF Conclude, EndSession, TypeOK, SessionType, SessionStatus, HandlerHasSession, sessionVars
  <2>2. PICK c \in {200, 500} : AnswerUpload(u, c)
    BY <1>4 DEF Conclude
  <2>3. /\ upc' = [upc EXCEPT ![u] = "answered"]
        /\ ucode' = [ucode EXCEPT ![u] = c]
    BY <2>2 DEF AnswerUpload
  <2> QED BY ZenonT(40), <1>2, <1>4, <2>1, <2>3
<1>5. upc[u] \in {"saving", "history"} => ufile[u] \in Files
  BY DEF ServedFile
<1>6. \A st \in FileStatus : [files EXCEPT ![ufile[u]] = st] \in [Files -> FileStatus]
  BY ZenonT(40) DEF TypeOK
<1>7. files \in [Files -> FileStatus] /\ "failed" \in FileStatus /\ "finished" \in FileStatus
  BY DEF TypeOK, FileStatus
<1>8. ASSUME upc[u] \in {"saving", "history"}, ufile' = ufile, uown' = uown,
             stored' \in SUBSET Files, UNCHANGED <<prepareVars, uiVars>>, Fail(u)
      PROVE  TypeInv'
  BY <1>3, <1>4, <1>6, <1>7, <1>8 DEF Fail
<1>9. CASE SaveSucceeds(u)
  <2>1. /\ upc[u] \in {"saving", "history"} /\ ufile' = ufile /\ uown' = uown
        /\ stored' \in SUBSET Files /\ UNCHANGED <<prepareVars, uiVars>>
    BY <1>5, <1>9 DEF SaveSucceeds, TypeOK
  <2>2. CASE AnswerUpload(u, 500) /\ UNCHANGED <<sessionVars, timers>>
    <3>1. SessionType' /\ HandlerHasSession' /\ timers' \in SUBSET Uploads
      BY <2>2 DEF TypeOK, SessionType, HandlerHasSession, sessionVars
    <3> QED BY <1>2, <2>1, <2>2, <3>1 DEF AnswerUpload
  <2>3. CASE Hang(u)
    BY <1>3, <2>1, <2>3
  <2>4. CASE /\ files' = [files EXCEPT ![ufile[u]] = "finished"]
             /\ upc' = [upc EXCEPT ![u] = "history"]
             /\ UNCHANGED <<session, status, token, handler, ucode, timers>>
    <3>1. SessionType' /\ HandlerHasSession' /\ timers' \in SUBSET Uploads
      BY <1>6, <1>7, <2>4 DEF TypeOK, SessionType, HandlerHasSession
    <3> QED BY <1>2, <2>1, <2>4, <3>1
  <2> QED BY <1>9, <2>2, <2>3, <2>4 DEF SaveSucceeds
<1>10. CASE SaveFails(u)
  BY <1>8, <1>10 DEF SaveFails, TypeOK
<1>11. CASE HistoryReturns(u)
  <2>1. stored' \in SUBSET Files
    BY <1>11 DEF HistoryReturns, TypeOK
  <2> QED BY <1>4, <1>7, <1>8, <1>11, <2>1 DEF HistoryReturns
<1> QED BY <1>1, <1>9, <1>10, <1>11 DEF UploadStep

\* So does what the senders do.
LEMMA SenderStepType ==
    ASSUME ReceiveAssumption, TypeInv, SenderStep
    PROVE  TypeInv'
<1> USE DEF TypeInv
<1>1. CASE \E p \in Prepares : PrepareArrives(p)
  BY <1>1, PrepareStepType
<1>2. CASE \E p \in Prepares, withId \in BOOLEAN : SenderCancels(p, withId)
  <2>1. PrepareType' /\ UploadType' /\ PageType' /\ ServedFile'
    BY <1>2 DEF SenderCancels, TypeOK, PrepareType, UploadType, PageType, ServedFile,
                prepareVars, uploadVars, uiVars
  <2>2. SessionType' /\ HandlerHasSession'
    BY <1>2 DEF SenderCancels, TypeOK, SessionType, HandlerHasSession, SessionStatus
  <2> QED BY <2>1, <2>2, TypePartsNext
<1>3. ASSUME NEW u \in Uploads, NEW p \in Prepares, NEW f \in Files, NEW withId \in BOOLEAN,
             UploadArrives(u, p, f, withId)
      PROVE  TypeInv'
  <2>1. PrepareType' /\ PageType'
    BY <1>3 DEF UploadArrives, TypeOK, PrepareType, PageType, prepareVars, uiVars
  <2>2. CASE Admissible(p, f, withId)
    <3>1. SessionType' /\ HandlerHasSession'
      BY SMTT(20), <1>3, <2>2 DEF UploadArrives, Admissible, AllowedStates, TypeOK, SessionType, SessionStatus, FileStatus,
                        HandlerHasSession
    <3>2. UploadType' /\ ServedFile'
      <4>1. /\ ufile' = [ufile EXCEPT ![u] = f] /\ upc' = [upc EXCEPT ![u] = "saving"]
            /\ uown' = [uown EXCEPT ![u] = session] /\ ucode' = ucode /\ stored' = stored
        BY <1>3, <2>2 DEF UploadArrives
      <4> QED BY <4>1 DEF TypeOK, UploadType, UploadPc, ServedFile
    <3> QED BY <2>1, <3>1, <3>2, TypePartsNext
  <2>3. CASE ~Admissible(p, f, withId)
    <3>1. SessionType' /\ HandlerHasSession'
      BY <1>3, <2>3 DEF UploadArrives, TypeOK, SessionType, HandlerHasSession
    <3>2. UploadType' /\ ServedFile'
      <4>1. /\ ufile' = [ufile EXCEPT ![u] = f] /\ upc' = [upc EXCEPT ![u] = "answered"]
            /\ ucode' = [ucode EXCEPT ![u] = 400] /\ uown' = uown /\ stored' = stored
        BY <1>3, <2>3 DEF UploadArrives
      <4> QED BY <4>1 DEF TypeOK, UploadType, UploadPc, ServedFile
    <3> QED BY <2>1, <3>1, <3>2, TypePartsNext
  <2> QED BY <2>2, <2>3
<1> QED BY <1>1, <1>2, <1>3 DEF SenderStep

\* So does what the user does.
LEMMA UserStepType ==
    ASSUME ReceiveAssumption, TypeInv, UserStep
    PROVE  TypeInv'
<1> USE DEF TypeInv
<1>1. ASSUME NEW answer \in {"declined", "accepted"}, NEW selection \in SUBSET Files,
             PutReply(answer, selection), PageGone, UNCHANGED <<uploadVars, timers>>,
             progressOpen' \in BOOLEAN
      PROVE  TypeInv'
  <2>1. SessionType' /\ PrepareType'
    BY <1>1, PutReplyType DEF PrepareType, HandlerHasSession
  <2>2. UploadType' /\ PageType' /\ ServedFile'
    BY <1>1, ZenonT(40) DEF PageGone, TypeOK, UploadType, PageType, ServedFile, uploadVars
  <2>3. HandlerHasSession'
    BY <1>1 DEF PutReply, Resume, Grant, CloseSession, sessionVars, HandlerHasSession
  <2> QED BY <2>1, <2>2, <2>3, TypePartsNext
<1>2. ASSUME NEW selection \in SUBSET Files, UserAccepts(selection)
      PROVE  TypeInv'
  <2>1. progressOpen' \in BOOLEAN
    BY <1>2, ZenonT(40) DEF UserAccepts, TypeOK
  <2> QED BY <1>1, <1>2, <2>1 DEF UserAccepts
<1>3. CASE UserDeclines
  <2>1. progressOpen' \in BOOLEAN
    BY <1>3 DEF UserDeclines, TypeOK
  <2>2. "declined" \in {"declined", "accepted"} /\ {} \in SUBSET Files
    OBVIOUS
  <2>3. PutReply("declined", {}) /\ PageGone /\ UNCHANGED <<uploadVars, timers>>
    BY <1>3 DEF UserDeclines
  <2> QED BY <1>1, <2>1, <2>2, <2>3
<1>4. CASE UserCloses \/ UserLeavesProgress
  <2>1. CloseSession /\ UNCHANGED <<prepareVars, uploadVars, timers>>
    BY <1>4 DEF UserCloses, UserLeavesProgress
  <2>2. PageType'
    <3>1. CASE UserCloses
      BY <3>1 DEF UserCloses, PageGone, TypeOK, PageType
    <3>2. CASE UserLeavesProgress
      BY <3>2 DEF UserLeavesProgress, TypeOK, PageType
    <3> QED BY <1>4, <3>1, <3>2
  <2>3. PrepareType' /\ UploadType' /\ ServedFile'
    BY <2>1 DEF TypeOK, PrepareType, UploadType, ServedFile, prepareVars, uploadVars
  <2> QED BY <2>1, <2>2, <2>3, CloseType, TypePartsNext
<1>5. CASE UserPopsBlankPage \/ PageRedraws
  <2>1. UNCHANGED <<sessionVars, prepareVars, uploadVars, timers, progressOpen>>
    BY <1>5 DEF UserPopsBlankPage, PageRedraws
  <2>2. page' \in {page, None} /\ shownCancel' \in BOOLEAN
    BY <1>5 DEF UserPopsBlankPage, PageRedraws, PageGone
  <2>3. PageType'
    BY <2>1, <2>2 DEF TypeOK, PageType
  <2>4. PrepareType' /\ UploadType' /\ ServedFile' /\ SessionType' /\ HandlerHasSession'
    BY <2>1 DEF TypeOK, PrepareType, UploadType, ServedFile, SessionType, HandlerHasSession,
                prepareVars, uploadVars, sessionVars
  <2> QED BY <2>3, <2>4, TypePartsNext
<1> QED BY <1>2, <1>3, <1>4, <1>5 DEF UserStep

LEMMA TypeStep == ASSUME ReceiveAssumption, TypeInv, [Next]_vars PROVE TypeInv'
<1>1. CASE UNCHANGED vars
  BY <1>1 DEF vars, sessionVars, prepareVars, uploadVars, uiVars, TypeInv, TypeOK,
              HandlerHasSession, ServedFile
<1> QED BY <1>1, PrepareStepType, UploadStepType, SenderStepType, UserStepType DEF Next

\* Every variable always has its type, whatever requests, uploads and user
\* actions interleave.
THEOREM TypeCorrect == Spec => []TypeOK
<1> USE ReceiveAssumption
<1>1. Init => TypeInv
  BY TypeInit
<1>2. TypeInv /\ [Next]_vars => TypeInv'
  BY TypeStep
<1>3. TypeInv => TypeOK
  BY DEF TypeInv
<1> QED BY <1>1, <1>2, <1>3, PTL DEF Spec

-----------------------------------------------------------------------------
(* The inductive invariant *)

Uploading == {"saving", "history"}

\* The session's request is past the creation of its session, and its files
\* are those it offers.
SessionInv ==
    /\ HandlerHasSession
    /\ session # None => /\ pc[session] \in Created
                         /\ \A f \in Offer[session] : files[f] # "absent"

\* Before its session exists a request has no answer, and without an answer it
\* has no selection.
ReplyInv ==
    /\ \A p \in Prepares : pc[p] \notin Created => verdict[p] = "none"
    /\ \A p \in Prepares : verdict[p] = "none" => selected[p] = {}

\* A token is only given to a selected file.
TokenInv == \A f \in Files : token[f] # None => /\ f \in Consented
                                               /\ files[f] \notin {"absent", "skipped"}

\* A running upload carries a selected file of the session it was admitted to
\* and has not been acknowledged; a finished file is on disk.
UploadInv ==
    /\ \A u \in Uploads : upc[u] \in Uploading => ufile[u] \in Consented
    /\ \A u \in Uploads : upc[u] \in Uploading \cup {"idle"} => ucode[u] # 200
    /\ \A u \in Uploads : upc[u] \in Uploading \cup {"hung"} =>
           /\ uown[u] \in Prepares /\ pc[uown[u]] \in Created
           /\ ufile[u] \in Offer[uown[u]]
    /\ \A f \in Files : files[f] = "finished" => f \in stored

IInv == /\ TypeOK /\ SessionInv /\ ReplyInv /\ TokenInv /\ UploadInv
        /\ StoredWithConsent /\ AckedIsStored /\ FinishedIsStored
        /\ WaitingIsAnswerable /\ HungOnlyIfGone

LEMMA IInvTypes == IInv => TypeInv
<1> SUFFICES ASSUME IInv PROVE TypeInv
  OBVIOUS
<1>1. Consented \subseteq Files
  BY DEF IInv, TypeOK, Consented
<1> QED BY <1>1 DEF IInv, TypeInv, SessionInv, UploadInv, Uploading, ServedFile

LEMMA IInvInit == ASSUME ReceiveAssumption, Init PROVE IInv
<1>1. TypeOK /\ HandlerHasSession
  BY TypeInit DEF TypeInv
<1>2. SessionInv /\ ReplyInv /\ TokenInv /\ UploadInv
  BY <1>1 DEF Init, SessionInv, ReplyInv, TokenInv, UploadInv, Uploading, NoTokens, NoFiles
<1>3. StoredWithConsent /\ AckedIsStored /\ FinishedIsStored /\ WaitingIsAnswerable /\ HungOnlyIfGone
  BY DEF Init, StoredWithConsent, AckedIsStored, Acked, FinishedIsStored, WaitingIsAnswerable, HungOnlyIfGone
<1> QED BY <1>1, <1>2, <1>3 DEF IInv

\* Consent is never withdrawn: what was selected stays selected.
LEMMA ConsentGrows ==
    ASSUME TypeOK, \A q \in Prepares : selected[q] \subseteq selected'[q]
    PROVE  Consented \subseteq Consented'
BY DEF Consented, TypeOK

\* What the uploads rely on outlives every step of the other actors: the
\* session stays, goes or is replaced by that of a request that had none.
LEMMA UploadsUndisturbed ==
    ASSUME ReceiveAssumption, IInv, UNCHANGED uploadVars, Consented \subseteq Consented',
           \A q \in Prepares : pc[q] \in Created => pc'[q] \in Created,
           session' \in {session, None} \/ (session' \in Prepares /\ pc[session'] \notin Created),
           \A f \in Files : files'[f] = "finished" => files[f] = "finished"
    PROVE  UploadInv' /\ StoredWithConsent' /\ AckedIsStored' /\ HungOnlyIfGone'
<1>1. UploadInv'
  BY DEF IInv, UploadInv, uploadVars, Uploading
<1>2. StoredWithConsent' /\ AckedIsStored'
  BY DEF IInv, StoredWithConsent, AckedIsStored, Acked, uploadVars
<1>3. HungOnlyIfGone'
  BY DEF IInv, HungOnlyIfGone, UploadInv, uploadVars, Uploading, SessionInv, ReceiveAssumption
<1> QED BY <1>1, <1>2, <1>3

\* Without a session there is nothing to get wrong about it.
LEMMA CloseSafe ==
    ASSUME CloseSession
    PROVE  SessionInv' /\ TokenInv' /\ FinishedIsStored' /\ WaitingIsAnswerable'
BY DEF CloseSession, SessionInv, HandlerHasSession, TokenInv, NoTokens, NoFiles,
       FinishedIsStored, WaitingIsAnswerable

\* Tokens are granted within the consent.
LEMMA GrantSafe ==
    ASSUME ReceiveAssumption, TypeOK, NEW p \in Prepares, NEW cur \in Prepares,
           NEW selection \in SUBSET Files, selection \subseteq Consented',
           pc[cur] \in Created \/ cur = p, Grant(p, selection, cur)
    PROVE  /\ SessionInv' /\ TokenInv' /\ FinishedIsStored' /\ WaitingIsAnswerable'
           /\ \A q \in Prepares : pc[q] \in Created => pc'[q] \in Created
           /\ pc'[p] \in Created
           /\ \A f \in Files : files'[f] # "finished"
<1>1. /\ pc'[p] \in Created
      /\ \A q \in Prepares : pc[q] \in Created => pc'[q] \in Created
  BY DEF Grant, AnswerPrepare, Created, TypeOK
<1>2. Offer[cur] \subseteq Files
  BY DEF ReceiveAssumption
<1>3. SessionInv'
  <2>1. \A f \in Offer[cur] : files'[f] # "absent"
    BY <1>2 DEF Grant
  <2> QED BY <1>1, <2>1 DEF Grant, SessionInv, HandlerHasSession
<1>4. TokenInv'
  BY DEF Grant, TokenInv
<1>5. FinishedIsStored' /\ WaitingIsAnswerable' /\ \A f \in Files : files'[f] # "finished"
  BY DEF Grant, FinishedIsStored, WaitingIsAnswerable
<1> QED BY <1>1, <1>3, <1>4, <1>5

\* Whatever the answer that a handler goes on with, the session is in order
\* afterwards.
LEMMA ResumeSafe ==
    ASSUME ReceiveAssumption, IInv, NEW p \in Prepares, NEW answer, NEW selection \in SUBSET Files,
           selection \subseteq Consented', Consented \subseteq Consented', Resume(p, answer, selection)
    PROVE  /\ SessionInv' /\ TokenInv' /\ FinishedIsStored' /\ WaitingIsAnswerable'
           /\ \A q \in Prepares : pc[q] \in Created => pc'[q] \in Created
           /\ session' \in {session, None}
           /\ \A f \in Files : files'[f] = "finished" => files[f] = "finished"
<1> USE DEF IInv
<1>1. CASE session = None
  <2>1. UNCHANGED sessionVars /\ pc' = [pc EXCEPT ![p] = "answered"]
    BY <1>1 DEF Resume, AnswerPrepare
  <2> QED BY <1>1, <2>1 DEF sessionVars, SessionInv, HandlerHasSession, TokenInv, FinishedIsStored,
                            WaitingIsAnswerable, TypeOK, Created
<1>2. ASSUME CloseSession, NEW c, AnswerPrepare(p, c)
      PROVE  /\ SessionInv' /\ TokenInv' /\ FinishedIsStored' /\ WaitingIsAnswerable'
             /\ \A q \in Prepares : pc[q] \in Created => pc'[q] \in Created
             /\ session' \in {session, None}
             /\ \A f \in Files : files'[f] = "finished" => files[f] = "finished"
  <2>1. \A q \in Prepares : pc[q] \in Created => pc'[q] \in Created
    BY <1>2 DEF AnswerPrepare, TypeOK, Created
  <2> QED BY <1>2, <2>1, CloseSafe DEF CloseSession, NoFiles
<1>3. CASE session # None /\ Grant(p, selection, session)
  <2>1. session \in Prepares /\ pc[session] \in Created
    BY <1>3 DEF TypeOK, SessionInv
  <2>2. session' = session
    BY <1>3 DEF Grant
  <2> QED BY <1>3, <2>1, <2>2, GrantSafe
<1>4. CASE CloseSession /\ (AnswerPrepare(p, 403) \/ AnswerPrepare(p, 204))
  BY <1>2, <1>4
<1> QED BY <1>1, <1>3, <1>4 DEF Resume

\* The prepare-upload handlers keep the invariant.
LEMMA PrepareStepSafe ==
    ASSUME ReceiveAssumption, IInv, TypeOK', NEW p \in Prepares, PrepareArrives(p) \/ PrepareStep(p)
    PROVE  IInv'
<1> USE DEF IInv
<1>1. CASE PrepareArrives(p) \/ PrepareBodyRead(p) \/ PermissionReturns(p) \/ PrepareDies(p)
  <2>1. /\ UNCHANGED <<sessionVars, verdict, selected, uploadVars>>
        /\ pc[p] \notin {"asked", "dead"}
    BY <1>1 DEF PrepareArrives, PrepareBodyRead, PermissionReturns, PrepareDies
  <2>2. \E x \in PreparePc : /\ pc' = [pc EXCEPT ![p] = x]
                             /\ pc[p] \in Created => x \in Created
                             /\ pc[p] = "window" => x = "dead"
    BY <1>1 DEF PrepareArrives, PrepareBodyRead, PermissionReturns, PrepareDies, AnswerPrepare, PreparePc, Created
  <2>3. /\ \A q \in Prepares : pc[q] \in Created => pc'[q] \in Created
        /\ \A q \in Prepares : pc[q] \in {"window", "asked", "dead"} => pc'[q] \in {pc[q], "dead"}
    BY <2>1, <2>2, SMTT(30) DEF TypeOK
  <2>4. Consented' = Consented
    BY <2>1 DEF Consented
  <2>5. UploadInv' /\ StoredWithConsent' /\ AckedIsStored' /\ HungOnlyIfGone'
    BY <2>1, <2>3, <2>4, UploadsUndisturbed DEF sessionVars
  <2>6. SessionInv' /\ ReplyInv' /\ TokenInv'
    BY <2>1, <2>3, <2>4 DEF SessionInv, HandlerHasSession, ReplyInv, TokenInv, sessionVars, TypeOK
  <2>7. FinishedIsStored' /\ WaitingIsAnswerable'
    BY <2>1, <2>3 DEF FinishedIsStored, WaitingIsAnswerable, sessionVars, uploadVars, TypeOK
  <2> QED BY <2>5, <2>6, <2>7
<1>2. CASE PrepareCreates(p)
  <2>1. /\ pc[p] = "dirs" /\ UNCHANGED uploadVars /\ selected[p] = {}
    BY <1>2 DEF PrepareCreates, ReplyInv, Created
  <2>2. Consented \subseteq Consented'
    <3>1. selected' \in {selected, [selected EXCEPT ![p] = Offer[p]]}
      BY <1>2 DEF PrepareCreates
    <3>2. \A q \in Prepares : q # p => selected'[q] = selected[q]
      BY <3>1 DEF TypeOK
    <3>3. \A q \in Prepares : selected[q] \subseteq selected'[q]
      BY <2>1, <3>2
    <3> QED BY <3>3, ConsentGrows
  <2>3. CASE Grant(p, Offer[p], p) /\ p \in QuickSave
    <3>1. /\ verdict' = [verdict EXCEPT ![p] = "accepted"]
          /\ selected' = [selected EXCEPT ![p] = Offer[p]]
      BY <1>2, <2>3 DEF PrepareCreates
    <3>2. Offer[p] \in SUBSET Files /\ Offer[p] \subseteq Consented'
      BY <3>1 DEF ReceiveAssumption, Consented, TypeOK
    <3>3. /\ SessionInv' /\ TokenInv' /\ FinishedIsStored' /\ WaitingIsAnswerable'
          /\ \A q \in Prepares : pc[q] \in Created => pc'[q] \in Created
          /\ pc'[p] \in Created
          /\ \A f \in Files : files'[f] # "finished"
      BY <2>3, <3>2, GrantSafe
    <3>4. ReplyInv'
      BY <3>1, <3>3 DEF ReplyInv, TypeOK
    <3>5. session' = p
      BY <2>3 DEF Grant
    <3>6. UploadInv' /\ StoredWithConsent' /\ AckedIsStored' /\ HungOnlyIfGone'
      BY <2>1, <2>2, <3>3, <3>5, UploadsUndisturbed DEF Created
    <3> QED BY <3>3, <3>4, <3>6
  <2>4. CASE p \notin QuickSave
    <3>1. /\ session' = p /\ status' = "waiting" /\ handler' = TRUE
          /\ files' = [f \in Files |-> IF f \in Offer[p] THEN "queue" ELSE "absent"]
          /\ token' = NoTokens
          /\ pc' = [pc EXCEPT ![p] = "window"]
          /\ UNCHANGED <<verdict, selected>>
      BY <1>2, <2>4 DEF PrepareCreates
    <3>2. SessionInv' /\ TokenInv' /\ FinishedIsStored'
      BY <3>1 DEF SessionInv, HandlerHasSession, TokenInv, NoTokens, FinishedIsStored, Created,
                  TypeOK, ReceiveAssumption
    <3>3. ReplyInv' /\ WaitingIsAnswerable'
      BY <2>1, <3>1 DEF ReplyInv, WaitingIsAnswerable, TypeOK, Created
    <3>4. UploadInv' /\ StoredWithConsent' /\ AckedIsStored' /\ HungOnlyIfGone'
      <4>1. \A q \in Prepares : pc[q] \in Created => pc'[q] \in Created
        BY <3>1 DEF TypeOK, Created
      <4>2. \A f \in Files : files'[f] # "finished"
        BY <3>1
      <4> QED BY <2>1, <2>2, <3>1, <4>1, <4>2, UploadsUndisturbed DEF Created
    <3> QED BY <3>2, <3>3, <3>4
  <2> QED BY <1>2, <2>3, <2>4 DEF PrepareCreates
<1>3. CASE PreparePrompts(p)
  <2>1. /\ pc[p] = "window" /\ UNCHANGED <<verdict, selected, uploadVars>>
    BY <1>3 DEF PreparePrompts
  <2>2. Consented' = Consented
    BY <2>1 DEF Consented
  <2>3. CASE verdict[p] = "none" /\ pc' = [pc EXCEPT ![p] = "asked"] /\ UNCHANGED sessionVars
    <3>1. \A q \in Prepares : pc[q] \in Created => pc'[q] \in Created
      BY <2>3 DEF TypeOK, Created
    <3>2. UploadInv' /\ StoredWithConsent' /\ AckedIsStored' /\ HungOnlyIfGone'
      BY <2>1, <2>2, <2>3, <3>1, UploadsUndisturbed DEF sessionVars
    <3>3. SessionInv' /\ ReplyInv' /\ TokenInv'
      BY <2>1, <2>2, <2>3, <3>1 DEF SessionInv, HandlerHasSession, ReplyInv, TokenInv, sessionVars, TypeOK
    <3>4. FinishedIsStored' /\ WaitingIsAnswerable'
      BY <2>1, <2>3 DEF FinishedIsStored, WaitingIsAnswerable, sessionVars, uploadVars, TypeOK
    <3> QED BY <3>2, <3>3, <3>4
  <2>4. CASE Resume(p, verdict[p], selected[p])
    <3>1. selected[p] \in SUBSET Files /\ selected[p] \subseteq Consented'
      BY <2>2 DEF TypeOK, Consented
    <3>2. /\ SessionInv' /\ TokenInv' /\ FinishedIsStored' /\ WaitingIsAnswerable'
          /\ \A q \in Prepares : pc[q] \in Created => pc'[q] \in Created
          /\ session' \in {session, None}
          /\ \A f \in Files : files'[f] = "finished" => files[f] = "finished"
      BY <2>2, <2>4, <3>1, ResumeSafe
    <3>3. UploadInv' /\ StoredWithConsent' /\ AckedIsStored' /\ HungOnlyIfGone'
      BY <2>1, <2>2, <3>2, UploadsUndisturbed
    <3>4. ReplyInv'
      BY <2>1, <3>2 DEF ReplyInv
    <3> QED BY <3>2, <3>3, <3>4
  <2> QED BY <1>3, <2>3, <2>4 DEF PreparePrompts
<1> QED BY <1>1, <1>2, <1>3 DEF PrepareStep

LEMMA OfferedFiles ==
    ASSUME ReceiveAssumption, TypeOK, session # None
    PROVE  Offer[session] \subseteq Files
BY DEF ReceiveAssumption, TypeOK

\* Any end of an upload whose file is not newly stored keeps the invariant:
\* fs may only turn a file into a failed one.
LEMMA ConcludeSafe ==
    ASSUME ReceiveAssumption, IInv, NEW u \in Uploads, upc[u] \in Uploading,
           UNCHANGED <<prepareVars, ufile, uown, stored>>,
           NEW fs \in [Files -> FileStatus], Conclude(u, fs),
           \A f \in Files : fs[f] # files[f] => f = ufile[u] /\ fs[f] = "failed"
    PROVE  /\ SessionInv' /\ ReplyInv' /\ TokenInv' /\ UploadInv'
           /\ StoredWithConsent' /\ AckedIsStored' /\ FinishedIsStored'
           /\ WaitingIsAnswerable' /\ HungOnlyIfGone'
<1> USE DEF IInv
<1>1. Consented' = Consented /\ ReplyInv'
  BY DEF Consented, prepareVars, ReplyInv
<1>2. PICK c \in {200, 500} :
           /\ upc' = [upc EXCEPT ![u] = "answered"] /\ ucode' = [ucode EXCEPT ![u] = c]
           /\ c = 200 => fs[ufile[u]] = "finished"
  BY DEF Conclude, AnswerUpload
<1>3. UNCHANGED <<session, token, handler>> /\ (files' = fs \/ files' = files)
  BY DEF Conclude, sessionVars
<1>4. ufile[u] \in Files
  BY IInvTypes DEF TypeInv, ServedFile, Uploading
<1>5. c = 200 => ufile[u] \in stored
  BY <1>2, <1>4 DEF UploadInv
<1>6. \A f \in Files : files'[f] # files[f] => f = ufile[u] /\ files'[f] = "failed"
  BY <1>3
<1>7. SessionInv'
  BY <1>3, <1>6, OfferedFiles DEF SessionInv, HandlerHasSession, prepareVars
<1>8. TokenInv'
  BY <1>1, <1>3, <1>6 DEF TokenInv
<1>9. UploadInv'
  <2>1. \A v \in Uploads : upc'[v] \in Uploading \cup {"idle", "hung"} => upc'[v] = upc[v] /\ ucode'[v] = ucode[v]
    BY <1>2 DEF TypeOK, Uploading
  <2> QED BY <1>1, <1>6, <2>1 DEF UploadInv, prepareVars, Uploading
<1>10. StoredWithConsent' /\ AckedIsStored'
  BY <1>1, <1>2, <1>5 DEF StoredWithConsent, AckedIsStored, Acked, TypeOK
<1>11. FinishedIsStored'
  <2>1. CASE status' = status
    BY <1>3, <2>1 DEF FinishedIsStored
  <2>2. CASE /\ files' = fs /\ IsFinishedOrError(fs) /\ status' = EndSession(fs)
    <3>1. status' = "finished" => \A f \in Files : fs[f] \in {"absent", "skipped", "finished"}
      BY <2>2 DEF EndSession, IsFinishedOrError
    <3>2. \A f \in Files : fs[f] = "finished" => f \in stored
      BY DEF UploadInv
    <3> QED BY <1>8, <2>2, <3>1, <3>2 DEF FinishedIsStored, TokenInv
  <2> QED BY <2>1, <2>2 DEF Conclude, sessionVars
<1>12. WaitingIsAnswerable'
  <2>1. status' = "waiting" => status = "waiting"
    BY DEF Conclude, EndSession, sessionVars
  <2> QED BY <1>3, <2>1 DEF WaitingIsAnswerable, prepareVars
<1>13. HungOnlyIfGone'
  BY <1>2, <1>3 DEF HungOnlyIfGone, TypeOK
<1> QED BY <1>1, <1>7, <1>8, <1>9, <1>10, <1>11, <1>12, <1>13

\* An upload that is never answered belongs to a session that is gone.
LEMMA HangSafe ==
    ASSUME ReceiveAssumption, IInv, NEW u \in Uploads, upc[u] \in Uploading, Throws(u), Hang(u),
           UNCHANGED <<prepareVars, ufile, uown>>, stored' \in {stored, stored \cup {ufile[u]}}
    PROVE  /\ SessionInv' /\ ReplyInv' /\ TokenInv' /\ UploadInv'
           /\ StoredWithConsent' /\ AckedIsStored' /\ FinishedIsStored'
           /\ WaitingIsAnswerable' /\ HungOnlyIfGone'
<1> USE DEF IInv
<1>1. Consented' = Consented /\ ReplyInv'
  BY DEF Consented, prepareVars, ReplyInv
<1>2. UNCHANGED <<session, status, files, token, handler, ucode>> /\ upc' = [upc EXCEPT ![u] = "hung"]
  BY DEF Hang, sessionVars
<1>3. SessionInv' /\ TokenInv' /\ WaitingIsAnswerable'
  BY <1>1, <1>2 DEF SessionInv, HandlerHasSession, TokenInv, WaitingIsAnswerable, prepareVars
<1>4. stored \subseteq stored' /\ StoredWithConsent'
  BY <1>1 DEF StoredWithConsent, UploadInv
<1>5. AckedIsStored' /\ FinishedIsStored'
  BY <1>2, <1>4 DEF AckedIsStored, Acked, FinishedIsStored
<1>6. UploadInv'
  BY <1>1, <1>2, <1>4 DEF UploadInv, Uploading, TypeOK, prepareVars
<1>7. session # uown[u]
  <2>1. ufile[u] \in Offer[uown[u]]
    BY DEF UploadInv
  <2> QED BY <2>1 DEF Throws, SessionInv
<1>8. HungOnlyIfGone'
  BY <1>2, <1>7 DEF HungOnlyIfGone, TypeOK
<1> QED BY <1>1, <1>3, <1>4, <1>5, <1>6, <1>8

\* The upload handlers and the delayed close keep the invariant.
LEMMA UploadStepSafe ==
    ASSUME ReceiveAssumption, IInv, TypeOK', NEW u \in Uploads, UploadStep(u)
    PROVE  IInv'
<1> USE DEF IInv
<1>1. CASE TimerFires(u)
  <2>1. CloseSession /\ UNCHANGED <<prepareVars, uploadVars>>
    BY <1>1 DEF TimerFires
  <2>2. Consented' = Consented /\ ReplyInv'
    BY <2>1 DEF Consented, prepareVars, ReplyInv
  <2>3. UploadInv' /\ StoredWithConsent' /\ AckedIsStored' /\ HungOnlyIfGone'
    BY <2>1, <2>2, UploadsUndisturbed DEF CloseSession, prepareVars, NoFiles
  <2> QED BY <2>1, <2>2, <2>3, CloseSafe
<1>2. upc[u] \in Uploading => ufile[u] \in Files /\ files \in [Files -> FileStatus]
  BY IInvTypes DEF TypeInv, ServedFile, Uploading, TypeOK
<1>3. ASSUME upc[u] \in Uploading, Fail(u), UNCHANGED <<prepareVars, ufile, uown, stored>>
      PROVE  IInv'
  <2>1. CASE Throws(u) /\ Hang(u)
    BY <1>3, <2>1, HangSafe
  <2>2. CASE Conclude(u, [files EXCEPT ![ufile[u]] = "failed"])
    <3> DEFINE fs == [files EXCEPT ![ufile[u]] = "failed"]
    <3>1. fs \in [Files -> FileStatus]
      BY <1>3, ZenonT(40) DEF TypeOK, FileStatus
    <3>2. \A f \in Files : fs[f] # files[f] => f = ufile[u] /\ fs[f] = "failed"
      BY <1>2, <1>3
    <3> HIDE DEF fs
    <3>3. Conclude(u, fs)
      BY <2>2 DEF fs
    <3> QED BY <1>3, <3>1, <3>2, <3>3, ConcludeSafe
  <2> QED BY <1>3, <2>1, <2>2 DEF Fail
<1>4. CASE SaveFails(u)
  BY <1>3, <1>4 DEF SaveFails, Uploading
<1>5. CASE HistoryReturns(u)
  <2>1. upc[u] \in Uploading /\ UNCHANGED <<prepareVars, ufile, uown, stored>>
    BY <1>5 DEF HistoryReturns, Uploading
  <2>2. CASE Conclude(u, files)
    <3>1. \A f \in Files : files[f] # files[f] => f = ufile[u] /\ files[f] = "failed"
      OBVIOUS
    <3> QED BY <1>2, <2>1, <2>2, <3>1, ConcludeSafe
  <2>3. CASE Fail(u)
    BY <1>3, <2>1, <2>3
  <2> QED BY <1>5, <2>2, <2>3 DEF HistoryReturns
<1>6. CASE SaveSucceeds(u)
  <2>1. /\ upc[u] \in Uploading /\ upc[u] = "saving" /\ stored' = stored \cup {ufile[u]}
        /\ UNCHANGED <<prepareVars, ufile, uown>>
    BY <1>6 DEF SaveSucceeds, Uploading
  <2>2. CASE Throws(u) /\ Hang(u)
    BY <2>1, <2>2, HangSafe
  <2>3. CASE \/ AnswerUpload(u, 500) /\ UNCHANGED sessionVars
             \/ /\ status \in AllowedStates
                /\ files' = [files EXCEPT ![ufile[u]] = "finished"]
                /\ upc' = [upc EXCEPT ![u] = "history"]
                /\ UNCHANGED <<session, status, token, handler, ucode>>
    <3>1. Consented' = Consented /\ ReplyInv'
      BY <2>1 DEF Consented, prepareVars, ReplyInv
    <3>2. /\ UNCHANGED <<session, status, token, handler>>
          /\ \A f \in Files : files'[f] # files[f] => f = ufile[u] /\ files'[f] = "finished"
          /\ \E s \in {"answered", "history"} : upc' = [upc EXCEPT ![u] = s]
          /\ \A v \in Uploads : ucode'[v] # ucode[v] => v = u /\ ucode'[v] = 500
      BY <2>3 DEF AnswerUpload, sessionVars, TypeOK
    <3>3. SessionInv' /\ WaitingIsAnswerable'
      BY <2>1, <3>2, OfferedFiles DEF SessionInv, HandlerHasSession, WaitingIsAnswerable, prepareVars
    <3>4. TokenInv'
      BY <3>1, <3>2 DEF TokenInv
    <3>5. StoredWithConsent' /\ FinishedIsStored'
      BY <2>1, <3>1, <3>2 DEF StoredWithConsent, FinishedIsStored, UploadInv
    <3>6. AckedIsStored'
      BY <2>1, <3>2 DEF AckedIsStored, Acked, TypeOK
    <3>7. UploadInv'
      <4>1. \A v \in Uploads : upc'[v] \in Uploading \cup {"hung", "idle"} =>
               upc'[v] = upc[v] \/ (v = u /\ upc[v] = "saving" /\ upc'[v] = "history")
        BY <2>1, <3>2 DEF TypeOK, Uploading
      <4>2. \A f \in Files : files'[f] = "finished" => f \in stored'
        BY <2>1, <3>2 DEF UploadInv
      <4> QED BY <2>1, <3>1, <3>2, <4>1, <4>2 DEF UploadInv, Uploading, prepareVars
    <3>8. HungOnlyIfGone'
      BY <2>1, <3>2 DEF HungOnlyIfGone, TypeOK
    <3> QED BY <3>1, <3>3, <3>4, <3>5, <3>6, <3>7, <3>8
  <2> QED BY <1>6, <2>2, <2>3 DEF SaveSucceeds
<1> QED BY <1>1, <1>4, <1>5, <1>6 DEF UploadStep

\* What the senders do keeps the invariant.
LEMMA SenderStepSafe ==
    ASSUME ReceiveAssumption, IInv, TypeOK', SenderStep
    PROVE  IInv'
<1> USE DEF IInv
<1>1. CASE \E p \in Prepares : PrepareArrives(p)
  BY <1>1, PrepareStepSafe
<1>2. CASE \E p \in Prepares, withId \in BOOLEAN : SenderCancels(p, withId)
  <2>1. /\ UNCHANGED <<session, files, token, handler, prepareVars, uploadVars>>
        /\ session # None /\ status' = "canceledBySender"
    BY <1>2 DEF SenderCancels
  <2>2. Consented' = Consented /\ ReplyInv'
    BY <2>1 DEF Consented, prepareVars, ReplyInv
  <2>3. UploadInv' /\ StoredWithConsent' /\ AckedIsStored' /\ HungOnlyIfGone'
    BY <2>1, <2>2, UploadsUndisturbed DEF prepareVars
  <2>4. SessionInv' /\ TokenInv' /\ FinishedIsStored' /\ WaitingIsAnswerable'
    BY <2>1, <2>2 DEF SessionInv, HandlerHasSession, TokenInv, FinishedIsStored, WaitingIsAnswerable, prepareVars
  <2> QED BY <2>2, <2>3, <2>4
<1>3. ASSUME NEW u \in Uploads, NEW p \in Prepares, NEW f \in Files, NEW withId \in BOOLEAN,
             UploadArrives(u, p, f, withId)
      PROVE  IInv'
  <2>1. /\ upc[u] = "idle" /\ ufile' = [ufile EXCEPT ![u] = f]
        /\ UNCHANGED <<session, token, handler, prepareVars, stored>>
    BY <1>3 DEF UploadArrives
  <2>2. Consented' = Consented /\ ReplyInv' /\ StoredWithConsent'
    BY <2>1 DEF Consented, prepareVars, ReplyInv, StoredWithConsent
  <2>3. CASE Admissible(p, f, withId)
    <3>1. /\ upc' = [upc EXCEPT ![u] = "saving"] /\ uown' = [uown EXCEPT ![u] = session]
          /\ files' = [files EXCEPT ![f] = "sending"] /\ status' = "sending" /\ ucode' = ucode
      BY <1>3, <2>3 DEF UploadArrives
    <3>2. session # None /\ session \in Prepares /\ f \in Offer[session] /\ token[f] # None
      BY <2>3 DEF Admissible, TypeOK, ReceiveAssumption
    <3>3. SessionInv' /\ TokenInv'
      BY <2>1, <2>2, <3>1, <3>2, OfferedFiles DEF SessionInv, HandlerHasSession, TokenInv, TypeOK, prepareVars
    <3>4. FinishedIsStored' /\ WaitingIsAnswerable'
      BY <3>1 DEF FinishedIsStored, WaitingIsAnswerable
    <3>5. AckedIsStored' /\ HungOnlyIfGone'
      BY <2>1, <3>1 DEF AckedIsStored, Acked, HungOnlyIfGone, UploadInv, TypeOK
    <3>6. UploadInv'
      <4>1. f \in Consented /\ pc[session] \in Created /\ ucode[u] # 200
        BY <2>1, <3>2 DEF TokenInv, SessionInv, UploadInv
      <4>2. \A g \in Files : files'[g] = "finished" => g \in stored'
        BY <2>1, <3>1 DEF UploadInv, TypeOK
      <4> QED BY <2>1, <2>2, <3>1, <3>2, <4>1, <4>2 DEF UploadInv, Uploading, TypeOK, prepareVars
    <3> QED BY <2>2, <3>3, <3>4, <3>5, <3>6
  <2>4. CASE ~Admissible(p, f, withId)
    <3>1. /\ upc' = [upc EXCEPT ![u] = "answered"] /\ ucode' = [ucode EXCEPT ![u] = 400]
          /\ UNCHANGED <<uown, files, status>>
      BY <1>3, <2>4 DEF UploadArrives
    <3>2. SessionInv' /\ TokenInv' /\ FinishedIsStored' /\ WaitingIsAnswerable'
      BY <2>1, <2>2, <3>1 DEF SessionInv, HandlerHasSession, TokenInv, FinishedIsStored, WaitingIsAnswerable,
                              prepareVars
    <3>3. AckedIsStored' /\ HungOnlyIfGone'
      BY <2>1, <3>1 DEF AckedIsStored, Acked, HungOnlyIfGone, TypeOK
    <3>4. UploadInv'
      BY <2>1, <2>2, <3>1 DEF UploadInv, Uploading, TypeOK, prepareVars
    <3> QED BY <2>2, <3>2, <3>3, <3>4
  <2> QED BY <2>3, <2>4
<1> QED BY <1>1, <1>2, <1>3 DEF SenderStep

\* An answer of the user, whenever it comes, keeps the invariant.
LEMMA PutReplySafe ==
    ASSUME ReceiveAssumption, IInv, TypeOK', NEW answer \in {"declined", "accepted"},
           NEW selection \in SUBSET Files, PutReply(answer, selection), UNCHANGED uploadVars
    PROVE  IInv'
<1> USE DEF IInv
<1>1. CASE UNCHANGED <<sessionVars, prepareVars>>
  <2>1. Consented' = Consented /\ ReplyInv'
    BY <1>1 DEF Consented, prepareVars, ReplyInv
  <2>2. UploadInv' /\ StoredWithConsent' /\ AckedIsStored' /\ HungOnlyIfGone'
    BY <1>1, <2>1, UploadsUndisturbed DEF prepareVars, sessionVars
  <2>3. SessionInv' /\ TokenInv' /\ FinishedIsStored' /\ WaitingIsAnswerable'
    BY <1>1, <2>1 DEF SessionInv, HandlerHasSession, TokenInv, FinishedIsStored, WaitingIsAnswerable,
                      sessionVars, prepareVars, uploadVars
  <2> QED BY <2>1, <2>2, <2>3
<1>2. CASE /\ handler /\ verdict[session] = "none"
           /\ verdict' = [verdict EXCEPT ![session] = answer]
           /\ selected' = [selected EXCEPT ![session] = selection]
           /\ \/ pc[session] = "asked" /\ Resume(session, answer, selection)
              \/ pc[session] # "asked" /\ UNCHANGED <<sessionVars, pc, granted, code>>
  <2>1. session \in Prepares /\ pc[session] \in Created /\ selected[session] = {}
    BY <1>2 DEF SessionInv, HandlerHasSession, TypeOK, ReplyInv
  <2>2. Consented \subseteq Consented' /\ selection \subseteq Consented'
    <3>1. \A q \in Prepares : selected[q] \subseteq selected'[q]
      BY <1>2, <2>1 DEF TypeOK
    <3>2. selected'[session] = selection
      BY <1>2, <2>1 DEF TypeOK
    <3> QED BY <2>1, <3>1, <3>2, ConsentGrows DEF Consented
  <2>3. ASSUME \A q \in Prepares : pc[q] \in Created => pc'[q] \in Created
        PROVE  ReplyInv'
    BY <1>2, <2>1, <2>3 DEF ReplyInv, TypeOK
  <2>4. CASE Resume(session, answer, selection)
    <3>1. /\ SessionInv' /\ TokenInv' /\ FinishedIsStored' /\ WaitingIsAnswerable'
          /\ \A q \in Prepares : pc[q] \in Created => pc'[q] \in Created
          /\ session' \in {session, None}
          /\ \A f \in Files : files'[f] = "finished" => files[f] = "finished"
      BY <2>1, <2>2, <2>4, ResumeSafe
    <3>2. UploadInv' /\ StoredWithConsent' /\ AckedIsStored' /\ HungOnlyIfGone'
      BY <2>2, <3>1, UploadsUndisturbed
    <3> QED BY <2>3, <3>1, <3>2
  <2>5. CASE pc[session] # "asked" /\ UNCHANGED <<sessionVars, pc, granted, code>>
    <3>1. ReplyInv'
      BY <2>3, <2>5
    <3>2. UploadInv' /\ StoredWithConsent' /\ AckedIsStored' /\ HungOnlyIfGone'
      BY <2>2, <2>5, UploadsUndisturbed DEF sessionVars
    <3>3. SessionInv' /\ TokenInv' /\ FinishedIsStored'
      BY <2>2, <2>5 DEF SessionInv, HandlerHasSession, TokenInv, FinishedIsStored, sessionVars, uploadVars
    <3>4. WaitingIsAnswerable'
      BY <2>5 DEF WaitingIsAnswerable, sessionVars
    <3> QED BY <3>1, <3>2, <3>3, <3>4
  <2> QED BY <1>2, <2>4, <2>5
<1> QED BY <1>1, <1>2 DEF PutReply

\* What the user does keeps the invariant.
LEMMA UserStepSafe ==
    ASSUME ReceiveAssumption, IInv, TypeOK', UserStep
    PROVE  IInv'
<1>1. ASSUME NEW selection \in SUBSET Files, UserAccepts(selection)
      PROVE  IInv'
  BY <1>1, PutReplySafe DEF UserAccepts
<1>2. CASE UserDeclines
  <2>1. "declined" \in {"declined", "accepted"} /\ {} \in SUBSET Files
    OBVIOUS
  <2>2. PutReply("declined", {}) /\ UNCHANGED uploadVars
    BY <1>2 DEF UserDeclines
  <2> QED BY <2>1, <2>2, PutReplySafe
<1>3. ASSUME UNCHANGED <<prepareVars, uploadVars>>, CloseSession \/ UNCHANGED sessionVars
      PROVE  IInv'
  <2> USE DEF IInv
  <2>1. Consented' = Consented /\ ReplyInv'
    BY <1>3 DEF Consented, prepareVars, ReplyInv
  <2>2. UploadInv' /\ StoredWithConsent' /\ AckedIsStored' /\ HungOnlyIfGone'
    BY <1>3, <2>1, UploadsUndisturbed DEF prepareVars, sessionVars, CloseSession, NoFiles
  <2>3. CASE UNCHANGED sessionVars
    BY <1>3, <2>1, <2>2, <2>3 DEF SessionInv, HandlerHasSession, TokenInv, FinishedIsStored, WaitingIsAnswerable,
                      sessionVars, prepareVars, uploadVars
  <2>4. CASE CloseSession
    BY <2>1, <2>2, <2>4, CloseSafe
  <2> QED BY <1>3, <2>3, <2>4
<1>4. CASE UserCloses \/ UserLeavesProgress
  BY <1>3, <1>4 DEF UserCloses, UserLeavesProgress
<1>5. CASE UserPopsBlankPage \/ PageRedraws
  BY <1>3, <1>5 DEF UserPopsBlankPage, PageRedraws
<1> QED BY <1>1, <1>2, <1>4, <1>5 DEF UserStep

LEMMA IInvStep == ASSUME ReceiveAssumption, IInv, [Next]_vars PROVE IInv'
<1>1. TypeOK'
  BY IInvTypes, TypeStep DEF TypeInv
<1>2. CASE UNCHANGED vars
  <2>1. Consented' = Consented /\ Acked' = Acked
    BY <1>2 DEF Consented, Acked, vars, prepareVars, uploadVars
  <2> QED BY <1>1, <1>2, <2>1 DEF vars, sessionVars, prepareVars, uploadVars, IInv, SessionInv,
        HandlerHasSession, ReplyInv, TokenInv, UploadInv, StoredWithConsent, AckedIsStored,
        FinishedIsStored, WaitingIsAnswerable, HungOnlyIfGone
<1> QED BY <1>1, <1>2, PrepareStepSafe, UploadStepSafe, SenderStepSafe, UserStepSafe DEF Next

-----------------------------------------------------------------------------
(* The theorems *)

\* The strengthened invariant holds in every reachable state.
THEOREM Invariance == Spec => []IInv
<1> USE ReceiveAssumption
<1>1. Init => IInv
  BY IInvInit
<1>2. IInv /\ [Next]_vars => IInv'
  BY IInvStep
<1> QED BY <1>1, <1>2, PTL DEF Spec

\* Nothing is on disk that the user did not select, whatever requests, answers,
\* cancellations and uploads interleave.
THEOREM Consent == Spec => []StoredWithConsent
<1>1. IInv => StoredWithConsent
  BY DEF IInv
<1> QED BY <1>1, Invariance, PTL

\* 200 is only answered for files that are completely on disk.
THEOREM Acknowledged == Spec => []AckedIsStored
<1>1. IInv => AckedIsStored
  BY DEF IInv
<1> QED BY <1>1, Invariance, PTL

\* When the session says "finished" every accepted file is on disk.
THEOREM FinishedMeansStored == Spec => []FinishedIsStored
<1>1. IInv => FinishedIsStored
  BY DEF IInv
<1> QED BY <1>1, Invariance, PTL

\* A waiting session can always be answered.
THEOREM Answerable == Spec => []WaitingIsAnswerable
<1>1. IInv => WaitingIsAnswerable
  BY DEF IInv
<1> QED BY <1>1, Invariance, PTL

\* Only uploads whose session is gone stay without an answer.
THEOREM HungUploads == Spec => []HungOnlyIfGone
<1>1. IInv => HungOnlyIfGone
  BY DEF IInv
<1> QED BY <1>1, Invariance, PTL

-----------------------------------------------------------------------------
(* The receiver implements FileDelivery *)

\* A step that stores no file, acknowledges none and keeps every selection
\* consents to something or nothing.
LEMMA ConsentStep ==
    ASSUME TypeOK, TypeOK', UNCHANGED <<upc, ufile, uown, ucode, stored>>,
           Consented \subseteq Consented'
    PROVE  [FD!Next]_(FD!fdVars)
<1>1. Acked' = Acked
  BY DEF Acked
<1>2. Consented' \in SUBSET Files /\ Consented' = Consented \cup Consented'
  BY DEF Consented, TypeOK
<1>3. FD!Consent(Consented')
  BY <1>1, <1>2 DEF FD!Consent
<1> QED BY <1>2, <1>3 DEF FD!Next

\* Only a step of PutReply or PrepareCreates changes a selection, and only
\* one that was empty.
LEMMA SelectionsGrow ==
    ASSUME ReceiveAssumption, IInv, Next
    PROVE  Consented \subseteq Consented'
<1> USE DEF IInv
<1>1. ASSUME UNCHANGED selected
      PROVE  Consented \subseteq Consented'
  BY <1>1 DEF Consented
<1>2. ASSUME NEW answer, answer # "none", NEW selection \in SUBSET Files, PutReply(answer, selection)
      PROVE  Consented \subseteq Consented'
  <2>1. CASE UNCHANGED selected
    BY <1>1, <2>1
  <2>2. CASE /\ handler /\ verdict[session] = "none"
             /\ selected' = [selected EXCEPT ![session] = selection]
    <3>1. session \in Prepares /\ selected[session] = {}
      BY <2>2 DEF SessionInv, HandlerHasSession, TypeOK, ReplyInv
    <3>2. \A q \in Prepares : selected[q] \subseteq selected'[q]
      BY <2>2, <3>1 DEF TypeOK
    <3> QED BY <3>2, ConsentGrows
  <2> QED BY <1>2, <2>1, <2>2 DEF PutReply, prepareVars
<1>3. ASSUME NEW p \in Prepares, PrepareStep(p) PROVE Consented \subseteq Consented'
  <2>1. CASE PrepareCreates(p)
    <3>1. selected[p] = {} /\ selected' \in {selected, [selected EXCEPT ![p] = Offer[p]]}
      BY <2>1 DEF PrepareCreates, ReplyInv, Created
    <3> QED BY <3>1, ConsentGrows DEF TypeOK
  <2> QED BY <1>1, <1>3, <2>1 DEF PrepareStep, PrepareBodyRead, PreparePrompts, PermissionReturns, PrepareDies
<1>4. ASSUME NEW u \in Uploads, UploadStep(u) PROVE Consented \subseteq Consented'
  BY <1>1, <1>4 DEF UploadStep, SaveSucceeds, SaveFails, HistoryReturns, TimerFires, prepareVars
<1>5. CASE SenderStep
  BY <1>1, <1>5 DEF SenderStep, PrepareArrives, SenderCancels, UploadArrives, prepareVars
<1>6. CASE UserStep
  <2>1. ASSUME NEW selection \in SUBSET Files, UserAccepts(selection) PROVE Consented \subseteq Consented'
    BY <1>2, <2>1 DEF UserAccepts
  <2>2. CASE UserDeclines
    <3>1. PutReply("declined", {}) /\ {} \in SUBSET Files
      BY <2>2 DEF UserDeclines
    <3> QED BY <1>2, <3>1
  <2>3. CASE UserCloses \/ UserPopsBlankPage \/ UserLeavesProgress \/ PageRedraws
    BY <1>1, <2>3 DEF UserCloses, UserPopsBlankPage, UserLeavesProgress, PageRedraws, prepareVars
  <2> QED BY <1>6, <2>1, <2>2, <2>3 DEF UserStep
<1> QED BY <1>3, <1>4, <1>5, <1>6 DEF Next

\* A step of the receiver that touches the uploads maps to storing one file, to
\* acknowledging one file, or to nothing.
LEMMA UploadRefines ==
    ASSUME ReceiveAssumption, IInv, IInv', NEW u \in Uploads, UNCHANGED selected,
           \A v \in Uploads \ {u} : ufile'[v] = ufile[v] /\ ucode'[v] = ucode[v],
           \/ stored' = stored
           \/ /\ upc[u] = "saving" /\ stored' = stored \cup {ufile[u]} /\ ucode'[u] # 200,
           upc[u] \in Uploading \cup {"idle"}, ufile'[u] \in Files
    PROVE  [FD!Next]_(FD!fdVars)
<1> USE DEF IInv
<1>1. Consented' = Consented
  BY DEF Consented
<1>2. ucode[u] # 200
  BY DEF UploadInv
<1>3. CASE ucode'[u] # 200
  <2>1. Acked' = Acked
    BY <1>2, <1>3 DEF Acked
  <2>2. CASE stored' = stored
    BY <1>1, <2>1, <2>2 DEF FD!fdVars
  <2>3. CASE upc[u] = "saving" /\ stored' = stored \cup {ufile[u]}
    <3>1. ufile[u] \in Files /\ ufile[u] \in Consented
      BY <2>3, IInvTypes DEF TypeInv, ServedFile, UploadInv, Uploading
    <3>2. FD!Store(ufile[u])
      BY <1>1, <2>1, <2>3, <3>1 DEF FD!Store
    <3> QED BY <3>1, <3>2 DEF FD!Next
  <2> QED BY <2>2, <2>3
<1>4. CASE ucode'[u] = 200
  <2>1. stored' = stored
    BY <1>4
  <2>2. Acked' = Acked \cup {ufile'[u]}
    BY <1>2, <1>4 DEF Acked
  <2>3. ufile'[u] \in stored
    BY <2>1, <2>2 DEF AckedIsStored
  <2>4. FD!Ack(ufile'[u])
    BY <1>1, <2>1, <2>2, <2>3 DEF FD!Ack
  <2> QED BY <2>4 DEF FD!Next
<1> QED BY <1>3, <1>4

\* Every step is a step of FileDelivery or stutters there.
LEMMA StepRefines ==
    ASSUME ReceiveAssumption, IInv, IInv', [Next]_vars
    PROVE  [FD!Next]_(FD!fdVars)
<1> USE DEF IInv
<1>1. CASE UNCHANGED vars
  BY <1>1 DEF vars, prepareVars, uploadVars, Consented, Acked, FD!fdVars
<1>2. ASSUME Next, UNCHANGED <<upc, ufile, uown, ucode, stored>>
      PROVE  [FD!Next]_(FD!fdVars)
  BY <1>2, SelectionsGrow, ConsentStep
<1>3. ASSUME NEW p \in Prepares, PrepareStep(p), Next PROVE [FD!Next]_(FD!fdVars)
  BY <1>2, <1>3 DEF PrepareStep, PrepareBodyRead, PrepareCreates, PreparePrompts, PermissionReturns, PrepareDies, uploadVars
<1>4. CASE UserStep /\ Next
  BY <1>2, <1>4 DEF UserStep, UserAccepts, UserDeclines, UserCloses, UserPopsBlankPage,
                    UserLeavesProgress, PageRedraws, uploadVars
<1>5. ASSUME NEW u \in Uploads, UploadStep(u), Next PROVE [FD!Next]_(FD!fdVars)
  <2>1. CASE TimerFires(u)
    BY <1>2, <1>5, <2>1 DEF TimerFires, uploadVars
  <2>2. CASE SaveSucceeds(u) \/ SaveFails(u) \/ HistoryReturns(u)
    <3>1. /\ upc[u] \in Uploading /\ UNCHANGED <<prepareVars, ufile, uown>>
          /\ \/ stored' = stored
             \/ upc[u] = "saving" /\ stored' = stored \cup {ufile[u]}
      BY <2>2 DEF SaveSucceeds, SaveFails, HistoryReturns, Uploading
    <3>2. \A v \in Uploads \ {u} : ufile'[v] = ufile[v] /\ ucode'[v] = ucode[v]
      BY <2>2 DEF SaveSucceeds, SaveFails, HistoryReturns, Fail, Conclude, Hang, AnswerUpload, TypeOK
    <3>3. SaveSucceeds(u) => ucode'[u] # 200
      <4>1. ucode[u] # 200
        BY <3>1 DEF UploadInv
      <4> QED BY <4>1 DEF SaveSucceeds, Hang, AnswerUpload, TypeOK
    <3>4. SaveFails(u) \/ HistoryReturns(u) => stored' = stored
      BY DEF SaveFails, HistoryReturns
    <3>5. ufile'[u] \in Files
      BY <3>1, IInvTypes DEF TypeInv, ServedFile, Uploading
    <3> QED BY <2>2, <3>1, <3>2, <3>3, <3>4, <3>5, UploadRefines DEF prepareVars
  <2> QED BY <1>5, <2>1, <2>2 DEF UploadStep
<1>6. CASE SenderStep /\ Next
  <2>1. ASSUME NEW u \in Uploads, NEW p \in Prepares, NEW f \in Files, NEW withId \in BOOLEAN,
               UploadArrives(u, p, f, withId)
        PROVE  [FD!Next]_(FD!fdVars)
    <3>1. /\ upc[u] = "idle" /\ ufile' = [ufile EXCEPT ![u] = f] /\ stored' = stored
          /\ UNCHANGED selected
          /\ ucode' = ucode \/ ucode' = [ucode EXCEPT ![u] = 400]
      BY <2>1 DEF UploadArrives, prepareVars
    <3>2. \A v \in Uploads \ {u} : ufile'[v] = ufile[v] /\ ucode'[v] = ucode[v]
      BY <3>1 DEF TypeOK
    <3>3. ufile'[u] \in Files
      BY <3>1 DEF TypeOK
    <3> QED BY <3>1, <3>2, <3>3, UploadRefines
  <2>2. CASE \/ \E p \in Prepares : PrepareArrives(p)
             \/ \E p \in Prepares, withId \in BOOLEAN : SenderCancels(p, withId)
    BY <1>2, <1>6, <2>2 DEF PrepareArrives, SenderCancels, uploadVars
  <2> QED BY <1>6, <2>1, <2>2 DEF SenderStep
<1> QED BY <1>1, <1>3, <1>4, <1>5, <1>6 DEF Next

\* The receiver keeps the promise of FileDelivery: what is stored was agreed to,
\* what is acknowledged is stored, and none of it is withdrawn.
THEOREM Delivery == Spec => ImplementsDelivery
<1> USE ReceiveAssumption
<1>1. Init => FD!Init
  BY DEF Init, FD!Init, Consented, Acked
<1>2. IInv /\ IInv' /\ [Next]_vars => [FD!Next]_(FD!fdVars)
  BY StepRefines
<1> QED BY <1>1, <1>2, Invariance, PTL DEF Spec, ImplementsDelivery, FD!Spec

-----------------------------------------------------------------------------
(* A cancellation the user has seen *)

\* A session whose cancellation is on screen is only revived by a handler that
\* still has an earlier answer to read.
THEOREM SeenCancel == Spec => SeenCancelIsFinal
<1> DEFINE Final == status = "canceledBySender" /\ shownCancel /\ session' = session
                        /\ status' # status
                     => \E p \in Prepares : pc[p] = "window" /\ verdict[p] # "none"
<1> USE ReceiveAssumption
<1>1. IInv /\ [Next]_vars => [Final]_vars
  <2> SUFFICES ASSUME IInv, Next, status = "canceledBySender", shownCancel, session' = session,
                      status' # status
               PROVE  \E p \in Prepares : pc[p] = "window" /\ verdict[p] # "none"
    OBVIOUS
  <2>1. session # None /\ session \in Prepares /\ pc[session] \in Created
    BY DEF IInv, TypeOK, SessionInv
  <2>2. ~CloseSession
    BY <2>1 DEF CloseSession
  <2>3. ASSUME NEW p \in Prepares, PrepareStep(p)
        PROVE  \E q \in Prepares : pc[q] = "window" /\ verdict[q] # "none"
    <3>1. ~PrepareCreates(p)
      BY <2>1 DEF PrepareCreates, Grant, Created
    <3>2. CASE PreparePrompts(p)
      BY <3>2 DEF PreparePrompts, sessionVars
    <3> QED BY <2>3, <3>1, <3>2 DEF PrepareStep, PrepareBodyRead, PermissionReturns, PrepareDies, sessionVars
  <2>4. ASSUME NEW u \in Uploads PROVE ~UploadStep(u)
    BY <2>2 DEF UploadStep, TimerFires, SaveSucceeds, SaveFails, HistoryReturns, Fail, Hang,
                Conclude, AllowedStates, sessionVars
  <2>5. ~SenderStep
    BY DEF SenderStep, PrepareArrives, SenderCancels, UploadArrives, Admissible, AllowedStates, sessionVars
  <2>6. ASSUME NEW answer, PutReply(answer, {}) PROVE FALSE
    BY <2>1, <2>2, <2>6 DEF PutReply, Resume, sessionVars
  <2>7. ASSUME NEW selection PROVE ~UserAccepts(selection)
    <3>1. UserAccepts(selection) => selection = {} /\ PutReply("accepted", selection)
      BY DEF UserAccepts
    <3> QED BY ZenonT(40), <2>6, <3>1
  <2>8. ~UserDeclines
    BY <2>6 DEF UserDeclines
  <2>9. ~UserStep
    BY <2>2, <2>7, <2>8 DEF UserStep, UserCloses, UserPopsBlankPage,
                            UserLeavesProgress, PageRedraws, sessionVars
  <2> QED BY <2>3, <2>4, <2>5, <2>9 DEF Next
<1>2. SeenCancelIsFinal <=> [][Final]_vars
  BY DEF SeenCancelIsFinal
<1> QED BY <1>1, <1>2, Invariance, PTL DEF Spec

=============================================================================
