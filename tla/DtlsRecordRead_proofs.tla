------------------------ MODULE DtlsRecordRead_proofs ------------------------
(***************************************************************************)
(* Theorems about the reading half of an endpoint, for every window width, *)
(* every set of records, every list capacity and any number of handshakes. *)
(***************************************************************************)
EXTENDS DtlsRecordRead, TLAPS, SequenceTheorems

-----------------------------------------------------------------------------
(* What RecAntiReplayUpdate does to a window.                              *)

(* An update of a well-formed window is a well-formed window: the shift    *)
(* in rec_anti_replay.c:66-72 never leaves a bit outside the word.         *)
LEMMA UpdateType ==
  ASSUME NEW w \in RecSlidWindow, NEW seq \in Nat
  PROVE  RecAntiReplayUpdate(w, seq) \in RecSlidWindow
<1> USE WindowSizeAssumption DEF RecSlidWindow, Bits
<1>1. CASE seq + REC_SLID_WINDOW_SIZE <= w.top
  BY <1>1 DEF RecAntiReplayUpdate
<1>2. CASE ~(seq + REC_SLID_WINDOW_SIZE <= w.top) /\ seq <= w.top
  <2>1. w.top - seq \in 0 .. REC_SLID_WINDOW_SIZE - 1
    BY <1>2
  <2> QED
    BY <1>2, <2>1 DEF RecAntiReplayUpdate
<1>3. CASE ~(seq <= w.top)
  <2>1. ~(seq + REC_SLID_WINDOW_SIZE <= w.top)
    BY <1>3
  <2>2. ShiftLeft(w.window, seq - w.top) \cup {0} \in SUBSET (0 .. REC_SLID_WINDOW_SIZE - 1)
    BY DEF ShiftLeft
  <2> QED
    BY <1>3, <2>1, <2>2 DEF RecAntiReplayUpdate
<1> QED
  BY <1>1, <1>2, <1>3

(* After a record is accepted its own number is refused. *)
LEMMA UpdateRejectsSeq ==
  ASSUME NEW w \in RecSlidWindow, NEW seq \in Nat
  PROVE  RecAntiReplayCheck(RecAntiReplayUpdate(w, seq), seq)
<1> USE WindowSizeAssumption DEF RecSlidWindow, Bits
<1>1. CASE seq + REC_SLID_WINDOW_SIZE <= w.top
  BY <1>1 DEF RecAntiReplayUpdate, RecAntiReplayCheck
<1>2. CASE ~(seq + REC_SLID_WINDOW_SIZE <= w.top) /\ seq <= w.top
  BY <1>2 DEF RecAntiReplayUpdate, RecAntiReplayCheck
<1>3. CASE ~(seq <= w.top)
  <2>1. ~(seq + REC_SLID_WINDOW_SIZE <= w.top)
    BY <1>3
  <2> QED
    BY <1>3, <2>1 DEF RecAntiReplayUpdate, RecAntiReplayCheck
<1> QED
  BY <1>1, <1>2, <1>3

(* A number that is refused stays refused whatever is accepted after it. *)
LEMMA UpdateKeepsRejected ==
  ASSUME NEW w \in RecSlidWindow, NEW seq \in Nat, NEW old \in Nat,
         RecAntiReplayCheck(w, old)
  PROVE  RecAntiReplayCheck(RecAntiReplayUpdate(w, seq), old)
<1> USE WindowSizeAssumption DEF RecSlidWindow, Bits
<1>1. CASE seq + REC_SLID_WINDOW_SIZE <= w.top
  BY <1>1 DEF RecAntiReplayUpdate
<1>2. CASE ~(seq + REC_SLID_WINDOW_SIZE <= w.top) /\ seq <= w.top
  BY <1>2 DEF RecAntiReplayUpdate, RecAntiReplayCheck
<1>3. CASE ~(seq <= w.top)
  <2> DEFINE n == seq - w.top
             u == [top |-> seq, window |-> ShiftLeft(w.window, n) \cup {0}]
  <2>1. RecAntiReplayUpdate(w, seq) = u
    BY <1>3 DEF RecAntiReplayUpdate
  <2>2. old <= w.top /\ seq > w.top /\ n \in Nat
    BY <1>3 DEF RecAntiReplayCheck
  <2>3. CASE seq - old >= REC_SLID_WINDOW_SIZE
    BY <2>1, <2>2, <2>3 DEF RecAntiReplayCheck
  <2>4. CASE ~(seq - old >= REC_SLID_WINDOW_SIZE)
    <3>1. w.top - old \in w.window
      BY <2>2, <2>4 DEF RecAntiReplayCheck
    <3>2. /\ seq - old \in 0 .. REC_SLID_WINDOW_SIZE - 1
          /\ seq - old >= n
          /\ (seq - old) - n = w.top - old
      BY <2>2, <2>4
    <3>3. seq - old \in ShiftLeft(w.window, n)
      BY <3>1, <3>2 DEF ShiftLeft
    <3> QED
      BY <2>1, <2>2, <3>3 DEF RecAntiReplayCheck
  <2> QED
    BY <2>3, <2>4
<1> QED
  BY <1>1, <1>2, <1>3

(* A number the update makes refused was refused before, is the accepted   *)
(* number, or has fallen behind the window: no fresh record inside the     *)
(* window is ever dropped as a replay.                                     *)
LEMMA UpdateRejectsOnlySeq ==
  ASSUME NEW w \in RecSlidWindow, NEW seq \in Nat, NEW s \in Nat,
         s # seq, ~RecAntiReplayCheck(w, s),
         s + REC_SLID_WINDOW_SIZE > seq
  PROVE  ~RecAntiReplayCheck(RecAntiReplayUpdate(w, seq), s)
<1> USE WindowSizeAssumption DEF RecSlidWindow, Bits
<1>1. CASE seq + REC_SLID_WINDOW_SIZE <= w.top
  BY <1>1 DEF RecAntiReplayUpdate
<1>2. CASE ~(seq + REC_SLID_WINDOW_SIZE <= w.top) /\ seq <= w.top
  BY <1>2 DEF RecAntiReplayUpdate, RecAntiReplayCheck
<1>3. CASE ~(seq <= w.top)
  <2> DEFINE n == seq - w.top
             u == [top |-> seq, window |-> ShiftLeft(w.window, n) \cup {0}]
  <2>1. RecAntiReplayUpdate(w, seq) = u
    BY <1>3 DEF RecAntiReplayUpdate
  <2>2. CASE s > seq
    BY <2>1, <2>2 DEF RecAntiReplayCheck
  <2>3. CASE s < seq
    <3>1. seq - s \notin {0} /\ seq - s < REC_SLID_WINDOW_SIZE
      BY <2>3
    <3>2. ASSUME seq - s \in ShiftLeft(w.window, n)
          PROVE  FALSE
      <4>1. seq - s >= n /\ (seq - s) - n \in w.window
        BY <3>2 DEF ShiftLeft
      <4>2. s <= w.top /\ (seq - s) - n = w.top - s
        BY <4>1, <1>3, <2>3
      <4> QED
        BY <4>1, <4>2 DEF RecAntiReplayCheck
    <3> QED
      BY <2>1, <2>3, <3>1, <3>2 DEF RecAntiReplayCheck
  <2> QED
    BY <2>2, <2>3
<1> QED
  BY <1>1, <1>2, <1>3

(* A new read state refuses nothing. *)
LEMMA ResetRejectsNothing ==
  /\ RecAntiReplayReset \in RecSlidWindow
  /\ \A s \in Nat : ~RecAntiReplayCheck(RecAntiReplayReset, s)
BY WindowSizeAssumption DEF RecAntiReplayReset, RecSlidWindow, RecAntiReplayCheck, Bits

-----------------------------------------------------------------------------
(* Sequences.                                                              *)

(* Removing an element of a sequence leaves a sequence one shorter. *)
LEMMA RemoveAtType ==
  ASSUME NEW S, NEW seq \in Seq(S), NEW i \in DOMAIN seq
  PROVE  /\ RemoveAt(seq, i) \in Seq(S)
         /\ Len(RemoveAt(seq, i)) = Len(seq) - 1
<1> DEFINE front == SubSeq(seq, 1, i - 1)
           back  == SubSeq(seq, i + 1, Len(seq))
<1>1. /\ Len(seq) \in Nat /\ i \in 1 .. Len(seq)
      /\ \A j \in 1 .. Len(seq) : seq[j] \in S
  BY ElementOfSeq
<1>2. front \in Seq(S) /\ Len(front) = i - 1
  BY <1>1, SubSeqProperties
<1>3. back \in Seq(S) /\ Len(back) = Len(seq) - i
  BY <1>1, SubSeqProperties
<1>4. RemoveAt(seq, i) = front \o back
  BY DEF RemoveAt
<1> HIDE DEF front, back
<1>5. front \o back \in Seq(S) /\ Len(front \o back) = Len(front) + Len(back)
  BY <1>2, <1>3, ConcatProperties
<1> QED
  BY <1>1, <1>2, <1>3, <1>4, <1>5

-----------------------------------------------------------------------------
(* Type correctness.                                                       *)

(* Every record the network may deliver has the fields of RecordFields. *)
LEMMA RecordFieldsTyped ==
  ASSUME NEW r \in Records
  PROVE  /\ r.epoch \in Nat /\ r.seq \in Nat /\ Id(r) \in Nat \X Nat
         /\ r # NULL
BY RecordReadAssumption DEF RecordFields, Id

(* The window and the epoch after a record that left the window w: they    *)
(* stay, or a new epoch starts with an empty window.                       *)
WindowStep(w) ==
  \/ readEpoch' = readEpoch /\ readWindow' = w
  \/ readEpoch' = readEpoch + 1 /\ readWindow' = RecAntiReplayReset

(* The types of what the helpers of a reading call change. *)
ReadTypeOK ==
  /\ readEpoch \in Nat
  /\ readWindow \in RecSlidWindow
  /\ readPending \in BOOLEAN
  /\ ccs \subseteq CcsFlags
  /\ phase \in Phases

(* A step that keeps, updates or resets the window keeps its type. *)
LEMMA WindowStepType ==
  ASSUME readEpoch \in Nat, NEW w \in RecSlidWindow, WindowStep(w)
  PROVE  readEpoch' \in Nat /\ readWindow' \in RecSlidWindow
BY ResetRejectsNothing DEF WindowStep

(* Accepting a record leaves a window of the right type. *)
LEMMA UpdatedType ==
  ASSUME TypeOK, NEW r \in Records
  PROVE  Updated(r) \in RecSlidWindow
BY UpdateType, RecordFieldsTyped DEF TypeOK, Updated

(* HandshakeMessage keeps the types; the window stays or starts anew. *)
LEMMA HandshakeMessageEffect ==
  ASSUME TypeOK, NEW r \in Records, NEW w \in RecSlidWindow, HandshakeMessage(r, w)
  PROVE  ReadTypeOK' /\ WindowStep(w)
<1>1. WindowStep(w)
  BY DEF HandshakeMessage, ExpectFinished, WindowStep
<1>2. readPending' \in BOOLEAN /\ phase' \in Phases
  BY DEF TypeOK, HandshakeMessage, ExpectFinished, Phases
<1>3. ccs' \subseteq CcsFlags
  BY DEF TypeOK, HandshakeMessage, ExpectFinished, CcsFlags, CcsExitReady
<1> QED
  BY <1>1, <1>2, <1>3, WindowStepType DEF TypeOK, ReadTypeOK

(* The types after a ChangeCipherSpec, whichever way it went. *)
LEMMA ProcessPlainCCSEffect ==
  ASSUME TypeOK, NEW r \in Records, ProcessPlainCCS(r)
  PROVE  /\ ReadTypeOK' /\ WindowStep(Updated(r))
         /\ alertCause' \in {"none", "app_data", "no_pending"}
<1>1. WindowStep(Updated(r))
  BY DEF TypeOK, ProcessPlainCCS, ActivePendingReadState, WindowStep
<1>2. /\ readPending' \in BOOLEAN /\ phase' \in Phases
      /\ alertCause' \in {"none", "app_data", "no_pending"}
  BY DEF TypeOK, ProcessPlainCCS, ActivePendingReadState, FatalAlert, Phases
<1>3. ccs' \subseteq CcsFlags
  BY DEF TypeOK, ProcessPlainCCS, CcsFlags
<1> QED
  BY <1>1, <1>2, <1>3, WindowStepType, UpdatedType DEF TypeOK, ReadTypeOK

(* The histories keep their types when a record is accepted. *)
LEMMA RecordAcceptedType ==
  ASSUME TypeOK, NEW r \in Records, RecordAccepted(r)
  PROVE  accepted' \subseteq Nat \X Nat /\ replayed' \subseteq accepted'
BY RecordFieldsTyped DEF TypeOK, RecordAccepted

(* The effect of a decrypted record, whoever asked for it. *)
RecordEffect(r) ==
  /\ ReadTypeOK' /\ WindowStep(Updated(r))
  /\ alertCause' \in {"none", "app_data", "no_pending"}
  /\ hsCtx' \in BOOLEAN /\ handshakes' \in 1 .. MaxHandshakes
  /\ hsRecList' \in Seq(Records) /\ appRecList' \in Seq(Records)
  /\ consumed' \in Seq(Records)

(* HsRecord keeps the types of everything but the two caches. *)
LEMMA HsRecordEffect ==
  ASSUME TypeOK, NEW r \in Records, HsRecord(r)
  PROVE  RecordEffect(r)
<1>0. /\ UNCHANGED <<hsCtx, handshakes, hsRecList>>
      /\ hsCtx \in BOOLEAN /\ handshakes \in 1 .. MaxHandshakes
      /\ hsRecList \in Seq(Records) /\ appRecList \in Seq(Records)
      /\ consumed \in Seq(Records)
      /\ alertCause \in {"none", "app_data", "no_pending"}
      /\ Updated(r) \in RecSlidWindow
  BY UpdatedType DEF HsRecord, TypeOK
<1>1. CASE /\ HandshakeMessage(r, Updated(r))
           /\ UNCHANGED <<alertCause, appRecList, consumed>>
  BY <1>0, <1>1, HandshakeMessageEffect DEF RecordEffect
<1>2. CASE ProcessPlainCCS(r) /\ UNCHANGED <<appRecList, consumed>>
  BY <1>0, <1>2, ProcessPlainCCSEffect DEF RecordEffect
<1>3. ASSUME NEW allowAppOut \in BOOLEAN, UnexpectedApp(r, allowAppOut)
      PROVE  RecordEffect(r)
  <2> DEFINE list == Append(appRecList, r)
  <2>1. /\ list \in Seq(Records) /\ list # <<>>
    BY <1>0, AppendProperties
  <2>2. Head(list) \in Records /\ Tail(list) \in Seq(Records)
    BY <2>1, HeadTailProperties
  <2>3. /\ appRecList' \in Seq(Records) /\ consumed' \in Seq(Records)
    <3>1. \/ consumed' = consumed /\ appRecList' = list
          \/ consumed' = Append(consumed, Head(list)) /\ appRecList' = Tail(list)
      BY <1>3 DEF UnexpectedApp
    <3> HIDE DEF list
    <3>2. Append(consumed, Head(list)) \in Seq(Records)
      BY <1>0, <2>2, AppendProperties
    <3> QED
      BY <1>0, <2>1, <2>2, <3>1, <3>2
  <2>4. /\ alertCause' \in {"none", "app_data", "no_pending"}
        /\ phase' \in Phases
    BY <1>0, <1>3 DEF UnexpectedApp, FatalAlert, Phases, TypeOK
  <2>5. ReadTypeOK' /\ WindowStep(Updated(r))
    BY <1>0, <1>3, <2>4 DEF UnexpectedApp, ReadTypeOK, TypeOK, WindowStep
  <2> QED
    BY <1>0, <2>3, <2>4, <2>5 DEF RecordEffect
<1>4. CASE ReceivedAlert(r) /\ UNCHANGED <<appRecList, consumed>>
  BY <1>0, <1>4 DEF ReceivedAlert, RecordEffect, ReadTypeOK, TypeOK, WindowStep, Phases
<1> QED
  BY <1>1, <1>2, <1>3, <1>4 DEF HsRecord

(* AppRecord keeps the types of everything but the two caches. *)
LEMMA AppRecordEffect ==
  ASSUME TypeOK, NEW r \in Records, NEW peek \in BOOLEAN, AppRecord(r, peek)
  PROVE  RecordEffect(r)
<1>0. /\ hsCtx \in BOOLEAN /\ handshakes \in 1 .. MaxHandshakes
      /\ hsRecList \in Seq(Records) /\ appRecList \in Seq(Records)
      /\ consumed \in Seq(Records)
      /\ alertCause \in {"none", "app_data", "no_pending"}
      /\ Updated(r) \in RecSlidWindow
      /\ MaxHandshakes \in Nat
  BY UpdatedType, RecordReadAssumption DEF TypeOK
<1>a. /\ Append(hsRecList, r) \in Seq(Records)
      /\ Append(appRecList, r) \in Seq(Records)
      /\ Append(consumed, r) \in Seq(Records)
  BY <1>0, AppendProperties
<1>1. CASE /\ IF peek THEN appRecList' = Append(appRecList, r) /\ UNCHANGED consumed
                       ELSE consumed' = Append(consumed, r) /\ UNCHANGED appRecList
           /\ hsCtx' = FALSE
           /\ readWindow' = Updated(r)
           /\ UNCHANGED <<readEpoch, readPending, ccs, phase, handshakes, alertCause, hsRecList>>
  <2>1. appRecList' \in Seq(Records) /\ consumed' \in Seq(Records)
    BY <1>0, <1>a, <1>1
  <2> QED
    BY <1>0, <1>1, <2>1 DEF RecordEffect, ReadTypeOK, TypeOK, WindowStep
<1>2. CASE /\ UnexpectedHandshake(r)
           /\ readWindow' = Updated(r)
           /\ UNCHANGED <<readEpoch, readPending, ccs, alertCause, appRecList, consumed>>
  <2>1. hsRecList' \in Seq(Records)
    BY <1>0, <1>a, <1>2 DEF UnexpectedHandshake
  <2>2. handshakes' \in 1 .. MaxHandshakes /\ phase' \in Phases
    BY <1>0, <1>2 DEF UnexpectedHandshake, Phases, TypeOK
  <2>3. hsCtx' \in BOOLEAN
    BY <1>2 DEF UnexpectedHandshake
  <2> QED
    BY <1>0, <1>2, <2>1, <2>2, <2>3 DEF RecordEffect, ReadTypeOK, TypeOK, WindowStep
<1>3. CASE ProcessPlainCCS(r) /\ UNCHANGED <<hsCtx, handshakes, listVars, consumed>>
  BY <1>0, <1>3, ProcessPlainCCSEffect DEF RecordEffect, listVars
<1>4. CASE ReceivedAlert(r) /\ UNCHANGED <<hsCtx, handshakes, listVars, consumed>>
  BY <1>0, <1>4 DEF ReceivedAlert, RecordEffect, ReadTypeOK, TypeOK, WindowStep, Phases, listVars
<1> QED
  BY <1>1, <1>2, <1>3, <1>4 DEF AppRecord

CacheTypeOK ==
  /\ unprocessedHsMsg \in Records \cup {NULL}
  /\ unprocessedAppMsgList \in Seq(Records)
  /\ Len(unprocessedAppMsgList) <= UNPROCESSED_APP_MSG_COUNT_MAX

(* Setting a record aside keeps the caches in type and within their limit. *)
LEMMA BufferType ==
  ASSUME TypeOK, NEW r \in Records, NEW hsCache \in Records \cup {NULL},
         BufferUnprocessedMsg(r, hsCache)
  PROVE  CacheTypeOK'
<1>1. /\ unprocessedAppMsgList \in Seq(Records)
      /\ Len(unprocessedAppMsgList) \in Nat
      /\ Len(unprocessedAppMsgList) <= UNPROCESSED_APP_MSG_COUNT_MAX
      /\ UNPROCESSED_APP_MSG_COUNT_MAX \in Nat
  BY RecordReadAssumption DEF TypeOK
<1>2. /\ Append(unprocessedAppMsgList, r) \in Seq(Records)
      /\ Len(Append(unprocessedAppMsgList, r)) = Len(unprocessedAppMsgList) + 1
  BY <1>1, AppendProperties
<1>3. unprocessedHsMsg' \in Records \cup {NULL}
  BY DEF BufferUnprocessedMsg
<1>4. \/ unprocessedAppMsgList' = unprocessedAppMsgList
      \/ /\ Len(unprocessedAppMsgList) < UNPROCESSED_APP_MSG_COUNT_MAX
         /\ unprocessedAppMsgList' = Append(unprocessedAppMsgList, r)
  BY DEF BufferUnprocessedMsg
<1> QED
  BY <1>1, <1>2, <1>3, <1>4 DEF CacheTypeOK

(* Discarding a cached record of an old epoch keeps the slot in type. *)
LEMMA FreshHsCacheType ==
  ASSUME TypeOK PROVE FreshHsCache \in Records \cup {NULL}
BY DEF TypeOK, FreshHsCache

(* A step that decrypts a record keeps the types, and so does a dropped one. *)
LEMMA RecordStepType ==
  ASSUME TypeOK, NEW r \in Records, RecordAccepted(r), RecordEffect(r), CacheTypeOK'
  PROVE  TypeOK'
BY RecordAcceptedType DEF TypeOK, RecordEffect, ReadTypeOK, CacheTypeOK

(* Dropping a record keeps the types, whatever it did to the caches. *)
LEMMA DropType ==
  ASSUME TypeOK, Drop, CacheTypeOK'
  PROVE  TypeOK'
BY DEF TypeOK, Drop, CacheTypeOK, readStateVars, connVars, listVars, historyVars

(* The initial states are typed. *)
LEMMA TypeInit == Init => TypeOK
<1> SUFFICES ASSUME Init PROVE TypeOK
  OBVIOUS
<1>1. <<>> \in Seq(Records) /\ Len(<<>>) = 0
  BY EmptySeq
<1>2. 0 <= UNPROCESSED_APP_MSG_COUNT_MAX /\ 1 \in 1 .. MaxHandshakes
  BY RecordReadAssumption
<1>3. readWindow \in RecSlidWindow
  BY ResetRejectsNothing DEF Init
<1>4. replayed \subseteq accepted /\ accepted \subseteq Nat \X Nat
  BY DEF Init
<1>5. /\ readPending \in BOOLEAN /\ ccs \subseteq CcsFlags /\ hsCtx \in BOOLEAN
      /\ phase \in Phases
  BY DEF Init, Phases, CcsFlags, CcsExitReady
<1> QED
  BY <1>1, <1>2, <1>3, <1>4, <1>5 DEF Init, TypeOK

(* Every action keeps the types. *)
LEMMA TypeNext == TypeOK /\ [Next]_vars => TypeOK'
<1> SUFFICES ASSUME TypeOK, [Next]_vars PROVE TypeOK'
  OBVIOUS
<1>a. CacheTypeOK
  BY DEF TypeOK, CacheTypeOK
<1>1. CASE HsReadList
  <2>1. Head(hsRecList) \in Records /\ Tail(hsRecList) \in Seq(Records)
    BY <1>1, HeadTailProperties DEF HsReadList, TypeOK
  <2>2. ReadTypeOK'
    BY <1>1, <2>1, HandshakeMessageEffect DEF HsReadList, TypeOK
  <2> QED
    BY <1>1, <2>1, <2>2 DEF HsReadList, TypeOK, ReadTypeOK, cacheVars, historyVars
<1>2. CASE HsReadCached
  <2>1. unprocessedHsMsg \in Records
    BY <1>2 DEF HsReadCached, ExistUnprocessedHsMsg, TypeOK
  <2>2. CacheTypeOK'
    BY <1>2, <1>a DEF HsReadCached, CacheTypeOK
  <2> QED
    BY <1>2, <2>1, <2>2, HsRecordEffect, RecordStepType, DropType DEF HsReadCached, HsRecord
<1>3. ASSUME NEW r \in Records, HsReadNetwork(r)
      PROVE  TypeOK'
  <2>1. CASE MustBuffer(r)
    BY <1>3, <2>1, BufferType, FreshHsCacheType, DropType DEF HsReadNetwork
  <2>2. CASE ~MustBuffer(r)
    <3>1. CacheTypeOK'
      BY <1>3, <1>a, <2>2, FreshHsCacheType DEF HsReadNetwork, CacheTypeOK
    <3> QED
      BY <1>3, <2>2, <3>1, HsRecordEffect, RecordStepType, DropType DEF HsReadNetwork, HsRecord
  <2> QED
    BY <2>1, <2>2
<1>4. ASSUME NEW peek \in BOOLEAN, AppReadList(peek)
      PROVE  TypeOK'
  <2>1. Head(appRecList) \in Records /\ Tail(appRecList) \in Seq(Records)
    BY <1>4, HeadTailProperties DEF AppReadList, TypeOK
  <2>2. Append(consumed, Head(appRecList)) \in Seq(Records)
    BY <2>1, AppendProperties DEF TypeOK
  <2>3. appRecList' \in Seq(Records) /\ consumed' \in Seq(Records)
    BY <1>4, <2>1, <2>2 DEF AppReadList, TypeOK
  <2> QED
    BY <1>4, <2>3 DEF AppReadList, TypeOK, readStateVars, cacheVars
<1>5. ASSUME NEW peek \in BOOLEAN, AppReadCached(peek)
      PROVE  TypeOK'
  <2>1. PICK i \in DOMAIN unprocessedAppMsgList :
          /\ unprocessedAppMsgList' = RemoveAt(unprocessedAppMsgList, i)
          /\ UNCHANGED unprocessedHsMsg
          /\ IF Passes(unprocessedAppMsgList[i])
             THEN AppRecord(unprocessedAppMsgList[i], peek) ELSE Drop
    BY <1>5 DEF AppReadCached
  <2>2. unprocessedAppMsgList[i] \in Records
    BY <1>a, ElementOfSeq DEF CacheTypeOK
  <2>3. CacheTypeOK'
    <3>1. /\ unprocessedAppMsgList' \in Seq(Records)
          /\ Len(unprocessedAppMsgList') = Len(unprocessedAppMsgList) - 1
      BY <1>a, <2>1, RemoveAtType DEF CacheTypeOK
    <3>2. Len(unprocessedAppMsgList) \in Nat /\ UNPROCESSED_APP_MSG_COUNT_MAX \in Nat
      BY <1>a, RecordReadAssumption DEF CacheTypeOK
    <3> QED
      BY <1>a, <2>1, <3>1, <3>2 DEF CacheTypeOK
  <2> QED
    BY <2>1, <2>2, <2>3, AppRecordEffect, RecordStepType, DropType DEF AppRecord
<1>6. ASSUME NEW r \in Records, NEW peek \in BOOLEAN, AppReadNetwork(r, peek)
      PROVE  TypeOK'
  <2>1. CASE MustBuffer(r)
    <3>1. BufferUnprocessedMsg(r, unprocessedHsMsg) /\ Drop
      BY <1>6, <2>1 DEF AppReadNetwork
    <3> QED
      BY <1>a, <3>1, BufferType, DropType DEF CacheTypeOK
  <2>2. CASE ~MustBuffer(r)
    <3>1. CacheTypeOK'
      BY <1>6, <1>a, <2>2 DEF AppReadNetwork, CacheTypeOK, cacheVars
    <3> QED
      BY <1>6, <2>2, <3>1, AppRecordEffect, RecordStepType, DropType DEF AppReadNetwork, AppRecord
  <2> QED
    BY <2>1, <2>2
<1>7. CASE OfferSession
  BY <1>7 DEF OfferSession, TypeOK, CcsFlags, readStateVars, connVars, cacheVars,
              listVars, historyVars
<1>8. CASE Renegotiate
  BY <1>8, RecordReadAssumption
     DEF Renegotiate, TypeOK, Phases, readStateVars, cacheVars, listVars, historyVars
<1>9. CASE Release2Msl
  BY <1>9 DEF Release2Msl, TypeOK, readStateVars, cacheVars, listVars, historyVars
<1>10. CASE UNCHANGED vars
  BY <1>10 DEF vars, TypeOK, readStateVars, connVars, cacheVars, listVars, historyVars
<1> QED
  BY <1>1, <1>2, <1>3, <1>4, <1>5, <1>6, <1>7, <1>8, <1>9, <1>10 DEF Next

(* Every variable keeps its type, and the list of out-of-order records     *)
(* never outgrows UNPROCESSED_APP_MSG_COUNT_MAX (rec_unprocessed_msg.c:104). *)
THEOREM TypeCorrect == Spec => []TypeOK
<1>1. Init => TypeOK
  BY TypeInit
<1>2. TypeOK /\ [Next]_vars => TypeOK'
  BY TypeNext
<1> QED
  BY <1>1, <1>2, PTL DEF Spec

-----------------------------------------------------------------------------
(* At most once.  The window alone is not inductive: what makes a second   *)
(* acceptance impossible is that every number accepted in the current      *)
(* epoch is refused, and that epochs that are over never come back.        *)

ReplayInv ==
  /\ \A id \in accepted : id[1] <= readEpoch
  /\ \A s \in Nat : <<readEpoch, s>> \in accepted => RecAntiReplayCheck(readWindow, s)
  /\ replayed = {}

(* As far as replays go, a step either decrypts one record of the current  *)
(* epoch that the window let through, or none.                             *)
DecryptStep(r) ==
  /\ r.epoch = readEpoch /\ ~RecAntiReplayCheck(readWindow, r.seq)
  /\ RecordAccepted(r) /\ WindowStep(Updated(r))

QuietStep == WindowStep(readWindow) /\ UNCHANGED <<accepted, replayed>>

(* A dropped record accepts nothing. *)
LEMMA DropQuiet == Drop => QuietStep
BY DEF Drop, QuietStep, WindowStep, readStateVars, historyVars

(* Every step is quiet or decrypts one record that passed the window. *)
LEMMA EveryStep ==
  ASSUME TypeOK, [Next]_vars
  PROVE  QuietStep \/ \E r \in Records : DecryptStep(r)
<1>1. CASE HsReadList
  <2>1. Head(hsRecList) \in Records
    BY <1>1, HeadTailProperties DEF HsReadList, TypeOK
  <2>2. WindowStep(readWindow)
    BY <1>1, <2>1, HandshakeMessageEffect DEF HsReadList, TypeOK
  <2> QED
    BY <1>1, <2>2 DEF HsReadList, QuietStep, historyVars
<1>2. CASE HsReadCached
  <2>1. unprocessedHsMsg \in Records /\ unprocessedHsMsg.epoch = readEpoch
    BY <1>2 DEF HsReadCached, ExistUnprocessedHsMsg, TypeOK
  <2>2. CASE Passes(unprocessedHsMsg) /\ HsRecord(unprocessedHsMsg)
    BY <2>1, <2>2, HsRecordEffect DEF Passes, DecryptStep, HsRecord, RecordEffect
  <2> QED
    BY <1>2, <2>2, DropQuiet DEF HsReadCached
<1>3. ASSUME NEW r \in Records, HsReadNetwork(r)
      PROVE  QuietStep \/ \E q \in Records : DecryptStep(q)
  <2>1. CASE r.epoch = readEpoch /\ Passes(r) /\ HsRecord(r)
    BY <2>1, HsRecordEffect DEF Passes, DecryptStep, HsRecord, RecordEffect
  <2> QED
    BY <1>3, <2>1, DropQuiet DEF HsReadNetwork
<1>4. ASSUME NEW peek \in BOOLEAN, AppReadList(peek)
      PROVE  QuietStep
  BY <1>4 DEF AppReadList, QuietStep, WindowStep, readStateVars
<1>5. ASSUME NEW peek \in BOOLEAN, AppReadCached(peek)
      PROVE  QuietStep \/ \E q \in Records : DecryptStep(q)
  <2>1. PICK i \in DOMAIN unprocessedAppMsgList :
          /\ FirstOfEpoch(i)
          /\ IF Passes(unprocessedAppMsgList[i])
             THEN AppRecord(unprocessedAppMsgList[i], peek) ELSE Drop
    BY <1>5 DEF AppReadCached
  <2> DEFINE r == unprocessedAppMsgList[i]
  <2>2. r \in Records /\ r.epoch = readEpoch
    BY <2>1, ElementOfSeq DEF FirstOfEpoch, TypeOK
  <2>3. CASE Passes(r) /\ AppRecord(r, peek)
    BY <2>2, <2>3, AppRecordEffect DEF Passes, DecryptStep, AppRecord, RecordEffect
  <2> QED
    BY <2>1, <2>3, DropQuiet
<1>6. ASSUME NEW r \in Records, NEW peek \in BOOLEAN, AppReadNetwork(r, peek)
      PROVE  QuietStep \/ \E q \in Records : DecryptStep(q)
  <2>1. CASE r.epoch = readEpoch /\ Passes(r) /\ AppRecord(r, peek)
    BY <2>1, AppRecordEffect DEF Passes, DecryptStep, AppRecord, RecordEffect
  <2> QED
    BY <1>6, <2>1, DropQuiet DEF AppReadNetwork
<1>7. CASE OfferSession \/ Renegotiate \/ Release2Msl \/ UNCHANGED vars
  BY <1>7 DEF OfferSession, Renegotiate, Release2Msl, vars, QuietStep, WindowStep,
              readStateVars, historyVars
<1> QED
  BY <1>1, <1>2, <1>3, <1>4, <1>5, <1>6, <1>7 DEF Next

(* A step that accepts nothing keeps ReplayInv. *)
LEMMA QuietKeepsReplayInv ==
  ASSUME TypeOK, ReplayInv, QuietStep
  PROVE  ReplayInv'
<1>1. /\ accepted \subseteq Nat \X Nat /\ readEpoch \in Nat
      /\ accepted' = accepted /\ replayed' = {}
  BY DEF TypeOK, QuietStep, ReplayInv
<1>2. CASE readEpoch' = readEpoch /\ readWindow' = readWindow
  BY <1>1, <1>2 DEF ReplayInv
<1>3. CASE readEpoch' = readEpoch + 1
  <2>1. \A id \in accepted : id[1] \in Nat /\ id[1] <= readEpoch
    BY <1>1 DEF ReplayInv
  <2>2. \A s \in Nat : <<readEpoch', s>> \notin accepted
    BY <1>1, <1>3, <2>1
  <2>3. \A id \in accepted' : id[1] <= readEpoch'
    BY <1>1, <1>3, <2>1
  <2> QED
    BY <1>1, <2>2, <2>3 DEF ReplayInv
<1> QED
  BY <1>2, <1>3 DEF QuietStep, WindowStep

(* Decrypting a record that passed the window keeps ReplayInv. *)
LEMMA DecryptKeepsReplayInv ==
  ASSUME TypeOK, ReplayInv, NEW r \in Records, DecryptStep(r)
  PROVE  ReplayInv'
<1>1. /\ accepted \subseteq Nat \X Nat /\ readEpoch \in Nat
      /\ readWindow \in RecSlidWindow /\ r.seq \in Nat
      /\ r.epoch = readEpoch /\ Id(r) = <<readEpoch, r.seq>>
      /\ ~RecAntiReplayCheck(readWindow, r.seq)
  BY RecordFieldsTyped DEF TypeOK, DecryptStep, Id
<1>2. Id(r) \notin accepted
  BY <1>1 DEF ReplayInv
<1>3. accepted' = accepted \cup {<<readEpoch, r.seq>>} /\ replayed' = {}
  BY <1>1, <1>2 DEF DecryptStep, RecordAccepted, ReplayInv
<1>4. \A id \in accepted' : id[1] \in Nat /\ id[1] <= readEpoch
  BY <1>1, <1>3 DEF ReplayInv
<1>5. CASE readEpoch' = readEpoch /\ readWindow' = Updated(r)
  <2>1. ASSUME NEW s \in Nat, <<readEpoch, s>> \in accepted'
        PROVE  RecAntiReplayCheck(Updated(r), s)
    <3>1. CASE s = r.seq
      BY <1>1, <3>1, UpdateRejectsSeq DEF Updated
    <3>2. CASE s # r.seq
      <4>1. <<readEpoch, s>> \in accepted
        BY <1>1, <1>3, <2>1, <3>2
      <4>2. RecAntiReplayCheck(readWindow, s)
        BY <4>1 DEF ReplayInv
      <4> QED
        BY <1>1, <4>2, UpdateKeepsRejected DEF Updated
    <3> QED
      BY <3>1, <3>2
  <2> QED
    BY <1>3, <1>4, <1>5, <2>1 DEF ReplayInv
<1>6. CASE readEpoch' = readEpoch + 1
  <2>1. \A s \in Nat : <<readEpoch', s>> \notin accepted'
    BY <1>1, <1>4, <1>6
  <2>2. \A id \in accepted' : id[1] <= readEpoch'
    BY <1>1, <1>4, <1>6
  <2> QED
    BY <1>3, <2>1, <2>2 DEF ReplayInv
<1> QED
  BY <1>5, <1>6 DEF DecryptStep, WindowStep

(* No record is decrypted twice, whatever the network repeats and whatever *)
(* the caches hold back (rec_read.c:589-609, record.c:497-507).            *)
THEOREM RecordsAtMostOnce == Spec => []AtMostOnce
<1>1. Init => TypeOK /\ ReplayInv
  BY TypeInit DEF Init, ReplayInv
<1>2. TypeOK /\ ReplayInv /\ [Next]_vars => (TypeOK /\ ReplayInv)'
  BY TypeNext, EveryStep, QuietKeepsReplayInv, DecryptKeepsReplayInv
<1>3. ReplayInv => AtMostOnce
  BY DEF ReplayInv, AtMostOnce
<1> QED
  BY <1>1, <1>2, <1>3, PTL DEF Spec

(* WindowExact for every number, not only those of the records in Records. *)
ExactInv ==
  \A s \in Nat :
    RecAntiReplayCheck(readWindow, s) =>
      \/ <<readEpoch, s>> \in accepted
      \/ \E id \in accepted : id[1] = readEpoch /\ id[2] >= s + REC_SLID_WINDOW_SIZE

(* Every step keeps ExactInv. *)
LEMMA StepKeepsExactInv ==
  ASSUME TypeOK, ExactInv, [Next]_vars
  PROVE  ExactInv'
<1>1. CASE readEpoch' = readEpoch + 1 /\ readWindow' = RecAntiReplayReset
  BY <1>1, ResetRejectsNothing DEF ExactInv
<1>2. CASE QuietStep /\ readEpoch' = readEpoch /\ readWindow' = readWindow
  BY <1>2 DEF QuietStep, ExactInv
<1>3. ASSUME NEW r \in Records, DecryptStep(r),
             readEpoch' = readEpoch, readWindow' = Updated(r)
      PROVE  ExactInv'
  <2>1. /\ readWindow \in RecSlidWindow /\ r.seq \in Nat
        /\ readWindow' = RecAntiReplayUpdate(readWindow, r.seq)
        /\ accepted' = accepted \cup {<<readEpoch, r.seq>>}
        /\ REC_SLID_WINDOW_SIZE \in Nat
    BY <1>3, RecordFieldsTyped, WindowSizeAssumption
       DEF TypeOK, Updated, DecryptStep, RecordAccepted, Id
  <2>2. ASSUME NEW s \in Nat, RecAntiReplayCheck(readWindow', s)
        PROVE  \/ <<readEpoch, s>> \in accepted'
               \/ \E id \in accepted' : /\ id[1] = readEpoch
                                       /\ id[2] >= s + REC_SLID_WINDOW_SIZE
    <3>1. CASE s = r.seq
      BY <2>1, <3>1
    <3>2. CASE s + REC_SLID_WINDOW_SIZE <= r.seq
      <4>1. <<readEpoch, r.seq>> \in accepted'
        BY <2>1
      <4> QED
        BY <2>1, <3>2, <4>1
    <3>3. CASE s # r.seq /\ ~(s + REC_SLID_WINDOW_SIZE <= r.seq)
      <4>1. RecAntiReplayCheck(readWindow, s)
        BY <2>1, <2>2, <3>3, UpdateRejectsOnlySeq
      <4> QED
        BY <2>1, <4>1 DEF ExactInv
    <3> QED
      BY <3>1, <3>2, <3>3
  <2> QED
    BY <1>3, <2>2 DEF ExactInv
<1> QED
  BY <1>1, <1>2, <1>3, EveryStep DEF QuietStep, DecryptStep, WindowStep

(* The window drops nothing but repeats and records that arrive at least a *)
(* window behind the newest: loss by the replay check is exactly that.     *)
THEOREM ReplayWindowExact == Spec => []WindowExact
<1>1. Init => TypeOK /\ ExactInv
  BY TypeInit, ResetRejectsNothing DEF Init, ExactInv
<1>2. TypeOK /\ ExactInv /\ [Next]_vars => (TypeOK /\ ExactInv)'
  BY TypeNext, StepKeepsExactInv
<1>3. ExactInv => WindowExact
  BY RecordFieldsTyped DEF ExactInv, WindowExact, Id
<1> QED
  BY <1>1, <1>2, <1>3, PTL DEF Spec

-----------------------------------------------------------------------------
(* Keys.  In each phase the flags of ccsCtx, the pending read state and    *)
(* the epoch determine one another; that correlation is what the two       *)
(* invariants about keys follow from.                                      *)

PhaseInv ==
  /\ alertCause # "no_pending"
  /\ phase = "hello" =>
       /\ ccs \subseteq {"isReady", "ccsRecvflag"}
       /\ readPending = FALSE /\ readEpoch + 1 = handshakes
  /\ phase = "flight" => ccs = {} /\ readPending = FALSE /\ readEpoch + 1 = handshakes
  /\ phase = "finish" =>
       \/ /\ ccs = {"isReady", "isAllowActiveCipher"}
          /\ readPending = TRUE /\ readEpoch + 1 = handshakes
       \/ ccs = CcsFlags /\ readPending = FALSE /\ readEpoch = handshakes
  /\ phase = "connected" => ccs = {} /\ readPending = FALSE /\ readEpoch = handshakes

(* Only the hello that starts a renegotiation is ever kept for the handshake. *)
HsListInv == hsRecList = <<>> \/ (phase = "hello" /\ Len(hsRecList) = 1)

(* HandshakeMessage keeps the phase, the flags and the epoch in step. *)
LEMMA HandshakeMessageKeys ==
  ASSUME TypeOK, PhaseInv, NEW r \in Records, NEW w, HandshakeMessage(r, w),
         r.epoch = readEpoch \/ phase = "hello",
         UNCHANGED <<handshakes, alertCause>>
  PROVE  PhaseInv' /\ (phase # "hello" => phase' # "hello")
<1>0. /\ readEpoch \in Nat /\ handshakes \in Nat
  BY RecordReadAssumption DEF TypeOK
<1>1. CASE /\ r.msg = "hello" /\ phase = "hello"
           /\ ccs' = CcsExitReady /\ phase' = "flight"
           /\ UNCHANGED <<readEpoch, readPending>>
  BY <1>1 DEF PhaseInv, CcsExitReady
<1>2. CASE phase \in {"hello", "flight"} /\ ExpectFinished(w)
  BY <1>0, <1>2 DEF PhaseInv, ExpectFinished, CcsFlags
<1>3. CASE /\ ExpectedFinished(r) /\ ccs' = CcsExitReady /\ phase' = "connected"
           /\ UNCHANGED <<readEpoch, readPending>>
  BY <1>0, <1>3 DEF PhaseInv, ExpectedFinished, CcsExitReady
<1>4. CASE UNCHANGED <<readEpoch, readPending, ccs, phase>>
  BY <1>4 DEF PhaseInv
<1> QED
  BY <1>1, <1>2, <1>3, <1>4 DEF HandshakeMessage

(* ProcessPlainCCS keeps the phase, the flags and the epoch in step. *)
LEMMA ProcessPlainCCSKeys ==
  ASSUME TypeOK, PhaseInv, NEW r \in Records, ProcessPlainCCS(r), UNCHANGED handshakes,
         phase # "over"
  PROVE  PhaseInv' /\ phase' = phase
<1>0. /\ readEpoch \in Nat /\ handshakes \in Nat
      /\ phase \in Phases \ {"over"}
  BY RecordReadAssumption DEF TypeOK
<1>1. CASE "isReady" \notin ccs /\ UNCHANGED <<readEpoch, readPending, ccs, phase, alertCause>>
  BY <1>1 DEF PhaseInv
<1>2. CASE /\ "isReady" \in ccs /\ ~MayActivate
           /\ ccs' = ccs \cup {"ccsRecvflag"}
           /\ UNCHANGED <<readEpoch, readPending, phase, alertCause>>
  BY <1>0, <1>2 DEF PhaseInv, MayActivate, CcsFlags, Phases
<1>3. CASE /\ "isReady" \in ccs /\ MayActivate
           /\ ActivePendingReadState(Updated(r))
           /\ IF readPending
              THEN /\ ccs' = ccs \cup {"ccsRecvflag", "activeCipherFlag"}
                   /\ UNCHANGED <<phase, alertCause>>
              ELSE FatalAlert("no_pending") /\ UNCHANGED ccs
  <2>1. phase = "finish" /\ readPending = TRUE /\ readEpoch + 1 = handshakes
        /\ ccs = {"isReady", "isAllowActiveCipher"}
    BY <1>0, <1>3 DEF PhaseInv, MayActivate, CcsFlags, Phases
  <2>2. /\ readEpoch' = readEpoch + 1 /\ readPending' = FALSE
        /\ ccs' = CcsFlags /\ phase' = phase /\ alertCause' = alertCause
    BY <1>3, <2>1 DEF ActivePendingReadState, CcsFlags
  <2> QED
    BY <2>1, <2>2, <1>0 DEF PhaseInv
<1> QED
  BY <1>1, <1>2, <1>3 DEF ProcessPlainCCS

KeyInv == PhaseInv /\ HsListInv

(* HsRecord keeps KeyInv. *)
LEMMA HsRecordKeys ==
  ASSUME TypeOK, PhaseInv, HandshakePhase, hsRecList = <<>>,
         NEW r \in Records, r.epoch = readEpoch, HsRecord(r)
  PROVE  PhaseInv' /\ hsRecList' = <<>>
<1>1. hsRecList' = <<>> /\ UNCHANGED handshakes /\ phase # "over"
  BY DEF HsRecord, HandshakePhase
<1>2. CASE HandshakeMessage(r, Updated(r)) /\ UNCHANGED alertCause
  BY <1>1, <1>2, HandshakeMessageKeys
<1>3. CASE ProcessPlainCCS(r)
  BY <1>1, <1>3, ProcessPlainCCSKeys
<1>4. ASSUME NEW allowAppOut \in BOOLEAN, UnexpectedApp(r, allowAppOut)
      PROVE  PhaseInv'
  <2>1. /\ UNCHANGED <<readEpoch, readPending, ccs>>
        /\ UNCHANGED <<phase, alertCause>> \/ FatalAlert("app_data")
    BY <1>4 DEF UnexpectedApp
  <2> QED
    BY <1>1, <2>1 DEF PhaseInv, FatalAlert
<1>5. CASE ReceivedAlert(r)
  BY <1>1, <1>5 DEF ReceivedAlert, PhaseInv
<1> QED
  BY <1>1, <1>2, <1>3, <1>4, <1>5 DEF HsRecord

(* AppRecord keeps KeyInv. *)
LEMMA AppRecordKeys ==
  ASSUME TypeOK, KeyInv, phase = "connected", NEW r \in Records,
         NEW peek \in BOOLEAN, AppRecord(r, peek)
  PROVE  KeyInv'
<1>1. /\ hsRecList = <<>> /\ ccs = {} /\ readPending = FALSE
      /\ readEpoch = handshakes /\ alertCause # "no_pending"
  BY DEF KeyInv, PhaseInv, HsListInv
<1>2. CASE UNCHANGED <<readEpoch, readPending, ccs, phase, handshakes, alertCause, hsRecList>>
  BY <1>2 DEF KeyInv, PhaseInv, HsListInv
<1>3. CASE /\ UnexpectedHandshake(r)
           /\ UNCHANGED <<readEpoch, readPending, ccs, alertCause>>
  <2>1. CASE /\ phase' = "hello" /\ handshakes' = handshakes + 1
             /\ hsRecList' = Append(hsRecList, r)
    <3>1. Len(hsRecList') = 1
      BY <1>1, <2>1
    <3> QED
      BY <1>1, <1>3, <2>1, <3>1 DEF KeyInv, PhaseInv, HsListInv
  <2>2. CASE UNCHANGED <<phase, handshakes, hsRecList>>
    BY <1>3, <2>2 DEF KeyInv, PhaseInv, HsListInv
  <2> QED
    BY <1>3, <2>1, <2>2 DEF UnexpectedHandshake
<1>4. CASE ProcessPlainCCS(r) /\ UNCHANGED <<hsCtx, handshakes, listVars, consumed>>
  BY <1>1, <1>4, ProcessPlainCCSKeys DEF KeyInv, HsListInv, listVars
<1>5. CASE ReceivedAlert(r) /\ UNCHANGED <<hsCtx, handshakes, listVars, consumed>>
  BY <1>1, <1>5 DEF ReceivedAlert, KeyInv, PhaseInv, HsListInv, listVars
<1> QED
  BY <1>2, <1>3, <1>4, <1>5 DEF AppRecord

(* A dropped record changes nothing the invariants about keys mention. *)
LEMMA DropKeys == KeyInv /\ Drop => KeyInv'
BY DEF Drop, KeyInv, PhaseInv, HsListInv, readStateVars, connVars, listVars

(* The initial states satisfy KeyInv. *)
LEMMA KeyInit == Init => KeyInv
BY DEF Init, KeyInv, PhaseInv, HsListInv, CcsExitReady

(* Every action keeps KeyInv. *)
LEMMA KeyNext ==
  ASSUME TypeOK, KeyInv, [Next]_vars
  PROVE  KeyInv'
<1>1. CASE HsReadList
  <2>1. /\ phase = "hello" /\ Len(hsRecList) = 1 /\ hsRecList # <<>>
    BY <1>1 DEF HsReadList, KeyInv, HsListInv
  <2>2. Head(hsRecList) \in Records /\ hsRecList' = <<>>
    <3>1. /\ Head(hsRecList) \in Records /\ Tail(hsRecList) \in Seq(Records)
          /\ Len(Tail(hsRecList)) = 0
      BY <2>1, HeadTailProperties DEF TypeOK
    <3> QED
      BY <1>1, <3>1, EmptySeq DEF HsReadList
  <2>3. PhaseInv'
    BY <1>1, <2>1, <2>2, HandshakeMessageKeys DEF HsReadList, KeyInv
  <2> QED
    BY <2>2, <2>3 DEF KeyInv, HsListInv
<1>2. CASE HsReadCached
  <2>1. unprocessedHsMsg \in Records /\ unprocessedHsMsg.epoch = readEpoch
    BY <1>2 DEF HsReadCached, ExistUnprocessedHsMsg, TypeOK
  <2>2. CASE HsRecord(unprocessedHsMsg)
    BY <1>2, <2>1, <2>2, HsRecordKeys DEF HsReadCached, KeyInv, HsListInv
  <2> QED
    BY <1>2, <2>2, DropKeys DEF HsReadCached
<1>3. ASSUME NEW r \in Records, HsReadNetwork(r)
      PROVE  KeyInv'
  <2>1. CASE r.epoch = readEpoch /\ HsRecord(r)
    BY <1>3, <2>1, HsRecordKeys DEF HsReadNetwork, KeyInv, HsListInv
  <2> QED
    BY <1>3, <2>1, DropKeys DEF HsReadNetwork
<1>4. ASSUME NEW peek \in BOOLEAN, AppReadList(peek)
      PROVE  KeyInv'
  BY <1>4 DEF AppReadList, KeyInv, PhaseInv, HsListInv, readStateVars
<1>5. ASSUME NEW peek \in BOOLEAN, AppReadCached(peek)
      PROVE  KeyInv'
  <2>1. PICK i \in DOMAIN unprocessedAppMsgList :
          IF Passes(unprocessedAppMsgList[i])
          THEN AppRecord(unprocessedAppMsgList[i], peek) ELSE Drop
    BY <1>5 DEF AppReadCached
  <2>2. unprocessedAppMsgList[i] \in Records
    BY ElementOfSeq DEF TypeOK
  <2> QED
    BY <1>5, <2>1, <2>2, AppRecordKeys, DropKeys DEF AppReadCached
<1>6. ASSUME NEW r \in Records, NEW peek \in BOOLEAN, AppReadNetwork(r, peek)
      PROVE  KeyInv'
  BY <1>6, AppRecordKeys, DropKeys DEF AppReadNetwork
<1>7. CASE OfferSession
  BY <1>7 DEF OfferSession, KeyInv, PhaseInv, HsListInv, readStateVars, connVars, listVars
<1>8. CASE Renegotiate
  BY <1>8 DEF Renegotiate, KeyInv, PhaseInv, HsListInv, readStateVars, listVars
<1>9. CASE Release2Msl \/ UNCHANGED vars
  BY <1>9 DEF Release2Msl, vars, KeyInv, PhaseInv, HsListInv, readStateVars, connVars, listVars
<1> QED
  BY <1>1, <1>2, <1>3, <1>4, <1>5, <1>6, <1>7, <1>8, <1>9 DEF Next

(* KeyInv holds in every reachable state. *)
LEMMA KeysInvariant == Spec => [](TypeOK /\ KeyInv)
<1>1. Init => TypeOK /\ KeyInv
  BY TypeInit, KeyInit
<1>2. TypeOK /\ KeyInv /\ [Next]_vars => (TypeOK /\ KeyInv)'
  BY TypeNext, KeyNext
<1> QED
  BY <1>1, <1>2, PTL DEF Spec

(* The read side never has to switch to keys it does not have, however the *)
(* ChangeCipherSpec, the end of the key exchange and a renegotiation are   *)
(* ordered (change_cipher_spec.c:118-129 and 202-209).                     *)
THEOREM ActivationAlwaysHasKeys == Spec => []ActivationHasKeys
<1>1. KeyInv => ActivationHasKeys
  BY DEF KeyInv, PhaseInv, ActivationHasKeys
<1> QED
  BY <1>1, KeysInvariant, PTL

(* Every completed handshake has switched the read epoch exactly once, and *)
(* none has switched it before its keys were established.                  *)
THEOREM EpochFollowsHandshakes == Spec => []OneEpochPerHandshake
<1>1. TypeOK /\ KeyInv => OneEpochPerHandshake
  BY RecordReadAssumption DEF TypeOK, KeyInv, PhaseInv, OneEpochPerHandshake
<1> QED
  BY <1>1, KeysInvariant, PTL
-----------------------------------------------------------------------------
(* The handshake record that came too early.                               *)

(* A handshake record that was set aside stays until its epoch is there:   *)
(* only a call for a record of the current epoch takes it, only one of an  *)
(* epoch that is over is discarded, and a later one finds the slot taken   *)
(* (rec_unprocessed_msg.c:30-45).                                          *)
THEOREM EarlyRecordIsKept == Spec => HsCacheKept
<1>1. ASSUME TypeOK, [Next]_vars,
             unprocessedHsMsg # NULL, unprocessedHsMsg.epoch > readEpoch
      PROVE  unprocessedHsMsg' = unprocessedHsMsg
  <2>1. /\ unprocessedHsMsg.epoch \in Nat /\ readEpoch \in Nat
    BY <1>1, RecordFieldsTyped DEF TypeOK
  <2>2. FreshHsCache = unprocessedHsMsg /\ ~ExistUnprocessedHsMsg
    BY <1>1, <2>1 DEF FreshHsCache, ExistUnprocessedHsMsg
  <2>3. \A r \in Records, hsCache \in {FreshHsCache, unprocessedHsMsg} :
          BufferUnprocessedMsg(r, hsCache) => unprocessedHsMsg' = unprocessedHsMsg
    BY <1>1, <2>2 DEF BufferUnprocessedMsg
  <2>4. CASE HsReadList \/ OfferSession \/ Renegotiate \/ Release2Msl \/ UNCHANGED vars
    BY <2>4 DEF HsReadList, OfferSession, Renegotiate, Release2Msl, vars, cacheVars
  <2>5. CASE HsReadCached
    BY <2>2, <2>5 DEF HsReadCached
  <2>6. CASE \E r \in Records : HsReadNetwork(r)
    BY <2>2, <2>3, <2>6 DEF HsReadNetwork
  <2>7. CASE \E peek \in BOOLEAN : AppReadList(peek) \/ AppReadCached(peek)
    BY <2>7 DEF AppReadList, AppReadCached, cacheVars
  <2>8. CASE \E r \in Records, peek \in BOOLEAN : AppReadNetwork(r, peek)
    BY <2>3, <2>8 DEF AppReadNetwork, cacheVars
  <2> QED
    BY <1>1, <2>4, <2>5, <2>6, <2>7, <2>8 DEF Next
<1>2. TypeOK /\ [Next]_vars =>
        [unprocessedHsMsg # NULL /\ unprocessedHsMsg.epoch > readEpoch
           => unprocessedHsMsg' = unprocessedHsMsg]_vars
  BY <1>1
<1> QED
  BY <1>2, TypeCorrect, PTL DEF Spec, HsCacheKept

-----------------------------------------------------------------------------
(* Application data in a first handshake.                                  *)

(* The peer sends application data under keys only. *)
NoPlainData == \A r \in Records : r.type = "APP" => r.epoch > 0

(* What the handling of such data relies on: a handshake has its context,  *)
(* and only a handshake record waits in the slot for it.                   *)
DataInv ==
  /\ HandshakePhase => hsCtx
  /\ unprocessedHsMsg # NULL => unprocessedHsMsg.type = "HANDSHAKE"
  /\ FirstHandshakeToleratesApp

(* Setting a record aside keeps the slot for handshake records. *)
LEMMA SlotForHandshake ==
  ASSUME TypeOK, DataInv, NEW r \in Records,
         BufferUnprocessedMsg(r, FreshHsCache) \/ BufferUnprocessedMsg(r, unprocessedHsMsg)
  PROVE  unprocessedHsMsg' # NULL => unprocessedHsMsg'.type = "HANDSHAKE"
<1>1. unprocessedHsMsg' \in {r, NULL, unprocessedHsMsg}
      /\ (unprocessedHsMsg' = r => r.type = "HANDSHAKE" \/ r = NULL \/ r = unprocessedHsMsg)
  BY DEF BufferUnprocessedMsg, FreshHsCache
<1> QED
  BY <1>1 DEF DataInv

(* A message of the handshake layer ends a handshake or goes on with it. *)
LEMMA HandshakeMessagePhase ==
  ASSUME NEW r, NEW w, HandshakeMessage(r, w), HandshakePhase
  PROVE  phase' \in {"hello", "flight", "finish", "connected"}
BY DEF HandshakeMessage, ExpectFinished, HandshakePhase

(* A decrypted record keeps DataInv in a first handshake and later ones:   *)
(* application data of the current epoch that was not set aside came in a  *)
(* renegotiation.                                                          *)
LEMMA HsRecordData ==
  ASSUME NoPlainData, TypeOK, KeyInv, DataInv, HandshakePhase, NEW r \in Records,
         r.epoch = readEpoch, r.type = "APP" => ~MustBuffer(r), HsRecord(r),
         unprocessedHsMsg' # NULL => unprocessedHsMsg'.type = "HANDSHAKE"
  PROVE  DataInv'
<1>1. hsCtx /\ hsCtx' = hsCtx /\ handshakes' = handshakes
  BY DEF DataInv, HsRecord
<1>2. CASE r.type = "APP"
  <2>1. "ccsRecvflag" \notin ccs /\ readEpoch > 0
    BY <1>1, <1>2 DEF MustBuffer, NoPlainData
  <2>2. /\ handshakes \in 1 .. MaxHandshakes /\ MaxHandshakes \in Nat /\ readEpoch \in Nat
    BY RecordReadAssumption DEF TypeOK
  <2>3. readEpoch + 1 = handshakes
    BY <2>1 DEF KeyInv, PhaseInv, HandshakePhase, CcsFlags
  <2> QED
    BY <1>1, <2>1, <2>2, <2>3 DEF DataInv, FirstHandshakeToleratesApp
<1>3. CASE r.type = "HANDSHAKE"
  BY <1>1, <1>3 DEF DataInv, FirstHandshakeToleratesApp, HsRecord
<1>4. CASE r.type = "CHANGE_CIPHER_SPEC"
  <2>1. alertCause' \in {alertCause, "no_pending"}
    BY <1>4 DEF HsRecord, ProcessPlainCCS, FatalAlert
  <2> QED
    BY <1>1, <2>1 DEF DataInv, FirstHandshakeToleratesApp
<1>5. CASE r.type = "ALERT"
  BY <1>1, <1>5 DEF DataInv, FirstHandshakeToleratesApp, HsRecord, ReceivedAlert
<1> QED
  BY <1>2, <1>3, <1>4, <1>5 DEF HsRecord

(* A record read in a connection keeps DataInv. *)
LEMMA AppRecordData ==
  ASSUME TypeOK, KeyInv, DataInv, phase = "connected", NEW r \in Records,
         NEW peek \in BOOLEAN, AppRecord(r, peek), 
         unprocessedHsMsg' # NULL => unprocessedHsMsg'.type = "HANDSHAKE"
  PROVE  DataInv'
<1>1. handshakes \in 1 .. MaxHandshakes /\ MaxHandshakes \in Nat
  BY RecordReadAssumption DEF TypeOK
<1>2. CASE r.type = "APP"
  BY <1>2 DEF AppRecord, DataInv, HandshakePhase, FirstHandshakeToleratesApp
<1>3. CASE r.type = "HANDSHAKE"
  BY <1>1, <1>3 DEF AppRecord, UnexpectedHandshake, DataInv, HandshakePhase,
                    FirstHandshakeToleratesApp
<1>4. CASE r.type = "CHANGE_CIPHER_SPEC"
  <2>1. "isReady" \notin ccs
    BY DEF KeyInv, PhaseInv
  <2> QED
    BY <1>4, <2>1 DEF AppRecord, ProcessPlainCCS, DataInv, HandshakePhase,
                      FirstHandshakeToleratesApp
<1>5. CASE r.type = "ALERT"
  BY <1>5 DEF AppRecord, ReceivedAlert, DataInv, HandshakePhase, FirstHandshakeToleratesApp
<1> QED
  BY <1>2, <1>3, <1>4, <1>5 DEF AppRecord

(* Every step keeps DataInv. *)
LEMMA DataNext ==
  ASSUME NoPlainData, TypeOK, KeyInv, DataInv, [Next]_vars
  PROVE  DataInv'
<1>a. \A x \in {NULL, unprocessedHsMsg, FreshHsCache} : x # NULL => x.type = "HANDSHAKE"
  BY DEF DataInv, FreshHsCache
<1>d. Drop => hsCtx' = hsCtx /\ phase' = phase /\ alertCause' = alertCause
              /\ handshakes' = handshakes
  BY DEF Drop, connVars
<1>b. ASSUME Drop, unprocessedHsMsg' # NULL => unprocessedHsMsg'.type = "HANDSHAKE"
      PROVE  DataInv'
  BY <1>b, <1>d DEF DataInv, FirstHandshakeToleratesApp, HandshakePhase
<1>1. CASE HsReadList
  BY <1>1, HandshakeMessagePhase
     DEF HsReadList, DataInv, HandshakePhase, FirstHandshakeToleratesApp, cacheVars
<1>2. CASE HsReadCached
  <2>1. /\ unprocessedHsMsg \in Records /\ unprocessedHsMsg.type = "HANDSHAKE"
        /\ unprocessedHsMsg.epoch = readEpoch /\ unprocessedHsMsg' = NULL /\ HandshakePhase
    BY <1>2 DEF HsReadCached, ExistUnprocessedHsMsg, TypeOK, DataInv
  <2>2. CASE HsRecord(unprocessedHsMsg)
    BY <2>1, <2>2, HsRecordData
  <2> QED
    BY <1>2, <1>b, <2>1, <2>2 DEF HsReadCached
<1>3. ASSUME NEW r \in Records, HsReadNetwork(r)
      PROVE  DataInv'
  <2>1. CASE MustBuffer(r) /\ BufferUnprocessedMsg(r, FreshHsCache) /\ Drop
    BY <1>b, <2>1, SlotForHandshake
  <2>2. CASE /\ ~MustBuffer(r) /\ unprocessedHsMsg' = FreshHsCache
             /\ r.epoch = readEpoch /\ HsRecord(r)
    BY <1>3, <1>a, <2>2, HsRecordData DEF HsReadNetwork
  <2>3. CASE unprocessedHsMsg' = FreshHsCache /\ Drop
    BY <1>a, <1>b, <2>3
  <2> QED
    BY <1>3, <2>1, <2>2, <2>3 DEF HsReadNetwork
<1>4. ASSUME NEW peek \in BOOLEAN, AppReadList(peek)
      PROVE  DataInv'
  BY <1>4 DEF AppReadList, DataInv, HandshakePhase, FirstHandshakeToleratesApp, cacheVars
<1>5. ASSUME NEW peek \in BOOLEAN, AppReadCached(peek)
      PROVE  DataInv'
  <2>1. PICK i \in DOMAIN unprocessedAppMsgList :
          IF Passes(unprocessedAppMsgList[i])
          THEN AppRecord(unprocessedAppMsgList[i], peek) ELSE Drop
    BY <1>5 DEF AppReadCached
  <2>2. /\ unprocessedAppMsgList[i] \in Records /\ unprocessedHsMsg' = unprocessedHsMsg
        /\ phase = "connected"
    BY <1>5, ElementOfSeq DEF TypeOK, AppReadCached
  <2> QED
    BY <1>a, <1>b, <2>1, <2>2, AppRecordData
<1>6. ASSUME NEW r \in Records, NEW peek \in BOOLEAN, AppReadNetwork(r, peek)
      PROVE  DataInv'
  <2>1. CASE BufferUnprocessedMsg(r, unprocessedHsMsg) /\ Drop
    BY <1>b, <2>1, SlotForHandshake
  <2>2. CASE unprocessedHsMsg' = unprocessedHsMsg /\ (AppRecord(r, peek) \/ Drop)
    BY <1>6, <1>a, <1>b, <2>2, AppRecordData DEF AppReadNetwork
  <2> QED
    BY <1>6, <2>1, <2>2 DEF AppReadNetwork, cacheVars
<1>7. CASE OfferSession \/ UNCHANGED vars
  BY <1>7 DEF OfferSession, vars, connVars, cacheVars, DataInv, HandshakePhase,
              FirstHandshakeToleratesApp
<1>8. CASE Renegotiate
  <2>1. handshakes \in 1 .. MaxHandshakes /\ MaxHandshakes \in Nat
    BY RecordReadAssumption DEF TypeOK
  <2> QED
    BY <1>8, <2>1 DEF Renegotiate, cacheVars, DataInv, HandshakePhase, FirstHandshakeToleratesApp
<1>9. CASE Release2Msl
  BY <1>9 DEF Release2Msl, cacheVars, DataInv, HandshakePhase, FirstHandshakeToleratesApp
<1> QED
  BY <1>1, <1>2, <1>3, <1>4, <1>5, <1>6, <1>7, <1>8, <1>9 DEF Next

(* Data that overtakes the Finished is set aside and never taken for data  *)
(* in the middle of a first handshake, which is fatal                      *)
(* (conn_common.c:232-236), if the peer sends none without keys.           *)
THEOREM FirstHandshakeSurvivesData ==
  ASSUME NoPlainData
  PROVE  Spec => []FirstHandshakeToleratesApp
<1>1. Init => DataInv
  BY DEF Init, DataInv, FirstHandshakeToleratesApp
<1>2. TypeOK /\ KeyInv /\ DataInv /\ [Next]_vars => DataInv'
  BY DataNext
<1>3. DataInv => FirstHandshakeToleratesApp
  BY DEF DataInv
<1>4. Spec => [](TypeOK /\ KeyInv)
  BY KeysInvariant
<1> QED
  BY <1>1, <1>2, <1>3, <1>4, PTL DEF Spec
-----------------------------------------------------------------------------
(* The application data.                                                   *)

(* A sender uses each record number once; damaged copies do not count.     *)
NumbersAreUnique ==
  \A r, s \in Records : r.intact /\ s.intact /\ Id(r) = Id(s) => r.type = s.type

(* What the application was given and what waits for it. *)
Held == consumed \o appRecList

HeldInv ==
  /\ \A i \in DOMAIN Held : Id(Held[i]) \in accepted
  /\ AppConserved

(* A step hands one decrypted record of data up or keeps it for later, or  *)
(* only moves what was kept.                                               *)
TakesData(r) == DecryptStep(r) /\ r.intact /\ r.type = "APP" /\ Held' = Append(Held, r)
TakesOther(r) == DecryptStep(r) /\ r.intact /\ r.type # "APP" /\ Held' = Held
TakesNothing == accepted' = accepted /\ Held' = Held

(* Moving the first of a sequence to the end of the one before it. *)
LEMMA HeadMoves ==
  ASSUME NEW S, NEW s \in Seq(S), NEW t \in Seq(S), t # <<>>
  PROVE  Append(s, Head(t)) \o Tail(t) = s \o t
<1>1. /\ Head(t) \in S /\ Tail(t) \in Seq(S) /\ Len(Tail(t)) = Len(t) - 1
      /\ \A i \in 1 .. Len(Tail(t)) : Tail(t)[i] = t[i + 1]
  BY HeadTailProperties
<1>2. Len(t) \in Nat /\ Len(t) # 0 /\ Head(t) = t[1]
  BY EmptySeq
<1>3. PICK h \in Seq(S) : h = <<Head(t)>>
  <2>1. \A e \in S : <<e>> \in Seq(S)
    OBVIOUS
  <2> QED
    BY <1>1, <2>1
<1>4. PICK b \in Seq(S) : b = Tail(t)
  BY <1>1
<1>5. /\ Append(s, Head(t)) = s \o h
      /\ Len(h) = 1 /\ h[1] = Head(t)
      /\ Len(b) = Len(t) - 1 /\ \A i \in 1 .. Len(b) : b[i] = t[i + 1]
  <2>1. Append(s, Head(t)) = s \o h
    <3>1. \A e \in S : Append(s, e) = s \o <<e>>
      BY AppendIsConcat
    <3> QED
      BY <1>1, <1>3, <3>1
  <2>2. Len(h) = 1 /\ h[1] = Head(t)
    BY <1>3
  <2>3. Len(b) = Len(t) - 1 /\ \A i \in 1 .. Len(b) : b[i] = t[i + 1]
    BY <1>1, <1>4
  <2> QED
    BY <2>1, <2>2, <2>3
<1>6. /\ h \o b \in Seq(S) /\ Len(h \o b) = Len(h) + Len(b)
      /\ \A i \in 1 .. Len(h) + Len(b) :
           (h \o b)[i] = IF i <= Len(h) THEN h[i] ELSE b[i - Len(h)]
  BY ConcatProperties
<1>7. ASSUME NEW i \in 1 .. Len(t) PROVE (h \o b)[i] = t[i]
  <2>1. CASE i = 1
    BY <1>2, <1>5, <1>6, <2>1
  <2>2. CASE i # 1
    <3>1. i - 1 \in 1 .. Len(b) /\ (i - 1) + 1 = i
      BY <1>2, <1>5, <2>2
    <3>2. (h \o b)[i] = b[i - 1]
      BY <1>2, <1>5, <1>6, <2>2
    <3> QED
      BY <1>5, <3>1, <3>2
  <2> QED
    BY <2>1, <2>2
<1>8. h \o b = t
  BY <1>2, <1>5, <1>6, <1>7, SeqEqual
<1>9. (s \o h) \o b = s \o (h \o b)
  BY ConcatAssociative
<1> QED
  BY <1>4, <1>5, <1>8, <1>9

(* Appending to the second of two sequences appends to their concatenation. *)
LEMMA AppendToSecond ==
  ASSUME NEW S, NEW s \in Seq(S), NEW t \in Seq(S), NEW e \in S
  PROVE  s \o Append(t, e) = Append(s \o t, e)
<1>1. s \o t \in Seq(S) /\ <<e>> \in Seq(S)
  BY ConcatProperties
<1>2. Append(t, e) = t \o <<e>> /\ Append(s \o t, e) = (s \o t) \o <<e>>
  BY <1>1, AppendIsConcat
<1>3. (s \o t) \o <<e>> = s \o (t \o <<e>>)
  BY <1>1, ConcatAssociative
<1> QED
  BY <1>2, <1>3

(* Appending to the first, when the second is empty. *)
LEMMA AppendToFirst ==
  ASSUME NEW S, NEW s \in Seq(S), NEW e \in S
  PROVE  Append(s, e) \o <<>> = Append(s \o <<>>, e)
BY AppendProperties, ConcatEmptySeq

(* The handshake layer takes no data, or hands it out in a renegotiation,  *)
(* or keeps it when the connection fails.                                  *)
LEMMA HsRecordHolds ==
  ASSUME TypeOK, NEW r \in Records, HsRecord(r)
  PROVE  Held' = IF r.type = "APP" THEN Append(Held, r) ELSE Held
<1>1. /\ appRecList \in Seq(Records) /\ consumed \in Seq(Records)
  BY DEF TypeOK
<1>2. r.type # "APP" => consumed' = consumed /\ appRecList' = appRecList
  BY DEF HsRecord
<1>3. ASSUME r.type = "APP" PROVE Held' = Append(Held, r)
  <2>1. PICK allowAppOut \in BOOLEAN : UnexpectedApp(r, allowAppOut)
    BY <1>3 DEF HsRecord
  <2> DEFINE list == Append(appRecList, r)
  <2>2. list \in Seq(Records) /\ list # <<>>
    BY <1>1, AppendProperties
  <2>3. \/ consumed' = Append(consumed, Head(list)) /\ appRecList' = Tail(list)
        \/ consumed' = consumed /\ appRecList' = list
    BY <2>1 DEF UnexpectedApp
  <2>4. consumed \o list = Append(consumed \o appRecList, r)
    BY <1>1, AppendToSecond
  <2> HIDE DEF list
  <2>5. Append(consumed, Head(list)) \o Tail(list) = consumed \o list
    BY <1>1, <2>2, HeadMoves
  <2> QED
    BY <2>3, <2>4, <2>5 DEF Held
<1> QED
  BY <1>2, <1>3 DEF Held

(* HITLS_Read hands data out, HITLS_Peek keeps it. *)
LEMMA AppRecordHolds ==
  ASSUME TypeOK, appRecList = <<>>, NEW r \in Records, NEW peek \in BOOLEAN, AppRecord(r, peek)
  PROVE  Held' = IF r.type = "APP" THEN Append(Held, r) ELSE Held
<1>1. /\ appRecList \in Seq(Records) /\ consumed \in Seq(Records)
  BY DEF TypeOK
<1>2. r.type # "APP" => consumed' = consumed /\ appRecList' = appRecList
  BY DEF AppRecord, listVars
<1>3. ASSUME r.type = "APP" PROVE Held' = Append(Held, r)
  <2>1. \/ appRecList' = Append(appRecList, r) /\ consumed' = consumed
        \/ consumed' = Append(consumed, r) /\ appRecList' = <<>>
    BY <1>3 DEF AppRecord
  <2>2. consumed \o Append(appRecList, r) = Append(consumed \o appRecList, r)
    BY <1>1, AppendToSecond
  <2>3. Append(consumed, r) \o <<>> = Append(consumed \o <<>>, r)
    BY <1>1, AppendToFirst
  <2> QED
    BY <2>1, <2>2, <2>3 DEF Held
<1> QED
  BY <1>2, <1>3 DEF Held

(* Every step takes one record of data, takes another record or none.      *)
LEMMA EveryStepHolds ==
  ASSUME TypeOK, [Next]_vars
  PROVE  TakesNothing \/ \E r \in Records : TakesData(r) \/ TakesOther(r)
<1>a. Drop => TakesNothing
  BY DEF Drop, TakesNothing, Held, historyVars, listVars
<1>b. \A r \in Records : HsRecord(r) /\ r.epoch = readEpoch /\ Passes(r) =>
        TakesData(r) \/ TakesOther(r)
  <2> SUFFICES ASSUME NEW r \in Records, HsRecord(r), r.epoch = readEpoch, Passes(r)
               PROVE  TakesData(r) \/ TakesOther(r)
    OBVIOUS
  <2>1. DecryptStep(r) /\ r.intact
    BY HsRecordEffect DEF Passes, DecryptStep, HsRecord, RecordEffect
  <2> QED
    BY <2>1, HsRecordHolds DEF TakesData, TakesOther
<1>c. ASSUME appRecList = <<>>, NEW r \in Records, NEW peek \in BOOLEAN, AppRecord(r, peek),
             r.epoch = readEpoch, Passes(r)
      PROVE  TakesData(r) \/ TakesOther(r)
  <2>1. DecryptStep(r) /\ r.intact
    BY <1>c, AppRecordEffect DEF Passes, DecryptStep, AppRecord, RecordEffect
  <2> QED
    BY <1>c, <2>1, AppRecordHolds DEF TakesData, TakesOther
<1>1. CASE HsReadList \/ OfferSession \/ Renegotiate \/ Release2Msl \/ UNCHANGED vars
  BY <1>1 DEF HsReadList, OfferSession, Renegotiate, Release2Msl, vars, TakesNothing, Held,
              historyVars, listVars
<1>2. CASE HsReadCached
  <2>1. unprocessedHsMsg \in Records /\ unprocessedHsMsg.epoch = readEpoch
    BY <1>2 DEF HsReadCached, ExistUnprocessedHsMsg, TypeOK
  <2> QED
    BY <1>2, <1>a, <1>b, <2>1 DEF HsReadCached
<1>3. CASE \E r \in Records : HsReadNetwork(r)
  BY <1>3, <1>a, <1>b DEF HsReadNetwork
<1>4. ASSUME NEW peek \in BOOLEAN, AppReadList(peek)
      PROVE  TakesNothing
  <2>1. appRecList \in Seq(Records) /\ consumed \in Seq(Records) /\ appRecList # <<>>
    BY <1>4 DEF AppReadList, TypeOK
  <2>2. Append(consumed, Head(appRecList)) \o Tail(appRecList) = consumed \o appRecList
    BY <2>1, HeadMoves
  <2>3. accepted' = accepted
    BY <1>4 DEF AppReadList
  <2>4. \/ consumed' = consumed /\ appRecList' = appRecList
        \/ consumed' = Append(consumed, Head(appRecList)) /\ appRecList' = Tail(appRecList)
    BY <1>4 DEF AppReadList
  <2> QED
    BY <2>2, <2>3, <2>4 DEF TakesNothing, Held
<1>5. ASSUME NEW peek \in BOOLEAN, AppReadCached(peek)
      PROVE  TakesNothing \/ \E r \in Records : TakesData(r) \/ TakesOther(r)
  <2>1. PICK i \in DOMAIN unprocessedAppMsgList :
          /\ FirstOfEpoch(i)
          /\ IF Passes(unprocessedAppMsgList[i])
             THEN AppRecord(unprocessedAppMsgList[i], peek) ELSE Drop
    BY <1>5 DEF AppReadCached
  <2>2. /\ unprocessedAppMsgList[i] \in Records /\ unprocessedAppMsgList[i].epoch = readEpoch
        /\ appRecList = <<>>
    BY <1>5, <2>1, ElementOfSeq DEF FirstOfEpoch, TypeOK, AppReadCached
  <2> QED
    BY <1>a, <1>c, <2>1, <2>2
<1>6. ASSUME NEW r \in Records, NEW peek \in BOOLEAN, AppReadNetwork(r, peek)
      PROVE  TakesNothing \/ \E q \in Records : TakesData(q) \/ TakesOther(q)
  BY <1>6, <1>a, <1>c DEF AppReadNetwork
<1> QED
  BY <1>1, <1>2, <1>3, <1>4, <1>5, <1>6 DEF Next

(* A record that is decrypted is a new one. *)
LEMMA DecryptsNew ==
  ASSUME TypeOK, ReplayInv, NEW r \in Records, DecryptStep(r)
  PROVE  Id(r) \notin accepted /\ accepted' = accepted \cup {Id(r)}
<1>1. r.seq \in Nat /\ Id(r) = <<readEpoch, r.seq>>
  BY RecordFieldsTyped DEF DecryptStep, Id
<1> QED
  BY <1>1 DEF DecryptStep, RecordAccepted, ReplayInv

(* Every step keeps the data in order with what was decrypted. *)
LEMMA HeldNext ==
  ASSUME NumbersAreUnique, TypeOK, ReplayInv, HeldInv, [Next]_vars
  PROVE  HeldInv'
<1>1. Held \in Seq(Records) /\ Len(Held) \in Nat /\ DOMAIN Held = 1 .. Len(Held)
  BY ConcatProperties DEF TypeOK, Held
<1>2. CASE TakesNothing
  <2>1. consumed' \o appRecList' = consumed \o appRecList
    BY <1>2 DEF TakesNothing, Held
  <2> QED
    BY <1>2, <2>1 DEF HeldInv, AppConserved, Held, TakesNothing
<1>3. ASSUME NEW r \in Records, TakesData(r) PROVE HeldInv'
  <2>1. Id(r) \notin accepted /\ accepted' = accepted \cup {Id(r)} /\ Held' = Append(Held, r)
    BY <1>3, DecryptsNew DEF TakesData
  <2> DEFINE next == Append(Held, r)
  <2>2. /\ DOMAIN next = 1 .. Len(Held) + 1 /\ next[Len(Held) + 1] = r
        /\ \A i \in 1 .. Len(Held) : next[i] = Held[i]
    BY <1>1, AppendProperties
  <2> HIDE DEF next
  <2>3. \A i \in 1 .. Len(Held) : Id(Held[i]) \in accepted
    BY <1>1 DEF HeldInv
  <2>4. \A i \in DOMAIN next : Id(next[i]) \in accepted'
    BY <1>1, <2>1, <2>2, <2>3
  <2>5. \A i, j \in DOMAIN next : Id(next[i]) = Id(next[j]) => i = j
    <3>1. \A i, j \in 1 .. Len(Held) : Id(Held[i]) = Id(Held[j]) => i = j
      BY <1>1 DEF HeldInv, AppConserved, Held
    <3> QED
      BY <1>1, <2>1, <2>2, <2>3, <3>1
  <2>6. ASSUME NEW q \in Records, q.type = "APP", q.intact, Id(q) \in accepted'
        PROVE  \E i \in DOMAIN next : Id(next[i]) = Id(q)
    <3>1. CASE Id(q) = Id(r)
      BY <1>1, <2>2, <3>1
    <3>2. CASE Id(q) # Id(r)
      <4>1. \E i \in 1 .. Len(Held) : Id(Held[i]) = Id(q)
        BY <1>1, <2>1, <2>6, <3>2 DEF HeldInv, AppConserved, Held
      <4> QED
        BY <1>1, <2>2, <4>1
    <3> QED
      BY <3>1, <3>2
  <2>7. consumed' \o appRecList' = next
    BY <2>1 DEF Held, next
  <2> QED
    BY <2>4, <2>5, <2>6, <2>7 DEF HeldInv, AppConserved, Held
<1>4. ASSUME NEW r \in Records, TakesOther(r) PROVE HeldInv'
  <2>1. /\ accepted' = accepted \cup {Id(r)} /\ r.type # "APP" /\ r.intact
        /\ consumed' \o appRecList' = consumed \o appRecList
    BY <1>4, DecryptsNew DEF TakesOther, Held
  <2>2. \A q \in Records : q.type = "APP" /\ q.intact => Id(q) # Id(r)
    BY <2>1 DEF NumbersAreUnique
  <2> QED
    BY <2>1, <2>2 DEF HeldInv, AppConserved, Held
<1> QED
  BY <1>2, <1>3, <1>4, EveryStepHolds

(* Every record of application data that was decrypted reaches the         *)
(* application once or waits for it, in the order of arrival: peeking and  *)
(* renegotiating lose none and repeat none, for a peer that numbers its    *)
(* records.                                                                *)
THEOREM DataIsConserved ==
  ASSUME NumbersAreUnique
  PROVE  Spec => []AppConserved
<1>1. Init => TypeOK /\ ReplayInv /\ HeldInv
  <2> SUFFICES ASSUME Init PROVE ReplayInv /\ HeldInv
    BY TypeInit
  <2>1. Held = <<>> /\ accepted = {} /\ replayed = {} /\ DOMAIN Held = {}
    BY DEF Init, Held
  <2> QED
    BY <2>1 DEF ReplayInv, HeldInv, AppConserved, Held
<1>2. TypeOK /\ ReplayInv /\ HeldInv /\ [Next]_vars => (TypeOK /\ ReplayInv /\ HeldInv)'
  BY TypeNext, EveryStep, QuietKeepsReplayInv, DecryptKeepsReplayInv, HeldNext
<1>3. HeldInv => AppConserved
  BY DEF HeldInv
<1> QED
  BY <1>1, <1>2, <1>3, PTL DEF Spec
=============================================================================
