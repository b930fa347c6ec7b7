--------------------------- MODULE DtlsRecordRead ---------------------------
(***************************************************************************)
(* The reading half of one DTLS 1.2 endpoint over UDP: DtlsRecordRead with *)
(* its caches and lists (tls/record), the ChangeCipherSpec flags           *)
(* (tls/ccs) and the calls the handshake and the connection layer make on  *)
(* both.  A record is whole and carries one message; any record of Records *)
(* may arrive at any time, in any order and any number of times, which     *)
(* stands for a network that delays, reorders, duplicates and corrupts.    *)
(***************************************************************************)
EXTENDS RecAntiReplay, SequencesExt

CONSTANTS
  Records,                        \* the records the network may deliver
  UNPROCESSED_APP_MSG_COUNT_MAX,  \* capacity of the out-of-order list; 50 in the code
  MaxHandshakes,                  \* bound: handshakes on one connection
  NULL

RecordTypes == {"CHANGE_CIPHER_SPEC", "ALERT", "HANDSHAKE", "APP"}

(* intact is FALSE for a record whose authenticated decryption fails.      *)
RecordFields == [type : RecordTypes, epoch : Nat, seq : Nat,
                 msg : {"hello", "finished", "other"}, intact : BOOLEAN]

ASSUME RecordReadAssumption ==
  /\ Records \subseteq RecordFields
  /\ NULL \notin RecordFields
  /\ UNPROCESSED_APP_MSG_COUNT_MAX \in Nat
  /\ MaxHandshakes \in Nat \ {0}

VARIABLES
  readEpoch,              \* recCtx->readEpoch
  readWindow,             \* readStates.currentState->window
  readPending,            \* readStates.pendingState # NULL
  ccs,                    \* the flags of ctx->ccsCtx that are true
  hsCtx,                  \* ctx->hsCtx # NULL
  phase,                  \* where the connection is: see Phases
  handshakes,             \* handshakes started
  alertCause,             \* why a fatal alert was raised
  unprocessedHsMsg,       \* the cached next-epoch handshake record
  unprocessedAppMsgList,  \* the cached out-of-order records
  hsRecList, appRecList,  \* decrypted records that nobody asked for yet
  accepted,               \* history: <<epoch, seq>> of the records decrypted
  replayed,               \* history: those decrypted more than once
  consumed                \* history: the APP records the user read, in order

readStateVars == <<readEpoch, readWindow, readPending>>
connVars      == <<hsCtx, phase, handshakes, alertCause>>
cacheVars     == <<unprocessedHsMsg, unprocessedAppMsgList>>
listVars      == <<hsRecList, appRecList>>
historyVars   == <<accepted, replayed, consumed>>
vars == <<readStateVars, ccs, connVars, cacheVars, listVars, historyVars>>

(* hello:     TRY_RECV_CLIENT_HELLO (server) or TRY_RECV_SERVER_HELLO (client)  *)
(* flight:    the later TRY_RECV_* states, before the keys exist                *)
(* finish:    TRY_RECV_FINISH                                                   *)
(* connected: CM_STATE_TRANSPORTING                                             *)
(* over:      CM_STATE_ALERTED or CM_STATE_CLOSED                               *)
Phases == {"hello", "flight", "finish", "connected", "over"}

(* struct CcsCtx, as the set of its flags that are true. *)
CcsFlags == {"isReady", "ccsRecvflag", "isAllowActiveCipher", "activeCipherFlag"}

(* Faulty: the permission to switch survives the handshake. *)
FaultyExitReady == {"isAllowActiveCipher"}

(* CCS_CMD_RECV_EXIT_READY clears all four. *)
CcsExitReady == {}

TypeOK ==
  /\ readEpoch \in Nat
  /\ readWindow \in RecSlidWindow
  /\ readPending \in BOOLEAN
  /\ ccs \subseteq CcsFlags
  /\ hsCtx \in BOOLEAN
  /\ phase \in Phases
  /\ handshakes \in 1 .. MaxHandshakes
  /\ alertCause \in {"none", "app_data", "no_pending"}
  /\ unprocessedHsMsg \in Records \cup {NULL}
  /\ unprocessedAppMsgList \in Seq(Records)
  /\ Len(unprocessedAppMsgList) <= UNPROCESSED_APP_MSG_COUNT_MAX
  /\ hsRecList \in Seq(Records)
  /\ appRecList \in Seq(Records)
  /\ accepted \subseteq Nat \X Nat
  /\ replayed \subseteq accepted
  /\ consumed \in Seq(Records)

Init ==
  /\ readEpoch = 0 /\ readWindow = RecAntiReplayReset /\ readPending = FALSE
  /\ ccs = CcsExitReady
  /\ hsCtx = TRUE /\ phase = "hello" /\ handshakes = 1 /\ alertCause = "none"
  /\ unprocessedHsMsg = NULL /\ unprocessedAppMsgList = <<>>
  /\ hsRecList = <<>> /\ appRecList = <<>>
  /\ accepted = {} /\ replayed = {} /\ consumed = <<>>

-----------------------------------------------------------------------------
(* Read states and ChangeCipherSpec flags.                                 *)

Id(r) == <<r.epoch, r.seq>>

(* Faulty: the pending state is not detached when it becomes current. *)
FaultyActivePending(w) ==
  IF readPending
  THEN /\ readEpoch' = readEpoch + 1
       /\ readWindow' = RecAntiReplayReset
       /\ UNCHANGED readPending
  ELSE /\ readWindow' = w
       /\ UNCHANGED <<readEpoch, readPending>>

(* REC_ActivePendingState(ctx, false), called with the window w current. *)
ActivePendingReadState(w) ==
  IF readPending
  THEN /\ readEpoch' = readEpoch + 1
       /\ readPending' = FALSE
       /\ readWindow' = RecAntiReplayReset
  ELSE /\ readWindow' = w
       /\ UNCHANGED <<readEpoch, readPending>>

(* The window and the histories after a record is decrypted. *)
Updated(r) == RecAntiReplayUpdate(readWindow, r.seq)

RecordAccepted(r) ==
  /\ accepted' = accepted \cup {Id(r)}
  /\ replayed' = replayed \cup ({Id(r)} \cap accepted)

FatalAlert(cause) == phase' = "over" /\ alertCause' = cause

(* The ChangeCipherSpec may be acted upon, and was not yet. *)
MayActivate == "isAllowActiveCipher" \in ccs /\ "activeCipherFlag" \notin ccs

(* ProcessPlainCCS, reached through RecordUnexpectedMsg. *)
ProcessPlainCCS(r) ==
  \/ /\ "isReady" \notin ccs
     /\ readWindow' = Updated(r)
     /\ UNCHANGED <<readEpoch, readPending, ccs, phase, alertCause>>
  \/ /\ "isReady" \in ccs /\ ~MayActivate
     /\ ccs' = ccs \cup {"ccsRecvflag"}
     /\ readWindow' = Updated(r)
     /\ UNCHANGED <<readEpoch, readPending, phase, alertCause>>
  \/ /\ "isReady" \in ccs /\ MayActivate
     /\ ActivePendingReadState(Updated(r))
     /\ IF readPending
        THEN /\ ccs' = ccs \cup {"ccsRecvflag", "activeCipherFlag"}
             /\ UNCHANGED <<phase, alertCause>>
        ELSE FatalAlert("no_pending") /\ UNCHANGED ccs

(* REC_InitPendingState, then CCS_CMD_RECV_READY and                       *)
(* CCS_CMD_RECV_ACTIVE_CIPHER_SPEC, which switches at once when the peer's *)
(* ChangeCipherSpec is already here.  w is the current window.             *)
ExpectFinished(w) ==
  /\ phase' = "finish"
  /\ \/ /\ "ccsRecvflag" \in ccs /\ "activeCipherFlag" \notin ccs
        /\ readEpoch' = readEpoch + 1
        /\ readPending' = FALSE
        /\ readWindow' = RecAntiReplayReset
        /\ ccs' = CcsFlags
     \/ /\ "ccsRecvflag" \notin ccs \/ "activeCipherFlag" \in ccs
        /\ readPending' = TRUE
        /\ readWindow' = w
        /\ ccs' = ccs \cup {"isReady", "isAllowActiveCipher"}
        /\ UNCHANGED readEpoch

-----------------------------------------------------------------------------
(* Where a record comes from: the caches, then the network.                *)

HandshakePhase == phase \in {"hello", "flight", "finish"}

(* Faulty: a record is taken only when its epoch is over. *)
FaultyExistHsMsg ==
  unprocessedHsMsg # NULL /\ unprocessedHsMsg.epoch < readEpoch

(* IsExistUnprocessedHsMsg: also frees a cached record of an old epoch. *)
ExistUnprocessedHsMsg ==
  unprocessedHsMsg # NULL /\ unprocessedHsMsg.epoch = readEpoch

FreshHsCache ==
  IF unprocessedHsMsg # NULL /\ unprocessedHsMsg.epoch < readEpoch
  THEN NULL ELSE unprocessedHsMsg

(* UnprocessedAppMsgGet: the first cached record of the current epoch. *)
FirstOfEpoch(i) ==
  /\ unprocessedAppMsgList[i].epoch = readEpoch
  /\ \A j \in 1 .. i - 1 : unprocessedAppMsgList[j].epoch # readEpoch

ExistUnprocessedAppMsg ==
  \E i \in DOMAIN unprocessedAppMsgList : unprocessedAppMsgList[i].epoch = readEpoch

(* Faulty: the list has no limit. *)
FaultyBufferUnlimited(r, hsCache) ==
  IF r.type = "HANDSHAKE"
  THEN /\ unprocessedHsMsg' = IF hsCache = NULL THEN r ELSE hsCache
       /\ UNCHANGED unprocessedAppMsgList
  ELSE /\ unprocessedHsMsg' = hsCache
       /\ unprocessedAppMsgList' = Append(unprocessedAppMsgList, r)

(* Faulty: the newest handshake record takes the slot. *)
FaultyBufferOverwrite(r, hsCache) ==
  IF r.type = "HANDSHAKE"
  THEN /\ unprocessedHsMsg' = r
       /\ UNCHANGED unprocessedAppMsgList
  ELSE /\ unprocessedHsMsg' = hsCache
       /\ unprocessedAppMsgList' =
            IF Len(unprocessedAppMsgList) < UNPROCESSED_APP_MSG_COUNT_MAX
            THEN Append(unprocessedAppMsgList, r)
            ELSE unprocessedAppMsgList

(* RecordBufferUnprocessedMsg; hsCache is the slot after FreshHsCache.     *)
BufferUnprocessedMsg(r, hsCache) ==
  IF r.type = "HANDSHAKE"
  THEN /\ unprocessedHsMsg' = IF hsCache = NULL THEN r ELSE hsCache
       /\ UNCHANGED unprocessedAppMsgList
  ELSE /\ unprocessedHsMsg' = hsCache
       /\ unprocessedAppMsgList' =
            IF Len(unprocessedAppMsgList) < UNPROCESSED_APP_MSG_COUNT_MAX
            THEN Append(unprocessedAppMsgList, r)
            ELSE unprocessedAppMsgList

(* Faulty: data that overtakes the Finished is not set aside. *)
FaultyMustBuffer(r) == r.epoch = readEpoch + 1

(* DtlsRecordHeaderProcess sends these records to the caches. *)
MustBuffer(r) ==
  \/ r.epoch = readEpoch + 1
  \/ /\ r.epoch = readEpoch
     /\ hsCtx /\ "ccsRecvflag" \in ccs
     /\ r.type \in {"APP", "ALERT"}

(* AntiReplay and RecordDecrypt let the record through. *)
Passes(r) == ~RecAntiReplayCheck(readWindow, r.seq) /\ r.intact

-----------------------------------------------------------------------------
(* What the callers do with a record that was decrypted.                   *)

(* The handshake layer takes a handshake message; w is the window now.     *)
ExpectedFinished(r) ==
  phase = "finish" /\ r.msg = "finished" /\ r.epoch = handshakes

HandshakeMessage(r, w) ==
  \/ /\ r.msg = "hello" /\ phase = "hello"         \* a full handshake
     /\ ccs' = CcsExitReady
     /\ phase' = "flight"
     /\ readWindow' = w
     /\ UNCHANGED <<readEpoch, readPending>>
  \/ /\ r.msg = "hello"           \* resumption, or the end of the peer's flight
     /\ phase \in {"hello", "flight"}
     /\ ExpectFinished(w)
  \/ /\ ExpectedFinished(r)
     /\ ccs' = CcsExitReady
     /\ phase' = "connected"
     /\ readWindow' = w
     /\ UNCHANGED <<readEpoch, readPending>>
  \/ /\ ~ExpectedFinished(r)       \* an old or an early message, or not the last one
     /\ readWindow' = w
     /\ UNCHANGED <<readEpoch, readPending, ccs, phase>>

(* CommonEventInHandshakingState and CommonEventInRenegotiationState:      *)
(* application data is handed out only by HITLS_Read (allowAppOut) and     *)
(* only while a renegotiation waits for the peer's hello.                  *)
UnexpectedApp(r, allowAppOut) ==
  LET list == Append(appRecList, r) IN
  /\ readWindow' = Updated(r)
  /\ IF handshakes > 1 /\ phase = "hello" /\ allowAppOut
     THEN /\ consumed' = Append(consumed, Head(list))
          /\ appRecList' = Tail(list)
          /\ UNCHANGED <<phase, alertCause>>
     ELSE /\ FatalAlert("app_data")
          /\ appRecList' = list
          /\ UNCHANGED consumed
  /\ UNCHANGED <<readEpoch, readPending, ccs>>

ReceivedAlert(r) ==
  /\ phase' = "over"
  /\ readWindow' = Updated(r)
  /\ UNCHANGED <<readEpoch, readPending, ccs, alertCause>>

(* DtlsRecordRead(REC_TYPE_HANDSHAKE) has decrypted r. *)
HsRecord(r) ==
  /\ RecordAccepted(r)
  /\ UNCHANGED <<hsCtx, handshakes, hsRecList>>
  /\ \/ /\ r.type = "HANDSHAKE"
        /\ HandshakeMessage(r, Updated(r))
        /\ UNCHANGED <<alertCause, appRecList, consumed>>
     \/ /\ r.type = "CHANGE_CIPHER_SPEC"
        /\ ProcessPlainCCS(r)
        /\ UNCHANGED <<appRecList, consumed>>
     \/ /\ r.type = "APP"
        /\ \E allowAppOut \in BOOLEAN : UnexpectedApp(r, allowAppOut)
     \/ /\ r.type = "ALERT"
        /\ ReceivedAlert(r)
        /\ UNCHANGED <<appRecList, consumed>>

(* PreprocessUnexpectHsMsg: a hello starts a renegotiation, everything     *)
(* else is consumed (a retransmitted Finished after resending the last     *)
(* flight, which needs the handshake context again).                       *)
UnexpectedHandshake(r) ==
  \/ /\ r.msg = "hello" /\ handshakes < MaxHandshakes
     /\ phase' = "hello" /\ handshakes' = handshakes + 1 /\ hsCtx' = TRUE
     /\ hsRecList' = Append(hsRecList, r)
  \/ /\ r.msg # "hello" \/ handshakes = MaxHandshakes
     /\ hsCtx' = (r.msg = "finished")
     /\ UNCHANGED <<phase, handshakes, hsRecList>>

(* DtlsRecordRead(REC_TYPE_APP) has decrypted r in ReadEventInTransportingState. *)
AppRecord(r, peek) ==
  /\ RecordAccepted(r)
  /\ \/ /\ r.type = "APP"
        /\ IF peek THEN appRecList' = Append(appRecList, r) /\ UNCHANGED consumed
                   ELSE consumed' = Append(consumed, r) /\ UNCHANGED appRecList
        /\ hsCtx' = FALSE
        /\ readWindow' = Updated(r)
        /\ UNCHANGED <<readEpoch, readPending, ccs, phase, handshakes, alertCause, hsRecList>>
     \/ /\ r.type = "HANDSHAKE"
        /\ UnexpectedHandshake(r)
        /\ readWindow' = Updated(r)
        /\ UNCHANGED <<readEpoch, readPending, ccs, alertCause, appRecList, consumed>>
     \/ /\ r.type = "CHANGE_CIPHER_SPEC"
        /\ ProcessPlainCCS(r)
        /\ UNCHANGED <<hsCtx, handshakes, listVars, consumed>>
     \/ /\ r.type = "ALERT"
        /\ ReceivedAlert(r)
        /\ UNCHANGED <<hsCtx, handshakes, listVars, consumed>>

(* The record is dropped: HITLS_REC_NORMAL_RECV_BUF_EMPTY. *)
Drop == UNCHANGED <<readStateVars, ccs, connVars, listVars, historyVars>>

-----------------------------------------------------------------------------
(* The calls of the handshake layer: REC_Read(ctx, REC_TYPE_HANDSHAKE, ..). *)

HsReadList ==
  /\ HandshakePhase /\ hsRecList # <<>>
  /\ HandshakeMessage(Head(hsRecList), readWindow)
  /\ hsRecList' = Tail(hsRecList)
  /\ UNCHANGED <<hsCtx, handshakes, alertCause, cacheVars, appRecList, historyVars>>

HsReadCached ==
  /\ HandshakePhase /\ hsRecList = <<>> /\ ExistUnprocessedHsMsg
  /\ unprocessedHsMsg' = NULL
  /\ UNCHANGED unprocessedAppMsgList
  /\ IF Passes(unprocessedHsMsg) THEN HsRecord(unprocessedHsMsg) ELSE Drop

HsReadNetwork(r) ==
  /\ HandshakePhase /\ hsRecList = <<>> /\ ~ExistUnprocessedHsMsg
  /\ \/ /\ MustBuffer(r)
        /\ BufferUnprocessedMsg(r, FreshHsCache)
        /\ Drop
     \/ /\ ~MustBuffer(r)
        /\ unprocessedHsMsg' = FreshHsCache
        /\ UNCHANGED unprocessedAppMsgList
        /\ IF r.epoch = readEpoch /\ Passes(r) THEN HsRecord(r) ELSE Drop

(* The calls of the user: HITLS_Read, or HITLS_Peek when peek is TRUE.     *)

(* Faulty: peeking takes the record off the list. *)
FaultyAppReadList(peek) ==
  /\ phase = "connected" /\ appRecList # <<>>
  /\ IF peek THEN UNCHANGED consumed
             ELSE consumed' = Append(consumed, Head(appRecList))
  /\ appRecList' = Tail(appRecList)
  /\ hsCtx' = FALSE
  /\ UNCHANGED <<readStateVars, ccs, phase, handshakes, alertCause, cacheVars,
                 hsRecList, accepted, replayed>>

AppReadList(peek) ==
  /\ phase = "connected" /\ appRecList # <<>>
  /\ IF peek THEN UNCHANGED <<appRecList, consumed>>
             ELSE /\ consumed' = Append(consumed, Head(appRecList))
                  /\ appRecList' = Tail(appRecList)
  /\ hsCtx' = FALSE
  /\ UNCHANGED <<readStateVars, ccs, phase, handshakes, alertCause, cacheVars,
                 hsRecList, accepted, replayed>>

AppReadCached(peek) ==
  /\ phase = "connected" /\ appRecList = <<>>
  /\ \E i \in DOMAIN unprocessedAppMsgList :
       /\ FirstOfEpoch(i)
       /\ unprocessedAppMsgList' = RemoveAt(unprocessedAppMsgList, i)
       /\ UNCHANGED unprocessedHsMsg
       /\ IF Passes(unprocessedAppMsgList[i])
          THEN AppRecord(unprocessedAppMsgList[i], peek) ELSE Drop

AppReadNetwork(r, peek) ==
  /\ phase = "connected" /\ appRecList = <<>> /\ ~ExistUnprocessedAppMsg
  /\ \/ /\ MustBuffer(r)
        /\ BufferUnprocessedMsg(r, unprocessedHsMsg)
        /\ Drop
     \/ /\ ~MustBuffer(r)
        /\ UNCHANGED cacheVars
        /\ IF r.epoch = readEpoch /\ Passes(r) THEN AppRecord(r, peek) ELSE Drop

(* ClientHello sent with a session to resume: the server's CCS may come    *)
(* before its ServerHello.                                                 *)
OfferSession ==
  /\ phase = "hello" /\ "isReady" \notin ccs
  /\ ccs' = ccs \cup {"isReady"}
  /\ UNCHANGED <<readStateVars, connVars, cacheVars, listVars, historyVars>>

(* HITLS_Renegotiate *)
Renegotiate ==
  /\ phase = "connected" /\ handshakes < MaxHandshakes
  /\ phase' = "hello" /\ handshakes' = handshakes + 1 /\ hsCtx' = TRUE
  /\ UNCHANGED <<readStateVars, ccs, alertCause, cacheVars, listVars, historyVars>>

(* HS_CheckAndProcess2MslTimeout, when the timer has expired. *)
Release2Msl ==
  /\ phase = "connected" /\ hsCtx
  /\ hsCtx' = FALSE
  /\ UNCHANGED <<readStateVars, ccs, phase, handshakes, alertCause, cacheVars,
                 listVars, historyVars>>

Next ==
  \/ HsReadList
  \/ HsReadCached
  \/ \E r \in Records : HsReadNetwork(r)
  \/ \E peek \in BOOLEAN : AppReadList(peek) \/ AppReadCached(peek)
  \/ \E r \in Records, peek \in BOOLEAN : AppReadNetwork(r, peek)
  \/ OfferSession
  \/ Renegotiate
  \/ Release2Msl

Spec == Init /\ [][Next]_vars

(* The handshake layer is driven until it completes: HITLS_Connect and     *)
(* HITLS_Accept are called again as long as they want to read.             *)
FairSpec == Spec /\ WF_vars(HsReadList) /\ WF_vars(HsReadCached)

-----------------------------------------------------------------------------
(* No record is decrypted and handed up twice, whichever way its copies    *)
(* come: directly, through a cache, before or after an epoch change        *)
(* (AntiReplay, rec_read.c:589-609).                                       *)
AtMostOnce == replayed = {}

(* The window refuses exactly what it should: a record of the current      *)
(* epoch is refused only if it was decrypted before or is                  *)
(* REC_SLID_WINDOW_SIZE or more behind one that was; forged records, which *)
(* fail to decrypt, never move the window (rec_read.c:716-725).            *)
WindowExact ==
  \A r \in Records :
    r.epoch = readEpoch /\ RecAntiReplayCheck(readWindow, r.seq) =>
      \/ Id(r) \in accepted
      \/ \E id \in accepted : id[1] = readEpoch
                            /\ id[2] >= r.seq + REC_SLID_WINDOW_SIZE

(* Whenever the peer's ChangeCipherSpec and the local permission to switch *)
(* meet, in either order and across renegotiations, there are keys to      *)
(* switch to: REC_ActivePendingState never fails (record.c:481-486).       *)
ActivationHasKeys == alertCause # "no_pending"

(* A connection carries application data only under the keys of its last   *)
(* completed handshake: each handshake switched the read epoch exactly once.*)
OneEpochPerHandshake ==
  /\ phase = "connected" => readEpoch = handshakes /\ ~readPending
  /\ phase \in {"hello", "flight"} => readEpoch = handshakes - 1

(* Application data that overtakes the Finished is never mistaken for data *)
(* in the middle of a first handshake, which is fatal                      *)
(* (conn_common.c:232-236): only a renegotiation can raise that alert.     *)
FirstHandshakeToleratesApp == alertCause = "app_data" => handshakes > 1

(* Every APP record decrypted is given to the user once, or still waits in *)
(* appRecList: peeking and renegotiating lose none and repeat none.        *)
AppConserved ==
  LET held == consumed \o appRecList IN
  /\ \A i, j \in DOMAIN held : Id(held[i]) = Id(held[j]) => i = j
  /\ \A r \in Records :
       r.type = "APP" /\ r.intact /\ Id(r) \in accepted =>
         \E i \in DOMAIN held : Id(held[i]) = Id(r)

(* A cached handshake record is kept until its epoch becomes current: the  *)
(* early Finished is not displaced by later ones (rec_unprocessed_msg.c:30-45). *)
HsCacheKept ==
  [][unprocessedHsMsg # NULL /\ unprocessedHsMsg.epoch > readEpoch
       => unprocessedHsMsg' = unprocessedHsMsg]_vars

(* A Finished that came before its ChangeCipherSpec completes the          *)
(* handshake without being sent again.                                     *)
EarlyFinishedCompletes ==
  (/\ phase = "finish" /\ readEpoch = handshakes
   /\ unprocessedHsMsg # NULL
   /\ unprocessedHsMsg.msg = "finished" /\ unprocessedHsMsg.epoch = handshakes
   /\ unprocessedHsMsg.intact
   /\ Id(unprocessedHsMsg) \notin accepted)
  ~> phase # "finish"
=============================================================================
