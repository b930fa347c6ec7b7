--------------------------- MODULE DtlsRecordWrite ---------------------------
(***************************************************************************)
(* The writing half of one DTLS 1.2 endpoint over UDP: the write states    *)
(* and the retransmission list of the record layer (tls/record), and the   *)
(* handshake and connection calls that drive them (tls/handshake, tls/ccs, *)
(* tls/cm).  What the peer sends is a choice: the endpoint may be told at  *)
(* any time what its handshake state waits for.  A send that the network   *)
(* layer refuses leaves the endpoint as it was, to be repeated: a          *)
(* stuttering step here, except inside a retransmission, which goes on.    *)
(***************************************************************************)
EXTENDS Naturals, SequencesExt

CONSTANTS
  REC_DTLS_SN_MAX_VALUE,   \* last sequence number of an epoch; 2^48 - 1 in the code
  ResumptionOnRenego,      \* config.tlsConfig.isResumptionOnRenego; false by default
  MaxHandshakes,           \* bound: handshakes on one connection
  NULL

ASSUME RecordWriteAssumption ==
  /\ REC_DTLS_SN_MAX_VALUE \in Nat
  /\ ResumptionOnRenego \in BOOLEAN
  /\ MaxHandshakes \in Nat \ {0}
  /\ NULL \notin [keys : Nat, epoch : Nat, seq : Nat]

VARIABLES
  isClient,                    \* ctx->isClient; never changes
  current, outdated, pending,  \* recCtx->writeStates
  writeEpoch,                  \* recCtx->writeEpoch
  retransmitList,              \* recCtx->retransmitList
  isExistCcsMsg,               \* retransmitList.isExistCcsMsg
  flush,                       \* REC_RetransmitListFlush: the node it writes next, or 0
  hsState,                     \* ctx->hsCtx->state
  hsCtx,                       \* ctx->hsCtx # NULL
  timer,                       \* what ctx->hsCtx->deadline was set for
  isResume,                    \* negotiatedInfo.isResume
  handshakes,                  \* handshakes started
  failed,                      \* REC_ActivePendingState found no pending state
  sent,                        \* history: the records written to the network
  reused                       \* history: record numbers written more than once

stateVars   == <<current, outdated, pending, writeEpoch>>
listVars    == <<retransmitList, isExistCcsMsg>>
hsVars      == <<hsState, hsCtx, timer, isResume, handshakes>>
historyVars == <<sent, reused>>
vars == <<isClient, stateVars, listVars, flush, hsVars, failed, historyVars>>

HandshakeTypes == {"CLIENT_HELLO", "CLIENT_KEY_EXCHANGE", "HELLO_REQUEST",
                   "HELLO_VERIFY_REQUEST", "SERVER_HELLO", "SERVER_HELLO_DONE",
                   "FINISHED"}

(* A message and the handshake it belongs to; "CERTIFICATE" and the other  *)
(* messages of a flight join the list like those named here.               *)
Message == [type : HandshakeTypes \cup {"CCS", "APP"}, hs : Nat]

ConnState == [keys : Nat, epoch : Nat, seq : Nat]

HsStates == {"TRY_SEND_CLIENT_HELLO", "TRY_RECV_SERVER_HELLO",
             "TRY_SEND_CLIENT_KEY_EXCHANGE", "TRY_SEND_CHANGE_CIPHER_SPEC",
             "TRY_SEND_FINISH", "TRY_RECV_FINISH", "TLS_CONNECTED",
             "TRY_SEND_HELLO_REQUEST", "TRY_RECV_CLIENT_HELLO",
             "TRY_SEND_HELLO_VERIFY_REQUEST", "TRY_SEND_SERVER_HELLO",
             "TRY_SEND_SERVER_HELLO_DONE", "TRY_RECV_CLIENT_KEY_EXCHANGE"}

(* RecConnStateNew: zeroed, then given the keys of a handshake. *)
NewState(k) == [keys |-> k, epoch |-> 0, seq |-> 0]

TypeOK ==
  /\ isClient \in BOOLEAN
  /\ current \in ConnState \cup {NULL}
  /\ outdated \in ConnState \cup {NULL}
  /\ pending \in ConnState \cup {NULL}
  /\ writeEpoch \in Nat
  /\ retransmitList \in Seq(Message)
  /\ isExistCcsMsg \in BOOLEAN
  /\ flush \in 0 .. Len(retransmitList) + 1
  /\ hsState \in HsStates
  /\ hsCtx \in BOOLEAN
  /\ timer \in {"none", "handshake", "2msl"}
  /\ isResume \in BOOLEAN
  /\ handshakes \in 1 .. MaxHandshakes
  /\ failed \in BOOLEAN
  /\ sent \subseteq [msg : Message, keys : Nat, epoch : Nat, num : Nat \X Nat]
  /\ reused \subseteq Nat \X Nat

Init ==
  /\ isClient \in BOOLEAN
  /\ current = NewState(0) /\ outdated = NULL /\ pending = NULL /\ writeEpoch = 0
  /\ retransmitList = <<>> /\ isExistCcsMsg = FALSE /\ flush = 0
  /\ hsState = IF isClient THEN "TRY_SEND_CLIENT_HELLO" ELSE "TRY_RECV_CLIENT_HELLO"
  /\ hsCtx = TRUE /\ timer = "none" /\ isResume = FALSE /\ handshakes = 1
  /\ failed = FALSE /\ sent = {} /\ reused = {}

-----------------------------------------------------------------------------
(* Writing a record.                                                       *)

(* The definitions named Faulty... are not used: see RecAntiReplay. *)

(* Faulty: the number of the record before. *)
FaultyEpochSeq(epoch, seq) == <<epoch, seq - 1>>

(* REC_EPOCHSEQ_CAL: the 16 bits of the epoch above the 48 of the sequence *)
(* number, which may carry into them.                                      *)
EpochSeq(epoch, seq) ==
  IF seq <= REC_DTLS_SN_MAX_VALUE
  THEN <<epoch, seq>>
  ELSE <<epoch + 1, seq - (REC_DTLS_SN_MAX_VALUE + 1)>>

CanWrite == current # NULL /\ current.seq <= REC_DTLS_SN_MAX_VALUE

(* The current state after DtlsRecordWrite succeeded. *)
Written == [keys |-> current.keys, epoch |-> current.epoch, seq |-> current.seq + 1]

(* The record of message m goes to the network under the current state. *)
Transmit(m) ==
  LET num == EpochSeq(current.epoch, current.seq) IN
  /\ sent' = sent \cup {[msg |-> m, keys |-> current.keys,
                         epoch |-> current.epoch, num |-> num]}
  /\ reused' = IF \E s \in sent : s.num = num THEN reused \cup {num} ELSE reused

Msg(type) == [type |-> type, hs |-> handshakes]

(* Faulty: the ChangeCipherSpec is not noticed. *)
FaultyListAppend(m) ==
  /\ retransmitList' = Append(retransmitList, m)
  /\ UNCHANGED isExistCcsMsg

(* Faulty: the mark of the ChangeCipherSpec stays. *)
FaultyListClean == retransmitList' = <<>> /\ UNCHANGED isExistCcsMsg

(* REC_RetransmitListAppend and REC_RetransmitListClean. *)
ListAppend(m) ==
  /\ retransmitList' = Append(retransmitList, m)
  /\ isExistCcsMsg' = (isExistCcsMsg \/ m.type = "CCS")

ListClean == retransmitList' = <<>> /\ isExistCcsMsg' = FALSE

(* DtlsSendHandShakeMsg: one message, written and remembered. *)
SendHandshakeMsg(m) ==
  /\ flush = 0
  /\ CanWrite
  /\ Transmit(m)
  /\ current' = Written
  /\ ListAppend(m)

(* REC_InitPendingState, the write side. *)
InitPendingState == pending' = NewState(handshakes)

(* Faulty: the epoch is stored before it is counted up. *)
FaultyActivePending(now) ==
  /\ outdated' = now
  /\ current' = [keys |-> pending.keys, epoch |-> writeEpoch, seq |-> 0]
  /\ pending' = NULL
  /\ writeEpoch' = writeEpoch + 1

(* REC_ActivePendingState(ctx, true), with the current state now. *)
ActivePendingState(now) ==
  /\ outdated' = now
  /\ current' = [keys |-> pending.keys, epoch |-> writeEpoch + 1, seq |-> 0]
  /\ pending' = NULL
  /\ writeEpoch' = writeEpoch + 1

-----------------------------------------------------------------------------
(* The client's handshake states.                                          *)

SendClientHello ==
  /\ hsState = "TRY_SEND_CLIENT_HELLO"
  /\ SendHandshakeMsg(Msg("CLIENT_HELLO"))
  /\ hsState' = "TRY_RECV_SERVER_HELLO" /\ timer' = "handshake"
  /\ UNCHANGED <<isClient, outdated, pending, writeEpoch, flush, hsCtx, isResume,
                 handshakes, failed>>

RecvHelloVerifyRequest ==
  /\ flush = 0 /\ hsState = "TRY_RECV_SERVER_HELLO"
  /\ ListClean
  /\ hsState' = "TRY_SEND_CLIENT_HELLO"
  /\ UNCHANGED <<isClient, stateVars, flush, hsCtx, timer, isResume, handshakes,
                 failed, historyVars>>

MayResume == handshakes = 1 \/ ResumptionOnRenego

RecvServerHelloResume ==
  /\ flush = 0 /\ hsState = "TRY_RECV_SERVER_HELLO" /\ MayResume
  /\ isResume' = TRUE
  /\ InitPendingState
  /\ hsState' = "TRY_RECV_FINISH"
  /\ UNCHANGED <<isClient, current, outdated, writeEpoch, listVars, flush, hsCtx,
                 timer, handshakes, failed, historyVars>>

(* ServerHello to ServerHelloDone of a full handshake. *)
RecvServerHelloDone ==
  /\ flush = 0 /\ hsState = "TRY_RECV_SERVER_HELLO"
  /\ isResume' = FALSE
  /\ ListClean
  /\ hsState' = "TRY_SEND_CLIENT_KEY_EXCHANGE"
  /\ UNCHANGED <<isClient, stateVars, flush, hsCtx, timer, handshakes, failed,
                 historyVars>>

SendClientKeyExchange ==
  /\ hsState = "TRY_SEND_CLIENT_KEY_EXCHANGE"
  /\ SendHandshakeMsg(Msg("CLIENT_KEY_EXCHANGE"))
  /\ InitPendingState
  /\ hsState' = "TRY_SEND_CHANGE_CIPHER_SPEC"
  /\ UNCHANGED <<isClient, outdated, writeEpoch, flush, hsCtx, timer, isResume,
                 handshakes, failed>>

-----------------------------------------------------------------------------
(* The server's handshake states.                                          *)

SendHelloRequest ==
  /\ hsState = "TRY_SEND_HELLO_REQUEST"
  /\ SendHandshakeMsg([type |-> "HELLO_REQUEST", hs |-> handshakes + 1])
  /\ hsState' = "TLS_CONNECTED"
  /\ UNCHANGED <<isClient, outdated, pending, writeEpoch, flush, hsCtx, timer,
                 isResume, handshakes, failed>>

(* The cookie of a ClientHello may be missing in every handshake. *)
RecvClientHello ==
  /\ flush = 0 /\ hsState = "TRY_RECV_CLIENT_HELLO"
  /\ \/ /\ hsState' = "TRY_SEND_HELLO_VERIFY_REQUEST"
        /\ UNCHANGED isResume
     \/ /\ hsState' = "TRY_SEND_SERVER_HELLO"
        /\ \/ isResume' = FALSE
           \/ isResume' = TRUE /\ MayResume
  /\ UNCHANGED <<isClient, stateVars, listVars, flush, hsCtx, timer, handshakes,
                 failed, historyVars>>

(* Not to be retransmitted: the list is cleaned right after the append. *)
SendHelloVerifyRequest ==
  /\ flush = 0 /\ hsState = "TRY_SEND_HELLO_VERIFY_REQUEST"
  /\ CanWrite
  /\ Transmit(Msg("HELLO_VERIFY_REQUEST"))
  /\ current' = Written
  /\ ListClean
  /\ hsState' = "TRY_RECV_CLIENT_HELLO"
  /\ UNCHANGED <<isClient, outdated, pending, writeEpoch, flush, hsCtx, timer,
                 isResume, handshakes, failed>>

SendServerHello ==
  /\ hsState = "TRY_SEND_SERVER_HELLO"
  /\ SendHandshakeMsg(Msg("SERVER_HELLO"))
  /\ IF isResume
     THEN InitPendingState /\ hsState' = "TRY_SEND_CHANGE_CIPHER_SPEC"
     ELSE hsState' = "TRY_SEND_SERVER_HELLO_DONE" /\ UNCHANGED pending
  /\ UNCHANGED <<isClient, outdated, writeEpoch, flush, hsCtx, timer, isResume,
                 handshakes, failed>>

SendServerHelloDone ==
  /\ hsState = "TRY_SEND_SERVER_HELLO_DONE"
  /\ SendHandshakeMsg(Msg("SERVER_HELLO_DONE"))
  /\ hsState' = "TRY_RECV_CLIENT_KEY_EXCHANGE" /\ timer' = "handshake"
  /\ UNCHANGED <<isClient, outdated, pending, writeEpoch, flush, hsCtx, isResume,
                 handshakes, failed>>

(* Faulty: the flight is forgotten as soon as the client answers. *)
FaultyRecvClientKeyExchange ==
  /\ flush = 0 /\ hsState = "TRY_RECV_CLIENT_KEY_EXCHANGE"
  /\ InitPendingState
  /\ ListClean
  /\ hsState' = "TRY_RECV_FINISH"
  /\ UNCHANGED <<isClient, current, outdated, writeEpoch, flush, hsCtx, timer,
                 isResume, handshakes, failed, historyVars>>

RecvClientKeyExchange ==
  /\ flush = 0 /\ hsState = "TRY_RECV_CLIENT_KEY_EXCHANGE"
  /\ InitPendingState
  /\ hsState' = "TRY_RECV_FINISH"
  /\ UNCHANGED <<isClient, current, outdated, writeEpoch, listVars, flush, hsCtx,
                 timer, isResume, handshakes, failed, historyVars>>

-----------------------------------------------------------------------------
(* The states both have.                                                   *)

(* This end sends the last flight of the handshake. *)
LastFlight == isClient = isResume

(* SendChangeCipherSpecProcess: without keys to switch to, it fails after  *)
(* the message is out and remembered.                                      *)
SendChangeCipherSpec ==
  /\ flush = 0 /\ hsState = "TRY_SEND_CHANGE_CIPHER_SPEC"
  /\ CanWrite
  /\ Transmit(Msg("CCS"))
  /\ ListAppend(Msg("CCS"))
  /\ IF pending # NULL
     THEN /\ ActivePendingState(Written)
          /\ hsState' = "TRY_SEND_FINISH"
          /\ UNCHANGED failed
     ELSE /\ current' = Written
          /\ failed' = TRUE
          /\ UNCHANGED <<outdated, pending, writeEpoch, hsState>>
  /\ UNCHANGED <<isClient, flush, hsCtx, timer, isResume, handshakes>>

SendFinished ==
  /\ hsState = "TRY_SEND_FINISH"
  /\ SendHandshakeMsg(Msg("FINISHED"))
  /\ IF LastFlight
     THEN hsState' = "TLS_CONNECTED" /\ timer' = "2msl"
     ELSE hsState' = "TRY_RECV_FINISH" /\ timer' = "handshake"
  /\ UNCHANGED <<isClient, outdated, pending, writeEpoch, flush, hsCtx, isResume,
                 handshakes, failed>>

RecvFinished ==
  /\ flush = 0 /\ hsState = "TRY_RECV_FINISH"
  /\ ListClean
  /\ hsState' = IF LastFlight THEN "TRY_SEND_CHANGE_CIPHER_SPEC" ELSE "TLS_CONNECTED"
  /\ UNCHANGED <<isClient, stateVars, flush, hsCtx, timer, isResume, handshakes,
                 failed, historyVars>>

-----------------------------------------------------------------------------
(* REC_RetransmitListFlush, one node a step; nothing else runs meanwhile.  *)

(* REC_ActiveOutdatedWriteState *)
ActiveOutdatedWriteState ==
  pending' = current /\ current' = outdated /\ outdated' = NULL

(* REC_DeActiveOutdatedWriteState, with the current state now. *)
DeActiveOutdatedWriteState(now) ==
  outdated' = now /\ current' = pending /\ pending' = NULL

FlushStart ==
  /\ flush = 0
  /\ flush' = 1
  /\ IF isExistCcsMsg THEN ActiveOutdatedWriteState
                      ELSE UNCHANGED <<current, outdated, pending>>
  /\ UNCHANGED <<isClient, writeEpoch, listVars, isResume, handshakes, failed,
                 historyVars>>

(* DtlsCheckTimeoutAndProcess, when a handshake message is waited for. *)
Timeout ==
  /\ hsState \in {"TRY_RECV_CLIENT_HELLO", "TRY_RECV_SERVER_HELLO",
                  "TRY_RECV_CLIENT_KEY_EXCHANGE", "TRY_RECV_FINISH"}
  /\ timer # "none"
  /\ FlushStart
  /\ UNCHANGED <<hsState, hsCtx, timer>>

(* A node is written, or the network refuses it and the loop goes on. *)
FlushNode ==
  /\ flush \in 1 .. Len(retransmitList)
  /\ current # NULL
  /\ \E written \in BOOLEAN :
       LET now == IF written THEN Written ELSE current IN
       /\ IF written THEN CanWrite /\ Transmit(retransmitList[flush])
                     ELSE UNCHANGED historyVars
       /\ IF retransmitList[flush].type = "CCS"
          THEN DeActiveOutdatedWriteState(now)
          ELSE current' = now /\ UNCHANGED <<outdated, pending>>
  /\ flush' = flush + 1
  /\ UNCHANGED <<isClient, writeEpoch, listVars, hsVars, failed>>

FlushEnd ==
  /\ flush = Len(retransmitList) + 1
  /\ flush' = 0
  /\ UNCHANGED <<isClient, stateVars, listVars, hsVars, failed, historyVars>>

-----------------------------------------------------------------------------
(* The connected endpoint: HITLS_Write, HITLS_Read, HITLS_Renegotiate.     *)

Connected == flush = 0 /\ hsState = "TLS_CONNECTED"

WriteApp ==
  /\ Connected /\ CanWrite
  /\ Transmit(Msg("APP"))
  /\ current' = Written
  /\ UNCHANGED <<isClient, outdated, pending, writeEpoch, listVars, flush, hsVars,
                 failed>>

(* Application data arrives: ReadEventInTransportingState frees hsCtx. *)
ReadApp ==
  /\ Connected /\ hsCtx
  /\ hsCtx' = FALSE /\ timer' = "none"
  /\ UNCHANGED <<isClient, stateVars, listVars, flush, hsState, isResume, handshakes,
                 failed, historyVars>>

(* HS_CheckAndProcess2MslTimeout; a deadline that is not set never passes. *)
Release2Msl ==
  /\ Connected /\ hsCtx /\ timer # "none"
  /\ ListClean
  /\ hsCtx' = FALSE /\ timer' = "none"
  /\ UNCHANGED <<isClient, stateVars, flush, hsState, isResume, handshakes, failed,
                 historyVars>>

(* The peer's Finished again: PreprocessUnexpectHsMsg makes a new hsCtx,   *)
(* then RecvPostFinishPreprocess resends the last flight or drops it all.  *)
PostHandshakeFinished ==
  /\ Connected
  /\ IF LastFlight
     THEN FlushStart /\ hsCtx' = TRUE
     ELSE /\ hsCtx' = FALSE
          /\ UNCHANGED <<isClient, stateVars, listVars, flush, isResume, handshakes,
                         failed, historyVars>>
  /\ timer' = "none"
  /\ UNCHANGED hsState

(* HITLS_Renegotiate; the server only asks, the client starts at once. *)
Renegotiate ==
  /\ Connected /\ handshakes < MaxHandshakes
  /\ IF hsCtx THEN ListClean ELSE UNCHANGED listVars
  /\ hsCtx' = TRUE /\ timer' = "none"
  /\ IF isClient
     THEN hsState' = "TRY_SEND_CLIENT_HELLO" /\ handshakes' = handshakes + 1
     ELSE hsState' = "TRY_SEND_HELLO_REQUEST" /\ UNCHANGED handshakes
  /\ UNCHANGED <<isClient, stateVars, flush, isResume, failed, historyVars>>

(* Faulty: the list is cleaned only together with the handshake context. *)
FaultyPeerRenegotiates ==
  /\ Connected /\ handshakes < MaxHandshakes
  /\ IF hsCtx THEN ListClean ELSE UNCHANGED listVars
  /\ hsCtx' = TRUE /\ timer' = "none"
  /\ handshakes' = handshakes + 1
  /\ hsState' = IF isClient THEN "TRY_SEND_CLIENT_HELLO" ELSE "TRY_RECV_CLIENT_HELLO"
  /\ UNCHANGED <<isClient, stateVars, flush, isResume, failed, historyVars>>

(* HelloRequest or ClientHello of the peer: RecvRenegoReqPreprocess. *)
PeerRenegotiates ==
  /\ Connected /\ handshakes < MaxHandshakes
  /\ ListClean
  /\ hsCtx' = TRUE /\ timer' = "none"
  /\ handshakes' = handshakes + 1
  /\ hsState' = IF isClient THEN "TRY_SEND_CLIENT_HELLO" ELSE "TRY_RECV_CLIENT_HELLO"
  /\ UNCHANGED <<isClient, stateVars, flush, isResume, failed, historyVars>>

Next ==
  \/ SendClientHello \/ RecvHelloVerifyRequest
  \/ RecvServerHelloResume \/ RecvServerHelloDone \/ SendClientKeyExchange
  \/ SendHelloRequest \/ RecvClientHello \/ SendHelloVerifyRequest
  \/ SendServerHello \/ SendServerHelloDone \/ RecvClientKeyExchange
  \/ SendChangeCipherSpec \/ SendFinished \/ RecvFinished
  \/ Timeout \/ FlushNode \/ FlushEnd
  \/ WriteApp \/ ReadApp \/ Release2Msl \/ PostHandshakeFinished
  \/ Renegotiate \/ PeerRenegotiates

Spec == Init /\ [][Next]_vars

(* A call that retransmits runs to its end, and a user who keeps calling   *)
(* HITLS_Read or HITLS_Write lets a deadline that passed be noticed.       *)
FairSpec == Spec /\ WF_vars(FlushNode) /\ WF_vars(FlushEnd) /\ WF_vars(Release2Msl)

-----------------------------------------------------------------------------
(* No two records leave with the same epoch and sequence number, whatever  *)
(* the retransmissions and the exchanges of write states in between: the   *)
(* number is the nonce of the record's encryption and what the peer's      *)
(* replay window goes by (rec_write.c:216, record.c:343-361).              *)
NumberOnce == reused = {}

(* A message always travels in the epoch the peer expects it in, also when *)
(* it is sent again after the switch: the Finished of handshake n and the  *)
(* data after it in epoch n, every other message of handshake n in epoch   *)
(* n - 1, and each epoch has the keys of its handshake                     *)
(* (rec_retransmit.c:77-89).                                               *)
EpochOfMessage ==
  \A s \in sent :
    /\ s.epoch = IF s.msg.type \in {"FINISHED", "APP"} THEN s.msg.hs ELSE s.msg.hs - 1
    /\ s.keys = s.epoch

(* DtlsRecordWrite and REC_RetransmitListFlush use the current write state *)
(* without a check: it is never missing, and outside a retransmission it   *)
(* is the one of the newest epoch.                                         *)
CurrentStateInPlace ==
  /\ current # NULL
  /\ flush = 0 => current.epoch = writeEpoch

(* The keys of a handshake are still there when its ChangeCipherSpec is    *)
(* sent: a retransmission in between does not lose them (record.c:481-486).*)
WriteActivationHasKeys == ~failed

(* The messages that must be repeated if the peer keeps silent. *)
FlightToRepeat ==
  CASE hsState = "TRY_RECV_SERVER_HELLO" -> <<"CLIENT_HELLO">>
    [] hsState = "TRY_RECV_CLIENT_KEY_EXCHANGE" -> <<"SERVER_HELLO", "SERVER_HELLO_DONE">>
    [] hsState = "TRY_RECV_FINISH" ->
         IF isClient
         THEN IF isResume THEN <<"CLIENT_HELLO">>
                          ELSE <<"CLIENT_KEY_EXCHANGE", "CCS", "FINISHED">>
         ELSE IF isResume THEN <<"SERVER_HELLO", "CCS", "FINISHED">>
                          ELSE <<"SERVER_HELLO", "SERVER_HELLO_DONE">>
    [] hsState = "TLS_CONNECTED" /\ timer = "2msl" -> <<"CCS", "FINISHED">>
    [] OTHER -> <<>>

(* Whenever the peer may be waiting for this end's last flight, that whole *)
(* flight is on the retransmission list, in order, and a timer runs that   *)
(* will repeat it (hs_state_recv.c:346-348, recv_finished.c:296, 418).     *)
LostFlightIsRepeated ==
  LET flight == [i \in DOMAIN FlightToRepeat |->
                   [type |-> FlightToRepeat[i], hs |-> handshakes]] IN
  flight # <<>> => IsSuffix(flight, retransmitList) /\ timer # "none"

(* "If the retransmission queue times out, the retransmission queue is     *)
(* cleared and the hsCtx memory is released" (hs_sm.c:229).                *)
QueueIsReleased == Connected /\ hsCtx ~> ~Connected \/ ~hsCtx
=============================================================================
