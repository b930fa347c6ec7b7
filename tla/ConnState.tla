----------------------------- MODULE ConnState -----------------------------
(***************************************************************************)
(* One connection as its application drives it (tls/cm, tls/alert,          *)
(* tls/app): HITLS_Connect and HITLS_Accept, HITLS_Read, HITLS_Write,        *)
(* HITLS_Close, HITLS_Renegotiate, HITLS_KeyUpdate.  The connection keeps    *)
(* one state and the state before it, at most one alert that is to be sent   *)
(* or was received, and the shutdown flags.  Every call is non-blocking:     *)
(* the socket may refuse a record at any write and the peer may have sent    *)
(* nothing, and the call returns to the application, which may go on with    *)
(* any other call.                                                           *)
(*                                                                          *)
(* A call is a sequence of steps: "entry" is its dispatch on the state,      *)
(* "run" one turn of the loop it is in, "alert" the alert that the turn      *)
(* left behind.  What the socket and the peer do is chosen in the step that  *)
(* meets it.                                                                 *)
(***************************************************************************)
EXTENDS TlsRecordOut, FiniteSets

CONSTANTS
  Configs,           \* the configurations a connection may have, see ConfigFields
  MAX_ALERT_COUNT,   \* 5 in conn_common.h
  MaxWrites,         \* bound: how many buffers the application has
  MaxWire            \* bound: no more writes with this many records on the wire

(* config as TLS_Config and the method set it: renegotiable stands for       *)
(* isSecureRenegotiation and isSupportRenegotiation.  patient is the          *)
(* application's: it repeats a call the socket refused before any other.      *)
ConfigFields ==
  [isClient : BOOLEAN, tls13 : BOOLEAN, datagram : BOOLEAN, flightTransmit : BOOLEAN,
   quietShutdown : BOOLEAN, renegotiable : BOOLEAN, allowClientRenegotiate : BOOLEAN,
   patient : BOOLEAN]

ASSUME ConnAssumption ==
  /\ Configs \subseteq ConfigFields
  /\ \A c \in Configs : ~(c.tls13 /\ c.datagram)
  /\ MAX_ALERT_COUNT \in Nat \ {0}
  /\ MaxWrites \in Nat /\ MaxWire \in Nat

VARIABLES
  conn,             \* state and preState
  shutdown,         \* shutdownState: HITLS_SENT_SHUTDOWN, HITLS_RECEIVED_SHUTDOWN
  userShutDown, userRenego, isRenegotiation,
  alertCtx,         \* struct AlertCtx
  hsState,          \* where the handshake stands, see HsStates; NONE when hsCtx = NULL
  pendingData,      \* recCtx->pendingData: the number of a buffer, 0 for NULL
  path,             \* the way to the network, see TlsRecordOut
  call, at, loop,   \* the call in progress, its step and the loop it is in
  ret,              \* what the last call returned
  writing,          \* the last buffer the application gave to HITLS_Write
  accepted          \* history: the buffers HITLS_Write returned success for

flags == <<userShutDown, userRenego, isRenegotiation>>
appVars == <<pendingData, writing, accepted>>
progress == <<conn, shutdown, flags, hsState, appVars, alertCtx, path, call, at, loop, ret>>
vars == <<progress, config>>

hsCtx == hsState # "NONE"

States == {"IDLE", "HANDSHAKING", "TRANSPORTING", "RENEGOTIATION", "ALERTING", "ALERTED", "CLOSED"}
OpenStates == {"IDLE", "HANDSHAKING", "TRANSPORTING", "RENEGOTIATION"}

(* The handshake is a sequence of messages to send and to receive; the       *)
(* state that refuses or allows application data is the one that waits for   *)
(* the peer's hello.                                                         *)
HsSendStates == {"SEND_HELLO_REQUEST", "SEND_HELLO", "SEND_HELLO_VERIFY", "SEND"}
HsRecvStates == {"RECV_HELLO_REQUEST", "RECV_HELLO", "RECV"}
HsStates == HsSendStates \cup HsRecvStates \cup {"CONNECTED", "NONE"}

Calls == {"Connect", "Read", "Write", "Close"}
HandshakeLoops == {"handshaking", "renegotiation", "inner"}
Loops == HandshakeLoops \cup {"none", "transporting", "closed"}

NoAlert == [flag |-> "NO", level |-> "NONE", description |-> "NONE",
            isFlush |-> FALSE, warnCount |-> 0]

-----------------------------------------------------------------------------
(* alert.c *)

ALERT_CleanInfo(a) == [NoAlert EXCEPT !.warnCount = a.warnCount]
ALERT_ClearWarnCount(a) == [a EXCEPT !.warnCount = 0]

AlertIsAbnormalInput(a, level) ==
  /\ a.flag # "NO"
  /\ \/ a.level = "FATAL"
     \/ level = "WARNING" /\ a.level = "WARNING" /\ a.description = "CLOSE_NOTIFY"

FaultyALERT_Send(a, level, description) ==
  IF AlertIsAbnormalInput(a, level) THEN a
  ELSE [a EXCEPT !.flag = "SEND", !.level = level, !.description = description]
ALERT_Send(a, level, description) ==
  IF AlertIsAbnormalInput(a, level) THEN a
  ELSE [a EXCEPT !.flag = "SEND", !.level = level, !.description = description,
                 !.isFlush = FALSE]

(* Each result has the path, the alert context and the return value.         *)
Flushed(p, a, r) == [path |-> p, alert |-> a, ret |-> r]

ALERT_Flush(a) ==
  LET Uio(p) == {Flushed(f.path, [a EXCEPT !.isFlush = TRUE], f.ret) : f \in UioFlush(hsCtx, p)}
  IN IF a.flag # "SEND" THEN {Flushed(path, a, "NO_WANT_SEND")}
     ELSE IF a.isFlush THEN Uio(path)
     ELSE IF pendingData # 0 /\ a.description = "CLOSE_NOTIFY"
          THEN {Flushed(path, a, "IO_BUSY")}
     ELSE UNION {IF w.ret = "SUCCESS" THEN Uio(w.path) ELSE {Flushed(w.path, a, w.ret)} :
                 w \in REC_Write(hsCtx, path, Alert(a.level, a.description))}

(* An alert of the peer: TLS 1.3 takes every one but close_notify as fatal.  *)
ProcessDecryptedAlert(a, level, description) ==
  IF AlertIsAbnormalInput(a, level) THEN a
  ELSE [a EXCEPT !.flag = "RECV", !.description = description,
                 !.level = IF config.tls13 /\ description # "CLOSE_NOTIFY" THEN "FATAL" ELSE level]

FaultyALERT_HaveExceeded(a) == a.warnCount > MAX_ALERT_COUNT
ALERT_HaveExceeded(a) == a.warnCount + 1 >= MAX_ALERT_COUNT
Counted(a) ==
  LET b == [a EXCEPT !.warnCount = @ + 1]
  IN IF ALERT_HaveExceeded(a) THEN ALERT_Send(b, "FATAL", "UNEXPECTED_MESSAGE") ELSE b

-----------------------------------------------------------------------------
(* conn_common.c *)

ChangeConnState(c, s) ==
  IF c.state = s THEN c ELSE [state |-> s, preState |-> c.state]

(* What a socket that does not take a record makes a call return.             *)
Refusals == {"IO_BUSY", "IO_EXCEPTION"}

(* A call that returns is forgotten, unless it is to be repeated.             *)
Return(r) ==
  /\ at' = "rest" /\ loop' = "none" /\ ret' = r
  /\ call' = IF r \in Refusals THEN call ELSE "none"
GoOn(step, l) == at' = step /\ loop' = l /\ UNCHANGED <<call, ret>>

(* A warning that was sent gives the connection back the state before it.     *)
AfterWarning(c) == [c EXCEPT !.state = c.preState]

(* What a function that processes an alert leaves behind and returns.        *)
Outcome(c, s, f, r) == [conn |-> c, shutdown |-> s, alert |-> f.alert, path |-> f.path, ret |-> r]

(* CommonEventInAlertingState with alert a in connection state c.            *)
CommonEventInAlertingState(c, a) ==
  LET Closing == ChangeConnState(c, IF userShutDown THEN "CLOSED" ELSE "ALERTED")
      Sent(f) ==
        IF a.level = "FATAL"
        THEN Outcome(ChangeConnState(c, "ALERTED"), shutdown, f, "SUCCESS")
        ELSE IF a.description = "CLOSE_NOTIFY"
        THEN Outcome(Closing,
                     shutdown \cup {"SENT"}
                       \cup (IF Closing.preState # "TRANSPORTING" THEN {"RECEIVED"} ELSE {}),
                     f, "SUCCESS")
        ELSE Outcome(AfterWarning(c), shutdown,
                     [f EXCEPT !.alert = ALERT_CleanInfo(@)], "SUCCESS")
  IN {IF f.ret = "SUCCESS" THEN Sent(f) ELSE Outcome(c, shutdown, f, f.ret) : f \in ALERT_Flush(a)}

(* AlertRecvProcess: the answer to a close_notify.                           *)
AnswerCloseNotify(clean) ==
  LET c == ChangeConnState(conn, "ALERTING")
  IN {IF f.ret = "SUCCESS"
      THEN Outcome(ChangeConnState(c, "ALERTED"), {"SENT", "RECEIVED"}, f, "LINK_CLOSED")
      ELSE Outcome(c, shutdown \cup {"RECEIVED"}, f, f.ret) :
      f \in ALERT_Flush(ALERT_Send(clean, "WARNING", "CLOSE_NOTIFY"))}

AlertRecvProcess(a) ==
  LET clean == Flushed(path, ALERT_CleanInfo(a), "SUCCESS")
      received == shutdown \cup {"RECEIVED"}
  IN IF a.level = "FATAL"
     THEN {Outcome(ChangeConnState(conn, "ALERTED"), received, Flushed(path, a, "SUCCESS"), "SUCCESS")}
     ELSE IF a.description # "CLOSE_NOTIFY"
     THEN {Outcome(conn, shutdown, clean, "SUCCESS")}
     ELSE IF config.quietShutdown
     THEN {Outcome(ChangeConnState(conn, "ALERTED"), {"SENT", "RECEIVED"}, clean, "SUCCESS")}
     ELSE IF "SENT" \notin shutdown /\ conn.state # "TRANSPORTING"
     THEN AnswerCloseNotify(clean.alert)
     ELSE IF "SENT" \notin shutdown \/ conn.state = "CLOSED"
     THEN {Outcome(ChangeConnState(conn, "CLOSED"), received, clean, "LINK_CLOSED")}
     ELSE {Outcome(ChangeConnState(conn, "ALERTED"), received, clean, "LINK_CLOSED")}

AlertEventProcess(a) ==
  IF a.flag = "RECV" THEN AlertRecvProcess(a)
  ELSE CommonEventInAlertingState(ChangeConnState(conn, "ALERTING"), a)

Apply(o) ==
  conn' = o.conn /\ shutdown' = o.shutdown /\ alertCtx' = o.alert /\ path' = o.path

(* InnerRenegotiationProcess                                                 *)
InnerRenegotiationProcess(a) ==
  IF a.level = "WARNING" /\ a.description = "NO_RENEGOTIATION"
  THEN ALERT_Send(a, "FATAL", "HANDSHAKE_FAILURE") ELSE a

-----------------------------------------------------------------------------
(* A turn of a loop that fails leaves an alert behind, or returns r.          *)
Fails(a, r) ==
  /\ alertCtx' = a
  /\ IF a.flag # "NO" THEN at' = "alert" /\ UNCHANGED <<call, loop, ret>> ELSE Return(r)

(* What the record layer may find when it is asked for a record: nothing, a  *)
(* record it cannot accept, or an alert of the peer.  Any record but an alert *)
(* sets the count of consecutive alerts back.                                *)
OtherRecord == ALERT_ClearWarnCount(alertCtx)
PeerAlerts == {<<"WARNING", "CLOSE_NOTIFY">>, <<"WARNING", "NO_RENEGOTIATION">>,
               <<"FATAL", "HANDSHAKE_FAILURE">>}

ReceiveNothing == Fails(alertCtx, "RECV_BUF_EMPTY")
ReceiveBadRecord == Fails(ALERT_Send(OtherRecord, "FATAL", "BAD_RECORD_MAC"), "ERROR")
ReceiveAlert ==
  \E pa \in PeerAlerts : Fails(ProcessDecryptedAlert(alertCtx, pa[1], pa[2]), "UNEXPECT_MSG")

-----------------------------------------------------------------------------
(* The handshake loops: CommonEventInHandshakingState ("handshaking"),        *)
(* CommonEventInRenegotiationState called for a call of the application       *)
(* ("renegotiation") and from the read loop ("inner").                       *)

(* HS_Init; with a context in place it does nothing.                         *)
FirstHsState ==
  IF config.isClient THEN "SEND_HELLO" ELSE IF isRenegotiation' THEN "SEND_HELLO_REQUEST" ELSE "RECV_HELLO"

(* IsUnexpectedHandshaking: a ClientHello that came after the handshake and  *)
(* may not start a new one.                                                  *)
IsUnexpectedHandshaking == conn = [state |-> "HANDSHAKING", preState |-> "TRANSPORTING"]

(* The server may ask for the hello again, with a HelloVerifyRequest in DTLS *)
(* or a HelloRetryRequest in TLS 1.3.                                        *)
HelloAgain ==
  IF ~config.datagram /\ ~config.tls13 THEN {}
  ELSE IF config.isClient THEN {"SEND_HELLO"} ELSE {"SEND_HELLO_VERIFY"}

NextHsStates(s) ==
  CASE s = "SEND_HELLO_REQUEST" -> {"CONNECTED"}
    [] s \in {"SEND_HELLO", "SEND_HELLO_VERIFY"} -> {"RECV_HELLO"}
    [] s = "SEND" -> {"RECV", "CONNECTED"}
    [] s = "RECV_HELLO_REQUEST" -> {"SEND_HELLO"}
    [] s = "RECV_HELLO" -> {"SEND", "RECV"} \cup HelloAgain
    [] s = "RECV" -> {"SEND", "CONNECTED"}

InHandshake(states) == at = "run" /\ loop \in HandshakeLoops /\ hsState \in states

(* HS_DoHandshake sends the next message; a refused one is sent again.       *)
HsSend ==
  /\ InHandshake(HsSendStates)
  /\ \E w \in REC_Write(hsCtx, path, Handshake) :
       /\ path' = w.path
       /\ IF w.ret = "SUCCESS"
          THEN /\ hsState' \in NextHsStates(hsState)
               /\ isRenegotiation' = (isRenegotiation /\ hsState # "SEND_HELLO_REQUEST")
               /\ UNCHANGED <<alertCtx, call, at, loop, ret>>
          ELSE Fails(alertCtx, w.ret) /\ UNCHANGED <<hsState, isRenegotiation>>
  /\ UNCHANGED <<conn, shutdown, userShutDown, userRenego, appVars, config>>

(* FlightTransmit: what was sent leaves the buffer before anything is        *)
(* received, and HandshakeDone empties it as well.                           *)
HsFlushFails ==
  /\ InHandshake(HsRecvStates \cup {"CONNECTED"})
  /\ \E f \in UioFlush(hsCtx, path) :
       f.ret # "SUCCESS" /\ path' = f.path /\ Fails(alertCtx, f.ret)
  /\ UNCHANGED <<conn, shutdown, flags, hsState, appVars, config>>

HsFlushed(states) ==
  /\ InHandshake(states)
  /\ path' = Drained(path, Len(path.uio))

(* A message of the handshake was processed.                                 *)
HsRecv ==
  /\ HsFlushed(HsRecvStates)
  /\ hsState = "RECV_HELLO" => config.isClient \/ ~IsUnexpectedHandshaking
  /\ hsState' \in NextHsStates(hsState)
  /\ isRenegotiation' =
       (\/ isRenegotiation \/ hsState = "RECV_HELLO_REQUEST"
        \/ (~config.isClient /\ hsState = "RECV_HELLO" /\ conn.state = "RENEGOTIATION"))
  /\ alertCtx' = OtherRecord
  /\ UNCHANGED <<conn, shutdown, userShutDown, userRenego, appVars, call, at, loop, ret, config>>

(* ProcessReceivedHandshakeMsg refuses the ClientHello with a warning.       *)
HsRefuse ==
  /\ HsFlushed({"RECV_HELLO"})
  /\ ~config.isClient /\ IsUnexpectedHandshaking
  /\ hsState' = "CONNECTED"
  /\ Fails(ALERT_Send(OtherRecord, "WARNING", "NO_RENEGOTIATION"), "UNEXPECT_MSG")
  /\ UNCHANGED <<conn, shutdown, flags, appVars, config>>

HsRecvFails ==
  /\ HsFlushed(HsRecvStates)
  /\ \/ /\ ReceiveNothing
        /\ ~(loop = "renegotiation" /\ call = "Write" /\ ~isRenegotiation)
     \/ ReceiveBadRecord \/ ReceiveAlert
  /\ UNCHANGED <<conn, shutdown, flags, hsState, appVars, config>>

(* WriteEventInRenegotiationState: the peer does not answer the request to   *)
(* renegotiate, the data of the application goes out first.                  *)
HsWriteMeanwhile ==
  /\ HsFlushed(HsRecvStates)
  /\ loop = "renegotiation" /\ call = "Write" /\ ~isRenegotiation
  /\ alertCtx.flag = "NO"
  /\ GoOn("run", "transporting")
  /\ UNCHANGED <<conn, shutdown, flags, hsState, appVars, alertCtx, config>>

(* HS_IsAppDataAllowed for HITLS_Read, the one call with allowAppOut set.     *)
IsAppDataAllowed == loop # "handshaking" /\ call = "Read" /\ hsState = "RECV_HELLO"

(* An application record during the handshake.  One that DTLS sets aside,     *)
(* because it overtakes the Finished, is for the loop as if nothing came.     *)
HsUnexpectedApp ==
  /\ HsFlushed(HsRecvStates)
  /\ ~IsAppDataAllowed
  /\ Fails(ALERT_Send(OtherRecord, "FATAL", "UNEXPECTED_MESSAGE"), "UNEXPECT_MSG")
  /\ UNCHANGED <<conn, shutdown, flags, hsState, appVars, config>>

(* The application gets the record: ReadEventInRenegotiationState reads it    *)
(* and returns, the read loop reads it in its next turn.                     *)
Delivered ==
  /\ Return("DATA")
  /\ alertCtx' = OtherRecord

ContextAfterApp == IF loop = "inner" /\ ~isRenegotiation THEN "NONE" ELSE hsState

HsAllowedApp ==
  /\ InHandshake(HsRecvStates) /\ IsAppDataAllowed
  /\ Delivered
  /\ path' = Drained(path, Len(path.uio))
  /\ hsState' = ContextAfterApp
  /\ UNCHANGED <<conn, shutdown, flags, appVars, config>>

FaultyRenegotiationDone == FALSE
RenegotiationDone == loop # "handshaking" /\ isRenegotiation

(* The handshake is over; a stream releases the context.                     *)
HsDone ==
  /\ HsFlushed({"CONNECTED"})
  /\ conn' = ChangeConnState(conn, "TRANSPORTING")
  /\ hsState' = IF config.datagram THEN hsState ELSE "NONE"
  /\ IF RenegotiationDone
     THEN userRenego' = FALSE /\ isRenegotiation' = FALSE
     ELSE UNCHANGED <<userRenego, isRenegotiation>>
  /\ IF call = "Connect" THEN Return("SUCCESS") ELSE GoOn("run", "transporting")
  /\ UNCHANGED <<shutdown, userShutDown, appVars, alertCtx, config>>

(* The code goes through a context that is not there.                        *)
HsNullContext ==
  /\ InHandshake({"NONE"})
  /\ GoOn("crashed", loop)
  /\ UNCHANGED <<conn, shutdown, flags, hsState, appVars, alertCtx, path, config>>

-----------------------------------------------------------------------------
(* ReadEventInTransportingState and the read of a closed connection.         *)

Reading ==
  /\ at = "run"
  /\ \/ loop = "transporting" /\ call = "Read"
     \/ loop = "closed" /\ call # "Write"

(* HS_DeInit, with the buffering UIO.                                        *)
HS_DeInit == hsState' = "NONE" /\ path' = UIO_Deinit(path)

(* The record is for the application; HITLS_Close throws it away.            *)
ReadData ==
  /\ Reading
  /\ Delivered
  /\ IF loop = "transporting" /\ ~isRenegotiation /\ hsCtx
     THEN HS_DeInit ELSE UNCHANGED <<hsState, path>>
  /\ UNCHANGED <<conn, shutdown, flags, appVars, config>>

ReadFails ==
  /\ Reading
  /\ ReceiveNothing \/ ReceiveBadRecord \/ ReceiveAlert
  /\ UNCHANGED <<conn, shutdown, flags, hsState, appVars, path, config>>

(* A handshake message: nobody looks at it on a closed connection.           *)
ReadHandshakeClosed ==
  /\ Reading /\ loop = "closed"
  /\ Fails(OtherRecord, "UNEXPECT_MSG")
  /\ UNCHANGED <<conn, shutdown, flags, hsState, appVars, path, config>>

(* PreprocessUnexpectHsMsg takes the message: a fresh context goes on from s, *)
(* in connection state c.                                                    *)
TakeHandshake(c, s) ==
  /\ Reading /\ loop = "transporting"
  /\ conn' = ChangeConnState(conn, c)
  /\ hsState' = s /\ path' = UIO_Deinit(path)
  /\ alertCtx' = OtherRecord
  /\ GoOn("run", IF c = "RENEGOTIATION" THEN "inner" ELSE "handshaking")
  /\ UNCHANGED <<shutdown, flags, appVars, config>>

(* RecvRenegoReqPreprocess: a request to renegotiate, from the other side.    *)
ServerMustRefuse == ~config.isClient /\ (~config.renegotiable \/ ~(config.allowClientRenegotiate \/ userRenego))

ReadRenegotiationRequest ==
  /\ ~config.tls13 /\ config.renegotiable /\ ~ServerMustRefuse
  /\ TakeHandshake("RENEGOTIATION", IF config.isClient THEN "RECV_HELLO_REQUEST" ELSE "RECV_HELLO")

ReadRefusedRequest ==
  /\ ~config.tls13 /\ ServerMustRefuse
  /\ TakeHandshake("HANDSHAKING", "RECV_HELLO")

(* KeyUpdate and NewSessionTicket in TLS 1.3, a repeated Finished in DTLS.    *)
ReadPostHandshake ==
  /\ config.tls13 \/ config.datagram
  /\ TakeHandshake("HANDSHAKING", "RECV")

(* A message that is refused: the rest of it is consumed, the context freed. *)
(* A Finished that DTLS repeats to the wrong side is refused in silence.     *)
ReadRefusedHandshake ==
  /\ Reading /\ loop = "transporting"
  /\ HS_DeInit
  /\ \E a \in {ALERT_Send(OtherRecord, "FATAL", "UNEXPECTED_MESSAGE")}
              \cup (IF config.isClient /\ ~config.tls13 /\ ~config.renegotiable
                    THEN {ALERT_Send(OtherRecord, "WARNING", "NO_RENEGOTIATION")} ELSE {})
              \cup (IF config.datagram THEN {OtherRecord} ELSE {}) :
       /\ alertCtx' = a
       /\ GoOn(IF a.flag = "NO" THEN "run" ELSE "alert", loop)
  /\ UNCHANGED <<conn, shutdown, flags, appVars, config>>

(* HS_CheckAndProcess2MslTimeout at the head of the read and write loops.    *)
TwoMslTimeout ==
  /\ config.datagram /\ at = "run" /\ loop = "transporting"
  /\ hsCtx /\ conn.state = "TRANSPORTING"
  /\ HS_DeInit
  /\ UNCHANGED <<conn, shutdown, flags, appVars, alertCtx, call, at, loop, ret, config>>

-----------------------------------------------------------------------------
(* APP_Write, from WriteEventInTransportingState and of a closed connection. *)

BadRetry == ~config.datagram /\ pendingData \notin {0, writing}

WriteBadRetry ==
  /\ at = "run" /\ loop \in {"transporting", "closed"} /\ call = "Write"
  /\ BadRetry
  /\ Fails(ALERT_Send(alertCtx, "FATAL", "INTERNAL_ERROR"), "BAD_RETRY")
  /\ UNCHANGED <<conn, shutdown, flags, hsState, appVars, path, config>>

FaultyPendingAfter(r) == IF config.datagram THEN 0 ELSE writing
PendingAfter(r) == IF config.datagram \/ r = "SUCCESS" THEN 0 ELSE writing

AppWrite ==
  UNION {IF w.ret = "SUCCESS" THEN UioFlush(hsCtx, w.path) ELSE {w} :
         w \in REC_Write(hsCtx, path, App(writing))}

WriteData ==
  /\ at = "run" /\ loop \in {"transporting", "closed"} /\ call = "Write"
  /\ ~BadRetry
  /\ \E w \in AppWrite :
       /\ path' = w.path
       /\ pendingData' = PendingAfter(w.ret)
       /\ IF w.ret = "SUCCESS"
          THEN /\ accepted' = accepted \cup {writing}
               /\ Return("SUCCESS") /\ UNCHANGED alertCtx
          ELSE /\ IF loop = "closed" /\ w.ret = "IO_BUSY"
                  THEN Return(w.ret) /\ UNCHANGED alertCtx
                  ELSE Fails(alertCtx, w.ret)
               /\ UNCHANGED accepted
  /\ UNCHANGED <<conn, shutdown, flags, hsState, writing, config>>

-----------------------------------------------------------------------------
(* The alert a turn of a loop left behind.                                   *)

(* What the loop makes of it before it is processed; a closed connection      *)
(* counts nothing.                                                           *)
AlertToProcess ==
  CASE loop = "closed" -> alertCtx
    [] loop \in {"renegotiation", "inner"} \/ (loop = "transporting" /\ call = "Read" /\ userRenego)
         -> Counted(InnerRenegotiationProcess(alertCtx))
    [] OTHER -> Counted(alertCtx)

(* The loops give up for an error, for a connection that is no longer usable *)
(* and, in the first handshake, for too many alerts.                         *)
GivesUp(o) ==
  \/ o.ret # "SUCCESS" \/ loop = "closed"
  \/ o.conn.state = "ALERTED"
  \/ o.conn.state = "CLOSED" /\ loop = "transporting" /\ call = "Read"
  \/ loop = "handshaking" /\ ALERT_HaveExceeded(alertCtx)

ProcessAlert ==
  /\ at = "alert"
  /\ \E o \in AlertEventProcess(AlertToProcess) :
       /\ Apply(o)
       /\ IF GivesUp(o)
          THEN Return(IF o.ret = "SUCCESS" THEN "ERROR"
                      ELSE IF call = "Close" /\ o.ret = "LINK_CLOSED" THEN "SUCCESS"
                      ELSE o.ret)
          ELSE GoOn("run", loop)
  /\ UNCHANGED <<flags, hsState, appVars, config>>

-----------------------------------------------------------------------------
(* The calls *)

(* A patient application repeats what the socket refused.                    *)
MayCall(c) == at = "rest" /\ (config.patient /\ ret \in Refusals => c = call)

(* The buffers are numbered; the one that was refused is given again, or,     *)
(* when the application gives up on it, the next one.                        *)
Refusal == writing \notin accepted \cup {0}
Buffers ==
  IF Len(path.wire) >= MaxWire THEN {}
  ELSE IF Refusal /\ config.patient THEN {writing}
  ELSE ({writing, writing + 1} \ accepted) \cap 1 .. MaxWrites

Call(c) ==
  /\ MayCall(c)
  /\ call' = c /\ at' = "entry" /\ ret' = "NONE"
  /\ IF c = "Write" THEN writing' \in Buffers ELSE UNCHANGED writing
  /\ userShutDown' = (userShutDown \/ c = "Close")
  /\ UNCHANGED <<conn, shutdown, userRenego, isRenegotiation, hsState, pendingData, accepted,
                 alertCtx, path, loop, config>>

Entering(c, states) == at = "entry" /\ call \in c /\ conn.state \in states

(* HITLS_Connect, HITLS_Read and HITLS_Write: an unsent alert goes first.     *)
UnsentAlert ==
  /\ Entering({"Connect", "Read", "Write"}, {"ALERTING"})
  /\ \E o \in CommonEventInAlertingState(conn, alertCtx) :
       /\ Apply(o)
       /\ IF o.ret = "SUCCESS" THEN GoOn("entry", "none") ELSE Return(o.ret)
  /\ UNCHANGED <<flags, hsState, appVars, config>>

ConnectIdle ==
  /\ Entering({"Connect"}, {"IDLE"})
  /\ conn' = ChangeConnState(conn, "HANDSHAKING")
  /\ UNCHANGED isRenegotiation /\ hsState' = FirstHsState
  /\ GoOn("run", "handshaking")
  /\ UNCHANGED <<shutdown, userShutDown, userRenego, appVars, alertCtx, path, config>>

EnterLoop ==
  /\ \/ Entering({"Connect", "Read", "Write"}, {"HANDSHAKING"}) /\ GoOn("run", "handshaking")
     \/ Entering({"Read", "Write"}, {"TRANSPORTING"}) /\ GoOn("run", "transporting")
     \/ /\ Entering({"Connect", "Read", "Write"}, {"RENEGOTIATION"})
        /\ GoOn("run", IF call = "Write" /\ pendingData # 0 THEN "transporting" ELSE "renegotiation")
  /\ UNCHANGED <<conn, shutdown, flags, hsState, appVars, alertCtx, path, config>>

(* One direction of a closed connection may still be open.                   *)
FaultyHalfOpen ==
  \/ call = "Read" /\ "SENT" \notin shutdown
  \/ call = "Write" /\ "RECEIVED" \notin shutdown
HalfOpen ==
  \/ call = "Read" /\ "RECEIVED" \notin shutdown
  \/ call = "Write" /\ "SENT" \notin shutdown

EnterClosed ==
  /\ Entering({"Read", "Write"}, {"CLOSED"}) /\ HalfOpen
  /\ alertCtx' = ALERT_CleanInfo(alertCtx)
  /\ GoOn("run", "closed")
  /\ UNCHANGED <<conn, shutdown, flags, hsState, appVars, path, config>>

NothingToDo ==
  /\ \/ Entering({"Connect"}, {"TRANSPORTING"}) /\ Return("SUCCESS")
     \/ Entering({"Read", "Write"}, {"IDLE"}) /\ Return("LINK_UNESTABLISHED")
     \/ Entering({"Connect", "Read", "Write"}, {"ALERTED"}) /\ Return("LINK_FATAL_ALERTED")
     \/ Entering({"Connect", "Read", "Write"}, {"CLOSED"}) /\ ~HalfOpen /\ Return("LINK_CLOSED")
  /\ UNCHANGED <<conn, shutdown, flags, hsState, appVars, alertCtx, path, config>>

-----------------------------------------------------------------------------
(* HITLS_Close: the handler of each state, again until the state is CLOSED.  *)

CloseAtOnce ==
  /\ at = "entry" /\ call = "Close"
  /\ config.quietShutdown \/ conn.state \in {"IDLE", "ALERTED"}
  /\ shutdown' = {"SENT", "RECEIVED"}
  /\ conn' = ChangeConnState(conn, "CLOSED")
  /\ Return("SUCCESS")
  /\ UNCHANGED <<flags, hsState, appVars, alertCtx, path, config>>

(* The state a close_notify that does not get through leaves behind.          *)
FaultyUnsentCloseState(s) == s
UnsentCloseState(s) == IF s \in {"HANDSHAKING", "RENEGOTIATION"} THEN "ALERTED" ELSE "ALERTING"

(* The close_notify is sent.  A handshake that is closed is over for both     *)
(* directions.                                                               *)
CloseOpen ==
  /\ ~config.quietShutdown
  /\ \/ Entering({"Close"}, {"HANDSHAKING", "TRANSPORTING", "RENEGOTIATION"})
     \/ Entering({"Close"}, {"CLOSED"}) /\ "RECEIVED" \in shutdown
  /\ LET both == IF conn.state \in {"HANDSHAKING", "RENEGOTIATION"} THEN {"RECEIVED"} ELSE {}
         s == IF "SENT" \in shutdown THEN {Flushed(path, alertCtx, "SUCCESS")}
              ELSE ALERT_Flush(ALERT_Send(alertCtx, "WARNING", "CLOSE_NOTIFY"))
     IN \E f \in s :
          /\ path' = f.path /\ alertCtx' = f.alert
          /\ Return(f.ret)
          /\ IF f.ret = "SUCCESS"
             THEN /\ shutdown' = shutdown \cup {"SENT"} \cup both
                  /\ conn' = ChangeConnState(conn, "CLOSED")
             ELSE /\ conn' = ChangeConnState(conn, UnsentCloseState(conn.state))
                  /\ UNCHANGED shutdown
  /\ UNCHANGED <<flags, hsState, appVars, config>>

(* CloseEventInAlertingState: a fatal alert is kept, any other replaced.      *)
CloseAlerting ==
  /\ ~config.quietShutdown /\ Entering({"Close"}, {"ALERTING"})
  /\ \E o \in CommonEventInAlertingState(conn, ALERT_Send(alertCtx, "WARNING", "CLOSE_NOTIFY")) :
       /\ Apply(o)
       /\ IF o.ret = "SUCCESS" /\ o.conn.state # "CLOSED" THEN GoOn("entry", "none") ELSE Return(o.ret)
  /\ UNCHANGED <<flags, hsState, appVars, config>>

(* The second close waits for the close_notify of the peer.                   *)
CloseAgain ==
  /\ ~config.quietShutdown /\ Entering({"Close"}, {"CLOSED"}) /\ "RECEIVED" \notin shutdown
  /\ alertCtx' = ALERT_CleanInfo(alertCtx)
  /\ GoOn("run", "closed")
  /\ UNCHANGED <<conn, shutdown, flags, hsState, appVars, path, config>>

-----------------------------------------------------------------------------
(* HITLS_Renegotiate and HITLS_KeyUpdate only prepare the next call.          *)

HITLS_Renegotiate ==
  /\ MayCall("Renegotiate")
  /\ ~config.tls13 /\ config.renegotiable /\ conn.state \in {"TRANSPORTING", "RENEGOTIATION"}
  /\ ~isRenegotiation
  /\ isRenegotiation' = TRUE /\ userRenego' = TRUE
  /\ hsState' = FirstHsState /\ path' = UIO_Deinit(path)
  /\ conn' = ChangeConnState(conn, "RENEGOTIATION")
  /\ ret' = "SUCCESS"
  /\ UNCHANGED <<shutdown, userShutDown, appVars, alertCtx, call, at, loop, config>>

HITLS_KeyUpdate ==
  /\ MayCall("KeyUpdate")
  /\ config.tls13 /\ conn.state = "TRANSPORTING"
  /\ hsState' = "SEND"
  /\ conn' = ChangeConnState(conn, "HANDSHAKING")
  /\ ret' = "SUCCESS"
  /\ UNCHANGED <<shutdown, flags, appVars, alertCtx, path, call, at, loop, config>>

-----------------------------------------------------------------------------
Init ==
  /\ config \in Configs
  /\ conn = [state |-> "IDLE", preState |-> "IDLE"]
  /\ shutdown = {} /\ alertCtx = NoAlert
  /\ userShutDown = FALSE /\ userRenego = FALSE /\ isRenegotiation = FALSE
  /\ hsState = "NONE" /\ path = EmptyPath
  /\ pendingData = 0 /\ writing = 0 /\ accepted = {}
  /\ call = "none" /\ at = "rest" /\ loop = "none" /\ ret = "SUCCESS"

Application == (\E c \in Calls : Call(c)) \/ HITLS_Renegotiate \/ HITLS_KeyUpdate

Dispatch ==
  \/ UnsentAlert \/ ConnectIdle \/ EnterLoop \/ EnterClosed \/ NothingToDo
  \/ CloseAtOnce \/ CloseOpen \/ CloseAlerting \/ CloseAgain

Turn ==
  \/ HsSend \/ HsFlushFails \/ HsRecv \/ HsRefuse \/ HsRecvFails \/ HsWriteMeanwhile
  \/ HsUnexpectedApp \/ HsAllowedApp \/ HsDone
  \/ ReadData \/ ReadFails \/ ReadHandshakeClosed \/ ReadRenegotiationRequest
  \/ ReadRefusedRequest \/ ReadPostHandshake \/ ReadRefusedHandshake \/ TwoMslTimeout
  \/ WriteBadRetry \/ WriteData \/ ProcessAlert
  \/ HsNullContext

Next == Application \/ Dispatch \/ Turn
Spec == Init /\ [][Next]_vars

TypeOK ==
  /\ conn \in [state : States, preState : States]
  /\ shutdown \subseteq {"SENT", "RECEIVED"}
  /\ {userShutDown, userRenego, isRenegotiation} \subseteq BOOLEAN
  /\ alertCtx.flag \in {"NO", "SEND", "RECV"} /\ alertCtx.isFlush \in BOOLEAN
  /\ alertCtx.level \in {"NONE", "WARNING", "FATAL"}
  /\ alertCtx.warnCount \in 0 .. MAX_ALERT_COUNT
  /\ hsState \in HsStates
  /\ pendingData \in 0 .. MaxWrites /\ writing \in 0 .. MaxWrites
  /\ accepted \subseteq 1 .. MaxWrites
  /\ call \in Calls \cup {"none"} /\ loop \in Loops
  /\ at \in {"rest", "entry", "run", "alert", "crashed"}

-----------------------------------------------------------------------------
(* What the socket and the application owe a connection that is closed: a     *)
(* refused call is repeated and the close called again, and a socket that is  *)
(* asked again and again takes the alert at last.  A call that can go on does.*)
Repeat == call \in Calls /\ Call(call)
AlertTaken == (CloseOpen \/ CloseAlerting \/ UnsentAlert) /\ ret' \notin Refusals
Fairness ==
  /\ WF_progress(Dispatch \/ Turn) /\ WF_progress(Repeat)
  /\ SF_vars(Call("Close")) /\ SF_vars(AlertTaken)
FairSpec == Spec /\ Fairness

-----------------------------------------------------------------------------
(* Properties *)

Numbers(records) ==
  LET apps == Chosen(records, {i \in 1 .. Len(records) : records[i].type = "APP"})
  IN [i \in 1 .. Len(apps) |-> apps[i].body]
AppOut == Numbers(path.wire \o path.uio)
Announced == \E i \in 1 .. Len(path.wire \o path.uio) : ClosesWrite((path.wire \o path.uio)[i])

(* The buffers of an application that repeats what was refused leave once    *)
(* and in order, and a write that returned success has left (SavePending-     *)
(* Data, the cached record).                                                 *)
AppStream ==
  config.patient =>
  /\ \A i, j \in 1 .. Len(AppOut) : i < j => AppOut[i] < AppOut[j]
  /\ accepted \subseteq {AppOut[i] : i \in 1 .. Len(AppOut)}

(* An application that gives up on a refused record leaves it in the output   *)
(* buffer of a stream.                                                       *)
LeavesRecordBehind == ~config.patient /\ ~config.datagram

(* Every REC_Write that returned success wrote the record it was given.       *)
NothingSwallowed == ~LeavesRecordBehind => path.lost = {}

(* Once HITLS_Close was called no later call opens the connection again, not  *)
(* even the one that restores the state from before a warning.               *)
CloseIsFinal == at = "rest" /\ userShutDown => conn.state \notin OpenStates

(* A close that came through from an open connection, at once or after        *)
(* retries, has told the peer, and so has the fatal alert of its own that     *)
(* ended a connection.                                                       *)
CloseAnnounced ==
  /\ \/ conn.state = "CLOSED" /\ "SENT" \in shutdown /\ conn.preState \notin {"IDLE", "ALERTED"}
        /\ ~config.quietShutdown
     \/ conn.state = "ALERTED" /\ alertCtx.flag = "SEND" /\ alertCtx.level = "FATAL"
  /\ ~LeavesRecordBehind
  => Announced

(* The handlers of HANDSHAKING and RENEGOTIATION find a handshake context.    *)
HandshakeHasContext ==
  at = "rest" /\ conn.state \in {"HANDSHAKING", "RENEGOTIATION"} => hsCtx

(* A renegotiation that is over, given up or refused leaves no trace that     *)
(* would make HITLS_Renegotiate do nothing for ever.                         *)
RenegotiationEnds == at = "rest" /\ conn.state = "TRANSPORTING" => ~isRenegotiation

(* A closing alert that waits for a write of the application to be repeated.  *)
WaitsForWrite ==
  /\ conn.state = "ALERTING" /\ alertCtx.description = "CLOSE_NOTIFY" /\ ~alertCtx.isFlush
  /\ pendingData # 0

(* A connection whose application calls HITLS_Close until it succeeds is      *)
(* closed in the end.  The one exception is an application that does not      *)
(* repeat a refused write: its close_notify and its write may wait for each   *)
(* other for ever.                                                           *)
Closes ==
  userShutDown ~> \/ conn.state = "CLOSED"
                  \/ ~config.patient /\ []WaitsForWrite

(* The connection of an application that repeats what was refused implements  *)
(* the stream of ConnLife; of any other, the closing of its two directions.   *)
Life == INSTANCE ConnLife WITH
  Buffer <- 1 .. MaxWrites,
  out <- IF config.patient THEN AppOut ELSE <<>>,
  accepted <- IF config.patient THEN accepted ELSE {},
  outClosed <- "SENT" \in shutdown \/ conn.state = "ALERTED",
  inClosed <- "RECEIVED" \in shutdown \/ conn.state = "ALERTED"
LifeSpec == Life!LifeSpec
=============================================================================
