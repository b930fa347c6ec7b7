--------------------------- MODULE ConnState_proofs --------------------------
(***************************************************************************)
(* Theorems about one connection as its application drives it, for every   *)
(* set of configurations, every limit of the alerts and every application: *)
(* what the calls, the loops and the alerts make of the connection state.  *)
(***************************************************************************)
EXTENDS ConnState, TLAPS

-----------------------------------------------------------------------------
(* The alert context.                                                      *)

Levels == {"NONE", "WARNING", "FATAL"}
Descriptions == {"NONE", "CLOSE_NOTIFY", "NO_RENEGOTIATION", "HANDSHAKE_FAILURE",
                 "UNEXPECTED_MESSAGE", "BAD_RECORD_MAC", "INTERNAL_ERROR"}
AlertContexts ==
  {a \in [flag : {"NO", "SEND", "RECV"}, level : Levels, description : Descriptions,
          isFlush : BOOLEAN, warnCount : Nat] : a.flag # "NO" => a.level # "NONE"}
ConnRecords == [state : States, preState : States]

(* An alert after which no state is restored. *)
Final(a) == a.level = "FATAL" \/ a.description = "CLOSE_NOTIFY"

SameAlert(a, b) ==
  /\ b \in AlertContexts
  /\ b.flag = a.flag /\ b.level = a.level /\ b.description = a.description
  /\ b.warnCount = a.warnCount

(* An alert is taken over, unless the one in place must not be replaced. *)
LEMMA SendAlert ==
  ASSUME NEW a \in AlertContexts, NEW l \in {"WARNING", "FATAL"}, NEW d \in Descriptions
  PROVE  LET b == ALERT_Send(a, l, d) IN
         /\ b \in AlertContexts /\ b.warnCount = a.warnCount
         /\ \/ b = a /\ a.flag # "NO" /\ Final(a)
            \/ b.flag = "SEND" /\ b.level = l /\ b.description = d
<1> DEFINE b == ALERT_Send(a, l, d)
<1>1. CASE AlertIsAbnormalInput(a, l)
  BY <1>1 DEF ALERT_Send, AlertIsAbnormalInput, Final
<1>2. CASE ~AlertIsAbnormalInput(a, l)
  <2>1. b = [a EXCEPT !.flag = "SEND", !.level = l, !.description = d, !.isFlush = FALSE]
    BY <1>2 DEF ALERT_Send
  <2> QED
    BY <2>1 DEF AlertContexts, Levels
<1> QED
  BY <1>1, <1>2

(* An alert of the peer is taken over the same way. *)
LEMMA ReceivedAlert ==
  ASSUME NEW a \in AlertContexts, a.flag = "NO", NEW pa \in PeerAlerts
  PROVE  LET b == ProcessDecryptedAlert(a, pa[1], pa[2]) IN
         b \in AlertContexts /\ b.warnCount = a.warnCount /\ b.flag = "RECV"
<1>1. pa[1] \in {"WARNING", "FATAL"} /\ pa[2] \in Descriptions
  BY DEF PeerAlerts, Descriptions
<1>2. ~AlertIsAbnormalInput(a, pa[1])
  BY DEF AlertIsAbnormalInput
<1> DEFINE l == IF config.tls13 /\ pa[2] # "CLOSE_NOTIFY" THEN "FATAL" ELSE pa[1]
<1>3. ProcessDecryptedAlert(a, pa[1], pa[2]) =
        [a EXCEPT !.flag = "RECV", !.description = pa[2], !.level = l]
  BY <1>2 DEF ProcessDecryptedAlert
<1>4. l \in Levels \ {"NONE"}
  BY <1>1 DEF Levels
<1> HIDE DEF l
<1> QED
  BY <1>1, <1>3, <1>4 DEF AlertContexts

(* The context after an alert is done with, and after another record. *)
LEMMA CleanAlert ==
  ASSUME NEW a \in AlertContexts
  PROVE  /\ ALERT_CleanInfo(a) \in AlertContexts
         /\ ALERT_CleanInfo(a).flag = "NO" /\ ALERT_CleanInfo(a).warnCount = a.warnCount
         /\ ALERT_ClearWarnCount(a) \in AlertContexts
         /\ ALERT_ClearWarnCount(a).flag = a.flag
         /\ ALERT_ClearWarnCount(a).level = a.level
         /\ ALERT_ClearWarnCount(a).description = a.description
         /\ ALERT_ClearWarnCount(a).warnCount = 0
BY DEF ALERT_CleanInfo, ALERT_ClearWarnCount, NoAlert, AlertContexts, Levels, Descriptions

(* Flushing changes no more than the mark that the record is out. *)
LEMMA FlushAlert ==
  ASSUME NEW a \in AlertContexts, NEW f \in ALERT_Flush(a)
  PROVE  /\ SameAlert(a, f.alert)
         /\ f = Flushed(f.path, f.alert, f.ret)
         /\ a.flag # "SEND" => f.ret # "SUCCESS"
<1> DEFINE sent == [a EXCEPT !.isFlush = TRUE]
<1>1. SameAlert(a, a) /\ SameAlert(a, sent)
  BY DEF SameAlert, AlertContexts
<1>2. \E p, r : f = Flushed(p, a, r) \/ f = Flushed(p, sent, r)
  <2>1. CASE a.flag # "SEND"
    BY <2>1 DEF ALERT_Flush
  <2>2. CASE a.flag = "SEND" /\ a.isFlush
    <3>1. f \in {Flushed(g.path, sent, g.ret) : g \in UioFlush(hsCtx, path)}
      BY <2>2 DEF ALERT_Flush
    <3> QED
      BY <3>1
  <2>3. CASE a.flag = "SEND" /\ ~a.isFlush
    <3>1. \/ f = Flushed(path, a, "IO_BUSY")
          \/ f \in UNION {IF w.ret = "SUCCESS"
                          THEN {Flushed(g.path, sent, g.ret) : g \in UioFlush(hsCtx, w.path)}
                          ELSE {Flushed(w.path, a, w.ret)} :
                          w \in REC_Write(hsCtx, path, Alert(a.level, a.description))}
      BY <2>3 DEF ALERT_Flush
    <3>2. CASE f = Flushed(path, a, "IO_BUSY")
      BY <3>2
    <3>3. ASSUME NEW w \in REC_Write(hsCtx, path, Alert(a.level, a.description)),
                 f \in IF w.ret = "SUCCESS"
                       THEN {Flushed(g.path, sent, g.ret) : g \in UioFlush(hsCtx, w.path)}
                       ELSE {Flushed(w.path, a, w.ret)}
          PROVE  \E p, r : f = Flushed(p, a, r) \/ f = Flushed(p, sent, r)
      BY <3>3
    <3> QED
      BY <3>1, <3>2, <3>3
  <2> QED
    BY <2>1, <2>2, <2>3 DEF AlertContexts
<1>3. a.flag # "SEND" => f.ret # "SUCCESS"
  BY DEF ALERT_Flush, Flushed
<1> HIDE DEF sent
<1> QED
  BY <1>1, <1>2, <1>3 DEF Flushed

-----------------------------------------------------------------------------
(* What the processing of an alert makes of the connection.                *)

LEMMA ChangeState ==
  ASSUME NEW c \in ConnRecords, NEW s \in States
  PROVE  /\ ChangeConnState(c, s) \in ConnRecords
         /\ ChangeConnState(c, s).state = s
         /\ c.state # s => ChangeConnState(c, s).preState = c.state
         /\ c.state = s => ChangeConnState(c, s) = c
BY DEF ChangeConnState, ConnRecords

(* An alert of this end, in a connection that is ALERTING: refused, the end *)
(* of the connection, or the return to the state before.                    *)
LEMMA SentAlert ==
  ASSUME NEW c \in ConnRecords, c.state = "ALERTING", NEW a \in AlertContexts,
         shutdown \subseteq {"SENT", "RECEIVED"},
         NEW o \in CommonEventInAlertingState(c, a)
  PROVE  /\ o.conn \in ConnRecords /\ o.shutdown \subseteq {"SENT", "RECEIVED"}
         /\ o.alert \in AlertContexts /\ o.alert.warnCount = a.warnCount
         /\ \/ o.ret # "SUCCESS" /\ o.conn = c /\ SameAlert(a, o.alert)
            \/ o.ret = "SUCCESS" /\ a.flag = "SEND" /\ Final(a)
               /\ o.conn.state = (IF a.level # "FATAL" /\ userShutDown THEN "CLOSED" ELSE "ALERTED")
               /\ (o.conn.state = "CLOSED" => "SENT" \in o.shutdown)
            \/ o.ret = "SUCCESS" /\ a.flag = "SEND" /\ ~Final(a)
               /\ o.conn.state = c.preState /\ o.alert.flag = "NO"
<1> DEFINE Closing == ChangeConnState(c, IF userShutDown THEN "CLOSED" ELSE "ALERTED")
           told == shutdown \cup {"SENT"}
                     \cup (IF Closing.preState # "TRANSPORTING" THEN {"RECEIVED"} ELSE {})
           Sent(f) ==
             IF a.level = "FATAL"
             THEN Outcome(ChangeConnState(c, "ALERTED"), shutdown, f, "SUCCESS")
             ELSE IF a.description = "CLOSE_NOTIFY"
             THEN Outcome(Closing, told, f, "SUCCESS")
             ELSE Outcome(AfterWarning(c), shutdown,
                          [f EXCEPT !.alert = ALERT_CleanInfo(@)], "SUCCESS")
<1>1. PICK f \in ALERT_Flush(a) :
        o = IF f.ret = "SUCCESS" THEN Sent(f) ELSE Outcome(c, shutdown, f, f.ret)
  BY DEF CommonEventInAlertingState
<1>2. SameAlert(a, f.alert) /\ f = Flushed(f.path, f.alert, f.ret)
      /\ (a.flag # "SEND" => f.ret # "SUCCESS")
  BY FlushAlert
<1>3. /\ ChangeConnState(c, "ALERTED") \in ConnRecords
      /\ ChangeConnState(c, "ALERTED").state = "ALERTED"
      /\ Closing \in ConnRecords
      /\ Closing.state = (IF userShutDown THEN "CLOSED" ELSE "ALERTED")
  BY ChangeState DEF States
<1>4. told \subseteq {"SENT", "RECEIVED"} /\ "SENT" \in told
  OBVIOUS
<1>5. AfterWarning(c) \in ConnRecords /\ AfterWarning(c).state = c.preState
  BY DEF AfterWarning, ConnRecords
<1> HIDE DEF Closing, told
<1>6. CASE f.ret # "SUCCESS"
  BY <1>1, <1>2, <1>6 DEF Outcome, SameAlert
<1>7. CASE f.ret = "SUCCESS" /\ a.level = "FATAL"
  BY <1>1, <1>2, <1>3, <1>7 DEF Outcome, SameAlert, Final
<1>8. CASE f.ret = "SUCCESS" /\ a.level # "FATAL" /\ a.description = "CLOSE_NOTIFY"
  BY <1>1, <1>2, <1>3, <1>4, <1>8 DEF Outcome, SameAlert, Final
<1>9. CASE f.ret = "SUCCESS" /\ ~Final(a)
  <2>1. PICK g : g = [f EXCEPT !.alert = ALERT_CleanInfo(@)]
    OBVIOUS
  <2>2. g.alert = ALERT_CleanInfo(f.alert)
    BY <1>2, <2>1 DEF Flushed
  <2>3. o = Outcome(AfterWarning(c), shutdown, g, "SUCCESS")
    BY <1>1, <1>9, <2>1 DEF Final
  <2>4. f.alert \in AlertContexts /\ f.alert.warnCount = a.warnCount
    BY <1>2 DEF SameAlert
  <2>5. /\ o.conn = AfterWarning(c) /\ o.shutdown = shutdown /\ o.ret = "SUCCESS"
        /\ o.alert = ALERT_CleanInfo(f.alert)
    BY <2>2, <2>3 DEF Outcome
  <2> QED
    BY <1>2, <1>5, <1>9, <2>4, <2>5, CleanAlert
<1> QED
  BY <1>6, <1>7, <1>8, <1>9 DEF Final

(* What becomes of the connection when the alert a of a loop is processed:  *)
(* nothing, an alert that is still to be sent, or the end.                  *)
Resolved(a, o) ==
  /\ o.conn \in ConnRecords /\ o.shutdown \subseteq {"SENT", "RECEIVED"}
  /\ o.alert \in AlertContexts /\ o.alert.warnCount = a.warnCount
  /\ \/ /\ o.ret = "SUCCESS" /\ ~Final(a)
        /\ o.conn.state = conn.state /\ o.alert.flag = "NO"
     \/ /\ o.ret # "SUCCESS" /\ ~Final(a) /\ a.flag = "SEND"
        /\ o.conn.state = "ALERTING" /\ o.conn.preState = conn.state
        /\ SameAlert(a, o.alert)
     \/ /\ o.ret # "SUCCESS" /\ Final(a)
        /\ o.conn.state = "ALERTING" /\ o.alert.flag = "SEND" /\ Final(o.alert)
     \/ /\ Final(a)
        /\ o.conn.state \in {"ALERTED", "CLOSED"}
        /\ o.ret = "SUCCESS" /\ ~userShutDown => o.conn.state = "ALERTED"
        /\ o.conn.state = "CLOSED" => o.alert.flag = "NO" \/ "SENT" \in o.shutdown

(* An alert of the peer. *)
LEMMA AlertReceived ==
  ASSUME conn \in ConnRecords, shutdown \subseteq {"SENT", "RECEIVED"},
         NEW a \in AlertContexts, a.flag = "RECV",
         NEW o \in AlertRecvProcess(a)
  PROVE  Resolved(a, o)
<1> DEFINE clean == Flushed(path, ALERT_CleanInfo(a), "SUCCESS")
           received == shutdown \cup {"RECEIVED"}
<1>1. /\ ALERT_CleanInfo(a) \in AlertContexts
      /\ ALERT_CleanInfo(a).flag = "NO" /\ ALERT_CleanInfo(a).warnCount = a.warnCount
      /\ clean.alert = ALERT_CleanInfo(a)
  BY CleanAlert DEF Flushed
<1>2. received \subseteq {"SENT", "RECEIVED"}
  OBVIOUS
<1>3. /\ ChangeConnState(conn, "ALERTED") \in ConnRecords
      /\ ChangeConnState(conn, "ALERTED").state = "ALERTED"
      /\ ChangeConnState(conn, "CLOSED") \in ConnRecords
      /\ ChangeConnState(conn, "CLOSED").state = "CLOSED"
      /\ ChangeConnState(conn, "ALERTING") \in ConnRecords
      /\ ChangeConnState(conn, "ALERTING").state = "ALERTING"
  BY ChangeState DEF States
<1>4. CASE a.level = "FATAL"
  <2>1. o = Outcome(ChangeConnState(conn, "ALERTED"), received,
                    Flushed(path, a, "SUCCESS"), "SUCCESS")
    BY <1>4 DEF AlertRecvProcess
  <2> QED
    BY <1>2, <1>3, <1>4, <2>1 DEF Outcome, Flushed, Resolved, Final
<1>5. CASE a.level # "FATAL" /\ a.description # "CLOSE_NOTIFY"
  <2>1. o = Outcome(conn, shutdown, clean, "SUCCESS")
    BY <1>5 DEF AlertRecvProcess
  <2> HIDE DEF clean
  <2> QED
    BY <1>1, <1>5, <2>1 DEF Outcome, Resolved, Final
<1>6. CASE a.level # "FATAL" /\ a.description = "CLOSE_NOTIFY"
  <2>0. Final(a)
    BY <1>6 DEF Final
  <2>1. CASE o \in AnswerCloseNotify(clean.alert)
    <3> DEFINE b == ALERT_Send(clean.alert, "WARNING", "CLOSE_NOTIFY")
               c == ChangeConnState(conn, "ALERTING")
    <3>1. /\ b \in AlertContexts /\ b.warnCount = a.warnCount
          /\ b.flag = "SEND" /\ Final(b)
      BY <1>1, SendAlert DEF Descriptions, Final
    <3>2. PICK f \in ALERT_Flush(b) :
            o = IF f.ret = "SUCCESS"
                THEN Outcome(ChangeConnState(c, "ALERTED"), {"SENT", "RECEIVED"}, f, "LINK_CLOSED")
                ELSE Outcome(c, received, f, f.ret)
      BY <2>1 DEF AnswerCloseNotify
    <3>3. SameAlert(b, f.alert)
      BY <3>1, FlushAlert
    <3>4. /\ ChangeConnState(c, "ALERTED") \in ConnRecords
          /\ ChangeConnState(c, "ALERTED").state = "ALERTED"
      BY <1>3, ChangeState DEF States
    <3> HIDE DEF b, c
    <3>5. CASE f.ret = "SUCCESS"
      BY <2>0, <3>1, <3>2, <3>3, <3>4, <3>5 DEF Outcome, Resolved, SameAlert
    <3>6. CASE f.ret # "SUCCESS"
      <4>1. c \in ConnRecords /\ c.state = "ALERTING"
        BY <1>3 DEF c
      <4>2. /\ o.conn = c /\ o.shutdown = received /\ o.alert = f.alert /\ o.ret = f.ret
        BY <3>2, <3>6 DEF Outcome
      <4> QED
        BY <1>2, <2>0, <3>1, <3>3, <3>6, <4>1, <4>2 DEF Resolved, SameAlert, Final
    <3> QED
      BY <3>5, <3>6
  <2>2. CASE o \in {Outcome(ChangeConnState(conn, "ALERTED"), {"SENT", "RECEIVED"}, clean, "SUCCESS"),
                    Outcome(ChangeConnState(conn, "CLOSED"), received, clean, "LINK_CLOSED"),
                    Outcome(ChangeConnState(conn, "ALERTED"), received, clean, "LINK_CLOSED")}
    <3> HIDE DEF clean, received
    <3>1. ASSUME NEW c \in ConnRecords, c.state \in {"ALERTED", "CLOSED"},
                 NEW s, s \subseteq {"SENT", "RECEIVED"},
                 NEW r, r = "SUCCESS" => c.state = "ALERTED", o = Outcome(c, s, clean, r)
          PROVE  Resolved(a, o)
      <4>1. o.conn = c /\ o.shutdown = s /\ o.alert = ALERT_CleanInfo(a) /\ o.ret = r
        BY <1>1, <3>1 DEF Outcome
      <4> QED
        BY <1>1, <2>0, <3>1, <4>1 DEF Resolved
    <3>2. CASE o = Outcome(ChangeConnState(conn, "ALERTED"), {"SENT", "RECEIVED"}, clean, "SUCCESS")
      BY <1>3, <3>1, <3>2
    <3>3. CASE o = Outcome(ChangeConnState(conn, "CLOSED"), received, clean, "LINK_CLOSED")
      BY <1>2, <1>3, <3>1, <3>3
    <3>4. CASE o = Outcome(ChangeConnState(conn, "ALERTED"), received, clean, "LINK_CLOSED")
      BY <1>2, <1>3, <3>1, <3>4
    <3> QED
      BY <2>2, <3>2, <3>3, <3>4
  <2> QED
    BY <1>6, <2>1, <2>2 DEF AlertRecvProcess
<1> QED
  BY <1>4, <1>5, <1>6

(* An alert of either side, in a loop. *)
LEMMA AlertProcessed ==
  ASSUME conn \in ConnRecords, conn.state # "ALERTING",
         shutdown \subseteq {"SENT", "RECEIVED"},
         NEW a \in AlertContexts, a.flag # "NO",
         NEW o \in AlertEventProcess(a)
  PROVE  Resolved(a, o)
<1>1. CASE a.flag = "RECV"
  BY <1>1, AlertReceived DEF AlertEventProcess
<1>2. CASE a.flag = "SEND"
  <2>1. PICK c \in ConnRecords : c = ChangeConnState(conn, "ALERTING")
    BY ChangeState DEF States
  <2>2. c.state = "ALERTING" /\ c.preState = conn.state
    BY <2>1, ChangeState DEF States
  <2>3. o \in CommonEventInAlertingState(c, a)
    BY <1>2, <2>1 DEF AlertEventProcess
  <2>4. /\ o.conn \in ConnRecords /\ o.shutdown \subseteq {"SENT", "RECEIVED"}
        /\ o.alert \in AlertContexts /\ o.alert.warnCount = a.warnCount
        /\ \/ o.ret # "SUCCESS" /\ o.conn = c /\ SameAlert(a, o.alert)
           \/ o.ret = "SUCCESS" /\ a.flag = "SEND" /\ Final(a)
              /\ o.conn.state = (IF a.level # "FATAL" /\ userShutDown THEN "CLOSED" ELSE "ALERTED")
              /\ (o.conn.state = "CLOSED" => "SENT" \in o.shutdown)
           \/ o.ret = "SUCCESS" /\ a.flag = "SEND" /\ ~Final(a)
              /\ o.conn.state = c.preState /\ o.alert.flag = "NO"
    BY <2>2, <2>3, SentAlert
  <2> QED
    BY <1>2, <2>2, <2>4 DEF Resolved, SameAlert, Final
<1> QED
  BY <1>1, <1>2 DEF AlertContexts

-----------------------------------------------------------------------------
(* The control of a connection.                                            *)

DataOK ==
  /\ shutdown \subseteq {"SENT", "RECEIVED"}
  /\ {userShutDown, userRenego, isRenegotiation} \subseteq BOOLEAN
  /\ hsState \in HsStates
  /\ pendingData \in 0 .. MaxWrites /\ writing \in 0 .. MaxWrites
  /\ accepted \subseteq 1 .. MaxWrites
  /\ call = "Write" => writing \notin accepted \cup {0}
  /\ config \in Configs

ControlOK ==
  /\ conn \in ConnRecords
  /\ alertCtx \in AlertContexts /\ alertCtx.warnCount <= MAX_ALERT_COUNT
  /\ call \in Calls \cup {"none"} /\ loop \in Loops
  /\ at \in {"rest", "entry", "run", "alert", "crashed"}

(* A loop runs in the state it is for. *)
LoopInv ==
  /\ at \in {"rest", "entry"} <=> loop = "none"
  /\ loop = "handshaking" => conn.state = "HANDSHAKING" /\ call \in {"Connect", "Read", "Write"}
  /\ loop = "renegotiation" => conn.state = "RENEGOTIATION" /\ call \in {"Connect", "Read", "Write"}
  /\ loop = "inner" => conn.state = "RENEGOTIATION" /\ call = "Read"
  /\ loop = "transporting" => \/ conn.state = "TRANSPORTING" /\ call \in {"Read", "Write"}
                              \/ conn.state = "RENEGOTIATION" /\ call = "Write"
  /\ loop = "closed" => /\ conn.state = "CLOSED" /\ call \in {"Read", "Write", "Close"}
                        /\ call = "Write" => "SENT" \notin shutdown

(* An alert waits only for its loop, or in ALERTING to be sent; a warning    *)
(* that restores a state was sent from one a handshake may be in.  In CLOSED *)
(* a close_notify that is still to be sent finds no other alert.             *)
AlertInv ==
  /\ at = "alert" => alertCtx.flag # "NO"
  /\ at = "run" => alertCtx.flag = "NO"
  /\ at # "alert" /\ conn.state \in OpenStates => alertCtx.flag = "NO"
  /\ at = "alert" /\ alertCtx.flag = "SEND" /\ alertCtx.level # "FATAL" =>
       /\ alertCtx.description # "CLOSE_NOTIFY"
       /\ conn.state \in {"HANDSHAKING", "TRANSPORTING"}
  /\ conn.state = "ALERTING" => alertCtx.flag = "SEND" /\ at \in {"rest", "entry"}
  /\ conn.state = "ALERTING" /\ ~Final(alertCtx) =>
       conn.preState \in {"HANDSHAKING", "TRANSPORTING"}
  /\ conn.state = "CLOSED" /\ at # "alert" => alertCtx.flag = "NO" \/ "SENT" \in shutdown

(* The state the connection is in, or will be in when the alert is sent. *)
Restored == IF conn.state = "ALERTING" /\ ~Final(alertCtx) THEN conn.preState ELSE conn.state

(* The last of the alerts that are counted ends the connection. *)
WarnInv == alertCtx.warnCount = MAX_ALERT_COUNT => Restored \notin OpenStates

(* A renegotiation belongs to the state RENEGOTIATION, or to a connection    *)
(* that is over.                                                             *)
RenegInv ==
  isRenegotiation \/ hsState = "RECV_HELLO_REQUEST" =>
    Restored \notin {"IDLE", "HANDSHAKING", "TRANSPORTING"}

(* A closed connection does not come back, and only the loop of a closed     *)
(* connection runs for it.                                                   *)
ShutInv ==
  userShutDown => \/ at = "entry" /\ call = "Close"
                  \/ Restored \notin OpenStates /\ loop \in {"none", "closed"}

(* The inductive invariant. *)
ConnInv == DataOK /\ ControlOK /\ LoopInv /\ AlertInv /\ WarnInv /\ RenegInv /\ ShutInv

(* It implies the types. *)
LEMMA ConnTyped == ConnInv => TypeOK
<1> SUFFICES ASSUME ConnInv PROVE TypeOK
  OBVIOUS
<1>1. /\ conn \in [state : States, preState : States]
      /\ alertCtx.flag \in {"NO", "SEND", "RECV"} /\ alertCtx.isFlush \in BOOLEAN
      /\ alertCtx.level \in {"NONE", "WARNING", "FATAL"}
      /\ alertCtx.warnCount \in 0 .. MAX_ALERT_COUNT
  BY ConnAssumption DEF ConnInv, ControlOK, ConnRecords, AlertContexts, Levels
<1> QED
  BY <1>1 DEF ConnInv, ControlOK, DataOK, TypeOK

(* A turn that goes on with the loop it is in. *)
LEMMA TurnGoesOn ==
  ASSUME ConnInv, DataOK', at = "run",
         UNCHANGED <<conn, shutdown, userShutDown, at, loop, call>>,
         alertCtx' \in {alertCtx, OtherRecord},
         isRenegotiation' => isRenegotiation \/ conn.state = "RENEGOTIATION",
         hsState' = "RECV_HELLO_REQUEST" => hsState = "RECV_HELLO_REQUEST"
  PROVE  ConnInv'
<1>1. /\ alertCtx' \in AlertContexts /\ alertCtx'.flag = alertCtx.flag
      /\ alertCtx'.level = alertCtx.level /\ alertCtx'.description = alertCtx.description
      /\ alertCtx'.warnCount \in {0, alertCtx.warnCount}
  BY CleanAlert DEF OtherRecord, ConnInv, ControlOK
<1>2. MAX_ALERT_COUNT \in Nat \ {0}
  BY ConnAssumption
<1>3. Restored = conn.state /\ Restored' = conn.state
  BY DEF ConnInv, AlertInv, Restored
<1>4. ControlOK'
  BY <1>1, <1>2 DEF ConnInv, ControlOK
<1>5. LoopInv' /\ AlertInv'
  BY <1>1 DEF ConnInv, LoopInv, AlertInv
<1>6. WarnInv' /\ RenegInv' /\ ShutInv'
  BY <1>1, <1>2, <1>3 DEF ConnInv, WarnInv, RenegInv, ShutInv
<1> QED
  BY <1>4, <1>5, <1>6 DEF ConnInv

(* A call that returns from its loop and leaves no alert behind. *)
LEMMA TurnReturns ==
  ASSUME ConnInv, DataOK', at = "run", NEW r, Return(r),
         UNCHANGED <<conn, userShutDown, isRenegotiation>>,
         alertCtx' \in {alertCtx, OtherRecord},
         hsState' = "RECV_HELLO_REQUEST" => hsState = "RECV_HELLO_REQUEST"
  PROVE  ConnInv'
<1>1. /\ alertCtx' \in AlertContexts /\ alertCtx'.flag = alertCtx.flag
      /\ alertCtx'.level = alertCtx.level /\ alertCtx'.description = alertCtx.description
      /\ alertCtx'.warnCount \in {0, alertCtx.warnCount}
  BY CleanAlert DEF OtherRecord, ConnInv, ControlOK
<1>2. MAX_ALERT_COUNT \in Nat \ {0}
  BY ConnAssumption
<1>3. Restored = conn.state /\ Restored' = conn.state
  BY DEF ConnInv, AlertInv, Restored
<1>4. at' = "rest" /\ loop' = "none" /\ call' \in {call, "none"}
  BY DEF Return
<1>5. ControlOK'
  BY <1>1, <1>2, <1>4 DEF ConnInv, ControlOK, Loops
<1>6. LoopInv' /\ AlertInv'
  BY <1>1, <1>4 DEF ConnInv, LoopInv, AlertInv
<1>7. WarnInv' /\ RenegInv' /\ ShutInv'
  BY <1>1, <1>2, <1>3, <1>4 DEF ConnInv, WarnInv, RenegInv, ShutInv
<1> QED
  BY <1>5, <1>6, <1>7 DEF ConnInv

(* A turn that fails: an alert for the next step, or the return. *)
LEMMA TurnFails ==
  ASSUME ConnInv, DataOK', at = "run", NEW a \in AlertContexts, NEW r, Fails(a, r),
         UNCHANGED <<conn, shutdown, userShutDown, isRenegotiation>>,
         a.warnCount \in {0, alertCtx.warnCount},
         a.flag = "SEND" /\ a.level # "FATAL" =>
           a.description # "CLOSE_NOTIFY" /\ conn.state \in {"HANDSHAKING", "TRANSPORTING"},
         hsState' = "RECV_HELLO_REQUEST" => hsState = "RECV_HELLO_REQUEST"
  PROVE  ConnInv'
<1>1. alertCtx' = a
  BY DEF Fails
<1>2. MAX_ALERT_COUNT \in Nat \ {0}
  BY ConnAssumption
<1>3. Restored = conn.state /\ Restored' = conn.state
  BY DEF ConnInv, AlertInv, Restored
<1>4. \/ at' = "rest" /\ loop' = "none" /\ call' \in {call, "none"} /\ a.flag = "NO"
      \/ at' = "alert" /\ UNCHANGED <<call, loop>> /\ a.flag # "NO"
  BY DEF Fails, Return
<1>5. ControlOK'
  BY <1>1, <1>2, <1>4 DEF ConnInv, ControlOK, Loops
<1>6. LoopInv' /\ AlertInv'
  BY <1>1, <1>4 DEF ConnInv, LoopInv, AlertInv
<1>7. WarnInv' /\ RenegInv' /\ ShutInv'
  BY <1>1, <1>2, <1>3, <1>4 DEF ConnInv, WarnInv, RenegInv, ShutInv
<1> QED
  BY <1>5, <1>6, <1>7 DEF ConnInv

(* The data beside the control. *)
LEMMA DataKept ==
  ASSUME DataOK, UNCHANGED <<pendingData, writing, accepted, config>>,
         shutdown' \subseteq {"SENT", "RECEIVED"},
         userShutDown' \in BOOLEAN, userRenego' \in BOOLEAN, isRenegotiation' \in BOOLEAN,
         hsState' \in HsStates, call' \in {call, "none"}
  PROVE  DataOK'
BY DEF DataOK

(* A call that returns is forgotten or stays. *)
LEMMA CallStays ==
  ASSUME NEW a, NEW r, NEW s, NEW l
  PROVE  /\ Return(r) => call' \in {call, "none"} /\ at' = "rest" /\ loop' = "none"
         /\ Fails(a, r) => call' \in {call, "none"}
         /\ GoOn(s, l) => call' = call /\ at' = s /\ loop' = l
BY DEF Return, Fails, GoOn

(* No message leads to the state that waits for a HelloRequest. *)
LEMMA HandshakeGoesOn ==
  ASSUME NEW s \in HsSendStates \cup HsRecvStates, NEW t \in NextHsStates(s)
  PROVE  t \in HsStates /\ t # "RECV_HELLO_REQUEST" /\ t # "NONE"
BY DEF NextHsStates, HelloAgain, HsStates, HsSendStates, HsRecvStates

(* The alerts a turn may leave behind. *)
LEMMA AlertOfTurn ==
  ASSUME ConnInv, at = "run"
  PROVE  /\ alertCtx \in AlertContexts /\ alertCtx.flag = "NO"
         /\ OtherRecord \in AlertContexts /\ OtherRecord.flag = "NO" /\ OtherRecord.warnCount = 0
         /\ \A d \in Descriptions, l \in {"WARNING", "FATAL"} :
              LET a == ALERT_Send(OtherRecord, l, d) IN
              /\ a \in AlertContexts /\ a.warnCount = 0
              /\ a.flag = "SEND" /\ a.level = l /\ a.description = d
         /\ \A d \in Descriptions :
              LET a == ALERT_Send(alertCtx, "FATAL", d) IN
              /\ a \in AlertContexts /\ a.warnCount = alertCtx.warnCount
              /\ a.flag = "SEND" /\ a.level = "FATAL"
         /\ \A pa \in PeerAlerts :
              LET a == ProcessDecryptedAlert(alertCtx, pa[1], pa[2]) IN
              /\ a \in AlertContexts /\ a.warnCount = alertCtx.warnCount /\ a.flag = "RECV"
<1>1. alertCtx \in AlertContexts /\ alertCtx.flag = "NO"
  BY DEF ConnInv, ControlOK, AlertInv
<1>2. OtherRecord \in AlertContexts /\ OtherRecord.flag = "NO" /\ OtherRecord.warnCount = 0
  BY <1>1, CleanAlert DEF OtherRecord
<1>3. ASSUME NEW d \in Descriptions, NEW l \in {"WARNING", "FATAL"}
      PROVE  LET a == ALERT_Send(OtherRecord, l, d) IN
             /\ a \in AlertContexts /\ a.warnCount = 0
             /\ a.flag = "SEND" /\ a.level = l /\ a.description = d
  BY <1>2, SendAlert
<1>4. ASSUME NEW d \in Descriptions
      PROVE  LET a == ALERT_Send(alertCtx, "FATAL", d) IN
             /\ a \in AlertContexts /\ a.warnCount = alertCtx.warnCount
             /\ a.flag = "SEND" /\ a.level = "FATAL"
  BY <1>1, SendAlert
<1>5. ASSUME NEW pa \in PeerAlerts
      PROVE  LET a == ProcessDecryptedAlert(alertCtx, pa[1], pa[2]) IN
             /\ a \in AlertContexts /\ a.warnCount = alertCtx.warnCount /\ a.flag = "RECV"
  BY <1>1, <1>5, ReceivedAlert
<1> QED
  BY <1>1, <1>2, <1>3, <1>4, <1>5

-----------------------------------------------------------------------------
(* The turns of the loops.                                                  *)

(* The three ways in which the record layer does not deliver. *)
LEMMA NothingDelivered ==
  ASSUME ConnInv, DataOK', at = "run",
         UNCHANGED <<conn, shutdown, userShutDown, isRenegotiation, hsState>>,
         ReceiveNothing \/ ReceiveBadRecord \/ ReceiveAlert
  PROVE  ConnInv'
<1>1. CASE ReceiveNothing
  BY <1>1, AlertOfTurn, TurnFails DEF ReceiveNothing
<1>2. CASE ReceiveBadRecord
  BY <1>2, AlertOfTurn, TurnFails DEF ReceiveBadRecord, Descriptions
<1>3. CASE ReceiveAlert
  <2>1. PICK pa \in PeerAlerts :
          Fails(ProcessDecryptedAlert(alertCtx, pa[1], pa[2]), "UNEXPECT_MSG")
    BY <1>3 DEF ReceiveAlert
  <2> QED
    BY <2>1, AlertOfTurn, TurnFails
<1> QED
  BY <1>1, <1>2, <1>3

LEMMA HsSendInv ==
  ASSUME ConnInv, HsSend
  PROVE  ConnInv'
<1>1. at = "run" /\ hsState \in HsSendStates
  BY DEF HsSend, InHandshake
<1>2. PICK w \in REC_Write(hsCtx, path, Handshake) :
        IF w.ret = "SUCCESS"
        THEN /\ hsState' \in NextHsStates(hsState)
             /\ isRenegotiation' = (isRenegotiation /\ hsState # "SEND_HELLO_REQUEST")
             /\ UNCHANGED <<alertCtx, call, at, loop, ret>>
        ELSE Fails(alertCtx, w.ret) /\ UNCHANGED <<hsState, isRenegotiation>>
  BY DEF HsSend
<1>3. UNCHANGED <<conn, shutdown, userShutDown, userRenego, pendingData, writing, accepted, config>>
  BY DEF HsSend, appVars
<1>4. DataOK
  BY DEF ConnInv
<1>5. CASE w.ret = "SUCCESS"
  <2>1. hsState' \in HsStates /\ hsState' # "RECV_HELLO_REQUEST"
    BY <1>1, <1>2, <1>5, HandshakeGoesOn
  <2>2. isRenegotiation' \in BOOLEAN
    BY <1>2, <1>5
  <2>3. DataOK'
    BY <1>2, <1>3, <1>4, <1>5, <2>1, <2>2, DataKept DEF DataOK
  <2>4. isRenegotiation' => isRenegotiation
    BY <1>2, <1>5
  <2> QED
    BY <1>1, <1>2, <1>3, <1>5, <2>1, <2>3, <2>4, TurnGoesOn
<1>6. CASE w.ret # "SUCCESS"
  <2>1. call' \in {call, "none"}
    BY <1>2, <1>6, CallStays
  <2>2. DataOK'
    BY <1>2, <1>3, <1>4, <1>6, <2>1, DataKept DEF DataOK
  <2> QED
    BY <1>1, <1>2, <1>3, <1>6, <2>2, AlertOfTurn, TurnFails
<1> QED
  BY <1>5, <1>6

LEMMA HsRecvInv ==
  ASSUME ConnInv, HsRecv
  PROVE  ConnInv'
<1>1. /\ at = "run" /\ hsState \in HsRecvStates /\ loop \in HandshakeLoops
      /\ hsState' \in NextHsStates(hsState) /\ alertCtx' = OtherRecord
      /\ isRenegotiation' =
           (\/ isRenegotiation \/ hsState = "RECV_HELLO_REQUEST"
            \/ (~config.isClient /\ hsState = "RECV_HELLO" /\ conn.state = "RENEGOTIATION"))
      /\ UNCHANGED <<conn, shutdown, userShutDown, userRenego, pendingData, writing, accepted,
                     call, at, loop, config>>
  BY DEF HsRecv, HsFlushed, InHandshake, appVars
<1>2. hsState' \in HsStates /\ hsState' # "RECV_HELLO_REQUEST"
  BY <1>1, HandshakeGoesOn
<1>3. isRenegotiation' \in BOOLEAN
  BY <1>1
<1>4. DataOK'
  BY <1>1, <1>2, <1>3, DataKept DEF ConnInv, DataOK
<1>5. conn.state \in {"HANDSHAKING", "RENEGOTIATION"} /\ Restored = conn.state
  BY <1>1 DEF ConnInv, LoopInv, HandshakeLoops, Restored
<1>6. isRenegotiation' => isRenegotiation \/ conn.state = "RENEGOTIATION"
  BY <1>1, <1>5 DEF ConnInv, RenegInv
<1> QED
  BY <1>1, <1>2, <1>4, <1>6, TurnGoesOn

(* The turns in which no message of the handshake is processed. *)
LEMMA HsStaysInv ==
  ASSUME ConnInv, HsFlushFails \/ HsRefuse \/ HsRecvFails \/ HsUnexpectedApp \/ HsAllowedApp
  PROVE  ConnInv'
<1>1. at = "run" /\ loop \in HandshakeLoops
  BY DEF HsFlushFails, HsRefuse, HsRecvFails, HsUnexpectedApp, HsAllowedApp, HsFlushed, InHandshake
<1>2. UNCHANGED <<conn, shutdown, userShutDown, userRenego, isRenegotiation,
                  pendingData, writing, accepted, config>>
  BY DEF HsFlushFails, HsRefuse, HsRecvFails, HsUnexpectedApp, HsAllowedApp, appVars, flags
<1>3. call' \in {call, "none"}
  BY CallStays DEF HsFlushFails, HsRefuse, HsRecvFails, HsUnexpectedApp, HsAllowedApp, Delivered,
                   ReceiveNothing, ReceiveBadRecord, ReceiveAlert
<1>4. hsState' \in {hsState, "CONNECTED", "NONE"}
  BY DEF HsFlushFails, HsRefuse, HsRecvFails, HsUnexpectedApp, HsAllowedApp, ContextAfterApp
<1>5. DataOK'
  BY <1>2, <1>3, <1>4, DataKept DEF ConnInv, DataOK, HsStates
<1>6. CASE HsFlushFails
  <2>1. PICK r : Fails(alertCtx, r)
    BY <1>6 DEF HsFlushFails
  <2> QED
    BY <1>1, <1>2, <1>4, <1>5, <2>1, AlertOfTurn, TurnFails
<1>7. CASE HsRefuse
  <2>1. conn.state = "HANDSHAKING"
    BY <1>7 DEF HsRefuse, IsUnexpectedHandshaking
  <2>2. "NO_RENEGOTIATION" \in Descriptions
    BY DEF Descriptions
  <2> QED
    BY <1>1, <1>2, <1>4, <1>5, <1>7, <2>1, <2>2, AlertOfTurn, TurnFails DEF HsRefuse
<1>8. CASE HsRecvFails
  BY <1>1, <1>2, <1>5, <1>8, NothingDelivered DEF HsRecvFails
<1>9. CASE HsUnexpectedApp
  <2>1. "UNEXPECTED_MESSAGE" \in Descriptions
    BY DEF Descriptions
  <2> QED
    BY <1>1, <1>2, <1>4, <1>5, <1>9, <2>1, AlertOfTurn, TurnFails DEF HsUnexpectedApp
<1>10. CASE HsAllowedApp
  BY <1>1, <1>2, <1>4, <1>5, <1>10, TurnReturns DEF HsAllowedApp, Delivered
<1> QED
  BY <1>6, <1>7, <1>8, <1>9, <1>10

(* The turns that leave the loop of the handshake. *)
LEMMA HsLeavesInv ==
  ASSUME ConnInv, HsWriteMeanwhile \/ HsDone \/ HsNullContext
  PROVE  ConnInv'
<1>1. /\ at = "run" /\ loop \in HandshakeLoops
      /\ UNCHANGED <<shutdown, userShutDown, pendingData, writing, accepted, alertCtx, config>>
  BY DEF HsWriteMeanwhile, HsDone, HsNullContext, HsFlushed, InHandshake, appVars, flags
<1>2. /\ conn \in ConnRecords /\ conn.state \in {"HANDSHAKING", "RENEGOTIATION"}
      /\ alertCtx.flag = "NO" /\ Restored = conn.state
      /\ alertCtx.warnCount # MAX_ALERT_COUNT /\ ~userShutDown
      /\ call \in {"Connect", "Read", "Write"}
      /\ loop = "handshaking" <=> conn.state = "HANDSHAKING"
      /\ loop = "inner" => call = "Read"
  <2>1. conn.state \in {"HANDSHAKING", "RENEGOTIATION"} /\ call \in {"Connect", "Read", "Write"}
        /\ (loop = "handshaking" <=> conn.state = "HANDSHAKING")
        /\ (loop = "inner" => call = "Read")
    BY <1>1 DEF ConnInv, LoopInv, HandshakeLoops
  <2>2. Restored = conn.state /\ conn.state \in OpenStates
    BY <2>1 DEF Restored, OpenStates
  <2> QED
    BY <1>1, <2>1, <2>2 DEF ConnInv, ControlOK, AlertInv, WarnInv, ShutInv, HandshakeLoops
<1>3. CASE HsWriteMeanwhile
  <2>1. /\ loop = "renegotiation" /\ call = "Write"
        /\ at' = "run" /\ loop' = "transporting" /\ call' = call
        /\ UNCHANGED <<conn, userRenego, isRenegotiation, hsState>>
    BY <1>3 DEF HsWriteMeanwhile, GoOn, flags
  <2>2. DataOK'
    BY <1>1, <2>1, DataKept DEF ConnInv, DataOK
  <2>3. Restored' = conn.state
    BY <1>2, <2>1 DEF Restored
  <2>4. ControlOK' /\ LoopInv' /\ AlertInv'
    BY <1>1, <1>2, <2>1 DEF ConnInv, ControlOK, LoopInv, AlertInv, Loops
  <2>5. WarnInv' /\ RenegInv' /\ ShutInv'
    BY <1>1, <1>2, <2>1, <2>3 DEF ConnInv, WarnInv, RenegInv, ShutInv
  <2> QED
    BY <2>2, <2>4, <2>5 DEF ConnInv
<1>4. CASE HsDone
  <2>1. /\ conn' \in ConnRecords /\ conn'.state = "TRANSPORTING"
        /\ hsState' \in {"CONNECTED", "NONE"}
    BY <1>2, <1>4, ChangeState DEF HsDone, States, HsFlushed, InHandshake
  <2>2. \/ at' = "rest" /\ loop' = "none" /\ call' \in {call, "none"}
        \/ at' = "run" /\ loop' = "transporting" /\ call' = call /\ call # "Connect"
    BY <1>4 DEF HsDone, Return, GoOn
  <2>3. /\ ~isRenegotiation'
        /\ (userRenego' = FALSE /\ isRenegotiation' = FALSE)
           \/ UNCHANGED <<userRenego, isRenegotiation>>
    BY <1>2, <1>4 DEF HsDone, RenegotiationDone, ConnInv, RenegInv
  <2>4. DataOK'
    BY <1>1, <2>1, <2>2, <2>3, DataKept DEF ConnInv, DataOK, HsStates
  <2>5. Restored' = "TRANSPORTING"
    BY <2>1 DEF Restored
  <2>6. ControlOK' /\ LoopInv'
    BY <1>1, <1>2, <2>1, <2>2 DEF ConnInv, ControlOK, LoopInv, Loops
  <2>7. AlertInv'
    BY <1>1, <1>2, <2>1, <2>2 DEF ConnInv, AlertInv
  <2>8. WarnInv' /\ RenegInv' /\ ShutInv'
    BY <1>1, <1>2, <2>1, <2>3, <2>5 DEF ConnInv, WarnInv, RenegInv, ShutInv
  <2> QED
    BY <2>4, <2>6, <2>7, <2>8 DEF ConnInv
<1>5. CASE HsNullContext
  <2>1. /\ at' = "crashed" /\ loop' = loop /\ call' = call
        /\ UNCHANGED <<conn, userRenego, isRenegotiation, hsState>>
    BY <1>5 DEF HsNullContext, GoOn, flags
  <2>2. DataOK'
    BY <1>1, <2>1, DataKept DEF ConnInv, DataOK
  <2>3. Restored' = conn.state
    BY <1>2, <2>1 DEF Restored
  <2>4. ControlOK' /\ LoopInv' /\ AlertInv'
    BY <1>1, <1>2, <2>1 DEF ConnInv, ControlOK, LoopInv, AlertInv, Loops, HandshakeLoops
  <2>5. WarnInv' /\ RenegInv' /\ ShutInv'
    BY <1>1, <1>2, <2>1, <2>3 DEF ConnInv, WarnInv, RenegInv, ShutInv
  <2> QED
    BY <2>2, <2>4, <2>5 DEF ConnInv
<1> QED
  BY <1>3, <1>4, <1>5

(* The turns of the read loop, and of the read of a closed connection. *)
LEMMA ReadInv ==
  ASSUME ConnInv,
         ReadData \/ ReadFails \/ ReadHandshakeClosed \/ ReadRefusedHandshake \/ TwoMslTimeout
  PROVE  ConnInv'
<1>1. /\ at = "run"
      /\ UNCHANGED <<conn, shutdown, userShutDown, userRenego, isRenegotiation,
                     pendingData, writing, accepted, config>>
  BY DEF ReadData, ReadFails, ReadHandshakeClosed, ReadRefusedHandshake, TwoMslTimeout, Reading,
         appVars, flags
<1>2. hsState' \in {hsState, "NONE"}
  BY DEF ReadData, ReadFails, ReadHandshakeClosed, ReadRefusedHandshake, TwoMslTimeout, HS_DeInit
<1>3. call' \in {call, "none"}
  BY CallStays DEF ReadData, ReadFails, ReadHandshakeClosed, ReadRefusedHandshake, TwoMslTimeout,
                   Delivered, ReceiveNothing, ReceiveBadRecord, ReceiveAlert
<1>4. DataOK'
  BY <1>1, <1>2, <1>3, DataKept DEF ConnInv, DataOK, HsStates
<1>5. CASE ReadData
  BY <1>1, <1>2, <1>4, <1>5, TurnReturns DEF ReadData, Delivered
<1>6. CASE ReadFails
  BY <1>1, <1>4, <1>6, NothingDelivered DEF ReadFails
<1>7. CASE ReadHandshakeClosed
  BY <1>1, <1>2, <1>4, <1>7, AlertOfTurn, TurnFails DEF ReadHandshakeClosed
<1>8. CASE ReadRefusedHandshake
  <2>1. PICK a \in {ALERT_Send(OtherRecord, "FATAL", "UNEXPECTED_MESSAGE"),
                    ALERT_Send(OtherRecord, "WARNING", "NO_RENEGOTIATION"), OtherRecord} :
          alertCtx' = a /\ GoOn(IF a.flag = "NO" THEN "run" ELSE "alert", loop)
    BY <1>8 DEF ReadRefusedHandshake
  <2>2. {"UNEXPECTED_MESSAGE", "NO_RENEGOTIATION"} \subseteq Descriptions
    BY DEF Descriptions
  <2>3. /\ a \in AlertContexts /\ a.warnCount = 0
        /\ a.flag = "NO" => a = OtherRecord
        /\ a.flag = "SEND" /\ a.level # "FATAL" => a.description = "NO_RENEGOTIATION"
    BY <1>1, <2>2, AlertOfTurn
  <2>4. conn.state = "TRANSPORTING"
    BY <1>1, <1>8 DEF ReadRefusedHandshake, Reading, ConnInv, LoopInv
  <2>5. CASE a.flag = "NO"
    BY <1>1, <1>2, <1>4, <2>1, <2>3, <2>5, TurnGoesOn DEF GoOn
  <2>6. CASE a.flag # "NO"
    <3>1. Fails(a, "NONE")
      BY <2>1, <2>6 DEF Fails, GoOn
    <3> QED
      BY <1>1, <1>2, <1>4, <2>3, <2>4, <3>1, TurnFails
  <2> QED
    BY <2>5, <2>6
<1>9. CASE TwoMslTimeout
  BY <1>1, <1>2, <1>4, <1>9, TurnGoesOn DEF TwoMslTimeout
<1> QED
  BY <1>5, <1>6, <1>7, <1>8, <1>9

(* A message after the handshake that a new one takes over. *)
LEMMA TakeHandshakeInv ==
  ASSUME ConnInv, NEW c \in {"RENEGOTIATION", "HANDSHAKING"},
         NEW s \in {"RECV_HELLO_REQUEST", "RECV_HELLO", "RECV"},
         s = "RECV_HELLO_REQUEST" => c = "RENEGOTIATION",
         TakeHandshake(c, s)
  PROVE  ConnInv'
<1>1. /\ at = "run" /\ loop = "transporting" /\ call # "Write"
      /\ UNCHANGED <<shutdown, userShutDown, userRenego, isRenegotiation,
                     pendingData, writing, accepted, config>>
      /\ alertCtx' = OtherRecord /\ hsState' = s
      /\ at' = "run" /\ loop' = (IF c = "RENEGOTIATION" THEN "inner" ELSE "handshaking")
      /\ call' = call
  BY DEF TakeHandshake, Reading, GoOn, appVars, flags
<1>2. conn \in ConnRecords /\ conn.state = "TRANSPORTING" /\ call = "Read"
      /\ Restored = "TRANSPORTING"
  BY <1>1 DEF ConnInv, ControlOK, LoopInv, Restored
<1>3. ~isRenegotiation /\ ~userShutDown
  BY <1>1, <1>2 DEF ConnInv, RenegInv, ShutInv, OpenStates
<1>4. conn' \in ConnRecords /\ conn'.state = c
  BY <1>2, ChangeState DEF TakeHandshake, States
<1>5. alertCtx' \in AlertContexts /\ alertCtx'.flag = "NO" /\ alertCtx'.warnCount = 0
  BY <1>1, AlertOfTurn
<1>6. Restored' = c
  BY <1>4 DEF Restored
<1>7. DataOK'
  BY <1>1, DataKept DEF ConnInv, DataOK, HsStates, HsRecvStates
<1>8. ControlOK' /\ LoopInv' /\ AlertInv'
  BY <1>1, <1>2, <1>4, <1>5, ConnAssumption
     DEF ConnInv, ControlOK, LoopInv, AlertInv, Loops, HandshakeLoops
<1>9. WarnInv' /\ RenegInv' /\ ShutInv'
  BY <1>1, <1>3, <1>5, <1>6, ConnAssumption DEF ConnInv, WarnInv, RenegInv, ShutInv
<1> QED
  BY <1>7, <1>8, <1>9 DEF ConnInv

(* The turns of a write. *)
LEMMA WriteInv ==
  ASSUME ConnInv, WriteBadRetry \/ WriteData
  PROVE  ConnInv'
<1>1. /\ at = "run" /\ call = "Write"
      /\ UNCHANGED <<conn, shutdown, userShutDown, userRenego, isRenegotiation, hsState, writing,
                     config>>
  BY DEF WriteBadRetry, WriteData, appVars, flags
<1>2. writing \in 1 .. MaxWrites
  BY <1>1, ConnAssumption DEF ConnInv, DataOK
<1>3. call' \in {call, "none"}
  BY CallStays DEF WriteBadRetry, WriteData
<1>4. /\ pendingData' \in {pendingData, 0, writing}
      /\ accepted' = accepted \/ (accepted' = accepted \cup {writing} /\ call' = "none")
  <2>1. CASE WriteBadRetry
    BY <2>1 DEF WriteBadRetry, appVars
  <2>2. CASE WriteData
    <3>1. PICK w : /\ pendingData' = PendingAfter(w.ret)
                   /\ \/ accepted' = accepted \cup {writing} /\ Return("SUCCESS")
                      \/ accepted' = accepted
      BY <2>2 DEF WriteData
    <3>2. PendingAfter(w.ret) \in {0, writing}
      BY DEF PendingAfter
    <3> QED
      BY <3>1, <3>2 DEF Return, Refusals
  <2> QED
    BY <2>1, <2>2
<1>5. DataOK'
  <2>1. pendingData' \in 0 .. MaxWrites /\ writing' \in 0 .. MaxWrites
    BY <1>1, <1>2, <1>4, ConnAssumption DEF ConnInv, DataOK
  <2>2. accepted' \subseteq 1 .. MaxWrites
    BY <1>2, <1>4 DEF ConnInv, DataOK
  <2>3. call' = "Write" => writing' \notin accepted' \cup {0}
    BY <1>1, <1>3, <1>4 DEF ConnInv, DataOK
  <2> QED
    BY <1>1, <2>1, <2>2, <2>3 DEF ConnInv, DataOK
<1>6. CASE WriteBadRetry
  <2>1. "INTERNAL_ERROR" \in Descriptions
    BY DEF Descriptions
  <2> QED
    BY <1>1, <1>5, <1>6, <2>1, AlertOfTurn, TurnFails DEF WriteBadRetry
<1>7. CASE WriteData
  <2>1. \E r : \/ Return(r) /\ UNCHANGED alertCtx
               \/ Fails(alertCtx, r)
    BY <1>7 DEF WriteData
  <2> QED
    BY <1>1, <1>5, <2>1, AlertOfTurn, TurnReturns, TurnFails
<1> QED
  BY <1>6, <1>7

-----------------------------------------------------------------------------
(* The alert that a turn left behind.                                       *)

(* A loop counts the alert, and makes a fatal one of the last it counts. *)
LEMMA AlertIsCounted ==
  ASSUME ConnInv, at = "alert"
  PROVE  LET p == AlertToProcess IN
         /\ p \in AlertContexts /\ p.flag # "NO" /\ p.warnCount <= MAX_ALERT_COUNT
         /\ p.warnCount = MAX_ALERT_COUNT => Final(p) \/ conn.state \notin OpenStates
         /\ p.flag = "SEND" /\ ~Final(p) => conn.state \in {"HANDSHAKING", "TRANSPORTING"}
<1> DEFINE inner == InnerRenegotiationProcess(alertCtx)
<1>1. /\ alertCtx \in AlertContexts /\ alertCtx.flag # "NO"
      /\ alertCtx.warnCount <= MAX_ALERT_COUNT /\ conn.state # "ALERTING"
      /\ loop \in Loops \ {"none"}
      /\ alertCtx.flag = "SEND" /\ alertCtx.level # "FATAL" =>
           conn.state \in {"HANDSHAKING", "TRANSPORTING"}
  BY DEF ConnInv, ControlOK, AlertInv, LoopInv
<1>2. MAX_ALERT_COUNT \in Nat \ {0} /\ alertCtx.warnCount \in Nat
  BY <1>1, ConnAssumption DEF AlertContexts
<1>3. alertCtx.warnCount = MAX_ALERT_COUNT => conn.state \notin OpenStates
  BY <1>1 DEF ConnInv, WarnInv, Restored
<1>4. CASE loop = "closed"
  BY <1>1, <1>3, <1>4 DEF AlertToProcess, Final
<1>5. CASE loop # "closed"
  <2>1. conn.state \in OpenStates
    BY <1>1, <1>5 DEF ConnInv, LoopInv, Loops, HandshakeLoops, OpenStates
  <2>2. /\ inner \in AlertContexts /\ inner.flag # "NO"
        /\ inner.warnCount = alertCtx.warnCount
        /\ inner = alertCtx \/ Final(inner)
           \/ (inner.flag = "SEND" /\ inner.level = "FATAL")
    <3>1. "HANDSHAKE_FAILURE" \in Descriptions
      BY DEF Descriptions
    <3>2. LET b == ALERT_Send(alertCtx, "FATAL", "HANDSHAKE_FAILURE") IN
          /\ b \in AlertContexts /\ b.warnCount = alertCtx.warnCount
          /\ b.flag # "NO"
          /\ \/ b = alertCtx
             \/ b.flag = "SEND" /\ b.level = "FATAL"
      BY <1>1, <3>1, SendAlert
    <3> QED
      BY <1>1, <3>2 DEF InnerRenegotiationProcess
  <2>3. ASSUME NEW a \in AlertContexts, a.flag # "NO", a.warnCount = alertCtx.warnCount,
               a = alertCtx \/ Final(a)
        PROVE  LET p == Counted(a) IN
               /\ p \in AlertContexts /\ p.flag # "NO" /\ p.warnCount <= MAX_ALERT_COUNT
               /\ p.warnCount = MAX_ALERT_COUNT => Final(p)
               /\ p.flag = "SEND" /\ ~Final(p) =>
                    conn.state \in {"HANDSHAKING", "TRANSPORTING"}
    <3> DEFINE b == [a EXCEPT !.warnCount = @ + 1]
               c == ALERT_Send(b, "FATAL", "UNEXPECTED_MESSAGE")
    <3>1. /\ b \in AlertContexts /\ b.flag = a.flag /\ b.level = a.level
          /\ b.description = a.description /\ b.warnCount = a.warnCount + 1
      BY <2>3 DEF AlertContexts
    <3>2. a.warnCount \in Nat /\ a.warnCount < MAX_ALERT_COUNT
      BY <1>1, <1>2, <1>3, <2>1, <2>3
    <3>3. Final(b) <=> Final(a)
      BY <3>1 DEF Final
    <3> HIDE DEF b
    <3>4. /\ c \in AlertContexts /\ c.warnCount = b.warnCount
          /\ \/ c = b /\ b.flag # "NO" /\ Final(b)
             \/ c.flag = "SEND" /\ c.level = "FATAL"
      BY <3>1, SendAlert DEF Descriptions
    <3>5. c.flag # "NO" /\ Final(c)
      BY <3>4 DEF Final
    <3> HIDE DEF c
    <3>6. Counted(a) = IF a.warnCount + 1 >= MAX_ALERT_COUNT THEN c ELSE b
      BY DEF Counted, ALERT_HaveExceeded, b, c
    <3>7. CASE a.warnCount + 1 >= MAX_ALERT_COUNT
      BY <1>2, <3>1, <3>2, <3>4, <3>5, <3>6, <3>7
    <3>8. CASE ~(a.warnCount + 1 >= MAX_ALERT_COUNT)
      <4>1. Counted(a) = b /\ b.warnCount < MAX_ALERT_COUNT
        BY <1>2, <3>1, <3>2, <3>6, <3>8
      <4>2. b.flag = "SEND" /\ ~Final(b) => conn.state \in {"HANDSHAKING", "TRANSPORTING"}
        BY <1>1, <2>3, <3>1, <3>3 DEF Final
      <4> QED
        BY <1>2, <2>3, <3>1, <4>1, <4>2
    <3> QED
      BY <3>7, <3>8
  <2>4. inner = alertCtx \/ Final(inner)
    BY <2>2 DEF Final
  <2> HIDE DEF inner
  <2>5. AlertToProcess \in {Counted(inner), Counted(alertCtx)}
    BY <1>5 DEF AlertToProcess, inner
  <2> QED
    BY <1>1, <2>2, <2>3, <2>4, <2>5
<1> QED
  BY <1>4, <1>5

LEMMA ProcessAlertInv ==
  ASSUME ConnInv, ProcessAlert
  PROVE  ConnInv'
<1>1. PICK p : p = AlertToProcess
  OBVIOUS
<1>2. PICK o \in AlertEventProcess(p) :
        /\ Apply(o)
        /\ IF GivesUp(o)
           THEN Return(IF o.ret = "SUCCESS" THEN "ERROR"
                       ELSE IF call = "Close" /\ o.ret = "LINK_CLOSED" THEN "SUCCESS"
                       ELSE o.ret)
           ELSE GoOn("run", loop)
  BY <1>1 DEF ProcessAlert
<1>3. /\ at = "alert" /\ loop # "none"
      /\ UNCHANGED <<userShutDown, userRenego, isRenegotiation, hsState,
                     pendingData, writing, accepted, config>>
  BY DEF ProcessAlert, ConnInv, LoopInv, flags, appVars
<1>4. /\ p \in AlertContexts /\ p.flag # "NO" /\ p.warnCount <= MAX_ALERT_COUNT
      /\ p.warnCount = MAX_ALERT_COUNT => Final(p) \/ conn.state \notin OpenStates
      /\ p.flag = "SEND" /\ ~Final(p) => conn.state \in {"HANDSHAKING", "TRANSPORTING"}
  BY <1>1, <1>3, AlertIsCounted
<1>5. conn.state # "ALERTING" /\ Restored = conn.state
  BY <1>3 DEF ConnInv, AlertInv, Restored
<1>6. Resolved(p, o)
  BY <1>2, <1>4, <1>5, AlertProcessed DEF ConnInv, ControlOK, DataOK
<1>7. conn' = o.conn /\ shutdown' = o.shutdown /\ alertCtx' = o.alert
  BY <1>2 DEF Apply
<1>8. \/ at' = "rest" /\ loop' = "none" /\ call' \in {call, "none"} /\ GivesUp(o)
      \/ at' = "run" /\ loop' = loop /\ call' = call /\ ~GivesUp(o)
  BY <1>2 DEF Return, GoOn
<1>9. DataOK'
  <2>1. shutdown' \subseteq {"SENT", "RECEIVED"}
    BY <1>6, <1>7 DEF Resolved
  <2> QED
    BY <1>3, <1>8, <2>1, DataKept DEF ConnInv, DataOK
<1>10. ControlOK'
  BY <1>4, <1>6, <1>7, <1>8 DEF ConnInv, ControlOK, Resolved, Loops
<1>11. userShutDown => loop = "closed" /\ conn.state \notin OpenStates
  BY <1>3, <1>5 DEF ConnInv, ShutInv
(* The four outcomes. *)
<1>12. CASE /\ o.ret = "SUCCESS" /\ ~Final(p)
            /\ o.conn.state = conn.state /\ o.alert.flag = "NO"
  <2>1. conn'.state = conn.state /\ alertCtx'.flag = "NO" /\ alertCtx'.warnCount = p.warnCount
    BY <1>6, <1>7, <1>12 DEF Resolved
  <2>2. Restored' = conn.state
    BY <1>5, <2>1 DEF Restored
  <2>3. LoopInv' /\ AlertInv'
    BY <1>3, <1>5, <1>8, <2>1 DEF ConnInv, LoopInv, AlertInv, GivesUp
  <2>4. WarnInv' /\ RenegInv' /\ ShutInv'
    BY <1>3, <1>4, <1>5, <1>8, <1>11, <1>12, <2>1, <2>2 DEF ConnInv, WarnInv, RenegInv, ShutInv
  <2> QED
    BY <1>9, <1>10, <2>3, <2>4 DEF ConnInv
<1>13. CASE /\ o.ret # "SUCCESS" /\ ~Final(p) /\ p.flag = "SEND"
            /\ o.conn.state = "ALERTING" /\ o.conn.preState = conn.state
            /\ SameAlert(p, o.alert)
  <2>1. /\ conn'.state = "ALERTING" /\ conn'.preState = conn.state
        /\ conn.state \in {"HANDSHAKING", "TRANSPORTING"}
        /\ alertCtx'.flag = "SEND" /\ ~Final(alertCtx') /\ alertCtx'.warnCount = p.warnCount
    BY <1>4, <1>7, <1>13 DEF SameAlert, Final
  <2>2. at' = "rest" /\ loop' = "none"
    BY <1>8, <1>13 DEF GivesUp
  <2>3. Restored' = conn.state
    BY <2>1 DEF Restored, Final
  <2>4. LoopInv' /\ AlertInv'
    BY <2>1, <2>2 DEF LoopInv, AlertInv, OpenStates
  <2>5. WarnInv' /\ RenegInv' /\ ShutInv'
    BY <1>3, <1>4, <1>5, <1>11, <1>13, <2>1, <2>2, <2>3 DEF ConnInv, WarnInv, RenegInv, ShutInv
  <2> QED
    BY <1>9, <1>10, <2>4, <2>5 DEF ConnInv
<1>14. CASE /\ o.ret # "SUCCESS" /\ Final(p)
            /\ o.conn.state = "ALERTING" /\ o.alert.flag = "SEND" /\ Final(o.alert)
  <2>1. conn'.state = "ALERTING" /\ alertCtx'.flag = "SEND" /\ Final(alertCtx')
    BY <1>7, <1>14 DEF Final
  <2>2. at' = "rest" /\ loop' = "none"
    BY <1>8, <1>14 DEF GivesUp
  <2>3. Restored' = "ALERTING"
    BY <2>1 DEF Restored, Final
  <2>4. LoopInv' /\ AlertInv'
    BY <2>1, <2>2 DEF LoopInv, AlertInv, OpenStates, Final
  <2>5. WarnInv' /\ RenegInv' /\ ShutInv'
    BY <2>2, <2>3 DEF WarnInv, RenegInv, ShutInv, OpenStates
  <2> QED
    BY <1>9, <1>10, <2>4, <2>5 DEF ConnInv
<1>15. CASE /\ o.conn.state \in {"ALERTED", "CLOSED"}
            /\ o.ret = "SUCCESS" /\ ~userShutDown => o.conn.state = "ALERTED"
            /\ o.conn.state = "CLOSED" => o.alert.flag = "NO" \/ "SENT" \in o.shutdown
  <2>1. /\ conn'.state \in {"ALERTED", "CLOSED"}
        /\ conn'.state = "CLOSED" => alertCtx'.flag = "NO" \/ "SENT" \in shutdown'
    BY <1>7, <1>15
  <2>2. at' = "rest" /\ loop' = "none"
    BY <1>8, <1>11, <1>15 DEF GivesUp
  <2>3. Restored' = conn'.state
    BY <2>1 DEF Restored
  <2>4. LoopInv' /\ AlertInv'
    BY <2>1, <2>2 DEF LoopInv, AlertInv, OpenStates
  <2>5. WarnInv' /\ RenegInv' /\ ShutInv'
    BY <2>1, <2>2, <2>3 DEF WarnInv, RenegInv, ShutInv, OpenStates
  <2> QED
    BY <1>9, <1>10, <2>4, <2>5 DEF ConnInv
<1> QED
  BY <1>6, <1>12, <1>13, <1>14, <1>15 DEF Resolved

-----------------------------------------------------------------------------
(* The calls of the application.                                            *)

(* A call may begin, or prepare the next handshake, between two others. *)
LEMMA CallInv ==
  ASSUME ConnInv, NEW c \in Calls, Call(c)
  PROVE  ConnInv'
<1>1. /\ at = "rest" /\ loop = "none" /\ at' = "entry" /\ call' = c
      /\ userShutDown' = (userShutDown \/ c = "Close")
      /\ UNCHANGED <<conn, shutdown, userRenego, isRenegotiation, hsState, pendingData, accepted,
                     alertCtx, loop, config>>
  BY DEF Call, MayCall, ConnInv, LoopInv
<1>2. /\ writing' \in 0 .. MaxWrites
      /\ c = "Write" => writing' \notin accepted \cup {0}
  <2>1. CASE c = "Write"
    <3>1. writing' \in Buffers
      BY <2>1 DEF Call
    <3>2. \/ writing' = writing /\ writing \notin accepted \cup {0}
          \/ writing' \in (1 .. MaxWrites) \ accepted
      BY <3>1 DEF Buffers, Refusal
    <3> QED
      BY <3>2, ConnAssumption DEF ConnInv, DataOK
  <2>2. CASE c # "Write"
    BY <2>2 DEF Call, ConnInv, DataOK
  <2> QED
    BY <2>1, <2>2
<1>3. userShutDown' \in BOOLEAN
  BY <1>1
<1>4. DataOK'
  BY <1>1, <1>2, <1>3 DEF ConnInv, DataOK
<1>5. Restored' = Restored
  BY <1>1 DEF Restored
<1>6. ControlOK' /\ LoopInv'
  BY <1>1 DEF ConnInv, ControlOK, LoopInv
<1>7. AlertInv'
  BY <1>1 DEF ConnInv, AlertInv
<1>8. WarnInv' /\ RenegInv' /\ ShutInv'
  BY <1>1, <1>5 DEF ConnInv, WarnInv, RenegInv, ShutInv
<1> QED
  BY <1>4, <1>6, <1>7, <1>8 DEF ConnInv

LEMMA PrepareInv ==
  ASSUME ConnInv, HITLS_Renegotiate \/ HITLS_KeyUpdate
  PROVE  ConnInv'
<1>1. /\ at = "rest" /\ loop = "none" /\ conn.state \in {"TRANSPORTING", "RENEGOTIATION"}
      /\ UNCHANGED <<shutdown, userShutDown, pendingData, writing, accepted, alertCtx,
                     call, at, loop, config>>
  BY DEF HITLS_Renegotiate, HITLS_KeyUpdate, MayCall, ConnInv, LoopInv, appVars, flags
<1>2. Restored = conn.state
  BY <1>1 DEF Restored
<1>3. /\ conn \in ConnRecords /\ alertCtx.flag = "NO" /\ ~userShutDown
      /\ alertCtx.warnCount # MAX_ALERT_COUNT
      /\ conn.state = "TRANSPORTING" => ~isRenegotiation
  BY <1>1, <1>2 DEF ConnInv, ControlOK, AlertInv, WarnInv, RenegInv, ShutInv, OpenStates
<1>4. /\ conn' \in ConnRecords
      /\ \/ conn'.state = "RENEGOTIATION"
         \/ conn'.state = "HANDSHAKING" /\ ~isRenegotiation'
      /\ userRenego' \in {userRenego, TRUE} /\ isRenegotiation' \in {isRenegotiation, TRUE}
      /\ hsState' \in {"SEND_HELLO", "SEND_HELLO_REQUEST", "RECV_HELLO", "SEND"}
  <2>1. CASE HITLS_Renegotiate
    BY <1>3, <2>1, ChangeState DEF HITLS_Renegotiate, FirstHsState, States
  <2>2. CASE HITLS_KeyUpdate
    BY <1>3, <2>2, ChangeState DEF HITLS_KeyUpdate, flags, States
  <2> QED
    BY <2>1, <2>2
<1>5. DataOK'
  BY <1>1, <1>4, DataKept DEF ConnInv, DataOK, HsStates, HsSendStates, HsRecvStates
<1>6. Restored' = conn'.state
  BY <1>4 DEF Restored
<1>7. ControlOK' /\ LoopInv' /\ AlertInv'
  BY <1>1, <1>3, <1>4 DEF ConnInv, ControlOK, LoopInv, AlertInv
<1>8. WarnInv' /\ RenegInv' /\ ShutInv'
  BY <1>1, <1>3, <1>4, <1>6 DEF WarnInv, RenegInv, ShutInv
<1> QED
  BY <1>5, <1>7, <1>8 DEF ConnInv

(* A call that sends the alert that is still there first. *)
LEMMA UnsentAlertInv ==
  ASSUME ConnInv, UnsentAlert
  PROVE  ConnInv'
<1>1. /\ at = "entry" /\ loop = "none" /\ conn.state = "ALERTING" /\ call # "Close"
      /\ UNCHANGED <<userShutDown, userRenego, isRenegotiation, hsState,
                     pendingData, writing, accepted, config>>
  BY DEF UnsentAlert, Entering, ConnInv, LoopInv, flags, appVars
<1>2. PICK o \in CommonEventInAlertingState(conn, alertCtx) :
        Apply(o) /\ IF o.ret = "SUCCESS" THEN GoOn("entry", "none") ELSE Return(o.ret)
  BY DEF UnsentAlert
<1>3. /\ conn \in ConnRecords /\ alertCtx \in AlertContexts
      /\ alertCtx.warnCount <= MAX_ALERT_COUNT /\ alertCtx.flag = "SEND"
      /\ shutdown \subseteq {"SENT", "RECEIVED"}
      /\ ~Final(alertCtx) => conn.preState \in {"HANDSHAKING", "TRANSPORTING"}
  BY <1>1 DEF ConnInv, ControlOK, DataOK, AlertInv
<1>4. /\ o.conn \in ConnRecords /\ o.shutdown \subseteq {"SENT", "RECEIVED"}
      /\ o.alert \in AlertContexts /\ o.alert.warnCount = alertCtx.warnCount
      /\ \/ o.ret # "SUCCESS" /\ o.conn = conn /\ SameAlert(alertCtx, o.alert)
         \/ o.ret = "SUCCESS" /\ Final(alertCtx)
            /\ o.conn.state \in {"ALERTED", "CLOSED"}
            /\ (o.conn.state = "CLOSED" => "SENT" \in o.shutdown)
         \/ o.ret = "SUCCESS" /\ ~Final(alertCtx)
            /\ o.conn.state = conn.preState /\ o.alert.flag = "NO"
  BY <1>1, <1>3, SentAlert
<1>5. conn' = o.conn /\ shutdown' = o.shutdown /\ alertCtx' = o.alert
  BY <1>2 DEF Apply
<1>6. at' \in {"rest", "entry"} /\ loop' = "none" /\ call' \in {call, "none"}
  BY <1>2 DEF GoOn, Return
<1>7. DataOK'
  BY <1>1, <1>4, <1>5, <1>6, DataKept DEF ConnInv, DataOK
<1>8. ControlOK' /\ LoopInv'
  BY <1>3, <1>4, <1>5, <1>6 DEF ConnInv, ControlOK, LoopInv, Loops
<1>9. userShutDown => Restored \notin OpenStates
  BY <1>1 DEF ConnInv, ShutInv
<1>10. CASE o.ret = "SUCCESS" /\ Final(alertCtx)
  <2>1. /\ conn'.state \in {"ALERTED", "CLOSED"} /\ Restored' \in {"ALERTED", "CLOSED"}
        /\ conn'.state = "CLOSED" => "SENT" \in shutdown'
    BY <1>4, <1>5, <1>10 DEF Restored
  <2>2. AlertInv'
    BY <1>6, <2>1 DEF AlertInv, OpenStates
  <2>3. WarnInv' /\ RenegInv' /\ ShutInv'
    BY <1>6, <2>1 DEF WarnInv, RenegInv, ShutInv, OpenStates
  <2> QED
    BY <1>7, <1>8, <2>2, <2>3 DEF ConnInv
<1>11. CASE o.ret # "SUCCESS" \/ ~Final(alertCtx)
  <2>1. /\ AlertInv' /\ Restored' = Restored
    <3>1. CASE o.ret # "SUCCESS"
      BY <1>1, <1>3, <1>4, <1>5, <1>6, <3>1 DEF SameAlert, AlertInv, Restored, Final, OpenStates
    <3>2. CASE o.ret = "SUCCESS" /\ ~Final(alertCtx)
      BY <1>1, <1>3, <1>4, <1>5, <1>6, <3>2 DEF AlertInv, Restored
    <3> QED
      BY <1>11, <3>1, <3>2
  <2>2. WarnInv' /\ RenegInv' /\ ShutInv'
    BY <1>1, <1>4, <1>5, <1>6, <1>9, <2>1 DEF ConnInv, WarnInv, RenegInv, ShutInv
  <2> QED
    BY <1>7, <1>8, <2>1, <2>2 DEF ConnInv
<1> QED
  BY <1>10, <1>11

(* A call that enters a loop, or has nothing to do. *)
LEMMA EnterInv ==
  ASSUME ConnInv, ConnectIdle \/ EnterLoop \/ EnterClosed \/ NothingToDo \/ CloseAgain
  PROVE  ConnInv'
<1>1. /\ at = "entry" /\ loop = "none"
      /\ UNCHANGED <<shutdown, userShutDown, userRenego, isRenegotiation,
                     pendingData, writing, accepted, config>>
  BY DEF ConnectIdle, EnterLoop, EnterClosed, NothingToDo, CloseAgain, Entering, ConnInv, LoopInv,
         flags, appVars
<1>2. /\ conn \in ConnRecords /\ alertCtx \in AlertContexts
      /\ alertCtx.warnCount <= MAX_ALERT_COUNT
      /\ conn.state \in OpenStates => alertCtx.flag = "NO" /\ alertCtx.warnCount # MAX_ALERT_COUNT
      /\ conn.state # "ALERTING" => Restored = conn.state
      /\ userShutDown => call = "Close" \/ Restored \notin OpenStates
  BY <1>1 DEF ConnInv, ControlOK, AlertInv, WarnInv, ShutInv, Restored, OpenStates
<1>3. CASE ConnectIdle
  <2>1. /\ conn.state = "IDLE" /\ call = "Connect"
        /\ conn' \in ConnRecords /\ conn'.state = "HANDSHAKING"
        /\ hsState' \in {"SEND_HELLO", "SEND_HELLO_REQUEST", "RECV_HELLO"}
        /\ at' = "run" /\ loop' = "handshaking" /\ call' = call /\ alertCtx' = alertCtx
    BY <1>2, <1>3, ChangeState DEF ConnectIdle, Entering, FirstHsState, GoOn, States
  <2>2. DataOK'
    BY <1>1, <2>1, DataKept DEF ConnInv, DataOK, HsStates, HsSendStates, HsRecvStates
  <2>3. ControlOK' /\ LoopInv' /\ AlertInv'
    BY <1>2, <2>1 DEF ConnInv, ControlOK, LoopInv, AlertInv, Loops, HandshakeLoops, OpenStates
  <2>4. Restored' = "HANDSHAKING"
    BY <2>1 DEF Restored
  <2>5. WarnInv' /\ RenegInv' /\ ShutInv'
    BY <1>1, <1>2, <2>1, <2>4 DEF ConnInv, WarnInv, RenegInv, ShutInv, OpenStates
  <2> QED
    BY <2>2, <2>3, <2>5 DEF ConnInv
<1>4. CASE EnterLoop
  <2>1. /\ conn.state \in {"HANDSHAKING", "TRANSPORTING", "RENEGOTIATION"}
        /\ call \in {"Connect", "Read", "Write"}
        /\ at' = "run" /\ call' = call
        /\ \/ conn.state = "HANDSHAKING" /\ loop' = "handshaking"
           \/ conn.state = "TRANSPORTING" /\ loop' = "transporting" /\ call # "Connect"
           \/ conn.state = "RENEGOTIATION" /\ loop' = "renegotiation"
           \/ conn.state = "RENEGOTIATION" /\ loop' = "transporting" /\ call = "Write"
        /\ UNCHANGED <<conn, alertCtx, hsState>>
    BY <1>4 DEF EnterLoop, Entering, GoOn
  <2>2. DataOK'
    BY <1>1, <2>1, DataKept DEF ConnInv, DataOK
  <2>3. ControlOK' /\ LoopInv'
    BY <2>1 DEF ConnInv, ControlOK, LoopInv, Loops, HandshakeLoops
  <2>4. AlertInv'
    BY <1>2, <2>1 DEF ConnInv, AlertInv, OpenStates
  <2>5. Restored' = conn.state
    BY <2>1 DEF Restored
  <2>6. WarnInv' /\ RenegInv' /\ ShutInv'
    BY <1>1, <1>2, <2>1, <2>5 DEF ConnInv, WarnInv, RenegInv, ShutInv, OpenStates
  <2> QED
    BY <2>2, <2>3, <2>4, <2>6 DEF ConnInv
<1>5. CASE EnterClosed \/ CloseAgain
  <2>1. /\ conn.state = "CLOSED" /\ call \in {"Read", "Write", "Close"}
        /\ at' = "run" /\ loop' = "closed" /\ call' = call
        /\ alertCtx' = ALERT_CleanInfo(alertCtx) /\ UNCHANGED <<conn, hsState>>
    BY <1>5 DEF EnterClosed, CloseAgain, Entering, GoOn, flags
  <2>2. call = "Write" => "SENT" \notin shutdown
    BY <1>5 DEF EnterClosed, HalfOpen, CloseAgain, Entering
  <2>3. DataOK'
    BY <1>1, <2>1, DataKept DEF ConnInv, DataOK
  <2>4. /\ alertCtx' \in AlertContexts /\ alertCtx'.flag = "NO"
        /\ alertCtx'.warnCount = alertCtx.warnCount
    BY <1>2, <2>1, CleanAlert
  <2>5. ControlOK' /\ LoopInv' /\ AlertInv'
    BY <1>1, <1>2, <2>1, <2>4, <2>2 DEF ConnInv, ControlOK, LoopInv, AlertInv, Loops, OpenStates
  <2>6. Restored' = "CLOSED"
    BY <2>1 DEF Restored
  <2>7. WarnInv' /\ RenegInv' /\ ShutInv'
    BY <2>1, <2>6 DEF WarnInv, RenegInv, ShutInv, OpenStates
  <2> QED
    BY <2>3, <2>5, <2>7 DEF ConnInv
<1>6. CASE NothingToDo
  <2>1. /\ at' = "rest" /\ loop' = "none" /\ call' \in {call, "none"} /\ call # "Close"
        /\ UNCHANGED <<conn, alertCtx, hsState>>
    BY <1>6 DEF NothingToDo, Entering, Return
  <2>2. DataOK'
    BY <1>1, <2>1, DataKept DEF ConnInv, DataOK
  <2>3. ControlOK' /\ LoopInv'
    BY <2>1 DEF ConnInv, ControlOK, LoopInv, Loops
  <2>4. AlertInv'
    BY <1>1, <2>1 DEF ConnInv, AlertInv
  <2>5. Restored' = Restored
    BY <2>1 DEF Restored
  <2>6. WarnInv' /\ RenegInv' /\ ShutInv'
    BY <1>1, <1>2, <2>1, <2>5 DEF ConnInv, WarnInv, RenegInv, ShutInv
  <2> QED
    BY <2>2, <2>3, <2>4, <2>6 DEF ConnInv
<1> QED
  BY <1>3, <1>4, <1>5, <1>6

(* The close of an open connection, of one that is over or told to be over.  *)
LEMMA CloseInv ==
  ASSUME ConnInv, CloseAtOnce \/ CloseOpen
  PROVE  ConnInv'
<1>1. /\ at = "entry" /\ call = "Close" /\ at' = "rest" /\ loop' = "none"
      /\ call' \in {call, "none"}
      /\ UNCHANGED <<userShutDown, userRenego, isRenegotiation, hsState,
                     pendingData, writing, accepted, config>>
  BY DEF CloseAtOnce, CloseOpen, Entering, Return, flags, appVars
<1>2. /\ conn \in ConnRecords /\ alertCtx \in AlertContexts
      /\ alertCtx.warnCount <= MAX_ALERT_COUNT /\ shutdown \subseteq {"SENT", "RECEIVED"}
  BY DEF ConnInv, ControlOK, DataOK
<1>3. /\ conn' \in ConnRecords /\ shutdown' \subseteq {"SENT", "RECEIVED"}
      /\ alertCtx' \in AlertContexts /\ alertCtx'.warnCount = alertCtx.warnCount
      /\ \/ conn'.state = "CLOSED" /\ "SENT" \in shutdown'
         \/ conn'.state = "ALERTED"
         \/ conn'.state = "ALERTING" /\ alertCtx'.flag = "SEND" /\ Final(alertCtx')
  <2>1. CASE CloseAtOnce
    BY <1>2, <2>1, ChangeState DEF CloseAtOnce, States
  <2>2. CASE CloseOpen
    <3> DEFINE s == IF "SENT" \in shutdown THEN {Flushed(path, alertCtx, "SUCCESS")}
                    ELSE ALERT_Flush(ALERT_Send(alertCtx, "WARNING", "CLOSE_NOTIFY"))
               both == IF conn.state \in {"HANDSHAKING", "RENEGOTIATION"} THEN {"RECEIVED"} ELSE {}
    <3>1. PICK f \in s :
            /\ alertCtx' = f.alert
            /\ IF f.ret = "SUCCESS"
               THEN /\ shutdown' = shutdown \cup {"SENT"} \cup both
                    /\ conn' = ChangeConnState(conn, "CLOSED")
               ELSE /\ conn' = ChangeConnState(conn, UnsentCloseState(conn.state))
                    /\ UNCHANGED shutdown
      BY <2>2 DEF CloseOpen
    <3>2. both \subseteq {"RECEIVED"}
      OBVIOUS
    <3> HIDE DEF both
    <3>3. /\ shutdown' \subseteq {"SENT", "RECEIVED"}
          /\ f.ret = "SUCCESS" => "SENT" \in shutdown'
      BY <1>2, <3>1, <3>2
    <3>4. UnsentCloseState(conn.state) \in {"ALERTED", "ALERTING"}
      BY DEF UnsentCloseState
    <3>5. /\ conn' \in ConnRecords
          /\ f.ret = "SUCCESS" => conn'.state = "CLOSED"
          /\ f.ret # "SUCCESS" => conn'.state \in {"ALERTED", "ALERTING"}
      <4>1. CASE f.ret = "SUCCESS"
        BY <1>2, <3>1, <4>1, ChangeState DEF States
      <4>2. CASE f.ret # "SUCCESS"
        BY <1>2, <3>1, <3>4, <4>2, ChangeState DEF States
      <4> QED
        BY <4>1, <4>2
    <3>6. CASE "SENT" \in shutdown
      <4>1. f.alert = alertCtx /\ f.ret = "SUCCESS"
        BY <3>1, <3>6 DEF Flushed
      <4> QED
        BY <1>2, <3>1, <3>3, <3>5, <4>1
    <3>7. CASE "SENT" \notin shutdown
      <4> DEFINE b == ALERT_Send(alertCtx, "WARNING", "CLOSE_NOTIFY")
      <4>1. conn.state \in {"HANDSHAKING", "TRANSPORTING", "RENEGOTIATION", "CLOSED"}
        BY <2>2 DEF CloseOpen, Entering
      <4>2. alertCtx.flag = "NO"
        BY <1>1, <3>7, <4>1 DEF ConnInv, AlertInv, OpenStates
      <4>3. /\ b \in AlertContexts /\ b.warnCount = alertCtx.warnCount
            /\ b.flag = "SEND" /\ b.description = "CLOSE_NOTIFY"
        BY <1>2, <4>2, SendAlert DEF Descriptions
      <4>4. f \in ALERT_Flush(b)
        BY <3>1, <3>7
      <4> HIDE DEF b
      <4>5. /\ f.alert \in AlertContexts /\ f.alert.warnCount = alertCtx.warnCount
            /\ f.alert.flag = "SEND" /\ Final(f.alert)
        BY <4>3, <4>4, FlushAlert DEF SameAlert, Final
      <4> QED
        BY <3>1, <3>3, <3>5, <4>5
    <3> QED
      BY <3>6, <3>7
  <2> QED
    BY <2>1, <2>2
<1>4. DataOK'
  BY <1>1, <1>3, DataKept DEF ConnInv, DataOK
<1>5. ControlOK' /\ LoopInv'
  BY <1>1, <1>2, <1>3 DEF ConnInv, ControlOK, LoopInv, Loops
<1>6. AlertInv'
  BY <1>1, <1>3 DEF AlertInv, OpenStates, Final
<1>7. Restored' \in {"CLOSED", "ALERTED", "ALERTING"}
  BY <1>3 DEF Restored, Final
<1>8. WarnInv' /\ RenegInv' /\ ShutInv'
  BY <1>1, <1>7 DEF WarnInv, RenegInv, ShutInv, OpenStates
<1> QED
  BY <1>4, <1>5, <1>6, <1>8 DEF ConnInv

(* The close that replaces an alert by a close_notify, or sends a fatal one. *)
LEMMA CloseAlertingInv ==
  ASSUME ConnInv, CloseAlerting
  PROVE  ConnInv'
<1> DEFINE b == ALERT_Send(alertCtx, "WARNING", "CLOSE_NOTIFY")
<1>1. /\ at = "entry" /\ loop = "none" /\ conn.state = "ALERTING" /\ call = "Close"
      /\ UNCHANGED <<userShutDown, userRenego, isRenegotiation, hsState,
                     pendingData, writing, accepted, config>>
  BY DEF CloseAlerting, Entering, ConnInv, LoopInv, flags, appVars
<1>2. PICK o \in CommonEventInAlertingState(conn, b) :
        /\ Apply(o)
        /\ IF o.ret = "SUCCESS" /\ o.conn.state # "CLOSED" THEN GoOn("entry", "none") ELSE Return(o.ret)
  BY DEF CloseAlerting
<1>3. /\ conn \in ConnRecords /\ alertCtx \in AlertContexts
      /\ alertCtx.warnCount <= MAX_ALERT_COUNT /\ alertCtx.flag = "SEND"
      /\ shutdown \subseteq {"SENT", "RECEIVED"}
  BY <1>1 DEF ConnInv, ControlOK, DataOK, AlertInv
<1>4. /\ b \in AlertContexts /\ b.warnCount = alertCtx.warnCount
      /\ b.flag = "SEND" /\ Final(b)
  BY <1>3, SendAlert DEF Descriptions, Final
<1> HIDE DEF b
<1>5. /\ o.conn \in ConnRecords /\ o.shutdown \subseteq {"SENT", "RECEIVED"}
      /\ o.alert \in AlertContexts /\ o.alert.warnCount = b.warnCount
      /\ \/ o.ret # "SUCCESS" /\ o.conn = conn /\ SameAlert(b, o.alert)
         \/ o.conn.state \in {"ALERTED", "CLOSED"}
            /\ (o.conn.state = "CLOSED" => "SENT" \in o.shutdown)
  BY <1>1, <1>3, <1>4, SentAlert
<1>6. conn' = o.conn /\ shutdown' = o.shutdown /\ alertCtx' = o.alert
  BY <1>2 DEF Apply
<1>7. at' \in {"rest", "entry"} /\ loop' = "none" /\ call' \in {call, "none"}
      /\ (at' = "entry" => call' = call)
  BY <1>2 DEF GoOn, Return
<1>8. /\ \/ conn'.state = "ALERTED"
         \/ conn'.state = "CLOSED" /\ "SENT" \in shutdown'
         \/ conn'.state = "ALERTING" /\ alertCtx'.flag = "SEND" /\ Final(alertCtx')
      /\ conn' \in ConnRecords /\ shutdown' \subseteq {"SENT", "RECEIVED"}
      /\ alertCtx' \in AlertContexts /\ alertCtx'.warnCount = alertCtx.warnCount
  BY <1>1, <1>4, <1>5, <1>6 DEF SameAlert, Final
<1>9. DataOK'
  BY <1>1, <1>7, <1>8, DataKept DEF ConnInv, DataOK
<1>10. ControlOK' /\ LoopInv'
  BY <1>3, <1>7, <1>8 DEF ConnInv, ControlOK, LoopInv, Loops
<1>11. AlertInv'
  BY <1>7, <1>8 DEF AlertInv, OpenStates, Final
<1>12. Restored' \in {"CLOSED", "ALERTED", "ALERTING"}
  BY <1>8 DEF Restored, Final
<1>13. WarnInv' /\ RenegInv' /\ ShutInv'
  BY <1>7, <1>12 DEF WarnInv, RenegInv, ShutInv, OpenStates
<1> QED
  BY <1>9, <1>10, <1>11, <1>13 DEF ConnInv

-----------------------------------------------------------------------------
LEMMA InitConn == Init => ConnInv
<1> SUFFICES ASSUME Init PROVE ConnInv
  OBVIOUS
<1>1. NoAlert \in AlertContexts /\ NoAlert.flag = "NO" /\ NoAlert.warnCount = 0
  BY DEF NoAlert, AlertContexts, Levels, Descriptions
<1>2. conn \in ConnRecords /\ conn.state = "IDLE"
  BY DEF Init, ConnRecords, States
<1>3. Restored = "IDLE"
  BY <1>2 DEF Restored
<1>4. DataOK
  <2>1. shutdown \subseteq {"SENT", "RECEIVED"} /\ accepted \subseteq 1 .. MaxWrites
    BY DEF Init
  <2>2. {userShutDown, userRenego, isRenegotiation} \subseteq BOOLEAN
    BY DEF Init
  <2>3. pendingData \in 0 .. MaxWrites /\ writing \in 0 .. MaxWrites
    BY ConnAssumption DEF Init
  <2>4. hsState \in HsStates /\ call # "Write" /\ config \in Configs
    BY DEF Init, HsStates
  <2> QED
    BY <2>1, <2>2, <2>3, <2>4 DEF DataOK
<1>5. ControlOK /\ LoopInv /\ AlertInv
  BY <1>1, <1>2, ConnAssumption DEF Init, ControlOK, LoopInv, AlertInv, Loops
<1>6. WarnInv /\ RenegInv /\ ShutInv
  BY <1>1, <1>3, ConnAssumption DEF Init, WarnInv, RenegInv, ShutInv
<1> QED
  BY <1>4, <1>5, <1>6 DEF ConnInv

LEMMA NextConn == ConnInv /\ [Next]_vars => ConnInv'
<1> SUFFICES ASSUME ConnInv, [Next]_vars PROVE ConnInv'
  OBVIOUS
<1>1. CASE Application
  BY <1>1, CallInv, PrepareInv DEF Application
<1>2. CASE Dispatch
  BY <1>2, UnsentAlertInv, EnterInv, CloseInv, CloseAlertingInv DEF Dispatch
<1>3. CASE Turn
  <2>1. CASE ReadRenegotiationRequest
    <3>1. PICK s \in {"RECV_HELLO_REQUEST", "RECV_HELLO", "RECV"} :
            TakeHandshake("RENEGOTIATION", s)
      BY <2>1 DEF ReadRenegotiationRequest
    <3> QED
      BY <3>1, TakeHandshakeInv
  <2>2. CASE ReadRefusedRequest
    BY <2>2, TakeHandshakeInv DEF ReadRefusedRequest
  <2>3. CASE ReadPostHandshake
    BY <2>3, TakeHandshakeInv DEF ReadPostHandshake
  <2> QED
    BY <1>3, <2>1, <2>2, <2>3, HsSendInv, HsRecvInv, HsStaysInv, HsLeavesInv, ReadInv, WriteInv,
       ProcessAlertInv DEF Turn
<1>4. CASE UNCHANGED vars
  <2>1. UNCHANGED <<conn, shutdown, userShutDown, userRenego, isRenegotiation, hsState,
                    pendingData, writing, accepted, alertCtx, call, at, loop, config>>
    BY <1>4 DEF vars, progress, flags, appVars
  <2>2. Restored' = Restored
    BY <2>1 DEF Restored
  <2>3. DataOK' /\ ControlOK' /\ LoopInv'
    BY <2>1 DEF ConnInv, DataOK, ControlOK, LoopInv
  <2>4. AlertInv'
    BY <2>1 DEF ConnInv, AlertInv, Final
  <2>5. WarnInv' /\ RenegInv' /\ ShutInv'
    BY <2>1, <2>2 DEF ConnInv, WarnInv, RenegInv, ShutInv
  <2> QED
    BY <2>3, <2>4, <2>5 DEF ConnInv
<1> QED
  BY <1>1, <1>2, <1>3, <1>4 DEF Next

(* The invariant holds in every state a connection can be in. *)
LEMMA ConnAlways == Spec => []ConnInv
<1>1. Init => ConnInv
  BY InitConn
<1>2. ConnInv /\ [Next]_vars => ConnInv'
  BY NextConn
<1> QED
  BY <1>1, <1>2, PTL DEF Spec

-----------------------------------------------------------------------------
(* Every variable has its type; in particular the alerts that are counted    *)
(* never exceed the limit of the alerts.                                     *)
THEOREM ConnTypeCorrect == Spec => []TypeOK
<1>1. ConnInv => TypeOK
  BY ConnTyped
<1> QED
  BY <1>1, ConnAlways, PTL

(* Once HITLS_Close was called no later call opens the connection again, not *)
(* even the one that restores the state from before a warning.               *)
THEOREM CloseStaysFinal == Spec => []CloseIsFinal
<1>1. ConnInv => CloseIsFinal
  <2> SUFFICES ASSUME ConnInv, at = "rest", userShutDown PROVE conn.state \notin OpenStates
    BY DEF CloseIsFinal
  <2>1. Restored \notin OpenStates
    BY DEF ConnInv, ShutInv
  <2> QED
    BY <2>1 DEF Restored, OpenStates
<1> QED
  BY <1>1, ConnAlways, PTL

(* A renegotiation that is over, given up or refused leaves no trace that    *)
(* would make HITLS_Renegotiate do nothing for ever.                         *)
THEOREM RenegotiationsEnd == Spec => []RenegotiationEnds
<1>1. ConnInv => RenegotiationEnds
  BY DEF ConnInv, RenegInv, Restored, RenegotiationEnds
<1> QED
  BY <1>1, ConnAlways, PTL

-----------------------------------------------------------------------------
(* The way of the records.                                                  *)

IsPath(p) == p = [buf |-> p.buf, uio |-> p.uio, wire |-> p.wire, lost |-> p.lost]

(* Emptying the buffering UIO and freeing it leave the output buffer alone.  *)
LEMMA DrainKeeps ==
  ASSUME NEW p, IsPath(p), NEW n
  PROVE  /\ IsPath(Drained(p, n)) /\ Drained(p, n).buf = p.buf /\ Drained(p, n).lost = p.lost
         /\ IsPath(UIO_Deinit(p)) /\ UIO_Deinit(p).buf = p.buf /\ UIO_Deinit(p).lost = p.lost
<1>1. PICK b, u, w, l : p = [buf |-> b, uio |-> u, wire |-> w, lost |-> l]
  BY DEF IsPath
<1>2. \E v, x : Drained(p, n) = [buf |-> b, uio |-> v, wire |-> x, lost |-> l]
  <2> DEFINE v == SubSeq(p.uio, n + 1, Len(p.uio))
             x == p.wire \o Visible(SubSeq(p.uio, 1, n))
  <2>1. Drained(p, n) = [p EXCEPT !.uio = v, !.wire = x]
    BY DEF Drained
  <2> HIDE DEF v, x
  <2>2. Drained(p, n) = [buf |-> b, uio |-> v, wire |-> x, lost |-> l]
    BY <1>1, <2>1
  <2> QED
    BY <2>2
<1>3. UIO_Deinit(p) = [buf |-> b, uio |-> <<>>, wire |-> w, lost |-> l]
  BY <1>1 DEF UIO_Deinit
<1> QED
  BY <1>1, <1>2, <1>3 DEF IsPath

LEMMA FlushKeeps ==
  ASSUME NEW p, IsPath(p), NEW h \in BOOLEAN, NEW f \in UioFlush(h, p)
  PROVE  /\ IsPath(f.path) /\ f.path.buf = p.buf /\ f.path.lost = p.lost
         /\ f.ret \in Refusals \cup {"SUCCESS"}
<1>1. ASSUME NEW q \in PartlyDrained(p)
      PROVE  IsPath(q) /\ q.buf = p.buf /\ q.lost = p.lost
  BY DrainKeeps DEF PartlyDrained
<1>2. PICK q, r : f = Result(q, r) /\ r \in Refusals \cup {"SUCCESS"}
                  /\ (q = p \/ q = Drained(p, Len(p.uio)) \/ q \in PartlyDrained(p))
  BY DEF UioFlush, Refusals
<1>3. f.path = q /\ f.ret = r
  BY <1>2 DEF Result
<1> QED
  BY <1>1, <1>2, <1>3, DrainKeeps

(* A record that is written, with no other one in the output buffer, is not  *)
(* lost; a stream keeps it when it is refused.                               *)
LEMMA WriteKeeps ==
  ASSUME NEW p, IsPath(p), NEW rec, p.buf \in {NoRecord, rec},
         NEW h \in BOOLEAN, NEW w \in REC_Write(h, p, rec)
  PROVE  /\ IsPath(w.path) /\ w.path.lost = p.lost
         /\ \/ w.ret = "SUCCESS" /\ w.path.buf = NoRecord
            \/ w.ret \in Refusals /\ w.path.buf = (IF config.datagram THEN NoRecord ELSE rec)
<1>1. PICK b, u, x, l : p = [buf |-> b, uio |-> u, wire |-> x, lost |-> l]
  BY DEF IsPath
<1>2. ToSend(p, rec) = rec /\ Lost(p, rec) = p.lost
  BY DEF ToSend, Lost
<1>3. ASSUME NEW q, IsPath(q), q.lost = p.lost, q.buf = p.buf
      PROVE  /\ IsPath(Refused(q, rec)) /\ Refused(q, rec).lost = p.lost
             /\ Refused(q, rec).buf = (IF config.datagram THEN NoRecord ELSE rec)
  <2>1. PICK c, v, y, m : q = [buf |-> c, uio |-> v, wire |-> y, lost |-> m]
    BY <1>3 DEF IsPath
  <2>2. ToSend(q, rec) = rec
    BY <1>3 DEF ToSend
  <2>3. Refused(q, rec) = [buf |-> IF config.datagram THEN NoRecord ELSE rec,
                           uio |-> v, wire |-> y, lost |-> m]
    BY <2>1, <2>2 DEF Refused
  <2> QED
    BY <1>3, <2>1, <2>3 DEF IsPath
<1>4. ASSUME w \in SocketWrite(p, rec)
      PROVE  /\ IsPath(w.path) /\ w.path.lost = p.lost
             /\ \/ w.ret = "SUCCESS" /\ w.path.buf = NoRecord
                \/ w.ret \in Refusals /\ w.path.buf = (IF config.datagram THEN NoRecord ELSE rec)
  <2>1. CASE w \in {Result(Refused(p, rec), "IO_BUSY"), Result(Refused(p, rec), "IO_EXCEPTION")}
    <3>1. w.path = Refused(p, rec) /\ w.ret \in Refusals
      BY <2>1 DEF Result, Refusals
    <3> QED
      BY <1>3, <3>1
  <2>2. CASE w = Result([p EXCEPT !.buf = NoRecord, !.lost = Lost(p, rec),
                                  !.wire = @ \o Visible(<<ToSend(p, rec)>>)], "SUCCESS")
    <3>1. PICK y : w.path = [buf |-> NoRecord, uio |-> u, wire |-> y, lost |-> p.lost]
      BY <1>1, <1>2, <2>2 DEF Result
    <3> QED
      BY <2>2, <3>1 DEF IsPath, Result
  <2> QED
    BY <1>4, <2>1, <2>2 DEF SocketWrite
<1>5. ASSUME w \in BufferWrite(p, rec)
      PROVE  /\ IsPath(w.path) /\ w.path.lost = p.lost
             /\ \/ w.ret = "SUCCESS" /\ w.path.buf = NoRecord
                \/ w.ret \in Refusals /\ w.path.buf = (IF config.datagram THEN NoRecord ELSE rec)
  <2> DEFINE Buffered(q) ==
        Result([q EXCEPT !.buf = NoRecord, !.lost = Lost(p, rec),
                         !.uio = Append(@, ToSend(p, rec))], "SUCCESS")
  <2>1. ASSUME NEW q, IsPath(q), w = Buffered(q)
        PROVE  IsPath(w.path) /\ w.path.lost = p.lost /\ w.ret = "SUCCESS" /\ w.path.buf = NoRecord
    <3>1. PICK c, v, y, m : q = [buf |-> c, uio |-> v, wire |-> y, lost |-> m]
      BY <2>1 DEF IsPath
    <3>2. PICK z : w.path = [buf |-> NoRecord, uio |-> z, wire |-> y, lost |-> p.lost]
      BY <1>2, <2>1, <3>1 DEF Result
    <3> QED
      BY <2>1, <3>2 DEF IsPath, Result
  <2>2. \/ w = Buffered(p) \/ w = Buffered(Drained(p, Len(p.uio)))
        \/ w \in {Result(Refused(q, rec), "IO_EXCEPTION") : q \in PartlyDrained(p)}
    BY <1>5 DEF BufferWrite
  <2> HIDE DEF Buffered
  <2>3. ASSUME NEW q \in PartlyDrained(p), w = Result(Refused(q, rec), "IO_EXCEPTION")
        PROVE  /\ IsPath(w.path) /\ w.path.lost = p.lost /\ w.ret \in Refusals
               /\ w.path.buf = (IF config.datagram THEN NoRecord ELSE rec)
    <3>1. IsPath(q) /\ q.buf = p.buf /\ q.lost = p.lost
      BY DrainKeeps DEF PartlyDrained
    <3>2. w.path = Refused(q, rec) /\ w.ret \in Refusals
      BY <2>3 DEF Result, Refusals
    <3> QED
      BY <1>3, <3>1, <3>2
  <2> QED
    BY <2>1, <2>2, <2>3, DrainKeeps
<1> QED
  BY <1>4, <1>5 DEF REC_Write

(* The alert a may be sent over the path p: no other record is in the way.   *)
Unblocked(p, a) ==
  \/ p.buf = NoRecord
  \/ /\ ~config.datagram /\ a.flag = "SEND" /\ ~a.isFlush
     /\ p.buf = Alert(a.level, a.description)

(* What sending it leaves behind: nothing, or the alert that was refused.    *)
AlertOnPath(p, a, r) ==
  /\ IsPath(p)
  /\ \/ p.buf = NoRecord
     \/ r \in Refusals /\ p.buf # NoRecord /\ Unblocked(p, a)

LEMMA AlertKeeps ==
  ASSUME IsPath(path), NEW a \in AlertContexts, Unblocked(path, a), NEW f \in ALERT_Flush(a)
  PROVE  /\ f.path.lost = path.lost /\ AlertOnPath(f.path, f.alert, f.ret)
         /\ f.path.buf # NoRecord => f.alert = a
<1> DEFINE sent == [a EXCEPT !.isFlush = TRUE]
           rec == Alert(a.level, a.description)
<1>0. hsCtx \in BOOLEAN
  BY DEF hsCtx
<1>1. ASSUME NEW p, IsPath(p), p.buf = NoRecord, p.lost = path.lost,
             f \in {Flushed(g.path, sent, g.ret) : g \in UioFlush(hsCtx, p)}
      PROVE  f.path.lost = path.lost /\ IsPath(f.path) /\ f.path.buf = NoRecord
  <2>1. PICK g \in UioFlush(hsCtx, p) : f = Flushed(g.path, sent, g.ret)
    BY <1>1
  <2>2. f.path = g.path
    BY <2>1 DEF Flushed
  <2> QED
    BY <1>0, <1>1, <2>1, <2>2, FlushKeeps
<1>2. CASE a.flag # "SEND"
  <2>1. f = Flushed(path, a, "NO_WANT_SEND")
    BY <1>2 DEF ALERT_Flush
  <2> QED
    BY <1>2, <2>1 DEF Flushed, AlertOnPath, Unblocked
<1>3. CASE a.flag = "SEND" /\ a.isFlush
  <2>1. f \in {Flushed(g.path, sent, g.ret) : g \in UioFlush(hsCtx, path)}
    BY <1>3 DEF ALERT_Flush
  <2> QED
    BY <1>1, <1>3, <2>1 DEF AlertOnPath, Unblocked
<1>4. CASE a.flag = "SEND" /\ ~a.isFlush
  <2>1. CASE f = Flushed(path, a, "IO_BUSY")
    BY <1>4, <2>1 DEF Flushed, AlertOnPath, Refusals
  <2>2. ASSUME NEW w \in REC_Write(hsCtx, path, rec),
               f \in IF w.ret = "SUCCESS"
                     THEN {Flushed(g.path, sent, g.ret) : g \in UioFlush(hsCtx, w.path)}
                     ELSE {Flushed(w.path, a, w.ret)}
        PROVE  /\ f.path.lost = path.lost /\ AlertOnPath(f.path, f.alert, f.ret)
               /\ f.path.buf # NoRecord => f.alert = a
    <3>1. path.buf \in {NoRecord, rec}
      BY DEF Unblocked
    <3> HIDE DEF rec
    <3>2. /\ IsPath(w.path) /\ w.path.lost = path.lost
          /\ \/ w.ret = "SUCCESS" /\ w.path.buf = NoRecord
             \/ w.ret \in Refusals /\ w.path.buf = (IF config.datagram THEN NoRecord ELSE rec)
      BY <1>0, <3>1, WriteKeeps
    <3>3. CASE w.ret = "SUCCESS"
      BY <1>1, <2>2, <3>2, <3>3 DEF AlertOnPath, Refusals
    <3>4. CASE w.ret # "SUCCESS"
      <4>1. f.path = w.path /\ f.alert = a /\ f.ret = w.ret
        BY <2>2, <3>4 DEF Flushed
      <4> QED
        BY <1>4, <3>2, <3>4, <4>1 DEF AlertOnPath, Unblocked, rec
    <3> QED
      BY <3>3, <3>4
  <2>3. \/ f = Flushed(path, a, "IO_BUSY")
        \/ \E w \in REC_Write(hsCtx, path, rec) :
             f \in IF w.ret = "SUCCESS"
                   THEN {Flushed(g.path, sent, g.ret) : g \in UioFlush(hsCtx, w.path)}
                   ELSE {Flushed(w.path, a, w.ret)}
    BY <1>4 DEF ALERT_Flush
  <2> QED
    BY <2>1, <2>2, <2>3
<1> QED
  BY <1>2, <1>3, <1>4 DEF AlertContexts

(* The alert of a connection c that is ALERTING. *)
LEMMA SentOnPath ==
  ASSUME IsPath(path), NEW c, NEW a \in AlertContexts, Unblocked(path, a),
         NEW o \in CommonEventInAlertingState(c, a)
  PROVE  /\ o.path.lost = path.lost /\ AlertOnPath(o.path, o.alert, o.ret)
         /\ o.path.buf # NoRecord => o.alert = a /\ o.conn = c
<1>1. PICK f \in ALERT_Flush(a) :
        IF f.ret = "SUCCESS"
        THEN \E d, s, b : o = Outcome(d, s, b, "SUCCESS") /\ b.path = f.path
        ELSE o = Outcome(c, shutdown, f, f.ret)
  <2>1. PICK f \in ALERT_Flush(a) :
          IF f.ret = "SUCCESS"
          THEN \/ \E d, s : o = Outcome(d, s, f, "SUCCESS")
               \/ o = Outcome(AfterWarning(c), shutdown,
                              [f EXCEPT !.alert = ALERT_CleanInfo(@)], "SUCCESS")
          ELSE o = Outcome(c, shutdown, f, f.ret)
    BY DEF CommonEventInAlertingState
  <2>2. f = Flushed(f.path, f.alert, f.ret)
    BY FlushAlert
  <2>3. PICK g : g = [f EXCEPT !.alert = ALERT_CleanInfo(@)]
    OBVIOUS
  <2>4. g.path = f.path
    BY <2>2, <2>3 DEF Flushed
  <2> QED
    BY <2>1, <2>3, <2>4
<1>2. /\ f.path.lost = path.lost /\ AlertOnPath(f.path, f.alert, f.ret)
      /\ f.path.buf # NoRecord => f.alert = a
  BY AlertKeeps
<1>3. CASE f.ret = "SUCCESS"
  BY <1>1, <1>2, <1>3 DEF Outcome, AlertOnPath, Refusals
<1>4. CASE f.ret # "SUCCESS"
  BY <1>1, <1>2, <1>4 DEF Outcome
<1> QED
  BY <1>3, <1>4

(* The alert a of a loop. *)
LEMMA ProcessedOnPath ==
  ASSUME IsPath(path), path.buf = NoRecord, NEW a \in AlertContexts,
         conn \in ConnRecords, NEW o \in AlertEventProcess(a)
  PROVE  /\ o.path.lost = path.lost /\ AlertOnPath(o.path, o.alert, o.ret)
         /\ o.path.buf # NoRecord =>
              /\ o.conn.state = "ALERTING"
              /\ \/ o.alert.description = "CLOSE_NOTIFY"
                 \/ a.flag # "RECV" /\ o.alert = a
<1>1. ChangeConnState(conn, "ALERTING").state = "ALERTING"
  BY ChangeState DEF States
<1>2. CASE a.flag # "RECV"
  <2>1. o \in CommonEventInAlertingState(ChangeConnState(conn, "ALERTING"), a)
    BY <1>2 DEF AlertEventProcess
  <2> QED
    BY <1>1, <1>2, <2>1, SentOnPath DEF Unblocked
<1>3. CASE a.flag = "RECV"
  <2> DEFINE clean == Flushed(path, ALERT_CleanInfo(a), "SUCCESS")
             received == shutdown \cup {"RECEIVED"}
  <2>1. \/ o \in AnswerCloseNotify(clean.alert)
        \/ \E d, s, f, r : o = Outcome(d, s, f, r) /\ f.path = path
    BY <1>3 DEF AlertEventProcess, AlertRecvProcess, Flushed
  <2>2. CASE \E d, s, f, r : o = Outcome(d, s, f, r) /\ f.path = path
    BY <2>2 DEF Outcome, AlertOnPath
  <2>3. CASE o \in AnswerCloseNotify(clean.alert)
    <3> DEFINE b == ALERT_Send(clean.alert, "WARNING", "CLOSE_NOTIFY")
    <3>1. clean.alert \in AlertContexts /\ clean.alert.flag = "NO"
      BY CleanAlert DEF Flushed
    <3>2. b \in AlertContexts /\ b.description = "CLOSE_NOTIFY"
      BY <3>1, SendAlert DEF Descriptions
    <3>3. PICK f \in ALERT_Flush(b) :
            IF f.ret = "SUCCESS" THEN \E d, s, r : o = Outcome(d, s, f, r)
            ELSE \E s : o = Outcome(ChangeConnState(conn, "ALERTING"), s, f, f.ret)
      BY <2>3 DEF AnswerCloseNotify
    <3> HIDE DEF b
    <3>4. /\ f.path.lost = path.lost /\ AlertOnPath(f.path, f.alert, f.ret)
          /\ f.path.buf # NoRecord => f.alert = b
      BY <3>2, AlertKeeps DEF Unblocked
    <3>5. CASE f.ret = "SUCCESS"
      <4>1. o.path = f.path
        BY <3>3, <3>5 DEF Outcome
      <4>2. IsPath(f.path) /\ f.path.buf = NoRecord
        BY <3>4, <3>5 DEF AlertOnPath, Refusals
      <4> QED
        BY <3>4, <4>1, <4>2 DEF AlertOnPath
    <3>6. CASE f.ret # "SUCCESS"
      <4>1. /\ o.path = f.path /\ o.alert = f.alert /\ o.ret = f.ret
            /\ o.conn = ChangeConnState(conn, "ALERTING")
        BY <3>3, <3>6 DEF Outcome
      <4> QED
        BY <1>1, <3>2, <3>4, <4>1
    <3> QED
      BY <3>5, <3>6
  <2> QED
    BY <2>1, <2>2, <2>3
<1> QED
  BY <1>2, <1>3

-----------------------------------------------------------------------------
(* A record that the socket refused waits in the output buffer for the call  *)
(* that is repeated.                                                        *)

CanRepeat == call \in Calls /\ (at = "rest" => ret \in Refusals)

WriteHeld ==
  /\ pendingData = writing /\ call = "Write" /\ CanRepeat
  /\ at \in {"rest", "entry", "run"} /\ loop \in {"none", "transporting", "closed"}
  /\ conn.state \in {"TRANSPORTING", "RENEGOTIATION", "CLOSED"}
  /\ conn.state = "CLOSED" => "SENT" \notin shutdown

HandshakeHeld ==
  /\ path.buf = Handshake /\ hsState \in HsSendStates /\ CanRepeat /\ call # "Close"
  /\ at \in {"rest", "entry", "run"} /\ loop \in HandshakeLoops \cup {"none"}
  /\ conn.state \in {"HANDSHAKING", "RENEGOTIATION"}

AlertHeld ==
  /\ path.buf = Alert(alertCtx.level, alertCtx.description)
  /\ alertCtx.flag = "SEND" /\ ~alertCtx.isFlush /\ CanRepeat
  /\ conn.state = "ALERTING" /\ at \in {"rest", "entry"}
  /\ call = "Close" => Final(alertCtx)

(* Nothing is written any more, the record least of all. *)
Over ==
  /\ at \in {"rest", "entry"}
  /\ conn.state = "ALERTED" \/ (conn.state = "CLOSED" /\ shutdown = {"SENT", "RECEIVED"})

BufInv ==
  /\ IsPath(path) /\ path.lost = {}
  /\ config.datagram => path.buf = NoRecord /\ pendingData = 0
  /\ pendingData # 0 => WriteHeld
  /\ path.buf # NoRecord =>
       \/ pendingData # 0 /\ path.buf = App(writing)
       \/ pendingData = 0 /\ (HandshakeHeld \/ AlertHeld \/ Over)

(* The inductive invariant: an application that gives up on a refused record *)
(* may find it in the way of the next one.                                   *)
PathInv == ~LeavesRecordBehind => BufInv

(* A step that meets no record and leaves none. *)
LEMMA QuietStep ==
  ASSUME BufInv, path.buf = NoRecord, pendingData = 0, pendingData' = 0,
         NEW p, path' = p, IsPath(p), p.buf = NoRecord, p.lost = path.lost
  PROVE  BufInv'
BY DEF BufInv

(* What may wait while a loop runs. *)
LEMMA BufInLoop ==
  ASSUME ConnInv, BufInv, at \in {"run", "alert"}
  PROVE  /\ loop \in HandshakeLoops \/ call # "Write" \/ at = "alert" => pendingData = 0
         /\ at = "alert" => path.buf = NoRecord
         /\ path.buf # NoRecord =>
              \/ pendingData # 0 /\ path.buf = App(writing) /\ WriteHeld
              \/ HandshakeHeld /\ loop \in HandshakeLoops
BY DEF ConnInv, LoopInv, BufInv, WriteHeld, HandshakeHeld, AlertHeld, Over, HandshakeLoops

(* The turns that write nothing. *)
LEMMA TurnKeepsPath ==
  ASSUME ConnInv, BufInv,
         \/ HsFlushFails \/ HsRecv \/ HsRefuse \/ HsRecvFails \/ HsWriteMeanwhile
         \/ HsUnexpectedApp \/ HsAllowedApp \/ HsDone \/ HsNullContext
         \/ ReadData \/ ReadFails \/ ReadHandshakeClosed \/ ReadRenegotiationRequest
         \/ ReadRefusedRequest \/ ReadPostHandshake \/ ReadRefusedHandshake
  PROVE  BufInv'
<1>1. at = "run" /\ UNCHANGED pendingData
  BY DEF HsFlushFails, HsRecv, HsRefuse, HsRecvFails, HsWriteMeanwhile, HsUnexpectedApp,
         HsAllowedApp, HsDone, HsNullContext, ReadData, ReadFails, ReadHandshakeClosed,
         ReadRenegotiationRequest, ReadRefusedRequest, ReadPostHandshake, ReadRefusedHandshake,
         HsFlushed, InHandshake, Reading, TakeHandshake, appVars
<1>2. \/ loop \in HandshakeLoops /\ hsState \notin HsSendStates
      \/ loop \notin HandshakeLoops /\ call # "Write"
  BY DEF HsFlushFails, HsRecv, HsRefuse, HsRecvFails, HsWriteMeanwhile, HsUnexpectedApp,
         HsAllowedApp, HsDone, HsNullContext, ReadData, ReadFails, ReadHandshakeClosed,
         ReadRenegotiationRequest, ReadRefusedRequest, ReadPostHandshake, ReadRefusedHandshake,
         HsFlushed, InHandshake, Reading, TakeHandshake, HsSendStates, HsRecvStates, HandshakeLoops
<1>3. path.buf = NoRecord /\ pendingData = 0
  BY <1>1, <1>2, BufInLoop DEF HandshakeHeld, WriteHeld, HandshakeLoops
<1>4. IsPath(path)
  BY DEF BufInv
<1>5. CASE HsFlushFails
  <2>1. PICK f \in UioFlush(hsCtx, path) : path' = f.path
    BY <1>5 DEF HsFlushFails
  <2>2. hsCtx \in BOOLEAN
    BY DEF hsCtx
  <2> QED
    BY <1>1, <1>3, <1>4, <2>1, <2>2, FlushKeeps, QuietStep
<1>6. CASE ~HsFlushFails
  <2>1. path' \in {path, Drained(path, Len(path.uio)), UIO_Deinit(path)}
    BY <1>6 DEF HsRecv, HsRefuse, HsRecvFails, HsWriteMeanwhile, HsUnexpectedApp,
         HsAllowedApp, HsDone, HsNullContext, ReadData, ReadFails, ReadHandshakeClosed,
         ReadRenegotiationRequest, ReadRefusedRequest, ReadPostHandshake, ReadRefusedHandshake,
         HsFlushed, HS_DeInit, TakeHandshake
  <2> QED
    BY <1>1, <1>3, <1>4, <2>1, DrainKeeps, QuietStep
<1> QED
  BY <1>5, <1>6

LEMMA HsSendKeepsPath ==
  ASSUME ConnInv, BufInv, HsSend
  PROVE  BufInv'
<1>1. /\ at = "run" /\ loop \in HandshakeLoops /\ hsState \in HsSendStates
      /\ UNCHANGED <<conn, pendingData, config>>
  BY DEF HsSend, InHandshake, appVars
<1>2. pendingData = 0 /\ path.buf \in {NoRecord, Handshake} /\ IsPath(path) /\ path.lost = {}
  BY <1>1, BufInLoop DEF HandshakeHeld, WriteHeld, BufInv, HandshakeLoops
<1>3. PICK w \in REC_Write(hsCtx, path, Handshake) :
        /\ path' = w.path
        /\ w.ret # "SUCCESS" => Fails(alertCtx, w.ret) /\ UNCHANGED hsState
  BY DEF HsSend
<1>4. hsCtx \in BOOLEAN
  BY DEF hsCtx
<1>5. /\ IsPath(w.path) /\ w.path.lost = path.lost
      /\ \/ w.ret = "SUCCESS" /\ w.path.buf = NoRecord
         \/ w.ret \in Refusals /\ w.path.buf = (IF config.datagram THEN NoRecord ELSE Handshake)
  BY <1>2, <1>3, <1>4, WriteKeeps
<1>6. CASE w.path.buf = NoRecord
  BY <1>1, <1>2, <1>3, <1>5, <1>6 DEF BufInv
<1>7. CASE w.path.buf # NoRecord
  <2>1. w.ret \in Refusals /\ w.path.buf = Handshake /\ ~config.datagram
    BY <1>5, <1>7
  <2>2. at' = "rest" /\ loop' = "none" /\ ret' = w.ret /\ call' = call /\ UNCHANGED hsState
    BY <1>1, <1>3, <2>1 DEF Fails, Return, Refusals, ConnInv, AlertInv
  <2>3. conn.state \in {"HANDSHAKING", "RENEGOTIATION"} /\ call \in {"Connect", "Read", "Write"}
    BY <1>1 DEF ConnInv, LoopInv, HandshakeLoops
  <2>4. HandshakeHeld'
    BY <1>1, <1>3, <2>1, <2>2, <2>3 DEF HandshakeHeld, CanRepeat, Calls
  <2> QED
    BY <1>1, <1>2, <1>3, <1>5, <2>1, <2>4 DEF BufInv
<1> QED
  BY <1>6, <1>7

LEMMA WriteKeepsPath ==
  ASSUME ConnInv, BufInv, WriteBadRetry \/ WriteData
  PROVE  BufInv'
<1>1. /\ at = "run" /\ loop \in {"transporting", "closed"} /\ call = "Write"
      /\ UNCHANGED <<conn, shutdown, config, writing>>
  BY DEF WriteBadRetry, WriteData, appVars
<1>2. /\ path.buf \in {NoRecord, App(writing)} /\ IsPath(path) /\ path.lost = {}
      /\ pendingData \in {0, writing}
  BY <1>1, BufInLoop DEF HandshakeHeld, WriteHeld, BufInv, HandshakeLoops
<1>3. ~WriteBadRetry
  BY <1>2 DEF WriteBadRetry, BadRetry
<1>4. PICK w \in AppWrite :
        /\ path' = w.path /\ pendingData' = PendingAfter(w.ret)
        /\ w.ret # "SUCCESS" => Return(w.ret) \/ Fails(alertCtx, w.ret)
  BY <1>3 DEF WriteData
<1>5. hsCtx \in BOOLEAN
  BY DEF hsCtx
<1>6. /\ IsPath(w.path) /\ w.path.lost = {}
      /\ \/ w.ret = "SUCCESS" /\ w.path.buf = NoRecord
         \/ w.ret \in Refusals
            /\ (w.path.buf = NoRecord \/ (~config.datagram /\ w.path.buf = App(writing)))
  <2>1. PICK v \in REC_Write(hsCtx, path, App(writing)) :
          w \in IF v.ret = "SUCCESS" THEN UioFlush(hsCtx, v.path) ELSE {v}
    BY DEF AppWrite
  <2>2. /\ IsPath(v.path) /\ v.path.lost = path.lost
        /\ \/ v.ret = "SUCCESS" /\ v.path.buf = NoRecord
           \/ v.ret \in Refusals
              /\ v.path.buf = (IF config.datagram THEN NoRecord ELSE App(writing))
    BY <1>2, <1>5, <2>1, WriteKeeps
  <2>3. CASE v.ret = "SUCCESS"
    <3>1. w \in UioFlush(hsCtx, v.path) /\ v.path.buf = NoRecord
      BY <2>1, <2>2, <2>3 DEF Refusals
    <3>2. /\ IsPath(w.path) /\ w.path.buf = v.path.buf /\ w.path.lost = v.path.lost
          /\ w.ret \in Refusals \cup {"SUCCESS"}
      BY <1>5, <2>2, <3>1, FlushKeeps
    <3> QED
      BY <1>2, <2>2, <3>1, <3>2
  <2>4. CASE v.ret # "SUCCESS"
    <3>1. w = v
      BY <2>1, <2>4
    <3> QED
      BY <1>2, <2>2, <2>4, <3>1
  <2> QED
    BY <2>3, <2>4
<1>7. CASE w.ret = "SUCCESS"
  <2>1. w.path.buf = NoRecord
    BY <1>6, <1>7 DEF Refusals
  <2>2. pendingData' = 0
    BY <1>4, <1>7 DEF PendingAfter
  <2> QED
    BY <1>4, <1>6, <2>1, <2>2 DEF BufInv
<1>8. CASE w.ret # "SUCCESS"
  <2>1. /\ w.ret \in Refusals
        /\ w.path.buf = NoRecord \/ (~config.datagram /\ w.path.buf = App(writing))
    BY <1>6, <1>8
  <2>2. at' = "rest" /\ loop' = "none" /\ ret' = w.ret /\ call' = call
    BY <1>1, <1>4, <1>8, <2>1 DEF Fails, Return, ConnInv, AlertInv
  <2>3. pendingData' = (IF config.datagram THEN 0 ELSE writing)
    BY <1>4, <1>8 DEF PendingAfter
  <2>4. writing # 0
    BY <1>1 DEF ConnInv, DataOK
  <2>5. pendingData' # 0 => WriteHeld'
    <3>1. /\ conn.state \in {"TRANSPORTING", "RENEGOTIATION", "CLOSED"}
          /\ conn.state = "CLOSED" => "SENT" \notin shutdown
      BY <1>1 DEF ConnInv, LoopInv
    <3> QED
      BY <1>1, <2>1, <2>2, <2>3, <3>1 DEF WriteHeld, CanRepeat, Calls
  <2> QED
    BY <1>1, <1>4, <1>6, <2>1, <2>3, <2>4, <2>5 DEF BufInv
<1> QED
  BY <1>7, <1>8

LEMMA ProcessAlertKeepsPath ==
  ASSUME ConnInv, BufInv, ProcessAlert
  PROVE  BufInv'
<1>1. PICK p : p = AlertToProcess
  OBVIOUS
<1>2. PICK o \in AlertEventProcess(p) :
        /\ Apply(o)
        /\ o.ret \in Refusals => Return(o.ret)
  BY <1>1 DEF ProcessAlert, GivesUp, Refusals
<1>3. /\ at = "alert" /\ conn \in ConnRecords
      /\ UNCHANGED <<pendingData, config>>
  BY DEF ProcessAlert, ConnInv, ControlOK, appVars
<1>4. path.buf = NoRecord /\ pendingData = 0 /\ IsPath(path) /\ path.lost = {}
  BY <1>3, BufInLoop DEF BufInv
<1>5. /\ p \in AlertContexts
      /\ p.flag = "SEND" /\ ~Final(p) => conn.state \in {"HANDSHAKING", "TRANSPORTING"}
  BY <1>1, <1>3, AlertIsCounted
<1>6. /\ o.path.lost = path.lost /\ AlertOnPath(o.path, o.alert, o.ret)
      /\ o.path.buf # NoRecord =>
           /\ o.conn.state = "ALERTING"
           /\ \/ o.alert.description = "CLOSE_NOTIFY"
              \/ p.flag # "RECV" /\ o.alert = p
  BY <1>3, <1>4, <1>5, ProcessedOnPath
<1>7. conn' = o.conn /\ alertCtx' = o.alert /\ path' = o.path
  BY <1>2 DEF Apply
<1>8. CASE o.path.buf = NoRecord
  <2>1. IsPath(o.path)
    BY <1>6 DEF AlertOnPath
  <2> QED
    BY <1>3, <1>4, <1>6, <1>7, <1>8, <2>1, QuietStep
<1>9. CASE o.path.buf # NoRecord
  <2>1. /\ IsPath(o.path) /\ o.ret \in Refusals
        /\ ~config.datagram /\ o.alert.flag = "SEND" /\ ~o.alert.isFlush
        /\ o.path.buf = Alert(o.alert.level, o.alert.description)
    BY <1>6, <1>9 DEF AlertOnPath, Unblocked
  <2>2. at' = "rest" /\ ret' = o.ret /\ call' = call /\ call \in Calls
    BY <1>2, <1>3, <2>1 DEF Return, ConnInv, LoopInv, ControlOK, Loops, HandshakeLoops, Calls
  <2>3. call = "Close" => Final(o.alert)
    <3>1. call = "Close" => conn.state = "CLOSED"
      BY <1>3 DEF ConnInv, LoopInv, ControlOK, Loops, HandshakeLoops
    <3>2. o.alert.description = "CLOSE_NOTIFY" \/ (o.alert = p /\ p.flag = "SEND")
      BY <1>6, <1>9, <2>1
    <3> QED
      BY <1>5, <3>1, <3>2 DEF Final
  <2>4. AlertHeld'
    BY <1>6, <1>7, <1>9, <2>1, <2>2, <2>3 DEF AlertHeld, CanRepeat, Final
  <2> QED
    BY <1>3, <1>4, <1>6, <1>7, <2>1, <2>4 DEF BufInv
<1> QED
  BY <1>8, <1>9

(* The calls: what waits is repeated, or never written. *)
LEMMA CallKeepsPath ==
  ASSUME ConnInv, BufInv, ~LeavesRecordBehind, NEW c \in Calls, Call(c)
  PROVE  BufInv'
<1>1. /\ at = "rest" /\ loop = "none" /\ at' = "entry" /\ call' = c
      /\ config.patient /\ ret \in Refusals => c = call
      /\ UNCHANGED <<conn, shutdown, hsState, pendingData, accepted, alertCtx, path, loop, config>>
  BY DEF Call, MayCall, ConnInv, LoopInv
<1>2. config.datagram \/ config.patient
  BY DEF LeavesRecordBehind
<1>3. pendingData # 0 => WriteHeld' /\ writing' = writing
  <2> SUFFICES ASSUME pendingData # 0 PROVE WriteHeld' /\ writing' = writing
    OBVIOUS
  <2>1. WriteHeld /\ config.patient
    BY <1>2 DEF BufInv
  <2>2. c = call /\ call = "Write"
    BY <1>1, <2>1 DEF WriteHeld, CanRepeat
  <2>3. writing' \in Buffers /\ Refusal
    BY <2>2 DEF Call, Refusal, ConnInv, DataOK
  <2>4. writing' = writing
    BY <2>1, <2>3 DEF Buffers
  <2> QED
    BY <1>1, <2>1, <2>2, <2>4 DEF WriteHeld, CanRepeat
<1>4. path.buf # NoRecord /\ HandshakeHeld => HandshakeHeld'
  BY <1>1, <1>2 DEF BufInv, HandshakeHeld, CanRepeat
<1>5. path.buf # NoRecord /\ AlertHeld => AlertHeld'
  BY <1>1, <1>2 DEF BufInv, AlertHeld, CanRepeat, Final
<1>6. Over => Over'
  BY <1>1 DEF Over
<1> QED
  BY <1>1, <1>3, <1>4, <1>5, <1>6 DEF BufInv

LEMMA PrepareKeepsPath ==
  ASSUME ConnInv, BufInv, ~LeavesRecordBehind, HITLS_Renegotiate \/ HITLS_KeyUpdate
  PROVE  BufInv'
<1>1. /\ at = "rest" /\ conn.state \in {"TRANSPORTING", "RENEGOTIATION"}
      /\ ~(config.patient /\ ret \in Refusals)
      /\ path' \in {path, UIO_Deinit(path)} /\ UNCHANGED <<pendingData, config>>
  BY DEF HITLS_Renegotiate, HITLS_KeyUpdate, MayCall, appVars, ConnInv, ControlOK, Calls
<1>2. path.buf = NoRecord /\ pendingData = 0 /\ IsPath(path)
  BY <1>1 DEF BufInv, WriteHeld, HandshakeHeld, AlertHeld, Over, CanRepeat, LeavesRecordBehind
<1> QED
  BY <1>1, <1>2, DrainKeeps, QuietStep

(* A connection that is ALERTING has no record but its alert. *)
LEMMA AlertingPath ==
  ASSUME ConnInv, BufInv, at = "entry", conn.state = "ALERTING"
  PROVE  /\ alertCtx \in AlertContexts /\ pendingData = 0 /\ IsPath(path) /\ path.lost = {}
         /\ path.buf = NoRecord \/ AlertHeld
         /\ Unblocked(path, alertCtx)
<1>1. pendingData = 0 /\ (path.buf = NoRecord \/ AlertHeld)
  BY DEF BufInv, WriteHeld, HandshakeHeld, Over
<1>2. Unblocked(path, alertCtx)
  BY <1>1 DEF BufInv, AlertHeld, Unblocked
<1> QED
  BY <1>1, <1>2 DEF ConnInv, ControlOK, BufInv

LEMMA AlertingKeepsPath ==
  ASSUME ConnInv, BufInv, UnsentAlert \/ CloseAlerting
  PROVE  BufInv'
<1>1. /\ at = "entry" /\ conn.state = "ALERTING" /\ call \in Calls
      /\ UNCHANGED <<pendingData, config>>
  BY DEF UnsentAlert, CloseAlerting, Entering, appVars, Calls
<1>2. PICK a \in AlertContexts :
        /\ Unblocked(path, a)
        /\ call = "Close" => Final(a)
        /\ \E o \in CommonEventInAlertingState(conn, a) :
             Apply(o) /\ (o.ret \in Refusals => Return(o.ret))
  <2>1. CASE UnsentAlert
    BY <1>1, <2>1, AlertingPath DEF UnsentAlert, Entering, Refusals
  <2>2. CASE CloseAlerting
    <3> DEFINE b == ALERT_Send(alertCtx, "WARNING", "CLOSE_NOTIFY")
    <3>1. alertCtx \in AlertContexts /\ alertCtx.flag = "SEND"
      BY <1>1 DEF ConnInv, ControlOK, AlertInv
    <3>2. b \in AlertContexts /\ Final(b)
      BY <3>1, SendAlert DEF Descriptions, Final
    <3>3. Unblocked(path, b)
      <4>1. CASE path.buf = NoRecord
        BY <4>1 DEF Unblocked
      <4>2. CASE AlertHeld
        <5>1. Final(alertCtx)
          BY <2>2, <4>2 DEF CloseAlerting, Entering, AlertHeld
        <5>2. alertCtx.level \in {"WARNING", "FATAL"}
          BY <3>1 DEF AlertContexts, Levels
        <5>3. b = alertCtx
          BY <3>1, <5>1, <5>2 DEF ALERT_Send, AlertIsAbnormalInput, Final
        <5> HIDE DEF b
        <5> QED
          BY <1>1, <5>3, AlertingPath
      <4> QED
        BY <1>1, <4>1, <4>2, AlertingPath
    <3> HIDE DEF b
    <3>4. \E o \in CommonEventInAlertingState(conn, b) :
            Apply(o) /\ (o.ret \in Refusals => Return(o.ret))
      BY <2>2 DEF CloseAlerting, Refusals, b
    <3> QED
      BY <3>2, <3>3, <3>4
  <2> QED
    BY <2>1, <2>2
<1>3. PICK o \in CommonEventInAlertingState(conn, a) :
        Apply(o) /\ (o.ret \in Refusals => Return(o.ret))
  BY <1>2
<1>4. pendingData = 0 /\ IsPath(path) /\ path.lost = {}
  BY <1>1, AlertingPath
<1>5. /\ o.path.lost = path.lost /\ AlertOnPath(o.path, o.alert, o.ret)
      /\ o.path.buf # NoRecord => o.alert = a /\ o.conn = conn
  BY <1>2, <1>3, <1>4, SentOnPath
<1>6. conn' = o.conn /\ alertCtx' = o.alert /\ path' = o.path
  BY <1>3 DEF Apply
<1>7. IsPath(o.path)
  BY <1>5 DEF AlertOnPath
<1>8. CASE o.path.buf = NoRecord
  BY <1>1, <1>4, <1>5, <1>6, <1>7, <1>8 DEF BufInv
<1>9. CASE o.path.buf # NoRecord
  <2>1. /\ o.ret \in Refusals /\ o.alert = a /\ o.conn = conn
        /\ ~config.datagram /\ a.flag = "SEND" /\ ~a.isFlush
        /\ o.path.buf = Alert(a.level, a.description)
    BY <1>5, <1>9 DEF AlertOnPath, Unblocked
  <2>2. at' = "rest" /\ ret' = o.ret /\ call' = call
    BY <1>3, <2>1 DEF Return
  <2>3. AlertHeld'
    BY <1>1, <1>2, <1>6, <2>1, <2>2 DEF AlertHeld, CanRepeat, Final
  <2> QED
    BY <1>1, <1>4, <1>5, <1>6, <1>7, <2>1, <2>3 DEF BufInv
<1> QED
  BY <1>8, <1>9

(* The calls that enter a loop, or have nothing to do. *)
LEMMA EnterKeepsPath ==
  ASSUME ConnInv, BufInv, ConnectIdle \/ EnterLoop \/ EnterClosed \/ NothingToDo \/ CloseAgain
  PROVE  BufInv'
<1>1. /\ at = "entry" /\ call \in Calls
      /\ UNCHANGED <<shutdown, pendingData, writing, path, config>>
  BY DEF ConnectIdle, EnterLoop, EnterClosed, NothingToDo, CloseAgain, Entering, appVars, Calls
<1>2. CASE ConnectIdle
  <2>1. path.buf = NoRecord /\ pendingData = 0
    BY <1>1, <1>2 DEF ConnectIdle, Entering, BufInv, WriteHeld, HandshakeHeld, AlertHeld, Over
  <2> QED
    BY <1>1, <2>1 DEF BufInv
<1>3. CASE EnterLoop
  <2>1. /\ conn.state \in {"HANDSHAKING", "TRANSPORTING", "RENEGOTIATION"}
        /\ at' = "run" /\ call' = call /\ UNCHANGED <<conn, hsState>>
        /\ \/ conn.state = "HANDSHAKING" /\ loop' = "handshaking"
           \/ conn.state = "TRANSPORTING" /\ loop' = "transporting"
           \/ /\ conn.state = "RENEGOTIATION"
              /\ loop' = IF call = "Write" /\ pendingData # 0 THEN "transporting" ELSE "renegotiation"
    BY <1>3 DEF EnterLoop, Entering, GoOn
  <2>2. pendingData # 0 => WriteHeld'
    <3> SUFFICES ASSUME pendingData # 0 PROVE WriteHeld'
      OBVIOUS
    <3>1. WriteHeld
      BY DEF BufInv
    <3> QED
      BY <1>1, <2>1, <3>1 DEF WriteHeld, CanRepeat
  <2>3. path.buf # NoRecord /\ pendingData = 0 => HandshakeHeld'
    <3> SUFFICES ASSUME path.buf # NoRecord, pendingData = 0 PROVE HandshakeHeld'
      OBVIOUS
    <3>1. HandshakeHeld
      BY <2>1 DEF BufInv, AlertHeld, Over
    <3>2. loop' \in HandshakeLoops
      BY <2>1, <3>1 DEF HandshakeHeld, HandshakeLoops
    <3> QED
      BY <1>1, <2>1, <3>1, <3>2 DEF HandshakeHeld, CanRepeat
  <2> QED
    BY <1>1, <2>2, <2>3 DEF BufInv
<1>4. CASE EnterClosed \/ CloseAgain
  <2>1. /\ conn.state = "CLOSED" /\ at' = "run" /\ loop' = "closed" /\ call' = call
        /\ UNCHANGED conn
    BY <1>4 DEF EnterClosed, CloseAgain, Entering, GoOn
  <2>2. ~Over
    BY <1>4, <2>1 DEF EnterClosed, CloseAgain, HalfOpen, Over
  <2>3. path.buf # NoRecord => pendingData # 0
    BY <2>1, <2>2 DEF BufInv, HandshakeHeld, AlertHeld
  <2>4. pendingData # 0 => WriteHeld'
    <3> SUFFICES ASSUME pendingData # 0 PROVE WriteHeld'
      OBVIOUS
    <3>1. WriteHeld
      BY DEF BufInv
    <3> QED
      BY <1>1, <2>1, <3>1 DEF WriteHeld, CanRepeat
  <2> QED
    BY <1>1, <2>3, <2>4 DEF BufInv
<1>5. CASE NothingToDo
  <2>1. /\ at' = "rest" /\ UNCHANGED conn
        /\ \/ conn.state = "TRANSPORTING" /\ call = "Connect"
           \/ conn.state \in {"IDLE", "ALERTED"}
           \/ conn.state = "CLOSED" /\ ~HalfOpen
    BY <1>5 DEF NothingToDo, Entering, Return
  <2>2. pendingData = 0
    BY <2>1 DEF BufInv, WriteHeld, HalfOpen
  <2>3. path.buf # NoRecord => Over'
    BY <1>1, <2>1, <2>2 DEF BufInv, HandshakeHeld, AlertHeld, Over
  <2> QED
    BY <1>1, <2>2, <2>3 DEF BufInv
<1> QED
  BY <1>2, <1>3, <1>4, <1>5

LEMMA CloseKeepsPath ==
  ASSUME ConnInv, BufInv, CloseAtOnce \/ CloseOpen
  PROVE  BufInv'
<1>1. /\ at = "entry" /\ call = "Close" /\ at' = "rest"
      /\ UNCHANGED <<pendingData, config>>
  BY DEF CloseAtOnce, CloseOpen, Entering, Return, appVars
<1>2. pendingData = 0 /\ IsPath(path) /\ path.lost = {}
  BY <1>1 DEF BufInv, WriteHeld
<1>3. conn \in ConnRecords /\ alertCtx \in AlertContexts
  BY DEF ConnInv, ControlOK
<1>4. CASE CloseAtOnce
  <2>1. conn'.state = "CLOSED" /\ shutdown' = {"SENT", "RECEIVED"} /\ path' = path
    BY <1>3, <1>4, ChangeState DEF CloseAtOnce, States
  <2>2. Over'
    BY <1>1, <2>1 DEF Over
  <2> QED
    BY <1>1, <1>2, <2>1, <2>2 DEF BufInv
<1>5. CASE CloseOpen
  <2>1. conn.state \in {"HANDSHAKING", "TRANSPORTING", "RENEGOTIATION", "CLOSED"}
    BY <1>5 DEF CloseOpen, Entering
  <2>2. path.buf = NoRecord \/ Over
    BY <1>1, <1>2, <2>1 DEF BufInv, HandshakeHeld, AlertHeld
  <2>3. CASE "SENT" \in shutdown
    <3>1. /\ path' = path /\ conn' = ChangeConnState(conn, "CLOSED")
          /\ \E t : t \subseteq {"RECEIVED"} /\ shutdown' = shutdown \cup {"SENT"} \cup t
      <4> DEFINE both == IF conn.state \in {"HANDSHAKING", "RENEGOTIATION"} THEN {"RECEIVED"} ELSE {}
      <4>1. both \subseteq {"RECEIVED"}
        OBVIOUS
      <4>2. PICK f \in {Flushed(path, alertCtx, "SUCCESS")} :
              /\ path' = f.path
              /\ f.ret = "SUCCESS" => /\ shutdown' = shutdown \cup {"SENT"} \cup both
                                     /\ conn' = ChangeConnState(conn, "CLOSED")
        BY <1>5, <2>3 DEF CloseOpen
      <4>3. f.path = path /\ f.ret = "SUCCESS"
        BY DEF Flushed
      <4>4. \E t : t \subseteq {"RECEIVED"} /\ shutdown' = shutdown \cup {"SENT"} \cup t
        <5> HIDE DEF both
        <5> WITNESS both
        <5> QED
          BY <4>1, <4>2, <4>3
      <4> QED
        BY <4>2, <4>3, <4>4
    <3>2. Over => Over'
      <4> SUFFICES ASSUME Over PROVE Over'
        OBVIOUS
      <4>1. shutdown = {"SENT", "RECEIVED"}
        BY <2>1 DEF Over
      <4>2. shutdown' = {"SENT", "RECEIVED"}
        BY <3>1, <4>1
      <4>3. conn'.state = "CLOSED"
        BY <1>3, <3>1, ChangeState DEF States
      <4> QED
        BY <1>1, <4>2, <4>3 DEF Over
    <3> QED
      BY <1>1, <1>2, <2>2, <3>1, <3>2 DEF BufInv
  <2>4. CASE "SENT" \notin shutdown
    <3> DEFINE a == ALERT_Send(alertCtx, "WARNING", "CLOSE_NOTIFY")
    <3>1. path.buf = NoRecord
      BY <2>1, <2>2, <2>4 DEF Over
    <3>2. /\ a \in AlertContexts
          /\ a.flag = "SEND" => Final(a)
      <4>1. alertCtx.flag = "NO"
        BY <1>1, <2>1, <2>4 DEF ConnInv, AlertInv, OpenStates
      <4> QED
        BY <1>3, <4>1, SendAlert DEF Descriptions, Final
    <3>3. PICK f \in ALERT_Flush(a) :
            /\ path' = f.path /\ alertCtx' = f.alert /\ Return(f.ret)
            /\ f.ret # "SUCCESS" => conn' = ChangeConnState(conn, UnsentCloseState(conn.state))
      BY <1>5, <2>4 DEF CloseOpen
    <3> HIDE DEF a
    <3>4. /\ f.path.lost = path.lost /\ AlertOnPath(f.path, f.alert, f.ret)
          /\ f.path.buf # NoRecord => f.alert = a
      BY <1>2, <3>1, <3>2, <3>3, AlertKeeps DEF Unblocked
    <3>5. IsPath(f.path)
      BY <3>4 DEF AlertOnPath
    <3>6. CASE f.path.buf = NoRecord
      BY <1>1, <1>2, <3>1, <3>3, <3>4, <3>5, <3>6, QuietStep
    <3>7. CASE f.path.buf # NoRecord
      <4>1. /\ f.ret \in Refusals /\ f.alert = a /\ ~config.datagram
            /\ a.flag = "SEND" /\ ~a.isFlush /\ f.path.buf = Alert(a.level, a.description)
        BY <3>4, <3>7 DEF AlertOnPath, Unblocked
      <4>2. ret' = f.ret /\ call' = "Close" /\ at' = "rest"
        BY <1>1, <3>3, <4>1 DEF Return
      <4>3. \/ conn'.state = "ALERTED"
            \/ conn'.state = "ALERTING"
        BY <1>3, <3>3, <4>1, ChangeState DEF UnsentCloseState, Refusals, States
      <4>4. CASE conn'.state = "ALERTED"
        <5>1. Over'
          BY <4>2, <4>4 DEF Over
        <5> QED
          BY <1>1, <1>2, <3>3, <3>4, <3>5, <4>1, <5>1 DEF BufInv
      <4>5. CASE conn'.state = "ALERTING"
        <5>1. AlertHeld'
          BY <3>2, <3>3, <4>1, <4>2, <4>5 DEF AlertHeld, CanRepeat, Calls, Final
        <5> QED
          BY <1>1, <1>2, <3>3, <3>4, <3>5, <4>1, <5>1 DEF BufInv
      <4> QED
        BY <4>3, <4>4, <4>5
    <3> QED
      BY <3>6, <3>7
  <2> QED
    BY <2>3, <2>4
<1> QED
  BY <1>4, <1>5

LEMMA InitPath == Init => PathInv
<1> SUFFICES ASSUME Init PROVE BufInv
  BY DEF PathInv
<1>1. IsPath(path) /\ path.lost = {} /\ path.buf = NoRecord
  BY DEF Init, EmptyPath, IsPath
<1> QED
  BY <1>1 DEF Init, BufInv

LEMMA NextPath == ConnInv /\ PathInv /\ [Next]_vars => PathInv'
<1> SUFFICES ASSUME ConnInv, PathInv, [Next]_vars, ~LeavesRecordBehind' PROVE BufInv'
  BY DEF PathInv
<1>1. config' = config
  BY DEF Next, Application, Dispatch, Turn, Call, HITLS_Renegotiate, HITLS_KeyUpdate,
         UnsentAlert, ConnectIdle, EnterLoop, EnterClosed, NothingToDo,
         CloseAtOnce, CloseOpen, CloseAlerting, CloseAgain,
         HsSend, HsFlushFails, HsRecv, HsRefuse, HsRecvFails, HsWriteMeanwhile,
         HsUnexpectedApp, HsAllowedApp, HsDone, HsNullContext,
         ReadData, ReadFails, ReadHandshakeClosed, ReadRenegotiationRequest,
         ReadRefusedRequest, ReadPostHandshake, ReadRefusedHandshake, TakeHandshake, TwoMslTimeout,
         WriteBadRetry, WriteData, ProcessAlert, vars
<1>2. ~LeavesRecordBehind /\ BufInv
  BY <1>1 DEF LeavesRecordBehind, PathInv
<1>3. CASE Application
  BY <1>2, <1>3, CallKeepsPath, PrepareKeepsPath DEF Application
<1>4. CASE Dispatch
  BY <1>2, <1>4, AlertingKeepsPath, EnterKeepsPath, CloseKeepsPath DEF Dispatch
<1>5. CASE TwoMslTimeout
  <2>1. /\ config.datagram /\ path' = UIO_Deinit(path) /\ UNCHANGED pendingData
    BY <1>5 DEF TwoMslTimeout, HS_DeInit, appVars
  <2>2. path.buf = NoRecord /\ pendingData = 0 /\ IsPath(path)
    BY <1>2, <2>1 DEF BufInv
  <2> QED
    BY <1>2, <2>1, <2>2, DrainKeeps, QuietStep
<1>6. CASE Turn /\ ~TwoMslTimeout
  BY <1>2, <1>6, TurnKeepsPath, HsSendKeepsPath, WriteKeepsPath, ProcessAlertKeepsPath DEF Turn
<1>7. CASE UNCHANGED vars
  <2>1. UNCHANGED <<conn, shutdown, hsState, pendingData, writing, accepted, alertCtx, path,
                    call, at, loop, ret, config>>
    BY <1>7 DEF vars, progress, flags, appVars
  <2>2. WriteHeld' = WriteHeld /\ HandshakeHeld' = HandshakeHeld /\ Over' = Over
    BY <2>1 DEF WriteHeld, HandshakeHeld, Over, CanRepeat
  <2>3. AlertHeld' = AlertHeld
    BY <2>1 DEF AlertHeld, CanRepeat, Final
  <2> QED
    BY <1>2, <2>1, <2>2, <2>3 DEF BufInv
<1> QED
  BY <1>3, <1>4, <1>5, <1>6, <1>7 DEF Next

(* Every REC_Write that returned success wrote the record it was given, for  *)
(* an application that repeats what was refused and for every one of DTLS.   *)
THEOREM NothingIsSwallowed == Spec => []NothingSwallowed
<1>1. Init => PathInv
  BY InitPath
<1>2. ConnInv /\ PathInv /\ [Next]_vars => PathInv'
  BY NextPath
<1>3. PathInv => NothingSwallowed
  BY DEF PathInv, BufInv, NothingSwallowed
<1> QED
  BY <1>1, <1>2, <1>3, ConnAlways, PTL DEF Spec
=============================================================================
