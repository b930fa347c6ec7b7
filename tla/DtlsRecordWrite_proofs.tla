------------------------ MODULE DtlsRecordWrite_proofs -----------------------
(***************************************************************************)
(* Theorems about the writing half of an endpoint, for every limit of the  *)
(* sequence numbers and any number of handshakes: types and record numbers *)
(* with or without resumption in renegotiations, epochs and flights        *)
(* without, which is the default of the code.                              *)
(***************************************************************************)
EXTENDS DtlsRecordWrite, SequenceTheorems, TLAPS

-----------------------------------------------------------------------------
(* Type correctness.                                                       *)

Record == [msg : Message, keys : Nat, epoch : Nat, num : Nat \X Nat]

(* What the types say of the variables that writing a record changes. *)
LEMMA TransmitType ==
  ASSUME TypeOK, NEW m \in Message, CanWrite, Transmit(m)
  PROVE  /\ sent' \subseteq Record
         /\ reused' \subseteq Nat \X Nat
         /\ Written \in ConnState
         /\ EpochSeq(current.epoch, current.seq) = <<current.epoch, current.seq>>
<1> DEFINE num == EpochSeq(current.epoch, current.seq)
<1>1. /\ current \in ConnState
      /\ current.keys \in Nat /\ current.epoch \in Nat /\ current.seq \in Nat
  BY DEF TypeOK, CanWrite, ConnState
<1>2. num = <<current.epoch, current.seq>> /\ num \in Nat \X Nat
  BY <1>1 DEF EpochSeq, CanWrite
<1> HIDE DEF num
<1>3. [msg |-> m, keys |-> current.keys, epoch |-> current.epoch, num |-> num] \in Record
  BY <1>1, <1>2 DEF Record
<1>4. sent \subseteq Record /\ reused \subseteq Nat \X Nat
  BY DEF TypeOK, Record
<1>5. /\ sent' = sent \cup {[msg |-> m, keys |-> current.keys,
                             epoch |-> current.epoch, num |-> num]}
      /\ reused' = IF \E s \in sent : s.num = num THEN reused \cup {num} ELSE reused
  BY DEF Transmit, num
<1>6. Written \in ConnState
  BY <1>1 DEF Written, ConnState
<1> QED
  BY <1>2, <1>3, <1>4, <1>5, <1>6 DEF num

(* Appending to the list and cleaning it keep its type. *)
LEMMA ListType ==
  ASSUME TypeOK
  PROVE  /\ \A m \in Message : ListAppend(m) =>
              /\ retransmitList' \in Seq(Message) /\ isExistCcsMsg' \in BOOLEAN
              /\ Len(retransmitList') = Len(retransmitList) + 1
         /\ ListClean => /\ retransmitList' \in Seq(Message) /\ isExistCcsMsg' \in BOOLEAN
                         /\ Len(retransmitList') = 0
         /\ Len(retransmitList) \in Nat
         /\ \A i \in 1 .. Len(retransmitList) : retransmitList[i] \in Message
<1>1. retransmitList \in Seq(Message) /\ isExistCcsMsg \in BOOLEAN
  BY DEF TypeOK
<1>2. \A m \in Message : ListAppend(m) =>
        /\ retransmitList' \in Seq(Message) /\ isExistCcsMsg' \in BOOLEAN
        /\ Len(retransmitList') = Len(retransmitList) + 1
  BY <1>1, AppendProperties DEF ListAppend
<1>3. ListClean => /\ retransmitList' \in Seq(Message) /\ isExistCcsMsg' \in BOOLEAN
                   /\ Len(retransmitList') = 0
  BY EmptySeq DEF ListClean
<1>4. /\ Len(retransmitList) \in Nat
      /\ \A i \in 1 .. Len(retransmitList) : retransmitList[i] \in Message
  BY <1>1, LenProperties, ElementOfSeq
<1> QED
  BY <1>2, <1>3, <1>4

(* The messages an endpoint makes are messages. *)
LEMMA MsgType ==
  ASSUME TypeOK, NEW t \in HandshakeTypes \cup {"CCS", "APP"}
  PROVE  /\ Msg(t) \in Message
         /\ [type |-> t, hs |-> handshakes + 1] \in Message
BY RecordWriteAssumption DEF Msg, Message, TypeOK

(* A new connection state is a connection state. *)
LEMMA NewStateType == ASSUME TypeOK PROVE NewState(handshakes) \in ConnState
BY RecordWriteAssumption DEF NewState, ConnState, TypeOK

(* Switching to the pending state keeps the write states typed. *)
LEMMA ActivePendingType ==
  ASSUME TypeOK, NEW now \in ConnState, pending # NULL, ActivePendingState(now)
  PROVE  /\ current' \in ConnState /\ outdated' \in ConnState /\ pending' = NULL
         /\ writeEpoch' \in Nat
BY DEF ActivePendingState, TypeOK, ConnState

(* Starting a retransmission keeps the types. *)
LEMMA FlushStartType ==
  ASSUME TypeOK, FlushStart
  PROVE  /\ current' \in ConnState \cup {NULL}
         /\ outdated' \in ConnState \cup {NULL}
         /\ pending' \in ConnState \cup {NULL}
         /\ flush' = 1
BY DEF TypeOK, FlushStart, ActiveOutdatedWriteState

(* Every send of a handshake message: what SendHandshakeMsg preserves. *)
LEMMA SendType ==
  ASSUME TypeOK, NEW m \in Message, SendHandshakeMsg(m)
  PROVE  /\ flush = 0
         /\ current' \in ConnState
         /\ retransmitList' \in Seq(Message) /\ isExistCcsMsg' \in BOOLEAN
         /\ Len(retransmitList') \in Nat
         /\ sent' \subseteq Record /\ reused' \subseteq Nat \X Nat
<1>1. /\ flush = 0 /\ CanWrite /\ Transmit(m) /\ current' = Written /\ ListAppend(m)
  BY DEF SendHandshakeMsg
<1>2. /\ sent' \subseteq Record /\ reused' \subseteq Nat \X Nat /\ Written \in ConnState
  BY <1>1, TransmitType
<1>3. /\ retransmitList' \in Seq(Message) /\ isExistCcsMsg' \in BOOLEAN
      /\ Len(retransmitList') \in Nat
  BY <1>1, ListType
<1> QED
  BY <1>1, <1>2, <1>3

(* A step that sends a handshake message and leaves the rest to its guard     *)
(* keeps the types.                                                           *)
LEMMA SendKeepsType ==
  ASSUME TypeOK, NEW m \in Message, SendHandshakeMsg(m),
         UNCHANGED <<isClient, outdated, writeEpoch, flush>>,
         UNCHANGED <<hsCtx, isResume, handshakes, failed>>,
         pending' \in ConnState \cup {NULL}, hsState' \in HsStates,
         timer' \in {"none", "handshake", "2msl"}
  PROVE  TypeOK'
<1>1. /\ current' \in ConnState /\ sent' \subseteq Record /\ reused' \subseteq Nat \X Nat
      /\ retransmitList' \in Seq(Message) /\ isExistCcsMsg' \in BOOLEAN
      /\ flush' \in 0 .. Len(retransmitList') + 1
  BY SendType
<1>2. /\ isClient' \in BOOLEAN /\ outdated' \in ConnState \cup {NULL} /\ writeEpoch' \in Nat
      /\ hsCtx' \in BOOLEAN
      /\ isResume' \in BOOLEAN /\ handshakes' \in 1 .. MaxHandshakes /\ failed' \in BOOLEAN
  BY DEF TypeOK
<1> QED
  BY <1>1, <1>2 DEF TypeOK, Record

(* The initial states are typed. *)
LEMMA InitType == Init => TypeOK
<1> SUFFICES ASSUME Init PROVE TypeOK
  OBVIOUS
<1>1. <<>> \in Seq(Message) /\ Len(<<>>) = 0
  BY EmptySeq
<1>2. current \in ConnState
  BY DEF Init, NewState, ConnState
<1>3. /\ retransmitList \in Seq(Message) /\ flush \in 0 .. Len(retransmitList) + 1
      /\ handshakes \in 1 .. MaxHandshakes
  BY <1>1, RecordWriteAssumption DEF Init
<1>4. hsState \in HsStates /\ isClient \in BOOLEAN
  BY DEF Init, HsStates
<1> QED
  BY <1>2, <1>3, <1>4 DEF Init, TypeOK

(* Every action keeps the types. *)
LEMMA NextType == TypeOK /\ [Next]_vars => TypeOK'
<1> SUFFICES ASSUME TypeOK, [Next]_vars PROVE TypeOK'
  OBVIOUS
<1> USE ListType DEF HsStates, stateVars, listVars, hsVars, historyVars
<1>1. CASE SendClientHello
  <2>1. SendHandshakeMsg(Msg("CLIENT_HELLO")) /\ Msg("CLIENT_HELLO") \in Message
    BY <1>1, MsgType DEF SendClientHello, HandshakeTypes
  <2>2. /\ UNCHANGED <<isClient, outdated, writeEpoch, flush>>
        /\ UNCHANGED <<hsCtx, isResume, handshakes, failed>>
        /\ pending' \in ConnState \cup {NULL} /\ hsState' \in HsStates
        /\ timer' \in {"none", "handshake", "2msl"}
    BY <1>1 DEF SendClientHello, TypeOK
  <2> QED
    BY <2>1, <2>2, SendKeepsType
<1>2. CASE RecvHelloVerifyRequest
  BY <1>2 DEF RecvHelloVerifyRequest, TypeOK
<1>3. CASE RecvServerHelloResume
  BY <1>3, NewStateType DEF RecvServerHelloResume, InitPendingState, TypeOK
<1>4. CASE RecvServerHelloDone
  <2>1. flush = 0 /\ ListClean /\ flush' = 0
    BY <1>4 DEF RecvServerHelloDone
  <2>2. flush' \in 0 .. Len(retransmitList') + 1
    BY <2>1
  <2> QED
    BY <1>4, <2>1, <2>2 DEF RecvServerHelloDone, TypeOK
<1>5. CASE SendClientKeyExchange
  <2>1. /\ SendHandshakeMsg(Msg("CLIENT_KEY_EXCHANGE"))
        /\ Msg("CLIENT_KEY_EXCHANGE") \in Message
    BY <1>5, MsgType DEF SendClientKeyExchange, HandshakeTypes
  <2>2. pending' \in ConnState \cup {NULL} /\ hsState' \in HsStates
    BY <1>5, NewStateType DEF SendClientKeyExchange, InitPendingState, TypeOK
  <2>3. /\ UNCHANGED <<isClient, outdated, writeEpoch, flush>>
        /\ UNCHANGED <<hsCtx, isResume, handshakes, failed>>
        /\ timer' \in {"none", "handshake", "2msl"}
    BY <1>5 DEF SendClientKeyExchange, TypeOK
  <2> QED
    BY <2>1, <2>2, <2>3, SendKeepsType
<1>6. CASE SendHelloRequest
  <2> DEFINE m == [type |-> "HELLO_REQUEST", hs |-> handshakes + 1]
  <2>1. SendHandshakeMsg(m) /\ m \in Message
    BY <1>6, MsgType DEF SendHelloRequest, HandshakeTypes
  <2>2. /\ UNCHANGED <<isClient, outdated, writeEpoch, flush>>
        /\ UNCHANGED <<hsCtx, isResume, handshakes, failed>>
        /\ pending' \in ConnState \cup {NULL} /\ hsState' \in HsStates
        /\ timer' \in {"none", "handshake", "2msl"}
    BY <1>6 DEF SendHelloRequest, TypeOK
  <2> HIDE DEF m
  <2> QED
    BY <2>1, <2>2, SendKeepsType
<1>7. CASE RecvClientHello
  BY ZenonT(60), <1>7 DEF RecvClientHello, TypeOK
<1>8. CASE SendHelloVerifyRequest
  <2>1. /\ CanWrite /\ Transmit(Msg("HELLO_VERIFY_REQUEST"))
        /\ Msg("HELLO_VERIFY_REQUEST") \in Message
    BY <1>8, MsgType DEF SendHelloVerifyRequest, HandshakeTypes
  <2> QED
    BY <1>8, <2>1, TransmitType DEF SendHelloVerifyRequest, TypeOK, Record
<1>9. CASE SendServerHello
  <2>1. SendHandshakeMsg(Msg("SERVER_HELLO")) /\ Msg("SERVER_HELLO") \in Message
    BY <1>9, MsgType DEF SendServerHello, HandshakeTypes
  <2>2. pending' \in ConnState \cup {NULL} /\ hsState' \in HsStates
    BY <1>9, NewStateType DEF SendServerHello, InitPendingState, TypeOK
  <2>3. /\ UNCHANGED <<isClient, outdated, writeEpoch, flush>>
        /\ UNCHANGED <<hsCtx, isResume, handshakes, failed>>
        /\ timer' \in {"none", "handshake", "2msl"}
    BY <1>9 DEF SendServerHello, TypeOK
  <2> QED
    BY <2>1, <2>2, <2>3, SendKeepsType
<1>10. CASE SendServerHelloDone
  <2>1. SendHandshakeMsg(Msg("SERVER_HELLO_DONE")) /\ Msg("SERVER_HELLO_DONE") \in Message
    BY <1>10, MsgType DEF SendServerHelloDone, HandshakeTypes
  <2>2. /\ UNCHANGED <<isClient, outdated, writeEpoch, flush>>
        /\ UNCHANGED <<hsCtx, isResume, handshakes, failed>>
        /\ pending' \in ConnState \cup {NULL} /\ hsState' \in HsStates
        /\ timer' \in {"none", "handshake", "2msl"}
    BY <1>10 DEF SendServerHelloDone, TypeOK
  <2> QED
    BY <2>1, <2>2, SendKeepsType
<1>11. CASE RecvClientKeyExchange
  BY <1>11, NewStateType DEF RecvClientKeyExchange, InitPendingState, TypeOK
<1>12. CASE SendChangeCipherSpec
  <2>1. /\ CanWrite /\ Transmit(Msg("CCS")) /\ ListAppend(Msg("CCS"))
        /\ Msg("CCS") \in Message
    BY <1>12, MsgType DEF SendChangeCipherSpec
  <2>2. /\ sent' \subseteq Record /\ reused' \subseteq Nat \X Nat /\ Written \in ConnState
    BY <2>1, TransmitType
  <2>3. CASE pending # NULL
    <3>1. ActivePendingState(Written)
      BY <1>12, <2>3 DEF SendChangeCipherSpec
    <3> QED
      BY <1>12, <2>1, <2>2, <2>3, <3>1, ActivePendingType
      DEF SendChangeCipherSpec, TypeOK, Record
  <2>4. CASE pending = NULL
    BY <1>12, <2>1, <2>2, <2>4 DEF SendChangeCipherSpec, TypeOK, Record
  <2> QED
    BY <2>3, <2>4
<1>13. CASE SendFinished
  <2>1. SendHandshakeMsg(Msg("FINISHED")) /\ Msg("FINISHED") \in Message
    BY <1>13, MsgType DEF SendFinished, HandshakeTypes
  <2>2. /\ UNCHANGED <<isClient, outdated, writeEpoch, flush>>
        /\ UNCHANGED <<hsCtx, isResume, handshakes, failed>>
        /\ pending' \in ConnState \cup {NULL} /\ hsState' \in HsStates
        /\ timer' \in {"none", "handshake", "2msl"}
    BY <1>13 DEF SendFinished, TypeOK
  <2> QED
    BY <2>1, <2>2, SendKeepsType
<1>14. CASE RecvFinished
  BY <1>14 DEF RecvFinished, TypeOK
<1>15. CASE Timeout
  BY <1>15, FlushStartType DEF Timeout, FlushStart, TypeOK
<1>16. CASE FlushNode
  <2>1. retransmitList[flush] \in Message /\ flush + 1 \in 0 .. Len(retransmitList) + 1
    BY <1>16 DEF FlushNode
  <2>2. PICK written \in BOOLEAN :
          LET now == IF written THEN Written ELSE current IN
          /\ IF written THEN CanWrite /\ Transmit(retransmitList[flush])
                        ELSE UNCHANGED historyVars
          /\ IF retransmitList[flush].type = "CCS"
             THEN DeActiveOutdatedWriteState(now)
             ELSE current' = now /\ UNCHANGED <<outdated, pending>>
    BY <1>16 DEF FlushNode
  <2> DEFINE now == IF written THEN Written ELSE current
  <2>3. now \in ConnState /\ sent' \subseteq Record /\ reused' \subseteq Nat \X Nat
    <3>1. CASE written = TRUE
      BY <2>1, <2>2, <3>1, TransmitType
    <3>2. CASE written = FALSE
      BY <1>16, <2>2, <3>2 DEF FlushNode, TypeOK, Record
    <3> QED
      BY <3>1, <3>2
  <2>4. /\ current' \in ConnState \cup {NULL}
        /\ outdated' \in ConnState \cup {NULL}
        /\ pending' \in ConnState \cup {NULL}
    BY <2>2, <2>3 DEF DeActiveOutdatedWriteState, TypeOK
  <2> HIDE DEF now
  <2> QED
    BY <1>16, <2>1, <2>3, <2>4 DEF FlushNode, TypeOK, Record
<1>17. CASE FlushEnd
  BY <1>17 DEF FlushEnd, TypeOK
<1>18. CASE WriteApp
  <2>1. CanWrite /\ Transmit(Msg("APP")) /\ Msg("APP") \in Message
    BY <1>18, MsgType DEF WriteApp
  <2> QED
    BY <1>18, <2>1, TransmitType DEF WriteApp, TypeOK, Record
<1>19. CASE ReadApp
  BY ZenonT(60), <1>19 DEF ReadApp, TypeOK
<1>20. CASE Release2Msl
  <2>1. flush = 0 /\ ListClean
    BY <1>20 DEF Release2Msl, Connected
  <2>2. flush' \in 0 .. Len(retransmitList') + 1
    BY <1>20, <2>1 DEF Release2Msl
  <2> QED
    BY ZenonT(60), <1>20, <2>1, <2>2 DEF Release2Msl, TypeOK
<1>21. CASE PostHandshakeFinished
  <2>1. CASE LastFlight
    BY <1>21, <2>1, FlushStartType DEF PostHandshakeFinished, FlushStart, TypeOK
  <2>2. CASE ~LastFlight
    BY <1>21, <2>2 DEF PostHandshakeFinished, TypeOK
  <2> QED
    BY <2>1, <2>2
<1>22. CASE Renegotiate
  <2>1. handshakes' \in 1 .. MaxHandshakes
    BY <1>22, RecordWriteAssumption DEF Renegotiate, TypeOK
  <2> QED
    BY <1>22, <2>1 DEF Renegotiate, Connected, TypeOK
<1>23. CASE PeerRenegotiates
  <2>1. handshakes' \in 1 .. MaxHandshakes
    BY <1>23, RecordWriteAssumption DEF PeerRenegotiates, TypeOK
  <2> QED
    BY <1>23, <2>1 DEF PeerRenegotiates, Connected, TypeOK
<1>24. CASE UNCHANGED vars
  BY <1>24 DEF vars, TypeOK
<1> QED
  BY <1>1, <1>2, <1>3, <1>4, <1>5, <1>6, <1>7, <1>8, <1>9, <1>10, <1>11, <1>12,
     <1>13, <1>14, <1>15, <1>16, <1>17, <1>18, <1>19, <1>20, <1>21, <1>22, <1>23,
     <1>24 DEF Next

(* The variables keep their types; in particular no more is resent than    *)
(* the retransmission list holds.                                          *)
THEOREM WriteTypeCorrect == Spec => []TypeOK
<1> QED
  BY InitType, NextType, PTL DEF Spec

-----------------------------------------------------------------------------
(* Record numbers.                                                         *)

(* Every number written in the epoch of state st is below its next one. *)
Tracks(st) ==
  st # NULL => /\ st.epoch <= writeEpoch
               /\ \A s \in sent : s.num[1] = st.epoch => s.num[2] < st.seq

Distinct(st, tt) == st # NULL /\ tt # NULL => st.epoch # tt.epoch

(* The retransmission under way has yet to come to a ChangeCipherSpec; the *)
(* state it set aside, in pending, will be used again.                     *)
CcsAhead ==
  /\ flush # 0
  /\ \E i \in flush .. Len(retransmitList) : retransmitList[i].type = "CCS"

(* A ChangeCipherSpec on the list is always announced by its flag. *)
ListInv ==
  (\E i \in 1 .. Len(retransmitList) : retransmitList[i].type = "CCS") => isExistCcsMsg

(* The inductive strengthening of NumberOnce: write states have epochs of  *)
(* their own and count what was written in them; a pending state that was  *)
(* never current is not mistaken for one that was set aside.               *)
NumberInv ==
  /\ reused = {}
  /\ \A s \in sent : s.num[1] <= writeEpoch
  /\ Tracks(current) /\ Tracks(outdated) /\ Distinct(current, outdated)
  /\ CcsAhead => Tracks(pending) /\ Distinct(pending, current) /\ Distinct(pending, outdated)
  /\ ListInv

(* What of NumberInv a step must keep that writes no record. *)
SameNumbers == UNCHANGED <<reused, sent, writeEpoch, current, outdated>>

(* A step that writes nothing and switches nothing keeps NumberInv. *)
LEMMA QuietStep ==
  ASSUME NumberInv, SameNumbers, flush' = 0, ListInv'
  PROVE  NumberInv'
BY DEF NumberInv, SameNumbers, ListInv, Tracks, Distinct, CcsAhead

(* Appending to the list, cleaning it or leaving it keeps ListInv. *)
LEMMA ListInvKept ==
  ASSUME TypeOK, ListInv
  PROVE  /\ \A m \in Message : ListAppend(m) => ListInv'
         /\ ListClean => ListInv'
         /\ UNCHANGED listVars => ListInv'
<1>1. ASSUME NEW m \in Message, ListAppend(m) PROVE ListInv'
  <2>1. /\ retransmitList \in Seq(Message) /\ isExistCcsMsg \in BOOLEAN
    BY DEF TypeOK
  <2>2. /\ Len(retransmitList') = Len(retransmitList) + 1 /\ Len(retransmitList) \in Nat
        /\ \A i \in 1 .. Len(retransmitList) : retransmitList'[i] = retransmitList[i]
        /\ retransmitList'[Len(retransmitList) + 1] = m
    BY <1>1, <2>1, AppendProperties, LenProperties DEF ListAppend
  <2>3. isExistCcsMsg' = (isExistCcsMsg \/ m.type = "CCS")
    BY <1>1 DEF ListAppend
  <2>4. CASE m.type = "CCS"
    BY <2>3, <2>4 DEF ListInv
  <2>5. CASE m.type # "CCS"
    <3> SUFFICES ASSUME NEW i \in 1 .. Len(retransmitList'), retransmitList'[i].type = "CCS"
                 PROVE  isExistCcsMsg'
      BY DEF ListInv
    <3>1. i \in 1 .. Len(retransmitList) /\ retransmitList[i].type = "CCS"
      BY <2>2, <2>5
    <3> QED
      BY <2>3, <3>1 DEF ListInv
  <2> QED
    BY <2>4, <2>5
<1>2. ListClean => ListInv'
  <2> SUFFICES ASSUME ListClean PROVE ListInv'
    OBVIOUS
  <2>1. Len(retransmitList') = 0
    BY EmptySeq DEF ListClean
  <2> QED
    BY <2>1 DEF ListInv
<1>3. UNCHANGED listVars => ListInv'
  BY DEF ListInv, listVars
<1> QED
  BY <1>1, <1>2, <1>3

(* Writing a record under the current state adds the next number of its    *)
(* epoch, which no record had; the states keep track.                      *)
LEMMA TransmitKeeps ==
  ASSUME TypeOK, NumberInv, NEW m \in Message, CanWrite, Transmit(m),
         writeEpoch' \in Nat, writeEpoch <= writeEpoch'
  PROVE  /\ reused' = {}
         /\ \A s \in sent' : s.num[1] <= writeEpoch
         /\ Written # NULL
         /\ Written.epoch = current.epoch /\ Written.epoch <= writeEpoch
         /\ \A s \in sent' : s.num[1] = Written.epoch => s.num[2] < Written.seq
         /\ \A st \in ConnState : Tracks(st) /\ st.epoch # current.epoch =>
              \A s \in sent' : s.num[1] = st.epoch => s.num[2] < st.seq
<1> DEFINE num == <<current.epoch, current.seq>>
           new == [msg |-> m, keys |-> current.keys, epoch |-> current.epoch, num |-> num]
<1>1. /\ current \in ConnState /\ current # NULL
      /\ current.keys \in Nat /\ current.epoch \in Nat /\ current.seq \in Nat
  BY DEF TypeOK, CanWrite, ConnState
<1>2. EpochSeq(current.epoch, current.seq) = num /\ Written \in ConnState
  BY TransmitType
<1>3. /\ sent' = sent \cup {new}
      /\ reused' = IF \E s \in sent : s.num = num THEN reused \cup {num} ELSE reused
  BY <1>2 DEF Transmit
<1>4. /\ current.epoch <= writeEpoch /\ writeEpoch \in Nat
      /\ \A s \in sent : s.num[1] = current.epoch => s.num[2] < current.seq
      /\ \A s \in sent : s.num \in Nat \X Nat /\ s.num[1] <= writeEpoch
      /\ reused = {}
  BY <1>1 DEF NumberInv, Tracks, TypeOK
<1>5. num[1] = current.epoch /\ num[2] = current.seq /\ new.num = num
  OBVIOUS
<1>6. ~ \E s \in sent : s.num = num
  BY <1>1, <1>4, <1>5
<1>7. /\ Written.epoch = current.epoch /\ Written.seq = current.seq + 1 /\ Written # NULL
  BY <1>2, RecordWriteAssumption DEF Written, ConnState
<1> HIDE DEF num, new
<1>8. \A s \in sent' : s \in sent \/ s.num = num
  BY <1>3, <1>5
<1>9. \A s \in sent' : s.num[1] = Written.epoch => s.num[2] < Written.seq
  BY <1>1, <1>4, <1>5, <1>7, <1>8
<1>10. ASSUME NEW st \in ConnState, Tracks(st), st.epoch # current.epoch
       PROVE  \A s \in sent' : s.num[1] = st.epoch => s.num[2] < st.seq
  <2>1. st # NULL
    BY RecordWriteAssumption DEF ConnState
  <2> QED
    BY <1>5, <1>8, <1>10, <2>1 DEF Tracks
<1> QED
  BY <1>3, <1>4, <1>5, <1>6, <1>7, <1>8, <1>9, <1>10

(* Steps that write one record outside a retransmission. *)
LEMMA SendStep ==
  ASSUME TypeOK, NumberInv, NEW m \in Message, CanWrite, Transmit(m),
         current' = Written, UNCHANGED <<outdated, writeEpoch>>, flush' = 0, ListInv'
  PROVE  NumberInv'
<1>1. /\ reused' = {}
      /\ \A s \in sent' : s.num[1] <= writeEpoch
      /\ Written # NULL /\ Written.epoch = current.epoch /\ Written.epoch <= writeEpoch
      /\ \A s \in sent' : s.num[1] = Written.epoch => s.num[2] < Written.seq
      /\ \A st \in ConnState : Tracks(st) /\ st.epoch # current.epoch =>
              \A s \in sent' : s.num[1] = st.epoch => s.num[2] < st.seq
  BY TransmitKeeps DEF TypeOK
<1>2. /\ outdated \in ConnState \cup {NULL} /\ Tracks(outdated)
      /\ Distinct(current, outdated) /\ current # NULL
  BY DEF TypeOK, NumberInv, CanWrite
<1>3. Tracks(current)'
  BY <1>1 DEF Tracks
<1>4. Tracks(outdated)' /\ Distinct(current, outdated)'
  BY <1>1, <1>2 DEF Tracks, Distinct
<1> QED
  BY <1>1, <1>3, <1>4 DEF NumberInv, ListInv, CcsAhead

(* Sending a handshake message keeps NumberInv. *)
LEMMA SendHandshakeStep ==
  ASSUME TypeOK, NumberInv, NEW m \in Message, SendHandshakeMsg(m),
         UNCHANGED <<outdated, writeEpoch, flush>>
  PROVE  NumberInv'
<1>1. ListInv'
  BY ListInvKept DEF SendHandshakeMsg, NumberInv, ListInv
<1> QED
  BY <1>1, SendStep DEF SendHandshakeMsg

(* The start of a retransmission sets the current state aside. *)
LEMMA FlushStartKeeps ==
  ASSUME TypeOK, NumberInv, FlushStart
  PROVE  NumberInv'
<1>1. flush' = 1 /\ UNCHANGED <<reused, sent, writeEpoch, retransmitList, isExistCcsMsg>>
  BY DEF FlushStart, listVars, historyVars
<1>2. CASE isExistCcsMsg
  <2>1. pending' = current /\ current' = outdated /\ outdated' = NULL
    BY <1>2 DEF FlushStart, ActiveOutdatedWriteState
  <2> QED
    BY <1>1, <2>1 DEF NumberInv, ListInv, Tracks, Distinct
<1>3. CASE ~isExistCcsMsg
  <2>1. UNCHANGED <<current, outdated, pending>>
    BY <1>3 DEF FlushStart
  <2>2. ~CcsAhead'
    BY <1>1, <1>3, ListType DEF NumberInv, ListInv, CcsAhead, TypeOK
  <2> QED
    BY <1>1, <2>1, <2>2 DEF NumberInv, ListInv, Tracks, Distinct
<1> QED
  BY <1>2, <1>3

(* One node of a retransmission. *)
LEMMA FlushNodeKeeps ==
  ASSUME TypeOK, NumberInv, FlushNode
  PROVE  NumberInv'
<1>1. /\ flush \in 1 .. Len(retransmitList) /\ Len(retransmitList) \in Nat
      /\ flush' = flush + 1 /\ current # NULL
      /\ UNCHANGED <<writeEpoch, retransmitList, isExistCcsMsg>>
      /\ retransmitList[flush] \in Message
  BY ListType DEF FlushNode, listVars
<1>2. PICK written \in BOOLEAN :
        LET now == IF written THEN Written ELSE current IN
        /\ IF written THEN CanWrite /\ Transmit(retransmitList[flush])
                      ELSE UNCHANGED historyVars
        /\ IF retransmitList[flush].type = "CCS"
           THEN DeActiveOutdatedWriteState(now)
           ELSE current' = now /\ UNCHANGED <<outdated, pending>>
  BY DEF FlushNode
<1> DEFINE now == IF written THEN Written ELSE current
           Counts(st) == \A s \in sent' : s.num[1] = st.epoch => s.num[2] < st.seq
<1>3. /\ current \in ConnState /\ outdated \in ConnState \cup {NULL}
      /\ pending \in ConnState \cup {NULL} /\ writeEpoch \in Nat
      /\ \A st \in ConnState : st # NULL
  BY <1>1, RecordWriteAssumption DEF TypeOK, ConnState
<1>4. /\ reused' = {} /\ \A s \in sent' : s.num[1] <= writeEpoch
      /\ now # NULL /\ now.epoch = current.epoch /\ now.epoch <= writeEpoch
      /\ Counts(now)
      /\ \A st \in ConnState : Tracks(st) /\ st.epoch # current.epoch => Counts(st)
  <2>1. CASE written = TRUE
    BY <1>1, <1>2, <1>3, <2>1, TransmitKeeps
  <2>2. CASE written = FALSE
    <3>1. sent' = sent /\ reused' = reused /\ now = current
      BY <1>2, <2>2 DEF historyVars
    <3> QED
      BY <1>1, <1>3, <3>1 DEF NumberInv, Tracks
  <2> QED
    BY <2>1, <2>2
<1> HIDE DEF now
<1>5. CASE retransmitList[flush].type = "CCS"
  <2>1. outdated' = now /\ current' = pending /\ pending' = NULL
    BY <1>2, <1>5 DEF DeActiveOutdatedWriteState, now
  <2>2. Tracks(pending) /\ Distinct(pending, current)
    BY <1>1, <1>5 DEF NumberInv, CcsAhead
  <2>3. Tracks(current)' /\ Tracks(outdated)' /\ Distinct(current, outdated)'
    BY <1>1, <1>3, <1>4, <2>1, <2>2 DEF Tracks, Distinct
  <2>4. Tracks(pending)' /\ Distinct(pending, current)' /\ Distinct(pending, outdated)'
    BY <2>1 DEF Tracks, Distinct
  <2> QED
    BY <1>1, <1>4, <2>3, <2>4 DEF NumberInv, ListInv
<1>6. CASE retransmitList[flush].type # "CCS"
  <2>1. current' = now /\ UNCHANGED <<outdated, pending>>
    BY <1>2, <1>6 DEF now
  <2>2. Tracks(outdated) /\ Distinct(current, outdated)
    BY DEF NumberInv
  <2>3. Tracks(current)' /\ Tracks(outdated)' /\ Distinct(current, outdated)'
    BY <1>1, <1>3, <1>4, <2>1, <2>2 DEF Tracks, Distinct
  <2>4. ASSUME CcsAhead'
        PROVE  Tracks(pending)' /\ Distinct(pending, current)' /\ Distinct(pending, outdated)'
    <3>1. CcsAhead
      BY <1>1, <2>4 DEF CcsAhead
    <3>2. Tracks(pending) /\ Distinct(pending, current) /\ Distinct(pending, outdated)
      BY <3>1 DEF NumberInv
    <3> QED
      BY <1>1, <1>3, <1>4, <2>1, <3>2 DEF Tracks, Distinct
  <2> QED
    BY <1>1, <1>4, <2>3, <2>4 DEF NumberInv, ListInv
<1> QED
  BY <1>5, <1>6

(* The switch to the keys of a handshake starts an epoch nobody wrote in. *)
LEMMA ChangeCipherSpecKeeps ==
  ASSUME TypeOK, NumberInv, SendChangeCipherSpec
  PROVE  NumberInv'
<1>1. /\ flush = 0 /\ flush' = 0 /\ CanWrite /\ Transmit(Msg("CCS")) /\ ListAppend(Msg("CCS"))
      /\ Msg("CCS") \in Message
  BY MsgType DEF SendChangeCipherSpec
<1>2. ListInv'
  BY <1>1, ListInvKept DEF NumberInv, ListInv
<1>3. CASE pending # NULL
  <2>1. /\ outdated' = Written /\ writeEpoch' = writeEpoch + 1 /\ pending' = NULL
        /\ current' = [keys |-> pending.keys, epoch |-> writeEpoch + 1, seq |-> 0]
    BY <1>3 DEF SendChangeCipherSpec, ActivePendingState
  <2>2. writeEpoch \in Nat /\ writeEpoch' \in Nat /\ writeEpoch <= writeEpoch'
    BY <2>1 DEF TypeOK
  <2>3. /\ reused' = {}
        /\ \A s \in sent' : s.num[1] <= writeEpoch
        /\ Written # NULL /\ Written.epoch = current.epoch /\ Written.epoch <= writeEpoch
        /\ \A s \in sent' : s.num[1] = Written.epoch => s.num[2] < Written.seq
    BY <1>1, <2>2, TransmitKeeps
  <2>4. /\ Written \in ConnState /\ current.epoch \in Nat
        /\ \A s \in sent' : s.num \in Nat \X Nat
    BY <1>1, TransmitType DEF Record, TypeOK, CanWrite, ConnState
  <2>5. current'.epoch = writeEpoch + 1 /\ current'.seq = 0
    BY <2>1
  <2>6. Tracks(current)' /\ Tracks(outdated)' /\ Distinct(current, outdated)'
    BY <2>1, <2>2, <2>3, <2>4, <2>5 DEF Tracks, Distinct
  <2>7. \A s \in sent' : s.num[1] <= writeEpoch'
    BY <2>1, <2>2, <2>3, <2>4
  <2> QED
    BY <1>1, <1>2, <2>3, <2>6, <2>7 DEF NumberInv, ListInv, CcsAhead
<1>4. CASE pending = NULL
  <2>1. current' = Written /\ UNCHANGED <<outdated, writeEpoch>>
    BY <1>4 DEF SendChangeCipherSpec
  <2> QED
    BY <1>1, <1>2, <2>1, SendStep
<1> QED
  BY <1>3, <1>4

(* Every action keeps NumberInv. *)
LEMMA NextNumbers == TypeOK /\ NumberInv /\ [Next]_vars => NumberInv'
<1> SUFFICES ASSUME TypeOK, NumberInv, [Next]_vars PROVE NumberInv'
  OBVIOUS
<1> USE DEF stateVars, historyVars
<1>0. ListInv
  BY DEF NumberInv
<1>a. ASSUME SameNumbers, flush' = 0, ListClean \/ UNCHANGED listVars PROVE NumberInv'
  BY <1>0, <1>a, QuietStep, ListInvKept
<1>1. CASE SendClientHello
  BY <1>1, MsgType, SendHandshakeStep DEF SendClientHello, HandshakeTypes
<1>2. CASE RecvHelloVerifyRequest
  BY <1>2, <1>a DEF RecvHelloVerifyRequest, SameNumbers
<1>3. CASE RecvServerHelloResume
  BY <1>3, <1>a DEF RecvServerHelloResume, SameNumbers
<1>4. CASE RecvServerHelloDone
  BY <1>4, <1>a DEF RecvServerHelloDone, SameNumbers
<1>5. CASE SendClientKeyExchange
  BY <1>5, MsgType, SendHandshakeStep DEF SendClientKeyExchange, HandshakeTypes
<1>6. CASE SendHelloRequest
  BY <1>6, MsgType, SendHandshakeStep DEF SendHelloRequest, HandshakeTypes
<1>7. CASE RecvClientHello
  BY <1>7, <1>a DEF RecvClientHello, SameNumbers
<1>8. CASE SendHelloVerifyRequest
  <2>1. ListInv'
    BY <1>0, <1>8, ListInvKept DEF SendHelloVerifyRequest
  <2> QED
    BY <1>8, <2>1, MsgType, SendStep DEF SendHelloVerifyRequest, HandshakeTypes
<1>9. CASE SendServerHello
  BY <1>9, MsgType, SendHandshakeStep DEF SendServerHello, HandshakeTypes
<1>10. CASE SendServerHelloDone
  BY <1>10, MsgType, SendHandshakeStep DEF SendServerHelloDone, HandshakeTypes
<1>11. CASE RecvClientKeyExchange
  BY <1>11, <1>a DEF RecvClientKeyExchange, SameNumbers
<1>12. CASE SendChangeCipherSpec
  BY <1>12, ChangeCipherSpecKeeps
<1>13. CASE SendFinished
  BY <1>13, MsgType, SendHandshakeStep DEF SendFinished, HandshakeTypes
<1>14. CASE RecvFinished
  BY <1>14, <1>a DEF RecvFinished, SameNumbers
<1>15. CASE Timeout
  BY <1>15, FlushStartKeeps DEF Timeout
<1>16. CASE FlushNode
  BY <1>16, FlushNodeKeeps
<1>17. CASE FlushEnd
  BY <1>17, <1>a DEF FlushEnd, SameNumbers
<1>18. CASE WriteApp
  <2>1. ListInv' /\ flush' = 0
    BY <1>0, <1>18, ListInvKept DEF WriteApp, Connected
  <2> QED
    BY <1>18, <2>1, MsgType, SendStep DEF WriteApp
<1>19. CASE ReadApp
  BY <1>19, <1>a DEF ReadApp, Connected, SameNumbers
<1>20. CASE Release2Msl
  BY <1>20, <1>a DEF Release2Msl, Connected, SameNumbers
<1>21. CASE PostHandshakeFinished
  <2>1. CASE LastFlight
    BY <1>21, <2>1, FlushStartKeeps DEF PostHandshakeFinished
  <2>2. CASE ~LastFlight
    BY <1>21, <2>2, <1>a DEF PostHandshakeFinished, Connected, SameNumbers
  <2> QED
    BY <2>1, <2>2
<1>22. CASE Renegotiate
  <2>1. ListClean \/ UNCHANGED listVars
    BY <1>22 DEF Renegotiate
  <2>2. SameNumbers /\ flush' = 0
    BY <1>22 DEF Renegotiate, Connected, SameNumbers
  <2> QED
    BY <2>1, <2>2, <1>a
<1>23. CASE PeerRenegotiates
  BY <1>23, <1>a DEF PeerRenegotiates, Connected, SameNumbers
<1>24. CASE UNCHANGED vars
  BY <1>24 DEF vars, listVars, NumberInv, ListInv, Tracks, Distinct, CcsAhead
<1> QED
  BY <1>1, <1>2, <1>3, <1>4, <1>5, <1>6, <1>7, <1>8, <1>9, <1>10, <1>11, <1>12,
     <1>13, <1>14, <1>15, <1>16, <1>17, <1>18, <1>19, <1>20, <1>21, <1>22, <1>23,
     <1>24 DEF Next

(* The initial states satisfy NumberInv. *)
LEMMA InitNumbers == Init => NumberInv
<1> SUFFICES ASSUME Init PROVE NumberInv
  OBVIOUS
<1>1. Len(retransmitList) = 0
  BY EmptySeq DEF Init
<1>2. Tracks(current)
  BY DEF Init, Tracks, NewState
<1>3. ListInv /\ ~CcsAhead
  BY <1>1 DEF Init, ListInv, CcsAhead
<1> QED
  BY <1>2, <1>3 DEF Init, NumberInv, Tracks, Distinct

(* No record number is used twice, through any mixture of sends, refused   *)
(* sends, retransmissions in the old epoch and changes of the write state: *)
(* the exchange of currentState, outdatedState and pendingState by         *)
(* REC_RetransmitListFlush never brings a state back with an old count.    *)
THEOREM RecordNumbersOnce == Spec => []NumberOnce
<1>1. TypeOK /\ NumberInv => NumberOnce
  BY DEF NumberInv, NumberOnce
<1> QED
  BY <1>1, InitType, NextType, InitNumbers, NextNumbers, PTL DEF Spec

-----------------------------------------------------------------------------
(* Flights: in which epoch a message is written, first and again.          *)

(* The keys of the handshake are in use for writing. *)
Switched ==
  \/ hsState \in {"TRY_SEND_FINISH", "TLS_CONNECTED", "TRY_SEND_HELLO_REQUEST"}
  \/ hsState = "TRY_RECV_FINISH" /\ ~LastFlight

(* They are ready and not yet in use. *)
KeysReady ==
  \/ hsState = "TRY_SEND_CHANGE_CIPHER_SPEC"
  \/ hsState = "TRY_RECV_FINISH" /\ LastFlight

(* A write state of an epoch, with the epoch's keys. *)
StateOf(st, epoch) == st \in ConnState /\ st.epoch = epoch /\ st.keys = epoch

(* The epoch the peer expects a message in. *)
EpochOf(m) == IF m.type \in {"FINISHED", "APP"} THEN m.hs ELSE m.hs - 1

(* A ChangeCipherSpec is on the list at index i or behind it. *)
CcsFrom(list, i) == \E j \in i .. Len(list) : list[j].type = "CCS"

(* At most one ChangeCipherSpec is on the list; it and what is before it    *)
(* belong to the epoch before the newest, what is behind it to the newest.  *)
Ordered(list, newest) ==
  /\ \A i, j \in 1 .. Len(list) : list[i].type = "CCS" /\ list[j].type = "CCS" => i = j
  /\ \A i \in 1 .. Len(list) :
       /\ CcsFrom(list, i) => EpochOf(list[i]) = newest - 1
       /\ ~CcsFrom(list, i) => EpochOf(list[i]) = newest

(* The states of one role. *)
RoleInv ==
  /\ hsState \in {"TRY_SEND_CLIENT_HELLO", "TRY_RECV_SERVER_HELLO",
                  "TRY_SEND_CLIENT_KEY_EXCHANGE"} => isClient
  /\ hsState \in {"TRY_SEND_HELLO_REQUEST", "TRY_RECV_CLIENT_HELLO",
                  "TRY_SEND_HELLO_VERIFY_REQUEST", "TRY_SEND_SERVER_HELLO",
                  "TRY_SEND_SERVER_HELLO_DONE", "TRY_RECV_CLIENT_KEY_EXCHANGE"} => ~isClient
  /\ hsState \in {"TRY_SEND_SERVER_HELLO_DONE", "TRY_RECV_CLIENT_KEY_EXCHANGE"} => ~isResume

EpochInv == handshakes = IF Switched THEN writeEpoch ELSE writeEpoch + 1

(* The write states when no retransmission works with an old one. *)
InUse ==
  /\ StateOf(current, writeEpoch)
  /\ isExistCcsMsg => StateOf(outdated, writeEpoch - 1)
  /\ pending = IF KeysReady THEN NewState(handshakes) ELSE NULL

(* A retransmission on its way to a ChangeCipherSpec writes with the state  *)
(* of the epoch before; the newest one is in the place of the pending one.  *)
StatesInv ==
  IF CcsAhead THEN StateOf(current, writeEpoch - 1) /\ StateOf(pending, writeEpoch)
              ELSE InUse

QueueInv ==
  /\ isExistCcsMsg <=> CcsFrom(retransmitList, 1)
  /\ Ordered(retransmitList, writeEpoch)

(* The ChangeCipherSpec of the handshake before can be on the list only     *)
(* until the server answers.                                                *)
NoOldFlight ==
  isExistCcsMsg =>
    \/ Switched
    \/ hsState \in {"TRY_SEND_CLIENT_HELLO", "TRY_RECV_SERVER_HELLO"} /\ handshakes > 1

(* The inductive strengthening of EpochOfMessage, CurrentStateInPlace and   *)
(* WriteActivationHasKeys.                                                  *)
FlightInv ==
  /\ RoleInv /\ EpochInv /\ StatesInv /\ QueueInv /\ NoOldFlight
  /\ EpochOfMessage /\ ~failed

(* A message at the end of the list keeps it ordered: one of the newest     *)
(* epoch, or the ChangeCipherSpec that starts an epoch on a list without.   *)
LEMMA OrderedAppend ==
  ASSUME NEW list \in Seq(Message), NEW m \in Message, NEW e \in Nat, Ordered(list, e),
         EpochOf(m) = e
  PROVE  /\ m.type # "CCS" =>
              /\ Ordered(Append(list, m), e)
              /\ CcsFrom(Append(list, m), 1) <=> CcsFrom(list, 1)
         /\ m.type = "CCS" /\ ~CcsFrom(list, 1) =>
              /\ Ordered(Append(list, m), e + 1)
              /\ CcsFrom(Append(list, m), 1)
<1>1. PICK n \in Nat : n = Len(list)
  BY LenProperties
<1>2. PICK new \in Seq(Message) : new = Append(list, m)
  BY AppendProperties
<1>3. /\ Len(new) = n + 1 /\ new[n + 1] = m
      /\ \A i \in 1 .. n : new[i] = list[i]
  BY <1>1, <1>2, AppendProperties
<1>4. ASSUME m.type # "CCS"
      PROVE  Ordered(new, e) /\ (CcsFrom(new, 1) <=> CcsFrom(list, 1))
  <2>1. \A i \in 1 .. n + 1 : new[i].type = "CCS" => i \in 1 .. n /\ list[i].type = "CCS"
    BY <1>1, <1>3, <1>4
  <2>2. \A i \in 1 .. n : CcsFrom(new, i) <=> CcsFrom(list, i)
    BY <1>1, <1>3, <2>1 DEF CcsFrom
  <2>3. ~CcsFrom(new, n + 1)
    BY <1>3, <1>4 DEF CcsFrom
  <2>4. \A i, j \in 1 .. n + 1 : new[i].type = "CCS" /\ new[j].type = "CCS" => i = j
    BY <1>1, <2>1 DEF Ordered
  <2>5. ASSUME NEW i \in 1 .. n + 1
        PROVE  /\ CcsFrom(new, i) => EpochOf(new[i]) = e - 1
               /\ ~CcsFrom(new, i) => EpochOf(new[i]) = e
    <3>1. CASE i \in 1 .. n
      <4>1. /\ CcsFrom(list, i) => EpochOf(list[i]) = e - 1
            /\ ~CcsFrom(list, i) => EpochOf(list[i]) = e
        BY <1>1, <3>1 DEF Ordered
      <4>2. new[i] = list[i] /\ (CcsFrom(new, i) <=> CcsFrom(list, i))
        BY <1>3, <2>2, <3>1
      <4> QED
        BY <4>1, <4>2
    <3>2. CASE i = n + 1
      BY <1>3, <2>3, <3>2
    <3> QED
      BY <1>1, <3>1, <3>2
  <2>6. CcsFrom(new, 1) <=> CcsFrom(list, 1)
    BY <1>1, <1>3, <2>1 DEF CcsFrom
  <2> QED
    BY <1>3, <2>4, <2>5, <2>6 DEF Ordered
<1>5. ASSUME m.type = "CCS", ~CcsFrom(list, 1)
      PROVE  Ordered(new, e + 1) /\ CcsFrom(new, 1)
  <2>1. \A i \in 1 .. n + 1 : new[i].type = "CCS" <=> i = n + 1
    BY <1>1, <1>3, <1>5 DEF CcsFrom
  <2>2. \A i \in 1 .. n + 1 : CcsFrom(new, i)
    BY <1>1, <1>3, <2>1 DEF CcsFrom
  <2>3. \A i \in 1 .. n : ~CcsFrom(list, i)
    BY <1>1, <1>5 DEF CcsFrom
  <2>4. \A i \in 1 .. n : EpochOf(list[i]) = e
    BY <1>1, <2>3 DEF Ordered
  <2>5. \A i \in 1 .. n + 1 : EpochOf(new[i]) = (e + 1) - 1
    BY <1>1, <1>3, <2>4
  <2> QED
    BY <1>1, <1>3, <2>1, <2>2, <2>5 DEF Ordered
<1> QED
  BY <1>2, <1>4, <1>5

(* A record goes out in the epoch of its message. *)
LEMMA TransmitInEpoch ==
  ASSUME TypeOK, EpochOfMessage, NEW m \in Message, CanWrite, Transmit(m),
         NEW e \in Int, StateOf(current, e), EpochOf(m) = e
  PROVE  EpochOfMessage' /\ StateOf(Written, e)
<1>1. Written \in ConnState /\ Written.epoch = current.epoch /\ Written.keys = current.keys
  BY TransmitType DEF Written
<1> DEFINE new == [msg |-> m, keys |-> current.keys, epoch |-> current.epoch,
                   num |-> EpochSeq(current.epoch, current.seq)]
<1>2. new.msg = m /\ new.keys = e /\ new.epoch = e
  BY DEF StateOf
<1>3. sent' = sent \cup {new}
  BY DEF Transmit
<1> HIDE DEF new
<1>4. ASSUME NEW s \in sent'
      PROVE  /\ s.epoch = IF s.msg.type \in {"FINISHED", "APP"} THEN s.msg.hs ELSE s.msg.hs - 1
             /\ s.keys = s.epoch
  <2>1. CASE s = new
    BY <1>2, <2>1 DEF EpochOf
  <2>2. CASE s \in sent
    BY <2>2 DEF EpochOfMessage
  <2> QED
    BY <1>3, <2>1, <2>2
<1> QED
  BY <1>1, <1>4 DEF EpochOfMessage, StateOf

(* Appending a message that is not a ChangeCipherSpec, and cleaning. *)
LEMMA QueueKept ==
  ASSUME TypeOK, QueueInv, writeEpoch' = writeEpoch
  PROVE  /\ \A m \in Message : ListAppend(m) /\ m.type # "CCS" /\ EpochOf(m) = writeEpoch =>
              QueueInv' /\ (isExistCcsMsg' <=> isExistCcsMsg)
         /\ ListClean => QueueInv' /\ ~isExistCcsMsg'
         /\ UNCHANGED listVars => QueueInv' /\ (isExistCcsMsg' <=> isExistCcsMsg)
<1>1. /\ retransmitList \in Seq(Message) /\ writeEpoch \in Nat
      /\ Ordered(retransmitList, writeEpoch) /\ (isExistCcsMsg <=> CcsFrom(retransmitList, 1))
  BY DEF TypeOK, QueueInv
<1>2. ASSUME NEW m \in Message, ListAppend(m), m.type # "CCS", EpochOf(m) = writeEpoch
      PROVE  QueueInv' /\ (isExistCcsMsg' <=> isExistCcsMsg)
  <2>1. /\ Ordered(Append(retransmitList, m), writeEpoch)
        /\ CcsFrom(Append(retransmitList, m), 1) <=> CcsFrom(retransmitList, 1)
    BY <1>1, <1>2, OrderedAppend
  <2>2. retransmitList' = Append(retransmitList, m) /\ (isExistCcsMsg' <=> isExistCcsMsg)
    BY <1>2 DEF ListAppend
  <2> QED
    BY <1>1, <2>1, <2>2 DEF QueueInv
<1>3. ASSUME ListClean
      PROVE  QueueInv' /\ ~isExistCcsMsg'
  <2>1. retransmitList' = <<>> /\ ~isExistCcsMsg'
    BY <1>3 DEF ListClean
  <2>2. Len(retransmitList') = 0
    BY <2>1, EmptySeq
  <2> QED
    BY <2>1, <2>2 DEF QueueInv, Ordered, CcsFrom
<1>4. ASSUME UNCHANGED listVars
      PROVE  QueueInv' /\ (isExistCcsMsg' <=> isExistCcsMsg)
  BY <1>1, <1>4 DEF listVars, QueueInv
<1> QED
  BY <1>2, <1>3, <1>4

(* Outside a retransmission the write states are the ones in use. *)
LEMMA OutsideFlush ==
  /\ flush = 0 => (StatesInv <=> InUse)
  /\ flush' = 0 => (StatesInv' <=> InUse')
BY DEF StatesInv, CcsAhead

(* Sending a handshake message that is not a ChangeCipherSpec. *)
LEMMA SendInEpoch ==
  ASSUME TypeOK, FlightInv, NEW m \in Message, SendHandshakeMsg(m), m.type # "CCS",
         EpochOf(m) = writeEpoch, UNCHANGED <<outdated, writeEpoch>>
  PROVE  /\ flush = 0 /\ InUse
         /\ StateOf(current', writeEpoch) /\ EpochOfMessage'
         /\ QueueInv' /\ (isExistCcsMsg' <=> isExistCcsMsg)
<1>1. /\ flush = 0 /\ CanWrite /\ Transmit(m) /\ current' = Written /\ ListAppend(m)
  BY DEF SendHandshakeMsg
<1>2. InUse /\ writeEpoch \in Int
  BY <1>1, OutsideFlush DEF FlightInv, TypeOK
<1>3. EpochOfMessage' /\ StateOf(Written, writeEpoch)
  BY <1>1, <1>2, TransmitInEpoch DEF FlightInv, InUse
<1>4. QueueInv' /\ (isExistCcsMsg' <=> isExistCcsMsg)
  BY <1>1, QueueKept DEF FlightInv
<1> QED
  BY <1>1, <1>2, <1>3, <1>4

(* The start of a retransmission: with a ChangeCipherSpec on the list, the *)
(* state of the epoch before is taken back for what is before it.          *)
LEMMA FlushStartInEpoch ==
  ASSUME TypeOK, FlightInv, FlushStart, flush = 0, UNCHANGED hsState
  PROVE  FlightInv'
<1>1. /\ flush' = 1
      /\ UNCHANGED <<isClient, writeEpoch, retransmitList, isExistCcsMsg, isResume,
                     handshakes, failed, sent, hsState>>
  BY DEF FlushStart, listVars, historyVars
<1>2. InUse /\ (isExistCcsMsg <=> CcsFrom(retransmitList, 1))
  BY OutsideFlush DEF FlightInv, QueueInv
<1>3. RoleInv' /\ EpochInv' /\ QueueInv' /\ NoOldFlight' /\ EpochOfMessage' /\ ~failed'
  BY <1>1 DEF FlightInv, RoleInv, EpochInv, QueueInv, NoOldFlight, EpochOfMessage,
              Switched, LastFlight
<1>4. CcsAhead' <=> isExistCcsMsg
  BY <1>1, <1>2 DEF CcsAhead, CcsFrom
<1>5. CASE isExistCcsMsg
  <2>1. pending' = current /\ current' = outdated
    BY <1>5 DEF FlushStart, ActiveOutdatedWriteState
  <2>2. StateOf(current', writeEpoch' - 1) /\ StateOf(pending', writeEpoch')
    BY <1>1, <1>2, <1>5, <2>1 DEF InUse
  <2> QED
    BY <1>3, <1>4, <1>5, <2>2 DEF FlightInv, StatesInv
<1>6. CASE ~isExistCcsMsg
  <2>1. UNCHANGED <<current, outdated, pending>>
    BY <1>6 DEF FlushStart
  <2>2. InUse'
    BY <1>1, <1>2, <2>1 DEF InUse, KeysReady, LastFlight
  <2> QED
    BY <1>3, <1>4, <1>6, <2>2 DEF FlightInv, StatesInv
<1> QED
  BY <1>5, <1>6

(* One node of a retransmission: the ChangeCipherSpec is the only one, and *)
(* behind it the newest state is in use again.                             *)
LEMMA FlushNodeInEpoch ==
  ASSUME TypeOK, FlightInv, FlushNode
  PROVE  FlightInv'
<1>1. /\ flush \in 1 .. Len(retransmitList) /\ Len(retransmitList) \in Nat
      /\ flush' = flush + 1
      /\ UNCHANGED <<isClient, writeEpoch, retransmitList, isExistCcsMsg, isResume,
                     handshakes, failed, hsState>>
      /\ retransmitList[flush] \in Message
  BY ListType DEF FlushNode, listVars, hsVars
<1>2. PICK m \in Message : m = retransmitList[flush]
  BY <1>1
<1>3. PICK written \in BOOLEAN :
        LET now == IF written THEN Written ELSE current IN
        /\ IF written THEN CanWrite /\ Transmit(m) ELSE UNCHANGED historyVars
        /\ IF m.type = "CCS"
           THEN DeActiveOutdatedWriteState(now)
           ELSE current' = now /\ UNCHANGED <<outdated, pending>>
  BY <1>2 DEF FlushNode
<1> DEFINE now == IF written THEN Written ELSE current
<1>4. /\ RoleInv' /\ EpochInv' /\ QueueInv' /\ NoOldFlight' /\ ~failed'
      /\ Ordered(retransmitList, writeEpoch) /\ writeEpoch \in Nat
      /\ isExistCcsMsg <=> CcsFrom(retransmitList, 1)
  BY <1>1 DEF FlightInv, RoleInv, EpochInv, QueueInv, NoOldFlight, Switched, LastFlight,
              TypeOK
<1>5. ASSUME NEW e \in Int, StateOf(current, e), EpochOf(m) = e
      PROVE  EpochOfMessage' /\ StateOf(now, e)
  <2>1. CASE written = TRUE
    BY <1>3, <1>5, <2>1, TransmitInEpoch DEF FlightInv
  <2>2. CASE written = FALSE
    BY <1>3, <1>5, <2>2 DEF FlightInv, EpochOfMessage, historyVars
  <2> QED
    BY <2>1, <2>2
<1>6. IF m.type = "CCS" THEN outdated' = now /\ current' = pending /\ pending' = NULL
                        ELSE current' = now /\ UNCHANGED <<outdated, pending>>
  BY <1>3 DEF DeActiveOutdatedWriteState
<1> HIDE DEF now
<1>7. CASE CcsFrom(retransmitList, flush)
  <2>1. StateOf(current, writeEpoch - 1) /\ StateOf(pending, writeEpoch)
    BY <1>1, <1>7 DEF FlightInv, StatesInv, CcsAhead, CcsFrom
  <2>2. EpochOf(m) = writeEpoch - 1
    BY <1>1, <1>2, <1>4, <1>7 DEF Ordered
  <2>3. EpochOfMessage' /\ StateOf(now, writeEpoch - 1)
    BY <1>4, <1>5, <2>1, <2>2
  <2>4. CASE m.type = "CCS"
    <3>1. ~CcsFrom(retransmitList, flush + 1)
      BY <1>1, <1>2, <1>4, <2>4 DEF CcsFrom, Ordered
    <3>2. ~CcsAhead'
      BY <1>1, <3>1 DEF CcsAhead, CcsFrom
    <3>3. isExistCcsMsg
      BY <1>1, <1>4, <1>7 DEF CcsFrom
    <3>4. ~KeysReady'
      BY <1>1, <3>3 DEF FlightInv, NoOldFlight, KeysReady, Switched, LastFlight
    <3>5. InUse'
      BY <1>1, <1>6, <2>1, <2>3, <2>4, <3>4 DEF InUse
    <3> QED
      BY <1>4, <2>3, <3>2, <3>5 DEF FlightInv, StatesInv
  <2>5. CASE m.type # "CCS"
    <3>1. CcsAhead'
      BY <1>1, <1>2, <1>7, <2>5 DEF CcsAhead, CcsFrom
    <3>2. StateOf(current', writeEpoch' - 1) /\ StateOf(pending', writeEpoch')
      BY <1>1, <1>6, <2>1, <2>3, <2>5
    <3> QED
      BY <1>4, <2>3, <3>1, <3>2 DEF FlightInv, StatesInv
  <2> QED
    BY <2>4, <2>5
<1>8. CASE ~CcsFrom(retransmitList, flush)
  <2>1. InUse
    BY <1>8 DEF FlightInv, StatesInv, CcsAhead, CcsFrom
  <2>2. EpochOf(m) = writeEpoch /\ m.type # "CCS"
    BY <1>1, <1>2, <1>4, <1>8 DEF Ordered, CcsFrom
  <2>3. EpochOfMessage' /\ StateOf(now, writeEpoch)
    BY <1>4, <1>5, <2>1, <2>2 DEF InUse
  <2>4. ~CcsAhead'
    BY <1>1, <1>8 DEF CcsAhead, CcsFrom
  <2>5. InUse'
    BY <1>1, <1>6, <2>1, <2>2, <2>3 DEF InUse, KeysReady, LastFlight
  <2> QED
    BY <1>4, <2>3, <2>4, <2>5 DEF FlightInv, StatesInv
<1> QED
  BY <1>7, <1>8

(* The switch: the keys are ready, and no ChangeCipherSpec of an earlier   *)
(* handshake is on the list.                                               *)
LEMMA ChangeCipherSpecInEpoch ==
  ASSUME TypeOK, FlightInv, SendChangeCipherSpec
  PROVE  FlightInv'
<1>1. /\ flush = 0 /\ flush' = 0 /\ hsState = "TRY_SEND_CHANGE_CIPHER_SPEC"
      /\ CanWrite /\ Transmit(Msg("CCS")) /\ ListAppend(Msg("CCS"))
      /\ Msg("CCS") \in Message
      /\ UNCHANGED <<isClient, isResume, handshakes>>
  BY MsgType DEF SendChangeCipherSpec
<1>2. InUse /\ handshakes = writeEpoch + 1 /\ KeysReady /\ ~isExistCcsMsg
  BY <1>1, OutsideFlush DEF FlightInv, EpochInv, NoOldFlight, Switched, KeysReady
<1>3. writeEpoch \in Nat /\ handshakes \in Nat
  BY DEF TypeOK
<1>4. pending = NewState(handshakes) /\ pending # NULL
  BY <1>2, NewStateType, RecordWriteAssumption DEF InUse, ConnState
<1>5. /\ outdated' = Written /\ pending' = NULL /\ writeEpoch' = writeEpoch + 1
      /\ current' = [keys |-> handshakes, epoch |-> handshakes, seq |-> 0]
      /\ hsState' = "TRY_SEND_FINISH" /\ failed' = failed
  BY <1>1, <1>2, <1>4 DEF SendChangeCipherSpec, ActivePendingState, NewState
<1>6. EpochOf(Msg("CCS")) = writeEpoch /\ Msg("CCS").type = "CCS"
  BY <1>2, <1>3 DEF EpochOf, Msg
<1>7. EpochOfMessage' /\ StateOf(Written, writeEpoch)
  BY <1>1, <1>2, <1>3, <1>6, TransmitInEpoch DEF FlightInv, InUse
<1>8. QueueInv' /\ isExistCcsMsg'
  <2>1. /\ retransmitList \in Seq(Message) /\ Ordered(retransmitList, writeEpoch)
        /\ ~CcsFrom(retransmitList, 1)
    BY <1>2 DEF TypeOK, FlightInv, QueueInv
  <2>2. /\ Ordered(Append(retransmitList, Msg("CCS")), writeEpoch + 1)
        /\ CcsFrom(Append(retransmitList, Msg("CCS")), 1)
    BY <1>1, <1>3, <1>6, <2>1, OrderedAppend
  <2>3. retransmitList' = Append(retransmitList, Msg("CCS")) /\ isExistCcsMsg'
    BY <1>1, <1>6 DEF ListAppend
  <2> QED
    BY <1>5, <2>2, <2>3 DEF QueueInv
<1>9. StateOf(current', writeEpoch')
  BY <1>2, <1>3, <1>5 DEF StateOf, ConnState
<1>10. InUse'
  BY <1>3, <1>5, <1>7, <1>9 DEF InUse, KeysReady
<1>11. RoleInv' /\ EpochInv' /\ NoOldFlight'
  BY <1>1, <1>2, <1>3, <1>5 DEF RoleInv, EpochInv, NoOldFlight, Switched
<1> QED
  BY <1>1, <1>5, <1>7, <1>8, <1>10, <1>11, OutsideFlush DEF FlightInv

(* Steps outside a retransmission that write nothing. *)
LEMMA QuietInEpoch ==
  ASSUME TypeOK, FlightInv, flush = 0, flush' = 0,
         ListClean \/ UNCHANGED listVars,
         UNCHANGED <<current, outdated, writeEpoch, failed, sent>>,
         pending' = IF KeysReady' THEN NewState(handshakes') ELSE NULL,
         RoleInv', EpochInv', NoOldFlight'
  PROVE  FlightInv'
<1>1. InUse
  BY OutsideFlush DEF FlightInv
<1>2. QueueInv' /\ (isExistCcsMsg' => isExistCcsMsg)
  BY QueueKept DEF FlightInv
<1>3. InUse'
  BY <1>1, <1>2 DEF InUse
<1> QED
  BY <1>2, <1>3, OutsideFlush DEF FlightInv, EpochOfMessage

(* Steps that send a handshake message other than the ChangeCipherSpec. *)
LEMMA SendInOrder ==
  ASSUME TypeOK, FlightInv, NEW m \in Message, SendHandshakeMsg(m), m.type # "CCS",
         EpochOf(m) = writeEpoch, UNCHANGED <<outdated, writeEpoch, flush, failed>>,
         pending' = IF KeysReady' THEN NewState(handshakes') ELSE NULL,
         RoleInv', EpochInv', NoOldFlight'
  PROVE  FlightInv'
<1>1. /\ flush = 0 /\ InUse
      /\ StateOf(current', writeEpoch) /\ EpochOfMessage'
      /\ QueueInv' /\ (isExistCcsMsg' <=> isExistCcsMsg)
  BY SendInEpoch
<1>2. InUse'
  BY <1>1 DEF InUse
<1> QED
  BY <1>1, <1>2, OutsideFlush DEF FlightInv

(* Every action keeps FlightInv, unless renegotiations resume sessions:    *)
(* then the keys of a resumed handshake are made while the ChangeCipherSpec *)
(* of the one before is still on the list of the client.                   *)
LEMMA NextFlight ==
  ASSUME ResumptionOnRenego = FALSE
  PROVE  TypeOK /\ FlightInv /\ [Next]_vars => FlightInv'
<1> SUFFICES ASSUME TypeOK, FlightInv, [Next]_vars PROVE FlightInv'
  OBVIOUS
<1> USE DEF Switched, KeysReady, LastFlight
<1>0. /\ RoleInv /\ EpochInv /\ NoOldFlight /\ ~failed
      /\ writeEpoch \in Nat /\ handshakes \in Nat /\ isClient \in BOOLEAN /\ isResume \in BOOLEAN
      /\ flush = 0 => InUse
      /\ \A t \in HandshakeTypes : /\ Msg(t) \in Message /\ Msg(t).type = t
                                   /\ Msg(t).hs = handshakes
      /\ ListClean => ~isExistCcsMsg'
  <2>1. flush = 0 => InUse
    BY OutsideFlush DEF FlightInv
  <2>2. \A t \in HandshakeTypes : /\ Msg(t) \in Message /\ Msg(t).type = t
                                 /\ Msg(t).hs = handshakes
    BY MsgType DEF Msg
  <2>3. handshakes \in Nat /\ writeEpoch \in Nat
    BY RecordWriteAssumption DEF TypeOK
  <2> QED
    BY <2>1, <2>2, <2>3 DEF FlightInv, TypeOK, ListClean
<1>a. flush = 0 => pending = IF KeysReady THEN NewState(handshakes) ELSE NULL
  BY <1>0 DEF InUse
<1>1. CASE SendClientHello
  <2>1. EpochOf(Msg("CLIENT_HELLO")) = writeEpoch
    BY <1>0, <1>1 DEF SendClientHello, EpochOf, EpochInv, HandshakeTypes
  <2>2. flush = 0 /\ (isExistCcsMsg' <=> isExistCcsMsg)
    BY <1>0, <1>1 DEF SendClientHello, SendHandshakeMsg, ListAppend, HandshakeTypes
  <2>3. RoleInv' /\ EpochInv' /\ NoOldFlight'
    BY <1>0, <1>1, <2>2 DEF SendClientHello, RoleInv, EpochInv, NoOldFlight
  <2> QED
    BY <1>0, <1>a, <1>1, <2>1, <2>2, <2>3, SendInOrder DEF SendClientHello, HandshakeTypes
<1>2. CASE RecvHelloVerifyRequest
  <2>1. RoleInv' /\ EpochInv' /\ NoOldFlight'
    BY <1>0, <1>2 DEF RecvHelloVerifyRequest, RoleInv, EpochInv, NoOldFlight, stateVars
  <2> QED
    BY <1>0, <1>a, <1>2, <2>1, QuietInEpoch DEF RecvHelloVerifyRequest, stateVars, historyVars
<1>3. CASE RecvServerHelloResume
  <2>1. handshakes = 1 /\ ~isExistCcsMsg /\ isClient
    BY <1>0, <1>3 DEF RecvServerHelloResume, MayResume, NoOldFlight, RoleInv
  <2>2. RoleInv' /\ EpochInv' /\ NoOldFlight'
    BY <1>0, <1>3, <2>1 DEF RecvServerHelloResume, RoleInv, EpochInv, NoOldFlight, listVars
  <2> QED
    BY <1>0, <1>3, <2>1, <2>2, QuietInEpoch
    DEF RecvServerHelloResume, InitPendingState, NewState, historyVars
<1>4. CASE RecvServerHelloDone
  <2>1. RoleInv' /\ EpochInv' /\ NoOldFlight'
    BY <1>0, <1>4 DEF RecvServerHelloDone, RoleInv, EpochInv, NoOldFlight, stateVars
  <2> QED
    BY <1>0, <1>a, <1>4, <2>1, QuietInEpoch DEF RecvServerHelloDone, stateVars, historyVars
<1>5. CASE SendClientKeyExchange
  <2>1. EpochOf(Msg("CLIENT_KEY_EXCHANGE")) = writeEpoch
    BY <1>0, <1>5 DEF SendClientKeyExchange, EpochOf, EpochInv, HandshakeTypes
  <2>2. ~isExistCcsMsg /\ (isExistCcsMsg' <=> isExistCcsMsg)
    BY <1>0, <1>5
    DEF SendClientKeyExchange, SendHandshakeMsg, ListAppend, HandshakeTypes, NoOldFlight
  <2>3. RoleInv' /\ EpochInv' /\ NoOldFlight'
    BY <1>0, <1>5, <2>2 DEF SendClientKeyExchange, RoleInv, EpochInv, NoOldFlight
  <2> QED
    BY <1>0, <1>5, <2>1, <2>3, SendInOrder
    DEF SendClientKeyExchange, HandshakeTypes, InitPendingState, NewState
<1>6. CASE SendHelloRequest
  <2>1. PICK m \in Message : m = [type |-> "HELLO_REQUEST", hs |-> handshakes + 1]
    BY MsgType DEF HandshakeTypes
  <2>2. EpochOf(m) = writeEpoch /\ m.type # "CCS"
    BY <1>0, <1>6, <2>1 DEF SendHelloRequest, EpochOf, EpochInv
  <2>3. SendHandshakeMsg(m)
    BY <1>6, <2>1 DEF SendHelloRequest
  <2>4. flush = 0 /\ (isExistCcsMsg' <=> isExistCcsMsg)
    BY <2>2, <2>3 DEF SendHandshakeMsg, ListAppend
  <2>5. RoleInv' /\ EpochInv' /\ NoOldFlight'
    BY <1>0, <1>6, <2>4 DEF SendHelloRequest, RoleInv, EpochInv, NoOldFlight
  <2> QED
    BY <1>0, <1>a, <1>6, <2>2, <2>3, <2>4, <2>5, SendInOrder DEF SendHelloRequest
<1>7. CASE RecvClientHello
  <2>1. RoleInv' /\ EpochInv' /\ NoOldFlight'
    BY <1>0, <1>7 DEF RecvClientHello, RoleInv, EpochInv, NoOldFlight, stateVars, listVars
  <2> QED
    BY <1>0, <1>a, <1>7, <2>1, QuietInEpoch DEF RecvClientHello, stateVars, historyVars
<1>8. CASE SendHelloVerifyRequest
  <2>1. EpochOf(Msg("HELLO_VERIFY_REQUEST")) = writeEpoch /\ InUse
    BY <1>0, <1>8 DEF SendHelloVerifyRequest, EpochOf, EpochInv, HandshakeTypes
  <2>2. EpochOfMessage' /\ StateOf(Written, writeEpoch)
    BY <1>0, <1>8, <2>1, TransmitInEpoch
    DEF SendHelloVerifyRequest, InUse, FlightInv, HandshakeTypes
  <2>3. QueueInv' /\ ~isExistCcsMsg'
    BY <1>8, QueueKept DEF SendHelloVerifyRequest, FlightInv
  <2>4. RoleInv' /\ EpochInv' /\ NoOldFlight'
    BY <1>0, <1>8, <2>3 DEF SendHelloVerifyRequest, RoleInv, EpochInv, NoOldFlight
  <2>5. InUse'
    BY <1>0, <1>8, <2>1, <2>2, <2>3 DEF SendHelloVerifyRequest, InUse
  <2> QED
    BY <1>0, <1>8, <2>2, <2>3, <2>4, <2>5, OutsideFlush DEF SendHelloVerifyRequest, FlightInv
<1>9. CASE SendServerHello
  <2>1. EpochOf(Msg("SERVER_HELLO")) = writeEpoch
    BY <1>0, <1>9 DEF SendServerHello, EpochOf, EpochInv, HandshakeTypes
  <2>2. flush = 0 /\ ~isExistCcsMsg /\ (isExistCcsMsg' <=> isExistCcsMsg)
    BY <1>0, <1>9 DEF SendServerHello, SendHandshakeMsg, ListAppend, HandshakeTypes, NoOldFlight
  <2>3. RoleInv' /\ EpochInv' /\ NoOldFlight'
    BY <1>0, <1>9, <2>2 DEF SendServerHello, RoleInv, EpochInv, NoOldFlight
  <2>4. pending' = IF KeysReady' THEN NewState(handshakes') ELSE NULL
    BY <1>0, <1>a, <1>9, <2>2 DEF SendServerHello, InitPendingState, NewState
  <2> QED
    BY <1>0, <1>9, <2>1, <2>3, <2>4, SendInOrder DEF SendServerHello, HandshakeTypes
<1>10. CASE SendServerHelloDone
  <2>1. EpochOf(Msg("SERVER_HELLO_DONE")) = writeEpoch
    BY <1>0, <1>10 DEF SendServerHelloDone, EpochOf, EpochInv, HandshakeTypes
  <2>2. flush = 0 /\ (isExistCcsMsg' <=> isExistCcsMsg)
    BY <1>0, <1>10 DEF SendServerHelloDone, SendHandshakeMsg, ListAppend, HandshakeTypes
  <2>3. RoleInv' /\ EpochInv' /\ NoOldFlight'
    BY <1>0, <1>10, <2>2 DEF SendServerHelloDone, RoleInv, EpochInv, NoOldFlight
  <2> QED
    BY <1>0, <1>a, <1>10, <2>1, <2>2, <2>3, SendInOrder DEF SendServerHelloDone, HandshakeTypes
<1>11. CASE RecvClientKeyExchange
  <2>1. ~isExistCcsMsg /\ ~isClient /\ ~isResume
    BY <1>0, <1>11 DEF RecvClientKeyExchange, NoOldFlight, RoleInv
  <2>2. RoleInv' /\ EpochInv' /\ NoOldFlight'
    BY <1>0, <1>11, <2>1 DEF RecvClientKeyExchange, RoleInv, EpochInv, NoOldFlight, listVars
  <2> QED
    BY <1>0, <1>11, <2>1, <2>2, QuietInEpoch
    DEF RecvClientKeyExchange, InitPendingState, NewState, historyVars
<1>12. CASE SendChangeCipherSpec
  BY <1>12, ChangeCipherSpecInEpoch
<1>13. CASE SendFinished
  <2>1. EpochOf(Msg("FINISHED")) = writeEpoch
    BY <1>0, <1>13 DEF SendFinished, EpochOf, EpochInv, HandshakeTypes
  <2>2. flush = 0 /\ (isExistCcsMsg' <=> isExistCcsMsg)
    BY <1>0, <1>13 DEF SendFinished, SendHandshakeMsg, ListAppend, HandshakeTypes
  <2>3. RoleInv' /\ EpochInv' /\ NoOldFlight'
    BY <1>0, <1>13, <2>2 DEF SendFinished, RoleInv, EpochInv, NoOldFlight
  <2>4. pending' = IF KeysReady' THEN NewState(handshakes') ELSE NULL
    BY <1>0, <1>a, <1>13, <2>2 DEF SendFinished
  <2> QED
    BY <1>0, <1>13, <2>1, <2>3, <2>4, SendInOrder DEF SendFinished, HandshakeTypes
<1>14. CASE RecvFinished
  <2>1. RoleInv' /\ EpochInv' /\ NoOldFlight'
    BY <1>0, <1>14 DEF RecvFinished, RoleInv, EpochInv, NoOldFlight, stateVars
  <2>2. pending' = IF KeysReady' THEN NewState(handshakes') ELSE NULL
    BY <1>0, <1>a, <1>14 DEF RecvFinished, stateVars
  <2> QED
    BY <1>0, <1>14, <2>1, <2>2, QuietInEpoch DEF RecvFinished, stateVars, historyVars
<1>15. CASE Timeout
  BY <1>15, FlushStartInEpoch DEF Timeout, FlushStart
<1>16. CASE FlushNode
  BY <1>16, FlushNodeInEpoch
<1>17. CASE FlushEnd
  <2>1. /\ flush' = 0 /\ ~CcsAhead
        /\ UNCHANGED <<isClient, stateVars, listVars, hsVars, failed, sent>>
    BY <1>17, ListType DEF FlushEnd, CcsAhead, historyVars
  <2>2. InUse' /\ QueueInv'
    BY <2>1 DEF FlightInv, StatesInv, InUse, QueueInv, stateVars, listVars, hsVars
  <2>3. RoleInv' /\ EpochInv' /\ NoOldFlight'
    BY <1>0, <2>1 DEF RoleInv, EpochInv, NoOldFlight, stateVars, listVars, hsVars
  <2> QED
    BY <2>1, <2>2, <2>3, OutsideFlush DEF FlightInv, EpochOfMessage
<1>18. CASE WriteApp
  <2>1. /\ flush = 0 /\ hsState = "TLS_CONNECTED" /\ CanWrite /\ Transmit(Msg("APP"))
        /\ current' = Written
        /\ UNCHANGED <<isClient, outdated, pending, writeEpoch, listVars, flush, hsVars, failed>>
    BY <1>18 DEF WriteApp, Connected
  <2>2. Msg("APP") \in Message /\ EpochOf(Msg("APP")) = writeEpoch
    BY <1>0, <2>1, MsgType DEF EpochOf, EpochInv, Msg
  <2>3. EpochOfMessage' /\ StateOf(Written, writeEpoch)
    BY <1>0, <2>1, <2>2, TransmitInEpoch DEF InUse, FlightInv
  <2>4. InUse' /\ QueueInv'
    BY <1>0, <2>1, <2>3 DEF InUse, FlightInv, QueueInv, listVars, hsVars
  <2>5. RoleInv' /\ EpochInv' /\ NoOldFlight'
    BY <1>0, <2>1 DEF RoleInv, EpochInv, NoOldFlight, listVars, hsVars
  <2> QED
    BY <1>0, <2>1, <2>3, <2>4, <2>5, OutsideFlush DEF FlightInv
<1>19. CASE ReadApp
  <2>1. RoleInv' /\ EpochInv' /\ NoOldFlight'
    BY <1>0, <1>19 DEF ReadApp, RoleInv, EpochInv, NoOldFlight, stateVars, listVars
  <2> QED
    BY <1>0, <1>a, <1>19, <2>1, QuietInEpoch DEF ReadApp, Connected, stateVars, historyVars
<1>20. CASE Release2Msl
  <2>1. RoleInv' /\ EpochInv' /\ NoOldFlight'
    BY <1>0, <1>20 DEF Release2Msl, RoleInv, EpochInv, NoOldFlight, stateVars
  <2> QED
    BY <1>0, <1>a, <1>20, <2>1, QuietInEpoch DEF Release2Msl, Connected, stateVars, historyVars
<1>21. CASE PostHandshakeFinished
  <2>1. CASE LastFlight
    BY <1>21, <2>1, FlushStartInEpoch DEF PostHandshakeFinished, Connected
  <2>2. CASE ~LastFlight
    <3>1. /\ flush = 0
          /\ UNCHANGED <<isClient, stateVars, listVars, flush, hsState, isResume, handshakes,
                         failed, historyVars>>
      BY <1>21, <2>2 DEF PostHandshakeFinished, Connected
    <3>2. RoleInv' /\ EpochInv' /\ NoOldFlight'
      BY <1>0, <3>1 DEF RoleInv, EpochInv, NoOldFlight, stateVars, listVars
    <3> QED
      BY <1>0, <1>a, <3>1, <3>2, QuietInEpoch DEF stateVars, historyVars
  <2> QED
    BY <2>1, <2>2
<1>22. CASE Renegotiate
  <2>1. /\ flush = 0 /\ flush' = 0 /\ hsState = "TLS_CONNECTED"
        /\ ListClean \/ UNCHANGED listVars
        /\ isExistCcsMsg' => isExistCcsMsg
        /\ UNCHANGED <<isClient, stateVars, isResume, failed, historyVars>>
        /\ IF isClient
           THEN hsState' = "TRY_SEND_CLIENT_HELLO" /\ handshakes' = handshakes + 1
           ELSE hsState' = "TRY_SEND_HELLO_REQUEST" /\ UNCHANGED handshakes
    BY <1>0, <1>22 DEF Renegotiate, Connected, listVars
  <2>2. handshakes >= 1
    BY RecordWriteAssumption DEF TypeOK
  <2>3. RoleInv' /\ EpochInv' /\ NoOldFlight'
    BY <1>0, <2>1, <2>2 DEF RoleInv, EpochInv, NoOldFlight, stateVars
  <2>4. pending' = IF KeysReady' THEN NewState(handshakes') ELSE NULL
    BY <1>0, <1>a, <2>1 DEF stateVars
  <2> QED
    BY <1>0, <2>1, <2>3, <2>4, QuietInEpoch DEF stateVars, historyVars
<1>23. CASE PeerRenegotiates
  <2>1. RoleInv' /\ EpochInv' /\ NoOldFlight'
    BY <1>0, <1>23
    DEF PeerRenegotiates, Connected, RoleInv, EpochInv, NoOldFlight, stateVars
  <2>2. pending' = IF KeysReady' THEN NewState(handshakes') ELSE NULL
    BY <1>0, <1>a, <1>23 DEF PeerRenegotiates, Connected, stateVars
  <2> QED
    BY <1>0, <1>23, <2>1, <2>2, QuietInEpoch
    DEF PeerRenegotiates, Connected, stateVars, historyVars
<1>24. CASE UNCHANGED vars
  <2>1. UNCHANGED <<isClient, stateVars, listVars, flush, hsVars, failed, sent>>
    BY <1>24 DEF vars, historyVars
  <2>2. UNCHANGED <<isClient, current, outdated, pending, writeEpoch, retransmitList,
                    isExistCcsMsg, flush, hsState, isResume, handshakes, failed, sent>>
    BY <2>1 DEF stateVars, listVars, hsVars
  <2> QED
    BY <2>2 DEF FlightInv, RoleInv, EpochInv, StatesInv, InUse, CcsAhead, QueueInv,
                NoOldFlight, EpochOfMessage
<1> QED
  BY <1>1, <1>2, <1>3, <1>4, <1>5, <1>6, <1>7, <1>8, <1>9, <1>10, <1>11, <1>12,
     <1>13, <1>14, <1>15, <1>16, <1>17, <1>18, <1>19, <1>20, <1>21, <1>22, <1>23,
     <1>24 DEF Next

(* The initial states satisfy FlightInv. *)
LEMMA InitFlight == Init => FlightInv
<1> SUFFICES ASSUME Init PROVE FlightInv
  OBVIOUS
<1>1. Len(retransmitList) = 0
  BY EmptySeq DEF Init
<1>2. QueueInv
  BY <1>1 DEF Init, QueueInv, Ordered, CcsFrom
<1>3. StateOf(current, 0)
  BY DEF Init, NewState, StateOf, ConnState
<1>4. InUse /\ ~CcsAhead
  BY <1>3 DEF Init, InUse, KeysReady, CcsAhead
<1>5. RoleInv /\ EpochInv /\ NoOldFlight /\ EpochOfMessage
  BY DEF Init, RoleInv, EpochInv, NoOldFlight, EpochOfMessage, Switched
<1> QED
  BY <1>2, <1>4, <1>5 DEF Init, FlightInv, StatesInv

(* Every message is written in the epoch the peer expects it in: however   *)
(* often REC_RetransmitListFlush repeats a flight, what is before the      *)
(* ChangeCipherSpec goes out under the old keys and what is behind it      *)
(* under the new ones.                                                     *)
THEOREM MessagesKeepTheirEpoch ==
  ASSUME ResumptionOnRenego = FALSE PROVE Spec => []EpochOfMessage
<1>1. FlightInv => EpochOfMessage
  BY DEF FlightInv
<1> QED
  BY <1>1, InitType, NextType, InitFlight, NextFlight, PTL DEF Spec

(* The current write state is always there, and outside a retransmission   *)
(* it is the one of the newest epoch, so that the writing functions need   *)
(* no check of it.                                                         *)
THEOREM CurrentStateStaysInPlace ==
  ASSUME ResumptionOnRenego = FALSE PROVE Spec => []CurrentStateInPlace
<1>1. TypeOK /\ FlightInv => CurrentStateInPlace
  BY OutsideFlush, RecordWriteAssumption
  DEF FlightInv, CurrentStateInPlace, StatesInv, InUse, StateOf, ConnState
<1> QED
  BY <1>1, InitType, NextType, InitFlight, NextFlight, PTL DEF Spec

(* REC_ActivePendingState never finds the pending state missing: the       *)
(* exchange of states in a retransmission gives it back.                   *)
THEOREM KeysAreThereToActivate ==
  ASSUME ResumptionOnRenego = FALSE PROVE Spec => []WriteActivationHasKeys
<1>1. FlightInv => WriteActivationHasKeys
  BY DEF FlightInv, WriteActivationHasKeys
<1> QED
  BY <1>1, InitType, NextType, InitFlight, NextFlight, PTL DEF Spec

-----------------------------------------------------------------------------
(* Flights: what is on the retransmission list.                            *)

MessageTypes == HandshakeTypes \cup {"CCS", "APP"}

(* The list ends with messages of these types, of handshake h. *)
Ends(list, types, h) ==
  /\ Len(types) <= Len(list)
  /\ \A i \in 1 .. Len(types) :
       list[Len(list) - Len(types) + i] = [type |-> types[i], hs |-> h]

(* The first message of the flight with the ChangeCipherSpec. *)
First == IF isClient THEN "CLIENT_KEY_EXCHANGE" ELSE "SERVER_HELLO"

(* The flight that is being sent, as far as it is, or waits to be answered. *)
Flight ==
  CASE hsState = "TRY_SEND_SERVER_HELLO_DONE" -> <<"SERVER_HELLO">>
    [] hsState = "TRY_SEND_CHANGE_CIPHER_SPEC" /\ ~LastFlight -> <<First>>
    [] hsState = "TRY_SEND_FINISH" -> IF LastFlight THEN <<"CCS">> ELSE <<First, "CCS">>
    [] OTHER -> FlightToRepeat

(* The inductive strengthening of LostFlightIsRepeated. *)
RepeatInv ==
  /\ Ends(retransmitList, Flight, handshakes)
  /\ hsState \in {"TRY_RECV_SERVER_HELLO", "TRY_RECV_CLIENT_KEY_EXCHANGE",
                  "TRY_RECV_FINISH"} => timer # "none"
  /\ timer = "2msl" => hsState = "TLS_CONNECTED"

(* How the end of the list grows. *)
LEMMA EndsGrow ==
  ASSUME NEW list \in Seq(Message), NEW m \in Message
  PROVE  /\ Ends(Append(list, m), <<m.type>>, m.hs)
         /\ \A a \in MessageTypes :
              Ends(list, <<a>>, m.hs) => Ends(Append(list, m), <<a, m.type>>, m.hs)
         /\ \A a, b \in MessageTypes :
              Ends(list, <<a, b>>, m.hs) => Ends(Append(list, m), <<a, b, m.type>>, m.hs)
<1>1. PICK n \in Nat : n = Len(list)
  BY LenProperties
<1>2. PICK new \in Seq(Message) : new = Append(list, m)
  BY AppendProperties
<1>3. /\ Len(new) = n + 1 /\ new[n + 1] = m
      /\ \A i \in 1 .. n : new[i] = list[i]
  BY <1>1, <1>2, AppendProperties
<1>4. m = [type |-> m.type, hs |-> m.hs]
  BY DEF Message
<1>5. Ends(new, <<m.type>>, m.hs)
  BY <1>3, <1>4 DEF Ends
<1>6. ASSUME NEW a \in MessageTypes, Ends(list, <<a>>, m.hs)
      PROVE  Ends(new, <<a, m.type>>, m.hs)
  <2>1. 1 <= n /\ new[n] = [type |-> a, hs |-> m.hs]
    BY <1>1, <1>3, <1>6 DEF Ends
  <2> QED
    BY <1>3, <1>4, <2>1 DEF Ends
<1>7. ASSUME NEW a \in MessageTypes, NEW b \in MessageTypes, Ends(list, <<a, b>>, m.hs)
      PROVE  Ends(new, <<a, b, m.type>>, m.hs)
  <2>1. 2 <= n
    BY <1>1, <1>7 DEF Ends
  <2>2. /\ list[n - 2 + 1] = [type |-> a, hs |-> m.hs]
        /\ list[n - 2 + 2] = [type |-> b, hs |-> m.hs]
    BY <1>1, <1>7 DEF Ends
  <2>3. new[n - 1] = [type |-> a, hs |-> m.hs] /\ new[n] = [type |-> b, hs |-> m.hs]
    BY <1>3, <2>1, <2>2
  <2>4. PICK s : s = <<a, b, m.type>>
    OBVIOUS
  <2>5. Len(s) = 3 /\ s[1] = a /\ s[2] = b /\ s[3] = m.type
    BY <2>4
  <2>6. ASSUME NEW i \in 1 .. 3
        PROVE  new[(n + 1) - 3 + i] = [type |-> s[i], hs |-> m.hs]
    <3>1. CASE i = 1
      BY <2>1, <2>3, <2>5, <3>1
    <3>2. CASE i = 2
      BY <2>1, <2>3, <2>5, <3>2
    <3>3. CASE i = 3
      BY <1>3, <1>4, <2>5, <3>3
    <3> QED
      BY <3>1, <3>2, <3>3
  <2>7. Ends(new, s, m.hs)
    BY <1>3, <2>1, <2>5, <2>6 DEF Ends
  <2> QED
    BY <2>4, <2>7
<1> QED
  BY <1>2, <1>5, <1>6, <1>7

(* A function on 1 .. n is a sequence. *)
LEMMA FunctionIsSeq ==
  ASSUME NEW S, NEW n \in Nat, NEW f \in [1 .. n -> S]
  PROVE  f \in Seq(S) /\ Len(f) = n
<1>1. f \in Seq(S)
  BY SeqDef
<1> QED
  BY <1>1, LenProperties

(* Tuples of at most three elements are sequences. *)
LEMMA ShortSeqs ==
  ASSUME NEW S
  PROVE  /\ <<>> \in Seq(S)
         /\ \A a \in S : <<a>> \in Seq(S)
         /\ \A a, b \in S : <<a, b>> \in Seq(S)
         /\ \A a, b, c \in S : <<a, b, c>> \in Seq(S)
OBVIOUS

(* A list with that end has the flight as a suffix. *)
LEMMA EndsIsSuffix ==
  ASSUME NEW list \in Seq(Message), NEW types \in Seq(MessageTypes), NEW h \in Nat,
         Ends(list, types, h)
  PROVE  IsSuffix([i \in DOMAIN types |-> [type |-> types[i], hs |-> h]], list)
<1>1. PICK n \in Nat, k \in Nat : n = Len(list) /\ k = Len(types)
  BY LenProperties
<1> DEFINE s == [i \in DOMAIN types |-> [type |-> types[i], hs |-> h]]
           S == [type : MessageTypes, hs : Nat]
<1>2. DOMAIN types = 1 .. k
  BY <1>1, LenProperties
<1>3. PICK t : t = s
  OBVIOUS
<1>4. t \in [1 .. k -> S] /\ \A i \in 1 .. k : t[i] = [type |-> types[i], hs |-> h]
  <2>1. t = [i \in 1 .. k |-> [type |-> types[i], hs |-> h]]
    BY <1>2, <1>3
  <2>2. \A i \in 1 .. k : types[i] \in MessageTypes
    BY <1>1, ElementOfSeq
  <2> QED
    BY <2>1, <2>2
<1>5. t \in Seq(S) /\ Len(t) = k
  BY <1>4, FunctionIsSeq
<1> HIDE DEF s, S
<1>6. k <= n /\ \A i \in 1 .. k : list[n - k + i] = t[i]
  BY <1>1, <1>4 DEF Ends
<1>7. PICK rt : rt = Reverse(t)
  OBVIOUS
<1>8. PICK rl : rl = Reverse(list)
  OBVIOUS
<1>9. rt = [i \in 1 .. k |-> t[(k - i) + 1]]
  BY <1>5, <1>7 DEF Reverse
<1>10. rl = [i \in 1 .. n |-> list[(n - i) + 1]]
  BY <1>1, <1>8 DEF Reverse
<1>11. rt \in Seq(S) /\ Len(rt) = k
  <2>1. \A i \in 1 .. k : t[(k - i) + 1] \in S
    BY <1>5, ElementOfSeq
  <2>2. rt \in [1 .. k -> S]
    BY <1>9, <2>1
  <2> QED
    BY <2>2, FunctionIsSeq
<1>12. rl \in Seq(Message) /\ Len(rl) = n
  <2>1. \A i \in 1 .. n : list[(n - i) + 1] \in Message
    BY <1>1, ElementOfSeq
  <2>2. rl \in [1 .. n -> Message]
    BY <1>10, <2>1
  <2> QED
    BY <2>2, FunctionIsSeq
<1>13. \A i \in 1 .. k : rt[i] = rl[i]
  BY <1>6, <1>9, <1>10
<1>14. SubSeq(rt, 1, k) = SubSeq(rl, 1, k)
  <2>1. \A i \in 1 .. k : rl[i] \in Message /\ rt[i] \in Message
    BY <1>6, <1>12, <1>13, ElementOfSeq
  <2>2. /\ SubSeq(rt, 1, k) \in Seq(Message) /\ Len(SubSeq(rt, 1, k)) = k
        /\ \A i \in 1 .. k : SubSeq(rt, 1, k)[i] = rt[i]
    BY <2>1, SubSeqProperties, Z3
  <2>3. /\ SubSeq(rl, 1, k) \in Seq(Message) /\ Len(SubSeq(rl, 1, k)) = k
        /\ \A i \in 1 .. k : SubSeq(rl, 1, k)[i] = rl[i]
    BY <2>1, SubSeqProperties, Z3
  <2> QED
    BY <1>13, <2>2, <2>3, SeqEqual
<1>15. IsPrefix(rt, rl)
  BY <1>6, <1>11, <1>12, <1>14 DEF IsPrefix
<1> QED
  BY <1>3, <1>7, <1>8, <1>15 DEF IsSuffix, s

(* Appending a message of this handshake to the list. *)
LEMMA AppendEnds ==
  ASSUME TypeOK, NEW t \in MessageTypes, ListAppend(Msg(t)), handshakes' = handshakes
  PROVE  /\ Ends(retransmitList', <<t>>, handshakes')
         /\ \A a \in MessageTypes : Ends(retransmitList, <<a>>, handshakes)
              => Ends(retransmitList', <<a, t>>, handshakes')
         /\ \A a, b \in MessageTypes : Ends(retransmitList, <<a, b>>, handshakes)
              => Ends(retransmitList', <<a, b, t>>, handshakes')
<1>1. PICK m \in Message : m = Msg(t)
  BY MsgType DEF MessageTypes
<1>2. m.type = t /\ m.hs = handshakes
  BY <1>1 DEF Msg
<1>3. retransmitList \in Seq(Message) /\ retransmitList' = Append(retransmitList, m)
  BY <1>1 DEF TypeOK, ListAppend
<1> QED
  BY <1>2, <1>3, EndsGrow

(* The types of the messages in flights. *)
LEMMA FlightTypes ==
  /\ "CLIENT_HELLO" \in MessageTypes /\ "CLIENT_KEY_EXCHANGE" \in MessageTypes
  /\ "SERVER_HELLO" \in MessageTypes /\ "SERVER_HELLO_DONE" \in MessageTypes
  /\ "CCS" \in MessageTypes /\ "FINISHED" \in MessageTypes
BY DEF MessageTypes, HandshakeTypes

(* Nothing is asked of the end of the list. *)
LEMMA NoFlight ==
  ASSUME TypeOK', Flight' = <<>>
  PROVE  Ends(retransmitList', Flight', handshakes')
<1>1. Len(retransmitList') \in Nat
  BY LenProperties DEF TypeOK
<1> QED
  BY <1>1 DEF Ends

(* Nothing of what RepeatInv is about changes. *)
LEMMA SameFlight ==
  ASSUME RepeatInv, UNCHANGED <<isClient, isResume, handshakes, hsState, retransmitList>>,
         timer' = timer \/ (timer' = "none" /\ hsState = "TLS_CONNECTED"), TypeOK'
  PROVE  RepeatInv'
<1>1. CASE timer' = timer
  <2>1. Flight' = Flight
    BY <1>1 DEF Flight, FlightToRepeat, LastFlight, First
  <2> QED
    BY <1>1, <2>1 DEF RepeatInv
<1>2. CASE timer' = "none" /\ hsState = "TLS_CONNECTED"
  <2>1. Flight' = <<>>
    BY <1>2 DEF Flight, FlightToRepeat
  <2> QED
    BY <1>2, <2>1, NoFlight DEF RepeatInv
<1> QED
  BY <1>1, <1>2

(* Every action keeps RepeatInv. *)
LEMMA NextRepeat ==
  TypeOK /\ TypeOK' /\ FlightInv /\ RepeatInv /\ [Next]_vars => RepeatInv'
<1> SUFFICES ASSUME TypeOK, TypeOK', FlightInv, RepeatInv, [Next]_vars PROVE RepeatInv'
  OBVIOUS
<1> USE DEF stateVars, listVars, hsVars
<1>0. /\ isClient \in BOOLEAN /\ isResume \in BOOLEAN
      /\ First \in MessageTypes
      /\ RoleInv
      /\ timer # "2msl" \/ hsState = "TLS_CONNECTED"
      /\ hsState \in {"TRY_RECV_SERVER_HELLO", "TRY_RECV_CLIENT_KEY_EXCHANGE",
                      "TRY_RECV_FINISH"} => timer # "none"
      /\ Ends(retransmitList, Flight, handshakes)
  <2>1. First \in MessageTypes
    BY DEF First, MessageTypes, HandshakeTypes
  <2>2. RoleInv /\ isClient \in BOOLEAN /\ isResume \in BOOLEAN
    BY DEF TypeOK, FlightInv
  <2> QED
    BY <2>1, <2>2 DEF RepeatInv
<1>a. ASSUME Flight' = <<>>,
             hsState' \notin {"TRY_RECV_SERVER_HELLO", "TRY_RECV_CLIENT_KEY_EXCHANGE",
                              "TRY_RECV_FINISH"},
             timer' # "2msl"
      PROVE  RepeatInv'
  BY <1>a, NoFlight DEF RepeatInv
<1>1. CASE SendClientHello
  <2>1. ListAppend(Msg("CLIENT_HELLO")) /\ handshakes' = handshakes
    BY <1>1 DEF SendClientHello, SendHandshakeMsg
  <2>2. Ends(retransmitList', <<"CLIENT_HELLO">>, handshakes')
    BY <2>1, AppendEnds, FlightTypes
  <2>3. Flight' = <<"CLIENT_HELLO">>
    BY <1>1 DEF SendClientHello, Flight, FlightToRepeat
  <2> QED
    BY <1>1, <2>2, <2>3 DEF SendClientHello, RepeatInv
<1>2. CASE RecvHelloVerifyRequest
  <2>1. Flight' = <<>>
    BY <1>2 DEF RecvHelloVerifyRequest, Flight, FlightToRepeat
  <2> QED
    BY <1>0, <1>2, <1>a, <2>1 DEF RecvHelloVerifyRequest
<1>3. CASE RecvServerHelloResume
  <2>1. isClient /\ Flight = <<"CLIENT_HELLO">>
    BY <1>0, <1>3 DEF RecvServerHelloResume, RoleInv, Flight, FlightToRepeat
  <2>2. Flight' = <<"CLIENT_HELLO">>
    BY <1>3, <2>1 DEF RecvServerHelloResume, Flight, FlightToRepeat
  <2> QED
    BY <1>0, <1>3, <2>1, <2>2 DEF RecvServerHelloResume, RepeatInv
<1>4. CASE RecvServerHelloDone
  <2>1. Flight' = <<>>
    BY <1>4 DEF RecvServerHelloDone, Flight, FlightToRepeat
  <2> QED
    BY <1>0, <1>4, <1>a, <2>1 DEF RecvServerHelloDone
<1>5. CASE SendClientKeyExchange
  <2>1. ListAppend(Msg("CLIENT_KEY_EXCHANGE")) /\ handshakes' = handshakes
    BY <1>5 DEF SendClientKeyExchange, SendHandshakeMsg
  <2>2. Ends(retransmitList', <<"CLIENT_KEY_EXCHANGE">>, handshakes')
    BY <2>1, AppendEnds, FlightTypes
  <2>3. isClient /\ isClient' /\ hsState' = "TRY_SEND_CHANGE_CIPHER_SPEC"
    BY <1>0, <1>5 DEF SendClientKeyExchange, RoleInv
  <2>4. Flight' = <<"CLIENT_KEY_EXCHANGE">> \/ Flight' = <<>>
    BY <2>3 DEF Flight, FlightToRepeat, First
  <2> QED
    BY <1>0, <1>5, <2>2, <2>3, <2>4, NoFlight DEF SendClientKeyExchange, RepeatInv
<1>6. CASE SendHelloRequest
  <2>1. hsState' = "TLS_CONNECTED" /\ timer' # "2msl"
    BY <1>0, <1>6 DEF SendHelloRequest
  <2>2. Flight' = <<>>
    BY <2>1 DEF Flight, FlightToRepeat
  <2> QED
    BY <1>a, <2>1, <2>2
<1>7. CASE RecvClientHello
  <2>1. Flight' = <<>>
    BY <1>7 DEF RecvClientHello, Flight, FlightToRepeat
  <2> QED
    BY <1>0, <1>7, <1>a, <2>1 DEF RecvClientHello
<1>8. CASE SendHelloVerifyRequest
  <2>1. Flight' = <<>>
    BY <1>8 DEF SendHelloVerifyRequest, Flight, FlightToRepeat
  <2> QED
    BY <1>0, <1>8, <1>a, <2>1 DEF SendHelloVerifyRequest
<1>9. CASE SendServerHello
  <2>1. ListAppend(Msg("SERVER_HELLO")) /\ handshakes' = handshakes
    BY <1>9 DEF SendServerHello, SendHandshakeMsg
  <2>2. Ends(retransmitList', <<"SERVER_HELLO">>, handshakes')
    BY <2>1, AppendEnds, FlightTypes
  <2>3. ~isClient /\ ~isClient' /\ isResume' = isResume
    BY <1>0, <1>9 DEF SendServerHello, RoleInv
  <2>4. Flight' = <<"SERVER_HELLO">>
    BY <1>0, <1>9, <2>3 DEF SendServerHello, Flight, FlightToRepeat, First, LastFlight
  <2> QED
    BY <1>0, <1>9, <2>2, <2>4 DEF SendServerHello, RepeatInv
<1>10. CASE SendServerHelloDone
  <2>1. ListAppend(Msg("SERVER_HELLO_DONE")) /\ handshakes' = handshakes
    BY <1>10 DEF SendServerHelloDone, SendHandshakeMsg
  <2>2. Flight = <<"SERVER_HELLO">>
    BY <1>10 DEF SendServerHelloDone, Flight
  <2>3. Ends(retransmitList', <<"SERVER_HELLO", "SERVER_HELLO_DONE">>, handshakes')
    BY <1>0, <2>1, <2>2, AppendEnds, FlightTypes
  <2>4. Flight' = <<"SERVER_HELLO", "SERVER_HELLO_DONE">>
    BY <1>10 DEF SendServerHelloDone, Flight, FlightToRepeat
  <2> QED
    BY <1>10, <2>3, <2>4 DEF SendServerHelloDone, RepeatInv
<1>11. CASE RecvClientKeyExchange
  <2>1. /\ ~isClient /\ ~isResume /\ ~isClient' /\ ~isResume'
        /\ Flight = <<"SERVER_HELLO", "SERVER_HELLO_DONE">>
    BY <1>0, <1>11 DEF RecvClientKeyExchange, RoleInv, Flight, FlightToRepeat
  <2>2. Flight' = <<"SERVER_HELLO", "SERVER_HELLO_DONE">>
    BY <1>11, <2>1 DEF RecvClientKeyExchange, Flight, FlightToRepeat
  <2> QED
    BY <1>0, <1>11, <2>1, <2>2 DEF RecvClientKeyExchange, RepeatInv
<1>12. CASE SendChangeCipherSpec
  <2>1. /\ ListAppend(Msg("CCS")) /\ handshakes' = handshakes /\ flush = 0
        /\ hsState = "TRY_SEND_CHANGE_CIPHER_SPEC"
        /\ UNCHANGED <<isClient, isResume, timer>>
    BY <1>12 DEF SendChangeCipherSpec
  <2>2. pending = NewState(handshakes) /\ pending # NULL
    BY <2>1, OutsideFlush, NewStateType, RecordWriteAssumption
    DEF FlightInv, InUse, KeysReady, ConnState
  <2>3. hsState' = "TRY_SEND_FINISH"
    BY <1>12, <2>2 DEF SendChangeCipherSpec
  <2>4. First' = First /\ (LastFlight' <=> LastFlight)
    BY <2>1 DEF First, LastFlight
  <2>5. CASE LastFlight
    <3>1. Ends(retransmitList', <<"CCS">>, handshakes')
      BY <2>1, AppendEnds, FlightTypes
    <3>2. Flight' = <<"CCS">>
      BY <2>3, <2>4, <2>5 DEF Flight
    <3> QED
      BY <1>0, <2>1, <2>3, <3>1, <3>2 DEF RepeatInv
  <2>6. CASE ~LastFlight
    <3>1. Flight = <<First>>
      BY <2>1, <2>6 DEF Flight
    <3>2. Ends(retransmitList', <<First, "CCS">>, handshakes')
      BY <1>0, <2>1, <3>1, AppendEnds, FlightTypes
    <3>3. Flight' = <<First, "CCS">>
      BY <2>3, <2>4, <2>6 DEF Flight
    <3> QED
      BY <1>0, <2>1, <2>3, <3>2, <3>3 DEF RepeatInv
  <2> QED
    BY <2>5, <2>6
<1>13. CASE SendFinished
  <2>1. /\ ListAppend(Msg("FINISHED")) /\ handshakes' = handshakes
        /\ hsState = "TRY_SEND_FINISH" /\ UNCHANGED <<isClient, isResume>>
    BY <1>13 DEF SendFinished, SendHandshakeMsg
  <2>2. CASE LastFlight
    <3>1. hsState' = "TLS_CONNECTED" /\ timer' = "2msl"
      BY <1>13, <2>2 DEF SendFinished
    <3>2. Flight = <<"CCS">>
      BY <2>1, <2>2 DEF Flight
    <3>3. Ends(retransmitList', <<"CCS", "FINISHED">>, handshakes')
      BY <1>0, <2>1, <3>2, AppendEnds, FlightTypes
    <3>4. Flight' = <<"CCS", "FINISHED">>
      BY <3>1 DEF Flight, FlightToRepeat
    <3> QED
      BY <3>1, <3>3, <3>4 DEF RepeatInv
  <2>3. CASE ~LastFlight
    <3>1. hsState' = "TRY_RECV_FINISH" /\ timer' = "handshake"
      BY <1>13, <2>3 DEF SendFinished
    <3>2. Flight = <<First, "CCS">>
      BY <2>1, <2>3 DEF Flight
    <3>3. Ends(retransmitList', <<First, "CCS", "FINISHED">>, handshakes')
      BY <1>0, <2>1, <3>2, AppendEnds, FlightTypes
    <3>4. Flight' = <<First, "CCS", "FINISHED">>
      BY <1>0, <2>1, <2>3, <3>1 DEF Flight, FlightToRepeat, First, LastFlight
    <3> QED
      BY <3>1, <3>3, <3>4 DEF RepeatInv
  <2> QED
    BY <2>2, <2>3
<1>14. CASE RecvFinished
  <2>1. /\ UNCHANGED <<isClient, isResume, timer>> /\ timer # "2msl"
        /\ hsState' = IF LastFlight THEN "TRY_SEND_CHANGE_CIPHER_SPEC" ELSE "TLS_CONNECTED"
    BY <1>0, <1>14 DEF RecvFinished
  <2>2. LastFlight' <=> LastFlight
    BY <2>1 DEF LastFlight
  <2>3. Flight' = <<>>
    BY <2>1, <2>2 DEF Flight, FlightToRepeat
  <2> QED
    BY <1>a, <2>1, <2>3
<1>15. CASE Timeout
  BY <1>15, SameFlight DEF Timeout, FlushStart
<1>16. CASE FlushNode
  BY <1>16, SameFlight DEF FlushNode
<1>17. CASE FlushEnd
  BY <1>17, SameFlight DEF FlushEnd
<1>18. CASE WriteApp
  BY <1>18, SameFlight DEF WriteApp
<1>19. CASE ReadApp
  BY <1>19, SameFlight DEF ReadApp, Connected
<1>20. CASE Release2Msl
  <2>1. Flight' = <<>>
    BY <1>20 DEF Release2Msl, Connected, Flight, FlightToRepeat
  <2> QED
    BY <1>20, <1>a, <2>1 DEF Release2Msl, Connected
<1>21. CASE PostHandshakeFinished
  <2>1. UNCHANGED <<isClient, isResume, handshakes, hsState, retransmitList>>
    BY <1>21 DEF PostHandshakeFinished, FlushStart
  <2> QED
    BY <1>21, <2>1, SameFlight DEF PostHandshakeFinished, Connected
<1>22. CASE Renegotiate
  <2>1. /\ timer' = "none" /\ hsState' \in {"TRY_SEND_CLIENT_HELLO", "TRY_SEND_HELLO_REQUEST"}
    BY <1>22 DEF Renegotiate
  <2>2. Flight' = <<>>
    BY <2>1 DEF Flight, FlightToRepeat
  <2> QED
    BY <1>a, <2>1, <2>2
<1>23. CASE PeerRenegotiates
  <2>1. timer' = "none" /\ hsState' \in {"TRY_SEND_CLIENT_HELLO", "TRY_RECV_CLIENT_HELLO"}
    BY <1>23 DEF PeerRenegotiates
  <2>2. Flight' = <<>>
    BY <2>1 DEF Flight, FlightToRepeat
  <2> QED
    BY <1>a, <2>1, <2>2
<1>24. CASE UNCHANGED vars
  BY <1>24, SameFlight DEF vars
<1> QED
  BY <1>1, <1>2, <1>3, <1>4, <1>5, <1>6, <1>7, <1>8, <1>9, <1>10, <1>11, <1>12,
     <1>13, <1>14, <1>15, <1>16, <1>17, <1>18, <1>19, <1>20, <1>21, <1>22, <1>23,
     <1>24 DEF Next

(* The initial states satisfy RepeatInv. *)
LEMMA InitRepeat == Init => RepeatInv
<1> SUFFICES ASSUME Init PROVE RepeatInv
  OBVIOUS
<1>1. Len(retransmitList) = 0
  BY EmptySeq DEF Init
<1>2. Flight = <<>>
  BY DEF Init, Flight, FlightToRepeat
<1>3. Ends(retransmitList, Flight, handshakes)
  BY <1>1, <1>2 DEF Ends
<1> QED
  BY <1>3 DEF Init, RepeatInv

(* The end RepeatInv demands is the flight of LostFlightIsRepeated. *)
LEMMA RepeatedFlight == TypeOK /\ RepeatInv => LostFlightIsRepeated
<1> SUFFICES ASSUME TypeOK, RepeatInv PROVE LostFlightIsRepeated
  OBVIOUS
<1> DEFINE flight == [i \in DOMAIN FlightToRepeat |->
                        [type |-> FlightToRepeat[i], hs |-> handshakes]]
<1>1. FlightToRepeat \in Seq(MessageTypes)
  BY ShortSeqs DEF FlightToRepeat, MessageTypes, HandshakeTypes
<1>2. CASE FlightToRepeat = <<>>
  <2>1. flight = <<>>
    BY <1>2
  <2> QED
    BY <2>1 DEF LostFlightIsRepeated
<1>3. CASE FlightToRepeat # <<>>
  <2>1. Flight = FlightToRepeat
    BY <1>3 DEF Flight, FlightToRepeat
  <2>2. retransmitList \in Seq(Message) /\ handshakes \in Nat
    BY RecordWriteAssumption DEF TypeOK
  <2>3. IsSuffix(flight, retransmitList)
    BY <1>1, <2>1, <2>2, EndsIsSuffix DEF RepeatInv
  <2>4. timer # "none"
    BY <1>3 DEF FlightToRepeat, RepeatInv
  <2> QED
    BY <2>3, <2>4 DEF LostFlightIsRepeated
<1> QED
  BY <1>2, <1>3

(* Whatever messages are lost: while the peer may be waiting for this end's *)
(* last flight, all of it is at the end of the retransmission list, in      *)
(* order, and a timer runs that repeats it.                                 *)
THEOREM LostFlightsAreRepeated ==
  ASSUME ResumptionOnRenego = FALSE PROVE Spec => []LostFlightIsRepeated
<1> QED
  BY InitType, NextType, InitFlight, NextFlight, InitRepeat, NextRepeat, RepeatedFlight,
     PTL DEF Spec
=============================================================================
