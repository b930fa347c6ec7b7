------------------------------ MODULE HsReass ------------------------------
(***************************************************************************)
(* How one DTLS 1.2 endpoint puts the peer's handshake messages in order   *)
(* and together again: DtlsTryRecvHandShakeMsg (tls/handshake/recv) over   *)
(* the reassembly queue (tls/handshake/reass).  The record layer below     *)
(* hands up fragments in any order, any number of times; the handshake     *)
(* layer above is the sequence of message types its states wait for.       *)
(***************************************************************************)
EXTENDS ReassBitMap, Sequences

CONSTANTS
  Fragments,              \* the fragments the peer sends, in all its handshakes
  Expected,               \* Expected[h]: the message types awaited in handshake h
  MAX_NUM_EXCEED_EXPECT,  \* 10 in the code
  MaxHandshakes           \* bound: handshakes on one connection

HS_MsgType == {"CLIENT_HELLO", "CLIENT_KEY_EXCHANGE", "HELLO_VERIFY_REQUEST",
               "SERVER_HELLO", "CERTIFICATE", "SERVER_KEY_EXCHANGE",
               "SERVER_HELLO_DONE", "FINISHED"}

(* HS_MsgInfo, as DtlsParseHsMsgHeader lets it pass; hs is the handshake   *)
(* the message belongs to, which the header does not say.                  *)
HS_MsgInfo ==
  {f \in [hs : Nat \ {0}, type : HS_MsgType, sequence : Nat, length : Nat,
          fragmentOffset : Nat, fragmentLength : Nat] :
     /\ f.fragmentOffset + f.fragmentLength <= f.length
     /\ f.length # 0 => f.fragmentLength # 0}

(* The peer's messages have one header each, and come as they are awaited. *)
ASSUME ReassAssumption ==
  /\ MaxHandshakes \in Nat \ {0}
  /\ MAX_NUM_EXCEED_EXPECT \in Nat
  /\ Expected \in [1 .. MaxHandshakes -> Seq(HS_MsgType)]
  /\ Fragments \subseteq HS_MsgInfo
  /\ \A f \in Fragments :
       /\ f.hs <= MaxHandshakes
       /\ f.sequence < Len(Expected[f.hs])
       /\ f.type = Expected[f.hs][f.sequence + 1]
  /\ \A f, g \in Fragments :
       f.hs = g.hs /\ f.sequence = g.sequence => f.length = g.length

VARIABLES
  handshake,       \* the number of the handshake
  state,           \* hsCtx->state: the place in Expected[handshake] it waits at
  isRecvCCS,       \* the ChangeCipherSpec before the Finished has come (CCS_IsRecv)
  expectRecvSeq,   \* hsCtx->expectRecvSeq
  reassMsg,        \* hsCtx->reassMsg: the node of each sequence number it holds
  alert,           \* the fatal alert sent, or "none"
  progress,        \* history: how far expectRecvSeq has been in this handshake
  received,        \* history: the bytes, with their handshakes, put into each node
  processed        \* history: the messages handed up in this handshake, as they
                   \* went into its transcript

hist == <<progress, received, processed>>
vars == <<handshake, state, isRecvCCS, expectRecvSeq, reassMsg, alert, hist>>

(* A node of the queue; the bytes of the message itself are abstracted. *)
HS_ReassQueue(length) ==
  [type : HS_MsgType, length : {length}, isReassComplete : BOOLEAN,
   reassBitMap : BitMaps(length)]

Alerts == {"none", "DECODE_ERROR", "UNEXPECTED_MESSAGE", "DECRYPT_ERROR"}

Sources == SUBSET (Nat \X Nat)      \* <<handshake, number of the byte>>

ProcessedMsg == [sequence : Nat, type : HS_MsgType, length : Nat, bytes : Sources]

(* Every variable stays in its type: a node's bitmap is as large as its    *)
(* message needs, and the state stays within the handshake.                *)
TypeOK ==
  /\ handshake \in 1 .. MaxHandshakes
  /\ state \in 1 .. Len(Expected[handshake]) + 1
  /\ isRecvCCS \in BOOLEAN
  /\ expectRecvSeq \in Nat
  /\ \A s \in DOMAIN reassMsg :
       /\ s \in Nat
       /\ reassMsg[s].length \in Nat
       /\ reassMsg[s] \in HS_ReassQueue(reassMsg[s].length)
  /\ alert \in Alerts
  /\ progress \in Nat
  /\ DOMAIN received = DOMAIN reassMsg
  /\ \A s \in DOMAIN received : received[s] \in Sources
  /\ processed \in Seq(ProcessedMsg)

EmptyQueue == [s \in {} |-> {}]

Init ==
  /\ handshake = 1 /\ state = 1 /\ isRecvCCS = FALSE /\ expectRecvSeq = 0
  /\ reassMsg = EmptyQueue /\ received = EmptyQueue
  /\ alert = "none" /\ progress = 0 /\ processed = <<>>

-----------------------------------------------------------------------------
(* The queue.                                                              *)

Put(queue, s, node) ==
  [n \in DOMAIN queue \cup {s} |-> IF n = s THEN node ELSE queue[n]]

Without(queue, s) == [n \in DOMAIN queue \ {s} |-> queue[n]]

(* The bytes of f, as they lie in the message. *)
Bytes(f) ==
  {f.hs} \X (f.fragmentOffset .. f.fragmentOffset + f.fragmentLength - 1)

ReassNodeNew(f) ==
  [type |-> f.type, length |-> f.length, isReassComplete |-> FALSE,
   reassBitMap |-> EmptyBitMap(f.length)]

(* GetReassNode finds the node, or a new one is made. *)
GetReassNode(f) ==
  IF f.sequence \in DOMAIN reassMsg THEN reassMsg[f.sequence] ELSE ReassNodeNew(f)

BytesOf(s) == IF s \in DOMAIN received THEN received[s] ELSE {}

(* The node after the fragment; an empty message is complete at once. *)
ReassembleMsg(node, f) ==
  LET map == SetReassBitMap(node.reassBitMap, f.fragmentOffset, f.fragmentLength) IN
  IF node.length = 0
  THEN [type |-> node.type, length |-> 0, isReassComplete |-> TRUE,
        reassBitMap |-> node.reassBitMap]
  ELSE [type |-> node.type, length |-> node.length,
        isReassComplete |-> node.isReassComplete \/ IsReassComplete(map, node.length),
        reassBitMap |-> map]

(* Faulty: no limit on how far ahead a message may be. *)
FaultyExceedsExpect(f, e) == FALSE

ExceedsExpect(f, e) == f.sequence > e + MAX_NUM_EXCEED_EXPECT

(* With the number e expected: a message too far ahead is dropped, a       *)
(* fragment that does not belong to its node's message is an error.        *)
HS_ReassAppend(f, e) ==
  \/ ExceedsExpect(f, e) /\ UNCHANGED <<reassMsg, received, alert>>
  \/ /\ ~ExceedsExpect(f, e)
     /\ GetReassNode(f).type = f.type /\ GetReassNode(f).length = f.length
     /\ reassMsg' = Put(reassMsg, f.sequence, ReassembleMsg(GetReassNode(f), f))
     /\ received' = Put(received, f.sequence, BytesOf(f.sequence) \cup Bytes(f))
     /\ UNCHANGED alert
  \/ /\ ~ExceedsExpect(f, e)
     /\ GetReassNode(f).type # f.type \/ GetReassNode(f).length # f.length
     /\ alert' = "DECODE_ERROR"
     /\ UNCHANGED <<reassMsg, received>>

-----------------------------------------------------------------------------
(* Handing a message up.                                                   *)

InHandshake == alert = "none" /\ state <= Len(Expected[handshake])

Awaited(s) == Expected[handshake][s]

(* CheckHsMsgType: the state's message, a Finished only after the CCS. *)
CheckHsMsgType(type, s) == type = Awaited(s) /\ (type = "FINISHED" => isRecvCCS)

(* DtlsCheckAndParseMsg and ProcessReceivedHandshakeMsg for message m, with *)
(* hsCtx->state at s and the number e expected.  A Finished with bytes of   *)
(* another handshake fails its verification.                                *)
ProcessMsg(m, s, e) ==
  IF ~CheckHsMsgType(m.type, s)
  THEN /\ alert' = "UNEXPECTED_MESSAGE"
       /\ state' = s /\ expectRecvSeq' = e
       /\ UNCHANGED <<progress, processed>>
  ELSE /\ expectRecvSeq' = e + 1
       /\ progress' = IF e + 1 > progress THEN e + 1 ELSE progress
       /\ processed' = Append(SubSeq(processed, 1, e), m)
       /\ IF \A b \in m.bytes : b[1] = handshake
          THEN state' = s + 1 /\ UNCHANGED alert
          ELSE state' = s /\ alert' = "DECRYPT_ERROR"

(* The message expected next lies whole in the queue. *)
Ready == expectRecvSeq \in DOMAIN reassMsg /\ reassMsg[expectRecvSeq].isReassComplete

HS_GetReassMsg ==
  /\ InHandshake /\ Ready
  /\ LET node == reassMsg[expectRecvSeq]
         m == [sequence |-> expectRecvSeq, type |-> node.type, length |-> node.length,
               bytes |-> received[expectRecvSeq]]
     IN ProcessMsg(m, state, expectRecvSeq)
  /\ reassMsg' = Without(reassMsg, expectRecvSeq)
  /\ received' = Without(received, expectRecvSeq)
  /\ UNCHANGED <<handshake, isRecvCCS>>

-----------------------------------------------------------------------------
(* Reading from the record layer.                                          *)

(* The HelloVerifyRequest was lost, or so it seems: the first ClientHello  *)
(* comes again in the first handshake.                                     *)
HelloAgain(f) ==
  /\ f.sequence = 0 /\ f.type = "CLIENT_HELLO"
  /\ expectRecvSeq = 1 /\ Awaited(state) = "CLIENT_HELLO"
  /\ handshake = 1

(* What the record layer hands up: fragments of this handshake, its        *)
(* Finished under the new read keys only; under the old keys the Finished  *)
(* of the handshake before as well.                                        *)
MayArrive(f) ==
  \/ f.hs = handshake /\ (f.type = "FINISHED" <=> isRecvCCS)
  \/ f.hs = handshake - 1 /\ f.type = "FINISHED" /\ ~isRecvCCS

(* Faulty: only what is ahead counts as out of order. *)
FaultyOutOfOrder(f, e) == f.sequence > e

OutOfOrder(f, e) == f.sequence # e

(* A Finished while the first message is awaited is dropped, and so is     *)
(* what was processed before; the rest is queued.                          *)
DtlsDisorderMsgProcess(f, e) ==
  LET dropped == (e = 0 /\ f.type = "FINISHED") \/ f.sequence <= e IN
  \/ dropped /\ UNCHANGED <<reassMsg, received, alert>>
  \/ ~dropped /\ HS_ReassAppend(f, e)

DtlsTryRecvHandShakeMsg(f) ==
  /\ InHandshake /\ ~Ready /\ MayArrive(f)
  /\ LET e == IF HelloAgain(f) THEN 0 ELSE expectRecvSeq
         s == IF HelloAgain(f) THEN 1 ELSE state
     IN \/ /\ OutOfOrder(f, e) \/ f.fragmentLength # f.length
           /\ IF OutOfOrder(f, e) THEN DtlsDisorderMsgProcess(f, e)
              ELSE HS_ReassAppend(f, e)
           /\ expectRecvSeq' = e /\ state' = s
           /\ UNCHANGED <<progress, processed>>
        \/ /\ ~OutOfOrder(f, e) /\ f.fragmentLength = f.length
           /\ ProcessMsg([sequence |-> f.sequence, type |-> f.type, length |-> f.length,
                          bytes |-> Bytes(f)], s, e)
           /\ UNCHANGED <<reassMsg, received>>
  /\ UNCHANGED <<handshake, isRecvCCS>>

(* While the Finished is awaited, reading meets the ChangeCipherSpec. *)
RecvChangeCipherSpec ==
  /\ InHandshake /\ ~Ready /\ Awaited(state) = "FINISHED" /\ ~isRecvCCS
  /\ isRecvCCS' = TRUE
  /\ UNCHANGED <<handshake, state, expectRecvSeq, reassMsg, alert, hist>>

(* Faulty: the state of the old handshake context lives on. *)
FaultyStartHandshake ==
  /\ alert = "none" /\ state = Len(Expected[handshake]) + 1
  /\ handshake < MaxHandshakes
  /\ handshake' = handshake + 1
  /\ isRecvCCS' = FALSE /\ expectRecvSeq' = 0 /\ progress' = 0
  /\ reassMsg' = EmptyQueue /\ received' = EmptyQueue /\ processed' = <<>>
  /\ UNCHANGED <<state, alert>>

(* A renegotiation: HS_DeInit and HS_Init make a new handshake context. *)
StartHandshake ==
  /\ alert = "none" /\ state = Len(Expected[handshake]) + 1
  /\ handshake < MaxHandshakes
  /\ handshake' = handshake + 1
  /\ state' = 1 /\ isRecvCCS' = FALSE /\ expectRecvSeq' = 0 /\ progress' = 0
  /\ reassMsg' = EmptyQueue /\ received' = EmptyQueue /\ processed' = <<>>
  /\ UNCHANGED alert

Next ==
  \/ HS_GetReassMsg
  \/ \E f \in Fragments : DtlsTryRecvHandShakeMsg(f)
  \/ RecvChangeCipherSpec
  \/ StartHandshake

Spec == Init /\ [][Next]_vars

(* The caller reads on, and the peer repeats what was not answered: every  *)
(* fragment of the messages not yet processed comes again.                 *)
Repeated(f) ==
  f.hs = handshake /\ f.sequence >= progress /\ DtlsTryRecvHandShakeMsg(f)

FairSpec ==
  /\ Spec
  /\ WF_vars(HS_GetReassMsg) /\ WF_vars(RecvChangeCipherSpec)
  /\ \A f \in Fragments : WF_vars(Repeated(f))

-----------------------------------------------------------------------------
(* Properties.                                                             *)

(* The transcript is the peer's messages in the peer's order, each with    *)
(* every one of its bytes, however they were cut up, repeated, overlapped  *)
(* or delayed (hs_state_recv.c, hs_reass.c).                               *)
WholeMessages ==
  \A i \in DOMAIN processed :
    /\ processed[i].sequence = i - 1
    /\ {b[2] : b \in processed[i].bytes} = 0 .. processed[i].length - 1

(* Memory: no message more than MAX_NUM_EXCEED_EXPECT ahead of the         *)
(* progress made is kept (the comment in HS_ReassAppend).                  *)
QueueBounded ==
  \A s \in DOMAIN reassMsg : s <= progress + MAX_NUM_EXCEED_EXPECT

(* A peer that keeps to the protocol never makes the endpoint send a fatal *)
(* alert, whatever the network does to its fragments.                      *)
NoFatalAlert == alert = "none"

(* "In the renegotiation state, the FINISHED message of the previous       *)
(* handshake should be discarded" (DtlsDisorderMsgProcess): a late copy of  *)
(* it never ends the new handshake, whose peer keeps to the protocol.       *)
StaleFinishedDiscarded == handshake > 1 => NoFatalAlert

(* When the peer repeats what was not answered, the handshake gets all its *)
(* messages.                                                               *)
HandshakeCompletes == \A h \in 1 .. MaxHandshakes :
  handshake = h ~> state = Len(Expected[h]) + 1

=============================================================================
