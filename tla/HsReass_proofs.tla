--------------------------- MODULE HsReass_proofs ---------------------------
(***************************************************************************)
(* The transcript consists of whole messages in their order, and the queue *)
(* is bounded, for every set of fragments a peer may send and every bound. *)
(***************************************************************************)
EXTENDS HsReass, SequenceTheorems, TLAPS

-----------------------------------------------------------------------------
(* The bit tricks of hs_reass.c do what a set of byte numbers would do, for *)
(* messages and fragments of every length.                                  *)

(* What i >> 3 and i & 7 are. *)
LEMMA DivMod ==
  ASSUME NEW i \in Nat
  PROVE  /\ i \div 8 \in Nat /\ i % 8 \in 0 .. 7
         /\ i = 8 * (i \div 8) + (i % 8)
OBVIOUS

(* The bits set for a range off .. e are those of its bytes, also where a  *)
(* long range is set by masks (SetReassBitMap, hs_reass.c:43-58).          *)
LEMMA BitInByte ==
  ASSUME NEW i \in Nat, NEW off \in Nat, NEW e \in Nat, off <= e
  PROVE  i % 8 \in FragmentBits(i \div 8, off, e) <=> i \in off .. e
<1>2. off \div 8 \in Nat /\ off % 8 \in 0 .. 7 /\ off = 8 * (off \div 8) + (off % 8)
  BY DivMod
<1>3. e \div 8 \in Nat /\ e % 8 \in 0 .. 7 /\ e = 8 * (e \div 8) + (e % 8)
  BY DivMod
<1>1. i \div 8 \in Nat /\ i % 8 \in 0 .. 7 /\ i = 8 * (i \div 8) + (i % 8)
  BY DivMod
<1> QED
  BY <1>1, <1>2, <1>3 DEF FragmentBits, g_startMaskMap, g_endMaskMap

(* SetReassBitMap adds exactly the bytes of the fragment, and stays inside *)
(* the bitmap that ReassNodeNew allocated.                                 *)
THEOREM SetMarksTheFragment ==
  ASSUME NEW len \in Nat, NEW map \in BitMaps(len),
         NEW off \in Nat, NEW flen \in Nat \ {0}, off + flen <= len
  PROVE  /\ SetReassBitMap(map, off, flen) \in BitMaps(len)
         /\ BytesIn(SetReassBitMap(map, off, flen), len)
              = BytesIn(map, len) \cup (off .. off + flen - 1)
<1> DEFINE e == off + flen - 1
           m == SetReassBitMap(map, off, flen)
<1>1. m \in BitMaps(len)
  <2>1. \A i \in DOMAIN map : FragmentBits(i, off, e) \subseteq 0 .. 7
    BY DivMod DEF FragmentBits, g_startMaskMap, g_endMaskMap
  <2> QED
    BY <2>1 DEF SetReassBitMap, BitMaps
<1>2. ASSUME NEW i \in 0 .. 8 * BitMapSize(len) - 1
      PROVE  i % 8 \in m[i \div 8] <=> i % 8 \in map[i \div 8] \/ i \in off .. e
  <2>1. BitMapSize(len) \in Nat /\ i \div 8 \in 0 .. BitMapSize(len) - 1 /\ i \in Nat
    BY DEF BitMapSize
  <2>2. m[i \div 8] = map[i \div 8] \cup FragmentBits(i \div 8, off, e)
    BY <2>1 DEF SetReassBitMap, BitMaps
  <2> QED
    BY <2>1, <2>2, BitInByte
<1>3. off .. e \subseteq 0 .. 8 * BitMapSize(len) - 1
  BY DEF BitMapSize
<1> QED
  BY <1>1, <1>2, <1>3 DEF BytesIn

(* IsReassComplete, which compares whole bytes of the bitmap, says that    *)
(* every byte of the message has come.                                     *)
THEOREM CompleteMeansAllBytes ==
  ASSUME NEW len \in Nat \ {0}, NEW map \in BitMaps(len),
         BytesIn(map, len) \subseteq 0 .. len - 1
  PROVE  IsReassComplete(map, len) <=> BytesIn(map, len) = 0 .. len - 1
<1> DEFINE max == len - 1
<1>1. max \in Nat /\ max \div 8 = BitMapSize(len) - 1 /\ max % 8 \in 0 .. 7
      /\ max = 8 * (max \div 8) + (max % 8) /\ BitMapSize(len) \in Nat
      /\ max \div 8 \in Nat
  BY DEF BitMapSize
<1>2. DOMAIN map = 0 .. max \div 8 /\ \A i \in 0 .. max \div 8 : map[i] \subseteq 0 .. 7
  BY <1>1 DEF BitMaps
<1>3. ASSUME NEW i \in 0 .. max \div 8, NEW b \in 0 .. 7
      PROVE  b \in map[i] <=> 8 * i + b \in BytesIn(map, len)
  <2>1. (8 * i + b) \div 8 = i /\ (8 * i + b) % 8 = b /\ 8 * i + b \in 0 .. 8 * BitMapSize(len) - 1
    BY <1>1
  <2> QED
    BY <2>1 DEF BytesIn
<1>4. IsReassComplete(map, len) => BytesIn(map, len) = 0 .. len - 1
  <2> SUFFICES ASSUME IsReassComplete(map, len), NEW i \in 0 .. max
               PROVE  i \in BytesIn(map, len)
    OBVIOUS
  <2>1. i \div 8 \in Nat /\ i % 8 \in 0 .. 7 /\ i = 8 * (i \div 8) + (i % 8)
    BY DivMod
  <2>2. i \div 8 \in 0 .. max \div 8
    BY <1>1, <2>1
  <2>3. i % 8 \in map[i \div 8]
    BY <1>1, <2>1, <2>2 DEF IsReassComplete, g_endMaskMap
  <2> QED
    BY <1>3, <2>1, <2>2, <2>3
<1>5. BytesIn(map, len) = 0 .. len - 1 => IsReassComplete(map, len)
  <2> SUFFICES ASSUME BytesIn(map, len) = 0 .. max PROVE IsReassComplete(map, len)
    OBVIOUS
  <2>1. ASSUME NEW i \in 0 .. max \div 8, NEW b \in 0 .. 7
        PROVE  b \in map[i] <=> 8 * i + b <= max
    BY <1>1, <1>3
  <2>2. map[max \div 8] = g_endMaskMap(max % 8)
    <3>1. PICK q \in 0 .. max \div 8 : q = max \div 8
      BY <1>1
    <3>2. PICK r \in 0 .. 7 : r = max % 8
      BY <1>1
    <3>3. max = 8 * q + r /\ q \in Nat
      BY <1>1, <3>1, <3>2
    <3>4. \A b \in 0 .. 7 : b \in map[q] <=> 8 * q + b <= max
      BY <2>1
    <3>5. \A b \in 0 .. 7 : b \in map[q] <=> b \in 0 .. r
      BY <3>3, <3>4
    <3>6. map[q] \subseteq 0 .. 7 /\ 0 .. r \subseteq 0 .. 7
      BY <1>2
    <3> QED
      BY <3>1, <3>2, <3>5, <3>6 DEF g_endMaskMap
  <2>3. \A i \in 0 .. (max \div 8) - 1 : map[i] = 0 .. 7
    BY <1>1, <1>2, <2>1
  <2> QED
    BY <2>2, <2>3 DEF IsReassComplete
<1> QED
  BY <1>4, <1>5

-----------------------------------------------------------------------------
(* The list of messages.                                                    *)

ByteNumbers(bytes) == {b[2] : b \in bytes}

(* A node says of the bytes it was given what there is to say. *)
NodeOK(node, bytes) ==
  /\ node.length \in Nat /\ node \in HS_ReassQueue(node.length)
  /\ bytes \in Sources
  /\ BytesIn(node.reassBitMap, node.length) = ByteNumbers(bytes)
  /\ ByteNumbers(bytes) \subseteq 0 .. node.length - 1
  /\ node.isReassComplete => ByteNumbers(bytes) = 0 .. node.length - 1

(* A message ready to be handed up as number e. *)
MessageOK(m, e) ==
  /\ m \in ProcessedMsg /\ m.sequence = e
  /\ ByteNumbers(m.bytes) = 0 .. m.length - 1

(* The inductive invariant: the transcript is only whole because the nodes *)
(* are right, and is long enough for the number expected.                  *)
ReassInv ==
  /\ TypeOK
  /\ \A s \in DOMAIN reassMsg : NodeOK(reassMsg[s], received[s])
  /\ WholeMessages
  /\ expectRecvSeq <= Len(processed)
  /\ QueueBounded
  /\ expectRecvSeq <= progress

-----------------------------------------------------------------------------

(* The bytes of a fragment that DtlsParseHsMsgHeader lets pass. *)
LEMMA FragmentBytes ==
  ASSUME NEW f \in HS_MsgInfo
  PROVE  /\ Bytes(f) \in Sources
         /\ ByteNumbers(Bytes(f)) = f.fragmentOffset .. f.fragmentOffset + f.fragmentLength - 1
         /\ ByteNumbers(Bytes(f)) \subseteq 0 .. f.length - 1
<1> DEFINE range == f.fragmentOffset .. f.fragmentOffset + f.fragmentLength - 1
<1>1. f.hs \in Nat /\ f.fragmentOffset \in Nat /\ f.fragmentLength \in Nat /\ f.length \in Nat
      /\ f.fragmentOffset + f.fragmentLength <= f.length
  BY DEF HS_MsgInfo
<1>2. range \subseteq 0 .. f.length - 1 /\ range \subseteq Nat
  BY <1>1
<1>3. Bytes(f) = {f.hs} \X range
  BY DEF Bytes
<1>4. Bytes(f) \in Sources
  BY <1>1, <1>2, <1>3 DEF Sources
<1>5. ByteNumbers(Bytes(f)) = range
  <2>1. \A i \in range : <<f.hs, i>> \in Bytes(f) /\ <<f.hs, i>>[2] = i
    BY <1>3
  <2>2. \A b \in Bytes(f) : b[2] \in range
    BY <1>3
  <2> QED
    BY <2>1, <2>2 DEF ByteNumbers
<1> QED
  BY <1>2, <1>4, <1>5

(* A new node has no byte yet, and belongs to the fragment's message. *)
LEMMA NewNode ==
  ASSUME NEW f \in HS_MsgInfo
  PROVE  NodeOK(ReassNodeNew(f), {})
<1>1. f.length \in Nat /\ f.type \in HS_MsgType
  BY DEF HS_MsgInfo
<1>2. BitMapSize(f.length) \in Nat
  BY <1>1 DEF BitMapSize
<1>3. EmptyBitMap(f.length) \in BitMaps(f.length)
  BY DEF EmptyBitMap, BitMaps
<1>4. BytesIn(EmptyBitMap(f.length), f.length) = {}
  <2> SUFFICES ASSUME NEW i \in 0 .. 8 * BitMapSize(f.length) - 1
               PROVE  i % 8 \notin EmptyBitMap(f.length)[i \div 8]
    BY DEF BytesIn
  <2>1. i \div 8 \in 0 .. BitMapSize(f.length) - 1
    BY <1>2
  <2> QED
    BY <2>1 DEF EmptyBitMap
<1>5. ByteNumbers({}) = {}
  BY DEF ByteNumbers
<1>6. ReassNodeNew(f).isReassComplete = FALSE
      /\ ReassNodeNew(f).length = f.length
      /\ ReassNodeNew(f).reassBitMap = EmptyBitMap(f.length)
      /\ ReassNodeNew(f) \in HS_ReassQueue(f.length)
  BY <1>1, <1>3 DEF ReassNodeNew, HS_ReassQueue
<1> QED
  BY <1>1, <1>4, <1>5, <1>6 DEF NodeOK, Sources

(* ReassembleMsg keeps a node right: it is complete as soon as, and only   *)
(* if, every byte has come.                                                *)
LEMMA NodeAfterFragment ==
  ASSUME NEW f \in HS_MsgInfo, NEW node, NEW bytes, NodeOK(node, bytes),
         node.length = f.length
  PROVE  NodeOK(ReassembleMsg(node, f), bytes \cup Bytes(f))
<1> DEFINE len == node.length
           all == bytes \cup Bytes(f)
           map == SetReassBitMap(node.reassBitMap, f.fragmentOffset, f.fragmentLength)
<1>1. /\ len \in Nat /\ f.fragmentOffset \in Nat /\ f.fragmentLength \in Nat
      /\ f.fragmentOffset + f.fragmentLength <= len
      /\ len # 0 => f.fragmentLength \in Nat \ {0}
  BY DEF HS_MsgInfo, NodeOK
<1>2. ByteNumbers(all) = ByteNumbers(bytes) \cup ByteNumbers(Bytes(f))
  BY DEF ByteNumbers
<1>3. all \in Sources /\ ByteNumbers(all) \subseteq 0 .. len - 1
  BY <1>2, FragmentBytes DEF NodeOK, Sources
<1>4. node.reassBitMap \in BitMaps(len) /\ node.type \in HS_MsgType /\ node.isReassComplete \in BOOLEAN
  BY DEF NodeOK, HS_ReassQueue
<1>5. CASE len = 0
  <2>0. 0 .. len - 1 = {}
    BY <1>5
  <2>1. ByteNumbers(Bytes(f)) = {} /\ ByteNumbers(all) = {}
    <3>1. ByteNumbers(Bytes(f)) \subseteq 0 .. len - 1
      BY FragmentBytes
    <3> QED
      BY <1>3, <2>0, <3>1
  <2>2. /\ ReassembleMsg(node, f).length = len
        /\ ReassembleMsg(node, f).reassBitMap = node.reassBitMap
        /\ ReassembleMsg(node, f) \in HS_ReassQueue(len)
    BY <1>4, <1>5 DEF ReassembleMsg, HS_ReassQueue
  <2> QED
    BY <1>1, <1>2, <1>3, <2>0, <2>1, <2>2 DEF NodeOK
<1>6. CASE len # 0
  <2>1. map \in BitMaps(len)
        /\ BytesIn(map, len) = BytesIn(node.reassBitMap, len)
             \cup (f.fragmentOffset .. f.fragmentOffset + f.fragmentLength - 1)
    BY <1>1, <1>4, <1>6, SetMarksTheFragment
  <2>2. BytesIn(map, len) = ByteNumbers(all)
    BY <1>2, <2>1, FragmentBytes DEF NodeOK
  <2>3. IsReassComplete(map, len) <=> ByteNumbers(all) = 0 .. len - 1
    BY <1>1, <1>3, <1>6, <2>1, <2>2, CompleteMeansAllBytes
  <2>4. node.isReassComplete => ByteNumbers(all) = 0 .. len - 1
    BY <1>2, <1>3 DEF NodeOK
  <2>5. (node.isReassComplete \/ IsReassComplete(map, len)) \in BOOLEAN
    BY DEF IsReassComplete
  <2>6. /\ ReassembleMsg(node, f).length = len
        /\ ReassembleMsg(node, f).reassBitMap = map
        /\ ReassembleMsg(node, f).isReassComplete
             = (node.isReassComplete \/ IsReassComplete(map, len))
        /\ ReassembleMsg(node, f) \in HS_ReassQueue(len)
    BY <1>4, <1>6, <2>1, <2>5 DEF ReassembleMsg, HS_ReassQueue
  <2> QED
    BY <1>1, <1>3, <2>2, <2>3, <2>4, <2>6 DEF NodeOK
<1> QED
  BY <1>5, <1>6

(* A list cut at e and continued with message number e. *)
LEMMA Continued ==
  ASSUME NEW list \in Seq(ProcessedMsg), NEW e \in Nat, e <= Len(list), NEW m,
         MessageOK(m, e),
         \A i \in DOMAIN list : /\ list[i].sequence = i - 1
                                /\ ByteNumbers(list[i].bytes) = 0 .. list[i].length - 1
  PROVE  LET new == Append(SubSeq(list, 1, e), m) IN
         /\ new \in Seq(ProcessedMsg) /\ Len(new) = e + 1
         /\ \A i \in DOMAIN new : /\ new[i].sequence = i - 1
                                  /\ ByteNumbers(new[i].bytes) = 0 .. new[i].length - 1
<1> DEFINE cut == SubSeq(list, 1, e)
           new == Append(cut, m)
<1>1. cut \in Seq(ProcessedMsg) /\ Len(cut) = e /\ \A i \in 1 .. e : cut[i] = list[i]
  BY SubSeqProperties
<1>2. m \in ProcessedMsg /\ m.sequence = e /\ ByteNumbers(m.bytes) = 0 .. m.length - 1
  BY DEF MessageOK
<1>3. new \in Seq(ProcessedMsg) /\ Len(new) = e + 1 /\ new[e + 1] = m
      /\ \A i \in 1 .. e : new[i] = cut[i]
  BY <1>1, <1>2, AppendProperties
<1>4. ASSUME NEW i \in DOMAIN new
      PROVE  /\ new[i].sequence = i - 1
             /\ ByteNumbers(new[i].bytes) = 0 .. new[i].length - 1
  <2>1. i \in 1 .. e \/ i = e + 1
    BY <1>3
  <2>2. CASE i \in 1 .. e
    BY <1>1, <1>3, <2>2
  <2>3. CASE i = e + 1
    BY <1>2, <1>3, <2>3
  <2> QED
    BY <2>1, <2>2, <2>3
<1> QED
  BY <1>3, <1>4

(* Handing up message number e, with the number set back or not. *)
LEMMA ProcessKeeps ==
  ASSUME ReassInv, InHandshake, NEW m, NEW s \in 1 .. state, NEW e \in Nat,
         e <= expectRecvSeq, MessageOK(m, e), ProcessMsg(m, s, e)
  PROVE  /\ state' \in 1 .. Len(Expected[handshake]) + 1
         /\ expectRecvSeq' \in Nat /\ progress' \in Nat /\ alert' \in Alerts
         /\ processed' \in Seq(ProcessedMsg)
         /\ WholeMessages'
         /\ expectRecvSeq' <= Len(processed')
         /\ expectRecvSeq' <= progress' /\ progress <= progress'
<1> DEFINE n == Len(Expected[handshake])
<1>0. n \in Nat /\ state \in 1 .. n
  <2>1. Expected[handshake] \in Seq(HS_MsgType)
    BY ReassAssumption DEF ReassInv, TypeOK
  <2>2. n \in Nat
    BY <2>1
  <2> QED
    BY <2>2 DEF ReassInv, TypeOK, InHandshake
<1>1. /\ expectRecvSeq \in Nat /\ progress \in Nat /\ alert \in Alerts
      /\ processed \in Seq(ProcessedMsg) /\ Len(processed) \in Nat
      /\ expectRecvSeq <= progress /\ expectRecvSeq <= Len(processed)
  BY DEF ReassInv, TypeOK
<1>2. \A i \in DOMAIN processed :
         /\ processed[i].sequence = i - 1
         /\ ByteNumbers(processed[i].bytes) = 0 .. processed[i].length - 1
  BY DEF ReassInv, WholeMessages, ByteNumbers
<1>3. CASE ~CheckHsMsgType(m.type, s)
  <2>1. alert' = "UNEXPECTED_MESSAGE" /\ state' = s /\ expectRecvSeq' = e
        /\ progress' = progress /\ processed' = processed
    BY <1>3 DEF ProcessMsg
  <2>2. WholeMessages'
    BY <2>1 DEF ReassInv, WholeMessages
  <2> QED
    BY <1>0, <1>1, <2>1, <2>2 DEF Alerts
<1>4. CASE CheckHsMsgType(m.type, s)
  <2>1. /\ expectRecvSeq' = e + 1
        /\ progress' = IF e + 1 > progress THEN e + 1 ELSE progress
        /\ processed' = Append(SubSeq(processed, 1, e), m)
        /\ \/ state' = s + 1 /\ alert' = alert
           \/ state' = s /\ alert' = "DECRYPT_ERROR"
    BY <1>4 DEF ProcessMsg
  <2>2. e <= Len(processed)
    BY <1>1
  <2>3. /\ processed' \in Seq(ProcessedMsg) /\ Len(processed') = e + 1
        /\ \A i \in DOMAIN processed' :
             /\ processed'[i].sequence = i - 1
             /\ ByteNumbers(processed'[i].bytes) = 0 .. processed'[i].length - 1
    BY <1>1, <1>2, <2>1, <2>2, Continued
  <2>4. WholeMessages'
    BY <2>3 DEF WholeMessages, ByteNumbers
  <2> QED
    BY <1>0, <1>1, <2>1, <2>3, <2>4 DEF Alerts
<1> QED
  BY <1>3, <1>4

(* Queueing a fragment, with the number set back or not. *)
LEMMA AppendKeeps ==
  ASSUME ReassInv, NEW f \in Fragments, NEW e \in Nat, e <= expectRecvSeq,
         HS_ReassAppend(f, e), progress' = progress
  PROVE  /\ alert' \in Alerts
         /\ DOMAIN received' = DOMAIN reassMsg'
         /\ \A s \in DOMAIN reassMsg' : s \in Nat /\ NodeOK(reassMsg'[s], received'[s])
         /\ QueueBounded'
<1> DEFINE node == GetReassNode(f)
           q == f.sequence
<1>0. f \in HS_MsgInfo /\ MAX_NUM_EXCEED_EXPECT \in Nat
  BY ReassAssumption
<1>1. q \in Nat
  BY <1>0 DEF HS_MsgInfo
<1>2. /\ DOMAIN received = DOMAIN reassMsg /\ alert \in Alerts
      /\ \A s \in DOMAIN reassMsg : s \in Nat /\ NodeOK(reassMsg[s], received[s])
      /\ \A s \in DOMAIN reassMsg : s <= progress + MAX_NUM_EXCEED_EXPECT
      /\ progress \in Nat /\ expectRecvSeq \in Nat /\ expectRecvSeq <= progress
  BY DEF ReassInv, TypeOK, QueueBounded
<1>3. CASE reassMsg' = reassMsg /\ received' = received
  <2>1. alert' \in Alerts
    BY <1>2 DEF HS_ReassAppend, Alerts
  <2> QED
    BY <1>2, <1>3, <2>1 DEF QueueBounded
<1>4. CASE /\ ~ExceedsExpect(f, e) /\ node.length = f.length /\ alert' = alert
           /\ reassMsg' = Put(reassMsg, q, ReassembleMsg(node, f))
           /\ received' = Put(received, q, BytesOf(q) \cup Bytes(f))
  <2>1. NodeOK(node, BytesOf(q))
    BY <1>0, <1>2, NewNode DEF GetReassNode, BytesOf
  <2>2. NodeOK(ReassembleMsg(node, f), BytesOf(q) \cup Bytes(f))
    BY <1>0, <1>4, <2>1, NodeAfterFragment
  <2>3. /\ DOMAIN reassMsg' = DOMAIN reassMsg \cup {q}
        /\ DOMAIN received' = DOMAIN reassMsg \cup {q}
        /\ reassMsg'[q] = ReassembleMsg(node, f)
        /\ received'[q] = BytesOf(q) \cup Bytes(f)
        /\ \A s \in DOMAIN reassMsg \ {q} :
             reassMsg'[s] = reassMsg[s] /\ received'[s] = received[s]
    BY <1>2, <1>4 DEF Put
  <2>4. \A s \in DOMAIN reassMsg' : s \in Nat /\ NodeOK(reassMsg'[s], received'[s])
    BY <1>1, <1>2, <2>2, <2>3
  <2>5. q <= progress + MAX_NUM_EXCEED_EXPECT
    BY <1>0, <1>1, <1>2, <1>4 DEF ExceedsExpect
  <2>6. QueueBounded'
    BY <1>2, <2>3, <2>5 DEF QueueBounded
  <2> QED
    BY <1>2, <1>4, <2>3, <2>4, <2>6
<1> QED
  BY <1>3, <1>4 DEF HS_ReassAppend

-----------------------------------------------------------------------------

(* The empty queue and the first number satisfy the invariant. *)
LEMMA InitReassInv == Init => ReassInv
<1> SUFFICES ASSUME Init PROVE ReassInv
  OBVIOUS
<1>1. Expected[1] \in Seq(HS_MsgType) /\ 1 \in 1 .. MaxHandshakes
  BY ReassAssumption
<1>2. 1 \in 1 .. Len(Expected[1]) + 1
  BY <1>1
<1>3. DOMAIN EmptyQueue = {}
  BY DEF EmptyQueue
<1>4. processed = <<>> /\ <<>> \in Seq(ProcessedMsg) /\ Len(processed) = 0 /\ DOMAIN processed = {}
  BY DEF Init
<1>5. TypeOK
  BY <1>1, <1>2, <1>3, <1>4 DEF Init, TypeOK, Alerts
<1>6. WholeMessages /\ QueueBounded
  BY <1>3, <1>4 DEF Init, WholeMessages, QueueBounded
<1> QED
  BY <1>3, <1>4, <1>5, <1>6 DEF Init, ReassInv

(* Every action keeps the invariant: a fragment handed up, dropped, queued *)
(* or resumed from the queue, and the start of the next handshake.         *)
LEMMA NextReassInv == ReassInv /\ [Next]_vars => ReassInv'
<1> SUFFICES ASSUME ReassInv, [Next]_vars PROVE ReassInv'
  OBVIOUS
<1> USE DEF hist
<1>0. /\ handshake \in 1 .. MaxHandshakes /\ expectRecvSeq \in Nat /\ progress \in Nat
      /\ state \in 1 .. Len(Expected[handshake]) + 1
      /\ Expected[handshake] \in Seq(HS_MsgType) /\ Len(Expected[handshake]) \in Nat
      /\ DOMAIN received = DOMAIN reassMsg
      /\ \A s \in DOMAIN reassMsg : s \in Nat /\ NodeOK(reassMsg[s], received[s])
      /\ MAX_NUM_EXCEED_EXPECT \in Nat
      /\ expectRecvSeq <= progress /\ expectRecvSeq <= Len(processed)
  BY ReassAssumption DEF ReassInv, TypeOK
<1>1. CASE HS_GetReassMsg
  <2> DEFINE node == reassMsg[expectRecvSeq]
             m == [sequence |-> expectRecvSeq, type |-> node.type, length |-> node.length,
                   bytes |-> received[expectRecvSeq]]
  <2>1. /\ InHandshake /\ Ready /\ ProcessMsg(m, state, expectRecvSeq)
        /\ reassMsg' = Without(reassMsg, expectRecvSeq)
        /\ received' = Without(received, expectRecvSeq)
        /\ handshake' = handshake /\ isRecvCCS' = isRecvCCS
    BY <1>1 DEF HS_GetReassMsg
  <2>2. MessageOK(m, expectRecvSeq)
    <3>1. NodeOK(node, received[expectRecvSeq]) /\ node.isReassComplete
      BY <1>0, <2>1 DEF Ready
    <3>2. node.type \in HS_MsgType
      BY <3>1 DEF NodeOK, HS_ReassQueue
    <3> QED
      BY <1>0, <3>1, <3>2 DEF MessageOK, ProcessedMsg, NodeOK
  <2>3. state \in 1 .. state /\ expectRecvSeq <= expectRecvSeq
    BY <1>0
  <2>4. /\ state' \in 1 .. Len(Expected[handshake]) + 1
        /\ expectRecvSeq' \in Nat /\ progress' \in Nat /\ alert' \in Alerts
        /\ processed' \in Seq(ProcessedMsg) /\ WholeMessages'
        /\ expectRecvSeq' <= Len(processed') /\ expectRecvSeq' <= progress'
        /\ progress <= progress'
    BY <1>0, <2>1, <2>2, <2>3, ProcessKeeps
  <2>5. /\ DOMAIN reassMsg' = DOMAIN reassMsg \ {expectRecvSeq}
        /\ DOMAIN received' = DOMAIN reassMsg'
        /\ \A s \in DOMAIN reassMsg' : reassMsg'[s] = reassMsg[s] /\ received'[s] = received[s]
    BY <1>0, <2>1 DEF Without
  <2>6. \A s \in DOMAIN reassMsg' : s \in Nat /\ NodeOK(reassMsg'[s], received'[s])
    BY <1>0, <2>5
  <2>7. QueueBounded'
    BY <1>0, <2>4, <2>5 DEF ReassInv, QueueBounded
  <2>8. isRecvCCS' \in BOOLEAN
    BY <2>1 DEF ReassInv, TypeOK
  <2> QED
    BY <1>0, <2>1, <2>4, <2>5, <2>6, <2>7, <2>8 DEF ReassInv, TypeOK, NodeOK
<1>2. ASSUME NEW f \in Fragments, DtlsTryRecvHandShakeMsg(f)
      PROVE  ReassInv'
  <2> DEFINE e == IF HelloAgain(f) THEN 0 ELSE expectRecvSeq
             s == IF HelloAgain(f) THEN 1 ELSE state
             m == [sequence |-> f.sequence, type |-> f.type, length |-> f.length,
                   bytes |-> Bytes(f)]
  <2>0. f \in HS_MsgInfo
    BY ReassAssumption
  <2>1. e \in Nat /\ e <= expectRecvSeq /\ s \in 1 .. state
    BY <1>0
  <2>2. handshake' = handshake /\ isRecvCCS' = isRecvCCS /\ isRecvCCS \in BOOLEAN /\ InHandshake
    BY <1>2 DEF DtlsTryRecvHandShakeMsg, ReassInv, TypeOK
  <2>3. CASE /\ DtlsDisorderMsgProcess(f, e) \/ HS_ReassAppend(f, e)
             /\ expectRecvSeq' = e /\ state' = s
             /\ progress' = progress /\ processed' = processed
    <3>1. /\ alert' \in Alerts
          /\ DOMAIN received' = DOMAIN reassMsg'
          /\ \A t \in DOMAIN reassMsg' : t \in Nat /\ NodeOK(reassMsg'[t], received'[t])
          /\ QueueBounded'
      <4>1. CASE HS_ReassAppend(f, e)
        BY <2>1, <2>3, <4>1, AppendKeeps
      <4>2. CASE reassMsg' = reassMsg /\ received' = received /\ alert' = alert
        BY <1>0, <2>3, <4>2 DEF ReassInv, TypeOK, QueueBounded
      <4> QED
        BY <2>3, <4>1, <4>2 DEF DtlsDisorderMsgProcess
    <3>2. processed' \in Seq(ProcessedMsg) /\ WholeMessages'
          /\ expectRecvSeq' <= Len(processed') /\ expectRecvSeq' <= progress'
      BY <1>0, <2>1, <2>3 DEF ReassInv, TypeOK, WholeMessages
    <3>3. state' \in 1 .. Len(Expected[handshake']) + 1
      BY <1>0, <2>1, <2>2, <2>3
    <3> QED
      BY <1>0, <2>1, <2>2, <2>3, <3>1, <3>2, <3>3 DEF ReassInv, TypeOK, NodeOK
  <2>4. CASE /\ ~OutOfOrder(f, e) /\ f.fragmentLength = f.length
             /\ ProcessMsg(m, s, e)
             /\ reassMsg' = reassMsg /\ received' = received
    <3>1. MessageOK(m, e)
      <4>1. f.type \in HS_MsgType /\ f.length \in Nat /\ f.fragmentOffset = 0 /\ f.sequence = e
        BY <2>0, <2>4 DEF HS_MsgInfo, OutOfOrder
      <4>2. ByteNumbers(Bytes(f)) = 0 .. f.length - 1 /\ Bytes(f) \in Sources
        BY <2>0, <2>4, <4>1, FragmentBytes
      <4> QED
        BY <2>1, <4>1, <4>2 DEF MessageOK, ProcessedMsg
    <3>2. /\ state' \in 1 .. Len(Expected[handshake]) + 1
          /\ expectRecvSeq' \in Nat /\ progress' \in Nat /\ alert' \in Alerts
          /\ processed' \in Seq(ProcessedMsg) /\ WholeMessages'
          /\ expectRecvSeq' <= Len(processed') /\ expectRecvSeq' <= progress'
          /\ progress <= progress'
      BY <2>1, <2>2, <2>4, <3>1, ProcessKeeps
    <3>3. QueueBounded'
      BY <1>0, <2>4, <3>2 DEF ReassInv, QueueBounded
    <3>4. /\ DOMAIN received' = DOMAIN reassMsg'
          /\ \A t \in DOMAIN reassMsg' : t \in Nat /\ NodeOK(reassMsg'[t], received'[t])
      BY <1>0, <2>4
    <3> QED
      BY <1>0, <2>2, <3>2, <3>3, <3>4 DEF ReassInv, TypeOK, NodeOK
  <2> QED
    BY <1>2, <2>3, <2>4 DEF DtlsTryRecvHandShakeMsg
<1>3. CASE RecvChangeCipherSpec
  BY <1>3 DEF RecvChangeCipherSpec, ReassInv, TypeOK, WholeMessages, QueueBounded
<1>4. CASE StartHandshake
  <2>1. /\ handshake' = handshake + 1 /\ handshake < MaxHandshakes
        /\ state' = 1 /\ isRecvCCS' = FALSE /\ expectRecvSeq' = 0 /\ progress' = 0
        /\ reassMsg' = EmptyQueue /\ received' = EmptyQueue /\ processed' = <<>>
        /\ alert' = alert
    BY <1>4 DEF StartHandshake
  <2>2. handshake' \in 1 .. MaxHandshakes
    BY <1>0, <2>1, ReassAssumption
  <2>3. Expected[handshake'] \in Seq(HS_MsgType)
    BY <2>2, ReassAssumption
  <2>4. 1 \in 1 .. Len(Expected[handshake']) + 1
    BY <2>3
  <2>5. DOMAIN EmptyQueue = {}
    BY DEF EmptyQueue
  <2>6. processed' \in Seq(ProcessedMsg) /\ Len(processed') = 0 /\ DOMAIN processed' = {}
    BY <2>1
  <2>7. TypeOK'
    BY <1>0, <2>1, <2>2, <2>4, <2>5, <2>6 DEF ReassInv, TypeOK
  <2>8. WholeMessages' /\ QueueBounded'
    BY <2>1, <2>5, <2>6 DEF WholeMessages, QueueBounded
  <2> QED
    BY <2>1, <2>5, <2>6, <2>7, <2>8 DEF ReassInv
<1>5. CASE UNCHANGED vars
  BY <1>5 DEF vars, ReassInv, TypeOK, WholeMessages, QueueBounded
<1> QED
  BY <1>1, <1>2, <1>3, <1>4, <1>5 DEF Next

(* The invariant holds in every reachable state. *)
LEMMA ReassInvariant == Spec => []ReassInv
BY InitReassInv, NextReassInv, PTL DEF Spec

(* Every variable of the reassembly stays in its type, for every peer. *)
THEOREM ReassTypeCorrect == Spec => []TypeOK
<1>1. ReassInv => TypeOK
  BY DEF ReassInv
<1> QED
  BY <1>1, ReassInvariant, PTL

(* Whatever fragments the peer sends, of this handshake or left from the   *)
(* last, cut and repeated as the network likes: what enters the transcript *)
(* is message after message, each with all its bytes.                      *)
THEOREM TranscriptOfWholeMessages == Spec => []WholeMessages
<1>1. ReassInv => WholeMessages
  BY DEF ReassInv
<1> QED
  BY <1>1, ReassInvariant, PTL

(* The queue never holds a message further ahead than the code's limit. *)
THEOREM QueueIsBounded == Spec => []QueueBounded
<1>1. ReassInv => QueueBounded
  BY DEF ReassInv
<1> QED
  BY <1>1, ReassInvariant, PTL

-----------------------------------------------------------------------------
(* No fatal alert.                                                         *)

(* A Finished lies behind the last message of the handshake after its own: *)
(* without that a late copy of it can be queued as one of the new messages *)
(* (StaleFinishedDiscarded).                                               *)
OldFinishedIsBeyond ==
  \A f \in Fragments :
    f.type = "FINISHED" /\ f.hs < MaxHandshakes => f.sequence >= Len(Expected[f.hs + 1])

(* A node of the queue holds bytes of one message only, one of this        *)
(* handshake or the Finished of the last.                                  *)
OneMessage(s) ==
  \E f \in Fragments :
    /\ f.sequence = s /\ reassMsg[s].type = f.type /\ reassMsg[s].length = f.length
    /\ \/ f.hs = handshake /\ (f.type = "FINISHED" => isRecvCCS)
       \/ f.hs = handshake - 1 /\ f.type = "FINISHED"
    /\ \A b \in received[s] : b[1] = f.hs

(* The inductive strengthening of NoFatalAlert: the state and the number   *)
(* expected go together, so that the next message is the one awaited.      *)
PeerInv ==
  /\ NoFatalAlert
  /\ state = expectRecvSeq + 1
  /\ \A s \in DOMAIN reassMsg : OneMessage(s)

(* What is known of a fragment of the peer. *)
LEMMA FragmentOfPeer ==
  ASSUME NEW f \in Fragments
  PROVE  /\ f.hs \in 1 .. MaxHandshakes /\ f.sequence \in Nat
         /\ f.sequence < Len(Expected[f.hs]) /\ f.type = Expected[f.hs][f.sequence + 1]
         /\ \A b \in Bytes(f) : b[1] = f.hs
BY ReassAssumption DEF HS_MsgInfo, Bytes

(* The message that is awaited is processed without an alert. *)
LEMMA AwaitedIsProcessed ==
  ASSUME PeerInv, NEW m, NEW e \in Nat, ProcessMsg(m, e + 1, e),
         m.type = Awaited(e + 1), m.type = "FINISHED" => isRecvCCS,
         \A b \in m.bytes : b[1] = handshake
  PROVE  NoFatalAlert' /\ state' = expectRecvSeq' + 1
BY DEF PeerInv, NoFatalAlert, ProcessMsg, CheckHsMsgType

(* A fragment fits the node it is put into. *)
LEMMA AppendFits ==
  ASSUME OldFinishedIsBeyond, ReassInv, PeerInv, NEW f \in Fragments, MayArrive(f),
         NEW e, HS_ReassAppend(f, e), UNCHANGED <<handshake, isRecvCCS>>
  PROVE  NoFatalAlert' /\ \A s \in DOMAIN reassMsg' : OneMessage(s)'
<1> DEFINE q == f.sequence
<1>1. /\ handshake \in 1 .. MaxHandshakes /\ MaxHandshakes \in Nat
      /\ DOMAIN received = DOMAIN reassMsg
  BY ReassAssumption DEF ReassInv, TypeOK
<1>2. /\ f.hs \in 1 .. MaxHandshakes /\ q \in Nat
      /\ q < Len(Expected[f.hs]) /\ f.type = Expected[f.hs][q + 1]
      /\ \A b \in Bytes(f) : b[1] = f.hs
  BY FragmentOfPeer
<1>3. GetReassNode(f).type = f.type /\ GetReassNode(f).length = f.length
      /\ \A b \in BytesOf(q) : b[1] = f.hs
  <2>1. CASE q \notin DOMAIN reassMsg
    BY <1>1, <2>1 DEF GetReassNode, ReassNodeNew, BytesOf
  <2>2. CASE q \in DOMAIN reassMsg
    <3>1. PICK g \in Fragments :
            /\ g.sequence = q /\ reassMsg[q].type = g.type /\ reassMsg[q].length = g.length
            /\ \/ g.hs = handshake
               \/ g.hs = handshake - 1 /\ g.type = "FINISHED"
            /\ \A b \in received[q] : b[1] = g.hs
      BY <2>2 DEF PeerInv, OneMessage
    <3>2. /\ g.hs \in 1 .. MaxHandshakes /\ g.sequence < Len(Expected[g.hs])
          /\ g.type = Expected[g.hs][g.sequence + 1]
      BY FragmentOfPeer
    <3>3. Len(Expected[handshake]) \in Nat
      <4>1. Expected[handshake] \in Seq(HS_MsgType)
        BY <1>1, ReassAssumption
      <4> QED
        BY <4>1
    <3>4. ASSUME NEW h \in Fragments, h.hs = handshake - 1, h.type = "FINISHED"
          PROVE  h.sequence >= Len(Expected[handshake])
      <4>1. h.hs < MaxHandshakes /\ h.hs + 1 = handshake
        BY <1>1, <3>4
      <4> QED
        BY <3>4, <4>1 DEF OldFinishedIsBeyond
    <3>5. g.hs = f.hs
      <4>1. f.hs = handshake \/ (f.hs = handshake - 1 /\ f.type = "FINISHED")
        BY DEF MayArrive
      <4>2. CASE f.hs = handshake /\ g.hs = handshake - 1
        BY <1>2, <3>1, <3>3, <3>4, <4>2, <1>1
      <4>3. CASE g.hs = handshake /\ f.hs = handshake - 1
        BY <1>2, <3>1, <3>2, <3>3, <3>4, <4>1, <4>3, <1>1
      <4> QED
        BY <3>1, <4>1, <4>2, <4>3
    <3>6. g.type = f.type
      BY <1>2, <3>1, <3>2, <3>5
    <3>7. g.length = f.length
      BY <3>1, <3>5, ReassAssumption
    <3> QED
      BY <1>1, <2>2, <3>1, <3>5, <3>6, <3>7 DEF GetReassNode, BytesOf
  <2> QED
    BY <2>1, <2>2
<1>4. alert' = alert
  BY <1>3 DEF HS_ReassAppend
<1>5. CASE reassMsg' = reassMsg /\ received' = received
  BY <1>4, <1>5 DEF PeerInv, NoFatalAlert, OneMessage
<1>6. CASE /\ reassMsg' = Put(reassMsg, q, ReassembleMsg(GetReassNode(f), f))
           /\ received' = Put(received, q, BytesOf(q) \cup Bytes(f))
  <2> DEFINE node == ReassembleMsg(GetReassNode(f), f)
  <2>1. node.type = f.type /\ node.length = f.length
    BY <1>3 DEF ReassembleMsg
  <2> HIDE DEF node
  <2>2. /\ DOMAIN reassMsg' = DOMAIN reassMsg \cup {q}
        /\ reassMsg'[q] = node /\ received'[q] = BytesOf(q) \cup Bytes(f)
        /\ \A s \in DOMAIN reassMsg \ {q} :
             reassMsg'[s] = reassMsg[s] /\ received'[s] = received[s]
    BY <1>1, <1>6 DEF Put, node
  <2>3. \A s \in DOMAIN reassMsg \ {q} : OneMessage(s)'
    BY <2>2 DEF PeerInv, OneMessage
  <2>4. OneMessage(q)'
    <3>1. \/ f.hs = handshake' /\ (f.type = "FINISHED" => isRecvCCS')
          \/ f.hs = handshake' - 1 /\ f.type = "FINISHED"
      BY DEF MayArrive
    <3>2. \A b \in received'[q] : b[1] = f.hs
      BY <1>2, <1>3, <2>2
    <3>3. reassMsg'[q].type = f.type /\ reassMsg'[q].length = f.length
      BY <2>1, <2>2
    <3> QED
      BY <3>1, <3>2, <3>3 DEF OneMessage
  <2> QED
    BY <1>4, <2>2, <2>3, <2>4 DEF PeerInv, NoFatalAlert
<1> QED
  BY <1>3, <1>5, <1>6 DEF HS_ReassAppend

(* Every action keeps PeerInv. *)
LEMMA NextPeerInv ==
  ASSUME OldFinishedIsBeyond, ReassInv, PeerInv, [Next]_vars
  PROVE  PeerInv'
<1> USE DEF hist
<1>0. /\ handshake \in 1 .. MaxHandshakes /\ MaxHandshakes \in Nat
      /\ expectRecvSeq \in Nat /\ state = expectRecvSeq + 1
      /\ DOMAIN received = DOMAIN reassMsg /\ Len(Expected[handshake]) \in Nat
  <2>1. Expected[handshake] \in Seq(HS_MsgType)
    BY ReassAssumption DEF ReassInv, TypeOK
  <2>2. Len(Expected[handshake]) \in Nat
    BY <2>1
  <2> QED
    BY <2>2, ReassAssumption DEF ReassInv, TypeOK, PeerInv
<1>a. ASSUME NEW f \in Fragments, f.hs = handshake - 1, f.type = "FINISHED"
      PROVE  f.sequence \in Nat /\ f.sequence >= Len(Expected[handshake])
  <2>1. f.hs < MaxHandshakes /\ f.hs + 1 = handshake
    BY <1>0, <1>a
  <2> QED
    BY <1>a, <2>1, FragmentOfPeer DEF OldFinishedIsBeyond
<1>1. CASE HS_GetReassMsg
  <2> DEFINE e == expectRecvSeq
             m == [sequence |-> e, type |-> reassMsg[e].type, length |-> reassMsg[e].length,
                   bytes |-> received[e]]
  <2>1. /\ InHandshake /\ e \in DOMAIN reassMsg /\ ProcessMsg(m, e + 1, e)
        /\ reassMsg' = Without(reassMsg, e) /\ received' = Without(received, e)
        /\ handshake' = handshake /\ isRecvCCS' = isRecvCCS
    BY <1>0, <1>1 DEF HS_GetReassMsg, Ready
  <2>2. PICK f \in Fragments :
          /\ f.sequence = e /\ reassMsg[e].type = f.type
          /\ \/ f.hs = handshake /\ (f.type = "FINISHED" => isRecvCCS)
             \/ f.hs = handshake - 1 /\ f.type = "FINISHED"
          /\ \A b \in received[e] : b[1] = f.hs
    BY <2>1 DEF PeerInv, OneMessage
  <2>3. e < Len(Expected[handshake])
    BY <1>0, <2>1 DEF InHandshake
  <2>4. f.hs = handshake
    BY <1>0, <1>a, <2>2, <2>3
  <2>5. m.type = Awaited(e + 1) /\ (m.type = "FINISHED" => isRecvCCS)
        /\ \A b \in m.bytes : b[1] = handshake
    BY <1>0, <2>2, <2>4, FragmentOfPeer DEF Awaited
  <2> HIDE DEF m
  <2>6. NoFatalAlert' /\ state' = expectRecvSeq' + 1
    BY <1>0, <2>1, <2>5, AwaitedIsProcessed
  <2>7. \A s \in DOMAIN reassMsg' : s \in DOMAIN reassMsg /\ reassMsg'[s] = reassMsg[s]
                                    /\ received'[s] = received[s]
    BY <1>0, <2>1 DEF Without
  <2> QED
    BY <2>1, <2>6, <2>7 DEF PeerInv, OneMessage
<1>2. ASSUME NEW f \in Fragments, DtlsTryRecvHandShakeMsg(f)
      PROVE  PeerInv'
  <2> DEFINE e == IF HelloAgain(f) THEN 0 ELSE expectRecvSeq
             s == IF HelloAgain(f) THEN 1 ELSE state
             m == [sequence |-> f.sequence, type |-> f.type, length |-> f.length,
                   bytes |-> Bytes(f)]
  <2>1. e \in Nat /\ s = e + 1 /\ e <= expectRecvSeq
    BY <1>0
  <2>2. /\ handshake' = handshake /\ isRecvCCS' = isRecvCCS /\ InHandshake /\ MayArrive(f)
    BY <1>2 DEF DtlsTryRecvHandShakeMsg
  <2>3. \/ /\ DtlsDisorderMsgProcess(f, e) \/ HS_ReassAppend(f, e)
           /\ expectRecvSeq' = e /\ state' = s
        \/ /\ ~OutOfOrder(f, e) /\ ProcessMsg(m, s, e)
           /\ reassMsg' = reassMsg /\ received' = received
    BY <1>2 DEF DtlsTryRecvHandShakeMsg
  <2>4. CASE ~OutOfOrder(f, e) /\ ProcessMsg(m, s, e) /\ reassMsg' = reassMsg
             /\ received' = received
    <3>1. f.sequence = e /\ e < Len(Expected[handshake])
      BY <1>0, <2>1, <2>2, <2>4 DEF OutOfOrder, InHandshake
    <3>2. f.hs = handshake /\ (f.type = "FINISHED" => isRecvCCS)
      BY <1>0, <1>a, <2>2, <3>1 DEF MayArrive
    <3>3. m.type = Awaited(e + 1) /\ (m.type = "FINISHED" => isRecvCCS)
          /\ \A b \in m.bytes : b[1] = handshake
      BY <3>1, <3>2, FragmentOfPeer DEF Awaited
    <3>4. ProcessMsg(m, e + 1, e)
      BY <2>1, <2>4
    <3> HIDE DEF m, e, s
    <3>5. NoFatalAlert' /\ state' = expectRecvSeq' + 1
      BY <2>1, <3>3, <3>4, AwaitedIsProcessed
    <3> QED
      BY <2>2, <2>4, <3>5 DEF PeerInv, OneMessage
  <2>5. CASE HS_ReassAppend(f, e) /\ expectRecvSeq' = e /\ state' = s
    <3>1. NoFatalAlert' /\ \A t \in DOMAIN reassMsg' : OneMessage(t)'
      BY <2>2, <2>5, AppendFits
    <3> QED
      BY <2>1, <2>5, <3>1 DEF PeerInv
  <2>6. CASE /\ reassMsg' = reassMsg /\ received' = received /\ alert' = alert
             /\ expectRecvSeq' = e /\ state' = s
    BY <2>1, <2>2, <2>6 DEF PeerInv, OneMessage, NoFatalAlert
  <2> QED
    BY <2>3, <2>4, <2>5, <2>6 DEF DtlsDisorderMsgProcess
<1>3. CASE RecvChangeCipherSpec
  BY <1>3 DEF RecvChangeCipherSpec, PeerInv, OneMessage, NoFatalAlert
<1>4. CASE StartHandshake
  BY <1>4 DEF StartHandshake, PeerInv, NoFatalAlert, EmptyQueue
<1>5. CASE UNCHANGED vars
  BY <1>5 DEF vars, PeerInv, OneMessage, NoFatalAlert
<1> QED
  BY <1>1, <1>2, <1>3, <1>4, <1>5 DEF Next

(* A peer that keeps to the protocol never makes the endpoint send a fatal *)
(* alert, however the network cuts, repeats and delays its fragments, as   *)
(* long as no Finished can be mistaken for a message of the next           *)
(* handshake (hs_state_recv.c:361-392, hs_reass.c).                        *)
THEOREM PeerIsNeverAlerted ==
  ASSUME OldFinishedIsBeyond
  PROVE  Spec => []NoFatalAlert
<1>1. Init => PeerInv
  BY DEF Init, PeerInv, NoFatalAlert, EmptyQueue
<1>2. ReassInv /\ PeerInv /\ [Next]_vars => PeerInv'
  BY NextPeerInv
<1>3. PeerInv => NoFatalAlert
  BY DEF PeerInv
<1> QED
  BY <1>1, <1>2, <1>3, ReassInvariant, PTL DEF Spec
=============================================================================
