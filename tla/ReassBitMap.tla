---------------------------- MODULE ReassBitMap ----------------------------
(***************************************************************************)
(* The bitmap of tls/handshake/reass/src/hs_reass.c that notes which bytes *)
(* of a fragmented handshake message have come.  A byte of the bitmap is   *)
(* modelled by the set of its one bits; bit i of the map is bit i % 8 of   *)
(* byte i \div 8.                                                          *)
(***************************************************************************)
EXTENDS Integers

(* The size ReassNodeNew allocates for a message of len bytes. *)
BitMapSize(len) == (len + 7) \div 8

BitMaps(len) == [0 .. BitMapSize(len) - 1 -> SUBSET (0 .. 7)]

EmptyBitMap(len) == [i \in 0 .. BitMapSize(len) - 1 |-> {}]

(* What a bitmap says: the numbers of the bytes that have come. *)
BytesIn(map, len) ==
  {i \in 0 .. 8 * BitMapSize(len) - 1 : i % 8 \in map[i \div 8]}

g_startMaskMap(n) == n .. 7

g_endMaskMap(n) == 0 .. n

(* Faulty: the byte a long range ends in is filled. *)
FaultyFragmentBits(i, start, end) ==
  IF end - start < 8
  THEN {b \in 0 .. 7 : 8 * i + b \in start .. end}
  ELSE IF i = start \div 8 THEN g_startMaskMap(start % 8)
  ELSE IF start \div 8 < i /\ i <= end \div 8 THEN 0 .. 7
  ELSE {}

(* The bits a fragment sets in byte i of the bitmap: up to 8 bits one by   *)
(* one, a longer range as a first byte, a last byte and whole bytes between.*)
FragmentBits(i, start, end) ==
  IF end - start < 8
  THEN {b \in 0 .. 7 : 8 * i + b \in start .. end}
  ELSE IF i = start \div 8 THEN g_startMaskMap(start % 8)
  ELSE IF i = end \div 8 THEN g_endMaskMap(end % 8)
  ELSE IF start \div 8 < i /\ i < end \div 8 THEN 0 .. 7
  ELSE {}

SetReassBitMap(map, fragmentOffset, fragmentLength) ==
  [i \in DOMAIN map |->
     map[i] \cup FragmentBits(i, fragmentOffset, fragmentOffset + fragmentLength - 1)]

(* Faulty: the last byte is taken for one more. *)
FaultyIsReassComplete(map, msgLen) ==
  LET maxIndex == msgLen IN
  /\ map[maxIndex \div 8] = g_endMaskMap(maxIndex % 8)
  /\ \A i \in 0 .. (maxIndex \div 8) - 1 : map[i] = 0 .. 7

IsReassComplete(map, msgLen) ==
  LET maxIndex == msgLen - 1 IN
  /\ map[maxIndex \div 8] = g_endMaskMap(maxIndex % 8)
  /\ \A i \in 0 .. (maxIndex \div 8) - 1 : map[i] = 0 .. 7
=============================================================================
