--------------------------- MODULE RecAntiReplay ---------------------------
(***************************************************************************)
(* The DTLS anti-replay window of tls/record/src/rec_anti_replay.c.  The   *)
(* 64-bit word `window` is modelled by the set of its one bits: bit b      *)
(* stands for sequence number top - b.                                     *)
(***************************************************************************)
EXTENDS Naturals

CONSTANT REC_SLID_WINDOW_SIZE       \* width of the word; 64 in the code

ASSUME WindowSizeAssumption == REC_SLID_WINDOW_SIZE \in Nat \ {0}

Bits == 0 .. REC_SLID_WINDOW_SIZE - 1

RecSlidWindow == [top : Nat, window : SUBSET Bits]

RecAntiReplayReset == [top |-> 0, window |-> {}]

(* The definitions named Faulty..., here and in the other modules, are not *)
(* used: each is the definition after it with a slip a maintainer could    *)
(* make, which a property of the project must be able to tell.             *)

(* Faulty: the newest record is not refused. *)
FaultyCheck(w, seq) ==
  /\ seq < w.top
  /\ \/ w.top - seq >= REC_SLID_WINDOW_SIZE
     \/ w.top - seq \in w.window

(* TRUE when the record must be dropped as a replay. *)
RecAntiReplayCheck(w, seq) ==
  /\ seq <= w.top
  /\ \/ w.top - seq >= REC_SLID_WINDOW_SIZE
     \/ w.top - seq \in w.window

(* window << n : the bits shifted out of the word are lost. *)
ShiftLeft(bits, n) == {b \in Bits : b >= n /\ b - n \in bits}

(* Faulty: the bits stay where they were when the top moves. *)
FaultyUpdate(w, seq) ==
  IF seq + REC_SLID_WINDOW_SIZE <= w.top THEN w
  ELSE IF seq <= w.top
       THEN [top |-> w.top, window |-> w.window \cup {w.top - seq}]
       ELSE [top |-> seq, window |-> w.window \cup {0}]

RecAntiReplayUpdate(w, seq) ==
  IF seq + REC_SLID_WINDOW_SIZE <= w.top THEN w
  ELSE IF seq <= w.top
       THEN [top |-> w.top, window |-> w.window \cup {w.top - seq}]
       ELSE [top |-> seq, window |-> ShiftLeft(w.window, seq - w.top) \cup {0}]
=============================================================================
