------------------------------ MODULE MCHsReass -----------------------------
(***************************************************************************)
(* Instances of HsReass.  A message of 18 bytes is longer than two bytes   *)
(* of the bitmap; its fragments overlap, one of them is longer than 8      *)
(* bytes and begins and ends inside a byte of the bitmap.                  *)
(***************************************************************************)
EXTENDS HsReass

Fragment(hs, type, sequence, length, offset, fragmentLength) ==
  [hs |-> hs, type |-> type, sequence |-> sequence, length |-> length,
   fragmentOffset |-> offset, fragmentLength |-> fragmentLength]

Message(hs, type, sequence, length) ==
  {Fragment(hs, type, sequence, length, 0, length)}

(* The cuts of a message sent twice, at two sizes of the path: 6+12 bytes  *)
(* and 9+5+4 bytes.                                                        *)
CutMessage(hs, type, sequence) ==
  {Fragment(hs, type, sequence, 18, c[1], c[2]) :
     c \in {<<0, 6>>, <<6, 12>>, <<0, 9>>, <<9, 5>>, <<14, 4>>}}

CutFinished(hs, sequence) ==
  {Fragment(hs, "FINISHED", sequence, 12, c[1], c[2]) : c \in {<<0, 8>>, <<8, 4>>}}

(* A server that asks for cookies and a certificate; its second handshake  *)
(* resumes a session, so that the Finished has another number than in the  *)
(* first.                                                                  *)
CookieServerExpected ==
  << <<"CLIENT_HELLO", "CLIENT_HELLO", "CERTIFICATE", "CLIENT_KEY_EXCHANGE", "FINISHED">>,
     <<"CLIENT_HELLO", "CLIENT_HELLO", "FINISHED">> >>

CookieServerFragments ==
  UNION {Message(1, "CLIENT_HELLO", 0, 5),
         CutMessage(1, "CLIENT_HELLO", 1),
         CutMessage(1, "CERTIFICATE", 2),
         CutMessage(1, "CLIENT_KEY_EXCHANGE", 3),
         Message(1, "CLIENT_KEY_EXCHANGE", 3, 18),
         CutFinished(1, 4),
         CutMessage(2, "CLIENT_HELLO", 0),
         CutMessage(2, "CLIENT_HELLO", 1),
         CutFinished(2, 2)}

(* A server without cookies: both handshakes have the same numbers. *)
PlainServerExpected ==
  << <<"CLIENT_HELLO", "CLIENT_KEY_EXCHANGE", "FINISHED">>,
     <<"CLIENT_HELLO", "CLIENT_KEY_EXCHANGE", "FINISHED">> >>

PlainServerFragments ==
  UNION {UNION {Message(h, "CLIENT_HELLO", 0, 5),
                CutMessage(h, "CLIENT_KEY_EXCHANGE", 1),
                Message(h, "FINISHED", 2, 12)} : h \in 1 .. 2}
=============================================================================
