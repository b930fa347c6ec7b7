-------------------------- MODULE MCDtlsRecordRead --------------------------
(* Small instances of DtlsRecordRead: the records a peer sends in two      *)
(* handshakes on one connection, with copies that carry new numbers and    *)
(* records damaged on the way.                                             *)
EXTENDS DtlsRecordRead

Rec(type, epoch, seq, msg) ==
  [type |-> type, epoch |-> epoch, seq |-> seq, msg |-> msg, intact |-> TRUE]
Damaged(r) ==
  [type |-> r.type, epoch |-> r.epoch, seq |-> r.seq, msg |-> r.msg, intact |-> FALSE]

Fin1 == Rec("HANDSHAKE", 1, 0, "finished")
App1 == Rec("APP", 1, 1, "other")

(* A first handshake and a renegotiation; the first hello, the first       *)
(* Finished and both ChangeCipherSpecs are also sent again; a damaged copy  *)
(* of a record takes its number.  The numbers of the second epoch span more *)
(* than the window.                                                         *)
TwoHandshakes ==
  { Rec("HANDSHAKE", 0, 0, "hello"), Rec("HANDSHAKE", 0, 1, "hello"),
    Rec("CHANGE_CIPHER_SPEC", 0, 2, "other"), Rec("CHANGE_CIPHER_SPEC", 0, 3, "other"),
    Fin1, Damaged(App1), App1, Rec("HANDSHAKE", 1, 2, "finished"),
    Rec("HANDSHAKE", 1, 3, "hello"),
    Rec("CHANGE_CIPHER_SPEC", 1, 5, "other"), Rec("CHANGE_CIPHER_SPEC", 1, 6, "other"),
    Rec("HANDSHAKE", 2, 0, "finished"), Rec("APP", 2, 1, "other"),
    Rec("HANDSHAKE", 2, 2, "finished") }
=============================================================================
