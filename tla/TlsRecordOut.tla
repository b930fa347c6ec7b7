---------------------------- MODULE TlsRecordOut ----------------------------
(***************************************************************************)
(* The way a record takes to the network: the one output buffer of the     *)
(* record layer (rec_write.c), the buffering UIO that is in place while a   *)
(* handshake context exists (uio_buffer.c, hs_init.c) and the socket.       *)
(*                                                                          *)
(* The operators are functions from a path to the set of results a call     *)
(* can have, one for every answer of the socket, so that a caller composes  *)
(* calls the way the code does.                                             *)
(***************************************************************************)
EXTENDS Naturals, Sequences

CONSTANT UioSize     \* how many records the buffering UIO holds

ASSUME PathAssumption == UioSize \in Nat \ {0}

(* config.datagram: DTLS over UDP or TLS over TCP; config.flightTransmit:   *)
(* isFlightTransmitEnable.                                                  *)
VARIABLE config

(* A record is what one call of REC_Write asks for.  The content is left    *)
(* out: application data is the number of the caller's buffer, an alert is   *)
(* its level and description.                                               *)
NoRecord == [type |-> "NONE", body |-> "NONE"]
Handshake == [type |-> "HANDSHAKE", body |-> "NONE"]
App(n) == [type |-> "APP", body |-> n]
Alert(level, description) == [type |-> "ALERT", body |-> <<level, description>>]

(* buf   recordCtx->outBuf: a record encrypted and not yet taken, or none    *)
(* uio   the records in the buffering UIO                                    *)
(* wire  the application records and closing alerts the socket took             *)
(* lost  the records a successful REC_Write was asked for and never made     *)
EmptyPath == [buf |-> NoRecord, uio |-> <<>>, wire |-> <<>>, lost |-> {}]

Result(path, ret) == [path |-> path, ret |-> ret]

(* A fatal alert and close_notify end the data that follows.                 *)
ClosesWrite(r) == r.type = "ALERT" /\ (r.body[1] = "FATAL" \/ r.body[2] = "CLOSE_NOTIFY")

(* The elements of s at the positions P, in their order.                     *)
Chosen(s, P) ==
  LET chosen[n \in 0 .. Len(s)] ==
        IF n = 0 THEN <<>>
        ELSE IF n \in P THEN Append(chosen[n - 1], s[n]) ELSE chosen[n - 1]
  IN chosen[Len(s)]

(* What the peer's application can tell apart: data and the end of it.       *)
Visible(records) ==
  Chosen(records, {i \in 1 .. Len(records) : records[i].type = "APP" \/ ClosesWrite(records[i])})

(* UIO_Init pushes the buffering UIO with the handshake context, UIO_Deinit  *)
(* frees it with what it holds.                                              *)
Buffering(hsCtx) == hsCtx /\ config.flightTransmit
UIO_Deinit(path) == [path EXCEPT !.uio = <<>>]

(* BufferFlushInternal: a stream takes any part, a datagram all or nothing. *)
Drained(path, n) ==
  [path EXCEPT !.uio = SubSeq(@, n + 1, Len(@)),
               !.wire = @ \o Visible(SubSeq(path.uio, 1, n))]
PartlyDrained(path) ==
  {Drained(path, n) : n \in {k \in 0 .. Len(path.uio) - 1 : config.datagram => k = 0}}

(* BSL_UIO_Ctrl(uio, BSL_UIO_FLUSH).                                         *)
UioFlush(hsCtx, path) ==
  IF config.flightTransmit /\ hsCtx
  THEN {Result(Drained(path, Len(path.uio)), "SUCCESS")}
       \cup {Result(p, "IO_BUSY") : p \in PartlyDrained(path)}
       \cup {Result(p, "IO_EXCEPTION") : p \in PartlyDrained(path)}
  ELSE {Result(path, "SUCCESS")}

(* The record the call really writes: TlsRecordWrite goes on with a cached   *)
(* record before it looks at its arguments.  DTLS caches nothing.            *)
ToSend(path, rec) == IF path.buf = NoRecord THEN rec ELSE path.buf

Refused(path, rec) ==
  [path EXCEPT !.buf = IF config.datagram THEN NoRecord ELSE ToSend(path, rec)]
Lost(path, rec) == path.lost \cup ({rec} \ {ToSend(path, rec)})

(* StreamWrite and DatagramWrite onto the socket.                            *)
FaultySocketWrite(path, rec) ==
  {Result([path EXCEPT !.lost = Lost(path, rec), !.wire = @ \o Visible(<<ToSend(path, rec)>>)],
          "SUCCESS"),
   Result(Refused(path, rec), "IO_BUSY"),
   Result(Refused(path, rec), "IO_EXCEPTION")}
SocketWrite(path, rec) ==
  {Result([path EXCEPT !.buf = NoRecord, !.lost = Lost(path, rec),
                       !.wire = @ \o Visible(<<ToSend(path, rec)>>)], "SUCCESS"),
   Result(Refused(path, rec), "IO_BUSY"),
   Result(Refused(path, rec), "IO_EXCEPTION")}

(* The same onto the buffering UIO: a full buffer is sent first, and a       *)
(* socket that does not take all of it is an I/O exception to the caller.    *)
BufferWrite(path, rec) ==
  LET Buffered(p) ==
        Result([p EXCEPT !.buf = NoRecord, !.lost = Lost(path, rec),
                         !.uio = Append(@, ToSend(path, rec))], "SUCCESS")
  IN IF Len(path.uio) < UioSize
     THEN {Buffered(path)}
     ELSE {Buffered(Drained(path, Len(path.uio)))}
          \cup {Result(Refused(p, rec), "IO_EXCEPTION") : p \in PartlyDrained(path)}

REC_Write(hsCtx, path, rec) ==
  IF Buffering(hsCtx) THEN BufferWrite(path, rec) ELSE SocketWrite(path, rec)
=============================================================================
