------------------------------ MODULE HsAgree ------------------------------
(***************************************************************************)
(* What the handshakes of one client and one server promise: whenever an    *)
(* end completes a handshake, the other end has completed, or will complete, *)
(* the same one.  A handshake gives a read key and a write key that are      *)
(* equal on both ends, never used before; its master secret is fresh, or, if *)
(* the handshake resumed a session, one that both ends had agreed on before. *)
(***************************************************************************)
EXTENDS Naturals, Sequences

VARIABLES
  list,     \* the handshakes each end has completed on this connection
  known     \* the master secrets agreed on in earlier connections

agreeVars == <<list, known>>
Ends == {"client", "server"}
Peer(p) == IF p = "client" THEN "server" ELSE "client"

AgreeInit == list = [p \in Ends |-> <<>>] /\ known = {}

(* The handshakes that both ends completed, and their master secrets.        *)
Agreed == {i \in DOMAIN list["client"] : i \in DOMAIN list["server"]}
Known == known \cup {list["client"][i].read.master : i \in Agreed}

(* The first of the two ends to complete a handshake.                        *)
Fresh(h) ==
  /\ h.write = h.read
  /\ \A p \in Ends : \A i \in DOMAIN list[p] : list[p][i].read # h.read
  /\ h.resumed <=> h.read.master \in Known

CompleteFirst(p, h) ==
  /\ Len(list[p]) = Len(list[Peer(p)])
  /\ Fresh(h)
  /\ list' = [list EXCEPT ![p] = Append(@, h)]
  /\ UNCHANGED known

(* The other end follows with the same handshake.                            *)
CompleteSecond(p) ==
  /\ Len(list[p]) + 1 = Len(list[Peer(p)])
  /\ list' = [list EXCEPT ![p] = list[Peer(p)]]
  /\ UNCHANGED known

(* The connection is given up, at any moment, and a new one opened.          *)
Reconnect ==
  /\ known' = Known
  /\ list' = [p \in Ends |-> <<>>]

AgreeNext ==
  \/ Reconnect
  \/ \E p \in Ends :
       \/ CompleteSecond(p)
       \/ \E h \in {list'[p][i] : i \in DOMAIN list'[p]} : CompleteFirst(p, h)

AgreeSpec == AgreeInit /\ [][AgreeNext]_agreeVars
=============================================================================
