------------------------ MODULE TlsHandshake_proofs ------------------------
(* Theorems about TlsHandshake, for every set of configurations and every   *)
(* bound: the types, and that the two ends agree on every handshake, which  *)
(* is that TlsHandshake implements HsAgree.                                  *)
(*   The invariant does not say what may be on the wires in which order.  It *)
(* says of each end what its own state tells (Local: the hellos it has seen, *)
(* where its keys and its verify data come from), of the numbers that they   *)
(* are not reused, and of each Finished on a wire what it is evidence for.   *)
(* The end that sends its Finished first is the opener of the handshake (the *)
(* client, or the server of a resumption), the other end is the closer: it   *)
(* completes as it sends its own Finished, the opener as it receives that.   *)
EXTENDS TlsHandshake, TLAPS

-----------------------------------------------------------------------------
(* One end.                                                                  *)

EndFields == {"state", "hs", "clientRandom", "serverRandom", "id", "master", "transcript",
  "verify", "needCert", "peerCert", "ticket", "version", "isResume", "isTicket",
  "isRenegotiation", "userRenego", "certReqSent", "clientVerify", "serverVerify", "session",
  "read", "write", "nextRead", "nextWrite", "ccs", "done"}
IsEnd(e) == DOMAIN e = EndFields

(* A sequence, whatever its elements are.                                    *)
IsSeq(s) == s \in Seq({s[i] : i \in DOMAIN s})
AtMostOne(s) == s = <<>> \/ s = <<s[1]>>

(* The client random of the handshake that made a master secret: the first   *)
(* entry of the transcript it was computed from.                             *)
Gen(m) == m.hash[1][2]
KeyOf(e) == [master |-> e.master, client |-> e.clientRandom, server |-> e.serverRandom]

Dead(e) == e.state = "ALERTED"
Opens(p, e) == (p = "client") <=> ~e.isResume

(* The opener after its Finished, and the closer before its own.             *)
Waiting(p, e) ==
  Opens(p, e) /\ e.hs \in {<<"recv", "NEW_SESSION_TICKET">>, <<"recv", "FINISHED">>}
Closing(p, e) ==
  ~Opens(p, e) /\ e.hs \in {<<"send", "NEW_SESSION_TICKET">>, <<"send", "CHANGE_CIPHER_SPEC">>,
                            <<"send", "FINISHED">>}

(* The stages of a handshake: none, the ClientHello is known, both hellos    *)
(* are, the master secret is.                                                *)
Outside(p) ==
  IF p = "client" THEN {<<"idle", "none">>, <<"send", "CLIENT_HELLO">>}
  ELSE {<<"idle", "none">>, <<"send", "HELLO_REQUEST">>, <<"recv", "CLIENT_HELLO">>}
Greeting(p) == IF p = "client" THEN {<<"recv", "SERVER_HELLO">>} ELSE {<<"send", "SERVER_HELLO">>}
Flight(p) ==
  IF p = "client"
  THEN {<<"recv", "CERTIFICATE">>, <<"recv", "SERVER_KEY_EXCHANGE">>,
        <<"recv", "CERTIFICATE_REQUEST">>, <<"recv", "SERVER_HELLO_DONE">>,
        <<"send", "CERTIFICATE">>, <<"send", "CLIENT_KEY_EXCHANGE">>}
  ELSE {<<"send", "CERTIFICATE">>, <<"send", "SERVER_KEY_EXCHANGE">>,
        <<"send", "CERTIFICATE_REQUEST">>, <<"send", "SERVER_HELLO_DONE">>,
        <<"recv", "CERTIFICATE">>, <<"recv", "CLIENT_KEY_EXCHANGE">>}
Verify(p) == IF p = "client" THEN {<<"send", "CERTIFICATE_VERIFY">>} ELSE {<<"recv", "CERTIFICATE_VERIFY">>}
Ticket(p) == IF p = "client" THEN {<<"recv", "NEW_SESSION_TICKET">>} ELSE {<<"send", "NEW_SESSION_TICKET">>}
Changing == {<<"send", "CHANGE_CIPHER_SPEC">>, <<"send", "FINISHED">>, <<"recv", "FINISHED">>}
Keyed(p) == Verify(p) \cup Ticket(p) \cup Changing
Stages(p) == Outside(p) \cup Greeting(p) \cup Flight(p) \cup Keyed(p)

(* n is the last random number drawn.                                        *)
Proper(m, n) == Gen(m) \in 1 .. n
ProperTicket(t, n) == t = <<>> \/ (t = <<t[1]>> /\ Proper(t[1], n))
IsSession(s) == DOMAIN s = {"id", "master", "ticket"}

Hellos(e, n) ==
  /\ e.clientRandom \in 1 .. n /\ e.serverRandom \in 1 .. n
  /\ Len(e.transcript) >= 2
  /\ e.transcript[1] = <<"CLIENT_HELLO", e.clientRandom>>
  /\ e.transcript[2] = <<"SERVER_HELLO", e.serverRandom>>

AtRest(e) ==
  e.clientRandom = 0 /\ e.serverRandom = 0 /\ e.transcript = <<>> /\ e.ccs = CcsReset
AtGreeting(p, e, n) ==
  /\ e.clientRandom \in 1 .. n /\ e.serverRandom = 0
  /\ e.transcript = <<<<"CLIENT_HELLO", e.clientRandom>>>> /\ e.ccs = CcsReset
  /\ p = "server" /\ e.isResume =>
       Proper(e.session.master, n) /\ Gen(e.session.master) < e.clientRandom
AtFlight(e, n) == Hellos(e, n) /\ ~e.isResume /\ e.ccs = CcsReset

(* The keys to come, the verify data to come, and what has been switched.    *)
CcsAwaited == [CcsReset EXCEPT !.ready = TRUE, !.allow = TRUE]
CcsDone == [CcsAwaited EXCEPT !.active = TRUE, !.recv = TRUE]
Writes(p, e) ==
  IF e.hs = <<"send", "FINISHED">> \/ Waiting(p, e)
  THEN e.write = KeyOf(e) ELSE e.nextWrite = <<KeyOf(e)>>
Reads(p, e) ==
  IF Closing(p, e) THEN e.read = KeyOf(e)
  ELSE IF e.hs = <<"recv", "FINISHED">> THEN
    /\ e.verify = <<Peer(p), e.master, e.transcript>>
    /\ \/ e.ccs = CcsAwaited /\ e.nextRead = <<KeyOf(e)>>
       \/ e.ccs = CcsDone /\ e.read = KeyOf(e)
  ELSE e.nextRead = <<KeyOf(e)>> /\ e.ccs = CcsReset
AtKeyed(p, e, n) ==
  /\ Hellos(e, n) /\ Proper(e.master, n)
  /\ e.hs \in Verify(p) => ~e.isResume
  /\ e.isResume => Gen(e.master) < e.clientRandom /\ e.master = e.session.master
  /\ e.isResume /\ p = "client" => e.session # NoSession
  /\ ~e.isResume => Gen(e.master) = e.clientRandom
  /\ e.hs = <<"send", "NEW_SESSION_TICKET">> => Proper(e.session.master, n)
  /\ Writes(p, e) /\ Reads(p, e)

(* The handshakes completed, and the secrets of earlier connections, are     *)
(* older than the handshake in progress.                                     *)
Older(e, n, old) ==
  /\ \A i \in DOMAIN e.done :
       /\ e.done[i].read.client \in 1 .. n
       /\ e.clientRandom # 0 => e.done[i].read.client < e.clientRandom
       /\ Proper(e.done[i].read.master, n)
       /\ Gen(e.done[i].read.master) <= e.done[i].read.client
  /\ \A m \in old : e.clientRandom # 0 => Gen(m) < e.clientRandom

Typed(p, e) ==
  /\ IsEnd(e) /\ IsSeq(e.transcript) /\ IsSeq(e.done) /\ e.isResume \in BOOLEAN
  /\ AtMostOne(e.nextRead) /\ AtMostOne(e.nextWrite)
  /\ e.state \in {"HANDSHAKING", "RENEGOTIATION", "TRANSPORTING", "ALERTED"}
  /\ e.hs \in Stages(p)
  /\ e.hs = <<"idle", "none">> <=> e.state \in {"TRANSPORTING", "ALERTED"}

Local(p, e, n, old) ==
  /\ Typed(p, e)
  /\ e.hs \in Outside(p) => AtRest(e)
  /\ e.hs \in Greeting(p) => AtGreeting(p, e, n)
  /\ e.hs \in Flight(p) => AtFlight(e, n)
  /\ e.hs \in Keyed(p) => AtKeyed(p, e, n)
  /\ Older(e, n, old)

-----------------------------------------------------------------------------
(* The wires.                                                                *)

(* The messages on their way to each end.                                    *)
Msgs == [p \in Ends |-> {wire[p][i].msg : i \in DOMAIN wire[p]}]

(* Verify data <<sender, master, transcript>>: of a full handshake, sent by  *)
(* the opener, and the handshake it belongs to.                              *)
ClientOf(v) == v[3][1][2]
ServerOf(v) == v[3][2][2]
Full(v) == Gen(v[2]) = ClientOf(v)
ByOpener(v) == (v[1] = "client") <=> Full(v)
HandshakeOf(v) ==
  LET key == [master |-> v[2], client |-> ClientOf(v), server |-> ServerOf(v)]
  IN [read |-> key, write |-> key, resumed |-> ~Full(v)]

IsFinished(m) == m.type = "FINISHED"
FinishedOK(q, m, n) ==
  /\ m.verify[1] = Peer(q)
  /\ ClientOf(m.verify) \in 1 .. n /\ ServerOf(m.verify) \in 1 .. n

(* A ClientHello is newer than all its server knows, as is the ticket in it; *)
(* and so are the ClientHellos of a wire in their order.                     *)
HelloOK(m, e, n, old, store) ==
  /\ "random" \in DOMAIN m /\ m.random \in 1 .. n /\ e.clientRandom < m.random
  /\ \A i \in DOMAIN e.done : e.done[i].read.client < m.random
  /\ \A x \in old : Gen(x) < m.random
  /\ \A id \in DOMAIN store : Gen(store[id].master) < m.random
  /\ ProperTicket(m.ticket, n) /\ (m.ticket # <<>> => Gen(m.ticket[1]) < m.random)
ToServer(m, e, n, old, store) ==
  /\ m.type \notin {"SERVER_HELLO", "NEW_SESSION_TICKET"}
  /\ m.type = "CLIENT_HELLO" => HelloOK(m, e, n, old, store)
  /\ IsFinished(m) => FinishedOK("server", m, n)
ToClient(m, n) ==
  /\ m.type # "CLIENT_HELLO"
  /\ m.type = "SERVER_HELLO" => "random" \in DOMAIN m /\ m.random \in 1 .. n
  /\ m.type = "NEW_SESSION_TICKET" => ProperTicket(m.ticket, n) /\ m.ticket # <<>>
  /\ IsFinished(m) => FinishedOK("client", m, n)
HelloOrder(w) ==
  \A i, j \in DOMAIN w :
    i < j /\ w[i].msg.type = "CLIENT_HELLO" /\ w[j].msg.type = "CLIENT_HELLO"
      => w[i].msg.random < w[j].msg.random

-----------------------------------------------------------------------------
(* Both ends: E is end, M is Msgs.                                           *)

(* The opener has failed, or still waits in the handshake of this random.    *)
WaitsWith(p, e, r) == Dead(e) \/ (Waiting(p, e) /\ e.clientRandom = r)

(* Verify data of the handshake end q is in.                                 *)
Match(q, e, v) ==
  /\ e.clientRandom = ClientOf(v)
  /\ q = "server" => e.serverRandom = ServerOf(v)

(* The opener's Finished shows that the opener waits and that both ends have *)
(* completed the same handshakes; the closer's, that the closer has          *)
(* completed this one.                                                       *)
Shown(q, E, v) ==
  IF ByOpener(v) THEN E[q].done = E[Peer(q)].done /\ WaitsWith(Peer(q), E[Peer(q)], ClientOf(v))
  ELSE E[Peer(q)].done = Append(E[q].done, HandshakeOf(v))
Evidence(E, M) ==
  \A q \in Ends : \A m \in M[q] :
    IsFinished(m) /\ Match(q, E[q], m.verify) => Shown(q, E, m.verify)

(* An end is ahead by one handshake at most, and then the other waits for it.*)
Ahead(E) ==
  \/ E["client"].done = E["server"].done
  \/ \E p \in Ends : \E h :
       /\ E[p].done = Append(E[Peer(p)].done, h)
       /\ WaitsWith(Peer(p), E[Peer(p)], h.read.client)

(* Two ends in the same handshake have completed the same ones.              *)
Level(E) ==
  E["client"].clientRandom = E["server"].clientRandom /\ E["server"].clientRandom # 0
    => E["client"].done = E["server"].done

(* And so have a closer that has read the opener's Finished, and the opener. *)
Closings(E) ==
  \A p \in Ends : Closing(p, E[p]) =>
    /\ E["client"].done = E["server"].done
    /\ WaitsWith(Peer(p), E[Peer(p)], E[p].clientRandom)

-----------------------------------------------------------------------------
(* The invariant.                                                            *)

Shape ==
  /\ config \in Configs
  /\ DOMAIN end = Ends /\ DOMAIN wire = Ends
  /\ \A p \in Ends : IsSeq(wire[p])
  /\ \A p \in Ends : \A m \in Msgs[p] :
       m.type \in HandshakeTypes \cup {"CHANGE_CIPHER_SPEC", "ALERT", "APP_DATA"}
  /\ count \in [random : Nat, connection : 1 .. MaxConnections,
                renegotiation : 0 .. MaxRenegotiations, app : 0 .. MaxApp]
  /\ \A id \in DOMAIN cache : cache[id].id = id
Locals == \A p \in Ends : Local(p, end[p], count.random, past)
Wires ==
  /\ \A m \in Msgs["server"] : ToServer(m, end["server"], count.random, past, cache)
  /\ \A m \in Msgs["client"] : ToClient(m, count.random)
  /\ HelloOrder(wire["server"])

(* What is kept from one connection to the next: old secrets, the cache, and *)
(* a session of the client holds a secret that both ends had agreed on.      *)
SessionOK(e, n, known) ==
  /\ ProperTicket(e.ticket, n) /\ ProperTicket(e.session.ticket, n) /\ IsSession(e.session)
  /\ e.session # NoSession => e.session.master \in known
  /\ e.session # NoSession /\ e.clientRandom # 0 => Gen(e.session.master) < e.clientRandom
Store ==
  /\ \A m \in past : Proper(m, count.random)
  /\ \A id \in DOMAIN cache : Proper(cache[id].master, count.random)
  /\ SessionOK(end["client"], count.random, Known)
Both == Ahead(end) /\ Level(end) /\ Closings(end) /\ Evidence(end, Msgs)

HInv == Shape /\ Locals /\ Wires /\ Store /\ Both

-----------------------------------------------------------------------------
(* Sequences.                                                                *)

(* A member of any Seq(S) is a sequence in the sense of IsSeq.               *)
LEMMA SeqIsSeq ==
  ASSUME NEW S, NEW s \in Seq(S)
  PROVE  IsSeq(s)
<1> DEFINE T == {s[i] : i \in DOMAIN s}
<1>1. Len(s) \in Nat /\ DOMAIN s = 1 .. Len(s) /\ s = [i \in 1 .. Len(s) |-> s[i]]
  OBVIOUS
<1>2. \A i \in 1 .. Len(s) : s[i] \in T
  BY <1>1
<1>3. s \in [1 .. Len(s) -> T]
  BY <1>1, <1>2
<1> QED
  BY <1>1, <1>3 DEF IsSeq

(* The empty sequence.                                                       *)
LEMMA EmptySeq == IsSeq(<<>>) /\ DOMAIN <<>> = {} /\ Len(<<>>) = 0
<1>1. <<>> \in Seq({}) /\ DOMAIN <<>> = {} /\ Len(<<>>) = 0
  OBVIOUS
<1> QED
  BY <1>1, SeqIsSeq

(* Appending to a sequence keeps what is there.                              *)
LEMMA AppendFacts ==
  ASSUME NEW s, IsSeq(s), NEW x
  PROVE  /\ Len(s) \in Nat /\ DOMAIN s = 1 .. Len(s)
         /\ IsSeq(Append(s, x)) /\ Len(Append(s, x)) = Len(s) + 1
         /\ DOMAIN Append(s, x) = 1 .. Len(s) + 1
         /\ Append(s, x)[Len(s) + 1] = x
         /\ \A i \in 1 .. Len(s) : Append(s, x)[i] = s[i]
<1> DEFINE S == {s[i] : i \in DOMAIN s} \cup {x}
<1>1. s \in Seq(S) /\ x \in S
  BY DEF IsSeq
<1>2. Append(s, x) \in Seq(S)
  BY <1>1
<1>3. IsSeq(Append(s, x))
  BY <1>2, SeqIsSeq
<1> QED
  BY <1>1, <1>2, <1>3

(* The rest of a sequence.                                                   *)
LEMMA TailFacts ==
  ASSUME NEW s, IsSeq(s), s # <<>>
  PROVE  /\ Len(s) \in Nat \ {0} /\ DOMAIN s = 1 .. Len(s) /\ Head(s) = s[1]
         /\ IsSeq(Tail(s)) /\ DOMAIN Tail(s) = 1 .. Len(s) - 1
         /\ \A i \in 1 .. Len(s) - 1 : Tail(s)[i] = s[i + 1]
<1> DEFINE S == {s[i] : i \in DOMAIN s}
<1>1. s \in Seq(S)
  BY DEF IsSeq
<1>2. Tail(s) \in Seq(S) /\ Len(Tail(s)) = Len(s) - 1 /\ Len(s) \in Nat \ {0}
  BY <1>1
<1>3. IsSeq(Tail(s))
  BY <1>2, SeqIsSeq
<1> QED
  BY <1>1, <1>2, <1>3

(* The first two messages of a handshake.                                    *)
LEMMA PairAppend ==
  ASSUME NEW a, NEW b
  PROVE  /\ Append(<<a>>, b) = <<a, b>>
         /\ Len(<<a, b>>) = 2 /\ <<a, b>>[1] = a /\ <<a, b>>[2] = b
<1> DEFINE S == {a, b}
           s == Append(<<a>>, b)
           t == <<a, b>>
<1>1. t \in Seq(S) /\ Len(t) = 2 /\ t[1] = a /\ t[2] = b
  OBVIOUS
<1>2. <<a>> \in Seq(S) /\ b \in S /\ Len(<<a>>) = 1 /\ <<a>>[1] = a
  OBVIOUS
<1>3. s \in Seq(S) /\ Len(s) = 2 /\ s[1] = a /\ s[2] = b
  BY <1>2
<1> HIDE DEF S, s, t
<1>4. s = [i \in 1 .. Len(s) |-> s[i]] /\ t = [i \in 1 .. Len(t) |-> t[i]]
  BY <1>1, <1>3
<1>5. \A i \in 1 .. 2 : s[i] = t[i]
  BY <1>1, <1>3
<1>6. s = t
  BY <1>1, <1>3, <1>4, <1>5
<1> QED
  BY <1>1, <1>6 DEF s, t

(* Two sequences that are longer by different amounts differ.                *)
LEMMA AppendDiffers ==
  ASSUME NEW s, IsSeq(s), NEW t, IsSeq(t), NEW x, NEW y
  PROVE  /\ s # Append(s, x) /\ ~(s = Append(t, x) /\ t = Append(s, y))
         /\ Append(s, x) = Append(t, y) => x = y
<1>1. /\ Len(s) \in Nat /\ Len(t) \in Nat
      /\ Len(Append(s, x)) = Len(s) + 1 /\ Len(Append(s, y)) = Len(s) + 1
      /\ Len(Append(t, x)) = Len(t) + 1 /\ Len(Append(t, y)) = Len(t) + 1
      /\ Append(s, x)[Len(s) + 1] = x /\ Append(t, y)[Len(t) + 1] = y
  BY AppendFacts
<1> QED
  BY <1>1

-----------------------------------------------------------------------------
(* What the ways to send and to receive do to the wires.                     *)

(* Of two ends, one is the other's peer.                                     *)
LEMMA PeerFacts ==
  ASSUME NEW p \in Ends
  PROVE  /\ Peer(p) \in Ends /\ Peer(p) # p /\ Peer(Peer(p)) = p
         /\ \A q \in Ends : q = p \/ q = Peer(p)
         /\ Ends = {p, Peer(p)}
BY DEF Ends, Peer

(* A wire with one more record.                                              *)
LEMMA WireAppend ==
  ASSUME Shape, NEW q \in Ends, NEW k, NEW m,
         wire' = [wire EXCEPT ![q] = Append(@, [key |-> k, msg |-> m])]
  PROVE  /\ DOMAIN wire' = Ends /\ \A r \in Ends : IsSeq(wire'[r])
         /\ \A r \in Ends : Msgs'[r] = IF r = q THEN Msgs[r] \cup {m} ELSE Msgs[r]
         /\ q = "client" => wire'["server"] = wire["server"]
<1> DEFINE x == [key |-> k, msg |-> m]
<1>1. /\ IsSeq(wire[q]) /\ DOMAIN wire = Ends /\ \A r \in Ends : IsSeq(wire[r])
  BY DEF Shape
<1>2. /\ wire'[q] = Append(wire[q], x) /\ DOMAIN wire' = Ends
      /\ \A r \in Ends : r # q => wire'[r] = wire[r]
  BY <1>1
<1>3. /\ IsSeq(wire'[q]) /\ Len(wire[q]) \in Nat /\ DOMAIN wire[q] = 1 .. Len(wire[q])
      /\ DOMAIN wire'[q] = 1 .. Len(wire[q]) + 1
      /\ wire'[q][Len(wire[q]) + 1] = x
      /\ \A i \in 1 .. Len(wire[q]) : wire'[q][i] = wire[q][i]
  BY <1>1, <1>2, AppendFacts
<1>4. {wire'[q][i].msg : i \in DOMAIN wire'[q]} = {wire[q][i].msg : i \in DOMAIN wire[q]} \cup {m}
  <2>1. x.msg = m
    OBVIOUS
  <2>2. 1 .. Len(wire[q]) + 1 = (1 .. Len(wire[q])) \cup {Len(wire[q]) + 1}
    BY <1>3
  <2> QED
    BY <1>3, <2>1, <2>2
<1>5. \A r \in Ends : Msgs'[r] = {wire'[r][i].msg : i \in DOMAIN wire'[r]}
  BY DEF Msgs
<1>6. \A r \in Ends : Msgs[r] = {wire[r][i].msg : i \in DOMAIN wire[r]}
  BY DEF Msgs
<1>7. \A r \in Ends : Msgs'[r] = IF r = q THEN Msgs[r] \cup {m} ELSE Msgs[r]
  <2>1. Msgs'[q] = Msgs[q] \cup {m}
    BY <1>4, <1>5, <1>6
  <2>2. \A r \in Ends : r # q => Msgs'[r] = Msgs[r]
    <3> SUFFICES ASSUME NEW r \in Ends, r # q
                 PROVE  Msgs'[r] = Msgs[r]
      OBVIOUS
    <3>1. wire'[r] = wire[r]
      BY <1>2
    <3> QED
      BY <3>1 DEF Msgs
  <2> QED
    BY <2>1, <2>2
<1>8. \A r \in Ends : IsSeq(wire'[r])
  BY <1>1, <1>2, <1>3
<1> HIDE DEF x
<1>9. "server" \in Ends /\ (q = "client" => q # "server")
  BY DEF Ends
<1> QED
  BY <1>2, <1>7, <1>8, <1>9

(* The first record is taken from a wire.                                    *)
LEMMA WireTail ==
  ASSUME Shape, NEW q \in Ends, wire[q] # <<>>, DOMAIN wire' = Ends, wire'[q] = Tail(wire[q])
  PROVE  /\ IsSeq(wire'[q]) /\ Msgs'[q] \subseteq Msgs[q] /\ First(q) \in Msgs[q]
         /\ \A m \in Msgs'[q] : \E i \in DOMAIN wire[q] : 1 < i /\ m = wire[q][i].msg
         /\ First(q) = wire[q][1].msg /\ 1 \in DOMAIN wire[q]
         /\ HelloOrder(wire[q]) => HelloOrder(wire'[q])
<1>1. /\ IsSeq(wire[q]) /\ DOMAIN wire = Ends
  BY DEF Shape
<1>2. /\ Len(wire[q]) \in Nat \ {0} /\ DOMAIN wire[q] = 1 .. Len(wire[q]) /\ Head(wire[q]) = wire[q][1]
      /\ IsSeq(wire'[q]) /\ DOMAIN wire'[q] = 1 .. Len(wire[q]) - 1
      /\ \A i \in 1 .. Len(wire[q]) - 1 : wire'[q][i] = wire[q][i + 1]
  BY <1>1, TailFacts
<1>3. Msgs'[q] = {wire'[q][i].msg : i \in DOMAIN wire'[q]}
  BY DEF Msgs
<1>4. Msgs[q] = {wire[q][i].msg : i \in DOMAIN wire[q]}
  BY DEF Msgs
<1>5. \A m \in Msgs'[q] : \E i \in DOMAIN wire[q] : 1 < i /\ m = wire[q][i].msg
  <2> SUFFICES ASSUME NEW i \in DOMAIN wire'[q]
               PROVE  \E j \in DOMAIN wire[q] : 1 < j /\ wire'[q][i].msg = wire[q][j].msg
    BY <1>3
  <2>1. i + 1 \in DOMAIN wire[q] /\ 1 < i + 1 /\ wire'[q][i].msg = wire[q][i + 1].msg
    BY <1>2
  <2> QED
    BY <2>1
<1>6. HelloOrder(wire[q]) => HelloOrder(wire'[q])
  <2> SUFFICES ASSUME HelloOrder(wire[q]), NEW i \in DOMAIN wire'[q], NEW j \in DOMAIN wire'[q],
                      i < j, wire'[q][i].msg.type = "CLIENT_HELLO", wire'[q][j].msg.type = "CLIENT_HELLO"
               PROVE  wire'[q][i].msg.random < wire'[q][j].msg.random
    BY DEF HelloOrder
  <2>1. /\ i + 1 \in DOMAIN wire[q] /\ j + 1 \in DOMAIN wire[q] /\ i + 1 < j + 1
        /\ wire'[q][i] = wire[q][i + 1] /\ wire'[q][j] = wire[q][j + 1]
    BY <1>2
  <2> QED
    BY <2>1 DEF HelloOrder
<1> QED
  BY <1>2, <1>4, <1>5, <1>6 DEF First

-----------------------------------------------------------------------------
(* The stages.                                                               *)

(* Pairs are equal if their parts are.                                       *)
LEMMA PairFacts == \A h, a, b : h = <<a, b>> => h[1] = a /\ h[2] = b
OBVIOUS

(* Every handshake state belongs to one stage.                               *)
LEMMA StageFacts ==
  ASSUME NEW p \in Ends, NEW h
  PROVE  /\ h \in Outside(p) => h \notin Greeting(p) /\ h \notin Flight(p) /\ h \notin Keyed(p)
         /\ h \in Greeting(p) => h \notin Outside(p) /\ h \notin Flight(p) /\ h \notin Keyed(p)
         /\ h \in Flight(p) => h \notin Outside(p) /\ h \notin Greeting(p) /\ h \notin Keyed(p)
         /\ h \in Keyed(p) => h \notin Outside(p) /\ h \notin Greeting(p) /\ h \notin Flight(p)
         /\ h \in Outside(p) \cup Greeting(p) \cup Flight(p) \cup Verify(p)
              => h \notin Ticket(p) /\ h \notin Changing
         /\ h \in Stages(p) => h = <<h[1], h[2]>>
<1> USE DEF Outside, Greeting, Flight, Keyed, Verify, Ticket, Changing
<1>1. p = "client" \/ p = "server"
  BY DEF Ends
<1>2. h \in Outside(p) => h \notin Greeting(p) /\ h \notin Flight(p) /\ h \notin Keyed(p)
  BY <1>1
<1>3. h \in Greeting(p) => h \notin Outside(p) /\ h \notin Flight(p) /\ h \notin Keyed(p)
  BY <1>1
<1>4. h \in Flight(p) => h \notin Keyed(p)
  BY <1>1
<1>5. h \in Outside(p) \cup Greeting(p) \cup Flight(p) \cup Verify(p)
        => h \notin Ticket(p) /\ h \notin Changing
  BY <1>1
<1>6. h \in Stages(p) => h = <<h[1], h[2]>>
  <2>1. h \in Outside(p) => h = <<h[1], h[2]>>
    BY <1>1
  <2>2. h \in Greeting(p) => h = <<h[1], h[2]>>
    BY <1>1
  <2>3. h \in Flight(p) => h = <<h[1], h[2]>>
    BY <1>1
  <2>4. h \in Keyed(p) => h = <<h[1], h[2]>>
    BY <1>1
  <2> QED
    BY <2>1, <2>2, <2>3, <2>4 DEF Stages
<1> QED
  BY <1>2, <1>3, <1>4, <1>5, <1>6

(* An end that waits or closes has its keys.                                 *)
LEMMA PhaseFacts ==
  ASSUME NEW p \in Ends, NEW e, e.hs \in Stages(p)
  PROVE  /\ Waiting(p, e) => e.hs \in Keyed(p) /\ e.hs[1] = "recv"
         /\ Closing(p, e) => e.hs \in Keyed(p) /\ e.hs[1] = "send"
         /\ ~(Waiting(p, e) /\ Closing(p, e))
<1> DEFINE h == e.hs
<1> HIDE DEF h
<1>1. h \in Stages(p)
  BY DEF h
<1>2. h \in {<<"recv", "NEW_SESSION_TICKET">>, <<"recv", "FINISHED">>} => h \in Keyed(p) /\ h[1] = "recv"
  <2> SUFFICES ASSUME h \in {<<"recv", "NEW_SESSION_TICKET">>, <<"recv", "FINISHED">>}
               PROVE  h \in Keyed(p) /\ h[1] = "recv"
    OBVIOUS
  <2>1. h[1] = "recv" /\ h[2] \in {"NEW_SESSION_TICKET", "FINISHED"}
    BY PairFacts
  <2>2. CASE p = "client"
    BY <2>1, <2>2 DEF Keyed, Ticket, Changing
  <2>3. CASE p = "server"
    <3>1. h # <<"recv", "NEW_SESSION_TICKET">>
      BY <1>1, <2>3 DEF Stages, Outside, Greeting, Flight, Keyed, Verify, Ticket, Changing
    <3> QED
      BY <2>1, <3>1 DEF Keyed, Changing
  <2> QED
    BY <2>2, <2>3 DEF Ends
<1>3. h \in {<<"send", "NEW_SESSION_TICKET">>, <<"send", "CHANGE_CIPHER_SPEC">>, <<"send", "FINISHED">>}
        => h \in Keyed(p) /\ h[1] = "send"
  <2> SUFFICES ASSUME h \in {<<"send", "NEW_SESSION_TICKET">>, <<"send", "CHANGE_CIPHER_SPEC">>,
                             <<"send", "FINISHED">>}
               PROVE  h \in Keyed(p) /\ h[1] = "send"
    OBVIOUS
  <2>1. h[1] = "send"
    BY PairFacts
  <2>2. CASE p = "server"
    BY <2>1, <2>2 DEF Keyed, Ticket, Changing
  <2>3. CASE p = "client"
    <3>1. h # <<"send", "NEW_SESSION_TICKET">>
      BY <1>1, <2>3 DEF Stages, Outside, Greeting, Flight, Keyed, Verify, Ticket, Changing
    <3> QED
      BY <2>1, <3>1 DEF Keyed, Changing
  <2> QED
    BY <2>2, <2>3 DEF Ends
<1> QED
  BY <1>2, <1>3 DEF h, Waiting, Closing

(* HS_SendMsg.                                                               *)
LEMMA SendFacts ==
  ASSUME Shape, NEW p \in Ends, NEW m, NEW f, Send(p, m, f)
  PROVE  /\ DOMAIN end' = Ends /\ end'[p] = f /\ end'[Peer(p)] = end[Peer(p)]
         /\ DOMAIN wire' = Ends /\ \A r \in Ends : IsSeq(wire'[r])
         /\ Msgs'[p] = Msgs[p] /\ Msgs'[Peer(p)] = Msgs[Peer(p)] \cup {m}
         /\ p = "server" => wire'["server"] = wire["server"]
<1>1. Peer(p) \in Ends /\ p # Peer(p) /\ (p = "server" => Peer(p) = "client")
  BY DEF Ends, Peer
<1>2. DOMAIN end' = Ends /\ end'[p] = f /\ end'[Peer(p)] = end[Peer(p)]
  BY <1>1 DEF Send, Shape
<1>3. wire' = [wire EXCEPT ![Peer(p)] = Append(@, [key |-> end[p].write, msg |-> m])]
  BY DEF Send, Record
<1>4. /\ DOMAIN wire' = Ends /\ \A r \in Ends : IsSeq(wire'[r])
      /\ \A r \in Ends : Msgs'[r] = IF r = Peer(p) THEN Msgs[r] \cup {m} ELSE Msgs[r]
      /\ Peer(p) = "client" => wire'["server"] = wire["server"]
  BY <1>1, <1>3, WireAppend
<1> QED
  BY <1>1, <1>2, <1>4

(* A record is read.                                                         *)
LEMMA ConsumeFacts ==
  ASSUME Shape, NEW p \in Ends, NEW f, Reading(p), Consume(p, f)
  PROVE  /\ DOMAIN end' = Ends /\ end'[p] = f /\ end'[Peer(p)] = end[Peer(p)]
         /\ DOMAIN wire' = Ends /\ \A r \in Ends : IsSeq(wire'[r])
         /\ Msgs'[p] \subseteq Msgs[p] /\ Msgs'[Peer(p)] = Msgs[Peer(p)] /\ First(p) \in Msgs[p]
         /\ HelloOrder(wire["server"]) => HelloOrder(wire'["server"])
<1>1. Peer(p) \in Ends /\ p # Peer(p) /\ Ends = {p, Peer(p)}
  BY DEF Ends, Peer
<1>2. DOMAIN end' = Ends /\ end'[p] = f /\ end'[Peer(p)] = end[Peer(p)]
  BY <1>1 DEF Consume, Shape
<1>3. DOMAIN wire' = Ends /\ wire'[p] = Tail(wire[p]) /\ wire'[Peer(p)] = wire[Peer(p)] /\ wire[p] # <<>>
  BY <1>1 DEF Consume, Shape, Reading
<1>4. /\ IsSeq(wire'[p]) /\ Msgs'[p] \subseteq Msgs[p] /\ First(p) \in Msgs[p]
      /\ HelloOrder(wire[p]) => HelloOrder(wire'[p])
  BY <1>3, WireTail
<1>5. Msgs'[Peer(p)] = Msgs[Peer(p)]
  BY <1>1, <1>3 DEF Msgs
<1>6. IsSeq(wire'[Peer(p)])
  BY <1>1, <1>3 DEF Shape
<1>7. HelloOrder(wire["server"]) => HelloOrder(wire'["server"])
  BY <1>1, <1>3, <1>4 DEF Ends
<1> QED
  BY <1>1, <1>2, <1>3, <1>4, <1>5, <1>6, <1>7

(* An end fails: its wire is emptied, and an alert goes out.                 *)
LEMMA FailFacts ==
  ASSUME Shape, NEW p \in Ends, Fail(p)
  PROVE  /\ DOMAIN end' = Ends /\ end'[p] = Disabled(end[p]) /\ end'[Peer(p)] = end[Peer(p)]
         /\ DOMAIN wire' = Ends /\ \A r \in Ends : IsSeq(wire'[r])
         /\ Msgs'[p] = {} /\ Msgs'[Peer(p)] = Msgs[Peer(p)] \cup {Alert("fatal")}
         /\ HelloOrder(wire["server"]) => HelloOrder(wire'["server"])
<1>1. Peer(p) \in Ends /\ p # Peer(p) /\ Ends = {p, Peer(p)} /\ "server" \in Ends
  BY DEF Ends, Peer
<1>2. DOMAIN end' = Ends /\ end'[p] = Disabled(end[p]) /\ end'[Peer(p)] = end[Peer(p)]
  BY <1>1 DEF Fail, Shape
<1> DEFINE q == Peer(p)
           x == [key |-> end[p].write, msg |-> Alert("fatal")]
<1>3. DOMAIN wire' = Ends /\ wire'[p] = <<>> /\ wire'[q] = Append(wire[q], x)
  BY <1>1 DEF Fail, Shape, Record
<1>4. /\ Len(wire[q]) \in Nat /\ DOMAIN wire[q] = 1 .. Len(wire[q])
      /\ IsSeq(wire'[q]) /\ DOMAIN wire'[q] = 1 .. Len(wire[q]) + 1
      /\ wire'[q][Len(wire[q]) + 1] = x
      /\ \A i \in 1 .. Len(wire[q]) : wire'[q][i] = wire[q][i]
  BY <1>1, <1>3, AppendFacts DEF Shape
<1>5. IsSeq(wire'[p]) /\ DOMAIN wire'[p] = {}
  BY <1>3, EmptySeq
<1>6. Msgs'[q] = {wire'[q][i].msg : i \in DOMAIN wire'[q]}
  BY <1>1 DEF Msgs
<1>7. Msgs[q] = {wire[q][i].msg : i \in DOMAIN wire[q]}
  BY <1>1 DEF Msgs
<1>8. Msgs'[q] = Msgs[q] \cup {Alert("fatal")}
  <2>1. x.msg = Alert("fatal")
    OBVIOUS
  <2>2. 1 .. Len(wire[q]) + 1 = (1 .. Len(wire[q])) \cup {Len(wire[q]) + 1}
    BY <1>4
  <2> QED
    BY SMTT(30), <1>4, <1>6, <1>7, <2>1, <2>2
<1>9. Msgs'[p] = {}
  BY <1>5 DEF Msgs
<1>10. HelloOrder(wire["server"]) => HelloOrder(wire'["server"])
  <2>1. CASE p = "server"
    BY <2>1, <1>5 DEF HelloOrder
  <2>2. CASE q = "server"
    <3> SUFFICES ASSUME HelloOrder(wire[q]), NEW i \in DOMAIN wire'[q], NEW j \in DOMAIN wire'[q],
                        i < j, wire'[q][i].msg.type = "CLIENT_HELLO", wire'[q][j].msg.type = "CLIENT_HELLO"
                 PROVE  wire'[q][i].msg.random < wire'[q][j].msg.random
      BY <2>2 DEF HelloOrder
    <3>1. x.msg.type # "CLIENT_HELLO"
      BY DEF Alert
    <3>2. i \in 1 .. Len(wire[q]) /\ j \in 1 .. Len(wire[q])
      BY <1>4, <3>1
    <3> QED
      BY <1>4, <3>2 DEF HelloOrder
  <2> QED
    BY <2>1, <2>2, <1>1
<1>11. \A r \in Ends : IsSeq(wire'[r])
  BY <1>1, <1>4, <1>5
<1> QED
  BY <1>2, <1>3, <1>8, <1>9, <1>10, <1>11

-----------------------------------------------------------------------------
(* What a step leaves alone.                                                 *)

(* More random numbers have been drawn.                                      *)
LEMMA LocalKept ==
  ASSUME NEW p, NEW e, NEW n \in Nat, NEW k \in Nat, n <= k, NEW old, Local(p, e, n, old)
  PROVE  Local(p, e, k, old)
<1>1. \A m : Proper(m, n) => Proper(m, k)
  BY DEF Proper
<1>2. Hellos(e, n) => Hellos(e, k)
  BY DEF Hellos
<1>3. AtGreeting(p, e, n) => AtGreeting(p, e, k)
  BY <1>1 DEF AtGreeting
<1>4. AtFlight(e, n) => AtFlight(e, k)
  BY <1>2 DEF AtFlight
<1>5. AtKeyed(p, e, n) => AtKeyed(p, e, k)
  BY <1>1, <1>2 DEF AtKeyed
<1>6. Older(e, n, old) => Older(e, k, old)
  BY <1>1 DEF Older
<1> QED
  BY <1>3, <1>4, <1>5, <1>6 DEF Local

(* More random numbers disturb none of these.                                *)
LEMMA TicketKept ==
  ASSUME NEW t, NEW n \in Nat, NEW k \in Nat, n <= k, ProperTicket(t, n)
  PROVE  ProperTicket(t, k)
BY DEF ProperTicket, Proper

(* The same of a message to the client.                                      *)
LEMMA ToClientKept ==
  ASSUME NEW m, NEW n \in Nat, NEW k \in Nat, n <= k, ToClient(m, n)
  PROVE  ToClient(m, k)
BY TicketKept DEF ToClient, FinishedOK

(* And of the session of the client, when more secrets are known.            *)
LEMMA SessionKept ==
  ASSUME NEW e, NEW n \in Nat, NEW k \in Nat, n <= k, NEW known, NEW more, known \subseteq more,
         SessionOK(e, n, known)
  PROVE  SessionOK(e, k, more)
BY TicketKept DEF SessionOK

(* A step of an end that completes no handshake and reads no Finished.       *)
Moves(p, e, f, M) ==
  /\ f.done = e.done
  /\ \A r : WaitsWith(p, e, r) => WaitsWith(p, f, r)
  /\ Closing(p, f) => Closing(p, e) /\ f.clientRandom = e.clientRandom
  /\ \A m \in M : IsFinished(m) /\ Match(p, f, m.verify) => Match(p, e, m.verify)

(* Such a step disturbs nothing between the ends, except that they may now   *)
(* be in the same handshake.                                                 *)
LEMMA BothKept ==
  ASSUME NEW p \in Ends, NEW E, NEW F, NEW M, NEW N,
         Ahead(E), Closings(E), Evidence(E, M), Level(F),
         F[Peer(p)] = E[Peer(p)], Moves(p, E[p], F[p], M[p]),
         \A q \in Ends : \A m \in N[q] : IsFinished(m) => m \in M[q]
  PROVE  Ahead(F) /\ Level(F) /\ Closings(F) /\ Evidence(F, N)
<1> DEFINE q == Peer(p)
<1>0. q \in Ends /\ q # p /\ Peer(q) = p /\ Ends = {p, q} /\ "client" \in Ends /\ "server" \in Ends
  BY PeerFacts DEF Ends
<1>1. /\ F[p].done = E[p].done /\ F[q] = E[q]
      /\ \A r : WaitsWith(p, E[p], r) => WaitsWith(p, F[p], r)
      /\ Closing(p, F[p]) => Closing(p, E[p]) /\ F[p].clientRandom = E[p].clientRandom
  BY DEF Moves
<1>2. \A x \in Ends : F[x].done = E[x].done
  BY <1>0, <1>1
<1>3. \A x \in Ends : \A r : WaitsWith(x, E[x], r) => WaitsWith(x, F[x], r)
  BY <1>0, <1>1
<1>4. Ahead(F)
  <2>1. CASE E["client"].done = E["server"].done
    BY <2>1, <1>0, <1>2 DEF Ahead
  <2>2. CASE \E x \in Ends : \E h : /\ E[x].done = Append(E[Peer(x)].done, h)
                                   /\ WaitsWith(Peer(x), E[Peer(x)], h.read.client)
    <3> PICK x \in Ends : \E h : /\ E[x].done = Append(E[Peer(x)].done, h)
                                 /\ WaitsWith(Peer(x), E[Peer(x)], h.read.client)
      BY <2>2
    <3> PICK h : /\ E[x].done = Append(E[Peer(x)].done, h)
                 /\ WaitsWith(Peer(x), E[Peer(x)], h.read.client)
      OBVIOUS
    <3>1. Peer(x) \in Ends
      BY PeerFacts
    <3>2. F[x].done = Append(F[Peer(x)].done, h) /\ WaitsWith(Peer(x), F[Peer(x)], h.read.client)
      BY <3>1, <1>2, <1>3
    <3> QED
      BY <3>2 DEF Ahead
  <2> QED
    BY <2>1, <2>2 DEF Ahead
<1>5. \A x \in Ends : Closing(x, F[x]) => Closing(x, E[x]) /\ F[x].clientRandom = E[x].clientRandom
  BY <1>0, <1>1
<1>6. Closings(F)
  <2> SUFFICES ASSUME NEW x \in Ends, Closing(x, F[x])
               PROVE  /\ F["client"].done = F["server"].done
                      /\ WaitsWith(Peer(x), F[Peer(x)], F[x].clientRandom)
    BY DEF Closings
  <2>1. /\ E["client"].done = E["server"].done
        /\ WaitsWith(Peer(x), E[Peer(x)], E[x].clientRandom)
    BY <1>5 DEF Closings
  <2> QED
    BY <2>1, <1>0, <1>2, <1>3, <1>5, PeerFacts
<1>7. Evidence(F, N)
  <2> SUFFICES ASSUME NEW x \in Ends, NEW m \in N[x], IsFinished(m), Match(x, F[x], m.verify)
               PROVE  Shown(x, F, m.verify)
    BY DEF Evidence
  <2>1. m \in M[x]
    OBVIOUS
  <2>2. Match(x, E[x], m.verify)
    BY <2>1, <1>0, <1>1 DEF Moves
  <2>3. Shown(x, E, m.verify)
    BY <2>1, <2>2 DEF Evidence
  <2> QED
    BY <2>3, <1>2, <1>3, PeerFacts DEF Shown
<1> QED
  BY <1>4, <1>6, <1>7

(* Ends that were level stay so when one draws a random number, or drops its.*)
LEMMA LevelKept ==
  ASSUME NEW p \in Ends, NEW E, NEW F, Level(E), F[Peer(p)] = E[Peer(p)], F[p].done = E[p].done,
         F[p].clientRandom \in {0, E[p].clientRandom} \/ F[p].clientRandom # E[Peer(p)].clientRandom
  PROVE  Level(F)
BY PeerFacts DEF Level, Ends, Peer

MessageTypes == HandshakeTypes \cup {"CHANGE_CIPHER_SPEC", "ALERT", "APP_DATA"}

(* A step in which no end completes a handshake and no connection is opened. *)
Incomplete == past' = past /\ \A q \in Ends : end'[q].done = end[q].done

(* The whole invariant after a step of p that completes no handshake.        *)
LEMMA Ordinary ==
  ASSUME HInv, NEW p \in Ends,
         DOMAIN end' = Ends, end'[Peer(p)] = end[Peer(p)],
         DOMAIN wire' = Ends, \A r \in Ends : IsSeq(wire'[r]), HelloOrder(wire'["server"]),
         config' = config, past' = past,
         count' \in [random : Nat, connection : 1 .. MaxConnections,
                     renegotiation : 0 .. MaxRenegotiations, app : 0 .. MaxApp],
         count.random <= count'.random,
         DOMAIN cache' \subseteq DOMAIN cache, \A id \in DOMAIN cache' : cache'[id] = cache[id],
         \A q \in Ends : \A m \in Msgs'[q] :
           m \in Msgs[q] \/ (m.type \in MessageTypes /\ ~IsFinished(m)),
         \A m \in Msgs'["client"] : m \in Msgs["client"] \/ ToClient(m, count'.random),
         \A m \in Msgs'["server"] :
           \/ m \in Msgs["server"] /\ (m.type = "CLIENT_HELLO" => end'["server"].clientRandom < m.random)
           \/ ToServer(m, end'["server"], count'.random, past, cache'),
         Local(p, end'[p], count'.random, past),
         Moves(p, end[p], end'[p], Msgs[p]), Level(end'),
         p = "client" => SessionOK(end'[p], count'.random, Known)
  PROVE  HInv' /\ Incomplete
<1> DEFINE q == Peer(p)
           n == count.random
           k == count'.random
<1>0. q \in Ends /\ q # p /\ Peer(q) = p /\ Ends = {p, q} /\ "client" \in Ends /\ "server" \in Ends
  BY PeerFacts DEF Ends
<1>1. n \in Nat /\ k \in Nat /\ n <= k
  BY DEF HInv, Shape
<1>2. \A x \in Ends : end'[x].done = end[x].done
  BY <1>0 DEF Moves
<1>3. Shape'
  <2>1. \A x \in Ends : \A m \in Msgs'[x] : m.type \in MessageTypes
    BY DEF HInv, Shape, MessageTypes
  <2>2. \A id \in DOMAIN cache' : cache'[id].id = id
    BY DEF HInv, Shape
  <2>3. config' \in Configs
    BY DEF HInv, Shape
  <2> QED
    BY <2>1, <2>2, <2>3 DEF Shape, MessageTypes
<1>4. Locals'
  <2>1. Local(q, end[q], k, past)
    BY <1>0, <1>1, LocalKept DEF HInv, Locals
  <2>2. \A x \in Ends : Local(x, end'[x], k, past)
    BY <1>0, <2>1
  <2> QED
    BY <2>2 DEF Locals
<1>5. Wires'
  <2>1. \A m \in Msgs'["client"] : ToClient(m, k)
    BY <1>1, ToClientKept DEF HInv, Wires
  <2>2. \A m \in Msgs'["server"] : ToServer(m, end'["server"], k, past, cache')
    <3> SUFFICES ASSUME NEW m \in Msgs["server"],
                        m.type = "CLIENT_HELLO" => end'["server"].clientRandom < m.random
                 PROVE  ToServer(m, end'["server"], k, past, cache')
      OBVIOUS
    <3>1. ToServer(m, end["server"], n, past, cache)
      BY DEF HInv, Wires
    <3>2. end'["server"].done = end["server"].done
      BY <1>0, <1>2
    <3>3. /\ n \in Nat /\ k \in Nat /\ n <= k /\ DOMAIN cache' \subseteq DOMAIN cache
          /\ \A id \in DOMAIN cache' : cache'[id] = cache[id]
      BY <1>1
    <3>4. m.type = "CLIENT_HELLO" => HelloOK(m, end'["server"], k, past, cache')
      BY <3>1, <3>2, <3>3, TicketKept DEF ToServer, HelloOK
    <3>5. IsFinished(m) => FinishedOK("server", m, k)
      BY <3>1, <3>3 DEF ToServer, FinishedOK
    <3> QED
      BY <3>1, <3>4, <3>5 DEF ToServer
  <2> QED
    BY <2>1, <2>2 DEF Wires
<1>6. Store'
  <2>1. Known' = Known
    BY <1>0, <1>2 DEF Known
  <2>2. \A m \in past' : Proper(m, k)
    BY <1>1 DEF HInv, Store, Proper
  <2>3. \A id \in DOMAIN cache' : Proper(cache'[id].master, k)
    BY <1>1 DEF HInv, Store, Proper
  <2>4. SessionOK(end'["client"], k, Known)
    <3>1. CASE p = "client"
      BY <3>1
    <3>2. CASE q = "client"
      <4>1. SessionOK(end["client"], n, Known)
        BY DEF HInv, Store
      <4> QED
        BY <3>2, <4>1, <1>1, SessionKept
    <3> QED
      BY <1>0, <3>1, <3>2
  <2> QED
    BY <2>1, <2>2, <2>3, <2>4 DEF Store
<1>7. Both'
  <2>1. Ahead(end) /\ Closings(end) /\ Evidence(end, Msgs)
    BY DEF HInv, Both
  <2>2. \A x \in Ends : \A m \in Msgs'[x] : IsFinished(m) => m \in Msgs[x]
    OBVIOUS
  <2>3. Ahead(end') /\ Level(end') /\ Closings(end') /\ Evidence(end', Msgs')
    BY <2>1, <2>2, BothKept
  <2> QED
    BY <2>3 DEF Both
<1> QED
  BY <1>2, <1>3, <1>4, <1>5, <1>6, <1>7 DEF HInv, Incomplete

(* A message goes out that is not a Finished.                                *)
LEMMA SendOrdinary ==
  ASSUME HInv, NEW p \in Ends, NEW m, NEW f, Send(p, m, f),
         config' = config, past' = past, cache' = cache,
         count' \in [random : Nat, connection : 1 .. MaxConnections,
                     renegotiation : 0 .. MaxRenegotiations, app : 0 .. MaxApp],
         count.random <= count'.random,
         m.type \in MessageTypes, ~IsFinished(m),
         p = "server" => ToClient(m, count'.random),
         p = "client" => ToServer(m, end["server"], count'.random, past, cache),
         p = "server" => \A x \in Msgs["server"] : x.type = "CLIENT_HELLO" => f.clientRandom < x.random,
         m.type = "CLIENT_HELLO" => count.random < m.random,
         Local(p, f, count'.random, past), Moves(p, end[p], f, Msgs[p]), Level(end'),
         p = "client" => SessionOK(f, count'.random, Known)
  PROVE  HInv' /\ Incomplete
<1> DEFINE q == Peer(p)
<1>0. q \in Ends /\ q # p /\ Ends = {p, q} /\ "client" \in Ends /\ "server" \in Ends
      /\ (p = "client" => q = "server") /\ (p = "server" => q = "client")
  BY DEF Ends, Peer
<1>1. /\ DOMAIN end' = Ends /\ end'[p] = f /\ end'[q] = end[q]
      /\ DOMAIN wire' = Ends /\ \A r \in Ends : IsSeq(wire'[r])
      /\ Msgs'[p] = Msgs[p] /\ Msgs'[q] = Msgs[q] \cup {m}
      /\ p = "server" => wire'["server"] = wire["server"]
  BY SendFacts DEF HInv
<1>2. \A x \in Msgs["server"] : ToServer(x, end["server"], count.random, past, cache)
  BY DEF HInv, Wires
<1>3. HelloOrder(wire'["server"])
  <2>1. CASE p = "server"
    BY <2>1, <1>1 DEF HInv, Wires
  <2>2. CASE p = "client"
    <3> DEFINE w == wire["server"]
    <3>1. wire'["server"] = Append(w, [key |-> end[p].write, msg |-> m]) /\ IsSeq(w)
      BY <2>2, <1>0 DEF HInv, Shape, Send, Record
    <3>2. /\ Len(w) \in Nat /\ DOMAIN w = 1 .. Len(w)
          /\ DOMAIN wire'["server"] = 1 .. Len(w) + 1
          /\ wire'["server"][Len(w) + 1] = [key |-> end[p].write, msg |-> m]
          /\ \A i \in 1 .. Len(w) : wire'["server"][i] = w[i]
      BY <3>1, AppendFacts
    <3>3. \A i \in DOMAIN w : w[i].msg \in Msgs["server"]
      BY <1>0 DEF Msgs
    <3>4. \A i \in DOMAIN w : w[i].msg.type = "CLIENT_HELLO" => w[i].msg.random \in 1 .. count.random
      BY <3>3, <1>2 DEF ToServer, HelloOK
    <3>5. HelloOrder(w)
      BY DEF HInv, Wires
    <3>6. count.random \in Nat /\ count'.random \in Nat
      BY DEF HInv, Shape
    <3>7. m.type = "CLIENT_HELLO" => m.random \in Nat
      BY <2>2, <3>6 DEF ToServer, HelloOK
    <3> SUFFICES ASSUME NEW i \in DOMAIN wire'["server"], NEW j \in DOMAIN wire'["server"], i < j,
                        wire'["server"][i].msg.type = "CLIENT_HELLO",
                        wire'["server"][j].msg.type = "CLIENT_HELLO"
                 PROVE  wire'["server"][i].msg.random < wire'["server"][j].msg.random
      BY DEF HelloOrder
    <3>8. i \in 1 .. Len(w) /\ wire'["server"][i] = w[i]
      BY SMTT(30), <3>2
    <3>9. CASE j = Len(w) + 1
      BY SMTT(30), <3>9, <3>2, <3>4, <3>6, <3>7, <3>8
    <3>10. CASE j \in 1 .. Len(w)
      BY <3>10, <3>2, <3>5, <3>8 DEF HelloOrder
    <3> QED
      BY SMTT(30), <3>2, <3>9, <3>10
  <2> QED
    BY <2>1, <2>2 DEF Ends
<1>4. \A r \in Ends : \A x \in Msgs'[r] : x \in Msgs[r] \/ (x.type \in MessageTypes /\ ~IsFinished(x))
  BY <1>0, <1>1
<1>5. \A x \in Msgs'["client"] : x \in Msgs["client"] \/ ToClient(x, count'.random)
  BY <1>0, <1>1
<1>6. \A x \in Msgs'["server"] :
        \/ x \in Msgs["server"] /\ (x.type = "CLIENT_HELLO" => end'["server"].clientRandom < x.random)
        \/ ToServer(x, end'["server"], count'.random, past, cache')
  <2>1. CASE p = "server"
    BY <2>1, <1>0, <1>1
  <2>2. CASE p = "client"
    BY <2>2, <1>0, <1>1, <1>2 DEF ToServer, HelloOK
  <2> QED
    BY <2>1, <2>2 DEF Ends
<1> QED
  BY <1>1, <1>3, <1>4, <1>5, <1>6, Ordinary

(* A record is read that is not a Finished.                                  *)
LEMMA ConsumeOrdinary ==
  ASSUME HInv, NEW p \in Ends, NEW f, Reading(p), Consume(p, f),
         config' = config, past' = past, count' = count,
         DOMAIN cache' \subseteq DOMAIN cache, \A id \in DOMAIN cache' : cache'[id] = cache[id],
         p = "server" => \A x \in Msgs'["server"] : x.type = "CLIENT_HELLO" => f.clientRandom < x.random,
         Local(p, f, count.random, past), Moves(p, end[p], f, Msgs[p]), Level(end'),
         p = "client" => SessionOK(f, count.random, Known)
  PROVE  HInv' /\ Incomplete
<1> DEFINE q == Peer(p)
<1>0. q \in Ends /\ q # p /\ Ends = {p, q} /\ "client" \in Ends /\ "server" \in Ends
      /\ (p = "client" => q = "server") /\ (p = "server" => q = "client")
  BY DEF Ends, Peer
<1>1. /\ DOMAIN end' = Ends /\ end'[p] = f /\ end'[q] = end[q]
      /\ DOMAIN wire' = Ends /\ \A r \in Ends : IsSeq(wire'[r])
      /\ Msgs'[p] \subseteq Msgs[p] /\ Msgs'[q] = Msgs[q]
      /\ HelloOrder(wire'["server"])
  BY ConsumeFacts DEF HInv, Wires
<1>2. \A x \in Msgs["server"] : ToServer(x, end["server"], count.random, past, cache)
  BY DEF HInv, Wires
<1>3. /\ count' \in [random : Nat, connection : 1 .. MaxConnections,
                     renegotiation : 0 .. MaxRenegotiations, app : 0 .. MaxApp]
      /\ count.random <= count'.random
  BY DEF HInv, Shape
<1>4. \A r \in Ends : Msgs'[r] \subseteq Msgs[r]
  BY <1>0, <1>1
<1>5. \A x \in Msgs'["server"] :
        x \in Msgs["server"] /\ (x.type = "CLIENT_HELLO" => end'["server"].clientRandom < x.random)
  <2>1. CASE p = "server"
    BY <2>1, <1>0, <1>1
  <2>2. CASE p = "client"
    BY <2>2, <1>0, <1>1, <1>2 DEF ToServer, HelloOK
  <2> QED
    BY <2>1, <2>2 DEF Ends
<1> HIDE DEF q
<1>6. /\ \A r \in Ends : \A m \in Msgs'[r] : m \in Msgs[r] \/ (m.type \in MessageTypes /\ ~IsFinished(m))
      /\ \A m \in Msgs'["client"] : m \in Msgs["client"] \/ ToClient(m, count'.random)
  BY <1>0, <1>4
<1>7. end'[Peer(p)] = end[Peer(p)] /\ count'.random = count.random
  BY <1>1 DEF q
<1> QED
  BY <1>1, <1>3, <1>5, <1>6, <1>7, Ordinary

(* No session.                                                               *)
LEMMA NoSessionFacts ==
  /\ IsSession(NoSession) /\ NoSession.ticket = <<>> /\ NoSession.id = NoId
  /\ NoSession.master = NoMaster
BY DEF NoSession, IsSession

(* An end that is disabled.                                                  *)
LEMMA DisabledFacts ==
  ASSUME NEW p \in Ends, NEW e, NEW n \in Nat, NEW old, Local(p, e, n, old), NEW M,
         \A m \in M : IsFinished(m) => FinishedOK(p, m, n), NEW known
  PROVE  /\ Local(p, Disabled(e), n, old) /\ Moves(p, e, Disabled(e), M)
         /\ Disabled(e).clientRandom = 0 /\ Disabled(e).done = e.done
         /\ SessionOK(Disabled(e), n, known)
<1> DEFINE f == Disabled(e)
<1>1. /\ IsEnd(f) /\ f.state = "ALERTED" /\ f.hs = <<"idle", "none">> /\ f.done = e.done
      /\ f.clientRandom = 0 /\ f.serverRandom = 0 /\ f.transcript = <<>> /\ f.ccs = CcsReset
      /\ f.isResume = FALSE /\ f.nextRead = <<>> /\ f.nextWrite = <<>>
      /\ f.session = NoSession /\ f.ticket = <<>>
  BY DEF Disabled, NewEnd, IsEnd, EndFields
<1> HIDE DEF f
<1>2. Typed(p, f)
  BY <1>1, EmptySeq DEF Local, Typed, AtMostOne, Stages, Outside
<1>3. Older(f, n, old)
  BY <1>1 DEF Local, Older
<1>4. Local(p, f, n, old)
  <2>1. AtRest(f)
    BY <1>1 DEF AtRest
  <2>2. f.hs \in Outside(p)
    BY <1>1 DEF Outside
  <2>3. f.hs \notin Greeting(p) \cup Flight(p) \cup Keyed(p)
    BY <2>2, StageFacts
  <2> QED
    BY <1>2, <1>3, <2>1, <2>3 DEF Local
<1>5. \A r : WaitsWith(p, f, r)
  BY <1>1 DEF WaitsWith, Dead
<1>6. ~Closing(p, f)
  <2>1. f.hs \in Stages(p) /\ f.hs[1] = "idle"
    BY <1>1, <1>2, PairFacts DEF Typed
  <2> QED
    BY <2>1, PhaseFacts
<1>7. \A m \in M : IsFinished(m) => ~Match(p, f, m.verify)
  <2> SUFFICES ASSUME NEW m \in M, FinishedOK(p, m, n), Match(p, f, m.verify)
               PROVE  FALSE
    OBVIOUS
  <2>1. ClientOf(m.verify) \in 1 .. n
    BY DEF FinishedOK
  <2>2. ClientOf(m.verify) = f.clientRandom
    BY DEF Match
  <2>3. f.clientRandom = 0
    BY <1>1
  <2> QED
    BY <2>1, <2>2, <2>3
<1>8. Moves(p, e, f, M)
  BY <1>1, <1>5, <1>6, <1>7 DEF Moves
<1>9. SessionOK(f, n, known)
  <2>1. IsSession(f.session) /\ f.session.ticket = <<>>
    BY <1>1, NoSessionFacts
  <2>2. ProperTicket(f.ticket, n) /\ ProperTicket(f.session.ticket, n)
    BY <1>1, <2>1 DEF ProperTicket
  <2> QED
    BY <1>1, <2>1, <2>2 DEF SessionOK
<1> QED
  BY <1>1, <1>4, <1>8, <1>9 DEF f

(* The Finished messages on the wire to an end.                              *)
LEMMA FinishedFacts ==
  ASSUME HInv, NEW p \in Ends
  PROVE  \A m \in Msgs[p] : IsFinished(m) => FinishedOK(p, m, count.random)
BY DEF HInv, Wires, ToServer, ToClient, Ends

(* Taking sessions from the cache.                                           *)
LEMMA WithoutFacts ==
  ASSUME NEW c, NEW id
  PROVE  /\ DOMAIN WithoutId(c, id) \subseteq DOMAIN c
         /\ \A i \in DOMAIN WithoutId(c, id) : WithoutId(c, id)[i] = c[i]
BY DEF WithoutId

(* An end fails, or learns of the other's failure.                           *)
LEMMA FailStep ==
  ASSUME HInv, NEW p \in Ends, Fail(p)
  PROVE  HInv' /\ Incomplete
<1> DEFINE q == Peer(p)
           f == Disabled(end[p])
<1>0. q \in Ends /\ q # p /\ Ends = {p, q} /\ "client" \in Ends /\ "server" \in Ends
      /\ (p = "client" => q = "server") /\ (p = "server" => q = "client")
  BY DEF Ends, Peer
<1>1. /\ DOMAIN end' = Ends /\ end'[p] = f /\ end'[q] = end[q]
      /\ DOMAIN wire' = Ends /\ \A r \in Ends : IsSeq(wire'[r])
      /\ Msgs'[p] = {} /\ Msgs'[q] = Msgs[q] \cup {Alert("fatal")}
      /\ HelloOrder(wire'["server"])
  BY FailFacts DEF HInv, Wires
<1>2. config' = config /\ past' = past /\ count' = count
  BY DEF Fail
<1>3. DOMAIN cache' \subseteq DOMAIN cache /\ \A id \in DOMAIN cache' : cache'[id] = cache[id]
  BY WithoutFacts DEF Fail, DisableSession
<1>4. /\ count' \in [random : Nat, connection : 1 .. MaxConnections,
                     renegotiation : 0 .. MaxRenegotiations, app : 0 .. MaxApp]
      /\ count.random <= count'.random /\ count.random \in Nat
  BY <1>2 DEF HInv, Shape
<1>5. /\ Local(p, f, count.random, past) /\ Moves(p, end[p], f, Msgs[p])
      /\ f.clientRandom = 0 /\ f.done = end[p].done /\ SessionOK(f, count.random, Known)
  BY <1>4, FinishedFacts, DisabledFacts DEF HInv, Locals
<1>6. Alert("fatal").type \in MessageTypes /\ Alert("fatal").type = "ALERT"
  BY DEF Alert, MessageTypes
<1>7. ToClient(Alert("fatal"), count'.random) /\ ToServer(Alert("fatal"), end["server"], count'.random, past, cache')
  BY <1>6 DEF ToClient, ToServer, IsFinished
<1>8. Level(end')
  BY <1>1, <1>5, LevelKept DEF HInv, Both
<1> HIDE DEF f, q
<1>9. \A r \in Ends : \A x \in Msgs'[r] : x \in Msgs[r] \/ (x.type \in MessageTypes /\ ~IsFinished(x))
  BY <1>0, <1>1, <1>6 DEF IsFinished
<1>10. \A x \in Msgs'["client"] : x \in Msgs["client"] \/ ToClient(x, count'.random)
  BY <1>0, <1>1, <1>7
<1>11. \A x \in Msgs'["server"] :
        \/ x \in Msgs["server"] /\ (x.type = "CLIENT_HELLO" => end'["server"].clientRandom < x.random)
        \/ ToServer(x, end'["server"], count'.random, past, cache')
  <2>1. CASE p = "server"
    BY <2>1, <1>1
  <2>2. CASE p = "client"
    <3>1. \A x \in Msgs["server"] : ToServer(x, end["server"], count.random, past, cache)
      BY DEF HInv, Wires
    <3>2. end'["server"] = end["server"]
      BY <2>2, <1>0, <1>1
    <3> QED
      BY <2>2, <3>1, <3>2, <1>0, <1>1, <1>7 DEF ToServer, HelloOK
  <2> QED
    BY <2>1, <2>2 DEF Ends
<1>12. end'[Peer(p)] = end[Peer(p)] /\ count'.random = count.random
  BY <1>1, <1>2 DEF q
<1>13. /\ Local(p, end'[p], count'.random, past) /\ Moves(p, end[p], end'[p], Msgs[p])
       /\ SessionOK(end'[p], count'.random, Known)
  BY <1>1, <1>5, <1>12
<1> QED
  BY <1>1, <1>2, <1>3, <1>4, <1>8, <1>9, <1>10, <1>11, <1>12, <1>13, Ordinary

-----------------------------------------------------------------------------
(* The messages between the hellos and the keys.                             *)

(* Nothing changes but the transcript, the next message and what is known of *)
(* certificates.                                                             *)
Basic(e, f) ==
  /\ IsEnd(f) /\ f.state = e.state
  /\ f.clientRandom = e.clientRandom /\ f.serverRandom = e.serverRandom
  /\ f.isResume = e.isResume /\ f.session = e.session /\ f.ticket = e.ticket /\ f.done = e.done
Alike(e, f) ==
  /\ Basic(e, f)
  /\ f.master = e.master /\ f.verify = e.verify /\ f.read = e.read /\ f.write = e.write
  /\ f.nextRead = e.nextRead /\ f.nextWrite = e.nextWrite /\ f.ccs = e.ccs

(* VERIFY_Append: only the transcript, by one entry.                         *)
LEMMA AppendLike ==
  ASSUME NEW e, IsEnd(e), NEW m
  PROVE  /\ Alike(e, VERIFY_Append(e, m)) /\ VERIFY_Append(e, m).hs = e.hs
         /\ \E x : VERIFY_Append(e, m).transcript = Append(e.transcript, x)
<1>1. Alike(e, VERIFY_Append(e, m)) /\ VERIFY_Append(e, m).hs = e.hs
  BY DEF Alike, Basic, IsEnd, EndFields, VERIFY_Append
<1>2. VERIFY_Append(e, m).transcript
        = Append(e.transcript, <<m.type, IF "random" \in DOMAIN m THEN m.random ELSE 0>>)
  BY DEF IsEnd, EndFields, VERIFY_Append
<1> QED
  BY <1>1, <1>2

(* A new handshake state, and nothing else.                                  *)
LEMMA GoToLike ==
  ASSUME NEW e, IsEnd(e), NEW d, NEW t
  PROVE  /\ Alike(e, GoTo(e, d, t)) /\ GoTo(e, d, t).hs = <<d, t>>
         /\ GoTo(e, d, t).transcript = e.transcript
BY DEF Alike, Basic, IsEnd, EndFields, GoTo

(* Onward(e, f, h): the end has handled one more message, and h comes next.  *)
Onward(e, f, h) ==
  Alike(e, f) /\ f.hs = h /\ \E x : f.transcript = Append(e.transcript, x)

(* A message entered into the transcript, then the next state.               *)
LEMMA OnwardFacts ==
  ASSUME NEW e, IsEnd(e), NEW b, Alike(e, b), b.transcript = e.transcript, NEW m, NEW d, NEW t
  PROVE  /\ Onward(e, GoTo(VERIFY_Append(b, m), d, t), <<d, t>>)
         /\ VERIFY_Append(b, m).hs = b.hs
<1>1. IsEnd(b)
  BY DEF Alike, Basic
<1> DEFINE c == VERIFY_Append(b, m)
<1>2. Alike(b, c) /\ c.hs = b.hs /\ \E x : c.transcript = Append(b.transcript, x)
  BY <1>1, AppendLike
<1>3. IsEnd(c)
  BY <1>2 DEF Alike, Basic
<1> HIDE DEF c
<1>4. Alike(c, GoTo(c, d, t)) /\ GoTo(c, d, t).hs = <<d, t>> /\ GoTo(c, d, t).transcript = c.transcript
  BY <1>3, GoToLike
<1>5. Alike(e, GoTo(c, d, t))
  BY <1>2, <1>4 DEF Alike, Basic
<1>6. \E x : GoTo(c, d, t).transcript = Append(e.transcript, x)
  BY <1>2, <1>4
<1>7. Onward(e, GoTo(c, d, t), <<d, t>>)
  BY <1>4, <1>5, <1>6 DEF Onward
<1> QED
  BY <1>2, <1>7 DEF c

(* The hellos stay at the head of the transcript.                            *)
LEMMA HellosKept ==
  ASSUME NEW e, NEW f, NEW n \in Nat, IsSeq(e.transcript), Hellos(e, n),
         f.clientRandom = e.clientRandom, f.serverRandom = e.serverRandom,
         NEW x, f.transcript = Append(e.transcript, x)
  PROVE  Hellos(f, n) /\ IsSeq(f.transcript)
<1> DEFINE t == e.transcript
<1>1. /\ Len(t) \in Nat /\ IsSeq(Append(t, x)) /\ Len(Append(t, x)) = Len(t) + 1
      /\ \A i \in 1 .. Len(t) : Append(t, x)[i] = t[i]
  BY AppendFacts
<1>2. Len(t) >= 2 /\ 1 \in 1 .. Len(t) /\ 2 \in 1 .. Len(t)
  BY <1>1 DEF Hellos
<1> QED
  BY <1>1, <1>2 DEF Hellos

(* A stage that ends in the same stage, or in the change of keys.            *)
LEMMA OnwardLocal ==
  ASSUME NEW p \in Ends, NEW e, NEW f, NEW n \in Nat, NEW old, Local(p, e, n, old), NEW h, Onward(e, f, h),
         \/ e.hs \in Flight(p) /\ h \in Flight(p)
         \/ /\ h = <<"send", "CHANGE_CIPHER_SPEC">>
            /\ \/ p = "client" /\ e.hs = <<"send", "CERTIFICATE_VERIFY">>
               \/ p = "server" /\ e.hs = <<"send", "NEW_SESSION_TICKET">>
  PROVE  /\ Local(p, f, n, old) /\ \A M : Moves(p, e, f, M)
         /\ f.clientRandom = e.clientRandom /\ f.done = e.done
         /\ f.session = e.session /\ f.ticket = e.ticket
<1>1. /\ Alike(e, f) /\ f.hs = h
  BY DEF Onward
<1> PICK x : f.transcript = Append(e.transcript, x)
  BY DEF Onward
<1>2. Typed(p, e) /\ Older(e, n, old)
  BY DEF Local
<1>3. h \in Flight(p) \cup Keyed(p) /\ (h \in Keyed(p) => h \in Changing)
  BY StageFacts DEF Keyed, Changing
<1>4. e.hs \in Flight(p) \cup Keyed(p) /\ e.hs # <<"idle", "none">> /\ h # <<"idle", "none">>
  <2>1. e.hs \in Flight(p) \cup Keyed(p)
    BY DEF Keyed, Verify, Ticket
  <2>2. <<"idle", "none">> \in Outside(p)
    BY DEF Outside
  <2> QED
    BY <2>1, <2>2, <1>3, StageFacts
<1>5. Hellos(e, n)
  BY <1>4 DEF Local, AtFlight, AtKeyed
<1>6. Hellos(f, n) /\ IsSeq(f.transcript)
  BY <1>1, <1>2, <1>5, HellosKept DEF Alike, Basic, Typed
<1>7. Typed(p, f)
  BY <1>1, <1>2, <1>3, <1>4, <1>6 DEF Typed, Alike, Basic, Stages
<1>8. Older(f, n, old)
  BY <1>1, <1>2 DEF Older, Alike, Basic
<1>9. KeyOf(f) = KeyOf(e)
  BY <1>1 DEF Alike, Basic, KeyOf
<1>10. CASE e.hs \in Flight(p) /\ h \in Flight(p)
  <2>1. AtFlight(f, n)
    BY <1>1, <1>6, <1>10 DEF Local, AtFlight, Alike, Basic
  <2>2. Local(p, f, n, old)
    BY <1>1, <1>7, <1>8, <1>10, <2>1, StageFacts DEF Local
  <2>3. ~Waiting(p, e) /\ ~Closing(p, e) /\ ~Closing(p, f) /\ ~Dead(e)
    BY <1>1, <1>2, <1>4, <1>7, <1>10, PhaseFacts, StageFacts DEF Typed, Dead
  <2>4. \A M : Moves(p, e, f, M)
    BY <1>1, <2>3 DEF Moves, WaitsWith, Match, Alike, Basic
  <2> QED
    BY <1>1, <2>2, <2>4 DEF Alike, Basic
<1>11. CASE p = "client" /\ e.hs = <<"send", "CERTIFICATE_VERIFY">> /\ h = <<"send", "CHANGE_CIPHER_SPEC">>
  <2>1. e.hs \in Verify(p) /\ e.hs \in Keyed(p) /\ h \in Keyed(p) /\ h \notin Verify(p)
    BY <1>11, StageFacts DEF Keyed, Verify, Changing
  <2>2. ~e.isResume /\ Opens(p, e) /\ Opens(p, f)
    BY <1>1, <1>2, <1>11, <2>1 DEF Local, AtKeyed, Opens, Alike, Basic, Typed
  <2>3. ~Waiting(p, e) /\ ~Waiting(p, f) /\ ~Closing(p, e) /\ ~Closing(p, f) /\ ~Dead(e)
    BY <1>1, <1>2, <1>4, <1>11, <2>2 DEF Waiting, Closing, Dead, Typed
  <2>4. AtKeyed(p, f, n)
    <3>1. AtKeyed(p, e, n)
      BY <2>1 DEF Local
    <3>2. Writes(p, f) /\ Reads(p, f)
      BY <1>1, <1>9, <1>11, <2>3, <3>1 DEF AtKeyed, Writes, Reads, Alike, Basic
    <3> QED
      BY <1>1, <1>6, <1>11, <2>1, <2>2, <3>1, <3>2 DEF AtKeyed, Alike, Basic
  <2>5. Local(p, f, n, old)
    BY <1>1, <1>7, <1>8, <2>1, <2>4, StageFacts DEF Local
  <2>6. \A M : Moves(p, e, f, M)
    BY <1>1, <2>3 DEF Moves, WaitsWith, Match, Alike, Basic
  <2> QED
    BY <1>1, <2>5, <2>6 DEF Alike, Basic
<1>12. CASE p = "server" /\ e.hs = <<"send", "NEW_SESSION_TICKET">> /\ h = <<"send", "CHANGE_CIPHER_SPEC">>
  <2>1. e.hs \in Ticket(p) /\ e.hs \in Keyed(p) /\ h \in Keyed(p) /\ h \notin Verify(p)
    BY <1>12, StageFacts DEF Keyed, Verify, Ticket, Changing
  <2>2. Opens(p, f) <=> Opens(p, e)
    BY <1>1 DEF Opens, Alike, Basic
  <2>3. ~Waiting(p, e) /\ ~Waiting(p, f) /\ (Closing(p, f) <=> Closing(p, e)) /\ ~Dead(e)
    BY <1>1, <1>2, <1>4, <1>12, <2>2 DEF Waiting, Closing, Dead, Typed
  <2>4. AtKeyed(p, f, n)
    <3>1. AtKeyed(p, e, n)
      BY <2>1 DEF Local
    <3>2. Writes(p, f) /\ Reads(p, f)
      BY <1>1, <1>9, <1>12, <2>3, <3>1 DEF AtKeyed, Writes, Reads, Alike, Basic
    <3> QED
      BY <1>1, <1>6, <1>12, <2>1, <3>1, <3>2 DEF AtKeyed, Alike, Basic
  <2>5. Local(p, f, n, old)
    BY <1>1, <1>7, <1>8, <2>1, <2>4, StageFacts DEF Local
  <2>6. \A M : Moves(p, e, f, M)
    BY <1>1, <2>3 DEF Moves, WaitsWith, Match, Alike, Basic
  <2> QED
    BY <1>1, <2>5, <2>6 DEF Alike, Basic
<1> QED
  BY <1>10, <1>11, <1>12

(* What every state offers a step.                                           *)
LEMMA Basics ==
  ASSUME HInv, NEW p \in Ends
  PROVE  /\ Local(p, end[p], count.random, past) /\ Typed(p, end[p]) /\ IsEnd(end[p])
         /\ Older(end[p], count.random, past)
         /\ count.random \in Nat /\ count.random <= count.random
         /\ count \in [random : Nat, connection : 1 .. MaxConnections,
                       renegotiation : 0 .. MaxRenegotiations, app : 0 .. MaxApp]
         /\ p = "client" => SessionOK(end[p], count.random, Known)
         /\ Level(end)
         /\ \A x \in Msgs["server"] : ToServer(x, end["server"], count.random, past, cache)
         /\ \A x \in Msgs["client"] : ToClient(x, count.random)
BY DEF HInv, Locals, Local, Typed, Shape, Store, Both, Wires

SameSession(e, f) ==
  f.session = e.session /\ f.ticket = e.ticket /\ f.clientRandom = e.clientRandom

(* An end that keeps its session keeps what is true of it.                   *)
LEMMA SameSessionOK ==
  ASSUME NEW e, NEW f, SameSession(e, f), NEW n, NEW known, SessionOK(e, n, known)
  PROVE  SessionOK(f, n, known)
BY DEF SameSession, SessionOK

(* A message is sent, and the same stage or the change of keys comes next.   *)
LEMMA SendOnward ==
  ASSUME HInv, NEW p \in Ends, NEW m, NEW f, NEW h, Send(p, m, f), Quiet, Onward(end[p], f, h),
         \/ end[p].hs \in Flight(p) /\ h \in Flight(p)
         \/ /\ h = <<"send", "CHANGE_CIPHER_SPEC">>
            /\ \/ p = "client" /\ end[p].hs = <<"send", "CERTIFICATE_VERIFY">>
               \/ p = "server" /\ end[p].hs = <<"send", "NEW_SESSION_TICKET">>,
         m.type \in MessageTypes, m.type \notin {"CLIENT_HELLO", "SERVER_HELLO", "FINISHED"},
         m.type = "NEW_SESSION_TICKET" => p = "server" /\ ProperTicket(m.ticket, count.random) /\ m.ticket # <<>>
  PROVE  HInv' /\ Incomplete
<1>0. /\ Local(p, end[p], count.random, past) /\ count.random \in Nat /\ Level(end)
      /\ p = "client" => SessionOK(end[p], count.random, Known)
      /\ count \in [random : Nat, connection : 1 .. MaxConnections,
                    renegotiation : 0 .. MaxRenegotiations, app : 0 .. MaxApp]
      /\ \A x \in Msgs["server"] : ToServer(x, end["server"], count.random, past, cache)
      /\ count.random <= count.random
  BY Basics
<1>1. /\ Local(p, f, count.random, past) /\ \A M : Moves(p, end[p], f, M)
      /\ f.clientRandom = end[p].clientRandom /\ f.done = end[p].done
      /\ f.session = end[p].session /\ f.ticket = end[p].ticket
  <2> DEFINE e == end[p]
             n == count.random
  <2>1. /\ Local(p, e, n, past) /\ n \in Nat /\ Onward(e, f, h)
        /\ \/ e.hs \in Flight(p) /\ h \in Flight(p)
           \/ /\ h = <<"send", "CHANGE_CIPHER_SPEC">>
              /\ \/ p = "client" /\ e.hs = <<"send", "CERTIFICATE_VERIFY">>
                 \/ p = "server" /\ e.hs = <<"send", "NEW_SESSION_TICKET">>
    BY <1>0
  <2> HIDE DEF e, n
  <2>2. /\ Local(p, f, n, past) /\ \A M : Moves(p, e, f, M)
        /\ f.clientRandom = e.clientRandom /\ f.done = e.done
        /\ f.session = e.session /\ f.ticket = e.ticket
    BY <2>1, OnwardLocal
  <2> QED
    BY <2>2 DEF e, n
<1>2. config' = config /\ past' = past /\ cache' = cache /\ count' = count
  BY DEF Quiet
<1>3. end'[p] = f /\ end'[Peer(p)] = end[Peer(p)]
  BY SendFacts DEF HInv
<1>4. Level(end')
  BY <1>0, <1>1, <1>3, LevelKept
<1>5. /\ p = "server" => ToClient(m, count.random)
      /\ p = "client" => ToServer(m, end["server"], count.random, past, cache)
      /\ ~IsFinished(m)
  BY DEF ToClient, ToServer, IsFinished
<1>6. p = "server" => \A x \in Msgs["server"] : x.type = "CLIENT_HELLO" => f.clientRandom < x.random
  BY <1>0, <1>1 DEF ToServer, HelloOK
<1>7. p = "client" => SessionOK(f, count.random, Known)
  BY <1>0, <1>1, SameSessionOK DEF SameSession
<1> QED
  BY <1>0, <1>1, <1>2, <1>4, <1>5, <1>6, <1>7, SendOrdinary

(* A message is received, and the same stage comes next.                     *)
LEMMA ConsumeOnward ==
  ASSUME HInv, NEW p \in Ends, NEW f, NEW h, Reading(p), Consume(p, f), Quiet, Onward(end[p], f, h),
         end[p].hs \in Flight(p), h \in Flight(p)
  PROVE  HInv' /\ Incomplete
<1>0. /\ Local(p, end[p], count.random, past) /\ count.random \in Nat /\ Level(end)
      /\ p = "client" => SessionOK(end[p], count.random, Known)
      /\ count \in [random : Nat, connection : 1 .. MaxConnections,
                    renegotiation : 0 .. MaxRenegotiations, app : 0 .. MaxApp]
      /\ \A x \in Msgs["server"] : ToServer(x, end["server"], count.random, past, cache)
      /\ count.random <= count.random
  BY Basics
<1>1. /\ Local(p, f, count.random, past) /\ \A M : Moves(p, end[p], f, M)
      /\ f.clientRandom = end[p].clientRandom /\ f.done = end[p].done
      /\ f.session = end[p].session /\ f.ticket = end[p].ticket
  <2> DEFINE e == end[p]
             n == count.random
  <2>1. /\ Local(p, e, n, past) /\ n \in Nat /\ Onward(e, f, h)
        /\ \/ e.hs \in Flight(p) /\ h \in Flight(p)
           \/ /\ h = <<"send", "CHANGE_CIPHER_SPEC">>
              /\ \/ p = "client" /\ e.hs = <<"send", "CERTIFICATE_VERIFY">>
                 \/ p = "server" /\ e.hs = <<"send", "NEW_SESSION_TICKET">>
    BY <1>0
  <2> HIDE DEF e, n
  <2>2. /\ Local(p, f, n, past) /\ \A M : Moves(p, e, f, M)
        /\ f.clientRandom = e.clientRandom /\ f.done = e.done
        /\ f.session = e.session /\ f.ticket = e.ticket
    BY <2>1, OnwardLocal
  <2> QED
    BY <2>2 DEF e, n
<1>2. config' = config /\ past' = past /\ cache' = cache /\ count' = count
  BY DEF Quiet
<1>3. end'[p] = f /\ end'[Peer(p)] = end[Peer(p)] /\ Msgs'[p] \subseteq Msgs[p]
  BY ConsumeFacts DEF HInv
<1>4. Level(end')
  BY <1>0, <1>1, <1>3, LevelKept
<1>5. p = "server" => \A x \in Msgs'["server"] : x.type = "CLIENT_HELLO" => f.clientRandom < x.random
  BY <1>0, <1>1, <1>3 DEF ToServer, HelloOK
<1>6. p = "client" => SessionOK(f, count.random, Known)
  BY <1>0, <1>1, SameSessionOK DEF SameSession
<1> QED
  BY <1>0, <1>1, <1>2, <1>4, <1>5, <1>6, ConsumeOrdinary

(* An end that accepts a message of a handshake waits for it.                *)
LEMMA ReceivedFacts ==
  ASSUME HInv, NEW p \in Ends, NEW type, type \notin {"CLIENT_HELLO", "HELLO_REQUEST"},
         Receives(p, type)
  PROVE  /\ Reading(p) /\ First(p).type = type /\ First(p) \in Msgs[p]
         /\ Got(p) = VERIFY_Append(end[p], First(p))
         /\ type \in MayCome(end[p]) /\ (type = "FINISHED" => end[p].ccs.recv)
         /\ end[p].state \notin {"TRANSPORTING", "ALERTED"}
         /\ \/ end[p].hs = <<"recv", type>>
            \/ /\ type \in {"CERTIFICATE_REQUEST", "SERVER_HELLO_DONE"}
               /\ end[p].hs \in {<<"recv", "SERVER_KEY_EXCHANGE">>, <<"recv", "CERTIFICATE_REQUEST">>}
<1>1. /\ Typed(p, end[p]) /\ wire[p] # <<>> /\ Len(wire[p]) \in Nat \ {0}
      /\ DOMAIN wire[p] = 1 .. Len(wire[p]) /\ Head(wire[p]) = wire[p][1]
  BY Basics, TailFacts DEF HInv, Shape, Receives, Reading
<1>2. First(p) \in Msgs[p]
  BY <1>1 DEF First, Msgs
<1>3. end[p].state # "TRANSPORTING"
  BY DEF Receives, Accepts, RenegotiationAllowed
<1>4. end[p].hs[1] = "recv" /\ Reading(p) /\ First(p).type = type
  BY <1>3 DEF Receives, Reading
<1>5. end[p].state # "ALERTED"
  BY <1>1, <1>4, PairFacts DEF Typed
<1>6. type \in MayCome(end[p]) /\ (type = "FINISHED" => end[p].ccs.recv)
  BY <1>3 DEF Receives, Accepts
<1>7. end[p].hs = <<end[p].hs[1], end[p].hs[2]>>
  BY <1>1, StageFacts DEF Typed
<1>8. \/ type = end[p].hs[2]
      \/ /\ type \in {"CERTIFICATE_REQUEST", "SERVER_HELLO_DONE"}
         /\ end[p].hs[2] \in {"SERVER_KEY_EXCHANGE", "CERTIFICATE_REQUEST"}
  BY <1>6 DEF MayCome
<1>9. Got(p) = VERIFY_Append(end[p], First(p))
  BY <1>3 DEF Got
<1>10. \/ end[p].hs = <<"recv", type>>
       \/ /\ type \in {"CERTIFICATE_REQUEST", "SERVER_HELLO_DONE"}
          /\ end[p].hs \in {<<"recv", "SERVER_KEY_EXCHANGE">>, <<"recv", "CERTIFICATE_REQUEST">>}
  BY <1>4, <1>7, <1>8
<1> QED
  BY <1>2, <1>3, <1>4, <1>5, <1>6, <1>9, <1>10

(* Fields that no stage depends on.                                          *)
LEMMA SideFields ==
  ASSUME NEW e, IsEnd(e), NEW x
  PROVE  /\ Alike(e, e)
         /\ LET f == [e EXCEPT !.peerCert = x] IN
            Alike(e, f) /\ f.transcript = e.transcript /\ f.hs = e.hs
         /\ LET f == [e EXCEPT !.needCert = TRUE] IN
            Alike(e, f) /\ f.transcript = e.transcript /\ f.hs = e.hs
         /\ LET f == [e EXCEPT !.needCert = TRUE, !.certReqSent = TRUE] IN
            Alike(e, f) /\ f.transcript = e.transcript /\ f.hs = e.hs
BY DEF Alike, Basic, IsEnd, EndFields

(* SendPlain and the messages it sends.                                      *)
LEMMA PlainStep ==
  ASSUME HInv, NEW p \in Ends, NEW e, NEW type, NEW next,
         SendPlain(p, type, e, next), Alike(end[p], e), e.transcript = end[p].transcript,
         type \in MessageTypes \ {"CLIENT_HELLO", "SERVER_HELLO", "FINISHED", "NEW_SESSION_TICKET"},
         \/ end[p].hs \in Flight(p) /\ <<"send", next>> \in Flight(p)
         \/ /\ next = "CHANGE_CIPHER_SPEC"
            /\ p = "client" /\ end[p].hs = <<"send", "CERTIFICATE_VERIFY">>
  PROVE  HInv' /\ Incomplete
<1> DEFINE m == [type |-> type]
           f == GoTo(VERIFY_Append(e, m), "send", next)
<1>1. Send(p, m, f) /\ Quiet
  BY DEF SendPlain
<1>2. Onward(end[p], f, <<"send", next>>)
  BY Basics, OnwardFacts
<1>3. m.type = type
  OBVIOUS
<1> HIDE DEF m, f
<1> QED
  BY <1>1, <1>2, <1>3, SendOnward

(* The messages of a full handshake whose content does not matter.           *)
LEMMA SendFlightStep ==
  ASSUME HInv, SendServerKeyExchange \/ SendCertRequest \/ SendCertVerify
  PROVE  HInv' /\ Incomplete
<1>0. "client" \in Ends /\ "server" \in Ends
  BY DEF Ends
<1>4. IsEnd(end["client"]) /\ IsEnd(end["server"])
  BY <1>0, Basics
<1>1. CASE SendServerKeyExchange
  <2> DEFINE next == AfterKeyExchange(end["server"])
  <2>1. next \in {"CERTIFICATE_REQUEST", "SERVER_HELLO_DONE"}
    BY DEF AfterKeyExchange
  <2>2. SendPlain("server", "SERVER_KEY_EXCHANGE", end["server"], next)
    BY <1>1 DEF SendServerKeyExchange
  <2>3. end["server"].hs \in Flight("server")
    BY <2>2 DEF SendPlain, Sends, Flight
  <2> HIDE DEF next
  <2>4. <<"send", next>> \in Flight("server")
    BY <2>1 DEF Flight
  <2> QED
    BY <1>0, <1>4, <2>2, <2>3, <2>4, PlainStep, SideFields DEF MessageTypes, HandshakeTypes
<1>2. CASE SendCertRequest
  <2> DEFINE e == [end["server"] EXCEPT !.needCert = TRUE, !.certReqSent = TRUE]
  <2>1. SendPlain("server", "CERTIFICATE_REQUEST", e, "SERVER_HELLO_DONE")
    BY <1>2 DEF SendCertRequest
  <2>2. Alike(end["server"], e) /\ e.transcript = end["server"].transcript
    BY <1>4, SideFields
  <2> HIDE DEF e
  <2>3. end["server"].hs \in Flight("server") /\ <<"send", "SERVER_HELLO_DONE">> \in Flight("server")
    BY <2>1 DEF SendPlain, Sends, Flight
  <2> QED
    BY <1>0, <2>1, <2>2, <2>3, PlainStep DEF MessageTypes, HandshakeTypes
<1>3. CASE SendCertVerify
  <2>1. SendPlain("client", "CERTIFICATE_VERIFY", end["client"], "CHANGE_CIPHER_SPEC")
    BY <1>3 DEF SendCertVerify
  <2>2. end["client"].hs = <<"send", "CERTIFICATE_VERIFY">>
    BY <2>1 DEF SendPlain, Sends
  <2> QED
    BY <1>0, <1>4, <2>1, <2>2, PlainStep, SideFields DEF MessageTypes, HandshakeTypes
<1> QED
  BY <1>1, <1>2, <1>3

(* A Certificate goes out.                                                   *)
LEMMA SendCertificateStep ==
  ASSUME HInv, NEW p \in Ends, SendCertificate(p)
  PROVE  HInv' /\ Incomplete
<1> DEFINE m == [type |-> "CERTIFICATE", empty |-> p = "client" /\ ~config.clientCert]
           next == IF p = "client" THEN "CLIENT_KEY_EXCHANGE"
                   ELSE IF NeedServerKeyExchange(p) THEN "SERVER_KEY_EXCHANGE" ELSE AfterKeyExchange(end[p])
           f == GoTo(VERIFY_Append(end[p], m), "send", next)
<1>1. Send(p, m, f) /\ Quiet /\ end[p].hs = <<"send", "CERTIFICATE">>
  BY DEF SendCertificate, Sends
<1>2. Onward(end[p], f, <<"send", next>>)
  BY Basics, OnwardFacts, SideFields
<1>3. m.type = "CERTIFICATE"
  OBVIOUS
<1>4. /\ p = "client" => next = "CLIENT_KEY_EXCHANGE"
      /\ p = "server" => next \in {"SERVER_KEY_EXCHANGE", "CERTIFICATE_REQUEST", "SERVER_HELLO_DONE"}
  BY DEF AfterKeyExchange
<1> HIDE DEF m, f, next
<1>5. <<"send", next>> \in Flight(p) /\ end[p].hs \in Flight(p)
  BY <1>1, <1>4 DEF Ends, Flight
<1>6. m.type \in MessageTypes
  BY <1>3 DEF MessageTypes, HandshakeTypes
<1> QED
  BY <1>1, <1>2, <1>3, <1>5, <1>6, SendOnward

(* A ServerHelloDone goes out: the server waits for the client.              *)
LEMMA SendServerHelloDoneStep ==
  ASSUME HInv, SendServerHelloDone
  PROVE  HInv' /\ Incomplete
<1> DEFINE e == end["server"]
           m == [type |-> "SERVER_HELLO_DONE"]
           next == IF e.needCert THEN "CERTIFICATE" ELSE "CLIENT_KEY_EXCHANGE"
           f == GoTo(VERIFY_Append(e, m), "recv", next)
<1>0. "server" \in Ends
  BY DEF Ends
<1>1. Send("server", m, f) /\ Quiet /\ e.hs = <<"send", "SERVER_HELLO_DONE">>
  BY DEF SendServerHelloDone, Sends
<1>2. Onward(e, f, <<"recv", next>>)
  BY <1>0, Basics, OnwardFacts, SideFields
<1>3. m.type = "SERVER_HELLO_DONE" /\ next \in {"CERTIFICATE", "CLIENT_KEY_EXCHANGE"}
  OBVIOUS
<1> HIDE DEF m, f, next
<1>4. <<"recv", next>> \in Flight("server") /\ e.hs \in Flight("server")
  BY <1>1, <1>3 DEF Flight
<1>5. m.type \in MessageTypes
  BY <1>3 DEF MessageTypes, HandshakeTypes
<1> QED
  BY <1>0, <1>1, <1>2, <1>3, <1>4, <1>5, SendOnward

(* The client reads the flight of the server.                                *)
LEMMA RecvFlightStep ==
  ASSUME HInv, RecvServerKeyExchange \/ RecvCertRequest \/ RecvServerHelloDone
  PROVE  HInv' /\ Incomplete
<1> DEFINE e == end["client"]
           m == First("client")
<1>0. "client" \in Ends
  BY DEF Ends
<1>4. IsEnd(e)
  BY <1>0, Basics
<1> HIDE DEF e
<1>1. CASE RecvServerKeyExchange
  <2> DEFINE f == GoTo(VERIFY_Append(e, m), "recv", "CERTIFICATE_REQUEST")
  <2>1. Receives("client", "SERVER_KEY_EXCHANGE") /\ Consume("client", GoTo(Got("client"), "recv", "CERTIFICATE_REQUEST")) /\ Quiet
    BY <1>1 DEF RecvServerKeyExchange
  <2>2. Reading("client") /\ Got("client") = VERIFY_Append(e, m) /\ e.hs = <<"recv", "SERVER_KEY_EXCHANGE">>
    BY <1>0, <2>1, ReceivedFacts DEF e
  <2>3. Onward(e, f, <<"recv", "CERTIFICATE_REQUEST">>)
    BY <1>4, OnwardFacts, SideFields
  <2>4. e.hs \in Flight("client") /\ <<"recv", "CERTIFICATE_REQUEST">> \in Flight("client")
    BY <2>2 DEF Flight
  <2> QED
    BY <1>0, <2>1, <2>2, <2>3, <2>4, ConsumeOnward DEF e
<1>2. CASE RecvCertRequest
  <2> DEFINE g == [VERIFY_Append(e, m) EXCEPT !.needCert = TRUE]
             f == GoTo(g, "recv", "SERVER_HELLO_DONE")
  <2>1. /\ Receives("client", "CERTIFICATE_REQUEST") /\ Quiet
        /\ Consume("client", GoTo([Got("client") EXCEPT !.needCert = TRUE], "recv", "SERVER_HELLO_DONE"))
    BY <1>2 DEF RecvCertRequest
  <2>2. /\ Reading("client") /\ Got("client") = VERIFY_Append(e, m)
        /\ e.hs \in {<<"recv", "SERVER_KEY_EXCHANGE">>, <<"recv", "CERTIFICATE_REQUEST">>}
    BY <1>0, <2>1, ReceivedFacts DEF e
  <2>3. Alike(e, VERIFY_Append(e, m)) /\ \E x : VERIFY_Append(e, m).transcript = Append(e.transcript, x)
    BY <1>4, AppendLike
  <2>4. Alike(VERIFY_Append(e, m), g) /\ g.transcript = VERIFY_Append(e, m).transcript
    <3>1. IsEnd(VERIFY_Append(e, m))
      BY <2>3 DEF Alike, Basic
    <3> QED
      BY <3>1, SideFields
  <2>5. Alike(g, f) /\ f.hs = <<"recv", "SERVER_HELLO_DONE">> /\ f.transcript = g.transcript
    <3> HIDE DEF g
    <3>1. IsEnd(g)
      BY <2>4 DEF Alike, Basic
    <3> QED
      BY <3>1, GoToLike
  <2>6. Onward(e, f, <<"recv", "SERVER_HELLO_DONE">>)
    <3> HIDE DEF m, g, f
    <3>1. Alike(e, f)
      BY <2>3, <2>4, <2>5 DEF Alike, Basic
    <3> QED
      BY <3>1, <2>3, <2>4, <2>5 DEF Onward
  <2>7. e.hs \in Flight("client") /\ <<"recv", "SERVER_HELLO_DONE">> \in Flight("client")
    BY <2>2 DEF Flight
  <2>8. Consume("client", f)
    BY <2>1, <2>2
  <2> HIDE DEF f, g
  <2> QED
    BY <1>0, <2>1, <2>2, <2>6, <2>7, <2>8, ConsumeOnward DEF e
<1>3. CASE RecvServerHelloDone
  <2> DEFINE next == IF e.needCert THEN "CERTIFICATE" ELSE "CLIENT_KEY_EXCHANGE"
             f == GoTo(VERIFY_Append(e, m), "send", next)
  <2>1. /\ Receives("client", "SERVER_HELLO_DONE") /\ Quiet
        /\ Consume("client", GoTo(Got("client"), "send", next))
    BY <1>3 DEF RecvServerHelloDone, e
  <2>2. /\ Reading("client") /\ Got("client") = VERIFY_Append(e, m)
        /\ e.hs \in {<<"recv", "SERVER_KEY_EXCHANGE">>, <<"recv", "CERTIFICATE_REQUEST">>, <<"recv", "SERVER_HELLO_DONE">>}
    BY <1>0, <2>1, ReceivedFacts DEF e
  <2>3. Onward(e, f, <<"send", next>>)
    BY <1>4, OnwardFacts, SideFields
  <2>4. next \in {"CERTIFICATE", "CLIENT_KEY_EXCHANGE"}
    OBVIOUS
  <2>5. Consume("client", f)
    BY <2>1, <2>2
  <2> HIDE DEF next, f
  <2>6. e.hs \in Flight("client") /\ <<"send", next>> \in Flight("client")
    BY <2>2, <2>4 DEF Flight
  <2> QED
    BY <1>0, <2>1, <2>2, <2>3, <2>5, <2>6, ConsumeOnward DEF e
<1> QED
  BY <1>1, <1>2, <1>3

(* A Certificate comes in.                                                   *)
LEMMA RecvCertificateStep ==
  ASSUME HInv, NEW p \in Ends, RecvCertificate(p)
  PROVE  HInv' /\ Incomplete
<1> DEFINE m == First(p)
           g == VERIFY_Append(end[p], m)
           c == [g EXCEPT !.peerCert = ~m.empty]
           next == IF p = "server" THEN "CLIENT_KEY_EXCHANGE"
                   ELSE IF NeedServerKeyExchange(p) THEN "SERVER_KEY_EXCHANGE" ELSE "CERTIFICATE_REQUEST"
           f == GoTo(c, "recv", next)
<1>1. Receives(p, "CERTIFICATE")
  BY DEF RecvCertificate
<1>2. Reading(p) /\ Got(p) = g /\ end[p].hs = <<"recv", "CERTIFICATE">>
  BY <1>1, ReceivedFacts
<1>3. CASE Fail(p)
  BY <1>3, FailStep
<1>4. CASE ~Fail(p)
  <2>1. Consume(p, f) /\ Quiet
    BY <1>2, <1>4 DEF RecvCertificate
  <2>2. Alike(end[p], g) /\ \E x : g.transcript = Append(end[p].transcript, x)
    BY Basics, AppendLike
  <2>3. Alike(g, c) /\ c.transcript = g.transcript
    <3> HIDE DEF g
    <3>1. IsEnd(g)
      BY <2>2 DEF Alike, Basic
    <3> QED
      BY <3>1, SideFields
  <2>4. Alike(c, f) /\ f.hs = <<"recv", next>> /\ f.transcript = c.transcript
    <3> HIDE DEF c, next
    <3>1. IsEnd(c)
      BY <2>3 DEF Alike, Basic
    <3> QED
      BY <3>1, GoToLike
  <2>5. /\ p = "server" => next = "CLIENT_KEY_EXCHANGE"
        /\ p = "client" => next \in {"SERVER_KEY_EXCHANGE", "CERTIFICATE_REQUEST"}
    OBVIOUS
  <2> HIDE DEF m, g, c, f, next
  <2>6. Onward(end[p], f, <<"recv", next>>)
    <3>1. Alike(end[p], f)
      BY <2>2, <2>3, <2>4 DEF Alike, Basic
    <3> QED
      BY <3>1, <2>2, <2>3, <2>4 DEF Onward
  <2>7. end[p].hs \in Flight(p) /\ <<"recv", next>> \in Flight(p)
    BY <1>2, <2>5 DEF Ends, Flight
  <2> QED
    BY <1>2, <2>1, <2>6, <2>7, ConsumeOnward
<1> QED
  BY <1>3, <1>4

-----------------------------------------------------------------------------
(* The operators on an end.                                                  *)

Holds(e, f) == f.hs = e.hs /\ f.transcript = e.transcript

(* HS_GenerateMasterSecret: only the master secret.                          *)
LEMMA MasterFields ==
  ASSUME NEW e, IsEnd(e), NEW x
  PROVE  LET f == HS_GenerateMasterSecret(e, x) IN
         /\ Basic(e, f) /\ Holds(e, f) /\ f.master = [premaster |-> x, hash |-> e.transcript]
         /\ f.verify = e.verify /\ f.read = e.read /\ f.write = e.write /\ f.ccs = e.ccs
BY DEF Basic, Holds, IsEnd, EndFields, HS_GenerateMasterSecret

(* HS_KeyEstablish: the next keys are those of the handshake.                *)
LEMMA KeyFields ==
  ASSUME NEW e, IsEnd(e)
  PROVE  LET f == HS_KeyEstablish(e) IN
         /\ Basic(e, f) /\ Holds(e, f) /\ f.master = e.master /\ KeyOf(f) = KeyOf(e)
         /\ f.nextRead = <<KeyOf(e)>> /\ f.nextWrite = <<KeyOf(e)>>
         /\ f.verify = e.verify /\ f.read = e.read /\ f.write = e.write /\ f.ccs = e.ccs
BY DEF Basic, Holds, IsEnd, EndFields, HS_KeyEstablish, KeyOf

(* HS_ResumeKeyEstablish: they come from the session.                        *)
LEMMA ResumeKeyFields ==
  ASSUME NEW e, IsEnd(e)
  PROVE  LET f == HS_ResumeKeyEstablish(e) IN
         /\ Basic(e, f) /\ Holds(e, f) /\ f.master = e.session.master
         /\ f.nextRead = <<KeyOf(f)>> /\ f.nextWrite = <<KeyOf(f)>>
         /\ f.verify = e.verify /\ f.read = e.read /\ f.write = e.write /\ f.ccs = e.ccs
<1> DEFINE g == [e EXCEPT !.master = e.session.master]
<1>1. /\ Basic(e, g) /\ Holds(e, g) /\ g.master = e.session.master
      /\ g.verify = e.verify /\ g.read = e.read /\ g.write = e.write /\ g.ccs = e.ccs
  BY DEF Basic, Holds, IsEnd, EndFields
<1>2. HS_ResumeKeyEstablish(e) = HS_KeyEstablish(g)
  BY DEF HS_ResumeKeyEstablish
<1> HIDE DEF g
<1>3. IsEnd(g)
  BY <1>1 DEF Basic
<1> DEFINE f == HS_KeyEstablish(g)
<1>4. /\ Basic(g, f) /\ Holds(g, f) /\ f.master = g.master /\ KeyOf(f) = KeyOf(g)
      /\ f.nextRead = <<KeyOf(g)>> /\ f.nextWrite = <<KeyOf(g)>>
      /\ f.verify = g.verify /\ f.read = g.read /\ f.write = g.write /\ f.ccs = g.ccs
  BY <1>3, KeyFields
<1> HIDE DEF f
<1>5. Basic(e, f) /\ Holds(e, f)
  BY <1>1, <1>4 DEF Basic, Holds
<1>6. /\ f.master = e.session.master /\ f.nextRead = <<KeyOf(f)>> /\ f.nextWrite = <<KeyOf(f)>>
      /\ f.verify = e.verify /\ f.read = e.read /\ f.write = e.write /\ f.ccs = e.ccs
  BY <1>1, <1>4
<1> QED
  BY <1>2, <1>5, <1>6 DEF f

(* VERIFY_CalcVerifyData: the label, the secret and the transcript.          *)
LEMMA VerifyFields ==
  ASSUME NEW e, IsEnd(e), NEW label
  PROVE  LET f == VERIFY_CalcVerifyData(e, label) IN
         /\ Basic(e, f) /\ Holds(e, f) /\ f.verify = <<label, e.master, e.transcript>>
         /\ f.master = e.master /\ f.read = e.read /\ f.write = e.write
         /\ f.nextRead = e.nextRead /\ f.nextWrite = e.nextWrite /\ f.ccs = e.ccs
BY DEF Basic, Holds, IsEnd, EndFields, VERIFY_CalcVerifyData

(* CcsExitReady, and the switch to the next keys.                            *)
LEMMA CcsFields ==
  ASSUME NEW e, IsEnd(e)
  PROVE  /\ LET f == CcsExitReady(e) IN
            /\ Basic(e, f) /\ Holds(e, f) /\ f.ccs = CcsReset /\ f.verify = e.verify
            /\ f.master = e.master /\ f.read = e.read /\ f.write = e.write
            /\ f.nextRead = e.nextRead /\ f.nextWrite = e.nextWrite
         /\ LET f == ActivateWrite(e) IN
            /\ Basic(e, f) /\ Holds(e, f) /\ f.write = Head(e.nextWrite) /\ f.nextWrite = <<>>
            /\ f.master = e.master /\ f.verify = e.verify /\ f.read = e.read
            /\ f.nextRead = e.nextRead /\ f.ccs = e.ccs
         /\ LET f == ActivateRead(e) IN
            /\ Basic(e, f) /\ Holds(e, f) /\ f.read = Head(e.nextRead) /\ f.nextRead = <<>>
            /\ f.master = e.master /\ f.verify = e.verify /\ f.write = e.write
            /\ f.nextWrite = e.nextWrite /\ f.ccs = e.ccs
<1>1. LET f == CcsExitReady(e) IN
            /\ Basic(e, f) /\ Holds(e, f) /\ f.ccs = CcsReset /\ f.verify = e.verify
            /\ f.master = e.master /\ f.read = e.read /\ f.write = e.write
            /\ f.nextRead = e.nextRead /\ f.nextWrite = e.nextWrite
  BY DEF Basic, Holds, IsEnd, EndFields, CcsExitReady
<1>2. LET f == ActivateWrite(e) IN
            /\ Basic(e, f) /\ Holds(e, f) /\ f.write = Head(e.nextWrite) /\ f.nextWrite = <<>>
            /\ f.master = e.master /\ f.verify = e.verify /\ f.read = e.read
            /\ f.nextRead = e.nextRead /\ f.ccs = e.ccs
  BY DEF Basic, Holds, IsEnd, EndFields, ActivateWrite
<1>3. LET f == ActivateRead(e) IN
            /\ Basic(e, f) /\ Holds(e, f) /\ f.read = Head(e.nextRead) /\ f.nextRead = <<>>
            /\ f.master = e.master /\ f.verify = e.verify /\ f.write = e.write
            /\ f.nextWrite = e.nextWrite /\ f.ccs = e.ccs
  BY DEF Basic, Holds, IsEnd, EndFields, ActivateRead
<1> QED
  BY <1>1, <1>2, <1>3

(* The flags start reset, so that the keys stay until the message comes.     *)
LEMMA AwaitFields ==
  ASSUME NEW e, IsEnd(e), e.ccs = CcsReset, NEW label
  PROVE  LET f == AwaitFinished(e, label) IN
         /\ Basic(e, f) /\ f.hs = <<"recv", "FINISHED">> /\ f.transcript = e.transcript
         /\ f.verify = <<label, e.master, e.transcript>> /\ f.ccs = CcsAwaited
         /\ f.master = e.master /\ f.read = e.read /\ f.write = e.write
         /\ f.nextRead = e.nextRead /\ f.nextWrite = e.nextWrite
<1> DEFINE c == VERIFY_CalcVerifyData(e, label)
<1>1. /\ Basic(e, c) /\ Holds(e, c) /\ c.verify = <<label, e.master, e.transcript>>
      /\ c.master = e.master /\ c.read = e.read /\ c.write = e.write
      /\ c.nextRead = e.nextRead /\ c.nextWrite = e.nextWrite /\ c.ccs = CcsReset
  BY VerifyFields
<1>2. AwaitFinished(e, label) = [AwaitCcs(c) EXCEPT !.hs = <<"recv", "FINISHED">>]
  BY DEF AwaitFinished
<1> HIDE DEF c
<1>3. IsEnd(c)
  BY <1>1 DEF Basic
<1> DEFINE r == [c EXCEPT !.ccs.ready = TRUE, !.ccs.allow = TRUE]
<1>4. r.ccs = [c.ccs EXCEPT !.ready = TRUE, !.allow = TRUE]
  BY <1>3 DEF IsEnd, EndFields
<1>5. r.ccs = CcsAwaited
  BY <1>1, <1>4 DEF CcsAwaited
<1>6. /\ Basic(c, r) /\ Holds(c, r) /\ r.verify = c.verify /\ r.master = c.master
      /\ r.read = c.read /\ r.write = c.write /\ r.nextRead = c.nextRead /\ r.nextWrite = c.nextWrite
  BY <1>3 DEF Basic, Holds, IsEnd, EndFields
<1>7. AwaitCcs(c) = r
  <2>1. ~c.ccs.recv
    <3>1. ~CcsReset.recv
      BY DEF CcsReset
    <3> QED
      BY <3>1, <1>1
  <2> QED
    BY <2>1 DEF AwaitCcs
<1> HIDE DEF r
<1>8. IsEnd(r)
  BY <1>6 DEF Basic
<1> DEFINE f == [r EXCEPT !.hs = <<"recv", "FINISHED">>]
<1>9. /\ Basic(r, f) /\ f.hs = <<"recv", "FINISHED">> /\ f.transcript = r.transcript
      /\ f.verify = r.verify /\ f.master = r.master /\ f.ccs = r.ccs
      /\ f.read = r.read /\ f.write = r.write /\ f.nextRead = r.nextRead /\ f.nextWrite = r.nextWrite
  BY <1>8 DEF Basic, IsEnd, EndFields
<1> HIDE DEF f
<1>10. Basic(e, f) /\ f.transcript = e.transcript
  BY <1>1, <1>6, <1>9 DEF Basic, Holds
<1>11. /\ f.verify = <<label, e.master, e.transcript>> /\ f.ccs = CcsAwaited
       /\ f.master = e.master /\ f.read = e.read /\ f.write = e.write
       /\ f.nextRead = e.nextRead /\ f.nextWrite = e.nextWrite
  BY <1>1, <1>5, <1>6, <1>9
<1> QED
  BY <1>2, <1>7, <1>9, <1>10, <1>11 DEF f

(* No handshake is in progress any more, or not yet.                         *)
Rests(e, f) ==
  /\ IsEnd(f) /\ f.clientRandom = 0 /\ f.serverRandom = 0 /\ f.transcript = <<>> /\ f.ticket = <<>>
  /\ f.ccs = e.ccs /\ f.isResume = e.isResume /\ f.session = e.session /\ f.done = e.done
  /\ f.nextRead = e.nextRead /\ f.nextWrite = e.nextWrite /\ f.read = e.read /\ f.write = e.write

(* HS_Init leaves an end at rest.                                            *)
LEMMA InitFields ==
  ASSUME NEW e, IsEnd(e)
  PROVE  Rests(e, HS_Init(e)) /\ HS_Init(e).hs = e.hs /\ HS_Init(e).state = e.state
BY DEF Rests, IsEnd, EndFields, HS_Init

(* And so does Connected, in TRANSPORTING.                                   *)
LEMMA ConnectedFields ==
  ASSUME NEW e, IsEnd(e)
  PROVE  /\ Rests(e, Connected(e)) /\ Connected(e).hs = <<"idle", "none">>
         /\ Connected(e).state = "TRANSPORTING"
<1> DEFINE i == HS_Init(e)
<1>1. Rests(e, i)
  BY InitFields
<1> HIDE DEF i
<1>2. IsEnd(i)
  BY <1>1 DEF Rests
<1> DEFINE f == [i EXCEPT !.state = "TRANSPORTING", !.hs = <<"idle", "none">>]
           g == [f EXCEPT !.isRenegotiation = FALSE, !.userRenego = FALSE]
<1>3. Rests(i, f) /\ f.hs = <<"idle", "none">> /\ f.state = "TRANSPORTING"
  BY <1>1, <1>2 DEF Rests, IsEnd, EndFields
<1>4. Connected(e) = f \/ Connected(e) = g
  BY DEF Connected, i
<1> HIDE DEF f
<1>5. Rests(e, f) /\ IsEnd(f)
  BY <1>1, <1>3 DEF Rests
<1>6. Rests(f, g) /\ g.hs = f.hs /\ g.state = f.state
  BY <1>5 DEF Rests, IsEnd, EndFields
<1> HIDE DEF g
<1>7. Rests(e, g)
  BY <1>5, <1>6 DEF Rests
<1> QED
  BY <1>3, <1>4, <1>5, <1>6, <1>7

(* Going from one state at rest to another.                                  *)
LEMMA RestLocal ==
  ASSUME NEW p \in Ends, NEW e, NEW f, NEW n \in Nat, NEW old, Local(p, e, n, old),
         Rests(e, f), e.hs \in Outside(p), ~Dead(e), f.hs \in Outside(p),
         f.state \in {"HANDSHAKING", "RENEGOTIATION", "TRANSPORTING"},
         f.hs = <<"idle", "none">> <=> f.state = "TRANSPORTING"
  PROVE  Local(p, f, n, old) /\ \A M : Moves(p, e, f, M)
<1>1. AtRest(e) /\ Typed(p, e) /\ Older(e, n, old)
  BY DEF Local
<1>2. AtRest(f)
  BY <1>1 DEF AtRest, Rests
<1>3. Typed(p, f)
  BY <1>1, EmptySeq DEF Typed, Rests, Stages
<1>4. Older(f, n, old)
  BY <1>1 DEF Older, Rests
<1>5. Local(p, f, n, old)
  BY <1>2, <1>3, <1>4, StageFacts DEF Local
<1>6. ~Waiting(p, e) /\ ~Closing(p, e) /\ ~Closing(p, f)
  BY <1>1, <1>3, PhaseFacts, StageFacts DEF Typed
<1>7. f.clientRandom = e.clientRandom /\ f.serverRandom = e.serverRandom
  BY <1>1, <1>2 DEF AtRest
<1>8. \A M : Moves(p, e, f, M)
  BY <1>6, <1>7 DEF Moves, WaitsWith, Match, Rests
<1> QED
  BY <1>5, <1>8

-----------------------------------------------------------------------------
(* The hellos.                                                               *)

(* How large the numbers are that a state holds.                             *)
LEMMA Bounds ==
  ASSUME HInv
  PROVE  /\ \A p \in Ends : end[p].clientRandom \in 0 .. count.random
         /\ \A m \in Known : Proper(m, count.random)
         /\ \A m \in past : Proper(m, count.random)
         /\ \A id \in DOMAIN cache : Proper(cache[id].master, count.random)
<1>1. \A p \in Ends : end[p].clientRandom \in 0 .. count.random
  <2> SUFFICES ASSUME NEW p \in Ends PROVE end[p].clientRandom \in 0 .. count.random
    OBVIOUS
  <2>1. Local(p, end[p], count.random, past) /\ count.random \in Nat
    BY Basics
  <2> QED
    BY <2>1 DEF Local, Typed, Stages, AtRest, AtGreeting, AtFlight, AtKeyed, Hellos
<1>2. \A m \in past : Proper(m, count.random)
  BY DEF HInv, Store
<1>3. \A m \in Known : Proper(m, count.random)
  <2>1. Older(end["client"], count.random, past)
    BY Basics DEF Ends
  <2> QED
    BY <1>2, <2>1 DEF Known, Older
<1> QED
  BY <1>1, <1>2, <1>3 DEF HInv, Store

(* A HelloRequest goes out: the server is idle again.                        *)
LEMMA SendHelloRequestStep ==
  ASSUME HInv, SendHelloRequest
  PROVE  HInv' /\ Incomplete
<1> DEFINE e == end["server"]
           n == count.random
           m == [type |-> "HELLO_REQUEST"]
           g == [e EXCEPT !.isRenegotiation = FALSE]
           f == Connected(g)
<1>0. "server" \in Ends
  BY DEF Ends
<1>1. Send("server", m, f) /\ Quiet /\ e.hs = <<"send", "HELLO_REQUEST">>
  BY DEF SendHelloRequest, Sends
<1>2. /\ Local("server", e, n, past) /\ Typed("server", e) /\ IsEnd(e) /\ n \in Nat /\ Level(end) /\ n <= n
      /\ count \in [random : Nat, connection : 1 .. MaxConnections,
                    renegotiation : 0 .. MaxRenegotiations, app : 0 .. MaxApp]
      /\ \A x \in Msgs["server"] : ToServer(x, e, n, past, cache)
  BY <1>0, Basics
<1>3. Rests(e, f) /\ f.hs = <<"idle", "none">> /\ f.state = "TRANSPORTING"
  <2> HIDE DEF e
  <2>1. IsEnd(g)
    BY <1>2 DEF IsEnd
  <2>2. /\ g.ccs = e.ccs /\ g.isResume = e.isResume /\ g.session = e.session /\ g.done = e.done
        /\ g.nextRead = e.nextRead /\ g.nextWrite = e.nextWrite /\ g.read = e.read /\ g.write = e.write
    BY <1>2 DEF IsEnd, EndFields
  <2> HIDE DEF g
  <2>3. Rests(g, f) /\ f.hs = <<"idle", "none">> /\ f.state = "TRANSPORTING"
    BY <2>1, ConnectedFields
  <2> HIDE DEF f
  <2> QED
    BY <2>2, <2>3 DEF Rests
<1>4. e.hs \in Outside("server") /\ f.hs \in Outside("server") /\ ~Dead(e)
  <2> HIDE DEF e, f
  <2>1. e.hs \in Outside("server") /\ f.hs \in Outside("server")
    BY <1>1, <1>3 DEF Outside
  <2>2. e.hs # <<"idle", "none">>
    BY <1>1, PairFacts
  <2> QED
    BY <1>2, <2>1, <2>2 DEF Typed, Dead
<1>5. Local("server", f, n, past) /\ \A M : Moves("server", e, f, M)
  <2> HIDE DEF e, f, n
  <2> QED
    BY <1>0, <1>2, <1>3, <1>4, RestLocal
<1>6. m.type = "HELLO_REQUEST" /\ m.type \in MessageTypes
  BY DEF MessageTypes, HandshakeTypes
<1>7. f.clientRandom = 0 /\ f.done = e.done
  BY <1>3 DEF Rests
<1>8. \A x \in Msgs["server"] : x.type = "CLIENT_HELLO" => f.clientRandom < x.random
  BY <1>2, <1>7 DEF ToServer, HelloOK
<1> HIDE DEF m, f
<1>9. end'["server"] = f /\ end'[Peer("server")] = end[Peer("server")]
  BY <1>0, <1>1, SendFacts DEF HInv
<1>10. Level(end')
  BY <1>0, <1>2, <1>7, <1>9, LevelKept
<1>11. ToClient(m, n) /\ ~IsFinished(m)
  BY <1>6 DEF ToClient, IsFinished
<1>12. config' = config /\ past' = past /\ cache' = cache /\ count' = count
  BY <1>1 DEF Quiet
<1> QED
  BY <1>0, <1>1, <1>2, <1>5, <1>6, <1>8, <1>10, <1>11, <1>12, SendOrdinary

(* A new ClientHello is newer than everything.                               *)
LEMMA SendClientHelloStep ==
  ASSUME HInv, SendClientHello
  PROVE  HInv' /\ Incomplete
<1> DEFINE e == end["client"]
           n == count.random
           k == n + 1
<1>0. "client" \in Ends /\ "server" \in Ends
  BY DEF Ends
<1>1. /\ Local("client", e, n, past) /\ Typed("client", e) /\ IsEnd(e) /\ n \in Nat /\ Level(end)
      /\ SessionOK(e, n, Known) /\ Older(e, n, past)
      /\ count \in [random : Nat, connection : 1 .. MaxConnections,
                    renegotiation : 0 .. MaxRenegotiations, app : 0 .. MaxApp]
      /\ Local("server", end["server"], n, past)
      /\ \A x \in Msgs["client"] : ToClient(x, n)
  BY <1>0, Basics
<1>2. /\ e.hs = <<"send", "CLIENT_HELLO">> /\ config' = config /\ past' = past /\ cache' = cache
      /\ count' = [count EXCEPT !.random = @ + 1]
  BY DEF SendClientHello, Sends, NextRandom
<1> PICK s \in ClientPrepareSession(e) :
       LET b == [e EXCEPT !.session = s, !.id = s.id, !.transcript = <<>>,
                          !.clientRandom = n + 1]
           m == [type |-> "CLIENT_HELLO", random |-> b.clientRandom, id |-> s.id,
                 hasTicket |-> config.ticketC,
                 ticket |-> IF config.ticketC THEN s.ticket ELSE <<>>,
                 renegoInfo |-> ClientRenegoInfo(b)]
       IN Send("client", m, GoTo(VERIFY_Append(b, m), "recv", "SERVER_HELLO"))
  BY DEF SendClientHello
<1> DEFINE b == [e EXCEPT !.session = s, !.id = s.id, !.transcript = <<>>, !.clientRandom = n + 1]
           m == [type |-> "CLIENT_HELLO", random |-> b.clientRandom, id |-> s.id,
                 hasTicket |-> config.ticketC,
                 ticket |-> IF config.ticketC THEN s.ticket ELSE <<>>,
                 renegoInfo |-> ClientRenegoInfo(b)]
           v == VERIFY_Append(b, m)
           f == GoTo(v, "recv", "SERVER_HELLO")
<1>3. Send("client", m, f)
  OBVIOUS
<1>4. /\ count' \in [random : Nat, connection : 1 .. MaxConnections,
                     renegotiation : 0 .. MaxRenegotiations, app : 0 .. MaxApp]
      /\ count'.random = k /\ n <= k /\ k \in Nat /\ n < k
  BY <1>1, <1>2
<1> HIDE DEF e, n
<1>5. s = e.session \/ s = NoSession
  BY DEF ClientPrepareSession
<1>6. AtRest(e) /\ ~Dead(e) /\ e.hs \in Outside("client")
  BY <1>1, <1>2 DEF Local, Outside, Typed, Dead
<1>7. /\ IsEnd(b) /\ b.session = s /\ b.transcript = <<>> /\ b.clientRandom = k
      /\ b.state = e.state /\ b.serverRandom = 0 /\ b.isResume = e.isResume /\ b.ticket = e.ticket
      /\ b.done = e.done /\ b.nextRead = e.nextRead /\ b.nextWrite = e.nextWrite /\ b.ccs = CcsReset
  BY <1>1, <1>6 DEF IsEnd, EndFields, AtRest
<1> HIDE DEF b
<1>8. /\ m.type = "CLIENT_HELLO" /\ m.random = k /\ "random" \in DOMAIN m
      /\ m.ticket = s.ticket \/ m.ticket = <<>>
  BY <1>7
<1> HIDE DEF m
<1>9. v.transcript = Append(<<>>, <<"CLIENT_HELLO", k>>)
  BY <1>7, <1>8 DEF VERIFY_Append, IsEnd, EndFields
<1>10. Alike(b, v)
  BY <1>7, AppendLike
<1> HIDE DEF v
<1>11. Alike(v, f) /\ f.hs = <<"recv", "SERVER_HELLO">> /\ f.transcript = v.transcript
  BY <1>10, GoToLike DEF Alike, Basic
<1> HIDE DEF f
<1>12. /\ IsEnd(f) /\ f.session = s /\ f.clientRandom = k /\ f.serverRandom = 0
       /\ f.state = e.state /\ f.isResume = e.isResume /\ f.ticket = e.ticket
       /\ f.done = e.done /\ f.nextRead = e.nextRead /\ f.nextWrite = e.nextWrite /\ f.ccs = CcsReset
  BY <1>7, <1>10, <1>11 DEF Alike, Basic
<1>13. f.transcript = <<<<"CLIENT_HELLO", k>>>> /\ IsSeq(f.transcript)
  <2>3. IsSeq(Append(<<>>, <<"CLIENT_HELLO", k>>))
    BY EmptySeq, AppendFacts
  <2>1. IsSeq(f.transcript)
    BY <1>9, <1>11, <2>3
  <2>2. Append(<<>>, <<"CLIENT_HELLO", k>>) = <<<<"CLIENT_HELLO", k>>>>
    OBVIOUS
  <2> QED
    BY <1>9, <1>11, <2>1, <2>2
<1>14. Typed("client", f)
  BY <1>1, <1>2, <1>11, <1>12, <1>13 DEF Typed, Stages, Greeting
<1>15. Older(f, k, past)
  BY <1>1, <1>4, <1>12, Bounds DEF Older, Proper, n
<1>16. Local("client", f, k, past)
  <2>1. f.hs \in Greeting("client")
    BY <1>11 DEF Greeting
  <2>2. AtGreeting("client", f, k)
    BY <1>1, <1>4, <1>12, <1>13 DEF AtGreeting
  <2> QED
    BY <1>0, <1>14, <1>15, <2>1, <2>2, StageFacts DEF Local
<1>17. Moves("client", e, f, Msgs["client"])
  <2>1. ~Waiting("client", e) /\ ~Closing("client", e) /\ ~Closing("client", f)
    BY <1>0, <1>1, <1>6, <1>11, <1>14, PhaseFacts, StageFacts, PairFacts DEF Typed
  <2>2. \A x \in Msgs["client"] : IsFinished(x) => ~Match("client", f, x.verify)
    BY <1>0, <1>1, <1>4, <1>12, FinishedFacts DEF FinishedOK, Match, n
  <2> QED
    BY <2>1, <2>2, <1>6, <1>12 DEF Moves, WaitsWith
<1>18. end'["client"] = f /\ end'[Peer("client")] = end[Peer("client")]
  BY <1>0, <1>3, SendFacts DEF HInv
<1>19. Level(end')
  <2>1. f.clientRandom # end["server"].clientRandom
    BY <1>0, <1>1, <1>4, <1>12, Bounds DEF n
  <2>2. Peer("client") = "server"
    BY DEF Peer
  <2> QED
    BY <1>0, <1>1, <1>12, <1>18, <2>1, <2>2, LevelKept DEF e
<1>20. ProperTicket(m.ticket, n) /\ ProperTicket(s.ticket, n) /\ IsSession(s)
  BY <1>1, <1>5, <1>8, NoSessionFacts DEF SessionOK, ProperTicket
<1>21. ToServer(m, end["server"], k, past, cache)
  <2>1. end["server"].clientRandom < m.random
    BY <1>0, <1>1, <1>4, <1>8, Bounds DEF n
  <2>2. \A i \in DOMAIN end["server"].done : end["server"].done[i].read.client < m.random
    <3>1. \A i \in DOMAIN end["server"].done : end["server"].done[i].read.client \in 1 .. n
      <4>1. Older(end["server"], n, past)
        BY <1>1 DEF Local
      <4> QED
        BY <4>1 DEF Older
    <3>2. m.random = k /\ n \in Nat /\ k \in Nat /\ n < k
      BY <1>1, <1>4, <1>8
    <3> QED
      BY <3>1, <3>2
  <2>3. /\ \A x \in past : Gen(x) < m.random
        /\ \A id \in DOMAIN cache : Gen(cache[id].master) < m.random
    BY <1>1, <1>4, <1>8, Bounds DEF n, Proper
  <2>4. ProperTicket(m.ticket, k) /\ (m.ticket # <<>> => Gen(m.ticket[1]) < m.random)
    BY <1>1, <1>4, <1>8, <1>20 DEF ProperTicket, Proper
  <2>5. m.random \in 1 .. k
    BY <1>1, <1>4, <1>8
  <2> QED
    BY <1>8, <2>1, <2>2, <2>3, <2>4, <2>5 DEF ToServer, HelloOK, IsFinished
<1>22. SessionOK(f, k, Known)
  <2>1. ProperTicket(f.ticket, k) /\ ProperTicket(f.session.ticket, k)
    BY <1>1, <1>4, <1>12, <1>20, TicketKept DEF SessionOK
  <2>2. s # NoSession => s.master \in Known
    BY <1>1, <1>5 DEF SessionOK
  <2>3. s # NoSession => Gen(s.master) < k
    BY <2>2, <1>1, <1>4, Bounds DEF Proper, n
  <2> QED
    BY <2>1, <2>2, <2>3, <1>12, <1>20 DEF SessionOK
<1>23. m.type \in MessageTypes /\ ~IsFinished(m)
  BY <1>8 DEF MessageTypes, HandshakeTypes, IsFinished
<1> QED
  BY <1>0, <1>2, <1>3, <1>4, <1>8, <1>16, <1>17, <1>19, <1>21, <1>22, <1>23, SendOrdinary DEF e, n

(* The messages of a wire with one more record that is no ClientHello.       *)
LEMMA AppendMsgs ==
  ASSUME NEW w, IsSeq(w), NEW x, x.msg.type # "CLIENT_HELLO"
  PROVE  LET v == Append(w, x) IN
         /\ IsSeq(v) /\ {v[i].msg : i \in DOMAIN v} = {w[i].msg : i \in DOMAIN w} \cup {x.msg}
         /\ HelloOrder(w) => HelloOrder(v)
<1> DEFINE v == Append(w, x)
<1>1. /\ Len(w) \in Nat /\ DOMAIN w = 1 .. Len(w) /\ IsSeq(v) /\ DOMAIN v = 1 .. Len(w) + 1
      /\ v[Len(w) + 1] = x /\ \A i \in 1 .. Len(w) : v[i] = w[i]
  BY AppendFacts
<1> HIDE DEF v
<1>2. DOMAIN v = DOMAIN w \cup {Len(w) + 1}
  BY <1>1
<1>3. {v[i].msg : i \in DOMAIN v} = {w[i].msg : i \in DOMAIN w} \cup {x.msg}
  BY <1>1, <1>2
<1>4. HelloOrder(w) => HelloOrder(v)
  <2> SUFFICES ASSUME HelloOrder(w), NEW i \in DOMAIN v, NEW j \in DOMAIN v,
                      i < j, v[i].msg.type = "CLIENT_HELLO", v[j].msg.type = "CLIENT_HELLO"
               PROVE  v[i].msg.random < v[j].msg.random
    BY DEF HelloOrder
  <2>1. i \in DOMAIN w /\ j \in DOMAIN w
    BY <1>1, <1>2
  <2> QED
    BY <2>1, <1>1 DEF HelloOrder
<1> QED
  BY <1>1, <1>3, <1>4 DEF v

(* A message is answered by a warning, and nothing else changes.             *)
LEMMA WarnStep ==
  ASSUME HInv, NEW p \in Ends, Reading(p), UNCHANGED end, Quiet,
         wire' = [wire EXCEPT ![p] = Tail(@),
                              ![Peer(p)] = Append(@, Record(p, Alert("warning")))]
  PROVE  HInv' /\ Incomplete
<1> DEFINE q == Peer(p)
           n == count.random
           a == Alert("warning")
           x == [key |-> end[p].write, msg |-> a]
<1>0. q \in Ends /\ q # p /\ Ends = {p, q} /\ "client" \in Ends /\ "server" \in Ends
      /\ (p = "client" => q = "server") /\ (p = "server" => q = "client")
  BY DEF Ends, Peer
<1>1. /\ Local(p, end[p], n, past) /\ n \in Nat /\ n <= n /\ Level(end)
      /\ p = "client" => SessionOK(end[p], n, Known)
      /\ count \in [random : Nat, connection : 1 .. MaxConnections,
                    renegotiation : 0 .. MaxRenegotiations, app : 0 .. MaxApp]
      /\ \A y \in Msgs["server"] : ToServer(y, end["server"], n, past, cache)
  BY Basics
<1>2. DOMAIN wire = Ends /\ IsSeq(wire[p]) /\ IsSeq(wire[q]) /\ wire[p] # <<>> /\ Shape
  BY <1>0 DEF HInv, Shape, Reading
<1>3. DOMAIN wire' = Ends /\ wire'[p] = Tail(wire[p]) /\ wire'[q] = Append(wire[q], x)
  BY <1>0, <1>2 DEF Record
<1>6. a.type = "ALERT" /\ x.msg = a
  BY DEF Alert
<1> HIDE DEF a, x
<1>4. HelloOrder(wire["server"])
  BY DEF HInv, Wires
<1>5. IsSeq(wire'[p]) /\ Msgs'[p] \subseteq Msgs[p] /\ (HelloOrder(wire[p]) => HelloOrder(wire'[p]))
  BY <1>2, <1>3, WireTail
<1>7. IsSeq(wire'[q]) /\ Msgs'[q] = Msgs[q] \cup {a} /\ (q = "server" => HelloOrder(wire'[q]))
  <2>1. Msgs'[q] = {wire'[q][i].msg : i \in DOMAIN wire'[q]}
    BY <1>0, <1>3 DEF Msgs
  <2>2. Msgs[q] = {wire[q][i].msg : i \in DOMAIN wire[q]}
    BY <1>0 DEF Msgs
  <2> DEFINE w == wire[q]
             v == wire'[q]
  <2>3. IsSeq(w) /\ v = Append(w, x) /\ x.msg.type # "CLIENT_HELLO" /\ x.msg = a
    BY <1>2, <1>3, <1>6
  <2> HIDE DEF w, v
  <2>4. /\ IsSeq(v) /\ {v[i].msg : i \in DOMAIN v} = {w[i].msg : i \in DOMAIN w} \cup {a}
        /\ HelloOrder(w) => HelloOrder(v)
    BY <2>3, AppendMsgs
  <2> QED
    BY <2>1, <2>2, <2>4, <1>4 DEF v, w
<1>9. HelloOrder(wire'["server"])
  BY <1>0, <1>4, <1>5, <1>7
<1>10. /\ \A r \in Ends : \A y \in Msgs'[r] : y \in Msgs[r] \/ (y.type \in MessageTypes /\ ~IsFinished(y))
       /\ \A y \in Msgs'["client"] : y \in Msgs["client"] \/ ToClient(y, n)
  BY <1>0, <1>5, <1>6, <1>7 DEF MessageTypes, IsFinished, ToClient
<1>11. \A y \in Msgs'["server"] :
         \/ y \in Msgs["server"] /\ (y.type = "CLIENT_HELLO" => end["server"].clientRandom < y.random)
         \/ ToServer(y, end["server"], n, past, cache)
  BY <1>0, <1>1, <1>5, <1>6, <1>7 DEF IsFinished, ToServer, HelloOK
<1>12. Moves(p, end[p], end[p], Msgs[p])
  BY DEF Moves
<1>13. config' = config /\ past' = past /\ cache' = cache /\ count' = count /\ end' = end
  BY DEF Quiet
<1>14. DOMAIN end' = Ends /\ end'[Peer(p)] = end[Peer(p)]
  BY <1>13 DEF HInv, Shape
<1>15. \A r \in Ends : IsSeq(wire'[r])
  BY <1>0, <1>5, <1>7
<1> HIDE DEF n
<1> QED
  BY <1>1, <1>3, <1>9, <1>10, <1>11, <1>12, <1>13, <1>14, <1>15, Ordinary DEF n

(* A renegotiation is refused with a warning.                                *)
LEMMA RefuseClientHelloStep ==
  ASSUME HInv, RefuseClientHello
  PROVE  HInv' /\ Incomplete
<1>1. "server" \in Ends /\ Peer("server") = "client"
  BY DEF Ends, Peer
<1>2. Reading("server") /\ UNCHANGED end /\ Quiet
      /\ wire' = [wire EXCEPT !["server"] = Tail(@),
                              !["client"] = Append(@, Record("server", Alert("warning")))]
  BY DEF RefuseClientHello
<1> QED
  BY <1>1, <1>2, WarnStep

(* A ClientHello is accepted between handshakes only, and finds nothing of   *)
(* another one.                                                              *)
LEMMA ReceivedHello ==
  ASSUME HInv, Receives("server", "CLIENT_HELLO")
  PROVE  LET e == end["server"]
             m == First("server")
             g == Got("server") IN
         /\ Reading("server") /\ m.type = "CLIENT_HELLO" /\ m \in Msgs["server"]
         /\ e.hs \in Outside("server") /\ ~Dead(e) /\ HelloOK(m, e, count.random, past, cache)
         /\ IsEnd(g) /\ g.state \in {"HANDSHAKING", "RENEGOTIATION"}
         /\ g.serverRandom = 0 /\ g.transcript = <<<<"CLIENT_HELLO", m.random>>>>
         /\ g.ccs = CcsReset /\ g.done = e.done
         /\ g.nextRead = e.nextRead /\ g.nextWrite = e.nextWrite
<1> DEFINE e == end["server"]
           m == First("server")
           g == Got("server")
           n == count.random
<1>0. "server" \in Ends
  BY DEF Ends
<1>1. /\ Local("server", e, n, past) /\ Typed("server", e) /\ IsEnd(e)
      /\ \A x \in Msgs["server"] : ToServer(x, e, n, past, cache)
  BY <1>0, Basics
<1>2. Reading("server") /\ m.type = "CLIENT_HELLO" /\ Accepts("server", "CLIENT_HELLO") /\ wire["server"] # <<>>
  BY DEF Receives, Reading
<1>3. m \in Msgs["server"]
  <2>1. IsSeq(wire["server"]) /\ DOMAIN wire = Ends
    BY <1>0 DEF HInv, Shape
  <2>2. Len(wire["server"]) \in Nat \ {0} /\ DOMAIN wire["server"] = 1 .. Len(wire["server"])
        /\ Head(wire["server"]) = wire["server"][1]
    BY <1>2, <2>1, TailFacts
  <2> QED
    BY <1>0, <2>2 DEF First, Msgs
<1>4. e.state = "TRANSPORTING" \/ (e.hs[1] = "recv" /\ e.hs[2] = "CLIENT_HELLO")
  <2>1. e.state # "TRANSPORTING" => "CLIENT_HELLO" \in MayCome(e) /\ e.hs[1] = "recv"
    BY <1>2 DEF Accepts, Reading
  <2> QED
    BY <2>1 DEF MayCome
<1>5. HelloOK(m, e, n, past, cache)
  BY <1>1, <1>2, <1>3 DEF ToServer
<1>6. Got("server") = VERIFY_Append(IF e.state = "TRANSPORTING" THEN [HS_Init(e) EXCEPT !.state = "RENEGOTIATION"]
                ELSE e, m)
  BY DEF Got
<1> HIDE DEF e, m, g, n
<1>7. e.state = "TRANSPORTING" \/ e.hs = <<"recv", "CLIENT_HELLO">>
  <2>1. e.hs = <<e.hs[1], e.hs[2]>>
    BY <1>0, <1>1, StageFacts DEF Typed
  <2> QED
    BY <1>4, <2>1
<1>8. e.hs \in Outside("server") /\ ~Dead(e)
  <2>1. CASE e.state = "TRANSPORTING"
    BY <2>1, <1>1 DEF Typed, Outside, Dead
  <2>2. CASE e.state # "TRANSPORTING"
    <3>1. e.hs = <<"recv", "CLIENT_HELLO">>
      BY <1>7, <2>2
    <3>2. e.hs # <<"idle", "none">>
      BY <3>1, PairFacts
    <3>3. ~Dead(e)
      BY <3>2, <1>1 DEF Typed, Dead
    <3> QED
      BY <3>1, <3>3 DEF Outside
  <2> QED
    BY <2>1, <2>2
<1>9. AtRest(e)
  BY <1>1, <1>8 DEF Local
<1> DEFINE i == HS_Init(e)
           j == [i EXCEPT !.state = "RENEGOTIATION"]
           x == IF e.state = "TRANSPORTING" THEN j ELSE e
<1>10. Rests(e, i)
  BY <1>1, InitFields
<1> HIDE DEF i
<1>11. Rests(e, j) /\ j.state = "RENEGOTIATION"
  BY <1>10 DEF Rests, IsEnd, EndFields
<1> HIDE DEF j
<1>12. /\ IsEnd(x) /\ x.state \in {"HANDSHAKING", "RENEGOTIATION"} /\ x.serverRandom = 0 /\ x.transcript = <<>>
       /\ x.ccs = CcsReset /\ x.done = e.done /\ x.nextRead = e.nextRead /\ x.nextWrite = e.nextWrite
  BY <1>1, <1>8, <1>9, <1>11 DEF Rests, AtRest, Typed, Dead
<1>13. g = VERIFY_Append(x, m)
  BY <1>6 DEF g, x, j, i
<1> HIDE DEF x
<1>14. Alike(x, g) /\ g.transcript = Append(x.transcript, <<m.type, IF "random" \in DOMAIN m THEN m.random ELSE 0>>)
  <2>1. VERIFY_Append(x, m).transcript = Append(x.transcript, <<m.type, IF "random" \in DOMAIN m THEN m.random ELSE 0>>)
    BY <1>12 DEF VERIFY_Append, IsEnd, EndFields
  <2> QED
    BY <1>12, <1>13, <2>1, AppendLike
<1>15. g.transcript = <<<<"CLIENT_HELLO", m.random>>>>
  <2>1. Append(<<>>, <<"CLIENT_HELLO", m.random>>) = <<<<"CLIENT_HELLO", m.random>>>>
    OBVIOUS
  <2>2. m.type = "CLIENT_HELLO" /\ "random" \in DOMAIN m
    BY <1>2, <1>5 DEF HelloOK, m
  <2> QED
    BY <1>12, <1>14, <2>1, <2>2
<1>16. /\ IsEnd(g) /\ g.state \in {"HANDSHAKING", "RENEGOTIATION"} /\ g.serverRandom = 0
       /\ g.ccs = CcsReset /\ g.done = e.done /\ g.nextRead = e.nextRead /\ g.nextWrite = e.nextWrite
  BY <1>12, <1>14 DEF Alike, Basic
<1> QED
  BY <1>2, <1>3, <1>5, <1>8, <1>15, <1>16 DEF e, m, g, n

(* What the server makes of a ClientHello.                                   *)
LEMMA GreetingLocal ==
  ASSUME NEW e, NEW f, NEW m, NEW n \in Nat, NEW old, NEW store, NEW M,
         Local("server", e, n, old), HelloOK(m, e, n, old, store),
         e.hs \in Outside("server"), ~Dead(e),
         IsEnd(f), f.state \in {"HANDSHAKING", "RENEGOTIATION"}, f.hs = <<"send", "SERVER_HELLO">>,
         f.clientRandom = m.random, f.serverRandom = 0,
         f.transcript = <<<<"CLIENT_HELLO", m.random>>>>,
         f.ccs = CcsReset, f.done = e.done, f.nextRead = e.nextRead, f.nextWrite = e.nextWrite,
         f.isResume \in BOOLEAN,
         f.isResume => Proper(f.session.master, n) /\ Gen(f.session.master) < m.random,
         \A x \in M : IsFinished(x) => FinishedOK("server", x, n)
  PROVE  Local("server", f, n, old) /\ Moves("server", e, f, M)
<1>0. "server" \in Ends
  BY DEF Ends
<1>1. Typed("server", e) /\ Older(e, n, old)
  BY DEF Local
<1>2. IsSeq(f.transcript)
  <2>1. IsSeq(Append(<<>>, <<"CLIENT_HELLO", m.random>>))
    BY EmptySeq, AppendFacts
  <2>2. Append(<<>>, <<"CLIENT_HELLO", m.random>>) = <<<<"CLIENT_HELLO", m.random>>>>
    OBVIOUS
  <2> QED
    BY <2>1, <2>2
<1>3. f.hs \in Greeting("server") /\ f.hs # <<"idle", "none">>
  BY PairFacts DEF Greeting
<1>4. Typed("server", f)
  BY <1>1, <1>2, <1>3 DEF Typed, Stages
<1>5. Older(f, n, old)
  BY <1>1 DEF Older, HelloOK
<1>6. AtGreeting("server", f, n)
  BY DEF AtGreeting, HelloOK
<1>7. Local("server", f, n, old)
  BY <1>0, <1>3, <1>4, <1>5, <1>6, StageFacts DEF Local
<1>8. ~Waiting("server", e) /\ ~Closing("server", f)
  BY <1>0, <1>1, <1>3, <1>4, PhaseFacts, StageFacts DEF Typed
<1>9. \A x \in M : IsFinished(x) => ~Match("server", f, x.verify)
  BY DEF FinishedOK, Match
<1>10. Moves("server", e, f, M)
  BY <1>8, <1>9 DEF Moves, WaitsWith
<1> QED
  BY <1>7, <1>10

(* A server that neither waits nor has failed is not behind: a client in the *)
(* handshake of a new ClientHello has completed the same handshakes.         *)
LEMMA LevelBegins ==
  ASSUME HInv, NEW f, end'["server"] = f, end'["client"] = end["client"],
         NEW m, HelloOK(m, end["server"], count.random, past, cache), f.clientRandom = m.random,
         f.done = end["server"].done, end["server"].hs \in Outside("server"), ~Dead(end["server"])
  PROVE  Level(end')
<1> DEFINE e == end["server"]
           c == end["client"]
           n == count.random
<1>0. "server" \in Ends /\ "client" \in Ends /\ Peer("server") = "client" /\ Peer("client") = "server"
  BY DEF Ends, Peer
<1>1. Typed("server", e) /\ Local("client", c, n, past) /\ Typed("client", c) /\ n \in Nat /\ IsSeq(c.done)
  BY <1>0, Basics DEF Typed
<1> SUFFICES ASSUME c.clientRandom = m.random
             PROVE  c.done = e.done
  BY DEF Level
<1>2. /\ m.random \in 1 .. n /\ \A i \in DOMAIN e.done : e.done[i].read.client < m.random
  BY DEF HelloOK
<1>3. Ahead(end)
  BY DEF HInv, Both
<1> HIDE DEF e, c, n
<1>4. ASSUME NEW r PROVE ~WaitsWith("server", e, r)
  BY <1>0, <1>1, PhaseFacts, StageFacts DEF WaitsWith, Typed, e
<1>5. ~Dead(c)
  <2> SUFFICES ASSUME Dead(c) PROVE FALSE
    OBVIOUS
  <2>1. c.hs = <<"idle", "none">>
    BY <1>1 DEF Typed, Dead
  <2>2. c.clientRandom = 0
    BY <1>1, <2>1 DEF Local, Outside, AtRest
  <2> QED
    BY <1>2, <2>2
<1>6. ASSUME NEW h, e.done = Append(c.done, h) PROVE ~WaitsWith("client", c, h.read.client)
  <2>1. h = e.done[Len(c.done) + 1] /\ Len(c.done) + 1 \in DOMAIN e.done
    BY <1>1, <1>6, AppendFacts
  <2>2. h.read.client < m.random
    BY <1>2, <2>1
  <2> QED
    BY <1>2, <1>5, <2>2 DEF WaitsWith
<1>7. \/ c.done = e.done
      \/ \E h : e.done = Append(c.done, h) /\ WaitsWith("client", c, h.read.client)
      \/ \E h : WaitsWith("server", e, h.read.client)
  BY <1>0, <1>3 DEF Ahead, Ends, e, c
<1> QED
  BY <1>4, <1>6, <1>7

(* A session or a ticket that the server resumes is older than the hello.    *)
LEMMA ResumptionFacts ==
  ASSUME NEW e, NEW m, NEW r \in Resumptions(e, m), r.session # NoSession
  PROVE  \/ m.ticket # <<>> /\ r.session.id = m.id /\ r.session.master = m.ticket[1]
         \/ m.id \in DOMAIN cache /\ r.session = cache[m.id]
<1> DEFINE none(t) == [session |-> NoSession, isTicket |-> t, gone |-> NoId]
           restored == [id |-> m.id, master |-> m.ticket[1], ticket |-> <<>>]
           offered == config.ticketS /\ m.hasTicket
<1>1. \/ r = none(FALSE) \/ r = none(TRUE) \/ r = none(offered)
      \/ m.ticket # <<>> /\ \E t \in BOOLEAN : r = [session |-> restored, isTicket |-> t, gone |-> NoId]
      \/ m.id \in DOMAIN cache /\ r = [session |-> cache[m.id], isTicket |-> offered, gone |-> NoId]
      \/ r = [none(offered) EXCEPT !.gone = m.id]
  BY Zenon DEF Resumptions
<1>2. /\ none(FALSE).session = NoSession /\ none(TRUE).session = NoSession /\ none(offered).session = NoSession
      /\ [none(offered) EXCEPT !.gone = m.id].session = NoSession
  OBVIOUS
<1> QED
  BY <1>1, <1>2

(* A ClientHello comes in, the first or one that begins a renegotiation.     *)
LEMMA RecvClientHelloStep ==
  ASSUME HInv, RecvClientHello
  PROVE  HInv' /\ Incomplete
<1> DEFINE s == end["server"]
           m == First("server")
           g == Got("server")
           n == count.random
           c == CheckRenegotiate(g)
           e == [c EXCEPT !.clientRandom = m.random]
<1>0. "server" \in Ends /\ "client" \in Ends /\ Peer("server") = "client"
  BY DEF Ends, Peer
<1>1. Receives("server", "CLIENT_HELLO")
  BY DEF RecvClientHello
<1>2. /\ Reading("server") /\ m.type = "CLIENT_HELLO" /\ m \in Msgs["server"]
      /\ s.hs \in Outside("server") /\ ~Dead(s) /\ HelloOK(m, s, n, past, cache)
      /\ IsEnd(g) /\ g.state \in {"HANDSHAKING", "RENEGOTIATION"}
      /\ g.serverRandom = 0 /\ g.transcript = <<<<"CLIENT_HELLO", m.random>>>>
      /\ g.ccs = CcsReset /\ g.done = s.done /\ g.nextRead = s.nextRead /\ g.nextWrite = s.nextWrite
  BY <1>1, ReceivedHello
<1>3. /\ Local("server", s, n, past) /\ n \in Nat
      /\ \A x \in Msgs["server"] : ToServer(x, s, n, past, cache)
  BY <1>0, Basics
<1>4. CASE Fail("server")
  BY <1>0, <1>4, FailStep
<1>5. CASE ~Fail("server")
  <2> PICK r \in Resumptions(e, m) :
        /\ Consume("server", GoTo(
                    [e EXCEPT !.isResume = (r.session # NoSession), !.isTicket = r.isTicket,
                              !.session = IF r.session # NoSession THEN r.session ELSE @],
                    "send", "SERVER_HELLO"))
        /\ cache' = WithoutId(cache, r.gone)
    BY <1>5 DEF RecvClientHello
  <2> DEFINE d == [e EXCEPT !.isResume = (r.session # NoSession), !.isTicket = r.isTicket,
                            !.session = IF r.session # NoSession THEN r.session ELSE @]
             f == GoTo(d, "send", "SERVER_HELLO")
  <2>1. Consume("server", f) /\ cache' = WithoutId(cache, r.gone)
    OBVIOUS
  <2>2. config' = config /\ past' = past /\ count' = count
    BY <1>5 DEF RecvClientHello
  <2>3. r.session # NoSession =>
          \/ m.ticket # <<>> /\ r.session.master = m.ticket[1]
          \/ m.id \in DOMAIN cache /\ r.session = cache[m.id]
    BY ResumptionFacts
  <2> HIDE DEF s, m, g, n
  <2>4. /\ IsEnd(c) /\ c.state = g.state /\ c.serverRandom = 0 /\ c.transcript = g.transcript /\ c.ccs = CcsReset
        /\ c.done = s.done /\ c.nextRead = s.nextRead /\ c.nextWrite = s.nextWrite
    BY <1>2 DEF CheckRenegotiate, IsEnd, EndFields
  <2> HIDE DEF c
  <2>5. /\ IsEnd(e) /\ e.state = g.state /\ e.serverRandom = 0 /\ e.transcript = g.transcript /\ e.ccs = CcsReset
        /\ e.done = s.done /\ e.nextRead = s.nextRead /\ e.nextWrite = s.nextWrite
        /\ e.clientRandom = m.random
    BY <2>4 DEF IsEnd, EndFields
  <2> HIDE DEF e
  <2>6. /\ IsEnd(d) /\ d.state = g.state /\ d.serverRandom = 0 /\ d.transcript = g.transcript /\ d.ccs = CcsReset
        /\ d.done = s.done /\ d.nextRead = s.nextRead /\ d.nextWrite = s.nextWrite
        /\ d.clientRandom = m.random /\ d.isResume = (r.session # NoSession)
        /\ r.session # NoSession => d.session = r.session
    BY <2>5 DEF IsEnd, EndFields
  <2> HIDE DEF d
  <2>7. Alike(d, f) /\ f.hs = <<"send", "SERVER_HELLO">> /\ f.transcript = d.transcript
    BY <2>6, GoToLike
  <2> HIDE DEF f
  <2>8. /\ IsEnd(f) /\ f.state \in {"HANDSHAKING", "RENEGOTIATION"} /\ f.clientRandom = m.random /\ f.serverRandom = 0
        /\ f.transcript = <<<<"CLIENT_HELLO", m.random>>>> /\ f.ccs = CcsReset
        /\ f.done = s.done /\ f.nextRead = s.nextRead /\ f.nextWrite = s.nextWrite
        /\ f.isResume \in BOOLEAN
        /\ f.isResume => r.session # NoSession /\ f.session = r.session
    BY <1>2, <2>6, <2>7 DEF Alike, Basic
  <2>9. f.isResume => Proper(f.session.master, n) /\ Gen(f.session.master) < m.random
    <3> SUFFICES ASSUME f.isResume PROVE Proper(f.session.master, n) /\ Gen(f.session.master) < m.random
      OBVIOUS
    <3>1. CASE m.ticket # <<>> /\ r.session.master = m.ticket[1]
      BY <1>2, <2>8, <3>1 DEF HelloOK, ProperTicket
    <3>2. CASE m.id \in DOMAIN cache /\ r.session = cache[m.id]
      BY <1>2, <2>8, <3>2, Bounds DEF HelloOK, n
    <3> QED
      BY <2>3, <2>8, <3>1, <3>2
  <2>10. Local("server", f, n, past) /\ Moves("server", s, f, Msgs["server"])
    <3>1. \A x \in Msgs["server"] : IsFinished(x) => FinishedOK("server", x, n)
      BY <1>0, FinishedFacts DEF n
    <3> QED
      BY <1>2, <1>3, <2>7, <2>8, <2>9, <3>1, GreetingLocal
  <2>11. Level(end')
    <3>1. end'["server"] = f /\ end'["client"] = end["client"]
      BY <1>0, <1>2, <2>1, ConsumeFacts DEF HInv
    <3> QED
      BY <1>2, <2>8, <3>1, LevelBegins DEF s, n
  <2>12. \A x \in Msgs'["server"] : x.type = "CLIENT_HELLO" => f.clientRandom < x.random
    <3>1. DOMAIN wire' = Ends /\ wire'["server"] = Tail(wire["server"]) /\ wire["server"] # <<>> /\ Shape
      BY <1>0, <1>2, <2>1 DEF HInv, Shape, Consume, Reading
    <3>2. /\ \A x \in Msgs'["server"] : \E i \in DOMAIN wire["server"] : 1 < i /\ x = wire["server"][i].msg
          /\ m = wire["server"][1].msg /\ 1 \in DOMAIN wire["server"]
      BY <1>0, <3>1, WireTail DEF m
    <3>3. HelloOrder(wire["server"])
      BY DEF HInv, Wires
    <3> QED
      BY <1>2, <2>8, <3>2, <3>3 DEF HelloOrder
  <2>13. DOMAIN cache' \subseteq DOMAIN cache /\ \A id \in DOMAIN cache' : cache'[id] = cache[id]
    BY <2>1, WithoutFacts
  <2> QED
    BY <1>0, <1>2, <2>1, <2>2, <2>10, <2>11, <2>12, <2>13, ConsumeOrdinary DEF s, n
<1> QED
  BY <1>4, <1>5

(* The server's random number is fresh: no Finished is of this handshake.    *)
LEMMA SendServerHelloStep ==
  ASSUME HInv, SendServerHello
  PROVE  HInv' /\ Incomplete
<1> DEFINE s == end["server"]
           n == count.random
           k == n + 1
           e == [s EXCEPT !.serverRandom = count.random + 1, !.id = ServerPrepareSessionId(s)]
           m == [type |-> "SERVER_HELLO", random |-> e.serverRandom, id |-> e.id,
                 hasTicket |-> e.isTicket, renegoInfo |-> ServerRenegoInfo(e)]
           v == VERIFY_Append(e, m)
           t == IF e.isTicket THEN "NEW_SESSION_TICKET" ELSE "CHANGE_CIPHER_SPEC"
           u == IF NeedCertificate THEN "CERTIFICATE"
                ELSE IF config.hint THEN "SERVER_KEY_EXCHANGE" ELSE "SERVER_HELLO_DONE"
           f == IF e.isResume THEN GoTo(HS_ResumeKeyEstablish(v), "send", t) ELSE GoTo(v, "send", u)
<1>0. "server" \in Ends /\ "client" \in Ends /\ Peer("server") = "client"
  BY DEF Ends, Peer
<1>1. /\ Local("server", s, n, past) /\ Typed("server", s) /\ IsEnd(s) /\ Older(s, n, past) /\ n \in Nat /\ Level(end)
      /\ count \in [random : Nat, connection : 1 .. MaxConnections,
                    renegotiation : 0 .. MaxRenegotiations, app : 0 .. MaxApp]
      /\ \A x \in Msgs["server"] : ToServer(x, s, n, past, cache)
  BY <1>0, Basics
<1>2. /\ s.hs = <<"send", "SERVER_HELLO">> /\ config' = config /\ past' = past /\ cache' = cache
      /\ count' = [count EXCEPT !.random = @ + 1]
      /\ Send("server", m, f)
  BY DEF SendServerHello, Sends, NextRandom
<1>3. /\ count' \in [random : Nat, connection : 1 .. MaxConnections,
                     renegotiation : 0 .. MaxRenegotiations, app : 0 .. MaxApp]
      /\ count'.random = k /\ n <= k /\ k \in Nat /\ n < k
  BY <1>1, <1>2
<1>4. t \in {"NEW_SESSION_TICKET", "CHANGE_CIPHER_SPEC"} /\ u \in {"CERTIFICATE", "SERVER_KEY_EXCHANGE", "SERVER_HELLO_DONE"}
  OBVIOUS
<1> HIDE DEF s, n, t, u
<1>5. s.hs \in Greeting("server") /\ AtGreeting("server", s, n)
  BY <1>1, <1>2 DEF Local, Greeting
<1>6. /\ IsEnd(e) /\ e.state = s.state /\ e.clientRandom = s.clientRandom /\ e.serverRandom = k
      /\ e.transcript = <<<<"CLIENT_HELLO", s.clientRandom>>>> /\ e.isResume = s.isResume /\ e.session = s.session
      /\ e.done = s.done /\ e.nextRead = s.nextRead /\ e.nextWrite = s.nextWrite /\ e.ccs = CcsReset
  BY <1>1, <1>5 DEF IsEnd, EndFields, AtGreeting, n
<1> HIDE DEF e
<1>7. m.type = "SERVER_HELLO" /\ m.random = k /\ "random" \in DOMAIN m
  BY <1>6
<1> HIDE DEF m
<1>8. Alike(e, v) /\ v.transcript = Append(e.transcript, <<m.type, IF "random" \in DOMAIN m THEN m.random ELSE 0>>)
  <2>1. VERIFY_Append(e, m).transcript = Append(e.transcript, <<m.type, IF "random" \in DOMAIN m THEN m.random ELSE 0>>)
    BY <1>6 DEF VERIFY_Append, IsEnd, EndFields
  <2> QED
    BY <1>6, <2>1, AppendLike
<1> HIDE DEF v
<1>9. IsEnd(v) /\ v.transcript = <<<<"CLIENT_HELLO", s.clientRandom>>, <<"SERVER_HELLO", k>>>>
      /\ IsSeq(v.transcript)
  <2>1. v.transcript = Append(<<<<"CLIENT_HELLO", s.clientRandom>>>>, <<"SERVER_HELLO", k>>)
    BY <1>6, <1>7, <1>8
  <2>2. Append(<<<<"CLIENT_HELLO", s.clientRandom>>>>, <<"SERVER_HELLO", k>>)
          = <<<<"CLIENT_HELLO", s.clientRandom>>, <<"SERVER_HELLO", k>>>>
    BY PairAppend
  <2>3. IsSeq(s.transcript) /\ s.transcript = <<<<"CLIENT_HELLO", s.clientRandom>>>>
    BY <1>1, <1>5 DEF Typed, AtGreeting
  <2>4. IsSeq(Append(s.transcript, <<"SERVER_HELLO", k>>))
    BY <2>3, AppendFacts
  <2> QED
    BY <1>8, <2>1, <2>2, <2>3, <2>4 DEF Alike, Basic
<1>10. /\ v.state = s.state /\ v.clientRandom = s.clientRandom /\ v.serverRandom = k
       /\ v.isResume = s.isResume /\ v.session = s.session /\ v.done = s.done
       /\ v.nextRead = s.nextRead /\ v.nextWrite = s.nextWrite /\ v.ccs = CcsReset
  BY <1>6, <1>8 DEF Alike, Basic
<1>11. /\ IsEnd(f) /\ f.state = s.state /\ f.clientRandom = s.clientRandom /\ f.serverRandom = k
       /\ f.isResume = s.isResume /\ f.session = s.session /\ f.done = s.done /\ f.ccs = CcsReset
       /\ f.transcript = v.transcript
       /\ ~s.isResume => f.hs = <<"send", u>> /\ f.nextRead = s.nextRead /\ f.nextWrite = s.nextWrite
       /\ s.isResume => /\ f.hs = <<"send", t>> /\ f.master = s.session.master
                        /\ f.nextRead = <<KeyOf(f)>> /\ f.nextWrite = <<KeyOf(f)>>
  <2>1. CASE s.isResume
    <3> DEFINE h == HS_ResumeKeyEstablish(v)
    <3>1. /\ Basic(v, h) /\ Holds(v, h) /\ h.master = s.session.master
          /\ h.nextRead = <<KeyOf(h)>> /\ h.nextWrite = <<KeyOf(h)>> /\ h.ccs = CcsReset
      BY <1>9, <1>10, ResumeKeyFields
    <3>2. f = GoTo(h, "send", t)
      BY <2>1, <1>6
    <3> HIDE DEF h, f
    <3>3. Alike(h, f) /\ f.hs = <<"send", t>> /\ f.transcript = h.transcript
      BY <3>1, <3>2, GoToLike DEF Basic
    <3>4. KeyOf(f) = KeyOf(h)
      BY <3>3 DEF KeyOf, Alike, Basic
    <3> QED
      BY <2>1, <3>1, <3>3, <3>4, <1>10 DEF Alike, Basic, Holds
  <2>2. CASE ~s.isResume
    <3>1. f = GoTo(v, "send", u)
      BY <2>2, <1>6
    <3> HIDE DEF f
    <3>2. Alike(v, f) /\ f.hs = <<"send", u>> /\ f.transcript = v.transcript
      BY <1>9, <3>1, GoToLike
    <3> QED
      BY <2>2, <3>2, <1>10 DEF Alike, Basic
  <2> QED
    BY <2>1, <2>2
<1> HIDE DEF f
<1>12. Hellos(f, k) /\ IsSeq(f.transcript)
  <2> DEFINE w == <<<<"CLIENT_HELLO", s.clientRandom>>, <<"SERVER_HELLO", k>>>>
  <2>1. Len(w) = 2 /\ w[1] = <<"CLIENT_HELLO", s.clientRandom>> /\ w[2] = <<"SERVER_HELLO", k>>
    OBVIOUS
  <2> HIDE DEF w
  <2>2. f.transcript = w /\ s.clientRandom \in 1 .. n
    BY <1>5, <1>9, <1>11 DEF w, AtGreeting
  <2> QED
    BY <2>1, <2>2, <1>1, <1>3, <1>9, <1>11 DEF Hellos
<1>13. /\ ~s.isResume => f.hs \in Flight("server")
       /\ s.isResume => f.hs \in Keyed("server") /\ f.hs \notin Verify("server") /\ f.hs[1] = "send"
  BY <1>4, <1>11 DEF Flight, Keyed, Verify, Ticket, Changing
<1>14. Typed("server", f)
  <2>1. AtMostOne(f.nextRead) /\ AtMostOne(f.nextWrite)
    BY <1>1, <1>11 DEF Typed, AtMostOne
  <2>2. f.hs # <<"idle", "none">> /\ s.hs # <<"idle", "none">>
    BY <1>2, <1>11, PairFacts
  <2> QED
    BY <1>1, <1>11, <1>12, <1>13, <2>1, <2>2 DEF Typed, Stages
<1>15. Older(f, k, past)
  BY <1>1, <1>3, <1>11 DEF Older, Proper
<1>16. Opens("server", f) <=> s.isResume
  BY <1>1, <1>11 DEF Opens, Typed
<1>17. Local("server", f, k, past)
  <2>1. CASE ~s.isResume
    <3>1. AtFlight(f, k)
      BY <2>1, <1>11, <1>12 DEF AtFlight
    <3> QED
      BY <1>0, <2>1, <3>1, <1>13, <1>14, <1>15, StageFacts DEF Local
  <2>2. CASE s.isResume
    <3>1. Proper(s.session.master, n) /\ Gen(s.session.master) < s.clientRandom
      BY <2>2, <1>5 DEF AtGreeting
    <3>2. Proper(s.session.master, k)
      BY <3>1, <1>1, <1>3 DEF Proper
    <3>3. ~Closing("server", f) /\ ~Waiting("server", f) /\ f.hs # <<"send", "FINISHED">> /\ f.hs # <<"recv", "FINISHED">>
      BY <2>2, <1>4, <1>11, <1>16 DEF Closing, Waiting
    <3>4. Writes("server", f) /\ Reads("server", f)
      BY <2>2, <3>3, <1>11 DEF Writes, Reads
    <3>5. AtKeyed("server", f, k)
      BY <2>2, <3>1, <3>2, <3>4, <1>11, <1>12, <1>13 DEF AtKeyed
    <3> QED
      BY <1>0, <2>2, <3>5, <1>13, <1>14, <1>15, StageFacts DEF Local
  <2> QED
    BY <2>1, <2>2
<1>18. Moves("server", s, f, Msgs["server"])
  <2>1. ~Waiting("server", s) /\ ~Dead(s)
    <3>1. s.hs # <<"idle", "none">>
      BY <1>2, PairFacts
    <3> QED
      BY <1>0, <1>1, <1>5, <3>1, PhaseFacts, StageFacts DEF Typed, Dead
  <2>2. ~Closing("server", f)
    BY <1>0, <1>13, <1>14, <1>16, PhaseFacts, StageFacts DEF Closing, Typed
  <2>3. \A x \in Msgs["server"] : IsFinished(x) => ~Match("server", f, x.verify)
    BY <1>0, <1>1, <1>3, <1>11, FinishedFacts DEF FinishedOK, Match, n
  <2> QED
    BY <2>1, <2>2, <2>3, <1>11 DEF Moves, WaitsWith
<1>19. Level(end')
  <2>1. end'["server"] = f /\ end'[Peer("server")] = end[Peer("server")]
    BY <1>0, <1>2, SendFacts DEF HInv
  <2> QED
    BY <1>0, <1>1, <1>11, <2>1, LevelKept DEF s
<1>20. ToClient(m, k) /\ m.type \in MessageTypes /\ ~IsFinished(m)
  BY <1>1, <1>3, <1>7 DEF ToClient, IsFinished, MessageTypes, HandshakeTypes
<1>21. \A x \in Msgs["server"] : x.type = "CLIENT_HELLO" => f.clientRandom < x.random
  BY <1>1, <1>11 DEF ToServer, HelloOK
<1> QED
  BY <1>0, <1>2, <1>3, <1>7, <1>17, <1>18, <1>19, <1>20, <1>21, SendOrdinary DEF s, n

(* An end that has its keys.                                                 *)
LEMMA KeyedLocal ==
  ASSUME NEW p \in Ends, NEW e, NEW f, NEW n \in Nat, NEW old, Local(p, e, n, old),
         e.hs \notin Outside(p), IsEnd(f), f.state = e.state, f.done = e.done, f.clientRandom = e.clientRandom,
         IsSeq(f.transcript), f.isResume \in BOOLEAN, AtMostOne(f.nextRead), AtMostOne(f.nextWrite),
         f.hs \in Keyed(p), AtKeyed(p, f, n)
  PROVE  Local(p, f, n, old) /\ Typed(p, f) /\ ~Dead(e) /\ ~Dead(f)
<1>1. Typed(p, e) /\ Older(e, n, old)
  BY DEF Local
<1>2. <<"idle", "none">> \in Outside(p) /\ f.hs \notin Outside(p)
  BY StageFacts DEF Outside
<1>3. f.hs # <<"idle", "none">> /\ e.hs # <<"idle", "none">>
  BY <1>2
<1>4. Typed(p, f) /\ ~Dead(e) /\ ~Dead(f)
  BY <1>1, <1>3 DEF Typed, Stages, Dead
<1>5. Older(f, n, old)
  BY <1>1 DEF Older
<1> QED
  BY <1>4, <1>5, StageFacts DEF Local

(* A ServerHello comes in: a full handshake or a resumption.                 *)
LEMMA RecvServerHelloStep ==
  ASSUME HInv, RecvServerHello
  PROVE  HInv' /\ Incomplete
<1> DEFINE c == end["client"]
           m == First("client")
           n == count.random
           resumed == c.session # NoSession /\ m.id # NoId /\ m.id = c.id
           g == VERIFY_Append(c, m)
           e == [g EXCEPT !.serverRandom = m.random, !.version = TRUE,
                          !.isResume = resumed, !.isTicket = m.hasTicket]
           k == HS_ResumeKeyEstablish(e)
           b == ClientCopySessionId(e, m)
           t == IF NeedCertificate THEN "CERTIFICATE" ELSE "SERVER_KEY_EXCHANGE"
           f == IF ~resumed THEN GoTo(CcsExitReady(b), "recv", t)
                ELSE IF m.hasTicket THEN GoTo(k, "recv", "NEW_SESSION_TICKET")
                ELSE AwaitFinished(k, "server")
<1>0. "server" \in Ends /\ "client" \in Ends /\ Peer("client") = "server"
  BY DEF Ends, Peer
<1>1. Receives("client", "SERVER_HELLO")
  BY DEF RecvServerHello
<1>2. /\ Reading("client") /\ m.type = "SERVER_HELLO" /\ m \in Msgs["client"]
      /\ Got("client") = g /\ c.hs = <<"recv", "SERVER_HELLO">>
  BY <1>0, <1>1, ReceivedFacts
<1>3. /\ Local("client", c, n, past) /\ Typed("client", c) /\ IsEnd(c) /\ n \in Nat /\ Level(end)
      /\ SessionOK(c, n, Known)
      /\ \A x \in Msgs["client"] : ToClient(x, n)
  BY <1>0, Basics
<1>4. CASE Fail("client")
  BY <1>0, <1>4, FailStep
<1>5. CASE ~Fail("client")
  <2>1. Consume("client", f) /\ Quiet
    BY <1>2, <1>5 DEF RecvServerHello
  <2>2. resumed \in BOOLEAN /\ t \in {"CERTIFICATE", "SERVER_KEY_EXCHANGE"}
        /\ (resumed => c.session # NoSession)
    OBVIOUS
  <2>3. "random" \in DOMAIN m /\ m.random \in 1 .. n
    BY <1>2, <1>3 DEF ToClient
  <2> HIDE DEF c, m, n, resumed, t
  <2>4. c.hs \in Greeting("client") /\ AtGreeting("client", c, n)
    BY <1>2, <1>3 DEF Local, Greeting
  <2>5. Alike(c, g) /\ g.transcript = Append(c.transcript, <<m.type, IF "random" \in DOMAIN m THEN m.random ELSE 0>>)
    <3>1. VERIFY_Append(c, m).transcript = Append(c.transcript, <<m.type, IF "random" \in DOMAIN m THEN m.random ELSE 0>>)
      BY <1>3 DEF VERIFY_Append, IsEnd, EndFields
    <3> QED
      BY <1>3, <3>1, AppendLike
  <2> HIDE DEF g
  <2>6. /\ IsEnd(g) /\ IsSeq(g.transcript)
        /\ g.transcript = <<<<"CLIENT_HELLO", c.clientRandom>>, <<"SERVER_HELLO", m.random>>>>
    <3>1. c.transcript = <<<<"CLIENT_HELLO", c.clientRandom>>>> /\ IsSeq(c.transcript)
      BY <1>3, <2>4 DEF AtGreeting, Typed
    <3>2. g.transcript = Append(c.transcript, <<"SERVER_HELLO", m.random>>)
      BY <1>2, <2>3, <2>5
    <3>3. IsSeq(Append(c.transcript, <<"SERVER_HELLO", m.random>>))
      BY <3>1, AppendFacts
    <3>4. Append(<<<<"CLIENT_HELLO", c.clientRandom>>>>, <<"SERVER_HELLO", m.random>>)
            = <<<<"CLIENT_HELLO", c.clientRandom>>, <<"SERVER_HELLO", m.random>>>>
      BY PairAppend
    <3> QED
      BY <2>5, <3>1, <3>2, <3>3, <3>4 DEF Alike, Basic
  <2>7. /\ IsEnd(e) /\ e.state = c.state /\ e.clientRandom = c.clientRandom /\ e.serverRandom = m.random
        /\ e.transcript = g.transcript /\ e.isResume = resumed /\ e.session = c.session /\ e.ticket = c.ticket
        /\ e.done = c.done /\ e.nextRead = c.nextRead /\ e.nextWrite = c.nextWrite /\ e.ccs = CcsReset
    <3>1. /\ g.state = c.state /\ g.clientRandom = c.clientRandom /\ g.session = c.session /\ g.ticket = c.ticket
          /\ g.done = c.done /\ g.nextRead = c.nextRead /\ g.nextWrite = c.nextWrite /\ g.ccs = CcsReset
      BY <2>4, <2>5 DEF Alike, Basic, AtGreeting
    <3> QED
      BY <3>1, <2>6 DEF IsEnd, EndFields
  <2> HIDE DEF e
  <2>8. /\ IsEnd(f) /\ f.state = c.state /\ f.clientRandom = c.clientRandom /\ f.serverRandom = m.random
        /\ f.isResume = resumed /\ f.session = c.session /\ f.ticket = c.ticket /\ f.done = c.done
        /\ f.transcript = g.transcript
        /\ ~resumed => /\ f.hs = <<"recv", t>> /\ f.nextRead = c.nextRead /\ f.nextWrite = c.nextWrite
                       /\ f.ccs = CcsReset
        /\ resumed => /\ f.master = c.session.master
                      /\ f.nextRead = <<KeyOf(f)>> /\ f.nextWrite = <<KeyOf(f)>>
                      /\ \/ f.hs = <<"recv", "NEW_SESSION_TICKET">> /\ f.ccs = CcsReset
                         \/ /\ f.hs = <<"recv", "FINISHED">> /\ f.ccs = CcsAwaited
                            /\ f.verify = <<"server", f.master, f.transcript>>
    <3>0. /\ Basic(e, k) /\ Holds(e, k) /\ k.master = e.session.master
          /\ k.nextRead = <<KeyOf(k)>> /\ k.nextWrite = <<KeyOf(k)>> /\ k.ccs = CcsReset
      BY <2>7, ResumeKeyFields
    <3> HIDE DEF k
    <3>1. CASE ~resumed
      <4> DEFINE a == CcsExitReady(b)
      <4>1. /\ IsEnd(b) /\ b.state = e.state /\ b.clientRandom = e.clientRandom /\ b.serverRandom = e.serverRandom
            /\ b.transcript = e.transcript /\ b.isResume = e.isResume /\ b.session = e.session /\ b.ticket = e.ticket
            /\ b.done = e.done /\ b.nextRead = e.nextRead /\ b.nextWrite = e.nextWrite
        BY <2>7 DEF ClientCopySessionId, IsEnd, EndFields
      <4>2. f = GoTo(a, "recv", t)
        BY <3>1
      <4> HIDE DEF b, f
      <4>3. Basic(b, a) /\ Holds(b, a) /\ a.ccs = CcsReset /\ a.nextRead = b.nextRead /\ a.nextWrite = b.nextWrite
        BY <4>1, CcsFields
      <4> HIDE DEF a
      <4>4. Alike(a, f) /\ f.hs = <<"recv", t>> /\ f.transcript = a.transcript
        BY <4>2, <4>3, GoToLike DEF Basic
      <4> QED
        BY <3>1, <4>1, <4>3, <4>4, <2>7 DEF Alike, Basic, Holds
    <3>2. CASE resumed /\ m.hasTicket
      <4>1. f = GoTo(k, "recv", "NEW_SESSION_TICKET")
        BY <3>2
      <4> HIDE DEF f
      <4>2. Alike(k, f) /\ f.hs = <<"recv", "NEW_SESSION_TICKET">> /\ f.transcript = k.transcript
        BY <3>0, <4>1, GoToLike DEF Basic
      <4>3. KeyOf(f) = KeyOf(k)
        BY <4>2 DEF KeyOf, Alike, Basic
      <4> QED
        BY <3>0, <3>2, <4>2, <4>3, <2>7 DEF Alike, Basic, Holds
    <3>3. CASE resumed /\ ~m.hasTicket
      <4>1. f = AwaitFinished(k, "server")
        BY <3>3
      <4> HIDE DEF f
      <4>2. /\ Basic(k, f) /\ f.hs = <<"recv", "FINISHED">> /\ f.transcript = k.transcript
            /\ f.verify = <<"server", k.master, k.transcript>> /\ f.ccs = CcsAwaited
            /\ f.master = k.master /\ f.nextRead = k.nextRead /\ f.nextWrite = k.nextWrite
        BY <3>0, <4>1, AwaitFields DEF Basic
      <4>3. KeyOf(f) = KeyOf(k)
        BY <4>2 DEF KeyOf, Basic
      <4> QED
        BY <3>0, <3>3, <4>2, <4>3, <2>7 DEF Basic, Holds
    <3> QED
      BY <3>1, <3>2, <3>3
  <2> HIDE DEF f
  <2>9. Hellos(f, n) /\ IsSeq(f.transcript)
    <3> DEFINE w == <<<<"CLIENT_HELLO", c.clientRandom>>, <<"SERVER_HELLO", m.random>>>>
    <3>1. Len(w) = 2 /\ w[1] = <<"CLIENT_HELLO", c.clientRandom>> /\ w[2] = <<"SERVER_HELLO", m.random>>
      OBVIOUS
    <3> HIDE DEF w
    <3>2. f.transcript = w /\ c.clientRandom \in 1 .. n
      BY <2>4, <2>6, <2>8 DEF w, AtGreeting
    <3> QED
      BY <3>1, <3>2, <1>3, <2>3, <2>6, <2>8 DEF Hellos
  <2>10. c.hs \notin Outside("client")
    BY <1>0, <2>4, StageFacts
  <2>11. Local("client", f, n, past) /\ Typed("client", f) /\ ~Dead(c)
    <3>1. CASE ~resumed
      <4>1. f.hs \in Flight("client")
        BY <3>1, <2>2, <2>8 DEF Flight
      <4>2. <<"idle", "none">> \in Outside("client") /\ f.hs \notin Outside("client")
        BY <1>0, <4>1, StageFacts DEF Outside
      <4>3. f.hs # <<"idle", "none">> /\ c.hs # <<"idle", "none">>
        BY <4>2, <2>10
      <4>4. Typed("client", f) /\ ~Dead(c)
        BY <3>1, <1>3, <2>2, <2>8, <2>9, <4>1, <4>3 DEF Typed, Stages, Dead
      <4>5. Older(f, n, past)
        BY <1>3, <2>8 DEF Older, Local
      <4>6. AtFlight(f, n)
        BY <3>1, <2>8, <2>9 DEF AtFlight
      <4> QED
        BY <1>0, <4>1, <4>4, <4>5, <4>6, StageFacts DEF Local
    <3>2. CASE resumed
      <4>1. f.hs \in Keyed("client") /\ f.hs \notin Verify("client") /\ f.hs[1] = "recv"
        BY SMTT(30), <3>2, <2>8 DEF Keyed, Verify, Ticket, Changing
      <4>2. Proper(c.session.master, n) /\ Gen(c.session.master) < c.clientRandom
        <5>1. c.clientRandom # 0
          BY <2>4, <1>3 DEF AtGreeting
        <5>2. c.session.master \in Known
          BY <3>2, <1>3, <2>2 DEF SessionOK
        <5>3. Gen(c.session.master) < c.clientRandom
          BY <3>2, <5>1, <1>3, <2>2 DEF SessionOK
        <5> QED
          BY <5>2, <5>3, Bounds DEF n
      <4>3. ~Opens("client", f)
        BY <3>2, <2>8 DEF Opens
      <4>4. ~Waiting("client", f) /\ ~Closing("client", f) /\ f.hs # <<"send", "FINISHED">>
            /\ f.hs # <<"send", "NEW_SESSION_TICKET">>
        BY <4>1, <4>3, PairFacts DEF Waiting, Closing
      <4>5. Peer("client") = "server" /\ <<"recv", "NEW_SESSION_TICKET">> # <<"recv", "FINISHED">>
        BY DEF Peer
      <4>6. Writes("client", f) /\ Reads("client", f)
        BY <3>2, <4>4, <4>5, <2>8 DEF Writes, Reads
      <4>7. AtKeyed("client", f, n)
        BY <3>2, <4>1, <4>2, <4>4, <4>6, <2>2, <2>8, <2>9 DEF AtKeyed
      <4>8. AtMostOne(f.nextRead) /\ AtMostOne(f.nextWrite)
        BY <3>2, <2>8 DEF AtMostOne
      <4> QED
        BY <1>0, <1>3, <2>2, <2>8, <2>9, <2>10, <4>1, <4>7, <4>8, KeyedLocal
    <3> QED
      BY <3>1, <3>2
  <2>12. Moves("client", c, f, Msgs["client"])
    <3>1. ~Waiting("client", c)
      BY <1>0, <1>3, <2>4, PhaseFacts, StageFacts DEF Typed
    <3>2. ~Closing("client", f)
      <4>1. f.hs[1] = "recv"
        BY <2>8
      <4> QED
        BY <4>1, <1>0, <2>11, PhaseFacts DEF Typed
    <3> QED
      BY <3>1, <3>2, <2>8, <2>11 DEF Moves, WaitsWith, Match
  <2>13. Level(end')
    <3>1. end'["client"] = f /\ end'[Peer("client")] = end[Peer("client")]
      BY <1>0, <1>2, <2>1, ConsumeFacts DEF HInv
    <3> QED
      BY <1>0, <1>3, <2>8, <3>1, LevelKept DEF c
  <2>14. SessionOK(f, n, Known)
    BY <1>3, <2>8, SameSessionOK DEF SameSession
  <2>15. config' = config /\ past' = past /\ cache' = cache /\ count' = count
    BY <2>1 DEF Quiet
  <2> QED
    BY <1>0, <1>2, <2>1, <2>11, <2>12, <2>13, <2>14, <2>15, ConsumeOrdinary DEF c, n
<1> QED
  BY <1>4, <1>5

-----------------------------------------------------------------------------
(* The keys.                                                                 *)

(* End e has got the keys of a full handshake; its master secret is of this  *)
(* handshake.                                                                *)
HasKeys(e, k, n) ==
  /\ IsEnd(k) /\ k.state = e.state /\ k.clientRandom = e.clientRandom /\ k.serverRandom = e.serverRandom
  /\ k.isResume = FALSE /\ k.session = e.session /\ k.ticket = e.ticket /\ k.done = e.done
  /\ k.ccs = CcsReset /\ Hellos(k, n) /\ IsSeq(k.transcript)
  /\ Proper(k.master, n) /\ Gen(k.master) = k.clientRandom
  /\ k.nextRead = <<KeyOf(k)>> /\ k.nextWrite = <<KeyOf(k)>>

(* The master secret of a full handshake, and its keys.                      *)
LEMMA MakeKeys ==
  ASSUME NEW p \in Ends, NEW e, NEW n \in Nat, NEW old, Local(p, e, n, old), e.hs \in Flight(p), NEW m, NEW x
  PROVE  HasKeys(e, HS_KeyEstablish(HS_GenerateMasterSecret(VERIFY_Append(e, m), x)), n)
<1> DEFINE v == VERIFY_Append(e, m)
           g == HS_GenerateMasterSecret(v, x)
           k == HS_KeyEstablish(g)
<1>1. Typed(p, e) /\ AtFlight(e, n)
  BY DEF Local
<1>2. Alike(e, v) /\ \E y : v.transcript = Append(e.transcript, y)
  BY <1>1, AppendLike DEF Typed
<1> HIDE DEF v
<1>3. Hellos(v, n) /\ IsSeq(v.transcript) /\ IsEnd(v)
  BY <1>1, <1>2, HellosKept DEF AtFlight, Typed, Alike, Basic
<1>4. Basic(v, g) /\ Holds(v, g) /\ g.master = [premaster |-> x, hash |-> v.transcript] /\ g.ccs = v.ccs
  BY <1>3, MasterFields
<1> HIDE DEF g
<1>5. /\ Basic(g, k) /\ Holds(g, k) /\ k.master = g.master /\ KeyOf(k) = KeyOf(g)
      /\ k.nextRead = <<KeyOf(g)>> /\ k.nextWrite = <<KeyOf(g)>> /\ k.ccs = g.ccs
  BY <1>4, KeyFields DEF Basic
<1> HIDE DEF k
<1>6. /\ IsEnd(k) /\ k.state = e.state /\ k.clientRandom = e.clientRandom /\ k.serverRandom = e.serverRandom
      /\ k.isResume = FALSE /\ k.session = e.session /\ k.ticket = e.ticket /\ k.done = e.done /\ k.ccs = CcsReset
  BY <1>1, <1>2, <1>4, <1>5 DEF Basic, Alike, AtFlight, Typed
<1>7. k.transcript = v.transcript /\ v.clientRandom = k.clientRandom /\ v.serverRandom = k.serverRandom
  BY <1>4, <1>5 DEF Basic, Holds
<1>8. Hellos(k, n)
  BY <1>3, <1>7 DEF Hellos
<1>9. Gen(k.master) = k.clientRandom
  <2>1. k.master.hash = v.transcript
    BY <1>4, <1>5
  <2>2. v.transcript[1] = <<"CLIENT_HELLO", k.clientRandom>>
    BY <1>3, <1>7 DEF Hellos
  <2> QED
    BY <2>1, <2>2 DEF Gen
<1>10. Proper(k.master, n)
  BY <1>8, <1>9 DEF Proper, Hellos
<1> QED
  BY <1>3, <1>5, <1>6, <1>7, <1>8, <1>9, <1>10 DEF k, g, v, HasKeys

(* A ClientKeyExchange goes out, and the client has its keys.                *)
LEMMA SendClientKeyExchangeStep ==
  ASSUME HInv, SendClientKeyExchange
  PROVE  HInv' /\ Incomplete
<1> DEFINE c == end["client"]
           n == count.random
           j == n + 1
           m == [type |-> "CLIENT_KEY_EXCHANGE",
                 premaster |-> IF config.kx = "PSK" THEN 0 ELSE count.random + 1]
           x == m.premaster
           k == HS_KeyEstablish(HS_GenerateMasterSecret(VERIFY_Append(c, m), x))
           t == IF k.needCert /\ config.clientCert THEN "CERTIFICATE_VERIFY" ELSE "CHANGE_CIPHER_SPEC"
           f == GoTo(k, "send", t)
<1>0. "server" \in Ends /\ "client" \in Ends /\ Peer("client") = "server"
  BY DEF Ends, Peer
<1>1. /\ Local("client", c, n, past) /\ Typed("client", c) /\ IsEnd(c) /\ n \in Nat /\ Level(end)
      /\ SessionOK(c, n, Known)
      /\ count \in [random : Nat, connection : 1 .. MaxConnections,
                    renegotiation : 0 .. MaxRenegotiations, app : 0 .. MaxApp]
  BY <1>0, Basics
<1>2. /\ c.hs = <<"send", "CLIENT_KEY_EXCHANGE">> /\ config' = config /\ past' = past /\ cache' = cache
      /\ count' = [count EXCEPT !.random = @ + 1]
      /\ Send("client", m, f)
  BY DEF SendClientKeyExchange, Sends, NextRandom
<1>3. /\ count' \in [random : Nat, connection : 1 .. MaxConnections,
                     renegotiation : 0 .. MaxRenegotiations, app : 0 .. MaxApp]
      /\ count'.random = j /\ n <= j /\ j \in Nat /\ n < j
  BY <1>1, <1>2
<1>4. t \in {"CERTIFICATE_VERIFY", "CHANGE_CIPHER_SPEC"} /\ m.type = "CLIENT_KEY_EXCHANGE"
  OBVIOUS
<1> HIDE DEF c, n, m, x, j
<1>5. c.hs \in Flight("client")
  BY <1>2 DEF Flight
<1>6. Local("client", c, j, past)
  BY <1>1, <1>3, LocalKept
<1>21. HasKeys(c, k, j)
  BY <1>0, <1>3, <1>5, <1>6, MakeKeys
<1> HIDE DEF k, t
<1>7. /\ IsEnd(k) /\ k.state = c.state /\ k.clientRandom = c.clientRandom /\ k.serverRandom = c.serverRandom
      /\ k.isResume = FALSE /\ k.session = c.session /\ k.ticket = c.ticket /\ k.done = c.done
      /\ k.ccs = CcsReset /\ Hellos(k, j) /\ IsSeq(k.transcript)
      /\ Proper(k.master, j) /\ Gen(k.master) = k.clientRandom
      /\ k.nextRead = <<KeyOf(k)>> /\ k.nextWrite = <<KeyOf(k)>>
  BY <1>21 DEF HasKeys
<1>8. Alike(k, f) /\ f.hs = <<"send", t>> /\ f.transcript = k.transcript
  BY <1>7, GoToLike
<1> HIDE DEF f
<1>9. KeyOf(f) = KeyOf(k)
  BY <1>8 DEF KeyOf, Alike, Basic
<1>10. /\ IsEnd(f) /\ f.state = c.state /\ f.clientRandom = c.clientRandom /\ f.isResume = FALSE
       /\ f.session = c.session /\ f.ticket = c.ticket /\ f.done = c.done
       /\ f.ccs = CcsReset /\ Hellos(f, j) /\ IsSeq(f.transcript)
       /\ Proper(f.master, j) /\ Gen(f.master) = f.clientRandom
       /\ f.nextRead = <<KeyOf(f)>> /\ f.nextWrite = <<KeyOf(f)>>
  BY <1>7, <1>8, <1>9 DEF Alike, Basic, Hellos
<1>11. f.hs \in Keyed("client") /\ f.hs[1] = "send" /\ f.hs # <<"send", "FINISHED">>
       /\ f.hs # <<"recv", "FINISHED">> /\ f.hs # <<"send", "NEW_SESSION_TICKET">>
  BY <1>4, <1>8 DEF Keyed, Verify, Changing
<1>12. Opens("client", f)
  BY <1>10 DEF Opens
<1>13. ~Closing("client", f) /\ ~Waiting("client", f)
  BY <1>11, <1>12 DEF Closing, Waiting
<1>14. AtKeyed("client", f, j)
  <2>1. Writes("client", f) /\ Reads("client", f)
    BY <1>10, <1>11, <1>13 DEF Writes, Reads
  <2> QED
    BY <2>1, <1>10, <1>11 DEF AtKeyed
<1>15. c.hs \notin Outside("client")
  BY <1>0, <1>5, StageFacts
<1>16. Local("client", f, j, past) /\ ~Dead(c)
  <2>1. AtMostOne(f.nextRead) /\ AtMostOne(f.nextWrite)
    BY <1>10 DEF AtMostOne
  <2> QED
    BY <1>0, <1>3, <1>6, <1>10, <1>11, <1>14, <1>15, <2>1, KeyedLocal
<1>17. Moves("client", c, f, Msgs["client"])
  <2>1. ~Waiting("client", c)
    BY <1>0, <1>1, <1>5, PhaseFacts, StageFacts DEF Typed
  <2> QED
    BY <1>10, <1>13, <1>16, <2>1 DEF Moves, WaitsWith, Match
<1>18. Level(end')
  <2>1. end'["client"] = f /\ end'[Peer("client")] = end[Peer("client")]
    BY <1>0, <1>2, SendFacts DEF HInv
  <2> QED
    BY <1>0, <1>1, <1>10, <2>1, LevelKept DEF c
<1>19. SessionOK(f, j, Known)
  <2>1. SessionOK(f, n, Known)
    BY <1>1, <1>10, SameSessionOK DEF SameSession
  <2> QED
    BY <2>1, <1>1, <1>3, SessionKept
<1>20. /\ m.type \in MessageTypes /\ ~IsFinished(m) /\ m.type # "CLIENT_HELLO"
       /\ ToServer(m, end["server"], j, past, cache)
  BY <1>4 DEF MessageTypes, HandshakeTypes, IsFinished, ToServer
<1> QED
  BY <1>0, <1>2, <1>3, <1>16, <1>17, <1>18, <1>19, <1>20, SendOrdinary DEF c, n

(* A record is read in a handshake by an end that keeps its numbers and its  *)
(* session.                                                                  *)
LEMMA ConsumeKept ==
  ASSUME HInv, NEW p \in Ends, NEW f, Reading(p), Consume(p, f), Quiet,
         f.clientRandom = end[p].clientRandom, f.done = end[p].done,
         Local(p, f, count.random, past), Moves(p, end[p], f, Msgs[p]),
         p = "client" => SessionOK(f, count.random, Known)
  PROVE  HInv' /\ Incomplete
<1>0. "server" \in Ends
  BY DEF Ends
<1>1. Level(end) /\ \A x \in Msgs["server"] : ToServer(x, end["server"], count.random, past, cache)
  BY Basics
<1>2. config' = config /\ past' = past /\ cache' = cache /\ count' = count
  BY DEF Quiet
<1>3. end'[p] = f /\ end'[Peer(p)] = end[Peer(p)] /\ Msgs'[p] \subseteq Msgs[p]
  BY ConsumeFacts DEF HInv
<1>4. Level(end')
  BY <1>1, <1>3, LevelKept
<1>5. p = "server" => \A x \in Msgs'["server"] : x.type = "CLIENT_HELLO" => f.clientRandom < x.random
  BY <1>1, <1>3 DEF ToServer, HelloOK
<1> QED
  BY <1>2, <1>4, <1>5, ConsumeOrdinary

(* An end with its keys, for which only the peer's Finished is to come.      *)
HasAll(p, k, n) ==
  /\ IsEnd(k) /\ k.ccs = CcsReset /\ Hellos(k, n) /\ IsSeq(k.transcript) /\ k.isResume \in BOOLEAN
  /\ Proper(k.master, n)
  /\ k.isResume => Gen(k.master) < k.clientRandom /\ k.master = k.session.master
  /\ k.isResume /\ p = "client" => k.session # NoSession
  /\ ~k.isResume => Gen(k.master) = k.clientRandom
  /\ k.nextRead = <<KeyOf(k)>> /\ AtMostOne(k.nextWrite)
  /\ IF Opens(p, k) THEN k.write = KeyOf(k) ELSE k.nextWrite = <<KeyOf(k)>>

(* A server that has its keys waits for the Finished of the client.          *)
LEMMA AwaitsLocal ==
  ASSUME NEW p \in Ends, NEW e, NEW k, NEW f, NEW n \in Nat, NEW old, Local(p, e, n, old),
         e.hs \notin Outside(p), HasAll(p, k, n),
         k.state = e.state, k.done = e.done, k.clientRandom = e.clientRandom,
         f = AwaitFinished(k, Peer(p))
  PROVE  /\ Local(p, f, n, old) /\ ~Dead(e) /\ Basic(k, f) /\ f.hs = <<"recv", "FINISHED">>
         /\ f.verify = <<Peer(p), k.master, k.transcript>>
         /\ (Opens(p, k) => Waiting(p, f)) /\ ~Closing(p, f)
<1>0. /\ Basic(k, f) /\ f.hs = <<"recv", "FINISHED">> /\ f.transcript = k.transcript
      /\ f.verify = <<Peer(p), k.master, k.transcript>> /\ f.ccs = CcsAwaited
      /\ f.master = k.master /\ f.write = k.write /\ f.nextRead = k.nextRead /\ f.nextWrite = k.nextWrite
  BY AwaitFields DEF HasAll
<1>1. KeyOf(f) = KeyOf(k) /\ (Opens(p, f) <=> Opens(p, k))
  BY <1>0 DEF KeyOf, Basic, Opens
<1>2. f.hs \in Keyed(p) /\ f.hs \notin Verify(p) /\ f.hs[1] = "recv"
      /\ f.hs # <<"send", "FINISHED">> /\ f.hs # <<"send", "NEW_SESSION_TICKET">>
  BY <1>0 DEF Keyed, Verify, Changing, Ends
<1>3. (Waiting(p, f) <=> Opens(p, k)) /\ ~Closing(p, f)
  BY <1>0, <1>1, <1>2, PairFacts DEF Waiting, Closing
<1>4. Writes(p, f)
  BY <1>0, <1>1, <1>2, <1>3 DEF Writes, HasAll
<1>5. Reads(p, f)
  BY <1>0, <1>1, <1>3 DEF Reads, HasAll
<1>6. Hellos(f, n)
  BY <1>0 DEF Hellos, HasAll, Basic
<1>7. AtKeyed(p, f, n)
  BY <1>0, <1>2, <1>4, <1>5, <1>6 DEF AtKeyed, HasAll, Basic
<1>8. AtMostOne(f.nextRead) /\ AtMostOne(f.nextWrite)
  BY <1>0 DEF HasAll, AtMostOne
<1>9. /\ IsEnd(f) /\ f.state = e.state /\ f.done = e.done /\ f.clientRandom = e.clientRandom
      /\ IsSeq(f.transcript) /\ f.isResume \in BOOLEAN
  BY <1>0 DEF HasAll, Basic
<1>10. Local(p, f, n, old) /\ ~Dead(e)
  BY <1>2, <1>7, <1>8, <1>9, KeyedLocal
<1> QED
  BY <1>0, <1>3, <1>10

(* A ClientKeyExchange comes in, and the server has its keys.                *)
LEMMA RecvClientKeyExchangeStep ==
  ASSUME HInv, RecvClientKeyExchange
  PROVE  HInv' /\ Incomplete
<1> DEFINE s == end["server"]
           n == count.random
           m == First("server")
           x == m.premaster
           k == HS_KeyEstablish(HS_GenerateMasterSecret(VERIFY_Append(s, m), x))
           f == IF k.needCert /\ k.peerCert THEN GoTo(k, "recv", "CERTIFICATE_VERIFY")
                ELSE AwaitFinished(k, "client")
<1>0. "server" \in Ends /\ Peer("server") = "client"
  BY DEF Ends, Peer
<1>1. /\ Local("server", s, n, past) /\ Typed("server", s) /\ n \in Nat
  BY <1>0, Basics
<1>2. Receives("server", "CLIENT_KEY_EXCHANGE") /\ Quiet
  BY DEF RecvClientKeyExchange
<1>3. Reading("server") /\ Got("server") = VERIFY_Append(s, m) /\ s.hs = <<"recv", "CLIENT_KEY_EXCHANGE">>
  BY <1>0, <1>2, ReceivedFacts
<1>4. Consume("server", f)
  BY <1>3 DEF RecvClientKeyExchange
<1> HIDE DEF s, n, m, x
<1>5. s.hs \in Flight("server")
  BY <1>3 DEF Flight
<1>6. HasKeys(s, k, n)
  BY <1>0, <1>1, <1>5, MakeKeys
<1> HIDE DEF k
<1>7. s.hs \notin Outside("server") /\ ~Waiting("server", s)
  BY <1>0, <1>1, <1>5, StageFacts, PhaseFacts DEF Typed
<1>8. ~Opens("server", k)
  BY <1>6 DEF Opens, HasKeys
<1>9. HasAll("server", k, n)
  <2>1. AtMostOne(k.nextWrite)
    BY <1>6 DEF HasKeys, AtMostOne
  <2> QED
    BY <2>1, <1>6, <1>8 DEF HasKeys, HasAll
<1>10. /\ Local("server", f, n, past) /\ ~Dead(s) /\ ~Closing("server", f)
       /\ f.clientRandom = s.clientRandom /\ f.serverRandom = s.serverRandom /\ f.done = s.done
  <2>1. CASE k.needCert /\ k.peerCert
    <3>1. f = GoTo(k, "recv", "CERTIFICATE_VERIFY")
      BY <2>1
    <3> HIDE DEF f
    <3>2. Alike(k, f) /\ f.hs = <<"recv", "CERTIFICATE_VERIFY">> /\ f.transcript = k.transcript
      BY <1>6, <3>1, GoToLike DEF HasKeys
    <3>3. KeyOf(f) = KeyOf(k) /\ ~Opens("server", f)
      BY <1>8, <3>2 DEF KeyOf, Alike, Basic, Opens
    <3>4. f.hs \in Keyed("server") /\ f.hs[1] = "recv" /\ f.hs # <<"send", "FINISHED">>
          /\ f.hs # <<"recv", "FINISHED">> /\ f.hs # <<"send", "NEW_SESSION_TICKET">>
      BY <3>2 DEF Keyed, Verify
    <3>5. ~Closing("server", f) /\ ~Waiting("server", f)
      BY <3>3, <3>4, PairFacts DEF Closing, Waiting
    <3>6. /\ IsEnd(f) /\ f.state = s.state /\ f.clientRandom = s.clientRandom /\ f.serverRandom = s.serverRandom
          /\ f.isResume = FALSE
          /\ f.done = s.done /\ f.ccs = CcsReset /\ Hellos(f, n) /\ IsSeq(f.transcript)
          /\ Proper(f.master, n) /\ Gen(f.master) = f.clientRandom
          /\ f.nextRead = <<KeyOf(f)>> /\ f.nextWrite = <<KeyOf(f)>>
      BY <1>6, <3>2, <3>3 DEF HasKeys, Alike, Basic, Hellos
    <3>7. AtKeyed("server", f, n)
      <4>1. Writes("server", f) /\ Reads("server", f)
        BY <3>4, <3>5, <3>6 DEF Writes, Reads
      <4> QED
        BY <4>1, <3>4, <3>6 DEF AtKeyed
    <3>8. Local("server", f, n, past) /\ ~Dead(s)
      <4>1. AtMostOne(f.nextRead) /\ AtMostOne(f.nextWrite)
        BY <3>6 DEF AtMostOne
      <4> QED
        BY <1>0, <1>1, <1>7, <3>4, <3>6, <3>7, <4>1, KeyedLocal
    <3> QED
      BY <3>5, <3>6, <3>8
  <2>2. CASE ~(k.needCert /\ k.peerCert)
    <3>1. f = AwaitFinished(k, Peer("server"))
      BY <2>2, <1>0
    <3> HIDE DEF f
    <3>2. k.state = s.state /\ k.done = s.done /\ k.clientRandom = s.clientRandom /\ k.serverRandom = s.serverRandom
      BY <1>6 DEF HasKeys
    <3>3. Local("server", f, n, past) /\ ~Dead(s) /\ Basic(k, f) /\ ~Closing("server", f)
      BY <1>0, <1>1, <1>7, <1>9, <3>1, <3>2, AwaitsLocal
    <3> QED
      BY <3>2, <3>3 DEF Basic
  <2> QED
    BY <2>1, <2>2
<1> HIDE DEF f
<1>11. Moves("server", s, f, Msgs["server"])
  BY <1>7, <1>10 DEF Moves, WaitsWith, Match
<1> QED
  BY <1>0, <1>2, <1>3, <1>4, <1>10, <1>11, ConsumeKept DEF s, n

(* A CertificateVerify comes in.                                             *)
LEMMA RecvCertVerifyStep ==
  ASSUME HInv, RecvCertVerify
  PROVE  HInv' /\ Incomplete
<1> DEFINE s == end["server"]
           n == count.random
           m == First("server")
           g == VERIFY_Append(s, m)
           f == AwaitFinished(g, "client")
<1>0. "server" \in Ends /\ Peer("server") = "client"
  BY DEF Ends, Peer
<1>1. /\ Local("server", s, n, past) /\ Typed("server", s) /\ n \in Nat
  BY <1>0, Basics
<1>2. Receives("server", "CERTIFICATE_VERIFY") /\ Quiet
  BY DEF RecvCertVerify
<1>3. Reading("server") /\ Got("server") = g /\ s.hs = <<"recv", "CERTIFICATE_VERIFY">>
  BY <1>0, <1>2, ReceivedFacts
<1>4. Consume("server", f)
  BY <1>3 DEF RecvCertVerify
<1> HIDE DEF s, n, m
<1>5. s.hs \in Verify("server") /\ s.hs \in Keyed("server") /\ s.hs[1] = "recv"
      /\ s.hs # <<"send", "FINISHED">> /\ s.hs # <<"recv", "FINISHED">>
  BY <1>3 DEF Verify, Keyed
<1>6. AtKeyed("server", s, n) /\ s.isResume = FALSE
  BY <1>1, <1>5 DEF Local, AtKeyed, Typed
<1>7. ~Opens("server", s) /\ ~Waiting("server", s) /\ ~Closing("server", s) /\ s.hs \notin Outside("server")
  BY <1>0, <1>1, <1>5, <1>6, StageFacts, PhaseFacts DEF Opens, Typed, Waiting
<1>8. s.nextRead = <<KeyOf(s)>> /\ s.nextWrite = <<KeyOf(s)>> /\ s.ccs = CcsReset
  BY <1>5, <1>6, <1>7 DEF AtKeyed, Writes, Reads
<1>9. Alike(s, g) /\ \E y : g.transcript = Append(s.transcript, y)
  BY <1>1, AppendLike DEF Typed
<1> HIDE DEF g
<1>10. Hellos(g, n) /\ IsSeq(g.transcript)
  BY <1>1, <1>6, <1>9, HellosKept DEF AtKeyed, Typed, Alike, Basic
<1>11. HasAll("server", g, n)
  <2>1. KeyOf(g) = KeyOf(s) /\ ~Opens("server", g)
    BY <1>7, <1>9 DEF KeyOf, Alike, Basic, Opens
  <2>2. AtMostOne(g.nextWrite)
    BY <1>8, <1>9 DEF Alike, AtMostOne
  <2>3. /\ g.nextRead = <<KeyOf(g)>> /\ g.nextWrite = <<KeyOf(g)>> /\ g.ccs = CcsReset
        /\ g.isResume = FALSE /\ IsEnd(g) /\ g.master = s.master /\ g.clientRandom = s.clientRandom
    BY <2>1, <1>6, <1>8, <1>9 DEF Alike, Basic
  <2>4. Proper(g.master, n) /\ Gen(g.master) = g.clientRandom
    BY <2>3, <1>6 DEF AtKeyed
  <2> QED
    BY <2>1, <2>2, <2>3, <2>4, <1>10 DEF HasAll
<1>12. f = AwaitFinished(g, Peer("server"))
  BY <1>0
<1> HIDE DEF f
<1>13. g.state = s.state /\ g.done = s.done /\ g.clientRandom = s.clientRandom /\ g.serverRandom = s.serverRandom
  BY <1>9 DEF Alike, Basic
<1>14. Local("server", f, n, past) /\ ~Dead(s) /\ Basic(g, f) /\ ~Closing("server", f)
  BY <1>0, <1>1, <1>7, <1>11, <1>12, <1>13, AwaitsLocal
<1>15. f.clientRandom = s.clientRandom /\ f.serverRandom = s.serverRandom /\ f.done = s.done
  BY <1>13, <1>14 DEF Basic
<1>16. Moves("server", s, f, Msgs["server"])
  BY <1>7, <1>14, <1>15 DEF Moves, WaitsWith, Match
<1> QED
  BY <1>0, <1>2, <1>3, <1>4, <1>14, <1>15, <1>16, ConsumeKept DEF s, n

(* A session ticket holds the secret of the session.                         *)
LEMMA SendNewSessionTicketStep ==
  ASSUME HInv, SendNewSessionTicket
  PROVE  HInv' /\ Incomplete
<1> DEFINE e == end["server"]
           n == count.random
           m == [type |-> "NEW_SESSION_TICKET", ticket |-> <<e.session.master>>]
           f == GoTo(VERIFY_Append(e, m), "send", "CHANGE_CIPHER_SPEC")
<1>0. "server" \in Ends
  BY DEF Ends
<1>1. Send("server", m, f) /\ Quiet /\ e.hs = <<"send", "NEW_SESSION_TICKET">>
  BY DEF SendNewSessionTicket, Sends
<1>2. Local("server", e, n, past) /\ IsEnd(e)
  BY <1>0, Basics
<1>3. m.type = "NEW_SESSION_TICKET" /\ m.ticket = <<e.session.master>>
  OBVIOUS
<1> HIDE DEF m, e
<1>4. Onward(e, f, <<"send", "CHANGE_CIPHER_SPEC">>)
  BY <1>2, OnwardFacts, SideFields
<1> HIDE DEF f
<1>5. Proper(e.session.master, n)
  <2>1. e.hs \in Keyed("server")
    BY <1>1 DEF Keyed, Ticket
  <2> QED
    BY <2>1, <1>1, <1>2 DEF Local, AtKeyed
<1>6. ProperTicket(m.ticket, n) /\ m.ticket # <<>>
  BY <1>3, <1>5 DEF ProperTicket
<1>7. m.type \in MessageTypes
  BY <1>3 DEF MessageTypes, HandshakeTypes
<1> QED
  BY <1>0, <1>1, <1>3, <1>4, <1>6, <1>7, SendOnward DEF e

(* A NewSessionTicket comes in.                                              *)
LEMMA RecvNewSessionTicketStep ==
  ASSUME HInv, RecvNewSessionTicket
  PROVE  HInv' /\ Incomplete
<1> DEFINE c == end["client"]
           n == count.random
           m == First("client")
           g == VERIFY_Append(c, m)
           h == IF g.isResume THEN [g EXCEPT !.session.ticket = m.ticket] ELSE [g EXCEPT !.ticket = m.ticket]
           f == AwaitFinished(h, "server")
<1>0. "client" \in Ends /\ Peer("client") = "server"
  BY DEF Ends, Peer
<1>1. /\ Local("client", c, n, past) /\ Typed("client", c) /\ n \in Nat /\ SessionOK(c, n, Known)
      /\ \A x \in Msgs["client"] : ToClient(x, n)
  BY <1>0, Basics
<1>2. Receives("client", "NEW_SESSION_TICKET") /\ Quiet
  BY DEF RecvNewSessionTicket
<1>3. /\ Reading("client") /\ Got("client") = g /\ c.hs = <<"recv", "NEW_SESSION_TICKET">>
      /\ m \in Msgs["client"] /\ m.type = "NEW_SESSION_TICKET"
  BY <1>0, <1>2, ReceivedFacts
<1>4. Consume("client", f)
  BY <1>3 DEF RecvNewSessionTicket
<1>5. ProperTicket(m.ticket, n) /\ m.ticket # <<>>
  BY <1>1, <1>3 DEF ToClient
<1> HIDE DEF c, n, m
<1>6. c.hs \in Keyed("client") /\ c.hs[1] = "recv" /\ c.hs # <<"send", "FINISHED">> /\ c.hs # <<"recv", "FINISHED">>
  BY <1>3 DEF Ticket, Keyed
<1>7. AtKeyed("client", c, n) /\ ~Closing("client", c) /\ c.hs \notin Outside("client")
  BY <1>0, <1>1, <1>6, StageFacts, PhaseFacts DEF Local, Typed
<1>8. Waiting("client", c) <=> Opens("client", c)
  BY <1>3 DEF Waiting
<1>9. /\ c.nextRead = <<KeyOf(c)>> /\ c.ccs = CcsReset
      /\ IF Opens("client", c) THEN c.write = KeyOf(c) ELSE c.nextWrite = <<KeyOf(c)>>
  BY <1>6, <1>7, <1>8 DEF AtKeyed, Writes, Reads
<1>10. Alike(c, g) /\ \E y : g.transcript = Append(c.transcript, y)
  BY <1>1, AppendLike DEF Typed
<1> HIDE DEF g
<1>11. Hellos(g, n) /\ IsSeq(g.transcript)
  BY <1>1, <1>7, <1>10, HellosKept DEF AtKeyed, Typed, Alike, Basic
<1>12. /\ IsEnd(h) /\ h.state = c.state /\ h.clientRandom = c.clientRandom /\ h.serverRandom = c.serverRandom
       /\ h.isResume = c.isResume /\ h.done = c.done /\ h.master = c.master /\ h.transcript = g.transcript
       /\ h.read = c.read /\ h.write = c.write /\ h.nextRead = c.nextRead /\ h.nextWrite = c.nextWrite
       /\ h.ccs = c.ccs
       /\ h.session = (IF c.isResume THEN [c.session EXCEPT !.ticket = m.ticket] ELSE c.session)
       /\ h.ticket = (IF c.isResume THEN c.ticket ELSE m.ticket)
  <2>1. /\ IsEnd(g) /\ g.state = c.state /\ g.clientRandom = c.clientRandom /\ g.serverRandom = c.serverRandom
        /\ g.isResume = c.isResume /\ g.done = c.done /\ g.master = c.master /\ g.session = c.session
        /\ g.ticket = c.ticket /\ g.read = c.read /\ g.write = c.write
        /\ g.nextRead = c.nextRead /\ g.nextWrite = c.nextWrite /\ g.ccs = c.ccs
    BY <1>10 DEF Alike, Basic
  <2>2. CASE c.isResume
    <3>1. h = [g EXCEPT !.session = [g.session EXCEPT !.ticket = m.ticket]]
      BY <2>1, <2>2
    <3> HIDE DEF h
    <3> QED
      BY <2>1, <2>2, <3>1 DEF IsEnd, EndFields
  <2>3. CASE ~c.isResume
    <3>1. h = [g EXCEPT !.ticket = m.ticket]
      BY <2>1, <2>3
    <3> HIDE DEF h
    <3> QED
      BY <2>1, <2>3, <3>1 DEF IsEnd, EndFields
  <2> QED
    BY <2>2, <2>3
<1>13. f = AwaitFinished(h, Peer("client"))
  BY <1>0
<1> HIDE DEF h, f
<1>14. /\ c.isResume => c.session # NoSession /\ Gen(c.master) < c.clientRandom /\ c.master = c.session.master
       /\ ~c.isResume => Gen(c.master) = c.clientRandom
       /\ Proper(c.master, n) /\ c.isResume \in BOOLEAN
  BY <1>1, <1>7 DEF AtKeyed, Typed
<1>15. /\ IsSession(c.session) /\ ProperTicket(c.ticket, n) /\ ProperTicket(c.session.ticket, n)
       /\ c.session # NoSession => c.session.master \in Known
       /\ c.session # NoSession /\ c.clientRandom # 0 => Gen(c.session.master) < c.clientRandom
  BY <1>1 DEF SessionOK
<1>16. /\ IsSession(h.session) /\ h.session.master = c.session.master
       /\ c.isResume => h.session.ticket = m.ticket /\ h.session # NoSession
       /\ ~c.isResume => h.session = c.session
  <2>1. CASE c.isResume
    <3>1. h.session = [c.session EXCEPT !.ticket = m.ticket]
      BY <2>1, <1>12
    <3>2. IsSession(h.session) /\ h.session.master = c.session.master /\ h.session.ticket = m.ticket
      BY <3>1, <1>15 DEF IsSession
    <3> QED
      BY <2>1, <3>2, <1>5, NoSessionFacts
  <2>2. CASE ~c.isResume
    BY <2>2, <1>12, <1>15
  <2> QED
    BY <2>1, <2>2
<1>17. HasAll("client", h, n)
  <2>1. KeyOf(h) = KeyOf(c) /\ (Opens("client", h) <=> Opens("client", c))
    BY <1>12 DEF KeyOf, Opens
  <2>2. AtMostOne(h.nextWrite)
    BY <1>1, <1>12 DEF Typed
  <2>3. Hellos(h, n) /\ IsSeq(h.transcript)
    BY <1>10, <1>11, <1>12 DEF Hellos, Alike, Basic
  <2> QED
    BY <2>1, <2>2, <2>3, <1>9, <1>12, <1>14, <1>16 DEF HasAll
<1>18. /\ Local("client", f, n, past) /\ ~Dead(c) /\ Basic(h, f) /\ ~Closing("client", f)
       /\ (Opens("client", h) => Waiting("client", f))
  BY <1>0, <1>1, <1>7, <1>12, <1>13, <1>17, AwaitsLocal
<1>19. /\ f.clientRandom = c.clientRandom /\ f.serverRandom = c.serverRandom /\ f.done = c.done
       /\ f.session = h.session /\ f.ticket = h.ticket
  BY <1>12, <1>18 DEF Basic
<1>20. Moves("client", c, f, Msgs["client"])
  <2>1. Waiting("client", c) => Waiting("client", f)
    BY <1>8, <1>12, <1>18 DEF Opens
  <2> QED
    BY <2>1, <1>18, <1>19 DEF Moves, WaitsWith, Match
<1>21. SessionOK(f, n, Known)
  <2>1. ProperTicket(f.ticket, n) /\ ProperTicket(f.session.ticket, n)
    <3>1. CASE c.isResume
      BY <3>1, <1>5, <1>12, <1>15, <1>16, <1>19
    <3>2. CASE ~c.isResume
      BY <3>2, <1>5, <1>12, <1>15, <1>16, <1>19
    <3> QED
      BY <3>1, <3>2
  <2>2. f.session # NoSession => c.session # NoSession
    BY <1>14, <1>16, <1>19
  <2> QED
    BY <2>1, <2>2, <1>15, <1>16, <1>19 DEF SessionOK
<1> QED
  BY <1>0, <1>2, <1>3, <1>4, <1>18, <1>19, <1>20, <1>21, ConsumeKept DEF c, n

(* The write key is changed.                                                 *)
LEMMA SendChangeCipherSpecStep ==
  ASSUME HInv, NEW p \in Ends, SendChangeCipherSpec(p)
  PROVE  HInv' /\ Incomplete
<1> DEFINE e == end[p]
           n == count.random
           m == [type |-> "CHANGE_CIPHER_SPEC"]
           a == ActivateWrite(e)
           f == GoTo(a, "send", "FINISHED")
<1>1. /\ Local(p, e, n, past) /\ Typed(p, e) /\ IsEnd(e) /\ n \in Nat /\ n <= n /\ Level(end)
      /\ p = "client" => SessionOK(e, n, Known)
      /\ count \in [random : Nat, connection : 1 .. MaxConnections,
                    renegotiation : 0 .. MaxRenegotiations, app : 0 .. MaxApp]
      /\ \A x \in Msgs["server"] : ToServer(x, end["server"], n, past, cache)
  BY Basics
<1>2. Send(p, m, f) /\ Quiet /\ e.hs = <<"send", "CHANGE_CIPHER_SPEC">>
  BY DEF SendChangeCipherSpec, Sends
<1>3. m.type = "CHANGE_CIPHER_SPEC"
  OBVIOUS
<1> HIDE DEF e, n, m
<1>4. e.hs \in Keyed(p) /\ e.hs[1] = "send" /\ e.hs # <<"send", "FINISHED">> /\ e.hs # <<"recv", "FINISHED">>
  BY <1>2 DEF Keyed, Changing
<1>5. AtKeyed(p, e, n) /\ ~Waiting(p, e) /\ e.hs \notin Outside(p)
  BY <1>1, <1>4, StageFacts, PhaseFacts DEF Local, Typed
<1>6. e.nextWrite = <<KeyOf(e)>>
  BY <1>4, <1>5 DEF AtKeyed, Writes
<1>7. /\ Basic(e, a) /\ Holds(e, a) /\ a.write = Head(e.nextWrite) /\ a.nextWrite = <<>>
      /\ a.master = e.master /\ a.verify = e.verify /\ a.read = e.read
      /\ a.nextRead = e.nextRead /\ a.ccs = e.ccs
  BY <1>1, CcsFields
<1> HIDE DEF a
<1>8. Alike(a, f) /\ f.hs = <<"send", "FINISHED">> /\ f.transcript = a.transcript
  BY <1>7, GoToLike DEF Basic
<1> HIDE DEF f
<1>9. /\ IsEnd(f) /\ f.state = e.state /\ f.clientRandom = e.clientRandom /\ f.serverRandom = e.serverRandom
      /\ f.isResume = e.isResume /\ f.session = e.session /\ f.ticket = e.ticket /\ f.done = e.done
      /\ f.transcript = e.transcript /\ f.master = e.master /\ f.read = e.read /\ f.nextRead = e.nextRead
      /\ f.nextWrite = <<>> /\ f.ccs = e.ccs /\ f.write = KeyOf(e)
  <2>1. Head(<<KeyOf(e)>>) = KeyOf(e)
    OBVIOUS
  <2> QED
    BY <2>1, <1>6, <1>7, <1>8 DEF Alike, Basic, Holds
<1>10. KeyOf(f) = KeyOf(e) /\ (Opens(p, f) <=> Opens(p, e))
  BY <1>9 DEF KeyOf, Opens
<1>11. /\ f.hs \in Keyed(p) /\ f.hs \notin Verify(p) /\ f.hs[1] = "send" /\ f.hs # <<"recv", "FINISHED">>
       /\ f.hs # <<"send", "NEW_SESSION_TICKET">>
  BY <1>8 DEF Keyed, Changing, Verify, Ends
<1>12. (Closing(p, f) <=> Closing(p, e)) /\ ~Waiting(p, f)
  BY <1>2, <1>8, <1>10, <1>11, PairFacts DEF Closing, Waiting
<1>13. AtKeyed(p, f, n)
  <2>1. Writes(p, f)
    BY <1>8, <1>9, <1>10 DEF Writes
  <2>2. Reads(p, f)
    BY <1>4, <1>5, <1>9, <1>10, <1>11, <1>12 DEF AtKeyed, Reads
  <2>3. Hellos(f, n)
    BY <1>5, <1>9 DEF AtKeyed, Hellos
  <2> QED
    BY <2>1, <2>2, <2>3, <1>5, <1>9, <1>11 DEF AtKeyed
<1>14. Local(p, f, n, past) /\ ~Dead(e)
  <2>1. AtMostOne(f.nextRead) /\ AtMostOne(f.nextWrite) /\ IsSeq(f.transcript) /\ f.isResume \in BOOLEAN
    BY <1>1, <1>9 DEF Typed, AtMostOne
  <2> QED
    BY <1>1, <1>5, <1>9, <1>11, <1>13, <2>1, KeyedLocal
<1>15. Moves(p, e, f, Msgs[p])
  BY <1>5, <1>9, <1>12, <1>14 DEF Moves, WaitsWith, Match
<1>16. Level(end')
  <2>1. end'[p] = f /\ end'[Peer(p)] = end[Peer(p)]
    BY <1>2, SendFacts DEF HInv
  <2> QED
    BY <1>1, <1>9, <2>1, LevelKept DEF e
<1>17. p = "client" => SessionOK(f, n, Known)
  BY <1>1, <1>9, SameSessionOK DEF SameSession
<1>18. /\ m.type \in MessageTypes /\ ~IsFinished(m) /\ m.type # "CLIENT_HELLO"
       /\ ToServer(m, end["server"], n, past, cache) /\ ToClient(m, n)
  BY <1>3 DEF MessageTypes, IsFinished, ToServer, ToClient
<1>19. p = "server" => \A x \in Msgs["server"] : x.type = "CLIENT_HELLO" => f.clientRandom < x.random
  BY <1>1, <1>9 DEF ToServer, HelloOK, e
<1>20. config' = config /\ past' = past /\ cache' = cache /\ count' = count
  BY <1>2 DEF Quiet
<1> QED
  BY <1>1, <1>2, <1>14, <1>15, <1>16, <1>17, <1>18, <1>19, <1>20, SendOrdinary DEF e, n

(* The read key is changed: the message is expected only while the peer's    *)
(* Finished is.                                                              *)
LEMMA RecvChangeCipherSpecStep ==
  ASSUME HInv, NEW p \in Ends, RecvChangeCipherSpec(p)
  PROVE  HInv' /\ Incomplete
<1> DEFINE e == end[p]
           n == count.random
           a == ActivateRead(e)
           f == [a EXCEPT !.ccs.active = TRUE, !.ccs.recv = TRUE]
<1>1. /\ Local(p, e, n, past) /\ Typed(p, e) /\ IsEnd(e) /\ n \in Nat
      /\ p = "client" => SessionOK(e, n, Known)
  BY Basics
<1>2. Reading(p) /\ (e.state = "TRANSPORTING" \/ e.hs[1] = "recv")
  BY DEF RecvChangeCipherSpec, Reading
<1>3. CASE Fail(p)
  BY <1>3, FailStep
<1>4. CASE ~Fail(p)
  <2>1. /\ e.ccs.ready /\ ~e.ccs.recv /\ Quiet
        /\ Consume(p, IF e.ccs.allow /\ ~e.ccs.active THEN f ELSE [e EXCEPT !.ccs.recv = TRUE])
    BY <1>4 DEF RecvChangeCipherSpec
  <2> HIDE DEF e, n
  <2>2. e.ccs # CcsReset
    BY <2>1 DEF CcsReset
  <2>3. e.hs \notin Outside(p) /\ e.hs \notin Greeting(p) /\ e.hs \notin Flight(p)
    BY <1>1, <2>2 DEF Local, AtRest, AtGreeting, AtFlight
  <2>4. e.hs \in Keyed(p) /\ e.state # "TRANSPORTING"
    <3>1. <<"idle", "none">> \in Outside(p)
      BY DEF Outside
    <3> QED
      BY <3>1, <1>1, <2>3 DEF Typed, Stages
  <2>5. AtKeyed(p, e, n) /\ e.hs[1] = "recv" /\ ~Closing(p, e)
    BY <1>1, <1>2, <2>4, PhaseFacts DEF Local, Typed
  <2>6. /\ e.hs = <<"recv", "FINISHED">> /\ e.verify = <<Peer(p), e.master, e.transcript>>
        /\ e.ccs = CcsAwaited /\ e.nextRead = <<KeyOf(e)>>
    <3>1. CcsDone.recv
      BY DEF CcsDone, CcsAwaited, CcsReset
    <3> QED
      BY <3>1, <2>1, <2>2, <2>5 DEF AtKeyed, Reads
  <2>7. CcsAwaited.allow /\ ~CcsAwaited.active
    BY DEF CcsAwaited, CcsReset
  <2>8. Consume(p, f)
    BY <2>1, <2>6, <2>7
  <2>9. /\ Basic(e, a) /\ Holds(e, a) /\ a.read = Head(e.nextRead) /\ a.nextRead = <<>>
        /\ a.master = e.master /\ a.verify = e.verify /\ a.write = e.write
        /\ a.nextWrite = e.nextWrite /\ a.ccs = e.ccs
    BY <1>1, CcsFields
  <2> HIDE DEF a
  <2>10. /\ Alike(a, [f EXCEPT !.ccs = a.ccs]) /\ f.ccs = [a.ccs EXCEPT !.active = TRUE, !.recv = TRUE]
         /\ Basic(a, f) /\ Holds(a, f) /\ f.read = a.read /\ f.nextRead = a.nextRead
         /\ f.master = a.master /\ f.verify = a.verify /\ f.write = a.write /\ f.nextWrite = a.nextWrite
    BY <2>9 DEF Basic, Holds, Alike, IsEnd, EndFields
  <2> HIDE DEF f
  <2>11. /\ IsEnd(f) /\ f.state = e.state /\ f.hs = e.hs /\ f.clientRandom = e.clientRandom
         /\ f.serverRandom = e.serverRandom /\ f.isResume = e.isResume /\ f.session = e.session
         /\ f.ticket = e.ticket /\ f.done = e.done /\ f.transcript = e.transcript /\ f.master = e.master
         /\ f.verify = e.verify /\ f.write = e.write /\ f.nextWrite = e.nextWrite
         /\ f.nextRead = <<>> /\ f.read = KeyOf(e) /\ f.ccs = CcsDone
    <3>1. Head(<<KeyOf(e)>>) = KeyOf(e)
      OBVIOUS
    <3>2. f.ccs = CcsDone
      BY <2>6, <2>9, <2>10 DEF CcsDone
    <3> QED
      BY <3>1, <3>2, <2>6, <2>9, <2>10 DEF Basic, Holds
  <2>12. KeyOf(f) = KeyOf(e) /\ (Opens(p, f) <=> Opens(p, e))
    BY <2>11 DEF KeyOf, Opens
  <2>13. (Waiting(p, f) <=> Waiting(p, e)) /\ ~Closing(p, f)
    BY <2>5, <2>11, <2>12 DEF Waiting, Closing
  <2>14. AtKeyed(p, f, n)
    <3>1. Writes(p, f)
      BY <2>5, <2>11, <2>12, <2>13 DEF AtKeyed, Writes
    <3>2. Reads(p, f)
      BY <2>6, <2>11, <2>12, <2>13 DEF Reads
    <3>3. Hellos(f, n)
      BY <2>5, <2>11 DEF AtKeyed, Hellos
    <3> QED
      BY <3>1, <3>2, <3>3, <2>5, <2>11 DEF AtKeyed
  <2>15. Local(p, f, n, past) /\ ~Dead(e)
    <3>1. AtMostOne(f.nextRead) /\ AtMostOne(f.nextWrite) /\ IsSeq(f.transcript) /\ f.isResume \in BOOLEAN
      BY <1>1, <2>11 DEF Typed, AtMostOne
    <3> QED
      BY <1>1, <2>3, <2>4, <2>11, <2>14, <3>1, KeyedLocal
  <2>16. Moves(p, e, f, Msgs[p])
    BY <2>11, <2>13, <2>15 DEF Moves, WaitsWith, Match
  <2>17. p = "client" => SessionOK(f, n, Known)
    BY <1>1, <2>11, SameSessionOK DEF SameSession
  <2> QED
    BY <1>2, <2>1, <2>8, <2>11, <2>15, <2>16, <2>17, ConsumeKept DEF e, n
<1> QED
  BY <1>3, <1>4

-----------------------------------------------------------------------------
(* Renegotiation, data and alerts.                                           *)

(* A record is read that changes nothing.                                    *)
LEMMA ConsumeOnly ==
  ASSUME HInv, NEW p \in Ends, Reading(p), Consume(p, end[p]), Quiet
  PROVE  HInv' /\ Incomplete
<1>1. Local(p, end[p], count.random, past) /\ (p = "client" => SessionOK(end[p], count.random, Known))
  BY Basics
<1>2. Moves(p, end[p], end[p], Msgs[p])
  BY DEF Moves
<1> QED
  BY <1>1, <1>2, ConsumeKept

(* An idle end begins a renegotiation.                                       *)
LEMMA RenegotiationLocal ==
  ASSUME HInv, NEW p \in Ends, end[p].state = "TRANSPORTING", NEW f, NEW t,
         IsEnd(f), Rests(end[p], f), f.state = "RENEGOTIATION", f.hs = <<"send", t>>,
         t = (IF p = "client" THEN "CLIENT_HELLO" ELSE "HELLO_REQUEST")
  PROVE  /\ Local(p, f, count.random, past) /\ Moves(p, end[p], f, Msgs[p])
         /\ f.clientRandom = end[p].clientRandom /\ f.done = end[p].done
         /\ p = "client" => SessionOK(f, count.random, Known)
<1> DEFINE e == end[p]
           n == count.random
<1>1. /\ Local(p, e, n, past) /\ Typed(p, e) /\ n \in Nat
      /\ p = "client" => SessionOK(e, n, Known)
  BY Basics
<1> HIDE DEF e, n
<1>2. e.hs = <<"idle", "none">> /\ ~Dead(e)
  BY <1>1 DEF Typed, Dead, e
<1>3. e.hs \in Outside(p) /\ f.hs \in Outside(p) /\ f.hs # <<"idle", "none">>
  <2>1. f.hs # <<"idle", "none">>
    BY PairFacts
  <2> QED
    BY <1>2, <2>1 DEF Outside, Ends
<1>4. Local(p, f, n, past) /\ \A M : Moves(p, e, f, M)
  BY <1>1, <1>2, <1>3, RestLocal DEF e
<1>5. e.clientRandom = 0
  BY <1>1, <1>3 DEF Local, AtRest
<1>6. /\ f.clientRandom = e.clientRandom /\ f.done = e.done /\ f.session = e.session /\ f.ticket = <<>>
      /\ f.clientRandom = 0
  BY <1>5 DEF Rests, e
<1>7. p = "client" => SessionOK(f, n, Known)
  <2>1. ProperTicket(f.ticket, n)
    BY <1>6 DEF ProperTicket
  <2> QED
    BY <2>1, <1>1, <1>6 DEF SessionOK
<1> QED
  BY <1>4, <1>6, <1>7 DEF e, n

(* The application asks for a renegotiation.                                 *)
LEMMA HITLS_RenegotiateStep ==
  ASSUME HInv, NEW p \in Ends, HITLS_Renegotiate(p)
  PROVE  HInv' /\ Incomplete
<1> DEFINE e == end[p]
           i == HS_Init(e)
           r == [i EXCEPT !.state = "RENEGOTIATION", !.isRenegotiation = TRUE, !.userRenego = TRUE]
           t == IF p = "client" THEN "CLIENT_HELLO" ELSE "HELLO_REQUEST"
           f == GoTo(r, "send", t)
<1>0. Peer(p) \in Ends /\ p # Peer(p)
  BY PeerFacts
<1>1. /\ IsEnd(e) /\ Level(end) /\ count.random \in Nat
      /\ count \in [random : Nat, connection : 1 .. MaxConnections,
                    renegotiation : 0 .. MaxRenegotiations, app : 0 .. MaxApp]
      /\ \A x \in Msgs["server"] : ToServer(x, end["server"], count.random, past, cache)
  BY Basics
<1>2. /\ e.state = "TRANSPORTING" /\ config' = config /\ wire' = wire /\ cache' = cache /\ past' = past
      /\ count.renegotiation < MaxRenegotiations
      /\ count' = [count EXCEPT !.renegotiation = @ + 1]
  BY DEF HITLS_Renegotiate
<1>3. DOMAIN end' = Ends /\ end'[p] = f /\ end'[Peer(p)] = end[Peer(p)]
  BY <1>0 DEF HITLS_Renegotiate, HInv, Shape
<1>4. /\ count' \in [random : Nat, connection : 1 .. MaxConnections,
                     renegotiation : 0 .. MaxRenegotiations, app : 0 .. MaxApp]
      /\ count'.random = count.random /\ count.random <= count'.random
  BY <1>1, <1>2, HandshakeAssumption DEF HandshakeAssumption
<1> HIDE DEF e
<1>5. Rests(e, i)
  BY <1>1, InitFields
<1> HIDE DEF i
<1>6. Rests(e, r) /\ r.state = "RENEGOTIATION"
  BY <1>5 DEF Rests, IsEnd, EndFields
<1> HIDE DEF r, t
<1>7. Alike(r, f) /\ f.hs = <<"send", t>> /\ f.transcript = r.transcript
  BY <1>6, GoToLike DEF Rests
<1> HIDE DEF f
<1>8. IsEnd(f) /\ Rests(e, f) /\ f.state = "RENEGOTIATION" /\ f.hs = <<"send", t>>
  BY <1>6, <1>7 DEF Rests, Alike, Basic
<1>9. /\ Local(p, f, count.random, past) /\ Moves(p, e, f, Msgs[p])
      /\ f.clientRandom = e.clientRandom /\ f.done = e.done
      /\ p = "client" => SessionOK(f, count.random, Known)
  BY <1>2, <1>8, RenegotiationLocal DEF e, t
<1>10. Level(end')
  BY <1>1, <1>3, <1>9, LevelKept DEF e
<1>11. Msgs' = Msgs
  BY <1>2 DEF Msgs
<1>12. DOMAIN wire' = Ends /\ (\A q \in Ends : IsSeq(wire'[q])) /\ HelloOrder(wire'["server"])
  BY <1>2 DEF HInv, Shape, Wires
<1>13. \A x \in Msgs["server"] : x.type = "CLIENT_HELLO" => end'["server"].clientRandom < x.random
  <2>1. end'["server"].clientRandom = end["server"].clientRandom
    BY <1>3, <1>9 DEF e, Ends, Peer
  <2> QED
    BY <2>1, <1>1 DEF ToServer, HelloOK
<1>14. Local(p, end'[p], count'.random, past) /\ Moves(p, end[p], end'[p], Msgs[p])
       /\ (p = "client" => SessionOK(end'[p], count'.random, Known))
  BY <1>3, <1>4, <1>9 DEF e
<1>15. /\ \A q \in Ends : \A m \in Msgs'[q] : m \in Msgs[q] \/ (m.type \in MessageTypes /\ ~IsFinished(m))
       /\ \A m \in Msgs'["client"] : m \in Msgs["client"] \/ ToClient(m, count'.random)
       /\ \A m \in Msgs'["server"] :
           \/ m \in Msgs["server"] /\ (m.type = "CLIENT_HELLO" => end'["server"].clientRandom < m.random)
           \/ ToServer(m, end'["server"], count'.random, past, cache')
  BY <1>11, <1>13
<1> QED
  BY <1>2, <1>3, <1>4, <1>10, <1>12, <1>14, <1>15, Ordinary

(* A HelloRequest comes in: obeyed, refused or ignored.                      *)
LEMMA RecvHelloRequestStep ==
  ASSUME HInv, RecvHelloRequest
  PROVE  HInv' /\ Incomplete
<1> DEFINE e == end["client"]
           i == HS_Init(e)
           r == [i EXCEPT !.state = "RENEGOTIATION", !.isRenegotiation = TRUE]
           f == GoTo(r, "send", "CLIENT_HELLO")
<1>0. "client" \in Ends /\ Peer("client") = "server"
  BY DEF Ends, Peer
<1>1. Reading("client") /\ Quiet
  BY DEF RecvHelloRequest
<1>2. IsEnd(e)
  BY <1>0, Basics
<1>3. CASE Consume("client", e)
  BY <1>0, <1>1, <1>3, ConsumeOnly
<1>4. CASE e.state = "TRANSPORTING" /\ Consume("client", f)
  <2> HIDE DEF e
  <2>1. Rests(e, i)
    BY <1>2, InitFields
  <2> HIDE DEF i
  <2>2. Rests(e, r) /\ r.state = "RENEGOTIATION"
    BY <2>1 DEF Rests, IsEnd, EndFields
  <2> HIDE DEF r
  <2>3. Alike(r, f) /\ f.hs = <<"send", "CLIENT_HELLO">> /\ f.transcript = r.transcript
    BY <2>2, GoToLike DEF Rests
  <2> HIDE DEF f
  <2>4. IsEnd(f) /\ Rests(e, f) /\ f.state = "RENEGOTIATION" /\ f.hs = <<"send", "CLIENT_HELLO">>
    BY <2>2, <2>3 DEF Rests, Alike, Basic
  <2>5. /\ Local("client", f, count.random, past) /\ Moves("client", e, f, Msgs["client"])
        /\ f.clientRandom = e.clientRandom /\ f.done = e.done
        /\ SessionOK(f, count.random, Known)
    BY <1>0, <1>4, <2>4, RenegotiationLocal DEF e
  <2> QED
    BY <1>0, <1>1, <1>4, <2>5, ConsumeKept DEF e
<1>5. CASE /\ wire' = [wire EXCEPT !["client"] = Tail(@),
                                  !["server"] = Append(@, Record("client", Alert("warning")))]
           /\ UNCHANGED end
  BY <1>0, <1>1, <1>5, WarnStep
<1> QED
  BY <1>3, <1>4, <1>5 DEF RecvHelloRequest

(* Application data comes in.                                                *)
LEMMA RecvAppDataStep ==
  ASSUME HInv, NEW p \in Ends, RecvAppData(p)
  PROVE  HInv' /\ Incomplete
BY ConsumeOnly DEF RecvAppData

(* Data goes out.                                                            *)
LEMMA HITLS_WriteStep ==
  ASSUME HInv, NEW p \in Ends, HITLS_Write(p)
  PROVE  HInv' /\ Incomplete
<1> DEFINE q == Peer(p)
           m == [type |-> "APP_DATA"]
           x == [key |-> end[p].write, msg |-> m]
<1>0. q \in Ends /\ q # p /\ Ends = {p, q} /\ "client" \in Ends /\ "server" \in Ends
      /\ (p = "client" => q = "server") /\ (p = "server" => q = "client")
  BY DEF Ends, Peer
<1>1. /\ Local(p, end[p], count.random, past) /\ Level(end) /\ count.random \in Nat
      /\ p = "client" => SessionOK(end[p], count.random, Known)
      /\ count \in [random : Nat, connection : 1 .. MaxConnections,
                    renegotiation : 0 .. MaxRenegotiations, app : 0 .. MaxApp]
      /\ \A y \in Msgs["server"] : ToServer(y, end["server"], count.random, past, cache)
  BY Basics
<1>2. /\ config' = config /\ end' = end /\ cache' = cache /\ past' = past
      /\ count.app < MaxApp /\ count' = [count EXCEPT !.app = @ + 1]
      /\ wire' = [wire EXCEPT ![q] = Append(@, x)]
  BY DEF HITLS_Write, Record
<1>3. /\ count' \in [random : Nat, connection : 1 .. MaxConnections,
                     renegotiation : 0 .. MaxRenegotiations, app : 0 .. MaxApp]
      /\ count'.random = count.random /\ count.random <= count'.random
  BY <1>1, <1>2, HandshakeAssumption DEF HandshakeAssumption
<1>4. m.type = "APP_DATA" /\ x.msg = m
  OBVIOUS
<1>5. /\ DOMAIN wire' = Ends /\ \A r \in Ends : IsSeq(wire'[r])
      /\ \A r \in Ends : Msgs'[r] = IF r = q THEN Msgs[r] \cup {m} ELSE Msgs[r]
      /\ q = "client" => wire'["server"] = wire["server"]
  BY <1>0, <1>2, WireAppend DEF HInv
<1>6. HelloOrder(wire'["server"])
  <2>1. HelloOrder(wire["server"]) /\ IsSeq(wire["server"]) /\ DOMAIN wire = Ends
    BY <1>0 DEF HInv, Wires, Shape
  <2>2. CASE q = "client"
    BY <2>1, <2>2, <1>5
  <2>3. CASE q = "server"
    <3>1. wire'["server"] = Append(wire["server"], x)
      BY <2>1, <2>3, <1>0, <1>2
    <3>2. x.msg.type # "CLIENT_HELLO"
      BY <1>4
    <3> HIDE DEF x
    <3> QED
      BY <2>1, <3>1, <3>2, AppendMsgs
  <2> QED
    BY <2>2, <2>3, <1>0 DEF Ends
<1> HIDE DEF m, x
<1>7. /\ \A r \in Ends : \A y \in Msgs'[r] : y \in Msgs[r] \/ (y.type \in MessageTypes /\ ~IsFinished(y))
      /\ \A y \in Msgs'["client"] : y \in Msgs["client"] \/ ToClient(y, count'.random)
      /\ \A y \in Msgs'["server"] :
           \/ y \in Msgs["server"] /\ (y.type = "CLIENT_HELLO" => end'["server"].clientRandom < y.random)
           \/ ToServer(y, end'["server"], count'.random, past, cache')
  <2>1. m.type \in MessageTypes /\ ~IsFinished(m) /\ ToClient(m, count'.random)
        /\ ToServer(m, end'["server"], count'.random, past, cache')
    BY <1>4 DEF MessageTypes, IsFinished, ToClient, ToServer
  <2>2. \A r \in Ends : \A y \in Msgs'[r] : y \in Msgs[r] \/ y = m
    BY <1>5
  <2>3. \A y \in Msgs["server"] : y.type = "CLIENT_HELLO" => end'["server"].clientRandom < y.random
    BY <1>1, <1>2 DEF ToServer, HelloOK
  <2> QED
    BY <2>1, <2>2, <2>3, <1>0
<1>8. DOMAIN end' = Ends /\ end'[Peer(p)] = end[Peer(p)] /\ Level(end')
  BY <1>1, <1>2 DEF HInv, Shape
<1>9. Moves(p, end[p], end[p], Msgs[p])
  BY DEF Moves
<1>10. Local(p, end'[p], count'.random, past) /\ Moves(p, end[p], end'[p], Msgs[p])
       /\ (p = "client" => SessionOK(end'[p], count'.random, Known))
  BY <1>1, <1>2, <1>3, <1>9
<1> QED
  BY <1>2, <1>3, <1>5, <1>6, <1>7, <1>8, <1>10, Ordinary

(* A fatal alert: the end learns of the failure of the other.                *)
LEMMA RecvAlertStep ==
  ASSUME HInv, NEW p \in Ends, RecvAlert(p)
  PROVE  HInv' /\ Incomplete
<1> DEFINE q == Peer(p)
           f == Disabled(end[p])
<1>0. q \in Ends /\ q # p /\ Ends = {p, q} /\ "client" \in Ends /\ "server" \in Ends
      /\ (p = "client" => q = "server") /\ (p = "server" => q = "client")
  BY DEF Ends, Peer
<1>1. CASE Fail(p)
  BY <1>1, FailStep
<1>2. CASE Consume(p, end[p]) /\ Quiet
  BY <1>2, ConsumeOnly DEF RecvAlert
<1>3. CASE /\ wire' = [wire EXCEPT ![p] = <<>>]
           /\ end' = [end EXCEPT ![p] = f]
           /\ DisableSession(p)
           /\ UNCHANGED <<config, count, past>>
  <2>1. DOMAIN end' = Ends /\ end'[p] = f /\ end'[q] = end[q]
    BY <1>0, <1>3 DEF HInv, Shape
  <2>2. DOMAIN wire' = Ends /\ wire'[p] = <<>> /\ wire'[q] = wire[q]
    BY <1>0, <1>3 DEF HInv, Shape
  <2>3. \A r \in Ends : IsSeq(wire'[r])
    BY <1>0, <2>2, EmptySeq DEF HInv, Shape
  <2>4. Msgs'[p] = {} /\ Msgs'[q] = Msgs[q]
    BY <1>0, <2>2, EmptySeq DEF Msgs
  <2>5. HelloOrder(wire'["server"])
    <3>1. HelloOrder(<<>>)
      BY EmptySeq DEF HelloOrder
    <3> QED
      BY <3>1, <1>0, <2>2 DEF HInv, Wires
  <2>6. config' = config /\ past' = past /\ count' = count
    BY <1>3
  <2>7. DOMAIN cache' \subseteq DOMAIN cache /\ \A id \in DOMAIN cache' : cache'[id] = cache[id]
    BY <1>3, WithoutFacts DEF DisableSession
  <2>8. /\ count \in [random : Nat, connection : 1 .. MaxConnections,
                      renegotiation : 0 .. MaxRenegotiations, app : 0 .. MaxApp]
        /\ count.random <= count.random /\ count.random \in Nat /\ Level(end)
        /\ Local(p, end[p], count.random, past)
        /\ \A y \in Msgs["server"] : ToServer(y, end["server"], count.random, past, cache)
    BY Basics
  <2>9. /\ Local(p, f, count.random, past) /\ Moves(p, end[p], f, Msgs[p])
        /\ f.clientRandom = 0 /\ f.done = end[p].done /\ SessionOK(f, count.random, Known)
    BY <2>8, FinishedFacts, DisabledFacts
  <2>10. Level(end')
    BY <2>1, <2>8, <2>9, LevelKept
  <2> HIDE DEF f, q
  <2>11. \A r \in Ends : \A y \in Msgs'[r] : y \in Msgs[r]
    BY <1>0, <2>4
  <2>12. \A y \in Msgs'["server"] : y.type = "CLIENT_HELLO" => end'["server"].clientRandom < y.random
    <3>1. CASE p = "server"
      BY <3>1, <2>4
    <3>2. CASE p = "client"
      BY <3>2, <1>0, <2>1, <2>4, <2>8 DEF ToServer, HelloOK
    <3> QED
      BY <3>1, <3>2 DEF Ends
  <2>13. end'[Peer(p)] = end[Peer(p)] /\ count'.random = count.random
    BY <2>1, <2>6 DEF q
  <2>14. /\ Local(p, end'[p], count'.random, past) /\ Moves(p, end[p], end'[p], Msgs[p])
         /\ SessionOK(end'[p], count'.random, Known)
    BY <2>1, <2>9, <2>13
  <2>15. /\ \A r \in Ends : \A y \in Msgs'[r] : y \in Msgs[r] \/ (y.type \in MessageTypes /\ ~IsFinished(y))
         /\ \A y \in Msgs'["client"] : y \in Msgs["client"] \/ ToClient(y, count'.random)
         /\ \A y \in Msgs'["server"] :
              \/ y \in Msgs["server"] /\ (y.type = "CLIENT_HELLO" => end'["server"].clientRandom < y.random)
              \/ ToServer(y, end'["server"], count'.random, past, cache')
    BY <1>0, <2>11, <2>12
  <2> QED
    BY <2>1, <2>2, <2>3, <2>5, <2>6, <2>7, <2>8, <2>10, <2>13, <2>14, <2>15, Ordinary
<1> QED
  BY <1>1, <1>2, <1>3 DEF RecvAlert

(* A record that is refused.                                                 *)
LEMMA RecvRefusedStep ==
  ASSUME HInv, NEW p \in Ends, RecvRefused(p)
  PROVE  HInv' /\ Incomplete
BY FailStep DEF RecvRefused

-----------------------------------------------------------------------------
(* Finished.                                                                 *)

(* All of the invariant but what relates the two ends.                       *)
LEMMA Parts ==
  ASSUME HInv, NEW p \in Ends,
         DOMAIN end' = Ends, end'[Peer(p)] = end[Peer(p)],
         DOMAIN wire' = Ends, \A r \in Ends : IsSeq(wire'[r]), HelloOrder(wire'["server"]),
         config' = config, past' = past, count' = count,
         \A id \in DOMAIN cache' : cache'[id].id = id /\ Proper(cache'[id].master, count.random),
         \A q \in Ends : \A m \in Msgs'[q] : m \in Msgs[q] \/ m.type \in MessageTypes,
         \A m \in Msgs'["client"] : m \in Msgs["client"] \/ ToClient(m, count.random),
         \A m \in Msgs'["server"] : ToServer(m, end'["server"], count.random, past, cache'),
         Local(p, end'[p], count.random, past),
         SessionOK(end'["client"], count.random, Known')
  PROVE  Shape' /\ Locals' /\ Wires' /\ Store'
<1> DEFINE q == Peer(p)
           n == count.random
<1>0. q \in Ends /\ q # p /\ Ends = {p, q}
  BY PeerFacts
<1>1. Shape'
  <2>1. \A x \in Ends : \A m \in Msgs'[x] : m.type \in MessageTypes
    BY DEF HInv, Shape, MessageTypes
  <2>2. config' \in Configs /\ \A id \in DOMAIN cache' : cache'[id].id = id
    BY DEF HInv, Shape
  <2>3. count' \in [random : Nat, connection : 1 .. MaxConnections,
                    renegotiation : 0 .. MaxRenegotiations, app : 0 .. MaxApp]
    BY DEF HInv, Shape
  <2> QED
    BY <2>1, <2>2, <2>3 DEF Shape, MessageTypes
<1>2. Locals'
  <2>1. Local(q, end'[q], n, past)
    BY <1>0 DEF HInv, Locals
  <2>2. \A x \in Ends : Local(x, end'[x], n, past)
    BY <1>0, <2>1
  <2>3. count'.random = n /\ past' = past
    OBVIOUS
  <2> QED
    BY <2>2, <2>3 DEF Locals
<1>3. Wires'
  <2>1. \A m \in Msgs'["client"] : ToClient(m, n)
    BY DEF HInv, Wires
  <2>2. count'.random = n /\ past' = past
    OBVIOUS
  <2> HIDE DEF n
  <2> QED
    BY <2>1, <2>2 DEF Wires, n
<1>4. Store'
  <2>1. \A m \in past' : Proper(m, n)
    BY DEF HInv, Store
  <2>2. count'.random = n
    OBVIOUS
  <2> QED
    BY <2>1, <2>2 DEF Store
<1> QED
  BY <1>1, <1>2, <1>3, <1>4

(* What verify data says of the handshake it was computed in.                *)
LEMMA VerifyData ==
  ASSUME NEW p \in Ends, NEW e, NEW n \in Nat, Typed(p, e), AtKeyed(p, e, n), NEW x \in Ends, NEW v,
         v = <<x, e.master, e.transcript>>
  PROVE  /\ v[1] = x /\ ClientOf(v) = e.clientRandom /\ ServerOf(v) = e.serverRandom
         /\ Full(v) <=> ~e.isResume
         /\ x = p => (ByOpener(v) <=> Opens(p, e))
         /\ x = Peer(p) => (ByOpener(v) <=> ~Opens(p, e))
         /\ HandshakeOf(v) = [read |-> KeyOf(e), write |-> KeyOf(e), resumed |-> e.isResume]
         /\ e.clientRandom \in 1 .. n /\ e.serverRandom \in 1 .. n
         /\ Proper(e.master, n) /\ Gen(e.master) <= e.clientRandom
         /\ Match(p, e, v)
<1>1. v[1] = x /\ v[2] = e.master /\ v[3] = e.transcript
  OBVIOUS
<1>2. /\ e.clientRandom \in 1 .. n /\ e.serverRandom \in 1 .. n
      /\ e.transcript[1] = <<"CLIENT_HELLO", e.clientRandom>>
      /\ e.transcript[2] = <<"SERVER_HELLO", e.serverRandom>>
  BY DEF AtKeyed, Hellos
<1>3. ClientOf(v) = e.clientRandom /\ ServerOf(v) = e.serverRandom
  BY <1>1, <1>2 DEF ClientOf, ServerOf
<1>4. Gen(e.master) \in Nat /\ Proper(e.master, n) /\ e.isResume \in BOOLEAN
      /\ (e.isResume => Gen(e.master) < e.clientRandom) /\ (~e.isResume => Gen(e.master) = e.clientRandom)
  BY DEF AtKeyed, Proper, Typed
<1>5. Full(v) <=> ~e.isResume
  BY <1>1, <1>2, <1>3, <1>4 DEF Full
<1>6. x = p => (ByOpener(v) <=> Opens(p, e))
  BY <1>1, <1>5 DEF ByOpener, Opens
<1>7. x = Peer(p) => (ByOpener(v) <=> ~Opens(p, e))
  BY <1>1, <1>5 DEF ByOpener, Opens, Ends, Peer
<1>8. HandshakeOf(v) = [read |-> KeyOf(e), write |-> KeyOf(e), resumed |-> e.isResume]
  <2>1. (~Full(v)) = e.isResume
    BY <1>4, <1>5 DEF Full
  <2>2. [master |-> v[2], client |-> ClientOf(v), server |-> ServerOf(v)] = KeyOf(e)
    BY <1>1, <1>3 DEF KeyOf
  <2> QED
    BY <2>1, <2>2 DEF HandshakeOf
<1> QED
  BY <1>1, <1>2, <1>3, <1>4, <1>5, <1>6, <1>7, <1>8 DEF Match

(* An end completes its handshake.                                           *)
LEMMA Completed ==
  ASSUME NEW p \in Ends, NEW e, NEW n \in Nat, NEW old, Local(p, e, n, old), e.hs \in Keyed(p),
         NEW k, IsEnd(k), k.done = e.done, k.isResume = e.isResume, k.ccs = CcsReset,
         k.read = KeyOf(e), k.write = KeyOf(e), AtMostOne(k.nextRead), AtMostOne(k.nextWrite),
         NEW f, f = Complete(k)
  PROVE  /\ Local(p, f, n, old) /\ f.clientRandom = 0 /\ f.session = k.session /\ f.ticket = <<>>
         /\ f.done = Append(e.done, [read |-> KeyOf(e), write |-> KeyOf(e), resumed |-> e.isResume])
         /\ ~Closing(p, f) /\ ~Waiting(p, f)
<1> DEFINE h == [read |-> k.read, write |-> k.write, resumed |-> k.isResume]
           d == [k EXCEPT !.done = Append(@, h)]
<1>1. Typed(p, e) /\ Older(e, n, old) /\ AtKeyed(p, e, n)
  BY DEF Local
<1>2. /\ e.clientRandom \in 1 .. n /\ Proper(e.master, n) /\ Gen(e.master) <= e.clientRandom
  <2>1. \E v : v = <<p, e.master, e.transcript>>
    OBVIOUS
  <2> QED
    BY <1>1, <2>1, VerifyData
<1>3. f = Connected(d)
  BY DEF Complete
<1>4. h = [read |-> KeyOf(e), write |-> KeyOf(e), resumed |-> e.isResume] /\ h.read = KeyOf(e)
  OBVIOUS
<1> HIDE DEF h
<1>5. /\ IsEnd(d) /\ d.done = Append(e.done, h) /\ d.ccs = CcsReset /\ d.isResume = e.isResume
      /\ d.session = k.session /\ d.nextRead = k.nextRead /\ d.nextWrite = k.nextWrite
  BY DEF IsEnd, EndFields
<1> HIDE DEF d
<1>6. Rests(d, f) /\ f.hs = <<"idle", "none">> /\ f.state = "TRANSPORTING"
  BY <1>3, <1>5, ConnectedFields
<1>7. /\ IsEnd(f) /\ f.clientRandom = 0 /\ f.serverRandom = 0 /\ f.transcript = <<>> /\ f.ticket = <<>>
      /\ f.ccs = CcsReset /\ f.isResume = e.isResume /\ f.session = k.session /\ f.done = Append(e.done, h)
      /\ f.nextRead = k.nextRead /\ f.nextWrite = k.nextWrite
  BY <1>5, <1>6 DEF Rests
<1>8. /\ IsSeq(f.done) /\ DOMAIN f.done = 1 .. Len(e.done) + 1 /\ Len(e.done) \in Nat
      /\ DOMAIN e.done = 1 .. Len(e.done)
      /\ f.done[Len(e.done) + 1] = h /\ \A i \in 1 .. Len(e.done) : f.done[i] = e.done[i]
  BY <1>1, <1>7, AppendFacts DEF Typed
<1>9. f.hs \in Outside(p) /\ f.hs[1] = "idle"
  BY <1>6, PairFacts DEF Outside
<1>10. Typed(p, f)
  BY <1>1, <1>6, <1>7, <1>8, <1>9, EmptySeq DEF Typed, Stages
<1>11. Older(f, n, old)
  <2>1. h.read.client = e.clientRandom /\ h.read.master = e.master
    BY <1>4 DEF KeyOf
  <2> SUFFICES ASSUME NEW i \in DOMAIN f.done
               PROVE  /\ f.done[i].read.client \in 1 .. n
                      /\ Proper(f.done[i].read.master, n)
                      /\ Gen(f.done[i].read.master) <= f.done[i].read.client
    BY <1>7 DEF Older
  <2>2. CASE i = Len(e.done) + 1
    BY <2>1, <2>2, <1>2, <1>8
  <2>3. CASE i \in 1 .. Len(e.done)
    BY <2>3, <1>1, <1>8 DEF Older
  <2> QED
    BY <2>2, <2>3, <1>8
<1>12. AtRest(f)
  BY <1>7 DEF AtRest
<1>13. Local(p, f, n, old)
  BY <1>9, <1>10, <1>11, <1>12, StageFacts DEF Local
<1>14. ~Closing(p, f) /\ ~Waiting(p, f)
  BY <1>9, <1>10, PhaseFacts DEF Typed
<1> QED
  BY <1>4, <1>7, <1>13, <1>14

(* At most one handshake has been completed.                                 *)
Longer(e, f) == \E h : f.done \in {e.done, Append(e.done, h)}

(* The secrets agreed on stay known.                                         *)
LEMMA KnownGrows ==
  ASSUME HInv, NEW p \in Ends, past' = past, end'[Peer(p)] = end[Peer(p)], Longer(end[p], end'[p])
  PROVE  Known \subseteq Known'
<1> PICK h : end'[p].done \in {end[p].done, Append(end[p].done, h)}
  BY DEF Longer
<1> DEFINE c == end["client"].done
           s == end["server"].done
           cc == end'["client"].done
           ss == end'["server"].done
<1>0. "client" \in Ends /\ "server" \in Ends /\ Ends = {p, Peer(p)}
  BY PeerFacts DEF Ends
<1>1. IsSeq(c) /\ IsSeq(s)
  BY <1>0, Basics DEF Typed
<1>2. (cc = c \/ cc = Append(c, h)) /\ (ss = s \/ ss = Append(s, h))
  BY <1>0
<1>3. /\ DOMAIN c \subseteq DOMAIN cc /\ DOMAIN s \subseteq DOMAIN ss
      /\ \A i \in DOMAIN c : cc[i] = c[i]
  <2> HIDE DEF c, s, cc, ss
  <2>1. /\ DOMAIN c \subseteq DOMAIN Append(c, h) /\ DOMAIN s \subseteq DOMAIN Append(s, h)
        /\ \A i \in DOMAIN c : Append(c, h)[i] = c[i]
    <3>1. /\ Len(c) \in Nat /\ DOMAIN c = 1 .. Len(c) /\ DOMAIN Append(c, h) = 1 .. Len(c) + 1
          /\ \A i \in 1 .. Len(c) : Append(c, h)[i] = c[i]
      BY <1>1, AppendFacts
    <3>2. Len(s) \in Nat /\ DOMAIN s = 1 .. Len(s) /\ DOMAIN Append(s, h) = 1 .. Len(s) + 1
      BY <1>1, AppendFacts
    <3> QED
      BY <3>1, <3>2
  <2> QED
    BY <2>1, <1>2
<1>4. Known = past \cup {c[i].read.master : i \in {j \in DOMAIN c : j \in DOMAIN s}}
  BY DEF Known
<1>5. Known' = past \cup {cc[i].read.master : i \in {j \in DOMAIN cc : j \in DOMAIN ss}}
  BY DEF Known
<1> HIDE DEF c, s, cc, ss
<1> QED
  BY <1>3, <1>4, <1>5

(* An end that waits, or has failed, does not close the handshake.           *)
LEMMA WaitsNotCloses ==
  ASSUME NEW p \in Ends, NEW e, Typed(p, e), NEW r, WaitsWith(p, e, r)
  PROVE  ~Closing(p, e)
<1>1. CASE Dead(e)
  <2>1. e.hs[1] = "idle"
    BY <1>1, PairFacts DEF Typed, Dead
  <2> QED
    BY <2>1, PhaseFacts DEF Typed
<1>2. CASE Waiting(p, e)
  BY <1>2, PhaseFacts DEF Typed
<1> QED
  BY <1>1, <1>2 DEF WaitsWith

(* The opener sends its Finished: both ends are level, and it will wait.     *)
LEMMA OpenerSends ==
  ASSUME NEW p \in Ends, NEW E, NEW F, NEW M, NEW N, NEW v,
         Ahead(E), Level(E), Closings(E), Evidence(E, M),
         F[Peer(p)] = E[Peer(p)], Moves(p, E[p], F[p], M[p]),
         F[p].clientRandom = E[p].clientRandom, E[p].clientRandom # 0, Waiting(p, F[p]),
         ByOpener(v), ClientOf(v) = E[p].clientRandom,
         \A m \in N[p] : IsFinished(m) => m \in M[p],
         \A m \in N[Peer(p)] : IsFinished(m) => m \in M[Peer(p)] \/ m.verify = v
  PROVE  Ahead(F) /\ Level(F) /\ Closings(F) /\ Evidence(F, N)
<1> DEFINE q == Peer(p)
<1>0. q \in Ends /\ q # p /\ Peer(q) = p /\ Ends = {p, q}
  BY PeerFacts
<1>1. F[p].done = E[p].done
  BY DEF Moves
<1>2. Level(F)
  BY <1>1, LevelKept
<1>3. \A x \in Ends : \A m \in M[x] : IsFinished(m) => m \in M[x]
  OBVIOUS
<1>4. Ahead(F) /\ Closings(F) /\ Evidence(F, M)
  BY <1>2, <1>3, BothKept
<1>5. Evidence(F, N)
  <2> SUFFICES ASSUME NEW x \in Ends, NEW m \in N[x], IsFinished(m), Match(x, F[x], m.verify)
               PROVE  Shown(x, F, m.verify)
    BY DEF Evidence
  <2>1. CASE m \in M[x]
    BY <2>1, <1>4 DEF Evidence
  <2>2. CASE x = q /\ m.verify = v
    <3>1. F[q].clientRandom = F[p].clientRandom
      BY <2>2 DEF Match
    <3>2. F["client"].clientRandom = F["server"].clientRandom /\ F["server"].clientRandom # 0
      BY <3>1, <1>0 DEF Ends
    <3>3. F[q].done = F[p].done
      BY <3>2, <1>0, <1>2 DEF Level, Ends
    <3>4. WaitsWith(p, F[p], ClientOf(v))
      BY DEF WaitsWith
    <3> QED
      BY <2>2, <3>3, <3>4, <1>0 DEF Shown
  <2> QED
    BY <2>1, <2>2, <1>0
<1> QED
  BY <1>2, <1>4, <1>5

(* The closer sends its Finished, and has completed the handshake.           *)
LEMMA CloserSends ==
  ASSUME NEW p \in Ends, NEW E, NEW F, NEW M, NEW N, NEW v,
         Closings(E), Evidence(E, M), F[Peer(p)] = E[Peer(p)],
         Typed(p, E[p]), Typed(Peer(p), E[Peer(p)]), Closing(p, E[p]), ~Dead(E[p]),
         F[p].done = Append(E[p].done, HandshakeOf(v)), F[p].clientRandom = 0, ~Closing(p, F[p]),
         ~ByOpener(v), ClientOf(v) = E[p].clientRandom,
         \A m \in N[p] : IsFinished(m) => ClientOf(m.verify) # 0,
         \A m \in N[Peer(p)] : IsFinished(m) => m \in M[Peer(p)] \/ m.verify = v
  PROVE  Ahead(F) /\ Level(F) /\ Closings(F) /\ Evidence(F, N)
<1> DEFINE q == Peer(p)
<1>0. q \in Ends /\ q # p /\ Peer(q) = p /\ Ends = {p, q}
  BY PeerFacts
<1>1. E[p].done = E[q].done /\ WaitsWith(q, E[q], E[p].clientRandom)
  BY <1>0 DEF Closings, Ends
<1>2. HandshakeOf(v).read.client = ClientOf(v)
  BY DEF HandshakeOf
<1>3. Ahead(F)
  <2>1. F[p].done = Append(F[Peer(p)].done, HandshakeOf(v))
        /\ WaitsWith(Peer(p), F[Peer(p)], HandshakeOf(v).read.client)
    BY <1>1, <1>2
  <2> QED
    BY <2>1 DEF Ahead
<1>4. Level(F)
  BY <1>0 DEF Level, Ends
<1>5. Closings(F)
  <2>1. ~Closing(q, F[q])
    BY <1>0, <1>1, WaitsNotCloses
  <2>2. \A x \in Ends : ~Closing(x, F[x])
    BY <2>1, <1>0
  <2> QED
    BY <2>2 DEF Closings
<1>6. \A r : ~WaitsWith(p, E[p], r)
  BY PhaseFacts DEF WaitsWith, Typed
<1>7. Evidence(F, N)
  <2> SUFFICES ASSUME NEW x \in Ends, NEW m \in N[x], IsFinished(m), Match(x, F[x], m.verify)
               PROVE  Shown(x, F, m.verify)
    BY DEF Evidence
  <2>1. CASE x = p
    BY <2>1 DEF Match
  <2>2. CASE x = q /\ m \in M[q]
    <3>1. Shown(q, E, m.verify)
      BY <2>2, <1>0 DEF Evidence
    <3>2. E[p].done = Append(E[q].done, HandshakeOf(m.verify))
      BY <3>1, <1>0, <1>6 DEF Shown
    <3>3. IsSeq(E[q].done)
      BY DEF Typed
    <3>4. E[q].done # Append(E[q].done, HandshakeOf(m.verify))
      BY <3>3, AppendDiffers
    <3> QED
      BY <1>1, <3>2, <3>4
  <2>3. CASE x = q /\ m.verify = v
    BY <2>3, <1>0, <1>1 DEF Shown
  <2> QED
    BY <2>1, <2>2, <2>3, <1>0
<1> QED
  BY <1>3, <1>4, <1>5, <1>7

(* The closer has read the opener's Finished.                                *)
LEMMA CloserReceives ==
  ASSUME NEW p \in Ends, NEW E, NEW F, NEW M, NEW N, NEW m \in M[p],
         Evidence(E, M), F[Peer(p)] = E[Peer(p)], Typed(Peer(p), E[Peer(p)]),
         IsFinished(m), Match(p, E[p], m.verify), ByOpener(m.verify),
         F[p].done = E[p].done, F[p].clientRandom = E[p].clientRandom, F[p].serverRandom = E[p].serverRandom,
         ~Waiting(p, E[p]), ~Dead(E[p]),
         \A x \in Ends : N[x] \subseteq M[x]
  PROVE  Ahead(F) /\ Level(F) /\ Closings(F) /\ Evidence(F, N)
<1> DEFINE q == Peer(p)
<1>0. q \in Ends /\ q # p /\ Peer(q) = p /\ Ends = {p, q}
  BY PeerFacts
<1>1. E[p].done = E[q].done /\ WaitsWith(q, E[q], E[p].clientRandom)
  <2>1. Shown(p, E, m.verify)
    BY DEF Evidence
  <2> QED
    BY <2>1 DEF Shown, Match
<1>2. F["client"].done = F["server"].done
  BY <1>0, <1>1 DEF Ends
<1>3. Ahead(F) /\ Level(F)
  BY <1>2 DEF Ahead, Level
<1>4. Closings(F)
  <2>1. ~Closing(q, F[q])
    BY <1>0, <1>1, WaitsNotCloses
  <2> QED
    BY <2>1, <1>0, <1>1, <1>2 DEF Closings
<1>5. Evidence(F, N)
  <2> SUFFICES ASSUME NEW x \in Ends, NEW y \in N[x], IsFinished(y), Match(x, F[x], y.verify)
               PROVE  Shown(x, F, y.verify)
    BY DEF Evidence
  <2>1. y \in M[x]
    OBVIOUS
  <2>2. Match(x, E[x], y.verify)
    BY <1>0 DEF Match
  <2>3. Shown(x, E, y.verify)
    BY <2>1, <2>2 DEF Evidence
  <2>4. \A z \in Ends : F[z].done = E[z].done
    BY <1>0
  <2>5. \A r : ~WaitsWith(p, E[p], r)
    BY DEF WaitsWith
  <2> QED
    BY <2>3, <2>4, <2>5, <1>0 DEF Shown
<1> QED
  BY <1>3, <1>4, <1>5

(* The opener has read the closer's Finished, and completes the handshake.   *)
LEMMA OpenerReceives ==
  ASSUME NEW p \in Ends, NEW E, NEW F, NEW M, NEW N, NEW m \in M[p],
         Closings(E), Evidence(E, M), F[Peer(p)] = E[Peer(p)],
         Typed(p, E[p]), Typed(Peer(p), E[Peer(p)]),
         IsFinished(m), Match(p, E[p], m.verify), ~ByOpener(m.verify),
         F[p].done = Append(E[p].done, HandshakeOf(m.verify)), F[p].clientRandom = 0, ~Closing(p, F[p]),
         \A y \in N[p] : IsFinished(y) => ClientOf(y.verify) # 0,
         N[Peer(p)] \subseteq M[Peer(p)]
  PROVE  /\ F["client"].done = F["server"].done
         /\ Ahead(F) /\ Level(F) /\ Closings(F) /\ Evidence(F, N)
<1> DEFINE q == Peer(p)
<1>0. q \in Ends /\ q # p /\ Peer(q) = p /\ Ends = {p, q}
  BY PeerFacts
<1>1. E[q].done = Append(E[p].done, HandshakeOf(m.verify))
  <2>1. Shown(p, E, m.verify)
    BY DEF Evidence
  <2> QED
    BY <2>1 DEF Shown
<1>2. IsSeq(E[p].done) /\ IsSeq(E[q].done)
  BY DEF Typed
<1>3. E[p].done # E[q].done
  BY <1>1, <1>2, AppendDiffers
<1>4. F["client"].done = F["server"].done
  BY <1>0, <1>1 DEF Ends
<1>5. Ahead(F) /\ Level(F)
  BY <1>4 DEF Ahead, Level
<1>6. Closings(F)
  <2>1. ~Closing(q, F[q])
    BY <1>0, <1>3 DEF Closings, Ends
  <2>2. \A x \in Ends : ~Closing(x, F[x])
    BY <2>1, <1>0
  <2> QED
    BY <2>2 DEF Closings
<1>7. Evidence(F, N)
  <2> SUFFICES ASSUME NEW x \in Ends, NEW y \in N[x], IsFinished(y), Match(x, F[x], y.verify)
               PROVE  FALSE
    BY DEF Evidence
  <2>1. CASE x = p
    BY <2>1 DEF Match
  <2>2. CASE x = q
    <3>1. y \in M[q] /\ Match(q, E[q], y.verify)
      BY <2>2
    <3>2. Shown(q, E, y.verify)
      BY <3>1, <1>0 DEF Evidence
    <3>3. E[p].done = Append(E[q].done, HandshakeOf(y.verify))
      BY <3>2, <1>0, <1>3 DEF Shown
    <3> QED
      BY <1>1, <1>2, <3>3, AppendDiffers
  <2> QED
    BY <2>1, <2>2, <1>0
<1> QED
  BY <1>4, <1>5, <1>6, <1>7

(* A Finished goes out: all of the invariant but what relates the ends.      *)
LEMMA FinishedSent ==
  ASSUME HInv, NEW p \in Ends, NEW m, NEW f, Send(p, m, f), Quiet,
         m.type = "FINISHED", FinishedOK(Peer(p), m, count.random),
         Local(p, f, count.random, past), Longer(end[p], f),
         p = "server" => \A x \in Msgs["server"] :
           x.type = "CLIENT_HELLO" => HelloOK(x, f, count.random, past, cache),
         p = "client" => SessionOK(f, count.random, Known)
  PROVE  /\ Shape' /\ Locals' /\ Wires' /\ Store'
         /\ end'[p] = f /\ end'[Peer(p)] = end[Peer(p)]
         /\ Msgs'[p] = Msgs[p] /\ Msgs'[Peer(p)] = Msgs[Peer(p)] \cup {m}
<1> DEFINE q == Peer(p)
           n == count.random
<1>0. q \in Ends /\ q # p /\ Ends = {p, q} /\ "client" \in Ends /\ "server" \in Ends
      /\ (p = "client" => q = "server") /\ (p = "server" => q = "client")
  BY DEF Ends, Peer
<1>1. /\ DOMAIN end' = Ends /\ end'[p] = f /\ end'[q] = end[q]
      /\ DOMAIN wire' = Ends /\ \A r \in Ends : IsSeq(wire'[r])
      /\ Msgs'[p] = Msgs[p] /\ Msgs'[q] = Msgs[q] \cup {m}
      /\ p = "server" => wire'["server"] = wire["server"]
  BY SendFacts DEF HInv
<1>2. config' = config /\ past' = past /\ cache' = cache /\ count' = count
  BY DEF Quiet
<1>3. HelloOrder(wire'["server"])
  <2>1. HelloOrder(wire["server"]) /\ IsSeq(wire["server"]) /\ DOMAIN wire = Ends
    BY <1>0 DEF HInv, Wires, Shape
  <2>2. CASE p = "server"
    BY <2>1, <2>2, <1>1
  <2>3. CASE p = "client"
    <3> DEFINE x == [key |-> end[p].write, msg |-> m]
    <3>1. wire'["server"] = Append(wire["server"], x)
      BY <2>1, <2>3, <1>0 DEF Send, Record
    <3>2. x.msg.type # "CLIENT_HELLO"
      OBVIOUS
    <3> HIDE DEF x
    <3> QED
      BY <2>1, <3>1, <3>2, AppendMsgs
  <2> QED
    BY <2>2, <2>3 DEF Ends
<1>4. \A id \in DOMAIN cache' : cache'[id].id = id /\ Proper(cache'[id].master, n)
  BY <1>2 DEF HInv, Shape, Store
<1>5. \A x \in Msgs["server"] : ToServer(x, end["server"], n, past, cache)
  BY DEF HInv, Wires
<1>6. m.type \in MessageTypes
  BY DEF MessageTypes, HandshakeTypes
<1>7. \A r \in Ends : \A x \in Msgs'[r] : x \in Msgs[r] \/ x.type \in MessageTypes
  BY <1>0, <1>1, <1>6
<1>8. \A x \in Msgs'["client"] : x \in Msgs["client"] \/ ToClient(x, n)
  <2>1. q = "client" => ToClient(m, n)
    BY DEF ToClient
  <2> QED
    BY <2>1, <1>0, <1>1
<1>9. \A x \in Msgs'["server"] : ToServer(x, end'["server"], n, past, cache')
  <2>1. CASE p = "server"
    BY <2>1, <1>1, <1>2, <1>5 DEF ToServer
  <2>2. CASE p = "client"
    <3>1. ToServer(m, end["server"], n, past, cache)
      BY <2>2, <1>0 DEF ToServer
    <3> QED
      BY <2>2, <3>1, <1>0, <1>1, <1>2, <1>5
  <2> QED
    BY <2>1, <2>2 DEF Ends
<1>10. Known \subseteq Known'
  <2>1. Longer(end[p], end'[p]) /\ end'[Peer(p)] = end[Peer(p)]
    BY <1>1
  <2> QED
    BY <1>2, <2>1, KnownGrows
<1>11. SessionOK(end'["client"], n, Known')
  <2>1. n \in Nat /\ n <= n
    BY Basics
  <2>2. SessionOK(end'["client"], n, Known)
    <3>1. CASE p = "client"
      BY <3>1, <1>1
    <3>2. CASE p = "server"
      BY <3>2, <1>0, <1>1 DEF HInv, Store
    <3> QED
      BY <3>1, <3>2 DEF Ends
  <2> QED
    BY <2>1, <2>2, <1>10, SessionKept
<1>12. end'[Peer(p)] = end[Peer(p)] /\ Local(p, end'[p], count.random, past)
  BY <1>1
<1>13. Shape' /\ Locals' /\ Wires' /\ Store'
  BY <1>1, <1>2, <1>3, <1>4, <1>7, <1>8, <1>9, <1>11, <1>12, Parts
<1> QED
  BY <1>1, <1>13

(* The Finished of an end.                                                   *)
LEMMA FinishedBuilt ==
  ASSUME NEW p \in Ends, NEW e, NEW n \in Nat, Typed(p, e), AtKeyed(p, e, n),
         NEW c, c = VERIFY_CalcVerifyData(e, p),
         NEW m, m = [type |-> "FINISHED", verify |-> c.verify],
         NEW g, g = VERIFY_Append(c, m)
  PROVE  /\ m.type = "FINISHED" /\ m.verify = <<p, e.master, e.transcript>>
         /\ FinishedOK(Peer(p), m, n)
         /\ Basic(e, g) /\ Hellos(g, n) /\ IsSeq(g.transcript) /\ KeyOf(g) = KeyOf(e)
         /\ g.master = e.master /\ g.read = e.read /\ g.write = e.write /\ g.ccs = e.ccs
         /\ g.nextRead = e.nextRead /\ g.nextWrite = e.nextWrite
<1>1. IsEnd(e)
  BY DEF Typed
<1>2. /\ Basic(e, c) /\ Holds(e, c) /\ c.verify = <<p, e.master, e.transcript>>
      /\ c.master = e.master /\ c.read = e.read /\ c.write = e.write
      /\ c.nextRead = e.nextRead /\ c.nextWrite = e.nextWrite /\ c.ccs = e.ccs
  BY <1>1, VerifyFields
<1>3. m.type = "FINISHED" /\ m.verify = <<p, e.master, e.transcript>>
  BY <1>2
<1>4. Alike(c, g) /\ \E x : g.transcript = Append(c.transcript, x)
  BY ZenonT(30), <1>2, AppendLike DEF Basic
<1>5. Basic(e, g)
  BY <1>2, <1>4 DEF Alike, Basic
<1>6. \E x : g.transcript = Append(e.transcript, x)
  BY <1>2, <1>4 DEF Holds
<1>7. Hellos(g, n) /\ IsSeq(g.transcript)
  BY ZenonT(30), <1>5, <1>6, HellosKept DEF AtKeyed, Typed, Basic
<1>8. /\ g.master = e.master /\ g.read = e.read /\ g.write = e.write /\ g.ccs = e.ccs
      /\ g.nextRead = e.nextRead /\ g.nextWrite = e.nextWrite
  BY <1>2, <1>4 DEF Alike
<1>9. KeyOf(g) = KeyOf(e)
  BY <1>5, <1>8 DEF KeyOf, Basic
<1>10. FinishedOK(Peer(p), m, n)
  <2>1. /\ m.verify[1] = p /\ ClientOf(m.verify) = e.clientRandom /\ ServerOf(m.verify) = e.serverRandom
        /\ e.clientRandom \in 1 .. n /\ e.serverRandom \in 1 .. n
    BY <1>3, VerifyData
  <2> QED
    BY <2>1, PeerFacts DEF FinishedOK
<1> QED
  BY <1>3, <1>5, <1>7, <1>8, <1>9, <1>10

(* The opener waits after its Finished, for a ticket or for the Finished of  *)
(* its peer.                                                                 *)
LEMMA OpenerLocal ==
  ASSUME NEW p \in Ends, NEW e, NEW n \in Nat, NEW old, Local(p, e, n, old),
         e.hs = <<"send", "FINISHED">>, Opens(p, e),
         NEW g, Basic(e, g), Hellos(g, n), IsSeq(g.transcript), KeyOf(g) = KeyOf(e),
         g.master = e.master, g.write = e.write, g.ccs = e.ccs,
         g.nextRead = e.nextRead, g.nextWrite = e.nextWrite,
         NEW f, \/ f = AwaitFinished(g, Peer(p))
                \/ p = "client" /\ f = GoTo(g, "recv", "NEW_SESSION_TICKET")
  PROVE  /\ Local(p, f, n, old) /\ Waiting(p, f) /\ ~Closing(p, f) /\ ~Dead(e) /\ ~Waiting(p, e)
         /\ Basic(e, f) /\ e.clientRandom # 0
<1>1. /\ Typed(p, e) /\ e.hs \in Keyed(p) /\ e.hs[1] = "send" /\ e.hs # <<"recv", "FINISHED">>
  <2>1. Typed(p, e)
    BY DEF Local
  <2>2. e.hs \in Changing
    BY DEF Changing
  <2>3. e.hs[1] = "send" /\ e.hs[2] = "FINISHED"
    BY PairFacts
  <2> QED
    BY <2>1, <2>2, <2>3, PairFacts DEF Keyed
<1>2. /\ AtKeyed(p, e, n) /\ ~Waiting(p, e) /\ ~Closing(p, e) /\ e.hs \notin Outside(p)
  <2>1. ~Closing(p, e)
    BY DEF Closing
  <2> QED
    BY <2>1, <1>1, StageFacts, PhaseFacts DEF Local, Typed
<1>3. e.write = KeyOf(e) /\ e.nextRead = <<KeyOf(e)>> /\ e.ccs = CcsReset
  BY <1>1, <1>2 DEF AtKeyed, Writes, Reads
<1>4. e.clientRandom # 0 /\ e.isResume \in BOOLEAN
  BY <1>1, <1>2 DEF AtKeyed, Hellos, Typed
<1>5. /\ IsEnd(g) /\ g.state = e.state /\ g.done = e.done /\ g.clientRandom = e.clientRandom
      /\ g.isResume = e.isResume /\ g.session = e.session
  BY DEF Basic
<1>6. Opens(p, g)
  BY <1>5 DEF Opens
<1>7. AtMostOne(g.nextWrite) /\ AtMostOne(g.nextRead)
  BY <1>1 DEF Typed
<1>8. HasAll(p, g, n)
  BY <1>2, <1>3, <1>4, <1>5, <1>6, <1>7 DEF HasAll, AtKeyed
<1>9. CASE f = AwaitFinished(g, Peer(p))
  <2>1. Local(p, f, n, old) /\ ~Dead(e) /\ Basic(g, f) /\ Waiting(p, f) /\ ~Closing(p, f)
    BY <1>2, <1>5, <1>6, <1>8, <1>9, AwaitsLocal
  <2>2. Basic(e, f)
    BY <2>1 DEF Basic
  <2> QED
    BY <2>1, <2>2, <1>2, <1>4
<1>10. CASE p = "client" /\ f = GoTo(g, "recv", "NEW_SESSION_TICKET")
  <2>1. Alike(g, f) /\ f.hs = <<"recv", "NEW_SESSION_TICKET">> /\ f.transcript = g.transcript
    BY <1>5, <1>10, GoToLike
  <2> HIDE <1>10
  <2>2. KeyOf(f) = KeyOf(e) /\ Opens(p, f)
    BY <1>6, <2>1 DEF KeyOf, Alike, Basic, Opens
  <2>3. Waiting(p, f) /\ ~Closing(p, f)
    <3>1. Waiting(p, f)
      BY <2>1, <2>2 DEF Waiting
    <3>2. ~Closing(p, f)
      BY <2>2 DEF Closing
    <3> QED
      BY <3>1, <3>2
  <2>4. /\ f.hs \in Keyed(p) /\ f.hs \notin Verify(p) /\ f.hs[1] = "recv"
        /\ f.hs # <<"send", "NEW_SESSION_TICKET">> /\ f.hs # <<"recv", "FINISHED">>
    BY <1>10, <2>1 DEF Keyed, Ticket, Verify
  <2>5. /\ IsEnd(f) /\ f.state = e.state /\ f.done = e.done /\ f.clientRandom = e.clientRandom
        /\ f.serverRandom = g.serverRandom /\ f.isResume = e.isResume /\ f.session = e.session
        /\ f.master = e.master /\ f.write = e.write
        /\ f.nextRead = e.nextRead /\ f.nextWrite = e.nextWrite /\ f.ccs = e.ccs
    BY <1>5, <2>1 DEF Alike, Basic
  <2>6. Hellos(f, n) /\ IsSeq(f.transcript)
    BY <1>5, <2>1, <2>5 DEF Hellos
  <2>7. Writes(p, f) /\ Reads(p, f)
    BY <1>3, <2>2, <2>3, <2>4, <2>5 DEF Writes, Reads
  <2>8. AtKeyed(p, f, n)
    BY <1>2, <2>4, <2>5, <2>6, <2>7 DEF AtKeyed
  <2>9. Local(p, f, n, old) /\ ~Dead(e)
    BY <1>2, <1>4, <1>7, <2>4, <2>5, <2>6, <2>8, KeyedLocal
  <2>10. Basic(e, f)
    BY <2>1 DEF Alike, Basic
  <2> QED
    BY <2>3, <2>9, <2>10, <1>2, <1>4
<1> QED
  BY <1>9, <1>10

(* Every ClientHello is newer than the server's handshake.                   *)
LEMMA HelloKept ==
  ASSUME HInv, NEW f, f.clientRandom \in {0, end["server"].clientRandom},
         NEW h, h.read.client = end["server"].clientRandom,
         f.done \in {end["server"].done, Append(end["server"].done, h)}
  PROVE  \A x \in Msgs["server"] :
           x.type = "CLIENT_HELLO" => HelloOK(x, f, count.random, past, cache)
<1> DEFINE e == end["server"]
           n == count.random
<1>0. "server" \in Ends
  BY DEF Ends
<1>1. Typed("server", e) /\ n \in Nat /\ \A x \in Msgs["server"] : ToServer(x, e, n, past, cache)
  BY <1>0, Basics
<1>2. /\ Len(e.done) \in Nat /\ DOMAIN e.done = 1 .. Len(e.done)
      /\ DOMAIN Append(e.done, h) = 1 .. Len(e.done) + 1
      /\ Append(e.done, h)[Len(e.done) + 1] = h
      /\ \A i \in 1 .. Len(e.done) : Append(e.done, h)[i] = e.done[i]
  BY <1>1, AppendFacts DEF Typed
<1> SUFFICES ASSUME NEW x \in Msgs["server"], x.type = "CLIENT_HELLO"
             PROVE  HelloOK(x, f, n, past, cache)
  OBVIOUS
<1>3. HelloOK(x, e, n, past, cache)
  BY <1>1 DEF ToServer
<1>4. f.clientRandom < x.random
  BY <1>1, <1>3 DEF HelloOK
<1>5. \A i \in DOMAIN f.done : f.done[i].read.client < x.random
  <2>1. CASE f.done = e.done
    BY <2>1, <1>3 DEF HelloOK
  <2>2. CASE f.done = Append(e.done, h)
    BY <2>2, <1>2, <1>3 DEF HelloOK
  <2> QED
    BY <2>1, <2>2
<1> QED
  BY <1>3, <1>4, <1>5 DEF HelloOK

(* An end completes a handshake as the first of the two, or follows.         *)
NewHandshake(h) ==
  /\ h.write = h.read
  /\ \A q \in Ends : \A i \in DOMAIN end[q].done : end[q].done[i].read # h.read
  /\ h.resumed <=> h.read.master \in Known
Closes(p) ==
  /\ past' = past /\ end'[Peer(p)] = end[Peer(p)]
  /\ end["client"].done = end["server"].done
  /\ \E h : end'[p].done = Append(end[p].done, h) /\ NewHandshake(h)
Follows(p) ==
  /\ past' = past /\ end'[Peer(p)] = end[Peer(p)]
  /\ \E h : end'[p].done = Append(end[p].done, h)
  /\ end'["client"].done = end'["server"].done

(* What the closer completes is new: its client random is the newest, and    *)
(* its master secret is known to both ends iff it is that of a session.      *)
LEMMA CloserNew ==
  ASSUME HInv, NEW p \in Ends, Closing(p, end[p]), AtKeyed(p, end[p], count.random)
  PROVE  /\ end["client"].done = end["server"].done
         /\ NewHandshake([read |-> KeyOf(end[p]), write |-> KeyOf(end[p]), resumed |-> end[p].isResume])
<1> DEFINE e == end[p]
           n == count.random
           key == KeyOf(e)
           h == [read |-> key, write |-> key, resumed |-> e.isResume]
<1>1. /\ n \in Nat /\ Older(e, n, past) /\ Typed(p, e) /\ (p = "client" => SessionOK(e, n, Known))
      /\ e.isResume \in BOOLEAN
  BY Basics DEF Typed
<1>2. end["client"].done = end["server"].done
  BY DEF HInv, Both, Closings
<1>3. e.clientRandom \in 1 .. n /\ key.client = e.clientRandom /\ key.master = e.master
  BY DEF AtKeyed, Hellos, KeyOf
<1>4. \A q \in Ends : \A i \in DOMAIN end[q].done :
        /\ end[q].done[i].read.client \in 1 .. n
        /\ end[q].done[i].read.client < e.clientRandom
        /\ Proper(end[q].done[i].read.master, n)
        /\ Gen(end[q].done[i].read.master) <= end[q].done[i].read.client
  <2>1. \A q \in Ends : end[q].done = e.done
    BY <1>2 DEF Ends
  <2>2. e.clientRandom # 0
    BY <1>1, <1>3
  <2> QED
    BY <1>1, <2>1, <2>2 DEF Older
<1>5. \A q \in Ends : \A i \in DOMAIN end[q].done : end[q].done[i].read # key
  <2> HIDE DEF e, n, key
  <2> QED
    BY <1>1, <1>3, <1>4
<1>6. e.isResume <=> e.master \in Known
  <2>1. CASE e.isResume
    <3>1. p = "client"
      BY <2>1 DEF Closing, Opens, Ends
    <3> QED
      BY <1>1, <2>1, <3>1 DEF AtKeyed, SessionOK
  <2>2. CASE ~e.isResume
    <3>1. Gen(e.master) = e.clientRandom
      BY <2>2 DEF AtKeyed
    <3>2. \A x \in Known : Gen(x) # e.clientRandom
      <4> SUFFICES ASSUME NEW x \in Known
                   PROVE  Gen(x) # e.clientRandom
        OBVIOUS
      <4>1. CASE x \in past
        <5>1. Proper(x, n) /\ Gen(x) < e.clientRandom
          BY <1>1, <1>3, <4>1 DEF HInv, Store, Older
        <5> QED
          BY <1>1, <1>3, <5>1 DEF Proper
      <4>2. CASE \E i \in DOMAIN end["client"].done : x = end["client"].done[i].read.master
        <5> PICK i \in DOMAIN end["client"].done : x = end["client"].done[i].read.master
          BY <4>2
        <5> DEFINE c == end["client"].done[i].read.client
        <5>1. c \in 1 .. n /\ c < e.clientRandom /\ Gen(x) \in 1 .. n /\ Gen(x) <= c
          BY <1>4 DEF Ends, Proper
        <5> HIDE DEF c, n, e
        <5> QED
          BY <1>1, <1>3, <5>1
      <4> QED
        BY <4>1, <4>2 DEF Known
    <3> QED
      BY <2>2, <3>1, <3>2
  <2> QED
    BY <2>1, <2>2
<1>7. h.read = key /\ h.write = key /\ h.resumed = e.isResume
  OBVIOUS
<1>8. NewHandshake(h)
  <2> HIDE DEF h, key, e
  <2> QED
    BY <1>3, <1>5, <1>6, <1>7 DEF NewHandshake
<1> QED
  BY <1>2, <1>8

(* An end sends its Finished.                                                *)
LEMMA SendFinishedStep ==
  ASSUME HInv, NEW p \in Ends, SendFinished(p)
  PROVE  HInv' /\ (Incomplete \/ Closes(p))
<1> DEFINE e == end[p]
           n == count.random
           q == Peer(p)
           c == VERIFY_CalcVerifyData(e, p)
           m == [type |-> "FINISHED", verify |-> c.verify]
           g == VERIFY_Append(c, m)
           k == CcsExitReady(g)
           f == IF p = "client" THEN
                  IF g.isResume THEN Complete(k)
                  ELSE IF g.isTicket THEN GoTo(g, "recv", "NEW_SESSION_TICKET")
                  ELSE AwaitFinished(g, "server")
                ELSE IF g.isResume THEN AwaitFinished(g, "client") ELSE Complete(k)
<1>0. q \in Ends /\ q # p /\ (p = "client" => q = "server") /\ (p = "server" => q = "client")
  BY DEF Ends, Peer
<1>1. /\ Local(p, e, n, past) /\ Typed(p, e) /\ n \in Nat
      /\ p = "client" => SessionOK(e, n, Known)
  BY Basics
<1>2. Send(p, m, f) /\ Quiet /\ e.hs = <<"send", "FINISHED">>
  BY DEF SendFinished, Sends
<1>3. /\ Ahead(end) /\ Level(end) /\ Closings(end) /\ Evidence(end, Msgs)
      /\ Typed(q, end[q])
  BY <1>0, Basics DEF HInv, Both
<1> HIDE DEF n
<1>4. e.hs \in Keyed(p) /\ AtKeyed(p, e, n) /\ ~Dead(e)
  <2>1. e.hs \in Keyed(p)
    BY <1>2 DEF Keyed, Changing
  <2>2. e.hs # <<"idle", "none">>
    BY <1>2, PairFacts
  <2> QED
    BY <2>1, <2>2, <1>1 DEF Local, Typed, Dead
<1>5. /\ m.type = "FINISHED" /\ m.verify = <<p, e.master, e.transcript>>
      /\ FinishedOK(Peer(p), m, n)
      /\ Basic(e, g) /\ Hellos(g, n) /\ IsSeq(g.transcript) /\ KeyOf(g) = KeyOf(e)
      /\ g.master = e.master /\ g.read = e.read /\ g.write = e.write /\ g.ccs = e.ccs
      /\ g.nextRead = e.nextRead /\ g.nextWrite = e.nextWrite
  <2> HIDE DEF e
  <2> QED
    BY <1>1, <1>4, FinishedBuilt
<1> HIDE DEF e, m, g
<1>6. /\ ClientOf(m.verify) = e.clientRandom
      /\ ByOpener(m.verify) <=> Opens(p, e)
      /\ HandshakeOf(m.verify) = [read |-> KeyOf(e), write |-> KeyOf(e), resumed |-> e.isResume]
  BY <1>1, <1>4, <1>5, VerifyData
<1>7. g.isResume = e.isResume /\ g.done = e.done /\ IsEnd(g) /\ g.session = e.session
  BY <1>5 DEF Basic
<1>8. CASE Opens(p, e)
  <2>1. \/ f = AwaitFinished(g, Peer(p))
        \/ p = "client" /\ f = GoTo(g, "recv", "NEW_SESSION_TICKET")
    BY <1>7, <1>8 DEF Opens, Ends, Peer
  <2> HIDE DEF f
  <2>2. /\ Local(p, f, n, past) /\ Waiting(p, f) /\ ~Closing(p, f) /\ ~Dead(e) /\ ~Waiting(p, e)
        /\ Basic(e, f) /\ e.clientRandom # 0
    BY <1>1, <1>2, <1>5, <1>8, <2>1, OpenerLocal
  <2>3. /\ f.clientRandom = e.clientRandom /\ f.serverRandom = e.serverRandom /\ f.done = e.done
        /\ f.session = e.session /\ f.ticket = e.ticket
    BY <2>2 DEF Basic
  <2>4. Moves(p, e, f, Msgs[p])
    BY <2>2, <2>3 DEF Moves, WaitsWith, Match
  <2>5. p = "client" => SessionOK(f, n, Known)
    BY <1>1, <2>3, SameSessionOK DEF SameSession
  <2>6. p = "server" => \A x \in Msgs["server"] :
          x.type = "CLIENT_HELLO" => HelloOK(x, f, n, past, cache)
    <3> DEFINE h == [read |-> KeyOf(e)]
    <3>1. h.read.client = e.clientRandom
      BY DEF KeyOf
    <3> HIDE DEF h
    <3>2. \E x : x.read.client = e.clientRandom
      BY <3>1
    <3>3. f.clientRandom \in {0, e.clientRandom} /\ f.done = e.done
      BY <2>3
    <3> HIDE DEF f
    <3> QED
      BY <3>1, <3>3, HelloKept DEF e, n
  <2>7. /\ Shape' /\ Locals' /\ Wires' /\ Store'
        /\ end'[p] = f /\ end'[Peer(p)] = end[Peer(p)]
        /\ Msgs'[p] = Msgs[p] /\ Msgs'[Peer(p)] = Msgs[Peer(p)] \cup {m}
    <3>1. Longer(e, f)
      BY <2>3 DEF Longer
    <3> QED
      BY <1>2, <1>5, <2>2, <2>3, <2>5, <2>6, <3>1, FinishedSent DEF e, n
  <2>8. Ahead(end') /\ Level(end') /\ Closings(end') /\ Evidence(end', Msgs')
    <3>1. /\ \A x \in Msgs'[p] : IsFinished(x) => x \in Msgs[p]
          /\ \A x \in Msgs'[Peer(p)] : IsFinished(x) => x \in Msgs[Peer(p)] \/ x.verify = m.verify
      BY <2>7
    <3>2. /\ Moves(p, end[p], end'[p], Msgs[p]) /\ end'[p].clientRandom = end[p].clientRandom
          /\ end[p].clientRandom # 0 /\ Waiting(p, end'[p]) /\ ClientOf(m.verify) = end[p].clientRandom
          /\ ByOpener(m.verify)
      BY <1>6, <1>8, <2>2, <2>3, <2>4, <2>7 DEF e
    <3> QED
      BY <1>3, <2>7, <3>1, <3>2, OpenerSends
  <2>9. Incomplete
    <3>1. end'[p].done = end[p].done /\ end'[q].done = end[q].done
      BY <2>3, <2>7 DEF e
    <3> QED
      BY <1>2, <3>1, PeerFacts DEF Incomplete, Quiet
  <2> QED
    BY <2>7, <2>8, <2>9 DEF HInv, Both
<1>9. CASE ~Opens(p, e)
  <2>1. f = Complete(k)
    BY <1>7, <1>9 DEF Opens, Ends
  <2> HIDE DEF f
  <2>2. Closing(p, e) /\ ~Waiting(p, e)
    BY <1>2, <1>9 DEF Closing, Waiting
  <2>3. e.read = KeyOf(e) /\ e.write = KeyOf(e)
    BY <1>2, <1>4, <2>2 DEF AtKeyed, Writes, Reads
  <2>4. /\ Basic(g, k) /\ k.ccs = CcsReset /\ k.read = g.read /\ k.write = g.write
        /\ k.nextRead = g.nextRead /\ k.nextWrite = g.nextWrite
    BY <1>7, CcsFields
  <2> HIDE DEF k
  <2>5. /\ IsEnd(k) /\ k.done = e.done /\ k.isResume = e.isResume /\ k.session = e.session
        /\ k.read = KeyOf(e) /\ k.write = KeyOf(e)
        /\ AtMostOne(k.nextRead) /\ AtMostOne(k.nextWrite)
    BY <1>1, <1>5, <1>7, <2>3, <2>4 DEF Basic, Typed
  <2> DEFINE h == [read |-> KeyOf(e), write |-> KeyOf(e), resumed |-> e.isResume]
  <2>6. /\ Local(p, f, n, past) /\ f.clientRandom = 0 /\ f.session = k.session /\ f.ticket = <<>>
        /\ f.done = Append(e.done, h)
        /\ ~Closing(p, f) /\ ~Waiting(p, f)
    BY <1>1, <1>4, <2>1, <2>4, <2>5, Completed
  <2>7. h.read.client = e.clientRandom
    BY DEF KeyOf
  <2>8. HandshakeOf(m.verify) = h
    BY <1>6
  <2> HIDE DEF h
  <2>9. p = "client" => SessionOK(f, n, Known)
    <3>1. f.session = e.session /\ ProperTicket(f.ticket, n)
      BY <2>5, <2>6 DEF ProperTicket
    <3> QED
      BY <1>1, <2>6, <3>1 DEF SessionOK
  <2>10. p = "server" => \A x \in Msgs["server"] :
           x.type = "CLIENT_HELLO" => HelloOK(x, f, n, past, cache)
    BY <2>6, <2>7, HelloKept DEF e, n
  <2>11. /\ Shape' /\ Locals' /\ Wires' /\ Store'
         /\ end'[p] = f /\ end'[Peer(p)] = end[Peer(p)]
         /\ Msgs'[p] = Msgs[p] /\ Msgs'[Peer(p)] = Msgs[Peer(p)] \cup {m}
    <3>1. Longer(e, f)
      BY <2>6 DEF Longer
    <3> QED
      BY <1>2, <1>5, <2>6, <2>9, <2>10, <3>1, FinishedSent DEF e, n
  <2>12. Ahead(end') /\ Level(end') /\ Closings(end') /\ Evidence(end', Msgs')
    <3>1. /\ \A x \in Msgs'[p] : IsFinished(x) => ClientOf(x.verify) # 0
          /\ \A x \in Msgs'[Peer(p)] : IsFinished(x) => x \in Msgs[Peer(p)] \/ x.verify = m.verify
      BY <2>11, FinishedFacts DEF FinishedOK
    <3>2. /\ Typed(p, end[p]) /\ Closing(p, end[p]) /\ ~Dead(end[p])
          /\ end'[p].done = Append(end[p].done, HandshakeOf(m.verify))
          /\ end'[p].clientRandom = 0 /\ ~Closing(p, end'[p])
          /\ ~ByOpener(m.verify) /\ ClientOf(m.verify) = end[p].clientRandom
      BY <1>1, <1>4, <1>6, <1>9, <2>2, <2>6, <2>8, <2>11 DEF e
    <3> QED
      BY <1>3, <2>11, <3>1, <3>2, CloserSends
  <2>13. Closes(p)
    <3>1. end'[p].done = Append(end[p].done, h) /\ end'[q] = end[q] /\ past' = past
      BY <1>2, <2>6, <2>11 DEF e, Quiet
    <3>2. /\ end["client"].done = end["server"].done
          /\ NewHandshake([read |-> KeyOf(end[p]), write |-> KeyOf(end[p]), resumed |-> end[p].isResume])
      BY <1>4, <2>2, CloserNew DEF e, n
    <3>3. NewHandshake(h)
      BY <3>2 DEF h, e
    <3> QED
      BY <3>1, <3>2, <3>3 DEF Closes
  <2> QED
    BY <2>11, <2>12, <2>13 DEF HInv, Both
<1> QED
  BY <1>8, <1>9

(* A Finished is read: all of the invariant but what relates the ends.       *)
LEMMA FinishedRead ==
  ASSUME HInv, NEW p \in Ends, NEW f, Reading(p), Consume(p, f),
         config' = config, past' = past, count' = count,
         \A id \in DOMAIN cache' : cache'[id].id = id /\ Proper(cache'[id].master, count.random),
         Local(p, f, count.random, past), Longer(end[p], f),
         p = "server" => \A x \in Msgs["server"] :
           x.type = "CLIENT_HELLO" => HelloOK(x, f, count.random, past, cache'),
         p = "client" => cache' = cache /\ SessionOK(f, count.random, Known')
  PROVE  /\ Shape' /\ Locals' /\ Wires' /\ Store'
         /\ end'[p] = f /\ end'[Peer(p)] = end[Peer(p)]
         /\ Msgs'[p] \subseteq Msgs[p] /\ Msgs'[Peer(p)] = Msgs[Peer(p)]
<1> DEFINE q == Peer(p)
           n == count.random
<1>0. q \in Ends /\ q # p /\ Ends = {p, q} /\ "client" \in Ends /\ "server" \in Ends
      /\ (p = "client" => q = "server") /\ (p = "server" => q = "client")
  BY DEF Ends, Peer
<1>1. /\ DOMAIN end' = Ends /\ end'[p] = f /\ end'[q] = end[q]
      /\ DOMAIN wire' = Ends /\ \A r \in Ends : IsSeq(wire'[r])
      /\ Msgs'[p] \subseteq Msgs[p] /\ Msgs'[q] = Msgs[q]
      /\ HelloOrder(wire'["server"])
  BY ConsumeFacts DEF HInv, Wires
<1>2. \A x \in Msgs["server"] : ToServer(x, end["server"], n, past, cache)
  BY DEF HInv, Wires
<1>3. \A r \in Ends : Msgs'[r] \subseteq Msgs[r]
  BY <1>0, <1>1
<1>4. \A x \in Msgs'["server"] : ToServer(x, end'["server"], n, past, cache')
  <2>1. CASE p = "server"
    BY <2>1, <1>1, <1>2 DEF ToServer
  <2>2. CASE p = "client"
    BY <2>2, <1>0, <1>1, <1>2
  <2> QED
    BY <2>1, <2>2 DEF Ends
<1>5. Longer(end[p], end'[p]) /\ end'[Peer(p)] = end[Peer(p)] /\ Local(p, end'[p], n, past)
  BY <1>1
<1>6. Known \subseteq Known'
  BY <1>5, KnownGrows
<1>7. SessionOK(end'["client"], n, Known')
  <2>1. CASE p = "client"
    BY <2>1, <1>1
  <2>2. CASE p = "server"
    <3>1. n \in Nat /\ n <= n
      BY Basics
    <3>2. SessionOK(end'["client"], n, Known)
      BY <2>2, <1>0, <1>1 DEF HInv, Store
    <3> QED
      BY <3>1, <3>2, <1>6, SessionKept
  <2> QED
    BY <2>1, <2>2 DEF Ends
<1>8. /\ \A r \in Ends : \A x \in Msgs'[r] : x \in Msgs[r] \/ x.type \in MessageTypes
      /\ \A x \in Msgs'["client"] : x \in Msgs["client"] \/ ToClient(x, n)
  BY <1>0, <1>3
<1>9. Shape' /\ Locals' /\ Wires' /\ Store'
  BY <1>1, <1>4, <1>5, <1>7, <1>8, Parts
<1> QED
  BY <1>1, <1>9

(* An end that reads the Finished it expects has changed its read key.       *)
LEMMA FinishedExpected ==
  ASSUME HInv, NEW p \in Ends, Receives(p, "FINISHED"), First(p).verify = end[p].verify
  PROVE  LET e == end[p]
             n == count.random
         IN /\ Reading(p) /\ First(p) \in Msgs[p] /\ IsFinished(First(p))
            /\ Got(p) = VERIFY_Append(e, First(p))
            /\ Typed(p, e) /\ Local(p, e, n, past) /\ AtKeyed(p, e, n) /\ n \in Nat
            /\ e.hs = <<"recv", "FINISHED">> /\ e.hs \in Keyed(p) /\ e.hs \notin Outside(p)
            /\ (Waiting(p, e) <=> Opens(p, e)) /\ ~Closing(p, e) /\ ~Dead(e)
            /\ e.ccs = CcsDone /\ e.read = KeyOf(e)
            /\ IF Opens(p, e) THEN e.write = KeyOf(e) ELSE e.nextWrite = <<KeyOf(e)>>
            /\ First(p).verify = <<Peer(p), e.master, e.transcript>>
<1> DEFINE e == end[p]
           n == count.random
<1>1. Typed(p, e) /\ Local(p, e, n, past) /\ n \in Nat
  BY Basics
<1>2. /\ Reading(p) /\ First(p) \in Msgs[p] /\ First(p).type = "FINISHED"
      /\ Got(p) = VERIFY_Append(e, First(p)) /\ e.ccs.recv /\ e.state # "ALERTED"
      /\ e.hs = <<"recv", "FINISHED">>
  BY ReceivedFacts
<1> HIDE DEF e, n
<1>3. e.hs \in Keyed(p) /\ e.hs[1] = "recv" /\ e.hs # <<"send", "FINISHED">>
  BY <1>2 DEF Keyed, Changing
<1>4. AtKeyed(p, e, n) /\ ~Closing(p, e) /\ e.hs \notin Outside(p)
  BY <1>1, <1>3, StageFacts, PhaseFacts DEF Local, Typed
<1>5. Waiting(p, e) <=> Opens(p, e)
  BY <1>2 DEF Waiting
<1>6. ~CcsAwaited.recv
  BY DEF CcsAwaited, CcsReset
<1>7. e.ccs = CcsDone /\ e.read = KeyOf(e) /\ e.verify = <<Peer(p), e.master, e.transcript>>
  BY <1>2, <1>4, <1>6 DEF AtKeyed, Reads
<1>8. IF Opens(p, e) THEN e.write = KeyOf(e) ELSE e.nextWrite = <<KeyOf(e)>>
  BY <1>3, <1>4, <1>5 DEF AtKeyed, Writes
<1>9. First(p).verify = <<Peer(p), e.master, e.transcript>>
  BY <1>7 DEF e
<1>10. ~Dead(e) /\ IsFinished(First(p))
  BY <1>2 DEF Dead, IsFinished
<1> QED
  BY <1>1, <1>2, <1>3, <1>4, <1>5, <1>7, <1>8, <1>9, <1>10 DEF e, n

(* HsSetSessionInfo: the session of a full handshake holds its secret.       *)
LEMMA SessionFields ==
  ASSUME NEW p, NEW e, IsEnd(e), e.isResume \in BOOLEAN, NEW s, s = HsSetSessionInfo(p, e)
  PROVE  /\ IsEnd(s) /\ Holds(e, s) /\ s.state = e.state /\ s.done = e.done
         /\ s.clientRandom = e.clientRandom /\ s.serverRandom = e.serverRandom
         /\ s.isResume = e.isResume /\ s.ticket = e.ticket /\ s.master = e.master
         /\ s.verify = e.verify /\ s.read = e.read /\ s.write = e.write
         /\ s.nextRead = e.nextRead /\ s.nextWrite = e.nextWrite /\ s.ccs = e.ccs
         /\ e.isResume => s.session = e.session
         /\ ~e.isResume => /\ IsSession(s.session) /\ s.session.master = e.master
                           /\ s.session.ticket \in {<<>>, e.ticket}
<1>1. CASE e.isResume
  BY <1>1 DEF HsSetSessionInfo, Holds
<1>2. CASE ~e.isResume
  <2> DEFINE i == IF ~e.isTicket THEN e.id
                  ELSE IF p = "client" /\ e.ticket # <<>> THEN <<"client", e.clientRandom>>
                  ELSE NoId
             t == IF p = "client" /\ e.isTicket THEN e.ticket ELSE <<>>
             w == [id |-> i, master |-> e.master, ticket |-> t]
  <2>1. s = [e EXCEPT !.session = w]
    BY <1>2 DEF HsSetSessionInfo
  <2>2. t \in {<<>>, e.ticket}
    OBVIOUS
  <2> HIDE DEF i, t
  <2>3. IsSession(w) /\ w.master = e.master /\ w.ticket = t
    BY DEF IsSession
  <2> HIDE DEF w
  <2>4. s.session = w /\ IsEnd(s)
    BY <2>1 DEF IsEnd, EndFields
  <2> QED
    BY <1>2, <2>1, <2>2, <2>3, <2>4 DEF Holds, IsEnd, EndFields
<1> QED
  BY <1>1, <1>2

(* The closer goes on to change its keys.                                    *)
LEMMA CloserLocal ==
  ASSUME NEW p \in Ends, NEW e, NEW n \in Nat, NEW old, Local(p, e, n, old), AtKeyed(p, e, n),
         e.hs \notin Outside(p), ~Opens(p, e), e.read = KeyOf(e), e.nextWrite = <<KeyOf(e)>>,
         NEW k, IsEnd(k), k.state = e.state, k.done = e.done, k.isResume = e.isResume,
         k.clientRandom = e.clientRandom, k.serverRandom = e.serverRandom, k.master = e.master,
         k.read = e.read, k.nextRead = e.nextRead, k.nextWrite = e.nextWrite,
         Hellos(k, n), IsSeq(k.transcript),
         e.isResume => k.session = e.session, ~e.isResume => k.session.master = e.master,
         NEW t, t = "CHANGE_CIPHER_SPEC" \/ (p = "server" /\ t = "NEW_SESSION_TICKET"),
         NEW f, f = GoTo(k, "send", t)
  PROVE  /\ Local(p, f, n, old) /\ f.clientRandom = e.clientRandom /\ f.serverRandom = e.serverRandom
         /\ f.done = e.done /\ f.session = k.session /\ f.ticket = k.ticket
<1>1. Typed(p, e)
  BY DEF Local
<1>2. Alike(k, f) /\ f.hs = <<"send", t>> /\ f.transcript = k.transcript
  BY GoToLike
<1>3. /\ IsEnd(f) /\ f.state = e.state /\ f.done = e.done /\ f.isResume = e.isResume
      /\ f.clientRandom = e.clientRandom /\ f.serverRandom = e.serverRandom /\ f.master = e.master
      /\ f.read = e.read /\ f.nextRead = e.nextRead /\ f.nextWrite = e.nextWrite
      /\ f.session = k.session /\ f.ticket = k.ticket
  BY <1>2 DEF Alike, Basic
<1>4. KeyOf(f) = KeyOf(e) /\ ~Opens(p, f)
  BY <1>3 DEF KeyOf, Opens
<1>5. /\ f.hs \in Keyed(p) /\ f.hs \notin Verify(p) /\ f.hs # <<"send", "FINISHED">>
      /\ f.hs[1] = "send"
  <2>1. f.hs[1] = "send" /\ f.hs[2] = t
    BY <1>2, PairFacts
  <2>2. f.hs \in Ticket(p) \cup Changing
    BY <1>2 DEF Ticket, Changing, Ends
  <2>3. f.hs # <<"send", "FINISHED">> /\ f.hs \notin Verify(p)
    BY <2>1, PairFacts DEF Verify
  <2> QED
    BY <2>1, <2>2, <2>3 DEF Keyed
<1>6. Closing(p, f) /\ ~Waiting(p, f)
  BY <1>2, <1>4 DEF Closing, Waiting
<1>7. Writes(p, f) /\ Reads(p, f)
  BY <1>3, <1>4, <1>5, <1>6 DEF Writes, Reads
<1>8. Hellos(f, n)
  BY <1>2, <1>3 DEF Hellos
<1>9. Proper(e.master, n) /\ e.isResume \in BOOLEAN /\ AtMostOne(e.nextRead) /\ AtMostOne(e.nextWrite)
  BY <1>1 DEF AtKeyed, Typed
<1>10. Proper(f.session.master, n)
  BY <1>3, <1>9 DEF AtKeyed
<1>11. AtKeyed(p, f, n)
  BY <1>3, <1>5, <1>7, <1>8, <1>10 DEF AtKeyed
<1>12. Local(p, f, n, old)
  BY <1>2, <1>3, <1>5, <1>9, <1>11, KeyedLocal
<1> QED
  BY <1>3, <1>12

(* SESSMGR_InsertSession.                                                    *)
LEMMA InsertFacts ==
  ASSUME NEW p, NEW e, NEW c, c = Insert(p, e)
  PROVE  /\ \A id \in DOMAIN c : \/ id \in DOMAIN cache /\ c[id] = cache[id]
                                 \/ ~e.isResume /\ id = e.session.id /\ c[id] = e.session
         /\ p = "client" \/ e.isResume => c = cache
<1>1. CASE p = "server" /\ ~e.isResume /\ e.session.id # NoId /\ config.cacheMode = "server"
  <2>1. c = WithSession(cache, e.session)
    BY <1>1 DEF Insert
  <2> QED
    BY <1>1, <2>1 DEF WithSession
<1>2. CASE ~(p = "server" /\ ~e.isResume /\ e.session.id # NoId /\ config.cacheMode = "server")
  <2>1. c = cache
    BY <1>2 DEF Insert
  <2> QED
    BY <2>1
<1> QED
  BY <1>1, <1>2

(* An end receives the Finished of the other.                                *)
LEMMA RecvFinishedStep ==
  ASSUME HInv, NEW p \in Ends, RecvFinished(p)
  PROVE  HInv' /\ (Incomplete \/ Follows(p))
<1> DEFINE e == end[p]
           n == count.random
           q == Peer(p)
           m == First(p)
           g == VERIFY_Append(e, m)
           s == HsSetSessionInfo(p, g)
           k == CcsExitReady(s)
           f == IF p = "client" THEN
                  IF s.isResume THEN GoTo(k, "send", "CHANGE_CIPHER_SPEC") ELSE Complete(k)
                ELSE IF s.isResume THEN Complete(k)
                ELSE GoTo(s, "send", IF s.isTicket THEN "NEW_SESSION_TICKET" ELSE "CHANGE_CIPHER_SPEC")
<1>0. q \in Ends /\ q # p /\ (p = "client" => q = "server") /\ (p = "server" => q = "client")
  BY DEF Ends, Peer
<1>1. Receives(p, "FINISHED")
  BY DEF RecvFinished
<1>2. CASE Fail(p)
  BY <1>2, FailStep
<1>3. CASE ~Fail(p)
  <2>1. First(p).verify = end[p].verify
    BY <1>3 DEF RecvFinished
  <2>2. /\ Reading(p) /\ m \in Msgs[p] /\ IsFinished(m)
        /\ Got(p) = g
        /\ Typed(p, e) /\ Local(p, e, n, past) /\ AtKeyed(p, e, n) /\ n \in Nat
        /\ e.hs = <<"recv", "FINISHED">> /\ e.hs \in Keyed(p) /\ e.hs \notin Outside(p)
        /\ (Waiting(p, e) <=> Opens(p, e)) /\ ~Closing(p, e) /\ ~Dead(e)
        /\ e.ccs = CcsDone /\ e.read = KeyOf(e)
        /\ IF Opens(p, e) THEN e.write = KeyOf(e) ELSE e.nextWrite = <<KeyOf(e)>>
        /\ m.verify = <<Peer(p), e.master, e.transcript>>
    BY <1>1, <2>1, FinishedExpected
  <2>3. /\ Consume(p, f) /\ cache' = Insert(p, s)
        /\ config' = config /\ count' = count /\ past' = past
    BY <1>3, <2>2 DEF RecvFinished
  <2>4. /\ Ahead(end) /\ Level(end) /\ Closings(end) /\ Evidence(end, Msgs)
        /\ Typed(q, end[q]) /\ (p = "client" => SessionOK(e, n, Known))
    BY <1>0, Basics DEF HInv, Both
  <2>5. /\ end'[p] = f /\ end'[q] = end[q] /\ Msgs'[p] \subseteq Msgs[p] /\ Msgs'[q] = Msgs[q]
    BY <2>2, <2>3, ConsumeFacts DEF HInv
  <2> HIDE DEF n, e, m
  <2>6. /\ ClientOf(m.verify) = e.clientRandom
        /\ ByOpener(m.verify) <=> ~Opens(p, e)
        /\ HandshakeOf(m.verify) = [read |-> KeyOf(e), write |-> KeyOf(e), resumed |-> e.isResume]
        /\ Match(p, e, m.verify) /\ Proper(e.master, n) /\ Gen(e.master) <= e.clientRandom
    BY <1>0, <2>2, VerifyData
  <2>7. /\ Alike(e, g) /\ \E y : g.transcript = Append(e.transcript, y)
    BY <2>2, AppendLike DEF Typed
  <2> HIDE DEF g
  <2>8. Hellos(g, n) /\ IsSeq(g.transcript)
    BY ZenonT(30), <2>2, <2>7, HellosKept DEF AtKeyed, Typed, Alike, Basic
  <2>9. IsEnd(g) /\ g.isResume \in BOOLEAN
    BY <2>2, <2>7 DEF Typed, Alike, Basic
  <2>10. /\ IsEnd(s) /\ Holds(g, s) /\ s.state = g.state /\ s.done = g.done
         /\ s.clientRandom = g.clientRandom /\ s.serverRandom = g.serverRandom
         /\ s.isResume = g.isResume /\ s.ticket = g.ticket /\ s.master = g.master
         /\ s.read = g.read /\ s.write = g.write
         /\ s.nextRead = g.nextRead /\ s.nextWrite = g.nextWrite /\ s.ccs = g.ccs
         /\ g.isResume => s.session = g.session
         /\ ~g.isResume => /\ IsSession(s.session) /\ s.session.master = g.master
                           /\ s.session.ticket \in {<<>>, g.ticket}
    BY <2>9, SessionFields
  <2> HIDE DEF s
  <2>11. /\ s.state = e.state /\ s.done = e.done
         /\ s.clientRandom = e.clientRandom /\ s.serverRandom = e.serverRandom
         /\ s.isResume = e.isResume /\ s.ticket = e.ticket /\ s.master = e.master
         /\ s.read = e.read /\ s.write = e.write
         /\ s.nextRead = e.nextRead /\ s.nextWrite = e.nextWrite
         /\ e.isResume => s.session = e.session
         /\ ~e.isResume => /\ IsSession(s.session) /\ s.session.master = e.master
                           /\ s.session.ticket \in {<<>>, e.ticket}
    BY <2>7, <2>10 DEF Alike, Basic
  <2>12. Hellos(s, n) /\ IsSeq(s.transcript)
    BY <2>7, <2>8, <2>10 DEF Hellos, Holds
  <2>13. /\ Basic(s, k) /\ Holds(s, k) /\ k.ccs = CcsReset /\ k.master = s.master
         /\ k.read = s.read /\ k.write = s.write
         /\ k.nextRead = s.nextRead /\ k.nextWrite = s.nextWrite
    BY <2>10, CcsFields
  <2> HIDE DEF k
  <2>14. /\ IsEnd(k) /\ k.state = e.state /\ k.done = e.done /\ k.isResume = e.isResume
         /\ k.clientRandom = e.clientRandom /\ k.serverRandom = e.serverRandom
         /\ k.session = s.session /\ k.ticket = e.ticket
         /\ k.read = e.read /\ k.write = e.write /\ k.master = e.master
         /\ k.nextRead = e.nextRead /\ k.nextWrite = e.nextWrite
         /\ Hellos(k, n) /\ IsSeq(k.transcript)
    BY <2>11, <2>12, <2>13 DEF Basic, Holds, Hellos
  <2>15. /\ \A id \in DOMAIN cache' : \/ id \in DOMAIN cache /\ cache'[id] = cache[id]
                                      \/ ~s.isResume /\ id = s.session.id /\ cache'[id] = s.session
         /\ p = "client" \/ s.isResume => cache' = cache
    BY <2>3, InsertFacts
  <2>16. \A id \in DOMAIN cache' : cache'[id].id = id /\ Proper(cache'[id].master, n)
    <3>1. \A id \in DOMAIN cache : cache[id].id = id /\ Proper(cache[id].master, n)
      BY DEF HInv, Shape, Store, n
    <3> QED
      BY <3>1, <2>6, <2>11, <2>15
  <2>17. e.isResume \in BOOLEAN
    BY <2>2 DEF Typed
  <2>18. CASE ~Opens(p, e)
    <3> DEFINE t == IF p = "server" /\ s.isTicket THEN "NEW_SESSION_TICKET" ELSE "CHANGE_CIPHER_SPEC"
               d == IF p = "client" THEN k ELSE s
    <3>1. f = GoTo(d, "send", t)
      BY <2>11, <2>17, <2>18 DEF Opens, Ends
    <3>2. d \in {k, s} /\ (t = "CHANGE_CIPHER_SPEC" \/ (p = "server" /\ t = "NEW_SESSION_TICKET"))
      OBVIOUS
    <3> HIDE DEF f, t, d
    <3>3. /\ IsEnd(d) /\ d.state = e.state /\ d.done = e.done /\ d.isResume = e.isResume
          /\ d.clientRandom = e.clientRandom /\ d.serverRandom = e.serverRandom /\ d.master = e.master
          /\ d.read = e.read /\ d.nextRead = e.nextRead /\ d.nextWrite = e.nextWrite
          /\ Hellos(d, n) /\ IsSeq(d.transcript) /\ d.session = s.session /\ d.ticket = e.ticket
      BY <2>10, <2>11, <2>12, <2>14, <3>2
    <3>4. /\ Local(p, f, n, past) /\ f.clientRandom = e.clientRandom /\ f.serverRandom = e.serverRandom
          /\ f.done = e.done /\ f.session = s.session /\ f.ticket = e.ticket
      <4>1. /\ e.isResume => d.session = e.session
            /\ ~e.isResume => d.session.master = e.master
        BY <2>11, <3>3
      <4> QED
        BY <2>2, <2>18, <3>1, <3>2, <3>3, <4>1, CloserLocal
    <3>5. p = "client" => cache' = cache /\ SessionOK(f, n, Known')
      <4> SUFFICES ASSUME p = "client"
                   PROVE  cache' = cache /\ SessionOK(f, n, Known')
        OBVIOUS
      <4>1. e.isResume
        BY <2>18 DEF Opens
      <4>2. SessionOK(f, n, Known)
        BY <2>4, <2>11, <3>4, <4>1, SameSessionOK DEF SameSession
      <4>3. Longer(end[p], end'[p]) /\ end'[Peer(p)] = end[Peer(p)]
        BY <2>5, <3>4 DEF Longer, e
      <4>4. Known \subseteq Known'
        BY <2>3, <4>3, KnownGrows
      <4>5. n <= n
        BY <2>2
      <4> QED
        BY <2>2, <2>15, <4>2, <4>4, <4>5, SessionKept
    <3>6. p = "server" => \A x \in Msgs["server"] :
            x.type = "CLIENT_HELLO" => HelloOK(x, f, n, past, cache')
      <4> SUFFICES ASSUME p = "server", NEW x \in Msgs["server"], x.type = "CLIENT_HELLO"
                   PROVE  HelloOK(x, f, n, past, cache')
        OBVIOUS
      <4>1. HelloOK(x, e, n, past, cache)
        BY DEF HInv, Wires, ToServer, e, n
      <4>2. \A id \in DOMAIN cache' : Gen(cache'[id].master) < x.random
        <5>1. e.clientRandom < x.random /\ x.random \in Nat
          BY <4>1, <2>2 DEF HelloOK
        <5>2. Gen(e.master) \in Nat /\ e.clientRandom \in Nat
          BY <2>2, <2>6 DEF Proper, AtKeyed, Hellos
        <5>3. Gen(e.master) < x.random
          BY <5>1, <5>2, <2>6
        <5> QED
          BY <5>3, <2>11, <2>15, <4>1 DEF HelloOK
      <4> QED
        BY <3>4, <4>1, <4>2 DEF HelloOK
    <3>7. Longer(end[p], f)
      BY <3>4 DEF Longer, e
    <3>8. /\ Shape' /\ Locals' /\ Wires' /\ Store'
      BY <2>2, <2>3, <2>16, <3>4, <3>5, <3>6, <3>7, FinishedRead DEF n
    <3>9. Ahead(end') /\ Level(end') /\ Closings(end') /\ Evidence(end', Msgs')
      <4>1. /\ Match(p, end[p], m.verify) /\ ByOpener(m.verify)
            /\ end'[p].done = end[p].done /\ end'[p].clientRandom = end[p].clientRandom
            /\ end'[p].serverRandom = end[p].serverRandom
            /\ ~Waiting(p, end[p]) /\ ~Dead(end[p])
        BY <2>2, <2>5, <2>6, <2>18, <3>4 DEF e
      <4>2. \A x \in Ends : Msgs'[x] \subseteq Msgs[x]
        BY <2>5, PeerFacts
      <4> QED
        BY <2>2, <2>4, <2>5, <4>1, <4>2, CloserReceives
    <3>10. Incomplete
      <4>1. end'[p].done = end[p].done /\ end'[q].done = end[q].done
        BY <2>5, <3>4 DEF e
      <4> QED
        BY <2>3, <4>1, PeerFacts DEF Incomplete
    <3> QED
      BY <3>8, <3>9, <3>10 DEF HInv, Both
  <2>19. CASE Opens(p, e)
    <3>1. f = Complete(k)
      BY <2>11, <2>17, <2>19 DEF Opens, Ends
    <3> HIDE DEF f
    <3> DEFINE h == [read |-> KeyOf(e), write |-> KeyOf(e), resumed |-> e.isResume]
    <3>2. /\ Local(p, f, n, past) /\ f.clientRandom = 0 /\ f.session = k.session /\ f.ticket = <<>>
          /\ f.done = Append(e.done, h) /\ ~Closing(p, f) /\ ~Waiting(p, f)
      <4>1. AtMostOne(k.nextRead) /\ AtMostOne(k.nextWrite)
        BY <2>2, <2>14 DEF Typed
      <4> QED
        BY <2>2, <2>13, <2>14, <2>19, <3>1, <4>1, Completed
    <3>3. HandshakeOf(m.verify) = h /\ h.read.client = e.clientRandom /\ h.read.master = e.master
      BY <2>6 DEF KeyOf
    <3> HIDE DEF h
    <3>4. Longer(end[p], f)
      BY <3>2 DEF Longer, e
    <3>5. /\ end'["client"].done = end'["server"].done
          /\ Ahead(end') /\ Level(end') /\ Closings(end') /\ Evidence(end', Msgs')
      <4>1. /\ Match(p, end[p], m.verify) /\ ~ByOpener(m.verify)
            /\ end'[p].done = Append(end[p].done, HandshakeOf(m.verify))
            /\ end'[p].clientRandom = 0 /\ ~Closing(p, end'[p]) /\ Typed(p, end[p])
        BY <2>2, <2>5, <2>6, <2>19, <3>2, <3>3 DEF e
      <4>2. \A x \in Msgs'[p] : IsFinished(x) => ClientOf(x.verify) # 0
        BY <2>5, FinishedFacts DEF FinishedOK
      <4> QED
        BY <2>2, <2>4, <2>5, <4>1, <4>2, OpenerReceives
    <3>6. p = "client" => cache' = cache /\ SessionOK(f, n, Known')
      <4> SUFFICES ASSUME p = "client"
                   PROVE  cache' = cache /\ SessionOK(f, n, Known')
        OBVIOUS
      <4>1. ~e.isResume
        BY <2>19 DEF Opens
      <4>2. e.master \in Known'
        <5> DEFINE L == Len(e.done) + 1
                   cc == end'["client"].done
                   ss == end'["server"].done
        <5>1. L \in DOMAIN f.done /\ f.done[L] = h
          <6>1. IsSeq(e.done)
            BY <2>2 DEF Typed
          <6> QED
            BY <3>2, <6>1, AppendFacts
        <5>2. cc = f.done /\ ss = f.done
          BY <2>5, <3>5
        <5>3. Known' = past' \cup {cc[i].read.master : i \in {j \in DOMAIN cc : j \in DOMAIN ss}}
          BY DEF Known
        <5> HIDE DEF cc, ss, L
        <5> QED
          BY <3>3, <5>1, <5>2, <5>3
      <4>3. ProperTicket(f.ticket, n) /\ ProperTicket(f.session.ticket, n) /\ IsSession(f.session)
        BY <2>4, <2>11, <2>14, <3>2, <4>1 DEF SessionOK, ProperTicket
      <4>4. f.session.master \in Known'
        BY <2>11, <2>14, <3>2, <4>1, <4>2
      <4> QED
        BY <2>15, <3>2, <4>3, <4>4 DEF SessionOK
    <3>7. p = "server" => \A x \in Msgs["server"] :
            x.type = "CLIENT_HELLO" => HelloOK(x, f, n, past, cache')
      <4> SUFFICES ASSUME p = "server"
                   PROVE  \A x \in Msgs["server"] :
                            x.type = "CLIENT_HELLO" => HelloOK(x, f, n, past, cache')
        OBVIOUS
      <4>1. e.isResume
        BY <2>17, <2>19 DEF Opens
      <4>2. cache' = cache
        BY <2>11, <2>15, <4>1
      <4> QED
        BY <3>2, <3>3, <4>2, HelloKept DEF e, n
    <3>8. Shape' /\ Locals' /\ Wires' /\ Store'
      BY <2>2, <2>3, <2>16, <3>2, <3>4, <3>6, <3>7, FinishedRead DEF n
    <3>9. Follows(p)
      <4>1. end'[p].done = Append(end[p].done, h)
        BY <2>5, <3>2 DEF e
      <4> QED
        BY <2>3, <2>5, <3>5, <4>1 DEF Follows
    <3> QED
      BY <3>5, <3>8, <3>9 DEF HInv, Both
  <2> QED
    BY <2>18, <2>19
<1> QED
  BY <1>2, <1>3

(* The two ends of a new connection.                                         *)
LEMMA BeginLocal ==
  ASSUME NEW p \in Ends, NEW s, NEW n \in Nat, NEW old, NEW f, f = Begin(s)[p]
  PROVE  /\ Local(p, f, n, old) /\ f.done = <<>> /\ f.clientRandom = 0
         /\ ~Closing(p, f) /\ f.session = (IF p = "client" THEN s ELSE NoSession) /\ f.ticket = <<>>
<1> DEFINE h == IF p = "client" THEN <<"send", "CLIENT_HELLO">> ELSE <<"recv", "CLIENT_HELLO">>
<1>1. /\ IsEnd(f) /\ f.state = "HANDSHAKING" /\ f.hs = h /\ f.done = <<>>
      /\ f.clientRandom = 0 /\ f.serverRandom = 0 /\ f.transcript = <<>> /\ f.ccs = CcsReset
      /\ f.isResume = FALSE /\ f.nextRead = <<>> /\ f.nextWrite = <<>>
      /\ f.session = (IF p = "client" THEN s ELSE NoSession) /\ f.ticket = <<>>
  BY DEF Begin, NewEnd, IsEnd, EndFields, Ends
<1>2. h \in Outside(p) /\ h # <<"idle", "none">> /\ h \in Stages(p)
  BY PairFacts DEF Outside, Stages, Ends
<1> HIDE DEF h
<1>3. Typed(p, f)
  BY <1>1, <1>2, EmptySeq DEF Typed, AtMostOne
<1>4. h \notin Greeting(p) /\ h \notin Flight(p) /\ h \notin Keyed(p)
  BY <1>2, StageFacts
<1>5. AtRest(f) /\ Older(f, n, old)
  BY <1>1, EmptySeq DEF AtRest, Older
<1>6. Local(p, f, n, old)
  BY <1>1, <1>2, <1>3, <1>4, <1>5 DEF Local
<1>7. ~Closing(p, f)
  BY <1>1, <1>2, <1>4, PhaseFacts
<1> QED
  BY <1>1, <1>6, <1>7

(* Two fresh ends agree, and nothing is on the wires.                        *)
LEMMA BeginBoth ==
  ASSUME NEW E, NEW M, \A p \in Ends : E[p].done = <<>> /\ E[p].clientRandom = 0 /\ ~Closing(p, E[p]),
         \A p \in Ends : M[p] = {}
  PROVE  Ahead(E) /\ Level(E) /\ Closings(E) /\ Evidence(E, M)
BY DEF Ahead, Level, Closings, Evidence, Ends

(* Two wires without records.                                                *)
LEMMA EmptyWires ==
  ASSUME NEW w, w = [p \in Ends |-> <<>>]
  PROVE  /\ DOMAIN w = Ends /\ \A p \in Ends : IsSeq(w[p])
         /\ \A p \in Ends : {w[p][i].msg : i \in DOMAIN w[p]} = {}
         /\ HelloOrder(w["server"])
<1>1. \A p \in Ends : w[p] = <<>>
  OBVIOUS
<1>2. w["server"] = <<>>
  BY DEF Ends
<1> QED
  BY <1>1, <1>2, EmptySeq DEF HelloOrder

(* The secrets both ends know are proper.                                    *)
LEMMA KnownProper ==
  ASSUME HInv
  PROVE  \A x \in Known : Proper(x, count.random)
<1>1. \A x \in past : Proper(x, count.random)
  BY DEF HInv, Store
<1>2. \A i \in DOMAIN end["client"].done : Proper(end["client"].done[i].read.master, count.random)
  BY Basics DEF Older, Ends
<1> QED
  BY <1>1, <1>2 DEF Known

(* A new connection.                                                         *)
LEMMA NewConnectionStep ==
  ASSUME HInv, NewConnection
  PROVE  HInv' /\ past' = Known /\ \A p \in Ends : end'[p].done = <<>>
<1> DEFINE s == end["client"].session
           n == count.random
<1>0. /\ "client" \in Ends /\ "server" \in Ends /\ n \in Nat
      /\ count \in [random : Nat, connection : 1 .. MaxConnections,
                    renegotiation : 0 .. MaxRenegotiations, app : 0 .. MaxApp]
      /\ SessionOK(end["client"], n, Known)
  BY Basics DEF Ends
<1>1. /\ end' = Begin(s) /\ wire' = [p \in Ends |-> <<>>] /\ past' = Known /\ cache' = cache
      /\ config' \in Configs /\ count.connection < MaxConnections
      /\ count' = [count EXCEPT !.connection = @ + 1]
  BY DEF NewConnection
<1>2. /\ count' \in [random : Nat, connection : 1 .. MaxConnections,
                     renegotiation : 0 .. MaxRenegotiations, app : 0 .. MaxApp]
      /\ count'.random = n
  BY <1>0, <1>1, HandshakeAssumption
<1> HIDE DEF n, s
<1>3. DOMAIN end' = Ends
  BY <1>1 DEF Begin
<1>4. \A p \in Ends :
        /\ Local(p, end'[p], n, past') /\ end'[p].done = <<>> /\ end'[p].clientRandom = 0
        /\ ~Closing(p, end'[p]) /\ end'[p].session = (IF p = "client" THEN s ELSE NoSession)
        /\ end'[p].ticket = <<>>
  <2> SUFFICES ASSUME NEW p \in Ends
               PROVE  /\ Local(p, end'[p], n, past') /\ end'[p].done = <<>> /\ end'[p].clientRandom = 0
                      /\ ~Closing(p, end'[p]) /\ end'[p].ticket = <<>>
                      /\ end'[p].session = (IF p = "client" THEN s ELSE NoSession)
    OBVIOUS
  <2>1. end'[p] = Begin(s)[p]
    BY <1>1
  <2>2. n \in Nat
    BY <1>0
  <2>3. \A old : \A f : f = Begin(s)[p] =>
          /\ Local(p, f, n, old) /\ f.done = <<>> /\ f.clientRandom = 0
          /\ ~Closing(p, f) /\ f.session = (IF p = "client" THEN s ELSE NoSession) /\ f.ticket = <<>>
    BY ZenonT(30), <2>2, BeginLocal
  <2> QED
    BY <2>1, <2>3
<1>5. /\ DOMAIN wire' = Ends /\ \A p \in Ends : IsSeq(wire'[p])
      /\ \A p \in Ends : Msgs'[p] = {} /\ HelloOrder(wire'["server"])
  BY <1>1, EmptyWires DEF Msgs
<1>6. Shape'
  BY <1>1, <1>2, <1>3, <1>5 DEF Shape, HInv
<1>7. Locals'
  BY <1>2, <1>4 DEF Locals
<1>8. Wires'
  BY <1>0, <1>5 DEF Wires
<1>9. Known \subseteq Known'
  BY <1>1 DEF Known
<1>10. Store'
  <2>1. \A x \in past' : Proper(x, n)
    BY <1>1, KnownProper DEF n
  <2>2. \A id \in DOMAIN cache' : Proper(cache'[id].master, n)
    BY <1>1 DEF HInv, Store, n
  <2>3. SessionOK(end'["client"], n, Known')
    <3> DEFINE f == end'["client"]
    <3>1. f.session = s /\ f.ticket = <<>> /\ f.clientRandom = 0
      BY <1>0, <1>4
    <3>2. ProperTicket(s.ticket, n) /\ IsSession(s) /\ (s # NoSession => s.master \in Known')
      BY <1>0, <1>9 DEF SessionOK, s
    <3> QED
      BY <3>1, <3>2 DEF SessionOK, ProperTicket
  <2> QED
    BY <1>2, <2>1, <2>2, <2>3 DEF Store
<1>11. Both'
  <2>1. \A p \in Ends : end'[p].done = <<>> /\ end'[p].clientRandom = 0 /\ ~Closing(p, end'[p])
    BY <1>4
  <2>2. \A p \in Ends : Msgs'[p] = {}
    BY <1>5
  <2> QED
    BY <2>1, <2>2, BeginBoth DEF Both
<1> QED
  BY <1>1, <1>4, <1>6, <1>7, <1>8, <1>10, <1>11 DEF HInv

(* Initially.                                                                *)
LEMMA HInit ==
  ASSUME Init
  PROVE  HInv /\ past = {} /\ \A p \in Ends : end[p].done = <<>>
<1>0. "client" \in Ends /\ "server" \in Ends
  BY DEF Ends
<1>1. /\ end = Begin(NoSession) /\ wire = [p \in Ends |-> <<>>] /\ past = {} /\ cache = <<>>
      /\ config \in Configs /\ count = [random |-> 0, connection |-> 1, renegotiation |-> 0, app |-> 0]
  BY DEF Init
<1>2. /\ count \in [random : Nat, connection : 1 .. MaxConnections,
                    renegotiation : 0 .. MaxRenegotiations, app : 0 .. MaxApp]
      /\ count.random = 0 /\ 0 \in Nat
  BY <1>1, HandshakeAssumption
<1>3. DOMAIN end = Ends
  BY <1>1 DEF Begin
<1>4. \A p \in Ends :
        /\ Local(p, end[p], 0, past) /\ end[p].done = <<>> /\ end[p].clientRandom = 0
        /\ ~Closing(p, end[p]) /\ end[p].session = NoSession /\ end[p].ticket = <<>>
  BY <1>1, <1>2, BeginLocal
<1>5. /\ DOMAIN wire = Ends /\ \A p \in Ends : IsSeq(wire[p])
      /\ \A p \in Ends : Msgs[p] = {} /\ HelloOrder(wire["server"])
  BY <1>1, EmptyWires DEF Msgs
<1>6. DOMAIN cache = {}
  BY <1>1, EmptySeq
<1>7. Shape
  BY <1>1, <1>2, <1>3, <1>5, <1>6 DEF Shape
<1>8. Locals
  BY <1>2, <1>4 DEF Locals
<1>9. Wires
  BY <1>0, <1>5 DEF Wires
<1>10. Store
  <2>1. SessionOK(end["client"], 0, Known)
    BY <1>0, <1>4, NoSessionFacts DEF SessionOK, ProperTicket
  <2> QED
    BY <1>1, <1>2, <1>6, <2>1 DEF Store
<1>11. Both
  BY <1>4, <1>5, BeginBoth DEF Both
<1> QED
  BY <1>1, <1>4, <1>7, <1>8, <1>9, <1>10, <1>11 DEF HInv

(* What a step does to the handshakes that are complete.                     *)
LEMMA HNext ==
  ASSUME HInv, Next
  PROVE  /\ HInv'
         /\ \/ Incomplete \/ \E p \in Ends : Closes(p) \/ Follows(p)
            \/ past' = Known /\ \A p \in Ends : end'[p].done = <<>>
<1>0. "client" \in Ends /\ "server" \in Ends
  BY DEF Ends
<1>1. CASE NewConnection
  BY <1>1, NewConnectionStep
<1>2. CASE ClientStep
  <2>1. CASE SendClientHello
    BY <2>1, SendClientHelloStep
  <2>2. CASE SendCertificate("client") \/ RecvCertificate("client")
    BY <2>2, <1>0, SendCertificateStep, RecvCertificateStep
  <2>3. CASE SendClientKeyExchange
    BY <2>3, SendClientKeyExchangeStep
  <2>4. CASE SendCertVerify
    BY <2>4, SendFlightStep
  <2>5. CASE RecvHelloRequest
    BY <2>5, RecvHelloRequestStep
  <2>6. CASE RecvServerHello
    BY <2>6, RecvServerHelloStep
  <2>7. CASE RecvServerKeyExchange \/ RecvCertRequest \/ RecvServerHelloDone
    BY <2>7, RecvFlightStep
  <2>8. CASE RecvNewSessionTicket
    BY <2>8, RecvNewSessionTicketStep
  <2> QED
    BY <1>2, <2>1, <2>2, <2>3, <2>4, <2>5, <2>6, <2>7, <2>8 DEF ClientStep
<1>3. CASE ServerStep
  <2>1. CASE SendHelloRequest
    BY <2>1, SendHelloRequestStep
  <2>2. CASE SendServerHello
    BY <2>2, SendServerHelloStep
  <2>3. CASE SendCertificate("server") \/ RecvCertificate("server")
    BY <2>3, <1>0, SendCertificateStep, RecvCertificateStep
  <2>4. CASE SendServerKeyExchange \/ SendCertRequest
    BY <2>4, SendFlightStep
  <2>5. CASE SendServerHelloDone
    BY <2>5, SendServerHelloDoneStep
  <2>6. CASE SendNewSessionTicket
    BY <2>6, SendNewSessionTicketStep
  <2>7. CASE RecvClientHello
    BY <2>7, RecvClientHelloStep
  <2>8. CASE RefuseClientHello
    BY <2>8, RefuseClientHelloStep
  <2>9. CASE RecvClientKeyExchange
    BY <2>9, RecvClientKeyExchangeStep
  <2>10. CASE RecvCertVerify
    BY <2>10, RecvCertVerifyStep
  <2> QED
    BY <1>3, <2>1, <2>2, <2>3, <2>4, <2>5, <2>6, <2>7, <2>8, <2>9, <2>10 DEF ServerStep
<1>4. ASSUME NEW p \in Ends, EitherStep(p)
      PROVE  HInv' /\ (Incomplete \/ Closes(p) \/ Follows(p))
  <2>1. CASE SendChangeCipherSpec(p)
    BY <2>1, SendChangeCipherSpecStep
  <2>2. CASE SendFinished(p)
    BY <2>2, SendFinishedStep
  <2>3. CASE RecvChangeCipherSpec(p)
    BY <2>3, RecvChangeCipherSpecStep
  <2>4. CASE RecvFinished(p)
    BY <2>4, RecvFinishedStep
  <2>5. CASE RecvAppData(p)
    BY <2>5, RecvAppDataStep
  <2>6. CASE RecvAlert(p)
    BY <2>6, RecvAlertStep
  <2>7. CASE RecvRefused(p)
    BY <2>7, RecvRefusedStep
  <2> QED
    BY <1>4, <2>1, <2>2, <2>3, <2>4, <2>5, <2>6, <2>7 DEF EitherStep
<1>5. ASSUME NEW p \in Ends, HITLS_Renegotiate(p) \/ HITLS_Write(p)
      PROVE  HInv' /\ Incomplete
  BY <1>5, HITLS_RenegotiateStep, HITLS_WriteStep
<1> QED
  BY <1>1, <1>2, <1>3, <1>4, <1>5 DEF Next, Step

-----------------------------------------------------------------------------
(* The theorems.                                                             *)

(* The invariant holds always: what each end knows, what its messages are    *)
(* evidence for, and how far the two ends can be apart.                      *)
THEOREM InvariantHolds == Spec => []HInv
<1>1. Init => HInv
  BY HInit
<1>2. HInv /\ [Next]_vars => HInv'
  <2>1. HInv /\ Next => HInv'
    BY HNext
  <2>2. HInv /\ UNCHANGED vars => HInv'
    <3> SUFFICES ASSUME HInv, UNCHANGED vars
                 PROVE  HInv'
      OBVIOUS
    <3>1. /\ config' = config /\ end' = end /\ wire' = wire /\ cache' = cache
          /\ count' = count /\ past' = past
      BY DEF vars
    <3>2. Msgs' = Msgs /\ Known' = Known
      BY <3>1 DEF Msgs, Known
    <3>3. Shape'
      BY <3>1, <3>2 DEF HInv, Shape
    <3>4. Locals'
      BY <3>1 DEF HInv, Locals
    <3>5. Wires'
      BY <3>1, <3>2 DEF HInv, Wires
    <3>6. Store'
      BY <3>1, <3>2 DEF HInv, Store
    <3>7. Both'
      BY <3>1, <3>2 DEF HInv, Both
    <3> QED
      BY <3>3, <3>4, <3>5, <3>6, <3>7 DEF HInv
  <2> QED
    BY <2>1, <2>2
<1> QED
  BY <1>1, <1>2, PTL DEF Spec

(* The directions of a handshake state.                                      *)
LEMMA StageDirections ==
  ASSUME NEW p \in Ends, NEW h \in Stages(p)
  PROVE  h[1] \in {"idle", "send", "recv"} /\ (h[1] = "idle" <=> h = <<"idle", "none">>)
<1>1. h = <<h[1], h[2]>>
  BY StageFacts
<1>2. h[1] \in {"idle", "send", "recv"}
  BY PairFacts DEF Stages, Outside, Greeting, Flight, Keyed, Verify, Ticket, Changing
<1>3. h[1] = "idle" => h = <<"idle", "none">>
  BY PairFacts DEF Stages, Outside, Greeting, Flight, Keyed, Verify, Ticket, Changing
<1> QED
  BY <1>2, <1>3, PairFacts

(* The variables of two ends in a handshake stay in their domains: no end    *)
(* waits in a state that its role does not have, has more than one key to    *)
(* change to, or is idle in the midst of a handshake.                        *)
THEOREM TypeCorrect == Spec => []TypeOK
<1>1. HInv => TypeOK
  <2> SUFFICES ASSUME HInv
               PROVE  TypeOK
    OBVIOUS
  <2>1. /\ config \in Configs /\ \A id \in DOMAIN cache : cache[id].id = id
        /\ count \in [random : Nat, connection : 1 .. MaxConnections,
                      renegotiation : 0 .. MaxRenegotiations, app : 0 .. MaxApp]
    BY DEF HInv, Shape
  <2>2. ASSUME NEW p \in Ends
        PROVE  /\ end[p].state \in {"HANDSHAKING", "RENEGOTIATION", "TRANSPORTING", "ALERTED"}
               /\ end[p].hs[1] \in {"idle", "send", "recv"}
               /\ end[p].hs[1] = "idle" <=> end[p].state \in {"TRANSPORTING", "ALERTED"}
               /\ Len(end[p].nextRead) \in 0 .. 1 /\ Len(end[p].nextWrite) \in 0 .. 1
               /\ \A i \in DOMAIN wire[p] : wire[p][i].msg.type \in
                    HandshakeTypes \cup {"CHANGE_CIPHER_SPEC", "ALERT", "APP_DATA"}
    <3>1. Typed(p, end[p])
      BY Basics
    <3>2. \A s : AtMostOne(s) => Len(s) \in 0 .. 1
      <4>1. \A a : Len(<<a>>) = 1
        OBVIOUS
      <4> QED
        BY <4>1, EmptySeq DEF AtMostOne
    <3>3. \A i \in DOMAIN wire[p] : wire[p][i].msg \in Msgs[p]
      BY DEF Msgs
    <3>4. \A m \in Msgs[p] : m.type \in HandshakeTypes \cup {"CHANGE_CIPHER_SPEC", "ALERT", "APP_DATA"}
      BY DEF HInv, Shape
    <3>5. /\ end[p].hs[1] \in {"idle", "send", "recv"}
          /\ end[p].hs[1] = "idle" <=> end[p].hs = <<"idle", "none">>
      BY <3>1, StageDirections DEF Typed
    <3> QED
      BY <3>1, <3>2, <3>3, <3>4, <3>5 DEF Typed
  <2> QED
    BY <2>1, <2>2 DEF TypeOK
<1> QED
  BY <1>1, InvariantHolds, PTL

(* The handshakes of the two ends agree: a step of the handshake is a step   *)
(* of HsAgree, in which an end completes a new handshake as the first, or    *)
(* completes the one that the other end has completed.                       *)
THEOREM AgreementHolds == Spec => Agreement
<1>1. Init => Agree!AgreeInit
  BY HInit DEF Agree!AgreeInit, Agree!Ends, Ends
<1>2. HInv /\ [Next]_vars => [Agree!AgreeNext]_Agree!agreeVars
  <2> DEFINE list == [p \in Ends |-> end[p].done]
             next == [p \in Ends |-> end'[p].done]
  <2> SUFFICES ASSUME HInv, [Next]_vars
               PROVE  [Agree!AgreeNext]_Agree!agreeVars
    OBVIOUS
  <2>0. /\ Agree!Ends = Ends /\ (\A p : Agree!Peer(p) = Peer(p))
        /\ "client" \in Ends /\ "server" \in Ends
    BY DEF Agree!Ends, Agree!Peer, Ends, Peer
  <2>1. list["client"] = end["client"].done /\ list["server"] = end["server"].done
    BY <2>0
  <2>2. Agree!Known = Known
    BY <2>1 DEF Agree!Known, Agree!Agreed, Known
  <2>3. CASE UNCHANGED vars
    BY <2>3 DEF vars, Agree!agreeVars
  <2>4. CASE Incomplete
    BY <2>4 DEF Incomplete, Agree!agreeVars
  <2>5. CASE past' = Known /\ \A p \in Ends : end'[p].done = <<>>
    <3>1. Agree!Reconnect
      BY <2>0, <2>2, <2>5 DEF Agree!Reconnect
    <3> QED
      BY <3>1 DEF Agree!AgreeNext
  <2>6. ASSUME NEW p \in Ends, Closes(p)
        PROVE  Agree!AgreeNext
    <3> PICK h : end'[p].done = Append(end[p].done, h) /\ NewHandshake(h)
      BY <2>6 DEF Closes
    <3>1. past' = past /\ end'[Peer(p)] = end[Peer(p)] /\ end["client"].done = end["server"].done
      BY <2>6 DEF Closes
    <3>2. IsSeq(end[p].done)
      BY Basics DEF Typed
    <3>3. next = [list EXCEPT ![p] = Append(@, h)]
      <4>1. \A r \in Ends : next[r] = IF r = p THEN Append(list[p], h) ELSE list[r]
        BY <3>1, PeerFacts
      <4> QED
        BY <4>1
    <3>4. Len(list[p]) = Len(list[Peer(p)])
      BY <3>1 DEF Ends, Peer
    <3> DEFINE i == Len(end[p].done) + 1
    <3>5. i \in DOMAIN end'[p].done /\ end'[p].done[i] = h
      BY <3>2, AppendFacts
    <3> HIDE DEF i, next
    <3>6. /\ h.write = h.read /\ (h.resumed <=> h.read.master \in Agree!Known)
          /\ \A q \in Ends : \A j \in DOMAIN end[q].done : end[q].done[j].read # h.read
      BY <2>2 DEF NewHandshake
    <3>7. Agree!Fresh(h)
      BY <2>0, <3>6 DEF Agree!Fresh
    <3>8. Agree!CompleteFirst(p, h)
      BY <2>0, <3>1, <3>3, <3>4, <3>7 DEF Agree!CompleteFirst, next
    <3>9. h \in {end'[p].done[j] : j \in DOMAIN end'[p].done}
      BY <3>5
    <3> QED
      BY <2>0, <3>8, <3>9 DEF Agree!AgreeNext
  <2>7. ASSUME NEW p \in Ends, Follows(p)
        PROVE  Agree!AgreeNext
    <3> PICK h : end'[p].done = Append(end[p].done, h)
      BY <2>7 DEF Follows
    <3>1. past' = past /\ end'[Peer(p)] = end[Peer(p)] /\ end'["client"].done = end'["server"].done
      BY <2>7 DEF Follows
    <3>2. IsSeq(end[p].done)
      BY Basics DEF Typed
    <3>3. end'[p].done = end[Peer(p)].done
      BY <3>1 DEF Ends, Peer
    <3>4. Len(list[p]) + 1 = Len(list[Peer(p)])
      <4>1. list[p] = end[p].done /\ list[Peer(p)] = end[Peer(p)].done
        BY PeerFacts
      <4>2. Len(end'[p].done) = Len(end[p].done) + 1
        BY <3>2, AppendFacts
      <4> QED
        BY <3>3, <4>1, <4>2
    <3>5. next = [list EXCEPT ![p] = list[Peer(p)]]
      <4>1. \A r \in Ends : next[r] = IF r = p THEN list[Peer(p)] ELSE list[r]
        BY <3>1, <3>3, PeerFacts
      <4> QED
        BY <4>1
    <3>6. Agree!CompleteSecond(p)
      BY <2>0, <3>1, <3>4, <3>5 DEF Agree!CompleteSecond
    <3> QED
      BY <2>0, <3>6 DEF Agree!AgreeNext
  <2> QED
    BY <2>3, <2>4, <2>5, <2>6, <2>7, HNext
<1> QED
  BY <1>1, <1>2, InvariantHolds, PTL DEF Spec, Agreement, Agree!AgreeSpec

=============================================================================
