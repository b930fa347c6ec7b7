---------------------------- MODULE TlsHandshake ----------------------------
(* The TLS 1.2 handshake of a client and a server over a stream: the        *)
(* states of the two (hs_state_send.c, hs_state_recv.c and the handlers in   *)
(* handshake/send and handshake/recv), renegotiation (conn_establish.c,      *)
(* conn_read.c, conn_common.c), resumption from the server's cache or from a *)
(* ticket, and the change of keys (change_cipher_spec.c, record.c).  One     *)
(* client and one server open connections one after the other; the session   *)
(* of the client and the cache of the server outlive them.                   *)
(*   Cryptography is symbolic: a random number is a number never used before,*)
(* a master secret is the pair of premaster and transcript, verify data the  *)
(* label, master secret and transcript it is computed from, a ticket the     *)
(* master secret it holds, a record carries the key that protects it.        *)
EXTENDS Naturals, Sequences

CONSTANTS
  Configs,             \* the configurations of the two ends
  MaxConnections,      \* bound on the connections
  MaxRenegotiations,   \* bound on the calls of HITLS_Renegotiate
  MaxApp               \* bound on the calls of HITLS_Write

ASSUME HandshakeAssumption ==
  /\ MaxConnections \in Nat \ {0} /\ MaxRenegotiations \in Nat /\ MaxApp \in Nat

VARIABLES
  config,    \* the configuration of this connection, of both ends
  end,       \* the two ends: TLS_Ctx, its hsCtx, ccsCtx and record states
  wire,      \* the records on their way to each end
  cache,     \* the sessions in the server's session manager, by id
  count,     \* how often the bounded things have happened
  past       \* master secrets agreed on in earlier connections

vars == <<config, end, wire, cache, count, past>>

Ends == {"client", "server"}
Peer(p) == IF p = "client" THEN "server" ELSE "client"

NoId == <<>>
NoMaster == [premaster |-> 0, hash |-> <<>>]
NoKey == [master |-> NoMaster, client |-> 0, server |-> 0]
NoSession == [id |-> NoId, master |-> NoMaster, ticket |-> <<>>]
CcsReset == [ready |-> FALSE, recv |-> FALSE, allow |-> FALSE, active |-> FALSE]

(* HITLS_New: nothing negotiated, the record layer in plain text.            *)
NewEnd == [
  state |-> "HANDSHAKING", hs |-> <<"idle", "none">>,
  clientRandom |-> 0, serverRandom |-> 0, id |-> NoId, master |-> NoMaster,
  transcript |-> <<>>, verify |-> <<>>, needCert |-> FALSE, peerCert |-> FALSE,
  ticket |-> <<>>, version |-> FALSE, isResume |-> FALSE, isTicket |-> FALSE,
  isRenegotiation |-> FALSE, userRenego |-> FALSE, certReqSent |-> FALSE,
  clientVerify |-> <<>>, serverVerify |-> <<>>, session |-> NoSession,
  read |-> NoKey, write |-> NoKey, nextRead |-> <<>>, nextWrite |-> <<>>,
  ccs |-> CcsReset, done |-> <<>>]

(* HS_DeInit and HS_Init: a new handshake context.                           *)
HS_Init(e) ==
  [e EXCEPT !.clientRandom = 0, !.serverRandom = 0, !.id = NoId, !.master = NoMaster,
            !.transcript = <<>>, !.verify = <<>>, !.needCert = FALSE, !.peerCert = FALSE,
            !.ticket = <<>>]

(* The first handshake begins: HITLS_Connect, HITLS_Accept.                  *)
Begin(session) ==
  [p \in Ends |-> IF p = "client"
    THEN [NewEnd EXCEPT !.hs = <<"send", "CLIENT_HELLO">>, !.session = session]
    ELSE [NewEnd EXCEPT !.hs = <<"recv", "CLIENT_HELLO">>]]

Init ==
  /\ config \in Configs
  /\ end = Begin(NoSession)
  /\ wire = [p \in Ends |-> <<>>]
  /\ cache = <<>>
  /\ count = [random |-> 0, connection |-> 1, renegotiation |-> 0, app |-> 0]
  /\ past = {}

-----------------------------------------------------------------------------
(* Keys, transcript and verify data.                                         *)

(* VERIFY_Append: what the transcript keeps of a message.                    *)
VERIFY_Append(e, m) ==
  [e EXCEPT !.transcript = Append(@, <<m.type, IF "random" \in DOMAIN m THEN m.random ELSE 0>>)]

(* HS_GenerateMasterSecret: the extended master secret is always negotiated. *)
HS_GenerateMasterSecret(e, premaster) ==
  [e EXCEPT !.master = [premaster |-> premaster, hash |-> e.transcript]]

(* HS_KeyEstablish: the keys both directions will change to.                 *)
HS_KeyEstablish(e) ==
  LET key == [master |-> e.master, client |-> e.clientRandom, server |-> e.serverRandom]
  IN [e EXCEPT !.nextRead = <<key>>, !.nextWrite = <<key>>]

(* The session's master secret, with the random numbers of this handshake.   *)
FaultyResumeKeyEstablish(e) ==
  HS_KeyEstablish([e EXCEPT !.master = e.session.master, !.clientRandom = 0, !.serverRandom = 0])
HS_ResumeKeyEstablish(e) == HS_KeyEstablish([e EXCEPT !.master = e.session.master])

(* VERIFY_CalcVerifyData and SaveVerifyData.                                 *)
VERIFY_CalcVerifyData(e, label) ==
  LET v == <<label, e.master, e.transcript>> IN
  IF label = "client" THEN [e EXCEPT !.verify = v, !.clientVerify = v]
                      ELSE [e EXCEPT !.verify = v, !.serverVerify = v]

(* REC_ActivePendingState.                                                   *)
ActivateRead(e) == [e EXCEPT !.read = Head(e.nextRead), !.nextRead = <<>>]
ActivateWrite(e) == [e EXCEPT !.write = Head(e.nextWrite), !.nextWrite = <<>>]

(* CCS_CMD_RECV_READY with CCS_CMD_RECV_ACTIVE_CIPHER_SPEC, in either order. *)
AwaitCcs(e) ==
  LET r == [e EXCEPT !.ccs.ready = TRUE, !.ccs.allow = TRUE] IN
  IF e.ccs.recv /\ ~e.ccs.active THEN [ActivateRead(r) EXCEPT !.ccs.active = TRUE] ELSE r

CcsExitReady(e) == [e EXCEPT !.ccs = CcsReset]

(* The peer's Finished comes next: its verify data, and its keys.            *)
AwaitFinished(e, label) ==
  [AwaitCcs(VERIFY_CalcVerifyData(e, label)) EXCEPT !.hs = <<"recv", "FINISHED">>]

GoTo(e, dir, type) == [e EXCEPT !.hs = <<dir, type>>]

(* TLS_CONNECTED: the connection layer goes to TRANSPORTING.                 *)
FaultyConnected(e) ==
  [HS_Init(e) EXCEPT !.hs = <<"idle", "none">>, !.isRenegotiation = FALSE, !.userRenego = FALSE]
Connected(e) ==
  LET idle == [HS_Init(e) EXCEPT !.state = "TRANSPORTING", !.hs = <<"idle", "none">>] IN
  IF e.isRenegotiation
    THEN [idle EXCEPT !.isRenegotiation = FALSE, !.userRenego = FALSE] ELSE idle

(* A handshake is complete; done keeps what it agreed on.                    *)
Complete(e) ==
  Connected([e EXCEPT !.done =
    Append(@, [read |-> e.read, write |-> e.write, resumed |-> e.isResume])])

-----------------------------------------------------------------------------
(* Records, alerts and the end of a connection.                              *)

Record(p, m) == [key |-> end[p].write, msg |-> m]
Alert(level) == [type |-> "ALERT", level |-> level]
WithoutId(c, id) == [i \in DOMAIN c \ {id} |-> c[i]]
WithSession(c, s) == [i \in DOMAIN c \cup {s.id} |-> IF i = s.id THEN s ELSE c[i]]

(* HS_SendMsg: message m goes out under the write key; then e is end p.      *)
Send(p, m, e) ==
  /\ wire' = [wire EXCEPT ![Peer(p)] = Append(@, Record(p, m))]
  /\ end' = [end EXCEPT ![p] = e]

(* The first record to p is consumed; then e is end p.                       *)
Consume(p, e) ==
  /\ wire' = [wire EXCEPT ![p] = Tail(@)]
  /\ end' = [end EXCEPT ![p] = e]

(* The session of a failed connection is disabled, also in the cache.        *)
Disabled(e) == [NewEnd EXCEPT !.state = "ALERTED", !.done = e.done]
DisableSession(p) ==
  cache' = IF p = "server" THEN WithoutId(cache, end[p].session.id) ELSE cache

(* A fatal alert is sent: AlertEventProcess.                                 *)
Fail(p) ==
  /\ wire' = [wire EXCEPT ![p] = <<>>, ![Peer(p)] = Append(@, Record(p, Alert("fatal")))]
  /\ end' = [end EXCEPT ![p] = Disabled(end[p])]
  /\ DisableSession(p)
  /\ UNCHANGED <<config, count, past>>

Quiet == UNCHANGED <<config, cache, count, past>>
NextRandom == count' = [count EXCEPT !.random = @ + 1]

(* p is to send a message of this type.                                      *)
Sends(p, type) == end[p].hs = <<"send", type>>

-----------------------------------------------------------------------------
(* Which message p accepts.                                                  *)

PskIdentity == {"PSK", "RSA_PSK"}
NeedCertificate == config.kx # "PSK"
NeedServerKeyExchange(p) ==
  \/ config.kx = "ECDHE"
  \/ config.kx \in PskIdentity /\ (p = "client" \/ config.hint)
NeedCertRequest(e) == config.verify /\ (~e.certReqSent \/ ~config.onceVerify)

(* CheckHsMsgType: messages that may be missing.                             *)
MayCome(e) ==
  LET t == e.hs[2] IN
  {t} \cup (IF t = "SERVER_KEY_EXCHANGE" /\ config.kx \in PskIdentity
              THEN {"CERTIFICATE_REQUEST", "SERVER_HELLO_DONE"} ELSE {})
      \cup (IF t = "CERTIFICATE_REQUEST" THEN {"SERVER_HELLO_DONE"} ELSE {})

(* RecvRenegoReqPreprocess: the messages that begin a renegotiation.         *)
RenegotiationAllowed(p, type) ==
  \/ p = "client" /\ type = "HELLO_REQUEST" /\ config.renegoC
  \/ p = "server" /\ type = "CLIENT_HELLO" /\ config.renegoS
       /\ (config.allowClientRenego \/ end[p].userRenego)

First(p) == Head(wire[p]).msg
Reading(p) ==
  /\ wire[p] # <<>>
  /\ \/ end[p].state = "TRANSPORTING"
     \/ end[p].hs[1] = "recv"
Decrypts(p) == Head(wire[p]).key = end[p].read

Accepts(p, type) ==
  IF end[p].state = "TRANSPORTING" THEN RenegotiationAllowed(p, type)
  ELSE type \in MayCome(end[p]) /\ (type = "FINISHED" => end[p].ccs.recv)

(* A handshake message that p accepts; Got is the end that has read it: in   *)
(* TRANSPORTING it begins a renegotiation with a new handshake context.      *)
Receives(p, type) == Reading(p) /\ Decrypts(p) /\ First(p).type = type /\ Accepts(p, type)
Got(p) ==
  LET e == end[p] IN
  VERIFY_Append(IF e.state = "TRANSPORTING" THEN [HS_Init(e) EXCEPT !.state = "RENEGOTIATION"]
                ELSE e, First(p))

HandshakeTypes == {"HELLO_REQUEST", "CLIENT_HELLO", "SERVER_HELLO", "CERTIFICATE",
  "SERVER_KEY_EXCHANGE", "CERTIFICATE_REQUEST", "SERVER_HELLO_DONE", "CLIENT_KEY_EXCHANGE",
  "CERTIFICATE_VERIFY", "NEW_SESSION_TICKET", "FINISHED"}

-----------------------------------------------------------------------------
(* The hellos.                                                               *)

(* ServerSendHelloRequestProcess: the server is not in a renegotiation until *)
(* the ClientHello comes.                                                    *)
SendHelloRequest ==
  /\ Sends("server", "HELLO_REQUEST")
  /\ Send("server", [type |-> "HELLO_REQUEST"],
          Connected([end["server"] EXCEPT !.isRenegotiation = FALSE]))
  /\ Quiet

(* The renegotiation information of the two hellos: the verify data of the   *)
(* handshake before.                                                         *)
ClientRenegoInfo(e) == IF e.isRenegotiation THEN <<e.clientVerify>> ELSE <<>>
ServerRenegoInfo(e) == IF e.isRenegotiation THEN <<e.clientVerify, e.serverVerify>> ELSE <<>>

(* ClientPrepareSession: a session is dropped in a renegotiation that may    *)
(* not resume, or when it has timed out.                                     *)
ClientPrepareSession(e) ==
  IF e.isRenegotiation /\ ~config.resumeC THEN {NoSession} ELSE {e.session, NoSession}

(* ClientSendClientHelloProcess.                                             *)
SendClientHello ==
  /\ Sends("client", "CLIENT_HELLO")
  /\ \E s \in ClientPrepareSession(end["client"]) :
       LET e == [end["client"] EXCEPT !.session = s, !.id = s.id, !.transcript = <<>>,
                                      !.clientRandom = count.random + 1]
           m == [type |-> "CLIENT_HELLO", random |-> e.clientRandom, id |-> s.id,
                 hasTicket |-> config.ticketC,
                 ticket |-> IF config.ticketC THEN s.ticket ELSE <<>>,
                 renegoInfo |-> ClientRenegoInfo(e)]
       IN Send("client", m, GoTo(VERIFY_Append(e, m), "recv", "SERVER_HELLO"))
  /\ NextRandom
  /\ UNCHANGED <<config, cache, past>>

(* ServerCheckResume, ServerCheckResumeTicket: what the server makes of the  *)
(* session or ticket offered.  A session may have timed out, and is removed; *)
(* a ticket may be too old or its key unknown, or its key about to change.   *)
Resumptions(e, m) ==
  LET none(t) == [session |-> NoSession, isTicket |-> t, gone |-> NoId]
      restored == [id |-> m.id, master |-> m.ticket[1], ticket |-> <<>>]
      offered == config.ticketS /\ m.hasTicket
  IN IF e.isRenegotiation /\ ~config.resumeS THEN {none(FALSE)}
     ELSE IF m.ticket # <<>> THEN
       IF ~config.ticketS THEN {none(FALSE)}
       ELSE {none(TRUE)} \cup {[session |-> restored, isTicket |-> t, gone |-> NoId] : t \in BOOLEAN}
     ELSE IF m.id \in DOMAIN cache THEN
       {[session |-> cache[m.id], isTicket |-> offered, gone |-> NoId],
        [none(offered) EXCEPT !.gone = m.id]}
     ELSE {none(offered)}

(* A ClientHello after the first begins a renegotiation.                     *)
CheckRenegotiate(e) == [e EXCEPT !.isRenegotiation = @ \/ e.version, !.version = TRUE]

(* Tls12ServerRecvClientHelloProcess.                                        *)
RecvClientHello ==
  LET m == First("server")
      e == [CheckRenegotiate(Got("server")) EXCEPT !.clientRandom = m.random]
  IN
  /\ Receives("server", "CLIENT_HELLO")
  /\ IF m.renegoInfo # ClientRenegoInfo(e) THEN Fail("server")
     ELSE /\ \E r \in Resumptions(e, m) :
               /\ Consume("server", GoTo(
                    [e EXCEPT !.isResume = (r.session # NoSession), !.isTicket = r.isTicket,
                              !.session = IF r.session # NoSession THEN r.session ELSE @],
                    "send", "SERVER_HELLO"))
               /\ cache' = WithoutId(cache, r.gone)
          /\ UNCHANGED <<config, count, past>>

(* A renegotiation this server does not allow: a warning, and the            *)
(* connection goes on.                                                       *)
RefuseClientHello ==
  /\ Reading("server") /\ Decrypts("server") /\ First("server").type = "CLIENT_HELLO"
  /\ end["server"].state = "TRANSPORTING" /\ ~Accepts("server", "CLIENT_HELLO")
  /\ wire' = [wire EXCEPT !["server"] = Tail(@),
                          !["client"] = Append(@, Record("server", Alert("warning")))]
  /\ UNCHANGED end
  /\ Quiet

(* ServerPrepareSessionId.                                                   *)
ServerPrepareSessionId(e) ==
  IF e.isResume THEN e.session.id
  ELSE IF config.cacheMode = "server" /\ ~e.isTicket THEN <<"server", count.random + 1>>
  ELSE NoId

(* ServerSendServerHelloProcess, ServerChangeStateAfterSendHello.            *)
SendServerHello ==
  LET e == [end["server"] EXCEPT !.serverRandom = count.random + 1,
                                 !.id = ServerPrepareSessionId(end["server"])]
      m == [type |-> "SERVER_HELLO", random |-> e.serverRandom, id |-> e.id,
            hasTicket |-> e.isTicket,
            renegoInfo |-> ServerRenegoInfo(e)]
      s == VERIFY_Append(e, m)
  IN
  /\ Sends("server", "SERVER_HELLO")
  /\ Send("server", m,
       IF e.isResume THEN
         GoTo(HS_ResumeKeyEstablish(s), "send",
              IF e.isTicket THEN "NEW_SESSION_TICKET" ELSE "CHANGE_CIPHER_SPEC")
       ELSE GoTo(s, "send",
              IF NeedCertificate THEN "CERTIFICATE"
              ELSE IF config.hint THEN "SERVER_KEY_EXCHANGE" ELSE "SERVER_HELLO_DONE"))
  /\ NextRandom
  /\ UNCHANGED <<config, cache, past>>

(* The id of a session that is not resumed: the one the server sends, and    *)
(* if it sends none, the one that was offered stays.                         *)
ClientCopySessionId(e, m) == [e EXCEPT !.id = IF m.id # NoId THEN m.id ELSE @]

(* ClientRecvServerHelloProcess: the session is resumed iff the server sends *)
(* the id that was offered.                                                  *)
RecvServerHello ==
  LET m == First("client")
      resumed == end["client"].session # NoSession /\ m.id # NoId /\ m.id = end["client"].id
      e == [Got("client") EXCEPT !.serverRandom = m.random, !.version = TRUE,
              !.isResume = resumed, !.isTicket = m.hasTicket]
      k == HS_ResumeKeyEstablish(e)
  IN
  /\ Receives("client", "SERVER_HELLO")
  /\ IF m.renegoInfo # ServerRenegoInfo(e) THEN Fail("client")
     ELSE /\ Consume("client",
               IF ~resumed THEN
                 GoTo(CcsExitReady(ClientCopySessionId(e, m)), "recv",
                      IF NeedCertificate THEN "CERTIFICATE" ELSE "SERVER_KEY_EXCHANGE")
               ELSE IF m.hasTicket THEN GoTo(k, "recv", "NEW_SESSION_TICKET")
               ELSE AwaitFinished(k, "server"))
          /\ Quiet

-----------------------------------------------------------------------------
(* Certificates and keys of a full handshake.                                *)

(* A message without content that its receiver needs to know.                *)
SendPlain(p, type, e, next) ==
  LET m == [type |-> type] IN
  /\ Sends(p, type)
  /\ Send(p, m, GoTo(VERIFY_Append(e, m), "send", next))
  /\ Quiet

(* The flight of the server ends: the client sends next.                     *)
AfterKeyExchange(e) ==
  IF config.kx # "PSK" /\ NeedCertRequest(e) THEN "CERTIFICATE_REQUEST" ELSE "SERVER_HELLO_DONE"

(* SendCertificateProcess; only a client can send an empty one.              *)
SendCertificate(p) ==
  LET e == end[p]
      m == [type |-> "CERTIFICATE", empty |-> p = "client" /\ ~config.clientCert]
  IN
  /\ Sends(p, "CERTIFICATE")
  /\ Send(p, m, GoTo(VERIFY_Append(e, m), "send",
       IF p = "client" THEN "CLIENT_KEY_EXCHANGE"
       ELSE IF NeedServerKeyExchange(p) THEN "SERVER_KEY_EXCHANGE" ELSE AfterKeyExchange(e)))
  /\ Quiet

SendServerKeyExchange ==
  SendPlain("server", "SERVER_KEY_EXCHANGE", end["server"], AfterKeyExchange(end["server"]))

SendCertRequest ==
  SendPlain("server", "CERTIFICATE_REQUEST",
    [end["server"] EXCEPT !.needCert = TRUE, !.certReqSent = TRUE], "SERVER_HELLO_DONE")

(* ServerSendServerHelloDoneProcess.                                         *)
SendServerHelloDone ==
  LET e == end["server"]
      m == [type |-> "SERVER_HELLO_DONE"]
  IN
  /\ Sends("server", "SERVER_HELLO_DONE")
  /\ Send("server", m, GoTo(VERIFY_Append(e, m), "recv",
       IF e.needCert THEN "CERTIFICATE" ELSE "CLIENT_KEY_EXCHANGE"))
  /\ Quiet

(* RecvCertificateProcess: an empty certificate only where the server        *)
(* tolerates it.                                                             *)
RecvCertificate(p) ==
  LET m == First(p)
      e == [Got(p) EXCEPT !.peerCert = ~m.empty]
  IN
  /\ Receives(p, "CERTIFICATE")
  /\ IF m.empty /\ ~(p = "server" /\ config.verify /\ config.allowNoCert) THEN Fail(p)
     ELSE /\ Consume(p, GoTo(e, "recv",
               IF p = "server" THEN "CLIENT_KEY_EXCHANGE"
               ELSE IF NeedServerKeyExchange(p) THEN "SERVER_KEY_EXCHANGE"
               ELSE "CERTIFICATE_REQUEST"))
          /\ Quiet

RecvServerKeyExchange ==
  /\ Receives("client", "SERVER_KEY_EXCHANGE")
  /\ Consume("client", GoTo(Got("client"), "recv", "CERTIFICATE_REQUEST"))
  /\ Quiet

RecvCertRequest ==
  /\ Receives("client", "CERTIFICATE_REQUEST")
  /\ Consume("client", GoTo([Got("client") EXCEPT !.needCert = TRUE], "recv", "SERVER_HELLO_DONE"))
  /\ Quiet

RecvServerHelloDone ==
  /\ Receives("client", "SERVER_HELLO_DONE")
  /\ Consume("client", GoTo(Got("client"), "send",
       IF end["client"].needCert THEN "CERTIFICATE" ELSE "CLIENT_KEY_EXCHANGE"))
  /\ Quiet

(* ClientSendClientKeyExchangeProcess: the message is out before the master  *)
(* secret is computed.  A plain PSK gives the same premaster every time.     *)
SendClientKeyExchange ==
  LET m == [type |-> "CLIENT_KEY_EXCHANGE",
            premaster |-> IF config.kx = "PSK" THEN 0 ELSE count.random + 1]
      e == HS_KeyEstablish(HS_GenerateMasterSecret(VERIFY_Append(end["client"], m), m.premaster))
  IN
  /\ Sends("client", "CLIENT_KEY_EXCHANGE")
  /\ Send("client", m, GoTo(e, "send",
       IF e.needCert /\ config.clientCert THEN "CERTIFICATE_VERIFY" ELSE "CHANGE_CIPHER_SPEC"))
  /\ NextRandom
  /\ UNCHANGED <<config, cache, past>>

(* ServerRecvClientKxProcess.                                                *)
RecvClientKeyExchange ==
  LET m == First("server")
      e == HS_KeyEstablish(HS_GenerateMasterSecret(Got("server"), m.premaster))
  IN
  /\ Receives("server", "CLIENT_KEY_EXCHANGE")
  /\ Consume("server",
       IF e.needCert /\ e.peerCert THEN GoTo(e, "recv", "CERTIFICATE_VERIFY")
       ELSE AwaitFinished(e, "client"))
  /\ Quiet

SendCertVerify ==
  SendPlain("client", "CERTIFICATE_VERIFY", end["client"], "CHANGE_CIPHER_SPEC")

(* ServerRecvClientCertVerifyProcess.                                        *)
RecvCertVerify ==
  /\ Receives("server", "CERTIFICATE_VERIFY")
  /\ Consume("server", AwaitFinished(Got("server"), "client"))
  /\ Quiet

-----------------------------------------------------------------------------
(* Session ticket, change of keys, Finished.                                 *)

(* SendNewSessionTicketProcess: the ticket of this session.                  *)
SendNewSessionTicket ==
  LET e == end["server"]
      m == [type |-> "NEW_SESSION_TICKET", ticket |-> <<e.session.master>>]
  IN
  /\ Sends("server", "NEW_SESSION_TICKET")
  /\ Send("server", m, GoTo(VERIFY_Append(e, m), "send", "CHANGE_CIPHER_SPEC"))
  /\ Quiet

(* Tls12ClientRecvNewSeesionTicketProcess: kept for the new session, or the  *)
(* resumed session is updated at once.                                       *)
RecvNewSessionTicket ==
  LET m == First("client")
      e == Got("client")
  IN
  /\ Receives("client", "NEW_SESSION_TICKET")
  /\ Consume("client", AwaitFinished(
       IF e.isResume THEN [e EXCEPT !.session.ticket = m.ticket] ELSE [e EXCEPT !.ticket = m.ticket],
       "server"))
  /\ Quiet

(* SendChangeCipherSpecProcess.                                              *)
SendChangeCipherSpec(p) ==
  /\ Sends(p, "CHANGE_CIPHER_SPEC")
  /\ Send(p, [type |-> "CHANGE_CIPHER_SPEC"], GoTo(ActivateWrite(end[p]), "send", "FINISHED"))
  /\ Quiet

(* ProcessPlainCCS, ProcessDecryptedCCS.                                     *)
RecvChangeCipherSpec(p) ==
  LET e == end[p] IN
  /\ Reading(p) /\ Decrypts(p) /\ First(p).type = "CHANGE_CIPHER_SPEC"
  /\ IF ~e.ccs.ready \/ e.ccs.recv THEN Fail(p)
     ELSE /\ Consume(p,
               IF e.ccs.allow /\ ~e.ccs.active
                 THEN [ActivateRead(e) EXCEPT !.ccs.active = TRUE, !.ccs.recv = TRUE]
                 ELSE [e EXCEPT !.ccs.recv = TRUE])
          /\ Quiet

(* Tls12ClientSendFinishedProcess, Tls12ServerSendFinishedProcess.           *)
SendFinished(p) ==
  LET c == VERIFY_CalcVerifyData(end[p], p)
      m == [type |-> "FINISHED", verify |-> c.verify]
      e == VERIFY_Append(c, m)
  IN
  /\ Sends(p, "FINISHED")
  /\ Send(p, m,
       IF p = "client" THEN
         IF e.isResume THEN Complete(CcsExitReady(e))
         ELSE IF e.isTicket THEN GoTo(e, "recv", "NEW_SESSION_TICKET")
         ELSE AwaitFinished(e, "server")
       ELSE IF e.isResume THEN AwaitFinished(e, "client") ELSE Complete(CcsExitReady(e)))
  /\ Quiet

(* HsSetSessionInfo: the session of a full handshake.  With a ticket the id  *)
(* of the hellos is discarded and the client makes one up.                   *)
FaultySetSessionInfo(p, e) ==
  IF e.isResume THEN e
  ELSE [e EXCEPT !.session = [id |-> e.id, master |-> e.master, ticket |-> e.ticket]]
HsSetSessionInfo(p, e) ==
  IF e.isResume THEN e
  ELSE [e EXCEPT !.session = [
          id |-> IF ~e.isTicket THEN e.id
                 ELSE IF p = "client" /\ e.ticket # <<>> THEN <<"client", e.clientRandom>>
                 ELSE NoId,
          master |-> e.master,
          ticket |-> IF p = "client" /\ e.isTicket THEN e.ticket ELSE <<>>]]

(* SESSMGR_InsertSession: by the server of a full handshake, unless the      *)
(* session has no id or the mode keeps no sessions of servers.               *)
Insert(p, e) ==
  IF p = "server" /\ ~e.isResume /\ e.session.id # NoId /\ config.cacheMode = "server"
    THEN WithSession(cache, e.session) ELSE cache

(* Tls12ClientRecvFinishedProcess, Tls12ServerRecvFinishedProcess.           *)
RecvFinished(p) ==
  LET e == HsSetSessionInfo(p, Got(p)) IN
  /\ Receives(p, "FINISHED")
  /\ IF First(p).verify # end[p].verify THEN Fail(p)
     ELSE /\ Consume(p,
               IF p = "client" THEN
                 IF e.isResume THEN GoTo(CcsExitReady(e), "send", "CHANGE_CIPHER_SPEC")
                 ELSE Complete(CcsExitReady(e))
               ELSE IF e.isResume THEN Complete(CcsExitReady(e))
               ELSE GoTo(e, "send",
                      IF e.isTicket THEN "NEW_SESSION_TICKET" ELSE "CHANGE_CIPHER_SPEC"))
          /\ cache' = Insert(p, e)
          /\ UNCHANGED <<config, count, past>>

-----------------------------------------------------------------------------
(* Renegotiation, data, alerts, new connections.                             *)

Renegotiates(p) == IF p = "client" THEN config.renegoC ELSE config.renegoS

(* HITLS_Renegotiate.                                                        *)
HITLS_Renegotiate(p) ==
  /\ end[p].state = "TRANSPORTING" /\ ~end[p].isRenegotiation /\ Renegotiates(p)
  /\ count.renegotiation < MaxRenegotiations
  /\ count' = [count EXCEPT !.renegotiation = @ + 1]
  /\ end' = [end EXCEPT ![p] = GoTo(
       [HS_Init(@) EXCEPT !.state = "RENEGOTIATION", !.isRenegotiation = TRUE, !.userRenego = TRUE],
       "send", IF p = "client" THEN "CLIENT_HELLO" ELSE "HELLO_REQUEST")]
  /\ UNCHANGED <<config, wire, cache, past>>

(* A HelloRequest begins a renegotiation of an idle client, is answered by a *)
(* warning if that is not supported, and is ignored during a handshake.      *)
RecvHelloRequest ==
  LET e == end["client"] IN
  /\ Reading("client") /\ Decrypts("client") /\ First("client").type = "HELLO_REQUEST"
  /\ Quiet
  /\ \/ /\ e.state # "TRANSPORTING"
        /\ Consume("client", e)
     \/ /\ e.state = "TRANSPORTING" /\ config.renegoC
        /\ Consume("client", GoTo(
             [HS_Init(e) EXCEPT !.state = "RENEGOTIATION", !.isRenegotiation = TRUE],
             "send", "CLIENT_HELLO"))
     \/ /\ e.state = "TRANSPORTING" /\ ~config.renegoC
        /\ wire' = [wire EXCEPT !["client"] = Tail(@),
                                !["server"] = Append(@, Record("client", Alert("warning")))]
        /\ UNCHANGED end

(* HITLS_Write of an idle connection.                                        *)
HITLS_Write(p) ==
  /\ end[p].state = "TRANSPORTING" /\ count.app < MaxApp
  /\ count' = [count EXCEPT !.app = @ + 1]
  /\ wire' = [wire EXCEPT ![Peer(p)] = Append(@, Record(p, [type |-> "APP_DATA"]))]
  /\ UNCHANGED <<config, end, cache, past>>

(* CommonEventInRenegotiationState, HS_IsAppDataAllowed: data that was sent  *)
(* before the renegotiation is delivered, if the application is in           *)
(* HITLS_Read and the end waits for the hello of its peer.                   *)
FaultyAppDataAllowed(p) == end[p].state = "TRANSPORTING"
AppDataAllowed(p) ==
  \/ end[p].state = "TRANSPORTING"
  \/ /\ end[p].state = "RENEGOTIATION" /\ config.driver = "read"
     /\ end[p].hs = <<"recv", IF p = "client" THEN "SERVER_HELLO" ELSE "CLIENT_HELLO">>

RecvAppData(p) ==
  /\ Reading(p) /\ Decrypts(p) /\ First(p).type = "APP_DATA" /\ AppDataAllowed(p)
  /\ Consume(p, end[p])
  /\ Quiet

(* InnerRenegotiationProcess is reached: this end wanted a renegotiation.    *)
FaultyRenegotiationWanted(e) == e.state = "TRANSPORTING" /\ e.userRenego
RenegotiationWanted(e) ==
  \/ e.state = "RENEGOTIATION"
  \/ e.state = "TRANSPORTING" /\ e.userRenego

(* AlertRecvProcess; a warning that there is no renegotiation ends the       *)
(* connection of an end that wanted one.                                     *)
RecvAlert(p) ==
  LET e == end[p] IN
  /\ Reading(p) /\ Decrypts(p) /\ First(p).type = "ALERT"
  /\ IF First(p).level = "fatal" THEN
       /\ wire' = [wire EXCEPT ![p] = <<>>]
       /\ end' = [end EXCEPT ![p] = Disabled(e)]
       /\ DisableSession(p)
       /\ UNCHANGED <<config, count, past>>
     ELSE IF RenegotiationWanted(e) THEN Fail(p)
     ELSE Consume(p, e) /\ Quiet

(* Handshake messages that p answers without a failure.                      *)
Tolerates(p, type) ==
  \/ Accepts(p, type)
  \/ p = "client" /\ type = "HELLO_REQUEST"
  \/ p = "server" /\ type = "CLIENT_HELLO" /\ end[p].state = "TRANSPORTING"

(* A record under other keys, a message that is not expected, or data that   *)
(* comes during a handshake.                                                 *)
RecvRefused(p) ==
  LET t == First(p).type IN
  /\ Reading(p)
  /\ Decrypts(p) => \/ t \in HandshakeTypes /\ ~Tolerates(p, t)
                    \/ t = "APP_DATA" /\ ~AppDataAllowed(p)
  /\ Fail(p)

(* The master secrets agreed on in this connection and the ones before.      *)
Known ==
  past \cup {end["client"].done[i].read.master :
               i \in {j \in DOMAIN end["client"].done : j \in DOMAIN end["server"].done}}

(* The applications give the connection up and open another; the client      *)
(* offers its session.  Cipher suites and cache mode stay as they are.       *)
NewConnection ==
  /\ count.connection < MaxConnections
  /\ count' = [count EXCEPT !.connection = @ + 1]
  /\ config' \in Configs
  /\ config'.kx = config.kx
  /\ end' = Begin(end["client"].session)
  /\ wire' = [p \in Ends |-> <<>>]
  /\ past' = Known
  /\ UNCHANGED cache

(* HS_DoHandshake and HITLS_Read of each end, with what they send.           *)
ClientStep ==
  \/ SendClientHello \/ SendCertificate("client") \/ SendClientKeyExchange \/ SendCertVerify
  \/ RecvHelloRequest \/ RecvServerHello \/ RecvServerKeyExchange \/ RecvCertRequest
  \/ RecvServerHelloDone \/ RecvNewSessionTicket
  \/ RecvCertificate("client")

ServerStep ==
  \/ SendHelloRequest \/ SendServerHello \/ SendCertificate("server") \/ SendServerKeyExchange
  \/ SendCertRequest \/ SendServerHelloDone \/ SendNewSessionTicket
  \/ RecvClientHello \/ RefuseClientHello \/ RecvCertificate("server")
  \/ RecvClientKeyExchange \/ RecvCertVerify

EitherStep(p) ==
  \/ SendChangeCipherSpec(p) \/ SendFinished(p) \/ RecvChangeCipherSpec(p) \/ RecvFinished(p)
  \/ RecvAppData(p) \/ RecvAlert(p) \/ RecvRefused(p)

Step(p) == (p = "client" /\ ClientStep) \/ (p = "server" /\ ServerStep) \/ EitherStep(p)

Next ==
  \/ NewConnection
  \/ \E p \in Ends : Step(p) \/ HITLS_Renegotiate(p) \/ HITLS_Write(p)

(* The applications call HITLS_Read, HITLS_Connect or HITLS_Accept again and *)
(* again; nothing makes them renegotiate, write or reconnect.                *)
Spec == Init /\ [][Next]_vars /\ \A p \in Ends : WF_vars(Step(p))

-----------------------------------------------------------------------------
(* Properties.                                                               *)

(* The variables stay in their domains.                                      *)
TypeOK ==
  /\ config \in Configs
  /\ \A p \in Ends :
       /\ end[p].state \in {"HANDSHAKING", "RENEGOTIATION", "TRANSPORTING", "ALERTED"}
       /\ end[p].hs[1] \in {"idle", "send", "recv"}
       /\ end[p].hs[1] = "idle" <=> end[p].state \in {"TRANSPORTING", "ALERTED"}
       /\ Len(end[p].nextRead) \in 0 .. 1 /\ Len(end[p].nextWrite) \in 0 .. 1
       /\ \A i \in DOMAIN wire[p] : wire[p][i].msg.type \in
            HandshakeTypes \cup {"CHANGE_CIPHER_SPEC", "ALERT", "APP_DATA"}
  /\ \A id \in DOMAIN cache : cache[id].id = id
  /\ count.connection \in 1 .. MaxConnections
  /\ count.renegotiation \in 0 .. MaxRenegotiations /\ count.app \in 0 .. MaxApp

(* The two ends agree on every handshake, full, resumed or renegotiated.     *)
Agree == INSTANCE HsAgree WITH list <- [p \in Ends |-> end[p].done], known <- past
Agreement == Agree!AgreeSpec

(* Configurations under which nothing should go wrong.                       *)
Compatible(c) ==
  /\ c.verify => c.clientCert \/ c.allowNoCert
  /\ c.renegoC = c.renegoS /\ (c.renegoC => c.allowClientRenego)
  /\ c.driver = "read"

(* Two ends of this library whose configurations fit never fail: whatever    *)
(* crosses on the wire (a HelloRequest and a ClientHello, data sent before a  *)
(* renegotiation, old and new keys), no end finds a message unexpected,      *)
(* wrongly protected or contradicting its own verify data.                   *)
NoFailure == Compatible(config) => \A p \in Ends : end[p].state # "ALERTED"

(* A session the client would offer and the server would find or decrypt     *)
(* holds the same master secret on both sides.                               *)
SessionsMatch ==
  LET s == end["client"].session IN
  /\ s.id \in DOMAIN cache => cache[s.id].master = s.master
  /\ s.ticket # <<>> => s.ticket[1] = s.master

(* The ends never wait for each other: whatever the configurations, the      *)
(* handshakes come to an end, with both ends connected and nothing left on   *)
(* the wire, or with the connection given up by both.                        *)
Settled ==
  /\ \A p \in Ends : wire[p] = <<>> \/ end[p].state = "ALERTED"
  /\ \/ \A p \in Ends : end[p].state = "TRANSPORTING"
     \/ \A p \in Ends : end[p].state = "ALERTED"
Settles == []<>Settled
=============================================================================
