------------------------- MODULE TlsSession_proofs -------------------------
(* The theorem about the sessions that outlive a connection: what the client *)
(* would offer and what the server would find or decrypt hold the same master*)
(* secret, for every set of configurations in which the cache mode of the    *)
(* server goes with the key exchange.                                        *)
(*   The invariant of TlsHandshake_proofs says how far the two ends may be   *)
(* apart.  This one adds what each of the messages that carry a session id   *)
(* or a ticket says about the end it is on its way to: there is one of each  *)
(* kind at most, and the client waits for it.                                *)
EXTENDS TlsHandshake_proofs

-----------------------------------------------------------------------------
(* The invariant.                                                            *)

(* One key exchange, one cache mode: connections with the same cipher suites *)
(* have the same mode, so that a server does not stop to keep sessions.      *)
FixedModes == \A c, d \in Configs : c.kx = d.kx => c.cacheMode = d.cacheMode

(* The ids in use: made by a server, or by a client that got a ticket.       *)
IsId(id, n) == id = NoId \/ \E r \in 1 .. n : id = <<"server", r>> \/ id = <<"client", r>>

(* Both hellos are known to the end.                                         *)
Answered(p, e) == e.hs \in Flight(p) \cup Keyed(p)

CacheIds(store, n, mode) ==
  /\ mode # "server" => DOMAIN store = {}
  /\ \A id \in DOMAIN store : \E r \in 1 .. n : id = <<"server", r>>

(* The session that the client has, and the one it is making.                *)
Kept(c, n, store) ==
  /\ IsId(c.session.id, n) /\ (Dead(c) => c.session = NoSession)
  /\ c.session.ticket # <<>> => c.session.id # NoId /\ c.session.ticket[1] = c.session.master
  /\ c.session.id \in DOMAIN store => store[c.session.id].master = c.session.master
Made(c, n, store) ==
  /\ c.hs \in Greeting("client") => c.id = c.session.id
  /\ Answered("client", c) /\ ~c.isResume =>
       /\ IsId(c.id, n) /\ c.session.id # <<"server", c.serverRandom>>
       /\ ~c.isTicket /\ c.id \in DOMAIN store =>
            Waiting("client", c) /\ store[c.id].master = c.master
  /\ Answered("client", c) /\ c.isResume => c.session.id # NoId
  /\ c.ticket # <<>> =>
       c.hs = <<"recv", "FINISHED">> /\ ~c.isResume /\ c.ticket[1] = c.master

ServerOwn(s) ==
  /\ Answered("server", s) /\ ~s.isResume => s.id \in {NoId, <<"server", s.serverRandom>>}
  /\ s.hs = <<"send", "NEW_SESSION_TICKET">> => s.isTicket

(* The client waits for the answer to its ClientHello, which is not on the   *)
(* way: c is the client, H the ServerHellos and K the tickets sent to it.    *)
Asks(c, r, H, K) ==
  c.hs \in Greeting("client") /\ c.clientRandom = r /\ H = {} /\ K = {}

(* A: the ClientHellos on their way.                                         *)
AskedOK(c, A, H, K) ==
  \A m \in A : /\ Asks(c, m.random, H, K) /\ m.id = c.id
               /\ m.ticket \in {<<>>, c.session.ticket}

(* The server is about to answer.                                            *)
AnswerOK(c, s, H, K) ==
  s.hs \in Greeting("server") =>
    /\ Asks(c, s.clientRandom, H, K)
    /\ s.isResume => s.session.id = c.id /\ c.id # NoId /\ s.session.master = c.session.master

(* The answer on its way.                                                    *)
HelloIs(c, s, m, store, mode) ==
  /\ c.hs \in Greeting("client")
  /\ <<"server", m.random>> \notin DOMAIN store /\ <<"server", m.random>> # c.id
  /\ m.id \in {NoId, <<"server", m.random>>, c.id}
  /\ mode = "server" /\ m.id = NoId => m.hasTicket
  /\ s.clientRandom = c.clientRandom =>
       /\ m.random = s.serverRandom /\ m.hasTicket = s.isTicket /\ m.id = s.id
       /\ s.isResume <=> m.id = c.id /\ c.id # NoId
HellosOK(c, s, H, store, mode) == \A m \in H : HelloIs(c, s, m, store, mode)

(* Two ends that know both hellos agree on what is in them.                  *)
SameHandshake(c, s) ==
  c.clientRandom = s.clientRandom /\ Answered("client", c) =>
    /\ c.isResume = s.isResume /\ c.isTicket = s.isTicket /\ c.serverRandom = s.serverRandom
    /\ ~c.isResume /\ s.id # NoId => c.id = s.id

(* The server has answered and its ticket, if there is one, is still to come.*)
BeforeTicket(s) ==
  \/ s.hs \in Flight("server") \cup Verify("server") \cup Ticket("server")
  \/ s.hs = <<"recv", "FINISHED">> /\ ~s.isResume
TicketToCome(c, s, K) ==
  BeforeTicket(s) =>
    /\ c.clientRandom = s.clientRandom /\ K = {}
    /\ s.isResume => s.session.master = c.session.master
    /\ s.isResume /\ Answered("client", c) => c.hs = <<"recv", "NEW_SESSION_TICKET">>
    /\ ~c.isResume /\ c.hs = <<"recv", "FINISHED">> => ~c.isTicket
    /\ ~s.isResume /\ s.hs \in Ticket("server") => c.master = s.session.master

(* The ticket on its way.                                                    *)
TicketIs(c, H, m) ==
  \/ /\ c.hs \in Greeting("client") /\ m.ticket[1] = c.session.master
     /\ \A x \in H : x.hasTicket /\ x.id = c.id /\ c.id # NoId
  \/ /\ c.hs = <<"recv", "NEW_SESSION_TICKET">>
     /\ m.ticket[1] = (IF c.isResume THEN c.session.master ELSE c.master)
TicketsOK(c, H, K) == \A m \in K : TicketIs(c, H, m)

Linked(c, s, A, H, K, store, mode) ==
  Dead(c) \/ /\ AskedOK(c, A, H, K) /\ AnswerOK(c, s, H, K) /\ HellosOK(c, s, H, store, mode)
             /\ SameHandshake(c, s) /\ TicketToCome(c, s, K) /\ TicketsOK(c, H, K)

(* The Finished of the client of a full handshake tells its master secret:   *)
(* F is the set of those on their way to the server.                         *)
Told(c, F) ==
  \A m \in F : Full(m.verify) /\ ClientOf(m.verify) = c.clientRandom
    => Waiting("client", c) /\ c.master = m.verify[2]

SessionInv(c, s, A, H, K, F, store, n, mode) ==
  /\ CacheIds(store, n, mode) /\ Kept(c, n, store) /\ Made(c, n, store) /\ ServerOwn(s)
  /\ Linked(c, s, A, H, K, store, mode) /\ Told(c, F)

(* The messages of a type on their way to an end; one of them at most.       *)
Of(p, type) == {m \in Msgs[p] : m.type = type}
Sole(w, type) ==
  \A i, j \in DOMAIN w : w[i].msg.type = type /\ w[j].msg.type = type => i = j
OneEach(w) == Sole(w, "SERVER_HELLO") /\ Sole(w, "NEW_SESSION_TICKET")

Asked == Of("server", "CLIENT_HELLO")
Answers == Of("client", "SERVER_HELLO")
Tickets == Of("client", "NEW_SESSION_TICKET")
Finals == Of("server", "FINISHED")

SInv ==
  /\ SessionInv(end["client"], end["server"], Asked, Answers, Tickets, Finals,
                cache, count.random, config.cacheMode)
  /\ Dead(end["client"]) \/ OneEach(wire["client"])

-----------------------------------------------------------------------------
(* Where an end is in its handshake.                                         *)

Last == {<<"recv", "NEW_SESSION_TICKET">>, <<"recv", "FINISHED">>}

Placed(p, e, n) ==
  /\ e.clientRandom \in 0 .. n /\ e.isResume \in BOOLEAN
  /\ e.hs \in Outside(p) => e.clientRandom = 0 /\ e.hs \notin Greeting(p) /\ ~Answered(p, e)
  /\ e.hs \in Greeting(p) => e.clientRandom # 0 /\ e.hs \notin Outside(p) /\ ~Answered(p, e)
  /\ Answered(p, e) => /\ e.clientRandom # 0 /\ e.serverRandom \in 1 .. n
                       /\ e.hs \notin Outside(p) /\ e.hs \notin Greeting(p)
  /\ e.hs \in Outside(p) \/ e.hs \in Greeting(p) \/ Answered(p, e)
  /\ Dead(e) => e.hs \in Outside(p)
  /\ e.hs \in Flight(p) \cup Verify(p) => ~e.isResume

(* The invariant of the handshake places both ends.                          *)
LEMMA Places ==
  ASSUME NEW p \in Ends, NEW e, NEW n \in Nat, NEW old, Local(p, e, n, old)
  PROVE  Placed(p, e, n)
<1>1. /\ Typed(p, e) /\ e.isResume \in BOOLEAN
      /\ e.hs \in Outside(p) \/ e.hs \in Greeting(p) \/ Answered(p, e)
  BY DEF Local, Typed, Stages, Answered
<1>2. /\ e.hs \in Outside(p) => e.hs \notin Greeting(p) /\ ~Answered(p, e)
      /\ e.hs \in Greeting(p) => e.hs \notin Outside(p) /\ ~Answered(p, e)
      /\ Answered(p, e) => e.hs \notin Outside(p) /\ e.hs \notin Greeting(p)
  BY StageFacts DEF Answered
<1>3. e.hs \in Outside(p) => e.clientRandom = 0
  BY DEF Local, AtRest
<1>4. e.hs \in Greeting(p) => e.clientRandom \in 1 .. n
  BY DEF Local, AtGreeting
<1>5. Answered(p, e) => e.clientRandom \in 1 .. n /\ e.serverRandom \in 1 .. n
  BY DEF Local, AtFlight, AtKeyed, Hellos, Answered
<1>6. Dead(e) => e.hs \in Outside(p)
  <2>1. Dead(e) => e.hs = <<"idle", "none">>
    BY <1>1 DEF Typed, Dead
  <2> QED
    BY <2>1 DEF Outside
<1>7. e.hs \in Flight(p) \cup Verify(p) => ~e.isResume
  BY DEF Local, AtFlight, AtKeyed, Keyed
<1> QED
  BY <1>1, <1>2, <1>3, <1>4, <1>5, <1>6, <1>7 DEF Placed

(* The states at the end of a handshake come after both hellos.              *)
LEMMA LastFacts ==
  ASSUME NEW e
  PROVE  /\ e.hs \in Last => Answered("client", e)
         /\ <<"recv", "NEW_SESSION_TICKET">> \in Last /\ <<"recv", "FINISHED">> \in Last
         /\ <<"recv", "NEW_SESSION_TICKET">> # <<"recv", "FINISHED">>
         /\ Waiting("client", e) <=> ~e.isResume /\ e.hs \in Last
<1>1. <<"recv", "NEW_SESSION_TICKET">> # <<"recv", "FINISHED">>
  OBVIOUS
<1> QED
  BY <1>1 DEF Last, Answered, Keyed, Ticket, Changing, Waiting, Opens

(* What these places of the server have in common. *)
LEMMA BeforeTicketFacts ==
  ASSUME NEW s
  PROVE  /\ BeforeTicket(s) => Answered("server", s)
         /\ s.hs \in Ticket("server") => BeforeTicket(s)
         /\ s.hs \in Ticket("server") <=> s.hs = <<"send", "NEW_SESSION_TICKET">>
BY DEF BeforeTicket, Answered, Keyed, Ticket, Changing

-----------------------------------------------------------------------------
(* What keeps the invariant.                                                 *)

Shrunk(new, store) ==
  DOMAIN new \subseteq DOMAIN store /\ \A id \in DOMAIN new : new[id] = store[id]

(* Messages are read or lost, sessions leave the cache, numbers are drawn.   *)
LEMMA Shrinks ==
  ASSUME NEW c, NEW s, NEW A, NEW H, NEW K, NEW F, NEW store, NEW n \in Nat, NEW mode,
         SessionInv(c, s, A, H, K, F, store, n, mode),
         NEW B \in SUBSET A, NEW I \in SUBSET H, NEW L \in SUBSET K, NEW G \in SUBSET F,
         NEW new, Shrunk(new, store), NEW k \in Nat, n <= k
  PROVE  SessionInv(c, s, B, I, L, G, new, k, mode)
<1> USE DEF Shrunk
<1>0. 1 .. n \subseteq 1 .. k
  OBVIOUS
<1>1. CacheIds(new, k, mode)
  BY <1>0 DEF SessionInv, CacheIds
<1>2. \A id : IsId(id, n) => IsId(id, k)
  BY <1>0 DEF IsId
<1>3. Kept(c, k, new)
  BY <1>2 DEF SessionInv, Kept
<1>4. Made(c, k, new)
  BY <1>2 DEF SessionInv, Made
<1>5. ServerOwn(s) /\ Told(c, G)
  BY DEF SessionInv, Told
<1>6. ASSUME ~Dead(c)
      PROVE  Linked(c, s, B, I, L, new, mode)
  <2>1. /\ AskedOK(c, A, H, K) /\ AnswerOK(c, s, H, K) /\ HellosOK(c, s, H, store, mode)
        /\ SameHandshake(c, s) /\ TicketToCome(c, s, K) /\ TicketsOK(c, H, K)
    BY <1>6 DEF SessionInv, Linked
  <2>2. AskedOK(c, B, I, L)
    BY <2>1 DEF AskedOK, Asks
  <2>3. AnswerOK(c, s, I, L)
    BY <2>1 DEF AnswerOK, Asks
  <2>4. HellosOK(c, s, I, new, mode)
    BY <2>1 DEF HellosOK, HelloIs
  <2>5. TicketToCome(c, s, L)
    BY <2>1 DEF TicketToCome
  <2>6. TicketsOK(c, I, L)
    BY <2>1 DEF TicketsOK, TicketIs
  <2> QED
    BY <2>1, <2>2, <2>3, <2>4, <2>5, <2>6 DEF Linked
<1> QED
  BY <1>1, <1>3, <1>4, <1>5, <1>6 DEF SessionInv, Linked

(* A client that goes on in its handshake: neither what it offers and has    *)
(* negotiated nor, once it waits, its master secret changes.                 *)
KeepsClient(c, d) ==
  /\ d.clientRandom = c.clientRandom /\ d.serverRandom = c.serverRandom /\ d.id = c.id
  /\ d.isResume = c.isResume /\ d.isTicket = c.isTicket
  /\ d.session = c.session /\ d.ticket = c.ticket
  /\ Dead(d) <=> Dead(c)
  /\ d.hs \in Greeting("client") <=> c.hs \in Greeting("client")
  /\ Answered("client", d) <=> Answered("client", c)
  /\ d.hs \in Last => d.hs = c.hs /\ d.master = c.master
  /\ c.hs \in Last => d.hs = c.hs \/ (c.isResume /\ c.hs = <<"recv", "FINISHED">>)

(* The invariant is kept by such a step of the client. *)
LEMMA ClientKept ==
  ASSUME NEW c, NEW d, NEW s, NEW A, NEW H, NEW K, NEW F, NEW store, NEW n \in Nat, NEW mode,
         SessionInv(c, s, A, H, K, F, store, n, mode),
         Placed("client", c, n), Placed("server", s, n), KeepsClient(c, d),
         s.hs \in Ticket("server") /\ ~s.isResume => Dead(c) \/ Waiting("client", c)
  PROVE  SessionInv(d, s, A, H, K, F, store, n, mode)
<1>0. /\ Waiting("client", c) => Waiting("client", d) /\ d.master = c.master
      /\ c.hs = <<"recv", "FINISHED">> /\ ~c.isResume => d.hs = c.hs /\ d.master = c.master
      /\ c.hs = <<"recv", "NEW_SESSION_TICKET">> => d.hs = c.hs /\ d.master = c.master
      /\ d.hs = <<"recv", "FINISHED">> => c.hs = d.hs
  BY LastFacts DEF KeepsClient
<1>1. Kept(d, n, store)
  BY DEF SessionInv, Kept, KeepsClient
<1>2. Made(d, n, store)
  BY <1>0 DEF SessionInv, Made, KeepsClient
<1>3. Told(d, F)
  BY <1>0 DEF SessionInv, Told, KeepsClient
<1>4. ASSUME ~Dead(c)
      PROVE  Linked(d, s, A, H, K, store, mode)
  <2>1. /\ AskedOK(c, A, H, K) /\ AnswerOK(c, s, H, K) /\ HellosOK(c, s, H, store, mode)
        /\ SameHandshake(c, s) /\ TicketToCome(c, s, K) /\ TicketsOK(c, H, K)
    BY <1>4 DEF SessionInv, Linked
  <2>2. AskedOK(d, A, H, K)
    BY <2>1 DEF AskedOK, Asks, KeepsClient
  <2>3. AnswerOK(d, s, H, K)
    BY <2>1 DEF AnswerOK, Asks, KeepsClient
  <2>4. HellosOK(d, s, H, store, mode)
    BY <2>1 DEF HellosOK, HelloIs, KeepsClient
  <2>5. SameHandshake(d, s)
    BY <2>1 DEF SameHandshake, KeepsClient
  <2>6. TicketToCome(d, s, K)
    <3> SUFFICES ASSUME BeforeTicket(s)
                 PROVE  /\ d.clientRandom = s.clientRandom /\ K = {}
                        /\ s.isResume => s.session.master = d.session.master
                        /\ s.isResume /\ Answered("client", d) => d.hs = <<"recv", "NEW_SESSION_TICKET">>
                        /\ ~d.isResume /\ d.hs = <<"recv", "FINISHED">> => ~d.isTicket
                        /\ ~s.isResume /\ s.hs \in Ticket("server") => d.master = s.session.master
      BY DEF TicketToCome
    <3>1. ~s.isResume /\ s.hs \in Ticket("server") => d.master = c.master
      BY <1>0, <1>4
    <3> QED
      BY <1>0, <2>1, <3>1 DEF TicketToCome, KeepsClient
  <2>7. TicketsOK(d, H, K)
    BY <1>0, <2>1 DEF TicketsOK, TicketIs, KeepsClient
  <2> QED
    BY <2>2, <2>3, <2>4, <2>5, <2>6, <2>7 DEF Linked
<1> QED
  BY <1>1, <1>2, <1>3, <1>4 DEF SessionInv, Linked, KeepsClient

(* A client that leaves its handshake, with the session d.session.           *)
LEMMA ClientLeaves ==
  ASSUME NEW c, NEW d, NEW s, NEW A, NEW H, NEW K, NEW F, NEW store, NEW n \in Nat, NEW mode,
         SessionInv(c, s, A, H, K, F, store, n, mode),
         Placed("client", d, n), d.hs \in Outside("client"), d.ticket = <<>>,
         Kept(d, n, store), \A m \in F : ClientOf(m.verify) # 0,
         Dead(d) \/ (/\ ~Dead(c) /\ c.hs \notin Greeting("client")
                     /\ c.hs # <<"recv", "NEW_SESSION_TICKET">> /\ ~BeforeTicket(s)
                     /\ Placed("server", s, n))
  PROVE  SessionInv(d, s, A, H, K, F, store, n, mode)
<1>0. d.clientRandom = 0 /\ d.hs \notin Greeting("client") /\ ~Answered("client", d)
  BY DEF Placed
<1>1. Made(d, n, store) /\ Told(d, F)
  BY <1>0 DEF Made, Told
<1>2. ASSUME ~Dead(d)
      PROVE  Linked(d, s, A, H, K, store, mode)
  <2>1. /\ AskedOK(c, A, H, K) /\ AnswerOK(c, s, H, K) /\ HellosOK(c, s, H, store, mode)
        /\ TicketsOK(c, H, K)
    BY <1>2 DEF SessionInv, Linked
  <2>2. A = {} /\ s.hs \notin Greeting("server")
    BY <1>2, <2>1 DEF AskedOK, AnswerOK, Asks
  <2>3. H = {} /\ K = {}
    BY <1>2, <2>1 DEF HellosOK, HelloIs, TicketsOK, TicketIs
  <2> QED
    BY <1>0, <1>2, <2>2, <2>3
       DEF Linked, AskedOK, AnswerOK, HellosOK, SameHandshake, TicketToCome, TicketsOK
<1> QED
  BY <1>1, <1>2 DEF SessionInv, Linked

(* A server that goes on in its handshake.                                   *)
KeepsServer(s, t) ==
  /\ t.clientRandom = s.clientRandom /\ t.serverRandom = s.serverRandom /\ t.id = s.id
  /\ t.isResume = s.isResume /\ t.isTicket = s.isTicket /\ t.session = s.session
  /\ t.hs \in Greeting("server") => s.hs \in Greeting("server")
  /\ Answered("server", t) => Answered("server", s)
  /\ BeforeTicket(t) => BeforeTicket(s)
  /\ t.hs \in Ticket("server") => s.hs = t.hs

(* And one that is in none.                                                  *)
RestsServer(t) == t.clientRandom = 0 /\ t.hs \in Outside("server")

(* The invariant is kept by such a step of the server. *)
LEMMA ServerKept ==
  ASSUME NEW c, NEW s, NEW t, NEW A, NEW H, NEW K, NEW F, NEW store, NEW n \in Nat, NEW mode,
         SessionInv(c, s, A, H, K, F, store, n, mode), Placed("client", c, n), Placed("server", t, n),
         KeepsServer(s, t) \/ RestsServer(t)
  PROVE  SessionInv(c, t, A, H, K, F, store, n, mode)
<1>1. CASE KeepsServer(s, t)
  <2>1. ServerOwn(t)
    BY <1>1, BeforeTicketFacts DEF SessionInv, ServerOwn, KeepsServer
  <2>2. ASSUME ~Dead(c)
        PROVE  Linked(c, t, A, H, K, store, mode)
    <3>1. /\ AskedOK(c, A, H, K) /\ AnswerOK(c, s, H, K) /\ HellosOK(c, s, H, store, mode)
          /\ SameHandshake(c, s) /\ TicketToCome(c, s, K) /\ TicketsOK(c, H, K)
      BY <2>2 DEF SessionInv, Linked
    <3>2. AnswerOK(c, t, H, K)
      BY <1>1, <3>1 DEF AnswerOK, KeepsServer
    <3>3. HellosOK(c, t, H, store, mode)
      BY <1>1, <3>1 DEF HellosOK, HelloIs, KeepsServer
    <3>4. SameHandshake(c, t)
      BY <1>1, <3>1 DEF SameHandshake, KeepsServer
    <3>5. TicketToCome(c, t, K)
      BY <1>1, <3>1 DEF TicketToCome, KeepsServer
    <3> QED
      BY <3>1, <3>2, <3>3, <3>4, <3>5 DEF Linked
  <2> QED
    BY <2>1, <2>2 DEF SessionInv, Linked
<1>2. CASE RestsServer(t)
  <2>1. /\ t.clientRandom = 0 /\ t.hs \notin Greeting("server") /\ ~Answered("server", t)
        /\ ~BeforeTicket(t)
    BY <1>2, BeforeTicketFacts DEF RestsServer, Placed
  <2>2. ServerOwn(t)
    BY <2>1, BeforeTicketFacts DEF ServerOwn
  <2>3. ASSUME ~Dead(c)
        PROVE  Linked(c, t, A, H, K, store, mode)
    <3>1. /\ AskedOK(c, A, H, K) /\ HellosOK(c, s, H, store, mode) /\ TicketsOK(c, H, K)
      BY <2>3 DEF SessionInv, Linked
    <3>2. HellosOK(c, t, H, store, mode)
      BY <2>1, <3>1 DEF HellosOK, HelloIs, Placed
    <3>3. SameHandshake(c, t)
      BY <2>1 DEF SameHandshake, Placed
    <3> QED
      BY <2>1, <3>1, <3>2, <3>3 DEF Linked, AnswerOK, TicketToCome
  <2> QED
    BY <2>2, <2>3 DEF SessionInv, Linked
<1> QED
  BY <1>1, <1>2

-----------------------------------------------------------------------------
(* The wires.                                                                *)

(* The messages that the invariant is about.                                 *)
Loud == {"CLIENT_HELLO", "SERVER_HELLO", "NEW_SESSION_TICKET", "FINISHED"}

(* Wire v holds no more of them than wire w.                                 *)
Quieter(w, v) ==
  /\ \A i \in DOMAIN v : v[i].msg.type \in Loud => \E j \in DOMAIN w : w[j].msg = v[i].msg
  /\ OneEach(w) => OneEach(v)

(* A wire that stays as it is. *)
LEMMA QuieterSame == \A w : Quieter(w, w)
BY DEF Quieter

(* An emptied wire. *)
LEMMA QuieterEmpty == \A w : Quieter(w, <<>>)
BY EmptySeq DEF Quieter, OneEach, Sole

(* A record is read; if it is the only one of its type, none is left.        *)
LEMMA QuieterTail ==
  ASSUME NEW w, IsSeq(w), w # <<>>
  PROVE  /\ Quieter(w, Tail(w))
         /\ \A type : Sole(w, type) /\ Head(w).msg.type = type
              => \A i \in DOMAIN Tail(w) : Tail(w)[i].msg.type # type
<1>1. /\ Len(w) \in Nat \ {0} /\ DOMAIN w = 1 .. Len(w) /\ Head(w) = w[1]
      /\ DOMAIN Tail(w) = 1 .. Len(w) - 1
      /\ \A i \in 1 .. Len(w) - 1 : Tail(w)[i] = w[i + 1]
  BY TailFacts
<1> DEFINE v == Tail(w)
           l == Len(w)
<1> HIDE DEF v, l
<1>2. /\ l \in Nat \ {0} /\ DOMAIN w = 1 .. l /\ DOMAIN v = 1 .. l - 1
      /\ \A i \in 1 .. l - 1 : v[i] = w[i + 1]
  BY <1>1 DEF v, l
<1>3. \A i \in DOMAIN v : i + 1 \in DOMAIN w /\ i + 1 # 1 /\ v[i] = w[i + 1]
  BY <1>2
<1>4. \A i, j \in DOMAIN v : i + 1 = j + 1 => i = j
  BY <1>2
<1>5. \A type : Sole(w, type) => Sole(v, type)
  BY <1>3, <1>4 DEF Sole
<1>6. Quieter(w, v)
  BY <1>3, <1>5 DEF Quieter, OneEach
<1>7. \A type : Sole(w, type) /\ w[1].msg.type = type => \A i \in DOMAIN v : v[i].msg.type # type
  <2>1. 1 \in DOMAIN w
    BY <1>2
  <2> QED
    BY <1>3, <2>1 DEF Sole
<1> QED
  BY <1>1, <1>6, <1>7 DEF v

(* A record is added, of another type or the first of its type.              *)
LEMMA SoleAppend ==
  ASSUME NEW w, IsSeq(w), NEW x, NEW type,
         \/ Sole(w, type) /\ x.msg.type # type
         \/ \A i \in DOMAIN w : w[i].msg.type # type
  PROVE  Sole(Append(w, x), type)
<1>1. /\ Len(w) \in Nat /\ DOMAIN w = 1 .. Len(w) /\ DOMAIN Append(w, x) = 1 .. Len(w) + 1
      /\ Append(w, x)[Len(w) + 1] = x
      /\ \A i \in 1 .. Len(w) : Append(w, x)[i] = w[i]
  BY AppendFacts
<1> DEFINE v == Append(w, x)
           l == Len(w)
<1> HIDE DEF v, l
<1>2. /\ l \in Nat /\ DOMAIN w = 1 .. l /\ DOMAIN v = 1 .. l + 1 /\ v[l + 1] = x
      /\ \A i \in 1 .. l : v[i] = w[i]
  BY <1>1 DEF v, l
<1>3. \A i \in DOMAIN v : i = l + 1 \/ (i \in DOMAIN w /\ v[i] = w[i])
  BY <1>2
<1>4. Sole(v, type)
  BY <1>2, <1>3 DEF Sole
<1> QED
  BY <1>4 DEF v

(* A record with another message is added to a wire. *)
LEMMA QuieterAppend ==
  ASSUME NEW w, NEW v, IsSeq(v), Quieter(w, v), NEW x, x.msg.type \notin Loud
  PROVE  Quieter(w, Append(v, x))
<1>1. /\ Len(v) \in Nat /\ DOMAIN v = 1 .. Len(v) /\ DOMAIN Append(v, x) = 1 .. Len(v) + 1
      /\ Append(v, x)[Len(v) + 1] = x
      /\ \A i \in 1 .. Len(v) : Append(v, x)[i] = v[i]
  BY AppendFacts
<1>2. \A i \in DOMAIN Append(v, x) : i = Len(v) + 1 \/ (i \in DOMAIN v /\ Append(v, x)[i] = v[i])
  BY <1>1
<1>3. \A i \in DOMAIN Append(v, x) : Append(v, x)[i].msg.type \in Loud
        => \E j \in DOMAIN w : w[j].msg = Append(v, x)[i].msg
  BY <1>1, <1>2 DEF Quieter
<1>4. OneEach(w) => OneEach(Append(v, x))
  BY SoleAppend DEF Quieter, OneEach, Loud
<1> QED
  BY <1>3, <1>4 DEF Quieter

(* A step that adds none of the messages of the invariant.                   *)
WireKept ==
  /\ Asked' \subseteq Asked /\ Answers' \subseteq Answers
  /\ Tickets' \subseteq Tickets /\ Finals' \subseteq Finals
  /\ OneEach(wire["client"]) => OneEach(wire'["client"])

(* Wires that hold no more of these messages keep the sets of the invariant  *)
(* small, and leave one of each kind.                                        *)
LEMMA WiresQuiet ==
  ASSUME \A p \in Ends : Quieter(wire[p], wire'[p])
  PROVE  WireKept
<1>0. "client" \in Ends /\ "server" \in Ends
  BY DEF Ends
<1>1. ASSUME NEW p \in Ends, NEW type \in Loud
      PROVE  {m \in Msgs'[p] : m.type = type} \subseteq {m \in Msgs[p] : m.type = type}
  <2> SUFFICES ASSUME NEW m \in Msgs'[p], m.type = type
               PROVE  m \in Msgs[p]
    OBVIOUS
  <2>1. PICK i \in DOMAIN wire'[p] : m = wire'[p][i].msg
    BY DEF Msgs
  <2>2. PICK j \in DOMAIN wire[p] : wire[p][j].msg = m
    BY <2>1 DEF Quieter
  <2> QED
    BY <2>2 DEF Msgs
<1>2. /\ {m \in Msgs'["server"] : m.type = "CLIENT_HELLO"} \subseteq {m \in Msgs["server"] : m.type = "CLIENT_HELLO"}
      /\ {m \in Msgs'["client"] : m.type = "SERVER_HELLO"} \subseteq {m \in Msgs["client"] : m.type = "SERVER_HELLO"}
      /\ {m \in Msgs'["client"] : m.type = "NEW_SESSION_TICKET"} \subseteq {m \in Msgs["client"] : m.type = "NEW_SESSION_TICKET"}
      /\ {m \in Msgs'["server"] : m.type = "FINISHED"} \subseteq {m \in Msgs["server"] : m.type = "FINISHED"}
  BY <1>0, <1>1 DEF Loud
<1> QED
  BY <1>0, <1>2 DEF WireKept, Asked, Answers, Tickets, Finals, Of, Quieter

(* The ways to send and to receive.                                          *)
LEMMA SendQuiet ==
  ASSUME Shape, NEW p \in Ends, NEW m, NEW f, Send(p, m, f), m.type \notin Loud
  PROVE  WireKept
<1>0. IsSeq(wire[p]) /\ IsSeq(wire[Peer(p)])
  BY PeerFacts DEF Shape
<1>1. /\ wire'[Peer(p)] = Append(wire[Peer(p)], Record(p, m)) /\ wire'[p] = wire[p]
  BY PeerFacts DEF Send, Shape
<1>2. Record(p, m).msg = m
  BY DEF Record
<1>3. Quieter(wire[Peer(p)], wire'[Peer(p)])
  <2>1. Quieter(wire[Peer(p)], wire[Peer(p)])
    BY QuieterSame
  <2> QED
    BY <1>0, <1>1, <1>2, <2>1, QuieterAppend
<1> QED
  BY <1>1, <1>3, PeerFacts, QuieterSame, WiresQuiet

(* The message that is read, or the record, leaves its wire and nothing is   *)
(* added.                                                                    *)
LEMMA ConsumeQuiet ==
  ASSUME Shape, NEW p \in Ends, NEW f, Reading(p), Consume(p, f)
  PROVE  WireKept
<1>0. IsSeq(wire[p]) /\ IsSeq(wire[Peer(p)])
  BY PeerFacts DEF Shape
<1>1. wire'[p] = Tail(wire[p]) /\ wire'[Peer(p)] = wire[Peer(p)]
  BY PeerFacts DEF Consume, Shape
<1>2. Quieter(wire[p], wire'[p])
  BY <1>1, QuieterTail DEF Shape, Reading
<1> QED
  BY <1>1, <1>2, PeerFacts, QuieterSame, WiresQuiet

(* A wire is emptied or its first record read, and an alert may go out.      *)
LEMMA AlertQuiet ==
  ASSUME Shape, NEW p \in Ends, NEW l, NEW v, v = <<>> \/ (wire[p] # <<>> /\ v = Tail(wire[p])),
         \/ wire' = [wire EXCEPT ![p] = v, ![Peer(p)] = Append(@, Record(p, Alert(l)))]
         \/ wire' = [wire EXCEPT ![p] = v]
  PROVE  WireKept
<1>0. IsSeq(wire[p]) /\ IsSeq(wire[Peer(p)])
  BY PeerFacts DEF Shape
<1>1. wire'[p] = v /\ wire'[Peer(p)] \in {wire[Peer(p)], Append(wire[Peer(p)], Record(p, Alert(l)))}
  BY PeerFacts DEF Shape
<1>2. Record(p, Alert(l)).msg.type \notin Loud
  BY DEF Record, Alert, Loud
<1>3. Quieter(wire[p], wire'[p])
  <2>1. Quieter(wire[p], <<>>)
    BY QuieterEmpty
  <2>2. wire[p] # <<>> => Quieter(wire[p], Tail(wire[p]))
    BY <1>0, QuieterTail
  <2> QED
    BY <1>1, <2>1, <2>2
<1>4. Quieter(wire[Peer(p)], wire'[Peer(p)])
  <2>1. Quieter(wire[Peer(p)], wire[Peer(p)])
    BY QuieterSame
  <2>2. Quieter(wire[Peer(p)], Append(wire[Peer(p)], Record(p, Alert(l))))
    BY <1>0, <1>2, <2>1, QuieterAppend
  <2> QED
    BY <1>1, <2>1, <2>2
<1> QED
  BY <1>3, <1>4, PeerFacts, WiresQuiet

-----------------------------------------------------------------------------
(* Steps that change little.                                                 *)

(* Both ends have their place, before a step and after it.                   *)
LEMMA PlacedBefore ==
  ASSUME HInv
  PROVE  /\ count.random \in Nat /\ "client" \in Ends /\ "server" \in Ends
         /\ \A p \in Ends : Placed(p, end[p], count.random) /\ IsEnd(end[p])
         /\ \A m \in Finals : ClientOf(m.verify) \in 1 .. count.random
         /\ end["server"].hs \in Ticket("server") /\ ~end["server"].isResume
              => Dead(end["client"]) \/ Waiting("client", end["client"])
<1>1. "client" \in Ends /\ "server" \in Ends /\ Peer("server") = "client"
  BY DEF Ends, Peer
<1>2. count.random \in Nat
  BY DEF HInv, Shape
<1>3. \A p \in Ends : Placed(p, end[p], count.random) /\ IsEnd(end[p])
  BY <1>2, Basics, Places
<1>4. \A m \in Finals : ClientOf(m.verify) \in 1 .. count.random
  BY <1>1, FinishedFacts DEF Finals, Of, IsFinished, FinishedOK
<1>5. ASSUME end["server"].hs \in Ticket("server"), ~end["server"].isResume
      PROVE  Dead(end["client"]) \/ Waiting("client", end["client"])
  <2>1. Closing("server", end["server"])
    BY <1>5 DEF Closing, Opens, Ticket
  <2> QED
    BY <1>1, <2>1 DEF HInv, Both, Closings, WaitsWith
<1> QED
  BY <1>1, <1>2, <1>3, <1>4, <1>5

(* After a step. *)
LEMMA PlacedAfter ==
  ASSUME HInv'
  PROVE  /\ count'.random \in Nat
         /\ \A p \in Ends : Placed(p, end'[p], count'.random) /\ IsEnd(end'[p])
<1>1. count'.random \in Nat
  BY DEF HInv, Shape
<1>2. \A p \in Ends : Local(p, end'[p], count'.random, past')
  BY DEF HInv, Locals
<1>3. \A p \in Ends : Placed(p, end'[p], count'.random)
  BY <1>1, <1>2, Places
<1> QED
  BY <1>1, <1>2, <1>3 DEF Local, Typed

(* Random numbers drawn since do not move an end. *)
LEMMA PlacedLater ==
  ASSUME NEW p, NEW e, NEW n \in Nat, NEW k \in Nat, n <= k, Placed(p, e, n)
  PROVE  Placed(p, e, k)
BY DEF Placed

(* The invariant of the ends as they were, with the rest as it is.           *)
LEMMA Between ==
  ASSUME HInv, HInv', SInv, WireKept, Shrunk(cache', cache), config' = config,
         count.random <= count'.random
  PROVE  /\ SessionInv(end["client"], end["server"], Asked', Answers', Tickets', Finals',
                       cache', count'.random, config'.cacheMode)
         /\ \A p \in Ends : Placed(p, end[p], count'.random)
         /\ \A m \in Finals' : ClientOf(m.verify) # 0
         /\ Dead(end["client"]) \/ OneEach(wire'["client"])
<1>1. count.random \in Nat /\ count'.random \in Nat
  BY PlacedBefore, PlacedAfter
<1>2. \A p \in Ends : Placed(p, end[p], count'.random)
  BY <1>1, PlacedBefore, PlacedLater
<1>3. \A m \in Finals' : ClientOf(m.verify) # 0
  BY <1>1, PlacedBefore DEF WireKept
<1>4. SessionInv(end["client"], end["server"], Asked', Answers', Tickets', Finals',
                 cache', count'.random, config'.cacheMode)
  BY <1>1, Shrinks DEF SInv, WireKept
<1> QED
  BY <1>2, <1>3, <1>4 DEF SInv, WireKept

(* The client goes on in its handshake.                                      *)
LEMMA ClientOn ==
  ASSUME HInv, HInv', SInv, WireKept, Shrunk(cache', cache), config' = config,
         count.random <= count'.random, end'["server"] = end["server"],
         KeepsClient(end["client"], end'["client"])
  PROVE  SInv'
<1>1. /\ SessionInv(end["client"], end["server"], Asked', Answers', Tickets', Finals',
                    cache', count'.random, config'.cacheMode)
      /\ \A p \in Ends : Placed(p, end[p], count'.random)
      /\ Dead(end["client"]) \/ OneEach(wire'["client"])
  BY Between
<1>2. SessionInv(end'["client"], end["server"], Asked', Answers', Tickets', Finals',
                 cache', count'.random, config'.cacheMode)
  BY <1>1, PlacedBefore, PlacedAfter, ClientKept
<1> QED
  BY <1>1, <1>2 DEF SInv, KeepsClient

(* The client leaves its handshake.                                          *)
LEMMA ClientOff ==
  ASSUME HInv, HInv', SInv, WireKept, Shrunk(cache', cache), config' = config,
         count.random <= count'.random, end'["server"] = end["server"],
         end'["client"].hs \in Outside("client"), end'["client"].ticket = <<>>,
         Kept(end'["client"], count'.random, cache'),
         \/ Dead(end'["client"])
         \/ /\ ~Dead(end["client"]) /\ end["client"].hs \notin Greeting("client")
            /\ end["client"].hs # <<"recv", "NEW_SESSION_TICKET">> /\ ~BeforeTicket(end["server"])
  PROVE  SInv'
<1>1. /\ SessionInv(end["client"], end["server"], Asked', Answers', Tickets', Finals',
                    cache', count'.random, config'.cacheMode)
      /\ \A p \in Ends : Placed(p, end[p], count'.random)
      /\ \A m \in Finals' : ClientOf(m.verify) # 0
      /\ Dead(end["client"]) \/ OneEach(wire'["client"])
  BY Between
<1>2. SessionInv(end'["client"], end["server"], Asked', Answers', Tickets', Finals',
                 cache', count'.random, config'.cacheMode)
  BY <1>1, PlacedBefore, PlacedAfter, ClientLeaves
<1> QED
  BY <1>1, <1>2 DEF SInv

(* The server goes on in its handshake, or is in none.                       *)
LEMMA ServerOn ==
  ASSUME HInv, HInv', SInv, WireKept, Shrunk(cache', cache), config' = config,
         count.random <= count'.random, end'["client"] = end["client"],
         KeepsServer(end["server"], end'["server"]) \/ RestsServer(end'["server"])
  PROVE  SInv'
<1>1. /\ SessionInv(end["client"], end["server"], Asked', Answers', Tickets', Finals',
                    cache', count'.random, config'.cacheMode)
      /\ \A p \in Ends : Placed(p, end[p], count'.random)
      /\ Dead(end["client"]) \/ OneEach(wire'["client"])
  BY Between
<1>2. SessionInv(end["client"], end'["server"], Asked', Answers', Tickets', Finals',
                 cache', count'.random, config'.cacheMode)
  BY <1>1, PlacedBefore, PlacedAfter, ServerKept
<1> QED
  BY <1>1, <1>2 DEF SInv

(* An end is disabled.                                                       *)
LEMMA Disables ==
  ASSUME HInv, HInv', SInv, WireKept, Shrunk(cache', cache), config' = config, count' = count,
         NEW p \in Ends, end'[p] = Disabled(end[p]), end'[Peer(p)] = end[Peer(p)]
  PROVE  SInv'
<1>0. count.random \in Nat /\ count.random <= count'.random
  BY PlacedBefore
<1> DEFINE f == Disabled(end[p])
<1>1. /\ f.hs = <<"idle", "none">> /\ f.ticket = <<>> /\ f.session = NoSession /\ f.state = "ALERTED"
      /\ f.clientRandom = 0
  BY DEF Disabled, NewEnd
<1> HIDE DEF f
<1>2. CASE p = "client"
  <2>1. <<>> \notin DOMAIN cache'
    BY DEF SInv, SessionInv, CacheIds, Shrunk
  <2>2. Kept(f, count'.random, cache')
    BY <1>1, <2>1, NoSessionFacts DEF Kept, IsId, NoId
  <2>3. f.hs \in Outside("client") /\ Dead(f)
    BY <1>1 DEF Outside, Dead
  <2> QED
    BY <1>0, <1>1, <1>2, <2>2, <2>3, ClientOff DEF f, Peer
<1>3. CASE p = "server"
  <2>1. RestsServer(f)
    BY <1>1 DEF RestsServer, Outside
  <2> QED
    BY <1>0, <1>3, <2>1, ServerOn DEF f, Peer
<1> QED
  BY <1>2, <1>3 DEF Ends

(* A session that is disabled leaves the cache. *)
LEMMA DisableShrinks ==
  ASSUME NEW p \in Ends, DisableSession(p)
  PROVE  Shrunk(cache', cache)
BY WithoutFacts DEF DisableSession, Shrunk

(* An end fails: it is disabled, and a fatal alert goes out. *)
LEMMA SFail ==
  ASSUME HInv, HInv', SInv, NEW p \in Ends, Fail(p)
  PROVE  SInv'
<1>1. WireKept
  BY AlertQuiet DEF HInv, Fail
<1>2. end'[p] = Disabled(end[p]) /\ end'[Peer(p)] = end[Peer(p)]
  BY FailFacts DEF HInv
<1>3. Shrunk(cache', cache) /\ config' = config /\ count' = count
  BY DisableShrinks DEF Fail
<1> QED
  BY <1>1, <1>2, <1>3, Disables

-----------------------------------------------------------------------------
(* What the operators of the handshake leave alone.                          *)

Same(e, f) ==
  /\ IsEnd(f) /\ f.state = e.state
  /\ f.clientRandom = e.clientRandom /\ f.serverRandom = e.serverRandom /\ f.id = e.id
  /\ f.isResume = e.isResume /\ f.isTicket = e.isTicket
  /\ f.session = e.session /\ f.ticket = e.ticket
Still(e, f) == Same(e, f) /\ f.hs = e.hs /\ f.master = e.master

(* Two such steps are one. *)
LEMMA SameTrans ==
  ASSUME NEW e, NEW f, NEW g
  PROVE  /\ Same(e, f) /\ Same(f, g) => Same(e, g)
         /\ Still(e, f) /\ Still(f, g) => Still(e, g)
BY DEF Same, Still

(* The transcript, the key changes and the client's certificate are none of  *)
(* these fields.                                                             *)
LEMMA StillFields ==
  ASSUME NEW e, IsEnd(e)
  PROVE  /\ Still(e, e) /\ \A m : Still(e, VERIFY_Append(e, m))
         /\ Still(e, CcsExitReady(e)) /\ Still(e, HS_KeyEstablish(e))
         /\ Still(e, ActivateRead(e)) /\ Still(e, ActivateWrite(e)) /\ Still(e, AwaitCcs(e))
         /\ \A l : Still(e, VERIFY_CalcVerifyData(e, l))
         /\ \A x : /\ Still(e, [e EXCEPT !.peerCert = x]) /\ Still(e, [e EXCEPT !.ccs = x])
                   /\ Still(e, [e EXCEPT !.needCert = TRUE])
                   /\ Still(e, [e EXCEPT !.needCert = TRUE, !.certReqSent = TRUE])
<1> USE DEF Still, Same, IsEnd, EndFields
<1>1. Still(e, e) /\ \A m : Still(e, VERIFY_Append(e, m))
  BY DEF VERIFY_Append
<1>2. Still(e, CcsExitReady(e)) /\ Still(e, HS_KeyEstablish(e))
  BY DEF CcsExitReady, HS_KeyEstablish
<1>3. Still(e, ActivateRead(e)) /\ Still(e, ActivateWrite(e))
  BY DEF ActivateRead, ActivateWrite
<1>4. Still(e, AwaitCcs(e))
  BY DEF AwaitCcs, ActivateRead
<1>5. \A l : Still(e, VERIFY_CalcVerifyData(e, l))
  BY DEF VERIFY_CalcVerifyData
<1>6. \A x : /\ Still(e, [e EXCEPT !.peerCert = x]) /\ Still(e, [e EXCEPT !.ccs = x])
             /\ Still(e, [e EXCEPT !.needCert = TRUE])
             /\ Still(e, [e EXCEPT !.needCert = TRUE, !.certReqSent = TRUE])
  OBVIOUS
<1> QED
  BY <1>1, <1>2, <1>3, <1>4, <1>5, <1>6

(* The operators that go on to another state, or make a master secret.       *)
LEMMA SameFields ==
  ASSUME NEW e, IsEnd(e)
  PROVE  /\ \A d, t : /\ Same(e, GoTo(e, d, t)) /\ GoTo(e, d, t).hs = <<d, t>>
                      /\ GoTo(e, d, t).master = e.master
         /\ \A x : /\ Same(e, HS_GenerateMasterSecret(e, x))
                   /\ HS_GenerateMasterSecret(e, x).hs = e.hs
         /\ \A l : /\ Same(e, AwaitFinished(e, l)) /\ AwaitFinished(e, l).hs = <<"recv", "FINISHED">>
                   /\ AwaitFinished(e, l).master = e.master
<1>1. \A d, t : /\ Same(e, GoTo(e, d, t)) /\ GoTo(e, d, t).hs = <<d, t>>
                /\ GoTo(e, d, t).master = e.master
  BY DEF Same, IsEnd, EndFields, GoTo
<1>2. \A x : /\ Same(e, HS_GenerateMasterSecret(e, x)) /\ HS_GenerateMasterSecret(e, x).hs = e.hs
  BY DEF Same, IsEnd, EndFields, HS_GenerateMasterSecret
<1>3. ASSUME NEW l
      PROVE  /\ Same(e, AwaitFinished(e, l)) /\ AwaitFinished(e, l).hs = <<"recv", "FINISHED">>
             /\ AwaitFinished(e, l).master = e.master
  <2> DEFINE v == VERIFY_CalcVerifyData(e, l)
             a == AwaitCcs(v)
  <2>1. Still(e, v)
    BY StillFields
  <2> HIDE DEF v
  <2>2. Still(v, a)
    BY <2>1, StillFields DEF Still, Same
  <2> HIDE DEF a
  <2>3. AwaitFinished(e, l) = [a EXCEPT !.hs = <<"recv", "FINISHED">>]
    BY DEF AwaitFinished, a, v
  <2> QED
    BY <2>1, <2>2, <2>3 DEF Still, Same, IsEnd, EndFields
<1> QED
  BY <1>1, <1>2, <1>3

(* Handshake message m is entered into the transcript of b, t comes next.    *)
LEMMA AppendGoTo ==
  ASSUME NEW e, NEW b, Same(e, b), NEW m, NEW d, NEW t
  PROVE  Same(e, GoTo(VERIFY_Append(b, m), d, t)) /\ GoTo(VERIFY_Append(b, m), d, t).hs = <<d, t>>
<1>1. Still(b, VERIFY_Append(b, m))
  BY StillFields DEF Same
<1>2. /\ Same(VERIFY_Append(b, m), GoTo(VERIFY_Append(b, m), d, t))
      /\ GoTo(VERIFY_Append(b, m), d, t).hs = <<d, t>>
  BY <1>1, SameFields DEF Still, Same
<1> QED
  BY <1>1, <1>2 DEF Still, Same

(* One end goes on and keeps what is negotiated.                             *)
Goes(p, e, f) ==
  /\ Same(e, f)
  /\ \/ f.hs = e.hs /\ f.master = e.master
     \/ /\ Answered(p, e) /\ Answered(p, f)
        /\ p = "client" => e.hs \notin Last /\ f.hs \notin Last
        /\ p = "server" => /\ BeforeTicket(f) => BeforeTicket(e)
                           /\ f.hs \notin Ticket("server")

(* The invariant is kept by an end that goes on so, if no message of the     *)
(* invariant is sent.                                                        *)
LEMMA GoesOn ==
  ASSUME HInv, HInv', SInv, WireKept, Shrunk(cache', cache), config' = config,
         count.random <= count'.random, NEW p \in Ends, end'[Peer(p)] = end[Peer(p)],
         Goes(p, end[p], end'[p])
  PROVE  SInv'
<1>1. /\ Placed(p, end[p], count.random) /\ Placed(p, end'[p], count'.random)
  BY PlacedBefore, PlacedAfter
<1>2. CASE p = "client"
  <2>1. KeepsClient(end["client"], end'["client"])
    <3>1. Same(end["client"], end'["client"])
      BY <1>2 DEF Goes
    <3>2. CASE end'["client"].hs = end["client"].hs /\ end'["client"].master = end["client"].master
      BY <3>1, <3>2 DEF Same, KeepsClient, Dead, Answered
    <3>3. CASE /\ Answered("client", end["client"]) /\ Answered("client", end'["client"])
               /\ end["client"].hs \notin Last /\ end'["client"].hs \notin Last
      BY <1>1, <1>2, <3>1, <3>3 DEF Same, KeepsClient, Dead, Placed
    <3> QED
      BY <1>2, <3>2, <3>3 DEF Goes
  <2> QED
    BY <1>2, <2>1, ClientOn DEF Peer
<1>3. CASE p = "server"
  <2>1. KeepsServer(end["server"], end'["server"])
    <3>1. Same(end["server"], end'["server"])
      BY <1>3 DEF Goes
    <3>2. CASE end'["server"].hs = end["server"].hs
      BY <3>1, <3>2 DEF Same, KeepsServer, BeforeTicket, Answered
    <3>3. CASE /\ Answered("server", end["server"]) /\ Answered("server", end'["server"])
               /\ BeforeTicket(end'["server"]) => BeforeTicket(end["server"])
               /\ end'["server"].hs \notin Ticket("server")
      BY <1>1, <1>3, <3>1, <3>3 DEF Same, KeepsServer, Placed
    <3> QED
      BY <1>3, <3>2, <3>3 DEF Goes
  <2> QED
    BY <1>3, <2>1, ServerOn DEF Peer
<1> QED
  BY <1>2, <1>3 DEF Ends

(* What a step leaves alone that changes ends and wires only. *)
LEMMA QuietFacts ==
  ASSUME HInv, Quiet
  PROVE  Shrunk(cache', cache) /\ config' = config /\ count.random <= count'.random
BY PlacedBefore DEF Quiet, Shrunk

(* A message that the invariant is not about is sent or read.                *)
LEMMA SSend ==
  ASSUME HInv, HInv', SInv, NEW p \in Ends, NEW m, NEW f, Send(p, m, f), m.type \notin Loud,
         Shrunk(cache', cache), config' = config, count.random <= count'.random,
         Goes(p, end[p], f)
  PROVE  SInv'
<1>1. WireKept /\ end'[p] = f /\ end'[Peer(p)] = end[Peer(p)]
  BY SendQuiet, SendFacts DEF HInv
<1> QED
  BY <1>1, GoesOn

(* A message is read by an end that goes on so. *)
LEMMA SConsume ==
  ASSUME HInv, HInv', SInv, NEW p \in Ends, NEW f, Reading(p), Consume(p, f),
         Shrunk(cache', cache), config' = config, count.random <= count'.random,
         Goes(p, end[p], f)
  PROVE  SInv'
<1>1. WireKept /\ end'[p] = f /\ end'[Peer(p)] = end[Peer(p)]
  BY ConsumeQuiet, ConsumeFacts DEF HInv
<1> QED
  BY <1>1, GoesOn

-----------------------------------------------------------------------------
(* The actions that keep what is negotiated.                                 *)

(* From the flight of a full handshake on.                                   *)
LEMMA GoesFlight ==
  ASSUME NEW p \in Ends, NEW e, NEW f, Same(e, f), e.hs \in Flight(p) \cup Verify(p),
         \/ f.hs \in Flight(p) \cup Verify(p) \cup {<<"send", "CHANGE_CIPHER_SPEC">>}
         \/ p = "server" /\ f.hs = <<"recv", "FINISHED">>
  PROVE  Goes(p, e, f)
<1>1. Answered(p, e) /\ Answered(p, f)
  BY DEF Answered, Keyed, Changing
<1>2. ASSUME p = "client", NEW h \in Flight(p) \cup Verify(p) \cup {<<"send", "CHANGE_CIPHER_SPEC">>}
      PROVE  h \notin Last
  BY <1>2 DEF Flight, Verify, Last
<1>3. p = "server" => BeforeTicket(e) /\ f.hs \notin Ticket("server")
  BY DEF BeforeTicket, Ticket, Flight, Verify
<1> QED
  BY <1>1, <1>2, <1>3 DEF Goes

(* The change of keys.                                                       *)
LEMMA GoesChanging ==
  ASSUME NEW p \in Ends, NEW e, NEW f, Same(e, f),
         \/ e.hs = <<"send", "CHANGE_CIPHER_SPEC">> /\ f.hs = <<"send", "FINISHED">>
         \/ /\ p = "server" /\ e.hs = <<"send", "FINISHED">>
            /\ f.hs = <<"recv", "FINISHED">> /\ e.isResume
  PROVE  Goes(p, e, f)
<1>1. Answered(p, e) /\ Answered(p, f)
  BY DEF Answered, Keyed, Changing
<1>2. p = "client" => e.hs \notin Last /\ f.hs \notin Last
  BY DEF Last
<1>3. p = "server" => ~BeforeTicket(f) /\ f.hs \notin Ticket("server")
  BY DEF BeforeTicket, Ticket, Flight, Verify, Same
<1> QED
  BY <1>1, <1>2, <1>3 DEF Goes

(* A message of the flight is sent. *)
LEMMA SSendFlight ==
  ASSUME HInv, HInv', SInv, NEW p \in Ends, NEW m, NEW b, NEW t, Same(end[p], b),
         Send(p, m, GoTo(VERIFY_Append(b, m), "send", t)), m.type \notin Loud, Quiet,
         end[p].hs \in Flight(p) \cup Verify(p),
         <<"send", t>> \in Flight(p) \cup {<<"send", "CHANGE_CIPHER_SPEC">>}
  PROVE  SInv'
<1> DEFINE f == GoTo(VERIFY_Append(b, m), "send", t)
<1>1. Same(end[p], f) /\ f.hs = <<"send", t>>
  BY AppendGoTo
<1> HIDE DEF f
<1>2. Goes(p, end[p], f)
  BY <1>1, GoesFlight
<1> QED
  BY <1>2, QuietFacts, SSend DEF f

(* The messages of the flight that change nothing else. *)
LEMMA SSendPlain ==
  ASSUME HInv, HInv', SInv, SendServerKeyExchange \/ SendCertRequest \/ SendCertVerify
  PROVE  SInv'
<1>0. /\ "client" \in Ends /\ "server" \in Ends
      /\ Same(end["client"], end["client"]) /\ IsEnd(end["server"]) /\ Same(end["server"], end["server"])
  <2>1. "client" \in Ends /\ "server" \in Ends /\ IsEnd(end["client"]) /\ IsEnd(end["server"])
    BY PlacedBefore
  <2>2. Still(end["client"], end["client"]) /\ Still(end["server"], end["server"])
    BY <2>1, StillFields
  <2> QED
    BY <2>1, <2>2 DEF Still
<1>1. CASE SendServerKeyExchange
  <2> DEFINE t == AfterKeyExchange(end["server"])
             m == [type |-> "SERVER_KEY_EXCHANGE"]
  <2>1. t \in {"CERTIFICATE_REQUEST", "SERVER_HELLO_DONE"}
    BY DEF AfterKeyExchange
  <2>2. /\ end["server"].hs = <<"send", "SERVER_KEY_EXCHANGE">> /\ Quiet
        /\ Send("server", m, GoTo(VERIFY_Append(end["server"], m), "send", t))
    BY <1>1 DEF SendServerKeyExchange, SendPlain, Sends
  <2>3. m.type \notin Loud /\ end["server"].hs \in Flight("server") /\ <<"send", t>> \in Flight("server")
    BY <2>1, <2>2 DEF Flight, Loud
  <2> HIDE DEF t, m
  <2> QED
    BY <1>0, <2>2, <2>3, SSendFlight
<1>2. CASE SendCertRequest
  <2> DEFINE b == [end["server"] EXCEPT !.needCert = TRUE, !.certReqSent = TRUE]
             m == [type |-> "CERTIFICATE_REQUEST"]
  <2>1. /\ end["server"].hs = <<"send", "CERTIFICATE_REQUEST">> /\ Quiet
        /\ Send("server", m, GoTo(VERIFY_Append(b, m), "send", "SERVER_HELLO_DONE"))
    BY <1>2 DEF SendCertRequest, SendPlain, Sends
  <2>2. Still(end["server"], b)
    BY <1>0, StillFields
  <2>3. /\ m.type \notin Loud /\ end["server"].hs \in Flight("server")
        /\ <<"send", "SERVER_HELLO_DONE">> \in Flight("server")
    BY <2>1 DEF Flight, Loud
  <2> HIDE DEF b, m
  <2>4. Same(end["server"], b)
    BY <2>2 DEF Still
  <2> QED
    BY <1>0, <2>1, <2>3, <2>4, SSendFlight
<1>3. CASE SendCertVerify
  <2> DEFINE m == [type |-> "CERTIFICATE_VERIFY"]
  <2>1. /\ end["client"].hs = <<"send", "CERTIFICATE_VERIFY">> /\ Quiet
        /\ Send("client", m, GoTo(VERIFY_Append(end["client"], m), "send", "CHANGE_CIPHER_SPEC"))
    BY <1>3 DEF SendCertVerify, SendPlain, Sends
  <2>2. m.type \notin Loud /\ end["client"].hs \in Verify("client")
    BY <2>1 DEF Verify, Loud
  <2> HIDE DEF m
  <2> QED
    BY <1>0, <2>1, <2>2, SSendFlight
<1> QED
  BY <1>1, <1>2, <1>3

(* A certificate is sent by either end. *)
LEMMA SSendCertificate ==
  ASSUME HInv, HInv', SInv, NEW p \in Ends, SendCertificate(p)
  PROVE  SInv'
<1> DEFINE e == end[p]
           m == [type |-> "CERTIFICATE", empty |-> p = "client" /\ ~config.clientCert]
           t == IF p = "client" THEN "CLIENT_KEY_EXCHANGE"
                ELSE IF NeedServerKeyExchange(p) THEN "SERVER_KEY_EXCHANGE" ELSE AfterKeyExchange(e)
<1>1. e.hs = <<"send", "CERTIFICATE">> /\ Quiet /\ Send(p, m, GoTo(VERIFY_Append(e, m), "send", t))
  BY DEF SendCertificate, Sends
<1>2. /\ m.type = "CERTIFICATE" /\ e.hs \in Flight(p) /\ <<"send", t>> \in Flight(p)
  BY <1>1 DEF Ends, Flight, AfterKeyExchange
<1>3. Same(e, e)
  BY PlacedBefore, StillFields DEF Still
<1> HIDE DEF m, t
<1> QED
  BY <1>1, <1>2, <1>3, SSendFlight DEF Loud, e

(* The last message of the flight of the server. *)
LEMMA SSendServerHelloDone ==
  ASSUME HInv, HInv', SInv, SendServerHelloDone
  PROVE  SInv'
<1> DEFINE e == end["server"]
           m == [type |-> "SERVER_HELLO_DONE"]
           t == IF e.needCert THEN "CERTIFICATE" ELSE "CLIENT_KEY_EXCHANGE"
           f == GoTo(VERIFY_Append(e, m), "recv", t)
<1>1. e.hs = <<"send", "SERVER_HELLO_DONE">> /\ Quiet /\ Send("server", m, f)
  BY DEF SendServerHelloDone, Sends
<1>2. m.type = "SERVER_HELLO_DONE" /\ t \in {"CERTIFICATE", "CLIENT_KEY_EXCHANGE"} /\ "server" \in Ends
  BY DEF Ends
<1>3. Same(e, e)
  BY <1>2, PlacedBefore, StillFields DEF Still
<1> HIDE DEF m, t, e
<1>4. Same(e, f) /\ f.hs = <<"recv", t>>
  BY <1>3, AppendGoTo
<1> HIDE DEF f
<1>5. Goes("server", e, f)
  BY <1>1, <1>2, <1>4, GoesFlight DEF Flight
<1> QED
  BY <1>1, <1>2, <1>5, QuietFacts, SSend DEF Loud, e

(* What an end is when it has read a message.                                *)
LEMMA GotFields ==
  ASSUME HInv, NEW p \in Ends, NEW type, type \notin {"CLIENT_HELLO", "HELLO_REQUEST"},
         Receives(p, type)
  PROVE  Reading(p) /\ Still(end[p], Got(p)) /\ IsEnd(Got(p))
<1>1. Reading(p) /\ Got(p) = VERIFY_Append(end[p], First(p))
  BY ReceivedFacts
<1>2. Still(end[p], VERIFY_Append(end[p], First(p)))
  BY PlacedBefore, StillFields
<1> QED
  BY <1>1, <1>2 DEF Still, Same

(* Messages of the flight are read.                                          *)
LEMMA SRecvFlight ==
  ASSUME HInv, HInv', SInv, NEW p \in Ends, NEW type,
         type \notin {"CLIENT_HELLO", "HELLO_REQUEST"}, Receives(p, type),
         NEW b, Still(Got(p), b), NEW d, NEW t, Consume(p, GoTo(b, d, t)), Quiet,
         end[p].hs \in Flight(p), <<d, t>> \in Flight(p)
  PROVE  SInv'
<1>1. Reading(p) /\ Same(end[p], Got(p))
  BY GotFields DEF Still
<1> DEFINE f == GoTo(b, d, t)
<1>3. Same(b, f) /\ f.hs = <<d, t>>
  BY SameFields DEF Still, Same
<1> HIDE DEF f
<1>4. Same(end[p], f)
  BY <1>1, <1>3 DEF Still, Same
<1>5. Goes(p, end[p], f)
  BY <1>3, <1>4, GoesFlight
<1> QED
  BY <1>1, <1>5, QuietFacts, SConsume DEF f

(* What the client reads of the flight of the server. *)
LEMMA SRecvFlightMessage ==
  ASSUME HInv, HInv', SInv, RecvServerKeyExchange \/ RecvCertRequest \/ RecvServerHelloDone
  PROVE  SInv'
<1>0. "client" \in Ends /\ IsEnd(end["client"])
  BY PlacedBefore
<1> DEFINE g == Got("client")
<1>1. CASE RecvServerKeyExchange
  <2>1. /\ Receives("client", "SERVER_KEY_EXCHANGE") /\ Quiet
        /\ Consume("client", GoTo(g, "recv", "CERTIFICATE_REQUEST"))
    BY <1>1 DEF RecvServerKeyExchange
  <2>2. IsEnd(g) /\ end["client"].hs \in Flight("client")
    BY <1>0, <2>1, GotFields, ReceivedFacts DEF Flight
  <2>3. Still(g, g)
    BY <2>2, StillFields
  <2> QED
    BY <1>0, <2>1, <2>2, <2>3, SRecvFlight DEF Flight
<1>2. CASE RecvCertRequest
  <2> DEFINE b == [g EXCEPT !.needCert = TRUE]
  <2>1. /\ Receives("client", "CERTIFICATE_REQUEST") /\ Quiet
        /\ Consume("client", GoTo(b, "recv", "SERVER_HELLO_DONE"))
    BY <1>2 DEF RecvCertRequest
  <2>2. IsEnd(g) /\ end["client"].hs \in Flight("client")
    BY <1>0, <2>1, GotFields, ReceivedFacts DEF Flight
  <2>3. Still(g, b)
    BY <2>2, StillFields
  <2> HIDE DEF b
  <2> QED
    BY <1>0, <2>1, <2>2, <2>3, SRecvFlight DEF Flight
<1>3. CASE RecvServerHelloDone
  <2> DEFINE t == IF end["client"].needCert THEN "CERTIFICATE" ELSE "CLIENT_KEY_EXCHANGE"
  <2>1. /\ Receives("client", "SERVER_HELLO_DONE") /\ Quiet /\ Consume("client", GoTo(g, "send", t))
    BY <1>3 DEF RecvServerHelloDone
  <2>2. IsEnd(g) /\ end["client"].hs \in Flight("client")
    BY <1>0, <2>1, GotFields, ReceivedFacts DEF Flight
  <2>3. Still(g, g)
    BY <2>2, StillFields
  <2> QED
    BY <1>0, <2>1, <2>2, <2>3, SRecvFlight DEF Flight
<1> QED
  BY <1>1, <1>2, <1>3

(* A certificate is read by either end. *)
LEMMA SRecvCertificate ==
  ASSUME HInv, HInv', SInv, NEW p \in Ends, RecvCertificate(p)
  PROVE  SInv'
<1> DEFINE g == Got(p)
           b == [g EXCEPT !.peerCert = ~First(p).empty]
           t == IF p = "server" THEN "CLIENT_KEY_EXCHANGE"
                ELSE IF NeedServerKeyExchange(p) THEN "SERVER_KEY_EXCHANGE" ELSE "CERTIFICATE_REQUEST"
<1>1. Receives(p, "CERTIFICATE") /\ (Fail(p) \/ (Consume(p, GoTo(b, "recv", t)) /\ Quiet))
  BY DEF RecvCertificate
<1>2. CASE Fail(p)
  BY <1>2, SFail
<1>3. CASE Consume(p, GoTo(b, "recv", t)) /\ Quiet
  <2>1. IsEnd(g) /\ end[p].hs = <<"recv", "CERTIFICATE">>
    BY <1>1, GotFields, ReceivedFacts
  <2>2. Still(g, b)
    BY <2>1, StillFields
  <2>3. end[p].hs \in Flight(p) /\ <<"recv", t>> \in Flight(p)
    BY <2>1 DEF Flight, Ends
  <2> HIDE DEF b, t
  <2> QED
    BY <1>1, <1>3, <2>2, <2>3, SRecvFlight
<1> QED
  BY <1>1, <1>2, <1>3

(* The master secret of a full handshake is made.                            *)
LEMMA KeyedSame ==
  ASSUME NEW e, IsEnd(e), NEW x
  PROVE  Same(e, HS_KeyEstablish(HS_GenerateMasterSecret(e, x)))
<1>1. Same(e, HS_GenerateMasterSecret(e, x))
  BY SameFields
<1>2. Still(HS_GenerateMasterSecret(e, x), HS_KeyEstablish(HS_GenerateMasterSecret(e, x)))
  BY <1>1, StillFields DEF Same
<1> QED
  BY <1>1, <1>2 DEF Still, Same

(* The client makes it and sends its half. *)
LEMMA SSendClientKeyExchange ==
  ASSUME HInv, HInv', SInv, SendClientKeyExchange
  PROVE  SInv'
<1> DEFINE c == end["client"]
           m == [type |-> "CLIENT_KEY_EXCHANGE",
                 premaster |-> IF config.kx = "PSK" THEN 0 ELSE count.random + 1]
           g == VERIFY_Append(c, m)
           e == HS_KeyEstablish(HS_GenerateMasterSecret(g, m.premaster))
           t == IF e.needCert /\ config.clientCert THEN "CERTIFICATE_VERIFY" ELSE "CHANGE_CIPHER_SPEC"
           f == GoTo(e, "send", t)
<1>0. "client" \in Ends /\ IsEnd(c) /\ count.random \in Nat
  BY PlacedBefore
<1>1. /\ c.hs = <<"send", "CLIENT_KEY_EXCHANGE">> /\ Send("client", m, f)
      /\ NextRandom /\ UNCHANGED <<config, cache, past>>
  BY DEF SendClientKeyExchange, Sends
<1>2. Same(c, g) /\ IsEnd(g)
  <2>1. Still(c, VERIFY_Append(c, m))
    BY <1>0, StillFields
  <2> QED
    BY <2>1 DEF Still, Same
<1> HIDE DEF g
<1>3. Same(g, e)
  BY <1>2, KeyedSame
<1>4. m.type \notin Loud /\ t \in {"CERTIFICATE_VERIFY", "CHANGE_CIPHER_SPEC"}
  BY DEF Loud
<1> HIDE DEF e, t, m
<1>5. Same(e, f) /\ f.hs = <<"send", t>>
  BY <1>3, SameFields DEF Same
<1> HIDE DEF f
<1>6. Same(c, f)
  BY <1>2, <1>3, <1>5, SameTrans
<1>7. Goes("client", c, f)
  BY <1>0, <1>1, <1>4, <1>5, <1>6, GoesFlight DEF Flight, Verify
<1>8. Shrunk(cache', cache) /\ config' = config /\ count.random <= count'.random
  <2>1. count'.random = count.random + 1
    BY <1>1 DEF NextRandom, HInv, Shape
  <2> QED
    BY <1>0, <1>1, <2>1 DEF Shrunk
<1> QED
  BY <1>0, <1>1, <1>4, <1>7, <1>8, SSend DEF c

(* The server makes it from the half of the client. *)
LEMMA SRecvClientKeyExchange ==
  ASSUME HInv, HInv', SInv, RecvClientKeyExchange
  PROVE  SInv'
<1> DEFINE s == end["server"]
           g == Got("server")
           e == HS_KeyEstablish(HS_GenerateMasterSecret(g, First("server").premaster))
           f == IF e.needCert /\ e.peerCert THEN GoTo(e, "recv", "CERTIFICATE_VERIFY")
                ELSE AwaitFinished(e, "client")
<1>0. "server" \in Ends
  BY DEF Ends
<1>1. Receives("server", "CLIENT_KEY_EXCHANGE") /\ Consume("server", f) /\ Quiet
  BY DEF RecvClientKeyExchange
<1>2. Reading("server") /\ Same(s, g) /\ IsEnd(g) /\ s.hs = <<"recv", "CLIENT_KEY_EXCHANGE">>
  BY <1>0, <1>1, GotFields, ReceivedFacts DEF Still
<1> HIDE DEF g
<1>3. Same(g, e)
  BY <1>2, KeyedSame
<1> HIDE DEF e
<1>4. Same(e, f) /\ f.hs \in {<<"recv", "CERTIFICATE_VERIFY">>, <<"recv", "FINISHED">>}
  <2>1. IsEnd(e)
    BY <1>3 DEF Same
  <2>2. /\ Same(e, GoTo(e, "recv", "CERTIFICATE_VERIFY")) /\ Same(e, AwaitFinished(e, "client"))
        /\ GoTo(e, "recv", "CERTIFICATE_VERIFY").hs = <<"recv", "CERTIFICATE_VERIFY">>
        /\ AwaitFinished(e, "client").hs = <<"recv", "FINISHED">>
    BY <2>1, SameFields
  <2> QED
    BY <2>2
<1> HIDE DEF f
<1>5. Same(s, f)
  BY <1>2, <1>3, <1>4, SameTrans
<1>6. Goes("server", s, f)
  BY <1>0, <1>2, <1>4, <1>5, GoesFlight DEF Flight, Verify
<1> QED
  BY <1>0, <1>1, <1>2, <1>6, QuietFacts, SConsume DEF s

(* The server checks the signature of the client. *)
LEMMA SRecvCertVerify ==
  ASSUME HInv, HInv', SInv, RecvCertVerify
  PROVE  SInv'
<1> DEFINE s == end["server"]
           g == Got("server")
           f == AwaitFinished(g, "client")
<1>0. "server" \in Ends
  BY DEF Ends
<1>1. Receives("server", "CERTIFICATE_VERIFY") /\ Consume("server", f) /\ Quiet
  BY DEF RecvCertVerify
<1>2. Reading("server") /\ Same(s, g) /\ IsEnd(g) /\ s.hs = <<"recv", "CERTIFICATE_VERIFY">>
  BY <1>0, <1>1, GotFields, ReceivedFacts DEF Still
<1>3. Same(g, f) /\ f.hs = <<"recv", "FINISHED">>
  BY <1>2, SameFields
<1> HIDE DEF f
<1>4. Same(s, f)
  BY <1>2, <1>3, SameTrans
<1>5. Goes("server", s, f)
  BY <1>0, <1>2, <1>3, <1>4, GoesFlight DEF Verify
<1> QED
  BY <1>0, <1>1, <1>2, <1>5, QuietFacts, SConsume DEF s

(* The change of keys.                                                       *)
LEMMA SSendChangeCipherSpec ==
  ASSUME HInv, HInv', SInv, NEW p \in Ends, SendChangeCipherSpec(p)
  PROVE  SInv'
<1> DEFINE e == end[p]
           a == ActivateWrite(e)
           m == [type |-> "CHANGE_CIPHER_SPEC"]
           f == GoTo(a, "send", "FINISHED")
<1>1. e.hs = <<"send", "CHANGE_CIPHER_SPEC">> /\ Send(p, m, f) /\ Quiet
  BY DEF SendChangeCipherSpec, Sends
<1>2. Same(e, a)
  BY PlacedBefore, StillFields DEF Still
<1>3. m.type \notin Loud
  BY DEF Loud
<1> HIDE DEF a, m
<1>4. Same(a, f) /\ f.hs = <<"send", "FINISHED">>
  BY <1>2, SameFields DEF Same
<1> HIDE DEF f
<1>5. Goes(p, e, f)
  BY <1>1, <1>2, <1>4, SameTrans, GoesChanging
<1> QED
  BY <1>1, <1>3, <1>5, QuietFacts, SSend DEF e

(* An end that stays where it is goes on. *)
LEMMA GoesStill ==
  ASSUME NEW p, NEW e, NEW f, Still(e, f)
  PROVE  Goes(p, e, f)
BY DEF Goes, Still

(* A ChangeCipherSpec is read. *)
LEMMA SRecvChangeCipherSpec ==
  ASSUME HInv, HInv', SInv, NEW p \in Ends, RecvChangeCipherSpec(p)
  PROVE  SInv'
<1> DEFINE e == end[p]
           a == ActivateRead(e)
           f == IF e.ccs.allow /\ ~e.ccs.active
                THEN [a EXCEPT !.ccs.active = TRUE, !.ccs.recv = TRUE]
                ELSE [e EXCEPT !.ccs.recv = TRUE]
<1>1. Reading(p) /\ (Fail(p) \/ (Consume(p, f) /\ Quiet))
  BY DEF RecvChangeCipherSpec
<1>2. CASE Fail(p)
  BY <1>2, SFail
<1>3. CASE Consume(p, f) /\ Quiet
  <2>1. Still(e, a) /\ IsEnd(e)
    BY PlacedBefore, StillFields
  <2>2. Still(a, [a EXCEPT !.ccs.active = TRUE, !.ccs.recv = TRUE])
    BY <2>1 DEF Still, Same, IsEnd, EndFields
  <2>3. Still(e, [e EXCEPT !.ccs.recv = TRUE])
    BY <2>1 DEF Still, Same, IsEnd, EndFields
  <2>4. Still(e, f)
    BY <2>1, <2>2, <2>3, SameTrans
  <2> HIDE DEF f
  <2> QED
    BY <1>1, <1>3, <2>4, GoesStill, QuietFacts, SConsume DEF e
<1> QED
  BY <1>1, <1>2, <1>3

(* Data, alerts, and what ends a connection.                                 *)
LEMMA SIgnore ==
  ASSUME HInv, HInv', SInv, NEW p \in Ends, Reading(p), Consume(p, end[p]), Quiet
  PROVE  SInv'
<1>1. Goes(p, end[p], end[p])
  BY PlacedBefore, StillFields, GoesStill
<1> QED
  BY <1>1, QuietFacts, SConsume

(* Nothing changes at the ends. *)
LEMMA SUnchanged ==
  ASSUME HInv, HInv', SInv, WireKept, UNCHANGED <<config, cache, end>>, count.random <= count'.random
  PROVE  SInv'
<1>1. /\ SessionInv(end["client"], end["server"], Asked', Answers', Tickets', Finals',
                    cache', count'.random, config'.cacheMode)
      /\ Dead(end["client"]) \/ OneEach(wire'["client"])
  BY Between DEF Shrunk
<1> QED
  BY <1>1 DEF SInv

(* A message is answered with a warning and no more. *)
LEMMA SWarn ==
  ASSUME HInv, HInv', SInv, NEW p \in Ends, Reading(p), UNCHANGED end, Quiet,
         wire' = [wire EXCEPT ![p] = Tail(@),
                              ![Peer(p)] = Append(@, Record(p, Alert("warning")))]
  PROVE  SInv'
<1>1. wire' = [wire EXCEPT ![p] = Tail(wire[p]),
                           ![Peer(p)] = Append(@, Record(p, Alert("warning")))]
  OBVIOUS
<1>2. wire[p] # <<>>
  BY DEF Reading
<1>3. WireKept
  BY <1>1, <1>2, AlertQuiet DEF HInv
<1> QED
  BY <1>3, QuietFacts, SUnchanged DEF Quiet

(* Data is sent. *)
LEMMA SWrite ==
  ASSUME HInv, HInv', SInv, NEW p \in Ends, HITLS_Write(p)
  PROVE  SInv'
<1>1. WireKept
  <2>1. /\ wire'[Peer(p)] = Append(wire[Peer(p)], Record(p, [type |-> "APP_DATA"]))
        /\ wire'[p] = wire[p]
    BY PeerFacts DEF HITLS_Write, HInv, Shape
  <2>2. Record(p, [type |-> "APP_DATA"]).msg.type \notin Loud
    BY DEF Record, Loud
  <2>3. IsSeq(wire[Peer(p)]) /\ Quieter(wire[Peer(p)], wire[Peer(p)]) /\ Quieter(wire[p], wire[p])
    BY PeerFacts, QuieterSame DEF HInv, Shape
  <2>4. Quieter(wire[Peer(p)], wire'[Peer(p)])
    BY <2>1, <2>2, <2>3, QuieterAppend
  <2> QED
    BY <2>1, <2>3, <2>4, PeerFacts, WiresQuiet
<1>2. count.random <= count'.random
  <2>1. count'.random = count.random
    BY DEF HITLS_Write, HInv, Shape
  <2> QED
    BY <2>1, PlacedBefore
<1> QED
  BY <1>1, <1>2, SUnchanged DEF HITLS_Write

(* An alert is read: a warning is ignored, another one disables the end. *)
LEMMA SRecvAlert ==
  ASSUME HInv, HInv', SInv, NEW p \in Ends, RecvAlert(p)
  PROVE  SInv'
<1>0. Reading(p)
  BY DEF RecvAlert
<1>1. CASE First(p).level = "fatal"
  <2>1. /\ wire' = [wire EXCEPT ![p] = <<>>] /\ end' = [end EXCEPT ![p] = Disabled(end[p])]
        /\ DisableSession(p) /\ UNCHANGED <<config, count, past>>
    BY <1>1 DEF RecvAlert
  <2>2. WireKept
    BY <2>1, AlertQuiet DEF HInv
  <2>3. end'[p] = Disabled(end[p]) /\ end'[Peer(p)] = end[Peer(p)]
    BY <2>1, PeerFacts DEF HInv, Shape
  <2> QED
    BY <2>1, <2>2, <2>3, DisableShrinks, Disables
<1>2. CASE Fail(p)
  BY <1>2, SFail
<1>3. CASE Consume(p, end[p]) /\ Quiet
  BY <1>0, <1>3, SIgnore
<1> QED
  BY <1>1, <1>2, <1>3 DEF RecvAlert

(* The server begins a renegotiation, or asks for one.                       *)
LEMMA SServerRests ==
  ASSUME HInv, HInv', SInv, WireKept, Shrunk(cache', cache), config' = config,
         count.random <= count'.random, end'["client"] = end["client"],
         Rests(end["server"], end'["server"]), end'["server"].hs \in Outside("server")
  PROVE  SInv'
BY ServerOn DEF RestsServer, Rests

(* The server asks for a renegotiation. *)
LEMMA SSendHelloRequest ==
  ASSUME HInv, HInv', SInv, SendHelloRequest
  PROVE  SInv'
<1> DEFINE s == end["server"]
           b == [s EXCEPT !.isRenegotiation = FALSE]
           m == [type |-> "HELLO_REQUEST"]
           f == Connected(b)
<1>0. "server" \in Ends /\ Peer("server") = "client" /\ IsEnd(s)
  BY PlacedBefore DEF Peer
<1>1. Send("server", m, f) /\ Quiet
  BY DEF SendHelloRequest
<1>2. IsEnd(b)
  BY <1>0 DEF IsEnd, EndFields
<1> HIDE DEF b
<1>3. f.clientRandom = 0 /\ f.hs = <<"idle", "none">>
  BY <1>2, ConnectedFields DEF Rests
<1>4. m.type \notin Loud
  BY DEF Loud
<1> HIDE DEF f, m
<1>5. WireKept /\ end'["server"] = f /\ end'["client"] = end["client"]
  BY <1>0, <1>1, <1>4, SendQuiet, SendFacts DEF HInv
<1> QED
  BY <1>1, <1>3, <1>5, QuietFacts, ServerOn DEF RestsServer, Outside

(* A client that is idle may begin another handshake: no ticket is to come.  *)
LEMMA SClientRests ==
  ASSUME HInv, HInv', SInv, WireKept, Shrunk(cache', cache), config' = config,
         count.random <= count'.random, end'["server"] = end["server"],
         end["client"].state = "TRANSPORTING", Rests(end["client"], end'["client"]),
         end'["client"].hs \in Outside("client"), end'["client"].state # "ALERTED"
  PROVE  SInv'
<1> DEFINE c == end["client"]
           s == end["server"]
           d == end'["client"]
<1>1. /\ "client" \in Ends /\ "server" \in Ends /\ Placed("client", c, count.random)
      /\ Placed("server", s, count.random)
  BY PlacedBefore
<1>2. c.hs = <<"idle", "none">> /\ ~Dead(c)
  BY <1>1, Basics DEF Typed, Dead
<1>3. c.hs \in Outside("client") /\ c.hs # <<"recv", "NEW_SESSION_TICKET">>
  BY <1>2 DEF Outside
<1>4. ~BeforeTicket(s)
  <2>1. BeforeTicket(s) => c.clientRandom = s.clientRandom
    BY <1>2 DEF SInv, SessionInv, Linked, TicketToCome
  <2> QED
    BY <1>1, <1>3, <2>1, BeforeTicketFacts DEF Placed
<1>5. Kept(d, count'.random, cache')
  <2>1. Kept(c, count'.random, cache')
    BY Between DEF SessionInv
  <2> QED
    BY <1>2, <2>1 DEF Kept, Rests, Dead
<1> QED
  BY <1>1, <1>2, <1>3, <1>4, <1>5, ClientOff DEF Placed, Rests

(* Either end is told to renegotiate. *)
LEMMA SRenegotiate ==
  ASSUME HInv, HInv', SInv, NEW p \in Ends, HITLS_Renegotiate(p)
  PROVE  SInv'
<1> DEFINE e == end[p]
           i == HS_Init(e)
           b == [i EXCEPT !.state = "RENEGOTIATION", !.isRenegotiation = TRUE, !.userRenego = TRUE]
           t == IF p = "client" THEN "CLIENT_HELLO" ELSE "HELLO_REQUEST"
           f == GoTo(b, "send", t)
<1>1. /\ e.state = "TRANSPORTING" /\ end' = [end EXCEPT ![p] = f]
      /\ count' = [count EXCEPT !.renegotiation = @ + 1]
      /\ UNCHANGED <<config, wire, cache, past>>
  BY DEF HITLS_Renegotiate
<1>2. Rests(e, i)
  BY PlacedBefore, InitFields
<1> HIDE DEF i
<1>3. Rests(e, f) /\ f.hs = <<"send", t>> /\ f.state = "RENEGOTIATION"
  BY <1>2 DEF Rests, IsEnd, EndFields, GoTo
<1> HIDE DEF f
<1>4. end'[p] = f /\ end'[Peer(p)] = end[Peer(p)]
  BY <1>1, PeerFacts DEF HInv, Shape
<1>5. WireKept
  BY <1>1, QuieterSame, WiresQuiet
<1>6. Shrunk(cache', cache) /\ count.random <= count'.random
  <2>1. count'.random = count.random
    BY <1>1 DEF HInv, Shape
  <2> QED
    BY <1>1, <2>1, PlacedBefore DEF Shrunk
<1>7. CASE p = "client"
  <2>1. f.hs \in Outside("client")
    BY <1>3, <1>7 DEF Outside
  <2> QED
    BY <1>1, <1>3, <1>4, <1>5, <1>6, <1>7, <2>1, SClientRests DEF Peer
<1>8. CASE p = "server"
  <2>1. f.hs \in Outside("server")
    BY <1>3, <1>8 DEF Outside
  <2> QED
    BY <1>1, <1>3, <1>4, <1>5, <1>6, <1>8, <2>1, SServerRests DEF Peer
<1> QED
  BY <1>7, <1>8 DEF Ends

(* The client is asked for one: it begins it, answers with a warning or ignores it. *)
LEMMA SRecvHelloRequest ==
  ASSUME HInv, HInv', SInv, RecvHelloRequest
  PROVE  SInv'
<1> DEFINE c == end["client"]
           i == HS_Init(c)
           f == GoTo([i EXCEPT !.state = "RENEGOTIATION", !.isRenegotiation = TRUE],
                     "send", "CLIENT_HELLO")
<1>0. "client" \in Ends /\ Peer("client") = "server" /\ IsEnd(c)
  BY PlacedBefore DEF Peer
<1>1. /\ Reading("client") /\ Quiet
      /\ \/ Consume("client", c)
         \/ c.state = "TRANSPORTING" /\ Consume("client", f)
         \/ /\ UNCHANGED end
            /\ wire' = [wire EXCEPT !["client"] = Tail(@),
                                    !["server"] = Append(@, Record("client", Alert("warning")))]
  BY DEF RecvHelloRequest
<1>2. CASE Consume("client", c)
  BY <1>0, <1>1, <1>2, SIgnore
<1>3. CASE c.state = "TRANSPORTING" /\ Consume("client", f)
  <2>1. Rests(c, i)
    BY <1>0, InitFields
  <2> HIDE DEF i
  <2>2. Rests(c, f) /\ f.hs = <<"send", "CLIENT_HELLO">> /\ f.state = "RENEGOTIATION"
    BY <2>1 DEF Rests, IsEnd, EndFields, GoTo
  <2> HIDE DEF f
  <2>3. WireKept /\ end'["client"] = f /\ end'["server"] = end["server"]
    BY <1>0, <1>1, <1>3, ConsumeQuiet, ConsumeFacts DEF HInv
  <2>4. f.hs \in Outside("client")
    BY <2>2 DEF Outside
  <2> QED
    BY <1>1, <1>3, <2>2, <2>3, <2>4, QuietFacts, SClientRests
<1>4. CASE /\ UNCHANGED end
           /\ wire' = [wire EXCEPT !["client"] = Tail(@),
                                   !["server"] = Append(@, Record("client", Alert("warning")))]
  <2>1. wire' = [wire EXCEPT !["client"] = Tail(@),
                             ![Peer("client")] = Append(@, Record("client", Alert("warning")))]
    BY <1>0, <1>4
  <2> QED
    BY <1>0, <1>1, <1>4, <2>1, SWarn
<1> QED
  BY <1>1, <1>2, <1>3, <1>4

(* The server refuses a renegotiation with a warning. *)
LEMMA SRefuseClientHello ==
  ASSUME HInv, HInv', SInv, RefuseClientHello
  PROVE  SInv'
<1>1. /\ "server" \in Ends /\ Reading("server") /\ UNCHANGED end /\ Quiet
      /\ wire' = [wire EXCEPT !["server"] = Tail(@),
                              !["client"] = Append(@, Record("server", Alert("warning")))]
  BY DEF RefuseClientHello, Ends
<1>2. wire' = [wire EXCEPT !["server"] = Tail(@),
                           ![Peer("server")] = Append(@, Record("server", Alert("warning")))]
  BY <1>1 DEF Peer
<1> QED
  BY <1>1, <1>2, SWarn

-----------------------------------------------------------------------------
(* The hellos.                                                               *)

(* The client offers its session, or none.                                   *)
LEMMA ClientAsks ==
  ASSUME NEW c, NEW d, NEW s, NEW A, NEW H, NEW K, NEW F, NEW store, NEW n \in Nat, NEW mode,
         SessionInv(c, s, A, H, K, F, store, n, mode),
         Placed("client", c, n), Placed("server", s, n), Placed("client", d, n + 1),
         c.hs \in Outside("client"), ~Dead(c),
         d.hs \in Greeting("client"), d.clientRandom = n + 1,
         d.session \in {c.session, NoSession}, d.id = d.session.id, d.ticket = c.ticket,
         NEW m, m.random = n + 1, m.id = d.id, m.ticket \in {<<>>, d.session.ticket},
         \A x \in F : ClientOf(x.verify) \in 1 .. n
  PROVE  SessionInv(d, s, A \cup {m}, H, K, F, store, n + 1, mode)
<1>1. SessionInv(c, s, A, H, K, F, store, n + 1, mode)
  BY Shrinks DEF Shrunk
<1>2. /\ AskedOK(c, A, H, K) /\ AnswerOK(c, s, H, K) /\ HellosOK(c, s, H, store, mode)
      /\ TicketToCome(c, s, K) /\ TicketsOK(c, H, K)
      /\ CacheIds(store, n + 1, mode) /\ Kept(c, n + 1, store) /\ Made(c, n, store) /\ ServerOwn(s)
  BY <1>1 DEF SessionInv, Linked
<1>3. /\ c.hs \notin Greeting("client") /\ ~Answered("client", c) /\ c.clientRandom = 0
      /\ c.hs \notin Last /\ ~Answered("client", d)
  BY LastFacts DEF Placed
<1>4. A = {} /\ H = {} /\ K = {} /\ s.hs \notin Greeting("server")
  <2>1. A = {} /\ s.hs \notin Greeting("server") /\ H = {}
    BY <1>2, <1>3 DEF AskedOK, AnswerOK, Asks, HellosOK, HelloIs
  <2>2. K = {}
    BY <1>2, <1>3, LastFacts DEF TicketsOK, TicketIs
  <2> QED
    BY <2>1, <2>2
<1>5. ~BeforeTicket(s)
  BY <1>2, <1>3, BeforeTicketFacts DEF TicketToCome, Placed
<1>6. ~Dead(d) /\ d.hs \notin Last
  BY <1>3, LastFacts DEF Placed
<1>7. Kept(d, n + 1, store)
  <2>1. <<>> \notin DOMAIN store
    BY <1>2 DEF CacheIds
  <2>2. CASE d.session = NoSession
    BY <2>1, <2>2, NoSessionFacts DEF Kept, IsId, NoId
  <2>3. CASE d.session = c.session
    BY <1>2, <1>6, <2>3 DEF Kept
  <2> QED
    BY <2>2, <2>3
<1>8. Made(d, n + 1, store)
  <2>1. d.ticket = <<>>
    BY <1>2, <1>3, LastFacts DEF Made
  <2> QED
    BY <1>3, <2>1 DEF Made
<1>9. Told(d, F)
  BY DEF Told
<1>10. Linked(d, s, A \cup {m}, H, K, store, mode)
  <2>1. AskedOK(d, A \cup {m}, H, K)
    BY <1>4 DEF AskedOK, Asks
  <2> QED
    BY <1>3, <1>4, <1>5, <2>1
       DEF Linked, AnswerOK, HellosOK, SameHandshake, TicketToCome, TicketsOK
<1> QED
  BY <1>2, <1>7, <1>8, <1>9, <1>10 DEF SessionInv

(* The server reads what it is offered, and may find the session.            *)
LEMMA ServerAsked ==
  ASSUME NEW c, NEW s, NEW t, NEW A, NEW H, NEW K, NEW F, NEW store, NEW n \in Nat, NEW mode,
         SessionInv(c, s, A, H, K, F, store, n, mode), Placed("client", c, n),
         NEW m \in A, t.clientRandom = m.random, t.hs \in Greeting("server"),
         Placed("server", t, n), \A id \in DOMAIN store : store[id].id = id,
         t.isResume => \/ /\ t.session.id = m.id /\ m.ticket # <<>>
                          /\ t.session.master = m.ticket[1]
                       \/ m.id \in DOMAIN store /\ t.session = store[m.id]
  PROVE  SessionInv(c, t, A, H, K, F, store, n, mode)
<1>1. ~Answered("server", t) /\ ~BeforeTicket(t)
  BY BeforeTicketFacts DEF Placed
<1>2. ServerOwn(t)
  BY <1>1, BeforeTicketFacts DEF ServerOwn
<1>3. ASSUME ~Dead(c)
      PROVE  Linked(c, t, A, H, K, store, mode)
  <2>1. AskedOK(c, A, H, K) /\ TicketsOK(c, H, K) /\ CacheIds(store, n, mode)
        /\ Kept(c, n, store) /\ Made(c, n, store)
    BY <1>3 DEF SessionInv, Linked
  <2>2. Asks(c, m.random, H, K) /\ m.id = c.id /\ m.ticket \in {<<>>, c.session.ticket}
    BY <2>1 DEF AskedOK
  <2>3. c.hs \in Greeting("client") /\ H = {} /\ ~Answered("client", c) /\ c.id = c.session.id
    BY <2>1, <2>2 DEF Asks, Placed, Made
  <2>4. AnswerOK(c, t, H, K)
    <3> SUFFICES ASSUME t.isResume
                 PROVE  t.session.id = c.id /\ c.id # NoId /\ t.session.master = c.session.master
      BY <2>2 DEF AnswerOK
    <3>1. CASE t.session.id = m.id /\ m.ticket # <<>> /\ t.session.master = m.ticket[1]
      BY <2>1, <2>2, <2>3, <3>1 DEF Kept
    <3>2. CASE m.id \in DOMAIN store /\ t.session = store[m.id]
      <4>1. m.id # NoId
        BY <2>1, <3>2 DEF CacheIds, NoId
      <4> QED
        BY <2>1, <2>2, <2>3, <3>2, <4>1 DEF Kept
    <3> QED
      BY <3>1, <3>2
  <2> QED
    BY <1>1, <2>1, <2>3, <2>4 DEF Linked, HellosOK, SameHandshake, TicketToCome
<1> QED
  BY <1>2, <1>3 DEF SessionInv, Linked

(* The ServerHello m, and the server that has sent it.                       *)
Replies(s, t, m, k, mode) ==
  /\ t.clientRandom = s.clientRandom /\ t.serverRandom = k
  /\ t.isResume = s.isResume /\ t.isTicket = s.isTicket /\ t.session = s.session
  /\ t.id = (IF s.isResume THEN s.session.id
             ELSE IF mode = "server" /\ ~s.isTicket THEN <<"server", k>> ELSE NoId)
  /\ s.isResume => t.hs = (IF s.isTicket THEN <<"send", "NEW_SESSION_TICKET">>
                           ELSE <<"send", "CHANGE_CIPHER_SPEC">>)
  /\ ~s.isResume => t.hs \in Flight("server")
  /\ m.random = k /\ m.id = t.id /\ m.hasTicket = s.isTicket

(* The server answers with message m.                                        *)
LEMMA ServerAnswers ==
  ASSUME NEW c, NEW s, NEW t, NEW A, NEW H, NEW K, NEW F, NEW store, NEW n \in Nat, NEW mode,
         NEW k \in Nat, k = n + 1,
         SessionInv(c, s, A, H, K, F, store, n, mode),
         Placed("client", c, n), Placed("server", s, n), Placed("server", t, k),
         s.hs \in Greeting("server"), \A x \in A : s.clientRandom < x.random,
         NEW m, Replies(s, t, m, k, mode)
  PROVE  /\ SessionInv(c, t, A, H \cup {m}, K, F, store, k, mode)
         /\ Dead(c) \/ (H = {} /\ K = {})
<1> USE DEF Replies
<1>1. SessionInv(c, s, A, H, K, F, store, k, mode)
  BY Shrinks DEF Shrunk
<1>2. /\ CacheIds(store, n, mode) /\ Kept(c, n, store) /\ Made(c, n, store)
      /\ CacheIds(store, k, mode) /\ Kept(c, k, store) /\ Made(c, k, store) /\ Told(c, F)
  BY <1>1 DEF SessionInv
<1>3. ServerOwn(t)
  <2>1. ~s.isResume => t.hs # <<"send", "NEW_SESSION_TICKET">>
    BY DEF Flight
  <2>2. s.isResume /\ t.hs = <<"send", "NEW_SESSION_TICKET">> => s.isTicket
    OBVIOUS
  <2> QED
    BY <2>1, <2>2 DEF ServerOwn, Placed
<1>4. ASSUME ~Dead(c)
      PROVE  Linked(c, t, A, H \cup {m}, K, store, mode) /\ H = {} /\ K = {}
  <2>1. AskedOK(c, A, H, K) /\ AnswerOK(c, s, H, K)
    BY <1>1, <1>4 DEF SessionInv, Linked
  <2>2. /\ Asks(c, s.clientRandom, H, K)
        /\ s.isResume => s.session.id = c.id /\ c.id # NoId /\ s.session.master = c.session.master
    BY <2>1 DEF AnswerOK
  <2>3. /\ c.hs \in Greeting("client") /\ c.clientRandom = s.clientRandom /\ H = {} /\ K = {}
        /\ ~Answered("client", c) /\ c.id = c.session.id /\ c.hs \notin Last
    BY <1>2, <2>2, LastFacts DEF Asks, Placed, Made
  <2>4. A = {}
    BY <2>1, <2>3 DEF AskedOK, Asks, Placed
  <2>5. IsId(c.id, n)
    BY <1>2, <2>3 DEF Kept
  <2> DEFINE new == <<"server", k>>
  <2>6. new \notin DOMAIN store /\ new # c.id /\ new # NoId
    <3>1. new \notin DOMAIN store
      BY <1>2 DEF CacheIds
    <3>2. new # c.id
      BY <2>5 DEF IsId, NoId
    <3> QED
      BY <3>1, <3>2 DEF NoId
  <2> HIDE DEF new
  <2>7. t.id = (IF s.isResume THEN c.id
                ELSE IF mode = "server" /\ ~s.isTicket THEN new ELSE NoId)
    BY <2>2 DEF new
  <2>8. HelloIs(c, t, m, store, mode)
    <3>1. /\ m.random = k /\ new = <<"server", m.random>>
      BY DEF new
    <3>2. m.id \in {NoId, new, c.id}
      BY <2>7
    <3>3. mode = "server" /\ m.id = NoId => m.hasTicket
      BY <2>2, <2>6, <2>7
    <3>4. t.isResume <=> m.id = c.id /\ c.id # NoId
      BY <2>2, <2>6, <2>7
    <3> QED
      BY <2>3, <2>6, <3>1, <3>2, <3>3, <3>4 DEF HelloIs
  <2>9. HellosOK(c, t, H \cup {m}, store, mode)
    BY <2>3, <2>8 DEF HellosOK
  <2>10. AskedOK(c, A, H \cup {m}, K)
    BY <2>4 DEF AskedOK
  <2>11. t.hs \notin Greeting("server")
    <3>1. Answered("server", t)
      BY DEF Answered, Keyed, Ticket, Changing
    <3> QED
      BY <3>1 DEF Placed
  <2>12. TicketToCome(c, t, K)
    <3>1. ~s.isResume => t.hs \notin Ticket("server")
      BY StageFacts DEF Ends
    <3>2. <<"recv", "FINISHED">> \in Last
      BY LastFacts
    <3> QED
      BY <2>2, <2>3, <3>1, <3>2 DEF TicketToCome
  <2>13. SameHandshake(c, t) /\ TicketsOK(c, H \cup {m}, K)
    BY <2>3 DEF SameHandshake, TicketsOK
  <2> QED
    BY <2>3, <2>9, <2>10, <2>11, <2>12, <2>13 DEF Linked, AnswerOK
<1> QED
  BY <1>2, <1>3, <1>4 DEF SessionInv, Linked

(* The client that has read the ServerHello m.                               *)
Learns(c, d, m, resumed) ==
  /\ resumed <=> c.session # NoSession /\ m.id # NoId /\ m.id = c.id
  /\ d.isResume <=> resumed
  /\ d.clientRandom = c.clientRandom /\ d.serverRandom = m.random /\ d.isTicket = m.hasTicket
  /\ d.session = c.session /\ d.ticket = c.ticket
  /\ ~resumed => d.hs \in Flight("client") /\ d.id = (IF m.id # NoId THEN m.id ELSE c.id)
  /\ resumed => d.hs = <<"recv", IF m.hasTicket THEN "NEW_SESSION_TICKET" ELSE "FINISHED">>

(* The client reads the answer, the only one.                                *)
LEMMA ClientAnswered ==
  ASSUME NEW c, NEW d, NEW s, NEW A, NEW H, NEW K, NEW F, NEW store, NEW n \in Nat, NEW mode,
         SessionInv(c, s, A, H, K, F, store, n, mode),
         Placed("client", c, n), Placed("server", s, n), Placed("client", d, n),
         c.hs \in Greeting("client"), ~Dead(c),
         NEW m \in H, m.random \in 1 .. n,
         NEW resumed, Learns(c, d, m, resumed),
         s.hs \in Ticket("server") /\ ~s.isResume => Dead(c) \/ Waiting("client", c)
  PROVE  SessionInv(d, s, A, {}, K, F, store, n, mode)
<1> USE DEF Learns
<1>1. /\ AskedOK(c, A, H, K) /\ AnswerOK(c, s, H, K) /\ HellosOK(c, s, H, store, mode)
      /\ TicketToCome(c, s, K) /\ TicketsOK(c, H, K)
      /\ CacheIds(store, n, mode) /\ Kept(c, n, store) /\ Made(c, n, store) /\ ServerOwn(s) /\ Told(c, F)
  BY DEF SessionInv, Linked
<1>2. /\ c.id = c.session.id /\ ~Answered("client", c) /\ c.hs \notin Last
      /\ c.clientRandom # 0 /\ c.ticket = <<>>
  BY <1>1, LastFacts DEF Placed, Made
<1>3. HelloIs(c, s, m, store, mode) /\ A = {} /\ s.hs \notin Greeting("server")
  BY <1>1 DEF HellosOK, AskedOK, AnswerOK, Asks
<1>4. Answered("client", d) /\ ~Dead(d) /\ d.hs \notin Greeting("client")
      /\ (~resumed => d.hs \notin Last)
  <2>1. CASE resumed
    <3>1. d.hs \in Last
      BY <2>1, LastFacts
    <3> QED
      BY <2>1, <3>1, LastFacts DEF Placed
  <2>2. CASE ~resumed
    <3>1. Answered("client", d)
      BY <2>2 DEF Answered
    <3>2. d.hs \notin Last
      BY <2>2 DEF Flight, Last
    <3> QED
      BY <3>1, <3>2 DEF Placed
  <2> QED
    BY <2>1, <2>2
<1>5. c.id # NoId => c.session # NoSession
  BY <1>2, NoSessionFacts
<1>6. resumed <=> m.id # NoId /\ m.id = c.id
  BY <1>5
<1>7. Kept(d, n, store)
  BY <1>1, <1>4 DEF Kept
<1>8. Made(d, n, store)
  <2>1. ASSUME ~resumed
        PROVE  /\ IsId(d.id, n) /\ d.session.id # <<"server", d.serverRandom>>
               /\ d.isTicket \/ d.id \notin DOMAIN store
    <3>1. m.id \in {NoId, <<"server", m.random>>, c.id} /\ <<"server", m.random>> # c.id
      BY <1>3 DEF HelloIs
    <3>2. IsId(d.id, n)
      BY <1>1, <1>2, <2>1, <3>1 DEF Kept, IsId
    <3>3. ASSUME ~m.hasTicket, d.id \in DOMAIN store
          PROVE  FALSE
      <4>1. mode = "server" /\ d.id # NoId
        BY <1>1, <3>3 DEF CacheIds, NoId
      <4>2. m.id # NoId
        BY <1>3, <3>3, <4>1 DEF HelloIs
      <4>3. d.id = m.id /\ m.id # c.id
        BY <1>6, <2>1, <4>2
      <4> QED
        BY <1>3, <3>1, <3>3, <4>2, <4>3 DEF HelloIs
    <3> QED
      BY <1>2, <3>1, <3>2, <3>3
  <2>2. resumed => d.session.id # NoId
    BY <1>2
  <2> QED
    BY <1>2, <1>4, <2>1, <2>2 DEF Made
<1>9. Told(d, F)
  BY <1>1, <1>2, LastFacts DEF Told
<1>10. SameHandshake(d, s)
  <2> SUFFICES ASSUME d.clientRandom = s.clientRandom
               PROVE  /\ d.isResume = s.isResume /\ d.isTicket = s.isTicket /\ d.serverRandom = s.serverRandom
                      /\ ~d.isResume /\ s.id # NoId => d.id = s.id
    BY DEF SameHandshake
  <2>1. /\ m.random = s.serverRandom /\ m.hasTicket = s.isTicket /\ m.id = s.id
        /\ s.isResume <=> m.id = c.id /\ c.id # NoId
    BY <1>3 DEF HelloIs
  <2>2. s.isResume <=> resumed
    BY <1>6, <2>1
  <2> QED
    BY <2>1, <2>2 DEF Placed
<1>11. TicketToCome(d, s, K)
  <2> SUFFICES ASSUME BeforeTicket(s)
               PROVE  /\ d.clientRandom = s.clientRandom /\ K = {}
                      /\ s.isResume => s.session.master = d.session.master
                      /\ s.isResume => d.hs = <<"recv", "NEW_SESSION_TICKET">>
                      /\ ~d.isResume => d.hs # <<"recv", "FINISHED">>
                      /\ ~(~s.isResume /\ s.hs \in Ticket("server"))
    BY DEF TicketToCome
  <2>1. /\ c.clientRandom = s.clientRandom /\ K = {}
        /\ s.isResume => s.session.master = c.session.master
    BY <1>1 DEF TicketToCome
  <2>2. s.isResume => s.isTicket
    BY <1>1 DEF BeforeTicket, ServerOwn, Placed, Ticket
  <2>3. d.isResume = s.isResume /\ d.isTicket = s.isTicket
    BY <1>4, <1>10, <2>1 DEF SameHandshake
  <2>4. s.isResume => d.hs = <<"recv", "NEW_SESSION_TICKET">>
    BY <2>2, <2>3
  <2>5. ~(~s.isResume /\ s.hs \in Ticket("server"))
    BY <1>2, LastFacts
  <2>6. ~d.isResume => d.hs # <<"recv", "FINISHED">>
    BY <1>4, LastFacts
  <2> QED
    BY <2>1, <2>4, <2>5, <2>6
<1>12. TicketsOK(d, {}, K)
  <2> SUFFICES ASSUME NEW x \in K
               PROVE  TicketIs(d, {}, x)
    BY DEF TicketsOK
  <2>1. TicketIs(c, H, x)
    BY <1>1 DEF TicketsOK
  <2>2. x.ticket[1] = c.session.master /\ m.hasTicket /\ m.id = c.id /\ c.id # NoId
    BY <1>2, <2>1, LastFacts DEF TicketIs
  <2> QED
    BY <1>6, <2>2 DEF TicketIs
<1>13. Linked(d, s, A, {}, K, store, mode)
  BY <1>3, <1>10, <1>11, <1>12 DEF Linked, AskedOK, AnswerOK, HellosOK
<1> QED
  BY <1>1, <1>7, <1>8, <1>9, <1>13 DEF SessionInv

-----------------------------------------------------------------------------
(* The ticket.                                                               *)

(* The server sends its ticket, the only one.                                *)
LEMMA ServerTickets ==
  ASSUME NEW c, NEW s, NEW t, NEW A, NEW H, NEW K, NEW F, NEW store, NEW n \in Nat, NEW mode,
         SessionInv(c, s, A, H, K, F, store, n, mode),
         Placed("client", c, n), Placed("server", s, n), Placed("server", t, n),
         s.hs = <<"send", "NEW_SESSION_TICKET">>, \A x \in A : s.clientRandom < x.random,
         KeepsServer(s, t), t.hs = <<"send", "CHANGE_CIPHER_SPEC">>,
         NEW m, m.ticket[1] = s.session.master,
         ~s.isResume => Dead(c) \/ Waiting("client", c)
  PROVE  /\ SessionInv(c, t, A, H, K \cup {m}, F, store, n, mode)
         /\ Dead(c) \/ K = {}
<1>1. SessionInv(c, t, A, H, K, F, store, n, mode)
  BY ServerKept
<1>2. ASSUME ~Dead(c)
      PROVE  Linked(c, t, A, H, K \cup {m}, store, mode) /\ K = {}
  <2>1. /\ AskedOK(c, A, H, K) /\ HellosOK(c, s, H, store, mode) /\ ServerOwn(s)
        /\ SameHandshake(c, s) /\ TicketToCome(c, s, K)
    BY <1>2 DEF SessionInv, Linked
  <2>2. /\ HellosOK(c, t, H, store, mode) /\ SameHandshake(c, t)
    BY <1>1, <1>2 DEF SessionInv, Linked
  <2>3. s.hs \in Ticket("server") /\ BeforeTicket(s) /\ s.isTicket /\ Answered("server", s)
    BY <2>1, BeforeTicketFacts DEF ServerOwn
  <2>4. /\ c.clientRandom = s.clientRandom /\ K = {} /\ c.clientRandom # 0
    BY <2>1, <2>3 DEF TicketToCome, Placed
  <2>5. A = {}
    BY <2>1, <2>4 DEF AskedOK, Asks, Placed
  <2>6. ~BeforeTicket(t) /\ t.hs \notin Greeting("server")
    <3>1. Answered("server", t)
      BY DEF Answered, Keyed, Changing
    <3> QED
      BY <3>1 DEF BeforeTicket, Flight, Verify, Ticket, Placed
  <2>7. TicketIs(c, H, m)
    <3>1. CASE s.isResume /\ Answered("client", c)
      <4>1. c.hs = <<"recv", "NEW_SESSION_TICKET">> /\ c.isResume /\ s.session.master = c.session.master
        BY <2>1, <2>3, <2>4, <3>1 DEF TicketToCome, SameHandshake
      <4> QED
        BY <4>1 DEF TicketIs
    <3>2. CASE s.isResume /\ ~Answered("client", c)
      <4>1. c.hs \in Greeting("client") /\ s.session.master = c.session.master
        BY <2>1, <2>3, <2>4, <3>2 DEF TicketToCome, Placed
      <4>2. ASSUME NEW x \in H
            PROVE  x.hasTicket /\ x.id = c.id /\ c.id # NoId
        BY <2>1, <2>3, <2>4, <3>2 DEF HellosOK, HelloIs
      <4> QED
        BY <4>1, <4>2 DEF TicketIs
    <3>3. CASE ~s.isResume
      <4>1. ~c.isResume /\ c.hs \in Last
        BY <1>2, <3>3, LastFacts
      <4>2. c.isTicket
        BY <2>1, <2>3, <2>4, <4>1, LastFacts DEF SameHandshake
      <4>3. c.hs = <<"recv", "NEW_SESSION_TICKET">> /\ c.master = s.session.master
        BY <2>1, <2>3, <3>3, <4>1, <4>2 DEF TicketToCome, Last
      <4> QED
        BY <4>1, <4>3 DEF TicketIs
    <3> QED
      BY <3>1, <3>2, <3>3
  <2>8. TicketsOK(c, H, K \cup {m})
    BY <2>4, <2>7 DEF TicketsOK
  <2> QED
    BY <2>2, <2>4, <2>5, <2>6, <2>8 DEF Linked, AskedOK, AnswerOK, TicketToCome
<1> QED
  BY <1>1, <1>2 DEF SessionInv, Linked

(* The client that has read the ticket in m.                                 *)
Takes(c, d, m) ==
  /\ c.hs = <<"recv", "NEW_SESSION_TICKET">> /\ d.hs = <<"recv", "FINISHED">>
  /\ d.clientRandom = c.clientRandom /\ d.serverRandom = c.serverRandom /\ d.id = c.id
  /\ d.isResume = c.isResume /\ d.isTicket = c.isTicket /\ d.master = c.master
  /\ d.session.id = c.session.id /\ d.session.master = c.session.master
  /\ IF c.isResume THEN d.session.ticket = m.ticket /\ d.ticket = c.ticket
     ELSE d.session = c.session /\ d.ticket = m.ticket
  /\ Dead(d) <=> Dead(c)

(* The client reads the ticket, for the session it has or the one it makes.  *)
LEMMA ClientTickets ==
  ASSUME NEW c, NEW d, NEW s, NEW A, NEW H, NEW K, NEW F, NEW store, NEW n \in Nat, NEW mode,
         SessionInv(c, s, A, H, K, F, store, n, mode),
         Placed("client", c, n), Placed("client", d, n), ~Dead(c),
         NEW m \in K, m.ticket # <<>>, Takes(c, d, m)
  PROVE  SessionInv(d, s, A, H, {}, F, store, n, mode)
<1> USE DEF Takes
<1>1. /\ AskedOK(c, A, H, K) /\ AnswerOK(c, s, H, K) /\ HellosOK(c, s, H, store, mode)
      /\ SameHandshake(c, s) /\ TicketToCome(c, s, K) /\ TicketsOK(c, H, K)
      /\ CacheIds(store, n, mode) /\ Kept(c, n, store) /\ Made(c, n, store) /\ ServerOwn(s) /\ Told(c, F)
  BY DEF SessionInv, Linked
<1>2. /\ c.hs \in Last /\ d.hs \in Last /\ Answered("client", c) /\ Answered("client", d)
      /\ c.hs # <<"recv", "FINISHED">> /\ (Waiting("client", d) <=> Waiting("client", c))
  BY LastFacts
<1>3. c.hs \notin Greeting("client") /\ d.hs \notin Greeting("client")
  BY <1>2 DEF Placed
<1>4. m.ticket[1] = (IF c.isResume THEN c.session.master ELSE c.master)
  BY <1>1, <1>3 DEF TicketsOK, TicketIs
<1>5. A = {} /\ H = {} /\ s.hs \notin Greeting("server") /\ ~BeforeTicket(s)
  BY <1>1, <1>3 DEF AskedOK, AnswerOK, HellosOK, HelloIs, Asks, TicketToCome
<1>6. Kept(d, n, store)
  <2>1. c.isResume => c.session.id # NoId
    BY <1>1, <1>2 DEF Made
  <2> QED
    BY <1>1, <1>4, <2>1 DEF Kept
<1>7. Made(d, n, store)
  <2>1. c.ticket = <<>>
    BY <1>1, <1>2 DEF Made
  <2> QED
    BY <1>1, <1>2, <1>3, <1>4, <2>1 DEF Made
<1>8. Told(d, F)
  BY <1>1, <1>2 DEF Told
<1>9. SameHandshake(d, s)
  BY <1>1, <1>2 DEF SameHandshake
<1>10. Linked(d, s, A, H, {}, store, mode)
  BY <1>5, <1>9 DEF Linked, AskedOK, AnswerOK, HellosOK, TicketToCome, TicketsOK
<1> QED
  BY <1>1, <1>6, <1>7, <1>8, <1>10 DEF SessionInv

-----------------------------------------------------------------------------
(* Finished.                                                                 *)

(* The client of a full handshake sends x, its Finished.                     *)
LEMMA ClientFinishes ==
  ASSUME NEW c, NEW d, NEW s, NEW A, NEW H, NEW K, NEW F, NEW store, NEW n \in Nat, NEW mode,
         SessionInv(c, s, A, H, K, F, store, n, mode),
         Placed("client", c, n), Placed("client", d, n), Placed("server", s, n), ~Dead(c),
         c.hs = <<"send", "FINISHED">>, ~c.isResume, Same(c, d), d.master = c.master,
         d.hs = <<"recv", IF c.isTicket THEN "NEW_SESSION_TICKET" ELSE "FINISHED">>,
         NEW x, x.verify[2] = c.master,
         s.hs \in Ticket("server") /\ ~s.isResume => Dead(c) \/ Waiting("client", c)
  PROVE  SessionInv(d, s, A, H, K, F \cup {x}, store, n, mode)
<1>0. /\ d.clientRandom = c.clientRandom /\ d.serverRandom = c.serverRandom /\ d.id = c.id
      /\ d.isResume = c.isResume /\ d.isTicket = c.isTicket
      /\ d.session = c.session /\ d.ticket = c.ticket /\ (Dead(d) <=> Dead(c))
  BY DEF Same, Dead
<1>1. /\ AskedOK(c, A, H, K) /\ AnswerOK(c, s, H, K) /\ HellosOK(c, s, H, store, mode)
      /\ SameHandshake(c, s) /\ TicketToCome(c, s, K) /\ TicketsOK(c, H, K)
      /\ CacheIds(store, n, mode) /\ Kept(c, n, store) /\ Made(c, n, store) /\ ServerOwn(s) /\ Told(c, F)
  BY DEF SessionInv, Linked
<1>2. c.hs \notin Last /\ Answered("client", c) /\ d.hs \in Last /\ Answered("client", d)
  BY LastFacts DEF Last, Answered, Keyed, Changing
<1>3. /\ c.hs \notin Greeting("client") /\ d.hs \notin Greeting("client")
      /\ ~Waiting("client", c) /\ Waiting("client", d)
      /\ c.hs # <<"recv", "NEW_SESSION_TICKET">> /\ c.hs # <<"recv", "FINISHED">>
  BY <1>0, <1>2, LastFacts DEF Placed
<1>4. A = {} /\ H = {} /\ K = {} /\ s.hs \notin Greeting("server")
  <2>1. A = {} /\ s.hs \notin Greeting("server") /\ H = {}
    BY <1>1, <1>3 DEF AskedOK, AnswerOK, Asks, HellosOK, HelloIs
  <2>2. K = {}
    BY <1>1, <1>3 DEF TicketsOK, TicketIs
  <2> QED
    BY <2>1, <2>2
<1>5. Kept(d, n, store)
  BY <1>0, <1>1 DEF Kept
<1>6. Made(d, n, store)
  BY <1>0, <1>1, <1>2, <1>3 DEF Made
<1>7. Told(d, F \cup {x})
  BY <1>0, <1>1, <1>3 DEF Told
<1>8. SameHandshake(d, s)
  BY <1>0, <1>1, <1>2 DEF SameHandshake
<1>9. TicketToCome(d, s, K)
  <2> SUFFICES ASSUME BeforeTicket(s)
               PROVE  /\ d.clientRandom = s.clientRandom /\ K = {} /\ ~s.isResume
                      /\ d.hs = <<"recv", "FINISHED">> => ~d.isTicket
                      /\ ~(s.hs \in Ticket("server"))
    BY DEF TicketToCome
  <2>1. c.clientRandom = s.clientRandom /\ (s.isResume => c.hs = <<"recv", "NEW_SESSION_TICKET">>)
    BY <1>1, <1>2 DEF TicketToCome
  <2>2. ~s.isResume
    BY <1>3, <2>1
  <2> QED
    BY <1>0, <1>3, <1>4, <2>1, <2>2
<1>10. Linked(d, s, A, H, K, store, mode)
  BY <1>4, <1>8, <1>9 DEF Linked, AskedOK, AnswerOK, HellosOK, TicketsOK
<1> QED
  BY <1>1, <1>5, <1>6, <1>7, <1>10 DEF SessionInv

(* The server of a full handshake has read it: t holds the new session, which*)
(* may go into the cache.                                                    *)
LEMMA ServerStores ==
  ASSUME NEW c, NEW s, NEW t, NEW A, NEW H, NEW K, NEW F, NEW store, NEW n \in Nat, NEW mode,
         SessionInv(c, s, A, H, K, F, store, n, mode),
         Placed("client", c, n), Placed("server", s, n), Placed("server", t, n),
         s.hs = <<"recv", "FINISHED">>, ~s.isResume,
         NEW x \in F, Full(x.verify), ClientOf(x.verify) = s.clientRandom, x.verify[2] = s.master,
         t.clientRandom = s.clientRandom, t.serverRandom = s.serverRandom, t.id = s.id,
         t.isResume = s.isResume, t.isTicket = s.isTicket,
         t.session.master = s.master, t.session.id = (IF s.isTicket THEN NoId ELSE s.id),
         t.hs = <<"send", IF s.isTicket THEN "NEW_SESSION_TICKET" ELSE "CHANGE_CIPHER_SPEC">>,
         NEW new, new = (IF t.session.id # NoId /\ mode = "server"
                         THEN WithSession(store, t.session) ELSE store)
  PROVE  SessionInv(c, t, A, H, K, F, new, n, mode)
<1>1. /\ CacheIds(store, n, mode) /\ Kept(c, n, store) /\ Made(c, n, store) /\ ServerOwn(s) /\ Told(c, F)
  BY DEF SessionInv
<1>2. Answered("server", s) /\ Answered("server", t) /\ BeforeTicket(s)
  BY DEF Answered, Keyed, Ticket, Changing, BeforeTicket
<1>3. /\ t.hs \notin Greeting("server") /\ s.serverRandom \in 1 .. n
      /\ BeforeTicket(t) => t.hs = <<"send", "NEW_SESSION_TICKET">> /\ s.isTicket
  <2>1. t.hs \notin Greeting("server") /\ s.serverRandom \in 1 .. n
    BY <1>2 DEF Placed
  <2>2. ~s.isTicket => ~BeforeTicket(t)
    BY DEF BeforeTicket, Flight, Verify, Ticket
  <2> QED
    BY <2>1, <2>2
<1> DEFINE id == <<"server", s.serverRandom>>
<1>4. \/ new = store
      \/ /\ mode = "server" /\ ~s.isTicket /\ s.id = id /\ id # NoId
         /\ DOMAIN new = DOMAIN store \cup {id}
         /\ new[id].master = s.master /\ \A i \in DOMAIN store : i # id => new[i] = store[i]
  <2> SUFFICES ASSUME t.session.id # NoId, mode = "server"
               PROVE  /\ mode = "server" /\ ~s.isTicket /\ s.id = id /\ id # NoId
                      /\ DOMAIN new = DOMAIN store \cup {id}
                      /\ new[id].master = s.master /\ \A i \in DOMAIN store : i # id => new[i] = store[i]
    OBVIOUS
  <2>1. ~s.isTicket /\ s.id = id /\ t.session.id = id /\ id # NoId
    BY <1>1, <1>2 DEF ServerOwn
  <2>2. new = [i \in DOMAIN store \cup {id} |-> IF i = id THEN t.session ELSE store[i]]
    BY <2>1 DEF WithSession
  <2> QED
    BY <2>1, <2>2
<1> HIDE DEF id
<1>5. CacheIds(new, n, mode)
  BY <1>1, <1>3, <1>4 DEF CacheIds, id
<1>6. ServerOwn(t)
  BY <1>1, <1>2 DEF ServerOwn
<1>7. CASE Dead(c)
  <2>1. c.session = NoSession /\ ~Answered("client", c) /\ c.hs \notin Greeting("client")
    BY <1>1, <1>7 DEF Kept, Placed
  <2>2. Kept(c, n, new)
    BY <1>1, <1>4, <2>1, NoSessionFacts DEF Kept
  <2>3. Made(c, n, new)
    BY <1>1, <2>1 DEF Made
  <2> QED
    BY <1>1, <1>5, <1>6, <1>7, <2>2, <2>3 DEF SessionInv, Linked
<1>8. CASE ~Dead(c)
  <2>1. /\ AskedOK(c, A, H, K) /\ AnswerOK(c, s, H, K) /\ HellosOK(c, s, H, store, mode)
        /\ SameHandshake(c, s) /\ TicketToCome(c, s, K) /\ TicketsOK(c, H, K)
    BY <1>8 DEF SessionInv, Linked
  <2>2. /\ c.clientRandom = s.clientRandom /\ K = {}
        /\ ~c.isResume /\ c.hs = <<"recv", "FINISHED">> => ~c.isTicket
    BY <1>2, <2>1 DEF TicketToCome
  <2>3. Waiting("client", c) /\ c.master = s.master
    BY <1>1, <2>2 DEF Told
  <2>4. /\ Answered("client", c) /\ ~c.isResume /\ c.hs \notin Greeting("client")
    BY <2>3, LastFacts DEF Placed
  <2>5. c.serverRandom = s.serverRandom /\ c.isTicket = s.isTicket
    BY <2>1, <2>2, <2>4 DEF SameHandshake
  <2>6. c.session.id # id
    BY <1>1, <2>4, <2>5 DEF Made, id
  <2>7. Kept(c, n, new)
    BY <1>1, <1>4, <2>6 DEF Kept
  <2>8. Made(c, n, new)
    BY <1>1, <1>4, <2>3, <2>4 DEF Made
  <2>9. A = {} /\ H = {}
    BY <2>1, <2>4 DEF AskedOK, HellosOK, HelloIs, Asks
  <2>10. SameHandshake(c, t)
    BY <2>1 DEF SameHandshake
  <2>11. TicketToCome(c, t, K)
    BY <1>3, <2>2, <2>3, <2>4 DEF TicketToCome
  <2>12. Linked(c, t, A, H, K, new, mode)
    BY <1>3, <2>1, <2>9, <2>10, <2>11 DEF Linked, AskedOK, AnswerOK, HellosOK
  <2> QED
    BY <1>1, <1>5, <1>6, <2>7, <2>8, <2>12 DEF SessionInv
<1> QED
  BY <1>7, <1>8

-----------------------------------------------------------------------------
(* The actions that say a hello, send a ticket or finish.                    *)

(* What a message does to the wires.                                         *)
LEMMA Sent ==
  ASSUME Shape, NEW p \in Ends, NEW m, NEW f, Send(p, m, f)
  PROVE  /\ end'[p] = f /\ end'[Peer(p)] = end[Peer(p)]
         /\ p = "client" =>
              /\ Asked' = Asked \cup (IF m.type = "CLIENT_HELLO" THEN {m} ELSE {})
              /\ Finals' = Finals \cup (IF m.type = "FINISHED" THEN {m} ELSE {})
              /\ Answers' = Answers /\ Tickets' = Tickets
              /\ wire'["client"] = wire["client"]
         /\ p = "server" =>
              /\ Answers' = Answers \cup (IF m.type = "SERVER_HELLO" THEN {m} ELSE {})
              /\ Tickets' = Tickets \cup (IF m.type = "NEW_SESSION_TICKET" THEN {m} ELSE {})
              /\ Asked' = Asked /\ Finals' = Finals
              /\ wire'["client"] = Append(wire["client"], Record("server", m))
<1>1. /\ end'[p] = f /\ end'[Peer(p)] = end[Peer(p)]
      /\ Msgs'[p] = Msgs[p] /\ Msgs'[Peer(p)] = Msgs[Peer(p)] \cup {m}
  BY SendFacts
<1>2. wire'[Peer(p)] = Append(wire[Peer(p)], Record(p, m)) /\ wire'[p] = wire[p]
  BY PeerFacts DEF Send, Shape
<1>3. Peer("client") = "server" /\ Peer("server") = "client"
  BY DEF Peer
<1>4. /\ Asked = {x \in Msgs["server"] : x.type = "CLIENT_HELLO"}
      /\ Answers = {x \in Msgs["client"] : x.type = "SERVER_HELLO"}
      /\ Tickets = {x \in Msgs["client"] : x.type = "NEW_SESSION_TICKET"}
      /\ Finals = {x \in Msgs["server"] : x.type = "FINISHED"}
      /\ Asked' = {x \in Msgs'["server"] : x.type = "CLIENT_HELLO"}
      /\ Answers' = {x \in Msgs'["client"] : x.type = "SERVER_HELLO"}
      /\ Tickets' = {x \in Msgs'["client"] : x.type = "NEW_SESSION_TICKET"}
      /\ Finals' = {x \in Msgs'["server"] : x.type = "FINISHED"}
  BY DEF Asked, Answers, Tickets, Finals, Of
<1>5. CASE p = "client"
  BY <1>1, <1>2, <1>3, <1>4, <1>5
<1>6. CASE p = "server"
  BY <1>1, <1>2, <1>3, <1>4, <1>6
<1> QED
  BY <1>1, <1>5, <1>6 DEF Ends

(* The client says hello.                                                    *)
LEMMA SSendClientHello ==
  ASSUME HInv, HInv', SInv, SendClientHello
  PROVE  SInv'
<1> DEFINE c == end["client"]
           s == end["server"]
           n == count.random
<1>0. /\ "client" \in Ends /\ "server" \in Ends /\ n \in Nat /\ Peer("client") = "server"
      /\ Placed("client", c, n) /\ Placed("server", s, n) /\ IsEnd(c)
      /\ \A m \in Finals : ClientOf(m.verify) \in 1 .. n
  BY PlacedBefore DEF Peer
<1>1. PICK x \in ClientPrepareSession(end["client"]) :
        LET e == [c EXCEPT !.session = x, !.id = x.id, !.transcript = <<>>, !.clientRandom = n + 1]
            m == [type |-> "CLIENT_HELLO", random |-> e.clientRandom, id |-> x.id,
                  hasTicket |-> config.ticketC,
                  ticket |-> IF config.ticketC THEN x.ticket ELSE <<>>,
                  renegoInfo |-> ClientRenegoInfo(e)]
        IN Send("client", m, GoTo(VERIFY_Append(e, m), "recv", "SERVER_HELLO"))
  BY DEF SendClientHello
<1>2. c.hs = <<"send", "CLIENT_HELLO">> /\ NextRandom /\ UNCHANGED <<config, cache, past>>
  BY DEF SendClientHello, Sends
<1> DEFINE e == [c EXCEPT !.session = x, !.id = x.id, !.transcript = <<>>, !.clientRandom = n + 1]
           m == [type |-> "CLIENT_HELLO", random |-> e.clientRandom, id |-> x.id,
                 hasTicket |-> config.ticketC,
                 ticket |-> IF config.ticketC THEN x.ticket ELSE <<>>,
                 renegoInfo |-> ClientRenegoInfo(e)]
           d == GoTo(VERIFY_Append(e, m), "recv", "SERVER_HELLO")
<1>3. Send("client", m, d)
  BY <1>1
<1>4. /\ IsEnd(e) /\ e.session = x /\ e.id = x.id /\ e.clientRandom = n + 1 /\ e.ticket = c.ticket
  BY <1>0 DEF IsEnd, EndFields
<1>5. x \in {c.session, NoSession}
  BY DEF ClientPrepareSession
<1>6. /\ m.type = "CLIENT_HELLO" /\ m.random = n + 1 /\ m.id = x.id /\ m.ticket \in {<<>>, x.ticket}
  BY <1>4
<1> HIDE DEF e, m
<1>7. Same(e, d) /\ d.hs = <<"recv", "SERVER_HELLO">>
  <2>1. Still(e, e)
    BY <1>4, StillFields
  <2> QED
    BY <2>1, AppendGoTo DEF Still
<1> HIDE DEF d
<1>8. /\ d.clientRandom = n + 1 /\ d.session = x /\ d.id = x.id /\ d.ticket = c.ticket
      /\ d.hs \in Greeting("client")
  BY <1>4, <1>7 DEF Same, Greeting
<1>9. /\ end'["client"] = d /\ end'["server"] = s /\ wire'["client"] = wire["client"]
      /\ Asked' = Asked \cup {m} /\ Finals' = Finals /\ Answers' = Answers /\ Tickets' = Tickets
  <2>1. Shape
    BY DEF HInv
  <2> QED
    BY ZenonT(30), <1>0, <1>3, <1>6, <2>1, Sent
<1>10. count'.random = n + 1
  BY <1>2 DEF NextRandom, HInv, Shape
<1>11. Placed("client", d, n + 1)
  BY <1>0, <1>9, <1>10, PlacedAfter
<1>12. c.hs \in Outside("client") /\ ~Dead(c)
  <2>1. Typed("client", c)
    BY <1>0, Basics
  <2> QED
    BY <1>2, <2>1 DEF Outside, Typed, Dead
<1>13. SessionInv(c, s, Asked, Answers, Tickets, Finals, cache, n, config.cacheMode)
       /\ OneEach(wire["client"])
  BY <1>12 DEF SInv
<1> HIDE DEF c, s, n
<1>14. SessionInv(d, s, Asked \cup {m}, Answers, Tickets, Finals, cache, n + 1, config.cacheMode)
  BY <1>0, <1>5, <1>6, <1>8, <1>11, <1>12, <1>13, ClientAsks
<1> QED
  BY <1>2, <1>9, <1>10, <1>13, <1>14 DEF SInv

(* The server hears it.                                                      *)
LEMMA SRecvClientHello ==
  ASSUME HInv, HInv', SInv, RecvClientHello
  PROVE  SInv'
<1> DEFINE c == end["client"]
           s == end["server"]
           m == First("server")
           g == Got("server")
           n == count.random
           v == CheckRenegotiate(g)
           e == [v EXCEPT !.clientRandom = m.random]
<1>0. /\ "server" \in Ends /\ n \in Nat /\ Peer("server") = "client" /\ Placed("client", c, n)
  BY PlacedBefore DEF Peer
<1>1. Receives("server", "CLIENT_HELLO")
  BY DEF RecvClientHello
<1>2. /\ Reading("server") /\ m.type = "CLIENT_HELLO" /\ m \in Msgs["server"] /\ IsEnd(g)
  BY <1>1, ReceivedHello
<1>3. CASE Fail("server")
  BY <1>0, <1>3, SFail
<1>4. CASE ~Fail("server")
  <2> PICK r \in Resumptions(e, m) :
        /\ Consume("server", GoTo(
                    [e EXCEPT !.isResume = (r.session # NoSession), !.isTicket = r.isTicket,
                              !.session = IF r.session # NoSession THEN r.session ELSE @],
                    "send", "SERVER_HELLO"))
        /\ cache' = WithoutId(cache, r.gone)
    BY <1>4 DEF RecvClientHello
  <2> DEFINE d == [e EXCEPT !.isResume = (r.session # NoSession), !.isTicket = r.isTicket,
                            !.session = IF r.session # NoSession THEN r.session ELSE @]
             t == GoTo(d, "send", "SERVER_HELLO")
  <2>1. Consume("server", t) /\ cache' = WithoutId(cache, r.gone)
    OBVIOUS
  <2>2. config' = config /\ count' = count
    BY <1>4 DEF RecvClientHello
  <2>3. r.session # NoSession =>
          \/ m.ticket # <<>> /\ r.session.id = m.id /\ r.session.master = m.ticket[1]
          \/ m.id \in DOMAIN cache /\ r.session = cache[m.id]
    BY ResumptionFacts
  <2>4. m \in Asked
    BY <1>2 DEF Asked, Of
  <2> HIDE DEF m, g
  <2>5. IsEnd(v)
    BY <1>2 DEF CheckRenegotiate, IsEnd, EndFields
  <2> HIDE DEF v
  <2>6. IsEnd(e) /\ e.clientRandom = m.random
    BY <2>5 DEF IsEnd, EndFields
  <2> HIDE DEF e
  <2>7. /\ IsEnd(d) /\ d.clientRandom = m.random /\ d.isResume = (r.session # NoSession)
        /\ r.session # NoSession => d.session = r.session
    BY <2>6 DEF IsEnd, EndFields
  <2> HIDE DEF d
  <2>8. Same(d, t) /\ t.hs = <<"send", "SERVER_HELLO">>
    BY <2>7, SameFields
  <2> HIDE DEF t
  <2>9. /\ t.clientRandom = m.random /\ t.hs \in Greeting("server")
        /\ t.isResume => \/ /\ t.session.id = m.id /\ m.ticket # <<>>
                            /\ t.session.master = m.ticket[1]
                         \/ m.id \in DOMAIN cache /\ t.session = cache[m.id]
    BY <2>3, <2>7, <2>8 DEF Same, Greeting
  <2>10. WireKept /\ end'["server"] = t /\ end'["client"] = c
    BY <1>0, <1>2, <2>1, ConsumeQuiet, ConsumeFacts DEF HInv
  <2>11. Placed("server", t, n)
    BY <1>0, <2>2, <2>10, PlacedAfter
  <2>12. /\ SessionInv(c, s, Asked, Answers, Tickets, Finals, cache, n, config.cacheMode)
         /\ \A id \in DOMAIN cache : cache[id].id = id
    BY DEF SInv, HInv, Shape
  <2>13. Shrunk(cache', cache) /\ count'.random = n /\ n <= n
    BY <1>0, <2>1, <2>2, WithoutFacts DEF Shrunk
  <2> HIDE DEF c, s, n
  <2>14. SessionInv(c, t, Asked, Answers, Tickets, Finals, cache, n, config.cacheMode)
    BY <1>0, <2>4, <2>9, <2>11, <2>12, ServerAsked
  <2>15. SessionInv(c, t, Asked', Answers', Tickets', Finals', cache', n, config.cacheMode)
    BY <1>0, <2>10, <2>13, <2>14, Shrinks DEF WireKept
  <2> QED
    BY <2>2, <2>10, <2>13, <2>15 DEF SInv, WireKept, c
<1> QED
  BY <1>3, <1>4

(* The keys of a resumption come from the session.                           *)
LEMMA ResumeSame ==
  ASSUME NEW e, IsEnd(e)
  PROVE  /\ Same(e, HS_ResumeKeyEstablish(e)) /\ HS_ResumeKeyEstablish(e).hs = e.hs
         /\ HS_ResumeKeyEstablish(e).master = e.session.master
<1> DEFINE b == [e EXCEPT !.master = e.session.master]
<1>1. IsEnd(b) /\ Same(e, b) /\ b.hs = e.hs /\ b.master = e.session.master
  BY DEF IsEnd, EndFields, Same
<1>2. HS_ResumeKeyEstablish(e) = HS_KeyEstablish(b)
  BY DEF HS_ResumeKeyEstablish
<1> HIDE DEF b
<1>3. Still(b, HS_KeyEstablish(b))
  BY <1>1, StillFields
<1> QED
  BY <1>1, <1>2, <1>3, SameTrans DEF Still

(* The server says hello: no other ServerHello is on the way.                *)
LEMMA SSendServerHello ==
  ASSUME HInv, HInv', SInv, SendServerHello
  PROVE  SInv'
<1> DEFINE c == end["client"]
           s == end["server"]
           n == count.random
           e == [s EXCEPT !.serverRandom = count.random + 1, !.id = ServerPrepareSessionId(s)]
           m == [type |-> "SERVER_HELLO", random |-> e.serverRandom, id |-> e.id,
                 hasTicket |-> e.isTicket, renegoInfo |-> ServerRenegoInfo(e)]
           v == VERIFY_Append(e, m)
           x == IF e.isTicket THEN "NEW_SESSION_TICKET" ELSE "CHANGE_CIPHER_SPEC"
           u == IF NeedCertificate THEN "CERTIFICATE"
                ELSE IF config.hint THEN "SERVER_KEY_EXCHANGE" ELSE "SERVER_HELLO_DONE"
           t == IF e.isResume THEN GoTo(HS_ResumeKeyEstablish(v), "send", x) ELSE GoTo(v, "send", u)
<1>0. /\ "client" \in Ends /\ "server" \in Ends /\ n \in Nat /\ Peer("server") = "client"
      /\ Placed("client", c, n) /\ Placed("server", s, n) /\ IsEnd(s)
  BY PlacedBefore DEF Peer
<1>1. /\ s.hs = <<"send", "SERVER_HELLO">> /\ config' = config /\ cache' = cache
      /\ NextRandom /\ Send("server", m, t)
  BY DEF SendServerHello, Sends
<1>2. count'.random = n + 1
  BY <1>1 DEF NextRandom, HInv, Shape
<1>3. <<"send", u>> \in Flight("server")
  BY DEF Flight
<1>4. /\ IsEnd(e) /\ e.clientRandom = s.clientRandom /\ e.serverRandom = n + 1
      /\ e.isResume = s.isResume /\ e.isTicket = s.isTicket /\ e.session = s.session
      /\ e.id = (IF s.isResume THEN s.session.id
                 ELSE IF config.cacheMode = "server" /\ ~s.isTicket THEN <<"server", n + 1>> ELSE NoId)
  BY <1>0 DEF IsEnd, EndFields, ServerPrepareSessionId
<1> HIDE DEF e, u
<1>5. m.type = "SERVER_HELLO" /\ m.random = n + 1 /\ m.id = e.id /\ m.hasTicket = s.isTicket
  BY <1>4
<1> HIDE DEF m
<1>6. Same(e, v)
  BY <1>4, StillFields DEF Still
<1> HIDE DEF v
<1>7. /\ Same(e, t)
      /\ t.hs = (IF s.isResume THEN <<"send", x>> ELSE <<"send", u>>)
  <2> DEFINE k == HS_ResumeKeyEstablish(v)
  <2>1. IsEnd(v) /\ Same(v, k)
    BY <1>6, ResumeSame DEF Same
  <2> HIDE DEF k
  <2>2. IsEnd(k)
    BY <2>1 DEF Same
  <2>3. /\ Same(k, GoTo(k, "send", x)) /\ GoTo(k, "send", x).hs = <<"send", x>>
        /\ Same(v, GoTo(v, "send", u)) /\ GoTo(v, "send", u).hs = <<"send", u>>
    BY <2>1, <2>2, SameFields
  <2>4. t = (IF s.isResume THEN GoTo(k, "send", x) ELSE GoTo(v, "send", u))
    BY <1>4 DEF k
  <2> HIDE DEF t, x
  <2> QED
    BY <1>6, <2>1, <2>3, <2>4, SameTrans
<1>8. x = IF s.isTicket THEN "NEW_SESSION_TICKET" ELSE "CHANGE_CIPHER_SPEC"
  BY <1>4
<1> HIDE DEF t, x
<1>9. /\ end'["server"] = t /\ end'["client"] = c /\ Asked' = Asked /\ Finals' = Finals
      /\ Answers' = Answers \cup {m} /\ Tickets' = Tickets
      /\ wire'["client"] = Append(wire["client"], Record("server", m))
  <2>1. Shape
    BY DEF HInv
  <2> QED
    BY ZenonT(30), <1>0, <1>1, <1>5, <2>1, Sent
<1>10. Placed("server", t, n + 1)
  BY <1>0, <1>2, <1>9, PlacedAfter
<1>11. \A y \in Asked : s.clientRandom < y.random
  BY <1>0, Basics DEF Asked, Of, ToServer, HelloOK
<1>12. SessionInv(c, s, Asked, Answers, Tickets, Finals, cache, n, config.cacheMode)
  BY DEF SInv
<1>13. s.hs \in Greeting("server")
  BY <1>1 DEF Greeting
<1>14. IsSeq(wire["client"]) /\ Record("server", m).msg = m
  BY <1>0 DEF HInv, Shape, Record
<1>15. \A i \in DOMAIN wire["client"] : wire["client"][i].msg \in Msgs["client"]
  BY <1>0 DEF Msgs
<1> HIDE DEF c, s, n
<1>16. /\ t.clientRandom = s.clientRandom /\ t.serverRandom = n + 1
       /\ t.isResume = s.isResume /\ t.isTicket = s.isTicket /\ t.session = s.session
       /\ t.id = (IF s.isResume THEN s.session.id
                  ELSE IF config.cacheMode = "server" /\ ~s.isTicket THEN <<"server", n + 1>> ELSE NoId)
       /\ m.id = t.id
  BY <1>4, <1>5, <1>7 DEF Same
<1>17. /\ SessionInv(c, t, Asked, Answers \cup {m}, Tickets, Finals, cache, n + 1, config.cacheMode)
       /\ Dead(c) \/ (Answers = {} /\ Tickets = {})
  <2> DEFINE mode == config.cacheMode
             k == n + 1
  <2>1. SessionInv(c, s, Asked, Answers, Tickets, Finals, cache, n, mode)
    BY <1>12
  <2>2. Replies(s, t, m, k, mode)
    BY <1>3, <1>5, <1>7, <1>8, <1>16 DEF Replies
  <2>3. /\ n \in Nat /\ k \in Nat /\ k = n + 1
        /\ Placed("client", c, n) /\ Placed("server", s, n) /\ Placed("server", t, k)
    BY <1>0, <1>10
  <2> HIDE DEF mode, k
  <2>4. /\ SessionInv(c, t, Asked, Answers \cup {m}, Tickets, Finals, cache, k, mode)
        /\ Dead(c) \/ (Answers = {} /\ Tickets = {})
    BY <1>11, <1>13, <2>1, <2>2, <2>3, ServerAnswers
  <2> QED
    BY <2>4 DEF mode, k
<1>18. Dead(c) \/ OneEach(wire'["client"])
  <2> SUFFICES ASSUME ~Dead(c)
               PROVE  OneEach(wire'["client"])
    OBVIOUS
  <2>1. \A i \in DOMAIN wire["client"] : wire["client"][i].msg.type # "SERVER_HELLO"
    BY <1>15, <1>17 DEF Answers, Of
  <2>2. OneEach(wire["client"])
    BY DEF SInv, c
  <2>3. Sole(wire'["client"], "SERVER_HELLO")
    BY <1>9, <1>14, <2>1, SoleAppend
  <2>4. Sole(wire'["client"], "NEW_SESSION_TICKET")
    BY <1>5, <1>9, <1>14, <2>2, SoleAppend DEF OneEach
  <2> QED
    BY <2>3, <2>4 DEF OneEach
<1> QED
  BY <1>1, <1>2, <1>9, <1>17, <1>18 DEF SInv

(* The client reads the only message of its type.                            *)
LEMMA ReadsOne ==
  ASSUME Shape, NEW type \in {"SERVER_HELLO", "NEW_SESSION_TICKET"}, NEW f,
         Reading("client"), Consume("client", f), OneEach(wire["client"]),
         First("client").type = type
  PROVE  {x \in Msgs'["client"] : x.type = type} = {}
<1>1. "client" \in Ends
  BY DEF Ends
<1>2. IsSeq(wire["client"]) /\ wire["client"] # <<>> /\ wire'["client"] = Tail(wire["client"])
  BY <1>1 DEF Shape, Reading, Consume
<1>3. Sole(wire["client"], type)
  BY DEF OneEach
<1>4. Head(wire["client"]).msg.type = type
  BY DEF First
<1>5. \A i \in DOMAIN Tail(wire["client"]) : Tail(wire["client"])[i].msg.type # type
  BY <1>2, <1>3, <1>4, QuieterTail
<1>6. Msgs'["client"] = {wire'["client"][i].msg : i \in DOMAIN wire'["client"]}
  BY <1>1 DEF Msgs
<1> QED
  BY <1>2, <1>5, <1>6

(* The client hears the answer.                                              *)
LEMMA SRecvServerHello ==
  ASSUME HInv, HInv', SInv, RecvServerHello
  PROVE  SInv'
<1> DEFINE c == end["client"]
           s == end["server"]
           m == First("client")
           n == count.random
           resumed == c.session # NoSession /\ m.id # NoId /\ m.id = c.id
           g == Got("client")
           e == [g EXCEPT !.serverRandom = m.random, !.version = TRUE,
                          !.isResume = resumed, !.isTicket = m.hasTicket]
           k == HS_ResumeKeyEstablish(e)
           b == ClientCopySessionId(e, m)
           a == CcsExitReady(b)
           t == IF NeedCertificate THEN "CERTIFICATE" ELSE "SERVER_KEY_EXCHANGE"
           d == IF ~resumed THEN GoTo(a, "recv", t)
                ELSE IF m.hasTicket THEN GoTo(k, "recv", "NEW_SESSION_TICKET")
                ELSE AwaitFinished(k, "server")
<1>0. /\ "client" \in Ends /\ "server" \in Ends /\ n \in Nat /\ Peer("client") = "server"
      /\ Placed("client", c, n) /\ Placed("server", s, n)
      /\ s.hs \in Ticket("server") /\ ~s.isResume => Dead(c) \/ Waiting("client", c)
  BY PlacedBefore DEF Peer
<1>1. Receives("client", "SERVER_HELLO")
  BY DEF RecvServerHello
<1>2. /\ Reading("client") /\ m.type = "SERVER_HELLO" /\ m \in Msgs["client"]
      /\ c.hs = <<"recv", "SERVER_HELLO">> /\ c.state # "ALERTED"
      /\ Still(c, g) /\ IsEnd(g)
  BY <1>0, <1>1, ReceivedFacts, GotFields
<1>3. CASE Fail("client")
  BY <1>0, <1>3, SFail
<1>4. CASE ~Fail("client")
  <2>1. Consume("client", d) /\ Quiet
    BY <1>4 DEF RecvServerHello
  <2>2. m.random \in 1 .. n /\ m \in Answers
    BY <1>0, <1>2, Basics DEF ToClient, Answers, Of
  <2>3. t \in {"CERTIFICATE", "SERVER_KEY_EXCHANGE"} /\ resumed \in BOOLEAN
    OBVIOUS
  <2>4. resumed <=> c.session # NoSession /\ m.id # NoId /\ m.id = c.id
    OBVIOUS
  <2> HIDE DEF m, resumed, g, t
  <2>5. /\ IsEnd(e) /\ e.clientRandom = c.clientRandom /\ e.serverRandom = m.random /\ e.id = c.id
        /\ e.isResume = resumed /\ e.isTicket = m.hasTicket
        /\ e.session = c.session /\ e.ticket = c.ticket
    BY <1>2 DEF Still, Same, IsEnd, EndFields
  <2> HIDE DEF e
  <2>6. Same(e, k)
    BY <2>5, ResumeSame
  <2> HIDE DEF k
  <2>7. /\ IsEnd(b) /\ b.clientRandom = c.clientRandom /\ b.serverRandom = m.random
        /\ b.id = (IF m.id # NoId THEN m.id ELSE c.id)
        /\ b.isResume = resumed /\ b.isTicket = m.hasTicket
        /\ b.session = c.session /\ b.ticket = c.ticket
    BY <2>5 DEF ClientCopySessionId, IsEnd, EndFields
  <2> HIDE DEF b
  <2>8. Same(b, a)
    BY <2>7, StillFields DEF Still
  <2> HIDE DEF a
  <2>9. /\ Same(a, GoTo(a, "recv", t)) /\ GoTo(a, "recv", t).hs = <<"recv", t>>
        /\ Same(k, GoTo(k, "recv", "NEW_SESSION_TICKET"))
        /\ GoTo(k, "recv", "NEW_SESSION_TICKET").hs = <<"recv", "NEW_SESSION_TICKET">>
        /\ Same(k, AwaitFinished(k, "server")) /\ AwaitFinished(k, "server").hs = <<"recv", "FINISHED">>
    BY <2>6, <2>8, SameFields DEF Same
  <2>10. /\ ~resumed => Same(b, d) /\ d.hs = <<"recv", t>>
         /\ resumed => /\ Same(e, d)
                       /\ d.hs = <<"recv", IF m.hasTicket THEN "NEW_SESSION_TICKET" ELSE "FINISHED">>
    BY <2>6, <2>8, <2>9, SameTrans
  <2> HIDE DEF d
  <2>11. Learns(c, d, m, resumed)
    <3>1. <<"recv", t>> \in Flight("client")
      BY <2>3 DEF Flight
    <3> QED
      BY <2>3, <2>4, <2>5, <2>7, <2>10, <3>1 DEF Learns, Same
  <2>12. WireKept /\ end'["client"] = d /\ end'["server"] = s
    BY <1>0, <1>2, <2>1, ConsumeQuiet, ConsumeFacts DEF HInv
  <2>13. ~Dead(c) /\ c.hs \in Greeting("client")
    BY <1>2 DEF Dead, Greeting
  <2>14. /\ SessionInv(c, s, Asked, Answers, Tickets, Finals, cache, n, config.cacheMode)
         /\ OneEach(wire["client"])
    BY <2>13 DEF SInv
  <2>15. Answers' = {}
    <3>1. Answers' = {x \in Msgs'["client"] : x.type = "SERVER_HELLO"}
      BY DEF Answers, Of
    <3> QED
      BY <1>2, <2>1, <2>14, <3>1, ReadsOne DEF HInv, m
  <2>16. config' = config /\ cache' = cache /\ count' = count
    BY <2>1 DEF Quiet
  <2>17. Placed("client", d, n)
    BY <1>0, <2>12, <2>16, PlacedAfter
  <2> HIDE DEF c, s, n
  <2>18. SessionInv(d, s, Asked, {}, Tickets, Finals, cache, n, config.cacheMode)
    BY <1>0, <2>2, <2>11, <2>13, <2>14, <2>17, ClientAnswered
  <2>19. SessionInv(d, s, Asked', {}, Tickets', Finals', cache, n, config.cacheMode)
    BY <1>0, <2>12, <2>18, Shrinks DEF WireKept, Shrunk
  <2> QED
    BY <2>12, <2>14, <2>15, <2>16, <2>19 DEF SInv, WireKept, n
<1> QED
  BY <1>3, <1>4

(* The server sends its ticket: no other one is on the way.                  *)
LEMMA SSendNewSessionTicket ==
  ASSUME HInv, HInv', SInv, SendNewSessionTicket
  PROVE  SInv'
<1> DEFINE c == end["client"]
           s == end["server"]
           n == count.random
           m == [type |-> "NEW_SESSION_TICKET", ticket |-> <<s.session.master>>]
           t == GoTo(VERIFY_Append(s, m), "send", "CHANGE_CIPHER_SPEC")
<1>0. /\ "client" \in Ends /\ "server" \in Ends /\ n \in Nat /\ Peer("server") = "client"
      /\ Placed("client", c, n) /\ Placed("server", s, n) /\ IsEnd(s)
      /\ s.hs \in Ticket("server") /\ ~s.isResume => Dead(c) \/ Waiting("client", c)
  BY PlacedBefore DEF Peer
<1>1. Send("server", m, t) /\ Quiet /\ s.hs = <<"send", "NEW_SESSION_TICKET">>
  BY DEF SendNewSessionTicket, Sends
<1>2. m.type = "NEW_SESSION_TICKET" /\ m.ticket[1] = s.session.master
  OBVIOUS
<1> HIDE DEF m
<1>3. Same(s, t) /\ t.hs = <<"send", "CHANGE_CIPHER_SPEC">>
  <2>1. Same(s, s)
    BY <1>0, StillFields DEF Still
  <2> QED
    BY <2>1, AppendGoTo
<1> HIDE DEF t
<1>4. /\ end'["server"] = t /\ end'["client"] = c /\ Asked' = Asked /\ Finals' = Finals
      /\ Answers' = Answers /\ Tickets' = Tickets \cup {m}
      /\ wire'["client"] = Append(wire["client"], Record("server", m))
  <2>1. Shape
    BY DEF HInv
  <2> QED
    BY ZenonT(30), <1>0, <1>1, <1>2, <2>1, Sent
<1>5. config' = config /\ cache' = cache /\ count' = count
  BY <1>1 DEF Quiet
<1>6. Placed("server", t, n)
  BY <1>0, <1>4, <1>5, PlacedAfter
<1>7. \A y \in Asked : s.clientRandom < y.random
  BY <1>0, Basics DEF Asked, Of, ToServer, HelloOK
<1>8. KeepsServer(s, t) /\ (~s.isResume => Dead(c) \/ Waiting("client", c))
  <2>1. s.hs \in Ticket("server") /\ Answered("server", s) /\ Answered("server", t)
    BY <1>1, <1>3 DEF Ticket, Answered, Keyed, Changing
  <2>2. ~BeforeTicket(t) /\ t.hs \notin Ticket("server")
    BY <1>3 DEF BeforeTicket, Flight, Verify, Ticket
  <2> QED
    BY <1>0, <1>3, <1>6, <2>1, <2>2 DEF KeepsServer, Same, Placed
<1>9. SessionInv(c, s, Asked, Answers, Tickets, Finals, cache, n, config.cacheMode)
  BY DEF SInv
<1>10. IsSeq(wire["client"]) /\ Record("server", m).msg = m
  BY <1>0 DEF HInv, Shape, Record
<1>11. \A i \in DOMAIN wire["client"] : wire["client"][i].msg \in Msgs["client"]
  BY <1>0 DEF Msgs
<1> HIDE DEF c, s, n
<1>12. /\ SessionInv(c, t, Asked, Answers, Tickets \cup {m}, Finals, cache, n, config.cacheMode)
       /\ Dead(c) \/ Tickets = {}
  BY ZenonT(30), <1>0, <1>1, <1>2, <1>3, <1>6, <1>7, <1>8, <1>9, ServerTickets
<1>13. Dead(c) \/ OneEach(wire'["client"])
  <2> SUFFICES ASSUME ~Dead(c)
               PROVE  OneEach(wire'["client"])
    OBVIOUS
  <2>1. \A i \in DOMAIN wire["client"] : wire["client"][i].msg.type # "NEW_SESSION_TICKET"
    BY <1>11, <1>12 DEF Tickets, Of
  <2>2. OneEach(wire["client"])
    BY DEF SInv, c
  <2>3. Sole(wire'["client"], "NEW_SESSION_TICKET")
    BY <1>4, <1>10, <2>1, SoleAppend
  <2>4. Sole(wire'["client"], "SERVER_HELLO")
    BY <1>2, <1>4, <1>10, <2>2, SoleAppend DEF OneEach
  <2> QED
    BY <2>3, <2>4 DEF OneEach
<1> QED
  BY <1>4, <1>5, <1>12, <1>13 DEF SInv, n

(* The client gets it.                                                       *)
LEMMA SRecvNewSessionTicket ==
  ASSUME HInv, HInv', SInv, RecvNewSessionTicket
  PROVE  SInv'
<1> DEFINE c == end["client"]
           s == end["server"]
           n == count.random
           m == First("client")
           g == Got("client")
           h == IF g.isResume THEN [g EXCEPT !.session.ticket = m.ticket] ELSE [g EXCEPT !.ticket = m.ticket]
           d == AwaitFinished(h, "server")
<1>0. /\ "client" \in Ends /\ "server" \in Ends /\ n \in Nat /\ Peer("client") = "server"
      /\ Placed("client", c, n) /\ Placed("server", s, n)
  BY PlacedBefore DEF Peer
<1>1. Receives("client", "NEW_SESSION_TICKET") /\ Consume("client", d) /\ Quiet
  BY DEF RecvNewSessionTicket
<1>2. /\ Reading("client") /\ m.type = "NEW_SESSION_TICKET" /\ m \in Msgs["client"]
      /\ c.hs = <<"recv", "NEW_SESSION_TICKET">> /\ c.state # "ALERTED"
      /\ Still(c, g) /\ IsEnd(g)
  BY <1>0, <1>1, ReceivedFacts, GotFields
<1>3. m.ticket # <<>> /\ m \in Tickets
  BY <1>0, <1>2, Basics DEF ToClient, Tickets, Of
<1>4. DOMAIN c.session = {"id", "master", "ticket"}
  BY <1>0, Basics DEF SessionOK, IsSession
<1> HIDE DEF m, g
<1>5. /\ IsEnd(h) /\ h.state = c.state /\ h.clientRandom = c.clientRandom
      /\ h.serverRandom = c.serverRandom /\ h.id = c.id /\ h.isResume = c.isResume
      /\ h.isTicket = c.isTicket /\ h.master = c.master
      /\ h.session.id = c.session.id /\ h.session.master = c.session.master
      /\ IF c.isResume THEN h.session.ticket = m.ticket /\ h.ticket = c.ticket
         ELSE h.session = c.session /\ h.ticket = m.ticket
  <2>1. /\ g.state = c.state /\ g.clientRandom = c.clientRandom
        /\ g.serverRandom = c.serverRandom /\ g.id = c.id /\ g.isResume = c.isResume
        /\ g.isTicket = c.isTicket /\ g.master = c.master
        /\ g.session = c.session /\ g.ticket = c.ticket
    BY <1>2 DEF Still, Same
  <2>2. CASE c.isResume
    <3> DEFINE x == [c.session EXCEPT !.ticket = m.ticket]
    <3>1. h = [g EXCEPT !.session = x]
      BY <2>1, <2>2
    <3>2. x.id = c.session.id /\ x.master = c.session.master /\ x.ticket = m.ticket
      BY <1>4
    <3> HIDE DEF h, x
    <3> QED
      BY <1>2, <2>1, <2>2, <3>1, <3>2 DEF IsEnd, EndFields
  <2>3. CASE ~c.isResume
    <3>1. h = [g EXCEPT !.ticket = m.ticket]
      BY <2>1, <2>3
    <3> HIDE DEF h
    <3> QED
      BY <1>2, <2>1, <2>3, <3>1 DEF IsEnd, EndFields
  <2> QED
    BY <2>2, <2>3
<1> HIDE DEF h
<1>6. Same(h, d) /\ d.hs = <<"recv", "FINISHED">> /\ d.master = h.master
  BY <1>5, SameFields
<1> HIDE DEF d
<1>7. Takes(c, d, m)
  BY <1>2, <1>5, <1>6 DEF Takes, Same, Dead
<1>8. WireKept /\ end'["client"] = d /\ end'["server"] = s
  BY <1>0, <1>1, <1>2, ConsumeQuiet, ConsumeFacts DEF HInv
<1>9. ~Dead(c)
  BY <1>2 DEF Dead
<1>10. /\ SessionInv(c, s, Asked, Answers, Tickets, Finals, cache, n, config.cacheMode)
       /\ OneEach(wire["client"])
  BY <1>9 DEF SInv
<1>11. Tickets' = {}
  <2>1. Tickets' = {x \in Msgs'["client"] : x.type = "NEW_SESSION_TICKET"}
    BY DEF Tickets, Of
  <2> QED
    BY <1>1, <1>2, <1>10, <2>1, ReadsOne DEF HInv, m
<1>12. config' = config /\ cache' = cache /\ count' = count
  BY <1>1 DEF Quiet
<1>13. Placed("client", d, n)
  BY <1>0, <1>8, <1>12, PlacedAfter
<1> HIDE DEF c, s, n
<1>14. SessionInv(d, s, Asked, Answers, {}, Finals, cache, n, config.cacheMode)
  BY <1>0, <1>3, <1>7, <1>9, <1>10, <1>13, ClientTickets
<1>15. SessionInv(d, s, Asked', Answers', {}, Finals', cache, n, config.cacheMode)
  BY <1>0, <1>8, <1>14, Shrinks DEF WireKept, Shrunk
<1> QED
  BY <1>8, <1>10, <1>11, <1>12, <1>15 DEF SInv, WireKept, n

(* A handshake is complete.                                                  *)
LEMMA CompleteFields ==
  ASSUME NEW e, IsEnd(e), NEW f, f = Complete(e)
  PROVE  /\ f.clientRandom = 0 /\ f.ticket = <<>> /\ f.session = e.session
         /\ f.hs = <<"idle", "none">> /\ f.state = "TRANSPORTING"
<1> DEFINE d == [e EXCEPT !.done =
             Append(@, [read |-> e.read, write |-> e.write, resumed |-> e.isResume])]
<1>1. IsEnd(d) /\ d.session = e.session
  BY DEF IsEnd, EndFields
<1>2. f = Connected(d)
  BY DEF Complete
<1> HIDE DEF d
<1> QED
  BY <1>1, <1>2, ConnectedFields DEF Rests

(* What the Finished that an end sends does to it.                           *)
LEMMA FinishedMade ==
  ASSUME HInv, NEW p \in Ends, SendFinished(p)
  PROVE  \E m, f :
           /\ Send(p, m, f) /\ Quiet /\ m.type = "FINISHED"
           /\ end[p].hs = <<"send", "FINISHED">> /\ ~Dead(end[p])
           /\ m.verify[2] = end[p].master /\ ClientOf(m.verify) = end[p].clientRandom
           /\ Full(m.verify) <=> ~end[p].isResume
           /\ Opens(p, end[p]) =>
                /\ Same(end[p], f) /\ f.master = end[p].master
                /\ f.hs = <<"recv", IF p = "client" /\ end[p].isTicket
                                    THEN "NEW_SESSION_TICKET" ELSE "FINISHED">>
           /\ ~Opens(p, end[p]) =>
                /\ f.clientRandom = 0 /\ f.ticket = <<>> /\ f.session = end[p].session
                /\ f.hs = <<"idle", "none">> /\ f.state = "TRANSPORTING"
<1> DEFINE e == end[p]
           n == count.random
           c == VERIFY_CalcVerifyData(e, p)
           m == [type |-> "FINISHED", verify |-> c.verify]
           g == VERIFY_Append(c, m)
           k == CcsExitReady(g)
           f == IF p = "client" THEN
                  IF g.isResume THEN Complete(k)
                  ELSE IF g.isTicket THEN GoTo(g, "recv", "NEW_SESSION_TICKET")
                  ELSE AwaitFinished(g, "server")
                ELSE IF g.isResume THEN AwaitFinished(g, "client") ELSE Complete(k)
<1>1. Local(p, e, n, past) /\ Typed(p, e) /\ n \in Nat
  BY Basics
<1>2. Send(p, m, f) /\ Quiet /\ e.hs = <<"send", "FINISHED">>
  BY DEF SendFinished, Sends
<1> HIDE DEF n, e
<1>3. AtKeyed(p, e, n) /\ ~Dead(e)
  <2>1. e.hs \in Keyed(p)
    BY <1>2 DEF Keyed, Changing
  <2>2. e.hs # <<"idle", "none">>
    BY <1>2, PairFacts
  <2> QED
    BY <2>1, <2>2, <1>1 DEF Local, Typed, Dead
<1>4. /\ m.type = "FINISHED" /\ m.verify = <<p, e.master, e.transcript>>
      /\ Basic(e, g) /\ Hellos(g, n) /\ g.master = e.master
  BY <1>1, <1>3, FinishedBuilt
<1>5. IsEnd(e) /\ Still(e, c)
  BY <1>1, StillFields DEF Typed
<1> HIDE DEF c, m
<1>6. Still(c, g)
  <2>1. IsEnd(c)
    BY <1>5 DEF Still, Same
  <2> QED
    BY <2>1, StillFields
<1> HIDE DEF g
<1>7. Still(e, g) /\ IsEnd(g)
  BY <1>5, <1>6, SameTrans DEF Still, Same
<1>8. IsEnd(k) /\ k.session = e.session
  <2>1. Still(g, CcsExitReady(g))
    BY <1>7, StillFields
  <2> QED
    BY <1>7, <2>1 DEF Still, Same
<1> HIDE DEF k
<1>9. ClientOf(m.verify) = e.clientRandom /\ (Full(m.verify) <=> ~e.isResume) /\ m.verify[2] = e.master
  BY <1>1, <1>3, <1>4, VerifyData
<1>10. g.isResume = e.isResume /\ g.isTicket = e.isTicket
  BY <1>7 DEF Still, Same
<1>11. CASE Opens(p, e)
  <2>1. f = (IF p = "client" /\ e.isTicket THEN GoTo(g, "recv", "NEW_SESSION_TICKET")
             ELSE AwaitFinished(g, Peer(p)))
    BY <1>10, <1>11 DEF Opens, Ends, Peer
  <2>2. /\ Same(g, GoTo(g, "recv", "NEW_SESSION_TICKET"))
        /\ GoTo(g, "recv", "NEW_SESSION_TICKET").hs = <<"recv", "NEW_SESSION_TICKET">>
        /\ GoTo(g, "recv", "NEW_SESSION_TICKET").master = g.master
        /\ Same(g, AwaitFinished(g, Peer(p)))
        /\ AwaitFinished(g, Peer(p)).hs = <<"recv", "FINISHED">>
        /\ AwaitFinished(g, Peer(p)).master = g.master
    BY <1>7, SameFields
  <2> HIDE DEF f
  <2>3. /\ Same(e, f) /\ f.master = e.master
        /\ f.hs = <<"recv", IF p = "client" /\ e.isTicket THEN "NEW_SESSION_TICKET" ELSE "FINISHED">>
    BY <1>7, <2>1, <2>2, SameTrans DEF Still
  <2> QED
    BY <1>2, <1>3, <1>4, <1>9, <1>11, <2>3 DEF e
<1>12. CASE ~Opens(p, e)
  <2>1. f = Complete(k)
    BY <1>10, <1>12 DEF Opens, Ends
  <2> HIDE DEF f
  <2>2. /\ f.clientRandom = 0 /\ f.ticket = <<>> /\ f.session = e.session
        /\ f.hs = <<"idle", "none">> /\ f.state = "TRANSPORTING"
    BY <1>8, <2>1, CompleteFields
  <2> QED
    BY <1>2, <1>3, <1>4, <1>9, <1>12, <2>2 DEF e
<1> QED
  BY <1>11, <1>12

(* The client of a resumption has finished: no ticket is to come.            *)
LEMMA ResumptionFinishes ==
  ASSUME NEW c, NEW d, NEW s, NEW A, NEW H, NEW K, NEW F, NEW store, NEW n \in Nat, NEW mode,
         SessionInv(c, s, A, H, K, F, store, n, mode),
         Placed("client", c, n), Placed("client", d, n), Placed("server", s, n), ~Dead(c),
         c.hs = <<"send", "FINISHED">>, c.isResume,
         d.hs = <<"idle", "none">>, d.ticket = <<>>, d.session = c.session, ~Dead(d),
         NEW x, ~Full(x.verify), ClientOf(x.verify) = c.clientRandom,
         \A m \in F : ClientOf(m.verify) # 0
  PROVE  SessionInv(d, s, A, H, K, F \cup {x}, store, n, mode)
<1>1. SessionInv(c, s, A, H, K, F \cup {x}, store, n, mode)
  BY DEF SessionInv, Told
<1>2. Answered("client", c)
  BY DEF Answered, Keyed, Changing
<1>3. c.hs \notin Greeting("client") /\ c.hs # <<"recv", "NEW_SESSION_TICKET">> /\ c.clientRandom # 0
  <2>1. c.hs # <<"recv", "NEW_SESSION_TICKET">>
    BY PairFacts
  <2> QED
    BY <1>2, <2>1 DEF Placed
<1>4. ~BeforeTicket(s)
  <2> SUFFICES ASSUME BeforeTicket(s)
               PROVE  FALSE
    OBVIOUS
  <2>1. TicketToCome(c, s, K) /\ SameHandshake(c, s)
    BY DEF SessionInv, Linked
  <2>2. s.isResume
    BY <1>2, <2>1 DEF TicketToCome, SameHandshake
  <2> QED
    BY <1>2, <1>3, <2>1, <2>2 DEF TicketToCome
<1>5. Kept(d, n, store)
  BY DEF SessionInv, Kept
<1>6. d.hs \in Outside("client")
  BY DEF Outside
<1>7. \A m \in F \cup {x} : ClientOf(m.verify) # 0
  BY <1>3
<1> QED
  BY <1>1, <1>3, <1>4, <1>5, <1>6, <1>7, ClientLeaves

(* An end sends its Finished.                                                *)
LEMMA SSendFinished ==
  ASSUME HInv, HInv', SInv, NEW p \in Ends, SendFinished(p)
  PROVE  SInv'
<1> PICK m, f :
      /\ Send(p, m, f) /\ Quiet /\ m.type = "FINISHED"
      /\ end[p].hs = <<"send", "FINISHED">> /\ ~Dead(end[p])
      /\ m.verify[2] = end[p].master /\ ClientOf(m.verify) = end[p].clientRandom
      /\ Full(m.verify) <=> ~end[p].isResume
      /\ Opens(p, end[p]) =>
           /\ Same(end[p], f) /\ f.master = end[p].master
           /\ f.hs = <<"recv", IF p = "client" /\ end[p].isTicket
                               THEN "NEW_SESSION_TICKET" ELSE "FINISHED">>
      /\ ~Opens(p, end[p]) =>
           /\ f.clientRandom = 0 /\ f.ticket = <<>> /\ f.session = end[p].session
           /\ f.hs = <<"idle", "none">> /\ f.state = "TRANSPORTING"
  BY FinishedMade
<1> DEFINE c == end["client"]
           s == end["server"]
           n == count.random
           mode == config.cacheMode
<1>0. /\ "client" \in Ends /\ "server" \in Ends /\ n \in Nat
      /\ Placed("client", c, n) /\ Placed("server", s, n) /\ IsEnd(s)
      /\ \A x \in Finals : ClientOf(x.verify) \in 1 .. n
      /\ s.hs \in Ticket("server") /\ ~s.isResume => Dead(c) \/ Waiting("client", c)
  BY PlacedBefore
<1>1. config' = config /\ cache' = cache /\ count' = count
  BY DEF Quiet
<1>2. Placed(p, end'[p], n) /\ Shape
  BY <1>1, PlacedAfter DEF HInv
<1>3. /\ SessionInv(c, s, Asked, Answers, Tickets, Finals, cache, n, mode)
      /\ Dead(c) \/ OneEach(wire["client"])
  BY DEF SInv
<1>4. /\ end'[p] = f /\ end'[Peer(p)] = end[Peer(p)]
      /\ p = "client" =>
              /\ Asked' = Asked /\ Finals' = Finals \cup {m}
              /\ Answers' = Answers /\ Tickets' = Tickets
              /\ wire'["client"] = wire["client"]
      /\ p = "server" =>
              /\ Answers' = Answers /\ Tickets' = Tickets
              /\ Asked' = Asked /\ Finals' = Finals
              /\ wire'["client"] = Append(wire["client"], Record("server", m))
  BY ZenonT(30), <1>2, Sent
<1>5. CASE p = "client"
  <2>1. /\ end'["client"] = f /\ end'["server"] = s /\ Placed("client", f, n) /\ ~Dead(c)
        /\ c.hs = <<"send", "FINISHED">> /\ (Opens("client", c) <=> ~c.isResume)
    BY <1>2, <1>4, <1>5 DEF Peer, Opens
  <2>2. CASE ~c.isResume
    <3>1. /\ Same(c, f) /\ f.master = c.master
          /\ f.hs = <<"recv", IF c.isTicket THEN "NEW_SESSION_TICKET" ELSE "FINISHED">>
          /\ m.verify[2] = c.master
      BY <1>5, <2>1, <2>2
    <3> HIDE DEF c, s, n, mode
    <3>2. SessionInv(f, s, Asked, Answers, Tickets, Finals \cup {m}, cache, n, mode)
      BY <1>0, <1>3, <2>1, <2>2, <3>1, ClientFinishes
    <3> QED
      BY <1>1, <1>3, <1>4, <1>5, <2>1, <3>2 DEF SInv, n, mode
  <2>3. CASE c.isResume
    <3>1. /\ f.hs = <<"idle", "none">> /\ f.ticket = <<>> /\ f.session = c.session /\ ~Dead(f)
          /\ ~Full(m.verify) /\ ClientOf(m.verify) = c.clientRandom
      BY <1>5, <2>1, <2>3 DEF Dead
    <3>2. \A x \in Finals : ClientOf(x.verify) # 0
      BY <1>0
    <3> HIDE DEF c, s, n, mode
    <3>3. SessionInv(f, s, Asked, Answers, Tickets, Finals \cup {m}, cache, n, mode)
      BY <1>0, <1>3, <2>1, <2>3, <3>1, <3>2, ResumptionFinishes
    <3> QED
      BY <1>1, <1>3, <1>4, <1>5, <2>1, <3>3 DEF SInv, n, mode
  <2> QED
    BY <1>0, <2>2, <2>3 DEF Placed
<1>6. CASE p = "server"
  <2>1. /\ end'["server"] = f /\ end'["client"] = c /\ Placed("server", f, n)
        /\ s.hs = <<"send", "FINISHED">> /\ (Opens("server", s) <=> s.isResume)
    BY <1>0, <1>2, <1>4, <1>6 DEF Peer, Opens, Placed
  <2>2. KeepsServer(s, f) \/ RestsServer(f)
    <3>1. CASE s.isResume
      <4>1. Same(s, f) /\ f.hs = <<"recv", "FINISHED">>
        BY <1>6, <2>1, <3>1
      <4>2. Answered("server", s) /\ Answered("server", f)
        BY <2>1, <4>1 DEF Answered, Keyed, Changing
      <4>3. ~BeforeTicket(f) /\ f.hs \notin Ticket("server")
        BY <3>1, <4>1 DEF BeforeTicket, Flight, Verify, Ticket, Same
      <4> QED
        BY <2>1, <4>1, <4>2, <4>3 DEF KeepsServer, Same, Placed
    <3>2. CASE ~s.isResume
      BY <1>6, <2>1, <3>2 DEF RestsServer, Outside
    <3> QED
      BY <3>1, <3>2
  <2> HIDE DEF c, s, n, mode
  <2>3. SessionInv(c, f, Asked, Answers, Tickets, Finals, cache, n, mode)
    BY <1>0, <1>3, <2>1, <2>2, ServerKept
  <2>4. OneEach(wire["client"]) => OneEach(wire'["client"])
    <3>1. IsSeq(wire["client"]) /\ Record("server", m).msg = m
      BY <1>0, <1>2 DEF Shape, Record
    <3>2. m.type # "SERVER_HELLO" /\ m.type # "NEW_SESSION_TICKET"
      OBVIOUS
    <3>3. wire'["client"] = Append(wire["client"], Record("server", m))
      BY <1>4, <1>6
    <3>4. Sole(wire["client"], "SERVER_HELLO") => Sole(wire'["client"], "SERVER_HELLO")
      BY <3>1, <3>2, <3>3, SoleAppend
    <3>5. Sole(wire["client"], "NEW_SESSION_TICKET") => Sole(wire'["client"], "NEW_SESSION_TICKET")
      BY <3>1, <3>2, <3>3, SoleAppend
    <3> QED
      BY <3>4, <3>5 DEF OneEach
  <2>5. Dead(c) \/ OneEach(wire'["client"])
    BY <1>3, <2>4
  <2>6. /\ Asked' = Asked /\ Finals' = Finals /\ Answers' = Answers /\ Tickets' = Tickets
        /\ config'.cacheMode = mode /\ count'.random = n /\ cache' = cache
    BY <1>1, <1>4, <1>6 DEF mode, n
  <2> QED
    BY <2>1, <2>3, <2>5, <2>6 DEF SInv
<1> QED
  BY <1>5, <1>6 DEF Ends

(* The session that the client of a full handshake has made.                 *)
LEMMA ClientMakes ==
  ASSUME NEW c, NEW n \in Nat, NEW store, NEW mode, CacheIds(store, n, mode), Made(c, n, store),
         Placed("client", c, n), c.hs = <<"recv", "FINISHED">>, ~c.isResume,
         NEW x, x.master = c.master,
         x.id = (IF ~c.isTicket THEN c.id
                 ELSE IF c.ticket # <<>> THEN <<"client", c.clientRandom>> ELSE NoId),
         x.ticket = (IF c.isTicket THEN c.ticket ELSE <<>>),
         NEW d, d.session = x, ~Dead(d)
  PROVE  Kept(d, n, store)
<1>1. Answered("client", c)
  BY LastFacts
<1>2. c.clientRandom \in 1 .. n
  BY <1>1 DEF Placed
<1>3. /\ \A id \in DOMAIN store : \E r \in 1 .. n : id = <<"server", r>>
      /\ IsId(c.id, n) /\ (~c.isTicket /\ c.id \in DOMAIN store => store[c.id].master = c.master)
      /\ c.ticket # <<>> => c.ticket[1] = c.master
  BY <1>1 DEF CacheIds, Made
<1>4. CASE ~c.isTicket
  BY <1>3, <1>4 DEF Kept
<1>5. CASE c.isTicket /\ c.ticket # <<>>
  <2>1. x.id = <<"client", c.clientRandom>> /\ x.id # NoId /\ x.ticket[1] = x.master
    BY <1>3, <1>5 DEF NoId
  <2>2. IsId(x.id, n)
    BY <1>2, <2>1 DEF IsId
  <2>3. x.id \notin DOMAIN store
    BY <1>3, <2>1
  <2> QED
    BY <2>1, <2>2, <2>3 DEF Kept
<1>6. CASE c.isTicket /\ c.ticket = <<>>
  <2>1. x.id = NoId /\ x.ticket = <<>>
    BY <1>6
  <2>2. NoId \notin DOMAIN store
    BY <1>3 DEF NoId
  <2> QED
    BY <2>1, <2>2 DEF Kept, IsId
<1> QED
  BY <1>4, <1>5, <1>6

(* What a Finished that is read does to an end: s is the end with its session*)
(* and f the end that goes on.                                               *)
Finishes(p, e, s, f) ==
  /\ Same(e, [s EXCEPT !.session = e.session]) /\ IsEnd(s) /\ s.master = e.master
  /\ e.isResume => s.session = e.session
  /\ ~e.isResume => s.session = [
       id |-> IF ~e.isTicket THEN e.id
              ELSE IF p = "client" /\ e.ticket # <<>> THEN <<"client", e.clientRandom>> ELSE NoId,
       master |-> e.master, ticket |-> IF p = "client" /\ e.isTicket THEN e.ticket ELSE <<>>]
  /\ Opens(p, e) =>
       /\ f.clientRandom = 0 /\ f.ticket = <<>> /\ f.session = s.session
       /\ f.hs = <<"idle", "none">> /\ f.state = "TRANSPORTING"
  /\ ~Opens(p, e) =>
       /\ Same(s, f)
       /\ f.hs = <<"send", IF p = "server" /\ e.isTicket
                           THEN "NEW_SESSION_TICKET" ELSE "CHANGE_CIPHER_SPEC">>

(* RecvFinished that does not fail is such a step. *)
LEMMA FinishedTaken ==
  ASSUME HInv, NEW p \in Ends, RecvFinished(p), ~Fail(p)
  PROVE  \E s, f :
           /\ Reading(p) /\ Consume(p, f) /\ cache' = Insert(p, s)
           /\ config' = config /\ count' = count
           /\ Finishes(p, end[p], s, f)
<1> DEFINE e == end[p]
           m == First(p)
           g == Got(p)
           s == HsSetSessionInfo(p, g)
           k == CcsExitReady(s)
           f == IF p = "client" THEN
                  IF s.isResume THEN GoTo(k, "send", "CHANGE_CIPHER_SPEC") ELSE Complete(k)
                ELSE IF s.isResume THEN Complete(k)
                ELSE GoTo(s, "send", IF s.isTicket THEN "NEW_SESSION_TICKET" ELSE "CHANGE_CIPHER_SPEC")
<1>1. /\ Receives(p, "FINISHED") /\ Consume(p, f) /\ cache' = Insert(p, s)
      /\ config' = config /\ count' = count
  BY DEF RecvFinished
<1>2. Reading(p) /\ Still(e, g) /\ IsEnd(g) /\ IsEnd(e)
  BY <1>1, GotFields, PlacedBefore
<1>3. e.isResume \in BOOLEAN
  BY PlacedBefore DEF Placed
<1> HIDE DEF e, g
<1> DEFINE w == [id |-> IF ~e.isTicket THEN e.id
                        ELSE IF p = "client" /\ e.ticket # <<>> THEN <<"client", e.clientRandom>> ELSE NoId,
                 master |-> e.master, ticket |-> IF p = "client" /\ e.isTicket THEN e.ticket ELSE <<>>]
<1>4. s = (IF e.isResume THEN g ELSE [g EXCEPT !.session = w])
  BY <1>2 DEF HsSetSessionInfo, Still, Same
<1> HIDE DEF s, w
<1>5. /\ IsEnd(s) /\ s.master = e.master /\ s.isResume = e.isResume /\ s.isTicket = e.isTicket
      /\ e.isResume => s.session = e.session
      /\ ~e.isResume => s.session = w
  BY <1>2, <1>4 DEF Still, Same, IsEnd, EndFields
<1>6. Same(e, [s EXCEPT !.session = e.session])
  BY <1>2, <1>4 DEF Still, Same, IsEnd, EndFields
<1>7. Still(s, k)
  BY <1>5, StillFields
<1> HIDE DEF k
<1>8. IsEnd(k) /\ k.session = s.session
  BY <1>7 DEF Still, Same
<1>9. CASE Opens(p, e)
  <2>1. f = Complete(k)
    BY <1>5, <1>9 DEF Opens, Ends
  <2> HIDE DEF f
  <2>2. /\ f.clientRandom = 0 /\ f.ticket = <<>> /\ f.session = s.session
        /\ f.hs = <<"idle", "none">> /\ f.state = "TRANSPORTING"
    BY <1>8, <2>1, CompleteFields
  <2>3. Finishes(p, e, s, f)
    BY <1>5, <1>6, <1>9, <2>2 DEF Finishes, w
  <2> QED
    BY <1>1, <1>2, <2>3 DEF e
<1>10. CASE ~Opens(p, e)
  <2> DEFINE t == IF p = "server" /\ e.isTicket THEN "NEW_SESSION_TICKET" ELSE "CHANGE_CIPHER_SPEC"
             b == IF p = "client" THEN k ELSE s
  <2>1. f = GoTo(b, "send", t)
    BY <1>5, <1>10 DEF Opens, Ends
  <2>2. IsEnd(b) /\ Same(s, b)
    <3>1. Still(s, s)
      BY <1>5, StillFields
    <3> QED
      BY <1>5, <1>7, <3>1 DEF Still, Same
  <2> HIDE DEF f, b, t
  <2>3. Same(b, f) /\ f.hs = <<"send", t>>
    BY <2>1, <2>2, SameFields
  <2>4. Same(s, f)
    BY <2>2, <2>3, SameTrans
  <2>5. Finishes(p, e, s, f)
    BY <1>5, <1>6, <1>10, <2>3, <2>4 DEF Finishes, w, t
  <2> QED
    BY <1>1, <1>2, <2>5 DEF e
<1> QED
  BY <1>9, <1>10

(* The client of a full handshake reads the Finished of a server that has    *)
(* completed this handshake: the server has no ticket to send.               *)
LEMMA NoTicketToCome ==
  ASSUME HInv, SInv, Receives("client", "FINISHED"), ~end["client"].isResume,
         First("client").verify = end["client"].verify
  PROVE  ~BeforeTicket(end["server"])
<1> DEFINE c == end["client"]
           s == end["server"]
           m == First("client")
           v == m.verify
<1>0. /\ "client" \in Ends /\ "server" \in Ends /\ Peer("client") = "server"
      /\ Placed("client", c, count.random)
  BY PlacedBefore DEF Peer
<1>1. /\ m \in Msgs["client"] /\ IsFinished(m) /\ ~Dead(c)
      /\ Typed("client", c) /\ AtKeyed("client", c, count.random) /\ count.random \in Nat
      /\ v = <<Peer("client"), c.master, c.transcript>> /\ c.hs = <<"recv", "FINISHED">>
  BY <1>0, FinishedExpected
<1>2. Match("client", c, v) /\ ~ByOpener(v)
  <2>1. Match("client", c, v) /\ (ByOpener(v) <=> ~Opens("client", c))
    BY SMTT(30), <1>0, <1>1, VerifyData
  <2> QED
    BY <2>1 DEF Opens
<1>3. s.done = Append(c.done, HandshakeOf(v))
  <2>1. Evidence(end, Msgs)
    BY DEF HInv, Both
  <2>2. Shown("client", end, v)
    BY <1>0, <1>1, <1>2, <2>1 DEF Evidence
  <2> QED
    BY <1>0, <1>2, <2>2 DEF Shown
<1>4. Answered("client", c)
  BY <1>1, LastFacts
<1>5. ASSUME BeforeTicket(s)
      PROVE  FALSE
  <2>1. c.clientRandom = s.clientRandom
    BY <1>1, <1>5 DEF SInv, SessionInv, Linked, TicketToCome
  <2>2. s.clientRandom # 0
    BY <1>0, <1>4, <2>1 DEF Placed
  <2>3. c.done = s.done
    BY <2>1, <2>2 DEF HInv, Both, Level
  <2>4. IsSeq(c.done)
    BY <1>1 DEF Typed
  <2> QED
    BY <1>3, <2>3, <2>4, AppendDiffers
<1> QED
  BY <1>5

(* The server of a full handshake reads the Finished of the client: the new  *)
(* session goes into the cache.                                              *)
LEMMA ServerRecvFinished ==
  ASSUME HInv, HInv', SInv, RecvFinished("server"), ~Fail("server"), ~end["server"].isResume
  PROVE  SInv'
<1> PICK u, f :
      /\ Reading("server") /\ Consume("server", f) /\ cache' = Insert("server", u)
      /\ config' = config /\ count' = count
      /\ Finishes("server", end["server"], u, f)
  BY FinishedTaken, PlacedBefore
<1> DEFINE c == end["client"]
           s == end["server"]
           n == count.random
           x == First("server")
           mode == config.cacheMode
<1>0. /\ "client" \in Ends /\ "server" \in Ends /\ n \in Nat /\ Peer("server") = "client"
      /\ Placed("client", c, n) /\ Placed("server", s, n)
  BY PlacedBefore DEF Peer
<1>1. Receives("server", "FINISHED") /\ x.verify = s.verify
  BY DEF RecvFinished
<1>2. /\ x \in Msgs["server"] /\ IsFinished(x) /\ s.hs = <<"recv", "FINISHED">>
      /\ Typed("server", s) /\ AtKeyed("server", s, n)
      /\ x.verify = <<Peer("server"), s.master, s.transcript>>
  BY <1>0, <1>1, FinishedExpected
<1>3. Full(x.verify) /\ ClientOf(x.verify) = s.clientRandom /\ x.verify[2] = s.master
  BY SMTT(30), <1>0, <1>2, VerifyData
<1>4. x \in Finals
  BY <1>2 DEF Finals, Of, IsFinished
<1>5. ~Opens("server", s)
  BY <1>0 DEF Opens, Placed
<1>6. /\ u.clientRandom = s.clientRandom /\ u.serverRandom = s.serverRandom /\ u.id = s.id
      /\ u.isResume = s.isResume /\ u.isTicket = s.isTicket
  BY DEF Finishes, Same, IsEnd, EndFields
<1>7. u.session.master = s.master /\ u.session.id = (IF s.isTicket THEN NoId ELSE s.id)
  BY DEF Finishes
<1>8. Same(u, f) /\ f.hs = <<"send", IF s.isTicket THEN "NEW_SESSION_TICKET" ELSE "CHANGE_CIPHER_SPEC">>
  BY <1>5 DEF Finishes
<1>9. /\ f.clientRandom = s.clientRandom /\ f.serverRandom = s.serverRandom /\ f.id = s.id
      /\ f.isResume = s.isResume /\ f.isTicket = s.isTicket /\ f.session = u.session
  BY <1>6, <1>8 DEF Same
<1>10. WireKept /\ end'["server"] = f /\ end'["client"] = c
  BY <1>0, ConsumeQuiet, ConsumeFacts DEF HInv
<1>11. Placed("server", f, n)
  BY <1>0, <1>10, PlacedAfter
<1> DEFINE new == cache'
<1>12. new = (IF f.session.id # NoId /\ mode = "server" THEN WithSession(cache, f.session) ELSE cache)
  BY <1>6, <1>9 DEF Insert
<1>13. SessionInv(c, s, Asked, Answers, Tickets, Finals, cache, n, mode)
       /\ (Dead(c) \/ OneEach(wire["client"])) /\ ~s.isResume
  BY DEF SInv
<1> HIDE DEF c, s, n, x, mode, new
<1>14. SessionInv(c, f, Asked, Answers, Tickets, Finals, new, n, mode)
  BY <1>0, <1>2, <1>3, <1>4, <1>7, <1>8, <1>9, <1>11, <1>12, <1>13, ServerStores
<1>15. SessionInv(c, f, Asked', Answers', Tickets', Finals', new, n, mode)
  BY <1>0, <1>10, <1>14, Shrinks DEF WireKept, Shrunk
<1>16. count'.random = n /\ config'.cacheMode = mode
  BY DEF n, mode
<1> QED
  BY <1>10, <1>13, <1>15, <1>16 DEF SInv, WireKept, new

(* An end reads the Finished of its peer.                                    *)
LEMMA SRecvFinished ==
  ASSUME HInv, HInv', SInv, NEW p \in Ends, RecvFinished(p)
  PROVE  SInv'
<1>1. CASE Fail(p)
  BY <1>1, SFail
<1>2. CASE ~Fail(p) /\ p = "server" /\ ~end["server"].isResume
  BY <1>2, ServerRecvFinished
<1>3. CASE ~Fail(p) /\ (p = "client" \/ end["server"].isResume)
  <2> PICK u, f :
        /\ Reading(p) /\ Consume(p, f) /\ cache' = Insert(p, u)
        /\ config' = config /\ count' = count
        /\ Finishes(p, end[p], u, f)
    BY <1>3, FinishedTaken
  <2> DEFINE c == end["client"]
             s == end["server"]
             n == count.random
  <2>0. /\ "client" \in Ends /\ "server" \in Ends /\ n \in Nat /\ n <= count'.random
        /\ Placed("client", c, n) /\ Placed("server", s, n)
    BY PlacedBefore
  <2>1. Receives(p, "FINISHED") /\ First(p).verify = end[p].verify
    BY <1>3 DEF RecvFinished
  <2>2. end[p].hs = <<"recv", "FINISHED">> /\ ~Dead(end[p])
    BY <2>1, FinishedExpected
  <2>3. WireKept /\ end'[p] = f /\ end'[Peer(p)] = end[Peer(p)] /\ Placed(p, end'[p], n)
    BY PlacedAfter, ConsumeQuiet, ConsumeFacts DEF HInv
  <2>4. u.isResume = end[p].isResume
    BY DEF Finishes, Same, IsEnd, EndFields
  <2>5. cache' = cache
    BY <1>3, <2>4, InsertFacts DEF Ends
  <2>6. Shrunk(cache', cache)
    BY <2>5 DEF Shrunk
  <2>7. CASE p = "server"
    <3>1. Opens("server", s)
      BY <1>3, <2>7 DEF Opens
    <3>2. RestsServer(f)
      BY <2>7, <3>1 DEF Finishes, RestsServer, Outside
    <3> QED
      BY <2>0, <2>3, <2>6, <2>7, <3>2, ServerOn DEF Peer
  <2>8. CASE p = "client" /\ c.isResume
    <3>1. ~Opens("client", c)
      BY <2>8 DEF Opens
    <3>2. /\ f.hs = <<"send", "CHANGE_CIPHER_SPEC">> /\ Same(u, f) /\ u.session = c.session
          /\ Same(c, [u EXCEPT !.session = c.session]) /\ IsEnd(u)
      BY <2>8, <3>1 DEF Finishes
    <3>3. Same(c, f)
      BY <3>2 DEF Same, IsEnd, EndFields
    <3>4. KeepsClient(c, f)
      <4>1. Answered("client", c) /\ Answered("client", f) /\ c.hs \in Last /\ f.hs \notin Last
        <5>1. c.hs = <<"recv", "FINISHED">>
          BY <2>2, <2>8
        <5>2. Answered("client", f)
          BY <3>2 DEF Answered, Keyed, Changing
        <5>3. f.hs \notin Last
          BY <3>2, PairFacts DEF Last
        <5> QED
          BY <5>1, <5>2, <5>3, LastFacts
      <4> QED
        BY <2>0, <2>2, <2>3, <2>8, <3>3, <4>1 DEF KeepsClient, Same, Placed, Dead
    <3> QED
      BY <2>0, <2>3, <2>6, <2>8, <3>4, ClientOn DEF Peer
  <2>9. CASE p = "client" /\ ~c.isResume
    <3>1. Opens("client", c)
      BY <2>9 DEF Opens
    <3>2. /\ f.ticket = <<>> /\ f.session = u.session /\ f.hs = <<"idle", "none">> /\ ~Dead(f)
      BY <2>9, <3>1 DEF Finishes, Dead
    <3>3. /\ u.session.master = c.master
          /\ u.session.id = (IF ~c.isTicket THEN c.id
                 ELSE IF c.ticket # <<>> THEN <<"client", c.clientRandom>> ELSE NoId)
          /\ u.session.ticket = (IF c.isTicket THEN c.ticket ELSE <<>>)
      BY <2>9 DEF Finishes
    <3>4. ~BeforeTicket(s)
      BY <2>1, <2>9, NoTicketToCome
    <3>5. Kept(f, n, cache)
      <4> DEFINE x == u.session
                 mode == config.cacheMode
      <4>1. CacheIds(cache, n, mode) /\ Made(c, n, cache)
        BY DEF SInv, SessionInv
      <4>2. c.hs = <<"recv", "FINISHED">> /\ ~c.isResume
        BY <2>2, <2>9
      <4> HIDE DEF c, n, mode, x
      <4>3. /\ x.master = c.master
            /\ x.id = (IF ~c.isTicket THEN c.id
                       ELSE IF c.ticket # <<>> THEN <<"client", c.clientRandom>> ELSE NoId)
            /\ x.ticket = (IF c.isTicket THEN c.ticket ELSE <<>>)
            /\ f.session = x /\ ~Dead(f)
        BY <3>2, <3>3 DEF x
      <4> QED
        BY <2>0, <4>1, <4>2, <4>3, ClientMakes
    <3>6. c.hs \notin Greeting("client") /\ c.hs # <<"recv", "NEW_SESSION_TICKET">>
      <4>1. Answered("client", c)
        BY <2>2, <2>9, LastFacts
      <4> QED
        BY <2>0, <2>2, <2>9, <4>1, LastFacts DEF Placed
    <3>7. f.hs \in Outside("client")
      BY <3>2 DEF Outside
    <3> QED
      BY <2>0, <2>2, <2>3, <2>5, <2>6, <2>9, <3>2, <3>4, <3>5, <3>6, <3>7, ClientOff DEF Peer
  <2> QED
    BY <2>0, <2>7, <2>8, <2>9 DEF Ends, Placed
<1> QED
  BY <1>1, <1>2, <1>3 DEF Ends

-----------------------------------------------------------------------------
(* A new connection, and the steps together.                                 *)

(* Nothing is on the way in a new connection, and no handshake has begun.    *)
LEMMA FreshSession ==
  ASSUME NEW c, NEW s, NEW store, NEW n \in Nat, NEW mode,
         c.hs = <<"send", "CLIENT_HELLO">>, c.ticket = <<>>, s.hs = <<"recv", "CLIENT_HELLO">>,
         CacheIds(store, n, mode), Kept(c, n, store),
         Placed("client", c, n), Placed("server", s, n)
  PROVE  SessionInv(c, s, {}, {}, {}, {}, store, n, mode)
<1>1. c.hs \in Outside("client") /\ s.hs \in Outside("server")
  BY DEF Outside
<1>2. /\ c.hs \notin Greeting("client") /\ ~Answered("client", c)
      /\ s.hs \notin Greeting("server") /\ ~Answered("server", s)
      /\ ~BeforeTicket(s) /\ s.hs # <<"send", "NEW_SESSION_TICKET">>
  BY <1>1, BeforeTicketFacts DEF Placed
<1>3. Made(c, n, store) /\ ServerOwn(s) /\ Told(c, {})
  BY <1>2 DEF Made, ServerOwn, Told
<1>4. Linked(c, s, {}, {}, {}, store, mode)
  BY <1>2 DEF Linked, AskedOK, AnswerOK, HellosOK, SameHandshake, TicketToCome, TicketsOK
<1> QED
  BY <1>3, <1>4 DEF SessionInv

(* The ends and wires of a new connection.                                   *)
LEMMA FreshConnection ==
  ASSUME NEW x
  PROVE  /\ Begin(x)["client"].hs = <<"send", "CLIENT_HELLO">> /\ Begin(x)["client"].ticket = <<>>
         /\ Begin(x)["client"].session = x /\ Begin(x)["client"].state = "HANDSHAKING"
         /\ Begin(x)["server"].hs = <<"recv", "CLIENT_HELLO">>
BY DEF Begin, NewEnd, Ends

(* Nothing is on its way. *)
LEMMA FreshWires ==
  ASSUME wire = [p \in Ends |-> <<>>]
  PROVE  /\ Asked = {} /\ Answers = {} /\ Tickets = {} /\ Finals = {}
         /\ OneEach(wire["client"])
<1>1. "client" \in Ends /\ "server" \in Ends
  BY DEF Ends
<1>2. Msgs["client"] = {} /\ Msgs["server"] = {}
  BY <1>1, EmptyWires DEF Msgs
<1>3. wire["client"] = <<>>
  BY <1>1
<1> QED
  BY <1>2, <1>3, EmptySeq DEF Asked, Answers, Tickets, Finals, Of, OneEach, Sole

(* The client offers its session on the next connection.                     *)
LEMMA SNewConnection ==
  ASSUME FixedModes, HInv, HInv', SInv, NewConnection
  PROVE  SInv'
<1> DEFINE c == end["client"]
           d == end'["client"]
           t == end'["server"]
           x == c.session
           n == count.random
<1>1. /\ config \in Configs /\ config' \in Configs /\ config'.kx = config.kx
      /\ end' = Begin(x) /\ wire' = [p \in Ends |-> <<>>] /\ cache' = cache
      /\ count' = [count EXCEPT !.connection = @ + 1]
  BY DEF NewConnection, HInv, Shape
<1>2. config'.cacheMode = config.cacheMode
  BY <1>1 DEF FixedModes
<1>3. count'.random = n /\ n \in Nat
  BY <1>1 DEF HInv, Shape
<1>4. Placed("client", d, n) /\ Placed("server", t, n)
  BY <1>3, PlacedAfter DEF Ends
<1>5. /\ d.hs = <<"send", "CLIENT_HELLO">> /\ d.ticket = <<>> /\ d.session = x
      /\ d.state = "HANDSHAKING" /\ t.hs = <<"recv", "CLIENT_HELLO">>
  BY <1>1, FreshConnection
<1>6. /\ Asked' = {} /\ Answers' = {} /\ Tickets' = {} /\ Finals' = {}
      /\ OneEach(wire'["client"])
  <2>1. Msgs'["client"] = {} /\ Msgs'["server"] = {}
    BY <1>1, EmptyWires DEF Msgs, Ends
  <2>2. wire'["client"] = <<>>
    BY <1>1 DEF Ends
  <2> QED
    BY <2>1, <2>2, EmptySeq DEF Asked, Answers, Tickets, Finals, Of, OneEach, Sole
<1>7. CacheIds(cache, n, config.cacheMode) /\ Kept(d, n, cache)
  <2>1. CacheIds(cache, n, config.cacheMode) /\ Kept(c, n, cache)
    BY DEF SInv, SessionInv
  <2>2. ~Dead(d)
    BY <1>5 DEF Dead
  <2> QED
    BY <1>5, <2>1, <2>2 DEF Kept
<1> DEFINE mode == config.cacheMode
<1> HIDE DEF c, d, t, x, n, mode
<1>8. SessionInv(d, t, {}, {}, {}, {}, cache, n, mode)
  BY <1>3, <1>4, <1>5, <1>7, FreshSession DEF mode
<1> QED
  BY <1>1, <1>2, <1>3, <1>6, <1>8 DEF SInv, d, t, mode

(* Initially the client has no session, and the cache is empty.              *)
LEMMA SInit ==
  ASSUME Init
  PROVE  SInv
<1> DEFINE c == end["client"]
           s == end["server"]
<1>1. /\ end = Begin(NoSession) /\ wire = [p \in Ends |-> <<>>] /\ DOMAIN cache = {}
      /\ count.random = 0 /\ 0 \in Nat
  BY EmptySeq DEF Init
<1>2. Placed("client", c, 0) /\ Placed("server", s, 0)
  BY <1>1, HInit, PlacedBefore
<1>3. /\ c.hs = <<"send", "CLIENT_HELLO">> /\ c.ticket = <<>> /\ c.session = NoSession
      /\ c.state = "HANDSHAKING" /\ s.hs = <<"recv", "CLIENT_HELLO">>
  BY <1>1, FreshConnection
<1>4. CacheIds(cache, 0, config.cacheMode) /\ Kept(c, 0, cache)
  BY <1>1, <1>3, NoSessionFacts DEF CacheIds, Kept, IsId
<1>5. /\ Asked = {} /\ Answers = {} /\ Tickets = {} /\ Finals = {} /\ OneEach(wire["client"])
  BY <1>1, FreshWires
<1> DEFINE mode == config.cacheMode
<1> HIDE DEF c, s, mode
<1>6. SessionInv(c, s, {}, {}, {}, {}, cache, 0, mode)
  BY <1>1, <1>2, <1>3, <1>4, FreshSession DEF mode
<1> QED
  BY <1>1, <1>5, <1>6 DEF SInv, c, s, mode

(* Every step keeps the invariant.                                           *)
LEMMA SNext ==
  ASSUME FixedModes, HInv, HInv', SInv, Next
  PROVE  SInv'
<1>0. "client" \in Ends /\ "server" \in Ends
  BY DEF Ends
<1>1. CASE NewConnection
  BY <1>1, SNewConnection
<1>2. CASE ClientStep
  <2>1. CASE SendClientHello
    BY <2>1, SSendClientHello
  <2>2. CASE SendCertificate("client") \/ RecvCertificate("client")
    BY <2>2, <1>0, SSendCertificate, SRecvCertificate
  <2>3. CASE SendClientKeyExchange
    BY <2>3, SSendClientKeyExchange
  <2>4. CASE SendCertVerify
    BY <2>4, SSendPlain
  <2>5. CASE RecvHelloRequest
    BY <2>5, SRecvHelloRequest
  <2>6. CASE RecvServerHello
    BY <2>6, SRecvServerHello
  <2>7. CASE RecvServerKeyExchange \/ RecvCertRequest \/ RecvServerHelloDone
    BY <2>7, SRecvFlightMessage
  <2>8. CASE RecvNewSessionTicket
    BY <2>8, SRecvNewSessionTicket
  <2> QED
    BY <1>2, <2>1, <2>2, <2>3, <2>4, <2>5, <2>6, <2>7, <2>8 DEF ClientStep
<1>3. CASE ServerStep
  <2>1. CASE SendHelloRequest
    BY <2>1, SSendHelloRequest
  <2>2. CASE SendServerHello
    BY <2>2, SSendServerHello
  <2>3. CASE SendCertificate("server") \/ RecvCertificate("server")
    BY <2>3, <1>0, SSendCertificate, SRecvCertificate
  <2>4. CASE SendServerKeyExchange \/ SendCertRequest
    BY <2>4, SSendPlain
  <2>5. CASE SendServerHelloDone
    BY <2>5, SSendServerHelloDone
  <2>6. CASE SendNewSessionTicket
    BY <2>6, SSendNewSessionTicket
  <2>7. CASE RecvClientHello
    BY <2>7, SRecvClientHello
  <2>8. CASE RefuseClientHello
    BY <2>8, SRefuseClientHello
  <2>9. CASE RecvClientKeyExchange
    BY <2>9, SRecvClientKeyExchange
  <2>10. CASE RecvCertVerify
    BY <2>10, SRecvCertVerify
  <2> QED
    BY <1>3, <2>1, <2>2, <2>3, <2>4, <2>5, <2>6, <2>7, <2>8, <2>9, <2>10 DEF ServerStep
<1>4. ASSUME NEW p \in Ends, EitherStep(p)
      PROVE  SInv'
  <2>1. CASE SendChangeCipherSpec(p)
    BY <2>1, SSendChangeCipherSpec
  <2>2. CASE SendFinished(p)
    BY <2>2, SSendFinished
  <2>3. CASE RecvChangeCipherSpec(p)
    BY <2>3, SRecvChangeCipherSpec
  <2>4. CASE RecvFinished(p)
    BY <2>4, SRecvFinished
  <2>5. CASE RecvAppData(p)
    BY <2>5, SIgnore DEF RecvAppData
  <2>6. CASE RecvAlert(p)
    BY <2>6, SRecvAlert
  <2>7. CASE RecvRefused(p)
    BY <2>7, SFail DEF RecvRefused
  <2> QED
    BY <1>4, <2>1, <2>2, <2>3, <2>4, <2>5, <2>6, <2>7 DEF EitherStep
<1>5. ASSUME NEW p \in Ends, HITLS_Renegotiate(p) \/ HITLS_Write(p)
      PROVE  SInv'
  BY <1>5, SRenegotiate, SWrite
<1> QED
  BY <1>1, <1>2, <1>3, <1>4, <1>5 DEF Next, Step

-----------------------------------------------------------------------------
(* The theorem.                                                              *)

(* The session that the client would offer on its next connection, by its id *)
(* or by its ticket, holds the master secret that the server finds in its    *)
(* cache (SESSMGR_Find) or in the ticket: whatever the two renegotiate, and  *)
(* whichever of them fails or gives the connection up between the Finished   *)
(* of one and that of the other, if connections with the same key exchange   *)
(* have the same cache mode.                                                 *)
THEOREM SessionsAlwaysMatch ==
  ASSUME FixedModes
  PROVE  Spec => []SessionsMatch
<1>1. Init => HInv /\ SInv
  BY HInit, SInit
<1>2. HInv /\ SInv /\ [Next]_vars => HInv' /\ SInv'
  <2>1. HInv /\ SInv /\ Next => HInv' /\ SInv'
    BY HNext, SNext
  <2>2. HInv /\ SInv /\ UNCHANGED vars => SInv'
    <3> SUFFICES ASSUME SInv, UNCHANGED vars
                 PROVE  SInv'
      OBVIOUS
    <3>1. config' = config /\ end' = end /\ wire' = wire /\ cache' = cache /\ count' = count
      BY DEF vars
    <3>2. Asked' = Asked /\ Answers' = Answers /\ Tickets' = Tickets /\ Finals' = Finals
      BY <3>1 DEF Asked, Answers, Tickets, Finals, Of, Msgs
    <3> QED
      BY <3>1, <3>2 DEF SInv
  <2>3. HInv /\ UNCHANGED vars => HInv'
    <3> SUFFICES ASSUME HInv, UNCHANGED vars
                 PROVE  HInv'
      OBVIOUS
    <3>1. /\ config' = config /\ end' = end /\ wire' = wire /\ cache' = cache
          /\ count' = count /\ past' = past
      BY DEF vars
    <3>2. Msgs' = Msgs /\ Known' = Known
      BY <3>1 DEF Msgs, Known
    <3> QED
      BY <3>1, <3>2 DEF HInv, Shape, Locals, Wires, Store, Both
  <2> QED
    BY <2>1, <2>2, <2>3
<1>3. SInv => SessionsMatch
  BY DEF SInv, SessionInv, Kept, SessionsMatch
<1> QED
  BY <1>1, <1>2, <1>3, PTL DEF Spec
=============================================================================
