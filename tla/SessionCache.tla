---------------------------- MODULE SessionCache ----------------------------
(* The sessions of a process and the cache that keeps them: session.c (the  *)
(* session object and its reference count), session_mgr.c (the manager, a   *)
(* hash table behind a read-write lock) and the steps of the handshake that *)
(* use them (recv_client_hello.c, send_server_hello.c, send_client_hello.c, *)
(* recv_server_hello.c, recv_new_session_ticket.c, recv_finished.c,         *)
(* conn_common.c, conn_create.c).                                           *)
(* Each connection is driven by a thread of its own; all share one          *)
(* configuration, hence one manager.  A step of a connection is the code    *)
(* between two points at which another thread can act: a critical section   *)
(* of the manager's lock, of a session's lock, or code on private data.     *)
EXTENDS BslHash, FiniteSets

CONSTANTS
  Conns,         \* the connections
  Cells,         \* the memory of session objects
  Roles,         \* the assignments of "server" or "client" to connections
  Modes,         \* cache modes the configuration can be given later
  CacheSizes,    \* cache sizes it can be given later
  Settings,      \* cache mode, size and lifetime at the start
  MaxTime,       \* bound of the clock
  MaxSettings,   \* bound on the configuration changes
  MaxHellos,     \* bound on the handshakes of each connection
  TicketIds,     \* session ids that come with a ticket
  MaxKept,       \* bound on the references of the application
  None           \* no session, no session id, no holder of the lock

CacheModes == {"no", "client", "server", "both"}

ASSUME SessionAssumption ==
  /\ None \notin Keys \cup Conns \cup Cells
  /\ IsFiniteSet(Cells) /\ IsFiniteSet(Conns)
  /\ Roles \subseteq [Conns -> {"client", "server"}]
  /\ Settings \subseteq [mode : CacheModes, size : Nat, timeout : Nat]
  /\ Modes \subseteq CacheModes /\ CacheSizes \subseteq Nat
  /\ MaxTime \in Nat /\ MaxSettings \in Nat /\ MaxKept \in Nat
  /\ MaxHellos \in [Conns -> Nat]
  /\ TicketIds \subseteq Keys \cup {None}

VARIABLES
  role,          \* what each connection is
  heap,          \* the session objects
  table,         \* mgr->hash: nodes with a session id and a session
  hashCount,     \* hash->hashCount
  mgr,           \* sessCacheMode, sessCacheSize, sessTimeout, references
  writer,        \* the connection that holds mgr->lock for writing
  clock,         \* the system time
  conn,          \* the connections
  kept,          \* references the application holds: session -> count
  hellos,        \* handshakes each connection has begun
  settings,      \* configuration changes made
  owned,         \* the application still has its configuration
  doomed,        \* nodes that were invalid when the running clearing began
  corrupted      \* a session was used after it had been released

vars == <<role, heap, table, hashCount, mgr, writer, clock, conn, kept, hellos,
          settings, owned, doomed, corrupted>>

Freed == [live |-> FALSE, id |-> None, start |-> 0, timeout |-> 0,
          enable |-> FALSE, references |-> 0]

(* HITLS_SESS_New: one reference, enabled.                                  *)
NewSession(id) == [live |-> TRUE, id |-> id, start |-> clock, timeout |-> mgr.timeout,
                   enable |-> TRUE, references |-> 1]

Unused == [pc |-> "none", session |-> None, sess |-> None,
           isResume |-> FALSE, sessionId |-> None, curTime |-> 0, it |-> IterEnd]

(* SESS_CheckValidity.                                                      *)
Valid(s, time) == s.enable /\ time < s.start + s.timeout

(* HITLS_SESS_Dup, HITLS_SESS_UpRef.                                        *)
UpRef(h, s) == IF s = None THEN h ELSE [h EXCEPT ![s].references = @ + 1]

(* HITLS_SESS_Free: the last reference releases the memory.                 *)
Release(h, s) ==
  IF s = None THEN h
  ELSE IF h[s].references > 1 THEN [h EXCEPT ![s].references = @ - 1]
  ELSE [h EXCEPT ![s] = Freed]

(* A session after k calls of HITLS_SESS_Free.                              *)
ReleaseTimes(x, k) ==
  IF k = 0 THEN x
  ELSE IF x.references > k THEN [x EXCEPT !.references = @ - k]
  ELSE Freed

(* SESS_Disable.                                                            *)
Disable(h, s) == IF s = None THEN h ELSE [h EXCEPT ![s].enable = FALSE]

(* The handshake context is gone; the connection has its session.           *)
Done(c, pc) == [Unused EXCEPT !.pc = pc, !.session = conn[c].session]
Move(c, pc) == conn' = [conn EXCEPT ![c].pc = pc]
LockFree == writer = None
FreeCells(h) == {s \in Cells : ~h[s].live}   \* what malloc can return
MayKeep == FoldSet(LAMBDA s, n : n + kept[s], 0, Cells) < MaxKept
MgrAlive == mgr.references > 0

(* The nodes of the table that hold a session.                              *)
NodesOf(s) == {n \in Nodes(table) : n.value = s}

Init ==
  /\ role \in Roles
  /\ heap = [s \in Cells |-> Freed]
  /\ table = EmptyTable
  /\ hashCount = 0
  /\ \E m \in Settings :
       mgr = [mode |-> m.mode, size |-> m.size, timeout |-> m.timeout, references |-> 1]
  /\ writer = None
  /\ clock = 0
  /\ conn = [c \in Conns |-> Unused]
  /\ kept = [s \in Cells |-> 0]
  /\ hellos = [c \in Conns |-> 0]
  /\ settings = 0
  /\ owned = TRUE
  /\ doomed = {}
  /\ corrupted = FALSE

-----------------------------------------------------------------------------
(* Life of a connection, except the handshake.                              *)

(* HITLS_New copies the application's configuration: SESSMGR_Dup.           *)
HITLS_New(c) ==
  /\ conn[c].pc = "none" /\ owned /\ LockFree
  /\ mgr' = [mgr EXCEPT !.references = @ + 1]
  /\ Move(c, "idle")
  /\ UNCHANGED <<role, heap, table, hashCount, writer, clock, kept, hellos, settings, owned, doomed, corrupted>>

(* Points at which the application can call HITLS_Free, and at which a      *)
(* fatal alert can be sent or received.                                     *)
BetweenSteps == {"idle", "offered", "ticket", "hello", "finished", "open", "failed",
                 "alerted"}

(* HITLS_SetSession: the client will offer a session of the application.    *)
HITLS_SetSession(c, s) ==
  /\ role[c] = "client" /\ conn[c].pc \in {"idle", "open"} /\ kept[s] > 0
  /\ heap' = UpRef(Release(heap, conn[c].session), s)
  /\ conn' = [conn EXCEPT ![c].session = s]
  /\ UNCHANGED <<role, table, hashCount, mgr, writer, clock, kept, hellos, settings, owned, doomed, corrupted>>

(* HITLS_GetDupSession.                                                     *)
HITLS_GetDupSession(c) ==
  LET s == conn[c].session IN
  /\ conn[c].pc = "open" /\ s # None /\ MayKeep
  /\ heap' = UpRef(heap, s)
  /\ kept' = [kept EXCEPT ![s] = @ + 1]
  /\ UNCHANGED <<role, table, hashCount, mgr, writer, clock, conn, hellos, settings, owned, doomed, corrupted>>

(* A fatal alert was sent (AlertEventProcess) or received                   *)
(* (AlertRecvProcess): the session is not to be used any more.              *)
FatalAlert(c) ==
  /\ conn[c].pc \in BetweenSteps \ {"alerted", "failed"}
  /\ heap' = Disable(heap, conn[c].session)
  /\ conn' = [conn EXCEPT ![c] = Done(c, "alerted")]
  /\ UNCHANGED <<role, table, hashCount, mgr, writer, clock, kept, hellos, settings, owned, doomed, corrupted>>

(* HITLS_Free, first part: the session, then CFG_CleanConfig.               *)
HITLS_Free(c) ==
  /\ conn[c].pc \in BetweenSteps
  /\ heap' = Release(heap, conn[c].session)
  /\ conn' = [conn EXCEPT ![c] = [Unused EXCEPT !.pc = "freeing"]]
  /\ UNCHANGED <<role, table, hashCount, mgr, writer, clock, kept, hellos, settings, owned, doomed, corrupted>>

(* SESSMGR_Free: the last reference destroys the table, BSL_HASH_Clear      *)
(* releasing the sessions in it.                                            *)
FreeManager ==
  /\ mgr' = [mgr EXCEPT !.references = @ - 1]
  /\ IF mgr.references > 1 THEN UNCHANGED <<heap, table, hashCount>>
     ELSE /\ table' = EmptyTable /\ hashCount' = 0
          /\ heap' = [s \in Cells |-> ReleaseTimes(heap[s], Cardinality(NodesOf(s)))]

(* HITLS_Free, second part: SESSMGR_Free of the copied configuration.       *)
SESSMGR_Free(c) ==
  /\ conn[c].pc = "freeing" /\ LockFree
  /\ FreeManager
  /\ Move(c, "gone")
  /\ UNCHANGED <<role, writer, clock, kept, hellos, settings, owned, doomed, corrupted>>

-----------------------------------------------------------------------------
(* The server's use of sessions.                                            *)

(* ServerCheckResume, first part: SESSMGR_Find under the read lock.  The    *)
(* hello names a session, or none; a hello of a renegotiation in which no   *)
(* resumption is wanted has the effect of one that names none.  The pointer *)
(* found is used below, when the lock is free again.                        *)
SESSMGR_Find(c, id) ==
  /\ role[c] = "server" /\ conn[c].pc \in {"idle", "open"} /\ LockFree
  /\ hellos[c] < MaxHellos[c] /\ hellos' = [hellos EXCEPT ![c] = @ + 1]
  /\ conn' = [conn EXCEPT ![c].pc = "found", ![c].isResume = FALSE,
                          ![c].sessionId = None,
                          ![c].sess = IF id # None /\ HasKey(table, id)
                                         /\ Valid(heap[At(table, id)], clock)
                                      THEN At(table, id) ELSE None]
  /\ UNCHANGED <<role, heap, table, hashCount, mgr, writer, clock, kept, settings, owned, doomed, corrupted>>

(* The connection's earlier session is overwritten, not released.           *)
FaultyAgreeResume(c) ==
  /\ heap' = UpRef(heap, conn[c].sess)
  /\ conn' = [conn EXCEPT ![c].pc = "hello", ![c].session = conn[c].sess,
                          ![c].sess = None, ![c].isResume = TRUE]

(* HITLS_SESS_Dup of what was found; it takes the place of the              *)
(* connection's session.                                                    *)
AgreeResume(c) ==
  /\ heap' = Release(UpRef(heap, conn[c].sess), conn[c].session)
  /\ conn' = [conn EXCEPT ![c].pc = "hello", ![c].session = conn[c].sess,
                          ![c].sess = None, ![c].isResume = TRUE]

(* No session is resumed: the reference to what was found is given back.    *)
DeclineResume(c) ==
  /\ heap' = heap
  /\ conn' = [conn EXCEPT ![c].pc = "hello", ![c].sess = None]

(* The extended master secret does not fit: a fatal alert.                  *)
AbortResume(c) ==
  /\ heap' = Disable(heap, conn[c].session)
  /\ conn' = [conn EXCEPT ![c].pc = "alerted", ![c].sess = None]

(* ServerCheckResume, second part: HITLS_SESS_Dup of what was found, then   *)
(* ResumeCheckExtendedMasterScret and ServerCheckResumeSni, whose result    *)
(* depends on the hello and the session's attributes and is left open.  A   *)
(* session that was released in between is undefined behaviour: the model   *)
(* says nothing of what follows.  Memory that was released and taken again  *)
(* is another session.                                                      *)
ResumeFound(c) ==
  LET s == conn[c].sess IN
  /\ conn[c].pc = "found"
  /\ \/ /\ s = None
        /\ DeclineResume(c) /\ UNCHANGED corrupted
     \/ /\ s # None /\ ~heap[s].live
        /\ corrupted' = TRUE /\ UNCHANGED <<heap, conn>>
     \/ /\ s # None /\ heap[s].live
        /\ AgreeResume(c) \/ DeclineResume(c) \/ AbortResume(c)
        /\ UNCHANGED corrupted
  /\ UNCHANGED <<role, table, hashCount, mgr, writer, clock, kept, hellos, settings, owned, doomed>>

(* ServerCheckResumeTicket: the hello has a ticket, which takes no lock.    *)
(* A ticket that is not opened or has expired changes nothing; an error, or *)
(* an extended master secret that does not fit, is fatal.  Else a session   *)
(* made from the ticket, issued at some earlier time, takes the place of    *)
(* the connection's; it has an id of its own or the one of the hello.       *)
ServerCheckResumeTicket(c) ==
  LET old == conn[c].session IN
  /\ role[c] = "server" /\ conn[c].pc \in {"idle", "open"}
  /\ hellos[c] < MaxHellos[c] /\ hellos' = [hellos EXCEPT ![c] = @ + 1]
  /\ \/ heap' = heap /\ conn' = [conn EXCEPT ![c] = Done(c, "hello")]
     \/ heap' = Disable(heap, old) /\ conn' = [conn EXCEPT ![c] = Done(c, "alerted")]
     \/ /\ FreeCells(heap) # {}
        /\ \E id \in TicketIds, start \in 0 .. clock :
             LET s == CHOOSE x \in FreeCells(heap) : TRUE
                 sess == [NewSession(id) EXCEPT !.start = start] IN
             /\ Valid(sess, clock)
             /\ heap' = Release([heap EXCEPT ![s] = sess], old)
             /\ conn' = [conn EXCEPT ![c] =
                  [Done(c, "hello") EXCEPT !.session = s, !.isResume = TRUE]]
  /\ UNCHANGED <<role, table, hashCount, mgr, writer, clock, kept, settings, owned, doomed, corrupted>>

KeepsServerSessions == mgr.mode \in {"server", "both"}

(* ServerPrepareSessionId: the id of the session resumed; none, if the mode *)
(* asks for none or the client is to be given a ticket; else a random id    *)
(* that is not in the table.  After ten ids that are in it, a fatal alert.  *)
ServerPrepareSessionId(c) ==
  /\ role[c] = "server" /\ conn[c].pc = "hello" /\ LockFree
  /\ \/ /\ conn[c].isResume
        /\ conn' = [conn EXCEPT ![c].pc = "finished",
                                ![c].sessionId = heap[conn[c].session].id]
        /\ UNCHANGED heap
     \/ /\ ~conn[c].isResume
        /\ Move(c, "finished") /\ UNCHANGED heap
     \/ /\ ~conn[c].isResume /\ KeepsServerSessions
        /\ \E id \in Keys :
             /\ ~HasKey(table, id)
             /\ conn' = [conn EXCEPT ![c].pc = "finished", ![c].sessionId = id]
        /\ UNCHANGED heap
     \/ /\ ~conn[c].isResume /\ KeepsServerSessions
        /\ \E id \in Keys : HasKey(table, id)
        /\ heap' = Disable(heap, conn[c].session) /\ Move(c, "alerted")
  /\ UNCHANGED <<role, table, hashCount, mgr, writer, clock, kept, hellos, settings, owned, doomed, corrupted>>

-----------------------------------------------------------------------------
(* The client's use of sessions.                                            *)

(* ClientPrepareSession: a session that is not valid any more, that lacks   *)
(* the extended master secret, or that a renegotiation must not resume is   *)
(* dropped; the id of one that is kept goes into the hello.                 *)
ClientPrepareSession(c) ==
  LET s == conn[c].session
      keep == s # None /\ Valid(heap[s], clock) IN
  /\ role[c] = "client" /\ conn[c].pc \in {"idle", "open"}
  /\ hellos[c] < MaxHellos[c] /\ hellos' = [hellos EXCEPT ![c] = @ + 1]
  /\ \/ /\ keep
        /\ conn' = [conn EXCEPT ![c].pc = "offered", ![c].sessionId = heap[s].id]
        /\ UNCHANGED heap
     \/ /\ heap' = Release(heap, s)
        /\ conn' = [conn EXCEPT ![c].pc = "offered", ![c].session = None,
                                ![c].sessionId = None]
  /\ UNCHANGED <<role, table, hashCount, mgr, writer, clock, kept, settings, owned, doomed, corrupted>>

(* ClientCheckIfResumeFromSession and ClientCopySessionId for a ServerHello *)
(* with the given id.  A server that resumes can announce a new ticket.  (In *)
(* a full handshake the ticket waits in the handshake context for the new   *)
(* session; the id the client then makes is one of those an id can have     *)
(* here.)                                                                   *)
ClientRecvServerHello(c, id) ==
  LET resumes == conn[c].session # None /\ id # None /\ id = conn[c].sessionId IN
  /\ role[c] = "client" /\ conn[c].pc = "offered"
  /\ \E pc \in IF resumes THEN {"ticket", "finished"} ELSE {"finished"} :
       conn' = [conn EXCEPT ![c].pc = pc, ![c].isResume = resumes,
                            ![c].sessionId = IF id = None THEN @ ELSE id]
  /\ UNCHANGED <<role, heap, table, hashCount, mgr, writer, clock, kept, hellos, settings, owned, doomed, corrupted>>

(* Tls12ClientRecvNewSeesionTicketProcess in a resumption, UpdateTicket: a  *)
(* copy of the session takes the new ticket and the connection's session's  *)
(* place; the application's callback keeps it too, or not.  An empty ticket *)
(* changes nothing; without memory a fatal alert is sent.                   *)
UpdateTicket(c) ==
  LET old == conn[c].session IN
  /\ conn[c].pc = "ticket"
  /\ \/ Move(c, "finished") /\ UNCHANGED <<heap, kept>>
     \/ /\ FreeCells(heap) = {}
        /\ heap' = Disable(heap, old)
        /\ conn' = [conn EXCEPT ![c] = Done(c, "alerted")]
        /\ UNCHANGED kept
     \/ /\ FreeCells(heap) # {}
        /\ LET s == CHOOSE x \in FreeCells(heap) : TRUE
               copied == Release([heap EXCEPT ![s] = NewSession(heap[old].id)], old) IN
           /\ \/ heap' = copied /\ UNCHANGED kept
              \/ /\ MayKeep
                 /\ heap' = UpRef(copied, s) /\ kept' = [kept EXCEPT ![s] = @ + 1]
           /\ conn' = [conn EXCEPT ![c].pc = "finished", ![c].session = s]
  /\ UNCHANGED <<role, table, hashCount, mgr, writer, clock, hellos, settings, owned, doomed, corrupted>>

-----------------------------------------------------------------------------
(* HsSetSessionInfo, when the handshake is over.                            *)

(* SESSMGR_ClearTimeout reads the time before it takes the lock.            *)
ReadTime(c) ==
  /\ conn[c].pc = "finished"
  /\ conn' = [conn EXCEPT ![c].pc = "clearing", ![c].curTime = clock]
  /\ UNCHANGED <<role, heap, table, hashCount, mgr, writer, clock, kept, hellos, settings, owned, doomed, corrupted>>

(* The write lock is taken, the iterator set to the first node.             *)
BeginClear(c) ==
  /\ conn[c].pc = "clearing" /\ LockFree
  /\ writer' = c
  /\ conn' = [conn EXCEPT ![c].pc = "clear", ![c].it = FirstFrom(table, 0)]
  /\ doomed' = {n \in Nodes(table) : ~Valid(heap[n.value], conn[c].curTime)}
  /\ UNCHANGED <<role, heap, table, hashCount, mgr, clock, kept, hellos, settings, owned, corrupted>>

(* The count falls for the nodes that stay as well.                         *)
FaultyClearNode(c) ==
  LET it == conn[c].it IN
  /\ conn[c].pc = "clear" /\ it # IterEnd
  /\ conn' = [conn EXCEPT ![c].it = IterNext(table, it)]
  /\ hashCount' = hashCount - 1
  /\ IF Valid(heap[At(table, it)], conn[c].curTime)
     THEN UNCHANGED <<heap, table>>
     ELSE /\ table' = Erase(table, it)
          /\ heap' = Release(heap, At(table, it))
  /\ UNCHANGED <<role, mgr, writer, clock, kept, hellos, settings, owned, doomed, corrupted>>

(* Every node is erased.                                                    *)
FaultyEraseNode(c) ==
  LET it == conn[c].it IN
  /\ conn[c].pc = "clear" /\ it # IterEnd
  /\ conn' = [conn EXCEPT ![c].it = IterNext(table, it)]
  /\ table' = Erase(table, it)
  /\ hashCount' = hashCount - 1
  /\ heap' = Release(heap, At(table, it))
  /\ UNCHANGED <<role, mgr, writer, clock, kept, hellos, settings, owned, doomed, corrupted>>

(* The iterator moves on only when its node is erased.                      *)
FaultyAdvance(c) ==
  LET it == conn[c].it IN
  /\ conn[c].pc = "clear" /\ it # IterEnd
  /\ IF Valid(heap[At(table, it)], conn[c].curTime)
     THEN UNCHANGED <<conn, heap, table, hashCount>>
     ELSE /\ table' = Erase(table, it)
          /\ conn' = [conn EXCEPT ![c].it = IterNext(table, it)]
          /\ hashCount' = hashCount - 1
          /\ heap' = Release(heap, At(table, it))
  /\ UNCHANGED <<role, mgr, writer, clock, kept, hellos, settings, owned, doomed, corrupted>>

(* One round of the loop: an invalid node is erased, with its reference to  *)
(* the session; the iterator moves on.                                      *)
ClearNode(c) ==
  LET it == conn[c].it IN
  /\ conn[c].pc = "clear" /\ it # IterEnd
  /\ conn' = [conn EXCEPT ![c].it = IterNext(table, it)]
  /\ IF Valid(heap[At(table, it)], conn[c].curTime)
     THEN UNCHANGED <<heap, table, hashCount>>
     ELSE /\ table' = Erase(table, it)
          /\ hashCount' = hashCount - 1
          /\ heap' = Release(heap, At(table, it))
  /\ UNCHANGED <<role, mgr, writer, clock, kept, hellos, settings, owned, doomed, corrupted>>

(* The loop is over: the lock is released, a resumption needs no more.      *)
EndClear(c) ==
  /\ conn[c].pc = "clear" /\ conn[c].it = IterEnd
  /\ writer' = None /\ doomed' = {}
  /\ conn' = [conn EXCEPT ![c] = IF conn[c].isResume THEN Done(c, "open")
                                 ELSE [@ EXCEPT !.pc = "replace", !.curTime = 0]]
  /\ UNCHANGED <<role, heap, table, hashCount, mgr, clock, kept, hellos, settings, owned, corrupted>>

(* The new session replaces the connection's.  HITLS_SESS_New and           *)
(* SessionConfig give it the id of the handshake; its lifetime is the one   *)
(* of the configuration, which SESSMGR_GetTimeout reads and nobody changes, *)
(* and which is also what a server of this configuration hints in a ticket. *)
(* When memory runs out, the connection is left without a session.          *)
ReplaceSession(c) ==
  LET dropped == Release(heap, conn[c].session) IN
  /\ conn[c].pc = "replace"
  /\ IF FreeCells(dropped) = {}
     THEN /\ heap' = dropped
          /\ conn' = [conn EXCEPT ![c].pc = "failed", ![c].session = None]
     ELSE LET s == CHOOSE x \in FreeCells(dropped) : TRUE IN
          /\ heap' = [dropped EXCEPT ![s] = NewSession(conn[c].sessionId)]
          /\ conn' = [conn EXCEPT ![c].session = s, ![c].pc = "mode"]
  /\ UNCHANGED <<role, table, hashCount, mgr, writer, clock, kept, hellos, settings, owned, doomed, corrupted>>

(* The modes in which a session of this end is cached.                      *)
KeptInMode(c) == mgr.mode \in {"both", role[c]}

(* SESSMGR_InsertSession, first part: the mode is read under the read lock. *)
(* A session that has no id or is not to be cached is left alone.           *)
ReadMode(c) ==
  /\ conn[c].pc = "mode" /\ LockFree
  /\ Move(c, IF conn[c].sessionId # None /\ KeptInMode(c) THEN "insert" ELSE "callback")
  /\ UNCHANGED <<role, heap, table, hashCount, mgr, writer, clock, kept, hellos, settings, owned, doomed, corrupted>>

(* The session is added to the table of the cache, which then holds a       *)
(* reference to it, unless its id is in it.                                 *)
AddToTable(c) ==
  LET added == Insert(table, conn[c].sessionId, conn[c].session) IN
  /\ table' = added
  /\ IF added = table THEN UNCHANGED <<hashCount, heap>>
     ELSE hashCount' = hashCount + 1 /\ heap' = UpRef(heap, conn[c].session)

(* A full table is recognised one session late.                             *)
FaultyInsertSession(c) ==
  /\ conn[c].pc = "insert" /\ LockFree
  /\ IF hashCount <= mgr.size THEN AddToTable(c) ELSE UNCHANGED <<table, hashCount, heap>>
  /\ Move(c, "callback")
  /\ UNCHANGED <<role, mgr, writer, clock, kept, hellos, settings, owned, doomed, corrupted>>

(* SESSMGR_InsertSession, second part, under the write lock: nothing        *)
(* happens when the table is full.                                          *)
InsertSession(c) ==
  /\ conn[c].pc = "insert" /\ LockFree
  /\ IF hashCount < mgr.size THEN AddToTable(c) ELSE UNCHANGED <<table, hashCount, heap>>
  /\ Move(c, "callback")
  /\ UNCHANGED <<role, mgr, writer, clock, kept, hellos, settings, owned, doomed, corrupted>>

(* newSessionCb: the application keeps the reference made for it, or it is  *)
(* released again.                                                          *)
NewSessionCb(c) ==
  LET s == conn[c].session IN
  /\ conn[c].pc = "callback"
  /\ \/ UNCHANGED <<heap, kept>>
     \/ /\ MayKeep
        /\ heap' = UpRef(heap, s) /\ kept' = [kept EXCEPT ![s] = @ + 1]
  /\ conn' = [conn EXCEPT ![c] = Done(c, "open")]
  /\ UNCHANGED <<role, table, hashCount, mgr, writer, clock, hellos, settings, owned, doomed, corrupted>>

-----------------------------------------------------------------------------
(* The application and time.                                                *)

(* HITLS_SESS_Free of a reference of the application.                       *)
HITLS_SESS_Free(s) ==
  /\ kept[s] > 0
  /\ heap' = Release(heap, s)
  /\ kept' = [kept EXCEPT ![s] = @ - 1]
  /\ UNCHANGED <<role, table, hashCount, mgr, writer, clock, conn, hellos, settings, owned, doomed, corrupted>>

(* SESSMGR_SetCacheMode, SESSMGR_SetCacheSize.                              *)
Configure ==
  /\ owned /\ LockFree /\ settings < MaxSettings
  /\ settings' = settings + 1
  /\ \/ \E m \in Modes : mgr' = [mgr EXCEPT !.mode = m]
     \/ \E n \in CacheSizes : mgr' = [mgr EXCEPT !.size = n]
  /\ UNCHANGED <<role, heap, table, hashCount, writer, clock, conn, kept, hellos, owned, doomed, corrupted>>

(* HITLS_CFG_FreeConfig of the application's own configuration, after which *)
(* it makes no new connections and no settings.  Bounded like a setting.    *)
FreeConfig ==
  /\ owned /\ LockFree /\ settings < MaxSettings
  /\ owned' = FALSE /\ settings' = settings + 1
  /\ FreeManager
  /\ UNCHANGED <<role, writer, clock, conn, kept, hellos, doomed, corrupted>>

Tick ==
  /\ clock < MaxTime /\ clock' = clock + 1
  /\ UNCHANGED <<role, heap, table, hashCount, mgr, writer, conn, kept, hellos, settings, owned, doomed, corrupted>>

(* The steps of HsSetSessionInfo.                                           *)
HsSetSessionInfo(c) ==
  \/ ReadTime(c) \/ BeginClear(c) \/ ClearNode(c) \/ EndClear(c)
  \/ ReplaceSession(c) \/ ReadMode(c) \/ InsertSession(c)
  \/ NewSessionCb(c)

ServerStep(c) ==
  \/ \E id \in Keys \cup {None} : SESSMGR_Find(c, id)
  \/ ResumeFound(c) \/ ServerCheckResumeTicket(c) \/ ServerPrepareSessionId(c)

ClientStep(c) ==
  \/ ClientPrepareSession(c)
  \/ \E id \in Keys \cup {None} : ClientRecvServerHello(c, id)
  \/ UpdateTicket(c)

LifeStep(c) ==
  \/ HITLS_New(c)
  \/ \E s \in Cells : HITLS_SetSession(c, s)
  \/ HITLS_GetDupSession(c) \/ FatalAlert(c) \/ HITLS_Free(c) \/ SESSMGR_Free(c)

NextStep ==
  \/ \E c \in Conns : HsSetSessionInfo(c) \/ ServerStep(c) \/ ClientStep(c) \/ LifeStep(c)
  \/ \E s \in Cells : HITLS_SESS_Free(s)
  \/ Configure \/ FreeConfig \/ Tick

(* Nothing is said of what follows the use of released memory.              *)
SessionNext == ~corrupted /\ NextStep

Spec == Init /\ [][SessionNext]_vars

(* A thread that holds the lock is scheduled.                               *)
FairSpec == Spec /\ \A c \in Conns : WF_vars(~corrupted /\ (ClearNode(c) \/ EndClear(c)))

-----------------------------------------------------------------------------
Sessions ==
  [live : BOOLEAN, id : Keys \cup {None}, start : Nat, timeout : Nat,
   enable : BOOLEAN, references : Nat]

NodeType == [key : Keys, value : Cells]

Points == {"none", "idle", "found", "hello", "offered", "ticket", "finished",
           "clearing", "clear", "replace", "mode", "insert", "callback", "open", "failed", "alerted",
           "freeing", "gone"}

Connections ==
  [pc : Points, session : Cells \cup {None}, sess : Cells \cup {None},
   isResume : BOOLEAN, sessionId : Keys \cup {None}, curTime : 0 .. MaxTime,
   it : Keys \cup {IterEnd}]

(* The variables have their types.                                          *)
TypeOK ==
  /\ role \in Roles
  /\ heap \in [Cells -> Sessions]
  /\ table \in [Buckets -> Seq(NodeType)]
  /\ hashCount \in Nat
  /\ mgr \in [mode : CacheModes, size : Nat, timeout : Nat, references : Nat]
  /\ writer \in Conns \cup {None}
  /\ clock \in 0 .. MaxTime
  /\ conn \in [Conns -> Connections]
  /\ kept \in [Cells -> Nat]
  /\ hellos \in [Conns -> Nat]
  /\ settings \in 0 .. MaxSettings
  /\ owned \in BOOLEAN
  /\ doomed \subseteq NodeType
  /\ corrupted \in BOOLEAN

(* Who holds references to a session: connections, nodes of the table, the  *)
(* application.                                                             *)
Holders(s) ==
  Cardinality({c \in Conns : conn[c].session = s})
  + Cardinality(NodesOf(s))
  + kept[s]

(* Every session has as many references as holders, however the threads     *)
(* interleave: none is released while somebody holds it, none stays when    *)
(* everybody has let go.  The same holds of the manager.  (HITLS_SESS_Dup,  *)
(* HITLS_SESS_Free and their callers.)                                      *)
ReferencesExact ==
  ~corrupted =>
    /\ \A s \in Cells :
         /\ heap[s].references = Holders(s)
         /\ heap[s].live <=> Holders(s) > 0
    /\ mgr.references = Cardinality({c \in Conns : conn[c].pc \notin {"none", "gone"}})
                        + (IF owned THEN 1 ELSE 0)
    /\ ~MgrAlive => Nodes(table) = {}

(* The table's count is its number of nodes; a key is in its own bucket and *)
(* only once; the session found under an id has this id.                    *)
TableCoherent ==
  /\ hashCount = Cardinality(Nodes(table))
  /\ \A b \in Buckets : \A i, j \in DOMAIN table[b] :
       /\ HashCode(table[b][i].key) = b
       /\ table[b][i].key = table[b][j].key => i = j
  /\ \A n \in Nodes(table) : heap[n.value].id = n.key

(* The loop of SESSMGR_ClearTimeout, which erases nodes while it walks      *)
(* over them, misses no session that was expired or disabled when it began. *)
ClearedAll ==
  \A c \in Conns :
    conn[c].pc = "clear" /\ conn[c].it = IterEnd => doomed \cap Nodes(table) = {}

(* A session leaves the cache only because it has expired or was disabled,  *)
(* or with the manager; nothing else evicts or replaces it.                 *)
LeavesOnlyInvalid ==
  [][\A n \in Nodes(table) \ Nodes(table') :
       ~Valid(heap[n.value], clock) \/ mgr'.references = 0]_vars

(* The cache does not grow past the size in force, although the size is     *)
(* changed and several threads insert.                                      *)
GrowthBounded == [][hashCount' > hashCount => hashCount' <= mgr.size]_vars

(* The thread that clears the cache comes to an end and releases the lock   *)
(* all others wait for.                                                     *)
LockReleased == writer # None ~> (LockFree \/ corrupted)

(* No session is used after its release: what HITLS_SESS_Dup is given is a  *)
(* session.                                                                 *)
FoundIsHeld == ~corrupted
=============================================================================
