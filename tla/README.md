# TLA+ models of the connection and record layers of openHiTLS

This directory holds TLA+ specifications of the protocol core of the repository, the
openHiTLS tree in `src/work/openhitls`: the DTLS 1.2 record layer and the ordering of
handshake messages, the connection as the application drives it, the cache of sessions that
connections share, and the TLS 1.2 handshake of a client with a server. TLC checks them on
small instances; TLAPS proves the most important invariants of the DTLS part, of the connection
layer and of the session cache for every value of the constants, that a connection
implements the stream its application is promised, and that the two ends of a TLS 1.2
connection agree on every handshake.

All paths below are relative to `src/work/openhitls/tls/` unless they start with `src/`.

## 1. Inventory of the repository

The repository is the work of a course on computer systems. Four experiments and a copy of
an open-source TLS library make it up.

| Part | What it is |
|---|---|
| `src/Experiment1` | matrix multiplication in several loop orders, scripts to benchmark it in virtual machines |
| `src/Experiment2` | `cache_sim.py`, a trace-driven set-associative cache simulator, and analyses that use it |
| `src/Experiment3` | variants of the SM4 cipher: tables, bit slices, SIMD, threads, RISC-V instructions |
| `src/Experiment4` | plots and a report |
| `src/work/openhitls` | the openHiTLS library: `bsl` (base services), `crypto`, `pki`, `auth`, `codecs`, `tls` |
| `src/work/libboundscheck` | vendored bounds-checked memory functions |

The only part with concurrency, failure and order to get wrong is `tls` (about 59 000
lines): one connection is a state machine driven by two sources that do not wait for each
other, the application's calls and the peer's records, and under DTLS the network may
lose, repeat, delay and reorder the latter.

### Components of `tls`, their state and their operations

* **Anti-replay window** (`record/src/rec_anti_replay.c`). State: the highest number and a
  64-bit word. Operations: reset, check, update. Correct when nothing is accepted twice
  and nothing is refused without a reason.
* **Record reading** (`record/src/rec_read.c`, `rec_unprocessed_msg.c`, `rec_buf.c`). State:
  the read epoch and the current and pending read states in `recCtx`; a slot for one
  handshake record of the next epoch (`unprocessedHsMsg`); a list of at most 50 records that
  came too early (`unprocessedAppMsgList`); lists of decrypted records nobody asked for yet
  (`hsRecList`, `appRecList`). Operations: `DtlsRecordRead` for the handshake and for the
  application, switching to the pending state. Correct when every record is decrypted under
  its epoch's keys, once, and what was set aside comes back.
* **ChangeCipherSpec** (`ccs/src/change_cipher_spec.c`). State: four flags. Operations: the
  handshake's commands (`CCS_Ctrl`) and the message itself (`ProcessPlainCCS`). Either may
  come first. Correct when the switch happens exactly once per handshake and has keys.
* **Record writing** (`record/src/rec_write.c`, `record.c`). State: the current, outdated and
  pending write states, each with keys, epoch and next sequence number. Correct when no
  number is used twice in an epoch and every message leaves under its own epoch.
* **Retransmission list** (`record/src/rec_retransmit.c`). State: the messages of the last
  flight and a mark that a ChangeCipherSpec is among them. Operations: append, clean, flush;
  the flush exchanges the write states and exchanges them back at the ChangeCipherSpec.
* **Retransmission timer** (`handshake/common/src/hs_dtls_timer.c`). State: deadline,
  timeout, number of tries; also the 2MSL timer that ends a handshake's afterlife.
* **Reassembly** (`handshake/reass/src/hs_reass.c`). State: a queue of nodes, one for each
  message number, each with a bitmap of the bytes that have come. Correct when only whole
  messages come out, the queue is bounded and everything comes out in the end.
* **Handshake receiving** (`handshake/recv/src/hs_state_recv.c` and the `recv_*` files).
  State: `hsCtx->state`, `expectRecvSeq`. Operations: read a fragment, put it in order, parse
  it, change the state; on a timeout, flush the list.
* **Handshake sending** (`handshake/send`, `handshake/pack`), **state machine** (`handshake/sm`),
  **parsing** (`handshake/parse`), **cookies** (`handshake/cookie`).
* **Connection layer** (`cm`). State: the connection's state (idle, handshaking, transporting,
  renegotiating, alerting, alerted, closed), `allowAppOut`, post-handshake flags. Operations:
  `HITLS_Connect`, `HITLS_Accept`, `HITLS_Read`, `HITLS_Peek`, `HITLS_Write`,
  `HITLS_Renegotiate`, `HITLS_Close`, key update.
* **Alerts** (`alert`, `record/src/rec_alert.c`): the pending alert and the count of warnings.
* **Application data** (`app`): splitting a write into records; what must be written again
  when the network was busy.
* **Sessions** (`feature/session`): a cache shared by the connections of a configuration,
  with a size limit, timeouts and a lock; tickets.
* **Configuration, certificates, crypto adapters** (`config`, `cert`, `crypt`): setters,
  lookups and callbacks.

### How they interact

`HITLS_Connect/Accept` run the handshake machine (`hs_sm.c`), which sends messages through
the record writer (each appended to the retransmission list) and asks the record reader for
fragments. The reader looks first into its lists, then into its slot, then at the network;
a record of another type than asked for goes to `RecordUnexpectedMsg`, which calls the CCS
module, the alert module, or the connection layer's callback for unexpected data. The
handshake establishes keys in the *pending* states; sending a ChangeCipherSpec switches the
write side, receiving one the read side. After the handshake `HITLS_Read` asks for data and
may get a handshake message: a repeated Finished (repeat the last flight) or a hello (start
a renegotiation), for which a new `hsCtx` is made. The timers of `hsCtx` are looked at
only when the user calls in.

### What is hard

* order: a Finished or data before its ChangeCipherSpec; a handshake message ahead of or
  behind the expected one; a record of an epoch that is over;
* repetition: a flight sent again after the write keys were switched, on either side;
* stale state: flags, lists, deadlines and numbers that outlive the handshake they
  belong to, when the next handshake runs on the same connection;
* calls: every call may be refused by a busy socket in the middle and any other call may
  follow; alerts, closing and renegotiation cross each other;
* threads: connections of one configuration share sessions and their cache under a lock;
* two deciders: client and server decide on resumption, tickets and renegotiation each for
  itself and must come to the same result;
* bounds: a window of 64, a list of 50, 10 messages ahead, the last sequence number;
* liveness: what was set aside or dropped must come back; what was kept must be released.

`PROJECT.json` lists each such place under `hazards`, at its line, with the properties
that would notice it going wrong, or the reason why none does.

## 2. The modules

```
RecAntiReplay ──► DtlsRecordRead ──► MCDtlsRecordRead
                        └──────────► DtlsRecordRead_proofs
DtlsRecordWrite ──► DtlsRecordWrite_proofs
ReassBitMap ──► HsReass ──► MCHsReass
                    └─────► HsReass_proofs

TlsRecordOut ──► ConnState ──► MCConnState          ConnState implements ConnLife
                     └───────► ConnState_proofs ──► ConnStream_proofs
BslHash ──► SessionCache ──► MCSessionCache
                  └────────► SessionCache_proofs
TlsHandshake ──► MCTlsHandshake                     TlsHandshake implements HsAgree
          └────► TlsHandshake_proofs ──► TlsSession_proofs
```

`MC…` modules hold the values of the constants for TLC. `ConnLife` and `HsAgree` are the
abstract specifications; the detailed ones instantiate them with a refinement mapping.

Definitions keep the names of the functions and fields they stand for; `PROJECT.json`
names the lines of each under `map`. A definition called `Faulty…` is not part of a
model: it is the definition after it with a slip a maintainer could make, and shows
that a property of the project notices such a slip.

### RecAntiReplay

The window as a record of `top` and the set of the one bits of the word, of any width.
`RecAntiReplayCheck` and `RecAntiReplayUpdate` are the functions of the file. A shift by
the width or more, which the code avoids, is the empty set.

### DtlsRecordRead

One endpoint's reading half, for client and server alike.

| Variable | Code |
|---|---|
| `readEpoch`, `readWindow`, `readPending` | `recCtx->readEpoch`; the window of the current read state; whether a pending state exists |
| `ccs` | the flags of `struct CcsCtx` that are true |
| `hsCtx` | whether `ctx->hsCtx` exists |
| `phase`, `handshakes`, `alertCause` | the connection's and the handshake's state, grouped by what the reader can tell apart |
| `unprocessedHsMsg`, `unprocessedAppMsgList` | the slot and the list of early records |
| `hsRecList`, `appRecList` | decrypted records nobody asked for |
| `accepted`, `replayed`, `consumed` | history: what was decrypted, decrypted twice, given to the user |

Each action is one call of `DtlsRecordRead` with all that follows it in the same call.
`HsReadList`, `HsReadCached` and `HsReadNetwork` are the calls of the handshake in the
order the code tries its sources, `AppReadList`, `AppReadCached` and `AppReadNetwork`
those of `HITLS_Read` and `HITLS_Peek` on a connected endpoint. `OfferSession` is the client that
offers a session and may see a ChangeCipherSpec before the ServerHello; `Renegotiate` and
`Release2Msl` are the connection layer's. What becomes of a handshake message is
`HandshakeMessage`; of a ChangeCipherSpec, `ProcessPlainCCS`; of data in a handshake,
`UnexpectedApp`. The network is a set of records, any of which may come at any time and
any number of times; one that is not `intact` fails its decryption.

Abstracted: a datagram holds one record and a record one message; keys are an
epoch; the handshake is its hello, its flight and its Finished.

### DtlsRecordWrite

One endpoint's writing half, either role.

| Variable | Code |
|---|---|
| `current`, `outdated`, `pending`, `writeEpoch` | `recCtx->writeStates`, `recCtx->writeEpoch`; a state is its keys (the handshake that made them), its epoch and its next number |
| `retransmitList`, `isExistCcsMsg` | `recCtx->retransmitList` |
| `flush` | the loop of `REC_RetransmitListFlush`: the node it is at, 0 outside it |
| `hsState`, `hsCtx`, `timer`, `isResume`, `handshakes` | `hsCtx->state`; whether `hsCtx` exists; what its deadline was set for; the negotiated resumption |
| `failed`, `sent`, `reused` | whether a switch found no keys; history: the records sent and the numbers used again |

There is an action for each state of the handshake that sends or receives, with what it
does to the states, the list and the timer, and actions for the timeout, each node of the
flush, `HITLS_Write`, data arriving, the 2MSL timer, a Finished that comes again, and
renegotiations of either side. What the peer does is a choice: the endpoint may be told
at any time what its state waits for. A send may be refused; outside the flush the whole
call is then repeated, inside it the loop goes on to the next node, as the code does.
The messages between ServerHello and ServerHelloDone, and a client's certificate, behave
like those named and are not listed one by one.

### ReassBitMap and HsReass

`ReassBitMap` is the bitmap byte by byte, with the two ways the code fills it: bit by bit
for 8 bytes and less, by masks for more.

`HsReass` is `DtlsTryRecvHandShakeMsg` over the queue: `state` is the place in the
sequence of message types the handshake waits for (`Expected`), `expectRecvSeq` and
`reassMsg` are the code's, `isRecvCCS` says whether the ChangeCipherSpec before the
Finished has come. `HS_GetReassMsg` takes a whole message from the queue before
anything is read; `DtlsTryRecvHandShakeMsg` reads one fragment and drops, queues or processes
it, including the reset of the expected number by a repeated first ClientHello
(`HelloAgain`); `StartHandshake` is a renegotiation's new `hsCtx`. `MayArrive` is what the
record layer, by its epochs, lets through: fragments of the present handshake, and a late
Finished of the one before, which is under the read epoch the next handshake starts in.
Histories remember which handshake each byte came from, what was processed, and how far
`expectRecvSeq` has been.

### TlsRecordOut and ConnState

One connection under the calls of its application, `HITLS_Connect`/`Accept`, `HITLS_Read`,
`HITLS_Write`, `HITLS_Close`, `HITLS_Renegotiate` and `HITLS_KeyUpdate`.

| Variable | Code |
|---|---|
| `conn` | `ctx->state`, `ctx->preState` |
| `shutdown`, `userShutDown`, `userRenego`, `isRenegotiation` | `shutdownState` and the flags of those names |
| `alertCtx` | `struct AlertCtx`: whether an alert waits to be sent or was received, its level and description, whether only the flush is missing, the count of consecutive alerts |
| `hsState` | `hsCtx->state`, grouped into sending, waiting for the peer's hello and waiting for anything else; `NONE` when `hsCtx` is NULL |
| `pendingData`, `path` | `recCtx->pendingData`; the record in the output buffer, the records in the buffering UIO of a handshake, what the socket took, and what was lost |
| `call`, `at`, `loop`, `ret` | the call in progress, which part of it, in which loop, and what it returned |
| `writing`, `accepted` | the buffer last given to `HITLS_Write`; history: those it accepted |
| `config` | role, version, transport, flight transmission, quiet shutdown, renegotiation settings, and whether the application repeats what was refused (`patient`) |

A call is split where the code can return or loop: `Dispatch` is the choice by state
(`conn_establish.c`, `conn_read.c`, `conn_write.c`), `Turn` one turn of a loop, with the
answers of the socket and what the peer sent as choices. `TlsRecordOut` is the way to the
network (`rec_write.c`, `uio_buffer.c`) as functions from a path to the possible results: a
stream takes all, a part or nothing of a record, a datagram socket all or nothing.

In the handshake a server may ask for the hello again (`HelloAgain`: a cookie in DTLS, a
HelloRetryRequest in TLS 1.3). Data that DTLS sets aside because it overtakes the Finished looks
to the loop as if nothing came (`ReceiveNothing`); `HsUnexpectedApp` is the data that is handed up.

Abstracted: the handshake is any alternation of sending and receiving; post-handshake
authentication, encryption and splitting are left out; an alert record carries one alert.

`ConnLife` is what the application is promised: buffers leave at most once and in order,
success is told only of what has left, nothing leaves after the direction was closed.

### BslHash and SessionCache

Several connections on threads of their own in one process, the application's references,
and the manager they share.

| Variable | Code |
|---|---|
| `heap` | the `HITLS_Session` objects: id, validity (`enable`), start and lifetime, references |
| `table`, `hashCount` | the buckets of `BSL_HASH_Info` and its `hashCount` |
| `mgr`, `owned` | mode, size, timeout and references of `TlsSessionManager`; whether the application still has its configuration |
| `writer` | the thread that holds the manager's lock over several steps |
| `conn` | for each connection where its handshake is, `ctx->session`, the session being resumed or made, the time it read and its iterator |
| `clock` | the time of the system, which never goes back |
| `kept`, `hellos`, `settings` | the application's references, and how often the bounded things happened |
| `doomed`, `corrupted` | history: what a clearing must remove; whether released memory was used |

A handshake takes a session by id (`SESSMGR_Find`, `ResumeFound`) or by ticket
(`ServerCheckResumeTicket`, `UpdateTicket`, which take no lock), and at its end clears the
cache, replaces the session and inserts it: reading the mode (`ReadMode`) and the insertion
are two sections under the lock, and the settings may change in between. What a ticket
carries is a session with an id of `TicketIds`.

A section under the lock that nobody else can see into is one step; the loop of
`SESSMGR_ClearTimeout` is one step for each node, because the iterator is what can go wrong
there. What a thread does before it takes and after it gives back the lock is a step of its own: the
time read before the lock, the reference taken after it. Undefined behaviour ends the model
(`corrupted`). Session ids are made of a small set; that the code tries ten times to find an
unused one is the choice of any unused one.

### TlsHandshake

A client and a server connected by a stream, one connection after the other.

| Variable | Code |
|---|---|
| `end` | for each end `ctx->state`, the handshake state and direction, what `hsCtx`, `negotiatedInfo` and `CcsCtx` hold, `ctx->session`, the current and pending keys of both directions, and (history) the handshakes completed |
| `wire` | the records on their way, each with the key it was written under |
| `cache` | the sessions in the server's session manager, by id |
| `config` | the configurations of both ends in this connection: key exchange, identity hint, client certificates, tickets, cache mode, renegotiation and resumption settings, and whether the application uses `HITLS_Read` or calls `HITLS_Connect` while renegotiating |
| `count`, `past` | bounds and fresh numbers; history: master secrets of earlier connections |

There is one action for each state of a TLS 1.2 handshake that sends and one for each that
receives, with the computation of keys and verify data, the transcript, the flags of the
ChangeCipherSpec and the change of keys at the place where the handlers have them, and actions
for renegotiation, data, alerts and new connections. Cryptography is symbolic: a random number is a
number never used before, a master secret is the pair of premaster and transcript, verify
data the label, master secret and transcript. A record can be read only with the key it was
written under.

Two ends of this library always negotiate the extended master secret (`pack_extensions.c`:
the client always sends the extension), so its absence is not modelled. A session or ticket
that has expired is a choice at the place where it is looked at. Cipher suites and cache
mode stay the same over connections in the passing run. Messages fit in one record and a
send is not refused: what refusals do is the subject of `ConnState`.

`HsAgree` is the promise of a handshake: whichever end completes one, the other completes
the same or none, with keys that are equal, fresh, and of a fresh master secret unless both
agree that one known to both was resumed. The refinement mapping gives it the list of completed
handshakes and the master secrets known from earlier connections.

## 3. Runs

| Run | Configuration | States | Shows |
|---|---|---|---|
| `read` | 14 records of two handshakes, one of them damaged, window 3, list 2 | 272 007 | keys, epochs, data and the slot stay right under every order and repetition; the window refuses replays and nothing else; an early Finished is found |
| `write_flights` | both roles, two handshakes, numbers 0–5 | 1 935 628 | messages leave in their epoch, under numbers used once; states are in place, a lost flight can be repeated |
| `write_release` | one handshake, fairness | violated | finding 1 |
| `reass_server` | cookies, a full handshake then a resumed one, messages cut in two ways, at most 2 ahead, fairness | 2 826 | no order of fragments is fatal, the transcript is whole, the queue bounded, the handshake completes |
| `reass_stale` | a server without cookies, two handshakes | violated | finding 2 |
| `conn_calls` | seven configurations, two buffers to write, five alerts, fairness | 172 288 | every order of calls, refusals and records of the peer: `ConnLife` is implemented, flags and alerts stay consistent, a connection that is closed again and again closes |
| `conn_repeated` | a patient DTLS server | violated | finding 3 |
| `conn_context` | a renegotiating DTLS server | violated | finding 4 |
| `sessions` | a server that begins two handshakes and a client that begins one, by id or ticket, two session objects, one expiry, a change of settings, fairness | 992 647 | references are exact, the table coherent, clearing complete and the lock released |
| `session_found` | two servers | violated | finding 5 |
| `handshake` | ten configurations, two connections, two renegotiations, one write, fairness | 248 699 | `HsAgree` is implemented, matching ends never fail and never wait for each other |
| `handshake_stale_id` | a server whose cache is switched off between two connections | violated | finding 6 |

### The properties

Reading: `AtMostOnce`, `WindowExact` (a refusal has a reason), `ActivationHasKeys`,
`OneEpochPerHandshake`, `FirstHandshakeToleratesApp` (data overtaking the Finished is
never fatal in a first handshake), `AppConserved` (data decrypted is given out once or still
waits), `HsCacheKept` (a later record does not displace the early Finished),
`EarlyFinishedCompletes` (liveness).

Writing: `NumberOnce`, `EpochOfMessage`, `CurrentStateInPlace`, `WriteActivationHasKeys`,
`LostFlightIsRepeated` (whenever the peer may lack the last flight, all of it is on the list,
in order, and a timer runs).

Reassembly: `WholeMessages`, `QueueBounded`, `NoFatalAlert`, `HandshakeCompletes` (liveness).

Connection: `NothingSwallowed` (a write that returned success wrote its own record),
`AppStream` (a patient application's data leaves once and in order), `CloseIsFinal`,
`CloseAnnounced` (a close that came through has told the peer, and so has the fatal alert that
ended a connection), `RenegotiationEnds` (no flag
stays that would stop later renegotiations), `LifeSpec` (refinement of `ConnLife`), `Closes`
(liveness: whatever the application did before, unless its `close_notify` and a write it does
not repeat wait for each other).

Sessions: `ReferencesExact`, `TableCoherent`, `ClearedAll` (erasing while iterating misses
nothing), `LeavesOnlyInvalid`, `GrowthBounded` (action properties), `LockReleased` (liveness).

Handshake: `Agreement` (refinement of `HsAgree`), `NoFailure` (whatever crosses on the wire,
no end of a matching pair finds a message unexpected or wrongly protected), `SessionsMatch`
(what the client will offer and the server will find is the same session), `Settles`
(liveness: whatever the configurations, both are connected or both have given up, again and
again).

Each module has one `TypeOK`; that of the reading half includes the limit of the list.

### Bounds, and why they are enough

* *Window 3 instead of 64.* The functions depend on the width only through comparisons with
  it. Numbers 0 to 6 lie at the top, inside, at the edge of and beyond the window, and jump by
  more than its width; the theorems hold for every width.
* *List of 2 instead of 50.* The run has more early records than that, so the limit is met.
* *Two handshakes.* Everything that outlives a handshake meets the next one; in
  `reass_server` the second one is resumed and has other numbers.
* *14 records.* Each kind of record in each epoch in which it can be sent, repetitions
  under new numbers of those a peer sends again (hello, ChangeCipherSpec, Finished), and a
  damaged copy that takes the number of an intact one.
* *Numbers up to 5 (or 4) instead of 2^48-1.* Reached by handshake and data, so that writing
  stops at the limit in every state, also within a flush.
* *2 messages ahead instead of 10.* Smaller than the number of messages of a flight,
  so that messages are dropped and must come again. `reass_stale` uses the code's 10.
* *Messages of 18 bytes in overlapping pieces of 4 to 12 bytes*, cut in two ways, so that
  both branches of `SetReassBitMap` are taken with ranges that begin and end inside a byte of
  the bitmap; the theorems hold for every length.
* *`ConnState`.* `MAX_ALERT_COUNT` is the code's 5. A UIO of two records is filled and
  emptied in part. Two buffers show loss, repetition and wrong order (`MaxWrites`). No new
  write is made with three records on the wire (`MaxWire`). The seven configurations take
  every branch on role, version, transport and option; their product would only repeat them.
* *`SessionCache`.* Two objects and two ids that share one of three buckets, with a size of 1
  or 2: the cache is full, ids collide in a bucket, objects are reused. Two hellos of the
  server and one of the client (`MaxHellos`, counted for each connection) are enough to make,
  resume and clear a session while the other end does the same. One ticket id, one reference
  of the application, one change of settings, one tick of the clock past the timeout of 1.

  The iterator's step from one filled bucket to the next is not in this instance. The same one
  with `Keys = {a, b, c}`, of which `b` has a bucket of its own, has 2 170 326 states and satisfies all
  properties but `LockReleased`, which was left out for the time it takes;
  `ClearingMissesNothing` proves `ClearedAll` for any number of buckets.
* *`TlsHandshake`.* Two connections and two renegotiations: what a connection leaves meets
  the next one, and both ends can start a renegotiation at once. One write crosses any of them. Each of
  the ten configurations takes another path; two connections may have different ones.

The sets of records, fragments and configurations and the constants named `Max…` are the
only bounds that the code does not have. The runs set `CHECK_DEADLOCK FALSE` where an
endpoint whose connection is over, or whose bounds are used up, really stops.

### Fairness

* `DtlsRecordRead!FairSpec`: weak fairness of reading from the list and the slot. An
  application calls `HITLS_Connect` or `HITLS_Accept` until it succeeds, and these read
  local sources before the network. Nothing is assumed of the network.
* `DtlsRecordWrite!FairSpec`: a flush, once begun, runs to its end, being a loop inside one
  call, and the application keeps calling, so that a deadline that passed is noticed.
* `HsReass!FairSpec`: the caller reads on, the ChangeCipherSpec comes, and the peer repeats
  every fragment of what was not answered, as the peer's own retransmission does.
* `ConnState!FairSpec`: a call that can go on does (`Dispatch`, `Turn`: code running inside a
  call), a patient application repeats a refused call (`Repeat`), `HITLS_Close` is called
  again and again, by patient applications and others, and a socket asked again and again takes the alert in the end
  (`AlertTaken`). The last two are strong: between two attempts other calls may come.
* `SessionCache!FairSpec`: the thread in the clearing loop is scheduled. Nothing is assumed of
  the other threads.
* `TlsHandshake!Spec`: each end's handlers run as long as they can: applications call
  `HITLS_Read`, `HITLS_Connect` or `HITLS_Accept` again until it succeeds, and a stream
  delivers. Nothing makes them renegotiate, write or reconnect.

## 4. Findings

1. `write_release`. After the peer's Finished has come again, `PreprocessUnexpectHsMsg`
   (`cm/src/conn_read.c:228`) has made a new `hsCtx`, whose deadline is not set; the 2MSL
   timeout never comes, and neither the list nor the context is released by it, as the
   comment at `handshake/sm/src/hs_sm.c:229` says.
2. `reass_stale`. `DtlsDisorderMsgProcess` (`handshake/recv/src/hs_state_recv.c:375`)
   discards the previous handshake's Finished only while the first message is awaited; later it is
   queued or parsed under its number and is fatal. Line 374 says it should be discarded. A
   server with cookies whose renegotiation resumes is safe (`reass_server`), one without
   cookies is not.
3. `conn_repeated`. When the flush after a record was put into the flight buffer is refused,
   `HITLS_Write` returns busy although the record will leave (`app/src/app.c:118`); the repeated call
   sends the data twice.
4. `conn_context`. `ReadEventInTransportingState` (`cm/src/conn_read.c:317`) releases
   `hsCtx` when application data is read and `isRenegotiation` is not set. A server that has begun a
   renegotiation (a DTLS one in this run) is then in `RENEGOTIATION` without a context, and the next call goes through
   a null pointer.
5. `session_found`. `ServerCheckResume` takes its reference after `SESSMGR_Find` has given
   back the lock (`handshake/recv/src/recv_client_hello.c:923`); another thread may have
   cleared the session in between.
6. `handshake_stale_id`. A client whose session is declined by a ServerHello without an id
   keeps the id it offered in `hsCtx` (`handshake/recv/src/recv_server_hello.c:655`) and
   stores the new session under it. If the server's cache still holds the old session, the next
   connection resumes with different master secrets and fails. It needs a server that kept
   sessions once and declines them now: its mode changed, and resumption in renegotiations
   is allowed by the client only. `handshake` keeps the mode, and there `SessionsMatch` holds.

The models show five more places that have no run of their own:

* `HITLS_Renegotiate` (`cm/src/conn_establish.c:698`) cleans the retransmission list only when
  `hsCtx` exists, but reading data frees `hsCtx` and leaves the list
  (`cm/src/conn_read.c:316-319`). The comment at `conn_establish.c:700` says the list needs to
  be cleared. The old ChangeCipherSpec and Finished stay before the new hello and are sent
  again at the first timeout. With resumption in renegotiations enabled that flush
  overwrites the pending write state, and the later switch fails: `WriteActivationHasKeys`
  is violated if `DtlsRecordWrite_flights.cfg` is given `ResumptionOnRenego = TRUE`. That is why
  `write_flights` uses the default, FALSE.
* A stream's record that was encrypted and refused is sent by the next `REC_Write`, whatever
  that one was asked to write (`record/src/rec_write.c:392`), which then returns success
  without having written its own. An application that goes on with another call meets it,
  `HITLS_Close` after a refused handshake message for example: `NothingSwallowed` and
  `CloseAnnounced` are violated for `ImpatientServer` without the condition
  `LeavesRecordBehind`.
* A `close_notify` waits for `pendingData` (`alert/src/alert.c:111`), which only a repeated
  `HITLS_Write` clears. An application that closes instead of repeating gets busy for
  ever: the connection is ALERTING then, and in that state `HITLS_Write` sends the alert first
  (`cm/src/conn_write.c:190`) and is refused as well. `Closes` names this wait
  (`WaitsForWrite`) as the only thing that may keep such an application's connection from
  being closed.
* A `close_notify` that the socket refuses during a handshake is never sent
  (`cm/src/conn_establish.c:155`): the connection becomes ALERTED, and the repeated `HITLS_Close`
  finds that state, sends nothing and succeeds (`conn_establish.c:194`).
  `src/work/openhitls/include/tls/hitls.h:264` says that the peer is sent one. `CloseAnnounced`
  is violated, for patient applications too, if it is also asked of connections that were closed
  in `ALERTED`; `CloseIsFinal` and `Closes` say that such a connection does not open again and is
  closed.
* Application data that arrives in a renegotiation is fatal unless the application is in
  `HITLS_Read` and the end waits for the peer's hello (`cm/src/conn_common.c:607`); an
  application that renegotiates by calling `HITLS_Connect` loses the connection. `NoFailure`
  is stated for `driver = "read"`.

## 5. Proofs

All theorems hold for every value of the constants that satisfies the modules' assumptions
and the hypotheses named below
(`WindowSizeAssumption`, `RecordReadAssumption`, `RecordWriteAssumption`, `ReassAssumption`,
`ConnAssumption`, `HashAssumption`, `SessionAssumption`, `HandshakeAssumption`). `ReassAssumption` says that the
peer's messages have one length each and the types that are awaited; `HashAssumption` that
`HashCode` maps every key into the buckets; `SessionAssumption` that there are finitely many
connections and cells; otherwise the assumptions only give the constants their types. Each
invariant named below was checked by TLC on small instances before it was proved.

* **`DtlsRecordRead_proofs`.** First the window, for every width: `UpdateKeepsRejected`: a number
  once refused stays refused, whatever is accepted later. It rests on what a shift does to the
  set of bits. Then the reader: `TypeCorrect`; `RecordsAtMostOnce` (`AtMostOnce`);
  `ReplayWindowExact` (`WindowExact`); `ActivationAlwaysHasKeys`; `EpochFollowsHandshakes`
  (`OneEpochPerHandshake`). None of these is inductive alone. `ReplayInv` adds that accepted
  records belong to epochs up to the current one and that the window refuses all accepted
  ones of the current epoch; every step either decrypts one record that passed the window or none
  (`EveryStep`). `ExactInv` states the exactness for all numbers. `KeyInv` says, for each phase,
  which flags are set, whether a pending state exists and how far the epoch is, and that
  the list of handshake records holds at most the hello of a new handshake.

  `EarlyRecordIsKept` (`HsCacheKept`) is an action property and needs the types only.
  `FirstHandshakeSurvivesData` (`FirstHandshakeToleratesApp`) assumes that the peer sends data
  under keys only (`NoPlainData`). `DataInv` adds that a handshake has its context and that the
  slot holds handshake records; with `PhaseInv` it follows that data of the current epoch that is not
  set aside came in a renegotiation. `DataIsConserved` (`AppConserved`) assumes that the
  peer uses each number once (`NumbersAreUnique`), which is what `NumberOnce` promises of the
  writing half. Every step takes one record of data, one other or none (`EveryStepHolds`), and by
  `ReplayInv` a record that is taken is new.
* **`DtlsRecordWrite_proofs`.** `WriteTypeCorrect`; `RecordNumbersOnce` (`NumberOnce`) for any limit
  and any number of handshakes, with resumption or without. `NumberInv`: each of the
  current and outdated states is ahead of all numbers sent in its epoch (`Tracks`), their epochs differ
  (`Distinct`), and while a flush has a ChangeCipherSpec before it (`CcsAhead`) the same holds
  of the state set aside in `pending`. That last part is the crux: in `pending` a new state with
  epoch 0 and number 0 and a set-aside state look alike, and only the position of the flush tells
  them apart; `ListInv` ties it to the list's mark.

  With `ResumptionOnRenego = FALSE` as a hypothesis, the library's default, the flights are proved
  as well: `MessagesKeepTheirEpoch` (`EpochOfMessage`), `CurrentStateStaysInPlace`
  (`CurrentStateInPlace`), `KeysAreThereToActivate` (`WriteActivationHasKeys`) and
  `LostFlightsAreRepeated` (`LostFlightIsRepeated`). Without the hypothesis the switch of the
  write keys can fail (section 4). `FlightInv` says, for each state of the handshake, which role it belongs to
  and whether the ChangeCipherSpec was sent (`RoleInv`), how the write epochs follow the
  handshakes (`EpochInv`), which of the current, outdated and pending states exist and which
  epoch each has, in a flush too (`StatesInv`), that the list is ordered by epoch and changes
  epoch at its ChangeCipherSpec only (`QueueInv`), and that no flight of a past handshake with a
  ChangeCipherSpec is left once the new one gets to its own (`NoOldFlight`). `RepeatInv` says
  which messages the list ends with in each state while a flight is being sent.
* **`HsReass_proofs`.** First the bitmap, for messages and fragments of every length:
  `SetMarksTheFragment`: the two ways of filling it add exactly the bytes of the fragment;
  `CompleteMeansAllBytes`: the test for completeness is exact. Then the queue:
  `ReassTypeCorrect`; `TranscriptOfWholeMessages` (`WholeMessages`);
  `QueueIsBounded` (`QueueBounded`). `ReassInv`: each node's bitmap says which bytes it was given,
  a node is complete only with all of them (`NodeOK`), the transcript is as long as the number
  expected and that is not ahead of the progress made.

  `PeerIsNeverAlerted` (`NoFatalAlert`) has the hypothesis `OldFinishedIsBeyond`: the number of a
  Finished lies behind the last message of the next handshake. Finding 2 is what happens without
  it; the instance of `reass_server` satisfies it, that of `reass_stale` does not. `PeerInv`
  says that each node holds bytes of one message only, of this handshake or the old Finished,
  and that the state and the number expected go together.
* **`SessionCache_proofs`.** `SessionTypeCorrect`; `ReferencesAreExact` (`ReferencesExact`);
  `TableIsCoherent` (`TableCoherent`); `ClearingMissesNothing` (`ClearedAll`);
  `OnlyInvalidLeave` (`LeavesOnlyInvalid`); `CacheGrowthBounded` (`GrowthBounded`), for any number
  of connections, sessions, ids and buckets. `CacheInv` is inductive: each count is the sum of
  the connections, the nodes and the references of the application that hold the object
  (`RefInv`), nodes are in the bucket of their key and `hashCount` is their number (`TableInv`), and
  what a connection relies on between two of its steps is still so after any step of
  another (`ConnOK`): the session it is to insert has the id it inserts it under, and while it
  clears the cache nobody else writes and its iterator stands on a node. A step is
  classified by what it moves, a reference of one connection (`ConnMove`), a node, or all of them,
  and one lemma for each class does the counting. `ClearInv` says that while the cache is
  cleared every node that was invalid at the beginning and is still there lies at or after the
  iterator; it needs that erasing a node keeps the order of the others, and that the time of
  the clearing does not change.
* **`ConnState_proofs`.** `ConnTypeCorrect`; `CloseStaysFinal` (`CloseIsFinal`); `RenegotiationsEnd`
  (`RenegotiationEnds`); `NothingIsSwallowed` (`NothingSwallowed`), for any set of
  configurations and any limit of alerts. `ConnInv` joins the loops with the states they run in
  (`LoopInv`), the pending alert with the loop and state it waits in (`AlertInv`), and states what
  must hold of the state the connection is in *or returns to* once its warning is sent
  (`Restored`): with all counted alerts used up (`WarnInv`), in a renegotiation
  (`RenegInv`) and after `HITLS_Close` (`ShutInv`). The three properties speak about the state
  only at rest; a connection in ALERTING would break them one step later, which is what
  `Restored` excludes. `PathInv` names the only owner of a record that a socket refused: the
  pending write of the application, a handshake message, or the alert, each with the
  position from which nothing but the repeated call goes on, or a connection that writes nothing
  any more (`WriteHeld`, `HandshakeHeld`, `AlertHeld`, `Over`). It is stated for applications that
  repeat refused calls and for DTLS, as `NothingSwallowed` is.

* **`ConnStream_proofs`.** `CloseIsAnnounced` (`CloseAnnounced`); `StreamInOrder` (`AppStream`);
  `LifeIsImplemented` (`LifeSpec`, the refinement of `ConnLife`). All of them compare what the
  application did with a subsequence of the records that left. `Chosen` takes the elements at
  given positions; what it returns is shown by an induction over the positions
  (`ChosenExists`, `ChosenElements`, `ChosenPrefix`), for which `SetInduction` says that a set of
  numbers with 0 and all successors is `Nat`, from the well-foundedness of `<`.

  `TellInv`: a connection closed after sending has a closing record on the wire, one ended by a
  fatal alert of its own (`Broke`) has it there too, and a final alert of which only the flush is missing is on the wire or in the flight buffer, which is
  not freed before that flush. It needs that an alert just raised never counts as written
  (`Fresh`). `OutInv` is the invariant of the stream: the flight buffer holds no
  data (`Carries` with `QuietRecords`), a connection marked as closed for sending is not open
  nor returns to being so (`SentInv`), the numbers of the data on the wire grow, and
  they are the buffers whose writes returned success (`StreamInv`). `NextStream` says that a
  step leaves the stream alone or appends the buffer that is being written, which is more than all
  before it; it gives the step of the refinement (`LifeStep`) at once.

  `StreamInOrder` and `LifeIsImplemented` have the hypothesis `PlainFlights`: a connection that
  collects its flights in a buffer (`config.flightTransmit`) is neither a datagram one nor one
  that can renegotiate. Data would otherwise be written through the buffer of a context that
  outlives its handshake, and finding 3 is what happens then. `FlightInv` is what the hypothesis
  gives: data is written only when there is no context. TLC shows `AppStream` violated for a patient
  server with each of the two alone; all patient configurations of `conn_calls` satisfy the
  hypothesis. `CloseIsAnnounced` does not need it.

* **`TlsHandshake_proofs`.** `TypeCorrect` (`TypeOK`); `AgreementHolds` (`Agreement`, the
  refinement of `HsAgree`), both from `InvariantHolds`, for any set of configurations, whether
  they fit each other or not, and any number of connections, renegotiations and writes.

  The argument: a Finished carries verify data, which is made of the master secret and the
  transcript, and a transcript begins with the two random numbers. An end that completes a
  handshake has compared such data with its own; what it needs in addition is how far the *other*
  end has come when it does. The end that sends its Finished first is the *opener* (the
  client of a full handshake, the server of a resumption), the other the *closer*. The closer
  completes first, as it sends its Finished; the opener completes when that arrives. `HInv` is
  the conjunction of

  - `Locals`: what an end's own state tells. In each stage of the handshake (`Stages`) it says
    which hellos the transcript begins with, where the master secret, the current and pending
    keys and the expected verify data come from (`AtKeyed`, `Writes`, `Reads`), and
    that the handshakes completed and the secrets of earlier connections are older than
    the handshake in progress (`Older`).
  - `Wires`: a ClientHello is newer than everything its server knows, those of a wire come in
    their order, random numbers and tickets are ones that were drawn. Random numbers, never used
    twice, tell handshakes apart; a master secret belongs to the handshake that
    made it by the client random its transcript begins with (`Gen`), so a secret is fresh exactly
    if this is the present one.
  - `Store`: a session the client holds has a secret that both ends have agreed on. That is what
    makes a resumption one of a known secret.
  - `Both`: the ends have completed the same handshakes, or one is ahead by one and the other
    waits in just that handshake or has failed (`Ahead`); two ends with the same client random are
    level (`Level`), and so are a closer that has read the opener's Finished and its opener
    (`Closings`); and each Finished on a wire that fits the handshake its receiver is in shows
    that its sender waits, or has completed (`Evidence`).

  Apart from the ClientHellos nothing is said about the *order* of messages on the wires.
  That keeps the invariant small, and it is why the result holds for every
  configuration, for ends that fail at any moment, and for messages that cross. A step is
  one of four kinds, for each of which one lemma carries over what concerns both ends: neither end
  completes (`Incomplete`), a closer completes (`Closes`), an opener completes (`Follows`), or a
  new connection is opened. The same classes are the steps of `HsAgree`.

* **`TlsSession_proofs`.** `SessionsAlwaysMatch` (`SessionsMatch`), on top of `HInv`, with the
  hypothesis `FixedModes`: configurations with the same key exchange have the same cache mode.
  Finding 6 is what happens without it: a server that stops keeping sessions renegotiates with a
  client that offers one it once kept. The configurations of `handshake` satisfy it, those of
  `handshake_stale_id` do not.

  The crux is that the client renames its session, or gives it another secret, only as it
  completes, and that the server's entry may be made, replaced or lost before that. `SInv` says
  what each message that carries an id or a ticket tells about the client it is on its way to:
  at most one ServerHello and one NewSessionTicket are on the way (`OneEach`), and the client
  waits for them (`HelloIs`, `TicketIs`); as long as a ServerHello or a ticket is still to come the
  client's handshake is the server's (`AnswerOK`, `TicketToCome`), and two ends with both hellos
  agree on what was negotiated (`SameHandshake`). It follows that the id under which the server
  inserts a full handshake's session is one the client does not hold, and is the one it is
  about to take with the same secret (`Made`, `Told`: the Finished of the client names that
  secret), and that a ticket that replaces the client's carries the secret it will be kept with.
  A dead client has no session, so nothing is claimed about the messages it left behind. The
  actions that send or read none of these messages are handled by one lemma (`GoesOn`).

Only model-checked: the liveness properties (`EarlyFinishedCompletes`, `HandshakeCompletes`, `Closes`,
`LockReleased`, `Settles`, `QueueIsReleased`) are out of the prover's reach, being about fairness.
`NoFailure` has no proof. It is about the order of all messages
on both wires under each kind of configuration: its invariant would enumerate the pairs of
places the two ends can be in with what is between them, a state graph rather than an argument,
which TLC walks and a reader of a proof would not. Induction theorems that
take an operator cannot be used with these provers; where an induction is needed it goes through a
set, as above. RECURSIVE operators,
which the prover does not handle either, are not used.

## 6. What is not modelled

* Encryption, parsing, negotiation, certificates, allocation failures: data without an effect
  on order, or errors that end the connection at once.
* TLS 1.3 handshakes: `ConnState` has the connection layer's branches for TLS 1.3 and the key
  update, but not the messages. Post-handshake authentication is left out there too.
* TLCP, DHE and SRP key exchange: other contents in the flights of `TlsHandshake`.
* The DTLS timer's arithmetic: a deadline is set or not, and one that is set may pass. The
  doubling of the timeout up to its limit touches one number that a unit test reaches.
* Fragments on the sending side of DTLS: a message is sent as one record.
* Both peers of a DTLS connection at once: reading and writing are checked separately, each against a peer
  that is freer than a real one. What needs the peer's own limits (a fragmented first
  ClientHello that resets the expected number) is listed under `hazards` without a property.
  `TlsHandshake` has both peers, over a stream.
* The encryption of tickets (`session_ticket.c`) and its keys: a ticket can be opened or not.
  `SESSMGR_SetTimeout`: the lifetime of sessions is fixed in a run.
* The cache simulator of Experiment 2, a sequential script compared with its own statistics; the
  threads of Experiment 3, which work on disjoint blocks and share nothing that is written;
  Experiments 1 and 4; `crypto`, `pki`, `auth`, `codecs`, `libboundscheck` and what `bsl` has
  besides the hash table: sequential computations, wrappers and encodings. They are most of
  the repository's lines, and none keeps state that two actors change.

## 7. Plan

Done, in the order of importance: the reading half with its window, the writing half with its
list, reassembly; then the connection layer with its alerts and
writes, the session cache, and the handshake of two peers with its abstract specification; the
proofs of the safety properties of all of them but one of the last, and of both
refinements.

To prove next, on top of `HInv`: `NoFailure`, first without renegotiation, where the messages on
the wires are one flight of one end.

To model next: fragments on the sending side of DTLS with a refusal in the middle, and the two peers of a
DTLS handshake, composed of the two halves.
