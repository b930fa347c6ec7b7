--------------------------- MODULE MCTlsHandshake ---------------------------
(* Instances of TlsHandshake: the configurations that take each path of the *)
(* handshake, and those of the stale session id.                            *)
EXTENDS TlsHandshake

Plain == [
  kx |-> "ECDHE", hint |-> FALSE, verify |-> FALSE, onceVerify |-> FALSE,
  clientCert |-> FALSE, allowNoCert |-> FALSE, ticketC |-> FALSE, ticketS |-> FALSE,
  cacheMode |-> "server", renegoC |-> TRUE, renegoS |-> TRUE, allowClientRenego |-> TRUE,
  resumeC |-> FALSE, resumeS |-> FALSE, driver |-> "read"]

(* Connections with ECDHE share the server's cache and its tickets.          *)
EcdheConfigs == {
  [Plain EXCEPT !.verify = TRUE, !.clientCert = TRUE, !.onceVerify = TRUE, !.resumeC = TRUE],
  [Plain EXCEPT !.ticketC = TRUE, !.ticketS = TRUE, !.resumeC = TRUE, !.resumeS = TRUE],
  [Plain EXCEPT !.ticketC = TRUE, !.renegoC = FALSE],
  [Plain EXCEPT !.allowClientRenego = FALSE, !.driver = "connect"]}

(* The other key exchanges; these servers keep no sessions.                  *)
OtherConfigs == {
  [Plain EXCEPT !.kx = "RSA", !.cacheMode = "none", !.verify = TRUE, !.allowNoCert = TRUE,
                !.ticketC = TRUE, !.ticketS = TRUE, !.resumeC = TRUE, !.resumeS = TRUE],
  [Plain EXCEPT !.kx = "RSA_PSK", !.cacheMode = "none", !.verify = TRUE, !.clientCert = TRUE],
  [Plain EXCEPT !.kx = "RSA_PSK", !.cacheMode = "none", !.hint = TRUE],
  [Plain EXCEPT !.kx = "PSK", !.cacheMode = "server", !.resumeC = TRUE, !.resumeS = TRUE],
  [Plain EXCEPT !.kx = "PSK", !.cacheMode = "server", !.hint = TRUE],
  [Plain EXCEPT !.kx = "RSA", !.cacheMode = "none", !.verify = TRUE, !.renegoS = FALSE]}

AgreeConfigs == EcdheConfigs \cup OtherConfigs

(* A server whose cache is switched off after its first connections.         *)
StaleConfigs == {
  [Plain EXCEPT !.resumeC = TRUE],
  [Plain EXCEPT !.resumeC = TRUE, !.cacheMode = "none"]}
=============================================================================
