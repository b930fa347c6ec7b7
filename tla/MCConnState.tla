---------------------------- MODULE MCConnState ----------------------------
(* The configurations ConnState is checked in.                              *)
EXTENDS ConnState

(* The configuration in which exactly the given options are set.             *)
With(options) ==
  [isClient |-> "isClient" \in options, tls13 |-> "tls13" \in options,
   datagram |-> "datagram" \in options, flightTransmit |-> "flightTransmit" \in options,
   quietShutdown |-> "quietShutdown" \in options,
   renegotiable |-> "renegotiable" \in options,
   allowClientRenegotiate |-> "allowClientRenegotiate" \in options,
   patient |-> "patient" \in options]

Client == With({"isClient", "flightTransmit", "patient"})
RenegotiatingClient == With({"isClient", "renegotiable", "patient"})
RenegotiatingServer == With({"renegotiable", "allowClientRenegotiate", "patient"})
ImpatientServer == With({})
DtlsServer == With({"datagram", "flightTransmit"})
Tls13Server == With({"tls13", "flightTransmit", "patient"})
QuietClient == With({"isClient", "quietShutdown", "renegotiable", "patient"})
PatientDtlsServer == With({"datagram", "flightTransmit", "patient"})
DtlsRenegotiatingServer == With({"datagram", "renegotiable", "allowClientRenegotiate"})

SafetyConfigs ==
  {Client, RenegotiatingClient, RenegotiatingServer, ImpatientServer, DtlsServer,
   Tls13Server, QuietClient}
ContextConfigs == {DtlsRenegotiatingServer}
RepeatedConfigs == {PatientDtlsServer}
=============================================================================
