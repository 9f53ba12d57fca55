---------------------------- MODULE MCAgentSetup ----------------------------
(* An instance of AgentSetup for TLC.  The Unix epoch is the instant 9 and *)
(* counts have 3 bits, so 5 .. 12 can be encoded and 2 has the count of 10.*)
EXTENDS AgentSetup

Manifest(package, epochs, expires) ==
    [Package |-> package, Epochs |-> epochs, ExpiresAt |-> expires,
     zone |-> "local", wellFormed |-> TRUE,
     WFCTLAssets |-> <<"linux/amd64", "linux/arm64">>,
     PackageSigningKeys |-> <<[KeyID |-> "pk", PublicKey |-> "pk"]>>]

(* A release that expires early, its copy in UTC, a newer release, and one *)
(* with an epoch of zero.                                                  *)
SomeManifests ==
    LET m == Manifest("p1", <<1, 1, 1>>, 11)
    IN  {m, [m EXCEPT !.zone = "utc"], Manifest("p1", <<1, 2, 1>>, 12),
         Manifest("p1", <<1, 1, 0>>, 12)}

(* One session asks for the older release and one for the newer.           *)
Session(c, epochs) ==
    [Challenge |-> c, Session |-> "s1", WorkerID |-> "w1", Package |-> "p1",
     Epochs |-> epochs, ExpiresAt |-> 12]
SomeSessions == {Session("c1", <<1, 1, 1>>), Session("c2", <<1, 2, 1>>)}
=============================================================================
