----------------------------- MODULE AgentSetup -----------------------------
(***************************************************************************)
(* Agent setup of protocol/bootstrap.go: a release root signs a bootstrap  *)
(* manifest, a worker verifies it and installs the package, and the worker *)
(* signs an install receipt that the host verifies against the binding it  *)
(* stored when the setup session was opened.  The install itself, the      *)
(* session store, the consumption of a challenge and the transport are     *)
(* external.  A worker is taken at its word: it installs for sessions of   *)
(* its own, from any manifest that verifies, and its receipt says what it  *)
(* installed and when by its clock.                                        *)
(*                                                                         *)
(* A receipt is signed over a protobuf message with 64-bit nanosecond      *)
(* instants, so instants here have the width of module Instants.           *)
(***************************************************************************)
EXTENDS RecoveryEnvelope, Instants, Sequences, FiniteSets

CONSTANTS
    Root,         \* the pinned bootstrap root key
    Workers,      \* workers; each is also its own signing key
    Manifests,    \* bootstrap manifests a release may try to sign
    Sessions,     \* bindings of the setup sessions a host may open
    OtherInstants,\* instants a damaged receipt may carry
    Nothing,      \* no install in progress
    StartTime, MaxTime,  \* bounds of the clocks
    MaxMessages   \* bound on manifests, and on receipts, in transit

VARIABLES
    now,          \* clocks of the host and of the workers
    manifests,    \* signed manifests in transit, never removed
    sessions,     \* bindings the host stores
    install,      \* what each worker is installing, and how far it got
    reported,     \* history: receipts a worker signed, with the install
    receipts,     \* receipts in transit, never removed
    confirmed     \* receipts the host verified: binding, receipt and clock

vars == <<now, manifests, sessions, install, reported, receipts, confirmed>>

Parties == {Root} \cup Workers   \* Root's clock is the host's

ASSUME SetupAssumption ==
    /\ Root \notin Workers /\ NoKey \notin Parties
    /\ StartTime \in Nat \ {0} /\ MaxTime \in Nat /\ StartTime <= MaxTime
    /\ MaxMessages \in Nat

-----------------------------------------------------------------------------
(* Bootstrap manifests.                                                    *)

Distinct(s) == \A i, j \in DOMAIN s : i # j => s[i] # s[j]

Positive(epochs) == \A i \in DOMAIN epochs : epochs[i] > 0

(* Key IDs must be the fingerprint of the key next to them; fingerprints   *)
(* are symbolic, the key itself.                                           *)
ValidManifest(m) ==
    /\ m.wellFormed
    /\ m.WFCTLAssets # <<>> /\ Distinct(m.WFCTLAssets)
    /\ Positive(m.Epochs)
    /\ m.PackageSigningKeys # <<>>
    /\ \A i \in DOMAIN m.PackageSigningKeys :
          m.PackageSigningKeys[i].KeyID = m.PackageSigningKeys[i].PublicKey
    /\ Distinct([i \in DOMAIN m.PackageSigningKeys |->
                    m.PackageSigningKeys[i].KeyID])
    /\ m.ExpiresAt # 0

ManifestValidAt(m, t) == ValidManifest(m) /\ Unexpired(m.ExpiresAt, t)

CanonicalBytes(m) ==
    recoverySigningJSON("compute-bootstrap-manifest.v1", [m EXCEPT !.zone = "utc"])

(* A slip: the expiry is left to whoever downloads the manifest.           *)
VerifyManifest_NoExpiry(m, signature, public, t) ==
    /\ ValidManifest(m)
    /\ verifyRecoveryBytes(CanonicalBytes(m), signature, public)

VerifyManifest(m, signature, public, t) ==
    /\ ManifestValidAt(m, t)
    /\ verifyRecoveryBytes(CanonicalBytes(m), signature, public)

-----------------------------------------------------------------------------
(* Install receipts.                                                       *)

Binding(r) ==
    [Challenge |-> r.Challenge, Session |-> r.Session, WorkerID |-> r.WorkerID,
     Package |-> r.Package, Epochs |-> r.Epochs, ExpiresAt |-> r.ExpiresAt]

ASSUME SessionsAssumption == \A b \in Sessions : Binding(b) = b

(* A slip: the receipt's instants are only required to be there.           *)
ValidInstants_Nonzero(r) ==
    \A t \in {r.HeartbeatAt, r.CompletedAt, r.ExpiresAt} : t # 0

(* An instant must survive the trip through its nanosecond count, which    *)
(* the epoch itself does not: its count is the zero time's.                *)
ValidInstants(r) ==
    \A t \in {r.HeartbeatAt, r.CompletedAt, r.ExpiresAt} :
        t # 0 /\ timeFromUnixNano(unixNanoOrZero(t)) = t

ValidReceipt(r) ==
    /\ r.wellFormed
    /\ Positive(r.Epochs)
    /\ r.SlotID \in {"A", "B"}
    /\ r.StartedPID > 0 /\ r.ScanHitCount = 0
    /\ ValidInstants(r)
    /\ r.HeartbeatAt <= r.CompletedAt /\ r.CompletedAt < r.ExpiresAt

ReceiptValidAt(r, t) ==
    /\ ValidReceipt(r)
    /\ Unexpired(r.ExpiresAt, t)
    /\ r.CompletedAt <= t

(* The protobuf message: the receipt with its instants as counts.          *)
SigningPayload(r) ==
    [r EXCEPT !.HeartbeatAt = unixNanoOrZero(@),
              !.CompletedAt = unixNanoOrZero(@),
              !.ExpiresAt = unixNanoOrZero(@)]

ReceiptSigningBytes(r) == <<"agent-setup-install-receipt.v1", SigningPayload(r)>>

(* A slip: the epochs of the receipt are not compared.                     *)
VerifyReceipt_AnyEpochs(m, public, expected, t) ==
    /\ ReceiptValidAt(m.body, t)
    /\ Binding([m.body EXCEPT !.Epochs = expected.Epochs]) = expected
    /\ verifyRecoveryBytes(ReceiptSigningBytes(m.body), m.Signature, public)

VerifyReceipt(m, public, expected, t) ==
    /\ ReceiptValidAt(m.body, t)
    /\ Binding(m.body) = expected
    /\ verifyRecoveryBytes(ReceiptSigningBytes(m.body), m.Signature, public)

-----------------------------------------------------------------------------
Init ==
    /\ now = [p \in Parties |-> StartTime]
    /\ manifests = {} /\ sessions = {}
    /\ install = [w \in Workers |-> Nothing]
    /\ reported = {} /\ receipts = {} /\ confirmed = {}

SendManifest(m) ==
    /\ m \in manifests \/ Cardinality(manifests) < MaxMessages
    /\ manifests' = manifests \cup {m}

SendReceipt(m) ==
    /\ m \in receipts \/ Cardinality(receipts) < MaxMessages
    /\ receipts' = receipts \cup {m}

(* Signing validates the manifest.                                         *)
SignManifest(m) ==
    /\ ValidManifest(m)
    /\ SendManifest([body |-> m, Signature |->
                        signRecoveryBytes(CanonicalBytes(m), Root)])
    /\ UNCHANGED <<now, sessions, install, reported, receipts, confirmed>>

AlterManifest(s, m) ==
    /\ SendManifest([s EXCEPT !.body = m])
    /\ UNCHANGED <<now, sessions, install, reported, receipts, confirmed>>

OpenSession(b) ==
    /\ sessions' = sessions \cup {b}
    /\ UNCHANGED <<now, manifests, install, reported, receipts, confirmed>>

(* A slip: a heartbeat of the abandoned install counts for the new one.    *)
Install_KeepsHeartbeat(w, s, b) ==
    /\ b.WorkerID = w
    /\ VerifyManifest(s.body, s.Signature, Root, now[w])
    /\ install' = [install EXCEPT ![w] =
          [manifest |-> s.body, binding |-> b, at |-> now[w],
           heartbeat |-> IF @ = Nothing THEN 0 ELSE @.heartbeat]]
    /\ UNCHANGED <<now, manifests, sessions, reported, receipts, confirmed>>

(* A worker verifies a manifest with the pinned root and installs its      *)
(* package for a session; an earlier install is abandoned.  Verify does not*)
(* look at what the session asked for, and an older manifest verifies too. *)
Install(w, s, b) ==
    /\ b.WorkerID = w
    /\ VerifyManifest(s.body, s.Signature, Root, now[w])
    /\ install' = [install EXCEPT ![w] =
          [manifest |-> s.body, binding |-> b, at |-> now[w], heartbeat |-> 0]]
    /\ UNCHANGED <<now, manifests, sessions, reported, receipts, confirmed>>

Heartbeat(w) ==
    /\ install[w] # Nothing
    /\ install' = [install EXCEPT ![w].heartbeat = now[w]]
    /\ UNCHANGED <<now, manifests, sessions, reported, receipts, confirmed>>

(* What a receipt says of an install: the session it was for, and what the *)
(* manifest made it install.                                               *)
Installed(i) ==
    [i.binding EXCEPT !.Package = i.manifest.Package, !.Epochs = i.manifest.Epochs]

(* The worker fills in a receipt for its install; Sign validates it, so an *)
(* install without a heartbeat, or completed too late, is not reported.    *)
SignReceipt(w) ==
    LET b == Installed(install[w])
        r == [Challenge |-> b.Challenge, Session |-> b.Session,
              WorkerID |-> b.WorkerID, Package |-> b.Package,
              Epochs |-> b.Epochs, ExpiresAt |-> b.ExpiresAt,
              SlotID |-> "A", StartedPID |-> 1, ScanHitCount |-> 0,
              HeartbeatAt |-> install[w].heartbeat, CompletedAt |-> now[w],
              wellFormed |-> TRUE]
    IN  /\ install[w] # Nothing
        /\ ValidReceipt(r)
        /\ reported' = reported \cup {[receipt |-> r, install |-> install[w]]}
        /\ SendReceipt([body |-> r, Signature |->
                           signRecoveryBytes(ReceiptSigningBytes(r), w)])
        /\ UNCHANGED <<now, manifests, sessions, install, confirmed>>

(* A receipt arrives for another session, or with a damaged instant.       *)
RebindReceipt(m, b) ==
    /\ SendReceipt([m EXCEPT !.body.Challenge = b.Challenge,
                             !.body.Session = b.Session,
                             !.body.ExpiresAt = b.ExpiresAt])
    /\ UNCHANGED <<now, manifests, sessions, install, reported, confirmed>>

DamageReceipt(m, t) ==
    /\ SendReceipt([m EXCEPT !.body.HeartbeatAt = t])
    /\ UNCHANGED <<now, manifests, sessions, install, reported, confirmed>>

(* The host verifies a receipt against the binding of a stored session and *)
(* consumes the session's challenge.                                       *)
Confirm(m, b) ==
    /\ VerifyReceipt(m, b.WorkerID, b, now[Root])
    /\ confirmed' = confirmed \cup {[binding |-> b, receipt |-> m.body,
                                     at |-> now[Root]]}
    /\ sessions' = sessions \ {b}
    /\ UNCHANGED <<now, manifests, install, reported, receipts>>

Tick(p) ==
    /\ now[p] < MaxTime
    /\ now' = [now EXCEPT ![p] = @ + 1]
    /\ UNCHANGED <<manifests, sessions, install, reported, receipts, confirmed>>

Next ==
    \/ \E m \in Manifests : SignManifest(m)
    \/ \E s \in manifests, m \in Manifests : AlterManifest(s, m)
    \/ \E b \in Sessions : OpenSession(b)
    \/ \E w \in Workers, s \in manifests, b \in sessions : Install(w, s, b)
    \/ \E w \in Workers : Heartbeat(w)
    \/ \E w \in Workers : SignReceipt(w)
    \/ \E m \in receipts, b \in Sessions : RebindReceipt(m, b)
    \/ \E m \in receipts, t \in OtherInstants : DamageReceipt(m, t)
    \/ \E m \in receipts, b \in sessions : Confirm(m, b)
    \/ \E p \in Parties : Tick(p)

Spec == Init /\ [][Next]_vars

-----------------------------------------------------------------------------
(* Properties.                                                             *)

(* Type invariant: the clocks stay between their bounds, sessions are known*)
(* bindings, and an install in progress began at an instant its worker's   *)
(* clock has reached.                                                      *)
TypeOK ==
    /\ now \in [Parties -> StartTime .. MaxTime]
    /\ sessions \subseteq Sessions
    /\ DOMAIN install = Workers
    /\ \A w \in Workers :
          \/ install[w] = Nothing
          \/ /\ install[w].at \in StartTime .. now[w]
             /\ install[w].heartbeat \in {0} \cup (install[w].at .. now[w])

(* A session is only confirmed by a receipt its worker signed for that     *)
(* session, challenge and all, and that still says what was signed to the  *)
(* nanosecond; what was installed is the package of the very epochs the    *)
(* session asked for, from a manifest the root had signed, although an     *)
(* older manifest verifies as well and may answer a newer session (Binding *)
(* comparison, UnixNano round trip, Verify).  The instants are in order    *)
(* across the two clocks: the manifest was alive when the install began,   *)
(* the heartbeat came after that, the completion after the heartbeat, and  *)
(* the host confirmed after the completion and before the session expired. *)
ConfirmedWasInstalled ==
    \A c \in confirmed : \E p \in reported :
        /\ p.receipt = c.receipt
        /\ \A field \in {"Challenge", "Session", "WorkerID", "ExpiresAt"} :
              c.binding[field] = p.install.binding[field]
        /\ c.binding.Package = p.install.manifest.Package
        /\ c.binding.Epochs = p.install.manifest.Epochs
        /\ \E s \in manifests : s.Signature = signRecoveryBytes(
                CanonicalBytes(p.install.manifest), Root)
        /\ p.install.at < p.install.manifest.ExpiresAt
        /\ p.install.at <= c.receipt.HeartbeatAt
        /\ c.receipt.HeartbeatAt <= c.receipt.CompletedAt
        /\ c.receipt.CompletedAt <= c.at
        /\ c.at < c.binding.ExpiresAt
=============================================================================
