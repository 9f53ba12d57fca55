--------------------------- MODULE AgentSetupProofs ---------------------------
(***************************************************************************)
(* Proofs about AgentSetup for every set of workers, manifests, sessions   *)
(* and damaged instants, every width of the nanosecond counts and every    *)
(* bound: the type invariant, and that a confirmed session was installed.  *)
(***************************************************************************)
EXTENDS AgentSetup, TLAPS

(* A party's signature is its key and the bytes.                           *)
LEMMA SignerIsKey ==
    ASSUME NEW data, NEW key \in Parties
    PROVE  signRecoveryBytes(data, key) = [KeyID |-> key, Value |-> data]
BY SetupAssumption DEF signRecoveryBytes

(* What verifies against a party's signature is what the party signed.     *)
LEMMA VerifiedIsSigned ==
    ASSUME NEW data, NEW signed, NEW key \in Parties, NEW public, NEW sig,
           sig = signRecoveryBytes(signed, key),
           verifyRecoveryBytes(data, sig, public)
    PROVE  public = key /\ data = signed
<1>1. sig = [KeyID |-> key, Value |-> signed]
  BY SignerIsKey
<1>2. sig.KeyID = key /\ sig.Value = signed
  BY <1>1
<1> QED
  BY <1>2 DEF verifyRecoveryBytes

(* The state has its type in every reachable state: clocks in their bounds,*)
(* and a heartbeat, when there is one, not before the install it is for.   *)
THEOREM TypeCorrect == Spec => []TypeOK
<1>1. Init => TypeOK
  BY SetupAssumption DEF Init, TypeOK
<1>2. TypeOK /\ [Next]_vars => TypeOK'
  <2> SUFFICES ASSUME TypeOK, [Next]_vars
               PROVE  TypeOK'
    OBVIOUS
  <2> USE SetupAssumption
  <2>1. ASSUME NEW b \in Sessions, OpenSession(b)
        PROVE  TypeOK'
    BY <2>1 DEF OpenSession, TypeOK
  <2>2. ASSUME NEW w \in Workers, NEW s \in manifests, NEW b \in sessions,
               Install(w, s, b)
        PROVE  TypeOK'
    <3> DEFINE i == [manifest |-> s.body, binding |-> b, at |-> now[w],
                     heartbeat |-> 0]
    <3>1. i.at \in StartTime .. now[w] /\ i.heartbeat = 0
      BY DEF TypeOK, Parties
    <3> QED
      BY <2>2, <3>1 DEF Install, TypeOK
  <2>3. ASSUME NEW w \in Workers, Heartbeat(w)
        PROVE  TypeOK'
    <3>1. \A v \in Workers : install'[v] =
              IF v = w THEN [install[w] EXCEPT !.heartbeat = now[w]]
              ELSE install[v]
      BY <2>3 DEF Heartbeat, TypeOK
    <3> QED
      BY <2>3, <3>1 DEF Heartbeat, TypeOK, Parties
  <2>4. ASSUME NEW m \in receipts, NEW b \in sessions, Confirm(m, b)
        PROVE  TypeOK'
    BY <2>4 DEF Confirm, TypeOK
  <2>5. ASSUME NEW p \in Parties, Tick(p)
        PROVE  TypeOK'
    <3>1. now' \in [Parties -> StartTime .. MaxTime]
      BY <2>5 DEF Tick, TypeOK
    <3>2. \A w \in Workers : now[w] \in Int /\ now'[w] \in Int /\ now[w] <= now'[w]
      BY <2>5 DEF Tick, TypeOK, Parties
    <3> QED
      BY <2>5, <3>1, <3>2 DEF Tick, TypeOK
  <2>6. CASE UNCHANGED <<now, sessions, install>>
    BY <2>6 DEF TypeOK
  <2> QED
    BY <2>1, <2>2, <2>3, <2>4, <2>5, <2>6
    DEF Next, vars, SignManifest, AlterManifest, SignReceipt, RebindReceipt,
        DamageReceipt
<1> QED
  BY <1>1, <1>2, PTL DEF Spec

-----------------------------------------------------------------------------
(* The strengthening.  Altering a manifest and damaging or rebinding a     *)
(* receipt copy the signature and leave the receipt one: the signatures in *)
(* transit were computed by the root over a manifest, and by a worker over *)
(* a receipt it reported.                                                  *)
RootSigned(m) ==
    \E s \in manifests : s.Signature = signRecoveryBytes(CanonicalBytes(m), Root)

ManifestsSigned ==
    \A s \in manifests : \E m \in Manifests :
        s.Signature = signRecoveryBytes(CanonicalBytes(m), Root)

(* What is installed is for a session of the worker's own, from a live     *)
(* manifest that the root had signed; nothing relates the package of the   *)
(* manifest to the session's.                                              *)
InstalledFor(i, w) ==
    /\ i.binding \in Sessions
    /\ i.binding.WorkerID = w
    /\ i.at < i.manifest.ExpiresAt
    /\ RootSigned(i.manifest)

InstallsVerified ==
    \A w \in Workers :
          install[w] # Nothing
          => /\ install[w] = [manifest |-> install[w].manifest,
                              binding |-> install[w].binding,
                              at |-> install[w].at,
                              heartbeat |-> install[w].heartbeat]
             /\ InstalledFor(install[w], w)

IsReceipt(r) ==
    r = [Challenge |-> r.Challenge, Session |-> r.Session,
         WorkerID |-> r.WorkerID, Package |-> r.Package,
         Epochs |-> r.Epochs, ExpiresAt |-> r.ExpiresAt,
         SlotID |-> r.SlotID, StartedPID |-> r.StartedPID,
         ScanHitCount |-> r.ScanHitCount, HeartbeatAt |-> r.HeartbeatAt,
         CompletedAt |-> r.CompletedAt, wellFormed |-> r.wellFormed]

ReportsTrue ==
    \A p \in reported :
        /\ IsReceipt(p.receipt)
        /\ ValidReceipt(p.receipt)
        /\ p.receipt.WorkerID \in Workers
        /\ InstalledFor(p.install, p.receipt.WorkerID)
        /\ Binding(p.receipt) = Installed(p.install)
        /\ p.install.at <= p.receipt.HeartbeatAt

ReceiptsReported ==
    \A m \in receipts :
        /\ IsReceipt(m.body)
        /\ \E p \in reported :
              m.Signature = signRecoveryBytes(ReceiptSigningBytes(p.receipt),
                                              p.receipt.WorkerID)

IInv == /\ ManifestsSigned
        /\ InstallsVerified
        /\ ReportsTrue
        /\ ReceiptsReported

(* A receipt with one field replaced is a receipt.                         *)
LEMMA ReplaceField ==
    ASSUME NEW r, IsReceipt(r), NEW v
    PROVE  /\ IsReceipt([r EXCEPT !.HeartbeatAt = v])
           /\ IsReceipt([r EXCEPT !.Challenge = v])
           /\ IsReceipt([r EXCEPT !.Session = v])
           /\ IsReceipt([r EXCEPT !.ExpiresAt = v])
<1> DEFINE x == [Challenge |-> r.Challenge, Session |-> r.Session,
                 WorkerID |-> r.WorkerID, Package |-> r.Package,
                 Epochs |-> r.Epochs, ExpiresAt |-> r.ExpiresAt,
                 SlotID |-> r.SlotID, StartedPID |-> r.StartedPID,
                 ScanHitCount |-> r.ScanHitCount, HeartbeatAt |-> r.HeartbeatAt,
                 CompletedAt |-> r.CompletedAt, wellFormed |-> r.wellFormed]
<1>1. r = x
  BY DEF IsReceipt
<1>2. IsReceipt([x EXCEPT !.HeartbeatAt = v])
  <2> DEFINE y == [Challenge |-> r.Challenge, Session |-> r.Session,
                   WorkerID |-> r.WorkerID, Package |-> r.Package,
                   Epochs |-> r.Epochs, ExpiresAt |-> r.ExpiresAt,
                   SlotID |-> r.SlotID, StartedPID |-> r.StartedPID,
                   ScanHitCount |-> r.ScanHitCount, HeartbeatAt |-> v,
                   CompletedAt |-> r.CompletedAt, wellFormed |-> r.wellFormed]
  <2>1. [x EXCEPT !.HeartbeatAt = v] = y
    OBVIOUS
  <2>2. IsReceipt(y)
    BY DEF IsReceipt
  <2> HIDE DEF y
  <2> QED
    BY <2>1, <2>2
<1>3. IsReceipt([x EXCEPT !.Challenge = v])
  <2> DEFINE y == [Challenge |-> v, Session |-> r.Session,
                   WorkerID |-> r.WorkerID, Package |-> r.Package,
                   Epochs |-> r.Epochs, ExpiresAt |-> r.ExpiresAt,
                   SlotID |-> r.SlotID, StartedPID |-> r.StartedPID,
                   ScanHitCount |-> r.ScanHitCount, HeartbeatAt |-> r.HeartbeatAt,
                   CompletedAt |-> r.CompletedAt, wellFormed |-> r.wellFormed]
  <2>1. [x EXCEPT !.Challenge = v] = y
    OBVIOUS
  <2>2. IsReceipt(y)
    BY DEF IsReceipt
  <2> HIDE DEF y
  <2> QED
    BY <2>1, <2>2
<1>4. IsReceipt([x EXCEPT !.Session = v])
  <2> DEFINE y == [Challenge |-> r.Challenge, Session |-> v,
                   WorkerID |-> r.WorkerID, Package |-> r.Package,
                   Epochs |-> r.Epochs, ExpiresAt |-> r.ExpiresAt,
                   SlotID |-> r.SlotID, StartedPID |-> r.StartedPID,
                   ScanHitCount |-> r.ScanHitCount, HeartbeatAt |-> r.HeartbeatAt,
                   CompletedAt |-> r.CompletedAt, wellFormed |-> r.wellFormed]
  <2>1. [x EXCEPT !.Session = v] = y
    OBVIOUS
  <2>2. IsReceipt(y)
    BY DEF IsReceipt
  <2> HIDE DEF y
  <2> QED
    BY <2>1, <2>2
<1>5. IsReceipt([x EXCEPT !.ExpiresAt = v])
  <2> DEFINE y == [Challenge |-> r.Challenge, Session |-> r.Session,
                   WorkerID |-> r.WorkerID, Package |-> r.Package,
                   Epochs |-> r.Epochs, ExpiresAt |-> v,
                   SlotID |-> r.SlotID, StartedPID |-> r.StartedPID,
                   ScanHitCount |-> r.ScanHitCount, HeartbeatAt |-> r.HeartbeatAt,
                   CompletedAt |-> r.CompletedAt, wellFormed |-> r.wellFormed]
  <2>1. [x EXCEPT !.ExpiresAt = v] = y
    OBVIOUS
  <2>2. IsReceipt(y)
    BY DEF IsReceipt
  <2> HIDE DEF y
  <2> QED
    BY <2>1, <2>2
<1> HIDE DEF x
<1> QED
  BY <1>1, <1>2, <1>3, <1>4, <1>5

(* So is one bound to another session.                                     *)
Rebound(r, b) == [r EXCEPT !.Challenge = b.Challenge,
                           !.Session = b.Session,
                           !.ExpiresAt = b.ExpiresAt]

(* Rebinding a receipt to another session leaves it a receipt.             *)
LEMMA ReboundIsReceipt ==
    ASSUME NEW r, IsReceipt(r), NEW b
    PROVE  IsReceipt(Rebound(r, b))
<1> DEFINE c == [r EXCEPT !.Challenge = b.Challenge]
           d == [c EXCEPT !.Session = b.Session]
           e == [d EXCEPT !.ExpiresAt = b.ExpiresAt]
<1>1. Rebound(r, b) = e
  BY DEF Rebound
<1>2. IsReceipt(c)
  BY ReplaceField
<1> HIDE DEF c
<1>3. IsReceipt(d)
  BY <1>2, ReplaceField
<1> HIDE DEF d
<1>4. IsReceipt(e)
  BY <1>3, ReplaceField
<1> HIDE DEF e
<1> QED
  BY <1>1, <1>4

Damaged(r, t) == [r EXCEPT !.HeartbeatAt = t]

(* So does damaging an instant of it.                                      *)
LEMMA DamagedIsReceipt ==
    ASSUME NEW r, IsReceipt(r), NEW t
    PROVE  IsReceipt(Damaged(r, t))
<1> DEFINE d == [r EXCEPT !.HeartbeatAt = t]
<1>1. IsReceipt(d)
  BY ReplaceField
<1>2. Damaged(r, t) = d
  BY DEF Damaged
<1> HIDE DEF d
<1> QED
  BY <1>1, <1>2

(* Two valid receipts with the same signing bytes are the same to the      *)
(* nanosecond: a valid instant comes back from its count.                  *)
LEMMA SamePayloadSameReceipt ==
    ASSUME NEW r, NEW s, IsReceipt(r), IsReceipt(s),
           ValidReceipt(r), ValidReceipt(s),
           ReceiptSigningBytes(r) = ReceiptSigningBytes(s)
    PROVE  r = s
<1>1. SigningPayload(r) = SigningPayload(s)
  BY DEF ReceiptSigningBytes
<1>2. \A x : LET y == SigningPayload(x)
             IN  /\ y.Challenge = x.Challenge /\ y.Session = x.Session
                 /\ y.WorkerID = x.WorkerID /\ y.Package = x.Package
                 /\ y.Epochs = x.Epochs /\ y.SlotID = x.SlotID
                 /\ y.StartedPID = x.StartedPID
                 /\ y.ScanHitCount = x.ScanHitCount
                 /\ y.wellFormed = x.wellFormed
                 /\ y.ExpiresAt = unixNanoOrZero(x.ExpiresAt)
                 /\ y.HeartbeatAt = unixNanoOrZero(x.HeartbeatAt)
                 /\ y.CompletedAt = unixNanoOrZero(x.CompletedAt)
  BY DEF SigningPayload
<1>3. /\ r.Challenge = s.Challenge /\ r.Session = s.Session
      /\ r.WorkerID = s.WorkerID /\ r.Package = s.Package
      /\ r.Epochs = s.Epochs /\ r.SlotID = s.SlotID
      /\ r.StartedPID = s.StartedPID /\ r.ScanHitCount = s.ScanHitCount
      /\ r.wellFormed = s.wellFormed
      /\ unixNanoOrZero(r.ExpiresAt) = unixNanoOrZero(s.ExpiresAt)
      /\ unixNanoOrZero(r.HeartbeatAt) = unixNanoOrZero(s.HeartbeatAt)
      /\ unixNanoOrZero(r.CompletedAt) = unixNanoOrZero(s.CompletedAt)
  BY <1>1, <1>2
<1>4. \A x : ValidReceipt(x) =>
          /\ timeFromUnixNano(unixNanoOrZero(x.ExpiresAt)) = x.ExpiresAt
          /\ timeFromUnixNano(unixNanoOrZero(x.HeartbeatAt)) = x.HeartbeatAt
          /\ timeFromUnixNano(unixNanoOrZero(x.CompletedAt)) = x.CompletedAt
  BY DEF ValidReceipt, ValidInstants
<1>5. /\ r.ExpiresAt = s.ExpiresAt
      /\ r.HeartbeatAt = s.HeartbeatAt
      /\ r.CompletedAt = s.CompletedAt
  BY <1>3, <1>4
<1> QED
  BY <1>3, <1>5 DEF IsReceipt

(* A step that sends manifests and receipts with copied signatures only.   *)
LEMMA CopiesKeepIInv ==
    ASSUME IInv, UNCHANGED <<install, reported>>, manifests \subseteq manifests',
           \A s \in manifests' : \E t \in manifests : s.Signature = t.Signature,
           \A m \in receipts' :
              /\ IsReceipt(m.body)
              /\ \E n \in receipts : m.Signature = n.Signature
    PROVE  IInv'
<1>1. ManifestsSigned'
  BY DEF IInv, ManifestsSigned
<1>2. InstallsVerified' /\ ReportsTrue'
  BY DEF IInv, InstallsVerified, ReportsTrue, InstalledFor, RootSigned
<1>3. ReceiptsReported'
  BY DEF IInv, ReceiptsReported
<1> QED
  BY <1>1, <1>2, <1>3 DEF IInv

(* The root signs manifests of the release.                                *)
LEMMA SignManifestKeepsIInv ==
    ASSUME IInv, NEW m \in Manifests, SignManifest(m)
    PROVE  IInv'
<1>1. /\ manifests' = manifests \cup
            {[body |-> m, Signature |-> signRecoveryBytes(CanonicalBytes(m), Root)]}
      /\ UNCHANGED <<install, reported, receipts>>
  BY DEF SignManifest, SendManifest
<1>2. ManifestsSigned'
  BY <1>1 DEF IInv, ManifestsSigned
<1>3. InstallsVerified' /\ ReportsTrue' /\ ReceiptsReported'
  BY <1>1 DEF IInv, InstallsVerified, ReportsTrue, ReceiptsReported,
              InstalledFor, RootSigned
<1> QED
  BY <1>2, <1>3 DEF IInv

(* A worker installs only from a manifest that verifies with the root key. *)
LEMMA InstallKeepsIInv ==
    ASSUME TypeOK, IInv, NEW w \in Workers, NEW s \in manifests,
           NEW b \in sessions, Install(w, s, b)
    PROVE  IInv'
<1> DEFINE i == [manifest |-> s.body, binding |-> b, at |-> now[w],
                 heartbeat |-> 0]
<1>1. /\ b.WorkerID = w /\ b \in Sessions
      /\ now[w] < s.body.ExpiresAt
      /\ verifyRecoveryBytes(CanonicalBytes(s.body), s.Signature, Root)
      /\ install' = [install EXCEPT ![w] = i]
      /\ UNCHANGED <<manifests, reported, receipts>>
  BY DEF Install, VerifyManifest, ManifestValidAt, Unexpired, TypeOK
<1>2. RootSigned(s.body)
  <2>1. PICK m \in Manifests : s.Signature = signRecoveryBytes(CanonicalBytes(m), Root)
    BY DEF IInv, ManifestsSigned
  <2>2. CanonicalBytes(s.body) = CanonicalBytes(m)
    BY <1>1, <2>1, VerifiedIsSigned DEF Parties
  <2> QED
    BY <2>1, <2>2 DEF RootSigned
<1>3. InstalledFor(i, w)
  BY <1>1, <1>2 DEF InstalledFor
<1>4. InstallsVerified'
  <2>1. \A v \in Workers : install'[v] = IF v = w THEN i ELSE install[v]
    BY <1>1 DEF TypeOK
  <2> QED
    BY <1>1, <1>3, <2>1 DEF IInv, InstallsVerified, InstalledFor, RootSigned
<1> QED
  BY <1>1, <1>4 DEF IInv, ManifestsSigned, ReportsTrue, ReceiptsReported,
                    InstalledFor, RootSigned

(* A heartbeat changes nothing of what is installed.                       *)
LEMMA HeartbeatKeepsIInv ==
    ASSUME TypeOK, IInv, NEW w \in Workers, Heartbeat(w)
    PROVE  IInv'
<1> DEFINE i == [manifest |-> install[w].manifest, binding |-> install[w].binding,
                 at |-> install[w].at, heartbeat |-> now[w]]
<1>1. /\ install[w] # Nothing
      /\ install' = [install EXCEPT ![w].heartbeat = now[w]]
      /\ UNCHANGED <<manifests, reported, receipts>>
  BY DEF Heartbeat
<1>2. \A v \in Workers : install'[v] = IF v = w THEN i ELSE install[v]
  BY <1>1 DEF TypeOK, IInv, InstallsVerified
<1>3. InstalledFor(i, w)
  BY <1>1 DEF IInv, InstallsVerified, InstalledFor
<1>4. InstallsVerified'
  <2> QED
    BY <1>1, <1>2, <1>3 DEF IInv, InstallsVerified, InstalledFor, RootSigned
<1> QED
  BY <1>1, <1>4 DEF IInv, ManifestsSigned, ReportsTrue, ReceiptsReported,
                    InstalledFor, RootSigned

(* What a receipt says of an install is a binding: the session's, with the *)
(* package and the epochs of the manifest.                                 *)
LEMMA InstalledIsBinding ==
    ASSUME NEW i, i.binding \in Sessions
    PROVE  /\ Binding(Installed(i)) = Installed(i)
           /\ Installed(i).Challenge = i.binding.Challenge
           /\ Installed(i).Session = i.binding.Session
           /\ Installed(i).WorkerID = i.binding.WorkerID
           /\ Installed(i).ExpiresAt = i.binding.ExpiresAt
           /\ Installed(i).Package = i.manifest.Package
           /\ Installed(i).Epochs = i.manifest.Epochs
<1> DEFINE b == i.binding
           y == [Challenge |-> b.Challenge, Session |-> b.Session,
                 WorkerID |-> b.WorkerID, Package |-> i.manifest.Package,
                 Epochs |-> i.manifest.Epochs, ExpiresAt |-> b.ExpiresAt]
<1>1. b = [Challenge |-> b.Challenge, Session |-> b.Session,
           WorkerID |-> b.WorkerID, Package |-> b.Package,
           Epochs |-> b.Epochs, ExpiresAt |-> b.ExpiresAt]
  BY SessionsAssumption DEF Binding
<1>2. [b EXCEPT !.Package = i.manifest.Package,
                !.Epochs = i.manifest.Epochs] = y
  <2> DEFINE v == [Challenge |-> b.Challenge, Session |-> b.Session,
                   WorkerID |-> b.WorkerID, Package |-> b.Package,
                   Epochs |-> b.Epochs, ExpiresAt |-> b.ExpiresAt]
           u == [v EXCEPT !.Package = i.manifest.Package]
  <2>1. [u EXCEPT !.Epochs = i.manifest.Epochs] = y
    <3> DEFINE z == [Challenge |-> b.Challenge, Session |-> b.Session,
                     WorkerID |-> b.WorkerID, Package |-> i.manifest.Package,
                     Epochs |-> b.Epochs, ExpiresAt |-> b.ExpiresAt]
    <3>1. u = z
      OBVIOUS
    <3>2. [z EXCEPT !.Epochs = i.manifest.Epochs] = y
      OBVIOUS
    <3> HIDE DEF u, z, y
    <3> QED
      BY <3>1, <3>2
  <2> HIDE DEF v, y
  <2>2. b = v
    BY <1>1 DEF v
  <2> QED
    BY <2>1, <2>2
<1>3. Installed(i) = y
  BY <1>2 DEF Installed
<1>4. Binding(y) = y
  BY DEF Binding
<1>5. /\ y.Challenge = b.Challenge /\ y.Session = b.Session
      /\ y.WorkerID = b.WorkerID /\ y.ExpiresAt = b.ExpiresAt
      /\ y.Package = i.manifest.Package /\ y.Epochs = i.manifest.Epochs
  OBVIOUS
<1> HIDE DEF y
<1> QED
  BY <1>3, <1>4, <1>5

(* A worker reports what it installed, under its own key.                  *)
LEMMA SignReceiptKeepsIInv ==
    ASSUME TypeOK, IInv, NEW w \in Workers, SignReceipt(w)
    PROVE  IInv'
<1> DEFINE b == Installed(install[w])
           r == [Challenge |-> b.Challenge, Session |-> b.Session,
                 WorkerID |-> b.WorkerID, Package |-> b.Package,
                 Epochs |-> b.Epochs, ExpiresAt |-> b.ExpiresAt,
                 SlotID |-> "A", StartedPID |-> 1, ScanHitCount |-> 0,
                 HeartbeatAt |-> install[w].heartbeat, CompletedAt |-> now[w],
                 wellFormed |-> TRUE]
           p == [receipt |-> r, install |-> install[w]]
           m == [body |-> r,
                 Signature |-> signRecoveryBytes(ReceiptSigningBytes(r), w)]
<1>1. /\ install[w] # Nothing
      /\ ValidReceipt(r)
      /\ reported' = reported \cup {p}
      /\ receipts' = receipts \cup {m}
      /\ UNCHANGED <<manifests, install>>
  BY DEF SignReceipt, SendReceipt
<1>2. InstalledFor(install[w], w) /\ b = Binding(b) /\ b.WorkerID = w
  BY <1>1, InstalledIsBinding DEF IInv, InstallsVerified, InstalledFor
<1>3. IsReceipt(r)
  BY DEF IsReceipt
<1>4. Binding(r) = b /\ r.WorkerID = w
  <2> HIDE DEF b
  <2>1. Binding(r) = Binding(b)
    BY DEF Binding
  <2> QED
    BY <1>2, <2>1
<1>5. install[w].at <= r.HeartbeatAt
  <2>1. r.HeartbeatAt # 0
    BY <1>1 DEF ValidReceipt, ValidInstants
  <2> QED
    BY <1>1, <2>1 DEF TypeOK
<1>6. p.receipt = r /\ p.install = install[w]
  OBVIOUS
<1>7. m.body = r /\ m.Signature = signRecoveryBytes(ReceiptSigningBytes(r), w)
  OBVIOUS
<1> HIDE DEF r, p, m
<1>8. ReportsTrue'
  <2> SUFFICES ASSUME NEW x \in reported'
               PROVE  (/\ IsReceipt(x.receipt)
                       /\ ValidReceipt(x.receipt)
                       /\ x.receipt.WorkerID \in Workers
                       /\ InstalledFor(x.install, x.receipt.WorkerID)
                       /\ Binding(x.receipt) = Installed(x.install)
                       /\ x.install.at <= x.receipt.HeartbeatAt)
    BY <1>1 DEF ReportsTrue, InstalledFor, RootSigned
  <2>1. CASE x = p
    BY <1>1, <1>2, <1>3, <1>4, <1>5, <1>6, <2>1
  <2>2. CASE x \in reported
    BY <2>2 DEF IInv, ReportsTrue
  <2> QED
    BY <1>1, <2>1, <2>2
<1>9. ReceiptsReported'
  BY <1>1, <1>3, <1>4, <1>6, <1>7 DEF IInv, ReceiptsReported
<1> QED
  BY <1>1, <1>8, <1>9 DEF IInv, ManifestsSigned, InstallsVerified, InstalledFor,
                          RootSigned

(* The invariant holds in every reachable state.                           *)
THEOREM IInvHolds == Spec => []IInv
<1>1. Init => IInv
  BY DEF Init, IInv, ManifestsSigned, InstallsVerified, ReportsTrue,
         ReceiptsReported
<1>2. TypeOK /\ IInv /\ [Next]_vars => IInv'
  <2> SUFFICES ASSUME TypeOK, IInv, [Next]_vars
               PROVE  IInv'
    OBVIOUS
  <2>1. ASSUME NEW s \in manifests, NEW m \in Manifests, AlterManifest(s, m)
        PROVE  IInv'
    <3>1. [s EXCEPT !.body = m].Signature = s.Signature
      OBVIOUS
    <3> QED
      BY <2>1, <3>1, CopiesKeepIInv
      DEF AlterManifest, SendManifest, IInv, ReceiptsReported
  <2>2. ASSUME NEW m \in receipts, NEW b \in Sessions, RebindReceipt(m, b)
        PROVE  IInv'
    <3> DEFINE n == [m EXCEPT !.body.Challenge = b.Challenge,
                              !.body.Session = b.Session,
                              !.body.ExpiresAt = b.ExpiresAt]
    <3>1. n.Signature = m.Signature
      OBVIOUS
    <3>2. n.body = Rebound(m.body, b)
      BY DEF Rebound
    <3>3. IsReceipt(n.body)
      <4> HIDE DEF n
      <4>1. IsReceipt(m.body)
        BY DEF IInv, ReceiptsReported
      <4> QED
        BY <3>2, <4>1, ReboundIsReceipt
    <3> QED
      BY <2>2, <3>1, <3>3, CopiesKeepIInv
      DEF RebindReceipt, SendReceipt, IInv, ReceiptsReported
  <2>3. ASSUME NEW m \in receipts, NEW t \in OtherInstants, DamageReceipt(m, t)
        PROVE  IInv'
    <3> DEFINE n == [m EXCEPT !.body.HeartbeatAt = t]
    <3>1. n.Signature = m.Signature
      OBVIOUS
    <3>2. n.body = Damaged(m.body, t)
      BY DEF Damaged
    <3>3. IsReceipt(n.body)
      <4> HIDE DEF n
      <4>1. IsReceipt(m.body)
        BY DEF IInv, ReceiptsReported
      <4> QED
        BY <3>2, <4>1, DamagedIsReceipt
    <3> QED
      BY <2>3, <3>1, <3>3, CopiesKeepIInv
      DEF DamageReceipt, SendReceipt, IInv, ReceiptsReported
  <2>4. CASE UNCHANGED <<manifests, install, reported, receipts>>
    BY <2>4, CopiesKeepIInv DEF IInv, ReceiptsReported
  <2> QED
    BY <2>1, <2>2, <2>3, <2>4, SignManifestKeepsIInv, InstallKeepsIInv,
       HeartbeatKeepsIInv, SignReceiptKeepsIInv
    DEF Next, vars, OpenSession, Confirm, Tick
<1> QED
  BY <1>1, <1>2, TypeCorrect, PTL DEF Spec

-----------------------------------------------------------------------------
(* A session is confirmed only by a receipt its worker signed for it, that *)
(* still says what was signed to the nanosecond, about the package and the *)
(* epochs the session asked for, from a manifest the root had signed, with *)
(* the instants in order across the two clocks: an install may be from any *)
(* manifest that verifies, but its receipt says which, the binding is      *)
(* compared as a whole and names the worker whose key must verify, and both*)
(* receipts are valid, so equal counts of nanoseconds are equal instants.  *)
THEOREM ConfirmedInstalled == Spec => []ConfirmedWasInstalled
<1> DEFINE Backed(c) ==
        \E p \in reported :
            /\ p.receipt = c.receipt
            /\ \A field \in {"Challenge", "Session", "WorkerID", "ExpiresAt"} :
                  c.binding[field] = p.install.binding[field]
            /\ c.binding.Package = p.install.manifest.Package
            /\ c.binding.Epochs = p.install.manifest.Epochs
            /\ \E s \in manifests : s.Signature = signRecoveryBytes(
                    CanonicalBytes(p.install.manifest), Root)
            /\ p.install.at < p.install.manifest.ExpiresAt
            /\ p.install.at <= c.receipt.HeartbeatAt
            /\ c.receipt.HeartbeatAt <= c.receipt.CompletedAt
            /\ c.receipt.CompletedAt <= c.at
            /\ c.at < c.binding.ExpiresAt
<1>1. Init => ConfirmedWasInstalled
  BY DEF Init, ConfirmedWasInstalled
<1>2. IInv /\ ConfirmedWasInstalled /\ [Next]_vars => ConfirmedWasInstalled'
  <2> SUFFICES ASSUME IInv, ConfirmedWasInstalled, [Next]_vars
               PROVE  ConfirmedWasInstalled'
    OBVIOUS
  <2>1. ASSUME NEW m \in receipts, NEW b \in sessions, Confirm(m, b)
        PROVE  ConfirmedWasInstalled'
    <3> DEFINE c == [binding |-> b, receipt |-> m.body, at |-> now[Root]]
    <3>1. /\ confirmed' = confirmed \cup {c}
          /\ UNCHANGED <<manifests, reported>>
          /\ ValidReceipt(m.body)
          /\ m.body.CompletedAt <= now[Root]
          /\ now[Root] < m.body.ExpiresAt
          /\ Binding(m.body) = b
          /\ verifyRecoveryBytes(ReceiptSigningBytes(m.body), m.Signature, b.WorkerID)
      BY <2>1 DEF Confirm, VerifyReceipt, ReceiptValidAt, Unexpired
    <3>2. PICK p \in reported :
              m.Signature = signRecoveryBytes(ReceiptSigningBytes(p.receipt),
                                              p.receipt.WorkerID)
      BY DEF IInv, ReceiptsReported
    <3>3. ReceiptSigningBytes(m.body) = ReceiptSigningBytes(p.receipt)
      BY <3>1, <3>2, VerifiedIsSigned DEF IInv, ReportsTrue, Parties
    <3>4. m.body = p.receipt
      BY <3>1, <3>3, SamePayloadSameReceipt
      DEF IInv, ReportsTrue, ReceiptsReported
    <3>5. /\ \A field \in {"Challenge", "Session", "WorkerID", "ExpiresAt"} :
                b[field] = p.install.binding[field]
          /\ b.Package = p.install.manifest.Package
          /\ b.Epochs = p.install.manifest.Epochs
          /\ b.ExpiresAt = m.body.ExpiresAt
      <4>1. b = Installed(p.install) /\ p.install.binding \in Sessions
        BY <3>1, <3>4 DEF IInv, ReportsTrue, InstalledFor
      <4>2. b.ExpiresAt = m.body.ExpiresAt
        BY <3>1 DEF Binding
      <4> QED
        BY <4>1, <4>2, InstalledIsBinding
    <3>6. m.body.HeartbeatAt <= m.body.CompletedAt
      BY <3>1 DEF ValidReceipt
    <3>7. Backed(c)
      BY <3>1, <3>4, <3>5, <3>6 DEF IInv, ReportsTrue, InstalledFor, RootSigned
    <3> QED
      BY <3>1, <3>7 DEF ConfirmedWasInstalled
  <2>2. CASE /\ UNCHANGED confirmed
             /\ reported \subseteq reported' /\ manifests \subseteq manifests'
    <3> SUFFICES ASSUME NEW c \in confirmed
                 PROVE  Backed(c)'
      BY <2>2 DEF ConfirmedWasInstalled
    <3>1. Backed(c)
      BY DEF ConfirmedWasInstalled
    <3> QED
      BY <2>2, <3>1
  <2> QED
    BY <2>1, <2>2
    DEF Next, vars, SignManifest, SendManifest, AlterManifest, OpenSession,
        Install, Heartbeat, SignReceipt, RebindReceipt, DamageReceipt, Tick
<1> QED
  BY <1>1, <1>2, IInvHolds, PTL DEF Spec

=============================================================================
