# TLA+ models of workflow-plugin-compute-core

The repository is a Go library of contracts: documents (Go structs and JSON),
their validators, and the functions that sign, verify, select, derive and bill
from them. Control planes, workers, routers, planners and installers link it.
It starts no goroutine and persists nothing in production code. The state, the
clocks, the transport and the retries are its callers'; what can go wrong is
what a *sequence* of calls by several parties, on documents that are late,
repeated, altered or expired, makes of the library's local decisions.

Each model therefore puts the library's functions, translated from the source,
between external actors that call them in any order the signatures allow. In
PROJECT.json, "map" names the lines each definition stands for and marks the
external ones.

## 1. Inventory

Line numbers are those of `src/protocol/types.go` where no file is named.

| Component | State it works on | Operations | Hard behaviour | What makes it correct | Module |
|---|---|---|---|---|---|
| Receipts, attested bindings (`receipt_signature.go`, 230–591) | receipts in transit and stored; token proof keys | `Credential*Signature`, `Software*Signature`, `VerifyCredential*`, `VerifyServiceReceipt`, `VerifyEdgeRequestReceipt`, `Validate`, `ValidateAttested*Binding` | the verifier changes what it verified; altered and restamped copies; nested windows | what is kept was signed, the verdict is the right one, a kept receipt re-verifies | `Receipts` |
| Recovery envelope (`bootstrap.go` 315–378) | – | sign, verify, expiry | expiry boundary | – | `RecoveryEnvelope` |
| Managed lifecycle (`managed_lifecycle.go`) | requests and artifact references of a host, results of workers | `Sign`, `Verify`, `ValidateAt`, `BindingHash` of the three documents | two clocks, lost/repeated/mixed-up messages, expiry during work, time zones | reported = performed = issued; deadlines; honest messages verify | `ManagedLifecycle` implements `LifecycleContract` |
| Agent setup (`bootstrap.go` 24–313) | manifests, session bindings, install receipts | `Sign`, `Verify`, `Binding`, `SigningPayload` | several sessions, nanosecond encoding, order of five instants | a confirmed session got the release it asked for, installed from a live signed manifest | `AgentSetup` |
| Stream proof (`stream_proof.go`) | a manifest, the host's nonce registry | `StreamReceipt.Validate`, `VerifyManifest`, `VerifiedDeliveredBytes` | dropped and repeated segments, saturation and overflow, repeated receipts | every index accounted for, reflection in the window unless 64 bits are left, bill as measured | `StreamProof` |
| Agent selection (4024–4219, `client.go` 144–179) | agents, leases, tasks as listed | `ListAgents`, `ListLeases`, `ListTasks`, `SelectIdleAgent`, `FindQueuedTask`, `Lease.Validate` | stale lists, several planners, skewed clocks, partial failure | no double booking the library could avoid; queued tasks get leased | `AgentSelection` |
| Runtime placement (624–1310) | backend reports, bundles, attestations, what was derived from them | `ValidateAt`, `RuntimeBackendReportsSupportedExecutors`, `ProviderCapabilityReportsFromRuntimeBackends`, `ValidatePlacement…`, `Hardware…`, `ExecutorCapabilities…` | expiry between two derivations and use; checks made apart | one backend, with evidence, meets all requirements | `RuntimePlacement` |
| Provider contracts (4230–4414, 4739–5133, 5725–5809) | published contracts | `Validate`, `DefaultProviderRuntimeContract`, `SupportsProduct`, `ApplyProviderConformanceEvidence` | late and out-of-order evidence, in-place change with no re-validation | claims stay backed, admitted profiles are confined | `ProviderContracts` |
| Task client (`client.go`) | calls under way; the server's tasks, stalls, proofs, artifacts | `NewClient` and every method | lost answers, retries, silence, snapshots, size limits, path building | a submission is acknowledged to the call that made the task; what is read was so at one moment; whole, right artifact; calls return | `TaskClient` |
| Network products, placement constraints, settlement (5135–5723) | – | `NetworkProduct.Validate` and the validators it joins, `PlacementConstraintsSatisfiedBy` | optional documents compared only where both are set; zero documents that ask for nothing | a product has one treasury, and its workers meet its constraints | `NetworkProducts`, in `ProviderContracts` |
| Network audit (1323–2013) | records as a host and a collector hold them, keyed references | `ValidateNetworkAudit`, `Project…`, `ToProto`, `NetworkAuditRecordFromProto`, strict decoding, `ClassifyLegacyNetworkAuditRecord` | 64-bit instants, zones, repeated and extended messages, legacy numbers | what arrives is whole, or its reference tells | `NetworkAudit` |
| Workloads and adapters (2082–3052); `handoff.go`, `stream.go`, `media.go` | – | `WorkloadSpec.Validate` and nine payloads, `RuntimeAdapterContract`, execution requests and results | only one of several payloads is looked at | what runs is confined as its kind asks | `Workloads`, in `LeasedWork` |
| Tasks, leases, policies (3330–4022, 4148–4228, 4981–5051) | leases in transit and held | `Task.Validate`, `Lease.Validate`, `P2PSessionPolicy.Validate`, `RunLogLeasePolicy`, `ResiduePolicy` | policies admitted without a clock and used later; a presence mark lost and regained over JSON | sessions, logs and workspaces stay inside what was granted | `Policies`, `LeaseDocuments`, `LeasedWork` |
| Provider operations, artifact delivery (4433–4737) | delivery records | validators, `NormalizedArtifactSpecs` | two lists of artifacts for one operation | a delivery has one specification | `LeaseDocuments`, `LeasedWork` |
| Service ingress, SLO, benchmark and failure evidence (2015–2081, 3054–3328) | – | validators of single fields | none | not modelled | – |
| Marketplace operations (5811–6545) | records of holds, payouts, suspensions, rotations, reputation, abuse | validators of single records | the ledger that applies them is outside | not modelled | – |
| Runtime provider messages, service runtime interfaces, package artifact | – | presence checks; types only; one hash | none | not modelled | – |
| Generated protobuf code, plugin shell, scripts | – | – | none | not modelled | – |

How the parts interact: `TaskClient` and `AgentSelection` are the two ends of
the same HTTP client. `RuntimePlacement` decides which worker may get a task
that `AgentSelection` then leases. The worker's run ends in a receipt
(`Receipts`), for a stream with a manifest (`StreamProof`). `ProviderContracts`
says which runtime profile a product runs under. `AgentSetup` and
`ManagedLifecycle` are how a worker and its provider components are installed
and changed; both are built from `RecoveryEnvelope`. The library passes no
state from one to another: they meet in documents, so the modules are composed
where the code is: `RecoveryEnvelope` into two modules, `LifecycleContract`
under `ManagedLifecycle`, `Instants` into `AgentSetup` and `NetworkAudit`,
`Policies` and `Workloads` into both `NetworkProducts`, which `ProviderContracts`
extends to admit products, and `LeaseDocuments`, which `LeasedWork` extends.

## 2. The modules

Cryptography is symbolic everywhere: a signature is its key and the bytes it
was computed over; canonical JSON, protobuf encoding and hashes are equal
exactly when the encoded fields are. Fields that are only checked for shape
(identifiers, digests, URLs) are the one flag `wellFormed`. The zero
`time.Time` is 0. Messages in transit are sets from which nothing is removed:
loss is a delivery that never happens, repetition one that happens twice.

**Receipts.** `wire` are the receipts under way, `stored` what verification
returned together with its options, `signed` the history of keyed signings.
`SignWithCredential` and `SignWithSoftware` are the signing functions; `Alter`
damages or mixes up a content under its signature; `Restamp` is a host that
writes its verdict on a copy; `Verify` is `VerifyServiceReceipt`,
`VerifyEdgeRequestReceipt`, or the credential check followed by
`ProofReceipt.Validate`, and puts what it returned back on the wire.
`SignedPayload` has the one asymmetry that matters: proof signatures cover the
verdict, service signatures only for executors that require attestation, edge
signatures never. `Strings` are the values of string fields; the root
filesystem digest is folded into `ImageDigest`.

**RecoveryEnvelope, LifecycleContract, ManagedLifecycle.** A host signs
references and a request (`IssueRequest`), a worker verifies and performs it
(`Begin`, `Fetch`, `Finish`), the host verifies the result (`Accept`). Every
party has a clock of its own. `RezoneRequest` reads a request back in another
location, `AlterRequest` and `AlterResult` damage or mix up bodies. `Finish` at
or after the expiry performs without a signature, as `Sign` fails.
`LifecycleContract` is the promise: perform only what was issued, report only
what was performed, with its outcome. `Contract == INSTANCE LifecycleContract`
maps a request to its `BindingHash`.

**AgentSetup.** `SignManifest`, `Install`, `Heartbeat`, `SignReceipt`,
`Confirm`; messages are altered, rebound to another session (`RebindReceipt`)
or damaged in an instant (`DamageReceipt`). Instants have a width: a count of
nanoseconds wraps at `Range` around `UnixEpoch`, as `UnixNano` does, and 0
stands for the zero time, which is what the round trip in `validate` is about.
`Verify` of a manifest looks at no session, so `Install` takes any session of the
worker's and any manifest that verifies, an older one too. The installer is
external and taken at its word: the receipt it has signed says what the manifest
made it install (`Installed`), whatever the session asked for, and it is the
host's comparison of the binding that tells.

**StreamProof.** `Stream`, `Drop`, `Restart`, `MarkGap`, `Reflect`, `Deliver`
build a manifest, `IssueNonce` fills the host's registry, `VerifyStream` validates,
verifies and bills. Durations and byte counts wrap at `Half`; `TimeSub`
saturates there like `time.Time.Sub`. What a segment took (`Took`, which moves
the clock) and the `DurationMS` it claims need not agree, and neither the claim
nor `StartedAt` is bounded, as no validator bounds them.

**AgentSelection.** A planner fetches the three lists by separate steps, in any
order, keeps them as long as it likes, selects, and asks for a lease. `Grant`
is the control plane: it refuses a task that is no longer queued, and the lease
it stores may be malformed, which makes `ListLeases` fail for everyone
(`ValidLease`). `Poll` is one planner's loop over all of this. A lease is modelled by the time it has left on the control
plane's clock; `Skew` is how far a planner's clock is ahead. Expired leases are
listed until `Floor` ago, then purged, which keeps the state finite; leases
are of one length, so those to be purged are the first ones listed.

**RuntimePlacement.** A worker publishes reports, statuses it declares itself,
and hardware; the two derivations are separate steps with their own time, and
`Place` applies the three checks to what was derived. Statuses the worker
declares come before the derived ones in the list the lookup goes through.
`placed` remembers the inputs. A behaviour ends with its first placement.
`PublishedDocuments` is what validation or the types make of a document: a
well-formed report names its providers, a declared status is about one.

**ProviderContracts.** A registry holds one contract per identity; `Publish`
replaces it if it validates, `Observe` is a conformance runner, `Apply` the
in-place update. `Admit` takes a product that `NetworkProduct.Validate` and
`SupportsProduct` accept, and keeps it with the profile that is selected for it
and the workers that satisfy its placement constraints; the library has the
three functions and leaves it to the host to call all of them. The id of a
default profile is the triple it is built from. `ProviderID` is part of
`ContractID`.

**Instants.** The nanosecond counts of `unixNanoOrZero` and `timeFromUnixNano`,
with a width, shared by the two modules whose documents carry them.

**NetworkAudit.** `Record` validates a record, projects its reference and sends
both; `Extend` is a sender of a newer schema that fills unknown fields, at the
top or inside; `Receive` decodes strictly, validates, and projects again for
the stability and timestamp of the reference that came along; `Import` takes
over a record from before the schema for which there is no finding. The keyed
digest is symbolic: a reference is the fields it is computed over, with the
zone they are written in. Conversion of a float that does not fit is
implementation-specific in Go, so `legacyInt64` is a set of outcomes.

**Policies, Workloads, LeaseDocuments, NetworkProducts** hold no state: they are
the validators, one operator each, that other modules put into guards. Fields
of which a validator only tells a few classes apart are those classes (an image
is pinned, tagged or dirty); `Unset` is a string field that is empty.

**LeasedWork.** The control plane grants a lease for a task and an operation
that validate (`Grant`); relays decode and encode it (`Relay`), drop the run-log
field as a relay of an older schema does (`Strip`), rewrite or rezone the
session policy (`Alter`) or lose it (`Lose`). `Take` is `Lease.Validate`, and
under the lease it holds the worker opens its session with
`P2PSessionPolicy.Validate(now)` (`OpenSession`), keeps logs, executes on an
adapter whose contract validates, and delivers artifacts. `stripped` and
`granted` remember what happened on the way; no action reads them, except that
`Alter` starts from the policy as granted. `Encode` and `Decode` are the JSON
forms of a run-log policy: `omitzero` looks at the unexported mark `present`,
and `UnmarshalJSON` sets it, for `null` and `{}` too.

**TaskClient.** A call is `Send`, a step of the server, `Return` or `TimeOut`;
the server's steps (create, run, stall, unstall, prove, succeed, answer, fail)
interleave. The control plane is external: it makes a task once for each id and
refuses a duplicate, with or without the task in its answer, answers a creation
with the task it made, appends proofs, and lists stalls of tasks of any status
that has not succeeded (`client_test.go` lists stalls of queued tasks), with or
without the status `stalled`. `seen` and `created` remember, for each call, what
was so of its task since it was sent and what the server made for it; no action
reads them. References are sequences of segments; the body of an artifact is its
length.

`MC…` modules give the constants values for TLC. A definition that a comment
calls a slip is a plausible mistake in the definition after it; PROJECT.json
"mutants" pairs each property with the slip that breaks it.

## 3. What the runs check

| Run | Shows | Bounds |
|---|---|---|
| MCReceipts | `AcceptedWasSigned`, `ReverifyStable`, `AttestedProofInsideWindows` | 2 keys and none, 2 sets of options. 7 drafts of all kinds with 3 receipts on the wire, so that sign, alter or restamp, and verify twice all fit; and every placement of five instants over 0..2 for two tasks, with one receipt on the wire: all orders and equalities of neighbouring instants |
| MCManagedLifecycle | `ContractSpec`, `AcceptedRanInTime`, `HonestMessagesVerify`, `FetchedIsOwn` | 2 actions of one transaction, clocks to 3, expiries at 2, 3 and 4, both outcomes; and 2 workers with requests that share, repeat or steal references, 3 fetches, clocks to 2 |
| MCAgentSetup | `ConfirmedWasInstalled` | 2 sessions, one for each of two releases; 4 manifests (the older release in two zones, the newer, one with a zero epoch), both releases alive for a while, so that the older is installed for the newer session and the other way round; 3-bit nanosecond counts so that the epoch and an out-of-range instant occur |
| MCStreamProof | `ContinuityAccounted`, `ReflectedUnlessOverflow`, `BilledAsMeasured` | 3 segments, indices to 5 with 2 markers; 3 start times (one that saturates), claims of 1, 6 and 15 milliseconds of 2 nanoseconds in 5-bit durations, so that one claim wraps by itself and others when summed; window 2; 3 delivery receipts of 4 kinds, whose bill overflows too |
| MCAgentSelection | `OverlapOnlyUnseenOrSkewed`, `OptedOutNeverLeased`, `QueuedEventuallyLeased` (fair) | 2 planners, one ahead and one behind, 3 agents with different network profiles, 2 tasks, leases that expire or come back malformed |
| MCRuntimePlacement | `PlacedOnEvidence`, `OneBackendMatches` | 6 lists of reports (good, mis-signed, unproven, degraded, without executors), bundles and attestations that expire at the last of 3 instants |
| MCProviderContracts | `ClaimsBacked`, `InvalidOnlyByOtherEvidence`, `AdmittedConfined`, `TreasuryIsOne` | 2 plugins, 2 versions, hand-edited profiles, evidence of right and wrong versions, profiles and conformance, at most 4 observed (`MaxObserved`); products of every operating mode and reward, with routing, settlement and placement that agree or differ in one field; 2 workers |
| MCNetworkAudit | `RefsTellWhatArrived`, `HonestArriveWhole` | 3-bit nanosecond counts so that the zero time, the epoch, an instant before it and ones whose count wraps all occur; 2 zones, unknown fields at both depths, label counts at the limit and above; at most `MaxMessages` messages and `MaxStored` records |
| MCLeasedWork | `SessionsInWindow`, `RunLogsAsGranted`, `DeliveredDeclaredOnce`, `WorkConfined` | one document on the way (`MaxWire`), so that a lease may be relayed any number of times, taken, and replaced by another while held; clock to 4 (`MaxTime`), so that windows of session policies end before, at and after it; orders that vary one part at a time (each kind's workloads, 10 session policies, 11 run-log policies with and without the capability tag, 8 operations). Alterations of a policy do not add up |
| MCTaskClient | `AcknowledgedIsQueued`, `ReadsOneMoment`, `FetchesNamedArtifact`, `CallsReturn` (fair) | 1 caller that may retry, 2 tasks, 2 proofs, 4 artifacts, all references over a set of segments, limits 0..3 and the largest integer; timeouts negative, zero and positive, a transport of its own; the server changes what a call reads at most twice while it is under way |
| MCStreamZeroStart | **violated**: `ReflectionWithinWindow` | a manifest without `started_at` |
| MCContractOtherEvidence | **violated**: `RealClientListsUpstreamProfile` | evidence of another conformance profile |

Three instances are the union of smaller scenarios, which the constraint
`OneScenario` of their MC module keeps apart: receipts that circulate or that
probe the windows; one transaction's deadlines or two workers' references; the
gaps, the liveness or the billing of a stream. No property of these runs is a
liveness property, and the code never compares data of two scenarios: a window
is a matter of one receipt, and the three checks of a manifest are separate
loops over the same segments. `FewChanges` of `MCTaskClient` does the same for
the client: artifacts are fetched apart from what becomes of tasks, and stalls
listed apart from proofs, because no method reads both; returning and timing out
change nothing it looks at, so no call is kept from returning by it. One caller
is enough there for a retry after a lost answer, which is what
`AcknowledgedIsQueued` is about; that a second caller with the same id makes no
difference is what the theorem adds.

Each module has one type invariant, checked by one run. Deadlock is checked
except in MCRuntimePlacement, whose behaviours end with a placement.

`AcceptedWasSigned` says that what a host kept, the run as well as the decision
that allowed it, is what the holder of the key signed, whatever happened on the
way. `AcceptedRanInTime` relates three instants of two clocks to four deadlines,
for repeated runs too. `OverlapOnlyUnseenOrSkewed` is the most that stateless
selection can promise: two leases of one agent overlap only if the second
planner could not have seen the first lease, or by no more than its clock is
ahead. `AcknowledgedIsQueued` holds a submission that is reported as done
against the history of the call: the server made the task for this call, not for
an earlier attempt whose answer was lost. `ReadsOneMoment` asks that everything
a snapshot says, status and stalls, was so at one moment between the sending of
the call and its return; it does not ask which statuses a stalled task may have,
which is the control plane's. `WorkConfined` says that what runs is of a kind
its adapter lists and has the payload of that kind, the one that was validated;
the egress allowlist confines the peers of a node service in allowlist mode
only, as in the code (types.go 2464). `InvalidOnlyByOtherEvidence` bounds the
damage of the third finding below: only evidence of another profile invalidates
a contract, and `upstream-client-v1` evidence heals it. `TreasuryIsOne` follows
from no single validator: the routing, the target and the constraints each
compare only where both sides are set, and it is the *required* placement of
treasury-backed products that closes the gap a zero document would leave.

`RefsTellWhatArrived` says that a collector which projects the reference again
finds every loss of the encoding (the epoch becomes the zero time, an instant
far enough outside the range another one inside) and nothing else: zones,
repetition and order do not show. `RunLogsAsGranted` says that the presence of a
run-log policy survives any number of relays that know the field; one that does
not is the exception it names. `SessionsInWindow` says that validating a policy
with no time in tasks and leases is made up for when the session opens, hash
included; the signature of a policy is checked for its shape only, so a relay
that computes the hash again is not found out, and the model has none.
`Lease.Validate` compares a lease's times with each other and not with the
clock, so no property here says that a lease is taken before it expires.

An operation whose older list of artifacts repeats a name validates, but a lease
made from its `NormalizedArtifactSpecs` does not; the worker refuses it, and
nothing in the repository says that it should not.

### Three disagreements between the code and what it says

1. `VerifyManifest` (stream_proof.go 270–275). For a manifest without
   `started_at`, which `StreamReceipt.Validate` does not require,
   `reflectionTime.Sub(IssuedAt)` saturates at the least `Duration`. `-diff`
   overflows back to the same negative value, `diff > reflectWindow` is false,
   and the reflection is accepted, although the doc comment says that
   `StartedAt` plus the cumulative duration must be within the window.
2. The same function adds up `time.Duration(DurationMS) * time.Millisecond`
   (241–245) in 64 bits, and nothing bounds `DurationMS`: a claim of 2^64
   nanoseconds and a little counts as that little, and the reflection is
   accepted although the start plus the durations is centuries away.
   MCStreamZeroStart shows it in place of the first with
   `StartTimes = {20}`, `reflectWindow = 2` and `SegmentDrafts <- LongSegments`.
   `ReflectedUnlessOverflow` says that these two are all: a nonce that was not
   reflected within the window has durations that overflow or a reflection too
   early for `time.Time.Sub` (or the window is the longest duration there is).
3. `ApplyProviderConformanceEvidence` (types.go 5800) marks a profile
   `real-client` for evidence of any conformance profile, while the validator
   (types.go 4922) says that `real-client` requires `upstream-client-v1`. The
   call returns no error and the contract no longer validates.

### Fairness

`AgentSelection!FairSpec`: a planner is one process that never stops (weak
fairness of `Poll`: it makes some call it still needs, selects, or asks for what
it selected, as long as any of that can be answered), and time passes. The agents in `Steady` stay online; that
is the premise of `QueuedEventuallyLeased`. No fairness is assumed of other
agents or of well-formed leases: a malformed one blinds the planner until it is
purged.

`TaskClient!FairSpec`: `net/http` fires the timeout of a call that has one, and
a method returns once it has an answer. The server owes nothing.

The other specifications have no fairness: they are checked for safety only.

## 4. What is proved

Every safety property of a passing run is a theorem, for every value of the
constants under the modules' named assumptions, which TLC evaluates on every
run. Each property was checked by TLC before it was proved.

The shape is the same everywhere: an inductive invariant, one lemma or step per
action (`…KeepsIInv`, `…Keeps`), and theorems that follow from the invariant.
What the invariants have in common is that the properties speak of what was
accepted, held or placed, and an accepted document is good because of what
could be *on the way* to whoever accepted it; the strengthenings say that.

**`ReceiptsProofs`**, from `ReceiptsAssumption`: the empty key is no key, the
empty string and the few literal strings the code writes are strings, drafts
and options have their types.

- `TypeCorrect`: every operator on contents and signatures is closed over its
  type.
- `AcceptedReceipts` (`AcceptedWasSigned`). The strengthening
  `WireSignaturesWereMade` says that every credential signature in transit was
  computed over a payload in `signed`; altering and restamping copy signatures,
  signing adds to both sides. With `VerifiedSignature` (a signature that verifies
  was computed over this very payload) and `PayloadSameRun` (a payload
  determines the run) the store follows.
- `ProofsInsideWindows` (`AttestedProofInsideWindows`), from the guards of
  `ValidateAttestedProofBinding` at the one step that adds to the store, and the
  fact that a proof is stored as it was signed.
- `ReverifyIsStable` (`ReverifyStable`), from the type invariant and two lemmas
  about operators: stamping what is stamped changes nothing (`StampAgain`), and
  stamping leaves the signed payload alone, so what verified verifies again
  (`VerifyAgain`).

The rest of the module is about `StreamProof`, which it extends as well, from
`StreamAssumption`: milliseconds and bounds are natural numbers, the window is a
duration, and durations and byte counts have 64 bits, of any value and sign.

- `StreamInvariant`. A manifest holds what was streamed and filed, the registry
  holds a nonce once, and what was accepted passed `VerifyManifest` against the
  registry it was accepted with and was billed then (`StreamIInv`). The other
  theorems follow from it, most of them without another look at the steps.
- `StreamTypeCorrect` (`StreamTypeOK`): a bill has 64 bits whatever was claimed.
- `StreamContinuous` (`ContinuityAccounted`). `VerifyManifest` compares
  neighbours. That indices that increase from one segment to the next increase
  throughout (`IncreasesAll`), and that a missing index lies between two
  neighbours (`InBetween`), is proved for manifests of every length by looking at
  the least position where it would fail; so the marker found for the two
  neighbours has nothing streamed inside it.
- `BilledForDeliveries` (`BilledAsMeasured`). The code adds up receipt by receipt
  and wraps each time; the property sums over segments and reduces the sum to 64
  bits once. `BilledSteps` gives the code's fold as running totals; `BilledNext`
  shows that one more receipt adds one delivery to exactly one segment, because
  the indices of an accepted manifest differ, and that this is what the code
  credits; `WrapAdds`, that wrapping at every addition is wrapping once.
- `ReflectedInTime` (`ReflectedUnlessOverflow`). The segments up to the one that
  reflects a nonce are a prefix of the manifest (`SegmentsUpTo`), whose
  cumulative duration in the code is the true sum, wrapped once
  (`CumulativeSum`); where the sum does not overflow, the difference with its
  saturation and its negation says what it seems to say, but for a reflection
  too early for `Sub` and for the longest window (`Distance`). No claim of a
  worker is assumed to fit: what happens where one does not is in the statement,
  and disagreements 1 and 2 above are the two ways out.

Both folds (`FoldLeft`, `MapThenSumSet`) are recursive functions on sets of
positions defined by CHOOSE, so the proofs first show that such a function
exists (`FoldExists`, `SumsExist`) and that a sum does not depend on the order
in which members are taken out (`SumIsUnique`). The induction is over the set of
numbers for which a fact holds (`UpTo`), which needs no operator as a parameter.

**`ManagedLifecycleProofs`**, from `LifecycleAssumption`: the host is no worker
and nobody's key is the empty one, drafts are addressed to known workers, and a
draft has fewer secret references than the bound.

- `IInvHolds`. Every request signature in transit is over an issued request,
  what a worker performs was issued, every result signature is over a performed
  action. No step makes a signature except `IssueRequest` and `Finish`, and
  altering copies them (`CopiesKeepSignatures`).
- `LifecycleRefinesContract`: `Spec => ContractSpec`. `IssueRequest`, `Finish`
  and `Accept` map to `Issue`, `Perform` and `Report` (or a stutter, when it
  was done before), everything else to stuttering; `Accept` is where the
  `BindingHash` in the result and the worker's signature meet, through `IInv`.
- `TypeCorrect`.
- `AcceptedInTime`, `FetchesOwn`, `HonestVerify` (`AcceptedRanInTime`,
  `FetchedIsOwn`, `HonestMessagesVerify`). `HistoryInv` adds the clocks: what was
  issued validated when it was signed, what runs was valid when it began and what
  was performed when it ended, and a result says what was performed. Requests of
  one hash have the same recipient and deadlines (`SameHashSameTerms`), which is
  what lets a result be held against the deadlines of the request that was run.

**`AgentSetupProofs`**, from `SetupAssumption` and `SessionsAssumption`: the
clocks start within their bound, sessions are bindings; and
`InstantsAssumption`: the width of a count of nanoseconds is even.

- `TypeCorrect`, `IInvHolds`, `ConfirmedInstalled` (`ConfirmedWasInstalled`). A
  manifest's signature is over something the root signed (`ManifestsSigned`), an
  install in progress verified its manifest (`InstallsVerified`), what a worker
  reported is true (`ReportsTrue`), a receipt's signature is over a report
  (`ReceiptsReported`). Nothing in it relates a manifest to a session: what a
  worker installed is what its receipt says (`InstalledIsBinding`), and it is
  the host's comparison that makes it the release the session asked for.
  `SamePayloadSameReceipt` is the lemma about the code: two
  receipts that validate, which includes the round trip of their instants, have
  the same signing payload only if they are the same.

**`AgentSelectionProofs`**, from `SelectionAssumption` and `ListsAssumption`: ids
are unique in the lists, no clock is so far behind that purged leases matter.

- `IInvHolds`, `TypeCorrect`, `OverlapBounded` (`OverlapOnlyUnseenOrSkewed`),
  `OptOutHolds` (`OptedOutNeverLeased`). The property relates two leases; the
  strengthening says what lies between them: the listed leases are in the order
  they end (`OldestFirst`), what a planner has seen ages as what is listed
  (`SeenAsListed`), the agent it chose is free among what it had seen, up to its
  skew (`ChoiceFree`), and a lease is for an agent that matches the network
  (`LeasesGranted`).

The last part is about `RuntimePlacement`, which the module extends as well,
from `PlacementAssumption`:

- `PlacementInvariant`: what is derived, and what a placement rests on, is what
  the functions return for the reports it names, at an instant that has passed;
  `PlacementTypeCorrect` (`PlacementTypeOK`).
- `PlacementRests` (`PlacedOnEvidence`): the provider and the attestation come
  from one derivation, whose instant is never after the one at which the
  attestation's expiry was compared, whether or not the snapshot carries its time.
- `PlacementOfOneBackend` (`OneBackendMatches`): the two checks may find two
  executors, but the tier they agree on is enough for the limits.

**`TaskClientProofs`**, from `ClientAssumption`: requests are for methods there
are, references are sequences of segments, sizes and bounds are integers of the
width.

- `IInvHolds`, `TypeCorrect`, `AcknowledgedHolds`, `ReadsHold`
  (`ReadsOneMoment`), `FetchesNamed`. The strengthening is about answers under
  way: what an answer says was so at one of the moments since its call was sent
  (`AnswersTrue`), for a request that a caller sent (`CallsSent`); the history
  goes up to now (`UpToDate`), and the server lists an id once (`Listed`).
  `SnapshotShows` and `ProofShows` are the lemmas about the code: what
  TaskSnapshot and FindProof pick from the lists of one moment is what there was
  to know of the task at that moment, for lists of every length. That a cleaned
  path is the path of the artifact named
  (`JoinPathKeeps`, `PathLeadsToNamed`) is proved for references of every length;
  `JoinPath` is a recursive function, and the first prefix on which it would
  differ from the reference leads to a contradiction.

**`NetworkAuditProofs`**, from `AuditAssumption`, `RecordsAssumption` and
`InstantsAssumption`: records have the fields of a record, instants are numbers.

- `IInvHolds`, `TypeCorrect`, `RefsTell` (`RefsTellWhatArrived`), `HonestArrive`
  (`HonestArriveWhole`). A message is the wire form of a record that validated,
  with the reference projected from it (`MessagesMade`); what is stored tells
  (`StoredTold`). The arithmetic is `ThereAndBack`: an instant that has a
  count (`Encodable`) is read back as it was, but for the epoch, which is read as
  no time.

**`ProviderContractsProofs`**, from `DraftsAssumption`, `EvidenceAssumption` and
`AmountsAssumption`: contracts and profiles have their fields, evidence that
validates names a reference and a digest, amounts are integers.

- `IInvHolds`, `TypeCorrect`, `ClaimsAreBacked`, `InvalidByOther`
  (`InvalidOnlyByOtherEvidence`), `AdmittedAreConfined`, `OneTreasuryEach`. A
  published contract is a draft that validated, changed in its conformance fields
  alone, by evidence that was observed (`Published`, `EvidenceSeen`), one for
  each identity (`OnePerIdentity`). Applying evidence leaves alone what confines
  a profile (`ConfinesKept`). `OneTreasuryEach` needs nothing from the registry:
  the guards of one `Admit` are enough, and the lemmas are about how the optional
  documents are joined (`TreasuryConstrains`, `RoutedToTreasury`).

**`LeasedWorkProofs`**, from `LeasedWorkAssumption` and `OrdersAssumption`: what a
control plane writes has the fields of its type, and a run-log policy is told
apart from a missing, null or unknown field.

- `IInvHolds`, `TypeCorrect`, `SessionsStayInWindow`, `RunLogsHold`,
  `DeliveriesDeclared`, `WorkIsConfined`. What is on the way or held is a lease
  for an admitted order (`DocumentsGranted`, `HeldTaken`), in which relays
  changed the session policy only in ways its hash shows (`AlteredIsRefused`) and
  the run-log policy in no way that reading it shows, unless they dropped it
  (`RelayKeeps`). `WorkIsConfined` needs of it that what is held was granted for
  a task that validated, and `Execute`'s own check of the adapter.

Only model-checked: liveness, `QueuedEventuallyLeased` and `CallsReturn`.
Fairness and ENABLED are out of the prover's reach.

## 5. What is not modelled

Wording of errors, JSON field names, the exact grammar of identifiers, digests
and URLs (`wellFormed`); the strict JSON decoder beyond whether it accepts
(`strict`); generated protobuf code. Behaviour the library leaves to its host is
not modelled either: deduplication of requests and delivery receipts, rollback
protection by epochs, the CVE policy of bundles, the order of conformance
evidence, sharing of contract values.

Whole parts without a model, and why:

- Marketplace operations (5811–6545) and service ingress, SLO, benchmark and
  failure evidence: records that are validated one at a time, field by field.
  No function of the repository compares two of them, moves one from a status
  to another, or reads what another produced, so every property a model could
  state would repeat one condition of one validator.
- Runtime provider messages: presence checks of single fields; the service that
  exchanges them, and the interfaces of `service_runtime.go`, are implemented
  elsewhere.
- Delivery status updates and actions (4706–4728): types without a validator
  or a method.
- Upstream client requirements and image policies (6603–6702), forwardable
  artifact references, package artifacts: single fields, and a hash over bytes.

## 6. Plan

Modelled in this order: what decides whether work is accepted and paid
(receipts, stream proof), the signed exchanges (lifecycle, setup), selection,
placement, contracts and the client, then the audit, the documents of a leased
task, and the products that contracts are matched with.

What could still be composed is `RuntimePlacement` with `AgentSelection`
(placement on derived capabilities followed by a lease, with both kinds of
staleness); no function of the library calls both, and neither's state
influences the other's decision.

Nothing that a passing run checks is left to prove but the two liveness
properties.

## 7. Running

    tlc -config MCReceipts.cfg MCReceipts
    tlapm ReceiptsProofs.tla

The other runs and proof modules go the same way; PROJECT.json lists them.
