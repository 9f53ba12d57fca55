------------------------ MODULE ProviderContractsProofs ------------------------
(***************************************************************************)
(* Proofs about ProviderContracts for every set of drafts, evidence,       *)
(* products and workers, and every bound on the evidence observed.         *)
(***************************************************************************)
EXTENDS ProviderContracts, SequenceTheorems, WellFoundedInduction, TLAPS

(* The evidence of a set that is about the profile i of a contract.        *)
Own(set, c, i) ==
    {e \in set : MatchesContract(e, c) /\ e.RuntimeProfileID = c.Profiles[i].ID}

(* Evidence is applied to the first profile of its name.                   *)
IsFirst(c, i) == i = First(ProfilesNamed(c, c.Profiles[i].ID))

(* The profile claims a real client on the word of evidence applied to it, *)
(* and lists the conformance profiles of all of it.                        *)
Evidenced(p, own) ==
    /\ p.UpstreamClientConformance = "real-client"
    /\ \E e \in own :
          p.EvidenceRef = e.EvidenceRef /\ p.EvidenceDigest = e.EvidenceDigest
    /\ \A e \in own : e.ConformanceProfile \in Elements(p.ConformanceProfiles)

ConformanceFields ==
    {"UpstreamClientConformance", "EvidenceRef", "EvidenceDigest", "ConformanceProfiles"}

(* A published contract is a draft that validated, changed only in what    *)
(* its profiles say of conformance, and there only by the evidence that was*)
(* applied since.                                                          *)
RestsOn(set, c, d) ==
    /\ ValidateContract(d)
    /\ \A f \in ContractFields \ {"Profiles"} : c[f] = d[f]
    /\ DOMAIN c.Profiles = DOMAIN d.Profiles
    /\ \A i \in DOMAIN d.Profiles :
          /\ \A f \in ProfileFields \ ConformanceFields :
                c.Profiles[i][f] = d.Profiles[i][f]
          /\ \/ /\ c.Profiles[i] = d.Profiles[i]
                /\ IsFirst(c, i) => Own(set, c, i) = {}
             \/ IsFirst(c, i) /\ Evidenced(c.Profiles[i], Own(set, c, i))

Published ==
    \A c \in contracts : IsContract(c) /\ \E d \in Drafts : RestsOn(applied, c, d)

OnePerIdentity == \A c, d \in contracts : SameContract(c, d) => c = d

EvidenceSeen ==
    /\ observed \subseteq Evidence /\ applied \subseteq observed
    /\ \A e \in applied : ValidateEvidence(e)

IInv == Published /\ OnePerIdentity /\ EvidenceSeen

-----------------------------------------------------------------------------
(* The first of the profiles found.                                        *)

(* A nonempty set of natural numbers has a least element.                  *)
LEMMA LeastNat ==
    ASSUME NEW S \in SUBSET Nat, S # {}
    PROVE  \E m \in S : \A k \in S : m <= k
<1> DEFINE R == OpToRel(<, Nat)
<1>1. IsWellFoundedOn(R, Nat)
  BY NatLessThanWellFounded
<1>2. \A x, y \in Nat : <<x, y>> \in R <=> x < y
  BY DEF OpToRel
<1> HIDE DEF R
<1>3. \E x \in S : \A y \in S : ~ (<<y, x>> \in R)
  BY <1>1, WFMin
<1>4. PICK m \in S : \A y \in S : ~ (<<y, m>> \in R)
  BY <1>3
<1>5. \A k \in S : m <= k
  <2> SUFFICES ASSUME NEW k \in S PROVE m <= k
    OBVIOUS
  <2>1. m \in Nat /\ k \in Nat
    OBVIOUS
  <2>2. ~ (k < m)
    BY <1>2, <1>4, <2>1
  <2> QED
    BY <2>1, <2>2
<1> QED
  BY <1>5

(* The first of a nonempty set of positions is one of them.                *)
LEMMA FirstIsIn ==
    ASSUME NEW S \in SUBSET Nat, S # {}
    PROVE  First(S) \in S
BY LeastNat DEF First

(* A list is a function on the positions up to its length.                 *)
LEMMA ListDomain ==
    ASSUME NEW s, IsList(s)
    PROVE  /\ DOMAIN s \subseteq Nat
           /\ s = [i \in DOMAIN s |-> s[i]]
           /\ Len(s) \in Nat /\ DOMAIN s = 1 .. Len(s)
BY DEF IsList

(* Appending to a list gives a list with one more element.                 *)
LEMMA ListAppend ==
    ASSUME NEW s, IsList(s), NEW x
    PROVE  IsList(Append(s, x)) /\ Elements(Append(s, x)) = Elements(s) \cup {x}
<1> DEFINE E == Elements(s) \cup {x}
           t == Append(s, x)
<1>1. s \in Seq(Elements(s)) /\ s \in Seq(E)
  <2>1. s \in Seq(Elements(s)) /\ Elements(s) \subseteq E
    BY DEF IsList
  <2> HIDE DEF E
  <2> QED
    BY <2>1, SeqMonotonic
<1>2. /\ t \in Seq(E) /\ Len(t) = Len(s) + 1
      /\ \A i \in 1 .. Len(s) : t[i] = s[i]
      /\ t[Len(s) + 1] = x
  BY <1>1, AppendProperties
<1>3. DOMAIN t = 1 .. Len(s) + 1 /\ DOMAIN s = 1 .. Len(s) /\ Len(s) \in Nat
  BY <1>1, <1>2
<1> HIDE DEF t
<1>4. Elements(t) = E
  <2>1. \A i \in DOMAIN t : t[i] \in E
    BY <1>1, <1>2, <1>3 DEF Elements
  <2>2. \A i \in DOMAIN s : i \in DOMAIN t /\ t[i] = s[i]
    BY <1>2, <1>3
  <2>3. Len(s) + 1 \in DOMAIN t
    BY <1>3
  <2> QED
    BY <1>2, <2>1, <2>2, <2>3 DEF Elements
<1> QED
  BY <1>2, <1>4 DEF IsList, t

-----------------------------------------------------------------------------
(* Applying evidence.                                                      *)

(* Evidence changes what a profile says of conformance, and nothing else.  *)
LEMMA WithEvidenceFields ==
    ASSUME NEW p, DOMAIN p = ProfileFields, IsList(p.ConformanceProfiles), NEW e
    PROVE  LET q == WithEvidence(p, e)
           IN  /\ DOMAIN q = ProfileFields
               /\ \A f \in ProfileFields \ ConformanceFields : q[f] = p[f]
               /\ q.UpstreamClientConformance = "real-client"
               /\ q.EvidenceRef = e.EvidenceRef
               /\ q.EvidenceDigest = e.EvidenceDigest
               /\ IsList(q.ConformanceProfiles)
               /\ Elements(q.ConformanceProfiles)
                    = Elements(p.ConformanceProfiles) \cup {e.ConformanceProfile}
<1> DEFINE q == WithEvidence(p, e)
<1>1. /\ DOMAIN q = ProfileFields
      /\ \A f \in ProfileFields \ ConformanceFields : q[f] = p[f]
      /\ q.UpstreamClientConformance = "real-client"
      /\ q.EvidenceRef = e.EvidenceRef
      /\ q.EvidenceDigest = e.EvidenceDigest
      /\ q.ConformanceProfiles = IF e.ConformanceProfile \in Elements(p.ConformanceProfiles)
                                 THEN p.ConformanceProfiles
                                 ELSE Append(p.ConformanceProfiles, e.ConformanceProfile)
  BY DEF WithEvidence, ProfileFields, ConformanceFields
<1> HIDE DEF q
<1>2. CASE e.ConformanceProfile \in Elements(p.ConformanceProfiles)
  BY <1>1, <1>2 DEF q
<1>3. CASE e.ConformanceProfile \notin Elements(p.ConformanceProfiles)
  BY <1>1, <1>3, ListAppend DEF q
<1> QED
  BY <1>2, <1>3

(* x is the contract c after e was applied to its profile i.               *)
AppliedTo(c, e, i, x) ==
    /\ i \in DOMAIN c.Profiles /\ c.Profiles[i].ID = e.RuntimeProfileID
    /\ IsContract(x)
    /\ \A f \in ContractFields \ {"Profiles"} : x[f] = c[f]
    /\ DOMAIN x.Profiles = DOMAIN c.Profiles
    /\ x.Profiles[i] = WithEvidence(c.Profiles[i], e)
    /\ \A j \in DOMAIN c.Profiles \ {i} : x.Profiles[j] = c.Profiles[j]
    /\ \A j \in DOMAIN c.Profiles : x.Profiles[j].ID = c.Profiles[j].ID
    /\ \A id : ProfilesNamed(x, id) = ProfilesNamed(c, id)

(* Applying evidence changes the first profile of the name it gives, and   *)
(* of that one the conformance fields alone                                *)
(* (ApplyProviderConformanceEvidence).                                     *)
LEMMA ApplyFields ==
    ASSUME NEW c, IsContract(c), NEW e, ProfilesNamed(c, e.RuntimeProfileID) # {}
    PROVE  AppliedTo(c, e, First(ProfilesNamed(c, e.RuntimeProfileID)),
                     ApplyProviderConformanceEvidence(c, e))
<1> DEFINE i == First(ProfilesNamed(c, e.RuntimeProfileID))
           x == ApplyProviderConformanceEvidence(c, e)
<1>1. i \in DOMAIN c.Profiles /\ c.Profiles[i].ID = e.RuntimeProfileID
  <2>1. ProfilesNamed(c, e.RuntimeProfileID) \subseteq Nat
    BY ListDomain DEF ProfilesNamed, IsContract
  <2>2. i \in ProfilesNamed(c, e.RuntimeProfileID)
    BY <2>1, FirstIsIn
  <2> HIDE DEF i
  <2> QED
    BY <2>2 DEF ProfilesNamed
<1>2. x = [c EXCEPT !.Profiles[i] = WithEvidence(@, e)]
  BY DEF ApplyProviderConformanceEvidence
<1> HIDE DEF i, x
<1>3. /\ DOMAIN x = ContractFields
      /\ \A f \in ContractFields \ {"Profiles"} : x[f] = c[f]
      /\ DOMAIN x.Profiles = DOMAIN c.Profiles
      /\ x.Profiles[i] = WithEvidence(c.Profiles[i], e)
      /\ \A j \in DOMAIN c.Profiles \ {i} : x.Profiles[j] = c.Profiles[j]
      /\ x.Profiles = [j \in DOMAIN c.Profiles |-> x.Profiles[j]]
  BY <1>1, <1>2 DEF IsContract, ContractFields
<1> DEFINE q == WithEvidence(c.Profiles[i], e)
<1>4. /\ DOMAIN q = ProfileFields
      /\ IsList(q.ConformanceProfiles)
      /\ q.ID = c.Profiles[i].ID
  <2>1. DOMAIN c.Profiles[i] = ProfileFields /\ IsList(c.Profiles[i].ConformanceProfiles)
    BY <1>1 DEF IsContract
  <2>2. /\ DOMAIN q = ProfileFields
        /\ \A f \in ProfileFields \ ConformanceFields : q[f] = c.Profiles[i][f]
        /\ IsList(q.ConformanceProfiles)
    <3>1. PICK p : p = c.Profiles[i]
      OBVIOUS
    <3>2. DOMAIN p = ProfileFields /\ IsList(p.ConformanceProfiles)
      BY <2>1, <3>1
    <3>3. /\ DOMAIN WithEvidence(p, e) = ProfileFields
          /\ \A f \in ProfileFields \ ConformanceFields : WithEvidence(p, e)[f] = p[f]
          /\ IsList(WithEvidence(p, e).ConformanceProfiles)
      BY <3>2, WithEvidenceFields
    <3> QED
      BY <3>1, <3>3
  <2>3. "ID" \in ProfileFields \ ConformanceFields
    BY DEF ProfileFields, ConformanceFields
  <2> HIDE DEF q
  <2> QED
    BY <2>2, <2>3
<1> HIDE DEF q
<1>5. \A j \in DOMAIN c.Profiles : x.Profiles[j].ID = c.Profiles[j].ID
  BY <1>1, <1>3, <1>4 DEF q
<1>6. IsList(x.Profiles)
  <2>1. Len(c.Profiles) \in Nat /\ DOMAIN c.Profiles = 1 .. Len(c.Profiles)
    BY ListDomain DEF IsContract
  <2>2. \A j \in 1 .. Len(c.Profiles) : x.Profiles[j] \in Elements(x.Profiles)
    BY <1>3, <2>1 DEF Elements
  <2>3. x.Profiles = [j \in 1 .. Len(c.Profiles) |-> x.Profiles[j]]
    BY <1>3, <2>1
  <2> DEFINE y == x.Profiles
  <2>4. y \in [1 .. Len(c.Profiles) -> Elements(y)]
    <3>1. y = [j \in 1 .. Len(c.Profiles) |-> y[j]]
            /\ \A j \in 1 .. Len(c.Profiles) : y[j] \in Elements(y)
      BY <2>2, <2>3
    <3> HIDE DEF y
    <3> QED
      BY <3>1
  <2> HIDE DEF y
  <2>5. y \in Seq(Elements(y))
    BY <2>1, <2>4
  <2> QED
    BY <2>5 DEF y, IsList
<1>7. \A j \in DOMAIN c.Profiles :
          DOMAIN x.Profiles[j] = ProfileFields /\ IsList(x.Profiles[j].ConformanceProfiles)
  BY <1>1, <1>3, <1>4 DEF q, IsContract
<1>8. IsContract(x)
  BY <1>3, <1>6, <1>7 DEF IsContract
<1>9. \A id : ProfilesNamed(x, id) = ProfilesNamed(c, id)
  BY <1>3, <1>5 DEF ProfilesNamed
<1>10. AppliedTo(c, e, i, x)
  BY <1>1, <1>3, <1>5, <1>8, <1>9 DEF AppliedTo
<1> QED
  BY <1>10 DEF i, x

(* Contracts that differ in their profiles alone have one identity, and    *)
(* the same evidence is about them.                                        *)
LEMMA SameIdentity ==
    ASSUME NEW c, NEW x, \A f \in ContractFields \ {"Profiles"} : x[f] = c[f]
    PROVE  /\ x.PluginID = c.PluginID /\ x.ContractID = c.ContractID
           /\ x.Version = c.Version
           /\ \A d : SameContract(x, d) <=> SameContract(c, d)
           /\ \A d : SameContract(d, x) <=> SameContract(d, c)
           /\ \A e : MatchesContract(e, x) <=> MatchesContract(e, c)
BY DEF ContractFields, SameContract, MatchesContract

-----------------------------------------------------------------------------
(* The steps.                                                              *)

(* Publishing keeps the invariant: a draft that validates replaces the     *)
(* contract of its identity.                                               *)
LEMMA PublishKeepsIInv ==
    ASSUME IInv, NEW d \in Drafts, Publish(d)
    PROVE  IInv'
<1>1. /\ ValidateContract(d)
      /\ contracts' = {c \in contracts : ~SameContract(c, d)} \cup {d}
      /\ applied' = {e \in applied : ~SameContract(e, d)}
      /\ observed' = observed
  BY DEF Publish
<1>2. ASSUME NEW c \in contracts, ~SameContract(c, d)
      PROVE  IsContract(c) /\ \E d0 \in Drafts : RestsOn(applied', c, d0)
  <2>1. PICK d0 \in Drafts : RestsOn(applied, c, d0)
    BY DEF IInv, Published
  <2>2. \A i : Own(applied', c, i) = Own(applied, c, i)
    BY <1>1, <1>2 DEF Own, MatchesContract, SameContract
  <2>3. RestsOn(applied', c, d0)
    BY <2>1, <2>2 DEF RestsOn
  <2> QED
    BY <2>3 DEF IInv, Published
<1>3. IsContract(d) /\ RestsOn(applied', d, d)
  <2>1. IsContract(d)
    BY DraftsAssumption
  <2>2. \A i : Own(applied', d, i) = {}
    BY <1>1 DEF Own, MatchesContract, SameContract
  <2>3. RestsOn(applied', d, d)
    BY <1>1, <2>2 DEF RestsOn
  <2> QED
    BY <2>1, <2>3
<1>4. Published'
  BY <1>1, <1>2, <1>3 DEF Published
<1>5. OnePerIdentity'
  BY <1>1 DEF IInv, OnePerIdentity, SameContract
<1>6. EvidenceSeen'
  BY <1>1 DEF IInv, EvidenceSeen
<1> QED
  BY <1>4, <1>5, <1>6 DEF IInv

(* Observing evidence keeps the invariant.                                 *)
LEMMA ObserveKeepsIInv ==
    ASSUME IInv, NEW e \in Evidence, Observe(e)
    PROVE  IInv'
BY DEF IInv, Observe, Published, OnePerIdentity, EvidenceSeen

(* Applying evidence keeps the invariant: it was observed, and the         *)
(* contract keeps its identity.                                            *)
LEMMA ApplyKeepsIInv ==
    ASSUME IInv, NEW c \in contracts, NEW e \in observed, Apply(c, e)
    PROVE  IInv'
<1>1. PICK x : x = ApplyProviderConformanceEvidence(c, e)
  OBVIOUS
<1>2. /\ Applies(c, e)
      /\ contracts' = (contracts \ {c}) \cup {x}
      /\ applied' = applied \cup {e}
      /\ observed' = observed
  BY <1>1 DEF Apply
<1>3. IsContract(c) /\ ProfilesNamed(c, e.RuntimeProfileID) # {}
        /\ MatchesContract(e, c) /\ ValidateEvidence(e)
  BY <1>2 DEF IInv, Published, Applies
<1>4. PICK k : k = First(ProfilesNamed(c, e.RuntimeProfileID))
  OBVIOUS
<1>5. /\ k \in DOMAIN c.Profiles /\ c.Profiles[k].ID = e.RuntimeProfileID
      /\ IsContract(x)
      /\ \A f \in ContractFields \ {"Profiles"} : x[f] = c[f]
      /\ DOMAIN x.Profiles = DOMAIN c.Profiles
      /\ x.Profiles[k] = WithEvidence(c.Profiles[k], e)
      /\ \A j \in DOMAIN c.Profiles \ {k} : x.Profiles[j] = c.Profiles[j]
      /\ \A j \in DOMAIN c.Profiles : x.Profiles[j].ID = c.Profiles[j].ID
      /\ \A id : ProfilesNamed(x, id) = ProfilesNamed(c, id)
  <2>1. AppliedTo(c, e, k, x)
    BY <1>1, <1>3, <1>4, ApplyFields
  <2> QED
    BY <2>1 DEF AppliedTo
<1>6. /\ \A d : SameContract(x, d) <=> SameContract(c, d)
      /\ \A d : SameContract(d, x) <=> SameContract(d, c)
      /\ \A g : MatchesContract(g, x) <=> MatchesContract(g, c)
  BY <1>5, SameIdentity
<1>7. PICK d \in Drafts : RestsOn(applied, c, d)
  BY DEF IInv, Published
(* Only the profile the evidence is about has evidence of its own more.    *)
<1>8. \A j \in DOMAIN c.Profiles :
          /\ IsFirst(x, j) <=> IsFirst(c, j)
          /\ IsFirst(c, j) /\ j # k => Own(applied', x, j) = Own(applied, c, j)
          /\ Own(applied', x, k) = Own(applied, c, k) \cup {e}
  <2>1. \A j \in DOMAIN c.Profiles : IsFirst(x, j) <=> IsFirst(c, j)
    BY <1>5 DEF IsFirst
  <2>2. ASSUME NEW j \in DOMAIN c.Profiles, IsFirst(c, j), j # k
        PROVE  Own(applied', x, j) = Own(applied, c, j)
    <3>1. c.Profiles[j].ID # e.RuntimeProfileID
      BY <1>4, <2>2 DEF IsFirst
    <3>2. x.Profiles[j].ID = c.Profiles[j].ID
      BY <1>5
    <3> QED
      BY <1>2, <1>6, <3>1, <3>2 DEF Own
  <2>3. Own(applied', x, k) = Own(applied, c, k) \cup {e}
    BY <1>2, <1>3, <1>5, <1>6 DEF Own
  <2> QED
    BY <2>1, <2>2, <2>3
<1>9. RestsOn(applied', x, d)
  <2>1. /\ ValidateContract(d)
        /\ \A f \in ContractFields \ {"Profiles"} : x[f] = d[f]
        /\ DOMAIN x.Profiles = DOMAIN d.Profiles
        /\ DOMAIN c.Profiles = DOMAIN d.Profiles
    BY <1>5, <1>7 DEF RestsOn
  <2>2. ASSUME NEW j \in DOMAIN d.Profiles, j # k
        PROVE  /\ \A f \in ProfileFields \ ConformanceFields :
                      x.Profiles[j][f] = d.Profiles[j][f]
               /\ \/ /\ x.Profiles[j] = d.Profiles[j]
                     /\ IsFirst(x, j) => Own(applied', x, j) = {}
                  \/ IsFirst(x, j) /\ Evidenced(x.Profiles[j], Own(applied', x, j))
    <3>1. x.Profiles[j] = c.Profiles[j]
      BY <1>5, <2>1, <2>2
    <3> QED
      BY <1>7, <1>8, <2>1, <2>2, <3>1 DEF RestsOn
  <2>3. /\ \A f \in ProfileFields \ ConformanceFields :
               x.Profiles[k][f] = d.Profiles[k][f]
        /\ IsFirst(x, k) /\ Evidenced(x.Profiles[k], Own(applied', x, k))
    <3>1. PICK p : p = c.Profiles[k]
      OBVIOUS
    <3>2. PICK q : q = x.Profiles[k]
      OBVIOUS
    <3>3. DOMAIN p = ProfileFields /\ IsList(p.ConformanceProfiles)
      BY <1>3, <1>5, <3>1 DEF IsContract
    <3>4. q = WithEvidence(p, e)
      BY <1>5, <3>1, <3>2
    <3>5. /\ \A f \in ProfileFields \ ConformanceFields : q[f] = p[f]
          /\ q.UpstreamClientConformance = "real-client"
          /\ q.EvidenceRef = e.EvidenceRef
          /\ q.EvidenceDigest = e.EvidenceDigest
          /\ Elements(q.ConformanceProfiles)
                = Elements(p.ConformanceProfiles) \cup {e.ConformanceProfile}
      <4>1. LET w == WithEvidence(p, e)
            IN  /\ \A f \in ProfileFields \ ConformanceFields : w[f] = p[f]
                /\ w.UpstreamClientConformance = "real-client"
                /\ w.EvidenceRef = e.EvidenceRef
                /\ w.EvidenceDigest = e.EvidenceDigest
                /\ Elements(w.ConformanceProfiles)
                      = Elements(p.ConformanceProfiles) \cup {e.ConformanceProfile}
        BY <3>3, WithEvidenceFields
      <4> QED
        BY <3>4, <4>1
    <3>6. IsFirst(c, k) /\ IsFirst(x, k)
      BY <1>4, <1>5, <1>8 DEF IsFirst
    <3>7. \A g \in Own(applied, c, k) :
              g.ConformanceProfile \in Elements(p.ConformanceProfiles)
      <4>1. Own(applied, c, k) = {} \/ Evidenced(c.Profiles[k], Own(applied, c, k))
        BY <1>5, <1>7, <2>1, <3>6 DEF RestsOn
      <4>2. Own(applied, c, k) = {} \/ Evidenced(p, Own(applied, c, k))
        BY <3>1, <4>1
      <4> QED
        BY <4>2 DEF Evidenced
    <3>8. Evidenced(q, Own(applied', x, k))
      BY <1>5, <1>8, <3>5, <3>7 DEF Evidenced
    <3>9. \A f \in ProfileFields \ ConformanceFields : p[f] = d.Profiles[k][f]
      BY <1>5, <1>7, <2>1, <3>1 DEF RestsOn
    <3> QED
      BY <3>2, <3>5, <3>6, <3>8, <3>9
  <2>4. \A j \in DOMAIN d.Profiles :
            /\ \A f \in ProfileFields \ ConformanceFields :
                   x.Profiles[j][f] = d.Profiles[j][f]
            /\ \/ /\ x.Profiles[j] = d.Profiles[j]
                  /\ IsFirst(x, j) => Own(applied', x, j) = {}
               \/ IsFirst(x, j) /\ Evidenced(x.Profiles[j], Own(applied', x, j))
    BY <2>2, <2>3
  <2> QED
    BY <2>1, <2>4 DEF RestsOn
<1>10. ASSUME NEW b \in contracts, b # c
       PROVE  \E d0 \in Drafts : RestsOn(applied', b, d0)
  <2>1. PICK d0 \in Drafts : RestsOn(applied, b, d0)
    BY DEF IInv, Published
  <2>2. ~SameContract(b, c)
    BY <1>10 DEF IInv, OnePerIdentity
  <2>3. ~MatchesContract(e, b)
    BY <1>3, <2>2 DEF MatchesContract, SameContract
  <2>4. \A i : Own(applied', b, i) = Own(applied, b, i)
    BY <1>2, <2>3 DEF Own
  <2> QED
    BY <2>1, <2>4 DEF RestsOn
<1>11. Published'
  BY <1>2, <1>5, <1>9, <1>10 DEF IInv, Published
<1>12. OnePerIdentity'
  BY <1>2, <1>6 DEF IInv, OnePerIdentity
<1>13. EvidenceSeen'
  BY <1>2, <1>3 DEF IInv, EvidenceSeen
<1> QED
  BY <1>11, <1>12, <1>13 DEF IInv

(* One contract per identity is published, each resting on a draft that    *)
(* validated and on the evidence applied to it since.                      *)
THEOREM IInvHolds == Spec => []IInv
<1>1. Init => IInv
  BY DEF Init, IInv, Published, OnePerIdentity, EvidenceSeen
<1>2. IInv /\ [Next]_vars => IInv'
  <2> SUFFICES ASSUME IInv, [Next]_vars PROVE IInv'
    OBVIOUS
  <2>1. CASE UNCHANGED vars
    BY <2>1 DEF vars, IInv, Published, OnePerIdentity, EvidenceSeen
  <2>2. ASSUME NEW d \in Drafts, Publish(d) PROVE IInv'
    BY <2>2, PublishKeepsIInv
  <2>3. ASSUME NEW e \in Evidence, Observe(e) PROVE IInv'
    BY <2>3, ObserveKeepsIInv
  <2>4. ASSUME NEW c \in contracts, NEW e \in observed, Apply(c, e) PROVE IInv'
    BY <2>4, ApplyKeepsIInv
  <2>5. ASSUME NEW c \in contracts, NEW p \in Products, Admit(c, p) PROVE IInv'
    BY <2>5 DEF Admit, IInv, Published, OnePerIdentity, EvidenceSeen
  <2> QED
    BY <2>1, <2>2, <2>3, <2>4, <2>5 DEF Next
<1> QED
  BY <1>1, <1>2, PTL DEF Spec

-----------------------------------------------------------------------------
(* What follows of the published contracts.                                *)

(* Profiles that agree outside the conformance fields agree in each field  *)
(* that confines them.                                                     *)
LEMMA SameFields ==
    ASSUME NEW p, NEW q, \A f \in ProfileFields \ ConformanceFields : p[f] = q[f]
    PROVE  /\ p.ID = q.ID /\ p.wellFormed = q.wellFormed
           /\ p.RuntimeProfile = q.RuntimeProfile
           /\ p.ExecutorProvider = q.ExecutorProvider
           /\ p.ExecutionSecurityTier = q.ExecutionSecurityTier
           /\ p.ProofTier = q.ProofTier /\ p.Confinement = q.Confinement
           /\ p.HostWorkspaceSupported = q.HostWorkspaceSupported
           /\ p.Forbidden = q.Forbidden /\ p.WASM = q.WASM
           /\ p.ResiduePolicy = q.ResiduePolicy
BY DEF ProfileFields, ConformanceFields

(* What a validated profile promises besides conformance.                  *)
Confines(p) ==
    /\ p.wellFormed
    /\ p.RuntimeProfile \in RuntimeProfiles
    /\ p.ExecutionSecurityTier \in ContractTiers
    /\ p.ProofTier \in ContractProofs
    /\ ValidResidue(p.ResiduePolicy,
                    IF p.HostWorkspaceSupported THEN {} ELSE {"NoWorkspaceAllowed"})
    /\ IF p.RuntimeProfile \in WASMProfiles
       THEN /\ ~p.HostWorkspaceSupported
            /\ p.ExecutionSecurityTier = "wasm-capability"
            /\ p.Confinement = "none"
            /\ ValidateWASM(p.WASM, p.RuntimeProfile)
       ELSE /\ p.ExecutionSecurityTier # "wasm-capability"
            /\ p.Confinement = "container"
    /\ p.Forbidden

(* A profile validates if and only if it is confined and its conformance   *)
(* is valid (ProviderRuntimeProfile.Validate).                             *)
LEMMA ValidConfines ==
    ASSUME NEW p
    PROVE  ValidateProfile(p) <=> /\ Confines(p) /\ p.ConformanceProfiles # <<>>
                                  /\ ValidConformance(p)
BY Zenon DEF ValidateProfile, Confines

(* Confinement depends on no conformance field.                            *)
LEMMA ConfinesKept ==
    ASSUME NEW p, NEW q, \A f \in ProfileFields \ ConformanceFields : p[f] = q[f],
           Confines(q)
    PROVE  Confines(p)
BY SameFields, Zenon DEF Confines

(* A profile of a published contract confines what its draft confined, and *)
(* claims what its draft claimed or what evidence showed.                  *)
LEMMA PublishedProfile ==
    ASSUME IInv, NEW c \in contracts, NEW i \in DOMAIN c.Profiles
    PROVE  \E d \in Drafts :
              /\ RestsOn(applied, c, d)
              /\ i \in DOMAIN d.Profiles
              /\ ValidateProfile(d.Profiles[i])
              /\ \A f \in ProfileFields \ ConformanceFields :
                    c.Profiles[i][f] = d.Profiles[i][f]
              /\ Confines(c.Profiles[i])
              /\ \/ c.Profiles[i] = d.Profiles[i]
                 \/ Evidenced(c.Profiles[i], Own(applied, c, i))
<1>1. PICK d \in Drafts : RestsOn(applied, c, d)
  BY DEF IInv, Published
<1>2. i \in DOMAIN d.Profiles /\ ValidateProfile(d.Profiles[i])
  BY <1>1 DEF RestsOn, ValidateContract, ValidateRuntimeContract
<1>3. PICK p, q : p = c.Profiles[i] /\ q = d.Profiles[i]
  OBVIOUS
<1>4. \A f \in ProfileFields \ ConformanceFields : c.Profiles[i][f] = d.Profiles[i][f]
  BY <1>1, <1>2 DEF RestsOn
<1>5. Confines(q)
  BY <1>2, <1>3, ValidConfines
<1>6. \A f \in ProfileFields \ ConformanceFields : p[f] = q[f]
  BY <1>3, <1>4
<1>7. Confines(p)
  BY <1>5, <1>6, ConfinesKept
<1>8. \/ c.Profiles[i] = d.Profiles[i]
      \/ Evidenced(c.Profiles[i], Own(applied, c, i))
  BY <1>1, <1>2 DEF RestsOn
<1> QED
  BY <1>1, <1>2, <1>3, <1>4, <1>7, <1>8

(* A claim of a real client rests on evidence observed for this version of *)
(* the contract and this profile, or on the draft as published.            *)
THEOREM ClaimsAreBacked == Spec => []ClaimsBacked
<1>1. IInv => ClaimsBacked
  <2> SUFFICES ASSUME IInv, NEW c \in contracts, NEW i \in DOMAIN c.Profiles,
                      c.Profiles[i].UpstreamClientConformance = "real-client"
               PROVE
               \/ \E e \in observed :
                     /\ e.PluginID = c.PluginID /\ e.ContractID = c.ContractID
                     /\ e.Version = c.Version /\ e.RuntimeProfileID = c.Profiles[i].ID
                     /\ c.Profiles[i].EvidenceRef = e.EvidenceRef
                     /\ c.Profiles[i].EvidenceDigest = e.EvidenceDigest
                     /\ e.ConformanceProfile
                           \in Elements(c.Profiles[i].ConformanceProfiles)
               \/ \E d \in Drafts :
                     /\ SameContract(c, d) /\ d.Version = c.Version
                     /\ i \in DOMAIN d.Profiles
                     /\ d.Profiles[i].UpstreamClientConformance = "real-client"
                     /\ d.Profiles[i].EvidenceRef = c.Profiles[i].EvidenceRef
                     /\ d.Profiles[i].EvidenceDigest = c.Profiles[i].EvidenceDigest
    BY DEF ClaimsBacked
  <2>1. PICK d \in Drafts :
            /\ RestsOn(applied, c, d)
            /\ i \in DOMAIN d.Profiles
            /\ \/ c.Profiles[i] = d.Profiles[i]
               \/ Evidenced(c.Profiles[i], Own(applied, c, i))
    BY PublishedProfile
  <2>2. CASE c.Profiles[i] = d.Profiles[i]
    <3>1. c.PluginID = d.PluginID /\ c.ContractID = d.ContractID /\ c.Version = d.Version
      BY <2>1, SameIdentity DEF RestsOn
    <3> QED
      BY <2>1, <2>2, <3>1 DEF SameContract
  <2>3. CASE Evidenced(c.Profiles[i], Own(applied, c, i))
    <3>1. PICK e \in Own(applied, c, i) :
              /\ c.Profiles[i].EvidenceRef = e.EvidenceRef
              /\ c.Profiles[i].EvidenceDigest = e.EvidenceDigest
              /\ e.ConformanceProfile \in Elements(c.Profiles[i].ConformanceProfiles)
      BY <2>3 DEF Evidenced
    <3>2. e \in observed /\ MatchesContract(e, c) /\ e.RuntimeProfileID = c.Profiles[i].ID
      BY DEF Own, IInv, EvidenceSeen
    <3> QED
      BY <3>1, <3>2 DEF MatchesContract
  <2> QED
    BY <2>1, <2>2, <2>3
<1> QED
  BY <1>1, IInvHolds, PTL

(* A published contract that does not validate has a profile to which      *)
(* evidence was applied, none of it of upstream-client-v1.                 *)
THEOREM InvalidByOther == Spec => []InvalidOnlyByOtherEvidence
<1>1. IInv => InvalidOnlyByOtherEvidence
  <2> SUFFICES ASSUME IInv, NEW c \in contracts,
                      \A i \in DOMAIN c.Profiles :
                          \/ Own(applied, c, i) = {}
                          \/ UpstreamProfile
                                \in {e.ConformanceProfile : e \in Own(applied, c, i)}
               PROVE  ValidateContract(c)
    BY DEF InvalidOnlyByOtherEvidence, Own
  <2>1. PICK d \in Drafts : RestsOn(applied, c, d)
    BY DEF IInv, Published
  <2>2. ASSUME NEW i \in DOMAIN c.Profiles
        PROVE  ValidateProfile(c.Profiles[i]) /\ c.Profiles[i].ID = d.Profiles[i].ID
    <3>1. /\ i \in DOMAIN d.Profiles /\ ValidateProfile(d.Profiles[i])
          /\ \A f \in ProfileFields \ ConformanceFields :
                c.Profiles[i][f] = d.Profiles[i][f]
          /\ \/ c.Profiles[i] = d.Profiles[i]
             \/ Evidenced(c.Profiles[i], Own(applied, c, i))
      BY <2>1, <2>2 DEF RestsOn, ValidateContract, ValidateRuntimeContract
    <3>2. PICK p, q : p = c.Profiles[i] /\ q = d.Profiles[i]
      OBVIOUS
    <3>3. \A f \in ProfileFields \ ConformanceFields : p[f] = q[f]
      BY <3>1, <3>2
    <3>4. p.ID = q.ID /\ Confines(p)
      BY <3>1, <3>2, <3>3, SameFields, ConfinesKept, ValidConfines
    <3>5. ASSUME Evidenced(p, Own(applied, c, i))
          PROVE  p.ConformanceProfiles # <<>> /\ ValidConformance(p)
      <4>1. PICK e \in Own(applied, c, i) :
                p.EvidenceRef = e.EvidenceRef /\ p.EvidenceDigest = e.EvidenceDigest
        BY <3>5 DEF Evidenced
      <4>2. p.EvidenceRef # Unset /\ p.EvidenceDigest # Unset
        BY <4>1, EvidenceAssumption DEF Own, IInv, EvidenceSeen
      <4>3. PICK g \in Own(applied, c, i) : g.ConformanceProfile = UpstreamProfile
        BY <2>2, <4>1
      <4>4. UpstreamProfile \in Elements(p.ConformanceProfiles)
        BY <3>5, <4>3 DEF Evidenced
      <4>5. p.UpstreamClientConformance = "real-client"
        BY <3>5 DEF Evidenced
      <4>6. p.ConformanceProfiles # <<>>
        BY <4>4 DEF Elements
      <4> QED
        BY <4>2, <4>4, <4>5, <4>6 DEF ValidConformance, Conformances
    <3>6. CASE p = q
      BY <3>1, <3>2, <3>6
    <3>7. CASE Evidenced(p, Own(applied, c, i))
      <4>1. ValidateProfile(p)
        BY <3>4, <3>5, <3>7, ValidConfines
      <4> QED
        BY <3>2, <3>4, <4>1
    <3> QED
      BY <3>1, <3>2, <3>6, <3>7
  <2>3. ValidateRuntimeContract(c.Profiles)
    <3>1. ValidateRuntimeContract(d.Profiles) /\ DOMAIN c.Profiles = DOMAIN d.Profiles
      BY <2>1 DEF RestsOn, ValidateContract
    <3>2. c.Profiles # <<>>
      <4>1. IsList(d.Profiles) /\ d.Profiles # <<>>
        BY <3>1, DraftsAssumption DEF IsContract, ValidateRuntimeContract
      <4>2. Len(d.Profiles) # 0
        BY <4>1, EmptySeq DEF IsList
      <4>3. Len(d.Profiles) \in Nat /\ DOMAIN d.Profiles = 1 .. Len(d.Profiles)
        BY <4>1, ListDomain
      <4>4. 1 \in DOMAIN d.Profiles
        BY <4>2, <4>3
      <4> QED
        BY <3>1, <4>4
    <3>3. [i \in DOMAIN c.Profiles |-> c.Profiles[i].ID]
            = [i \in DOMAIN d.Profiles |-> d.Profiles[i].ID]
      BY <2>2, <3>1
    <3>4. Distinct([i \in DOMAIN c.Profiles |-> c.Profiles[i].ID])
      BY <3>1, <3>3 DEF ValidateRuntimeContract
    <3> QED
      BY <2>2, <3>2, <3>4 DEF ValidateRuntimeContract
  <2>4. /\ c.PluginID = d.PluginID /\ c.wellFormed = d.wellFormed
        /\ c.OperatingModes = d.OperatingModes /\ c.WorkloadKinds = d.WorkloadKinds
        /\ c.Operations = d.Operations /\ c.ExecutorProviders = d.ExecutorProviders
        /\ c.ExecutionSecurityTiers = d.ExecutionSecurityTiers
        /\ c.ProofTiers = d.ProofTiers /\ c.NetworkModes = d.NetworkModes
    BY <2>1 DEF RestsOn, ContractFields
  <2>5. ValidateContract(d)
    BY <2>1 DEF RestsOn
  <2>6. ProviderPluginRequiresUpstreamClientConformance(c.PluginID) =>
            \A i \in DOMAIN c.Profiles :
                c.Profiles[i].UpstreamClientConformance # Unset
    <3>1. "real-client" # Unset
      BY Zenon DEF Unset
    <3> QED
      BY <2>1, <2>4, <2>5, <3>1 DEF RestsOn, ValidateContract, Evidenced
  <2> QED
    BY <2>3, <2>4, <2>5, <2>6, Zenon DEF ValidateContract
<1> QED
  BY <1>1, IInvHolds, PTL

(* A registry holds one contract per identity, of known conformances, and  *)
(* only observed evidence is applied, whatever is published and in         *)
(* whatever order evidence comes (Validate,                                *)
(* ApplyProviderConformanceEvidence).                                      *)
THEOREM TypeCorrect == Spec => []TypeOK
<1> DEFINE Products_ == \A a \in admitted : a.product \in Products
<1>1. Init => Products_
  BY DEF Init
<1>2. Products_ /\ [Next]_vars => Products_'
  BY DEF Next, vars, Publish, Observe, Apply, Admit
<1>3. IInv /\ Products_ => TypeOK
  <2> SUFFICES ASSUME IInv, Products_ PROVE TypeOK
    OBVIOUS
  <2>1. ASSUME NEW c \in contracts, NEW i \in DOMAIN c.Profiles
        PROVE  c.Profiles[i].UpstreamClientConformance \in Conformances \cup {Unset}
    <3>1. PICK d \in Drafts :
              /\ ValidateProfile(d.Profiles[i])
              /\ \/ c.Profiles[i] = d.Profiles[i]
                 \/ Evidenced(c.Profiles[i], Own(applied, c, i))
      BY <2>1, PublishedProfile
    <3>2. ValidConformance(d.Profiles[i])
      BY <3>1 DEF ValidateProfile
    <3> QED
      BY <3>1, <3>2 DEF ValidConformance, Evidenced, Conformances
  <2> QED
    BY <2>1 DEF TypeOK, IInv, OnePerIdentity, EvidenceSeen
<1> HIDE DEF Products_
<1> QED
  BY <1>1, <1>2, <1>3, IInvHolds, PTL DEF Spec

-----------------------------------------------------------------------------
(* What is admitted.                                                       *)

(* The property of one admission.                                          *)
ConfinedFor(p, f, plugin) ==
    /\ p.ExecutorProvider = f.ExecutorProvider
    /\ p.ExecutionSecurityTier = f.ExecutionSecurityTier
    /\ p.ExecutionSecurityTier # "trusted-native"
    /\ p.ProofTier = f.ProofTier /\ p.ProofTier # "receipt-only"
    /\ p.Forbidden
    /\ IF f.ExecutionSecurityTier = "wasm-capability"
       THEN /\ p.WASM.complete
            /\ p.RuntimeProfile = "browser-worker-wasm-v1" =>
                   p.WASM.BrowserWorker /\ p.WASM.Filesystem = "forbidden"
       ELSE p.Confinement = "container"
    /\ UsesReusableWorkspace(p.ResiduePolicy) => p.HostWorkspaceSupported
    /\ ProviderPluginRequiresUpstreamClientConformance(plugin) =>
           p.UpstreamClientConformance # Unset

(* The profile selected for a requirement is confined as the contract that *)
(* was published demands (RuntimeProfileForRequirements).                  *)
LEMMA AdmitConfines ==
    ASSUME IInv, NEW c \in contracts, NEW req, FittingProfiles(c.Profiles, req) # {}
    PROVE  ConfinedFor(RuntimeProfileForRequirements(c.Profiles, req), req, c.PluginID)
<1>1. PICK i : i = First(FittingProfiles(c.Profiles, req))
  OBVIOUS
<1>2. i \in FittingProfiles(c.Profiles, req)
  <2>1. FittingProfiles(c.Profiles, req) \subseteq Nat
    BY ListDomain DEF FittingProfiles, IInv, Published, IsContract
  <2> QED
    BY <1>1, <2>1, FirstIsIn
<1>3. PICK p : p = RuntimeProfileForRequirements(c.Profiles, req)
  OBVIOUS
<1>4. /\ i \in DOMAIN c.Profiles /\ p = c.Profiles[i]
      /\ p.ExecutorProvider = req.ExecutorProvider
      /\ p.ExecutionSecurityTier = req.ExecutionSecurityTier
      /\ p.ProofTier = req.ProofTier
  BY <1>1, <1>2, <1>3 DEF FittingProfiles, RuntimeProfileForRequirements
<1>5. PICK d \in Drafts :
          /\ RestsOn(applied, c, d)
          /\ i \in DOMAIN d.Profiles
          /\ Confines(c.Profiles[i])
          /\ \/ c.Profiles[i] = d.Profiles[i]
             \/ Evidenced(c.Profiles[i], Own(applied, c, i))
  BY <1>4, PublishedProfile
<1>6. Confines(p)
  BY <1>4, <1>5
<1>7. p.ExecutionSecurityTier # "trusted-native" /\ p.ProofTier # "receipt-only"
  BY <1>6 DEF Confines, ContractTiers, ContractProofs
<1>8. IF req.ExecutionSecurityTier = "wasm-capability"
      THEN /\ p.WASM.complete
           /\ p.RuntimeProfile = "browser-worker-wasm-v1" =>
                  p.WASM.BrowserWorker /\ p.WASM.Filesystem = "forbidden"
      ELSE p.Confinement = "container"
  BY <1>4, <1>6 DEF Confines, ValidateWASM
<1>9. UsesReusableWorkspace(p.ResiduePolicy) => p.HostWorkspaceSupported
  <2> SUFFICES ASSUME UsesReusableWorkspace(p.ResiduePolicy), ~p.HostWorkspaceSupported
               PROVE  FALSE
    OBVIOUS
  <2>1. PICK required : /\ required = IF p.HostWorkspaceSupported THEN {}
                                      ELSE {"NoWorkspaceAllowed"}
                        /\ ValidResidue(p.ResiduePolicy, required)
    BY <1>6, Zenon DEF Confines
  <2>2. "NoWorkspaceAllowed" \notin required
    BY <2>1 DEF ValidResidue
  <2> QED
    BY <2>1, <2>2
<1>10. ProviderPluginRequiresUpstreamClientConformance(c.PluginID) =>
           p.UpstreamClientConformance # Unset
  <2>1. "real-client" # Unset
    BY Zenon DEF Unset
  <2>2. c.PluginID = d.PluginID /\ ValidateContract(d)
    BY <1>5, SameIdentity DEF RestsOn
  <2> QED
    BY <1>4, <1>5, <2>1, <2>2 DEF ValidateContract, Evidenced
<1>11. p.Forbidden
  BY <1>6 DEF Confines
<1>12. ConfinedFor(p, req, c.PluginID)
  BY <1>4, <1>7, <1>8, <1>9, <1>10, <1>11 DEF ConfinedFor
<1> QED
  BY <1>3, <1>12

(* Whatever evidence was applied meanwhile, a product is only ever found   *)
(* supported by a profile of exactly its tiers that is confined.           *)
THEOREM AdmittedAreConfined == Spec => []AdmittedConfined
<1> DEFINE Confined == \A a \in admitted :
                           ConfinedFor(a.profile, a.product.SecurityFloor, a.plugin)
<1>1. Init => Confined
  BY DEF Init
<1>2. IInv /\ Confined /\ [Next]_vars => Confined'
  <2> SUFFICES ASSUME IInv, Confined, [Next]_vars PROVE Confined'
    OBVIOUS
  <2>1. CASE UNCHANGED admitted
    BY <2>1
  <2>2. ASSUME NEW c \in contracts, NEW p \in Products, Admit(c, p)
        PROVE  Confined'
    <3>1. PICK profile : profile = RuntimeProfileForRequirements(c.Profiles, p.SecurityFloor)
      OBVIOUS
    <3>2. PICK workers :
              admitted' = {[product |-> p, plugin |-> c.PluginID, workers |-> workers,
                            profile |-> profile]}
      BY <2>2, <3>1 DEF Admit
    <3>3. ConfinedFor(profile, p.SecurityFloor, c.PluginID)
      BY <2>2, <3>1, AdmitConfines DEF Admit, SupportsProduct
    <3> QED
      BY <3>2, <3>3
  <2> QED
    BY <2>1, <2>2 DEF Next, vars, Publish, Observe, Apply
<1>3. Confined => AdmittedConfined
  BY Zenon DEF AdmittedConfined, ConfinedFor
<1> HIDE DEF Confined
<1> QED
  BY <1>1, <1>2, <1>3, IInvHolds, PTL DEF Spec

-----------------------------------------------------------------------------
(* Treasuries.                                                             *)

(* A target that is not set is of no kind.                                 *)
LEMMA KindsDiffer ==
    /\ Unset # "treasury_wallet"
    /\ NoTarget.Kind = Unset
<1>1. Unset # "treasury_wallet"
  BY Zenon DEF Unset
<1>2. NoTarget.Kind = Unset
  BY DEF NoTarget
<1> QED
  BY <1>1, <1>2

(* A treasury target names its account, network and wallet, and the        *)
(* placement constraints are there and name the same wallet.               *)
LEMMA TreasuryConstrains ==
    ASSUME NEW p, NetworkProductValid(p), p.SettlementTarget.Kind = "treasury_wallet"
    PROVE  LET t == p.SettlementTarget
               c == p.PlacementConstraints
           IN  /\ t.AccountID # Unset /\ t.Network # Unset /\ t.WalletRef # Unset
               /\ p.SettlementAccountID \in {Unset, t.AccountID}
               /\ c.WalletRef = t.WalletRef
               /\ 0 \notin {c.MinDisk, c.MinMemory, c.MinBandwidth}
               /\ c.MinDisk >= 0 /\ c.MinMemory >= 0 /\ c.MinBandwidth >= 0
<1> DEFINE t == p.SettlementTarget
           c == p.PlacementConstraints
<1>1. SettlementTargetValid(t, p.SettlementAccountID)
  BY DEF NetworkProductValid
<1>2. t # NoTarget
  BY KindsDiffer
<1>3. /\ t.AccountID # Unset /\ t.Network # Unset /\ t.WalletRef # Unset
      /\ p.SettlementAccountID \in {Unset, t.AccountID}
  BY <1>1, <1>2 DEF SettlementTargetValid
<1>4. PICK required : /\ required = (t.Kind = "treasury_wallet")
                      /\ PlacementConstraintsValid(c, required, t)
  BY Zenon DEF NetworkProductValid
<1>5. /\ c.WalletRef # Unset
      /\ 0 \notin {c.MinDisk, c.MinMemory, c.MinBandwidth}
      /\ c.MinDisk >= 0 /\ c.MinMemory >= 0 /\ c.MinBandwidth >= 0
      /\ t.WalletRef \in {Unset, c.WalletRef}
  <2>1. required
    BY <1>4
  <2> HIDE DEF t, c
  <2>2. /\ c # NoConstraints
        /\ Unset \notin {c.Chain, c.Role, c.WalletRef}
        /\ 0 \notin {c.MinDisk, c.MinMemory, c.MinBandwidth}
        /\ c.MinDisk >= 0 /\ c.MinMemory >= 0 /\ c.MinBandwidth >= 0
        /\ c.WalletRef # Unset => t.WalletRef \in {Unset, c.WalletRef}
    BY <1>4, <2>1, Zenon DEF PlacementConstraintsValid
  <2> QED
    BY <2>2
<1> QED
  BY <1>3, <1>5

(* Crypto rewards are routed to the treasury that settlement names, and not*)
(* at all where a product is credited upstream.                            *)
LEMMA RoutedToTreasury ==
    ASSUME NEW p, NetworkProductValid(p)
    PROVE  LET t == p.SettlementTarget
               r == p.CryptoRewardRouting
           IN  /\ r # NoRouting =>
                      /\ t.Kind = "treasury_wallet"
                      /\ t.Network = r.Network
                      /\ t.AccountID = r.TreasuryAccountID
                      /\ t.WalletRef = r.TreasuryWalletRef
               /\ p.RewardPolicy = "upstream-credit" =>
                      r = NoRouting /\ ~p.ContributionPolicy.MonetaryPayouts
<1> DEFINE t == p.SettlementTarget
           r == p.CryptoRewardRouting
<1>1. ASSUME r # NoRouting
      PROVE  /\ t.Kind = "treasury_wallet"
             /\ t.Network = r.Network
             /\ t.AccountID = r.TreasuryAccountID
             /\ t.WalletRef = r.TreasuryWalletRef
  <2>1. /\ t.Kind = "treasury_wallet"
        /\ t.Network \in {Unset, r.Network}
        /\ t.AccountID \in {Unset, r.TreasuryAccountID}
        /\ t.WalletRef \in {Unset, r.TreasuryWalletRef}
    <3>1. RoutingValid(r, t)
      BY DEF NetworkProductValid
    <3> HIDE DEF r, t
    <3> QED
      BY <1>1, <3>1 DEF RoutingValid
  <2>2. t.AccountID # Unset /\ t.Network # Unset /\ t.WalletRef # Unset
    BY <2>1, TreasuryConstrains
  <2> QED
    BY <2>1, <2>2
<1>2. ASSUME p.RewardPolicy = "upstream-credit"
      PROVE  r = NoRouting /\ ~p.ContributionPolicy.MonetaryPayouts
  <2>1. /\ ~p.ContributionPolicy.MonetaryPayouts
        /\ t.Kind \in {Unset, "badge_ledger"}
    BY <1>2 DEF NetworkProductValid, ValidateForRewardPolicy
  <2>2. t.Kind # "treasury_wallet"
    BY <2>1, KindsDiffer
  <2> QED
    BY <1>1, <2>1, <2>2
<1> QED
  BY <1>1, <1>2

(* The property of one admission.                                          *)
OneTreasury(p, workers) ==
    LET t == p.SettlementTarget
        r == p.CryptoRewardRouting
        c == p.PlacementConstraints
    IN /\ r # NoRouting =>
              /\ t.Kind = "treasury_wallet"
              /\ <<r.Network, r.TreasuryAccountID, r.TreasuryWalletRef>>
                    = <<t.Network, t.AccountID, t.WalletRef>>
              /\ p.SettlementAccountID \in {Unset, r.TreasuryAccountID}
              /\ c.WalletRef = r.TreasuryWalletRef
       /\ p.RewardPolicy = "upstream-credit" =>
              r = NoRouting /\ ~p.ContributionPolicy.MonetaryPayouts
       /\ t.Kind = "treasury_wallet" =>
              \A w \in workers : w.Disk > 0 /\ w.Memory > 0 /\ w.Bandwidth > 0

(* A product that validates, with workers that satisfy its constraints,    *)
(* has one treasury (NetworkProduct.Validate).                             *)
LEMMA AdmitOneTreasury ==
    ASSUME NEW p \in Products, NetworkProductValid(p), NEW workers,
           \A w \in workers :
               /\ w \in Workers
               /\ PlacementConstraintsSatisfiedBy(p.PlacementConstraints, w,
                                                  [AllowIngress |-> TRUE])
    PROVE  OneTreasury(p, workers)
<1> DEFINE t == p.SettlementTarget
           r == p.CryptoRewardRouting
           c == p.PlacementConstraints
<1>1. /\ r # NoRouting =>
             /\ t.Kind = "treasury_wallet"
             /\ t.Network = r.Network
             /\ t.AccountID = r.TreasuryAccountID
             /\ t.WalletRef = r.TreasuryWalletRef
      /\ p.RewardPolicy = "upstream-credit" =>
             r = NoRouting /\ ~p.ContributionPolicy.MonetaryPayouts
  BY RoutedToTreasury
<1>2. t.Kind = "treasury_wallet" =>
          /\ p.SettlementAccountID \in {Unset, t.AccountID}
          /\ c.WalletRef = t.WalletRef
  BY TreasuryConstrains
<1>3. ASSUME t.Kind = "treasury_wallet", NEW w \in workers
      PROVE  w.Disk > 0 /\ w.Memory > 0 /\ w.Bandwidth > 0
  <2>1. /\ 0 \notin {c.MinDisk, c.MinMemory, c.MinBandwidth}
        /\ c.MinDisk >= 0 /\ c.MinMemory >= 0 /\ c.MinBandwidth >= 0
    BY <1>3, TreasuryConstrains
  <2>2. PICK task : PlacementConstraintsSatisfiedBy(c, w, task)
    BY <1>3, Zenon
  <2>3. /\ c.MinDisk > 0 => w.Disk >= c.MinDisk
        /\ c.MinMemory > 0 => w.Memory >= c.MinMemory
        /\ c.MinBandwidth > 0 => w.Bandwidth >= c.MinBandwidth
    BY <2>2 DEF PlacementConstraintsSatisfiedBy
  <2>4. /\ w.Disk \in Int /\ w.Memory \in Int /\ w.Bandwidth \in Int
        /\ c.MinDisk \in Int /\ c.MinMemory \in Int /\ c.MinBandwidth \in Int
    BY <1>3, AmountsAssumption
  <2> QED
    BY <2>1, <2>3, <2>4
<1> QED
  BY <1>1, <1>2, <1>3 DEF OneTreasury

(* The treasury of an admitted product is one, and its workers are placed  *)
(* for it.                                                                 *)
THEOREM OneTreasuryEach == Spec => []TreasuryIsOne
<1> DEFINE One == \A a \in admitted : OneTreasury(a.product, a.workers)
<1>1. Init => One
  BY DEF Init
<1>2. One /\ [Next]_vars => One'
  <2> SUFFICES ASSUME One, [Next]_vars PROVE One'
    OBVIOUS
  <2>1. CASE UNCHANGED admitted
    BY <2>1
  <2>2. ASSUME NEW c \in contracts, NEW p \in Products, Admit(c, p)
        PROVE  One'
    <3> DEFINE workers == {w \in Workers : PlacementConstraintsSatisfiedBy(
                              p.PlacementConstraints, w, [AllowIngress |-> TRUE])}
    <3>1. PICK profile :
              admitted' = {[product |-> p, plugin |-> c.PluginID, workers |-> workers,
                            profile |-> profile]}
      BY <2>2, Zenon DEF Admit
    <3>2. OneTreasury(p, workers)
      <4>1. NetworkProductValid(p)
        BY <2>2 DEF Admit
      <4>2. \A w \in workers :
                /\ w \in Workers
                /\ PlacementConstraintsSatisfiedBy(p.PlacementConstraints, w,
                                                   [AllowIngress |-> TRUE])
        BY Zenon
      <4> HIDE DEF workers
      <4> QED
        BY <4>1, <4>2, AdmitOneTreasury, Zenon
    <3> HIDE DEF workers
    <3> QED
      BY <3>1, <3>2
  <2> QED
    BY <2>1, <2>2 DEF Next, vars, Publish, Observe, Apply
<1>3. One => TreasuryIsOne
  BY Zenon DEF TreasuryIsOne, OneTreasury
<1> HIDE DEF One
<1> QED
  BY <1>1, <1>2, <1>3, PTL DEF Spec

=============================================================================
