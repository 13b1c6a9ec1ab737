--------------------------- MODULE TrustGate_proofs ---------------------------
(***************************************************************************)
(* Type correctness of the trust gate, the bound on CAs included, and the  *)
(* theorem that no pod is given somebody else's ConfigMap for its trust    *)
(* store, for any number of reflectors, pods, CAs and changes of hands of  *)
(* the ConfigMap's name.                                                   *)
(***************************************************************************)
EXTENDS TrustGate, FiniteSetTheorems, TLAPS

(* A pass works on a reflector that exists, and no pass that has to        *)
(* generate a CA finds the bound used up.                                  *)
PassInv ==
    /\ gp.pc # "idle" => gp.r \in Reflectors /\ refl[gp.r] # "absent"
    /\ issued + Cardinality(NeedCA) <= MaxCA

(* The webhook builds no empty bundle, and the operator publishes none; a  *)
(* pod injected and not bereft since still finds the operator's ConfigMap. *)
BuiltSomething == \A p \in Pods : pod[p].phase \in {"admitting", "checking"} =>
                                      pod[p].built # {}

ManagedHasCAs == cm.kind = "managed" => cm.cas # {}

PendingHasBundle ==
    \A p \in Pods : pod[p].phase = "pending" /\ Injected(p) /\ ~pod[p].bereft =>
                       cm.kind = "managed"

NotYetAnnotated == \A p \in Pods : pod[p].phase \in {"none", "admitting", "checking"} =>
                                       pod[p].annotated = {}

MountInv ==
    BuiltSomething /\ ManagedHasCAs /\ PendingHasBundle /\ NotYetAnnotated
        /\ ForeignNeverMounted

(* Subsets of the reflectors are finite, their sizes natural numbers.      *)
LEMMA NeedCAFinite == IsFiniteSet(NeedCA) /\ Cardinality(NeedCA) \in Nat
<1>1. NeedCA \subseteq Reflectors
  BY DEF NeedCA
<1>2. IsFiniteSet(NeedCA)
  BY <1>1, GateAssumption, FS_Subset
<1>3. QED
  BY <1>2, FS_CardinalityType

(* A set that loses r, gains r or stays changes its size by one at most.   *)
LEMMA NeedCAChanges ==
    /\ NeedCA' = NeedCA => Cardinality(NeedCA)' = Cardinality(NeedCA)
    /\ \A r : NeedCA' = NeedCA \ {r} =>
          Cardinality(NeedCA)' = IF r \in NeedCA THEN Cardinality(NeedCA) - 1
                                 ELSE Cardinality(NeedCA)
    /\ \A r : NeedCA' = NeedCA \cup {r} =>
          Cardinality(NeedCA)' <= Cardinality(NeedCA) + 1
<1>1. \A r : NeedCA' = NeedCA \ {r} =>
          Cardinality(NeedCA)' = IF r \in NeedCA THEN Cardinality(NeedCA) - 1
                                 ELSE Cardinality(NeedCA)
  BY NeedCAFinite, FS_RemoveElement
<1>2. \A r : NeedCA' = NeedCA \cup {r} =>
          Cardinality(NeedCA)' <= Cardinality(NeedCA) + 1
  BY NeedCAFinite, FS_AddElement
<1>3. QED
  BY <1>1, <1>2

(* The bundle holds CAs that exist.                                        *)
LEMMA BundleType ==
    ASSUME TypeOK
    PROVE  Bundle \in SUBSET CAs /\ Published \in Bundles
BY DEF TypeOK, Bundle, Trusting, Published, Bundles

LEMMA BereavedType ==
    ASSUME TypeOK
    PROVE  Bereaved \in [Pods -> PodObject]
<1>1. ASSUME NEW p \in Pods
      PROVE  (IF pod[p].phase = "pending" /\ Injected(p)
              THEN [pod[p] EXCEPT !.bereft = TRUE] ELSE pod[p]) \in PodObject
  BY DEF TypeOK, PodObject
<1>2. QED
  BY <1>1 DEF Bereaved

LEMMA InitInv == Init => TypeOK /\ PassInv /\ MountInv
<1> SUFFICES ASSUME Init PROVE TypeOK /\ PassInv /\ MountInv
  OBVIOUS
<1>1. NeedCA = {}
  BY DEF Init, NeedCA
<1>2. Cardinality(NeedCA) = 0
  BY <1>1, FS_EmptySet
<1>3. TypeOK
  BY GateAssumption DEF Init, TypeOK, Bundles, NoBundle, Foreign, PodObject,
     NoPod, GPass, GIdle, CAs
<1>4. PassInv
  BY <1>2, GateAssumption DEF Init, PassInv, GIdle
<1>5. MountInv
  BY DEF Init, MountInv, BuiltSomething, ManagedHasCAs, PendingHasBundle,
     NotYetAnnotated, ForeignNeverMounted, Injected, NoPod, NoBundle, Foreign
<1>6. QED
  BY <1>3, <1>4, <1>5

(* The pass of the reflector controller.                                   *)
LEMMA PassStep ==
    ASSUME TypeOK, PassInv,
           GSteps \/ GFail \/ CatchUp \/ \E r \in Reflectors : GStart(r) \/ GFinalize(r)
    PROVE  TypeOK' /\ PassInv'
<1> USE GateAssumption
<1>1. ASSUME NEW r \in Reflectors, GStart(r) PROVE TypeOK' /\ PassInv'
  <2>1. NeedCA' = NeedCA
    BY <1>1 DEF GStart, NeedCA
  <2>2. TypeOK'
    BY <1>1 DEF GStart, TypeOK, GPass, GIdle
  <2>3. PassInv'
    BY <1>1, <2>1, NeedCAChanges DEF GStart, TypeOK, PassInv, GPass, GIdle
  <2>4. QED
    BY <2>2, <2>3
<1>2. CASE GCert
  <2>1. gp.r \in Reflectors /\ refl[gp.r] # "absent"
    BY <1>2 DEF GCert, PassInv
  <2>2. CASE ca[gp.r] # 0
    <3>1. /\ gp' = [gp EXCEPT !.pc = "publish", !.ca = ca[gp.r]]
          /\ UNCHANGED <<refl, ca, issued, cm, seen, meddled, pod, dns>>
      BY <1>2, <2>2 DEF GCert
    <3>2. NeedCA' = NeedCA
      BY <3>1 DEF NeedCA
    <3>3. TypeOK'
      BY <2>1, <3>1 DEF TypeOK, GPass
    <3>4. PassInv'
      BY <2>1, <3>1, <3>2, NeedCAChanges DEF TypeOK, PassInv, GPass
    <3>5. QED
      BY <3>3, <3>4
  <2>3. CASE ca[gp.r] = 0
    <3>1. /\ issued' = issued + 1
          /\ ca' = [ca EXCEPT ![gp.r] = issued + 1]
          /\ gp' = [gp EXCEPT !.pc = "publish", !.ca = issued + 1]
          /\ UNCHANGED <<refl, cm, seen, meddled, pod, dns>>
      BY <1>2, <2>3 DEF GCert
    <3>2. gp.r \in NeedCA
      BY <2>1, <2>3 DEF NeedCA
    <3>3. Cardinality(NeedCA) \in Nat \ {0}
      BY <3>2, NeedCAFinite, FS_EmptySet
    <3>4. issued \in Nat /\ MaxCA \in Nat /\ issued + 1 \in CAs
      BY <3>3 DEF TypeOK, PassInv, CAs
    <3>5. NeedCA' = NeedCA \ {gp.r}
      BY <2>1, <3>1, <3>4 DEF NeedCA, TypeOK, CAs
    <3>6. TypeOK'
      <4>1. ca' \in [Reflectors -> CAs \cup {0}] /\ gp' \in GPass
        BY <2>1, <3>1, <3>4 DEF TypeOK, GPass
      <4>2. issued' \in 0 .. MaxCA
        BY <3>1, <3>4 DEF CAs
      <4>3. QED
        BY <3>1, <4>1, <4>2 DEF TypeOK
    <3>7. Cardinality(NeedCA)' = Cardinality(NeedCA) - 1
      BY <3>2, <3>5, NeedCAChanges
    <3>8. PassInv'
      BY <2>1, <3>1, <3>3, <3>4, <3>7 DEF PassInv, TypeOK, GPass
    <3>9. QED
      BY <3>6, <3>8
  <2>4. QED
    BY <2>2, <2>3
<1>3. CASE GPublish
  <2>1. NeedCA' = NeedCA
    BY <1>3 DEF GPublish, NeedCA
  <2>2. /\ gp' \in {[gp EXCEPT !.pc = "gate"], GIdle}
        /\ cm' \in {cm, Published}
        /\ UNCHANGED <<refl, ca, issued, seen, meddled, pod, dns>>
    BY <1>3 DEF GPublish
  <2>3. gp' \in GPass /\ (gp'.pc # "idle" => gp.pc # "idle" /\ gp'.r = gp.r)
    <3>1. gp \in GPass /\ gp.pc = "publish"
      BY <1>3 DEF GPublish, TypeOK
    <3>2. CASE gp' = [gp EXCEPT !.pc = "gate"]
      BY <3>1, <3>2 DEF GPass
    <3>3. CASE gp' = GIdle
      BY <3>3 DEF GPass, GIdle
    <3>4. QED
      BY <2>2, <3>2, <3>3
  <2>4. TypeOK'
    BY <2>2, <2>3, BundleType DEF TypeOK
  <2>5. PassInv'
    BY <2>1, <2>2, <2>3, NeedCAChanges DEF PassInv
  <2>6. QED
    BY <2>4, <2>5
<1>4. CASE GGate
  <2>1. NeedCA' = NeedCA
    BY <1>4 DEF GGate, NeedCA
  <2>2. TypeOK'
    BY <1>4 DEF GGate, TypeOK, GPass
  <2>3. PassInv'
    BY <1>4, <2>1, NeedCAChanges DEF GGate, TypeOK, PassInv, GPass
  <2>4. QED
    BY <2>2, <2>3
<1>5. CASE GServe
  <2>1. NeedCA' = NeedCA
    BY <1>5 DEF GServe, NeedCA
  <2>2. TypeOK'
    BY <1>5 DEF GServe, TypeOK, PassInv, GPass, GIdle
  <2>3. PassInv'
    BY <1>5, <2>1, NeedCAChanges DEF GServe, PassInv, GIdle
  <2>4. QED
    BY <2>2, <2>3
<1>6. CASE GFail
  <2>1. NeedCA' = NeedCA
    BY <1>6 DEF GFail, NeedCA
  <2>2. TypeOK'
    BY <1>6 DEF GFail, TypeOK, GPass, GIdle
  <2>3. PassInv'
    BY <1>6, <2>1, NeedCAChanges DEF GFail, PassInv, GIdle
  <2>4. QED
    BY <2>2, <2>3
<1>7. ASSUME NEW r \in Reflectors, GFinalize(r) PROVE TypeOK' /\ PassInv'
  <2>1. NeedCA' = NeedCA \ {r}
    BY <1>7 DEF GFinalize, NeedCA, TypeOK
  <2>2. Cardinality(NeedCA)' <= Cardinality(NeedCA)
    <3>1. Cardinality(NeedCA)' = IF r \in NeedCA THEN Cardinality(NeedCA) - 1
                                 ELSE Cardinality(NeedCA)
      BY <2>1, NeedCAChanges
    <3>2. QED
      BY <3>1, NeedCAFinite
  <2>3. cm' \in Bundles
    BY <1>7 DEF GFinalize, TypeOK, Bundles, NoBundle
  <2>4. TypeOK'
    <3>1. pod' \in [Pods -> PodObject]
      BY <1>7, BereavedType DEF GFinalize, TypeOK
    <3>2. QED
      BY <1>7, <2>3, <3>1 DEF GFinalize, TypeOK
  <2>5. Cardinality(NeedCA)' \in Nat
    BY <2>1, NeedCAFinite, FS_RemoveElement, FS_CardinalityType
  <2>6. PassInv'
    BY <1>7, <2>2, <2>5, NeedCAFinite DEF GFinalize, PassInv, TypeOK
  <2>7. QED
    BY <2>4, <2>6
<1>8. CASE CatchUp
  <2>1. NeedCA' = NeedCA
    BY <1>8 DEF CatchUp, NeedCA
  <2>2. TypeOK'
    BY <1>8 DEF CatchUp, TypeOK, Bundles, NoBundle
  <2>3. PassInv'
    BY <1>8, <2>1, NeedCAChanges DEF CatchUp, PassInv
  <2>4. QED
    BY <2>2, <2>3
<1>9. QED
  BY <1>1, <1>2, <1>3, <1>4, <1>5, <1>6, <1>7, <1>8 DEF GSteps

(* What the steps of the webhook and the kubelet make of a pod.            *)
Admitted(p) == [pod[p] EXCEPT !.phase = "pending", !.built = {}]

Annotated(p, b) ==
    [pod[p] EXCEPT !.phase = "pending", !.built = {}, !.annotated = pod[p].built,
                   !.bereft = b]

LEMMA PodChanges ==
    ASSUME TypeOK, NEW p \in Pods
    PROVE  /\ Unmodified(p) => pod' = [pod EXCEPT ![p] = Admitted(p)]
           /\ \A b : InjectPod(p, b) => pod' = [pod EXCEPT ![p] = Annotated(p, b)]
BY DEF TypeOK, Unmodified, InjectPod, Admitted, Annotated

LEMMA WorkloadChanges ==
    ASSUME TypeOK, NEW p \in Pods,
           \/ Bypass(p) \/ Build(p) \/ Inject(p) \/ LiveConfigMap(p)
           \/ StartPod(p) \/ RemovePod(p)
    PROVE  \E o \in BOOLEAN :
             \/ /\ pod[p].phase = "none" /\ UNCHANGED cm
                /\ pod' = [pod EXCEPT ![p] = [pod[p] EXCEPT !.phase = "pending",
                                                           !.optOut = o]]
             \/ /\ pod[p].phase \in {"admitting", "checking"} /\ UNCHANGED cm
                /\ pod' = [pod EXCEPT ![p] = Admitted(p)]
             \/ /\ pod[p].phase = "none" /\ Bundle # {} /\ UNCHANGED cm
                /\ pod' = [pod EXCEPT ![p] = [pod[p] EXCEPT !.phase = "admitting",
                                                           !.built = Bundle]]
             \/ /\ pod[p].phase \in {"admitting", "checking"}
                /\ cm' \in {cm, [Published EXCEPT !.cas = pod[p].built]}
                /\ ~o => cm'.kind = "managed"
                /\ cm.kind = "managed" => cm' = cm
                /\ pod' = [pod EXCEPT ![p] = Annotated(p, o)]
             \/ /\ pod[p].phase = "admitting" /\ UNCHANGED cm
                /\ pod' = [pod EXCEPT ![p] = [pod[p] EXCEPT !.phase = "checking"]]
             \/ /\ pod[p].phase = "pending" /\ UNCHANGED cm
                /\ pod' = [pod EXCEPT ![p] =
                             [pod[p] EXCEPT !.phase = "running",
                                            !.mounted = IF Injected(p) THEN cm.cas ELSE {}]]
             \/ UNCHANGED cm /\ pod' = [pod EXCEPT ![p] = NoPod]
<1>1. CASE Bypass(p)
  <2>1. CASE \E o \in BOOLEAN : pod' = [pod EXCEPT ![p].phase = "pending", ![p].optOut = o]
    <3>1. PICK o \in BOOLEAN : pod' = [pod EXCEPT ![p].phase = "pending", ![p].optOut = o]
      BY <2>1
    <3>2. CASE pod[p].phase = "none"
      <4>1. pod' = [pod EXCEPT ![p] = [pod[p] EXCEPT !.phase = "pending", !.optOut = o]]
        BY <3>1 DEF TypeOK
      <4>2. QED
        BY <1>1, <3>2, <4>1 DEF Bypass
    <3>3. CASE pod[p].phase # "none"
      BY <1>1, <3>3, PodChanges DEF Bypass
    <3>4. QED
      BY <3>2, <3>3
  <2>2. CASE pod[p].phase \in {"admitting", "checking"} /\ Unmodified(p)
    BY <1>1, <2>2, PodChanges DEF Bypass
  <2>3. QED
    BY <1>1, <2>1, <2>2 DEF Bypass
<1>2. CASE Build(p)
  <2>1. pod' = [pod EXCEPT ![p] = [pod[p] EXCEPT !.phase = "admitting", !.built = Bundle]]
    BY <1>2 DEF Build, TypeOK
  <2>2. QED
    BY <1>2, <2>1 DEF Build
<1>3. CASE Inject(p)
  <2>1. CASE /\ seen.kind = "managed" /\ InjectPod(p, cm.kind # "managed")
             /\ UNCHANGED cm
    <3>1. PICK o \in BOOLEAN : o = (cm.kind # "managed")
      OBVIOUS
    <3>2. pod' = [pod EXCEPT ![p] = Annotated(p, o)]
      BY <2>1, <3>1, PodChanges
    <3>3. ~o => cm'.kind = "managed"
      BY <2>1, <3>1
    <3>4. QED
      BY <1>3, <2>1, <3>2, <3>3 DEF Inject
  <2>2. CASE /\ cm.kind = "missing" /\ cm' = [Published EXCEPT !.cas = pod[p].built]
             /\ InjectPod(p, FALSE)
    <3>1. pod' = [pod EXCEPT ![p] = Annotated(p, FALSE)]
      BY <2>2, PodChanges
    <3>2. cm'.kind = "managed"
      BY <2>2 DEF Published
    <3>3. QED
      BY <1>3, <2>2, <3>1, <3>2 DEF Inject
  <2>3. CASE pod' = [pod EXCEPT ![p].phase = "checking"] /\ UNCHANGED cm
    <3>1. pod' = [pod EXCEPT ![p] = [pod[p] EXCEPT !.phase = "checking"]]
      BY <2>3 DEF TypeOK
    <3>2. QED
      BY <1>3, <2>3, <3>1 DEF Inject
  <2>4. QED
    BY <1>3, <2>1, <2>2, <2>3 DEF Inject
<1>4. CASE LiveConfigMap(p)
  <2>1. CASE cm.kind = "managed"
    <3>1. pod' = [pod EXCEPT ![p] = Annotated(p, FALSE)]
      BY <1>4, <2>1, PodChanges DEF LiveConfigMap
    <3>2. QED
      BY <1>4, <2>1, <3>1 DEF LiveConfigMap
  <2>2. CASE cm.kind # "managed"
    BY <1>4, <2>2, PodChanges DEF LiveConfigMap
  <2>3. QED
    BY <2>1, <2>2
<1>5. CASE StartPod(p)
  <2>1. pod' = [pod EXCEPT ![p] = [pod[p] EXCEPT !.phase = "running",
                   !.mounted = IF Injected(p) THEN cm.cas ELSE {}]]
    BY <1>5 DEF StartPod, TypeOK
  <2>2. QED
    BY <1>5, <2>1 DEF StartPod
<1>6. CASE RemovePod(p)
  BY <1>6 DEF RemovePod
<1>7. QED
  BY <1>1, <1>2, <1>3, <1>4, <1>5, <1>6

(* Pods: the webhook and the kubelet leave the pass alone.                 *)
LEMMA WorkloadStep ==
    ASSUME TypeOK, PassInv, MountInv, Workloads
    PROVE  TypeOK' /\ PassInv' /\ MountInv'
<1>1. PICK p \in Pods : \/ Bypass(p) \/ Build(p) \/ Inject(p) \/ LiveConfigMap(p)
                        \/ StartPod(p) \/ RemovePod(p)
  BY DEF Workloads
<1>2. UNCHANGED <<refl, ca, issued, seen, meddled, dns, gp>>
  BY <1>1 DEF Bypass, Build, Inject, LiveConfigMap, StartPod, RemovePod
<1>3. NeedCA' = NeedCA
  BY <1>2 DEF NeedCA
<1>4. PassInv'
  BY <1>2, <1>3, NeedCAChanges DEF PassInv
<1>5. SUFFICES /\ cm' \in Bundles /\ ManagedHasCAs'
               /\ cm.kind = "managed" => cm'.kind = "managed"
               /\ \E q \in PodObject :
                     /\ pod' = [pod EXCEPT ![p] = q]
                     /\ q.phase \in {"admitting", "checking"} => q.built # {}
                     /\ q.phase \in {"none", "admitting", "checking"} => q.annotated = {}
                     /\ q.annotated # {} /\ ~q.bereft =>
                           /\ q.phase = "pending" => cm'.kind = "managed"
                           /\ q.phase = "running" => q.mounted # {}
  <2>1. PICK q \in PodObject :
          /\ pod' = [pod EXCEPT ![p] = q]
          /\ q.phase \in {"admitting", "checking"} => q.built # {}
          /\ q.phase \in {"none", "admitting", "checking"} => q.annotated = {}
          /\ q.annotated # {} /\ ~q.bereft =>
                /\ q.phase = "pending" => cm'.kind = "managed"
                /\ q.phase = "running" => q.mounted # {}
    BY <1>5
  <2>2. /\ pod' \in [Pods -> PodObject] /\ pod'[p] = q
        /\ \A o \in Pods \ {p} : pod'[o] = pod[o]
    BY <2>1 DEF TypeOK
  <2>3. TypeOK'
    BY <1>2, <1>5, <2>2 DEF TypeOK
  <2>4. MountInv'
    BY <1>5, <2>1, <2>2 DEF MountInv, BuiltSomething, PendingHasBundle,
       NotYetAnnotated, ForeignNeverMounted, Injected
  <2>5. QED
    BY <1>4, <2>3, <2>4
<1>6. /\ pod[p] \in PodObject /\ Bundle \in SUBSET CAs /\ Published \in Bundles
      /\ cm \in Bundles /\ ManagedHasCAs
      /\ pod[p].phase \in {"admitting", "checking"} => pod[p].built # {}
      /\ pod[p].phase \in {"none", "admitting", "checking"} => pod[p].annotated = {}
      /\ pod[p].phase = "pending" /\ pod[p].annotated # {} /\ ~pod[p].bereft =>
            cm.kind = "managed"
  BY BundleType DEF TypeOK, MountInv, BuiltSomething, PendingHasBundle,
     NotYetAnnotated, Injected
<1>7. PICK o \in BOOLEAN :
        \/ /\ pod[p].phase = "none" /\ UNCHANGED cm
           /\ pod' = [pod EXCEPT ![p] = [pod[p] EXCEPT !.phase = "pending",
                                                      !.optOut = o]]
        \/ /\ pod[p].phase \in {"admitting", "checking"} /\ UNCHANGED cm
           /\ pod' = [pod EXCEPT ![p] = Admitted(p)]
        \/ /\ pod[p].phase = "none" /\ Bundle # {} /\ UNCHANGED cm
           /\ pod' = [pod EXCEPT ![p] = [pod[p] EXCEPT !.phase = "admitting",
                                                      !.built = Bundle]]
        \/ /\ pod[p].phase \in {"admitting", "checking"}
           /\ cm' \in {cm, [Published EXCEPT !.cas = pod[p].built]}
           /\ ~o => cm'.kind = "managed"
           /\ cm.kind = "managed" => cm' = cm
           /\ pod' = [pod EXCEPT ![p] = Annotated(p, o)]
        \/ /\ pod[p].phase = "admitting" /\ UNCHANGED cm
           /\ pod' = [pod EXCEPT ![p] = [pod[p] EXCEPT !.phase = "checking"]]
        \/ /\ pod[p].phase = "pending" /\ UNCHANGED cm
           /\ pod' = [pod EXCEPT ![p] =
                        [pod[p] EXCEPT !.phase = "running",
                                       !.mounted = IF Injected(p) THEN cm.cas ELSE {}]]
        \/ UNCHANGED cm /\ pod' = [pod EXCEPT ![p] = NoPod]
  BY <1>1, WorkloadChanges
<1>8. CASE /\ pod[p].phase = "none" /\ UNCHANGED cm
           /\ pod' = [pod EXCEPT ![p] = [pod[p] EXCEPT !.phase = "pending", !.optOut = o]]
  <2>1. PICK q : q = [pod[p] EXCEPT !.phase = "pending", !.optOut = o]
    OBVIOUS
  <2>2. q \in PodObject /\ q.phase = "pending" /\ q.annotated = {}
    BY <1>6, <1>7, <1>8, <2>1 DEF PodObject
  <2>3. QED
    BY <1>6, <1>8, <2>1, <2>2 DEF ManagedHasCAs
<1>9. CASE /\ pod[p].phase \in {"admitting", "checking"} /\ UNCHANGED cm
           /\ pod' = [pod EXCEPT ![p] = Admitted(p)]
  <2>1. /\ Admitted(p) \in PodObject /\ Admitted(p).phase = "pending"
        /\ Admitted(p).annotated = {}
    BY <1>6, <1>9 DEF PodObject, Admitted
  <2>2. QED
    BY <1>6, <1>9, <2>1 DEF ManagedHasCAs
<1>10. CASE /\ pod[p].phase = "none" /\ Bundle # {} /\ UNCHANGED cm
            /\ pod' = [pod EXCEPT ![p] = [pod[p] EXCEPT !.phase = "admitting",
                                                       !.built = Bundle]]
  <2>1. PICK q : q = [pod[p] EXCEPT !.phase = "admitting", !.built = Bundle]
    OBVIOUS
  <2>2. q \in PodObject /\ q.phase = "admitting" /\ q.built # {} /\ q.annotated = {}
    BY <1>6, <1>10, <2>1 DEF PodObject
  <2>3. QED
    BY <1>6, <1>10, <2>1, <2>2 DEF ManagedHasCAs
<1>11. CASE /\ pod[p].phase \in {"admitting", "checking"}
            /\ cm' \in {cm, [Published EXCEPT !.cas = pod[p].built]}
            /\ ~o => cm'.kind = "managed"
            /\ cm.kind = "managed" => cm' = cm
            /\ pod' = [pod EXCEPT ![p] = Annotated(p, o)]
  <2>1. /\ Annotated(p, o) \in PodObject /\ Annotated(p, o).phase = "pending"
        /\ Annotated(p, o).bereft = o
    BY <1>6, <1>7 DEF PodObject, Annotated
  <2>2. /\ [Published EXCEPT !.cas = pod[p].built] \in Bundles
        /\ [Published EXCEPT !.cas = pod[p].built].cas # {}
    BY <1>6, <1>11 DEF PodObject, Bundles
  <2>3. cm' \in Bundles /\ ManagedHasCAs' /\ (cm.kind = "managed" => cm'.kind = "managed")
    BY <1>6, <1>11, <2>2 DEF ManagedHasCAs
  <2>4. QED
    BY <1>11, <2>1, <2>3
<1>12. CASE /\ pod[p].phase = "admitting" /\ UNCHANGED cm
            /\ pod' = [pod EXCEPT ![p] = [pod[p] EXCEPT !.phase = "checking"]]
  <2>1. PICK q : q = [pod[p] EXCEPT !.phase = "checking"]
    OBVIOUS
  <2>2. q \in PodObject /\ q.phase = "checking" /\ q.built # {} /\ q.annotated = {}
    BY <1>6, <1>12, <2>1 DEF PodObject
  <2>3. QED
    BY <1>6, <1>12, <2>1, <2>2 DEF ManagedHasCAs
<1>13. CASE /\ pod[p].phase = "pending" /\ UNCHANGED cm
            /\ pod' = [pod EXCEPT ![p] =
                         [pod[p] EXCEPT !.phase = "running",
                                        !.mounted = IF Injected(p) THEN cm.cas ELSE {}]]
  <2>1. PICK m : m = IF Injected(p) THEN cm.cas ELSE {}
    OBVIOUS
  <2>2. /\ m \in SUBSET CAs
        /\ pod[p].annotated # {} /\ ~pod[p].bereft => m # {}
    BY <1>6, <1>13, <2>1 DEF ManagedHasCAs, Injected, Bundles
  <2>3. PICK q : q = [pod[p] EXCEPT !.phase = "running", !.mounted = m]
    OBVIOUS
  <2>4. /\ q \in PodObject /\ q.phase = "running" /\ q.mounted = m
        /\ q.annotated = pod[p].annotated /\ q.bereft = pod[p].bereft
    BY <1>6, <2>2, <2>3 DEF PodObject
  <2>5. QED
    BY <1>6, <1>13, <2>1, <2>2, <2>3, <2>4 DEF ManagedHasCAs
<1>14. CASE UNCHANGED cm /\ pod' = [pod EXCEPT ![p] = NoPod]
  <2>1. NoPod \in PodObject /\ NoPod.phase = "none" /\ NoPod.annotated = {}
    BY DEF NoPod, PodObject
  <2>2. QED
    BY <1>6, <1>14, <2>1 DEF ManagedHasCAs
<1>15. QED
  BY <1>7, <1>8, <1>9, <1>10, <1>11, <1>12, <1>13, <1>14

(* Users: what they do to reflectors and CAs stays within the bound.       *)
LEMMA UserStep ==
    ASSUME TypeOK, PassInv, Users
    PROVE  TypeOK' /\ PassInv'
<1>m. CASE Meddle
  <2>1. NeedCA' = NeedCA
    BY <1>m DEF Meddle, NeedCA
  <2>2. TypeOK'
    <3>1. pod' \in [Pods -> PodObject]
      BY <1>m, BereavedType DEF Meddle, TypeOK
    <3>2. cm' \in Bundles /\ meddled' \in 0 .. Takeovers
      BY <1>m, GateAssumption DEF Meddle, TypeOK, Bundles, NoBundle, Foreign
    <3>3. QED
      BY <1>m, <3>1, <3>2 DEF Meddle, TypeOK
  <2>3. PassInv'
    BY <1>m, <2>1, NeedCAChanges DEF Meddle, PassInv
  <2>4. QED
    BY <2>2, <2>3
<1>n. SUFFICES ASSUME \E r \in Reflectors :
                         CreateReflector(r) \/ DeleteReflector(r) \/ DeleteCA(r)
               PROVE  TypeOK' /\ PassInv'
  BY <1>m DEF Users
<1>1. PICK r \in Reflectors : CreateReflector(r) \/ DeleteReflector(r) \/ DeleteCA(r)
  BY <1>n
<1>2. TypeOK'
  BY <1>1 DEF CreateReflector, DeleteReflector, DeleteCA, TypeOK
<1>3. \A s \in Reflectors : refl[s] # "absent" => refl'[s] # "absent"
  BY <1>1 DEF CreateReflector, DeleteReflector, DeleteCA, TypeOK
<1>4. UNCHANGED <<gp, issued>>
  BY <1>1 DEF CreateReflector, DeleteReflector, DeleteCA
<1>5. issued \in Nat /\ MaxCA \in Nat /\ Cardinality(NeedCA)' \in Nat
  <2>1. IsFiniteSet(NeedCA')
    BY GateAssumption, FS_Subset DEF NeedCA
  <2>2. QED
    BY <2>1, GateAssumption, FS_CardinalityType DEF TypeOK
<1>6. issued + Cardinality(NeedCA)' <= MaxCA
  <2>1. CASE DeleteReflector(r)
    <3>1. NeedCA' = NeedCA
      BY <2>1 DEF DeleteReflector, NeedCA, TypeOK
    <3>2. QED
      BY <3>1, NeedCAChanges DEF PassInv
  <2>2. CASE CreateReflector(r) \/ DeleteCA(r)
    <3>1. NeedCA' = NeedCA \/ NeedCA' = NeedCA \cup {r}
      BY <2>2 DEF CreateReflector, DeleteCA, NeedCA, TypeOK
    <3>2. Cardinality(NeedCA)' <= Cardinality(NeedCA) + 1
      BY <3>1, NeedCAChanges, NeedCAFinite
    <3>3. issued + Cardinality(NeedCA) < MaxCA
      BY <2>2 DEF CreateReflector, DeleteCA, CALeft
    <3>4. QED
      BY <1>5, <3>2, <3>3, NeedCAFinite
  <2>3. QED
    BY <1>1, <2>1, <2>2
<1>7. QED
  BY <1>2, <1>3, <1>4, <1>6 DEF PassInv

(* The steps of the pass and of users: what becomes of the ConfigMap is    *)
(* the operator's bundle or a loss the waiting pods bear.                  *)
LEMMA MountStep ==
    ASSUME TypeOK, MountInv, [Next]_vars, ~Workloads
    PROVE  MountInv'
<1>1. CASE /\ pod' = pod /\ ManagedHasCAs'
           /\ cm.kind = "managed" => cm'.kind = "managed"
  BY <1>1 DEF MountInv, BuiltSomething, PendingHasBundle, NotYetAnnotated,
     ForeignNeverMounted, Injected
<1>2. CASE cm' = cm /\ pod' = pod
  BY <1>1, <1>2 DEF MountInv, ManagedHasCAs
<1>3. CASE GPublish
  <2>1. pod' = pod /\ (cm' = cm \/ (cm' = Published /\ Bundle # {}))
    BY <1>3 DEF GPublish
  <2>2. QED
    BY <1>1, <2>1 DEF MountInv, ManagedHasCAs, Published
<1>4. CASE pod' = Bereaved /\ cm'.kind # "managed"
  <2>1. \A p \in Pods : pod'[p] \in {pod[p], [pod[p] EXCEPT !.bereft = TRUE]}
    BY <1>4 DEF Bereaved
  <2>2. ASSUME NEW p \in Pods
        PROVE  /\ pod'[p].phase = pod[p].phase /\ pod'[p].built = pod[p].built
               /\ pod'[p].annotated = pod[p].annotated
               /\ pod'[p].mounted = pod[p].mounted
               /\ pod[p].bereft => pod'[p].bereft
               /\ pod[p].phase = "pending" /\ Injected(p) => pod'[p].bereft
    <3>1. pod[p] \in PodObject
      BY DEF TypeOK
    <3>2. CASE pod[p].phase = "pending" /\ Injected(p)
      <4>1. pod'[p] = [pod[p] EXCEPT !.bereft = TRUE]
        BY <1>4, <3>2 DEF Bereaved
      <4>2. QED
        BY <3>1, <4>1 DEF PodObject
    <3>3. CASE ~(pod[p].phase = "pending" /\ Injected(p))
      <4>1. pod'[p] = pod[p]
        BY <1>4, <3>3 DEF Bereaved
      <4>2. QED
        BY <3>3, <4>1
    <3>4. QED
      BY <3>2, <3>3
  <2>3. QED
    BY <1>4, <2>2 DEF MountInv, BuiltSomething, ManagedHasCAs, PendingHasBundle,
       NotYetAnnotated, ForeignNeverMounted, Injected
<1>5. ASSUME NEW r \in Reflectors, GFinalize(r) PROVE MountInv'
  <2>1. CASE cm' = NoBundle /\ pod' = Bereaved
    BY <1>4, <2>1 DEF NoBundle
  <2>2. CASE cm' = [cm EXCEPT !.owners = @ \ {r}] /\ pod' = pod
    <3>1. cm'.kind = cm.kind /\ cm'.cas = cm.cas
      BY <2>2 DEF TypeOK, Bundles
    <3>2. QED
      BY <1>1, <2>2, <3>1 DEF MountInv, ManagedHasCAs
  <2>3. QED
    BY <1>5, <2>1, <2>2 DEF GFinalize
<1>6. CASE Meddle
  <2>1. cm'.kind # "managed"
    BY <1>6 DEF Meddle, NoBundle, Foreign
  <2>2. CASE cm.kind = "managed"
    BY <1>4, <1>6, <2>1, <2>2 DEF Meddle
  <2>3. CASE cm.kind # "managed"
    BY <1>1, <1>6, <2>1, <2>3 DEF Meddle, ManagedHasCAs
  <2>4. QED
    BY <2>2, <2>3
<1>7. QED
  BY <1>2, <1>3, <1>5, <1>6
     DEF Next, vars, GSteps, GStart, GCert, GGate, GServe, GFail, CatchUp,
         Users, CreateReflector, DeleteReflector, DeleteCA

(* A step within the invariant stays within it.                            *)
LEMMA GateStep ==
    ASSUME TypeOK, PassInv, MountInv, [Next]_vars
    PROVE  TypeOK' /\ PassInv' /\ MountInv'
<1>1. CASE Workloads
  BY <1>1, WorkloadStep
<1>2. CASE ~Workloads
  <2>1. MountInv'
    BY <1>2, MountStep
  <2>2. CASE UNCHANGED vars
    <3>1. NeedCA' = NeedCA
      BY <2>2 DEF vars, NeedCA
    <3>2. TypeOK' /\ PassInv'
      BY <2>2, <3>1, NeedCAChanges DEF vars, TypeOK, PassInv
    <3>3. QED
      BY <2>1, <3>2
  <2>3. CASE Next
    BY <1>2, <2>1, <2>3, PassStep, UserStep DEF Next
  <2>4. QED
    BY <2>2, <2>3
<1>3. QED
  BY <1>1, <1>2

(* Every state has its type: whatever rotates, fails or is deleted, only   *)
(* CAs that exist are bundled, annotated and mounted, and a pass that has  *)
(* to generate one always can (ensureCertificates).                        *)
THEOREM GateTypeCorrect == Spec => []TypeOK
<1>1. TypeOK /\ PassInv /\ MountInv /\ [Next]_vars => TypeOK' /\ PassInv' /\ MountInv'
  BY GateStep
<1>2. QED
  BY InitInv, <1>1, PTL DEF Spec

(* However often the bundle's name changes hands during passes, admissions *)
(* and pod starts, and however far the cache is behind, no injected pod    *)
(* runs with somebody else's ConfigMap for its trust store, unless the     *)
(* operator's was taken away after the webhook had found it                *)
(* (CreateConfigMapIfMissing, ErrForeignConfigMap).                        *)
THEOREM ForeignIsNeverMounted == Spec => []ForeignNeverMounted
<1>1. TypeOK /\ PassInv /\ MountInv /\ [Next]_vars => TypeOK' /\ PassInv' /\ MountInv'
  BY GateStep
<1>2. MountInv => ForeignNeverMounted
  BY DEF MountInv
<1>3. QED
  BY InitInv, <1>1, <1>2, PTL DEF Spec
===============================================================================
