------------------------------ MODULE TrustGate ------------------------------
(***************************************************************************)
(* How running pods come to trust a reflector's CA before DNS sends them   *)
(* to its proxy: the reflector pass (ensureCertificates,                   *)
(* publishTrustBundle, untrustedPods, the CoreDNS switch), the admission   *)
(* webhook that annotates and mounts, and the kubelet that reads the       *)
(* mounted ConfigMap once, when the pod starts.  One namespace stands for  *)
(* each of them; the webhook's own certificate is WebhookCert's subject.   *)
(***************************************************************************)
EXTENDS Naturals, FiniteSets

CONSTANTS
    Reflectors,  \* WeftLocalDNSReflector objects
    Pods,        \* pods of the namespace
    Nobody,      \* no reflector
    MaxCA,       \* bound on CAs ever generated
    Rotation,    \* whether CA Secrets and reflectors are deleted
    Takeovers    \* bound on what others do to the bundle's name

ASSUME GateAssumption ==
    /\ Nobody \notin Reflectors
    /\ IsFiniteSet(Reflectors)
    /\ MaxCA \in Nat \ {0}
    /\ Rotation \in BOOLEAN
    /\ Takeovers \in Nat

VARIABLES
    refl,    \* per reflector: its lifecycle
    ca,      \* per reflector: the CA of its Secret, 0 without one
    issued,  \* how many CAs have been generated
    cm,      \* ConfigMap weft-trust-bundle of the namespace
    seen,    \* the ConfigMap in the manager's cache, which lags behind
    meddled, \* what others have done to the ConfigMap's name so far
    pod,     \* pods
    dns,     \* the reflectors DNS points pods at
    gp       \* the pass of the reflector controller's worker

vars == <<refl, ca, issued, cm, seen, meddled, pod, dns, gp>>

CAs == 1 .. MaxCA

(* The ConfigMap: somebody else's, with none of the CAs, or the operator's *)
(* with the CAs it holds and the reflectors that own it.                   *)
Bundles == [kind: {"missing", "managed", "foreign"}, cas: SUBSET CAs,
            owners: SUBSET Reflectors]

NoBundle == [kind |-> "missing", cas |-> {}, owners |-> {}]

Foreign == [NoBundle EXCEPT !.kind = "foreign"]

(* A pod: opted out or not; the bundle the webhook built for it; what the  *)
(* trusted-cas annotation says; the CAs its containers really trust; and,  *)
(* as history, whether the operator's ConfigMap was taken away between the *)
(* webhook's look at it and the pod's start, or before the cache knew.     *)
PodObject == [phase: {"none", "admitting", "checking", "pending", "running"},
              optOut: BOOLEAN, built: SUBSET CAs, annotated: SUBSET CAs,
              mounted: SUBSET CAs, bereft: BOOLEAN]

NoPod == [phase |-> "none", optOut |-> FALSE, built |-> {}, annotated |-> {},
          mounted |-> {}, bereft |-> FALSE]

GPass == [pc: {"idle", "cert", "publish", "gate", "dns"},
          r: Reflectors \cup {Nobody}, ca: CAs \cup {0}, trusted: BOOLEAN]

GIdle == [pc |-> "idle", r |-> Nobody, ca |-> 0, trusted |-> FALSE]

(* Types: in particular only CAs that exist are bundled, and the passes of *)
(* GCert never run out of the bound.                                       *)
TypeOK ==
    /\ refl \in [Reflectors -> {"absent", "live", "deleting"}]
    /\ ca \in [Reflectors -> CAs \cup {0}]
    /\ issued \in 0 .. MaxCA
    /\ cm \in Bundles
    /\ seen \in Bundles
    /\ meddled \in 0 .. Takeovers
    /\ pod \in [Pods -> PodObject]
    /\ dns \in SUBSET Reflectors
    /\ gp \in GPass

Init ==
    /\ refl = [r \in Reflectors |-> "absent"]
    /\ ca = [r \in Reflectors |-> 0]
    /\ issued = 0
    /\ cm \in {NoBundle, Foreign}
    /\ seen = NoBundle
    /\ meddled = 0
    /\ pod = [p \in Pods |-> NoPod]
    /\ dns = {}
    /\ gp = GIdle

-----------------------------------------------------------------------------
(* Source.CAs: the reflectors that are not being deleted and have a CA.    *)
Trusting == {r \in Reflectors : refl[r] = "live" /\ ca[r] # 0}

(* Source.Build: the CAs of the bundle.                                    *)
Bundle == {ca[r] : r \in Trusting}

Published == [kind |-> "managed", cas |-> Bundle, owners |-> Trusting]

(* The reflector pass *)

GStart(r) ==
    /\ gp.pc = "idle"
    /\ refl[r] = "live"
    /\ gp' = [GIdle EXCEPT !.pc = "cert", !.r = r]
    /\ UNCHANGED <<refl, ca, issued, cm, seen, meddled, pod, dns>>

(* ensureCertificates: generate the CA if its Secret is missing; the       *)
(* serving certificate follows the CA.                                     *)
GCert ==
    /\ gp.pc = "cert"
    /\ \/ /\ ca[gp.r] # 0
          /\ gp' = [gp EXCEPT !.pc = "publish", !.ca = ca[gp.r]]
          /\ UNCHANGED <<ca, issued>>
       \/ /\ ca[gp.r] = 0
          /\ issued' = issued + 1
          /\ ca' = [ca EXCEPT ![gp.r] = issued + 1]
          /\ gp' = [gp EXCEPT !.pc = "publish", !.ca = issued + 1]
    /\ UNCHANGED <<refl, cm, seen, meddled, pod, dns>>

(* publishTrustBundle: nothing while there is no CA to trust; otherwise    *)
(* EnsureConfigMap, which reads the cache: leave what is as it should be;  *)
(* create what is not there, and leave a name that is taken after all,     *)
(* presumably somebody else's; update the rest, a conflict with what       *)
(* happened since ending the pass.                                         *)
GPublish ==
    /\ gp.pc = "publish"
    /\ \/ /\ Bundle = {} \/ seen = Published
          /\ gp' = [gp EXCEPT !.pc = "gate"]
          /\ UNCHANGED cm
       \/ /\ Bundle # {} /\ seen.kind = "missing"
          /\ cm' = IF cm.kind = "missing" THEN Published ELSE cm
          /\ gp' = [gp EXCEPT !.pc = "gate"]
       \/ /\ Bundle # {} /\ seen.kind = "managed" /\ seen # Published
          /\ cm' = IF cm = seen THEN Published ELSE cm
          /\ gp' = IF cm = seen THEN [gp EXCEPT !.pc = "gate"] ELSE GIdle
    /\ UNCHANGED <<refl, ca, issued, seen, meddled, pod, dns>>

(* The watch tells the cache, which holds only what the operator manages.  *)
CatchUp ==
    /\ seen # (IF cm.kind = "managed" THEN cm ELSE NoBundle)
    /\ seen' = IF cm.kind = "managed" THEN cm ELSE NoBundle
    /\ UNCHANGED <<refl, ca, issued, cm, meddled, pod, dns, gp>>

(* Mutant: an opted-out pod is counted.                                    *)
UntrustedOptedOut(c) ==
    {p \in Pods : pod[p].phase = "running" /\ c \notin pod[p].annotated}

(* untrustedPods: the running pods, opted-out ones apart, whose annotation *)
(* does not name the CA.                                                   *)
Untrusted(c) ==
    {p \in Pods : /\ pod[p].phase = "running"
                  /\ ~pod[p].optOut
                  /\ c \notin pod[p].annotated}

GGate ==
    /\ gp.pc = "gate"
    /\ gp' = [gp EXCEPT !.pc = "dns", !.trusted = (Untrusted(gp.ca) = {})]
    /\ UNCHANGED <<refl, ca, issued, cm, seen, meddled, pod, dns>>

(* syncCoreDNS publishes while the gate is open and withdraws otherwise.   *)
GServe ==
    /\ gp.pc = "dns"
    /\ dns' = IF gp.trusted THEN dns \cup {gp.r} ELSE dns \ {gp.r}
    /\ gp' = GIdle
    /\ UNCHANGED <<refl, ca, issued, cm, seen, meddled, pod>>

(* The pods as they are when the operator's ConfigMap goes away: those it  *)
(* was injected into and that have not started yet have lost it.           *)
Injected(p) == pod[p].annotated # {}

Bereaved ==
    [p \in Pods |-> IF pod[p].phase = "pending" /\ Injected(p)
                    THEN [pod[p] EXCEPT !.bereft = TRUE] ELSE pod[p]]

(* finalize; then the Secrets and, with its last owner, the bundle are     *)
(* garbage-collected.                                                      *)
GFinalize(r) ==
    /\ gp.pc = "idle"
    /\ refl[r] = "deleting"
    /\ refl' = [refl EXCEPT ![r] = "absent"]
    /\ dns' = dns \ {r}
    /\ ca' = [ca EXCEPT ![r] = 0]
    /\ \/ /\ cm.kind = "managed" /\ cm.owners = {r}
          /\ cm' = NoBundle
          /\ pod' = Bereaved
       \/ /\ ~(cm.kind = "managed" /\ cm.owners = {r})
          /\ cm' = [cm EXCEPT !.owners = @ \ {r}]
          /\ UNCHANGED pod
    /\ UNCHANGED <<issued, seen, meddled, gp>>

GSteps == GCert \/ GPublish \/ GGate \/ GServe

GFail ==
    /\ gp.pc # "idle"
    /\ gp' = GIdle
    /\ UNCHANGED <<refl, ca, issued, cm, seen, meddled, pod, dns>>

(* The webhook and the kubelet *)

(* The webhook's answer: the pod as it came, or injected and annotated.    *)
Unmodified(p) == pod' = [pod EXCEPT ![p].phase = "pending", ![p].built = {}]

InjectPod(p, bereft) ==
    pod' = [pod EXCEPT ![p].phase = "pending", ![p].built = {},
                       ![p].annotated = pod[p].built, ![p].bereft = bereft]

(* Handle: an opted-out pod, and one for which there is nothing to trust,  *)
(* is admitted as it is; so is one the webhook fails on, however far it    *)
(* got, or never sees.                                                     *)
Bypass(p) ==
    /\ \/ /\ pod[p].phase = "none"
          /\ \E o \in BOOLEAN : pod' = [pod EXCEPT ![p].phase = "pending", ![p].optOut = o]
       \/ pod[p].phase \in {"admitting", "checking"} /\ Unmodified(p)
    /\ UNCHANGED <<refl, ca, issued, cm, seen, meddled, dns, gp>>

(* Handle: build the bundle ...                                            *)
Build(p) ==
    /\ pod[p].phase = "none"
    /\ Bundle # {}
    /\ pod' = [pod EXCEPT ![p].phase = "admitting", ![p].built = Bundle]
    /\ UNCHANGED <<refl, ca, issued, cm, seen, meddled, dns, gp>>

(* ... CreateConfigMapIfMissing: one the cache shows is left as it is, one *)
(* it does not show is created, unless the name turns out to be taken; ... *)
Inject(p) ==
    /\ pod[p].phase = "admitting"
    /\ \/ /\ seen.kind = "managed"
          /\ InjectPod(p, cm.kind # "managed")
          /\ UNCHANGED cm
       \/ /\ seen.kind = "missing" /\ cm.kind = "missing"
          /\ cm' = [Published EXCEPT !.cas = pod[p].built]
          /\ InjectPod(p, FALSE)
       \/ /\ seen.kind = "missing" /\ cm.kind # "missing"
          /\ pod' = [pod EXCEPT ![p].phase = "checking"]
          /\ UNCHANGED cm
    /\ UNCHANGED <<refl, ca, issued, seen, meddled, dns, gp>>

(* Mutant: a name that is taken is taken for the reconciler's.             *)
LiveConfigMapOurs(p) ==
    /\ pod[p].phase = "checking"
    /\ InjectPod(p, FALSE)
    /\ UNCHANGED <<refl, ca, issued, cm, seen, meddled, dns, gp>>

(* ... then the API server is asked whose it is.                           *)
LiveConfigMap(p) ==
    /\ pod[p].phase = "checking"
    /\ IF cm.kind = "managed" THEN InjectPod(p, FALSE) ELSE Unmodified(p)
    /\ UNCHANGED <<refl, ca, issued, cm, seen, meddled, dns, gp>>

(* The kubelet starts the pod once its volume can be mounted; a subPath    *)
(* mount never changes afterwards.                                         *)
StartPod(p) ==
    /\ pod[p].phase = "pending"
    /\ Injected(p) => cm.kind # "missing"
    /\ pod' = [pod EXCEPT ![p].phase = "running",
                          ![p].mounted = IF Injected(p) THEN cm.cas ELSE {}]
    /\ UNCHANGED <<refl, ca, issued, cm, seen, meddled, dns, gp>>

RemovePod(p) ==
    /\ pod[p].phase \in {"pending", "running"}
    /\ pod' = [pod EXCEPT ![p] = NoPod]
    /\ UNCHANGED <<refl, ca, issued, cm, seen, meddled, dns, gp>>

(* Users *)

(* The bound: every reflector may still need a CA of its own.              *)
NeedCA == {r \in Reflectors : refl[r] # "absent" /\ ca[r] = 0}

CALeft == issued + Cardinality(NeedCA) < MaxCA

CreateReflector(r) ==
    /\ CALeft
    /\ refl[r] = "absent"
    /\ refl' = [refl EXCEPT ![r] = "live"]
    /\ UNCHANGED <<ca, issued, cm, seen, meddled, pod, dns, gp>>

DeleteReflector(r) ==
    /\ Rotation
    /\ refl[r] = "live"
    /\ refl' = [refl EXCEPT ![r] = "deleting"]
    /\ UNCHANGED <<ca, issued, cm, seen, meddled, pod, dns, gp>>

DeleteCA(r) ==
    /\ Rotation
    /\ CALeft
    /\ refl[r] # "absent"
    /\ ca[r] # 0
    /\ ca' = [ca EXCEPT ![r] = 0]
    /\ UNCHANGED <<refl, issued, cm, seen, meddled, pod, dns, gp>>

(* Somebody puts a ConfigMap of their own under the bundle's name, over    *)
(* the operator's if it is there, or deletes the one that is.              *)
Meddle ==
    /\ meddled < Takeovers
    /\ meddled' = meddled + 1
    /\ cm' \in {NoBundle, Foreign} \ {cm}
    /\ pod' = IF cm.kind = "managed" THEN Bereaved ELSE pod
    /\ UNCHANGED <<refl, ca, issued, seen, dns, gp>>

Workloads ==
    \E p \in Pods : \/ Bypass(p) \/ Build(p) \/ Inject(p) \/ LiveConfigMap(p)
                    \/ StartPod(p) \/ RemovePod(p)

Users ==
    \/ \E r \in Reflectors : CreateReflector(r) \/ DeleteReflector(r) \/ DeleteCA(r)
    \/ Meddle

Next ==
    \/ \E r \in Reflectors : GStart(r) \/ GFinalize(r)
    \/ GSteps
    \/ GFail
    \/ CatchUp
    \/ Workloads
    \/ Users

(* Every pass ends in a RequeueAfter or an error that requeues, and no     *)
(* call of a pass fails every time it is retried; the cache catches up.    *)
Fairness ==
    /\ WF_vars(CatchUp)
    /\ \A r \in Reflectors :
          /\ SF_vars(GStart(r))
          /\ SF_vars(gp.r = r /\ GCert)
          /\ SF_vars(gp.r = r /\ GPublish)
          /\ SF_vars(gp.r = r /\ GGate)
          /\ SF_vars(gp.r = r /\ GServe)

Spec == Init /\ [][Next]_vars

FairSpec == Spec /\ Fairness

-----------------------------------------------------------------------------
(* The trust gate believes the annotation: a running pod trusts every CA   *)
(* its annotation names, as "records the CA fingerprints a pod was given"  *)
(* says of it.                                                             *)
AnnotationHonest ==
    \A p \in Pods :
        pod[p].phase = "running" => pod[p].annotated \subseteq pod[p].mounted

(* A pod must not be pointed at a ConfigMap the operator does not manage   *)
(* (ErrForeignConfigMap): it would replace the pod's trust store with      *)
(* somebody else's data while its annotation opens the gate.  Whoever      *)
(* takes or frees the bundle's name at whatever point of an admission, and *)
(* however far the cache is behind, an injected pod runs with a bundle of  *)
(* the operator's, with at least one of the CAs, unless the one the        *)
(* webhook had found was taken away before the pod started.                *)
ForeignNeverMounted ==
    \A p \in Pods :
        pod[p].phase = "running" /\ Injected(p) /\ ~pod[p].bereft
            => pod[p].mounted # {}

(* The pods whose annotation says they do not trust the CA c.              *)
Unaware(c) ==
    {p \in Pods : pod[p].phase = "running" /\ ~pod[p].optOut /\ c \notin pod[p].annotated}

(* However passes, admissions, CA rotations and failing calls are ordered, *)
(* a reflector that stays, with a CA that stays, is out of DNS for good if *)
(* from some time on a running pod is not annotated with its CA, and in    *)
(* DNS for good if from some time on every running pod that did not opt    *)
(* out is (untrustedPods).                                                 *)
GateFollowsTrust ==
    \A r \in Reflectors :
        /\ <>[](refl[r] = "live" /\ ca[r] # 0 /\ Unaware(ca[r]) # {})
              => <>[](r \notin dns)
        /\ <>[](refl[r] = "live" /\ ca[r] # 0 /\ Unaware(ca[r]) = {})
              => <>[](r \in dns)
==============================================================================
