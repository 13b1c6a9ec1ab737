-------------------------- MODULE ReflectorLiveness --------------------------
(***************************************************************************)
(* What the reflector controller achieves once its surroundings settle:    *)
(* they make at most Changes changes, failing passes included.  Every pass *)
(* of a reflector ends in a RequeueAfter or an error that requeues, and    *)
(* the work queue is first-in first-out, so every reflector is taken up    *)
(* again and again (strong fairness of RStart), and a pass that has begun  *)
(* goes on.  Deployments roll out.                                         *)
(***************************************************************************)
EXTENDS Reflector

CONSTANT Changes  \* bound on changes from outside

ASSUME ChangesAssumption == Changes \in Nat

VARIABLE changes  \* how many are left

lvars == <<vars, changes>>

LiveInit == Init /\ changes = Changes

LiveNext ==
    \/ /\ RSteps \/ \E r \in Reflectors : RStart(r) \/ Rollout(r)
       /\ UNCHANGED changes
    \/ /\ changes > 0
       /\ Environment \/ RFail
       /\ changes' \in {0, changes - 1}

Steps(A) == A /\ UNCHANGED changes

Fairness ==
    /\ WF_lvars(Steps(RSteps))
    /\ \A r \in Reflectors : /\ SF_lvars(Steps(RStart(r)))
                             /\ WF_lvars(Steps(Rollout(r)))

LiveSpec == LiveInit /\ [][LiveNext]_lvars /\ Fairness

Settled == changes = 0

(* The hostnames r should have under its key.                              *)
Wanted(r) ==
    IF /\ refl[r].phase = "live"
       /\ r \notin DNSDisabled
       /\ r \notin untrusted \/ r \in IgnoreUntrusted
    THEN Routed(Claimed(r, refl, tunnel), tunnel)
    ELSE {}

(* Whatever the order in which claims moved between reflectors, every key  *)
(* ends up holding exactly the hostnames its reflector owns and can serve, *)
(* so that no duplicate zone is left; and so do the running proxies.       *)
ZonesConverge ==
    Settled ~> [](/\ NoDuplicateZones
                  /\ \A r \in Reflectors : /\ corefile[r] = Wanted(r)
                                           /\ corefile[r] \subseteq proxy[r].serving)

(* A reflector being deleted goes.                                         *)
ReflectorGoes ==
    \A r \in Reflectors :
        Settled /\ refl[r].phase = "deleting" ~> refl[r].phase = "absent"
==============================================================================
