------------------------------ MODULE Reflector ------------------------------
(***************************************************************************)
(* The WeftLocalDNSReflector controller: one worker whose pass computes    *)
(* the hostnames a reflector claims, reconciles the proxy Deployment, the  *)
(* reflector's key in the shared CoreDNS ConfigMap and the node agent      *)
(* DaemonSet, while users edit reflectors and tunnels and the proxy's pods *)
(* roll out or die.  Whether every running pod trusts the reflector's CA   *)
(* (the trust gate) is an input here.  Certificates, the Service and the   *)
(* status conditions are not modelled; a failing call ends the pass.       *)
(***************************************************************************)
EXTENDS Claims, FiniteSets

CONSTANTS
    Nobody,            \* no reflector
    DNSDisabled,       \* reflectors with spec.clusterDNS.disabled
    NodeTrustDisabled, \* reflectors with spec.nodeTrust.disabled
    IgnoreUntrusted,   \* reflectors with spec.ignoreUntrustedPods
    MaxTime            \* bound on creation timestamps

ASSUME FlagsAssumption ==
    /\ Nobody \notin Reflectors
    /\ DNSDisabled \subseteq Reflectors
    /\ NodeTrustDisabled \subseteq Reflectors
    /\ IgnoreUntrusted \subseteq Reflectors
    /\ MaxTime \in Nat \ {0}

VARIABLES
    refl,      \* WeftLocalDNSReflector objects
    tunnel,    \* per hostname: what the WeftTunnels offer
    untrusted, \* reflectors whose CA some running pod does not trust
    proxy,     \* per reflector: the proxy Deployment and its running pods
    corefile,  \* per reflector: the hostnames under its key in coredns-custom
    agent,     \* per reflector: the hostnames of its node agent DaemonSet
    rp         \* the pass of the controller's worker

vars == <<refl, tunnel, untrusted, proxy, corefile, agent, rp>>

Object == [phase: {"absent", "live", "deleting"}, fin: BOOLEAN,
           created: 0 .. MaxTime, spec: Specs]

Absent == [phase |-> "absent", fin |-> FALSE, created |-> 0,
           spec |-> [all |-> TRUE, hosts |-> {}]]

(* The Deployment's --routes, and the hostnames its available pods serve   *)
(* ({} when AvailableReplicas is 0).                                       *)
Deployment == [routes: SUBSET Hosts, serving: SUBSET Hosts]

NoDeployment == [routes |-> {}, serving |-> {}]

(* The pass: the object read, whether it is trusted, the routed hostnames  *)
(* and whether the proxy was available.                                    *)
Pass == [pc: {"idle", "start", "list", "gate", "proxy", "dns", "agent", "drop"},
         r: Reflectors \cup {Nobody}, copy: Object, routed: SUBSET Hosts,
         trusted: BOOLEAN, available: BOOLEAN]

Idle == [pc |-> "idle", r |-> Nobody, copy |-> Absent, routed |-> {},
         trusted |-> FALSE, available |-> FALSE]

(* Types, and a pass always works on a reflector.                          *)
TypeOK ==
    /\ refl \in [Reflectors -> Object]
    /\ tunnel \in [Hosts -> Offers]
    /\ untrusted \in SUBSET Reflectors
    /\ proxy \in [Reflectors -> Deployment]
    /\ corefile \in [Reflectors -> SUBSET Hosts]
    /\ agent \in [Reflectors -> SUBSET Hosts]
    /\ rp \in Pass
    /\ rp.pc # "idle" => rp.r \in Reflectors

Init ==
    /\ refl = [r \in Reflectors |-> Absent]
    /\ tunnel = [h \in Hosts |-> "none"]
    /\ untrusted = {}
    /\ proxy = [r \in Reflectors |-> NoDeployment]
    /\ corefile = [r \in Reflectors |-> {}]
    /\ agent = [r \in Reflectors |-> {}]
    /\ rp = Idle

-----------------------------------------------------------------------------
(* The controller *)

me == rp.r

End == rp' = Idle

(* Get the object. *)
RStart(r) ==
    /\ rp.pc = "idle"
    /\ refl[r].phase # "absent"
    /\ rp' = [Idle EXCEPT !.pc = "start", !.r = r, !.copy = refl[r]]
    /\ UNCHANGED <<refl, tunnel, untrusted, proxy, corefile, agent>>

(* Add the finalizer if it is missing and go on; the Update is refused     *)
(* when the object changed since it was read.                              *)
RAddFinalizer ==
    /\ rp.pc = "start"
    /\ rp.copy.phase = "live"
    /\ \/ /\ rp.copy.fin
          /\ rp' = [rp EXCEPT !.pc = "list"]
          /\ UNCHANGED refl
       \/ /\ ~rp.copy.fin
          /\ refl[me] = rp.copy
          /\ refl' = [refl EXCEPT ![me].fin = TRUE]
          /\ rp' = [rp EXCEPT !.pc = "list", !.copy.fin = TRUE]
       \/ /\ ~rp.copy.fin
          /\ refl[me] # rp.copy
          /\ End
          /\ UNCHANGED refl
    /\ UNCHANGED <<tunnel, untrusted, proxy, corefile, agent>>

(* List the tunnels and the reflectors, resolve the claims and the routes. *)
(* Of itself the pass uses the copy it read.                               *)
RClaim ==
    /\ rp.pc = "list"
    /\ LET view == [refl EXCEPT ![me] = rp.copy]
       IN  rp' = [rp EXCEPT !.pc = "gate",
                            !.routed = Routed(Claimed(me, view, tunnel), tunnel)]
    /\ UNCHANGED <<refl, tunnel, untrusted, proxy, corefile, agent>>

(* untrustedPods. *)
RGate ==
    /\ rp.pc = "gate"
    /\ rp' = [rp EXCEPT !.pc = "proxy",
                        !.trusted = me \notin untrusted \/ me \in IgnoreUntrusted]
    /\ UNCHANGED <<refl, tunnel, untrusted, proxy, corefile, agent>>

(* ensureProxy, and deploymentAvailable on the Deployment it returns: the  *)
(* status counts the pods that are running, whichever routes they have.    *)
RProxy ==
    /\ rp.pc = "proxy"
    /\ proxy' = [proxy EXCEPT ![me].routes = rp.routed]
    /\ rp' = [rp EXCEPT !.pc = "dns",
                        !.available = proxy[me].serving # {} /\ rp.routed # {}]
    /\ UNCHANGED <<refl, tunnel, untrusted, corefile, agent>>

(* Mutant: the key is written but never withdrawn.                         *)
RSyncDNSKeeps ==
    /\ rp.pc = "dns"
    /\ corefile' = IF me \notin DNSDisabled /\ rp.available /\ rp.trusted
                   THEN [corefile EXCEPT ![me] = rp.routed] ELSE corefile
    /\ rp' = [rp EXCEPT !.pc = "agent"]
    /\ UNCHANGED <<refl, tunnel, untrusted, proxy, agent>>

(* syncCoreDNS: write the key, or remove it while DNS must not point here. *)
RSyncDNS ==
    /\ rp.pc = "dns"
    /\ corefile' = [corefile EXCEPT ![me] =
                      IF me \notin DNSDisabled /\ rp.available /\ rp.trusted
                      THEN rp.routed ELSE {}]
    /\ rp' = [rp EXCEPT !.pc = "agent"]
    /\ UNCHANGED <<refl, tunnel, untrusted, proxy, agent>>

(* ensureNodeAgent, and the end of the pass.                               *)
RAgent ==
    /\ rp.pc = "agent"
    /\ agent' = [agent EXCEPT ![me] =
                   IF rp.trusted /\ me \notin NodeTrustDisabled
                   THEN rp.routed ELSE {}]
    /\ End
    /\ UNCHANGED <<refl, tunnel, untrusted, proxy, corefile>>

(* Mutants: finalize waits for the key to go away by itself; it forgets    *)
(* the key.                                                                *)
RFinalizeWaits ==
    /\ rp.pc = "start"
    /\ rp.copy.phase = "deleting"
    /\ rp' = IF corefile[me] = {} THEN [rp EXCEPT !.pc = "drop"] ELSE Idle
    /\ UNCHANGED <<refl, tunnel, untrusted, proxy, corefile, agent>>

RFinalizeKeepsKey ==
    /\ rp.pc = "start"
    /\ rp.copy.phase = "deleting"
    /\ rp' = [rp EXCEPT !.pc = "drop"]
    /\ UNCHANGED <<refl, tunnel, untrusted, proxy, corefile, agent>>

(* finalize: withdraw the key ...                                          *)
RFinalize ==
    /\ rp.pc = "start"
    /\ rp.copy.phase = "deleting"
    /\ corefile' = [corefile EXCEPT ![me] = {}]
    /\ rp' = [rp EXCEPT !.pc = "drop"]
    /\ UNCHANGED <<refl, tunnel, untrusted, proxy, agent>>

(* ... and let the object go; what it owns is garbage-collected.           *)
RDrop ==
    /\ rp.pc = "drop"
    /\ IF refl[me] = rp.copy
       THEN /\ refl' = [refl EXCEPT ![me] = Absent]
            /\ proxy' = [proxy EXCEPT ![me] = NoDeployment]
            /\ agent' = [agent EXCEPT ![me] = {}]
       ELSE UNCHANGED <<refl, proxy, agent>>
    /\ End
    /\ UNCHANGED <<tunnel, untrusted, corefile>>

(* The steps of a pass once it has begun.                                  *)
RSteps ==
    \/ RAddFinalizer
    \/ RClaim
    \/ RGate
    \/ RProxy
    \/ RSyncDNS
    \/ RAgent
    \/ RFinalize
    \/ RDrop

(* A call fails, another writer of coredns-custom makes the Update         *)
(* conflict, or the operator restarts.                                     *)
RFail ==
    /\ rp.pc # "idle"
    /\ End
    /\ UNCHANGED <<refl, tunnel, untrusted, proxy, corefile, agent>>

-----------------------------------------------------------------------------
(* Around it *)

(* Timestamps have a resolution of a second: two objects may share one.    *)
Stamps ==
    LET used == {refl[r].created : r \in Reflectors}
        last == CHOOSE t \in used : \A u \in used : u <= t
    IN  {last, last + 1} \cap (1 .. MaxTime)

Create(r) ==
    /\ refl[r].phase = "absent"
    /\ \E spec \in Specs, t \in Stamps :
          refl' = [refl EXCEPT ![r] = [phase |-> "live", fin |-> FALSE,
                                       created |-> t, spec |-> spec]]
    /\ UNCHANGED <<tunnel, untrusted, proxy, corefile, agent, rp>>

Edit(r) ==
    /\ refl[r].phase = "live"
    /\ \E spec \in Specs \ {refl[r].spec} :
          refl' = [refl EXCEPT ![r].spec = spec]
    /\ UNCHANGED <<tunnel, untrusted, proxy, corefile, agent, rp>>

Delete(r) ==
    /\ refl[r].phase = "live"
    /\ refl' = [refl EXCEPT ![r] = IF @.fin THEN [@ EXCEPT !.phase = "deleting"]
                                   ELSE Absent]
    /\ UNCHANGED <<tunnel, untrusted, proxy, corefile, agent, rp>>

ChangeTunnel(h) ==
    /\ \E o \in Offers \ {tunnel[h]} : tunnel' = [tunnel EXCEPT ![h] = o]
    /\ UNCHANGED <<refl, untrusted, proxy, corefile, agent, rp>>

ChangeTrust(r) ==
    /\ untrusted' = IF r \in untrusted THEN untrusted \ {r}
                    ELSE untrusted \cup {r}
    /\ UNCHANGED <<refl, tunnel, proxy, corefile, agent, rp>>

(* The Deployment's pods run with the current --routes; with none it is    *)
(* scaled to zero.                                                         *)
Rollout(r) ==
    /\ proxy[r].serving # proxy[r].routes
    /\ proxy' = [proxy EXCEPT ![r].serving = proxy[r].routes]
    /\ UNCHANGED <<refl, tunnel, untrusted, corefile, agent, rp>>

ProxyDies(r) ==
    /\ proxy[r].serving # {}
    /\ proxy' = [proxy EXCEPT ![r].serving = {}]
    /\ UNCHANGED <<refl, tunnel, untrusted, corefile, agent, rp>>

Environment ==
    \/ \E r \in Reflectors :
          Create(r) \/ Edit(r) \/ Delete(r) \/ ChangeTrust(r) \/ ProxyDies(r)
    \/ \E h \in Hosts : ChangeTunnel(h)

Next ==
    \/ \E r \in Reflectors : RStart(r) \/ Rollout(r)
    \/ RSteps
    \/ RFail
    \/ Environment

Spec == Init /\ [][Next]_vars

-----------------------------------------------------------------------------
(* Safety *)

LiveReflectors == {r \in Reflectors : refl[r].phase = "live"}

(* resolveClaims, evaluated by every reflector on the same objects, never  *)
(* gives one hostname to two of them: the rule that keeps CoreDNS free of  *)
(* duplicate zones.                                                        *)
ClaimsDisjoint ==
    \A a, b \in LiveReflectors :
        a # b => Claimed(a, refl, tunnel) \cap Claimed(b, refl, tunnel) = {}

(* ... and leaves no wanted hostname unserved: one that some live          *)
(* reflector names, and one that a tunnel has while some live reflector    *)
(* takes them all, is claimed by somebody.                                 *)
ClaimsComplete ==
    \A h \in Hosts :
        \/ \E r \in LiveReflectors : h \in refl[r].spec.hosts
        \/ tunnel[h] # "none" /\ \E r \in LiveReflectors : refl[r].spec.all
        => \E r \in LiveReflectors : h \in Claimed(r, refl, tunnel)

(* The CoreDNS key cannot be garbage-collected: it exists only while the   *)
(* reflector still has the finalizer that removes it, whenever the object  *)
(* is deleted and wherever a pass stops.                                   *)
NoOrphanedOverride ==
    \A r \in Reflectors : corefile[r] # {} => refl[r].fin

(* Two reflectors never serve the same hostname in CoreDNS, which refuses  *)
(* to load a configuration with duplicate zones.                           *)
NoDuplicateZones ==
    \A a, b \in Reflectors : a # b => corefile[a] \cap corefile[b] = {}

(* What NoOrphanedOverride rests on: a reflector is held by its finalizer, *)
(* and a pass past the finalizer step, on either path, works on an object  *)
(* that has it, and drops it only with the key gone.                       *)
HeldByFinalizer ==
    /\ \A r \in Reflectors :
          /\ refl[r].phase = "deleting" => refl[r].fin
          /\ refl[r].phase = "absent" => ~refl[r].fin
    /\ rp.pc # "idle" /\ rp.copy.fin => refl[rp.r].fin
    /\ rp.pc = "start" /\ rp.copy.phase = "deleting" => rp.copy.fin
    /\ rp.pc \notin {"idle", "start"} => rp.copy.fin
    /\ rp.pc = "drop" => corefile[rp.r] = {}
=============================================================================
