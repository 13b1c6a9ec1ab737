-------------------------- MODULE Reflector_proofs --------------------------
(***************************************************************************)
(* Proofs about resolveClaims and about the reflector controller, for any  *)
(* set of reflectors and hostnames.                                        *)
(***************************************************************************)
EXTENDS Reflector, TLAPS, WellFoundedInduction

(* Two live reflectors see the same competitors.                           *)
LEMMA SameCompetitors ==
    ASSUME NEW a \in LiveReflectors, NEW b \in LiveReflectors
    PROVE  /\ Live(a, refl) = Live(b, refl)
           /\ Everything(a, refl) = Everything(b, refl)
           /\ \A h : Explicit(a, refl, h) = Explicit(b, refl, h)
<1>1. Live(a, refl) = Live(b, refl)
  BY DEF LiveReflectors, Live
<1>2. QED
  BY <1>1 DEF Everything, Explicit

(* On any set of reflectors and tunnels resolveClaims gives each hostname  *)
(* to at most one reflector.                                               *)
THEOREM ClaimsAreDisjoint == ClaimsDisjoint
<1> SUFFICES ASSUME NEW a \in LiveReflectors, NEW b \in LiveReflectors, a # b,
                    NEW h, h \in Claimed(a, refl, tunnel),
                    h \in Claimed(b, refl, tunnel)
             PROVE  FALSE
  BY DEF ClaimsDisjoint
<1>1. /\ Everything(a, refl) = Everything(b, refl)
      /\ Explicit(a, refl, h) = Explicit(b, refl, h)
  BY SameCompetitors
<1>2. CASE refl[a].spec.all /\ refl[b].spec.all
  BY <1>1, <1>2 DEF Claimed
<1>3. CASE ~refl[a].spec.all /\ ~refl[b].spec.all
  BY <1>1, <1>3 DEF Claimed
<1>4. CASE refl[a].spec.all /\ ~refl[b].spec.all
  <2>1. b \in Explicit(b, refl, h)
    BY <1>4 DEF Claimed, Explicit, Live, LiveReflectors
  <2>2. Explicit(a, refl, h) = {}
    BY <1>4 DEF Claimed
  <2>3. QED
    BY <1>1, <2>1, <2>2
<1>5. CASE ~refl[a].spec.all /\ refl[b].spec.all
  <2>1. a \in Explicit(a, refl, h)
    BY <1>5 DEF Claimed, Explicit, Live, LiveReflectors
  <2>2. Explicit(b, refl, h) = {}
    BY <1>5 DEF Claimed
  <2>3. QED
    BY <1>1, <2>1, <2>2
<1>6. QED
  BY <1>2, <1>3, <1>4, <1>5

-----------------------------------------------------------------------------
(* Type correctness *)

LEMMA InitialValues ==
    /\ Absent \in Object /\ Absent.phase = "absent" /\ ~Absent.fin
    /\ NoDeployment \in Deployment
    /\ Idle \in Pass /\ Idle.pc = "idle"
<1>1. Absent \in Object /\ Absent.phase = "absent" /\ ~Absent.fin
  BY FlagsAssumption DEF Absent, Object, Specs
<1>2. NoDeployment \in Deployment
  BY DEF NoDeployment, Deployment
<1>3. Idle \in Pass /\ Idle.pc = "idle"
  BY <1>1 DEF Idle, Pass
<1>4. QED
  BY <1>1, <1>2, <1>3

(* A reflector claims hostnames only.                                      *)
LEMMA ClaimedHosts ==
    ASSUME NEW self, NEW view, NEW tun, view[self] \in Object
    PROVE  Claimed(self, view, tun) \subseteq Hosts
<1>1. view[self].spec.hosts \subseteq Hosts
  <2>1. view[self].spec \in Specs
    BY DEF Object
  <2>2. ASSUME NEW spec \in Specs PROVE spec.hosts \subseteq Hosts
    <3>1. CASE spec = [all |-> TRUE, hosts |-> {}]
      BY <3>1
    <3>2. CASE spec \in [all: {FALSE}, hosts: (SUBSET Hosts) \ {{}}]
      <4>1. spec.hosts \in (SUBSET Hosts) \ {{}}
        BY <3>2
      <4>2. QED
        BY <4>1
    <3>3. QED
      BY <3>1, <3>2 DEF Specs
  <2>3. QED
    BY <2>1, <2>2
<1>2. QED
  BY <1>1 DEF Claimed, TunnelHosts

(* Each step of a pass, seen from the pass: it ends, or it moves on with   *)
(* the object and the copy it has.                                         *)
Moves(pc) ==
    /\ rp' \in Pass
    /\ rp'.pc = pc
    /\ rp'.r = rp.r
    /\ rp'.copy = rp.copy

LEMMA StepMoves ==
    ASSUME TypeOK
    PROVE  /\ RClaim => Moves("gate")
           /\ RGate => Moves("proxy")
           /\ RProxy => Moves("dns")
           /\ RSyncDNS => Moves("agent")
           /\ RFinalize => Moves("drop")
<1>a. rp \in Pass /\ refl \in [Reflectors -> Object]
      /\ (rp.pc # "idle" => me \in Reflectors)
  BY DEF TypeOK, me
<1>1. ASSUME RClaim PROVE Moves("gate")
  <2> DEFINE view == [refl EXCEPT ![me] = rp.copy]
             routed == Routed(Claimed(me, view, tunnel), tunnel)
  <2>1. rp.copy \in Object /\ me \in Reflectors
    BY <1>a, <1>1 DEF RClaim, Pass
  <2>2. view[me] \in Object
    BY <1>a, <2>1
  <2>3. routed \in SUBSET Hosts
    BY <2>2, ClaimedHosts DEF Routed
  <2>4. rp' = [rp EXCEPT !.pc = "gate", !.routed = routed]
    BY <1>1 DEF RClaim
  <2> HIDE DEF routed
  <2>5. QED
    BY <1>a, <2>3, <2>4 DEF Moves, Pass
<1>2. ASSUME RGate PROVE Moves("proxy")
  BY <1>a, <1>2 DEF RGate, Moves, Pass
<1>3. ASSUME RProxy PROVE Moves("dns")
  BY <1>a, <1>3 DEF RProxy, Moves, Pass
<1>4. ASSUME RSyncDNS PROVE Moves("agent")
  BY <1>a, <1>4 DEF RSyncDNS, Moves, Pass
<1>5. ASSUME RFinalize PROVE Moves("drop")
  BY <1>a, <1>5 DEF RFinalize, Moves, Pass
<1>6. QED
  BY <1>1, <1>2, <1>3, <1>4, <1>5

LEMMA StepTypes == TypeOK /\ [Next]_vars => TypeOK'
<1> SUFFICES ASSUME TypeOK, [Next]_vars PROVE TypeOK'
  OBVIOUS
<1>a. /\ refl \in [Reflectors -> Object]
      /\ tunnel \in [Hosts -> Offers]
      /\ untrusted \in SUBSET Reflectors
      /\ proxy \in [Reflectors -> Deployment]
      /\ corefile \in [Reflectors -> SUBSET Hosts]
      /\ agent \in [Reflectors -> SUBSET Hosts]
      /\ rp \in Pass
      /\ rp.pc # "idle" => me \in Reflectors
      /\ rp.routed \in SUBSET Hosts
  BY DEF TypeOK, me, Pass
<1>1. ASSUME NEW r \in Reflectors, RStart(r) PROVE TypeOK'
  <2>1. rp' \in Pass /\ rp'.r = r
    BY <1>1, <1>a, InitialValues DEF RStart, Pass
  <2>2. QED
    BY <1>1, <2>1 DEF TypeOK, RStart
<1>2. CASE RAddFinalizer
  <2>1. refl' = refl \/ refl' = [refl EXCEPT ![me].fin = TRUE]
    BY <1>2 DEF RAddFinalizer
  <2>2. refl' \in [Reflectors -> Object]
    BY <1>a, <2>1 DEF Object
  <2>3. \/ rp' = Idle
        \/ rp' = [rp EXCEPT !.pc = "list"]
        \/ rp' = [rp EXCEPT !.pc = "list", !.copy.fin = TRUE]
    BY <1>2 DEF RAddFinalizer, End
  <2>4. rp' \in Pass /\ (rp'.pc # "idle" => rp'.r = rp.r)
    <3>1. CASE rp' = Idle
      BY <3>1, InitialValues
    <3>2. CASE rp' = [rp EXCEPT !.pc = "list"]
      BY <1>a, <3>2 DEF Pass
    <3>3. CASE rp' = [rp EXCEPT !.pc = "list", !.copy.fin = TRUE]
      <4>1. [rp.copy EXCEPT !.fin = TRUE] \in Object
        BY <1>a DEF Pass, Object
      <4>2. QED
        BY <1>a, <3>3, <4>1 DEF Pass
    <3>4. QED
      BY <2>3, <3>1, <3>2, <3>3
  <2>5. QED
    BY <1>2, <2>2, <2>4 DEF TypeOK, RAddFinalizer
<1>3. CASE RClaim
  BY <1>3, StepMoves DEF TypeOK, RClaim, Moves
<1>4. CASE RGate
  BY <1>4, StepMoves DEF TypeOK, RGate, Moves
<1>5. CASE RProxy
  <2>1. proxy' \in [Reflectors -> Deployment]
    BY <1>a, <1>5 DEF RProxy, Deployment
  <2>2. QED
    BY <1>5, <2>1, StepMoves DEF TypeOK, RProxy, Moves
<1>6. CASE RSyncDNS
  <2>1. corefile' \in [Reflectors -> SUBSET Hosts]
    BY <1>a, <1>6 DEF RSyncDNS
  <2>2. QED
    BY <1>6, <2>1, StepMoves DEF TypeOK, RSyncDNS, Moves
<1>7. CASE RAgent
  <2>1. agent' \in [Reflectors -> SUBSET Hosts]
    BY <1>a, <1>7 DEF RAgent
  <2>2. QED
    BY <1>7, <2>1, InitialValues DEF TypeOK, RAgent, End
<1>8. CASE RFinalize
  <2>1. corefile' \in [Reflectors -> SUBSET Hosts]
    BY <1>a, <1>8 DEF RFinalize
  <2>2. QED
    BY <1>8, <2>1, StepMoves DEF TypeOK, RFinalize, Moves
<1>9. CASE RDrop
  <2>1. /\ refl' \in [Reflectors -> Object]
        /\ proxy' \in [Reflectors -> Deployment]
        /\ agent' \in [Reflectors -> SUBSET Hosts]
    BY <1>a, <1>9, InitialValues DEF RDrop
  <2>2. QED
    BY <1>9, <2>1, InitialValues DEF TypeOK, RDrop, End
<1>10. CASE RFail
  BY <1>10, InitialValues DEF TypeOK, RFail, End
<1>11. ASSUME NEW r \in Reflectors, Create(r) \/ Edit(r) \/ Delete(r)
       PROVE  TypeOK'
  <2>1. refl' \in [Reflectors -> Object]
    <3>1. CASE Create(r)
      <4>1. PICK spec \in Specs, t \in Stamps :
               refl' = [refl EXCEPT ![r] = [phase |-> "live", fin |-> FALSE,
                                            created |-> t, spec |-> spec]]
        BY <3>1 DEF Create
      <4>2. t \in 0 .. MaxTime
        BY FlagsAssumption DEF Stamps
      <4>3. QED
        BY <1>a, <4>1, <4>2 DEF Object
    <3>2. CASE Edit(r)
      BY <1>a, <3>2 DEF Edit, Object
    <3>3. CASE Delete(r)
      <4>1. [refl[r] EXCEPT !.phase = "deleting"] \in Object
        BY <1>a DEF Object
      <4>2. QED
        BY <1>a, <3>3, <4>1, InitialValues DEF Delete
    <3>4. QED
      BY <1>11, <3>1, <3>2, <3>3
  <2>2. QED
    BY <1>11, <2>1 DEF TypeOK, Create, Edit, Delete
<1>12. ASSUME NEW r \in Reflectors, ChangeTrust(r) PROVE TypeOK'
  BY <1>12 DEF TypeOK, ChangeTrust
<1>13. ASSUME NEW r \in Reflectors, Rollout(r) \/ ProxyDies(r) PROVE TypeOK'
  <2>1. proxy' \in [Reflectors -> Deployment]
    BY <1>a, <1>13 DEF Rollout, ProxyDies, Deployment
  <2>2. QED
    BY <1>13, <2>1 DEF TypeOK, Rollout, ProxyDies
<1>14. ASSUME NEW h \in Hosts, ChangeTunnel(h) PROVE TypeOK'
  <2>1. tunnel' \in [Hosts -> Offers]
    BY <1>a, <1>14 DEF ChangeTunnel
  <2>2. QED
    BY <1>14, <2>1 DEF TypeOK, ChangeTunnel
<1>15. CASE UNCHANGED vars
  BY <1>15 DEF TypeOK, vars
<1>16. QED
  BY <1>1, <1>2, <1>3, <1>4, <1>5, <1>6, <1>7, <1>8, <1>9, <1>10, <1>11,
     <1>12, <1>13, <1>14, <1>15 DEF Next, RSteps, Environment

(* The reflector objects, what they own and the pass stay well-formed.     *)
THEOREM ReflectorTypes == Spec => []TypeOK
<1>1. Init => TypeOK
  BY InitialValues DEF Init, TypeOK, Offers
<1>2. QED
  BY <1>1, StepTypes, PTL DEF Spec

-----------------------------------------------------------------------------
(* No hostname goes unserved *)

(* A set of natural numbers that is not empty has a least element.         *)
LEMMA LeastNumber ==
    ASSUME NEW S, S \subseteq Nat, S # {}
    PROVE  \E x \in S : \A y \in S : x <= y
<1> DEFINE R == OpToRel(<, Nat)
<1>1. PICK x \in S : \A y \in S : ~ (<<y, x>> \in R)
  <2>1. IsWellFoundedOn(R, Nat)
    BY NatLessThanWellFounded
  <2> HIDE DEF R
  <2>2. QED
    BY <2>1, WFMin
<1>2. ASSUME NEW y \in S PROVE x <= y
  <2>1. ~ (<<y, x>> \in R)
    BY <1>1
  <2>2. ~ (y < x)
    BY <2>1 DEF OpToRel
  <2>3. QED
    BY <2>2
<1>3. QED
  BY <1>2

(* older orders any reflectors: of a set that is not empty, one is older   *)
(* than all the others, and First is a member.                             *)
LEMMA FirstIsOldest ==
    ASSUME TypeOK, NEW S, S \subseteq Reflectors, S # {}
    PROVE  First(S, refl) \in S
<1> DEFINE Stamped == {r \in S : refl[r].created # 0}
<1>1. \A r \in S : r \in Nat /\ refl[r].created \in Nat
  BY ReflectorsAssumption, FlagsAssumption DEF TypeOK, Object
<1>2. ASSUME NEW T, T \subseteq S, T # {}
      PROVE  \E r \in T : \A o \in T \ {r} :
                 \/ refl[r].created < refl[o].created
                 \/ refl[r].created = refl[o].created /\ r < o
  <2>1. PICK t \in {refl[r].created : r \in T} :
               \A u \in {refl[r].created : r \in T} : t <= u
    <3>1. {refl[r].created : r \in T} \subseteq Nat
      BY <1>1, <1>2
    <3>2. {refl[r].created : r \in T} # {}
      BY <1>2
    <3>3. QED
      BY <3>1, <3>2, LeastNumber
  <2>2. PICK r \in {o \in T : refl[o].created = t} :
               \A o \in {p \in T : refl[p].created = t} : r <= o
    <3>1. {o \in T : refl[o].created = t} \subseteq Nat
      BY <1>1, <1>2
    <3>2. {o \in T : refl[o].created = t} # {}
      BY <2>1
    <3>3. QED
      BY <3>1, <3>2, LeastNumber
  <2>3. ASSUME NEW o \in T \ {r}
        PROVE  \/ refl[r].created < refl[o].created
               \/ refl[r].created = refl[o].created /\ r < o
    <3>1. /\ r \in Nat /\ o \in Nat /\ t \in Nat /\ refl[o].created \in Nat
          /\ refl[r].created = t
          /\ r # o
      BY <1>1, <1>2, <2>2
    <3>2. t <= refl[o].created
      BY <2>1
    <3>3. CASE refl[o].created = t
      <4>1. r <= o
        BY <2>2, <3>3
      <4>2. QED
        BY <3>1, <3>3, <4>1
    <3>4. QED
      BY <3>1, <3>2, <3>3
  <2>4. QED
    BY <2>2, <2>3
<1>3. \E r \in S : \A o \in S \ {r} : Older(refl, r, o)
  <2>1. CASE Stamped = {}
    <3>1. PICK r \in S : \A o \in S \ {r} :
                 \/ refl[r].created < refl[o].created
                 \/ refl[r].created = refl[o].created /\ r < o
      BY <1>2
    <3>2. \A o \in S : refl[o].created = 0
      BY <2>1
    <3>3. QED
      BY <3>1, <3>2 DEF Older
  <2>2. CASE Stamped # {}
    <3>1. PICK r \in Stamped : \A o \in Stamped \ {r} :
                 \/ refl[r].created < refl[o].created
                 \/ refl[r].created = refl[o].created /\ r < o
      BY <1>2, <2>2
    <3>2. ASSUME NEW o \in S \ {r} PROVE Older(refl, r, o)
      <4>1. CASE o \in Stamped
        <5>1. \/ refl[r].created < refl[o].created
              \/ refl[r].created = refl[o].created /\ r < o
          BY <3>1, <4>1
        <5>2. QED
          BY <1>1, <3>1, <5>1 DEF Older
      <4>2. CASE o \notin Stamped
        BY <3>1, <4>2 DEF Older
      <4>3. QED
        BY <4>1, <4>2
    <3>3. QED
      BY <3>1, <3>2
  <2>3. QED
    BY <2>1, <2>2
<1>4. QED
  BY <1>3 DEF First

(* Whoever is the first of the claimants claims the hostname, and there is *)
(* a first one.                                                            *)
LEMMA FirstClaims == TypeOK => ClaimsComplete
<1> SUFFICES ASSUME TypeOK, NEW h \in Hosts,
                    \/ \E r \in LiveReflectors : h \in refl[r].spec.hosts
                    \/ /\ tunnel[h] # "none"
                       /\ \E r \in LiveReflectors : refl[r].spec.all
             PROVE  \E r \in LiveReflectors : h \in Claimed(r, refl, tunnel)
  BY DEF ClaimsComplete
<1> DEFINE Naming == {r \in LiveReflectors :
                        ~refl[r].spec.all /\ h \in refl[r].spec.hosts}
           Taking == {r \in LiveReflectors : refl[r].spec.all}
<1>1. \A r \in LiveReflectors :
          /\ Live(r, refl) = LiveReflectors
          /\ Explicit(r, refl, h) = Naming
          /\ Everything(r, refl) = Taking
  <2>1. \A r \in LiveReflectors : Live(r, refl) = LiveReflectors
    BY DEF Live, LiveReflectors
  <2>2. QED
    BY <2>1 DEF Explicit, Everything
<1>2. Naming \subseteq Reflectors /\ Taking \subseteq Reflectors
  BY DEF LiveReflectors
<1>3. CASE Naming # {}
  <2>1. First(Naming, refl) \in Naming
    BY <1>2, <1>3, FirstIsOldest
  <2> DEFINE w == First(Naming, refl)
  <2>2. w \in LiveReflectors /\ ~refl[w].spec.all /\ h \in refl[w].spec.hosts
    BY <2>1
  <2>3. First(Explicit(w, refl, h), refl) = w
    BY <1>1, <2>2
  <2> HIDE DEF w
  <2>4. h \in Claimed(w, refl, tunnel)
    BY <2>2, <2>3 DEF Claimed
  <2>5. QED
    BY <2>2, <2>4
<1>4. CASE Naming = {}
  <2>1. ASSUME NEW r \in LiveReflectors, h \in refl[r].spec.hosts PROVE FALSE
    <3>1. refl[r].spec \in Specs
      BY DEF TypeOK, Object, LiveReflectors
    <3>2. CASE refl[r].spec = [all |-> TRUE, hosts |-> {}]
      BY <2>1, <3>2
    <3>3. CASE refl[r].spec \in [all: {FALSE}, hosts: (SUBSET Hosts) \ {{}}]
      BY <1>4, <2>1, <3>3
    <3>4. QED
      BY <3>1, <3>2, <3>3 DEF Specs
  <2>2. tunnel[h] # "none" /\ Taking # {}
    BY <2>1
  <2>3. First(Taking, refl) \in Taking
    BY <1>2, <2>2, FirstIsOldest
  <2> DEFINE w == First(Taking, refl)
  <2>4. w \in LiveReflectors /\ refl[w].spec.all
    BY <2>3
  <2>5. First(Everything(w, refl), refl) = w /\ Explicit(w, refl, h) = {}
    BY <1>1, <1>4, <2>4
  <2> HIDE DEF w
  <2>6. h \in Claimed(w, refl, tunnel)
    BY <2>2, <2>4, <2>5 DEF Claimed, TunnelHosts
  <2>7. QED
    BY <2>4, <2>6
<1>5. QED
  BY <1>3, <1>4

(* On any reflectors and tunnels resolveClaims leaves no wanted hostname   *)
(* unserved: one that some live reflector names, and one that a tunnel has *)
(* while some live reflector takes them all, is claimed by somebody.       *)
THEOREM ClaimsAreComplete == Spec => []ClaimsComplete
  BY ReflectorTypes, FirstClaims, PTL

-----------------------------------------------------------------------------
(* The CoreDNS key and the finalizer *)

(* A pass that moves on, or ends, and leaves objects and keys alone.       *)
LEMMA HeldMove ==
    ASSUME TypeOK, HeldByFinalizer, NoOrphanedOverride,
           refl' = refl, corefile' = corefile,
           \/ rp' = rp
           \/ rp' = Idle
           \/ /\ rp'.r = rp.r /\ rp'.copy = rp.copy
              /\ rp.pc # "idle" /\ rp.copy.fin
              /\ rp'.pc \notin {"start", "drop"}
    PROVE  HeldByFinalizer' /\ NoOrphanedOverride'
<1>1. NoOrphanedOverride'
  BY DEF NoOrphanedOverride
<1>2. HeldByFinalizer'
  BY InitialValues DEF HeldByFinalizer
<1>3. QED
  BY <1>1, <1>2

LEMMA HeldStep ==
    TypeOK /\ HeldByFinalizer /\ NoOrphanedOverride /\ [Next]_vars
        => HeldByFinalizer' /\ NoOrphanedOverride'
<1> SUFFICES ASSUME TypeOK, HeldByFinalizer, NoOrphanedOverride, [Next]_vars
             PROVE  HeldByFinalizer' /\ NoOrphanedOverride'
  OBVIOUS
<1>a. /\ refl \in [Reflectors -> Object]
      /\ corefile \in [Reflectors -> SUBSET Hosts]
      /\ rp \in Pass
      /\ rp.pc # "idle" => me \in Reflectors
  BY DEF TypeOK, me
<1>b. rp.pc \notin {"idle", "start"} => refl[me].fin /\ me \in Reflectors
  BY <1>a DEF HeldByFinalizer, me
<1>1. ASSUME NEW r \in Reflectors, RStart(r)
      PROVE  HeldByFinalizer' /\ NoOrphanedOverride'
  <2>1. rp' = [Idle EXCEPT !.pc = "start", !.r = r, !.copy = refl[r]]
    BY <1>1 DEF RStart
  <2>2. rp'.pc = "start" /\ rp'.r = r /\ rp'.copy = refl[r]
    BY <2>1 DEF Idle
  <2>3. refl' = refl /\ corefile' = corefile
    BY <1>1 DEF RStart
  <2>4. QED
    BY <2>2, <2>3 DEF HeldByFinalizer, NoOrphanedOverride
<1>2. CASE RAddFinalizer
  <2>1. corefile' = corefile /\ rp.pc = "start" /\ rp.copy.phase = "live"
    BY <1>2 DEF RAddFinalizer
  <2>2. CASE refl' = refl /\ rp' = Idle
    BY <2>1, <2>2, HeldMove
  <2>3. CASE refl' = refl /\ rp' = [rp EXCEPT !.pc = "list"] /\ rp.copy.fin
    <3>1. rp'.r = rp.r /\ rp'.copy = rp.copy /\ rp'.pc = "list"
      BY <1>a, <2>3 DEF Pass
    <3>2. QED
      BY <2>1, <2>3, <3>1, HeldMove
  <2>4. CASE /\ refl[me] = rp.copy
             /\ refl' = [refl EXCEPT ![me].fin = TRUE]
             /\ rp' = [rp EXCEPT !.pc = "list", !.copy.fin = TRUE]
    <3>1. \A r \in Reflectors :
             /\ refl'[r].phase = refl[r].phase
             /\ refl'[r].fin = IF r = me THEN TRUE ELSE refl[r].fin
      BY <1>a, <2>4 DEF Object
    <3>2. rp'.r = rp.r /\ rp'.pc = "list" /\ rp'.copy.fin
      BY <1>a, <2>4 DEF Pass, Object
    <3>3. refl[me].phase = "live" /\ me \in Reflectors
      BY <1>a, <2>1, <2>4
    <3>4. HeldByFinalizer'
      BY <3>1, <3>2, <3>3 DEF HeldByFinalizer, me
    <3>5. NoOrphanedOverride'
      BY <2>1, <3>1 DEF NoOrphanedOverride
    <3>6. QED
      BY <3>4, <3>5
  <2>5. QED
    BY <1>2, <2>2, <2>3, <2>4 DEF RAddFinalizer, End
<1>3. CASE RClaim \/ RGate \/ RProxy
  <2>1. refl' = refl /\ corefile' = corefile /\ rp.pc \notin {"idle", "start"}
    BY <1>3 DEF RClaim, RGate, RProxy
  <2>2. /\ rp'.r = rp.r /\ rp'.copy = rp.copy
        /\ rp'.pc \notin {"start", "drop"}
    BY <1>3, StepMoves DEF Moves
  <2>3. rp.copy.fin
    BY <2>1 DEF HeldByFinalizer
  <2>4. QED
    BY <2>1, <2>2, <2>3, HeldMove
<1>4. CASE RSyncDNS
  <2>1. /\ refl' = refl /\ rp.pc = "dns"
        /\ \A r \in Reflectors \ {me} : corefile'[r] = corefile[r]
    BY <1>a, <1>4 DEF RSyncDNS
  <2>2. rp'.r = rp.r /\ rp'.copy = rp.copy /\ rp'.pc = "agent"
    BY <1>4, StepMoves DEF Moves
  <2>3. NoOrphanedOverride'
    BY <1>b, <2>1 DEF NoOrphanedOverride
  <2>4. HeldByFinalizer'
    BY <2>1, <2>2 DEF HeldByFinalizer
  <2>5. QED
    BY <2>3, <2>4
<1>5. CASE RAgent \/ RFail
  BY <1>5, HeldMove DEF RAgent, RFail, End
<1>6. CASE RFinalize
  <2>1. /\ refl' = refl /\ rp.pc = "start" /\ rp.copy.phase = "deleting"
        /\ corefile' = [corefile EXCEPT ![me] = {}]
    BY <1>6 DEF RFinalize
  <2>2. rp'.r = rp.r /\ rp'.copy = rp.copy /\ rp'.pc = "drop"
    BY <1>6, StepMoves DEF Moves
  <2>3. corefile'[me] = {}
        /\ \A r \in Reflectors \ {me} : corefile'[r] = corefile[r]
    BY <1>a, <2>1
  <2>4. NoOrphanedOverride'
    BY <2>1, <2>3 DEF NoOrphanedOverride
  <2>5. HeldByFinalizer'
    BY <2>1, <2>2, <2>3 DEF HeldByFinalizer, me
  <2>6. QED
    BY <2>4, <2>5
<1>7. CASE RDrop
  <2>1. corefile' = corefile /\ rp' = Idle /\ rp.pc = "drop"
    BY <1>7 DEF RDrop, End
  <2>2. CASE refl' = refl
    BY <2>1, <2>2, HeldMove
  <2>3. CASE refl' = [refl EXCEPT ![me] = Absent]
    <3>1. \A r \in Reflectors : refl'[r] = IF r = me THEN Absent ELSE refl[r]
      BY <1>a, <2>3
    <3>2. corefile[me] = {}
      BY <2>1 DEF HeldByFinalizer, me
    <3>3. NoOrphanedOverride'
      BY <2>1, <3>1, <3>2 DEF NoOrphanedOverride
    <3>4. HeldByFinalizer'
      BY <2>1, <3>1, InitialValues DEF HeldByFinalizer
    <3>5. QED
      BY <3>3, <3>4
  <2>4. QED
    BY <1>7, <2>2, <2>3 DEF RDrop
<1>8. ASSUME NEW r \in Reflectors, Create(r) \/ Edit(r) \/ Delete(r)
      PROVE  HeldByFinalizer' /\ NoOrphanedOverride'
  <2>1. corefile' = corefile /\ rp' = rp
    BY <1>8 DEF Create, Edit, Delete
  <2>2. /\ \A o \in Reflectors \ {r} : refl'[o] = refl[o]
        /\ refl'[r].fin = refl[r].fin
        /\ refl'[r].phase = "deleting" => refl'[r].fin
        /\ refl'[r].phase = "absent" => ~refl'[r].fin
    <3>1. CASE Create(r)
      <4>1. PICK spec \in Specs, t \in Stamps :
               refl' = [refl EXCEPT ![r] = [phase |-> "live", fin |-> FALSE,
                                            created |-> t, spec |-> spec]]
        BY <3>1 DEF Create
      <4>2. refl[r].fin = FALSE
        BY <1>a, <3>1 DEF Create, HeldByFinalizer, Object
      <4>3. QED
        BY <1>a, <4>1, <4>2
    <3>2. CASE Edit(r)
      BY <1>a, <3>2 DEF Edit, Object
    <3>3. CASE Delete(r)
      <4>1. refl[r].fin \in BOOLEAN
        BY <1>a DEF Object
      <4>2. CASE refl[r].fin
        <5>1. refl' = [refl EXCEPT ![r] = [refl[r] EXCEPT !.phase = "deleting"]]
          BY <3>3, <4>2 DEF Delete
        <5>2. QED
          BY <1>a, <4>2, <5>1 DEF Object
      <4>3. CASE ~refl[r].fin
        <5>1. refl' = [refl EXCEPT ![r] = Absent]
          BY <3>3, <4>3 DEF Delete
        <5>2. QED
          BY <1>a, <4>1, <4>3, <5>1, InitialValues DEF Absent
      <4>4. QED
        BY <4>2, <4>3
    <3>4. QED
      BY <1>8, <3>1, <3>2, <3>3
  <2>3. NoOrphanedOverride'
    BY <2>1, <2>2 DEF NoOrphanedOverride
  <2>4. \A o \in Reflectors : refl'[o].fin = refl[o].fin
    BY <2>2
  <2>5. HeldByFinalizer'
    BY <1>a, <2>1, <2>2, <2>4 DEF HeldByFinalizer, me
  <2>6. QED
    BY <2>3, <2>5
<1>9. ASSUME NEW r \in Reflectors, ChangeTrust(r) \/ ProxyDies(r) \/ Rollout(r)
      PROVE  HeldByFinalizer' /\ NoOrphanedOverride'
  BY <1>9, HeldMove DEF ChangeTrust, ProxyDies, Rollout
<1>10. ASSUME NEW h \in Hosts, ChangeTunnel(h)
       PROVE  HeldByFinalizer' /\ NoOrphanedOverride'
  BY <1>10, HeldMove DEF ChangeTunnel
<1>11. CASE UNCHANGED vars
  BY <1>11, HeldMove DEF vars
<1>12. QED
  BY <1>1, <1>2, <1>3, <1>4, <1>5, <1>6, <1>7, <1>8, <1>9, <1>10, <1>11
     DEF Next, RSteps, Environment

(* Whatever users do to reflectors, and wherever passes stop, a CoreDNS    *)
(* key never outlives the finalizer that is there to remove it.            *)
THEOREM NoOverrideLeaks == Spec => []NoOrphanedOverride
<1>1. Init => HeldByFinalizer /\ NoOrphanedOverride
  BY InitialValues DEF Init, HeldByFinalizer, NoOrphanedOverride
<1>2. QED
  BY <1>1, ReflectorTypes, HeldStep, PTL DEF Spec
=============================================================================
