---------------------------- MODULE Gateway_proofs ----------------------------
(***************************************************************************)
(* The Gateway controller: no DNSRecord is left behind, and with nothing   *)
(* left to do the tunnels and records are those the Gateways call for.     *)
(* Nothing polls here either, so the second part is shown as for the       *)
(* WeftTunnel controller: of a Gateway nobody has queued, what a pass has  *)
(* seen and done so far is still true, because whatever could make it      *)
(* false queues the Gateway.                                               *)
(***************************************************************************)
EXTENDS GatewayLiveness, FiniteSetTheorems, SequenceTheorems, TLAPS

(* Where the controller reads a parentRef differently from the Gateway API *)
(* nothing depends on it: an HTTPRoute's parentRef without a namespace     *)
(* names Gateways of the route's own namespace only, and no other route    *)
(* names a Gateway of another namespace.                                   *)
NamespacesAgree ==
    \A r \in Routes, g \in Gateways, ref \in ParentRefs :
        /\ ref.name = GatewayName[g]
        /\ ref.ns = IF RouteKind[r] = "HTTP" THEN NoOne ELSE GatewayNs[g]
        => RouteNs[r] = GatewayNs[g]

RoutesHeard == NamespacesAgree /\ "routes" \notin Forgotten

-----------------------------------------------------------------------------
(* Types *)

GatewayObject == [phase: {"absent", "live", "deleting"}, fin: BOOLEAN,
                  listeners: SUBSET Listeners, programmed: BOOLEAN]

RouteObject == [refs: SUBSET ParentRefs, rules: RuleSets]

Tunnel == [owner: {"none", "current", "former"}, src: Backends \cup {NoOne}]

Record == [phase: {"absent", "live", "deleting", "gone"}, taas: TaaSes \cup {NoOne}]

(* What is left of Kinds.                                                  *)
KindsLeft == {Kinds, <<"TCP", "TLS", "UDP">>, <<"TLS", "UDP">>, <<"UDP">>, <<>>}

Left(kinds) == {kinds[i] : i \in 1..Len(kinds)}

KindSet == {"HTTP", "TCP", "TLS", "UDP"}

Things == (Keys \X Backends) \cup Keys \cup Hosts

Steady == {"finalizer", "class", "routes", "prune", "stamp", "status"}

Leaving == {"taas", "records", "drop"}

Pass == [pc: Steady \cup Leaving \cup {"idle", "obsolete"},
         g: Gateways \cup {NoOne}, copy: GatewayObject, fresh: BOOLEAN,
         accepts: BOOLEAN, kinds: KindsLeft, todo: SUBSET Things,
         expected: SUBSET Things, taas: TaaSes \cup {NoOne}]

Types ==
    /\ gw \in [Gateways -> GatewayObject]
    /\ \A g \in Gateways : /\ gw[g].phase = "deleting" => gw[g].fin
                           /\ gw[g].phase = "absent" => ~gw[g].fin
    /\ route \in [Routes -> RouteObject]
    /\ class \in {"absent", "other", "ours", "accepted"}
    /\ taas \subseteq TaaSes
    /\ skipped \subseteq Gateways
    /\ tun \in [Gateways -> [Keys -> Tunnel]]
    /\ rec \in [Gateways -> [Hosts -> Record]]
    /\ queue \subseteq Gateways
    /\ pass \in Pass

(* How far a pass is, and for what Gateway.                                *)
PassTypes ==
    /\ pass.pc # "idle" => pass.g \in Gateways
    /\ pass.pc # "idle" /\ pass.fresh => pass.copy = gw[pass.g]
    /\ pass.pc \in Steady => pass.copy.phase = "live"
    /\ pass.pc \in Leaving => pass.copy.phase = "deleting"
    /\ pass.pc = "obsolete" => pass.copy.phase \in {"live", "deleting"}
    /\ pass.pc \in {"finalizer", "class"} =>
          pass.kinds = Kinds /\ pass.todo = {} /\ pass.expected = {}
    /\ pass.pc = "stamp" =>
          /\ pass.taas \in TaaSes
          /\ \A h \in pass.todo : h \in HostnamesOf(pass.copy.listeners)
    /\ pass.accepts => Managed

-----------------------------------------------------------------------------
(* No orphans *)

(* A Gateway a pass writes for keeps its finalizer; there are no records   *)
(* before there is an AquaductTaaS; what cleanupDNSRecords has still to    *)
(* delete is on its list.                                                  *)
OrphanInv ==
    /\ NoOrphanedRecord
    /\ pass.pc \in (Steady \ {"finalizer"}) \cup {"obsolete"} /\ pass.copy.phase = "live"
          => gw[pass.g].fin
    /\ \A g \in Gateways, h \in Hosts : rec[g][h].phase = "live" => taas # {}
    /\ pass.pc = "stamp" => taas # {}
    /\ pass.pc = "records" => pass.expected = {}
    /\ pass.pc = "obsolete" /\ pass.copy.phase = "deleting" =>
          \A h \in Hosts : rec[pass.g][h].phase = "live" => h \in pass.todo
    /\ pass.pc = "drop" => \A h \in Hosts : rec[pass.g][h].phase # "live"

-----------------------------------------------------------------------------
(* No event missed *)

(* The tunnels the attached routes of kinds K call for.                    *)
Called(K, g) ==
    {w \in Keys \X Backends : \E r \in Routes, l \in gw[g].listeners :
        /\ RouteKind[r] \in K /\ Attached(r, g, l)
        /\ \E b \in route[r].rules : w = <<TunnelKey(r, l, b[1]), b[2]>>}

InPlace(g, w) == tun[g][w[1]].owner = "current" /\ tun[g][w[1]].src = w[2]

TunnelsOk(g) ==
    /\ \A w \in Called(KindSet, g) : InPlace(g, w)
    /\ \A k \in Keys : tun[g][k].owner = "current" =>
          \E w \in Called(KindSet, g) : w[1] = k

RecordOk(g, h) == h \in HostnamesOf(gw[g].listeners)

Stamped(g) ==
    \A h \in Hosts : RecordOk(g, h) => rec[g][h].phase # "absent"

RecordsOk(g) ==
    /\ \A h \in Hosts : rec[g][h].phase = "live" => RecordOk(g, h)
    /\ Stamped(g)

AtRest(g) ==
    /\ RoutesHeard => TunnelsOk(g)
    /\ g \notin skipped /\ Cardinality(taas) = 1 => RecordsOk(g)

Done == KindSet \ Left(pass.kinds)

(* What a pass knows of the tunnels ...                                    *)
KnowsTunnels(g) ==
    /\ pass.pc = "routes" =>
          /\ \A w \in Called(Done, g) \ pass.todo :
                InPlace(g, w) /\ w[1] \in pass.expected
          /\ pass.todo \subseteq Called(Done, g)
          /\ \A k \in pass.expected : \E w \in Called(Done, g) : w[1] = k
    /\ pass.pc = "prune" =>
          /\ \A w \in Called(KindSet, g) : InPlace(g, w)
          /\ \A k \in Keys \ pass.todo : tun[g][k].owner = "current" =>
                \E w \in Called(KindSet, g) : w[1] = k
    /\ pass.pc \in {"stamp", "obsolete", "status"} => TunnelsOk(g)

(* ... and of the records.                                                 *)
KnowsRecords(g) ==
    /\ pass.pc = "stamp" =>
          /\ \A h \in Hosts : h \in pass.expected /\ rec[g][h].phase = "live" =>
                RecordOk(g, h)
          /\ \A h \in Hosts : RecordOk(g, h) =>
                h \in pass.todo \/ rec[g][h].phase # "absent"
    /\ pass.pc = "obsolete" =>
          /\ \A h \in Hosts : rec[g][h].phase = "live" =>
                h \in pass.todo \/ RecordOk(g, h)
          /\ Stamped(g)
    /\ pass.pc = "status" /\ g \notin skipped /\ Cardinality(taas) = 1 => RecordsOk(g)

PassInv(g) ==
    /\ pass.fresh /\ pass.copy = gw[g]
    /\ RoutesHeard => KnowsTunnels(g)
    /\ KnowsRecords(g)

Running(g) == pass.pc # "idle" /\ pass.g = g

Minded(g) == g \notin queue /\ gw[g].phase = "live" /\ Managed

RestInv ==
    \A g \in Gateways : Minded(g) => IF Running(g) THEN PassInv(g) ELSE AtRest(g)

GatewayInv == Types /\ PassTypes /\ RestInv

OneTaaS == \A a, b \in TaaSes : a = b

-----------------------------------------------------------------------------
(* Values and frames *)

LEMMA KindFacts ==
    /\ \A k \in KindsLeft : k # <<>> =>
          /\ Head(k) \in KindSet /\ Tail(k) \in KindsLeft
          /\ Left(k) = {Head(k)} \cup Left(Tail(k))
          /\ Head(k) \notin Left(Tail(k))
    /\ Left(Kinds) = KindSet /\ Left(<<>>) = {}
<1>1. /\ Head(Kinds) = "HTTP" /\ Tail(Kinds) = <<"TCP", "TLS", "UDP">>
      /\ Left(Kinds) = KindSet /\ KindSet = {"HTTP"} \cup {"TCP", "TLS", "UDP"}
  BY DEF Kinds, Left, KindSet
<1>2. /\ Head(<<"TCP", "TLS", "UDP">>) = "TCP"
      /\ Tail(<<"TCP", "TLS", "UDP">>) = <<"TLS", "UDP">>
      /\ Left(<<"TCP", "TLS", "UDP">>) = {"TCP", "TLS", "UDP"}
  BY DEF Left
<1>3. /\ Head(<<"TLS", "UDP">>) = "TLS" /\ Tail(<<"TLS", "UDP">>) = <<"UDP">>
      /\ Left(<<"TLS", "UDP">>) = {"TLS", "UDP"}
  BY DEF Left
<1>4. /\ Head(<<"UDP">>) = "UDP" /\ Tail(<<"UDP">>) = <<>>
      /\ Left(<<"UDP">>) = {"UDP"} /\ Left(<<>>) = {}
  BY DEF Left
<1>5. ASSUME NEW k \in KindsLeft, k # <<>>
      PROVE  /\ Head(k) \in KindSet /\ Tail(k) \in KindsLeft
             /\ Left(k) = {Head(k)} \cup Left(Tail(k))
             /\ Head(k) \notin Left(Tail(k))
  <2>1. CASE k = Kinds
    BY <1>1, <1>2, <2>1 DEF KindsLeft, KindSet
  <2>2. CASE k = <<"TCP", "TLS", "UDP">>
    BY <1>2, <1>3, <2>2 DEF KindsLeft, KindSet
  <2>3. CASE k = <<"TLS", "UDP">>
    BY <1>3, <1>4, <2>3 DEF KindsLeft, KindSet
  <2>4. CASE k = <<"UDP">>
    BY <1>4, <2>4 DEF KindsLeft, KindSet
  <2>5. QED
    BY <1>5, <2>1, <2>2, <2>3, <2>4 DEF KindsLeft
<1>6. QED
  BY <1>1, <1>4, <1>5

LEMMA Values ==
    /\ AbsentGateway \in GatewayObject /\ AbsentGateway.phase = "absent"
    /\ ~AbsentGateway.fin
    /\ NoTunnel \in Tunnel /\ NoTunnel.owner = "none"
    /\ NoRecord \in Record /\ NoRecord.phase = "absent"
    /\ Idle \in Pass /\ Idle.pc = "idle" /\ ~Idle.accepts
<1>1. AbsentGateway \in GatewayObject
  BY DEF AbsentGateway, GatewayObject
<1>2. Kinds \in KindsLeft /\ <<>> \in KindsLeft
  BY DEF KindsLeft
<1>3. Idle \in Pass
  BY <1>1, <1>2 DEF Idle, Pass
<1>4. QED
  BY <1>1, <1>3 DEF AbsentGateway, NoTunnel, Tunnel, NoRecord, Record, Idle

(* What the routes of one kind call for is what createOrUpdateTunnel is    *)
(* given for them.                                                         *)
LEMMA CalledForByIs ==
    ASSUME Types, NEW P \in SUBSET (Routes \X Listeners)
    PROVE  CalledForBy(P) =
              {w \in Keys \X Backends : \E x \in P : \E b \in route[x[1]].rules :
                  w = <<TunnelKey(x[1], x[2], b[1]), b[2]>>}
<1>1. ASSUME NEW x \in P, NEW b \in route[x[1]].rules
      PROVE  <<TunnelKey(x[1], x[2], b[1]), b[2]>> \in Keys \X Backends
  <2>1. x[1] \in Routes /\ x[2] \in Listeners
    OBVIOUS
  <2>2. route[x[1]].rules \in RuleSets
    BY <2>1 DEF Types, RouteObject
  <2>3. b \in Paths \X Backends
    BY <2>2, GatewayAssumption
  <2>4. TunnelKey(x[1], x[2], b[1]) \in Keys
    BY <2>1, <2>3 DEF Keys
  <2>5. QED
    BY <2>3, <2>4
<1>2. ASSUME NEW x \in P, NEW b \in route[x[1]].rules
      PROVE  <<TunnelKey(x[1], x[2], b[1]), b[2]>> \in CalledForBy(P)
  BY DEF CalledForBy
<1>3. ASSUME NEW w \in CalledForBy(P)
      PROVE  \E x \in P : \E b \in route[x[1]].rules :
                w = <<TunnelKey(x[1], x[2], b[1]), b[2]>>
  BY DEF CalledForBy
<1>4. QED
  BY <1>1, <1>2, <1>3

LEMMA WantedCalled ==
    ASSUME Types, NEW kind, NEW g, NEW L \in SUBSET Listeners
    PROVE  Wanted(kind, g, L) =
              {w \in Keys \X Backends : \E r \in Routes, l \in L :
                  /\ RouteKind[r] = kind /\ Attached(r, g, l)
                  /\ \E b \in route[r].rules : w = <<TunnelKey(r, l, b[1]), b[2]>>}
<1>1. PICK P : P = {x \in Routes \X L :
                      RouteKind[x[1]] = kind /\ Attached(x[1], g, x[2])}
  OBVIOUS
<1>2. P \in SUBSET (Routes \X Listeners)
  BY <1>1
<1>3. Wanted(kind, g, L) =
        {w \in Keys \X Backends : \E x \in P : \E b \in route[x[1]].rules :
            w = <<TunnelKey(x[1], x[2], b[1]), b[2]>>}
  BY <1>1, <1>2, CalledForByIs DEF Wanted
<1>4. ASSUME NEW w, NEW r \in Routes, NEW l \in L, RouteKind[r] = kind, Attached(r, g, l),
             NEW b \in route[r].rules, w = <<TunnelKey(r, l, b[1]), b[2]>>
      PROVE  \E x \in P : \E c \in route[x[1]].rules :
                w = <<TunnelKey(x[1], x[2], c[1]), c[2]>>
  <2>1. <<r, l>> \in P
    BY <1>1, <1>4
  <2>2. QED
    BY <1>4, <2>1
<1>5. ASSUME NEW w, NEW x \in P, NEW b \in route[x[1]].rules,
             w = <<TunnelKey(x[1], x[2], b[1]), b[2]>>
      PROVE  \E r \in Routes, l \in L :
                /\ RouteKind[r] = kind /\ Attached(r, g, l)
                /\ \E c \in route[r].rules : w = <<TunnelKey(r, l, c[1]), c[2]>>
  BY <1>1, <1>5
<1>6. QED
  BY <1>3, <1>4, <1>5

(* A write of one tunnel: a change queues the Gateway.                     *)
LEMMA OneTunnel ==
    ASSUME Types, NEW g \in Gateways, NEW k \in Keys, NEW t \in Tunnel,
           SetTunnel(g, k, t)
    PROVE  /\ tun' \in [Gateways -> [Keys -> Tunnel]]
           /\ queue \subseteq queue' /\ queue' \subseteq Gateways
           /\ \A u \in Gateways \ queue' : tun'[u] = tun[u]
           /\ \A u \in Gateways \ {g} : tun'[u] = tun[u]
           /\ g \notin queue' => t = tun[g][k]
<1>1. tun' = [tun EXCEPT ![g][k] = t]
  BY DEF SetTunnel
<1>2. tun \in [Gateways -> [Keys -> Tunnel]] /\ queue \subseteq Gateways
  BY DEF Types
<1>3. /\ queue \subseteq queue' /\ queue' \subseteq Gateways
      /\ g \notin queue' => t = tun[g][k]
  BY <1>2 DEF SetTunnel
<1>4. tun' \in [Gateways -> [Keys -> Tunnel]]
  BY <1>1, <1>2
<1>5. ASSUME NEW u \in Gateways, u # g \/ u \notin queue' PROVE tun'[u] = tun[u]
  <2>1. CASE u # g
    BY <1>1, <1>2, <2>1
  <2>2. CASE u = g
    <3>1. t = tun[g][k]
      BY <1>3, <1>5, <2>2
    <3>2. tun'[g] = [tun[g] EXCEPT ![k] = tun[g][k]]
      BY <1>1, <1>2, <3>1
    <3>3. tun[g] \in [Keys -> Tunnel]
      BY <1>2
    <3>4. QED
      BY <2>2, <3>2, <3>3
  <2>3. QED
    BY <2>1, <2>2
<1>6. QED
  BY <1>3, <1>4, <1>5

(* Nothing the invariant says of g changes, but for records that go.       *)
Calm(g) ==
    /\ gw'[g] = gw[g] /\ tun'[g] = tun[g] /\ taas' = taas
    /\ g \in skipped' <=> g \in skipped
    /\ RoutesHeard => \A K : Called(K, g)' = Called(K, g)
    /\ \A h \in Hosts :
          /\ rec'[g][h].phase = "live" => rec[g][h].phase = "live"
          /\ rec'[g][h].phase = "absent" => rec[g][h].phase = "absent"

LEMMA SameRoutes ==
    ASSUME NEW g \in Gateways, route' = route, gw'[g].listeners = gw[g].listeners
    PROVE  \A K : Called(K, g)' = Called(K, g)
BY DEF Called, Attached

LEMMA SameTunnels ==
    ASSUME NEW g \in Gateways, tun'[g] = tun[g],
           \A K : Called(K, g)' = Called(K, g)
    PROVE  /\ \A w : InPlace(g, w)' <=> InPlace(g, w)
           /\ TunnelsOk(g)' <=> TunnelsOk(g)
           /\ pass' = pass => (KnowsTunnels(g)' <=> KnowsTunnels(g))
<1>1. \A w : InPlace(g, w)' <=> InPlace(g, w)
  BY DEF InPlace
<1>2. TunnelsOk(g)' <=> TunnelsOk(g)
  BY <1>1 DEF TunnelsOk
<1>3. ASSUME pass' = pass PROVE KnowsTunnels(g)' <=> KnowsTunnels(g)
  <2>1. Done' = Done
    BY <1>3 DEF Done, Left
  <2>2. QED
    BY <1>1, <1>2, <1>3, <2>1 DEF KnowsTunnels
<1>4. QED
  BY <1>1, <1>2, <1>3

LEMMA SameRecords ==
    ASSUME NEW g \in Gateways, gw'[g] = gw[g],
           \A h \in Hosts :
              /\ rec'[g][h].phase = "live" => rec[g][h].phase = "live"
              /\ rec'[g][h].phase = "absent" => rec[g][h].phase = "absent"
    PROVE  /\ \A h \in Hosts : RecordOk(g, h)' <=> RecordOk(g, h)
           /\ Stamped(g) => Stamped(g)'
           /\ RecordsOk(g) => RecordsOk(g)'
           /\ pass' = pass /\ taas' = taas /\ (g \in skipped' <=> g \in skipped) =>
                 (KnowsRecords(g) => KnowsRecords(g)')
<1>1. \A h \in Hosts : RecordOk(g, h)' <=> RecordOk(g, h)
  BY DEF RecordOk, HostnamesOf
<1>2. Stamped(g) => Stamped(g)'
  BY <1>1 DEF Stamped
<1>3. RecordsOk(g) => RecordsOk(g)'
  BY <1>1, <1>2 DEF RecordsOk
<1>4. ASSUME pass' = pass, taas' = taas, g \in skipped' <=> g \in skipped, KnowsRecords(g)
      PROVE  KnowsRecords(g)'
  BY <1>1, <1>2, <1>3, <1>4 DEF KnowsRecords
<1>5. QED
  BY <1>1, <1>2, <1>3, <1>4

LEMMA RestKept ==
    ASSUME NEW g \in Gateways, AtRest(g), Calm(g)
    PROVE  AtRest(g)'
<1>1. ASSUME RoutesHeard PROVE TunnelsOk(g)'
  BY <1>1, SameTunnels DEF AtRest, Calm
<1>2. ASSUME g \notin skipped', Cardinality(taas)' = 1 PROVE RecordsOk(g)'
  <2>1. RecordsOk(g)
    BY <1>2 DEF AtRest, Calm
  <2>2. QED
    BY <2>1, SameRecords DEF Calm
<1>3. QED
  BY <1>1, <1>2 DEF AtRest, RoutesHeard, NamespacesAgree

LEMMA PassKept ==
    ASSUME NEW g \in Gateways, PassInv(g), Calm(g), pass' = pass
    PROVE  PassInv(g)'
<1>1. ASSUME RoutesHeard PROVE KnowsTunnels(g)'
  BY <1>1, SameTunnels DEF PassInv, Calm
<1>2. KnowsRecords(g)'
  BY SameRecords DEF PassInv, Calm
<1>3. QED
  BY <1>1, <1>2 DEF PassInv, Calm, RoutesHeard, NamespacesAgree

(* Steps of others.                                                        *)
LEMMA OthersKeep ==
    ASSUME RestInv, \A g \in Gateways : Minded(g)' => Minded(g) /\ Calm(g),
           pass'.pc = pass.pc, pass'.g = pass.g,
           \A g \in Gateways : Minded(g)' /\ g = pass.g => pass' = pass
    PROVE  RestInv'
<1> SUFFICES ASSUME NEW g \in Gateways, Minded(g)'
             PROVE  IF Running(g)' THEN PassInv(g)' ELSE AtRest(g)'
  BY DEF RestInv
<1>1. Calm(g) /\ IF Running(g) THEN PassInv(g) ELSE AtRest(g)
  BY DEF RestInv
<1>2. Running(g)' <=> Running(g)
  BY DEF Running
<1>3. CASE Running(g)
  <2>1. pass' = pass
    BY <1>3 DEF Running
  <2>2. QED
    BY <1>1, <1>2, <1>3, <2>1, PassKept
<1>4. CASE ~Running(g)
  BY <1>1, <1>2, <1>4, RestKept
<1>5. QED
  BY <1>3, <1>4

(* A step of a pass that goes on: what it knows of its own Gateway is to   *)
(* be shown.                                                               *)
LEMMA WithinPass ==
    ASSUME RestInv, \A g \in Gateways : Minded(g)' => Minded(g),
           \A g \in Gateways : Minded(g)' /\ g # pass.g => Calm(g),
           pass'.pc # "idle", pass'.g = pass.g,
           \A g \in Gateways : Minded(g)' /\ g = pass.g => PassInv(g)'
    PROVE  RestInv'
<1> SUFFICES ASSUME NEW g \in Gateways, Minded(g)'
             PROVE  IF Running(g)' THEN PassInv(g)' ELSE AtRest(g)'
  BY DEF RestInv
<1>1. Running(g)' <=> g = pass.g
  BY DEF Running
<1>2. CASE g = pass.g
  BY <1>1, <1>2
<1>3. CASE g # pass.g
  <2>1. Calm(g) /\ AtRest(g)
    BY <1>3 DEF RestInv, Running
  <2>2. QED
    BY <1>1, <1>3, <2>1, RestKept
<1>4. QED
  BY <1>2, <1>3

(* The end of a pass.                                                      *)
LEMMA PassEnds ==
    ASSUME RestInv, \A g \in Gateways : Minded(g)' => Minded(g),
           \A g \in Gateways : Minded(g)' /\ g # pass.g => Calm(g),
           pass' = Idle,
           \A g \in Gateways : Minded(g)' /\ g = pass.g => AtRest(g)'
    PROVE  RestInv'
<1> SUFFICES ASSUME NEW g \in Gateways, Minded(g)'
             PROVE  IF Running(g)' THEN PassInv(g)' ELSE AtRest(g)'
  BY DEF RestInv
<1>1. ~Running(g)'
  <2>1. pass'.pc = "idle"
    BY Values
  <2>2. QED
    BY <2>1 DEF Running
<1>2. CASE g = pass.g
  BY <1>1, <1>2
<1>3. CASE g # pass.g
  <2>1. Calm(g) /\ AtRest(g)
    BY <1>3 DEF RestInv, Running
  <2>2. QED
    BY <1>1, <2>1, RestKept
<1>4. QED
  BY <1>2, <1>3

(* An error queues the Gateway again.                                      *)
LEMMA RetryKeeps ==
    ASSUME GatewayInv, pass.pc # "idle", Retry,
           UNCHANGED <<gw, route, class, taas, skipped, tun, rec>>
    PROVE  GatewayInv' /\ (OrphanInv => OrphanInv')
<1>1. pass.g \in Gateways /\ queue \subseteq Gateways
  BY DEF GatewayInv, Types, PassTypes
<1>2. queue' = queue \cup {pass.g} /\ pass' = Idle /\ pass'.pc = "idle"
      /\ ~pass'.accepts
  BY Values DEF Retry, pg
<1>3. Types' /\ PassTypes'
  BY <1>1, <1>2, Values DEF GatewayInv, Types, PassTypes, Steady, Leaving
<1>4. \A g \in Gateways : Minded(g)' => Minded(g) /\ g # pass.g
  BY <1>2 DEF Minded, Managed
<1>5. \A g \in Gateways : Calm(g)
  BY SameRoutes DEF Calm
<1>6. RestInv'
  BY <1>2, <1>4, <1>5, PassEnds DEF GatewayInv
<1>7. ASSUME OrphanInv PROVE OrphanInv'
  BY <1>2, <1>7 DEF OrphanInv, NoOrphanedRecord, Steady
<1>8. QED
  BY <1>3, <1>6, <1>7 DEF GatewayInv

LEMMA TakeKeeps ==
    ASSUME GatewayInv, NEW g \in Gateways, Take(g)
    PROVE  GatewayInv' /\ (OrphanInv => OrphanInv')
<1>a. /\ gw \in [Gateways -> GatewayObject] /\ gw[g] \in GatewayObject
      /\ queue \subseteq Gateways /\ pass.pc = "idle"
      /\ class \in {"absent", "other", "ours", "accepted"}
  BY DEF GatewayInv, Types, Take
<1>b. UNCHANGED <<gw, route, class, taas, skipped, tun, rec>>
  BY DEF Take
<1>c. \A u \in Gateways : Calm(u)
  BY <1>b, SameRoutes DEF Calm
<1>1. ASSUME queue' = queue \ {g}, pass' = Idle,
             gw[g].phase = "absent" \/ class = "other"
      PROVE  GatewayInv' /\ (OrphanInv => OrphanInv')
  <2>1. pass'.pc = "idle" /\ ~pass'.accepts
    BY <1>1, Values
  <2>2. Types' /\ PassTypes'
    BY <1>a, <1>b, <1>1, <2>1, Values DEF GatewayInv, Types, PassTypes, Steady, Leaving
  <2>3. \A u \in Gateways : Minded(u)' => Minded(u) /\ ~Running(u) /\ ~Running(u)'
    BY <1>a, <1>b, <1>1, <2>1 DEF Minded, Managed, Running
  <2>4. RestInv'
    BY <1>c, <2>3, RestKept DEF GatewayInv, RestInv
  <2>5. ASSUME OrphanInv PROVE OrphanInv'
    BY <1>b, <2>1, <2>5 DEF OrphanInv, NoOrphanedRecord, Steady
  <2>6. QED
    BY <2>2, <2>4, <2>5 DEF GatewayInv
<1>2. ASSUME UNCHANGED <<queue, pass>>
      PROVE  GatewayInv' /\ (OrphanInv => OrphanInv')
  <2>1. Types' /\ PassTypes'
    BY <1>b, <1>2 DEF GatewayInv, Types, PassTypes, Managed, HostnamesOf
  <2>2. \A u \in Gateways : Minded(u)' => Minded(u)
    BY <1>b, <1>2 DEF Minded, Managed
  <2>3. RestInv'
    BY <1>2, <1>c, <2>2, OthersKeep DEF GatewayInv
  <2>4. ASSUME OrphanInv PROVE OrphanInv'
    BY <1>b, <1>2, <2>4 DEF OrphanInv, NoOrphanedRecord
  <2>5. QED
    BY <2>1, <2>3, <2>4 DEF GatewayInv
<1>3. ASSUME NEW pc \in {"taas", "class", "finalizer"}, queue' = queue \ {g}, Managed,
             pass' = [Idle EXCEPT !.pc = pc, !.g = g, !.copy = gw[g],
                                  !.accepts = class = "ours", !.kinds = Kinds],
             gw[g].phase = IF pc = "taas" THEN "deleting" ELSE "live",
             pc = "class" => gw[g].fin
      PROVE  GatewayInv' /\ (OrphanInv => OrphanInv')
  <2>1. PICK a \in BOOLEAN : a = (class = "ours")
    OBVIOUS
  <2>2. Kinds \in KindsLeft
    BY DEF KindsLeft
  <2>3. PICK c \in GatewayObject : c = gw[g]
    BY <1>a
  <2>4. PICK k \in KindsLeft : k = Kinds
    BY <2>2
  <2>5. pass' = [pc |-> pc, g |-> g, copy |-> c, fresh |-> TRUE,
                 accepts |-> a, kinds |-> k, todo |-> {}, expected |-> {},
                 taas |-> NoOne]
    BY <1>3, <2>1, <2>3, <2>4 DEF Idle
  <2>6. /\ pass' \in Pass /\ pass'.pc = pc /\ pass'.g = g /\ pass'.copy = gw[g]
        /\ pass'.fresh /\ pass'.kinds = Kinds /\ pass'.todo = {}
        /\ pass'.expected = {}
    BY <2>3, <2>4, <2>5 DEF Pass, Steady, Leaving
  <2>7. Types' /\ PassTypes'
    BY <1>a, <1>b, <1>3, <2>6 DEF GatewayInv, Types, PassTypes, Managed, Steady, Leaving
  <2>8. ASSUME NEW u \in Gateways, Minded(u)', u # g PROVE AtRest(u)' /\ ~Running(u)'
    <3>1. Minded(u) /\ ~Running(u) /\ ~Running(u)'
      BY <1>a, <1>b, <1>3, <2>6, <2>8 DEF Minded, Managed, Running
    <3>2. QED
      BY <1>c, <3>1, RestKept DEF GatewayInv, RestInv
  <2>9. ASSUME Minded(g)' PROVE PassInv(g)' /\ Running(g)'
    <3>1. pc # "taas"
      BY <1>b, <1>3, <2>9 DEF Minded
    <3>2. QED
      BY <1>b, <2>6, <3>1 DEF PassInv, KnowsTunnels, KnowsRecords, Running
  <2>10. RestInv'
    BY <2>8, <2>9 DEF RestInv
  <2>11. ASSUME OrphanInv PROVE OrphanInv'
    BY <1>b, <1>3, <2>6, <2>11 DEF OrphanInv, NoOrphanedRecord, Steady
  <2>12. QED
    BY <2>7, <2>10, <2>11 DEF GatewayInv
<1>4. CASE gw[g].phase = "deleting" /\ Managed
  <2>1. queue' = queue \ {g}
        /\ pass' = [Idle EXCEPT !.pc = "taas", !.g = g, !.copy = gw[g],
                                !.accepts = class = "ours", !.kinds = Kinds]
    BY <1>4 DEF Take, Managed
  <2>2. QED
    BY <1>3, <1>4, <2>1
<1>5. CASE gw[g].phase = "live" /\ Managed
  <2>1. PICK pc \in {"class", "finalizer"} :
          pc = IF gw[g].fin THEN "class" ELSE "finalizer"
    OBVIOUS
  <2>2. queue' = queue \ {g}
        /\ pass' = [Idle EXCEPT !.pc = pc, !.g = g, !.copy = gw[g],
                                !.accepts = class = "ours", !.kinds = Kinds]
    BY <1>5, <2>1 DEF Take, Managed
  <2>3. QED
    BY <1>3, <1>5, <2>1, <2>2
<1>6. CASE gw[g].phase = "absent" \/ ~Managed
  <2>1. \/ queue' = queue \ {g} /\ pass' = Idle
           /\ (gw[g].phase = "absent" \/ class = "other")
        \/ UNCHANGED <<queue, pass>>
    BY <1>a, <1>6 DEF Take, Managed
  <2>2. QED
    BY <1>1, <1>2, <2>1
<1>7. QED
  BY <1>a, <1>4, <1>5, <1>6 DEF GatewayObject

(* A step that changes nothing but the pass.                               *)
LEMMA PassMoves ==
    ASSUME GatewayInv, UNCHANGED <<gw, route, class, taas, skipped, tun, rec, queue>>,
           pass' \in Pass, pass'.pc # "idle", pass'.g = pass.g, PassTypes',
           \A g \in Gateways : Minded(g) /\ g = pass.g => PassInv(g)'
    PROVE  GatewayInv'
<1>1. Types'
  BY DEF GatewayInv, Types
<1>2. \A g \in Gateways : (Minded(g)' <=> Minded(g)) /\ Calm(g)
  BY SameRoutes DEF Minded, Managed, Calm
<1>3. RestInv'
  BY <1>2, WithinPass DEF GatewayInv
<1>4. QED
  BY <1>1, <1>3 DEF GatewayInv

(* A step of a pass that changes nothing but its Gateway's records and     *)
(* whether they were skipped.                                              *)
LEMMA PassMovesOn ==
    ASSUME GatewayInv, UNCHANGED <<gw, route, class, taas, tun, queue>>,
           rec' \in [Gateways -> [Hosts -> Record]], skipped' \subseteq Gateways,
           \A u \in Gateways : u # pass.g =>
              rec'[u] = rec[u] /\ (u \in skipped' <=> u \in skipped),
           pass' \in Pass, pass'.pc # "idle", pass'.g = pass.g, PassTypes',
           \A g \in Gateways : Minded(g) /\ g = pass.g => PassInv(g)'
    PROVE  GatewayInv'
<1>1. Types'
  BY DEF GatewayInv, Types
<1>2. \A g \in Gateways : Minded(g)' <=> Minded(g)
  BY DEF Minded, Managed
<1>3. \A g \in Gateways : g # pass.g => Calm(g)
  BY SameRoutes DEF Calm
<1>4. RestInv'
  BY <1>2, <1>3, WithinPass DEF GatewayInv
<1>5. QED
  BY <1>1, <1>4 DEF GatewayInv

(* What a pass that moves on from one list to the next knows already.      *)
LEMMA StillKnown ==
    ASSUME NEW g \in Gateways, UNCHANGED <<gw, route, taas, tun, rec>>
    PROVE  /\ \A K : Called(K, g)' = Called(K, g)
           /\ \A w : InPlace(g, w)' <=> InPlace(g, w)
           /\ TunnelsOk(g)' <=> TunnelsOk(g)
           /\ \A h \in Hosts : RecordOk(g, h)' <=> RecordOk(g, h)
           /\ Stamped(g) => Stamped(g)'
           /\ RecordsOk(g) => RecordsOk(g)'
BY SameRoutes, SameTunnels, SameRecords

LEMMA AddFinalizerKeeps ==
    ASSUME GatewayInv, AddFinalizer
    PROVE  GatewayInv' /\ (OrphanInv => OrphanInv')
<1>a. /\ pass \in Pass /\ pass.pc = "finalizer" /\ queue \subseteq Gateways
      /\ gw \in [Gateways -> GatewayObject] /\ pass.copy \in GatewayObject
      /\ pass.copy.phase = "live" /\ pass.kinds = Kinds /\ pass.todo = {}
      /\ pass.expected = {}
  BY DEF GatewayInv, Types, PassTypes, Pass, AddFinalizer, Steady
<1>b. UNCHANGED <<route, class, taas, skipped, tun, rec>>
  BY DEF AddFinalizer
<1>c. PICK g \in Gateways : g = pass.g
  BY <1>a DEF GatewayInv, PassTypes
<1>1. CASE Retry /\ UNCHANGED gw
  BY <1>a, <1>b, <1>1, RetryKeeps
<1>2. CASE /\ pass.fresh /\ gw' = [gw EXCEPT ![pg].fin = TRUE]
           /\ pass' = [pass EXCEPT !.pc = "class", !.copy.fin = TRUE]
           /\ queue' = queue \cup {pg}
  <2>1. PICK v : v = [gw[g] EXCEPT !.fin = TRUE]
    OBVIOUS
  <2>2. gw[g] \in GatewayObject
    BY <1>a
  <2>3. /\ v \in GatewayObject /\ v.fin /\ v.phase = gw[g].phase
        /\ v.listeners = gw[g].listeners
    BY <2>1, <2>2 DEF GatewayObject
  <2>4. gw' = [gw EXCEPT ![g] = v]
    BY <1>a, <1>c, <1>2, <2>1 DEF pg
  <2>5. PICK c : c = [pass.copy EXCEPT !.fin = TRUE]
    OBVIOUS
  <2>6. c \in GatewayObject /\ c.phase = "live"
    BY <1>a, <2>5 DEF GatewayObject
  <2>7. pass' = [pass EXCEPT !.pc = "class", !.copy = c]
    BY <1>a, <1>2, <2>5 DEF Pass
  <2>8. /\ pass' \in Pass /\ pass'.pc = "class" /\ pass'.g = g
        /\ pass'.copy.phase = "live" /\ pass'.kinds = Kinds
        /\ pass'.todo = {} /\ pass'.expected = {}
        /\ pass'.accepts = pass.accepts
    BY <1>a, <1>c, <2>6, <2>7 DEF Pass, Steady
  <2>9. \A u \in Gateways : gw'[u] = IF u = g THEN v ELSE gw[u]
    BY <1>a, <2>4
  <2>10. queue' = queue \cup {g}
    BY <1>c, <1>2 DEF pg
  <2>11. gw[g] = pass.copy
    BY <1>a, <1>c, <1>2 DEF GatewayInv, PassTypes
  <2>12. v = c
    BY <2>1, <2>5, <2>11
  <2>13. gw' \in [Gateways -> GatewayObject]
    BY <1>a, <2>3, <2>4
  <2>14. Types'
    BY <1>a, <1>b, <2>3, <2>8, <2>9, <2>10, <2>11, <2>13 DEF GatewayInv, Types
  <2>15. PassTypes'
    BY <1>b, <2>6, <2>7, <2>8, <2>9, <2>12
       DEF GatewayInv, PassTypes, Pass, Managed, Steady, Leaving
  <2>16. \A u \in Gateways : Minded(u)' => Minded(u) /\ u # g /\ Calm(u)
    BY <1>b, <2>9, <2>10, SameRoutes DEF Minded, Managed, Calm
  <2>17. RestInv'
    BY <1>c, <2>8, <2>16, WithinPass DEF GatewayInv
  <2>18. ASSUME OrphanInv PROVE OrphanInv'
    BY <1>b, <2>3, <2>8, <2>9, <2>18 DEF OrphanInv, NoOrphanedRecord, Steady
  <2>19. QED
    BY <2>14, <2>15, <2>17, <2>18 DEF GatewayInv
<1>3. QED
  BY <1>1, <1>2 DEF AddFinalizer

LEMMA AcceptClassKeeps ==
    ASSUME GatewayInv, AcceptClass
    PROVE  GatewayInv' /\ (OrphanInv => OrphanInv')
<1>a. /\ pass \in Pass /\ pass.pc = "class" /\ queue \subseteq Gateways
      /\ pass.copy.phase = "live" /\ pass.kinds = Kinds /\ pass.todo = {}
      /\ pass.expected = {}
  BY DEF GatewayInv, Types, PassTypes, AcceptClass, Steady
<1>b. UNCHANGED <<gw, route, taas, skipped, tun, rec>>
  BY DEF AcceptClass
<1>c. PICK g \in Gateways : g = pass.g
  BY <1>a DEF GatewayInv, PassTypes
<1>1. pass' = [pass EXCEPT !.pc = "routes"]
  BY DEF AcceptClass
<1>2. /\ pass' \in Pass /\ pass'.pc = "routes" /\ pass'.g = pass.g
      /\ pass'.copy = pass.copy /\ pass'.kinds = Kinds /\ pass'.fresh = pass.fresh
      /\ pass'.todo = {} /\ pass'.expected = {} /\ pass'.accepts = pass.accepts
  BY <1>a, <1>1 DEF Pass, Steady
<1>3. ASSUME OrphanInv PROVE OrphanInv'
  BY <1>a, <1>b, <1>2, <1>3 DEF OrphanInv, NoOrphanedRecord, Steady
<1>4. CASE pass.accepts
  <2>1. class' = "accepted" /\ queue' = queue \cup FindGatewaysForClass
    BY <1>4 DEF AcceptClass
  <2>2. queue' \subseteq Gateways
    BY <1>a, <2>1 DEF FindGatewaysForClass
  <2>3. Types'
    BY <1>b, <1>2, <2>1, <2>2 DEF GatewayInv, Types
  <2>4. PassTypes'
    BY <1>a, <1>b, <1>2, <2>1 DEF GatewayInv, PassTypes, Managed, Steady, Leaving
  <2>5. \A u \in Gateways : ~Minded(u)'
    BY <1>b, <2>1 DEF Minded, FindGatewaysForClass
  <2>6. RestInv'
    BY <2>5 DEF RestInv
  <2>7. QED
    BY <1>3, <2>3, <2>4, <2>6 DEF GatewayInv
<1>5. CASE ~pass.accepts
  <2>1. UNCHANGED <<class, queue>>
    BY <1>5 DEF AcceptClass
  <2>2. PassTypes'
    BY <1>a, <1>b, <1>2, <2>1 DEF GatewayInv, PassTypes, Managed, Steady, Leaving
  <2>3. ASSUME Minded(g) PROVE PassInv(g)'
    <3>1. PassInv(g)
      BY <1>a, <1>c, <2>3 DEF GatewayInv, RestInv, Running
    <3>2. Done' = {}
      BY <1>2, KindFacts DEF Done
    <3>3. Called(Done, g)' = {}
      BY <3>2 DEF Called
    <3>4. QED
      BY <1>b, <1>2, <3>1, <3>3 DEF PassInv, KnowsTunnels, KnowsRecords
  <2>4. GatewayInv'
    BY <1>b, <1>c, <1>2, <2>1, <2>2, <2>3, PassMoves
  <2>5. QED
    BY <1>3, <2>4
<1>6. QED
  BY <1>4, <1>5

LEMMA ListRoutesKeeps ==
    ASSUME GatewayInv, ListRoutes
    PROVE  GatewayInv' /\ (OrphanInv => OrphanInv')
<1>a. /\ pass \in Pass /\ pass.pc = "routes" /\ pass.todo = {}
      /\ pass.kinds \in KindsLeft /\ pass.kinds # <<>>
      /\ pass.copy.phase = "live" /\ pass.copy.listeners \subseteq Listeners
  BY DEF GatewayInv, Types, PassTypes, Pass, GatewayObject, ListRoutes, Steady
<1>b. UNCHANGED <<gw, route, class, taas, skipped, tun, rec, queue>>
  BY DEF ListRoutes
<1>c. PICK g \in Gateways : g = pass.g
  BY <1>a DEF GatewayInv, PassTypes
<1>1. PICK W : W = Wanted(Head(pass.kinds), g, pass.copy.listeners)
  OBVIOUS
<1>2. W = {w \in Keys \X Backends : \E r \in Routes, l \in pass.copy.listeners :
              /\ RouteKind[r] = Head(pass.kinds) /\ Attached(r, g, l)
              /\ \E b \in route[r].rules : w = <<TunnelKey(r, l, b[1]), b[2]>>}
  BY <1>a, <1>1, WantedCalled DEF GatewayInv
<1>3. W \in SUBSET Things
  BY <1>2 DEF Things
<1>4. PICK K \in KindsLeft : K = Tail(pass.kinds)
  BY <1>a, KindFacts
<1>5. pass' = [pass EXCEPT !.kinds = K, !.todo = W]
  BY <1>c, <1>1, <1>4 DEF ListRoutes, pg
<1>6. /\ pass' \in Pass /\ pass'.pc = "routes" /\ pass'.g = pass.g
      /\ pass'.copy = pass.copy /\ pass'.kinds = K /\ pass'.fresh = pass.fresh
      /\ pass'.todo = W /\ pass'.expected = pass.expected
      /\ pass'.accepts = pass.accepts
  BY <1>a, <1>3, <1>5 DEF Pass
<1>7. PassTypes'
  BY <1>a, <1>b, <1>6 DEF GatewayInv, PassTypes, Managed, Steady, Leaving
<1>8. ASSUME OrphanInv PROVE OrphanInv'
  BY <1>a, <1>b, <1>6, <1>8 DEF OrphanInv, NoOrphanedRecord, Steady
<1>9. ASSUME Minded(g) PROVE PassInv(g)'
  <2>1. PassInv(g) /\ pass.copy = gw[g]
    BY <1>a, <1>c, <1>9 DEF GatewayInv, RestInv, Running, PassInv
  <2>2. /\ \A C : Called(C, g)' = Called(C, g)
        /\ \A w : InPlace(g, w)' <=> InPlace(g, w)
    BY <1>b, StillKnown
  <2>3. Done' = Done \cup {Head(pass.kinds)}
    <3>1. Left(pass.kinds) = {Head(pass.kinds)} \cup Left(K)
      BY <1>a, <1>4, KindFacts
    <3>2. Head(pass.kinds) \in KindSet
      BY <1>a, KindFacts
    <3>3. Left(K) \cap {Head(pass.kinds)} = {}
      BY <1>a, <1>4, KindFacts
    <3>4. QED
      BY <1>6, <3>1, <3>2, <3>3 DEF Done
  <2>4. Called(Done', g) = Called(Done, g) \cup W
    BY <1>2, <2>1, <2>3 DEF Called
  <2>5. ASSUME RoutesHeard PROVE KnowsTunnels(g)'
    <3>1. /\ \A w \in Called(Done, g) : InPlace(g, w) /\ w[1] \in pass.expected
          /\ \A k \in pass.expected : \E w \in Called(Done, g) : w[1] = k
      BY <1>a, <2>1, <2>5 DEF PassInv, KnowsTunnels
    <3>2. Called(Done, g)' = Called(Done, g) \cup W
      BY <2>2, <2>4
    <3>3. QED
      BY <1>6, <2>2, <3>1, <3>2 DEF KnowsTunnels
  <2>6. QED
    BY <1>b, <1>6, <2>1, <2>5 DEF PassInv, KnowsRecords, RoutesHeard, NamespacesAgree
<1>10. GatewayInv'
  BY <1>b, <1>c, <1>6, <1>7, <1>9, PassMoves
<1>11. QED
  BY <1>8, <1>10

LEMMA UpsertTunnelKeeps ==
    ASSUME GatewayInv, NEW w \in Keys \X Backends, UpsertTunnel(w)
    PROVE  GatewayInv' /\ (OrphanInv => OrphanInv')
<1>a. /\ pass \in Pass /\ pass.pc = "routes" /\ w \in pass.todo
      /\ Types /\ tun \in [Gateways -> [Keys -> Tunnel]]
      /\ w[1] \in Keys /\ w[2] \in Backends
      /\ pass.todo \subseteq Things /\ pass.expected \subseteq Things
  BY DEF GatewayInv, Types, Pass, UpsertTunnel
<1>b. UNCHANGED <<gw, route, class, taas, skipped, rec>>
  BY DEF UpsertTunnel
<1>c. PICK g \in Gateways : g = pass.g
  BY <1>a DEF GatewayInv, PassTypes
<1>1. CASE Retry /\ UNCHANGED tun
  BY <1>a, <1>b, <1>1, RetryKeeps
<1>2. CASE /\ SetTunnel(g, w[1], [owner |-> "current", src |-> w[2]])
           /\ pass' = [pass EXCEPT !.todo = @ \ {w}, !.expected = @ \cup {w[1]}]
  <2>1. PICK t : t = [owner |-> "current", src |-> w[2]]
    OBVIOUS
  <2>2. t \in Tunnel /\ t.owner = "current" /\ t.src = w[2]
    BY <1>a, <2>1 DEF Tunnel
  <2>3. /\ tun' \in [Gateways -> [Keys -> Tunnel]]
        /\ queue \subseteq queue' /\ queue' \subseteq Gateways
        /\ \A u \in Gateways \ queue' : tun'[u] = tun[u]
        /\ g \notin queue' => t = tun[g][w[1]]
    BY <1>a, <1>2, <2>1, <2>2, OneTunnel
  <2>4. PICK D \in SUBSET Things : D = pass.todo \ {w}
    BY <1>a
  <2>5. PICK X \in SUBSET Things : X = pass.expected \cup {w[1]}
    BY <1>a DEF Things
  <2>6. pass' = [pass EXCEPT !.todo = D, !.expected = X]
    BY <1>2, <2>4, <2>5
  <2>7. /\ pass' \in Pass /\ pass'.pc = "routes" /\ pass'.g = pass.g
        /\ pass'.copy = pass.copy /\ pass'.kinds = pass.kinds
        /\ pass'.fresh = pass.fresh /\ pass'.todo = D /\ pass'.expected = X
        /\ pass'.accepts = pass.accepts
    BY <1>a, <2>6 DEF Pass
  <2>8. Types'
    BY <1>a, <1>b, <2>3, <2>7 DEF Types
  <2>9. PassTypes'
    BY <1>a, <1>b, <2>7 DEF GatewayInv, PassTypes, Managed, Steady, Leaving
  <2>10. ASSUME OrphanInv PROVE OrphanInv'
    BY <1>a, <1>b, <2>7, <2>10 DEF OrphanInv, NoOrphanedRecord, Steady
  <2>11. \A u \in Gateways : Minded(u)' => Minded(u) /\ Calm(u)
    <3>1. \A u \in Gateways : Minded(u)' => Minded(u) /\ u \notin queue'
      BY <1>b, <2>3 DEF Minded, Managed
    <3>2. QED
      BY <1>b, <2>3, <3>1, SameRoutes DEF Calm
  <2>12. ASSUME Minded(g)' PROVE PassInv(g)'
    <3>1. PassInv(g) /\ Calm(g) /\ t = tun[g][w[1]]
      BY <1>a, <1>c, <2>3, <2>11, <2>12 DEF GatewayInv, RestInv, Running, Minded
    <3>2. InPlace(g, w)
      BY <2>2, <3>1 DEF InPlace
    <3>3. Done' = Done
      BY <2>7 DEF Done, Left
    <3>4. ASSUME RoutesHeard PROVE KnowsTunnels(g)'
      <4>1. /\ \A C : Called(C, g)' = Called(C, g)
            /\ \A v : InPlace(g, v)' <=> InPlace(g, v)
        BY <3>1, <3>4, SameTunnels DEF Calm
      <4>2. /\ \A v \in Called(Done, g) \ pass.todo :
                  InPlace(g, v) /\ v[1] \in pass.expected
            /\ pass.todo \subseteq Called(Done, g)
            /\ \A k \in pass.expected : \E v \in Called(Done, g) : v[1] = k
        BY <1>a, <3>1, <3>4 DEF PassInv, KnowsTunnels
      <4>3. \A v \in Called(Done, g) \ D : InPlace(g, v) /\ v[1] \in X
        BY <2>4, <2>5, <3>2, <4>2
      <4>4. \A k \in X : \E v \in Called(Done, g) : v[1] = k
        BY <1>a, <2>5, <4>2
      <4>5. D \subseteq Called(Done, g)
        BY <2>4, <4>2
      <4>6. Called(Done, g)' = Called(Done, g)
        BY <3>3, <4>1
      <4>7. QED
        BY <2>7, <4>1, <4>3, <4>4, <4>5, <4>6 DEF KnowsTunnels
    <3>5. QED
      BY <1>b, <2>7, <3>1, <3>4 DEF PassInv, KnowsRecords, RoutesHeard, NamespacesAgree
  <2>13. RestInv'
    BY <1>c, <2>7, <2>11, <2>12, WithinPass DEF GatewayInv
  <2>14. QED
    BY <2>8, <2>9, <2>10, <2>13 DEF GatewayInv
<1>3. QED
  BY <1>1, <1>2, <1>c DEF UpsertTunnel, pg

LEMMA ListTunnelsKeeps ==
    ASSUME GatewayInv, ListTunnels
    PROVE  GatewayInv' /\ (OrphanInv => OrphanInv')
<1>a. /\ pass \in Pass /\ pass.pc = "routes" /\ pass.todo = {} /\ pass.kinds = <<>>
  BY DEF GatewayInv, Types, ListTunnels
<1>b. UNCHANGED <<gw, route, class, taas, skipped, tun, rec, queue>>
  BY DEF ListTunnels
<1>c. PICK g \in Gateways : g = pass.g
  BY <1>a DEF GatewayInv, PassTypes
<1>1. PICK O : O = {k \in Keys : tun[g][k].owner = "current"} \ pass.expected
  OBVIOUS
<1>2. O \in SUBSET Things
  BY <1>1 DEF Things
<1>3. pass' = [pass EXCEPT !.pc = "prune", !.todo = O]
  BY <1>c, <1>1 DEF ListTunnels, pg
<1>4. /\ pass' \in Pass /\ pass'.pc = "prune" /\ pass'.g = pass.g
      /\ pass'.copy = pass.copy /\ pass'.fresh = pass.fresh
      /\ pass'.todo = O /\ pass'.accepts = pass.accepts
  BY <1>a, <1>2, <1>3 DEF Pass, Steady
<1>5. PassTypes'
  BY <1>a, <1>b, <1>4 DEF GatewayInv, PassTypes, Managed, Steady, Leaving
<1>6. ASSUME OrphanInv PROVE OrphanInv'
  BY <1>a, <1>b, <1>4, <1>6 DEF OrphanInv, NoOrphanedRecord, GatewayInv, PassTypes, Steady
<1>7. ASSUME Minded(g) PROVE PassInv(g)'
  <2>1. PassInv(g)
    BY <1>a, <1>c, <1>7 DEF GatewayInv, RestInv, Running
  <2>2. /\ \A C : Called(C, g)' = Called(C, g)
        /\ \A w : InPlace(g, w)' <=> InPlace(g, w)
    BY <1>b, StillKnown
  <2>3. ASSUME RoutesHeard PROVE KnowsTunnels(g)'
    <3>1. Done = KindSet
      BY <1>a, KindFacts DEF Done
    <3>2. /\ \A w \in Called(KindSet, g) : InPlace(g, w)
          /\ \A k \in pass.expected : \E w \in Called(KindSet, g) : w[1] = k
      BY <1>a, <2>1, <2>3, <3>1 DEF PassInv, KnowsTunnels
    <3>3. Called(KindSet, g)' = Called(KindSet, g)
      BY <2>2
    <3>4. QED
      BY <1>b, <1>1, <1>4, <2>2, <3>2, <3>3 DEF KnowsTunnels
  <2>4. QED
    BY <1>b, <1>4, <2>1, <2>3 DEF PassInv, KnowsRecords, RoutesHeard, NamespacesAgree
<1>8. GatewayInv'
  BY <1>b, <1>c, <1>4, <1>5, <1>7, PassMoves
<1>9. QED
  BY <1>6, <1>8

LEMMA PruneTunnelKeeps ==
    ASSUME GatewayInv, NEW k \in Keys, PruneTunnel(k)
    PROVE  GatewayInv' /\ (OrphanInv => OrphanInv')
<1>a. /\ pass \in Pass /\ pass.pc = "prune" /\ k \in pass.todo
      /\ Types /\ tun \in [Gateways -> [Keys -> Tunnel]]
      /\ pass.todo \subseteq Things
  BY DEF GatewayInv, Types, Pass, PruneTunnel
<1>b. UNCHANGED <<gw, route, class, taas, skipped, rec>>
  BY DEF PruneTunnel
<1>c. PICK g \in Gateways : g = pass.g
  BY <1>a DEF GatewayInv, PassTypes
<1>1. CASE Retry /\ UNCHANGED tun
  BY <1>a, <1>b, <1>1, RetryKeeps
<1>2. CASE /\ tun[g][k].owner # "none" /\ SetTunnel(g, k, NoTunnel)
           /\ pass' = [pass EXCEPT !.todo = @ \ {k}]
  <2>1. /\ tun' \in [Gateways -> [Keys -> Tunnel]]
        /\ queue \subseteq queue' /\ queue' \subseteq Gateways
        /\ \A u \in Gateways \ queue' : tun'[u] = tun[u]
        /\ g \in queue'
    BY <1>a, <1>2, Values, OneTunnel
  <2>2. PICK D \in SUBSET Things : D = pass.todo \ {k}
    BY <1>a
  <2>3. pass' = [pass EXCEPT !.todo = D]
    BY <1>2, <2>2
  <2>4. /\ pass' \in Pass /\ pass'.pc = "prune" /\ pass'.g = pass.g
        /\ pass'.copy = pass.copy /\ pass'.fresh = pass.fresh
        /\ pass'.accepts = pass.accepts
    BY <1>a, <2>3 DEF Pass
  <2>5. Types'
    BY <1>a, <1>b, <2>1, <2>4 DEF Types
  <2>6. PassTypes'
    BY <1>a, <1>b, <2>4 DEF GatewayInv, PassTypes, Managed, Steady, Leaving
  <2>7. ASSUME OrphanInv PROVE OrphanInv'
    BY <1>a, <1>b, <2>4, <2>7 DEF OrphanInv, NoOrphanedRecord, Steady
  <2>8. \A u \in Gateways : Minded(u)' => Minded(u) /\ Calm(u) /\ u # g
    <3>1. \A u \in Gateways : Minded(u)' => Minded(u) /\ u \notin queue'
      BY <1>b, <2>1 DEF Minded, Managed
    <3>2. QED
      BY <1>b, <2>1, <3>1, SameRoutes DEF Calm
  <2>9. RestInv'
    BY <1>c, <2>4, <2>8, WithinPass DEF GatewayInv
  <2>10. QED
    BY <2>5, <2>6, <2>7, <2>9 DEF GatewayInv
<1>3. QED
  BY <1>1, <1>2, <1>c DEF PruneTunnel, pg

-----------------------------------------------------------------------------
(* DNSRecords *)

LEMMA NoSecondTaaS ==
    ASSUME Types, OneTaaS, Cardinality(taas) # 1
    PROVE  taas = {}
<1> SUFFICES ASSUME NEW a \in taas PROVE FALSE
  OBVIOUS
<1>1. taas = {a}
  BY DEF Types, OneTaaS
<1>2. QED
  BY <1>1, FS_Singleton

LEMMA HostnamesAreHosts ==
    ASSUME NEW L \in SUBSET Listeners PROVE HostnamesOf(L) \subseteq Hosts
BY DEF HostnamesOf, Hosts

LEMMA FindTaaSKeeps ==
    ASSUME GatewayInv, FindTaaS
    PROVE  GatewayInv' /\ (OneTaaS /\ OrphanInv => OrphanInv')
<1>a. /\ pass \in Pass /\ Types
      /\ \/ pass.pc = "prune" /\ pass.todo = {} /\ pass.copy.phase = "live"
         \/ pass.pc = "taas" /\ pass.copy.phase = "deleting"
      /\ pass.copy.listeners \subseteq Listeners
      /\ taas \subseteq TaaSes
  BY DEF GatewayInv, Types, PassTypes, Pass, GatewayObject, FindTaaS, Steady, Leaving
<1>b. UNCHANGED <<gw, route, class, taas, skipped, tun, queue>>
  BY DEF FindTaaS
<1>c. PICK g \in Gateways : g = pass.g
  BY <1>a DEF GatewayInv, PassTypes
<1>d. TunnelsOk(g)' <=> TunnelsOk(g)
  BY <1>b, SameRoutes, SameTunnels
<1>e. ASSUME Minded(g)
      PROVE  PassInv(g) /\ pass.pc = "prune" /\ (RoutesHeard => TunnelsOk(g))
  <2>1. PassInv(g)
    BY <1>a, <1>c, <1>e DEF GatewayInv, RestInv, Running
  <2>2. pass.pc = "prune" /\ pass.todo = {}
    BY <1>a, <1>c, <1>e, <2>1 DEF PassInv, Minded
  <2>3. QED
    BY <2>1, <2>2 DEF PassInv, KnowsTunnels, TunnelsOk
<1>1. CASE /\ Cardinality(taas) # 1 /\ UNCHANGED rec
           /\ pass' = [pass EXCEPT !.pc = IF pass.copy.phase = "deleting"
                                          THEN "drop" ELSE "status",
                                   !.todo = {}]
  <2>1. PICK pc \in {"drop", "status"} :
          pc = IF pass.copy.phase = "deleting" THEN "drop" ELSE "status"
    OBVIOUS
  <2>2. pass' = [pass EXCEPT !.pc = pc, !.todo = {}]
    BY <1>1, <2>1
  <2>3. /\ pass' \in Pass /\ pass'.pc = pc /\ pass'.g = pass.g
        /\ pass'.copy = pass.copy /\ pass'.fresh = pass.fresh
        /\ pass'.accepts = pass.accepts
    BY <1>a, <2>2 DEF Pass, Steady, Leaving
  <2>4. PassTypes'
    BY <1>a, <1>b, <2>1, <2>3 DEF GatewayInv, PassTypes, Managed, Steady, Leaving
  <2>5. ASSUME OneTaaS, OrphanInv PROVE OrphanInv'
    <3>1. taas = {}
      BY <1>a, <1>1, <2>5, NoSecondTaaS
    <3>2. QED
      BY <1>a, <1>b, <1>c, <1>1, <2>1, <2>3, <2>5, <3>1 DEF OrphanInv, NoOrphanedRecord, Steady
  <2>6. ASSUME Minded(g) PROVE PassInv(g)'
    <3>1. pass'.pc = "status" /\ ~(Cardinality(taas)' = 1)
      BY <1>a, <1>b, <1>e, <1>1, <2>1, <2>3, <2>6
    <3>2. QED
      BY <1>b, <1>d, <1>e, <2>3, <2>6, <3>1
         DEF PassInv, KnowsTunnels, KnowsRecords, RoutesHeard, NamespacesAgree
  <2>7. GatewayInv'
    BY <1>b, <1>c, <1>1, <2>3, <2>4, <2>6, PassMoves
  <2>8. QED
    BY <2>5, <2>7
<1>f. PICK R : R = [h \in Hosts |->
                      IF rec[g][h].phase = "gone" THEN NoRecord ELSE rec[g][h]]
  OBVIOUS
<1>h. ASSUME rec' = [rec EXCEPT ![g] = R]
      PROVE  /\ rec' \in [Gateways -> [Hosts -> Record]]
             /\ \A u \in Gateways \ {g} : rec'[u] = rec[u]
             /\ \A u \in Gateways, h \in Hosts :
                   rec'[u][h].phase = "live" => rec[u][h].phase = "live"
  <2>1. rec \in [Gateways -> [Hosts -> Record]] /\ rec[g] \in [Hosts -> Record]
    BY <1>a DEF Types
  <2>2. R \in [Hosts -> Record]
    BY <1>f, <2>1, Values
  <2>3. /\ \A u \in Gateways \ {g} : rec'[u] = rec[u]
        /\ rec'[g] = R /\ rec' \in [Gateways -> [Hosts -> Record]]
    BY <1>h, <2>1, <2>2
  <2>4. \A h \in Hosts : R[h].phase = "live" => rec[g][h].phase = "live"
    BY <1>f, Values
  <2>5. QED
    BY <2>3, <2>4
<1>2. ASSUME NEW a \in taas, taas = {a}, NEW pc \in {"records", "stamp"},
             pc = IF pass.copy.phase = "deleting" THEN "records" ELSE "stamp",
             NEW D, D = (IF pc = "records" THEN {} ELSE HostnamesOf(pass.copy.listeners)),
             pass' = [pass EXCEPT !.pc = pc, !.taas = a, !.expected = {}, !.todo = D],
             rec' = [rec EXCEPT ![g] = R]
      PROVE  GatewayInv' /\ (OneTaaS /\ OrphanInv => OrphanInv')
  <2>1. D \in SUBSET Things
    BY <1>a, <1>2, HostnamesAreHosts DEF Things
  <2>2. /\ pass' \in Pass /\ pass'.pc = pc /\ pass'.g = pass.g
        /\ pass'.copy = pass.copy /\ pass'.fresh = pass.fresh
        /\ pass'.accepts = pass.accepts /\ pass'.taas = a
        /\ pass'.expected = {} /\ pass'.todo = D
    BY <1>a, <1>2, <2>1 DEF Pass, Steady, Leaving
  <2>3. PassTypes'
    BY <1>a, <1>b, <1>2, <2>2
       DEF GatewayInv, PassTypes, Managed, Steady, Leaving, HostnamesOf
  <2>4. ASSUME OrphanInv PROVE OrphanInv'
    <3>1. \A u \in Gateways, h \in Hosts :
             rec'[u][h].phase = "live" => rec[u][h].phase = "live"
      BY <1>h, <1>2
    <3>2. QED
      BY <1>a, <1>b, <1>c, <1>2, <2>2, <2>4, <3>1 DEF OrphanInv, NoOrphanedRecord, Steady
  <2>5. ASSUME Minded(g) PROVE PassInv(g)'
    <3>1. pass'.pc = "stamp" /\ D = HostnamesOf(pass.copy.listeners)
      BY <1>a, <1>e, <1>2, <2>2, <2>5
    <3>2. KnowsRecords(g)'
      <4>1. pass.copy = gw[g]
        BY <1>e, <2>5 DEF PassInv
      <4>2. \A h \in Hosts : RecordOk(g, h)' => h \in D
        BY <1>b, <3>1, <4>1 DEF RecordOk, HostnamesOf
      <4>3. QED
        BY <2>2, <3>1, <4>2 DEF KnowsRecords
    <3>3. QED
      BY <1>b, <1>d, <1>e, <2>2, <2>5, <3>1, <3>2
         DEF PassInv, KnowsTunnels, RoutesHeard, NamespacesAgree
  <2>6. skipped' \subseteq Gateways
    BY <1>a, <1>b DEF Types
  <2>7. GatewayInv'
    BY <1>b, <1>c, <1>h, <1>2, <2>2, <2>3, <2>5, <2>6, PassMovesOn
  <2>8. QED
    BY <2>4, <2>7
<1>3. ASSUME NEW a \in taas, taas = {a},
             NEW next, next = IF pass.copy.phase = "deleting" THEN "records" ELSE "stamp",
             pass' = [pass EXCEPT !.pc = next, !.taas = a, !.expected = {},
                            !.todo = IF next = "records" THEN {}
                                     ELSE HostnamesOf(pass.copy.listeners)],
             rec' = [rec EXCEPT ![g] = R]
      PROVE  GatewayInv' /\ (OneTaaS /\ OrphanInv => OrphanInv')
  <2>1. PICK D : D = (IF next = "records" THEN {} ELSE HostnamesOf(pass.copy.listeners))
    OBVIOUS
  <2>2. next \in {"records", "stamp"}
    BY <1>3
  <2>3. QED
    BY <1>2, <1>3, <2>1, <2>2
<1>4. CASE Cardinality(taas) # 1
  <2>1. \A a : taas # {a}
    BY <1>4, FS_Singleton
  <2>2. /\ UNCHANGED rec
        /\ pass' = [pass EXCEPT !.pc = IF pass.copy.phase = "deleting"
                                       THEN "drop" ELSE "status",
                                !.todo = {}]
    BY <2>1, Zenon DEF FindTaaS
  <2>3. QED
    BY <1>1, <1>4, <2>2
<1>5. CASE Cardinality(taas) = 1
  <2>1. PICK next : next = IF pass.copy.phase = "deleting" THEN "records" ELSE "stamp"
    OBVIOUS
  <2>2. PICK a \in taas :
          /\ taas = {a}
          /\ pass' = [pass EXCEPT !.pc = next, !.taas = a, !.expected = {},
                        !.todo = IF next = "records" THEN {}
                                 ELSE HostnamesOf(pass.copy.listeners)]
          /\ rec' = [rec EXCEPT ![pg] = [h \in Hosts |->
                        IF rec[pg][h].phase = "gone" THEN NoRecord ELSE rec[pg][h]]]
    BY <1>5, <2>1, Zenon DEF FindTaaS
  <2>3. rec' = [rec EXCEPT ![g] = R]
    BY <1>c, <1>f, <2>2 DEF pg
  <2>4. QED
    BY <1>3, <2>1, <2>2, <2>3
<1>6. QED
  BY <1>4, <1>5

LEMMA StampRecordKeeps ==
    ASSUME GatewayInv, NEW h \in Hosts, StampRecord(h)
    PROVE  GatewayInv' /\ (OrphanInv => OrphanInv')
<1>a. /\ pass \in Pass /\ pass.pc = "stamp" /\ h \in pass.todo
      /\ rec \in [Gateways -> [Hosts -> Record]]
      /\ pass.todo \subseteq Things /\ pass.expected \subseteq Things
      /\ pass.taas \in TaaSes
      /\ h \in HostnamesOf(pass.copy.listeners) /\ pass.copy.phase = "live"
  BY DEF GatewayInv, Types, PassTypes, Pass, StampRecord, Steady
<1>b. UNCHANGED <<gw, route, class, taas, skipped, tun, queue>>
  BY DEF StampRecord
<1>c. PICK g \in Gateways : g = pass.g
  BY <1>a DEF GatewayInv, PassTypes
<1>2. PICK p : p = IF rec[g][h].phase \in Missing THEN "live" ELSE rec[g][h].phase
  OBVIOUS
<1>3. rec[g][h] \in Record
  BY <1>a
<1>4. p \in {"live", "deleting"}
  BY <1>2, <1>3 DEF Record, Missing
<1>5. PICK v : v = [phase |-> p, taas |-> pass.taas]
  OBVIOUS
<1>6. v \in Record /\ v.phase # "absent"
  BY <1>a, <1>4, <1>5 DEF Record
<1>7. rec' = [rec EXCEPT ![g][h] = v]
  BY <1>a, <1>c, <1>2, <1>5 DEF StampRecord, pg
<1>8. /\ rec' \in [Gateways -> [Hosts -> Record]]
      /\ \A u \in Gateways \ {g} : rec'[u] = rec[u]
      /\ \A i \in Hosts \ {h} : rec'[g][i] = rec[g][i]
      /\ rec'[g][h] = v
  BY <1>a, <1>6, <1>7
<1>9. PICK D \in SUBSET Things : D = pass.todo \ {h}
  BY <1>a
<1>10. PICK X \in SUBSET Things : X = pass.expected \cup {h}
  BY <1>a DEF Things
<1>11. pass' = [pass EXCEPT !.todo = D, !.expected = X]
  BY <1>9, <1>10 DEF StampRecord
<1>12. /\ pass' \in Pass /\ pass'.pc = "stamp" /\ pass'.g = pass.g
       /\ pass'.copy = pass.copy /\ pass'.fresh = pass.fresh
       /\ pass'.accepts = pass.accepts /\ pass'.taas = pass.taas
       /\ pass'.expected = X /\ pass'.todo = D
  BY <1>a, <1>11 DEF Pass
<1>13. Types'
  BY <1>b, <1>8, <1>12 DEF GatewayInv, Types
<1>14. PassTypes'
  BY <1>a, <1>b, <1>9, <1>12
     DEF GatewayInv, PassTypes, Managed, Steady, Leaving, HostnamesOf
<1>15. ASSUME OrphanInv PROVE OrphanInv'
  <2>1. gw[g].fin /\ taas # {}
    BY <1>a, <1>c, <1>15 DEF OrphanInv, Steady
  <2>2. \A u \in Gateways, i \in Hosts :
           rec'[u][i].phase = "live" => rec[u][i].phase = "live" \/ u = g
    BY <1>8
  <2>3. QED
    BY <1>a, <1>b, <1>c, <1>12, <1>15, <2>1, <2>2 DEF OrphanInv, NoOrphanedRecord, Steady
<1>16. \A u \in Gateways : Minded(u)' => Minded(u)
  BY <1>b DEF Minded, Managed
<1>17. \A u \in Gateways : u # g => Calm(u)
  BY <1>b, <1>8, SameRoutes DEF Calm
<1>18. ASSUME Minded(g) PROVE PassInv(g)'
  <2>1. PassInv(g) /\ pass.copy = gw[g]
    BY <1>a, <1>c, <1>18 DEF GatewayInv, RestInv, Running, PassInv
  <2>2. ASSUME RoutesHeard PROVE KnowsTunnels(g)'
    <3>1. TunnelsOk(g)
      BY <1>a, <2>1, <2>2 DEF PassInv, KnowsTunnels
    <3>2. TunnelsOk(g)'
      BY <1>b, <3>1, SameRoutes, SameTunnels
    <3>3. QED
      BY <1>12, <3>2 DEF KnowsTunnels
  <2>3. KnowsRecords(g)'
    <3>1. /\ \A i \in Hosts : i \in pass.expected /\ rec[g][i].phase = "live" =>
                RecordOk(g, i)
          /\ \A i \in Hosts : RecordOk(g, i) =>
                i \in pass.todo \/ rec[g][i].phase # "absent"
      BY <1>a, <2>1 DEF PassInv, KnowsRecords
    <3>2. \A i \in Hosts : RecordOk(g, i)' <=> RecordOk(g, i)
      BY <1>b DEF RecordOk, HostnamesOf
    <3>3. RecordOk(g, h)
      BY <1>a, <2>1 DEF RecordOk
    <3>4. ASSUME NEW i \in Hosts, i \in X, rec'[g][i].phase = "live"
          PROVE  RecordOk(g, i)
      BY <1>8, <1>10, <3>1, <3>3, <3>4
    <3>5. ASSUME NEW i \in Hosts, RecordOk(g, i)
          PROVE  i \in D \/ rec'[g][i].phase # "absent"
      BY <1>6, <1>8, <1>9, <3>1, <3>5
    <3>6. QED
      BY <1>12, <3>2, <3>4, <3>5 DEF KnowsRecords
  <2>4. QED
    BY <1>b, <1>12, <2>1, <2>2, <2>3
       DEF PassInv, RoutesHeard, NamespacesAgree
<1>19. RestInv'
  BY <1>c, <1>12, <1>16, <1>17, <1>18, WithinPass DEF GatewayInv
<1>20. QED
  BY <1>13, <1>14, <1>15, <1>19 DEF GatewayInv

LEMMA ListRecordsKeeps ==
    ASSUME GatewayInv, ListRecords
    PROVE  GatewayInv' /\ (OrphanInv => OrphanInv')
<1>a. /\ pass \in Pass /\ pass.todo = {}
      /\ \/ pass.pc = "stamp" /\ pass.copy.phase = "live"
         \/ pass.pc = "records" /\ pass.copy.phase = "deleting"
  BY DEF GatewayInv, Types, PassTypes, ListRecords, Steady, Leaving
<1>b. UNCHANGED <<gw, route, class, taas, skipped, tun, rec, queue>>
  BY DEF ListRecords
<1>c. PICK g \in Gateways : g = pass.g
  BY <1>a DEF GatewayInv, PassTypes
<1>1. PICK O : O = {h \in Hosts : rec[g][h].phase \notin Missing} \ pass.expected
  OBVIOUS
<1>2. O \in SUBSET Things
  BY <1>1 DEF Things
<1>3. pass' = [pass EXCEPT !.pc = "obsolete", !.todo = O]
  BY <1>c, <1>1 DEF ListRecords, pg
<1>4. /\ pass' \in Pass /\ pass'.pc = "obsolete" /\ pass'.g = pass.g
      /\ pass'.copy = pass.copy /\ pass'.fresh = pass.fresh
      /\ pass'.todo = O /\ pass'.accepts = pass.accepts
  BY <1>a, <1>2, <1>3 DEF Pass
<1>5. PassTypes'
  BY <1>a, <1>b, <1>4 DEF GatewayInv, PassTypes, Managed, Steady, Leaving
<1>6. ASSUME OrphanInv PROVE OrphanInv'
  <2>1. pass.copy.phase = "deleting" =>
          \A h \in Hosts : rec[g][h].phase = "live" => h \in O
    BY <1>a, <1>1, <1>6 DEF OrphanInv, Missing
  <2>2. pass.copy.phase = "live" => gw[g].fin
    BY <1>a, <1>c, <1>6 DEF OrphanInv, Steady
  <2>3. QED
    BY <1>b, <1>c, <1>4, <1>6, <2>1, <2>2 DEF OrphanInv, NoOrphanedRecord, Steady
<1>7. ASSUME Minded(g) PROVE PassInv(g)'
  <2>1. PassInv(g) /\ pass.pc = "stamp"
    BY <1>a, <1>c, <1>7 DEF GatewayInv, RestInv, Running, PassInv, Minded
  <2>2. /\ TunnelsOk(g)' <=> TunnelsOk(g)
        /\ \A h \in Hosts : RecordOk(g, h)' <=> RecordOk(g, h)
        /\ Stamped(g) => Stamped(g)'
    BY <1>b, StillKnown
  <2>3. ASSUME RoutesHeard PROVE KnowsTunnels(g)'
    BY <1>4, <2>1, <2>2, <2>3 DEF PassInv, KnowsTunnels
  <2>4. KnowsRecords(g)'
    <3>1. /\ \A h \in Hosts : h \in pass.expected /\ rec[g][h].phase = "live" =>
                RecordOk(g, h)
          /\ Stamped(g)
      BY <1>a, <2>1 DEF PassInv, KnowsRecords, Stamped
    <3>2. \A h \in Hosts : rec[g][h].phase = "live" => h \in O \/ RecordOk(g, h)
      BY <1>1, <3>1 DEF Missing
    <3>3. QED
      BY <1>b, <1>4, <2>2, <3>1, <3>2 DEF KnowsRecords
  <2>5. QED
    BY <1>b, <1>4, <2>1, <2>3, <2>4
       DEF PassInv, RoutesHeard, NamespacesAgree
<1>8. GatewayInv'
  BY <1>b, <1>c, <1>4, <1>5, <1>7, PassMoves
<1>9. QED
  BY <1>6, <1>8

LEMMA PruneRecordKeeps ==
    ASSUME GatewayInv, NEW h \in Hosts, PruneRecord(h)
    PROVE  GatewayInv' /\ (OrphanInv => OrphanInv')
<1>a. /\ pass \in Pass /\ pass.pc = "obsolete" /\ h \in pass.todo
      /\ rec \in [Gateways -> [Hosts -> Record]] /\ pass.todo \subseteq Things
  BY DEF GatewayInv, Types, Pass, PruneRecord
<1>b. UNCHANGED <<gw, route, class, taas, skipped, tun, queue>>
  BY DEF PruneRecord
<1>c. PICK g \in Gateways : g = pass.g
  BY <1>a DEF GatewayInv, PassTypes
<1>1. rec[g][h] \in Record
  BY <1>a
<1>2. PICK p : p = IF rec[g][h].phase = "live" THEN "deleting" ELSE rec[g][h].phase
  OBVIOUS
<1>3. PICK v : v = [rec[g][h] EXCEPT !.phase = p]
  OBVIOUS
<1>4. /\ v \in Record /\ v.phase = p /\ p # "live"
      /\ p = "absent" => rec[g][h].phase = "absent"
  BY <1>1, <1>2, <1>3 DEF Record
<1>5. rec' = [rec EXCEPT ![g][h] = v]
  BY <1>a, <1>c, <1>2, <1>3 DEF PruneRecord, pg
<1>6. /\ rec' \in [Gateways -> [Hosts -> Record]]
      /\ \A u \in Gateways \ {g} : rec'[u] = rec[u]
      /\ \A i \in Hosts \ {h} : rec'[g][i] = rec[g][i]
      /\ rec'[g][h].phase # "live"
      /\ rec'[g][h].phase = "absent" => rec[g][h].phase = "absent"
  BY <1>a, <1>4, <1>5
<1>7. PICK D \in SUBSET Things : D = pass.todo \ {h}
  BY <1>a
<1>8. pass' = [pass EXCEPT !.todo = D]
  BY <1>7 DEF PruneRecord
<1>9. /\ pass' \in Pass /\ pass'.pc = "obsolete" /\ pass'.g = pass.g
      /\ pass'.copy = pass.copy /\ pass'.fresh = pass.fresh
      /\ pass'.todo = D /\ pass'.accepts = pass.accepts
  BY <1>a, <1>8 DEF Pass
<1>10. Types' /\ PassTypes'
  BY <1>a, <1>b, <1>6, <1>9 DEF GatewayInv, Types, PassTypes, Managed, Steady, Leaving
<1>11. \A u \in Gateways, i \in Hosts :
          rec'[u][i].phase = "live" => rec'[u][i] = rec[u][i] /\ (u # g \/ i # h)
  BY <1>6
<1>12. ASSUME OrphanInv PROVE OrphanInv'
  <2>1. pass.copy.phase = "deleting" =>
          \A i \in Hosts : rec'[g][i].phase = "live" => i \in D
    BY <1>a, <1>c, <1>7, <1>11, <1>12 DEF OrphanInv
  <2>2. \A u \in Gateways, i \in Hosts :
          rec'[u][i].phase = "live" => rec[u][i].phase = "live"
    BY <1>11
  <2>3. QED
    BY <1>a, <1>b, <1>c, <1>9, <1>12, <2>1, <2>2 DEF OrphanInv, NoOrphanedRecord
<1>13. \A u \in Gateways : (Minded(u)' => Minded(u)) /\ Calm(u)
  <2>1. \A u \in Gateways, i \in Hosts :
           rec'[u][i].phase = "absent" => rec[u][i].phase = "absent"
    BY <1>6
  <2>2. QED
    BY <1>b, <1>11, <2>1, SameRoutes DEF Minded, Managed, Calm
<1>14. ASSUME Minded(g) PROVE PassInv(g)'
  <2>1. PassInv(g)
    BY <1>a, <1>c, <1>14 DEF GatewayInv, RestInv, Running
  <2>2. ASSUME RoutesHeard PROVE KnowsTunnels(g)'
    <3>1. TunnelsOk(g)
      BY <1>a, <2>1, <2>2 DEF PassInv, KnowsTunnels
    <3>2. TunnelsOk(g)'
      BY <1>b, <3>1, SameRoutes, SameTunnels
    <3>3. QED
      BY <1>9, <3>2 DEF KnowsTunnels
  <2>3. KnowsRecords(g)'
    <3>1. /\ \A i \in Hosts : rec[g][i].phase = "live" => i \in pass.todo \/ RecordOk(g, i)
          /\ Stamped(g)
      BY <1>a, <2>1 DEF PassInv, KnowsRecords
    <3>2. /\ \A i \in Hosts : rec'[g][i].phase = "live" =>
                (RecordOk(g, i)' <=> RecordOk(g, i)) /\ rec[g][i].phase = "live" /\ i # h
          /\ Stamped(g)'
      BY <1>11, <1>13, <3>1, SameRecords DEF Calm
    <3>3. QED
      BY <1>7, <1>9, <3>1, <3>2 DEF KnowsRecords
  <2>4. QED
    BY <1>b, <1>9, <2>1, <2>2, <2>3
       DEF PassInv, RoutesHeard, NamespacesAgree
<1>15. RestInv'
  BY <1>c, <1>9, <1>13, <1>14, WithinPass DEF GatewayInv
<1>16. QED
  BY <1>10, <1>12, <1>15 DEF GatewayInv

LEMMA RecordsDoneKeeps ==
    ASSUME GatewayInv, RecordsDone
    PROVE  GatewayInv' /\ (OrphanInv => OrphanInv')
<1>a. /\ pass \in Pass /\ pass.pc = "obsolete" /\ pass.todo = {}
      /\ pass.copy.phase \in {"live", "deleting"}
  BY DEF GatewayInv, Types, PassTypes, RecordsDone
<1>b. UNCHANGED <<gw, route, class, taas, tun, rec, queue>> /\ skipped' = skipped \ {pg}
  BY DEF RecordsDone
<1>c. PICK g \in Gateways : g = pass.g
  BY <1>a DEF GatewayInv, PassTypes
<1>1. PICK pc \in {"drop", "status"} :
        pc = IF pass.copy.phase = "deleting" THEN "drop" ELSE "status"
  OBVIOUS
<1>2. pass' = [pass EXCEPT !.pc = pc]
  BY <1>1 DEF RecordsDone
<1>3. /\ pass' \in Pass /\ pass'.pc = pc /\ pass'.g = pass.g
      /\ pass'.copy = pass.copy /\ pass'.fresh = pass.fresh
      /\ pass'.accepts = pass.accepts
  BY <1>a, <1>2 DEF Pass, Steady, Leaving
<1>4. PassTypes'
  BY <1>a, <1>b, <1>1, <1>3 DEF GatewayInv, PassTypes, Managed, Steady, Leaving
<1>5. ASSUME OrphanInv PROVE OrphanInv'
  BY <1>a, <1>b, <1>1, <1>3, <1>5 DEF OrphanInv, NoOrphanedRecord, Steady
<1>6. ASSUME Minded(g) PROVE PassInv(g)'
  <2>1. PassInv(g) /\ pc = "status"
    BY <1>a, <1>c, <1>1, <1>6 DEF GatewayInv, RestInv, Running, PassInv, Minded
  <2>2. /\ TunnelsOk(g)' <=> TunnelsOk(g)
        /\ RecordsOk(g) => RecordsOk(g)'
    BY <1>b, StillKnown
  <2>3. RecordsOk(g)
    BY <1>a, <2>1 DEF PassInv, KnowsRecords, RecordsOk
  <2>4. QED
    BY <1>a, <1>b, <1>3, <2>1, <2>2, <2>3
       DEF PassInv, KnowsTunnels, KnowsRecords, RoutesHeard, NamespacesAgree
<1>7. GatewayInv'
  <2>1. rec' \in [Gateways -> [Hosts -> Record]] /\ skipped' \subseteq Gateways
    BY <1>b DEF GatewayInv, Types
  <2>2. \A u \in Gateways : u # pass.g =>
           rec'[u] = rec[u] /\ (u \in skipped' <=> u \in skipped)
    BY <1>b DEF pg
  <2>3. QED
    BY <1>b, <1>c, <1>1, <1>3, <1>4, <1>6, <2>1, <2>2, PassMovesOn
<1>8. QED
  BY <1>5, <1>7

-----------------------------------------------------------------------------
(* The end of a pass *)

LEMMA UpdateGatewayStatusKeeps ==
    ASSUME GatewayInv, UpdateGatewayStatus
    PROVE  GatewayInv' /\ (OrphanInv => OrphanInv')
<1>a. /\ pass \in Pass /\ pass.pc = "status" /\ queue \subseteq Gateways
      /\ gw \in [Gateways -> GatewayObject]
  BY DEF GatewayInv, Types, UpdateGatewayStatus
<1>b. UNCHANGED <<route, class, taas, skipped, tun, rec>>
  BY DEF UpdateGatewayStatus
<1>c. PICK g \in Gateways : g = pass.g
  BY <1>a DEF GatewayInv, PassTypes
<1>1. CASE Retry /\ UNCHANGED gw
  BY <1>a, <1>b, <1>1, RetryKeeps
<1>2. CASE /\ gw' = [gw EXCEPT ![pg].programmed = TRUE]
           /\ queue' = IF gw' = gw THEN queue ELSE queue \cup {pg}
           /\ pass' = Idle
  <2>1. PICK v : v = [gw[g] EXCEPT !.programmed = TRUE]
    OBVIOUS
  <2>2. gw[g] \in GatewayObject
    BY <1>a
  <2>3. /\ v \in GatewayObject /\ v.fin = gw[g].fin /\ v.phase = gw[g].phase
        /\ v.listeners = gw[g].listeners
    BY <2>1, <2>2 DEF GatewayObject
  <2>4. gw' = [gw EXCEPT ![g] = v]
    BY <1>a, <1>c, <1>2, <2>1 DEF pg
  <2>5. gw' \in [Gateways -> GatewayObject]
        /\ \A u \in Gateways : gw'[u] = IF u = g THEN v ELSE gw[u]
    BY <1>a, <2>3, <2>4
  <2>6. queue \subseteq queue' /\ queue' \subseteq Gateways
        /\ (g \notin queue' => gw' = gw)
    BY <1>a, <1>c, <1>2 DEF pg
  <2>7. pass'.pc = "idle" /\ ~pass'.accepts /\ pass' = Idle
    BY <1>2, Values
  <2>8. Types' /\ PassTypes'
    BY <1>b, <2>3, <2>5, <2>6, <2>7, Values DEF GatewayInv, Types, PassTypes, Steady, Leaving
  <2>9. ASSUME OrphanInv PROVE OrphanInv'
    <3>1. \A u \in Gateways : gw'[u].fin = gw[u].fin
      BY <2>3, <2>5
    <3>2. QED
      BY <1>b, <2>7, <2>9, <3>1 DEF OrphanInv, NoOrphanedRecord, Steady
  <2>10. \A u \in Gateways : Minded(u)' => Minded(u) /\ u \notin queue'
    BY <1>b, <2>3, <2>5, <2>6 DEF Minded, Managed
  <2>11. \A u \in Gateways : u # g => Calm(u)
    BY <1>b, <2>5, SameRoutes DEF Calm
  <2>12. ASSUME Minded(g)' PROVE AtRest(g)'
    <3>1. PassInv(g) /\ gw' = gw
      BY <1>a, <1>c, <2>6, <2>10, <2>12 DEF GatewayInv, RestInv, Running
    <3>2. /\ TunnelsOk(g)' <=> TunnelsOk(g)
          /\ RecordsOk(g) => RecordsOk(g)'
      BY <1>b, <3>1, StillKnown
    <3>3. QED
      BY <1>a, <1>b, <3>1, <3>2
         DEF AtRest, PassInv, KnowsTunnels, KnowsRecords, RoutesHeard,
             NamespacesAgree
  <2>13. RestInv'
    BY <1>c, <2>7, <2>10, <2>11, <2>12, PassEnds DEF GatewayInv
  <2>14. QED
    BY <2>8, <2>9, <2>13 DEF GatewayInv
<1>3. QED
  BY <1>1, <1>2 DEF UpdateGatewayStatus

LEMMA DropFinalizerKeeps ==
    ASSUME GatewayInv, DropFinalizer
    PROVE  GatewayInv' /\ (OrphanInv => OrphanInv')
<1>a. /\ pass \in Pass /\ pass.pc = "drop" /\ queue \subseteq Gateways
      /\ gw \in [Gateways -> GatewayObject]
      /\ tun \in [Gateways -> [Keys -> Tunnel]]
  BY DEF GatewayInv, Types, DropFinalizer
<1>b. UNCHANGED <<route, class, taas, skipped, rec>>
  BY DEF DropFinalizer
<1>c. PICK g \in Gateways : g = pass.g
  BY <1>a DEF GatewayInv, PassTypes
<1>1. CASE Retry /\ UNCHANGED <<gw, tun>>
  BY <1>a, <1>b, <1>1, RetryKeeps
<1>2. CASE /\ gw' = [gw EXCEPT ![pg] = AbsentGateway]
           /\ tun' = [tun EXCEPT ![pg] = [k \in Keys |->
                        IF tun[pg][k].owner = "current"
                        THEN [tun[pg][k] EXCEPT !.owner = "former"] ELSE tun[pg][k]]]
           /\ pass' = Idle /\ queue' = queue \cup {pg}
  <2>1. PICK T : T = [k \in Keys |->
                        IF tun[g][k].owner = "current"
                        THEN [tun[g][k] EXCEPT !.owner = "former"] ELSE tun[g][k]]
    OBVIOUS
  <2>2. ASSUME NEW k \in Keys
        PROVE  tun[g][k] \in Tunnel /\ [tun[g][k] EXCEPT !.owner = "former"] \in Tunnel
    <3>1. tun[g][k] \in Tunnel
      BY <1>a
    <3>2. QED
      BY <3>1 DEF Tunnel
  <2>3. T \in [Keys -> Tunnel]
    BY <2>1, <2>2
  <2>4. tun' = [tun EXCEPT ![g] = T]
    BY <1>c, <1>2, <2>1 DEF pg
  <2>5. /\ tun' \in [Gateways -> [Keys -> Tunnel]]
        /\ \A u \in Gateways \ {g} : tun'[u] = tun[u]
    BY <1>a, <2>3, <2>4
  <2>6. /\ gw' \in [Gateways -> GatewayObject]
        /\ \A u \in Gateways : gw'[u] = IF u = g THEN AbsentGateway ELSE gw[u]
    BY <1>a, <1>c, <1>2, Values DEF pg
  <2>7. /\ pass'.pc = "idle" /\ ~pass'.accepts /\ pass' = Idle
        /\ queue' = queue \cup {g}
    BY <1>c, <1>2, Values DEF pg
  <2>8. Types' /\ PassTypes'
    BY <1>a, <1>b, <2>5, <2>6, <2>7, Values DEF GatewayInv, Types, PassTypes, Steady, Leaving
  <2>9. ASSUME OrphanInv PROVE OrphanInv'
    <3>1. \A h \in Hosts : rec[g][h].phase # "live"
      BY <1>a, <1>c, <2>9 DEF OrphanInv
    <3>2. QED
      BY <1>b, <2>6, <2>7, <2>9, <3>1 DEF OrphanInv, NoOrphanedRecord, Steady
  <2>10. \A u \in Gateways : Minded(u)' => Minded(u) /\ u # g /\ Calm(u)
    BY <1>b, <2>5, <2>6, <2>7, SameRoutes DEF Minded, Managed, Calm
  <2>11. RestInv'
    BY <1>c, <2>7, <2>10, PassEnds DEF GatewayInv
  <2>12. QED
    BY <2>8, <2>9, <2>11 DEF GatewayInv
<1>3. QED
  BY <1>1, <1>2 DEF DropFinalizer

LEMMA RestartKeeps ==
    ASSUME GatewayInv, Restart
    PROVE  GatewayInv' /\ (OrphanInv => OrphanInv')
<1>1. /\ pass' = Idle /\ pass'.pc = "idle" /\ ~pass'.accepts
      /\ queue' = {g \in Gateways : gw[g].phase # "absent"}
      /\ UNCHANGED <<gw, route, class, taas, skipped, tun, rec>>
  BY Values DEF Restart
<1>2. Types' /\ PassTypes'
  BY <1>1, Values DEF GatewayInv, Types, PassTypes, Steady, Leaving
<1>3. \A g \in Gateways : ~Minded(g)'
  BY <1>1 DEF Minded
<1>4. RestInv'
  BY <1>3 DEF RestInv
<1>5. ASSUME OrphanInv PROVE OrphanInv'
  BY <1>1, <1>5 DEF OrphanInv, NoOrphanedRecord, Steady
<1>6. QED
  BY <1>2, <1>4, <1>5 DEF GatewayInv

(* A failure that is only logged: of the class's status nothing depends on *)
(* it, of the others what is known is not claimed.                         *)
LEMMA CallForgottenKeeps ==
    ASSUME GatewayInv, CallForgotten
    PROVE  GatewayInv' /\ (OrphanInv => OrphanInv')
<1>a. /\ pass \in Pass /\ Logged \in Forgotten /\ pass.copy.phase = "live"
      /\ pass.kinds \in KindsLeft
  BY DEF GatewayInv, Types, Pass, CallForgotten
<1>b. /\ UNCHANGED <<gw, route, class, taas, tun, rec, queue>>
      /\ skipped' = IF Logged = "records" THEN skipped \cup {pg} ELSE skipped
  BY DEF CallForgotten
<1>d. \/ Logged = "class" /\ pass.pc = "class"
      \/ Logged = "routes" /\ pass.pc = "routes" /\ pass.kinds # <<>>
      \/ Logged = "records" /\ pass.pc = "prune" /\ pass.todo = {}
      \/ Logged = "records" /\ pass.pc \in {"stamp", "obsolete"}
  BY <1>a, GatewayAssumption DEF Logged
<1>c. PICK g \in Gateways : g = pass.g
  BY <1>d DEF GatewayInv, PassTypes
<1>1. PICK pc \in {"status", "routes"} :
        pc = IF Logged = "records" THEN "status" ELSE "routes"
  OBVIOUS
<1>2. PICK K \in KindsLeft :
        K = IF Logged = "routes" THEN Tail(pass.kinds) ELSE pass.kinds
  BY <1>a, <1>d, KindFacts
<1>3. pass' = [pass EXCEPT !.pc = pc, !.kinds = K, !.todo = {}]
  BY <1>1, <1>2 DEF CallForgotten
<1>4. /\ pass' \in Pass /\ pass'.pc = pc /\ pass'.g = pass.g
      /\ pass'.copy = pass.copy /\ pass'.fresh = pass.fresh
      /\ pass'.accepts = pass.accepts /\ pass'.kinds = K /\ pass'.todo = {}
      /\ pass'.expected = pass.expected
  BY <1>a, <1>3 DEF Pass, Steady
<1>5. PassTypes'
  BY <1>a, <1>b, <1>d, <1>4 DEF GatewayInv, PassTypes, Managed, Steady, Leaving
<1>6. ASSUME OrphanInv PROVE OrphanInv'
  BY <1>a, <1>b, <1>d, <1>4, <1>6 DEF OrphanInv, NoOrphanedRecord, Steady
<1>7. ASSUME Minded(g) PROVE PassInv(g)'
  <2>1. PassInv(g)
    BY <1>c, <1>d, <1>7 DEF GatewayInv, RestInv, Running
  <2>2. TunnelsOk(g)' <=> TunnelsOk(g)
    BY <1>b, StillKnown
  <2>3. CASE Logged = "class"
    <3>1. pass'.pc = "routes" /\ pass'.kinds = Kinds /\ pass'.expected = {}
      BY <1>d, <1>1, <1>2, <1>4, <2>3 DEF GatewayInv, PassTypes
    <3>2. Done' = {}
      BY <3>1, KindFacts DEF Done
    <3>3. Called(Done, g)' = {}
      BY <3>2 DEF Called
    <3>4. QED
      BY <1>b, <1>4, <2>1, <3>1, <3>3 DEF PassInv, KnowsTunnels, KnowsRecords
  <2>4. CASE Logged = "routes"
    <3>1. ~RoutesHeard /\ ~RoutesHeard' /\ pass'.pc = "routes"
      BY <1>a, <1>1, <1>4, <2>4 DEF RoutesHeard
    <3>2. QED
      BY <1>b, <1>4, <2>1, <3>1 DEF PassInv, KnowsRecords
  <2>5. CASE Logged = "records"
    <3>1. g \in skipped' /\ pass'.pc = "status"
      BY <1>b, <1>c, <1>1, <1>4, <2>5 DEF pg
    <3>2. RoutesHeard => TunnelsOk(g)
      BY <1>d, <2>1, <2>5 DEF PassInv, KnowsTunnels, TunnelsOk
    <3>3. QED
      BY <1>b, <1>4, <2>1, <2>2, <3>1, <3>2
         DEF PassInv, KnowsTunnels, KnowsRecords, RoutesHeard, NamespacesAgree
  <2>6. QED
    BY <1>d, <2>3, <2>4, <2>5
<1>8. GatewayInv'
  <2>1. rec' \in [Gateways -> [Hosts -> Record]] /\ skipped' \subseteq Gateways
    BY <1>b, <1>c DEF GatewayInv, Types, pg
  <2>2. \A u \in Gateways : u # pass.g =>
           rec'[u] = rec[u] /\ (u \in skipped' <=> u \in skipped)
    BY <1>b DEF pg
  <2>3. QED
    BY <1>b, <1>c, <1>1, <1>4, <1>5, <1>7, <2>1, <2>2, PassMovesOn
<1>9. QED
  BY <1>6, <1>8

-----------------------------------------------------------------------------
(* Users, the other controllers and the cluster *)

(* A Gateway is created, edited or deleted: an event, and the copy of a    *)
(* pass under way for it is stale.                                         *)
LEMMA TouchKeeps ==
    ASSUME GatewayInv, NEW g \in Gateways, NEW new \in GatewayObject, Touch(g, new),
           new.phase = "deleting" => new.fin, new.phase = "absent" => ~new.fin,
           new.fin = gw[g].fin
    PROVE  GatewayInv' /\ (OrphanInv => OrphanInv')
<1>a. /\ pass \in Pass /\ queue \subseteq Gateways /\ Types
      /\ gw \in [Gateways -> GatewayObject]
  BY DEF GatewayInv, Types
<1>b. UNCHANGED <<route, class, taas, skipped, tun, rec>> /\ queue' = queue \cup {g}
  BY DEF Touch
<1>1. /\ gw' \in [Gateways -> GatewayObject]
      /\ \A u \in Gateways : gw'[u] = IF u = g THEN new ELSE gw[u]
  BY <1>a DEF Touch
<1>2. PICK fr \in BOOLEAN : fr = (pass.fresh /\ pg # g)
  BY <1>a DEF Pass
<1>3. pass' = [pass EXCEPT !.fresh = fr]
  BY <1>2 DEF Touch
<1>4. /\ pass' \in Pass /\ pass'.pc = pass.pc /\ pass'.g = pass.g
      /\ pass'.copy = pass.copy /\ pass'.fresh = fr
      /\ pass'.accepts = pass.accepts /\ pass'.kinds = pass.kinds
      /\ pass'.todo = pass.todo /\ pass'.expected = pass.expected
      /\ pass'.taas = pass.taas
  BY <1>a, <1>3 DEF Pass
<1>5. pass.g # g => pass' = pass
  <2>1. ASSUME pass.g # g PROVE fr = pass.fresh
    BY <1>a, <1>2, <2>1 DEF pg, Pass
  <2>2. QED
    BY <1>a, <1>3, <2>1 DEF Pass
<1>6. Types'
  BY <1>a, <1>b, <1>1, <1>4 DEF Types
<1>7. PassTypes'
  <2>1. pass.pc # "idle" /\ fr => pass.copy = gw'[pass.g]
    BY <1>1, <1>2 DEF GatewayInv, PassTypes, pg
  <2>2. QED
    BY <1>b, <1>4, <2>1 DEF GatewayInv, PassTypes, Managed, HostnamesOf
<1>8. \A u \in Gateways : Minded(u)' => Minded(u) /\ u # g /\ Calm(u)
  BY <1>b, <1>1, SameRoutes DEF Minded, Managed, Calm
<1>9. RestInv'
  BY <1>4, <1>5, <1>8, OthersKeep DEF GatewayInv
<1>10. ASSUME OrphanInv PROVE OrphanInv'
  <2>1. \A u \in Gateways : gw'[u].fin = gw[u].fin
    BY <1>1
  <2>2. pass.pc # "idle" => pass.g \in Gateways
    BY DEF GatewayInv, PassTypes
  <2>3. QED
    BY <1>b, <1>4, <1>10, <2>1, <2>2 DEF OrphanInv, NoOrphanedRecord, Steady
<1>11. QED
  BY <1>6, <1>7, <1>9, <1>10 DEF GatewayInv

LEMMA GatewayChangeKeeps ==
    ASSUME GatewayInv, NEW g \in Gateways,
           CreateGateway(g) \/ EditListeners(g) \/ DeleteGateway(g)
    PROVE  GatewayInv' /\ (OrphanInv => OrphanInv')
<1>a. /\ gw[g] \in GatewayObject
      /\ gw[g].phase = "deleting" => gw[g].fin
      /\ gw[g].phase = "absent" => ~gw[g].fin
  BY DEF GatewayInv, Types
<1>1. CASE CreateGateway(g)
  <2>1. PICK L \in SUBSET Listeners :
          Touch(g, [AbsentGateway EXCEPT !.phase = "live", !.listeners = L])
    BY <1>1 DEF CreateGateway
  <2>2. PICK v : v = [AbsentGateway EXCEPT !.phase = "live", !.listeners = L]
    OBVIOUS
  <2>3. v \in GatewayObject /\ v.phase = "live" /\ v.fin = FALSE
    BY <2>2 DEF AbsentGateway, GatewayObject
  <2>4. v.fin = gw[g].fin
    BY <1>a, <1>1, <2>3 DEF CreateGateway, GatewayObject
  <2>5. QED
    BY <2>1, <2>2, <2>3, <2>4, TouchKeeps
<1>2. CASE EditListeners(g)
  <2>1. PICK L \in SUBSET Listeners :
          Touch(g, [gw[g] EXCEPT !.listeners = L, !.programmed = FALSE])
    BY <1>2 DEF EditListeners
  <2>2. PICK v : v = [gw[g] EXCEPT !.listeners = L, !.programmed = FALSE]
    OBVIOUS
  <2>3. v \in GatewayObject /\ v.phase = gw[g].phase /\ v.fin = gw[g].fin
    BY <1>a, <2>2 DEF GatewayObject
  <2>4. QED
    BY <1>a, <2>1, <2>2, <2>3, TouchKeeps
<1>3. CASE DeleteGateway(g)
  <2>1. CASE gw[g].fin
    <3>1. PICK v : v = [gw[g] EXCEPT !.phase = "deleting"]
      OBVIOUS
    <3>2. v \in GatewayObject /\ v.phase = "deleting" /\ v.fin = gw[g].fin
      BY <1>a, <3>1 DEF GatewayObject
    <3>3. Touch(g, v)
      BY <1>3, <2>1, <3>1 DEF DeleteGateway
    <3>4. QED
      BY <2>1, <3>2, <3>3, TouchKeeps
  <2>2. CASE ~gw[g].fin
    <3>1. PICK v : v = AbsentGateway
      OBVIOUS
    <3>2. v \in GatewayObject /\ v.phase = "absent" /\ v.fin = gw[g].fin
      BY <1>a, <2>2, <3>1 DEF GatewayObject, AbsentGateway
    <3>3. Touch(g, v)
      BY <1>3, <2>2, <3>1 DEF DeleteGateway
    <3>4. QED
      BY <2>2, <3>2, <3>3, TouchKeeps
  <2>3. QED
    BY <2>1, <2>2
<1>4. QED
  BY <1>1, <1>2, <1>3

(* A route changes, and a Gateway the watch does not queue: it is attached *)
(* to it neither before nor after.                                         *)
LEMMA SetRouteKeeps ==
    ASSUME GatewayInv, NEW r \in Routes, SetRoute(r)
    PROVE  GatewayInv' /\ (OrphanInv => OrphanInv')
<1>a. /\ route \in [Routes -> RouteObject] /\ queue \subseteq Gateways /\ Types
      /\ route[r].refs \subseteq ParentRefs
  BY DEF GatewayInv, Types, RouteObject
<1>b. UNCHANGED <<gw, class, taas, skipped, tun, rec, pass>>
  BY DEF SetRoute
<1>1. PICK refs \in SUBSET ParentRefs, rules \in RuleSets :
          /\ route' = [route EXCEPT ![r] = [refs |-> refs, rules |-> rules]]
          /\ queue' = queue \cup FindGatewaysForRoute(r, route[r].refs)
                            \cup FindGatewaysForRoute(r, refs)
  BY DEF SetRoute
<1>2. /\ route' \in [Routes -> RouteObject] /\ route'[r].refs = refs
      /\ \A s \in Routes \ {r} : route'[s] = route[s]
      /\ queue \subseteq queue' /\ queue' \subseteq Gateways
  BY <1>a, <1>1 DEF RouteObject, FindGatewaysForRoute
<1>3. Types' /\ PassTypes'
  BY <1>a, <1>b, <1>2
     DEF GatewayInv, Types, PassTypes, Managed, HostnamesOf
<1>4. ASSUME NEW g \in Gateways, g \notin queue', NamespacesAgree, NEW l \in Listeners
      PROVE  ~Attached(r, g, l) /\ ~Attached(r, g, l)'
  <2>1. \A ref \in route[r].refs \cup refs :
           ~(/\ ref.name = GatewayName[g]
             /\ GatewayNs[g] = (IF ref.ns = NoOne THEN RouteNs[r] ELSE ref.ns))
    BY <1>1, <1>4 DEF FindGatewaysForRoute
  <2>2. ASSUME NEW ref \in route[r].refs \cup refs
        PROVE  /\ RouteKind[r] = "HTTP" => ~RefFits(ref, g, l)
               /\ RouteKind[r] # "HTTP" => ~RefSelects(r, ref, g, l)
    <3>1. ref \in ParentRefs
      BY <1>a, <2>2
    <3>2. QED
      BY <1>4, <2>1, <3>1 DEF NamespacesAgree, RefFits, RefSelects
  <2>3. QED
    BY <1>2, <2>2 DEF Attached
<1>5. ASSUME NEW g \in Gateways, g \notin queue', RoutesHeard
      PROVE  \A K : Called(K, g)' = Called(K, g)
  <2>1. gw[g].listeners \subseteq Listeners
    BY <1>a DEF Types, GatewayObject
  <2>2. ASSUME NEW s \in Routes, NEW l \in Listeners
        PROVE  /\ Attached(s, g, l)' <=> Attached(s, g, l)
               /\ Attached(s, g, l) => route'[s] = route[s]
    <3>1. CASE s = r
      BY <1>4, <1>5, <3>1 DEF RoutesHeard
    <3>2. CASE s # r
      BY <1>2, <3>2 DEF Attached
    <3>3. QED
      BY <3>1, <3>2
  <2>3. QED
    BY <1>b, <2>1, <2>2 DEF Called
<1>6. \A g \in Gateways : Minded(g)' => Minded(g) /\ g \notin queue'
  BY <1>b, <1>2 DEF Minded, Managed
<1>7. \A g \in Gateways : g \notin queue' => Calm(g)
  BY <1>b, <1>5 DEF Calm
<1>8. RestInv'
  BY <1>b, <1>6, <1>7, OthersKeep DEF GatewayInv
<1>9. ASSUME OrphanInv PROVE OrphanInv'
  BY <1>b, <1>9 DEF OrphanInv, NoOrphanedRecord
<1>10. QED
  BY <1>3, <1>8, <1>9 DEF GatewayInv

LEMMA SetClassKeeps ==
    ASSUME GatewayInv, SetClass
    PROVE  GatewayInv' /\ (OrphanInv => OrphanInv')
<1>a. /\ pass \in Pass /\ queue \subseteq Gateways /\ Types
      /\ class \in {"absent", "other", "ours", "accepted"}
  BY DEF GatewayInv, Types
<1>b. UNCHANGED <<gw, route, taas, skipped, tun, rec>>
  BY DEF SetClass
<1>1. /\ class' \in {"absent", "other", "ours", "accepted"}
      /\ Managed' => class' = "ours"
  BY DEF SetClass, Managed
<1>2. queue \subseteq queue' /\ queue' \subseteq Gateways
      /\ (class' = "ours" => queue' = queue \cup FindGatewaysForClass)
  BY <1>a DEF SetClass, FindGatewaysForClass
<1>3. pass' = [pass EXCEPT !.accepts = FALSE]
  BY DEF SetClass
<1>4. /\ pass' \in Pass /\ pass'.pc = pass.pc /\ pass'.g = pass.g
      /\ pass'.copy = pass.copy /\ pass'.fresh = pass.fresh
      /\ ~pass'.accepts /\ pass'.kinds = pass.kinds
      /\ pass'.todo = pass.todo /\ pass'.expected = pass.expected
      /\ pass'.taas = pass.taas
  BY <1>a, <1>3 DEF Pass
<1>5. Types' /\ PassTypes'
  BY <1>b, <1>1, <1>2, <1>4
     DEF GatewayInv, Types, PassTypes, HostnamesOf
<1>6. \A g \in Gateways : ~Minded(g)'
  BY <1>b, <1>1, <1>2 DEF Minded, FindGatewaysForClass
<1>7. RestInv'
  BY <1>6 DEF RestInv
<1>8. ASSUME OrphanInv PROVE OrphanInv'
  BY <1>b, <1>4, <1>8 DEF OrphanInv, NoOrphanedRecord
<1>9. QED
  BY <1>5, <1>7, <1>8 DEF GatewayInv

(* The AquaductTaaS appears or its status changes: an event for every      *)
(* Gateway the controller minds.                                           *)
LEMMA AccountKeeps ==
    ASSUME GatewayInv, UNCHANGED <<gw, route, class, skipped, tun, rec, pass>>,
           taas \subseteq taas', taas' \subseteq TaaSes,
           queue' = queue \cup FindGatewaysForAquaductTaaS
    PROVE  GatewayInv' /\ (OrphanInv => OrphanInv')
<1>1. queue' \subseteq Gateways
  BY DEF GatewayInv, Types, FindGatewaysForAquaductTaaS
<1>2. Types' /\ PassTypes'
  BY <1>1 DEF GatewayInv, Types, PassTypes, Managed, HostnamesOf
<1>3. \A g \in Gateways : ~Minded(g)'
  BY DEF Minded, Managed, FindGatewaysForAquaductTaaS
<1>4. RestInv'
  BY <1>3 DEF RestInv
<1>5. ASSUME OrphanInv PROVE OrphanInv'
  BY <1>5 DEF OrphanInv, NoOrphanedRecord
<1>6. QED
  BY <1>2, <1>4, <1>5 DEF GatewayInv

(* A tunnel goes: an event for its Gateway.                                *)
LEMMA TunnelGoesKeeps ==
    ASSUME GatewayInv, NEW g \in Gateways, NEW k \in Keys,
           SetTunnel(g, k, NoTunnel),
           UNCHANGED <<gw, route, class, taas, skipped, rec, pass>>
    PROVE  GatewayInv' /\ (OrphanInv => OrphanInv')
<1>1. /\ tun' \in [Gateways -> [Keys -> Tunnel]]
      /\ queue \subseteq queue' /\ queue' \subseteq Gateways
      /\ \A u \in Gateways \ queue' : tun'[u] = tun[u]
  BY Values, OneTunnel DEF GatewayInv
<1>2. Types' /\ PassTypes'
  BY <1>1 DEF GatewayInv, Types, PassTypes, Managed, HostnamesOf
<1>3. \A u \in Gateways : Minded(u)' => Minded(u) /\ u \notin queue'
  BY <1>1 DEF Minded, Managed
<1>4. \A u \in Gateways : u \notin queue' => Calm(u)
  BY <1>1, SameRoutes DEF Calm
<1>5. RestInv'
  BY <1>3, <1>4, OthersKeep DEF GatewayInv
<1>6. ASSUME OrphanInv PROVE OrphanInv'
  BY <1>6 DEF OrphanInv, NoOrphanedRecord
<1>7. QED
  BY <1>2, <1>5, <1>6 DEF GatewayInv

(* A record is deleted or gone: no event, and nothing the invariant is     *)
(* about.                                                                  *)
LEMMA RecordGoesKeeps ==
    ASSUME GatewayInv, NEW g \in Gateways, NEW h \in Hosts, NEW v \in Record,
           v.phase \notin {"live", "absent"}, rec' = [rec EXCEPT ![g][h] = v],
           UNCHANGED <<gw, route, class, taas, skipped, tun, queue, pass>>
    PROVE  GatewayInv' /\ (OrphanInv => OrphanInv')
<1>1. rec \in [Gateways -> [Hosts -> Record]]
  BY DEF GatewayInv, Types
<1>2. /\ rec' \in [Gateways -> [Hosts -> Record]]
      /\ \A u \in Gateways, i \in Hosts :
            rec'[u][i].phase \in {"live", "absent"} => rec'[u][i] = rec[u][i]
  BY <1>1
<1>3. Types' /\ PassTypes'
  BY <1>2 DEF GatewayInv, Types, PassTypes, Managed, HostnamesOf
<1>4. \A u \in Gateways : (Minded(u)' => Minded(u)) /\ Calm(u)
  BY <1>2, SameRoutes DEF Minded, Managed, Calm
<1>5. RestInv'
  BY <1>4, OthersKeep DEF GatewayInv
<1>6. ASSUME OrphanInv PROVE OrphanInv'
  <2>1. \A u \in Gateways, i \in Hosts :
           rec'[u][i].phase = "live" => rec[u][i].phase = "live"
    BY <1>2
  <2>2. pass.pc # "idle" => pass.g \in Gateways
    BY DEF GatewayInv, PassTypes
  <2>3. QED
    BY <1>6, <2>1, <2>2 DEF OrphanInv, NoOrphanedRecord
<1>7. QED
  BY <1>3, <1>5, <1>6 DEF GatewayInv

LEMMA UsersKeep ==
    ASSUME GatewayInv, Users \/ Others
    PROVE  GatewayInv' /\ (OrphanInv => OrphanInv')
<1>a. /\ rec \in [Gateways -> [Hosts -> Record]]
      /\ taas \subseteq TaaSes
  BY DEF GatewayInv, Types
<1>1. ASSUME NEW a \in TaaSes, CreateTaaS(a)
      PROVE  GatewayInv' /\ (OrphanInv => OrphanInv')
  BY <1>a, <1>1, AccountKeeps DEF CreateTaaS
<1>2. CASE TouchTaaS
  BY <1>a, <1>2, AccountKeeps DEF TouchTaaS
<1>3. ASSUME NEW g \in Gateways, NEW k \in Keys, DeleteTunnel(g, k) \/ Collect(g, k)
      PROVE  GatewayInv' /\ (OrphanInv => OrphanInv')
  BY <1>3, TunnelGoesKeeps DEF DeleteTunnel, Collect
<1>4. ASSUME NEW g \in Gateways, NEW h \in Hosts, DeleteRecord(g, h)
      PROVE  GatewayInv' /\ (OrphanInv => OrphanInv')
  <2>1. PICK v : v = [rec[g][h] EXCEPT !.phase = "deleting"]
    OBVIOUS
  <2>2. rec[g][h] \in Record
    BY <1>a
  <2>3. v \in Record /\ v.phase \notin {"live", "absent"}
    BY <2>1, <2>2 DEF Record
  <2>4. rec' = [rec EXCEPT ![g][h] = v]
    BY <1>a, <1>4, <2>1 DEF DeleteRecord
  <2>5. QED
    BY <1>4, <2>3, <2>4, RecordGoesKeeps DEF DeleteRecord
<1>5. ASSUME NEW g \in Gateways, NEW h \in Hosts, Drained(g, h)
      PROVE  GatewayInv' /\ (OrphanInv => OrphanInv')
  <2>1. PICK v : v = [NoRecord EXCEPT !.phase = "gone"]
    OBVIOUS
  <2>2. v \in Record /\ v.phase \notin {"live", "absent"}
    BY <2>1 DEF Record, NoRecord
  <2>3. QED
    BY <1>5, <2>1, <2>2, RecordGoesKeeps DEF Drained
<1>6. QED
  BY <1>1, <1>2, <1>3, <1>4, <1>5, GatewayChangeKeeps, SetRouteKeeps, SetClassKeeps
     DEF Users, Others

LEMMA GatewayStep ==
    ASSUME GatewayInv, [Reconcile \/ Others \/ Users \/ Faults]_vars
    PROVE  GatewayInv' /\ (OneTaaS /\ OrphanInv => OrphanInv')
<1>1. CASE Reconcile
  BY <1>1, TakeKeeps, AddFinalizerKeeps, AcceptClassKeeps, ListRoutesKeeps,
     UpsertTunnelKeeps, ListTunnelsKeeps, PruneTunnelKeeps, FindTaaSKeeps,
     StampRecordKeeps, ListRecordsKeeps, PruneRecordKeeps, RecordsDoneKeeps,
     UpdateGatewayStatusKeeps, DropFinalizerKeeps DEF Reconcile
<1>2. CASE Users \/ Others
  BY <1>2, UsersKeep
<1>3. CASE CallFails
  BY <1>3, RetryKeeps DEF CallFails
<1>4. CASE CallForgotten \/ Restart
  BY <1>4, CallForgottenKeeps, RestartKeeps
<1>5. CASE UNCHANGED vars
  <2>1. UNCHANGED <<gw, route, class, taas, skipped, tun, rec, queue, pass>>
    BY <1>5 DEF vars
  <2>2. Types' /\ PassTypes'
    BY <2>1 DEF GatewayInv, Types, PassTypes, Managed, HostnamesOf
  <2>3. \A u \in Gateways : (Minded(u)' => Minded(u)) /\ Calm(u)
    BY <2>1, SameRoutes DEF Minded, Managed, Calm
  <2>4. RestInv'
    BY <2>1, <2>3, OthersKeep DEF GatewayInv
  <2>5. OrphanInv => OrphanInv'
    BY <2>1 DEF OrphanInv, NoOrphanedRecord
  <2>6. QED
    BY <2>2, <2>4, <2>5 DEF GatewayInv
<1>6. QED
  BY <1>1, <1>2, <1>3, <1>4, <1>5 DEF Faults

-----------------------------------------------------------------------------
(* The theorems *)

LEMMA GatewayStarts == LiveInit => GatewayInv /\ OrphanInv
<1> SUFFICES ASSUME LiveInit PROVE GatewayInv /\ OrphanInv
  OBVIOUS
<1>1. PICK v : v = [AbsentGateway EXCEPT !.phase = "live", !.listeners = Listeners]
  OBVIOUS
<1>2. v \in GatewayObject /\ v.phase = "live"
  BY <1>1 DEF AbsentGateway, GatewayObject
<1>3. gw \in [Gateways -> {AbsentGateway, v}]
  BY <1>1 DEF LiveInit
<1>4. /\ gw \in [Gateways -> GatewayObject]
      /\ \A g \in Gateways : /\ gw[g].phase = "deleting" => gw[g].fin
                             /\ gw[g].phase = "absent" => ~gw[g].fin
  BY <1>2, <1>3, Values
<1>5. /\ pass = Idle /\ pass.pc = "idle" /\ ~pass.accepts /\ pass \in Pass
      /\ queue = {g \in Gateways : gw[g].phase = "live"}
  BY Values DEF LiveInit
<1>6. rec = [g \in Gateways |-> [h \in Hosts |-> NoRecord]]
  BY DEF LiveInit
<1>7. Types
  BY <1>4, <1>5, Values DEF LiveInit, Types, RouteObject
<1>8. PassTypes
  BY <1>5 DEF PassTypes, Steady, Leaving
<1>9. RestInv
  BY <1>5 DEF RestInv, Minded
<1>10. OrphanInv
  BY <1>5, <1>6, Values DEF OrphanInv, NoOrphanedRecord, Steady
<1>11. QED
  BY <1>7, <1>8, <1>9, <1>10 DEF GatewayInv

LEMMA LiveSteps ==
    [LiveNext]_<<vars, changes>> => [Reconcile \/ Others \/ Users \/ Faults]_vars
BY DEF LiveNext

LEMMA GatewayInvariant == LiveSpec => []GatewayInv
<1>1. GatewayInv /\ [LiveNext]_lvars => GatewayInv'
  BY LiveSteps, GatewayStep DEF lvars
<1>2. QED
  BY <1>1, GatewayStarts, PTL DEF LiveSpec

(* Every object and every pass of the Gateway controller has its type, for *)
(* any Gateways, listeners, routes and outside events.                     *)
THEOREM GatewayTypeCorrect == LiveSpec => []TypeOK
<1>1. GatewayInv => TypeOK
  BY DEF GatewayInv, Types, TypeOK, GatewayObject, RouteObject, Tunnel, Record
<1>2. QED
  BY <1>1, GatewayInvariant, PTL

(* With one AquaductTaaS at most, no DNSRecord outlives its Gateway: the   *)
(* finalizer is there before the first record, and cleanupDNSRecords has   *)
(* every record on its list that it has to delete.  With a second one the  *)
(* early return of findSingletonTaaS leaves records behind.                *)
THEOREM RecordsGoWithGateway ==
    ASSUME OneTaaS
    PROVE  LiveSpec => []NoOrphanedRecord
<1>1. GatewayInv /\ OrphanInv /\ [LiveNext]_lvars => OrphanInv'
  BY LiveSteps, GatewayStep DEF lvars
<1>2. OrphanInv => NoOrphanedRecord
  BY DEF OrphanInv
<1>3. QED
  BY <1>1, <1>2, GatewayInvariant, GatewayStarts, PTL DEF LiveSpec

(* Whenever the controller is at rest, the DNSRecords of a live Gateway    *)
(* are for hostnames its listeners have, and each hostname has been given  *)
(* one since the last edit: every change of a listener, of the class or of *)
(* the AquaductTaaS queues the Gateway, and the pass that follows stamps   *)
(* and prunes by what it still is.  A reconcileDNSRecords that failed is   *)
(* remembered in skipped, and of those Gateways nothing is said.           *)
THEOREM ListenersAreFollowed == LiveSpec => []RecordsFollowListeners
<1>1. GatewayInv => RecordsFollowListeners
  <2> SUFFICES ASSUME GatewayInv, Quiet, Managed, Cardinality(taas) = 1,
                      NEW g \in Gateways \ skipped, gw[g].phase = "live"
               PROVE  /\ \A h \in Hosts : rec[g][h].phase = "live" =>
                            h \in HostnamesOf(gw[g].listeners)
                      /\ \A h \in HostnamesOf(gw[g].listeners) :
                            rec[g][h].phase # "absent"
    BY DEF RecordsFollowListeners
  <2>1. AtRest(g)
    BY DEF GatewayInv, RestInv, Minded, Quiet, Running
  <2>2. RecordsOk(g)
    BY <2>1 DEF AtRest
  <2>3. HostnamesOf(gw[g].listeners) \subseteq Hosts
    BY HostnamesAreHosts DEF GatewayInv, Types, GatewayObject
  <2>4. QED
    BY <2>2, <2>3 DEF RecordsOk, Stamped, RecordOk
<1>2. QED
  BY <1>1, GatewayInvariant, PTL

-----------------------------------------------------------------------------
(* Hostnames *)

(* The names in use show every overlap of two wildcards.                   *)
OverlapsShow ==
    \A r \in Routes, l \in Listeners : Host[l] # NoOne =>
        \A h \in RouteHosts[r] :
            h[1] = "*" /\ Host[l][1] = "*" /\ HostnameMatches(h, Host[l]) =>
                StandsFor(h) \cap StandsFor(Host[l]) # {}

(* Comparing labels from the end is comparing suffixes.                    *)
LEMMA SameSuffix ==
    ASSUME NEW a \in Hostname, NEW n \in Hostname, Len(n) >= Len(a)
    PROVE  SubSeq(n, Len(n) - Len(a) + 2, Len(n)) = Tail(a) <=>
             \A i \in 1..(Len(a) - 1) : a[Len(a) + 1 - i] = n[Len(n) + 1 - i]
<1>1. /\ a \in Seq(STRING) /\ n \in Seq(STRING) /\ a # <<>>
  BY DEF Hostname
<1>2. PICK A \in Nat \ {0}, N \in Nat : A = Len(a) /\ N = Len(n)
  BY <1>1
<1>3. N >= A
  BY <1>2
<1>4. PICK S : S = SubSeq(n, N - A + 2, N)
  OBVIOUS
<1>5. /\ S \in Seq(STRING) /\ Len(S) = A - 1
      /\ \A j \in 1..(A - 1) : S[j] = n[N - A + 1 + j]
  <2>1. PICK m \in Int : m = N - A + 2
    BY <1>2
  <2>2. \A i \in m .. N : n[i] \in STRING
    <3>1. \A i \in 1..N : n[i] \in STRING
      BY <1>1, <1>2
    <3>2. QED
      BY <1>2, <1>3, <2>1, <3>1
  <2>3. S = SubSeq(n, m, N) /\ N \in Int
    BY <1>2, <1>4, <2>1
  <2>4. /\ S \in Seq(STRING)
        /\ Len(S) = IF m <= N THEN N - m + 1 ELSE 0
        /\ \A i \in 1 .. N - m + 1 : S[i] = n[m + i - 1]
    BY <2>2, <2>3, SubSeqProperties
  <2>5. /\ N - m + 1 = A - 1 /\ (m <= N <=> A >= 2)
        /\ \A i \in 1..(A - 1) : m + i - 1 = N - A + 1 + i
    BY <1>2, <2>1
  <2>6. Len(S) = A - 1
    BY <1>2, <2>4, <2>5
  <2>7. ASSUME NEW j \in 1..(A - 1) PROVE S[j] = n[N - A + 1 + j]
    BY <2>4, <2>5
  <2>8. QED
    BY <2>4, <2>6, <2>7
<1>6. /\ Tail(a) \in Seq(STRING) /\ Len(Tail(a)) = A - 1
      /\ \A j \in 1..(A - 1) : Tail(a)[j] = a[j + 1]
  BY <1>1, <1>2, HeadTailProperties
<1>7. S = Tail(a) <=> \A j \in 1..(A - 1) : S[j] = Tail(a)[j]
  BY <1>5, <1>6, SeqEqual
<1>8. ASSUME \A i \in 1..(A - 1) : a[A + 1 - i] = n[N + 1 - i],
             NEW j \in 1..(A - 1)
      PROVE  S[j] = Tail(a)[j]
  <2>1. PICK i \in 1..(A - 1) : i = A - j
    BY <1>2
  <2>2. A + 1 - i = j + 1 /\ N + 1 - i = N - A + 1 + j
    BY <1>2, <2>1
  <2>3. QED
    BY <1>5, <1>6, <1>8, <2>2
<1>9. ASSUME \A j \in 1..(A - 1) : S[j] = Tail(a)[j], NEW i \in 1..(A - 1)
      PROVE  a[A + 1 - i] = n[N + 1 - i]
  <2>1. PICK j \in 1..(A - 1) : j = A - i
    BY <1>2
  <2>2. A + 1 - i = j + 1 /\ N + 1 - i = N - A + 1 + j
    BY <1>2, <2>1
  <2>3. QED
    BY <1>5, <1>6, <1>9, <2>2
<1>10. QED
  BY <1>2, <1>4, <1>7, <1>8, <1>9

(* HostnameMatches is the Gateway API's rule: two hostnames match when     *)
(* some name is covered by both.                                           *)
LEMMA MatchingIsSharing ==
    ASSUME NEW a \in Hostname, NEW b \in Hostname,
           a[1] # "*" => a \in Names, b[1] # "*" => b \in Names,
           \A n \in Names : n \in Hostname,
           a[1] = "*" /\ b[1] = "*" /\ HostnameMatches(a, b) =>
              StandsFor(a) \cap StandsFor(b) # {}
    PROVE  HostnameMatches(a, b) <=> StandsFor(a) \cap StandsFor(b) # {}
<1>1. \A h \in Hostname : h[1] # "*" /\ h \in Names => StandsFor(h) = {h}
  BY DEF StandsFor
<1>2. ASSUME NEW h \in Hostname, NEW n \in Names, h[1] = "*"
      PROVE  n \in StandsFor(h) <=> Covers(h, n)
  <2>1. n \in StandsFor(h) <=>
          Len(n) >= Len(h) /\ SubSeq(n, Len(n) - Len(h) + 2, Len(n)) = Tail(h)
    BY <1>2 DEF StandsFor
  <2>2. Len(n) >= Len(h) =>
          (SubSeq(n, Len(n) - Len(h) + 2, Len(n)) = Tail(h) <=>
             \A i \in 1..(Len(h) - 1) : h[Len(h) + 1 - i] = n[Len(n) + 1 - i])
    BY SameSuffix
  <2>3. QED
    BY <1>2, <2>1, <2>2 DEF Covers
<1>3. CASE a[1] # "*" /\ b[1] # "*"
  BY <1>1, <1>3 DEF HostnameMatches, Covers
<1>4. CASE a[1] = "*" /\ b[1] # "*"
  BY <1>1, <1>2, <1>4 DEF HostnameMatches, Covers
<1>5. CASE a[1] # "*" /\ b[1] = "*"
  BY <1>1, <1>2, <1>5 DEF HostnameMatches, Covers
<1>6. CASE a[1] = "*" /\ b[1] = "*"
  <2>1. ASSUME NEW n \in Names, n \in StandsFor(a), n \in StandsFor(b)
        PROVE  Covers(a, b) \/ Covers(b, a)
    <3>1. Covers(a, n) /\ Covers(b, n)
      BY <1>2, <1>6, <2>1
    <3>2. PICK A \in Nat, B \in Nat, N \in Nat : A = Len(a) /\ B = Len(b) /\ N = Len(n)
      BY DEF Hostname
    <3>3. /\ \A i \in 1..(A - 1) : a[A + 1 - i] = n[N + 1 - i]
          /\ \A i \in 1..(B - 1) : b[B + 1 - i] = n[N + 1 - i]
      BY <3>1, <3>2 DEF Covers
    <3>4. CASE B >= A
      <4>1. \A i \in 1..(A - 1) : i \in 1..(B - 1)
        BY <3>2, <3>4
      <4>2. \A i \in 1..(A - 1) : a[A + 1 - i] = b[B + 1 - i]
        BY <3>3, <4>1
      <4>3. QED
        BY <1>6, <3>2, <3>4, <4>2 DEF Covers
    <3>5. CASE A >= B
      <4>1. \A i \in 1..(B - 1) : i \in 1..(A - 1)
        BY <3>2, <3>5
      <4>2. \A i \in 1..(B - 1) : b[B + 1 - i] = a[A + 1 - i]
        BY <3>3, <4>1
      <4>3. QED
        BY <1>6, <3>2, <3>5, <4>2 DEF Covers
    <3>6. QED
      BY <3>2, <3>4, <3>5
  <2>2. \A h : StandsFor(h) \subseteq Names
    BY DEF StandsFor
  <2>3. QED
    BY <1>6, <2>1, <2>2 DEF HostnameMatches
<1>7. QED
  BY <1>3, <1>4, <1>5, <1>6

LEMMA AttachedBinds ==
    ASSUME Types, NamespacesAgree, OverlapsShow,
           NEW r \in Routes, NEW g \in Gateways, NEW l \in Listeners
    PROVE  Attached(r, g, l) <=> Binds(r, g, l)
<1>1. route[r].refs \subseteq ParentRefs
  BY DEF Types, RouteObject
<1>2. CASE RouteKind[r] # "HTTP"
  <2>1. \A ref \in route[r].refs : RefSelects(r, ref, g, l) <=>
           /\ ref.name = GatewayName[g]
           /\ GatewayNs[g] = (IF ref.ns = NoOne THEN RouteNs[r] ELSE ref.ns)
           /\ ref.section \in {NoOne, l}
    BY DEF RefSelects
  <2>2. \A ref \in route[r].refs : RefSelects(r, ref, g, l) =>
           RouteNs[r] = GatewayNs[g]
    BY <1>1, <1>2 DEF RefSelects, NamespacesAgree
  <2>3. QED
    BY <1>2, <2>1, <2>2 DEF Attached, Binds
<1>3. CASE RouteKind[r] = "HTTP"
  <2>1. \A ref \in route[r].refs : RefFits(ref, g, l) <=>
           /\ ref.name = GatewayName[g]
           /\ GatewayNs[g] = (IF ref.ns = NoOne THEN RouteNs[r] ELSE ref.ns)
           /\ ref.section \in {NoOne, l}
    BY <1>1, <1>3 DEF RefFits, NamespacesAgree
  <2>2. ASSUME Host[l] # NoOne, NEW h \in RouteHosts[r]
        PROVE  HostnameMatches(h, Host[l]) <=> StandsFor(h) \cap StandsFor(Host[l]) # {}
    <3>1. h \in Hostname /\ Host[l] \in Hostname /\ Host[l] \in Hosts
      BY <2>2, GatewayAssumption DEF Hosts
    <3>2. /\ h[1] # "*" => h \in Names
          /\ Host[l][1] # "*" => Host[l] \in Names
      BY <2>2, <3>1 DEF Names
    <3>3. \A n \in Names : n \in Hostname
      BY GatewayAssumption DEF Names, Hosts
    <3>4. QED
      BY <2>2, <3>1, <3>2, <3>3, MatchingIsSharing DEF OverlapsShow
  <2>3. QED
    BY <1>3, <2>1, <2>2 DEF Attached, Binds, HostnamesIntersect
<1>4. QED
  BY <1>2, <1>3

(* Unless a failed list of routes passes for an empty one: whenever the    *)
(* controller is at rest, a live Gateway controls exactly the tunnels the  *)
(* Gateway API's rules call for, with the routes' present backends, for    *)
(* any Gateways, routes, parentRefs and hostnames.  It assumes what the    *)
(* code takes for granted of namespaces, and of the reference definition   *)
(* that its stock of names shows every overlap of two wildcards.           *)
THEOREM RoutesAreFollowed ==
    ASSUME "routes" \notin Forgotten, NamespacesAgree, OverlapsShow
    PROVE  LiveSpec => []TunnelsConverged
<1>1. GatewayInv => TunnelsConverged
  <2> SUFFICES ASSUME GatewayInv, Quiet, Managed, NEW g \in Gateways, gw[g].phase = "live"
               PROVE  {<<k, tun[g][k].src>> :
                          k \in {k \in Keys : tun[g][k].owner = "current"}}
                        = Bound(g)
    BY DEF TunnelsConverged
  <2>1. TunnelsOk(g) /\ Types /\ gw[g].listeners \subseteq Listeners
    <3>1. AtRest(g)
      BY DEF GatewayInv, RestInv, Minded, Quiet, Running
    <3>2. QED
      BY <3>1 DEF AtRest, RoutesHeard, GatewayInv, Types, GatewayObject
  <2>2. PICK B : B = Bound(g)
    OBVIOUS
  <2>3. B = {w \in Keys \X Backends : \E r \in Routes, l \in gw[g].listeners :
               /\ Binds(r, g, l)
               /\ \E b \in route[r].rules : w = <<TunnelKey(r, l, b[1]), b[2]>>}
    <3>1. PICK P : P = {x \in Routes \X gw[g].listeners : Binds(x[1], g, x[2])}
      OBVIOUS
    <3>2. P \in SUBSET (Routes \X Listeners)
      BY <2>1, <3>1
    <3>3. B = {w \in Keys \X Backends : \E x \in P : \E b \in route[x[1]].rules :
                 w = <<TunnelKey(x[1], x[2], b[1]), b[2]>>}
      BY <2>1, <2>2, <3>1, <3>2, CalledForByIs DEF Bound
    <3>4. ASSUME NEW w, NEW r \in Routes, NEW l \in gw[g].listeners, Binds(r, g, l),
                 NEW b \in route[r].rules, w = <<TunnelKey(r, l, b[1]), b[2]>>
          PROVE  \E x \in P : \E c \in route[x[1]].rules :
                    w = <<TunnelKey(x[1], x[2], c[1]), c[2]>>
      <4>1. <<r, l>> \in P
        BY <3>1, <3>4
      <4>2. QED
        BY <3>4, <4>1
    <3>5. ASSUME NEW w, NEW x \in P, NEW b \in route[x[1]].rules,
                 w = <<TunnelKey(x[1], x[2], b[1]), b[2]>>
          PROVE  \E r \in Routes, l \in gw[g].listeners :
                    /\ Binds(r, g, l)
                    /\ \E c \in route[r].rules : w = <<TunnelKey(r, l, c[1]), c[2]>>
      BY <3>1, <3>5
    <3>6. QED
      BY <3>3, <3>4, <3>5
  <2>4. B = Called(KindSet, g)
    <3>1. \A r \in Routes : RouteKind[r] \in KindSet
      <4>1. {Kinds[i] : i \in 1..Len(Kinds)} = KindSet
        BY KindFacts DEF Left
      <4>2. QED
        BY <4>1, GatewayAssumption
    <3>2. \A r \in Routes, l \in gw[g].listeners : Attached(r, g, l) <=> Binds(r, g, l)
      BY <2>1, AttachedBinds
    <3>3. QED
      BY <2>3, <3>1, <3>2 DEF Called
  <2>5. ASSUME NEW k \in Keys, tun[g][k].owner = "current"
        PROVE  <<k, tun[g][k].src>> \in B
    <3>1. PICK w \in Called(KindSet, g) : w[1] = k /\ InPlace(g, w)
      BY <2>1, <2>5 DEF TunnelsOk
    <3>2. w \in B /\ w = <<w[1], w[2]>>
      BY <2>3, <2>4
    <3>3. QED
      BY <3>1, <3>2 DEF InPlace
  <2>6. ASSUME NEW x \in B
        PROVE  \E k \in Keys : tun[g][k].owner = "current" /\ x = <<k, tun[g][k].src>>
    <3>1. InPlace(g, x) /\ x[1] \in Keys /\ x = <<x[1], x[2]>>
      BY <2>1, <2>3, <2>4 DEF TunnelsOk
    <3>2. QED
      BY <3>1 DEF InPlace
  <2>7. QED
    BY <2>2, <2>5, <2>6
<1>2. QED
  BY <1>1, GatewayInvariant, PTL
=============================================================================
