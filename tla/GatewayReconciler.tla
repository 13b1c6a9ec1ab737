-------------------------- MODULE GatewayReconciler --------------------------
(***************************************************************************)
(* The Gateway controller: one WeftTunnel per route and listener it binds  *)
(* to, one DNSRecord per listener hostname in the namespace of the only    *)
(* AquaductTaaS.  Passes are driven by events alone.  A Gateway stands for *)
(* its namespace and name; hostnames are sequences of labels, so that      *)
(* <<"*", "x">> is *.x.  The rules of a route are the pairs of path and    *)
(* backend its matches and backendRefs come to, several backends for one   *)
(* path included.  Listeners are those the API server lets through: the    *)
(* CRD allows no hostname on a TCP or UDP listener, so that the controller *)
(* never gets to pin a record to a bastion.                                *)
(***************************************************************************)
EXTENDS Naturals, Sequences, FiniteSets

CONSTANTS
    Gateways,     \* Gateway objects
    Listeners,    \* listeners a Gateway may have; a listener is one port
    Routes,       \* HTTPRoute, TCPRoute, TLSRoute and UDPRoute objects
    Paths,        \* paths an HTTPRoute may match
    Backends,     \* backend Services
    RuleSets,     \* what the rules of a route may come to
    TaaSes,       \* AquaductTaaS objects of the cluster
    GatewayNs, GatewayName,  \* of a Gateway
    Host,         \* [Listeners -> hostname or NoOne]
    Protocol,     \* [Listeners -> HTTP, HTTPS, TLS, TCP or UDP]
    RouteKind,    \* [Routes -> HTTP, TCP, TLS or UDP]
    RouteNs, RouteName,      \* of a route
    RouteHosts,   \* [Routes -> set of hostnames]: spec.hostnames
    ParentRefs,   \* the parentRefs a route may have: [name, ns, section]
    NoOne,        \* a field that is not set
    Forgotten     \* calls that may fail of those whose failure is only logged

Kinds == <<"HTTP", "TCP", "TLS", "UDP">>

Hostname == Seq(STRING) \ {<<>>}

ASSUME GatewayAssumption ==
    /\ \A l \in Listeners : Protocol[l] \in {"HTTP", "HTTPS", "TLS", "TCP", "UDP"}
    /\ \A l \in Listeners : Host[l] \in Hostname \cup {NoOne}
    /\ \A l \in Listeners : Protocol[l] \in {"TCP", "UDP"} => Host[l] = NoOne
    /\ \A R \in RuleSets : R \subseteq Paths \X Backends
    /\ \A r \in Routes : RouteKind[r] \in {Kinds[i] : i \in 1..Len(Kinds)}
    /\ \A r \in Routes : RouteHosts[r] \subseteq Hostname
    /\ Forgotten \subseteq {"class", "routes", "records"}

VARIABLES
    gw,     \* Gateway objects
    route,  \* per route: its parentRefs ({}: no such route) and its rules
    class,  \* the GatewayClass: absent, another controller's, ours, ours and accepted
    taas,   \* the AquaductTaaS objects that exist
    tun,    \* per Gateway and tunnel key: the WeftTunnel
    rec,    \* per Gateway and hostname: the DNSRecord labelled with them
    queue,  \* the controller's work queue
    pass,   \* the pass of the controller's worker
    skipped \* history: Gateways whose last reconcileDNSRecords failed, which is logged

vars == <<gw, route, class, taas, tun, rec, queue, pass, skipped>>

Hosts == {Host[l] : l \in Listeners} \ {NoOne}

(* The URL a listener and a path give a route, and what the name of the    *)
(* tunnel is a hash of: not the backend.                                   *)
DstURL(r, l, path) ==
    CASE RouteKind[r] = "HTTP" ->
           <<IF Protocol[l] = "HTTPS" THEN "https" ELSE "http", Host[l], path>>
      [] RouteKind[r] = "TLS" -> <<"https", Host[l]>>
      [] OTHER -> <<RouteKind[r], l>>

TunnelKey(r, l, path) == <<RouteName[r], DstURL(r, l, path)>>

Keys == {TunnelKey(r, l, path) : r \in Routes, l \in Listeners, path \in Paths}

(* A Gateway: its finalizer, its listeners, and whether its status says    *)
(* Accepted and Programmed for this generation.                            *)
AbsentGateway == [phase |-> "absent", fin |-> FALSE, listeners |-> {},
                  programmed |-> FALSE]

(* A tunnel: whose controller reference it has, and its source URL.        *)
NoTunnel == [owner |-> "none", src |-> NoOne]

(* A DNSRecord and the AquaductTaaS it names.  "gone" is absent as well,   *)
(* of a record that went since the last reconcileDNSRecords began.         *)
NoRecord == [phase |-> "absent", taas |-> NoOne]

Missing == {"absent", "gone"}

(* A pass: its Gateway as it was read and whether it is still like that;   *)
(* whether the class read is to be accepted; the route kinds to list; what *)
(* is left to write or prune and what has been written (tunnels, then      *)
(* records); the AquaductTaaS it found.  A Gateway a pass writes for has   *)
(* the finalizer, so it outlasts the pass.                                 *)
Idle == [pc |-> "idle", g |-> NoOne, copy |-> AbsentGateway, fresh |-> TRUE,
         accepts |-> FALSE, kinds |-> <<>>, todo |-> {}, expected |-> {},
         taas |-> NoOne]

TypeOK ==
    /\ \A g \in Gateways : /\ gw[g].phase \in {"absent", "live", "deleting"}
                           /\ gw[g].fin \in BOOLEAN
                           /\ gw[g].listeners \subseteq Listeners
                           /\ gw[g].programmed \in BOOLEAN
                           /\ gw[g].phase = "deleting" => gw[g].fin
    /\ \A r \in Routes : route[r].refs \subseteq ParentRefs /\ route[r].rules \in RuleSets
    /\ class \in {"absent", "other", "ours", "accepted"}
    /\ taas \subseteq TaaSes
    /\ tun \in [Gateways -> [Keys -> [owner: {"none", "current", "former"},
                                      src: Backends \cup {NoOne}]]]
    /\ rec \in [Gateways -> [Hosts -> [phase: {"absent", "live", "deleting", "gone"},
                                       taas: TaaSes \cup {NoOne}]]]
    /\ queue \subseteq Gateways
    /\ skipped \subseteq Gateways

pg == pass.g

Managed == class \in {"ours", "accepted"}

-----------------------------------------------------------------------------
(* Attachment *)

Covers(a, b) ==
    /\ a[1] = "*"
    /\ Len(b) >= Len(a)
    /\ \A i \in 1..(Len(a) - 1) : a[Len(a) + 1 - i] = b[Len(b) + 1 - i]

HostnameMatches(a, b) == a = b \/ Covers(a, b) \/ Covers(b, a)

HostnamesIntersect(r, l) ==
    \/ Host[l] = NoOne
    \/ RouteHosts[r] = {}
    \/ \E h \in RouteHosts[r] : HostnameMatches(h, Host[l])

(* isRouteAttachedToGateway and the gates of isRouteAttachedToListener: a  *)
(* parentRef without a namespace fits a Gateway in any.                    *)
RefFits(ref, g, l) ==
    /\ ref.name = GatewayName[g]
    /\ ref.ns \in {NoOne, GatewayNs[g]}
    /\ ref.section \in {NoOne, l}

(* parentRefsSelectListener, for the other kinds.                          *)
RefSelects(r, ref, g, l) ==
    /\ ref.name = GatewayName[g]
    /\ GatewayNs[g] = (IF ref.ns = NoOne THEN RouteNs[r] ELSE ref.ns)
    /\ ref.section \in {NoOne, l}

(* Mutant: every attached route is paired with every listener.             *)
AttachedCrossProduct(r, g, l) ==
    \E ref \in route[r].refs : ref.name = GatewayName[g]

Attached(r, g, l) ==
    CASE RouteKind[r] = "HTTP" ->
           /\ Host[l] # NoOne
           /\ \E ref \in route[r].refs : RefFits(ref, g, l)
           /\ HostnamesIntersect(r, l)
      [] OTHER ->
           /\ Protocol[l] = RouteKind[r]
           /\ RouteKind[r] = "TLS" => Host[l] # NoOne
           /\ RouteNs[r] = GatewayNs[g]
           /\ \E ref \in route[r].refs : RefSelects(r, ref, g, l)

(* A tunnel and a backend for each rule, match and backendRef of routes    *)
(* and listeners that go together.                                         *)
CalledForBy(pairs) ==
    UNION {{<<TunnelKey(x[1], x[2], b[1]), b[2]>> : b \in route[x[1]].rules} : x \in pairs}

(* What is written for the routes of one kind.                             *)
Wanted(kind, g, listeners) ==
    CalledForBy({x \in Routes \X listeners :
                    RouteKind[x[1]] = kind /\ Attached(x[1], g, x[2])})

-----------------------------------------------------------------------------
(* Watches *)

(* findGatewaysFromParentRefs. *)
FindGatewaysForRoute(r, refs) ==
    {g \in Gateways : \E ref \in refs :
        /\ ref.name = GatewayName[g]
        /\ GatewayNs[g] = (IF ref.ns = NoOne THEN RouteNs[r] ELSE ref.ns)}

(* Mutant: nobody watches the AquaductTaaS.                                *)
FindGatewaysForTaaSNone == {}

FindGatewaysForAquaductTaaS ==
    {g \in Gateways : gw[g].phase # "absent" /\ Managed}

FindGatewaysForClass == {g \in Gateways : gw[g].phase # "absent"}

SetTunnel(g, k, t) ==
    /\ tun' = [tun EXCEPT ![g][k] = t]
    /\ queue' = IF t = tun[g][k] THEN queue ELSE queue \cup {g}

-----------------------------------------------------------------------------
(* Reconcile *)

Retry == /\ queue' = queue \cup {pg}
         /\ pass' = Idle

(* The worker takes a Gateway off the queue and reads it and its class;    *)
(* without a class it is queued again.                                     *)
Take(g) ==
    /\ pass.pc = "idle"
    /\ g \in queue
    /\ LET start(pc) ==
             /\ queue' = queue \ {g}
             /\ pass' = [Idle EXCEPT !.pc = pc, !.g = g, !.copy = gw[g],
                                     !.accepts = class = "ours", !.kinds = Kinds]
       IN  \/ /\ gw[g].phase = "absent" \/ class = "other"
              /\ queue' = queue \ {g}
              /\ pass' = Idle
           \/ /\ gw[g].phase # "absent" /\ class = "absent"
              /\ UNCHANGED <<queue, pass>>
           \/ /\ gw[g].phase = "deleting" /\ Managed
              /\ start("taas")
           \/ /\ gw[g].phase = "live" /\ Managed
              /\ start(IF gw[g].fin THEN "class" ELSE "finalizer")
    /\ UNCHANGED <<gw, route, class, taas, skipped, tun, rec>>

(* Mutant: a pass whose finalizer was refused goes on all the same.        *)
AddFinalizerIgnoresConflict ==
    /\ pass.pc = "finalizer"
    /\ gw' = IF pass.fresh THEN [gw EXCEPT ![pg].fin = TRUE] ELSE gw
    /\ pass' = [pass EXCEPT !.pc = "class"]
    /\ queue' = queue \cup {pg}
    /\ UNCHANGED <<route, class, taas, skipped, tun, rec>>

(* Stamp the finalizer and go on: Update refreshes the copy.               *)
AddFinalizer ==
    /\ pass.pc = "finalizer"
    /\ \/ /\ pass.fresh
          /\ gw' = [gw EXCEPT ![pg].fin = TRUE]
          /\ pass' = [pass EXCEPT !.pc = "class", !.copy.fin = TRUE]
          /\ queue' = queue \cup {pg}
       \/ /\ ~pass.fresh
          /\ Retry
          /\ UNCHANGED gw
    /\ UNCHANGED <<route, class, taas, skipped, tun, rec>>

(* updateGatewayClassStatus: an event for every Gateway of the class.      *)
AcceptClass ==
    /\ pass.pc = "class"
    /\ pass' = [pass EXCEPT !.pc = "routes"]
    /\ IF pass.accepts
       THEN class' = "accepted" /\ queue' = queue \cup FindGatewaysForClass
       ELSE UNCHANGED <<class, queue>>
    /\ UNCHANGED <<gw, route, taas, skipped, tun, rec>>

(* List the routes of the next kind: HTTPRoutes of the cluster, the others *)
(* of the Gateway's namespace.                                             *)
ListRoutes ==
    /\ pass.pc = "routes"
    /\ pass.todo = {}
    /\ pass.kinds # <<>>
    /\ pass' = [pass EXCEPT !.kinds = Tail(@),
                            !.todo = Wanted(Head(pass.kinds), pg, pass.copy.listeners)]
    /\ UNCHANGED <<gw, route, class, taas, skipped, tun, rec, queue>>

(* createOrUpdateTunnel, once per backend: of two that share a tunnel the  *)
(* one written last stays.  SetControllerReference refuses a tunnel that a *)
(* Gateway of the same name left behind.                                   *)
UpsertTunnel(w) ==
    /\ pass.pc = "routes"
    /\ w \in pass.todo
    /\ \/ /\ tun[pg][w[1]].owner \in {"none", "current"}
          /\ SetTunnel(pg, w[1], [owner |-> "current", src |-> w[2]])
          /\ pass' = [pass EXCEPT !.todo = @ \ {w}, !.expected = @ \cup {w[1]}]
       \/ /\ tun[pg][w[1]].owner \notin {"none", "current"}
          /\ Retry
          /\ UNCHANGED tun
    /\ UNCHANGED <<gw, route, class, taas, skipped, rec>>

(* List the tunnels this Gateway controls.                                 *)
ListTunnels ==
    /\ pass.pc = "routes"
    /\ pass.todo = {}
    /\ pass.kinds = <<>>
    /\ pass' = [pass EXCEPT !.pc = "prune",
                            !.todo = {k \in Keys : tun[pg][k].owner = "current"}
                                       \ pass.expected]
    /\ UNCHANGED <<gw, route, class, taas, skipped, tun, rec, queue>>

PruneTunnel(k) ==
    /\ pass.pc = "prune"
    /\ k \in pass.todo
    /\ \/ /\ tun[pg][k].owner # "none"
          /\ SetTunnel(pg, k, NoTunnel)
          /\ pass' = [pass EXCEPT !.todo = @ \ {k}]
       \/ /\ tun[pg][k].owner = "none"
          /\ Retry
          /\ UNCHANGED tun
    /\ UNCHANGED <<gw, route, class, taas, skipped, rec>>

-----------------------------------------------------------------------------
(* DNSRecords *)

(* classifyListenerHostnames.                                              *)
HostnamesOf(listeners) == {Host[l] : l \in listeners} \ {NoOne}

(* findSingletonTaaS, for reconcileDNSRecords and for cleanupDNSRecords:   *)
(* none, or more than one, and DNS is left alone.  From here on a record   *)
(* that is gone counts as missing.                                         *)
FindTaaS ==
    /\ \/ pass.pc = "prune" /\ pass.todo = {}
       \/ pass.pc = "taas"
    /\ LET done == IF pass.copy.phase = "deleting" THEN "drop" ELSE "status"
           next == IF pass.copy.phase = "deleting" THEN "records" ELSE "stamp"
       IN  \/ /\ Cardinality(taas) # 1
              /\ pass' = [pass EXCEPT !.pc = done, !.todo = {}]
              /\ UNCHANGED rec
           \/ \E a \in taas :
              /\ taas = {a}
              /\ pass' = [pass EXCEPT !.pc = next, !.taas = a, !.expected = {},
                            !.todo = IF next = "records" THEN {}
                                     ELSE HostnamesOf(pass.copy.listeners)]
              /\ rec' = [rec EXCEPT ![pg] = [h \in Hosts |->
                            IF rec[pg][h].phase = "gone" THEN NoRecord ELSE rec[pg][h]]]
    /\ UNCHANGED <<gw, route, class, taas, skipped, tun, queue>>

(* CreateOrUpdate one DNSRecord; one that is being deleted is written to   *)
(* and goes all the same.                                                  *)
StampRecord(h) ==
    /\ pass.pc = "stamp"
    /\ h \in pass.todo
    /\ rec' = [rec EXCEPT ![pg][h] =
                 [phase |-> IF @.phase \in Missing THEN "live" ELSE @.phase,
                  taas |-> pass.taas]]
    /\ pass' = [pass EXCEPT !.todo = @ \ {h}, !.expected = @ \cup {h}]
    /\ UNCHANGED <<gw, route, class, taas, skipped, tun, queue>>

(* List the records that carry the Gateway's labels; with cleanup none of  *)
(* them is expected.                                                       *)
ListRecords ==
    /\ pass.todo = {}
    /\ \/ pass.pc = "stamp"
       \/ pass.pc = "records"
    /\ pass' = [pass EXCEPT !.pc = "obsolete",
                            !.todo = {h \in Hosts : rec[pg][h].phase \notin Missing}
                                       \ pass.expected]
    /\ UNCHANGED <<gw, route, class, taas, skipped, tun, rec, queue>>

PruneRecord(h) ==
    /\ pass.pc = "obsolete"
    /\ h \in pass.todo
    /\ rec' = [rec EXCEPT ![pg][h].phase = IF @ = "live" THEN "deleting" ELSE @]
    /\ pass' = [pass EXCEPT !.todo = @ \ {h}]
    /\ UNCHANGED <<gw, route, class, taas, skipped, tun, queue>>

(* Mutant: the finalizer waits until the records are gone, which is no     *)
(* event for this controller.                                              *)
RecordsDoneWaits ==
    /\ pass.pc = "obsolete"
    /\ pass.todo = {}
    /\ pass' = IF pass.copy.phase = "live" THEN [pass EXCEPT !.pc = "status"]
               ELSE IF \E h \in Hosts : rec[pg][h].phase \notin Missing THEN Idle
               ELSE [pass EXCEPT !.pc = "drop"]
    /\ skipped' = skipped \ {pg}
    /\ UNCHANGED <<gw, route, class, taas, tun, rec, queue>>

RecordsDone ==
    /\ pass.pc = "obsolete"
    /\ pass.todo = {}
    /\ pass' = [pass EXCEPT !.pc = IF pass.copy.phase = "deleting"
                                   THEN "drop" ELSE "status"]
    /\ skipped' = skipped \ {pg}
    /\ UNCHANGED <<gw, route, class, taas, tun, rec, queue>>

(* Mutant: the conditions get the time of the pass, a change every time.   *)
UpdateGatewayStatusStampsTime ==
    /\ pass.pc = "status"
    /\ gw' = IF pass.fresh THEN [gw EXCEPT ![pg].programmed = TRUE] ELSE gw
    /\ queue' = queue \cup {pg}
    /\ pass' = Idle
    /\ UNCHANGED <<route, class, taas, skipped, tun, rec>>

(* updateGatewayStatus: Accepted and Programmed, whatever came of DNS; a   *)
(* status that changed is an event like any other.                         *)
UpdateGatewayStatus ==
    /\ pass.pc = "status"
    /\ \/ /\ pass.fresh
          /\ gw' = [gw EXCEPT ![pg].programmed = TRUE]
          /\ queue' = IF gw' = gw THEN queue ELSE queue \cup {pg}
          /\ pass' = Idle
       \/ /\ ~pass.fresh
          /\ Retry
          /\ UNCHANGED gw
    /\ UNCHANGED <<route, class, taas, skipped, tun, rec>>

(* The cleanup is done: drop the finalizer, and the Gateway goes.          *)
DropFinalizer ==
    /\ pass.pc = "drop"
    /\ \/ /\ pass.fresh
          /\ gw' = [gw EXCEPT ![pg] = AbsentGateway]
          /\ tun' = [tun EXCEPT ![pg] = [k \in Keys |->
                       IF tun[pg][k].owner = "current"
                       THEN [tun[pg][k] EXCEPT !.owner = "former"] ELSE tun[pg][k]]]
          /\ pass' = Idle
          /\ queue' = queue \cup {pg}
       \/ /\ ~pass.fresh
          /\ Retry
          /\ UNCHANGED <<gw, tun>>
    /\ UNCHANGED <<route, class, taas, skipped, rec>>

Reconcile ==
    \/ \E g \in Gateways : Take(g)
    \/ AddFinalizer
    \/ AcceptClass
    \/ ListRoutes
    \/ \E w \in Keys \X Backends : UpsertTunnel(w)
    \/ ListTunnels
    \/ \E k \in Keys : PruneTunnel(k)
    \/ FindTaaS
    \/ \E h \in Hosts : StampRecord(h)
    \/ ListRecords
    \/ \E h \in Hosts : PruneRecord(h)
    \/ RecordsDone
    \/ UpdateGatewayStatus
    \/ DropFinalizer

-----------------------------------------------------------------------------
(* Failing calls *)

(* The pass ends with the error and is queued again.                       *)
CallFails ==
    /\ \/ pass.pc \in {"finalizer", "taas", "records", "status", "drop"}
       \/ pass.pc = "prune" /\ pass.todo # {}
       \/ pass.pc = "routes" /\ (pass.todo # {} \/ pass.kinds \in {Kinds, <<>>})
       \/ pass.pc = "obsolete" /\ pass.copy.phase = "deleting"
    /\ Retry
    /\ UNCHANGED <<gw, route, class, taas, skipped, tun, rec>>

(* What is about to be called whose failure the code only logs: the        *)
(* class's status, the list of the routes of another kind, and all that is *)
(* done for the records of a Gateway nobody deletes.                       *)
Logged ==
    CASE pass.pc = "class" /\ pass.accepts -> "class"
      [] pass.pc = "routes" /\ pass.todo = {} /\ pass.kinds # <<>> -> "routes"
      [] pass.pc = "prune" /\ pass.todo = {} -> "records"
      [] pass.pc \in {"stamp", "obsolete"} -> "records"
      [] OTHER -> "none"

CallForgotten ==
    /\ Logged \in Forgotten
    /\ pass.copy.phase = "live"
    /\ Logged = "routes" => Head(pass.kinds) # "HTTP"
    /\ pass' = [pass EXCEPT !.pc = IF Logged = "records" THEN "status" ELSE "routes",
                            !.kinds = IF Logged = "routes" THEN Tail(@) ELSE @,
                            !.todo = {}]
    /\ skipped' = IF Logged = "records" THEN skipped \cup {pg} ELSE skipped
    /\ UNCHANGED <<gw, route, class, taas, tun, rec, queue>>

-----------------------------------------------------------------------------
(* Users, the other controllers and the cluster *)

(* A write of g makes the copy of the pass under way stale, and an event.  *)
Touch(g, new) ==
    /\ gw' = [gw EXCEPT ![g] = new]
    /\ pass' = [pass EXCEPT !.fresh = @ /\ pg # g]
    /\ queue' = queue \cup {g}
    /\ UNCHANGED <<route, class, taas, skipped, tun, rec>>

CreateGateway(g) ==
    /\ gw[g].phase = "absent"
    /\ \E L \in SUBSET Listeners \ {{}} :
          Touch(g, [AbsentGateway EXCEPT !.phase = "live", !.listeners = L])

EditListeners(g) ==
    /\ gw[g].phase # "absent"
    /\ \E L \in SUBSET Listeners \ {{}, gw[g].listeners} :
          Touch(g, [gw[g] EXCEPT !.listeners = L, !.programmed = FALSE])

DeleteGateway(g) ==
    /\ gw[g].phase = "live"
    /\ Touch(g, IF gw[g].fin THEN [gw[g] EXCEPT !.phase = "deleting"]
                ELSE AbsentGateway)

(* A route is created, changed or deleted: an event for the parents it had *)
(* and for those it has.                                                   *)
SetRoute(r) ==
    /\ \E refs \in SUBSET ParentRefs, rules \in RuleSets :
          /\ <<refs, rules>> # <<route[r].refs, route[r].rules>>
          /\ route' = [route EXCEPT ![r] = [refs |-> refs, rules |-> rules]]
          /\ queue' = queue \cup FindGatewaysForRoute(r, route[r].refs)
                            \cup FindGatewaysForRoute(r, refs)
    /\ UNCHANGED <<gw, class, taas, skipped, tun, rec, pass>>

(* The class is created or deleted: controllerName cannot change.          *)
SetClass ==
    /\ class' \in (IF class = "absent" THEN {"ours", "other"} ELSE {"absent"})
    /\ queue' = IF {class, class'} \cap {"ours", "accepted"} # {}
                THEN queue \cup FindGatewaysForClass ELSE queue
    /\ pass' = [pass EXCEPT !.accepts = FALSE]
    /\ UNCHANGED <<gw, route, taas, skipped, tun, rec>>

CreateTaaS(a) ==
    /\ a \notin taas
    /\ taas' = taas \cup {a}
    /\ queue' = queue \cup FindGatewaysForAquaductTaaS
    /\ UNCHANGED <<gw, route, class, skipped, tun, rec, pass>>

(* The AquaductTaaS controller writes its status, and nothing changes for  *)
(* a Gateway but that it is queued.                                        *)
TouchTaaS ==
    /\ taas # {}
    /\ queue' = queue \cup FindGatewaysForAquaductTaaS
    /\ UNCHANGED <<gw, route, class, taas, tun, rec, pass, skipped>>

DeleteTunnel(g, k) ==
    /\ tun[g][k].owner # "none"
    /\ SetTunnel(g, k, NoTunnel)
    /\ UNCHANGED <<gw, route, class, taas, skipped, rec, pass>>

(* The garbage collector removes what a Gateway that is gone controlled.   *)
Collect(g, k) ==
    /\ tun[g][k].owner = "former"
    /\ SetTunnel(g, k, NoTunnel)
    /\ UNCHANGED <<gw, route, class, taas, skipped, rec, pass>>

DeleteRecord(g, h) ==
    /\ rec[g][h].phase = "live"
    /\ rec' = [rec EXCEPT ![g][h].phase = "deleting"]
    /\ UNCHANGED <<gw, route, class, taas, skipped, tun, queue, pass>>

(* The DNSRecord controller is done with a record; nobody here watches.    *)
Drained(g, h) ==
    /\ rec[g][h].phase = "deleting"
    /\ rec' = [rec EXCEPT ![g][h] = [NoRecord EXCEPT !.phase = "gone"]]
    /\ UNCHANGED <<gw, route, class, taas, skipped, tun, queue, pass>>

(* The operator starts again and lists every Gateway.                      *)
Restart ==
    /\ <<pass, queue>> # <<Idle, {}>>
    /\ pass' = Idle
    /\ queue' = {g \in Gateways : gw[g].phase # "absent"}
    /\ UNCHANGED <<gw, route, class, taas, skipped, tun, rec>>

Users ==
    \/ \E g \in Gateways : CreateGateway(g) \/ EditListeners(g) \/ DeleteGateway(g)
    \/ \E r \in Routes : SetRoute(r)
    \/ SetClass
    \/ \E a \in TaaSes : CreateTaaS(a)
    \/ TouchTaaS
    \/ \E g \in Gateways, k \in Keys : DeleteTunnel(g, k)
    \/ \E g \in Gateways, h \in Hosts : DeleteRecord(g, h)

Faults == CallFails \/ CallForgotten \/ Restart

Others ==
    \/ \E g \in Gateways, k \in Keys : Collect(g, k)
    \/ \E g \in Gateways, h \in Hosts : Drained(g, h)

-----------------------------------------------------------------------------
(* Correctness *)

Quiet == pass.pc = "idle" /\ queue = {}

(* The names a listener's or a route's hostname stands for, of those with  *)
(* a label given to each "*".                                              *)
Names == {h \in Hosts \cup UNION {RouteHosts[r] : r \in Routes} : h[1] # "*"}

StandsFor(h) ==
    {n \in Names : IF h[1] = "*" THEN Len(n) >= Len(h)
                                      /\ SubSeq(n, Len(n) - Len(h) + 2, Len(n)) = Tail(h)
                   ELSE n = h}

(* The part of the Gateway API's rule the controller is held to: the route *)
(* names the Gateway, in its own namespace unless it says otherwise, and   *)
(* the listener or none; an HTTPRoute shares a hostname with the listener, *)
(* the others have its protocol; where the name is all there is to route   *)
(* by, the listener needs one.  The API asks for more: that an HTTPRoute's *)
(* listener is HTTP or HTTPS, that a TLSRoute shares a hostname too, and   *)
(* that allowedRoutes lets the route in.  The controller checks none of    *)
(* these, and this definition does not say that it does.                   *)
Binds(r, g, l) ==
    /\ \E ref \in route[r].refs :
          /\ ref.name = GatewayName[g]
          /\ GatewayNs[g] = (IF ref.ns = NoOne THEN RouteNs[r] ELSE ref.ns)
          /\ ref.section \in {NoOne, l}
    /\ RouteKind[r] \in {"HTTP", "TLS"} => Host[l] # NoOne
    /\ IF RouteKind[r] = "HTTP"
       THEN \/ RouteHosts[r] = {}
            \/ \E h \in RouteHosts[r] : StandsFor(h) \cap StandsFor(Host[l]) # {}
       ELSE Protocol[l] = RouteKind[r]

(* The tunnels and backends the routes that bind call for.                 *)
Bound(g) == CalledForBy({x \in Routes \X gw[g].listeners : Binds(x[1], g, x[2])})

(* No event is missed and nothing obsolete survives: with the queue empty  *)
(* and no pass running, a Gateway controls exactly one tunnel per route,   *)
(* path and listener that bind, to the present backend.                    *)
TunnelsConverged ==
    Quiet /\ Managed => \A g \in Gateways : gw[g].phase = "live" =>
        {<<k, tun[g][k].src>> : k \in {k \in Keys : tun[g][k].owner = "current"}}
          = Bound(g)

(* No tunnel is called for with two backends.                              *)
OneBackend == \A g \in Gateways : \A v, w \in Bound(g) : v[1] = w[1] => v = w

(* A DNSRecord never outlives the Gateway it was stamped for: while it is  *)
(* not being deleted, the Gateway's finalizer is there to have it deleted. *)
NoOrphanedRecord ==
    \A g \in Gateways, h \in Hosts : rec[g][h].phase = "live" => gw[g].fin

(* The records follow the listeners: with nothing left to do, every record *)
(* of a live Gateway is for a hostname it still has, and every hostname    *)
(* has a record unless it went since the last reconcileDNSRecords began,   *)
(* which nobody here watches: deleted by a user, or pruned before and      *)
(* still draining when it was written again.  Of a Gateway whose last      *)
(* reconcileDNSRecords failed nothing is said: the failure is only logged. *)
(* Whatever queues the Gateway next makes up for both.                     *)
RecordsFollowListeners ==
    Quiet /\ Managed /\ Cardinality(taas) = 1 =>
        \A g \in Gateways \ skipped : gw[g].phase = "live" =>
            /\ \A h \in Hosts : rec[g][h].phase = "live" =>
                  h \in HostnamesOf(gw[g].listeners)
            /\ \A h \in HostnamesOf(gw[g].listeners) : rec[g][h].phase # "absent"
=============================================================================
