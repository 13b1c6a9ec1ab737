----------------------------- MODULE ServerFleet -----------------------------
(***************************************************************************)
(* The WeftServer controller and the NodeProber on the same WeftServers,   *)
(* among nodes that come and go, users, failing calls and restarts.        *)
(***************************************************************************)
EXTENDS NodeProber

CONSTANT FleetEvents  \* bound on what happens from outside

ASSUME FleetAssumption == FleetEvents \in Nat

VARIABLE fleetEvents  \* outside events so far

fleetVars == <<serverVars, nodes, pr, fleetEvents>>

FleetInit == ServerInit /\ ProberInit /\ fleetEvents = 0

(* A node joins, leaves, gets its address or becomes fit for a server.     *)
NodeChange(n) ==
    /\ \E s \in NodeStates \ {nodes[n]} :
          /\ nodes' = [nodes EXCEPT ![n] = s]
          /\ pr' = IF s = "absent" /\ ~PRAt("idle")
                   THEN [pr EXCEPT !.gone = @ \cup {n}] ELSE pr
    /\ UNCHANGED serverVars

(* Users make WeftServers of the name, with the label or without it.       *)
UserCreates(n) ==
    /\ ws[n].uid = 0
    /\ \E l \in {"Internal", "External"}, b \in BOOLEAN :
          CreateServer(n, [NoServer EXCEPT !.loc = l, !.labelled = b])
    /\ UNCHANGED <<objs, clients, sp, backend, nodes, pr>>

(* spec.location is edited.                                                *)
UserMoves(n) ==
    /\ ws[n].uid # 0
    /\ version' = version + 1
    /\ \E l \in {"Internal", "External"} \ {ws[n].loc} :
          ws' = [ws EXCEPT ![n].loc = l, ![n].ver = version']
    /\ due' = due \cup {n}
    /\ UNCHANGED <<objs, clients, sp, backend, nodes, pr>>

UserDeletes(n) ==
    /\ ws[n].uid # 0
    /\ DeleteServer(n)
    /\ UNCHANGED <<objs, clients, sp, backend, version, nodes, pr>>

(* Somebody deletes an object the controller made; nothing watches it.     *)
ObjectLost(n, k) ==
    /\ objs[n][k] # 0
    /\ objs' = [objs EXCEPT ![n][k] = 0]
    /\ UNCHANGED <<ws, clients, sp, due, backend, version, nodes, pr>>

(* The weft server stops, starts, or is provisioned anew.                  *)
BackendChange(n) ==
    /\ backend' \in {[backend EXCEPT ![n].up = ~@],
                     [backend EXCEPT ![n].cert = @ + 1]}
    /\ UNCHANGED <<ws, objs, clients, sp, due, version, nodes, pr>>

(* The operator restarts: clients and timers are gone, every server is     *)
(* queued from the first list, and the prober begins a round.              *)
FleetRestart ==
    /\ sp' = NoPass
    /\ clients' = {}
    /\ due' = {n \in Nodes : ws[n].uid # 0}
    /\ pr' = NoRound
    /\ UNCHANGED <<ws, objs, backend, version, nodes>>

FleetOutside ==
    /\ fleetEvents < FleetEvents
    /\ fleetEvents' = fleetEvents + 1
    /\ \/ \E n \in Nodes : \/ NodeChange(n) \/ UserCreates(n) \/ UserMoves(n)
                           \/ UserDeletes(n) \/ BackendChange(n)
                           \/ \E k \in Kinds : ObjectLost(n, k)
       \/ FleetRestart
       \/ SFails /\ UNCHANGED <<nodes, pr>>
       \/ PFails
       \/ PProbeLate

Controller == SStep /\ UNCHANGED <<nodes, pr, fleetEvents>>

Prober == PStep /\ UNCHANGED fleetEvents

GarbageCollector ==
    /\ \E n \in Nodes, k \in Kinds : Collect(n, k)
    /\ UNCHANGED <<nodes, pr, fleetEvents>>

FleetNext == FleetOutside \/ Controller \/ Prober \/ GarbageCollector

(* Work queue, timers and the prober's ticker keep running, and so does    *)
(* the garbage collector.                                                  *)
FleetFairness ==
    /\ WF_fleetVars(Controller)
    /\ WF_fleetVars(Prober)
    /\ WF_fleetVars(GarbageCollector)

FleetSpec == FleetInit /\ [][FleetNext]_fleetVars /\ FleetFairness

-----------------------------------------------------------------------------
(* The prober deletes a WeftServer only if its node was missing at some    *)
(* moment of the round, and only if it carries the label: a node that lost *)
(* its address keeps its server, and a server made by hand is left alone,  *)
(* unless it took the name of a listed one before the delete, which names  *)
(* no uid.                                                                 *)
PresentNodesSpared ==
    [][\A n \in Nodes :
         ws[n].uid # 0 /\ ws'[n].uid = 0 /\ pr' # pr =>
            n \in pr.gone /\ (ws[n].labelled \/ ws[n].uid > pr.listed)]_fleetVars

(* What the cluster runs follows spec.location: all three objects of a     *)
(* server inside the cluster are there and belong to it, and none of a     *)
(* server outside or gone.                                                 *)
ObjectsInPlace ==
    \A n \in Nodes, k \in Kinds :
        objs[n][k] = IF ws[n].loc = "Internal" THEN ws[n].uid ELSE 0

(* The Available condition is true of exactly the servers that answer.     *)
StatusTrue ==
    \A n \in Nodes : ws[n].uid # 0 => (ws[n].avail <=> Reachable(n))

(* Both end up so: through stale passes, a server recreated under the name *)
(* before its objects were collected, objects deleted by hand and failing  *)
(* calls (Reconcile), and with a server provisioned anew, since a cached   *)
(* client does not outlive its failure (updateWeftServerStatus).           *)
ServersSettle == <>[](ObjectsInPlace /\ StatusTrue)

(* One WeftServer for every fit node, and none of the prober's for a node  *)
(* that is gone.                                                           *)
ServersMatchNodes ==
    \A n \in Nodes : /\ nodes[n] = "fit" => ws[n].uid # 0
                     /\ nodes[n] = "absent" => ~ws[n].labelled

(* It ends up so, even if a node left while it was being probed            *)
(* (probeNodes, cleanupOrphanedServers).                                   *)
ServersFollowNodes == <>[]ServersMatchNodes
=============================================================================
