-------------------------- MODULE TunnelReconciler --------------------------
(***************************************************************************)
(* The WeftTunnel controller: one tunnel-client Deployment per WeftServer  *)
(* a tunnel targets.  Nothing polls here: a pass runs only for a tunnel an *)
(* event put on the work queue, so the watches and their mapping functions *)
(* decide whether the controller ever notices a change.                    *)
(***************************************************************************)
EXTENDS Naturals, FiniteSets

CONSTANTS
    Tunnels,      \* WeftTunnel objects
    Servers,      \* WeftServer objects
    Conns,        \* connection strings
    Names,        \* WeftServer names
    Namespaces,   \* namespaces
    System,       \* the namespace weft-system
    TunnelNs,     \* [Tunnels -> Namespaces]
    ServerNs,     \* [Servers -> Namespaces]
    ServerName,   \* [Servers -> Names]
    NoOne,        \* no object
    StatusFaults  \* the status write of a pass may be the only call that fails

ASSUME TunnelAssumption ==
    /\ TunnelNs \in [Tunnels -> Namespaces]
    /\ ServerNs \in [Servers -> Namespaces]
    /\ ServerName \in [Servers -> Names]
    /\ System \in Namespaces
    /\ NoOne \notin Conns \cup Tunnels
    /\ StatusFaults \in BOOLEAN

VARIABLES
    tun,    \* WeftTunnel objects
    srv,    \* per WeftServer: its spec.connectionString, or NoOne
    dep,    \* per tunnel and server name: the Deployment tunnel-<t>-to-<name>
    queue,  \* the controller's work queue
    pass    \* the pass of the controller's worker

vars == <<tun, srv, dep, queue, pass>>

Conditions == {"none", "error", "waiting", "true"}

(* spec.targetServers, and the Available condition with its reason.        *)
TunnelObject == [live: BOOLEAN, targets: SUBSET Names, cond: Conditions]

AbsentTunnel == [live |-> FALSE, targets |-> {}, cond |-> "none"]

(* A Deployment: whose controller reference it carries (the tunnel that    *)
(* has the name now, or one that had it before), the server address in its *)
(* arguments, and whether it has ready replicas.                           *)
Deployment == [owner: {"none", "current", "former"}, conn: Conns \cup {NoOne},
               ready: BOOLEAN]

NoDeployment == [owner |-> "none", conn |-> NoOne, ready |-> FALSE]

(* A pass: its tunnel, the targets it read, whether the object changed or  *)
(* went away since, the lookups left, the servers found and still to be    *)
(* connected, the names connected, the Deployments to prune, and the       *)
(* status to write.                                                        *)
Pass == [pc: {"idle", "resolve", "upsert", "prune", "status", "write"},
         t: Tunnels \cup {NoOne}, targets: SUBSET Names,
         fresh: BOOLEAN, gone: BOOLEAN, reads: SUBSET (Namespaces \cup Names),
         found: SUBSET (Names \X Conns), expected: SUBSET Names,
         obsolete: SUBSET Names, failed: BOOLEAN, cond: Conditions]

Idle == [pc |-> "idle", t |-> NoOne, targets |-> {}, fresh |-> TRUE,
         gone |-> FALSE, reads |-> {}, found |-> {}, expected |-> {},
         obsolete |-> {}, failed |-> FALSE, cond |-> "none"]

TypeOK ==
    /\ tun \in [Tunnels -> TunnelObject]
    /\ srv \in [Servers -> Conns \cup {NoOne}]
    /\ dep \in [Tunnels -> [Names -> Deployment]]
    /\ queue \subseteq Tunnels
    /\ pass \in Pass
    /\ pass.pc # "idle" => pass.t \in Tunnels

Init ==
    /\ tun = [t \in Tunnels |-> AbsentTunnel]
    /\ srv = [s \in Servers |-> NoOne]
    /\ dep = [t \in Tunnels |-> [n \in Names |-> NoDeployment]]
    /\ queue = {}
    /\ pass = Idle

pt == pass.t

-----------------------------------------------------------------------------
(* Watches *)

(* Mutant: only the tunnels beside the server are looked at.               *)
FindTunnelsForServerLocal(s) ==
    {t \in Tunnels :
        /\ tun[t].live
        /\ TunnelNs[t] = ServerNs[s]
        /\ tun[t].targets # {} => ServerName[s] \in tun[t].targets}

(* findTunnelsForServer: a server of weft-system concerns the tunnels of   *)
(* every namespace that name no servers.                                   *)
FindTunnelsForServer(s) ==
    {t \in Tunnels :
        /\ tun[t].live
        /\ ServerNs[s] # System => TunnelNs[t] = ServerNs[s]
        /\ tun[t].targets # {} => /\ TunnelNs[t] = ServerNs[s]
                                  /\ ServerName[s] \in tun[t].targets}

(* Mutant: a plain owner reference, which Owns() does not follow.          *)
DeploymentOwnersPlainRef(t) == {}

(* Owns(Deployment): the tunnel its controller reference names.            *)
DeploymentOwners(t) == {t}

SetDeployment(t, n, d) ==
    /\ dep' = [dep EXCEPT ![t][n] = d]
    /\ queue' = IF d = dep[t][n] THEN queue ELSE queue \cup DeploymentOwners(t)

-----------------------------------------------------------------------------
(* Reconcile *)

(* The worker takes a tunnel off the queue and reads it.                   *)
Take(t) ==
    /\ pass.pc = "idle"
    /\ t \in queue
    /\ queue' = queue \ {t}
    /\ pass' = IF ~tun[t].live THEN Idle
               ELSE [Idle EXCEPT !.pc = "resolve", !.t = t,
                                 !.targets = tun[t].targets,
                                 !.reads = IF tun[t].targets = {}
                                           THEN {TunnelNs[t], System}
                                           ELSE tun[t].targets]
    /\ UNCHANGED <<tun, srv, dep>>

(* The servers one List of a namespace, or one Get by name, returns.       *)
Found(x) ==
    {s \in Servers :
        /\ srv[s] # NoOne
        /\ IF pass.targets = {} THEN ServerNs[s] = x
           ELSE ServerNs[s] = TunnelNs[pt] /\ ServerName[s] = x}

(* Identify the target WeftServers.                                        *)
Resolve(x) ==
    /\ pass.pc = "resolve"
    /\ x \in pass.reads
    /\ pass' = [pass EXCEPT !.pc = IF pass.reads = {x} THEN "upsert" ELSE @,
                            !.reads = @ \ {x},
                            !.found = @ \cup {<<ServerName[s], srv[s]>> :
                                              s \in Found(x)}]
    /\ UNCHANGED <<tun, srv, dep, queue>>

Me == IF pass.gone THEN "former" ELSE "current"

(* Mutant: the container list is replaced, and what the API server had     *)
(* defaulted makes every write a change.                                   *)
UpsertReplacesContainers(f) ==
    /\ pass.pc = "upsert"
    /\ f \in pass.found
    /\ dep[pt][f[1]].owner \in {"none", Me}
    /\ dep' = [dep EXCEPT ![pt][f[1]] = [@ EXCEPT !.owner = Me, !.conn = f[2]]]
    /\ queue' = queue \cup {pt}
    /\ pass' = [pass EXCEPT !.found = @ \ {f}, !.expected = @ \cup {f[1]}]
    /\ UNCHANGED <<tun, srv>>

(* CreateOrUpdate one Deployment; SetControllerReference refuses one that  *)
(* another object controls.                                                *)
Upsert(f) ==
    /\ pass.pc = "upsert"
    /\ f \in pass.found
    /\ LET n == f[1]
           d == dep[pt][n]
       IN  \/ /\ d.owner \in {"none", Me}
              /\ SetDeployment(pt, n, [d EXCEPT !.owner = Me, !.conn = f[2]])
              /\ pass' = [pass EXCEPT !.found = @ \ {f},
                                      !.expected = @ \cup {n}]
           \/ /\ d.owner \notin {"none", Me}
              /\ pass' = [pass EXCEPT !.pc = "status", !.failed = TRUE]
              /\ UNCHANGED <<dep, queue>>
    /\ UNCHANGED <<tun, srv>>

Existing(t) == {n \in Names : dep[t][n].owner # "none"}

(* List the Deployments labelled with the tunnel's name.                   *)
ListObsolete ==
    /\ pass.pc = "upsert"
    /\ pass.found = {}
    /\ pass' = [pass EXCEPT !.pc = "prune",
                            !.obsolete = Existing(pt) \ pass.expected]
    /\ UNCHANGED <<tun, srv, dep, queue>>

(* Delete one; NotFound is an error like any other.                        *)
Prune(n) ==
    /\ pass.pc = "prune"
    /\ n \in pass.obsolete
    /\ \/ /\ n \in Existing(pt)
          /\ SetDeployment(pt, n, NoDeployment)
          /\ pass' = [pass EXCEPT !.obsolete = @ \ {n}]
       \/ /\ n \notin Existing(pt)
          /\ pass' = [pass EXCEPT !.pc = "status", !.failed = TRUE]
          /\ UNCHANGED <<dep, queue>>
    /\ UNCHANGED <<tun, srv>>

(* A List, Get, Create, Update or Delete fails: reconcileErr, and on to    *)
(* the deferred status update.                                             *)
CallFails ==
    /\ pass.pc \in {"resolve", "upsert", "prune"}
    /\ pass' = [pass EXCEPT !.pc = "status", !.failed = TRUE]
    /\ UNCHANGED <<tun, srv, dep, queue>>

AllReady(t) == Existing(t) # {} /\ \A n \in Existing(t) : dep[t][n].ready

(* updateStatus, deferred: list the Deployments again ...                  *)
ReadStatus ==
    /\ \/ pass.pc = "prune" /\ pass.obsolete = {}
       \/ pass.pc = "status"
    /\ pass' = [pass EXCEPT !.pc = "write",
                            !.cond = IF pass.failed THEN "error"
                                     ELSE IF AllReady(pt) THEN "true"
                                     ELSE "waiting"]
    /\ UNCHANGED <<tun, srv, dep, queue>>

(* A pass that returns an error is queued again, with back-off; what       *)
(* updateStatus returns is only logged.                                    *)
Requeued == IF pass.failed THEN {pt} ELSE {}

(* ... and Status().Update, refused if the tunnel changed since it was     *)
(* read.  A status that changed is an event like any other.                *)
WriteStatus ==
    /\ pass.pc = "write"
    /\ tun' = IF pass.fresh THEN [tun EXCEPT ![pt].cond = pass.cond] ELSE tun
    /\ queue' = queue \cup Requeued \cup (IF tun' # tun THEN {pt} ELSE {})
    /\ pass' = Idle
    /\ UNCHANGED <<srv, dep>>

(* The List or the Update of updateStatus fails: on top of an error of the *)
(* pass, or, with StatusFaults, alone.                                     *)
StatusFails ==
    /\ pass.failed \/ StatusFaults
    /\ pass.pc \in {"status", "write"}
    /\ queue' = queue \cup Requeued
    /\ pass' = Idle
    /\ UNCHANGED <<tun, srv, dep>>

Reconcile ==
    \/ \E t \in Tunnels : Take(t)
    \/ \E x \in Namespaces \cup Names : Resolve(x)
    \/ \E f \in Names \X Conns : Upsert(f)
    \/ ListObsolete
    \/ \E n \in Names : Prune(n)
    \/ ReadStatus
    \/ WriteStatus

-----------------------------------------------------------------------------
(* Users, the other controllers and the cluster *)

(* The pass under way has read an older version of t.                      *)
Outdated(t) == [pass EXCEPT !.fresh = @ /\ pt # t]

CreateTunnel(t) ==
    /\ ~tun[t].live
    /\ \E S \in SUBSET Names :
          tun' = [tun EXCEPT ![t] = [AbsentTunnel EXCEPT !.live = TRUE, !.targets = S]]
    /\ queue' = queue \cup {t}
    /\ UNCHANGED <<srv, dep, pass>>

EditTunnel(t) ==
    /\ tun[t].live
    /\ \E S \in SUBSET Names \ {tun[t].targets} :
          tun' = [tun EXCEPT ![t].targets = S]
    /\ queue' = queue \cup {t}
    /\ pass' = Outdated(t)
    /\ UNCHANGED <<srv, dep>>

(* WeftTunnels have no finalizer: the object goes at once.                 *)
DeleteTunnel(t) ==
    /\ tun[t].live
    /\ tun' = [tun EXCEPT ![t] = AbsentTunnel]
    /\ dep' = [dep EXCEPT ![t] = [n \in Names |->
                 IF @[n].owner = "current" THEN [@[n] EXCEPT !.owner = "former"]
                 ELSE @[n]]]
    /\ queue' = queue \cup {t}
    /\ pass' = [Outdated(t) EXCEPT !.gone = @ \/ pt = t]
    /\ UNCHANGED srv

(* A WeftServer is created, gets another connection string, or goes; the   *)
(* predicate lets each of them pass and nothing else.                      *)
SetServer(s) ==
    /\ \E c \in (Conns \cup {NoOne}) \ {srv[s]} : srv' = [srv EXCEPT ![s] = c]
    /\ queue' = queue \cup FindTunnelsForServer(s)
    /\ UNCHANGED <<tun, dep, pass>>

(* The Deployment's pods become ready, or no longer are.                   *)
SetReady(t, n) ==
    /\ n \in Existing(t)
    /\ SetDeployment(t, n, [dep[t][n] EXCEPT !.ready = ~@])
    /\ UNCHANGED <<tun, srv, pass>>

DeleteDeployment(t, n) ==
    /\ n \in Existing(t)
    /\ SetDeployment(t, n, NoDeployment)
    /\ UNCHANGED <<tun, srv, pass>>

(* The garbage collector removes what a deleted tunnel controlled.         *)
Collect(t, n) ==
    /\ dep[t][n].owner = "former"
    /\ SetDeployment(t, n, NoDeployment)
    /\ UNCHANGED <<tun, srv, pass>>

(* The operator starts again and lists every tunnel.                       *)
Restart ==
    /\ <<pass, queue>> # <<Idle, {}>>
    /\ pass' = Idle
    /\ queue' = {t \in Tunnels : tun[t].live}
    /\ UNCHANGED <<tun, srv, dep>>

Users ==
    \/ \E t \in Tunnels : CreateTunnel(t) \/ EditTunnel(t) \/ DeleteTunnel(t)
    \/ \E s \in Servers : SetServer(s)
    \/ \E t \in Tunnels, n \in Names : SetReady(t, n) \/ DeleteDeployment(t, n)

Faults == CallFails \/ StatusFails \/ Restart

Garbage == \E t \in Tunnels, n \in Names : Collect(t, n)

Next == Reconcile \/ Garbage \/ Users \/ Faults

Spec == Init /\ [][Next]_vars

-----------------------------------------------------------------------------
(* Correctness *)

Quiet == pass.pc = "idle" /\ queue = {}

(* What the WeftTunnel API promises: the named servers of the tunnel's own *)
(* namespace, or with no names those of its namespace and weft-system.     *)
Targets(t) ==
    {s \in Servers :
        /\ srv[s] # NoOne
        /\ IF tun[t].targets = {} THEN ServerNs[s] \in {TunnelNs[t], System}
           ELSE ServerNs[s] = TunnelNs[t] /\ ServerName[s] \in tun[t].targets}

(* No event is missed: whenever the queue is empty and no pass runs, every *)
(* tunnel has exactly the Deployments its servers call for, under its own  *)
(* controller reference and with the servers' present addresses, however   *)
(* servers, tunnels, failures and restarts interleaved with the passes.    *)
DeploymentsConverged ==
    Quiet => \A t \in Tunnels : tun[t].live =>
        /\ {<<n, dep[t][n].conn>> : n \in Existing(t)}
             = {<<ServerName[s], srv[s]>> : s \in Targets(t)}
        /\ \A n \in Existing(t) : dep[t][n].owner = "current"

(* Nor does Available go stale: with nothing left to do it says whether    *)
(* the tunnel has Deployments and all of them are ready.                   *)
AvailableHonest ==
    Quiet => \A t \in Tunnels :
        tun[t].live => (tun[t].cond = "true" <=> AllReady(t))
=============================================================================
