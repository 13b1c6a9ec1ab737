----------------------------- MODULE NodeProber -----------------------------
(***************************************************************************)
(* The NodeProber, a goroutine beside the WeftServer controller: at start  *)
(* and every three hours it probes the nodes that have no WeftServer,      *)
(* creates one where the probe succeeds, and deletes the labelled servers  *)
(* of nodes that are gone.                                                 *)
(***************************************************************************)
EXTENDS WeftServerReconciler

VARIABLES
    nodes,  \* per node: absent, without an address, unfit for a server, fit
    pr      \* the round of the prober

NodeStates == {"absent", "noip", "unfit", "fit"}

(* A round: the nodes it still has to process or servers it has to delete, *)
(* the nodes cleanupOrphanedServers listed and the node being probed; gone *)
(* (nodes absent at some moment of the round) and listed (the version its  *)
(* list of servers was read at) are history.                               *)
NoRound == [pc |-> "idle", todo |-> {}, known |-> {}, cur |-> "none",
            gone |-> {}, listed |-> 0]

ProberInit ==
    /\ nodes \in [Nodes -> {"absent", "fit"}]
    /\ pr = NoRound

PRAt(pc) == pr.pc = pc

Present == {n \in Nodes : nodes[n] # "absent"}

(* The round after it is done with n.                                      *)
Without(n) == IF pr.todo = {n} /\ PRAt("delete") THEN NoRound
              ELSE [pr EXCEPT !.todo = @ \ {n}]

(* Every round begins with probeNodes: list the nodes.  One that is listed *)
(* without an address is passed over.                                      *)
PBegin ==
    /\ PRAt("idle")
    /\ pr' = [NoRound EXCEPT !.pc = "nodes",
                             !.todo = {n \in Present : nodes[n] # "noip"},
                             !.gone = Nodes \ Present]
    /\ UNCHANGED <<serverVars, nodes>>

(* processNode: a node that has its WeftServer, whoever made it, is passed *)
(* over too; for another a Job is created.                                 *)
PProcess(n) ==
    /\ PRAt("nodes")
    /\ n \in pr.todo
    /\ pr' = IF ws[n].uid # 0 THEN Without(n)
             ELSE [pr EXCEPT !.pc = "probing", !.todo = @ \ {n}, !.cur = n]
    /\ UNCHANGED <<serverVars, nodes>>

(* It takes longer, or a call fails: the node is left for the next round.  *)
PProbeLate ==
    /\ PRAt("probing")
    /\ pr' = [pr EXCEPT !.pc = "nodes", !.cur = "none"]
    /\ UNCHANGED <<serverVars, nodes>>

(* The Job succeeds within the 60 seconds it is polled for: the labelled   *)
(* WeftServer is created with a secret of its own, though the node may     *)
(* have left meanwhile, unless somebody else created one of the name.      *)
PProbed ==
    /\ PRAt("probing")
    /\ nodes[pr.cur] \in {"fit", "absent"}
    /\ IF ws[pr.cur].uid = 0
       THEN /\ CreateServer(pr.cur, [NoServer EXCEPT !.labelled = TRUE,
                                                     !.conn = version + 1])
            /\ UNCHANGED <<objs, clients, sp, backend>>
       ELSE UNCHANGED serverVars
    /\ pr' = [pr EXCEPT !.pc = "nodes", !.cur = "none"]
    /\ UNCHANGED nodes

(* It fails, or its Pod is lost with the node.                             *)
PProbeFails ==
    /\ PRAt("probing")
    /\ nodes[pr.cur] # "fit"
    /\ pr' = [pr EXCEPT !.pc = "nodes", !.cur = "none"]
    /\ UNCHANGED <<serverVars, nodes>>

(* Mutant: nodes without an address do not count.                          *)
PListNodesAddressed ==
    /\ PRAt("nodes")
    /\ pr.todo = {}
    /\ pr' = [pr EXCEPT !.pc = "servers",
                        !.known = {n \in Present : nodes[n] # "noip"}]
    /\ UNCHANGED <<serverVars, nodes>>

(* cleanupOrphanedServers: the nodes there are by now, ...                 *)
PListNodes ==
    /\ PRAt("nodes")
    /\ pr.todo = {}
    /\ pr' = [pr EXCEPT !.pc = "servers", !.known = Present]
    /\ UNCHANGED <<serverVars, nodes>>

(* Mutant: the servers of missing nodes are not looked for.                *)
PListServersNone ==
    /\ PRAt("servers")
    /\ pr' = NoRound
    /\ UNCHANGED <<serverVars, nodes>>

(* ... then the WeftServers with a label that names none of them, ...      *)
PListServers ==
    /\ PRAt("servers")
    /\ LET orphans == {n \in Nodes \ pr.known : ws[n].labelled}
       IN  pr' = IF orphans = {} THEN NoRound
                 ELSE [pr EXCEPT !.pc = "delete", !.todo = orphans,
                                 !.listed = version]
    /\ UNCHANGED <<serverVars, nodes>>

(* ... which are deleted by name, the last of them ending the round.       *)
PDelete(n) ==
    /\ PRAt("delete")
    /\ n \in pr.todo
    /\ IF ws[n].uid # 0
       THEN DeleteServer(n) /\ UNCHANGED <<objs, clients, sp, backend, version>>
       ELSE UNCHANGED serverVars
    /\ pr' = Without(n)
    /\ UNCHANGED nodes

(* A call fails: errors are logged, and the round goes on with the next    *)
(* node or the next server; a list that fails ends its half of the round.  *)
PFails ==
    /\ \/ /\ PRAt("idle")
          /\ pr' = [NoRound EXCEPT !.pc = "nodes", !.gone = Nodes \ Present]
       \/ /\ pr.pc \in {"nodes", "delete"}
          /\ \E n \in pr.todo : pr' = Without(n)
       \/ /\ PRAt("servers") \/ (PRAt("nodes") /\ pr.todo = {})
          /\ pr' = NoRound
    /\ UNCHANGED <<serverVars, nodes>>

PStep ==
    \/ PBegin \/ PProbed \/ PProbeFails \/ PListNodes \/ PListServers
    \/ \E n \in Nodes : PProcess(n) \/ PDelete(n)
=============================================================================
