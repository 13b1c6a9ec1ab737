------------------------ MODULE WeftServerReconciler ------------------------
(***************************************************************************)
(* The WeftServer controller: a PersistentVolumeClaim, a Deployment and a  *)
(* Service for a server inside the cluster, none for one outside, and the  *)
(* Available condition from asking the server for its tunnels.  It watches *)
(* specs only; everything else it notices because every pass ends with     *)
(* RequeueAfter.                                                           *)
(***************************************************************************)
EXTENDS Naturals

CONSTANT Nodes  \* the nodes; WeftServer node-<n> of weft-system is called n

VARIABLES
    ws,       \* WeftServer objects
    objs,     \* per server and kind: the uid in the object's owner reference
    clients,  \* weftClients: the logged-in client of a connection string
    sp,       \* the pass of the controller's worker
    due,      \* servers on the work queue or with RequeueAfter running
    backend,  \* the weft server process behind each WeftServer
    version   \* resourceVersion, moved by everybody except sp

serverVars == <<ws, objs, clients, sp, due, backend, version>>

Kinds == {"pvc", "deployment", "service"}

(* uid 0: no such object.  labelled: weft.aquaduct.dev/node names the      *)
(* node; conn stands for the secret in the connection string.              *)
NoServer == [uid |-> 0, ver |-> 0, loc |-> "Internal", labelled |-> FALSE,
             conn |-> 0, avail |-> FALSE]

NoPass == [pc |-> "idle", n |-> "none", copy |-> NoServer, avail |-> FALSE]

(* The operator starts in a cluster that may have servers already.         *)
Existing == [NoServer EXCEPT !.uid = 1, !.ver = 1, !.labelled = TRUE]

ServerInit ==
    /\ ws \in [Nodes -> {NoServer, Existing}]
    /\ objs = [n \in Nodes |-> [k \in Kinds |-> 0]]
    /\ clients = {}
    /\ sp = NoPass
    /\ due = {n \in Nodes : ws[n].uid # 0}
    /\ backend = [n \in Nodes |-> [up |-> TRUE, cert |-> 1]]
    /\ version = 1

SPAt(pc) == sp.pc = pc

(* The API server: an object gets a uid and a resourceVersion; the create  *)
(* event, passing GenerationChangedPredicate, queues it.                   *)
CreateServer(n, obj) ==
    /\ version' = version + 1
    /\ ws' = [ws EXCEPT ![n] = [obj EXCEPT !.uid = version', !.ver = version']]
    /\ due' = due \cup {n}

DeleteServer(n) ==
    /\ ws' = [ws EXCEPT ![n] = NoServer]
    /\ due' = due \cup {n}

(* Reconcile reads the server; one that is gone ends the pass.             *)
SStart(n) ==
    /\ SPAt("idle")
    /\ n \in due
    /\ due' = due \ {n}
    /\ sp' = IF ws[n].uid = 0 THEN sp
             ELSE [NoPass EXCEPT !.pc = "pvc", !.n = n, !.copy = ws[n]]
    /\ UNCHANGED <<ws, objs, clients, backend, version>>

Internal == sp.copy.loc # "External"

(* The Deployment is fetched again after the Service; without it the pass  *)
(* has failed.                                                             *)
After(k) == CASE k = "pvc" -> "deployment"
              [] k = "deployment" -> "service"
              [] OTHER -> IF Internal /\ objs[sp.n]["deployment"] = 0
                          THEN "commit" ELSE "ask"

(* resource.Resource: create what should exist; an existing claim is left  *)
(* as it is, the others are written again, owner reference included;       *)
(* delete what should not exist.                                           *)
Resource(k, uid) ==
    IF ~Internal THEN 0
    ELSE IF uid # 0 /\ k = "pvc" THEN uid
    ELSE sp.copy.uid

(* Mutant: a server moved outside keeps its Deployment.                    *)
SyncObjectOnlyCreates(k) ==
    /\ SPAt(k)
    /\ objs' = IF Internal THEN [objs EXCEPT ![sp.n][k] = Resource(k, @)] ELSE objs
    /\ sp' = [sp EXCEPT !.pc = After(k)]
    /\ UNCHANGED <<ws, clients, due, backend, version>>

SyncObject(k) ==
    /\ SPAt(k)
    /\ objs' = [objs EXCEPT ![sp.n][k] = Resource(k, @)]
    /\ sp' = [sp EXCEPT !.pc = After(k)]
    /\ UNCHANGED <<ws, clients, due, backend, version>>

(* Does the weft server of n answer?                                       *)
Reachable(n) ==
    /\ backend[n].up
    /\ ws[n].loc = "Internal" => objs[n]["deployment"] # 0

(* updateWeftServerStatus: through the Service if there is one, by the     *)
(* connection string as it stands otherwise.                               *)
ConnStr == <<sp.n, sp.copy.conn,
             Internal /\ objs[sp.n]["service"] # 0>>

(* weftClientFor: the cached client of the connection string, or a new     *)
(* one, which logs in.                                                     *)
Cached == {c \in clients : c.key = ConnStr}

WeftClient == IF Cached # {} THEN CHOOSE c \in Cached : TRUE
              ELSE [key |-> ConnStr, cert |-> backend[sp.n].cert]

(* ListTunnels: fails if the server does not answer or has been            *)
(* provisioned anew since the client logged in.                            *)
Answers == Reachable(sp.n) /\ WeftClient.cert = backend[sp.n].cert

(* Mutant: the client that failed stays.                                   *)
SAskKeepsClient ==
    /\ SPAt("ask")
    /\ sp' = [sp EXCEPT !.pc = "commit", !.avail = Answers]
    /\ clients' = clients \cup {WeftClient}
    /\ UNCHANGED <<ws, objs, due, backend, version>>

(* The server is asked for its tunnels; forgetWeftClient on failure.       *)
SAsk ==
    /\ SPAt("ask")
    /\ sp' = [sp EXCEPT !.pc = "commit", !.avail = Answers]
    /\ clients' = IF Answers THEN clients \cup {WeftClient}
                  ELSE clients \ Cached
    /\ UNCHANGED <<ws, objs, due, backend, version>>

(* commitStatus: written only if it changed, refused if the object has     *)
(* changed since it was read; either way there is another pass, after 30   *)
(* seconds or as a retry.                                                  *)
SCommit ==
    /\ SPAt("commit")
    /\ ws' = IF ws[sp.n].ver = sp.copy.ver
             THEN [ws EXCEPT ![sp.n].avail = sp.avail] ELSE ws
    /\ due' = due \cup {sp.n}
    /\ sp' = NoPass
    /\ UNCHANGED <<objs, clients, backend, version>>

(* A call of the pass fails: the pass goes on to the status, ListTunnels   *)
(* as ever dropping its client, and a status write that fails is retried.  *)
SFails ==
    /\ \/ /\ sp.pc \in Kinds \cup {"ask"}
          /\ sp' = [sp EXCEPT !.pc = "commit"]
          /\ clients' = IF SPAt("ask") THEN clients \ Cached ELSE clients
          /\ UNCHANGED due
       \/ /\ SPAt("commit")
          /\ sp' = NoPass
          /\ due' = due \cup {sp.n}
          /\ UNCHANGED clients
    /\ UNCHANGED <<ws, objs, backend, version>>

(* The garbage collector removes an object whose owner is gone.            *)
Collect(n, k) ==
    /\ objs[n][k] \notin {0, ws[n].uid}
    /\ objs' = [objs EXCEPT ![n][k] = 0]
    /\ UNCHANGED <<ws, clients, sp, due, backend, version>>

SStep ==
    \/ \E n \in Nodes : SStart(n)
    \/ \E k \in Kinds : SyncObject(k)
    \/ SAsk \/ SCommit
=============================================================================
