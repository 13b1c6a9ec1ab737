------------------------------- MODULE MCShared -------------------------------
(***************************************************************************)
(* Six parts of the operator in which parties that do not know of each     *)
(* other share something: AquaductTaaS objects a token Secret, the callers *)
(* of aquaduct.dev a cached JWT, the node agent the files of its node, the *)
(* server controller and the prober the WeftServers, the default reflector *)
(* its name, the replicas of the operator the webhook's certificate.  The  *)
(* parts have no state in common, so a behaviour is about one of them,     *)
(* chosen at the start, and the others rest: what holds in every such      *)
(* behaviour is what holds in every behaviour of each part.                *)
(***************************************************************************)
EXTENDS MCTeardown, JWTCache, NodeAgent, ServerFleet, DefaultReflector,
        WebhookCert

VARIABLE part  \* the part the behaviour is about

sharedVars == <<vars, jwtVars, agentVars, fleetVars, defaultVars,
                webhookVars, part>>

SharedInit ==
    /\ part \in {"secret", "jwt", "agent", "fleet", "default", "webhook"}
    /\ Init
    /\ JWTInit
    /\ AgentInit
    /\ FleetInit
    /\ DefaultInit
    /\ WebhookInit
    (* of the parts that rest one initial state will do                    *)
    /\ part # "agent" => ag = Started({"h1"})
    /\ part # "fleet" => \A n \in Nodes : ws[n] = NoServer /\ nodes[n] = "absent"
    /\ part # "default" => enabled

Secret(A) == /\ part = "secret"
             /\ A
             /\ UNCHANGED <<jwtVars, agentVars, fleetVars, defaultVars, webhookVars, part>>

JWT(A) == /\ part = "jwt"
          /\ A
          /\ UNCHANGED <<vars, agentVars, fleetVars, defaultVars, webhookVars, part>>

Agent(A) == /\ part = "agent"
            /\ A
            /\ UNCHANGED <<vars, jwtVars, fleetVars, defaultVars, webhookVars, part>>

Fleet(A) == /\ part = "fleet"
            /\ A
            /\ UNCHANGED <<vars, jwtVars, agentVars, defaultVars, webhookVars, part>>

Default(A) == /\ part = "default"
              /\ A
              /\ UNCHANGED <<vars, jwtVars, agentVars, fleetVars, webhookVars, part>>

Webhook(A) == /\ part = "webhook"
              /\ A
              /\ UNCHANGED <<vars, jwtVars, agentVars, fleetVars, defaultVars, part>>

SharedNext ==
    \/ Secret(Next)
    \/ JWT(JWTNext)
    \/ Agent(AgentNext)
    \/ Fleet(FleetNext)
    \/ Default(DefaultNext)
    \/ Webhook(WebhookNext)

(* The fairness of the parts, each under its own choice.                   *)
SharedFairness ==
    /\ \A c \in Callers : WF_sharedVars(JWT(CallStep(c)))
    /\ WF_sharedVars(Agent(AgentStep))
    /\ SF_sharedVars(Agent(StartCleanup))
    /\ WF_sharedVars(Fleet(Controller))
    /\ WF_sharedVars(Fleet(Prober))
    /\ WF_sharedVars(Fleet(GarbageCollector))
    /\ WF_sharedVars(Default(Sync))
    /\ \A p \in Replicas : /\ WF_sharedVars(Webhook(SetupStep(p)))
                          /\ WF_sharedVars(Webhook(Reload(p)))
    /\ WF_sharedVars(Webhook(\E p \in Replicas : Elect(p)))
    /\ WF_sharedVars(Webhook(NextDay \/ LastDayAgain))

SharedSpec == SharedInit /\ [][SharedNext]_sharedVars /\ SharedFairness

-----------------------------------------------------------------------------
(* The liveness properties of the parts, of the behaviours they are about: *)
(* part never changes, so each is part = p => <>[]P.                       *)

(* authedRequest: rotations and expiries of the JWT heal (RotationHeals).  *)
SharedJWTHeals == <>[](part = "jwt" => AllAnswered)

(* Tick and Cleanup: the node ends up pointed at a proxy that verifies     *)
(* (NodeFollowsProxy).                                                     *)
SharedNodeFollowsProxy == <>[](part = "agent" => NodeInOrder)

(* Reconcile of a WeftServer: its objects follow spec.location, its        *)
(* Available condition the server (ServersSettle).                         *)
SharedServersSettle == <>[](part = "fleet" => ObjectsInPlace /\ StatusTrue)

(* The prober's rounds: WeftServers follow the nodes (ServersFollowNodes). *)
SharedServersFollowNodes == <>[](part = "fleet" => ServersMatchNodes)

(* Sync of the default reflector: the configuration wins                   *)
(* (DefaultFollowsConfig).                                                 *)
SharedDefaultFollowsConfig == <>[](part = "default" => AsConfigured)

(* Renewer: the leader ends up serving what the API server trusts          *)
(* (WebhookHeals).                                                         *)
SharedWebhookHeals == <>[](part = "webhook" => LeaderTrusted)
===============================================================================
