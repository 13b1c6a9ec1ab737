---------------------------- MODULE TunnelLiveness ----------------------------
(***************************************************************************)
(* The WeftTunnel controller started beside objects that already exist,    *)
(* with a bounded number of further changes, failing calls and restarts.   *)
(***************************************************************************)
EXTENDS TunnelReconciler

CONSTANT Changes  \* bound on what happens to the controller from outside

ASSUME ChangesAssumption == Changes \in Nat

VARIABLE changes  \* how many of them are left

(* The operator starts: every existing tunnel is on the queue.             *)
LiveInit ==
    /\ \E L \in SUBSET Tunnels, S \in [Tunnels -> SUBSET Names] :
          /\ tun = [t \in Tunnels |->
                      IF t \in L THEN [AbsentTunnel EXCEPT !.live = TRUE,
                                                           !.targets = S[t]]
                      ELSE AbsentTunnel]
          /\ queue = L
    /\ srv \in [Servers -> Conns \cup {NoOne}]
    /\ dep = [t \in Tunnels |-> [n \in Names |-> NoDeployment]]
    /\ pass = Idle
    /\ changes = Changes

LiveNext ==
    \/ /\ Reconcile \/ Garbage
       /\ UNCHANGED changes
    \/ /\ changes > 0
       /\ Users \/ Faults
       /\ changes' = changes - 1

Steps(A) == A /\ UNCHANGED changes

(* The worker never stops while it has a pass or a request to work on, and *)
(* the garbage collector gets to every orphan.                             *)
Fairness ==
    /\ WF_<<vars, changes>>(Steps(Reconcile))
    /\ WF_<<vars, changes>>(Steps(Garbage))

LiveSpec == LiveInit /\ [][LiveNext]_<<vars, changes>> /\ Fairness

(* The controller comes to rest: its own writes, which are events to it,   *)
(* do not keep it going once nothing else happens.                         *)
ComesToRest == <>[]Quiet
===============================================================================
