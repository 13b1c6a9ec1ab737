--------------------------- MODULE TeardownLiveness ---------------------------
(***************************************************************************)
(* What the controllers achieve once the world around them settles.  The   *)
(* operator starts beside objects its users already made; they and         *)
(* aquaduct.dev then make at most Changes further changes, failing calls   *)
(* and restarts included.  Every pass ends in a requeue while its object   *)
(* exists (RequeueAfter, Requeue or an error return) and each controller's *)
(* worker takes the next request, so a controller that can step eventually *)
(* does.                                                                   *)
(***************************************************************************)
EXTENDS Teardown

CONSTANT Changes  \* bound on what happens to the controllers from outside

ASSUME ChangesAssumption == Changes \in Nat

VARIABLE changes  \* how many of them are left

LiveInit ==
    /\ Init
       \/ /\ taas = [t \in TaaSes |-> NewTaaS]
          /\ secret = [s \in Secrets |-> NewSecret]
          /\ rec \in [Records -> {AbsentRecord, NewRecord}]
          /\ server = [b \in Bastions |-> NoOne]
          /\ cloud \in [Bastions -> CloudStates]
          /\ dom \in [Domains -> {Unregistered,
                                  [Unregistered EXCEPT !.owner = Foreign]}]
          /\ dns = [d \in Domains |-> {}]
          /\ tp = TIdle
          /\ dp = DIdle
    /\ changes = Changes

(* Nothing more will happen.                                               *)
Settle ==
    /\ changes > 0
    /\ changes' = 0
    /\ UNCHANGED vars

LiveNext ==
    \/ /\ TNext \/ DNext \/ \E d \in Domains : Propagate(d)
       /\ UNCHANGED changes
    \/ /\ changes > 0
       /\ Users \/ Outside \/ Failures
       /\ changes' = changes - 1
    \/ Settle

Steps(A) == A /\ UNCHANGED changes

Fairness ==
    /\ WF_<<vars, changes>>(Steps(TNext))
    /\ WF_<<vars, changes>>(Steps(DNext))
    /\ \A d \in Domains : WF_<<vars, changes>>(Steps(Propagate(d)))

LiveSpec == LiveInit /\ [][LiveNext]_<<vars, changes>> /\ Fairness

Settled == changes = 0

(* A mirrored bastion was destroyed on aquaduct.dev: SuspendServer can     *)
(* only answer 404 for it.                                                 *)
Vanished(t) ==
    \E b \in Bastions :
        /\ cloud[b] = "none"
        /\ server[b] = t \/ (tp.t = t /\ tp.seen[b] = "running")

(* The AquaductTaaS waits for its DNSRecords, each of which needs it, and  *)
(* the Secret waits for the AquaductTaaS: nobody waits forever.  A TaaS    *)
(* being deleted goes, with all its DNSRecords, when its token can be read *)
(* and no mirrored bastion was destroyed behind its back.                  *)
DeletionCompletes ==
    \A t \in TaaSes :
        /\ Settled
        /\ taas[t].phase = "deleting"
        /\ TokenReadable(t)
        /\ ~Vanished(t)
        ~> taas[t].phase = "absent" /\ OwnedRecords(t) = {}

(* A Secret somebody deleted is let go once no AquaductTaaS needs it.      *)
SecretLetGo ==
    \A s \in Secrets :
        /\ Settled
        /\ secret[s].phase = "deleting"
        /\ \A t \in TaaSes :
              SecretRef[t] = s => taas[t].phase = "deleting" /\ ~Vanished(t)
        ~> secret[s].phase = "absent"

Running(t) == {b \in BastionsOf[t] : cloud[b] = "running"}

Converged(r) ==
    /\ dom[DomainName[r]].owner = TaaSRef[r]
    /\ dom[DomainName[r]].targets = Running(TaaSRef[r])
    /\ rec[r].ready /\ rec[r].registered

(* A DNSRecord without explicit targets ends up registered to its account  *)
(* and bound to exactly the running bastions, says so, and stays there.    *)
RegistrationConverges ==
    \A r \in Records :
        /\ Settled
        /\ Targets[r] = {}
        /\ rec[r].phase = "live"
        /\ taas[TaaSRef[r]].phase = "live"
        /\ secret[SecretRef[TaaSRef[r]]].phase = "live"
        /\ dom[DomainName[r]].owner \in {NoOne, TaaSRef[r]}
        ~> []Converged(r)
===============================================================================
