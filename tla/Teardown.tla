------------------------------ MODULE Teardown ------------------------------
(***************************************************************************)
(* The AquaductTaaS and DNSRecord controllers together with everything     *)
(* that runs beside them: users creating and deleting the objects, the     *)
(* Gateway controller stamping DNSRecords, aquaduct.dev changing its       *)
(* bastions and domains, failing calls and operator restarts.              *)
(***************************************************************************)
EXTENDS TaaSReconciler, DNSRecordReconciler

CONSTANT LateRecords  \* DNSRecords may be created for a TaaS being deleted

ASSUME LateRecordsAssumption == LateRecords \in BOOLEAN

CreateTaaS(t) ==
    /\ taas[t].phase = "absent"
    /\ taas' = [taas EXCEPT ![t] = NewTaaS]
    /\ UNCHANGED <<secret, rec, server, cloud, dom, dns, tp, dp>>

DeleteTaaS(t) ==
    /\ taas[t].phase = "live"
    /\ taas' = [taas EXCEPT ![t] = DeletedTaaS(@)]
    /\ UNCHANGED <<secret, rec, server, cloud, dom, dns, tp, dp>>

CreateSecret(s) ==
    /\ secret[s].phase = "absent"
    /\ secret' = [secret EXCEPT ![s] = NewSecret]
    /\ UNCHANGED <<taas, rec, server, cloud, dom, dns, tp, dp>>

DeleteSecret(s) ==
    /\ secret[s].phase = "live"
    /\ secret' = [secret EXCEPT ![s] = DeletedSecret(@)]
    /\ UNCHANGED <<taas, rec, server, cloud, dom, dns, tp, dp>>

(* A user, or the Gateway controller, which stamps DNSRecords for the      *)
(* singleton AquaductTaaS without looking at its deletionTimestamp.        *)
CreateRecord(r) ==
    /\ rec[r].phase = "absent"
    /\ taas[TaaSRef[r]].phase = "deleting" => LateRecords
    /\ rec' = [rec EXCEPT ![r] = NewRecord]
    /\ UNCHANGED <<taas, secret, server, cloud, dom, dns, tp, dp>>

DeleteRecord(r) ==
    /\ rec[r].phase = "live"
    /\ rec' = [rec EXCEPT ![r] = DeletedRecord(@)]
    /\ UNCHANGED <<taas, secret, server, cloud, dom, dns, tp, dp>>

(* The account's bastions come up, are suspended, resumed or destroyed     *)
(* from outside the cluster.                                               *)
CloudStep(b) ==
    /\ \E st \in CloudStates \ {cloud[b]} :
          /\ st = "starting" => cloud[b] = "none"
          /\ st = "suspended" => cloud[b] = "running"
          /\ cloud' = [cloud EXCEPT ![b] = st]
    /\ UNCHANGED <<taas, secret, rec, server, dom, dns, tp, dp>>

(* Another user, or the account's own user by hand, registers a free name. *)
RegisterOutside(d) ==
    /\ dom[d].owner = NoOne
    /\ \E o \in TaaSes \cup {Foreign} :
          dom' = [dom EXCEPT ![d] = [Unregistered EXCEPT !.owner = o]]
    /\ UNCHANGED <<taas, secret, rec, server, cloud, dns, tp, dp>>

ReleaseOutside(d) ==
    /\ dom[d].owner # NoOne
    /\ ~dom[d].managed
    /\ dom' = [dom EXCEPT ![d] = Unregistered]
    /\ UNCHANGED <<taas, secret, rec, server, cloud, dns, tp, dp>>

(* Public DNS catches up with the registration.                            *)
Propagate(d) ==
    /\ dns[d] # dom[d].targets
    /\ dns' = [dns EXCEPT ![d] = dom[d].targets]
    /\ UNCHANGED <<taas, secret, rec, server, cloud, dom, tp, dp>>

(* The operator's Pod restarts: both passes are forgotten.                 *)
Restart ==
    /\ tp' = TIdle
    /\ dp' = DIdle
    /\ <<tp, dp>> # <<TIdle, DIdle>>
    /\ UNCHANGED <<taas, secret, rec, server, cloud, dom, dns>>

Users ==
    \/ \E t \in TaaSes : CreateTaaS(t) \/ DeleteTaaS(t)
    \/ \E s \in Secrets : CreateSecret(s) \/ DeleteSecret(s)
    \/ \E r \in Records : CreateRecord(r) \/ DeleteRecord(r)

Outside ==
    \/ \E b \in Bastions : CloudStep(b)
    \/ \E d \in Domains : RegisterOutside(d) \/ ReleaseOutside(d)

Failures ==
    \/ TFail
    \/ TCascadeFails
    \/ DCallFails
    \/ DLookupFails
    \/ DFail
    \/ Restart

Next ==
    \/ TNext
    \/ DNext
    \/ \E d \in Domains : Propagate(d)
    \/ Users
    \/ Outside
    \/ Failures

Spec == Init /\ [][Next]_vars

-----------------------------------------------------------------------------
(* Safety *)

(* A name the operator registered or took over on aquaduct.dev is never    *)
(* abandoned: while it is registered, some DNSRecord that names it, of the *)
(* same account, still carries the unregister-on-delete finalizer.         *)
NoLeakedDomain ==
    \A d \in Domains :
        dom[d].managed =>
            \E r \in Records : /\ DomainName[r] = d
                               /\ TaaSRef[r] = dom[d].owner
                               /\ rec[r].fin

(* A finalizer holds a DNSRecord; a pass that saw it can rely on it, since *)
(* nobody else drops it.                                                   *)
RecordLifecycle ==
    /\ \A r \in Records : /\ rec[r].fin => rec[r].phase # "absent"
                          /\ rec[r].phase = "deleting" => rec[r].fin
    /\ dp.pc # "idle" => dp.copy.phase # "absent"
    /\ dp.pc # "idle" /\ dp.copy.fin => rec[dp.r].fin
    /\ dp.pc \notin {"idle", "start"} => dp.copy.fin

(* The same for an AquaductTaaS, and what the path of its pass tells: the  *)
(* sync path has seen a live object, the deletion path one being deleted.  *)
TaaSLifecycle ==
    /\ \A t \in TaaSes : /\ taas[t].fin => taas[t].phase # "absent"
                         /\ taas[t].phase = "deleting" => taas[t].fin
                         /\ taas[t].synced => taas[t].fin
    /\ tp.pc # "idle" => tp.copy.phase # "absent"
    /\ tp.pc # "idle" /\ tp.copy.fin =>
          /\ taas[tp.t].fin
          /\ tp.copy.phase = "deleting" => taas[tp.t].phase = "deleting"
    /\ tp.pc \in {"pin", "list", "upsert", "prune"} =>
          tp.copy.fin /\ tp.copy.phase = "live"
    /\ tp.pc \in {"cascade", "servers", "suspend", "drop"} =>
          tp.copy.fin /\ tp.copy.phase = "deleting"

(* By the time a DNSRecord pass drops the finalizer the name is no longer  *)
(* its account's.                                                          *)
NameReleased == dp.pc = "drop" => ~(dom[rd].managed /\ dom[rd].owner = acct)

(* The DNSRecords that must still unregister a name of account t.          *)
Debtors(t) ==
    {r \in Records : /\ TaaSRef[r] = t
                     /\ rec[r].fin
                     /\ dom[DomainName[r]].managed
                     /\ dom[DomainName[r]].owner = t}

(* handleDeletion of an AquaductTaaS stays around until the DNSRecords     *)
(* that need it are gone: the object a record must load for DELETE /domain *)
(* exists, with its finalizer, as long as the record has a name to         *)
(* unregister.                                                             *)
TaaSOutlivesRecords ==
    \A t \in TaaSes : Debtors(t) # {} => taas[t].phase # "absent" /\ taas[t].fin

(* The in-use finalizer keeps the token readable for every AquaductTaaS    *)
(* that has synced, until its own cleanup released it.                     *)
TokenHeldForCleanup ==
    \A t \in TaaSes :
        Debtors(t) # {} =>
            secret[SecretRef[t]].phase # "absent" /\ secret[SecretRef[t]].fin

(* The same for an AquaductTaaS nobody is deleting, whoever else shares    *)
(* its Secret.                                                             *)
TokenHeldWhileLive ==
    \A t \in TaaSes :
        taas[t].phase = "live" /\ taas[t].synced =>
            secret[SecretRef[t]].phase # "absent" /\ secret[SecretRef[t]].fin

(* Step order of handleDeletion: no bastion of t is suspended on t's       *)
(* deletion while a name of t may still point at it.                       *)
RecordsDrainedBeforeSuspend ==
    tp.pc \in {"servers", "suspend", "drop"} => Debtors(tp.t) = {}

(* An AquaductTaaS goes only after SuspendServer has answered for every    *)
(* bastion mirrored under it.                                              *)
BastionsSuspendedBeforeGone ==
    [][\A t \in TaaSes :
         taas[t].phase = "deleting" /\ taas'[t].phase = "absent" =>
            {b \in Bastions : server[b] = t} \subseteq tp.suspended]_vars

(* handleDeletion can be retried after any failure: a pass that ended      *)
(* early left an AquaductTaaS that once synced, and still has its          *)
(* finalizer, with a token its next pass can read.                         *)
DeletionRetryable ==
    \A t \in TaaSes :
        tp.pc = "idle" /\ taas[t].phase = "deleting" /\ taas[t].synced =>
            TokenReadable(t)
=============================================================================
