--------------------------- MODULE TaaSReconciler ---------------------------
(***************************************************************************)
(* The AquaductTaaS controller.  One worker runs one pass at a time; every *)
(* call a pass makes to the apiserver or to aquaduct.dev is a step of its  *)
(* own, so the users, the cloud and the DNSRecord controller run between   *)
(* any two of them.  Conditions are not modelled: failure() ends the pass  *)
(* and the object is requeued.                                             *)
(***************************************************************************)
EXTENDS AquaductWorld

tt == tp.t

TEnd == tp' = TIdle

(* Reconcile: Get the object; a deleted one ends the pass at once.         *)
TStart(t) ==
    /\ tp.pc = "idle"
    /\ taas[t].phase # "absent"
    /\ tp' = [TIdle EXCEPT !.pc = "start", !.t = t, !.copy = CopyOf(taas[t])]
    /\ UNCHANGED <<taas, secret, rec, server, cloud, dom, dns, dp>>

(* The object has no finalizer yet: add it and requeue.  Update is refused *)
(* when the object changed since it was read.                              *)
TAddFinalizer ==
    /\ tp.pc = "start"
    /\ ~tp.copy.fin
    /\ taas' = IF CopyOf(taas[tt]) = tp.copy
               THEN [taas EXCEPT ![tt].fin = TRUE]
               ELSE taas
    /\ TEnd
    /\ UNCHANGED <<secret, rec, server, cloud, dom, dns, dp>>

(* readToken, on both the sync and the deletion path; without the Secret   *)
(* the pass ends in failure(SecretError).                                  *)
TReadToken ==
    /\ tp.pc = "start"
    /\ tp.copy.fin
    /\ \/ /\ ~TokenReadable(tt)
          /\ TEnd
       \/ /\ TokenReadable(tt)
          /\ tp.copy.phase = "live"
          /\ tp' = [tp EXCEPT !.pc = "pin"]
       \/ /\ TokenReadable(tt)
          /\ tp.copy.phase = "deleting"
          /\ tp' = [tp EXCEPT !.pc = "cascade"]
    /\ UNCHANGED <<taas, secret, rec, server, cloud, dom, dns, dp>>

(* Mutant: the token is used without pinning its Secret.                   *)
TPinSkipped ==
    /\ tp.pc = "pin"
    /\ tp' = [tp EXCEPT !.pc = "list"]
    /\ UNCHANGED <<taas, secret, rec, server, cloud, dom, dns, dp>>

(* ensureSecretFinalizer: the apiserver accepts no new finalizer on a      *)
(* Secret that is being deleted.                                           *)
TPin ==
    /\ tp.pc = "pin"
    /\ LET s == SecretRef[tt]
       IN  \/ /\ secret[s].fin
              /\ tp' = [tp EXCEPT !.pc = "list"]
              /\ UNCHANGED secret
           \/ /\ ~secret[s].fin
              /\ secret[s].phase = "live"
              /\ secret' = [secret EXCEPT ![s].fin = TRUE]
              /\ tp' = [tp EXCEPT !.pc = "list"]
           \/ /\ ~secret[s].fin
              /\ secret[s].phase # "live"
              /\ TEnd
              /\ UNCHANGED secret
    /\ UNCHANGED <<taas, rec, server, cloud, dom, dns, dp>>

(* The bastions GET /bastion returns for an account that syncWeftServers   *)
(* mirrors: neither suspended nor without an IP.                           *)
Desired(seen) == {b \in Bastions : seen[b] = "running"}

(* GET /bastion: every bastion of the account, suspended ones included.    *)
ListExternalServers(t) ==
    [b \in Bastions |-> IF b \in BastionsOf[t] THEN cloud[b] ELSE "none"]

(* Reconcile: list the account's bastions.                                 *)
TList ==
    /\ tp.pc = "list"
    /\ LET seen == ListExternalServers(tt)
       IN  tp' = [tp EXCEPT !.pc = "upsert", !.seen = seen,
                            !.todo = Desired(seen)]
    /\ UNCHANGED <<taas, secret, rec, server, cloud, dom, dns, dp>>

(* syncWeftServers, one CreateOrUpdate: SetControllerReference refuses a   *)
(* WeftServer another AquaductTaaS controls (SyncError).                   *)
TUpsert(b) ==
    /\ tp.pc = "upsert"
    /\ b \in tp.todo
    /\ \/ /\ server[b] \in {tt, NoOne}
          /\ server' = [server EXCEPT ![b] = tt]
          /\ tp' = [tp EXCEPT !.todo = @ \ {b}]
       \/ /\ server[b] \notin {tt, NoOne}
          /\ TEnd
          /\ UNCHANGED server
    /\ UNCHANGED <<taas, secret, rec, cloud, dom, dns, dp>>

(* syncWeftServers: list the WeftServers carrying our label.               *)
TListMirrors ==
    /\ tp.pc = "upsert"
    /\ tp.todo = {}
    /\ tp' = [tp EXCEPT !.pc = "prune",
                        !.todo = {b \in Bastions : server[b] = tt}
                                   \ Desired(tp.seen)]
    /\ UNCHANGED <<taas, secret, rec, server, cloud, dom, dns, dp>>

(* syncWeftServers: delete one WeftServer aquaduct.dev no longer returns.  *)
TPrune(b) ==
    /\ tp.pc = "prune"
    /\ b \in tp.todo
    /\ server' = [server EXCEPT ![b] = NoOne]
    /\ tp' = [tp EXCEPT !.todo = @ \ {b}]
    /\ UNCHANGED <<taas, secret, rec, cloud, dom, dns, dp>>

(* commitStatus: publish the bastion list and stamp LastSyncTime.  A       *)
(* skipped write and a rewrite of equal content are the same step.         *)
TCommit ==
    /\ tp.pc = "prune"
    /\ tp.todo = {}
    /\ taas' = IF CopyOf(taas[tt]) = tp.copy
               THEN [taas EXCEPT ![tt].synced = TRUE, ![tt].bastions = tp.seen]
               ELSE taas
    /\ TEnd
    /\ UNCHANGED <<secret, rec, server, cloud, dom, dns, dp>>

(* Mutant: records already being deleted are taken for gone.               *)
OwnedRecordsLive(t) ==
    {r \in Records : TaaSRef[r] = t /\ rec[r].phase = "live"}

(* listOwnedDNSRecords. *)
OwnedRecords(t) ==
    {r \in Records : TaaSRef[r] = t /\ rec[r].phase # "absent"}

DeleteRecords(S) ==
    rec' = [r \in Records |->
              IF r \in S THEN DeletedRecord(rec[r]) ELSE rec[r]]

(* Mutant: the deletes are issued and nobody waits for them.               *)
TCascadeNoWait ==
    /\ tp.pc = "cascade"
    /\ DeleteRecords(OwnedRecords(tt))
    /\ tp' = [tp EXCEPT !.pc = "servers"]
    /\ UNCHANGED <<taas, secret, server, cloud, dom, dns, dp>>

(* Mutant: waits for the records, which nobody deletes.                    *)
TCascadeOnlyWaits ==
    /\ tp.pc = "cascade"
    /\ tp' = IF OwnedRecords(tt) # {} THEN TIdle
             ELSE [tp EXCEPT !.pc = "servers"]
    /\ UNCHANGED <<taas, secret, rec, server, cloud, dom, dns, dp>>

(* handleDeletion step 1: Delete every DNSRecord that names this object    *)
(* and wait for them to go; with none left go on to the bastions.          *)
TCascade ==
    /\ tp.pc = "cascade"
    /\ \/ /\ OwnedRecords(tt) # {}
          /\ DeleteRecords(OwnedRecords(tt))
          /\ TEnd
       \/ /\ OwnedRecords(tt) = {}
          /\ tp' = [tp EXCEPT !.pc = "servers"]
          /\ UNCHANGED rec
    /\ UNCHANGED <<taas, secret, server, cloud, dom, dns, dp>>

(* handleDeletion step 2: list the mirrored WeftServers ...                *)
TListServers ==
    /\ tp.pc = "servers"
    /\ tp' = [tp EXCEPT !.pc = "suspend",
                        !.todo = {b \in Bastions : server[b] = tt}]
    /\ UNCHANGED <<taas, secret, rec, server, cloud, dom, dns, dp>>

(* PATCH /bastion with suspended: true.                                    *)
SuspendServer(b) == cloud' = [cloud EXCEPT ![b] = "suspended"]

(* Mutant: a failed SuspendServer is logged and skipped.                   *)
TSuspendSkipsErrors(b) ==
    /\ tp.pc = "suspend"
    /\ b \in tp.todo
    /\ tp' = [tp EXCEPT !.todo = @ \ {b}]
    /\ UNCHANGED <<taas, secret, rec, server, cloud, dom, dns, dp>>

(* ... and suspend each bastion.  PATCH /bastion of a bastion aquaduct.dev *)
(* no longer has is a 404, a failure(SuspendError) like any other.         *)
TSuspend(b) ==
    /\ tp.pc = "suspend"
    /\ b \in tp.todo
    /\ \/ /\ cloud[b] # "none"
          /\ SuspendServer(b)
          /\ tp' = [tp EXCEPT !.todo = @ \ {b}, !.suspended = @ \cup {b}]
       \/ /\ cloud[b] = "none"
          /\ TEnd
          /\ UNCHANGED cloud
    /\ UNCHANGED <<taas, secret, rec, server, dom, dns, dp>>

(* Mutants: no reference counting; and counting every reference, the       *)
(* object's own included.                                                  *)
OtherUsersIgnored(t) == {}

OtherUsersAll(t) == {o \in TaaSes : SecretRef[o] = SecretRef[t]}

(* The other AquaductTaaS objects that keep the finalizer on a Secret: an  *)
(* object that is itself being deleted does not count.                     *)
OtherUsers(t) ==
    {o \in TaaSes \ {t} : taas[o].phase = "live" /\ SecretRef[o] = SecretRef[t]}

(* handleDeletion step 3, releaseSecretFinalizer.                          *)
TRelease ==
    /\ tp.pc = "suspend"
    /\ tp.todo = {}
    /\ LET s == SecretRef[tt]
       IN  secret' = IF secret[s].fin /\ OtherUsers(tt) = {}
                     THEN [secret EXCEPT ![s] =
                             IF @.phase = "deleting" THEN AbsentSecret
                             ELSE [@ EXCEPT !.fin = FALSE]]
                     ELSE secret
    /\ tp' = [tp EXCEPT !.pc = "drop"]
    /\ UNCHANGED <<taas, rec, server, cloud, dom, dns, dp>>

(* handleDeletion step 4: drop our finalizer, unless the object changed.   *)
(* The object goes and its WeftServers are garbage-collected with it.      *)
TDrop ==
    /\ tp.pc = "drop"
    /\ IF CopyOf(taas[tt]) = tp.copy
       THEN /\ taas' = [taas EXCEPT ![tt] = AbsentTaaS]
            /\ server' = [b \in Bastions |->
                            IF server[b] = tt THEN NoOne ELSE server[b]]
       ELSE UNCHANGED <<taas, server>>
    /\ TEnd
    /\ UNCHANGED <<secret, rec, cloud, dom, dns, dp>>

TNext ==
    \/ \E t \in TaaSes : TStart(t)
    \/ TAddFinalizer
    \/ TReadToken
    \/ TPin
    \/ TList
    \/ \E b \in Bastions : TUpsert(b)
    \/ TListMirrors
    \/ \E b \in Bastions : TPrune(b)
    \/ TCommit
    \/ TCascade
    \/ TListServers
    \/ \E b \in Bastions : TSuspend(b)
    \/ TRelease
    \/ TDrop

(* A call fails or its answer is lost: failure() or an error return ends   *)
(* the pass wherever it is, with what it already did in place.             *)
TFail ==
    /\ tp.pc # "idle"
    /\ TEnd
    /\ UNCHANGED <<taas, secret, rec, server, cloud, dom, dns, dp>>

(* The cascade's Delete calls fail part of the way.                        *)
TCascadeFails ==
    /\ tp.pc = "cascade"
    /\ \E S \in SUBSET OwnedRecords(tt) : DeleteRecords(S)
    /\ TEnd
    /\ UNCHANGED <<taas, secret, server, cloud, dom, dns, dp>>
=============================================================================
