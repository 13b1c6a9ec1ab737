------------------------- MODULE DNSRecordReconciler -------------------------
(***************************************************************************)
(* The DNSRecord controller: one worker, one pass at a time, every call to *)
(* the apiserver or to aquaduct.dev a step of its own.                     *)
(***************************************************************************)
EXTENDS AquaductWorld

CONSTANT Refusals  \* aquaduct.dev may answer 401 or 409 to the owner's write

ASSUME RefusalsAssumption == Refusals \in BOOLEAN

rr == dp.r

rd == DomainName[rr]

acct == TaaSRef[rr]

DEnd == dp' = DIdle

(* failure(): the condition that failed and Ready go False and the pass    *)
(* ends; Status().Update is refused when the object changed.               *)
Failure(registered) ==
    /\ rec' = IF CopyOf(rec[rr]) = dp.copy
              THEN [rec EXCEPT ![rr].registered = registered,
                               ![rr].ready = FALSE]
              ELSE rec
    /\ DEnd

(* Reconcile: Get the object. *)
DStart(r) ==
    /\ dp.pc = "idle"
    /\ rec[r].phase # "absent"
    /\ dp' = [DIdle EXCEPT !.pc = "start", !.r = r, !.copy = CopyOf(rec[r])]
    /\ UNCHANGED <<taas, secret, rec, server, cloud, dom, dns, tp>>

(* No finalizer yet: add it and requeue.                                   *)
DAddFinalizer ==
    /\ dp.pc = "start"
    /\ ~dp.copy.fin
    /\ rec' = IF CopyOf(rec[rr]) = dp.copy THEN [rec EXCEPT ![rr].fin = TRUE] ELSE rec
    /\ DEnd
    /\ UNCHANGED <<taas, secret, server, cloud, dom, dns, tp>>

(* selectBastions: the bastions to fan out to, and the requested ones the  *)
(* published list does not have (or has without an IP).  An explicit       *)
(* target is taken even when it is suspended.                              *)
Selected(r, published) ==
    IF Targets[r] = {} THEN {b \in Bastions : published[b] = "running"}
    ELSE {b \in Targets[r] : published[b] \in {"running", "suspended"}}

Missing(r, published) ==
    IF Targets[r] = {} THEN {} ELSE Targets[r] \ Selected(r, published)

(* resolveAquaductTaaS, on both paths: the AquaductTaaS and its token.     *)
CredentialsAvailable ==
    taas[acct].phase # "absent" /\ TokenReadable(acct)

(* Without credentials, before the first sync or with an unknown bastion   *)
(* the pass ends in failure().                                             *)
DResolveFails ==
    /\ dp.pc = "start"
    /\ dp.copy.fin
    /\ \/ ~CredentialsAvailable
       \/ /\ dp.copy.phase = "live"
          /\ \/ ~taas[acct].synced
             \/ Missing(rr, taas[acct].bastions) # {}
    /\ Failure(FALSE)
    /\ UNCHANGED <<taas, secret, server, cloud, dom, dns, tp>>

(* Mutant: a record without a bastion to point at gives its name back.     *)
DResolveWithdraws ==
    /\ dp.pc = "start"
    /\ dp.copy.fin
    /\ CredentialsAvailable
    /\ dp' = IF dp.copy.phase = "deleting" \/ Selected(rr, taas[acct].bastions) = {}
             THEN [dp EXCEPT !.pc = "delete"]
             ELSE [dp EXCEPT !.pc = "get",
                             !.targets = Selected(rr, taas[acct].bastions)]
    /\ UNCHANGED <<taas, secret, rec, server, cloud, dom, dns, tp>>

(* Otherwise the deletion path goes to DeleteDomain, and the other one to  *)
(* GetDomain with the bastion list AquaductTaaS published.                 *)
DResolve ==
    /\ dp.pc = "start"
    /\ dp.copy.fin
    /\ CredentialsAvailable
    /\ \/ /\ dp.copy.phase = "deleting"
          /\ dp' = [dp EXCEPT !.pc = "delete"]
       \/ /\ dp.copy.phase = "live"
          /\ taas[acct].synced
          /\ Missing(rr, taas[acct].bastions) = {}
          /\ dp' = [dp EXCEPT !.pc = "get",
                              !.targets = Selected(rr, taas[acct].bastions)]
    /\ UNCHANGED <<taas, secret, rec, server, cloud, dom, dns, tp>>

(* GET /domain: 200, 404 (ErrDomainNotFound), or 403 for another user's    *)
(* name (ErrDomainForeign).                                                *)
GetDomain ==
    CASE dom[rd].owner = acct -> "found"
      [] dom[rd].owner = NoOne -> "notFound"
      [] OTHER -> "foreign"

(* Reconcile: PUT a name nobody has, PATCH one the account has; a foreign  *)
(* one leads to the lookup alone.                                          *)
DGet ==
    /\ dp.pc = "get"
    /\ dp' = CASE GetDomain = "notFound" -> [dp EXCEPT !.pc = "put"]
               [] GetDomain = "found" -> [dp EXCEPT !.pc = "patch"]
               [] OTHER -> [dp EXCEPT !.pc = "lookup", !.outcome = "foreign"]
    /\ UNCHANGED <<taas, secret, rec, server, cloud, dom, dns, tp>>

(* The bastions aquaduct.dev binds for bastion_ids; an explicit [] asks    *)
(* for all of the account's bastions that run.                             *)
Applied(ids) ==
    IF ids = {} THEN {b \in BastionsOf[acct] : cloud[b] = "running"} ELSE ids

(* Mutant: the name is registered to the DNSRecord, not to its account.    *)
PutDomainForRecord ==
    dom' = [dom EXCEPT ![rd] = [owner |-> rr, targets |-> Applied(dp.targets),
                                managed |-> TRUE]]

(* PUT /domain as aquaduct.dev applies it: it registers a free name, and   *)
(* updates one the account already has.                                    *)
PutDomain ==
    dom' = [dom EXCEPT ![rd] = [owner |-> acct, targets |-> Applied(dp.targets),
                                managed |-> TRUE]]

(* Mutant: bastion_ids omitted, which PATCH reads as "leave as it is".     *)
PatchDomainOmitsTargets ==
    dom' = [dom EXCEPT ![rd].managed = TRUE]

PatchDomain ==
    dom' = [dom EXCEPT ![rd].targets = Applied(dp.targets), ![rd].managed = TRUE]

(* The name went to another user between GET and PUT: PUT is refused.      *)
DPut ==
    /\ dp.pc = "put"
    /\ \/ /\ dom[rd].owner \in {NoOne, acct}
          /\ PutDomain
          /\ dp' = [dp EXCEPT !.pc = "lookup", !.outcome = "registered"]
          /\ UNCHANGED rec
       \/ /\ dom[rd].owner \notin {NoOne, acct}
          /\ Failure(FALSE)
          /\ UNCHANGED dom
    /\ UNCHANGED <<taas, secret, server, cloud, dns, tp>>

(* PATCH: 404 requeues at once, 401/403/409 is taken for foreign.          *)
DPatch ==
    /\ dp.pc = "patch"
    /\ \/ /\ dom[rd].owner = acct
          /\ PatchDomain
          /\ dp' = [dp EXCEPT !.pc = "lookup", !.outcome = "registered"]
       \/ /\ dom[rd].owner = NoOne
          /\ DEnd
          /\ UNCHANGED dom
       \/ /\ dom[rd].owner # NoOne
          /\ dom[rd].owner = acct => Refusals
          /\ dp' = [dp EXCEPT !.pc = "lookup", !.outcome = "foreign"]
          /\ UNCHANGED dom
    /\ UNCHANGED <<taas, secret, rec, server, cloud, dns, tp>>

(* GET /domain/lookup: the public A records.                               *)
LookupDomain == dns[rd]

(* Reconcile: Resolved compares the public A records with the expected  *)
(* ones; no targets and no records is a match too.                         *)
DLookup ==
    /\ dp.pc = "lookup"
    /\ dp' = [dp EXCEPT !.pc = "commit", !.resolved = (LookupDomain = dp.targets)]
    /\ UNCHANGED <<taas, secret, rec, server, cloud, dom, dns, tp>>

(* The status a completed pass writes; Ready follows Resolved alone.       *)
NewStatus ==
    [rec[rr] EXCEPT !.registered = dp.outcome # "foreign", !.ready = dp.resolved]

(* commitStatus. *)
DCommit ==
    /\ dp.pc = "commit"
    /\ rec' = IF CopyOf(rec[rr]) = dp.copy THEN [rec EXCEPT ![rr] = NewStatus] ELSE rec
    /\ DEnd
    /\ UNCHANGED <<taas, secret, server, cloud, dom, dns, tp>>

(* DELETE /domain of a name the account owns.                              *)
DeleteDomain == dom' = [dom EXCEPT ![rd] = Unregistered]

(* Mutant: any failed DELETE counts as done.                               *)
DDeleteAnyError ==
    /\ dp.pc = "delete"
    /\ UNCHANGED dom
    /\ dp' = [dp EXCEPT !.pc = "drop"]
    /\ UNCHANGED <<taas, secret, rec, server, cloud, dns, tp>>

(* handleDeletion, DeleteDomain: 404 is success, and 401/403/409 is taken  *)
(* to mean that the name was never ours.                                   *)
DDelete ==
    /\ dp.pc = "delete"
    /\ \/ /\ dom[rd].owner = acct
          /\ DeleteDomain
       \/ /\ dom[rd].owner = acct => Refusals
          /\ UNCHANGED dom
    /\ dp' = [dp EXCEPT !.pc = "drop"]
    /\ UNCHANGED <<taas, secret, rec, server, cloud, dns, tp>>

(* handleDeletion: drop the finalizer, and the object goes.                *)
DDrop ==
    /\ dp.pc = "drop"
    /\ rec' = IF CopyOf(rec[rr]) = dp.copy
              THEN [rec EXCEPT ![rr] = AbsentRecord]
              ELSE rec
    /\ DEnd
    /\ UNCHANGED <<taas, secret, server, cloud, dom, dns, tp>>

DNext ==
    \/ \E r \in Records : DStart(r)
    \/ DAddFinalizer
    \/ DResolveFails
    \/ DResolve
    \/ DGet
    \/ DPut
    \/ DPatch
    \/ DLookup
    \/ DCommit
    \/ DDelete
    \/ DDrop

(* An aquaduct.dev call fails: GET, PUT and PATCH through failure() on     *)
(* Registered, DELETE (CleanupFailed) on Ready alone.  The request may     *)
(* have been applied all the same.                                         *)
DCallFails ==
    /\ \/ /\ dp.pc \in {"get", "put", "patch"}
          /\ Failure(FALSE)
          /\ UNCHANGED dom
       \/ /\ dp.pc = "delete"
          /\ Failure(rec[rr].registered)
          /\ UNCHANGED dom
       \/ /\ dp.pc = "put"
          /\ dom[rd].owner \in {NoOne, acct}
          /\ PutDomain
          /\ Failure(FALSE)
       \/ /\ dp.pc = "patch"
          /\ dom[rd].owner = acct
          /\ PatchDomain
          /\ Failure(FALSE)
       \/ /\ dp.pc = "delete"
          /\ dom[rd].owner = acct
          /\ DeleteDomain
          /\ Failure(rec[rr].registered)
    /\ UNCHANGED <<taas, secret, server, cloud, dns, tp>>

(* A failed lookup is no reason to stop: Resolved is False, reason         *)
(* LookupFailed, and the status is written.                                *)
DLookupFails ==
    /\ dp.pc = "lookup"
    /\ dp' = [dp EXCEPT !.pc = "commit", !.resolved = FALSE]
    /\ UNCHANGED <<taas, secret, rec, server, cloud, dom, dns, tp>>

(* A call to the apiserver fails: the error is returned, nothing written.  *)
DFail ==
    /\ dp.pc \in {"start", "commit", "drop"}
    /\ DEnd
    /\ UNCHANGED <<taas, secret, rec, server, cloud, dom, dns, tp>>
=============================================================================
