--------------------------- MODULE TeardownCustody ---------------------------
(***************************************************************************)
(* Teardown implements NameCustody: a record holds its name by the         *)
(* finalizer, leaves once it has a deletionTimestamp, and the owner of a   *)
(* name is that of a registration the operator wrote.                      *)
(***************************************************************************)
EXTENDS Teardown

Holders == {r \in Records : rec[r].fin}

Leavers == {r \in Records : rec[r].phase = "deleting"}

ManagedOwner == [d \in Domains |-> IF dom[d].managed THEN dom[d].owner ELSE NoOne]

Custody == INSTANCE NameCustody
           WITH Accounts <- TaaSes, Name <- DomainName, Account <- TaaSRef,
                holds <- Holders, leaving <- Leavers, owner <- ManagedOwner

(* A pass takes the deletion path for a record that was being deleted when *)
(* it was read and, its finalizer being there, still is.                   *)
DeletesOnRequest ==
    /\ dp.pc # "idle" /\ dp.copy.phase = "deleting" =>
          dp.copy.fin /\ rec[dp.r].phase = "deleting"
    /\ dp.pc \in {"delete", "drop"} => dp.copy.phase = "deleting"

(* Every step of the two controllers, of users, failures and restarts is a *)
(* step of NameCustody or leaves names and finalizers alone: the promise   *)
(* handleDeletion and Reconcile of a DNSRecord make together.              *)
ImplementsCustody == Custody!CustodySpec
=============================================================================
