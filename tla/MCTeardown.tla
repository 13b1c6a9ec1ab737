------------------------------ MODULE MCTeardown ------------------------------
(***************************************************************************)
(* Constant values for the model-checking runs of Teardown.                *)
(***************************************************************************)
EXTENDS TeardownCustody

CONSTANTS t1, t2, s1, r1, b1, d1

(* Every AquaductTaaS uses the one Secret, every DNSRecord the one name    *)
(* and no explicit targets.                                                *)
SharedSecret == [t \in TaaSes |-> s1]
SharedName == [r \in Records |-> d1]
AllBastions == [r \in Records |-> {}]
OneTarget == [r \in Records |-> {b1}]

(* The keys of the Secret belong to one account or see the same bastions.  *)
OwnBastions == [t \in TaaSes |-> Bastions]

FirstTaaS == [r \in Records |-> t1]
===============================================================================
