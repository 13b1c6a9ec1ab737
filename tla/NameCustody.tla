----------------------------- MODULE NameCustody -----------------------------
(***************************************************************************)
(* What the DNSRecord controller promises about names, without passes,     *)
(* caches, failures or the rest of the cluster: a name is taken and given  *)
(* back only by a DNSRecord that holds it, that is, carries the            *)
(* unregister-on-delete finalizer; it is given back only on that record's  *)
(* deletion; and a record lets go only when the name is not its account's. *)
(***************************************************************************)
CONSTANTS Records, Domains, Accounts, Name, Account, NoOne

VARIABLES
    holds,    \* records with the finalizer
    leaving,  \* records somebody deletes
    owner     \* per name the operator manages: its account

custodyVars == <<holds, leaving, owner>>

CustodyInit ==
    /\ holds = {}
    /\ leaving = {}
    /\ owner = [d \in Domains |-> NoOne]

Hold(r) ==
    /\ r \notin holds
    /\ holds' = holds \cup {r}
    /\ UNCHANGED <<leaving, owner>>

(* One by one or, in a cascade, several at once.                           *)
Leave(S) ==
    /\ S \subseteq holds
    /\ leaving' = leaving \cup S
    /\ UNCHANGED <<holds, owner>>

Register(r) ==
    /\ r \in holds
    /\ owner[Name[r]] \in {NoOne, Account[r]}
    /\ owner' = [owner EXCEPT ![Name[r]] = Account[r]]
    /\ UNCHANGED <<holds, leaving>>

Unregister(r) ==
    /\ r \in leaving
    /\ owner[Name[r]] = Account[r]
    /\ owner' = [owner EXCEPT ![Name[r]] = NoOne]
    /\ UNCHANGED <<holds, leaving>>

LetGo(r) ==
    /\ r \in leaving
    /\ owner[Name[r]] # Account[r]
    /\ holds' = holds \ {r}
    /\ leaving' = leaving \ {r}
    /\ UNCHANGED owner

CustodyNext ==
    \/ \E r \in Records : Hold(r) \/ Register(r) \/ Unregister(r) \/ LetGo(r)
    \/ \E S \in SUBSET Records : Leave(S)

CustodySpec == CustodyInit /\ [][CustodyNext]_custodyVars
=============================================================================
