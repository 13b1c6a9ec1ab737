--------------------------- MODULE Teardown_proofs ---------------------------
(***************************************************************************)
(* Proofs about Teardown, for any number of AquaductTaaS objects,          *)
(* DNSRecords, Secrets, bastions and domains: types, that no name is left  *)
(* registered, and that it implements NameCustody.                         *)
(***************************************************************************)
EXTENDS TeardownCustody, TLAPS

(* Absent and new objects, and idle passes, are well-formed.               *)
LEMMA InitialValues ==
    /\ AbsentTaaS \in TaaSObject /\ NewTaaS \in TaaSObject
    /\ AbsentSecret \in SecretObject /\ NewSecret \in SecretObject
    /\ AbsentRecord \in RecordObject /\ NewRecord \in RecordObject
    /\ Unregistered \in Registration
    /\ TIdle \in TPass /\ TIdle.pc = "idle"
    /\ DIdle \in DPass /\ DIdle.pc = "idle"
<1>1. /\ AbsentTaaS \in TaaSObject /\ NewTaaS \in TaaSObject
      /\ AbsentSecret \in SecretObject /\ NewSecret \in SecretObject
      /\ AbsentRecord \in RecordObject /\ NewRecord \in RecordObject
  BY DEF AbsentTaaS, NewTaaS, TaaSObject, NoBastions, CloudStates, Phases,
         AbsentSecret, NewSecret, SecretObject, AbsentRecord, NewRecord,
         RecordObject
<1>2. Unregistered \in Registration
  BY DEF Unregistered, Registration
<1>3. TIdle \in TPass /\ TIdle.pc = "idle"
  BY DEF TIdle, TPass, NoCopy, Copy, TPcs, NoBastions, CloudStates, Phases
<1>4. DIdle \in DPass /\ DIdle.pc = "idle"
  BY DEF DIdle, DPass, NoCopy, Copy, DPcs, Outcomes, Phases
<1>5. QED
  BY <1>1, <1>2, <1>3, <1>4

(* A pass that only moves on keeps its object.                             *)
LEMMA TMoved ==
    ASSUME tp \in TPass, NEW pc \in TPcs, tp' = [tp EXCEPT !.pc = pc]
    PROVE  tp' \in TPass /\ tp'.t = tp.t
BY DEF TPass

LEMMA DMoved ==
    ASSUME dp \in DPass, NEW pc \in DPcs, dp' = [dp EXCEPT !.pc = pc]
    PROVE  dp' \in DPass /\ dp'.r = dp.r
BY DEF DPass

(* Deleting any set of DNSRecords leaves well-formed DNSRecords.           *)
LEMMA DeleteRecordsType ==
    ASSUME rec \in [Records -> RecordObject], NEW S, DeleteRecords(S)
    PROVE  rec' \in [Records -> RecordObject]
<1>1. \A r \in Records : DeletedRecord(rec[r]) \in RecordObject
  BY InitialValues DEF DeletedRecord, RecordObject, Phases
<1>2. QED
  BY <1>1 DEF DeleteRecords

(* A step of the AquaductTaaS controller keeps the state well-formed.      *)
LEMMA TTypes == TypeOK /\ (TNext \/ TFail \/ TCascadeFails) => TypeOK'
<1> SUFFICES ASSUME TypeOK, TNext \/ TFail \/ TCascadeFails PROVE TypeOK'
  OBVIOUS
<1>a. /\ taas \in [TaaSes -> TaaSObject]
      /\ secret \in [Secrets -> SecretObject]
      /\ rec \in [Records -> RecordObject]
      /\ server \in [Bastions -> TaaSes \cup {NoOne}]
      /\ cloud \in [Bastions -> CloudStates]
      /\ tp \in TPass
      /\ tp.pc # "idle" => tt \in TaaSes
  BY DEF TypeOK, tt
<1>b. tp.pc # "idle" => SecretRef[tt] \in Secrets
  BY <1>a, RefAssumption
<1>1. ASSUME NEW t \in TaaSes, TStart(t) PROVE TypeOK'
  <2>1. CopyOf(taas[t]) \in Copy
    BY <1>a DEF CopyOf, Copy, TaaSObject
  <2>2. tp' \in TPass /\ tp'.t = t
    BY <1>1, <2>1, InitialValues DEF TStart, TPass, TPcs
  <2>3. QED
    BY <1>1, <2>2 DEF TypeOK, TStart
<1>2. CASE TAddFinalizer
  <2>1. taas' \in [TaaSes -> TaaSObject]
    BY <1>2, <1>a DEF TAddFinalizer, TaaSObject
  <2>2. QED
    BY <1>2, <2>1, InitialValues DEF TypeOK, TAddFinalizer, TEnd
<1>3. CASE TReadToken
  <2>1. \/ tp' = TIdle
        \/ tp' = [tp EXCEPT !.pc = "pin"]
        \/ tp' = [tp EXCEPT !.pc = "cascade"]
    BY <1>3 DEF TReadToken, TEnd
  <2>2. tp' \in TPass /\ (tp'.pc # "idle" => tp'.t = tp.t)
    BY <1>a, <2>1, InitialValues, TMoved DEF TPcs
  <2>3. QED
    BY <1>3, <2>2 DEF TypeOK, TReadToken
<1>4. CASE TPin
  <2>1. tp' = TIdle \/ tp' = [tp EXCEPT !.pc = "list"]
    BY <1>4 DEF TPin, TEnd
  <2>2. tp' \in TPass /\ (tp'.pc # "idle" => tp'.t = tp.t)
    BY <1>a, <2>1, InitialValues, TMoved DEF TPcs
  <2>3. \/ secret' = secret
        \/ secret' = [secret EXCEPT ![SecretRef[tt]].fin = TRUE]
    BY <1>4 DEF TPin
  <2>4. secret' \in [Secrets -> SecretObject]
    BY <1>a, <1>b, <2>3 DEF SecretObject
  <2>5. QED
    BY <1>4, <2>2, <2>4 DEF TypeOK, TPin
<1>5. CASE TList
  <2>1. tp' \in TPass /\ tp'.t = tp.t
    BY <1>5, <1>a DEF TList, Desired, TPass, TPcs, CloudStates, ListExternalServers
  <2>2. QED
    BY <1>5, <2>1 DEF TypeOK, TList, ListExternalServers
<1>6. ASSUME NEW b \in Bastions, TUpsert(b) PROVE TypeOK'
  <2>1. tp' = TIdle \/ tp' = [tp EXCEPT !.todo = @ \ {b}]
    BY <1>6 DEF TUpsert, TEnd
  <2>2. tp' \in TPass /\ (tp'.pc # "idle" => tp'.t = tp.t)
    BY <1>a, <2>1, InitialValues DEF TPass
  <2>3. server' = server \/ server' = [server EXCEPT ![b] = tt]
    BY <1>6 DEF TUpsert
  <2>4. server' \in [Bastions -> TaaSes \cup {NoOne}]
    BY <1>6, <1>a, <2>3 DEF TUpsert
  <2>5. QED
    BY <1>6, <2>2, <2>4 DEF TypeOK, TUpsert
<1>7. CASE TListMirrors
  <2>1. tp' \in TPass /\ tp'.t = tp.t
    BY <1>7, <1>a DEF TListMirrors, TPass, TPcs
  <2>2. QED
    BY <1>7, <2>1 DEF TypeOK, TListMirrors
<1>8. ASSUME NEW b \in Bastions, TPrune(b) PROVE TypeOK'
  <2>1. tp' \in TPass /\ tp'.t = tp.t
    BY <1>8, <1>a DEF TPrune, TPass
  <2>2. server' \in [Bastions -> TaaSes \cup {NoOne}]
    BY <1>8, <1>a DEF TPrune
  <2>3. QED
    BY <1>8, <2>1, <2>2 DEF TypeOK, TPrune
<1>9. CASE TCommit
  <2>1. tp.seen \in [Bastions -> CloudStates]
    BY <1>a DEF TPass
  <2>2. \/ taas' = taas
        \/ taas' = [taas EXCEPT ![tt].synced = TRUE, ![tt].bastions = tp.seen]
    BY <1>9 DEF TCommit
  <2>3. taas' \in [TaaSes -> TaaSObject]
    BY <1>a, <2>1, <2>2 DEF TaaSObject
  <2>4. QED
    BY <1>9, <2>3, InitialValues DEF TypeOK, TCommit, TEnd
<1>10. CASE TCascade
  <2>1. tp' = TIdle \/ tp' = [tp EXCEPT !.pc = "servers"]
    BY <1>10 DEF TCascade, TEnd
  <2>2. tp' \in TPass /\ (tp'.pc # "idle" => tp'.t = tp.t)
    BY <1>a, <2>1, InitialValues, TMoved DEF TPcs
  <2>3. rec' \in [Records -> RecordObject]
    BY <1>a, <1>10, DeleteRecordsType DEF TCascade
  <2>4. QED
    BY <1>10, <2>2, <2>3 DEF TypeOK, TCascade
<1>11. CASE TListServers
  <2>1. tp' \in TPass /\ tp'.t = tp.t
    BY <1>11, <1>a DEF TListServers, TPass, TPcs
  <2>2. QED
    BY <1>11, <2>1 DEF TypeOK, TListServers
<1>12. ASSUME NEW b \in Bastions, TSuspend(b) PROVE TypeOK'
  <2>1. \/ tp' = TIdle
        \/ tp' = [tp EXCEPT !.todo = @ \ {b}, !.suspended = @ \cup {b}]
    BY <1>12 DEF TSuspend, TEnd, SuspendServer
  <2>2. tp' \in TPass /\ (tp'.pc # "idle" => tp'.t = tp.t)
    <3>1. CASE tp' = TIdle
      BY <3>1, InitialValues
    <3>2. CASE tp' = [tp EXCEPT !.todo = @ \ {b}, !.suspended = @ \cup {b}]
      <4>1. tp.todo \ {b} \in SUBSET Bastions
        BY <1>a DEF TPass
      <4>2. tp.suspended \cup {b} \in SUBSET Bastions
        BY <1>a DEF TPass
      <4>3. QED
        BY <1>a, <3>2, <4>1, <4>2 DEF TPass
    <3>3. QED
      BY <2>1, <3>1, <3>2
  <2>3. cloud' \in [Bastions -> CloudStates]
    BY <1>12, <1>a DEF TSuspend, CloudStates, SuspendServer
  <2>4. QED
    BY <1>12, <2>2, <2>3 DEF TypeOK, TSuspend, SuspendServer
<1>13. CASE TRelease
  <2>1. tp' \in TPass /\ tp'.t = tp.t
    BY <1>13, <1>a, TMoved DEF TRelease, TPcs
  <2>2. \/ secret' = secret
        \/ secret' = [secret EXCEPT ![SecretRef[tt]] = AbsentSecret]
        \/ secret' = [secret EXCEPT ![SecretRef[tt]].fin = FALSE]
    BY <1>13 DEF TRelease
  <2>3. secret' \in [Secrets -> SecretObject]
    <3>1. CASE secret' = [secret EXCEPT ![SecretRef[tt]] = AbsentSecret]
      BY <1>a, <3>1, InitialValues
    <3>2. CASE secret' = [secret EXCEPT ![SecretRef[tt]].fin = FALSE]
      BY <1>a, <3>2 DEF SecretObject
    <3>3. QED
      BY <1>a, <2>2, <3>1, <3>2
  <2>4. QED
    BY <1>13, <2>1, <2>3 DEF TypeOK, TRelease
<1>14. CASE TDrop
  <2>1. taas' \in [TaaSes -> TaaSObject]
    BY <1>14, <1>a, InitialValues DEF TDrop
  <2>2. server' \in [Bastions -> TaaSes \cup {NoOne}]
    BY <1>14, <1>a DEF TDrop
  <2>3. QED
    BY <1>14, <2>1, <2>2, InitialValues DEF TypeOK, TDrop, TEnd
<1>15. CASE TFail
  BY <1>15, InitialValues DEF TypeOK, TFail, TEnd
<1>16. CASE TCascadeFails
  <2>1. rec' \in [Records -> RecordObject]
    BY <1>a, <1>16, DeleteRecordsType DEF TCascadeFails
  <2>2. QED
    BY <1>16, <2>1, InitialValues DEF TypeOK, TCascadeFails, TEnd
<1>17. QED
  BY <1>1, <1>2, <1>3, <1>4, <1>5, <1>6, <1>7, <1>8, <1>9, <1>10, <1>11,
     <1>12, <1>13, <1>14, <1>15, <1>16 DEF TNext

(* A step of the DNSRecord controller keeps the state well-formed.         *)
LEMMA DTypes ==
    TypeOK /\ (DNext \/ DCallFails \/ DLookupFails \/ DFail) => TypeOK'
<1> SUFFICES ASSUME TypeOK, DNext \/ DCallFails \/ DLookupFails \/ DFail
             PROVE  TypeOK'
  OBVIOUS
<1>a. /\ taas \in [TaaSes -> TaaSObject]
      /\ rec \in [Records -> RecordObject]
      /\ dom \in [Domains -> Registration]
      /\ dp \in DPass
      /\ dp.pc # "idle" => rr \in Records
  BY DEF TypeOK, rr
<1>b. dp.pc # "idle" => rd \in Domains /\ acct \in TaaSes
  BY <1>a, RefAssumption DEF rd, acct
<1>c. ASSUME NEW f \in BOOLEAN, Failure(f)
      PROVE  rec' \in [Records -> RecordObject] /\ dp' = DIdle
  <2>1. \/ rec' = rec
        \/ rec' = [rec EXCEPT ![rr].registered = f, ![rr].ready = FALSE]
    BY <1>c DEF Failure
  <2>2. rec' \in [Records -> RecordObject]
    BY <1>a, <2>1 DEF RecordObject
  <2>3. QED
    BY <1>c, <2>2 DEF Failure, DEnd
<1>d. ASSUME dp.pc # "idle", PutDomain PROVE dom' \in [Domains -> Registration]
  <2>0. dp.targets \in SUBSET Bastions
    BY <1>a DEF DPass
  <2>1. Applied(dp.targets) \in SUBSET Bastions
    BY <1>b, <2>0, <1>d, RefAssumption DEF Applied
  <2>2. [owner |-> acct, targets |-> Applied(dp.targets), managed |-> TRUE]
        \in Registration
    BY <1>a, <1>b, <1>d, <2>1 DEF Registration
  <2>3. QED
    BY <1>a, <1>b, <1>d, <2>2 DEF PutDomain
<1>e. ASSUME dp.pc # "idle", PatchDomain
      PROVE  dom' \in [Domains -> Registration]
  <2>0. dp.targets \in SUBSET Bastions
    BY <1>a DEF DPass
  <2>1. Applied(dp.targets) \in SUBSET Bastions
    BY <1>b, <2>0, <1>e, RefAssumption DEF Applied
  <2>2. QED
    BY <1>a, <1>b, <1>e, <2>1 DEF PatchDomain, Registration
<1>f. ASSUME dom' = [dom EXCEPT ![rd] = Unregistered]
      PROVE  dom' \in [Domains -> Registration]
  BY <1>a, <1>f, InitialValues
<1>1. ASSUME NEW r \in Records, DStart(r) PROVE TypeOK'
  <2>1. CopyOf(rec[r]) \in Copy
    BY <1>a DEF CopyOf, Copy, RecordObject
  <2>2. dp' \in DPass /\ dp'.r = r
    BY <1>1, <2>1, InitialValues DEF DStart, DPass, DPcs
  <2>3. QED
    BY <1>1, <2>2 DEF TypeOK, DStart
<1>2. CASE DAddFinalizer
  <2>1. rec' \in [Records -> RecordObject]
    BY <1>2, <1>a DEF DAddFinalizer, RecordObject
  <2>2. QED
    BY <1>2, <2>1, InitialValues DEF TypeOK, DAddFinalizer, DEnd
<1>3. CASE DResolveFails
  BY <1>3, <1>c, InitialValues DEF TypeOK, DResolveFails
<1>4. CASE DResolve
  <2>1. \/ dp' = [dp EXCEPT !.pc = "delete"]
        \/ dp' = [dp EXCEPT !.pc = "get",
                            !.targets = Selected(rr, taas[acct].bastions)]
    BY <1>4 DEF DResolve
  <2>2. Selected(rr, taas[acct].bastions) \in SUBSET Bastions
    BY <1>4, <1>a, RefAssumption DEF DResolve, Selected
  <2>3. dp' \in DPass /\ dp'.r = dp.r
    BY <1>a, <2>1, <2>2 DEF DPass, DPcs
  <2>4. QED
    BY <1>4, <2>3 DEF TypeOK, DResolve
<1>5. CASE DGet
  <2>1. \/ dp' = [dp EXCEPT !.pc = "put"]
        \/ dp' = [dp EXCEPT !.pc = "patch"]
        \/ dp' = [dp EXCEPT !.pc = "lookup", !.outcome = "foreign"]
    BY <1>5 DEF DGet
  <2>2. dp' \in DPass /\ dp'.r = dp.r
    BY <1>a, <2>1 DEF DPass, DPcs, Outcomes
  <2>3. QED
    BY <1>5, <2>2 DEF TypeOK, DGet
<1>6. CASE DPut
  <2>1. \/ /\ dp' = [dp EXCEPT !.pc = "lookup", !.outcome = "registered"]
           /\ PutDomain
           /\ rec' = rec
        \/ Failure(FALSE) /\ dom' = dom
    BY <1>6 DEF DPut
  <2>2. ASSUME dp' = [dp EXCEPT !.pc = "lookup", !.outcome = "registered"]
        PROVE  dp' \in DPass /\ dp'.r = dp.r
    BY <1>a, <2>2 DEF DPass, DPcs, Outcomes
  <2>3. /\ dp' \in DPass
        /\ dp'.pc # "idle" => dp'.r = dp.r
        /\ rec' \in [Records -> RecordObject]
        /\ dom' \in [Domains -> Registration]
    BY <1>6, <1>a, <1>c, <1>d, <2>1, <2>2, InitialValues DEF DPut
  <2>4. QED
    BY <1>6, <2>3 DEF TypeOK, DPut
<1>7. CASE DPatch
  <2>1. \/ dp' = DIdle
        \/ dp' = [dp EXCEPT !.pc = "lookup", !.outcome = "registered"]
        \/ dp' = [dp EXCEPT !.pc = "lookup", !.outcome = "foreign"]
    BY <1>7 DEF DPatch, DEnd
  <2>2. dp' \in DPass /\ (dp'.pc # "idle" => dp'.r = dp.r)
    <3>1. CASE dp' = DIdle
      BY <3>1, InitialValues
    <3>2. CASE dp' = [dp EXCEPT !.pc = "lookup", !.outcome = "registered"]
      BY <1>a, <3>2 DEF DPass, DPcs, Outcomes
    <3>3. CASE dp' = [dp EXCEPT !.pc = "lookup", !.outcome = "foreign"]
      BY <1>a, <3>3 DEF DPass, DPcs, Outcomes
    <3>4. QED
      BY <2>1, <3>1, <3>2, <3>3
  <2>3. dom' \in [Domains -> Registration]
    BY <1>7, <1>a, <1>e DEF DPatch
  <2>4. QED
    BY <1>7, <2>2, <2>3 DEF TypeOK, DPatch
<1>8. CASE DLookup
  <2>1. dp' \in DPass /\ dp'.r = dp.r
    BY <1>8, <1>a DEF DLookup, DPass, DPcs
  <2>2. QED
    BY <1>8, <2>1 DEF TypeOK, DLookup
<1>9. CASE DCommit
  <2>1. rr \in Records => NewStatus \in RecordObject
    BY <1>a DEF NewStatus, RecordObject, DPass
  <2>2. rec' \in [Records -> RecordObject]
    BY <1>9, <1>a, <2>1 DEF DCommit
  <2>3. QED
    BY <1>9, <2>2, InitialValues DEF TypeOK, DCommit, DEnd
<1>10. CASE DDelete
  <2>1. dp' \in DPass /\ dp'.r = dp.r
    BY <1>10, <1>a, DMoved DEF DDelete, DPcs, DeleteDomain
  <2>2. dom' \in [Domains -> Registration]
    BY <1>10, <1>a, <1>f DEF DDelete, DeleteDomain
  <2>3. QED
    BY <1>10, <2>1, <2>2 DEF TypeOK, DDelete, DeleteDomain
<1>11. CASE DDrop
  <2>1. rec' \in [Records -> RecordObject]
    BY <1>11, <1>a, InitialValues DEF DDrop
  <2>2. QED
    BY <1>11, <2>1, InitialValues DEF TypeOK, DDrop, DEnd
<1>12. CASE DCallFails
  <2>1. dp.pc # "idle"
    BY <1>12 DEF DCallFails, DeleteDomain
  <2>2. rec[rr].registered \in BOOLEAN
    BY <1>a, <2>1 DEF RecordObject
  <2>3. Failure(FALSE) \/ Failure(rec[rr].registered)
    BY <1>12 DEF DCallFails, DeleteDomain
  <2>4. rec' \in [Records -> RecordObject] /\ dp' = DIdle
    BY <1>c, <2>2, <2>3
  <2>5. \/ dom' = dom \/ PutDomain \/ PatchDomain
        \/ dom' = [dom EXCEPT ![rd] = Unregistered]
    BY <1>12 DEF DCallFails, DeleteDomain
  <2>6. dom' \in [Domains -> Registration]
    BY <1>a, <1>d, <1>e, <1>f, <2>1, <2>5
  <2>7. QED
    BY <1>12, <2>4, <2>6, InitialValues DEF TypeOK, DCallFails, DeleteDomain
<1>13. CASE DLookupFails
  <2>1. dp' \in DPass /\ dp'.r = dp.r
    BY <1>13, <1>a DEF DLookupFails, DPass, DPcs
  <2>2. QED
    BY <1>13, <2>1 DEF TypeOK, DLookupFails
<1>14. CASE DFail
  BY <1>14, InitialValues DEF TypeOK, DFail, DEnd
<1>15. QED
  BY <1>1, <1>2, <1>3, <1>4, <1>5, <1>6, <1>7, <1>8, <1>9, <1>10, <1>11,
     <1>12, <1>13, <1>14 DEF DNext

(* Users, aquaduct.dev, DNS and restarts keep the state well-formed.       *)
LEMMA ETypes ==
    TypeOK /\ (Users \/ Outside \/ Restart \/ \E d \in Domains : Propagate(d))
        => TypeOK'
<1> SUFFICES ASSUME TypeOK,
                    \/ Users \/ Outside \/ Restart
                    \/ \E d \in Domains : Propagate(d)
             PROVE  TypeOK'
  OBVIOUS
<1>a. /\ taas \in [TaaSes -> TaaSObject]
      /\ secret \in [Secrets -> SecretObject]
      /\ rec \in [Records -> RecordObject]
      /\ cloud \in [Bastions -> CloudStates]
      /\ dom \in [Domains -> Registration]
      /\ dns \in [Domains -> SUBSET Bastions]
  BY DEF TypeOK
<1>1. ASSUME NEW t \in TaaSes, CreateTaaS(t) \/ DeleteTaaS(t) PROVE TypeOK'
  <2>1. DeletedTaaS(taas[t]) \in TaaSObject
    BY <1>a, InitialValues DEF DeletedTaaS, TaaSObject, Phases
  <2>2. taas' \in [TaaSes -> TaaSObject]
    BY <1>1, <1>a, <2>1, InitialValues DEF CreateTaaS, DeleteTaaS
  <2>3. QED
    BY <1>1, <2>2 DEF TypeOK, CreateTaaS, DeleteTaaS
<1>2. ASSUME NEW s \in Secrets, CreateSecret(s) \/ DeleteSecret(s)
      PROVE  TypeOK'
  <2>1. DeletedSecret(secret[s]) \in SecretObject
    BY <1>a, InitialValues DEF DeletedSecret, SecretObject, Phases
  <2>2. secret' \in [Secrets -> SecretObject]
    BY <1>2, <1>a, <2>1, InitialValues DEF CreateSecret, DeleteSecret
  <2>3. QED
    BY <1>2, <2>2 DEF TypeOK, CreateSecret, DeleteSecret
<1>3. ASSUME NEW r \in Records, CreateRecord(r) \/ DeleteRecord(r)
      PROVE  TypeOK'
  <2>1. DeletedRecord(rec[r]) \in RecordObject
    BY <1>a, InitialValues DEF DeletedRecord, RecordObject, Phases
  <2>2. rec' \in [Records -> RecordObject]
    BY <1>3, <1>a, <2>1, InitialValues DEF CreateRecord, DeleteRecord
  <2>3. QED
    BY <1>3, <2>2 DEF TypeOK, CreateRecord, DeleteRecord
<1>4. ASSUME NEW b \in Bastions, CloudStep(b) PROVE TypeOK'
  <2>1. cloud' \in [Bastions -> CloudStates]
    BY <1>4, <1>a DEF CloudStep
  <2>2. QED
    BY <1>4, <2>1 DEF TypeOK, CloudStep
<1>5. ASSUME NEW d \in Domains, RegisterOutside(d) \/ ReleaseOutside(d)
      PROVE  TypeOK'
  <2>1. \A o \in TaaSes \cup {Foreign} :
           [Unregistered EXCEPT !.owner = o] \in Registration
    BY DEF Unregistered, Registration
  <2>2. dom' \in [Domains -> Registration]
    BY <1>5, <1>a, <2>1, InitialValues DEF RegisterOutside, ReleaseOutside
  <2>3. QED
    BY <1>5, <2>2 DEF TypeOK, RegisterOutside, ReleaseOutside
<1>6. ASSUME NEW d \in Domains, Propagate(d) PROVE TypeOK'
  <2>1. dns' \in [Domains -> SUBSET Bastions]
    BY <1>6, <1>a DEF Propagate, Registration
  <2>2. QED
    BY <1>6, <2>1 DEF TypeOK, Propagate
<1>7. CASE Restart
  BY <1>7, InitialValues DEF TypeOK, Restart
<1>8. QED
  BY <1>1, <1>2, <1>3, <1>4, <1>5, <1>6, <1>7 DEF Users, Outside

LEMMA InitTypes == Init => TypeOK
BY InitialValues DEF Init, TypeOK, NoBastions, CloudStates

LEMMA StepTypes == TypeOK /\ [Next]_vars => TypeOK'
<1>1. TypeOK /\ UNCHANGED vars => TypeOK'
  BY DEF TypeOK, vars
<1>2. QED
  BY <1>1, TTypes, DTypes, ETypes DEF Next, Failures

(* Every step of either controller, of the users or of aquaduct.dev keeps  *)
(* the objects and both passes well-formed.                                *)
THEOREM TypeCorrect == Spec => []TypeOK
BY InitTypes, StepTypes, PTL DEF Spec

-----------------------------------------------------------------------------
(* Safety *)


(* What deleting a DNSRecord, by a user or by the cascade, does to it.     *)
LEMMA DeletedRecordFields ==
    ASSUME NEW o \in RecordObject
    PROVE  /\ DeletedRecord(o).fin = o.fin
           /\ DeletedRecord(o).phase = IF o.fin THEN "deleting" ELSE "absent"
BY DEF DeletedRecord, AbsentRecord, RecordObject

(* The AquaductTaaS controller touches DNSRecords only to delete them.     *)
LEMMA TFrame ==
    ASSUME TNext \/ TFail \/ TCascadeFails
    PROVE  dom' = dom /\ dp' = dp /\ (rec' = rec \/ \E S : DeleteRecords(S))
BY DEF TNext, TStart, TAddFinalizer, TReadToken, TPin, TList, TUpsert,
       TListMirrors, TPrune, TCommit, TCascade, TListServers, TSuspend,
       TRelease, TDrop, TFail, TCascadeFails

(* What may happen to the DNSRecords outside the DNSRecord controller: no  *)
(* finalizer changes hands, and the phase stays consistent with it.        *)
RecordsKept ==
    \A r \in Records : /\ rec'[r].fin = rec[r].fin
                       /\ \/ rec'[r].phase = rec[r].phase
                          \/ rec'[r].phase = "live" /\ rec[r].phase = "absent"
                          \/ rec[r].fin /\ rec'[r].phase = "deleting"
                          \/ ~rec[r].fin /\ rec'[r].phase = "absent"

LEMMA TKeepsRecords ==
    ASSUME TypeOK, TNext \/ TFail \/ TCascadeFails
    PROVE  RecordsKept
<1>1. rec \in [Records -> RecordObject]
  BY DEF TypeOK
<1>2. CASE rec' = rec
  BY <1>2 DEF RecordsKept
<1>3. CASE \E S : DeleteRecords(S)
  BY <1>1, <1>3, DeletedRecordFields DEF DeleteRecords, RecordsKept
<1>4. QED
  BY <1>2, <1>3, TFrame

LEMMA EKeepsRecords ==
    ASSUME TypeOK, RecordLifecycle,
           Users \/ Outside \/ Restart \/ \E d \in Domains : Propagate(d)
    PROVE  RecordsKept
<1>1. rec \in [Records -> RecordObject]
  BY DEF TypeOK
<1>2. CASE rec' = rec
  BY <1>2 DEF RecordsKept
<1>3. ASSUME NEW r \in Records, CreateRecord(r) PROVE RecordsKept
  <2>1. rec' = [rec EXCEPT ![r] = NewRecord] /\ rec[r].phase = "absent"
    BY <1>3 DEF CreateRecord
  <2>2. NewRecord.fin = FALSE /\ NewRecord.phase = "live"
    BY DEF NewRecord, AbsentRecord
  <2>3. rec[r].fin = FALSE
    BY <1>1, <2>1 DEF RecordLifecycle, RecordObject
  <2>4. QED
    BY <1>1, <2>1, <2>2, <2>3 DEF RecordsKept
<1>4. ASSUME NEW r \in Records, DeleteRecord(r) PROVE RecordsKept
  <2>1. rec' = [rec EXCEPT ![r] = DeletedRecord(rec[r])]
    BY <1>4 DEF DeleteRecord
  <2>2. QED
    BY <1>1, <2>1, DeletedRecordFields DEF RecordsKept
<1>5. QED
  BY <1>2, <1>3, <1>4 DEF Users, Outside, Restart, Propagate, CreateTaaS,
     DeleteTaaS, CreateSecret, DeleteSecret, CloudStep, RegisterOutside,
     ReleaseOutside

-----------------------------------------------------------------------------
(* Finalizers and passes of the DNSRecord controller. *)

LEMMA RecordLifecycleFrame ==
    ASSUME TypeOK, RecordLifecycle, RecordsKept, dp' = dp \/ dp' = DIdle
    PROVE  RecordLifecycle'
<1>1. \A r \in Records : /\ rec'[r].fin => rec'[r].phase # "absent"
                         /\ rec'[r].phase = "deleting" => rec'[r].fin
  BY DEF RecordLifecycle, RecordsKept
<1>2. CASE dp' = DIdle
  BY <1>1, <1>2, InitialValues DEF RecordLifecycle
<1>3. CASE dp' = dp
  BY <1>1, <1>3 DEF RecordLifecycle, RecordsKept, TypeOK
<1>4. QED
  BY <1>2, <1>3

(* A pass that moves on keeps its object and the copy it read.             *)
LEMMA DCopyKept ==
    ASSUME TypeOK, DResolve \/ DGet \/ DLookup \/ DDelete \/ DLookupFails
    PROVE  /\ rec' = rec
           /\ dp'.r = dp.r /\ dp'.copy = dp.copy
           /\ dp'.pc \notin {"idle", "start"}
           /\ dp.pc # "idle" /\ (dp.pc = "start" => dp.copy.fin)
<1>a. dp \in DPass
  BY DEF TypeOK
<1>1. CASE DResolve
  <2>1. CASE dp' = [dp EXCEPT !.pc = "delete"]
    BY <1>a, <1>1, <2>1 DEF DResolve, DPass
  <2>2. CASE dp' = [dp EXCEPT !.pc = "get",
                              !.targets = Selected(rr, taas[acct].bastions)]
    BY <1>a, <1>1, <2>2 DEF DResolve, DPass
  <2>3. QED
    BY <1>1, <2>1, <2>2 DEF DResolve
<1>2. CASE DGet
  <2>1. CASE dp' = [dp EXCEPT !.pc = "put"]
    BY <1>a, <1>2, <2>1 DEF DGet, DPass
  <2>2. CASE dp' = [dp EXCEPT !.pc = "patch"]
    BY <1>a, <1>2, <2>2 DEF DGet, DPass
  <2>3. CASE dp' = [dp EXCEPT !.pc = "lookup", !.outcome = "foreign"]
    BY <1>a, <1>2, <2>3 DEF DGet, DPass
  <2>4. QED
    BY <1>2, <2>1, <2>2, <2>3 DEF DGet
<1>3. CASE DLookup
  BY <1>a, <1>3 DEF DLookup, DPass
<1>4. CASE DDelete
  BY <1>a, <1>4 DEF DDelete, DPass, DeleteDomain
<1>5. CASE DLookupFails
  BY <1>a, <1>5 DEF DLookupFails, DPass
<1>6. QED
  BY <1>1, <1>2, <1>3, <1>4, <1>5

PhasesKept == \A r \in Records : rec'[r].phase = rec[r].phase

(* failure() leaves finalizers and phases alone.                           *)
LEMMA FailureKeeps ==
    ASSUME TypeOK, NEW f, Failure(f)
    PROVE  RecordsKept /\ PhasesKept /\ dp' = DIdle
<1>1. rec \in [Records -> RecordObject]
  BY DEF TypeOK
<1>2. \/ rec' = rec
      \/ rec' = [rec EXCEPT ![rr].registered = f, ![rr].ready = FALSE]
  BY DEF Failure
<1>3. RecordsKept /\ PhasesKept
  BY <1>1, <1>2 DEF RecordsKept, PhasesKept, RecordObject
<1>4. QED
  BY <1>3 DEF Failure, DEnd

(* DNSRecord steps that end the pass and touch no finalizer.               *)
LEMMA DEndKeeps ==
    ASSUME TypeOK, DResolveFails \/ DCommit \/ DCallFails \/ DFail
    PROVE  RecordsKept /\ PhasesKept /\ dp' = DIdle
<1>1. CASE DResolveFails
  BY <1>1, FailureKeeps DEF DResolveFails
<1>2. CASE DCallFails
  BY <1>2, FailureKeeps DEF DCallFails, DeleteDomain
<1>3. CASE DFail
  BY <1>3 DEF DFail, DEnd, RecordsKept, PhasesKept
<1>4. CASE DCommit
  <2>1. rec \in [Records -> RecordObject]
    BY DEF TypeOK
  <2>2. rr \in Records =>
           NewStatus.fin = rec[rr].fin /\ NewStatus.phase = rec[rr].phase
    BY <2>1 DEF NewStatus, RecordObject
  <2>3. rec' = rec \/ rec' = [rec EXCEPT ![rr] = NewStatus]
    BY <1>4 DEF DCommit
  <2>4. RecordsKept /\ PhasesKept
    BY <2>1, <2>2, <2>3 DEF RecordsKept, PhasesKept
  <2>5. QED
    BY <1>4, <2>4 DEF DCommit, DEnd
<1>5. QED
  BY <1>1, <1>2, <1>3, <1>4

(* PUT and PATCH move the pass on to the lookup or end it.                 *)
LEMMA DWriteKeeps ==
    ASSUME TypeOK, DPut \/ DPatch
    PROVE  /\ dp.pc \in {"put", "patch"}
           /\ \/ RecordsKept /\ PhasesKept /\ dp' = DIdle
              \/ /\ rec' = rec
                 /\ dp'.r = dp.r /\ dp'.copy = dp.copy /\ dp'.pc = "lookup"
<1>a. dp \in DPass
  BY DEF TypeOK
<1>1. CASE DPut
  <2>1. CASE Failure(FALSE)
    BY <1>1, <2>1, FailureKeeps DEF DPut
  <2>2. CASE dp' = [dp EXCEPT !.pc = "lookup", !.outcome = "registered"] /\ rec' = rec
    BY <1>a, <1>1, <2>2 DEF DPut, DPass
  <2>3. QED
    BY <1>1, <2>1, <2>2 DEF DPut
<1>2. CASE DPatch
  <2>1. CASE dp' = DIdle
    BY <1>2, <2>1 DEF DPatch, RecordsKept, PhasesKept
  <2>2. CASE dp' = [dp EXCEPT !.pc = "lookup", !.outcome = "registered"]
    BY <1>a, <1>2, <2>2 DEF DPatch, DPass
  <2>3. CASE dp' = [dp EXCEPT !.pc = "lookup", !.outcome = "foreign"]
    BY <1>a, <1>2, <2>3 DEF DPatch, DPass
  <2>4. QED
    BY <1>2, <2>1, <2>2, <2>3 DEF DPatch, DEnd
<1>3. QED
  BY <1>1, <1>2

(* A step that keeps the DNSRecords and moves a pass on from where its     *)
(* copy is known to have the finalizer.                                    *)
LEMMA RecordLifecycleMove ==
    ASSUME TypeOK, RecordLifecycle, rec' = rec,
           dp'.r = dp.r, dp'.copy = dp.copy,
           dp.pc # "idle", dp.pc = "start" => dp.copy.fin
    PROVE  RecordLifecycle'
BY DEF RecordLifecycle, TypeOK

LEMMA RecordLifecycleStep ==
    TypeOK /\ RecordLifecycle /\ [Next]_vars => RecordLifecycle'
<1> SUFFICES ASSUME TypeOK, RecordLifecycle, [Next]_vars PROVE RecordLifecycle'
  OBVIOUS
<1>a. /\ rec \in [Records -> RecordObject]
      /\ dp.pc # "idle" => rr \in Records
      /\ dp.pc # "idle" => dp.copy \in Copy
  BY DEF TypeOK, DPass, rr
<1>1. CASE TNext \/ TFail \/ TCascadeFails
  BY <1>1, TKeepsRecords, TFrame, RecordLifecycleFrame
<1>2. CASE Users \/ Outside \/ Restart \/ \E d \in Domains : Propagate(d)
  <2>1. dp' = dp \/ dp' = DIdle
    BY <1>2 DEF Users, Outside, Restart, Propagate, CreateTaaS, DeleteTaaS,
       CreateSecret, DeleteSecret, CreateRecord, DeleteRecord, CloudStep,
       RegisterOutside, ReleaseOutside
  <2>2. QED
    BY <1>2, <2>1, EKeepsRecords, RecordLifecycleFrame
<1>3. CASE DResolveFails \/ DCommit \/ DCallFails \/ DFail
  BY <1>3, DEndKeeps, RecordLifecycleFrame
<1>4. CASE DResolve \/ DGet \/ DLookup \/ DDelete \/ DLookupFails
  BY <1>4, DCopyKept, RecordLifecycleMove
<1>5. CASE DPut \/ DPatch
  BY <1>5, DWriteKeeps, RecordLifecycleMove, RecordLifecycleFrame
<1>6. ASSUME NEW r \in Records, DStart(r) PROVE RecordLifecycle'
  <2>1. rec' = rec /\ dp' = [DIdle EXCEPT !.pc = "start", !.r = r,
                                         !.copy = CopyOf(rec[r])]
    BY <1>6 DEF DStart
  <2>2. /\ dp'.pc = "start" /\ dp'.r = r
        /\ dp'.copy.fin = rec[r].fin /\ dp'.copy.phase = rec[r].phase
    BY <2>1 DEF DIdle, CopyOf
  <2>3. rec[r].phase # "absent"
    BY <1>6 DEF DStart
  <2>4. QED
    BY <2>1, <2>2, <2>3 DEF RecordLifecycle
<1>7. CASE DAddFinalizer
  <2>1. dp' = DIdle /\ dp.pc = "start"
    BY <1>7 DEF DAddFinalizer, DEnd
  <2>2. CASE rec' = rec
    BY <2>1, <2>2, RecordLifecycleFrame DEF RecordsKept
  <2>3. CASE /\ CopyOf(rec[rr]) = dp.copy
             /\ rec' = [rec EXCEPT ![rr].fin = TRUE]
    <3>1. \A r \in Records :
             rec'[r] = IF r = rr THEN [rec[r] EXCEPT !.fin = TRUE] ELSE rec[r]
      BY <1>a, <2>3
    <3>2. rec[rr].phase # "absent"
      BY <2>1, <2>3 DEF RecordLifecycle, CopyOf
    <3>3. \A r \in Records :
             /\ rec'[r].phase = rec[r].phase
             /\ rec'[r].fin = IF r = rr THEN TRUE ELSE rec[r].fin
      BY <1>a, <3>1 DEF RecordObject
    <3>4. QED
      BY <2>1, <3>2, <3>3, InitialValues DEF RecordLifecycle
  <2>4. QED
    BY <1>7, <2>2, <2>3 DEF DAddFinalizer
<1>8. CASE DDrop
  <2>1. dp' = DIdle /\ dp.pc = "drop"
    BY <1>8 DEF DDrop, DEnd
  <2>2. CASE rec' = rec
    BY <2>1, <2>2, RecordLifecycleFrame DEF RecordsKept
  <2>3. CASE rec' = [rec EXCEPT ![rr] = AbsentRecord]
    <3>1. AbsentRecord.fin = FALSE /\ AbsentRecord.phase = "absent"
      BY DEF AbsentRecord
    <3>2. QED
      BY <1>a, <2>1, <2>3, <3>1, InitialValues DEF RecordLifecycle
  <2>4. QED
    BY <1>8, <2>2, <2>3 DEF DDrop
<1>9. CASE UNCHANGED vars
  BY <1>9 DEF vars, RecordLifecycle
<1>10. QED
  BY <1>1, <1>2, <1>3, <1>4, <1>5, <1>6, <1>7, <1>8, <1>9
     DEF Next, DNext, Failures

(* Finalizers hold their objects, and a pass may rely on what it read.     *)
THEOREM LifecycleCorrect == Spec => []RecordLifecycle
<1>1. Init => RecordLifecycle
  BY InitialValues DEF Init, RecordLifecycle, AbsentRecord
<1>2. QED
  BY <1>1, TypeCorrect, RecordLifecycleStep, PTL DEF Spec

-----------------------------------------------------------------------------
(* Names the operator registered. *)

(* No step outside the DNSRecord controller makes a name the operator's.   *)
DomainsKept ==
    \A d \in Domains :
        dom'[d].managed => dom[d].managed /\ dom'[d].owner = dom[d].owner

LEMMA EKeepsDomains ==
    ASSUME TypeOK, Users \/ Outside \/ Restart \/ \E d \in Domains : Propagate(d)
    PROVE  DomainsKept
<1>1. dom \in [Domains -> Registration]
  BY DEF TypeOK
<1>2. CASE dom' = dom
  BY <1>2 DEF DomainsKept
<1>3. ASSUME NEW d \in Domains, RegisterOutside(d) \/ ReleaseOutside(d)
      PROVE  DomainsKept
  <2>1. PICK g : dom' = [dom EXCEPT ![d] = g] /\ g.managed = FALSE
    BY <1>3 DEF RegisterOutside, ReleaseOutside, Unregistered
  <2>2. QED
    BY <1>1, <2>1 DEF DomainsKept
<1>4. QED
  BY <1>2, <1>3 DEF Users, Outside, Restart, Propagate, CreateTaaS,
     DeleteTaaS, CreateSecret, DeleteSecret, CreateRecord, DeleteRecord,
     CloudStep

LEMMA DomainsFrame ==
    ASSUME TypeOK, NoLeakedDomain, NameReleased, RecordsKept, DomainsKept,
           dp' = dp \/ dp' = DIdle
    PROVE  NoLeakedDomain' /\ NameReleased'
<1>1. NoLeakedDomain'
  BY DEF NoLeakedDomain, RecordsKept, DomainsKept
<1>2. CASE dp' = DIdle
  BY <1>1, <1>2, InitialValues DEF NameReleased
<1>3. CASE dp' = dp
  <2>1. dp.pc = "drop" => rd \in Domains
    BY RefAssumption DEF TypeOK, rd, rr
  <2>2. rd' = rd /\ acct' = acct
    BY <1>3 DEF rd, acct, rr
  <2>3. QED
    BY <1>1, <1>3, <2>1, <2>2 DEF NameReleased, DomainsKept
<1>4. QED
  BY <1>2, <1>3

(* A write of the record's name, by PUT or by PATCH: the record has the    *)
(* finalizer that will unregister it.                                      *)
LEMMA WriteIsOwed ==
    ASSUME TypeOK, RecordLifecycle, NoLeakedDomain, RecordsKept,
           dp.pc \notin {"idle", "start"},
           \A d \in Domains \ {rd} : dom'[d] = dom[d],
           dom'[rd].owner = acct
    PROVE  NoLeakedDomain'
<1>1. rr \in Records /\ rec'[rr].fin
  BY DEF RecordLifecycle, TypeOK, RecordsKept, rr
<1>2. QED
  BY <1>1 DEF NoLeakedDomain, RecordsKept, rd, acct

(* What PUT and PATCH do to the registrations.                             *)
LEMMA WriteEffect ==
    ASSUME TypeOK, dp.pc # "idle",
           PutDomain \/ (PatchDomain /\ dom[rd].owner = acct)
    PROVE  /\ \A d \in Domains \ {rd} : dom'[d] = dom[d]
           /\ dom'[rd].owner = acct
<1>1. dom \in [Domains -> Registration] /\ rd \in Domains
  BY RefAssumption DEF TypeOK, rd, rr
<1>2. CASE PutDomain
  BY <1>1, <1>2 DEF PutDomain
<1>3. CASE PatchDomain /\ dom[rd].owner = acct
  BY <1>1, <1>3 DEF PatchDomain, Registration
<1>4. QED
  BY <1>2, <1>3

(* DELETE makes no name the operator's.                                    *)
LEMMA DeleteKeepsDomains ==
    ASSUME TypeOK, dom' = dom \/ dom' = [dom EXCEPT ![rd] = Unregistered]
    PROVE  DomainsKept
<1>1. dom \in [Domains -> Registration] /\ Unregistered.managed = FALSE
  BY DEF TypeOK, Unregistered
<1>2. QED
  BY <1>1 DEF DomainsKept

DomainInv ==
    TypeOK /\ RecordLifecycle /\ NameReleased /\ NoLeakedDomain

LEMMA DomainStep ==
    ASSUME ~Refusals, DomainInv, [Next]_vars
    PROVE  NoLeakedDomain' /\ NameReleased'
<1>a. /\ TypeOK /\ RecordLifecycle /\ NameReleased /\ NoLeakedDomain
      /\ rec \in [Records -> RecordObject]
      /\ dp.pc # "idle" => rr \in Records
  BY DEF DomainInv, TypeOK, rr
<1>1. CASE TNext \/ TFail \/ TCascadeFails
  <2>1. DomainsKept
    BY <1>1, TFrame DEF DomainsKept
  <2>2. QED
    BY <1>a, <1>1, <2>1, TKeepsRecords, TFrame, DomainsFrame
<1>2. CASE Users \/ Outside \/ Restart \/ \E d \in Domains : Propagate(d)
  <2>1. dp' = dp \/ dp' = DIdle
    BY <1>2 DEF Users, Outside, Restart, Propagate, CreateTaaS, DeleteTaaS,
       CreateSecret, DeleteSecret, CreateRecord, DeleteRecord, CloudStep,
       RegisterOutside, ReleaseOutside
  <2>2. QED
    BY <1>a, <1>2, <2>1, EKeepsRecords, EKeepsDomains, DomainsFrame
<1>3. CASE DResolveFails \/ DCommit \/ DFail
  <2>1. DomainsKept
    BY <1>3 DEF DResolveFails, DCommit, DFail, DomainsKept
  <2>2. QED
    BY <1>a, <1>3, <2>1, DEndKeeps, DomainsFrame
<1>4. CASE DCallFails
  <2>1. RecordsKept /\ dp' = DIdle /\ dp.pc \notin {"idle", "start"}
    BY <1>a, <1>4, DEndKeeps DEF DCallFails, DeleteDomain
  <2>2. CASE dom' = dom \/ dom' = [dom EXCEPT ![rd] = Unregistered]
    BY <1>a, <2>1, <2>2, DeleteKeepsDomains, DomainsFrame
  <2>3. CASE PutDomain \/ (PatchDomain /\ dom[rd].owner = acct)
    <3>1. NoLeakedDomain'
      BY <1>a, <2>1, <2>3, WriteEffect, WriteIsOwed
    <3>2. QED
      BY <2>1, <3>1, InitialValues DEF NameReleased
  <2>4. QED
    BY <1>4, <2>2, <2>3 DEF DCallFails, DeleteDomain
<1>5. CASE DPut \/ DPatch
  <2>1. /\ dp.pc \notin {"idle", "start"} /\ dp'.pc # "drop"
        /\ RecordsKept
    BY <1>a, <1>5, DWriteKeeps, InitialValues DEF RecordsKept
  <2>2. NameReleased'
    BY <2>1 DEF NameReleased
  <2>3. CASE dom' = dom
    BY <1>a, <2>1, <2>2, <2>3 DEF NoLeakedDomain, RecordsKept
  <2>4. CASE PutDomain \/ (PatchDomain /\ dom[rd].owner = acct)
    BY <1>a, <2>1, <2>2, <2>4, WriteEffect, WriteIsOwed
  <2>5. QED
    BY <1>5, <2>3, <2>4 DEF DPut, DPatch
<1>6. CASE DResolve \/ DGet \/ DLookup \/ DLookupFails
  <2>1. rec' = rec /\ dom' = dom
    BY <1>6 DEF DResolve, DGet, DLookup, DLookupFails
  <2>2. dp'.pc # "drop"
    <3>1. dp \in DPass
      BY <1>a DEF TypeOK
    <3>2. CASE DResolve
      <4>1. CASE dp' = [dp EXCEPT !.pc = "delete"]
        BY <3>1, <4>1 DEF DPass
      <4>2. CASE dp' = [dp EXCEPT !.pc = "get",
                            !.targets = Selected(rr, taas[acct].bastions)]
        BY <3>1, <4>2 DEF DPass
      <4>3. QED
        BY <3>2, <4>1, <4>2 DEF DResolve
    <3>3. CASE DGet
      <4>1. CASE dp' = [dp EXCEPT !.pc = "put"] \/ dp' = [dp EXCEPT !.pc = "patch"]
        BY <3>1, <4>1 DEF DPass
      <4>2. CASE dp' = [dp EXCEPT !.pc = "lookup", !.outcome = "foreign"]
        BY <3>1, <4>2 DEF DPass
      <4>3. QED
        BY <3>3, <4>1, <4>2 DEF DGet
    <3>4. CASE DLookup
      BY <3>1, <3>4 DEF DLookup, DPass
    <3>5. CASE DLookupFails
      BY <3>1, <3>5 DEF DLookupFails, DPass
    <3>6. QED
      BY <1>6, <3>2, <3>3, <3>4, <3>5
  <2>3. QED
    BY <1>a, <2>1, <2>2 DEF NoLeakedDomain, NameReleased
<1>7. CASE DDelete
  <2>1. /\ rec' = rec /\ dp'.r = dp.r /\ dp.pc = "delete"
        /\ \/ dom' = dom /\ dom[rd].owner # acct
           \/ dom' = [dom EXCEPT ![rd] = Unregistered]
    BY <1>a, <1>7, DCopyKept DEF DDelete, DeleteDomain
  <2>2. NoLeakedDomain'
    BY <1>a, <2>1, DeleteKeepsDomains
       DEF NoLeakedDomain, DomainsKept
  <2>3. rd' = rd /\ acct' = acct /\ rd \in Domains
    BY <1>a, <2>1, RefAssumption DEF rd, acct, rr
  <2>4. ~(dom'[rd].managed /\ dom'[rd].owner = acct)
    BY <1>a, <2>1, <2>3 DEF TypeOK, Unregistered
  <2>5. QED
    BY <2>2, <2>3, <2>4 DEF NameReleased
<1>8. ASSUME NEW r \in Records, DStart(r) PROVE NoLeakedDomain' /\ NameReleased'
  <2>1. rec' = rec /\ dom' = dom /\ dp'.pc = "start"
    BY <1>8 DEF DStart, DIdle
  <2>2. QED
    BY <1>a, <2>1 DEF NoLeakedDomain, NameReleased
<1>9. CASE DAddFinalizer
  <2>1. \A r \in Records : rec[r].fin => rec'[r].fin
    BY <1>a, <1>9 DEF DAddFinalizer, RecordObject
  <2>2. QED
    BY <1>a, <1>9, <2>1, InitialValues
       DEF DAddFinalizer, DEnd, NoLeakedDomain, NameReleased
<1>10. CASE DDrop
  <2>1. /\ dom' = dom /\ dp' = DIdle /\ dp.pc = "drop"
        /\ \A r \in Records \ {rr} : rec'[r] = rec[r]
    BY <1>a, <1>10 DEF DDrop, DEnd
  <2>2. ASSUME NEW d \in Domains, dom[d].managed
        PROVE  \E r \in Records : /\ DomainName[r] = d
                                  /\ TaaSRef[r] = dom[d].owner
                                  /\ rec'[r].fin
    <3>1. PICK r \in Records : /\ DomainName[r] = d
                               /\ TaaSRef[r] = dom[d].owner
                               /\ rec[r].fin
      BY <1>a, <2>2 DEF NoLeakedDomain
    <3>2. r # rr
      BY <1>a, <2>1, <2>2, <3>1 DEF NameReleased, rd, acct
    <3>3. QED
      BY <2>1, <3>1, <3>2
  <2>3. QED
    BY <2>1, <2>2, InitialValues DEF NoLeakedDomain, NameReleased
<1>11. CASE UNCHANGED vars
  BY <1>a, <1>11 DEF vars, NoLeakedDomain, NameReleased, rd, acct, rr
<1>12. QED
  BY <1>1, <1>2, <1>3, <1>4, <1>5, <1>6, <1>7, <1>8, <1>9, <1>10, <1>11
     DEF Next, DNext, Failures

(* When aquaduct.dev never refuses the owner's own DELETE, no name the     *)
(* operator registered is abandoned, however many DNSRecords, accounts and *)
(* names there are, whatever fails or restarts.                            *)
THEOREM NoDomainLeaks ==
    ASSUME ~Refusals
    PROVE  Spec => []NoLeakedDomain
<1>1. Init => NoLeakedDomain /\ NameReleased
  BY InitialValues DEF Init, NoLeakedDomain, NameReleased, Unregistered
<1>2. /\ TypeOK /\ RecordLifecycle /\ NameReleased /\ NoLeakedDomain
      /\ [Next]_vars
      => (NameReleased /\ NoLeakedDomain)'
  BY DomainStep DEF DomainInv
<1>3. QED
  BY <1>1, <1>2, TypeCorrect, LifecycleCorrect, PTL DEF Spec

-----------------------------------------------------------------------------
(* NameCustody: the deletion path *)

(* Whatever keeps finalizers keeps a record that is being deleted so.      *)
LEMMA DeletesFrame ==
    ASSUME TypeOK, RecordLifecycle, DeletesOnRequest, RecordsKept,
           dp' = dp \/ dp' = DIdle
    PROVE  DeletesOnRequest'
<1>1. CASE dp' = DIdle
  BY <1>1, InitialValues DEF DeletesOnRequest
<1>2. CASE dp' = dp
  <2>1. dp.pc # "idle" /\ dp.copy.fin => dp.r \in Records /\ rec[dp.r].fin
    BY DEF TypeOK, RecordLifecycle
  <2>2. QED
    BY <1>2, <2>1 DEF DeletesOnRequest, RecordsKept
<1>3. QED
  BY <1>1, <1>2

LEMMA DeletesStep ==
    ASSUME TypeOK, RecordLifecycle, DeletesOnRequest, [Next]_vars
    PROVE  DeletesOnRequest'
<1>a. /\ rec \in [Records -> RecordObject] /\ dp \in DPass
      /\ dp.pc # "idle" => rr \in Records
  BY DEF TypeOK, rr
<1>1. CASE TNext \/ TFail \/ TCascadeFails
  BY <1>1, TKeepsRecords, TFrame, DeletesFrame
<1>2. CASE Users \/ Outside \/ Restart \/ \E d \in Domains : Propagate(d)
  <2>1. dp' = dp \/ dp' = DIdle
    BY <1>2 DEF Users, Outside, Restart, Propagate, CreateTaaS, DeleteTaaS,
       CreateSecret, DeleteSecret, CreateRecord, DeleteRecord, CloudStep,
       RegisterOutside, ReleaseOutside
  <2>2. QED
    BY <1>2, <2>1, EKeepsRecords, DeletesFrame
<1>3. CASE DResolveFails \/ DCommit \/ DCallFails \/ DFail \/ DAddFinalizer \/ DDrop
  <2>1. dp' = DIdle
    BY <1>3, DEndKeeps DEF DAddFinalizer, DDrop, DEnd
  <2>2. QED
    BY <2>1, InitialValues DEF DeletesOnRequest
<1>4. CASE DPut \/ DPatch
  <2>1. /\ dp.pc # "idle"
        /\ \/ dp' = DIdle
           \/ /\ rec' = rec /\ dp'.r = dp.r
              /\ dp'.copy = dp.copy /\ dp'.pc = "lookup"
    BY <1>4, DWriteKeeps
  <2>2. QED
    BY <2>1, InitialValues DEF DeletesOnRequest
<1>5. CASE DGet \/ DLookup \/ DLookupFails
  <2>1. dp'.pc \notin {"delete", "drop"}
    <3>1. CASE DGet
      <4>1. \/ dp' = [dp EXCEPT !.pc = "put"]
            \/ dp' = [dp EXCEPT !.pc = "patch"]
            \/ dp' = [dp EXCEPT !.pc = "lookup", !.outcome = "foreign"]
        BY <3>1 DEF DGet
      <4>2. QED
        BY <1>a, <4>1 DEF DPass
    <3>2. CASE DLookup
      BY <1>a, <3>2 DEF DLookup, DPass
    <3>3. CASE DLookupFails
      BY <1>a, <3>3 DEF DLookupFails, DPass
    <3>4. QED
      BY <1>5, <3>1, <3>2, <3>3
  <2>2. rec' = rec /\ dp'.r = dp.r /\ dp'.copy = dp.copy /\ dp.pc # "idle"
    BY <1>5, DCopyKept
  <2>3. QED
    BY <2>1, <2>2 DEF DeletesOnRequest
<1>6. ASSUME NEW r \in Records, DStart(r) PROVE DeletesOnRequest'
  <2>1. /\ rec' = rec /\ dp'.pc = "start" /\ dp'.r = r
        /\ dp'.copy.fin = rec[r].fin /\ dp'.copy.phase = rec[r].phase
    BY <1>6 DEF DStart, DIdle, CopyOf
  <2>2. QED
    BY <2>1 DEF DeletesOnRequest, RecordLifecycle
<1>7. CASE DDelete
  <2>1. rec' = rec /\ dp'.r = dp.r /\ dp'.copy = dp.copy
    BY <1>7, DCopyKept
  <2>2. dp.pc = "delete"
    BY <1>7 DEF DDelete
  <2>3. QED
    BY <2>1, <2>2 DEF DeletesOnRequest
<1>8. CASE DResolve
  <2>1. rec' = rec /\ dp'.r = dp.r /\ dp'.copy = dp.copy /\ dp.copy.fin
        /\ dp.pc = "start"
    BY <1>8, DCopyKept DEF DResolve
  <2>2. CASE dp.copy.phase = "deleting"
    BY <2>1, <2>2 DEF DeletesOnRequest
  <2>3. CASE dp.copy.phase # "deleting"
    <3>1. dp' = [dp EXCEPT !.pc = "get",
                           !.targets = Selected(rr, taas[acct].bastions)]
      BY <1>8, <2>3 DEF DResolve
    <3>2. dp'.pc = "get"
      BY <1>a, <3>1 DEF DPass
    <3>3. QED
      BY <2>1, <2>3, <3>2 DEF DeletesOnRequest
  <2>4. QED
    BY <2>2, <2>3
<1>9. CASE UNCHANGED vars
  BY <1>9 DEF vars, DeletesOnRequest
<1>10. QED
  BY <1>1, <1>2, <1>3, <1>4, <1>5, <1>6, <1>7, <1>8, <1>9
     DEF Next, DNext, Failures

-----------------------------------------------------------------------------
(* The mapping. *)

(* Steps that keep finalizers and registrations: at most records start to  *)
(* leave.                                                                  *)
LEMMA CustodyFrame ==
    ASSUME TypeOK, RecordLifecycle, RecordsKept, ManagedOwner' = ManagedOwner
    PROVE  Custody!CustodyNext
<1>1. Holders' = Holders
  BY DEF Holders, RecordsKept
<1>2. DEFINE S == Leavers' \ Leavers
<1>3. S \subseteq Holders /\ S \subseteq Records
  BY DEF Leavers, Holders, RecordsKept
<1>4. Leavers \subseteq Leavers'
  BY DEF Leavers, RecordsKept, RecordLifecycle
<1>5. Leavers' = Leavers \cup S
  BY <1>4
<1>6. Custody!Leave(S)
  BY <1>1, <1>3, <1>5 DEF Custody!Leave
<1>7. QED
  BY <1>3, <1>6 DEF Custody!CustodyNext

(* failure() changes neither finalizers nor phases.                        *)
LEMMA FailureHolds ==
    ASSUME TypeOK, NEW f, Failure(f) \/ rec' = rec
    PROVE  Holders' = Holders /\ Leavers' = Leavers
<1>1. rec \in [Records -> RecordObject]
  BY DEF TypeOK
<1>2. \/ rec' = rec
      \/ rec' = [rec EXCEPT ![rr].registered = f, ![rr].ready = FALSE]
  BY DEF Failure
<1>3. \A r \in Records : rec'[r].fin = rec[r].fin /\ rec'[r].phase = rec[r].phase
  BY <1>1, <1>2 DEF RecordObject
<1>4. QED
  BY <1>3 DEF Holders, Leavers

(* PUT and PATCH: the name goes from nobody, or from the account, to the   *)
(* account.                                                                *)
LEMMA CustodyWrite ==
    ASSUME TypeOK, RecordLifecycle, dp.pc \notin {"idle", "start"},
           Holders' = Holders, Leavers' = Leavers,
           \/ PutDomain /\ dom[rd].owner \in {NoOne, acct}
           \/ PatchDomain /\ dom[rd].owner = acct
    PROVE  Custody!CustodyNext
<1>1. /\ dom \in [Domains -> Registration] /\ rr \in Records
      /\ rd \in Domains /\ rr \in Holders
  BY RefAssumption DEF TypeOK, RecordLifecycle, rd, rr, Holders
<1>2. /\ dom' = [dom EXCEPT ![rd] = dom'[rd]]
      /\ dom'[rd].owner = acct /\ dom'[rd].managed
  <2>1. CASE PutDomain
    BY <1>1, <2>1 DEF PutDomain
  <2>2. CASE PatchDomain /\ dom[rd].owner = acct
    BY <1>1, <2>2 DEF PatchDomain, Registration
  <2>3. QED
    BY <2>1, <2>2
<1>3. ManagedOwner' = [ManagedOwner EXCEPT ![rd] = acct]
  BY <1>1, <1>2 DEF ManagedOwner
<1>4. ManagedOwner[rd] \in {NoOne, acct}
  BY <1>1 DEF ManagedOwner
<1>5. Custody!Register(rr)
  BY <1>1, <1>3, <1>4 DEF Custody!Register, rd, acct
<1>6. QED
  BY <1>1, <1>5 DEF Custody!CustodyNext

(* DELETE: the name goes back, if it was the operator's.                   *)
LEMMA CustodyDelete ==
    ASSUME TypeOK, RecordLifecycle, DeletesOnRequest, dp.pc = "delete",
           Holders' = Holders, Leavers' = Leavers,
           DeleteDomain, dom[rd].owner = acct
    PROVE  Custody!CustodyNext \/ UNCHANGED <<Holders, Leavers, ManagedOwner>>
<1>1. /\ dom \in [Domains -> Registration] /\ rr \in Records
      /\ rd \in Domains /\ rr \in Leavers
  BY RefAssumption DEF TypeOK, DeletesOnRequest, rd, rr, Leavers
<1>2. ManagedOwner' = [ManagedOwner EXCEPT ![rd] = NoOne]
  BY <1>1 DEF DeleteDomain, ManagedOwner, Unregistered
<1>3. CASE dom[rd].managed
  <2>1. ManagedOwner[rd] = acct
    BY <1>1, <1>3 DEF ManagedOwner
  <2>2. Custody!Unregister(rr)
    BY <1>1, <1>2, <2>1 DEF Custody!Unregister, rd, acct
  <2>3. QED
    BY <1>1, <2>2 DEF Custody!CustodyNext
<1>4. CASE ~dom[rd].managed
  <2>1. ManagedOwner[rd] = NoOne
    BY <1>1, <1>4 DEF ManagedOwner
  <2>2. ManagedOwner' = ManagedOwner
    BY <1>1, <1>2, <2>1 DEF ManagedOwner
  <2>3. QED
    BY <2>2
<1>5. QED
  BY <1>3, <1>4

LEMMA CustodyStep ==
    ASSUME ~Refusals, DomainInv, DeletesOnRequest, [Next]_vars
    PROVE  Custody!CustodyNext \/ UNCHANGED <<Holders, Leavers, ManagedOwner>>
<1>a. /\ TypeOK /\ RecordLifecycle /\ NameReleased
      /\ rec \in [Records -> RecordObject]
      /\ dom \in [Domains -> Registration]
      /\ dp.pc # "idle" => rr \in Records
  BY DEF DomainInv, TypeOK, rr
<1>1. CASE TNext \/ TFail \/ TCascadeFails
  <2>1. ManagedOwner' = ManagedOwner
    BY <1>1, TFrame DEF ManagedOwner
  <2>2. QED
    BY <1>a, <1>1, <2>1, TKeepsRecords, CustodyFrame
<1>2. CASE Users \/ Outside \/ Restart \/ \E d \in Domains : Propagate(d)
  <2>1. CASE dom' = dom
    <3>1. ManagedOwner' = ManagedOwner
      BY <2>1 DEF ManagedOwner
    <3>2. QED
      BY <1>a, <1>2, <3>1, EKeepsRecords, CustodyFrame
  <2>2. ASSUME NEW d \in Domains, RegisterOutside(d) \/ ReleaseOutside(d)
        PROVE  ManagedOwner' = ManagedOwner
    <3>1. PICK g : dom' = [dom EXCEPT ![d] = g] /\ g.managed = FALSE
      BY <2>2 DEF RegisterOutside, ReleaseOutside, Unregistered
    <3>2. dom[d].managed => dom[d].owner = NoOne
      BY <2>2 DEF RegisterOutside, ReleaseOutside
    <3>3. QED
      BY <1>a, <3>1, <3>2 DEF ManagedOwner
  <2>3. \/ dom' = dom
        \/ \E d \in Domains : RegisterOutside(d) \/ ReleaseOutside(d)
    BY <1>2 DEF Users, Outside, Restart, Propagate, CreateTaaS, DeleteTaaS,
       CreateSecret, DeleteSecret, CreateRecord, DeleteRecord, CloudStep
  <2>4. QED
    BY <1>a, <1>2, <2>1, <2>2, <2>3, EKeepsRecords, CustodyFrame
<1>3. CASE DResolveFails \/ DCommit \/ DFail
  <2>1. ManagedOwner' = ManagedOwner
    BY <1>3 DEF DResolveFails, DCommit, DFail, ManagedOwner
  <2>2. QED
    BY <1>a, <1>3, <2>1, DEndKeeps, CustodyFrame
<1>4. CASE DCallFails
  <2>1. /\ dp.pc \notin {"idle", "start"}
        /\ \E f : Failure(f)
    BY <1>4 DEF DCallFails
  <2>2. Holders' = Holders /\ Leavers' = Leavers
    BY <1>a, <2>1, FailureHolds
  <2>3. CASE dom' = dom
    BY <2>2, <2>3 DEF ManagedOwner
  <2>4. CASE \/ PutDomain /\ dom[rd].owner \in {NoOne, acct}
             \/ PatchDomain /\ dom[rd].owner = acct
    BY <1>a, <2>1, <2>2, <2>4, CustodyWrite
  <2>5. CASE dp.pc = "delete" /\ DeleteDomain /\ dom[rd].owner = acct
    BY <1>a, <2>2, <2>5, CustodyDelete
  <2>6. QED
    BY <1>4, <2>3, <2>4, <2>5 DEF DCallFails
<1>5. CASE DPut \/ DPatch
  <2>1. /\ dp.pc \notin {"idle", "start"}
        /\ rec' = rec \/ Failure(FALSE)
    BY <1>5 DEF DPut, DPatch
  <2>2. Holders' = Holders /\ Leavers' = Leavers
    BY <1>a, <2>1, FailureHolds
  <2>3. CASE dom' = dom
    BY <2>2, <2>3 DEF ManagedOwner
  <2>4. CASE \/ PutDomain /\ dom[rd].owner \in {NoOne, acct}
             \/ PatchDomain /\ dom[rd].owner = acct
    BY <1>a, <2>1, <2>2, <2>4, CustodyWrite
  <2>5. QED
    BY <1>5, <2>3, <2>4 DEF DPut, DPatch
<1>6. CASE DResolve \/ DGet \/ DLookup \/ DLookupFails \/ \E r \in Records : DStart(r)
  <2>1. rec' = rec /\ dom' = dom
    BY <1>6 DEF DResolve, DGet, DLookup, DLookupFails, DStart
  <2>2. QED
    BY <2>1 DEF Holders, Leavers, ManagedOwner
<1>7. CASE DDelete
  <2>1. rec' = rec /\ dp.pc = "delete"
    BY <1>7 DEF DDelete
  <2>2. Holders' = Holders /\ Leavers' = Leavers
    BY <2>1 DEF Holders, Leavers
  <2>3. CASE dom' = dom
    BY <2>2, <2>3 DEF ManagedOwner
  <2>4. CASE DeleteDomain /\ dom[rd].owner = acct
    BY <1>a, <2>1, <2>2, <2>4, CustodyDelete
  <2>5. QED
    BY <1>7, <2>3, <2>4 DEF DDelete
<1>8. CASE DAddFinalizer
  <2>1. ManagedOwner' = ManagedOwner /\ rr \in Records
    BY <1>a, <1>8 DEF DAddFinalizer, ManagedOwner
  <2>2. CASE rec' = rec
    BY <2>1, <2>2 DEF Holders, Leavers
  <2>3. CASE CopyOf(rec[rr]) = dp.copy /\ rec' = [rec EXCEPT ![rr].fin = TRUE]
    <3>1. ~rec[rr].fin
      BY <1>8, <2>3 DEF DAddFinalizer, CopyOf
    <3>2. \A r \in Records :
             /\ rec'[r].phase = rec[r].phase
             /\ rec'[r].fin = IF r = rr THEN TRUE ELSE rec[r].fin
      BY <1>a, <2>1, <2>3 DEF RecordObject
    <3>3. Holders' = Holders \cup {rr} /\ Leavers' = Leavers /\ rr \notin Holders
      BY <2>1, <3>1, <3>2 DEF Holders, Leavers
    <3>4. Custody!Hold(rr)
      BY <2>1, <3>3 DEF Custody!Hold
    <3>5. QED
      BY <2>1, <3>4 DEF Custody!CustodyNext
  <2>4. QED
    BY <1>8, <2>2, <2>3 DEF DAddFinalizer
<1>9. CASE DDrop
  <2>1. ManagedOwner' = ManagedOwner /\ rr \in Records /\ dp.pc = "drop"
    BY <1>a, <1>9 DEF DDrop, ManagedOwner
  <2>2. CASE rec' = rec
    BY <2>1, <2>2 DEF Holders, Leavers
  <2>3. CASE rec' = [rec EXCEPT ![rr] = AbsentRecord]
    <3>1. rec[rr].phase = "deleting"
      BY <2>1 DEF DeletesOnRequest, rr
    <3>2. AbsentRecord.fin = FALSE /\ AbsentRecord.phase = "absent"
      BY DEF AbsentRecord
    <3>3. Holders' = Holders \ {rr}
      BY <1>a, <2>1, <2>3, <3>2 DEF Holders
    <3>4. Leavers' = Leavers \ {rr} /\ rr \in Leavers
      BY <1>a, <2>1, <2>3, <3>1, <3>2 DEF Leavers
    <3>5. ManagedOwner[rd] # acct
      <4>1. rd \in Domains /\ acct \in TaaSes
        BY <2>1, RefAssumption DEF rd, acct
      <4>2. QED
        BY <1>a, <2>1, <4>1, NamesAssumption DEF ManagedOwner, NameReleased
    <3>6. Custody!LetGo(rr)
      BY <2>1, <3>3, <3>4, <3>5 DEF Custody!LetGo, rd, acct
    <3>7. QED
      BY <2>1, <3>6 DEF Custody!CustodyNext
  <2>4. QED
    BY <1>9, <2>2, <2>3 DEF DDrop
<1>10. CASE UNCHANGED vars
  BY <1>10 DEF vars, Holders, Leavers, ManagedOwner
<1>11. QED
  BY <1>1, <1>2, <1>3, <1>4, <1>5, <1>6, <1>7, <1>8, <1>9, <1>10
     DEF Next, DNext, Failures

(* When aquaduct.dev never refuses the owner's own write, the two          *)
(* controllers implement NameCustody, however many records, names and      *)
(* accounts there are, whatever fails or restarts: names are taken and     *)
(* given back by records that hold them, and nobody lets go of a name that *)
(* is still registered.                                                    *)
THEOREM CustodyImplemented ==
    ASSUME ~Refusals
    PROVE  Spec => ImplementsCustody
<1>1. Init => Custody!CustodyInit
  BY DEF Init, Custody!CustodyInit, Holders, Leavers, ManagedOwner,
     AbsentRecord, Unregistered
<1>2. Init => NoLeakedDomain /\ NameReleased /\ DeletesOnRequest
  BY InitialValues DEF Init, NoLeakedDomain, NameReleased, Unregistered,
     DeletesOnRequest
<1>3. /\ TypeOK /\ RecordLifecycle /\ NameReleased /\ NoLeakedDomain
      /\ DeletesOnRequest /\ [Next]_vars
      => /\ (NameReleased /\ NoLeakedDomain)' /\ DeletesOnRequest'
         /\ [Custody!CustodyNext]_<<Holders, Leavers, ManagedOwner>>
  BY DomainStep, DeletesStep, CustodyStep DEF DomainInv
<1>4. QED
  BY <1>1, <1>2, <1>3, TypeCorrect, LifecycleCorrect, PTL
     DEF Spec, ImplementsCustody, Custody!CustodySpec, Custody!custodyVars
=============================================================================
