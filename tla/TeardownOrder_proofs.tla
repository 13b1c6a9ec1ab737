------------------------- MODULE TeardownOrder_proofs -------------------------
(***************************************************************************)
(* The order of clean-up in Teardown, for every value of its constants:    *)
(* what handleDeletion of an AquaductTaaS may rely on, which of its steps  *)
(* come first, and how long the token is held.                             *)
(***************************************************************************)
EXTENDS Teardown_proofs

TSteps == TNext \/ TFail \/ TCascadeFails

DSteps == DNext \/ DCallFails \/ DLookupFails \/ DFail

ESteps == Users \/ Outside \/ Restart \/ \E d \in Domains : Propagate(d)

LEMMA StepKinds ==
    ASSUME [Next]_vars
    PROVE  TSteps \/ DSteps \/ ESteps \/ UNCHANGED vars
BY DEF Next, Failures, TSteps, DSteps, ESteps

(* The DNSRecord controller writes DNSRecords and registrations only.      *)
LEMMA DFrame ==
    ASSUME DSteps
    PROVE  taas' = taas /\ secret' = secret /\ server' = server /\ tp' = tp
<1>1. CASE DNext
  BY <1>1 DEF DNext, DStart, DAddFinalizer, DResolveFails, DResolve, DGet,
              DPut, DPatch, DLookup, DCommit, DDelete, DDrop
<1>2. CASE DCallFails \/ DLookupFails \/ DFail
  BY <1>2 DEF DCallFails, DLookupFails, DFail
<1>3. QED
  BY <1>1, <1>2 DEF DSteps

(* Nobody outside touches a mirrored WeftServer, and passes only end.      *)
LEMMA EFrame ==
    ASSUME ESteps
    PROVE  /\ server' = server
           /\ tp' = tp \/ (tp' = TIdle /\ taas' = taas /\ secret' = secret)
           /\ dp' = dp \/ dp' = DIdle
           /\ taas' = taas \/ (secret' = secret /\ rec' = rec)
BY DEF ESteps, Users, Outside, Restart, Propagate, CreateTaaS, DeleteTaaS,
       CreateSecret, DeleteSecret, CreateRecord, DeleteRecord, CloudStep,
       RegisterOutside, ReleaseOutside

-----------------------------------------------------------------------------
(* The moves of an AquaductTaaS and of the pass about it. *)

Kept(t) == /\ taas'[t].phase = taas[t].phase
           /\ taas'[t].fin = taas[t].fin
           /\ taas'[t].synced = taas[t].synced

Gone(t) == /\ taas'[t].phase = "absent"
           /\ ~taas'[t].fin
           /\ ~taas'[t].synced

Created(t) == /\ taas[t].phase = "absent"
              /\ taas'[t].phase = "live"
              /\ ~taas'[t].fin
              /\ ~taas'[t].synced

Deleted(t) ==
    /\ taas[t].phase = "live"
    /\ \/ ~taas[t].fin /\ Gone(t)
       \/ /\ taas[t].fin
          /\ taas'[t].phase = "deleting"
          /\ taas'[t].fin
          /\ taas'[t].synced = taas[t].synced

(* What its own pass does to it, with an optimistic-concurrency check.     *)
Fresh(t) == /\ tp.pc # "idle" /\ tp.t = t /\ tp' = TIdle
            /\ tp.copy.phase = taas[t].phase
            /\ tp.copy.fin = taas[t].fin

Finalized(t) == /\ Fresh(t) /\ tp.pc = "start"
                /\ taas'[t].phase = taas[t].phase
                /\ taas'[t].fin
                /\ taas'[t].synced = taas[t].synced

Published(t) == /\ Fresh(t) /\ tp.pc = "prune"
                /\ taas'[t].phase = taas[t].phase
                /\ taas'[t].fin = taas[t].fin
                /\ taas'[t].synced

Dropped(t) == Fresh(t) /\ tp.pc = "drop" /\ Gone(t)

TaaSMoves ==
    \A t \in TaaSes : \/ Kept(t) \/ Created(t) \/ Deleted(t)
                      \/ Finalized(t) \/ Published(t) \/ Dropped(t)

LEMMA TaaSMoved == TypeOK /\ [Next]_vars => TaaSMoves
<1> SUFFICES ASSUME TypeOK, [Next]_vars PROVE TaaSMoves
  OBVIOUS
<1>a. taas \in [TaaSes -> TaaSObject] /\ (tp.pc # "idle" => tt \in TaaSes)
  BY DEF TypeOK, tt
<1>b. AbsentTaaS.phase = "absent" /\ ~AbsentTaaS.fin /\ ~AbsentTaaS.synced
  BY DEF AbsentTaaS
<1>c. NewTaaS.phase = "live" /\ ~NewTaaS.fin /\ ~NewTaaS.synced
  BY DEF AbsentTaaS, NewTaaS
<1>d. ASSUME taas' = taas PROVE TaaSMoves
  BY <1>d DEF TaaSMoves, Kept
<1>1. ASSUME NEW t \in TaaSes, CreateTaaS(t) PROVE TaaSMoves
  BY <1>a, <1>c, <1>1 DEF CreateTaaS, TaaSMoves, Kept, Created
<1>2. ASSUME NEW t \in TaaSes, DeleteTaaS(t) PROVE TaaSMoves
  <2>1. CASE taas[t].fin
    <3>1. taas' = [taas EXCEPT ![t] = [taas[t] EXCEPT !.phase = "deleting"]]
      BY <1>2, <2>1 DEF DeleteTaaS, DeletedTaaS
    <3>2. Deleted(t)
      BY <1>2, <1>a, <2>1, <3>1 DEF DeleteTaaS, Deleted, TaaSObject
    <3>3. \A u \in TaaSes \ {t} : Kept(u)
      BY <1>a, <3>1 DEF Kept
    <3>4. QED
      BY <3>2, <3>3 DEF TaaSMoves
  <2>2. CASE ~taas[t].fin
    <3>1. taas' = [taas EXCEPT ![t] = AbsentTaaS]
      BY <1>2, <2>2 DEF DeleteTaaS, DeletedTaaS
    <3>2. QED
      BY <1>2, <1>a, <1>b, <2>2, <3>1
         DEF DeleteTaaS, TaaSMoves, Kept, Deleted, Gone
  <2>3. QED
    BY <2>1, <2>2
<1>3. CASE TAddFinalizer
  <2>1. CASE CopyOf(taas[tt]) = tp.copy
    <3>1. Fresh(tt) /\ tp.pc = "start"
      BY <1>3, <2>1 DEF TAddFinalizer, Fresh, CopyOf, TEnd, tt
    <3>2. taas' = [taas EXCEPT ![tt].fin = TRUE]
      BY <1>3, <2>1 DEF TAddFinalizer
    <3>3. Finalized(tt)
      BY <1>a, <3>1, <3>2 DEF Finalized, TaaSObject
    <3>4. \A u \in TaaSes \ {tt} : Kept(u)
      BY <1>a, <3>2 DEF Kept
    <3>5. QED
      BY <3>3, <3>4 DEF TaaSMoves
  <2>2. QED
    BY <1>3, <1>d, <2>1 DEF TAddFinalizer
<1>4. CASE TCommit
  <2>1. CASE CopyOf(taas[tt]) = tp.copy
    <3>1. Fresh(tt) /\ tp.pc = "prune"
      BY <1>4, <2>1 DEF TCommit, Fresh, CopyOf, TEnd, tt
    <3>2. taas' = [taas EXCEPT ![tt] =
                     [taas[tt] EXCEPT !.synced = TRUE, !.bastions = tp.seen]]
      BY <1>4, <1>a, <2>1 DEF TCommit
    <3>3. Published(tt)
      BY <1>a, <3>1, <3>2 DEF Published, TaaSObject
    <3>4. \A u \in TaaSes \ {tt} : Kept(u)
      BY <1>a, <3>2 DEF Kept
    <3>5. QED
      BY <3>3, <3>4 DEF TaaSMoves
  <2>2. QED
    BY <1>4, <1>d, <2>1 DEF TCommit
<1>5. CASE TDrop
  <2>1. CASE CopyOf(taas[tt]) = tp.copy
    <3>1. Fresh(tt) /\ tp.pc = "drop"
      BY <1>5, <2>1 DEF TDrop, Fresh, CopyOf, TEnd, tt
    <3>2. taas' = [taas EXCEPT ![tt] = AbsentTaaS]
      BY <1>5, <2>1 DEF TDrop
    <3>3. Dropped(tt) /\ \A u \in TaaSes \ {tt} : Kept(u)
      BY <1>a, <1>b, <3>1, <3>2 DEF Dropped, Gone, Kept
    <3>4. QED
      BY <3>3 DEF TaaSMoves
  <2>2. QED
    BY <1>5, <1>d, <2>1 DEF TDrop
<1>6. CASE TSteps /\ ~(TAddFinalizer \/ TCommit \/ TDrop)
  <2>1. taas' = taas
    BY <1>6 DEF TSteps, TNext, TStart, TReadToken, TPin, TList, TUpsert,
       TListMirrors, TPrune, TCascade, TListServers, TSuspend, TRelease,
       TFail, TCascadeFails
  <2>2. QED
    BY <1>d, <2>1
<1>7. CASE ESteps /\ ~\E t \in TaaSes : CreateTaaS(t) \/ DeleteTaaS(t)
  <2>1. taas' = taas
    BY <1>7 DEF ESteps, Users, Outside, Restart, Propagate, CreateSecret,
       DeleteSecret, CreateRecord, DeleteRecord, CloudStep, RegisterOutside,
       ReleaseOutside
  <2>2. QED
    BY <1>d, <2>1
<1>8. CASE DSteps \/ UNCHANGED vars
  BY <1>8, <1>d, DFrame DEF vars
<1>9. QED
  BY <1>1, <1>2, <1>3, <1>4, <1>5, <1>6, <1>7, <1>8, StepKinds

-----------------------------------------------------------------------------
Pinned(t) == secret[SecretRef[t]].fin

(* A finalizer holds its Secret, a pass that lists bastions has pinned its *)
(* Secret, and so has every AquaductTaaS in use.                           *)
PinInv ==
    /\ \A s \in Secrets : secret[s].fin => secret[s].phase # "absent"
    /\ tp.pc \in {"list", "upsert", "prune"} => Pinned(tp.t)
    /\ \A t \in TaaSes : taas[t].phase = "live" /\ taas[t].synced => Pinned(t)

(* After the cascade there is no DNSRecord left to wait for.               *)
DrainedInv ==
    tp.pc \in {"servers", "suspend", "drop"} => OwnedRecords(tp.t) = {}

(* Whoever owes a name belongs to an AquaductTaaS that has synced, and so  *)
(* does a pass that is about to register one.                              *)
SyncedInv ==
    /\ \A t \in TaaSes : Debtors(t) # {} => taas[t].synced
    /\ dp.pc \in {"get", "put", "patch"} => taas[acct].synced

(* The token of an AquaductTaaS that has synced is let go only after its   *)
(* last DNSRecord.                                                         *)
HeldInv ==
    \A t \in TaaSes : taas[t].synced =>
        Pinned(t) \/ (taas[t].phase = "deleting" /\ OwnedRecords(t) = {})

(* What is left to do of the bastions mirrored under the object.           *)
SuspendInv ==
    /\ tp.pc = "suspend" =>
          {b \in Bastions : server[b] = tp.t} \subseteq tp.todo \cup tp.suspended
    /\ tp.pc = "drop" => {b \in Bastions : server[b] = tp.t} \subseteq tp.suspended

-----------------------------------------------------------------------------
(* Where a pass can be next: the steps of Reconcile and handleDeletion.    *)
Edges == {<<"start", "pin">>, <<"start", "cascade">>, <<"pin", "list">>,
          <<"list", "upsert">>, <<"upsert", "upsert">>, <<"upsert", "prune">>,
          <<"prune", "prune">>, <<"cascade", "servers">>,
          <<"servers", "suspend">>, <<"suspend", "suspend">>,
          <<"suspend", "drop">>}

Started ==
    /\ tp'.pc = "start"
    /\ tp'.t \in TaaSes
    /\ taas[tp'.t].phase # "absent"
    /\ tp'.copy.phase = taas[tp'.t].phase
    /\ tp'.copy.fin = taas[tp'.t].fin
    /\ taas' = taas /\ secret' = secret /\ rec' = rec /\ server' = server

Advanced ==
    /\ tp.pc # "idle"
    /\ tp'.t = tp.t
    /\ tp'.copy = tp.copy
    /\ <<tp.pc, tp'.pc>> \in Edges
    /\ tp.pc = "start" => /\ tp.copy.fin
                          /\ tp'.pc = "pin" => tp.copy.phase = "live"
                          /\ tp'.pc = "cascade" => tp.copy.phase = "deleting"
    /\ tp.pc = "cascade" => OwnedRecords(tp.t) = {}
    /\ taas' = taas /\ rec' = rec

LEMMA PassMoved ==
    ASSUME TypeOK, [Next]_vars
    PROVE  tp' = tp \/ tp' = TIdle \/ Started \/ Advanced
<1>a. tp \in TPass
  BY DEF TypeOK
<1>1. ASSUME NEW t \in TaaSes, TStart(t) PROVE Started
  <2>1. tp' = [TIdle EXCEPT !.pc = "start", !.t = t, !.copy = CopyOf(taas[t])]
    BY <1>1 DEF TStart
  <2>2. tp'.pc = "start" /\ tp'.t = t /\ tp'.copy = CopyOf(taas[t])
    BY <2>1 DEF TIdle
  <2>3. QED
    BY <1>1, <2>2 DEF TStart, Started, CopyOf
<1>2. CASE TReadToken
  <2>1. CASE tp' = [tp EXCEPT !.pc = "pin"] /\ tp.copy.phase = "live"
    <3>1. tp'.t = tp.t /\ tp'.copy = tp.copy /\ tp'.pc = "pin"
      BY <1>a, <2>1 DEF TPass
    <3>2. QED
      BY <1>2, <2>1, <3>1 DEF TReadToken, Advanced, Edges
  <2>2. CASE tp' = [tp EXCEPT !.pc = "cascade"] /\ tp.copy.phase = "deleting"
    <3>1. tp'.t = tp.t /\ tp'.copy = tp.copy /\ tp'.pc = "cascade"
      BY <1>a, <2>2 DEF TPass
    <3>2. QED
      BY <1>2, <2>2, <3>1 DEF TReadToken, Advanced, Edges
  <2>3. QED
    BY <1>2, <2>1, <2>2 DEF TReadToken, TEnd
<1>3. CASE TPin
  <2>1. CASE tp' = [tp EXCEPT !.pc = "list"]
    <3>1. tp'.t = tp.t /\ tp'.copy = tp.copy /\ tp'.pc = "list"
      BY <1>a, <2>1 DEF TPass
    <3>2. QED
      BY <1>3, <3>1 DEF TPin, Advanced, Edges
  <2>2. QED
    BY <1>3, <2>1 DEF TPin, TEnd
<1>4. CASE TList
  <2>1. tp'.t = tp.t /\ tp'.copy = tp.copy /\ tp'.pc = "upsert"
    BY <1>a, <1>4 DEF TList, TPass
  <2>2. QED
    BY <1>4, <2>1 DEF TList, Advanced, Edges
<1>5. ASSUME NEW b \in Bastions, TUpsert(b) PROVE tp' = TIdle \/ Advanced
  <2>1. CASE tp' = [tp EXCEPT !.todo = @ \ {b}]
    <3>1. tp'.t = tp.t /\ tp'.copy = tp.copy /\ tp'.pc = tp.pc
      BY <1>a, <2>1 DEF TPass
    <3>2. QED
      BY <1>5, <3>1 DEF TUpsert, Advanced, Edges
  <2>2. QED
    BY <1>5, <2>1 DEF TUpsert, TEnd
<1>6. CASE TListMirrors
  <2>1. tp'.t = tp.t /\ tp'.copy = tp.copy /\ tp'.pc = "prune"
    BY <1>a, <1>6 DEF TListMirrors, TPass
  <2>2. QED
    BY <1>6, <2>1 DEF TListMirrors, Advanced, Edges
<1>7. ASSUME NEW b \in Bastions, TPrune(b) PROVE Advanced
  <2>1. tp'.t = tp.t /\ tp'.copy = tp.copy /\ tp'.pc = tp.pc
    BY <1>a, <1>7 DEF TPrune, TPass
  <2>2. QED
    BY <1>7, <2>1 DEF TPrune, Advanced, Edges
<1>8. CASE TCascade
  <2>1. CASE OwnedRecords(tt) = {} /\ tp' = [tp EXCEPT !.pc = "servers"] /\ rec' = rec
    <3>1. tp'.t = tp.t /\ tp'.copy = tp.copy /\ tp'.pc = "servers"
      BY <1>a, <2>1 DEF TPass
    <3>2. QED
      BY <1>8, <2>1, <3>1 DEF TCascade, Advanced, Edges, tt
  <2>2. QED
    BY <1>8, <2>1 DEF TCascade, TEnd
<1>9. CASE TListServers
  <2>1. tp'.t = tp.t /\ tp'.copy = tp.copy /\ tp'.pc = "suspend"
    BY <1>a, <1>9 DEF TListServers, TPass
  <2>2. QED
    BY <1>9, <2>1 DEF TListServers, Advanced, Edges
<1>10. ASSUME NEW b \in Bastions, TSuspend(b) PROVE tp' = TIdle \/ Advanced
  <2>1. CASE tp' = [tp EXCEPT !.todo = @ \ {b}, !.suspended = @ \cup {b}]
    <3>1. tp'.t = tp.t /\ tp'.copy = tp.copy /\ tp'.pc = tp.pc
      BY <1>a, <2>1 DEF TPass
    <3>2. QED
      BY <1>10, <3>1 DEF TSuspend, Advanced, Edges
  <2>2. QED
    BY <1>10, <2>1 DEF TSuspend, TEnd
<1>11. CASE TRelease
  <2>1. tp'.t = tp.t /\ tp'.copy = tp.copy /\ tp'.pc = "drop"
    BY <1>a, <1>11 DEF TRelease, TPass
  <2>2. QED
    BY <1>11, <2>1 DEF TRelease, Advanced, Edges
<1>12. CASE TAddFinalizer \/ TCommit \/ TDrop \/ TFail \/ TCascadeFails
  BY <1>12 DEF TAddFinalizer, TCommit, TDrop, TFail, TCascadeFails, TEnd
<1>13. CASE DSteps \/ ESteps \/ UNCHANGED vars
  BY <1>13, DFrame, EFrame DEF vars
<1>14. QED
  BY <1>1, <1>2, <1>3, <1>4, <1>5, <1>6, <1>7, <1>8, <1>9, <1>10, <1>11,
     <1>12, <1>13, StepKinds DEF TSteps, TNext

-----------------------------------------------------------------------------
(* Finalizers and passes of the AquaductTaaS controller. *)

LEMMA TaaSLifecycleStep ==
    TypeOK /\ TaaSLifecycle /\ [Next]_vars => TaaSLifecycle'
<1> SUFFICES ASSUME TypeOK, TaaSLifecycle, [Next]_vars PROVE TaaSLifecycle'
  OBVIOUS
<1>a. TaaSMoves
  BY TaaSMoved
<1>b. tp.pc # "idle" => tp.t \in TaaSes
  BY DEF TypeOK
<1>1. \A t \in TaaSes : /\ taas'[t].fin => taas'[t].phase # "absent"
                        /\ taas'[t].phase = "deleting" => taas'[t].fin
                        /\ taas'[t].synced => taas'[t].fin
  <2> SUFFICES ASSUME NEW t \in TaaSes
               PROVE  /\ taas'[t].fin => taas'[t].phase # "absent"
                      /\ taas'[t].phase = "deleting" => taas'[t].fin
                      /\ taas'[t].synced => taas'[t].fin
    OBVIOUS
  <2>1. CASE Kept(t)
    BY <2>1 DEF Kept, TaaSLifecycle
  <2>2. CASE Created(t) \/ Deleted(t) \/ Dropped(t)
    BY <2>2 DEF Created, Deleted, Dropped, Gone
  <2>3. CASE Finalized(t) \/ Published(t)
    BY <2>3 DEF Finalized, Published, Fresh, TaaSLifecycle
  <2>4. QED
    BY <1>a, <2>1, <2>2, <2>3 DEF TaaSMoves
<1>2. CASE tp' = TIdle
  BY <1>1, <1>2, InitialValues DEF TaaSLifecycle
<1>3. CASE tp' = tp /\ tp.pc # "idle"
  <2>1. Kept(tp.t) \/ Created(tp.t) \/ Deleted(tp.t)
    BY <1>a, <1>b, <1>3, InitialValues
       DEF TaaSMoves, Finalized, Published, Dropped, Fresh
  <2>2. tp.copy.fin => /\ taas'[tp.t].fin
                       /\ tp.copy.phase = "deleting" => taas'[tp.t].phase = "deleting"
    BY <1>3, <1>b, <2>1 DEF TaaSLifecycle, Kept, Created, Deleted
  <2>3. QED
    BY <1>1, <1>3, <2>2 DEF TaaSLifecycle
<1>4. CASE tp' = tp /\ tp.pc = "idle"
  BY <1>1, <1>4 DEF TaaSLifecycle
<1>5. CASE Started
  BY <1>1, <1>5 DEF Started, TaaSLifecycle
<1>6. CASE Advanced
  <2>1. /\ tp'.pc # "idle" /\ tp'.pc # "start"
        /\ tp'.pc \in {"pin", "list", "upsert", "prune"} =>
              tp.copy.fin /\ tp.copy.phase = "live"
        /\ tp'.pc \in {"cascade", "servers", "suspend", "drop"} =>
              tp.copy.fin /\ tp.copy.phase = "deleting"
    BY <1>6 DEF Advanced, Edges, TaaSLifecycle
  <2>2. QED
    BY <1>1, <1>6, <2>1 DEF Advanced, TaaSLifecycle
<1>7. QED
  BY <1>2, <1>3, <1>4, <1>5, <1>6, PassMoved

(* An AquaductTaaS goes only when its own pass, on the deletion path, lets *)
(* go of it; whatever runs beside a pass, the object it read with the      *)
(* finalizer is still there and a deletion it saw still under way.         *)
THEOREM TaaSLifecycleCorrect == Spec => []TaaSLifecycle
<1>1. Init => TaaSLifecycle
  BY InitialValues DEF Init, TaaSLifecycle, AbsentTaaS
<1>2. QED
  BY <1>1, TypeCorrect, TaaSLifecycleStep, PTL DEF Spec

-----------------------------------------------------------------------------
(* The cascade. *)

(* A DNSRecord appears only when it is created, which is not done for an   *)
(* AquaductTaaS being deleted unless LateRecords says so.                  *)
LEMMA RecordsAppear ==
    ASSUME TypeOK, RecordLifecycle, ~LateRecords, [Next]_vars,
           NEW r \in Records, taas[TaaSRef[r]].phase = "deleting",
           rec[r].phase = "absent"
    PROVE  rec'[r].phase = "absent"
<1>a. rec \in [Records -> RecordObject] /\ rec[r].fin = FALSE
  BY DEF TypeOK, RecordLifecycle, RecordObject
<1>b. AbsentRecord.phase = "absent"
  BY DEF AbsentRecord
<1>1. CASE TSteps
  <2>1. CASE \E S : DeleteRecords(S)
    BY <1>a, <2>1, DeletedRecordFields DEF DeleteRecords
  <2>2. QED
    BY <1>1, <2>1, TFrame DEF TSteps
<1>2. CASE DResolveFails \/ DCommit \/ DCallFails \/ DFail
  BY <1>2, DEndKeeps DEF PhasesKept
<1>3. CASE DPut \/ DPatch
  BY <1>3, DWriteKeeps DEF PhasesKept
<1>4. CASE DResolve \/ DGet \/ DLookup \/ DDelete \/ DLookupFails
  BY <1>4, DCopyKept
<1>5. CASE \E q \in Records : DStart(q)
  BY <1>5 DEF DStart
<1>6. CASE DAddFinalizer
  BY <1>a, <1>6 DEF DAddFinalizer, RecordObject
<1>7. CASE DDrop
  BY <1>a, <1>b, <1>7 DEF DDrop
<1>8. CASE ESteps
  <2>1. ASSUME NEW q \in Records, CreateRecord(q) PROVE rec'[r] = rec[r]
    BY <1>a, <2>1 DEF CreateRecord
  <2>2. ASSUME NEW q \in Records, DeleteRecord(q) PROVE rec'[r] = rec[r]
    BY <1>a, <2>2 DEF DeleteRecord
  <2>3. QED
    BY <1>8, <2>1, <2>2 DEF ESteps, Users, Outside, Restart, Propagate,
       CreateTaaS, DeleteTaaS, CreateSecret, DeleteSecret, CloudStep,
       RegisterOutside, ReleaseOutside
<1>9. QED
  BY <1>1, <1>2, <1>3, <1>4, <1>5, <1>6, <1>7, <1>8, StepKinds
     DEF DSteps, DNext, vars

(* The DNSRecords of an AquaductTaaS being deleted do not come back.       *)
LEMMA StaysDrained ==
    ASSUME TypeOK, RecordLifecycle, ~LateRecords, [Next]_vars,
           NEW t \in TaaSes, taas[t].phase = "deleting", OwnedRecords(t) = {}
    PROVE  OwnedRecords(t)' = {}
BY RecordsAppear DEF OwnedRecords

LEMMA DrainedStep ==
    ASSUME ~LateRecords, TypeOK, RecordLifecycle, TaaSLifecycle, DrainedInv,
           [Next]_vars
    PROVE  DrainedInv'
<1>1. CASE tp' = tp
  <2>1. CASE tp.pc \in {"servers", "suspend", "drop"}
    <3>1. tp.t \in TaaSes /\ taas[tp.t].phase = "deleting"
      BY <2>1 DEF TypeOK, TaaSLifecycle
    <3>2. OwnedRecords(tp.t) = {}
      BY <2>1 DEF DrainedInv
    <3>3. OwnedRecords(tp.t)' = {}
      BY <1>1, <3>1, <3>2, StaysDrained DEF OwnedRecords
    <3>4. QED
      BY <3>3 DEF DrainedInv
  <2>2. QED
    BY <1>1, <2>1 DEF DrainedInv
<1>2. CASE tp' = TIdle
  BY <1>2, InitialValues DEF DrainedInv
<1>3. CASE Started
  BY <1>3 DEF Started, DrainedInv
<1>4. CASE Advanced
  <2>1. tp'.pc \in {"servers", "suspend", "drop"} => OwnedRecords(tp.t) = {}
    BY <1>4 DEF Advanced, Edges, DrainedInv
  <2>2. QED
    BY <1>4, <2>1 DEF Advanced, DrainedInv, OwnedRecords
<1>5. QED
  BY <1>1, <1>2, <1>3, <1>4, PassMoved

(* A record that owes a name is a record handleDeletion waits for.         *)
LEMMA DebtorsOwned ==
    ASSUME RecordLifecycle, NEW t
    PROVE  Debtors(t) \subseteq OwnedRecords(t)
BY DEF Debtors, OwnedRecords, RecordLifecycle

LEMMA DrainedCorrect ==
    ASSUME ~LateRecords
    PROVE  Spec => []DrainedInv
<1>1. Init => DrainedInv
  BY InitialValues DEF Init, DrainedInv
<1>2. TypeOK /\ RecordLifecycle /\ TaaSLifecycle /\ DrainedInv /\ [Next]_vars
      => DrainedInv'
  BY DrainedStep
<1>3. QED
  BY <1>1, <1>2, TypeCorrect, LifecycleCorrect, TaaSLifecycleCorrect, PTL
     DEF Spec

(* When no DNSRecord is created for an AquaductTaaS being deleted,         *)
(* handleDeletion suspends bastions, releases the token and drops the      *)
(* finalizer only once no DNSRecord owes aquaduct.dev a name.              *)
THEOREM DrainedBeforeSuspend ==
    ASSUME ~LateRecords
    PROVE  Spec => []RecordsDrainedBeforeSuspend
<1>1. RecordLifecycle /\ DrainedInv => RecordsDrainedBeforeSuspend
  BY DebtorsOwned DEF DrainedInv, RecordsDrainedBeforeSuspend
<1>2. QED
  BY <1>1, LifecycleCorrect, DrainedCorrect, PTL

-----------------------------------------------------------------------------
(* The bastions. *)

LEMMA SuspendStep == TypeOK /\ SuspendInv /\ [Next]_vars => SuspendInv'
<1> SUFFICES ASSUME TypeOK, SuspendInv, [Next]_vars PROVE SuspendInv'
  OBVIOUS
<1>a. tp \in TPass /\ server \in [Bastions -> TaaSes \cup {NoOne}]
  BY DEF TypeOK
<1>1. CASE TListServers
  <2>1. /\ tp'.pc = "suspend" /\ tp'.t = tp.t /\ server' = server
        /\ tp'.todo = {b \in Bastions : server[b] = tp.t}
    BY <1>a, <1>1 DEF TListServers, TPass, tt
  <2>2. QED
    BY <2>1 DEF SuspendInv
<1>2. ASSUME NEW b \in Bastions, TSuspend(b) PROVE SuspendInv'
  <2>1. CASE tp' = [tp EXCEPT !.todo = @ \ {b}, !.suspended = @ \cup {b}]
    <3>1. /\ tp'.pc = tp.pc /\ tp'.t = tp.t /\ tp'.todo = tp.todo \ {b}
          /\ tp'.suspended = tp.suspended \cup {b}
      BY <1>a, <2>1 DEF TPass
    <3>2. tp.pc = "suspend" /\ server' = server
      BY <1>2 DEF TSuspend
    <3>3. QED
      BY <3>1, <3>2 DEF SuspendInv
  <2>2. CASE tp' = TIdle
    BY <2>2, InitialValues DEF SuspendInv
  <2>3. QED
    BY <1>2, <2>1, <2>2 DEF TSuspend, TEnd
<1>3. CASE TRelease
  <2>1. /\ tp'.pc = "drop" /\ tp'.t = tp.t /\ server' = server
        /\ tp'.suspended = tp.suspended
    BY <1>a, <1>3 DEF TRelease, TPass
  <2>2. QED
    BY <1>3, <2>1 DEF TRelease, SuspendInv
<1>4. CASE /\ TSteps
           /\ ~(TListServers \/ TRelease \/ \E b \in Bastions : TSuspend(b))
  <2>1. tp'.pc \notin {"suspend", "drop"}
    <3>1. tp'.pc \in {"suspend", "drop"} => tp.pc \in {"servers", "suspend", "drop"}
      BY PassMoved, InitialValues DEF Started, Advanced, Edges
    <3>2. tp.pc \in {"servers", "suspend", "drop"} => tp' = TIdle
      BY <1>4 DEF TSteps, TNext, TStart, TAddFinalizer, TReadToken, TPin,
         TList, TUpsert, TListMirrors, TPrune, TCommit, TCascade, TDrop,
         TFail, TCascadeFails, TEnd
    <3>3. QED
      BY <3>1, <3>2, InitialValues
  <2>2. QED
    BY <2>1 DEF SuspendInv
<1>5. CASE DSteps \/ ESteps \/ UNCHANGED vars
  <2>1. server' = server /\ (tp' = tp \/ tp' = TIdle)
    BY <1>5, DFrame, EFrame DEF vars
  <2>2. QED
    BY <2>1, InitialValues DEF SuspendInv
<1>6. QED
  BY <1>1, <1>2, <1>3, <1>4, <1>5, StepKinds

(* Only the step that drops the finalizer ends a deletion.                 *)
LEMMA GoneOnlyByDrop ==
    ASSUME TypeOK, SuspendInv, [Next]_vars, NEW t \in TaaSes,
           taas[t].phase = "deleting", taas'[t].phase = "absent"
    PROVE  {b \in Bastions : server[b] = t} \subseteq tp.suspended
<1>1. Dropped(t)
  BY TaaSMoved DEF TaaSMoves, Kept, Created, Deleted, Finalized, Published
<1>2. QED
  BY <1>1 DEF Dropped, Fresh, SuspendInv

(* However the cloud, the users and the other controller run beside it, an *)
(* AquaductTaaS goes only after SuspendServer has answered for every       *)
(* bastion mirrored under it.                                              *)
THEOREM SuspendedBeforeGone == Spec => BastionsSuspendedBeforeGone
<1>1. Init => SuspendInv
  BY InitialValues DEF Init, SuspendInv
<1>2. TypeOK /\ SuspendInv /\ [Next]_vars =>
        [\A t \in TaaSes :
           taas[t].phase = "deleting" /\ taas'[t].phase = "absent" =>
             {b \in Bastions : server[b] = t} \subseteq tp.suspended]_vars
  BY GoneOnlyByDrop
<1>3. QED
  BY <1>1, <1>2, TypeCorrect, SuspendStep, PTL
     DEF Spec, BastionsSuspendedBeforeGone

-----------------------------------------------------------------------------
(* The access token's Secret. *)

(* releaseSecretFinalizer has let go of Secret s.                          *)
Released(s) ==
    /\ tp.pc = "suspend" /\ tp'.pc = "drop"
    /\ SecretRef[tp.t] = s
    /\ OtherUsers(tp.t) = {}
    /\ taas' = taas /\ rec' = rec

(* The in-use finalizer holds a Secret, and is dropped by nobody but       *)
(* releaseSecretFinalizer.                                                 *)
SecretMoves ==
    \A s \in Secrets :
        /\ secret'[s].fin => secret'[s].phase # "absent"
        /\ secret[s].fin => secret'[s].fin \/ Released(s)

LEMMA SecretMoved == TypeOK /\ PinInv /\ [Next]_vars => SecretMoves
<1> SUFFICES ASSUME TypeOK, PinInv, [Next]_vars PROVE SecretMoves
  OBVIOUS
<1>a. /\ secret \in [Secrets -> SecretObject]
      /\ tp \in TPass
      /\ tp.pc # "idle" => tt \in TaaSes
      /\ \A s \in Secrets : secret[s].fin => secret[s].phase # "absent"
  BY DEF TypeOK, PinInv, tt
<1>b. AbsentSecret.phase = "absent" /\ ~AbsentSecret.fin
  BY DEF AbsentSecret
<1>c. NewSecret.phase = "live" /\ ~NewSecret.fin
  BY DEF AbsentSecret, NewSecret
<1>d. ASSUME secret' = secret PROVE SecretMoves
  BY <1>a, <1>d DEF SecretMoves
<1>1. ASSUME NEW s \in Secrets, CreateSecret(s) PROVE SecretMoves
  BY <1>a, <1>c, <1>1 DEF CreateSecret, SecretMoves
<1>2. ASSUME NEW s \in Secrets, DeleteSecret(s) PROVE SecretMoves
  <2>1. CASE secret[s].fin
    <3>1. secret' = [secret EXCEPT ![s] = [secret[s] EXCEPT !.phase = "deleting"]]
      BY <1>2, <2>1 DEF DeleteSecret, DeletedSecret
    <3>2. secret'[s].fin /\ secret'[s].phase = "deleting"
      BY <1>a, <2>1, <3>1 DEF SecretObject
    <3>3. QED
      BY <1>a, <3>1, <3>2 DEF SecretMoves
  <2>2. CASE ~secret[s].fin
    <3>1. secret' = [secret EXCEPT ![s] = AbsentSecret]
      BY <1>2, <2>2 DEF DeleteSecret, DeletedSecret
    <3>2. QED
      BY <1>a, <1>b, <2>2, <3>1 DEF SecretMoves
  <2>3. QED
    BY <2>1, <2>2
<1>3. CASE TPin
  <2>1. CASE /\ secret[SecretRef[tt]].phase = "live"
             /\ secret' = [secret EXCEPT ![SecretRef[tt]].fin = TRUE]
    BY <1>a, <2>1 DEF SecretObject, SecretMoves
  <2>2. QED
    BY <1>3, <1>d, <2>1 DEF TPin
<1>4. CASE TRelease
  <2>1. tp.pc = "suspend" /\ tp'.pc = "drop" /\ taas' = taas /\ rec' = rec
    BY <1>a, <1>4 DEF TRelease, TPass
  <2>2. SecretRef[tt] \in Secrets
    BY <1>a, <2>1, RefAssumption
  <2>3. CASE secret[SecretRef[tt]].fin /\ OtherUsers(tt) = {}
    <3>1. Released(SecretRef[tt])
      BY <2>1, <2>3 DEF Released, tt
    <3>2. secret' = [secret EXCEPT ![SecretRef[tt]] =
                       IF secret[SecretRef[tt]].phase = "deleting"
                       THEN AbsentSecret
                       ELSE [secret[SecretRef[tt]] EXCEPT !.fin = FALSE]]
      BY <1>4, <2>3 DEF TRelease
    <3>3. ~secret'[SecretRef[tt]].fin
      BY <1>a, <1>b, <2>2, <3>2 DEF SecretObject
    <3>4. QED
      BY <1>a, <3>1, <3>2, <3>3 DEF SecretMoves
  <2>4. QED
    BY <1>4, <1>d, <2>3 DEF TRelease
<1>5. CASE TSteps /\ ~(TPin \/ TRelease)
  <2>1. secret' = secret
    BY <1>5 DEF TSteps, TNext, TStart, TAddFinalizer, TReadToken, TList,
       TUpsert, TListMirrors, TPrune, TCommit, TCascade, TListServers,
       TSuspend, TDrop, TFail, TCascadeFails
  <2>2. QED
    BY <1>d, <2>1
<1>6. CASE ESteps /\ ~\E s \in Secrets : CreateSecret(s) \/ DeleteSecret(s)
  <2>1. secret' = secret
    BY <1>6 DEF ESteps, Users, Outside, Restart, Propagate, CreateTaaS,
       DeleteTaaS, CreateRecord, DeleteRecord, CloudStep, RegisterOutside,
       ReleaseOutside
  <2>2. QED
    BY <1>d, <2>1
<1>7. CASE DSteps \/ UNCHANGED vars
  BY <1>7, <1>d, DFrame DEF vars
<1>8. QED
  BY <1>1, <1>2, <1>3, <1>4, <1>5, <1>6, <1>7, StepKinds

(* ensureSecretFinalizer lets the pass go on only with the Secret pinned.  *)
LEMMA PinnedWhenListing ==
    ASSUME TypeOK, [Next]_vars, Advanced, tp.pc = "pin"
    PROVE  Pinned(tp.t)'
<1>a. /\ secret \in [Secrets -> SecretObject]
      /\ tp \in TPass /\ tt \in TaaSes /\ SecretRef[tt] \in Secrets
      /\ tp'.t = tp.t /\ tp'.pc = "list"
  BY RefAssumption DEF TypeOK, tt, Advanced, Edges
<1>1. CASE TPin
  <2>1. secret'[SecretRef[tt]].fin
    BY <1>1, <1>a, InitialValues DEF TPin, SecretObject, TEnd
  <2>2. QED
    BY <1>a, <2>1 DEF Pinned, tt
<1>2. CASE TSteps /\ ~TPin
  <2>1. tp' = TIdle
    BY <1>2 DEF TSteps, TNext, TStart, TAddFinalizer, TReadToken, TList,
       TUpsert, TListMirrors, TPrune, TCommit, TCascade, TListServers,
       TSuspend, TRelease, TDrop, TFail, TCascadeFails, TEnd
  <2>2. QED
    BY <1>a, <2>1, InitialValues
<1>3. CASE DSteps \/ ESteps \/ UNCHANGED vars
  BY <1>3, <1>a, DFrame, EFrame, InitialValues DEF vars
<1>4. QED
  BY <1>1, <1>2, <1>3, StepKinds

LEMMA PinStep ==
    ASSUME TypeOK, TaaSLifecycle, PinInv, [Next]_vars
    PROVE  PinInv'
<1>a. SecretMoves /\ TaaSMoves
  BY SecretMoved, TaaSMoved
<1>b. \A t \in TaaSes : SecretRef[t] \in Secrets
  BY RefAssumption
<1>1. tp'.pc \in {"list", "upsert", "prune"} => Pinned(tp.t)' /\ tp'.t = tp.t
  <2> SUFFICES ASSUME tp'.pc \in {"list", "upsert", "prune"}
               PROVE  Pinned(tp.t)' /\ tp'.t = tp.t
    OBVIOUS
  <2>1. (tp' = tp \/ Advanced) /\ tp'.t = tp.t
    BY PassMoved, InitialValues DEF Started, Advanced
  <2>2. CASE tp.pc = "pin"
    BY <2>1, <2>2, PinnedWhenListing
  <2>3. CASE tp.pc # "pin"
    <3>1. tp.pc \in {"list", "upsert", "prune"}
      BY <2>1, <2>3 DEF Advanced, Edges
    <3>2. tp.t \in TaaSes /\ secret[SecretRef[tp.t]].fin
      BY <3>1 DEF TypeOK, PinInv, Pinned
    <3>3. secret'[SecretRef[tp.t]].fin
      BY <1>a, <1>b, <3>1, <3>2 DEF SecretMoves, Released
    <3>4. QED
      BY <2>1, <3>3 DEF Pinned
  <2>4. QED
    BY <2>2, <2>3
<1>2. ASSUME NEW t \in TaaSes, taas'[t].phase = "live", taas'[t].synced
      PROVE  Pinned(t)'
  <2>1. CASE taas[t].phase = "live" /\ taas[t].synced
    <3>1. secret[SecretRef[t]].fin
      BY <2>1 DEF PinInv, Pinned
    <3>2. ~Released(SecretRef[t])
      <4> SUFFICES ASSUME Released(SecretRef[t]) PROVE FALSE
        OBVIOUS
      <4>1. taas[tp.t].phase = "deleting"
        BY DEF Released, TaaSLifecycle
      <4>2. t \in OtherUsers(tp.t)
        BY <2>1, <4>1 DEF Released, OtherUsers
      <4>3. QED
        BY <4>2 DEF Released
    <3>3. QED
      BY <1>a, <1>b, <3>1, <3>2 DEF SecretMoves, Pinned
  <2>2. CASE Published(t)
    <3>1. secret[SecretRef[t]].fin /\ ~Released(SecretRef[t])
      BY <2>2 DEF Published, Fresh, PinInv, Pinned, Released
    <3>2. QED
      BY <1>a, <1>b, <3>1 DEF SecretMoves, Pinned
  <2>3. QED
    BY <1>2, <1>a, <2>1, <2>2
       DEF TaaSMoves, Kept, Created, Deleted, Gone, Finalized, Dropped
<1>3. QED
  BY <1>a, <1>1, <1>2 DEF PinInv, SecretMoves, Pinned

LEMMA PinCorrect == Spec => []PinInv
<1>1. Init => PinInv
  BY InitialValues DEF Init, PinInv, AbsentTaaS, AbsentSecret
<1>2. TypeOK /\ TaaSLifecycle /\ PinInv /\ [Next]_vars => PinInv'
  BY PinStep
<1>3. QED
  BY <1>1, <1>2, TypeCorrect, TaaSLifecycleCorrect, PTL DEF Spec

(* The token of an AquaductTaaS that has synced and is not being deleted   *)
(* stays readable, whoever deletes its Secret and however many deletions   *)
(* of objects that share the Secret run beside it.                         *)
THEOREM TokenHeld == Spec => []TokenHeldWhileLive
<1>1. PinInv => TokenHeldWhileLive
  BY RefAssumption DEF PinInv, Pinned, TokenHeldWhileLive
<1>2. QED
  BY <1>1, PinCorrect, PTL

-----------------------------------------------------------------------------
(* What the DNSRecords still need of their AquaductTaaS. *)

(* PUT or PATCH of the pass's own name, applied by aquaduct.dev.           *)
Written ==
    /\ dp.pc \in {"put", "patch"}
    /\ \A d \in Domains \ {rd} : dom'[d] = dom[d]
    /\ dom'[rd].owner = acct

LEMMA ManagedOnlyByWrite ==
    ASSUME TypeOK, [Next]_vars
    PROVE  DomainsKept \/ Written
<1>1. CASE TSteps
  BY <1>1, TFrame DEF TSteps, DomainsKept
<1>2. CASE ESteps
  BY <1>2, EKeepsDomains DEF ESteps
<1>3. CASE DCallFails
  <2>1. CASE dom' = dom \/ dom' = [dom EXCEPT ![rd] = Unregistered]
    BY <2>1, DeleteKeepsDomains
  <2>2. CASE /\ dp.pc \in {"put", "patch"}
             /\ PutDomain \/ (PatchDomain /\ dom[rd].owner = acct)
    BY <2>2, WriteEffect DEF Written
  <2>3. QED
    BY <1>3, <2>1, <2>2 DEF DCallFails, DeleteDomain
<1>4. CASE DPut \/ DPatch
  <2>1. CASE dom' = dom
    BY <2>1 DEF DomainsKept
  <2>2. CASE PutDomain \/ (PatchDomain /\ dom[rd].owner = acct)
    BY <1>4, <2>2, WriteEffect DEF Written, DPut, DPatch
  <2>3. QED
    BY <1>4, <2>1, <2>2 DEF DPut, DPatch
<1>5. CASE DDelete
  BY <1>5, DeleteKeepsDomains DEF DDelete, DeleteDomain
<1>6. CASE DSteps /\ ~(DCallFails \/ DPut \/ DPatch \/ DDelete)
  <2>1. dom' = dom
    BY <1>6 DEF DSteps, DNext, DStart, DAddFinalizer, DResolveFails, DResolve,
       DGet, DLookup, DCommit, DDrop, DLookupFails, DFail
  <2>2. QED
    BY <2>1 DEF DomainsKept
<1>7. CASE UNCHANGED vars
  BY <1>7 DEF vars, DomainsKept
<1>8. QED
  BY <1>1, <1>2, <1>3, <1>4, <1>5, <1>6, <1>7, StepKinds

(* A name is owed by a record of an account only if it already was, or if  *)
(* a pass for that account is writing it.                                  *)
LEMMA DebtGrows ==
    ASSUME TypeOK, NoLeakedDomain, [Next]_vars, NEW t \in TaaSes,
           Debtors(t)' # {}
    PROVE  Debtors(t) # {} \/ (Written /\ acct = t)
<1>1. PICK r \in Records : /\ dom'[DomainName[r]].managed
                           /\ dom'[DomainName[r]].owner = t
  BY DEF Debtors
<1>2. DomainName[r] \in Domains
  BY RefAssumption
<1>3. CASE dom[DomainName[r]].managed /\ dom[DomainName[r]].owner = t
  <2>1. PICK q \in Records : /\ DomainName[q] = DomainName[r]
                             /\ TaaSRef[q] = t
                             /\ rec[q].fin
    BY <1>2, <1>3 DEF NoLeakedDomain
  <2>2. q \in Debtors(t)
    BY <1>3, <2>1 DEF Debtors
  <2>3. QED
    BY <2>2
<1>4. CASE ~(dom[DomainName[r]].managed /\ dom[DomainName[r]].owner = t)
  <2>1. Written
    BY <1>1, <1>2, <1>4, ManagedOnlyByWrite DEF DomainsKept
  <2>2. acct = t
    BY <1>1, <1>2, <1>4, <2>1 DEF Written
  <2>3. QED
    BY <2>1, <2>2
<1>5. QED
  BY <1>3, <1>4

(* LastSyncTime is lost only with the object, and the object goes only     *)
(* after its DNSRecords.                                                   *)
LEMMA SyncedKept ==
    ASSUME ~LateRecords, TypeOK, RecordLifecycle, TaaSLifecycle, DrainedInv,
           [Next]_vars, NEW t \in TaaSes, taas[t].synced
    PROVE  \/ taas'[t].synced
           \/ OwnedRecords(t) = {} /\ OwnedRecords(t)' = {}
<1>1. taas[t].fin
  BY DEF TaaSLifecycle
<1>2. taas'[t].synced \/ Dropped(t)
  BY <1>1, TaaSMoved DEF TaaSMoves, Kept, Created, Deleted, Finalized,
     Published, TaaSLifecycle
<1>3. CASE Dropped(t)
  <2>1. taas[t].phase = "deleting" /\ OwnedRecords(t) = {}
    BY <1>3 DEF Dropped, Fresh, TaaSLifecycle, DrainedInv
  <2>2. QED
    BY <2>1, StaysDrained
<1>4. QED
  BY <1>2, <1>3

(* Where a DNSRecord pass about to write came from.                        *)
LEMMA WriterMoved ==
    ASSUME TypeOK, [Next]_vars, dp'.pc \in {"get", "put", "patch"}
    PROVE  \/ dp.pc \in {"get", "put", "patch"} /\ dp'.r = dp.r
           \/ dp.pc = "start" /\ dp'.r = dp.r /\ taas[acct].synced /\ taas' = taas
<1>a. dp \in DPass
  BY DEF TypeOK
<1>1. CASE TSteps \/ ESteps \/ UNCHANGED vars
  BY <1>1, TFrame, EFrame, InitialValues DEF TSteps, vars
<1>2. CASE DResolve
  <2>1. CASE dp' = [dp EXCEPT !.pc = "delete"]
    BY <1>a, <2>1 DEF DPass
  <2>2. CASE /\ taas[acct].synced
             /\ dp' = [dp EXCEPT !.pc = "get",
                                 !.targets = Selected(rr, taas[acct].bastions)]
    BY <1>a, <1>2, <2>2 DEF DPass, DResolve
  <2>3. QED
    BY <1>2, <2>1, <2>2 DEF DResolve
<1>3. CASE DGet
  BY <1>3, DCopyKept DEF DGet
<1>4. CASE DResolveFails \/ DCommit \/ DCallFails \/ DFail
  BY <1>4, DEndKeeps, InitialValues
<1>5. CASE DPut \/ DPatch
  BY <1>5, DWriteKeeps, InitialValues
<1>6. CASE DAddFinalizer \/ DDrop
  BY <1>6, InitialValues DEF DAddFinalizer, DDrop, DEnd
<1>7. CASE DLookup \/ DLookupFails \/ DDelete
  BY <1>a, <1>7 DEF DLookup, DLookupFails, DDelete, DPass, DeleteDomain
<1>8. CASE \E r \in Records : DStart(r)
  BY <1>8 DEF DStart, DIdle
<1>9. QED
  BY <1>1, <1>2, <1>3, <1>4, <1>5, <1>6, <1>7, <1>8, StepKinds DEF DSteps, DNext

LEMMA SyncedStep ==
    ASSUME ~LateRecords, TypeOK, RecordLifecycle, TaaSLifecycle, DrainedInv,
           NoLeakedDomain, SyncedInv, [Next]_vars
    PROVE  SyncedInv'
<1>1. ASSUME NEW t \in TaaSes, Debtors(t)' # {} PROVE taas'[t].synced
  <2>1. Debtors(t) # {} \/ (Written /\ acct = t)
    BY <1>1, DebtGrows
  <2>2. taas[t].synced
    BY <2>1 DEF SyncedInv, Written
  <2>3. OwnedRecords(t)' # {}
    <3>1. RecordLifecycle'
      BY RecordLifecycleStep
    <3>2. QED
      BY <1>1, <3>1 DEF Debtors, OwnedRecords, RecordLifecycle
  <2>4. QED
    BY <2>2, <2>3, SyncedKept
<1>2. ASSUME dp'.pc \in {"get", "put", "patch"} PROVE taas'[acct'].synced
  <2>1. CASE dp.pc \in {"get", "put", "patch"} /\ dp'.r = dp.r
    <3>1. rr \in Records /\ acct \in TaaSes /\ acct' = acct
      BY <2>1, RefAssumption DEF TypeOK, rr, acct
    <3>2. rr \in OwnedRecords(acct)
      BY <2>1, <3>1 DEF RecordLifecycle, OwnedRecords, acct, rr
    <3>3. taas[acct].synced
      BY <2>1 DEF SyncedInv
    <3>4. QED
      BY <3>1, <3>2, <3>3, SyncedKept
  <2>2. CASE dp.pc = "start" /\ dp'.r = dp.r /\ taas[acct].synced /\ taas' = taas
    BY <2>2 DEF acct, rr
  <2>3. QED
    BY <1>2, <2>1, <2>2, WriterMoved
<1>3. QED
  BY <1>1, <1>2 DEF SyncedInv

LEMMA SyncedCorrect ==
    ASSUME ~Refusals, ~LateRecords
    PROVE  Spec => []SyncedInv
<1>1. Init => SyncedInv
  BY InitialValues DEF Init, SyncedInv, Debtors, AbsentRecord
<1>2. /\ TypeOK /\ RecordLifecycle /\ TaaSLifecycle /\ DrainedInv
      /\ NoLeakedDomain /\ SyncedInv /\ [Next]_vars
      => SyncedInv'
  BY SyncedStep
<1>3. QED
  BY <1>1, <1>2, TypeCorrect, LifecycleCorrect, TaaSLifecycleCorrect,
     DrainedCorrect, NoDomainLeaks, PTL DEF Spec

(* As long as a DNSRecord has a name of the account to unregister, the     *)
(* AquaductTaaS it needs for that is there with its finalizer, when        *)
(* aquaduct.dev never refuses the owner's own DELETE and no DNSRecord is   *)
(* created for an AquaductTaaS being deleted.                              *)
THEOREM TaaSStays ==
    ASSUME ~Refusals, ~LateRecords
    PROVE  Spec => []TaaSOutlivesRecords
<1>1. SyncedInv /\ TaaSLifecycle => TaaSOutlivesRecords
  BY DEF SyncedInv, TaaSLifecycle, TaaSOutlivesRecords
<1>2. QED
  BY <1>1, SyncedCorrect, TaaSLifecycleCorrect, PTL

LEMMA HeldStep ==
    ASSUME ~LateRecords,
           \A t, u \in TaaSes : SecretRef[t] = SecretRef[u] => t = u,
           TypeOK, RecordLifecycle, TaaSLifecycle, DrainedInv, PinInv,
           HeldInv, [Next]_vars
    PROVE  HeldInv'
<1>a. SecretMoves /\ TaaSMoves
  BY SecretMoved, TaaSMoved
<1> SUFFICES ASSUME NEW t \in TaaSes, taas'[t].synced
             PROVE  \/ Pinned(t)'
                    \/ taas'[t].phase = "deleting" /\ OwnedRecords(t)' = {}
  BY DEF HeldInv
<1>b. SecretRef[t] \in Secrets
  BY RefAssumption
<1>1. CASE Published(t)
  <2>1. secret[SecretRef[t]].fin /\ ~Released(SecretRef[t])
    BY <1>1 DEF Published, Fresh, PinInv, Pinned, Released
  <2>2. QED
    BY <1>a, <1>b, <2>1 DEF SecretMoves, Pinned
<1>2. CASE taas[t].synced /\ Pinned(t)
  <2>1. CASE Released(SecretRef[t])
    <3>1. tp.t = t
      BY <2>1 DEF Released, TypeOK
    <3>2. taas[t].phase = "deleting" /\ OwnedRecords(t) = {}
      BY <2>1, <3>1 DEF Released, TaaSLifecycle, DrainedInv
    <3>3. QED
      BY <2>1, <3>2 DEF Released, OwnedRecords
  <2>2. QED
    BY <1>a, <1>b, <1>2, <2>1 DEF SecretMoves, Pinned
<1>3. CASE /\ taas[t].synced /\ taas[t].phase = "deleting"
           /\ OwnedRecords(t) = {}
  <2>1. taas'[t].phase = "deleting"
    BY <1>a, <1>3 DEF TaaSMoves, Kept, Created, Deleted, Finalized,
       Published, Dropped, Gone
  <2>2. QED
    BY <1>3, <2>1, StaysDrained
<1>4. QED
  BY <1>a, <1>1, <1>2, <1>3 DEF HeldInv, TaaSMoves, Kept, Created, Deleted,
     Finalized, Dropped, Gone

(* With a Secret of its own, the token of an AquaductTaaS stays readable   *)
(* until the last of its DNSRecords has unregistered its name.             *)
THEOREM TokenHeldToTheEnd ==
    ASSUME ~Refusals, ~LateRecords,
           \A t, u \in TaaSes : SecretRef[t] = SecretRef[u] => t = u
    PROVE  Spec => []TokenHeldForCleanup
<1>1. Init => HeldInv
  BY DEF Init, HeldInv, AbsentTaaS
<1>2. /\ TypeOK /\ RecordLifecycle /\ TaaSLifecycle /\ DrainedInv /\ PinInv
      /\ HeldInv /\ [Next]_vars
      => HeldInv'
  BY HeldStep
<1>3. RecordLifecycle /\ PinInv /\ SyncedInv /\ HeldInv => TokenHeldForCleanup
  <2> SUFFICES ASSUME RecordLifecycle, PinInv, SyncedInv, HeldInv,
                      NEW t \in TaaSes, Debtors(t) # {}
               PROVE  /\ secret[SecretRef[t]].phase # "absent"
                      /\ secret[SecretRef[t]].fin
    BY DEF TokenHeldForCleanup
  <2>1. taas[t].synced /\ OwnedRecords(t) # {}
    BY DebtorsOwned DEF SyncedInv
  <2>2. Pinned(t) /\ SecretRef[t] \in Secrets
    BY <2>1, RefAssumption DEF HeldInv
  <2>3. QED
    BY <2>2 DEF Pinned, PinInv
<1>4. QED
  BY <1>1, <1>2, <1>3, TypeCorrect, LifecycleCorrect, TaaSLifecycleCorrect,
     DrainedCorrect, PinCorrect, SyncedCorrect, PTL DEF Spec
=============================================================================
