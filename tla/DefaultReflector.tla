-------------------------- MODULE DefaultReflector --------------------------
(***************************************************************************)
(* The goroutine that keeps the cluster-default WeftLocalDNSReflector in   *)
(* place, or removes it, beside administrators who edit, delete and create *)
(* reflectors of the same name.                                            *)
(***************************************************************************)
EXTENDS Naturals

CONSTANT DefaultEvents  \* bound on what happens from outside

ASSUME DefaultAssumption == DefaultEvents \in Nat

VARIABLES
    refl,     \* the reflector of the default name
    enabled,  \* --default-reflector
    sync,     \* the Sync under way
    dfEvents  \* outside events so far

defaultVars == <<refl, enabled, sync, dfEvents>>

(* ver 0: no such reflector; ours: it carries DefaultReflectorLabel;       *)
(* right: its hostname selection is the configured one.                    *)
NoReflector == [ver |-> 0, ours |-> FALSE, right |-> FALSE]

Resting == [pc |-> "rest", copy |-> NoReflector]

DefaultInit ==
    /\ refl = NoReflector
    /\ enabled \in BOOLEAN
    /\ sync = Resting
    /\ dfEvents = 0

Found == sync.copy.ver # 0

(* Sync reads the reflector of the name.                                   *)
SyncGet ==
    /\ sync.pc = "rest"
    /\ sync' = [pc |-> "act", copy |-> refl]
    /\ UNCHANGED <<refl, enabled, dfEvents>>

(* Mutant: whose the reflector is does not matter.                         *)
SyncDeleteAny ==
    /\ sync.pc = "act"
    /\ ~enabled
    /\ Found
    /\ refl' = NoReflector
    /\ sync' = Resting
    /\ UNCHANGED <<enabled, dfEvents>>

(* Disabled: ours is deleted, by name.                                     *)
SyncDelete ==
    /\ sync.pc = "act"
    /\ ~enabled
    /\ sync.copy.ours
    /\ refl' = NoReflector
    /\ sync' = Resting
    /\ UNCHANGED <<enabled, dfEvents>>

(* Enabled and not found: created, unless there is one by now.             *)
SyncCreate ==
    /\ sync.pc = "act"
    /\ enabled
    /\ ~Found
    /\ refl' = IF refl.ver # 0 THEN refl
               ELSE [ver |-> dfEvents + 1, ours |-> TRUE, right |-> TRUE]
    /\ sync' = Resting
    /\ UNCHANGED <<enabled, dfEvents>>

(* Mutant: the selection is only set when the reflector is created.        *)
SyncUpdateSkipped ==
    /\ sync.pc = "act"
    /\ enabled
    /\ sync.copy.ours
    /\ sync' = Resting
    /\ UNCHANGED <<refl, enabled, dfEvents>>

(* Enabled and ours: the selection is set, unless it is right or the       *)
(* object has changed since, which is retried.                             *)
SyncUpdate ==
    /\ sync.pc = "act"
    /\ enabled
    /\ sync.copy.ours
    /\ refl' = IF refl.ver = sync.copy.ver THEN [refl EXCEPT !.right = TRUE]
               ELSE refl
    /\ sync' = Resting
    /\ UNCHANGED <<enabled, dfEvents>>

(* Somebody else's is left alone.                                          *)
SyncSkip ==
    /\ sync.pc = "act"
    /\ ~sync.copy.ours
    /\ enabled => Found
    /\ sync' = Resting
    /\ UNCHANGED <<refl, enabled, dfEvents>>

Sync == SyncGet \/ SyncDelete \/ SyncCreate \/ SyncUpdate \/ SyncSkip

(* An administrator creates a reflector of the name, edits the one there   *)
(* is, or deletes it; a call of Sync fails; the operator restarts,         *)
(* configured differently perhaps, which may make another selection right. *)
DefaultOutside ==
    /\ dfEvents < DefaultEvents
    /\ dfEvents' = dfEvents + 1
    /\ \/ /\ refl' \in IF refl.ver = 0
                       THEN {[ver |-> dfEvents' + 1, ours |-> FALSE, right |-> FALSE]}
                       ELSE {NoReflector,
                             [refl EXCEPT !.ver = dfEvents' + 1, !.right = FALSE]}
          /\ UNCHANGED <<enabled, sync>>
       \/ /\ sync' = Resting
          /\ enabled' \in BOOLEAN
          /\ refl' \in {[refl EXCEPT !.right = b /\ refl.ver # 0] : b \in BOOLEAN}

DefaultNext == DefaultOutside \/ Sync

(* Start repeats Sync every ten minutes, or sooner after an error.         *)
DefaultSpec ==
    DefaultInit /\ [][DefaultNext]_defaultVars /\ WF_defaultVars(Sync)

-----------------------------------------------------------------------------
(* "It only ever touches a reflector carrying its label" (default.go): a   *)
(* hand-made one is never edited, and deleted only if it took the place of *)
(* the operator's between the Get and the Delete of one Sync.              *)
HandMadeKept ==
    [][refl.ver # 0 /\ ~refl.ours /\ dfEvents' = dfEvents =>
         refl' = refl \/ (sync.copy.ours /\ refl.ver > sync.copy.ver)]_defaultVars

(* The cluster is as configured: with the flag on there is a reflector,    *)
(* and the operator's own has the configured selection; with it off the    *)
(* operator's own is gone.                                                 *)
AsConfigured ==
    IF enabled THEN refl.ver # 0 /\ (refl.ours => refl.right) ELSE ~refl.ours

(* The configuration wins in the end, by repeating Sync.                   *)
DefaultFollowsConfig == <>[]AsConfigured
=============================================================================
