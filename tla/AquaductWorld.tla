---------------------------- MODULE AquaductWorld ----------------------------
(***************************************************************************)
(* The state the AquaductTaaS and DNSRecord reconcilers share: the         *)
(* Kubernetes objects they read and write, the aquaduct.dev account data   *)
(* behind the HTTP client, and the local state of the pass each controller *)
(* is running.  The reconcilers' actions are in TaaSReconciler and         *)
(* DNSRecordReconciler; Teardown composes them with the users and the      *)
(* cloud.                                                                  *)
(***************************************************************************)
EXTENDS Naturals, FiniteSets

CONSTANTS
    TaaSes,       \* AquaductTaaS objects of one namespace
    Records,      \* DNSRecord objects of the same namespace
    Secrets,      \* access-token Secrets
    Bastions,     \* cloud bastions; the mirrored WeftServer has the same name
    Domains,      \* domain names
    SecretRef,    \* [TaaSes -> Secrets]: spec.accessTokenSecretRef.name
    TaaSRef,      \* [Records -> TaaSes]: spec.aquaductTaaSRef.name
    DomainName,   \* [Records -> Domains]: spec.domainName (immutable)
    Targets,      \* [Records -> SUBSET Bastions]: spec.targetBastionIDs
    BastionsOf,   \* [TaaSes -> SUBSET Bastions]: bastions of the account
    NoOne,        \* no owner, no object
    Foreign       \* an aquaduct.dev user outside this cluster

ASSUME RefAssumption ==
    /\ SecretRef \in [TaaSes -> Secrets]
    /\ TaaSRef \in [Records -> TaaSes]
    /\ DomainName \in [Records -> Domains]
    /\ Targets \in [Records -> SUBSET Bastions]
    /\ BastionsOf \in [TaaSes -> SUBSET Bastions]

ASSUME NamesAssumption ==
    /\ NoOne \notin TaaSes \cup Records
    /\ Foreign \notin TaaSes
    /\ NoOne # Foreign

VARIABLES
    taas,    \* AquaductTaaS objects
    secret,  \* access-token Secrets
    rec,     \* DNSRecord objects
    server,  \* per bastion: the AquaductTaaS owning its mirrored WeftServer
    cloud,   \* per bastion: what aquaduct.dev knows of it
    dom,     \* per domain: its registration on aquaduct.dev
    dns,     \* per domain: the bastions its public A records point at
    tp,      \* the pass of the AquaductTaaS controller's worker
    dp       \* the pass of the DNSRecord controller's worker

vars == <<taas, secret, rec, server, cloud, dom, dns, tp, dp>>

Phases == {"absent", "live", "deleting"}

(* "starting" has no IP yet; "suspended" keeps its IP in the list.         *)
CloudStates == {"none", "starting", "running", "suspended"}

NoBastions == [b \in Bastions |-> "none"]

(* An AquaductTaaS: its lifecycle, our finalizer, and of its status        *)
(* whether LastSyncTime is set and the published bastion list.             *)
TaaSObject == [phase: Phases, fin: BOOLEAN, synced: BOOLEAN,
               bastions: [Bastions -> CloudStates]]

AbsentTaaS == [phase |-> "absent", fin |-> FALSE, synced |-> FALSE,
               bastions |-> NoBastions]

NewTaaS == [AbsentTaaS EXCEPT !.phase = "live"]

(* A Secret: its lifecycle and our in-use finalizer.                       *)
SecretObject == [phase: Phases, fin: BOOLEAN]

AbsentSecret == [phase |-> "absent", fin |-> FALSE]

NewSecret == [AbsentSecret EXCEPT !.phase = "live"]

(* A DNSRecord: its lifecycle, our finalizer, and of its status the        *)
(* conditions Registered and Ready.                                        *)
RecordObject == [phase: Phases, fin: BOOLEAN, registered: BOOLEAN,
                 ready: BOOLEAN]

AbsentRecord == [phase |-> "absent", fin |-> FALSE, registered |-> FALSE,
                 ready |-> FALSE]

NewRecord == [AbsentRecord EXCEPT !.phase = "live"]

(* A registration: the account it belongs to (an AquaductTaaS stands for   *)
(* the account of its token), the bastions bound to it, and a history      *)
(* field no code reads: the operator has written it.                       *)
Registration == [owner: TaaSes \cup {NoOne, Foreign}, targets: SUBSET Bastions,
                 managed: BOOLEAN]

Unregistered == [owner |-> NoOne, targets |-> {}, managed |-> FALSE]

(* What a pass keeps of the object it read.  The status is left out: only  *)
(* the pass itself writes it, so it cannot have changed under the pass.    *)
Copy == [phase: Phases, fin: BOOLEAN]

NoCopy == [phase |-> "absent", fin |-> FALSE]

CopyOf(o) == [phase |-> o.phase, fin |-> o.fin]

(* The AquaductTaaS pass: the object it is about, the copy it read, the    *)
(* bastion list GET /bastion returned, the bastions still to be handled in *)
(* the current loop and those SuspendServer answered for.                  *)
TPcs == {"idle", "start", "pin", "list", "upsert", "prune", "cascade",
         "servers", "suspend", "drop"}

TPass == [pc: TPcs, t: TaaSes \cup {NoOne}, copy: Copy,
          seen: [Bastions -> CloudStates], todo: SUBSET Bastions,
          suspended: SUBSET Bastions]

TIdle == [pc |-> "idle", t |-> NoOne, copy |-> NoCopy, seen |-> NoBastions,
          todo |-> {}, suspended |-> {}]

(* The DNSRecord pass: the object, the copy it read, the bastions to fan   *)
(* out to, how the registration went and what the lookup said.             *)
DPcs == {"idle", "start", "get", "put", "patch", "lookup", "commit", "delete",
         "drop"}

Outcomes == {"none", "registered", "foreign"}

DPass == [pc: DPcs, r: Records \cup {NoOne}, copy: Copy,
          targets: SUBSET Bastions, outcome: Outcomes, resolved: BOOLEAN]

DIdle == [pc |-> "idle", r |-> NoOne, copy |-> NoCopy, targets |-> {},
          outcome |-> "none", resolved |-> FALSE]

(* kubectl delete, r.Delete: an object with a finalizer is only marked.    *)
DeletedTaaS(o) == IF o.fin THEN [o EXCEPT !.phase = "deleting"] ELSE AbsentTaaS

DeletedSecret(o) ==
    IF o.fin THEN [o EXCEPT !.phase = "deleting"] ELSE AbsentSecret

DeletedRecord(o) ==
    IF o.fin THEN [o EXCEPT !.phase = "deleting"] ELSE AbsentRecord

(* readToken: the token can be read while the Secret object exists.        *)
TokenReadable(t) == secret[SecretRef[t]].phase # "absent"

(* Types, and every pass under way works on an object of its kind.         *)
TypeOK ==
    /\ taas \in [TaaSes -> TaaSObject]
    /\ secret \in [Secrets -> SecretObject]
    /\ rec \in [Records -> RecordObject]
    /\ server \in [Bastions -> TaaSes \cup {NoOne}]
    /\ cloud \in [Bastions -> CloudStates]
    /\ dom \in [Domains -> Registration]
    /\ dns \in [Domains -> SUBSET Bastions]
    /\ tp \in TPass
    /\ dp \in DPass
    /\ tp.pc # "idle" => tp.t \in TaaSes
    /\ dp.pc # "idle" => dp.r \in Records

Init ==
    /\ taas = [t \in TaaSes |-> AbsentTaaS]
    /\ secret = [s \in Secrets |-> AbsentSecret]
    /\ rec = [r \in Records |-> AbsentRecord]
    /\ server = [b \in Bastions |-> NoOne]
    /\ cloud = NoBastions
    /\ dom = [d \in Domains |-> Unregistered]
    /\ dns = [d \in Domains |-> {}]
    /\ tp = TIdle
    /\ dp = DIdle
=============================================================================
