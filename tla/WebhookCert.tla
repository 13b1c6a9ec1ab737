----------------------------- MODULE WebhookCert -----------------------------
(***************************************************************************)
(* The serving certificate of the trust-injection webhook: one Secret with *)
(* a CA and a certificate signed by it, the files every replica of the     *)
(* operator serves from, and the caBundle the API server verifies with.    *)
(* Setup brings them in line, in every replica before its manager starts   *)
(* and daily in the leader.  The API server ignores a webhook it does not  *)
(* trust, so nothing fails visibly when they are not.  Time is in days;    *)
(* the ten years a CA is valid for are beyond the bound.                   *)
(***************************************************************************)
EXTENDS Naturals

CONSTANTS
    Replicas,       \* operator processes
    Nobody,         \* no leader
    LeafValidity,   \* days a serving certificate is valid
    LeafRenewBefore,\* days before its expiry from which it is reissued
    MaxDay,         \* bound on days
    WebhookEvents   \* bound on what happens from outside

ASSUME WebhookAssumption ==
    /\ Nobody \notin Replicas
    /\ LeafValidity \in Nat /\ LeafRenewBefore \in 1 .. LeafValidity - 1
    /\ MaxDay \in Nat /\ WebhookEvents \in Nat

VARIABLES
    day,       \* today
    sec,       \* Secret weft-operator-webhook-tls
    caBundle,  \* caBundle of the MutatingWebhookConfiguration
    cas,       \* how many CAs have been generated
    op,        \* per replica: its Setup and what it serves
    leader,    \* the replica whose Renewer runs
    lost,      \* history: somebody removed the CA from the Secret
    whEvents   \* outside events so far

webhookVars == <<day, sec, caBundle, cas, op, leader, lost, whEvents>>

(* A certificate is the CA that signed it and the last day it is valid.    *)
NoLeaf == [ca |-> 0, until |-> 0]

NoSecret == [ca |-> 0, leaf |-> NoLeaf]

(* A replica: the next call of Setup ("rest" between two, "down" when the  *)
(* process is not there), the Secret as read and as it should be, the      *)
(* files still to write, tls.crt and tls.key, whether its manager has      *)
(* started, the certificate it answers with, and whether the Renewer ran   *)
(* today; ok (Setup went through today) and age (days since it last did)   *)
(* are history.                                                            *)
Files == {"crt", "key"}

Down == [pc |-> "down", copy |-> NoSecret, data |-> NoSecret, todo |-> {},
         crt |-> NoLeaf, key |-> NoLeaf, serving |-> FALSE, served |-> NoLeaf,
         ticked |-> FALSE, ok |-> FALSE, age |-> 0]

WebhookInit ==
    /\ day = 1
    /\ sec = NoSecret
    /\ caBundle = 0
    /\ cas = 0
    /\ op = [p \in Replicas |-> Down]
    /\ leader = Nobody
    /\ lost = FALSE
    /\ whEvents = 0

OpAt(p, pc) == op[p].pc = pc

(* Mutant: there is no Renewer.                                            *)
SetupDueAtStart(p) == OpAt(p, "down")

(* Setup runs when a process starts, and daily in the leader (Renewer): a  *)
(* replica that does not lead keeps what it started with.                  *)
SetupDue(p) ==
    \/ OpAt(p, "down")
    \/ OpAt(p, "rest") /\ leader = p /\ ~op[p].ticked

(* Mutant: a certificate is renewed when it has expired.                   *)
RenewalReasonExpired(leaf, ca) == leaf.ca # ca \/ day > leaf.until

(* pki.RenewalReason: there is no certificate of this CA, or it is close   *)
(* to its expiry.                                                          *)
RenewalReason(leaf, ca) == leaf.ca # ca \/ day + LeafRenewBefore > leaf.until

(* EnsureServingCert: read the Secret; generate a CA if it has none, and   *)
(* issue a certificate if there is a reason to.                            *)
ReadSecret(p) ==
    LET ca == IF sec.ca = 0 THEN cas + 1 ELSE sec.ca
        leaf == IF RenewalReason(sec.leaf, ca)
                THEN [ca |-> ca, until |-> day + LeafValidity] ELSE sec.leaf
    IN  /\ SetupDue(p)
        /\ cas' = IF sec.ca = 0 THEN cas + 1 ELSE cas
        /\ op' = [op EXCEPT ![p].pc = "write", ![p].ticked = TRUE,
                            ![p].copy = sec, ![p].data = [ca |-> ca, leaf |-> leaf]]
        /\ UNCHANGED <<day, sec, caBundle, leader, lost, whEvents>>

(* An error of Setup ends a process that is starting; the Renewer logs it  *)
(* and waits for the next day.                                             *)
Abandoned(o) == [o EXCEPT !.pc = IF o.serving THEN "rest" ELSE "down",
                          !.copy = NoSecret, !.data = NoSecret, !.todo = {}]

(* CreateOrUpdate writes what changed, and fails if the Secret is no       *)
(* longer the one that was read.                                           *)
WriteSecret(p) ==
    /\ OpAt(p, "write")
    /\ \/ /\ op[p].data = op[p].copy \/ sec = op[p].copy
          /\ sec' = IF op[p].data = op[p].copy THEN sec ELSE op[p].data
          /\ op' = [op EXCEPT ![p].pc = "files", ![p].todo = Files]
       \/ /\ op[p].data # op[p].copy /\ sec # op[p].copy
          /\ op' = [op EXCEPT ![p] = Abandoned(@)]
          /\ UNCHANGED sec
    /\ UNCHANGED <<day, caBundle, cas, leader, lost, whEvents>>

(* tls.crt and tls.key are written one after the other, in either order.   *)
WriteFile(p, f) ==
    /\ OpAt(p, "files")
    /\ f \in op[p].todo
    /\ op' = [op EXCEPT ![p].crt = IF f = "crt" THEN op[p].data.leaf ELSE @,
                        ![p].key = IF f = "key" THEN op[p].data.leaf ELSE @,
                        ![p].todo = @ \ {f},
                        ![p].pc = IF op[p].todo = {f} THEN "configure" ELSE "files"]
    /\ UNCHANGED <<day, sec, caBundle, cas, leader, lost, whEvents>>

(* EnsureConfiguration; then the manager of a starting process starts,     *)
(* which loads the files.                                                  *)
EnsureConfiguration(p) ==
    /\ OpAt(p, "configure")
    /\ caBundle' = op[p].data.ca
    /\ op' = [op EXCEPT ![p] =
                [Abandoned([op[p] EXCEPT !.serving = TRUE]) EXCEPT !.ok = TRUE,
                    !.served = IF op[p].serving THEN op[p].served ELSE op[p].crt]]
    /\ UNCHANGED <<day, sec, cas, leader, lost, whEvents>>

SetupStep(p) ==
    \/ ReadSecret(p) \/ WriteSecret(p)
    \/ \E f \in Files : WriteFile(p, f)
    \/ EnsureConfiguration(p)

(* The certificate watcher loads the files once they fit each other.       *)
Stale(p) == op[p].serving /\ op[p].crt = op[p].key /\ op[p].served # op[p].crt

Reload(p) ==
    /\ Stale(p)
    /\ op' = [op EXCEPT ![p].served = op[p].crt]
    /\ UNCHANGED <<day, sec, caBundle, cas, leader, lost, whEvents>>

(* Leader election; the Renewer's first tick is a day away.                *)
Elect(p) ==
    /\ leader = Nobody
    /\ op[p].serving
    /\ leader' = p
    /\ op' = [op EXCEPT ![p].ticked = TRUE]
    /\ UNCHANGED <<day, sec, caBundle, cas, lost, whEvents>>

(* Restarts, Setup, reloading and elections take less than a day.          *)
DayDone ==
    \A p \in Replicas : /\ OpAt(p, "rest")
                        /\ ~Stale(p)
                        /\ leader # Nobody
                        /\ leader = p => op[p].ticked

NextDay ==
    /\ day < MaxDay
    /\ DayDone
    /\ day' = day + 1
    /\ op' = [p \in Replicas |->
                [op[p] EXCEPT !.ticked = FALSE, !.ok = FALSE,
                              !.age = IF op[p].ok THEN 1
                                      ELSE IF @ > LeafRenewBefore THEN @
                                      ELSE @ + 1]]
    /\ UNCHANGED <<sec, caBundle, cas, leader, lost, whEvents>>

(* Days beyond the bound: the clock stands, the ticker ticks.              *)
LastDayAgain ==
    /\ day = MaxDay
    /\ DayDone
    /\ op' = [p \in Replicas |-> [op[p] EXCEPT !.ticked = FALSE]]
    /\ UNCHANGED <<day, sec, caBundle, cas, leader, lost, whEvents>>

(* From outside: a call of Setup fails; a process ends, in the middle of   *)
(* Setup perhaps, and the next one writes its own files before it serves;  *)
(* the Secret is deleted or damaged.                                       *)
SetupFails(p) ==
    /\ op[p].pc \in {"write", "files", "configure"}
    /\ op' = [op EXCEPT ![p] = Abandoned(@)]
    /\ UNCHANGED <<day, sec, caBundle, cas, leader, lost>>

Stop(p) ==
    /\ op[p].pc # "down"
    /\ op' = [op EXCEPT ![p] = Down]
    /\ leader' = IF leader = p THEN Nobody ELSE leader
    /\ UNCHANGED <<day, sec, caBundle, cas, lost>>

LoseSecret ==
    /\ sec.ca # 0
    /\ sec' \in {NoSecret, [sec EXCEPT !.ca = 0]}
    /\ lost' = TRUE
    /\ UNCHANGED <<day, caBundle, cas, op, leader>>

WebhookOutside ==
    /\ whEvents < WebhookEvents
    /\ whEvents' = whEvents + 1
    /\ (\E p \in Replicas : SetupFails(p) \/ Stop(p)) \/ LoseSecret

WebhookNext ==
    \/ \E p \in Replicas : SetupStep(p) \/ Reload(p) \/ Elect(p)
    \/ NextDay \/ LastDayAgain
    \/ WebhookOutside

(* The kubelet starts processes, calls return, time passes.                *)
WebhookFairness ==
    /\ \A p \in Replicas : WF_webhookVars(SetupStep(p)) /\ WF_webhookVars(Reload(p))
    /\ WF_webhookVars(\E p \in Replicas : Elect(p))
    /\ WF_webhookVars(NextDay \/ LastDayAgain)

WebhookSpec == WebhookInit /\ [][WebhookNext]_webhookVars /\ WebhookFairness

-----------------------------------------------------------------------------
(* "The webhook is never briefly untrusted" (setup.go): unless somebody    *)
(* takes the CA away, every replica answers with a certificate the         *)
(* caBundle verifies and that has not expired, through first starts,       *)
(* restarts, renewals and stops in the middle of them, for as long as its  *)
(* own Setup went through within the last LeafRenewBefore days.            *)
WebhookTrusted ==
    \A p \in Replicas :
        op[p].serving /\ op[p].age <= LeafRenewBefore /\ ~lost =>
            op[p].served.ca = caBundle /\ day <= op[p].served.until

(* The leader answers with a certificate the caBundle verifies.            *)
LeaderTrusted ==
    /\ leader # Nobody
    /\ op[leader].serving
    /\ op[leader].served.ca = caBundle
    /\ caBundle = sec.ca
    /\ day <= op[leader].served.until

(* It ends up so even if the CA was taken away or two replicas disagreed   *)
(* about it (Renewer).                                                     *)
WebhookHeals == <>[]LeaderTrusted
=============================================================================
