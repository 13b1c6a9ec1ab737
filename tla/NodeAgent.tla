------------------------------ MODULE NodeAgent ------------------------------
(***************************************************************************)
(* The node agent of one reflector on one node, editing /etc/hosts, the    *)
(* distribution's CA bundle and containerd's certs.d beside everybody else *)
(* who does: the host's own programs and the agents of other reflectors.   *)
(* Every file operation is a step of its own, so that the others, kills    *)
(* and failing writes come between any two of them.                        *)
(***************************************************************************)
EXTENDS ManagedBlock, FiniteSets

CONSTANTS
    Hostnames,   \* hostnames the reflector may have
    AgentEvents  \* bound on what happens to the agent from outside

ASSUME AgentAssumption == AgentEvents \in Nat

VARIABLES
    ag,        \* the agent's process
    hosts,     \* the lines of /etc/hosts
    bundle,    \* the lines of the CA bundle
    certs,     \* per hostname: its directory under certs.d
    node,      \* the mounted CA file (with certificates, with something else,
               \* empty or missing), and whether the proxy verifies
    foreign,   \* history: the lines of others as they last wrote /etc/hosts
    accident,  \* history: an edit was cut short, or one of the others made
               \* theirs in the middle of it
    agEvents   \* outside events so far

agentVars == <<ag, hosts, bundle, certs, node, foreign, accident, agEvents>>

Me == "me"

(* A process: its next file operation (or "start" before the first tick,   *)
(* "idle" between two, "down" when killed and about to be restarted by the *)
(* kubelet, "gone" when it exited and its Pod with it), its --hostnames,   *)
(* whether SIGTERM came, whether it is in Cleanup, the hostnames left in   *)
(* the current loop and the one it is at, the CA file as the tick read it, *)
(* whether the block belongs in /etc/hosts, and the content it is about to *)
(* write.                                                                  *)
Gone == [pc |-> "gone", wanted |-> {}, term |-> FALSE, cleaning |-> FALSE,
         todo |-> {}, cur |-> "none", ca |-> "none", healthy |-> FALSE,
         buf |-> <<>>]

Started(w) == [Gone EXCEPT !.pc = "start", !.wanted = w]

HostLine == <<"host", "other">>

(* A directory: whose hosts.toml it holds, and whether our CA file.  The   *)
(* CA is "lost", missing as well, when RemoveAll unlinked it before        *)
(* hosts.toml or somebody took it away between our two writes.             *)
NoDir == [toml |-> "nobody", ca |-> "nobody"]

HasFiles(h) == certs[h].toml # "nobody" \/ certs[h].ca = Me

AgentInit ==
    /\ \E h \in Hostnames : ag = Started({h})
    /\ hosts = <<HostLine>>
    /\ bundle = <<HostLine>>
    /\ certs = [h \in Hostnames |-> NoDir]
    /\ node = [ca |-> "ok", proxy |-> TRUE]
    /\ foreign = <<HostLine>>
    /\ accident = FALSE
    /\ agEvents = 0

At(pc) == ag.pc = pc

(* ownedHostnames: the entries of certs.d whose hosts.toml is marked ours. *)
OwnedHostnames == {h \in Hostnames : certs[h].toml = Me}

(* What follows a part of a pass.  Tick: certs.d, CA bundle, handshake,    *)
(* /etc/hosts.  Cleanup: /etc/hosts, CA bundle, certs.d, exit.             *)
AfterPrune(p) == IF p.cleaning THEN Gone ELSE [p EXCEPT !.pc = "trustRead"]

(* pruneCertsD of Tick, and the last loop of Cleanup: list certs.d, then   *)
(* remove what is ours and not wanted.                                     *)
ToPrune(p) ==
    LET stale == OwnedHostnames \ (IF p.cleaning THEN {} ELSE p.wanted)
    IN  IF stale = {} THEN AfterPrune(p)
        ELSE [p EXCEPT !.pc = "prune", !.todo = stale]

AfterTrust(p) ==
    IF p.cleaning THEN ToPrune([p EXCEPT !.buf = <<>>])
    ELSE [p EXCEPT !.pc = "check", !.buf = <<>>]

AfterHosts(p) ==
    [p EXCEPT !.pc = IF p.cleaning THEN "trustRead" ELSE "idle",
              !.healthy = FALSE, !.buf = <<>>]

(* Tick: without a CA file the hosts entry is withdrawn, nothing else.     *)
TickStart ==
    /\ ag.pc \in {"start", "idle"}
    /\ ag' = IF node.ca = "missing"
             THEN [ag EXCEPT !.pc = "hostsRead", !.healthy = FALSE]
             ELSE [ag EXCEPT !.pc = "certs", !.todo = ag.wanted, !.ca = node.ca]
    /\ UNCHANGED <<hosts, bundle, certs, node, foreign, accident, agEvents>>

(* Mutant: hosts.toml goes first.                                          *)
WriteCATomlFirst(h) ==
    /\ At("certs")
    /\ h \in ag.todo
    /\ IF certs[h].toml \in {"nobody", Me} /\ certs[h] # [toml |-> Me, ca |-> Me]
       THEN /\ certs' = [certs EXCEPT ![h].toml = Me]
            /\ ag' = [ag EXCEPT !.pc = "toml", !.todo = @ \ {h}, !.cur = h]
       ELSE /\ ag' = [ag EXCEPT !.todo = @ \ {h}]
            /\ UNCHANGED certs
    /\ UNCHANGED <<hosts, bundle, node, foreign, accident, agEvents>>

(* writeCertsD: an entry with another hosts.toml is left alone, and so is  *)
(* one that is as it should be; otherwise the CA is written ...            *)
WriteCA(h) ==
    /\ At("certs")
    /\ h \in ag.todo
    /\ IF certs[h].toml \in {"nobody", Me} /\ certs[h] # [toml |-> Me, ca |-> Me]
       THEN /\ certs' = [certs EXCEPT ![h].ca = Me]
            /\ ag' = [ag EXCEPT !.pc = "toml", !.todo = @ \ {h}, !.cur = h]
       ELSE /\ ag' = [ag EXCEPT !.todo = @ \ {h}]
            /\ UNCHANGED certs
    /\ UNCHANGED <<hosts, bundle, node, foreign, accident, agEvents>>

(* ... and then hosts.toml, renamed over whatever is there by now; without *)
(* the directory there is no place for it.                                 *)
WriteTOML ==
    /\ At("toml")
    /\ certs' = [certs EXCEPT ![ag.cur] =
                    IF HasFiles(ag.cur) THEN [@ EXCEPT !.toml = Me] ELSE NoDir]
    /\ ag' = [ag EXCEPT !.pc = "certs", !.cur = "none"]
    /\ UNCHANGED <<hosts, bundle, node, foreign, accident, agEvents>>

CertsDone ==
    /\ At("certs")
    /\ ag.todo = {}
    /\ ag' = ToPrune(ag)
    /\ UNCHANGED <<hosts, bundle, certs, node, foreign, accident, agEvents>>

(* removeCertsD: only an entry that is still ours; ...                     *)
RemoveEntry(h) ==
    /\ At("prune")
    /\ h \in ag.todo
    /\ ag' = IF certs[h].toml = Me
             THEN [ag EXCEPT !.pc = "unlink", !.todo = @ \ {h}, !.cur = h]
             ELSE [ag EXCEPT !.todo = @ \ {h}]
    /\ UNCHANGED <<hosts, bundle, certs, node, foreign, accident, agEvents>>

(* ... RemoveAll unlinks its files, in the order of the directory and      *)
(* whoever wrote them by now, the directory with the last one; ...         *)
UnlinkCA ==
    /\ At("unlink")
    /\ certs[ag.cur].ca = Me
    /\ certs' = [certs EXCEPT ![ag.cur] =
                    IF @.toml = "nobody" THEN NoDir ELSE [@ EXCEPT !.ca = "lost"]]
    /\ UNCHANGED <<ag, hosts, bundle, node, foreign, accident, agEvents>>

UnlinkTOML ==
    /\ At("unlink")
    /\ certs[ag.cur].toml # "nobody"
    /\ certs' = [certs EXCEPT ![ag.cur] =
                    IF @.ca = Me THEN [@ EXCEPT !.toml = "nobody"] ELSE NoDir]
    /\ UNCHANGED <<ag, hosts, bundle, node, foreign, accident, agEvents>>

(* ... and ends with the directory, or with an error when somebody has put *)
(* a file there meanwhile.                                                 *)
Unlinked ==
    /\ At("unlink")
    /\ ~HasFiles(ag.cur) \/ certs[ag.cur].toml = "other"
    /\ ag' = [ag EXCEPT !.pc = "prune", !.cur = "none"]
    /\ UNCHANGED <<hosts, bundle, certs, node, foreign, accident, agEvents>>

PruneDone ==
    /\ At("prune")
    /\ ag.todo = {}
    /\ ag' = AfterPrune(ag)
    /\ UNCHANGED <<hosts, bundle, certs, node, foreign, accident, agEvents>>

(* applyHostTrust: read the bundle; an empty CA file takes the block out,  *)
(* as Cleanup does, and nothing is written when it is already right.       *)
TrustRead ==
    /\ At("trustRead")
    /\ LET next == WithManagedBlock(bundle, Me, ~ag.cleaning /\ ag.ca # "empty")
       IN  ag' = IF next = bundle THEN AfterTrust(ag)
                 ELSE [ag EXCEPT !.pc = "trustWrite", !.buf = next]
    /\ UNCHANGED <<hosts, bundle, certs, node, foreign, accident, agEvents>>

(* writeIfChanged renames the new bundle over the old one.                 *)
TrustWrite ==
    /\ At("trustWrite")
    /\ bundle' = ag.buf
    /\ ag' = AfterTrust(ag)
    /\ UNCHANGED <<hosts, certs, node, foreign, accident, agEvents>>

(* checkProxy: a CA file without certificates, or a cancelled context,     *)
(* verifies nothing.                                                       *)
Verifies(ca) == ca = "ok" /\ node.proxy /\ ~ag.term

Check ==
    /\ At("check")
    /\ ag' = [ag EXCEPT !.pc = "hostsRead", !.healthy = Verifies(ag.ca), !.ca = "none"]
    /\ UNCHANGED <<hosts, bundle, certs, node, foreign, accident, agEvents>>

(* Mutant: an unhealthy proxy leaves the block as it is.                   *)
HostsReadKeeps ==
    /\ At("hostsRead")
    /\ LET next == IF ag.healthy \/ ag.cleaning
                   THEN WithManagedBlock(hosts, Me, ag.healthy) ELSE hosts
       IN  ag' = IF next = hosts THEN AfterHosts(ag)
                 ELSE [ag EXCEPT !.pc = "hostsTrunc", !.buf = next]
    /\ UNCHANGED <<hosts, bundle, certs, node, foreign, accident, agEvents>>

(* applyHosts: read the file and work out what it should be, ...           *)
HostsRead ==
    /\ At("hostsRead")
    /\ LET next == WithManagedBlock(hosts, Me, ag.healthy)
       IN  ag' = IF next = hosts THEN AfterHosts(ag)
                 ELSE [ag EXCEPT !.pc = "hostsTrunc", !.buf = next]
    /\ UNCHANGED <<hosts, bundle, certs, node, foreign, accident, agEvents>>

(* Mutant: the file is opened without O_TRUNC.                             *)
HostsTruncSkipped ==
    /\ At("hostsTrunc")
    /\ ag' = [ag EXCEPT !.pc = "hostsWrite"]
    /\ UNCHANGED <<hosts, bundle, certs, node, foreign, accident, agEvents>>

(* ... truncate it in place, ...                                           *)
HostsTrunc ==
    /\ At("hostsTrunc")
    /\ hosts' = <<>>
    /\ ag' = [ag EXCEPT !.pc = "hostsWrite"]
    /\ UNCHANGED <<bundle, certs, node, foreign, accident, agEvents>>

(* ... and write from the start of the file over what others wrote since.  *)
Overwritten(new, old) == new \o SubSeq(old, Len(new) + 1, Len(old))

HostsWrite ==
    /\ At("hostsWrite")
    /\ hosts' = Overwritten(ag.buf, hosts)
    /\ ag' = AfterHosts(ag)
    /\ UNCHANGED <<bundle, certs, node, foreign, accident, agEvents>>

(* Mutant: SIGTERM ends the process at once.                               *)
StartCleanupSkipped ==
    /\ At("idle")
    /\ ag.term
    /\ ag' = Gone
    /\ UNCHANGED <<hosts, bundle, certs, node, foreign, accident, agEvents>>

(* Run: SIGTERM is noticed between two ticks.                              *)
StartCleanup ==
    /\ At("idle")
    /\ ag.term
    /\ ag' = [ag EXCEPT !.pc = "hostsRead", !.cleaning = TRUE]
    /\ UNCHANGED <<hosts, bundle, certs, node, foreign, accident, agEvents>>

(* The kubelet starts the container again with the arguments it has.       *)
Revive ==
    /\ At("down")
    /\ ag' = Started(ag.wanted)
    /\ UNCHANGED <<hosts, bundle, certs, node, foreign, accident, agEvents>>

AgentStep ==
    \/ TickStart \/ WriteTOML \/ CertsDone
    \/ \E h \in Hostnames : WriteCA(h) \/ RemoveEntry(h)
    \/ UnlinkCA \/ UnlinkTOML \/ Unlinked \/ PruneDone
    \/ TrustRead \/ TrustWrite \/ Check
    \/ HostsRead \/ HostsTrunc \/ HostsWrite
    \/ StartCleanup \/ Revive

-----------------------------------------------------------------------------
(* What happens to the agent from outside, a bounded number of times.      *)

(* The DaemonSet is created, or its Pod replaced after a rollout.          *)
Deploy ==
    /\ At("gone")
    /\ \E w \in SUBSET Hostnames \ {{}} : ag' = Started(w)
    /\ UNCHANGED <<hosts, bundle, certs, node, foreign, accident>>

(* SIGTERM: the DaemonSet is deleted or rolled.                            *)
Terminate ==
    /\ ag.pc \notin {"gone", "down"}
    /\ ~ag.term
    /\ ag' = [ag EXCEPT !.term = TRUE]
    /\ UNCHANGED <<hosts, bundle, certs, node, foreign, accident>>

(* SIGKILL: out of memory, or the grace period of SIGTERM is over.         *)
Kill ==
    /\ ag.pc \notin {"gone", "down"}
    /\ ag' = IF ag.term THEN Gone
             ELSE [Gone EXCEPT !.pc = "down", !.wanted = ag.wanted]
    /\ accident' = (accident \/ At("hostsWrite") \/ ag.term)
    /\ UNCHANGED <<hosts, bundle, certs, node, foreign>>

(* WriteString fails after part of the file, none of it perhaps.           *)
ShortWrite ==
    /\ At("hostsWrite")
    /\ \E n \in 0 .. Len(ag.buf) - 1 :
          hosts' = Overwritten(SubSeq(ag.buf, 1, n), hosts)
    /\ ag' = AfterHosts(ag)
    /\ accident' = TRUE
    /\ UNCHANGED <<bundle, certs, node, foreign>>

(* RemoveAll fails with one of the files of the entry removed, or none.    *)
RemoveFails ==
    /\ At("unlink")
    /\ ag' = [ag EXCEPT !.pc = "prune", !.cur = "none"]
    /\ accident' = TRUE
    /\ UNCHANGED <<hosts, bundle, certs, node, foreign>>

(* The proxy comes and goes; the mounted CA Secret is replaced, emptied or *)
(* not there.                                                              *)
NodeChanges ==
    /\ node' \in [ca: {"ok", "garbled", "empty", "missing"}, proxy: BOOLEAN] \ {node}
    /\ UNCHANGED <<ag, hosts, bundle, certs, foreign, accident>>

(* The lines of a file that are not ours.                                  *)
LinesOfOthers(lines) == Select(lines, {i \in 1 .. Len(lines) : lines[i][2] # Me})

(* Another program adds a line to /etc/hosts, or the agent of another      *)
(* reflector its block; or they take it out again.                         *)
Theirs == {<<<<"host", "program">>>>,
           <<Begin("other"), Body("other"), End("other")>>}

OthersEdit ==
    /\ \E t \in Theirs :
          LET kept == Select(hosts, {i \in 1 .. Len(hosts) :
                                        \A k \in 1 .. Len(t) : hosts[i] # t[k]})
          IN  hosts' = IF kept = hosts THEN hosts \o t ELSE kept
    /\ foreign' = LinesOfOthers(hosts')
    /\ accident' = (accident \/ ag.pc \in {"hostsTrunc", "hostsWrite"})
    /\ UNCHANGED <<ag, bundle, certs, node>>

(* update-ca-certificates regenerates the bundle.                          *)
BundleRegenerated ==
    /\ bundle # <<HostLine>>
    /\ bundle' = <<HostLine>>
    /\ accident' = (accident \/ At("trustWrite"))
    /\ UNCHANGED <<ag, hosts, certs, node, foreign>>

(* k3s rewrites certs.d, or somebody puts another hosts.toml there.        *)
CertsChange ==
    /\ \E h \in Hostnames :
          LET cleared == IF At("toml") /\ ag.cur = h
                         THEN [NoDir EXCEPT !.ca = "lost"] ELSE NoDir
          IN  certs' \in {[certs EXCEPT ![h] = cleared],
                          [certs EXCEPT ![h].toml = "other"]} \ {certs}
    /\ UNCHANGED <<ag, hosts, bundle, node, foreign, accident>>

AgentOutside ==
    /\ agEvents < AgentEvents
    /\ agEvents' = agEvents + 1
    /\ \/ Deploy \/ Terminate \/ Kill \/ ShortWrite \/ RemoveFails
       \/ NodeChanges \/ OthersEdit \/ BundleRegenerated \/ CertsChange

AgentNext == AgentOutside \/ AgentStep

(* The agent is a running process; of a tick and a cancelled context that  *)
(* are both ready, select takes either.                                    *)
AgentFairness == WF_agentVars(AgentStep) /\ SF_agentVars(StartCleanup)

AgentSpec == AgentInit /\ [][AgentNext]_agentVars /\ AgentFairness

-----------------------------------------------------------------------------
(* withManagedBlock, on every content /etc/hosts takes on, torn writes     *)
(* included: the lines of others stay, all of them and in order; exactly   *)
(* one block is there, or none; and doing it again changes nothing, so an  *)
(* agent at rest does not write.                                           *)
BlockEditCorrect ==
    \A r \in {Me, "other"}, present \in BOOLEAN :
        LET new == WithManagedBlock(hosts, r, present)
        IN  /\ Others(new, r) = Others(hosts, r)
            /\ Begins(new, r) = Blocks(new, r)
            /\ Cardinality(Blocks(new, r)) = IF present THEN 1 ELSE 0
            /\ WithManagedBlock(new, r, present) = new

(* The agent never touches any other line of /etc/hosts (hostsfile.go): as *)
(* long as no rewrite was cut short or overlapped by somebody else's, the  *)
(* lines of others are there whenever the agent is not in the middle of    *)
(* one.                                                                    *)
HostLinesKept ==
    ~accident /\ ~At("hostsWrite") => LinesOfOthers(hosts) = foreign

(* On SIGTERM the agent removes everything it wrote before exiting (header *)
(* of agent.go): no block and no certs.d entry of an agent that exited,    *)
(* under the same condition.                                               *)
LeavesNothing ==
    ~accident /\ At("gone") =>
        Blocks(hosts, Me) = {} /\ Blocks(bundle, Me) = {} /\ OwnedHostnames = {}

(* hosts.toml never names a CA file that was not there when it was written *)
(* (writeCertsD), whatever is killed, fails or is changed by others: where *)
(* one of ours is without its CA, RemoveAll has unlinked that first, as it *)
(* may, or somebody else took it away between the two writes, and no agent *)
(* has written or removed the entry since.  That it does not stay so is    *)
(* NodeFollowsProxy.                                                       *)
CAFirst == \A h \in OwnedHostnames : certs[h].ca \in {Me, "lost"}

(* The node is pointed at the proxy if and only if the proxy verifies      *)
(* there, the trust for it is in place, unless there is nothing in the CA  *)
(* file to trust, and what is left of former hostnames is gone; an agent   *)
(* told to stop has.                                                       *)
NodeInOrder ==
    \/ At("gone")
    \/ /\ ~At("down") /\ ~ag.term
       /\ (Blocks(hosts, Me) # {}) <=> Verifies(node.ca)
       /\ node.ca # "missing" =>
             /\ (Blocks(bundle, Me) # {}) <=> node.ca # "empty"
             /\ OwnedHostnames \subseteq ag.wanted
             /\ \A h \in ag.wanted : certs[h].toml = "other"
                                       \/ certs[h] = [toml |-> Me, ca |-> Me]

(* Whatever happened, accidents included: once the surroundings settle, so *)
(* does the node (Tick, Cleanup).                                          *)
NodeFollowsProxy == <>[]NodeInOrder
=============================================================================
