------------------------------- MODULE Claims -------------------------------
(***************************************************************************)
(* Which hostnames each WeftLocalDNSReflector serves: resolveClaims of     *)
(* claims.go and computeRoutes of routes.go, as functions of the objects   *)
(* one pass has read.                                                      *)
(***************************************************************************)
EXTENDS Naturals

CONSTANTS
    Reflectors,  \* names of WeftLocalDNSReflector objects, compared as strings
    Hosts        \* hostnames, lower case

ASSUME ReflectorsAssumption == Reflectors \subseteq Nat

(* spec.hostnames or spec.allHostnames; the CRD asks for one of them.      *)
Specs == {[all |-> TRUE, hosts |-> {}]}
           \cup [all: {FALSE}, hosts: (SUBSET Hosts) \ {{}}]

(* What the WeftTunnels of the cluster offer for a hostname: none with     *)
(* this http(s) dstURL; only tunnels reflectTunnel refuses (a loopback or  *)
(* non-http source); or one it turns into a route.                         *)
Offers == {"none", "refused", "route"}

(* older: by creation time, a zero time last, then by name.                *)
Older(view, a, b) ==
    LET ta == view[a].created
        tb == view[b].created
    IN  IF ta # tb THEN ta # 0 /\ (tb = 0 \/ ta < tb) ELSE a < b

(* The reflectors that count for self: itself as it was read, and every    *)
(* other one that is not being deleted.                                    *)
Live(self, view) == {r \in Reflectors : view[r].phase = "live"} \cup {self}

First(S, view) == CHOOSE r \in S : \A o \in S \ {r} : Older(view, r, o)

(* The reflectors naming h explicitly; the first of them owns it.          *)
Explicit(self, view, h) ==
    {r \in Live(self, view) : ~view[r].spec.all /\ h \in view[r].spec.hosts}

Everything(self, view) == {r \in Live(self, view) : view[r].spec.all}

(* tunnelHostnames. *)
TunnelHosts(tunnel) == {h \in Hosts : tunnel[h] # "none"}

(* Mutants: an explicit entry does not beat allHostnames; and every        *)
(* explicit claimant wins.                                                 *)
ClaimedAllWins(self, view, tunnel) ==
    IF view[self].spec.all
    THEN IF First(Everything(self, view), view) = self
         THEN TunnelHosts(tunnel) ELSE {}
    ELSE {h \in view[self].spec.hosts : First(Explicit(self, view, h), view) = self}

ClaimedOldestOnly(self, view, tunnel) ==
    IF First(Live(self, view), view) # self THEN {}
    ELSE IF view[self].spec.all THEN TunnelHosts(tunnel)
    ELSE view[self].spec.hosts

(* resolveClaims, its first result.                                        *)
Claimed(self, view, tunnel) ==
    IF view[self].spec.all
    THEN IF First(Everything(self, view), view) = self
         THEN {h \in TunnelHosts(tunnel) : Explicit(self, view, h) = {}}
         ELSE {}
    ELSE {h \in view[self].spec.hosts : First(Explicit(self, view, h), view) = self}

(* computeRoutes: the claimed hostnames with at least one route.           *)
Routed(claimed, tunnel) == {h \in claimed : tunnel[h] = "route"}
=============================================================================
