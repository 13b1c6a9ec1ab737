---------------------------- MODULE Tunnel_proofs ----------------------------
(***************************************************************************)
(* The WeftTunnel controller runs only when an event queues a tunnel.      *)
(* That no event is missed is an invariant of its rest; the proof says of  *)
(* every moment what holds of a tunnel that nobody has queued: between     *)
(* passes it is as its servers call for, and within its own pass what the  *)
(* pass has seen and done so far is still true, since every change that    *)
(* could make it false queues the tunnel again.                            *)
(***************************************************************************)
EXTENDS TunnelLiveness, TLAPS

(* The servers a tunnel is about, present or not, and the lookup of a pass *)
(* that returns a server.                                                  *)
Concerns(s, t) ==
    IF tun[t].targets = {} THEN ServerNs[s] \in {TunnelNs[t], System}
    ELSE ServerNs[s] = TunnelNs[t] /\ ServerName[s] \in tun[t].targets

Lookup(s, t) == IF tun[t].targets = {} THEN ServerNs[s] ELSE ServerName[s]

Lookups(t) == IF tun[t].targets = {} THEN {TunnelNs[t], System}
              ELSE tun[t].targets

(* The name and the address of every present server of t, of those whose   *)
(* lookup is not among R.                                                  *)
Looked(t, R) ==
    {<<ServerName[s], srv[s]>> : s \in {s \in Targets(t) : Lookup(s, t) \notin R}}

Desired(t) == {<<ServerName[s], srv[s]>> : s \in Targets(t)}

InPlace(t, f) == dep[t][f[1]].owner = "current" /\ dep[t][f[1]].conn = f[2]

(* All that the servers call for is there, and nothing else.               *)
Converged(t) ==
    /\ \A f \in Desired(t) : InPlace(t, f)
    /\ \A n \in Existing(t) : \E f \in Desired(t) : f[1] = n

Honest(t) == tun[t].cond = "true" <=> AllReady(t)

(* What a pass for t that has not failed knows, if nobody queued t since.  *)
Knows(t) ==
    /\ pass.pc # "status"
    /\ pass.pc = "resolve" =>
          /\ pass.reads \subseteq Lookups(t)
          /\ pass.found = Looked(t, pass.reads) /\ pass.expected = {}
    /\ pass.pc = "upsert" =>
          /\ pass.found \subseteq Desired(t)
          /\ \A f \in Desired(t) \ pass.found :
                InPlace(t, f) /\ f[1] \in pass.expected
          /\ \A n \in pass.expected :
                \E f \in Desired(t) \ pass.found : f[1] = n
    /\ pass.pc = "prune" =>
          /\ \A f \in Desired(t) : InPlace(t, f)
          /\ \A n \in Existing(t) \ pass.obsolete :
                \E f \in Desired(t) : f[1] = n
    /\ pass.pc = "write" =>
          Converged(t) /\ (pass.cond = "true" <=> AllReady(t))

PassInv(t) ==
    /\ tun[t].live /\ pass.targets = tun[t].targets
    /\ pass.fresh /\ ~pass.gone
    /\ ~pass.failed => Knows(t)

AtRest(t) == tun[t].live => Converged(t) /\ (~StatusFaults => Honest(t))

Running(t) == pass.pc # "idle" /\ pass.t = t

TunnelInv ==
    /\ TypeOK
    /\ \A t \in Tunnels \ queue : IF Running(t) THEN PassInv(t) ELSE AtRest(t)

-----------------------------------------------------------------------------
(* Types *)

LEMMA Values ==
    /\ Idle \in Pass /\ Idle.pc = "idle" /\ ~Idle.failed
    /\ AbsentTunnel \in TunnelObject /\ ~AbsentTunnel.live
    /\ NoDeployment \in Deployment /\ NoDeployment.owner = "none"
BY DEF Idle, Pass, AbsentTunnel, TunnelObject, Conditions, NoDeployment,
   Deployment

(* A write of one Deployment: a change queues the tunnel.                  *)
LEMMA OneDeployment ==
    ASSUME TypeOK, NEW t \in Tunnels, NEW n \in Names, NEW d \in Deployment,
           SetDeployment(t, n, d)
    PROVE  /\ dep' \in [Tunnels -> [Names -> Deployment]]
           /\ queue \subseteq queue' /\ queue' \subseteq Tunnels
           /\ \A u \in Tunnels \ queue' : dep'[u] = dep[u]
           /\ t \notin queue' => d = dep[t][n]
<1>1. dep' = [dep EXCEPT ![t][n] = d]
  BY DEF SetDeployment
<1>2. dep \in [Tunnels -> [Names -> Deployment]] /\ queue \subseteq Tunnels
  BY DEF TypeOK
<1>3. /\ queue \subseteq queue' /\ queue' \subseteq Tunnels
      /\ t \notin queue' => d = dep[t][n]
  BY <1>2 DEF SetDeployment, DeploymentOwners
<1>4. dep' \in [Tunnels -> [Names -> Deployment]]
  BY <1>1, <1>2
<1>5. ASSUME NEW u \in Tunnels \ queue' PROVE dep'[u] = dep[u]
  <2>1. CASE u # t
    BY <1>1, <1>2, <2>1
  <2>2. CASE u = t
    <3>1. d = dep[t][n]
      BY <1>3, <2>2
    <3>2. dep' [t] = [dep[t] EXCEPT ![n] = dep[t][n]]
      BY <1>1, <1>2, <3>1
    <3>3. dep[t] \in [Names -> Deployment]
      BY <1>2
    <3>4. QED
      BY <2>2, <3>2, <3>3
  <2>3. QED
    BY <2>1, <2>2
<1>6. QED
  BY <1>3, <1>4, <1>5

-----------------------------------------------------------------------------
(* Frames *)

(* What the invariant says of t depends on its servers, its object and its *)
(* Deployments alone.                                                      *)
LEMMA SameTunnel ==
    ASSUME NEW t \in Tunnels, tun'[t] = tun[t], dep'[t] = dep[t],
           \A s \in Servers : Concerns(s, t) => srv'[s] = srv[s]
    PROVE  /\ Desired(t)' = Desired(t)
           /\ \A R : Looked(t, R)' = Looked(t, R)
           /\ Lookups(t)' = Lookups(t)
           /\ Existing(t)' = Existing(t)
           /\ AllReady(t)' <=> AllReady(t)
           /\ \A f : InPlace(t, f)' <=> InPlace(t, f)
           /\ Converged(t)' <=> Converged(t)
           /\ Honest(t)' <=> Honest(t)
<1>1. /\ Targets(t)' = Targets(t)
      /\ \A s \in Targets(t) : s \in Servers /\ srv'[s] = srv[s]
  BY DEF Targets, Concerns
<1>2. Desired(t)' = Desired(t)
  BY <1>1 DEF Desired
<1>3. ASSUME NEW R PROVE Looked(t, R)' = Looked(t, R)
  <2>1. \A s : Lookup(s, t)' = Lookup(s, t)
    BY DEF Lookup
  <2>2. QED
    BY <1>1, <2>1 DEF Looked
<1>4. Existing(t)' = Existing(t)
  BY DEF Existing
<1>5. AllReady(t)' <=> AllReady(t)
  BY <1>4 DEF AllReady
<1>6. \A f : InPlace(t, f)' <=> InPlace(t, f)
  BY DEF InPlace
<1>7. Converged(t)' <=> Converged(t)
  BY <1>2, <1>4, <1>6 DEF Converged
<1>8. Honest(t)' <=> Honest(t)
  BY <1>5 DEF Honest
<1>9. Lookups(t)' = Lookups(t)
  BY DEF Lookups
<1>10. QED
  BY <1>2, <1>3, <1>4, <1>5, <1>6, <1>7, <1>8, <1>9

(* Steps of others, and of a pass for the tunnels it is not about.         *)
Untouched(t) ==
    /\ tun'[t] = tun[t] /\ dep'[t] = dep[t]
    /\ \A s \in Servers : Concerns(s, t) => srv'[s] = srv[s]

LEMMA RestKept ==
    ASSUME NEW t \in Tunnels, AtRest(t), tun[t].live => Untouched(t),
           tun'[t].live => tun[t].live
    PROVE  AtRest(t)'
<1> SUFFICES ASSUME tun'[t].live
             PROVE  Converged(t)' /\ (~StatusFaults => Honest(t)')
  BY DEF AtRest
<1>1. Untouched(t) /\ Converged(t) /\ (~StatusFaults => Honest(t))
  BY DEF AtRest
<1>2. QED
  BY <1>1, SameTunnel DEF Untouched

LEMMA PassKept ==
    ASSUME NEW t \in Tunnels, PassInv(t), Untouched(t), pass' = pass
    PROVE  PassInv(t)'
<1>1. ASSUME Knows(t) PROVE Knows(t)'
  BY <1>1, SameTunnel DEF Untouched, Knows
<1>2. QED
  BY <1>1 DEF PassInv, Untouched

LEMMA OthersKeep ==
    ASSUME TunnelInv, TypeOK', queue \subseteq queue',
           \A t \in Tunnels \ queue' :
              (tun[t].live => Untouched(t)) /\ (tun'[t].live => tun[t].live),
           pass'.pc = pass.pc, pass'.t = pass.t,
           pass.t \notin queue' => pass' = pass
    PROVE  TunnelInv'
<1> SUFFICES ASSUME NEW t \in Tunnels, t \notin queue'
             PROVE  IF Running(t)' THEN PassInv(t)' ELSE AtRest(t)'
  BY DEF TunnelInv
<1>1. /\ t \notin queue
      /\ IF Running(t) THEN PassInv(t) ELSE AtRest(t)
  BY DEF TunnelInv
<1>2. Running(t)' <=> Running(t)
  BY DEF Running
<1>3. CASE Running(t)
  <2>1. pass' = pass /\ PassInv(t) /\ Untouched(t)
    BY <1>1, <1>3 DEF Running, PassInv
  <2>2. PassInv(t)'
    BY <2>1, PassKept
  <2>3. QED
    BY <1>2, <1>3, <2>2
<1>4. CASE ~Running(t)
  <2>1. AtRest(t)'
    BY <1>1, <1>4, RestKept
  <2>2. QED
    BY <1>2, <1>4, <2>1
<1>5. QED
  BY <1>3, <1>4

(* A step within a pass: it changes nothing of a tunnel it does not queue, *)
(* and what it knows of its own is to be shown.                            *)
LEMMA WithinPass ==
    ASSUME TunnelInv, TypeOK', queue \subseteq queue', tun' = tun, srv' = srv,
           \A t \in Tunnels \ queue' : dep'[t] = dep[t],
           pass.pc # "idle", pass'.pc # "idle", pass'.t = pass.t,
           \A t \in Tunnels \ queue' : pass.t = t => PassInv(t)'
    PROVE  TunnelInv'
<1> SUFFICES ASSUME NEW t \in Tunnels, t \notin queue'
             PROVE  IF Running(t)' THEN PassInv(t)' ELSE AtRest(t)'
  BY DEF TunnelInv
<1>1. /\ t \notin queue
      /\ IF Running(t) THEN PassInv(t) ELSE AtRest(t)
  BY DEF TunnelInv
<1>2. Running(t)' <=> pass.t = t
  BY DEF Running
<1>3. CASE pass.t = t
  BY <1>2, <1>3
<1>4. CASE pass.t # t
  <2>1. AtRest(t) /\ Untouched(t)
    BY <1>1, <1>4 DEF Running, Untouched
  <2>2. AtRest(t)'
    BY <2>1, RestKept
  <2>3. QED
    BY <1>2, <1>4, <2>2
<1>5. QED
  BY <1>3, <1>4

(* The end of a pass.                                                      *)
LEMMA PassEnds ==
    ASSUME TunnelInv, TypeOK', queue \subseteq queue', srv' = srv, dep' = dep,
           \A t \in Tunnels \ {pass.t} : tun'[t] = tun[t],
           pass.pc # "idle", pass' = Idle,
           \A t \in Tunnels \ queue' : pass.t = t => AtRest(t)'
    PROVE  TunnelInv'
<1> SUFFICES ASSUME NEW t \in Tunnels, t \notin queue'
             PROVE  IF Running(t)' THEN PassInv(t)' ELSE AtRest(t)'
  BY DEF TunnelInv
<1>1. /\ t \notin queue
      /\ IF Running(t) THEN PassInv(t) ELSE AtRest(t)
  BY DEF TunnelInv
<1>2. ~Running(t)'
  <2>1. pass'.pc = "idle"
    BY Values
  <2>2. QED
    BY <2>1 DEF Running
<1>3. CASE pass.t = t
  BY <1>2, <1>3
<1>4. CASE pass.t # t
  <2>1. AtRest(t) /\ Untouched(t)
    BY <1>1, <1>4 DEF Running, Untouched
  <2>2. AtRest(t)'
    BY <2>1, RestKept DEF Untouched
  <2>3. QED
    BY <1>2, <2>2
<1>5. QED
  BY <1>3, <1>4

-----------------------------------------------------------------------------
(* Reconcile *)

LEMMA TakeKeeps ==
    ASSUME TunnelInv, NEW t \in Tunnels, Take(t)
    PROVE  TunnelInv'
<1>a. /\ tun \in [Tunnels -> TunnelObject] /\ tun[t] \in TunnelObject
      /\ tun[t].targets \subseteq Names /\ queue \subseteq Tunnels
      /\ pass.pc = "idle" /\ TypeOK
  BY DEF TunnelInv, TypeOK, TunnelObject, Take
<1>b. tun' = tun /\ srv' = srv /\ dep' = dep /\ queue' = queue \ {t}
  BY DEF Take
<1>1. ASSUME NEW u \in Tunnels, u # t, u \notin queue' PROVE AtRest(u)'
  <2>1. AtRest(u) /\ Untouched(u)
    BY <1>a, <1>b, <1>1 DEF TunnelInv, Running, Untouched
  <2>2. QED
    BY <1>b, <2>1, RestKept
<1>2. CASE ~tun[t].live
  <2>1. pass' = Idle
    BY <1>2 DEF Take
  <2>2. TypeOK'
    BY <1>a, <1>b, <2>1, Values DEF TypeOK
  <2>3. AtRest(t)'
    BY <1>2, <1>b DEF AtRest
  <2>4. QED
    BY <1>1, <2>1, <2>2, <2>3, Values DEF TunnelInv, Running
<1>3. CASE tun[t].live
  <2>a. Lookups(t) \subseteq Namespaces \cup Names
    <3>1. TunnelNs[t] \in Namespaces /\ System \in Namespaces
      BY TunnelAssumption
    <3>2. QED
      BY <1>a, <3>1 DEF Lookups
  <2>1. PICK R \in SUBSET (Namespaces \cup Names) : R = Lookups(t)
    BY <2>a
  <2>2. pass' = [Idle EXCEPT !.pc = "resolve", !.t = t,
                             !.targets = tun[t].targets, !.reads = R]
    BY <1>3, <2>1 DEF Take, Lookups
  <2>3. /\ pass' \in Pass /\ pass'.pc = "resolve" /\ pass'.t = t
        /\ pass'.targets = tun[t].targets /\ pass'.reads = R
        /\ pass'.fresh /\ ~pass'.gone /\ pass'.found = {}
        /\ pass'.expected = {}
    BY <1>a, <2>1, <2>2 DEF Idle, Pass, Conditions
  <2>4. TypeOK'
    BY <1>a, <1>b, <2>3 DEF TypeOK
  <2>5. Looked(t, R) = {}
    BY <2>1 DEF Looked, Lookup, Lookups, Targets
  <2>6. Looked(t, R)' = {} /\ Lookups(t)' = R
    BY <1>b, <2>1, <2>5, SameTunnel
  <2>7. PassInv(t)'
    BY <1>3, <1>b, <2>3, <2>6 DEF PassInv, Knows
  <2>8. \A u \in Tunnels : Running(u)' <=> u = t
    BY <2>3 DEF Running
  <2>9. QED
    BY <1>1, <2>4, <2>7, <2>8 DEF TunnelInv
<1>4. QED
  BY <1>2, <1>3

LEMMA ResolveKeeps ==
    ASSUME TunnelInv, NEW x, Resolve(x)
    PROVE  TunnelInv'
<1>a. /\ pass \in Pass /\ pass.pc = "resolve" /\ x \in pass.reads
      /\ pass.t \in Tunnels /\ TypeOK /\ srv \in [Servers -> Conns \cup {NoOne}]
      /\ pass.found \subseteq Names \X Conns
      /\ pass.reads \subseteq Namespaces \cup Names
      /\ queue \subseteq Tunnels
  BY DEF TunnelInv, TypeOK, Resolve, Pass
<1>b. UNCHANGED <<tun, srv, dep, queue>>
  BY DEF Resolve
<1>1. {<<ServerName[s], srv[s]>> : s \in Found(x)} \subseteq Names \X Conns
  BY <1>a, TunnelAssumption DEF Found
<1>2. PICK F \in SUBSET (Names \X Conns) :
          F = pass.found \cup {<<ServerName[s], srv[s]>> : s \in Found(x)}
  BY <1>a, <1>1
<1>3. PICK R \in SUBSET (Namespaces \cup Names) : R = pass.reads \ {x}
  BY <1>a
<1>4. PICK pc \in {"resolve", "upsert"} :
          pc = IF pass.reads = {x} THEN "upsert" ELSE pass.pc
  BY <1>a
<1>5. pass' = [pass EXCEPT !.pc = pc, !.reads = R, !.found = F]
  BY <1>2, <1>3, <1>4 DEF Resolve
<1>6. /\ pass' \in Pass /\ pass'.pc = pc /\ pass'.reads = R /\ pass'.found = F
      /\ pass'.t = pass.t /\ pass'.targets = pass.targets
      /\ pass'.fresh = pass.fresh /\ pass'.gone = pass.gone
      /\ pass'.failed = pass.failed /\ pass'.expected = pass.expected
  BY <1>a, <1>5 DEF Pass
<1>7. TypeOK'
  BY <1>a, <1>b, <1>6 DEF TypeOK
<1>8. ASSUME NEW t \in Tunnels, t = pass.t, t \notin queue' PROVE PassInv(t)'
  <2>1. PassInv(t)
    BY <1>a, <1>b, <1>8 DEF TunnelInv, Running
  <2>2. /\ Desired(t)' = Desired(t) /\ \A S : Looked(t, S)' = Looked(t, S)
        /\ Lookups(t)' = Lookups(t)
    BY <1>b, SameTunnel
  <2>3. ASSUME ~pass.failed PROVE Knows(t)'
    <3>1. /\ pass.found = Looked(t, pass.reads) /\ pass.expected = {}
          /\ pass.reads \subseteq Lookups(t) /\ pass.targets = tun[t].targets
      BY <1>a, <2>1, <2>3 DEF PassInv, Knows
    <3>2. {s \in Targets(t) : Lookup(s, t) \notin R} =
            {s \in Targets(t) : Lookup(s, t) \notin pass.reads} \cup Found(x)
      <4>1. ASSUME NEW s \in Servers
            PROVE  s \in Found(x) <=> s \in Targets(t) /\ Lookup(s, t) = x
        <5>1. CASE tun[t].targets = {}
          BY <1>a, <1>8, <3>1, <5>1 DEF Found, Targets, Lookup, Lookups
        <5>2. CASE tun[t].targets # {}
          BY <1>a, <1>8, <3>1, <5>2 DEF Found, Targets, Lookup, Lookups, pt
        <5>3. QED
          BY <5>1, <5>2
      <4>2. Targets(t) \subseteq Servers /\ Found(x) \subseteq Servers
        BY DEF Targets, Found
      <4>3. QED
        BY <1>a, <1>3, <4>1, <4>2
    <3>3. F = Looked(t, R)
      BY <1>2, <3>1, <3>2 DEF Looked
    <3>4. R = {} => Looked(t, R) = Desired(t)
      BY DEF Looked, Desired
    <3>5. pc = "upsert" => R = {}
      BY <1>a, <1>3, <1>4
    <3>6. R \subseteq Lookups(t)
      BY <1>3, <3>1
    <3>7. QED
      BY <1>6, <2>2, <3>1, <3>3, <3>4, <3>5, <3>6 DEF Knows
  <2>4. QED
    BY <1>b, <1>6, <2>1, <2>3 DEF PassInv
<1>9. QED
  BY <1>a, <1>b, <1>6, <1>7, <1>8, WithinPass

LEMMA UpsertKeeps ==
    ASSUME TunnelInv, NEW f \in Names \X Conns, Upsert(f)
    PROVE  TunnelInv'
<1>a. /\ pass \in Pass /\ pass.pc = "upsert" /\ f \in pass.found
      /\ TypeOK /\ queue \subseteq Tunnels
      /\ dep \in [Tunnels -> [Names -> Deployment]]
      /\ pass.found \subseteq Names \X Conns /\ pass.expected \subseteq Names
      /\ f[1] \in Names /\ f[2] \in Conns
  BY DEF TunnelInv, TypeOK, Upsert, Pass
<1>b. UNCHANGED <<tun, srv>>
  BY DEF Upsert
<1>c. PICK t \in Tunnels : t = pass.t
  BY <1>a DEF TypeOK
<1>d. dep[t][f[1]] \in Deployment
  BY <1>a
<1>1. CASE pass' = [pass EXCEPT !.pc = "status", !.failed = TRUE]
           /\ UNCHANGED <<dep, queue>>
  <2>1. /\ pass' \in Pass /\ pass'.pc = "status" /\ pass'.failed
        /\ pass'.t = pass.t /\ pass'.targets = pass.targets
        /\ pass'.fresh = pass.fresh /\ pass'.gone = pass.gone
    BY <1>a, <1>1 DEF Pass
  <2>2. TypeOK'
    BY <1>a, <1>b, <1>c, <1>1, <2>1 DEF TypeOK
  <2>3. ASSUME t \notin queue' PROVE PassInv(t)'
    <3>1. PassInv(t)
      BY <1>a, <1>c, <1>1, <2>3 DEF TunnelInv, Running
    <3>2. QED
      BY <1>b, <2>1, <3>1 DEF PassInv
  <2>4. QED
    BY <1>a, <1>b, <1>c, <1>1, <2>1, <2>2, <2>3, WithinPass
<1>2. CASE /\ dep[t][f[1]].owner \in {"none", Me}
           /\ SetDeployment(t, f[1], [dep[t][f[1]] EXCEPT !.owner = Me,
                                                          !.conn = f[2]])
           /\ pass' = [pass EXCEPT !.found = @ \ {f},
                                   !.expected = @ \cup {f[1]}]
  <2>1. PICK d : d = [dep[t][f[1]] EXCEPT !.owner = Me, !.conn = f[2]]
    OBVIOUS
  <2>2. d \in Deployment /\ d.owner = Me /\ d.conn = f[2]
    BY <1>a, <1>d, <2>1 DEF Deployment, Me
  <2>3. SetDeployment(t, f[1], d)
    BY <1>2, <2>1
  <2>4. /\ dep' \in [Tunnels -> [Names -> Deployment]]
        /\ queue \subseteq queue' /\ queue' \subseteq Tunnels
        /\ \A u \in Tunnels \ queue' : dep'[u] = dep[u]
        /\ t \notin queue' => d = dep[t][f[1]]
    BY <1>a, <2>2, <2>3, OneDeployment
  <2>5. PICK F \in SUBSET (Names \X Conns) : F = pass.found \ {f}
    BY <1>a
  <2>6. PICK X \in SUBSET Names : X = pass.expected \cup {f[1]}
    BY <1>a
  <2>7. pass' = [pass EXCEPT !.found = F, !.expected = X]
    BY <1>2, <2>5, <2>6
  <2>8. /\ pass' \in Pass /\ pass'.pc = "upsert"
        /\ pass'.found = F /\ pass'.expected = X
        /\ pass'.t = pass.t /\ pass'.targets = pass.targets
        /\ pass'.fresh = pass.fresh /\ pass'.gone = pass.gone
        /\ pass'.failed = pass.failed
    BY <1>a, <2>7 DEF Pass
  <2>9. TypeOK'
    BY <1>a, <1>b, <1>c, <2>4, <2>8 DEF TypeOK
  <2>10. ASSUME t \notin queue' PROVE PassInv(t)'
    <3>1. PassInv(t) /\ dep'[t] = dep[t] /\ d = dep[t][f[1]]
      BY <1>a, <1>c, <2>4, <2>10 DEF TunnelInv, Running
    <3>2. Desired(t)' = Desired(t) /\ \A g : InPlace(t, g)' <=> InPlace(t, g)
      BY <1>b, <3>1, SameTunnel
    <3>3. Me = "current"
      BY <3>1 DEF PassInv, Me
    <3>4. InPlace(t, f)
      BY <2>2, <3>1, <3>3 DEF InPlace
    <3>5. ASSUME ~pass.failed PROVE Knows(t)'
      <4>1. /\ pass.found \subseteq Desired(t)
            /\ \A g \in Desired(t) \ pass.found :
                  InPlace(t, g) /\ g[1] \in pass.expected
            /\ \A n \in pass.expected :
                  \E g \in Desired(t) \ pass.found : g[1] = n
        BY <1>a, <3>1, <3>5 DEF PassInv, Knows
      <4>2. \A g \in Desired(t) \ F : InPlace(t, g) /\ g[1] \in X
        BY <2>5, <2>6, <3>4, <4>1
      <4>3. \A n \in X : \E g \in Desired(t) \ F : g[1] = n
        BY <1>a, <2>5, <2>6, <4>1
      <4>4. F \subseteq Desired(t)
        BY <2>5, <4>1
      <4>5. QED
        BY <2>8, <3>2, <4>2, <4>3, <4>4 DEF Knows
    <3>6. QED
      BY <1>b, <2>8, <3>1, <3>5 DEF PassInv
  <2>11. QED
    BY <1>a, <1>b, <1>c, <2>4, <2>8, <2>9, <2>10, WithinPass
<1>3. QED
  BY <1>1, <1>2, <1>c DEF Upsert, pt

LEMMA ListObsoleteKeeps ==
    ASSUME TunnelInv, ListObsolete
    PROVE  TunnelInv'
<1>a. /\ pass \in Pass /\ pass.pc = "upsert" /\ pass.found = {}
      /\ TypeOK /\ queue \subseteq Tunnels
      /\ pass.expected \subseteq Names
  BY DEF TunnelInv, TypeOK, ListObsolete, Pass
<1>b. UNCHANGED <<tun, srv, dep, queue>>
  BY DEF ListObsolete
<1>c. PICK t \in Tunnels : t = pass.t
  BY <1>a DEF TypeOK
<1>1. PICK O \in SUBSET Names : O = Existing(t) \ pass.expected
  BY DEF Existing
<1>2. pass' = [pass EXCEPT !.pc = "prune", !.obsolete = O]
  BY <1>c, <1>1 DEF ListObsolete, pt
<1>3. /\ pass' \in Pass /\ pass'.pc = "prune" /\ pass'.obsolete = O
      /\ pass'.t = pass.t /\ pass'.targets = pass.targets
      /\ pass'.fresh = pass.fresh /\ pass'.gone = pass.gone
      /\ pass'.failed = pass.failed
  BY <1>a, <1>2 DEF Pass
<1>4. TypeOK'
  BY <1>a, <1>b, <1>c, <1>3 DEF TypeOK
<1>5. ASSUME t \notin queue' PROVE PassInv(t)'
  <2>1. PassInv(t)
    BY <1>a, <1>b, <1>c, <1>5 DEF TunnelInv, Running
  <2>2. /\ Desired(t)' = Desired(t) /\ Existing(t)' = Existing(t)
        /\ \A g : InPlace(t, g)' <=> InPlace(t, g)
    BY <1>b, SameTunnel
  <2>3. ASSUME ~pass.failed PROVE Knows(t)'
    <3>1. /\ \A g \in Desired(t) : InPlace(t, g)
          /\ \A n \in pass.expected : \E g \in Desired(t) : g[1] = n
      BY <1>a, <2>1, <2>3 DEF PassInv, Knows
    <3>2. QED
      BY <1>1, <1>3, <2>2, <3>1 DEF Knows
  <2>4. QED
    BY <1>b, <1>3, <2>1, <2>3 DEF PassInv
<1>6. QED
  BY <1>a, <1>b, <1>c, <1>3, <1>4, <1>5, WithinPass

LEMMA PruneKeeps ==
    ASSUME TunnelInv, NEW n \in Names, Prune(n)
    PROVE  TunnelInv'
<1>a. /\ pass \in Pass /\ pass.pc = "prune" /\ n \in pass.obsolete
      /\ TypeOK /\ queue \subseteq Tunnels
      /\ dep \in [Tunnels -> [Names -> Deployment]]
      /\ pass.obsolete \subseteq Names
  BY DEF TunnelInv, TypeOK, Prune, Pass
<1>b. UNCHANGED <<tun, srv>>
  BY DEF Prune
<1>c. PICK t \in Tunnels : t = pass.t
  BY <1>a DEF TypeOK
<1>1. CASE pass' = [pass EXCEPT !.pc = "status", !.failed = TRUE]
           /\ UNCHANGED <<dep, queue>>
  <2>1. /\ pass' \in Pass /\ pass'.pc = "status" /\ pass'.failed
        /\ pass'.t = pass.t /\ pass'.targets = pass.targets
        /\ pass'.fresh = pass.fresh /\ pass'.gone = pass.gone
    BY <1>a, <1>1 DEF Pass
  <2>2. TypeOK'
    BY <1>a, <1>b, <1>c, <1>1, <2>1 DEF TypeOK
  <2>3. ASSUME t \notin queue' PROVE PassInv(t)'
    <3>1. PassInv(t)
      BY <1>a, <1>c, <1>1, <2>3 DEF TunnelInv, Running
    <3>2. QED
      BY <1>b, <2>1, <3>1 DEF PassInv
  <2>4. QED
    BY <1>a, <1>b, <1>c, <1>1, <2>1, <2>2, <2>3, WithinPass
<1>2. CASE /\ n \in Existing(t)
           /\ SetDeployment(t, n, NoDeployment)
           /\ pass' = [pass EXCEPT !.obsolete = @ \ {n}]
  <2>1. /\ dep' \in [Tunnels -> [Names -> Deployment]]
        /\ queue \subseteq queue' /\ queue' \subseteq Tunnels
        /\ \A u \in Tunnels \ queue' : dep'[u] = dep[u]
        /\ t \notin queue' => NoDeployment = dep[t][n]
    BY <1>a, <1>2, Values, OneDeployment
  <2>2. t \in queue'
    BY <1>2, <2>1, Values DEF Existing
  <2>3. PICK O \in SUBSET Names : O = pass.obsolete \ {n}
    BY <1>a
  <2>4. pass' = [pass EXCEPT !.obsolete = O]
    BY <1>2, <2>3
  <2>5. pass' \in Pass /\ pass'.pc = "prune" /\ pass'.t = pass.t
    BY <1>a, <2>4 DEF Pass
  <2>6. TypeOK'
    BY <1>a, <1>b, <1>c, <2>1, <2>5 DEF TypeOK
  <2>7. QED
    BY <1>a, <1>b, <1>c, <2>1, <2>2, <2>5, <2>6, WithinPass
<1>3. QED
  BY <1>1, <1>2, <1>c DEF Prune, pt

LEMMA CallFailsKeeps ==
    ASSUME TunnelInv, CallFails
    PROVE  TunnelInv'
<1>a. /\ pass \in Pass /\ pass.pc \in {"resolve", "upsert", "prune"}
      /\ TypeOK /\ queue \subseteq Tunnels
  BY DEF TunnelInv, TypeOK, CallFails
<1>b. UNCHANGED <<tun, srv, dep, queue>>
  BY DEF CallFails
<1>c. PICK t \in Tunnels : t = pass.t
  BY <1>a DEF TypeOK
<1>1. /\ pass' \in Pass /\ pass'.pc = "status" /\ pass'.failed
      /\ pass'.t = pass.t /\ pass'.targets = pass.targets
      /\ pass'.fresh = pass.fresh /\ pass'.gone = pass.gone
  BY <1>a DEF Pass, CallFails
<1>2. TypeOK'
  BY <1>a, <1>b, <1>c, <1>1 DEF TypeOK
<1>3. ASSUME t \notin queue' PROVE PassInv(t)'
  <2>1. PassInv(t)
    BY <1>a, <1>b, <1>c, <1>3 DEF TunnelInv, Running
  <2>2. QED
    BY <1>b, <1>1, <2>1 DEF PassInv
<1>4. QED
  BY <1>a, <1>b, <1>c, <1>1, <1>2, <1>3, WithinPass

LEMMA ReadStatusKeeps ==
    ASSUME TunnelInv, ReadStatus
    PROVE  TunnelInv'
<1>a. /\ pass \in Pass /\ pass.pc \in {"prune", "status"}
      /\ pass.pc = "prune" => pass.obsolete = {}
      /\ TypeOK /\ queue \subseteq Tunnels
  BY DEF TunnelInv, TypeOK, ReadStatus
<1>b. UNCHANGED <<tun, srv, dep, queue>>
  BY DEF ReadStatus
<1>c. PICK t \in Tunnels : t = pass.t
  BY <1>a DEF TypeOK
<1>1. PICK c \in Conditions :
          c = IF pass.failed THEN "error"
              ELSE IF AllReady(t) THEN "true" ELSE "waiting"
  BY DEF Conditions
<1>2. pass' = [pass EXCEPT !.pc = "write", !.cond = c]
  BY <1>c, <1>1 DEF ReadStatus, pt
<1>3. /\ pass' \in Pass /\ pass'.pc = "write" /\ pass'.cond = c
      /\ pass'.t = pass.t /\ pass'.targets = pass.targets
      /\ pass'.fresh = pass.fresh /\ pass'.gone = pass.gone
      /\ pass'.failed = pass.failed
  BY <1>a, <1>2 DEF Pass
<1>4. TypeOK'
  BY <1>a, <1>b, <1>c, <1>3 DEF TypeOK
<1>5. ASSUME t \notin queue' PROVE PassInv(t)'
  <2>1. PassInv(t)
    BY <1>a, <1>b, <1>c, <1>5 DEF TunnelInv, Running
  <2>2. /\ Converged(t)' <=> Converged(t)
        /\ AllReady(t)' <=> AllReady(t)
    BY <1>b, SameTunnel
  <2>3. ASSUME ~pass.failed PROVE Knows(t)'
    <3>1. Converged(t)
      BY <1>a, <2>1, <2>3 DEF PassInv, Knows, Converged
    <3>2. c = "true" <=> AllReady(t)
      BY <1>1, <2>3
    <3>3. QED
      BY <1>3, <2>2, <3>1, <3>2 DEF Knows
  <2>4. QED
    BY <1>b, <1>3, <2>1, <2>3 DEF PassInv
<1>6. QED
  BY <1>a, <1>b, <1>c, <1>3, <1>4, <1>5, WithinPass

(* The last write of a pass: a status that is as it should be already, or  *)
(* an event.                                                               *)
LEMMA WriteStatusKeeps ==
    ASSUME TunnelInv, WriteStatus
    PROVE  TunnelInv'
<1>a. /\ pass \in Pass /\ pass.pc = "write" /\ pass.cond \in Conditions
      /\ TypeOK /\ queue \subseteq Tunnels
      /\ tun \in [Tunnels -> TunnelObject]
  BY DEF TunnelInv, TypeOK, WriteStatus, Pass
<1>b. UNCHANGED <<srv, dep>> /\ pass' = Idle
  BY DEF WriteStatus
<1>c. PICK t \in Tunnels : t = pass.t
  BY <1>a DEF TypeOK
<1>1. /\ tun' \in [Tunnels -> TunnelObject]
      /\ \A u \in Tunnels \ {t} : tun'[u] = tun[u]
      /\ pass.fresh => tun'[t].cond = pass.cond
  <2>1. tun[t] \in TunnelObject
    BY <1>a
  <2>2. PICK v : v = [tun[t] EXCEPT !.cond = pass.cond]
    OBVIOUS
  <2>3. v \in TunnelObject /\ v.cond = pass.cond
    BY <1>a, <2>1, <2>2 DEF TunnelObject
  <2>4. tun' = IF pass.fresh THEN [tun EXCEPT ![t] = v] ELSE tun
    BY <1>c, <2>2 DEF WriteStatus, pt
  <2>5. QED
    BY <1>a, <2>3, <2>4
<1>2. /\ queue \subseteq queue' /\ queue' \subseteq Tunnels
      /\ t \notin queue' => ~pass.failed /\ tun' = tun
  BY <1>a, <1>c DEF WriteStatus, Requeued, pt
<1>3. TypeOK'
  BY <1>a, <1>b, <1>1, <1>2, Values DEF TypeOK
<1>4. ASSUME t \notin queue' PROVE AtRest(t)'
  <2>1. PassInv(t) /\ ~pass.failed /\ tun' = tun
    BY <1>a, <1>c, <1>2, <1>4 DEF TunnelInv, Running
  <2>2. /\ Converged(t) /\ (pass.cond = "true" <=> AllReady(t))
        /\ pass.fresh
    BY <1>a, <2>1 DEF PassInv, Knows
  <2>3. Honest(t)
    BY <1>1, <2>1, <2>2 DEF Honest
  <2>4. Converged(t)' /\ Honest(t)'
    BY <1>b, <2>1, <2>2, <2>3, SameTunnel
  <2>5. QED
    BY <2>4 DEF AtRest
<1>5. QED
  BY <1>a, <1>b, <1>c, <1>1, <1>2, <1>3, <1>4, PassEnds

LEMMA StatusFailsKeeps ==
    ASSUME TunnelInv, StatusFails
    PROVE  TunnelInv'
<1>a. /\ pass \in Pass /\ pass.pc \in {"status", "write"}
      /\ pass.failed \/ StatusFaults
      /\ TypeOK /\ queue \subseteq Tunnels
  BY DEF TunnelInv, TypeOK, StatusFails
<1>b. UNCHANGED <<tun, srv, dep>> /\ pass' = Idle
  BY DEF StatusFails
<1>c. PICK t \in Tunnels : t = pass.t
  BY <1>a DEF TypeOK
<1>2. /\ queue \subseteq queue' /\ queue' \subseteq Tunnels
      /\ t \notin queue' => ~pass.failed
  BY <1>a, <1>c DEF StatusFails, Requeued, pt
<1>3. TypeOK'
  BY <1>a, <1>b, <1>2, Values DEF TypeOK
<1>4. ASSUME t \notin queue' PROVE AtRest(t)'
  <2>1. PassInv(t) /\ ~pass.failed /\ StatusFaults
    BY <1>a, <1>c, <1>2, <1>4 DEF TunnelInv, Running
  <2>2. Converged(t)
    BY <1>a, <2>1 DEF PassInv, Knows
  <2>3. Converged(t)'
    BY <1>b, <2>2, SameTunnel
  <2>4. QED
    BY <2>1, <2>3 DEF AtRest
<1>5. QED
  BY <1>a, <1>b, <1>c, <1>2, <1>3, <1>4, PassEnds

LEMMA RestartKeeps ==
    ASSUME TunnelInv, Restart
    PROVE  TunnelInv'
<1>1. /\ pass' = Idle /\ queue' = {t \in Tunnels : tun[t].live}
      /\ UNCHANGED <<tun, srv, dep>>
  BY DEF Restart
<1>2. TypeOK'
  BY <1>1, Values DEF TunnelInv, TypeOK
<1>3. \A t \in Tunnels \ queue' : AtRest(t)' /\ ~Running(t)'
  BY <1>1, Values DEF AtRest, Running
<1>4. QED
  BY <1>2, <1>3 DEF TunnelInv

-----------------------------------------------------------------------------
(* Users, the other controllers and the cluster *)

(* A Deployment changes under the controller: an event for its tunnel.     *)
LEMMA DeploymentKeeps ==
    ASSUME TunnelInv, NEW t \in Tunnels, NEW n \in Names, NEW d \in Deployment,
           SetDeployment(t, n, d), UNCHANGED <<tun, srv, pass>>
    PROVE  TunnelInv'
<1>1. /\ dep' \in [Tunnels -> [Names -> Deployment]]
      /\ queue \subseteq queue' /\ queue' \subseteq Tunnels
      /\ \A u \in Tunnels \ queue' : dep'[u] = dep[u]
  BY OneDeployment DEF TunnelInv
<1>2. TypeOK'
  BY <1>1 DEF TunnelInv, TypeOK
<1>3. \A u \in Tunnels \ queue' : Untouched(u)
  BY <1>1 DEF Untouched
<1>4. QED
  BY <1>1, <1>2, <1>3, OthersKeep

(* The WeftTunnel itself is created, edited or deleted: an event, and the  *)
(* copy of a pass under way is stale.                                      *)
LEMMA TunnelChangeKeeps ==
    ASSUME TunnelInv, NEW t \in Tunnels, NEW v \in TunnelObject,
           tun' = [tun EXCEPT ![t] = v], srv' = srv,
           dep' \in [Tunnels -> [Names -> Deployment]],
           \A u \in Tunnels \ {t} : dep'[u] = dep[u],
           queue' = queue \cup {t}, pass' \in Pass,
           pass'.pc = pass.pc, pass'.t = pass.t, pass.t # t => pass' = pass
    PROVE  TunnelInv'
<1>1. /\ tun \in [Tunnels -> TunnelObject] /\ queue \subseteq Tunnels
      /\ \A u \in Tunnels \ {t} : tun'[u] = tun[u]
  BY DEF TunnelInv, TypeOK
<1>2. TypeOK'
  BY <1>1 DEF TunnelInv, TypeOK
<1>3. \A u \in Tunnels \ queue' : Untouched(u)
  BY <1>1 DEF Untouched
<1>4. QED
  BY <1>1, <1>2, <1>3, OthersKeep DEF Untouched

(* Outdated and DeleteTunnel's mark on the pass.                           *)
LEMMA OutdatedShape ==
    ASSUME pass \in Pass, NEW t \in Tunnels,
           \/ pass' = pass
           \/ pass' = Outdated(t)
           \/ pass' = [Outdated(t) EXCEPT !.gone = @ \/ pt = t]
    PROVE  /\ pass' \in Pass /\ pass'.pc = pass.pc /\ pass'.t = pass.t
           /\ pass.t # t => pass' = pass
<1>1. PICK fr \in BOOLEAN : fr = (pass.fresh /\ pt # t)
  BY DEF Pass
<1>2. PICK go \in BOOLEAN : go = (pass.gone \/ pt = t)
  BY DEF Pass
<1>3. PICK o : o = [pass EXCEPT !.fresh = fr]
  OBVIOUS
<1>4. /\ o \in Pass /\ o.pc = pass.pc /\ o.t = pass.t /\ o.gone = pass.gone
      /\ o.fresh = fr
  BY <1>3 DEF Pass
<1>5. Outdated(t) = o
  BY <1>1, <1>3 DEF Outdated
<1>6. PICK w : w = [o EXCEPT !.gone = go]
  OBVIOUS
<1>7. w \in Pass /\ w.pc = pass.pc /\ w.t = pass.t
  BY <1>4, <1>6 DEF Pass
<1>8. pass' = pass \/ pass' = o \/ pass' = w
  BY <1>2, <1>4, <1>5, <1>6
<1>9. ASSUME pass.t # t PROVE o = pass /\ w = pass
  <2>1. fr = pass.fresh /\ go = pass.gone
    BY <1>1, <1>2, <1>9 DEF pt, Pass
  <2>2. o = pass
    BY <1>3, <2>1 DEF Pass
  <2>3. QED
    BY <1>6, <2>1, <2>2 DEF Pass
<1>10. QED
  BY <1>4, <1>7, <1>8, <1>9

LEMMA UsersKeep ==
    ASSUME TunnelInv, Users \/ Garbage
    PROVE  TunnelInv'
<1>a. /\ TypeOK /\ pass \in Pass /\ tun \in [Tunnels -> TunnelObject]
      /\ dep \in [Tunnels -> [Names -> Deployment]]
      /\ srv \in [Servers -> Conns \cup {NoOne}] /\ queue \subseteq Tunnels
  BY DEF TunnelInv, TypeOK
<1>1. ASSUME NEW t \in Tunnels, CreateTunnel(t) PROVE TunnelInv'
  <2>1. PICK S \in SUBSET Names :
          tun' = [tun EXCEPT ![t] = [AbsentTunnel EXCEPT !.live = TRUE,
                                                         !.targets = S]]
    BY <1>1 DEF CreateTunnel
  <2>2. [AbsentTunnel EXCEPT !.live = TRUE, !.targets = S] \in TunnelObject
    BY DEF AbsentTunnel, TunnelObject, Conditions
  <2>3. QED
    BY <1>a, <1>1, <2>1, <2>2, TunnelChangeKeeps DEF CreateTunnel
<1>2. ASSUME NEW t \in Tunnels, EditTunnel(t) PROVE TunnelInv'
  <2>1. PICK S \in SUBSET Names : tun' = [tun EXCEPT ![t].targets = S]
    BY <1>2 DEF EditTunnel
  <2>2. PICK v : v = [tun[t] EXCEPT !.targets = S]
    OBVIOUS
  <2>3. v \in TunnelObject /\ tun[t] \in TunnelObject
    BY <1>a, <2>2 DEF TunnelObject
  <2>4. tun' = [tun EXCEPT ![t] = v]
    BY <1>a, <2>1, <2>2
  <2>5. /\ pass' \in Pass /\ pass'.pc = pass.pc /\ pass'.t = pass.t
        /\ pass.t # t => pass' = pass
    BY <1>a, <1>2, OutdatedShape DEF EditTunnel
  <2>6. QED
    BY <1>a, <1>2, <2>3, <2>4, <2>5, TunnelChangeKeeps DEF EditTunnel
<1>3. ASSUME NEW t \in Tunnels, DeleteTunnel(t) PROVE TunnelInv'
  <2>1. PICK D : D = [n \in Names |->
                        IF dep[t][n].owner = "current"
                        THEN [dep[t][n] EXCEPT !.owner = "former"]
                        ELSE dep[t][n]]
    OBVIOUS
  <2>2. ASSUME NEW n \in Names
        PROVE  [dep[t][n] EXCEPT !.owner = "former"] \in Deployment
    <3>1. dep[t][n] \in Deployment
      BY <1>a
    <3>2. QED
      BY <3>1 DEF Deployment
  <2>3. D \in [Names -> Deployment]
    BY <1>a, <2>1, <2>2
  <2>4. dep' = [dep EXCEPT ![t] = D]
    BY <1>3, <2>1 DEF DeleteTunnel
  <2>5. /\ dep' \in [Tunnels -> [Names -> Deployment]]
        /\ \A u \in Tunnels \ {t} : dep'[u] = dep[u]
    BY <1>a, <2>3, <2>4
  <2>6. /\ tun' = [tun EXCEPT ![t] = AbsentTunnel] /\ srv' = srv
        /\ queue' = queue \cup {t}
        /\ pass' = [Outdated(t) EXCEPT !.gone = @ \/ pt = t]
    BY <1>3 DEF DeleteTunnel
  <2>7. /\ pass' \in Pass /\ pass'.pc = pass.pc /\ pass'.t = pass.t
        /\ pass.t # t => pass' = pass
    BY <1>a, <2>6, OutdatedShape
  <2>8. QED
    BY <2>5, <2>6, <2>7, Values, TunnelChangeKeeps
<1>4. ASSUME NEW s \in Servers, SetServer(s) PROVE TunnelInv'
  <2>1. PICK c \in Conns \cup {NoOne} : srv' = [srv EXCEPT ![s] = c]
    BY <1>4 DEF SetServer
  <2>2. /\ queue' = queue \cup FindTunnelsForServer(s)
        /\ UNCHANGED <<tun, dep, pass>>
    BY <1>4 DEF SetServer
  <2>3. queue \subseteq queue' /\ queue' \subseteq Tunnels
    BY <1>a, <2>2 DEF FindTunnelsForServer
  <2>4. TypeOK'
    BY <1>a, <2>1, <2>2, <2>3 DEF TypeOK
  <2>5. ASSUME NEW u \in Tunnels \ queue', tun[u].live PROVE Untouched(u)
    <3>1. u \notin FindTunnelsForServer(s)
      BY <2>2
    <3>2. ~Concerns(s, u)
      BY <2>5, <3>1 DEF FindTunnelsForServer, Concerns
    <3>3. \A z \in Servers : Concerns(z, u) => srv'[z] = srv[z]
      BY <1>a, <2>1, <3>2
    <3>4. QED
      BY <2>2, <3>3 DEF Untouched
  <2>6. QED
    BY <2>2, <2>3, <2>4, <2>5, OthersKeep
<1>5. ASSUME NEW t \in Tunnels, NEW n \in Names, SetReady(t, n) PROVE TunnelInv'
  <2>1. PICK d : d = [dep[t][n] EXCEPT !.ready = ~@]
    OBVIOUS
  <2>2. dep[t][n] \in Deployment
    BY <1>a
  <2>3. d \in Deployment
    BY <2>1, <2>2 DEF Deployment
  <2>4. SetDeployment(t, n, d) /\ UNCHANGED <<tun, srv, pass>>
    BY <1>5, <2>1 DEF SetReady
  <2>5. QED
    BY <2>3, <2>4, DeploymentKeeps
<1>6. ASSUME NEW t \in Tunnels, NEW n \in Names,
             DeleteDeployment(t, n) \/ Collect(t, n)
      PROVE  TunnelInv'
  BY <1>6, Values, DeploymentKeeps DEF DeleteDeployment, Collect
<1>7. QED
  BY <1>1, <1>2, <1>3, <1>4, <1>5, <1>6 DEF Users, Garbage

LEMMA TunnelStep == TunnelInv /\ [Next]_vars => TunnelInv'
<1> SUFFICES ASSUME TunnelInv, [Next]_vars PROVE TunnelInv'
  OBVIOUS
<1>1. CASE Reconcile
  BY <1>1, TakeKeeps, ResolveKeeps, UpsertKeeps, ListObsoleteKeeps, PruneKeeps,
     ReadStatusKeeps, WriteStatusKeeps DEF Reconcile
<1>2. CASE Users \/ Garbage
  BY <1>2, UsersKeep
<1>3. CASE Faults
  BY <1>3, CallFailsKeeps, StatusFailsKeeps, RestartKeeps DEF Faults
<1>4. CASE UNCHANGED vars
  <2>1. TypeOK'
    BY <1>4 DEF TunnelInv, TypeOK, vars
  <2>2. \A t \in Tunnels : Untouched(t)
    BY <1>4 DEF Untouched, vars
  <2>3. QED
    BY <1>4, <2>1, <2>2, OthersKeep DEF vars
<1>5. QED
  BY <1>1, <1>2, <1>3, <1>4 DEF Next

-----------------------------------------------------------------------------
(* The theorems *)

LEMMA TunnelStarts == Init \/ LiveInit => TunnelInv
<1>1. ASSUME Init PROVE TunnelInv
  <2>1. TypeOK
    BY <1>1, Values DEF Init, TypeOK
  <2>2. \A t \in Tunnels : AtRest(t) /\ ~Running(t)
    BY <1>1, Values DEF Init, AtRest, Running
  <2>3. QED
    BY <2>1, <2>2 DEF TunnelInv
<1>2. ASSUME LiveInit PROVE TunnelInv
  <2>1. PICK L \in SUBSET Tunnels, S \in [Tunnels -> SUBSET Names] :
          /\ tun = [t \in Tunnels |->
                      IF t \in L THEN [AbsentTunnel EXCEPT !.live = TRUE,
                                                           !.targets = S[t]]
                      ELSE AbsentTunnel]
          /\ queue = L
    BY <1>2 DEF LiveInit
  <2>2. ASSUME NEW t \in Tunnels
        PROVE  [AbsentTunnel EXCEPT !.live = TRUE, !.targets = S[t]]
                  \in TunnelObject
    BY DEF AbsentTunnel, TunnelObject, Conditions
  <2>3. tun \in [Tunnels -> TunnelObject]
    BY <2>1, <2>2, Values
  <2>4. TypeOK
    BY <1>2, <2>1, <2>3, Values DEF LiveInit, TypeOK
  <2>5. \A t \in Tunnels \ queue : AtRest(t) /\ ~Running(t)
    BY <1>2, <2>1, Values DEF LiveInit, AtRest, Running
  <2>6. QED
    BY <2>4, <2>5 DEF TunnelInv
<1>3. QED
  BY <1>1, <1>2

LEMMA TunnelInvariant == Spec \/ LiveSpec => []TunnelInv
<1>1. [LiveNext]_<<vars, changes>> => [Next]_vars
  BY DEF LiveNext, Next
<1>2. QED
  BY <1>1, TunnelStarts, TunnelStep, PTL DEF Spec, LiveSpec

(* WeftTunnels of any number and namespace, any servers, whether their     *)
(* names are unique or not: the watches and their mapping functions, the   *)
(* controller's own writes and its retries together leave no tunnel behind *)
(* that is not what its servers call for, once the controller is at rest.  *)
THEOREM NoEventMissed == Spec \/ LiveSpec => []DeploymentsConverged
<1>1. TunnelInv => DeploymentsConverged
  <2> SUFFICES ASSUME TunnelInv, Quiet, NEW t \in Tunnels, tun[t].live
               PROVE  /\ {<<n, dep[t][n].conn>> : n \in Existing(t)}
                            = {<<ServerName[s], srv[s]>> : s \in Targets(t)}
                      /\ \A n \in Existing(t) : dep[t][n].owner = "current"
    BY DEF DeploymentsConverged
  <2>1. Converged(t)
    BY DEF TunnelInv, Quiet, Running, AtRest
  <2>2. ASSUME NEW n \in Existing(t)
        PROVE  <<n, dep[t][n].conn>> \in Desired(t) /\ dep[t][n].owner = "current"
    <3>1. PICK f \in Desired(t) : f[1] = n /\ InPlace(t, f)
      BY <2>1 DEF Converged
    <3>2. f = <<f[1], f[2]>>
      BY DEF Desired
    <3>3. QED
      BY <3>1, <3>2 DEF InPlace
  <2>3. ASSUME NEW s \in Targets(t)
        PROVE  \E n \in Existing(t) :
                  <<ServerName[s], srv[s]>> = <<n, dep[t][n].conn>>
    <3>1. ServerName[s] \in Names
      BY TunnelAssumption DEF Targets
    <3>2. InPlace(t, <<ServerName[s], srv[s]>>)
      BY <2>1 DEF Converged, Desired
    <3>3. ServerName[s] \in Existing(t) /\ dep[t][ServerName[s]].conn = srv[s]
      BY <3>1, <3>2 DEF InPlace, Existing
    <3>4. QED
      BY <3>3
  <2>4. QED
    BY <2>2, <2>3 DEF Desired
<1>2. QED
  BY <1>1, TunnelInvariant, PTL

(* The Available condition is as true as the Deployments, provided a       *)
(* status write that fails is not the only call of its pass that does: the *)
(* code logs that failure and drops the request.                           *)
THEOREM AvailableIsHonest ==
    ASSUME ~StatusFaults
    PROVE  Spec \/ LiveSpec => []AvailableHonest
<1>1. TunnelInv => AvailableHonest
  BY DEF TunnelInv, AvailableHonest, Quiet, Running, AtRest, Honest
<1>2. QED
  BY <1>1, TunnelInvariant, PTL
=============================================================================
