---------------------------- MODULE Shared_proofs ----------------------------
(***************************************************************************)
(* Proofs about the parts of the operator whose parties share something    *)
(* without knowing of each other: the webhook's certificate, the JWT       *)
(* cache, the default reflector and the WeftServers.                       *)
(***************************************************************************)
EXTENDS WebhookCert, JWTCache, DefaultReflector, ServerFleet, TLAPS

-----------------------------------------------------------------------------
(* JWTCache *)

Call == [pc: {"idle", "get", "login", "store", "send", "clear"},
         attempt: {0, 1}, jwt: Nat, started: Nat, stale: BOOLEAN]

JWTTypes ==
    /\ epoch \in Nat
    /\ cache \in [jwt: Nat, fresh: BOOLEAN]
    /\ call \in [Callers -> Call]
    /\ \A c \in Callers : call[c].started <= epoch

(* A second attempt that neither a rotation nor an overtaken login has     *)
(* come upon holds, or will find in the cache, a JWT aquaduct.dev accepts. *)
SecondAttempt(c) ==
    call[c].attempt = 1 /\ ~call[c].stale /\ call[c].started = epoch =>
        /\ call[c].pc = "get" /\ cache.fresh => cache.jwt = epoch
        /\ call[c].pc \in {"store", "send"} => call[c].jwt = epoch

JWTInv == JWTTypes /\ \A c \in Callers : SecondAttempt(c)

LEMMA NoCallType == /\ NoCall \in Call
                    /\ NoCall.pc = "idle" /\ NoCall.attempt = 0
                    /\ NoCall.started = 0
BY DEF NoCall, Call

(* What a caller's step does to the others' calls: nothing.                *)
LEMMA OneCall ==
    ASSUME JWTInv, NEW c \in Callers, NEW v \in Call,
           call' = [call EXCEPT ![c] = v], epoch' = epoch,
           v.started <= epoch, cache' = cache,
           v.attempt = 1 /\ ~v.stale /\ v.started = epoch =>
               /\ v.pc = "get" /\ cache.fresh => cache.jwt = epoch
               /\ v.pc \in {"store", "send"} => v.jwt = epoch
    PROVE  JWTInv'
<1>1. \A o \in Callers : call'[o] = IF o = c THEN v ELSE call[o]
  BY DEF JWTInv, JWTTypes
<1>2. JWTTypes'
  BY <1>1 DEF JWTInv, JWTTypes
<1>3. \A o \in Callers : SecondAttempt(o)'
  BY <1>1 DEF JWTInv, SecondAttempt
<1>4. QED
  BY <1>2, <1>3 DEF JWTInv

LEMMA JWTStep == JWTInv /\ [JWTNext]_jwtVars => JWTInv'
<1> SUFFICES ASSUME JWTInv, [JWTNext]_jwtVars PROVE JWTInv'
  OBVIOUS
<1>a. /\ epoch \in Nat /\ cache \in [jwt: Nat, fresh: BOOLEAN]
      /\ call \in [Callers -> Call]
      /\ \A c \in Callers : call[c].started <= epoch /\ SecondAttempt(c)
  BY DEF JWTInv, JWTTypes
<1>1. ASSUME NEW c \in Callers, BeginCall(c) PROVE JWTInv'
  <2> DEFINE v == [NoCall EXCEPT !.pc = "get", !.started = epoch]
  <2>1. v \in Call /\ v.attempt = 0 /\ v.started = epoch
    BY <1>a DEF NoCall, Call
  <2> HIDE DEF v
  <2>2. call' = [call EXCEPT ![c] = v] /\ epoch' = epoch /\ cache' = cache
    BY <1>1 DEF BeginCall, v
  <2>3. v.started <= epoch /\ v.attempt # 1
    BY <1>a, <2>1
  <2>4. QED
    BY <2>1, <2>2, <2>3, OneCall
<1>2. ASSUME NEW c \in Callers, GetJWT(c) PROVE JWTInv'
  <2> DEFINE v == IF cache.fresh
                  THEN [call[c] EXCEPT !.pc = "send", !.jwt = cache.jwt]
                  ELSE [call[c] EXCEPT !.pc = "login"]
  <2>1. /\ v \in Call /\ v.attempt = call[c].attempt
        /\ v.started = call[c].started /\ v.stale = call[c].stale
        /\ v.pc = "login" \/ (v.pc = "send" /\ cache.fresh /\ v.jwt = cache.jwt)
    BY <1>a DEF Call
  <2> HIDE DEF v
  <2>2. call' = [call EXCEPT ![c] = v] /\ epoch' = epoch /\ cache' = cache
    BY <1>2 DEF GetJWT, v
  <2>3. v.attempt = 1 /\ ~v.stale /\ v.started = epoch =>
           /\ v.pc = "get" /\ cache.fresh => cache.jwt = epoch
           /\ v.pc \in {"store", "send"} => v.jwt = epoch
    BY <1>2, <1>a, <2>1 DEF SecondAttempt, GetJWT, CallAt
  <2>4. QED
    BY <1>a, <2>1, <2>2, <2>3, OneCall
<1>3. ASSUME NEW c \in Callers, Login(c) PROVE JWTInv'
  <2> DEFINE v == [call[c] EXCEPT !.pc = "store", !.jwt = epoch]
  <2>1. /\ v \in Call /\ v.started = call[c].started
        /\ v.jwt = epoch /\ v.pc = "store"
    BY <1>a DEF Call
  <2>2. call' = [call EXCEPT ![c] = v] /\ epoch' = epoch /\ cache' = cache
    BY <1>3, <1>a DEF Login
  <2> HIDE DEF v
  <2>3. QED
    BY <1>a, <2>1, <2>2, OneCall
<1>4. ASSUME NEW c \in Callers, Store(c) PROVE JWTInv'
  <2>1. /\ epoch' = epoch /\ cache' \in [jwt: Nat, fresh: BOOLEAN]
        /\ cache'.jwt = call[c].jwt
    BY <1>4, <1>a DEF Store, Call
  <2>2. /\ call'[c] \in Call /\ call'[c].pc = "send"
        /\ call'[c].jwt = call[c].jwt /\ call'[c].attempt = call[c].attempt
        /\ call'[c].started = call[c].started /\ call'[c].stale = call[c].stale
    BY <1>4, <1>a DEF Store, Call
  <2>3. ASSUME NEW o \in Callers, o # c
        PROVE  /\ call'[o] \in Call /\ call'[o].pc = call[o].pc
               /\ call'[o].jwt = call[o].jwt
               /\ call'[o].attempt = call[o].attempt
               /\ call'[o].started = call[o].started
               /\ call'[o].stale = (call[o].stale \/ (call[o].pc # "idle" /\ call[c].jwt # epoch))
    <3> DEFINE s == call[o].stale \/ (call[o].pc # "idle" /\ call[c].jwt # epoch)
    <3>1. s \in BOOLEAN
      OBVIOUS
    <3>2. call'[o] = [call[o] EXCEPT !.stale = s]
      BY <1>4, <2>3 DEF Store, CallAt
    <3> HIDE DEF s
    <3>3. /\ call'[o] \in Call /\ call'[o].pc = call[o].pc
          /\ call'[o].jwt = call[o].jwt
          /\ call'[o].attempt = call[o].attempt
          /\ call'[o].started = call[o].started
          /\ call'[o].stale = s
      BY <1>a, <3>1, <3>2 DEF Call
    <3>4. QED
      BY <3>3 DEF s
  <2>4. call' \in [Callers -> Call]
    BY <1>4, <2>2, <2>3 DEF Store
  <2>5. \A o \in Callers : call'[o].started <= epoch'
    BY <1>a, <2>1, <2>2, <2>3
  <2>6. SecondAttempt(c)'
    BY <1>4, <1>a, <2>1, <2>2 DEF SecondAttempt, Store, CallAt
  <2>7. ASSUME NEW o \in Callers, o # c PROVE SecondAttempt(o)'
    BY <1>a, <2>1, <2>3, <2>7 DEF SecondAttempt
  <2>8. QED
    BY <1>a, <2>1, <2>4, <2>5, <2>6, <2>7 DEF JWTInv, JWTTypes
<1>5. ASSUME NEW c \in Callers, Ends(c, "answered") \/ Ends(c, "unauthorized")
                                  \/ Ends(c, "failed"),
             epoch' = epoch, cache' = cache
      PROVE  JWTInv'
  <2>1. call' = [call EXCEPT ![c] = NoCall]
    BY <1>5 DEF Ends
  <2>2. NoCall.started <= epoch /\ NoCall.attempt # 1
    BY <1>a, NoCallType
  <2>3. QED
    BY <1>5, <2>1, <2>2, NoCallType, OneCall
<1>6. ASSUME NEW c \in Callers, Send(c) PROVE JWTInv'
  <2>1. CASE call' = [call EXCEPT ![c].pc = "clear"]
    <3> DEFINE v == [call[c] EXCEPT !.pc = "clear"]
    <3>1. v \in Call /\ v.started = call[c].started /\ v.pc = "clear"
      BY <1>a DEF Call
    <3>2. call' = [call EXCEPT ![c] = v] /\ epoch' = epoch /\ cache' = cache
      BY <1>6, <1>a, <2>1 DEF Send
    <3> HIDE DEF v
    <3>3. QED
      BY <1>a, <3>1, <3>2, OneCall
  <2>2. QED
    BY <1>5, <1>6, <2>1 DEF Send
<1>7. ASSUME NEW c \in Callers, ClearJWT(c) PROVE JWTInv'
  <2> DEFINE v == [call[c] EXCEPT !.pc = "get", !.attempt = 1]
  <2>1. v \in Call /\ v.started = call[c].started /\ v.pc = "get"
    BY <1>a DEF Call
  <2>2. /\ call' = [call EXCEPT ![c] = v] /\ epoch' = epoch
        /\ cache' \in [jwt: Nat, fresh: BOOLEAN] /\ ~cache'.fresh
    BY <1>7, <1>a DEF ClearJWT, NoJWT
  <2> HIDE DEF v
  <2>3. \A o \in Callers : call'[o] = IF o = c THEN v ELSE call[o]
    BY <1>a, <2>2
  <2>4. JWTTypes'
    BY <1>a, <2>1, <2>2, <2>3 DEF JWTTypes
  <2>5. \A o \in Callers : SecondAttempt(o)'
    BY <1>a, <2>1, <2>2, <2>3 DEF SecondAttempt
  <2>6. QED
    BY <2>4, <2>5 DEF JWTInv
<1>8. ASSUME NEW c \in Callers, ExchangeFails(c) PROVE JWTInv'
  BY <1>5, <1>8 DEF ExchangeFails
<1>9. CASE Rotate
  BY <1>9, <1>a DEF Rotate, JWTInv, JWTTypes, SecondAttempt, Call
<1>10. CASE Expire
  <2>1. cache' \in [jwt: Nat, fresh: BOOLEAN] /\ ~cache'.fresh
    BY <1>10, <1>a DEF Expire
  <2>2. QED
    BY <1>10, <1>a, <2>1 DEF Expire, JWTInv, JWTTypes, SecondAttempt
<1>11. CASE UNCHANGED jwtVars
  BY <1>11 DEF jwtVars, JWTInv, JWTTypes, SecondAttempt
<1>12. QED
  BY <1>1, <1>2, <1>3, <1>4, <1>6, <1>7, <1>8, <1>9, <1>10, <1>11
     DEF JWTNext, CallStep

LastTypes == last \in [Callers -> {"none", "answered", "unauthorized", "failed"}]

LEMMA LastStep == LastTypes /\ [JWTNext]_jwtVars => LastTypes'
<1> SUFFICES ASSUME LastTypes, [JWTNext]_jwtVars PROVE LastTypes'
  OBVIOUS
<1>1. \/ last' = last
      \/ \E c \in Callers, how \in {"answered", "unauthorized", "failed"} :
            last' = [last EXCEPT ![c] = how]
  BY DEF JWTNext, CallStep, BeginCall, GetJWT, Login, Store, Send, ClearJWT,
     ExchangeFails, Rotate, Expire, Ends, jwtVars
<1>2. QED
  BY <1>1 DEF LastTypes

(* A 401 reaches the caller only at its second attempt.                    *)
LEMMA UnauthorizedWhen ==
    ASSUME JWTInv, LastTypes, [JWTNext]_jwtVars, NEW c \in Callers,
           call[c].pc = "send", last'[c] = "unauthorized", call'[c].pc = "idle"
    PROVE  call[c].jwt # epoch /\ call[c].attempt = 1
<1>a. call \in [Callers -> Call]
  BY DEF JWTInv, JWTTypes
<1>1. ASSUME Ends(c, "answered") \/ Ends(c, "failed") PROVE FALSE
  BY <1>1 DEF Ends, LastTypes
<1>2. ASSUME NEW o \in Callers, o # c, \E v : call' = [call EXCEPT ![o] = v]
      PROVE  FALSE
  BY <1>a, <1>2
<1>3. ASSUME call' = call PROVE FALSE
  BY <1>3
<1>4. CASE Send(c)
  <2>1. CASE call' = [call EXCEPT ![c].pc = "clear"]
    BY <1>a, <2>1 DEF Call
  <2>2. QED
    BY <1>1, <1>4, <2>1 DEF Send
<1>5. ASSUME NEW o \in Callers, CallStep(o) \/ ExchangeFails(o), o # c
      PROVE  FALSE
  <2>1. CASE Store(o)
    <3>1. PICK s : call'[c] = [call[c] EXCEPT !.stale = s]
      BY <1>5, <2>1 DEF Store
    <3>2. QED
      BY <1>a, <3>1 DEF Call
  <2>2. CASE ~Store(o)
    <3>1. \E v : call' = [call EXCEPT ![o] = v]
      BY <1>a, <1>5, <2>2 DEF CallStep, BeginCall, GetJWT, Login, Send,
         ClearJWT, ExchangeFails, Ends
    <3>2. QED
      BY <1>2, <1>5, <3>1
  <2>3. QED
    BY <2>1, <2>2
<1>6. ASSUME CallStep(c) \/ ExchangeFails(c), ~Send(c) PROVE FALSE
  BY <1>1, <1>6 DEF CallStep, BeginCall, GetJWT, Login, Store, ClearJWT,
     ExchangeFails, CallAt
<1>7. CASE Rotate \/ Expire \/ UNCHANGED jwtVars
  BY <1>3, <1>7 DEF Rotate, Expire, jwtVars
<1>8. QED
  BY <1>4, <1>5, <1>6, <1>7 DEF JWTNext

(* However many callers share the client and however often aquaduct.dev    *)
(* rotates its keys, authedRequest gives its caller a 401 only for one of  *)
(* the two reasons the property names.                                     *)
THEOREM RotationIsHidden == JWTSpec => RotationHidden
<1>1. JWTInit => JWTInv /\ LastTypes
  BY NoCallType DEF JWTInit, JWTInv, JWTTypes, LastTypes, SecondAttempt, NoJWT
<1>2. JWTInv /\ LastTypes /\ [JWTNext]_jwtVars =>
        [\A c \in Callers :
           CallAt(c, "send") /\ last'[c] = "unauthorized" /\ call'[c].pc = "idle" =>
              call[c].started # epoch \/ call[c].stale]_jwtVars
  <2> SUFFICES ASSUME JWTInv, LastTypes, [JWTNext]_jwtVars, NEW c \in Callers,
                      call[c].pc = "send", last'[c] = "unauthorized",
                      call'[c].pc = "idle"
               PROVE  call[c].started # epoch \/ call[c].stale
    BY DEF CallAt
  <2>1. call[c].jwt # epoch /\ call[c].attempt = 1
    BY UnauthorizedWhen
  <2>2. QED
    BY <2>1 DEF JWTInv, SecondAttempt
<1>3. QED
  BY <1>1, <1>2, JWTStep, LastStep, PTL DEF JWTSpec, RotationHidden

-----------------------------------------------------------------------------
(* DefaultReflector *)

ReflectorObject == [ver: Nat, ours: BOOLEAN, right: BOOLEAN]

(* A hand-made reflector in the place of the one a Sync read as the        *)
(* operator's is a later one.                                              *)
DefaultInv ==
    /\ dfEvents \in Nat
    /\ refl \in ReflectorObject /\ refl.ver <= dfEvents + 1
    /\ sync \in [pc: {"rest", "act"}, copy: ReflectorObject]
    /\ sync.copy.ver <= dfEvents + 1
    /\ sync.copy.ours /\ refl.ver # 0 /\ ~refl.ours => refl.ver > sync.copy.ver

LEMMA DefaultValues ==
    /\ NoReflector \in ReflectorObject /\ NoReflector.ver = 0
    /\ Resting \in [pc: {"rest", "act"}, copy: ReflectorObject]
    /\ Resting.copy.ver = 0 /\ ~Resting.copy.ours
BY DEF NoReflector, ReflectorObject, Resting

LEMMA DefaultStep == DefaultInv /\ [DefaultNext]_defaultVars => DefaultInv'
<1> SUFFICES ASSUME DefaultInv, [DefaultNext]_defaultVars PROVE DefaultInv'
  OBVIOUS
<1>a. /\ dfEvents \in Nat
      /\ refl \in ReflectorObject /\ refl.ver <= dfEvents + 1
      /\ refl.ver \in Nat /\ sync.copy.ver \in Nat
      /\ sync \in [pc: {"rest", "act"}, copy: ReflectorObject]
      /\ sync.copy.ver <= dfEvents + 1
  BY DEF DefaultInv, ReflectorObject
<1>1. CASE SyncGet
  <2>1. sync' \in [pc: {"rest", "act"}, copy: ReflectorObject] /\ sync'.copy = refl
    BY <1>1, <1>a DEF SyncGet
  <2>2. QED
    BY <1>1, <1>a, <2>1 DEF SyncGet, DefaultInv
<1>2. CASE SyncDelete \/ SyncCreate \/ SyncUpdate \/ SyncSkip
  <2>1. /\ refl' \in ReflectorObject /\ refl'.ver <= dfEvents + 1
    <3>1. CASE refl' = refl \/ refl' = NoReflector
      BY <1>a, <3>1, DefaultValues
    <3>2. CASE refl' = [ver |-> dfEvents + 1, ours |-> TRUE, right |-> TRUE]
      BY <1>a, <3>2 DEF ReflectorObject
    <3>3. CASE refl' = [refl EXCEPT !.right = TRUE]
      BY <1>a, <3>3 DEF ReflectorObject
    <3>4. QED
      BY <1>2, <3>1, <3>2, <3>3 DEF SyncDelete, SyncCreate, SyncUpdate, SyncSkip
  <2>2. sync' = Resting /\ dfEvents' = dfEvents
    BY <1>2 DEF SyncDelete, SyncCreate, SyncUpdate, SyncSkip
  <2>3. QED
    BY <1>a, <2>1, <2>2, DefaultValues DEF DefaultInv
<1>3. CASE DefaultOutside
  <2>1. dfEvents' \in Nat /\ dfEvents' = dfEvents + 1
    BY <1>3, <1>a DEF DefaultOutside
  <2>2. CASE refl' = NoReflector /\ sync' = sync
    BY <1>a, <2>1, <2>2, DefaultValues DEF DefaultInv
  <2>3. CASE /\ refl' = [ver |-> dfEvents' + 1, ours |-> FALSE, right |-> FALSE]
             /\ sync' = sync
    <3>1. refl' \in ReflectorObject /\ refl'.ver = dfEvents' + 1
      BY <2>1, <2>3 DEF ReflectorObject
    <3>2. QED
      BY <1>a, <2>1, <2>3, <3>1 DEF DefaultInv
  <2>4. CASE /\ refl' = [refl EXCEPT !.ver = dfEvents' + 1, !.right = FALSE]
             /\ sync' = sync
    <3>0. PICK n \in Nat : n = dfEvents' + 1
      BY <2>1
    <3>1. /\ refl' \in ReflectorObject /\ refl'.ver = dfEvents' + 1
          /\ refl'.ours = refl.ours
      <4>1. refl' = [refl EXCEPT !.ver = n, !.right = FALSE]
        BY <2>4, <3>0
      <4>2. refl' \in ReflectorObject /\ refl'.ver = n /\ refl'.ours = refl.ours
        BY <1>a, <4>1 DEF ReflectorObject
      <4>3. QED
        BY <3>0, <4>2
    <3>2. refl'.ver > sync.copy.ver
      BY <1>a, <2>1, <3>1
    <3>3. QED
      BY <1>a, <2>1, <2>4, <3>1, <3>2 DEF DefaultInv
  <2>5. CASE /\ sync' = Resting
             /\ refl' \in {[refl EXCEPT !.right = b /\ refl.ver # 0] : b \in BOOLEAN}
    <3>1. PICK b \in BOOLEAN : refl' = [refl EXCEPT !.right = b /\ refl.ver # 0]
      BY <2>5
    <3>2. (b /\ refl.ver # 0) \in BOOLEAN
      OBVIOUS
    <3>3. refl' \in ReflectorObject /\ refl'.ver = refl.ver
      BY <1>a, <3>1, <3>2 DEF ReflectorObject
    <3>4. QED
      BY <1>a, <2>1, <2>5, <3>3, DefaultValues DEF DefaultInv
  <2>6. QED
    BY <1>3, <2>2, <2>3, <2>4, <2>5 DEF DefaultOutside
<1>4. CASE UNCHANGED defaultVars
  BY <1>4 DEF defaultVars, DefaultInv
<1>5. QED
  BY <1>1, <1>2, <1>3, <1>4 DEF DefaultNext, Sync

(* However many times administrators interfere, Sync leaves a hand-made    *)
(* reflector alone unless it took the place of the operator's own since    *)
(* Sync read it.                                                           *)
THEOREM HandMadeIsKept == DefaultSpec => HandMadeKept
<1>1. DefaultInit => DefaultInv
  BY DefaultValues DEF DefaultInit, DefaultInv
<1>2. DefaultInv /\ [DefaultNext]_defaultVars =>
        [refl.ver # 0 /\ ~refl.ours /\ dfEvents' = dfEvents =>
           refl' = refl \/ (sync.copy.ours /\ refl.ver > sync.copy.ver)]_defaultVars
  <2> SUFFICES ASSUME DefaultInv, [DefaultNext]_defaultVars,
                      refl.ver # 0, ~refl.ours, dfEvents' = dfEvents,
                      refl' # refl
               PROVE  sync.copy.ours /\ refl.ver > sync.copy.ver
    OBVIOUS
  <2>1. ~DefaultOutside
    BY DEF DefaultOutside, DefaultInv
  <2>2. sync.copy.ours
    BY <2>1 DEF DefaultNext, Sync, SyncGet, SyncDelete, SyncCreate, SyncUpdate,
       SyncSkip, defaultVars
  <2>3. QED
    BY <2>2 DEF DefaultInv
<1>3. QED
  BY <1>1, <1>2, DefaultStep, PTL DEF DefaultSpec, HandMadeKept

-----------------------------------------------------------------------------
(* ServerFleet *)

Round == [pc: {"idle", "nodes", "probing", "servers", "delete"},
          todo: SUBSET Nodes, known: SUBSET Nodes, cur: Nodes \cup {"none"},
          gone: SUBSET Nodes, listed: Nat]

(* Of a WeftServer the proof looks at the uid and the label alone.         *)
ServerShape(o) ==
    o \in [uid: Nat, ver: {o.ver}, loc: {o.loc}, labelled: BOOLEAN,
           conn: {o.conn}, avail: {o.avail}]

FleetTypes ==
    /\ DOMAIN ws = Nodes
    /\ \A n \in Nodes : ServerShape(ws[n])
    /\ ws = [n \in Nodes |-> ws[n]]
    /\ nodes \in [Nodes -> NodeStates]
    /\ pr \in Round
    /\ pr.pc = "probing" => pr.cur \in Nodes
    /\ version \in Nat
    /\ pr.listed <= version

(* A round has noted every node that is away; what it is about to delete   *)
(* was, when it was listed, the server of such a node and labelled.        *)
FleetInv ==
    /\ FleetTypes
    /\ pr.pc # "idle" => Nodes \ Present \subseteq pr.gone
    /\ pr.pc = "servers" => Nodes \ pr.known \subseteq pr.gone
    /\ pr.pc = "delete" =>
          \A n \in pr.todo : /\ n \in pr.gone
                             /\ \/ ws[n].uid = 0 \/ ws[n].labelled
                                \/ ws[n].uid > pr.listed

(* What a step may do to a WeftServer: nothing to the uid and the label,   *)
(* delete it, or put a new one in its place.                               *)
ServersMove ==
    /\ ws' = [n \in Nodes |-> ws'[n]]
    /\ DOMAIN ws' = Nodes
    /\ version' \in Nat /\ version <= version'
    /\ \A n \in Nodes :
          /\ ServerShape(ws'[n])
          /\ \/ ws'[n].uid = ws[n].uid /\ ws'[n].labelled = ws[n].labelled
             \/ ws'[n].uid = 0
             \/ ws'[n].uid > version

LEMMA RoundValues ==
    /\ NoRound \in Round /\ NoRound.pc = "idle" /\ NoRound.listed = 0
    /\ ServerShape(NoServer) /\ NoServer.uid = 0
BY DEF NoRound, Round, NoServer, ServerShape

LEMMA CreatedServer ==
    ASSUME FleetTypes, NEW n \in Nodes, NEW obj, ServerShape(obj),
           CreateServer(n, obj)
    PROVE  ServersMove
<1>a. version' = version + 1 /\ version \in Nat /\ version' \in Nat
  BY DEF CreateServer, FleetTypes
<1>1. PICK u \in Nat : u = version'
  BY <1>a
<1>2. PICK new : new = [obj EXCEPT !.uid = u, !.ver = u]
  OBVIOUS
<1>3. ServerShape(new) /\ new.uid = u
  BY <1>1, <1>2 DEF ServerShape
<1>4. ws' = [ws EXCEPT ![n] = new]
  BY <1>1, <1>2 DEF CreateServer
<1>5. \A m \in Nodes : ws'[m] = IF m = n THEN new ELSE ws[m]
  BY <1>4 DEF FleetTypes
<1>6. new.uid > version
  BY <1>a, <1>1, <1>3
<1>7. QED
  BY <1>a, <1>3, <1>4, <1>5, <1>6 DEF ServersMove, FleetTypes

LEMMA DeletedServer ==
    ASSUME FleetTypes, NEW n \in Nodes, DeleteServer(n), version' = version
    PROVE  ServersMove
BY RoundValues DEF DeleteServer, FleetTypes, ServersMove

LEMMA ServersKept ==
    ASSUME FleetTypes, ws' = ws, version' = version
    PROVE  ServersMove
BY DEF FleetTypes, ServersMove

(* The WeftServer controller writes the Available condition only.          *)
LEMMA StatusWritten ==
    ASSUME FleetTypes, SStep
    PROVE  ServersMove
<1>1. CASE SCommit /\ ws' # ws /\ sp.n \in Nodes
  <2>1. ws' = [ws EXCEPT ![sp.n].avail = sp.avail] /\ version' = version
    BY <1>1 DEF SCommit
  <2>2. PICK new : new = [ws[sp.n] EXCEPT !.avail = sp.avail]
    OBVIOUS
  <2>3. /\ ServerShape(new) /\ new.uid = ws[sp.n].uid
        /\ new.labelled = ws[sp.n].labelled
    BY <1>1, <2>2 DEF ServerShape, FleetTypes
  <2>4. ws' = [ws EXCEPT ![sp.n] = new] /\ version' = version
    BY <2>1, <2>2
  <2>5. \A m \in Nodes : ws'[m] = IF m = sp.n THEN new ELSE ws[m]
    BY <2>4 DEF FleetTypes
  <2>6. QED
    BY <2>3, <2>4, <2>5 DEF ServersMove, FleetTypes
<1>2. CASE SCommit /\ (ws' = ws \/ sp.n \notin Nodes)
  <2>1. ws' = ws /\ version' = version
    BY <1>2 DEF SCommit, FleetTypes
  <2>2. QED
    BY <2>1, ServersKept
<1>3. CASE ~SCommit
  <2>1. ws' = ws /\ version' = version
    BY <1>3 DEF SStep, SStart, SyncObject, SAsk
  <2>2. QED
    BY <2>1, ServersKept
<1>4. QED
  BY <1>1, <1>2, <1>3

(* A round that goes on with what it has to do, or with less of it.        *)
LEMMA RoundKept ==
    ASSUME FleetInv, ServersMove, nodes' = nodes, pr' \in Round,
           pr'.gone = pr.gone, pr'.known = pr.known, pr'.listed = pr.listed,
           pr.pc # "idle",
           pr'.pc = pr.pc \/ pr'.pc = "nodes" \/ pr'.pc = "probing",
           pr'.todo \subseteq pr.todo,
           pr'.pc = "probing" => pr'.cur \in Nodes
    PROVE  FleetInv'
<1>a. /\ FleetTypes /\ version \in Nat /\ pr.listed \in Nat
      /\ \A n \in Nodes : ws[n].uid \in Nat
      /\ pr.todo \subseteq Nodes
  BY DEF FleetInv, FleetTypes, ServerShape, Round
<1>b. /\ version' \in Nat /\ version <= version'
      /\ \A n \in Nodes : ws'[n].uid \in Nat
  BY DEF ServersMove, ServerShape
<1>1. FleetTypes'
  BY <1>a, <1>b DEF FleetTypes, ServersMove
<1>2. Nodes \ Present' \subseteq pr'.gone
  BY DEF FleetInv, Present
<1>3. pr'.pc = "servers" => Nodes \ pr'.known \subseteq pr'.gone
  BY DEF FleetInv
<1>4. ASSUME pr'.pc = "delete", NEW n \in pr'.todo
      PROVE  /\ n \in pr'.gone
             /\ \/ ws'[n].uid = 0 \/ ws'[n].labelled
                \/ ws'[n].uid > pr'.listed
  <2>1. /\ n \in Nodes /\ n \in pr.gone
        /\ ws[n].uid = 0 \/ ws[n].labelled \/ ws[n].uid > pr.listed
    BY <1>4, <1>a DEF FleetInv
  <2>2. ASSUME ws'[n].uid > version PROVE ws'[n].uid > pr'.listed
    BY <1>a, <1>b, <2>1, <2>2 DEF FleetTypes
  <2>3. QED
    BY <2>1, <2>2 DEF ServersMove
<1>5. QED
  BY <1>1, <1>2, <1>3, <1>4 DEF FleetInv

LEMMA IdleKept ==
    ASSUME FleetInv, ServersMove, nodes' = nodes, pr' \in Round,
           pr'.pc = "idle", pr'.listed <= version
    PROVE  FleetInv'
<1>1. version \in Nat /\ version' \in Nat /\ pr'.listed \in Nat /\ version <= version'
  BY DEF FleetInv, FleetTypes, ServersMove, Round
<1>2. FleetTypes'
  BY <1>1 DEF FleetInv, FleetTypes, ServersMove
<1>3. QED
  BY <1>2 DEF FleetInv

(* Steps of others: the round is where it was.                             *)
LEMMA RoundFrame ==
    ASSUME FleetInv, ServersMove, nodes' = nodes, pr' = pr
    PROVE  FleetInv'
<1>1. pr \in Round /\ pr.listed <= version /\ (pr.pc = "probing" => pr.cur \in Nodes)
  BY DEF FleetInv, FleetTypes
<1>2. CASE pr.pc = "idle"
  BY <1>1, <1>2, IdleKept
<1>3. CASE pr.pc # "idle"
  BY <1>1, <1>3, RoundKept
<1>4. QED
  BY <1>2, <1>3

LEMMA RoundEnds ==
    ASSUME FleetInv, ServersMove, nodes' = nodes, pr' = NoRound
    PROVE  FleetInv'
<1>1. 0 <= version
  BY DEF FleetInv, FleetTypes
<1>2. QED
  BY <1>1, IdleKept, RoundValues

LEMMA RoundWithout ==
    ASSUME FleetInv, ServersMove, nodes' = nodes, NEW n \in pr.todo,
           pr.pc \in {"nodes", "delete"}, pr' = Without(n)
    PROVE  FleetInv'
<1>a. pr \in Round
  BY DEF FleetInv, FleetTypes
<1>1. CASE pr' = NoRound
  BY <1>1, RoundEnds
<1>2. CASE pr' = [pr EXCEPT !.todo = @ \ {n}]
  <2>1. PICK S \in SUBSET Nodes : S = pr.todo \ {n}
    BY <1>a DEF Round
  <2>2. pr' = [pr EXCEPT !.todo = S]
    BY <1>2, <2>1
  <2>3. /\ pr' \in Round /\ pr'.gone = pr.gone /\ pr'.known = pr.known
        /\ pr'.listed = pr.listed /\ pr'.pc = pr.pc /\ pr'.todo = S
    BY <1>a, <2>2 DEF Round
  <2>4. QED
    BY <2>1, <2>3, RoundKept
<1>3. QED
  BY <1>1, <1>2 DEF Without

LEMMA ProberStep ==
    ASSUME FleetInv, PStep \/ PFails \/ PProbeLate
    PROVE  FleetInv'
<1>a. /\ FleetTypes /\ pr \in Round /\ version \in Nat
      /\ pr.todo \subseteq Nodes /\ pr.known \subseteq Nodes
      /\ pr.pc = "probing" => pr.cur \in Nodes
  BY DEF FleetInv, FleetTypes, Round
<1>b. ASSUME UNCHANGED <<serverVars, nodes>> PROVE ServersMove /\ nodes' = nodes
  BY <1>a, <1>b, ServersKept DEF serverVars
<1>c. ASSUME ServersMove, nodes' = nodes, pr.pc = "probing",
             pr' = [pr EXCEPT !.pc = "nodes", !.cur = "none"]
      PROVE  FleetInv'
  <2>1. /\ pr' \in Round /\ pr'.gone = pr.gone /\ pr'.known = pr.known
        /\ pr'.listed = pr.listed /\ pr'.pc = "nodes" /\ pr'.todo = pr.todo
    BY <1>a, <1>c DEF Round
  <2>2. QED
    BY <1>c, <2>1, RoundKept
<1>d. ASSUME UNCHANGED <<serverVars, nodes>>, pr' \in Round, pr'.pc = "nodes",
             pr'.gone = Nodes \ Present, pr'.listed = 0
      PROVE  FleetInv'
  <2>1. /\ pr' \in Round /\ pr'.gone = Nodes \ Present /\ pr'.pc = "nodes"
        /\ pr'.listed = 0
    BY <1>d
  <2>2. ws' = ws /\ version' = version /\ nodes' = nodes
    BY <1>d DEF serverVars
  <2>3. 0 <= version
    BY <1>a
  <2>4. FleetTypes'
    BY <1>a, <2>1, <2>2, <2>3 DEF FleetTypes
  <2>5. QED
    BY <2>1, <2>2, <2>4 DEF FleetInv, Present
<1>1. CASE PBegin
  <2>1. PICK S \in SUBSET Nodes : S = {n \in Present : nodes[n] # "noip"}
    BY DEF Present
  <2>2. pr' = [NoRound EXCEPT !.pc = "nodes", !.todo = S,
                              !.gone = Nodes \ Present]
    BY <1>1, <2>1 DEF PBegin
  <2>3. /\ pr' \in Round /\ pr'.gone = Nodes \ Present /\ pr'.pc = "nodes"
        /\ pr'.listed = 0
    BY <2>2 DEF NoRound, Round
  <2>4. QED
    BY <1>1, <1>d, <2>3 DEF PBegin
<1>2. ASSUME NEW n \in Nodes, PProcess(n) PROVE FleetInv'
  <2>1. CASE pr' = Without(n)
    BY <1>2, <1>b, <2>1, RoundWithout DEF PProcess, PRAt
  <2>2. CASE pr' = [pr EXCEPT !.pc = "probing", !.todo = @ \ {n}, !.cur = n]
    <3>1. PICK S \in SUBSET Nodes : S = pr.todo \ {n}
      BY <1>a
    <3>2. pr' = [pr EXCEPT !.pc = "probing", !.todo = S, !.cur = n]
      BY <2>2, <3>1
    <3>3. /\ pr' \in Round /\ pr'.gone = pr.gone /\ pr'.known = pr.known
          /\ pr'.listed = pr.listed /\ pr'.pc = "probing" /\ pr'.todo = S
          /\ pr'.cur = n
      BY <1>a, <3>2 DEF Round
    <3>4. QED
      BY <1>2, <1>b, <3>1, <3>3, RoundKept DEF PProcess, PRAt
  <2>3. QED
    BY <1>2, <2>1, <2>2 DEF PProcess
<1>3. CASE PProbeLate \/ PProbeFails
  BY <1>3, <1>b, <1>c DEF PProbeLate, PProbeFails, PRAt
<1>4. CASE PProbed
  <2>1. CASE ws[pr.cur].uid = 0
    <3>1. PICK v \in Nat : v = version + 1
      BY <1>a
    <3>2. PICK obj : obj = [NoServer EXCEPT !.labelled = TRUE, !.conn = v]
      OBVIOUS
    <3>3. ServerShape(obj)
      BY <3>2 DEF NoServer, ServerShape
    <3>4. pr.cur \in Nodes /\ CreateServer(pr.cur, obj)
      BY <1>4, <1>a, <2>1, <3>1, <3>2 DEF PProbed, PRAt
    <3>5. ServersMove
      BY <1>a, <3>3, <3>4, CreatedServer
    <3>6. QED
      BY <1>4, <1>c, <3>5 DEF PProbed, PRAt
  <2>2. CASE ws[pr.cur].uid # 0
    BY <1>4, <1>b, <1>c, <2>2 DEF PProbed, PRAt
  <2>3. QED
    BY <2>1, <2>2
<1>5. CASE PListNodes
  <2>1. pr' = [pr EXCEPT !.pc = "servers", !.known = Present] /\ pr.pc = "nodes"
    BY <1>5 DEF PListNodes, PRAt
  <2>2. Present \in SUBSET Nodes
    BY DEF Present
  <2>3. /\ pr' \in Round /\ pr'.gone = pr.gone /\ pr'.known = Present
        /\ pr'.pc = "servers" /\ pr'.listed = pr.listed
    BY <1>a, <2>1, <2>2 DEF Round
  <2>4. ws' = ws /\ version' = version /\ nodes' = nodes
    BY <1>5 DEF PListNodes, serverVars
  <2>5. FleetTypes'
    BY <1>a, <2>3, <2>4 DEF FleetTypes
  <2>6. QED
    BY <2>1, <2>3, <2>4, <2>5 DEF FleetInv, Present
<1>6. CASE PListServers
  <2> DEFINE orphans == {n \in Nodes \ pr.known : ws[n].labelled}
  <2>1. CASE orphans = {}
    BY <1>6, <1>b, <2>1, RoundEnds DEF PListServers
  <2>2. CASE orphans # {}
    <3>1. pr' = [pr EXCEPT !.pc = "delete", !.todo = orphans, !.listed = version]
      BY <1>6, <2>2 DEF PListServers
    <3>2. orphans \in SUBSET Nodes
      OBVIOUS
    <3>3. pr.pc = "servers" /\ \A n \in orphans : ws[n].labelled /\ n \in pr.gone
      BY <1>6 DEF PListServers, PRAt, FleetInv
    <3> HIDE DEF orphans
    <3>4. /\ pr' \in Round /\ pr'.gone = pr.gone /\ pr'.pc = "delete"
          /\ pr'.todo = orphans /\ pr'.listed = version
      BY <1>a, <3>1, <3>2 DEF Round
    <3>5. ws' = ws /\ version' = version /\ nodes' = nodes
      BY <1>6 DEF PListServers, serverVars
    <3>6. version <= version
      BY <1>a
    <3>7. FleetTypes'
      BY <1>a, <3>4, <3>5, <3>6 DEF FleetTypes
    <3>8. QED
      BY <3>3, <3>4, <3>5, <3>7 DEF FleetInv, Present
  <2>3. QED
    BY <2>1, <2>2
<1>7. ASSUME NEW n \in Nodes, PDelete(n) PROVE FleetInv'
  <2>1. ServersMove /\ nodes' = nodes
    BY <1>7, <1>a, DeletedServer, ServersKept DEF PDelete, serverVars
  <2>2. QED
    BY <1>7, <2>1, RoundWithout DEF PDelete, PRAt
<1>8. CASE PFails
  <2>1. UNCHANGED <<serverVars, nodes>>
    BY <1>8 DEF PFails
  <2>2. CASE pr' = [NoRound EXCEPT !.pc = "nodes", !.gone = Nodes \ Present]
    <3>1. /\ pr' \in Round /\ pr'.gone = Nodes \ Present /\ pr'.pc = "nodes"
          /\ pr'.listed = 0
      BY <2>2 DEF NoRound, Round
    <3>2. QED
      BY <1>d, <2>1, <3>1
  <2>3. CASE pr' = NoRound
    BY <1>b, <2>1, <2>3, RoundEnds
  <2>4. CASE /\ pr.pc \in {"nodes", "delete"}
             /\ \E n \in pr.todo : pr' = Without(n)
    BY <1>b, <2>1, <2>4, RoundWithout
  <2>5. QED
    BY <1>8, <2>2, <2>3, <2>4 DEF PFails
<1>9. QED
  BY <1>1, <1>2, <1>3, <1>4, <1>5, <1>6, <1>7, <1>8 DEF PStep

(* A node that leaves is noted by the round.                               *)
LEMMA NodeChangeKeeps ==
    ASSUME FleetInv, NEW n \in Nodes, NodeChange(n)
    PROVE  FleetInv'
<1>a. /\ FleetTypes /\ pr \in Round /\ version \in Nat
      /\ nodes \in [Nodes -> NodeStates]
      /\ pr.listed <= version /\ (pr.pc = "probing" => pr.cur \in Nodes)
  BY DEF FleetInv, FleetTypes
<1>1. PICK s \in NodeStates :
         /\ nodes' = [nodes EXCEPT ![n] = s]
         /\ pr' = IF s = "absent" /\ ~PRAt("idle")
                  THEN [pr EXCEPT !.gone = @ \cup {n}] ELSE pr
  BY DEF NodeChange
<1>2. ws' = ws /\ version' = version
  BY DEF NodeChange, serverVars
<1>3. /\ nodes' \in [Nodes -> NodeStates]
      /\ Nodes \ Present' \subseteq (Nodes \ Present) \cup {n}
      /\ s # "absent" => Nodes \ Present' \subseteq Nodes \ Present
  BY <1>a, <1>1 DEF Present
<1>4. CASE pr' = pr /\ (s # "absent" \/ pr.pc = "idle")
  <2>1. FleetTypes'
    BY <1>a, <1>2, <1>3, <1>4 DEF FleetTypes
  <2>2. QED
    BY <1>2, <1>3, <1>4, <2>1 DEF FleetInv
<1>5. CASE pr' = [pr EXCEPT !.gone = @ \cup {n}]
  <2>1. PICK S \in SUBSET Nodes : S = pr.gone \cup {n}
    BY <1>a DEF Round
  <2>2. pr' = [pr EXCEPT !.gone = S]
    BY <1>5, <2>1
  <2>3. /\ pr' \in Round /\ pr'.gone = S /\ pr'.known = pr.known
        /\ pr'.listed = pr.listed /\ pr'.pc = pr.pc /\ pr'.todo = pr.todo
        /\ pr'.cur = pr.cur
    BY <1>a, <2>2 DEF Round
  <2>4. FleetTypes'
    BY <1>a, <1>2, <1>3, <2>3 DEF FleetTypes
  <2>5. QED
    BY <1>2, <1>3, <2>1, <2>3, <2>4 DEF FleetInv
<1>6. QED
  BY <1>1, <1>4, <1>5 DEF PRAt

(* What users do to a WeftServer.                                          *)
LEMMA UserKeeps ==
    ASSUME FleetInv, NEW n \in Nodes,
           UserCreates(n) \/ UserMoves(n) \/ UserDeletes(n)
    PROVE  FleetInv'
<1>a. FleetTypes /\ version \in Nat
  BY DEF FleetInv, FleetTypes
<1>1. CASE UserCreates(n)
  <2>1. PICK l \in {"Internal", "External"}, b \in BOOLEAN :
          CreateServer(n, [NoServer EXCEPT !.loc = l, !.labelled = b])
    BY <1>1 DEF UserCreates
  <2>2. PICK obj : obj = [NoServer EXCEPT !.loc = l, !.labelled = b]
    OBVIOUS
  <2>3. ServerShape(obj)
    BY <2>2 DEF NoServer, ServerShape
  <2>4. CreateServer(n, obj)
    BY <2>1, <2>2
  <2>5. ServersMove
    BY <1>a, <2>3, <2>4, CreatedServer
  <2>6. QED
    BY <1>1, <2>5, RoundFrame DEF UserCreates
<1>2. CASE UserMoves(n)
  <2>1. PICK l : ws' = [ws EXCEPT ![n].loc = l, ![n].ver = version']
    BY <1>2 DEF UserMoves
  <2>2. PICK new : new = [ws[n] EXCEPT !.loc = l, !.ver = version']
    OBVIOUS
  <2>3. /\ ServerShape(new) /\ new.uid = ws[n].uid
        /\ new.labelled = ws[n].labelled
    BY <1>a, <2>2 DEF ServerShape, FleetTypes
  <2>4. ws' = [ws EXCEPT ![n] = new]
    BY <1>a, <2>1, <2>2 DEF FleetTypes
  <2>5. \A m \in Nodes : ws'[m] = IF m = n THEN new ELSE ws[m]
    BY <1>a, <2>4 DEF FleetTypes
  <2>6. version' \in Nat /\ version <= version'
    BY <1>2, <1>a DEF UserMoves
  <2>7. ServersMove
    BY <1>a, <2>3, <2>4, <2>5, <2>6 DEF ServersMove, FleetTypes
  <2>8. QED
    BY <1>2, <2>7, RoundFrame DEF UserMoves
<1>3. CASE UserDeletes(n)
  BY <1>3, <1>a, DeletedServer, RoundFrame DEF UserDeletes
<1>4. QED
  BY <1>1, <1>2, <1>3

LEMMA FleetStep == FleetInv /\ [FleetNext]_fleetVars => FleetInv'
<1> SUFFICES ASSUME FleetInv, [FleetNext]_fleetVars PROVE FleetInv'
  OBVIOUS
<1>a. FleetTypes
  BY DEF FleetInv
<1>b. ASSUME ws' = ws, version' = version, nodes' = nodes, pr' = pr
      PROVE  FleetInv'
  BY <1>a, <1>b, ServersKept, RoundFrame
<1>1. CASE Controller
  BY <1>1, <1>a, StatusWritten, RoundFrame DEF Controller
<1>2. CASE Prober
  BY <1>2, ProberStep DEF Prober
<1>3. CASE GarbageCollector
  BY <1>3, <1>b DEF GarbageCollector, Collect
<1>4. CASE FleetOutside
  <2>1. CASE PFails \/ PProbeLate
    BY <2>1, ProberStep
  <2>2. CASE FleetRestart
    BY <1>a, <2>2, ServersKept, RoundEnds DEF FleetRestart
  <2>3. CASE SFails /\ UNCHANGED <<nodes, pr>>
    BY <1>b, <2>3 DEF SFails
  <2>4. ASSUME NEW n \in Nodes,
               BackendChange(n) \/ \E k \in Kinds : ObjectLost(n, k)
        PROVE  FleetInv'
    BY <1>b, <2>4 DEF BackendChange, ObjectLost
  <2>5. QED
    BY <1>4, <2>1, <2>2, <2>3, <2>4, NodeChangeKeeps, UserKeeps
       DEF FleetOutside
<1>5. CASE UNCHANGED fleetVars
  BY <1>5, <1>b DEF fleetVars, serverVars
<1>6. QED
  BY <1>1, <1>2, <1>3, <1>4, <1>5 DEF FleetNext

(* Of the steps that move the round on, only PDelete removes a WeftServer. *)
LEMMA OnlyPDelete ==
    ASSUME FleetInv, [FleetNext]_fleetVars, NEW n \in Nodes,
           ws[n].uid # 0, ws'[n].uid = 0, pr' # pr
    PROVE  PRAt("delete") /\ n \in pr.todo
<1>a. /\ FleetTypes /\ ServerShape(ws[n]) /\ version \in Nat
      /\ pr.pc = "probing" => pr.cur \in Nodes
  BY DEF FleetInv, FleetTypes
<1>1. ASSUME ws' = ws PROVE FALSE
  BY <1>1
<1>2. ASSUME NEW m \in Nodes, PDelete(m) PROVE PRAt("delete") /\ n \in pr.todo
  BY <1>1, <1>2, <1>a DEF PDelete, DeleteServer, serverVars, FleetTypes
<1>3. ASSUME PProbed PROVE FALSE
  <2>1. PICK v \in Nat : v = version + 1
    BY <1>a
  <2>2. PICK obj : obj = [NoServer EXCEPT !.labelled = TRUE, !.conn = v]
    OBVIOUS
  <2>3. ServerShape(obj)
    BY <2>2 DEF NoServer, ServerShape
  <2>4. PICK new : new = [obj EXCEPT !.uid = v, !.ver = v]
    OBVIOUS
  <2>5. new.uid = v /\ v # 0
    BY <1>a, <2>1, <2>3, <2>4 DEF ServerShape
  <2>6. ws' = [ws EXCEPT ![pr.cur] = new]
    BY <1>1, <1>3, <2>1, <2>2, <2>4 DEF PProbed, CreateServer, serverVars
  <2>7. ws'[n] = new \/ ws'[n] = ws[n]
    BY <1>a, <2>6 DEF FleetTypes
  <2>8. QED
    BY <2>5, <2>7
<1>4. CASE PStep
  BY <1>1, <1>2, <1>3, <1>4 DEF PStep, PBegin, PProbeFails, PListNodes,
     PListServers, PProcess, serverVars
<1>5. ASSUME FleetOutside PROVE FALSE
  BY <1>1, <1>5 DEF FleetOutside, NodeChange, UserCreates, UserMoves,
     UserDeletes, BackendChange, ObjectLost, FleetRestart, PFails,
     PProbeLate, serverVars
<1>6. QED
  BY <1>4, <1>5 DEF FleetNext, Controller, Prober, GarbageCollector, fleetVars

(* cleanupOrphanedServers works from two lists that may be stale by the    *)
(* time it deletes, and deletes by name; with nodes coming and going and   *)
(* servers created meanwhile it still deletes the server of no node that   *)
(* was there throughout the round, and no server made by hand, unless that *)
(* one took the name of a listed one.                                      *)
THEOREM PresentAreSpared == FleetSpec => PresentNodesSpared
<1>1. FleetInit => FleetInv
  <2> SUFFICES ASSUME FleetInit PROVE FleetInv
    OBVIOUS
  <2>1. ServerShape(Existing)
    BY DEF Existing, NoServer, ServerShape
  <2>2. DOMAIN ws = Nodes /\ ws = [n \in Nodes |-> ws[n]]
    BY DEF FleetInit, ServerInit
  <2>3. \A n \in Nodes : ServerShape(ws[n])
    BY <2>1, RoundValues DEF FleetInit, ServerInit
  <2>4. nodes \in [Nodes -> NodeStates]
    BY DEF FleetInit, ProberInit, NodeStates
  <2>5. version \in Nat /\ pr = NoRound /\ 0 <= version
    BY DEF FleetInit, ServerInit, ProberInit
  <2>6. QED
    BY <2>2, <2>3, <2>4, <2>5, RoundValues DEF FleetInv, FleetTypes
<1>2. FleetInv /\ [FleetNext]_fleetVars =>
        [\A n \in Nodes :
           ws[n].uid # 0 /\ ws'[n].uid = 0 /\ pr' # pr =>
              n \in pr.gone /\ (ws[n].labelled \/ ws[n].uid > pr.listed)]_fleetVars
  BY OnlyPDelete DEF FleetInv, PRAt
<1>3. QED
  BY <1>1, <1>2, FleetStep, PTL DEF FleetSpec, PresentNodesSpared

-----------------------------------------------------------------------------
(* WebhookCert *)

Leaf == [ca: Nat, until: Nat]

TLSSecret == [ca: Nat, leaf: Leaf]

Replica == [pc: {"down", "rest", "write", "files", "configure"},
            copy: TLSSecret, data: TLSSecret, todo: SUBSET Files,
            crt: Leaf, key: Leaf, serving: BOOLEAN, served: Leaf,
            ticked: BOOLEAN, ok: BOOLEAN, age: Nat]

InSetup == {"write", "files", "configure"}

(* Of time: what Setup has in hand is good for LeafRenewBefore days from   *)
(* day d, what a replica has in its files and serves for as many days less *)
(* the days since its Setup last went through.                             *)
Renewed(o, d) ==
    /\ o.pc \in InSetup => /\ o.ticked
                           /\ o.data.leaf.ca = o.data.ca
                           /\ o.data.leaf.until >= d + LeafRenewBefore
    /\ o.pc \in {"files", "configure"} =>
          /\ "crt" \notin o.todo => o.crt = o.data.leaf
          /\ "key" \notin o.todo => o.key = o.data.leaf
    /\ o.pc = "configure" => o.todo = {}
    /\ o.serving /\ o.age <= LeafRenewBefore =>
          /\ o.served.until + o.age >= d + LeafRenewBefore
          /\ o.crt.until + o.age >= d + LeafRenewBefore
          /\ o.key.until + o.age >= d + LeafRenewBefore
    /\ o.ok /\ d < MaxDay =>
          /\ o.ticked /\ o.pc = "rest" /\ o.crt = o.key
          /\ o.crt.until >= d + LeafRenewBefore

(* Of trust, with s in the Secret and b as caBundle: there is one CA.      *)
Signed(o, s, b) ==
    /\ s.ca = 0 => ~o.serving /\ o.pc \notin {"files", "configure"}
    /\ o.pc = "write" => /\ o.data.ca # 0
                         /\ o.copy = NoSecret \/ (s.ca # 0 /\ o.copy.ca = s.ca)
                         /\ o.copy.ca # 0 => o.data.ca = o.copy.ca
    /\ o.pc \in {"files", "configure"} => o.data.ca = s.ca
    /\ o.serving => /\ o.served.ca = s.ca /\ o.crt.ca = s.ca
                    /\ o.key.ca = s.ca /\ b = s.ca

WebhookTypes ==
    /\ day \in Nat /\ cas \in Nat /\ caBundle \in Nat /\ lost \in BOOLEAN
    /\ sec \in TLSSecret
    /\ op \in [Replicas -> Replica]

WebhookInv ==
    /\ WebhookTypes
    /\ \A p \in Replicas : Renewed(op[p], day)
    /\ ~lost => /\ sec.ca = 0 => sec = NoSecret
                /\ \A p \in Replicas : Signed(op[p], sec, caBundle)

LEMMA WebhookValues ==
    /\ NoLeaf \in Leaf
    /\ NoSecret \in TLSSecret /\ NoSecret.ca = 0
    /\ Down \in Replica /\ Down.pc = "down" /\ ~Down.serving /\ ~Down.ok
BY DEF NoLeaf, NoSecret, Down, Leaf, TLSSecret, Replica

(* A step of one replica, whatever it does to the Secret and the caBundle. *)
LEMMA OneReplica ==
    ASSUME WebhookInv, NEW p \in Replicas, NEW v \in Replica,
           op' = [op EXCEPT ![p] = v], day' = day, lost' = lost,
           sec' \in TLSSecret, caBundle' \in Nat, cas' \in Nat,
           Renewed(v, day),
           ~lost => /\ sec'.ca = 0 => sec' = NoSecret
                    /\ Signed(v, sec', caBundle')
                    /\ \A q \in Replicas \ {p} : Signed(op[q], sec', caBundle')
    PROVE  WebhookInv'
<1>1. \A q \in Replicas : op'[q] = IF q = p THEN v ELSE op[q]
  BY DEF WebhookInv, WebhookTypes
<1>2. WebhookTypes'
  BY <1>1 DEF WebhookInv, WebhookTypes
<1>3. \A q \in Replicas : Renewed(op'[q], day')
  BY <1>1 DEF WebhookInv
<1>4. ~lost' => \A q \in Replicas : Signed(op'[q], sec', caBundle')
  BY <1>1
<1>5. QED
  BY <1>2, <1>3, <1>4 DEF WebhookInv

(* The same with the Secret and the caBundle as they were.                 *)
LEMMA ReplicaAlone ==
    ASSUME WebhookInv, NEW p \in Replicas, NEW v \in Replica,
           op' = [op EXCEPT ![p] = v], day' = day, lost' = lost,
           sec' = sec, caBundle' = caBundle, cas' \in Nat,
           Renewed(v, day), ~lost => Signed(v, sec, caBundle)
    PROVE  WebhookInv'
<1>1. sec \in TLSSecret /\ caBundle \in Nat
  BY DEF WebhookInv, WebhookTypes
<1>2. ~lost => /\ sec'.ca = 0 => sec' = NoSecret
               /\ Signed(v, sec', caBundle')
               /\ \A q \in Replicas \ {p} : Signed(op[q], sec', caBundle')
  BY DEF WebhookInv
<1>3. QED
  BY <1>1, <1>2, OneReplica

(* A replica between two Setups, or whose Setup has failed.                *)
LEMMA AbandonedShape ==
    ASSUME NEW o \in Replica
    PROVE  /\ Abandoned(o) \in Replica
           /\ Abandoned(o).pc \in {"rest", "down"}
           /\ o.serving => Abandoned(o).pc = "rest"
           /\ Abandoned(o).serving = o.serving /\ Abandoned(o).served = o.served
           /\ Abandoned(o).crt = o.crt /\ Abandoned(o).key = o.key
           /\ Abandoned(o).ticked = o.ticked /\ Abandoned(o).ok = o.ok
           /\ Abandoned(o).age = o.age
BY WebhookValues DEF Abandoned, Replica

LEMMA AbandonedKeeps ==
    ASSUME NEW o \in Replica, NEW d \in Nat, o.pc \in InSetup, Renewed(o, d)
    PROVE  /\ Renewed(Abandoned(o), d)
           /\ \A s, b : Signed(o, s, b) => Signed(Abandoned(o), s, b)
<1>1. PICK v \in Replica : v = Abandoned(o)
  BY AbandonedShape
<1>2. /\ v.pc \in {"rest", "down"}
      /\ v.serving = o.serving /\ v.served = o.served
      /\ v.crt = o.crt /\ v.key = o.key
      /\ v.ticked = o.ticked /\ v.ok = o.ok /\ v.age = o.age
  BY <1>1, AbandonedShape
<1>3. ~(o.ok /\ d < MaxDay)
  BY DEF Renewed, InSetup
<1>4. Renewed(v, d)
  BY <1>2, <1>3 DEF Renewed, InSetup
<1>5. \A s, b : Signed(o, s, b) => Signed(v, s, b)
  BY <1>2 DEF Signed
<1>6. QED
  BY <1>1, <1>4, <1>5

(* What Setup takes in hand when it reads the Secret: a certificate of one *)
(* CA, the Secret's if it has one, and not close to its expiry.            *)
LEMMA ReadSecretKeeps ==
    ASSUME WebhookInv, NEW p \in Replicas, ReadSecret(p)
    PROVE  WebhookInv'
<1>a. /\ day \in Nat /\ cas \in Nat /\ sec \in TLSSecret
      /\ op[p] \in Replica /\ op \in [Replicas -> Replica]
      /\ Renewed(op[p], day)
      /\ ~lost => /\ sec.ca = 0 => sec = NoSecret
                  /\ Signed(op[p], sec, caBundle)
  BY DEF WebhookInv, WebhookTypes
<1>b. LeafValidity \in Nat /\ LeafRenewBefore \in Nat
      /\ LeafRenewBefore < LeafValidity
  BY WebhookAssumption
<1>1. PICK ca \in Nat : ca = IF sec.ca = 0 THEN cas + 1 ELSE sec.ca
  BY <1>a DEF TLSSecret
<1>2. ca # 0 /\ (sec.ca # 0 => ca = sec.ca)
  BY <1>a, <1>1
<1>3. PICK till \in Nat : till = day + LeafValidity
  BY <1>a, <1>b
<1>4. PICK leaf : leaf = IF RenewalReason(sec.leaf, ca)
                         THEN [ca |-> ca, until |-> till] ELSE sec.leaf
  OBVIOUS
<1>5. leaf \in Leaf /\ leaf.ca = ca /\ leaf.until >= day + LeafRenewBefore
  <2>1. CASE RenewalReason(sec.leaf, ca)
    <3>1. leaf = [ca |-> ca, until |-> till]
      BY <1>4, <2>1
    <3>2. leaf \in Leaf /\ leaf.ca = ca /\ leaf.until = till
      BY <3>1 DEF Leaf
    <3>3. QED
      BY <1>a, <1>b, <1>3, <3>2
  <2>2. CASE ~RenewalReason(sec.leaf, ca)
    <3>1. leaf = sec.leaf /\ leaf \in Leaf /\ leaf.until \in Nat
      BY <1>a, <1>4, <2>2 DEF TLSSecret, Leaf
    <3>2. QED
      BY <1>a, <1>b, <2>2, <3>1 DEF RenewalReason
  <2>3. QED
    BY <2>1, <2>2
<1>6. PICK dat : dat = [ca |-> ca, leaf |-> leaf]
  OBVIOUS
<1>7. dat \in TLSSecret /\ dat.ca = ca /\ dat.leaf = leaf
  BY <1>5, <1>6 DEF TLSSecret
<1>8. PICK v : v = [op[p] EXCEPT !.pc = "write", !.ticked = TRUE,
                                 !.copy = sec, !.data = dat]
  OBVIOUS
<1>9. /\ v \in Replica /\ v.pc = "write" /\ v.copy = sec /\ v.data = dat
      /\ v.ticked
      /\ v.serving = op[p].serving /\ v.served = op[p].served
      /\ v.crt = op[p].crt /\ v.key = op[p].key
      /\ v.ok = op[p].ok /\ v.age = op[p].age
  BY <1>a, <1>7, <1>8 DEF Replica
<1>10. op' = [op EXCEPT ![p] = v]
  BY <1>a, <1>1, <1>3, <1>4, <1>6, <1>8 DEF ReadSecret
<1>11. ~(op[p].ok /\ day < MaxDay)
  BY <1>a DEF ReadSecret, SetupDue, OpAt, Renewed
<1>12. Renewed(v, day)
  BY <1>a, <1>5, <1>7, <1>9, <1>11 DEF Renewed, InSetup
<1>13. ~lost => Signed(v, sec, caBundle)
  BY <1>a, <1>2, <1>7, <1>9 DEF Signed
<1>14. cas' \in Nat
  BY <1>a DEF ReadSecret
<1>15. QED
  BY <1>9, <1>10, <1>12, <1>13, <1>14, ReplicaAlone DEF ReadSecret

(* The Secret gets its CA once: who read it before fails to write.         *)
LEMMA WriteSecretKeeps ==
    ASSUME WebhookInv, NEW p \in Replicas, WriteSecret(p)
    PROVE  WebhookInv'
<1>a. /\ day \in Nat /\ cas \in Nat /\ sec \in TLSSecret /\ caBundle \in Nat
      /\ op \in [Replicas -> Replica] /\ op[p] \in Replica
      /\ op[p].copy \in TLSSecret /\ op[p].data \in TLSSecret
      /\ \A q \in Replicas : op[q] \in Replica /\ Renewed(op[q], day)
      /\ ~lost => /\ sec.ca = 0 => sec = NoSecret
                  /\ \A q \in Replicas : Signed(op[q], sec, caBundle)
      /\ op[p].pc = "write"
  BY DEF WebhookInv, WebhookTypes, Replica, WriteSecret, OpAt
<1>1. CASE op' = [op EXCEPT ![p] = Abandoned(@)] /\ sec' = sec
  <2>1. Abandoned(op[p]) \in Replica
    BY <1>a, AbandonedShape
  <2>2. /\ Renewed(Abandoned(op[p]), day)
        /\ ~lost => Signed(Abandoned(op[p]), sec, caBundle)
    BY <1>a, AbandonedKeeps DEF InSetup
  <2>3. QED
    BY <1>a, <1>1, <2>1, <2>2, ReplicaAlone DEF WriteSecret
<1>2. CASE /\ op[p].data = op[p].copy \/ sec = op[p].copy
           /\ sec' = IF op[p].data = op[p].copy THEN sec ELSE op[p].data
           /\ op' = [op EXCEPT ![p].pc = "files", ![p].todo = Files]
  <2>1. PICK v : v = [op[p] EXCEPT !.pc = "files", !.todo = Files]
    OBVIOUS
  <2>2. /\ v \in Replica /\ v.pc = "files" /\ v.todo = Files
        /\ v.data = op[p].data /\ v.ticked = op[p].ticked
        /\ v.serving = op[p].serving /\ v.served = op[p].served
        /\ v.crt = op[p].crt /\ v.key = op[p].key
        /\ v.ok = op[p].ok /\ v.age = op[p].age
    BY <1>a, <2>1 DEF Replica
  <2>3. op' = [op EXCEPT ![p] = v]
    BY <1>a, <1>2, <2>1
  <2>4. ~(op[p].ok /\ day < MaxDay)
    BY <1>a DEF Renewed
  <2>5. Renewed(v, day)
    BY <1>a, <2>2, <2>4 DEF Renewed, InSetup, Files
  <2>6. sec' \in TLSSecret /\ (sec' = sec \/ sec' = op[p].data)
    BY <1>a, <1>2
  <2>7. ASSUME ~lost
        PROVE  /\ sec'.ca # 0 /\ sec'.ca = op[p].data.ca
               /\ sec.ca = 0 \/ sec'.ca = sec.ca
    <3>1. Signed(op[p], sec, caBundle)
      BY <1>a, <2>7
    <3>2. QED
      BY <1>2, <1>a, <2>7, <3>1, WebhookValues DEF Signed
  <2>8. ASSUME ~lost PROVE Signed(v, sec', caBundle)
    BY <1>a, <2>2, <2>7, <2>8 DEF Signed
  <2>9. ASSUME ~lost, NEW q \in Replicas
        PROVE  Signed(op[q], sec', caBundle)
    BY <1>a, <2>7, <2>9 DEF Signed
  <2>10. /\ day' = day /\ lost' = lost /\ caBundle' = caBundle /\ cas' = cas
    BY DEF WriteSecret
  <2>11. QED
    BY <1>a, <2>2, <2>3, <2>5, <2>6, <2>7, <2>8, <2>9, <2>10, OneReplica
<1>3. QED
  BY <1>1, <1>2 DEF WriteSecret

LEMMA WriteFileKeeps ==
    ASSUME WebhookInv, NEW p \in Replicas, NEW f \in Files, WriteFile(p, f)
    PROVE  WebhookInv'
<1>a. /\ day \in Nat /\ cas \in Nat
      /\ op \in [Replicas -> Replica] /\ op[p] \in Replica
      /\ op[p].data \in TLSSecret /\ op[p].data.leaf \in Leaf
      /\ op[p].crt \in Leaf /\ op[p].key \in Leaf /\ op[p].todo \subseteq Files
      /\ op[p].age \in Nat /\ op[p].data.leaf.until \in Nat
      /\ Renewed(op[p], day)
      /\ ~lost => Signed(op[p], sec, caBundle)
      /\ op[p].pc = "files" /\ f \in op[p].todo
      /\ LeafRenewBefore \in Nat
  BY WebhookAssumption
     DEF WebhookInv, WebhookTypes, Replica, TLSSecret, Leaf, WriteFile, OpAt
<1>1. PICK c \in Leaf : c = IF f = "crt" THEN op[p].data.leaf ELSE op[p].crt
  BY <1>a
<1>2. PICK k \in Leaf : k = IF f = "key" THEN op[p].data.leaf ELSE op[p].key
  BY <1>a
<1>3. PICK t \in SUBSET Files : t = op[p].todo \ {f}
  BY <1>a
<1>4. PICK pc \in {"files", "configure"} :
         pc = IF op[p].todo = {f} THEN "configure" ELSE "files"
  OBVIOUS
<1>5. PICK v : v = [op[p] EXCEPT !.crt = c, !.key = k, !.todo = t, !.pc = pc]
  OBVIOUS
<1>6. /\ v \in Replica /\ v.pc = pc /\ v.todo = t /\ v.crt = c /\ v.key = k
      /\ v.data = op[p].data /\ v.ticked = op[p].ticked
      /\ v.serving = op[p].serving /\ v.served = op[p].served
      /\ v.ok = op[p].ok /\ v.age = op[p].age
  BY <1>a, <1>5 DEF Replica
<1>7. op' = [op EXCEPT ![p] = v]
  <2>1. PICK u : u = [op[p] EXCEPT
                        !.crt = IF f = "crt" THEN op[p].data.leaf ELSE @,
                        !.key = IF f = "key" THEN op[p].data.leaf ELSE @,
                        !.todo = @ \ {f},
                        !.pc = IF op[p].todo = {f} THEN "configure" ELSE "files"]
    OBVIOUS
  <2>2. u = v
    BY <1>1, <1>2, <1>3, <1>4, <1>5, <2>1
  <2>3. op' = [op EXCEPT ![p] = u]
    BY <2>1 DEF WriteFile
  <2>4. QED
    BY <2>2, <2>3
<1>8. ~(op[p].ok /\ day < MaxDay)
  BY <1>a DEF Renewed
<1>9. pc = "configure" => t = {}
  BY <1>3, <1>4
<1>10. op[p].data.leaf.until + op[p].age >= day + LeafRenewBefore
  BY <1>a DEF Renewed, InSetup
<1>11. Renewed(v, day)
  <2>1. /\ "crt" \notin t => c = op[p].data.leaf
        /\ "key" \notin t => k = op[p].data.leaf
    BY <1>a, <1>1, <1>2, <1>3 DEF Renewed, Files
  <2>2. op[p].serving /\ op[p].age <= LeafRenewBefore =>
          /\ op[p].served.until + op[p].age >= day + LeafRenewBefore
          /\ c.until + op[p].age >= day + LeafRenewBefore
          /\ k.until + op[p].age >= day + LeafRenewBefore
    BY <1>a, <1>1, <1>2, <1>10 DEF Renewed
  <2>3. /\ op[p].ticked /\ op[p].data.leaf.ca = op[p].data.ca
        /\ op[p].data.leaf.until >= day + LeafRenewBefore
    BY <1>a DEF Renewed, InSetup
  <2>4. QED
    BY <1>6, <1>8, <1>9, <2>1, <2>2, <2>3 DEF Renewed
<1>12. ~lost => Signed(v, sec, caBundle)
  BY <1>a, <1>1, <1>2, <1>6 DEF Signed, Renewed, InSetup
<1>13. cas' \in Nat
  BY <1>a DEF WriteFile
<1>14. QED
  BY <1>6, <1>7, <1>11, <1>12, <1>13, ReplicaAlone DEF WriteFile

LEMMA EnsureConfigurationKeeps ==
    ASSUME WebhookInv, NEW p \in Replicas, EnsureConfiguration(p)
    PROVE  WebhookInv'
<1>a. /\ day \in Nat /\ cas \in Nat /\ sec \in TLSSecret
      /\ op \in [Replicas -> Replica] /\ op[p] \in Replica
      /\ op[p].data \in TLSSecret /\ op[p].data.leaf \in Leaf
      /\ op[p].data.ca \in Nat /\ op[p].crt \in Leaf /\ op[p].served \in Leaf
      /\ op[p].age \in Nat /\ op[p].data.leaf.until \in Nat
      /\ Renewed(op[p], day)
      /\ ~lost => \A q \in Replicas : Signed(op[q], sec, caBundle)
      /\ ~lost /\ sec.ca = 0 => sec = NoSecret
      /\ op[p].pc = "configure"
      /\ LeafRenewBefore \in Nat
  BY WebhookAssumption
     DEF WebhookInv, WebhookTypes, Replica, TLSSecret, Leaf,
         EnsureConfiguration, OpAt
<1>1. PICK o \in Replica : o = [op[p] EXCEPT !.serving = TRUE]
  BY <1>a DEF Replica
<1>2. /\ o.serving /\ o.served = op[p].served /\ o.crt = op[p].crt
      /\ o.key = op[p].key /\ o.ticked = op[p].ticked /\ o.age = op[p].age
  BY <1>a, <1>1 DEF Replica
<1>3. PICK w \in Replica : w = Abandoned(o)
  BY AbandonedShape
<1>4. /\ w.serving /\ w.served = op[p].served /\ w.crt = op[p].crt
      /\ w.key = op[p].key /\ w.ticked = op[p].ticked /\ w.age = op[p].age
      /\ w.pc = "rest"
  BY <1>2, <1>3, AbandonedShape
<1>5. PICK l \in Leaf : l = IF op[p].serving THEN op[p].served ELSE op[p].crt
  BY <1>a
<1>6. PICK v : v = [w EXCEPT !.ok = TRUE, !.served = l]
  OBVIOUS
<1>7. /\ v \in Replica /\ v.pc = "rest" /\ v.serving /\ v.served = l
      /\ v.crt = op[p].crt /\ v.key = op[p].key /\ v.ticked = op[p].ticked
      /\ v.age = op[p].age
  BY <1>4, <1>6 DEF Replica
<1>8. op' = [op EXCEPT ![p] = v]
  <2>1. PICK u : u = [Abandoned([op[p] EXCEPT !.serving = TRUE]) EXCEPT
                        !.ok = TRUE,
                        !.served = IF op[p].serving THEN op[p].served
                                   ELSE op[p].crt]
    OBVIOUS
  <2>2. u = [w EXCEPT !.ok = TRUE, !.served = IF op[p].serving THEN op[p].served
                                              ELSE op[p].crt]
    BY <1>1, <1>3, <2>1
  <2>3. u = v
    BY <1>4, <1>5, <1>6, <2>2
  <2>4. op' = [op EXCEPT ![p] = u]
    BY <2>1 DEF EnsureConfiguration
  <2>5. QED
    BY <2>3, <2>4
<1>9. /\ op[p].crt = op[p].data.leaf /\ op[p].key = op[p].data.leaf
      /\ op[p].ticked /\ op[p].data.leaf.ca = op[p].data.ca
      /\ op[p].data.leaf.until >= day + LeafRenewBefore
  BY <1>a DEF Renewed, InSetup
<1>10. op[p].data.leaf.until + op[p].age >= day + LeafRenewBefore
  BY <1>a, <1>9
<1>11. Renewed(v, day)
  <2>1. op[p].age <= LeafRenewBefore => l.until + op[p].age >= day + LeafRenewBefore
    BY <1>a, <1>5, <1>9, <1>10 DEF Renewed
  <2>2. QED
    BY <1>7, <1>9, <1>10, <2>1, <1>a DEF Renewed, InSetup
<1>12. ASSUME ~lost
       PROVE  /\ Signed(v, sec, caBundle')
              /\ \A q \in Replicas : Signed(op[q], sec, caBundle')
  <2>1. caBundle' = sec.ca /\ sec.ca # 0 /\ l.ca = sec.ca
    BY <1>a, <1>5, <1>9, <1>12 DEF Signed, EnsureConfiguration
  <2>2. QED
    BY <1>a, <1>7, <1>9, <1>12, <2>1 DEF Signed, EnsureConfiguration
<1>13. /\ day' = day /\ lost' = lost /\ sec' = sec /\ cas' = cas
       /\ caBundle' = op[p].data.ca
  BY DEF EnsureConfiguration
<1>14. QED
  BY <1>a, <1>7, <1>8, <1>11, <1>12, <1>13, OneReplica

(* The certificate watcher and the election touch one field of a replica.  *)
LEMMA ReloadKeeps ==
    ASSUME WebhookInv, NEW p \in Replicas, Reload(p) \/ Elect(p)
    PROVE  WebhookInv'
<1>a. /\ day \in Nat /\ cas \in Nat
      /\ op \in [Replicas -> Replica] /\ op[p] \in Replica
      /\ op[p].crt \in Leaf
      /\ Renewed(op[p], day)
      /\ ~lost => Signed(op[p], sec, caBundle)
  BY DEF WebhookInv, WebhookTypes, Replica
<1>b. /\ day' = day /\ lost' = lost /\ sec' = sec /\ cas' \in Nat
      /\ caBundle' = caBundle
  BY <1>a DEF Reload, Elect
<1>1. CASE Reload(p)
  <2>1. PICK v : v = [op[p] EXCEPT !.served = op[p].crt]
    OBVIOUS
  <2>2. /\ v \in Replica /\ v.pc = op[p].pc /\ v.todo = op[p].todo
        /\ v.copy = op[p].copy /\ v.data = op[p].data
        /\ v.crt = op[p].crt /\ v.key = op[p].key
        /\ v.ticked = op[p].ticked /\ v.serving = op[p].serving
        /\ v.served = op[p].crt
        /\ v.ok = op[p].ok /\ v.age = op[p].age
    BY <1>a, <2>1 DEF Replica
  <2>3. op' = [op EXCEPT ![p] = v]
    BY <1>a, <1>1, <2>1 DEF Reload
  <2>4. Renewed(v, day)
    BY <1>a, <2>2 DEF Renewed
  <2>5. ~lost => Signed(v, sec, caBundle)
    BY <1>a, <2>2 DEF Signed
  <2>6. QED
    BY <1>b, <2>2, <2>3, <2>4, <2>5, ReplicaAlone
<1>2. CASE Elect(p)
  <2>1. PICK v : v = [op[p] EXCEPT !.ticked = TRUE]
    OBVIOUS
  <2>2. /\ v \in Replica /\ v.pc = op[p].pc /\ v.todo = op[p].todo
        /\ v.copy = op[p].copy /\ v.data = op[p].data
        /\ v.crt = op[p].crt /\ v.key = op[p].key
        /\ v.ticked /\ v.serving = op[p].serving
        /\ v.served = op[p].served
        /\ v.ok = op[p].ok /\ v.age = op[p].age
    BY <1>a, <2>1 DEF Replica
  <2>3. op' = [op EXCEPT ![p] = v]
    BY <1>a, <1>2, <2>1 DEF Elect
  <2>4. Renewed(v, day)
    BY <1>a, <2>2 DEF Renewed
  <2>5. ~lost => Signed(v, sec, caBundle)
    BY <1>a, <2>2 DEF Signed
  <2>6. QED
    BY <1>b, <2>2, <2>3, <2>4, <2>5, ReplicaAlone
<1>3. QED
  BY <1>1, <1>2

(* A Setup that fails and a process that ends.                             *)
LEMMA StopKeeps ==
    ASSUME WebhookInv, NEW p \in Replicas, SetupFails(p) \/ Stop(p)
    PROVE  WebhookInv'
<1>a. /\ day \in Nat /\ cas \in Nat
      /\ op \in [Replicas -> Replica] /\ op[p] \in Replica
      /\ Renewed(op[p], day)
      /\ ~lost => Signed(op[p], sec, caBundle)
  BY DEF WebhookInv, WebhookTypes
<1>b. /\ day' = day /\ lost' = lost /\ sec' = sec /\ cas' \in Nat
      /\ caBundle' = caBundle
  BY <1>a DEF SetupFails, Stop
<1>1. CASE SetupFails(p)
  <2>1. Abandoned(op[p]) \in Replica
    BY <1>a, AbandonedShape
  <2>2. /\ Renewed(Abandoned(op[p]), day)
        /\ ~lost => Signed(Abandoned(op[p]), sec, caBundle)
    BY <1>a, <1>1, AbandonedKeeps DEF SetupFails, InSetup
  <2>3. op' = [op EXCEPT ![p] = Abandoned(op[p])]
    BY <1>1 DEF SetupFails
  <2>4. QED
    BY <1>b, <2>1, <2>2, <2>3, ReplicaAlone
<1>2. CASE Stop(p)
  <2>1. Renewed(Down, day)
    BY WebhookValues DEF Renewed, InSetup
  <2>2. Signed(Down, sec, caBundle)
    BY WebhookValues DEF Signed
  <2>3. op' = [op EXCEPT ![p] = Down]
    BY <1>2 DEF Stop
  <2>4. QED
    BY <1>b, <2>1, <2>2, <2>3, ReplicaAlone, WebhookValues
<1>3. QED
  BY <1>1, <1>2

(* A day passes: what a replica serves is one day closer to its expiry,    *)
(* and its Setup one day older, unless it went through today; then the     *)
(* files fit and have been loaded.                                         *)
LEMMA NextDayKeeps ==
    ASSUME WebhookInv, NextDay
    PROVE  WebhookInv'
<1>c. day < MaxDay /\ day' = day + 1 /\ UNCHANGED <<sec, caBundle, cas, lost>>
  BY ZenonT(30) DEF NextDay
<1>a. /\ day \in Nat /\ cas \in Nat /\ sec \in TLSSecret /\ caBundle \in Nat
      /\ lost \in BOOLEAN /\ MaxDay \in Nat
      /\ op \in [Replicas -> Replica]
      /\ LeafRenewBefore \in Nat /\ LeafRenewBefore >= 1
      /\ day < MaxDay
      /\ ~lost => /\ sec.ca = 0 => sec = NoSecret
                  /\ \A p \in Replicas : Signed(op[p], sec, caBundle)
  BY <1>c, WebhookAssumption DEF WebhookInv, WebhookTypes
<1>b. /\ day' = day + 1 /\ day' \in Nat /\ cas' = cas /\ sec' = sec
      /\ caBundle' = caBundle /\ lost' = lost
  BY <1>a, <1>c
<1>1. ASSUME NEW p \in Replicas
      PROVE  /\ op'[p] \in Replica /\ Renewed(op'[p], day')
             /\ \A s, b : Signed(op[p], s, b) => Signed(op'[p], s, b)
  <2>a. /\ op[p] \in Replica /\ op[p].age \in Nat /\ op[p].pc = "rest"
        /\ Renewed(op[p], day)
        /\ op[p].served \in Leaf /\ op[p].crt \in Leaf /\ op[p].key \in Leaf
        /\ op[p].serving /\ op[p].crt = op[p].key => op[p].served = op[p].crt
    BY <1>a DEF WebhookInv, Replica, NextDay, DayDone, OpAt, Stale
  <2>b. /\ op[p].served.until \in Nat /\ op[p].crt.until \in Nat
        /\ op[p].key.until \in Nat
    BY <2>a DEF Leaf
  <2>1. PICK a \in Nat : a = IF op[p].ok THEN 1
                             ELSE IF op[p].age > LeafRenewBefore THEN op[p].age
                             ELSE op[p].age + 1
    BY <2>a
  <2>2. PICK v : v = [op[p] EXCEPT !.ticked = FALSE, !.ok = FALSE, !.age = a]
    OBVIOUS
  <2>3. /\ v \in Replica /\ v.pc = "rest" /\ ~v.ok /\ v.age = a
        /\ v.serving = op[p].serving /\ v.served = op[p].served
        /\ v.crt = op[p].crt /\ v.key = op[p].key
    BY <2>a, <2>2 DEF Replica
  <2>4. op'[p] = v
    <3>1. PICK u : u = [op[p] EXCEPT !.ticked = FALSE, !.ok = FALSE,
                              !.age = IF op[p].ok THEN 1
                                      ELSE IF @ > LeafRenewBefore THEN @
                                      ELSE @ + 1]
      OBVIOUS
    <3>2. u = v
      BY <2>1, <2>2, <3>1
    <3>3. op'[p] = u
      BY <3>1 DEF NextDay
    <3>4. QED
      BY <3>2, <3>3
  <2>5. op[p].serving /\ a <= LeafRenewBefore =>
          /\ op[p].served.until + a >= day' + LeafRenewBefore
          /\ op[p].crt.until + a >= day' + LeafRenewBefore
          /\ op[p].key.until + a >= day' + LeafRenewBefore
    <3>1. CASE op[p].ok
      <4>1. /\ a = 1 /\ op[p].crt = op[p].key
            /\ op[p].crt.until >= day + LeafRenewBefore
        BY <1>a, <2>a, <2>1, <3>1 DEF Renewed
      <4>2. QED
        BY <1>a, <1>b, <2>a, <2>b, <4>1
    <3>2. CASE ~op[p].ok /\ op[p].age > LeafRenewBefore
      BY <1>a, <2>a, <2>1, <3>2
    <3>3. CASE ~op[p].ok /\ ~(op[p].age > LeafRenewBefore)
      BY <1>a, <1>b, <2>a, <2>b, <2>1, <3>3 DEF Renewed
    <3>4. QED
      BY <3>1, <3>2, <3>3
  <2>6. Renewed(v, day')
    BY <2>3, <2>5 DEF Renewed, InSetup
  <2>7. \A s, b : Signed(op[p], s, b) => Signed(v, s, b)
    BY <2>a, <2>3 DEF Signed
  <2>8. QED
    BY <2>3, <2>4, <2>6, <2>7
<1>2. op' \in [Replicas -> Replica]
  BY <1>1 DEF NextDay
<1>3. WebhookTypes'
  BY <1>a, <1>b, <1>2 DEF WebhookTypes
<1>4. QED
  BY <1>a, <1>b, <1>1, <1>3 DEF WebhookInv

LEMMA LastDayKeeps ==
    ASSUME WebhookInv, LastDayAgain
    PROVE  WebhookInv'
<1>a. /\ op \in [Replicas -> Replica] /\ day = MaxDay /\ MaxDay \in Nat
      /\ ~lost => \A p \in Replicas : Signed(op[p], sec, caBundle)
  BY WebhookAssumption DEF WebhookInv, WebhookTypes, LastDayAgain
<1>b. UNCHANGED <<day, sec, caBundle, cas, lost>>
  BY DEF LastDayAgain
<1>1. ASSUME NEW p \in Replicas
      PROVE  /\ op'[p] \in Replica /\ Renewed(op'[p], day)
             /\ \A s, b : Signed(op[p], s, b) => Signed(op'[p], s, b)
  <2>a. op[p] \in Replica /\ op[p].pc = "rest" /\ Renewed(op[p], day)
    BY <1>a DEF WebhookInv, LastDayAgain, DayDone, OpAt
  <2>1. PICK v : v = [op[p] EXCEPT !.ticked = FALSE]
    OBVIOUS
  <2>2. /\ v \in Replica /\ v.pc = "rest" /\ v.age = op[p].age
        /\ v.serving = op[p].serving /\ v.served = op[p].served
        /\ v.crt = op[p].crt /\ v.key = op[p].key
    BY <2>a, <2>1 DEF Replica
  <2>3. op'[p] = v
    BY <2>1 DEF LastDayAgain
  <2>4. ~(day < MaxDay)
    BY <1>a
  <2>5. Renewed(v, day)
    BY <2>a, <2>2, <2>4 DEF Renewed, InSetup
  <2>6. \A s, b : Signed(op[p], s, b) => Signed(v, s, b)
    BY <2>a, <2>2 DEF Signed
  <2>7. QED
    BY <2>2, <2>3, <2>5, <2>6
<1>2. op' \in [Replicas -> Replica]
  BY <1>1 DEF LastDayAgain
<1>3. QED
  BY <1>a, <1>b, <1>1, <1>2 DEF WebhookInv, WebhookTypes

LEMMA WebhookStep == WebhookInv /\ [WebhookNext]_webhookVars => WebhookInv'
<1> SUFFICES ASSUME WebhookInv, [WebhookNext]_webhookVars PROVE WebhookInv'
  OBVIOUS
<1>1. CASE LoseSecret
  <2>1. sec' \in TLSSecret
    <3>1. CASE sec' = NoSecret
      BY <3>1, WebhookValues
    <3>2. CASE sec' = [sec EXCEPT !.ca = 0]
      BY <3>2 DEF WebhookInv, WebhookTypes, TLSSecret
    <3>3. QED
      BY <1>1, <3>1, <3>2 DEF LoseSecret
  <2>2. QED
    BY <1>1, <2>1 DEF LoseSecret, WebhookInv, WebhookTypes
<1>2. CASE UNCHANGED webhookVars
  BY <1>2 DEF webhookVars, WebhookInv, WebhookTypes
<1>3. ASSUME NEW p \in Replicas, SetupStep(p) PROVE WebhookInv'
  BY <1>3, ReadSecretKeeps, WriteSecretKeeps, WriteFileKeeps,
     EnsureConfigurationKeeps DEF SetupStep
<1>4. QED
  BY <1>1, <1>2, <1>3, ReloadKeeps, StopKeeps, NextDayKeeps, LastDayKeeps
     DEF WebhookNext, WebhookOutside

(* "The webhook is never briefly untrusted", with any number of replicas   *)
(* setting up at the same time, renewing, failing and stopping half way,   *)
(* for every certificate lifetime and every renewal margin.                *)
THEOREM WebhookIsTrusted == WebhookSpec => []WebhookTrusted
<1>1. WebhookInit => WebhookInv
  <2> SUFFICES ASSUME WebhookInit PROVE WebhookInv
    OBVIOUS
  <2>1. WebhookTypes
    BY WebhookValues DEF WebhookInit, WebhookTypes
  <2>2. \A p \in Replicas : op[p] = Down
    BY DEF WebhookInit
  <2>3. Renewed(Down, day) /\ Signed(Down, sec, caBundle) /\ sec = NoSecret
    BY WebhookValues DEF WebhookInit, Renewed, Signed, InSetup
  <2>4. QED
    BY <2>1, <2>2, <2>3 DEF WebhookInv
<1>2. WebhookInv => WebhookTrusted
  <2> SUFFICES ASSUME WebhookInv, ~lost, NEW p \in Replicas, op[p].serving,
                      op[p].age <= LeafRenewBefore
               PROVE  op[p].served.ca = caBundle /\ day <= op[p].served.until
    BY DEF WebhookTrusted
  <2>1. /\ op[p] \in Replica /\ day \in Nat /\ LeafRenewBefore \in Nat
        /\ Renewed(op[p], day) /\ Signed(op[p], sec, caBundle)
    BY WebhookAssumption DEF WebhookInv, WebhookTypes
  <2>2. op[p].age \in Nat /\ op[p].served \in Leaf
    BY <2>1 DEF Replica
  <2>3. op[p].served.until \in Nat
    BY <2>2 DEF Leaf
  <2>4. op[p].served.until + op[p].age >= day + LeafRenewBefore
    BY <2>1 DEF Renewed
  <2>5. op[p].served.ca = caBundle
    BY <2>1 DEF Signed
  <2>6. QED
    BY <2>1, <2>2, <2>3, <2>4, <2>5
<1>3. QED
  BY <1>1, <1>2, WebhookStep, PTL DEF WebhookSpec
=============================================================================
