------------------------------ MODULE JWTCache ------------------------------
(***************************************************************************)
(* The HTTP client the AquaductTaaS and DNSRecord controllers share: one   *)
(* access token, exchanged at authz for a short-lived JWT that is cached,  *)
(* and requests to aquaduct.dev that are retried once after a 401.  The    *)
(* mutex covers single accesses to the cache; logging in and sending       *)
(* happen outside of it, so the calls of the two controllers interleave.   *)
(***************************************************************************)
EXTENDS Naturals

CONSTANTS
    Callers,        \* the goroutines that use the client
    Rotations,      \* bound on how often aquaduct.dev rejects older JWTs
    ClientFailures  \* bound on failing HTTP exchanges

ASSUME JWTAssumption == Rotations \in Nat /\ ClientFailures \in Nat

VARIABLES
    epoch,    \* aquaduct.dev accepts the JWTs minted since rotation `epoch'
    cache,    \* the cached JWT
    call,     \* per caller: the call under way
    last,     \* per caller: how its last call ended
    failures  \* failing exchanges so far

jwtVars == <<epoch, cache, call, last, failures>>

(* A JWT is the epoch it was minted in; expiresAt is only compared with    *)
(* the clock.                                                              *)
NoJWT == [jwt |-> 0, fresh |-> FALSE]

(* A call: its attempt and the JWT it holds; started (the epoch when it    *)
(* began) and stale (an outdated JWT was cached since) are history.        *)
NoCall == [pc |-> "idle", attempt |-> 0, jwt |-> 0, started |-> 0,
           stale |-> FALSE]

JWTInit ==
    /\ epoch = 1
    /\ cache = NoJWT
    /\ call = [c \in Callers |-> NoCall]
    /\ last = [c \in Callers |-> "none"]
    /\ failures = 0

CallAt(c, pc) == call[c].pc = pc

Ends(c, how) ==
    /\ call' = [call EXCEPT ![c] = NoCall]
    /\ last' = [last EXCEPT ![c] = how]

BeginCall(c) ==
    /\ CallAt(c, "idle")
    /\ call' = [call EXCEPT ![c] = [NoCall EXCEPT !.pc = "get",
                                                  !.started = epoch]]
    /\ UNCHANGED <<epoch, cache, last, failures>>

(* getJWT, under the mutex: a cached JWT that has not expired is taken.    *)
GetJWT(c) ==
    /\ CallAt(c, "get")
    /\ call' = [call EXCEPT ![c] =
                  IF cache.fresh
                  THEN [@ EXCEPT !.pc = "send", !.jwt = cache.jwt]
                  ELSE [@ EXCEPT !.pc = "login"]]
    /\ UNCHANGED <<epoch, cache, last, failures>>

(* login: authz mints a JWT for the access token ...                       *)
Login(c) ==
    /\ CallAt(c, "login")
    /\ call' = [call EXCEPT ![c].pc = "store", ![c].jwt = epoch]
    /\ UNCHANGED <<epoch, cache, last, failures>>

(* ... which getJWT stores, over whatever is there by now.  Without a      *)
(* positive expires_in it is stored as expired.                            *)
Store(c) ==
    /\ CallAt(c, "store")
    /\ \E fresh \in BOOLEAN : cache' = [jwt |-> call[c].jwt, fresh |-> fresh]
    /\ call' = [o \in Callers |->
                  IF o = c THEN [call[c] EXCEPT !.pc = "send"]
                  ELSE [call[o] EXCEPT !.stale = @ \/ /\ ~CallAt(o, "idle")
                                                      /\ call[c].jwt # epoch]]
    /\ UNCHANGED <<epoch, last, failures>>

(* Mutant: a 401 is an error like any other.                               *)
SendNoRetry(c) ==
    /\ CallAt(c, "send")
    /\ Ends(c, IF call[c].jwt = epoch THEN "answered" ELSE "failed")
    /\ UNCHANGED <<epoch, cache, failures>>

(* authedRequest: the first 401 leads to another attempt.                  *)
Send(c) ==
    /\ CallAt(c, "send")
    /\ \/ /\ call[c].jwt = epoch
          /\ Ends(c, "answered")
       \/ /\ call[c].jwt # epoch
          /\ call[c].attempt = 0
          /\ call' = [call EXCEPT ![c].pc = "clear"]
          /\ UNCHANGED last
       \/ /\ call[c].jwt # epoch
          /\ call[c].attempt = 1
          /\ Ends(c, "unauthorized")
    /\ UNCHANGED <<epoch, cache, failures>>

(* Mutant: only an expired JWT is dropped.                                 *)
ClearJWTIfExpired(c) ==
    /\ CallAt(c, "clear")
    /\ cache' = IF cache.fresh THEN cache ELSE NoJWT
    /\ call' = [call EXCEPT ![c].pc = "get", ![c].attempt = 1]
    /\ UNCHANGED <<epoch, last, failures>>

(* clearJWT drops what is cached, another caller's newer JWT included.     *)
ClearJWT(c) ==
    /\ CallAt(c, "clear")
    /\ cache' = NoJWT
    /\ call' = [call EXCEPT ![c].pc = "get", ![c].attempt = 1]
    /\ UNCHANGED <<epoch, last, failures>>

CallStep(c) ==
    \/ BeginCall(c) \/ GetJWT(c) \/ Login(c) \/ Store(c) \/ Send(c)
    \/ ClearJWT(c)

(* The exchange with authz or aquaduct.dev fails.                          *)
ExchangeFails(c) ==
    /\ call[c].pc \in {"login", "send"}
    /\ failures < ClientFailures
    /\ failures' = failures + 1
    /\ Ends(c, "failed")
    /\ UNCHANGED <<epoch, cache>>

(* aquaduct.dev stops accepting the JWTs minted so far.                    *)
Rotate ==
    /\ epoch <= Rotations
    /\ epoch' = epoch + 1
    /\ UNCHANGED <<cache, call, last, failures>>

(* The cached JWT comes within the grace period of its expiry.             *)
Expire ==
    /\ cache.fresh
    /\ cache' = [cache EXCEPT !.fresh = FALSE]
    /\ UNCHANGED <<epoch, call, last, failures>>

JWTNext ==
    \/ \E c \in Callers : CallStep(c) \/ ExchangeFails(c)
    \/ Rotate
    \/ Expire

(* Reconcilers keep calling, and their calls go on.                        *)
JWTFairness == \A c \in Callers : WF_jwtVars(CallStep(c))

JWTSpec == JWTInit /\ [][JWTNext]_jwtVars /\ JWTFairness

-----------------------------------------------------------------------------
(* authedRequest hides a rotation: the access token being good, a 401 gets *)
(* to the caller (who takes it to mean that a domain is somebody else's)   *)
(* only if aquaduct.dev rotated while the call ran, or another caller's    *)
(* login overtaken by a rotation put its JWT into the cache meanwhile.     *)
RotationHidden ==
    [][\A c \in Callers :
         CallAt(c, "send") /\ last'[c] = "unauthorized" /\ call'[c].pc = "idle" =>
            call[c].started # epoch \/ call[c].stale]_jwtVars

(* The calls of every controller are answered.                             *)
AllAnswered == \A c \in Callers : last[c] = "answered"

(* Rotation and expiry are self-healing: once aquaduct.dev leaves the JWTs *)
(* alone, every call is answered from some point on (authedRequest).       *)
RotationHeals == <>[]AllAnswered
=============================================================================
