---------------------------- MODULE ConsumerTokens ----------------------------
(***************************************************************************)
(* The tokens the gateway gives to workers:                                *)
(* orchestrator/src/core/consumer-token.ts.  A token is a signed JWT the   *)
(* worker keeps; the manager keeps its metadata, its rate limit and a      *)
(* mirror of the revoked ids in memory, and the revoked ids in Redis.      *)
(*                                                                         *)
(* The methods are synchronous: each is one step.  What is not is the      *)
(* client of Redis, which connects and loads the revoked ids while         *)
(* requests are served, and whose SADDs nobody awaits.  Left out: the      *)
(* claims of a token that nothing here reads, and listings.                *)
(***************************************************************************)
EXTENDS Clock, Sequences

CONSTANTS
    Tokens,         \* the ids that will be generated
    Workers,
    Owner,          \* the worker each token is generated for
    Lives,          \* how long a token may live: it depends on the role
    Limit,          \* requests per window
    Window,         \* the length of a window
    Extensions,     \* the times extendToken() adds
    TokenFaults     \* what may fail: "redis" (commands of the client are rejected)

ASSUME OwnerAssumption == Owner \in [Tokens -> Workers]
ASSUME LimitAssumption == Limit \in Nat \ {0} /\ Window \in Nat /\ Lives \subseteq Nat
ASSUME ExtensionsAssumption == Extensions \subseteq Nat
ASSUME NoEntryAssumption == None \notin [count : 0 .. Limit, start : Nat]

VARIABLES
    jwt,            \* the expiry signed into each token, which no restart changes
    stored,         \* tokens: the expiry in the metadata
    rate,           \* rateLimits
    mirror,         \* revokedMirror
    client,         \* redisClient: none, or connected with the ids loading, loaded, or not loaded
    redis,          \* the members of turing_os_revoked_tokens
    sadds,          \* SADDs on their way
    revoked,        \* history: was the token revoked by this process, or an earlier one?
    served          \* history: when this process has let in the token's requests

tokenVars == <<jwt, stored, rate, mirror, client, redis, sadds, revoked, served>>

Entry == [count : 0 .. Limit, start : Nat]

TokensInit ==
    /\ jwt = [t \in Tokens |-> None]
    /\ stored = [t \in Tokens |-> None]
    /\ rate = [t \in Tokens |-> None]
    /\ mirror = {} /\ client = "none" /\ redis = {} /\ sadds = {}
    /\ revoked = [t \in Tokens |-> "no"]
    /\ served = [t \in Tokens |-> << >>]

-----------------------------------------------------------------------------
GenerateToken(t) ==
    /\ jwt[t] = None
    /\ \E life \in Lives : /\ jwt' = [jwt EXCEPT ![t] = now + life]
                           /\ stored' = [stored EXCEPT ![t] = now + life]
    /\ UNCHANGED <<rate, mirror, client, redis, sadds, revoked, served>>

(* validateToken(): a token the manager does not know is as good as its JWT.    *)
Valid(t) ==
    /\ jwt[t] # None /\ now < jwt[t]
    /\ t \notin mirror
    /\ stored[t] # None => stored[t] >= now

(* checkRateLimit(): windows of fixed length, the first request opens one.      *)
WindowOver(t) == rate[t] = None \/ now - rate[t].start > Window

(* (Variant: a window that is over starts again where it started.)              *)
CurrentOldStart(t) ==
    IF rate[t] = None THEN [count |-> 0, start |-> now]
    ELSE IF WindowOver(t) THEN [rate[t] EXCEPT !.count = 0] ELSE rate[t]

Current(t) == IF WindowOver(t) THEN [count |-> 0, start |-> now] ELSE rate[t]

(* (Variant: one request too many.)                                             *)
AllowedOneMore(t) == Current(t).count <= Limit

Allowed(t) == Current(t).count < Limit

(* A request with token t is let in and counted.  (One that is not valid or not *)
(* allowed changes nothing.)                                                    *)
LetIn(t) ==
    /\ Valid(t) /\ Allowed(t)
    /\ rate' = [rate EXCEPT ![t] = [Current(t) EXCEPT !.count = @ + 1]]
    /\ served' = [served EXCEPT ![t] = Append(@, now)]
    /\ UNCHANGED <<jwt, stored, mirror, client, redis, sadds, revoked>>

(* _persistRevocation(): nothing is sent before the client is there.            *)
Persisted(S) ==
    /\ mirror' = mirror \cup S
    /\ sadds' = IF client = "none" THEN sadds ELSE sadds \cup {S}

(* Tokens S lose their metadata and their counter, and are revoked.             *)
Revoke(S) ==
    /\ stored' = [t \in Tokens |-> IF t \in S THEN None ELSE stored[t]]
    /\ rate' = [t \in Tokens |-> IF t \in S THEN None ELSE rate[t]]
    /\ Persisted(S)
    /\ revoked' = [t \in Tokens |-> IF t \in S THEN "now" ELSE revoked[t]]
    /\ UNCHANGED <<jwt, client, redis, served>>

RevokeToken(t) == jwt[t] # None /\ Revoke({t})

OfWorker(w) == {t \in Tokens : stored[t] # None /\ Owner[t] = w}

RevokeWorkerTokens(w) == OfWorker(w) # {} /\ Revoke(OfWorker(w))

(* extendToken() changes the metadata, not what is signed.  (Past the last      *)
(* instant of a run an extension makes no difference.)                          *)
ExtendToken(t) ==
    /\ stored[t] # None /\ stored[t] <= MaxTime
    /\ \E more \in Extensions : stored' = [stored EXCEPT ![t] = @ + more]
    /\ UNCHANGED <<jwt, rate, mirror, client, redis, sadds, revoked, served>>

ExpiredTokens == {t \in Tokens : stored[t] # None /\ stored[t] < now}

Kept(old) == [t \in Tokens |-> IF t \in ExpiredTokens THEN None ELSE old[t]]

CleanupExpiredTokens ==
    /\ ExpiredTokens # {}
    /\ stored' = Kept(stored)
    /\ rate' = Kept(rate)
    /\ UNCHANGED <<jwt, mirror, client, redis, sadds, revoked, served>>

-----------------------------------------------------------------------------
(* _initRedis(): the client is there before the revoked ids are.                *)
ConnectTokens ==
    /\ client = "none"
    /\ client' = "loading"
    /\ UNCHANGED <<jwt, stored, rate, mirror, redis, sadds, revoked, served>>

(* (Variant: what Redis knows replaces the mirror.)                             *)
MirrorReplaced == redis

MirrorLoaded == mirror \cup redis

LoadRevoked ==
    /\ client = "loading"
    /\ \/ client' = "loaded" /\ mirror' = MirrorLoaded
       \/ "redis" \in TokenFaults /\ client' = "unloaded" /\ UNCHANGED mirror
    /\ UNCHANGED <<jwt, stored, rate, redis, sadds, revoked, served>>

(* A SADD is executed, or rejected, which is only logged.                       *)
SaddEnds(S) ==
    /\ S \in sadds
    /\ sadds' = sadds \ {S}
    /\ redis' = redis \cup S \/ ("redis" \in TokenFaults /\ UNCHANGED redis)
    /\ UNCHANGED <<jwt, stored, rate, mirror, client, revoked, served>>

(* The orchestrator restarts: the tokens the workers hold and what has reached  *)
(* Redis are all that is left.                                                  *)
TokensRestart ==
    /\ \E sent \in SUBSET sadds : redis' = redis \cup UNION sent
    /\ stored' = [t \in Tokens |-> None]
    /\ rate' = [t \in Tokens |-> None]
    /\ mirror' = {} /\ client' = "none" /\ sadds' = {}
    /\ revoked' = [t \in Tokens |-> IF revoked[t] = "now" THEN "before" ELSE revoked[t]]
    /\ served' = [t \in Tokens |-> << >>]
    /\ UNCHANGED jwt

TokenAdmin ==
    \/ \E t \in Tokens : RevokeToken(t) \/ ExtendToken(t)
    \/ \E w \in Workers : RevokeWorkerTokens(w)
    \/ CleanupExpiredTokens

TokenRedis == ConnectTokens \/ LoadRevoked \/ \E S \in sadds : SaddEnds(S)

(* The tokens by themselves.                                                    *)
TokensNext ==
    \/ (\E t \in Tokens : GenerateToken(t) \/ LetIn(t)) /\ UNCHANGED now
    \/ (TokenAdmin \/ TokenRedis \/ TokensRestart) /\ UNCHANGED now
    \/ Tick /\ UNCHANGED tokenVars

TokensStart == now = 0 /\ TokensInit

TokensSpec == TokensStart /\ [][TokensNext]_<<now, tokenVars>>

-----------------------------------------------------------------------------
TokensTypeOK ==
    /\ now \in Nat
    /\ jwt \in [Tokens -> Nat \cup {None}]
    /\ stored \in [Tokens -> Nat \cup {None}]
    /\ rate \in [Tokens -> Entry \cup {None}]
    /\ mirror \in SUBSET Tokens /\ redis \in SUBSET Tokens
    /\ client \in {"none", "loading", "loaded", "unloaded"}
    /\ sadds \in SUBSET (SUBSET Tokens)
    /\ revoked \in [Tokens -> {"no", "before", "now"}]
    /\ served \in [Tokens -> Seq(Nat)]

(* "Redis is the source of truth across restarts" (consumer-token.ts:74).  A    *)
(* token is refused from its revocation on as long as the process lives,        *)
(* whatever the client is doing, and after a restart as soon as the ids are     *)
(* loaded, provided the SADD was executed.                                      *)
RevokedRefused ==
    \A t \in Tokens :
        Valid(t) => revoked[t] # "now" /\ ~ (client = "loaded" /\ t \in redis)

(* Windows are fixed, so a token may be served twice its limit within the       *)
(* length of one window, across the border of two; never more, whatever is      *)
(* cleaned up, extended or revoked in between.                                  *)
RateBounded ==
    \A t \in Tokens : \A i \in DOMAIN served[t] :
        i + 2 * Limit <= Len(served[t]) => served[t][i] + Window < served[t][i + 2 * Limit]

(* "Redis is the source of truth across restarts": no token that was revoked is *)
(* let in again.                                                                *)
RevokedForGood == \A t \in Tokens : Valid(t) => revoked[t] = "no"

(* "Extend token expiration" (consumer-token.ts:323): a token whose metadata    *)
(* say that it lives is let in.                                                 *)
ExtendedLives ==
    \A t \in Tokens : stored[t] # None /\ stored[t] >= now => Valid(t)
=============================================================================
