---------------------------- MODULE GatewayProofs ----------------------------
(***************************************************************************)
(* Proofs about the gateway: about its tokens and its vault by themselves, *)
(* for any tokens, workers, credentials, limits, times and faults; that    *)
(* every step of the gateway is a step of the two, so that what holds of   *)
(* each holds of the gateway; and the accounting of the audit log.         *)
(***************************************************************************)
EXTENDS Gateway, FiniteSetTheorems, TLAPS

-----------------------------------------------------------------------------
(***************************************************************************)
(* The tokens by themselves.                                               *)
(***************************************************************************)
tvars == <<now, tokenVars>>

(* What the mirror knows: what this process has revoked, what it has sent, and  *)
(* once loaded all that Redis has.                                              *)
MirrorInv ==
    /\ \A t \in Tokens : revoked[t] = "now" => t \in mirror
    /\ \A S \in sadds : S \subseteq mirror
    /\ client = "loaded" => redis \subseteq mirror

(* Where the counted requests of a token fall: up to q before the last window,  *)
(* up to p in the last one, then in the current one.                            *)
Falls(s, e, q, p) ==
    /\ q <= p /\ p <= Len(s)
    /\ p - q <= Limit /\ Len(s) - p <= e.count
    /\ \A i \in 1 .. q : s[i] + Window < e.start
    /\ \A i \in 1 .. p : s[i] < e.start
    /\ \A i \in p + 1 .. Len(s) : e.start <= s[i] /\ s[i] <= e.start + Window

Counted(s, e) == \E q, p \in Nat : Falls(s, e, q, p)

Finished(t) == t \in mirror \/ (jwt[t] # None /\ jwt[t] < now)

ServedInv ==
    /\ \A t \in Tokens : stored[t] # None => jwt[t] # None /\ jwt[t] <= stored[t]
    /\ \A t \in Tokens : rate[t] = None => served[t] = << >> \/ Finished(t)
    /\ \A t \in Tokens : rate[t] # None => rate[t].start <= now /\ Counted(served[t], rate[t])

(* Any 2 * Limit + 1 requests in a row span more than a window.                 *)
Spread(s) ==
    \A i \in DOMAIN s : i + 2 * Limit <= Len(s) => s[i] + Window < s[i + 2 * Limit]

TokensInv == TokensTypeOK /\ MirrorInv /\ ServedInv /\ RateBounded

-----------------------------------------------------------------------------
(* A request more, in a window that goes on or in a new one: it is counted, and *)
(* the requests stay spread.                                                    *)
LEMMA SpreadGrows ==
    ASSUME NEW s \in Seq(Nat), NEW e \in Entry, NEW at \in Nat,
           Spread(s), Counted(Append(s, at), e), e.start <= at
    PROVE  Spread(Append(s, at))
  <1> DEFINE z == Append(s, at)
  <1>1. z \in Seq(Nat) /\ Len(z) = Len(s) + 1 /\ Len(s) \in Nat
    OBVIOUS
  <1>2. (\A i \in 1 .. Len(s) : z[i] = s[i]) /\ z[Len(z)] = at
    OBVIOUS
  <1>3. DOMAIN z = 1 .. Len(z) /\ DOMAIN s = 1 .. Len(s)
    OBVIOUS
  <1>4. e.count \in 0 .. Limit /\ e.start \in Nat /\ Window \in Nat /\ Limit \in Nat \ {0}
    BY LimitAssumption DEF Entry
  <1>5. PICK q \in Nat, p \in Nat : Falls(z, e, q, p)
    BY DEF Counted
  <1> HIDE DEF z
  <1>6. ASSUME NEW i \in 1 .. Len(z), i + 2 * Limit <= Len(z)
        PROVE  z[i] + Window < z[i + 2 * Limit]
    <2>1. CASE i + 2 * Limit <= Len(s)
      <3>1. i \in 1 .. Len(s) /\ i + 2 * Limit \in 1 .. Len(s)
        BY <1>1, <1>4, <2>1
      <3>2. s[i] + Window < s[i + 2 * Limit]
        BY <3>1, <2>1, <1>3 DEF Spread
      <3> QED BY <3>1, <3>2, <1>2
    <2>2. CASE i + 2 * Limit = Len(z)
      <3>1. i \in 1 .. q
        <4>1. p - q <= Limit /\ Len(z) - p <= Limit
          BY <1>4, <1>5 DEF Falls
        <4> QED BY <4>1, <1>1, <1>4, <2>2
      <3>2. z[i] + Window < e.start
        BY <3>1, <1>5 DEF Falls
      <3>3. z[i] \in Nat
        BY <1>1, <1>6
      <3>4. z[i + 2 * Limit] = at
        BY <1>2, <2>2
      <3> QED BY <3>2, <3>3, <3>4, <1>4
    <2>3. i + 2 * Limit \in Nat /\ i + 2 * Limit <= Len(s) + 1
      BY <1>1, <1>4, <1>6
    <2> QED BY <1>1, <2>1, <2>2, <2>3
  <1> QED BY <1>3, <1>6 DEF Spread, z

(* A request is let in: it falls into the window that is open, or into a new    *)
(* one, and the one before ends.                                                *)
LEMMA LetInCounts ==
    ASSUME TokensInv, NEW t \in Tokens, LetIn(t)
    PROVE  /\ rate'[t] \in Entry /\ rate'[t] # None /\ rate'[t].start <= now
           /\ Counted(Append(served[t], now), rate'[t])
  <1> DEFINE s == served[t]
             z == Append(s, now)
             e == rate'[t]
  <1>1. rate[t] \in Entry \cup {None} /\ s \in Seq(Nat) /\ now \in Nat
    BY DEF TokensInv, TokensTypeOK
  <1>2. Window \in Nat /\ Limit \in Nat \ {0}
    BY LimitAssumption
  <1>3. e = [Current(t) EXCEPT !.count = @ + 1] /\ Current(t).count < Limit
    BY DEF LetIn, Allowed, TokensInv, TokensTypeOK
  <1>4. z \in Seq(Nat) /\ Len(z) = Len(s) + 1 /\ Len(s) \in Nat
        /\ (\A i \in 1 .. Len(s) : z[i] = s[i]) /\ z[Len(z)] = now
    BY <1>1
  <1>5. (\A i \in 1 .. Len(s) : s[i] \in Nat)
    BY <1>1
  <1> HIDE DEF s, z, e
  <1>6. CASE rate[t] = None
    <2>1. e = [count |-> 1, start |-> now]
      BY <1>3, <1>6 DEF Current, WindowOver
    <2>2. s = << >>
      <3>1. ~ Finished(t)
        BY DEF TokensInv, TokensTypeOK, LetIn, Valid, Finished
      <3> QED BY <3>1, <1>6 DEF TokensInv, ServedInv, s
    <2>3. Len(s) = 0
      BY <2>2
    <2>4. Falls(z, e, 0, 0)
      BY <2>1, <2>3, <1>1, <1>2, <1>4 DEF Falls
    <2> QED BY <2>1, <2>4, <1>1, <1>2, NoEntryAssumption DEF Counted, Entry, s, z, e
  <1>7. CASE rate[t] # None
    <2>1. PICK q \in Nat, p \in Nat : Falls(s, rate[t], q, p)
      BY <1>7 DEF TokensInv, ServedInv, Counted, s
    <2>2. rate[t] \in Entry /\ rate[t].start <= now
      BY <1>1, <1>7 DEF TokensInv, ServedInv
    <2>3. rate[t].count \in 0 .. Limit /\ rate[t].start \in Nat
      BY <2>2 DEF Entry
    <2>4. CASE WindowOver(t)
      <3>1. e = [count |-> 1, start |-> now]
        BY <1>3, <2>4 DEF Current
      <3>2. rate[t].start + Window < now
        BY <2>4, <1>1, <1>2, <1>7, <2>3 DEF WindowOver
      <3>3. \A i \in 1 .. p : z[i] + Window < now
        <4>1. \A i \in 1 .. p : i \in 1 .. Len(s) /\ s[i] < rate[t].start
          BY <2>1, <1>4 DEF Falls
        <4>2. \A i \in 1 .. p : z[i] = s[i] /\ s[i] \in Nat
          BY <4>1, <1>4, <1>5
        <4>3. ASSUME NEW i \in 1 .. p PROVE z[i] + Window < now
          <5>1. z[i] = s[i] /\ s[i] \in Nat /\ s[i] < rate[t].start
            BY <4>1, <4>2
          <5> QED BY <5>1, <3>2, <1>1, <1>2, <2>3
        <4> QED BY <4>3
      <3>4. \A i \in 1 .. Len(s) : z[i] < now
        <4>1. \A i \in 1 .. Len(s) : s[i] <= rate[t].start + Window
          <5> SUFFICES ASSUME NEW i \in 1 .. Len(s)
                       PROVE  s[i] <= rate[t].start + Window
            OBVIOUS
          <5>1. CASE i \in 1 .. p
            BY <5>1, <2>1, <1>2, <1>5, <2>3 DEF Falls
          <5>2. CASE i \in p + 1 .. Len(s)
            BY <5>2, <2>1 DEF Falls
          <5> QED BY <5>1, <5>2, <1>4
        <4>2. ASSUME NEW i \in 1 .. Len(s) PROVE z[i] < now
          <5>1. z[i] = s[i] /\ s[i] \in Nat /\ s[i] <= rate[t].start + Window
            BY <4>1, <1>4, <1>5
          <5> QED BY <5>1, <3>2, <1>1, <1>2, <2>3
        <4> QED BY <4>2
      <3>5. Falls(z, e, p, Len(s))
        <4>1. p <= Len(s) /\ Len(s) <= Len(z) /\ Len(s) - p <= Limit /\ Len(z) - Len(s) <= e.count
          BY <3>1, <2>1, <2>3, <1>2, <1>4 DEF Falls
        <4>2. \A i \in Len(s) + 1 .. Len(z) : e.start <= z[i] /\ z[i] <= e.start + Window
          <5>1. \A i \in Len(s) + 1 .. Len(z) : i = Len(z)
            BY <1>4
          <5> QED BY <5>1, <3>1, <1>1, <1>2, <1>4
        <4> QED BY <4>1, <4>2, <3>1, <3>3, <3>4 DEF Falls
      <3>6. e \in Entry /\ e # None /\ e.start <= now
        BY <3>1, <1>1, <1>2, NoEntryAssumption DEF Entry
      <3> QED BY <3>5, <3>6, <1>4 DEF Counted, s, z, e
    <2>5. CASE ~ WindowOver(t)
      <3>1. e = [rate[t] EXCEPT !.count = @ + 1] /\ rate[t].count < Limit
        BY <1>3, <2>5 DEF Current
      <3>2. e.count = rate[t].count + 1 /\ e.start = rate[t].start /\ e \in Entry
        BY <3>1, <2>2, <1>2 DEF Entry
      <3>3. now <= rate[t].start + Window
        BY <2>5, <1>1, <1>2, <2>3 DEF WindowOver
      <3>4. Falls(z, e, q, p)
        <4>1. q <= p /\ p <= Len(z) /\ p - q <= Limit /\ Len(z) - p <= e.count
          BY <3>2, <2>1, <2>3, <1>4 DEF Falls
        <4>2. /\ \A i \in 1 .. q : i \in 1 .. Len(s) /\ s[i] + Window < e.start
              /\ \A i \in 1 .. p : i \in 1 .. Len(s) /\ s[i] < e.start
          BY <3>2, <2>1, <1>4 DEF Falls
        <4>3. \A i \in p + 1 .. Len(z) : e.start <= z[i] /\ z[i] <= e.start + Window
          <5> SUFFICES ASSUME NEW i \in p + 1 .. Len(z)
                       PROVE  e.start <= z[i] /\ z[i] <= e.start + Window
            OBVIOUS
          <5>1. CASE i \in p + 1 .. Len(s)
            BY <5>1, <3>2, <2>1, <1>4 DEF Falls
          <5>2. CASE i = Len(z)
            BY <5>2, <3>2, <3>3, <2>2, <1>4
          <5> QED BY <5>1, <5>2, <1>4
        <4> QED BY <4>1, <4>2, <4>3, <1>4 DEF Falls
      <3>5. e # None
        BY <3>2, NoEntryAssumption DEF Entry
      <3> QED BY <3>2, <3>4, <3>5, <2>2 DEF Counted, s, z, e
    <2> QED BY <2>4, <2>5
  <1> QED BY <1>6, <1>7

LEMMA TokensInitInv == now = 0 /\ TokensInit => TokensInv
  <1> SUFFICES ASSUME now = 0, TokensInit PROVE TokensInv
    OBVIOUS
  <1>1. TokensTypeOK
    BY DEF TokensInit, TokensTypeOK
  <1>2. MirrorInv
    BY DEF TokensInit, MirrorInv
  <1>3. ServedInv
    BY DEF TokensInit, ServedInv
  <1>4. RateBounded
    BY LimitAssumption DEF TokensInit, RateBounded
  <1> QED BY <1>1, <1>2, <1>3, <1>4 DEF TokensInv

LEMMA RevokeKeeps ==
    ASSUME TokensInv, NEW S \in SUBSET Tokens, Revoke(S), now' = now
    PROVE  TokensInv'
  <1> USE DEF TokensInv
  <1>1. TokensTypeOK'
    BY DEF TokensTypeOK, Revoke, Persisted
  <1>2. MirrorInv'
    BY DEF MirrorInv, TokensTypeOK, Revoke, Persisted
  <1>3. ServedInv'
    <2>1. \A t \in Tokens : Finished(t) => Finished(t)'
      BY DEF TokensTypeOK, Revoke, Persisted, Finished
    <2>2. \A t \in S : Finished(t)'
      BY DEF Revoke, Persisted, Finished
    <2>3. \A t \in Tokens \ S : rate'[t] = rate[t] /\ stored'[t] = stored[t]
      BY DEF Revoke
    <2>4. \A t \in S : rate'[t] = None /\ stored'[t] = None
      BY DEF Revoke
    <2>5. jwt' = jwt /\ served' = served
      BY DEF Revoke
    <2> QED BY <2>1, <2>2, <2>3, <2>4, <2>5 DEF ServedInv, Counted, Falls
  <1>4. RateBounded'
    BY DEF Revoke, RateBounded
  <1> QED BY <1>1, <1>2, <1>3, <1>4

LEMMA LetInKeeps ==
    ASSUME TokensInv, NEW t \in Tokens, LetIn(t), now' = now
    PROVE  TokensInv'
  <1> USE DEF TokensInv
  <1>1. /\ rate'[t] \in Entry /\ rate'[t] # None /\ rate'[t].start <= now
        /\ Counted(Append(served[t], now), rate'[t])
    BY LetInCounts
  <1>2. /\ served' = [served EXCEPT ![t] = Append(@, now)]
        /\ \A u \in Tokens : u # t => rate'[u] = rate[u]
        /\ UNCHANGED <<jwt, stored, mirror, client, redis, sadds, revoked>>
        /\ now \in Nat /\ served \in [Tokens -> Seq(Nat)]
        /\ DOMAIN rate' = Tokens
    BY DEF LetIn, TokensTypeOK
  <1>3. TokensTypeOK'
    <2>1. rate' \in [Tokens -> Entry \cup {None}]
      BY <1>1, <1>2 DEF TokensTypeOK, LetIn
    <2>2. served' \in [Tokens -> Seq(Nat)]
      BY <1>2
    <2> QED BY <2>1, <2>2, <1>2 DEF TokensTypeOK
  <1>4. MirrorInv'
    BY <1>2 DEF MirrorInv
  <1>5. ServedInv'
    <2>1. served'[t] = Append(served[t], now) /\ \A u \in Tokens : u # t => served'[u] = served[u]
      BY <1>2
    <2>2. \A u \in Tokens : Finished(u)' = Finished(u)
      BY <1>2 DEF Finished
    <2>3. \A u \in Tokens : u # t => (Counted(served[u], rate[u]))' = Counted(served[u], rate[u])
      BY <1>2, <2>1 DEF Counted, Falls
    <2>4. (Counted(served[t], rate[t]))'
      BY <1>1, <2>1 DEF Counted, Falls
    <2> QED BY <1>1, <1>2, <2>1, <2>2, <2>3, <2>4 DEF ServedInv
  <1>6. RateBounded'
    <2>1. Spread(served[t])
      BY DEF RateBounded, Spread
    <2>2. Spread(Append(served[t], now))
      BY <1>1, <1>2, <2>1, SpreadGrows
    <2>3. \A u \in Tokens : Spread(served'[u])
      BY <1>2, <2>2 DEF RateBounded, Spread
    <2> QED BY <2>3 DEF RateBounded, Spread
  <1> QED BY <1>3, <1>4, <1>5, <1>6

(* What changes neither the counters nor what was served keeps ServedInv, when  *)
(* no token comes back to life.                                                 *)
LEMMA ServedKept ==
    ASSUME TokensInv, UNCHANGED <<rate, served>>, now <= now', now' \in Nat,
           \A t \in Tokens : stored'[t] # None => jwt'[t] # None /\ jwt'[t] <= stored'[t],
           \A t \in Tokens : Finished(t) => Finished(t)'
    PROVE  ServedInv' /\ RateBounded'
  <1>1. RateBounded'
    BY DEF TokensInv, RateBounded
  <1>2. \A t \in Tokens : (Counted(served[t], rate[t]))' = Counted(served[t], rate[t])
    BY DEF Counted, Falls
  <1>3. \A t \in Tokens : rate[t] # None => rate[t].start \in Nat /\ rate[t].start <= now'
    BY DEF TokensInv, TokensTypeOK, ServedInv, Entry
  <1> QED BY <1>1, <1>2, <1>3 DEF TokensInv, ServedInv

LEMMA TokensStepInv == TokensInv /\ [TokensNext]_tvars => TokensInv'
  <1> SUFFICES ASSUME TokensInv, [TokensNext]_tvars PROVE TokensInv'
    OBVIOUS
  <1>0. now \in Nat
    BY DEF TokensInv, TokensTypeOK
  <1>1. ASSUME NEW t \in Tokens, GenerateToken(t), UNCHANGED now PROVE TokensInv'
    <2>1. PICK life \in Lives : /\ jwt' = [jwt EXCEPT ![t] = now + life]
                                /\ stored' = [stored EXCEPT ![t] = now + life]
      BY <1>1 DEF GenerateToken
    <2>2. now + life \in Nat /\ now + life # None
      BY <1>0, LimitAssumption, TimeAssumption
    <2>3. TokensTypeOK'
      BY <1>1, <2>1, <2>2 DEF TokensInv, TokensTypeOK, GenerateToken
    <2>4. MirrorInv'
      BY <1>1 DEF TokensInv, MirrorInv, GenerateToken
    <2>5. \A u \in Tokens : stored'[u] # None => jwt'[u] # None /\ jwt'[u] <= stored'[u]
      BY <2>1, <2>2, <1>0 DEF TokensInv, TokensTypeOK, ServedInv
    <2>6. \A u \in Tokens : Finished(u) => Finished(u)'
      BY <1>1, <2>1 DEF TokensInv, TokensTypeOK, GenerateToken, Finished
    <2>7. ServedInv' /\ RateBounded'
      BY <1>0, <1>1, <2>5, <2>6, ServedKept DEF GenerateToken
    <2> QED BY <2>3, <2>4, <2>7 DEF TokensInv
  <1>2. ASSUME NEW t \in Tokens, LetIn(t), UNCHANGED now PROVE TokensInv'
    BY <1>2, LetInKeeps
  <1>3. ASSUME NEW t \in Tokens, RevokeToken(t), UNCHANGED now PROVE TokensInv'
    BY <1>3, RevokeKeeps DEF RevokeToken
  <1>4. ASSUME NEW t \in Tokens, ExtendToken(t), UNCHANGED now PROVE TokensInv'
    <2>1. PICK more \in Extensions : stored' = [stored EXCEPT ![t] = @ + more]
      BY <1>4 DEF ExtendToken
    <2>2. more \in Nat /\ stored[t] \in Nat
      BY <1>4, ExtensionsAssumption DEF ExtendToken, TokensInv, TokensTypeOK
    <2>3. TokensTypeOK'
      BY <1>4, <2>1, <2>2 DEF TokensInv, TokensTypeOK, ExtendToken
    <2>4. MirrorInv'
      BY <1>4 DEF TokensInv, MirrorInv, ExtendToken
    <2>5. \A u \in Tokens : stored'[u] # None => jwt'[u] # None /\ jwt'[u] <= stored'[u]
      <3>1. stored[t] # None /\ jwt[t] # None /\ jwt[t] \in Nat /\ jwt[t] <= stored[t] /\ jwt' = jwt
        BY <1>4 DEF ExtendToken, TokensInv, TokensTypeOK, ServedInv
      <3>2. jwt'[t] # None /\ jwt'[t] <= stored'[t]
        BY <2>1, <2>2, <3>1 DEF TokensInv, TokensTypeOK
      <3> QED BY <2>1, <3>1, <3>2 DEF TokensInv, TokensTypeOK, ServedInv
    <2>6. \A u \in Tokens : Finished(u) => Finished(u)'
      BY <1>4 DEF ExtendToken, Finished
    <2>7. ServedInv' /\ RateBounded'
      BY <1>0, <1>4, <2>5, <2>6, ServedKept DEF ExtendToken
    <2> QED BY <2>3, <2>4, <2>7 DEF TokensInv
  <1>5. ASSUME NEW w \in Workers, RevokeWorkerTokens(w), UNCHANGED now PROVE TokensInv'
    BY <1>5, RevokeKeeps DEF RevokeWorkerTokens, OfWorker
  <1>6. ASSUME CleanupExpiredTokens, UNCHANGED now PROVE TokensInv'
    <2>1. TokensTypeOK'
      BY <1>6 DEF TokensInv, TokensTypeOK, CleanupExpiredTokens, Kept
    <2>2. MirrorInv'
      BY <1>6 DEF TokensInv, MirrorInv, CleanupExpiredTokens
    <2>3. UNCHANGED <<jwt, mirror, served, now>>
      BY <1>6 DEF CleanupExpiredTokens
    <2>4. \A t \in ExpiredTokens : Finished(t)'
      BY <2>3, <1>0 DEF TokensInv, TokensTypeOK, ServedInv, ExpiredTokens, Finished
    <2>5. \A t \in Tokens : Finished(t)' = Finished(t)
      BY <2>3 DEF Finished
    <2>6. \A t \in Tokens \ ExpiredTokens : rate'[t] = rate[t] /\ stored'[t] = stored[t]
      BY <1>6 DEF CleanupExpiredTokens, Kept
    <2>7. \A t \in ExpiredTokens : rate'[t] = None /\ stored'[t] = None
      BY <1>6 DEF CleanupExpiredTokens, Kept, ExpiredTokens
    <2>8. ServedInv'
      BY <2>3, <2>4, <2>5, <2>6, <2>7 DEF TokensInv, ServedInv, Counted, Falls
    <2>9. RateBounded'
      BY <2>3 DEF TokensInv, RateBounded
    <2> QED BY <2>1, <2>2, <2>8, <2>9 DEF TokensInv
  <1>7. ASSUME TokenRedis, UNCHANGED now PROVE TokensInv'
    <2>1. UNCHANGED <<jwt, stored, rate, revoked, served, now>>
      BY <1>7 DEF TokenRedis, ConnectTokens, LoadRevoked, SaddEnds
    <2>2. mirror \subseteq mirror'
      BY <1>7 DEF TokenRedis, ConnectTokens, LoadRevoked, SaddEnds, MirrorLoaded
    <2>3. TokensTypeOK'
      <3>1. CASE ConnectTokens
        BY <3>1, <2>1 DEF TokensInv, TokensTypeOK, ConnectTokens
      <3>2. CASE LoadRevoked
        BY <3>2, <2>1 DEF TokensInv, TokensTypeOK, LoadRevoked, MirrorLoaded
      <3>3. CASE \E S \in sadds : SaddEnds(S)
        BY <3>3, <2>1 DEF TokensInv, TokensTypeOK, SaddEnds
      <3> QED BY <1>7, <3>1, <3>2, <3>3 DEF TokenRedis
    <2>4. MirrorInv'
      <3>1. CASE ConnectTokens
        BY <3>1, <2>1 DEF TokensInv, MirrorInv, ConnectTokens
      <3>2. CASE LoadRevoked
        BY <3>2, <2>1, <2>2 DEF TokensInv, MirrorInv, LoadRevoked, MirrorLoaded
      <3>3. CASE \E S \in sadds : SaddEnds(S)
        BY <3>3, <2>1 DEF TokensInv, MirrorInv, SaddEnds
      <3> QED BY <1>7, <3>1, <3>2, <3>3 DEF TokenRedis
    <2>5. \A t \in Tokens : Finished(t) => Finished(t)'
      BY <2>1, <2>2 DEF Finished
    <2>6. ServedInv' /\ RateBounded'
      BY <1>0, <2>1, <2>5, ServedKept DEF TokensInv, ServedInv
    <2> QED BY <2>3, <2>4, <2>6 DEF TokensInv
  <1>8. ASSUME TokensRestart, UNCHANGED now PROVE TokensInv'
    <2>1. TokensTypeOK'
      <3>1. redis' \in SUBSET Tokens
        BY <1>8 DEF TokensRestart, TokensInv, TokensTypeOK
      <3> QED BY <1>8, <3>1 DEF TokensRestart, TokensInv, TokensTypeOK
    <2>2. MirrorInv'
      BY <1>8 DEF TokensRestart, MirrorInv
    <2>3. ServedInv'
      BY <1>8 DEF TokensRestart, ServedInv
    <2>4. RateBounded'
      BY <1>8, LimitAssumption DEF TokensRestart, RateBounded
    <2> QED BY <2>1, <2>2, <2>3, <2>4 DEF TokensInv
  <1>9. ASSUME Tick, UNCHANGED tokenVars PROVE TokensInv'
    <2>1. now' = now + 1 /\ now' \in Nat
      BY <1>0, <1>9 DEF Tick
    <2>2. TokensTypeOK'
      BY <1>9, <2>1 DEF TokensInv, TokensTypeOK, tokenVars
    <2>3. MirrorInv'
      BY <1>9 DEF TokensInv, MirrorInv, tokenVars
    <2>4. \A t \in Tokens : Finished(t) => Finished(t)'
      BY <1>0, <1>9, <2>1 DEF TokensInv, TokensTypeOK, tokenVars, Finished
    <2>5. ServedInv' /\ RateBounded'
      BY <1>0, <1>9, <2>1, <2>4, ServedKept DEF TokensInv, ServedInv, tokenVars
    <2> QED BY <2>2, <2>3, <2>5 DEF TokensInv
  <1>10. ASSUME UNCHANGED tvars PROVE TokensInv'
    BY <1>10 DEF tvars, tokenVars, TokensInv, TokensTypeOK, MirrorInv, ServedInv, Finished, Counted, Falls,
                 RateBounded
  <1> QED
    BY <1>1, <1>2, <1>3, <1>4, <1>5, <1>6, <1>7, <1>8, <1>9, <1>10 DEF TokensNext, TokenAdmin

LEMMA TokensInvariance == TokensSpec => []TokensInv
  <1>1. TokensSpec => now = 0 /\ TokensInit /\ [][TokensNext]_tvars
    BY DEF TokensSpec, TokensStart, tvars
  <1> QED BY <1>1, TokensInitInv, TokensStepInv, PTL

-----------------------------------------------------------------------------
(* Every variable of the token manager keeps its type: no counter passes the    *)
(* limit.                                                                       *)
THEOREM TokensTypeCorrect == TokensSpec => []TokensTypeOK
  <1>1. TokensInv => TokensTypeOK
    BY DEF TokensInv
  <1> QED BY <1>1, TokensInvariance, PTL

(* A revoked token is refused as long as the process lives, and after a restart *)
(* as soon as the ids are loaded, whatever the client of Redis is doing.        *)
THEOREM RevokedAlwaysRefused == TokensSpec => []RevokedRefused
  <1>1. TokensInv => RevokedRefused
    BY DEF TokensInv, MirrorInv, RevokedRefused, Valid
  <1> QED BY <1>1, TokensInvariance, PTL

(* Any 2 * Limit + 1 requests in a row that a token is served span more than a  *)
(* window, however windows end and tokens are extended, revoked and cleaned up. *)
THEOREM RateAlwaysBounded == TokensSpec => []RateBounded
  <1>1. TokensInv => RateBounded
    BY DEF TokensInv
  <1> QED BY <1>1, TokensInvariance, PTL

-----------------------------------------------------------------------------
(***************************************************************************)
(* The vault by itself.                                                    *)
(***************************************************************************)
vvars == <<now, vaultVars>>

(* What is in the cache, good or not, is the key as it is, and is not kept      *)
(* longer than a cacheTTL past the expiry.                                      *)
CacheInv ==
    \A id \in Ids : cache[id] # None =>
        /\ Known(id)
        /\ cache[id].key = creds[id].key
        /\ creds[id].expires # None => cache[id].until <= creds[id].expires + TTL

VaultInv == VaultTypeOK /\ CacheInv /\ DiskKept

Entries == [key : Nat, until : Nat]

-----------------------------------------------------------------------------
(* A write leaves the content, or marks the credential as unsaved.              *)
LEMMA WrittenProperties ==
    ASSUME VaultTypeOK, DiskKept, NEW id \in Ids, NEW content \in Cred \cup {None},
           NEW old \in SUBSET (Cred \cup {None, Torn}), WrittenOver(id, old, content),
           creds'[id] = content, \A other \in Ids \ {id} : creds'[other] = creds[other]
    PROVE  /\ disk' \in [Ids -> Cred \cup {None, Torn}]
           /\ unsaved' \in SUBSET Ids
           /\ DiskKept'
  <1>1. \A other \in Ids \ {id} : disk'[other] = disk[other] /\ (other \in unsaved' <=> other \in unsaved)
    BY DEF VaultTypeOK, WrittenOver
  <1>2. id \notin unsaved' => disk'[id] = content
    BY DEF VaultTypeOK, WrittenOver
  <1>3. disk' \in [Ids -> Cred \cup {None, Torn}] /\ unsaved' \in SUBSET Ids
    BY DEF VaultTypeOK, WrittenOver
  <1>4. DiskKept'
    BY <1>1, <1>2 DEF DiskKept
  <1> QED BY <1>3, <1>4

(* Ids that were not in use have nothing in the cache.                          *)
LEMMA NewIdsProperties ==
    ASSUME VaultTypeOK, CacheInv, NEW n \in Nat, NEW s \in NewIds(n)
    PROVE  /\ s \in Seq(Ids) /\ Len(s) = n
           /\ \A i \in 1 .. n : s[i] \in Ids /\ ~ Known(s[i]) /\ cache[s[i]] = None
  <1>1. s \in [1 .. n -> Unused] /\ Unused \subseteq Ids
    BY DEF NewIds, Unused
  <1>2. s \in Seq(Ids) /\ Len(s) = n
    BY <1>1
  <1>3. \A i \in 1 .. n : s[i] \in Unused
    BY <1>1
  <1> QED BY <1>1, <1>2, <1>3 DEF Unused, CacheInv

LEMMA FreshType ==
    ASSUME NEW kind \in Kind, NEW expires \in Nat \cup {None}
    PROVE  Fresh(kind, expires) \in Cred
  BY DEF Fresh, Cred

(* The files read at a start are a prefix of the directory without torn ones.   *)
LEMMA ReadableProperties ==
    ASSUME NEW files \in [Ids -> Cred \cup {None, Torn}], NEW listing \in Listings(files)
    PROVE  /\ Readable(files, listing) \in Seq(Ids)
           /\ \A i \in DOMAIN Readable(files, listing) : files[Readable(files, listing)[i]] \in Cred
  <1> DEFINE S == {id \in Ids : files[id] # None}
             n == Cardinality(S)
             P == {i \in DOMAIN listing : \A j \in 1 .. i : files[listing[j]] # Torn}
             c == Cardinality(P)
  <1>1. IsFiniteSet(Ids) /\ IsFiniteSet(S)
    <2>1. 1 \in Int /\ MaxIds \in Int
      BY VaultBoundsAssumption
    <2>2. IsFiniteSet(1 .. MaxIds)
      BY <2>1, FS_Interval
    <2> QED BY <2>2, FS_Subset DEF Ids
  <1>2. n \in Nat
    BY <1>1, FS_CardinalityType
  <1>3. listing \in [1 .. n -> S]
    BY DEF Listings
  <1>4. DOMAIN listing = 1 .. n /\ \A i \in 1 .. n : listing[i] \in S
    BY <1>3
  <1>5. listing \in Seq(Ids) /\ Len(listing) = n
    <2>1. S \subseteq Ids
      OBVIOUS
    <2> HIDE DEF n, S
    <2>2. listing \in [1 .. n -> Ids]
      BY <1>3, <2>1
    <2> QED BY <1>2, <2>2
  <1>6. IsFiniteSet(1 .. n) /\ Cardinality(1 .. n) = n
    <2>1. 1 \in Int /\ n \in Int
      BY <1>2
    <2> HIDE DEF n
    <2>2. IsFiniteSet(1 .. n) /\ Cardinality(1 .. n) = IF 1 > n THEN 0 ELSE n - 1 + 1
      BY <2>1, FS_Interval
    <2> QED BY <2>2, <1>2
  <1>7. c \in Nat /\ c <= n
    <2>1. P \subseteq 1 .. n
      BY <1>4
    <2> QED BY <2>1, <1>2, <1>6, FS_Subset, FS_CardinalityType
  <1>8. ASSUME NEW k \in 1 .. c PROVE k \in P
    <2>1. SUFFICES ASSUME k \notin P PROVE FALSE
      OBVIOUS
    <2>2. k \in DOMAIN listing /\ k \in Nat
      BY <1>2, <1>4, <1>7
    <2>3. PICK j \in 1 .. k : files[listing[j]] = Torn
      BY <2>1, <2>2
    <2>4. P \subseteq 1 .. (k - 1)
      <3>1. \A i \in P : i \in 1 .. n /\ ~ (j \in 1 .. i)
        BY <2>3, <1>4
      <3> QED BY <3>1, <1>2, <2>2, <2>3
    <2>5. IsFiniteSet(1 .. (k - 1)) /\ Cardinality(1 .. (k - 1)) = k - 1
      <3>1. 1 \in Int /\ k - 1 \in Int
        BY <2>2
      <3>2. /\ IsFiniteSet(1 .. (k - 1))
            /\ Cardinality(1 .. (k - 1)) = IF 1 > k - 1 THEN 0 ELSE k - 1 - 1 + 1
        BY <3>1, FS_Interval
      <3> QED BY <3>2, <1>7
    <2>6. Cardinality(P) <= Cardinality(1 .. (k - 1))
      BY <2>4, <2>5, FS_Subset
    <2> QED BY <2>5, <2>6, <1>7
  <1>9. Readable(files, listing) = SubSeq(listing, 1, c)
    BY DEF Readable
  <1> HIDE DEF c, P
  <1>10. /\ SubSeq(listing, 1, c) \in Seq(Ids) /\ DOMAIN SubSeq(listing, 1, c) = 1 .. c
         /\ \A i \in 1 .. c : SubSeq(listing, 1, c)[i] = listing[i]
    <2>1. c \in 0 .. Len(listing)
      BY <1>2, <1>5, <1>7
    <2> HIDE DEF n, S
    <2>2. SubSeq(listing, 1, c) \in Seq(Ids) /\ Len(SubSeq(listing, 1, c)) = c
      BY <1>5, <2>1
    <2>3. \A i \in 1 .. c : SubSeq(listing, 1, c)[i] = listing[i]
      BY <1>5, <2>1
    <2> QED BY <2>2, <2>3
  <1>11. ASSUME NEW i \in 1 .. c PROVE files[listing[i]] \in Cred
    <2>1. i \in 1 .. n /\ files[listing[i]] # Torn
      BY <1>4, <1>7, <1>8 DEF P
    <2> QED BY <2>1, <1>4
  <1> QED BY <1>9, <1>10, <1>11

-----------------------------------------------------------------------------
LEMMA VaultInitInv == now = 0 /\ VaultInit => VaultInv
  <1> SUFFICES ASSUME now = 0, VaultInit PROVE VaultInv
    OBVIOUS
  <1>1. VaultTypeOK
    BY DEF VaultInit, VaultTypeOK
  <1>2. CacheInv
    BY DEF VaultInit, CacheInv
  <1>3. DiskKept
    BY DEF VaultInit, DiskKept
  <1> QED BY <1>1, <1>2, <1>3 DEF VaultInv

(* A credential is replaced by another, or goes, and its cache entry with it.   *)
LEMMA ReplacedInv ==
    ASSUME VaultInv, NEW id \in Ids, NEW content \in Cred \cup {None},
           NEW old \in SUBSET (Cred \cup {None, Torn}), WrittenOver(id, old, content),
           creds' = [creds EXCEPT ![id] = content], cache' = Dropped(id),
           order' \in Seq(Ids), next' \in [Ids -> Nat \cup {None}], now' = now
    PROVE  VaultInv'
  <1> USE DEF VaultInv
  <1>1. creds' \in [Ids -> Cred \cup {None}] /\ cache' \in [Ids -> Entries \cup {None}]
    BY DEF VaultTypeOK, Dropped, Entries
  <1>2. creds'[id] = content /\ \A other \in Ids \ {id} : creds'[other] = creds[other]
    BY DEF VaultTypeOK
  <1>3. disk' \in [Ids -> Cred \cup {None, Torn}] /\ unsaved' \in SUBSET Ids /\ DiskKept'
    BY <1>2, WrittenProperties
  <1>4. VaultTypeOK'
    BY <1>1, <1>3 DEF VaultTypeOK, Entries
  <1>5. CacheInv'
    <2>1. cache'[id] = None /\ \A other \in Ids \ {id} : cache'[other] = cache[other]
      BY DEF VaultTypeOK, Dropped
    <2> QED BY <1>2, <2>1 DEF CacheInv, Known
  <1> QED BY <1>3, <1>4, <1>5

LEMMA StoreInv ==
    ASSUME VaultInv, now' = now, NEW kind \in Kind, NEW expires \in Nat \cup {None},
           StoreCredential(kind, expires)
    PROVE  VaultInv'
  <1> USE DEF VaultInv
  <1> DEFINE content == Fresh(kind, expires)
  <1>1. PICK s \in NewIds(1) : /\ creds' = [creds EXCEPT ![s[1]] = content]
                               /\ order' = order \o s
                               /\ Written(s[1], content)
                               /\ UNCHANGED <<cache, next>>
    BY DEF StoreCredential
  <1>2. s \in Seq(Ids) /\ s[1] \in Ids /\ cache[s[1]] = None
    BY NewIdsProperties
  <1>3. cache' = Dropped(s[1])
    BY <1>1, <1>2 DEF Dropped, VaultTypeOK
  <1>4. order' \in Seq(Ids) /\ next' \in [Ids -> Nat \cup {None}]
    BY <1>1, <1>2 DEF VaultTypeOK
  <1>5. content \in Cred \cup {None}
    BY FreshType
  <1>6. {disk[s[1]]} \in SUBSET (Cred \cup {None, Torn})
    BY <1>2 DEF VaultTypeOK
  <1> HIDE DEF content
  <1> QED BY <1>1, <1>2, <1>3, <1>4, <1>5, <1>6, ReplacedInv DEF Written

LEMMA ImportInv ==
    ASSUME VaultInv, now' = now, ImportFromEnvironment
    PROVE  VaultInv'
  <1> USE DEF VaultInv
  <1> DEFINE n == Len(EnvKinds)
  <1>1. n \in Nat /\ \A i \in 1 .. n : EnvKinds[i] \in Kind
    BY KindsAssumption
  <1>2. PICK s \in NewIds(n) :
            LET new == {s[i] : i \in DOMAIN s}
                imported == [id \in new |-> Fresh(EnvKinds[CHOOSE i \in DOMAIN s : s[i] = id], None)]
            IN  \E failed \in IF "disk" \in VaultFaults THEN SUBSET new ELSE {{}} :
                    /\ creds' = [id \in Ids |-> IF id \in new THEN imported[id] ELSE creds[id]]
                    /\ order' = order \o s
                    /\ disk' = [id \in Ids |-> IF id \in new \ failed THEN imported[id] ELSE disk[id]]
                    /\ unsaved' = (unsaved \ new) \cup failed
                    /\ UNCHANGED <<cache, next>>
    BY DEF ImportFromEnvironment
  <1> DEFINE new == {s[i] : i \in DOMAIN s}
             kind(id) == EnvKinds[CHOOSE i \in DOMAIN s : s[i] = id]
             imported == [id \in new |-> Fresh(kind(id), None)]
  <1>3. PICK failed \in SUBSET new :
            /\ creds' = [id \in Ids |-> IF id \in new THEN imported[id] ELSE creds[id]]
            /\ order' = order \o s
            /\ disk' = [id \in Ids |-> IF id \in new \ failed THEN imported[id] ELSE disk[id]]
            /\ unsaved' = (unsaved \ new) \cup failed
            /\ UNCHANGED <<cache, next>>
    BY <1>2
  <1>4. s \in Seq(Ids) /\ DOMAIN s = 1 .. n
    BY <1>1, NewIdsProperties
  <1>5. \A id \in new : id \in Ids /\ cache[id] = None
    BY <1>1, <1>4, NewIdsProperties
  <1>6. \A id \in new : imported[id] \in Cred
    <2>1. ASSUME NEW id \in new PROVE kind(id) \in Kind
      BY <1>1, <1>4
    <2>2. \A id \in new : Fresh(kind(id), None) \in Cred
      BY <2>1, FreshType
    <2> QED BY <2>2
  <1> HIDE DEF new, kind, imported
  <1>7. VaultTypeOK'
    <2>1. order' \in Seq(Ids)
      BY <1>3, <1>4 DEF VaultTypeOK
    <2>2. creds' \in [Ids -> Cred \cup {None}] /\ disk' \in [Ids -> Cred \cup {None, Torn}]
      BY <1>3, <1>6 DEF VaultTypeOK
    <2>3. unsaved' \in SUBSET Ids
      BY <1>3, <1>5 DEF VaultTypeOK
    <2> QED BY <1>3, <2>1, <2>2, <2>3 DEF VaultTypeOK
  <1>8. CacheInv'
    <2>1. \A id \in Ids : cache'[id] # None => id \notin new /\ creds'[id] = creds[id]
      BY <1>3, <1>5
    <2> QED BY <1>3, <2>1 DEF CacheInv, Known
  <1>9. DiskKept'
    BY <1>3 DEF DiskKept
  <1> QED BY <1>7, <1>8, <1>9

LEMMA GetInv ==
    ASSUME VaultInv, now' = now, NEW id \in Ids, GetCredential(id)
    PROVE  VaultInv'
  <1> USE DEF VaultInv
  <1>1. CASE UNCHANGED vaultVars
    BY <1>1 DEF vaultVars, VaultTypeOK, CacheInv, Known, DiskKept
  <1>2. CASE /\ KeyOf(id) # None /\ Hit(id) /\ cache' = Cached(id)
             /\ UNCHANGED <<creds, order, disk, next, unsaved>>
    BY <1>2 DEF Cached, VaultTypeOK, CacheInv, Known, DiskKept
  <1>3. CASE /\ KeyOf(id) # None /\ ~ Hit(id) /\ cache' = Cached(id)
             /\ Written(id, creds[id]) /\ UNCHANGED <<creds, order, next>>
    <2> DEFINE entry == [key |-> creds[id].key, until |-> now + TTL]
    <2>1. Known(id) /\ ~ PastExpiry(id) /\ cache' = [cache EXCEPT ![id] = entry]
      BY <1>3 DEF KeyOf, Cached
    <2>2. creds[id] \in Cred
      BY <2>1 DEF VaultTypeOK, Known
    <2>3. /\ creds[id].key \in Nat /\ creds[id].expires \in Nat \cup {None}
          /\ now + TTL \in Nat
      BY <2>2, VaultTimesAssumption DEF Cred, VaultTypeOK
    <2>4. entry \in Entries
      BY <2>3 DEF Entries
    <2>5. /\ disk' \in [Ids -> Cred \cup {None, Torn}] /\ unsaved' \in SUBSET Ids
          /\ DiskKept'
      <3>1. {disk[id]} \in SUBSET (Cred \cup {None, Torn})
        BY DEF VaultTypeOK
      <3> QED BY <1>3, <2>2, <3>1, WrittenProperties DEF Written
    <2>6. VaultTypeOK'
      <3>1. cache' \in [Ids -> Entries \cup {None}]
        BY <2>1, <2>4 DEF VaultTypeOK, Entries
      <3> QED BY <1>3, <2>5, <3>1 DEF VaultTypeOK, Entries
    <2>7. CacheInv'
      <3>1. cache'[id] = entry /\ \A other \in Ids \ {id} : cache'[other] = cache[other]
        BY <2>1 DEF VaultTypeOK
      <3>2. creds[id].expires # None => now + TTL <= creds[id].expires + TTL
        BY <2>1, <2>3, VaultTimesAssumption DEF PastExpiry, VaultTypeOK
      <3> QED BY <1>3, <2>1, <3>1, <3>2 DEF CacheInv, Known
    <2> QED BY <2>5, <2>6, <2>7
  <1> QED BY <1>1, <1>2, <1>3 DEF GetCredential

LEMMA DeleteInv ==
    ASSUME VaultInv, now' = now, NEW id \in Ids, DeleteCredential(id)
    PROVE  VaultInv'
  <1>1. order' \in Seq(Ids)
    <2>1. PICK i \in DOMAIN order :
              order' = SubSeq(order, 1, i - 1) \o SubSeq(order, i + 1, Len(order))
      BY DEF DeleteCredential
    <2>2. order \in Seq(Ids) /\ i \in 1 .. Len(order) /\ Len(order) \in Nat
      BY DEF VaultInv, VaultTypeOK
    <2>3. SubSeq(order, 1, i - 1) \in Seq(Ids) /\ SubSeq(order, i + 1, Len(order)) \in Seq(Ids)
      BY <2>2
    <2> QED BY <2>1, <2>3
  <1>2. {disk[id]} \in SUBSET (Cred \cup {None, Torn})
    BY DEF VaultInv, VaultTypeOK
  <1>3. next' \in [Ids -> Nat \cup {None}]
    BY DEF DeleteCredential, VaultInv, VaultTypeOK
  <1> QED BY <1>1, <1>2, <1>3, ReplacedInv DEF DeleteCredential, Written

LEMMA RotatedInv ==
    ASSUME VaultInv, now' = now, NEW id \in Ids, NEW old \in SUBSET (Cred \cup {None, Torn}),
           Rotated(id, old), next' \in [Ids -> Nat \cup {None}]
    PROVE  VaultInv'
  <1> DEFINE content == [creds[id] EXCEPT !.key = @ + 1]
  <1>1. creds[id] \in Cred
    BY DEF VaultInv, VaultTypeOK, Rotated, Known
  <1>2. content \in Cred
    BY <1>1 DEF Cred
  <1>3. order' \in Seq(Ids)
    BY DEF Rotated, VaultInv, VaultTypeOK
  <1>4. /\ creds' = [creds EXCEPT ![id] = content] /\ cache' = Dropped(id)
        /\ WrittenOver(id, old, content)
    BY DEF Rotated, CacheRotated
  <1> QED BY <1>2, <1>3, <1>4, ReplacedInv

LEMMA RevokedInv ==
    ASSUME VaultInv, now' = now, NEW id \in Ids, Revoked(id), next' \in [Ids -> Nat \cup {None}]
    PROVE  VaultInv'
  <1> DEFINE content == [creds[id] EXCEPT !.expires = now]
  <1>1. creds[id] \in Cred
    BY DEF VaultInv, VaultTypeOK, Revoked, Known
  <1>2. content \in Cred
    BY <1>1 DEF Cred, VaultInv, VaultTypeOK
  <1>3. order' \in Seq(Ids) /\ {disk[id]} \in SUBSET (Cred \cup {None, Torn})
    BY DEF Revoked, VaultInv, VaultTypeOK
  <1>4. /\ creds' = [creds EXCEPT ![id] = content] /\ cache' = Dropped(id)
        /\ WrittenOver(id, {disk[id]}, content)
    BY DEF Revoked, RevocationWritten, Written
  <1> QED BY <1>2, <1>3, <1>4, ReplacedInv

LEMMA VaultRestartInv ==
    ASSUME VaultInv, now' = now, VaultRestart
    PROVE  VaultInv'
  <1> USE DEF VaultInv
  <1>0. PICK files \in Left : \E listing \in Listings(files) :
            LET read == Readable(files, listing)
            IN  /\ order' = read
                /\ creds' = [id \in Ids |-> IF \E i \in DOMAIN read : read[i] = id THEN files[id] ELSE None]
                /\ disk' = files
                /\ cache' = [id \in Ids |-> None]
                /\ next' = [id \in Ids |-> None]
                /\ unsaved' = {id \in Ids : files[id] # creds'[id]}
    BY DEF VaultRestart
  <1>1. PICK listing \in Listings(files) :
            LET read == Readable(files, listing)
            IN  /\ order' = read
                /\ creds' = [id \in Ids |-> IF \E i \in DOMAIN read : read[i] = id THEN files[id] ELSE None]
                /\ disk' = files
                /\ cache' = [id \in Ids |-> None]
                /\ next' = [id \in Ids |-> None]
                /\ unsaved' = {id \in Ids : files[id] # creds'[id]}
    BY <1>0
  <1>2. files \in [Ids -> Cred \cup {None, Torn}]
    BY DEF Left, VaultTypeOK
  <1>3. /\ Readable(files, listing) \in Seq(Ids)
        /\ \A i \in DOMAIN Readable(files, listing) : files[Readable(files, listing)[i]] \in Cred
    BY <1>2, ReadableProperties
  <1>4. creds' \in [Ids -> Cred \cup {None}]
    BY <1>1, <1>3
  <1>5. VaultTypeOK'
    BY <1>1, <1>2, <1>3, <1>4 DEF VaultTypeOK
  <1>6. CacheInv'
    BY <1>1 DEF CacheInv
  <1>7. DiskKept'
    BY <1>1 DEF DiskKept
  <1> QED BY <1>5, <1>6, <1>7

LEMMA ScheduleInv ==
    ASSUME VaultInv, now' = now, next' \in [Ids -> Nat \cup {None}],
           UNCHANGED <<creds, order, cache, disk, unsaved>>
    PROVE  VaultInv'
  BY DEF VaultInv, VaultTypeOK, CacheInv, Known, DiskKept

LEMMA VaultStutterInv ==
    ASSUME VaultInv, now' \in Nat, UNCHANGED vaultVars
    PROVE  VaultInv'
  BY DEF VaultInv, VaultTypeOK, CacheInv, Known, DiskKept, vaultVars

LEMMA AdminInv ==
    ASSUME VaultInv, now' = now, VaultAdmin
    PROVE  VaultInv'
  <1>1. CASE \E kind \in Kinds : \E expires \in {None} \cup {now + life : life \in Lifetimes} :
                StoreCredential(kind, expires)
    <2>1. PICK kind \in Kinds, expires \in {None} \cup {now + life : life \in Lifetimes} :
              StoreCredential(kind, expires)
      BY <1>1
    <2>2. kind \in Kind
      BY KindsAssumption
    <2>3. expires \in Nat \cup {None}
      BY VaultTimesAssumption DEF VaultInv, VaultTypeOK
    <2> QED BY <2>1, <2>2, <2>3, StoreInv
  <1>2. CASE ImportFromEnvironment
    BY <1>2, ImportInv
  <1>3. CASE \E id \in Ids : DeleteCredential(id)
    BY <1>3, DeleteInv
  <1>4. CASE \E id \in Ids : RotateCredential(id)
    <2>1. PICK id \in Ids : Rotated(id, {disk[id]}) /\ UNCHANGED next
      BY <1>4 DEF RotateCredential
    <2>2. {disk[id]} \in SUBSET (Cred \cup {None, Torn}) /\ next' \in [Ids -> Nat \cup {None}]
      BY <2>1 DEF VaultInv, VaultTypeOK
    <2> QED BY <2>1, <2>2, RotatedInv
  <1>5. CASE \E id \in Ids : RevokeCredential(id)
    <2>1. PICK id \in Ids : Revoked(id) /\ UNCHANGED next
      BY <1>5 DEF RevokeCredential
    <2>2. next' \in [Ids -> Nat \cup {None}]
      BY <2>1 DEF VaultInv, VaultTypeOK
    <2> QED BY <2>1, <2>2, RevokedInv
  <1>6. CASE ClearCache
    BY <1>6 DEF ClearCache, VaultInv, VaultTypeOK, CacheInv, DiskKept
  <1> QED BY <1>1, <1>2, <1>3, <1>4, <1>5, <1>6 DEF VaultAdmin

LEMMA RotatorInv ==
    ASSUME VaultInv, now' = now, Rotator
    PROVE  VaultInv'
  <1>1. PICK id \in Ids : \/ Known(id) /\ ScheduleRotation(id)
                          \/ UnscheduleRotation(id) \/ CheckScheduledRotation(id)
                          \/ RotatorRotates(id) \/ RotatorRevokes(id)
    BY DEF Rotator
  <1>2. now + Interval \in Nat /\ next \in [Ids -> Nat \cup {None}]
    BY VaultTimesAssumption DEF VaultInv, VaultTypeOK
  <1>3. CASE ScheduleRotation(id)
    BY <1>2, <1>3, ScheduleInv DEF ScheduleRotation
  <1>4. CASE UnscheduleRotation(id)
    BY <1>2, <1>4, ScheduleInv DEF UnscheduleRotation
  <1>5. CASE CheckScheduledRotation(id)
    BY <1>5, GetInv DEF CheckScheduledRotation
  <1>6. CASE RotatorRotates(id)
    <2>1. creds[id] \in Cred /\ disk[id] \in Cred \cup {None, Torn}
      BY <1>6 DEF RotatorRotates, Rotated, Known, VaultInv, VaultTypeOK
    <2>2. Before(id) \in SUBSET (Cred \cup {None, Torn})
      BY <2>1 DEF Before
    <2>3. next' \in [Ids -> Nat \cup {None}]
      BY <1>2, <1>6 DEF RotatorRotates
    <2> QED BY <1>6, <2>2, <2>3, RotatedInv DEF RotatorRotates
  <1>7. CASE RotatorRevokes(id)
    <2>1. next' \in [Ids -> Nat \cup {None}]
      BY <1>2, <1>7 DEF RotatorRevokes
    <2> QED BY <1>7, <2>1, RevokedInv DEF RotatorRevokes
  <1> QED BY <1>1, <1>3, <1>4, <1>5, <1>6, <1>7

LEMMA VaultStepInv == VaultInv /\ [VaultNext]_vvars => VaultInv'
  <1> SUFFICES ASSUME VaultInv, [VaultNext]_vvars PROVE VaultInv'
    OBVIOUS
  <1>1. CASE (VaultAdmin \/ Rotator \/ VaultRestart) /\ UNCHANGED now
    BY <1>1, AdminInv, RotatorInv, VaultRestartInv
  <1>2. CASE (\E id \in Ids : GetCredential(id)) /\ UNCHANGED now
    BY <1>2, GetInv
  <1>3. CASE Tick /\ UNCHANGED vaultVars
    BY <1>3, VaultStutterInv DEF Tick, VaultInv, VaultTypeOK
  <1>4. CASE UNCHANGED vvars
    BY <1>4, VaultStutterInv DEF vvars, VaultInv, VaultTypeOK
  <1> QED BY <1>1, <1>2, <1>3, <1>4 DEF VaultNext

THEOREM VaultInvariance == VaultSpec => []VaultInv
  <1>1. VaultSpec => VaultInv
    BY VaultInitInv DEF VaultSpec, VaultStart
  <1>2. VaultSpec => [][VaultNext]_vvars
    BY DEF VaultSpec, vvars
  <1> QED BY <1>1, <1>2, VaultStepInv, PTL

-----------------------------------------------------------------------------
(* The variables have their types: rotations, failed writes and torn files      *)
(* never leave anything in memory that is not a credential.                     *)
THEOREM VaultTypeCorrect == VaultSpec => []VaultTypeOK
  <1>1. VaultInv => VaultTypeOK
    BY DEF VaultInv
  <1> QED BY <1>1, VaultInvariance, PTL

(* A key the cache still gives out is the key of the credential as it is        *)
(* (credential-vault.ts: getCredential(), and what drops entries of the cache). *)
THEOREM CacheAlwaysCurrent == VaultSpec => []CacheCurrent
  <1>1. VaultInv => CacheCurrent
    BY DEF VaultInv, CacheInv, CacheCurrent, Hit
  <1> QED BY <1>1, VaultInvariance, PTL

(* No key is given out more than a cacheTTL past its expiry.                    *)
THEOREM StaleAlwaysBounded == VaultSpec => []StaleBounded
  <1>1. VaultInv => StaleBounded
    <2> SUFFICES ASSUME VaultInv, NEW id \in Ids, Hit(id), Known(id), creds[id].expires # None
                 PROVE  now < creds[id].expires + TTL
      BY DEF StaleBounded
    <2>1. cache[id] \in Entries /\ creds[id] \in Cred
      BY DEF VaultInv, VaultTypeOK, Hit, Known, Entries
    <2>2. cache[id].until \in Nat /\ creds[id].expires \in Nat
      BY <2>1 DEF Entries, Cred
    <2>3. cache[id].until <= creds[id].expires + TTL /\ now < cache[id].until
      BY <2>2 DEF VaultInv, CacheInv, Hit, VaultTypeOK
    <2> QED BY <2>2, <2>3, VaultTimesAssumption DEF VaultInv, VaultTypeOK
  <1> QED BY <1>1, VaultInvariance, PTL

(* The files hold what the memory holds, but for the credentials whose last     *)
(* file operation failed, and those that a restart could not load.              *)
THEOREM DiskAlwaysKept == VaultSpec => []DiskKept
  <1>1. VaultInv => DiskKept
    BY DEF VaultInv
  <1> QED BY <1>1, VaultInvariance, PTL

-----------------------------------------------------------------------------
(***************************************************************************)
(* The gateway.                                                            *)
(***************************************************************************)
Trail == file \o buffer

Logged(entry) == In(entry, Trail) \/ entry \in lost \cup spoilt

(* No entry twice, and no end before its call.                                  *)
Ordered(s) ==
    \A i, j \in DOMAIN s :
        /\ s[i] = s[j] => i = j
        /\ s[i].call = s[j].call /\ s[i].what = "sent" => i <= j

(* The calls in progress are different ones, made and not yet ended.            *)
ReqInv ==
    /\ req \in [Reqs -> [pc : {"idle", "sent", "body"}, call : Calls \cup {0}]]
    /\ made \in Calls \cup {0} /\ ended \in SUBSET (1 .. made)
    /\ \A r \in Reqs : req[r] # Idle => req[r].call \in (1 .. made) \ ended
    /\ \A r, q \in Reqs : req[r] # Idle /\ req[r].call = req[q].call => r = q
    /\ stopping \in BOOLEAN

(* The trail knows no call that was not made and no end that has not come.      *)
TrailInv ==
    /\ AuditTypeOK
    /\ \A e \in AuditEntry : In(e, Trail) =>
           e.call \in 1 .. made /\ (e.what = "ended" => e.call \in ended)
    /\ \A r \in Reqs : req[r] # Idle => Logged(Sent(req[r].call))
    /\ \A n \in ended : Logged(Ended(n))
    /\ ~ broke => Ordered(Trail) /\ ~ cut /\ spoilt = {}

AuditInv == ReqInv /\ TrailInv

-----------------------------------------------------------------------------
(* Sequences of entries.                                                        *)
LEMMA ConcatIn ==
    ASSUME NEW S, NEW s \in Seq(S), NEW t \in Seq(S), NEW e
    PROVE  In(e, s \o t) <=> In(e, s) \/ In(e, t)
  <1>1. /\ s \o t \in Seq(S) /\ Len(s \o t) = Len(s) + Len(t)
        /\ Len(s) \in Nat /\ Len(t) \in Nat
        /\ DOMAIN s = 1 .. Len(s) /\ DOMAIN t = 1 .. Len(t)
        /\ DOMAIN (s \o t) = 1 .. Len(s) + Len(t)
    OBVIOUS
  <1>2. /\ \A i \in 1 .. Len(s) : (s \o t)[i] = s[i]
        /\ \A i \in 1 .. Len(t) : (s \o t)[Len(s) + i] = t[i]
    OBVIOUS
  <1>3. ASSUME In(e, s \o t) PROVE In(e, s) \/ In(e, t)
    <2>1. PICK i \in 1 .. Len(s) + Len(t) : (s \o t)[i] = e
      BY <1>1, <1>3 DEF In
    <2>2. CASE i <= Len(s)
      BY <1>1, <1>2, <2>1, <2>2 DEF In
    <2>3. CASE ~ (i <= Len(s))
      <3>1. i - Len(s) \in 1 .. Len(t) /\ i = Len(s) + (i - Len(s))
        BY <1>1, <2>3
      <3>2. t[i - Len(s)] = e
        BY <1>2, <2>1, <3>1
      <3> QED BY <1>1, <3>1, <3>2 DEF In
    <2> QED BY <2>2, <2>3
  <1>4. ASSUME In(e, s) PROVE In(e, s \o t)
    <2>1. PICK i \in 1 .. Len(s) : s[i] = e
      BY <1>1, <1>4 DEF In
    <2>2. i \in 1 .. Len(s) + Len(t)
      BY <1>1
    <2> QED BY <1>1, <1>2, <2>1, <2>2 DEF In
  <1>5. ASSUME In(e, t) PROVE In(e, s \o t)
    <2>1. PICK i \in 1 .. Len(t) : t[i] = e
      BY <1>1, <1>5 DEF In
    <2>2. Len(s) + i \in 1 .. Len(s) + Len(t)
      BY <1>1
    <2> QED BY <1>1, <1>2, <2>1, <2>2 DEF In
  <1> QED BY <1>3, <1>4, <1>5

LEMMA AppendIn ==
    ASSUME NEW S, NEW s \in Seq(S), NEW x \in S, NEW e
    PROVE  In(e, Append(s, x)) <=> In(e, s) \/ e = x
  <1>1. Append(s, x) = s \o <<x>> /\ <<x>> \in Seq(S)
    OBVIOUS
  <1> DEFINE one == <<x>>
  <1>2. Append(s, x) = s \o one /\ one \in Seq(S) /\ DOMAIN one = {1} /\ one[1] = x
    BY <1>1
  <1> HIDE DEF one
  <1>3. In(e, one) <=> e = x
    BY <1>2 DEF In
  <1>4. In(e, s \o one) <=> In(e, s) \/ In(e, one)
    BY <1>2, ConcatIn
  <1> QED BY <1>2, <1>3, <1>4

LEMMA AppendOrdered ==
    ASSUME NEW s \in Seq(AuditEntry), NEW x \in AuditEntry, Ordered(s), ~ In(x, s),
           x.what = "sent" => \A e \in AuditEntry : In(e, s) => e.call # x.call
    PROVE  Ordered(Append(s, x))
  <1> DEFINE z == Append(s, x)
  <1>1. /\ DOMAIN z = 1 .. Len(s) + 1 /\ DOMAIN s = 1 .. Len(s) /\ Len(s) \in Nat
        /\ z[Len(s) + 1] = x /\ \A i \in 1 .. Len(s) : z[i] = s[i]
    OBVIOUS
  <1>2. \A i \in 1 .. Len(s) : s[i] \in AuditEntry /\ s[i] # x
    BY DEF In
  <1>3. x.what = "sent" => \A i \in 1 .. Len(s) : s[i].call # x.call
    BY <1>2 DEF In
  <1> HIDE DEF z
  <1>4. ASSUME NEW i \in 1 .. Len(s) + 1, NEW j \in 1 .. Len(s) + 1
        PROVE  /\ z[i] = z[j] => i = j
               /\ z[i].call = z[j].call /\ z[i].what = "sent" => i <= j
    <2>1. CASE i \in 1 .. Len(s) /\ j \in 1 .. Len(s)
      BY <1>1, <2>1 DEF Ordered
    <2>2. CASE i \in 1 .. Len(s) /\ j = Len(s) + 1
      BY <1>1, <1>2, <2>2
    <2>3. CASE i = Len(s) + 1 /\ j \in 1 .. Len(s)
      BY <1>1, <1>2, <1>3, <2>3
    <2>4. CASE i = Len(s) + 1 /\ j = Len(s) + 1
      BY <1>1, <2>4
    <2> QED BY <1>1, <2>1, <2>2, <2>3, <2>4
  <1>5. Ordered(z)
    BY <1>1, <1>4 DEF Ordered
  <1> QED BY <1>5 DEF z

LEMMA PrefixOrdered ==
    ASSUME NEW s \in Seq(AuditEntry), NEW t \in Seq(AuditEntry), Ordered(s \o t)
    PROVE  Ordered(s)
  <1>1. /\ DOMAIN s = 1 .. Len(s) /\ DOMAIN (s \o t) = 1 .. Len(s) + Len(t)
        /\ Len(s) \in Nat /\ Len(t) \in Nat /\ \A i \in 1 .. Len(s) : (s \o t)[i] = s[i]
    OBVIOUS
  <1> QED BY <1>1 DEF Ordered

-----------------------------------------------------------------------------
(* A flush moves entries, repeats some or spoils one, but forgets none.          *)
LEMMA FlushKeeps ==
    ASSUME AuditTypeOK, Flush, lost' = lost, ~ broke => ~ cut /\ spoilt = {}
    PROVE  /\ buffer' \in Seq(AuditEntry) /\ file' \in Seq(AuditEntry)
           /\ cut' \in BOOLEAN /\ spoilt' \in SUBSET AuditEntry
           /\ \A e \in AuditEntry : In(e, Trail') => In(e, Trail)
           /\ \A e \in AuditEntry : Logged(e) => In(e, Trail') \/ e \in lost' \cup spoilt'
           /\ broke' \in BOOLEAN
           /\ ~ broke' => ~ broke /\ Trail' = Trail /\ ~ cut' /\ spoilt' = {}
  <1> USE DEF AuditTypeOK, Trail, Logged
  <1>1. CASE UNCHANGED <<buffer, file, cut, spoilt, broke>>
    BY <1>1
  <1>2. ASSUME NEW n \in 0 .. Len(buffer), NEW piece \in BOOLEAN, Appended(n, piece)
        PROVE  /\ file' \in Seq(AuditEntry)
               /\ cut' \in BOOLEAN /\ spoilt' \in SUBSET AuditEntry
               /\ \A e \in AuditEntry : In(e, file') => In(e, file) \/ In(e, buffer)
               /\ \A e \in AuditEntry : In(e, file) => In(e, file')
               /\ n = Len(buffer) => \A e \in AuditEntry : In(e, buffer) => In(e, file') \/ e \in spoilt'
               /\ n = Len(buffer) /\ ~ cut => file' = file \o buffer
               /\ spoilt \subseteq spoilt' /\ (~ cut => spoilt' = spoilt) /\ cut' = piece
    <2> DEFINE from == IF cut THEN 2 ELSE 1
               new == SubSeq(buffer, from, n)
    <2>1. from \in {1, 2} /\ Len(buffer) \in Nat /\ n \in Nat
      OBVIOUS
    <2>2. file' = file \o new /\ cut' = piece /\ (~ cut => spoilt' = spoilt)
          /\ (cut /\ n > 0 => spoilt' = spoilt \cup {buffer[1]}) /\ (n = 0 => spoilt' = spoilt)
      BY <1>2 DEF Appended
    <2>3. /\ new \in Seq(AuditEntry) /\ Len(new) = IF from <= n THEN n - from + 1 ELSE 0
          /\ \A i \in 1 .. Len(new) : new[i] = buffer[i + from - 1]
      <3> HIDE DEF from
      <3> QED BY <2>1
    <2>4. \A e \in AuditEntry : In(e, file') <=> In(e, file) \/ In(e, new)
      BY <2>2, <2>3, ConcatIn
    <2> HIDE DEF new
    <2>5. \A e \in AuditEntry : In(e, new) => In(e, buffer)
      <3> SUFFICES ASSUME NEW e \in AuditEntry, In(e, new) PROVE In(e, buffer)
        OBVIOUS
      <3>1. PICK i \in 1 .. Len(new) : new[i] = e
        BY <2>3 DEF In
      <3>2. i + from - 1 \in 1 .. Len(buffer) /\ buffer[i + from - 1] = e
        BY <2>1, <2>3, <3>1
      <3> QED BY <3>2 DEF In
    <2>6. ASSUME n = Len(buffer), NEW e \in AuditEntry, In(e, buffer)
          PROVE  In(e, new) \/ e \in spoilt'
      <3>1. PICK i \in 1 .. Len(buffer) : buffer[i] = e
        BY <2>6 DEF In
      <3>2. CASE i >= from
        <4> HIDE DEF from
        <4>1. i - from + 1 \in 1 .. Len(new) /\ (i - from + 1) + from - 1 = i
          BY <2>1, <2>3, <2>6, <3>1, <3>2
        <4>2. new[i - from + 1] = e
          BY <2>3, <3>1, <4>1
        <4>3. DOMAIN new = 1 .. Len(new)
          BY <2>3
        <4> QED BY <4>1, <4>2, <4>3 DEF In
      <3>3. CASE ~ (i >= from)
        BY <2>1, <2>2, <2>6, <3>1, <3>3
      <3> QED BY <3>2, <3>3
    <2>7. n = Len(buffer) /\ ~ cut => file' = file \o buffer
      <3>1. SubSeq(buffer, 1, Len(buffer)) = buffer
        OBVIOUS
      <3> QED BY <2>2, <3>1 DEF new
    <2>8. spoilt' \in SUBSET AuditEntry /\ spoilt \subseteq spoilt'
      BY <2>1, <2>2
    <2>9. file' \in Seq(AuditEntry)
      BY <2>2, <2>3
    <2> QED BY <2>2, <2>4, <2>5, <2>6, <2>7, <2>8, <2>9
  <1>3. \A e \in AuditEntry : In(e, Trail) <=> In(e, file) \/ In(e, buffer)
    BY ConcatIn
  <1>4. CASE Appended(Len(buffer), FALSE) /\ buffer' = << >> /\ UNCHANGED broke
    <2>1. /\ file' \in Seq(AuditEntry)
          /\ cut' \in BOOLEAN /\ spoilt' \in SUBSET AuditEntry
          /\ \A e \in AuditEntry : In(e, file') => In(e, file) \/ In(e, buffer)
          /\ \A e \in AuditEntry : In(e, file) => In(e, file')
          /\ \A e \in AuditEntry : In(e, buffer) => In(e, file') \/ e \in spoilt'
          /\ ~ cut => file' = file \o buffer
          /\ spoilt \subseteq spoilt' /\ (~ cut => spoilt' = spoilt) /\ cut' = FALSE
      <3>1. Len(buffer) \in 0 .. Len(buffer)
        OBVIOUS
      <3> QED BY <1>2, <1>4, <3>1
    <2>2. Trail' = file'
      BY <1>4, <2>1
    <2>3. buffer' \in Seq(AuditEntry) /\ broke' = broke /\ broke' \in BOOLEAN
      BY <1>4
    <2>4. ASSUME NEW e \in AuditEntry, Logged(e) PROVE In(e, Trail') \/ e \in lost' \cup spoilt'
      BY <1>3, <2>1, <2>2, <2>4
    <2>5. ~ broke' => ~ broke /\ Trail' = Trail /\ ~ cut' /\ spoilt' = {}
      BY <2>1, <2>2, <2>3
    <2>6. \A e \in AuditEntry : In(e, Trail') => In(e, Trail)
      BY <1>3, <2>1, <2>2
    <2> QED BY <2>1, <2>3, <2>4, <2>5, <2>6
  <1>5. CASE UNCHANGED <<file, cut, spoilt, broke>> /\ buffer' = BufferKept
    BY <1>5 DEF BufferKept
  <1>6. CASE /\ "part" \in AuditFaults
             /\ \E n \in 0 .. Len(buffer) - 1 : \E piece \in IF n = 0 THEN {TRUE} ELSE BOOLEAN :
                   Appended(n, piece)
             /\ buffer' = BufferKept /\ broke' = TRUE
    <2>1. PICK n \in 0 .. Len(buffer), piece \in BOOLEAN : Appended(n, piece)
      <3>1. PICK n \in 0 .. Len(buffer) - 1 :
                \E piece \in IF n = 0 THEN {TRUE} ELSE BOOLEAN : Appended(n, piece)
        BY <1>6
      <3>2. PICK piece \in IF n = 0 THEN {TRUE} ELSE BOOLEAN : Appended(n, piece)
        BY <3>1
      <3>3. Len(buffer) \in Nat
        OBVIOUS
      <3>4. n \in 0 .. Len(buffer)
        BY <3>3
      <3>5. piece \in BOOLEAN
        BY Zenon
      <3> QED BY <3>2, <3>4, <3>5
    <2>2. /\ file' \in Seq(AuditEntry)
          /\ cut' \in BOOLEAN /\ spoilt' \in SUBSET AuditEntry
          /\ \A e \in AuditEntry : In(e, file') => In(e, file) \/ In(e, buffer)
          /\ \A e \in AuditEntry : In(e, file) => In(e, file')
          /\ spoilt \subseteq spoilt'
      BY <1>2, <2>1
    <2>3. buffer' = buffer
      BY <1>6 DEF BufferKept
    <2>4. \A e \in AuditEntry : In(e, Trail') <=> In(e, file') \/ In(e, buffer)
      BY <2>2, <2>3, ConcatIn
    <2> QED BY <1>3, <1>6, <2>2, <2>3, <2>4
  <1> QED BY <1>1, <1>4, <1>5, <1>6 DEF Flush

LEMMA EntryTypes ==
    ASSUME NEW n \in Calls
    PROVE  /\ Sent(n) \in AuditEntry /\ Sent(n).call = n /\ Sent(n).what = "sent"
           /\ Ended(n) \in AuditEntry /\ Ended(n).call = n /\ Ended(n).what = "ended"
  BY DEF Sent, Ended, AuditEntry

LEMMA CallTypes ==
    ASSUME ReqInv
    PROVE  /\ made \in Nat /\ 1 .. made \subseteq Calls /\ ended \subseteq 1 .. made
           /\ \A r \in Reqs : req[r] # Idle => req[r].call \in Calls
  BY CallsAssumption DEF ReqInv, Calls

LEMMA AuditInitInv == Init => AuditInv
  <1> SUFFICES ASSUME Init PROVE AuditInv
    OBVIOUS
  <1>1. made = 0 /\ ended = {} /\ req = [r \in Reqs |-> Idle] /\ stopping = FALSE
    BY DEF Init
  <1>2. /\ buffer = << >> /\ file = << >> /\ flushing = TRUE /\ lost = {}
        /\ cut = FALSE /\ spoilt = {} /\ broke = FALSE
    BY DEF Init, AuditInit
  <1>3. ReqInv
    BY <1>1 DEF ReqInv, Idle
  <1>4. AuditTypeOK
    <2>1. << >> \in Seq(AuditEntry) /\ {} \in SUBSET AuditEntry
      OBVIOUS
    <2> QED BY <1>2, <2>1 DEF AuditTypeOK
  <1>5. Trail = << >> /\ DOMAIN Trail = {}
    BY <1>2 DEF Trail
  <1>6. TrailInv
    BY <1>1, <1>2, <1>4, <1>5 DEF TrailInv, In, Ordered
  <1> QED BY <1>3, <1>6 DEF AuditInv

(* A flush, or nothing, happens to the log and nothing to the requests.         *)
LEMMA FlushInv ==
    ASSUME AuditInv, Flush, flushing' \in BOOLEAN, UNCHANGED <<lost, req, made, ended>>,
           stopping' \in BOOLEAN
    PROVE  AuditInv'
  <1>1. ReqInv'
    BY DEF AuditInv, ReqInv
  <1>2. /\ AuditTypeOK /\ (~ broke => Ordered(Trail) /\ ~ cut /\ spoilt = {})
        /\ \A e \in AuditEntry : In(e, Trail) =>
               e.call \in 1 .. made /\ (e.what = "ended" => e.call \in ended)
    BY DEF AuditInv, TrailInv
  <1>3. /\ buffer' \in Seq(AuditEntry) /\ file' \in Seq(AuditEntry)
        /\ cut' \in BOOLEAN /\ spoilt' \in SUBSET AuditEntry /\ broke' \in BOOLEAN
        /\ \A e \in AuditEntry : In(e, Trail') => In(e, Trail)
        /\ ~ broke' => Ordered(Trail') /\ ~ cut' /\ spoilt' = {}
    BY <1>2, FlushKeeps
  <1>4. ASSUME NEW e \in AuditEntry, Logged(e) PROVE In(e, Trail') \/ e \in lost' \cup spoilt'
    BY <1>2, <1>4, FlushKeeps
  <1>5. AuditTypeOK'
    BY <1>2, <1>3 DEF AuditTypeOK
  <1>6. ASSUME NEW r \in Reqs, req[r] # Idle
        PROVE  In(Sent(req[r].call), Trail') \/ Sent(req[r].call) \in lost' \cup spoilt'
    <2>1. req[r].call \in Calls /\ Logged(Sent(req[r].call))
      BY <1>6, CallTypes DEF AuditInv, TrailInv
    <2> QED BY <1>4, <2>1, EntryTypes
  <1>7. ASSUME NEW n \in ended
        PROVE  In(Ended(n), Trail') \/ Ended(n) \in lost' \cup spoilt'
    <2>1. n \in Calls /\ Logged(Ended(n))
      BY CallTypes DEF AuditInv, TrailInv
    <2> QED BY <1>4, <2>1, EntryTypes
  <1> QED BY <1>1, <1>2, <1>3, <1>6, <1>7, <1>5 DEF AuditInv, TrailInv, Logged

(* An entry is added.                                                           *)
LEMMA EntryKeeps ==
    ASSUME TrailInv, NEW x \in AuditEntry, buffer' = Append(buffer, x),
           UNCHANGED <<file, cut, flushing, lost, spoilt, broke>>
    PROVE  /\ AuditTypeOK'
           /\ \A e \in AuditEntry : In(e, Trail') <=> In(e, Trail) \/ e = x
           /\ \A e \in AuditEntry : Logged(e) \/ e = x => In(e, Trail') \/ e \in lost' \cup spoilt'
           /\ Trail' = Append(Trail, x) /\ Trail \in Seq(AuditEntry)
  <1>1. buffer \in Seq(AuditEntry) /\ file \in Seq(AuditEntry)
    BY DEF TrailInv, AuditTypeOK
  <1>2. Trail' = Append(Trail, x) /\ Trail \in Seq(AuditEntry)
    BY <1>1 DEF Trail
  <1>3. \A e \in AuditEntry : In(e, Trail') <=> In(e, Trail) \/ e = x
    BY <1>2, AppendIn
  <1>4. AuditTypeOK'
    BY <1>1 DEF TrailInv, AuditTypeOK
  <1> QED BY <1>2, <1>3, <1>4 DEF Logged

LEMMA TrailGrows ==
    ASSUME TrailInv, NEW x \in AuditEntry, buffer' = Append(buffer, x),
           UNCHANGED <<file, cut, flushing, lost, spoilt, broke>>,
           made \in Nat, made' \in Nat, made <= made', ended \subseteq ended',
           x.call \in 1 .. made', x.what = "ended" => x.call \in ended',
           ~ In(x, Trail),
           x.what = "sent" => \A e \in AuditEntry : In(e, Trail) => e.call # x.call,
           \A r \in Reqs : req'[r] # Idle =>
               /\ req'[r].call \in Calls
               /\ (req[r] # Idle /\ req'[r].call = req[r].call) \/ x = Sent(req'[r].call),
           \A n \in ended' : n \in Calls /\ (n \in ended \/ x = Ended(n))
    PROVE  TrailInv'
  <1>1. /\ AuditTypeOK'
        /\ \A e \in AuditEntry : In(e, Trail') <=> In(e, Trail) \/ e = x
        /\ \A e \in AuditEntry : Logged(e) \/ e = x => In(e, Trail') \/ e \in lost' \cup spoilt'
        /\ Trail' = Append(Trail, x) /\ Trail \in Seq(AuditEntry)
    BY EntryKeeps
  <1>2. ASSUME NEW e \in AuditEntry, In(e, Trail')
        PROVE  e.call \in 1 .. made' /\ (e.what = "ended" => e.call \in ended')
    <2>1. CASE In(e, Trail)
      <3>1. e.call \in 1 .. made /\ (e.what = "ended" => e.call \in ended)
        BY <2>1 DEF TrailInv
      <3> QED BY <3>1
    <2>2. CASE e = x
      BY <2>2
    <2> QED BY <1>1, <1>2, <2>1, <2>2
  <1>3. ASSUME NEW r \in Reqs, req'[r] # Idle
        PROVE  In(Sent(req'[r].call), Trail') \/ Sent(req'[r].call) \in lost' \cup spoilt'
    <2>1. Sent(req'[r].call) \in AuditEntry
      BY <1>3, EntryTypes
    <2>2. CASE req[r] # Idle /\ req'[r].call = req[r].call
      <3>1. Logged(Sent(req[r].call))
        BY <2>2 DEF TrailInv
      <3> QED BY <1>1, <2>1, <2>2, <3>1
    <2>3. CASE x = Sent(req'[r].call)
      BY <1>1, <2>1, <2>3
    <2> QED BY <1>3, <2>2, <2>3
  <1>4. ASSUME NEW n \in ended' PROVE In(Ended(n), Trail') \/ Ended(n) \in lost' \cup spoilt'
    <2>1. n \in Calls /\ Ended(n) \in AuditEntry
      BY EntryTypes
    <2>2. CASE n \in ended
      <3>1. Logged(Ended(n))
        BY <2>2 DEF TrailInv
      <3> QED BY <1>1, <2>1, <3>1
    <2>3. CASE x = Ended(n)
      BY <1>1, <2>1, <2>3
    <2> QED BY <2>2, <2>3
  <1>5. ~ broke' => Ordered(Trail') /\ ~ cut' /\ spoilt' = {}
    BY <1>1, AppendOrdered DEF TrailInv
  <1> QED BY <1>1, <1>2, <1>3, <1>4, <1>5 DEF TrailInv, Logged

(* The next call is new.                                                        *)
LEMMA NextCallNew ==
    ASSUME AuditInv, NextCall \in Calls
    PROVE  /\ made \in Nat /\ made + 1 = NextCall /\ NextCall \notin ended
           /\ \A r \in Reqs : req[r] # Idle => req[r].call # NextCall
           /\ \A e \in AuditEntry : In(e, Trail) => e.call # NextCall
  <1>1. made \in Nat /\ made + 1 = NextCall /\ NextCall \notin 1 .. made
    BY CallTypes DEF AuditInv, NextCall
  <1> QED BY <1>1 DEF AuditInv, ReqInv, TrailInv

LEMMA SentInv ==
    ASSUME AuditInv, NextCall \in Calls, made' = NextCall, UNCHANGED <<ended, stopping>>,
           NEW r \in Reqs, req[r] = Idle,
           req' = [req EXCEPT ![r] = [pc |-> "sent", call |-> NextCall]],
           LogServiceRequest(NextCall)
    PROVE  AuditInv'
  <1> DEFINE n == NextCall
  <1>1. /\ made \in Nat /\ made + 1 = n /\ n \notin ended
        /\ \A q \in Reqs : req[q] # Idle => req[q].call # n
        /\ \A e \in AuditEntry : In(e, Trail) => e.call # n
    BY NextCallNew
  <1>2. /\ Sent(n) \in AuditEntry /\ Sent(n).call = n /\ Sent(n).what = "sent"
    BY EntryTypes
  <1>3. /\ ended \subseteq 1 .. made /\ 1 .. made \subseteq Calls
        /\ \A q \in Reqs : req[q] # Idle => req[q].call \in Calls
    BY CallTypes DEF AuditInv
  <1>4. /\ req'[r] = [pc |-> "sent", call |-> n]
        /\ \A q \in Reqs \ {r} : req'[q] = req[q]
        /\ req' \in [Reqs -> [pc : {"idle", "sent", "body"}, call : Calls \cup {0}]]
    BY DEF AuditInv, ReqInv
  <1> HIDE DEF n
  <1>5. made' = n /\ n \in Calls /\ ended' = ended
    BY DEF n
  <1>6. \A q \in Reqs : req[q].call # n
    BY <1>1, <1>5, CallsAssumption DEF Idle, Calls
  <1>7. ReqInv'
    <2>1. \A q \in Reqs : req'[q] # Idle => req'[q].call \in (1 .. made') \ ended'
      BY <1>1, <1>4, <1>5 DEF AuditInv, ReqInv
    <2>2. \A p, q \in Reqs : req'[p] # Idle /\ req'[p].call = req'[q].call => p = q
      BY <1>4, <1>6 DEF AuditInv, ReqInv
    <2> QED BY <1>1, <1>3, <1>4, <1>5, <2>1, <2>2 DEF AuditInv, ReqInv
  <1>8. TrailInv'
    <2>1. buffer' = Append(buffer, Sent(n)) /\ UNCHANGED <<file, cut, flushing, lost, spoilt, broke>>
      BY DEF LogServiceRequest, n
    <2>2. ~ In(Sent(n), Trail)
      BY <1>1, <1>2
    <2>3. \A q \in Reqs : req'[q] # Idle =>
              /\ req'[q].call \in Calls
              /\ (req[q] # Idle /\ req'[q].call = req[q].call) \/ Sent(n) = Sent(req'[q].call)
      BY <1>3, <1>4, <1>5
    <2>4. \A m \in ended' : m \in Calls /\ (m \in ended \/ Sent(n) = Ended(m))
      BY <1>3, <1>5
    <2> QED BY <1>1, <1>2, <1>5, <2>1, <2>2, <2>3, <2>4, TrailGrows DEF AuditInv
  <1> QED BY <1>7, <1>8 DEF AuditInv

(* A call that could not be sent: it is made and ended at once.                 *)
LEMMA FailedInv ==
    ASSUME AuditInv, NextCall \in Calls, made' = NextCall, ended' = ended \cup {NextCall},
           UNCHANGED <<req, stopping>>, Log(NextCall)
    PROVE  AuditInv'
  <1> DEFINE n == NextCall
  <1>1. /\ made \in Nat /\ made + 1 = n /\ n \notin ended
        /\ \A q \in Reqs : req[q] # Idle => req[q].call # n
        /\ \A e \in AuditEntry : In(e, Trail) => e.call # n
    BY NextCallNew
  <1>2. /\ Ended(n) \in AuditEntry /\ Ended(n).call = n /\ Ended(n).what = "ended"
    BY EntryTypes
  <1>3. /\ ended \subseteq 1 .. made /\ 1 .. made \subseteq Calls
        /\ \A q \in Reqs : req[q] # Idle => req[q].call \in Calls
    BY CallTypes DEF AuditInv
  <1> HIDE DEF n
  <1>4. made' = n /\ n \in Calls /\ ended' = ended \cup {n} /\ req' = req
    BY DEF n
  <1>5. ReqInv'
    <2>1. \A q \in Reqs : req'[q] # Idle => req'[q].call \in (1 .. made') \ ended'
      BY <1>1, <1>4 DEF AuditInv, ReqInv
    <2>2. ended' \in SUBSET (1 .. made')
      <3>1. n \in 1 .. n /\ 1 .. made \subseteq 1 .. n
        BY <1>1
      <3> QED BY <1>3, <1>4, <3>1
    <2>3. \A p, q \in Reqs : req'[p] # Idle /\ req'[p].call = req'[q].call => p = q
      BY <1>4 DEF AuditInv, ReqInv
    <2>4. made' \in Calls \cup {0} /\ stopping' \in BOOLEAN
      BY <1>4 DEF AuditInv, ReqInv
    <2>5. req' \in [Reqs -> [pc : {"idle", "sent", "body"}, call : Calls \cup {0}]]
      BY <1>4 DEF AuditInv, ReqInv
    <2> QED BY <2>1, <2>2, <2>3, <2>4, <2>5 DEF ReqInv
  <1>6. TrailInv'
    <2>1. buffer' = Append(buffer, Ended(n)) /\ UNCHANGED <<file, cut, flushing, lost, spoilt, broke>>
      BY DEF Log, n
    <2>2. ~ In(Ended(n), Trail)
      BY <1>1, <1>2
    <2>3. n \in 1 .. made' /\ n \in ended' /\ ended \subseteq ended'
      BY <1>1, <1>4
    <2>4. \A q \in Reqs : req'[q] # Idle =>
              req'[q].call \in Calls /\ req[q] # Idle /\ req'[q].call = req[q].call
      BY <1>3, <1>4
    <2>5. \A m \in ended' : m \in Calls /\ (m \in ended \/ Ended(n) = Ended(m))
      BY <1>3, <1>4
    <2>6. made <= made' /\ made' \in Nat
      BY <1>1, <1>4
    <2> QED BY <1>1, <1>2, <2>1, <2>2, <2>3, <2>4, <2>5, <2>6, TrailGrows DEF AuditInv
  <1> QED BY <1>5, <1>6 DEF AuditInv

LEMMA AnsweredInv ==
    ASSUME AuditInv, NEW r \in Reqs, req[r].pc # "idle", Answered(r)
    PROVE  AuditInv'
  <1> DEFINE n == req[r].call
  <1>1. req[r] # Idle /\ n \in (1 .. made) \ ended /\ n \in Calls
    BY CallTypes DEF AuditInv, ReqInv, Idle
  <1>2. /\ Ended(n) \in AuditEntry /\ Ended(n).call = n /\ Ended(n).what = "ended"
    BY <1>1, EntryTypes
  <1>3. /\ made \in Nat /\ ended \subseteq 1 .. made /\ 1 .. made \subseteq Calls
        /\ \A q \in Reqs : req[q] # Idle => req[q].call \in Calls
    BY CallTypes DEF AuditInv
  <1>4. req'[r] = Idle /\ (\A q \in Reqs \ {r} : req'[q] = req[q] /\ req[q].call # n)
    BY <1>1 DEF Answered, AuditInv, ReqInv
  <1>5. req' \in [Reqs -> [pc : {"idle", "sent", "body"}, call : Calls \cup {0}]]
    BY DEF Answered, Idle, AuditInv, ReqInv
  <1>6. /\ ended' = ended \cup {n} /\ made' = made /\ stopping' = stopping
        /\ buffer' = Append(buffer, Ended(n)) /\ UNCHANGED <<file, cut, flushing, lost, spoilt, broke>>
    BY DEF Answered, Log
  <1> HIDE DEF n
  <1>7. ReqInv'
    <2>1. \A q \in Reqs : req'[q] # Idle => req'[q].call \in (1 .. made') \ ended'
      BY <1>4, <1>6 DEF AuditInv, ReqInv
    <2>2. \A p, q \in Reqs : req'[p] # Idle /\ req'[p].call = req'[q].call => p = q
      <3>1. SUFFICES ASSUME NEW p \in Reqs, NEW q \in Reqs, req'[p] # Idle, req'[p].call = req'[q].call
                     PROVE  p = q
        OBVIOUS
      <3>2. p # r /\ req[p] # Idle /\ req[p].call \in Calls
        BY <1>3, <1>4, <3>1
      <3>3. q # r
        BY <1>4, <3>1, <3>2, CallsAssumption DEF Idle, Calls
      <3> QED BY <1>4, <3>1, <3>2, <3>3 DEF AuditInv, ReqInv
    <2>3. ended' \in SUBSET (1 .. made')
      BY <1>1, <1>3, <1>6
    <2> QED BY <1>5, <1>6, <2>1, <2>2, <2>3 DEF AuditInv, ReqInv
  <1>8. TrailInv'
    <2>1. ~ In(Ended(n), Trail)
      BY <1>1, <1>2 DEF AuditInv, TrailInv
    <2>2. n \in 1 .. made' /\ n \in ended' /\ ended \subseteq ended' /\ made <= made' /\ made' \in Nat
      BY <1>1, <1>3, <1>6
    <2>3. \A q \in Reqs : req'[q] # Idle =>
              req'[q].call \in Calls /\ req[q] # Idle /\ req'[q].call = req[q].call
      BY <1>3, <1>4
    <2>4. \A m \in ended' : m \in Calls /\ (m \in ended \/ Ended(n) = Ended(m))
      BY <1>1, <1>3, <1>6
    <2> QED BY <1>2, <1>3, <1>6, <2>1, <2>2, <2>3, <2>4, TrailGrows DEF AuditInv
  <1> QED BY <1>7, <1>8 DEF AuditInv

(* A request goes on: nothing but its place changes.                            *)
LEMMA HeadersInv ==
    ASSUME AuditInv, NEW r \in Reqs, Headers(r)
    PROVE  AuditInv'
  <1>1. req[r] # Idle /\ UNCHANGED <<auditVars, made, ended, stopping>>
    BY DEF Headers, Idle
  <1>2. /\ req' \in [Reqs -> [pc : {"idle", "sent", "body"}, call : Calls \cup {0}]]
        /\ \A q \in Reqs : req'[q].call = req[q].call /\ (req'[q] # Idle => req[q] # Idle)
    BY <1>1 DEF Headers, AuditInv, ReqInv
  <1>3. ReqInv'
    BY <1>1, <1>2 DEF AuditInv, ReqInv
  <1>4. TrailInv'
    BY <1>1, <1>2 DEF AuditInv, TrailInv, Logged, Trail, AuditTypeOK, auditVars
  <1> QED BY <1>3, <1>4 DEF AuditInv

LEMMA RestartedInv ==
    ASSUME AuditInv, Restarted
    PROVE  AuditInv'
  <1>1. /\ buffer' = << >> /\ flushing' = TRUE /\ file' = file
        /\ cut' = cut /\ spoilt' = spoilt /\ broke' = broke
        /\ lost' = lost \cup {buffer[i] : i \in DOMAIN buffer}
        /\ req' = [r \in Reqs |-> Idle] /\ stopping' = FALSE /\ made' = made /\ ended' = ended
    BY DEF Restarted, AuditRestart
  <1>2. /\ buffer \in Seq(AuditEntry) /\ file \in Seq(AuditEntry) /\ lost \in SUBSET AuditEntry
        /\ cut \in BOOLEAN /\ spoilt \in SUBSET AuditEntry /\ broke \in BOOLEAN
    BY DEF AuditInv, TrailInv, AuditTypeOK
  <1>3. Trail' = file
    BY <1>1, <1>2 DEF Trail
  <1>4. ReqInv'
    BY <1>1 DEF AuditInv, ReqInv, Idle
  <1>5. AuditTypeOK'
    BY <1>1, <1>2 DEF AuditTypeOK
  <1>6. ASSUME NEW e \in AuditEntry PROVE In(e, Trail) <=> In(e, file) \/ In(e, buffer)
    BY <1>2, ConcatIn DEF Trail
  <1>7. \A e \in AuditEntry : In(e, buffer) => e \in lost'
    BY <1>1 DEF In
  <1>8. ASSUME NEW n \in ended PROVE In(Ended(n), Trail') \/ Ended(n) \in lost' \cup spoilt'
    <2>1. n \in Calls /\ Logged(Ended(n))
      BY CallTypes DEF AuditInv, TrailInv
    <2> QED BY <1>1, <1>3, <1>6, <1>7, <2>1, EntryTypes DEF Logged
  <1>9. ~ broke' => Ordered(Trail') /\ ~ cut' /\ spoilt' = {}
    BY <1>1, <1>2, <1>3, PrefixOrdered DEF AuditInv, TrailInv, Trail
  <1>10. \A e \in AuditEntry : In(e, Trail') =>
             e.call \in 1 .. made /\ (e.what = "ended" => e.call \in ended)
    BY <1>3, <1>6 DEF AuditInv, TrailInv
  <1>11. \A r \in Reqs : req'[r] = Idle
    BY <1>1
  <1> QED BY <1>1, <1>4, <1>5, <1>8, <1>9, <1>10, <1>11 DEF AuditInv, TrailInv, Logged

LEMMA QuietInv ==
    ASSUME AuditInv, UNCHANGED <<auditVars, reqVars>>
    PROVE  AuditInv'
  BY DEF AuditInv, ReqInv, TrailInv, Logged, Trail, AuditTypeOK, auditVars, reqVars

LEMMA AuditStepInv == AuditInv /\ [Next]_vars => AuditInv'
  <1> SUFFICES ASSUME AuditInv, [Next]_vars PROVE AuditInv'
    OBVIOUS
  <1>1. CASE \E t \in Tokens : Spawn(t)
    BY <1>1, QuietInv DEF Spawn
  <1>2. ASSUME NEW r \in Reqs, NEW t \in Tokens, NEW s \in Services, Forbidden(r, t, s)
        PROVE  AuditInv'
    BY <1>2, QuietInv DEF Forbidden, Admitted, reqVars
  <1>3. ASSUME NEW r \in Reqs, NEW t \in Tokens, NEW s \in Services, NoCredential(r, t, s)
        PROVE  AuditInv'
    BY <1>3, FailedInv DEF NoCredential, Admitted
  <1>4. ASSUME NEW r \in Reqs, NEW t \in Tokens, NEW s \in Services, BadEndpoint(r, t, s)
        PROVE  AuditInv'
    BY <1>4, FailedInv DEF BadEndpoint, Supplied, Admitted
  <1>5. ASSUME NEW r \in Reqs, NEW t \in Tokens, NEW s \in Services, Proxy(r, t, s)
        PROVE  AuditInv'
    BY <1>5, SentInv DEF Proxy, Supplied, Admitted
  <1>6. ASSUME NEW r \in Reqs, Headers(r) PROVE AuditInv'
    BY <1>6, HeadersInv
  <1>7. ASSUME NEW r \in Reqs, Abort(r) \/ Body(r) PROVE AuditInv'
    BY <1>7, AnsweredInv DEF Abort, Body
  <1>8. CASE Requests
    BY <1>2, <1>3, <1>4, <1>5, <1>6, <1>7, <1>8 DEF Requests
  <1>9. CASE TokenStep \/ VaultStep \/ TickStep
    BY <1>9, QuietInv DEF TokenStep, VaultStep, TickStep
  <1>10. CASE FlushStep
    <2>1. AuditTypeOK /\ ReqInv
      BY DEF AuditInv, TrailInv
    <2> QED BY <1>10, <2>1, FlushInv DEF FlushStep, FlushTimer, AuditTypeOK, ReqInv, reqVars
  <1>11. CASE Shutdown
    BY <1>11, FlushInv DEF Shutdown, AuditShutdown
  <1>12. CASE Exit \/ ForcedExit \/ Die
    BY <1>12, RestartedInv DEF Exit, ForcedExit, Die
  <1>13. CASE UNCHANGED vars
    BY <1>13, QuietInv DEF vars
  <1> QED BY <1>1, <1>8, <1>9, <1>10, <1>11, <1>12, <1>13 DEF Next

-----------------------------------------------------------------------------
(* Each step of the gateway is a step of the tokens, or none of theirs.         *)
LEMMA TokensSimulated == [Next]_vars => [TokensNext]_tvars
  <1> SUFFICES ASSUME [Next]_vars PROVE [TokensNext]_tvars
    OBVIOUS
  <1> USE DEF TokensNext, tvars
  <1>1. ASSUME NEW t \in Tokens, Spawn(t) PROVE TokensNext
    BY <1>1 DEF Spawn
  <1>2. ASSUME NEW r \in Reqs, NEW t \in Tokens, Admitted(r, t) PROVE TokensNext
    BY <1>2 DEF Admitted
  <1>3. ASSUME NEW r \in Reqs, Headers(r) \/ Answered(r) PROVE UNCHANGED tvars
    BY <1>3 DEF Headers, Answered
  <1>4. CASE Requests
    BY <1>2, <1>3, <1>4 DEF Requests, Forbidden, NoCredential, BadEndpoint, Proxy, Supplied, Abort, Body
  <1>5. CASE TokenStep \/ Exit \/ ForcedExit \/ Die
    BY <1>5 DEF TokenStep, Exit, ForcedExit, Die, Restarted
  <1>6. CASE VaultStep \/ FlushStep \/ Shutdown
    BY <1>6 DEF VaultStep, FlushStep, Shutdown
  <1>7. CASE TickStep
    BY <1>7 DEF TickStep
  <1>8. CASE UNCHANGED vars
    BY <1>8 DEF vars
  <1> QED BY <1>1, <1>4, <1>5, <1>6, <1>7, <1>8 DEF Next

(* Each credential a proxy takes is one of the vault's.                         *)
LEMMA CredentialTypes ==
    ASSUME VaultTypeOK, NEW s
    PROVE  Credential(s) \in Ids \cup {FromEnv, None} \/ s[1] \notin {"llm", "plane", "bookstack", "matrix", "github"}
  <1>1. ASSUME NEW type, NEW provider PROVE Found(type, provider) \in Ids \cup {None}
    <2>1. FirstOf(type, provider) \in Ids \cup {None}
      BY DEF FirstOf, Matches, VaultTypeOK
    <2> QED BY <2>1 DEF Found
  <1>2. \A service : EnvOr(service) \in Ids \cup {FromEnv, None}
    BY <1>1 DEF EnvOr
  <1>3. \A provider : LLMCredential(provider) \in Ids \cup {None}
    BY <1>1 DEF LLMCredential
  <1> QED BY <1>2, <1>3 DEF Credential, PlaneCredential, BookstackCredential, MatrixCredential,
                            GithubCredential

(* Each step of the gateway is a step of the vault, or none of its.             *)
LEMMA VaultSimulated == VaultInv /\ [Next]_vars => [VaultNext]_vvars
  <1> SUFFICES ASSUME VaultInv, [Next]_vars PROVE [VaultNext]_vvars
    OBVIOUS
  <1> USE DEF VaultNext, vvars
  <1>1. ASSUME NEW t \in Tokens, Spawn(t) PROVE [VaultNext]_vvars
    BY <1>1 DEF Spawn, EnsureVaultCredentials, VaultAdmin
  <1>2. ASSUME NEW r \in Reqs, NEW t \in Tokens, NEW s \in Services, Supplied(r, t, s)
        PROVE  [VaultNext]_vvars
    <2>1. Credential(s) # None /\ UNCHANGED now
      BY <1>2 DEF Supplied, Admitted
    <2>2. CASE Credential(s) = FromEnv
      BY <1>2, <2>1, <2>2 DEF Supplied
    <2>3. CASE Credential(s) # FromEnv
      <3>1. GetCredential(Credential(s))
        BY <1>2, <2>3 DEF Supplied
      <3>2. Credential(s) \in Ids
        BY <2>1, <2>3, CredentialTypes, ServicesAssumption DEF VaultInv
      <3> QED BY <2>1, <3>1, <3>2
    <2> QED BY <2>2, <2>3
  <1>3. ASSUME NEW r \in Reqs, NEW t \in Tokens, NEW s \in Services, Forbidden(r, t, s) \/ NoCredential(r, t, s)
        PROVE  UNCHANGED vvars
    BY <1>3 DEF Forbidden, NoCredential, Admitted
  <1>4. ASSUME NEW r \in Reqs, Headers(r) \/ Answered(r) PROVE UNCHANGED vvars
    BY <1>4 DEF Headers, Answered
  <1>5. CASE Requests
    BY <1>2, <1>3, <1>4, <1>5 DEF Requests, BadEndpoint, Proxy, Abort, Body
  <1>6. CASE VaultStep \/ Exit \/ ForcedExit \/ Die
    BY <1>6 DEF VaultStep, VaultAdmin, Exit, ForcedExit, Die, Restarted
  <1>7. CASE TokenStep \/ FlushStep \/ Shutdown
    BY <1>7 DEF TokenStep, FlushStep, Shutdown
  <1>8. CASE TickStep
    BY <1>8 DEF TickStep
  <1>9. CASE UNCHANGED vars
    BY <1>9 DEF vars
  <1> QED BY <1>1, <1>5, <1>6, <1>7, <1>8, <1>9 DEF Next

(* What holds of the three parts together.                                      *)
LEMMA PartsInvariance == Spec => [](TokensInv /\ VaultInv /\ AuditInv)
  <1>1. Init => TokensInv /\ VaultInv /\ AuditInv
    BY TokensInitInv, VaultInitInv, AuditInitInv DEF Init
  <1>2. TokensInv /\ VaultInv /\ AuditInv /\ [Next]_vars => (TokensInv /\ VaultInv /\ AuditInv)'
    BY TokensSimulated, TokensStepInv, VaultSimulated, VaultStepInv, AuditStepInv
  <1> QED BY <1>1, <1>2, PTL DEF Spec

(* The gateway keeps the rules of the tokens: no call, flush or restart in it   *)
(* does to a token what the token manager by itself does not.                   *)
THEOREM ImplementsTokens == Spec => TokensSpec
  <1>1. Init => TokensStart
    BY DEF Init, TokensStart
  <1>2. Spec => [][TokensNext]_tvars
    BY TokensSimulated, PTL DEF Spec
  <1> QED BY <1>1, <1>2, PTL DEF Spec, TokensSpec, tvars

(* And those of the vault.                                                      *)
THEOREM ImplementsVault == Spec => VaultSpec
  <1>1. Init => VaultStart
    BY DEF Init, VaultStart
  <1>2. Spec => [][VaultNext]_vvars
    BY VaultSimulated, PartsInvariance, PTL DEF Spec
  <1> QED BY <1>1, <1>2, PTL DEF Spec, VaultSpec, vvars

(* The state of the gateway has its type.                                       *)
THEOREM GatewayTypeCorrect == Spec => []TypeOK
  <1>1. TokensInv /\ VaultInv /\ AuditInv => TypeOK
    <2> SUFFICES ASSUME TokensInv, VaultInv, AuditInv PROVE TypeOK
      OBVIOUS
    <2>1. ended \in SUBSET Calls
      BY CallTypes DEF AuditInv
    <2> QED BY <2>1 DEF TypeOK, TokensInv, VaultInv, AuditInv, ReqInv, TrailInv
  <1> QED BY <1>1, PartsInvariance, PTL

(* A revoked token is refused while requests are served (consumer-token.ts:     *)
(* validateToken()), whatever the other parts do.                               *)
THEOREM RevokedRefusedAtGateway == Spec => []RevokedRefused
  BY ImplementsTokens, RevokedAlwaysRefused, PTL

(* No token is served more than twice its limit in the length of a window       *)
(* (consumer-token.ts: checkRateLimit()), however requests overlap.             *)
THEOREM RateBoundedAtGateway == Spec => []RateBounded
  BY ImplementsTokens, RateAlwaysBounded, PTL

(* No call goes unlogged, and none is logged twice or in the wrong order, but   *)
(* for what an append that broke off repeats (audit-logger.ts: log(), flush()). *)
THEOREM CallsAccounted == Spec => []AuditAccounted
  <1>1. AuditInv => AuditAccounted
    BY DEF AuditInv, ReqInv, TrailInv, AuditAccounted, Logged, Trail, Ordered
  <1> QED BY <1>1, PartsInvariance, PTL
=============================================================================
