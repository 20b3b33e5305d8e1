--------------------------- MODULE ServicesProofs ---------------------------
(***************************************************************************)
(* What is proved of the services around the dispatcher, for every value   *)
(* of their constants: the tokens of Linear's calls, the owner's consents, *)
(* the facts of a plan and the deliveries of the webhook.                  *)
(***************************************************************************)
EXTENDS Webhook, Tokens, PlanFacts, FiniteSetTheorems, WellFoundedInduction, TLAPS

-----------------------------------------------------------------------------
(* Tokens *)

(* What the records of the two sources are after a mint and after a close, *)
(* over any tokens S known before and T known after.                       *)
LEMMA CachedRecord ==
  ASSUME NEW S, NEW T, S \subseteq T, NEW r \in [current: S, resting: BOOLEAN, closed: BOOLEAN],
         NEW t \in T, NEW b \in BOOLEAN
  PROVE  /\ [r EXCEPT !.resting = b, !.current = t] \in [current: T, resting: BOOLEAN, closed: BOOLEAN]
         /\ [r EXCEPT !.closed = TRUE, !.current = t] \in [current: T, resting: BOOLEAN, closed: BOOLEAN]
  OBVIOUS

LEMMA PolledRecord ==
  ASSUME NEW S, NEW T, S \subseteq T, NEW P, NEW Q, P \subseteq Q,
         NEW r \in [current: S, refreshed: BOOLEAN, minted: P, closed: BOOLEAN],
         NEW t \in T, NEW m \in Q, NEW b \in BOOLEAN
  PROVE  /\ [r EXCEPT !.refreshed = b, !.current = t, !.minted = m]
                \in [current: T, refreshed: BOOLEAN, minted: Q, closed: BOOLEAN]
         /\ [r EXCEPT !.closed = TRUE, !.current = t, !.minted = m]
                \in [current: T, refreshed: BOOLEAN, minted: Q, closed: BOOLEAN]
  OBVIOUS

(* What a mint leaves behind: a token the source did not hear of is live   *)
(* only as one of those, and no token known before changes its standing.   *)
LEMMA Minted ==
  ASSUME TokensTypeOK, NEW reply \in Replies, mint(reply)
  PROVE  /\ minted \in Nat /\ minted' \in Nat /\ 0..minted \subseteq 0..minted' /\ 1..minted \subseteq 1..minted'
         /\ live' \subseteq 1..minted' /\ unheard \subseteq unheard'
         /\ \A t \in 0..minted : t \in live' => t \in live
         /\ reply # "answered" => live' \subseteq live \union unheard'
         /\ reply = "answered" => minted' = minted + 1 /\ live' = live \union {minted + 1}
  <1>1. CASE reply = "refused"
    BY <1>1 DEF mint, TokensTypeOK
  <1>2. CASE reply # "refused"
    <2>1. minted' = minted + 1 /\ live' = live \union {minted + 1}
      BY <1>2 DEF mint
    <2>2. unheard' = IF reply = "lost" THEN unheard \union {minted + 1} ELSE unheard
      BY <1>2 DEF mint
    <2>3. reply = "lost" \/ reply = "answered"
      BY <1>2 DEF Replies
    <2> QED  BY <2>1, <2>2, <2>3 DEF TokensTypeOK
  <1> QED  BY <1>1, <1>2

(* The cached source's mint: the token it replaces is one Linear refused,  *)
(* or none at all.                                                         *)
LEMMA CachedMintKeeps ==
  ASSUME TokensIInv, NEW c \in Callers, NEW refreshing \in BOOLEAN, NEW reply \in Replies,
         NEW next \in {"call", "again"}, cached.current \notin live, ~cached.closed, SourceOf[c] = "cached",
         CachedMint(c, refreshing, reply, next), UNCHANGED <<polled, unrevoked, orphaned>>
  PROVE  TokensIInv'
  <1>0. TokensTypeOK
    BY DEF TokensIInv
  <1>1. CASE cached.resting
    BY <1>1 DEF CachedMint, Kept, Goes, TokensIInv, TokensTypeOK, RefusedIsDead, ClosedIsQuiet,
         TokensAreAccounted, At, Closed, Unauthenticated, None
  <1>2. CASE ~cached.resting /\ reply # "answered"
    <2>1. /\ mint(reply) /\ cached' = [cached EXCEPT !.resting = TRUE, !.current = @]
          /\ call' = [call EXCEPT ![c] = [at |-> "idle", token |-> None]]
      BY <1>2 DEF CachedMint, Goes
    <2>2. /\ minted \in Nat /\ minted' \in Nat /\ 0..minted \subseteq 0..minted' /\ 1..minted \subseteq 1..minted'
          /\ live' \subseteq 1..minted' /\ live' \subseteq live \union unheard' /\ unheard \subseteq unheard'
          /\ \A t \in 0..minted : t \in live' => t \in live
      BY <1>0, <1>2, <2>1, Minted
    <2>3. /\ cached' \in [current: 0..minted', resting: BOOLEAN, closed: BOOLEAN]
          /\ cached'.current = cached.current /\ ~cached'.closed
      BY <1>0, <2>1, <2>2 DEF TokensTypeOK
    <2>4. TokensTypeOK'
      BY <1>0, <2>1, <2>2, <2>3 DEF TokensTypeOK, None
    <2>5. RefusedIsDead'
      BY <1>0, <2>1, <2>2 DEF TokensIInv, TokensTypeOK, RefusedIsDead, At, Unauthenticated
    <2>6. TokensAreAccounted'
      BY <2>2, <2>3 DEF TokensIInv, TokensAreAccounted
    <2>7. ClosedIsQuiet'
      BY <1>0, <2>1, <2>3 DEF TokensIInv, TokensTypeOK, ClosedIsQuiet, Closed, At
    <2> QED  BY <2>4, <2>5, <2>6, <2>7 DEF TokensIInv
  <1>3. CASE ~cached.resting /\ reply = "answered"
    <2>1. /\ mint(reply) /\ cached' = [cached EXCEPT !.resting = refreshing, !.current = minted + 1]
          /\ call' = [call EXCEPT ![c] = [at |-> next, token |-> minted + 1]]
      BY <1>3 DEF CachedMint, Goes, TokensIInv, TokensTypeOK
    <2>2. /\ minted \in Nat /\ 0..minted \subseteq 0..minted' /\ 1..minted \subseteq 1..minted'
          /\ minted' = minted + 1 /\ live' = live \union {minted + 1} /\ unheard \subseteq unheard'
      BY <1>0, <1>3, <2>1, Minted
    <2>3. TokensTypeOK'
      <3>1. cached' \in [current: 0..minted', resting: BOOLEAN, closed: BOOLEAN]
        <4>1. minted + 1 \in 0..minted' /\ cached \in [current: 0..minted, resting: BOOLEAN, closed: BOOLEAN]
          BY <1>0, <2>2 DEF TokensTypeOK
        <4>2. cached' = [cached EXCEPT !.resting = refreshing, !.current = minted + 1] /\ 0..minted \subseteq 0..minted'
          BY <2>1, <2>2
        <4> QED  BY <4>1, <4>2, CachedRecord
      <3>2. call' \in [Callers -> [at: {"idle", "call", "refused", "again"}, token: 0..minted']]
        BY <1>0, <2>1, <2>2 DEF TokensTypeOK
      <3> QED  BY <1>0, <3>1, <3>2, <2>2 DEF TokensTypeOK
    <2>4. RefusedIsDead'
      BY <2>1, <2>2 DEF TokensIInv, TokensTypeOK, RefusedIsDead, At, Unauthenticated
    <2>5. TokensAreAccounted'
      <3>1. cached'.current = minted + 1
        BY <1>0, <2>1 DEF TokensTypeOK
      <3> QED  BY <2>2, <3>1 DEF TokensIInv, TokensAreAccounted
    <2>6. ClosedIsQuiet'
      <3>1. ~cached'.closed
        BY <1>0, <2>1 DEF TokensTypeOK
      <3> QED  BY <1>0, <2>1, <3>1 DEF TokensIInv, TokensTypeOK, ClosedIsQuiet, Closed, At
    <2> QED  BY <2>3, <2>4, <2>5, <2>6 DEF TokensIInv
  <1> QED  BY <1>1, <1>2, <1>3

(* The poll's source keeps every token it minted until it ends. *)
LEMMA PollSourceMintKeeps ==
  ASSUME TokensIInv, NEW c \in Callers, NEW reply \in Replies, NEW next \in {"call", "again"},
         ~polled.closed, SourceOf[c] = "poll",
         PollSourceMint(c, reply, next), UNCHANGED <<cached, unrevoked, orphaned>>
  PROVE  TokensIInv'
  <1>0. TokensTypeOK /\ mint(reply)
    BY DEF TokensIInv, PollSourceMint
  <1>1. CASE reply # "answered"
    <2>1. /\ polled' = [polled EXCEPT !.refreshed = @ \/ next = "again", !.current = @, !.minted = @]
          /\ call' = [call EXCEPT ![c] = [at |-> "idle", token |-> None]]
      BY <1>1 DEF PollSourceMint, Goes
    <2>2. /\ minted \in Nat /\ minted' \in Nat /\ 0..minted \subseteq 0..minted' /\ 1..minted \subseteq 1..minted'
          /\ live' \subseteq 1..minted' /\ live' \subseteq live \union unheard' /\ unheard \subseteq unheard'
          /\ \A t \in 0..minted : t \in live' => t \in live
      BY <1>0, <1>1, Minted
    <2>3. /\ polled' \in [current: 0..minted', refreshed: BOOLEAN, minted: SUBSET (1..minted'), closed: BOOLEAN]
          /\ polled'.minted = polled.minted /\ ~polled'.closed
      BY <1>0, <2>1, <2>2 DEF TokensTypeOK
    <2>4. TokensTypeOK'
      BY <1>0, <2>1, <2>2, <2>3 DEF TokensTypeOK, None
    <2>5. RefusedIsDead'
      BY <1>0, <2>1, <2>2 DEF TokensIInv, TokensTypeOK, RefusedIsDead, At, Unauthenticated
    <2>6. TokensAreAccounted'
      BY <2>2, <2>3 DEF TokensIInv, TokensAreAccounted
    <2>7. ClosedIsQuiet'
      BY <1>0, <2>1, <2>3 DEF TokensIInv, TokensTypeOK, ClosedIsQuiet, Closed, At
    <2> QED  BY <2>4, <2>5, <2>6, <2>7 DEF TokensIInv
  <1>2. CASE reply = "answered"
    <2>1. /\ polled' = [polled EXCEPT !.refreshed = @ \/ next = "again", !.current = minted + 1,
                                      !.minted = @ \union {minted + 1}]
          /\ call' = [call EXCEPT ![c] = [at |-> next, token |-> minted + 1]]
      BY <1>2 DEF PollSourceMint, Goes
    <2>2. /\ minted \in Nat /\ 0..minted \subseteq 0..minted' /\ 1..minted \subseteq 1..minted'
          /\ minted' = minted + 1 /\ live' = live \union {minted + 1} /\ unheard \subseteq unheard'
      BY <1>0, <1>2, Minted
    <2>3. TokensTypeOK'
      <3>1. polled' \in [current: 0..minted', refreshed: BOOLEAN, minted: SUBSET (1..minted'), closed: BOOLEAN]
        <4>1. /\ minted + 1 \in 0..minted' /\ polled.minted \union {minted + 1} \in SUBSET (1..minted')
              /\ SUBSET (1..minted) \subseteq SUBSET (1..minted')
              /\ polled \in [current: 0..minted, refreshed: BOOLEAN, minted: SUBSET (1..minted), closed: BOOLEAN]
          BY <1>0, <2>2 DEF TokensTypeOK
        <4>2. (polled.refreshed \/ next = "again") \in BOOLEAN
          OBVIOUS
        <4>3. /\ polled' = [polled EXCEPT !.refreshed = @ \/ next = "again", !.current = minted + 1,
                                        !.minted = @ \union {minted + 1}]
              /\ 0..minted \subseteq 0..minted'
          BY <2>1, <2>2
        <4> QED  BY <4>1, <4>2, <4>3, PolledRecord
      <3>2. call' \in [Callers -> [at: {"idle", "call", "refused", "again"}, token: 0..minted']]
        BY <1>0, <2>1, <2>2 DEF TokensTypeOK
      <3> QED  BY <1>0, <3>1, <3>2, <2>2 DEF TokensTypeOK
    <2>4. RefusedIsDead'
      BY <2>1, <2>2 DEF TokensIInv, TokensTypeOK, RefusedIsDead, At, Unauthenticated
    <2>5. TokensAreAccounted'
      <3>1. polled'.minted = polled.minted \union {minted + 1}
        BY <1>0, <2>1 DEF TokensTypeOK
      <3> QED  BY <2>2, <3>1 DEF TokensIInv, TokensAreAccounted
    <2>6. ClosedIsQuiet'
      <3>1. ~polled'.closed
        BY <1>0, <2>1 DEF TokensTypeOK
      <3> QED  BY <1>0, <2>1, <3>1 DEF TokensIInv, TokensTypeOK, ClosedIsQuiet, Closed, At
    <2> QED  BY <2>3, <2>4, <2>5, <2>6 DEF TokensIInv
  <1> QED  BY <1>1, <1>2

(* A call that mints nothing takes a token that is known. *)
LEMMA GoesKeeps ==
  ASSUME TokensIInv, NEW c \in Callers, NEW at \in {"idle", "call", "again", "refused"}, NEW t \in 0..minted,
         Goes(c, at, t), at = "refused" => Unauthenticated(t), at = "idle" \/ ~Closed(SourceOf[c]),
         UNCHANGED <<live, minted, cached, polled, unrevoked, unheard, orphaned>>
  PROVE  TokensIInv'
  BY DEF Goes, TokensIInv, TokensTypeOK, RefusedIsDead, ClosedIsQuiet, TokensAreAccounted, At, Closed, Unauthenticated

LEMMA TokenKeeps ==
  ASSUME TokensIInv, NEW c \in Callers, NEW reply \in Replies, Token(c, reply)
  PROVE  TokensIInv'
  <1>0. /\ cached.current \in 0..minted /\ polled.current \in 0..minted /\ live \subseteq 1..minted
        /\ ~Closed(SourceOf[c])
    BY DEF TokensIInv, TokensTypeOK, Token
  <1>1. CASE SourceOf[c] = "cached" /\ cached.current # None
    <2>1. Goes(c, "call", cached.current) /\ UNCHANGED <<live, minted, cached, polled, unrevoked, unheard, orphaned>>
      BY <1>1 DEF Token, CachedToken, Kept
    <2> QED  BY <2>1, <1>0, GoesKeeps
  <1>2. CASE SourceOf[c] = "cached" /\ cached.current = None
    <2>1. CachedMint(c, FALSE, reply, "call") /\ UNCHANGED <<polled, unrevoked, orphaned>>
      BY <1>2 DEF Token, CachedToken
    <2>2. cached.current \notin live
      BY <1>0, <1>2 DEF None, TokensIInv, TokensTypeOK
    <2> QED  BY <1>0, <1>2, <2>1, <2>2, CachedMintKeeps DEF Closed
  <1>3. CASE SourceOf[c] = "poll" /\ polled.current # None
    <2>1. Goes(c, "call", polled.current) /\ UNCHANGED <<live, minted, cached, polled, unrevoked, unheard, orphaned>>
      BY <1>3 DEF Token, PollSourceToken, Kept
    <2> QED  BY <2>1, <1>0, GoesKeeps
  <1>4. CASE SourceOf[c] = "poll" /\ polled.current = None
    <2>1. PollSourceMint(c, reply, "call") /\ UNCHANGED <<cached, unrevoked, orphaned>>
      BY <1>4 DEF Token, PollSourceToken
    <2> QED  BY <1>0, <1>4, <2>1, PollSourceMintKeeps DEF Closed
  <1> QED  BY <1>1, <1>2, <1>3, <1>4 DEF Token

LEMMA RefreshKeeps ==
  ASSUME TokensIInv, NEW c \in Callers, NEW reply \in Replies, Refresh(c, reply)
  PROVE  TokensIInv'
  <1> DEFINE stale == call[c].token
  <1>0. /\ cached.current \in 0..minted /\ polled.current \in 0..minted /\ live \subseteq 1..minted
        /\ minted \in Nat /\ stale \notin live /\ ~Closed(SourceOf[c])
    BY DEF TokensIInv, TokensTypeOK, Refresh, RefusedIsDead, ClosedIsQuiet, At, Unauthenticated
  <1>1. CASE SourceOf[c] = "cached" /\ cached.current # None /\ cached.current # stale
    <2>1. Goes(c, "again", cached.current) /\ UNCHANGED <<live, minted, cached, polled, unrevoked, unheard, orphaned>>
      BY <1>1 DEF Refresh, CachedRefresh, Kept
    <2> QED  BY <2>1, <1>0, GoesKeeps
  <1>2. CASE SourceOf[c] = "cached" /\ ~(cached.current # None /\ cached.current # stale)
    <2>1. CachedMint(c, TRUE, reply, "again") /\ UNCHANGED <<polled, unrevoked, orphaned>>
      BY <1>2 DEF Refresh, CachedRefresh
    <2>2. cached.current \notin live
      BY <1>0, <1>2 DEF None
    <2> QED  BY <1>0, <1>2, <2>1, <2>2, CachedMintKeeps DEF Closed
  <1>3. CASE SourceOf[c] = "poll" /\ polled.current # stale
    <2>1. Goes(c, "again", polled.current) /\ UNCHANGED <<live, minted, cached, polled, unrevoked, unheard, orphaned>>
      BY <1>3 DEF Refresh, PollSourceRefresh, Kept
    <2> QED  BY <2>1, <1>0, GoesKeeps
  <1>4. CASE SourceOf[c] = "poll" /\ polled.current = stale /\ polled.refreshed
    <2>1. Goes(c, "idle", None) /\ UNCHANGED <<live, minted, cached, polled, unrevoked, unheard, orphaned>>
      BY <1>4 DEF Refresh, PollSourceRefresh, Kept
    <2> QED  BY <2>1, <1>0, GoesKeeps DEF None
  <1>5. CASE SourceOf[c] = "poll" /\ polled.current = stale /\ ~polled.refreshed
    <2>1. PollSourceMint(c, reply, "again") /\ UNCHANGED <<cached, unrevoked, orphaned>>
      BY <1>5 DEF Refresh, PollSourceRefresh
    <2> QED  BY <1>0, <1>5, <2>1, PollSourceMintKeeps DEF Closed
  <1> QED  BY <1>1, <1>2, <1>3, <1>4, <1>5 DEF Refresh

(* A source that ends, closed or killed, holds nothing any more. *)
LEMMA EndsRecord ==
  ASSUME TokensTypeOK, ClosedIsQuiet, NEW src \in {"cached", "poll"}, Ends(src)
  PROVE  /\ cached' \in [current: 0..minted, resting: BOOLEAN, closed: BOOLEAN]
         /\ polled' \in [current: 0..minted, refreshed: BOOLEAN, minted: SUBSET (1..minted), closed: BOOLEAN]
         /\ {cached.current} \union polled.minted \subseteq own(src) \union {cached'.current} \union polled'.minted \union {None}
         /\ cached'.closed => cached'.current = None
         /\ polled'.closed => polled'.minted = {}
         /\ \A s \in {"cached", "poll"} : Closed(s)' => Closed(s) \/ s = src
  <1>0. /\ None \in 0..minted /\ {} \in SUBSET (1..minted)
        /\ cached \in [current: 0..minted, resting: BOOLEAN, closed: BOOLEAN]
        /\ polled \in [current: 0..minted, refreshed: BOOLEAN, minted: SUBSET (1..minted), closed: BOOLEAN]
    BY DEF TokensTypeOK, None
  <1>1. CASE src = "poll"
    <2>1. polled' = [polled EXCEPT !.closed = TRUE, !.current = None, !.minted = {}] /\ UNCHANGED cached
      BY <1>1 DEF Ends
    <2>2. own(src) = polled.minted
      BY <1>1 DEF own
    <2>3. polled' \in [current: 0..minted, refreshed: BOOLEAN, minted: SUBSET (1..minted), closed: BOOLEAN]
      BY <1>0, <2>1, PolledRecord
    <2>4. polled'.minted = {} /\ polled'.closed
      BY <1>0, <2>1
    <2> QED  BY <1>0, <1>1, <2>1, <2>2, <2>3, <2>4 DEF ClosedIsQuiet, Closed
  <1>2. CASE src = "cached"
    <2>1. cached' = [cached EXCEPT !.closed = TRUE, !.current = None] /\ UNCHANGED polled
      BY <1>2 DEF Ends
    <2>2. own(src) = {cached.current} \ {None}
      BY <1>2 DEF own
    <2>3. cached' \in [current: 0..minted, resting: BOOLEAN, closed: BOOLEAN]
      BY <1>0, <2>1, CachedRecord
    <2>4. cached'.current = None /\ cached'.closed
      BY <1>0, <2>1
    <2> QED  BY <1>0, <1>2, <2>1, <2>2, <2>3, <2>4 DEF ClosedIsQuiet, Closed
  <1> QED  BY <1>1, <1>2

(* Of what a source held when it was closed, only what could not be        *)
(* revoked is still accepted.                                              *)
LEMMA CloseKeeps ==
  ASSUME TokensIInv, NEW src \in {"cached", "poll"}, NEW failed \in SUBSET (1..MaxTokens), Close(src, failed)
  PROVE  TokensIInv'
  <1>1. /\ TokensTypeOK /\ ClosedIsQuiet /\ None \notin live /\ Ends(src) /\ UNCHANGED <<minted, call, unheard, orphaned>>
        /\ live' = live \ (own(src) \ failed) /\ unrevoked' = unrevoked \union failed
    BY DEF Close, TokensIInv, TokensTypeOK, None
  <1>2. /\ cached' \in [current: 0..minted, resting: BOOLEAN, closed: BOOLEAN]
        /\ polled' \in [current: 0..minted, refreshed: BOOLEAN, minted: SUBSET (1..minted), closed: BOOLEAN]
        /\ {cached.current} \union polled.minted \subseteq own(src) \union {cached'.current} \union polled'.minted \union {None}
        /\ cached'.closed => cached'.current = None
        /\ polled'.closed => polled'.minted = {}
        /\ \A s \in {"cached", "poll"} : Closed(s)' => Closed(s) \/ s = src
    BY <1>1, EndsRecord
  <1>3. TokensTypeOK' /\ RefusedIsDead'
    BY <1>1, <1>2 DEF TokensIInv, TokensTypeOK, RefusedIsDead, Unauthenticated, At
  <1>4. TokensAreAccounted'
    BY <1>1, <1>2 DEF TokensIInv, TokensAreAccounted
  <1>5. ClosedIsQuiet'
    <2>1. \A c \in Callers : SourceOf[c] = src => At(c, "idle")
      BY DEF Close
    <2>2. ASSUME NEW c \in Callers, Closed(SourceOf[c])' PROVE At(c, "idle")'
      BY <1>1, <1>2, <2>1, <2>2, TokensAssumption DEF ClosedIsQuiet, At
    <2> QED  BY <1>2, <2>2 DEF ClosedIsQuiet, Closed, At
  <1> QED  BY <1>3, <1>4, <1>5 DEF TokensIInv

(* What a killed process held is still accepted, and is known as that. *)
LEMMA KilledKeeps ==
  ASSUME TokensIInv, NEW src \in {"cached", "poll"}, Killed(src)
  PROVE  TokensIInv'
  <1>1. /\ TokensTypeOK /\ ClosedIsQuiet /\ None \notin live /\ Ends(src) /\ UNCHANGED <<live, minted, unrevoked, unheard>>
        /\ orphaned' = orphaned \union own(src)
        /\ call' = [c \in Callers |-> IF SourceOf[c] = src THEN [at |-> "idle", token |-> None] ELSE call[c]]
    BY DEF Killed, TokensIInv, TokensTypeOK, None
  <1>2. /\ cached' \in [current: 0..minted, resting: BOOLEAN, closed: BOOLEAN]
        /\ polled' \in [current: 0..minted, refreshed: BOOLEAN, minted: SUBSET (1..minted), closed: BOOLEAN]
        /\ {cached.current} \union polled.minted \subseteq own(src) \union {cached'.current} \union polled'.minted \union {None}
        /\ cached'.closed => cached'.current = None
        /\ polled'.closed => polled'.minted = {}
        /\ \A s \in {"cached", "poll"} : Closed(s)' => Closed(s) \/ s = src
    BY <1>1, EndsRecord
  <1>3. TokensTypeOK'
    <2>1. call' \in [Callers -> [at: {"idle", "call", "refused", "again"}, token: 0..minted]]
      BY <1>1 DEF TokensTypeOK, None
    <2> QED  BY <1>1, <1>2, <2>1 DEF TokensTypeOK
  <1>4. RefusedIsDead'
    BY <1>1 DEF TokensIInv, TokensTypeOK, RefusedIsDead, Unauthenticated, At
  <1>5. TokensAreAccounted'
    BY <1>1, <1>2 DEF TokensIInv, TokensAreAccounted
  <1>6. ClosedIsQuiet'
    <2>1. ASSUME NEW c \in Callers, Closed(SourceOf[c])' PROVE At(c, "idle")'
      <3>1. SourceOf[c] = src \/ Closed(SourceOf[c])
        BY <1>2, <2>1, TokensAssumption
      <3> QED  BY <1>1, <3>1 DEF ClosedIsQuiet, At
    <2> QED  BY <1>2, <2>1 DEF ClosedIsQuiet, Closed, At
  <1> QED  BY <1>3, <1>4, <1>5, <1>6 DEF TokensIInv

(* Whether a source held anything or not when it was closed, it holds      *)
(* nothing once it is.                                                     *)
LEMMA StartedKeeps ==
  ASSUME TokensIInv, NEW src \in {"cached", "poll"}, Started(src)
  PROVE  TokensIInv'
  <1>1. /\ TokensTypeOK /\ None \notin live /\ Closed(src)
        /\ UNCHANGED <<live, minted, call, unrevoked, unheard, orphaned>>
    BY DEF Started, TokensIInv, TokensTypeOK, None
  <1>2. CASE src = "poll"
    <2>1. polled' = NewPollSource /\ UNCHANGED cached /\ polled.minted = {}
      BY <1>1, <1>2 DEF Started, Closed, TokensIInv, ClosedIsQuiet
    <2>2. polled' \in [current: 0..minted, refreshed: BOOLEAN, minted: SUBSET (1..minted), closed: BOOLEAN]
      BY <1>1, <2>1 DEF NewPollSource, TokensTypeOK, None
    <2> QED  BY <1>1, <2>1, <2>2 DEF TokensIInv, TokensTypeOK, RefusedIsDead, ClosedIsQuiet, TokensAreAccounted,
               Unauthenticated, At, Closed, NewPollSource
  <1>3. CASE src = "cached"
    <2>1. cached' = NewCachedSource /\ UNCHANGED polled /\ cached.current = None
      BY <1>1, <1>3 DEF Started, Closed, TokensIInv, ClosedIsQuiet
    <2>2. cached' \in [current: 0..minted, resting: BOOLEAN, closed: BOOLEAN]
      BY <1>1, <2>1 DEF NewCachedSource, TokensTypeOK, None
    <2> QED  BY <1>1, <2>1, <2>2 DEF TokensIInv, TokensTypeOK, RefusedIsDead, ClosedIsQuiet, TokensAreAccounted,
               Unauthenticated, At, Closed, NewCachedSource
  <1> QED  BY <1>2, <1>3

LEMMA TokensIInvInit == TokensInit => TokensIInv
  BY DEF TokensInit, TokensIInv, TokensTypeOK, RefusedIsDead, ClosedIsQuiet, TokensAreAccounted, None, At,
     NewCachedSource, NewPollSource

LEMMA TokensIInvNext == TokensIInv /\ [TokensNext]_tokenVars => TokensIInv'
  <1> SUFFICES ASSUME TokensIInv, [TokensNext]_tokenVars PROVE TokensIInv'
    OBVIOUS
  <1>1. ASSUME NEW c \in Callers, NEW reply \in Replies, Token(c, reply) PROVE TokensIInv'
    BY <1>1, TokenKeeps
  <1>2. ASSUME NEW c \in Callers, NEW reply \in Replies, Refresh(c, reply) PROVE TokensIInv'
    BY <1>2, RefreshKeeps
  <1>3. ASSUME NEW c \in Callers, DoRefreshing(c) PROVE TokensIInv'
    <2>1. call[c].token \in 0..minted /\ 0 \in 0..minted /\ ~Closed(SourceOf[c])
      BY <1>3 DEF DoRefreshing, TokensIInv, TokensTypeOK, ClosedIsQuiet, At
    <2>2. CASE At(c, "call") /\ Unauthenticated(call[c].token)
      BY <1>3, <2>1, <2>2, GoesKeeps DEF DoRefreshing
    <2>3. CASE ~(At(c, "call") /\ Unauthenticated(call[c].token))
      BY <1>3, <2>1, <2>3, GoesKeeps DEF DoRefreshing, None
    <2> QED  BY <2>2, <2>3
  <1>4. CASE RestEnds
    BY <1>4 DEF RestEnds, TokensIInv, TokensTypeOK, RefusedIsDead, ClosedIsQuiet, TokensAreAccounted, At, Closed, Unauthenticated
  <1>5. ASSUME NEW t \in live, Expire(t) PROVE TokensIInv'
    BY <1>5 DEF Expire, TokensIInv, TokensTypeOK, RefusedIsDead, ClosedIsQuiet, TokensAreAccounted, At, Closed, Unauthenticated
  <1>6. ASSUME NEW src \in {"cached", "poll"}, NEW failed \in SUBSET (1..MaxTokens), Close(src, failed)
        PROVE TokensIInv'
    BY <1>6, CloseKeeps
  <1>7. ASSUME NEW src \in {"cached", "poll"}, Killed(src) \/ Started(src) PROVE TokensIInv'
    BY <1>7, KilledKeeps, StartedKeeps
  <1>8. CASE UNCHANGED tokenVars
    BY <1>8 DEF tokenVars, TokensIInv, TokensTypeOK, RefusedIsDead, ClosedIsQuiet, TokensAreAccounted, At, Closed, Unauthenticated
  <1> QED  BY <1>1, <1>2, <1>3, <1>4, <1>5, <1>6, <1>7, <1>8 DEF TokensNext

(* No source forgets a token, however many calls share it and are refused  *)
(* together, whichever mints fail or lose their reply, and whenever it is  *)
(* closed or its process killed: one Linear accepts is held, or its        *)
(* revocation failed, the mint's reply never arrived, or its process was   *)
(* killed while it was held (CachedSource, PollSource, RevokeAll).         *)
THEOREM NoTokenIsForgotten == TokensSpec => []TokensAreAccounted
  <1>1. TokensIInv => TokensAreAccounted
    BY DEF TokensIInv
  <1> QED  BY TokensIInvInit, TokensIInvNext, <1>1, PTL DEF TokensSpec

-----------------------------------------------------------------------------
(* Consents *)

LEMMA ConsentRecord ==
  ASSUME NEW H, NEW r \in [opted: BOOLEAN, private: BOOLEAN, harness: H], NEW yes \in BOOLEAN, NEW h \in H
  PROVE  /\ [r EXCEPT !.opted = FALSE, !.private = FALSE] \in [opted: BOOLEAN, private: BOOLEAN, harness: H]
         /\ ~[r EXCEPT !.opted = FALSE, !.private = FALSE].opted
         /\ ~[r EXCEPT !.opted = FALSE, !.private = FALSE].private
         /\ [r EXCEPT !.harness = h] \in [opted: BOOLEAN, private: BOOLEAN, harness: H]
         /\ [r EXCEPT !.harness = h].opted = r.opted /\ [r EXCEPT !.harness = h].private = r.private
         /\ [r EXCEPT !["opted"] = yes] \in [opted: BOOLEAN, private: BOOLEAN, harness: H]
         /\ [r EXCEPT !["opted"] = yes].private = r.private
         /\ [r EXCEPT !["private"] = yes] \in [opted: BOOLEAN, private: BOOLEAN, harness: H]
         /\ [r EXCEPT !["private"] = yes].opted = r.opted
  OBVIOUS

LEMMA GivenRecord ==
  ASSUME NEW B, NEW r \in [opted: B, private: B], NEW b \in B
  PROVE  /\ [r EXCEPT !["opted"] = b] \in [opted: B, private: B]
         /\ [r EXCEPT !["opted"] = b].opted = b /\ [r EXCEPT !["opted"] = b].private = r.private
         /\ [r EXCEPT !["private"] = b] \in [opted: B, private: B]
         /\ [r EXCEPT !["private"] = b].private = b /\ [r EXCEPT !["private"] = b].opted = r.opted
  OBVIOUS

(* The property, field by field. *)
LEMMA ConsentFields ==
  /\ ConsentIsForThisBilling <=> /\ consent.opted => given.opted = definition.billing
                                 /\ consent.private => given.private = definition.billing
  /\ ConsentIsForThisBilling' <=> /\ consent'.opted => given'.opted = definition'.billing
                                  /\ consent'.private => given'.private = definition'.billing
  BY DEF ConsentIsForThisBilling

LEMMA ConsentNext ==
  OwnerPlanTypeOK /\ ConsentIsForThisBilling /\ [FactsNext \/ OwnerPlanNext]_planFactsVars
    => OwnerPlanTypeOK' /\ ConsentIsForThisBilling'
  <1> SUFFICES ASSUME OwnerPlanTypeOK, ConsentIsForThisBilling, [FactsNext \/ OwnerPlanNext]_planFactsVars
               PROVE  OwnerPlanTypeOK' /\ ConsentIsForThisBilling'
    OBVIOUS
  <1> USE DEF OwnerPlanTypeOK
  <1>0. definition.billing \in Billings
    <2>1. CASE definition = Undefined
      BY <2>1 DEF Billings, Undefined
    <2>2. CASE definition \in Definitions
      BY <2>2 DEF Billings
    <2> QED  BY <2>1, <2>2
  <1>1. CASE FactsNext \/ UNCHANGED planFactsVars
    <2>1. UNCHANGED <<definition, consent, given, offered>>
      BY <1>1 DEF FactsNext, ReadPlan, PutFacts, NextDay, planFactsVars, ownerPlanVars
    <2> QED  BY <2>1 DEF ConsentIsForThisBilling
  <1>2. ASSUME NEW def \in Definitions, PutDefinition(def) PROVE OwnerPlanTypeOK' /\ ConsentIsForThisBilling'
    <2>0. UNCHANGED <<given, offered>> /\ definition' = def
      BY <1>2 DEF PutDefinition
    <2>1. CASE def.billing # definition.billing
      <3>1. consent' = [consent EXCEPT !.opted = FALSE, !.private = FALSE]
        BY <1>2, <2>1 DEF PutDefinition, Reconsent
      <3>2. /\ consent' \in [opted: BOOLEAN, private: BOOLEAN, harness: SUBSET Harnesses]
            /\ ~consent'.opted /\ ~consent'.private
        BY <3>1, ConsentRecord
      <3> QED  BY <2>0, <3>2, ConsentFields
    <2>2. CASE def.billing = definition.billing
      <3>1. UNCHANGED consent
        BY <1>2, <2>2 DEF PutDefinition, Reconsent
      <3> QED  BY <2>0, <2>2, <3>1, ConsentFields
    <2> QED  BY <2>1, <2>2
  <1>3. ASSUME NEW v, RecordVerdict(v) \/ AddReply(v) PROVE OwnerPlanTypeOK' /\ ConsentIsForThisBilling'
    <2>1. UNCHANGED <<definition, consent, given, offered>>
      BY <1>3 DEF RecordVerdict, AddReply
    <2> QED  BY <2>1 DEF ConsentIsForThisBilling
  <1>4. ASSUME NEW field \in {"opted", "private"}, NEW yes \in BOOLEAN, setConsent(field, yes)
        PROVE OwnerPlanTypeOK' /\ ConsentIsForThisBilling'
    <2>0. /\ UNCHANGED <<definition, offered>> /\ consent' = [consent EXCEPT ![field] = yes]
          /\ given' = [given EXCEPT ![field] = definition.billing]
      BY <1>4 DEF setConsent
    <2>1. CASE field = "opted"
      <3>1. /\ consent' \in [opted: BOOLEAN, private: BOOLEAN, harness: SUBSET Harnesses]
            /\ consent'.private = consent.private
        BY <2>0, <2>1, ConsentRecord
      <3>2. /\ given' \in [opted: Billings, private: Billings]
            /\ given'.opted = definition.billing /\ given'.private = given.private
        BY <2>0, <2>1, <1>0, GivenRecord
      <3> QED  BY <2>0, <3>1, <3>2, ConsentFields
    <2>2. CASE field = "private"
      <3>1. /\ consent' \in [opted: BOOLEAN, private: BOOLEAN, harness: SUBSET Harnesses]
            /\ consent'.opted = consent.opted
        BY <2>0, <2>2, ConsentRecord
      <3>2. /\ given' \in [opted: Billings, private: Billings]
            /\ given'.private = definition.billing /\ given'.opted = given.opted
        BY <2>0, <2>2, <1>0, GivenRecord
      <3> QED  BY <2>0, <3>1, <3>2, ConsentFields
    <2> QED  BY <2>1, <2>2
  <1>5. ASSUME NEW h \in Harnesses, OffersHarness(h) PROVE OwnerPlanTypeOK' /\ ConsentIsForThisBilling'
    <2>1. UNCHANGED <<definition, consent, given>> /\ offered' = h
      BY <1>5 DEF OffersHarness
    <2> QED  BY <2>1 DEF ConsentIsForThisBilling
  <1>6. ASSUME NEW hs \in SUBSET Harnesses, consent' = [consent EXCEPT !.harness = hs],
               UNCHANGED <<definition, given>>, offered' \in Harnesses \union {"none"}
        PROVE OwnerPlanTypeOK' /\ ConsentIsForThisBilling'
    <2>1. /\ consent' \in [opted: BOOLEAN, private: BOOLEAN, harness: SUBSET Harnesses]
          /\ consent'.opted = consent.opted /\ consent'.private = consent.private
      BY <1>6, ConsentRecord
    <2> QED  BY <1>6, <2>1, ConsentFields
  <1>7. ASSUME NEW h \in Harnesses, WithdrawHarness(h) PROVE OwnerPlanTypeOK' /\ ConsentIsForThisBilling'
    BY <1>6, <1>7 DEF WithdrawHarness
  <1>8. CASE SetHarnessOptIn
    BY <1>6, <1>8 DEF SetHarnessOptIn
  <1> QED  BY <1>1, <1>2, <1>3, <1>4, <1>5, <1>7, <1>8 DEF OwnerPlanNext

(* Consent given for one kind of billing never carries to another: a       *)
(* definition with another billing withdraws it in the same transaction,   *)
(* and no other command of the owner restores it (PutDefinition).          *)
THEOREM ConsentFollowsBilling == PlanFactsSpec => []ConsentIsForThisBilling
  <1>1. PlanFactsInit => OwnerPlanTypeOK /\ ConsentIsForThisBilling
    <2> SUFFICES ASSUME PlanFactsInit PROVE OwnerPlanTypeOK /\ ConsentIsForThisBilling
      OBVIOUS
    <2>1. /\ definition = Undefined /\ offered = "none" /\ consent = [opted |-> FALSE, private |-> FALSE, harness |-> {}]
          /\ given = [opted |-> "", private |-> ""]
      BY DEF PlanFactsInit
    <2>2. "" \in Billings /\ {} \in SUBSET Harnesses
      BY DEF Billings
    <2>3. OwnerPlanTypeOK
      BY <2>1, <2>2 DEF OwnerPlanTypeOK
    <2>4. ~consent.opted /\ ~consent.private
      BY <2>1
    <2> QED  BY <2>3, <2>4, ConsentFields
  <1> QED  BY <1>1, ConsentNext, PTL DEF PlanFactsSpec

-----------------------------------------------------------------------------
(* The webhook *)

(* A delivery that is being handled has its event and the two outcomes.    *)
LEMMA HandledRecord ==
  ASSUME NEW A, NEW E, NEW G, NEW K, NEW W,
         NEW h \in [at: A, ev: E, late: BOOLEAN, signed: G, ack: K, wake: W],
         NEW at \in A, NEW k \in K, NEW w \in W
  PROVE  /\ [h EXCEPT !.at = at] \in [at: A, ev: E, late: BOOLEAN, signed: G, ack: K, wake: W]
         /\ [h EXCEPT !.at = at].at = at /\ [h EXCEPT !.at = at].ev = h.ev /\ [h EXCEPT !.at = at].wake = h.wake
         /\ [h EXCEPT !.ack = k] \in [at: A, ev: E, late: BOOLEAN, signed: G, ack: K, wake: W]
         /\ [h EXCEPT !.ack = k].at = h.at /\ [h EXCEPT !.ack = k].ev = h.ev /\ [h EXCEPT !.ack = k].wake = h.wake
         /\ [h EXCEPT !.wake = w] \in [at: A, ev: E, late: BOOLEAN, signed: G, ack: K, wake: W]
         /\ [h EXCEPT !.wake = w].at = h.at /\ [h EXCEPT !.wake = w].ev = h.ev /\ [h EXCEPT !.wake = w].wake = w
  OBVIOUS

LEMMA AtWork ==
  ASSUME WebhookTypeOK, NEW d \in Slots, handling[d].at # "idle"
  PROVE  handling[d] \in Handled /\ handling[d].ev \in scene
  <1>1. handling[d] \in Handled
    BY DEF WebhookTypeOK, Idle
  <1> QED  BY <1>1 DEF Handled

(* Every step of the service puts one slot in its next place, and what was *)
(* known of the others stands.                                             *)
PlacedAfter(h) ==
  /\ h.at \in {"mark", "act", "unmark"} => h.ev.kind = "created"
  /\ h.at \in {"reply", "rank", "wake"} => h.ev.kind # "created"
  /\ h.at \in {"reload", "check", "mark"} => h.wake = "running"
  /\ h.at = "act" /\ h.wake = "done" => h.ev \in woke'
HeldBefore(d, h, s) ==
  /\ s \in markers
  /\ s = handling[d].ev.session /\ handling[d].at \in {"act", "unmark"}
       => h.at \in {"act", "unmark"} /\ h.ev = handling[d].ev
MarkersAfter(d, h) ==
  \A s \in markers' :
    \/ HeldBefore(d, h, s)
    \/ h.at \in {"act", "unmark"} /\ s = h.ev.session
    \/ s \in stranded'
    \/ \E e \in woke' : e.kind = "created" /\ e.session = s
AnsweredAfter ==
  \A e \in answered' : e \in answered \/ (e.kind = "created" => e \in woke' \/ e.session \in doubled' \union stranded')

LEMMA SlotStep ==
  ASSUME WebhookIInv, NEW d \in Slots, NEW h \in {Idle} \union Handled,
         handling' = [handling EXCEPT ![d] = h], scene' = scene,
         secret' \in [stored: {0, 1}, held: {0, 1}, resting: BOOLEAN],
         woke \subseteq woke', woke' \subseteq scene, doubled \subseteq doubled', stranded \subseteq stranded',
         PlacedAfter(h), MarkersAfter(d, h), AnsweredAfter
  PROVE  WebhookIInv'
  <1>1. WebhookTypeOK'
    <2>1. Handled' = Handled
      BY DEF Handled
    <2>2. handling' \in [Slots -> {Idle} \union Handled]
      BY DEF WebhookIInv, WebhookTypeOK
    <2> QED  BY <2>1, <2>2 DEF WebhookIInv, WebhookTypeOK, Idle
  <1>2. \A c \in Slots : handling'[c] = IF c = d THEN h ELSE handling[c]
    BY DEF WebhookIInv, WebhookTypeOK
  <1>3. (\A c \in Slots : InPlace(handling[c]))'
    BY <1>2 DEF WebhookIInv, InPlace, PlacedAfter
  <1>4. MarkersExplained'
    <2> SUFFICES ASSUME NEW s \in markers'
                 PROVE  \/ \E c \in Slots : handling'[c].at \in {"act", "unmark"} /\ handling'[c].ev.session = s
                        \/ s \in stranded'
                        \/ \E e \in woke' : e.kind = "created" /\ e.session = s
      BY DEF MarkersExplained, Holders
    <2>1. CASE HeldBefore(d, h, s)
      <3>1. CASE \E c \in Slots : handling[c].at \in {"act", "unmark"} /\ handling[c].ev.session = s
        BY <3>1, <2>1, <1>2 DEF HeldBefore
      <3>2. CASE s \in stranded \/ \E e \in woke : e.kind = "created" /\ e.session = s
        BY <3>2
      <3> QED  BY <2>1, <3>1, <3>2 DEF WebhookIInv, MarkersExplained, Holders, HeldBefore
    <2>2. CASE h.at \in {"act", "unmark"} /\ s = h.ev.session
      BY <2>2, <1>2
    <2> QED  BY <2>1, <2>2 DEF MarkersAfter
  <1>5. AnsweredSessionsWoke'
    BY DEF WebhookIInv, AnsweredSessionsWoke, AnsweredAfter
  <1> QED  BY <1>1, <1>3, <1>4, <1>5 DEF WebhookIInv

(* A delivery that is answered leaves its slot, one that goes on keeps it. *)
LEMMA AnswerStep ==
  ASSUME WebhookIInv, NEW d \in Slots, handling[d].at # "idle", NEW status, Answer(d, status), scene' = scene,
         UNCHANGED secret, woke \subseteq woke', woke' \subseteq scene, doubled \subseteq doubled',
         stranded \subseteq stranded', \A s \in markers' : s \in markers \/ s \in stranded',
         handling[d].at \in {"act", "unmark"} /\ handling[d].ev.session \in markers'
           => \/ handling[d].ev.session \in stranded'
              \/ \E e \in woke' : e.kind = "created" /\ e.session = handling[d].ev.session,
         status = 200 /\ handling[d].ev.kind = "created"
           => handling[d].ev \in woke' \/ handling[d].ev.session \in doubled' \union stranded'
  PROVE  WebhookIInv'
  <1>1. /\ handling' = [handling EXCEPT ![d] = Idle]
        /\ \A e \in answered' : e \in answered \/ (status = 200 /\ e = handling[d].ev)
    BY DEF Answer
  <1>2. Idle.at = "idle"
    BY DEF Idle
  <1>3. secret' \in [stored: {0, 1}, held: {0, 1}, resting: BOOLEAN]
    BY DEF WebhookIInv, WebhookTypeOK
  <1>4. MarkersAfter(d, Idle)
    BY DEF MarkersAfter, HeldBefore
  <1>5. AnsweredAfter
    BY <1>1 DEF AnsweredAfter
  <1>6. Idle \in {Idle} \union Handled /\ PlacedAfter(Idle)
    BY <1>2 DEF PlacedAfter
  <1> QED  BY <1>1, <1>3, <1>4, <1>5, <1>6, SlotStep

LEMMA OnwardStep ==
  ASSUME WebhookIInv, NEW d \in Slots, handling[d].at # "idle", NEW at \in {"mark", "act", "unmark", "reply", "rank", "wake"},
         Onward(d, at), scene' = scene, UNCHANGED <<secret, doubled, stranded, woke>>,
         at \in {"mark", "act", "unmark"} <=> handling[d].ev.kind = "created",
         at \in {"mark", "act"} => handling[d].wake = "running",
         handling[d].at \in {"act", "unmark"} => at \in {"act", "unmark"},
         markers' \subseteq markers \/ (at = "act" /\ markers' = markers \union {handling[d].ev.session})
  PROVE  WebhookIInv'
  <1> DEFINE h == [handling[d] EXCEPT !.at = at]
  <1>0. handling[d] \in Handled
    BY AtWork DEF WebhookIInv
  <1>1. /\ h \in Handled /\ h.at = at /\ h.ev = handling[d].ev /\ h.wake = handling[d].wake
    <2>1. at \in {"reload", "check", "mark", "act", "unmark", "reply", "rank", "wake"}
      OBVIOUS
    <2>2. "running" \in {"running", "done"} /\ "running" \in {"running", "done", "failed"}
      OBVIOUS
    <2> QED  BY <1>0, <2>1, <2>2, HandledRecord DEF Handled
  <1>2. handling' = [handling EXCEPT ![d] = h] /\ answered' = answered
    BY DEF Onward
  <1>3. secret' \in [stored: {0, 1}, held: {0, 1}, resting: BOOLEAN] /\ woke' \subseteq scene
    BY DEF WebhookIInv, WebhookTypeOK
  <1> HIDE DEF h
  <1>4. MarkersAfter(d, h)
    BY <1>1 DEF MarkersAfter, HeldBefore
  <1>5. PlacedAfter(h) /\ AnsweredAfter
    BY <1>1, <1>2 DEF PlacedAfter, AnsweredAfter
  <1> QED  BY <1>1, <1>2, <1>3, <1>4, <1>5, SlotStep

(* A delivery arrives, or the secret is read again for it. *)
LEMMA DeliverKeeps ==
  ASSUME WebhookIInv, NEW d \in Slots, NEW e \in scene, NEW late \in BOOLEAN, Deliver(d, e, late)
  PROVE  WebhookIInv'
  <1> DEFINE at == IF Reloads THEN "reload" ELSE "check"
  <1> DEFINE h == [at |-> at, ev |-> e, late |-> late, signed |-> secret.stored, ack |-> "running", wake |-> "running"]
  <1>1. secret \in [stored: {0, 1}, held: {0, 1}, resting: BOOLEAN] /\ woke \subseteq scene
    BY DEF WebhookIInv, WebhookTypeOK
  <1>2. h \in Handled /\ h.at \in {"reload", "check"} /\ h.wake = "running"
    BY <1>1 DEF Handled
  <1>3. secret' \in [stored: {0, 1}, held: {0, 1}, resting: BOOLEAN]
    BY <1>1 DEF Deliver, Reloads
  <1>4. /\ handling' = [handling EXCEPT ![d] = h] /\ handling[d].at = "idle"
        /\ UNCHANGED <<answered, scene, markers, woke, doubled, stranded>>
    BY DEF Deliver, recorded, world, Idle
  <1> HIDE DEF h
  <1>5. MarkersAfter(d, h) /\ PlacedAfter(h) /\ AnsweredAfter
    BY <1>2, <1>4 DEF MarkersAfter, HeldBefore, PlacedAfter, AnsweredAfter
  <1> QED  BY <1>1, <1>2, <1>3, <1>4, <1>5, SlotStep

LEMMA ReloadKeeps ==
  ASSUME WebhookIInv, NEW d \in Slots, NEW fails \in BOOLEAN, Reload(d, fails)
  PROVE  WebhookIInv'
  <1> DEFINE h == [handling[d] EXCEPT !.at = "check"]
  <1>1. secret \in [stored: {0, 1}, held: {0, 1}, resting: BOOLEAN] /\ woke \subseteq scene /\ handling[d] \in Handled
    BY AtWork DEF WebhookIInv, WebhookTypeOK, Reload
  <1>2. h \in Handled /\ h.at = "check" /\ h.wake = "running"
    BY <1>1 DEF Handled, WebhookIInv, InPlace, Reload
  <1>3. secret' \in [stored: {0, 1}, held: {0, 1}, resting: BOOLEAN]
    BY <1>1 DEF Reload
  <1>4. /\ handling' = [handling EXCEPT ![d] = h] /\ handling[d].at = "reload"
        /\ UNCHANGED <<answered, scene, markers, woke, doubled, stranded>>
    BY DEF Reload, recorded, world
  <1> HIDE DEF h
  <1>5. MarkersAfter(d, h) /\ PlacedAfter(h) /\ AnsweredAfter
    BY <1>2, <1>4 DEF MarkersAfter, HeldBefore, PlacedAfter, AnsweredAfter
  <1> QED  BY <1>1, <1>2, <1>3, <1>4, <1>5, SlotStep

(* Only a created session goes to be marked. *)
LEMMA Routed ==
  ASSUME NEW e
  PROVE  /\ Route(e) \in {"mark", "reply", "rank", "ok", "bad"}
         /\ Route(e) = "mark" <=> e.kind = "created"
  BY DEF Route

LEMMA ServeKeeps ==
  ASSUME WebhookIInv, NEW d \in Slots, ServeHTTP(d)
  PROVE  WebhookIInv'
  <1> DEFINE e == handling[d].ev
  <1>1. /\ handling[d].at = "check" /\ UNCHANGED <<scene, secret, markers, woke, doubled, stranded>>
        /\ woke \subseteq scene /\ handling[d].wake = "running"
    BY DEF ServeHTTP, recorded, world, WebhookIInv, WebhookTypeOK, InPlace
  <1>2. /\ Route(e) \in {"mark", "reply", "rank", "ok", "bad"}
        /\ Route(e) = "mark" <=> e.kind = "created"
    BY Routed
  <1>3. \/ Answer(d, 401) \/ Answer(d, 400)
        \/ Route(e) = "ok" /\ Answer(d, 200)
        \/ Route(e) \notin {"ok", "bad"} /\ Onward(d, Route(e))
    BY DEF ServeHTTP
  <1>4. CASE Answer(d, 401)
    BY <1>1, <1>4, AnswerStep
  <1>5. CASE Answer(d, 400)
    BY <1>1, <1>5, AnswerStep
  <1>6. CASE Route(e) = "ok" /\ Answer(d, 200)
    BY <1>1, <1>2, <1>6, AnswerStep
  <1>7. CASE Route(e) \notin {"ok", "bad"} /\ Onward(d, Route(e))
    <2>1. PICK at \in {"mark", "reply", "rank"} : at = Route(e)
      BY <1>2, <1>7
    <2> QED  BY <2>1, <1>1, <1>2, <1>7, OnwardStep
  <1> QED  BY <1>3, <1>4, <1>5, <1>6, <1>7

LEMMA MarkKeeps ==
  ASSUME WebhookIInv, NEW d \in Slots, NEW outcome \in Outcomes, Mark(d, outcome)
  PROVE  WebhookIInv'
  <1> DEFINE e == handling[d].ev
  <1>1. /\ handling[d].at = "mark" /\ UNCHANGED <<scene, secret, woke>> /\ stranded \subseteq stranded' /\ woke \subseteq scene
        /\ e.kind = "created" /\ e \in scene /\ scene \in Scenes
    <2>1. handling[d].at = "mark" /\ UNCHANGED <<scene, secret, woke>> /\ stranded \subseteq stranded'
      BY DEF Mark, world
    <2> QED  BY <2>1, AtWork DEF WebhookIInv, WebhookTypeOK, InPlace
  <1>2. CASE outcome # "taken"
    <2>1. Answer(d, 500) /\ UNCHANGED doubled
      BY <1>2 DEF Mark
    <2>2. UNCHANGED <<markers, stranded>> \/ (markers' = markers \union {e.session} /\ stranded' = stranded \union {e.session})
      <3>1. outcome \in {"refused", "lost"}
        BY <1>2 DEF Outcomes
      <3> QED  BY <3>1 DEF Mark
    <2>3. \A s \in markers' : s \in markers \/ s \in stranded'
      BY <2>2
    <2> QED  BY <1>1, <2>1, <2>3, AnswerStep
  <1>3. CASE outcome = "taken" /\ e.session \in markers
    <2>1. /\ Answer(d, 200) /\ UNCHANGED markers /\ doubled \subseteq doubled'
          /\ Holders(e.session) # {} => e.session \in doubled'
      BY <1>3 DEF Mark
    <2>2. e \in woke \/ e.session \in doubled' \union stranded'
      <3>1. CASE Holders(e.session) # {} \/ e.session \in stranded
        BY <3>1, <2>1, <1>1
      <3>2. ASSUME NEW f \in woke, f.kind = "created", f.session = e.session PROVE e \in woke
        BY <3>2, <1>1, WebhookAssumption
      <3> QED  BY <3>1, <3>2, <1>3 DEF WebhookIInv, MarkersExplained
    <2> QED  BY <1>1, <2>1, <2>2, AnswerStep
  <1>4. CASE outcome = "taken" /\ e.session \notin markers
    <2>1. Onward(d, "act") /\ markers' = markers \union {e.session} /\ UNCHANGED <<doubled, stranded>>
      BY <1>4 DEF Mark
    <2>2. handling[d].wake = "running"
      BY <1>1 DEF WebhookIInv, InPlace
    <2> QED  BY <1>1, <2>1, <2>2, OnwardStep
  <1> QED  BY <1>2, <1>3, <1>4

(* The acknowledgement and the wake of a session at work. *)
LEMMA AcknowledgeKeeps ==
  ASSUME WebhookIInv, NEW d \in Slots, NEW ok \in BOOLEAN, Acknowledge(d, ok)
  PROVE  WebhookIInv'
  <1> DEFINE h == [handling[d] EXCEPT !.ack = "done"]
  <1>1. /\ secret \in [stored: {0, 1}, held: {0, 1}, resting: BOOLEAN] /\ woke \subseteq scene
        /\ handling[d] \in Handled /\ InPlace(handling[d])
    BY AtWork DEF WebhookIInv, WebhookTypeOK, Acknowledge
  <1>2. h \in Handled /\ h.at = handling[d].at /\ h.ev = handling[d].ev /\ h.wake = handling[d].wake
    <2>1. "done" \in {"running", "done"} /\ "done" \in {"running", "done", "failed"}
          /\ "act" \in {"reload", "check", "mark", "act", "unmark", "reply", "rank", "wake"}
      OBVIOUS
    <2> QED  BY <1>1, <2>1, HandledRecord DEF Handled
  <1>3. /\ handling' = [handling EXCEPT ![d] = h] /\ handling[d].at = "act"
        /\ UNCHANGED <<answered, scene, secret, markers, woke, doubled, stranded>>
    BY DEF Acknowledge, world
  <1> HIDE DEF h
  <1>4. MarkersAfter(d, h) /\ PlacedAfter(h) /\ AnsweredAfter
    BY <1>1, <1>2, <1>3 DEF MarkersAfter, HeldBefore, PlacedAfter, AnsweredAfter, InPlace
  <1> QED  BY <1>1, <1>2, <1>3, <1>4, SlotStep

LEMMA WakeKeeps ==
  ASSUME WebhookIInv, NEW d \in Slots, NEW outcome \in Outcomes, Wake(d, outcome)
  PROVE  WebhookIInv'
  <1> DEFINE w == IF outcome = "taken" THEN "done" ELSE "failed"
  <1> DEFINE h == [handling[d] EXCEPT !.wake = w]
  <1>0. handling[d].at = "act"
    BY DEF Wake
  <1>1. /\ secret \in [stored: {0, 1}, held: {0, 1}, resting: BOOLEAN] /\ woke \subseteq scene
        /\ handling[d] \in Handled /\ handling[d].ev \in scene /\ handling[d].ev.kind = "created"
    BY <1>0, AtWork DEF WebhookIInv, WebhookTypeOK, InPlace
  <1>2. h \in Handled /\ h.at = handling[d].at /\ h.ev = handling[d].ev /\ h.wake = w
    <2>1. "done" \in {"running", "done"} /\ w \in {"running", "done", "failed"}
          /\ "act" \in {"reload", "check", "mark", "act", "unmark", "reply", "rank", "wake"}
      OBVIOUS
    <2> HIDE DEF w
    <2> QED  BY <1>1, <2>1, HandledRecord DEF Handled
  <1>3. /\ handling' = [handling EXCEPT ![d] = h]
        /\ UNCHANGED <<answered, scene, secret, markers, doubled, stranded>>
        /\ woke' = IF outcome = "refused" THEN woke ELSE woke \union {handling[d].ev}
    BY DEF Wake, Woken, world
  <1> HIDE DEF h
  <1>4. MarkersAfter(d, h) /\ AnsweredAfter
    BY <1>0, <1>1, <1>2, <1>3 DEF MarkersAfter, HeldBefore, AnsweredAfter
  <1>5. PlacedAfter(h)
    BY <1>0, <1>1, <1>2, <1>3 DEF PlacedAfter
  <1>6. woke \subseteq woke' /\ woke' \subseteq scene
    BY <1>1, <1>3
  <1> QED  BY <1>1, <1>2, <1>3, <1>4, <1>5, <1>6, SlotStep

LEMMA AckAndWakeKeeps ==
  ASSUME WebhookIInv, NEW d \in Slots, ackAndWake(d)
  PROVE  WebhookIInv'
  <1>1. /\ handling[d].at = "act" /\ UNCHANGED <<scene, secret, markers, woke, doubled, stranded>>
        /\ woke \subseteq scene /\ handling[d].ev.kind = "created"
        /\ handling[d].wake = "done" => handling[d].ev \in woke
    BY DEF ackAndWake, recorded, world, WebhookIInv, WebhookTypeOK, InPlace
  <1>2. CASE handling[d].wake = "done"
    <2>1. Answer(d, 200)
      BY <1>2 DEF ackAndWake
    <2> QED  BY <1>1, <1>2, <2>1, AnswerStep
  <1>3. CASE handling[d].wake # "done"
    <2>1. Onward(d, "unmark")
      BY <1>3 DEF ackAndWake
    <2> QED  BY <1>1, <2>1, OnwardStep
  <1> QED  BY <1>2, <1>3

LEMMA UnmarkKeeps ==
  ASSUME WebhookIInv, NEW d \in Slots, NEW fails \in BOOLEAN, unmark(d, fails)
  PROVE  WebhookIInv'
  <1>1. /\ handling[d].at = "unmark" /\ UNCHANGED <<scene, secret, woke, doubled>> /\ woke \subseteq scene
        /\ Answer(d, 500)
    BY DEF unmark, world, WebhookIInv, WebhookTypeOK
  <1>2. /\ markers' \subseteq markers /\ stranded \subseteq stranded'
        /\ handling[d].ev.session \in markers' => handling[d].ev.session \in stranded'
    BY DEF unmark, Unmarked
  <1> QED  BY <1>1, <1>2, AnswerStep

(* A reply and an edited priority are no session of the property. *)
LEMMA ReplyKeeps ==
  ASSUME WebhookIInv, NEW d \in Slots, NEW outcome \in Outcomes, Reply(d, outcome) \/ reprioritize(d, outcome)
  PROVE  WebhookIInv'
  <1>1. /\ handling[d].at \in {"reply", "rank"} /\ UNCHANGED <<scene, secret, markers, woke, doubled, stranded>>
        /\ woke \subseteq scene /\ handling[d].ev.kind # "created"
    <2>1. handling[d].at \in {"reply", "rank"} /\ UNCHANGED <<scene, secret, markers, woke, doubled, stranded>>
      BY DEF Reply, reprioritize, world
    <2> QED  BY <2>1 DEF WebhookIInv, WebhookTypeOK, InPlace
  <1>2. Answer(d, 500) \/ Answer(d, 200) \/ Onward(d, "wake")
    BY DEF Reply, reprioritize
  <1>3. ASSUME NEW status \in {200, 500}, Answer(d, status) PROVE WebhookIInv'
    BY <1>1, <1>3, AnswerStep
  <1>4. CASE Onward(d, "wake")
    BY <1>1, <1>4, OnwardStep
  <1> QED  BY <1>2, <1>3, <1>4

LEMMA WakeAfterKeeps ==
  ASSUME WebhookIInv, NEW d \in Slots, NEW outcome \in Outcomes, WakeAfter(d, outcome)
  PROVE  WebhookIInv'
  <1>1. /\ handling[d].at = "wake" /\ UNCHANGED <<scene, secret, markers, doubled, stranded>>
        /\ handling[d].ev.kind # "created" /\ handling[d].ev \in scene /\ woke \subseteq scene
    <2>1. handling[d].at = "wake" /\ UNCHANGED <<scene, secret, markers, doubled, stranded>>
      BY DEF WakeAfter, world
    <2> QED  BY <2>1, AtWork DEF WebhookIInv, WebhookTypeOK, InPlace
  <1>2. woke \subseteq woke' /\ woke' \subseteq scene
    BY <1>1 DEF WakeAfter, Woken
  <1>3. PICK status \in {200, 500} : Answer(d, status)
    BY DEF WakeAfter
  <1> QED  BY <1>1, <1>2, <1>3, AnswerStep

(* A revision that is replaced leaves the sessions it had marked stranded. *)
LEMMA RestartKeeps ==
  ASSUME WebhookIInv, Restart
  PROVE  WebhookIInv'
  <1>1. /\ UNCHANGED <<scene, answered, markers, woke, doubled>> /\ handling' = [d \in Slots |-> Idle]
        /\ stranded' = stranded \union {s \in markers : Holders(s) # {}}
        /\ secret' = [secret EXCEPT !.held = secret.stored, !.resting = FALSE]
    BY DEF Restart
  <1>2. secret' \in [stored: {0, 1}, held: {0, 1}, resting: BOOLEAN]
    <2>1. secret \in [stored: {0, 1}, held: {0, 1}, resting: BOOLEAN]
      BY DEF WebhookIInv, WebhookTypeOK
    <2> QED  BY <1>1, <2>1
  <1>3. WebhookTypeOK'
    <2>1. handling' \in [Slots -> {Idle} \union Handled'] /\ Idle' = Idle
      BY <1>1 DEF Idle
    <2> QED  BY <1>1, <1>2, <2>1 DEF WebhookIInv, WebhookTypeOK
  <1>4. (\A d \in Slots : InPlace(handling[d]))'
    BY <1>1 DEF InPlace, Idle
  <1>5. MarkersExplained'
    BY <1>1 DEF WebhookIInv, MarkersExplained
  <1>6. AnsweredSessionsWoke'
    BY <1>1 DEF WebhookIInv, AnsweredSessionsWoke
  <1> QED  BY <1>3, <1>4, <1>5, <1>6 DEF WebhookIInv

(* The other steps leave the deliveries alone. *)
LEMMA RestKeeps ==
  ASSUME WebhookIInv, UNCHANGED <<scene, handling, answered, markers, woke, doubled, stranded>>,
         secret' \in [stored: {0, 1}, held: {0, 1}, resting: BOOLEAN]
  PROVE  WebhookIInv'
  <1>1. WebhookTypeOK'
    BY DEF WebhookIInv, WebhookTypeOK, Handled, Idle
  <1>2. (\A d \in Slots : InPlace(handling[d]))'
    BY DEF WebhookIInv, InPlace
  <1>3. MarkersExplained'
    BY DEF WebhookIInv, MarkersExplained, Holders
  <1>4. AnsweredSessionsWoke'
    BY DEF WebhookIInv, AnsweredSessionsWoke
  <1> QED  BY <1>1, <1>2, <1>3, <1>4 DEF WebhookIInv

LEMMA WebhookIInvInit == WebhookInit => WebhookIInv
  <1> SUFFICES ASSUME WebhookInit PROVE WebhookIInv
    OBVIOUS
  <1>1. /\ scene \in Scenes /\ woke = {} /\ answered = {} /\ markers = {} /\ handling = [d \in Slots |-> Idle]
        /\ secret \in [stored: {0, 1}, held: {0, 1}, resting: BOOLEAN]
    <2>1. \E v \in {0, 1} : secret = [stored |-> v, held |-> v, resting |-> FALSE]
      BY DEF WebhookInit
    <2> QED  BY <2>1 DEF WebhookInit
  <1>2. WebhookTypeOK
    BY <1>1 DEF WebhookTypeOK
  <1>3. \A d \in Slots : InPlace(handling[d])
    BY <1>1 DEF InPlace, Idle
  <1> QED  BY <1>1, <1>2, <1>3 DEF WebhookIInv, MarkersExplained, AnsweredSessionsWoke

LEMMA WebhookIInvNext == WebhookIInv /\ [WebhookNext]_webhookVars => WebhookIInv'
  <1> SUFFICES ASSUME WebhookIInv, [WebhookNext]_webhookVars PROVE WebhookIInv'
    OBVIOUS
  <1>1. ASSUME NEW d \in Slots,
               \/ \E e \in scene, late \in BOOLEAN : Deliver(d, e, late)
               \/ \E fails \in BOOLEAN :
                    Reload(d, fails) \/ unmark(d, fails)
               \/ \E ok \in BOOLEAN : Acknowledge(d, ok)
               \/ \E outcome \in Outcomes : \/ Mark(d, outcome) \/ Reply(d, outcome) \/ reprioritize(d, outcome)
                                             \/ Wake(d, outcome) \/ WakeAfter(d, outcome)
               \/ ServeHTTP(d) \/ ackAndWake(d)
        PROVE  WebhookIInv'
    BY <1>1, DeliverKeeps, ReloadKeeps, MarkKeeps, UnmarkKeeps, ReplyKeeps, AcknowledgeKeeps, WakeKeeps,
       WakeAfterKeeps, ServeKeeps, AckAndWakeKeeps
  <1>2. secret \in [stored: {0, 1}, held: {0, 1}, resting: BOOLEAN]
    BY DEF WebhookIInv, WebhookTypeOK
  <1>3. CASE SecretRests \/ StoreSecret
    <2>1. UNCHANGED <<scene, handling, answered, markers, woke, doubled, stranded>>
      BY <1>3 DEF SecretRests, StoreSecret, recorded, world
    <2>2. secret' \in [stored: {0, 1}, held: {0, 1}, resting: BOOLEAN]
      BY <1>2, <1>3 DEF SecretRests, StoreSecret
    <2> QED  BY <2>1, <2>2, RestKeeps
  <1>4. CASE \/ EditPriority \/ PollList \/ (\E fails \in BOOLEAN : PollRefresh(fails)) \/ Claim \/ TakeReply
             \/ UNCHANGED webhookVars
    <2>1. UNCHANGED <<scene, secret, handling, answered, markers, woke, doubled, stranded>>
      BY <1>4 DEF EditPriority, PollList, PollRefresh, Claim, TakeReply, webhookVars, recorded, world
    <2> QED  BY <2>1, <1>2, RestKeeps
  <1> QED  BY <1>1, <1>3, <1>4, RestartKeeps DEF WebhookNext

(* A delegation answered 200 started the dispatcher, however often Linear  *)
(* delivers it and wherever its handler fails (ServeHTTP, markSession).    *)
THEOREM AnsweredDelegationsWoke == WebhookSpec => []AnsweredSessionsWoke
  <1>1. WebhookIInv => AnsweredSessionsWoke
    BY DEF WebhookIInv
  <1> QED  BY WebhookIInvInit, WebhookIInvNext, <1>1, PTL DEF WebhookSpec

-----------------------------------------------------------------------------
(* The facts of a plan *)

(* Today is the last day of which something was said. *)
LEMMA TodayIsLast ==
  ASSUME FactsTypeOK
  PROVE  /\ Today \in 1..Days /\ DOMAIN was = 1..Today
         /\ Dates \subseteq 1..Today
  <1>1. PICK n \in 1..Days : DOMAIN was = 1..n
    BY DEF FactsTypeOK
  <1>2. Cardinality(1..n) = n
    BY FS_Interval, PlanFactsAssumption
  <1>3. Today = n
    BY <1>1, <1>2 DEF Today
  <1> QED  BY <1>1, <1>3, PlanFactsAssumption DEF FactsTypeOK, Dates

(* The newest document is one of those written. *)
LEMMA NewestIsWritten ==
  ASSUME Dates # {}
  PROVE  Max(Dates) \in Dates
  <1> DEFINE Back == {Days - d : d \in Dates}
  <1>0. Dates \subseteq 1..Days /\ Days \in Nat
    BY PlanFactsAssumption DEF Dates
  <1>1. Back \subseteq Nat /\ Back # {}
    <2>1. ASSUME NEW d \in Dates PROVE Days - d \in Nat
      BY <1>0
    <2> QED  BY <2>1
  <1>2. PICK b \in Back : \A c \in Back : b <= c
    <2> HIDE DEF Back
    <2>1. PICK b \in Back : \A c \in Back : ~(<<c, b>> \in OpToRel(<, Nat))
      BY <1>1, NatLessThanWellFounded, WFMin, Zenon
    <2>2. \A c \in Back : ~(c < b)
      BY <1>1, <2>1 DEF OpToRel
    <2> QED  BY <1>1, <2>2
  <1>3. PICK d \in Dates : b = Days - d
    BY <1>2
  <1>4. ASSUME NEW e \in Dates PROVE d >= e
    <2>1. Days - d <= Days - e
      BY <1>2, <1>3
    <2>2. d \in Int /\ e \in Int /\ Days \in Int
      BY <1>0
    <2> QED  BY <2>1, <2>2
  <1> QED  BY <1>4 DEF Max

(* The document of a refresh dates a source it read today, and one it did  *)
(* not read as the document before did.                                    *)
LEMMA RefreshedFields ==
  ASSUME NEW last, NEW unread \in SUBSET Sources
  PROVE  LET f == RefreshPlan(last, unread) IN
         /\ f.readOn = Today /\ f.page = carriedPage(last, unread) /\ f.models = models(last, unread)
         /\ f.feed = feed(last, unread)
         /\ \A s \in Sources : f.source[s].on = IF s \in unread THEN last.source[s].on ELSE Today
  BY DEF RefreshPlan, classify

(* Written from a faithful document, or from none, today's is faithful. *)
LEMMA RefreshIsFaithful ==
  ASSUME FactsTypeOK, NEW unread \in SUBSET Sources, NEW last,
         last = Blank \/ \E d \in Dates : last = facts[d] /\ Dated(last, d) /\ Faithful(last, d)
  PROVE  /\ RefreshPlan(last, unread).readOn = Today
         /\ Dated(RefreshPlan(last, unread), Today) /\ Faithful(RefreshPlan(last, unread), Today)
  <1> DEFINE f == RefreshPlan(last, unread)
  <1> DEFINE on(s) == f.source[s].on
  <1>0. /\ Today \in 1..Days /\ Days \in Nat /\ Dates \subseteq 1..Today /\ DOMAIN was = 1..Today
    BY TodayIsLast, PlanFactsAssumption
  <1>1. /\ f.readOn = Today /\ f.page = carriedPage(last, unread) /\ f.models = models(last, unread)
        /\ f.feed = feed(last, unread)
        /\ \A s \in Sources : f.source[s].on = IF s \in unread THEN last.source[s].on ELSE Today
    BY RefreshedFields
  <1>2. Blank.source = [s \in Sources |-> Unread] /\ Unread.on = 0
    BY DEF Blank, Unread
  <1> HIDE DEF f
  <1>3. ASSUME NEW s \in Sources, s \in unread, on(s) # 0
        PROVE  \E d \in Dates : last = facts[d] /\ Dated(last, d) /\ Faithful(last, d)
    BY <1>1, <1>2, <1>3
  <1>4. Dated(f, Today)
    <2> SUFFICES ASSUME NEW s \in Sources PROVE f.source[s].on \in 0..Today
      BY DEF Dated
    <2>1. CASE s \notin unread
      BY <2>1, <1>0, <1>1
    <2>2. CASE s \in unread /\ last = Blank
      BY <2>2, <1>0, <1>1, <1>2
    <2>3. ASSUME s \in unread, NEW d \in Dates, last = facts[d], Dated(last, d) PROVE f.source[s].on \in 0..Today
      <3>1. last.source[s].on \in 0..d /\ d \in 1..Today
        BY <2>3, <1>0 DEF Dated
      <3> QED  BY <3>1, <2>3, <1>0, <1>1
    <2> QED  BY <2>1, <2>2, <2>3
  <1>5. Sources = {"page", "models", "board", "feed"}
    BY DEF Sources
  <1>6. on("page") # 0 => f.page = was[on("page")].page
    <2>1. CASE "page" \notin unread
      BY <2>1, <1>1, <1>5 DEF carriedPage, Page, World
    <2>2. CASE "page" \in unread /\ on("page") # 0
      BY <2>2, <1>1, <1>3, <1>5 DEF carriedPage, Faithful
    <2> QED  BY <2>1, <2>2
  <1>7. on("models") # 0 => DOMAIN f.models = was[on("models")].models
    <2>1. CASE "models" \notin unread
      BY <2>1, <1>1, <1>5 DEF models, VendorModels, World
    <2>2. CASE "models" \in unread /\ on("models") # 0
      BY <2>2, <1>1, <1>3, <1>5 DEF models, Faithful
    <2> QED  BY <2>1, <2>2
  <1>8. on("feed") # 0 => f.feed.models = was[on("feed")].feed.models
    <2>1. CASE "feed" \notin unread
      <3>1. ~World.feed.listed => World.feed.models = {}
        BY <1>0 DEF FactsTypeOK, World
      <3>2. feed(last, unread).models = World.feed.models
        BY <2>1, <3>1 DEF feed, FeedPlan, NoFeed
      <3> QED  BY <2>1, <3>2, <1>1, <1>5 DEF World
    <2>2. CASE "feed" \in unread /\ on("feed") # 0
      <3>1. feed(last, unread) = last.feed
        BY <2>2 DEF feed
      <3> QED  BY <2>2, <3>1, <1>1, <1>3, <1>5 DEF Faithful
    <2> QED  BY <2>1, <2>2
  <1>9. ASSUME on("board") # 0, NEW m \in DOMAIN f.models
        PROVE  \/ f.models[m].score = was[on("board")].board[m]
               \/ f.models[m].score = 0 /\ \E e \in Dates : e \in on("board")..Today /\ m \notin DOMAIN facts[e].models
    <2>0. f.models[m] = model(m, last, unread)
      BY <1>1, <1>9 DEF models
    <2>1. CASE "board" \notin unread
      BY <2>0, <2>1, <1>1, <1>5 DEF model, BoardScore, World
    <2>2. CASE "board" \in unread
      <3>1. PICK d \in Dates : last = facts[d] /\ Dated(last, d) /\ Faithful(last, d)
        BY <2>2, <1>3, <1>5, <1>9
      <3>2. on("board") = last.source["board"].on /\ on("board") \in 0..d /\ d \in 1..Today
        BY <2>2, <3>1, <1>0, <1>1, <1>5 DEF Dated
      <3>3. CASE m \notin DOMAIN last.models
        <4>1. f.models[m].score = 0
          BY <2>0, <2>2, <3>3 DEF model
        <4>2. d \in on("board")..Today
          BY <3>2, <1>0
        <4> QED  BY <4>1, <4>2, <3>1, <3>3
      <3>4. CASE m \in DOMAIN last.models
        <4>1. f.models[m].score = last.models[m].score
          BY <2>0, <2>2, <3>4 DEF model
        <4>2. \/ last.models[m].score = was[on("board")].board[m]
              \/ /\ last.models[m].score = 0
                 /\ \E e \in Dates : e \in on("board")..d /\ m \notin DOMAIN facts[e].models
          BY <3>1, <3>2, <3>4, <1>9 DEF Faithful
        <4>3. on("board")..d \subseteq on("board")..Today
          BY <3>2, <1>0
        <4> QED  BY <4>1, <4>2, <4>3
      <3> QED  BY <3>3, <3>4
    <2> QED  BY <2>1, <2>2
  <1>10. Faithful(f, Today)
    BY <1>6, <1>7, <1>8, <1>9 DEF Faithful
  <1> QED  BY <1>1, <1>4, <1>10 DEF f

(* A document stays faithful while what was said on its days stands and    *)
(* the documents beside it stay.                                           *)
LEMMA FaithfulStays ==
  ASSUME FactsTypeOK, NEW f, NEW d \in 1..Today, Dated(f, d), Faithful(f, d),
         \A e \in 1..Today : was'[e] = was[e],
         \A e \in Dates : e \in Dates' /\ facts'[e] = facts[e]
  PROVE  Faithful(f, d)'
  <1>0. Today \in 1..Days /\ Days \in Nat
    BY TodayIsLast, PlanFactsAssumption
  <1>1. ASSUME NEW s \in Sources, f.source[s].on # 0 PROVE was'[f.source[s].on] = was[f.source[s].on]
    <2>1. f.source[s].on \in 1..Today
      BY <1>0, <1>1 DEF Dated
    <2> QED  BY <2>1
  <1>2. "page" \in Sources /\ "models" \in Sources /\ "board" \in Sources /\ "feed" \in Sources
    BY DEF Sources
  <1>3. f.source["page"].on # 0 => f.page = was'[f.source["page"].on].page
    BY <1>1, <1>2 DEF Faithful
  <1>4. f.source["models"].on # 0 => DOMAIN f.models = was'[f.source["models"].on].models
    BY <1>1, <1>2 DEF Faithful
  <1>5. f.source["feed"].on # 0 => f.feed.models = was'[f.source["feed"].on].feed.models
    BY <1>1, <1>2 DEF Faithful
  <1>6. ASSUME f.source["board"].on # 0, NEW m \in DOMAIN f.models
        PROVE  \/ f.models[m].score = was'[f.source["board"].on].board[m]
               \/ /\ f.models[m].score = 0
                  /\ \E e \in Dates' : e \in f.source["board"].on..d /\ m \notin DOMAIN facts'[e].models
    <2>1. \/ f.models[m].score = was[f.source["board"].on].board[m]
          \/ /\ f.models[m].score = 0
             /\ \E e \in Dates : e \in f.source["board"].on..d /\ m \notin DOMAIN facts[e].models
      BY <1>6 DEF Faithful
    <2> QED  BY <2>1, <1>1, <1>2, <1>6
  <1> QED  BY <1>3, <1>4, <1>5, <1>6 DEF Faithful

(* The documents already written, after such a step. *)
LEMMA WrittenStay ==
  ASSUME FactsIInv,
         \A e \in 1..Today : was'[e] = was[e],
         \A e \in Dates : e \in Dates' /\ facts'[e] = facts[e]
  PROVE  \A d \in Dates : Dated(facts[d], d)' /\ Faithful(facts[d], d)'
  <1> SUFFICES ASSUME NEW d \in Dates PROVE Dated(facts[d], d)' /\ Faithful(facts[d], d)'
    OBVIOUS
  <1>0. d \in 1..Today
    BY TodayIsLast DEF FactsIInv
  <1>1. PICK f : f = facts[d]
    OBVIOUS
  <1>2. FactsTypeOK /\ Dated(f, d) /\ Faithful(f, d) /\ f = facts'[d]
    BY <1>1 DEF FactsIInv
  <1>3. Faithful(f, d)'
    BY <1>0, <1>2, FaithfulStays
  <1>4. Faithful(facts[d], d)'
    BY <1>2, <1>3 DEF Faithful
  <1>5. Dated(facts[d], d)'
    BY <1>2 DEF Dated
  <1> QED  BY <1>4, <1>5

LEMMA ReadPlanKeeps ==
  ASSUME FactsIInv, NEW unread \in SUBSET Sources, ReadPlan(unread)
  PROVE  FactsIInv'
  <1>1. UNCHANGED <<was, facts>> /\ reading' = RefreshPlan(LatestFacts, unread) /\ facts[Today] = NoFacts
    BY DEF ReadPlan
  <1>2. Today' = Today /\ Dates' = Dates
    BY <1>1 DEF Today, Dates
  <1>3. LatestFacts = Blank \/ \E d \in Dates : LatestFacts = facts[d] /\ Dated(LatestFacts, d) /\ Faithful(LatestFacts, d)
    BY NewestIsWritten DEF LatestFacts, FactsIInv
  <1>4. /\ RefreshPlan(LatestFacts, unread).readOn = Today
        /\ Dated(RefreshPlan(LatestFacts, unread), Today) /\ Faithful(RefreshPlan(LatestFacts, unread), Today)
    BY <1>3, RefreshIsFaithful DEF FactsIInv
  <1>5. PICK f : f = reading'
    OBVIOUS
  <1>6. f.readOn = Today /\ Dated(f, Today) /\ Faithful(f, Today) /\ FactsTypeOK
    BY <1>1, <1>4, <1>5 DEF FactsIInv
  <1>7. Dated(reading, Today)'
    BY <1>2, <1>5, <1>6 DEF Dated
  <1>8. Faithful(reading, Today)'
    BY <1>1, <1>2, <1>5, <1>6 DEF Faithful
  <1>9. FactsTypeOK'
    BY <1>1, <1>2, <1>6 DEF FactsTypeOK
  <1>10. (\A d \in Dates : Dated(facts[d], d) /\ Faithful(facts[d], d))'
    BY <1>1, <1>2, WrittenStay
  <1>11. reading'.readOn = Today' /\ facts'[Today'] = NoFacts
    BY <1>1, <1>2, <1>5, <1>6
  <1>12. NoFacts' = NoFacts
    BY DEF NoFacts
  <1> QED  BY <1>7, <1>8, <1>9, <1>10, <1>11, <1>12 DEF FactsIInv

LEMMA PutFactsKeeps ==
  ASSUME FactsIInv, NEW fails \in BOOLEAN, PutFacts(fails)
  PROVE  FactsIInv'
  <1>0. /\ reading' = NoFacts /\ UNCHANGED was /\ Today' = Today /\ reading.readOn = Today /\ facts[Today] = NoFacts
        /\ Dated(reading, Today) /\ Faithful(reading, Today) /\ FactsTypeOK /\ NoFacts' = NoFacts
    BY DEF PutFacts, Today, FactsIInv, NoFacts
  <1>1. Today \in 1..Days /\ Dates \subseteq 1..Today /\ Days \in Nat /\ DOMAIN was = 1..Today
    BY <1>0, TodayIsLast, PlanFactsAssumption
  <1>2. CASE fails
    <2>1. UNCHANGED facts /\ Dates' = Dates
      BY <1>2 DEF PutFacts, Dates, NoFacts
    <2>2. FactsTypeOK'
      BY <1>0, <2>1 DEF FactsTypeOK
    <2>3. (\A d \in Dates : Dated(facts[d], d) /\ Faithful(facts[d], d))'
      BY <1>0, <2>1, WrittenStay
    <2> QED  BY <1>0, <2>2, <2>3 DEF FactsIInv
  <1>3. CASE ~fails
    <2>1. facts' = [facts EXCEPT ![Today] = reading] /\ reading # NoFacts
      BY <1>0, <1>3 DEF PutFacts
    <2>2. facts = [d \in 1..Days |-> facts[d]]
      BY <1>0 DEF FactsTypeOK
    <2>3. \A d \in 1..Days : facts'[d] = IF d = Today THEN reading ELSE facts[d]
      BY <1>1, <2>1, <2>2
    <2>4. Dates' = Dates \union {Today} /\ Today \notin Dates
      BY <1>0, <1>1, <2>1, <2>3 DEF Dates
    <2>5. FactsTypeOK'
      <3>1. facts' = [d \in 1..Days |-> facts'[d]]
        BY <2>1, <2>2
      <3>2. (\A d \in Dates : d <= Today)'
        BY <1>0, <1>1, <2>4
      <3> QED  BY <1>0, <3>1, <3>2 DEF FactsTypeOK
    <2>6. \A e \in Dates : e \in Dates' /\ facts'[e] = facts[e]
      <3>1. ASSUME NEW e \in Dates PROVE e \in 1..Days /\ e # Today
        BY <2>4 DEF Dates
      <3> QED  BY <2>3, <2>4, <3>1
    <2>7. \A d \in Dates : Dated(facts[d], d)' /\ Faithful(facts[d], d)'
      BY <1>0, <2>6, WrittenStay
    <2>8. PICK f : f = reading
      OBVIOUS
    <2>9. Faithful(f, Today) /\ Dated(f, Today) /\ f = facts'[Today] /\ \A e \in 1..Today : was'[e] = was[e]
      BY <1>0, <1>1, <2>3, <2>8
    <2>10. PICK t \in 1..Today : t = Today
      BY <1>1
    <2>11. Faithful(f, t)'
      BY <1>0, <2>6, <2>9, <2>10, FaithfulStays
    <2>12. Faithful(facts[t], t)'
      BY <2>9, <2>10, <2>11 DEF Faithful
    <2>13. Dated(facts[t], t)'
      BY <2>9, <2>10 DEF Dated
    <2>14. (\A d \in Dates : Dated(facts[d], d) /\ Faithful(facts[d], d))'
      BY <2>4, <2>7, <2>10, <2>12, <2>13
    <2> QED  BY <1>0, <2>5, <2>14 DEF FactsIInv
  <1> QED  BY <1>2, <1>3

LEMMA NextDayKeeps ==
  ASSUME FactsIInv, NEW s \in Sources, NEW v \in Changes[s], NextDay(s, v)
  PROVE  FactsIInv'
  <1>0. /\ FactsTypeOK /\ UNCHANGED <<facts, reading>> /\ reading = NoFacts /\ Today < Days /\ NoFacts' = NoFacts
        /\ was' = [d \in 1..Today + 1 |-> IF d <= Today THEN was[d] ELSE [World EXCEPT ![s] = v]]
    BY DEF FactsIInv, NextDay, NoFacts
  <1>1. Today \in 1..Days /\ Dates \subseteq 1..Today /\ Days \in Nat /\ DOMAIN was = 1..Today
    BY <1>0, TodayIsLast, PlanFactsAssumption
  <1>2. DOMAIN was' = 1..Today + 1 /\ Today + 1 \in 1..Days
    BY <1>0, <1>1
  <1>3. Today' = Today + 1
    <2>1. Cardinality(1..(Today + 1)) = Today + 1
      BY <1>1, FS_Interval
    <2>2. Today' = Cardinality(DOMAIN was')
      BY DEF Today
    <2> QED  BY <1>2, <2>1, <2>2
  <1>4. Dates' = Dates
    BY <1>0 DEF Dates
  <1>5. \A e \in 1..Today : was'[e] = was[e]
    BY <1>0, <1>1
  <1>6. ASSUME NEW d \in DOMAIN was'
        PROVE  /\ was'[d] = [page |-> was'[d].page, models |-> was'[d].models, board |-> was'[d].board, feed |-> was'[d].feed]
               /\ ~was'[d].feed.listed => was'[d].feed.models = {}
    <2>1. CASE d \in 1..Today
      BY <2>1, <1>0, <1>1, <1>5 DEF FactsTypeOK
    <2>2. CASE d = Today + 1
      <3> DEFINE w == World
      <3>1. was'[d] = [w EXCEPT ![s] = v]
        BY <2>2, <1>0, <1>1
      <3>2. /\ w = [page |-> w.page, models |-> w.models, board |-> w.board, feed |-> w.feed]
            /\ ~w.feed.listed => w.feed.models = {}
        BY <1>0, <1>1 DEF World, FactsTypeOK
      <3>3. s = "feed" => (~v.listed => v.models = {})
        BY PlanFactsAssumption
      <3> HIDE DEF w
      <3>4. CASE s = "page"
        BY <3>1, <3>2, <3>4
      <3>5. CASE s = "models"
        BY <3>1, <3>2, <3>5
      <3>6. CASE s = "board"
        BY <3>1, <3>2, <3>6
      <3>7. CASE s = "feed"
        BY <3>1, <3>2, <3>3, <3>7
      <3> QED  BY <3>4, <3>5, <3>6, <3>7 DEF Sources
    <2> QED  BY <2>1, <2>2, <1>1, <1>2
  <1>7. FactsTypeOK'
    <2>1. (\A d \in Dates : d <= Today)'
      BY <1>1, <1>3, <1>4
    <2>2. facts' = [d \in 1..Days |-> facts'[d]]
      BY <1>0 DEF FactsTypeOK
    <2> QED  BY <1>2, <1>6, <2>1, <2>2 DEF FactsTypeOK
  <1>8. (\A d \in Dates : Dated(facts[d], d) /\ Faithful(facts[d], d))'
    BY <1>0, <1>4, <1>5, WrittenStay
  <1> QED  BY <1>0, <1>7, <1>8 DEF FactsIInv

LEMMA FactsIInvInit == PlanFactsInit => FactsIInv
  <1> SUFFICES ASSUME PlanFactsInit PROVE FactsIInv
    OBVIOUS
  <1>1. PICK w \in FirstWorlds : was = <<w>>
    BY DEF PlanFactsInit
  <1>2. reading = NoFacts /\ facts = [d \in 1..Days |-> NoFacts] /\ Days \in Nat \ {0}
    BY PlanFactsAssumption DEF PlanFactsInit
  <1>3. Dates = {}
    BY <1>2 DEF Dates
  <1>4. DOMAIN was = 1..1 /\ was[1] = w /\ 1 \in 1..Days
    BY <1>1, <1>2
  <1>5. FactsTypeOK
    <2>1. facts = [d \in 1..Days |-> facts[d]]
      BY <1>2
    <2>2. \A d \in DOMAIN was :
            /\ was[d] = [page |-> was[d].page, models |-> was[d].models, board |-> was[d].board, feed |-> was[d].feed]
            /\ ~was[d].feed.listed => was[d].feed.models = {}
      <3>1. \A d \in DOMAIN was : was[d] = w
        BY <1>4
      <3>2. /\ w = [page |-> w.page, models |-> w.models, board |-> w.board, feed |-> w.feed]
            /\ ~w.feed.listed => w.feed.models = {}
        BY PlanFactsAssumption
      <3> QED  BY <3>1, <3>2
    <2> QED  BY <1>3, <1>4, <2>1, <2>2 DEF FactsTypeOK
  <1> QED  BY <1>2, <1>3, <1>5 DEF FactsIInv

LEMMA FactsIInvNext == FactsIInv /\ [FactsNext \/ OwnerPlanNext]_planFactsVars => FactsIInv'
  <1> SUFFICES ASSUME FactsIInv, [FactsNext \/ OwnerPlanNext]_planFactsVars PROVE FactsIInv'
    OBVIOUS
  <1>1. CASE FactsNext
    BY <1>1, ReadPlanKeeps, PutFactsKeeps, NextDayKeeps DEF FactsNext, Failures
  <1>2. CASE OwnerPlanNext \/ UNCHANGED planFactsVars
    <2>1. UNCHANGED factsVars
      BY <1>2 DEF OwnerPlanNext, PutDefinition, RecordVerdict, AddReply, setConsent, OffersHarness, WithdrawHarness,
           SetHarnessOptIn, planFactsVars
    <2>2. UNCHANGED <<was, reading, facts>>
      BY <2>1 DEF factsVars
    <2>3. Today' = Today /\ Dates' = Dates /\ NoFacts' = NoFacts
      BY <2>2 DEF Today, Dates, NoFacts
    <2>4. FactsTypeOK'
      BY <2>2, <2>3 DEF FactsIInv, FactsTypeOK
    <2>5. (\A d \in Dates : Dated(facts[d], d) /\ Faithful(facts[d], d))'
      BY <2>2, <2>3, WrittenStay
    <2>6. reading # NoFacts => Dated(reading, Today)' /\ Faithful(reading, Today)'
      BY <2>2, <2>3 DEF FactsIInv, Dated, Faithful
    <2>7. reading # NoFacts => reading'.readOn = Today' /\ facts'[Today'] = NoFacts
      BY <2>2, <2>3 DEF FactsIInv
    <2> QED  BY <2>2, <2>3, <2>4, <2>5, <2>6, <2>7 DEF FactsIInv
  <1> QED  BY <1>1, <1>2

(* A source that goes quiet never moves a figure: on any number of days,   *)
(* whichever reads and writes fail (RefreshPlan, PutFacts).                *)
THEOREM FactsWereSaid == PlanFactsSpec => []FactsAreWhatWasSaid
  <1>1. FactsIInv => FactsAreWhatWasSaid
    BY DEF FactsIInv, FactsAreWhatWasSaid
  <1> QED  BY FactsIInvInit, FactsIInvNext, <1>1, PTL DEF PlanFactsSpec
=============================================================================
