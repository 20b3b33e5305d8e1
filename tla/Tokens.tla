------------------------------- MODULE Tokens -------------------------------
(***************************************************************************)
(* The tokens Linear calls carry: the webhook's source holds one for as    *)
(* long as it serves and mints another when Linear refuses it, a poll's    *)
(* source mints one and at most one successor, and each revokes what it    *)
(* minted when it ends.  Calls made at once share their source.  A mint's  *)
(* reply may be lost, and a process may be killed before it revokes; in    *)
(* both cases a token stays good that nobody will revoke, and what is      *)
(* stated of the rest leaves out those two, by name.                       *)
(***************************************************************************)
EXTENDS Integers, FiniteSets

CONSTANTS Callers, SourceOf,  \* the calls, and the source each shares: "cached" or "poll"
          MaxTokens           \* tokens minted in all

ASSUME TokensAssumption == MaxTokens \in Nat /\ SourceOf \in [Callers -> {"cached", "poll"}]

VARIABLES live,      \* tokens Linear accepts
          minted,    \* tokens minted so far
          cached,    \* [current, resting, closed]
          polled,    \* [current, refreshed, minted, closed]
          call,      \* where each call is, and the token it carries
          unrevoked, \* tokens whose revocation failed
          unheard,   \* tokens Linear minted in a reply the source could not read
          orphaned   \* tokens a source held when its process was killed

tokenVars == <<live, minted, cached, polled, call, unrevoked, unheard, orphaned>>

None == 0
NewCachedSource == [current |-> None, resting |-> FALSE, closed |-> FALSE]
NewPollSource == [current |-> None, refreshed |-> FALSE, minted |-> {}, closed |-> FALSE]
TokensInit ==
  /\ live = {} /\ minted = 0 /\ unrevoked = {} /\ unheard = {} /\ orphaned = {}
  /\ cached = NewCachedSource
  /\ polled = NewPollSource
  /\ call = [c \in Callers |-> [at |-> "idle", token |-> None]]

Closed(src) == IF src = "cached" THEN cached.closed ELSE polled.closed
At(c, at) == call[c].at = at
Goes(c, at, t) == call' = [call EXCEPT ![c] = [at |-> at, token |-> t]]

(* Linear answers with a new token or mints none; or it mints one and the  *)
(* reply is lost on the way, cut by the client's own timeout, unreadable   *)
(* or undecodable, which the source takes for a failure.                   *)
Replies == {"answered", "refused", "lost"}
mint(reply) ==
  LET new == IF reply = "refused" THEN {} ELSE {minted + 1} IN
  /\ new # {} => minted < MaxTokens
  /\ minted' = IF new = {} THEN minted ELSE minted + 1
  /\ live' = live \union new
  /\ unheard' = IF reply = "lost" THEN unheard \union new ELSE unheard
Kept == UNCHANGED <<live, minted, unheard>>

(* The cached source mints nothing while it rests, which a refresh and a   *)
(* failed mint make it do.                                                 *)
CachedMint(c, refreshing, reply, next) ==
  LET fails == reply # "answered" IN
  IF cached.resting THEN Kept /\ UNCHANGED cached /\ Goes(c, "idle", None)
  ELSE /\ mint(reply)
       /\ cached' = [cached EXCEPT !.resting = refreshing \/ fails, !.current = IF fails THEN @ ELSE minted + 1]
       /\ IF fails THEN Goes(c, "idle", None) ELSE Goes(c, next, minted + 1)
PollSourceMint(c, reply, next) ==
  LET fails == reply # "answered" IN
  /\ mint(reply)
  /\ polled' = [polled EXCEPT !.refreshed = @ \/ next = "again",
                              !.current = IF fails THEN @ ELSE minted + 1,
                              !.minted = IF fails THEN @ ELSE @ \union {minted + 1}]
  /\ IF fails THEN Goes(c, "idle", None) ELSE Goes(c, next, minted + 1)

(* The first call of DoRefreshing carries the token the source holds.      *)
CachedToken(c, reply) ==
  IF cached.current # None THEN Kept /\ UNCHANGED cached /\ Goes(c, "call", cached.current)
  ELSE CachedMint(c, FALSE, reply, "call")
PollSourceToken(c, reply) ==
  IF polled.current # None THEN Kept /\ UNCHANGED polled /\ Goes(c, "call", polled.current)
  ELSE PollSourceMint(c, reply, "call")
Token(c, reply) ==
  /\ At(c, "idle") /\ ~Closed(SourceOf[c])
  /\ \/ SourceOf[c] = "cached" /\ CachedToken(c, reply) /\ UNCHANGED polled
     \/ SourceOf[c] = "poll" /\ PollSourceToken(c, reply) /\ UNCHANGED cached
  /\ UNCHANGED <<unrevoked, orphaned>>

(* Linear answers 401, or an authentication error beside the data, to a    *)
(* token it no longer accepts.                                             *)
Unauthenticated(t) == t \notin live
(* A call refused is made once more with a successor; it ends with any     *)
(* other answer, and with the second one.                                  *)
DoRefreshing(c) ==
  /\ call[c].at \in {"call", "again"}
  /\ IF At(c, "call") /\ Unauthenticated(call[c].token) THEN Goes(c, "refused", call[c].token) ELSE Goes(c, "idle", None)
  /\ UNCHANGED <<live, minted, cached, polled, unrevoked, unheard, orphaned>>

(* A successor another call has minted is taken before one is minted.      *)
CachedRefreshAlways(c, stale, reply) == CachedMint(c, TRUE, reply, "again")
CachedRefresh(c, stale, reply) ==
  IF cached.current # None /\ cached.current # stale
    THEN Kept /\ UNCHANGED cached /\ Goes(c, "again", cached.current)
    ELSE CachedMint(c, TRUE, reply, "again")
PollSourceRefresh(c, stale, reply) ==
  CASE polled.current # stale -> Kept /\ UNCHANGED polled /\ Goes(c, "again", polled.current)
    [] polled.current = stale /\ polled.refreshed -> Kept /\ UNCHANGED polled /\ Goes(c, "idle", None)
    [] OTHER -> PollSourceMint(c, reply, "again")
Refresh(c, reply) ==
  /\ At(c, "refused")
  /\ \/ SourceOf[c] = "cached" /\ CachedRefresh(c, call[c].token, reply) /\ UNCHANGED polled
     \/ SourceOf[c] = "poll" /\ PollSourceRefresh(c, call[c].token, reply) /\ UNCHANGED cached
  /\ UNCHANGED <<unrevoked, orphaned>>

RestEnds == /\ cached.resting /\ cached' = [cached EXCEPT !.resting = FALSE]
            /\ UNCHANGED <<live, minted, polled, call, unrevoked, unheard, orphaned>>

(* Linear stops accepting a token.                                         *)
Expire(t) == t \in live /\ live' = live \ {t} /\ UNCHANGED <<minted, cached, polled, call, unrevoked, unheard, orphaned>>

(* What a source would revoke, were it closed now.                         *)
own(src) == IF src = "poll" THEN polled.minted ELSE {cached.current} \ {None}
Ends(src) ==
  IF src = "poll"
    THEN polled' = [polled EXCEPT !.closed = TRUE, !.current = None, !.minted = {}] /\ UNCHANGED cached
    ELSE cached' = [cached EXCEPT !.closed = TRUE, !.current = None] /\ UNCHANGED polled
(* A source is closed once its calls have ended; a token whose revocation  *)
(* fails is only logged.                                                   *)
Close(src, failed) ==
  /\ ~Closed(src) /\ \A c \in Callers : SourceOf[c] = src => At(c, "idle")
  /\ failed \subseteq own(src)
  /\ live' = live \ (own(src) \ failed)
  /\ unrevoked' = unrevoked \union failed
  /\ Ends(src)
  /\ UNCHANGED <<minted, call, unheard, orphaned>>
(* A process killed at any moment never comes to its deferred RevokeAll:   *)
(* its calls end with it, and what its source held stays good.             *)
Killed(src) ==
  /\ ~Closed(src)
  /\ orphaned' = orphaned \union own(src)
  /\ Ends(src)
  /\ call' = [c \in Callers |-> IF SourceOf[c] = src THEN [at |-> "idle", token |-> None] ELSE call[c]]
  /\ UNCHANGED <<live, minted, unrevoked, unheard>>
(* The next process, a poll or a revision of the service, has a source of  *)
(* its own, which knows nothing of the tokens before it.                   *)
Started(src) ==
  /\ Closed(src)
  /\ IF src = "poll" THEN polled' = NewPollSource /\ UNCHANGED cached ELSE cached' = NewCachedSource /\ UNCHANGED polled
  /\ UNCHANGED <<live, minted, call, unrevoked, unheard, orphaned>>

TokensNext ==
  \/ \E c \in Callers, reply \in Replies : Token(c, reply) \/ Refresh(c, reply)
  \/ \E c \in Callers : DoRefreshing(c)
  \/ RestEnds
  \/ \E t \in live : Expire(t)
  \/ \E src \in {"cached", "poll"}, failed \in SUBSET (1..MaxTokens) : Close(src, failed)
  \/ \E src \in {"cached", "poll"} : Killed(src) \/ Started(src)

TokensSpec == TokensInit /\ [][TokensNext]_tokenVars

-----------------------------------------------------------------------------
(* Properties *)

(* No source forgets a token: one Linear still accepts is held by the      *)
(* source that minted it, unless its revocation failed, the reply that     *)
(* carried it never reached the source, or the process was killed while    *)
(* its source held it.  Calls refused together must not each mint a        *)
(* successor and forget the other's, nor may a failed mint, a close or a   *)
(* source's successor drop one that was held.                              *)
TokensAreAccounted ==
  live \subseteq {cached.current} \union polled.minted \union unrevoked \union unheard \union orphaned

(* What keeps it true: tokens are numbered as they are minted, a call      *)
(* waits for a successor only of a token Linear no longer accepts, and a   *)
(* source that has ended is at rest.                                       *)
TokensTypeOK ==
  /\ minted \in Nat /\ live \subseteq 1..minted
  /\ cached \in [current: 0..minted, resting: BOOLEAN, closed: BOOLEAN]
  /\ polled \in [current: 0..minted, refreshed: BOOLEAN, minted: SUBSET (1..minted), closed: BOOLEAN]
  /\ call \in [Callers -> [at: {"idle", "call", "refused", "again"}, token: 0..minted]]
RefusedIsDead == \A c \in Callers : At(c, "refused") => Unauthenticated(call[c].token)
(* A source that has ended holds nothing, and no call is made of it.       *)
ClosedIsQuiet ==
  /\ cached.closed => cached.current = None
  /\ polled.closed => polled.minted = {}
  /\ \A c \in Callers : Closed(SourceOf[c]) => At(c, "idle")

TokensIInv == TokensTypeOK /\ RefusedIsDead /\ ClosedIsQuiet /\ TokensAreAccounted
=============================================================================
