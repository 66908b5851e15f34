------------------------------- MODULE KisToken -------------------------------
(***************************************************************************)
(* The access token of KIS.  Every process that talks to KIS has a client  *)
(* of its own (KisClient in the runner, the watcher, the exit runner, ...; *)
(* KisFeed in market_data_runner) with a token in memory; they share one   *)
(* through Redis: kis:access_token, kis:token_refresh_lock while one of    *)
(* them asks for a new one, kis:token_refresh_retry_after after a failure, *)
(* kis:token_refresh_blocked after a 403.                                  *)
(*                                                                         *)
(* A token is its age in hours; KIS refuses one of the age Validity, and   *)
(* one it has revoked is given that age.  The times are constants because  *)
(* only their order matters: 22 h, 23 h and 24 h in the code.  What lasts  *)
(* less than an hour (the lock's 15 s, the retry's 30 s, KIS's one token a *)
(* minute) lapses in a step of its own.                                    *)
(***************************************************************************)
EXTENDS Integers, FiniteSets

CONSTANTS
  Proc,       \* the processes
  Feeds,      \* those with a KisFeed; the others have a KisClient
  Fresh,      \* age at which a client looks for a newer token
  CacheTTL,   \* _REDIS_TOKEN_TTL
  Validity,   \* how long KIS accepts a token
  Scenario,   \* the environments considered, one of which is drawn at Init
  None

Environment == [losses : Nat,    \* bound: requests for a token, and writes of
                                 \* one to Redis, that fail
                crashes : Nat,   \* bound: kills
                revokes : Nat,   \* bound: times KIS revokes every token
                slow : BOOLEAN]  \* a POST may outlast the lock

ASSUME TokenConstants ==
  /\ Feeds \subseteq Proc
  /\ {Fresh, CacheTTL, Validity} \subseteq Nat \ {0}
  /\ Fresh <= CacheTTL /\ CacheTTL <= Validity
  /\ None \notin Nat \cup Proc \cup [token : Nat, since : Nat]
  /\ Scenario \subseteq Environment

VARIABLES
  env,
  cache,      \* kis:access_token: the token, and the hours since it was set
  lock,       \* kis:token_refresh_lock, with the process that took it
  retry,      \* kis:token_refresh_retry_after
  blocked,    \* kis:token_refresh_blocked
  recent,     \* KIS has issued a token within the last minute
  pc,
  token,      \* access_token in memory
  fetched,    \* hours since _token_fetched_at, up to Fresh
  refreshed,  \* the request under way has met a 401 or 403 already
  asked,      \* the processes whose request has ended within this hour
  losses, crashes, revokes,   \* how often so far
  lost        \* history: a token was issued, and a kill, a lost answer or
              \* Redis kept it from the others

keys == <<cache, lock, retry, blocked>>
memory == <<token, fetched>>
bounds == <<losses, crashes, revokes>>
request == <<refreshed, asked>>
vars == <<env, keys, recent, pc, memory, request, bounds, lost>>

Smaller(a, b) == IF a <= b THEN a ELSE b
Age == 0..Validity
Good(t) == t # None /\ t < Validity

Init ==
  /\ env \in Scenario
  /\ cache = None /\ lock = None /\ retry = FALSE /\ blocked = FALSE
  /\ recent = FALSE
  /\ pc = [p \in Proc |-> "idle"]
  /\ token = [p \in Proc |-> None] /\ fetched = [p \in Proc |-> Fresh]
  /\ refreshed = [p \in Proc |-> FALSE] /\ asked = {}
  /\ losses = 0 /\ crashes = 0 /\ revokes = 0 /\ lost = FALSE

Goto(p, where) == pc' = [pc EXCEPT ![p] = where]

(* The request ends; it has succeeded or raises.                           *)
End(p) ==
  /\ Goto(p, "idle")
  /\ refreshed' = [refreshed EXCEPT ![p] = FALSE] /\ asked' = asked \cup {p}

(* access_token = the one in Redis; a client dates it by the key's TTL.    *)
TakeShared(p) ==
  /\ cache # None
  /\ token' = [token EXCEPT ![p] = cache.token]
  /\ fetched' = IF p \in Feeds THEN fetched
                ELSE [fetched EXCEPT ![p] = Smaller(cache.since, Fresh)]

-----------------------------------------------------------------------------
(* A request, and the token it needs.                                      *)

Request(p) ==
  /\ pc[p] = "idle"
  /\ Goto(p, "ensure")
  /\ UNCHANGED <<env, keys, recent, memory, request, bounds, lost>>

(* _ensure_token: a feed keeps its token until it is refused.              *)
InMemory(p) == token[p] # None /\ (p \in Feeds \/ fetched[p] < Fresh)

EnsureToken(p) ==
  /\ pc[p] = "ensure"
  /\ \/ /\ InMemory(p)
        /\ Goto(p, "call") /\ UNCHANGED <<memory, request>>
     \/ /\ ~InMemory(p) /\ TakeShared(p)
        /\ Goto(p, "call") /\ UNCHANGED request
     \/ /\ ~InMemory(p) /\ cache = None /\ (blocked \/ retry)
        /\ End(p) /\ UNCHANGED memory
     \/ /\ ~InMemory(p) /\ cache = None /\ ~blocked /\ ~retry
        /\ Goto(p, "lock") /\ UNCHANGED <<memory, request>>
  /\ UNCHANGED <<env, keys, recent, bounds, lost>>

(* _refresh_token begins with SET NX of the lock.                          *)
TakeLock(p) ==
  /\ pc[p] = "lock"
  /\ IF lock = None THEN lock' = p /\ Goto(p, "post")
     ELSE Goto(p, "wait") /\ UNCHANGED lock
  /\ UNCHANGED <<env, cache, retry, blocked, recent, memory, request,
                 bounds, lost>>

(* _wait_for_shared_token, up to 8 s: another process is asking.           *)
WaitForShared(p) ==
  /\ pc[p] = "wait"
  /\ \/ TakeShared(p) /\ Goto(p, "call") /\ UNCHANGED request
     \/ cache = None /\ End(p) /\ UNCHANGED memory
  /\ UNCHANGED <<env, keys, recent, bounds, lost>>

(* POST /oauth2/tokenP.  KIS issues one token a minute and answers 403 to  *)
(* another request; a request or its answer may get lost.  On the way out  *)
(* of a failure the lock stays; an answer without a token defers no retry. *)
PostToken(p) ==
  /\ pc[p] = "post"
  /\ \/ /\ ~recent /\ recent' = TRUE
        /\ token' = [token EXCEPT ![p] = 0]
        /\ fetched' = IF p \in Feeds THEN fetched
                      ELSE [fetched EXCEPT ![p] = 0]
        /\ Goto(p, "store") /\ UNCHANGED <<request, retry, losses, lost>>
     \/ /\ recent
        /\ Goto(p, "denied")
        /\ UNCHANGED <<recent, memory, request, retry, losses, lost>>
     \/ /\ losses < env.losses /\ losses' = losses + 1
        /\ retry' = TRUE \/ UNCHANGED retry
        /\ \/ UNCHANGED <<recent, lost>>
           \/ ~recent /\ recent' = TRUE /\ lost' = TRUE
        /\ End(p) /\ UNCHANGED memory
  /\ UNCHANGED <<env, cache, lock, blocked, crashes, revokes>>

(* Mutant: a 403 blocks at once.                                           *)
X_Denied(p) ==
  /\ pc[p] = "denied"
  /\ blocked' = TRUE /\ End(p)
  /\ UNCHANGED <<env, cache, lock, retry, recent, memory, bounds, lost>>

(* 403: another process may have got the token of this minute; without one *)
(* in Redis nobody asks for an hour.  The token taken is not dated.        *)
Denied(p) ==
  /\ pc[p] = "denied"
  /\ IF cache # None
     THEN /\ token' = [token EXCEPT ![p] = cache.token]
          /\ Goto(p, "call") /\ UNCHANGED <<request, blocked>>
     ELSE blocked' = TRUE /\ End(p) /\ UNCHANGED token
  /\ UNCHANGED <<env, cache, lock, retry, recent, fetched, bounds, lost>>

(* SET kis:access_token, DEL of the three other keys: of the lock too, if  *)
(* another process has taken it since this one's lapsed.  One that raises  *)
(* ends the sequence, is swallowed, and the process goes on by itself.     *)
StoreToken(p) ==
  /\ pc[p] = "store"
  /\ Goto(p, "call")
  /\ LET stored == [token |-> token[p], since |-> 0] IN
     \/ /\ cache' = stored
        /\ retry' = FALSE /\ blocked' = FALSE /\ lock' = None
        /\ UNCHANGED <<losses, lost>>
     \/ /\ losses < env.losses /\ losses' = losses + 1 /\ lost' = TRUE
        /\ cache' \in {cache, stored} /\ lock' \in {lock, None}
        /\ UNCHANGED <<retry, blocked>>
  /\ UNCHANGED <<env, recent, memory, request, crashes, revokes>>

(* The request itself: with a token that is refused it starts over, once.  *)
Call(p) ==
  /\ pc[p] = "call"
  /\ IF ~Good(token[p]) /\ ~refreshed[p]
     THEN /\ Goto(p, "reread")
          /\ refreshed' = [refreshed EXCEPT ![p] = TRUE] /\ UNCHANGED asked
          /\ token' = [token EXCEPT ![p] = None]
          /\ fetched' = [fetched EXCEPT ![p] = Fresh]
     ELSE End(p) /\ UNCHANGED memory
  /\ UNCHANGED <<env, keys, recent, bounds, lost>>

(* _wait_for_shared_token(1.0); then a client goes for a token without a   *)
(* look at retry or blocked, a feed through _ensure_token.                 *)
Reread(p) ==
  /\ pc[p] = "reread"
  /\ \/ TakeShared(p) /\ Goto(p, "call")
     \/ /\ cache = None
        /\ Goto(p, IF p \in Feeds THEN "ensure" ELSE "lock")
        /\ UNCHANGED memory
  /\ UNCHANGED <<env, keys, recent, request, bounds, lost>>

-----------------------------------------------------------------------------
(* Time, kills and KIS.                                                    *)

(* Supervisord starts the process again.                                   *)
Kill(p) ==
  /\ pc[p] # "idle" /\ crashes < env.crashes
  /\ crashes' = crashes + 1
  /\ token' = [token EXCEPT ![p] = None]
  /\ fetched' = [fetched EXCEPT ![p] = Fresh]
  /\ lost' = (lost \/ pc[p] = "store")
  /\ End(p)
  /\ UNCHANGED <<env, keys, recent, losses, revokes>>

(* After 15 s, which a slow POST outlasts: its timeout=10 is 10 s to       *)
(* connect and 10 s for each read.                                         *)
LockLapses ==
  /\ lock # None
  /\ env.slow \/ pc[lock] \notin {"post", "denied", "store"}
  /\ lock' = None
  /\ UNCHANGED <<env, cache, retry, blocked, recent, pc, memory, request,
                 bounds, lost>>

RetryLapses ==
  /\ retry /\ retry' = FALSE
  /\ UNCHANGED <<env, cache, lock, blocked, recent, pc, memory, request,
                 bounds, lost>>

MinuteOver ==
  /\ recent /\ recent' = FALSE
  /\ UNCHANGED <<env, keys, pc, memory, request, bounds, lost>>

(* The hour of the block is longer than KIS's minute.                      *)
BlockLapses ==
  /\ blocked /\ ~recent /\ blocked' = FALSE
  /\ UNCHANGED <<env, cache, lock, retry, recent, pc, memory, request,
                 bounds, lost>>

Older(t) == IF t = None THEN None ELSE Smaller(t + 1, Validity)

(* Mutant: the key has no TTL.                                             *)
X_CacheAfterHour ==
  IF cache = None THEN None
  ELSE [token |-> Older(cache.token),
        since |-> Smaller(cache.since + 1, CacheTTL)]

CacheAfterHour ==
  IF cache = None \/ cache.since + 1 >= CacheTTL THEN None
  ELSE [token |-> Older(cache.token), since |-> cache.since + 1]

(* An hour passes.  Requests follow each other within seconds, so that     *)
(* every process has ended one, and nobody stays between KIS's answer and  *)
(* Redis.                                                                  *)
Tick ==
  /\ asked = Proc /\ asked' = {}
  /\ \A p \in Proc : pc[p] \notin {"denied", "store"}
  /\ cache' = CacheAfterHour
  /\ token' = [p \in Proc |-> Older(token[p])]
  /\ fetched' = [p \in Proc |-> Smaller(fetched[p] + 1, Fresh)]
  /\ recent' = FALSE
  /\ UNCHANGED <<env, lock, retry, blocked, pc, refreshed, bounds, lost>>

Refuse(t) == IF t = None THEN None ELSE Validity

Revoke ==
  /\ revokes < env.revokes /\ revokes' = revokes + 1
  /\ cache' = IF cache = None THEN None ELSE [cache EXCEPT !.token = Validity]
  /\ token' = [p \in Proc |-> Refuse(token[p])]
  /\ UNCHANGED <<env, lock, retry, blocked, recent, pc, fetched, request,
                 losses, crashes, lost>>

Step(p) ==
  \/ Request(p) \/ EnsureToken(p) \/ TakeLock(p) \/ WaitForShared(p)
  \/ PostToken(p) \/ Denied(p) \/ StoreToken(p) \/ Call(p) \/ Reread(p)

Next ==
  \/ \E p \in Proc : Step(p) \/ Kill(p)
  \/ LockLapses \/ RetryLapses \/ MinuteOver \/ BlockLapses \/ Tick \/ Revoke

Spec == Init /\ [][Next]_vars

(* The processes poll, and time passes.                                    *)
FairSpec ==
  /\ Spec
  /\ \A p \in Proc : WF_vars(Step(p))
  /\ WF_vars(LockLapses) /\ WF_vars(RetryLapses) /\ WF_vars(MinuteOver)
  /\ WF_vars(BlockLapses) /\ WF_vars(Tick)

-----------------------------------------------------------------------------
(* Properties.                                                             *)

(* "22시간 경과 시 선제 갱신 (KIS 토큰 유효기간 24h, Redis TTL 23h)": a token *)
(* that is shared, or that a client takes without looking it up, is one    *)
(* KIS accepts, unless KIS itself has revoked it.                          *)
SharedIsAccepted ==
  revokes = 0 =>
    /\ cache # None => Good(cache.token)
    /\ \A p \in Proc \ Feeds :
         (token[p] # None /\ fetched[p] < Fresh) => Good(token[p])

(* The processes do not block each other for an hour: a 403 whose token    *)
(* another process has got is answered by that token, and the block that   *)
(* precedes its SET goes with it.  Only a token that was issued and lost,  *)
(* by a kill, with KIS's answer or by Redis, leaves them blocked; that the *)
(* lock lapses during a POST and two processes ask at once does not.       *)
BlockedByLossOnly == blocked => lost \/ \E p \in Proc : pc[p] = "store"

TokenIsShared == SharedIsAccepted /\ BlockedByLossOnly

(* Whatever fails, every process has an accepted token again and again.    *)
(* After a revocation that takes until the key's TTL ends: nobody deletes  *)
(* the refused token from Redis, and the retry after a 401 takes it again. *)
TokenReturns == \A p \in Proc : []<>Good(token[p])
=============================================================================
