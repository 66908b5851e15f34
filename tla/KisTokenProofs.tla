---------------------------- MODULE KisTokenProofs ----------------------------
(***************************************************************************)
(* TokenIsShared holds of KisToken for every number of processes, of feeds *)
(* among them, of kills, losses and revocations, and for all times with    *)
(* Fresh <= CacheTTL <= Validity.                                          *)
(***************************************************************************)
EXTENDS KisToken, TLAPS

Place == {"idle", "ensure", "lock", "wait", "post", "denied", "store", "call",
          "reread"}

Types ==
  /\ cache # None => cache \in [token : Age, since : Nat]
  /\ token \in [Proc -> Age \cup {None}]
  /\ fetched \in [Proc -> 0..Fresh]
  /\ pc \in [Proc -> Place]
  /\ revokes \in Nat

(* No token is older than what is recorded of it: the cached one than its  *)
(* key, a client's than its date.  A client that asks for a token has none *)
(* it would still use, so that the one it may find instead is not dated    *)
(* too young.                                                              *)
CacheDated ==
  cache # None => /\ cache.since < CacheTTL
                  /\ revokes = 0 => cache.token <= cache.since
ClientDated(p) ==
  /\ token[p] = None => fetched[p] = Fresh
  /\ (revokes = 0 /\ token[p] # None /\ fetched[p] < Fresh)
       => token[p] <= fetched[p]
  /\ pc[p] \in {"lock", "post", "denied", "reread"} => fetched[p] = Fresh
StoresNew ==
  \A p \in Proc : pc[p] = "store" =>
    token[p] # None /\ (revokes = 0 => token[p] = 0)
Dated ==
  /\ CacheDated
  /\ \A p \in Proc \ Feeds : ClientDated(p)
  /\ StoresNew

(* A token of this minute is on its way, in Redis, or lost.  The lock is   *)
(* not in it: it may lapse while its holder asks.                          *)
OnItsWay == \E p \in Proc : pc[p] = "store"
Accounted ==
  /\ (recent /\ cache = None) => (lost \/ OnItsWay)
  /\ \A p \in Proc : pc[p] = "denied" => (cache # None \/ lost \/ OnItsWay)
  /\ blocked => (lost \/ OnItsWay)

TokenInv == Types /\ Dated /\ Accounted

(* The invariant holds at the start.                                       *)
LEMMA InitInv == Init => TokenInv
BY TokenConstants DEF Init, TokenInv, Types, Dated, CacheDated, ClientDated,
   StoresNew, OnItsWay, Accounted, Place, Age

(* The invariant implies the property.                                     *)
LEMMA InvImplies == TokenInv => TokenIsShared
<1> SUFFICES ASSUME TokenInv PROVE TokenIsShared
  OBVIOUS
<1>1. BlockedByLossOnly
  BY DEF TokenInv, OnItsWay, Accounted, BlockedByLossOnly
<1>2. ASSUME revokes = 0, cache # None PROVE Good(cache.token)
  BY <1>2, TokenConstants DEF TokenInv, Types, Dated, CacheDated, Good, Age
<1>3. ASSUME revokes = 0, NEW p \in Proc \ Feeds, token[p] # None,
             fetched[p] < Fresh
      PROVE Good(token[p])
  <2>1. token[p] <= fetched[p]
    BY <1>3 DEF TokenInv, Dated, ClientDated
  <2>2. token[p] \in Age /\ fetched[p] \in Nat
    BY <1>3, TokenConstants DEF TokenInv, Types
  <2>3. QED BY <1>3, <2>1, <2>2, TokenConstants DEF Good, Age
<1>4. QED BY <1>1, <1>2, <1>3 DEF TokenIsShared, SharedIsAccepted

(* Every action preserves it.                                              *)
LEMMA StepInv == TokenInv /\ [Next]_vars => TokenInv'
<1> SUFFICES ASSUME TokenInv, [Next]_vars PROVE TokenInv'
  OBVIOUS
<1> USE TokenConstants DEF TokenInv, keys, memory, request, bounds, Age, Place
<1>1. ASSUME NEW p \in Proc, Request(p) PROVE TokenInv'
  BY <1>1 DEF Request, Goto, Types, Dated, CacheDated, ClientDated,
     StoresNew, OnItsWay, Accounted
<1>2. ASSUME NEW p \in Proc, EnsureToken(p) PROVE TokenInv'
  <2>1. Types'
    BY <1>2 DEF EnsureToken, Goto, End, TakeShared, InMemory, Smaller, Types
  <2>2. CacheDated'
    BY <1>2 DEF EnsureToken, Goto, End, TakeShared, InMemory, Smaller,
       Types, Dated, CacheDated
  <2>3. \A q \in Proc \ Feeds : ClientDated(q)'
    BY <1>2 DEF EnsureToken, Goto, End, TakeShared, InMemory, Smaller,
       Types, Dated, CacheDated, ClientDated
  <2>4. StoresNew'
    BY <1>2 DEF EnsureToken, Goto, End, TakeShared, InMemory, Smaller,
       Types, Dated, StoresNew
  <2>6. Accounted'
    BY <1>2 DEF EnsureToken, Goto, End, TakeShared, InMemory, Smaller,
       Types, OnItsWay, Accounted
  <2>7. QED BY <2>1, <2>2, <2>3, <2>4, <2>6 DEF Dated
<1>3. ASSUME NEW p \in Proc, TakeLock(p) PROVE TokenInv'
  BY <1>3 DEF TakeLock, Goto, Types, Dated, CacheDated, ClientDated,
     StoresNew, OnItsWay, Accounted
<1>4. ASSUME NEW p \in Proc, WaitForShared(p) PROVE TokenInv'
  <2>1. Types'
    BY <1>4 DEF WaitForShared, Goto, End, TakeShared, Smaller, Types
  <2>2. CacheDated'
    BY <1>4 DEF WaitForShared, Goto, End, TakeShared, Smaller, Types, Dated,
       CacheDated
  <2>3. \A q \in Proc \ Feeds : ClientDated(q)'
    BY <1>4 DEF WaitForShared, Goto, End, TakeShared, Smaller, Types, Dated,
       CacheDated, ClientDated
  <2>4. StoresNew'
    BY <1>4 DEF WaitForShared, Goto, End, TakeShared, Smaller, Types, Dated,
       StoresNew
  <2>6. Accounted'
    BY <1>4 DEF WaitForShared, Goto, End, TakeShared, Smaller, Types,
       OnItsWay, Accounted
  <2>7. QED BY <2>1, <2>2, <2>3, <2>4, <2>6 DEF Dated
<1>5. ASSUME NEW p \in Proc, PostToken(p) PROVE TokenInv'
  <2>1. Types'
    BY <1>5 DEF PostToken, Goto, End, Types
  <2>2. CacheDated'
    BY <1>5 DEF PostToken, Goto, End, Types, Dated, CacheDated
  <2>3. \A q \in Proc \ Feeds : ClientDated(q)'
    BY <1>5 DEF PostToken, Goto, End, Types, Dated, CacheDated, ClientDated
  <2>4. StoresNew'
    BY <1>5 DEF PostToken, Goto, End, Types, Dated, StoresNew
  <2>6. Accounted'
    BY <1>5 DEF PostToken, Goto, End, Types, OnItsWay, Accounted
  <2>7. QED BY <2>1, <2>2, <2>3, <2>4, <2>6 DEF Dated
<1>6. ASSUME NEW p \in Proc, Denied(p) PROVE TokenInv'
  <2>1. Types'
    BY <1>6 DEF Denied, Goto, End, Types
  <2>2. CacheDated'
    BY <1>6 DEF Denied, Goto, End, Types, Dated, CacheDated
  <2>3. \A q \in Proc \ Feeds : ClientDated(q)'
    BY <1>6 DEF Denied, Goto, End, Types, Dated, CacheDated, ClientDated
  <2>4. StoresNew'
    BY <1>6 DEF Denied, Goto, End, Types, Dated, StoresNew
  <2>6. Accounted'
    BY <1>6 DEF Denied, Goto, End, Types, OnItsWay, Accounted
  <2>7. QED BY <2>1, <2>2, <2>3, <2>4, <2>6 DEF Dated
<1>7. ASSUME NEW p \in Proc, StoreToken(p) PROVE TokenInv'
  <2>1. Types'
    BY <1>7 DEF StoreToken, Goto, Types, Dated, StoresNew
  <2>2. CacheDated'
    BY <1>7 DEF StoreToken, Goto, Types, Dated, CacheDated, StoresNew
  <2>3. \A q \in Proc \ Feeds : ClientDated(q)'
    BY <1>7 DEF StoreToken, Goto, Types, Dated, CacheDated, ClientDated,
       StoresNew
  <2>4. StoresNew'
    BY <1>7 DEF StoreToken, Goto, Types, Dated, StoresNew
  <2>6. Accounted'
    <3>1. token[p] \in Nat
      BY <1>7 DEF StoreToken, Types, Dated, StoresNew
    <3> DEFINE stored == [token |-> token[p], since |-> 0]
    <3>2. stored # None
      <4>1. stored \in [token : Nat, since : Nat]
        BY <3>1
      <4>2. QED BY <4>1
    <3>3. CASE lost'
      BY <1>7, <3>3 DEF StoreToken, Goto, Types, OnItsWay, Accounted
    <3>4. CASE cache' = stored /\ ~blocked'
      BY <1>7, <3>2, <3>4 DEF StoreToken, Goto, Types, OnItsWay, Accounted
    <3>5. QED BY <1>7, <3>3, <3>4 DEF StoreToken
  <2>7. QED BY <2>1, <2>2, <2>3, <2>4, <2>6 DEF Dated
<1>8. ASSUME NEW p \in Proc, Call(p) PROVE TokenInv'
  <2>1. Types'
    BY <1>8 DEF Call, Goto, End, Good, Types
  <2>2. CacheDated'
    BY <1>8 DEF Call, Goto, End, Good, Types, Dated, CacheDated
  <2>3. \A q \in Proc \ Feeds : ClientDated(q)'
    BY <1>8 DEF Call, Goto, End, Good, Types, Dated, CacheDated, ClientDated
  <2>4. StoresNew'
    BY <1>8 DEF Call, Goto, End, Good, Types, Dated, StoresNew
  <2>6. Accounted'
    BY <1>8 DEF Call, Goto, End, Good, Types, OnItsWay, Accounted
  <2>7. QED BY <2>1, <2>2, <2>3, <2>4, <2>6 DEF Dated
<1>9. ASSUME NEW p \in Proc, Reread(p) PROVE TokenInv'
  <2>1. Types'
    BY <1>9 DEF Reread, Goto, TakeShared, Smaller, Types
  <2>2. CacheDated'
    BY <1>9 DEF Reread, Goto, TakeShared, Smaller, Types, Dated, CacheDated
  <2>3. \A q \in Proc \ Feeds : ClientDated(q)'
    BY <1>9 DEF Reread, Goto, TakeShared, Smaller, Types, Dated, CacheDated,
       ClientDated
  <2>4. StoresNew'
    BY <1>9 DEF Reread, Goto, TakeShared, Smaller, Types, Dated, StoresNew
  <2>6. Accounted'
    BY <1>9 DEF Reread, Goto, TakeShared, Smaller, Types, OnItsWay, Accounted
  <2>7. QED BY <2>1, <2>2, <2>3, <2>4, <2>6 DEF Dated
<1>10. ASSUME NEW p \in Proc, Kill(p) PROVE TokenInv'
  <2>1. Types'
    BY <1>10 DEF Kill, Goto, End, Types
  <2>2. CacheDated'
    BY <1>10 DEF Kill, Goto, End, Types, Dated, CacheDated
  <2>3. \A q \in Proc \ Feeds : ClientDated(q)'
    BY <1>10 DEF Kill, Goto, End, Types, Dated, CacheDated, ClientDated
  <2>4. StoresNew'
    BY <1>10 DEF Kill, Goto, End, Types, Dated, StoresNew
  <2>6. Accounted'
    BY <1>10 DEF Kill, Goto, End, Types, OnItsWay, Accounted
  <2>7. QED BY <2>1, <2>2, <2>3, <2>4, <2>6 DEF Dated
<1>11. ASSUME LockLapses PROVE TokenInv'
  BY <1>11 DEF LockLapses, Types, Dated, CacheDated, ClientDated, StoresNew,
     OnItsWay, Accounted
<1>12. ASSUME RetryLapses PROVE TokenInv'
  BY <1>12 DEF RetryLapses, Types, Dated, CacheDated, ClientDated,
     StoresNew, OnItsWay, Accounted
<1>13. ASSUME MinuteOver PROVE TokenInv'
  BY <1>13 DEF MinuteOver, Types, Dated, CacheDated, ClientDated, StoresNew,
     OnItsWay, Accounted
<1>14. ASSUME BlockLapses PROVE TokenInv'
  BY <1>14 DEF BlockLapses, Types, Dated, CacheDated, ClientDated,
     StoresNew, OnItsWay, Accounted
<1>15. ASSUME Tick PROVE TokenInv'
  <2>1. Types'
    BY <1>15 DEF Tick, CacheAfterHour, Older, Smaller, Types
  <2>2. CacheDated'
    BY <1>15 DEF Tick, CacheAfterHour, Older, Smaller, Types, Dated, CacheDated
  <2>3. \A q \in Proc \ Feeds : ClientDated(q)'
    BY <1>15 DEF Tick, CacheAfterHour, Older, Smaller, Types, Dated,
       CacheDated, ClientDated
  <2>4. StoresNew'
    BY <1>15 DEF Tick, CacheAfterHour, Older, Smaller, Types, Dated, StoresNew
  <2>6. Accounted'
    BY <1>15 DEF Tick, CacheAfterHour, Older, Smaller, Types, OnItsWay, Accounted
  <2>7. QED BY <2>1, <2>2, <2>3, <2>4, <2>6 DEF Dated
<1>16. ASSUME Revoke PROVE TokenInv'
  <2>1. Types'
    BY <1>16 DEF Revoke, Refuse, Types
  <2>2. CacheDated'
    BY <1>16 DEF Revoke, Refuse, Types, Dated, CacheDated
  <2>3. \A q \in Proc \ Feeds : ClientDated(q)'
    BY <1>16 DEF Revoke, Refuse, Types, Dated, CacheDated, ClientDated
  <2>4. StoresNew'
    BY <1>16 DEF Revoke, Refuse, Types, Dated, StoresNew
  <2>6. Accounted'
    BY <1>16 DEF Revoke, Refuse, Types, OnItsWay, Accounted
  <2>7. QED BY <2>1, <2>2, <2>3, <2>4, <2>6 DEF Dated
<1>17. CASE UNCHANGED vars
  BY <1>17 DEF vars, Types, Dated, CacheDated, ClientDated, StoresNew,
     OnItsWay, Accounted
<1>18. QED BY <1>1, <1>2, <1>3, <1>4, <1>5, <1>6, <1>7, <1>8, <1>9, <1>10,
   <1>11, <1>12, <1>13, <1>14, <1>15, <1>16, <1>17 DEF Next, Step

(* The token the processes share, and the one a client takes from memory,  *)
(* is accepted as long as KIS revokes none; and the one-hour block stands  *)
(* only while one is on its way to Redis, or after one was lost.           *)
THEOREM TokenShared == Spec => []TokenIsShared
BY InitInv, StepInv, InvImplies, PTL DEF Spec
=============================================================================
