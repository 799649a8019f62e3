------------------------ MODULE ConnectionPoolProofs ------------------------
(***************************************************************************)
(* Proofs about ConnectionPool, for any number of goroutines, hosts and    *)
(* pools: its types, that handshakes with a host are exclusive as long as  *)
(* the pool is not closed, that no connection is leaked, and that a pool,  *)
(* whichever is watched, implements ConnectionCache.                       *)
(***************************************************************************)
EXTENDS ConnectionPool, TLAPS

\* In the part of Get that is protected by the lock of the host.
Inside(t) == pc[t] \in {"check", "dial", "store"} \/ (pc[t] = "setHost" /\ lock[t] # None)

\* At most one goroutine closes a pool, the executor's, and the locks of a pool
\* are first deleted when it is closed, each once.
ClosingInv ==
  /\ \A t \in Threads : pc[t] = "closing" => at[t] = cur /\ cur \in closed /\ cur < NPools
  /\ \A t, u \in Threads : pc[t] = "closing" /\ pc[u] = "closing" => t = u
  /\ cur \in closed => \E t \in Threads : pc[t] = "closing"
  /\ \A p \in closed : p <= cur
  /\ \A p \in Pools \ closed, n \in Names : gen[p][n] = 1
  /\ \A t \in Threads, n \in Names : pc[t] = "closing" /\ n \in left => gen[cur][n] = 1

\* A goroutine in the protected part holds its lock, nobody else holds that
\* lock, and in a pool that is not closed a host has only the one lock.
LockInv ==
  /\ \A t \in Threads : pc[t] \in {"wait", "check", "dial", "store"} => lock[t] # None
  /\ \A t \in Threads :
       pc[t] \notin {"wait", "check", "dial", "store", "setHost"} => lock[t] = None
  /\ \A t \in Threads : Inside(t) => HostLock(t) \in held
  /\ \A t, u \in Threads : Inside(t) /\ Inside(u) /\ HostLock(t) = HostLock(u) => t = u
  /\ \A t \in Threads : lock[t] # None /\ at[t] \notin closed => lock[t] = 1

\* While a goroutine makes a connection, a pool that is not closed has none.
UncachedInv ==
  \A t \in Threads : pc[t] \in {"dial", "store"} /\ at[t] \notin closed => Cached(t) = None

\* What a goroutine is about to store, tell its host or use is a connection.
HandInv ==
  \A t \in Threads :
    pc[t] \in {"store", "setHost", "using", "reset", "redial"} => conn[t] # None

-----------------------------------------------------------------------------
(* Types                                                                   *)

LEMMA TypeInit == Init => TypeOK /\ ClosingInv
  BY BoundsAssumption DEF Init, TypeOK, ClosingInv, Pools, Conns, None, Pcs

\* What a goroutine that closes nothing does leaves ClosingInv alone.
LEMMA ClosingFrame ==
  ASSUME TypeOK, ClosingInv, NEW t \in Threads, NEW l \in Pcs \ {"closing"},
         pc[t] # "closing", Goto(t, l),
         \A u \in Threads : u # t => at'[u] = at[u],
         UNCHANGED <<cur, gen, closed, left>>
  PROVE  ClosingInv'
<1>1. \A u \in Threads : pc'[u] = "closing" <=> pc[u] = "closing"
  BY DEF TypeOK, Goto
<1>2. \A u \in Threads : pc[u] = "closing" => at'[u] = at[u]
  OBVIOUS
<1> QED BY <1>1, <1>2 DEF ClosingInv

LEMMA TypeStep ==
  ASSUME TypeOK, ClosingInv, LockInv, HandInv, [Next]_vars
  PROVE  TypeOK' /\ ClosingInv'
<1>1. CASE UNCHANGED vars
  BY <1>1 DEF vars, pool, work, net, TypeOK, ClosingInv
<1>2. ASSUME NEW t \in Threads, NEW n \in Names, Ask(t, n) PROVE TypeOK' /\ ClosingInv'
  <2>1. TypeOK'
    BY <1>2, BoundsAssumption DEF Ask, Goto, pool, net, TypeOK, Pools, Conns, None, Pcs
  <2> QED BY <1>2, <2>1, ClosingFrame DEF Ask, Goto, pool, Pcs, TypeOK
<1>3. ASSUME NEW t \in Threads, Hit(t) PROVE TypeOK' /\ ClosingInv'
  <2>1. TypeOK'
    BY <1>3, BoundsAssumption DEF Hit, Cached, Goto, pool, net, TypeOK, Pools, Conns, None, Pcs
  <2> QED BY <1>3, <2>1, ClosingFrame DEF Hit, Goto, pool, Pcs, TypeOK
<1>4. ASSUME NEW t \in Threads, Miss(t) PROVE TypeOK' /\ ClosingInv'
  <2>1. TypeOK'
    BY <1>4, BoundsAssumption DEF Miss, Cached, Goto, pool, net, TypeOK, Pools, Conns, None, Pcs
  <2> QED BY <1>4, <2>1, ClosingFrame DEF Miss, Goto, pool, Pcs, TypeOK
<1>5. ASSUME NEW t \in Threads, GetHostLock(t) PROVE TypeOK' /\ ClosingInv'
  <2>1. TypeOK'
    BY <1>5, BoundsAssumption DEF GetHostLock, Goto, pool, net, TypeOK, Pools, Conns, None, Pcs
  <2> QED BY <1>5, <2>1, ClosingFrame DEF GetHostLock, Goto, pool, Pcs, TypeOK
<1>6. ASSUME NEW t \in Threads, Acquire(t) PROVE TypeOK' /\ ClosingInv'
  <2>1. HostLock(t) \in Pools \X Names \X {1, 2}
    BY <1>6 DEF Acquire, LockInv, HostLock, TypeOK, None
  <2>2. TypeOK'
    BY <1>6, <2>1 DEF Acquire, Goto, pool, net, TypeOK, Pools, Conns, None, Pcs
  <2> QED BY <1>6, <2>2, ClosingFrame DEF Acquire, Goto, pool, Pcs, TypeOK
<1>7. ASSUME NEW t \in Threads, StartDial(t) PROVE TypeOK' /\ ClosingInv'
  <2>1. TypeOK'
    BY <1>7, BoundsAssumption DEF StartDial, MissInside, Cached, Goto, pool, net, TypeOK, Pools, Conns, None, Pcs
  <2> QED BY <1>7, <2>1, ClosingFrame DEF StartDial, Goto, pool, Pcs, TypeOK
<1>8. ASSUME NEW t \in Threads, DialFail(t) PROVE TypeOK' /\ ClosingInv'
  <2>1. TypeOK'
    BY <1>8, BoundsAssumption DEF DialFail, Unlock, HostLock, Goto, pool, net, TypeOK, Pools, Conns, None, Pcs
  <2> QED BY <1>8, <2>1, ClosingFrame DEF DialFail, Goto, pool, Pcs, TypeOK
<1>9. ASSUME NEW t \in Threads, DialOk(t) PROVE TypeOK' /\ ClosingInv'
  <2>1. TypeOK'
    BY <1>9, BoundsAssumption DEF DialOk, Goto, pool, net, TypeOK, Pools, Conns, None, Pcs
  <2> QED BY <1>9, <2>1, ClosingFrame DEF DialOk, Goto, pool, Pcs, TypeOK
<1>10. ASSUME NEW t \in Threads, Store(t) PROVE TypeOK' /\ ClosingInv'
  <2>1. TypeOK'
    BY <1>10, BoundsAssumption DEF Store, Unlock, HostLock, Goto, pool, net, TypeOK, Pools, Conns, None, Pcs
  <2> QED BY <1>10, <2>1, ClosingFrame DEF Store, Goto, pool, Pcs, TypeOK
<1>11. ASSUME NEW t \in Threads, SetHost(t) PROVE TypeOK' /\ ClosingInv'
  <2>1. TypeOK'
    BY <1>11, BoundsAssumption DEF SetHost, Unlock, HostLock, Goto, pool, net, TypeOK, Pools, Conns, None, Pcs
  <2> QED BY <1>11, <2>1, ClosingFrame DEF SetHost, Goto, pool, Pcs, TypeOK
<1>12. ASSUME NEW t \in Threads, Done(t) PROVE TypeOK' /\ ClosingInv'
  <2>1. TypeOK'
    BY <1>12, BoundsAssumption DEF Done, Goto, pool, net, TypeOK, Pools, Conns, None, Pcs
  <2> QED BY <1>12, <2>1, ClosingFrame DEF Done, Goto, pool, Pcs, TypeOK
<1>13. ASSUME NEW t \in Threads, Reset(t) PROVE TypeOK' /\ ClosingInv'
  <2>1. TypeOK'
    BY <1>13, BoundsAssumption DEF Reset, Goto, pool, net, TypeOK, Pools, Conns, None, Pcs
  <2> QED BY <1>13, <2>1, ClosingFrame DEF Reset, Goto, pool, Pcs, TypeOK
<1>14. ASSUME NEW t \in Threads, Reconnect(t) PROVE TypeOK' /\ ClosingInv'
  <2>1. TypeOK'
    BY <1>14, BoundsAssumption DEF Reconnect, Goto, pool, net, TypeOK, Pools, Conns, None, Pcs
  <2> QED BY <1>14, <2>1, ClosingFrame DEF Reconnect, Goto, pool, Pcs, TypeOK
<1>15. ASSUME NEW t \in Threads, RedialOk(t) PROVE TypeOK' /\ ClosingInv'
  <2>1. conn[t] \in Conns
    BY <1>15 DEF RedialOk, HandInv, TypeOK, None
  <2>2. TypeOK'
    BY <1>15, <2>1 DEF RedialOk, Goto, pool, net, TypeOK, Pools, Conns, None, Pcs
  <2> QED BY <1>15, <2>2, ClosingFrame DEF RedialOk, Goto, pool, Pcs, TypeOK
<1>16. ASSUME NEW t \in Threads, RedialFail(t) PROVE TypeOK' /\ ClosingInv'
  <2>1. TypeOK'
    BY <1>16, BoundsAssumption DEF RedialFail, Goto, pool, net, TypeOK, Pools, Conns, None, Pcs
  <2> QED BY <1>16, <2>1, ClosingFrame DEF RedialFail, Goto, pool, Pcs, TypeOK
<1>17. ASSUME NEW t \in Threads, NEW n \in Names, StartRemove(t, n) PROVE TypeOK' /\ ClosingInv'
  <2>1. TypeOK'
    BY <1>17, BoundsAssumption DEF StartRemove, Goto, pool, net, TypeOK, Pools, Conns, None, Pcs
  <2> QED BY <1>17, <2>1, ClosingFrame DEF StartRemove, Goto, pool, Pcs, TypeOK
<1>18. ASSUME NEW t \in Threads, RemoveLock(t) PROVE TypeOK' /\ ClosingInv'
  <2>1. TypeOK'
    BY <1>18, BoundsAssumption DEF RemoveLock, Cached, Goto, pool, net, TypeOK, Pools, Conns, None, Pcs
  <2> QED BY <1>18, <2>1, ClosingFrame DEF RemoveLock, Goto, pool, Pcs, TypeOK
<1>19. ASSUME NEW t \in Threads, Remove(t) PROVE TypeOK' /\ ClosingInv'
  <2>1. clients[at[t]][name[t]] \in Conns
    BY <1>19 DEF Remove, Drop, TypeOK, None
  <2>2. clients' \in [Pools -> [Names -> Conns \union {None}]]
    BY <1>19 DEF Remove, Drop, TypeOK
  <2>3. open' \subseteq Conns /\ orphans' \subseteq Conns
    BY <1>19, <2>1 DEF Remove, Drop, TypeOK
  <2>4. pc' \in [Threads -> Pcs]
    BY <1>19 DEF Remove, Goto, TypeOK, Pcs
  <2>5. TypeOK'
    BY <1>19, <2>2, <2>3, <2>4 DEF Remove, TypeOK
  <2> QED BY <1>19, <2>5, ClosingFrame DEF Remove, Goto, Pcs, TypeOK
<1>20. ASSUME NEW t \in Threads, StartRefresh(t) PROVE TypeOK' /\ ClosingInv'
  <2>1. cur \notin closed
    BY <1>20 DEF StartRefresh, ClosingInv
  <2>2. orphans' \subseteq Conns
    <3>1. \A u \in Threads : pc[u] = "store" => conn[u] \in Conns
      BY DEF HandInv, TypeOK, None
    <3> QED BY <1>20, <3>1 DEF StartRefresh, TypeOK
  <2>3. TypeOK'
    BY <1>20, <2>2 DEF StartRefresh, Goto, TypeOK, Pools, Conns, None, Pcs
  <2>4. \A u \in Threads : pc'[u] = "closing" <=> u = t
    BY <1>20 DEF StartRefresh, Goto, TypeOK
  <2>5. at'[t] = cur /\ cur' = cur /\ closed' = closed \union {cur} /\ left' = Names
        /\ gen' = gen /\ cur < NPools
    BY <1>20 DEF StartRefresh, TypeOK
  <2>6. ClosingInv'
    BY <2>1, <2>4, <2>5, BoundsAssumption DEF ClosingInv, TypeOK, Pools
  <2> QED BY <2>3, <2>6
<1>21. ASSUME NEW t \in Threads, NEW n \in Names, CloseClient(t, n) PROVE TypeOK' /\ ClosingInv'
  <2>1. clients[at[t]][n] \in Conns
    BY <1>21 DEF CloseClient, Drop, TypeOK, None
  <2>2. clients' \in [Pools -> [Names -> Conns \union {None}]]
    BY <1>21 DEF CloseClient, Drop, TypeOK
  <2>3. open' \subseteq Conns /\ orphans' \subseteq Conns
    BY <1>21, <2>1 DEF CloseClient, Drop, TypeOK
  <2>4. TypeOK'
    BY <1>21, <2>2, <2>3 DEF CloseClient, work, TypeOK
  <2> QED BY <1>21, <2>4 DEF CloseClient, work, ClosingInv
<1>22. ASSUME NEW t \in Threads, NEW n \in Names, CloseLock(t, n) PROVE TypeOK' /\ ClosingInv'
  <2>1. at[t] = cur /\ cur \in closed /\ gen[cur][n] = 1
    BY <1>22 DEF CloseLock, ClosingInv
  <2>2. gen' = [gen EXCEPT ![cur][n] = 2]
    BY <1>22, <2>1 DEF CloseLock, TypeOK
  <2>3. TypeOK'
    BY <1>22, <2>2 DEF CloseLock, work, net, TypeOK
  <2>4. \A p \in Pools, m \in Names : p # cur \/ m # n => gen'[p][m] = gen[p][m]
    BY <2>2 DEF TypeOK
  <2> QED BY <1>22, <2>1, <2>3, <2>4 DEF CloseLock, work, ClosingInv, TypeOK
<1>23. ASSUME NEW t \in Threads, Refresh(t) PROVE TypeOK' /\ ClosingInv'
  <2>1. at[t] = cur /\ cur \in closed /\ cur < NPools
    BY <1>23 DEF Refresh, ClosingInv
  <2>2. TypeOK'
    BY <1>23, <2>1, BoundsAssumption DEF Refresh, Goto, net, TypeOK, Pools, Conns, None, Pcs
  <2>3. \A u \in Threads : pc'[u] # "closing"
    BY <1>23 DEF Refresh, Goto, TypeOK, ClosingInv
  <2>4. cur' = cur + 1 /\ UNCHANGED <<gen, closed, left>> /\ cur \in Nat
    BY <1>23 DEF Refresh, TypeOK, Pools
  <2>5. \A p \in closed : p <= cur /\ p \in Nat
    BY DEF ClosingInv, TypeOK, Pools
  <2>6. cur' \notin closed'
    BY <2>4, <2>5
  <2>7. ClosingInv'
    BY <2>3, <2>4, <2>5, <2>6 DEF ClosingInv
  <2> QED BY <2>2, <2>7
<1> QED
  BY <1>1, <1>2, <1>3, <1>4, <1>5, <1>6, <1>7, <1>8, <1>9, <1>10, <1>11, <1>12, <1>13, <1>14, <1>15, <1>16, <1>17, <1>18, <1>19, <1>20, <1>21, <1>22, <1>23 DEF Next, Step, Begin
-----------------------------------------------------------------------------
(* Locks                                                                   *)

LEMMA HandStep ==
  ASSUME TypeOK, HandInv, [Next]_vars
  PROVE  HandInv'
<1>1. CASE UNCHANGED vars
  BY <1>1 DEF vars, work, HandInv
<1>2. ASSUME NEW t \in Threads, NEW n \in Names, Ask(t, n) PROVE HandInv'
  BY <1>2 DEF Ask, Goto, work, HandInv, TypeOK, None
<1>3. ASSUME NEW t \in Threads, Hit(t) PROVE HandInv'
  BY <1>3 DEF Hit, Cached, Goto, work, HandInv, TypeOK, None
<1>4. ASSUME NEW t \in Threads, Miss(t) PROVE HandInv'
  BY <1>4 DEF Miss, Goto, work, HandInv, TypeOK, None
<1>5. ASSUME NEW t \in Threads, GetHostLock(t) PROVE HandInv'
  BY <1>5 DEF GetHostLock, Goto, work, HandInv, TypeOK, None
<1>6. ASSUME NEW t \in Threads, Acquire(t) PROVE HandInv'
  BY <1>6 DEF Acquire, Goto, work, HandInv, TypeOK, None
<1>7. ASSUME NEW t \in Threads, StartDial(t) PROVE HandInv'
  BY <1>7 DEF StartDial, Goto, work, HandInv, TypeOK, None
<1>8. ASSUME NEW t \in Threads, DialFail(t) PROVE HandInv'
  BY <1>8 DEF DialFail, Goto, work, HandInv, TypeOK, None
<1>9. ASSUME NEW t \in Threads, DialOk(t) PROVE HandInv'
  BY <1>9, BoundsAssumption DEF DialOk, Goto, work, HandInv, TypeOK, None, Conns
<1>10. ASSUME NEW t \in Threads, Store(t) PROVE HandInv'
  BY <1>10 DEF Store, Goto, work, HandInv, TypeOK, None
<1>11. ASSUME NEW t \in Threads, SetHost(t) PROVE HandInv'
  BY <1>11 DEF SetHost, Goto, work, HandInv, TypeOK, None
<1>12. ASSUME NEW t \in Threads, Done(t) PROVE HandInv'
  BY <1>12 DEF Done, Goto, work, HandInv, TypeOK, None
<1>13. ASSUME NEW t \in Threads, Reset(t) PROVE HandInv'
  BY <1>13 DEF Reset, Goto, work, HandInv, TypeOK, None
<1>14. ASSUME NEW t \in Threads, Reconnect(t) PROVE HandInv'
  BY <1>14 DEF Reconnect, Goto, work, HandInv, TypeOK, None
<1>15. ASSUME NEW t \in Threads, RedialOk(t) PROVE HandInv'
  BY <1>15 DEF RedialOk, Goto, work, HandInv, TypeOK, None
<1>16. ASSUME NEW t \in Threads, RedialFail(t) PROVE HandInv'
  BY <1>16 DEF RedialFail, Goto, work, HandInv, TypeOK, None
<1>17. ASSUME NEW t \in Threads, NEW n \in Names, StartRemove(t, n) PROVE HandInv'
  BY <1>17 DEF StartRemove, Goto, work, HandInv, TypeOK, None
<1>18. ASSUME NEW t \in Threads, RemoveLock(t) PROVE HandInv'
  BY <1>18 DEF RemoveLock, Goto, work, HandInv, TypeOK, None
<1>19. ASSUME NEW t \in Threads, Remove(t) PROVE HandInv'
  BY <1>19 DEF Remove, Goto, work, HandInv, TypeOK, None
<1>20. ASSUME NEW t \in Threads, StartRefresh(t) PROVE HandInv'
  BY <1>20 DEF StartRefresh, Goto, work, HandInv, TypeOK, None
<1>21. ASSUME NEW t \in Threads, NEW n \in Names, CloseClient(t, n) PROVE HandInv'
  BY <1>21 DEF CloseClient, Goto, work, HandInv, TypeOK, None
<1>22. ASSUME NEW t \in Threads, NEW n \in Names, CloseLock(t, n) PROVE HandInv'
  BY <1>22 DEF CloseLock, Goto, work, HandInv, TypeOK, None
<1>23. ASSUME NEW t \in Threads, Refresh(t) PROVE HandInv'
  BY <1>23 DEF Refresh, Goto, work, HandInv, TypeOK, None
<1> QED
  BY <1>1, <1>2, <1>3, <1>4, <1>5, <1>6, <1>7, <1>8, <1>9, <1>10, <1>11, <1>12, <1>13, <1>14, <1>15, <1>16, <1>17, <1>18, <1>19, <1>20, <1>21, <1>22, <1>23 DEF Next, Step, Begin

LEMMA LockStep ==
  ASSUME TypeOK, ClosingInv, LockInv, [Next]_vars
  PROVE  LockInv'
<1>1. CASE UNCHANGED vars
  BY <1>1 DEF vars, pool, work, LockInv, Inside, HostLock
<1>2. ASSUME NEW t \in Threads, NEW n \in Names, Ask(t, n) PROVE LockInv'
  BY <1>2 DEF Ask, Goto, pool, work, LockInv, Inside, HostLock, TypeOK, None
<1>3. ASSUME NEW t \in Threads, Hit(t) PROVE LockInv'
  BY <1>3 DEF Hit, Goto, pool, work, LockInv, Inside, HostLock, TypeOK, None
<1>4. ASSUME NEW t \in Threads, Miss(t) PROVE LockInv'
  BY <1>4 DEF Miss, Goto, pool, work, LockInv, Inside, HostLock, TypeOK, None
<1>5. ASSUME NEW t \in Threads, GetHostLock(t) PROVE LockInv'
  BY <1>5 DEF GetHostLock, ClosingInv, Goto, pool, work, LockInv, Inside, HostLock, TypeOK, None
<1>6. ASSUME NEW t \in Threads, Acquire(t) PROVE LockInv'
  <2>1. HostLock(t) \notin held /\ held' = held \union {HostLock(t)} /\ pc[t] = "wait"
    BY <1>6 DEF Acquire, LockFree
  <2>2. /\ \A u \in Threads : HostLock(u)' = HostLock(u)
        /\ UNCHANGED <<lock, at, closed>>
    BY <1>6 DEF Acquire, pool, HostLock
  <2>3. \A u \in Threads : pc'[u] = IF u = t THEN "check" ELSE pc[u]
    BY <1>6 DEF Acquire, Goto, TypeOK
  <2>4. \A u \in Threads : Inside(u)' <=> u = t \/ Inside(u)
    BY <2>2, <2>3 DEF Inside
  <2> QED BY <2>1, <2>2, <2>3, <2>4 DEF LockInv
<1>7. ASSUME NEW t \in Threads, StartDial(t) PROVE LockInv'
  BY <1>7 DEF StartDial, Goto, pool, work, LockInv, Inside, HostLock, TypeOK, None
<1>8. ASSUME NEW t \in Threads, DialFail(t) PROVE LockInv'
  BY <1>8 DEF DialFail, Unlock, Goto, pool, work, LockInv, Inside, HostLock, TypeOK, None
<1>9. ASSUME NEW t \in Threads, DialOk(t) PROVE LockInv'
  BY <1>9 DEF DialOk, Goto, pool, work, LockInv, Inside, HostLock, TypeOK, None
<1>10. ASSUME NEW t \in Threads, Store(t) PROVE LockInv'
  BY <1>10 DEF Store, Unlock, Goto, pool, work, LockInv, Inside, HostLock, TypeOK, None
<1>11. ASSUME NEW t \in Threads, SetHost(t) PROVE LockInv'
  BY <1>11 DEF SetHost, Unlock, Goto, pool, work, LockInv, Inside, HostLock, TypeOK, None
<1>12. ASSUME NEW t \in Threads, Done(t) PROVE LockInv'
  BY <1>12 DEF Done, Goto, pool, work, LockInv, Inside, HostLock, TypeOK, None
<1>13. ASSUME NEW t \in Threads, Reset(t) PROVE LockInv'
  BY <1>13 DEF Reset, Goto, pool, work, LockInv, Inside, HostLock, TypeOK, None
<1>14. ASSUME NEW t \in Threads, Reconnect(t) PROVE LockInv'
  BY <1>14 DEF Reconnect, Goto, pool, work, LockInv, Inside, HostLock, TypeOK, None
<1>15. ASSUME NEW t \in Threads, RedialOk(t) PROVE LockInv'
  BY <1>15 DEF RedialOk, Goto, pool, work, LockInv, Inside, HostLock, TypeOK, None
<1>16. ASSUME NEW t \in Threads, RedialFail(t) PROVE LockInv'
  BY <1>16 DEF RedialFail, Goto, pool, work, LockInv, Inside, HostLock, TypeOK, None
<1>17. ASSUME NEW t \in Threads, NEW n \in Names, StartRemove(t, n) PROVE LockInv'
  BY <1>17 DEF StartRemove, Goto, pool, work, LockInv, Inside, HostLock, TypeOK, None
<1>18. ASSUME NEW t \in Threads, RemoveLock(t) PROVE LockInv'
  BY <1>18 DEF RemoveLock, Goto, pool, work, LockInv, Inside, HostLock, TypeOK, None
<1>19. ASSUME NEW t \in Threads, Remove(t) PROVE LockInv'
  BY <1>19 DEF Remove, Goto, pool, work, LockInv, Inside, HostLock, TypeOK, None
<1>20. ASSUME NEW t \in Threads, StartRefresh(t) PROVE LockInv'
  BY <1>20 DEF StartRefresh, Goto, pool, work, LockInv, Inside, HostLock, TypeOK, None
<1>21. ASSUME NEW t \in Threads, NEW n \in Names, CloseClient(t, n) PROVE LockInv'
  BY <1>21 DEF CloseClient, Goto, pool, work, LockInv, Inside, HostLock, TypeOK, None
<1>22. ASSUME NEW t \in Threads, NEW n \in Names, CloseLock(t, n) PROVE LockInv'
  BY <1>22 DEF CloseLock, Goto, pool, work, LockInv, Inside, HostLock, TypeOK, None
<1>23. ASSUME NEW t \in Threads, Refresh(t) PROVE LockInv'
  BY <1>23 DEF Refresh, Goto, pool, work, LockInv, Inside, HostLock, TypeOK, None
<1> QED
  BY <1>1, <1>2, <1>3, <1>4, <1>5, <1>6, <1>7, <1>8, <1>9, <1>10, <1>11, <1>12, <1>13, <1>14, <1>15, <1>16, <1>17, <1>18, <1>19, <1>20, <1>21, <1>22, <1>23 DEF Next, Step, Begin

LEMMA UncachedStep ==
  ASSUME TypeOK, LockInv, UncachedInv, [Next]_vars
  PROVE  UncachedInv'
<1> USE DEF UncachedInv, Cached, TypeOK, None
<1>1. CASE UNCHANGED vars
  BY <1>1 DEF vars, pool, work
<1>2. ASSUME NEW t \in Threads, NEW n \in Names, Ask(t, n) PROVE UncachedInv'
  BY <1>2 DEF Ask, Goto, pool, work
<1>3. ASSUME NEW t \in Threads, Hit(t) PROVE UncachedInv'
  BY <1>3 DEF Hit, Goto, pool, work
<1>4. ASSUME NEW t \in Threads, Miss(t) PROVE UncachedInv'
  BY <1>4 DEF Miss, Goto, pool, work
<1>5. ASSUME NEW t \in Threads, GetHostLock(t) PROVE UncachedInv'
  BY <1>5 DEF GetHostLock, Goto, pool, work
<1>6. ASSUME NEW t \in Threads, Acquire(t) PROVE UncachedInv'
  BY <1>6 DEF Acquire, Goto, pool, work
<1>7. ASSUME NEW t \in Threads, StartDial(t) PROVE UncachedInv'
  BY <1>7 DEF StartDial, MissInside, Goto, pool, work
<1>8. ASSUME NEW t \in Threads, DialFail(t) PROVE UncachedInv'
  BY <1>8 DEF DialFail, Goto, pool, work
<1>9. ASSUME NEW t \in Threads, DialOk(t) PROVE UncachedInv'
  BY <1>9 DEF DialOk, Goto, pool, work
<1>10. ASSUME NEW t \in Threads, Store(t) PROVE UncachedInv'
  <2> SUFFICES ASSUME NEW u \in Threads, pc'[u] \in {"dial", "store"}, at'[u] \notin closed'
               PROVE  clients'[at'[u]][name'[u]] = None
    OBVIOUS
  <2>1. u # t /\ pc[u] \in {"dial", "store"} /\ at[u] \notin closed /\ pc[t] = "store"
        /\ UNCHANGED <<at, name>>
    BY <1>10 DEF Store, Goto
  <2>2. ~(at[u] = at[t] /\ name[u] = name[t])
    BY <2>1 DEF LockInv, Inside, HostLock
  <2> QED BY <1>10, <2>1, <2>2 DEF Store
<1>11. ASSUME NEW t \in Threads, SetHost(t) PROVE UncachedInv'
  BY <1>11 DEF SetHost, Goto, pool, work
<1>12. ASSUME NEW t \in Threads, Done(t) PROVE UncachedInv'
  BY <1>12 DEF Done, Goto, pool, work
<1>13. ASSUME NEW t \in Threads, Reset(t) PROVE UncachedInv'
  BY <1>13 DEF Reset, Goto, pool, work
<1>14. ASSUME NEW t \in Threads, Reconnect(t) PROVE UncachedInv'
  BY <1>14 DEF Reconnect, Goto, pool, work
<1>15. ASSUME NEW t \in Threads, RedialOk(t) PROVE UncachedInv'
  BY <1>15 DEF RedialOk, Goto, pool, work
<1>16. ASSUME NEW t \in Threads, RedialFail(t) PROVE UncachedInv'
  BY <1>16 DEF RedialFail, Goto, pool, work
<1>17. ASSUME NEW t \in Threads, NEW n \in Names, StartRemove(t, n) PROVE UncachedInv'
  BY <1>17 DEF StartRemove, Goto, pool, work
<1>18. ASSUME NEW t \in Threads, RemoveLock(t) PROVE UncachedInv'
  BY <1>18 DEF RemoveLock, Goto, pool, work
<1>19. ASSUME NEW t \in Threads, Remove(t) PROVE UncachedInv'
  BY <1>19 DEF Remove, Drop, Goto, pool, work
<1>20. ASSUME NEW t \in Threads, StartRefresh(t) PROVE UncachedInv'
  BY <1>20 DEF StartRefresh, Goto, pool, work
<1>21. ASSUME NEW t \in Threads, NEW n \in Names, CloseClient(t, n) PROVE UncachedInv'
  BY <1>21 DEF CloseClient, Drop, Goto, pool, work
<1>22. ASSUME NEW t \in Threads, NEW n \in Names, CloseLock(t, n) PROVE UncachedInv'
  BY <1>22 DEF CloseLock, Goto, pool, work
<1>23. ASSUME NEW t \in Threads, Refresh(t) PROVE UncachedInv'
  BY <1>23 DEF Refresh, Goto, pool, work
<1> QED
  BY <1>1, <1>2, <1>3, <1>4, <1>5, <1>6, <1>7, <1>8, <1>9, <1>10, <1>11, <1>12, <1>13, <1>14, <1>15, <1>16, <1>17, <1>18, <1>19, <1>20, <1>21, <1>22, <1>23 DEF Next, Step, Begin

PoolInv == TypeOK /\ ClosingInv /\ LockInv /\ HandInv /\ UncachedInv

LEMMA PoolInit == Init => PoolInv
<1> SUFFICES ASSUME Init PROVE PoolInv
  OBVIOUS
<1>1. TypeOK /\ ClosingInv
  BY TypeInit
<1>2. LockInv /\ HandInv /\ UncachedInv
  BY DEF Init, LockInv, HandInv, UncachedInv, Inside, None
<1> QED BY <1>1, <1>2 DEF PoolInv

LEMMA PoolStep == PoolInv /\ [Next]_vars => PoolInv'
  BY TypeStep, LockStep, HandStep, UncachedStep DEF PoolInv

LEMMA PoolAlways == Spec => []PoolInv
  BY PoolInit, PoolStep, PTL DEF Spec

\* The variables of ConnectionPool keep their types: a host lock is deleted at
\* most once, and a pool is closed only while a new one can follow it.
THEOREM TypeCorrect == Spec => []TypeOK
<1>1. PoolInv => TypeOK BY DEF PoolInv
<1> QED BY <1>1, PoolAlways, PTL

\* Get: until Close is called on a pool, the lock of a host keeps apart the
\* goroutines that shake hands with it, and there is no connection to it yet.
THEOREM HandshakesApart == Spec => []OneHandshake
<1>1. PoolInv => OneHandshake
  <2> SUFFICES ASSUME PoolInv, NEW p \in Pools \ closed, NEW n \in Names,
                      NEW t \in Shaking(p, n), NEW u \in Shaking(p, n)
               PROVE  t = u /\ clients[p][n] = None
    BY DEF OneHandshake
  <2>1. /\ t \in Threads /\ pc[t] \in {"dial", "store"} /\ at[t] = p /\ name[t] = n
        /\ u \in Threads /\ pc[u] \in {"dial", "store"} /\ at[u] = p /\ name[u] = n
    BY DEF Shaking
  <2>2. lock[t] = 1 /\ lock[u] = 1
    BY <2>1 DEF PoolInv, LockInv
  <2>3. t = u
    BY <2>1, <2>2 DEF PoolInv, LockInv, Inside, HostLock
  <2>4. clients[p][n] = None
    BY <2>1 DEF PoolInv, UncachedInv, Cached
  <2> QED BY <2>3, <2>4
<1> QED BY <1>1, PoolAlways, PTL
-----------------------------------------------------------------------------
(* Leaks                                                                   *)

\* The executor's pool is the latest one: the pools before it are closed, nobody
\* works on a later one, and the one who closes it has emptied it before its
\* locks are deleted.
LatestInv ==
  /\ \A t \in Threads : at[t] <= cur
  /\ \A p \in Pools : p < cur => p \in closed
  /\ \A t \in Threads, n \in Names :
       pc[t] = "closing" /\ left # Names => clients[cur][n] = None

\* Where a connection can be that nobody dropped: about to be stored in the
\* executor's pool, which is then not closed; or, once somebody uses it, in that
\* pool.  What the pools before it still hold had been dropped when it was stored.
StoredInv ==
  /\ \A t \in Threads : pc[t] = "store" => conn[t] \in orphans \/ (at[t] = cur /\ cur \notin closed)
  /\ \A t \in Threads : pc[t] \in {"setHost", "using", "reset", "redial"} =>
       conn[t] \in orphans \/ \E n \in Names : clients[cur][n] = conn[t]
  /\ \A p \in Pools, n \in Names : p # cur => clients[p][n] \in orphans \union {None}

LeakInv == LatestInv /\ StoredInv /\ NoneLeaked

\* A goroutine goes on without touching a pool: what it then has in hand to use
\* was dropped or is in the pool in use.
LEMMA QuietStep ==
  ASSUME PoolInv, LeakInv, NEW t \in Threads, NEW l \in Pcs \ {"closing", "store"},
         Goto(t, l), pc[t] # "store", UNCHANGED <<pool, orphans>>,
         \A u \in Threads : u # t => at'[u] = at[u] /\ conn'[u] = conn[u],
         at'[t] \in {at[t], cur},
         l \in {"setHost", "using", "reset", "redial"} =>
           conn'[t] \in orphans \/ \E n \in Names : clients[cur][n] = conn'[t],
         \A c \in open' \ orphans : c \in open \/ \E n \in Names : clients[cur][n] = c
  PROVE  LeakInv'
<1>1. pc' = [pc EXCEPT ![t] = l] /\ pc \in [Threads -> Pcs] /\ cur \in Nat
  BY DEF Goto, PoolInv, TypeOK, Pools
<1>2. LatestInv'
  <2>1. \A u \in Threads : at'[u] <= cur
    BY <1>1 DEF LeakInv, LatestInv
  <2>2. \A u \in Threads : pc'[u] = "closing" => pc[u] = "closing"
    BY <1>1
  <2> QED BY <2>1, <2>2 DEF LeakInv, LatestInv, pool
<1>3. StoredInv'
  <2>1. \A u \in Threads : u # t => pc'[u] = pc[u]
    BY <1>1
  <2>2. pc'[t] = l
    BY <1>1
  <2> QED BY <2>1, <2>2 DEF LeakInv, StoredInv, pool
<1>4. NoneLeaked'
  <2>1. \A u \in Threads : pc[u] = "store" => pc'[u] = "store" /\ at'[u] = at[u] /\ conn'[u] = conn[u]
    BY <1>1
  <2> QED BY <2>1 DEF LeakInv, NoneLeaked, pool
<1> QED BY <1>2, <1>3, <1>4 DEF LeakInv

\* Remove or Close drops the connection of a host: whoever has it in hand has
\* an orphan from here on.
LEMMA DropStep ==
  ASSUME PoolInv, LeakInv, NEW p \in Pools, NEW m \in Names, Drop(p, m),
         UNCHANGED <<cur, closed, at, conn>>, left' = left,
         \A u \in Threads : pc'[u] = pc[u] \/ (pc[u] = "removing" /\ pc'[u] = "idle")
  PROVE  LeakInv'
<1> DEFINE c == clients[p][m]
<1>1. /\ c # None /\ open' = open \ {c} /\ orphans \subseteq orphans'
      /\ \A u \in Threads : pc[u] \in {"store", "setHost", "using", "reset", "redial"} /\ conn[u] = c
                              => c \in orphans'
  BY DEF Drop, Holders
<1>2. \A q \in Pools, n \in Names :
        clients'[q][n] = IF q = p /\ n = m THEN None ELSE clients[q][n]
  BY DEF Drop, PoolInv, TypeOK
<1>3. LatestInv'
  BY <1>2 DEF LeakInv, LatestInv, PoolInv, TypeOK
<1>4. StoredInv'
  <2>1. \A u \in Threads : pc'[u] = "store" =>
          conn'[u] \in orphans' \/ (at'[u] = cur' /\ cur' \notin closed')
    BY <1>1 DEF LeakInv, StoredInv
  <2>2. ASSUME NEW u \in Threads, pc'[u] \in {"setHost", "using", "reset", "redial"}
        PROVE  conn'[u] \in orphans' \/ \E n \in Names : clients'[cur'][n] = conn'[u]
    <3>1. pc[u] = pc'[u] /\ (conn[u] \in orphans \/ \E n \in Names : clients[cur][n] = conn[u])
      BY <2>2 DEF LeakInv, StoredInv
    <3>2. CASE conn[u] = c
      BY <1>1, <2>2, <3>1, <3>2
    <3>3. CASE conn[u] # c
      <4>1. CASE conn[u] \in orphans
        BY <1>1, <4>1
      <4>2. CASE \E n \in Names : clients[cur][n] = conn[u]
        <5>1. PICK n \in Names : clients[cur][n] = conn[u]
          BY <4>2
        <5>2. clients'[cur][n] = conn[u]
          BY <1>2, <3>3, <5>1 DEF PoolInv, TypeOK
        <5> QED BY <5>2
      <4> QED BY <3>1, <4>1, <4>2
    <3> QED BY <3>2, <3>3
  <2>3. \A q \in Pools, n \in Names : q # cur' => clients'[q][n] \in orphans' \union {None}
    BY <1>1, <1>2 DEF LeakInv, StoredInv
  <2> QED BY <2>1, <2>2, <2>3 DEF StoredInv
<1>5. NoneLeaked'
  <2> SUFFICES ASSUME NEW d \in open' \ orphans'
               PROVE  \/ \E n \in Names : clients'[cur'][n] = d
                      \/ \E u \in Threads : pc'[u] = "store" /\ at'[u] = cur' /\ conn'[u] = d
    BY DEF NoneLeaked
  <2>1. d \in open \ orphans /\ d # c
    BY <1>1
  <2>2. \/ \E n \in Names : clients[cur][n] = d
        \/ \E u \in Threads : pc[u] = "store" /\ at[u] = cur /\ conn[u] = d
    BY <2>1 DEF LeakInv, NoneLeaked
  <2>3. CASE \E n \in Names : clients[cur][n] = d
    <3>1. PICK n \in Names : clients[cur][n] = d
      BY <2>3
    <3>2. clients'[cur][n] = d
      BY <1>2, <2>1, <3>1 DEF PoolInv, TypeOK
    <3> QED BY <3>2
  <2>4. CASE \E u \in Threads : pc[u] = "store" /\ at[u] = cur /\ conn[u] = d
    BY <2>4
  <2> QED BY <2>2, <2>3, <2>4
<1> QED BY <1>3, <1>4, <1>5 DEF LeakInv

LEMMA LeakStep ==
  ASSUME PoolInv, LeakInv, [Next]_vars
  PROVE  LeakInv'
<1> USE DEF Pcs
<1>a. TypeOK /\ ClosingInv /\ HandInv /\ UncachedInv /\ LatestInv /\ StoredInv
  BY DEF PoolInv, LeakInv
<1>1. CASE UNCHANGED vars
  BY <1>1 DEF vars, pool, work, net, LeakInv, LatestInv, StoredInv, NoneLeaked
<1>2. ASSUME NEW t \in Threads, NEW n \in Names, Ask(t, n) \/ StartRemove(t, n)
      PROVE  LeakInv'
  <2>1. \E l \in {"look", "remove"} : Goto(t, l)
    BY <1>2 DEF Ask, StartRemove
  <2>2. pc[t] # "store" /\ UNCHANGED <<pool, orphans, open>>
    BY <1>2 DEF Ask, StartRemove, net
  <2>3. \A u \in Threads : u # t => at'[u] = at[u] /\ conn'[u] = conn[u]
    BY <1>a, <1>2 DEF Ask, StartRemove, TypeOK
  <2>4. at'[t] = cur
    BY <1>a, <1>2 DEF Ask, StartRemove, TypeOK
  <2> QED BY <2>1, <2>2, <2>3, <2>4, QuietStep
<1>3. ASSUME NEW t \in Threads, Hit(t) PROVE LeakInv'
  <2>1. clients[at[t]][name[t]] # None /\ conn'[t] = clients[at[t]][name[t]]
        /\ at[t] \in Pools /\ name[t] \in Names
    BY <1>a, <1>3 DEF Hit, Cached, TypeOK
  <2>2. conn'[t] \in orphans \/ \E n \in Names : clients[cur][n] = conn'[t]
    BY <1>a, <2>1 DEF StoredInv
  <2>3. Goto(t, "setHost") /\ pc[t] # "store" /\ UNCHANGED <<pool, orphans, open, at>>
    BY <1>3 DEF Hit, net
  <2>4. \A u \in Threads : u # t => conn'[u] = conn[u]
    BY <1>a, <1>3 DEF Hit, TypeOK
  <2> QED BY <2>2, <2>3, <2>4, QuietStep
<1>4. ASSUME NEW t \in Threads,
             \/ Miss(t) \/ GetHostLock(t) \/ Acquire(t) \/ StartDial(t) \/ DialFail(t)
             \/ Done(t) \/ RedialFail(t) \/ RemoveLock(t)
      PROVE  LeakInv'
  <2>1. \E l \in {"idle", "hostLock", "wait", "check", "dial", "removing"} : Goto(t, l)
    BY <1>4 DEF Miss, GetHostLock, Acquire, StartDial, DialFail, Done, RedialFail, RemoveLock
  <2>2. pc[t] # "store" /\ UNCHANGED <<pool, orphans, open, at, conn>>
    BY <1>4 DEF Miss, GetHostLock, Acquire, StartDial, DialFail, Done, RedialFail, RemoveLock, net
  <2> QED BY <2>1, <2>2, QuietStep
<1>5. ASSUME NEW t \in Threads, SetHost(t) \/ Reset(t) \/ Reconnect(t) \/ RedialOk(t)
      PROVE  LeakInv'
  <2>1. /\ pc[t] \in {"setHost", "using", "reset", "redial"}
        /\ UNCHANGED <<pool, orphans, at, conn>> /\ open' \subseteq open \union {conn[t]}
    BY <1>5 DEF SetHost, Reset, Reconnect, RedialOk, net
  <2>2. \E l \in {"using", "reset", "redial"} : Goto(t, l)
    BY <1>5 DEF SetHost, Reset, Reconnect, RedialOk
  <2>3. conn[t] \in orphans \/ \E n \in Names : clients[cur][n] = conn[t]
    BY <1>a, <2>1 DEF StoredInv
  <2>4. \A c \in open' \ orphans : c \in open \/ \E n \in Names : clients[cur][n] = c
    BY <2>1, <2>3
  <2> QED BY <2>1, <2>2, <2>3, <2>4, QuietStep
<1>6. ASSUME NEW t \in Threads, DialOk(t) PROVE LeakInv'
  <2> DEFINE c == conns + 1
  <2>1. /\ pc' = [pc EXCEPT ![t] = "store"] /\ conn' = [conn EXCEPT ![t] = c]
        /\ open' = open \union {c} /\ UNCHANGED <<pool, at>> /\ pc[t] = "dial"
        /\ orphans' = IF at[t] \in closed THEN orphans \union {c} ELSE orphans
    BY <1>6 DEF DialOk, Goto
  <2>2. c \in orphans' \/ (at[t] = cur /\ cur \notin closed)
    BY <1>a, <2>1 DEF LatestInv, TypeOK, Pools
  <2>3. \A u \in Threads : u # t => pc'[u] = pc[u] /\ conn'[u] = conn[u]
    BY <1>a, <2>1 DEF TypeOK
  <2>4. pc'[t] = "store" /\ conn'[t] = c /\ orphans \subseteq orphans'
    BY <1>a, <2>1 DEF TypeOK
  <2> HIDE DEF c
  <2>5. LatestInv'
    BY <1>a, <2>1, <2>3, <2>4 DEF LatestInv, pool
  <2>6. StoredInv'
    BY <1>a, <2>1, <2>2, <2>3, <2>4 DEF StoredInv, pool
  <2>7. NoneLeaked'
    BY <2>1, <2>2, <2>3, <2>4 DEF LeakInv, NoneLeaked, pool
  <2> QED BY <2>5, <2>6, <2>7 DEF LeakInv
<1>7. ASSUME NEW t \in Threads, Store(t) PROVE LeakInv'
  <2>1. /\ pc[t] = "store" /\ MuFree(at[t]) /\ pc' = [pc EXCEPT ![t] = "using"]
        /\ clients' = [clients EXCEPT ![at[t]][name[t]] = conn[t]]
        /\ UNCHANGED <<cur, closed, left, at, conn, open, orphans>>
    BY <1>7 DEF Store, Goto, net
  <2>2. at[t] = cur => cur \notin closed /\ clients[cur][name[t]] = None
    <3>1. cur \in closed => \E u \in Threads : pc[u] = "closing" /\ at[u] = cur
      BY <1>a DEF ClosingInv
    <3> QED BY <1>a, <2>1, <3>1 DEF MuFree, UncachedInv, Cached
  <2>3. \A p \in Pools, n \in Names :
          clients'[p][n] = IF p = at[t] /\ n = name[t] THEN conn[t] ELSE clients[p][n]
    BY <1>a, <2>1 DEF TypeOK
  <2>4. /\ at[t] \in Pools /\ name[t] \in Names /\ cur \in Pools /\ conn[t] # None
        /\ \A u \in Threads : u # t => pc'[u] = pc[u]
        /\ pc'[t] = "using"
    BY <1>a, <2>1 DEF TypeOK, HandInv
  <2>5. conn[t] \in orphans \/ clients'[cur][name[t]] = conn[t]
    BY <1>a, <2>1, <2>3, <2>4 DEF StoredInv
  <2>6. \A n \in Names : clients[cur][n] # None => clients'[cur][n] = clients[cur][n]
    BY <2>2, <2>3, <2>4
  <2>7. LatestInv'
    <3>1. \A u \in Threads : pc'[u] = "closing" => pc[u] = "closing" /\ cur \in closed
      BY <1>a, <2>4 DEF ClosingInv
    <3>2. cur \in closed => \A n \in Names : clients'[cur][n] = clients[cur][n]
      BY <2>2, <2>3, <2>4
    <3> QED BY <1>a, <2>1, <3>1, <3>2 DEF LatestInv
  <2>8. StoredInv'
    <3>1. ASSUME NEW u \in Threads, u # t, pc[u] \in {"setHost", "using", "reset", "redial"}
          PROVE  conn[u] \in orphans \/ \E n \in Names : clients'[cur][n] = conn[u]
      <4>1. conn[u] # None
        BY <1>a, <3>1 DEF HandInv
      <4> QED BY <1>a, <2>6, <3>1, <4>1 DEF StoredInv
    <3>2. \A p \in Pools, n \in Names : p # cur => clients'[p][n] \in orphans \union {None}
      BY <1>a, <2>1, <2>3 DEF StoredInv
    <3> QED BY <1>a, <2>1, <2>4, <2>5, <3>1, <3>2 DEF StoredInv
  <2>9. NoneLeaked'
    <3> SUFFICES ASSUME NEW c \in open \ orphans
                 PROVE  \/ \E n \in Names : clients'[cur][n] = c
                        \/ \E u \in Threads : pc'[u] = "store" /\ at[u] = cur /\ conn[u] = c
      BY <2>1 DEF NoneLeaked
    <3>1. \/ \E n \in Names : clients[cur][n] = c
          \/ \E u \in Threads : pc[u] = "store" /\ at[u] = cur /\ conn[u] = c
      BY DEF LeakInv, NoneLeaked
    <3>2. c # None
      BY <1>a DEF TypeOK, Conns, None
    <3> QED BY <2>4, <2>5, <2>6, <3>1, <3>2
  <2> QED BY <2>7, <2>8, <2>9 DEF LeakInv
<1>8. ASSUME NEW t \in Threads, Remove(t) PROVE LeakInv'
  <2>1. /\ Drop(at[t], name[t]) /\ at[t] \in Pools /\ name[t] \in Names
        /\ UNCHANGED <<cur, closed, at, conn, left>>
    BY <1>a, <1>8 DEF Remove, TypeOK
  <2>2. \A u \in Threads : pc'[u] = pc[u] \/ (pc[u] = "removing" /\ pc'[u] = "idle")
    BY <1>a, <1>8 DEF Remove, Goto, TypeOK
  <2> QED BY <2>1, <2>2, DropStep
<1>9. ASSUME NEW t \in Threads, NEW n \in Names, CloseClient(t, n) PROVE LeakInv'
  <2>1. /\ Drop(at[t], n) /\ at[t] \in Pools
        /\ UNCHANGED <<cur, closed, at, conn, left, pc>>
    BY <1>a, <1>9 DEF CloseClient, work, TypeOK
  <2> QED BY <2>1, DropStep
<1>10. ASSUME NEW t \in Threads, StartRefresh(t) PROVE LeakInv'
  <2>1. /\ pc[t] = "idle" /\ pc' = [pc EXCEPT ![t] = "closing"]
        /\ at' = [at EXCEPT ![t] = cur] /\ conn' = [conn EXCEPT ![t] = None]
        /\ closed' = closed \union {cur} /\ left' = Names
        /\ UNCHANGED <<cur, clients, open>>
    BY <1>10 DEF StartRefresh, Goto
  <2>2. orphans \subseteq orphans' /\ \A u \in Threads : pc[u] = "store" /\ at[u] = cur => conn[u] \in orphans'
    BY <1>10 DEF StartRefresh
  <2>3. \A u \in Threads : u # t => pc'[u] = pc[u] /\ at'[u] = at[u] /\ conn'[u] = conn[u]
    BY <1>a, <2>1 DEF TypeOK
  <2>4. pc'[t] = "closing" /\ at'[t] = cur
    BY <1>a, <2>1 DEF TypeOK
  <2>5. LatestInv'
    BY <1>a, <2>1, <2>3, <2>4 DEF LatestInv, TypeOK, Pools
  <2>6. StoredInv'
    BY <1>a, <2>1, <2>2, <2>3, <2>4 DEF StoredInv
  <2>7. NoneLeaked'
    BY <2>1, <2>2, <2>3, <2>4 DEF LeakInv, NoneLeaked
  <2> QED BY <2>5, <2>6, <2>7 DEF LeakInv
<1>11. ASSUME NEW t \in Threads, NEW n \in Names, CloseLock(t, n) PROVE LeakInv'
  <2>1. pc[t] = "closing" /\ at[t] = cur /\ \A m \in Names : clients[cur][m] = None
    BY <1>a, <1>11 DEF CloseLock, ClosingInv
  <2>2. UNCHANGED <<cur, clients, closed, pc, at, conn, open, orphans>>
    BY <1>11 DEF CloseLock, work, net
  <2> QED BY <1>a, <2>1, <2>2 DEF LeakInv, LatestInv, StoredInv, NoneLeaked
<1>12. ASSUME NEW t \in Threads, Refresh(t) PROVE LeakInv'
  <2>1. /\ pc[t] = "closing" /\ left = {} /\ cur' = cur + 1 /\ pc' = [pc EXCEPT ![t] = "idle"]
        /\ UNCHANGED <<clients, closed, left, at, conn, open, orphans>>
    BY <1>12 DEF Refresh, Goto, net
  <2>2. at[t] = cur /\ cur \in closed /\ cur \in Pools /\ cur \in Nat
    BY <1>a, <2>1 DEF ClosingInv, TypeOK, Pools
  <2>3. \A n \in Names : clients[cur][n] = None
    BY <1>a, <2>1 DEF LatestInv
  <2>4. \A u \in Threads : pc[u] \in {"store", "setHost", "using", "reset", "redial"} => conn[u] \in orphans
    BY <1>a, <2>2, <2>3 DEF StoredInv, HandInv
  <2>5. \A u \in Threads : pc'[u] # "closing" /\ (pc'[u] # "idle" => pc'[u] = pc[u])
    BY <1>a, <2>1 DEF ClosingInv, TypeOK
  <2>6. LatestInv'
    <3>1. \A u \in Threads : at[u] <= cur + 1
      BY <1>a, <2>2 DEF LatestInv, TypeOK, Pools
    <3>2. \A p \in Pools : p < cur + 1 => p \in closed
      BY <1>a, <2>2 DEF LatestInv, Pools
    <3> QED BY <2>1, <2>5, <3>1, <3>2 DEF LatestInv
  <2>7. StoredInv'
    <3>1. \A p \in Pools, n \in Names : clients[p][n] \in orphans \union {None}
      BY <1>a, <2>3 DEF StoredInv
    <3> QED BY <2>1, <2>4, <2>5, <3>1 DEF StoredInv
  <2>8. NoneLeaked'
    <3>1. open \subseteq orphans
      <4> SUFFICES ASSUME NEW c \in open \ orphans PROVE FALSE
        OBVIOUS
      <4>1. c # None
        BY <1>a DEF TypeOK, Conns, None
      <4> QED BY <2>3, <2>4, <4>1 DEF LeakInv, NoneLeaked
    <3> QED BY <2>1, <3>1 DEF NoneLeaked
  <2> QED BY <2>6, <2>7, <2>8 DEF LeakInv
<1> QED
  BY <1>1, <1>2, <1>3, <1>4, <1>5, <1>6, <1>7, <1>8, <1>9, <1>10, <1>11, <1>12 DEF Next, Step, Begin

\* No connection is leaked by the pools: whatever Get, Remove, Close and
\* refresh_inventory do at the same time, a connection that is open and that
\* nobody had in hand when it was dropped is where the next Close finds it.
THEOREM NoConnectionLeaks == Spec => []NoneLeaked
<1>1. Init => LeakInv
  BY BoundsAssumption DEF Init, LeakInv, LatestInv, StoredInv, NoneLeaked, Pools, None
<1>2. PoolInv /\ LeakInv /\ [Next]_vars => LeakInv'
  BY LeakStep
<1>3. LeakInv => NoneLeaked
  BY DEF LeakInv
<1> QED BY <1>1, <1>2, <1>3, PoolAlways, PTL DEF Spec
-----------------------------------------------------------------------------
(* ConnectionCache                                                         *)

\* A connection that is about to be stored is nowhere else; a goroutine that
\* has yet to find or to make one has none in hand.
FreshInv ==
  /\ \A p \in Pools, m \in Names : clients[p][m] <= conns
  /\ \A u \in Threads : conn[u] <= conns
  /\ \A t \in Threads : pc[t] = "store" =>
       /\ \A p \in Pools, m \in Names : clients[p][m] # conn[t]
       /\ \A u \in Threads : u # t => conn[u] # conn[t]
  /\ \A t \in Threads :
       pc[t] \in {"look", "hostLock", "wait", "check", "dial"} => conn[t] = None

LEMMA FreshInit == Init => FreshInv
  BY DEF Init, FreshInv, None

LEMMA FreshStep ==
  ASSUME TypeOK, HandInv, FreshInv, [Next]_vars
  PROVE  FreshInv'
<1> USE DEF FreshInv, TypeOK, None, Conns
<1>1. CASE UNCHANGED vars
  BY <1>1 DEF vars, pool, work, net
<1>2. ASSUME NEW t \in Threads, NEW n \in Names, Ask(t, n) PROVE FreshInv'
  BY <1>2, BoundsAssumption DEF Ask, HandInv, Goto, pool, work, net
<1>3. ASSUME NEW t \in Threads, Hit(t) PROVE FreshInv'
  BY <1>3, BoundsAssumption DEF Hit, Cached, Goto, pool, work, net
<1>4. ASSUME NEW t \in Threads, Miss(t) PROVE FreshInv'
  BY <1>4, BoundsAssumption DEF Miss, Goto, pool, work, net
<1>5. ASSUME NEW t \in Threads, GetHostLock(t) PROVE FreshInv'
  BY <1>5, BoundsAssumption DEF GetHostLock, Goto, pool, work, net
<1>6. ASSUME NEW t \in Threads, Acquire(t) PROVE FreshInv'
  BY <1>6, BoundsAssumption DEF Acquire, Goto, pool, work, net
<1>7. ASSUME NEW t \in Threads, StartDial(t) PROVE FreshInv'
  BY <1>7, BoundsAssumption DEF StartDial, Goto, pool, work, net
<1>8. ASSUME NEW t \in Threads, DialFail(t) PROVE FreshInv'
  BY <1>8, BoundsAssumption DEF DialFail, Goto, pool, work, net
<1>9. ASSUME NEW t \in Threads, DialOk(t) PROVE FreshInv'
  <2>1. /\ conns' = conns + 1 /\ conns \in Nat
        /\ clients' = clients /\ pc[t] = "dial"
    BY <1>9, BoundsAssumption DEF DialOk, pool
  <2>2. \A u \in Threads : conn'[u] = IF u = t THEN conns + 1 ELSE conn[u]
    BY <1>9 DEF DialOk
  <2>3. \A u \in Threads : pc'[u] = IF u = t THEN "store" ELSE pc[u]
    BY <1>9 DEF DialOk, Goto
  <2>4. \A p \in Pools, m \in Names : clients[p][m] \in 0..conns
    BY <2>1, BoundsAssumption
  <2>5. \A u \in Threads : conn[u] \in 0..conns
    BY <2>1, BoundsAssumption
  <2> HIDE DEF TypeOK, Conns
  <2> QED BY <2>1, <2>2, <2>3, <2>4, <2>5
<1>10. ASSUME NEW t \in Threads, Store(t) PROVE FreshInv'
  BY <1>10, BoundsAssumption DEF Store, Goto, pool, work, net
<1>11. ASSUME NEW t \in Threads, SetHost(t) PROVE FreshInv'
  BY <1>11, BoundsAssumption DEF SetHost, Goto, pool, work, net
<1>12. ASSUME NEW t \in Threads, Done(t) PROVE FreshInv'
  BY <1>12, BoundsAssumption DEF Done, Goto, pool, work, net
<1>13. ASSUME NEW t \in Threads, Reset(t) PROVE FreshInv'
  BY <1>13, BoundsAssumption DEF Reset, Goto, pool, work, net
<1>14. ASSUME NEW t \in Threads, Reconnect(t) PROVE FreshInv'
  BY <1>14, BoundsAssumption DEF Reconnect, Goto, pool, work, net
<1>15. ASSUME NEW t \in Threads, RedialOk(t) PROVE FreshInv'
  BY <1>15, BoundsAssumption DEF RedialOk, Goto, pool, work, net
<1>16. ASSUME NEW t \in Threads, RedialFail(t) PROVE FreshInv'
  BY <1>16, BoundsAssumption DEF RedialFail, Goto, pool, work, net
<1>17. ASSUME NEW t \in Threads, NEW n \in Names, StartRemove(t, n) PROVE FreshInv'
  BY <1>17, BoundsAssumption DEF StartRemove, HandInv, Goto, pool, work, net
<1>18. ASSUME NEW t \in Threads, RemoveLock(t) PROVE FreshInv'
  BY <1>18, BoundsAssumption DEF RemoveLock, Goto, pool, work, net
<1>19. ASSUME NEW t \in Threads, Remove(t) PROVE FreshInv'
  <2>1. \A p \in Pools, m \in Names : clients'[p][m] \in {clients[p][m], 0}
    BY <1>19 DEF Remove, Drop
  <2>2. /\ conn' = conn /\ conns' = conns
        /\ \A u \in Threads : pc'[u] = pc[u] \/ pc'[u] = "idle"
    BY <1>19 DEF Remove, Goto, work
  <2>3. \A u \in Threads : pc[u] = "store" => conn[u] # 0
    BY DEF HandInv
  <2>4. conns \in Nat
    BY BoundsAssumption
  <2>5. \A u \in Threads : conn[u] \in Nat
    BY BoundsAssumption
  <2> HIDE DEF TypeOK, Conns
  <2> QED BY <2>1, <2>2, <2>3, <2>4, <2>5
<1>20. ASSUME NEW t \in Threads, StartRefresh(t) PROVE FreshInv'
  BY <1>20, BoundsAssumption DEF StartRefresh, HandInv, Goto, pool, work, net
<1>21. ASSUME NEW t \in Threads, NEW n \in Names, CloseClient(t, n) PROVE FreshInv'
  <2>1. \A p \in Pools, m \in Names : clients'[p][m] \in {clients[p][m], 0}
    BY <1>21 DEF CloseClient, Drop
  <2>2. /\ conn' = conn /\ conns' = conns
        /\ \A u \in Threads : pc'[u] = pc[u] \/ pc'[u] = "idle"
    BY <1>21 DEF CloseClient, Goto, work
  <2>3. \A u \in Threads : pc[u] = "store" => conn[u] # 0
    BY DEF HandInv
  <2>4. conns \in Nat
    BY BoundsAssumption
  <2>5. \A u \in Threads : conn[u] \in Nat
    BY BoundsAssumption
  <2> HIDE DEF TypeOK, Conns
  <2> QED BY <2>1, <2>2, <2>3, <2>4, <2>5
<1>22. ASSUME NEW t \in Threads, NEW n \in Names, CloseLock(t, n) PROVE FreshInv'
  BY <1>22, BoundsAssumption DEF CloseLock, Goto, pool, work, net
<1>23. ASSUME NEW t \in Threads, Refresh(t) PROVE FreshInv'
  BY <1>23, BoundsAssumption DEF Refresh, Goto, pool, work, net
<1> QED
  BY <1>1, <1>2, <1>3, <1>4, <1>5, <1>6, <1>7, <1>8, <1>9, <1>10, <1>11, <1>12, <1>13, <1>14, <1>15, <1>16, <1>17, <1>18, <1>19, <1>20, <1>21, <1>22, <1>23 DEF Next, Step, Begin
-----------------------------------------------------------------------------
(* The mapping: what a step leaves alone.                                  *)

\* Nobody begins or ends a handshake.
LEMMA MakingSame ==
  ASSUME \A u \in Threads :
           /\ pc'[u] \in {"dial", "store"} <=> pc[u] \in {"dial", "store"}
           /\ pc[u] \in {"dial", "store"} => at'[u] = at[u] /\ name'[u] = name[u]
  PROVE  Making' = Making
<1>1. \A n \in Names : Shaking(Watched, n)' = Shaking(Watched, n)
  BY DEF Shaking
<1> QED BY <1>1 DEF Making

\* Nobody gets, gives back or begins to store a connection.
LEMMA GivenSame ==
  ASSUME \A u \in Threads :
           /\ conn'[u] = conn[u] /\ at'[u] = at[u]
           /\ pc'[u] = "store" <=> pc[u] = "store"
  PROVE  Given' = Given
BY DEF Given

\* Goroutine t goes on, from l to m, and neither is part of a handshake.
LEMMA Silent ==
  ASSUME TypeOK, NEW t \in Threads, NEW m \in Pcs \ {"dial", "store"},
         pc[t] \notin {"dial", "store"}, Goto(t, m),
         UNCHANGED <<at, name, conn, closed>>
  PROVE  Making' = Making /\ Given' = Given
<1>1. \A u \in Threads : pc'[u] = IF u = t THEN m ELSE pc[u]
  BY DEF Goto, TypeOK
<1>2. Making' = Making
  BY <1>1, MakingSame
<1>3. Given' = Given
  BY <1>1, GivenSame
<1> QED BY <1>2, <1>3

\* Goroutine t turns to another host or pool: it has nothing in hand.
LEMMA Turns ==
  ASSUME TypeOK, NEW t \in Threads, NEW m \in Pcs \ {"dial", "store"}, NEW p \in Pools,
         pc[t] \notin {"dial", "store"}, Goto(t, m),
         at' = [at EXCEPT ![t] = p], conn' = [conn EXCEPT ![t] = None],
         \A u \in Threads : u # t => name'[u] = name[u]
  PROVE  Making' = Making /\ Given' = [Given EXCEPT ![t] = None]
<1>1. \A u \in Threads : pc'[u] = IF u = t THEN m ELSE pc[u]
  BY DEF Goto, TypeOK
<1>2. \A u \in Threads : u # t => at'[u] = at[u] /\ conn'[u] = conn[u] /\ name'[u] = name[u]
  OBVIOUS
<1>3. conn'[t] = None
  BY DEF TypeOK
<1>4. Making' = Making
  BY <1>1, <1>2, MakingSame
<1>5. Given' = [Given EXCEPT ![t] = None]
  BY <1>1, <1>2, <1>3 DEF Given, None
<1> QED BY <1>4, <1>5
-----------------------------------------------------------------------------
LEMMA CacheInit == Init => Cache!Init
<1> SUFFICES ASSUME Init PROVE Cache!Init
  OBVIOUS
<1>1. clients[Watched] = [n \in Names |-> None]
  BY WatchedAssumption DEF Init
<1>2. Making = [n \in Names |-> {}]
  BY DEF Init, Making, Shaking
<1>3. Given = [t \in Threads |-> None]
  BY DEF Init, Given
<1>4. (Watched \in closed) = FALSE
  BY DEF Init
<1> QED BY <1>1, <1>2, <1>3, <1>4 DEF Cache!Init
LEMMA CacheStep ==
  ASSUME PoolInv, FreshInv, [Next]_vars
  PROVE  [Cache!Next]_(Cache!vars)
<1> USE DEF PoolInv
<1>u. ASSUME clients' = clients, closed' = closed, Making' = Making, Given' = Given
      PROVE  UNCHANGED Cache!vars
  BY <1>u DEF Cache!vars
<1>1. CASE UNCHANGED vars
  <2>1. Making' = Making /\ Given' = Given
    BY <1>1, MakingSame, GivenSame DEF vars, work
  <2> QED BY <1>1, <2>1, <1>u DEF vars, pool
<1>2. ASSUME NEW t \in Threads, Miss(t) \/ GetHostLock(t) \/ Acquire(t) \/ SetHost(t)
                                \/ Done(t) \/ RedialFail(t) \/ RemoveLock(t)
      PROVE  UNCHANGED Cache!vars
  <2>1. Making' = Making /\ Given' = Given
    BY <1>2, Silent DEF Miss, GetHostLock, Acquire, SetHost, Done, RedialFail, RemoveLock,
                        Goto, pool, Pcs
  <2> QED BY <1>2, <2>1, <1>u
          DEF Miss, GetHostLock, Acquire, SetHost, Done, RedialFail, RemoveLock, pool
<1>3. ASSUME NEW t \in Threads, Reset(t) \/ Reconnect(t) \/ RedialOk(t) \/ Refresh(t)
      PROVE  UNCHANGED Cache!vars
  <2>1. Making' = Making /\ Given' = Given
    BY <1>3, Silent DEF Reset, Reconnect, RedialOk, Refresh, Goto, pool, Pcs
  <2> QED BY <1>3, <2>1, <1>u DEF Reset, Reconnect, RedialOk, Refresh, pool
<1>4. ASSUME NEW t \in Threads, NEW n \in Names, CloseLock(t, n)
      PROVE  UNCHANGED Cache!vars
  <2>1. Making' = Making /\ Given' = Given
    BY <1>4, MakingSame, GivenSame DEF CloseLock, work
  <2> QED BY <1>4, <2>1, <1>u DEF CloseLock
<1>5. ASSUME NEW t \in Threads, DialOk(t)
      PROVE  UNCHANGED Cache!vars
  <2>1. pc[t] = "dial" /\ conn[t] = None
    BY <1>5 DEF DialOk, FreshInv
  <2>2. \A u \in Threads : pc'[u] = IF u = t THEN "store" ELSE pc[u]
    BY <1>5 DEF DialOk, Goto, TypeOK
  <2>3. Making' = Making
    BY <1>5, <2>1, <2>2, MakingSame DEF DialOk
  <2>4. Given' = Given
    <3>1. \A u \in Threads : u # t => conn'[u] = conn[u]
      BY <1>5 DEF DialOk
    <3>2. at' = at
      BY <1>5 DEF DialOk
    <3> QED BY <2>1, <2>2, <3>1, <3>2 DEF Given
  <2> QED BY <1>5, <2>3, <2>4, <1>u DEF DialOk, pool
<1>6. ASSUME NEW t \in Threads, NEW n \in Names, Ask(t, n) \/ StartRemove(t, n)
      PROVE  Cache!Forget(t)
  <2>1. Making' = Making /\ Given' = [Given EXCEPT ![t] = None]
    BY <1>6, Turns DEF Ask, StartRemove, Goto, Pcs, TypeOK
  <2> QED BY <1>6, <2>1 DEF Ask, StartRemove, pool, Cache!Forget
<1>7. ASSUME NEW t \in Threads, Hit(t)
      PROVE  UNCHANGED Cache!vars \/ Cache!Give(t, name[t])
  <2>1. pc[t] \in {"look", "check"}
    BY <1>7 DEF Hit
  <2>2. \A u \in Threads : pc'[u] = IF u = t THEN "setHost" ELSE pc[u]
    BY <1>7 DEF Hit, Goto, TypeOK
  <2>3. Making' = Making
    BY <1>7, <2>1, <2>2, MakingSame DEF Hit
  <2>4. \A u \in Threads : u # t => conn'[u] = conn[u]
    BY <1>7 DEF Hit
  <2>5. conn'[t] = clients[at[t]][name[t]] /\ at' = at /\ Cached(t) # None
    BY <1>7 DEF Hit, Cached, TypeOK
  <2>6. CASE at[t] # Watched
    <3>1. Given' = Given
      BY <2>2, <2>4, <2>5, <2>6 DEF Given
    <3> QED BY <1>7, <2>3, <3>1, <1>u DEF Hit, pool
  <2>7. CASE at[t] = Watched
    <3>1. Given' = [Given EXCEPT ![t] = clients[Watched][name[t]]]
      BY <2>1, <2>2, <2>4, <2>5, <2>7 DEF Given
    <3> QED BY <1>7, <2>3, <2>5, <2>7, <3>1 DEF Hit, pool, Cached, Cache!Give
  <2> QED BY <2>6, <2>7
<1>8. ASSUME NEW t \in Threads, StartDial(t)
      PROVE  UNCHANGED Cache!vars \/ Cache!Make(t, name[t])
  <2>1. pc[t] = "check" /\ Cached(t) = None /\ UNCHANGED <<at, name, conn>>
    BY <1>8 DEF StartDial, MissInside
  <2>2. \A u \in Threads : pc'[u] = IF u = t THEN "dial" ELSE pc[u]
    BY <1>8 DEF StartDial, Goto, TypeOK
  <2>3. Given' = Given
    BY <2>1, <2>2, GivenSame
  <2>4. CASE at[t] # Watched
    <3>1. \A n \in Names : Shaking(Watched, n)' = Shaking(Watched, n)
      BY <2>1, <2>2, <2>4 DEF Shaking
    <3>2. Making' = Making
      BY <3>1 DEF Making
    <3> QED BY <1>8, <2>3, <3>2, <1>u DEF StartDial, pool
  <2>5. CASE at[t] = Watched
    <3>1. \A n \in Names : Shaking(Watched, n)' =
            IF n = name[t] THEN Shaking(Watched, n) \union {t} ELSE Shaking(Watched, n)
      BY <2>1, <2>2, <2>5 DEF Shaking
    <3>2. Making' = [Making EXCEPT ![name[t]] = @ \union {t}]
      BY <3>1 DEF Making
    <3>3. Watched \notin closed => Making[name[t]] = {}
      <4> SUFFICES ASSUME Watched \notin closed, NEW u \in Shaking(Watched, name[t])
                   PROVE  FALSE
        BY DEF Making, TypeOK
      <4>1. u \in Threads /\ pc[u] \in {"dial", "store"} /\ at[u] = at[t] /\ name[u] = name[t]
        BY <2>5 DEF Shaking
      <4>2. lock[u] = 1 /\ lock[t] = 1
        BY <2>1, <2>5, <4>1 DEF LockInv
      <4> QED BY <2>1, <4>1, <4>2 DEF LockInv, Inside, HostLock
    <3> QED BY <1>8, <2>1, <2>3, <2>5, <3>2, <3>3 DEF StartDial, pool, Cached, Cache!Make
  <2> QED BY <2>4, <2>5
<1>9. ASSUME NEW t \in Threads, DialFail(t) \/ Store(t)
      PROVE  IF at[t] = Watched
             THEN Making' = [Making EXCEPT ![name[t]] = @ \ {t}] /\ t \in Making[name[t]]
             ELSE Making' = Making
  <2>1. pc[t] \in {"dial", "store"} /\ UNCHANGED <<at, name>>
    BY <1>9 DEF DialFail, Store
  <2>2. \A u \in Threads : IF u = t THEN pc'[u] \notin {"dial", "store"} ELSE pc'[u] = pc[u]
    BY <1>9 DEF DialFail, Store, Goto, TypeOK
  <2>3. \A n \in Names : Shaking(Watched, n)' =
          IF at[t] = Watched /\ n = name[t] THEN Shaking(Watched, n) \ {t}
                                            ELSE Shaking(Watched, n)
    BY <2>1, <2>2 DEF Shaking
  <2>4. CASE at[t] = Watched
    <3>1. Making' = [Making EXCEPT ![name[t]] = @ \ {t}]
      BY <2>3, <2>4 DEF Making
    <3>2. t \in Making[name[t]]
      BY <2>1, <2>4 DEF Making, Shaking, TypeOK
    <3> QED BY <2>4, <3>1, <3>2
  <2>5. CASE at[t] # Watched
    BY <2>3, <2>5 DEF Making
  <2> QED BY <2>4, <2>5
<1>10. ASSUME NEW t \in Threads, DialFail(t)
       PROVE  UNCHANGED Cache!vars \/ Cache!Fail(t, name[t])
  <2>1. Given' = Given
    <3>1. \A u \in Threads : pc'[u] = "store" <=> pc[u] = "store"
      BY <1>10 DEF DialFail, Goto, TypeOK
    <3> QED BY <1>10, <3>1, GivenSame DEF DialFail
  <2> QED BY <1>9, <1>10, <2>1, <1>u DEF DialFail, pool, Cache!Fail
<1>11. ASSUME NEW t \in Threads, Store(t)
       PROVE  UNCHANGED Cache!vars \/ \E c \in Conns : Cache!Made(t, name[t], c)
  <2>1. /\ pc[t] = "store" /\ UNCHANGED <<at, name, conn, closed>>
        /\ clients' = [clients EXCEPT ![at[t]][name[t]] = conn[t]]
    BY <1>11 DEF Store
  <2>2. \A u \in Threads : pc'[u] = IF u = t THEN "using" ELSE pc[u]
    BY <1>11 DEF Store, Goto, TypeOK
  <2>3. CASE at[t] # Watched
    <3>1. Given' = Given
      BY <2>1, <2>2, <2>3 DEF Given
    <3>2. clients'[Watched] = clients[Watched]
      BY <2>1, <2>3, WatchedAssumption DEF TypeOK
    <3> QED BY <1>9, <1>11, <2>1, <2>3, <3>1, <3>2 DEF Cache!vars
  <2>4. CASE at[t] = Watched
    <3>1. Given' = [Given EXCEPT ![t] = conn[t]]
      BY <2>1, <2>2, <2>4 DEF Given
    <3>2. clients'[Watched] = [clients[Watched] EXCEPT ![name[t]] = conn[t]]
      BY <2>1, <2>4, WatchedAssumption DEF TypeOK
    <3>3. Watched \in closed \/ clients[Watched][name[t]] = None
      BY <2>1, <2>4 DEF UncachedInv, Cached
    <3>4. conn[t] \in Conns
      BY <2>1 DEF HandInv, TypeOK, None
    <3>5. \A m \in Names : clients[Watched][m] # conn[t]
      BY <2>1, WatchedAssumption DEF FreshInv
    <3>6. \A u \in Threads : Given[u] # conn[t]
      BY <2>1 DEF Given, FreshInv, HandInv
    <3>7. Cache!Made(t, name[t], conn[t])
      BY <1>9, <1>11, <2>1, <2>4, <3>1, <3>2, <3>3, <3>5, <3>6 DEF Cache!Made
    <3> QED BY <3>4, <3>7
  <2> QED BY <2>3, <2>4
<1>12. ASSUME NEW p \in Pools, NEW n \in Names, Drop(p, n), closed' = closed,
              Making' = Making, Given' = Given
       PROVE  UNCHANGED Cache!vars \/ Cache!Drop(n)
  <2>1. clients' = [clients EXCEPT ![p][n] = None]
    BY <1>12 DEF Drop
  <2>2. clients'[Watched] = IF p = Watched THEN [clients[Watched] EXCEPT ![n] = None]
                                           ELSE clients[Watched]
    BY <2>1, WatchedAssumption DEF TypeOK
  <2> QED BY <1>12, <2>2 DEF Cache!vars, Cache!Drop
<1>13. ASSUME NEW t \in Threads, Remove(t)
       PROVE  UNCHANGED Cache!vars \/ Cache!Drop(name[t])
  <2>1. Making' = Making /\ Given' = Given
    BY <1>13, Silent DEF Remove, Goto, Pcs
  <2> QED BY <1>12, <1>13, <2>1 DEF Remove, TypeOK
<1>14. ASSUME NEW t \in Threads, NEW n \in Names, CloseClient(t, n)
       PROVE  UNCHANGED Cache!vars \/ Cache!Drop(n)
  <2>1. Making' = Making /\ Given' = Given
    BY <1>14, MakingSame, GivenSame DEF CloseClient, work
  <2> QED BY <1>12, <1>14, <2>1 DEF CloseClient, TypeOK
<1>15. ASSUME NEW t \in Threads, StartRefresh(t)
       PROVE  Cache!Close(t) \/ Cache!Forget(t)
  <2>1. cur \notin closed
    BY <1>15 DEF StartRefresh, ClosingInv
  <2>2. Making' = Making /\ Given' = [Given EXCEPT ![t] = None]
    BY <1>15, Turns DEF StartRefresh, Goto, Pcs, TypeOK
  <2>3. clients' = clients /\ closed' = closed \union {cur}
    BY <1>15 DEF StartRefresh
  <2>4. CASE cur = Watched
    BY <2>1, <2>2, <2>3, <2>4 DEF Cache!Close
  <2>5. CASE cur # Watched
    <3>1. (Watched \in closed') <=> (Watched \in closed)
      BY <2>3, <2>5
    <3> QED BY <2>2, <2>3, <3>1 DEF Cache!Forget
  <2> QED BY <2>4, <2>5
<1>16. ASSUME NEW t \in Threads, Step(t) \/ Begin(t)
       PROVE  Cache!Next \/ UNCHANGED Cache!vars
  <2>1. name[t] \in Names
    BY DEF TypeOK
  <2> QED BY <1>16, <2>1, <1>2, <1>3, <1>4, <1>5, <1>6, <1>7, <1>8, <1>10, <1>11, <1>13,
             <1>14, <1>15 DEF Step, Begin, Cache!Next
<1> QED BY <1>1, <1>16, <1>u DEF Next

\* ConnectionPool with its host locks, its double check and its replacement
\* does, for any one pool, what ConnectionCache promises.
THEOREM PoolImplementsCache == Spec => PoolIsCache
<1>1. Init => PoolInv /\ FreshInv /\ Cache!Init
  BY PoolInit, FreshInit, CacheInit
<1>2. PoolInv /\ FreshInv /\ [Next]_vars => PoolInv' /\ FreshInv' /\ [Cache!Next]_(Cache!vars)
  BY PoolStep, FreshStep, CacheStep DEF PoolInv
<1> QED BY <1>1, <1>2, PTL DEF Spec, PoolIsCache, Cache!Spec
=============================================================================
