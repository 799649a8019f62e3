--------------------------- MODULE ConnectionPool ---------------------------
(***************************************************************************)
(* The connections of the executor: ConnectionPool.Get, Remove and Close,  *)
(* called by goroutines that execute tasks (getOrCreateClientWithErr), by  *)
(* meta: reset_connection and by meta: refresh_inventory, which closes the *)
(* pool and puts a new one into e.pool.  Goroutines that do so at the same *)
(* time are those of the free strategy, of blocks that hold meta tasks, of *)
(* async jobs and of tasks that timed out.                                 *)
(*                                                                         *)
(* Executor.Close, the end of the process, is left out: it is a Close      *)
(* after which no new pool is made.                                        *)
(*                                                                         *)
(* A connection is an SSH client: it can be closed and reconnected by a    *)
(* goroutine that uses it (newSession), with its c.mu held over the        *)
(* handshake; the client itself is modelled in SshClient.                  *)
(***************************************************************************)
EXTENDS Integers, FiniteSets

CONSTANTS
  Threads,   \* the goroutines
  Names,     \* the names of the hosts
  NPools,    \* bound: the pools are 1..NPools, one more per refresh_inventory
  MaxConns,  \* bound: the connections ever made are 1..MaxConns
  Watched    \* the pool PoolIsCache is about

Pools == 1..NPools

ASSUME BoundsAssumption == NPools \in Nat \ {0} /\ MaxConns \in Nat
ASSUME WatchedAssumption == Watched \in Pools

Conns == 1..MaxConns
None  == 0               \* no connection; no lock

VARIABLES
  cur,      \* e.pool
  clients,  \* clients[p][n]: the connection of host n in pool p
  gen,      \* gen[p][n]: which mutex hostLocks holds for n, counted by deletions
  held,     \* the host locks that are locked: {<<pool, name, gen>>}
  closed,   \* the pools Close was called on
  left,     \* host locks Close has still to delete
  pc,       \* where each goroutine is
  at,       \* the pool it works on (p)
  name,     \* the host it works for
  lock,     \* the host lock it got from getHostLock, None if it has none
  conn,     \* the connection it has in hand
  conns,    \* number of connections made so far
  open,     \* the connections that are connected
  orphans   \* history: connections that were dropped while somebody had them

work == <<pc, at, name, lock, conn>>
net  == <<conns, open, orphans>>
pool == <<cur, clients, gen, closed, left>>
vars == <<pool, held, work, net>>

HostLock(t) == <<at[t], name[t], lock[t]>>

\* p.mu: held over a step only by Remove and Close; c.mu by a reconnect.
MuFree(p)  == \A u \in Threads : ~(pc[u] \in {"removing", "closing"} /\ at[u] = p)
CMuFree(c) == \A u \in Threads : ~(pc[u] = "redial" /\ conn[u] = c)

\* the goroutines that have c in hand
Holders(c) ==
  {t \in Threads : conn[t] = c /\ pc[t] \in {"store", "setHost", "using", "reset", "redial"}}

Init ==
  /\ cur = 1 /\ clients = [p \in Pools |-> [n \in Names |-> None]]
  /\ gen = [p \in Pools |-> [n \in Names |-> 1]]
  /\ held = {} /\ closed = {} /\ left = {}
  /\ pc = [t \in Threads |-> "idle"] /\ at = [t \in Threads |-> 1]
  /\ name \in [Threads -> Names]
  /\ lock = [t \in Threads |-> None] /\ conn = [t \in Threads |-> None]
  /\ conns = 0 /\ open = {} /\ orphans = {}

Goto(t, l) == pc' = [pc EXCEPT ![t] = l]
-----------------------------------------------------------------------------
(* Get                                                                     *)

\* getOrCreateClientWithErr reads e.pool, without e.mu, and calls its Get.
Ask(t, n) ==
  /\ pc[t] = "idle"
  /\ Goto(t, "look")
  /\ at' = [at EXCEPT ![t] = cur] /\ name' = [name EXCEPT ![t] = n]
  /\ conn' = [conn EXCEPT ![t] = None]
  /\ UNCHANGED <<pool, held, lock, net>>

Cached(t) == clients[at[t]][name[t]]

\* the fast path, and the double check with the host's lock held
Hit(t) ==
  /\ pc[t] \in {"look", "check"} /\ MuFree(at[t]) /\ Cached(t) # None
  /\ conn' = [conn EXCEPT ![t] = Cached(t)]
  /\ Goto(t, "setHost")
  /\ UNCHANGED <<pool, held, at, name, lock, net>>

Miss(t) ==
  /\ pc[t] = "look" /\ MuFree(at[t]) /\ Cached(t) = None
  /\ Goto(t, "hostLock")
  /\ UNCHANGED <<pool, held, at, name, lock, conn, net>>

\* getHostLock: LoadOrStore, without p.mu
GetHostLock(t) ==
  /\ pc[t] = "hostLock"
  /\ lock' = [lock EXCEPT ![t] = gen[at[t]][name[t]]]
  /\ Goto(t, "wait")
  /\ UNCHANGED <<pool, held, at, name, conn, net>>

\* Mutant: the lock of the host is not waited for.
LockFreeAlways(t) == TRUE

LockFree(t) == HostLock(t) \notin held

Acquire(t) ==
  /\ pc[t] = "wait" /\ LockFree(t)
  /\ held' = held \union {HostLock(t)}
  /\ Goto(t, "check")
  /\ UNCHANGED <<pool, at, name, lock, conn, net>>

\* Mutant: the lock of the host is not given back.
UnlockNever(t) == UNCHANGED held /\ lock' = [lock EXCEPT ![t] = None]

MissInside(t) == Cached(t) = None

\* defer hMu.Unlock()
Unlock(t) ==
  /\ held' = IF lock[t] = None THEN held ELSE held \ {HostLock(t)}
  /\ lock' = [lock EXCEPT ![t] = None]

StartDial(t) ==
  /\ pc[t] = "check" /\ MuFree(at[t]) /\ MissInside(t)
  /\ Goto(t, "dial")
  /\ UNCHANGED <<pool, held, at, name, lock, conn, net>>

\* NewConnection or Connect returns an error
DialFail(t) ==
  /\ pc[t] = "dial"
  /\ Goto(t, "idle") /\ Unlock(t)
  /\ UNCHANGED <<pool, at, name, conn, net>>

DialOk(t) ==
  /\ pc[t] = "dial" /\ conns < MaxConns
  /\ conns' = conns + 1
  /\ open' = open \union {conns'}
  /\ conn' = [conn EXCEPT ![t] = conns']
  /\ orphans' = IF at[t] \in closed THEN orphans \union {conns'} ELSE orphans
  /\ Goto(t, "store")
  /\ UNCHANGED <<pool, held, at, name, lock>>

Store(t) ==
  /\ pc[t] = "store" /\ MuFree(at[t])
  /\ clients' = [clients EXCEPT ![at[t]][name[t]] = conn[t]]
  /\ Goto(t, "using") /\ Unlock(t)
  /\ UNCHANGED <<cur, gen, closed, left, at, name, conn, net>>

\* a connection found is told the host's attributes, under c.mu
SetHost(t) ==
  /\ pc[t] = "setHost" /\ CMuFree(conn[t])
  /\ Goto(t, "using") /\ Unlock(t)
  /\ UNCHANGED <<pool, at, name, conn, net>>
-----------------------------------------------------------------------------
(* A goroutine that uses a connection                                      *)

Done(t) ==
  /\ pc[t] = "using"
  /\ Goto(t, "idle")
  /\ UNCHANGED <<pool, held, at, name, lock, conn, net>>

\* newSession got no session: it drops the network connection, under c.mu,
Reset(t) ==
  /\ pc[t] = "using" /\ CMuFree(conn[t])
  /\ open' = open \ {conn[t]}
  /\ Goto(t, "reset")
  /\ UNCHANGED <<pool, held, at, name, lock, conn, conns, orphans>>

\* and connects again, unless another goroutine has done so meanwhile.
Reconnect(t) ==
  /\ pc[t] = "reset" /\ CMuFree(conn[t])
  /\ Goto(t, IF conn[t] \in open THEN "using" ELSE "redial")
  /\ UNCHANGED <<pool, held, at, name, lock, conn, net>>

RedialOk(t) ==
  /\ pc[t] = "redial"
  /\ open' = open \union {conn[t]}
  /\ Goto(t, "using")
  /\ UNCHANGED <<pool, held, at, name, lock, conn, conns, orphans>>

RedialFail(t) ==
  /\ pc[t] = "redial"
  /\ Goto(t, "idle")
  /\ UNCHANGED <<pool, held, at, name, lock, conn, net>>
-----------------------------------------------------------------------------
(* Remove and Close                                                        *)

\* meta: reset_connection reads e.pool and calls its Remove.
StartRemove(t, n) ==
  /\ pc[t] = "idle"
  /\ Goto(t, "remove")
  /\ at' = [at EXCEPT ![t] = cur] /\ name' = [name EXCEPT ![t] = n]
  /\ conn' = [conn EXCEPT ![t] = None]
  /\ UNCHANGED <<pool, held, lock, net>>

\* p.mu is held from here until the connection is closed
RemoveLock(t) ==
  /\ pc[t] = "remove" /\ MuFree(at[t])
  /\ Goto(t, IF Cached(t) = None THEN "idle" ELSE "removing")
  /\ UNCHANGED <<pool, held, at, name, lock, conn, net>>

\* Mutant: the entry is deleted, the connection is not closed.
DropOpen(p, n) ==
  /\ clients[p][n] # None /\ CMuFree(clients[p][n])
  /\ clients' = [clients EXCEPT ![p][n] = None]
  /\ UNCHANGED <<open, orphans>>

\* conn.Close takes c.mu; the entry of the pool goes with the connection.
Drop(p, n) ==
  LET c == clients[p][n]
  IN /\ c # None /\ CMuFree(c)
     /\ open' = open \ {c}
     /\ clients' = [clients EXCEPT ![p][n] = None]
     /\ orphans' = IF Holders(c) # {} THEN orphans \union {c} ELSE orphans

Remove(t) ==
  /\ pc[t] = "removing"
  /\ Drop(at[t], name[t])
  /\ Goto(t, "idle")
  /\ UNCHANGED <<cur, gen, closed, left, held, at, name, lock, conn, conns>>

\* meta: refresh_inventory takes e.mu, and Close takes p.mu.
StartRefresh(t) ==
  /\ pc[t] = "idle" /\ cur < NPools
  /\ \A u \in Threads : pc[u] # "closing"
  /\ MuFree(cur)
  /\ Goto(t, "closing")
  /\ at' = [at EXCEPT ![t] = cur] /\ conn' = [conn EXCEPT ![t] = None]
  /\ closed' = closed \union {cur} /\ left' = Names
  /\ orphans' = orphans \union
       {conn[u] : u \in {v \in Threads : pc[v] = "store" /\ at[v] = cur}}
  /\ UNCHANGED <<cur, clients, gen, held, name, lock, conns, open>>

CloseClient(t, n) ==
  /\ pc[t] = "closing" /\ left = Names
  /\ Drop(at[t], n)
  /\ UNCHANGED <<cur, gen, closed, left, held, work, conns>>

\* hostLocks.Range deletes one lock after the other; getHostLock does not wait
CloseLock(t, n) ==
  /\ pc[t] = "closing" /\ n \in left
  /\ \A m \in Names : clients[at[t]][m] = None
  /\ gen' = [gen EXCEPT ![at[t]][n] = @ + 1]
  /\ left' = left \ {n}
  /\ UNCHANGED <<cur, clients, closed, held, work, net>>

\* e.pool = ssh.NewConnectionPool(e.sshConfig)
Refresh(t) ==
  /\ pc[t] = "closing" /\ left = {}
  /\ cur' = cur + 1
  /\ Goto(t, "idle")
  /\ UNCHANGED <<clients, gen, closed, left, held, at, name, lock, conn, net>>
-----------------------------------------------------------------------------
\* what a goroutine does once it has begun
Step(t) ==
  \/ Hit(t) \/ Miss(t) \/ GetHostLock(t) \/ Acquire(t)
  \/ StartDial(t) \/ DialFail(t) \/ DialOk(t) \/ Store(t) \/ SetHost(t)
  \/ Reconnect(t) \/ RedialOk(t) \/ RedialFail(t)
  \/ RemoveLock(t) \/ Remove(t)
  \/ \E n \in Names : CloseClient(t, n) \/ CloseLock(t, n)
  \/ Refresh(t)

Begin(t) ==
  \/ \E n \in Names : Ask(t, n) \/ StartRemove(t, n)
  \/ StartRefresh(t) \/ Done(t) \/ Reset(t)

Next == \E t \in Threads : Step(t) \/ Begin(t)

Spec == Init /\ [][Next]_vars

\* A goroutine runs on, and a mutex it waits for while others come and go is
\* handed to it in the end (sync.Mutex and RWMutex do not starve a waiter);
\* a handshake ends, with success or with the client's timeout.
FairSpec == Spec /\ \A t \in Threads : SF_vars(Step(t))
-----------------------------------------------------------------------------
Pcs == {"idle", "look", "hostLock", "wait", "check", "dial", "store", "setHost",
        "using", "reset", "redial", "remove", "removing", "closing"}

TypeOK ==
  /\ cur \in Pools /\ clients \in [Pools -> [Names -> Conns \union {None}]]
  /\ gen \in [Pools -> [Names -> {1, 2}]]
  /\ held \subseteq Pools \X Names \X {1, 2}
  /\ closed \subseteq Pools /\ left \subseteq Names
  /\ pc \in [Threads -> Pcs] /\ at \in [Threads -> Pools]
  /\ name \in [Threads -> Names] /\ lock \in [Threads -> {None, 1, 2}]
  /\ conn \in [Threads -> Conns \union {None}]
  /\ conns \in Conns \union {None} /\ open \subseteq Conns /\ orphans \subseteq Conns

Shaking(p, n) ==
  {t \in Threads : pc[t] \in {"dial", "store"} /\ at[t] = p /\ name[t] = n}

\* Until a pool is closed, at most one goroutine is shaking hands with a host,
\* and only while the pool has no connection to it.
OneHandshake ==
  \A p \in Pools \ closed, n \in Names :
    \A t, u \in Shaking(p, n) : t = u /\ clients[p][n] = None

\* No connection is leaked: what is connected is in the pool in use or about to
\* be stored there, so that the next Close reaches it; the only exceptions are
\* connections some goroutine had in hand, or was making, when a Remove or a
\* Close dropped them.
NoneLeaked ==
  \A c \in open \ orphans :
    \/ \E n \in Names : clients[cur][n] = c
    \/ \E t \in Threads : pc[t] = "store" /\ at[t] = cur /\ conn[t] = c

\* The watched pool as a ConnectionCache: what a goroutine has in hand counts as
\* given to it once Get has returned it, not while it is still to be stored.
Making == [n \in Names |-> Shaking(Watched, n)]
Given  == [t \in Threads |-> IF at[t] = Watched /\ pc[t] # "store" THEN conn[t] ELSE None]

Cache == INSTANCE ConnectionCache WITH
  cached <- clients[Watched], making <- Making, given <- Given, closed <- Watched \in closed

\* Any one pool, before, while and after it is the executor's, does what
\* ConnectionCache promises.
PoolIsCache == Cache!Spec

\* Every Get returns, with a connection or an error, whoever removes, closes or
\* reconnects at the same time.
GetReturns ==
  \A t \in Threads :
    pc[t] \in {"look", "hostLock", "wait", "check", "dial", "store", "setHost"}
      ~> pc[t] \in {"using", "idle"}
=============================================================================
