--------------------------- MODULE ConnectionCache --------------------------
(***************************************************************************)
(* What a ConnectionPool promises to those who call it, without its locks: *)
(* as long as it is not closed, one goroutine at a time makes a connection *)
(* to a host, only when there is none, and a connection that a call of Get *)
(* returns is, at that moment, the one the pool has for the host.          *)
(***************************************************************************)
CONSTANTS Threads, Names, Conns, None

VARIABLES
  cached,   \* the connection to each host
  making,   \* the goroutines that make a connection to a host
  given,    \* the connection each goroutine was given last
  closed    \* Close was called

vars == <<cached, making, given, closed>>

Init ==
  /\ cached = [n \in Names |-> None] /\ making = [n \in Names |-> {}]
  /\ given = [t \in Threads |-> None] /\ closed = FALSE

Make(t, n) ==
  /\ closed \/ (making[n] = {} /\ cached[n] = None)
  /\ making' = [making EXCEPT ![n] = @ \union {t}]
  /\ UNCHANGED <<cached, given, closed>>

\* the connection made is a new one, and replaces no other
Made(t, n, c) ==
  /\ t \in making[n] /\ (closed \/ cached[n] = None)
  /\ \A m \in Names : cached[m] # c
  /\ \A u \in Threads : given[u] # c
  /\ cached' = [cached EXCEPT ![n] = c] /\ given' = [given EXCEPT ![t] = c]
  /\ making' = [making EXCEPT ![n] = @ \ {t}]
  /\ UNCHANGED closed

Fail(t, n) ==
  /\ t \in making[n]
  /\ making' = [making EXCEPT ![n] = @ \ {t}]
  /\ UNCHANGED <<cached, given, closed>>

Give(t, n) ==
  /\ cached[n] # None
  /\ given' = [given EXCEPT ![t] = cached[n]]
  /\ UNCHANGED <<cached, making, closed>>

\* the goroutine asks again, here or in another pool
Forget(t) ==
  /\ given' = [given EXCEPT ![t] = None]
  /\ UNCHANGED <<cached, making, closed>>

Drop(n) ==
  /\ cached' = [cached EXCEPT ![n] = None]
  /\ UNCHANGED <<making, given, closed>>

\* the goroutine that closes forgets what it was given
Close(t) ==
  /\ ~closed /\ closed' = TRUE
  /\ given' = [given EXCEPT ![t] = None]
  /\ UNCHANGED <<cached, making>>

Next ==
  \/ \E t \in Threads : Forget(t) \/ Close(t)
  \/ \E n \in Names : Drop(n)
  \/ \E t \in Threads, n \in Names :
       \/ Make(t, n) \/ Fail(t, n) \/ Give(t, n)
       \/ \E c \in Conns : Made(t, n, c)

Spec == Init /\ [][Next]_vars
=============================================================================
