---------------------------- MODULE MCFreePlay ----------------------------
(* Two hosts, two handlers that notify each other, small lists of tasks. *)
EXTENDS FreePlay

Mod(N)    == [kind |-> "module", notify |-> N, once |-> 0, timed |-> FALSE]
Timed(N)  == [Mod(N) EXCEPT !.timed = TRUE]
Once(k)   == [Mod({}) EXCEPT !.once = k]
Meta(m)   == [Mod({}) EXCEPT !.kind = m]

Simple(l)      == [block |-> <<l>>, rescue |-> <<>>, always |-> <<>>, throttle |-> 0]
Block(b, r, a) == [block |-> b, rescue |-> r, always |-> a, throttle |-> 0]
Throttle(e, n) == [e EXCEPT !.throttle = n]

Circle == <<{2}, {1}>>         \* two handlers that notify each other
NoChain == <<{}, {}>>
Base   == [forks |-> 2, tasks |-> <<>>, aef |-> FALSE, force |-> FALSE, step |-> FALSE,
           debugger |-> FALSE, chain |-> NoChain]

FlushInBlock == <<Block(<<Mod({1}), Meta("flush")>>, <<Mod({})>>, <<>>), Simple(Mod({}))>>
OnceAndEnd   == <<Throttle(Simple(Once(1)), 1), Simple(Once(1)), Simple(Meta("endHost")),
                  Simple(Mod({}))>>
EndsPlay     == <<Simple(Mod({1})), Simple(Meta("endPlay")), Simple(Mod({}))>>
Slow         == <<Throttle(Block(<<Timed({1})>>, <<Mod({})>>, <<Mod({}), Mod({})>>), 1)>>

FreePlays ==
  {[Base EXCEPT !.tasks = FlushInBlock, !.force = f] : f \in BOOLEAN}
  \union {[Base EXCEPT !.tasks = OnceAndEnd, !.step = TRUE]}
  \union {[Base EXCEPT !.tasks = EndsPlay, !.aef = TRUE, !.chain = Circle, !.force = f] :
            f \in BOOLEAN}
  \union {[Base EXCEPT !.tasks = Slow, !.aef = TRUE],
          [Base EXCEPT !.tasks = Slow, !.debugger = TRUE, !.forks = 1]}
=============================================================================
