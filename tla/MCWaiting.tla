------------------------------ MODULE MCWaiting ------------------------------
(* Instances of Waiting: every module, with waits longer and shorter than   *)
(* the limit of a command, and delays longer than the wait.                 *)
EXTENDS Waiting

Waits(modules, delays, timeouts) ==
  {[module |-> m, present |-> p, delay |-> d, timeout |-> t, polls |-> 0] :
     m \in modules, p \in BOOLEAN, d \in delays, t \in timeouts}

MCAsks ==
  Waits({"wait_for"}, 0..2, 1..3)
    \union {a \in Waits({"wait_for_connection", "reboot", "pause"}, 0..2, 1..2) : a.present}
    \union {[module |-> "async", present |-> TRUE, delay |-> 0, timeout |-> 0, polls |-> n] : n \in 1..3}
=============================================================================
