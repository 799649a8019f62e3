---------------------------- MODULE MCLinearPlay ----------------------------
(***************************************************************************)
(* Plays for model checking LinearPlay.                                    *)
(***************************************************************************)
EXTENDS LinearPlay

\* a play of one list of two tasks, without handlers or failure controls
Plain ==
  [forks |-> 2, throttles |-> {0}, serial |-> <<NHosts>>,
   len |-> <<0, 2, 0>>, aef |-> FALSE, pct |-> 0, force |-> FALSE,
   step |-> FALSE, delegate |-> FALSE, looped |-> {},
   chain |-> [hd \in Handlers |-> {}]]

\* three hosts and two forks: goroutines that wait for a token, throttled tasks
Forked == [Plain EXCEPT !.throttles = {0, 1, 3}]

ForksPlays ==
  {Forked, [Forked EXCEPT !.aef = TRUE], [Forked EXCEPT !.step = TRUE],
   [Forked EXCEPT !.delegate = TRUE]}

\* batches of one and two hosts, a repeated last size, the failure controls
SerialPlays ==
  {[Plain EXCEPT !.serial = s, !.aef = a, !.pct = p, !.len = <<1, 1, 0>>] :
     s \in {<<1>>, <<2>>, <<1, 2>>}, a \in BOOLEAN, p \in {0, 40}}

BatchPlays == ForksPlays \union SerialPlays

\* a list with handlers that notify each other in a circle, run inline
Circle ==
  [Plain EXCEPT !.len = <<1, 0, 0>>, !.throttles = {1},
                !.chain = [hd \in Handlers |-> {(hd % NHandlers) + 1}]]

\* forced, looped or delegated; two lists; a task that runs in goroutines
HandlerPlays ==
  {[Circle EXCEPT !.force = f, !.looped = l] : f \in BOOLEAN, l \in {{}, {1}}}
    \union
  {[Circle EXCEPT !.delegate = TRUE], [Circle EXCEPT !.len[2] = 1],
   [Circle EXCEPT !.throttles = {0}]}
=============================================================================
