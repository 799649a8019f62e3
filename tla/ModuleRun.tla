----------------------------- MODULE ModuleRun -----------------------------
(***************************************************************************)
(* What one run of a module of pkg/module does to the managed host.  A run *)
(* is the trail of the commands that change the host, in the order of the  *)
(* code, each with the state it leaves and whether the code returns its    *)
(* error (loud) or drops it (quiet); whether the task fails; and, for      *)
(* every n, what the task reports as changed when the connection is lost   *)
(* after n commands.  The reads before the first command change nothing    *)
(* and stand in no trail.  What a run that fails says of changes is left   *)
(* out.                                                                    *)
(***************************************************************************)
EXTENDS Naturals, SequencesExt

Loud(h)  == [host |-> h, loud |-> TRUE]
Quiet(h) == [host |-> h, loud |-> FALSE]

Ran(trail, changed, failed) ==
    [trail |-> trail, failed |-> failed, changed |-> [n \in 0..Len(trail) |-> changed]]

Changes(trail)  == Ran(trail, TRUE, FALSE)
Reports(change) == Ran(<<>>, change, FALSE)
Unchanged       == Reports(FALSE)
Refused         == Ran(<<>>, FALSE, TRUE)

(* Every command of a run whose results the code drops. *)
Hushed(trail) == [i \in DOMAIN trail |-> Quiet(trail[i].host)]

(* Several commands whose errors the code returns, given the states they leave. *)
Said(hosts) == [i \in DOMAIN hosts |-> Loud(hosts[i])]

(* A run that begins with other commands. *)
After(prefix, run) ==
    [trail |-> prefix \o run.trail, failed |-> run.failed,
     changed |-> [n \in 0..(Len(prefix) + Len(run.trail)) |-> run.changed[0]]]

(* The host after the first n commands of a run that began in h. *)
HostAfter(run, h, n) == IF n = 0 THEN h ELSE run.trail[n].host

(* Whether the task fails when the connection is lost after n commands: an *)
(* error of a loud command that was still to come is returned.             *)
FailsAfter(run, n) == run.failed \/ \E i \in (n + 1)..Len(run.trail) : run.trail[i].loud

-----------------------------------------------------------------------------
(* What the loops over the lines of a text do.  Every line is mapped to a  *)
(* sequence of lines: none, itself, another.                               *)
Rewritten(lines, to(_)) == FlattenSeq([i \in DOMAIN lines |-> to(i)])
Filtered(lines, Keeps(_)) == Rewritten(lines, LAMBDA i : IF Keeps(lines[i]) THEN <<lines[i]>> ELSE <<>>)
=============================================================================
