----------------------------- MODULE MCHostTask -----------------------------
(***************************************************************************)
(* Instances of HostTask: families of tasks, each varying the options that *)
(* meet in one part of the code, and the answers a module gives: a change, *)
(* none, facts, a skip, an exit code over SSH and one over a local         *)
(* connection, an error without a result, a lost host.                     *)
(***************************************************************************)
EXTENDS HostTask

Plain == [handler |-> FALSE, module |-> "command", tagged |-> TRUE, loop |-> FALSE,
          items |-> <<TRUE>>, to |-> "host", delegateFacts |-> FALSE, retries |-> 0,
          until |-> "none", delay |-> FALSE, async |-> "no", timed |-> FALSE,
          option |-> FALSE, play |-> "unset", check |-> "unset", ignore |-> FALSE,
          ignoreUnreachable |-> FALSE, changedWhen |-> "none", failedWhen |-> "none",
          noLog |-> FALSE, register |-> TRUE, notify |-> TRUE, debugger |-> "never"]

Retried ==
  {[Plain EXCEPT !.retries = n, !.until = u, !.delay = d, !.ignore = ig] :
     n \in 0..2, u \in {"none", "rc0", "notFailed", "second"}, d \in BOOLEAN, ig \in BOOLEAN}
  \union {[Plain EXCEPT !.retries = n, !.until = u, !.debugger = "always"] : n \in 0..1, u \in {"none", "rc0", "second"}}

Verdicts ==
  {[Plain EXCEPT !.ignore = ig, !.ignoreUnreachable = iu, !.changedWhen = c, !.failedWhen = f,
                 !.noLog = nl, !.debugger = d] :
     ig \in BOOLEAN, iu \in BOOLEAN, c \in {"none", "never", "rc"}, f \in {"none", "never", "rc"},
     nl \in BOOLEAN, d \in {"never", "on_failed", "on_unreachable"}}

CheckModes ==
  {[Plain EXCEPT !.handler = h, !.module = m, !.option = o, !.play = p, !.check = c, !.async = a] :
     h \in BOOLEAN, m \in {"command", "copy", "reboot"}, o \in BOOLEAN,
     p \in {"unset", "yes", "no"}, c \in {"unset", "yes", "no"},
     a \in {"no", "polled", "detached"}}

Delegated ==
  {[Plain EXCEPT !.module = m, !.to = p, !.delegateFacts = f, !.tagged = g, !.items = <<w>>] :
     m \in {"command", "set_fact"}, p \in Places, f \in BOOLEAN, g \in BOOLEAN, w \in BOOLEAN}

Loops ==
  {[Plain EXCEPT !.loop = TRUE, !.items = is, !.delay = dl, !.timed = t, !.async = a,
                 !.debugger = d, !.noLog = nl] :
     is \in {<<>>, <<FALSE, TRUE>>, <<TRUE, TRUE>>}, dl \in BOOLEAN, t \in BOOLEAN,
     a \in {"no", "polled"}, d \in {"never", "always"}, nl \in BOOLEAN}

HandlerRuns ==
  {[Plain EXCEPT !.handler = TRUE, !.loop = is # <<FALSE>>, !.items = is, !.noLog = nl] :
     is \in {<<>>, <<TRUE, TRUE>>, <<FALSE>>}, nl \in BOOLEAN}

Library ==
  {[Plain EXCEPT !.module = "custom", !.option = o, !.to = p] :
     o \in BOOLEAN, p \in {"host", "delegate", "localhost"}}
  \union
  {[Plain EXCEPT !.module = "custom", !.retries = 1, !.until = u, !.ignore = ig, !.changedWhen = c,
                 !.failedWhen = f, !.debugger = d, !.noLog = nl] :
     u \in {"none", "rc0", "notFailed"}, ig \in BOOLEAN, c \in {"none", "never"},
     f \in {"none", "never", "rc"}, d \in {"never", "on_failed"}, nl \in BOOLEAN}
  \union
  {[Plain EXCEPT !.module = "custom", !.loop = TRUE, !.items = <<TRUE, TRUE>>, !.ignore = ig] :
     ig \in BOOLEAN}

MCTasks == Library \union Retried \union Verdicts \union CheckModes \union Delegated \union Loops \union HandlerRuns

Ok == Stays
MCOutcomes ==
  {Ok, [Ok EXCEPT !.changed = TRUE], [Ok EXCEPT !.facts = TRUE], [Ok EXCEPT !.skipped = TRUE],
   [Ok EXCEPT !.failed = TRUE, !.rc = 1, !.changed = TRUE],
   [Ok EXCEPT !.failed = TRUE, !.rc = 1, !.err = "error"],
   [Ok EXCEPT !.result = FALSE, !.err = "error"],
   [Ok EXCEPT !.result = FALSE, !.err = "lost"]}

(* Objects that say nothing, that a change was none, that it failed, an    *)
(* exit code with and without a failure, and one that contradicts itself.  *)
MCObjects ==
  {NoData, [NoData EXCEPT !.changed = {FALSE}], [NoData EXCEPT !.failed = {TRUE}],
   [NoData EXCEPT !.rc = {1}], [NoData EXCEPT !.changed = {TRUE}, !.failed = {FALSE}, !.rc = {0}],
   [NoData EXCEPT !.failed = {FALSE}, !.rc = {2}]}
=============================================================================
