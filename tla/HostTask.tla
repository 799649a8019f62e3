------------------------------ MODULE HostTask ------------------------------
(***************************************************************************)
(* One task, or one handler, on one host: what LinearPlay and FreePlay     *)
(* take as a single outcome of a module is opened up here.  The body       *)
(* (executeTaskWithEnv) walks the items of the loop, calls the module for  *)
(* each, again while retries allow, judges the answer, asks the debugger   *)
(* and stores and notifies; with a timeout it is a goroutine, and its      *)
(* caller may answer without it.  A polled async task runs its module in   *)
(* a goroutine of its own.                                                 *)
(*                                                                         *)
(* The module itself is the environment: a call gives any of Outcomes, or  *)
(* never returns.  What it prints, and the resolution of variables, is     *)
(* left out; of messages and data only whether they are masked.            *)
(***************************************************************************)
EXTENDS Naturals, Sequences

CONSTANTS
  Tasks,      \* the tasks a run may be given
  Outcomes,   \* what a call of a module may give
  Objects,    \* the JSON objects a module of the user's library may print
  MaxRedos    \* bound: how often the user of the debugger asks for a redo

Places == {"host", "delegate", "localhost", "nowhere"}

(* module: "command" knows no check mode, "copy" does; "custom" is a file  *)
(* of the user's library; "set_fact" and "reboot" are run by the executor  *)
(* itself.  items: for each item whether  *)
(* when holds for it; a plain task has one.  delay: between tries, and     *)
(* between items.                                                          *)
Task == [handler : BOOLEAN, module : {"command", "copy", "custom", "set_fact", "reboot"},
         tagged : BOOLEAN, loop : BOOLEAN, items : Seq(BOOLEAN),
         to : Places, delegateFacts : BOOLEAN,
         retries : Nat, until : {"none", "rc0", "notFailed", "second"}, delay : BOOLEAN,
         async : {"no", "polled", "detached"}, timed : BOOLEAN,
         option : BOOLEAN, play : {"unset", "yes", "no"}, check : {"unset", "yes", "no"},
         ignore : BOOLEAN, ignoreUnreachable : BOOLEAN,
         changedWhen : {"none", "never", "rc"}, failedWhen : {"none", "never", "rc"},
         noLog : BOOLEAN, register : BOOLEAN, notify : BOOLEAN,
         debugger : {"never", "always", "on_failed", "on_unreachable"}]

(* What the data of a result says under the keys a result has of its own:  *)
(* nothing, or one value.  Only an object printed by a module of the       *)
(* library has such keys.                                                  *)
Data   == {d \in [changed : SUBSET BOOLEAN, failed : SUBSET BOOLEAN, rc : SUBSET Nat] :
             \A k \in {"changed", "failed", "rc"} : \A v, w \in d[k] : v = w}
NoData == [changed |-> {}, failed |-> {}, rc |-> {}]

Said(said, otherwise) == IF said = {} THEN otherwise ELSE CHOOSE v \in said : TRUE

(* result: a result came back (not nil); without one there is an error *)
Outcome == {o \in [result : BOOLEAN, failed : BOOLEAN, rc : Nat, changed : BOOLEAN, data : Data,
                   skipped : BOOLEAN, facts : BOOLEAN, err : {"none", "error", "lost"}] :
              /\ o.result \/ o.err # "none"
              /\ \A n \in o.data.rc : n # 0 => o.rc # 0}

ASSUME TasksAssumption ==
  \A t \in Tasks : t \in Task /\ (~t.loop => Len(t.items) = 1)
                     /\ (t.handler => t.to = "host" /\ \A i, j \in DOMAIN t.items : t.items[i] = t.items[j])
ASSUME OutcomesAssumption == (\A o \in Outcomes : o \in Outcome) /\ (\A d \in Objects : d \in Data)

VARIABLES
  task,       \* the task (never changes)
  pc,         \* where the body is
  tries,      \* the answers of the module for this item, since the last redo
  now,        \* the result of the item
  results,    \* the results of the items before it
  redos,
  cancelled,  \* the context of the executor is done
  job,        \* the goroutine of a polled task is running
  answer,     \* what the caller has returned
  registered, \* what is registered
  notified,   \* the items that notified the handlers
  factsOf,    \* the hosts facts were written for
  \* history, for the properties only
  ranOn,      \* where the module was run, and whether for real
  past        \* the tries each of the results took

body  == <<pc, tries, now, results, redos, past>>
saved == <<registered, notified, factsOf>>
vars  == <<task, body, cancelled, job, answer, saved, ranOn>>

Fresh == [changed |-> FALSE, failed |-> FALSE, unreachable |-> FALSE, ignored |-> FALSE,
          skipped |-> FALSE, rc |-> 0, data |-> NoData, output |-> "none", attempts |-> 0]
NoAnswer == [by |-> "nobody", results |-> <<>>, err |-> FALSE]
Nothing  == [changed |-> FALSE, failed |-> FALSE, rc |-> 0, results |-> <<>>]

Init ==
  /\ task \in Tasks /\ pc = "begin" /\ tries = <<>> /\ now = Fresh /\ results = <<>>
  /\ redos = 0 /\ past = <<>> /\ cancelled = FALSE /\ job = FALSE /\ answer = NoAnswer
  /\ registered = Nothing /\ notified = {} /\ factsOf = {} /\ ranOn = {}
-----------------------------------------------------------------------------
(* What the task asks for                                                  *)

Builtin == {"set_fact", "reboot"}
supportsCheckMode == {"copy", "set_fact"}

(* Mutant: what the play says is forgotten. *)
isTaskCheckModeUnlessPlay == IF task.check # "unset" THEN task.check = "yes" ELSE task.option

isTaskCheckMode ==
  IF task.check # "unset" THEN task.check = "yes"
  ELSE IF task.play # "unset" THEN task.play = "yes" ELSE task.option

(* A handler is asked for the option of the command line only. *)
InCheckMode == IF task.handler THEN task.option ELSE isTaskCheckMode

(* The module is told to change nothing; an async one is never told. *)
Told == InCheckMode /\ task.module \in supportsCheckMode
          /\ (task.async = "no" \/ task.handler)

FactTarget == IF task.delegateFacts THEN task.to ELSE "host"

Attempts == IF task.retries > 0 THEN 1 + task.retries ELSE IF task.until # "none" THEN 4 ELSE 1

(* The keys of the data go over those of the result.                       *)
mergeMap(m, d) == [m EXCEPT !.changed = Said(d.changed, @), !.failed = Said(d.failed, @),
                            !.rc = Said(d.rc, @)]

(* What until sees: "failed" is the error of the call; without a result rc *)
(* is 0.                                                                   *)
Status(o) ==
  IF o.result
  THEN mergeMap([changed |-> o.changed, failed |-> o.err # "none", rc |-> o.rc], o.data)
  ELSE [changed |-> FALSE, failed |-> o.err # "none", rc |-> 0]

evaluateUntil(o, n) ==
  CASE task.until = "rc0"       -> Status(o).rc = 0
    [] task.until = "notFailed" -> ~Status(o).failed
    [] task.until = "second"    -> n >= 2
-----------------------------------------------------------------------------
(* How an answer of the module becomes a result                            *)

Bad(o) == o.err # "none" \/ (o.result /\ (o.failed \/ o.rc # 0))

(* Mutant: a failed result without an error is taken for a success. *)
applyErrorOnly(r, o) ==
  IF o.err = "none" THEN r
  ELSE [r EXCEPT !.unreachable = @ \/ o.err = "lost",
                 !.failed = @ \/ ~task.ignore, !.ignored = @ \/ task.ignore]

Unreachable(o) == o.err = "lost"

applyExecutionOutcome(r, o) ==
  IF Unreachable(o) /\ task.ignoreUnreachable
  THEN [r EXCEPT !.unreachable = TRUE, !.failed = FALSE, !.ignored = TRUE]
  ELSE [r EXCEPT !.unreachable = @ \/ Unreachable(o),
                 !.failed  = @ \/ (Bad(o) /\ ~task.ignore),
                 !.ignored = @ \/ (Bad(o) /\ task.ignore),
                 !.skipped = @ \/ (o.result /\ o.skipped)]

Copied(r, o, attempts) ==
  IF o.result THEN [r EXCEPT !.changed = o.changed, !.rc = o.rc, !.data = o.data,
                             !.attempts = attempts, !.output = "shown"]
  ELSE IF o.err # "none" THEN [r EXCEPT !.output = "shown"] ELSE r

applyTaskResultConditions(r) ==
  LET rc      == Said(r.data.rc, r.rc)
      changed == CASE task.changedWhen = "none"  -> r.changed
                   [] task.changedWhen = "never" -> FALSE
                   [] task.changedWhen = "rc"    -> rc # 0
      failed  == task.failedWhen = "rc" /\ rc # 0
  IN  IF task.failedWhen = "none" THEN [r EXCEPT !.changed = changed]
      ELSE [r EXCEPT !.changed = changed, !.failed = failed /\ ~task.ignore,
                     !.ignored = @ \/ (failed /\ task.ignore)]

maskNoLog(r) ==
  IF task.noLog THEN [r EXCEPT !.output = "masked", !.attempts = 0, !.data = NoData] ELSE r

(* Mutant: what a handler printed is not hidden. *)
VerdictOfHandlerShown(o) == Copied([Fresh EXCEPT !.failed = o.err # "none"], o, 0)

VerdictOfHandler(o) == maskNoLog(Copied([Fresh EXCEPT !.failed = o.err # "none"], o, 0))

Verdict(o, attempts) ==
  maskNoLog(applyTaskResultConditions(Copied(applyExecutionOutcome(now, o), o, attempts)))

shouldTriggerDebugger(r) ==
  \/ task.debugger = "always"
  \/ task.debugger = "on_failed" /\ r.failed
  \/ task.debugger = "on_unreachable" /\ r.unreachable

Entry(r) ==
  mergeMap([changed |-> r.changed, failed |-> r.failed, rc |-> r.rc, output |-> r.output], r.data)

(* Mutant: the data of the last item goes over what the items came to. *)
SummaryMergedLast(rs) ==
  LET last  == rs[Len(rs)]
      whole == mergeMap([changed |-> \E i \in DOMAIN rs : rs[i].changed,
                         failed  |-> \E i \in DOMAIN rs : rs[i].failed, rc |-> last.rc], last.data) IN
  [changed |-> whole.changed, failed |-> whole.failed, rc |-> whole.rc,
   results |-> [i \in DOMAIN rs |-> Entry(rs[i])]]

(* What is registered: an entry for each item, and for the whole the data  *)
(* of the last item, and over it a change or a failure of any.             *)
Summary(rs) ==
  LET last  == rs[Len(rs)]
      whole == mergeMap([changed |-> FALSE, failed |-> FALSE, rc |-> last.rc], last.data) IN
  [changed |-> whole.changed \/ \E i \in DOMAIN rs : rs[i].changed,
   failed  |-> whole.failed \/ \E i \in DOMAIN rs : rs[i].failed,
   rc      |-> whole.rc,
   results |-> [i \in DOMAIN rs |-> Entry(rs[i])]]

storeRegisteredResult(rs) ==
  registered' = IF task.register /\ ~task.handler /\ rs # <<>> THEN Summary(rs) ELSE registered
-----------------------------------------------------------------------------
(* The body                                                                *)

Item   == Len(results) + 1
IsLast == Item = Len(task.items)

(* Tags and a plain when leave the task alone; so does, without being     *)
(* asked, a host to delegate to whose name comes out empty.               *)
Dismissal ==
  IF task.to = "nowhere" THEN [Fresh EXCEPT !.failed = TRUE] ELSE [Fresh EXCEPT !.skipped = TRUE]

Dismiss ==
  /\ pc = "begin"
  /\ \/ task.to = "nowhere"
     \/ ~task.handler /\ ~task.tagged
     \/ (task.handler \/ ~task.loop) /\ task.items # <<>> /\ ~task.items[1]
  /\ results' = <<Dismissal>> /\ past' = << <<>> >> /\ pc' = "over"
  /\ UNCHANGED <<task, tries, now, redos, cancelled, job, answer, saved, ranOn>>

Begin ==
  /\ pc = "begin"
  /\ task.to # "nowhere" /\ (task.handler \/ task.tagged)
  /\ (task.handler \/ ~task.loop) /\ task.items # <<>> => task.items[1]
  /\ pc' = IF task.items = <<>> THEN "over" ELSE "item"
  /\ UNCHANGED <<task, tries, now, results, redos, past, cancelled, job, answer, saved, ranOn>>

(* Mutant: the tries of the items before are counted too. *)
KeepTries(r, then) ==
  /\ results' = Append(results, r) /\ past' = Append(past, tries)
  /\ now' = Fresh /\ redos' = 0 /\ UNCHANGED tries
  /\ pc' = IF IsLast THEN "over" ELSE then
  /\ IF IsLast THEN storeRegisteredResult(results') ELSE UNCHANGED registered

(* The result joins the others; after the last they are registered. *)
Keep(r, then) ==
  /\ results' = Append(results, r) /\ past' = Append(past, tries)
  /\ tries' = <<>> /\ now' = Fresh /\ redos' = 0
  /\ pc' = IF IsLast THEN "over" ELSE then
  /\ IF IsLast THEN storeRegisteredResult(results') ELSE UNCHANGED registered

SkipItem ==
  /\ pc = "item" /\ ~task.items[Item]
  /\ Keep(maskNoLog([Fresh EXCEPT !.skipped = TRUE]), "item")
  /\ UNCHANGED <<task, cancelled, job, answer, notified, factsOf, ranOn>>

(* The module has given its last answer for this item. *)
Judge(o, ts, attempts) ==
  LET r == IF task.handler THEN VerdictOfHandler(o) ELSE Verdict(o, attempts) IN
  /\ now' = r /\ tries' = ts
  /\ pc' = IF ~task.handler /\ shouldTriggerDebugger(r) THEN "ask" ELSE "judged"
  /\ factsOf' = IF o.result /\ o.facts /\ ~task.handler
                THEN factsOf \union {FactTarget} ELSE factsOf
  /\ UNCHANGED <<task, results, redos, past, cancelled, answer, registered, notified>>

Stays   == [result |-> TRUE, failed |-> FALSE, rc |-> 0, changed |-> FALSE, data |-> NoData,
            skipped |-> FALSE, facts |-> FALSE, err |-> "none"]
Refuses == [Stays EXCEPT !.result = FALSE, !.err = "error"]

Async      == ~task.handler /\ task.async # "no"
WithRetry  == ~task.handler /\ ~Async /\ task.module \notin Builtin
Runs       == ranOn' = ranOn \union {[at |-> task.to, real |-> ~Told]}

LeftOut == WithRetry /\ isTaskCheckMode /\ task.module \notin supportsCheckMode

(* The module is run, in a goroutine when it is polled. *)
Call ==
  /\ pc = "item" /\ task.items[Item] /\ task.module # "set_fact" /\ ~LeftOut
  /\ ~(Async /\ task.module # "command")
  /\ Runs
  /\ IF Async /\ task.async = "polled" THEN pc' = "poll" /\ job' = TRUE
     ELSE pc' = "call" /\ UNCHANGED job
  /\ UNCHANGED <<task, tries, now, results, redos, past, cancelled, answer, saved>>

LeaveOut ==
  /\ pc = "item" /\ task.items[Item] /\ LeftOut
  /\ Judge(Stays, tries, 0)
  /\ UNCHANGED <<job, ranOn>>

Refuse ==
  /\ pc = "item" /\ task.items[Item] /\ Async /\ task.module # "command"
  /\ Judge(Refuses, tries, 0)
  /\ UNCHANGED <<job, ranOn>>

SetFact ==
  /\ pc = "item" /\ task.items[Item] /\ task.module = "set_fact" /\ ~Async
  /\ Judge([Stays EXCEPT !.facts = TRUE], tries, 0)
  /\ UNCHANGED <<job, ranOn>>

(* The launcher of a detached job looks at no exit code. *)
Detached(o) == IF Async /\ o.err = "none" THEN [Stays EXCEPT !.changed = TRUE] ELSE o

(* What a module of the library answers: what it prints counts, not its    *)
(* exit code.  With a JSON object, d, the error of the call is dropped.    *)
CustomModule(o, d) ==
  [o EXCEPT !.err = "none", !.data = d, !.rc = Said(d.rc, 0),
            !.changed = Said(d.changed, o.err = "none"), !.failed = Said(d.failed, o.err # "none")]

(* Without one a script that fails over SSH, where an exit code is no      *)
(* error, is a change.                                                     *)
Unparsed(o) ==
  [o EXCEPT !.data = NoData, !.changed = o.err = "none", !.failed = o.err # "none", !.rc = 0]

Replies(o) ==
  IF task.module = "custom" /\ o.result
  THEN {Unparsed(o)} \union {CustomModule(o, d) : d \in Objects} ELSE {o}

Exhausted(o) ==
  IF task.until = "none" THEN o
  ELSE [o EXCEPT !.result = TRUE, !.failed = TRUE, !.err = "error",
                 !.rc = IF o.result /\ o.rc # 0 THEN o.rc ELSE 1,
                 !.changed = o.result /\ o.changed]

(* The answer of try n is the one that counts. *)
Enough(o, n) ==
  ~WithRetry \/ (IF task.until = "none" THEN o.err = "none" ELSE evaluateUntil(o, n))

Answer(o) ==
  LET ts == Append(tries, o)
      n  == Len(ts) IN
  /\ pc = "call" /\ UNCHANGED job
  /\ \/ /\ Enough(o, n)
        /\ Judge(Detached(o), ts, IF WithRetry /\ task.until # "none" THEN n ELSE 0)
        /\ UNCHANGED ranOn
     \/ /\ ~Enough(o, n) /\ n >= Attempts
        /\ Judge(Exhausted(o), ts, IF task.until # "none" THEN Attempts ELSE 0)
        /\ UNCHANGED ranOn
     \/ /\ ~Enough(o, n) /\ n < Attempts
        /\ tries' = ts /\ pc' = IF task.delay THEN "rest" ELSE "call"
        /\ Runs
        /\ UNCHANGED <<task, now, results, redos, past, cancelled, answer, saved>>

(* The wait between two tries; the next is not made once the run is        *)
(* cancelled.                                                              *)
TryAgain ==
  /\ pc = "rest" /\ pc' = "call"
  /\ UNCHANGED <<task, tries, now, results, redos, past, cancelled, job, answer, saved, ranOn>>

GiveUp ==
  /\ pc = "rest" /\ cancelled
  /\ Judge(Exhausted(tries[Len(tries)]), tries, IF task.until # "none" THEN Attempts ELSE 0)
  /\ UNCHANGED <<job, ranOn>>

(* The call never returns. *)
Hang ==
  /\ pc = "call" /\ pc' = "hung"
  /\ UNCHANGED <<task, tries, now, results, redos, past, cancelled, job, answer, saved, ranOn>>

PollDone(o) ==
  /\ pc = "poll" /\ job /\ job' = FALSE
  /\ Judge(o, Append(tries, o), 0)
  /\ UNCHANGED ranOn

(* The job runs on, and what it says later goes to nobody. *)
PollTimeout ==
  /\ pc = "poll"
  /\ Judge([Stays EXCEPT !.changed = TRUE, !.failed = TRUE, !.err = "error"], tries, 0)
  /\ UNCHANGED <<job, ranOn>>

JobEnds ==
  /\ pc # "poll" /\ job /\ job' = FALSE
  /\ UNCHANGED <<task, body, cancelled, answer, saved, ranOn>>

(* runDebugger: the user answers at the prompt. *)
Continue ==
  /\ pc = "ask" /\ pc' = "judged"
  /\ UNCHANGED <<task, tries, now, results, redos, past, cancelled, job, answer, saved, ranOn>>

(* Mutant: the failure of the tries before is kept. *)
RedoKeeping == [now EXCEPT !.changed = FALSE, !.rc = 0]

(* What a redo forgets; unreachable, ignored, skipped and the data stay. *)
Reset == [now EXCEPT !.failed = FALSE, !.changed = FALSE, !.rc = 0]

Redo ==
  /\ pc = "ask" /\ redos < MaxRedos /\ redos' = redos + 1
  /\ now' = Reset /\ tries' = <<>> /\ pc' = "item"
  /\ UNCHANGED <<task, results, past, cancelled, job, answer, saved, ranOn>>

(* The results so far are returned; those of a plain task are not stored. *)
Quit ==
  /\ pc = "ask" /\ pc' = "quit"
  /\ results' = Append(results, now) /\ past' = Append(past, tries)
  /\ IF task.loop THEN storeRegisteredResult(results') ELSE UNCHANGED registered
  /\ UNCHANGED <<task, tries, now, redos, cancelled, job, answer, notified, factsOf, ranOn>>

Notifies == task.notify /\ now.changed

EndItem ==
  /\ pc = "judged"
  /\ notified' = IF Notifies THEN notified \union {Item} ELSE notified
  /\ Keep(now, IF task.delay /\ ~task.handler THEN "pause" ELSE "item")
  /\ UNCHANGED <<task, cancelled, job, answer, factsOf, ranOn>>

Resume ==
  /\ pc = "pause" /\ pc' = "item"
  /\ UNCHANGED <<task, tries, now, results, redos, past, cancelled, job, answer, saved, ranOn>>

(* The items still to come are left out. *)
BreakOff ==
  /\ pc = "pause" /\ cancelled /\ pc' = "over"
  /\ storeRegisteredResult(results)
  /\ UNCHANGED <<task, tries, now, results, redos, past, cancelled, job, answer,
                 notified, factsOf, ranOn>>

Body ==
  \/ Dismiss \/ Begin \/ SkipItem \/ Call \/ LeaveOut \/ Refuse \/ SetFact
  \/ \E o \in Outcomes : PollDone(o) \/ \E p \in Replies(o) : Answer(p)
  \/ TryAgain \/ GiveUp \/ PollTimeout \/ Continue \/ Redo \/ Quit
  \/ EndItem \/ Resume \/ BreakOff
-----------------------------------------------------------------------------
(* The caller, and what happens around them                                *)

Return ==
  /\ answer = NoAnswer /\ pc \in {"over", "quit"}
  /\ answer' = [by |-> "body", results |-> results, err |-> pc = "quit"]
  /\ UNCHANGED <<task, body, cancelled, job, saved, ranOn>>

TimedOut == task.timed /\ ~task.handler

(* The timer of the task fires; the body runs on. *)
TimeOut ==
  /\ answer = NoAnswer /\ TimedOut
  /\ answer' = [by |-> "timer", err |-> ~task.ignore,
                results |-> <<[Fresh EXCEPT !.failed = ~task.ignore, !.rc = 124]>>]
  /\ UNCHANGED <<task, body, cancelled, job, saved, ranOn>>

Cancel ==
  /\ ~cancelled /\ answer = NoAnswer /\ cancelled' = TRUE
  /\ UNCHANGED <<task, body, job, answer, saved, ranOn>>

(* A module that hangs leaves the body, and without a timeout the caller, waiting. *)
Done == pc \in {"over", "quit", "hung"} /\ UNCHANGED vars

Next == Body \/ Hang \/ Return \/ TimeOut \/ Cancel \/ JobEnds \/ Done

Spec == Init /\ [][Next]_vars
-----------------------------------------------------------------------------
(* Properties                                                              *)

Last(i) == past[i][Len(past[i])]
Judged  == {i \in DOMAIN results : past[i] # <<>>}

(* When the last try of an item went wrong, its result says so: it is      *)
(* failed, or ignored where the task asks for that, unless failed_when     *)
(* decides.  Retries, a redo, changed_when and no_log in between lose no   *)
(* failure.  Two answers are not looked at: the exit code of the script    *)
(* that starts a detached job (executor_task.go:1472), and the Failed flag *)
(* of a handler without an error (flushHandlers).                          *)
FailuresTold ==
  \A i \in Judged :
    /\ Bad(Last(i)) /\ task.failedWhen = "none"
    /\ Last(i).err = "none" => ~task.handler /\ task.async # "detached"
    => results[i].failed \/ (results[i].ignored
                             /\ (task.ignore \/ (task.ignoreUnreachable /\ results[i].unreachable)))

(* A result is failed only for a reason: its last try went wrong, until    *)
(* was never met, failed_when holds, a polled job overran its time, async  *)
(* was asked of a module that cannot, or delegate_to named nobody.  And it *)
(* is unreachable only if the host was lost in its last try; a redo from   *)
(* the debugger forgets the failure but not that the host was unreachable  *)
(* (executor_task.go:1081).                                                *)
FailuresMeant ==
  \A i \in DOMAIN results :
    /\ results[i].failed =>
         \/ task.to = "nowhere" \/ (Async /\ past[i] = <<>>)
         \/ /\ past[i] # <<>>
            /\ Bad(Last(i)) \/ (task.until # "none" /\ ~evaluateUntil(Last(i), Len(past[i])))
    /\ results[i].unreachable /\ task.debugger = "never" => Last(i).err = "lost"

(* The tries the settings give an item: the first and its retries, which   *)
(* are three where until stands alone.                                     *)
Allowed ==
  1 + (IF task.retries # 0 THEN task.retries ELSE IF task.until # "none" THEN 3 ELSE 0)

(* No try is made after the one that settles the matter, and an item is    *)
(* given up only when its tries are used up or the run is cancelled; the   *)
(* number of attempts a result carries is the number made.  Where the      *)
(* debugger asks for a redo that brings no result, it is the number made   *)
(* before (executor_task.go:1081).                                         *)
RetriesHonest ==
  \A i \in Judged :
    LET n == Len(past[i]) IN
    /\ n <= Allowed
    /\ \A k \in 1..(n - 1) : ~Enough(past[i][k], k)
    /\ Enough(Last(i), n) \/ n = Allowed \/ cancelled
    /\ task.debugger = "never" /\ ~cancelled => results[i].attempts \in {0, n}

(* What is registered, reg, tells of the results rs.  A failure or a       *)
(* change of any item is seen; and a key is other than the task reported   *)
(* it only where the data of the item, or for the whole that of the last,  *)
(* names it itself and says so: the object a module of the library prints  *)
(* goes over what changed_when, failed_when, ignore_errors and the retries *)
(* made of it (executor_task.go:1546, 1563).                               *)
TellsOf(reg, rs) ==
  LET last == rs[Len(rs)] IN
  /\ DOMAIN reg.results = DOMAIN rs
  /\ \A i \in DOMAIN rs :
       /\ reg.results[i].changed # rs[i].changed => reg.results[i].changed \in rs[i].data.changed
       /\ reg.results[i].failed # rs[i].failed => reg.results[i].failed \in rs[i].data.failed
       /\ reg.results[i].rc # rs[i].rc => reg.results[i].rc \in rs[i].data.rc
       /\ rs[i].changed => reg.changed
       /\ rs[i].failed => reg.failed
  /\ reg.changed => TRUE \in last.data.changed \/ \E i \in DOMAIN rs : rs[i].changed
  /\ reg.failed => TRUE \in last.data.failed \/ \E i \in DOMAIN rs : rs[i].failed
  /\ reg.rc # last.rc => reg.rc \in last.data.rc

(* What later tasks read under the registered name tells of what the task  *)
(* returned, whatever the debugger, the retries and the masks did in       *)
(* between.  Not registered: a task its tags or when exclude, or with no   *)
(* item at all, so that what an earlier task registered stands; and a      *)
(* plain task the debugger quits.                                          *)
RegisterAgrees ==
  answer.by = "body" /\ task.register /\ ~task.handler /\ results # <<>>
    /\ task.tagged /\ task.to # "nowhere" /\ (task.loop \/ (task.items[1] /\ ~answer.err))
    => TellsOf(registered, answer.results)

(* The handlers are notified for exactly the items reported as changed,    *)
(* also after changed_when and redone tries; only the item at which the    *)
(* debugger quits is left out.                                             *)
NotifiedIffChanged ==
  answer.by = "body" /\ task.notify =>
    notified = {i \in DOMAIN answer.results : answer.results[i].changed}
                 \ (IF answer.err THEN {Len(answer.results)} ELSE {})

(* A delegated task acts at its delegate and nowhere else, and its facts   *)
(* are those of the host, or of the delegate where delegate_facts asks.    *)
ActsWhereAsked ==
  /\ \A r \in ranOn : r.at = task.to
  /\ factsOf \subseteq {IF task.delegateFacts THEN task.to ELSE "host"}

(* What a task leaves behind agrees with what it reports: the registered   *)
(* variable, but for the keys a module of the library names itself, the    *)
(* notified handlers, and where it acted and set facts.                    *)
ResultsAgree == RegisterAgrees /\ NotifiedIffChanged /\ ActsWhereAsked

(* Under no_log nothing the module said is in what is reported, nor in     *)
(* what later tasks read.                                                  *)
SecretsKept ==
  task.noLog => /\ \A i \in DOMAIN answer.results :
                      answer.results[i].output # "shown" /\ answer.results[i].data = NoData
                /\ \A i \in DOMAIN registered.results : registered.results[i].output # "shown"

(* What was asked to be a dry run.  The check mode of a handler is that of *)
(* its play.                                                               *)
AskedDry ==
  LET own == IF task.handler THEN "unset" ELSE task.check IN
  CASE own # "unset" -> own = "yes"
    [] own = "unset" /\ task.play # "unset" -> task.play = "yes"
    [] OTHER -> task.option

(* In check mode no module acts on the host, and a task that is exempt is  *)
(* run for real.  Three kinds are not kept: async tasks, reboot (which no  *)
(* list of modules that know check mode names, and which skips the test of *)
(* executeWithRetry), and handlers, which are given the option of the      *)
(* command line at most and never left out.                                *)
DryRunsAreDry ==
  \A r \in ranOn :
    /\ AskedDry /\ ~Async /\ task.module # "reboot"
         /\ (task.handler => task.option /\ task.module \in supportsCheckMode)
       => ~r.real
    /\ ~AskedDry /\ ~task.handler => r.real

=============================================================================
