----------------------------- MODULE LinearPlay -----------------------------
(***************************************************************************)
(* One play under the linear strategy: Executor.ExecutePlay drives the     *)
(* batches and the three task lists, executeTaskList walks the tasks,      *)
(* executeTaskForBatchHosts runs one task on every active host (inline, or *)
(* in goroutines bounded by a semaphore and joined by a WaitGroup), and    *)
(* flushHandlers drains the notified handlers between the lists.           *)
(*                                                                         *)
(* What one host does with one entry of a task list (a module, a loop, a   *)
(* block with its rescue, an include) is one outcome, chosen freely; the   *)
(* block and run_once logic is modelled elsewhere.  A goroutine abandoned  *)
(* by a task timeout is outside this module, and so is a flush_handlers    *)
(* that a block, an include or a loop runs while other hosts notify.       *)
(***************************************************************************)
EXTENDS Integers, FiniteSets, Sequences

CONSTANTS
  NHosts,     \* the hosts of the play are 1..NHosts, in inventory order
  NHandlers,  \* the handlers are 1..NHandlers, in definition order
  Plays       \* the plays a run may be given (see Play)

Hosts    == 1..NHosts
Handlers == 1..NHandlers
Phases   == 1..3            \* pre_tasks, roles and tasks, post_tasks
Pairs    == Handlers \X Hosts

\* What ExecutePlay reads of a play and of the executor's settings: the forks
\* and the throttles its tasks use (0: none), the batch sizes, the number of
\* tasks of each list, any_errors_fatal, max_fail_percentage, force_handlers,
\* --step, whether tasks delegate, which handlers loop, whom they notify.
Play == [forks: Nat \ {0}, throttles: SUBSET Nat, serial: Seq(Nat \ {0}),
         len: [Phases -> Nat], aef: BOOLEAN, pct: Nat, force: BOOLEAN,
         step: BOOLEAN, delegate: BOOLEAN, looped: SUBSET Handlers,
         chain: [Handlers -> SUBSET Handlers]]

ASSUME HostsAssumption == NHosts \in Nat /\ NHandlers \in Nat
ASSUME PlaysAssumption == \A p \in Plays : p \in Play /\ p.serial # <<>>

VARIABLES
  play,          \* the play being run (never changes)
  pc,            \* where the goroutine of ExecutePlay is
  lo, hi,        \* the current batch is lo..hi
  step,          \* how many batches were started (stepIdx)
  phase, task,   \* the current list, and the task of it
  todo,          \* active hosts the task was not yet started on
  throttle,      \* throttle of the current task
  sem,           \* tokens in the semaphore channel of the current task
  g,             \* the goroutine of each host
  firstErr,      \* an error returned for the current task
  beforeTask,    \* failedBeforeTask
  beforePhase,   \* failedBeforeBatch
  failCount,     \* failedTaskCount(result)
  bad,           \* hosts exceededMaxFailPercentage counts
  failed, ended, endPlay,           \* failedHosts, endedHosts, endPlay
  pending,       \* pendingHandlers: {<<handler, host>>}
  queue,         \* the round of pendings flushHandlers is working on
  executed,      \* executedHandlers of the current flush
  handlerErr,    \* handlerErr of the current flush
  flushFailed,   \* hosts with a failed handler result in the current flush
  ret,           \* who called flushHandlers
  playErr,       \* playErr
  \* history, for the properties only
  ran,           \* entries of the task lists each host has a result for
  owed,          \* notifications not yet answered by a run of the handler
  failPos        \* where the first task failure was recorded

ctl      == <<pc, lo, hi, step, phase, task>>
conc     == <<todo, throttle, sem, g, firstErr>>
counts   == <<beforeTask, beforePhase, failCount, bad>>
flags    == <<failed, ended, endPlay>>
flushing == <<executed, handlerErr, flushFailed, ret>>
handling == <<pending, queue, flushing>>
history  == <<ran, owed, failPos>>
vars     == <<play, ctl, conc, counts, flags, handling, playErr, history>>

Batch  == lo..hi
Active == {h \in Batch : h \notin ended /\ h \notin failed}
Turn(h) == h \in todo /\ \A k \in todo : h <= k    \* hosts go in order
Pos    == <<step, phase, task>>
NoPos  == <<0, 0, 0>>

\* Mutant: one failed host stops all of them.
StoppedAnyFailed(h) == endPlay \/ h \in ended \/ failed # {}

\* flags a host is checked against before a task is started on it
Stopped(h) == endPlay \/ h \in ended \/ h \in failed

\* Mutant: a throttle above forks raises them.
EffectiveForksRaised(t) == IF t > 0 THEN t ELSE play.forks

\* forks, lowered by the throttle of the task
EffectiveForks(t) == IF t > 0 /\ t < play.forks THEN t ELSE play.forks

\* resolveSerialBatchSize of the current step; the last entry repeats
BatchSize == play.serial[IF step < Len(play.serial) THEN step + 1 ELSE Len(play.serial)]

BatchEnd == IF hi + BatchSize > NHosts THEN NHosts ELSE hi + BatchSize

\* Mutant: the integer division comes before the multiplication.
ExceededDivFirst == play.pct > 0 /\ (Cardinality(bad) \div NHosts) * 100 > play.pct

\* exceededMaxFailPercentage, of all hosts of the play
Exceeded == play.pct > 0 /\ Cardinality(bad) * 100 > play.pct * NHosts

-----------------------------------------------------------------------------
Init ==
  /\ play \in Plays
  /\ pc = "batch" /\ lo = 1 /\ hi = 0 /\ step = 0 /\ phase = 1 /\ task = 1
  /\ todo = {} /\ throttle = 0 /\ sem = 0
  /\ g = [h \in Hosts |-> "none"] /\ firstErr = FALSE
  /\ beforeTask = 0 /\ beforePhase = 0 /\ failCount = 0 /\ bad = {}
  /\ failed = {} /\ ended = {} /\ endPlay = FALSE
  /\ pending = {} /\ queue = {} /\ executed = {} /\ handlerErr = FALSE
  /\ flushFailed = {} /\ ret = "final" /\ playErr = FALSE
  /\ ran = [h \in Hosts |-> 0] /\ owed = {}
  /\ failPos = NoPos

\* The loop over hostBatches: the next batch, or the code after the loop.
StartBatch ==
  /\ pc = "batch"
  /\ IF hi < NHosts
     THEN /\ lo' = hi + 1
          /\ hi' = BatchEnd
          /\ step' = step + 1 /\ phase' = 1 /\ pc' = "list"
     ELSE /\ pc' = "final"
          /\ UNCHANGED <<lo, hi, step, phase>>
  /\ UNCHANGED <<play, task, conc, counts, flags, handling, playErr, history>>

\* executeTaskList is called for the list of the phase.
StartList ==
  /\ pc = "list"
  /\ beforePhase' = failCount /\ firstErr' = FALSE /\ task' = 1 /\ pc' = "task"
  /\ UNCHANGED <<play, lo, hi, step, phase, todo, throttle, sem, g, beforeTask,
                 failCount, bad, flags, handling, playErr, history>>

\* The list is over: no task left, end_play, or no active host in the batch.
EndList ==
  /\ pc = "task"
  /\ task > play.len[phase] \/ endPlay \/ Active = {}
  /\ pc' = "after"
  /\ UNCHANGED <<play, lo, hi, step, phase, task, conc, counts, flags,
                 handling, playErr, history>>

Continuing == pc = "task" /\ task <= play.len[phase] /\ ~endPlay /\ Active # {}

\* --step and the answer was no: a skipped result for every active host.
StepSkip ==
  /\ Continuing /\ play.step
  /\ ran' = [h \in Hosts |-> IF h \in Active THEN ran[h] + 1 ELSE ran[h]]
  /\ task' = task + 1
  /\ UNCHANGED <<play, pc, lo, hi, step, phase, conc, counts, flags,
                 handling, playErr, owed, failPos>>

\* A task starts on the active hosts: a top-level meta task, one host or one
\* fork run inline, any other in goroutines.
StartTask ==
  /\ Continuing
  /\ beforeTask' = failCount
  /\ todo' = Active
  /\ throttle' \in play.throttles
  /\ \/ pc' = "meta"
     \/ pc' = IF Cardinality(Active) = 1 \/ EffectiveForks(throttle') = 1
             THEN "inline" ELSE "spawn"
  /\ UNCHANGED <<play, lo, hi, step, phase, task, sem, g, firstErr, beforePhase,
                 failCount, bad, flags, handling, playErr, history>>
-----------------------------------------------------------------------------
(* What executing one entry of the list on one host does to the shared     *)
(* state: results (failCount, bad), notifications, end_host and end_play.  *)

\* execHost: h, or the host the task is delegated to.  It is the one notified,
\* and the one end_host and clear_host_errors are about.
Target(h) == IF play.delegate THEN Hosts ELSE {h}

Notify(N, h) ==
  /\ pending' = pending \union (N \X {h})
  /\ owed' = owed \union (N \X {h})

\* A failed result that is not rescued (a Changed module notifies even then).
RecordFailure(h) ==
  /\ failCount' = failCount + 1
  /\ bad' = bad \union {h}
  /\ failPos' = IF failPos = NoPos THEN Pos ELSE failPos

\* ok, changed, skipped or ignored; an unreachable host may have been rescued
RecordSuccess(h) ==
  /\ bad' = bad \/ (play.pct > 0 /\ bad' = bad \union {h})
  /\ UNCHANGED <<failCount, failPos>>

\* The entry was executed on h; fails: with an unrescued failed result,
\* errs: with an error returned (timeout, debugger quit, include not found).
\* end_host, end_play and clear_host_errors come from a meta task inside a
\* block or an include; ok: the failed hosts without the cleared one.
Entry(h, fails, errs, ok) ==
  /\ ran' = [ran EXCEPT ![h] = @ + 1]
  /\ IF fails THEN RecordFailure(h) ELSE RecordSuccess(h)
  /\ firstErr' = (firstErr \/ errs)
  /\ \E to \in Target(h) :
       /\ \E N \in SUBSET Handlers : Notify(N, to)
       /\ ended' \in {ended, ended \union {to}}
       /\ ok \in {failed, failed \ {to}}
  /\ endPlay' \in {endPlay, TRUE}
  /\ UNCHANGED <<queue, flushing, beforeTask, beforePhase>>

-----------------------------------------------------------------------------
(* Inline: one host after the other, in the goroutine of the play.         *)

\* a host stopped meanwhile is passed over (continue)
PassOver(h) ==
  /\ pc \in {"meta", "inline", "spawn"} /\ Turn(h) /\ Stopped(h)
  /\ todo' = todo \ {h}
  /\ UNCHANGED <<play, ctl, throttle, sem, g, firstErr, counts, flags, handling,
                 playErr, history>>

\* the error of a host ends the list at once, before markHostFailed
RunInline(h) ==
  /\ pc = "inline" /\ Turn(h) /\ ~Stopped(h)
  /\ todo' = todo \ {h}
  /\ \E fails, errs \in BOOLEAN : \E ok \in SUBSET failed :
       /\ Entry(h, fails, errs, ok)
       /\ failed' = IF fails /\ ~errs THEN ok \union {h} ELSE ok
       /\ pc' = IF errs THEN "after" ELSE pc
  /\ UNCHANGED <<play, lo, hi, step, phase, task, throttle, sem, g, playErr>>

\* A meta task was executed on h.  changed_when can make it notify; a debugger
\* quit or a timeout makes it return an error.
MetaDone(h, fails, ok) ==
  /\ todo' = todo \ {h}
  /\ ran' = [ran EXCEPT ![h] = @ + 1]
  /\ IF fails THEN RecordFailure(h) ELSE UNCHANGED <<failCount, bad, failPos>>
  /\ \E N \in SUBSET Handlers : \E to \in Target(h) : Notify(N, to)
  /\ \E errs \in BOOLEAN :
       /\ firstErr' = (firstErr \/ errs)
       /\ failed' = IF fails /\ ~errs THEN ok \union {h} ELSE ok
       /\ pc' = IF errs THEN "after" ELSE "meta"
  /\ UNCHANGED <<play, lo, hi, step, phase, task, throttle, sem, g, beforeTask,
                 beforePhase, queue, flushing, playErr>>

Meta(h) == pc = "meta" /\ Turn(h) /\ ~Stopped(h)

\* The other meta actions, or a task skipped by when or tags: nothing here
\* changes; refresh_inventory and an unknown action can fail.
MetaOther(h) ==
  /\ Meta(h)
  /\ \E fails \in BOOLEAN : MetaDone(h, fails, failed)
  /\ UNCHANGED <<ended, endPlay>>

MetaClearHostErrors(h) ==
  /\ Meta(h)
  /\ \E to \in Target(h) : MetaDone(h, FALSE, failed \ {to})
  /\ UNCHANGED <<ended, endPlay>>

MetaEndHost(h) ==
  /\ Meta(h)
  /\ \E to \in Target(h) : ended' = ended \union {to}
  /\ MetaDone(h, FALSE, failed)
  /\ UNCHANGED endPlay

MetaEndPlay(h) ==
  /\ Meta(h)
  /\ endPlay' = TRUE
  /\ MetaDone(h, FALSE, failed)
  /\ UNCHANGED ended

\* flushHandlers is entered (flushMu is free: one goroutine runs here)
BeginFlush(caller) ==
  /\ pc' = "flush" /\ ret' = caller
  /\ executed' = {} /\ handlerErr' = FALSE /\ flushFailed' = {}

\* meta: flush_handlers calls flushHandlers from within the task.
MetaFlush(h) ==
  /\ Meta(h)
  /\ BeginFlush("meta")
  /\ UNCHANGED <<play, lo, hi, step, phase, task, conc, counts, flags,
                 pending, queue, playErr, history>>

\* A failed handler, of whatever host, fails the meta task of the host that
\* flushed (unless the task ignores errors), and that host; a failed item of a
\* looped handler of the host itself marks it failed as well.
MetaFlushed(h) ==
  /\ pc = "flush" /\ ret = "meta" /\ queue = {} /\ pending = {}
  /\ Turn(h)
  /\ \/ handlerErr /\ MetaDone(h, TRUE, failed)
     \/ MetaDone(h, FALSE, failed \union (flushFailed \intersect {h}))
  /\ UNCHANGED <<ended, endPlay>>

InlineDone ==
  /\ pc \in {"meta", "inline"} /\ todo = {}
  /\ pc' = "taskEnd"
  /\ UNCHANGED <<play, lo, hi, step, phase, task, conc, counts, flags,
                 handling, playErr, history>>
-----------------------------------------------------------------------------
(* Concurrent: the play's goroutine takes a token and starts a goroutine   *)
(* per host; each goroutine gives its token back when it returns.          *)

Spawn(h) ==
  /\ pc = "spawn" /\ Turn(h) /\ ~Stopped(h)
  /\ sem < EffectiveForks(throttle)
  /\ sem' = sem + 1
  /\ g' = [g EXCEPT ![h] = "spawned"]
  /\ todo' = todo \ {h}
  /\ UNCHANGED <<play, ctl, throttle, firstErr, counts, flags, handling, playErr,
                 history>>

Spawned ==
  /\ pc = "spawn" /\ todo = {}
  /\ pc' = "wait"
  /\ UNCHANGED <<play, lo, hi, step, phase, task, conc, counts, flags,
                 handling, playErr, history>>

\* the goroutine checks the flags again: end_play may have come meanwhile
GoReturnEarly(h) ==
  /\ g[h] = "spawned" /\ Stopped(h)
  /\ g' = [g EXCEPT ![h] = "none"]
  /\ sem' = sem - 1
  /\ UNCHANGED <<play, ctl, todo, throttle, firstErr, counts, flags, handling,
                 playErr, history>>

GoBegin(h) ==
  /\ g[h] = "spawned" /\ ~Stopped(h)
  /\ g' = [g EXCEPT ![h] = "running"]
  /\ UNCHANGED <<play, ctl, todo, throttle, sem, firstErr, counts, flags, handling,
                 playErr, history>>

\* executeTaskEntryForHost; an error returns without markHostFailed
GoExecute(h) ==
  /\ g[h] = "running"
  /\ \E fails, errs \in BOOLEAN :
       /\ \E ok \in SUBSET failed : Entry(h, fails, errs, ok) /\ failed' = ok
       /\ g' = [g EXCEPT ![h] = IF errs \/ ~fails THEN "returning" ELSE "failing"]
  /\ UNCHANGED <<play, ctl, todo, throttle, sem, playErr>>

GoMarkFailed(h) ==
  /\ g[h] = "failing"
  /\ failed' = failed \union {h}
  /\ g' = [g EXCEPT ![h] = "returning"]
  /\ UNCHANGED <<play, ctl, todo, throttle, sem, firstErr, counts, ended, endPlay,
                 handling, playErr, history>>

GoReturn(h) ==
  /\ g[h] = "returning"
  /\ g' = [g EXCEPT ![h] = "none"]
  /\ sem' = sem - 1
  /\ UNCHANGED <<play, ctl, todo, throttle, firstErr, counts, flags, handling,
                 playErr, history>>

\* Mutant: wg.Wait is missing.
AllReturnedNoWait == TRUE

\* wg.Wait: every goroutine of the task has returned
AllReturned == \A h \in Hosts : g[h] = "none"

Wait ==
  /\ pc = "wait" /\ AllReturned
  /\ pc' = IF firstErr THEN "after" ELSE "taskEnd"
  /\ UNCHANGED <<play, lo, hi, step, phase, task, conc, counts, flags,
                 handling, playErr, history>>
-----------------------------------------------------------------------------
\* executeTaskList after a task: end_play, then any_errors_fatal, then next.
\* Mutant: one more failure is let through.
FatalAfterTaskOffByOne == play.aef /\ failCount > beforeTask + 1

FatalAfterTask == play.aef /\ failCount > beforeTask

EndTask ==
  /\ pc = "taskEnd"
  /\ \/ /\ endPlay
        /\ pc' = "after" /\ UNCHANGED <<firstErr, task>>
     \/ /\ ~endPlay /\ FatalAfterTask
        /\ pc' = "after" /\ firstErr' = TRUE /\ UNCHANGED task
     \/ /\ ~endPlay /\ ~FatalAfterTask
        /\ pc' = "task" /\ task' = task + 1 /\ UNCHANGED firstErr
  /\ UNCHANGED <<play, lo, hi, step, phase, todo, throttle, sem, g, counts, flags,
                 handling, playErr, history>>

\* Mutant: a list cut short by end_play is not looked at.
FatalAfterListNoEndPlay == play.aef /\ ~endPlay /\ failCount > beforePhase

FatalAfterList ==
  play.aef /\ (failCount > beforePhase \/ (endPlay /\ failCount > 0))

\* ExecutePlay after a list: an error ends the play,
ListFailed ==
  /\ pc = "after" /\ (firstErr \/ FatalAfterList)
  /\ playErr' = TRUE /\ pc' = "final"
  /\ UNCHANGED <<play, lo, hi, step, phase, task, conc, counts, flags, handling,
                 history>>

\* so does end_play, without one;
ListEndsPlay ==
  /\ pc = "after" /\ ~firstErr /\ ~FatalAfterList /\ endPlay
  /\ pc' = "final"
  /\ UNCHANGED <<play, lo, hi, step, phase, task, conc, counts, flags, handling,
                 playErr, history>>

\* otherwise the notified handlers run before the next list.
ListFlush ==
  /\ pc = "after" /\ ~firstErr /\ ~FatalAfterList /\ ~endPlay
  /\ \/ pending # {} /\ BeginFlush("list")
     \/ pending = {} /\ pc' = "listEnd" /\ UNCHANGED flushing
  /\ UNCHANGED <<play, lo, hi, step, phase, task, conc, counts, flags, pending,
                 queue, playErr, history>>

NextList ==
  /\ pc = "listEnd" /\ phase < 3
  /\ phase' = phase + 1 /\ pc' = "list"
  /\ UNCHANGED <<play, lo, hi, step, task, conc, counts, flags, handling,
                 playErr, history>>

\* max_fail_percentage is looked at once per batch, at its end
EndBatch ==
  /\ pc = "listEnd" /\ phase = 3
  /\ pc' = IF Exceeded THEN "final" ELSE "batch"
  /\ playErr' = Exceeded
  /\ UNCHANGED <<play, lo, hi, step, phase, task, conc, counts, flags, handling,
                 history>>

\* after the batches: the last flush, also after an error when forced
Final ==
  /\ pc = "final"
  /\ IF pending # {} /\ (~playErr \/ play.force)
     THEN BeginFlush("final")
     ELSE pc' = "done" /\ UNCHANGED flushing
  /\ UNCHANGED <<play, lo, hi, step, phase, task, conc, counts, flags, pending,
                 queue, playErr, history>>
-----------------------------------------------------------------------------
(* flushHandlers.  A round takes everything pending and runs it in the     *)
(* order the handlers are defined in; the order of the hosts within one    *)
(* handler is left open.                                                   *)

TakePending ==
  /\ pc = "flush" /\ queue = {} /\ pending # {}
  /\ queue' = pending /\ pending' = {}
  /\ UNCHANGED <<play, ctl, conc, counts, flags, flushing, playErr, history>>

\* p is taken off the queue; handlers go in definition order
Dequeue(p) ==
  /\ pc = "flush" /\ p \in queue
  /\ \A q \in queue : p[1] <= q[1]
  /\ queue' = queue \ {p}

\* Mutants: force_handlers is ignored; executedHandlers is not consulted.
RunnableNotForced(p) == p[2] \notin failed
AlreadyRanNever(p)   == FALSE

\* a failed host gets its handlers only when they are forced
Runnable(p)   == p[2] \notin failed \/ play.force
AlreadyRan(p) == p \in executed

SkipHandler(p) ==
  /\ Dequeue(p)
  /\ ~Runnable(p) \/ AlreadyRan(p)
  /\ owed' = IF p[2] \in failed /\ ~play.force THEN owed \ {p} ELSE owed
  /\ UNCHANGED <<play, ctl, conc, counts, flags, pending, flushing, playErr,
                 ran, failPos>>

\* The handler runs (or its when is false: no failure, no change).  A failure
\* is an error of the module; in a looped handler it is recorded and nothing
\* more.  A change notifies the handler's own notify list.
RunHandler(p) ==
  /\ Dequeue(p)
  /\ Runnable(p) /\ ~AlreadyRan(p)
  /\ executed' = executed \union {p}
  /\ \E fails, changed \in BOOLEAN :
       LET marks == fails /\ p[1] \notin play.looped
           next  == IF changed THEN play.chain[p[1]] \X {p[2]} ELSE {}
       IN /\ failCount' = IF fails THEN failCount + 1 ELSE failCount
          /\ bad' = IF fails THEN bad \union {p[2]} ELSE bad
          /\ flushFailed' = IF fails THEN flushFailed \union {p[2]} ELSE flushFailed
          /\ failed' = IF marks THEN failed \union {p[2]} ELSE failed
          /\ handlerErr' = (handlerErr \/ marks)
          /\ pending' = pending \union next
          /\ owed' = (owed \ {p}) \union (next \ executed')
  /\ UNCHANGED <<play, ctl, conc, beforeTask, beforePhase, ended, endPlay, ret,
                 playErr, ran, failPos>>

Flushed ==
  /\ pc = "flush" /\ ret # "meta" /\ queue = {} /\ pending = {}
  /\ playErr' = (playErr \/ handlerErr)
  /\ pc' = IF ret = "final" THEN "done" ELSE IF handlerErr THEN "final" ELSE "listEnd"
  /\ UNCHANGED <<play, lo, hi, step, phase, task, conc, counts, flags, handling,
                 history>>
-----------------------------------------------------------------------------
PlayStep ==
  \/ StartBatch \/ StartList \/ EndList \/ StepSkip \/ StartTask
  \/ \E h \in Hosts :
       \/ PassOver(h) \/ RunInline(h) \/ Spawn(h)
       \/ MetaOther(h) \/ MetaClearHostErrors(h) \/ MetaEndHost(h) \/ MetaEndPlay(h)
       \/ MetaFlush(h) \/ MetaFlushed(h)
  \/ InlineDone \/ Spawned \/ Wait \/ EndTask
  \/ ListFailed \/ ListEndsPlay \/ ListFlush \/ NextList \/ EndBatch \/ Final
  \/ TakePending \/ Flushed
  \/ \E p \in Pairs : SkipHandler(p) \/ RunHandler(p)

HostStep(h) ==
  GoReturnEarly(h) \/ GoBegin(h) \/ GoExecute(h) \/ GoMarkFailed(h) \/ GoReturn(h)

\* ExecutePlay has returned
Returned == pc = "done" /\ UNCHANGED vars

Next == PlayStep \/ (\E h \in Hosts : HostStep(h)) \/ Returned

Spec == Init /\ [][Next]_vars

\* Every goroutine that can run is run, and every module call returns.
FairSpec == Spec /\ WF_vars(PlayStep) /\ \A h \in Hosts : WF_vars(HostStep(h))
-----------------------------------------------------------------------------
Pcs == {"batch", "list", "task", "meta", "inline", "spawn", "wait", "taskEnd",
        "after", "listEnd", "flush", "final", "done"}

\* The types of the variables.
TypeOK ==
  /\ play \in Plays
  /\ pc \in Pcs /\ ret \in {"list", "meta", "final"}
  /\ lo \in Nat \ {0} /\ hi \in 0..NHosts /\ step \in Nat
  /\ phase \in Phases /\ task \in Nat
  /\ todo \subseteq Hosts /\ throttle \in Nat /\ sem \in Int
  /\ g \in [Hosts -> {"none", "spawned", "running", "failing", "returning"}]
  /\ firstErr \in BOOLEAN /\ handlerErr \in BOOLEAN /\ playErr \in BOOLEAN
  /\ beforeTask \in Nat /\ beforePhase \in Nat /\ failCount \in Nat
  /\ bad \subseteq Hosts /\ failed \subseteq Hosts /\ ended \subseteq Hosts
  /\ endPlay \in BOOLEAN /\ flushFailed \subseteq Hosts
  /\ pending \subseteq Pairs /\ queue \subseteq Pairs
  /\ executed \subseteq Pairs /\ owed \subseteq Pairs
  /\ ran \in [Hosts -> Nat] /\ failPos \in Nat \X Nat \X Nat

\* The linear strategy is a barrier (wg.Wait): two hosts of the batch that are
\* still in the play, and never failed, are never more than one task apart.
LockStep ==
  \A h, k \in Active \ bad : ran[h] <= ran[k] + 1

\* The semaphore bounds the goroutines: no more than forks hosts, and no more
\* than the task's throttle, are in executeTaskForBatchHosts' goroutines.
ForksBound ==
  LET busy == Cardinality({h \in Hosts : g[h] # "none"})
  IN busy <= play.forks /\ (throttle > 0 => busy <= throttle)

\* ExecutePlay returned no error and nobody ended the play: every host that
\* never failed and was not ended has a result for every task of the three
\* lists, whatever batch it was in and whatever happened to the other hosts.
NoHostLeftBehind ==
  (pc = "done" /\ ~playErr /\ ~endPlay) =>
    \A h \in Hosts \ (bad \union ended) :
      ran[h] = play.len[1] + play.len[2] + play.len[3]

\* any_errors_fatal: while a task is being executed, no earlier task of the
\* play has failed, in this batch or in one before it.
AnyErrorsFatalStops ==
  (play.aef /\ failPos # NoPos
     /\ (pc \in {"meta", "inline", "spawn", "wait"} \/ (pc = "flush" /\ ret = "meta")))
  => failPos = Pos

\* any_errors_fatal: a play in which a task failed returns an error, also when
\* an end_play cut the same task short.
AnyErrorsFatalReported ==
  (play.aef /\ failPos # NoPos /\ pc = "done") => playErr

\* end_play: no host begins an entry any more; the ones in the middle of one
\* finish it.
EndPlayStops ==
  [][endPlay => /\ \A h \in Hosts : g'[h] = "running" => g[h] = "running"
                /\ \A h \in Hosts : ran'[h] # ran[h] =>
                     g[h] = "running" \/ (pc = "flush" /\ ret = "meta")]_vars

\* No notification is lost: when the next list or batch starts, and when the
\* play returns without an error or forces its handlers, each notified handler
\* has run since, except where it was flushed while its host had failed and
\* handlers were not forced, or notified again by a handler of the same flush.
HandlersSettled ==
  (pc \in {"list", "batch"} \/ (pc = "done" /\ (~playErr \/ play.force)))
    => owed = {}

\* max_fail_percentage: when a batch starts, the hosts that failed so far are
\* not more than that share of the hosts of the play.
MaxFailStops ==
  [][step' # step /\ play.pct > 0 =>
       Cardinality(failed) * 100 <= play.pct * NHosts]_vars

\* A play always returns: no goroutine waits forever for a token or for
\* another one, and a flush in which handlers notify each other ends.
PlayReturns == <>(pc = "done")
=============================================================================
