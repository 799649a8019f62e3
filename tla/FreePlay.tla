------------------------------ MODULE FreePlay ------------------------------
(***************************************************************************)
(* A list of tasks under strategy: free, and the flush that follows it:    *)
(* executeTasksFreeStrategy gives each host of the batch a goroutine, and  *)
(* each goroutine walks the whole list by itself.  What LinearPlay takes   *)
(* as one outcome is opened up here: blocks with rescue and always,        *)
(* run_once, task timeouts, and meta: flush_handlers run by one host while *)
(* the others go on.                                                       *)
(*                                                                         *)
(* A task that is not a block behaves like a block of one leaf.  Includes, *)
(* loops, blocks within blocks, when and delegation are not modelled; what *)
(* clears an error (ignore_errors) is one of the outcomes of a leaf.       *)
(*                                                                         *)
(* Each action is what a goroutine does between two points where another   *)
(* can see or change what it uses: the flags, the results of a host, the   *)
(* pending handlers, the tokens.                                           *)
(***************************************************************************)
EXTENDS Integers, FiniteSets, Sequences

CONSTANTS
  NHosts,     \* the hosts of the batch are 1..NHosts; 1 is the first of the play
  NHandlers,  \* the handlers are 1..NHandlers, in definition order
  Plays       \* the plays a run may be given

Hosts    == 1..NHosts
Handlers == 1..NHandlers
Pairs    == Handlers \X Hosts
Main     == 0                  \* the goroutine of ExecutePlay
Nobody   == -1

\* once: the key of a run_once task, 0 if it is none; timed: it has a timeout
Leaf  == [kind : {"module", "flush", "endHost", "endPlay"}, notify : SUBSET Handlers,
          once : Nat, timed : BOOLEAN]
Entry == [block : Seq(Leaf), rescue : Seq(Leaf), always : Seq(Leaf), throttle : Nat]
Play  == [forks : Nat \ {0}, tasks : Seq(Entry), aef : BOOLEAN, force : BOOLEAN,
          step : BOOLEAN, debugger : BOOLEAN, chain : [Handlers -> SUBSET Handlers]]

\* the keys of the run_once tasks
Elements(s) == {s[k] : k \in DOMAIN s}
Entries     == UNION {Elements(p.tasks) : p \in Plays}
Keys ==
  {l.once : l \in UNION {Elements(e.block) \union Elements(e.rescue) \union Elements(e.always) :
                          e \in Entries}} \ {0}

ASSUME HostsAssumption == NHosts \in Nat /\ NHandlers \in Nat
ASSUME PlaysAssumption ==
  \A p \in Plays : p \in Play /\ \A k \in DOMAIN p.tasks : p.tasks[k].block # <<>>

VARIABLES
  play,         \* the play being run (never changes)
  pc,           \* where the goroutine of ExecutePlay is
  todo,         \* hosts it has not yet looked at
  sem,          \* tokens in the semaphore of the forks
  tSem,         \* tokens in the semaphore of each throttled task
  g,            \* where the goroutine of each host is
  at,           \* the task it is at
  sec, leaf,    \* section of the block (block, rescue, always), leaf of it
  out,          \* outcome of the leaf, before it is appended to the results
  before,       \* results when the task began (before)
  beforeBlock, beforeRescue,
  blockErr, alwaysErr,
  failures,     \* the failed results of each host: [rescued, own]
  failed, ended, endPlay, stepMode, runOnce,
  firstErr, playErr,
  pending,      \* pendingHandlers
  flusher,      \* who holds flushMu
  queue, executed, handlerErr,   \* its locals in flushHandlers
  marking,      \* the handler that ran, its host not yet marked failed
  late,         \* hosts with a goroutine that a timeout left behind
  \* history, for the properties only
  owed,         \* notifications not yet answered by a run of the handler
  dismissed,    \* those a flush has dropped: host failed, or handler run already
  alwaysRuns    \* leaves of the always section run, for each host

main     == <<pc, todo, firstErr, playErr>>
tokens   == <<sem, tSem>>
place    == <<at, sec, leaf, alwaysRuns>>
where    == <<g, place>>
marks    == <<before, beforeBlock, beforeRescue>>
errs     == <<blockErr, alwaysErr>>
flags    == <<failed, ended, endPlay>>
flush    == <<flusher, queue, executed, handlerErr, marking>>
handling == <<pending, flush, owed, dismissed>>
vars     == <<play, main, tokens, where, out, marks, errs, failures, flags, stepMode,
              runOnce, handling, late>>

NoPair == <<0, 0>>
NoResult == [fails |-> FALSE, errs |-> FALSE]

Inline == NHosts = 1 \/ play.forks = 1
Task(h) == play.tasks[at[h]]
Section(h) ==
  CASE sec[h] = "block" -> Task(h).block [] sec[h] = "rescue" -> Task(h).rescue
    [] sec[h] = "always" -> Task(h).always
Current(h) == Section(h)[leaf[h]]

Count(h)         == Len(failures[h])

HasFailure(h, n) == \E k \in (n + 1)..Count(h) : ~failures[h][k].rescued

Goto(h, l) == g' = [g EXCEPT ![h] = l]

Init ==
  /\ play \in Plays /\ stepMode = play.step
  /\ pc = "start" /\ todo = Hosts /\ firstErr = FALSE /\ playErr = FALSE
  /\ sem = 0 /\ tSem = [k \in DOMAIN play.tasks |-> 0]
  /\ g = [h \in Hosts |-> "none"] /\ at = [h \in Hosts |-> 1]
  /\ sec = [h \in Hosts |-> "block"] /\ leaf = [h \in Hosts |-> 1]
  /\ out = [h \in Hosts |-> NoResult]
  /\ before = [h \in Hosts |-> 0] /\ beforeBlock = before /\ beforeRescue = before
  /\ blockErr = [h \in Hosts |-> FALSE] /\ alwaysErr = blockErr
  /\ failures = [h \in Hosts |-> <<>>]
  /\ failed = {} /\ ended = {} /\ endPlay = FALSE
  /\ runOnce = {}
  /\ pending = {} /\ flusher = Nobody /\ queue = {} /\ executed = {}
  /\ handlerErr = FALSE /\ marking = NoPair /\ owed = {} /\ late = {}
  /\ dismissed = {} /\ alwaysRuns = [h \in Hosts |-> 0]
-----------------------------------------------------------------------------
(* The goroutine of the play                                               *)

\* Mutant: one failed host stops them all.
StoppedAnyFailed(h) == endPlay \/ h \in ended \/ failed # {}

Stopped(h) == endPlay \/ h \in ended \union failed

\* hosts are started in order
Turn(h) == pc = "start" /\ h \in todo /\ \A k \in todo : h <= k

PassOver(h) ==
  /\ Turn(h) /\ Stopped(h)
  /\ todo' = todo \ {h}
  /\ UNCHANGED <<play, pc, firstErr, playErr, tokens, where, out, marks, errs, failures,
                 flags, stepMode, runOnce, handling, late>>

\* a goroutine for the host; with one fork or one host it is run inline
Start(h) ==
  /\ Turn(h) /\ ~Stopped(h) /\ sem < play.forks
  /\ sem' = sem + 1 /\ todo' = todo \ {h} /\ Goto(h, "loop")
  /\ UNCHANGED <<play, pc, firstErr, playErr, tSem, place, out, marks, errs,
                 failures, flags, stepMode, runOnce, handling, late>>

AnyFailure == \E h \in Hosts : HasFailure(h, 0)

\* Mutant: failures are forgotten when the list ended without an error.
FatalAfterListNever == FALSE

\* with any_errors_fatal, end_play counts as a failure
FatalAfterList == play.aef /\ (endPlay \/ AnyFailure)

\* wg.Wait, and what executeTasksFreeStrategy returns
ListDone ==
  /\ pc = "start" /\ todo = {} /\ sem = 0
  /\ playErr' = (firstErr \/ FatalAfterList)
  /\ pc' = IF playErr' \/ endPlay THEN "final" ELSE IF pending = {} THEN "post" ELSE "flush"
  /\ UNCHANGED <<play, todo, firstErr, tokens, where, out, marks, errs, failures,
                 flags, stepMode, runOnce, handling, late>>

\* after post_tasks, of which there are none
Post ==
  /\ pc = "post" /\ pc' = IF pending = {} THEN "final" ELSE "postFlush"
  /\ UNCHANGED <<play, todo, firstErr, playErr, tokens, where, out, marks, errs,
                 failures, flags, stepMode, runOnce, handling, late>>

\* at the end of the play handlers still pending are flushed
Final ==
  /\ pc = "final"
  /\ pc' = IF pending # {} /\ (~playErr \/ play.force) THEN "finalFlush" ELSE "done"
  /\ UNCHANGED <<play, todo, firstErr, playErr, tokens, where, out, marks, errs,
                 failures, flags, stepMode, runOnce, handling, late>>

\* what follows a flush of the play
AfterFlush ==
  CASE pc = "finalFlush" -> "done"
    [] pc = "flush" /\ ~handlerErr -> "post"
    [] OTHER -> "final"
-----------------------------------------------------------------------------
(* The goroutine of a host walks the list                                  *)

Begin(h) ==
  /\ g[h] = "loop" /\ ~Stopped(h) /\ at[h] <= Len(play.tasks)
  /\ Goto(h, IF stepMode THEN "prompt" ELSE "throttle")
  /\ UNCHANGED <<play, main, tokens, place, out, marks, errs, failures, flags,
                 stepMode, runOnce, handling, late>>

\* yes or continue (for all hosts); another goroutine may have said so
Confirm(h) ==
  /\ g[h] = "prompt" /\ Goto(h, "throttle")
  /\ stepMode' \in {stepMode, FALSE}
  /\ UNCHANGED <<play, main, tokens, place, out, marks, errs, failures, flags,
                 runOnce, handling, late>>

Decline(h) ==
  /\ g[h] = "prompt" /\ stepMode
  /\ Goto(h, "loop") /\ at' = [at EXCEPT ![h] = @ + 1]
  /\ UNCHANGED <<play, main, tokens, sec, leaf, alwaysRuns, out, marks, errs, failures, flags,
                 stepMode, runOnce, handling, late>>

Throttled(h) == Task(h).throttle > 0 /\ ~Inline

\* getTaskThrottleSem: a token of the task, then the entry begins
Enter(h) ==
  /\ g[h] = "throttle"
  /\ Throttled(h) => tSem[at[h]] < Task(h).throttle
  /\ tSem' = [tSem EXCEPT ![at[h]] = @ + 1]
  /\ before' = [before EXCEPT ![h] = Count(h)]
  /\ Goto(h, "entry")
  /\ UNCHANGED <<play, main, sem, place, out, beforeBlock, beforeRescue, errs,
                 failures, flags, stepMode, runOnce, handling, late>>

\* executeBlockTaskForHost
EnterBlock(h) ==
  /\ g[h] = "entry" /\ Goto(h, "leaf")
  /\ beforeBlock' = [beforeBlock EXCEPT ![h] = Count(h)]
  /\ UNCHANGED <<play, main, tokens, place, out, before, beforeRescue, errs, failures,
                 flags, stepMode, runOnce, handling, late>>
-----------------------------------------------------------------------------
(* Leaves                                                                  *)

\* the effects of a leaf come first, its result is appended afterwards
Outcome(h, fails, err) ==
  /\ out' = [out EXCEPT ![h] = [fails |-> fails, errs |-> err]]
  /\ Goto(h, "result")

\* notifyHandlers; what is pending already is not added again
Notify(N, h) ==
  /\ pending' = pending \union (N \X {h})
  /\ owed' = owed \union (N \X {h})
  /\ dismissed' = dismissed \ (N \X {h})

\* executed already, or not the first host of the play
SkippedOnce(h) == Current(h).once # 0 /\ (Current(h).once \in runOnce \/ h # 1)

ExecutesOnce(h) ==
  LET key == Current(h).once
  IN runOnce' = IF key = 0 THEN runOnce ELSE runOnce \union {key}

AtLeaf(h, kinds) == g[h] = "leaf" /\ ~SkippedOnce(h) /\ Current(h).kind \in kinds

SkipOnce(h) ==
  /\ g[h] = "leaf" /\ SkippedOnce(h)
  /\ Outcome(h, FALSE, FALSE)
  /\ UNCHANGED <<play, main, tokens, place, marks, errs, failures, flags, stepMode,
                 runOnce, handling, late>>

\* executeTaskWithEnv: the only error is that the debugger was told to quit
RunModule(h) ==
  /\ AtLeaf(h, {"module"}) /\ ExecutesOnce(h)
  /\ \E fails, err, changed \in BOOLEAN :
       /\ err => play.debugger /\ ~changed
       /\ Outcome(h, fails, err)
       /\ Notify(IF changed THEN Current(h).notify ELSE {}, h)
  /\ UNCHANGED <<play, main, tokens, place, marks, errs, failures, flags, stepMode,
                 flush, late>>

\* the timeout comes first: a failed result and an error, unless errors are
\* ignored, and the module goes on in a goroutine nobody waits for
TimeOut(h) ==
  /\ AtLeaf(h, {"module"}) /\ Current(h).timed /\ ExecutesOnce(h)
  /\ \E ignored \in BOOLEAN : Outcome(h, ~ignored, ~ignored)
  /\ late' = late \union {<<Current(h).notify, h>>}
  /\ UNCHANGED <<play, main, tokens, place, marks, errs, failures, flags, stepMode,
                 handling>>

\* its result is thrown away, its notifications are not
Late(l) ==
  /\ l \in late /\ late' = late \ {l}
  /\ \E changed \in BOOLEAN :
       pending' = IF changed THEN pending \union (l[1] \X {l[2]}) ELSE pending
  /\ UNCHANGED <<play, main, tokens, where, out, marks, errs, failures, flags, stepMode,
                 runOnce, flush, owed, dismissed>>

MetaEnd(h) ==
  /\ AtLeaf(h, {"endHost", "endPlay"}) /\ ExecutesOnce(h)
  /\ IF Current(h).kind = "endPlay"
     THEN endPlay' = TRUE /\ UNCHANGED ended
     ELSE ended' = ended \union {h} /\ UNCHANGED endPlay
  /\ Outcome(h, FALSE, FALSE)
  /\ UNCHANGED <<play, main, tokens, place, marks, errs, failures, failed, stepMode,
                 handling, late>>

MetaFlush(h) ==
  /\ AtLeaf(h, {"flush"}) /\ ExecutesOnce(h) /\ Goto(h, "flush")
  /\ UNCHANGED <<play, main, tokens, place, out, marks, errs, failures, flags, stepMode,
                 handling, late>>

AddFailure(h, own) ==
  failures' = [failures EXCEPT ![h] = Append(@, [rescued |-> FALSE, own |-> own])]

AppendResult(h) ==
  /\ g[h] = "result"
  /\ IF out[h].fails THEN AddFailure(h, TRUE) ELSE UNCHANGED failures
  /\ alwaysRuns' = IF sec[h] = "always" THEN [alwaysRuns EXCEPT ![h] = @ + 1]
                   ELSE alwaysRuns
  /\ out' = [out EXCEPT ![h].fails = FALSE] /\ Goto(h, "next")
  /\ UNCHANGED <<play, main, tokens, at, sec, leaf, marks, errs, flags, stepMode,
                 runOnce, handling, late>>
-----------------------------------------------------------------------------
(* Blocks                                                                  *)

\* Mutant: an error ends the always section too.
FailsHereAnywhere(h) ==
  \/ out[h].errs
  \/ sec[h] = "block" /\ HasFailure(h, beforeBlock[h])
  \/ sec[h] = "rescue" /\ HasFailure(h, beforeRescue[h])

\* what ends the section early: always goes on whatever happens in it
FailsHere(h) ==
  \/ sec[h] = "block" /\ (out[h].errs \/ HasFailure(h, beforeBlock[h]))
  \/ sec[h] = "rescue" /\ (out[h].errs \/ HasFailure(h, beforeRescue[h]))

NextLeaf(h) ==
  /\ g[h] = "next" /\ leaf[h] < Len(Section(h)) /\ ~FailsHere(h)
  /\ leaf' = [leaf EXCEPT ![h] = @ + 1] /\ Goto(h, "leaf")
  /\ alwaysErr' = [alwaysErr EXCEPT ![h] = @ \/ (sec[h] = "always" /\ out[h].errs)]
  /\ UNCHANGED <<play, main, tokens, at, sec, alwaysRuns, out, marks, blockErr, failures,
                 flags, stepMode, runOnce, handling, late>>

SectionOver(h, s) ==
  g[h] = "next" /\ sec[h] = s /\ (FailsHere(h) \/ leaf[h] = Len(Section(h)))

\* the first leaf of a section, or the end of the entry
Enters(h, s) ==
  LET body == IF s = "rescue" THEN Task(h).rescue ELSE Task(h).always
  IN IF body = <<>> THEN Goto(h, "end") /\ UNCHANGED <<sec, leaf>>
     ELSE /\ sec' = [sec EXCEPT ![h] = s] /\ leaf' = [leaf EXCEPT ![h] = 1]
          /\ Goto(h, "leaf")

\* a failed block is answered by its rescue section, if it has one
EndBlock(h) ==
  /\ SectionOver(h, "block")
  /\ blockErr' = [blockErr EXCEPT ![h] = out[h].errs]
  /\ IF FailsHere(h) /\ Task(h).rescue # <<>>
     THEN /\ beforeRescue' = [beforeRescue EXCEPT ![h] = Count(h)]
          /\ failed' = failed \ {h}
          /\ Enters(h, "rescue")
     ELSE Enters(h, "always") /\ UNCHANGED <<beforeRescue, failed>>
  /\ UNCHANGED <<play, main, tokens, at, alwaysRuns, out, before, beforeBlock, alwaysErr,
                 failures, ended, endPlay, stepMode, runOnce, handling, late>>

\* MarkRescued, of the results between beforeBlock and beforeRescue
Rescued(h) == [k \in 1..Count(h) |->
  [failures[h][k] EXCEPT !.rescued = @ \/ k \in (beforeBlock[h] + 1)..beforeRescue[h]]]

EndRescue(h) ==
  /\ SectionOver(h, "rescue")
  /\ IF FailsHere(h)
     THEN /\ blockErr' = [blockErr EXCEPT ![h] = @ \/ out[h].errs]
          /\ UNCHANGED <<failures, failed>>
     ELSE /\ blockErr' = [blockErr EXCEPT ![h] = FALSE]
          /\ failures' = [failures EXCEPT ![h] = Rescued(h)]
          /\ failed' = failed \ {h}
  /\ Enters(h, "always")
  /\ UNCHANGED <<play, main, tokens, at, alwaysRuns, out, marks, alwaysErr, ended,
                 endPlay, stepMode, runOnce, handling, late>>

EndAlways(h) ==
  /\ SectionOver(h, "always") /\ Goto(h, "end")
  /\ alwaysErr' = [alwaysErr EXCEPT ![h] = @ \/ out[h].errs]
  /\ UNCHANGED <<play, main, tokens, place, out, marks, blockErr, failures, flags,
                 stepMode, runOnce, handling, late>>

\* an error ends the goroutine, or all of the list when there is one goroutine
EndByError(h) ==
  /\ blockErr[h] \/ alwaysErr[h]
  /\ firstErr' = TRUE
  /\ endPlay' = (endPlay \/ (play.aef /\ ~Inline))
  /\ todo' = IF Inline THEN {} ELSE todo
  /\ sem' = sem - 1 /\ Goto(h, "quit")
  /\ UNCHANGED <<at, failed>>

FailedEntry(h) == HasFailure(h, before[h])

\* a failure without an error marks the host
EndNormally(h) ==
  /\ ~blockErr[h] /\ ~alwaysErr[h]
  /\ failed' = IF FailedEntry(h) THEN failed \union {h} ELSE failed
  /\ endPlay' = (endPlay \/ (play.aef /\ FailedEntry(h)))
  /\ at' = [at EXCEPT ![h] = @ + 1] /\ Goto(h, "loop")
  /\ UNCHANGED <<todo, sem, firstErr>>

\* the locals of the entry are gone with it
Forget(h) ==
  /\ before' = [before EXCEPT ![h] = 0]
  /\ beforeBlock' = [beforeBlock EXCEPT ![h] = 0]
  /\ beforeRescue' = [beforeRescue EXCEPT ![h] = 0]
  /\ out' = [out EXCEPT ![h] = NoResult]
  /\ sec' = [sec EXCEPT ![h] = "block"] /\ leaf' = [leaf EXCEPT ![h] = 1]
  /\ alwaysRuns' = [alwaysRuns EXCEPT ![h] = 0]

GivenBack(h) == 1

EndEntry(h) ==
  /\ g[h] = "end"
  /\ EndByError(h) \/ EndNormally(h)
  /\ tSem' = [tSem EXCEPT ![at[h]] = @ - GivenBack(h)]
  /\ Forget(h)
  /\ UNCHANGED <<play, pc, playErr, errs, failures, ended, stepMode, runOnce, handling, late>>

EndHost(h) ==
  /\ g[h] = "loop" /\ (Stopped(h) \/ at[h] > Len(play.tasks))
  /\ sem' = sem - 1 /\ Goto(h, "quit")
  /\ UNCHANGED <<play, main, tSem, place, out, marks, errs, failures, flags, stepMode,
                 runOnce, handling, late>>
-----------------------------------------------------------------------------
(* flushHandlers, by the goroutine of a host or by the one of the play     *)

Flusher(a) == flusher = a /\ marking = NoPair

Calls(a) == IF a = Main THEN pc \in {"flush", "postFlush", "finalFlush"} ELSE g[a] = "flush"

AcquireFlush(a) ==
  /\ Calls(a) /\ flusher = Nobody
  /\ flusher' = a
  /\ UNCHANGED <<play, main, tokens, where, out, marks, errs, failures, flags, stepMode,
                 runOnce, pending, queue, executed, handlerErr, marking, owed, dismissed, late>>

\* Mutant: a round leaves out the hosts that have failed, forced or not.
RoundOfTheLiving == {p \in pending : p[2] \notin failed}

Round == pending

TakePending(a) ==
  /\ Flusher(a) /\ queue = {} /\ pending # {}
  /\ queue' = Round /\ pending' = {}
  /\ UNCHANGED <<play, main, tokens, where, out, marks, errs, failures, flags, stepMode,
                 runOnce, flusher, executed, handlerErr, marking, owed, dismissed, late>>

\* in the order of definition; hosts in the order they notified, which is any
Takes(a, p) ==
  Flusher(a) /\ p \in queue /\ (\A q \in queue : p[1] <= q[1]) /\ queue' = queue \ {p}

\* Mutant: handlers that ran already are run again.
DismissesFailed(p) == p[2] \in failed /\ ~play.force

Dismisses(p) == (p[2] \in failed /\ ~play.force) \/ p \in executed

SkipHandler(a, p) ==
  /\ Takes(a, p) /\ Dismisses(p)
  /\ dismissed' = dismissed \union {p}
  /\ UNCHANGED <<play, main, tokens, where, out, marks, errs, failures, flags, stepMode,
                 runOnce, pending, flusher, executed, handlerErr, marking, owed, late>>

\* Its when is false, or its module runs and the handler succeeds; it may notify.
HandlerSucceeds(p) ==
  /\ \E changed \in BOOLEAN :
       LET N == IF changed THEN play.chain[p[1]] ELSE {}
       IN /\ pending' = pending \union (N \X {p[2]})
          /\ owed' = (owed \ {p}) \union (N \X {p[2]})
          /\ dismissed' = dismissed \ (N \X {p[2]})
  /\ UNCHANGED <<failures, marking>>

\* the failed result is in the list before the host is marked
HandlerFails(p) ==
  /\ AddFailure(p[2], FALSE) /\ marking' = p /\ owed' = owed \ {p}
  /\ UNCHANGED <<pending, dismissed>>

RunHandler(a, p) ==
  /\ Takes(a, p) /\ ~Dismisses(p)
  /\ executed' = executed \union {p}
  /\ HandlerSucceeds(p) \/ HandlerFails(p)
  /\ UNCHANGED <<play, main, tokens, where, out, marks, errs, flags, stepMode, runOnce,
                 flusher, handlerErr, late>>

\* a handler that failed may have changed something too, and notifies
MarkHandlerFailed(a) ==
  /\ flusher = a /\ marking # NoPair /\ marking' = NoPair
  /\ failed' = failed \union {marking[2]} /\ handlerErr' = TRUE
  /\ \E changed \in BOOLEAN : Notify(IF changed THEN play.chain[marking[1]] ELSE {}, marking[2])
  /\ UNCHANGED <<play, main, tokens, where, out, marks, errs, failures, ended, endPlay,
                 stepMode, runOnce, flusher, queue, executed, late>>

\* handlers may have notified others, and other hosts too
RoundsOver == queue = {} /\ pending = {}

\* The error fails the meta task, unless it ignores errors, or is the play's;
\* an error that the play had before stays when the flush succeeds.
ReleaseFlush(a) ==
  /\ Flusher(a) /\ RoundsOver
  /\ flusher' = Nobody /\ executed' = {} /\ handlerErr' = FALSE
  /\ IF a = Main
     THEN playErr' = (playErr \/ handlerErr) /\ pc' = AfterFlush /\ UNCHANGED <<g, out>>
     ELSE /\ \E ignored \in BOOLEAN : Outcome(a, handlerErr /\ ~ignored, FALSE)
          /\ UNCHANGED <<pc, playErr>>
  /\ UNCHANGED <<play, todo, firstErr, tokens, place, marks, errs, failures, flags,
                 stepMode, runOnce, pending, queue, marking, owed, dismissed, late>>
-----------------------------------------------------------------------------
Returned == pc = "done" /\ late = {} /\ UNCHANGED vars

Walk(h) ==
  \/ Begin(h) \/ Confirm(h) \/ Decline(h) \/ Enter(h) \/ EnterBlock(h)
  \/ SkipOnce(h) \/ RunModule(h) \/ TimeOut(h) \/ MetaEnd(h) \/ MetaFlush(h)
  \/ AppendResult(h) \/ NextLeaf(h) \/ EndBlock(h) \/ EndRescue(h) \/ EndAlways(h)
  \/ EndEntry(h) \/ EndHost(h)

Flush(a) ==
  \/ AcquireFlush(a) \/ TakePending(a) \/ MarkHandlerFailed(a) \/ ReleaseFlush(a)
  \/ \E p \in queue : SkipHandler(a, p) \/ RunHandler(a, p)

MainStep == (\E h \in Hosts : PassOver(h) \/ Start(h)) \/ ListDone \/ Post \/ Final

Next ==
  \/ MainStep
  \/ \E h \in Hosts : Walk(h)
  \/ \E a \in Hosts \union {Main} : Flush(a)
  \/ \E l \in late : Late(l)
  \/ Returned

\* Every goroutine that can go on does; modules and prompts end.  Nothing is asked
\* of the order in which a channel or a mutex serves the goroutines waiting for it.
Fairness ==
  /\ WF_vars(MainStep) /\ WF_vars(\E l \in late : Late(l))
  /\ \A h \in Hosts : WF_vars(Walk(h))
  /\ \A a \in Hosts \union {Main} : WF_vars(Flush(a))

Spec == Init /\ [][Next]_vars /\ Fairness

-----------------------------------------------------------------------------
(* Properties                                                              *)

\* Each variable has values the code gives it; the results of a host only grow
\* by failures of its own leaves and of its handlers.
TypeOK ==
  /\ play \in Plays /\ pc \in {"start", "flush", "post", "postFlush", "final", "finalFlush", "done"}
  /\ todo \subseteq Hosts /\ sem \in 0..play.forks /\ firstErr \in BOOLEAN /\ playErr \in BOOLEAN
  /\ tSem \in [DOMAIN play.tasks -> Nat]
  /\ g \in [Hosts -> {"none", "loop", "prompt", "throttle", "entry", "leaf", "result",
                      "next", "flush", "end", "quit"}]
  /\ at \in [Hosts -> 1..(Len(play.tasks) + 1)]
  /\ sec \in [Hosts -> {"block", "rescue", "always"}] /\ leaf \in [Hosts -> Nat \ {0}]
  /\ out \in [Hosts -> [fails : BOOLEAN, errs : BOOLEAN]]
  /\ blockErr \in [Hosts -> BOOLEAN] /\ alwaysErr \in [Hosts -> BOOLEAN]
  /\ failures \in [Hosts -> Seq([rescued : BOOLEAN, own : BOOLEAN])]
  /\ before \in [Hosts -> Nat] /\ beforeBlock \in [Hosts -> Nat] /\ beforeRescue \in [Hosts -> Nat]
  /\ \A h \in Hosts : before[h] <= Count(h) /\ beforeBlock[h] <= Count(h) /\ beforeRescue[h] <= Count(h)
  /\ failed \union ended \subseteq Hosts /\ endPlay \in BOOLEAN /\ stepMode \in BOOLEAN
  /\ pending \union queue \union executed \union owed \union dismissed \subseteq Pairs
  /\ flusher \in Hosts \union {Main, Nobody} /\ marking \in Pairs \union {NoPair}
  /\ handlerErr \in BOOLEAN /\ late \subseteq (SUBSET Handlers) \X Hosts
  /\ runOnce \subseteq Keys /\ alwaysRuns \in [Hosts -> Nat]

Running(h)  == g[h] \notin {"none", "quit"}
Within(h)   == g[h] \in {"entry", "leaf", "result", "next", "flush", "end"}

\* A host never goes on to a further entry of the list with a failure of its own
\* tasks that no rescue has answered, whatever section of whatever block it was
\* in, and whatever other goroutines wrote into its results meanwhile.
OwnFailuresStop ==
  \A h \in Hosts : g[h] \in {"prompt", "throttle", "entry"} =>
    \A k \in 1..Count(h) : failures[h][k].own => failures[h][k].rescued

\* A notification is never lost on its way: until the handler has run for it,
\* it is pending, or in the hands of the flush under way, or was looked at and
\* dismissed by a flush.  Other hosts notify while a host is flushing.
NotificationsKept == owed \subseteq pending \union queue \union dismissed

\* When a play ends without an error (or forces handlers), nothing waits for a
\* flush that will not come: each notification was answered or dismissed.
HandlersSettled ==
  pc = "done" /\ (~playErr \/ play.force) => owed \subseteq dismissed

\* What the play returns tells of an error of any host, and with any_errors_fatal
\* of any failure left unrescued, though the goroutines ended without an error.
FailuresReported ==
  pc = "done" /\ (firstErr \/ (play.aef /\ AnyFailure)) => playErr

\* No failure that no rescue has answered is forgotten, by the host that goes on
\* nor by what the play returns.
FailuresCount == OwnFailuresStop /\ FailuresReported

\* Hosts are on their own under the free strategy: one that has not failed nor
\* ended and met no error walks the whole list, whatever happens to others;
\* only end_play cuts it short, or an error where hosts take turns.
NoHostLeftBehind ==
  pc = "done" => \A h \in Hosts :
    \/ at[h] = Len(play.tasks) + 1
    \/ endPlay \/ h \in ended \union failed \/ blockErr[h] \/ alwaysErr[h] \/ (Inline /\ firstErr)

\* No host leaves an entry before all leaves of its always section were run,
\* whether the block, its rescue or a leaf of always itself failed or not.
AlwaysRun ==
  [][\A h \in Hosts : Within(h) /\ ~Within(h)' => alwaysRuns[h] = Len(Task(h).always)]_vars

\* The play returns, though hosts wait for each other's tokens, for the lock of
\* the flush, and handlers notify each other in a circle.
PlayReturns == <>(pc = "done")
=============================================================================
