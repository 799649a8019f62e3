--------------------------- MODULE FreePlayProofs ---------------------------
(***************************************************************************)
(* Proofs about FreePlay: notifications are kept and settled, always       *)
(* sections are run, failures count, and no host is left behind.           *)
(***************************************************************************)
EXTENDS FreePlay, TLAPS, FiniteSetTheorems

\* Whoever notifies, the notifications are pending afterwards.
LEMMA NotifyKeeps ==
  ASSUME NotificationsKept, NEW N, NEW h, Notify(N, h), UNCHANGED queue
  PROVE  NotificationsKept'
BY DEF NotificationsKept, Notify

\* Steps that touch no handler, and the notifications of a task left behind.
LEMMA KeptFrame ==
  ASSUME NotificationsKept, UNCHANGED <<queue, owed, dismissed>>, pending \subseteq pending'
  PROVE  NotificationsKept'
BY DEF NotificationsKept

LEMMA KeptByTheList ==
  ASSUME NotificationsKept, MainStep \/ (\E l \in late : Late(l))
  PROVE  NotificationsKept'
<1> USE DEF handling, flush
<1>1. ASSUME NEW h \in Hosts, PassOver(h) \/ Start(h) PROVE NotificationsKept'
  BY <1>1, KeptFrame DEF PassOver, Start
<1>2. CASE ListDone \/ Post \/ Final
  BY <1>2, KeptFrame DEF ListDone, Post, Final
<1>3. ASSUME NEW l \in late, Late(l) PROVE NotificationsKept'
  BY <1>3, KeptFrame DEF Late
<1> QED BY <1>1, <1>2, <1>3 DEF MainStep

LEMMA KeptByHost ==
  ASSUME NotificationsKept, NEW h \in Hosts, Walk(h)
  PROVE  NotificationsKept'
<1> USE DEF handling, flush
<1>1. CASE Begin(h) \/ Confirm(h) \/ Decline(h) \/ Enter(h) \/ EnterBlock(h) \/ SkipOnce(h)
  BY <1>1, KeptFrame DEF Begin, Confirm, Decline, Enter, EnterBlock, SkipOnce
<1>2. CASE RunModule(h)
  <2>1. PICK N : Notify(N, h)
    BY <1>2 DEF RunModule
  <2> QED BY <1>2, <2>1, NotifyKeeps DEF RunModule
<1>3. CASE TimeOut(h) \/ MetaEnd(h) \/ MetaFlush(h) \/ AppendResult(h) \/ NextLeaf(h)
  BY <1>3, KeptFrame DEF TimeOut, MetaEnd, MetaFlush, AppendResult, NextLeaf
<1>4. CASE EndBlock(h) \/ EndRescue(h) \/ EndAlways(h) \/ EndEntry(h) \/ EndHost(h)
  BY <1>4, KeptFrame DEF EndBlock, EndRescue, EndAlways, EndEntry, EndHost
<1> QED BY <1>1, <1>2, <1>3, <1>4 DEF Walk

\* A round takes all that is pending; what leaves the queue was run or dismissed.
LEMMA KeptByFlush ==
  ASSUME NotificationsKept, NEW a \in Hosts \union {Main}, Flush(a)
  PROVE  NotificationsKept'
<1>1. CASE AcquireFlush(a) \/ ReleaseFlush(a)
  BY <1>1, KeptFrame DEF AcquireFlush, ReleaseFlush
<1>2. CASE TakePending(a)
  BY <1>2 DEF TakePending, Round, NotificationsKept
<1>3. CASE MarkHandlerFailed(a)
  <2>1. PICK N : Notify(N, marking[2])
    BY <1>3 DEF MarkHandlerFailed
  <2> QED BY <1>3, <2>1, NotifyKeeps DEF MarkHandlerFailed
<1>4. ASSUME NEW p \in queue, SkipHandler(a, p)
      PROVE  NotificationsKept'
  BY <1>4 DEF SkipHandler, Takes, NotificationsKept
<1>5. ASSUME NEW p \in queue, RunHandler(a, p)
      PROVE  NotificationsKept'
  <2>1. queue' = queue \ {p}
    BY <1>5 DEF RunHandler, Takes
  <2>2. CASE HandlerSucceeds(p)
    BY <2>1, <2>2 DEF HandlerSucceeds, NotificationsKept
  <2>3. CASE HandlerFails(p)
    BY <2>1, <2>3 DEF HandlerFails, NotificationsKept
  <2> QED BY <1>5, <2>2, <2>3 DEF RunHandler
<1> QED BY <1>1, <1>2, <1>3, <1>4, <1>5 DEF Flush

\* No notification is lost on its way: it waits for a flush, is in the hands of
\* one, or was dismissed by one, whichever hosts notify and flush meanwhile.
THEOREM NotificationsAreKept == Spec => []NotificationsKept
<1>1. Init => NotificationsKept
  BY DEF Init, NotificationsKept
<1>2. NotificationsKept /\ [Next]_vars => NotificationsKept'
  <2> SUFFICES ASSUME NotificationsKept, [Next]_vars PROVE NotificationsKept'
    OBVIOUS
  <2>1. CASE Returned \/ UNCHANGED vars
    BY <2>1, KeptFrame DEF Returned, vars, handling, flush
  <2> QED BY <2>1, KeptByTheList, KeptByHost, KeptByFlush DEF Next
<1> QED BY <1>1, <1>2, PTL DEF Spec
-----------------------------------------------------------------------------
\* Where the goroutine of a host is in the list, and how many leaves of the always
\* section it has run there.
PlaceOf(h) ==
  /\ g[h] \in {"prompt", "throttle"} \/ Within(h) => at[h] <= Len(play.tasks)
  /\ g[h] \notin {"leaf", "result", "next", "flush", "end"} => sec[h] = "block" /\ leaf[h] = 1
  /\ g[h] \in {"leaf", "result", "next", "flush"} => leaf[h] <= Len(Section(h))
  /\ sec[h] = "always" /\ g[h] \in {"leaf", "result", "flush"} => alwaysRuns[h] = leaf[h] - 1
  /\ sec[h] = "always" /\ g[h] = "next" => alwaysRuns[h] = leaf[h]
  /\ sec[h] # "always" /\ g[h] # "end" => alwaysRuns[h] = 0
  /\ g[h] = "end" => alwaysRuns[h] = Len(Task(h).always)

\* A host not yet started has no goroutine, and the one that flushes waits for it.
PlaceInv ==
  /\ \A h \in Hosts : PlaceOf(h)
  /\ \A h \in todo : g[h] = "none"
  /\ flusher \in Hosts => g[flusher] = "flush"

\* No failure of the host's own tasks among the first n is unanswered.
Answered(h, n) == \A k \in 1..n : failures[h][k].own => failures[h][k].rescued

\* What failed before the current entry was answered; what failed in an entry was
\* answered, or the host is marked failed, when it leaves the entry for the next.
ResultsOf(h) ==
  /\ before[h] <= Count(h)
  /\ Within(h) => Answered(h, before[h])
  /\ g[h] \in {"none", "prompt", "throttle", "entry"} \/ (g[h] = "loop" /\ h \notin failed)
       => Answered(h, Count(h))

ResultsInv == \A h \in Hosts : ResultsOf(h)

\* The goroutines that run, and the hosts in an entry.
RunningHosts == {h \in Hosts : Running(h)}
InEntry(k)   == {h \in Hosts : Within(h) /\ at[h] = k}

\* A token of the forks is taken by each of them, and one of its entry.
TokensInv ==
  /\ sem = Cardinality(RunningHosts) /\ sem <= play.forks
  /\ tSem \in [DOMAIN play.tasks -> Nat]
  /\ \A k \in DOMAIN play.tasks : tSem[k] = Cardinality(InEntry(k))

\* Once all goroutines have ended, a failure is in what the play returns, or it is
\* of a handler the play's own flush has just run.
ReportInv ==
  /\ pc # "start" => \A h \in Hosts : ~Running(h)
  /\ flusher = Main => pc \in {"flush", "postFlush", "finalFlush"}
  /\ pc # "start" /\ (firstErr \/ (play.aef /\ AnyFailure)) =>
       playErr \/ (flusher = Main /\ (handlerErr \/ marking # NoPair))

Stages == {"none", "loop", "prompt", "throttle", "entry", "leaf", "result", "next", "flush",
           "end", "quit"}

\* What TypeOK says of the place of each host.
PlaceType ==
  /\ play \in Plays /\ todo \subseteq Hosts
  /\ g \in [Hosts -> Stages]
  /\ at \in [Hosts -> 1..(Len(play.tasks) + 1)]
  /\ sec \in [Hosts -> {"block", "rescue", "always"}]
  /\ leaf \in [Hosts -> Nat \ {0}]
  /\ alwaysRuns \in [Hosts -> Nat]

LEMMA PlayShape ==
  ASSUME NEW p \in Plays
  PROVE  /\ p \in Play /\ p.tasks \in Seq(Entry) /\ Len(p.tasks) \in Nat
         /\ p.forks \in Nat \ {0}
         /\ \A k \in 1..Len(p.tasks) :
              /\ p.tasks[k].block \in Seq(Leaf) /\ p.tasks[k].rescue \in Seq(Leaf)
              /\ p.tasks[k].always \in Seq(Leaf) /\ p.tasks[k].throttle \in Nat
              /\ p.tasks[k].block # <<>>
<1>1. p \in Play /\ \A k \in DOMAIN p.tasks : p.tasks[k].block # <<>>
  BY PlaysAssumption
<1>2. p.tasks \in Seq(Entry) /\ p.forks \in Nat \ {0}
  BY <1>1 DEF Play
<1>3. DOMAIN p.tasks = 1..Len(p.tasks) /\ Len(p.tasks) \in Nat
  BY <1>2
<1>4. ASSUME NEW k \in 1..Len(p.tasks)
      PROVE  p.tasks[k] \in Entry
  BY <1>2, <1>3, <1>4
<1> QED BY <1>1, <1>2, <1>3, <1>4 DEF Entry

\* The sections of the entry a host is at.
LEMMA SectionShape ==
  ASSUME PlaceType, NEW h \in Hosts, at[h] <= Len(play.tasks)
  PROVE  /\ Task(h).block \in Seq(Leaf) /\ Task(h).rescue \in Seq(Leaf)
         /\ Task(h).always \in Seq(Leaf) /\ Task(h).block # <<>>
         /\ Section(h) \in Seq(Leaf)
         /\ Len(Task(h).block) \in Nat /\ Len(Task(h).block) >= 1
         /\ Len(Task(h).rescue) \in Nat /\ Len(Task(h).always) \in Nat /\ Len(Section(h)) \in Nat
<1>1. at[h] \in 1..Len(play.tasks)
  BY PlayShape DEF PlaceType
<1>2. /\ Task(h).block \in Seq(Leaf) /\ Task(h).rescue \in Seq(Leaf)
      /\ Task(h).always \in Seq(Leaf) /\ Task(h).block # <<>>
  BY <1>1, PlayShape DEF PlaceType, Task
<1>3. sec[h] \in {"block", "rescue", "always"}
  BY DEF PlaceType
<1>4. Section(h) \in Seq(Leaf)
  BY <1>2, <1>3 DEF Section
<1>5. Len(Task(h).block) \in Nat /\ Len(Task(h).block) >= 1
  BY <1>2
<1> QED BY <1>2, <1>4, <1>5
\* A step of one goroutine, that is neither waiting to be started nor flushing.
Others(h) ==
  \A j \in Hosts \ {h} : /\ g'[j] = g[j] /\ at'[j] = at[j] /\ sec'[j] = sec[j]
                         /\ leaf'[j] = leaf[j] /\ alwaysRuns'[j] = alwaysRuns[j]

LEMMA PlaceByHost ==
  ASSUME PlaceType, PlaceInv, NEW h \in Hosts, Others(h), play' = play, todo' \subseteq todo,
         flusher' = flusher, g[h] \notin {"none", "flush"}, PlaceOf(h)'
  PROVE  PlaceInv'
<1>1. ASSUME NEW j \in Hosts PROVE PlaceOf(j)'
  <2>1. CASE j = h
    BY <2>1
  <2>2. CASE j # h
    <3>1. PlaceOf(j)
      BY DEF PlaceInv
    <3>2. /\ g'[j] = g[j] /\ at'[j] = at[j] /\ sec'[j] = sec[j] /\ leaf'[j] = leaf[j]
          /\ alwaysRuns'[j] = alwaysRuns[j]
      BY <2>2 DEF Others
    <3>3. Task(j)' = Task(j)
      BY <3>2 DEF Task
    <3>4. Section(j)' = Section(j)
      BY <3>2, <3>3 DEF Section
    <3>5. Within(j)' <=> Within(j)
      BY <3>2 DEF Within
    <3> QED BY <3>1, <3>2, <3>3, <3>4, <3>5 DEF PlaceOf
  <2> QED BY <2>1, <2>2
<1>2. \A j \in todo' : g'[j] = "none"
  <2> SUFFICES ASSUME NEW j \in todo' PROVE g'[j] = "none"
    OBVIOUS
  <2>1. j \in Hosts /\ g[j] = "none"
    BY DEF PlaceInv, PlaceType
  <2> QED BY <2>1 DEF Others
<1>3. ASSUME flusher' \in Hosts PROVE g'[flusher'] = "flush"
  BY <1>3 DEF Others, PlaceInv
<1> QED BY <1>1, <1>2, <1>3 DEF PlaceInv

LEMMA GotoMoves ==
  ASSUME PlaceType, NEW h \in Hosts, NEW l \in Stages, Goto(h, l)
  PROVE  /\ g' \in [Hosts -> Stages] /\ g'[h] = l
         /\ \A j \in Hosts \ {h} : g'[j] = g[j]
BY DEF PlaceType, Goto

\* Steps that stay at the same leaf.
LEMMA PlaceStays ==
  ASSUME PlaceType, PlaceInv, NEW h \in Hosts, UNCHANGED <<play, place, flusher>>,
         todo' \subseteq todo, NEW l \in Stages, Goto(h, l), g[h] \notin {"none", "flush"},
         \/ g[h] = "loop" /\ l = "quit"
         \/ g[h] = "loop" /\ l \in {"prompt", "throttle"} /\ at[h] <= Len(play.tasks)
         \/ g[h] = "prompt" /\ l = "throttle"
         \/ g[h] = "throttle" /\ l = "entry"
         \/ g[h] = "entry" /\ l = "leaf"
         \/ g[h] = "leaf" /\ l \in {"result", "flush"}
         \/ g[h] = "next" /\ sec[h] = "always" /\ leaf[h] = Len(Section(h)) /\ l = "end"
  PROVE  PlaceType' /\ PlaceInv'
<1> USE DEF place
<1>1. PlaceOf(h)
  BY DEF PlaceInv
<1>2. /\ at[h] \in 1..(Len(play.tasks) + 1) /\ leaf[h] \in Nat \ {0}
      /\ sec[h] \in {"block", "rescue", "always"}
  BY DEF PlaceType
<1>3. g' \in [Hosts -> Stages] /\ g'[h] = l /\ \A j \in Hosts \ {h} : g'[j] = g[j]
  BY GotoMoves
<1>4. PlaceType'
  BY <1>3 DEF PlaceType
<1>5. Others(h)
  BY <1>3 DEF Others
<1>6. Task(h)' = Task(h)
  BY DEF Task
<1>7. Section(h)' = Section(h)
  BY <1>6 DEF Section
<1>8. /\ at'[h] = at[h] /\ sec'[h] = sec[h] /\ leaf'[h] = leaf[h]
      /\ alwaysRuns'[h] = alwaysRuns[h] /\ Len(play'.tasks) = Len(play.tasks)
  OBVIOUS
<1>9. CASE l = "leaf"
  <2>1. g[h] = "entry" /\ at[h] <= Len(play.tasks) /\ sec[h] = "block" /\ leaf[h] = 1
    BY <1>1, <1>9 DEF PlaceOf, Within
  <2>2. leaf[h] <= Len(Section(h))
    BY <2>1, SectionShape DEF Section
  <2> QED BY <1>1, <1>3, <1>7, <1>8, <1>9, <2>1, <2>2, PlaceByHost, <1>4, <1>5 DEF PlaceOf, Within
<1>10. CASE l = "end"
  <2>1. /\ g[h] = "next" /\ sec[h] = "always" /\ leaf[h] = Len(Section(h))
        /\ alwaysRuns[h] = leaf[h] /\ at[h] <= Len(play.tasks)
    BY <1>1, <1>10 DEF PlaceOf, Within
  <2>2. alwaysRuns[h] = Len(Task(h).always)
    BY <2>1 DEF Section
  <2>3. PlaceOf(h)'
    BY <1>3, <1>6, <1>8, <1>10, <2>1, <2>2 DEF PlaceOf, Within
  <2> QED BY <1>4, <1>5, <2>3, PlaceByHost
<1>11. CASE l \notin {"leaf", "end"}
  <2>1. PlaceOf(h)'
    BY <1>1, <1>2, <1>3, <1>6, <1>7, <1>8, <1>11 DEF PlaceOf, Within
  <2> QED BY <1>4, <1>5, <2>1, PlaceByHost
<1> QED BY <1>9, <1>10, <1>11

LEMMA PlaceSteps ==
  ASSUME PlaceType, PlaceInv, NEW h \in Hosts,
         \/ Begin(h) \/ Confirm(h) \/ Enter(h) \/ EnterBlock(h) \/ SkipOnce(h) \/ RunModule(h)
         \/ TimeOut(h) \/ MetaEnd(h) \/ MetaFlush(h) \/ EndAlways(h) \/ EndHost(h)
  PROVE  PlaceType' /\ PlaceInv'
<1> USE DEF main, handling, flush, Stages
<1>1. CASE Begin(h)
  <2>1. PICK l \in {"prompt", "throttle"} : Goto(h, l)
    BY <1>1 DEF Begin
  <2> QED BY <1>1, <2>1, PlaceStays DEF Begin
<1>2. CASE Confirm(h)
  BY <1>2, PlaceStays DEF Confirm
<1>3. CASE Enter(h)
  BY <1>3, PlaceStays DEF Enter
<1>4. CASE EnterBlock(h)
  BY <1>4, PlaceStays DEF EnterBlock
<1>5. CASE SkipOnce(h) \/ RunModule(h) \/ TimeOut(h) \/ MetaEnd(h) \/ MetaFlush(h)
  <2>1. PICK l \in {"result", "flush"} : Goto(h, l)
    BY <1>5 DEF SkipOnce, RunModule, TimeOut, MetaEnd, MetaFlush, Outcome
  <2>2. UNCHANGED <<play, place, flusher>> /\ todo' = todo /\ g[h] = "leaf"
    BY <1>5 DEF SkipOnce, RunModule, TimeOut, MetaEnd, MetaFlush, AtLeaf
  <2> QED BY <2>1, <2>2, PlaceStays
<1>6. CASE EndAlways(h)
  <2>1. sec[h] = "always" /\ leaf[h] = Len(Section(h)) /\ g[h] = "next" /\ Goto(h, "end")
    BY <1>6 DEF EndAlways, SectionOver, FailsHere
  <2>2. UNCHANGED <<play, place, flusher>> /\ todo' = todo
    BY <1>6 DEF EndAlways
  <2> QED BY <2>1, <2>2, PlaceStays
<1>7. CASE EndHost(h)
  BY <1>7, PlaceStays DEF EndHost
<1> QED BY <1>1, <1>2, <1>3, <1>4, <1>5, <1>6, <1>7
LEMMA PlaceDecline ==
  ASSUME PlaceType, PlaceInv, NEW h \in Hosts, Decline(h)
  PROVE  PlaceType' /\ PlaceInv'
<1> USE DEF Decline, main, handling, flush
<1>1. PlaceOf(h)
  BY DEF PlaceInv
<1>2. at[h] \in 1..(Len(play.tasks) + 1) /\ at[h] <= Len(play.tasks)
  BY <1>1 DEF PlaceType, PlaceOf
<1>3. g' \in [Hosts -> Stages] /\ g'[h] = "loop" /\ \A j \in Hosts \ {h} : g'[j] = g[j]
  BY GotoMoves DEF Stages
<1>4. at' \in [Hosts -> 1..(Len(play.tasks) + 1)]
  BY <1>2, PlayShape DEF PlaceType
<1>5. PlaceType'
  BY <1>3, <1>4 DEF PlaceType
<1>6. Others(h)
  BY <1>3 DEF Others, PlaceType
<1>7. PlaceOf(h)'
  BY <1>1, <1>3 DEF PlaceOf, Within, PlaceType
<1> QED BY <1>5, <1>6, <1>7, PlaceByHost

LEMMA PlaceAppends ==
  ASSUME PlaceType, PlaceInv, NEW h \in Hosts, AppendResult(h)
  PROVE  PlaceType' /\ PlaceInv'
<1> USE DEF AppendResult, main, handling, flush
<1>1. PlaceOf(h)
  BY DEF PlaceInv
<1>2. alwaysRuns[h] \in Nat /\ leaf[h] \in Nat /\ sec[h] \in {"block", "rescue", "always"}
  BY DEF PlaceType
<1>3. g' \in [Hosts -> Stages] /\ g'[h] = "next" /\ \A j \in Hosts \ {h} : g'[j] = g[j]
  BY GotoMoves DEF Stages
<1>4. /\ alwaysRuns' \in [Hosts -> Nat]
      /\ alwaysRuns'[h] = IF sec[h] = "always" THEN alwaysRuns[h] + 1 ELSE alwaysRuns[h]
      /\ \A j \in Hosts \ {h} : alwaysRuns'[j] = alwaysRuns[j]
  <2>1. CASE sec[h] = "always"
    BY <2>1, <1>2 DEF PlaceType
  <2>2. CASE sec[h] # "always"
    BY <2>2 DEF PlaceType
  <2> QED BY <2>1, <2>2
<1>5. PlaceType'
  BY <1>3, <1>4 DEF PlaceType
<1>6. Others(h)
  BY <1>3, <1>4 DEF Others, PlaceType
<1>7. Task(h)' = Task(h)
  BY DEF Task
<1>8. Section(h)' = Section(h)
  BY <1>7 DEF Section
<1>9. PlaceOf(h)'
  BY <1>1, <1>2, <1>3, <1>4, <1>8 DEF PlaceOf, Within
<1> QED BY <1>5, <1>6, <1>9, PlaceByHost

LEMMA PlaceGoesOn ==
  ASSUME PlaceType, PlaceInv, NEW h \in Hosts, NextLeaf(h)
  PROVE  PlaceType' /\ PlaceInv'
<1> USE DEF NextLeaf, main, handling, flush
<1>1. PlaceOf(h)
  BY DEF PlaceInv
<1>2. /\ alwaysRuns[h] \in Nat /\ leaf[h] \in Nat /\ at[h] <= Len(play.tasks)
      /\ sec[h] \in {"block", "rescue", "always"}
  BY <1>1 DEF PlaceType, PlaceOf, Within
<1>3. g' \in [Hosts -> Stages] /\ g'[h] = "leaf" /\ \A j \in Hosts \ {h} : g'[j] = g[j]
  BY GotoMoves DEF Stages
<1>4. leaf' \in [Hosts -> Nat \ {0}] /\ leaf'[h] = leaf[h] + 1
  BY <1>2 DEF PlaceType
<1>5. PlaceType'
  BY <1>3, <1>4 DEF PlaceType
<1>6. Others(h)
  BY <1>3, <1>4 DEF Others, PlaceType
<1>7. Task(h)' = Task(h)
  BY DEF Task
<1>8. Section(h)' = Section(h) /\ Len(Section(h)) \in Nat
  BY <1>2, <1>7, SectionShape DEF Section
<1>9. PlaceOf(h)'
  BY <1>1, <1>2, <1>3, <1>4, <1>8 DEF PlaceOf, Within
<1> QED BY <1>5, <1>6, <1>9, PlaceByHost

\* A section that is left for the next one, or for the end of the entry.
LEMMA PlaceEnters ==
  ASSUME PlaceType, PlaceInv, NEW h \in Hosts, NEW s \in {"rescue", "always"}, Enters(h, s),
         g[h] = "next", sec[h] # "always", s = "rescue" => Task(h).rescue # <<>>,
         UNCHANGED <<play, todo, at, alwaysRuns, flusher>>
  PROVE  PlaceType' /\ PlaceInv'
<1>1. PlaceOf(h)
  BY DEF PlaceInv
<1>2. alwaysRuns[h] = 0 /\ at[h] <= Len(play.tasks)
  BY <1>1 DEF PlaceType, PlaceOf, Within
<1> DEFINE body == IF s = "rescue" THEN Task(h).rescue ELSE Task(h).always
<1>3. body \in Seq(Leaf) /\ Len(body) \in Nat /\ (body # <<>> => Len(body) >= 1)
  BY <1>2, SectionShape
<1>4. Task(h)' = Task(h)
  BY DEF Task
<1>5. CASE body = <<>>
  <2>1. UNCHANGED <<sec, leaf>> /\ s = "always" /\ Goto(h, "end") /\ Len(body) = 0
    BY <1>5 DEF Enters
  <2>2. g' \in [Hosts -> Stages] /\ g'[h] = "end" /\ \A j \in Hosts \ {h} : g'[j] = g[j]
    BY <2>1, GotoMoves DEF Stages
  <2>3. PlaceType'
    BY <2>1, <2>2 DEF PlaceType
  <2>4. Others(h)
    BY <2>1, <2>2 DEF Others
  <2>5. PlaceOf(h)'
    BY <1>1, <1>2, <1>4, <2>1, <2>2 DEF PlaceOf, Within
  <2> QED BY <2>3, <2>4, <2>5, PlaceByHost
<1>6. CASE body # <<>>
  <2>1. /\ sec' = [sec EXCEPT ![h] = s] /\ leaf' = [leaf EXCEPT ![h] = 1] /\ Goto(h, "leaf")
    BY <1>6 DEF Enters
  <2>2. g' \in [Hosts -> Stages] /\ g'[h] = "leaf" /\ \A j \in Hosts \ {h} : g'[j] = g[j]
    BY <2>1, GotoMoves DEF Stages
  <2>3. /\ sec' \in [Hosts -> {"block", "rescue", "always"}] /\ sec'[h] = s
        /\ leaf' \in [Hosts -> Nat \ {0}] /\ leaf'[h] = 1
    BY <2>1 DEF PlaceType
  <2>4. PlaceType'
    BY <2>2, <2>3 DEF PlaceType
  <2>5. Others(h)
    BY <2>1, <2>2 DEF Others, PlaceType
  <2>6. Section(h)' = body
    BY <1>4, <2>3 DEF Section
  <2>7. PlaceOf(h)'
    BY <1>2, <1>3, <1>6, <2>2, <2>3, <2>6 DEF PlaceOf, Within
  <2> QED BY <2>4, <2>5, <2>7, PlaceByHost
<1> QED BY <1>5, <1>6

LEMMA PlaceLeaves ==
  ASSUME PlaceType, PlaceInv, NEW h \in Hosts, EndEntry(h)
  PROVE  PlaceType' /\ PlaceInv'
<1>1. PlaceOf(h) /\ g[h] = "end"
  BY DEF PlaceInv, EndEntry
<1>2. at[h] \in 1..(Len(play.tasks) + 1) /\ at[h] <= Len(play.tasks)
  BY <1>1 DEF PlaceType, PlaceOf, Within
<1>3. PICK l \in {"quit", "loop"} : Goto(h, l)
  BY DEF EndEntry, EndByError, EndNormally
<1>4. g' \in [Hosts -> Stages] /\ g'[h] = l /\ \A j \in Hosts \ {h} : g'[j] = g[j]
  BY <1>3, GotoMoves DEF Stages
<1>5. /\ at' \in [Hosts -> 1..(Len(play.tasks) + 1)]
      /\ \A j \in Hosts \ {h} : at'[j] = at[j]
  <2>1. CASE EndByError(h)
    BY <2>1 DEF EndByError, PlaceType
  <2>2. CASE EndNormally(h)
    BY <1>2, <2>2, PlayShape DEF EndNormally, PlaceType
  <2> QED BY <2>1, <2>2 DEF EndEntry
<1>6. /\ sec' = [sec EXCEPT ![h] = "block"] /\ leaf' = [leaf EXCEPT ![h] = 1]
      /\ alwaysRuns' = [alwaysRuns EXCEPT ![h] = 0] /\ play' = play /\ flusher' = flusher
  BY DEF EndEntry, Forget, handling, flush
<1>7. todo' \subseteq todo
  BY DEF EndEntry, EndByError, EndNormally
<1>8. PlaceType'
  BY <1>4, <1>5, <1>6, <1>7 DEF PlaceType
<1>9. Others(h)
  BY <1>4, <1>5, <1>6 DEF Others, PlaceType
<1>10. PlaceOf(h)'
  BY <1>4, <1>6 DEF PlaceOf, Within, PlaceType
<1> QED BY <1>1, <1>6, <1>7, <1>8, <1>9, <1>10, PlaceByHost

LEMMA PlaceWalk ==
  ASSUME PlaceType, PlaceInv, NEW h \in Hosts, Walk(h)
  PROVE  PlaceType' /\ PlaceInv'
<1>1. CASE EndBlock(h)
  <2>1. /\ g[h] = "next" /\ sec[h] = "block"
        /\ UNCHANGED <<play, todo, at, alwaysRuns, flusher>>
        /\ Enters(h, "always") \/ (Enters(h, "rescue") /\ Task(h).rescue # <<>>)
    BY <1>1 DEF EndBlock, SectionOver, main, handling, flush
  <2> QED BY <2>1, PlaceEnters
<1>2. CASE EndRescue(h)
  <2>1. /\ g[h] = "next" /\ sec[h] = "rescue" /\ Enters(h, "always")
        /\ UNCHANGED <<play, todo, at, alwaysRuns, flusher>>
    BY <1>2 DEF EndRescue, SectionOver, main, handling, flush
  <2> QED BY <2>1, PlaceEnters
<1> QED BY <1>1, <1>2, PlaceSteps, PlaceDecline, PlaceAppends, PlaceGoesOn, PlaceLeaves DEF Walk

LEMMA PlaceFlush ==
  ASSUME PlaceType, PlaceInv, NEW a \in Hosts \union {Main}, Flush(a)
  PROVE  PlaceType' /\ PlaceInv'
<1> USE DEF place
<1>1. CASE UNCHANGED <<play, todo, g, place, flusher>>
  BY <1>1 DEF PlaceType, PlaceInv, PlaceOf, Within, Section, Task
<1>2. CASE TakePending(a) \/ MarkHandlerFailed(a) \/ \E p \in queue : SkipHandler(a, p) \/ RunHandler(a, p)
  BY <1>1, <1>2 DEF TakePending, MarkHandlerFailed, SkipHandler, RunHandler, main, where
<1>3. CASE AcquireFlush(a)
  <2>1. UNCHANGED <<play, todo, g, place>> /\ flusher' = a /\ (a \in Hosts => g[a] = "flush")
    BY <1>3 DEF AcquireFlush, Calls, main, where, Main, Hosts
  <2> QED BY <2>1 DEF PlaceType, PlaceInv, PlaceOf, Within, Section, Task
<1>4. CASE ReleaseFlush(a)
  <2>1. UNCHANGED <<play, todo, place>> /\ flusher = a /\ flusher' = Nobody
    BY <1>4 DEF ReleaseFlush, Flusher
  <2>2. CASE a = Main
    <3>1. g' = g
      BY <1>4, <2>2 DEF ReleaseFlush
    <3> QED BY <2>1, <3>1 DEF PlaceType, PlaceInv, PlaceOf, Within, Section, Task, Nobody, Hosts
  <2>3. CASE a # Main
    <3>1. a \in Hosts /\ Goto(a, "result")
      BY <1>4, <2>3 DEF ReleaseFlush, Outcome
    <3>2. g' \in [Hosts -> Stages] /\ g'[a] = "result" /\ \A j \in Hosts \ {a} : g'[j] = g[j]
      BY <3>1, GotoMoves DEF Stages
    <3>3. PlaceType'
      BY <2>1, <3>2 DEF PlaceType
    <3>4. g[a] = "flush"
      BY <2>1, <3>1 DEF PlaceInv
    <3>5. ASSUME NEW j \in Hosts PROVE PlaceOf(j)'
      <4>1. PlaceOf(j)
        BY DEF PlaceInv
      <4>2. Task(j)' = Task(j)
        BY <2>1 DEF Task
      <4>3. Section(j)' = Section(j)
        BY <2>1, <4>2 DEF Section
      <4> QED BY <2>1, <3>2, <3>4, <4>1, <4>2, <4>3 DEF PlaceOf, Within
    <3>6. \A j \in todo' : g'[j] = "none"
      BY <2>1, <3>2, <3>4 DEF PlaceInv, PlaceType
    <3> QED BY <2>1, <3>3, <3>5, <3>6 DEF PlaceInv, Nobody, Hosts
  <2> QED BY <2>2, <2>3
<1> QED BY <1>2, <1>3, <1>4 DEF Flush

LEMMA PlaceStep ==
  ASSUME PlaceType, PlaceInv, [Next]_vars
  PROVE  PlaceType' /\ PlaceInv'
<1> USE DEF place
<1>1. CASE UNCHANGED <<play, todo, g, place, flusher>>
  BY <1>1 DEF PlaceType, PlaceInv, PlaceOf, Within, Section, Task
<1>2. CASE ListDone \/ Post \/ Final \/ (\E l \in late : Late(l)) \/ Returned \/ UNCHANGED vars
  BY <1>1, <1>2 DEF ListDone, Post, Final, Late, Returned, vars, main, where, handling, flush
<1>3. ASSUME NEW h \in Hosts, PassOver(h)
      PROVE  PlaceType' /\ PlaceInv'
  BY <1>3 DEF PassOver, where, handling, flush, PlaceType, PlaceInv, PlaceOf, Within, Section, Task
<1>4. ASSUME NEW h \in Hosts, Start(h)
      PROVE  PlaceType' /\ PlaceInv'
  <2>1. /\ UNCHANGED <<play, place, flusher>> /\ todo' = todo \ {h} /\ Goto(h, "loop")
        /\ h \in todo
    BY <1>4 DEF Start, Turn, handling, flush
  <2>2. g[h] = "none" /\ PlaceOf(h)
    BY <2>1 DEF PlaceInv
  <2>3. g' \in [Hosts -> Stages] /\ g'[h] = "loop" /\ \A j \in Hosts \ {h} : g'[j] = g[j]
    BY <2>1, GotoMoves DEF Stages
  <2>4. PlaceType'
    BY <2>1, <2>3 DEF PlaceType
  <2>5. ASSUME NEW j \in Hosts PROVE PlaceOf(j)'
    <3>1. PlaceOf(j)
      BY DEF PlaceInv
    <3>2. Task(j)' = Task(j)
      BY <2>1 DEF Task
    <3>3. Section(j)' = Section(j)
      BY <2>1, <3>2 DEF Section
    <3> QED BY <2>1, <2>2, <2>3, <3>1, <3>2, <3>3 DEF PlaceOf, Within
  <2>6. (\A j \in todo' : g'[j] = "none") /\ (flusher' \in Hosts => g'[flusher'] = "flush")
    BY <2>1, <2>2, <2>3 DEF PlaceInv, PlaceType
  <2> QED BY <2>4, <2>5, <2>6 DEF PlaceInv
<1> QED BY <1>2, <1>3, <1>4, PlaceWalk, PlaceFlush DEF Next, MainStep

LEMMA PlaceHolds == Spec => [](PlaceType /\ PlaceInv)
<1>1. Init => PlaceType /\ PlaceInv
  <2> SUFFICES ASSUME Init PROVE PlaceType /\ PlaceInv
    OBVIOUS
  <2>1. PlaceType
    BY PlayShape DEF Init, PlaceType, Stages
  <2>2. PlaceInv
    BY DEF Init, PlaceInv, PlaceOf, Within, Nobody, Hosts
  <2> QED BY <2>1, <2>2
<1> QED BY <1>1, PlaceStep, PTL DEF Spec

\* Only the end of an entry is a way out of it.
LEMMA WithinUntilTheEnd ==
  ASSUME PlaceType, PlaceInv, Next, NEW h \in Hosts, Within(h), ~Within(h)'
  PROVE  g[h] = "end"
<1> DEFINE Inside == {"entry", "leaf", "result", "next", "flush", "end"}
<1>1. g[h] \in Inside /\ g'[h] \notin Inside
  BY DEF Within
<1>2. ASSUME NEW k \in Hosts, NEW l, Goto(k, l), g[h] # "end"
      PROVE  k = h /\ l \notin Inside
  <2>1. g'[h] = IF k = h THEN l ELSE g[h]
    BY <1>2 DEF Goto, PlaceType
  <2> QED BY <1>1, <2>1
<1>3. g' # g
  BY <1>1
<1>4. ASSUME NEW k \in Hosts, Walk(k), g[h] # "end"
      PROVE  FALSE
  <2>1. CASE Begin(k) \/ Confirm(k) \/ Decline(k) \/ EndHost(k) \/ EndEntry(k)
    <3>1. /\ g[k] \notin Inside \ {"end"}
          /\ \E l : Goto(k, l)
      BY <2>1 DEF Begin, Confirm, Decline, EndHost, EndEntry, EndByError, EndNormally
    <3> QED BY <1>1, <1>2, <1>4, <3>1
  <2>2. CASE Enter(k) \/ EnterBlock(k) \/ SkipOnce(k) \/ RunModule(k) \/ TimeOut(k) \/ MetaEnd(k)
    <3>1. \E l \in Inside : Goto(k, l)
      BY <2>2 DEF Enter, EnterBlock, SkipOnce, RunModule, TimeOut, MetaEnd, Outcome
    <3> QED BY <1>2, <1>4, <3>1
  <2>3. CASE MetaFlush(k) \/ AppendResult(k) \/ NextLeaf(k) \/ EndAlways(k)
    <3>1. \E l \in Inside : Goto(k, l)
      BY <2>3 DEF MetaFlush, AppendResult, NextLeaf, EndAlways
    <3> QED BY <1>2, <1>4, <3>1
  <2>4. CASE EndBlock(k) \/ EndRescue(k)
    <3>1. \E l \in Inside : Goto(k, l)
      BY <2>4 DEF EndBlock, EndRescue, Enters
    <3> QED BY <1>2, <1>4, <3>1
  <2> QED BY <1>4, <2>1, <2>2, <2>3, <2>4 DEF Walk
<1>5. ASSUME NEW k \in Hosts, Start(k)
      PROVE  FALSE
  <2>1. g[k] = "none" /\ Goto(k, "loop")
    BY <1>5 DEF Start, Turn, PlaceInv
  <2> QED BY <1>1, <2>1 DEF Goto, PlaceType
<1>6. ASSUME NEW a \in Hosts \union {Main}, Flush(a), g[h] # "end"
      PROVE  FALSE
  <2>1. CASE ReleaseFlush(a)
    <3>1. a \in Hosts /\ Goto(a, "result")
      BY <1>3, <2>1 DEF ReleaseFlush, Outcome
    <3> QED BY <1>2, <1>6, <3>1
  <2>2. CASE ~ReleaseFlush(a)
    BY <1>3, <1>6, <2>2
    DEF Flush, AcquireFlush, TakePending, MarkHandlerFailed, SkipHandler, RunHandler, where
  <2> QED BY <2>1, <2>2
<1>7. CASE (\E k \in Hosts : PassOver(k)) \/ ListDone \/ Post \/ Final \/ (\E l \in late : Late(l)) \/ Returned
  BY <1>3, <1>7 DEF PassOver, ListDone, Post, Final, Late, Returned, vars, where
<1> QED BY <1>4, <1>5, <1>6, <1>7 DEF Next, MainStep

\* No host leaves an entry before the leaves of its always section were run,
\* whatever failed in the block, in its rescue or in the section itself.
THEOREM AlwaysIsRun == Spec => AlwaysRun
<1>1. ASSUME PlaceType, PlaceInv, [Next]_vars
      PROVE  [\A h \in Hosts : Within(h) /\ ~Within(h)' => alwaysRuns[h] = Len(Task(h).always)]_vars
  <2> SUFFICES ASSUME Next, NEW h \in Hosts, Within(h), ~Within(h)'
               PROVE  alwaysRuns[h] = Len(Task(h).always)
    BY <1>1
  <2>1. g[h] = "end"
    BY <1>1, WithinUntilTheEnd
  <2> QED BY <1>1, <2>1 DEF PlaceInv, PlaceOf
<1> QED BY <1>1, PlaceHolds, PTL DEF Spec, AlwaysRun-----------------------------------------------------------------------------
\* What TypeOK says of the handlers.
HandlerType ==
  /\ pending \subseteq Pairs /\ queue \subseteq Pairs /\ executed \subseteq Pairs
  /\ owed \subseteq Pairs /\ dismissed \subseteq Pairs
  /\ flusher \in Hosts \union {Main, Nobody} /\ marking \in Pairs \union {NoPair}
  /\ handlerErr \in BOOLEAN /\ late \subseteq (SUBSET Handlers) \X Hosts

\* A host at a leaf is at a leaf of the play, with the handlers and the key it names.
LEMMA CurrentLeaf ==
  ASSUME PlaceType, PlaceInv, NEW h \in Hosts, g[h] = "leaf"
  PROVE  Current(h) \in Leaf /\ Current(h).notify \subseteq Handlers /\ Current(h).once \in Keys \union {0}
<1>1. at[h] <= Len(play.tasks) /\ leaf[h] \in 1..Len(Section(h)) /\ at[h] \in 1..Len(play.tasks)
  <2>1. PlaceOf(h) /\ Len(play.tasks) \in Nat
    BY PlayShape DEF PlaceInv, PlaceType
  <2>2. at[h] <= Len(play.tasks) /\ leaf[h] <= Len(Section(h))
    BY <2>1 DEF PlaceOf, Within
  <2>3. Len(Section(h)) \in Nat
    BY <2>2, SectionShape
  <2> QED BY <2>1, <2>2, <2>3 DEF PlaceType
<1>2. Section(h) \in Seq(Leaf) /\ DOMAIN Section(h) = 1..Len(Section(h))
  BY <1>1, SectionShape
<1>3. Current(h) \in Leaf /\ Current(h) \in Elements(Section(h))
  BY <1>1, <1>2 DEF Current, Elements
<1>4. Task(h) \in Entries
  BY <1>1, PlayShape DEF PlaceType, Task, Entries, Elements
<1>5. Section(h) \in {Task(h).block, Task(h).rescue, Task(h).always}
  BY DEF Section, PlaceType
<1>6. Current(h) \in Elements(Task(h).block) \union Elements(Task(h).rescue) \union Elements(Task(h).always)
  BY <1>3, <1>5
<1>7. Current(h).once \in Keys \union {0}
  BY <1>4, <1>6 DEF Keys
<1> QED BY <1>3, <1>7 DEF Leaf

LEMMA NotifyTyped ==
  ASSUME HandlerType, NEW N \in SUBSET Handlers, NEW h \in Hosts, Notify(N, h)
  PROVE  pending' \subseteq Pairs /\ owed' \subseteq Pairs /\ dismissed' \subseteq Pairs
<1>1. N \X {h} \subseteq Pairs
  BY DEF Pairs
<1> QED BY <1>1 DEF Notify, HandlerType

LEMMA HandlersTyped ==
  ASSUME PlaceType, PlaceInv, HandlerType, [Next]_vars
  PROVE  HandlerType'
<1> USE DEF handling, flush
<1>1. CASE UNCHANGED <<handling, late>>
  BY <1>1 DEF HandlerType
<1>2. ASSUME NEW h \in Hosts, Walk(h)
      PROVE  HandlerType'
  <2>1. CASE RunModule(h)
    <3>1. g[h] = "leaf" /\ UNCHANGED <<flush, late>>
      BY <2>1 DEF RunModule, AtLeaf
    <3>2. PICK changed \in BOOLEAN : Notify(IF changed THEN Current(h).notify ELSE {}, h)
      BY <2>1 DEF RunModule
    <3>3. (IF changed THEN Current(h).notify ELSE {}) \in SUBSET Handlers
      BY <3>1, CurrentLeaf
    <3>4. pending' \subseteq Pairs /\ owed' \subseteq Pairs /\ dismissed' \subseteq Pairs
      BY <3>2, <3>3, NotifyTyped
    <3> QED BY <3>1, <3>4 DEF HandlerType
  <2>2. CASE TimeOut(h)
    <3>1. g[h] = "leaf" /\ UNCHANGED handling /\ late' = late \union {<<Current(h).notify, h>>}
      BY <2>2 DEF TimeOut, AtLeaf
    <3>2. Current(h).notify \subseteq Handlers
      BY <3>1, CurrentLeaf
    <3> QED BY <3>1, <3>2 DEF HandlerType
  <2>3. CASE ~RunModule(h) /\ ~TimeOut(h)
    <3>1. UNCHANGED <<handling, late>>
      BY <1>2, <2>3 DEF Walk, Begin, Confirm, Decline, Enter, EnterBlock, SkipOnce, MetaEnd, MetaFlush,
        AppendResult, NextLeaf, EndBlock, EndRescue, EndAlways, EndEntry, EndHost
    <3> QED BY <1>1, <3>1
  <2> QED BY <2>1, <2>2, <2>3
<1>3. ASSUME NEW a \in Hosts \union {Main}, Flush(a)
      PROVE  HandlerType'
  <2>1. CASE AcquireFlush(a)
    BY <2>1 DEF AcquireFlush, HandlerType
  <2>2. CASE TakePending(a)
    BY <2>2 DEF TakePending, Round, HandlerType
  <2>3. CASE ReleaseFlush(a)
    BY <2>3 DEF ReleaseFlush, HandlerType
  <2>4. CASE MarkHandlerFailed(a)
    <3>1. /\ marking \in Pairs /\ marking' = NoPair /\ handlerErr' = TRUE
          /\ UNCHANGED <<flusher, queue, executed, late>>
      BY <2>4 DEF MarkHandlerFailed, HandlerType
    <3>2. marking[1] \in Handlers /\ marking[2] \in Hosts
      BY <3>1 DEF Pairs
    <3>3. PICK changed \in BOOLEAN : Notify(IF changed THEN play.chain[marking[1]] ELSE {}, marking[2])
      BY <2>4 DEF MarkHandlerFailed
    <3>4. play.chain \in [Handlers -> SUBSET Handlers]
      BY PlayShape DEF PlaceType, Play
    <3>5. (IF changed THEN play.chain[marking[1]] ELSE {}) \in SUBSET Handlers
      BY <3>2, <3>4
    <3>6. pending' \subseteq Pairs /\ owed' \subseteq Pairs /\ dismissed' \subseteq Pairs
      BY <3>2, <3>3, <3>5, NotifyTyped
    <3> QED BY <3>1, <3>6 DEF HandlerType
  <2>5. ASSUME NEW p \in queue, SkipHandler(a, p)
        PROVE  HandlerType'
    BY <2>5 DEF SkipHandler, Takes, HandlerType
  <2>6. ASSUME NEW p \in queue, RunHandler(a, p)
        PROVE  HandlerType'
    <3>1. /\ p \in Pairs /\ queue' = queue \ {p} /\ executed' = executed \union {p}
          /\ UNCHANGED <<flusher, handlerErr, late>>
      BY <2>6 DEF RunHandler, Takes, HandlerType
    <3>2. CASE HandlerSucceeds(p)
      <4>1. p[1] \in Handlers /\ p[2] \in Hosts
        BY <3>1 DEF Pairs
      <4>2. play.chain \in [Handlers -> SUBSET Handlers]
        BY PlayShape DEF PlaceType, Play
      <4>3. PICK changed \in BOOLEAN :
              LET N == IF changed THEN play.chain[p[1]] ELSE {}
              IN /\ pending' = pending \union (N \X {p[2]})
                 /\ owed' = (owed \ {p}) \union (N \X {p[2]})
                 /\ dismissed' = dismissed \ (N \X {p[2]})
        BY <3>2 DEF HandlerSucceeds
      <4> DEFINE N == IF changed THEN play.chain[p[1]] ELSE {}
      <4>4. N \X {p[2]} \subseteq Pairs
        BY <4>1, <4>2 DEF Pairs
      <4>5. pending' \subseteq Pairs /\ owed' \subseteq Pairs /\ dismissed' \subseteq Pairs
        BY <4>3, <4>4 DEF HandlerType
      <4>6. marking' = marking
        BY <3>2 DEF HandlerSucceeds
      <4> QED BY <3>1, <4>5, <4>6 DEF HandlerType
    <3>3. CASE HandlerFails(p)
      BY <3>1, <3>3 DEF HandlerFails, HandlerType
    <3> QED BY <2>6, <3>2, <3>3 DEF RunHandler
  <2> QED BY <1>3, <2>1, <2>2, <2>3, <2>4, <2>5, <2>6 DEF Flush
<1>4. ASSUME NEW l \in late, Late(l)
      PROVE  HandlerType'
  <2>1. l[1] \X {l[2]} \subseteq Pairs
    BY DEF HandlerType, Pairs
  <2>2. pending' \subseteq Pairs /\ late' \subseteq late /\ UNCHANGED <<flush, owed, dismissed>>
    BY <1>4, <2>1 DEF Late, HandlerType
  <2> QED BY <2>2 DEF HandlerType
<1>5. CASE MainStep \/ Returned \/ UNCHANGED vars
  BY <1>1, <1>5 DEF MainStep, PassOver, Start, ListDone, Post, Final, Returned, vars
<1> QED BY <1>2, <1>3, <1>4, <1>5 DEF Next-----------------------------------------------------------------------------
Failure == [rescued : BOOLEAN, own : BOOLEAN]

\* What TypeOK says of the results.
ResultType ==
  /\ failures \in [Hosts -> Seq(Failure)]
  /\ before \in [Hosts -> Nat] /\ beforeBlock \in [Hosts -> Nat] /\ beforeRescue \in [Hosts -> Nat]
  /\ failed \subseteq Hosts /\ ended \subseteq Hosts

LEMMA Counts ==
  ASSUME ResultType, NEW h \in Hosts
  PROVE  failures[h] \in Seq(Failure) /\ Count(h) \in Nat /\ \A k \in 1..Count(h) : failures[h][k] \in Failure
BY DEF ResultType, Count

LEMMA FailureAdded ==
  ASSUME ResultType, NEW h \in Hosts, NEW own \in BOOLEAN, AddFailure(h, own)
  PROVE  /\ failures' \in [Hosts -> Seq(Failure)]
         /\ Count(h)' = Count(h) + 1
         /\ \A k \in 1..Count(h) : failures'[h][k] = failures[h][k]
         /\ failures'[h][Count(h) + 1] = [rescued |-> FALSE, own |-> own]
         /\ \A j \in Hosts \ {h} : failures'[j] = failures[j]
<1> DEFINE f == [rescued |-> FALSE, own |-> own]
<1>1. f \in Failure
  BY DEF Failure
<1>2. failures' = [failures EXCEPT ![h] = Append(@, f)]
  BY DEF AddFailure
<1> HIDE DEF f
<1>3. failures[h] \in Seq(Failure) /\ Count(h) \in Nat
  BY Counts
<1>4. Append(failures[h], f) \in Seq(Failure) /\ Len(Append(failures[h], f)) = Len(failures[h]) + 1
  BY <1>1, <1>3
<1>5. failures' \in [Hosts -> Seq(Failure)] /\ failures'[h] = Append(failures[h], f)
  BY <1>2, <1>4 DEF ResultType
<1>6. Count(h)' = Count(h) + 1
  BY <1>4, <1>5 DEF Count
<1>7. \A k \in 1..Count(h) : failures'[h][k] = failures[h][k]
  BY <1>3, <1>5 DEF Count
<1>8. failures'[h][Count(h) + 1] = f
  BY <1>3, <1>5 DEF Count
<1>9. \A j \in Hosts \ {h} : failures'[j] = failures[j]
  BY <1>2 DEF ResultType
<1> QED BY <1>5, <1>6, <1>7, <1>8, <1>9 DEF f

LEMMA FailuresRescued ==
  ASSUME ResultType, NEW h \in Hosts, failures' = [failures EXCEPT ![h] = Rescued(h)]
  PROVE  /\ failures' \in [Hosts -> Seq(Failure)]
         /\ Count(h)' = Count(h)
         /\ \A k \in 1..Count(h) : /\ failures'[h][k].own <=> failures[h][k].own
                                   /\ failures[h][k].rescued => failures'[h][k].rescued
         /\ \A j \in Hosts \ {h} : failures'[j] = failures[j]
<1>1. failures[h] \in Seq(Failure) /\ Count(h) \in Nat /\ \A k \in 1..Count(h) : failures[h][k] \in Failure
  BY Counts
<1> DEFINE R(k) == failures[h][k].rescued \/ k \in (beforeBlock[h] + 1)..beforeRescue[h]
<1>2. ASSUME NEW k \in 1..Count(h)
      PROVE  /\ Rescued(h)[k] \in Failure
             /\ Rescued(h)[k].own <=> failures[h][k].own
             /\ failures[h][k].rescued => Rescued(h)[k].rescued
  <2>1. Rescued(h)[k] = [failures[h][k] EXCEPT !.rescued = R(k)]
    BY DEF Rescued
  <2>2. failures[h][k] \in [rescued : BOOLEAN, own : BOOLEAN] /\ R(k) \in BOOLEAN
    BY <1>1 DEF Failure
  <2> DEFINE r == R(k)
  <2>3. r \in BOOLEAN /\ (failures[h][k].rescued => r) /\ Rescued(h)[k] = [failures[h][k] EXCEPT !.rescued = r]
    BY <2>1, <2>2
  <2> HIDE DEF r
  <2> QED BY <2>2, <2>3 DEF Failure
<1>3. Rescued(h) \in Seq(Failure) /\ Len(Rescued(h)) = Count(h)
  <2>1. Rescued(h) \in [1..Count(h) -> Failure]
    BY <1>2 DEF Rescued
  <2> QED BY <1>1, <2>1
<1>4. failures' \in [Hosts -> Seq(Failure)] /\ failures'[h] = Rescued(h)
  BY <1>3 DEF ResultType
<1>5. \A j \in Hosts \ {h} : failures'[j] = failures[j]
  BY DEF ResultType
<1>6. Count(h)' = Count(h)
  BY <1>3, <1>4 DEF Count
<1> QED BY <1>2, <1>4, <1>5, <1>6

LEMMA ResultsTyped ==
  ASSUME PlaceType, HandlerType, ResultType, [Next]_vars
  PROVE  ResultType'
<1> USE DEF marks, flags
<1>1. CASE UNCHANGED <<failures, marks, failed, ended>>
  BY <1>1 DEF ResultType
<1>2. ASSUME NEW h \in Hosts, Walk(h)
      PROVE  ResultType'
  <2> USE Counts
  <2>1. CASE Begin(h) \/ Confirm(h) \/ Decline(h) \/ SkipOnce(h) \/ RunModule(h) \/ TimeOut(h) \/ MetaFlush(h)
             \/ NextLeaf(h) \/ EndAlways(h) \/ EndHost(h)
    <3>1. UNCHANGED <<failures, marks, failed, ended>>
      BY <2>1 DEF Begin, Confirm, Decline, SkipOnce, RunModule, TimeOut, MetaFlush, NextLeaf, EndAlways, EndHost
    <3> QED BY <1>1, <3>1
  <2>2. CASE Enter(h)
    BY <2>2 DEF Enter, ResultType
  <2>3. CASE EnterBlock(h)
    BY <2>3 DEF EnterBlock, ResultType
  <2>4. CASE MetaEnd(h)
    BY <2>4 DEF MetaEnd, ResultType
  <2>5. CASE AppendResult(h)
    <3>1. failures' \in [Hosts -> Seq(Failure)]
      BY <2>5, FailureAdded DEF AppendResult, ResultType
    <3> QED BY <2>5, <3>1 DEF AppendResult, ResultType
  <2>6. CASE EndBlock(h)
    BY <2>6 DEF EndBlock, ResultType
  <2>7. CASE EndRescue(h)
    <3>1. failures' \in [Hosts -> Seq(Failure)]
      BY <2>7, FailuresRescued DEF EndRescue, ResultType
    <3> QED BY <2>7, <3>1 DEF EndRescue, ResultType
  <2>8. CASE EndEntry(h)
    <3>1. failed' \subseteq Hosts
      BY <2>8 DEF EndEntry, EndByError, EndNormally, ResultType
    <3>2. /\ before' \in [Hosts -> Nat] /\ beforeBlock' \in [Hosts -> Nat]
          /\ beforeRescue' \in [Hosts -> Nat]
      BY <2>8 DEF EndEntry, Forget, ResultType
    <3> QED BY <2>8, <3>1, <3>2 DEF EndEntry, ResultType
  <2> QED BY <1>2, <2>1, <2>2, <2>3, <2>4, <2>5, <2>6, <2>7, <2>8 DEF Walk
<1>3. ASSUME NEW a \in Hosts \union {Main}, Flush(a)
      PROVE  ResultType'
  <2>1. CASE AcquireFlush(a) \/ TakePending(a) \/ ReleaseFlush(a) \/ \E p \in queue : SkipHandler(a, p)
    <3>1. UNCHANGED <<failures, marks, failed, ended>>
      BY <2>1 DEF AcquireFlush, TakePending, ReleaseFlush, SkipHandler
    <3> QED BY <1>1, <3>1
  <2>2. CASE MarkHandlerFailed(a)
    <3>1. marking[2] \in Hosts
      BY <2>2 DEF MarkHandlerFailed, HandlerType, Pairs
    <3> QED BY <2>2, <3>1 DEF MarkHandlerFailed, ResultType
  <2>3. ASSUME NEW p \in queue, RunHandler(a, p)
        PROVE  ResultType'
    <3>1. p[2] \in Hosts
      BY DEF HandlerType, Pairs
    <3>2. failures' \in [Hosts -> Seq(Failure)]
      <4>1. CASE HandlerSucceeds(p)
        BY <4>1 DEF HandlerSucceeds, ResultType
      <4>2. CASE HandlerFails(p)
        BY <3>1, <4>2, FailureAdded DEF HandlerFails
      <4> QED BY <2>3, <4>1, <4>2 DEF RunHandler
    <3> QED BY <2>3, <3>2 DEF RunHandler, ResultType
  <2> QED BY <1>3, <2>1, <2>2, <2>3 DEF Flush
<1>4. CASE MainStep \/ (\E l \in late : Late(l)) \/ Returned \/ UNCHANGED vars
  BY <1>1, <1>4 DEF MainStep, PassOver, Start, ListDone, Post, Final, Late, Returned, vars
<1> QED BY <1>2, <1>3, <1>4 DEF Next
Phases == {"start", "flush", "post", "postFlush", "final", "finalFlush", "done"}

\* What TypeOK says of the errors, and of the flags of the play.
ErrorType ==
  /\ out \in [Hosts -> [fails : BOOLEAN, errs : BOOLEAN]]
  /\ blockErr \in [Hosts -> BOOLEAN] /\ alwaysErr \in [Hosts -> BOOLEAN]
  /\ endPlay \in BOOLEAN /\ stepMode \in BOOLEAN
  /\ firstErr \in BOOLEAN /\ playErr \in BOOLEAN /\ pc \in Phases

LEMMA OutcomeTyped ==
  ASSUME ErrorType, NEW h \in Hosts, NEW fails \in BOOLEAN, NEW err \in BOOLEAN, Outcome(h, fails, err)
  PROVE  out' \in [Hosts -> [fails : BOOLEAN, errs : BOOLEAN]]
BY DEF ErrorType, Outcome

LEMMA ErrorsTyped ==
  ASSUME PlaceType, HandlerType, ErrorType, [Next]_vars
  PROVE  ErrorType'
<1> USE DEF errs, flags, main
<1>1. CASE UNCHANGED <<out, errs, endPlay, stepMode, firstErr, playErr, pc>>
  BY <1>1 DEF ErrorType
<1>2. ASSUME NEW h \in Hosts, Walk(h)
      PROVE  ErrorType'
  <2>0. out[h].errs \in BOOLEAN
    BY DEF ErrorType
  <2>1. CASE Begin(h) \/ Decline(h) \/ Enter(h) \/ EnterBlock(h) \/ MetaFlush(h) \/ EndHost(h)
    <3>1. UNCHANGED <<out, errs, endPlay, stepMode, firstErr, playErr, pc>>
      BY <2>1 DEF Begin, Decline, Enter, EnterBlock, MetaFlush, EndHost
    <3> QED BY <1>1, <3>1
  <2>2. CASE Confirm(h)
    BY <2>2 DEF Confirm, ErrorType
  <2>3. CASE SkipOnce(h) \/ RunModule(h) \/ TimeOut(h)
    <3>1. \E fails, err \in BOOLEAN : Outcome(h, fails, err)
      BY <2>3 DEF SkipOnce, RunModule, TimeOut
    <3>2. out' \in [Hosts -> [fails : BOOLEAN, errs : BOOLEAN]]
      BY <3>1, OutcomeTyped
    <3>3. UNCHANGED <<errs, endPlay, stepMode, firstErr, playErr, pc>>
      BY <2>3 DEF SkipOnce, RunModule, TimeOut
    <3> QED BY <3>2, <3>3 DEF ErrorType
  <2>4. CASE MetaEnd(h)
    <3>1. out' \in [Hosts -> [fails : BOOLEAN, errs : BOOLEAN]]
      BY <2>4, OutcomeTyped DEF MetaEnd
    <3>2. UNCHANGED <<errs, stepMode, firstErr, playErr, pc>> /\ endPlay' \in BOOLEAN
      BY <2>4 DEF MetaEnd, ErrorType
    <3> QED BY <3>1, <3>2 DEF ErrorType
  <2>5. CASE AppendResult(h)
    BY <2>5 DEF AppendResult, ErrorType
  <2>6. CASE NextLeaf(h) \/ EndAlways(h)
    <3>1. \/ alwaysErr' = [alwaysErr EXCEPT ![h] = @ \/ (sec[h] = "always" /\ out[h].errs)]
          \/ alwaysErr' = [alwaysErr EXCEPT ![h] = @ \/ out[h].errs]
      BY <2>6 DEF NextLeaf, EndAlways
    <3>2. alwaysErr' \in [Hosts -> BOOLEAN]
      BY <3>1, <2>0 DEF ErrorType
    <3>3. UNCHANGED <<out, blockErr, endPlay, stepMode, firstErr, playErr, pc>>
      BY <2>6 DEF NextLeaf, EndAlways
    <3> QED BY <3>2, <3>3 DEF ErrorType
  <2>7. CASE EndBlock(h)
    <3>1. blockErr' \in [Hosts -> BOOLEAN]
      BY <2>7, <2>0 DEF EndBlock, ErrorType
    <3>2. UNCHANGED <<out, alwaysErr, endPlay, stepMode, firstErr, playErr, pc>>
      BY <2>7 DEF EndBlock
    <3> QED BY <3>1, <3>2 DEF ErrorType
  <2>8. CASE EndRescue(h)
    <3>1. \/ blockErr' = [blockErr EXCEPT ![h] = @ \/ out[h].errs]
          \/ blockErr' = [blockErr EXCEPT ![h] = FALSE]
      BY <2>8 DEF EndRescue
    <3>2. blockErr' \in [Hosts -> BOOLEAN]
      BY <3>1, <2>0 DEF ErrorType
    <3>3. UNCHANGED <<out, alwaysErr, endPlay, stepMode, firstErr, playErr, pc>>
      BY <2>8 DEF EndRescue
    <3> QED BY <3>2, <3>3 DEF ErrorType
  <2>9. CASE EndEntry(h)
    <3>1. out' \in [Hosts -> [fails : BOOLEAN, errs : BOOLEAN]]
      BY <2>9 DEF EndEntry, Forget, NoResult, ErrorType
    <3>2. UNCHANGED <<errs, stepMode, playErr, pc>>
      BY <2>9 DEF EndEntry
    <3>3. \/ endPlay' = (endPlay \/ (play.aef /\ ~Inline)) /\ firstErr' = TRUE
          \/ endPlay' = (endPlay \/ (play.aef /\ FailedEntry(h))) /\ firstErr' = firstErr
      BY <2>9 DEF EndEntry, EndByError, EndNormally
    <3>4. endPlay' \in BOOLEAN
      BY <3>3
    <3>5. firstErr' \in BOOLEAN
      BY <3>3 DEF ErrorType
    <3> QED BY <3>1, <3>2, <3>4, <3>5 DEF ErrorType
  <2> QED BY <1>2, <2>1, <2>2, <2>3, <2>4, <2>5, <2>6, <2>7, <2>8, <2>9 DEF Walk
<1>3. ASSUME NEW a \in Hosts \union {Main}, Flush(a)
      PROVE  ErrorType'
  <2>1. CASE ReleaseFlush(a)
    <3>1. UNCHANGED <<errs, endPlay, stepMode, firstErr>>
      BY <2>1 DEF ReleaseFlush
    <3>2. CASE a = Main
      <4>1. playErr' = (playErr \/ handlerErr) /\ pc' = AfterFlush /\ out' = out
        BY <2>1, <3>2 DEF ReleaseFlush
      <4>2. playErr' \in BOOLEAN
        BY <4>1
      <4>3. pc' \in Phases
        BY <4>1 DEF AfterFlush, Phases
      <4> QED BY <3>1, <4>1, <4>2, <4>3 DEF ErrorType
    <3>3. CASE a # Main
      <4>1. a \in Hosts /\ UNCHANGED <<pc, playErr>>
        BY <2>1, <3>3 DEF ReleaseFlush
      <4>2. PICK ignored \in BOOLEAN : Outcome(a, handlerErr /\ ~ignored, FALSE)
        BY <2>1, <3>3 DEF ReleaseFlush
      <4>3. (handlerErr /\ ~ignored) \in BOOLEAN
        OBVIOUS
      <4>4. out' \in [Hosts -> [fails : BOOLEAN, errs : BOOLEAN]]
        BY <4>1, <4>2, <4>3, OutcomeTyped
      <4> QED BY <3>1, <4>1, <4>4 DEF ErrorType
    <3> QED BY <3>2, <3>3
  <2>2. CASE ~ReleaseFlush(a)
    <3>1. UNCHANGED <<out, errs, endPlay, stepMode, firstErr, playErr, pc>>
      BY <1>3, <2>2 DEF Flush, AcquireFlush, TakePending, MarkHandlerFailed, SkipHandler, RunHandler
    <3> QED BY <1>1, <3>1
  <2> QED BY <2>1, <2>2
<1>4. CASE ListDone
  <2>1. UNCHANGED <<out, errs, endPlay, stepMode, firstErr>> /\ playErr' = (firstErr \/ FatalAfterList)
    BY <1>4 DEF ListDone
  <2>2. playErr' \in BOOLEAN
    BY <2>1
  <2>3. pc' \in Phases
    BY <1>4 DEF ListDone, Phases
  <2> QED BY <2>1, <2>2, <2>3 DEF ErrorType
<1>5. CASE Post \/ Final
  BY <1>5 DEF Post, Final, ErrorType, Phases
<1>6. CASE (\E h \in Hosts : PassOver(h) \/ Start(h)) \/ (\E l \in late : Late(l)) \/ Returned \/ UNCHANGED vars
  BY <1>1, <1>6 DEF PassOver, Start, Late, Returned, vars
<1> QED BY <1>2, <1>3, <1>4, <1>5, <1>6 DEF Next, MainStep

\* The run_once tasks of a run are tasks of the plays.
LEMMA OnceTyped ==
  ASSUME PlaceType, PlaceInv, runOnce \subseteq Keys, [Next]_vars
  PROVE  runOnce' \subseteq Keys
<1>1. ASSUME NEW h \in Hosts, RunModule(h) \/ TimeOut(h) \/ MetaEnd(h) \/ MetaFlush(h)
      PROVE  runOnce' \subseteq Keys
  <2>1. g[h] = "leaf" /\ ExecutesOnce(h)
    BY <1>1 DEF RunModule, TimeOut, MetaEnd, MetaFlush, AtLeaf
  <2>2. Current(h).once \in Keys \union {0}
    BY <2>1, CurrentLeaf
  <2> QED BY <2>1, <2>2 DEF ExecutesOnce
<1>2. CASE runOnce' = runOnce
  BY <1>2
<1>3. ASSUME NEW h \in Hosts, Walk(h)
      PROVE  runOnce' \subseteq Keys
  BY <1>1, <1>3 DEF Walk, Begin, Confirm, Decline, Enter, EnterBlock, SkipOnce,
        AppendResult, NextLeaf, EndBlock, EndRescue, EndAlways, EndEntry, EndHost
<1>4. ASSUME NEW a \in Hosts \union {Main}, Flush(a)
      PROVE  runOnce' \subseteq Keys
  BY <1>4 DEF Flush, AcquireFlush, TakePending, MarkHandlerFailed, ReleaseFlush, SkipHandler, RunHandler
<1>5. CASE MainStep \/ (\E l \in late : Late(l)) \/ Returned \/ UNCHANGED vars
  BY <1>5 DEF MainStep, PassOver, Start, ListDone, Post, Final, Late, Returned, vars
<1> QED BY <1>3, <1>4, <1>5 DEF Next-----------------------------------------------------------------------------
LEMMA SetsFinite ==
  /\ IsFiniteSet(RunningHosts) /\ Cardinality(RunningHosts) \in Nat
  /\ \A k : IsFiniteSet(InEntry(k)) /\ Cardinality(InEntry(k)) \in Nat
<1>1. IsFiniteSet(Hosts)
  BY FS_Interval, HostsAssumption DEF Hosts
<1>2. RunningHosts \subseteq Hosts /\ \A k : InEntry(k) \subseteq Hosts
  BY DEF RunningHosts, InEntry
<1> QED BY <1>1, <1>2, FS_Subset, FS_CardinalityType

Inside == {"entry", "leaf", "result", "next", "flush", "end"}

LEMMA RunningSteps ==
  ASSUME PlaceType, TokensInv, NEW h \in Hosts, NEW l \in Stages, Goto(h, l), play' = play,
         \/ Running(h) /\ l \notin {"none", "quit"} /\ sem' = sem
         \/ Running(h) /\ l \in {"none", "quit"} /\ sem' = sem - 1
         \/ ~Running(h) /\ l \notin {"none", "quit"} /\ sem' = sem + 1 /\ sem < play.forks
  PROVE  sem' = Cardinality(RunningHosts') /\ sem' <= play'.forks
<1>1. g' \in [Hosts -> Stages] /\ g'[h] = l /\ \A j \in Hosts \ {h} : g'[j] = g[j]
  BY GotoMoves
<1>2. /\ sem = Cardinality(RunningHosts) /\ sem <= play.forks
      /\ sem \in Nat /\ play.forks \in Nat
  BY SetsFinite, PlayShape DEF TokensInv, PlaceType
<1>3. \A j \in Hosts : Running(j)' <=> IF j = h THEN l \notin {"none", "quit"} ELSE Running(j)
  BY <1>1 DEF Running
<1>4. CASE Running(h) /\ l \notin {"none", "quit"} /\ sem' = sem
  <2>1. RunningHosts' = RunningHosts
    BY <1>3, <1>4 DEF RunningHosts
  <2> QED BY <1>2, <1>4, <2>1
<1>5. CASE Running(h) /\ l \in {"none", "quit"} /\ sem' = sem - 1
  <2>1. RunningHosts' = RunningHosts \ {h} /\ h \in RunningHosts
    BY <1>3, <1>5 DEF RunningHosts
  <2>2. Cardinality(RunningHosts') = Cardinality(RunningHosts) - 1
    BY <2>1, SetsFinite, FS_RemoveElement
  <2> QED BY <1>2, <1>5, <2>2
<1>6. CASE ~Running(h) /\ l \notin {"none", "quit"} /\ sem' = sem + 1 /\ sem < play.forks
  <2>1. RunningHosts' = RunningHosts \union {h} /\ h \notin RunningHosts
    BY <1>3, <1>6 DEF RunningHosts
  <2>2. Cardinality(RunningHosts') = Cardinality(RunningHosts) + 1
    BY <2>1, SetsFinite, FS_AddElement
  <2> QED BY <1>2, <1>6, <2>2
<1> QED BY <1>4, <1>5, <1>6

LEMMA EntrySteps ==
  ASSUME PlaceType, PlaceInv, TokensInv, NEW h \in Hosts, NEW l \in Stages, Goto(h, l), play' = play,
         \A j \in Hosts \ {h} : at'[j] = at[j],
         \/ (Within(h) <=> l \in Inside) /\ (Within(h) => at'[h] = at[h]) /\ tSem' = tSem
         \/ /\ Within(h) /\ l \notin Inside
            /\ tSem' = [tSem EXCEPT ![at[h]] = @ - 1]
         \/ /\ ~Within(h) /\ l \in Inside /\ at'[h] = at[h] /\ at[h] <= Len(play.tasks)
            /\ tSem' = [tSem EXCEPT ![at[h]] = @ + 1]
  PROVE  /\ tSem' \in [DOMAIN play'.tasks -> Nat]
         /\ \A k \in DOMAIN play'.tasks : tSem'[k] = Cardinality(InEntry(k)')
<1>1. g' \in [Hosts -> Stages] /\ g'[h] = l /\ \A j \in Hosts \ {h} : g'[j] = g[j]
  BY GotoMoves
<1>2. \A j \in Hosts : Within(j)' <=> IF j = h THEN l \in Inside ELSE Within(j)
  BY <1>1 DEF Within, Inside
<1>3. at[h] \in 1..(Len(play.tasks) + 1) /\ (Within(h) => at[h] <= Len(play.tasks))
  BY DEF PlaceType, PlaceInv, PlaceOf
<1>4. /\ DOMAIN play.tasks = 1..Len(play.tasks) /\ Len(play.tasks) \in Nat
      /\ tSem \in [DOMAIN play.tasks -> Nat]
      /\ \A k \in DOMAIN play.tasks : tSem[k] = Cardinality(InEntry(k))
  BY PlayShape DEF PlaceType, TokensInv
<1>0. PICK e : e = at[h]
  OBVIOUS
<1>5. CASE (Within(h) <=> l \in Inside) /\ (Within(h) => at'[h] = at[h]) /\ tSem' = tSem
  <2>1. \A k : InEntry(k)' = InEntry(k)
    BY <1>2, <1>5 DEF InEntry
  <2> QED BY <1>4, <1>5, <2>1
<1>6. CASE Within(h) /\ l \notin Inside /\ tSem' = [tSem EXCEPT ![e] = @ - 1]
  <2>1. e \in DOMAIN play.tasks
    BY <1>0, <1>3, <1>4, <1>6
  <2>2. InEntry(e)' = InEntry(e) \ {h} /\ h \in InEntry(e)
    BY <1>0, <1>2, <1>6 DEF InEntry
  <2>3. \A k : k # e => InEntry(k)' = InEntry(k)
    BY <1>0, <1>2, <1>6 DEF InEntry
  <2>4. Cardinality(InEntry(e)') = tSem[e] - 1 /\ Cardinality(InEntry(e)') \in Nat
    <3>1. Cardinality(InEntry(e) \ {h}) = Cardinality(InEntry(e)) - 1
      BY <2>2, SetsFinite, FS_RemoveElement
    <3>2. IsFiniteSet(InEntry(e) \ {h})
      BY SetsFinite, FS_RemoveElement
    <3> QED BY <1>4, <2>1, <2>2, <3>1, <3>2, FS_CardinalityType
  <2>5. tSem'[e] = tSem[e] - 1 /\ \A k \in DOMAIN play.tasks \ {e} : tSem'[k] = tSem[k]
    BY <1>4, <1>6, <2>1
  <2>6. tSem' \in [DOMAIN play.tasks -> Nat]
    BY <1>4, <1>6, <2>1, <2>4
  <2>7. \A k \in DOMAIN play.tasks : tSem'[k] = Cardinality(InEntry(k)')
    BY <1>4, <2>3, <2>4, <2>5
  <2> QED BY <2>6, <2>7
<1>7. CASE /\ ~Within(h) /\ l \in Inside /\ at'[h] = at[h] /\ at[h] <= Len(play.tasks)
           /\ tSem' = [tSem EXCEPT ![e] = @ + 1]
  <2>1. e \in DOMAIN play.tasks
    BY <1>0, <1>3, <1>4, <1>7
  <2>2. InEntry(e)' = InEntry(e) \union {h} /\ h \notin InEntry(e)
    BY <1>0, <1>2, <1>7 DEF InEntry
  <2>3. \A k : k # e => InEntry(k)' = InEntry(k)
    BY <1>0, <1>2, <1>7 DEF InEntry
  <2>4. Cardinality(InEntry(e)') = tSem[e] + 1
    BY <1>4, <2>1, <2>2, SetsFinite, FS_AddElement
  <2>5. tSem'[e] = tSem[e] + 1 /\ \A k \in DOMAIN play.tasks \ {e} : tSem'[k] = tSem[k]
    BY <1>4, <1>7, <2>1
  <2>6. tSem' \in [DOMAIN play.tasks -> Nat]
    BY <1>4, <1>7, <2>1
  <2>7. \A k \in DOMAIN play.tasks : tSem'[k] = Cardinality(InEntry(k)')
    BY <1>4, <2>3, <2>4, <2>5
  <2> QED BY <2>6, <2>7
<1> QED BY <1>0, <1>5, <1>6, <1>7

LEMMA TokensFrame ==
  ASSUME TokensInv, UNCHANGED <<play, g, at, tokens>>
  PROVE  TokensInv'
BY DEF TokensInv, RunningHosts, InEntry, Running, Within, tokens

LEMMA TokensMove ==
  ASSUME PlaceType, PlaceInv, TokensInv, NEW h \in Hosts, NEW l \in Stages \ {"none", "quit"}, Goto(h, l),
         Running(h), Within(h) <=> l \in Inside, UNCHANGED <<play, tokens, at>>
  PROVE  TokensInv'
<1>1. sem' = sem /\ tSem' = tSem /\ play' = play /\ at' = at
  BY DEF tokens
<1>2. sem' = Cardinality(RunningHosts') /\ sem' <= play'.forks
  BY <1>1, RunningSteps
<1>3. /\ tSem' \in [DOMAIN play'.tasks -> Nat]
      /\ \A k \in DOMAIN play'.tasks : tSem'[k] = Cardinality(InEntry(k)')
  BY <1>1, EntrySteps
<1> QED BY <1>2, <1>3 DEF TokensInv

LEMMA TokensWalk ==
  ASSUME PlaceType, PlaceInv, TokensInv, NEW h \in Hosts, Walk(h)
  PROVE  TokensInv'
<1> USE DEF place, tokens, main
<1>1. CASE Begin(h) \/ Confirm(h)
  <2>1. g[h] \in {"loop", "prompt"} /\ UNCHANGED <<play, tokens, at>> /\ \E l \in {"prompt", "throttle"} : Goto(h, l)
    BY <1>1 DEF Begin, Confirm
  <2> QED BY <2>1, TokensMove DEF Running, Within, Inside, Stages
<1>2. CASE EnterBlock(h) \/ SkipOnce(h) \/ RunModule(h) \/ TimeOut(h) \/ MetaEnd(h) \/ MetaFlush(h)
  <2>1. g[h] \in {"entry", "leaf"} /\ UNCHANGED <<play, tokens, at>> /\ \E l \in {"leaf", "result", "flush"} : Goto(h, l)
    BY <1>2 DEF EnterBlock, SkipOnce, RunModule, TimeOut, MetaEnd, MetaFlush, AtLeaf, Outcome
  <2> QED BY <2>1, TokensMove DEF Running, Within, Inside, Stages
<1>3. CASE AppendResult(h) \/ NextLeaf(h) \/ EndBlock(h) \/ EndRescue(h) \/ EndAlways(h)
  <2>1. g[h] \in {"result", "next"} /\ UNCHANGED <<play, tokens, at>> /\ \E l \in {"next", "leaf", "end"} : Goto(h, l)
    BY <1>3 DEF AppendResult, NextLeaf, EndBlock, EndRescue, EndAlways, SectionOver, Enters
  <2> QED BY <2>1, TokensMove DEF Running, Within, Inside, Stages
<1>4. CASE Decline(h)
  <2>1. /\ g[h] = "prompt" /\ play' = play /\ sem' = sem /\ tSem' = tSem /\ Goto(h, "loop")
        /\ \A j \in Hosts \ {h} : at'[j] = at[j]
    BY <1>4 DEF Decline, PlaceType
  <2>2. Running(h) /\ ~Within(h) /\ "loop" \in Stages \ ({"none", "quit"} \union Inside)
    BY <2>1 DEF Running, Within, Inside, Stages
  <2>3. sem' = Cardinality(RunningHosts') /\ sem' <= play'.forks
    BY <2>1, <2>2, RunningSteps
  <2>4. /\ tSem' \in [DOMAIN play'.tasks -> Nat]
        /\ \A k \in DOMAIN play'.tasks : tSem'[k] = Cardinality(InEntry(k)')
    BY <2>1, <2>2, EntrySteps
  <2> QED BY <2>3, <2>4 DEF TokensInv
<1>5. CASE Enter(h)
  <2>1. /\ g[h] = "throttle" /\ play' = play /\ sem' = sem /\ at' = at /\ Goto(h, "entry")
        /\ tSem' = [tSem EXCEPT ![at[h]] = @ + 1]
    BY <1>5 DEF Enter
  <2>2. Running(h) /\ ~Within(h) /\ "entry" \in Stages \ {"none", "quit"} /\ "entry" \in Inside
    BY <2>1 DEF Running, Within, Inside, Stages
  <2>3. at[h] <= Len(play.tasks)
    BY <2>1 DEF PlaceInv, PlaceOf
  <2>4. sem' = Cardinality(RunningHosts') /\ sem' <= play'.forks
    BY <2>1, <2>2, RunningSteps
  <2>5. /\ tSem' \in [DOMAIN play'.tasks -> Nat]
        /\ \A k \in DOMAIN play'.tasks : tSem'[k] = Cardinality(InEntry(k)')
    BY <2>1, <2>2, <2>3, EntrySteps
  <2> QED BY <2>4, <2>5 DEF TokensInv
<1>6. CASE EndEntry(h)
  <2>1. g[h] = "end" /\ play' = play /\ tSem' = [tSem EXCEPT ![at[h]] = @ - 1]
    BY <1>6 DEF EndEntry, GivenBack
  <2>2. Running(h) /\ Within(h)
    BY <2>1 DEF Running, Within
  <2>3. \A j \in Hosts \ {h} : at'[j] = at[j]
    BY <1>6 DEF EndEntry, EndByError, EndNormally, PlaceType
  <2>4. PICK l \in {"quit", "loop"} : Goto(h, l) /\ sem' = IF l = "quit" THEN sem - 1 ELSE sem
    BY <1>6 DEF EndEntry, EndByError, EndNormally
  <2>5. l \in Stages /\ l \notin Inside /\ l # "none"
    BY DEF Stages, Inside
  <2>6. sem' = Cardinality(RunningHosts') /\ sem' <= play'.forks
    BY <2>1, <2>2, <2>4, <2>5, RunningSteps
  <2>7. /\ tSem' \in [DOMAIN play'.tasks -> Nat]
        /\ \A k \in DOMAIN play'.tasks : tSem'[k] = Cardinality(InEntry(k)')
    BY <2>1, <2>2, <2>3, <2>4, <2>5, EntrySteps
  <2> QED BY <2>6, <2>7 DEF TokensInv
<1>7. CASE EndHost(h)
  <2>1. /\ g[h] = "loop" /\ play' = play /\ sem' = sem - 1 /\ at' = at /\ Goto(h, "quit") /\ tSem' = tSem
    BY <1>7 DEF EndHost
  <2>2. Running(h) /\ ~Within(h) /\ "quit" \in Stages \ Inside
    BY <2>1 DEF Running, Within, Inside, Stages
  <2>3. sem' = Cardinality(RunningHosts') /\ sem' <= play'.forks
    BY <2>1, <2>2, RunningSteps
  <2>4. /\ tSem' \in [DOMAIN play'.tasks -> Nat]
        /\ \A k \in DOMAIN play'.tasks : tSem'[k] = Cardinality(InEntry(k)')
    BY <2>1, <2>2, EntrySteps
  <2> QED BY <2>3, <2>4 DEF TokensInv
<1> QED BY <1>1, <1>2, <1>3, <1>4, <1>5, <1>6, <1>7 DEF Walk

LEMMA TokensStep ==
  ASSUME PlaceType, PlaceInv, TokensInv, [Next]_vars
  PROVE  TokensInv'
<1>1. ASSUME NEW h \in Hosts, Start(h)
      PROVE  TokensInv'
  <2>1. /\ g[h] = "none" /\ play' = play /\ sem' = sem + 1 /\ sem < play.forks /\ at' = at
        /\ Goto(h, "loop") /\ tSem' = tSem
    BY <1>1 DEF Start, Turn, PlaceInv, place
  <2>2. ~Running(h) /\ ~Within(h) /\ "loop" \in Stages \ ({"none", "quit"} \union Inside)
    BY <2>1 DEF Running, Within, Inside, Stages
  <2>3. sem' = Cardinality(RunningHosts') /\ sem' <= play'.forks
    BY <2>1, <2>2, RunningSteps
  <2>4. /\ tSem' \in [DOMAIN play'.tasks -> Nat]
        /\ \A k \in DOMAIN play'.tasks : tSem'[k] = Cardinality(InEntry(k)')
    BY <2>1, <2>2, EntrySteps
  <2> QED BY <2>3, <2>4 DEF TokensInv
<1>2. ASSUME NEW a \in Hosts \union {Main}, ReleaseFlush(a)
      PROVE  TokensInv'
  <2>1. UNCHANGED <<play, tokens, at>> /\ flusher = a
    BY <1>2 DEF ReleaseFlush, Flusher, place
  <2>2. CASE a = Main
    <3>1. g' = g
      BY <1>2, <2>2 DEF ReleaseFlush
    <3> QED BY <2>1, <3>1, TokensFrame
  <2>3. CASE a # Main
    <3>1. a \in Hosts /\ Goto(a, "result") /\ g[a] = "flush"
      BY <1>2, <2>1, <2>3 DEF ReleaseFlush, Outcome, PlaceInv
    <3> QED BY <2>1, <3>1, TokensMove DEF Running, Within, Inside, Stages
  <2> QED BY <2>2, <2>3
<1>3. ASSUME NEW a \in Hosts \union {Main}, Flush(a), ~ReleaseFlush(a)
      PROVE  TokensInv'
  <2>1. UNCHANGED <<play, g, at, tokens>>
    BY <1>3 DEF Flush, AcquireFlush, TakePending, MarkHandlerFailed, SkipHandler, RunHandler, where, place
  <2> QED BY <2>1, TokensFrame
<1>4. CASE (\E h \in Hosts : PassOver(h)) \/ ListDone \/ Post \/ Final \/ (\E l \in late : Late(l)) \/ Returned \/ UNCHANGED vars
  BY <1>4, TokensFrame DEF PassOver, ListDone, Post, Final, Late, Returned, vars, where, place
<1> QED BY <1>1, <1>2, <1>3, <1>4, TokensWalk DEF Next, MainStep-----------------------------------------------------------------------------
LEMMA WalksRunning ==
  ASSUME NEW h \in Hosts, Walk(h)
  PROVE  Running(h) /\ pc' = pc
<1> USE DEF main
<1>1. CASE Begin(h) \/ Confirm(h) \/ Decline(h) \/ Enter(h) \/ EnterBlock(h) \/ EndEntry(h) \/ EndHost(h)
  BY <1>1 DEF Begin, Confirm, Decline, Enter, EnterBlock, EndEntry, EndHost, Running
<1>2. CASE SkipOnce(h) \/ RunModule(h) \/ TimeOut(h) \/ MetaEnd(h) \/ MetaFlush(h)
  BY <1>2 DEF SkipOnce, RunModule, TimeOut, MetaEnd, MetaFlush, AtLeaf, Running
<1>3. CASE AppendResult(h) \/ NextLeaf(h) \/ EndBlock(h) \/ EndRescue(h) \/ EndAlways(h)
  BY <1>3 DEF AppendResult, NextLeaf, EndBlock, EndRescue, EndAlways, SectionOver, Running
<1> QED BY <1>1, <1>2, <1>3 DEF Walk

LEMMA FlushesOwn ==
  ASSUME PlaceInv, NEW a \in Hosts \union {Main}, Flush(a)
  PROVE  /\ a \in Hosts => Running(a) /\ pc' = pc
         /\ flusher' \in {a, Nobody} /\ flusher \in {a, Nobody}
<1>1. CASE AcquireFlush(a)
  BY <1>1 DEF AcquireFlush, Calls, Running, main, Main, Hosts
<1>2. CASE ~AcquireFlush(a)
  <2>1. flusher = a /\ flusher' \in {a, Nobody}
    BY <1>2 DEF Flush, TakePending, MarkHandlerFailed, ReleaseFlush, SkipHandler, RunHandler, Takes, Flusher
  <2>2. a \in Hosts => g[a] = "flush"
    BY <2>1 DEF PlaceInv
  <2>3. a \in Hosts => pc' = pc
    <3>1. CASE ReleaseFlush(a)
      <4>1. a \in Hosts => a # Main
        BY DEF Main, Hosts
      <4> QED BY <3>1, <4>1 DEF ReleaseFlush
    <3>2. CASE ~ReleaseFlush(a)
      BY <1>2, <3>2 DEF Flush, TakePending, MarkHandlerFailed, SkipHandler, RunHandler, main
    <3> QED BY <3>1, <3>2
  <2> QED BY <2>1, <2>2, <2>3 DEF Running
<1> QED BY <1>1, <1>2

LEMMA NoPairIsNone == NoPair \notin Pairs
BY DEF NoPair, Pairs, Hosts, Handlers

\* What the play returns is at stake once all goroutines have ended, and only the
\* play's own flushes can add to it.
LEMMA ReportByMain ==
  ASSUME PlaceType, HandlerType, ReportInv, pc # "start", Flush(Main),
         flusher = Main => pc \in {"flush", "postFlush", "finalFlush"}
  PROVE  ReportInv'
<1> USE DEF ReportInv, AnyFailure, HasFailure, Count
<1>0. Main # Nobody
  BY DEF Main, Nobody
<1>1. CASE AcquireFlush(Main)
  <2>1. /\ UNCHANGED <<play, pc, g, firstErr, playErr, failures>> /\ flusher = Nobody
        /\ pc \in {"flush", "postFlush", "finalFlush"}
    BY <1>1 DEF AcquireFlush, Calls, main, where
  <2> QED BY <1>0, <2>1 DEF Running
<1>2. CASE TakePending(Main) \/ \E p \in queue : SkipHandler(Main, p)
  <2>1. UNCHANGED <<play, pc, g, firstErr, playErr, failures, flusher, handlerErr, marking>>
    BY <1>2 DEF TakePending, SkipHandler, main, where, flush
  <2> QED BY <2>1 DEF Running
<1>3. CASE MarkHandlerFailed(Main)
  <2>1. UNCHANGED <<play, pc, g, flusher>> /\ flusher = Main /\ handlerErr'
    BY <1>3 DEF MarkHandlerFailed, main, where
  <2> QED BY <2>1 DEF Running
<1>4. ASSUME NEW p \in queue, RunHandler(Main, p)
      PROVE  ReportInv'
  <2>1. UNCHANGED <<play, pc, g, firstErr, playErr, flusher, handlerErr>> /\ flusher = Main
    BY <1>4 DEF RunHandler, Takes, Flusher, main, where
  <2>2. CASE HandlerSucceeds(p)
    <3>1. UNCHANGED <<failures, marking>>
      BY <2>2 DEF HandlerSucceeds
    <3> QED BY <2>1, <3>1 DEF Running
  <2>3. CASE HandlerFails(p)
    <3>1. marking' # NoPair
      BY <2>3, NoPairIsNone DEF HandlerFails, HandlerType
    <3> QED BY <2>1, <3>1 DEF Running
  <2> QED BY <1>4, <2>2, <2>3 DEF RunHandler
<1>5. CASE ReleaseFlush(Main)
  <2>1. /\ UNCHANGED <<play, g, firstErr, failures>> /\ playErr' = (playErr \/ handlerErr)
        /\ flusher' = Nobody /\ flusher = Main /\ marking = NoPair
    BY <1>5 DEF ReleaseFlush, Flusher
  <2> QED BY <1>0, <2>1 DEF Running
<1> QED BY <1>1, <1>2, <1>3, <1>4, <1>5 DEF Flush

LEMMA ReportStep ==
  ASSUME PlaceType, PlaceInv, HandlerType, TokensInv, ReportInv, [Next]_vars
  PROVE  ReportInv'
<1>0. Main # Nobody /\ Main \notin Hosts
  BY DEF Main, Nobody, Hosts
<1>1. CASE pc = "start" /\ pc' = "start" /\ flusher' # Main
  BY <1>1 DEF ReportInv
<1>2. ASSUME NEW h \in Hosts, Walk(h)
      PROVE  ReportInv'
  <2>1. Running(h) /\ pc' = pc
    BY <1>2, WalksRunning
  <2>2. pc = "start" /\ flusher # Main
    BY <2>1 DEF ReportInv
  <2>3. flusher' = flusher
    BY <1>2 DEF Walk, Begin, Confirm, Decline, Enter, EnterBlock, SkipOnce, RunModule, TimeOut, MetaEnd,
       MetaFlush, AppendResult, NextLeaf, EndBlock, EndRescue, EndAlways, EndEntry, EndHost, handling, flush
  <2> QED BY <1>1, <2>1, <2>2, <2>3
<1>3. ASSUME NEW a \in Hosts, Flush(a)
      PROVE  ReportInv'
  <2>1. Running(a) /\ pc' = pc /\ flusher' # Main
    BY <1>0, <1>3, FlushesOwn
  <2>2. pc = "start"
    BY <2>1 DEF ReportInv
  <2> QED BY <1>1, <2>1, <2>2
<1>4. CASE Flush(Main)
  <2>1. flusher = Main => pc \in {"flush", "postFlush", "finalFlush"}
    BY DEF ReportInv
  <2>2. pc # "start"
    BY <1>4, <2>1, <1>0 DEF Flush, AcquireFlush, Calls, TakePending, MarkHandlerFailed, ReleaseFlush,
       SkipHandler, RunHandler, Takes, Flusher
  <2> QED BY <1>4, <2>1, <2>2, ReportByMain
<1>5. CASE ListDone
  <2>1. /\ pc = "start" /\ sem = 0 /\ UNCHANGED <<play, g, firstErr, failures, flusher>>
        /\ playErr' = (firstErr \/ FatalAfterList)
    BY <1>5 DEF ListDone, where, handling, flush
  <2>2. RunningHosts = {}
    BY <2>1, SetsFinite, FS_EmptySet DEF TokensInv
  <2>3. \A h \in Hosts : ~Running(h)'
    BY <2>1, <2>2 DEF RunningHosts, Running
  <2>4. flusher' # Main
    BY <2>1 DEF ReportInv
  <2>5. AnyFailure' <=> AnyFailure
    BY <2>1 DEF AnyFailure, HasFailure, Count
  <2>6. firstErr' \/ (play'.aef /\ AnyFailure') => playErr'
    BY <2>1, <2>5 DEF FatalAfterList
  <2> QED BY <2>3, <2>4, <2>6 DEF ReportInv
<1>6. CASE Post \/ Final
  <2>1. /\ pc \in {"post", "final"} /\ UNCHANGED <<play, g, firstErr, playErr, failures, flusher, handlerErr, marking>>
    BY <1>6 DEF Post, Final, where, handling, flush
  <2> QED BY <2>1 DEF ReportInv, Running, AnyFailure, HasFailure, Count
<1>7. ASSUME NEW h \in Hosts, PassOver(h) \/ Start(h)
      PROVE  ReportInv'
  <2>1. pc = "start" /\ UNCHANGED <<pc, flusher>>
    BY <1>7 DEF PassOver, Start, Turn, handling, flush
  <2> QED BY <1>1, <2>1 DEF ReportInv
<1>8. CASE (\E l \in late : Late(l)) \/ Returned \/ UNCHANGED vars
  <2>1. UNCHANGED <<play, pc, g, firstErr, playErr, failures, flusher, handlerErr, marking>>
    BY <1>8 DEF Late, Returned, vars, main, where, handling, flush
  <2> QED BY <2>1 DEF ReportInv, Running, AnyFailure, HasFailure, Count
<1> QED BY <1>2, <1>3, <1>4, <1>5, <1>6, <1>7, <1>8 DEF Next, MainStep-----------------------------------------------------------------------------
LEMMA ResultsStay ==
  ASSUME NEW j \in Hosts, ResultsOf(j), g'[j] = g[j], before'[j] = before[j], failures'[j] = failures[j],
         j \in failed => j \in failed'
  PROVE  ResultsOf(j)'
BY DEF ResultsOf, Within, Answered, Count

\* A goroutine changes the results of its own host, and no other's mark.
LEMMA ResultsByHost ==
  ASSUME PlaceType, ResultType, ResultsInv, NEW h \in Hosts, NEW l, Goto(h, l), ResultsOf(h)',
         \A j \in Hosts \ {h} : before'[j] = before[j] /\ failures'[j] = failures[j],
         failed \ {h} \subseteq failed'
  PROVE  ResultsInv'
<1>1. ASSUME NEW j \in Hosts PROVE ResultsOf(j)'
  <2>1. CASE j = h
    BY <2>1
  <2>2. CASE j # h
    <3>1. g'[j] = g[j]
      BY <2>2 DEF Goto, PlaceType
    <3> QED BY <2>2, <3>1, ResultsStay DEF ResultsInv
  <2> QED BY <2>1, <2>2
<1> QED BY <1>1 DEF ResultsInv

LEMMA GotoHere ==
  ASSUME PlaceType, NEW h \in Hosts, NEW l, Goto(h, l)
  PROVE  g'[h] = l
BY DEF PlaceType, Goto

\* Steps that leave the results and marks alone.
LEMMA ResultsGoOn ==
  ASSUME PlaceType, ResultType, ResultsInv, NEW h \in Hosts, NEW l, Goto(h, l),
         UNCHANGED <<failures, before>>, failed \ {h} \subseteq failed',
         \/ g[h] = "loop" /\ l = "quit"
         \/ g[h] = "loop" /\ h \notin failed /\ l \in {"prompt", "throttle"}
         \/ g[h] = "prompt" /\ l \in {"throttle", "loop"}
         \/ g[h] \in {"entry", "leaf", "result", "next", "flush"} /\ l \in {"leaf", "result", "next", "flush", "end"}
         \/ g[h] = "none" /\ l = "loop"
  PROVE  ResultsInv'
<1>1. g'[h] = l
  BY GotoHere
<1>2. ResultsOf(h) /\ before'[h] = before[h] /\ failures'[h] = failures[h] /\ Count(h)' = Count(h)
  BY DEF ResultsInv, Count
<1>3. Answered(h, before[h])' <=> Answered(h, before[h])
  BY <1>2 DEF Answered
<1>4. Answered(h, Count(h))' <=> Answered(h, Count(h))
  BY <1>2 DEF Answered
<1>5. ResultsOf(h)'
  BY <1>1, <1>2, <1>3, <1>4 DEF ResultsOf, Within
<1> QED BY <1>5, ResultsByHost

\* A failure is appended, or flags are raised: what was answered stays so.
LEMMA ResultsWithin ==
  ASSUME PlaceType, ResultType, ResultsInv, NEW h \in Hosts, AppendResult(h) \/ EndRescue(h)
  PROVE  ResultsInv'
<1>1. Within(h) /\ before' = before
  BY DEF AppendResult, EndRescue, SectionOver, Within, marks
<1>2. PICK l \in {"next", "leaf", "end"} : Goto(h, l)
  BY DEF AppendResult, EndRescue, Enters
<1> DEFINE Kept(k) == /\ failures'[h][k].own <=> failures[h][k].own
                      /\ failures[h][k].rescued => failures'[h][k].rescued
<1>3. /\ \A k \in 1..Count(h) : Kept(k)
      /\ Count(h)' \in {Count(h), Count(h) + 1}
      /\ \A j \in Hosts \ {h} : failures'[j] = failures[j]
  <2>1. CASE failures' = failures
    BY <2>1 DEF Count
  <2>2. CASE AddFailure(h, TRUE)
    <3>1. /\ Count(h)' = Count(h) + 1
          /\ \A k \in 1..Count(h) : failures'[h][k] = failures[h][k]
          /\ \A j \in Hosts \ {h} : failures'[j] = failures[j]
      BY <2>2, FailureAdded
    <3> QED BY <3>1
  <2>3. CASE failures' = [failures EXCEPT ![h] = Rescued(h)]
    <3>1. /\ Count(h)' = Count(h)
          /\ \A k \in 1..Count(h) : Kept(k)
          /\ \A j \in Hosts \ {h} : failures'[j] = failures[j]
      BY <2>3, FailuresRescued
    <3> QED BY <3>1
  <2>4. failures' = failures \/ AddFailure(h, TRUE) \/ failures' = [failures EXCEPT ![h] = Rescued(h)]
    BY DEF AppendResult, EndRescue
  <2> QED BY <2>1, <2>2, <2>3, <2>4
<1>4. before[h] <= Count(h) /\ Answered(h, before[h]) /\ before[h] \in Nat /\ Count(h) \in Nat
  BY <1>1, Counts DEF ResultsInv, ResultsOf, ResultType
<1>5. \A k \in 1..before[h] : failures'[h][k].own => failures'[h][k].rescued
  <2> SUFFICES ASSUME NEW k \in 1..before[h], failures'[h][k].own PROVE failures'[h][k].rescued
    OBVIOUS
  <2>1. k \in 1..Count(h)
    BY <1>4
  <2>2. Kept(k)
    BY <1>3, <2>1
  <2> QED BY <1>4, <2>2 DEF Answered
<1>6. Answered(h, before[h])'
  BY <1>1, <1>5 DEF Answered
<1>7. Count(h)' >= before'[h]
  BY <1>1, <1>3, <1>4
<1>8. g'[h] = l
  BY <1>2, GotoHere
<1>9. ResultsOf(h)'
  BY <1>1, <1>2, <1>3, <1>4, <1>6, <1>7, <1>8 DEF ResultsOf, Within
<1>10. failed \ {h} \subseteq failed'
  BY DEF AppendResult, EndRescue, flags
<1> QED BY <1>1, <1>2, <1>3, <1>9, <1>10, ResultsByHost

LEMMA ResultsEnter ==
  ASSUME PlaceType, ResultType, ResultsInv, NEW h \in Hosts, Enter(h)
  PROVE  ResultsInv'
<1>1. /\ g[h] = "throttle" /\ Goto(h, "entry") /\ UNCHANGED <<failures, failed>>
      /\ before' = [before EXCEPT ![h] = Count(h)]
  BY DEF Enter, flags
<1>2. g'[h] = "entry"
  BY <1>1, GotoHere
<1>3. Answered(h, Count(h)) /\ Count(h) \in Nat
  BY <1>1, Counts DEF ResultsInv, ResultsOf
<1>4. before'[h] = Count(h) /\ Count(h)' = Count(h)
  BY <1>1 DEF ResultType, Count
<1>5. ResultsOf(h)'
  BY <1>1, <1>2, <1>3, <1>4 DEF ResultsOf, Answered
<1>6. \A j \in Hosts \ {h} : before'[j] = before[j]
  BY <1>1 DEF ResultType
<1> QED BY <1>1, <1>5, <1>6, ResultsByHost

LEMMA ResultsLeave ==
  ASSUME PlaceType, ResultType, ResultsInv, NEW h \in Hosts, EndEntry(h)
  PROVE  ResultsInv'
<1>1. g[h] = "end" /\ UNCHANGED failures /\ before' = [before EXCEPT ![h] = 0]
  BY DEF EndEntry, Forget
<1>2. Answered(h, before[h]) /\ before[h] \in Nat /\ Count(h) \in Nat /\ before[h] <= Count(h)
  BY <1>1, Counts DEF ResultsInv, ResultsOf, Within, ResultType
<1>3. before'[h] = 0 /\ Count(h)' = Count(h) /\ \A j \in Hosts \ {h} : before'[j] = before[j]
  BY <1>1 DEF ResultType, Count
<1>4. failed \subseteq failed'
  BY DEF EndEntry, EndByError, EndNormally
<1>5. CASE EndByError(h)
  <2>1. Goto(h, "quit")
    BY <1>5 DEF EndByError
  <2>2. g'[h] = "quit"
    BY <2>1, GotoHere
  <2>3. ResultsOf(h)'
    BY <1>2, <1>3, <2>2 DEF ResultsOf, Within
  <2> QED BY <1>1, <1>3, <1>4, <2>1, <2>3, ResultsByHost
<1>6. CASE EndNormally(h)
  <2>1. Goto(h, "loop") /\ (FailedEntry(h) => h \in failed')
    BY <1>6 DEF EndNormally
  <2>2. g'[h] = "loop"
    BY <2>1, GotoHere
  <2>3. ~FailedEntry(h) => Answered(h, Count(h))
    BY <1>2 DEF FailedEntry, HasFailure, Answered
  <2>4. Answered(h, Count(h))' <=> Answered(h, Count(h))
    BY <1>1, <1>3 DEF Answered
  <2>5. ResultsOf(h)'
    BY <1>2, <1>3, <2>1, <2>2, <2>3, <2>4 DEF ResultsOf, Within
  <2> QED BY <1>1, <1>3, <1>4, <2>1, <2>5, ResultsByHost
<1> QED BY <1>5, <1>6 DEF EndEntry

LEMMA ResultsWalk ==
  ASSUME PlaceType, ResultType, ResultsInv, NEW h \in Hosts, Walk(h)
  PROVE  ResultsInv'
<1> USE DEF flags
<1>1. CASE Begin(h) \/ Confirm(h) \/ Decline(h) \/ EndHost(h)
  <2>1. UNCHANGED <<failures, before, failed>>
    BY <1>1 DEF Begin, Confirm, Decline, EndHost, marks
  <2>2. \/ g[h] = "loop" /\ Goto(h, "quit")
        \/ g[h] = "loop" /\ h \notin failed /\ \E l \in {"prompt", "throttle"} : Goto(h, l)
        \/ g[h] = "prompt" /\ \E l \in {"throttle", "loop"} : Goto(h, l)
    BY <1>1 DEF Begin, Confirm, Decline, EndHost, Stopped
  <2> QED BY <2>1, <2>2, ResultsGoOn
<1>2. CASE EnterBlock(h) \/ SkipOnce(h) \/ RunModule(h) \/ TimeOut(h) \/ MetaEnd(h) \/ MetaFlush(h)
  <2>1. UNCHANGED <<failures, before, failed>> /\ g[h] \in {"entry", "leaf"}
    BY <1>2 DEF EnterBlock, SkipOnce, RunModule, TimeOut, MetaEnd, MetaFlush, AtLeaf, marks
  <2>2. \E l \in {"leaf", "result", "flush"} : Goto(h, l)
    BY <1>2 DEF EnterBlock, SkipOnce, RunModule, TimeOut, MetaEnd, MetaFlush, Outcome
  <2> QED BY <2>1, <2>2, ResultsGoOn
<1>3. CASE NextLeaf(h) \/ EndBlock(h) \/ EndAlways(h)
  <2>1. UNCHANGED <<failures, before>> /\ g[h] = "next" /\ failed \ {h} \subseteq failed'
    BY <1>3 DEF NextLeaf, EndBlock, EndAlways, SectionOver, marks
  <2>2. \E l \in {"leaf", "end"} : Goto(h, l)
    BY <1>3 DEF NextLeaf, EndBlock, EndAlways, Enters
  <2> QED BY <2>1, <2>2, ResultsGoOn
<1> QED BY <1>1, <1>2, <1>3, ResultsWithin, ResultsEnter, ResultsLeave DEF Walk

\* A handler that fails is no failure of the host's own tasks.
LEMMA ResultsFlush ==
  ASSUME PlaceType, PlaceInv, HandlerType, ResultType, ResultsInv, NEW a \in Hosts \union {Main}, Flush(a)
  PROVE  ResultsInv'
<1> USE DEF flags, marks
<1>1. CASE AcquireFlush(a) \/ TakePending(a) \/ MarkHandlerFailed(a) \/ \E p \in queue : SkipHandler(a, p)
  <2>1. UNCHANGED <<g, failures, before>> /\ failed \subseteq failed'
    BY <1>1 DEF AcquireFlush, TakePending, MarkHandlerFailed, SkipHandler, where
  <2> QED BY <2>1, ResultsStay DEF ResultsInv
<1>2. CASE ReleaseFlush(a)
  <2>1. UNCHANGED <<failures, before, failed>> /\ flusher = a
    BY <1>2 DEF ReleaseFlush, Flusher
  <2>2. CASE a = Main
    <3>1. g' = g
      BY <1>2, <2>2 DEF ReleaseFlush
    <3> QED BY <2>1, <3>1, ResultsStay DEF ResultsInv
  <2>3. CASE a # Main
    <3>1. a \in Hosts /\ Goto(a, "result") /\ g[a] = "flush"
      BY <1>2, <2>1, <2>3 DEF ReleaseFlush, Outcome, PlaceInv
    <3> QED BY <2>1, <3>1, ResultsGoOn
  <2> QED BY <2>2, <2>3
<1>3. ASSUME NEW p \in queue, RunHandler(a, p)
      PROVE  ResultsInv'
  <2>1. UNCHANGED <<g, before, failed>>
    BY <1>3 DEF RunHandler, where
  <2>2. CASE HandlerSucceeds(p)
    BY <2>1, <2>2, ResultsStay DEF ResultsInv, HandlerSucceeds
  <2>3. CASE HandlerFails(p)
    <3> DEFINE h == p[2]
    <3>1. h \in Hosts /\ AddFailure(h, FALSE)
      BY <2>3 DEF HandlerType, Pairs, HandlerFails
    <3> HIDE DEF h
    <3>2. /\ Count(h)' = Count(h) + 1
          /\ \A k \in 1..Count(h) : failures'[h][k] = failures[h][k]
          /\ failures'[h][Count(h) + 1] = [rescued |-> FALSE, own |-> FALSE]
          /\ \A j \in Hosts \ {h} : failures'[j] = failures[j]
      BY <3>1, FailureAdded
    <3>3. Count(h) \in Nat /\ before[h] \in Nat
      BY <3>1, Counts DEF ResultType
    <3>4. Answered(h, Count(h)) => Answered(h, Count(h))'
      <4> SUFFICES ASSUME Answered(h, Count(h)), NEW k \in 1..(Count(h) + 1), failures'[h][k].own
                   PROVE  failures'[h][k].rescued
        BY <3>2 DEF Answered
      <4>1. k \in 1..Count(h)
        BY <3>2, <3>3
      <4> QED BY <3>2, <4>1 DEF Answered
    <3>5. ResultsOf(h)
      BY <3>1 DEF ResultsInv
    <3>6. before[h] <= Count(h) /\ (Answered(h, before[h]) => Answered(h, before[h])')
      BY <2>1, <3>2, <3>3, <3>5 DEF ResultsOf, Answered
    <3>7. ResultsOf(h)'
      BY <2>1, <3>2, <3>3, <3>4, <3>5, <3>6 DEF ResultsOf, Within
    <3>8. ASSUME NEW j \in Hosts, j # h PROVE ResultsOf(j)'
      BY <2>1, <3>2, <3>8, ResultsStay DEF ResultsInv
    <3> QED BY <3>7, <3>8 DEF ResultsInv
  <2> QED BY <1>3, <2>2, <2>3 DEF RunHandler
<1> QED BY <1>1, <1>2, <1>3 DEF Flush

LEMMA ResultsStep ==
  ASSUME PlaceType, PlaceInv, HandlerType, ResultType, ResultsInv, [Next]_vars
  PROVE  ResultsInv'
<1> USE DEF flags, marks
<1>1. ASSUME NEW h \in Hosts, Start(h)
      PROVE  ResultsInv'
  <2>1. UNCHANGED <<failures, before, failed>> /\ g[h] = "none" /\ Goto(h, "loop")
    BY <1>1 DEF Start, Turn, PlaceInv
  <2> QED BY <2>1, ResultsGoOn
<1>2. CASE (\E h \in Hosts : PassOver(h)) \/ ListDone \/ Post \/ Final \/ (\E l \in late : Late(l)) \/ Returned \/ UNCHANGED vars
  <2>1. UNCHANGED <<g, failures, before, failed>>
    BY <1>2 DEF PassOver, ListDone, Post, Final, Late, Returned, vars, where
  <2> QED BY <2>1, ResultsStay DEF ResultsInv
<1> QED BY <1>1, <1>2, ResultsWalk, ResultsFlush DEF Next, MainStep
\* The results of a host only grow, and its marks are behind them.
MarksInv == \A h \in Hosts :
  before[h] <= Count(h) /\ beforeBlock[h] <= Count(h) /\ beforeRescue[h] <= Count(h)

LEMMA ResultsGrow ==
  ASSUME HandlerType, ResultType, [Next]_vars, NEW j \in Hosts
  PROVE  Count(j)' \in {Count(j), Count(j) + 1}
<1>1. CASE failures' = failures
  BY <1>1 DEF Count
<1>2. ASSUME NEW h \in Hosts, NEW own \in BOOLEAN, AddFailure(h, own)
      PROVE  Count(j)' \in {Count(j), Count(j) + 1}
  <2>1. CASE j = h
    BY <1>2, <2>1, FailureAdded
  <2>2. CASE j # h
    <3>1. failures'[j] = failures[j]
      BY <1>2, <2>2, FailureAdded
    <3> QED BY <3>1 DEF Count
  <2> QED BY <2>1, <2>2
<1>3. ASSUME NEW h \in Hosts, Walk(h)
      PROVE  Count(j)' \in {Count(j), Count(j) + 1}
  <2>1. failures' = failures \/ AddFailure(h, TRUE) \/ failures' = [failures EXCEPT ![h] = Rescued(h)]
    BY <1>3 DEF Walk, Begin, Confirm, Decline, Enter, EnterBlock, SkipOnce, RunModule, TimeOut, MetaEnd,
       MetaFlush, AppendResult, NextLeaf, EndBlock, EndRescue, EndAlways, EndEntry, EndHost
  <2>2. CASE failures' = [failures EXCEPT ![h] = Rescued(h)]
    <3>1. CASE j = h
      BY <2>2, <3>1, FailuresRescued
    <3>2. CASE j # h
      <4>1. failures'[j] = failures[j]
        BY <2>2, <3>2, FailuresRescued
      <4> QED BY <4>1 DEF Count
    <3> QED BY <3>1, <3>2
  <2> QED BY <1>1, <1>2, <2>1, <2>2
<1>4. ASSUME NEW a \in Hosts \union {Main}, Flush(a)
      PROVE  Count(j)' \in {Count(j), Count(j) + 1}
  <2>1. CASE failures' # failures
    <3>1. PICK p \in queue : HandlerFails(p)
      BY <1>4, <2>1 DEF Flush, AcquireFlush, TakePending, MarkHandlerFailed, ReleaseFlush, SkipHandler,
         RunHandler, HandlerSucceeds
    <3>2. p[2] \in Hosts /\ AddFailure(p[2], FALSE)
      BY <3>1 DEF HandlerType, Pairs, HandlerFails
    <3> QED BY <1>2, <3>2
  <2> QED BY <1>1, <2>1
<1>5. CASE MainStep \/ (\E l \in late : Late(l)) \/ Returned \/ UNCHANGED vars
  BY <1>1, <1>5 DEF MainStep, PassOver, Start, ListDone, Post, Final, Late, Returned, vars
<1> QED BY <1>3, <1>4, <1>5 DEF Next

LEMMA MarksStep ==
  ASSUME HandlerType, ResultType, MarksInv, [Next]_vars
  PROVE  MarksInv'
<1> SUFFICES ASSUME NEW j \in Hosts
             PROVE  before'[j] <= Count(j)' /\ beforeBlock'[j] <= Count(j)' /\ beforeRescue'[j] <= Count(j)'
  BY DEF MarksInv
<1>1. /\ Count(j)' \in {Count(j), Count(j) + 1} /\ Count(j) \in Nat
      /\ before[j] \in Nat /\ beforeBlock[j] \in Nat /\ beforeRescue[j] \in Nat
      /\ before[j] <= Count(j) /\ beforeBlock[j] <= Count(j) /\ beforeRescue[j] <= Count(j)
  BY ResultsGrow, Counts DEF ResultType, MarksInv
<1>2. /\ before'[j] \in {before[j], Count(j), 0}
      /\ beforeBlock'[j] \in {beforeBlock[j], Count(j), 0}
      /\ beforeRescue'[j] \in {beforeRescue[j], Count(j), 0}
  <2> USE DEF marks
  <2>1. CASE UNCHANGED marks
    BY <2>1
  <2>2. ASSUME NEW h \in Hosts, Enter(h) \/ EnterBlock(h) \/ EndBlock(h) \/ EndEntry(h)
        PROVE  /\ before'[j] \in {before[j], Count(j), 0}
               /\ beforeBlock'[j] \in {beforeBlock[j], Count(j), 0}
               /\ beforeRescue'[j] \in {beforeRescue[j], Count(j), 0}
    <3>1. before' \in {before, [before EXCEPT ![h] = Count(h)], [before EXCEPT ![h] = 0]}
      BY <2>2 DEF Enter, EnterBlock, EndBlock, EndEntry, Forget
    <3>2. beforeBlock' \in {beforeBlock, [beforeBlock EXCEPT ![h] = Count(h)], [beforeBlock EXCEPT ![h] = 0]}
      BY <2>2 DEF Enter, EnterBlock, EndBlock, EndEntry, Forget
    <3>3. beforeRescue' \in {beforeRescue, [beforeRescue EXCEPT ![h] = Count(h)], [beforeRescue EXCEPT ![h] = 0]}
      BY <2>2 DEF Enter, EnterBlock, EndBlock, EndEntry, Forget
    <3> QED BY <3>1, <3>2, <3>3 DEF ResultType
  <2>3. ASSUME NEW h \in Hosts, Walk(h), ~(Enter(h) \/ EnterBlock(h) \/ EndBlock(h) \/ EndEntry(h))
        PROVE  UNCHANGED marks
    BY <2>3 DEF Walk, Begin, Confirm, Decline, SkipOnce, RunModule, TimeOut, MetaEnd,
       MetaFlush, AppendResult, NextLeaf, EndRescue, EndAlways, EndHost
  <2>4. ASSUME NEW a \in Hosts \union {Main}, Flush(a)
        PROVE  UNCHANGED marks
    BY <2>4 DEF Flush, AcquireFlush, TakePending, MarkHandlerFailed, ReleaseFlush, SkipHandler, RunHandler
  <2>5. CASE MainStep \/ (\E l \in late : Late(l)) \/ Returned \/ UNCHANGED vars
    BY <2>1, <2>5 DEF MainStep, PassOver, Start, ListDone, Post, Final, Late, Returned, vars
  <2> QED BY <2>1, <2>2, <2>3, <2>4, <2>5 DEF Next
<1> QED BY <1>1, <1>2
-----------------------------------------------------------------------------
IInv ==
  /\ PlaceType /\ PlaceInv /\ HandlerType /\ ResultType /\ ErrorType
  /\ TokensInv /\ runOnce \subseteq Keys
  /\ ResultsInv /\ MarksInv /\ ReportInv

LEMMA InitIInv == Init => IInv
<1> SUFFICES ASSUME Init PROVE IInv
  OBVIOUS
<1>0. Nobody \notin Hosts /\ Main # Nobody
  BY DEF Nobody, Main, Hosts
<1>1. PlaceType
  BY PlayShape DEF Init, PlaceType, Stages
<1>2. PlaceInv
  BY <1>0 DEF Init, PlaceInv, PlaceOf, Within
<1>3. HandlerType
  BY DEF Init, HandlerType
<1>4. ResultType
  BY DEF Init, ResultType
<1>5. ErrorType
  <2>1. play.step \in BOOLEAN
    BY PlayShape DEF Init, Play
  <2>2. out \in [Hosts -> [fails : BOOLEAN, errs : BOOLEAN]]
    BY DEF Init, NoResult
  <2> QED BY <2>1, <2>2 DEF Init, ErrorType, Phases
<1>6. TokensInv
  <2>1. RunningHosts = {} /\ \A k : InEntry(k) = {}
    BY DEF Init, RunningHosts, InEntry, Running, Within
  <2>2. Cardinality({}) = 0
    BY FS_EmptySet
  <2>3. sem = Cardinality(RunningHosts) /\ sem <= play.forks
    BY <2>1, <2>2, PlayShape DEF Init
  <2>4. tSem \in [DOMAIN play.tasks -> Nat] /\ \A k \in DOMAIN play.tasks : tSem[k] = Cardinality(InEntry(k))
    BY <2>1, <2>2 DEF Init
  <2> QED BY <2>3, <2>4 DEF TokensInv
<1>7. runOnce \subseteq Keys
  BY DEF Init
<1>8. ResultsInv
  BY DEF Init, ResultsInv, ResultsOf, Within, Answered, Count
<1>10. MarksInv
  BY DEF Init, MarksInv, Count
<1>9. ReportInv
  BY <1>0 DEF Init, ReportInv
<1> QED BY <1>1, <1>2, <1>3, <1>4, <1>5, <1>6, <1>7, <1>8, <1>9, <1>10 DEF IInv

LEMMA StepIInv == IInv /\ [Next]_vars => IInv'
<1> SUFFICES ASSUME IInv, [Next]_vars PROVE IInv'
  OBVIOUS
<1>1. /\ PlaceType /\ PlaceInv /\ HandlerType /\ ResultType /\ ErrorType
      /\ TokensInv /\ runOnce \subseteq Keys
      /\ ResultsInv /\ MarksInv /\ ReportInv
  BY DEF IInv
<1>2. PlaceType' /\ PlaceInv' /\ HandlerType' /\ ResultType' /\ ErrorType'
  BY <1>1, PlaceStep, HandlersTyped, ResultsTyped, ErrorsTyped
<1>3. TokensInv' /\ runOnce' \subseteq Keys
  BY <1>1, TokensStep, OnceTyped
<1>4. ResultsInv' /\ MarksInv' /\ ReportInv'
  BY <1>1, ResultsStep, MarksStep, ReportStep
<1> QED BY <1>2, <1>3, <1>4 DEF IInv

\* Every reachable state has values the code gives it; no semaphore is given back
\* more often than it was taken, or taken beyond the forks.
THEOREM TypeCorrect == Spec => []TypeOK
<1>1. IInv => TypeOK
  <2> SUFFICES ASSUME IInv PROVE TypeOK
    OBVIOUS
  <2> USE DEF IInv
  <2>1. sem \in 0..play.forks
    BY SetsFinite, PlayShape DEF TokensInv, PlaceType
  <2>2. tSem \in [DOMAIN play.tasks -> Nat] /\ runOnce \subseteq Keys
    BY DEF TokensInv
  <2>3. /\ play \in Plays /\ todo \subseteq Hosts /\ leaf \in [Hosts -> Nat \ {0}]
        /\ at \in [Hosts -> 1..(Len(play.tasks) + 1)] /\ sec \in [Hosts -> {"block", "rescue", "always"}]
        /\ alwaysRuns \in [Hosts -> Nat]
    BY DEF PlaceType
  <2>4. g \in [Hosts -> {"none", "loop", "prompt", "throttle", "entry", "leaf", "result",
                      "next", "flush", "end", "quit"}]
    BY DEF PlaceType, Stages
  <2>5. /\ out \in [Hosts -> [fails : BOOLEAN, errs : BOOLEAN]]
        /\ blockErr \in [Hosts -> BOOLEAN] /\ alwaysErr \in [Hosts -> BOOLEAN]
    BY DEF ErrorType
  <2>6. endPlay \in BOOLEAN /\ stepMode \in BOOLEAN /\ firstErr \in BOOLEAN /\ playErr \in BOOLEAN
    BY DEF ErrorType
  <2>7. pc \in {"start", "flush", "post", "postFlush", "final", "finalFlush", "done"}
    BY DEF ErrorType, Phases
  <2>8. /\ failures \in [Hosts -> Seq([rescued : BOOLEAN, own : BOOLEAN])]
        /\ before \in [Hosts -> Nat] /\ beforeBlock \in [Hosts -> Nat] /\ beforeRescue \in [Hosts -> Nat]
        /\ failed \union ended \subseteq Hosts
    BY DEF ResultType, Failure
  <2>11. \A h \in Hosts : before[h] <= Count(h) /\ beforeBlock[h] <= Count(h) /\ beforeRescue[h] <= Count(h)
    BY DEF MarksInv
  <2>9. /\ pending \union queue \union executed \union owed \union dismissed \subseteq Pairs
        /\ flusher \in Hosts \union {Main, Nobody} /\ marking \in Pairs \union {NoPair}
        /\ late \subseteq (SUBSET Handlers) \X Hosts
    BY DEF HandlerType
  <2>10. handlerErr \in BOOLEAN
    BY DEF HandlerType
  <2> QED BY <2>1, <2>2, <2>3, <2>4, <2>5, <2>6, <2>7, <2>8, <2>9, <2>10, <2>11 DEF TypeOK
<1> QED BY <1>1, InitIInv, StepIInv, PTL DEF Spec

\* A host goes on to a further entry only with its own failures rescued, and the
\* play reports every error, and under any_errors_fatal every failure left.
THEOREM FailuresAreCounted == Spec => []FailuresCount
<1>1. IInv => FailuresCount
  <2> SUFFICES ASSUME IInv PROVE FailuresCount
    OBVIOUS
  <2>1. OwnFailuresStop
    BY DEF IInv, OwnFailuresStop, ResultsInv, ResultsOf, Answered
  <2>2. FailuresReported
    BY DEF IInv, FailuresReported, ReportInv
  <2> QED BY <2>1, <2>2 DEF FailuresCount
<1> QED BY <1>1, InitIInv, StepIInv, PTL DEF Spec
-----------------------------------------------------------------------------
\* A round is in the hands of the flush under way. At the end of the play all that
\* is owed was dismissed: only a task left behind may still notify.
SettledInv ==
  /\ flusher = Nobody => queue = {}
  /\ HandlersSettled

LEMMA SettledStep ==
  ASSUME IInv, SettledInv, NotificationsKept, [Next]_vars
  PROVE  SettledInv'
<1> USE DEF SettledInv, HandlersSettled, NotificationsKept
<1>0. Main # Nobody /\ Main \notin Hosts /\ Nobody \notin Hosts
  BY DEF Main, Nobody, Hosts
<1>1. (pc = "done" => flusher = Nobody) /\ (pc # "start" => \A h \in Hosts : ~Running(h))
  <2>1. PlaceInv /\ HandlerType /\ ReportInv
    BY DEF IInv
  <2>2. flusher \in Hosts => Running(flusher)
    BY <2>1 DEF PlaceInv, Running
  <2> QED BY <2>1, <2>2 DEF ReportInv, HandlerType
<1>2. CASE UNCHANGED <<play, pc, playErr, owed, dismissed, flusher, queue>>
  BY <1>2
<1>3. ASSUME NEW h \in Hosts, Walk(h)
      PROVE  SettledInv'
  <2>1. pc' = pc /\ pc # "done"
    BY <1>1, <1>3, WalksRunning
  <2>2. UNCHANGED <<flusher, queue>>
    BY <1>3 DEF Walk, Begin, Confirm, Decline, Enter, EnterBlock, SkipOnce, RunModule, TimeOut, MetaEnd,
       MetaFlush, AppendResult, NextLeaf, EndBlock, EndRescue, EndAlways, EndEntry, EndHost, handling, flush
  <2> QED BY <2>1, <2>2
<1>4. ASSUME NEW a \in Hosts \union {Main}, Flush(a)
      PROVE  SettledInv'
  <2>1. pc # "done"
    <3>1. CASE a = Main
      BY <1>0, <1>1, <1>4, <3>1 DEF Flush, AcquireFlush, Calls, TakePending, MarkHandlerFailed, ReleaseFlush,
         SkipHandler, RunHandler, Takes, Flusher
    <3>2. CASE a # Main
      BY <1>1, <1>4, <3>2, FlushesOwn DEF IInv
    <3> QED BY <3>1, <3>2
  <2>2. CASE ReleaseFlush(a)
    <3>1. queue = {} /\ pending = {} /\ UNCHANGED <<play, owed, dismissed, queue, pending>>
      BY <2>2 DEF ReleaseFlush, RoundsOver
    <3> QED BY <3>1
  <2>3. CASE ~ReleaseFlush(a)
    <3>1. pc' = pc
      BY <1>4, <2>3 DEF Flush, AcquireFlush, TakePending, MarkHandlerFailed, SkipHandler, RunHandler, main
    <3>2. CASE AcquireFlush(a)
      <4>1. flusher' = a
        BY <3>2 DEF AcquireFlush
      <4> QED BY <1>0, <2>1, <3>1, <4>1
    <3>3. CASE ~AcquireFlush(a)
      <4>1. flusher' = a
        BY <1>4, <2>3, <3>3 DEF Flush, TakePending, MarkHandlerFailed, SkipHandler, RunHandler, Takes, Flusher
      <4> QED BY <1>0, <2>1, <3>1, <4>1
    <3> QED BY <3>2, <3>3
  <2> QED BY <2>2, <2>3
<1>5. CASE Final
  <2>1. /\ pc = "final" /\ UNCHANGED <<play, playErr, owed, dismissed, queue, pending, flusher>>
        /\ pc' = IF pending # {} /\ (~playErr \/ play.force) THEN "finalFlush" ELSE "done"
    BY <1>5 DEF Final, handling, flush
  <2>2. flusher = Nobody
    <3>1. PlaceInv /\ HandlerType /\ ReportInv
      BY DEF IInv
    <3>2. flusher \in Hosts => Running(flusher)
      BY <3>1 DEF PlaceInv, Running
    <3> QED BY <1>1, <2>1, <3>1, <3>2 DEF ReportInv, HandlerType
  <2> QED BY <2>1, <2>2
<1>6. CASE ListDone \/ Post
  BY <1>6 DEF ListDone, Post, handling, flush
<1>7. ASSUME NEW h \in Hosts, PassOver(h) \/ Start(h)
      PROVE  SettledInv'
  BY <1>2, <1>7 DEF PassOver, Start, handling, flush
<1>8. CASE (\E l \in late : Late(l)) \/ Returned \/ UNCHANGED vars
  BY <1>2, <1>8 DEF Late, Returned, vars, main, handling, flush
<1> QED BY <1>3, <1>4, <1>5, <1>6, <1>7, <1>8 DEF Next, MainStep

\* When a play ends without an error, or forces handlers, no notification waits
\* for a flush that will not come.
THEOREM HandlersAreSettled == Spec => []HandlersSettled
<1>1. Init => SettledInv
  BY DEF Init, SettledInv, HandlersSettled
<1>2. IInv /\ SettledInv /\ NotificationsKept /\ [Next]_vars => SettledInv'
  BY SettledStep
<1>3. SettledInv => HandlersSettled
  BY DEF SettledInv
<1> QED BY <1>1, <1>2, <1>3, InitIInv, StepIInv, NotificationsAreKept, PTL DEF Spec
-----------------------------------------------------------------------------
\* Why a host may have stopped before the end of the list.
CutShort(h) ==
  \/ at[h] = Len(play.tasks) + 1
  \/ endPlay \/ h \in ended \union failed \/ blockErr[h] \/ alwaysErr[h] \/ (Inline /\ firstErr)

LeftInv ==
  /\ pc # "start" => todo = {}
  /\ \A h \in Hosts : h \notin todo /\ ~Running(h) => CutShort(h)

\* A host that does not move stays where it is, and so does the reason for it.
LEMMA CutStays ==
  ASSUME NEW h \in Hosts, CutShort(h), play' = play, at'[h] = at[h], endPlay => endPlay',
         h \in ended \union failed => h \in ended' \union failed',
         blockErr'[h] = blockErr[h], alwaysErr'[h] = alwaysErr[h], firstErr => firstErr'
  PROVE  CutShort(h)'
BY DEF CutShort, Inline

LEMMA LeftStep ==
  ASSUME IInv, LeftInv, [Next]_vars
  PROVE  LeftInv'
<1>0. PlaceType /\ PlaceInv /\ ResultType /\ ErrorType
  BY DEF IInv
<1> USE DEF main, flags, errs, place
<1>1. CASE /\ UNCHANGED <<play, pc, todo, g, at, endPlay, ended, errs, firstErr>>
           /\ failed \subseteq failed'
  BY <1>1, CutStays DEF LeftInv, Running
<1>2. ASSUME NEW h \in Hosts, Walk(h)
      PROVE  LeftInv'
  <2>1. pc' = pc /\ Running(h) /\ play' = play
    BY <1>2, WalksRunning DEF Walk, Begin, Confirm, Decline, Enter, EnterBlock, SkipOnce, RunModule, TimeOut, MetaEnd,
       MetaFlush, AppendResult, NextLeaf, EndBlock, EndRescue, EndAlways, EndEntry, EndHost
  <2>2. pc = "start"
    BY <2>1 DEF IInv, ReportInv
  <2>3. \/ UNCHANGED <<todo, firstErr>>
        \/ todo' = todo /\ firstErr'
        \/ Inline /\ todo' = {} /\ firstErr'
    BY <1>2 DEF Walk, Begin, Confirm, Decline, Enter, EnterBlock, SkipOnce, RunModule, TimeOut, MetaEnd,
       MetaFlush, AppendResult, NextLeaf, EndBlock, EndRescue, EndAlways, EndEntry, EndByError, EndNormally, EndHost
  <2>4. /\ endPlay => endPlay'
        /\ ended \subseteq ended' /\ failed \ {h} \subseteq failed'
    <3>1. endPlay => endPlay'
      BY <1>2 DEF Walk, Begin, Confirm, Decline, Enter, EnterBlock, SkipOnce, RunModule, TimeOut, MetaEnd,
         MetaFlush, AppendResult, NextLeaf, EndBlock, EndRescue, EndAlways, EndEntry, EndByError, EndNormally, EndHost
    <3>2. ended \subseteq ended'
      BY <1>2 DEF Walk, Begin, Confirm, Decline, Enter, EnterBlock, SkipOnce, RunModule, TimeOut, MetaEnd,
         MetaFlush, AppendResult, NextLeaf, EndBlock, EndRescue, EndAlways, EndEntry, EndByError, EndNormally, EndHost
    <3>3. failed \ {h} \subseteq failed'
      BY <1>2 DEF Walk, Begin, Confirm, Decline, Enter, EnterBlock, SkipOnce, RunModule, TimeOut, MetaEnd,
         MetaFlush, AppendResult, NextLeaf, EndBlock, EndRescue, EndAlways, EndEntry, EndByError, EndNormally, EndHost
    <3> QED BY <3>1, <3>2, <3>3
  <2>5. \E l : Goto(h, l)
    BY <1>2 DEF Walk, Begin, Confirm, Decline, Enter, EnterBlock, SkipOnce, RunModule, TimeOut, MetaEnd,
       MetaFlush, AppendResult, NextLeaf, EndBlock, EndRescue, EndAlways, EndEntry, EndByError, EndNormally, EndHost,
       Outcome, Enters
  <2>6. /\ at' \in {at, [at EXCEPT ![h] = @ + 1]}
        /\ \E b : blockErr' \in {blockErr, [blockErr EXCEPT ![h] = b]}
        /\ \E b : alwaysErr' \in {alwaysErr, [alwaysErr EXCEPT ![h] = b]}
    <3>1. at' \in {at, [at EXCEPT ![h] = @ + 1]}
      BY <1>2 DEF Walk, Begin, Confirm, Decline, Enter, EnterBlock, SkipOnce, RunModule, TimeOut, MetaEnd,
         MetaFlush, AppendResult, NextLeaf, EndBlock, EndRescue, EndAlways, EndEntry, EndByError, EndNormally, EndHost
    <3>2. \E b : blockErr' \in {blockErr, [blockErr EXCEPT ![h] = b]}
      BY <1>2 DEF Walk, Begin, Confirm, Decline, Enter, EnterBlock, SkipOnce, RunModule, TimeOut, MetaEnd,
         MetaFlush, AppendResult, NextLeaf, EndBlock, EndRescue, EndAlways, EndEntry, EndHost
    <3>3. \E b : alwaysErr' \in {alwaysErr, [alwaysErr EXCEPT ![h] = b]}
      BY <1>2 DEF Walk, Begin, Confirm, Decline, Enter, EnterBlock, SkipOnce, RunModule, TimeOut, MetaEnd,
         MetaFlush, AppendResult, NextLeaf, EndBlock, EndRescue, EndAlways, EndEntry, EndHost
    <3> QED BY <3>1, <3>2, <3>3
  <2>7. ASSUME NEW j \in Hosts, j # h, j \notin todo', ~Running(j)'
        PROVE  CutShort(j)'
    <3>1. g'[j] = g[j] /\ at'[j] = at[j] /\ blockErr'[j] = blockErr[j] /\ alwaysErr'[j] = alwaysErr[j]
      BY <1>0, <2>5, <2>6, <2>7 DEF Goto, PlaceType, ErrorType
    <3>2. ~Running(j)
      BY <2>7, <3>1 DEF Running
    <3>3. CASE j \notin todo
      <4>1. CutShort(j)
        BY <3>2, <3>3 DEF LeftInv
      <4> QED BY <2>1, <2>3, <2>4, <2>7, <3>1, <4>1, CutStays
    <3>4. CASE j \in todo
      <4>1. Inline /\ firstErr'
        BY <2>3, <2>7, <3>4
      <4> QED BY <2>1, <4>1 DEF CutShort, Inline
    <3> QED BY <3>3, <3>4
  <2>8. ASSUME ~Running(h)'
        PROVE  CutShort(h)'
    <3>1. CASE EndHost(h)
      <4>1. UNCHANGED <<play, at, endPlay, ended, failed>> /\ (Stopped(h) \/ at[h] > Len(play.tasks))
        BY <3>1 DEF EndHost
      <4>2. at[h] \in 1..(Len(play.tasks) + 1) /\ Len(play.tasks) \in Nat
        BY <1>0, PlayShape DEF PlaceType
      <4> QED BY <4>1, <4>2 DEF CutShort, Stopped
    <3>2. CASE EndEntry(h) /\ EndByError(h)
      BY <3>2 DEF EndEntry, EndByError, CutShort
    <3>3. CASE EndEntry(h) /\ EndNormally(h)
      <4>1. Goto(h, "loop")
        BY <3>3 DEF EndNormally
      <4> QED BY <1>0, <2>8, <4>1, GotoHere DEF Running
    <3>4. CASE ~EndHost(h) /\ ~EndEntry(h)
      <4>1. \E l \in Stages \ {"none", "quit"} : Goto(h, l)
        BY <1>2, <3>4 DEF Walk, Begin, Confirm, Decline, Enter, EnterBlock, SkipOnce, RunModule, TimeOut, MetaEnd,
         MetaFlush, AppendResult, NextLeaf, EndBlock, EndRescue, EndAlways, Outcome, Enters, Stages
      <4> QED BY <1>0, <2>8, <4>1, GotoHere DEF Running
    <3> QED BY <3>1, <3>2, <3>3, <3>4 DEF EndEntry
  <2> QED BY <2>1, <2>2, <2>7, <2>8 DEF LeftInv
<1>3. ASSUME NEW a \in Hosts \union {Main}, Flush(a)
      PROVE  LeftInv'
  <2>1. CASE ReleaseFlush(a)
    <3>1. /\ UNCHANGED <<play, todo, at, endPlay, ended, failed, errs, firstErr>> /\ flusher = a
      BY <2>1 DEF ReleaseFlush, Flusher
    <3>2. \A h \in Hosts : Running(h)' <=> Running(h)
      <4>1. CASE a = Main
        BY <2>1, <4>1 DEF ReleaseFlush, Running
      <4>2. CASE a # Main
        <5>1. a \in Hosts /\ Goto(a, "result") /\ g[a] = "flush"
          BY <1>0, <2>1, <3>1, <4>2 DEF ReleaseFlush, Outcome, PlaceInv
        <5> QED BY <1>0, <5>1 DEF Goto, PlaceType, Running
      <4> QED BY <4>1, <4>2
    <3>3. pc' # "start" => pc # "start"
      <4>1. a = Main => pc # "start"
        BY <3>1 DEF IInv, ReportInv
      <4>2. a # Main => pc' = pc
        BY <2>1 DEF ReleaseFlush
      <4> QED BY <4>1, <4>2
    <3> QED BY <3>1, <3>2, <3>3, CutStays DEF LeftInv
  <2>2. CASE ~ReleaseFlush(a)
    <3>1. /\ UNCHANGED <<play, pc, todo, g, at, endPlay, ended, errs, firstErr>>
          /\ failed \subseteq failed'
      BY <1>3, <2>2 DEF Flush, AcquireFlush, TakePending, MarkHandlerFailed, SkipHandler, RunHandler, where
    <3> QED BY <1>1, <3>1
  <2> QED BY <2>1, <2>2
<1>4. ASSUME NEW h \in Hosts, PassOver(h)
      PROVE  LeftInv'
  <2>1. /\ UNCHANGED <<play, pc, g, at, endPlay, ended, failed, errs, firstErr>> /\ todo' = todo \ {h}
        /\ Stopped(h) /\ pc = "start"
    BY <1>4 DEF PassOver, Turn, where
  <2>2. CutShort(h)
    BY <2>1 DEF Stopped, CutShort
  <2> QED BY <2>1, <2>2, CutStays DEF LeftInv, Running
<1>5. ASSUME NEW h \in Hosts, Start(h)
      PROVE  LeftInv'
  <2>1. /\ UNCHANGED <<play, pc, at, endPlay, ended, failed, errs, firstErr>> /\ todo' = todo \ {h}
        /\ Goto(h, "loop") /\ pc = "start"
    BY <1>5 DEF Start, Turn
  <2>2. Running(h)' /\ \A j \in Hosts \ {h} : Running(j)' <=> Running(j)
    BY <1>0, <2>1 DEF Goto, PlaceType, Running
  <2> QED BY <2>1, <2>2, CutStays DEF LeftInv
<1>6. CASE ListDone \/ Post \/ Final
  <2>1. UNCHANGED <<play, todo, g, at, endPlay, ended, failed, errs, firstErr>>
    BY <1>6 DEF ListDone, Post, Final, where
  <2>2. todo = {}
    BY <1>6 DEF ListDone, Post, Final, LeftInv
  <2> QED BY <2>1, <2>2, CutStays DEF LeftInv, Running
<1>7. CASE (\E l \in late : Late(l)) \/ Returned \/ UNCHANGED vars
  BY <1>1, <1>7 DEF Late, Returned, vars, where
<1> QED BY <1>2, <1>3, <1>4, <1>5, <1>6, <1>7 DEF Next, MainStep

\* When the play returns every host has walked the whole list, but for one that
\* failed, ended or met an error, and for those the end of the play cut short.
THEOREM NobodyLeftBehind == Spec => []NoHostLeftBehind
<1>1. Init => LeftInv
  BY DEF Init, LeftInv
<1>2. IInv /\ LeftInv /\ [Next]_vars => LeftInv'
  BY LeftStep
<1>3. IInv /\ LeftInv => NoHostLeftBehind
  BY DEF IInv, ReportInv, LeftInv, CutShort, NoHostLeftBehind
<1> QED BY <1>1, <1>2, <1>3, InitIInv, StepIInv, PTL DEF Spec
=============================================================================
