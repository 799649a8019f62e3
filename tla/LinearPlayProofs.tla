--------------------------- MODULE LinearPlayProofs ---------------------------
(***************************************************************************)
(* Proofs about LinearPlay, for every number of hosts and handlers and     *)
(* every play.                                                             *)
(***************************************************************************)
EXTENDS LinearPlay, FiniteSetTheorems, TLAPS

\* What ExecutePlay reads of a play, one fact per field.
LEMMA PlayFields ==
  ASSUME TypeOK
  PROVE  /\ play.forks \in Nat \ {0} /\ play.throttles \subseteq Nat
         /\ play.serial \in Seq(Nat \ {0}) /\ play.serial # <<>>
         /\ play.aef \in BOOLEAN /\ play.pct \in Nat /\ play.force \in BOOLEAN
         /\ play.chain \in [Handlers -> SUBSET Handlers]
         /\ play.len \in [Phases -> Nat]
  BY PlaysAssumption DEF TypeOK, Play

\* A batch is never empty and never larger than resolveSerialBatchSize says.
LEMMA BatchSizePositive ==
  ASSUME TypeOK
  PROVE  BatchSize \in Nat \ {0}
<1>1. play.serial \in Seq(Nat \ {0}) /\ play.serial # <<>> /\ step \in Nat
  BY PlayFields DEF TypeOK
<1>2. Len(play.serial) \in Nat \ {0}
  BY <1>1
<1>3. \A i \in 1..Len(play.serial) : play.serial[i] \in Nat \ {0}
  BY <1>1
<1> QED BY <1>1, <1>2, <1>3 DEF BatchSize

LEMMA BatchEndInPlay ==
  ASSUME TypeOK, hi < NHosts
  PROVE  BatchEnd \in 1..NHosts
BY BatchSizePositive, HostsAssumption DEF BatchEnd, TypeOK

\* The active hosts of a batch are hosts of the play.
LEMMA ActiveHosts ==
  ASSUME TypeOK
  PROVE  Active \subseteq Hosts
BY HostsAssumption DEF TypeOK, Active, Batch, Hosts

\* A flush begins with nothing executed and no error.
LEMMA BeginFlushTypes ==
  ASSUME NEW caller \in {"list", "meta", "final"}, BeginFlush(caller)
  PROVE  /\ pc' \in Pcs /\ ret' \in {"list", "meta", "final"}
         /\ executed' \subseteq Pairs /\ handlerErr' \in BOOLEAN
         /\ flushFailed' \subseteq Hosts
<1>1. pc' \in Pcs /\ ret' \in {"list", "meta", "final"}
  BY DEF BeginFlush, Pcs
<1>2. executed' \subseteq Pairs /\ flushFailed' \subseteq Hosts
  BY DEF BeginFlush
<1>3. handlerErr' \in BOOLEAN
  BY DEF BeginFlush
<1> QED BY <1>1, <1>2, <1>3

\* What executing an entry guarantees of the state it leaves behind.
EntryTypes ==
  /\ ran' \in [Hosts -> Nat] /\ firstErr' \in BOOLEAN
  /\ failCount' \in Nat /\ bad' \subseteq Hosts /\ failPos' \in Nat \X Nat \X Nat
  /\ pending' \subseteq Pairs /\ owed' \subseteq Pairs
  /\ ended' \subseteq Hosts /\ endPlay' \in BOOLEAN
  /\ UNCHANGED <<queue, flushing, beforeTask, beforePhase>>

\* Every action keeps the types, one step per action.
LEMMA TypeStep ==
  ASSUME TypeOK, [Next]_vars
  PROVE  TypeOK'
<1> USE DEF TypeOK, Pcs, flags, handling, flushing, history, conc, counts, ctl
<1>1. CASE StartBatch
  BY <1>1, BatchEndInPlay, HostsAssumption DEF StartBatch, Phases
<1>2. CASE StartList
  BY <1>2 DEF StartList
<1>3. CASE EndList
  BY <1>3 DEF EndList
<1>4. CASE StepSkip
  BY <1>4 DEF StepSkip
<1>5. CASE StartTask
  BY <1>5, ActiveHosts, PlayFields DEF StartTask
<1>6. ASSUME NEW h \in Hosts, PassOver(h)
      PROVE  TypeOK'
  BY <1>6 DEF PassOver
<1>7. ASSUME NEW h \in Hosts, NEW fails \in BOOLEAN, NEW errs \in BOOLEAN,
             NEW ok \in SUBSET failed, Entry(h, fails, errs, ok)
      PROVE  EntryTypes
  <2>1. PICK to \in Hosts, N \in SUBSET Handlers :
          Notify(N, to) /\ ended' \in {ended, ended \union {to}}
    BY <1>7 DEF Entry, Target
  <2>2. pending' \subseteq Pairs /\ owed' \subseteq Pairs /\ ended' \subseteq Hosts
    BY <2>1 DEF Notify, Pairs
  <2>3. failCount' \in Nat /\ bad' \subseteq Hosts /\ failPos' \in Nat \X Nat \X Nat
    BY <1>7 DEF Entry, RecordFailure, RecordSuccess, Pos, Phases
  <2>4. ran' \in [Hosts -> Nat]
    BY <1>7 DEF Entry
  <2>6. firstErr' \in BOOLEAN
    BY <1>7 DEF Entry
  <2>7. endPlay' \in BOOLEAN
    BY <1>7 DEF Entry
  <2>5. UNCHANGED <<queue, flushing, beforeTask, beforePhase>>
    BY <1>7 DEF Entry
  <2> QED BY <2>2, <2>3, <2>4, <2>5, <2>6, <2>7 DEF EntryTypes
<1>8. ASSUME NEW h \in Hosts, RunInline(h)
      PROVE  TypeOK'
  <2>1. PICK fails \in BOOLEAN, errs \in BOOLEAN, ok \in SUBSET failed :
          /\ Entry(h, fails, errs, ok)
          /\ failed' = IF fails /\ ~errs THEN ok \union {h} ELSE ok
          /\ pc' = IF errs THEN "after" ELSE pc
    BY <1>8 DEF RunInline
  <2>2. EntryTypes
    BY <1>7, <2>1
  <2> QED BY <1>8, <2>1, <2>2 DEF RunInline, EntryTypes
<1>9. ASSUME NEW h \in Hosts, GoExecute(h)
      PROVE  TypeOK'
  <2>1. PICK fails \in BOOLEAN, errs \in BOOLEAN, ok \in SUBSET failed :
          /\ Entry(h, fails, errs, ok)
          /\ failed' = ok
          /\ g' = [g EXCEPT ![h] = IF errs \/ ~fails THEN "returning" ELSE "failing"]
    BY <1>9 DEF GoExecute
  <2>2. EntryTypes
    BY <1>7, <2>1
  <2> QED BY <1>9, <2>1, <2>2 DEF GoExecute, EntryTypes
<1>10. ASSUME NEW h \in Hosts, NEW fails \in BOOLEAN, NEW ok \in SUBSET Hosts,
              MetaDone(h, fails, ok), ended' \subseteq Hosts, endPlay' \in BOOLEAN
       PROVE  TypeOK'
  <2>1. PICK to \in Hosts, N \in SUBSET Handlers : Notify(N, to)
    BY <1>10 DEF MetaDone, Target
  <2>2. pending' \subseteq Pairs /\ owed' \subseteq Pairs
    BY <2>1 DEF Notify, Pairs
  <2>3. failCount' \in Nat /\ bad' \subseteq Hosts /\ failPos' \in Nat \X Nat \X Nat
    BY <1>10 DEF MetaDone, RecordFailure, Pos, Phases
  <2>4. failed' \subseteq Hosts /\ pc' \in Pcs /\ firstErr' \in BOOLEAN
    BY <1>10 DEF MetaDone
  <2>5. /\ ran' \in [Hosts -> Nat] /\ todo' \subseteq Hosts
        /\ UNCHANGED <<play, lo, hi, step, phase, task, throttle, sem, g, beforeTask,
                       beforePhase, queue, flushing, playErr>>
    BY <1>10 DEF MetaDone
  <2> QED BY <1>10, <2>2, <2>3, <2>4, <2>5
<1>11. ASSUME NEW h \in Hosts,
              MetaOther(h) \/ MetaClearHostErrors(h) \/ MetaEndHost(h) \/ MetaEndPlay(h)
                \/ MetaFlushed(h)
       PROVE  TypeOK'
  <2>1. CASE MetaOther(h)
    BY <2>1, <1>10 DEF MetaOther
  <2>2. CASE MetaClearHostErrors(h)
    BY <2>2, <1>10 DEF MetaClearHostErrors
  <2>3. CASE MetaEndHost(h)
    BY <2>3, <1>10 DEF MetaEndHost, Target
  <2>4. CASE MetaEndPlay(h)
    BY <2>4, <1>10 DEF MetaEndPlay
  <2>5. CASE MetaFlushed(h)
    BY <2>5, <1>10 DEF MetaFlushed
  <2> QED BY <1>11, <2>1, <2>2, <2>3, <2>4, <2>5
<1>12. ASSUME NEW h \in Hosts, MetaFlush(h)
       PROVE  TypeOK'
  <2>1. BeginFlush("meta")
        /\ UNCHANGED <<play, lo, hi, step, phase, task, conc, counts, flags,
                       pending, queue, playErr, history>>
    BY <1>12 DEF MetaFlush
  <2> QED BY <2>1, BeginFlushTypes
<1>13. CASE InlineDone \/ Spawned \/ Wait \/ EndTask
  <2>1. CASE InlineDone BY <2>1 DEF InlineDone
  <2>2. CASE Spawned BY <2>2 DEF Spawned
  <2>3. CASE Wait BY <2>3 DEF Wait
  <2>4. CASE EndTask
    <3>1. pc' \in Pcs /\ task' \in Nat
      BY <2>4 DEF EndTask
    <3>3. firstErr' \in BOOLEAN
      BY <2>4 DEF EndTask
    <3>2. UNCHANGED <<play, lo, hi, step, phase, todo, throttle, sem, g, counts, flags,
                      handling, playErr, history>>
      BY <2>4 DEF EndTask
    <3> QED BY <3>1, <3>2, <3>3
  <2> QED BY <1>13, <2>1, <2>2, <2>3, <2>4
<1>14. ASSUME NEW h \in Hosts,
              Spawn(h) \/ GoReturnEarly(h) \/ GoBegin(h) \/ GoMarkFailed(h) \/ GoReturn(h)
       PROVE  TypeOK'
  BY <1>14 DEF Spawn, GoReturnEarly, GoBegin, GoMarkFailed, GoReturn
<1>15. CASE ListFailed \/ ListEndsPlay \/ ListFlush \/ NextList \/ EndBatch \/ Final
  <2>1. CASE ListFailed BY <2>1 DEF ListFailed
  <2>2. CASE ListEndsPlay BY <2>2 DEF ListEndsPlay
  <2>3. CASE ListFlush
    <3>1. UNCHANGED <<play, lo, hi, step, phase, task, conc, counts, flags, pending,
                      queue, playErr, history>>
      BY <2>3 DEF ListFlush
    <3>2. \/ \E c \in {"list", "meta", "final"} : BeginFlush(c)
          \/ pc' \in Pcs /\ UNCHANGED flushing
      BY <2>3 DEF ListFlush
    <3>3. /\ pc' \in Pcs /\ ret' \in {"list", "meta", "final"}
          /\ executed' \subseteq Pairs /\ handlerErr' \in BOOLEAN
          /\ flushFailed' \subseteq Hosts
      BY <3>2, BeginFlushTypes
    <3> QED BY <3>1, <3>3
  <2>4. CASE NextList BY <2>4 DEF NextList, Phases
  <2>5. CASE EndBatch BY <2>5 DEF EndBatch, Exceeded
  <2>6. CASE Final
    <3>1. UNCHANGED <<play, lo, hi, step, phase, task, conc, counts, flags, pending,
                      queue, playErr, history>>
      BY <2>6 DEF Final
    <3>2. \/ \E c \in {"list", "meta", "final"} : BeginFlush(c)
          \/ pc' \in Pcs /\ UNCHANGED flushing
      BY <2>6 DEF Final
    <3>3. /\ pc' \in Pcs /\ ret' \in {"list", "meta", "final"}
          /\ executed' \subseteq Pairs /\ handlerErr' \in BOOLEAN
          /\ flushFailed' \subseteq Hosts
      BY <3>2, BeginFlushTypes
    <3> QED BY <3>1, <3>3
  <2> QED BY <1>15, <2>1, <2>2, <2>3, <2>4, <2>5, <2>6
<1>16. CASE TakePending \/ Flushed
  BY <1>16 DEF TakePending, Flushed
<1>17. ASSUME NEW p \in Pairs, SkipHandler(p)
       PROVE  TypeOK'
  BY <1>17 DEF SkipHandler, Dequeue
<1>18. ASSUME NEW p \in Pairs, RunHandler(p)
       PROVE  TypeOK'
  <2>1. PICK fails \in BOOLEAN, changed \in BOOLEAN :
          LET marks == fails /\ p[1] \notin play.looped
              next  == IF changed THEN play.chain[p[1]] \X {p[2]} ELSE {}
          IN /\ failCount' = IF fails THEN failCount + 1 ELSE failCount
             /\ bad' = IF fails THEN bad \union {p[2]} ELSE bad
             /\ flushFailed' = IF fails THEN flushFailed \union {p[2]} ELSE flushFailed
             /\ failed' = IF marks THEN failed \union {p[2]} ELSE failed
             /\ handlerErr' = (handlerErr \/ marks)
             /\ pending' = pending \union next
             /\ owed' = (owed \ {p}) \union (next \ executed')
    BY <1>18 DEF RunHandler
  <2>2. p[1] \in Handlers /\ p[2] \in Hosts
    BY DEF Pairs
  <2>3. play.chain[p[1]] \X {p[2]} \subseteq Pairs
    BY <2>2, PlayFields DEF Pairs
  <2>4. failCount' \in Nat /\ bad' \subseteq Hosts /\ flushFailed' \subseteq Hosts
        /\ failed' \subseteq Hosts /\ handlerErr' \in BOOLEAN
    BY <2>1, <2>2
  <2>5. pending' \subseteq Pairs /\ owed' \subseteq Pairs
    BY <2>1, <2>3
  <2>6. executed' \subseteq Pairs /\ queue' \subseteq Pairs
    BY <1>18 DEF RunHandler, Dequeue
  <2>7. UNCHANGED <<play, ctl, conc, beforeTask, beforePhase, ended, endPlay, ret,
                    playErr, ran, failPos>>
    BY <1>18 DEF RunHandler
  <2> QED BY <2>4, <2>5, <2>6, <2>7
<1>19. CASE UNCHANGED vars
  BY <1>19 DEF vars
<1> QED
  BY <1>1, <1>2, <1>3, <1>4, <1>5, <1>6, <1>8, <1>9, <1>11, <1>12, <1>13, <1>14,
     <1>15, <1>16, <1>17, <1>18, <1>19
  DEF Next, PlayStep, HostStep, Returned

LEMMA TypeInit == Init => TypeOK
<1> SUFFICES ASSUME Init PROVE TypeOK
  OBVIOUS
<1> USE DEF Init
<1>1. play \in Plays /\ pc \in Pcs /\ ret \in {"list", "meta", "final"}
  BY DEF Pcs
<1>2. /\ lo \in Nat \ {0} /\ hi \in 0..NHosts /\ step \in Nat
      /\ phase \in Phases /\ task \in Nat
  BY HostsAssumption DEF Phases
<1>3. g \in [Hosts -> {"none", "spawned", "running", "failing", "returning"}]
  OBVIOUS
<1>4. ran \in [Hosts -> Nat]
  OBVIOUS
<1>5. failPos \in Nat \X Nat \X Nat
  BY DEF NoPos
<1>6. /\ throttle \in Nat /\ sem \in Int
      /\ beforeTask \in Nat /\ beforePhase \in Nat /\ failCount \in Nat
  OBVIOUS
<1>7. /\ firstErr \in BOOLEAN /\ handlerErr \in BOOLEAN /\ playErr \in BOOLEAN
      /\ endPlay \in BOOLEAN
  OBVIOUS
<1>8. /\ todo \subseteq Hosts /\ bad \subseteq Hosts /\ failed \subseteq Hosts
      /\ ended \subseteq Hosts /\ flushFailed \subseteq Hosts
      /\ pending \subseteq Pairs /\ queue \subseteq Pairs
      /\ executed \subseteq Pairs /\ owed \subseteq Pairs
  OBVIOUS
<1> HIDE DEF Init
<1> QED BY <1>1, <1>2, <1>3, <1>4, <1>5, <1>6, <1>7, <1>8 DEF TypeOK

\* Type correctness of the play, whatever the play and the scheduling.
THEOREM TypeCorrect == Spec => []TypeOK
<1>1. Init => TypeOK
  BY TypeInit
<1>2. TypeOK /\ [Next]_vars => TypeOK'
  BY TypeStep
<1> QED BY <1>1, <1>2, PTL DEF Spec
-----------------------------------------------------------------------------
(* The semaphore of executeTaskForBatchHosts.                              *)

Busy == {h \in Hosts : g[h] # "none"}

\* The tokens taken are the goroutines that have not returned; there are none
\* unless a task is being run in goroutines, and a host still to be started
\* has none.
ForksInv ==
  /\ sem = Cardinality(Busy)
  /\ sem <= EffectiveForks(throttle)
  /\ pc \notin {"spawn", "wait"} => Busy = {}
  /\ \A h \in todo : g[h] = "none"

LEMMA BusyFinite == IsFiniteSet(Busy) /\ Cardinality(Busy) \in Nat
<1>1. IsFiniteSet(Hosts)
  BY FS_Interval, HostsAssumption DEF Hosts
<1>2. Busy \subseteq Hosts
  BY DEF Busy
<1> QED BY <1>1, <1>2, FS_Subset, FS_CardinalityType

\* A goroutine that returns gives back the token of its host.
LEMMA TokenReturned ==
  ASSUME TypeOK, ForksInv, NEW h \in Hosts, g[h] # "none",
         g' = [g EXCEPT ![h] = "none"], sem' = sem - 1,
         UNCHANGED <<play, pc, todo, throttle>>
  PROVE  ForksInv'
<1>1. Busy' = Busy \ {h} /\ h \in Busy
  BY DEF Busy, TypeOK
<1>2. Cardinality(Busy') = Cardinality(Busy) - 1
  BY <1>1, BusyFinite, FS_RemoveElement
<1>3. EffectiveForks(throttle)' = EffectiveForks(throttle) /\ EffectiveForks(throttle) \in Nat
  BY PlayFields DEF EffectiveForks, TypeOK
<1>4. \A k \in todo' : g'[k] = "none"
  BY DEF ForksInv, TypeOK
<1> QED BY <1>1, <1>2, <1>3, <1>4, BusyFinite DEF ForksInv, TypeOK

LEMMA ForksFrame ==
  ASSUME TypeOK, ForksInv, UNCHANGED <<play, sem, g, throttle>>,
         pc \in {"spawn", "wait"} => pc' \in {"spawn", "wait"} \/ Busy = {},
         todo' \subseteq todo
  PROVE  ForksInv'
<1>1. Busy' = Busy /\ EffectiveForks(throttle)' = EffectiveForks(throttle)
  BY DEF Busy, EffectiveForks
<1> QED BY <1>1 DEF ForksInv

LEMMA ForksStep ==
  ASSUME TypeOK, ForksInv, [Next]_vars
  PROVE  ForksInv'
<1> USE DEF flags, handling, flushing, history, conc, counts, ctl
<1>1. CASE StartBatch \/ StartList \/ EndList \/ StepSkip
  BY <1>1, ForksFrame DEF StartBatch, StartList, EndList, StepSkip, Continuing
<1>2. CASE StartTask
  <2>1. Busy = {} /\ Busy' = {} /\ sem = 0 /\ sem' = 0
    BY <1>2, FS_EmptySet DEF StartTask, Continuing, ForksInv, Busy
  <2>2. throttle' \in Nat /\ play' = play
    BY <1>2, PlayFields DEF StartTask
  <2>3. EffectiveForks(throttle)' \in Nat
    BY <2>2, PlayFields DEF EffectiveForks
  <2>4. todo' \subseteq Hosts
    BY <1>2, ActiveHosts DEF StartTask
  <2>5. \A h \in todo' : g'[h] = "none"
    BY <2>1, <2>4 DEF Busy
  <2> QED BY <2>1, <2>3, <2>5, FS_EmptySet DEF ForksInv
<1>3. ASSUME NEW h \in Hosts,
             PassOver(h) \/ RunInline(h) \/ MetaOther(h) \/ MetaClearHostErrors(h)
               \/ MetaEndHost(h) \/ MetaEndPlay(h) \/ MetaFlush(h) \/ MetaFlushed(h)
      PROVE  ForksInv'
  BY <1>3, ForksFrame
  DEF PassOver, RunInline, MetaOther, MetaClearHostErrors, MetaEndHost, MetaEndPlay,
      MetaFlush, MetaFlushed, Meta, MetaDone, BeginFlush
<1>4. ASSUME NEW h \in Hosts, Spawn(h)
      PROVE  ForksInv'
  <2>1. g[h] = "none" /\ g' = [g EXCEPT ![h] = "spawned"]
    BY <1>4 DEF Spawn, Turn, ForksInv
  <2>2. Busy' = Busy \union {h} /\ h \notin Busy
    BY <2>1 DEF Busy, TypeOK
  <2>3. Cardinality(Busy') = Cardinality(Busy) + 1
    BY <2>2, BusyFinite, FS_AddElement
  <2>4. EffectiveForks(throttle)' = EffectiveForks(throttle) /\ EffectiveForks(throttle) \in Nat
    BY <1>4, PlayFields DEF EffectiveForks, TypeOK, Spawn
  <2>5. \A k \in todo' : g'[k] = "none"
    BY <1>4, <2>1 DEF ForksInv, TypeOK, Spawn
  <2>6. pc = "spawn" /\ pc' = pc /\ sem < EffectiveForks(throttle) /\ sem' = sem + 1
    BY <1>4 DEF Spawn
  <2> QED BY <2>3, <2>4, <2>5, <2>6, BusyFinite DEF ForksInv, TypeOK
<1>5. CASE InlineDone \/ Spawned \/ EndTask \/ ListFailed \/ ListEndsPlay \/ ListFlush
             \/ NextList \/ EndBatch \/ Final \/ TakePending \/ Flushed
  BY <1>5, ForksFrame
  DEF InlineDone, Spawned, EndTask, ListFailed, ListEndsPlay, ListFlush, NextList,
      EndBatch, Final, TakePending, Flushed, BeginFlush
<1>6. CASE Wait
  <2>1. Busy = {}
    BY <1>6 DEF Wait, AllReturned, Busy
  <2> QED BY <1>6, <2>1, ForksFrame DEF Wait
<1>7. ASSUME NEW h \in Hosts, GoReturnEarly(h) \/ GoReturn(h)
      PROVE  ForksInv'
  BY <1>7, TokenReturned DEF GoReturnEarly, GoReturn
<1>8. ASSUME NEW h \in Hosts, GoBegin(h) \/ GoExecute(h) \/ GoMarkFailed(h)
      PROVE  ForksInv'
  <2>1. PICK x \in {"running", "returning", "failing"} :
          g[h] # "none" /\ g' = [g EXCEPT ![h] = x]
    BY <1>8 DEF GoBegin, GoExecute, GoMarkFailed
  <2>2. UNCHANGED <<play, pc, todo, throttle, sem>>
    BY <1>8 DEF GoBegin, GoExecute, GoMarkFailed
  <2>3. Busy' = Busy
    BY <2>1 DEF Busy, TypeOK
  <2>4. \A k \in todo' : g'[k] = "none"
    BY <2>1, <2>2 DEF ForksInv, TypeOK
  <2> QED BY <2>2, <2>3, <2>4 DEF ForksInv, EffectiveForks
<1>9. ASSUME NEW p \in Pairs, SkipHandler(p) \/ RunHandler(p)
      PROVE  ForksInv'
  BY <1>9, ForksFrame DEF SkipHandler, RunHandler, Dequeue
<1>10. CASE UNCHANGED vars
  BY <1>10, ForksFrame DEF vars
<1> QED
  BY <1>1, <1>2, <1>3, <1>4, <1>5, <1>6, <1>7, <1>8, <1>9, <1>10
  DEF Next, PlayStep, HostStep, Returned

LEMMA ForksInit == Init => ForksInv
<1> SUFFICES ASSUME Init PROVE ForksInv
  OBVIOUS
<1>1. Busy = {} /\ sem = 0 /\ todo = {} /\ throttle = 0
  BY DEF Init, Busy
<1>2. EffectiveForks(throttle) \in Nat
  BY <1>1, TypeInit, PlayFields DEF EffectiveForks
<1> QED BY <1>1, <1>2, FS_EmptySet DEF ForksInv

LEMMA ForksAlways == Spec => []ForksInv
<1>1. TypeOK /\ ForksInv /\ [Next]_vars => ForksInv'
  BY ForksStep
<1> QED BY <1>1, ForksInit, TypeCorrect, PTL DEF Spec

\* Never more goroutines than forks, nor than the throttle of the task.
THEOREM ForksBounded == Spec => []ForksBound
<1>1. TypeOK /\ ForksInv => ForksBound
  BY PlayFields DEF ForksInv, ForksBound, EffectiveForks, Busy, TypeOK
<1> QED BY <1>1, ForksAlways, TypeCorrect, PTL

-----------------------------------------------------------------------------
(* any_errors_fatal.                                                       *)

Executing == pc \in {"meta", "inline", "spawn", "wait"} \/ (pc = "flush" /\ ret = "meta")

\* The counters compared by any_errors_fatal only grow, and a task begins after
\* its list.  Once a task has failed the play is in the rest of that task, on
\* its way out of the list with the failure still to be seen, or has an error.
FatalInv ==
  /\ beforePhase <= failCount
  /\ Executing \/ pc = "taskEnd" => beforePhase <= beforeTask /\ beforeTask <= failCount
  /\ play.aef /\ failPos # NoPos =>
       /\ pc \notin {"batch", "list", "task", "listEnd"} /\ ~(pc = "flush" /\ ret = "list")
       /\ Executing => failPos = Pos
       /\ Executing \/ pc = "taskEnd" => failCount > beforeTask
       /\ pc = "after" => firstErr \/ failCount > beforePhase
       /\ pc \in {"final", "done"} \/ (pc = "flush" /\ ret = "final") => playErr

\* The part of FatalInv that holds all through a task, at its place.
InTask ==
  /\ beforePhase <= beforeTask /\ beforeTask <= failCount
  /\ play.aef /\ failPos # NoPos => failPos = Pos /\ failCount > beforeTask

\* An entry or a meta task leaves a failure at the place of the current task.
LEMMA FailureSeen ==
  ASSUME TypeOK, FatalInv, Executing, NEW h,
         UNCHANGED <<play, step, phase, task, beforeTask, beforePhase>>,
         RecordFailure(h) \/ UNCHANGED <<failCount, failPos>>
  PROVE  InTask'
<1>1. Pos' = Pos
  BY DEF Pos
<1>2. CASE RecordFailure(h)
  BY <1>1, <1>2 DEF TypeOK, FatalInv, RecordFailure, InTask
<1>3. CASE UNCHANGED <<failCount, failPos>>
  BY <1>1, <1>3 DEF TypeOK, FatalInv, InTask
<1> QED BY <1>2, <1>3

LEMMA FatalStep ==
  ASSUME TypeOK, TypeOK', ForksInv, FatalInv, [Next]_vars
  PROVE  FatalInv'
<1> USE DEF flags, handling, flushing, history, conc, counts, ctl
<1>1. CASE StartBatch \/ EndList \/ StepSkip
  BY <1>1 DEF StartBatch, EndList, StepSkip, Continuing, FatalInv, Executing
<1>2. CASE StartList
  BY <1>2 DEF StartList, FatalInv, Executing, TypeOK
<1>3. CASE StartTask
  BY <1>3 DEF StartTask, Continuing, FatalInv, Executing, TypeOK
<1>4. ASSUME NEW h \in Hosts, PassOver(h) \/ MetaFlush(h) \/ Spawn(h)
      PROVE  FatalInv'
  BY <1>4 DEF PassOver, MetaFlush, Meta, BeginFlush, Spawn, FatalInv, Executing, Pos
<1>5. ASSUME NEW h \in Hosts, RunInline(h)
      PROVE  FatalInv'
  <2>1. InTask'
    BY <1>5, FailureSeen DEF RunInline, Entry, RecordSuccess, Executing
  <2>2. pc' = "inline" \/ (pc' = "after" /\ firstErr' = TRUE)
    BY <1>5 DEF RunInline, Entry
  <2> QED BY <2>1, <2>2 DEF FatalInv, InTask, TypeOK, Executing
<1>6. ASSUME NEW h \in Hosts, GoExecute(h)
      PROVE  FatalInv'
  <2>1. pc \in {"spawn", "wait"} /\ pc' = pc
    BY <1>6 DEF GoExecute, ForksInv, Busy
  <2>2. InTask'
    BY <1>6, <2>1, FailureSeen DEF GoExecute, Entry, RecordSuccess, Executing
  <2> QED BY <2>1, <2>2 DEF FatalInv, InTask, TypeOK, Executing
<1>7. ASSUME NEW h \in Hosts,
             MetaOther(h) \/ MetaClearHostErrors(h) \/ MetaEndHost(h) \/ MetaEndPlay(h)
               \/ MetaFlushed(h)
      PROVE  FatalInv'
  <2>1. Executing /\ \E ok, fails : MetaDone(h, fails, ok)
    BY <1>7 DEF MetaOther, MetaClearHostErrors, MetaEndHost, MetaEndPlay, MetaFlushed, Meta, Executing
  <2>2. PICK ok, fails : MetaDone(h, fails, ok)
    BY <2>1
  <2>3. InTask'
    BY <2>1, <2>2, FailureSeen DEF MetaDone
  <2>4. pc' = "meta" \/ (pc' = "after" /\ firstErr' = TRUE)
    BY <2>2 DEF MetaDone
  <2> QED BY <2>3, <2>4 DEF FatalInv, InTask, TypeOK, Executing
<1>8. CASE InlineDone \/ Spawned \/ Wait
  BY <1>8 DEF InlineDone, Spawned, Wait, FatalInv, Executing, TypeOK, Pos
<1>9. CASE EndTask
  BY <1>9 DEF EndTask, FatalInv, FatalAfterTask, Executing, TypeOK
<1>10. CASE ListFailed \/ ListEndsPlay \/ ListFlush
  BY <1>10 DEF ListFailed, ListEndsPlay, ListFlush, BeginFlush, FatalAfterList, FatalInv, Executing
<1>11. CASE NextList \/ EndBatch \/ Final
  BY <1>11 DEF NextList, EndBatch, Final, BeginFlush, FatalInv, Executing
<1>12. CASE TakePending \/ Flushed
  <2>1. CASE TakePending
    BY <2>1 DEF TakePending, FatalInv, Executing, Pos
  <2>2. CASE Flushed
    <3>1. playErr => playErr'
      BY <2>2 DEF Flushed
    <3> QED BY <2>2, <3>1 DEF Flushed, FatalInv, Executing, TypeOK
  <2> QED BY <1>12, <2>1, <2>2
<1>13. ASSUME NEW h \in Hosts,
              GoReturnEarly(h) \/ GoBegin(h) \/ GoMarkFailed(h) \/ GoReturn(h)
       PROVE  FatalInv'
  BY <1>13 DEF GoReturnEarly, GoBegin, GoMarkFailed, GoReturn, FatalInv, Executing, Pos
<1>14. ASSUME NEW p \in Pairs, SkipHandler(p)
       PROVE  FatalInv'
  BY <1>14 DEF SkipHandler, Dequeue, FatalInv, Executing, Pos
<1>15. ASSUME NEW p \in Pairs, RunHandler(p)
       PROVE  FatalInv'
  <2>1. failCount' \in {failCount, failCount + 1}
    BY <1>15 DEF RunHandler
  <2> QED BY <1>15, <2>1 DEF RunHandler, Dequeue, FatalInv, Executing, Pos, TypeOK
<1>16. CASE UNCHANGED vars
  BY <1>16 DEF vars, FatalInv, Executing, Pos
<1> QED
  BY <1>1, <1>2, <1>3, <1>4, <1>5, <1>6, <1>7, <1>8, <1>9, <1>10, <1>11, <1>12,
     <1>13, <1>14, <1>15, <1>16
  DEF Next, PlayStep, HostStep, Returned

LEMMA FatalAlways == Spec => []FatalInv
<1>1. Init => FatalInv
  BY DEF Init, FatalInv, Executing
<1>2. TypeOK /\ TypeOK' /\ ForksInv /\ FatalInv /\ [Next]_vars => FatalInv'
  BY FatalStep
<1> QED BY <1>1, <1>2, TypeCorrect, ForksAlways, PTL DEF Spec

\* any_errors_fatal: no task of any batch is executed after a task that failed.
THEOREM FatalStops == Spec => []AnyErrorsFatalStops
<1>1. FatalInv => AnyErrorsFatalStops
  BY DEF FatalInv, Executing, AnyErrorsFatalStops
<1> QED BY <1>1, FatalAlways, PTL

\* any_errors_fatal: the failure of a task is the error of the play.
THEOREM FatalReported == Spec => []AnyErrorsFatalReported
<1>1. FatalInv => AnyErrorsFatalReported
  BY DEF FatalInv, Executing, AnyErrorsFatalReported
<1> QED BY <1>1, FatalAlways, PTL

-----------------------------------------------------------------------------
(* Notified handlers, max_fail_percentage, end_play, and the barrier that  *)
(* keeps the hosts of a batch in step.                                     *)

\* Every notification not answered yet is pending or in the queue of the flush;
\* within a flush a handler that ran is owed nothing; nothing is
\* queued outside a flush and nothing is pending between two lists.
HandlersInv ==
  /\ owed \subseteq pending \union queue
  /\ pc = "flush" => owed \intersect executed = {}
  /\ pc # "flush" => queue = {}
  /\ pc \in {"batch", "list", "listEnd"} => pending = {}
  /\ pc = "done" => pending = {} \/ (playErr /\ ~play.force)

\* Steps that notify: nothing is queued then, and the play is within a task.
LEMMA NotifyKeepsHandlers ==
  ASSUME TypeOK, HandlersInv, queue = {}, NEW N, NEW to, Notify(N, to),
         pc' \notin {"batch", "list", "listEnd", "flush", "done"},
         UNCHANGED queue
  PROVE  HandlersInv'
BY DEF HandlersInv, Notify

\* Steps outside a flush that notify nobody.
LEMMA HandlersFrame ==
  ASSUME HandlersInv, pc # "flush", pc' # "flush", UNCHANGED <<pending, queue, owed>>,
         pc' \in {"batch", "list", "listEnd"} => pending = {},
         pc' = "done" => pending = {} \/ (playErr' /\ ~play'.force)
  PROVE  HandlersInv'
BY DEF HandlersInv

LEMMA BeginFlushKeepsHandlers ==
  ASSUME TypeOK, HandlersInv, pc # "flush", NEW caller, BeginFlush(caller),
         UNCHANGED <<pending, queue, owed>>
  PROVE  HandlersInv'
BY DEF HandlersInv, BeginFlush

LEMMA HandlersStep ==
  ASSUME TypeOK, TypeOK', ForksInv, HandlersInv, [Next]_vars
  PROVE  HandlersInv'
<1> USE DEF flags, handling, flushing, history, conc, counts, ctl
<1>1. CASE StartBatch \/ StartList \/ EndList \/ StepSkip \/ StartTask
  BY <1>1, HandlersFrame
  DEF StartBatch, StartList, EndList, StepSkip, StartTask, Continuing, HandlersInv
<1>2. ASSUME NEW h \in Hosts, PassOver(h) \/ Spawn(h)
      PROVE  HandlersInv'
  BY <1>2, HandlersFrame DEF PassOver, Spawn
<1>3. ASSUME NEW h \in Hosts, RunInline(h) \/ GoExecute(h)
      PROVE  HandlersInv'
  <2>1. /\ pc \in {"inline", "spawn", "wait"}
        /\ pc' \in {"inline", "spawn", "wait", "after"}
    BY <1>3 DEF RunInline, GoExecute, ForksInv, Busy
  <2>2. PICK fails \in BOOLEAN, errs \in BOOLEAN, ok \in SUBSET failed : Entry(h, fails, errs, ok)
    BY <1>3 DEF RunInline, GoExecute
  <2>3. PICK to \in Target(h), N \in SUBSET Handlers : Notify(N, to)
    BY <2>2 DEF Entry
  <2>4. UNCHANGED queue
    BY <2>2 DEF Entry
  <2> QED BY <2>1, <2>3, <2>4, NotifyKeepsHandlers DEF HandlersInv
<1>4. ASSUME NEW h \in Hosts, NEW fails \in BOOLEAN, NEW ok, MetaDone(h, fails, ok),
             queue = {}
      PROVE  HandlersInv'
  <2>1. PICK to \in Target(h), N \in SUBSET Handlers : Notify(N, to)
    BY <1>4 DEF MetaDone
  <2>2. pc' \in {"meta", "after"} /\ UNCHANGED queue
    BY <1>4 DEF MetaDone
  <2> QED BY <1>4, <2>1, <2>2, NotifyKeepsHandlers
<1>5. ASSUME NEW h \in Hosts,
             MetaOther(h) \/ MetaClearHostErrors(h) \/ MetaEndHost(h) \/ MetaEndPlay(h)
               \/ MetaFlushed(h)
      PROVE  HandlersInv'
  <2>1. queue = {}
    BY <1>5 DEF MetaOther, MetaClearHostErrors, MetaEndHost, MetaEndPlay, MetaFlushed,
                Meta, HandlersInv
  <2> QED BY <1>5, <2>1, <1>4
          DEF MetaOther, MetaClearHostErrors, MetaEndHost, MetaEndPlay, MetaFlushed
<1>6. ASSUME NEW h \in Hosts, MetaFlush(h)
      PROVE  HandlersInv'
  BY <1>6, BeginFlushKeepsHandlers DEF MetaFlush, Meta
<1>7. CASE InlineDone \/ Spawned \/ Wait \/ EndTask
  BY <1>7, HandlersFrame DEF InlineDone, Spawned, Wait, EndTask
<1>8. CASE ListFailed \/ ListEndsPlay \/ NextList \/ EndBatch
  BY <1>8, HandlersFrame DEF ListFailed, ListEndsPlay, NextList, EndBatch, HandlersInv
<1>9. CASE ListFlush \/ Final
  <2>1. CASE ListFlush
    BY <2>1, HandlersFrame, BeginFlushKeepsHandlers DEF ListFlush
  <2>2. CASE Final
    BY <2>2, HandlersFrame, BeginFlushKeepsHandlers DEF Final
  <2> QED BY <1>9, <2>1, <2>2
<1>10. ASSUME NEW h \in Hosts,
              GoReturnEarly(h) \/ GoBegin(h) \/ GoMarkFailed(h) \/ GoReturn(h)
       PROVE  HandlersInv'
  <2>1. pc \in {"spawn", "wait"}
    BY <1>10 DEF GoReturnEarly, GoBegin, GoMarkFailed, GoReturn, ForksInv, Busy
  <2> QED BY <1>10, <2>1, HandlersFrame DEF GoReturnEarly, GoBegin, GoMarkFailed, GoReturn
<1>11. CASE TakePending
  BY <1>11 DEF TakePending, HandlersInv
<1>12. CASE Flushed
  BY <1>12 DEF Flushed, HandlersInv
<1>13. ASSUME NEW p \in Pairs, SkipHandler(p)
       PROVE  HandlersInv'
  <2>1. p \notin owed'
    BY <1>13 DEF SkipHandler, Dequeue, Runnable, AlreadyRan, HandlersInv
  <2> QED BY <1>13, <2>1 DEF SkipHandler, Dequeue, HandlersInv
<1>14. ASSUME NEW p \in Pairs, RunHandler(p)
       PROVE  HandlersInv'
  <2>1. PICK next : /\ pending' = pending \union next
                    /\ owed' = (owed \ {p}) \union (next \ executed')
    BY <1>14 DEF RunHandler
  <2>2. /\ queue' = queue \ {p} /\ executed' = executed \union {p}
        /\ p \in queue /\ p \notin executed /\ pc = "flush" /\ pc' = "flush"
    BY <1>14 DEF RunHandler, Dequeue, AlreadyRan
  <2>3. owed' \subseteq pending' \union queue' /\ owed' \intersect executed' = {}
    BY <2>1, <2>2 DEF HandlersInv
  <2> QED BY <2>2, <2>3 DEF HandlersInv
<1>15. CASE UNCHANGED vars
  BY <1>15 DEF vars, HandlersInv
<1> QED
  BY <1>1, <1>2, <1>3, <1>5, <1>6, <1>7, <1>8, <1>9, <1>10, <1>11, <1>12, <1>13, <1>14, <1>15
  DEF Next, PlayStep, HostStep, Returned

LEMMA HandlersAlways == Spec => []HandlersInv
<1>1. Init => HandlersInv
  BY DEF Init, HandlersInv
<1>2. TypeOK /\ TypeOK' /\ ForksInv /\ HandlersInv /\ [Next]_vars => HandlersInv'
  BY HandlersStep
<1> QED BY <1>1, <1>2, TypeCorrect, ForksAlways, PTL DEF Spec

\* No notification is lost, for any handlers, whoever notifies them.
THEOREM HandlersAreSettled == Spec => []HandlersSettled
<1>1. HandlersInv => HandlersSettled
  BY DEF HandlersInv, HandlersSettled
<1> QED BY <1>1, HandlersAlways, PTL
-----------------------------------------------------------------------------
(* max_fail_percentage and end_play.                                       *)

\* The hosts that are marked failed, or about to be, are among the ones that
\* max_fail_percentage counts, and no batch begins with too many of them.
FailedInv ==
  /\ failed \subseteq bad /\ flushFailed \subseteq bad
  /\ \A h \in Hosts : g[h] = "failing" => h \in bad
  /\ pc = "batch" => ~Exceeded

LEMMA FailedFrame ==
  ASSUME FailedInv, bad \subseteq bad', failed' \subseteq bad', flushFailed' \subseteq bad',
         \A h \in Hosts : g'[h] = "failing" => g[h] = "failing" \/ h \in bad',
         pc' # "batch"
  PROVE  FailedInv'
BY DEF FailedInv

LEMMA FailedStep ==
  ASSUME TypeOK, ForksInv, FailedInv, [Next]_vars
  PROVE  FailedInv'
<1> USE DEF flags, handling, flushing, history, conc, counts, ctl
<1>1. CASE StartBatch \/ StartList \/ EndList \/ StepSkip \/ StartTask
  BY <1>1, FailedFrame
  DEF StartBatch, StartList, EndList, StepSkip, StartTask, Continuing, FailedInv
<1>2. ASSUME NEW h \in Hosts, PassOver(h) \/ Spawn(h) \/ MetaFlush(h)
      PROVE  FailedInv'
  BY <1>2, FailedFrame DEF PassOver, Spawn, MetaFlush, Meta, BeginFlush, FailedInv, TypeOK
<1>3. ASSUME NEW h \in Hosts, NEW fails \in BOOLEAN, NEW errs, NEW ok \in SUBSET failed,
             Entry(h, fails, errs, ok)
      PROVE  bad \subseteq bad' /\ (fails => h \in bad') /\ flushFailed' = flushFailed
  BY <1>3 DEF Entry, RecordFailure, RecordSuccess
<1>4. ASSUME NEW h \in Hosts, RunInline(h)
      PROVE  FailedInv'
  <2>1. PICK fails \in BOOLEAN, errs \in BOOLEAN, ok \in SUBSET failed :
          /\ Entry(h, fails, errs, ok)
          /\ failed' = IF fails /\ ~errs THEN ok \union {h} ELSE ok
          /\ pc' = IF errs THEN "after" ELSE pc
    BY <1>4 DEF RunInline
  <2>2. bad \subseteq bad' /\ (fails => h \in bad') /\ flushFailed' = flushFailed
    BY <1>3, <2>1
  <2>3. pc' # "batch" /\ g' = g
    BY <1>4, <2>1 DEF RunInline
  <2> QED BY <2>1, <2>2, <2>3, FailedFrame DEF FailedInv
<1>5. ASSUME NEW h \in Hosts, GoExecute(h)
      PROVE  FailedInv'
  <2>1. PICK fails \in BOOLEAN, errs \in BOOLEAN, ok \in SUBSET failed :
          /\ Entry(h, fails, errs, ok)
          /\ failed' = ok
          /\ g' = [g EXCEPT ![h] = IF errs \/ ~fails THEN "returning" ELSE "failing"]
    BY <1>5 DEF GoExecute
  <2>2. bad \subseteq bad' /\ (fails => h \in bad') /\ flushFailed' = flushFailed
    BY <1>3, <2>1
  <2>3. \A k \in Hosts : g'[k] = "failing" => g[k] = "failing" \/ k \in bad'
    BY <2>1, <2>2 DEF TypeOK
  <2>4. pc' # "batch"
    BY <1>5 DEF GoExecute, ForksInv, Busy
  <2> QED BY <2>1, <2>2, <2>3, <2>4, FailedFrame DEF FailedInv
<1>6. ASSUME NEW h \in Hosts,
             MetaOther(h) \/ MetaClearHostErrors(h) \/ MetaEndHost(h) \/ MetaEndPlay(h)
               \/ MetaFlushed(h)
      PROVE  FailedInv'
  <2>1. \E fails \in BOOLEAN : \E ok \in SUBSET bad : MetaDone(h, fails, ok)
    BY <1>6 DEF MetaOther, MetaClearHostErrors, MetaEndHost, MetaEndPlay, MetaFlushed, FailedInv
  <2>2. PICK fails \in BOOLEAN, ok \in SUBSET bad : MetaDone(h, fails, ok)
    BY <2>1
  <2>3. bad \subseteq bad' /\ (fails => h \in bad')
    BY <2>2 DEF MetaDone, RecordFailure
  <2>4. failed' \subseteq ok \union (IF fails THEN {h} ELSE {}) /\ pc' # "batch"
    BY <2>2 DEF MetaDone
  <2>5. UNCHANGED <<g, flushFailed>>
    BY <2>2 DEF MetaDone
  <2> QED BY <2>2, <2>3, <2>4, <2>5, FailedFrame DEF FailedInv
<1>7. CASE InlineDone \/ Spawned \/ Wait \/ EndTask
  BY <1>7, FailedFrame DEF InlineDone, Spawned, Wait, EndTask, FailedInv
<1>8. CASE ListFailed \/ ListEndsPlay \/ ListFlush \/ NextList \/ Final
  BY <1>8, FailedFrame
  DEF ListFailed, ListEndsPlay, ListFlush, NextList, Final, BeginFlush, FailedInv
<1>9. CASE EndBatch
  BY <1>9 DEF EndBatch, FailedInv, Exceeded
<1>10. ASSUME NEW h \in Hosts, GoReturnEarly(h) \/ GoBegin(h) \/ GoMarkFailed(h) \/ GoReturn(h)
       PROVE  FailedInv'
  <2>1. pc' # "batch"
    BY <1>10 DEF GoReturnEarly, GoBegin, GoMarkFailed, GoReturn, ForksInv, Busy
  <2>2. \A k \in Hosts : g'[k] = "failing" => g[k] = "failing"
    BY <1>10 DEF GoReturnEarly, GoBegin, GoMarkFailed, GoReturn, TypeOK
  <2>3. UNCHANGED <<bad, flushFailed>> /\ failed' \subseteq bad
    BY <1>10 DEF GoReturnEarly, GoBegin, GoMarkFailed, GoReturn, FailedInv
  <2> QED BY <2>1, <2>2, <2>3, FailedFrame DEF FailedInv
<1>11. CASE TakePending \/ Flushed
  BY <1>11, FailedFrame DEF TakePending, Flushed, FailedInv
<1>12. ASSUME NEW p \in Pairs, SkipHandler(p)
       PROVE  FailedInv'
  BY <1>12, FailedFrame DEF SkipHandler, Dequeue, FailedInv
<1>13. ASSUME NEW p \in Pairs, RunHandler(p)
       PROVE  FailedInv'
  <2>1. PICK fails \in BOOLEAN :
          /\ bad' = IF fails THEN bad \union {p[2]} ELSE bad
          /\ flushFailed' = IF fails THEN flushFailed \union {p[2]} ELSE flushFailed
          /\ failed' = IF fails /\ p[1] \notin play.looped THEN failed \union {p[2]} ELSE failed
    BY <1>13 DEF RunHandler
  <2>2. g' = g /\ pc' # "batch"
    BY <1>13 DEF RunHandler, Dequeue
  <2> QED BY <2>1, <2>2, FailedFrame DEF FailedInv
<1>14. CASE UNCHANGED vars
  BY <1>14 DEF vars, FailedInv, Exceeded
<1> QED
  BY <1>1, <1>2, <1>4, <1>5, <1>6, <1>7, <1>8, <1>9, <1>10, <1>11, <1>12, <1>13, <1>14
  DEF Next, PlayStep, HostStep, Returned

LEMMA FailedAlways == Spec => []FailedInv
<1>1. Init => FailedInv
  <2> SUFFICES ASSUME Init PROVE FailedInv
    OBVIOUS
  <2>1. play.pct * NHosts \in Nat
    BY TypeInit, PlayFields, HostsAssumption
  <2>2. ~Exceeded
    BY <2>1, FS_EmptySet DEF Init, Exceeded
  <2> QED BY <2>2 DEF Init, FailedInv
<1>2. TypeOK /\ ForksInv /\ FailedInv /\ [Next]_vars => FailedInv'
  BY FailedStep
<1> QED BY <1>1, <1>2, TypeCorrect, ForksAlways, PTL DEF Spec

\* max_fail_percentage: no batch begins after too many hosts have failed.
THEOREM MaxFailObeyed == Spec => MaxFailStops
<1>1. TypeOK /\ FailedInv /\ [Next]_vars =>
        [step' # step /\ play.pct > 0 => Cardinality(failed) * 100 <= play.pct * NHosts]_vars
  <2> SUFFICES ASSUME TypeOK, FailedInv, Next, step' # step, play.pct > 0
               PROVE  Cardinality(failed) * 100 <= play.pct * NHosts
    OBVIOUS
  <2>1. pc = "batch"
    BY DEF Next, PlayStep, HostStep, Returned, StartBatch, StartList, EndList, StepSkip,
       StartTask, PassOver, RunInline, Spawn, MetaOther, MetaClearHostErrors, MetaEndHost,
       MetaEndPlay, MetaFlush, MetaFlushed, MetaDone, InlineDone, Spawned, Wait, EndTask,
       ListFailed, ListEndsPlay, ListFlush, NextList, EndBatch, Final, TakePending, Flushed,
       SkipHandler, RunHandler, Dequeue, BeginFlush, GoReturnEarly, GoBegin, GoExecute,
       GoMarkFailed, GoReturn, vars, ctl
  <2>2. Cardinality(bad) * 100 <= play.pct * NHosts /\ Cardinality(bad) \in Nat
        /\ Cardinality(failed) \in Nat /\ Cardinality(failed) <= Cardinality(bad)
    <3>1. IsFiniteSet(Hosts)
      BY FS_Interval, HostsAssumption DEF Hosts
    <3>2. IsFiniteSet(bad)
      BY <3>1, FS_Subset DEF TypeOK
    <3>3. /\ IsFiniteSet(failed) /\ Cardinality(failed) <= Cardinality(bad)
          /\ Cardinality(bad) \in Nat /\ Cardinality(failed) \in Nat
      BY <3>2, FS_Subset, FS_CardinalityType DEF FailedInv
    <3>4. play.pct * NHosts \in Nat
      BY PlayFields, HostsAssumption
    <3> QED BY <2>1, <3>3, <3>4 DEF FailedInv, Exceeded
  <2>3. play.pct * NHosts \in Nat
    BY PlayFields, HostsAssumption
  <2> QED BY <2>2, <2>3
<1> QED BY <1>1, TypeCorrect, FailedAlways, PTL DEF Spec, MaxFailStops

\* end_play: no host begins an entry of a list any more.
THEOREM EndPlayObeyed == Spec => EndPlayStops
<1> DEFINE Stops ==
      endPlay => /\ \A h \in Hosts : g'[h] = "running" => g[h] = "running"
                 /\ \A h \in Hosts : ran'[h] # ran[h] =>
                      g[h] = "running" \/ (pc = "flush" /\ ret = "meta")
<1>1. TypeOK /\ [Next]_vars => [Stops]_vars
  <2> SUFFICES ASSUME TypeOK, Next, endPlay
               PROVE  Stops
    OBVIOUS
  <2> USE DEF flags, handling, flushing, history, conc, counts, ctl
  <2>1. CASE StartBatch \/ StartList \/ EndList \/ StartTask \/ StepSkip
    BY <2>1 DEF StartBatch, StartList, EndList, StartTask, StepSkip, Continuing
  <2>2. ASSUME NEW h \in Hosts,
               RunInline(h) \/ MetaOther(h) \/ MetaClearHostErrors(h) \/ MetaEndHost(h)
                 \/ MetaEndPlay(h) \/ MetaFlush(h) \/ Spawn(h) \/ GoBegin(h)
        PROVE  FALSE
    BY <2>2 DEF RunInline, MetaOther, MetaClearHostErrors, MetaEndHost, MetaEndPlay, MetaFlush,
                Meta, Spawn, GoBegin, Stopped
  <2>3. ASSUME NEW h \in Hosts, MetaFlushed(h)
        PROVE  Stops
    BY <2>3 DEF MetaFlushed, MetaDone
  <2>4. ASSUME NEW h \in Hosts, PassOver(h)
        PROVE  Stops
    BY <2>4 DEF PassOver
  <2>5. CASE InlineDone \/ Spawned \/ Wait \/ EndTask
    BY <2>5 DEF InlineDone, Spawned, Wait, EndTask
  <2>6. CASE ListFailed \/ ListEndsPlay \/ ListFlush \/ NextList \/ EndBatch \/ Final
               \/ TakePending \/ Flushed
    BY <2>6 DEF ListFailed, ListEndsPlay, ListFlush, NextList, EndBatch, Final, BeginFlush,
                TakePending, Flushed
  <2>7. ASSUME NEW p \in Pairs, SkipHandler(p) \/ RunHandler(p)
        PROVE  Stops
    BY <2>7 DEF SkipHandler, RunHandler, Dequeue
  <2>8. ASSUME NEW h \in Hosts, GoReturnEarly(h) \/ GoMarkFailed(h) \/ GoReturn(h)
        PROVE  Stops
    BY <2>8 DEF GoReturnEarly, GoMarkFailed, GoReturn, TypeOK
  <2>9. ASSUME NEW h \in Hosts, GoExecute(h)
        PROVE  Stops
    <3>1. ran' = [ran EXCEPT ![h] = @ + 1] /\ g[h] = "running"
      BY <2>9 DEF GoExecute, Entry
    <3>2. \A k \in Hosts : g'[k] = "running" => g[k] = "running"
      BY <2>9 DEF GoExecute, TypeOK
    <3>3. \A k \in Hosts : ran'[k] # ran[k] => k = h
      BY <3>1 DEF TypeOK
    <3> QED BY <3>1, <3>2, <3>3
  <2>10. CASE Returned
    BY <2>10 DEF Returned, vars
  <2> QED
    BY <2>1, <2>2, <2>3, <2>4, <2>5, <2>6, <2>7, <2>8, <2>9, <2>10
    DEF Next, PlayStep, HostStep
<1> QED BY <1>1, TypeCorrect, PTL DEF Spec, EndPlayStops
-----------------------------------------------------------------------------
\* The hosts the barrier is about: the ones that never failed and were not ended.
Good == Hosts \ (bad \union ended)

\* How many entries the lists before this one have, all three, and how many
\* entries come before the current one.
Earlier == IF phase = 1 THEN 0 ELSE IF phase = 2 THEN play.len[1] ELSE play.len[1] + play.len[2]
Total   == play.len[1] + play.len[2] + play.len[3]
Spot    == IF pc = "list" THEN Earlier ELSE Earlier + task - 1

\* Where a task is being executed: it is started on the hosts in todo.
Begun(h) == h \notin todo /\ g[h] \notin {"spawned", "running"}

\* What a host of the current batch has results for.
PlaceOf(h) ==
  /\ ran[h] \in {Spot, Spot + 1}
  /\ pc \in {"list", "task"} => ran[h] = Spot
  /\ Executing /\ ~Begun(h) => ran[h] = Spot
  /\ Executing /\ Begun(h) => ran[h] = Spot + 1 \/ endPlay
  /\ pc = "taskEnd" => ran[h] = Spot + 1 \/ endPlay
  /\ pc = "after" /\ ~firstErr /\ ~endPlay => ran[h] = Earlier + play.len[phase]
  /\ pc = "listEnd" \/ (pc = "flush" /\ ret = "list") => ran[h] = Earlier + play.len[phase]
  /\ pc = "batch" => ran[h] = Total

\* Good hosts of the batches before this one have everything, of the batches to
\* come nothing, of this one what the place of the play's goroutine says; and a
\* play that is on its way out without an error has reached them all.
BarrierInv ==
  /\ lo <= hi + 1
  /\ pc # "list" => task \in Nat \ {0}
  /\ Executing \/ pc = "taskEnd" => task <= play.len[phase]
  /\ pc = "task" => task <= play.len[phase] + 1
  /\ Executing => todo \subseteq Batch
  /\ pc = "wait" => todo = {}
  /\ \A h \in Hosts : g[h] # "none" => h \in Batch
  /\ \A h \in Good : /\ h < lo => ran[h] = Total
                     /\ h > hi => ran[h] = 0
                     /\ h \in Batch => PlaceOf(h)
  /\ pc \in {"final", "done"} \/ (pc = "flush" /\ ret = "final") =>
       playErr \/ endPlay \/ \A h \in Good : ran[h] = Total

LEMMA Sums ==
  ASSUME TypeOK
  PROVE  Earlier \in Nat /\ Total \in Nat /\ play.len[phase] \in Nat
         /\ (phase = 3 => Earlier + play.len[phase] = Total)
         /\ lo \in Nat /\ hi \in Nat /\ task \in Nat
         /\ \A h \in Hosts : ran[h] \in Nat /\ h \in Nat
<1>1. play.len[1] \in Nat /\ play.len[2] \in Nat /\ play.len[3] \in Nat /\ play.len[phase] \in Nat
  <2>1. play.len \in [1..3 -> Nat]
    BY PlayFields DEF Phases
  <2>2. phase \in 1..3
    BY DEF TypeOK, Phases
  <2> QED BY <2>1, <2>2
<1>2. phase \in {1, 2, 3} /\ lo \in Nat /\ hi \in Nat /\ task \in Nat
  BY HostsAssumption DEF TypeOK, Phases
<1>3. Earlier \in Nat /\ Total \in Nat /\ (phase = 3 => Earlier + play.len[phase] = Total)
  BY <1>1, <1>2 DEF Earlier, Total
<1>4. \A h \in Hosts : ran[h] \in Nat /\ h \in Nat
  BY HostsAssumption DEF TypeOK, Hosts
<1> QED BY <1>1, <1>2, <1>3, <1>4

\* A host that never failed and was not ended is active in its batch, and
\* stopped by end_play alone.
LEMMA GoodGoOn ==
  ASSUME TypeOK, FailedInv, NEW h \in Good
  PROVE  /\ h \in Hosts /\ (h \in Batch => h \in Active)
         /\ (Stopped(h) => endPlay)
BY DEF Good, FailedInv, Active, Stopped

\* A step that gives one host a result: it has one result more, the others are where they were.
LEMMA OneResult ==
  ASSUME TypeOK, TypeOK', BarrierInv, Executing, NEW h \in Batch, h \in Hosts, ~Begun(h),
         ran' = [ran EXCEPT ![h] = @ + 1], Begun(h)',
         \A k \in Hosts \ {h} : Begun(k)' <=> Begun(k),
         Executing' \/ (pc' = "after" /\ firstErr'),
         endPlay => endPlay', bad \subseteq bad', ended \subseteq ended', todo' \subseteq todo,
         pc' = "wait" => pc = "wait",
         \A k \in Hosts : g'[k] # "none" => g[k] # "none",
         UNCHANGED <<play, lo, hi, step, phase, task>>
  PROVE  BarrierInv'
<1>1. pc # "list" /\ pc' # "list" /\ Spot' = Spot /\ Earlier' = Earlier /\ Total' = Total
  BY DEF Executing, Spot, Earlier, Total
<1>2. Good' \subseteq Good /\ Batch' = Batch
  BY DEF Good, Batch
<1>3. /\ ~(pc' \in {"task", "taskEnd", "listEnd", "batch", "final", "done"})
      /\ ~(pc' = "flush" /\ ret' \in {"list", "final"})
      /\ pc' = "after" => firstErr'
  BY DEF Executing
<1>4. ASSUME NEW k \in Good', k \in Batch
      PROVE  PlaceOf(k)'
  <2>1. PlaceOf(k) /\ k \in Hosts /\ ran[k] \in Nat /\ Spot \in Nat
    BY <1>2, <1>4, Sums DEF BarrierInv, Good, Spot
  <2>2. CASE k = h
    <3>1. ran[k] = Spot /\ ran'[k] = Spot + 1
      BY <2>1, <2>2 DEF PlaceOf, TypeOK
    <3>2. ran'[k] \in {Spot', (Spot + 1)'} /\ ran'[k] = (Spot + 1)'
      BY <1>1, <3>1
    <3> QED BY <1>1, <1>3, <2>2, <3>2 DEF PlaceOf
  <2>3. CASE k # h
    <3>1. ran'[k] = ran[k] /\ (Begun(k)' <=> Begun(k))
      BY <2>1, <2>3 DEF TypeOK
    <3> QED BY <1>1, <1>3, <2>1, <3>1 DEF PlaceOf
  <2> QED BY <2>2, <2>3
<1>5. ASSUME NEW k \in Good'
      PROVE  (k < lo => ran'[k] = Total) /\ (k > hi => ran'[k] = 0)
  <2>1. k \in Good /\ k \in Hosts /\ k \in Nat /\ lo \in Nat /\ hi \in Nat
    BY <1>2, Sums DEF Good
  <2>2. k # h => ran'[k] = ran[k]
    BY <2>1 DEF TypeOK
  <2>3. k = h => ~(k < lo) /\ ~(k > hi)
    BY <2>1 DEF Batch
  <2> QED BY <2>1, <2>2, <2>3 DEF BarrierInv
<1>6. /\ lo' <= hi' + 1 /\ (pc' # "list" => task' \in Nat \ {0})
      /\ (Executing' => task' <= play'.len[phase'])
      /\ (Executing' => todo' \subseteq Batch') /\ (pc' = "wait" => todo' = {})
      /\ \A k \in Hosts : g'[k] # "none" => k \in Batch'
  BY <1>1, <1>2 DEF BarrierInv
<1> QED BY <1>1, <1>2, <1>3, <1>4, <1>5, <1>6 DEF BarrierInv

\* Steps in which no host gets a result and no list or batch begins.
LEMMA NoResult ==
  ASSUME TypeOK, BarrierInv, UNCHANGED <<play, lo, hi, phase, ran>>,
         endPlay => endPlay', bad \subseteq bad', ended \subseteq ended',
         \A k \in Hosts : g'[k] # "none" => k \in Batch,
         pc' # "list" /\ task' \in Nat \ {0},
         Executing' \/ pc' = "taskEnd" => task' <= play.len[phase],
         pc' = "task" => task' <= play.len[phase] + 1,
         Executing' => todo' \subseteq Batch,
         pc' = "wait" => todo' = {},
         \A k \in Good : k \in Batch => PlaceOf(k)',
         pc' \in {"final", "done"} \/ (pc' = "flush" /\ ret' = "final") =>
           playErr' \/ endPlay' \/ \A h \in Good : ran[h] = Total
  PROVE  BarrierInv'
<1>1. Good' \subseteq Good /\ Batch' = Batch /\ Total' = Total
  BY DEF Good, Batch, Total
<1> QED BY <1>1 DEF BarrierInv

\* Steps of a task that give no host a result.
LEMMA InsideTask ==
  ASSUME TypeOK, BarrierInv, Executing, Executing',
         UNCHANGED <<play, lo, hi, phase, task, ran, endPlay, bad, ended>>,
         \A k \in Hosts : g'[k] # "none" => k \in Batch,
         todo' \subseteq todo, pc' = "wait" => todo' = {},
         \A k \in Good : (Begun(k)' <=> Begun(k)) \/ (Begun(k)' /\ endPlay)
  PROVE  BarrierInv'
<1>1. /\ pc \notin {"list", "task", "taskEnd", "after", "listEnd", "batch", "final", "done"}
      /\ pc' \notin {"list", "task", "taskEnd", "after", "listEnd", "batch", "final", "done"}
      /\ ~(pc' = "flush" /\ ret' \in {"list", "final"})
  BY DEF Executing
<1>2. Spot' = Spot /\ Earlier' = Earlier
  BY <1>1 DEF Spot, Earlier
<1>3. \A k \in Good : k \in Batch => PlaceOf(k)'
  <2> SUFFICES ASSUME NEW k \in Good, k \in Batch PROVE PlaceOf(k)'
    OBVIOUS
  <2>1. PlaceOf(k) /\ ran'[k] = ran[k] /\ (endPlay' <=> endPlay)
    BY DEF BarrierInv
  <2>2. ran[k] \in {Spot, Spot + 1} /\ (~Begun(k)' => ran[k] = Spot)
        /\ (Begun(k)' => ran[k] = Spot + 1 \/ endPlay)
    BY <2>1 DEF PlaceOf
  <2> QED BY <1>1, <1>2, <2>1, <2>2 DEF PlaceOf
<1>4. task' \in Nat \ {0} /\ task' <= play.len[phase] /\ todo' \subseteq Batch
  BY <1>1 DEF BarrierInv
<1>5. \A k \in Hosts : g'[k] # "none" => k \in Batch
  OBVIOUS
<1>6. (endPlay => endPlay') /\ bad \subseteq bad' /\ ended \subseteq ended' /\ pc' # "list"
  BY <1>1
<1> QED BY <1>1, <1>3, <1>4, <1>5, <1>6, NoResult

\* Steps between tasks that move the goroutine of the play, and nothing else.
LEMMA Moves ==
  ASSUME TypeOK, BarrierInv, UNCHANGED <<play, lo, hi, phase, task, ran, g>>,
         endPlay' = endPlay, bad \subseteq bad', ended \subseteq ended',
         pc # "list" /\ pc' # "list", ~Executing', pc' \notin {"task", "taskEnd"},
         \A k \in Good : k \in Batch => PlaceOf(k)',
         pc' \in {"final", "done"} \/ (pc' = "flush" /\ ret' = "final") =>
           playErr' \/ endPlay' \/ \A h \in Good : ran[h] = Total
  PROVE  BarrierInv'
BY NoResult DEF BarrierInv, Executing

LEMMA BarrierStep ==
  ASSUME TypeOK, TypeOK', ForksInv, FailedInv, BarrierInv, [Next]_vars
  PROVE  BarrierInv'
<1> USE DEF flags, handling, flushing, history, conc, counts, ctl
<1>0. pc \notin {"spawn", "wait"} => \A h \in Hosts : g[h] = "none"
  BY DEF ForksInv, Busy
<1>1. CASE StartBatch
  <2>1. CASE hi < NHosts
    <3>1. /\ lo' = hi + 1 /\ hi' = BatchEnd /\ phase' = 1 /\ pc = "batch" /\ pc' = "list"
          /\ UNCHANGED <<play, task, ran, bad, ended, g, playErr, endPlay>>
      BY <1>1, <2>1 DEF StartBatch
    <3>2. hi \in Nat /\ BatchEnd \in Nat /\ hi < BatchEnd
      BY <2>1, BatchSizePositive, HostsAssumption DEF BatchEnd, TypeOK
    <3>3. Good' = Good /\ Total' = Total /\ Earlier' = 0 /\ Spot' = 0 /\ ~Executing'
      BY <3>1 DEF Good, Total, Earlier, Spot, Executing
    <3>4. ASSUME NEW h \in Good
          PROVE  /\ h <= hi => ran[h] = Total
                 /\ h > hi => ran[h] = 0
                 /\ h \in Nat
      <4>1. h \in Nat /\ lo \in Nat
        BY Sums DEF Good
      <4>2. h <= hi /\ h >= lo => ran[h] = Total
        BY <3>1, <3>2, <4>1 DEF BarrierInv, Batch, PlaceOf
      <4> QED BY <3>2, <4>1, <4>2 DEF BarrierInv
    <3>5. ASSUME NEW h \in Good', h \in Batch'
          PROVE  PlaceOf(h)'
      <4>1. ran'[h] = 0
        BY <3>1, <3>2, <3>3, <3>4, <3>5 DEF Batch
      <4> QED BY <3>1, <3>3, <4>1 DEF PlaceOf
    <3>6. \A h \in Hosts : g'[h] = "none"
      BY <1>0, <3>1
    <3> QED BY <3>1, <3>2, <3>3, <3>4, <3>5, <3>6 DEF BarrierInv
  <2>2. CASE ~(hi < NHosts)
    <3>1. /\ pc = "batch" /\ pc' = "final"
          /\ UNCHANGED <<play, lo, hi, step, phase, task, ran, bad, ended, g, endPlay, playErr>>
      BY <1>1, <2>2 DEF StartBatch
    <3>2. \A h \in Good : ran[h] = Total
      <4> SUFFICES ASSUME NEW h \in Good PROVE ran[h] = Total
        OBVIOUS
      <4>1. h \in 1..NHosts /\ lo \in Nat /\ hi \in Nat
        BY Sums DEF Good, Hosts
      <4>2. h < lo \/ h \in Batch
        BY <2>2, <4>1, HostsAssumption DEF Batch
      <4> QED BY <3>1, <4>2 DEF BarrierInv, PlaceOf
    <3>3. \A k \in Good : k \in Batch => PlaceOf(k)'
      <4>1. Spot' = Spot
        BY <3>1 DEF Spot, Earlier
      <4> QED BY <3>1, <4>1 DEF BarrierInv, PlaceOf, Executing
    <3> QED BY <3>1, <3>2, <3>3, Moves DEF Executing
  <2> QED BY <2>1, <2>2
<1>2. CASE StartList
  <2>1. /\ pc = "list" /\ pc' = "task" /\ task' = 1
        /\ UNCHANGED <<play, lo, hi, step, phase, ran, bad, ended, g, endPlay, playErr>>
    BY <1>2 DEF StartList
  <2>2. Spot = Earlier /\ Spot' = Earlier /\ play.len[phase] \in Nat
    BY <2>1, Sums DEF Spot, Earlier
  <2>3. \A k \in Good : k \in Batch => PlaceOf(k)'
    BY <2>1, <2>2 DEF BarrierInv, PlaceOf, Executing
  <2> QED BY <2>1, <2>2, <2>3, NoResult DEF BarrierInv, Executing
<1>3. CASE EndList
  <2>1. /\ pc = "task" /\ pc' = "after" /\ (task > play.len[phase] \/ endPlay \/ Active = {})
        /\ UNCHANGED <<play, lo, hi, step, phase, task, ran, bad, ended, g, endPlay, firstErr, playErr>>
    BY <1>3 DEF EndList
  <2>2. \A k \in Good : k \in Batch => PlaceOf(k)'
    <3> SUFFICES ASSUME NEW k \in Good, k \in Batch PROVE PlaceOf(k)'
      OBVIOUS
    <3>1. k \in Active /\ ran[k] = Spot /\ Spot' = Spot /\ Spot = Earlier + task - 1
      BY <2>1, GoodGoOn DEF BarrierInv, PlaceOf, Spot, Earlier
    <3>2. ~endPlay => task = play.len[phase] + 1
      BY <2>1, <3>1, Sums DEF BarrierInv
    <3> QED BY <2>1, <3>1, <3>2, Sums DEF PlaceOf, Executing, Earlier
  <2> QED BY <2>1, <2>2, Moves DEF Executing
<1>4. CASE StepSkip
  <2>1. /\ pc = "task" /\ pc' = "task" /\ task' = task + 1 /\ task <= play.len[phase]
        /\ ran' = [h \in Hosts |-> IF h \in Active THEN ran[h] + 1 ELSE ran[h]]
        /\ UNCHANGED <<play, lo, hi, step, phase, bad, ended, failed, g, endPlay, firstErr, playErr>>
    BY <1>4 DEF StepSkip, Continuing
  <2>2. Good' = Good /\ Batch' = Batch /\ Total' = Total /\ Spot' = Spot + 1 /\ Spot \in Nat
    BY <2>1, Sums DEF Good, Batch, Total, Spot, Earlier, BarrierInv
  <2>3. ASSUME NEW h \in Good
        PROVE  /\ h < lo => ran'[h] = Total
               /\ h > hi => ran'[h] = 0
               /\ h \in Batch => ran'[h] = Spot'
    <3>1. h \in Nat /\ lo \in Nat /\ hi \in Nat /\ h \in Hosts /\ ran[h] \in Nat
      BY Sums DEF Good
    <3>2. CASE h \in Batch
      BY <2>1, <2>2, <3>1, <3>2, GoodGoOn DEF BarrierInv, PlaceOf, Batch
    <3>3. CASE h \notin Batch
      BY <2>1, <3>1, <3>3 DEF BarrierInv, Active
    <3> QED BY <3>1, <3>2, <3>3 DEF Batch
  <2>4. \A h \in Good : h \in Batch => PlaceOf(h)'
    BY <2>1, <2>2, <2>3 DEF PlaceOf, Executing
  <2>5. ~Executing' /\ task' <= play'.len[phase'] + 1 /\ task' \in Nat \ {0}
    BY <2>1, Sums DEF Executing
  <2> QED BY <2>1, <2>2, <2>3, <2>4, <2>5 DEF BarrierInv
<1>5. CASE StartTask
  <2>1. /\ pc = "task" /\ pc' \in {"meta", "inline", "spawn"} /\ todo' = Active
        /\ task <= play.len[phase] /\ ~endPlay
        /\ UNCHANGED <<play, lo, hi, step, phase, task, ran, bad, ended, failed, g, endPlay, playErr>>
    BY <1>5 DEF StartTask, Continuing
  <2>2. Spot' = Spot /\ Earlier' = Earlier
    BY <2>1 DEF Spot, Earlier
  <2>3. \A k \in Good : k \in Batch => PlaceOf(k)'
    <3> SUFFICES ASSUME NEW k \in Good, k \in Batch PROVE PlaceOf(k)'
      OBVIOUS
    <3>1. ~Begun(k)' /\ ran[k] = Spot
      BY <2>1, GoodGoOn DEF Begun, BarrierInv, PlaceOf
    <3> QED BY <2>1, <2>2, <3>1 DEF PlaceOf
  <2>4. Active \subseteq Batch
    BY DEF Active
  <2> QED BY <2>1, <2>3, <2>4, NoResult DEF BarrierInv
<1>6. ASSUME NEW h \in Hosts, PassOver(h)
      PROVE  BarrierInv'
  <2>1. /\ pc \in {"meta", "inline", "spawn"} /\ todo' = todo \ {h} /\ h \in todo /\ Stopped(h)
        /\ UNCHANGED <<play, ctl, ran, bad, ended, g, endPlay, playErr, ret>>
    BY <1>6 DEF PassOver, Turn
  <2>2. \A k \in Good : (Begun(k)' <=> Begun(k)) \/ (Begun(k)' /\ endPlay)
    BY <2>1, GoodGoOn, <1>0 DEF Begun, ForksInv
  <2> QED BY <2>1, <2>2, InsideTask DEF Executing, BarrierInv
<1>7. ASSUME NEW h \in Hosts, NEW fails \in BOOLEAN, NEW errs \in BOOLEAN,
             NEW ok \in SUBSET failed, Entry(h, fails, errs, ok)
      PROVE  /\ ran' = [ran EXCEPT ![h] = @ + 1] /\ (errs => firstErr')
             /\ bad \subseteq bad' /\ ended \subseteq ended' /\ (endPlay => endPlay')
             /\ ret' = ret
  <2>1. bad \subseteq bad'
    BY <1>7 DEF Entry, RecordFailure, RecordSuccess
  <2>2. ended \subseteq ended'
    BY <1>7 DEF Entry
  <2>3. endPlay' \in {endPlay, TRUE} /\ firstErr' = (firstErr \/ errs)
    BY <1>7 DEF Entry
  <2>4. ran' = [ran EXCEPT ![h] = @ + 1] /\ ret' = ret
    BY <1>7 DEF Entry
  <2>5. endPlay => endPlay'
    BY <2>3
  <2>6. errs => firstErr'
    BY <2>3
  <2> QED BY <2>1, <2>2, <2>4, <2>5, <2>6
<1>8. ASSUME NEW h \in Hosts, RunInline(h)
      PROVE  BarrierInv'
  <2>1. PICK fails \in BOOLEAN, errs \in BOOLEAN, ok \in SUBSET failed :
          /\ Entry(h, fails, errs, ok)
          /\ pc' = IF errs THEN "after" ELSE pc
    BY <1>8 DEF RunInline
  <2>2. /\ pc = "inline" /\ h \in todo /\ todo' = todo \ {h}
        /\ UNCHANGED <<play, lo, hi, step, phase, task, g, playErr>>
    BY <1>8 DEF RunInline, Turn
  <2>3. Executing /\ h \in Batch /\ ~Begun(h)
    BY <2>2 DEF Executing, BarrierInv, Begun
  <2>4. Begun(h)' /\ \A k \in Hosts \ {h} : Begun(k)' <=> Begun(k)
    BY <2>2, <1>0 DEF Begun
  <2>5. Executing' \/ (pc' = "after" /\ firstErr')
    BY <1>7, <2>1, <2>2 DEF Executing
  <2> QED BY <1>7, <2>1, <2>2, <2>3, <2>4, <2>5, OneResult
<1>9. ASSUME NEW h \in Hosts, GoExecute(h)
      PROVE  BarrierInv'
  <2>1. PICK fails \in BOOLEAN, errs \in BOOLEAN, ok \in SUBSET failed :
          /\ Entry(h, fails, errs, ok)
          /\ g' = [g EXCEPT ![h] = IF errs \/ ~fails THEN "returning" ELSE "failing"]
    BY <1>9 DEF GoExecute
  <2>2. /\ pc \in {"spawn", "wait"} /\ g[h] = "running" /\ h \notin todo
        /\ UNCHANGED <<play, ctl, todo, playErr>>
    BY <1>9, <1>0 DEF GoExecute, ForksInv
  <2>3. Executing /\ Executing' /\ h \in Batch /\ ~Begun(h)
    BY <2>2 DEF Executing, BarrierInv, Begun
  <2>4. Begun(h)' /\ \A k \in Hosts \ {h} : Begun(k)' <=> Begun(k)
    BY <2>1, <2>2 DEF Begun, TypeOK
  <2>5. \A k \in Hosts : g'[k] # "none" => g[k] # "none"
    BY <2>1, <2>2 DEF TypeOK
  <2> QED BY <1>7, <2>1, <2>2, <2>3, <2>4, <2>5, OneResult
<1>10. ASSUME NEW h \in Hosts, NEW fails \in BOOLEAN, NEW ok, MetaDone(h, fails, ok),
              pc = "meta" \/ (pc = "flush" /\ ret = "meta"), h \in todo,
              ended \subseteq ended', endPlay => endPlay'
       PROVE  BarrierInv'
  <2>1. /\ todo' = todo \ {h} /\ ran' = [ran EXCEPT ![h] = @ + 1] /\ bad \subseteq bad'
        /\ UNCHANGED <<play, lo, hi, step, phase, task, g, playErr>>
        /\ pc' = "meta" \/ (pc' = "after" /\ firstErr')
    BY <1>10 DEF MetaDone, RecordFailure
  <2>2. Executing /\ h \in Batch /\ ~Begun(h)
    BY <1>10 DEF Executing, BarrierInv, Begun
  <2>3. Begun(h)' /\ \A k \in Hosts \ {h} : Begun(k)' <=> Begun(k)
    BY <1>0, <1>10, <2>1 DEF Begun
  <2>4. Executing' \/ (pc' = "after" /\ firstErr')
    BY <2>1 DEF Executing
  <2> QED BY <1>10, <2>1, <2>2, <2>3, <2>4, OneResult
<1>11. ASSUME NEW h \in Hosts,
              MetaOther(h) \/ MetaClearHostErrors(h) \/ MetaEndHost(h) \/ MetaEndPlay(h)
                \/ MetaFlushed(h)
       PROVE  BarrierInv'
  <2>1. PICK fails \in BOOLEAN : \E ok : MetaDone(h, fails, ok)
    BY <1>11 DEF MetaOther, MetaClearHostErrors, MetaEndHost, MetaEndPlay, MetaFlushed
  <2>2. (pc = "meta" \/ (pc = "flush" /\ ret = "meta")) /\ h \in todo
    BY <1>11 DEF MetaOther, MetaClearHostErrors, MetaEndHost, MetaEndPlay, MetaFlushed, Meta, Turn
  <2>3. /\ ended' = ended \/ \E to \in Target(h) : ended' = ended \union {to}
        /\ endPlay' = endPlay \/ endPlay' = TRUE
    BY <1>11 DEF MetaOther, MetaClearHostErrors, MetaEndHost, MetaEndPlay, MetaFlushed
  <2>5. ended \subseteq ended'
    BY <2>3
  <2>6. endPlay => endPlay'
    BY <2>3
  <2>4. PICK ok : MetaDone(h, fails, ok)
    BY <2>1
  <2> QED BY <1>10, <2>2, <2>4, <2>5, <2>6
<1>12. ASSUME NEW h \in Hosts, MetaFlush(h)
       PROVE  BarrierInv'
  <2>1. Executing /\ Executing' /\ UNCHANGED <<play, lo, hi, phase, task, ran, endPlay, bad, ended, g, todo>>
    BY <1>12 DEF MetaFlush, Meta, BeginFlush, Executing
  <2>2. pc' # "wait"
    BY <1>12 DEF MetaFlush, BeginFlush
  <2> QED BY <2>1, <2>2, InsideTask DEF Begun, BarrierInv
<1>13. CASE InlineDone \/ (Wait /\ ~firstErr)
  <2>1. /\ Executing /\ pc' = "taskEnd" /\ todo' = todo
        /\ \A h \in Hosts : Begun(h)
        /\ UNCHANGED <<play, lo, hi, step, phase, task, ran, bad, ended, g, endPlay, playErr>>
    <3>1. CASE InlineDone
      BY <1>0, <3>1 DEF InlineDone, Executing, Begun
    <3>2. CASE Wait /\ ~firstErr
      <4>1. pc = "wait" /\ AllReturned
        BY <3>2 DEF Wait
      <4>2. todo = {}
        BY <4>1 DEF BarrierInv
      <4> QED BY <3>2, <4>1, <4>2 DEF Wait, AllReturned, Executing, Begun
    <3> QED BY <1>13, <3>1, <3>2
  <2>2. Spot' = Spot /\ Earlier' = Earlier
    BY <2>1 DEF Spot, Earlier, Executing
  <2>3. \A k \in Good : k \in Batch => PlaceOf(k)'
    BY <2>1, <2>2 DEF BarrierInv, PlaceOf, Executing, Good
  <2> QED BY <2>1, <2>2, <2>3, NoResult DEF BarrierInv, Executing
<1>14. CASE Spawned
  <2>1. Executing /\ Executing' /\ UNCHANGED <<play, lo, hi, phase, task, ran, endPlay, bad, ended, g, todo>>
    BY <1>14 DEF Spawned, Executing
  <2>2. todo = {}
    BY <1>14 DEF Spawned
  <2> QED BY <2>1, <2>2, InsideTask DEF Begun, BarrierInv
<1>15. CASE Wait /\ firstErr
  <2>1. /\ pc = "wait" /\ pc' = "after" /\ firstErr'
        /\ UNCHANGED <<play, lo, hi, step, phase, task, ran, bad, ended, g, endPlay, playErr>>
    BY <1>15 DEF Wait
  <2>2. Spot' = Spot /\ ~Executing'
    BY <2>1 DEF Spot, Earlier, Executing
  <2>3. \A k \in Good : k \in Batch => PlaceOf(k)'
    BY <2>1, <2>2 DEF BarrierInv, PlaceOf
  <2> QED BY <2>1, <2>2, <2>3, Moves
<1>16. CASE EndTask
  <2>1. /\ pc = "taskEnd"
        /\ UNCHANGED <<play, lo, hi, step, phase, ran, bad, ended, g, endPlay, playErr>>
    BY <1>16 DEF EndTask
  <2>2. CASE pc' = "task"
    <3>1. task' = task + 1 /\ ~endPlay
      BY <1>16, <2>2 DEF EndTask
    <3>2. Spot' = Spot + 1 /\ task' <= play.len[phase] + 1 /\ task' \in Nat \ {0}
      BY <2>1, <2>2, <3>1, Sums DEF Spot, Earlier, BarrierInv
    <3>3. \A k \in Good : k \in Batch => PlaceOf(k)'
      BY <2>1, <2>2, <3>1, <3>2 DEF BarrierInv, PlaceOf, Executing
    <3> QED BY <2>1, <2>2, <3>2, <3>3, NoResult DEF BarrierInv, Executing
  <2>3. CASE pc' # "task"
    <3>1. pc' = "after" /\ task' = task /\ (endPlay \/ firstErr')
      BY <1>16, <2>3 DEF EndTask
    <3>2. Spot' = Spot
      BY <2>1, <3>1 DEF Spot, Earlier
    <3>3. \A k \in Good : k \in Batch => PlaceOf(k)'
      BY <2>1, <3>1, <3>2 DEF BarrierInv, PlaceOf, Executing
    <3> QED BY <2>1, <3>1, <3>3, Moves DEF Executing
  <2> QED BY <2>2, <2>3
<1>17. ASSUME NEW h \in Hosts, Spawn(h)
       PROVE  BarrierInv'
  <2>1. /\ pc = "spawn" /\ h \in todo /\ todo' = todo \ {h} /\ g' = [g EXCEPT ![h] = "spawned"]
        /\ UNCHANGED <<play, ctl, ran, bad, ended, endPlay, playErr, ret>>
    BY <1>17 DEF Spawn, Turn
  <2>2. Executing /\ Executing' /\ h \in Batch
    BY <2>1 DEF Executing, BarrierInv
  <2>3. \A k \in Hosts : Begun(k)' <=> Begun(k)
    BY <2>1 DEF Begun, TypeOK
  <2>4. \A k \in Hosts : g'[k] # "none" => k \in Batch
    BY <2>1, <2>2 DEF TypeOK, BarrierInv
  <2> QED BY <2>1, <2>2, <2>3, <2>4, InsideTask DEF Good
<1>18. ASSUME NEW h \in Hosts,
              GoReturnEarly(h) \/ GoBegin(h) \/ GoMarkFailed(h) \/ GoReturn(h)
       PROVE  BarrierInv'
  <2>1. /\ g[h] # "none" /\ UNCHANGED <<play, ctl, todo, ran, bad, ended, endPlay, playErr, ret>>
        /\ \E x \in {"none", "running", "returning"} : g' = [g EXCEPT ![h] = x]
    BY <1>18 DEF GoReturnEarly, GoBegin, GoMarkFailed, GoReturn
  <2>2. Executing /\ Executing'
    BY <1>0, <2>1 DEF Executing
  <2>3. \A k \in Hosts : g'[k] # "none" => k \in Batch
    BY <2>1 DEF TypeOK, BarrierInv
  <2>4. \A k \in Hosts \ {h} : Begun(k)' <=> Begun(k)
    BY <2>1 DEF Begun, TypeOK
  <2>5. h \in Good => (Begun(h)' <=> Begun(h)) \/ (Begun(h)' /\ endPlay)
    <3>1. CASE GoReturnEarly(h)
      BY <3>1, GoodGoOn, <2>1 DEF GoReturnEarly, Begun, TypeOK, ForksInv
    <3>2. CASE GoBegin(h) \/ GoMarkFailed(h) \/ GoReturn(h)
      BY <3>2 DEF GoBegin, GoMarkFailed, GoReturn, Begun, TypeOK
    <3> QED BY <1>18, <3>1, <3>2
  <2>6. \A k \in Good : (Begun(k)' <=> Begun(k)) \/ (Begun(k)' /\ endPlay)
    BY <2>4, <2>5 DEF Good
  <2>7. pc' = "wait" => todo' = {}
    BY <2>1 DEF BarrierInv
  <2> QED BY <2>1, <2>2, <2>3, <2>6, <2>7, InsideTask
<1>19. CASE ListFailed \/ ListEndsPlay \/ ListFlush
  <2>1. /\ pc = "after" /\ pc' \in {"final", "flush", "listEnd"} /\ ~Executing'
        /\ pc' = "final" => playErr' \/ endPlay'
        /\ pc' = "flush" => ret' = "list"
        /\ pc' # "final" => ~firstErr /\ ~endPlay
        /\ UNCHANGED <<play, lo, hi, step, phase, task, ran, bad, ended, g, endPlay>>
    BY <1>19 DEF ListFailed, ListEndsPlay, ListFlush, BeginFlush, Executing
  <2>2. Spot' = Spot /\ Earlier' = Earlier
    BY <2>1 DEF Spot, Earlier
  <2>3. \A k \in Good : k \in Batch => PlaceOf(k)'
    BY <2>1, <2>2 DEF BarrierInv, PlaceOf
  <2> QED BY <2>1, <2>3, Moves
<1>20. CASE NextList
  <2>1. /\ pc = "listEnd" /\ pc' = "list" /\ phase < 3 /\ phase' = phase + 1
        /\ UNCHANGED <<play, lo, hi, step, task, ran, bad, ended, g, endPlay, playErr>>
    BY <1>20 DEF NextList
  <2>2. Earlier' = Earlier + play.len[phase] /\ Spot' = Earlier' /\ Total' = Total
    <3>1. phase \in {1, 2} /\ phase' \in {2, 3} /\ (phase = 1 <=> phase' = 2)
      BY <2>1 DEF TypeOK, Phases
    <3>2. play.len[1] \in Nat
      BY PlayFields DEF Phases
    <3>3. Earlier' = Earlier + play.len[phase]
      <4>1. CASE phase = 1
        BY <2>1, <3>1, <3>2, <4>1 DEF Earlier
      <4>2. CASE phase = 2
        BY <2>1, <3>1, <4>2 DEF Earlier
      <4> QED BY <3>1, <4>1, <4>2
    <3> QED BY <2>1, <3>3 DEF Spot, Total
  <2>3. Good' = Good /\ Batch' = Batch /\ ~Executing'
    BY <2>1 DEF Good, Batch, Executing
  <2>4. \A k \in Good : k \in Batch => PlaceOf(k)'
    BY <2>1, <2>2, <2>3 DEF BarrierInv, PlaceOf
  <2> QED BY <2>1, <2>2, <2>3, <2>4 DEF BarrierInv
<1>21. CASE EndBatch
  <2>1. /\ pc = "listEnd" /\ phase = 3 /\ pc' \in {"final", "batch"}
        /\ pc' = "final" => playErr'
        /\ UNCHANGED <<play, lo, hi, step, phase, task, ran, bad, ended, g, endPlay>>
    BY <1>21 DEF EndBatch
  <2>2. Spot' = Spot /\ Earlier' = Earlier /\ Total' = Total /\ Earlier + play.len[phase] = Total
    BY <2>1, Sums DEF Spot, Earlier, Total
  <2>3. \A k \in Good : k \in Batch => PlaceOf(k)'
    BY <2>1, <2>2 DEF BarrierInv, PlaceOf, Executing
  <2> QED BY <2>1, <2>3, Moves DEF Executing
<1>22. CASE Final
  <2>1. /\ pc = "final" /\ pc' \in {"flush", "done"} /\ (pc' = "flush" => ret' = "final")
        /\ UNCHANGED <<play, lo, hi, step, phase, task, ran, bad, ended, g, endPlay, playErr>>
    BY <1>22 DEF Final, BeginFlush
  <2>2. Spot' = Spot
    BY <2>1 DEF Spot, Earlier
  <2>3. \A k \in Good : k \in Batch => PlaceOf(k)'
    BY <2>1, <2>2 DEF BarrierInv, PlaceOf, Executing
  <2> QED BY <2>1, <2>3, Moves DEF Executing, BarrierInv
<1>23. CASE Flushed
  <2>1. /\ pc = "flush" /\ ret \in {"list", "final"}
        /\ pc' \in {"done", "final", "listEnd"}
        /\ ret = "final" => pc' = "done" /\ (playErr => playErr')
        /\ ret = "list" => pc' = "listEnd" \/ (pc' = "final" /\ playErr')
        /\ UNCHANGED <<play, lo, hi, step, phase, task, ran, bad, ended, g, endPlay, ret>>
    BY <1>23 DEF Flushed, TypeOK
  <2>2. Spot' = Spot /\ Earlier' = Earlier /\ ~Executing'
    BY <2>1 DEF Spot, Earlier, Executing
  <2>3. \A k \in Good : k \in Batch => PlaceOf(k)'
    BY <2>1, <2>2 DEF BarrierInv, PlaceOf
  <2> QED BY <2>1, <2>2, <2>3, Moves DEF BarrierInv
<1>24. ASSUME TakePending \/ (\E p \in Pairs : SkipHandler(p) \/ RunHandler(p))
       PROVE  BarrierInv'
  <2>1. /\ pc = "flush" /\ bad \subseteq bad'
        /\ UNCHANGED <<play, ctl, conc, ran, ended, endPlay, playErr, ret>>
    BY <1>24 DEF TakePending, SkipHandler, RunHandler, Dequeue
  <2>2. CASE ret = "meta"
    <3>1. Executing /\ Executing' /\ \A k \in Good : k \in Batch => PlaceOf(k)'
      BY <2>1, <2>2 DEF Executing, BarrierInv, PlaceOf, Spot, Earlier, Begun
    <3> QED BY <2>1, <2>2, <3>1, NoResult DEF BarrierInv
  <2>3. CASE ret # "meta"
    <3>1. ~Executing' /\ \A k \in Good : k \in Batch => PlaceOf(k)'
      BY <2>1, <2>3 DEF Executing, BarrierInv, PlaceOf, Spot, Earlier
    <3> QED BY <2>1, <2>3, <3>1, Moves DEF BarrierInv
  <2> QED BY <2>2, <2>3
<1>25. CASE UNCHANGED vars
  BY <1>25 DEF vars, BarrierInv, PlaceOf, Good, Batch, Spot, Earlier, Total, Executing, Begun
<1> QED
  BY <1>1, <1>2, <1>3, <1>4, <1>5, <1>6, <1>8, <1>9, <1>11, <1>12, <1>13, <1>14, <1>15, <1>16,
     <1>17, <1>18, <1>19, <1>20, <1>21, <1>22, <1>23, <1>24, <1>25
  DEF Next, PlayStep, HostStep, Returned

LEMMA BarrierAlways == Spec => []BarrierInv
<1>1. Init => BarrierInv
  <2> SUFFICES ASSUME Init PROVE BarrierInv
    OBVIOUS
  <2>1. TypeOK
    BY TypeInit
  <2>2. Batch = {} /\ ~Executing /\ \A h \in Good : h > hi /\ ~(h < lo) /\ ran[h] = 0
    BY HostsAssumption DEF Init, Batch, Executing, Good, Hosts
  <2> QED BY <2>1, <2>2 DEF Init, BarrierInv
<1>2. TypeOK /\ TypeOK' /\ ForksInv /\ FailedInv /\ BarrierInv /\ [Next]_vars => BarrierInv'
  BY BarrierStep
<1> QED BY <1>1, <1>2, TypeCorrect, ForksAlways, FailedAlways, PTL DEF Spec

\* The linear strategy is a barrier, whatever fails, ends or ends the play, for
\* any number of hosts, forks and batches: wg.Wait and the order of the tasks keep
\* any two hosts of a batch that go on within one entry of each other.
THEOREM HostsInStep == Spec => []LockStep
<1>1. TypeOK /\ BarrierInv => LockStep
  <2> SUFFICES ASSUME TypeOK, BarrierInv, NEW h \in Active \ bad, NEW k \in Active \ bad
               PROVE  ran[h] <= ran[k] + 1
    BY DEF LockStep
  <2>1. h \in Good /\ h \in Batch /\ k \in Good /\ k \in Batch
    BY ActiveHosts DEF Good, Active
  <2>2. ran[h] \in {Spot, Spot + 1} /\ ran[k] \in {Spot, Spot + 1} /\ ran[k] \in Nat /\ ran[h] \in Nat
    BY <2>1, Sums DEF BarrierInv, PlaceOf, Good
  <2> QED BY <2>2
<1> QED BY <1>1, BarrierAlways, TypeCorrect, PTL

\* When the play returns without an error, and was not ended, every host that
\* never failed and was not ended has a result of every entry of all lists.
THEOREM NobodyLeftBehind == Spec => []NoHostLeftBehind
<1>1. BarrierInv => NoHostLeftBehind
  BY DEF BarrierInv, NoHostLeftBehind, Good, Total
<1> QED BY <1>1, BarrierAlways, PTL
=============================================================================
