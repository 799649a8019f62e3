--------------------------- MODULE HostTaskProofs ---------------------------
(***************************************************************************)
(* Proofs about HostTask, for every task and every answer of its module:   *)
(* failures are told and meant, retries are honest, what is registered and *)
(* notified agrees with what is reported, no_log and check mode are kept.  *)
(*                                                                         *)
(* The invariant behind them speaks of an item at a time: of the tries     *)
(* while it is being tried (ItemInv), of the verdict once it is judged      *)
(* (Right), and of all results before it.  Every way to end an item goes   *)
(* through Judge, so that one lemma about a verdict serves all of them.    *)
(***************************************************************************)
EXTENDS HostTask, SequenceTheorems, TLAPS

Result == [changed : BOOLEAN, failed : BOOLEAN, unreachable : BOOLEAN, ignored : BOOLEAN,
           skipped : BOOLEAN, rc : Nat, data : Data,
           output : {"none", "shown", "masked"}, attempts : Nat]

TypeInv ==
  /\ task \in Tasks
  /\ tries \in Seq(Outcome)
  /\ now \in Result
  /\ results \in Seq(Result)
  /\ past \in Seq(Seq(Outcome)) /\ Len(past) = Len(results)

-----------------------------------------------------------------------------
(* The parts of a verdict                                                   *)

LEMMA TaskTypes == TypeInv => task \in Task
  BY TasksAssumption DEF TypeInv

LEMMA NothingSaid == NoData \in Data /\ NoData.changed = {} /\ NoData.failed = {} /\ NoData.rc = {}
  BY DEF NoData, Data

LEMMA ObjectFields ==
  ASSUME NEW d \in Data
  PROVE  /\ d.changed \in SUBSET BOOLEAN /\ d.failed \in SUBSET BOOLEAN /\ d.rc \in SUBSET Nat
         /\ \A v, w \in d.rc : v = w
<1>1. d \in [changed : SUBSET BOOLEAN, failed : SUBSET BOOLEAN, rc : SUBSET Nat]
      /\ \A k \in {"changed", "failed", "rc"} : \A v, w \in d[k] : v = w
  BY DEF Data
<1>2. \A v, w \in d["rc"] : v = w
  BY <1>1
<1> QED
  BY <1>1, <1>2

LEMMA FreshResult == Fresh \in Result
  BY NothingSaid DEF Fresh, Result

LEMMA OutcomeOfStays == Stays \in Outcome /\ Refuses \in Outcome
  BY NothingSaid DEF Stays, Refuses, Outcome

\* What is known of the fields of an answer.
LEMMA OutcomeFields ==
  ASSUME NEW o \in Outcome
  PROVE  /\ o.result \in BOOLEAN /\ o.failed \in BOOLEAN /\ o.rc \in Nat /\ o.changed \in BOOLEAN
         /\ o.data \in Data /\ o.skipped \in BOOLEAN /\ o.facts \in BOOLEAN
         /\ o.err \in {"none", "error", "lost"}
         /\ o.result \/ o.err # "none"
         /\ \A n \in o.data.rc : n # 0 => o.rc # 0
  BY DEF Outcome

\* Said gives what was said, or the other value.
LEMMA SaidOne ==
  ASSUME NEW said, NEW otherwise
  PROVE  Said(said, otherwise) = otherwise \/ Said(said, otherwise) \in said
  BY DEF Said

LEMMA TaskFields ==
  ASSUME task \in Task
  PROVE  /\ task.ignore \in BOOLEAN /\ task.ignoreUnreachable \in BOOLEAN /\ task.noLog \in BOOLEAN
         /\ task.handler \in BOOLEAN /\ task.loop \in BOOLEAN /\ task.tagged \in BOOLEAN
         /\ task.items \in Seq(BOOLEAN) /\ task.retries \in Nat
         /\ task.changedWhen \in {"none", "never", "rc"} /\ task.failedWhen \in {"none", "never", "rc"}
  BY DEF Task

LEMMA ExecutionOutcome ==
  ASSUME task \in Task, NEW r \in Result, NEW o \in Outcome
  PROVE  LET s == applyExecutionOutcome(r, o) IN
         /\ s \in Result
         /\ s.output = r.output /\ s.attempts = r.attempts /\ s.rc = r.rc
         /\ s.unreachable = (r.unreachable \/ o.err = "lost")
         /\ s.failed = IF o.err = "lost" /\ task.ignoreUnreachable THEN FALSE
                       ELSE r.failed \/ (Bad(o) /\ ~task.ignore)
         /\ s.ignored = IF o.err = "lost" /\ task.ignoreUnreachable THEN TRUE
                        ELSE r.ignored \/ (Bad(o) /\ task.ignore)
<1> DEFINE s == applyExecutionOutcome(r, o)
<1>1. CASE o.err = "lost" /\ task.ignoreUnreachable
  <2>1. s = [r EXCEPT !.unreachable = TRUE, !.failed = FALSE, !.ignored = TRUE]
    BY <1>1 DEF applyExecutionOutcome, Unreachable
  <2> HIDE DEF s
  <2>2. s \in Result
    BY <2>1 DEF Result
  <2>3. /\ s.output = r.output /\ s.attempts = r.attempts /\ s.rc = r.rc
        /\ s.unreachable = TRUE /\ s.failed = FALSE /\ s.ignored = TRUE
    BY <2>1 DEF Result
  <2> QED
    BY <1>1, <2>2, <2>3 DEF s
<1>2. CASE ~(o.err = "lost" /\ task.ignoreUnreachable)
  <2> DEFINE u == r.unreachable \/ o.err = "lost"
             f == r.failed \/ (Bad(o) /\ ~task.ignore)
             g == r.ignored \/ (Bad(o) /\ task.ignore)
             k == r.skipped \/ (o.result /\ o.skipped)
  <2>1. s = [r EXCEPT !.unreachable = u, !.failed = f, !.ignored = g, !.skipped = k]
    BY <1>2 DEF applyExecutionOutcome, Unreachable
  <2>2. u \in BOOLEAN /\ f \in BOOLEAN /\ g \in BOOLEAN /\ k \in BOOLEAN
    OBVIOUS
  <2> HIDE DEF s, u, f, g, k
  <2>3. s \in Result
    BY <2>1, <2>2 DEF Result
  <2>4. /\ s.output = r.output /\ s.attempts = r.attempts /\ s.rc = r.rc
        /\ s.unreachable = u /\ s.failed = f /\ s.ignored = g
    BY <2>1 DEF Result
  <2> QED
    BY <1>2, <2>3, <2>4 DEF s, u, f, g
<1> QED
  BY <1>1, <1>2

LEMMA CopiedOutcome ==
  ASSUME NEW r \in Result, NEW o \in Outcome, NEW n \in Nat
  PROVE  LET s == Copied(r, o, n) IN
         /\ s \in Result
         /\ s.unreachable = r.unreachable /\ s.failed = r.failed /\ s.ignored = r.ignored
         /\ s.rc = IF o.result THEN o.rc ELSE r.rc
         /\ o.result => s.data = o.data
         /\ s.attempts = IF o.result THEN n ELSE r.attempts
  BY OutcomeFields DEF Copied, Result

LEMMA ConditionsApplied ==
  ASSUME task \in Task, NEW r \in Result
  PROVE  LET s == applyTaskResultConditions(r) IN
         /\ s \in Result
         /\ s.rc = r.rc /\ s.attempts = r.attempts /\ s.unreachable = r.unreachable
         /\ s.failed = IF task.failedWhen = "none" THEN r.failed
                       ELSE task.failedWhen = "rc" /\ Said(r.data.rc, r.rc) # 0 /\ ~task.ignore
         /\ task.failedWhen = "none" => s.ignored = r.ignored
<1> DEFINE s == applyTaskResultConditions(r)
           rc == Said(r.data.rc, r.rc)
           c == CASE task.changedWhen = "none"  -> r.changed
                  [] task.changedWhen = "never" -> FALSE
                  [] task.changedWhen = "rc"    -> rc # 0
           f == task.failedWhen = "rc" /\ rc # 0
<1> HIDE DEF rc
<1>1. c \in BOOLEAN
  BY TaskFields DEF Result
<1>2. CASE task.failedWhen = "none"
  <2>1. s = [r EXCEPT !.changed = c]
    BY <1>2 DEF applyTaskResultConditions, rc
  <2> HIDE DEF s, c
  <2>2. s \in Result
    BY <2>1, <1>1 DEF Result
  <2>3. /\ s.rc = r.rc /\ s.attempts = r.attempts /\ s.unreachable = r.unreachable
        /\ s.failed = r.failed /\ s.ignored = r.ignored
    BY <2>1 DEF Result
  <2> QED
    BY <1>2, <2>2, <2>3 DEF s
<1>3. CASE task.failedWhen # "none"
  <2> DEFINE p == f /\ ~task.ignore
             g == r.ignored \/ (f /\ task.ignore)
  <2>1. s = [r EXCEPT !.changed = c, !.failed = p, !.ignored = g]
    BY <1>3 DEF applyTaskResultConditions, rc
  <2>2. p \in BOOLEAN /\ g \in BOOLEAN
    OBVIOUS
  <2> HIDE DEF s, c, p, g
  <2>3. s \in Result
    BY <2>1, <2>2, <1>1 DEF Result
  <2>4. s.rc = r.rc /\ s.attempts = r.attempts /\ s.unreachable = r.unreachable /\ s.failed = p
    BY <2>1 DEF Result
  <2> QED
    BY <1>3, <2>3, <2>4 DEF s, p, rc
<1> QED
  BY <1>2, <1>3

LEMMA Masked ==
  ASSUME NEW r \in Result
  PROVE  LET s == maskNoLog(r) IN
         /\ s \in Result
         /\ s.rc = r.rc /\ s.unreachable = r.unreachable /\ s.failed = r.failed
         /\ s.ignored = r.ignored /\ s.changed = r.changed
         /\ s.attempts \in {0, r.attempts}
         /\ task.noLog => s.output = "masked" /\ s.data = NoData
  BY NothingSaid DEF maskNoLog, Result

-----------------------------------------------------------------------------
(* What is right about a result r that came of the tries ts                 *)

Final(ts) == ts[Len(ts)]

\* It tells of the failure of the last try.
Tells(r, ts) ==
  /\ ts # <<>> /\ Bad(Final(ts)) /\ task.failedWhen = "none"
  /\ Final(ts).err = "none" => ~task.handler /\ task.async # "detached"
  => r.failed \/ (r.ignored /\ (task.ignore \/ (task.ignoreUnreachable /\ r.unreachable)))

Unmet(ts) == ts # <<>> /\ (Bad(Final(ts)) \/ (task.until # "none" /\ ~evaluateUntil(Final(ts), Len(ts))))

\* It has a reason for a failure, and for being unreachable.
Means(r, ts) ==
  /\ r.failed => task.to = "nowhere" \/ (Async /\ ts = <<>>) \/ Unmet(ts)
  /\ r.unreachable /\ task.debugger = "never" => ts # <<>> /\ Final(ts).err = "lost"

\* No try was made in vain, and none was given up too early.
Tried(ts) ==
  ts # <<>> =>
    /\ Len(ts) <= Attempts
    /\ \A k \in 1..(Len(ts) - 1) : ~Enough(ts[k], k)
    /\ Enough(Final(ts), Len(ts)) \/ Len(ts) = Attempts \/ cancelled

Counts(r, ts) == ts # <<>> /\ task.debugger = "never" /\ ~cancelled => r.attempts \in {0, Len(ts)}

Hides(r) == task.noLog => r.output # "shown" /\ r.data = NoData

Right(r, ts) == Tells(r, ts) /\ Means(r, ts) /\ Tried(ts) /\ Counts(r, ts) /\ Hides(r)

\* What a verdict builds on before the item is judged.
Starting ==
  /\ ~now.failed /\ now.rc = 0
  /\ task.debugger = "never" => now = Fresh

\* The answer o, said to have taken n attempts, stands for the tries ts.
StandsFor(o, ts, n) ==
  /\ /\ ts # <<>> /\ Bad(Final(ts))
     /\ Final(ts).err = "none" => ~task.handler /\ task.async # "detached"
     => Bad(o) /\ (task.handler => o.err # "none")
  /\ Bad(o) => task.to = "nowhere" \/ (Async /\ ts = <<>>) \/ Unmet(ts)
  /\ o.err = "lost" => ts # <<>> /\ Final(ts).err = "lost"
  /\ Tried(ts)
  /\ ts # <<>> /\ ~cancelled => n \in {0, Len(ts)}

LEMMA VerdictOfTask ==
  ASSUME task \in Task, now \in Result, Starting, NEW o \in Outcome, NEW ts, NEW n \in Nat,
         StandsFor(o, ts, n)
  PROVE  Verdict(o, n) \in Result /\ Right(Verdict(o, n), ts)
<1> DEFINE a == applyExecutionOutcome(now, o)
           c == Copied(a, o, n)
           d == applyTaskResultConditions(c)
           m == maskNoLog(d)
<1>1. /\ a \in Result
      /\ a.attempts = now.attempts /\ a.rc = now.rc
      /\ a.unreachable = (now.unreachable \/ o.err = "lost")
      /\ a.failed = IF o.err = "lost" /\ task.ignoreUnreachable THEN FALSE
                    ELSE now.failed \/ (Bad(o) /\ ~task.ignore)
      /\ a.ignored = IF o.err = "lost" /\ task.ignoreUnreachable THEN TRUE
                     ELSE now.ignored \/ (Bad(o) /\ task.ignore)
  BY ExecutionOutcome
<1> HIDE DEF a
<1>2. /\ c \in Result
      /\ c.unreachable = a.unreachable /\ c.failed = a.failed /\ c.ignored = a.ignored
      /\ c.rc = IF o.result THEN o.rc ELSE a.rc
      /\ o.result => c.data = o.data
      /\ c.attempts = IF o.result THEN n ELSE a.attempts
  BY <1>1, CopiedOutcome
<1> HIDE DEF c
<1>3. /\ d \in Result
      /\ d.rc = c.rc /\ d.attempts = c.attempts /\ d.unreachable = c.unreachable
      /\ d.failed = IF task.failedWhen = "none" THEN c.failed
                    ELSE task.failedWhen = "rc" /\ Said(c.data.rc, c.rc) # 0 /\ ~task.ignore
      /\ task.failedWhen = "none" => d.ignored = c.ignored
  BY <1>2, ConditionsApplied
<1> HIDE DEF d
<1>4. /\ m \in Result
      /\ m.rc = d.rc /\ m.unreachable = d.unreachable /\ m.failed = d.failed
      /\ m.ignored = d.ignored /\ m.attempts \in {0, d.attempts}
      /\ task.noLog => m.output = "masked" /\ m.data = NoData
  BY <1>3, Masked
<1> HIDE DEF m
<1>5. Tells(m, ts)
  <2> SUFFICES ASSUME ts # <<>>, Bad(Final(ts)), task.failedWhen = "none",
                      Final(ts).err = "none" => ~task.handler /\ task.async # "detached"
               PROVE  m.failed \/ (m.ignored /\ (task.ignore \/ (task.ignoreUnreachable /\ m.unreachable)))
    BY DEF Tells
  <2>1. Bad(o)
    BY DEF StandsFor
  <2>2. m.failed = a.failed /\ m.ignored = a.ignored /\ m.unreachable = a.unreachable
    BY <1>2, <1>3, <1>4
  <2> QED
    BY <1>1, <2>1, <2>2
<1>6. Means(m, ts)
  <2>1. m.failed => Bad(o)
    <3>1. CASE task.failedWhen = "none"
      BY <1>1, <1>2, <1>3, <1>4, <3>1 DEF Starting
    <3>2. CASE task.failedWhen # "none"
      <4> SUFFICES ASSUME m.failed PROVE Bad(o)
        OBVIOUS
      <4>1. CASE o.result
        <5>1. Said(o.data.rc, o.rc) # 0
          BY <1>2, <1>3, <1>4, <3>2, <4>1
        <5>2. o.rc # 0
          BY <5>1, SaidOne, OutcomeFields
        <5> QED
          BY <4>1, <5>2 DEF Bad
      <4>2. CASE ~o.result
        BY <4>2, OutcomeFields DEF Bad
      <4> QED
        BY <4>1, <4>2
    <3> QED
      BY <3>1, <3>2
  <2>2. m.unreachable /\ task.debugger = "never" => o.err = "lost"
    <3>1. Fresh.unreachable = FALSE
      BY DEF Fresh
    <3> QED
      BY <1>1, <1>2, <1>3, <1>4, <3>1 DEF Starting
  <2> QED
    BY <2>1, <2>2 DEF Means, StandsFor
<1>7. Counts(m, ts)
  <2>1. Fresh.attempts = 0
    BY DEF Fresh
  <2> QED
    BY <1>1, <1>2, <1>3, <1>4, <2>1 DEF Counts, StandsFor, Starting
<1>8. Hides(m)
  BY <1>4 DEF Hides
<1>9. Verdict(o, n) = m
  BY DEF Verdict, m, d, c, a
<1> QED
  BY <1>4, <1>5, <1>6, <1>7, <1>8, <1>9 DEF Right, StandsFor

LEMMA VerdictOnHandler ==
  ASSUME task \in Task, task.handler, NEW o \in Outcome, NEW ts, NEW n \in Nat, StandsFor(o, ts, n)
  PROVE  VerdictOfHandler(o) \in Result /\ Right(VerdictOfHandler(o), ts)
<1> DEFINE f == o.err # "none"
           a == [Fresh EXCEPT !.failed = f]
           c == Copied(a, o, 0)
           m == maskNoLog(c)
<1>1. f \in BOOLEAN
  OBVIOUS
<1> HIDE DEF f
<1>2. /\ a \in Result
      /\ a.failed = f /\ a.ignored = FALSE /\ a.unreachable = FALSE /\ a.attempts = 0 /\ a.rc = 0
  BY <1>1, NothingSaid DEF Fresh, Result
<1> HIDE DEF a
<1>3. /\ c \in Result
      /\ c.failed = a.failed /\ c.unreachable = a.unreachable
      /\ c.attempts = IF o.result THEN 0 ELSE a.attempts
  BY <1>2, CopiedOutcome
<1> HIDE DEF c
<1>4. /\ m \in Result
      /\ m.failed = c.failed /\ m.unreachable = c.unreachable
      /\ m.attempts \in {0, c.attempts}
      /\ task.noLog => m.output = "masked" /\ m.data = NoData
  BY <1>3, Masked
<1> HIDE DEF m
<1>5. (m.failed <=> o.err # "none") /\ ~m.unreachable /\ m.attempts = 0
  <2>1. m.failed = f /\ m.unreachable = FALSE
    BY <1>2, <1>3, <1>4
  <2>2. m.attempts = 0
    BY <1>2, <1>3, <1>4
  <2> QED
    BY <2>1, <2>2 DEF f
<1>6. Tells(m, ts)
  BY <1>5 DEF Tells, StandsFor
<1>7. Means(m, ts)
  BY <1>5 DEF Means, StandsFor, Bad
<1>8. Counts(m, ts) /\ Hides(m)
  BY <1>4, <1>5 DEF Counts, Hides
<1>9. VerdictOfHandler(o) = m
  BY DEF VerdictOfHandler, m, c, a, f
<1> QED
  BY <1>4, <1>6, <1>7, <1>8, <1>9 DEF Right, StandsFor

-----------------------------------------------------------------------------
(* What is registered                                                       *)

LEMMA EntryFields ==
  ASSUME NEW r
  PROVE  /\ Entry(r).changed = Said(r.data.changed, r.changed)
         /\ Entry(r).failed = Said(r.data.failed, r.failed)
         /\ Entry(r).rc = Said(r.data.rc, r.rc)
         /\ Entry(r).output = r.output
  BY DEF Entry, mergeMap

LEMMA EntriesOf ==
  ASSUME NEW rs
  PROVE  /\ DOMAIN Summary(rs).results = DOMAIN rs
         /\ \A i \in DOMAIN rs : Summary(rs).results[i] = Entry(rs[i])
                                /\ Summary(rs).results[i].output = rs[i].output
<1>1. Summary(rs).results = [i \in DOMAIN rs |-> Entry(rs[i])]
  BY DEF Summary
<1> QED
  BY <1>1, EntryFields

\* The summary of any results tells of them.
LEMMA SummaryTells ==
  ASSUME NEW rs \in Seq(Result), rs # <<>>
  PROVE  TellsOf(Summary(rs), rs)
<1> DEFINE last == rs[Len(rs)]
           d == last.data
           reg == Summary(rs)
           c == Said(d.changed, FALSE)
           f == Said(d.failed, FALSE)
<1>1. last \in Result /\ d \in Data
  <2>1. Len(rs) \in DOMAIN rs
    OBVIOUS
  <2>2. last \in Result
    BY <2>1
  <2> HIDE DEF last
  <2> QED
    BY <2>2 DEF Result
<1>2. /\ reg.changed = (c \/ \E i \in DOMAIN rs : rs[i].changed)
      /\ reg.failed = (f \/ \E i \in DOMAIN rs : rs[i].failed)
      /\ reg.rc = Said(d.rc, last.rc)
  BY DEF Summary, mergeMap
<1>3. /\ DOMAIN reg.results = DOMAIN rs
      /\ \A i \in DOMAIN rs : reg.results[i] = Entry(rs[i])
  BY EntriesOf
<1> HIDE DEF reg
<1>4. ASSUME NEW i \in DOMAIN rs
      PROVE  /\ reg.results[i].changed # rs[i].changed => reg.results[i].changed \in rs[i].data.changed
             /\ reg.results[i].failed # rs[i].failed => reg.results[i].failed \in rs[i].data.failed
             /\ reg.results[i].rc # rs[i].rc => reg.results[i].rc \in rs[i].data.rc
  BY <1>3, EntryFields, SaidOne
<1>5. (c => TRUE \in d.changed) /\ (f => TRUE \in d.failed)
  <2>1. c = FALSE \/ c \in d.changed
    BY SaidOne
  <2>2. f = FALSE \/ f \in d.failed
    BY SaidOne
  <2>3. d.changed \in SUBSET BOOLEAN /\ d.failed \in SUBSET BOOLEAN
    BY <1>1, ObjectFields
  <2> HIDE DEF c, f, d
  <2> QED
    BY <2>1, <2>2, <2>3
<1>6. reg.rc # last.rc => reg.rc \in d.rc
  BY <1>2, SaidOne
<1>7. /\ \A i \in DOMAIN rs : (rs[i].changed => reg.changed) /\ (rs[i].failed => reg.failed)
      /\ reg.changed => TRUE \in d.changed \/ \E i \in DOMAIN rs : rs[i].changed
      /\ reg.failed => TRUE \in d.failed \/ \E i \in DOMAIN rs : rs[i].failed
  <2> HIDE DEF c, f, d
  <2> QED
    BY <1>2, <1>5
<1> QED
  BY <1>3, <1>4, <1>6, <1>7 DEF TellsOf, reg

-----------------------------------------------------------------------------
(* The invariant                                                            *)

Untried == {"begin", "item", "call", "rest", "poll", "pause"}

ItemInv ==
  /\ pc \in Untried => Starting
  /\ pc \in {"begin", "item", "poll", "pause"} => tries = <<>>
  /\ pc \in {"call", "rest"} =>
       /\ Len(tries) < Attempts
       /\ \A k \in 1..Len(tries) : ~Enough(tries[k], k)
  /\ pc = "rest" => tries # <<>>
  /\ pc = "ask" => task.debugger # "never"

\* How the module came to be run.
RunInv ==
  /\ pc = "poll" => Async
  /\ pc \in {"call", "rest"} => ~Async \/ task.async # "polled"
  /\ pc \in {"call", "rest", "poll"} => ranOn # {}
  /\ ranOn # {} => task.module # "set_fact" /\ ~LeftOut
  /\ \A r \in ranOn : r.at = task.to /\ (r.real <=> ~Told)
  /\ factsOf \subseteq {FactTarget}

VerdictInv ==
  /\ Hides(now)
  /\ pc \in {"ask", "judged"} => Right(now, tries)

ResultsRight == \A i \in DOMAIN results : Right(results[i], past[i])

Changed == {i \in DOMAIN results : results[i].changed}

SavedInv ==
  /\ pc = "begin" => results = <<>>
  /\ task.notify => notified = IF pc = "quit" THEN Changed \ {Len(results)} ELSE Changed
  /\ /\ pc \in {"over", "quit"} /\ task.register /\ ~task.handler /\ results # <<>>
     /\ task.tagged /\ task.to # "nowhere"
     /\ task.loop \/ (task.items[1] /\ pc # "quit")
     => registered = Summary(results)

AnswerInv ==
  /\ answer.by = "body" =>
       pc \in {"over", "quit"} /\ answer.results = results /\ (answer.err <=> pc = "quit")
  /\ task.noLog => /\ \A i \in DOMAIN answer.results :
                          answer.results[i].output # "shown" /\ answer.results[i].data = NoData
                   /\ \A i \in DOMAIN registered.results : registered.results[i].output # "shown"

IInv == TypeInv /\ ItemInv /\ RunInv /\ VerdictInv /\ ResultsRight /\ SavedInv /\ AnswerInv

-----------------------------------------------------------------------------
(* What is right stays right                                                *)

LEMMA RightStays ==
  ASSUME NEW r, NEW ts, Right(r, ts), task' = task, cancelled => cancelled'
  PROVE  /\ now' = r /\ tries' = ts => Right(now, tries)'
         /\ \A i : results'[i] = r /\ past'[i] = ts => Right(results[i], past[i])'
<1> USE DEF Right, Tells, Means, Tried, Counts, Hides, Unmet, Final, Bad, Async, Attempts, Enough,
            WithRetry, Builtin, evaluateUntil
<1>1. now' = r /\ tries' = ts => Right(now, tries)'
  OBVIOUS
<1>2. ASSUME NEW i, results'[i] = r, past'[i] = ts
      PROVE  Right(results[i], past[i])'
  BY <1>2
<1> QED
  BY <1>1, <1>2

LEMMA ResultsStay ==
  ASSUME ResultsRight, task' = task, cancelled => cancelled', UNCHANGED <<results, past>>
  PROVE  ResultsRight'
<1> SUFFICES ASSUME NEW i \in DOMAIN results PROVE Right(results[i], past[i])'
  BY DEF ResultsRight
<1>1. Right(results[i], past[i])
  BY DEF ResultsRight
<1> DEFINE r == results[i]
           ts == past[i]
<1>2. results'[i] = r /\ past'[i] = ts
  OBVIOUS
<1>3. Right(r, ts)
  BY <1>1
<1> HIDE DEF r, ts
<1> QED
  BY <1>2, <1>3, RightStays

LEMMA Joined ==
  ASSUME TypeInv, NEW r \in Result, results' = Append(results, r), past' = Append(past, tries)
  PROVE  /\ results' \in Seq(Result) /\ past' \in Seq(Seq(Outcome)) /\ Len(past') = Len(results')
         /\ DOMAIN results = 1..Len(results) /\ Len(results) \in Nat
         /\ DOMAIN results' = 1..(Len(results) + 1) /\ Len(results') = Len(results) + 1
         /\ \A i \in DOMAIN results : results'[i] = results[i] /\ past'[i] = past[i]
         /\ results'[Len(results) + 1] = r /\ past'[Len(results) + 1] = tries
  BY DEF TypeInv

LEMMA ResultsGrow ==
  ASSUME TypeInv, ResultsRight, NEW r \in Result, Right(r, tries), task' = task, cancelled' = cancelled,
         results' = Append(results, r), past' = Append(past, tries)
  PROVE  ResultsRight'
<1>1. /\ DOMAIN results' = 1..(Len(results) + 1) /\ DOMAIN results = 1..Len(results) /\ Len(results) \in Nat
      /\ \A i \in DOMAIN results : results'[i] = results[i] /\ past'[i] = past[i]
      /\ results'[Len(results) + 1] = r /\ past'[Len(results) + 1] = tries
  BY Joined
<1> SUFFICES ASSUME NEW i \in DOMAIN results' PROVE Right(results[i], past[i])'
  BY DEF ResultsRight
<1>2. CASE i = Len(results) + 1
  <2> DEFINE ts == tries
  <2>1. results'[i] = r /\ past'[i] = ts /\ Right(r, ts)
    BY <1>1, <1>2
  <2> HIDE DEF ts
  <2> QED
    BY <2>1, RightStays
<1>3. CASE i \in DOMAIN results
  <2> DEFINE q == results[i]
             ts == past[i]
  <2>1. results'[i] = q /\ past'[i] = ts /\ Right(q, ts)
    BY <1>1, <1>3 DEF ResultsRight
  <2> HIDE DEF q, ts
  <2> QED
    BY <2>1, RightStays
<1>4. i = Len(results) + 1 \/ i \in DOMAIN results
  BY <1>1
<1> QED
  BY <1>2, <1>3, <1>4

-----------------------------------------------------------------------------
(* The answers of a module stand for its tries                              *)

Judging ==
  \E o \in Outcome, ts \in Seq(Outcome), n \in Nat :
    /\ Judge(o, ts, n) /\ StandsFor(o, ts, n)
    /\ pc \in Untried /\ UNCHANGED ranOn

Retrying ==
  \E o \in Outcome :
    LET ts == Append(tries, o) IN
    /\ pc = "call" /\ ~Enough(o, Len(ts)) /\ Len(ts) < Attempts
    /\ tries' = ts /\ pc' \in {"rest", "call"} /\ Runs
    /\ UNCHANGED <<task, now, results, redos, past, cancelled, job, answer, saved>>

LEMMA RepliesAreOutcomes ==
  ASSUME NEW o \in Outcomes, NEW p \in Replies(o)
  PROVE  p \in Outcome
<1>1. o \in Outcome
  BY OutcomesAssumption
<1>2. CASE p = o
  BY <1>1, <1>2
<1>3. CASE o.result /\ p = Unparsed(o)
  <2> DEFINE b == o.err # "none"
             c == o.err = "none"
  <2>1. p = [o EXCEPT !.data = NoData, !.changed = c, !.failed = b, !.rc = 0]
    BY <1>3 DEF Unparsed
  <2>2. b \in BOOLEAN /\ c \in BOOLEAN
    OBVIOUS
  <2> HIDE DEF b, c
  <2>3. /\ p \in [result : BOOLEAN, failed : BOOLEAN, rc : Nat, changed : BOOLEAN, data : Data,
                  skipped : BOOLEAN, facts : BOOLEAN, err : {"none", "error", "lost"}]
        /\ p.result = o.result /\ p.data = NoData
    BY <1>1, <2>1, <2>2, NothingSaid DEF Outcome
  <2> QED
    BY <1>3, <2>3, NothingSaid DEF Outcome
<1>4. CASE o.result /\ \E d \in Objects : p = CustomModule(o, d)
  <2> PICK d \in Objects : p = CustomModule(o, d)
    BY <1>4
  <2>1. d \in Data
    BY OutcomesAssumption
  <2> DEFINE b == Said(d.failed, o.err # "none")
             c == Said(d.changed, o.err = "none")
             n == Said(d.rc, 0)
  <2>2. p = [o EXCEPT !.err = "none", !.data = d, !.rc = n, !.changed = c, !.failed = b]
    BY DEF CustomModule
  <2>3. b \in BOOLEAN
    BY <2>1, ObjectFields DEF Said
  <2>4. c \in BOOLEAN
    BY <2>1, ObjectFields DEF Said
  <2>5. n \in Nat /\ \A k \in d.rc : k = n
    <3>1. n = 0 \/ n \in d.rc
      BY SaidOne
    <3>2. d.rc # {} => n \in d.rc
      BY DEF Said
    <3> HIDE DEF n
    <3> QED
      BY <2>1, <3>1, <3>2, ObjectFields
  <2> HIDE DEF b, c, n
  <2>6. /\ p \in [result : BOOLEAN, failed : BOOLEAN, rc : Nat, changed : BOOLEAN, data : Data,
                  skipped : BOOLEAN, facts : BOOLEAN, err : {"none", "error", "lost"}]
        /\ p.result = o.result /\ p.data = d /\ p.rc = n
    BY <1>1, <2>1, <2>2, <2>3, <2>4, <2>5 DEF Outcome
  <2> QED
    BY <1>4, <2>5, <2>6 DEF Outcome
<1>5. p = o \/ (o.result /\ (p = Unparsed(o) \/ \E d \in Objects : p = CustomModule(o, d)))
  BY DEF Replies
<1> QED
  BY <1>2, <1>3, <1>4, <1>5

LEMMA NoTry ==
  ASSUME NEW o, Bad(o) => Async, o.err # "lost"
  PROVE  StandsFor(o, <<>>, 0)
  BY DEF StandsFor, Tried, Unmet

LEMMA JudgedAtOnce ==
  ASSUME TypeInv, ItemInv, RunInv, LeaveOut \/ Refuse \/ SetFact \/ PollTimeout
  PROVE  Judging
<1>1. tries = <<>> /\ pc \in Untried
  BY DEF ItemInv, LeaveOut, Refuse, SetFact, PollTimeout, Untried
<1>2. PICK o \in Outcome : Judge(o, <<>>, 0) /\ (Bad(o) => Async) /\ o.err # "lost" /\ UNCHANGED ranOn
  <2>1. CASE LeaveOut
    BY <1>1, <2>1, OutcomeOfStays DEF LeaveOut, Stays, Bad
  <2>2. CASE Refuse
    BY <1>1, <2>2, OutcomeOfStays DEF Refuse, Refuses, Stays, Bad
  <2>3. CASE SetFact
    <3> DEFINE q == [Stays EXCEPT !.facts = TRUE]
    <3>1. q \in Outcome /\ ~Bad(q) /\ q.err # "lost"
      BY NothingSaid DEF Stays, Outcome, Bad
    <3>2. Judge(q, <<>>, 0) /\ UNCHANGED ranOn
      BY <1>1, <2>3 DEF SetFact
    <3> QED
      BY <3>1, <3>2
  <2>4. CASE PollTimeout
    <3> DEFINE q == [Stays EXCEPT !.changed = TRUE, !.failed = TRUE, !.err = "error"]
    <3>1. q \in Outcome /\ q.err # "lost"
      BY NothingSaid DEF Stays, Outcome
    <3>2. Judge(q, <<>>, 0) /\ UNCHANGED ranOn /\ Async
      BY <1>1, <2>4 DEF PollTimeout, RunInv
    <3> QED
      BY <3>1, <3>2
  <2> QED
    BY <2>1, <2>2, <2>3, <2>4
<1>3. StandsFor(o, <<>>, 0)
  BY <1>2, NoTry
<1>4. <<>> \in Seq(Outcome) /\ 0 \in Nat
  OBVIOUS
<1> QED
  BY <1>1, <1>2, <1>3, <1>4 DEF Judging

LEMMA ExhaustedOutcome ==
  ASSUME task \in Task, NEW o \in Outcome, NEW n, ~Enough(o, n)
  PROVE  /\ Exhausted(o) \in Outcome /\ Bad(Exhausted(o))
         /\ WithRetry /\ ~Async /\ ~task.handler
         /\ Exhausted(o).err = "lost" => o.err = "lost"
         /\ Bad(o) \/ (task.until # "none" /\ ~evaluateUntil(o, n))
<1>1. WithRetry /\ ~Async /\ ~task.handler
  BY DEF Enough, WithRetry
<1>2. CASE task.until = "none"
  BY <1>1, <1>2 DEF Enough, Exhausted, Bad
<1>3. CASE task.until # "none"
  <2> DEFINE k == IF o.result /\ o.rc # 0 THEN o.rc ELSE 1
             c == o.result /\ o.changed
             e == Exhausted(o)
  <2>1. e = [o EXCEPT !.result = TRUE, !.failed = TRUE, !.err = "error", !.rc = k, !.changed = c]
    BY <1>3 DEF Exhausted
  <2>2. k \in Nat /\ c \in BOOLEAN /\ k # 0
    BY OutcomeFields
  <2> HIDE DEF k, c, e
  <2>3. /\ e \in [result : BOOLEAN, failed : BOOLEAN, rc : Nat, changed : BOOLEAN, data : Data,
                  skipped : BOOLEAN, facts : BOOLEAN, err : {"none", "error", "lost"}]
        /\ e.err = "error" /\ e.rc = k /\ e.result = TRUE
    BY <2>1, <2>2 DEF Outcome
  <2>5. e \in Outcome
    BY <2>2, <2>3 DEF Outcome
  <2>4. ~evaluateUntil(o, n)
    BY <1>1, <1>3 DEF Enough
  <2> QED
    BY <1>1, <1>3, <2>3, <2>4, <2>5 DEF Bad, e
<1> QED
  BY <1>2, <1>3

LEMMA DetachedOutcome ==
  ASSUME NEW o \in Outcome
  PROVE  /\ Detached(o) \in Outcome
         /\ Bad(Detached(o)) => Bad(o)
         /\ Detached(o).err = o.err
         /\ ~(Async /\ o.err = "none") => Detached(o) = o
<1> DEFINE q == [Stays EXCEPT !.changed = TRUE]
<1>1. q \in Outcome /\ ~Bad(q) /\ q.err = "none"
  BY NothingSaid DEF Stays, Outcome, Bad
<1> QED
  BY <1>1 DEF Detached

LEMMA TriesGrow ==
  ASSUME TypeInv, NEW o \in Outcome
  PROVE  LET ts == Append(tries, o) IN
         /\ ts \in Seq(Outcome) /\ ts # <<>> /\ Len(ts) = Len(tries) + 1 /\ Len(tries) \in Nat
         /\ Final(ts) = o
         /\ \A k \in 1..Len(tries) : ts[k] = tries[k]
<1> DEFINE ts == Append(tries, o)
<1>1. tries \in Seq(Outcome)
  BY DEF TypeInv
<1>2. /\ ts \in Seq(Outcome) /\ Len(ts) = Len(tries) + 1 /\ Len(tries) \in Nat
      /\ \A k \in 1..Len(tries) : ts[k] = tries[k]
  BY <1>1, AppendProperties
<1>3. ts[Len(tries) + 1] = o
  BY <1>1, AppendProperties
<1>4. ts # <<>>
  BY <1>2
<1> HIDE DEF ts
<1> QED
  BY <1>2, <1>3, <1>4 DEF Final, ts

LEMMA Answered ==
  ASSUME TypeInv, ItemInv, RunInv, NEW o \in Outcome, Answer(o)
  PROVE  Judging \/ Retrying
<1> DEFINE ts == Append(tries, o)
           n  == Len(ts)
<1>0. task \in Task /\ Attempts \in Nat
  BY TaskTypes, TaskFields DEF Attempts
<1>1. /\ ts \in Seq(Outcome) /\ ts # <<>> /\ n = Len(tries) + 1 /\ Len(tries) \in Nat
      /\ Final(ts) = o /\ \A k \in 1..Len(tries) : ts[k] = tries[k]
  BY TriesGrow
<1>2. /\ pc = "call" /\ pc \in Untried
      /\ ~Async \/ task.async # "polled"
      /\ Len(tries) < Attempts /\ \A k \in 1..Len(tries) : ~Enough(tries[k], k)
  BY DEF Answer, ItemInv, RunInv, Untried
<1>3. n <= Attempts /\ \A k \in 1..(n - 1) : ~Enough(ts[k], k)
  BY <1>0, <1>1, <1>2
<1>4. CASE /\ Enough(o, n)
           /\ Judge(Detached(o), ts, IF WithRetry /\ task.until # "none" THEN n ELSE 0)
           /\ UNCHANGED ranOn
  <2> DEFINE m == IF WithRetry /\ task.until # "none" THEN n ELSE 0
             d == Detached(o)
  <2>1. m \in Nat /\ m \in {0, n}
    BY <1>1
  <2>2. d \in Outcome /\ (Bad(d) => Bad(o)) /\ d.err = o.err /\ (~(Async /\ o.err = "none") => d = o)
    BY DetachedOutcome
  <2>3. Judge(d, ts, m) /\ UNCHANGED ranOn
    BY <1>4
  <2> HIDE DEF m, d
  <2>4. Tried(ts)
    <3> HIDE DEF ts, n
    <3> QED
      BY <1>1, <1>3, <1>4 DEF Tried, n
  <2>5. /\ Bad(o) /\ (o.err = "none" => ~task.handler /\ task.async # "detached")
        => Bad(d) /\ (task.handler => d.err # "none")
    <3> SUFFICES ASSUME Bad(o), o.err = "none" => ~task.handler /\ task.async # "detached"
                 PROVE  Bad(d) /\ (task.handler => d.err # "none")
      OBVIOUS
    <3>1. ~(Async /\ o.err = "none")
      BY <1>0, <1>2 DEF Async, Task
    <3> QED
      BY <2>2, <3>1
  <2>6. Bad(d) => Unmet(ts)
    BY <1>1, <2>2 DEF Unmet
  <2>7. StandsFor(d, ts, m)
    <3> HIDE DEF ts
    <3> QED
      BY <1>1, <2>1, <2>2, <2>4, <2>5, <2>6 DEF StandsFor
  <2> QED
    BY <1>1, <1>2, <2>1, <2>2, <2>3, <2>7 DEF Judging
<1>5. CASE /\ ~Enough(o, n) /\ n >= Attempts
           /\ Judge(Exhausted(o), ts, IF task.until # "none" THEN Attempts ELSE 0)
           /\ UNCHANGED ranOn
  <2> DEFINE m == IF task.until # "none" THEN Attempts ELSE 0
             d == Exhausted(o)
  <2>1. n = Attempts /\ m \in Nat /\ m \in {0, n}
    BY <1>0, <1>1, <1>3, <1>5
  <2>2. /\ d \in Outcome /\ Bad(d) /\ WithRetry /\ ~Async /\ ~task.handler
        /\ d.err = "lost" => o.err = "lost"
        /\ Bad(o) \/ (task.until # "none" /\ ~evaluateUntil(o, n))
    BY <1>0, <1>5, ExhaustedOutcome
  <2>3. Judge(d, ts, m) /\ UNCHANGED ranOn
    BY <1>5
  <2> HIDE DEF m, d
  <2>4. Tried(ts)
    <3> HIDE DEF ts, n
    <3> QED
      BY <1>1, <1>3, <2>1 DEF Tried, n
  <2>5. Unmet(ts)
    BY <1>1, <2>2 DEF Unmet
  <2>6. StandsFor(d, ts, m)
    <3> HIDE DEF ts
    <3> QED
      BY <1>1, <2>1, <2>2, <2>4, <2>5 DEF StandsFor
  <2> QED
    BY <1>1, <1>2, <2>1, <2>2, <2>3, <2>6 DEF Judging
<1>6. CASE /\ ~Enough(o, n) /\ n < Attempts
           /\ tries' = ts /\ pc' = IF task.delay THEN "rest" ELSE "call"
           /\ Runs
           /\ UNCHANGED <<task, now, results, redos, past, cancelled, answer, saved>>
  BY <1>2, <1>6 DEF Retrying, Answer
<1> QED
  BY <1>4, <1>5, <1>6 DEF Answer

LEMMA GivenUp ==
  ASSUME TypeInv, ItemInv, GiveUp
  PROVE  Judging
<1> DEFINE ts == tries
           o  == tries[Len(tries)]
           d  == Exhausted(o)
           m  == IF task.until # "none" THEN Attempts ELSE 0
<1>1. /\ cancelled /\ pc \in Untried /\ ts # <<>> /\ Judge(d, ts, m) /\ UNCHANGED ranOn
      /\ Len(ts) < Attempts /\ \A k \in 1..Len(ts) : ~Enough(ts[k], k)
  BY DEF ItemInv, GiveUp, Untried
<1>2. ts \in Seq(Outcome) /\ Len(ts) \in Nat \ {0} /\ o \in Outcome
  BY <1>1 DEF TypeInv
<1>3. task \in Task /\ m \in Nat
  BY TaskTypes, TaskFields DEF Attempts
<1>4. ~Enough(o, Len(ts))
  BY <1>1, <1>2
<1>5. /\ d \in Outcome /\ Bad(d) /\ WithRetry /\ ~Async /\ ~task.handler
      /\ d.err = "lost" => o.err = "lost"
      /\ Bad(o) \/ (task.until # "none" /\ ~evaluateUntil(o, Len(ts)))
  BY <1>2, <1>3, <1>4, ExhaustedOutcome
<1>6. Final(ts) = o
  BY DEF Final
<1> HIDE DEF d, m, o
<1>7. Unmet(ts)
  BY <1>1, <1>5, <1>6 DEF Unmet
<1>8. Tried(ts)
  <2>1. Len(ts) <= Attempts /\ \A k \in 1..(Len(ts) - 1) : ~Enough(ts[k], k)
    BY <1>1, <1>2, TaskTypes, TaskFields DEF Attempts
  <2> QED
    BY <1>1, <2>1 DEF Tried
<1> HIDE DEF ts
<1>9. StandsFor(d, ts, m)
  BY <1>1, <1>5, <1>6, <1>7, <1>8 DEF StandsFor
<1> QED
  BY <1>1, <1>2, <1>3, <1>5, <1>9 DEF Judging

LEMMA Polled ==
  ASSUME TypeInv, ItemInv, RunInv, NEW o \in Outcome, PollDone(o)
  PROVE  Judging
<1> DEFINE ts == Append(tries, o)
<1>1. /\ tries = <<>> /\ pc \in Untried /\ Async /\ Judge(o, ts, 0) /\ UNCHANGED ranOn
  BY DEF ItemInv, RunInv, PollDone, Untried
<1>2. ts \in Seq(Outcome) /\ ts # <<>> /\ Len(ts) = 1 /\ Final(ts) = o
  BY <1>1, TriesGrow
<1> HIDE DEF ts
<1>3. Tried(ts)
  <2>1. Enough(o, 1)
    BY <1>1 DEF Enough, WithRetry
  <2>2. Attempts \in Nat /\ 1 <= Attempts
    BY TaskTypes, TaskFields DEF Attempts
  <2> QED
    BY <1>2, <2>1, <2>2 DEF Tried
<1>4. StandsFor(o, ts, 0)
  BY <1>1, <1>2, <1>3 DEF StandsFor, Unmet, Async
<1> QED
  BY <1>1, <1>2, <1>4 DEF Judging

-----------------------------------------------------------------------------
(* The kinds of steps                                                       *)

\* Steps that touch neither the item nor the results.
Around ==
  \/ Begin \/ Call \/ TryAgain \/ Hang \/ Continue \/ Resume \/ BreakOff
  \/ Return \/ TimeOut \/ Cancel \/ JobEnds \/ UNCHANGED vars

Joining == Dismiss \/ SkipItem \/ Quit \/ EndItem

LEMMA StepKinds ==
  ASSUME IInv, [Next]_vars
  PROVE  Judging \/ Retrying \/ Joining \/ Redo \/ Around
<1>1. TypeInv /\ ItemInv /\ RunInv
  BY DEF IInv
<1>2. ASSUME NEW o \in Outcomes PROVE PollDone(o) => Judging
  <2>1. o \in Outcome
    BY OutcomesAssumption
  <2> QED
    BY <1>1, <2>1, Polled
<1>3. ASSUME NEW o \in Outcomes, NEW p \in Replies(o) PROVE Answer(p) => Judging \/ Retrying
  <2>1. p \in Outcome
    BY RepliesAreOutcomes
  <2> QED
    BY <1>1, <2>1, Answered
<1>4. LeaveOut \/ Refuse \/ SetFact \/ PollTimeout => Judging
  BY <1>1, JudgedAtOnce
<1>5. GiveUp => Judging
  BY <1>1, GivenUp
<1>6. Done => UNCHANGED vars
  BY DEF Done
<1>7. CASE Body
  BY <1>2, <1>3, <1>4, <1>5, <1>7 DEF Body, Joining, Around
<1> QED
  BY <1>6, <1>7 DEF Next, Joining, Around

LEMMA JudgingSteps ==
  ASSUME IInv, Judging
  PROVE  /\ now' \in Result /\ tries' \in Seq(Outcome)
         /\ pc \in Untried /\ pc' \in {"ask", "judged"} /\ (pc' = "ask" => task.debugger # "never")
         /\ \E r, ts : now' = r /\ tries' = ts /\ Right(r, ts)
         /\ factsOf' \subseteq factsOf \union {FactTarget}
         /\ UNCHANGED <<task, results, past, cancelled, answer, registered, notified, ranOn>>
<1>1. PICK o \in Outcome, ts \in Seq(Outcome), n \in Nat :
        Judge(o, ts, n) /\ StandsFor(o, ts, n) /\ pc \in Untried /\ UNCHANGED ranOn
  BY DEF Judging
<1>2. task \in Task /\ now \in Result /\ Starting
  BY <1>1, TaskTypes DEF IInv, TypeInv, ItemInv
<1> DEFINE r == IF task.handler THEN VerdictOfHandler(o) ELSE Verdict(o, n)
<1>3. r \in Result /\ Right(r, ts)
  BY <1>1, <1>2, VerdictOfTask, VerdictOnHandler
<1>4. /\ now' = r /\ tries' = ts
      /\ pc' = IF ~task.handler /\ shouldTriggerDebugger(r) THEN "ask" ELSE "judged"
      /\ factsOf' \subseteq factsOf \union {FactTarget}
      /\ UNCHANGED <<task, results, redos, past, cancelled, answer, registered, notified>>
  BY <1>1 DEF Judge
<1> HIDE DEF r
<1>5. shouldTriggerDebugger(r) => task.debugger # "never"
  BY DEF shouldTriggerDebugger
<1> QED
  BY <1>1, <1>3, <1>4, <1>5

LEMMA LeftUndone ==
  ASSUME NEW r \in Result, ~r.unreachable, ~(r.failed) \/ task.to = "nowhere", Hides(r)
  PROVE  Right(r, <<>>)
  BY DEF Right, Tells, Means, Tried, Counts

LEMMA JoiningSteps ==
  ASSUME IInv, Joining
  PROVE  /\ \E r \in Result : /\ Right(r, tries)
                              /\ results' = Append(results, r) /\ past' = Append(past, tries)
                              /\ \/ notified' = notified /\ ~r.changed /\ (Dismiss \/ SkipItem)
                                 \/ Quit /\ notified' = notified
                                 \/ EndItem /\ r = now
         /\ \/ now' = Fresh /\ tries' = <<>>
            \/ now' = now /\ tries' = tries
         /\ UNCHANGED <<task, cancelled, answer, factsOf, ranOn>>
<1>1. TypeInv /\ now \in Result
  BY DEF IInv, TypeInv
<1>2. CASE Dismiss
  <2>0. pc = "begin" /\ SavedInv /\ ItemInv
    BY <1>2 DEF IInv, Dismiss
  <2>1. results = <<>> /\ past = <<>> /\ tries = <<>>
    <3>1. results = <<>>
      BY <2>0 DEF SavedInv
    <3>2. tries = <<>>
      BY <2>0 DEF ItemInv
    <3>3. past \in Seq(Seq(Outcome)) /\ Len(past) = 0
      BY <1>1, <3>1 DEF TypeInv
    <3> QED
      BY <3>1, <3>2, <3>3
  <2>2. /\ Dismissal \in Result /\ ~Dismissal.changed /\ ~Dismissal.unreachable
        /\ ~(Dismissal.failed) \/ task.to = "nowhere"
        /\ Hides(Dismissal)
    BY NothingSaid DEF Dismissal, Fresh, Result, Hides
  <2>3. Right(Dismissal, tries)
    BY <2>1, <2>2, LeftUndone
  <2> DEFINE d == Dismissal
  <2>4. results' = <<d>> /\ past' = << <<>> >>
    BY <1>2 DEF Dismiss
  <2> HIDE DEF d
  <2>5. results' = Append(results, d) /\ past' = Append(past, tries)
    BY <2>1, <2>4
  <2> QED
    BY <1>2, <2>2, <2>3, <2>5 DEF Dismiss, saved, d
<1>3. CASE SkipItem
  <2> DEFINE q == [Fresh EXCEPT !.skipped = TRUE]
             r == maskNoLog(q)
  <2>1. q \in Result /\ ~q.changed /\ ~q.failed /\ ~q.unreachable /\ q.output = "none"
    BY NothingSaid DEF Fresh, Result
  <2>2. r \in Result /\ r.changed = q.changed /\ r.failed = q.failed /\ r.unreachable = q.unreachable
        /\ (task.noLog => r.output = "masked" /\ r.data = NoData)
    BY <2>1, Masked
  <2>3. tries = <<>>
    BY <1>3 DEF IInv, ItemInv, SkipItem
  <2>4. Right(r, tries)
    BY <2>1, <2>2, <2>3, LeftUndone DEF Hides
  <2>5. /\ results' = Append(results, r) /\ past' = Append(past, tries) /\ now' = Fresh /\ tries' = <<>>
        /\ UNCHANGED <<task, cancelled, answer, notified, factsOf, ranOn>>
    BY <1>3 DEF SkipItem, Keep
  <2>6. r \in Result /\ ~r.changed
    BY <2>1, <2>2
  <2> HIDE DEF r
  <2> QED
    BY <1>3, <2>4, <2>5, <2>6
<1>4. CASE Quit
  BY <1>1, <1>4 DEF Quit, IInv, VerdictInv
<1>5. CASE EndItem
  BY <1>1, <1>5 DEF EndItem, Keep, IInv, VerdictInv
<1> QED
  BY <1>2, <1>3, <1>4, <1>5 DEF Joining

LEMMA AroundSteps ==
  ASSUME Around
  PROVE  /\ UNCHANGED <<task, tries, now, results, past, notified, factsOf>>
         /\ cancelled => cancelled'
         /\ \/ UNCHANGED <<pc, registered, ranOn>> /\ (answer' = answer \/ Return \/ TimeOut)
            \/ answer' = answer /\ ~(pc \in {"over", "quit"})
               /\ \/ Begin \/ Call \/ TryAgain \/ Hang \/ Continue \/ Resume \/ BreakOff
<1> USE DEF body, saved, vars
<1>1. CASE Begin \/ Call
  BY <1>1 DEF Begin, Call
<1>2. CASE TryAgain \/ Hang \/ Continue \/ Resume \/ BreakOff
  BY <1>2 DEF TryAgain, Hang, Continue, Resume, BreakOff
<1>3. CASE Return \/ TimeOut
  BY <1>3 DEF Return, TimeOut
<1>4. CASE Cancel \/ JobEnds \/ UNCHANGED vars
  BY <1>4 DEF Cancel, JobEnds
<1> QED
  BY <1>1, <1>2, <1>3, <1>4 DEF Around

-----------------------------------------------------------------------------
(* Every step keeps the invariant                                           *)

LEMMA TypeKept ==
  ASSUME IInv, [Next]_vars
  PROVE  TypeInv'
<1>1. TypeInv
  BY DEF IInv
<1>2. CASE Judging
  BY <1>1, <1>2, JudgingSteps DEF TypeInv
<1>3. CASE Retrying
  <2>1. PICK o \in Outcome : /\ tries' = Append(tries, o)
                             /\ UNCHANGED <<task, now, results, past>>
    BY <1>3 DEF Retrying
  <2>2. tries' \in Seq(Outcome)
    BY <1>1, <2>1 DEF TypeInv
  <2> QED
    BY <1>1, <2>1, <2>2 DEF TypeInv
<1>4. CASE Joining
  <2>1. PICK r \in Result : results' = Append(results, r) /\ past' = Append(past, tries)
    BY <1>4, JoiningSteps
  <2>2. now' \in Result /\ tries' \in Seq(Outcome) /\ task' = task
    <3>1. (now' = Fresh /\ tries' = <<>>) \/ (now' = now /\ tries' = tries)
      BY <1>4, JoiningSteps
    <3>2. task' = task
      BY <1>4, JoiningSteps
    <3>3. <<>> \in Seq(Outcome)
      OBVIOUS
    <3> QED
      BY <1>1, <3>1, <3>2, <3>3, FreshResult DEF TypeInv
  <2> QED
    BY <1>1, <2>1, <2>2, Joined DEF TypeInv
<1>5. CASE Redo
  <2>1. Reset \in Result
    BY <1>1 DEF TypeInv, Reset, Result
  <2> QED
    BY <1>1, <1>5, <2>1 DEF TypeInv, Redo
<1>6. CASE Around
  BY <1>1, <1>6, AroundSteps DEF TypeInv
<1> QED
  BY <1>2, <1>3, <1>4, <1>5, <1>6, StepKinds

LEMMA ItemKept ==
  ASSUME IInv, [Next]_vars
  PROVE  ItemInv'
<1>1. TypeInv /\ ItemInv /\ task \in Task
  BY TaskTypes DEF IInv
<1>2. task' = task
  BY StepKinds, JudgingSteps, JoiningSteps, AroundSteps DEF Retrying, Redo
<1>3. Attempts \in Nat \ {0} /\ Attempts' = Attempts
  BY <1>1, <1>2, TaskFields DEF Attempts
<1>4. CASE Judging
  BY <1>4, JudgingSteps DEF ItemInv, Untried
<1>5. CASE Retrying
  <2>1. PICK o \in Outcome : /\ pc = "call" /\ ~Enough(o, Len(Append(tries, o)))
                             /\ Len(Append(tries, o)) < Attempts
                             /\ tries' = Append(tries, o) /\ pc' \in {"rest", "call"}
                             /\ now' = now
    BY <1>5 DEF Retrying
  <2>2. /\ tries' # <<>> /\ Len(tries') = Len(tries) + 1 /\ Len(tries) \in Nat
        /\ Final(tries') = o /\ \A k \in 1..Len(tries) : tries'[k] = tries[k]
    BY <1>1, <2>1, TriesGrow
  <2>3. Starting'
    BY <1>1, <1>2, <2>1 DEF ItemInv, Starting, Untried
  <2>4. ASSUME NEW k \in 1..Len(tries') PROVE ~Enough(tries'[k], k)
    <3>1. CASE k = Len(tries')
      BY <2>1, <2>2, <3>1 DEF Final
    <3>2. CASE k \in 1..Len(tries)
      BY <1>1, <2>1, <2>2, <3>2 DEF ItemInv
    <3> QED
      BY <2>2, <3>1, <3>2
  <2>5. ASSUME NEW k \in 1..Len(tries') PROVE ~Enough(tries[k], k)'
    BY <1>2, <2>4 DEF Enough, WithRetry, Async, Builtin, evaluateUntil
  <2> QED
    BY <1>3, <2>1, <2>2, <2>3, <2>5 DEF ItemInv
<1>6. CASE Joining
  <2>1. CASE Dismiss \/ Quit
    BY <2>1 DEF Dismiss, Quit, ItemInv, Untried
  <2>2. CASE SkipItem \/ EndItem
    <3>1. now' = Fresh /\ tries' = <<>> /\ pc' \in {"over", "item", "pause"}
      BY <2>2 DEF SkipItem, EndItem, Keep
    <3>2. Starting'
      BY <3>1 DEF Starting, Fresh
    <3> QED
      BY <3>1, <3>2 DEF ItemInv, Untried
  <2> QED
    BY <1>6, <2>1, <2>2 DEF Joining
<1>7. CASE Redo
  <2>1. task.debugger # "never"
    BY <1>1, <1>7 DEF ItemInv, Redo
  <2>2. ~Reset.failed /\ Reset.rc = 0
    BY <1>1 DEF Reset, TypeInv, Result
  <2>3. Starting'
    BY <1>2, <1>7, <2>1, <2>2 DEF Starting, Redo
  <2> QED
    BY <1>7, <2>3 DEF ItemInv, Redo
<1>8. CASE Around
  <2> USE DEF Starting, Enough, WithRetry, Async, Builtin, evaluateUntil, Untried
  <2>1. tries' = tries /\ now' = now
    BY <1>8, AroundSteps
  <2>2. CASE pc' = pc
    BY <1>1, <1>2, <1>3, <2>1, <2>2 DEF ItemInv
  <2>3. CASE Begin \/ Resume
    BY <1>1, <1>2, <1>3, <2>1, <2>3 DEF ItemInv, Begin, Resume
  <2>4. CASE Call
    <3>1. tries' = <<>> /\ Starting' /\ pc' \in {"call", "poll"}
      BY <1>1, <1>2, <2>1, <2>4 DEF ItemInv, Call
    <3>2. Len(tries') = 0 /\ 1..Len(tries') = {}
      BY <3>1
    <3> QED
      BY <1>3, <3>1, <3>2 DEF ItemInv
  <2>5. CASE TryAgain
    BY <1>1, <1>2, <1>3, <2>1, <2>5 DEF ItemInv, TryAgain
  <2>6. CASE Hang \/ Continue \/ BreakOff
    BY <1>1, <1>2, <1>3, <2>1, <2>6 DEF ItemInv, Hang, Continue, BreakOff
  <2> QED
    BY <1>8, <2>2, <2>3, <2>4, <2>5, <2>6, AroundSteps
<1> QED
  BY <1>4, <1>5, <1>6, <1>7, <1>8, StepKinds

LEMMA RunKept ==
  ASSUME IInv, [Next]_vars
  PROVE  RunInv'
<1>1. RunInv /\ ItemInv
  BY DEF IInv
<1>2. task' = task
  BY StepKinds, JudgingSteps, JoiningSteps, AroundSteps DEF Retrying, Redo
<1>3. UNCHANGED <<Async, LeftOut, Told, FactTarget>>
  BY <1>2 DEF Async, LeftOut, WithRetry, Builtin, isTaskCheckMode, supportsCheckMode, Told, InCheckMode,
              FactTarget
<1>4. ASSUME Runs
      PROVE  ranOn' # {} /\ (\A r \in ranOn' : r.at = task'.to /\ (r.real <=> ~Told'))
  <2> DEFINE real == ~Told
             run == [at |-> task.to, real |-> real]
  <2>1. run.at = task.to /\ run.real = real /\ ranOn' = ranOn \union {run}
    BY <1>4 DEF Runs
  <2> HIDE DEF run
  <2>2. ASSUME NEW r \in ranOn' PROVE r.at = task'.to /\ (r.real <=> ~Told')
    <3>1. CASE r = run
      BY <1>2, <1>3, <2>1, <3>1
    <3>2. CASE r \in ranOn
      BY <1>1, <1>2, <1>3, <3>2 DEF RunInv
    <3> QED
      BY <2>1, <3>1, <3>2
  <2> QED
    BY <2>1, <2>2
<1>5. CASE Judging
  BY <1>1, <1>2, <1>3, <1>5, JudgingSteps DEF RunInv
<1>6. CASE Retrying
  <2>1. pc = "call" /\ pc' \in {"rest", "call"} /\ UNCHANGED factsOf /\ Runs
    BY <1>6 DEF Retrying, saved
  <2>2. task.module # "set_fact" /\ ~LeftOut /\ (~Async \/ task.async # "polled")
    BY <1>1, <2>1 DEF RunInv
  <2> QED
    BY <1>1, <1>2, <1>3, <1>4, <2>1, <2>2 DEF RunInv
<1>7. CASE Joining
  <2>1. pc' \notin {"call", "rest", "poll"}
    BY <1>7 DEF Joining, Dismiss, SkipItem, Quit, EndItem, Keep
  <2>2. UNCHANGED <<ranOn, factsOf>>
    BY <1>7, JoiningSteps
  <2> QED
    BY <1>1, <1>2, <1>3, <2>1, <2>2 DEF RunInv
<1>8. CASE Redo
  BY <1>1, <1>2, <1>3, <1>8 DEF RunInv, Redo, saved
<1>9. CASE Around
  <2>1. factsOf' = factsOf
    BY <1>9, AroundSteps
  <2>2. CASE UNCHANGED <<pc, ranOn>>
    BY <1>1, <1>2, <1>3, <2>1, <2>2 DEF RunInv
  <2>3. CASE Begin \/ TryAgain \/ Hang \/ Continue \/ Resume \/ BreakOff
    <3>1. UNCHANGED ranOn /\ pc' \in {"over", "item", "call", "hung", "judged"}
          /\ (pc' = "call" => pc = "rest")
      BY <2>3 DEF Begin, TryAgain, Hang, Continue, Resume, BreakOff
    <3> QED
      BY <1>1, <1>2, <1>3, <2>1, <3>1 DEF RunInv
  <2>4. CASE Call
    <3>1. /\ Runs /\ task.module # "set_fact" /\ ~LeftOut
          /\ \/ pc' = "poll" /\ Async
             \/ pc' = "call" /\ ~(Async /\ task.async = "polled")
      BY <2>4 DEF Call
    <3> QED
      BY <1>1, <1>2, <1>3, <1>4, <2>1, <3>1 DEF RunInv
  <2> QED
    BY <1>9, <2>2, <2>3, <2>4, AroundSteps
<1> QED
  BY <1>5, <1>6, <1>7, <1>8, <1>9, StepKinds

LEMMA VerdictKept ==
  ASSUME IInv, [Next]_vars
  PROVE  VerdictInv'
<1>1. VerdictInv /\ TypeInv
  BY DEF IInv
<1>2. task' = task /\ (cancelled => cancelled')
  BY StepKinds, JudgingSteps, JoiningSteps, AroundSteps DEF Retrying, Redo
<1>3. CASE Judging
  <2>1. PICK r, ts : now' = r /\ tries' = ts /\ Right(r, ts)
    BY <1>3, JudgingSteps
  <2>2. Right(now, tries)'
    BY <1>2, <2>1, RightStays
  <2> QED
    BY <2>2 DEF VerdictInv, Right
<1>4. CASE Retrying
  BY <1>1, <1>2, <1>4 DEF VerdictInv, Retrying, Hides
<1>5. CASE Joining
  <2>1. now' = Fresh \/ now' = now
    BY <1>5, JoiningSteps
  <2>2. Hides(now)'
    BY <1>1, <1>2, <2>1 DEF VerdictInv, Hides, Fresh
  <2>3. pc' \notin {"ask", "judged"}
    BY <1>5 DEF Joining, Dismiss, SkipItem, Quit, EndItem, Keep
  <2> QED
    BY <2>2, <2>3 DEF VerdictInv
<1>6. CASE Redo
  <2>1. Reset.output = now.output /\ Reset.data = now.data
    BY <1>1 DEF Reset, TypeInv, Result
  <2> QED
    BY <1>1, <1>2, <1>6, <2>1 DEF VerdictInv, Hides, Redo
<1>7. CASE Around
  <2>1. now' = now /\ tries' = tries
    BY <1>7, AroundSteps
  <2>2. pc' \in {"ask", "judged"} => pc \in {"ask", "judged"}
    <3>1. CASE pc' = pc
      BY <3>1
    <3>2. CASE Begin \/ Call \/ TryAgain \/ Hang \/ Continue \/ Resume \/ BreakOff
      BY <3>2 DEF Begin, Call, TryAgain, Hang, Continue, Resume, BreakOff
    <3> QED
      BY <1>7, <3>1, <3>2, AroundSteps
  <2> DEFINE r == now
             ts == tries
  <2>3. now' = r /\ tries' = ts /\ (pc' \in {"ask", "judged"} => Right(r, ts))
    BY <1>1, <2>1, <2>2 DEF VerdictInv
  <2> HIDE DEF r, ts
  <2>4. pc' \in {"ask", "judged"} => Right(now, tries)'
    BY <1>2, <2>3, RightStays
  <2>5. Hides(now)'
    BY <1>1, <1>2, <2>1 DEF VerdictInv, Hides
  <2> QED
    BY <2>4, <2>5 DEF VerdictInv
<1> QED
  BY <1>3, <1>4, <1>5, <1>6, <1>7, StepKinds

LEMMA ResultsKept ==
  ASSUME IInv, [Next]_vars
  PROVE  ResultsRight'
<1>1. TypeInv /\ ResultsRight
  BY DEF IInv
<1>2. CASE Joining
  <2>1. PICK r \in Result : Right(r, tries) /\ results' = Append(results, r) /\ past' = Append(past, tries)
    BY <1>2, JoiningSteps
  <2>2. task' = task /\ cancelled' = cancelled
    BY <1>2, JoiningSteps
  <2> QED
    BY <1>1, <2>1, <2>2, ResultsGrow
<1>3. CASE ~Joining
  <2>1. task' = task /\ (cancelled => cancelled') /\ UNCHANGED <<results, past>>
    BY <1>3, StepKinds, JudgingSteps, AroundSteps DEF Retrying, Redo
  <2> QED
    BY <1>1, <2>1, ResultsStay
<1> QED
  BY <1>2, <1>3

LEMMA ChangedGrows ==
  ASSUME TypeInv, NEW r \in Result, results' = Append(results, r), past' = Append(past, tries)
  PROVE  /\ Changed' = IF r.changed THEN Changed \union {Len(results')} ELSE Changed
         /\ Len(results') \notin Changed /\ Len(results') = Item /\ results' # <<>>
<1>1. /\ DOMAIN results = 1..Len(results) /\ Len(results) \in Nat
      /\ DOMAIN results' = 1..(Len(results) + 1) /\ Len(results') = Len(results) + 1
      /\ \A i \in DOMAIN results : results'[i] = results[i]
      /\ results'[Len(results) + 1] = r
  BY Joined
<1>2. ASSUME NEW i \in DOMAIN results'
      PROVE  i \in Changed' <=> i \in Changed \/ (i = Len(results') /\ r.changed)
  <2>1. CASE i = Len(results')
    BY <1>1, <2>1 DEF Changed
  <2>2. CASE i \in DOMAIN results
    BY <1>1, <2>2 DEF Changed
  <2> QED
    BY <1>1, <2>1, <2>2
<1>3. Changed' \subseteq DOMAIN results' /\ Changed \subseteq DOMAIN results
  BY DEF Changed
<1>4. results' # <<>> /\ Len(results') = Item
  BY <1>1 DEF Item
<1>5. Len(results') \notin DOMAIN results /\ DOMAIN results \subseteq DOMAIN results'
  BY <1>1
<1>6. Len(results') \in DOMAIN results'
  BY <1>1
<1> HIDE DEF Changed
<1>7. CASE r.changed
  BY <1>2, <1>3, <1>4, <1>5, <1>6, <1>7
<1>8. CASE ~r.changed
  BY <1>2, <1>3, <1>4, <1>5, <1>6, <1>8
<1> QED
  BY <1>7, <1>8

LEMMA NotifiedKept ==
  ASSUME IInv, [Next]_vars, task.notify
  PROVE  notified' = IF pc' = "quit" THEN Changed' \ {Len(results')} ELSE Changed'
<1>1. TypeInv /\ notified = IF pc = "quit" THEN Changed \ {Len(results)} ELSE Changed
  BY DEF IInv, SavedInv
<1>2. CASE Joining
  <2>1. PICK r \in Result : /\ results' = Append(results, r) /\ past' = Append(past, tries)
                            /\ \/ notified' = notified /\ ~r.changed /\ (Dismiss \/ SkipItem)
                               \/ Quit /\ notified' = notified
                               \/ EndItem /\ r = now
    BY <1>2, JoiningSteps
  <2>2. /\ Changed' = IF r.changed THEN Changed \union {Len(results')} ELSE Changed
        /\ Len(results') \notin Changed /\ Len(results') = Item
    BY <1>1, <2>1, ChangedGrows
  <2>3. CASE notified' = notified /\ ~r.changed /\ (Dismiss \/ SkipItem)
    <3>1. pc # "quit" /\ pc' # "quit"
      BY <2>3 DEF Dismiss, SkipItem, Keep
    <3> QED
      BY <1>1, <2>2, <2>3, <3>1
  <2>4. CASE Quit /\ notified' = notified
    <3>1. pc # "quit" /\ pc' = "quit"
      BY <2>4 DEF Quit
    <3> QED
      BY <1>1, <2>2, <2>4, <3>1
  <2>5. CASE EndItem /\ r = now
    <3>1. /\ pc # "quit" /\ pc' # "quit"
          /\ notified' = IF task.notify /\ now.changed THEN notified \union {Item} ELSE notified
      BY <2>5 DEF EndItem, Keep, Notifies
    <3> QED
      BY <1>1, <2>2, <2>5, <3>1
  <2> QED
    BY <2>1, <2>3, <2>4, <2>5
<1>3. CASE ~Joining
  <2>1. UNCHANGED <<results, notified>> /\ (pc' = "quit" <=> pc = "quit")
    <3>1. CASE Judging
      BY <3>1, JudgingSteps DEF Untried
    <3>2. CASE Retrying \/ Redo
      BY <3>2 DEF Retrying, Redo, saved
    <3>3. CASE Around
      BY <3>3, AroundSteps DEF Begin, Call, TryAgain, Hang, Continue, Resume, BreakOff
    <3> QED
      BY <1>3, <3>1, <3>2, <3>3, StepKinds
  <2> QED
    BY <1>1, <2>1 DEF Changed
<1> QED
  BY <1>2, <1>3

LEMMA SavedKept ==
  ASSUME IInv, [Next]_vars
  PROVE  SavedInv'
<1>1. TypeInv /\ SavedInv
  BY DEF IInv
<1>2. task' = task
  BY StepKinds, JudgingSteps, JoiningSteps, AroundSteps DEF Retrying, Redo
<1>3. task.notify => notified' = IF pc' = "quit" THEN Changed' \ {Len(results')} ELSE Changed'
  BY NotifiedKept
<1>4. pc' = "begin" => results' = <<>>
  <2>1. CASE Judging \/ Retrying \/ Redo
    BY <2>1, JudgingSteps DEF Retrying, Redo
  <2>2. CASE Joining
    BY <2>2 DEF Joining, Dismiss, SkipItem, Quit, EndItem, Keep
  <2>3. CASE Around
    BY <1>1, <2>3, AroundSteps DEF SavedInv, Begin, Call, TryAgain, Hang, Continue, Resume, BreakOff
  <2> QED
    BY <2>1, <2>2, <2>3, StepKinds
<1>5. ASSUME pc' \in {"over", "quit"}, task.register, ~task.handler, results' # <<>>,
             task.tagged, task.to # "nowhere", task.loop \/ (task.items[1] /\ pc' # "quit")
      PROVE  registered' = Summary(results')
  <2>1. CASE Judging \/ Retrying \/ Redo
    BY <1>5, <2>1, JudgingSteps DEF Retrying, Redo
  <2>2. CASE Dismiss
    BY <1>5, <2>2 DEF Dismiss
  <2>3. CASE SkipItem \/ EndItem
    <3>1. IsLast /\ storeRegisteredResult(results')
      BY <1>5, <2>3 DEF SkipItem, EndItem, Keep
    <3> QED
      BY <1>5, <3>1 DEF storeRegisteredResult
  <2>4. CASE Quit
    <3>1. task.loop /\ storeRegisteredResult(results')
      BY <1>5, <2>4 DEF Quit
    <3> QED
      BY <1>5, <3>1 DEF storeRegisteredResult
  <2>5. CASE Around
    <3>1. results' = results
      BY <2>5, AroundSteps
    <3>2. CASE UNCHANGED <<pc, registered>>
      BY <1>1, <1>5, <3>1, <3>2 DEF SavedInv
    <3>3. CASE Begin
      BY <1>1, <1>5, <3>1, <3>3 DEF SavedInv, Begin
    <3>4. CASE Call \/ TryAgain \/ Hang \/ Continue \/ Resume
      BY <1>5, <3>4 DEF Call, TryAgain, Hang, Continue, Resume
    <3>5. CASE BreakOff
      BY <1>5, <3>1, <3>5 DEF BreakOff, storeRegisteredResult
    <3> QED
      BY <2>5, <3>2, <3>3, <3>4, <3>5, AroundSteps
  <2> QED
    BY <2>1, <2>2, <2>3, <2>4, <2>5, StepKinds DEF Joining
<1> QED
  BY <1>2, <1>3, <1>4, <1>5 DEF SavedInv

LEMMA AnswerKept ==
  ASSUME IInv, [Next]_vars
  PROVE  AnswerInv'
<1>1. TypeInv /\ AnswerInv /\ ResultsRight
  BY DEF IInv
<1>2. task' = task
  BY StepKinds, JudgingSteps, JoiningSteps, AroundSteps DEF Retrying, Redo
<1>3. ResultsRight'
  BY ResultsKept
<1>4. answer' = answer \/ Return \/ TimeOut
  BY StepKinds, JudgingSteps, JoiningSteps, AroundSteps DEF Retrying, Redo
<1>5. pc \in {"over", "quit"} => UNCHANGED <<pc, results>>
  <2>1. CASE Judging \/ Retrying \/ Redo
    BY <2>1, JudgingSteps DEF Retrying, Redo, Untried
  <2>2. CASE Joining
    BY <2>2 DEF Joining, Dismiss, SkipItem, Quit, EndItem
  <2>3. CASE Around
    BY <2>3, AroundSteps
  <2> QED
    BY <2>1, <2>2, <2>3, StepKinds
<1>6. answer'.by = "body" =>
        pc' \in {"over", "quit"} /\ answer'.results = results' /\ (answer'.err <=> pc' = "quit")
  <2>1. CASE answer' = answer
    BY <1>1, <1>5, <2>1 DEF AnswerInv
  <2>2. CASE Return
    <3>1. /\ answer'.results = results /\ answer'.err = (pc = "quit") /\ pc \in {"over", "quit"}
          /\ UNCHANGED <<pc, results>>
      BY <2>2 DEF Return, body
    <3> QED
      BY <3>1
  <2>3. CASE TimeOut
    BY <2>3 DEF TimeOut
  <2> QED
    BY <1>4, <2>1, <2>2, <2>3
<1>7. registered' = registered \/ registered' = Summary(results) \/ registered' = Summary(results')
  <2>1. CASE Judging \/ Retrying \/ Redo
    BY <2>1, JudgingSteps DEF Retrying, Redo, saved
  <2>2. CASE Joining
    BY <2>2 DEF Joining, Dismiss, SkipItem, Quit, EndItem, Keep, storeRegisteredResult, saved
  <2>3. CASE Around
    BY <2>3, AroundSteps DEF Begin, Call, TryAgain, Hang, Continue, Resume, BreakOff,
                             storeRegisteredResult, saved
  <2> QED
    BY <2>1, <2>2, <2>3, StepKinds
<1>8. ASSUME task.noLog
      PROVE  /\ \A i \in DOMAIN answer'.results :
                   answer'.results[i].output # "shown" /\ answer'.results[i].data = NoData
             /\ \A i \in DOMAIN registered'.results : registered'.results[i].output # "shown"
  <2>1. /\ \A i \in DOMAIN results : results[i].output # "shown" /\ results[i].data = NoData
        /\ \A i \in DOMAIN results' : results'[i].output # "shown" /\ results'[i].data = NoData
    BY <1>1, <1>2, <1>3, <1>8 DEF ResultsRight, Right, Hides
  <2>2. \A i \in DOMAIN answer'.results :
          answer'.results[i].output # "shown" /\ answer'.results[i].data = NoData
    <3>1. CASE answer' = answer
      BY <1>1, <1>8, <3>1 DEF AnswerInv
    <3>2. CASE Return
      BY <2>1, <3>2 DEF Return
    <3>3. CASE TimeOut
      <4> DEFINE f == ~task.ignore
                 q == [Fresh EXCEPT !.failed = f, !.rc = 124]
      <4>1. answer'.results = <<q>> /\ q.output = "none" /\ q.data = NoData
        BY <3>3 DEF TimeOut, Fresh
      <4> HIDE DEF q
      <4> QED
        BY <4>1
    <3> QED
      BY <1>4, <3>1, <3>2, <3>3
  <2>3. \A i \in DOMAIN registered'.results : registered'.results[i].output # "shown"
    <3>1. CASE registered' = registered
      BY <1>1, <1>8, <3>1 DEF AnswerInv
    <3>2. CASE registered' = Summary(results)
      BY <2>1, <3>2, EntriesOf
    <3>3. CASE registered' = Summary(results')
      BY <2>1, <3>3, EntriesOf
    <3> QED
      BY <1>7, <3>1, <3>2, <3>3
  <2> QED
    BY <2>2, <2>3
<1> QED
  BY <1>2, <1>6, <1>8 DEF AnswerInv

LEMMA InvStarts == Init => IInv
<1> SUFFICES ASSUME Init PROVE IInv
  OBVIOUS
<1> USE DEF Init
<1>1. TypeInv
  BY FreshResult DEF TypeInv
<1>2. ItemInv
  BY DEF ItemInv, Starting, Fresh, Untried
<1>3. RunInv
  BY DEF RunInv
<1>4. VerdictInv
  BY DEF VerdictInv, Hides, Fresh
<1>5. ResultsRight
  BY DEF ResultsRight
<1>6. SavedInv
  <2>1. Changed = {}
    BY DEF Changed
  <2> QED
    BY <2>1 DEF SavedInv
<1>7. AnswerInv
  BY DEF AnswerInv, NoAnswer, Nothing
<1> QED
  BY <1>1, <1>2, <1>3, <1>4, <1>5, <1>6, <1>7 DEF IInv

LEMMA InvHolds == Spec => []IInv
<1>1. Init => IInv
  BY InvStarts
<1>2. IInv /\ [Next]_vars => IInv'
  BY TypeKept, ItemKept, RunKept, VerdictKept, ResultsKept, SavedKept, AnswerKept DEF IInv
<1> QED
  BY <1>1, <1>2, PTL DEF Spec

-----------------------------------------------------------------------------
(* The theorems                                                             *)

LEMMA JudgedRight ==
  ASSUME IInv, NEW i \in Judged
  PROVE  i \in DOMAIN results /\ past[i] # <<>> /\ Right(results[i], past[i]) /\ Last(i) = Final(past[i])
  BY DEF IInv, ResultsRight, Judged, Last, Final

\* Whatever retries, conditions, debugger and no_log do in between, a result
\* whose last try went wrong says so: applyTaskExecutionOutcome and what
\* executeTaskWithEnv does with its answer lose no failure.
THEOREM FailuresAreTold == Spec => []FailuresTold
<1>1. IInv => FailuresTold
  <2> SUFFICES ASSUME IInv PROVE FailuresTold
    OBVIOUS
  <2> SUFFICES ASSUME NEW i \in Judged, Bad(Last(i)), task.failedWhen = "none",
                      Last(i).err = "none" => ~task.handler /\ task.async # "detached"
               PROVE  results[i].failed \/ (results[i].ignored
                        /\ (task.ignore \/ (task.ignoreUnreachable /\ results[i].unreachable)))
    BY DEF FailuresTold
  <2> DEFINE r == results[i]
             ts == past[i]
  <2>1. ts # <<>> /\ Right(r, ts) /\ Last(i) = Final(ts)
    BY JudgedRight
  <2> HIDE DEF r, ts
  <2>2. r.failed \/ (r.ignored /\ (task.ignore \/ (task.ignoreUnreachable /\ r.unreachable)))
    BY <2>1 DEF Right, Tells
  <2> QED
    BY <2>2 DEF r
<1> QED
  BY <1>1, InvHolds, PTL

\* A result is failed, or unreachable, only for a reason: nothing left over
\* from an earlier item or try, and no condition that was not asked, fails it.
THEOREM FailuresAreMeant == Spec => []FailuresMeant
<1>1. IInv => FailuresMeant
  <2> SUFFICES ASSUME IInv, NEW i \in DOMAIN results
               PROVE  /\ results[i].failed =>
                           \/ task.to = "nowhere" \/ (Async /\ past[i] = <<>>)
                           \/ /\ past[i] # <<>>
                              /\ Bad(Last(i)) \/ (task.until # "none" /\ ~evaluateUntil(Last(i), Len(past[i])))
                      /\ results[i].unreachable /\ task.debugger = "never" => Last(i).err = "lost"
    BY DEF FailuresMeant
  <2>1. Means(results[i], past[i]) /\ Last(i) = Final(past[i])
    BY DEF IInv, ResultsRight, Right, Last, Final
  <2> QED
    BY <2>1 DEF Means, Unmet
<1> QED
  BY <1>1, InvHolds, PTL

\* executeWithRetry stops at the first try that settles the matter, gives up
\* only when the tries are used up or the run is cancelled, and counts them.
THEOREM RetriesAreHonest == Spec => []RetriesHonest
<1>1. IInv => RetriesHonest
  <2> SUFFICES ASSUME IInv, NEW i \in Judged
               PROVE  LET n == Len(past[i]) IN
                      /\ n <= Allowed
                      /\ \A k \in 1..(n - 1) : ~Enough(past[i][k], k)
                      /\ Enough(Last(i), n) \/ n = Allowed \/ cancelled
                      /\ task.debugger = "never" /\ ~cancelled => results[i].attempts \in {0, n}
    BY DEF RetriesHonest
  <2>1. past[i] # <<>> /\ Right(results[i], past[i]) /\ Last(i) = Final(past[i])
    BY JudgedRight
  <2>2. Allowed = Attempts
    BY TaskTypes, TaskFields DEF IInv, Allowed, Attempts
  <2> QED
    BY <2>1, <2>2 DEF Right, Tried, Counts
<1> QED
  BY <1>1, InvHolds, PTL

\* What a task leaves behind agrees with what its body reports: the registered
\* variable (storeRegisteredResult), but for the keys the data of a result
\* names itself, the notified handlers, the host it acted on and the host its
\* facts were written for (factTargetHost).
THEOREM ResultsDoAgree == Spec => []ResultsAgree
<1>1. IInv => ResultsAgree
  <2> SUFFICES ASSUME IInv PROVE ResultsAgree
    OBVIOUS
  <2>1. AnswerInv /\ SavedInv /\ RunInv
    BY DEF IInv
  <2>2. RegisterAgrees
    <3> SUFFICES ASSUME answer.by = "body", task.register, ~task.handler, results # <<>>,
                        task.tagged, task.to # "nowhere", task.loop \/ (task.items[1] /\ ~answer.err)
                 PROVE  TellsOf(registered, answer.results)
      BY DEF RegisterAgrees
    <3>1. registered = Summary(results) /\ answer.results = results
      BY <2>1 DEF AnswerInv, SavedInv
    <3>2. results \in Seq(Result)
      BY DEF IInv, TypeInv
    <3> QED
      BY <3>1, <3>2, SummaryTells
  <2>3. NotifiedIffChanged
    BY <2>1 DEF AnswerInv, SavedInv, NotifiedIffChanged, Changed
  <2>4. ActsWhereAsked
    BY <2>1 DEF RunInv, ActsWhereAsked, FactTarget
  <2> QED
    BY <2>2, <2>3, <2>4 DEF ResultsAgree
<1> QED
  BY <1>1, InvHolds, PTL

\* Under no_log nothing the module said is in the results returned, nor in the
\* registered variable, on any path through maskNoLogResult.
THEOREM SecretsAreKept == Spec => []SecretsKept
<1>1. IInv => SecretsKept
  BY DEF IInv, AnswerInv, SecretsKept
<1> QED
  BY <1>1, InvHolds, PTL

\* In check mode no module acts on the host, and a task that is exempt is run
\* for real (isTaskCheckMode, supportsCheckMode), but for async tasks, reboot
\* and handlers.
THEOREM DryRunsStayDry == Spec => []DryRunsAreDry
<1>1. IInv => DryRunsAreDry
  <2> SUFFICES ASSUME IInv, NEW r \in ranOn
               PROVE  /\ AskedDry /\ ~Async /\ task.module # "reboot"
                           /\ (task.handler => task.option /\ task.module \in supportsCheckMode)
                         => ~r.real
                      /\ ~AskedDry /\ ~task.handler => r.real
    BY DEF DryRunsAreDry
  <2>1. (r.real <=> ~Told) /\ task.module # "set_fact" /\ ~LeftOut /\ task \in Task
    BY TaskTypes DEF IInv, RunInv
  <2>2. ~task.handler => (AskedDry <=> isTaskCheckMode)
    BY <2>1 DEF AskedDry, isTaskCheckMode, Task
  <2>3. CASE task.handler
    BY <2>1, <2>3 DEF Told, InCheckMode
  <2>4. CASE ~task.handler
    BY <2>1, <2>2, <2>4 DEF Told, InCheckMode, LeftOut, WithRetry, Async, Builtin
  <2> QED
    BY <2>3, <2>4
<1> QED
  BY <1>1, InvHolds, PTL
=============================================================================
