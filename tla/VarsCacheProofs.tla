--------------------------- MODULE VarsCacheProofs ---------------------------
(***************************************************************************)
(* Proofs about VarsCache: its types, the two maps of host variables that  *)
(* agree, and that later tasks see what tasks that have ended wrote.       *)
(*                                                                         *)
(* The invariant behind it: whatever a cache holds, or a goroutine is      *)
(* about to put into it, is at least as new as what tasks that have ended  *)
(* wrote (GroupsKeepUp, HostVarsKeepUp).  A fill may read an old version,  *)
(* but as long as its lock is held the task that wrote a newer one cannot  *)
(* invalidate and therefore not end.                                       *)
(***************************************************************************)
EXTENDS VarsCache, TLAPS

Filling(t) == pc[t] \in {"fill", "facts"}

\* Only one goroutine fills in host variables; it puts into base what snap lacks.
FillInv ==
  /\ \A t, u \in Threads : Filling(t) /\ Filling(u) => t = u
  /\ \A h \in DOMAIN snap : h \in DOMAIN base /\ base[h] = snap[h]
  /\ HostVarsFree => DOMAIN base = DOMAIN snap
  /\ \A t \in Threads : Filling(t) =>
       /\ todo[t] \subseteq listed[t] \ DOMAIN snap
       /\ DOMAIN base = DOMAIN snap \union (listed[t] \ todo[t])

\* Nothing is newer than its source.
SourceAhead ==
  /\ done.inv <= invVer
  /\ \A h \in Hosts : done.facts[h] <= factVer[h]
  /\ \A t \in Threads :
       /\ wrote[t].inv <= invVer /\ wrote[t].facts <= factVer[wrote[t].host]
       /\ pc[t] = "dropHost" => wrote[t].inv = 0
       /\ floor[t].inv <= done.inv
       /\ \A h \in Hosts : floor[t].facts[h] <= done.facts[h]

\* v is as new as what ended tasks wrote, and those that have invalidated the groups.
Fresh(v) == v >= done.inv /\ \A t \in Threads : pc[t] = "dropAll" => v >= wrote[t].inv

GroupsKeepUp ==
  /\ groups # NoGroups => Fresh(groups.all) /\ Fresh(groups.members)
  /\ \A t \in Threads : pc[t] = "collect" => Fresh(found[t])

\* v is as new as n, or of an inventory that was replaced while somebody held its hosts.
OwnFresh(v, n) == v >= n \/ (v = Stale /\ overtaken)

HostVarsKeepUp ==
  /\ \A h \in DOMAIN base :
       /\ base[h].inv >= done.inv /\ base[h].facts >= done.facts[h]
       /\ OwnFresh(base[h].own, done.inv)
  /\ \A t \in Threads : pc[t] = "facts" => found[t] >= done.inv /\ OwnFresh(own[t], done.inv)

\* Whoever holds hosts of an inventory that was replaced held them when it was.
HeldInv == \A t \in Threads : HoldsHosts(t) /\ from[t] # loads => overtaken

Sees(t) ==
  /\ \A g \in {seen[t].groups, seen[t].names} \ {NoGroups} :
       g.all >= floor[t].inv /\ g.members >= floor[t].inv
  /\ \A h \in DOMAIN seen[t].hosts : HostSeen(seen[t].hosts[h], h, t)

Writing == {"idle", "newHost", "addHost", "newGroup", "dropHost", "dropGroups", "dropAll"}

SeenInv == \A t \in Threads : Sees(t) /\ (pc[t] \in Writing => seen[t] = Nothing)

\* Who has made sure of the groups has them, unless they were invalidated since; and so
\* has who has read them.
Given(t) ==
  LET after == {"hosts", "fast", "slow", "fill", "facts", "run"}
  IN /\ pc[t] = "again" => groups # NoGroups \/ t \in shaken
     /\ pc[t] \notin {"look", "ensure", "collect", "again"} => view[t] = "groups"
     /\ view[t] = "names" \/ pc[t] \in after => seen[t].groups # NoGroups \/ t \in shaken
     /\ pc[t] \in after => seen[t].names # NoGroups \/ t \in shaken

GivenInv == \A t \in Threads : Given(t)

IInv == /\ TypeOK /\ FillInv /\ SourceAhead /\ GroupsKeepUp
        /\ HeldInv /\ HostVarsKeepUp /\ SeenInv /\ GivenInv

-----------------------------------------------------------------------------
(* The parts of steps                                                       *)

LEMMA ZeroMark == Zero \in Marks
BY DEF Zero, Marks

LEMMA UnwrittenType == Unwritten \in [host : Hosts, facts : Nat, inv : Nat]
BY HostsAssumption DEF Unwritten

LEMMA NewFactsType ==
  ASSUME SourceOK, NEW h \in Hosts, NewFacts(h)
  PROVE  /\ factVer' \in [Hosts -> Nat]
         /\ \A g \in Hosts : factVer'[g] >= factVer[g]
BY DEF SourceOK, NewFacts

LEMMA WroteType ==
  ASSUME SourceOK, factVer' \in [Hosts -> Nat], NEW t \in Threads, NEW h \in Hosts, NEW i \in Nat,
         Wrote(t, h, i)
  PROVE  wrote' \in [Threads -> [host : Hosts, facts : Nat, inv : Nat]]
BY DEF SourceOK, Wrote

LEMMA BeginType ==
  ASSUME SourceOK, NEW t \in Threads, NEW op, Begin(t, op)
  PROVE  done' \in Marks /\ floor' \in [Threads -> Marks] /\ shaken' \subseteq Threads
BY ZeroMark DEF SourceOK, Begin

LEMMA EndTaskType ==
  ASSUME SourceOK, NEW t \in Threads, EndTask(t)
  PROVE  /\ done' \in Marks
         /\ wrote' \in [Threads -> [host : Hosts, facts : Nat, inv : Nat]]
<1>1. wrote[t] \in [host : Hosts, facts : Nat, inv : Nat] /\ done \in Marks
  BY DEF SourceOK
<1>2. \A a, b \in Nat : Newer(a, b) \in Nat
  BY DEF Newer
<1>3. done.inv \in Nat /\ done.facts \in [Hosts -> Nat]
  BY <1>1 DEF Marks
<1>4. wrote[t].inv \in Nat /\ wrote[t].facts \in Nat /\ wrote[t].host \in Hosts
  BY <1>1
<1>5. [done.facts EXCEPT ![wrote[t].host] = Newer(@, wrote[t].facts)] \in [Hosts -> Nat]
  BY <1>2, <1>3, <1>4
<1>6. Newer(done.inv, wrote[t].inv) \in Nat
  BY <1>2, <1>3, <1>4
<1>7. done' \in Marks
  BY <1>5, <1>6 DEF EndTask, Marks
<1> QED BY <1>7, UnwrittenType DEF EndTask, SourceOK

-----------------------------------------------------------------------------
(* The initial state                                                        *)

LEMMA InitIInv == Init => IInv
<1> SUFFICES ASSUME Init PROVE IInv
  OBVIOUS
<1> USE HostsAssumption, InventoryAssumption, TasksAssumption DEF Init
<1>1. SourceOK
  BY ZeroMark, UnwrittenType DEF SourceOK
<1>7. ControlOK
  BY DEF ControlOK
<1>2. CachesOK
  BY DEF CachesOK, IsGroups, IsEntries, IsSeen, Nothing
<1>3. FillingOK /\ FillInv
  BY DEF FillingOK, FillInv, Filling, Nothing
<1>4. SourceAhead
  BY DEF SourceAhead, Zero, Unwritten
<1>5. GroupsKeepUp /\ HostVarsKeepUp /\ HeldInv
  BY DEF GroupsKeepUp, HostVarsKeepUp, HeldInv, HoldsHosts, Nothing
<1>6. SeenInv /\ GivenInv
  BY DEF SeenInv, Sees, GivenInv, Given, Nothing
<1> QED BY <1>1, <1>2, <1>3, <1>4, <1>5, <1>6, <1>7 DEF IInv, TypeOK

-----------------------------------------------------------------------------
(* Types                                                                    *)

LEMMA SourceStep ==
  ASSUME SourceOK, ControlOK, NEW t \in Threads, Step(t)
  PROVE  SourceOK'
<1> USE HostsAssumption, InventoryAssumption DEF source, reading, filling, listing, writing, history
<1>1. CASE Start(t)
  BY <1>1 DEF Start, SourceOK
<1>2. CASE Look(t) \/ Ensure(t) \/ Collect(t) \/ Again(t)
  BY <1>2 DEF Look, Ensure, Collect, Again, SourceOK
<1>3. CASE List(t) \/ Fast(t) \/ Slow(t) \/ Fill(t) \/ Facts(t)
  BY <1>3 DEF List, Fast, Slow, Fill, Facts, SourceOK
<1>4. ASSUME NEW h \in known, SetFact(t, h)
      PROVE  SourceOK'
  <2>1. h \in Hosts /\ NewFacts(h) /\ Begin(t, "set_fact") /\ Wrote(t, h, 0)
    BY <1>4 DEF SetFact, SourceOK
  <2>2. factVer' \in [Hosts -> Nat]
    BY <2>1, NewFactsType
  <2>3. wrote' \in [Threads -> [host : Hosts, facts : Nat, inv : Nat]]
    BY <2>1, <2>2, WroteType
  <2> QED BY <1>4, <2>1, <2>2, <2>3, BeginType DEF SetFact, SourceOK
<1>5. CASE ClearFacts(t)
  <2>1. t \in Hosts /\ NewFacts(t) /\ Begin(t, "clear_facts") /\ Wrote(t, t, 0)
    BY <1>5 DEF ClearFacts
  <2>2. factVer' \in [Hosts -> Nat]
    BY <2>1, NewFactsType
  <2>3. wrote' \in [Threads -> [host : Hosts, facts : Nat, inv : Nat]]
    BY <2>1, <2>2, WroteType
  <2> QED BY <1>5, <2>1, <2>2, <2>3, BeginType DEF ClearFacts, SourceOK
<1>6. ASSUME NEW op, WithoutInvalidating(t, op)
      PROVE  SourceOK'
  <2>1. t \in Hosts /\ NewFacts(t) /\ Begin(t, op)
    BY <1>6 DEF WithoutInvalidating
  <2> QED BY <1>6, <2>1, NewFactsType, BeginType DEF WithoutInvalidating, SourceOK
<1>7. CASE Delegate(t)
  <2>1. Begin(t, "delegate")
    BY <1>7 DEF Delegate
  <2> QED BY <1>7, <2>1, BeginType DEF Delegate, SourceOK
<1>8. CASE TakeInventory(t)
  <2>1. done' \in Marks /\ floor' \in [Threads -> Marks] /\ shaken' \subseteq Threads
    BY <1>8, BeginType DEF TakeInventory
  <2> QED BY <1>8, <2>1 DEF TakeInventory, SourceOK
<1>9. ASSUME NEW h \in Hosts, NewHost(t, h)
      PROVE  SourceOK'
  <2>1. invVer' \in Nat /\ NewFacts(h)
    BY <1>9 DEF NewHost, SourceOK
  <2>2. factVer' \in [Hosts -> Nat]
    BY <2>1, NewFactsType
  <2>3. PICK i \in Nat : Wrote(t, h, i)
    BY <1>9, <2>1 DEF NewHost
  <2>4. wrote' \in [Threads -> [host : Hosts, facts : Nat, inv : Nat]]
    BY <2>2, <2>3, WroteType
  <2> QED BY <1>9, <2>1, <2>2, <2>4 DEF NewHost, SourceOK
<1>10. CASE AddHost(t) \/ AddGroup(t)
  BY <1>10 DEF AddHost, AddGroup, Change, SourceOK
<1>11. CASE Refresh(t)
  <2>1. Begin(t, "refresh") /\ invVer' \in Nat
    BY <1>11 DEF Refresh, SourceOK
  <2>2. wrote' \in [Threads -> [host : Hosts, facts : Nat, inv : Nat]]
    BY <1>11, <2>1, UnwrittenType DEF Refresh, SourceOK
  <2> QED BY <1>11, <2>1, <2>2, BeginType DEF Refresh, SourceOK
<1>12. CASE DropGroups(t)
  BY <1>12 DEF DropGroups, SourceOK
<1>13. CASE DropHost(t) \/ DropAll(t)
  BY <1>13, EndTaskType DEF DropHost, DropAll, SourceOK
<1> QED BY <1>1, <1>2, <1>3, <1>4, <1>5, <1>6, <1>7, <1>8, <1>9, <1>10, <1>11, <1>12, <1>13
        DEF Step, Rescue, Reboot

LEMMA ControlStep ==
  ASSUME SourceOK, ControlOK, NEW t \in Threads, Step(t)
  PROVE  ControlOK'
<1> USE DEF source, reading, filling, listing, writing, history, ControlOK, Goto
<1>1. CASE Start(t)
  BY <1>1, TasksAssumption DEF Start
<1>2. CASE Look(t) \/ Again(t)
  BY <1>2 DEF Look, Again, Got
<1>12. CASE Ensure(t)
  <2>1. invVer \in Nat /\ found' \in [Threads -> Nat]
    BY <1>12 DEF Ensure, SourceOK
  <2> QED BY <1>12, <2>1 DEF Ensure
<1>16. CASE Collect(t)
  BY <1>16 DEF Collect
<1>3. CASE List(t)
  <2>1. listed' \in [Threads -> SUBSET Hosts] /\ from' \in [Threads -> Nat]
    BY <1>3 DEF List, SourceOK
  <2> QED BY <1>3, <2>1 DEF List
<1>17. CASE Fast(t)
  BY <1>17 DEF Fast, Return
<1>13. CASE Slow(t)
  BY <1>13 DEF Slow, Missing, Return
<1>14. CASE Fill(t)
  BY <1>14 DEF Fill, SourceOK
<1>15. CASE Facts(t)
  BY <1>15 DEF Facts, Return
<1>4. ASSUME NEW h \in known, SetFact(t, h)
      PROVE  ControlOK'
  BY <1>4 DEF SetFact, Begin
<1>5. CASE ClearFacts(t) \/ Rescue(t) \/ Reboot(t) \/ Delegate(t)
  BY <1>5 DEF ClearFacts, Rescue, Reboot, WithoutInvalidating, Delegate, Begin
<1>6. CASE TakeInventory(t)
  BY <1>6 DEF TakeInventory, Begin
<1>7. ASSUME NEW h \in Hosts, NewHost(t, h)
      PROVE  ControlOK'
  BY <1>7 DEF NewHost
<1>8. CASE AddHost(t) \/ AddGroup(t)
  BY <1>8 DEF AddHost, AddGroup, Change
<1>9. CASE Refresh(t)
  BY <1>9 DEF Refresh, Begin
<1>10. CASE DropGroups(t)
  BY <1>10 DEF DropGroups
<1>11. CASE DropHost(t) \/ DropAll(t)
  BY <1>11 DEF DropHost, DropAll, EndTask
<1> QED BY <1>1, <1>2, <1>3, <1>4, <1>5, <1>6, <1>7, <1>8, <1>9, <1>10, <1>11, <1>12, <1>13,
           <1>14, <1>15, <1>16, <1>17 DEF Step

\* What filling in one host does to the two maps.
LEMMA FactsFills ==
  ASSUME TypeOK, FillInv, NEW t \in Threads, Facts(t)
  PROVE  \E h \in todo[t] :
           /\ h \in Hosts /\ h \notin DOMAIN base
           /\ IsEntries(base') /\ DOMAIN base' = DOMAIN base \union {h}
           /\ base'[h] = [inv |-> found[t], own |-> own[t], facts |-> factVer[h]]
           /\ \A g \in DOMAIN base : base'[g] = base[g]
           /\ todo' = [todo EXCEPT ![t] = @ \ {h}]
           /\ \/ /\ todo[t] = {h} /\ IsEntries(snap') /\ snap' = base'
                 /\ Return(t, snap')
              \/ todo[t] # {h} /\ UNCHANGED <<snap, seen, listing>> /\ Goto(t, "fill")
<1> DEFINE New(h)  == [inv |-> found[t], own |-> own[t], facts |-> factVer[h]]
           Now(h)  == With(base, [g \in {h} |-> New(h)], {h})
           Full(h) == With(snap, Now(h), listed[t] \ DOMAIN snap)
<1>1. IsEntries(base) /\ IsEntries(snap)
  BY DEF TypeOK, CachesOK
<1>2. pc[t] = "facts" /\ Filling(t)
  BY DEF Facts, Filling
<1>3. todo[t] \subseteq Hosts /\ todo[t] \intersect DOMAIN base = {} /\ listed[t] \subseteq Hosts
  BY DEF TypeOK, FillingOK, ControlOK
<1>4. PICK h \in todo[t] :
        /\ base' = Now(h)
        /\ todo' = [todo EXCEPT ![t] = @ \ {h}]
        /\ IF todo[t] = {h} THEN snap' = Full(h) /\ Return(t, Full(h))
           ELSE Goto(t, "fill") /\ UNCHANGED <<snap, seen, listing>>
  BY <1>3 DEF Facts, First
<1>5. h \in Hosts /\ h \notin DOMAIN base
  BY <1>3
<1>6. DOMAIN base' = DOMAIN base \union {h}
  BY <1>4 DEF With
<1>7. base'[h] = New(h) /\ \A g \in DOMAIN base : base'[g] = base[g]
  BY <1>4, <1>5 DEF With
<1>8. New(h) \in Versions
  BY <1>5 DEF Versions, TypeOK, SourceOK, ControlOK
<1>9. IsEntries(base')
  <2>1. base' = [g \in DOMAIN base' |-> base'[g]]
    BY <1>4 DEF With
  <2>2. \A g \in DOMAIN base' : base'[g] \in Versions
    BY <1>1, <1>6, <1>7, <1>8 DEF IsEntries
  <2> QED BY <1>1, <1>5, <1>6, <2>1, <2>2 DEF IsEntries
<1>10. ASSUME todo[t] = {h} PROVE Full(h) = base'
  <2>1. DOMAIN base = DOMAIN snap \union (listed[t] \ {h}) /\ h \in listed[t] \ DOMAIN snap
    BY <1>2, <1>10 DEF FillInv
  <2>2. DOMAIN Full(h) = DOMAIN base'
    BY <1>6, <2>1 DEF With
  <2>3. \A g \in DOMAIN snap : g \in DOMAIN base /\ base[g] = snap[g]
    BY DEF FillInv
  <2>4. \A g \in DOMAIN base' : Full(h)[g] = base'[g]
    BY <1>4, <1>6, <1>7, <2>1, <2>3 DEF With
  <2>5. Full(h) = [g \in DOMAIN Full(h) |-> Full(h)[g]] /\ base' = [g \in DOMAIN base' |-> base'[g]]
    BY <1>4 DEF With
  <2> QED BY <2>2, <2>4, <2>5
<1> QED BY <1>4, <1>5, <1>6, <1>7, <1>9, <1>10

LEMMA CachesStep ==
  ASSUME TypeOK, FillInv, NEW t \in Threads, Step(t)
  PROVE  CachesOK'
<1> USE DEF source, caches, reading, filling, listing, writing, history
<1>1. IsGroups(groups) /\ IsEntries(base) /\ IsEntries(snap)
  BY DEF TypeOK, CachesOK
<1>2. DOMAIN seen = Threads /\ \A u \in Threads : IsSeen(seen[u])
  BY DEF TypeOK, CachesOK
<1>3. ASSUME UNCHANGED caches,
             \/ UNCHANGED seen
             \/ \E s : IsSeen(s) /\ seen' = [seen EXCEPT ![t] = s]
      PROVE  CachesOK'
  BY <1>1, <1>2, <1>3 DEF CachesOK
<1>4. ASSUME NEW s, IsEntries(s), Return(t, s)
      PROVE  \E r : IsSeen(r) /\ seen' = [seen EXCEPT ![t] = r]
  <2>1. IsSeen([seen[t] EXCEPT !.hosts = s])
    BY <1>2, <1>4 DEF IsSeen
  <2> QED BY <1>2, <1>4, <2>1 DEF Return
<1>5. IsSeen(Nothing)
  BY DEF IsSeen, Nothing, IsGroups, IsEntries
<1>6. ASSUME NEW op, Begin(t, op)
      PROVE  CachesOK'
  BY <1>3, <1>5, <1>6 DEF Begin
<1>7. CASE Start(t) \/ Ensure(t) \/ List(t) \/ Fill(t)
  BY <1>3, <1>7 DEF Start, Ensure, List, Fill
<1>8. CASE Look(t) \/ Again(t)
  <2>1. view[t] \in {"groups", "names"}
    BY DEF TypeOK, ControlOK
  <2>2. IsSeen([seen[t] EXCEPT ![view[t]] = groups])
    BY <1>1, <1>2, <2>1 DEF IsSeen
  <2>3. UNCHANGED caches
    BY <1>8 DEF Look, Again
  <2>4. CASE UNCHANGED seen
    BY <1>3, <2>3, <2>4
  <2>5. CASE Got(t)
    <3>1. seen' = [seen EXCEPT ![t] = [seen[t] EXCEPT ![view[t]] = groups]]
      BY <2>5 DEF Got
    <3> QED BY <1>3, <2>2, <2>3, <3>1
  <2> QED BY <1>8, <2>4, <2>5 DEF Look, Again
<1>9. CASE Collect(t)
  <2>1. IsGroups(groups')
    BY <1>9 DEF Collect, IsGroups, TypeOK, SourceOK, ControlOK
  <2> QED BY <1>1, <1>2, <1>9, <2>1 DEF Collect, CachesOK
<1>10. CASE Fast(t) \/ Slow(t)
  <2>1. UNCHANGED caches
    BY <1>10 DEF Fast, Slow
  <2>2. Return(t, snap) \/ UNCHANGED seen
    BY <1>10 DEF Fast, Slow
  <2> QED BY <1>1, <1>3, <1>4, <2>1, <2>2
<1>11. CASE Facts(t)
  <2>1. IsEntries(base') /\ IsEntries(snap')
    BY <1>1, <1>11, FactsFills
  <2>2. Return(t, snap') \/ UNCHANGED seen
    BY <1>11, FactsFills
  <2>3. DOMAIN seen' = Threads /\ \A u \in Threads : IsSeen(seen'[u])
    BY <1>2, <1>4, <2>1, <2>2
  <2> QED BY <1>1, <1>11, <2>1, <2>3 DEF Facts, CachesOK
<1>12. CASE \E h \in known : SetFact(t, h)
  BY <1>6, <1>12 DEF SetFact
<1>13. CASE ClearFacts(t) \/ Rescue(t) \/ Reboot(t) \/ Delegate(t) \/ TakeInventory(t) \/ Refresh(t)
  BY <1>6, <1>13 DEF ClearFacts, Rescue, Reboot, WithoutInvalidating, Delegate, TakeInventory, Refresh
<1>14. CASE \E h \in Hosts : NewHost(t, h)
  BY <1>3, <1>14 DEF NewHost
<1>15. CASE AddHost(t) \/ AddGroup(t)
  BY <1>3, <1>15 DEF AddHost, AddGroup, Change
<1>16. CASE DropGroups(t)
  BY <1>1, <1>2, <1>16 DEF DropGroups, CachesOK, IsGroups
<1>17. CASE DropHost(t) \/ DropAll(t)
  <2>1. PICK S : Invalidate(S)
    BY <1>17 DEF DropHost, DropAll
  <2>2. IsEntries(base') /\ IsEntries(snap')
    BY <1>1, <2>1 DEF Invalidate, Without, IsEntries
  <2> QED BY <1>1, <1>2, <1>17, <2>2 DEF DropHost, DropAll, CachesOK
<1> QED BY <1>7, <1>8, <1>9, <1>10, <1>11, <1>12, <1>13, <1>14, <1>15, <1>16, <1>17 DEF Step

-----------------------------------------------------------------------------
(* Filling in                                                               *)

\* A step of a goroutine that does not fill in hosts, before or after.
LEMMA FillFrame ==
  ASSUME TypeOK, FillInv, NEW t \in Threads, ~Filling(t), NEW l, l \notin {"fill", "facts"},
         Goto(t, l) \/ UNCHANGED pc, UNCHANGED <<base, snap, todo>>,
         \A u \in Threads : u # t => listed'[u] = listed[u]
  PROVE  FillingOK' /\ FillInv'
<1>1. pc = [u \in Threads |-> pc[u]]
  BY DEF TypeOK, ControlOK
<1>2. \A u \in Threads : (Filling(u))' = Filling(u)
  BY <1>1 DEF Filling, Goto
<1>4. HostVarsFree' = HostVarsFree
  BY <1>2 DEF HostVarsFree, Filling
<1>5. FillingOK'
  BY <1>2 DEF TypeOK, FillingOK, Filling
<1>6. FillInv'
  <2>1. \A u \in Threads : Filling(u) => listed'[u] = listed[u]
    OBVIOUS
  <2> QED BY <1>2, <1>4, <2>1 DEF FillInv
<1> QED BY <1>5, <1>6

\* Entries leave both maps, while nobody fills in hosts.
LEMMA FillDrop ==
  ASSUME TypeOK, FillInv, NEW t \in Threads, NEW S, HostVarsFree, Invalidate(S),
         Goto(t, "idle"), UNCHANGED <<todo, listed>>
  PROVE  FillingOK' /\ FillInv'
<1>1. pc = [u \in Threads |-> pc[u]]
  BY DEF TypeOK, ControlOK
<1>2. \A u \in Threads : ~Filling(u) /\ ~(Filling(u))' /\ todo[u] = {}
  BY <1>1 DEF HostVarsFree, Filling, Goto, TypeOK, FillingOK
<1>3. FillingOK'
  BY <1>2 DEF FillingOK, Filling
<1>4. DOMAIN base = DOMAIN snap /\ \A h \in DOMAIN snap : base[h] = snap[h]
  BY DEF FillInv
<1>5. DOMAIN base' = DOMAIN snap' /\ \A h \in DOMAIN snap' : base'[h] = snap'[h]
  BY <1>4 DEF Invalidate, Without
<1>6. FillInv'
  BY <1>2, <1>5 DEF FillInv
<1> QED BY <1>3, <1>6

LEMMA FillStep ==
  ASSUME TypeOK, FillInv, NEW t \in Threads, Step(t)
  PROVE  FillingOK' /\ FillInv'
<1> USE DEF source, caches, reading, filling, listing, writing, history
<1>1. pc = [u \in Threads |-> pc[u]] /\ listed \in [Threads -> SUBSET Hosts]
      /\ todo \in [Threads -> SUBSET Hosts]
  BY DEF TypeOK, ControlOK
<1>2. CASE Start(t) \/ Look(t) \/ Ensure(t) \/ Collect(t) \/ Again(t)
  BY <1>2, FillFrame DEF Start, Look, Ensure, Collect, Again, Got, Filling
<1>3. CASE List(t)
  <2>1. \A u \in Threads : u # t => listed'[u] = listed[u]
    BY <1>1, <1>3 DEF List
  <2>2. ~Filling(t) /\ Goto(t, "fast") /\ UNCHANGED <<base, snap, todo>>
    BY <1>3 DEF List, Filling
  <2> QED BY <2>1, <2>2, FillFrame
<1>4. CASE Fast(t)
  <2>1. \A u \in Threads : u # t => listed'[u] = listed[u]
    BY <1>1, <1>4 DEF Fast, Return
  <2>2. Goto(t, "run") \/ Goto(t, "slow")
    BY <1>4 DEF Fast, Return
  <2> QED BY <1>4, <2>1, <2>2, FillFrame DEF Fast, Filling
<1>5. CASE Slow(t)
  <2>1. ~Filling(t) /\ UNCHANGED <<base, snap>> /\ HostVarsFree
    BY <1>5 DEF Slow, Filling
  <2>2. CASE Return(t, snap) /\ UNCHANGED todo
    <3>1. \A u \in Threads : u # t => listed'[u] = listed[u]
      BY <1>1, <2>2 DEF Return
    <3>2. Goto(t, "run")
      BY <2>2 DEF Return
    <3> QED BY <2>1, <2>2, <3>1, <3>2, FillFrame
  <2>3. CASE /\ Missing(t) # {} /\ Goto(t, "fill")
             /\ todo' = [todo EXCEPT ![t] = Missing(t)]
             /\ UNCHANGED <<seen, listing>>
    <3>1. \A u \in Threads : ~Filling(u) /\ todo[u] = {}
      BY <2>1 DEF HostVarsFree, Filling, TypeOK, FillingOK
    <3>2. todo'[t] = listed[t] \ DOMAIN snap /\ todo'[t] # {}
      BY <1>1, <2>3 DEF Missing
    <3>3. \A u \in Threads : (Filling(u))' <=> u = t
      BY <1>1, <2>3, <3>1 DEF Filling, Goto
    <3>4. \A u \in Threads : u # t => todo'[u] = {}
      BY <1>1, <2>3, <3>1
    <3>5. DOMAIN base = DOMAIN snap
      BY <2>1 DEF FillInv
    <3>6. FillingOK'
      BY <2>1, <3>2, <3>3, <3>4, <3>5 DEF FillingOK, Filling
    <3>7. ~HostVarsFree'
      BY <3>3 DEF HostVarsFree, Filling
    <3>8. DOMAIN base = DOMAIN snap \union (listed[t] \ todo'[t])
      BY <3>2, <3>5
    <3> QED BY <2>1, <2>3, <3>2, <3>3, <3>6, <3>7, <3>8 DEF FillInv
  <2> QED BY <1>5, <2>2, <2>3 DEF Slow
<1>6. CASE Fill(t)
  <2>1. pc[t] = "fill" /\ Goto(t, "facts") /\ UNCHANGED <<base, snap, listed, todo>>
    BY <1>6 DEF Fill
  <2>2. \A u \in Threads : (Filling(u))' = Filling(u)
    BY <1>1, <2>1 DEF Filling, Goto
  <2>3. HostVarsFree' = HostVarsFree
    BY <2>2 DEF HostVarsFree, Filling
  <2> QED BY <2>1, <2>2, <2>3 DEF TypeOK, FillingOK, FillInv, Filling
<1>7. CASE Facts(t)
  <2>1. Filling(t) /\ \A u \in Threads : Filling(u) => u = t
    BY <1>7 DEF Facts, Filling, FillInv
  <2>2. PICK h \in todo[t] :
           /\ h \notin DOMAIN base
           /\ DOMAIN base' = DOMAIN base \union {h}
           /\ \A g \in DOMAIN base : base'[g] = base[g]
           /\ todo' = [todo EXCEPT ![t] = @ \ {h}]
           /\ \/ todo[t] = {h} /\ snap' = base' /\ Return(t, snap')
              \/ todo[t] # {h} /\ UNCHANGED <<snap, seen, listing>> /\ Goto(t, "fill")
    BY <1>7, FactsFills
  <2>3. \A u \in Threads : u # t => todo[u] = {} /\ todo'[u] = {}
    BY <1>1, <2>1, <2>2 DEF TypeOK, FillingOK, Filling
  <2>4. \A u \in Threads : u # t => ~(Filling(u))'
    BY <1>1, <2>1, <2>2 DEF Filling, Goto, Return
  <2>5. todo'[t] = todo[t] \ {h} /\ todo'[t] \intersect DOMAIN base' = {}
    BY <1>1, <2>2 DEF TypeOK, FillingOK
  <2>6. CASE todo[t] = {h} /\ snap' = base' /\ Return(t, snap')
    <3>1. ~(Filling(t))' /\ todo'[t] = {}
      BY <1>1, <2>5, <2>6 DEF Filling, Goto, Return
    <3> QED BY <2>3, <2>4, <2>6, <3>1 DEF FillingOK, FillInv, Filling
  <2>7. CASE todo[t] # {h} /\ UNCHANGED <<snap, seen, listing>> /\ Goto(t, "fill")
    <3>1. (Filling(t))' /\ todo'[t] # {}
      BY <1>1, <2>5, <2>7 DEF Filling, Goto
    <3>2. ~HostVarsFree'
      BY <3>1 DEF HostVarsFree, Filling
    <3>3. FillingOK'
      BY <2>3, <2>4, <2>5, <3>1 DEF FillingOK, Filling
    <3>4. todo[t] \subseteq listed[t] \ DOMAIN snap
          /\ DOMAIN base = DOMAIN snap \union (listed[t] \ todo[t])
      BY <2>1 DEF FillInv
    <3>5. DOMAIN base' = DOMAIN snap' \union (listed'[t] \ todo'[t])
      BY <2>2, <2>5, <2>7, <3>4
    <3>6. \A g \in DOMAIN snap' : g \in DOMAIN base' /\ base'[g] = snap'[g]
      BY <2>2, <2>7 DEF FillInv
    <3> QED BY <2>4, <2>5, <2>7, <3>2, <3>3, <3>4, <3>5, <3>6 DEF FillInv
  <2> QED BY <2>2, <2>6, <2>7
<1>8. ASSUME NEW op, Begin(t, op), NEW l, l \notin {"fill", "facts"}, Goto(t, l)
      PROVE  FillingOK' /\ FillInv'
  BY <1>8, FillFrame DEF Begin, Filling
<1>9. CASE \E h \in known : SetFact(t, h)
  BY <1>8, <1>9 DEF SetFact
<1>10. CASE ClearFacts(t) \/ Rescue(t) \/ Reboot(t) \/ Delegate(t) \/ TakeInventory(t) \/ Refresh(t)
  BY <1>8, <1>10 DEF ClearFacts, Rescue, Reboot, WithoutInvalidating, Delegate, TakeInventory, Refresh
<1>11. CASE \E h \in Hosts : NewHost(t, h)
  BY <1>11, FillFrame DEF NewHost, Filling
<1>12. CASE AddHost(t) \/ AddGroup(t) \/ DropGroups(t)
  BY <1>12, FillFrame DEF AddHost, AddGroup, Change, DropGroups, Filling
<1>13. CASE DropHost(t) \/ DropAll(t)
  BY <1>13, FillDrop DEF DropHost, DropAll, EndTask
<1> QED BY <1>2, <1>3, <1>4, <1>5, <1>6, <1>7, <1>9, <1>10, <1>11, <1>12, <1>13 DEF Step

-----------------------------------------------------------------------------
(* Versions                                                                 *)

Written(t) == /\ wrote[t].inv <= invVer /\ wrote[t].facts <= factVer[wrote[t].host]
              /\ pc[t] = "dropHost" => wrote[t].inv = 0

LEMMA VersionTypes ==
  ASSUME SourceOK
  PROVE  /\ done.inv \in Nat /\ invVer \in Nat
         /\ \A h \in Hosts : done.facts[h] \in Nat /\ factVer[h] \in Nat
         /\ \A t \in Threads : /\ wrote[t].inv \in Nat /\ wrote[t].facts \in Nat
                               /\ wrote[t].host \in Hosts
BY DEF SourceOK, Marks

LEMMA Newest == \A a, b \in Nat : /\ Newer(a, b) \in Nat
                                  /\ Newer(a, b) >= a /\ Newer(a, b) >= b
                                  /\ Newer(a, b) \in {a, b}
BY DEF Newer

\* A task that ends adds what it wrote to what tasks that have ended wrote.
LEMMA EndTaskDone ==
  ASSUME SourceOK, NEW t \in Threads, EndTask(t)
  PROVE  /\ done'.inv = Newer(done.inv, wrote[t].inv)
         /\ done'.facts[wrote[t].host] = Newer(done.facts[wrote[t].host], wrote[t].facts)
         /\ \A h \in Hosts \ {wrote[t].host} : done'.facts[h] = done.facts[h]
         /\ wrote'[t] = Unwritten
         /\ \A u \in Threads \ {t} : wrote'[u] = wrote[u]
<1>1. wrote[t].host \in Hosts /\ done.facts \in [Hosts -> Nat] /\ DOMAIN wrote = Threads
  BY DEF SourceOK, Marks
<1> QED BY <1>1 DEF EndTask

LEMMA AheadFrame ==
  ASSUME SourceOK, SourceOK', SourceAhead, NEW t \in Threads,
         invVer' >= invVer, \A h \in Hosts : factVer'[h] >= factVer[h],
         done'.inv >= done.inv, done'.inv <= invVer',
         \A h \in Hosts : done'.facts[h] >= done.facts[h] /\ done'.facts[h] <= factVer'[h],
         \A u \in Threads \ {t} : wrote'[u] = wrote[u] /\ pc'[u] = pc[u] /\ floor'[u] = floor[u],
         Written(t)', floor'[t] \in {floor[t], done, Zero}
  PROVE  SourceAhead'
<1>1. done.inv \in Nat /\ done'.inv \in Nat /\ invVer \in Nat /\ invVer' \in Nat
  BY DEF SourceOK, Marks
<1>2. \A h \in Hosts : /\ done.facts[h] \in Nat /\ done'.facts[h] \in Nat
                       /\ factVer[h] \in Nat /\ factVer'[h] \in Nat
  BY DEF SourceOK, Marks
<1>3. \A u \in Threads : /\ floor[u].inv \in Nat /\ \A h \in Hosts : floor[u].facts[h] \in Nat
                         /\ wrote[u].inv \in Nat /\ wrote[u].facts \in Nat /\ wrote[u].host \in Hosts
  BY DEF SourceOK, Marks
<1>4. Zero.inv = 0 /\ \A h \in Hosts : Zero.facts[h] = 0
  BY DEF Zero
<1>5. ASSUME NEW u \in Threads
      PROVE  /\ floor'[u].inv <= done'.inv
             /\ \A h \in Hosts : floor'[u].facts[h] <= done'.facts[h]
  <2>1. floor[u].inv <= done.inv /\ \A h \in Hosts : floor[u].facts[h] <= done.facts[h]
    BY DEF SourceAhead
  <2>2. floor'[u] \in {floor[u], done, Zero}
    OBVIOUS
  <2> QED BY <1>1, <1>2, <1>3, <1>4, <2>1, <2>2
<1>6. ASSUME NEW u \in Threads
      PROVE  Written(u)'
  <2>1. CASE u = t
    BY <2>1
  <2>2. CASE u # t
    BY <1>1, <1>2, <1>3, <2>2 DEF SourceAhead, Written
  <2> QED BY <2>1, <2>2
<1> QED BY <1>5, <1>6 DEF SourceAhead, Written

LEMMA AheadStep ==
  ASSUME SourceOK, SourceOK', ControlOK, SourceAhead, NEW t \in Threads, Step(t)
  PROVE  SourceAhead'
<1> USE DEF source, caches, reading, filling, listing, writing, history
<1>1. pc = [u \in Threads |-> pc[u]] /\ DOMAIN floor = Threads /\ DOMAIN wrote = Threads
  BY DEF ControlOK, SourceOK
<1>2. /\ done.inv \in Nat /\ invVer \in Nat /\ done.inv <= invVer
      /\ \A h \in Hosts : /\ done.facts[h] \in Nat /\ factVer[h] \in Nat
                          /\ done.facts[h] <= factVer[h]
  BY DEF SourceOK, SourceAhead, Marks
<1>3. Written(t) /\ wrote[t].inv \in Nat /\ wrote[t].facts \in Nat /\ wrote[t].host \in Hosts
  BY DEF SourceOK, SourceAhead, Written
<1>4. ASSUME UNCHANGED <<invVer, factVer, done, wrote>>,
             floor' = floor \/ floor' = [floor EXCEPT ![t] = done] \/ floor' = [floor EXCEPT ![t] = Zero],
             NEW l, l # "dropHost", Goto(t, l)
      PROVE  SourceAhead'
  <2>1. pc'[t] = l /\ \A u \in Threads \ {t} : pc'[u] = pc[u]
    BY <1>1, <1>4 DEF Goto
  <2>2. floor'[t] \in {floor[t], done, Zero} /\ \A u \in Threads \ {t} : floor'[u] = floor[u]
    BY <1>1, <1>4
  <2>3. Written(t)'
    BY <1>3, <1>4, <2>1 DEF Written
  <2> QED BY <1>2, <1>4, <2>1, <2>2, <2>3, AheadFrame
<1>5. CASE Start(t)
  BY <1>4, <1>5 DEF Start
<1>6. CASE Look(t) \/ Ensure(t) \/ Collect(t) \/ Again(t)
  BY <1>4, <1>6 DEF Look, Ensure, Collect, Again, Got
<1>7. CASE List(t) \/ Fast(t) \/ Slow(t) \/ Fill(t) \/ Facts(t)
  BY <1>4, <1>7 DEF List, Fast, Slow, Fill, Facts, Return
<1>8. ASSUME NEW h \in Hosts, NewFacts(h), invVer' \in Nat, invVer' >= invVer, UNCHANGED done,
             floor' = floor \/ floor' = [floor EXCEPT ![t] = Zero], NEW l, Goto(t, l),
             \/ UNCHANGED wrote /\ l # "dropHost"
             \/ Wrote(t, h, 0)
             \/ Wrote(t, h, invVer') /\ l # "dropHost"
      PROVE  SourceAhead'
  <2>1. pc'[t] = l /\ \A u \in Threads \ {t} : pc'[u] = pc[u]
    BY <1>1, <1>8 DEF Goto
  <2>2. floor'[t] \in {floor[t], done, Zero} /\ \A u \in Threads \ {t} : floor'[u] = floor[u]
    BY <1>1, <1>8
  <2>3. \A g \in Hosts : factVer'[g] \in Nat /\ factVer'[g] >= factVer[g]
    BY <1>8, NewFactsType
  <2>4. \A u \in Threads \ {t} : wrote'[u] = wrote[u]
    BY <1>1, <1>8 DEF Wrote
  <2>5. Written(t)'
    <3>1. CASE UNCHANGED wrote /\ l # "dropHost"
      BY <1>2, <1>3, <1>8, <2>1, <2>3, <3>1 DEF Written
    <3>2. ASSUME NEW i \in {0, invVer'}, Wrote(t, h, i), i = 0 \/ l # "dropHost"
          PROVE  Written(t)'
      <4>1. wrote'[t] = [host |-> h, facts |-> factVer'[h], inv |-> i]
        BY <1>1, <3>2 DEF Wrote
      <4> QED BY <1>8, <2>1, <2>3, <3>2, <4>1 DEF Written
    <3> QED BY <1>8, <3>1, <3>2
  <2>6. done'.inv <= invVer' /\ \A g \in Hosts : done'.facts[g] <= factVer'[g]
    BY <1>2, <1>8, <2>3
  <2> QED BY <1>2, <1>8, <2>1, <2>2, <2>3, <2>4, <2>5, <2>6, AheadFrame
<1>9. CASE \E h \in known : SetFact(t, h)
  <2>1. PICK h \in Hosts : SetFact(t, h)
    BY <1>9 DEF SourceOK
  <2> QED BY <1>2, <1>8, <2>1 DEF SetFact, Begin
<1>10. CASE ClearFacts(t)
  BY <1>2, <1>8, <1>10, HostsAssumption DEF ClearFacts, Begin
<1>11. CASE Rescue(t) \/ Reboot(t)
  BY <1>2, <1>8, <1>11, HostsAssumption DEF Rescue, Reboot, WithoutInvalidating, Begin
<1>12. CASE Delegate(t) \/ TakeInventory(t)
  BY <1>4, <1>12 DEF Delegate, TakeInventory, Begin
<1>13. CASE \E h \in Hosts : NewHost(t, h)
  <2>1. PICK h \in Hosts : NewHost(t, h)
    BY <1>13
  <2>2. invVer' \in Nat /\ invVer' >= invVer
    BY <1>2, <2>1 DEF NewHost
  <2>3. Wrote(t, h, 0) \/ Wrote(t, h, invVer')
    BY <2>1 DEF NewHost
  <2> QED BY <1>8, <2>1, <2>2, <2>3 DEF NewHost
<1>14. ASSUME invVer' \in Nat, invVer' >= invVer, UNCHANGED <<factVer, done>>,
              floor' = floor \/ floor' = [floor EXCEPT ![t] = Zero],
              \A u \in Threads \ {t} : wrote'[u] = wrote[u],
              wrote'[t].inv <= invVer', wrote'[t].facts <= factVer[wrote'[t].host],
              Goto(t, "dropGroups")
       PROVE  SourceAhead'
  <2>1. pc'[t] = "dropGroups" /\ \A u \in Threads \ {t} : pc'[u] = pc[u]
    BY <1>1, <1>14 DEF Goto
  <2>2. floor'[t] \in {floor[t], done, Zero} /\ \A u \in Threads \ {t} : floor'[u] = floor[u]
    BY <1>1, <1>14
  <2>3. Written(t)'
    BY <1>14, <2>1 DEF Written
  <2> QED BY <1>2, <1>14, <2>1, <2>2, <2>3, AheadFrame
<1>15. CASE AddHost(t) \/ AddGroup(t)
  <2>1. PICK hosts : Change(t, hosts)
    BY <1>15 DEF AddHost, AddGroup
  <2>2. \A u \in Threads \ {t} : wrote'[u] = wrote[u]
    BY <1>1, <2>1 DEF Change
  <2>3. invVer' \in Nat /\ invVer' >= invVer
    BY <1>2, <2>1 DEF Change
  <2>4. wrote'[t].facts = wrote[t].facts /\ wrote'[t].host = wrote[t].host
    BY <1>1, <2>1 DEF Change, SourceOK
  <2>5. wrote'[t].inv <= invVer'
    BY <1>1, <1>2, <1>3, <2>1 DEF Change, SourceOK, Written
  <2>6. UNCHANGED <<factVer, done, floor>> /\ Goto(t, "dropGroups")
    BY <2>1 DEF Change
  <2>7. wrote'[t].facts <= factVer[wrote'[t].host]
    BY <1>3, <2>4 DEF Written
  <2> QED BY <1>14, <2>2, <2>3, <2>5, <2>6, <2>7
<1>16. CASE Refresh(t)
  <2>1. wrote'[t] = [Unwritten EXCEPT !.inv = invVer'] /\ \A u \in Threads \ {t} : wrote'[u] = wrote[u]
    BY <1>1, <1>16 DEF Refresh
  <2>2. wrote'[t].inv = invVer' /\ wrote'[t].facts = 0 /\ wrote'[t].host = Localhost
    BY <2>1 DEF Unwritten
  <2>3. invVer' = invVer + 1 /\ UNCHANGED <<factVer, done>> /\ Goto(t, "dropGroups")
        /\ floor' = [floor EXCEPT ![t] = Zero]
    BY <1>16 DEF Refresh, Begin
  <2>4. wrote'[t].facts <= factVer[wrote'[t].host]
    <3>1. Localhost \in Hosts
      BY HostsAssumption
    <3>2. factVer[Localhost] >= 0
      BY <1>2, <3>1
    <3> QED BY <2>2, <3>2
  <2> QED BY <1>2, <1>14, <2>1, <2>2, <2>3, <2>4
<1>17. CASE DropGroups(t)
  BY <1>4, <1>17 DEF DropGroups
<1>18. CASE DropHost(t) \/ DropAll(t)
  <2>1. EndTask(t) /\ UNCHANGED <<source, floor>> /\ Goto(t, "idle")
    BY <1>18 DEF DropHost, DropAll, EndTask
  <2>2. pc'[t] = "idle" /\ \A u \in Threads \ {t} : pc'[u] = pc[u]
    BY <1>1, <2>1 DEF Goto
  <2>3. done'.inv >= done.inv /\ done'.inv <= invVer
    BY <1>2, <1>3, <2>1, EndTaskDone, Newest DEF Written
  <2>4. ASSUME NEW h \in Hosts
        PROVE  done'.facts[h] >= done.facts[h] /\ done'.facts[h] <= factVer[h]
    <3>1. CASE h = wrote[t].host
      <4>1. done'.facts[h] = Newer(done.facts[h], wrote[t].facts)
        BY <2>1, <3>1, EndTaskDone
      <4>2. wrote[t].facts <= factVer[h]
        BY <1>3, <3>1 DEF Written
      <4>3. done.facts[h] \in Nat /\ wrote[t].facts \in Nat
        BY <3>1, VersionTypes
      <4>4. done.facts[h] <= factVer[h]
        BY DEF SourceAhead
      <4>5. /\ done'.facts[h] >= done.facts[h]
            /\ done'.facts[h] \in {done.facts[h], wrote[t].facts}
        BY <4>1, <4>3, Newest
      <4> QED BY <4>2, <4>4, <4>5
    <3>2. CASE h # wrote[t].host
      BY <1>2, <2>1, <3>2, EndTaskDone
    <3> QED BY <3>1, <3>2
  <2>5. Written(t)'
    <3>1. wrote'[t] = Unwritten /\ invVer' = invVer /\ factVer' = factVer
      BY <2>1, EndTaskDone
    <3>2. Localhost \in Hosts /\ factVer[Localhost] \in Nat
      BY <1>2, HostsAssumption
    <3> QED BY <1>2, <2>2, <3>1, <3>2 DEF Written, Unwritten
  <2> QED BY <1>2, <2>1, <2>2, <2>3, <2>4, <2>5, EndTaskDone, AheadFrame
<1> QED BY <1>5, <1>6, <1>7, <1>9, <1>10, <1>11, <1>12, <1>13, <1>15, <1>16, <1>17, <1>18 DEF Step

-----------------------------------------------------------------------------
(* The caches keep up with the tasks that end                               *)

FreshNext(v) == v >= done'.inv /\ \A t \in Threads : pc'[t] = "dropAll" => v >= wrote'[t].inv

\* What is fresh stays fresh, but over an invalidation of the groups.
LEMMA FreshStays ==
  ASSUME SourceOK, ControlOK, SourceAhead, NEW t \in Threads, Step(t), pc[t] # "dropGroups",
         NEW v \in Nat, Fresh(v)
  PROVE  FreshNext(v)
<1> USE DEF source, caches, reading, filling, listing, writing, history
<1>1. pc = [u \in Threads |-> pc[u]] /\ DOMAIN wrote = Threads
  BY DEF ControlOK, SourceOK
<1>2. ASSUME UNCHANGED done, NEW l, l # "dropAll", Goto(t, l),
             \A u \in Threads \ {t} : wrote'[u] = wrote[u]
      PROVE  FreshNext(v)
  BY <1>1, <1>2 DEF Fresh, FreshNext, Goto
<1>3. CASE Start(t)
  BY <1>2, <1>3 DEF Start
<1>4. CASE Look(t) \/ Ensure(t) \/ Collect(t) \/ Again(t)
  BY <1>2, <1>4 DEF Look, Ensure, Collect, Again, Got
<1>5. CASE List(t) \/ Fast(t) \/ Slow(t) \/ Fill(t) \/ Facts(t)
  BY <1>2, <1>5 DEF List, Fast, Slow, Fill, Facts, Return
<1>6. CASE \E h \in known : SetFact(t, h)
  BY <1>1, <1>2, <1>6 DEF SetFact, Begin, Wrote
<1>7. CASE ClearFacts(t) \/ Rescue(t) \/ Reboot(t) \/ Delegate(t) \/ TakeInventory(t) \/ Refresh(t)
  BY <1>1, <1>2, <1>7 DEF ClearFacts, Rescue, Reboot, WithoutInvalidating, Delegate, TakeInventory, Refresh, Begin, Wrote
<1>8. CASE \E h \in Hosts : NewHost(t, h)
  BY <1>1, <1>2, <1>8 DEF NewHost, Wrote
<1>9. CASE AddHost(t) \/ AddGroup(t)
  BY <1>1, <1>2, <1>9 DEF AddHost, AddGroup, Change
<1>10. CASE DropGroups(t)
  BY <1>10 DEF DropGroups
<1>11. CASE DropHost(t) \/ DropAll(t)
  <2>1. EndTask(t) /\ Goto(t, "idle")
    BY <1>11 DEF DropHost, DropAll, EndTask
  <2>2. pc[t] = "dropAll" \/ wrote[t].inv = 0
    BY <1>11 DEF DropHost, DropAll, SourceAhead
  <2>3. v >= wrote[t].inv /\ v >= done.inv
    BY <2>2 DEF Fresh
  <2>4. v >= done'.inv
    BY <2>1, <2>3, VersionTypes, EndTaskDone, Newest
  <2>5. \A u \in Threads \ {t} : pc'[u] = pc[u] /\ wrote'[u] = wrote[u]
    BY <1>1, <2>1, EndTaskDone DEF Goto
  <2>6. pc'[t] = "idle"
    BY <1>1, <2>1 DEF Goto
  <2> QED BY <2>4, <2>5, <2>6 DEF Fresh, FreshNext
<1> QED BY <1>3, <1>4, <1>5, <1>6, <1>7, <1>8, <1>9, <1>10, <1>11 DEF Step

LEMMA GroupsStep ==
  ASSUME TypeOK, SourceAhead, GroupsKeepUp, NEW t \in Threads, Step(t)
  PROVE  GroupsKeepUp'
<1> USE DEF source, caches, reading, filling, listing, writing, history
<1>1. SourceOK /\ ControlOK /\ IsGroups(groups)
  BY DEF TypeOK, CachesOK
<1>2. pc = [u \in Threads |-> pc[u]] /\ found \in [Threads -> Nat]
  BY <1>1 DEF ControlOK
<1>3. groups # NoGroups => groups.all \in Nat /\ groups.members \in Nat
  BY <1>1 DEF IsGroups
<1>4. Fresh(invVer) /\ invVer \in Nat
  BY <1>1, VersionTypes DEF Fresh, SourceAhead
<1>5. CASE DropGroups(t)
  <2>1. \A u \in Threads : pc'[u] # "collect"
    BY <1>2, <1>5 DEF DropGroups, GroupsFree, Goto
  <2> QED BY <1>5, <2>1 DEF DropGroups, GroupsKeepUp
<1>6. CASE ~DropGroups(t)
  <2>1. pc[t] # "dropGroups"
    BY <1>6 DEF Step, Start, Look, Ensure, Collect, Again, List, Fast, Slow, Fill, Facts, SetFact,
       ClearFacts, Rescue, Reboot, WithoutInvalidating, Delegate, TakeInventory, NewHost, AddHost, AddGroup, Refresh, Begin,
       DropHost, DropAll
  <2>2. \A v \in Nat : Fresh(v) => FreshNext(v)
    BY <1>1, <2>1, FreshStays
  <2>3. CASE Ensure(t)
    <3>1. groups' = groups /\ \A u \in Threads : pc'[u] = "collect" =>
             \/ pc[u] = "collect" /\ found'[u] = found[u]
             \/ found'[u] = invVer
      BY <1>2, <2>3 DEF Ensure, Goto
    <3> QED BY <1>2, <1>3, <1>4, <2>2, <3>1 DEF GroupsKeepUp, Fresh, FreshNext
  <2>4. CASE Collect(t)
    <3>1. groups' = [all |-> found[t], members |-> invVer] /\ Fresh(found[t])
      BY <2>4 DEF Collect, GroupsKeepUp
    <3>2. \A u \in Threads : pc'[u] = "collect" => pc[u] = "collect" /\ found'[u] = found[u]
      BY <1>2, <2>4 DEF Collect, Goto
    <3>3. FreshNext(found[t]) /\ FreshNext(invVer)
      BY <1>2, <1>4, <2>2, <3>1
    <3>4. \A u \in Threads : pc'[u] = "collect" => FreshNext(found'[u])
      BY <1>2, <2>2, <3>2 DEF GroupsKeepUp
    <3> QED BY <3>1, <3>3, <3>4 DEF GroupsKeepUp, Fresh, FreshNext
  <2>5. CASE ~Ensure(t) /\ ~Collect(t)
    <3>1. groups' = groups
      BY <1>6, <2>5 DEF Step, Start, Look, Again, List, Fast, Slow, Fill, Facts, SetFact,
         ClearFacts, Rescue, Reboot, WithoutInvalidating, Delegate, TakeInventory, NewHost, AddHost, AddGroup, Refresh, Begin,
         Change, DropHost, DropAll
    <3>2. \A u \in Threads \ {t} : pc'[u] = pc[u] /\ found'[u] = found[u]
      BY <1>2, <1>6, <2>5 DEF Step, Start, Look, Again, Got, List, Fast, Slow, Fill, Facts, Return,
         SetFact, ClearFacts, Rescue, Reboot, WithoutInvalidating, Delegate, TakeInventory, NewHost, AddHost, AddGroup, Refresh,
         Begin, Change, DropHost, DropAll, EndTask, Goto
    <3>3. pc'[t] # "collect"
      BY <1>2, <1>6, <2>5 DEF Step, Start, Look, Again, Got, List, Fast, Slow, Fill, Facts, Return,
         SetFact, ClearFacts, Rescue, Reboot, WithoutInvalidating, Delegate, TakeInventory, NewHost, AddHost, AddGroup, Refresh,
         Begin, Change, DropHost, DropAll, EndTask, Goto
    <3>4. \A u \in Threads : pc'[u] = "collect" => FreshNext(found'[u])
      BY <1>2, <2>2, <3>2, <3>3 DEF GroupsKeepUp
    <3> QED BY <1>3, <2>2, <3>1, <3>4 DEF GroupsKeepUp, Fresh, FreshNext
  <2> QED BY <2>3, <2>4, <2>5
<1> QED BY <1>5, <1>6

\* Only a refresh replaces the inventory, and it looks at who holds hosts of it.
LEMMA HeldStep ==
  ASSUME TypeOK, HeldInv, NEW t \in Threads, Step(t)
  PROVE  HeldInv'
<1> USE DEF source, caches, reading, filling, listing, writing, history, HeldInv, HoldsHosts
<1>1. pc = [u \in Threads |-> pc[u]] /\ from = [u \in Threads |-> from[u]]
  BY DEF TypeOK, ControlOK
<1>2. CASE Refresh(t)
  BY <1>1, <1>2 DEF Refresh, Begin, Goto
<1>3. CASE List(t)
  BY <1>1, <1>3 DEF List, Goto
<1>4. CASE Fast(t) \/ Slow(t) \/ Fill(t) \/ Facts(t)
  <2>1. HoldsHosts(t) /\ UNCHANGED <<loads, overtaken>> /\ \A u \in Threads \ {t} : pc'[u] = pc[u]
    BY <1>1, <1>4 DEF Fast, Slow, Fill, Facts, Return, Goto
  <2>2. \A u \in Threads \ {t} : from'[u] = from[u]
    BY <1>1, <1>4 DEF Fast, Slow, Fill, Facts, Return
  <2>3. pc'[t] = "run" \/ from'[t] = from[t]
    BY <1>1, <1>4 DEF Fast, Slow, Fill, Facts, Return, Goto
  <2> QED BY <2>1, <2>2, <2>3
<1>5. CASE Start(t) \/ Look(t) \/ Ensure(t) \/ Collect(t) \/ Again(t)
  BY <1>1, <1>5 DEF Start, Look, Ensure, Collect, Again, Got, Goto
<1>6. ASSUME NEW l, l \notin {"fast", "slow", "fill", "facts"}, Goto(t, l),
             UNCHANGED <<loads, from, overtaken>>
      PROVE  HeldInv'
  BY <1>1, <1>6 DEF Goto
<1>7. CASE (\E h \in known : SetFact(t, h)) \/ ClearFacts(t) \/ Rescue(t) \/ Reboot(t) \/ Delegate(t)
  BY <1>6, <1>7 DEF SetFact, ClearFacts, Rescue, Reboot, WithoutInvalidating, Delegate, Begin
<1>8. CASE TakeInventory(t) \/ (\E h \in Hosts : NewHost(t, h)) \/ AddHost(t) \/ AddGroup(t)
  BY <1>6, <1>8 DEF TakeInventory, NewHost, AddHost, AddGroup, Change, Begin
<1>9. CASE DropGroups(t) \/ DropHost(t) \/ DropAll(t)
  BY <1>6, <1>9 DEF DropGroups, DropHost, DropAll, EndTask
<1> QED BY <1>2, <1>3, <1>4, <1>5, <1>7, <1>8, <1>9 DEF Step

\* Host variables are read from a source at least as new as what ended tasks wrote, and
\* nobody ends a task with host variables to invalidate while they are filled in.
LEMMA HostVarsStep ==
  ASSUME TypeOK, FillInv, SourceAhead, HeldInv, HostVarsKeepUp, NEW t \in Threads, Step(t)
  PROVE  HostVarsKeepUp'
<1> USE DEF source, caches, reading, filling, listing, writing, history
<1>1. SourceOK /\ ControlOK /\ IsEntries(base)
  BY DEF TypeOK, CachesOK
<1>2. pc = [u \in Threads |-> pc[u]] /\ found \in [Threads -> Nat]
  BY <1>1 DEF ControlOK
<1>3. \A h \in DOMAIN base : h \in Hosts /\ base[h].inv \in Nat /\ base[h].facts \in Nat
  BY <1>1 DEF IsEntries, Versions
<1>9. overtaken => overtaken'
  BY DEF Step, Start, Look, Ensure, Collect, Again, List, Fast, Slow, Fill, Facts, SetFact, ClearFacts,
     Rescue, Reboot, WithoutInvalidating, Delegate, TakeInventory, NewHost, AddHost, AddGroup,
     Refresh, Change, DropGroups, DropHost, DropAll
<1>10. ASSUME NEW v, OwnFresh(v, done.inv) PROVE v >= done.inv \/ (v = Stale /\ overtaken')
  BY <1>9, <1>10 DEF OwnFresh
<1>4. done.inv <= invVer /\ \A h \in Hosts : done.facts[h] <= factVer[h]
  BY DEF SourceAhead
<1>5. CASE Fill(t)
  <2>1. UNCHANGED <<base, done>> /\ found' = [found EXCEPT ![t] = invVer]
    BY <1>5 DEF Fill
  <2>2. \A u \in Threads \ {t} : pc'[u] = pc[u] /\ found'[u] = found[u]
    BY <1>2, <1>5 DEF Fill, Goto
  <2>3. found'[t] >= done'.inv
    BY <1>1, <1>2, <1>4, <2>1, VersionTypes
  <2>4. own'[t] = IF from[t] = loads THEN invVer ELSE Stale
    BY <1>1, <1>5 DEF Fill, ControlOK
  <2>5. from[t] # loads => overtaken
    BY <1>5 DEF Fill, HeldInv, HoldsHosts
  <2>6. overtaken' = overtaken /\ \A u \in Threads \ {t} : own'[u] = own[u]
    BY <1>1, <1>5 DEF Fill, ControlOK
  <2>7. OwnFresh(own[t], done.inv)'
    BY <1>1, <1>4, <2>1, <2>4, <2>5, <2>6, VersionTypes DEF OwnFresh
  <2> QED BY <2>1, <2>2, <2>3, <2>6, <2>7 DEF HostVarsKeepUp, OwnFresh
<1>6. CASE Facts(t)
  <2>1. PICK h \in todo[t] :
           /\ h \in Hosts
           /\ DOMAIN base' = DOMAIN base \union {h}
           /\ base'[h] = [inv |-> found[t], own |-> own[t], facts |-> factVer[h]]
           /\ \A g \in DOMAIN base : base'[g] = base[g]
    BY <1>6, FactsFills
  <2>2. found[t] >= done.inv /\ OwnFresh(own[t], done.inv) /\ UNCHANGED <<done, overtaken>>
    BY <1>6 DEF Facts, HostVarsKeepUp
  <2>3. /\ base'[h].inv >= done.inv /\ base'[h].facts >= done.facts[h]
        /\ OwnFresh(base'[h].own, done.inv)
    BY <1>1, <1>4, <2>1, <2>2, VersionTypes
  <2>4. \A u \in Threads \ {t} : pc'[u] = pc[u] /\ found'[u] = found[u] /\ own'[u] = own[u]
    BY <1>1, <1>2, <1>6 DEF Facts, Goto, Return, ControlOK
  <2>5. pc'[t] # "facts"
    BY <1>2, <1>6 DEF Facts, Goto, Return
  <2> QED BY <2>1, <2>2, <2>3, <2>4, <2>5 DEF HostVarsKeepUp, OwnFresh
<1>7. CASE DropHost(t) \/ DropAll(t)
  <2>1. \A u \in Threads : pc'[u] # "facts"
    BY <1>2, <1>7 DEF DropHost, DropAll, HostVarsFree, EndTask, Goto
  <2>2. EndTask(t)
    BY <1>7 DEF DropHost, DropAll
  <2>3. CASE DropHost(t)
    <3>1. wrote[t].inv = 0
      BY <2>3 DEF DropHost, SourceAhead
    <3>2. done'.inv = done.inv
      BY <1>1, <2>2, <3>1, VersionTypes, EndTaskDone DEF Newer
    <3>3. \A h \in DOMAIN base' : /\ h \in DOMAIN base /\ base'[h] = base[h]
                                  /\ h # wrote[t].host
      BY <2>3 DEF DropHost, Invalidate, Without
    <3>4. \A h \in DOMAIN base' : done'.facts[h] = done.facts[h]
      BY <1>1, <1>3, <2>2, <3>3, EndTaskDone
    <3> QED BY <1>10, <2>1, <3>2, <3>3, <3>4 DEF HostVarsKeepUp, OwnFresh
  <2>4. CASE DropAll(t)
    <3>1. DOMAIN base' = {}
      BY <1>3, <2>4 DEF DropAll, Invalidate, Without
    <3> QED BY <2>1, <3>1 DEF HostVarsKeepUp
  <2> QED BY <1>7, <2>3, <2>4
<1>8. CASE ~Fill(t) /\ ~Facts(t) /\ ~DropHost(t) /\ ~DropAll(t)
  <2>1. UNCHANGED <<base, done>>
    BY <1>8 DEF Step, Start, Look, Ensure, Collect, Again, List, Fast, Slow, SetFact, ClearFacts,
       Rescue, Reboot, WithoutInvalidating, Delegate, TakeInventory, NewHost, AddHost, AddGroup,
       Refresh, Begin, Change, DropGroups
  <2>2. \A u \in Threads \ {t} : pc'[u] = pc[u] /\ found'[u] = found[u] /\ own'[u] = own[u]
    BY <1>2, <1>8 DEF Step, Start, Look, Ensure, Collect, Again, Got, List, Fast, Slow, Return,
       SetFact, ClearFacts, Rescue, Reboot, WithoutInvalidating, Delegate, TakeInventory, NewHost, AddHost, AddGroup, Refresh,
       Begin, Change, DropGroups, Goto
  <2>3. pc'[t] # "facts"
    BY <1>2, <1>8 DEF Step, Start, Look, Ensure, Collect, Again, Got, List, Fast, Slow, Return,
       SetFact, ClearFacts, Rescue, Reboot, WithoutInvalidating, Delegate, TakeInventory, NewHost, AddHost, AddGroup, Refresh,
       Begin, Change, DropGroups, Goto
  <2> QED BY <1>10, <2>1, <2>2, <2>3 DEF HostVarsKeepUp, OwnFresh
<1> QED BY <1>5, <1>6, <1>7, <1>8

-----------------------------------------------------------------------------
(* What the tasks see                                                       *)

SeesIn(s, m, o) ==
  /\ \A g \in {s.groups, s.names} \ {NoGroups} : g.all >= m.inv /\ g.members >= m.inv
  /\ \A h \in DOMAIN s.hosts :
       /\ s.hosts[h].inv >= m.inv /\ s.hosts[h].facts >= m.facts[h]
       /\ s.hosts[h].own >= m.inv \/ (s.hosts[h].own = Stale /\ o)

LEMMA NothingSeen == ASSUME NEW m, NEW o PROVE SeesIn(Nothing, m, o)
BY DEF SeesIn, Nothing

LEMMA SeenStep ==
  ASSUME TypeOK, TypeOK', FillInv, SourceAhead, GroupsKeepUp, HostVarsKeepUp, HostVarsKeepUp',
         FillInv', SourceAhead', SeenInv, NEW t \in Threads, Step(t)
  PROVE  SeenInv'
<1> USE DEF source, caches, reading, filling, listing, writing, history
<1>1. SourceOK /\ ControlOK /\ IsGroups(groups) /\ IsEntries(base) /\ IsEntries(snap)
  BY DEF TypeOK, CachesOK
<1>2. /\ pc = [u \in Threads |-> pc[u]] /\ DOMAIN floor = Threads /\ DOMAIN seen = Threads
      /\ \A u \in Threads : DOMAIN seen[u] = {"groups", "names", "hosts"}
  BY <1>1 DEF ControlOK, SourceOK, TypeOK, CachesOK, IsSeen
<1>3. floor[t].inv \in Nat /\ done.inv \in Nat /\ floor[t].inv <= done.inv
      /\ \A h \in Hosts : /\ floor[t].facts[h] \in Nat /\ done.facts[h] \in Nat
                          /\ floor[t].facts[h] <= done.facts[h]
  BY <1>1 DEF SourceOK, Marks, SourceAhead
<1>4. /\ SeesIn(seen[t], floor[t], overtaken) /\ (pc[t] \in Writing => seen[t] = Nothing)
      /\ overtaken => overtaken'
  <2>1. SeesIn(seen[t], floor[t], overtaken)
    BY DEF SeenInv, Sees, SeesIn, HostSeen
  <2>2. overtaken => overtaken'
    BY DEF Step, Start, Look, Ensure, Collect, Again, List, Fast, Slow, Fill, Facts, SetFact,
       ClearFacts, Rescue, Reboot, WithoutInvalidating, Delegate, TakeInventory, NewHost, AddHost,
       AddGroup, Refresh, Change, DropGroups, DropHost, DropAll
  <2> QED BY <2>1, <2>2 DEF SeenInv
<1>5. ASSUME SeesIn(seen'[t], floor'[t], overtaken'), pc'[t] \in Writing => seen'[t] = Nothing,
             \A u \in Threads \ {t} : pc'[u] = pc[u] /\ seen'[u] = seen[u] /\ floor'[u] = floor[u]
      PROVE  SeenInv'
  <2>1. \A u \in Threads : SeesIn(seen'[u], floor'[u], overtaken')
    BY <1>4, <1>5 DEF SeenInv, Sees, SeesIn, HostSeen
  <2>2. ASSUME NEW u \in Threads PROVE Sees(u)'
    <3>1. SeesIn(seen'[u], floor'[u], overtaken')
      BY <2>1
    <3>2. \A h \in DOMAIN seen'[u].hosts :
            /\ seen'[u].hosts[h].inv >= floor'[u].inv
            /\ seen'[u].hosts[h].facts >= floor'[u].facts[h]
            /\ \/ seen'[u].hosts[h].own >= floor'[u].inv
               \/ seen'[u].hosts[h].own = Stale /\ overtaken'
      BY <3>1 DEF SeesIn
    <3>3. \A g \in {seen'[u].groups, seen'[u].names} \ {NoGroups} :
            g.all >= floor'[u].inv /\ g.members >= floor'[u].inv
      BY <3>1 DEF SeesIn
    <3> QED BY <3>2, <3>3 DEF Sees, HostSeen
  <2> QED BY <1>5, <2>2 DEF SeenInv
<1>6. ASSUME UNCHANGED <<seen, floor>>, NEW l, Goto(t, l), l \in Writing => seen[t] = Nothing
      PROVE  SeenInv'
  <2>1. SeesIn(seen'[t], floor'[t], overtaken')
    BY <1>4, <1>6 DEF SeesIn
  <2> QED BY <1>2, <1>5, <1>6, <2>1 DEF Goto
<1>7. CASE Start(t)
  <2>1. seen[t] = Nothing /\ Goto(t, "look") /\ UNCHANGED seen /\ floor' = [floor EXCEPT ![t] = done]
    BY <1>4, <1>7 DEF Start, Writing
  <2>2. pc'[t] \notin Writing
    BY <1>2, <2>1 DEF Goto, Writing
  <2> QED BY <1>2, <1>5, <2>1, <2>2, NothingSeen DEF Goto
<1>8. ASSUME Got(t), UNCHANGED floor
      PROVE  SeenInv'
  <2>1. view[t] \in {"groups", "names"}
    BY <1>1 DEF ControlOK
  <2>2. groups = NoGroups \/ (groups.all >= floor[t].inv /\ groups.members >= floor[t].inv)
    BY <1>1, <1>3 DEF GroupsKeepUp, Fresh, IsGroups
  <2>3. seen'[t] = [seen[t] EXCEPT ![view[t]] = groups]
    BY <1>2, <1>8 DEF Got
  <2>4. seen'[t].hosts = seen[t].hosts /\ seen'[t].groups \in {seen[t].groups, groups}
        /\ seen'[t].names \in {seen[t].names, groups}
    BY <1>2, <2>1, <2>3
  <2>5. SeesIn(seen'[t], floor'[t], overtaken')
    BY <1>4, <1>8, <2>2, <2>4 DEF SeesIn
  <2>6. pc'[t] \notin Writing
    BY <1>2, <1>8 DEF Got, Goto, Writing
  <2>7. \A u \in Threads \ {t} : pc'[u] = pc[u] /\ seen'[u] = seen[u]
    BY <1>2, <1>8 DEF Got, Goto
  <2> QED BY <1>5, <1>8, <2>5, <2>6, <2>7
<1>9. ASSUME NEW s, Return(t, s), UNCHANGED floor,
             \A h \in DOMAIN s : /\ s[h].inv >= floor[t].inv
                                 /\ s[h].facts >= floor[t].facts[h]
                                 /\ s[h].own >= floor[t].inv \/ (s[h].own = Stale /\ overtaken')
      PROVE  SeenInv'
  <2>1. seen'[t] = [seen[t] EXCEPT !.hosts = s]
    BY <1>2, <1>9 DEF Return
  <2>2. seen'[t].hosts = s /\ seen'[t].groups = seen[t].groups
        /\ seen'[t].names = seen[t].names
    BY <1>2, <2>1
  <2>3. SeesIn(seen'[t], floor'[t], overtaken')
    BY <1>4, <1>9, <2>2 DEF SeesIn
  <2>4. pc'[t] \notin Writing
    BY <1>2, <1>9 DEF Return, Goto, Writing
  <2>5. \A u \in Threads \ {t} : pc'[u] = pc[u] /\ seen'[u] = seen[u]
    BY <1>2, <1>9 DEF Return, Goto
  <2> QED BY <1>5, <1>9, <2>3, <2>4, <2>5
<1>10. \A h \in DOMAIN snap :
         /\ snap[h].inv >= floor[t].inv /\ snap[h].facts >= floor[t].facts[h]
         /\ snap[h].own >= floor[t].inv \/ (snap[h].own = Stale /\ overtaken')
  <2> SUFFICES ASSUME NEW h \in DOMAIN snap
               PROVE  /\ snap[h].inv >= floor[t].inv /\ snap[h].facts >= floor[t].facts[h]
                      /\ snap[h].own >= floor[t].inv \/ (snap[h].own = Stale /\ overtaken')
    OBVIOUS
  <2>1. h \in DOMAIN base /\ base[h] = snap[h]
    BY DEF FillInv
  <2>2. h \in Hosts /\ snap[h].inv \in Nat /\ snap[h].facts \in Nat /\ snap[h].own \in Int
    BY <1>1 DEF IsEntries, Versions, Stale
  <2>3. /\ snap[h].inv >= done.inv /\ snap[h].facts >= done.facts[h]
        /\ snap[h].own >= done.inv \/ (snap[h].own = Stale /\ overtaken')
    BY <1>4, <2>1 DEF HostVarsKeepUp, OwnFresh
  <2> QED BY <1>3, <2>2, <2>3
<1>11. CASE Look(t)
  BY <1>6, <1>8, <1>11 DEF Look, Writing
<1>12. CASE Again(t)
  BY <1>8, <1>12 DEF Again
<1>13. CASE Ensure(t) \/ Collect(t) \/ List(t) \/ Fill(t)
  BY <1>6, <1>13 DEF Ensure, Collect, List, Fill, Writing
<1>14. CASE Fast(t) \/ Slow(t)
  BY <1>6, <1>9, <1>10, <1>14 DEF Fast, Slow, Writing
<1>15. CASE Facts(t)
  <2>1. UNCHANGED <<floor, done>>
    BY <1>15 DEF Facts
  <2>2. CASE UNCHANGED seen /\ Goto(t, "fill")
    BY <1>6, <2>1, <2>2 DEF Writing
  <2>3. CASE Return(t, snap') /\ IsEntries(snap') /\ snap' = base'
    <3>1. \A h \in DOMAIN snap' :
            /\ h \in Hosts /\ snap'[h].inv \in Nat /\ snap'[h].facts \in Nat /\ snap'[h].own \in Int
            /\ snap'[h].inv >= done.inv /\ snap'[h].facts >= done.facts[h]
            /\ snap'[h].own >= done.inv \/ (snap'[h].own = Stale /\ overtaken')
      BY <2>1, <2>3 DEF IsEntries, Versions, Stale, HostVarsKeepUp, OwnFresh
    <3>2. \A h \in DOMAIN snap' :
            /\ snap'[h].inv >= floor[t].inv /\ snap'[h].facts >= floor[t].facts[h]
            /\ snap'[h].own >= floor[t].inv \/ (snap'[h].own = Stale /\ overtaken')
      BY <1>3, <3>1
    <3> QED BY <1>9, <2>1, <2>3, <3>2
  <2> QED BY <1>15, <2>2, <2>3, FactsFills
<1>16. ASSUME NEW op, Begin(t, op), NEW l, Goto(t, l)
       PROVE  SeenInv'
  <2>1. seen'[t] = Nothing
    BY <1>2, <1>16 DEF Begin
  <2>2. \A u \in Threads \ {t} : pc'[u] = pc[u] /\ seen'[u] = seen[u] /\ floor'[u] = floor[u]
    BY <1>2, <1>16 DEF Begin, Goto
  <2> QED BY <1>5, <2>1, <2>2, NothingSeen
<1>17. CASE \E h \in known : SetFact(t, h)
  BY <1>16, <1>17 DEF SetFact
<1>18. CASE ClearFacts(t) \/ Rescue(t) \/ Reboot(t) \/ Delegate(t) \/ TakeInventory(t) \/ Refresh(t)
  BY <1>16, <1>18 DEF ClearFacts, Rescue, Reboot, WithoutInvalidating, Delegate, TakeInventory, Refresh
<1>19. ASSUME UNCHANGED <<seen, floor>>, NEW l, Goto(t, l), pc[t] \in Writing
       PROVE  SeenInv'
  BY <1>4, <1>6, <1>19
<1>20. CASE \E h \in Hosts : NewHost(t, h)
  BY <1>19, <1>20 DEF NewHost, Writing
<1>21. CASE AddHost(t) \/ AddGroup(t)
  BY <1>19, <1>21 DEF AddHost, AddGroup, Change, Writing
<1>22. CASE DropGroups(t)
  BY <1>19, <1>22 DEF DropGroups, Writing
<1>23. CASE DropHost(t) \/ DropAll(t)
  BY <1>19, <1>23 DEF DropHost, DropAll, EndTask, Writing
<1> QED BY <1>7, <1>11, <1>12, <1>13, <1>14, <1>15, <1>17, <1>18, <1>20, <1>21, <1>22, <1>23
        DEF Step

\* Who has made sure of the groups has them until somebody invalidates them, who then
\* remembers it; nobody invalidates while they are collected.
LEMMA GivenStep ==
  ASSUME TypeOK, GivenInv, NEW t \in Threads, Step(t)
  PROVE  GivenInv'
<1> USE DEF source, caches, reading, filling, listing, writing, history
<1>1. /\ pc = [u \in Threads |-> pc[u]] /\ view \in [Threads -> {"groups", "names"}]
      /\ found \in [Threads -> Nat] /\ invVer \in Nat /\ DOMAIN seen = Threads
      /\ DOMAIN seen[t] = {"groups", "names", "hosts"}
  BY DEF TypeOK, ControlOK, SourceOK, CachesOK, IsSeen
<1>2. \A u \in Threads : Given(u)
  BY DEF GivenInv
<1>3. ASSUME Given(t)', groups' = groups \/ groups' # NoGroups, UNCHANGED shaken,
             \A u \in Threads \ {t} : pc'[u] = pc[u] /\ seen'[u] = seen[u] /\ view'[u] = view[u]
      PROVE  GivenInv'
  BY <1>2, <1>3 DEF GivenInv, Given
<1>4. CASE Start(t)
  <2>1. Given(t)'
    BY <1>1, <1>2, <1>4 DEF Start, Goto, Given
  <2> QED BY <1>1, <1>3, <1>4, <2>1 DEF Start, Goto
<1>5. ASSUME Got(t), UNCHANGED <<groups, shaken>>, groups # NoGroups \/ t \in shaken,
             pc[t] \in {"look", "again"}
      PROVE  GivenInv'
  <2>1. seen'[t] = [seen[t] EXCEPT ![view[t]] = groups]
    BY <1>1, <1>5 DEF Got
  <2>2. /\ pc'[t] = (IF view[t] = "groups" THEN "look" ELSE "hosts")
        /\ view'[t] = (IF view[t] = "groups" THEN "names" ELSE "groups")
    BY <1>1, <1>5 DEF Got, Goto
  <2>3. CASE view[t] = "groups"
    <3>1. seen'[t].groups = groups
      BY <1>1, <2>1, <2>3
    <3>2. Given(t)'
      BY <1>5, <2>2, <2>3, <3>1 DEF Given
    <3> QED BY <1>1, <1>3, <1>5, <3>2 DEF Got, Goto
  <2>4. CASE view[t] = "names"
    <3>1. seen'[t].groups = seen[t].groups /\ seen'[t].names = groups
      BY <1>1, <2>1, <2>4
    <3>2. Given(t)'
      BY <1>2, <1>5, <2>2, <2>4, <3>1 DEF Given
    <3> QED BY <1>1, <1>3, <1>5, <3>2 DEF Got, Goto
  <2> QED BY <1>1, <2>3, <2>4
<1>6. ASSUME UNCHANGED <<groups, shaken, seen, view>>, NEW l, Goto(t, l),
             \/ pc[t] = "look" /\ l = "ensure"
             \/ pc[t] = "ensure" /\ l = "collect"
             \/ pc[t] = "ensure" /\ l = "again" /\ groups # NoGroups
             \/ pc[t] = "hosts" /\ l = "fast"
             \/ pc[t] = "fast" /\ l = "slow"
             \/ pc[t] = "slow" /\ l = "fill"
             \/ pc[t] = "fill" /\ l = "facts"
             \/ pc[t] = "facts" /\ l = "fill"
             \/ pc[t] \in Writing /\ l \in Writing
      PROVE  GivenInv'
  <2>1. pc'[t] = l /\ \A u \in Threads \ {t} : pc'[u] = pc[u]
    BY <1>1, <1>6 DEF Goto
  <2>2. Given(t)'
    BY <1>2, <1>6, <2>1 DEF Given, Writing
  <2> QED BY <1>3, <1>6, <2>1, <2>2
<1>7. CASE Look(t)
  BY <1>5, <1>6, <1>7 DEF Look
<1>8. CASE Again(t)
  BY <1>2, <1>5, <1>8 DEF Again, Given
<1>9. CASE Ensure(t)
  BY <1>6, <1>9 DEF Ensure
<1>10. CASE Collect(t)
  <2>1. groups' # NoGroups
    <3>1. groups' = [all |-> found[t], members |-> invVer]
      BY <1>10 DEF Collect
    <3>2. groups'.all \in Nat
      BY <1>1, <3>1
    <3>3. NoGroups.all = -1
      BY DEF NoGroups
    <3> QED BY <3>2, <3>3
  <2>2. pc'[t] = "again" /\ pc[t] = "collect" /\ UNCHANGED <<seen, view, shaken>>
        /\ \A u \in Threads \ {t} : pc'[u] = pc[u]
    BY <1>1, <1>10 DEF Collect, Goto
  <2>3. Given(t)'
    BY <1>2, <2>1, <2>2 DEF Given
  <2> QED BY <1>3, <2>1, <2>2, <2>3
<1>11. ASSUME NEW s, Return(t, s), UNCHANGED <<groups, shaken, view>>,
              pc[t] \in {"fast", "slow", "facts"}
       PROVE  GivenInv'
  <2>1. seen'[t] = [seen[t] EXCEPT !.hosts = s] /\ pc'[t] = "run"
    BY <1>1, <1>11 DEF Return, Goto
  <2>2. seen'[t].groups = seen[t].groups /\ seen'[t].names = seen[t].names
    BY <1>1, <2>1
  <2>3. Given(t)'
    BY <1>2, <1>11, <2>1, <2>2 DEF Given
  <2> QED BY <1>1, <1>3, <1>11, <2>3 DEF Return, Goto
<1>12. CASE List(t) \/ Fill(t)
  BY <1>6, <1>12 DEF List, Fill
<1>13. CASE Fast(t) \/ Slow(t)
  BY <1>6, <1>11, <1>13 DEF Fast, Slow
<1>14. CASE Facts(t)
  <2>1. UNCHANGED <<groups, view, shaken>> /\ pc[t] = "facts"
    BY <1>14 DEF Facts
  <2>2. (\E s : Return(t, s)) \/ (UNCHANGED seen /\ Goto(t, "fill"))
    BY <1>14 DEF Facts
  <2> QED BY <1>6, <1>11, <2>1, <2>2
<1>15. ASSUME NEW op, Begin(t, op), NEW l, l \in Writing, Goto(t, l)
       PROVE  GivenInv'
  <2>1. /\ pc[t] = "run" /\ pc'[t] = l /\ UNCHANGED <<groups, view>> /\ shaken' = shaken \ {t}
        /\ \A u \in Threads \ {t} : pc'[u] = pc[u] /\ seen'[u] = seen[u]
    BY <1>1, <1>15 DEF Begin, Goto
  <2>2. ASSUME NEW u \in Threads PROVE Given(u)'
    <3>1. CASE u = t
      BY <1>2, <1>15, <2>1, <3>1 DEF Given, Writing
    <3>2. CASE u # t
      BY <1>2, <2>1, <3>2 DEF Given
    <3> QED BY <3>1, <3>2
  <2> QED BY <2>2 DEF GivenInv
<1>16. CASE \E h \in known : SetFact(t, h)
  BY <1>15, <1>16 DEF SetFact, Writing
<1>17. CASE ClearFacts(t) \/ Rescue(t) \/ Reboot(t) \/ Delegate(t) \/ TakeInventory(t) \/ Refresh(t)
  BY <1>15, <1>17 DEF ClearFacts, Rescue, Reboot, WithoutInvalidating, Delegate, TakeInventory,
     Refresh, Writing
<1>18. CASE (\E h \in Hosts : NewHost(t, h)) \/ AddHost(t) \/ AddGroup(t)
  BY <1>6, <1>18 DEF NewHost, AddHost, AddGroup, Change, Writing
<1>19. CASE DropHost(t) \/ DropAll(t)
  BY <1>6, <1>19 DEF DropHost, DropAll, EndTask, Writing
<1>20. CASE DropGroups(t)
  <2>1. /\ pc[t] = "dropGroups" /\ pc'[t] = "dropAll" /\ UNCHANGED <<seen, view>>
        /\ \A u \in Threads \ {t} : pc'[u] = pc[u]
        /\ shaken' = shaken \union {u \in Threads : pc[u] = "again"}
    BY <1>1, <1>20 DEF DropGroups, Goto
  <2>2. ASSUME NEW u \in Threads PROVE Given(u)'
    <3>1. pc[u] = "again" => u \in shaken'
      BY <2>1
    <3>2. u \in shaken => u \in shaken'
      BY <2>1
    <3>3. CASE u = t
      BY <1>2, <2>1, <3>2, <3>3 DEF Given
    <3>4. CASE u # t
      BY <1>2, <2>1, <3>1, <3>2, <3>4 DEF Given
    <3> QED BY <3>3, <3>4
  <2> QED BY <2>2 DEF GivenInv
<1> QED BY <1>4, <1>7, <1>8, <1>9, <1>10, <1>12, <1>13, <1>14, <1>16, <1>17, <1>18, <1>19, <1>20
        DEF Step

-----------------------------------------------------------------------------
(* The theorems                                                             *)

LEMMA NextIInv == IInv /\ [Next]_vars => IInv'
<1> SUFFICES ASSUME IInv, [Next]_vars PROVE IInv'
  OBVIOUS
<1>1. CASE UNCHANGED vars
  <2>1. (TypeOK /\ FillInv)'
    BY <1>1 DEF IInv, vars, source, caches, reading, filling, listing, writing, history, TypeOK, SourceOK,
       ControlOK, CachesOK, FillingOK, FillInv, Filling, HostVarsFree
  <2>2. (SourceAhead /\ GroupsKeepUp)'
    BY <1>1 DEF IInv, vars, source, caches, reading, filling, listing, writing, history, SourceAhead, GroupsKeepUp,
       Fresh
  <2>3. (HostVarsKeepUp /\ HeldInv)'
    BY <1>1 DEF IInv, vars, source, caches, reading, filling, listing, writing, history,
       HostVarsKeepUp, OwnFresh, HeldInv, HoldsHosts
  <2>4. (SeenInv /\ GivenInv)'
    BY <1>1 DEF IInv, vars, source, caches, reading, filling, listing, writing, history, SeenInv,
       Sees, HostSeen, GivenInv, Given
  <2> QED BY <2>1, <2>2, <2>3, <2>4 DEF IInv
<1>2. ASSUME NEW t \in Threads, Step(t) PROVE IInv'
  <2>1. SourceOK' /\ ControlOK'
    BY <1>2, SourceStep, ControlStep DEF IInv, TypeOK
  <2>2. CachesOK'
    BY <1>2, CachesStep DEF IInv
  <2>3. FillingOK' /\ FillInv'
    BY <1>2, FillStep DEF IInv
  <2>4. TypeOK'
    BY <2>1, <2>2, <2>3 DEF TypeOK
  <2>5. SourceAhead'
    BY <1>2, <2>1, AheadStep DEF IInv, TypeOK
  <2>6. GroupsKeepUp' /\ HostVarsKeepUp' /\ HeldInv' /\ GivenInv'
    BY <1>2, GroupsStep, HostVarsStep, HeldStep, GivenStep DEF IInv
  <2>7. SeenInv'
    BY <1>2, <2>3, <2>4, <2>5, <2>6, SeenStep DEF IInv
  <2> QED BY <2>3, <2>4, <2>5, <2>6, <2>7 DEF IInv
<1> QED BY <1>1, <1>2 DEF Next

LEMMA SpecIInv == Spec => []IInv
BY InitIInv, NextIInv, PTL DEF Spec

\* Types, and no host is filled in twice.
THEOREM TypesHold == Spec => []TypeOK
<1>1. IInv => TypeOK
  BY DEF IInv
<1> QED BY <1>1, SpecIInv, PTL

\* Whatever the hosts write and however the goroutines that fill the caches interleave with
\* those that invalidate them, a task sees all that the tasks ended before it had written
\* and invalidated the caches for, with the two exceptions LaterTasksSee names: groups
\* that were invalidated just before they were read, and hosts held over a refresh.
THEOREM TasksSee == Spec => []LaterTasksSee
<1>1. ASSUME IInv, NEW t \in Threads, pc[t] = "run"
      PROVE  /\ GroupsSeen(seen[t].groups, t) /\ GroupsSeen(seen[t].names, t)
             /\ \A h \in DOMAIN seen[t].hosts : HostSeen(seen[t].hosts[h], h, t)
  <2>1. Sees(t) /\ Given(t)
    BY <1>1 DEF IInv, SeenInv, GivenInv
  <2> QED BY <1>1, <2>1 DEF Sees, Given, GroupsSeen
<1>2. IInv => LaterTasksSee
  BY <1>1 DEF LaterTasksSee
<1> QED BY <1>2, SpecIInv, PTL

\* The two maps of host variables agree whenever nobody fills them in.
THEOREM MapsAgree == Spec => []CachesAgree
<1>1. IInv => CachesAgree
  BY DEF IInv, TypeOK, CachesOK, IsEntries, FillInv, CachesAgree
<1> QED BY <1>1, SpecIInv, PTL

=============================================================================
