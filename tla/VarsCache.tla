------------------------------ MODULE VarsCache ------------------------------
(***************************************************************************)
(* The caches behind the variables of a task (taskVarsForHost of           *)
(* pkg/playbook/executor.go): the map of groups with the names of groups,  *)
(* under groupsMu, and the variables of all hosts, under hostVarsMu.  The  *)
(* goroutines of the hosts fill and read them before each task, and the    *)
(* tasks change what they are made of, the facts (under e.mu) and the      *)
(* inventory (under its cacheMu), and then invalidate them.                *)
(*                                                                         *)
(* Values are abstracted to versions: a write makes a new version of the   *)
(* facts of a host or of the inventory, and a cache holds the versions it  *)
(* was filled from.  A section under e.mu or cacheMu is one step; filling  *)
(* a cache takes several, with the lock of the cache held.                 *)
(***************************************************************************)
EXTENDS Integers, FiniteSets

CONSTANTS
  Threads,   \* the hosts of the play: each has a goroutine that runs its tasks
  Hosts,     \* all hosts there may ever be
  Initial,   \* the hosts of the inventory at the start
  Localhost, \* the implicit host, made when a task first asks for it
  Reloads,   \* what reloading the inventory may find
  Ops,       \* what tasks do: a subset of AllOps
  MaxTasks   \* bound: tasks of each thread

AllOps == {"set_fact", "clear_facts", "rescue", "reboot", "add_host", "group_by", "refresh",
           "delegate"}

ASSUME HostsAssumption == /\ Hosts \subseteq Nat /\ IsFiniteSet(Hosts)
                          /\ Threads \subseteq Hosts /\ Localhost \in Hosts
ASSUME InventoryAssumption == /\ Initial \in (SUBSET Hosts) \ {{}}
                              /\ Reloads \subseteq (SUBSET Hosts) \ {{}}
ASSUME TasksAssumption == Ops \subseteq AllOps /\ MaxTasks \in Nat

VARIABLES
  known,   \* AllHosts of the inventory
  invVer,  \* its version
  loads,   \* how often it was replaced
  factVer, \* the version of the facts of each host
  groups,  \* cachedGroupsMap and cachedGroupNames, NoGroups if dirty
  base,    \* baseHostVarsCache
  snap,    \* cachedHostVarsSnapshot, empty if nil
  pc,      \* where each goroutine is
  left,    \* the tasks it has left
  view,    \* what it reads from the cache of groups
  found,   \* the version of the inventory it read while it fills a cache
  own,     \* the version of the host object it read with it
  listed,  \* its allHosts, read before it takes hostVarsMu
  from,    \* the inventory they are of: how often it had been replaced
  todo,    \* the hosts it has still to fill in
  seen,    \* the variables its task got
  inv,     \* the inventory its module works on
  wrote,   \* what its task wrote: [host, facts, inv]
  done,    \* history: the newest versions written by tasks that have ended
  floor,   \* history: done, as it was when its task began
  shaken,  \* history: who lost the groups between making sure of them and reading them
  overtaken  \* history: the inventory was replaced while somebody held hosts of it

source  == <<known, invVer, loads, factVer>>
caches  == <<groups, base, snap>>
filling == <<found, own>>
listing == <<listed, from>>
reading == <<view, filling, listing, todo, seen>>
writing == <<inv, wrote>>
history == <<done, floor, shaken, overtaken>>
vars    == <<source, caches, pc, left, reading, writing, history>>

NoGroups == [all |-> -1, members |-> -1]
Stale    == -1     \* the version of a host of an inventory that was replaced
Nothing  == [groups |-> NoGroups, names |-> NoGroups, hosts |-> [h \in {} |-> NoGroups]]
Unwritten == [host |-> Localhost, facts |-> 0, inv |-> 0]
Zero     == [facts |-> [h \in Hosts |-> 0], inv |-> 0]
Newer(a, b) == IF a > b THEN a ELSE b

Goto(t, l) == pc' = [pc EXCEPT ![t] = l]

\* groupsMu is held while a goroutine collects, hostVarsMu while it fills in.
GroupsFree   == \A t \in Threads : pc[t] # "collect"
HostVarsFree == \A t \in Threads : pc[t] \notin {"fill", "facts"}

Init ==
  /\ known = Initial /\ invVer = 0 /\ loads = 0
  /\ factVer = [h \in Hosts |-> 0]
  /\ groups = NoGroups /\ base = Nothing.hosts /\ snap = Nothing.hosts
  /\ pc = [t \in Threads |-> "idle"]
  /\ left = [t \in Threads |-> MaxTasks]
  /\ view = [t \in Threads |-> "groups"]
  /\ found = [t \in Threads |-> 0] /\ own = found
  /\ listed = [t \in Threads |-> {}]
  /\ from = [t \in Threads |-> 0]
  /\ todo = [t \in Threads |-> {}]
  /\ seen = [t \in Threads |-> Nothing]
  /\ inv = [t \in Threads |-> 0]
  /\ wrote = [t \in Threads |-> Unwritten]
  /\ done = Zero
  /\ floor = [t \in Threads |-> Zero]
  /\ shaken = {} /\ overtaken = FALSE

Start(t) ==
  /\ pc[t] = "idle" /\ left[t] > 0
  /\ left' = [left EXCEPT ![t] = @ - 1]
  /\ floor' = [floor EXCEPT ![t] = done]
  /\ Goto(t, "look")
  /\ UNCHANGED <<source, caches, reading, writing, done, shaken, overtaken>>

-----------------------------------------------------------------------------
(* buildGroupsMap and then buildGroupNamesForHost, by the same steps.       *)

Got(t) ==
  /\ seen' = [seen EXCEPT ![t][view[t]] = groups]
  /\ view' = [view EXCEPT ![t] = IF @ = "groups" THEN "names" ELSE "groups"]
  /\ Goto(t, IF view[t] = "groups" THEN "look" ELSE "hosts")

Look(t) ==
  /\ pc[t] = "look" /\ GroupsFree
  /\ \/ groups # NoGroups /\ Got(t)
     \/ groups = NoGroups /\ Goto(t, "ensure") /\ UNCHANGED <<seen, view>>
  /\ UNCHANGED <<source, caches, left, filling, listing, todo, writing, history>>

Ensure(t) ==
  /\ pc[t] = "ensure" /\ GroupsFree
  /\ \/ groups # NoGroups /\ Goto(t, "again") /\ UNCHANGED found
     \/ /\ groups = NoGroups /\ Goto(t, "collect")
        /\ found' = [found EXCEPT ![t] = invVer]
  /\ UNCHANGED <<source, caches, left, view, own, listing, todo, seen, writing, history>>

\* The hosts were read before, the groups are read now.
Collect(t) ==
  /\ pc[t] = "collect"
  /\ groups' = [all |-> found[t], members |-> invVer]
  /\ found' = [found EXCEPT ![t] = 0]
  /\ Goto(t, "again")
  /\ UNCHANGED <<source, base, snap, left, view, own, listing, todo, seen, writing, history>>

Again(t) ==
  /\ pc[t] = "again" /\ GroupsFree
  /\ Got(t)
  /\ UNCHANGED <<source, caches, left, filling, listing, todo, writing, history>>

-----------------------------------------------------------------------------
(* buildHostVarsSnapshot                                                    *)

\* The hosts are objects of the inventory there is now.
List(t) ==
  /\ pc[t] = "hosts"
  /\ listed' = [listed EXCEPT ![t] = known] /\ from' = [from EXCEPT ![t] = loads]
  /\ Goto(t, "fast")
  /\ UNCHANGED <<source, caches, left, view, filling, todo, seen, writing, history>>

Without(f, S) == [h \in DOMAIN f \ S |-> f[h]]

\* The host's own entry too: mergeCurrentHostVars puts the variables it has just read
\* over it, but what they do not cover, a fact cleared since, is still the entry's.
Return(t, s) ==
  /\ seen' = [seen EXCEPT ![t].hosts = s]
  /\ listed' = [listed EXCEPT ![t] = {}] /\ from' = [from EXCEPT ![t] = 0]
  /\ Goto(t, "run")

SameSize(t) == Cardinality(DOMAIN snap) = Cardinality(listed[t])

Fast(t) ==
  /\ pc[t] = "fast" /\ HostVarsFree
  /\ \/ SameSize(t) /\ Return(t, snap)
     \/ ~SameSize(t) /\ Goto(t, "slow") /\ UNCHANGED <<seen, listing>>
  /\ UNCHANGED <<source, caches, left, view, filling, todo, writing, history>>

Missing(t) == IF SameSize(t) THEN {} ELSE listed[t] \ DOMAIN snap

Slow(t) ==
  /\ pc[t] = "slow" /\ HostVarsFree
  /\ \/ Missing(t) = {} /\ Return(t, snap) /\ UNCHANGED todo
     \/ /\ Missing(t) # {} /\ Goto(t, "fill")
        /\ todo' = [todo EXCEPT ![t] = Missing(t)]
        /\ UNCHANGED <<seen, listing>>
  /\ UNCHANGED <<source, caches, left, view, filling, writing, history>>

\* Hosts are filled in by name: first what the inventory of now has for the groups of
\* the host, and the variables of the object that was listed,
Fill(t) ==
  /\ pc[t] = "fill"
  /\ found' = [found EXCEPT ![t] = invVer]
  /\ own' = [own EXCEPT ![t] = IF from[t] = loads THEN invVer ELSE Stale]
  /\ Goto(t, "facts")
  /\ UNCHANGED <<source, caches, left, view, listing, todo, seen, writing, history>>

First(S) == {h \in S : \A g \in S : h <= g}
With(s, f, S) == [h \in DOMAIN s \union S |-> IF h \in S THEN f[h] ELSE s[h]]

\* then the facts; an entry that base has is taken as it is.
Facts(t) ==
  /\ pc[t] = "facts"
  /\ \E h \in First(todo[t]) :
       LET entry == IF h \in DOMAIN base THEN base[h]
                    ELSE [inv |-> found[t], own |-> own[t], facts |-> factVer[h]]
           now   == With(base, [g \in {h} |-> entry], {h})
           full  == With(snap, now, listed[t] \ DOMAIN snap)
       IN /\ base' = now
          /\ todo' = [todo EXCEPT ![t] = @ \ {h}]
          /\ IF todo[t] = {h} THEN snap' = full /\ Return(t, full)
             ELSE Goto(t, "fill") /\ UNCHANGED <<snap, seen, listing>>
  /\ found' = [found EXCEPT ![t] = 0] /\ own' = [own EXCEPT ![t] = 0]
  /\ UNCHANGED <<source, groups, left, view, writing, history>>

-----------------------------------------------------------------------------
(* What the task does: a write, and the invalidations after it.             *)

Begin(t, op) ==
  /\ pc[t] = "run" /\ op \in Ops
  /\ seen' = [seen EXCEPT ![t] = Nothing]
  /\ floor' = [floor EXCEPT ![t] = Zero] /\ shaken' = shaken \ {t}
  /\ UNCHANGED <<caches, left, view, filling, listing, todo, done>>

NewFacts(h) == factVer' = [factVer EXCEPT ![h] = @ + 1]
Wrote(t, h, i) == wrote' = [wrote EXCEPT ![t] = [host |-> h, facts |-> factVer'[h], inv |-> i]]

\* mergeAnsibleFacts, storeRegisteredResult, include_vars: of the host itself or,
\* with delegate_facts or run_once, of another one.
SetFact(t, h) ==
  /\ Begin(t, "set_fact")
  /\ NewFacts(h) /\ Wrote(t, h, 0)
  /\ Goto(t, "dropHost")
  /\ UNCHANGED <<known, invVer, loads, inv, overtaken>>

ClearFacts(t) ==
  /\ Begin(t, "clear_facts")
  /\ NewFacts(t) /\ Wrote(t, t, 0)
  /\ Goto(t, "dropHost")
  /\ UNCHANGED <<known, invVer, loads, inv, overtaken>>

\* ansible_failed_task and ansible_failed_result are set; the facts of a host that was
\* rebooted are forgotten.  Neither invalidates anything.
WithoutInvalidating(t, op) ==
  /\ Begin(t, op)
  /\ NewFacts(t)
  /\ Goto(t, "idle")
  /\ UNCHANGED <<known, invVer, loads, writing, overtaken>>

Rescue(t) == WithoutInvalidating(t, "rescue")
Reboot(t) == WithoutInvalidating(t, "reboot")

\* GetHost("localhost"): EnsureLocalhost changes the inventory, and no more.
Delegate(t) ==
  /\ Begin(t, "delegate")
  /\ known' = known \union {Localhost}
  /\ Goto(t, "idle")
  /\ UNCHANGED <<invVer, loads, factVer, writing, overtaken>>

\* add_host and group_by take the inventory of now,
TakeInventory(t) ==
  /\ \/ Begin(t, "add_host") /\ Goto(t, "newHost")
     \/ Begin(t, "group_by") /\ Goto(t, "newGroup")
  /\ inv' = [inv EXCEPT ![t] = loads]
  /\ UNCHANGED <<source, wrote, overtaken>>

\* set the variables and facts of a host, known or not,
NewHost(t, h) ==
  /\ pc[t] = "newHost"
  /\ invVer' = IF h \in known /\ inv[t] = loads THEN invVer + 1 ELSE invVer
  /\ NewFacts(h) /\ Wrote(t, h, IF invVer' = invVer THEN 0 ELSE invVer')
  /\ Goto(t, "addHost")
  /\ UNCHANGED <<known, loads, caches, left, reading, inv, history>>

\* and change it: when it has been replaced since, nobody looks at it any more.
Change(t, hosts) ==
  /\ IF inv[t] = loads
     THEN /\ known' = known \union hosts
          /\ invVer' = invVer + 1
          /\ wrote' = [wrote EXCEPT ![t].inv = invVer']
     ELSE UNCHANGED <<known, invVer, wrote>>
  /\ inv' = [inv EXCEPT ![t] = 0]
  /\ Goto(t, "dropGroups")
  /\ UNCHANGED <<loads, factVer, caches, left, reading, history>>

AddHost(t)  == pc[t] = "addHost" /\ Change(t, {wrote[t].host})
AddGroup(t) == pc[t] = "newGroup" /\ Change(t, {})

HoldsHosts(t) == pc[t] \in {"fast", "slow", "fill", "facts"}

\* meta: refresh_inventory
Refresh(t) ==
  /\ Begin(t, "refresh")
  /\ known' \in Reloads
  /\ invVer' = invVer + 1
  /\ loads' = loads + 1
  /\ overtaken' = (overtaken \/ \E u \in Threads : HoldsHosts(u))
  /\ wrote' = [wrote EXCEPT ![t] = [Unwritten EXCEPT !.inv = invVer']]
  /\ Goto(t, "dropGroups")
  /\ UNCHANGED <<factVer, inv>>

-----------------------------------------------------------------------------
(* invalidateGroupsCache and invalidateHostVarsCache                        *)

DropGroups(t) ==
  /\ pc[t] = "dropGroups" /\ GroupsFree
  /\ groups' = NoGroups
  /\ shaken' = shaken \union {u \in Threads : pc[u] = "again"}
  /\ Goto(t, "dropAll")
  /\ UNCHANGED <<source, base, snap, left, reading, writing, done, floor, overtaken>>

\* Mutant: the map of host variables is forgotten.
InvalidateSnapshot(S) == base' = base /\ snap' = Without(snap, S)

Invalidate(S) == base' = Without(base, S) /\ snap' = Without(snap, S)

EndTask(t) ==
  /\ done' = [inv   |-> Newer(done.inv, wrote[t].inv),
              facts |-> [done.facts EXCEPT ![wrote[t].host] = Newer(@, wrote[t].facts)]]
  /\ wrote' = [wrote EXCEPT ![t] = Unwritten]
  /\ Goto(t, "idle")

DropHost(t) ==
  /\ pc[t] = "dropHost" /\ HostVarsFree
  /\ Invalidate({wrote[t].host})
  /\ EndTask(t)
  /\ UNCHANGED <<source, groups, left, reading, inv, floor, shaken, overtaken>>

DropAll(t) ==
  /\ pc[t] = "dropAll" /\ HostVarsFree
  /\ Invalidate(Hosts)
  /\ EndTask(t)
  /\ UNCHANGED <<source, groups, left, reading, inv, floor, shaken, overtaken>>

Step(t) ==
  \/ Start(t)
  \/ Look(t) \/ Ensure(t) \/ Collect(t) \/ Again(t)
  \/ List(t) \/ Fast(t) \/ Slow(t) \/ Fill(t) \/ Facts(t)
  \/ \E h \in known : SetFact(t, h)
  \/ ClearFacts(t) \/ Rescue(t) \/ Reboot(t) \/ Delegate(t)
  \/ TakeInventory(t)
  \/ \E h \in Hosts : NewHost(t, h)
  \/ AddHost(t) \/ AddGroup(t) \/ Refresh(t)
  \/ DropGroups(t) \/ DropHost(t) \/ DropAll(t)

Next == \E t \in Threads : Step(t)

Spec == Init /\ [][Next]_vars

-----------------------------------------------------------------------------
(* Properties                                                               *)

Versions     == [inv : Nat, own : Nat \union {Stale}, facts : Nat]
IsGroups(g)  == g \in [all : Nat, members : Nat] \/ g = NoGroups
IsEntries(f) == DOMAIN f \subseteq Hosts /\ f \in [DOMAIN f -> Versions]
IsSeen(s)    == /\ DOMAIN s = {"groups", "names", "hosts"}
                /\ IsGroups(s.groups) /\ IsGroups(s.names) /\ IsEntries(s.hosts)
Marks        == [inv : Nat, facts : [Hosts -> Nat]]

SourceOK ==
  /\ known \in SUBSET Hosts /\ known # {}
  /\ invVer \in Nat /\ loads \in Nat /\ factVer \in [Hosts -> Nat]
  /\ inv \in [Threads -> Nat]
  /\ wrote \in [Threads -> [host : Hosts, facts : Nat, inv : Nat]]
  /\ done \in Marks /\ floor \in [Threads -> Marks]
  /\ shaken \subseteq Threads /\ overtaken \in BOOLEAN

ControlOK ==
  /\ pc \in [Threads -> {"idle", "look", "ensure", "collect", "again", "hosts", "fast",
                         "slow", "fill", "facts", "run", "newHost", "addHost", "newGroup",
                         "dropHost", "dropGroups", "dropAll"}]
  /\ left \in [Threads -> 0..MaxTasks]
  /\ view \in [Threads -> {"groups", "names"}]
  /\ found \in [Threads -> Nat] /\ own \in [Threads -> Nat \union {Stale}]
  /\ listed \in [Threads -> SUBSET Hosts] /\ from \in [Threads -> Nat]
  /\ todo \in [Threads -> SUBSET Hosts]

CachesOK ==
  /\ IsGroups(groups) /\ IsEntries(base) /\ IsEntries(snap)
  /\ DOMAIN seen = Threads /\ \A t \in Threads : IsSeen(seen[t])

FillingOK ==
  \A t \in Threads : /\ (pc[t] \in {"fill", "facts"}) <=> (todo[t] # {})
                     /\ todo[t] \intersect DOMAIN base = {}

\* Every variable has its type, and a goroutine that fills in hosts has some to fill in,
\* none of which is in base yet.
TypeOK == SourceOK /\ ControlOK /\ CachesOK /\ FillingOK

\* What a task gets of the groups, and of a host, with what it may lack.
GroupsSeen(g, t) ==
  IF g = NoGroups THEN t \in shaken
  ELSE g.all >= floor[t].inv /\ g.members >= floor[t].inv

HostSeen(e, h, t) ==
  /\ e.inv >= floor[t].inv /\ e.facts >= floor[t].facts[h]
  /\ e.own >= floor[t].inv \/ (e.own = Stale /\ overtaken)

\* What a task that has ended wrote and invalidated the caches for, to the facts of a host
\* or to the inventory, every task that begins later sees: in the groups, in the names of
\* groups and in the variables of all hosts, whoever filled the caches meanwhile.  (The
\* facts set by a rescue or dropped by a reboot, and the implicit localhost, come without
\* an invalidation; no claim is made of them.)  It gets no groups at all only if they were
\* invalidated after it had made sure of them and before it read them, and it gets the
\* variables a host had in an earlier inventory only if that inventory was replaced while
\* a goroutine held hosts of it.
LaterTasksSee ==
  \A t \in Threads : pc[t] = "run" =>
    /\ GroupsSeen(seen[t].groups, t) /\ GroupsSeen(seen[t].names, t)
    /\ \A h \in DOMAIN seen[t].hosts : HostSeen(seen[t].hosts[h], h, t)

\* The snapshot and the variables it was made from hold the same entries whenever nobody
\* fills them in, through every mix of whole and single invalidations and refills.
CachesAgree == HostVarsFree => snap = base

=============================================================================
