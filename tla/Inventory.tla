------------------------------ MODULE Inventory ------------------------------
(***************************************************************************)
(* The inventory of a run: it is read from its sources, each of them a     *)
(* file or a directory of files, every file is parsed into an inventory of *)
(* its own and merged, the group_vars and host_vars beside it and the      *)
(* options of the command line are laid over it; then the plays match      *)
(* hosts against it, resolve their variables from it, and change it with   *)
(* add_host, group_by and meta: refresh_inventory.                         *)
(*                                                                         *)
(* Two settings stand for all of them: "timeout" is an ordinary variable,  *)
(* "user" is ansible_user, which the parsers put into the host itself.  A  *)
(* value is the place it was set in: the name of the source, "dir" for   *)
(* the variable directories, "play" for a task.                            *)
(***************************************************************************)
EXTENDS Integers, FiniteSets, Sequences, Functions

CONSTANTS
  HostNames, GroupNames,  \* hosts, and groups other than all, each in the order of their names
  Runs,                   \* what a run may be started with, see RunType
  Globs,                  \* the hosts a wildcard or regular expression matches, by expression
  Patterns, Limits,       \* the host patterns of plays, and those of --limit
  GroupLists              \* the lists of groups a task may name

Hosts  == Range(HostNames)
Groups == Range(GroupNames) \union {"all"}
Keys   == {"timeout", "user"}
None   == "none"
Nobody == <<None, None>>

(* A file: an INI file is a sequence of lines, a JSON or a YAML file a set *)
(* of groups, of which each YAML group stands once, below its parent.      *)
Line  == [head : {"group", "children", "vars", None}, name : Hosts \union Groups \union {None},
          keys : SUBSET Keys]
Entry == [name : Groups, keys : SUBSET Keys, children : Seq(Groups),
          hosts : UNION {[H -> SUBSET Keys] : H \in SUBSET Hosts}]
IsFile(f) == \/ f.format = "ini" /\ f.lines \in Seq(Line)
             \/ f.format = "inline" /\ f.hosts \subseteq Hosts
             \/ /\ f.format \in {"json", "yaml"}
                /\ \A e \in f.entries : e \in Entry /\ \A d \in f.entries : d.name = e.name => d = e
                /\ f.format = "yaml" =>
                     \A d, e \in f.entries : Range(d.children) \intersect Range(e.children) # {} => d = e

(* What a run is started with: its sources, the variable directories, and  *)
(* who sets the user: ansible.cfg, --user or an extra variable; changes is a *)
(* bound: how often the plays change the inventory.                         *)
ASSUME RunsAssumption ==
  \A r \in Runs : /\ \A s \in Range(r.sources) : s.name \notin {None, "dir", "play"} /\ s.dir \in BOOLEAN /\ \A f \in Range(s.files) : IsFile(f)
                  /\ r.groupVars \in [Groups -> SUBSET Keys] /\ r.hostVars \in [Hosts -> SUBSET Keys]
                  /\ r.users \subseteq {"config", "cli", "extra"} /\ r.changes \in Nat

(* A pattern is a sequence of terms [sign, kind, name, from, to]; a bound  *)
(* of a slice may be absent, <<>>.                                         *)
ASSUME PatternsAssumption ==
  \A p \in Patterns \union Limits : /\ p # <<>>
                      /\ \A t \in Range(p) : /\ t.sign \in {"", "&", "!"} /\ Len(t.from) <= 1 /\ Len(t.to) <= 1
                                             /\ t.kind = "glob" => t.name \in DOMAIN Globs

VARIABLES
  run,      \* what the run was started with (never changes)
  pc,       \* source, read, close, dirs, options, play
  at,       \* [source, file, line]: where the reading is
  section,  \* the section of the INI file, or the groups of the YAML file read so far
  doc,      \* the inventory of the file being read
  part,     \* the inventory of the directory being read
  inv,      \* the inventory of the run
  again,    \* whether refresh_inventory reads
  ops,      \* the changes the plays have made
  \* history, for the properties only
  written   \* memberships and children as the files and the tasks state them, who set the
            \* timeout of each group and of each host last, and of which hosts host_vars sets it

vars == <<run, pc, at, section, doc, part, inv, again, ops, written>>
-----------------------------------------------------------------------------
(* Inventories                                                             *)

(* A setting of a group, or the user of a host, by the place it was set in. *)
EmptyInventory ==
  [hosts |-> {}, groups |-> {}, members |-> [g \in Groups |-> {}], children |-> [g \in Groups |-> <<>>],
   parent |-> [g \in Groups |-> None], gvars |-> [g \in Groups |-> [k \in Keys |-> None]],
   hvar |-> [h \in Hosts |-> None], user |-> [h \in Hosts |-> Nobody], uservar |-> {},
   global |-> None, rawGroup |-> [g \in Groups |-> None], rawHost |-> [h \in Hosts |-> None]]

Over(new, old) == IF new = None THEN old ELSE new

EnsureGroups(i, gs) == [i EXCEPT !.groups = @ \union gs]

(* The group itself as a child, or a detached group of the same name.      *)
Child(g)        == [name |-> g, detached |-> FALSE, hosts |-> {}]
Copy(g, hs)     == [name |-> g, detached |-> TRUE, hosts |-> hs]
ChildNames(i, g) == {c.name : c \in Range(i.children[g])}
AppendChild(i, p, c) ==
  IF c.name \in ChildNames(i, p) THEN i ELSE [i EXCEPT !.children[p] = Append(@, c)]

SetGroup(i, g, keys, src) ==
  [i EXCEPT !.gvars[g] = [k \in Keys |-> IF k \in keys THEN src ELSE @[k]]]

ApplyHostVariables(i, h, keys, src) ==
  [i EXCEPT !.hvar[h] = IF "timeout" \in keys THEN src ELSE @,
            !.user[h] = IF "user" \in keys THEN <<"host", src>> ELSE @]

AddUnlessKnown(i, h, keys, src) ==
  IF h \in i.hosts THEN i ELSE ApplyHostVariables([i EXCEPT !.hosts = @ \union {h}], h, keys, src)

(* Group variables reach a host that has no user yet: all first, then the  *)
(* groups it is listed in, in whatever order a Go map gives them.          *)
Orders(S) == Injection(S, 1..Cardinality(S))
UserFromGroups(i, first, h) ==
  LET givers == {g \in DOMAIN first : h \in i.members[g]} IN
  IF i.user[h] # Nobody THEN i.user[h]
  ELSE IF i.gvars["all"]["user"] # None THEN <<"all", i.gvars["all"]["user"]>>
  ELSE IF givers # {} THEN LET g == CHOOSE g \in givers : \A x \in givers : first[g] <= first[x]
                           IN  <<g, i.gvars[g]["user"]>>
  ELSE Nobody
ApplyGroupVars(i) ==
  {[i EXCEPT !.global = Over(i.gvars["all"]["timeout"], @),
             !.user = [h \in Hosts |-> IF h \in i.hosts THEN UserFromGroups(i, first, h) ELSE Nobody]] :
     first \in Orders({g \in i.groups \ {"all"} : i.gvars[g]["user"] # None})}

(* Merge keeps the user of a host that has one, lets later variables       *)
(* replace earlier ones, and does not know of parents.                     *)
MergedUserLast(i, o, h) == IF o.user[h] # Nobody THEN o.user[h] ELSE i.user[h]
MergedUser(i, o, h) == IF h \in i.hosts /\ i.user[h] # Nobody THEN i.user[h] ELSE o.user[h]
RECURSIVE AppendChildren(_, _, _)
AppendChildren(i, p, cs) ==
  IF cs = <<>> THEN i ELSE AppendChildren(AppendChild(i, p, Child(Head(cs).name)), p, Tail(cs))
MergeOnly(i, o) ==
  [i EXCEPT
     !.hosts    = @ \union o.hosts,
     !.user     = [h \in Hosts |-> IF h \in o.hosts THEN MergedUser(i, o, h) ELSE @[h]],
     !.hvar     = [h \in Hosts |-> Over(o.hvar[h], @[h])],
     !.global   = Over(o.global, @),
     !.groups   = @ \union o.groups,
     !.gvars    = [g \in Groups |-> [k \in Keys |-> Over(o.gvars[g][k], @[g][k])]],
     !.members  = [g \in Groups |-> @[g] \union o.members[g]],
     !.children = [g \in Groups |-> AppendChildren(i, g, o.children[g]).children[g]]]
Merge(i, o) == ApplyGroupVars(MergeOnly(i, o))
-----------------------------------------------------------------------------
(* Reading                                                                 *)

Source   == run.sources[at.source]
File     == Source.files[at.file]
Name     == Source.name

(* What a file or a task states is kept as it stands, for the properties.  *)
Nothing == [in |-> {}, under |-> {}, latest |-> [g \in Groups |-> None], own |-> [h \in Hosts |-> None], dir |-> {}]
States(ins, unders, setters, owners, src) ==
  written' = [written EXCEPT !.in = @ \union ins, !.under = @ \union unders,
                             !.latest = [g \in Groups |-> IF g \in setters THEN src ELSE @[g]],
                             !.own = [h \in Hosts |-> IF h \in owners THEN src ELSE @[h]]]
SetsTimeout(keys, x) == IF "timeout" \in keys THEN {x} ELSE {}

Init ==
  /\ run \in Runs /\ pc = "source" /\ at = [source |-> 1, file |-> 1, line |-> 1]
  /\ section = None /\ doc = EmptyInventory /\ part = EmptyInventory /\ inv = EmptyInventory
  /\ again = FALSE /\ ops = 0 /\ written = Nothing

Open ==
  /\ pc = "source" /\ at.source <= Len(run.sources)
  /\ pc' = "read" /\ doc' = EmptyInventory
  /\ section' = IF File.format = "ini" THEN <<None, None>> ELSE {}
  /\ at' = [at EXCEPT !.line = 1]
  /\ UNCHANGED <<run, part, inv, again, ops, written>>

ReadHeader ==
  /\ pc = "read" /\ File.format = "ini" /\ at.line <= Len(File.lines)
  /\ LET l == File.lines[at.line] IN
     /\ l.head # None
     /\ doc' = EnsureGroups(doc, {l.name}) /\ section' = <<l.head, l.name>>
  /\ at' = [at EXCEPT !.line = @ + 1]
  /\ UNCHANGED <<run, pc, part, inv, again, ops, written>>

(* A line of a group names a host, or a child, or sets variables.  A host  *)
(* that stands there twice keeps what its first line says.                 *)
ReadLine ==
  /\ pc = "read" /\ File.format = "ini" /\ at.line <= Len(File.lines)
  /\ LET l == File.lines[at.line]
         g == IF section[1] = None THEN "ungrouped" ELSE section[2]
     IN
     /\ l.head = None
     /\ CASE section[1] = "children" ->
               /\ doc' = AppendChild([EnsureGroups(doc, {l.name}) EXCEPT !.parent[l.name] = g], g, Child(l.name))
               /\ States({}, {<<g, l.name>>}, {}, {}, Name)
          [] section[1] = "vars" ->
               /\ doc' = SetGroup(doc, g, l.keys, Name)
               /\ States({}, {}, SetsTimeout(l.keys, g), {}, Name)
          [] OTHER ->
               /\ doc' = [AddUnlessKnown(EnsureGroups(doc, {g, "all"}), l.name, l.keys, Name)
                            EXCEPT !.members[g] = @ \union {l.name}, !.members["all"] = @ \union {l.name}]
               /\ States({<<g, l.name>>}, {}, {}, SetsTimeout(l.keys, l.name) \ doc.hosts, Name)
  /\ at' = [at EXCEPT !.line = @ + 1]
  /\ UNCHANGED <<run, pc, section, part, inv, again, ops>>

(* A group of a YAML file is read after the one it stands in; if there is  *)
(* an all, what does not stand in it is not read.  A child without a body  *)
(* is passed over.                                                         *)
EntryNames   == {e.name : e \in File.entries}
Holders(n)   == {e \in File.entries : n \in Range(e.children)}
Readable(e)  == IF Holders(e.name) = {} THEN "all" \notin EntryNames \/ e.name = "all"
                ELSE \E p \in Holders(e.name) : p.name \in section
RECURSIVE AddHosts(_, _, _, _, _)
AddHosts(i, g, hs, keys, src) ==
  IF hs = {} THEN i
  ELSE LET h == CHOOSE h \in hs : TRUE IN
       AddHosts([AddUnlessKnown(i, h, keys[h], src) EXCEPT !.members[g] = @ \union {h}], g, hs \ {h}, keys, src)
InEntry(e)    == {e.name} \X DOMAIN e.hosts
UnderEntry(e) == {e.name} \X Range(e.children)

ReadYAMLGroup ==
  /\ pc = "read" /\ File.format = "yaml"
  /\ \E e \in File.entries :
       /\ e.name \notin section /\ Readable(e)
       /\ LET new == [EnsureGroups(doc, {e.name}) EXCEPT
                        !.parent[e.name] = IF Holders(e.name) = {} THEN None
                                           ELSE (CHOOSE p \in Holders(e.name) : TRUE).name]
              full == AddHosts(SetGroup(new, e.name, e.keys, Name), e.name, DOMAIN e.hosts, e.hosts, Name)
          IN  doc' = IF Holders(e.name) = {} THEN full ELSE AppendChild(full, new.parent[e.name], Child(e.name))
       /\ section' = section \union {e.name}
       /\ States(InEntry(e), {u \in UnderEntry(e) : u[2] \in EntryNames}, SetsTimeout(e.keys, e.name),
                 {h \in DOMAIN e.hosts \ doc.hosts : "timeout" \in e.hosts[h]}, Name)
  /\ UNCHANGED <<run, pc, at, part, inv, again, ops>>

(* A JSON file, or what a script prints: the groups, then the children,    *)
(* where a group that stands in two has the one read last for a parent,    *)
(* then the variables of the hosts.                                        *)
RECURSIVE AddEntries(_, _, _)
AddEntries(i, es, src) ==
  IF es = {} THEN i
  ELSE LET e == CHOOSE e \in es : TRUE
           j == [SetGroup(EnsureGroups(i, {e.name} \union Range(e.children)), e.name, e.keys, src)
                   EXCEPT !.hosts = @ \union DOMAIN e.hosts, !.members[e.name] = @ \union DOMAIN e.hosts]
           k == AppendChildren(j, e.name, [n \in 1..Len(e.children) |-> Child(e.children[n])])
       IN  AddEntries(k, es \ {e}, src)
HostKeys(f, h) == UNION {e.hosts[h] : e \in {e \in f.entries : h \in DOMAIN e.hosts}}
ReadJSON ==
  /\ pc = "read" /\ File.format = "json" /\ section = {}
  /\ LET all == AddEntries(doc, File.entries, Name)
         hosted == [all EXCEPT
                      !.hvar = [h \in Hosts |-> IF "timeout" \in HostKeys(File, h) THEN Name ELSE None],
                      !.user = [h \in Hosts |-> IF "user" \in HostKeys(File, h) THEN <<"host", Name>> ELSE Nobody]]
     IN \E parent \in [Groups -> Groups \union {None}] :
          /\ \A g \in Groups : IF Holders(g) = {} THEN parent[g] = None
                               ELSE parent[g] \in {p.name : p \in Holders(g)}
          /\ doc' = [hosted EXCEPT !.parent = parent]
  /\ section' = EntryNames
  /\ States(UNION {InEntry(e) : e \in File.entries}, UNION {UnderEntry(e) : e \in File.entries},
            {e.name : e \in {e \in File.entries : "timeout" \in e.keys}},
            {h \in Hosts : "timeout" \in HostKeys(File, h)}, Name)
  /\ UNCHANGED <<run, pc, at, part, inv, again, ops>>

ReadInline ==
  /\ pc = "read" /\ File.format = "inline" /\ section = {} /\ File.hosts # {}
  /\ doc' = [EnsureGroups(doc, {"all", "ungrouped"}) EXCEPT
               !.hosts = File.hosts, !.members["all"] = File.hosts, !.members["ungrouped"] = File.hosts]
  /\ section' = {"all", "ungrouped"}
  /\ States({"ungrouped"} \X File.hosts, {}, {}, {}, Name)
  /\ UNCHANGED <<run, pc, at, part, inv, again, ops>>

FileRead == CASE File.format = "ini"    -> at.line > Len(File.lines)
              [] File.format = "inline" -> section # {}
              [] File.format = "json"   -> section = EntryNames
              [] OTHER                  -> \A e \in File.entries : e.name \notin section => ~Readable(e)

(* The group variables of a file are applied before it is merged; the      *)
(* files of a directory are merged into an inventory of the directory.     *)
Close ==
  /\ pc = "read" /\ FileRead
  /\ \E parsed \in ApplyGroupVars(doc) :
       IF Source.dir
         THEN /\ \E merged \in Merge(part, parsed) : part' = merged
              /\ UNCHANGED inv
              /\ IF at.file < Len(Source.files)
                   THEN pc' = "source" /\ at' = [at EXCEPT !.file = @ + 1]
                   ELSE pc' = "close" /\ UNCHANGED at
         ELSE part' = parsed /\ pc' = "close" /\ UNCHANGED <<inv, at>>
  /\ section' = None /\ doc' = EmptyInventory
  /\ UNCHANGED <<run, again, ops, written>>

MergeSource ==
  /\ pc = "close" /\ ~again
  /\ \E merged \in Merge(inv, part) : inv' = merged
  /\ part' = EmptyInventory /\ at' = [at EXCEPT !.source = @ + 1, !.file = 1]
  /\ pc' = IF at.source = Len(run.sources) THEN "dirs" ELSE "source"
  /\ UNCHANGED <<run, section, doc, again, ops, written>>
-----------------------------------------------------------------------------
(* The variable directories and the options                                *)

RECURSIVE SetGroups(_, _)
SetGroups(i, gs) ==
  IF gs = {} THEN i ELSE LET g == CHOOSE g \in gs : TRUE
                         IN  SetGroups(SetGroup(EnsureGroups(i, {g}), g, run.groupVars[g], "dir"), gs \ {g})
Setting(f) == {x \in DOMAIN f : f[x] # {}}
Raw(f)     == [x \in DOMAIN f |-> IF "timeout" \in f[x] THEN "dir" ELSE None]
LoadVarsDirs ==
  /\ pc = "dirs"
  /\ LET grouped == [SetGroups(inv, Setting(run.groupVars)) EXCEPT
                       !.rawGroup = Raw(run.groupVars), !.global = Over(Raw(run.groupVars)["all"], @)]
         named   == {h \in inv.hosts : "user" \in run.hostVars[h]}
     IN \E i \in ApplyGroupVars(grouped) :
          inv' = [i EXCEPT !.rawHost = Raw(run.hostVars),
                           !.hvar = [h \in Hosts |-> IF h \in i.hosts THEN Over(Raw(run.hostVars)[h], @[h]) ELSE @[h]],
                           !.user = [h \in Hosts |-> IF h \in named THEN <<"host", "dir">> ELSE @[h]],
                           !.uservar = named]
  /\ written' = [written EXCEPT !.latest = [g \in Groups |-> IF "timeout" \in run.groupVars[g] THEN "dir" ELSE @[g]],
                                !.dir = {h \in Hosts : "timeout" \in run.hostVars[h]}]
  /\ pc' = "options"
  /\ UNCHANGED <<run, at, section, doc, part, again, ops>>

Everybody(i, u) == [i EXCEPT !.user = [h \in Hosts |-> IF h \in i.hosts THEN u ELSE @[h]]]
ApplyOptions ==
  /\ pc = "options"
  /\ LET conf  == [inv EXCEPT !.user = [h \in Hosts |->
                     IF h \in inv.hosts /\ @[h] = Nobody /\ "config" \in run.users THEN <<"config", None>> ELSE @[h]]]
         cli   == IF "cli" \in run.users THEN Everybody(conf, <<"cli", None>>) ELSE conf
     IN  inv' = IF "extra" \in run.users THEN Everybody(cli, <<"extra", None>>) ELSE cli
  /\ pc' = "play"
  /\ UNCHANGED <<run, at, section, doc, part, again, ops, written>>
-----------------------------------------------------------------------------
(* What the inventory answers                                              *)

(* The hosts of a group: its own, then those of its children, each name    *)
(* visited once.                                                           *)
RECURSIVE Collect(_, _, _)
Collect(i, cs, found) ==
  IF cs = <<>> THEN found.hosts
  ELSE LET c == Head(cs) IN
       IF c.name \in found.seen THEN Collect(i, Tail(cs), found)
       ELSE Collect(i, (IF c.detached THEN <<>> ELSE i.children[c.name]) \o Tail(cs),
                    [seen  |-> found.seen \union {c.name},
                     hosts |-> found.hosts \union IF c.detached THEN c.hosts ELSE i.members[c.name]])
GroupHosts(i, g) == Collect(i, <<Child(g)>>, [seen |-> {}, hosts |-> {}])

RECURSIVE Depth(_, _, _)
Depth(i, g, seen) ==
  IF g \in seen \/ i.parent[g] = None THEN 0 ELSE 1 + Depth(i, i.parent[g], seen \union {g})

Rank(seq, x)     == CHOOSE n \in 1..Len(seq) : seq[n] = x
LaterByName(i, g, f) == Rank(GroupNames, g) > Rank(GroupNames, f)
Later(i, g, f)   == LET dg == Depth(i, g, {}) df == Depth(i, f, {})
                    IN  dg > df \/ (dg = df /\ Rank(GroupNames, g) > Rank(GroupNames, f))
GroupValue(i, g) == Over(i.rawGroup[g], i.gvars[g]["timeout"])

(* The timeout of a host, and the level it comes from: all below the       *)
(* groups, those in the order of their depth and then of their names, the  *)
(* host above them.                                                        *)
ResolveHostVars(i, h) ==
  LET own    == Over(i.rawHost[h], i.hvar[h])
      givers == {g \in i.groups \ {"all"} : h \in GroupHosts(i, g) /\ GroupValue(i, g) # None}
      last   == CHOOSE g \in givers : \A f \in givers \ {g} : Later(i, g, f)
  IN IF own # None THEN <<"host", own>>
     ELSE IF givers # {} THEN <<last, GroupValue(i, last)>>
     ELSE <<"all", Over(GroupValue(i, "all"), i.global)>>

(* Which hosts a known group holds, itself and through its children.       *)
Holding(i) == ({"all"} \X i.hosts) \union {<<g, h>> \in (i.groups \ {"all"}) \X Hosts : h \in GroupHosts(i, g)}

Bound(b, n, default) == CASE b = <<>> -> default [] b # <<>> -> IF b[1] < 0 THEN n + b[1] ELSE b[1]
Slice(holding, t) ==
  LET hs == SelectSeq(HostNames, LAMBDA h : <<t.name, h>> \in holding)
      n  == Len(hs)
      from == Bound(t.from, n, 0)
      to   == IF t.kind = "index" THEN from + 1 ELSE Bound(t.to, n, n)
  IN  {hs[k + 1] : k \in {k \in 0..(n - 1) : from <= k /\ k < to}}

MatchSubPattern(holding, hs, t) ==
  CASE t.kind = "glob"                    -> Globs[t.name] \intersect hs
    [] t.kind \notin {"glob", "name"}      -> Slice(holding, t)
    [] t.kind = "name" /\ t.name = "all"   -> hs
    [] OTHER                              -> {h \in hs : h = t.name \/ <<t.name, h>> \in holding}

(* The terms are taken one after the other.  With none that adds hosts, a  *)
(* pattern starts from all of them.  No host is an error.                  *)
RECURSIVE Narrow(_, _, _, _)
Narrow(holding, hs, found, p) ==
  IF p = <<>> THEN found.hosts
  ELSE LET matched == MatchSubPattern(holding, hs, Head(p))
           sign    == Head(p).sign
       IN  Narrow(holding, hs,
                  [hosts |-> CASE sign = "!"                 -> found.hosts \ matched
                               [] sign = "&" /\ found.begun -> found.hosts \intersect matched
                               [] sign = "&" /\ ~found.begun -> matched
                               [] OTHER                      -> found.hosts \union matched,
                   begun |-> found.begun \/ sign # "!"],
                  Tail(p))
Adding(p) == {t \in Range(p) : t.sign = ""}
FilterAdded(holding, hs, p) == Narrow(holding, hs, [hosts |-> {}, begun |-> FALSE], p) \intersect hs
FilterHosts(holding, hs, p) ==
  Narrow(holding, hs, [hosts |-> IF Adding(p) = {} THEN hs ELSE {}, begun |-> Adding(p) = {}], p) \intersect hs
PlayHosts(holding, hs, p, limit) ==
  LET matched == FilterHosts(holding, hs, p)
  IN  IF limit = <<>> THEN matched ELSE FilterHosts(holding, matched, limit)
-----------------------------------------------------------------------------
(* What the plays do                                                       *)

Playing == pc = "play" /\ ops < run.changes /\ ops' = ops + 1

(* remote_user of a play is for the hosts without ansible_user among their *)
(* variables, where host_vars and add_host put it and a parser does not.   *)
StartPlay ==
  /\ Playing
  /\ \E p \in Patterns :
       /\ Len(p) = 1 /\ p[1].kind = "name" /\ p[1].sign = ""
       /\ LET matched == PlayHosts(Holding(inv), inv.hosts, p, <<>>) IN
          /\ matched # {}
          /\ inv' = [inv EXCEPT !.user = [h \in Hosts |->
                       IF h \in matched \ inv.uservar THEN <<"play", None>> ELSE @[h]]]
  /\ UNCHANGED <<run, pc, at, section, doc, part, again, written>>

(* A pattern with localhost in it makes localhost a host of the inventory. *)
EnsureLocalhost ==
  /\ Playing /\ "localhost" \in Hosts \ inv.hosts
  /\ inv' = [inv EXCEPT !.hosts = @ \union {"localhost"}]
  /\ UNCHANGED <<run, pc, at, section, doc, part, again, written>>

AddHost(h, gs, keys) ==
  /\ Playing
  /\ LET set == ApplyHostVariables(EnsureGroups(inv, gs), h, keys, "play") IN
     inv' = [set EXCEPT !.hosts   = @ \union {h},
                        !.uservar = IF "user" \in keys THEN @ \union {h} ELSE @,
                        !.members = [g \in Groups |-> IF g \in gs THEN @[g] \union {h} ELSE @[g]]]
  /\ States(gs \X {h}, {}, {}, SetsTimeout(keys, h), "play")
  /\ UNCHANGED <<run, pc, at, section, doc, part, again>>

(* group_by makes a group of the one host and adds it.  Where there is a   *)
(* group of that name, that one takes the host; but a parent that lacks it *)
(* gets the new group, which is not in the inventory, for a child.         *)
RECURSIVE AddChildTo(_, _, _)
AddChildTo(i, ps, c) ==
  IF ps = {} THEN i ELSE LET p == CHOOSE p \in ps : TRUE IN AddChildTo(AppendChild(i, p, c), ps \ {p}, c)
NewChild(i, g, h) == IF g \in i.groups THEN Copy(g, {h}) ELSE Child(g)
GroupBy(h, g, parents) ==
  /\ Playing /\ h \in inv.hosts
  /\ inv' = AddChildTo([EnsureGroups(inv, {g} \union parents) EXCEPT !.members[g] = @ \union {h}],
                       parents, NewChild(inv, g, h))
  /\ States({<<g, h>>}, parents \X {g}, {}, {}, "play")
  /\ UNCHANGED <<run, pc, at, section, doc, part, again>>

(* meta: refresh_inventory reads the first source anew, and nothing else:  *)
(* no other source, no variable directory and no option.                   *)
StartRefresh ==
  /\ Playing /\ again' = TRUE /\ pc' = "source" /\ at' = [source |-> 1, file |-> 1, line |-> 1]
  /\ written' = Nothing /\ part' = EmptyInventory
  /\ UNCHANGED <<run, section, doc, inv>>
Refresh ==
  /\ pc = "close" /\ again
  /\ inv' = IF "extra" \in run.users THEN Everybody(part, <<"extra", None>>) ELSE part
  /\ pc' = "play" /\ part' = EmptyInventory
  /\ UNCHANGED <<run, at, section, doc, again, ops, written>>

Done == pc = "play" /\ ops = run.changes /\ UNCHANGED vars

Next ==
  \/ Open \/ ReadHeader \/ ReadLine \/ ReadYAMLGroup \/ ReadJSON \/ ReadInline \/ Close \/ MergeSource
  \/ LoadVarsDirs \/ ApplyOptions
  \/ StartPlay \/ EnsureLocalhost \/ StartRefresh \/ Refresh \/ Done
  \/ \E h \in Hosts, gs \in GroupLists, keys \in SUBSET Keys : AddHost(h, gs, keys)
  \/ \E h \in Hosts, g \in Groups \ {"all"}, ps \in GroupLists : g \notin ps /\ GroupBy(h, g, ps)

Spec == Init /\ [][Next]_vars
-----------------------------------------------------------------------------
(* Properties                                                              *)

RECURSIVE Descend(_)
Descend(gs) == LET more == gs \union {u[2] : u \in {u \in written.under : u[1] \in gs}}
               IN  IF more = gs THEN gs ELSE Descend(more)
Below(g)    == Descend({u[2] : u \in {u \in written.under : u[1] = g}})
Held(g)     == IF g = "all" THEN inv.hosts ELSE {w[2] : w \in {w \in written.in : w[1] \in Descend({g})}}
Parents(g)  == {u[1] : u \in {u \in written.under : u[2] = g}}

(* No parent has a detached group for a child.                             *)
Whole == \A g \in Groups : \A c \in Range(inv.children[g]) : ~c.detached
(* The groups form a forest, as the files and tasks state them.            *)
Forest == \A g \in Groups : Cardinality(Parents(g)) <= 1 /\ g \notin Below(g)

Givers(h)   == {g \in Groups \ {"all"} : h \in Held(g) /\ written.latest[g] # None}
(* What is set for h itself: host_vars goes before files and tasks.        *)
Own(h) == IF h \in written.dir THEN "dir" ELSE written.own[h]
(* The value h has is its own; if it has none, it comes from a group of it, *)
(* or from all if no group gives one, and it is what was set there last.    *)
InLayers(h) ==
  LET v == ResolveHostVars(inv, h) IN
  IF Own(h) # None THEN v = <<"host", Own(h)>>
  ELSE /\ v[1] \in IF Givers(h) = {} THEN {"all"} ELSE Givers(h)
       /\ v[2] = written.latest[v[1]]
(* No group below the one the value comes from gives one too.              *)
ChildOverParent(h) == \A g \in Givers(h) \ {"all"} : g \notin Below(ResolveHostVars(inv, h)[1])

Unmerged == again /\ ~run.sources[1].dir
(* A host that has a value of its own takes that one: what host_vars gives *)
(* or else what the sources, in their order, and the tasks set last, where *)
(* the first of two lines of a file counts.  A host without one takes the  *)
(* value of a group that holds it, or else that of all, and of each the    *)
(* one set last by the sources, the directories and the tasks.  In an      *)
(* inventory that came from one file, unmerged, a child group goes before  *)
(* its parents (ResolveHostVarsRaw, Merge, ApplyGroupVars,                 *)
(* loadVarsDirsToInventory).                                               *)
HostVarsLayered ==
  pc = "play" /\ Whole => \A h \in inv.hosts : /\ InLayers(h)
                                               /\ Unmerged /\ Forest => ChildOverParent(h)

(* A child group goes before its parents: the comment on ResolveHostVarsRaw *)
(* and the test say it, of every inventory.                                *)
ChildWins == pc = "play" /\ Whole /\ Forest => \A h \in inv.hosts : ChildOverParent(h)

(* The user of a host goes to a higher place only, as long as the          *)
(* inventory is the same: ansible.cfg below the groups, those below all,   *)
(* the entry of the host and its host_vars above them, --user, an extra    *)
(* variable and a task above these (applyConnectionVarToHost, Merge,       *)
(* applyConfigDefaultsToInventory, prepareExecutionEnv).                   *)
Place(u) == CASE u[1] = None -> 0 [] u[1] = "config" -> 1 [] u[1] \in Groups \ {"all"} -> 2 [] u[1] = "all" -> 3
              [] u = <<"host", "play">> \/ u[1] = "play" -> 7
              [] u[1] = "host" -> 4 [] u[1] = "cli" -> 5 [] u[1] = "extra" -> 6
UserRises == [][~(pc = "close" /\ again) => \A h \in Hosts : Place(inv.user[h]) <= Place(inv'.user[h])]_inv

(* A pattern means the hosts any of its adding terms stands for, all hosts *)
(* if it has none, that all terms with & stand for, less those of the      *)
(* terms with !, if the adding terms come first; a limit, once more.  A    *)
(* group stands for the hosts the files and tasks put into it and into     *)
(* the groups below; a slice for those at its places in the order of the   *)
(* names (FilterHosts, resolveGroupSlice, collectGroupHosts).              *)
AddingFirst(p) == \A m, n \in DOMAIN p : m < n /\ p[m].sign # "" => p[n].sign # ""
PlaceOf(hs, h) == Cardinality({x \in hs : Rank(HostNames, x) < Rank(HostNames, h)})
Reaches(hs, h, b) == IF b[1] >= 0 THEN PlaceOf(hs, h) >= b[1] ELSE Cardinality(hs) - PlaceOf(hs, h) <= -b[1]
StandsFor(held, t) ==
  LET hs == {w[2] : w \in {w \in held : w[1] = t.name}} IN
  CASE t.kind = "glob"  -> Globs[t.name] \intersect inv.hosts
    [] t.kind = "name"  -> hs \union ({t.name} \intersect inv.hosts)
    [] t.kind = "slice" -> {h \in hs : /\ t.from = <<>> \/ Reaches(hs, h, t.from)
                                       /\ t.to = <<>> \/ ~Reaches(hs, h, t.to)}
    [] t.kind = "index" -> {h \in hs : PlaceOf(hs, h) \in {t.from[1], Cardinality(hs) + t.from[1]}}
Signed(p, sign) == {t \in Range(p) : t.sign = sign}
Means(held, p) ==
  LET added == IF Adding(p) = {} THEN inv.hosts ELSE UNION {StandsFor(held, t) : t \in Adding(p)}
      kept  == {StandsFor(held, t) : t \in Signed(p, "&")}
  IN  {h \in added \intersect inv.hosts : \A k \in kept : h \in k} \ UNION {StandsFor(held, t) : t \in Signed(p, "!")}
PatternsMean ==
  pc = "play" /\ Whole =>
    LET held == {<<g, h>> \in Groups \X Hosts : h \in Held(g)}
        holding == Holding(inv)
    IN \A p \in Patterns, l \in Limits \union {<<>>} :
         AddingFirst(p) /\ AddingFirst(l) =>
           PlayHosts(holding, inv.hosts, p, l) = Means(held, p) \intersect Means(held, l)
=============================================================================
