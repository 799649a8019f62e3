----------------------------- MODULE MCInventory -----------------------------
(* Instances of Inventory: prod holds app, whose name sorts before it, and  *)
(* web, whose name sorts after it.                                          *)
EXTENDS Inventory

MCHosts  == <<"localhost", "n1", "n2">>
MCGroups == <<"app", "prod", "ungrouped", "web">>
MCGlobs  == [x \in {"n*"} |-> {"n1", "n2"}]
MCLists  == {{}, {"app"}, {"prod", "web"}}

Head_(head, name) == [head |-> head, name |-> name, keys |-> {}]
Item(name, keys)  == [head |-> None, name |-> name, keys |-> keys]
Ini(lines)        == [format |-> "ini", lines |-> lines]
Vars(name, keys)  == <<Head_("vars", name), Item(None, keys)>>
Block(name, items) == <<Head_("group", name)>> \o items
Kids(name, child) == <<Head_("children", name), Item(child, {})>>

T == {"timeout"}
U == {"user"}
(* Every way to set the two in a parent, a child and a host.               *)
Nested(child, p, c, h) ==
  Ini(Vars("prod", p) \o Kids("prod", child) \o Vars(child, c) \o Block(child, <<Item("n1", h), Item("n2", {})>>))
Twice == Ini(<<Item("n1", U)>> \o Block("web", <<Item("n1", T), Item("n2", {})>>) \o Vars("all", Keys)
             \o Block("app", <<Item("n2", T)>>) \o Vars("app", Keys) \o Vars("web", Keys))
Cycle == Ini(Block("app", <<Item("n1", {})>>) \o Kids("app", "prod") \o Vars("prod", T) \o Kids("prod", "app"))
Entry_(name, keys, children, hosts) == [name |-> name, keys |-> keys, children |-> children, hosts |-> hosts]
NoHosts == [h \in {} |-> {}]
One(h, keys) == [x \in {h} |-> keys]
Entries(f) == [format |-> f,
  entries |-> {Entry_("prod", T, <<"app">>, NoHosts), Entry_("web", Keys, <<"app", "prod">>, One("n2", U)),
               Entry_("app", T, <<>>, One("n1", T))}]
Tree == [format |-> "yaml",
  entries |-> {Entry_("all", Keys, <<"prod", "web">>, One("n2", {})), Entry_("prod", T, <<"app", "ungrouped">>, One("n1", U)),
               Entry_("app", T, <<>>, [h \in {"n1", "n2"} |-> Keys])}]
Inline == [format |-> "inline", hosts |-> {"n2"}]

Src(f)  == [name |-> "s1", dir |-> FALSE, files |-> <<f>>]
Dir(fs) == [name |-> "s1", dir |-> TRUE, files |-> fs]
Then(s) == [s EXCEPT !.name = "s2"]
NoDir   == [g \in Groups |-> {}]
NoHostDir == [h \in Hosts |-> {}]
Run(ss, gv, hv, us) == [sources |-> ss, groupVars |-> gv, hostVars |-> hv, users |-> us, changes |-> 1]
Two(r) == [r EXCEPT !.changes = 2]
Plain(ss) == Run(ss, NoDir, NoHostDir, {})

MCRuns ==
  {Plain(<<Src(Nested(c, p, k, h))>>) : c \in {"app", "web"}, p \in SUBSET Keys, k \in SUBSET Keys, h \in {{}, Keys}}
    \union {Plain(<<Src(f)>>) : f \in {Twice, Cycle, Entries("json"), Tree}}
    \union {Two(Plain(<<Src(Nested("app", T, T, U))>>)), Two(Plain(<<Src(Inline)>>))}
    \union {Plain(<<Src(Nested("app", T, k, h)), Then(Src(f))>>) : k \in {U, Keys}, h \in {{}, Keys}, f \in {Twice, Entries("json"), Tree, Inline, Nested("web", T, U, {})}}
    \union {Plain(<<Src(Inline), Then(Dir(<<Tree, Nested("web", Keys, T, U)>>))>>), Plain(<<Dir(<<Nested("web", Keys, T, U), Inline>>)>>)}
    \union {Run(<<Src(Nested("app", Keys, Keys, h))>>, [NoDir EXCEPT !["app"] = g, !["all"] = Keys], [NoHostDir EXCEPT !["n1"] = d], us) :
              h \in {{}, Keys}, g \in {{}, Keys}, d \in {{}, Keys}, us \in {{}, {"config"}, {"cli"}, {"extra", "cli"}}}

Term(sign, kind, name, from, to) == [sign |-> sign, kind |-> kind, name |-> name, from |-> from, to |-> to]
Named(sign, name) == Term(sign, "name", name, <<>>, <<>>)
Singles ==
  {Named(s, n) : s \in {"", "!"}, n \in {"all", "prod", "app", "n1"}}
    \union {Term("", "glob", "n*", <<>>, <<>>), Named("&", "web")}
    \union {Term("", "slice", "prod", b[1], b[2]) : b \in {<<<<>>, <<1>>>>, <<<<1>>, <<>>>>, <<<<-1>>, <<>>>>, <<<<-3>>, <<-1>>>>}}
    \union {Term("", "index", "all", <<n>>, <<>>) : n \in {0, -1, 3}}
MCPatterns == {<<t>> : t \in Singles}
                \union {<<Named("", a), Named(s, b)>> : a \in {"prod"}, s \in {"", "&", "!"}, b \in {"web", "app", "n1"}}
                \union {<<Named("", "web"), Named("", "app"), Named("!", "n1"), Named("&", "prod")>>}
MCLimits == {<<Named("", "web")>>, <<Named("!", "app"), Named("&", "prod")>>}
=============================================================================
