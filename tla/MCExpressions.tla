---------------------------- MODULE MCExpressions ----------------------------
(* Instances of Expressions: x is a number or a text, r the result of a     *)
(* task, l a list; u is never set.                                          *)
EXTENDS Expressions

MCWords == <<"!=", "'", "(", ")", "0", "1", "2", "3", "4", "<", "<=", "<nil>", "==", ">", ">=", "[", "]", "a", "and", "b", "else",
             "failed", "false", "if", "in", "is", "key", "l", "map[", "not", "or", "r", "rc", "true", "u", "value", "x", "y">>
MCNumbers == [w \in {"0", "1", "2", "3", "4"} |->
                CASE w = "0" -> 0 [] w = "1" -> 1 [] w = "2" -> 2 [] w = "3" -> 3 [] w = "4" -> 4]
MCPaths == [w \in {"r.rc"} |-> <<"r", "rc">>]

Pair(k, x, m, y) == Map([z \in {k, m} |-> IF z = k THEN x ELSE y])
One(k, x)        == Map([z \in {k} |-> x])
A  == Txt(<<"a">>)
B  == Txt(<<"b">>)
N(n) == Num(n)
AB == List(<<A, N(1), B>>)

Xs == {N(0), N(1), N(2), A, Txt(<<"0">>), Bool(TRUE), Bool(FALSE)}
Rs == {Pair("failed", Bool(TRUE), "rc", N(1)), Pair("failed", Bool(FALSE), "rc", N(0)), Pair("failed", Bool(FALSE), "rc", N(1))}
XRL(x, r, l) == [v \in {"x", "r", "l"} |-> CASE v = "x" -> x [] v = "r" -> r [] v = "l" -> l]
WhenStores == {XRL(x, r, AB) : x \in Xs, r \in Rs}

Word(w)  == [quoted |-> FALSE, text |-> <<w>>]
Quote(w) == [quoted |-> TRUE, text |-> w]
Holds_(n)     == [op |-> "holds", name |-> n]
Test(n, t, d) == [op |-> "test", name |-> n, test |-> t, denied |-> d]
Cmp(l, rel, r) == [op |-> "compare", left |-> l, rel |-> rel, right |-> r]
In(l, d, r)   == [op |-> "in", left |-> l, denied |-> d, right |-> r]
Not(c)        == [op |-> "not", of |-> c]
Both(c, d)    == [op |-> "and", first |-> c, second |-> d]
Either(c, d)  == [op |-> "or", first |-> c, second |-> d]
Choice(y, c, n, rel, r) == [op |-> "choice", yes |-> y, if |-> c, no |-> n, rel |-> rel, right |-> r]

Plain    == {Holds_("x"), Holds_("u"), Test("u", "defined", FALSE), Test("x", "defined", TRUE), Test("r", "failed", FALSE),
             Test("r", "succeeded", TRUE)}
Denials  == {Not(c) : c \in Plain} \union {Not(Both(c, d)) : c, d \in Plain} \union {Not(Either(c, Not(d))) : c, d \in {Holds_("x"), Test("r", "failed", FALSE)}}
Compared == {Cmp(Word("x"), rel, Word("1")) : rel \in Range(Relations)}
            \union {Cmp(Word("x"), "==", Quote(<<"a", "or", "b">>)), Cmp(Quote(<<"a">>), "!=", Word("x"))}
            \union {In(Word("x"), d, Word("l")) : d \in BOOLEAN} \union {In(Quote(<<"b">>), FALSE, Word("l"))}
            \union {Choice(Word("x"), Test("r", "failed", FALSE), Quote(<<"b">>), rel, w) : rel \in {"==", "<"}, w \in {Word("1"), Quote(<<"b">>)}}
Ifs     == {Cmp(Word("x"), "==", Word("1")), Cmp(Word("x"), "<", Word("1")), In(Word("x"), FALSE, Word("l")), Not(Holds_("x")),
            Both(Holds_("x"), Cmp(Word("x"), ">=", Word("1"))), Either(Test("r", "failed", FALSE), Cmp(Word("x"), "<", Word("2")))}
Chosen == {Choice(Word("x"), c, Quote(<<"b">>), rel, w) : c \in Ifs, rel \in {"==", ">=", "<"}, w \in {Word("1"), Quote(<<"b">>)}}
Hiding  == {Cmp(Word("x"), rel, Quote(<<"a", o, "b">>)) : rel \in {"==", ">=", "<"}, o \in {"!=", ">=", "<", "in"}}
           \union {Cmp(Quote(<<"a", o, "b">>), rel, Word("x")) : rel \in {"==", ">="}, o \in {">=", "<"}}
           \union {In(Quote(<<"a", o, "b">>), d, Word("l")) : d \in BOOLEAN, o \in {"==", "in"}}
           \union {In(Word("x"), d, Quote(<<"a", o, "b">>)) : d \in BOOLEAN, o \in {"==", "in"}}
Hidden  == Chosen \union Hiding \union {Not(c) : c \in {Cmp(Word("x"), "<", Word("1")), Both(Holds_("x"), In(Word("x"), FALSE, Word("l")))}}
Some == {Holds_("x"), Not(Test("r", "failed", FALSE)), Cmp(Word("x"), "<", Word("2")), In(Word("x"), TRUE, Word("l"))}
Joins(C, D) == {Both(c, d) : c \in C, d \in D} \union {Either(c, d) : c \in C, d \in D}
Twofold  == Joins(Plain \union Compared, Plain \union Compared)
Threefold == Joins(Some, Joins(Some, Some)) \union Joins(Joins(Some, Some), Some)
Meanings == Hidden \union Joins({Holds_("x"), Cmp(Word("x"), "<", Word("2"))}, Chosen) \union Plain \union Denials \union Compared \union Twofold \union Threefold \union Joins(Joins(Some, {Holds_("u")}), Joins(Some, {Holds_("x")}))
MCWhens == UNION {{[kind |-> "when", text |-> text, meaning |-> c] : text \in {Written(c), <<"(">> \o Written(c) \o <<")">>}} : c \in Meanings}

MCTags == {[kind |-> "tags", chosen |-> c, skip |-> s, tags |-> t] :
             c \in SUBSET {"all", "tagged", "untagged", "never", "a"}, s \in SUBSET {"all", "tagged", "untagged", "always", "a"},
             t \in SUBSET {"always", "never", "a", "b"}}

Row(n) == [k \in 1..n |-> N(k)]
Rows == {Row(0), Row(1), Row(2), <<A, B, N(0)>>}
MCLoops ==
  {[kind |-> "loop", loop |-> l, over |-> rows] : l \in {"nested", "together"}, rows \in UNION {[1..k -> Rows] : k \in 0..3}}
  \union {[kind |-> "loop", loop |-> "sequence", over |-> [start |-> i, end |-> j, stride |-> s]] : i, j \in 0..4, s \in -2..3}
  \union {[kind |-> "loop", loop |-> "value", over |-> x] :
            x \in {Nil, A, AB, List(<<>>), One("a", N(1)), Pair("b", N(1), "a", AB), Map(NoKeys), Maps(<<One("key", A)>>)}}

Nested == {N(1), A, One("a", N(2)), Pair("a", N(1), "b", N(3))}
Items_ == {N(1), Txt(<<"1">>), A, List(<<A, B>>)}
Attrs  == {One("a", N(1)), Pair("a", Txt(<<"1">>), "b", N(0)), One("a", N(2)), Pair("key", A, "value", N(1)), Pair("key", A, "value", B)}
Deep   == {One("a", One("a", N(2))), One("a", One("b", N(1))), One("a", N(1))}
Bases  == {List(s) : s \in [1..2 -> Deep]} \union {List(s) : s \in UNION {[1..k -> Items_] : k \in 0..2}} \union {List(s) : s \in [1..3 -> Items_ \ {List(<<A, B>>)}]}
          \union {List(s) : s \in UNION {[1..k -> Attrs] : k \in 1..2}}
          \union {Pair("a", n, "b", m) : n, m \in Nested} \union {One("a", n) : n \in Nested} \union {Nil}
F(name)            == [name |-> name]
With(name, arg)    == [name |-> name, arg |-> arg]
Attr(name, a, test, arg) == [name |-> name, attr |-> a, test |-> test, arg |-> arg]
Comb(args, r)      == [name |-> "combine", args |-> args, recursive |-> r]
Others == {List(<<>>), AB, List(<<N(1), One("a", N(1))>>)}
MCFilterings ==
  {F(n) : n \in {"unique", "flatten", "dict2items", "items2dict", "min", "max", "sum", "bool", "mandatory"}}
  \union {With(n, o) : n \in {"difference", "intersect", "union"}, o \in Others}
  \union {Attr(n, "a", t, N(1)) : n \in {"selectattr", "rejectattr"}, t \in {"defined", "undefined", "equalto", "notequalto"}}
  \union {Attr("map", "a", "", Nil)}
  \union {Comb(args, r) : args \in {<<One("a", m)>> : m \in Nested} \union {<<One("a", m), One("a", n)>> : m, n \in {A, One("a", N(4)), One("b", N(4))}}, r \in BOOLEAN}
  \union {[name |-> "default", arg |-> d, boolean |-> b] : d \in {AB, Nil}, b \in BOOLEAN}
  \union {[name |-> "ternary", args |-> args] : args \in {<<A, B>>, <<AB, A, N(0)>>}}

MCAsks == MCWhens \union MCTags \union MCLoops \union {[kind |-> "filters", base |-> "x"]}
MCStores == [k \in {"when", "tags", "loop", "filters"} |->
               CASE k = "when" -> WhenStores
                 [] k = "filters" -> {[v \in {"x"} |-> x] : x \in Bases}
                 [] OTHER -> {NoKeys}]
=============================================================================
