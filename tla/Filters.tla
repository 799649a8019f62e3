------------------------------ MODULE Filters ------------------------------
(***************************************************************************)
(* The filters of templates on lists and maps.  They compare items by what *)
(* %v prints, not by their values; a filter that is given what it cannot   *)
(* use answers with an empty list or with nil.                             *)
(***************************************************************************)
EXTENDS Values

Items(x) == IF IsSlice(x) THEN x.val ELSE <<>>
Texts(s) == {Text(s[n]) : n \in DOMAIN s}

(* SelectSeq with the place of the item in reach.                          *)
Pick(s, P(_)) == LET ks == SetToSortSeq({n \in DOMAIN s : P(n)}, <) IN [n \in DOMAIN ks |-> s[ks[n]]]

Unique(x)        == LET s == Items(x) IN Pick(s, LAMBDA n : \A m \in 1..(n - 1) : ~SameText(s[m], s[n]))
Difference(x, o) == LET s == Items(x) IN Pick(s, LAMBDA n : Text(s[n]) \notin Texts(Items(o)))
Intersect(x, o)  == LET s == Items(x)
                    IN Pick(s, LAMBDA n : /\ Text(s[n]) \in Texts(Items(o))
                                          /\ \A m \in 1..(n - 1) : ~SameText(s[m], s[n]))
Union_(x, o)     == Unique(List(Items(x) \o Items(o)))

RECURSIVE Flatten(_)
Flatten(x) == IF IsSlice(x) THEN FlattenSeq([n \in DOMAIN x.val |-> Flatten(x.val[n])]) ELSE <<x>>

(* An attribute is defined only if it is not empty, unless the test names  *)
(* undefined.                                                              *)
HasAttr(x, a) == x.t = "map" /\ a \in DOMAIN x.val
Selected(x, a, test, target) ==
  CASE test \in {"", "defined"} -> HasAttr(x, a) /\ ~IsEmpty(x.val[a])
    [] test = "undefined"       -> ~HasAttr(x, a)
    [] test = "equalto"         -> HasAttr(x, a) /\ SameText(x.val[a], target)
    [] test = "notequalto"      -> ~HasAttr(x, a) \/ ~SameText(x.val[a], target)
SelectAttr(x, a, test, target) == SelectSeq(Items(x), LAMBDA item : Selected(item, a, test, target))
RejectAttr(x, a, test, target) ==
  LET texts == Texts(SelectAttr(x, a, test, target)) IN SelectSeq(Items(x), LAMBDA item : Text(item) \notin texts)
MapAttribute(x, a) == [n \in DOMAIN Items(x) |-> IF HasAttr(Items(x)[n], a) THEN Items(x)[n].val[a] ELSE Nil]

(* A map that a variable or a literal holds is known by its place there:   *)
(* filters hand it on as it is, and what is written into it is seen        *)
(* wherever it is held.                                                    *)
RECURSIVE Placed(_, _)
Placed(x, place) ==
  CASE x.t = "map" -> [t |-> "map", val |-> [k \in DOMAIN x.val |-> Placed(x.val[k], Append(place, <<0, k>>))], place |-> place]
    [] IsSlice(x)  -> [x EXCEPT !.val = [n \in DOMAIN @ |-> Placed(@[n], Append(place, <<n, "">>))]]
    [] OTHER       -> x
Literals(f, step) ==
  [a \in DOMAIN f |-> CASE a = "arg"  -> Placed(f.arg, <<<<step, 0>>>>)
                        [] a = "args" -> [n \in DOMAIN f.args |-> Placed(f.args[n], <<<<step, n>>>>)]
                        [] OTHER      -> f[a]]

(* combine: the later map wins; with recursive, maps under one key are     *)
(* merged, and what is merged into is the map that stands there: that of   *)
(* the variable or the literal it came from.                               *)
FirstWins(f, g, recursive) == [k \in DOMAIN f \union DOMAIN g |-> IF k \in DOMAIN f THEN f[k] ELSE g[k]]
Shared(f, g) == {k \in DOMAIN f \intersect DOMAIN g : f[k].t = "map" /\ g[k].t = "map"}
RECURSIVE DeepMerge(_, _, _)
DeepMerge(f, g, recursive) ==
  [k \in DOMAIN f \union DOMAIN g |->
     CASE k \notin DOMAIN g -> f[k]
       [] k \notin DOMAIN f -> g[k]
       [] OTHER -> IF recursive /\ k \in Shared(f, g) THEN [f[k] EXCEPT !.val = DeepMerge(@, g[k].val, TRUE)] ELSE g[k]]

(* What a recursive merge of g into f writes, and a value afterwards.      *)
RECURSIVE Writes(_, _), Seen(_, _)
Writes(f, g) ==
  UNION {{[into |-> f[k].place, val |-> DeepMerge(f[k].val, g[k].val, TRUE)]} \union Writes(f[k].val, g[k].val) : k \in Shared(f, g)}
Seen(x, ws) ==
  LET new == IF "place" \in DOMAIN x THEN {w \in ws : w.into = x.place} ELSE {} IN
  CASE x.t = "map" -> IF new # {} THEN [x EXCEPT !.val = (CHOOSE w \in new : TRUE).val]
                      ELSE [x EXCEPT !.val = [k \in DOMAIN @ |-> Seen(@[k], ws)]]
    [] IsSlice(x)  -> [x EXCEPT !.val = [n \in DOMAIN @ |-> Seen(@[n], ws)]]
    [] OTHER       -> x

NoKeys == [k \in {} |-> Nil]
MapsOf(xs) == SelectSeq(FlattenSeq([n \in DOMAIN xs |-> IF IsSlice(xs[n]) THEN xs[n].val ELSE <<xs[n]>>]), LAMBDA x : x.t = "map")

(* The maps of a combine one after the other, with the variable held.      *)
RECURSIVE Combined(_, _, _, _)
Combined(f, gs, recursive, held) ==
  IF gs = <<>> THEN [value |-> Map(f), held |-> held]
  ELSE LET ws == IF recursive THEN Writes(f, Head(gs).val) ELSE {}
       IN  Combined(Seen(Map(DeepMerge(f, Head(gs).val, recursive)), ws).val, [n \in DOMAIN Tail(gs) |-> Seen(Tail(gs)[n], ws)],
                    recursive, Seen(held, ws))
Combine(xs, recursive, held) == Combined(NoKeys, MapsOf(xs), recursive, held)

Dict2Items(x) == LET ks == SortedKeys(x.val)
                 IN  [n \in 1..Len(ks) |-> Map([a \in {"key", "value"} |-> IF a = "key" THEN Txt(<<ks[n]>>) ELSE x.val[ks[n]]])]
KeyOf(x) == Text(x.val["key"])[1]
Items2Dict(s) ==
  LET keyed == {n \in DOMAIN s : HasAttr(s[n], "key") /\ s[n].val["key"].t # "nil"}
      last(k) == CHOOSE n \in keyed : KeyOf(s[n]) = k /\ \A m \in keyed : KeyOf(s[m]) = k => m <= n
  IN  Map([k \in {KeyOf(s[n]) : n \in keyed} |-> IF HasAttr(s[last(k)], "value") THEN s[last(k)].val["value"] ELSE Nil])

(* min, max and sum pass over what is not a number; without any number the *)
(* code answers with the largest or smallest there is, here {}.            *)
NumbersOf(x) == LET s == SelectSeq(Items(x), LAMBDA i : IsNumber(i)) IN [n \in DOMAIN s |-> NumberOf(s[n])]
Least(x)     == {n \in Range(NumbersOf(x)) : \A m \in Range(NumbersOf(x)) : n <= m}
Greatest(x)  == {n \in Range(NumbersOf(x)) : \A m \in Range(NumbersOf(x)) : m <= n}
RECURSIVE Total(_)
Total(ns)    == IF ns = <<>> THEN 0 ELSE Head(ns) + Total(Tail(ns))
Sum_(x)      == Total(NumbersOf(x))

DefaultValue(x, d, boolean) == IF boolean THEN IF IsTruthy(x) THEN x ELSE d ELSE IF x.t = "nil" THEN d ELSE x
Ternary(x, yes, no, nones)  == IF nones # {} /\ x.t = "nil" THEN CHOOSE n \in nones : TRUE ELSE IF IsTruthy(x) THEN yes ELSE no
ToBool(x) == ~IsEmpty(x) /\ Text(x) \in {<<"true">>, <<"yes">>, <<"1">>, <<"y">>, <<"t">>}
Mandatory(x) == IF x.t = "nil" \/ (x.t = "text" /\ x.val = <<>>) THEN {} ELSE {x}
=============================================================================
