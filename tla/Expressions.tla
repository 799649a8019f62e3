---------------------------- MODULE Expressions ----------------------------
(***************************************************************************)
(* Questions that a play asks of its expressions, and the variables they   *)
(* are asked about: does this condition hold, does this task run under     *)
(* these tags, what are the items of this loop, and what does a variable   *)
(* come to after these filters.                                            *)
(***************************************************************************)
EXTENDS Conditions, Filters

CONSTANTS
  Asks,       \* what may be asked
  Stores,     \* what the variables may be, for each kind of question
  Filterings, \* the filters, with their arguments
  MaxFilters  \* how many may follow each other

VARIABLES
  ask,     \* the question
  store,   \* the variables
  answer,  \* the answer, or the value so far of an expression with filters
  chain,   \* the filters it comes from
  at       \* how many steps the answer took

vars == <<ask, store, answer, chain, at>>

(* The filters that are asked: each with its arguments, which are literals. *)
Filtered(f, x) ==
  CASE f.name = "unique"     -> List(Unique(x))
    [] f.name = "difference" -> List(Difference(x, f.arg))
    [] f.name = "intersect"  -> List(Intersect(x, f.arg))
    [] f.name = "union"      -> List(Union_(x, f.arg))
    [] f.name = "flatten"    -> List(Flatten(x))
    [] f.name = "selectattr" -> List(SelectAttr(x, f.attr, f.test, f.arg))
    [] f.name = "rejectattr" -> List(RejectAttr(x, f.attr, f.test, f.arg))
    [] f.name = "map"        -> List(MapAttribute(x, f.attr))
    [] f.name = "dict2items" -> Maps(Dict2Items(x))
    [] f.name = "items2dict" -> Items2Dict(Items(x))
    [] f.name = "min"        -> IF Least(x) = {} THEN Nil ELSE Num(CHOOSE n \in Least(x) : TRUE)
    [] f.name = "max"        -> IF Greatest(x) = {} THEN Nil ELSE Num(CHOOSE n \in Greatest(x) : TRUE)
    [] f.name = "sum"        -> Num(Sum_(x))
    [] f.name = "bool"       -> Bool(ToBool(x))
    [] f.name = "default"    -> DefaultValue(x, f.arg, f.boolean)
    [] f.name = "ternary"    -> Ternary(x, f.args[1], f.args[2], {f.args[n] : n \in 3..Len(f.args)})
    [] f.name = "mandatory"  -> x

(* A filter that cannot use its argument: the expression has no value.     *)
Refused(f, x) ==
  \/ f.name = "mandatory"  /\ Mandatory(x) = {}
  \/ f.name = "dict2items" /\ x.t \notin {"map", "nil"}
  \/ f.name = "items2dict" /\ ~IsSlice(x) /\ x.t # "nil"

(* The n-th filter, which may write into what the variable holds.          *)
Step(f, n, x, held) ==
  LET g == Literals(f, n) IN
  CASE Refused(f, x)        -> [value |-> Nil, held |-> held]
    [] f.name = "combine"   -> Combine(<<x>> \o g.args, f.recursive, held)
    [] OTHER                -> [value |-> Filtered(g, x), held |-> held]
-----------------------------------------------------------------------------
Init == /\ ask \in Asks
        /\ \E s \in Stores[ask.kind] : store = [v \in DOMAIN s |-> Placed(s[v], <<<<0, 0>>>>)]
        /\ answer = IF ask.kind = "filters" THEN store[ask.base] ELSE Nil
        /\ chain = <<>>
        /\ at = 0

AskWhen == /\ ask.kind = "when" /\ at = 0
           /\ answer' = Bool(EvaluateWhen(ask.text, store))
           /\ at' = 1
           /\ UNCHANGED <<ask, store, chain>>

AskTags == /\ ask.kind = "tags" /\ at = 0
           /\ answer' = Bool(ShouldRunTaskByTags(ask.chosen, ask.skip, ask.tags))
           /\ at' = 1
           /\ UNCHANGED <<ask, store, chain>>

AskLoop == /\ ask.kind = "loop" /\ at = 0
           /\ answer' = List(EvaluateLoop(ask.loop, ask.over))
           /\ at' = 1
           /\ UNCHANGED <<ask, store, chain>>

(* What a filter before it took from the variable, combine writes into.    *)
ApplyFilter(f) ==
  /\ ask.kind = "filters" /\ at < MaxFilters /\ ~Refused(f, answer)
  /\ LET done == Step(f, at + 1, answer, store[ask.base]) IN
     /\ answer' = done.value
     /\ store' = [store EXCEPT ![ask.base] = done.held]
  /\ chain' = Append(chain, f)
  /\ at' = at + 1
  /\ UNCHANGED ask

(* A filter that refuses leaves the expression without a value.            *)
RefuseFilter(f) ==
  /\ ask.kind = "filters" /\ at < MaxFilters /\ Refused(f, answer)
  /\ answer' = Nil
  /\ chain' = <<>>
  /\ at' = MaxFilters
  /\ UNCHANGED <<ask, store>>

Answered == at = (IF ask.kind = "filters" THEN MaxFilters ELSE 1)
Done == Answered /\ UNCHANGED vars

Next == AskWhen \/ AskTags \/ AskLoop \/ (\E f \in Filterings : ApplyFilter(f) \/ RefuseFilter(f)) \/ Done
Spec == Init /\ [][Next]_vars
-----------------------------------------------------------------------------
(* What a condition means: a condition is written from its parts, with     *)
(* not binding closest, then and, then or, and read as it was meant.       *)
Operand_(o) == IF o.quoted THEN <<"'">> \o o.text \o <<"'">> ELSE o.text
Operator_(c) == IF c.op = "in" THEN (IF c.denied THEN <<"not", "in">> ELSE <<"in">>) ELSE <<c.rel>>
RECURSIVE Written(_), LeftOf(_)
LeftOf(c) ==
  IF c.op = "choice"
  THEN <<"(">> \o Operand_(c.yes) \o <<"if">> \o Written(c.if) \o <<"else">> \o Operand_(c.no) \o <<")">>
  ELSE Operand_(c.left)
Written(c) ==
  CASE c.op = "holds"   -> <<c.name>>
    [] c.op = "test"    -> <<c.name, "is">> \o (IF c.denied THEN <<"not">> ELSE <<>>) \o <<c.test>>
    [] c.op \in {"compare", "in", "choice"} -> LeftOf(c) \o Operator_(c) \o Operand_(c.right)
    [] c.op = "not"     -> <<"not">> \o (IF c.of.op = "holds" THEN Written(c.of) ELSE <<"(">> \o Written(c.of) \o <<")">>)
    [] c.op \in {"and", "or"} ->
         LET part(p) == IF p.op \in {"and", "or"} /\ (p.op # c.op) THEN <<"(">> \o Written(p) \o <<")">> ELSE Written(p)
         IN  part(c.first) \o <<c.op>> \o part(c.second)

ValueOf(o, env) == IF o.quoted THEN Txt(o.text)
                   ELSE IF o.text[1] \in DOMAIN Numbers THEN Num(Numbers[o.text[1]]) ELSE env[o.text[1]]
RECURSIVE Meant(_, _)
Meant(c, env) ==
  CASE c.op = "holds"   -> c.name \in DOMAIN env /\ IsTruthy(env[c.name])
    [] c.op = "test"    ->
         LET is == CASE c.test = "defined"   -> c.name \in DOMAIN env
                     [] c.test = "failed"    -> c.name \in DOMAIN env /\ IsTaskResultFailed(env[c.name])
                     [] c.test = "succeeded" -> c.name \in DOMAIN env /\ IsTaskResultSucceeded(env[c.name])
         IN  is # c.denied
    [] c.op = "compare" -> CompareConditionValues(ValueOf(c.left, env), ValueOf(c.right, env), c.rel)
    [] c.op = "in"      -> ConditionContains(ValueOf(c.right, env), ValueOf(c.left, env)) # c.denied
    [] c.op = "choice"  -> CompareConditionValues(ValueOf(IF Meant(c.if, env) THEN c.yes ELSE c.no, env), ValueOf(c.right, env), c.rel)
    [] c.op = "not"     -> ~Meant(c.of, env)
    [] c.op = "and"     -> Meant(c.first, env) /\ Meant(c.second, env)
    [] c.op = "or"      -> Meant(c.first, env) \/ Meant(c.second, env)

(* The operators of a text, in the order in which the evaluator looks for  *)
(* them, quotes and parentheses or not: not in, in, then the relations.    *)
Operators(ws) == {0 : n \in NotIns(ws)} \union {1 : n \in Ins(ws)} \union {k + 1 : k \in {j \in DOMAIN Relations : Relations[j] \in Range(ws)}}

(* What the evaluator does not read as it is written: a comparison whose   *)
(* operands hold, in quotes or in the condition of a choice, an operator   *)
(* it finds before the comparison's own, and a not above any operator.     *)
RECURSIVE Misread(_)
Misread(c) ==
  CASE c.op \in {"holds", "test"} -> FALSE
    [] c.op \in {"and", "or"}     -> Misread(c.first) \/ Misread(c.second)
    [] c.op = "not"               -> Misread(c.of) \/ Operators(Written(c.of)) # {}
    [] c.op \in {"compare", "in", "choice"} ->
         LET own == CASE c.op = "in" /\ c.denied -> 0 [] c.op = "in" /\ ~c.denied -> 1
                      [] OTHER -> 1 + FirstOf({k \in DOMAIN Relations : Relations[k] = c.rel})
         IN \/ \E k \in Operators(LeftOf(c)) : k <= own
            \/ \E k \in Operators(Operand_(c.right)) : k < own
            \/ c.op = "choice" /\ Misread(c.if)

(* evaluateWhen: a condition built from variables, tests, comparisons,     *)
(* choices, not, and and or, however deep its parentheses, means what it   *)
(* is written to mean, though the evaluator has no grammar and only        *)
(* searches its text; all but those in which another operator is found     *)
(* first (Misread), such as (x if x == 1 else 'b') < 2 or not (x < 1).     *)
WhenMeans == ask.kind = "when" /\ Answered /\ ~Misread(ask.meaning) => answer.val = Meant(ask.meaning, store)

Runs(chosen, skip, tags) == ShouldRunTaskByTags(chosen, skip, tags)
(* ShouldRunTaskByTags: to skip more tags never makes a task run, and to   *)
(* ask for more never stops one; a task tagged always stops only for       *)
(* --skip-tags always, or, tagged never too, for want of --tags; one       *)
(* tagged never runs only if never is asked for; and any other runs under  *)
(* exactly one of --tags T and --skip-tags T.                              *)
TagsMean ==
  ask.kind = "tags" =>
    LET chosen == ask.chosen
        skip   == ask.skip
        tags   == ask.tags
        runs   == Runs(chosen, skip, tags)
    IN /\ \A t \in {"all", "tagged", "untagged", "always", "never", "a", "b"} :
            /\ Runs(chosen, skip \union {t}, tags) => runs
            /\ chosen # {} /\ runs => Runs(chosen \union {t}, skip, tags)
       /\ "always" \in tags => (runs <=> "always" \notin skip /\ (chosen = {} => "never" \notin tags))
       /\ "never" \in tags \ {"always"} /\ "always" \notin tags /\ runs => "never" \in chosen
       /\ tags \intersect {"always", "never"} = {} /\ chosen # {} =>
            (Runs(chosen, {}, tags) <=> ~Runs({}, chosen, tags))

(* EvaluateLoop: a nested loop visits every combination, the last list     *)
(* fastest; one over lists together visits each place of the longest with  *)
(* nil for what a shorter one lacks; a sequence goes from its start by its *)
(* stride, towards its end, and stops at the last step that does not pass  *)
(* it; and a loop over a map visits its keys in order, each once.          *)
LoopsMean ==
  ask.kind = "loop" /\ Answered =>
    LET items == answer.val
        over  == ask.over
    IN CASE ask.loop = "nested" ->
              LET after(k) == IF k = Len(over) THEN 1 ELSE FoldFunctionOnSet(LAMBDA i, j : i * j, 1, [j \in DOMAIN over |-> Len(over[j])], (k + 1)..Len(over))
              IN /\ over # <<>> => Len(items) = after(1) * Len(over[1])
                 /\ \A n \in DOMAIN items, k \in DOMAIN over :
                      items[n].val[k] = over[k][1 + (((n - 1) \div after(k)) % Len(over[k]))]
         [] ask.loop = "together" ->
              /\ \A n \in DOMAIN items, k \in DOMAIN over :
                   items[n].val[k] = IF n \in DOMAIN over[k] THEN over[k][n] ELSE Nil
              /\ \A k \in DOMAIN over : Len(over[k]) <= Len(items)
              /\ items = <<>> \/ \E k \in DOMAIN over : Len(over[k]) = Len(items)
         [] ask.loop = "sequence" ->
              LET step == IF over.start <= over.end THEN 1 ELSE -1
                  size == IF over.stride < 0 THEN -over.stride ELSE over.stride
                  ns   == [n \in DOMAIN items |-> NumberOf(items[n])]
              IN IF over.stride = 0 THEN items = <<>>
                 ELSE /\ items # <<>> /\ ns[1] = over.start
                      /\ \A n \in 2..Len(ns) : ns[n] = ns[n - 1] + step * size
                      /\ step * (over.end - Last(ns)) \in 0..(size - 1)
         [] ask.loop = "value" /\ over.t = "map" ->
              /\ {items[n].val["key"].val[1] : n \in DOMAIN items} = DOMAIN over.val
              /\ \A m, n \in DOMAIN items : m < n => Before(items[m].val["key"].val[1], items[n].val["key"].val[1])
              /\ \A n \in DOMAIN items : items[n].val["value"] = over.val[items[n].val["key"].val[1]]
         [] ask.loop = "value" /\ over.t # "map" -> over.t = "list" => items = over.val

(* The answer to a question of a condition (that is not Misread), of tags  *)
(* or of a loop is what the question means.                                *)
AnswersMean == WhenMeans /\ TagsMean /\ LoopsMean

Distinct(s)    == \A m, n \in DOMAIN s : m # n => ~SameText(s[m], s[n])
CountOf(s, S)  == Cardinality({n \in DOMAIN s : Text(s[n]) \in S})
FirstIn(s, x)  == FirstOf({n \in DOMAIN s : SameText(s[n], x)})
InOrderOf(r, s) == \A m, n \in DOMAIN r : m < n => FirstIn(s, r[m]) < FirstIn(s, r[n])
LastWith(fs, k)   == Max({n \in DOMAIN fs : k \in DOMAIN fs[n]})
KeysOf(fs)        == UNION {DOMAIN fs[n] : n \in DOMAIN fs}
Overlaid(fs, y, recursive) ==
  /\ DOMAIN y = KeysOf(fs)
  /\ \A k \in KeysOf(fs) :
       LET having == SelectSeq(fs, LAMBDA f : k \in DOMAIN f)
           below  == [n \in DOMAIN having |-> having[n][k].val]
           last   == fs[LastWith(fs, k)][k]
       IN IF recursive /\ (\A n \in DOMAIN having : having[n][k].t = "map")
          THEN DOMAIN y[k].val = KeysOf(below) /\ \A p \in KeysOf(below) : y[k].val[p] = below[LastWith(below, p)][p]
          ELSE (recursive /\ last.t = "map") \/ y[k] = last

ContentsOf(ms) == [n \in DOMAIN ms |-> ms[n].val]
FilterLaw(f, x, y) ==
  LET s == Items(x)
      r == Items(y)
      o == IF f.name \in {"difference", "intersect", "union"} THEN Texts(Items(f.arg)) ELSE {}
  IN CASE f.name = "unique"     -> Texts(r) = Texts(s) /\ Distinct(r) /\ InOrderOf(r, s)
       [] f.name = "difference" -> Texts(r) = Texts(s) \ o /\ Len(r) = Len(s) - CountOf(s, o)
       [] f.name = "intersect"  -> Texts(r) = Texts(s) \intersect o /\ Distinct(r) /\ InOrderOf(r, s)
       [] f.name = "union"      -> Texts(r) = Texts(s) \union o /\ Distinct(r)
       [] f.name = "flatten"    -> /\ \A n \in DOMAIN r : ~IsSlice(r[n])
                                   /\ (\A n \in DOMAIN s : ~IsSlice(s[n])) /\ IsSlice(x) => r = s
       [] f.name \in {"selectattr", "rejectattr"} ->
            LET kept == Items(Filtered([f EXCEPT !.name = "selectattr"], x))
                left == Items(Filtered([f EXCEPT !.name = "rejectattr"], x))
            IN Distinct(s) => Len(kept) + Len(left) = Len(s) /\ Texts(kept) \union Texts(left) = Texts(s)
       [] f.name = "dict2items" -> x.t = "map" => Items2Dict(r) = x
       [] f.name = "items2dict" -> \A n \in DOMAIN s : HasAttr(s[n], "key") /\ (\A m \in (n + 1)..Len(s) : ~HasAttr(s[m], "key") \/ KeyOf(s[m]) # KeyOf(s[n]))
                                     => KeyOf(s[n]) \in DOMAIN y.val /\ y.val[KeyOf(s[n])] = MapAttribute(x, "value")[n]
       [] f.name = "combine"    -> Overlaid(ContentsOf(MapsOf(<<x>> \o f.args)), y.val, f.recursive)
       [] f.name \in {"min", "max"} -> y.t = "num" => /\ \E n \in DOMAIN s : IsNumber(s[n]) /\ NumberOf(s[n]) = y.val
                                                      /\ \A n \in DOMAIN s : IsNumber(s[n]) =>
                                                           IF f.name = "min" THEN y.val <= NumberOf(s[n]) ELSE NumberOf(s[n]) <= y.val
       [] f.name = "default"    -> y.t = "nil" => f.arg.t = "nil"
       [] OTHER -> TRUE

(* Maps without their places.                                              *)
RECURSIVE Bare(_)
Bare(x) == CASE x.t = "map" -> Map([k \in DOMAIN x.val |-> Bare(x.val[k])])
             [] IsSlice(x)  -> [x EXCEPT !.val = [n \in DOMAIN @ |-> Bare(@[n])]]
             [] OTHER       -> x

(* A recursive combine of maps that hold maps under one key.               *)
WritesBack(f, x) ==
  LET ms == MapsOf(<<x>> \o f.args)
  IN  f.recursive /\ \E m, n \in DOMAIN ms : m < n /\ Shared(ms[m].val, ms[n].val) # {}

RECURSIVE Evaluated(_, _, _, _)
Evaluated(fs, n, x, held) ==
  IF fs = <<>> THEN x
  ELSE LET done == Step(Head(fs), n, x, held) IN Evaluated(Tail(fs), n + 1, done.value, done.held)

(* ApplyFilter: each filter keeps its law whatever filters came before it: *)
(* no item twice after unique, intersect and union; difference and         *)
(* intersect, selectattr and rejectattr share the items between them;      *)
(* items2dict undoes dict2items; the last map combined wins.  No filter    *)
(* changes the variable but a recursive combine of maps that hold maps     *)
(* under one key (WritesBack); and where one did, wherever in the          *)
(* expression, a task that asks the same expression of the changed         *)
(* variable gets the same value.                                           *)
FiltersMean ==
  [][Len(chain') = Len(chain) + 1 =>
       LET f == Last(chain')
           variable == store'[ask.base]
       IN /\ FilterLaw(f, Bare(answer), Bare(answer'))
          /\ store' # store => f.name = "combine" /\ WritesBack(f, answer)
          /\ Bare(Evaluated(chain', MaxFilters + 1, variable, variable)) = Bare(answer')]_vars
=============================================================================
