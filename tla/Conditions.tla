----------------------------- MODULE Conditions -----------------------------
(***************************************************************************)
(* How the executor decides whether a task runs: it reads the text of a    *)
(* when condition, cuts it at or and and outside of quotes and             *)
(* parentheses, and searches what is left for tests and operators, in a    *)
(* fixed order; it compares the tags of a task with those of the command   *)
(* line; and it makes the items of a loop.                                 *)
(*                                                                         *)
(* A condition is a sequence of words, one space apart, but for quotes and *)
(* parentheses, which cling to their contents.  Filters in an operand are  *)
(* left to Filters.                                                        *)
(***************************************************************************)
EXTENDS Values

CONSTANTS Paths  \* the words that name an attribute of a variable: <<variable, attribute>>

Quotes    == {"'", "\""}
Relations == <<"==", "!=", ">=", "<=", ">", "<">>
-----------------------------------------------------------------------------
(* The text of a condition                                                 *)

(* Which quote and how many parentheses are open after each word: where    *)
(* the text is cut the depth never goes below 0.                           *)
RECURSIVE Scan(_, _, _)
Scan(ws, floor, open) ==
  IF Len(open) > Len(ws) THEN open
  ELSE LET w == ws[Len(open)]
           s == Last(open)
       IN Scan(ws, floor, Append(open,
            CASE s.quote # ""  -> [s EXCEPT !.quote = IF w = @ THEN "" ELSE @]
              [] s.quote = "" /\ w \in Quotes -> [s EXCEPT !.quote = w]
              [] s.quote = "" /\ w = "(" -> [s EXCEPT !.depth = @ + 1]
              [] s.quote = "" /\ w = ")" -> [s EXCEPT !.depth = IF @ > 0 \/ ~floor THEN @ - 1 ELSE @]
              [] OTHER -> s))
Opened(ws, floor) == Scan(ws, floor, <<[quote |-> "", depth |-> 0]>>)

IsMatchedParentheses(ws) ==
  LET open == Opened(ws, FALSE)
  IN  (\A n \in DOMAIN open : open[n].depth >= 0) /\ Last(open).depth = 0
InParentheses(ws) == Len(ws) >= 2 /\ Head(ws) = "(" /\ Last(ws) = ")"
HasSurroundingParentheses(ws) == InParentheses(ws) /\ IsMatchedParentheses(SubSeq(ws, 2, Len(ws) - 1))
RECURSIVE Strip(_)
Strip(ws) == IF HasSurroundingParentheses(ws) THEN Strip(SubSeq(ws, 2, Len(ws) - 1)) ELSE ws

CutAt(ws, places) ==
  LET at == <<0>> \o SetToSortSeq(places, <) \o <<Len(ws) + 1>>
  IN  [n \in 1..(Len(at) - 1) |-> SubSeq(ws, at[n] + 1, at[n + 1] - 1)]
TopLevel(ws, w) == LET open == Opened(ws, TRUE)
                   IN  {n \in 2..(Len(ws) - 1) : ws[n] = w /\ open[n].quote = "" /\ open[n].depth = 0}
Anywhere(ws, w) == {n \in 2..(Len(ws) - 1) : ws[n] = w /\ Opened(ws, TRUE)[n].quote = ""}
PartsAnywhere(ws, w) == CutAt(ws, Anywhere(ws, w))
Parts(ws, w) == CutAt(ws, TopLevel(ws, w))

EndsIn(ws, end) == Len(ws) > Len(end) /\ SubSeq(ws, Len(ws) - Len(end) + 1, Len(ws)) = end
Front_(ws, n)   == SubSeq(ws, 1, Len(ws) - n)
FirstOf(S)      == CHOOSE n \in S : \A m \in S : n <= m
-----------------------------------------------------------------------------
(* Variables and results of tasks                                          *)

(* A variable by its name or the path to it, in quotes or not: {} when     *)
(* there is none.                                                          *)
LookUp(ws, env) ==
  LET name == SelectSeq(ws, LAMBDA w : w \notin Quotes) IN
  IF Len(name) # 1 THEN {}
  ELSE LET w == name[1] IN
       CASE w \in DOMAIN env -> {env[w]}
         [] w \in DOMAIN Paths \ DOMAIN env ->
              LET p == Paths[w] IN
              IF p[1] \in DOMAIN env /\ env[p[1]].t = "map" /\ p[2] \in DOMAIN env[p[1]].val THEN {env[p[1]].val[p[2]]} ELSE {}
         [] OTHER -> {}

Says(x, k) == k \in DOMAIN x.val /\ IsTruthy(x.val[k])
FailedCode(x) == "rc" \in DOMAIN x.val /\ IsNumber(x.val["rc"]) /\ NumberOf(x.val["rc"]) # 0
IsTaskResultSucceeded(x) ==
  CASE x.t = "nil"  -> FALSE
    [] x.t = "map"  -> ~Says(x, "failed") /\ ~Says(x, "unreachable") /\ ~FailedCode(x)
    [] x.t = "bool" -> x.val
    [] OTHER        -> TRUE
IsTaskResultFailed(x) ==
  CASE x.t = "map"  -> Says(x, "failed") \/ FailedCode(x)
    [] x.t = "bool" -> ~x.val
    [] OTHER        -> FALSE
Holds(test, found) ==
  CASE test = "defined"     -> found # {}
    [] test = "succeeded"   -> \E x \in found : IsTaskResultSucceeded(x)
    [] test = "failed"      -> \E x \in found : IsTaskResultFailed(x)
    [] OTHER                -> \E x \in found : x.t = "map" /\ Says(x, test)
Tests    == {"defined", "succeeded", "failed", "unreachable", "skipped"}
Negated  == {"defined", "succeeded", "failed"}  \* the tests that may stand after "is not"

RECURSIVE Less(_, _)
Less(u, w) == IF u = <<>> \/ w = <<>> THEN u = <<>> /\ w # <<>>
              ELSE Before(u[1], w[1]) \/ (u[1] = w[1] /\ Less(Tail(u), Tail(w)))
CompareConditionValues(x, y, rel) ==
  LET numbers == IsNumber(x) /\ IsNumber(y)
      less(a, b) == IF numbers THEN NumberOf(a) < NumberOf(b) ELSE Less(Text(a), Text(b))
      same == IF numbers THEN NumberOf(x) = NumberOf(y) ELSE SameText(x, y)
  IN CASE rel = "==" -> same
       [] rel = "!=" -> ~same
       [] rel = "<"  -> less(x, y)
       [] rel = ">"  -> less(y, x)
       [] rel = "<=" -> ~less(y, x)
       [] rel = ">=" -> ~less(x, y)
WithinText(u, w)  == \E n \in 0..(Len(w) - Len(u)) : SubSeq(w, n + 1, n + Len(u)) = u
ConditionContains(holder, x) ==
  IF holder.t = "list" THEN \E n \in DOMAIN holder.val : CompareConditionValues(holder.val[n], x, "==")
  ELSE WithinText(Text(x), Text(holder))
-----------------------------------------------------------------------------
(* Conditions                                                              *)

IsQuoted(ws) == Len(ws) >= 2 /\ ws[1] \in Quotes /\ Last(ws) = ws[1] /\ \A n \in 2..(Len(ws) - 1) : ws[n] # ws[1]

(* yes if condition else no: the parts, or <<>>.                           *)
SplitTernary(ws) ==
  LET ifs   == TopLevel(ws, "if")
      elses == {n \in TopLevel(ws, "else") : ifs # {} /\ n > FirstOf(ifs) + 1}
  IN  IF elses = {} THEN <<>> ELSE CutAt(ws, {FirstOf(ifs), FirstOf(elses)})

RECURSIVE EvaluateWhen(_, _), Operand(_, _, _)

(* Where " in " and " not in " stand: words from m to n with a space on    *)
(* either side, wherever in the text.                                      *)
Spaced(ws, m, n) ==
  LET open == Opened(ws, FALSE)
  IN  /\ ws[m - 1] # "(" /\ (ws[m - 1] \in Quotes => open[m].quote = "")
      /\ ws[n + 1] # ")" /\ (ws[n + 1] \in Quotes => open[n + 1].quote = "")
Ins(ws)    == {n \in 2..(Len(ws) - 1) : ws[n] = "in" /\ Spaced(ws, n, n)}
NotIns(ws) == {n \in 2..(Len(ws) - 2) : ws[n] = "not" /\ ws[n + 1] = "in" /\ Spaced(ws, n, n + 1)}

(* An operand that is nothing else stands for its own text; none is nil    *)
(* only below an if.                                                       *)
Operand(text, env, nils) ==
  LET ws == Strip(text)
      ternary == SplitTernary(ws)
  IN IF ws = <<>> THEN Txt(<<>>)
     ELSE IF IsQuoted(ws) THEN Txt(SubSeq(ws, 2, Len(ws) - 1))
     ELSE IF ws \in {<<"true">>, <<"yes">>} THEN Bool(TRUE)
     ELSE IF ws \in {<<"false">>, <<"no">>} THEN Bool(FALSE)
     ELSE IF Len(ws) = 1 /\ ws[1] \in nils THEN Nil
     ELSE IF IsNumeral(ws) THEN Num(Numbers[ws[1]])
     ELSE IF ternary # <<>>
          THEN Operand(IF EvaluateWhen(ternary[2], env) THEN ternary[1] ELSE ternary[3], env, {"nil", "null", "none"})
     ELSE IF LookUp(ws, env) # {} THEN CHOOSE x \in LookUp(ws, env) : TRUE ELSE Txt(ws)
ResolveConditionOperand(text, env) == Operand(text, env, {"nil", "null"})

(* The answer of a text that is a test or a comparison, in a set, or {}:   *)
(* the first operator counts, wherever in the text it stands.              *)
EvaluateComparisonCondition(ws, env) ==
  LET tested == {t \in Tests : EndsIn(ws, <<"is", t>>)}
      denied == {t \in Negated : EndsIn(ws, <<"is", "not", t>>)}
      notin  == NotIns(ws)
      isin   == Ins(ws)
      rels   == {k \in DOMAIN Relations : Relations[k] \in Range(ws)}
      left(n)  == ResolveConditionOperand(SubSeq(ws, 1, n - 1), env)
      right(n) == ResolveConditionOperand(SubSeq(ws, n + 1, Len(ws)), env)
  IN CASE tested # {} -> {Holds(t, LookUp(Front_(ws, 2), env)) : t \in tested}
       [] tested = {} /\ denied # {} -> {~Holds(t, LookUp(Front_(ws, 3), env)) : t \in denied}
       [] tested \union denied = {} /\ notin # {} -> {~ConditionContains(right(FirstOf(notin) + 1), left(FirstOf(notin)))}
       [] tested \union denied \union notin = {} /\ isin # {} -> {ConditionContains(right(FirstOf(isin)), left(FirstOf(isin)))}
       [] OTHER -> IF rels = {} THEN {}
                   ELSE LET rel == Relations[FirstOf(rels)]
                            n   == FirstOf({m \in DOMAIN ws : ws[m] = rel})
                        IN  {CompareConditionValues(left(n), right(n), rel)}

EvaluateWhen(text, env) ==
  LET ws  == Strip(text)
      ors == Parts(ws, "or")
      ands == Parts(ws, "and")
      compared == EvaluateComparisonCondition(ws, env)
  IN CASE Len(ors) > 1  -> \E n \in DOMAIN ors : EvaluateWhen(ors[n], env)
       [] Len(ors) = 1 /\ Len(ands) > 1 -> \A n \in DOMAIN ands : EvaluateWhen(ands[n], env)
       [] OTHER ->
            IF compared # {} THEN compared = {TRUE}
            ELSE IF Len(ws) > 1 /\ ws[1] = "not" THEN ~EvaluateWhen(Tail(ws), env)
            ELSE \/ ws \in {<<"true">>, <<"yes">>}
                 \/ ws \notin {<<"false">>, <<"no">>} /\ \E x \in LookUp(ws, env) : IsTruthy(x)
-----------------------------------------------------------------------------
(* Tags                                                                    *)

MatchAnyTag(chosen, tags) == tags # {} /\ ("all" \in chosen \/ chosen \intersect tags # {})
ShouldSkipByTags(skip, tags) ==
  IF "always" \in tags THEN "always" \in skip
  ELSE \/ "all" \in skip
       \/ "untagged" \in skip /\ tags = {}
       \/ "tagged" \in skip /\ tags # {}
       \/ MatchAnyTag(skip, tags)
ShouldRunTaskByTags(chosen, skip, tags) ==
  LET never == "never" \in tags IN
  /\ ~ShouldSkipByTags(skip, tags)
  /\ CASE chosen = {}         -> ~never
       [] chosen # {} /\ "always" \in tags -> TRUE
       [] OTHER -> IF "all" \in chosen THEN never => "never" \in chosen
                   ELSE \/ "untagged" \in chosen /\ tags = {}
                        \/ "tagged" \in chosen /\ tags # {} /\ ~never
                        \/ tags # {} /\ (never => "never" \in chosen) /\ MatchAnyTag(chosen, tags)
-----------------------------------------------------------------------------
(* Loops                                                                   *)

(* with_sequence, whose stride takes the sign of the way from start to end. *)
RECURSIVE Count(_, _, _)
Count(from, to, stride) ==
  IF (stride > 0 /\ from > to) \/ (stride < 0 /\ from < to) THEN <<>>
  ELSE <<Txt(<<Numeral(from)>>)>> \o Count(from + stride, to, stride)
ExpandSequence(spec) ==
  IF spec.stride = 0 THEN <<>>
  ELSE Count(spec.start, spec.end,
             IF (spec.start < spec.end /\ spec.stride < 0) \/ (spec.start > spec.end /\ spec.stride > 0)
             THEN -spec.stride ELSE spec.stride)

LongestOf(lists) == CHOOSE n \in {Len(lists[k]) : k \in DOMAIN lists} : \A k \in DOMAIN lists : Len(lists[k]) <= n
ExpandTogether(lists) ==
  IF lists = <<>> THEN <<>>
  ELSE [n \in 1..LongestOf(lists) |->
          List([k \in DOMAIN lists |-> IF n <= Len(lists[k]) THEN lists[k][n] ELSE Nil])]

RECURSIVE Extended(_, _)
Extended(rows, lists) ==
  IF lists = <<>> THEN rows
  ELSE Extended(FlattenSeq([r \in DOMAIN rows |-> [k \in DOMAIN Head(lists) |-> Append(rows[r], Head(lists)[k])]]), Tail(lists))
ExpandNested(lists) ==
  IF lists = <<>> THEN <<>> ELSE LET rows == Extended(<<<<>>>>, lists) IN [n \in DOMAIN rows |-> List(rows[n])]

KeyValue(k, x) == Map([a \in {"key", "value"} |-> IF a = "key" THEN Txt(<<k>>) ELSE x])
EvaluateLoop(kind, x) ==
  CASE kind = "sequence" -> ExpandSequence(x)
    [] kind = "together" -> ExpandTogether(x)
    [] kind = "nested"   -> ExpandNested(x)
    [] kind = "value"    ->
         CASE x.t = "nil"  -> <<>>
           [] x.t = "list" -> x.val
           [] x.t = "map"  -> LET ks == SortedKeys(x.val) IN [n \in 1..Len(ks) |-> KeyValue(ks[n], x.val[ks[n]])]
           [] OTHER        -> <<x>>
=============================================================================
