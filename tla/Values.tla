------------------------------- MODULE Values -------------------------------
(***************************************************************************)
(* The values of variables, as conditions and filters see them: a value    *)
(* [t, val] is a number, a text, which is a sequence of words, a Boolean, a  *)
(* list, a list of nothing but maps as dict2items makes it, a map from     *)
(* words, or nil.  Where the code compares values by what %v prints, the   *)
(* model compares their Text.                                              *)
(***************************************************************************)
EXTENDS Integers, SequencesExt

CONSTANTS
  Words,   \* the words there are, in the order of the alphabet
  Numbers  \* the words that are numerals, and the numbers they stand for

Num(n)  == [t |-> "num", val |-> n]
Txt(ws) == [t |-> "text", val |-> ws]
Bool(b) == [t |-> "bool", val |-> b]
List(s) == [t |-> "list", val |-> s]
Maps(s) == [t |-> "maps", val |-> s]
Map(f)  == [t |-> "map", val |-> f]
Nil     == [t |-> "nil", val |-> <<>>]
IsSlice(x) == x.t \in {"list", "maps"}

ASSUME ValuesAssumption == IsInjective(Words) /\ \A w \in DOMAIN Numbers : w \in Range(Words) /\ Numbers[w] \in Int

Place(w)     == CHOOSE n \in 1..Len(Words) : Words[n] = w
Before(u, w) == Place(u) < Place(w)
SortedKeys(f) == SetToSortSeq(DOMAIN f, Before)
Numeral(n)   == CHOOSE w \in DOMAIN Numbers : Numbers[w] = n

RECURSIVE Text(_)
Text(x) ==
  CASE x.t = "num"  -> <<Numeral(x.val)>>
    [] x.t = "text" -> x.val
    [] x.t = "bool" -> IF x.val THEN <<"true">> ELSE <<"false">>
    [] x.t = "nil"  -> <<"<nil>">>
    [] IsSlice(x)   -> <<"[">> \o FlattenSeq([n \in 1..Len(x.val) |-> Text(x.val[n])]) \o <<"]">>
    [] x.t = "map"  -> LET ks == SortedKeys(x.val)
                       IN  <<"map[">> \o FlattenSeq([n \in 1..Len(ks) |-> <<ks[n]>> \o Text(x.val[ks[n]])]) \o <<"]">>
SameText(x, y) == Text(x) = Text(y)

IsNumeral(ws) == Len(ws) = 1 /\ ws[1] \in DOMAIN Numbers
IsNumber(x)   == x.t = "num" \/ (x.t = "text" /\ IsNumeral(x.val))
NumberOf(x)   == IF x.t = "num" THEN x.val ELSE Numbers[x.val[1]]

IsEmpty(x) ==
  CASE x.t = "nil"  -> TRUE
    [] x.t = "bool" -> ~x.val
    [] x.t = "num"  -> x.val = 0
    [] x.t = "map"  -> DOMAIN x.val = {}
    [] OTHER        -> x.val = <<>>
IsTruthy(x) ==
  IF x.t = "text" THEN x.val \notin {<<>>, <<"false">>, <<"no">>, <<"0">>, <<"none">>, <<"null">>} ELSE ~IsEmpty(x)
=============================================================================
