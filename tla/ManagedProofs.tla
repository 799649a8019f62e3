---------------------------- MODULE ManagedProofs ----------------------------
(***************************************************************************)
(* Proofs about Managed, for any tasks and hosts that fit: a dry run       *)
(* changes nothing, what is reported unchanged is, a dry run that foretold *)
(* no change is followed by none; a run that succeeds leaves what its task *)
(* asked for, and so does one that lost its connection and did not fail.   *)
(* A lemma per module says of the last two (Good): every prefix of its     *)
(* trail leaves a host that the task still fits, and whoever does not fail *)
(* at the end, or silently before it, left what was asked for.  The runs   *)
(* of the modules that edit what is shared with others, lines of a text or *)
(* entries of a file, spare what the task does not name (Spares).  The     *)
(* theorems at the end put the runs together.                              *)
(***************************************************************************)
EXTENDS ManagedRunProofs

\* Every host that a run leaves on its way is one its task fits.
Fitting(t, trail) == IsTrail(trail) /\ \A s \in Elems(trail) : Fits(t, s.host)

LEMMA FittingOne ==
  ASSUME NEW t, NEW s, Fits(t, s.host)
  PROVE  Fitting(t, <<s>>) /\ Fitting(t, <<>>)
BY ElemsShort, ShortTrails DEF Fitting

LEMMA FittingTwo ==
  ASSUME NEW t, NEW a, NEW b, Fits(t, a.host), Fits(t, b.host)
  PROVE  Fitting(t, <<a, b>>)
BY ElemsTwo, ShortTrails DEF Fitting

LEMMA FittingThree ==
  ASSUME NEW t, NEW a, NEW b, NEW c, Fits(t, a.host), Fits(t, b.host), Fits(t, c.host)
  PROVE  Fitting(t, <<a, b, c>>)
<1>1. IsTrail(<<a, b, c>>)
  <2>1. <<a, b, c>> \in Seq({a, b, c})
    OBVIOUS
  <2> QED BY <2>1 DEF IsTrail
<1> QED BY <1>1, ElemsThree DEF Fitting

LEMMA FittingJoin ==
  ASSUME NEW t, NEW a, NEW b, Fitting(t, a), Fitting(t, b)
  PROVE  Fitting(t, a \o b)
BY ElemsJoin, TrailsJoin DEF Fitting

\* The hosts of a run fit its task, and it does what was asked, unless it is
\* a run that nobody counts on: in check mode, or on what was not read.
Good(t, h, run, loose) == Fitting(t, run.trail) /\ (~loose /\ ~NotAsAsked(t, h) => Done(t, run, h))

LEMMA RightGood ==
  ASSUME NEW t, NEW h, NEW run, NEW loose, Fits(t, h), t.module \in FileModules \cup LineModules, Right(t, h, run, loose)
  PROVE  Good(t, h, run, loose)
BY FileFits DEF Right, Good, Passes, Fitting

LEMMA GoodRun ==
  ASSUME NEW t, NEW h, NEW run, NEW loose, Fitting(t, run.trail), LoudEnd(run.trail),
         ~loose /\ ~NotAsAsked(t, h) /\ ~run.failed => Promised(t, End(run.trail, h))
  PROVE  Good(t, h, run, loose)
<1>1. ASSUME ~loose, ~NotAsAsked(t, h) PROVE Done(t, run, h)
  BY <1>1, DoneLoud DEF Fitting
<1> QED BY <1>1 DEF Good

LEMMA GoodFailing ==
  ASSUME NEW t, NEW h, NEW run, NEW loose, Fitting(t, run.trail), run.failed
  PROVE  Good(t, h, run, loose)
BY DoneFailing DEF Good

LEMMA GoodIdle ==
  ASSUME NEW t, NEW h, NEW run, NEW loose, run.trail = <<>>, ~loose /\ ~run.failed /\ ~NotAsAsked(t, h) => Promised(t, h)
  PROVE  Good(t, h, run, loose)
<1>1. Fitting(t, <<>>)
  BY ElemsShort, ShortTrails DEF Fitting
<1>2. End(run.trail, h) = h
  BY EndShort
<1>3. LoudEnd(run.trail)
  BY EndShort
<1> QED BY <1>1, <1>2, <1>3, GoodRun

LEMMA GoodOne ==
  ASSUME NEW t, NEW h, NEW run, NEW loose, NEW g, run.trail = <<Loud(g)>>, Fits(t, g),
         ~loose /\ ~NotAsAsked(t, h) /\ ~run.failed => Promised(t, g)
  PROVE  Good(t, h, run, loose)
<1>1. Fitting(t, <<Loud(g)>>)
  BY FittingOne, LoudQuiet
<1>2. End(<<Loud(g)>>, h) = g
  BY EndOne, LoudQuiet
<1>3. LoudEnd(<<Loud(g)>>)
  BY EndShort, LoudQuiet
<1> QED BY <1>1, <1>2, <1>3, GoodRun

LEMMA GoodTwo ==
  ASSUME NEW t, NEW h, NEW run, NEW loose, NEW a, NEW g, run.trail = <<a, Loud(g)>>, Fits(t, a.host), Fits(t, g),
         ~loose /\ ~NotAsAsked(t, h) /\ ~run.failed => Promised(t, g)
  PROVE  Good(t, h, run, loose)
<1>1. Fitting(t, <<a, Loud(g)>>)
  BY FittingTwo, LoudQuiet
<1>2. End(<<a, Loud(g)>>, h) = g
  BY EndTwo, LoudQuiet
<1>3. LoudEnd(<<a, Loud(g)>>)
  BY EndShort, LoudQuiet
<1> QED BY <1>1, <1>2, <1>3, GoodRun

LEMMA GoodScripts ==
  ASSUME NEW t, NEW h, NEW g, NEW c, NEW loose, Fits(t, g)
  PROVE  /\ Good(t, h, ScriptFailed(g), loose)
         /\ (~loose /\ ~NotAsAsked(t, h) => Promised(t, g)) => Good(t, h, Script(g, c), loose)
<1>1. ScriptFailed(g).trail = <<Loud(g)>> /\ Script(g, c).trail = <<Loud(g)>> /\ ScriptFailed(g).failed
  BY DEF Script, ScriptFailed, Ran
<1> QED BY <1>1, GoodOne

LEMMA EntryFits ==
  ASSUME NEW t, NEW h, NEW g, Fits(t, h), t.module \in ReadsBeforeItWrites, FitsEntries(t, g)
  PROVE  Fits(t, g)
<1>1. t.module \in {"authorized_key", "known_hosts", "cron", "sysctl", "mount"}
  BY DEF ReadsBeforeItWrites
<1>2. FitsFiles(t, g)
  BY <1>1 DEF FitsFiles, FileModules, LineModules
<1>3. FitsAccounts(t, g) /\ FitsServices(t, g)
  BY <1>1 DEF FitsAccounts, FitsServices
<1>4. FitsTransfers(t, g)
  BY <1>1 DEF FitsTransfers
<1> QED BY <1>2, <1>3, <1>4 DEF Fits

-----------------------------------------------------------------------------
(* authorized_key and known_hosts                                          *)

\* The elements of a list that was put together from pieces.
Gathers(q, p) == \A e : e \in Elems(q) <=> \E i \in DOMAIN p : e \in Elems(p[i])

LEMMA Pieces ==
  ASSUME NEW S, NEW s, IsList(s), NEW p, p = [i \in DOMAIN s |-> p[i]], \A i \in DOMAIN s : p[i] \in Seq(S)
  PROVE  p \in Seq(Seq(S)) /\ FlattenSeq(p) \in Seq(S) /\ Gathers(FlattenSeq(p), p)
<1> DEFINE Q == Seq(S)
<1>1. DOMAIN s = 1..Len(s) /\ Len(s) \in Nat
  BY ListSeq
<1>2. p \in Seq(Q)
  <2>1. p \in [1..Len(s) -> Q]
    BY <1>1
  <2> HIDE DEF Q
  <2> QED BY <1>1, <2>1
<1>3. FlattenSeq(p) \in Seq(S)
  BY <1>2, FlattenList
<1>4. Elems(FlattenSeq(p)) = UNION {Elems(p[i]) : i \in DOMAIN p}
  BY <1>2, FlattenElems
<1>5. Gathers(FlattenSeq(p), p)
  BY <1>4 DEF Gathers
<1> QED BY <1>2, <1>3, <1>5

\* The same in terms of the keys of a list of entries.
Keys(s) == {s[i].key : i \in DOMAIN s}

LEMMA PlaceIs ==
  ASSUME NEW t, IsList(t.keys), NEW key, Place(t, key) # {}
  PROVE  First(Place(t, key)) \in DOMAIN t.keys /\ t.keys[First(Place(t, key))] = key
<1> DEFINE S == Place(t, key)
<1>1. S \subseteq Nat
  BY ListSeq DEF Place
<1> HIDE DEF S
<1>2. First(S) \in S
  BY <1>1, LeastIs DEF S
<1> QED BY <1>2 DEF S, Place

\* What a rewriting of one line, and of one key that no line has, gives.
Keyed(k, n) == [key |-> k, note |-> n]
Noted(t, e) == Keyed(e.key, IF t.note = "" THEN e.note ELSE t.note)
KeyLine(t, e) == IF e.key = "#" THEN <<e>>
                 ELSE IF Place(t, e.key) # {} THEN IF t.state = "absent" THEN <<>> ELSE <<Noted(t, e)>>
                 ELSE IF t.state = "present" /\ t.exclusive THEN <<>> ELSE <<e>>
FoundKeys(s, t) == {First(Place(t, s[i].key)) : i \in {j \in DOMAIN s : Place(t, s[j].key) # {}}}
NewKey(s, t, i) == IF i \in FoundKeys(s, t) THEN <<>> ELSE <<Keyed(t.keys[i], t.note)>>

LEMMA KeysAre ==
  ASSUME NEW s, NEW t
  PROVE  LET kept == FlattenSeq([i \in DOMAIN s |-> KeyLine(t, s[i])])
             missing == FlattenSeq([i \in DOMAIN t.keys |-> NewKey(s, t, i)])
         IN  AuthorizedKeys(s, t) = IF t.state = "absent" THEN kept ELSE kept \o missing
BY DEF AuthorizedKeys, Rewritten, NewKey, FoundKeys, Keyed, Noted, KeyLine

IsKey(e) == e = Keyed(e.key, e.note)

LEMMA KeyedIs == ASSUME NEW k, NEW n PROVE IsKey(Keyed(k, n)) /\ Keyed(k, n).key = k
BY DEF IsKey, Keyed

\* The pieces of the new list, and what they hold.
LEMMA KeyLineIs ==
  ASSUME NEW t, NEW e, IsKey(e)
  PROVE  /\ KeyLine(t, e) \in Seq({e, Noted(t, e)}) /\ IsKey(Noted(t, e)) /\ Noted(t, e).key = e.key
         /\ \A x \in Elems(KeyLine(t, e)) :
              /\ x \in {e, Noted(t, e)}
              /\ e.key = "#" \/ (Place(t, e.key) # {} /\ t.state # "absent")
                 \/ (Place(t, e.key) = {} /\ ~(t.state = "present" /\ t.exclusive))
         /\ e.key # "#" /\ Place(t, e.key) # {} /\ t.state # "absent" => Noted(t, e) \in Elems(KeyLine(t, e))
<1> DEFINE n == Noted(t, e)
<1>1. IsKey(n) /\ n.key = e.key
  BY KeyedIs DEF Noted
<1> HIDE DEF n
<1>2. KeyLine(t, e) \in {<<>>, <<e>>, <<n>>}
  BY DEF KeyLine, n
<1>3. KeyLine(t, e) \in Seq({e, n})
  <2>1. <<>> \in Seq({e, n}) /\ <<e>> \in Seq({e, n}) /\ <<n>> \in Seq({e, n})
    OBVIOUS
  <2> QED BY <1>2, <2>1
<1>4. Elems(<<>>) = {} /\ Elems(<<e>>) = {e} /\ Elems(<<n>>) = {n}
  BY ElemsShort
<1>5. \A x \in Elems(KeyLine(t, e)) : x \in {e, n}
  BY <1>2, <1>4
<1>6. KeyLine(t, e) # <<>> => \/ e.key = "#" \/ (Place(t, e.key) # {} /\ t.state # "absent")
                              \/ (Place(t, e.key) = {} /\ ~(t.state = "present" /\ t.exclusive))
  <2>1. ASSUME e.key # "#", Place(t, e.key) # {}, t.state = "absent" PROVE KeyLine(t, e) = <<>>
    BY <2>1 DEF KeyLine
  <2>2. ASSUME e.key # "#", Place(t, e.key) = {}, t.state = "present", t.exclusive PROVE KeyLine(t, e) = <<>>
    BY <2>2 DEF KeyLine
  <2> QED BY <2>1, <2>2
<1>7. \A x \in Elems(KeyLine(t, e)) : KeyLine(t, e) # <<>>
  BY <1>4
<1>8. e.key # "#" /\ Place(t, e.key) # {} /\ t.state # "absent" => KeyLine(t, e) = <<n>>
  BY DEF KeyLine, n
<1>9. e.key # "#" /\ Place(t, e.key) # {} /\ t.state # "absent" => n \in Elems(KeyLine(t, e))
  BY <1>4, <1>8
<1> QED BY <1>1, <1>3, <1>5, <1>6, <1>7, <1>9 DEF n

\* What authorized_key makes of a list of keys.
KeysAsked(t, s) == LET keys == Keys(s) \ {"#"}
                   IN  CASE t.state = "absent" -> keys \cap ToSet(t.keys) = {}
                         [] t.state = "present" /\ t.exclusive -> keys = ToSet(t.keys)
                         [] OTHER -> ToSet(t.keys) \subseteq keys

KeyList(s) == IsList(s) /\ \A i \in DOMAIN s : IsKey(s[i])

\* The lines that stay, as they are or with the note of the task.
LEMMA KeptKeys ==
  ASSUME NEW s, KeyList(s), NEW t
  PROVE  LET p == [i \in DOMAIN s |-> KeyLine(t, s[i])]
             r == FlattenSeq(p)
             S == Elems(s) \cup {Noted(t, e) : e \in Elems(s)}
         IN  r \in Seq(S) /\ Gathers(r, p) /\ \A e \in S : IsKey(e)
<1> DEFINE p == [i \in DOMAIN s |-> KeyLine(t, s[i])]
           r == FlattenSeq(p)
           S == Elems(s) \cup {Noted(t, e) : e \in Elems(s)}
<1>1. \A i \in DOMAIN s : s[i] \in Elems(s) /\ IsKey(s[i])
  BY DEF Elems, KeyList
<1>2. \A i \in DOMAIN s : p[i] \in Seq(S)
  <2> SUFFICES ASSUME NEW i \in DOMAIN s PROVE KeyLine(t, s[i]) \in Seq(S)
    OBVIOUS
  <2>1. KeyLine(t, s[i]) \in Seq({s[i], Noted(t, s[i])})
    BY <1>1, KeyLineIs
  <2>2. {s[i], Noted(t, s[i])} \subseteq S
    BY <1>1
  <2> HIDE DEF S
  <2> QED BY <2>1, <2>2
<1>3. p = [i \in DOMAIN s |-> p[i]]
  OBVIOUS
<1>4. \A e \in S : IsKey(e)
  <2>1. \A e \in Elems(s) : IsKey(e)
    BY DEF Elems, KeyList
  <2> QED BY <2>1, KeyedIs DEF Noted
<1> HIDE DEF p, S
<1>5. FlattenSeq(p) \in Seq(S) /\ Gathers(FlattenSeq(p), p)
  BY <1>2, <1>3, Pieces DEF KeyList
<1> QED BY <1>4, <1>5 DEF p, S

\* The keys of the task that no line has.
LEMMA MissingKeys ==
  ASSUME NEW s, NEW t, IsList(t.keys)
  PROVE  LET p == [i \in DOMAIN t.keys |-> NewKey(s, t, i)]
             r == FlattenSeq(p)
             S == {Keyed(k, t.note) : k \in Elems(t.keys)}
         IN  r \in Seq(S) /\ Gathers(r, p)
<1> DEFINE p == [i \in DOMAIN t.keys |-> NewKey(s, t, i)]
           S == {Keyed(k, t.note) : k \in Elems(t.keys)}
<1>1. \A i \in DOMAIN t.keys : p[i] \in Seq(S)
  <2> SUFFICES ASSUME NEW i \in DOMAIN t.keys PROVE NewKey(s, t, i) \in Seq(S)
    OBVIOUS
  <2>1. Keyed(t.keys[i], t.note) \in S
    BY DEF Elems
  <2> DEFINE x == Keyed(t.keys[i], t.note)
  <2> HIDE DEF S, x
  <2>2. <<>> \in Seq(S) /\ <<x>> \in Seq(S)
    BY <2>1 DEF x
  <2> QED BY <2>2 DEF NewKey, x
<1>2. p = [i \in DOMAIN t.keys |-> p[i]]
  OBVIOUS
<1> HIDE DEF p, S
<1>3. FlattenSeq(p) \in Seq(S) /\ Gathers(FlattenSeq(p), p)
  BY <1>1, <1>2, Pieces
<1> QED BY <1>3 DEF p, S

LEMMA KeysOf == ASSUME NEW s PROVE Keys(s) = {e.key : e \in Elems(s)}
BY DEF Keys, Elems

LEMMA KeyLineHas ==
  ASSUME NEW t, NEW e, IsKey(e), e.key # "#", Place(t, e.key) # {}, t.state # "absent"
  PROVE  Noted(t, e) \in Elems(KeyLine(t, e)) /\ Noted(t, e).key = e.key
BY KeyLineIs

LEMMA KeysRight ==
  ASSUME NEW s, KeyList(s), NEW t, IsList(t.keys), ~Contains(t.keys, "#"), t.state \in {"present", "absent"}
  PROVE  KeyList(AuthorizedKeys(s, t)) /\ KeysAsked(t, AuthorizedKeys(s, t))
<1> DEFINE p == [i \in DOMAIN s |-> KeyLine(t, s[i])]
           kept == FlattenSeq(p)
           q == [i \in DOMAIN t.keys |-> NewKey(s, t, i)]
           missing == FlattenSeq(q)
           S == Elems(s) \cup {Noted(t, e) : e \in Elems(s)}
           T == {Keyed(k, t.note) : k \in Elems(t.keys)}
           r == AuthorizedKeys(s, t)
           mine == ToSet(t.keys)
<1>1. kept \in Seq(S) /\ Gathers(kept, p) /\ \A e \in S : IsKey(e)
  BY KeptKeys
<1>2. missing \in Seq(T) /\ Gathers(missing, q)
  BY MissingKeys
<1>3. \A e \in T : IsKey(e) /\ e.key \in mine
  BY KeyedIs DEF ToSet, Elems
<1>4. r = IF t.state = "absent" THEN kept ELSE kept \o missing
  BY KeysAre
<1>5. mine = {t.keys[i] : i \in DOMAIN t.keys} /\ "#" \notin mine /\ Elems(t.keys) = mine
  <2>1. DOMAIN t.keys = 1..Len(t.keys)
    BY ListSeq
  <2> QED BY <2>1 DEF ToSet, Contains, Elems
<1>6. \A k : Place(t, k) # {} <=> k \in mine
  BY <1>5 DEF Place
<1>7. \A i \in DOMAIN s : IsKey(s[i])
  BY DEF KeyList
<1> DEFINE Held(x, e) == /\ x.key = e.key /\ (e.key = "#" \/ (e.key \in mine /\ t.state # "absent")
                            \/ (e.key \notin mine /\ ~(t.state = "present" /\ t.exclusive)))
<1>8. ASSUME NEW x \in Elems(kept) PROVE \E i \in DOMAIN s : Held(x, s[i])
  <2>1. PICK i \in DOMAIN p : x \in Elems(p[i])
    BY <1>1 DEF Gathers
  <2>2. i \in DOMAIN s /\ x \in Elems(KeyLine(t, s[i]))
    BY <2>1
  <2>3. x \in {s[i], Noted(t, s[i])} /\ Noted(t, s[i]).key = s[i].key
    BY <1>7, <2>2, KeyLineIs
  <2>4. \/ s[i].key = "#" \/ (Place(t, s[i].key) # {} /\ t.state # "absent")
        \/ (Place(t, s[i].key) = {} /\ ~(t.state = "present" /\ t.exclusive))
    BY <1>7, <2>2, KeyLineIs
  <2> HIDE DEF p, mine
  <2>5. Held(x, s[i])
    BY <1>6, <2>3, <2>4
  <2> QED BY <2>2, <2>5
<1>9. ASSUME NEW i \in DOMAIN s, s[i].key # "#", s[i].key \in mine, t.state # "absent"
      PROVE  \E x \in Elems(kept) : x.key = s[i].key
  <2>0. IsKey(s[i]) /\ Place(t, s[i].key) # {}
    BY <1>6, <1>7, <1>9
  <2>1. Noted(t, s[i]) \in Elems(KeyLine(t, s[i])) /\ Noted(t, s[i]).key = s[i].key
    BY <1>9, <2>0, KeyLineHas
  <2>2. Noted(t, s[i]) \in Elems(p[i]) /\ i \in DOMAIN p
    BY <1>9, <2>1
  <2> HIDE DEF p, kept
  <2> QED BY <1>1, <2>1, <2>2 DEF Gathers
<1>10. ASSUME NEW k \in mine, t.state # "absent" PROVE \E x \in Elems(kept) \cup Elems(missing) : x.key = k
  <2> DEFINE f == First(Place(t, k))
  <2>1. f \in DOMAIN t.keys /\ t.keys[f] = k
    BY <1>6, PlaceIs
  <2>2. CASE f \in FoundKeys(s, t)
    <3>1. PICK i \in DOMAIN s : Place(t, s[i].key) # {} /\ f = First(Place(t, s[i].key))
      BY <2>2 DEF FoundKeys
    <3>2. t.keys[f] = s[i].key
      <4> HIDE DEF f
      <4> QED BY <3>1, PlaceIs
    <3>3. s[i].key \in mine /\ s[i].key # "#" /\ s[i].key = k
      BY <1>5, <2>1, <3>2
    <3>4. \E x \in Elems(kept) : x.key = s[i].key
      BY <1>9, <1>10, <3>3
    <3> QED BY <3>3, <3>4
  <2>3. CASE f \notin FoundKeys(s, t)
    <3> HIDE DEF f
    <3>1. q[f] = <<Keyed(t.keys[f], t.note)>> /\ f \in DOMAIN q
      BY <2>1, <2>3 DEF NewKey
    <3>2. Keyed(k, t.note) \in Elems(q[f])
      BY <2>1, <3>1, ElemsShort
    <3>3. Keyed(k, t.note) \in Elems(missing)
      BY <1>2, <3>1, <3>2 DEF Gathers
    <3> QED BY <3>3, KeyedIs
  <2> QED BY <2>2, <2>3
<1> HIDE DEF kept, missing, p, q, S, T, r, mine, Held
<1>11. IsTrail(kept) /\ IsTrail(missing)
  BY <1>1, <1>2 DEF IsTrail
<1>12. Elems(r) = IF t.state = "absent" THEN Elems(kept) ELSE Elems(kept) \cup Elems(missing)
  BY <1>4, <1>11, ElemsJoin
<1>13. KeyList(r)
  <2>1. r \in Seq(S \cup T)
    <3>1. kept \in Seq(S \cup T) /\ missing \in Seq(S \cup T)
      BY <1>1, <1>2
    <3> QED BY <1>4, <3>1
  <2>2. IsList(r) /\ Elems(r) \subseteq S \cup T
    BY <2>1, ListIs
  <2>3. \A i \in DOMAIN r : r[i] \in S \cup T
    BY <2>2 DEF Elems
  <2> QED BY <1>1, <1>3, <2>2, <2>3 DEF KeyList
<1>14. \A e \in Elems(missing) : e.key \in mine
  <2>1. Elems(missing) \subseteq T
    BY <1>2, ListIs
  <2> QED BY <1>3, <2>1
<1> DEFINE keys == Keys(r) \ {"#"}
<1>15. Keys(r) = {e.key : e \in Elems(r)}
  BY KeysOf
<1>16. ASSUME t.state = "absent" PROVE keys \cap mine = {}
  <2>1. \A e \in Elems(r) : e.key = "#" \/ e.key \notin mine
    BY <1>8, <1>12, <1>16 DEF Held
  <2> QED BY <1>15, <2>1
<1>17. ASSUME t.state = "present" PROVE mine \subseteq keys
  <2>1. \A k \in mine : \E x \in Elems(r) : x.key = k
    BY <1>10, <1>12, <1>17
  <2> QED BY <1>5, <1>15, <2>1
<1>18. ASSUME t.state = "present", t.exclusive PROVE keys \subseteq mine
  <2>1. \A e \in Elems(r) : e.key = "#" \/ e.key \in mine
    BY <1>8, <1>12, <1>14, <1>18 DEF Held
  <2> QED BY <1>15, <2>1
<1>19. KeysAsked(t, r)
  <2>1. CASE t.state = "absent"
    BY <1>16, <2>1 DEF KeysAsked, mine
  <2>2. CASE t.state = "present" /\ t.exclusive
    <3>1. keys = mine
      BY <1>17, <1>18, <2>2
    <3> QED BY <2>2, <3>1 DEF KeysAsked, mine
  <2>3. CASE t.state = "present" /\ ~t.exclusive
    BY <1>17, <2>3 DEF KeysAsked, mine
  <2> QED BY <2>1, <2>2, <2>3
<1> QED BY <1>13, <1>19 DEF r

LEMMA SaidTwo == ASSUME NEW a, NEW b PROVE Said(<<a, b>>) = <<Loud(a), Loud(b)>>
<1>1. DOMAIN <<a, b>> = 1..2
  OBVIOUS
<1>2. Said(<<a, b>>) = [i \in 1..2 |-> Loud(<<a, b>>[i])]
  BY <1>1 DEF Said
<1> QED BY <1>2

LEMMA WithLinesIs ==
  ASSUME NEW h, NEW new, "lines" \in DOMAIN h
  PROVE  /\ WithLines(h, new).lines = new /\ DOMAIN WithLines(h, new) = DOMAIN h
         /\ \A f \in DOMAIN h \ {"lines"} : WithLines(h, new)[f] = h[f]
BY DEF WithLines

LEMMA KeysPromised ==
  ASSUME NEW t, NEW g, t.module = "authorized_key"
  PROVE  KeysAsked(t, g.lines) => Promised(t, g)
<1> DEFINE keys == Keys(g.lines) \ {"#"}
<1>1. Promised(t, g) <=> EntriesPromised(t, g)
  BY DEF Promised, ReadsBeforeItWrites
<1>2. CASE t.state = "absent"
  BY <1>1, <1>2 DEF EntriesPromised, KeysAsked, Keys
<1>3. CASE t.state # "absent" /\ t.state = "present" /\ t.exclusive
  BY <1>1, <1>3 DEF EntriesPromised, KeysAsked, Keys
<1>4. CASE t.state # "absent" /\ ~(t.state = "present" /\ t.exclusive)
  BY <1>1, <1>4 DEF EntriesPromised, KeysAsked, Keys
<1> QED BY <1>2, <1>3, <1>4

LEMMA AuthorizedKeyGood ==
  ASSUME NEW t, NEW h, NEW seen, NEW check, Fits(t, h), t.module = "authorized_key", seen \in {h.lines, <<>>}
  PROVE  Good(t, h, AuthorizedKeyRun(h, seen, t, check), check \/ seen # h.lines)
<1> DEFINE new == AuthorizedKeys(seen, t)
           g == WithLines(h, new)
           k == IF h.writable THEN g ELSE h
           run == AuthorizedKeyRun(h, seen, t, check)
<1>1. /\ {"lines", "live", "bak"} \subseteq DOMAIN h /\ IsList(h.lines) /\ IsList(t.keys) /\ ~Contains(t.keys, "#")
      /\ t.state \in {"present", "absent"} /\ \A i \in DOMAIN h.lines : IsKey(h.lines[i])
      /\ "writable" \in DOMAIN h /\ h.writable \in BOOLEAN /\ t.keys # <<>>
  BY DEF Fits, FitsEntries, ReadsBeforeItWrites, IsKey, Keyed
<1>2. KeyList(seen)
  <2>1. KeyList(h.lines)
    BY <1>1 DEF KeyList
  <2>2. KeyList(<<>>)
    <3>1. <<>> \in Seq({}) /\ DOMAIN <<>> = {}
      OBVIOUS
    <3> QED BY <3>1, ListIs DEF KeyList
  <2> QED BY <2>1, <2>2
<1>3. KeyList(new) /\ KeysAsked(t, new)
  BY <1>1, <1>2, KeysRight
<1> HIDE DEF new
<1>4. g.lines = new /\ DOMAIN g = DOMAIN h /\ g.writable = h.writable
  BY <1>1, WithLinesIs
<1> HIDE DEF g
<1>5. Fits(t, g)
  <2>1. FitsEntries(t, g)
    BY <1>1, <1>3, <1>4 DEF FitsEntries, ReadsBeforeItWrites, KeyList, IsKey, Keyed
  <2> QED BY <2>1, EntryFits DEF ReadsBeforeItWrites
<1>6. CASE new = seen
  <2>1. run = Unchanged
    BY <1>6 DEF AuthorizedKeyRun, new
  <2>2. seen = h.lines => Promised(t, h)
    BY <1>3, <1>6, KeysPromised
  <2> QED BY <2>1, <2>2, RunParts, GoodIdle
<1>7. CASE new # seen /\ check
  <2>1. run = Reports(TRUE)
    BY <1>7 DEF AuthorizedKeyRun, new
  <2> QED BY <1>7, <2>1, RunParts, GoodIdle
<1>8. CASE new # seen /\ ~check
  <2>1. run = Changes(Said(<<h, k>>))
    BY <1>8 DEF AuthorizedKeyRun, new, g
  <2>2. run.trail = <<Loud(h), Loud(k)>>
    BY <2>1, RunParts, SaidTwo
  <2>3. ~NotAsAsked(t, h) => k = g
    BY DEF NotAsAsked
  <2>4. Promised(t, g)
    BY <1>3, <1>4, KeysPromised
  <2>5. Loud(h).host = h
    BY LoudQuiet
  <2>6. k \in {g, h}
    OBVIOUS
  <2> HIDE DEF run, k
  <2>7. Fits(t, k)
    BY <1>5, <2>6
  <2> QED BY <2>2, <2>3, <2>4, <2>5, <2>7, GoodTwo DEF run
<1> QED BY <1>6, <1>7, <1>8

\* The line that known_hosts writes, the lines that name its host, and what
\* it makes of each.
HostTarget(t) == [hosts |-> {t.name}, type |-> t.type, blob |-> t.blob, hashed |-> t.hash]
NamesHost(t, e) == t.name \in e.hosts
SameHost(t, e) == NamesHost(t, e) /\ e.type = t.type
HostLine(t, e) == IF t.state = "absent" /\ NamesHost(t, e) /\ t.blob \in {"", e.blob} THEN <<>>
                  ELSE IF t.state = "present" /\ SameHost(t, e) /\ ~(e.blob = t.blob /\ (t.hash => e.hashed)) THEN <<HostTarget(t)>>
                  ELSE <<e>>

LEMMA HostsAre ==
  ASSUME NEW s, NEW t
  PROVE  LET kept == FlattenSeq([i \in DOMAIN s |-> HostLine(t, s[i])])
         IN  KnownHosts(s, t) = IF t.state = "present" /\ ~\E i \in DOMAIN s : SameHost(t, s[i])
                                THEN Append(kept, HostTarget(t)) ELSE kept
<1> DEFINE CaseLine(i) == CASE t.state = "absent" /\ t.name \in s[i].hosts /\ t.blob \in {"", s[i].blob} -> <<>>
                            [] t.state = "present" /\ (t.name \in s[i].hosts /\ s[i].type = t.type)
                                 /\ ~(s[i].blob = t.blob /\ (t.hash => s[i].hashed)) -> <<HostTarget(t)>>
                            [] OTHER -> <<s[i]>>
<1>1. ASSUME NEW i \in DOMAIN s PROVE CaseLine(i) = HostLine(t, s[i])
  <2>1. CASE t.state = "absent"
    BY <2>1 DEF HostLine, NamesHost, SameHost
  <2>2. CASE t.state # "absent"
    BY <2>2 DEF HostLine, NamesHost, SameHost
  <2> QED BY <2>1, <2>2
<1>2. [i \in DOMAIN s |-> CaseLine(i)] = [i \in DOMAIN s |-> HostLine(t, s[i])]
  <2> HIDE DEF CaseLine
  <2> QED BY <1>1
<1> QED BY <1>2 DEF KnownHosts, Rewritten, HostTarget, NamesHost, SameHost

\* What known_hosts asks of the lines.
HostsAsked(t, s) == IF t.state = "present" THEN /\ \E i \in DOMAIN s : SameHost(t, s[i])
                                                /\ \A i \in DOMAIN s : SameHost(t, s[i]) => s[i].blob = t.blob
                    ELSE \A i \in DOMAIN s : SameHost(t, s[i]) => t.blob \notin {"", s[i].blob}

LEMMA HostTargetIs ==
  ASSUME NEW t
  PROVE  SameHost(t, HostTarget(t)) /\ HostTarget(t).blob = t.blob
BY DEF HostTarget, SameHost, NamesHost

LEMMA HostLineIs ==
  ASSUME NEW t, NEW e
  PROVE  /\ HostLine(t, e) \in Seq({e, HostTarget(t)})
         /\ \A x \in Elems(HostLine(t, e)) :
              \/ x = HostTarget(t)
              \/ /\ x = e
                 /\ t.state = "absent" => ~(NamesHost(t, e) /\ t.blob \in {"", e.blob})
                 /\ t.state = "present" /\ SameHost(t, e) => e.blob = t.blob
<1> DEFINE n == HostTarget(t)
<1> HIDE DEF n
<1>1. HostLine(t, e) \in {<<>>, <<e>>, <<n>>}
  BY DEF HostLine, n
<1>2. HostLine(t, e) \in Seq({e, n})
  <2>1. <<>> \in Seq({e, n}) /\ <<e>> \in Seq({e, n}) /\ <<n>> \in Seq({e, n})
    OBVIOUS
  <2> QED BY <1>1, <2>1
<1>3. Elems(<<>>) = {} /\ Elems(<<e>>) = {e} /\ Elems(<<n>>) = {n}
  BY ElemsShort
<1>4. ASSUME NEW x \in Elems(HostLine(t, e)), x # n
      PROVE  /\ x = e
             /\ t.state = "absent" => ~(NamesHost(t, e) /\ t.blob \in {"", e.blob})
             /\ t.state = "present" /\ SameHost(t, e) => e.blob = t.blob
  <2>1. x = e
    BY <1>1, <1>3, <1>4
  <2>2. ASSUME t.state = "absent", NamesHost(t, e), t.blob \in {"", e.blob} PROVE FALSE
    <3>1. HostLine(t, e) = <<>>
      BY <2>2 DEF HostLine
    <3> QED BY <1>3, <3>1
  <2>3. ASSUME t.state = "present", SameHost(t, e), e.blob # t.blob PROVE FALSE
    <3>1. HostLine(t, e) = <<n>>
      BY <2>3 DEF HostLine, n
    <3> QED BY <1>3, <1>4, <3>1
  <2> QED BY <2>1, <2>2, <2>3
<1> QED BY <1>2, <1>4 DEF n

\* A line for the host and the type stands for itself or is replaced.
LEMMA HostLineHas ==
  ASSUME NEW t, NEW e, t.state = "present", SameHost(t, e)
  PROVE  \E x \in Elems(HostLine(t, e)) : SameHost(t, x)
<1>1. HostLine(t, e) \in {<<e>>, <<HostTarget(t)>>}
  BY DEF HostLine
<1>2. Elems(<<e>>) = {e} /\ Elems(<<HostTarget(t)>>) = {HostTarget(t)}
  BY ElemsShort
<1> QED BY <1>1, <1>2, HostTargetIs

LEMMA HostsRight ==
  ASSUME NEW s, IsList(s), NEW t, t.state \in {"present", "absent"}
  PROVE  IsList(KnownHosts(s, t)) /\ HostsAsked(t, KnownHosts(s, t))
<1> DEFINE n == HostTarget(t)
           p == [i \in DOMAIN s |-> HostLine(t, s[i])]
           kept == FlattenSeq(p)
           S == Elems(s) \cup {n}
           r == KnownHosts(s, t)
           here == \E i \in DOMAIN s : SameHost(t, s[i])
<1>1. \A i \in DOMAIN s : p[i] \in Seq(S)
  <2> SUFFICES ASSUME NEW i \in DOMAIN s PROVE HostLine(t, s[i]) \in Seq(S)
    OBVIOUS
  <2>1. HostLine(t, s[i]) \in Seq({s[i], n})
    BY HostLineIs
  <2>2. {s[i], n} \subseteq S
    BY DEF Elems
  <2> HIDE DEF S
  <2> QED BY <2>1, <2>2
<1>2. kept \in Seq(S) /\ Gathers(kept, p)
  <2>1. p = [i \in DOMAIN s |-> p[i]]
    OBVIOUS
  <2> HIDE DEF p, S
  <2> QED BY <1>1, <2>1, Pieces
<1>3. r = IF t.state = "present" /\ ~here THEN Append(kept, n) ELSE kept
  BY HostsAre
<1>4. n \in S
  OBVIOUS
<1>5. ASSUME NEW x \in Elems(kept), x # n
      PROVE  /\ t.state = "absent" => ~(NamesHost(t, x) /\ t.blob \in {"", x.blob})
             /\ t.state = "present" /\ SameHost(t, x) => x.blob = t.blob
  <2>1. PICK i \in DOMAIN p : x \in Elems(p[i])
    BY <1>2 DEF Gathers
  <2>2. i \in DOMAIN s /\ x \in Elems(HostLine(t, s[i]))
    BY <2>1
  <2> DEFINE e == s[i]
             line == HostLine(t, e)
  <2> HIDE DEF p, kept, S, e, line
  <2>3. \A y \in Elems(line) : \/ y = n
                             \/ /\ y = e
                                /\ t.state = "absent" => ~(NamesHost(t, e) /\ t.blob \in {"", e.blob})
                                /\ t.state = "present" /\ SameHost(t, e) => e.blob = t.blob
    BY HostLineIs DEF line
  <2>4. x \in Elems(line)
    BY <2>2 DEF line, e
  <2> HIDE DEF n
  <2>5. /\ x = e
        /\ t.state = "absent" => ~(NamesHost(t, e) /\ t.blob \in {"", e.blob})
        /\ t.state = "present" /\ SameHost(t, e) => e.blob = t.blob
    BY <1>5, <2>3, <2>4
  <2> QED BY <2>5
<1>6. ASSUME t.state = "present", here PROVE \E x \in Elems(kept) : SameHost(t, x)
  <2>1. PICK i \in DOMAIN s : SameHost(t, s[i])
    BY <1>6
  <2>2. \E x \in Elems(HostLine(t, s[i])) : SameHost(t, x)
    BY <1>6, <2>1, HostLineHas
  <2>3. i \in DOMAIN p /\ p[i] = HostLine(t, s[i])
    OBVIOUS
  <2> QED BY <1>2, <2>2, <2>3 DEF Gathers
<1> HIDE DEF p, kept, S, n, here, r
<1>7. r \in Seq(S)
  BY <1>2, <1>3, <1>4
<1>8. IsList(r)
  BY <1>7, ListIs
<1>9. t.state = "present" /\ ~here => \A e : e \in Elems(r) <=> e \in Elems(kept) \/ e = n
  <2> SUFFICES ASSUME t.state = "present", ~here PROVE Elems(r) = Elems(kept) \cup {n}
    OBVIOUS
  <2>1. r = kept \o <<n>>
    <3>1. r = Append(kept, n)
      BY <1>3
    <3> QED BY <1>2, <3>1
  <2>2. IsTrail(kept) /\ IsTrail(<<n>>) /\ Elems(<<n>>) = {n}
    BY <1>2, ElemsShort, ShortTrails DEF IsTrail
  <2> QED BY <2>1, <2>2, ElemsJoin
<1>10. SameHost(t, n) /\ n.blob = t.blob
  BY HostTargetIs DEF n
<1>11. \A x \in Elems(kept) : t.state = "absent" => x # n
  <2> SUFFICES ASSUME NEW x \in Elems(kept), t.state = "absent", x = n PROVE FALSE
    OBVIOUS
  <2>1. PICK i \in DOMAIN p : x \in Elems(p[i])
    BY <1>2 DEF Gathers
  <2>2. i \in DOMAIN s /\ n \in Elems(HostLine(t, s[i]))
    BY <2>1 DEF p
  <2>3. HostLine(t, s[i]) \in {<<>>, <<s[i]>>}
    BY DEF HostLine
  <2>4. Elems(<<>>) = {} /\ Elems(<<s[i]>>) = {s[i]}
    BY ElemsShort
  <2>5. s[i] = n /\ HostLine(t, s[i]) = <<s[i]>>
    BY <2>2, <2>3, <2>4
  <2>6. HostLine(t, s[i]) = <<>>
    BY <1>10, <2>5 DEF HostLine, SameHost
  <2> QED BY <2>2, <2>4, <2>6
<1>12. CASE t.state = "present"
  <2>1. \E x \in Elems(r) : SameHost(t, x)
    BY <1>3, <1>6, <1>9, <1>10, <1>12
  <2>2. \A x \in Elems(r) : SameHost(t, x) => x.blob = t.blob
    BY <1>3, <1>5, <1>9, <1>10, <1>12
  <2>3. HostsAsked(t, r)
    BY <1>12, <2>1, <2>2 DEF HostsAsked, Elems
  <2> QED BY <1>8, <2>3 DEF r
<1>13. CASE t.state = "absent"
  <2>1. \A x \in Elems(r) : SameHost(t, x) => t.blob \notin {"", x.blob}
    BY <1>3, <1>5, <1>11, <1>13 DEF SameHost
  <2>2. HostsAsked(t, r)
    BY <1>13, <2>1 DEF HostsAsked, Elems
  <2> QED BY <1>8, <2>2 DEF r
<1> QED BY <1>12, <1>13

LEMMA HostsPromised ==
  ASSUME NEW t, NEW g, t.module = "known_hosts"
  PROVE  HostsAsked(t, g.lines) => Promised(t, g)
<1> DEFINE mine == {i \in DOMAIN g.lines : t.name \in g.lines[i].hosts /\ g.lines[i].type = t.type}
<1>1. Promised(t, g) <=> EntriesPromised(t, g)
  BY DEF Promised, ReadsBeforeItWrites
<1>2. EntriesPromised(t, g) <=> IF t.state = "present" THEN mine # {} /\ \A i \in mine : g.lines[i].blob = t.blob
                                ELSE \A i \in mine : t.blob \notin {"", g.lines[i].blob}
  <2>1. t.module # "authorized_key"
    OBVIOUS
  <2> QED BY <2>1 DEF EntriesPromised
<1>3. CASE t.state = "present"
  BY <1>1, <1>2, <1>3 DEF HostsAsked, SameHost, NamesHost
<1>4. CASE t.state # "present"
  BY <1>1, <1>2, <1>4 DEF HostsAsked, SameHost, NamesHost
<1> QED BY <1>3, <1>4

LEMMA KnownHostsGood ==
  ASSUME NEW t, NEW h, NEW seen, NEW check, Fits(t, h), t.module = "known_hosts", seen \in {h.lines, <<>>}
  PROVE  Good(t, h, KnownHostsRun(h, seen, t, check), check \/ seen # h.lines)
<1> DEFINE new == KnownHosts(seen, t)
           g == WithLines(h, new)
           run == KnownHostsRun(h, seen, t, check)
<1>1. {"lines", "live", "bak"} \subseteq DOMAIN h /\ IsList(h.lines) /\ t.state \in {"present", "absent"}
  BY DEF Fits, FitsEntries, ReadsBeforeItWrites
<1>2. IsList(seen)
  <2>1. <<>> \in Seq({})
    OBVIOUS
  <2> QED BY <1>1, <2>1, ListIs
<1>3. IsList(new) /\ HostsAsked(t, new)
  BY <1>1, <1>2, HostsRight
<1> HIDE DEF new
<1>4. g.lines = new /\ DOMAIN g = DOMAIN h
  BY <1>1, WithLinesIs
<1> HIDE DEF g
<1>5. Fits(t, g)
  <2>1. FitsEntries(t, g)
    BY <1>1, <1>3, <1>4 DEF FitsEntries, ReadsBeforeItWrites
  <2> QED BY <2>1, EntryFits DEF ReadsBeforeItWrites
<1>6. CASE new = seen
  <2>1. run = Unchanged
    BY <1>6 DEF KnownHostsRun, new
  <2>2. seen = h.lines => Promised(t, h)
    BY <1>3, <1>6, HostsPromised
  <2> QED BY <2>1, <2>2, RunParts, GoodIdle
<1>7. CASE new # seen /\ check
  <2>1. run = Reports(TRUE)
    BY <1>7 DEF KnownHostsRun, new
  <2> QED BY <1>7, <2>1, RunParts, GoodIdle
<1>8. CASE new # seen /\ ~check
  <2>1. run = Changes(<<Quiet(h), Loud(g)>>)
    BY <1>8 DEF KnownHostsRun, new, g
  <2>2. run.trail = <<Quiet(h), Loud(g)>>
    BY <2>1, RunParts
  <2>3. Promised(t, g)
    BY <1>3, <1>4, HostsPromised
  <2>4. Quiet(h).host = h
    BY LoudQuiet
  <2> HIDE DEF run
  <2> QED BY <1>5, <2>2, <2>3, <2>4, GoodTwo DEF run
<1> QED BY <1>6, <1>7, <1>8

-----------------------------------------------------------------------------
(* cron                                                                    *)

LEMMA HeadsAre ==
  ASSUME NEW s, IsList(s), NEW name
  PROVE  /\ Heads(s, name) \in [0..Len(s) -> BOOLEAN] /\ ~Heads(s, name)[0]
         /\ \A i \in 1..Len(s) : Heads(s, name)[i] <=> s[i] = Comment(name) /\ ~Heads(s, name)[i - 1]
<1> DEFINE N == Len(s)
           is(i) == s[i] = Comment(name)
           G == [x \in (0..N) \X BOOLEAN |-> is(x[1]) /\ ~x[2]]
<1>1. N \in Nat
  BY ListSeq
<1>2. G \in [(0..N) \X BOOLEAN -> BOOLEAN]
  OBVIOUS
<1> HIDE DEF N
<1> DEFINE none == FALSE
<1>3. PICK f : Recursive(f, 0, N, BOOLEAN, none, G)
  <2>1. 0 \in Nat /\ 0 <= N /\ none \in BOOLEAN
    BY <1>1
  <2> HIDE DEF G, none
  <2> QED BY <1>1, <1>2, <2>1, Recursion
<1>4. f \in [0..N -> BOOLEAN] /\ f[0] = none /\ \A i \in 1..N : f[i] = G[<<i, f[i - 1]>>]
  <2> HIDE DEF G, none
  <2>1. f \in [0..N -> BOOLEAN] /\ \A i \in 0..N : f[i] = IF i = 0 THEN none ELSE G[<<i, f[i - 1]>>]
    BY <1>3 DEF Recursive
  <2>2. 0 \in 0..N /\ \A i \in 1..N : i \in 0..N /\ i # 0
    BY <1>1
  <2>3. f[0] = none
    BY <2>1, <2>2
  <2>4. ASSUME NEW i \in 1..N PROVE f[i] = G[<<i, f[i - 1]>>]
    <3>1. i \in 0..N /\ i # 0
      BY <2>2
    <3>2. f[i] = IF i = 0 THEN none ELSE G[<<i, f[i - 1]>>]
      BY <2>1, <3>1
    <3> QED BY <3>1, <3>2
  <2> QED BY <2>1, <2>3, <2>4
<1>5. \A i \in 1..N : f[i] <=> is(i) /\ ~f[i - 1]
  <2> SUFFICES ASSUME NEW i \in 1..N PROVE f[i] <=> is(i) /\ ~f[i - 1]
    OBVIOUS
  <2>1. i - 1 \in 0..N /\ i \in 0..N
    BY <1>1
  <2>2. <<i, f[i - 1]>> \in (0..N) \X BOOLEAN
    BY <1>4, <2>1
  <2>3. G[<<i, f[i - 1]>>] = (is(i) /\ ~f[i - 1])
    BY <2>2
  <2>4. f[i] = G[<<i, f[i - 1]>>]
    BY <1>4
  <2> HIDE DEF G, is
  <2>5. f[i] = (is(i) /\ ~f[i - 1])
    BY <2>3, <2>4
  <2> QED BY <2>5
<1>6. f = [i \in 0..N |-> i > 0 /\ is(i) /\ ~f[i - 1]]
  <2> DEFINE g == [i \in 0..N |-> i > 0 /\ is(i) /\ ~f[i - 1]]
  <2>1. \A i \in 0..N : g[i] = f[i]
    <3> SUFFICES ASSUME NEW i \in 0..N PROVE f[i] = (i > 0 /\ is(i) /\ ~f[i - 1])
      OBVIOUS
    <3>1. CASE i = 0
      BY <1>4, <3>1
    <3>2. CASE i \in 1..N
      <4>1. f[i] <=> is(i) /\ ~f[i - 1]
        BY <1>5, <3>2
      <4>2. f[i] \in BOOLEAN /\ i > 0
        BY <1>1, <1>4, <3>2
      <4> HIDE DEF is, G
      <4> QED BY <4>1, <4>2
    <3> QED BY <1>1, <3>1, <3>2
  <2> QED BY <1>4, <2>1
<1> DEFINE h == Heads(s, name)
<1>7. h = [i \in 0..N |-> i > 0 /\ is(i) /\ ~h[i - 1]]
  <2>1. h = CHOOSE g : g = [i \in 0..N |-> i > 0 /\ is(i) /\ ~g[i - 1]]
    BY DEF Heads, N
  <2> HIDE DEF h, is, G
  <2> QED BY <1>6, <2>1
<1> HIDE DEF h
<1>8. ASSUME NEW i \in 0..N PROVE h[i] \in BOOLEAN
  <2> DEFINE P == i > 0 /\ is(i) /\ ~h[i - 1]
  <2>1. h[i] = P
    BY <1>7
  <2>2. P \in BOOLEAN
    OBVIOUS
  <2> HIDE DEF P
  <2> QED BY <2>1, <2>2
<1>9. ~h[0]
  <2> DEFINE P == 0 > 0 /\ is(0) /\ ~h[0 - 1]
  <2>1. h[0] = P
    BY <1>1, <1>7
  <2>2. ~P
    OBVIOUS
  <2> HIDE DEF P
  <2> QED BY <2>1, <2>2
<1>10. \A i \in 1..N : h[i] <=> is(i) /\ ~h[i - 1]
  <2> SUFFICES ASSUME NEW i \in 1..N PROVE h[i] <=> is(i) /\ ~h[i - 1]
    OBVIOUS
  <2>1. i > 0 /\ i \in 0..N
    BY <1>1
  <2> DEFINE P == i > 0 /\ is(i) /\ ~h[i - 1]
  <2> HIDE DEF is
  <2>2. h[i] = P
    BY <1>7, <2>1
  <2>3. h[i] <=> P
    <3> HIDE DEF P
    <3> QED BY <2>2
  <2> QED BY <2>1, <2>3
<1>11. h \in [0..N -> BOOLEAN]
  BY <1>7, <1>8
<1> QED BY <1>9, <1>10, <1>11 DEF h, N

\* Dropping some of the lines.
LEMMA Dropping ==
  ASSUME NEW s, IsList(s), NEW p, p = [i \in DOMAIN s |-> p[i]], \A i \in DOMAIN s : p[i] \in {<<>>, <<s[i]>>}
  PROVE  /\ FlattenSeq(p) \in Seq(Elems(s))
         /\ \A e \in Elems(FlattenSeq(p)) : \E i \in DOMAIN s : e = s[i] /\ p[i] # <<>>
<1> DEFINE S == Elems(s)
<1>1. \A i \in DOMAIN s : s[i] \in S
  BY DEF Elems
<1> HIDE DEF S
<1>2. \A i \in DOMAIN s : p[i] \in Seq(S)
  <2> SUFFICES ASSUME NEW i \in DOMAIN s PROVE p[i] \in Seq(S)
    OBVIOUS
  <2>1. <<>> \in Seq(S) /\ <<s[i]>> \in Seq(S)
    BY <1>1
  <2> QED BY <2>1
<1>3. FlattenSeq(p) \in Seq(S) /\ Gathers(FlattenSeq(p), p)
  BY <1>2, Pieces
<1>4. ASSUME NEW e \in Elems(FlattenSeq(p)) PROVE \E i \in DOMAIN s : e = s[i] /\ p[i] # <<>>
  <2>1. PICK i \in DOMAIN p : e \in Elems(p[i])
    BY <1>3 DEF Gathers
  <2>2. i \in DOMAIN s /\ p[i] \in {<<>>, <<s[i]>>}
    BY <2>1
  <2>3. Elems(<<>>) = {} /\ Elems(<<s[i]>>) = {s[i]}
    BY ElemsShort
  <2> QED BY <2>1, <2>2, <2>3
<1> QED BY <1>3, <1>4 DEF S

IsEntry(e) == e = [kind |-> e.kind, text |-> e.text, off |-> e.off] /\ e.kind \in {"comment", "job"}
EntryList(s) == IsList(s) /\ \A i \in DOMAIN s : IsEntry(s[i])

LEMMA EntryLists ==
  ASSUME NEW S, \A e \in S : IsEntry(e), NEW s \in Seq(S)
  PROVE  EntryList(s)
<1>1. IsList(s) /\ Elems(s) \subseteq S
  BY ListIs
<1> QED BY <1>1 DEF EntryList, Elems

LEMMA EntryWords == ASSUME NEW name, NEW text, NEW off
                    PROVE  IsEntry(Comment(name)) /\ IsEntry(Job(text, off))
BY DEF IsEntry, Comment, Job

\* What cron asks of the table.
JobAt(t, s, i) == s[i] = Job(t.job, t.disabled) /\ (t.name # <<>> => i > 1 /\ s[i - 1] = Comment(t.name))
GoneLine(t, e) == IF t.name # <<>> THEN e # Comment(t.name) ELSE e.kind = "job" /\ t.job # <<>> => e.text # t.job
CronAsked(t, s) == IF t.state = "present" THEN \E i \in DOMAIN s : JobAt(t, s, i) ELSE \A i \in DOMAIN s : GoneLine(t, s[i])

LEMMA PrefixOfItself ==
  ASSUME NEW s, IsList(s)
  PROVE  IsPrefix(s, s)
<1>1. s \in Seq(Elems(s)) /\ Len(s) \in Nat /\ DOMAIN s = 1..Len(s)
  BY ListSeq
<1>2. SubSeq(s, 1, Len(s)) = s
  BY <1>1
<1> QED BY <1>1, <1>2 DEF IsPrefix

LEMMA WithoutRight ==
  ASSUME NEW s, EntryList(s), NEW t, IsList(t.job), t.state = "absent"
  PROVE  EntryList(CronWithout(s, t)) /\ CronAsked(t, CronWithout(s, t))
<1> DEFINE heads == Heads(s, t.name)
           goes(i) == IF t.name # <<>> THEN heads[i] \/ heads[i - 1]
                      ELSE t.job # <<>> /\ IsPrefix(t.job, s[i].text)
           p == [i \in DOMAIN s |-> IF goes(i) THEN <<>> ELSE <<s[i]>>]
           r == CronWithout(s, t)
<1>1. r = FlattenSeq(p)
  BY DEF CronWithout, Rewritten
<1>2. IsList(s) /\ DOMAIN s = 1..Len(s) /\ \A i \in DOMAIN s : IsEntry(s[i])
  BY ListSeq DEF EntryList
<1>3. \A i \in 1..Len(s) : heads[i] <=> s[i] = Comment(t.name) /\ ~heads[i - 1]
  BY <1>2, HeadsAre
<1>4. \A i \in DOMAIN s : p[i] \in {<<>>, <<s[i]>>} /\ (p[i] # <<>> => ~goes(i))
  <2> HIDE DEF goes
  <2> QED OBVIOUS
<1>5. p = [i \in DOMAIN s |-> p[i]]
  OBVIOUS
<1>6. \A i \in DOMAIN s : ~goes(i) => GoneLine(t, s[i])
  <2> SUFFICES ASSUME NEW i \in DOMAIN s, ~goes(i) PROVE GoneLine(t, s[i])
    OBVIOUS
  <2>1. CASE t.name # <<>>
    <3>1. ~heads[i] /\ ~heads[i - 1]
      BY <2>1
    <3>2. heads[i] <=> s[i] = Comment(t.name) /\ ~heads[i - 1]
      BY <1>2, <1>3
    <3> HIDE DEF heads
    <3>3. s[i] # Comment(t.name)
      BY <3>1, <3>2
    <3> QED BY <2>1, <3>3 DEF GoneLine
  <2>2. CASE t.name = <<>>
    <3>1. ~(t.job # <<>> /\ IsPrefix(t.job, s[i].text))
      BY <2>2
    <3>2. IsPrefix(t.job, t.job)
      BY PrefixOfItself
    <3> QED BY <2>2, <3>1, <3>2 DEF GoneLine
  <2> QED BY <2>1, <2>2
<1> HIDE DEF p, goes, heads, r
<1>7. r \in Seq(Elems(s)) /\ \A e \in Elems(r) : \E i \in DOMAIN s : e = s[i] /\ p[i] # <<>>
  BY <1>1, <1>2, <1>4, <1>5, Dropping
<1>8. EntryList(r)
  <2>1. \A e \in Elems(s) : IsEntry(e)
    BY <1>2 DEF Elems
  <2> QED BY <1>7, <2>1, EntryLists
<1>9. \A e \in Elems(r) : GoneLine(t, e)
  BY <1>4, <1>6, <1>7
<1>10. CronAsked(t, r)
  BY <1>9 DEF CronAsked, Elems
<1> QED BY <1>8, <1>10 DEF r

LEMMA NamedRight ==
  ASSUME NEW s, EntryList(s), NEW t, t.name # <<>>, t.state = "present"
  PROVE  EntryList(CronNamed(s, t)) /\ CronAsked(t, CronNamed(s, t))
<1> DEFINE N == Len(s)
           heads == Heads(s, t.name)
           c == Comment(t.name)
           job == Job(t.job, t.disabled)
           none == ~\E i \in DOMAIN s : heads[i]
           body == [i \in DOMAIN s |-> IF heads[i - 1] THEN job ELSE s[i]]
           tail == CASE none -> <<c, job>> [] ~none /\ heads[N] -> <<job>> [] OTHER -> <<>>
           S == Elems(s) \cup {c, job}
           r == CronNamed(s, t)
<1>1. IsList(s) /\ DOMAIN s = 1..N /\ N \in Nat /\ s \in Seq(S) /\ \A i \in DOMAIN s : IsEntry(s[i]) /\ s[i] \in S
  <2>1. IsList(s) /\ s \in Seq(Elems(s)) /\ DOMAIN s = 1..N /\ N \in Nat /\ \A i \in DOMAIN s : IsEntry(s[i])
    BY ListSeq DEF EntryList
  <2>2. Elems(s) \subseteq S /\ \A i \in DOMAIN s : s[i] \in S
    BY DEF Elems
  <2> HIDE DEF S, N
  <2> QED BY <2>1, <2>2
<1>2. /\ ~heads[0]
      /\ \A i \in 1..N : heads[i] <=> s[i] = c /\ ~heads[i - 1]
  BY <1>1, HeadsAre
<1>3. r = body \o tail
  BY DEF CronNamed
<1>4. c \in S /\ job \in S
  OBVIOUS
<1>5. \A e \in S : IsEntry(e)
  BY <1>1, EntryWords DEF Elems
<1>6. \A i \in 1..N : body[i] = (IF heads[i - 1] THEN job ELSE s[i])
  BY <1>1
<1>7. DOMAIN body = 1..N
  BY <1>1
<1>8. /\ none => tail = <<c, job>>
      /\ ~none /\ heads[N] => tail = <<job>>
      /\ ~none /\ ~heads[N] => tail = <<>>
  <2> HIDE DEF heads, c, job, none
  <2> QED OBVIOUS
<1>9. body \in Seq(S) /\ Len(body) = N
  <2>1. \A i \in 1..N : body[i] \in S
    <3> HIDE DEF body, S, heads
    <3> QED BY <1>1, <1>4, <1>6
  <2>2. body = [i \in 1..N |-> body[i]]
    BY <1>1
  <2> HIDE DEF body, S, N
  <2> QED BY <1>1, <2>1, <2>2
<1>10. none <=> \A i \in 1..N : ~heads[i]
  BY <1>1
<1> HIDE DEF heads, c, job, none, body, tail, S, r, N
<1>11. tail \in Seq(S)
  <2>1. <<c, job>> \in Seq(S) /\ <<job>> \in Seq(S) /\ <<>> \in Seq(S)
    BY <1>4
  <2>2. tail \in {<<c, job>>, <<job>>, <<>>}
    BY <1>8
  <2> QED BY <2>1, <2>2
<1>12. r \in Seq(S) /\ Len(r) = N + Len(tail)
  BY <1>3, <1>9, <1>11, JoinList
<1>13. EntryList(r)
  BY <1>5, <1>12, EntryLists
<1>14. \A i \in 1..N : r[i] = body[i]
  BY <1>3, <1>9, <1>11, JoinFront
<1>15. \A i \in 1..Len(tail) : r[N + i] = tail[i]
  BY <1>3, <1>9, <1>11, JoinBack
<1>16. \E i \in 2..Len(r) : r[i] = job /\ r[i - 1] = c
  <2>1. CASE none
    <3>1. Len(tail) = 2 /\ tail[1] = c /\ tail[2] = job
      BY <1>8, <2>1
    <3>2. r[N + 1] = c /\ r[N + 2] = job
      BY <1>15, <3>1
    <3>3. N + 2 \in 2..Len(r) /\ (N + 2) - 1 = N + 1
      BY <1>1, <1>12, <3>1
    <3> QED BY <3>2, <3>3
  <2>2. CASE ~none /\ heads[N]
    <3>1. Len(tail) = 1 /\ tail[1] = job
      BY <1>8, <2>2
    <3>2. r[N + 1] = job
      BY <1>15, <3>1
    <3>3. N # 0
      BY <1>2, <2>2
    <3>4. N \in 1..N
      BY <1>1, <3>3
    <3>5. s[N] = c /\ ~heads[N - 1]
      BY <1>2, <2>2, <3>4
    <3>6. body[N] = c
      BY <1>6, <3>4, <3>5
    <3>7. r[N] = c
      BY <1>14, <3>4, <3>6
    <3>8. N + 1 \in 2..Len(r) /\ (N + 1) - 1 = N
      BY <1>1, <1>12, <3>1, <3>3
    <3> QED BY <3>2, <3>7, <3>8
  <2>3. CASE ~none /\ ~heads[N]
    <3>1. PICK i \in 1..N : heads[i]
      BY <1>10, <2>3
    <3>2. i # N
      BY <2>3, <3>1
    <3>3. i + 1 \in 1..N /\ (i + 1) - 1 = i /\ i \in 1..N
      BY <1>1, <3>2
    <3>4. s[i] = c /\ ~heads[i - 1]
      BY <1>2, <3>1
    <3>5. body[i] = c
      BY <1>6, <3>4
    <3>6. body[i + 1] = job
      <4>1. heads[(i + 1) - 1]
        BY <3>1, <3>3
      <4> QED BY <1>6, <3>3, <4>1
    <3>7. r[i] = c /\ r[i + 1] = job
      BY <1>14, <3>3, <3>5, <3>6
    <3>8. Len(tail) \in Nat
      BY <1>11
    <3>9. i + 1 \in 2..Len(r)
      BY <1>1, <1>12, <3>3, <3>8
    <3> QED BY <3>3, <3>7, <3>9
  <2> QED BY <2>1, <2>2, <2>3
<1>17. CronAsked(t, r)
  <2>1. PICK i \in 2..Len(r) : r[i] = job /\ r[i - 1] = c
    BY <1>16
  <2>2. i \in DOMAIN r /\ i > 1
    BY <1>12
  <2>3. JobAt(t, r, i)
    BY <2>1, <2>2 DEF JobAt, c, job
  <2> QED BY <2>2, <2>3 DEF CronAsked
<1> QED BY <1>13, <1>17 DEF r

LEMMA UnnamedRight ==
  ASSUME NEW s, EntryList(s), NEW t, t.name = <<>>, t.state = "present"
  PROVE  EntryList(CronUnnamed(s, t)) /\ CronAsked(t, CronUnnamed(s, t))
<1> DEFINE job == Job(t.job, t.disabled)
           hits == {i \in DOMAIN s : s[i].kind = "job" /\ s[i].text = t.job}
           S == Elems(s) \cup {job}
           r == CronUnnamed(s, t)
           body == [i \in DOMAIN s |-> IF i = First(hits) THEN job ELSE s[i]]
<1>1. IsList(s) /\ DOMAIN s = 1..Len(s) /\ Len(s) \in Nat /\ s \in Seq(S) /\ \A i \in DOMAIN s : IsEntry(s[i]) /\ s[i] \in S
  <2>1. IsList(s) /\ s \in Seq(Elems(s)) /\ DOMAIN s = 1..Len(s) /\ Len(s) \in Nat /\ \A i \in DOMAIN s : IsEntry(s[i])
    BY ListSeq DEF EntryList
  <2>2. Elems(s) \subseteq S /\ \A i \in DOMAIN s : s[i] \in S
    BY DEF Elems
  <2> HIDE DEF S
  <2> QED BY <2>1, <2>2
<1>2. job \in S /\ \A e \in S : IsEntry(e)
  BY <1>1, EntryWords DEF Elems
<1>3. r = IF hits = {} THEN Append(s, job) ELSE body
  BY DEF CronUnnamed
<1>4. hits # {} => First(hits) \in DOMAIN s
  <2>1. hits \subseteq Nat /\ hits \subseteq DOMAIN s
    BY <1>1
  <2> HIDE DEF hits
  <2> QED BY <2>1, LeastIs
<1>5. \A i \in DOMAIN s : body[i] \in S
  BY <1>1, <1>2
<1>6. body \in [1..Len(s) -> S]
  BY <1>1, <1>5
<1>7. First(hits) \in DOMAIN s => body[First(hits)] = job
  OBVIOUS
<1> HIDE DEF job, hits, S, r, body
<1>8. r \in Seq(S) /\ \E i \in DOMAIN r : r[i] = job
  <2>1. CASE hits = {}
    <3>1. r = Append(s, job)
      BY <1>3, <2>1
    <3>2. r \in Seq(S) /\ r[Len(s) + 1] = job /\ Len(r) = Len(s) + 1
      BY <1>1, <1>2, <3>1
    <3> QED BY <1>1, <3>2
  <2>2. CASE hits # {}
    <3>1. r = body
      BY <1>3, <2>2
    <3>2. r \in Seq(S)
      BY <1>1, <1>6, <3>1
    <3> QED BY <1>1, <1>4, <1>6, <1>7, <2>2, <3>1, <3>2
  <2> QED BY <2>1, <2>2
<1>9. EntryList(r)
  BY <1>2, <1>8, EntryLists
<1>10. CronAsked(t, r)
  BY <1>8 DEF CronAsked, JobAt, job
<1> QED BY <1>9, <1>10 DEF r

LEMMA CronPromised ==
  ASSUME NEW t, NEW g, t.module = "cron", t.state \in {"present", "absent"}
  PROVE  CronAsked(t, g.lines) => Promised(t, g)
<1> DEFINE jobs == {i \in DOMAIN g.lines : g.lines[i] = Job(t.job, t.disabled) /\
                                          (t.name # <<>> => i > 1 /\ g.lines[i - 1] = Comment(t.name))}
<1>1. Promised(t, g) <=> EntriesPromised(t, g)
  BY DEF Promised, ReadsBeforeItWrites
<1>2. EntriesPromised(t, g) <=> IF t.state = "present" THEN jobs # {}
                                ELSE \A i \in DOMAIN g.lines : IF t.name # <<>> THEN g.lines[i] # Comment(t.name)
                                       ELSE g.lines[i].kind = "job" /\ t.job # <<>> => g.lines[i].text # t.job
  <2>1. t.module # "authorized_key" /\ t.module # "known_hosts"
    OBVIOUS
  <2> QED BY <2>1 DEF EntriesPromised
<1>3. CASE t.state = "present"
  BY <1>1, <1>2, <1>3 DEF CronAsked, JobAt
<1>4. CASE t.state = "absent"
  BY <1>1, <1>2, <1>4 DEF CronAsked, GoneLine
<1> QED BY <1>3, <1>4

LEMMA CrontabRight ==
  ASSUME NEW s, EntryList(s), NEW t, IsList(t.job), t.state \in {"present", "absent"}
  PROVE  EntryList(Crontab(s, t)) /\ CronAsked(t, Crontab(s, t))
<1>1. CASE t.state = "absent"
  BY <1>1, WithoutRight DEF Crontab
<1>2. CASE t.state = "present" /\ t.name # <<>>
  BY <1>2, NamedRight DEF Crontab
<1>3. CASE t.state = "present" /\ t.name = <<>>
  BY <1>3, UnnamedRight DEF Crontab
<1> QED BY <1>1, <1>2, <1>3

LEMMA CronGood ==
  ASSUME NEW t, NEW h, NEW seen, NEW check, Fits(t, h), t.module = "cron", seen \in {h.lines, <<>>}
  PROVE  Good(t, h, CronRun(h, seen, t, check), check \/ seen # h.lines)
<1> DEFINE new == Crontab(seen, t)
           saved == IF t.backup /\ seen # <<>> THEN [h EXCEPT !.bak = h.lines] ELSE h
           g == WithLines(saved, new)
           run == CronRun(h, seen, t, check)
<1>1. /\ {"lines", "live", "bak"} \subseteq DOMAIN h /\ IsList(h.lines) /\ IsList(t.job)
      /\ t.state \in {"present", "absent"} /\ \A i \in DOMAIN h.lines : IsEntry(h.lines[i])
  BY DEF Fits, FitsEntries, ReadsBeforeItWrites, IsEntry
<1>2. EntryList(seen)
  <2>1. EntryList(h.lines)
    BY <1>1 DEF EntryList
  <2>2. EntryList(<<>>)
    <3>1. <<>> \in Seq({}) /\ DOMAIN <<>> = {}
      OBVIOUS
    <3> QED BY <3>1, ListIs DEF EntryList
  <2> QED BY <2>1, <2>2
<1>3. EntryList(new) /\ CronAsked(t, new)
  BY <1>1, <1>2, CrontabRight
<1>4. DOMAIN saved = DOMAIN h /\ saved.lines = h.lines
  OBVIOUS
<1> HIDE DEF new, saved
<1>5. g.lines = new /\ DOMAIN g = DOMAIN h
  BY <1>1, <1>4, WithLinesIs
<1> HIDE DEF g
<1>6. \A f : DOMAIN f = DOMAIN h /\ EntryList(f.lines) => Fits(t, f)
  <2> SUFFICES ASSUME NEW f, DOMAIN f = DOMAIN h, EntryList(f.lines) PROVE Fits(t, f)
    OBVIOUS
  <2>1. FitsEntries(t, f)
    BY <1>1 DEF FitsEntries, ReadsBeforeItWrites, EntryList, IsEntry
  <2> QED BY <2>1, EntryFits DEF ReadsBeforeItWrites
<1>7. Fits(t, g) /\ Fits(t, saved)
  BY <1>1, <1>3, <1>4, <1>5, <1>6 DEF EntryList
<1>8. CASE new = seen
  <2>1. run = Unchanged
    BY <1>8 DEF CronRun, new
  <2>2. seen = h.lines => Promised(t, h)
    BY <1>1, <1>3, <1>8, CronPromised
  <2> QED BY <2>1, <2>2, RunParts, GoodIdle
<1>9. CASE new # seen /\ check
  <2>1. run = Reports(TRUE)
    BY <1>9 DEF CronRun, new
  <2> QED BY <1>9, <2>1, RunParts, GoodIdle
<1>10. CASE new # seen /\ ~check
  <2>1. run = Changes(<<Quiet(saved), Loud(g)>>)
    BY <1>10 DEF CronRun, new, g, saved
  <2>2. run.trail = <<Quiet(saved), Loud(g)>>
    BY <2>1, RunParts
  <2>3. Promised(t, g)
    BY <1>1, <1>3, <1>5, CronPromised
  <2>4. Quiet(saved).host = saved
    BY LoudQuiet
  <2> HIDE DEF run
  <2> QED BY <1>7, <2>2, <2>3, <2>4, GoodTwo DEF run
<1> QED BY <1>8, <1>9, <1>10

-----------------------------------------------------------------------------
(* sysctl and mount                                                        *)

\* A command that is run only when there is reason to.
Opt(b, x) == IF b THEN <<x>> ELSE <<>>
LastOf(s, h) == IF s = <<>> THEN h ELSE s[Len(s)]

LEMMA OptIs ==
  ASSUME NEW b, NEW x, NEW h
  PROVE  IsTrail(Opt(b, x)) /\ LastOf(Opt(b, x), h) = (IF b THEN x ELSE h) /\ Elems(Opt(b, x)) \subseteq {x}
<1>1. CASE b
  <2>1. Opt(b, x) = <<x>> /\ <<x>>[1] = x
    BY <1>1 DEF Opt
  <2> QED BY <1>1, <2>1, ElemsShort, ShortTrails DEF LastOf
<1>2. CASE ~b
  <2>1. Opt(b, x) = <<>>
    BY <1>2 DEF Opt
  <2> QED BY <1>2, <2>1, ElemsShort, ShortTrails DEF LastOf
<1> QED BY <1>1, <1>2

LEMMA LastJoin ==
  ASSUME NEW a, NEW b, NEW h, IsTrail(a), IsTrail(b)
  PROVE  IsTrail(a \o b) /\ LastOf(a \o b, h) = LastOf(b, LastOf(a, h)) /\ Elems(a \o b) = Elems(a) \cup Elems(b)
<1>1. IsTrail(a \o b) /\ Elems(a \o b) = Elems(a) \cup Elems(b)
  BY TrailsJoin, ElemsJoin
<1>2. IF b = <<>> THEN a \o b = a ELSE a \o b # <<>> /\ (a \o b)[Len(a \o b)] = b[Len(b)]
  BY TrailLast
<1> QED BY <1>1, <1>2 DEF LastOf

\* One more such command behind others.
LEMMA OptFirst ==
  ASSUME NEW b, NEW x
  PROVE  IsTrail(Opt(b, x)) /\ Elems(Opt(b, x)) \subseteq {x}
BY OptIs

LEMMA OptBehind ==
  ASSUME NEW a, IsTrail(a), NEW b, NEW x
  PROVE  IsTrail(a \o Opt(b, x)) /\ Elems(a \o Opt(b, x)) \subseteq Elems(a) \cup {x}
<1>1. IsTrail(Opt(b, x)) /\ Elems(Opt(b, x)) \subseteq {x}
  BY OptFirst
<1> QED BY <1>1, LastJoin

LEMMA OptLast ==
  ASSUME NEW a, IsTrail(a), NEW b, NEW x, NEW h
  PROVE  LastOf(a \o Opt(b, x), h) = IF b THEN x ELSE LastOf(a, h)
<1> DEFINE s == Opt(b, x)
           g == LastOf(a, h)
<1>1. IsTrail(s) /\ LastOf(s, g) = IF b THEN x ELSE g
  BY OptIs
<1> HIDE DEF s, g
<1>2. LastOf(a \o s, h) = LastOf(s, g)
  BY <1>1, LastJoin DEF g
<1> QED BY <1>1, <1>2 DEF s, g

LEMMA OptOnly ==
  ASSUME NEW b, NEW x, NEW h
  PROVE  LastOf(Opt(b, x), h) = IF b THEN x ELSE h
BY OptIs

\* A run of commands whose errors are all returned.
LEMMA GoodSaid ==
  ASSUME NEW t, NEW h, NEW run, NEW loose, NEW s, IsTrail(s), run.trail = Said(s), \A x \in Elems(s) : Fits(t, x),
         ~loose /\ ~NotAsAsked(t, h) /\ ~run.failed => Promised(t, LastOf(s, h))
  PROVE  Good(t, h, run, loose)
<1>1. \A x \in Elems(Said(s)) : Fits(t, x.host)
  <2>1. \A x \in Elems(Said(s)) : \E y \in Elems(s) : x = Loud(y)
    BY ElemsSaid
  <2> QED BY <2>1, LoudQuiet
<1>2. IsTrail(Said(s)) /\ End(Said(s), h) = LastOf(s, h) /\ LoudEnd(Said(s))
  <2>1. Said(s) = [i \in DOMAIN s |-> Loud(s[i])]
    BY DEF Said
  <2>2. DOMAIN s = 1..Len(s) /\ Len(s) \in Nat
    BY TrailLength
  <2> DEFINE S == {Loud(x) : x \in Elems(s)}
  <2>3. Said(s) \in Seq(S)
    <3>1. \A i \in 1..Len(s) : Loud(s[i]) \in S
      BY <2>2 DEF Elems
    <3> HIDE DEF S
    <3> QED BY <2>1, <2>2, <3>1
  <2> HIDE DEF S
  <2> QED BY <2>3, ElemsSaid DEF IsTrail, LastOf
<1> QED BY <1>1, <1>2, GoodRun DEF Fitting

\* What sysctl asks of the file.
IsSetting(e) == e = [name |-> e.name, value |-> e.value]
SettingList(s) == IsList(s) /\ \A i \in DOMAIN s : IsSetting(s[i])
Single(s, t) == \E i \in DOMAIN s : Named(s, t.name) = {i} /\ s[i].value = t.value
FileAsked(t, s) == IF t.state = "absent" THEN Named(s, t.name) = {} ELSE Single(s, t)

LEMMA SettingLists ==
  ASSUME NEW S, \A e \in S : IsSetting(e), NEW s \in Seq(S)
  PROVE  SettingList(s)
<1>1. IsList(s) /\ Elems(s) \subseteq S
  BY ListIs
<1> QED BY <1>1 DEF SettingList, Elems

LEMMA OneOf ==
  ASSUME NEW S, S # {}, ~Doubled(S), NEW x \in S
  PROVE  S = {x}
BY DEF Doubled

LEMMA SettingAppended ==
  ASSUME NEW s, SettingList(s), NEW t, Named(s, t.name) = {}, NEW e, e.name = t.name, e.value = t.value
  PROVE  Single(Append(s, e), t)
<1> DEFINE r == Append(s, e)
           N == Len(s)
<1>1. s \in Seq(Elems(s) \cup {e}) /\ N \in Nat /\ DOMAIN s = 1..N
  <2>1. s \in Seq(Elems(s)) /\ N \in Nat /\ DOMAIN s = 1..N
    BY ListSeq DEF SettingList
  <2> QED BY <2>1
<1>2. DOMAIN r = 1..(N + 1) /\ r[N + 1] = e /\ \A i \in 1..N : r[i] = s[i]
  BY <1>1
<1>3. \A i \in 1..N : s[i].name # t.name
  BY <1>1 DEF Named
<1> HIDE DEF r, N
<1>4. Named(r, t.name) = {N + 1}
  BY <1>1, <1>2, <1>3 DEF Named
<1> QED BY <1>1, <1>2, <1>4 DEF r, Single

LEMMA SettingReplaced ==
  ASSUME NEW s, SettingList(s), NEW t, NEW i \in DOMAIN s, Named(s, t.name) = {i}, NEW e, e.name = t.name, e.value = t.value
  PROVE  Single(ReplaceAt(s, i, e), t)
<1> DEFINE r == ReplaceAt(s, i, e)
<1>2. DOMAIN r = DOMAIN s /\ r[i] = e /\ \A j \in DOMAIN s \ {i} : r[j] = s[j]
  BY DEF ReplaceAt
<1>3. \A j \in DOMAIN s : s[j].name = t.name <=> j = i
  BY DEF Named
<1> HIDE DEF r
<1>4. Named(r, t.name) = {i}
  BY <1>2, <1>3 DEF Named
<1> QED BY <1>2, <1>4 DEF r, Single

Unnamed(s, name) == FlattenSeq([i \in DOMAIN s |-> IF s[i].name # name THEN <<s[i]>> ELSE <<>>])

LEMMA SettingsDropped ==
  ASSUME NEW s, SettingList(s), NEW name
  PROVE  Unnamed(s, name) \in Seq(Elems(s)) /\ Named(Unnamed(s, name), name) = {}
<1> DEFINE p == [i \in DOMAIN s |-> IF s[i].name # name THEN <<s[i]>> ELSE <<>>]
           r == Unnamed(s, name)
<1>1. r = FlattenSeq(p)
  BY DEF Unnamed
<1>2. p = [i \in DOMAIN s |-> p[i]] /\ \A i \in DOMAIN s : p[i] \in {<<>>, <<s[i]>>} /\ (p[i] # <<>> => s[i].name # name)
  OBVIOUS
<1> HIDE DEF p, r
<1>3. r \in Seq(Elems(s)) /\ \A e \in Elems(r) : \E i \in DOMAIN s : e = s[i] /\ p[i] # <<>>
  BY <1>1, <1>2, Dropping DEF SettingList
<1>4. \A e \in Elems(r) : e.name # name
  BY <1>2, <1>3
<1>5. Named(r, name) = {}
  BY <1>4 DEF Named, Elems
<1> QED BY <1>3, <1>5 DEF r

LEMMA SettingsRight ==
  ASSUME NEW s, SettingList(s), NEW t, t.state \in {"present", "absent"}
  PROVE  SettingList(SysctlFile(s, t)) /\ (~Doubled(Named(s, t.name)) => FileAsked(t, SysctlFile(s, t)))
<1> DEFINE e == [name |-> t.name, value |-> t.value]
           found == Named(s, t.name)
           S == Elems(s) \cup {e}
           r == SysctlFile(s, t)
<1>1. s \in Seq(Elems(s)) /\ s \in Seq(S) /\ DOMAIN s = 1..Len(s) /\ Len(s) \in Nat
  <2>1. s \in Seq(Elems(s)) /\ DOMAIN s = 1..Len(s) /\ Len(s) \in Nat
    BY ListSeq DEF SettingList
  <2> QED BY <2>1
<1>2. \A x \in S : IsSetting(x)
  BY DEF SettingList, Elems, IsSetting
<1>3. found # {} => First(found) \in found /\ First(found) \in DOMAIN s
  <2>1. found \subseteq Nat /\ found \subseteq DOMAIN s
    BY <1>1 DEF Named
  <2> HIDE DEF found
  <2> QED BY <2>1, LeastIs
<1>4. e.name = t.name /\ e.value = t.value
  OBVIOUS
<1>5. e \in S /\ Elems(s) \subseteq S
  OBVIOUS
<1>6. CASE t.state = "absent"
  <2>1. r = Unnamed(s, t.name)
    BY <1>6 DEF SysctlFile, Filtered, Rewritten, Unnamed
  <2>2. r \in Seq(Elems(s)) /\ Named(r, t.name) = {}
    BY <2>1, SettingsDropped
  <2> HIDE DEF r, e, S
  <2>3. r \in Seq(S)
    BY <1>5, <2>2
  <2>4. SettingList(r)
    BY <1>2, <2>3, SettingLists
  <2> QED BY <1>6, <2>2, <2>4 DEF FileAsked, r
<1>7. CASE t.state = "present" /\ found = {}
  <2>1. r = Append(s, e)
    BY <1>7 DEF SysctlFile
  <2> HIDE DEF r, e, S, found
  <2>2. r \in Seq(S)
    BY <1>1, <1>5, <2>1
  <2>3. SettingList(r)
    BY <1>2, <2>2, SettingLists
  <2>4. Single(r, t)
    BY <1>4, <1>7, <2>1, SettingAppended DEF found
  <2> QED BY <1>7, <2>3, <2>4 DEF FileAsked, r
<1>8. CASE t.state = "present" /\ found # {}
  <2>1. r = ReplaceAt(s, First(found), e)
    BY <1>8 DEF SysctlFile
  <2> HIDE DEF r, e, S, found
  <2>2. First(found) \in found /\ First(found) \in DOMAIN s
    BY <1>3, <1>8
  <2>3. r \in Seq(Elems(s) \cup {e})
    BY <1>1, <2>1, <2>2, Replacing
  <2>4. SettingList(r)
    BY <1>2, <2>3, SettingLists DEF S
  <2>5. ~Doubled(found) => Single(r, t)
    <3> SUFFICES ASSUME ~Doubled(found) PROVE Single(r, t)
      OBVIOUS
    <3>1. found = {First(found)}
      BY <2>2, OneOf
    <3> QED BY <1>4, <2>1, <2>2, <3>1, SettingReplaced DEF found
  <2> QED BY <1>8, <2>4, <2>5 DEF FileAsked, r, found
<1> QED BY <1>6, <1>7, <1>8

\* What setting and reloading do to the running system.
LEMMA Setting ==
  ASSUME NEW t, NEW h, {"lines", "live", "bak"} \subseteq DOMAIN h
  PROVE  /\ DOMAIN SetLive(h, t) = DOMAIN h /\ SetLive(h, t).lines = h.lines
         /\ t.value # "bad" => SetLive(h, t).live = t.value
BY DEF SetLive

LEMMA Reloading ==
  ASSUME NEW t, NEW h, {"lines", "live", "bak"} \subseteq DOMAIN h
  PROVE  /\ DOMAIN Reload(h, t) = DOMAIN h /\ Reload(h, t).lines = h.lines
BY DEF Reload

LEMMA Reloaded ==
  ASSUME NEW t, NEW h, {"lines", "live", "bak"} \subseteq DOMAIN h, Single(h.lines, t), ~ReloadFails(h), IsList(h.lines)
  PROVE  Reload(h, t).live = t.value
<1> DEFINE set == {i \in Named(h.lines, t.name) : h.lines[i].value # "bad"}
<1>1. PICK i \in DOMAIN h.lines : Named(h.lines, t.name) = {i} /\ h.lines[i].value = t.value
  BY DEF Single
<1>2. h.lines[i].value # "bad"
  BY DEF ReloadFails
<1>3. set = {i}
  BY <1>1, <1>2
<1>4. Final(set) = i
  <2>1. i \in Nat
    BY ListSeq
  <2> QED BY <1>3, <2>1 DEF Final
<1>5. Reload(h, t) = IF set = {} THEN h ELSE [h EXCEPT !.live = h.lines[Final(set)].value]
  BY DEF Reload
<1> HIDE DEF set
<1>6. Reload(h, t) = [h EXCEPT !.live = h.lines[i].value]
  BY <1>3, <1>4, <1>5
<1> QED BY <1>1, <1>6

LEMMA SysctlPromised ==
  ASSUME NEW t, NEW g, t.module = "sysctl", t.state \in {"present", "absent"}, IsList(g.lines), FileAsked(t, g.lines),
         t.state = "present" => g.live = t.value
  PROVE  Promised(t, g)
<1> DEFINE mine == Named(g.lines, t.name)
<1>1. Promised(t, g) <=> EntriesPromised(t, g)
  BY DEF Promised, ReadsBeforeItWrites
<1>2. EntriesPromised(t, g) <=> IF t.state = "absent" THEN mine = {}
                                ELSE mine # {} /\ g.lines[First(mine)].value = t.value /\ g.live = t.value
  <2>1. t.module \notin {"authorized_key", "known_hosts", "cron"}
    OBVIOUS
  <2> QED BY <2>1 DEF EntriesPromised
<1>3. CASE t.state = "absent"
  BY <1>1, <1>2, <1>3 DEF FileAsked
<1>4. CASE t.state = "present"
  <2>1. PICK i \in DOMAIN g.lines : mine = {i} /\ g.lines[i].value = t.value
    BY <1>4 DEF FileAsked, Single
  <2>2. First(mine) = i
    <3>1. i \in Nat
      BY ListSeq
    <3> HIDE DEF mine
    <3> QED BY <2>1, <3>1 DEF First
  <2> HIDE DEF mine
  <2> QED BY <1>1, <1>2, <1>4, <2>1, <2>2
<1> QED BY <1>3, <1>4

LEMMA SysctlGood ==
  ASSUME NEW t, NEW h, NEW seen, NEW check, Fits(t, h), t.module = "sysctl", seen \in {h.lines, <<>>}
  PROVE  Good(t, h, SysctlRun(h, seen, t, check), check \/ seen # h.lines)
<1> DEFINE file == SysctlFile(seen, t)
           inFile == file # seen
           inKernel == t.state = "present" /\ h.live # t.value
           before == t.state = "present" /\ t.set
           bad == t.value = "bad" /\ ~t.ignore
           h1 == IF before THEN SetLive(h, t) ELSE h
           h2 == IF inFile THEN WithLines(h1, file) ELSE h1
           loads == (inFile \/ t.state = "present") /\ t.reload
           h3 == IF loads THEN Reload(h2, t) ELSE h2
           after == inKernel /\ ~before
           h4 == IF after THEN SetLive(h3, t) ELSE h3
           steps == Opt(before, h1) \o Opt(inFile, h2)
           run == SysctlRun(h, seen, t, check)
           loose == check \/ seen # h.lines
<1>1. /\ {"lines", "live", "bak"} \subseteq DOMAIN h /\ SettingList(h.lines) /\ IsList(h.lines)
      /\ t.state \in {"present", "absent"}
  BY DEF Fits, FitsEntries, ReadsBeforeItWrites, SettingList, IsSetting
<1>2. SettingList(seen)
  <2>1. SettingList(<<>>)
    <3>1. <<>> \in Seq({}) /\ DOMAIN <<>> = {}
      OBVIOUS
    <3> QED BY <3>1, ListIs DEF SettingList
  <2> QED BY <1>1, <2>1
<1>3. SettingList(file) /\ (~Doubled(Named(seen, t.name)) => FileAsked(t, file))
  BY <1>1, <1>2, SettingsRight
<1>4. \A f : DOMAIN f = DOMAIN h /\ SettingList(f.lines) => Fits(t, f)
  <2> SUFFICES ASSUME NEW f, DOMAIN f = DOMAIN h, SettingList(f.lines) PROVE Fits(t, f)
    OBVIOUS
  <2>1. FitsEntries(t, f)
    BY <1>1 DEF FitsEntries, ReadsBeforeItWrites, SettingList, IsSetting
  <2> QED BY <2>1, EntryFits DEF ReadsBeforeItWrites
<1>5. run = IF ~inFile /\ ~inKernel THEN Unchanged
            ELSE IF check THEN Reports(TRUE)
            ELSE IF before /\ bad THEN Refused
            ELSE IF loads /\ ReloadFails(h2) /\ ~t.ignore THEN Ran(Said(steps \o <<h3>>), FALSE, TRUE)
            ELSE Ran(Said(steps \o Opt(loads, h3) \o Opt(after, h4)), TRUE, after /\ bad)
  BY DEF SysctlRun, Opt
<1>6. seen = h.lines /\ ~NotAsAsked(t, h) => ~t.ignore /\ ~Doubled(Named(seen, t.name))
  BY DEF NotAsAsked, Repeated
<1> HIDE DEF run, file
<1>7. h1 = (IF before THEN SetLive(h, t) ELSE h) /\ DOMAIN h1 = DOMAIN h /\ h1.lines = h.lines
  <2> HIDE DEF before
  <2> QED BY <1>1, Setting
<1>8. h2 = (IF inFile THEN WithLines(h1, file) ELSE h1)
  OBVIOUS
<1> HIDE DEF h1, h2
<1>9. DOMAIN h2 = DOMAIN h /\ h2.lines = (IF inFile THEN file ELSE h.lines) /\ h2.live = h1.live
  BY <1>1, <1>7, <1>8, WithLinesIs
<1>10. DOMAIN h3 = DOMAIN h /\ h3.lines = h2.lines /\ (~loads => h3 = h2) /\ (loads => h3 = Reload(h2, t))
  <2> HIDE DEF loads
  <2> QED BY <1>1, <1>9, Reloading
<1> HIDE DEF h3
<1>11. DOMAIN h4 = DOMAIN h /\ h4.lines = h3.lines /\ (~after => h4 = h3) /\ (after => h4 = SetLive(h3, t))
  <2> HIDE DEF after
  <2> QED BY <1>1, <1>10, Setting
<1> HIDE DEF h4
<1>12. Fits(t, h1) /\ Fits(t, h2) /\ Fits(t, h3) /\ Fits(t, h4)
  BY <1>1, <1>3, <1>4, <1>7, <1>9, <1>10, <1>11
<1>13. IsTrail(steps) /\ Elems(steps) \subseteq {h1, h2}
  <2> HIDE DEF before, inFile
  <2> DEFINE a == Opt(before, h1)
  <2>1. IsTrail(a) /\ Elems(a) \subseteq {h1}
    BY OptFirst
  <2> HIDE DEF a
  <2>2. IsTrail(a \o Opt(inFile, h2)) /\ Elems(a \o Opt(inFile, h2)) \subseteq Elems(a) \cup {h2}
    BY <2>1, OptBehind
  <2> QED BY <2>1, <2>2 DEF a
<1>14. LastOf(steps, h) = h2
  <2>1. ~inFile => h2 = h1
    BY <1>8
  <2>2. ~before => h1 = h
    BY <1>7
  <2> HIDE DEF inFile, before
  <2> DEFINE a == Opt(before, h1)
  <2>3. IsTrail(a) /\ LastOf(a, h) = IF before THEN h1 ELSE h
    BY OptFirst, OptOnly
  <2> HIDE DEF a
  <2>4. LastOf(a \o Opt(inFile, h2), h) = IF inFile THEN h2 ELSE LastOf(a, h)
    BY <2>3, OptLast
  <2> QED BY <2>1, <2>2, <2>3, <2>4 DEF a
<1> HIDE DEF steps
<1>15. CASE ~inFile /\ ~inKernel
  <2>1. run = Unchanged
    BY <1>5, <1>15
  <2>2. ~loose /\ ~NotAsAsked(t, h) => Promised(t, h)
    <3> SUFFICES ASSUME ~loose, ~NotAsAsked(t, h) PROVE Promised(t, h)
      OBVIOUS
    <3>1. FileAsked(t, h.lines)
      BY <1>3, <1>6, <1>15
    <3>2. t.state = "present" => h.live = t.value
      BY <1>15
    <3> QED BY <1>1, <3>1, <3>2, SysctlPromised
  <2> HIDE DEF loose
  <2>3. Good(t, h, run, loose)
    BY <2>1, <2>2, RunParts, GoodIdle
  <2> QED BY <2>3 DEF loose, run
<1>16. CASE ~(~inFile /\ ~inKernel) /\ check
  <2>1. run = Reports(TRUE)
    BY <1>5, <1>16
  <2>2. Good(t, h, run, loose)
    <3>1. loose
      BY <1>16
    <3> HIDE DEF loose
    <3> QED BY <2>1, <3>1, RunParts, GoodIdle
  <2> QED BY <2>2 DEF run
<1> DEFINE acts == ~(~inFile /\ ~inKernel) /\ ~check
<1>17. CASE acts /\ before /\ bad
  <2>1. run = Refused
    BY <1>5, <1>17
  <2> HIDE DEF loose
  <2>2. Good(t, h, run, loose)
    BY <2>1, RunParts, GoodIdle
  <2> QED BY <2>2 DEF loose, run
<1>18. CASE acts /\ ~(before /\ bad) /\ loads /\ ReloadFails(h2) /\ ~t.ignore
  <2> DEFINE s == steps \o <<h3>>
  <2>1. run = Ran(Said(s), FALSE, TRUE)
    BY <1>5, <1>18
  <2>2. IsTrail(s) /\ Elems(s) = Elems(steps) \cup {h3}
    <3>1. IsTrail(<<h3>>) /\ Elems(<<h3>>) = {h3}
      BY ElemsShort, ShortTrails
    <3> QED BY <1>13, <3>1, LastJoin
  <2> HIDE DEF s, loose
  <2>3. run.trail = Said(s)
    BY <2>1 DEF Ran
  <2>4. run.failed
    BY <2>1, RanFails
  <2>5. \A x \in Elems(s) : Fits(t, x)
    BY <1>12, <1>13, <2>2
  <2>6. Good(t, h, run, loose)
    BY <2>2, <2>3, <2>4, <2>5, GoodSaid
  <2> QED BY <2>6 DEF loose, run
<1>19. CASE acts /\ ~(before /\ bad) /\ ~(loads /\ ReloadFails(h2) /\ ~t.ignore)
  <2> DEFINE s == steps \o Opt(loads, h3) \o Opt(after, h4)
  <2>1. run = Ran(Said(s), TRUE, after /\ bad)
    BY <1>5, <1>19
  <2>2. /\ IsTrail(s) /\ Elems(s) \subseteq Elems(steps) \cup {h3, h4}
        /\ LastOf(s, h) = (IF after THEN h4 ELSE IF loads THEN h3 ELSE h2)
    <3> HIDE DEF loads, after
    <3> DEFINE s1 == steps \o Opt(loads, h3)
    <3>1. IsTrail(s1) /\ Elems(s1) \subseteq Elems(steps) \cup {h3}
      BY <1>13, OptBehind
    <3>2. LastOf(s1, h) = IF loads THEN h3 ELSE LastOf(steps, h)
      BY <1>13, OptLast
    <3> HIDE DEF s1
    <3> DEFINE s2 == s1 \o Opt(after, h4)
    <3>3. IsTrail(s2) /\ Elems(s2) \subseteq Elems(s1) \cup {h4}
      BY <3>1, OptBehind
    <3>4. LastOf(s2, h) = IF after THEN h4 ELSE LastOf(s1, h)
      BY <3>1, OptLast
    <3>5. s2 = s
      BY DEF s1
    <3> HIDE DEF s2
    <3> QED BY <1>14, <3>1, <3>2, <3>3, <3>4, <3>5
  <2>3. LastOf(s, h) = h4
    <3> HIDE DEF after, loads, s
    <3> QED BY <1>10, <1>11, <2>2
  <2> HIDE DEF s
  <2>4. run.trail = Said(s)
    BY <2>1 DEF Ran
  <2>5. run.failed = (after /\ bad)
    BY <2>1 DEF Ran
  <2>6. \A x \in Elems(s) : Fits(t, x)
    BY <1>12, <1>13, <2>2
  <2>7. ASSUME ~loose, ~NotAsAsked(t, h), ~run.failed PROVE Promised(t, h4)
    <3>1. ~t.ignore /\ FileAsked(t, file) /\ seen = h.lines
      BY <1>3, <1>6, <2>7
    <3>2. h2.lines = file
      BY <1>9, <3>1
    <3>3. h4.lines = file /\ IsList(file)
      BY <1>3, <1>10, <1>11, <3>2 DEF SettingList
    <3>4. ~(after /\ bad) /\ (bad <=> t.value = "bad")
      BY <2>5, <2>7, <3>1
    <3>5. ASSUME t.state = "present" PROVE h4.live = t.value
      <4>1. CASE after
        <5>1. t.value # "bad"
          BY <3>4, <4>1
        <5> QED BY <1>1, <1>10, <1>11, <4>1, <5>1, Setting
      <4>2. CASE ~after /\ loads
        <5>1. ~ReloadFails(h2) /\ Single(h2.lines, t)
          BY <1>19, <3>1, <3>2, <3>5, <4>2 DEF FileAsked
        <5>2. Reload(h2, t).live = t.value
          BY <1>1, <1>9, <3>2, <3>3, <5>1, Reloaded
        <5> HIDE DEF after, loads
        <5> QED BY <1>10, <1>11, <4>2, <5>2
      <4>3. CASE ~after /\ ~loads /\ before
        <5>1. t.value # "bad"
          BY <1>19, <3>4, <4>3
        <5>2. h1.live = t.value
          BY <1>1, <1>7, <4>3, <5>1, Setting
        <5> HIDE DEF after, loads
        <5> QED BY <1>9, <1>10, <1>11, <4>3, <5>2
      <4>4. CASE ~after /\ ~loads /\ ~before
        <5>1. h.live = t.value /\ h1 = h
          BY <1>7, <3>5, <4>4
        <5> HIDE DEF after, loads
        <5> QED BY <1>9, <1>10, <1>11, <4>4, <5>1
      <4> QED BY <4>1, <4>2, <4>3, <4>4
    <3> QED BY <1>1, <3>1, <3>3, <3>5, SysctlPromised
  <2> HIDE DEF loose
  <2>8. Good(t, h, run, loose)
    BY <2>2, <2>3, <2>4, <2>6, <2>7, GoodSaid
  <2> QED BY <2>8 DEF loose, run
<1> QED BY <1>15, <1>16, <1>17, <1>18, <1>19

\* An element taken out of a list.
LEMMA Removing ==
  ASSUME NEW S, NEW s \in Seq(S), NEW i \in DOMAIN s
  PROVE  RemoveAt(s, i) \in Seq(S) /\ \A e \in Elems(RemoveAt(s, i)) : \E j \in DOMAIN s \ {i} : e = s[j]
<1> DEFINE a == SubSeq(s, 1, i - 1)
           b == SubSeq(s, i + 1, Len(s))
           N == Len(s)
<1>1. N \in Nat /\ DOMAIN s = 1..N /\ i \in 1..N
  OBVIOUS
<1>2. a \in Seq(S) /\ b \in Seq(S)
  <2>1. \A k \in 1..N : s[k] \in S
    OBVIOUS
  <2>2. a \in Seq(S)
    BY <1>1
  <2>3. b \in Seq(S)
    BY <1>1
  <2> QED BY <2>2, <2>3
<1>3. DOMAIN a = 1..(i - 1) /\ \A k \in 1..(i - 1) : a[k] = s[k]
  BY <1>1
<1>4. \A k \in DOMAIN b : k + i \in 1..N /\ b[k] = s[k + i]
  <2>1. Len(b) = N - i /\ DOMAIN b = 1..(N - i)
    BY <1>1
  <2>2. \A k \in 1..(N - i) : b[k] = s[(i + 1) + k - 1]
    BY <1>1
  <2> HIDE DEF b, N
  <2> QED BY <1>1, <2>1, <2>2
<1>5. RemoveAt(s, i) = a \o b
  BY DEF RemoveAt
<1>6. \A e \in Elems(a) : \E j \in DOMAIN s \ {i} : e = s[j]
  <2> SUFFICES ASSUME NEW k \in DOMAIN a PROVE \E j \in DOMAIN s \ {i} : a[k] = s[j]
    BY DEF Elems
  <2>1. k \in 1..N /\ k # i /\ a[k] = s[k]
    BY <1>1, <1>3
  <2> HIDE DEF a, N
  <2> QED BY <1>1, <2>1
<1>7. \A e \in Elems(b) : \E j \in DOMAIN s \ {i} : e = s[j]
  <2> SUFFICES ASSUME NEW k \in DOMAIN b PROVE \E j \in DOMAIN s \ {i} : b[k] = s[j]
    BY DEF Elems
  <2>1. k + i \in 1..N /\ b[k] = s[k + i]
    BY <1>4
  <2>2. k + i # i
    <3>1. k \in 1..Len(b)
      BY <1>2
    <3>2. Len(b) \in Nat
      BY <1>2
    <3> HIDE DEF b, N
    <3> QED BY <1>1, <3>1, <3>2
  <2> HIDE DEF b, N
  <2> QED BY <1>1, <2>1, <2>2
<1> HIDE DEF a, b, N
<1>8. a \o b \in Seq(S)
  BY <1>2, JoinList
<1>9. Elems(a \o b) = Elems(a) \cup Elems(b)
  BY <1>2, ElemsJoin DEF IsTrail
<1> QED BY <1>5, <1>6, <1>7, <1>8, <1>9

\* What mount asks of fstab.
IsLine(e) == e = [path |-> e.path, src |-> e.src, opts |-> e.opts] /\ e.src # ""
Table(s) == IsList(s) /\ \A i \in DOMAIN s : IsLine(s[i])
Entered(s, t) == \E i \in DOMAIN s : At(s, t.path) = {i} /\ s[i].opts = t.opts
AtBoot(t) == t.state = "present" \/ (t.state = "mounted" /\ t.boot)
HasSource(t) == AtBoot(t) => t.src # ""
TableAsked(t, s) == (t.state = "absent" => At(s, t.path) = {}) /\ (AtBoot(t) => Entered(s, t))

LEMMA Tables ==
  ASSUME NEW S, \A e \in S : IsLine(e), NEW s \in Seq(S)
  PROVE  Table(s)
<1>1. IsList(s) /\ Elems(s) \subseteq S
  BY ListIs
<1> QED BY <1>1 DEF Table, Elems

LEMMA LineAppended ==
  ASSUME NEW s, Table(s), NEW t, At(s, t.path) = {}, NEW e, e.path = t.path, e.opts = t.opts
  PROVE  Entered(Append(s, e), t)
<1> DEFINE r == Append(s, e)
           N == Len(s)
<1>1. s \in Seq(Elems(s) \cup {e}) /\ N \in Nat /\ DOMAIN s = 1..N
  <2>1. s \in Seq(Elems(s)) /\ N \in Nat /\ DOMAIN s = 1..N
    BY ListSeq DEF Table
  <2> QED BY <2>1
<1>2. DOMAIN r = 1..(N + 1) /\ r[N + 1] = e /\ \A i \in 1..N : r[i] = s[i]
  BY <1>1
<1>3. \A i \in 1..N : s[i].path # t.path
  BY <1>1 DEF At
<1> HIDE DEF r, N
<1>4. At(r, t.path) = {N + 1}
  BY <1>1, <1>2, <1>3 DEF At
<1> QED BY <1>1, <1>2, <1>4 DEF r, Entered

LEMMA LineReplaced ==
  ASSUME NEW s, Table(s), NEW t, NEW i \in DOMAIN s, At(s, t.path) = {i}, NEW e, e.path = t.path, e.opts = t.opts
  PROVE  Entered(ReplaceAt(s, i, e), t)
<1> DEFINE r == ReplaceAt(s, i, e)
<1>1. DOMAIN r = DOMAIN s /\ r[i] = e /\ \A j \in DOMAIN s \ {i} : r[j] = s[j]
  BY DEF ReplaceAt
<1>2. \A j \in DOMAIN s : s[j].path = t.path <=> j = i
  BY DEF At
<1> HIDE DEF r
<1>3. At(r, t.path) = {i}
  BY <1>1, <1>2 DEF At
<1> QED BY <1>1, <1>3 DEF r, Entered

LEMMA TableRight ==
  ASSUME NEW s, Table(s), NEW t, HasSource(t)
  PROVE  Table(Fstab(s, t)) /\ (~Doubled(At(s, t.path)) => TableAsked(t, Fstab(s, t)))
<1> DEFINE e == [path |-> t.path, src |-> t.src, opts |-> t.opts]
           found == At(s, t.path)
           r == Fstab(s, t)
           hit == First(found)
<1>1. s \in Seq(Elems(s)) /\ DOMAIN s = 1..Len(s) /\ Len(s) \in Nat
  BY ListSeq DEF Table
<1>2. \A x \in Elems(s) : IsLine(x)
  BY DEF Table, Elems
<1>3. AtBoot(t) => IsLine(e)
  BY DEF IsLine, HasSource
<1>4. found # {} => hit \in found /\ hit \in DOMAIN s
  <2>1. found \subseteq Nat /\ found \subseteq DOMAIN s
    BY <1>1 DEF At
  <2> HIDE DEF found
  <2> QED BY <2>1, LeastIs
<1>5. e.path = t.path /\ e.opts = t.opts
  OBVIOUS
<1>6. AtBoot(t) => t.state # "absent"
  BY DEF AtBoot
<1>7. found # {} /\ ~Doubled(found) => found = {hit}
  <2> HIDE DEF hit
  <2> QED BY <1>4, OneOf
<1>8. CASE AtBoot(t) /\ found = {}
  <2>1. r = Append(s, e)
    BY <1>8 DEF Fstab, AtBoot
  <2> DEFINE S == Elems(s) \cup {e}
  <2>2. Elems(s) \subseteq S /\ e \in S
    OBVIOUS
  <2> HIDE DEF r, e, found, S
  <2>7. s \in Seq(S)
    BY <1>1, <2>2
  <2>8. r \in Seq(S)
    BY <2>1, <2>2, <2>7
  <2>3. r \in Seq(Elems(s) \cup {e})
    BY <2>8 DEF S
  <2>4. \A x \in Elems(s) \cup {e} : IsLine(x)
    BY <1>2, <1>3, <1>8
  <2>5. Table(r)
    BY <2>3, <2>4, Tables
  <2>6. Entered(r, t)
    BY <1>5, <1>8, <2>1, LineAppended DEF found
  <2> QED BY <1>6, <1>8, <2>5, <2>6 DEF TableAsked, r
<1>9. CASE AtBoot(t) /\ found # {}
  <2>1. r = ReplaceAt(s, hit, e)
    BY <1>9 DEF Fstab, AtBoot
  <2>2. hit \in DOMAIN s
    BY <1>4, <1>9
  <2> HIDE DEF r, e, found, hit
  <2>3. r \in Seq(Elems(s) \cup {e})
    BY <1>1, <2>1, <2>2, Replacing
  <2>4. \A x \in Elems(s) \cup {e} : IsLine(x)
    BY <1>2, <1>3, <1>9
  <2>5. Table(r)
    BY <2>3, <2>4, Tables
  <2>6. ~Doubled(found) => Entered(r, t)
    <3> SUFFICES ASSUME ~Doubled(found) PROVE Entered(r, t)
      OBVIOUS
    <3>1. At(s, t.path) = {hit}
      BY <1>7, <1>9 DEF found
    <3> QED BY <1>5, <2>1, <2>2, <3>1, LineReplaced
  <2> QED BY <1>6, <1>9, <2>5, <2>6 DEF TableAsked, r, found
<1>10. CASE t.state = "absent" /\ found # {}
  <2>1. r = RemoveAt(s, hit)
    BY <1>10 DEF Fstab
  <2>2. hit \in DOMAIN s
    BY <1>4, <1>10
  <2> HIDE DEF r, found, hit
  <2>3. r \in Seq(Elems(s)) /\ \A x \in Elems(r) : \E j \in DOMAIN s \ {hit} : x = s[j]
    <3> DEFINE S == Elems(s)
    <3>1. s \in Seq(S)
      BY <1>1
    <3> HIDE DEF S
    <3>2. RemoveAt(s, hit) \in Seq(S) /\ \A x \in Elems(RemoveAt(s, hit)) : \E j \in DOMAIN s \ {hit} : x = s[j]
      BY <2>2, <3>1, Removing
    <3> QED BY <2>1, <3>2 DEF S
  <2>4. Table(r)
    BY <1>2, <2>3, Tables
  <2>5. ~Doubled(found) => At(r, t.path) = {}
    <3> SUFFICES ASSUME ~Doubled(found), NEW j \in At(r, t.path) PROVE FALSE
      OBVIOUS
    <3>1. j \in DOMAIN r /\ r[j].path = t.path
      BY DEF At
    <3>2. PICK k \in DOMAIN s \ {hit} : r[j] = s[k]
      BY <2>3, <3>1 DEF Elems
    <3>3. k \in found
      BY <3>1, <3>2 DEF found, At
    <3> QED BY <1>7, <1>10, <3>2, <3>3
  <2> QED BY <1>6, <1>10, <2>4, <2>5 DEF TableAsked, r, found
<1>11. CASE ~AtBoot(t) /\ ~(t.state = "absent" /\ found # {})
  <2>1. r = s
    BY <1>11 DEF Fstab, AtBoot
  <2> QED BY <1>11, <2>1 DEF TableAsked
<1> QED BY <1>8, <1>9, <1>10, <1>11

\* What mount asks of the running system.
MountAsked(t, m) == /\ t.state \in {"absent", "unmounted"} => m = NotMounted
                    /\ t.state = "mounted" => m # NotMounted /\ m.opts = t.opts

LEMMA MountPromised ==
  ASSUME NEW t, NEW g, t.module = "mount", IsList(g.lines), TableAsked(t, g.lines), MountAsked(t, g.live)
  PROVE  Promised(t, g)
<1> DEFINE mine == At(g.lines, t.path)
<1>1. Promised(t, g) <=> EntriesPromised(t, g)
  BY DEF Promised, ReadsBeforeItWrites
<1>2. EntriesPromised(t, g) <=>
        /\ t.state \in {"absent", "unmounted"} => g.live = NotMounted
        /\ t.state = "absent" => mine = {}
        /\ t.state = "mounted" => g.live # NotMounted /\ g.live.opts = t.opts
        /\ AtBoot(t) => mine # {} /\ g.lines[First(mine)].opts = t.opts
  <2>1. t.module \notin {"authorized_key", "known_hosts", "cron", "sysctl"}
    OBVIOUS
  <2> QED BY <2>1 DEF EntriesPromised, AtBoot
<1>3. ASSUME AtBoot(t) PROVE mine # {} /\ g.lines[First(mine)].opts = t.opts
  <2>1. PICK i \in DOMAIN g.lines : mine = {i} /\ g.lines[i].opts = t.opts
    BY <1>3 DEF TableAsked, Entered
  <2>2. First(mine) = i
    <3>1. i \in Nat
      BY ListSeq
    <3> HIDE DEF mine
    <3> QED BY <2>1, <3>1 DEF First
  <2> HIDE DEF mine
  <2> QED BY <2>1, <2>2
<1>4. t.state = "absent" => mine = {}
  BY DEF TableAsked
<1> HIDE DEF mine
<1> QED BY <1>1, <1>2, <1>3, <1>4 DEF MountAsked

LEMMA MountIs ==
  /\ IsMount(NotMounted)
  /\ \A src, opts : /\ Mounts(src, opts).src = src /\ Mounts(src, opts).opts = opts
                    /\ src # "" => IsMount(Mounts(src, opts)) /\ Mounts(src, opts) # NotMounted
BY DEF IsMount, NotMounted, Mounts

Remount(m, opts) == [m EXCEPT !.opts = opts]

LEMMA RemountIs ==
  ASSUME NEW m, IsMount(m), m # NotMounted, NEW opts
  PROVE  IsMount(Remount(m, opts)) /\ Remount(m, opts) # NotMounted /\ Remount(m, opts).opts = opts
<1> DEFINE n == Remount(m, opts)
<1>1. m = Mounts(m.src, m.opts) /\ m.src # ""
  BY DEF IsMount
<1>2. n = Mounts(m.src, opts)
  <2>1. m = [src |-> m.src, opts |-> m.opts]
    BY <1>1 DEF Mounts
  <2>2. DOMAIN m = {"src", "opts"}
    BY <2>1
  <2>3. n = [src |-> m.src, opts |-> opts]
    BY <2>2 DEF Remount
  <2> QED BY <2>3 DEF Mounts
<1> HIDE DEF n
<1>3. IsMount(n) /\ n # NotMounted /\ n.opts = opts
  BY <1>1, <1>2, MountIs
<1> QED BY <1>3 DEF n

Sourced(m) == m.src # ""

LEMMA MountedIs ==
  ASSUME NEW t, NEW h, IsMount(h.live), NEW s, Table(s), Sourced(t)
  PROVE  /\ IsMount(Mounted(h, s, t))
         /\ h.live = NotMounted /\ Mounted(h, s, t) # NotMounted /\ (Entered(s, t) \/ At(s, t.path) = {})
              => Mounted(h, s, t).opts = t.opts
<1> DEFINE found == At(s, t.path)
           entry == s[First(found)]
           m == Mounted(h, s, t)
<1>1. m = IF found # {} /\ entry.src # "bad" THEN Mounts(entry.src, entry.opts)
          ELSE IF t.src # "bad" THEN Mounts(t.src, t.opts) ELSE h.live
  BY DEF Mounted
<1>2. found # {} => First(found) \in DOMAIN s /\ entry.src # ""
  <2>1. DOMAIN s = 1..Len(s)
    BY ListSeq DEF Table
  <2>2. found \subseteq Nat /\ found \subseteq DOMAIN s
    BY <2>1 DEF At
  <2>3. found # {} => First(found) \in found
    <3> HIDE DEF found
    <3> QED BY <2>2, LeastIs
  <2>4. \A i \in DOMAIN s : s[i].src # ""
    BY DEF Table, IsLine
  <2> HIDE DEF found
  <2> QED BY <2>2, <2>3, <2>4
<1>3. Entered(s, t) => entry.opts = t.opts
  <2> SUFFICES ASSUME Entered(s, t) PROVE entry.opts = t.opts
    OBVIOUS
  <2>1. PICK i \in DOMAIN s : found = {i} /\ s[i].opts = t.opts
    BY DEF Entered
  <2>2. First(found) = i
    <3>1. i \in Nat
      BY ListSeq DEF Table
    <3> HIDE DEF found
    <3> QED BY <2>1, <3>1 DEF First
  <2> HIDE DEF found
  <2> QED BY <2>1, <2>2
<1> HIDE DEF entry, m
<1>4. CASE found # {} /\ entry.src # "bad"
  <2>1. m = Mounts(entry.src, entry.opts)
    BY <1>1, <1>4
  <2>2. IsMount(m) /\ m.opts = entry.opts
    BY <1>2, <1>4, <2>1, MountIs
  <2> QED BY <1>3, <1>4, <2>2 DEF m
<1>5. CASE ~(found # {} /\ entry.src # "bad") /\ t.src # "bad"
  <2>1. m = Mounts(t.src, t.opts)
    BY <1>1, <1>5
  <2>2. IsMount(m) /\ m.opts = t.opts
    BY <2>1, MountIs DEF Sourced
  <2> QED BY <2>2 DEF m
<1>6. CASE ~(found # {} /\ entry.src # "bad") /\ t.src = "bad"
  <2>1. m = h.live
    BY <1>1, <1>6
  <2> QED BY <2>1 DEF m
<1> QED BY <1>4, <1>5, <1>6

LEMMA CompletedIs ==
  ASSUME NEW t, NEW s
  PROVE  Completed(s, t) = Mounts(Completed(s, t).src, Completed(s, t).opts)
<1> DEFINE found == At(s, t.path)
           entry == s[First(found)]
<1>1. \E src, opts : Completed(s, t) = Mounts(src, opts)
  BY DEF Completed
<1> QED BY <1>1, MountIs

LEMMA MountGood ==
  ASSUME NEW t, NEW h, NEW seen, NEW check, Fits(t, h), t.module = "mount", seen \in {h.lines, <<>>}
  PROVE  Good(t, h, MountRun(h, seen, t, check), check \/ seen # h.lines)
<1> DEFINE file == Fstab(seen, t)
           inFile == file # seen
           up == h.live # NotMounted
           acts == CASE t.state = "mounted" -> ~up \/ inFile
                     [] t.state \in {"unmounted", "absent"} -> up
                     [] t.state = "remounted" -> TRUE
                     [] t.state = "present" -> FALSE
           h1 == IF inFile THEN WithLines(h, file) ELSE h
           asked == Completed(seen, t)
           live == CASE t.state \in {"unmounted", "absent"} -> NotMounted
                     [] t.state = "mounted" /\ ~up -> Mounted(h, h1.lines, t)
                     [] t.state = "remounted" /\ ~up -> IF asked.src \in {"", "bad"} THEN h.live ELSE asked
                     [] OTHER -> [h.live EXCEPT !.opts = t.opts]
           fails == t.state \in {"mounted", "remounted"} /\ live = NotMounted
           h2 == [h1 EXCEPT !.live = live]
           run == MountRun(h, seen, t, check)
           loose == check \/ seen # h.lines
<1>1. /\ {"lines", "live", "bak"} \subseteq DOMAIN h /\ Table(h.lines) /\ IsList(h.lines) /\ IsMount(h.live)
      /\ t.state \in {"mounted", "present", "absent", "unmounted", "remounted"}
      /\ HasSource(t) /\ (t.state = "mounted" => Sourced(t))
  <2>1. FitsEntries(t, h)
    BY DEF Fits
  <2>2. {"lines", "live", "bak"} \subseteq DOMAIN h /\ IsList(h.lines)
    BY <2>1 DEF FitsEntries, ReadsBeforeItWrites
  <2>3. /\ t.state \in {"mounted", "present", "absent", "unmounted", "remounted"} /\ IsMount(h.live)
        /\ \A i \in DOMAIN h.lines : IsLine(h.lines[i])
        /\ t.state \in {"mounted", "present"} => Sourced(t)
    BY <2>1 DEF FitsEntries, IsLine, Sourced
  <2>4. HasSource(t)
    BY <2>3 DEF HasSource, AtBoot, Sourced
  <2> QED BY <2>2, <2>3, <2>4 DEF Table
<1>2. Table(seen)
  <2>1. Table(<<>>)
    <3>1. <<>> \in Seq({}) /\ DOMAIN <<>> = {}
      OBVIOUS
    <3> QED BY <3>1, ListIs DEF Table
  <2> QED BY <1>1, <2>1
<1>3. Table(file) /\ (~Doubled(At(seen, t.path)) => TableAsked(t, file))
  BY <1>1, <1>2, TableRight
<1>4. \A f : DOMAIN f = DOMAIN h /\ Table(f.lines) /\ IsMount(f.live) => Fits(t, f)
  <2> SUFFICES ASSUME NEW f, DOMAIN f = DOMAIN h, Table(f.lines), IsMount(f.live) PROVE Fits(t, f)
    OBVIOUS
  <2>1. FitsEntries(t, f)
    BY <1>1 DEF Fits, FitsEntries, ReadsBeforeItWrites, Table, IsLine
  <2> QED BY <2>1, EntryFits DEF ReadsBeforeItWrites
<1>5. run = IF ~inFile /\ ~acts THEN Unchanged
            ELSE IF check THEN Reports(TRUE)
            ELSE Ran((IF inFile THEN <<Loud(h1)>> ELSE <<>>) \o (IF acts THEN <<Loud(h2)>> ELSE <<>>), TRUE, acts /\ fails)
  BY DEF MountRun
<1>6. seen = h.lines /\ ~NotAsAsked(t, h) =>
        /\ ~Doubled(At(seen, t.path))
        /\ t.state = "mounted" => IF up THEN h.live.opts = t.opts ELSE t.boot \/ At(seen, t.path) = {}
  BY DEF NotAsAsked, Repeated
<1>7. /\ t.state = "mounted" => (acts <=> ~up \/ inFile)
      /\ t.state \in {"unmounted", "absent"} => (acts <=> up)
      /\ t.state = "remounted" => acts
      /\ t.state = "present" => ~acts
  <2>1. CASE t.state = "mounted"
    BY <2>1
  <2>2. CASE t.state \in {"unmounted", "absent"}
    BY <2>2
  <2>3. CASE t.state = "remounted"
    BY <2>3
  <2>4. CASE t.state = "present"
    BY <2>4
  <2> QED BY <1>1, <2>1, <2>2, <2>3, <2>4
<1>8. /\ t.state \in {"unmounted", "absent"} => live = NotMounted
      /\ t.state = "mounted" /\ ~up => live = Mounted(h, h1.lines, t)
      /\ t.state = "remounted" /\ ~up => live = IF asked.src \in {"", "bad"} THEN h.live ELSE asked
      /\ t.state \in {"mounted", "remounted"} /\ up => live = Remount(h.live, t.opts)
  BY DEF Remount
<1> HIDE DEF run, file, acts, live, asked
<1>9. DOMAIN h1 = DOMAIN h /\ h1.lines = (IF inFile THEN file ELSE h.lines) /\ h1.live = h.live
  <2> HIDE DEF inFile
  <2> QED BY <1>1, WithLinesIs
<1> HIDE DEF h1
<1>10. Table(h1.lines)
  BY <1>1, <1>3, <1>9
<1>11. DOMAIN h2 = DOMAIN h /\ h2.lines = h1.lines /\ h2.live = live
  BY <1>1, <1>9
<1> HIDE DEF h2
<1>12. acts => IsMount(live)
  <2>1. CASE t.state \in {"unmounted", "absent"}
    BY <1>8, <2>1, MountIs
  <2>2. CASE t.state = "mounted" /\ ~up
    BY <1>1, <1>8, <1>10, <2>2, MountedIs
  <2>3. CASE t.state = "remounted" /\ ~up
    <3>1. asked = Mounts(asked.src, asked.opts)
      BY CompletedIs DEF asked
    <3>2. asked.src # "" => IsMount(asked)
      <4> DEFINE src == asked.src
                 opts == asked.opts
      <4> HIDE DEF src, opts
      <4>1. src # "" => IsMount(Mounts(src, opts))
        BY MountIs
      <4> QED BY <3>1, <4>1 DEF src, opts
    <3> QED BY <1>1, <1>8, <2>3, <3>2
  <2>4. CASE t.state \in {"mounted", "remounted"} /\ up
    BY <1>1, <1>8, <2>4, RemountIs
  <2>5. CASE t.state = "present"
    BY <1>7, <2>5
  <2> HIDE DEF up
  <2> QED BY <1>1, <2>1, <2>2, <2>3, <2>4, <2>5
<1>13. Fits(t, h1) /\ (acts => Fits(t, h2))
  BY <1>1, <1>4, <1>9, <1>10, <1>11, <1>12
<1>14. ASSUME ~loose, ~NotAsAsked(t, h)
       PROVE  h1.lines = file /\ IsList(file) /\ TableAsked(t, file)
  <2>1. h1.lines = file
    BY <1>9, <1>14
  <2> QED BY <1>3, <1>6, <1>14, <2>1 DEF Table
<1>15. ASSUME ~loose, ~NotAsAsked(t, h), ~acts
       PROVE  MountAsked(t, h.live)
  <2>1. t.state = "mounted" => up /\ h.live.opts = t.opts
    BY <1>6, <1>7, <1>15
  <2>2. t.state \in {"absent", "unmounted"} => ~up
    BY <1>7, <1>15
  <2> QED BY <2>1, <2>2 DEF MountAsked
<1>16. ASSUME ~loose, ~NotAsAsked(t, h), acts, ~fails
       PROVE  MountAsked(t, live)
  <2>1. CASE t.state \in {"unmounted", "absent"}
    BY <1>8, <2>1 DEF MountAsked
  <2>2. CASE t.state = "mounted" /\ ~up
    <3>1. live = Mounted(h, h1.lines, t) /\ live # NotMounted
      BY <1>8, <1>16, <2>2
    <3>2. Entered(h1.lines, t) \/ At(h1.lines, t.path) = {}
      <4>1. CASE t.boot
        BY <1>14, <1>16, <2>2, <4>1 DEF TableAsked, AtBoot
      <4>2. CASE ~t.boot
        <5>1. At(seen, t.path) = {}
          BY <1>6, <1>16, <2>2, <4>2
        <5>2. file = seen
          BY <2>2, <4>2 DEF file, Fstab
        <5> QED BY <1>14, <1>16, <5>1, <5>2
      <4> QED BY <4>1, <4>2
    <3>3. live.opts = t.opts
      <4> HIDE DEF fails, loose
      <4> QED BY <1>1, <1>10, <2>2, <3>1, <3>2, MountedIs
    <3> QED BY <2>2, <3>1, <3>3 DEF MountAsked
  <2>3. CASE t.state = "mounted" /\ up
    <3>1. live.opts = t.opts /\ live # NotMounted
      BY <1>1, <1>8, <2>3, RemountIs
    <3> QED BY <2>3, <3>1 DEF MountAsked
  <2>4. CASE t.state \in {"remounted", "present"}
    BY <2>4 DEF MountAsked
  <2> QED BY <1>1, <2>1, <2>2, <2>3, <2>4
<1> HIDE DEF loose, fails, up
<1>17. CASE ~inFile /\ ~acts
  <2>1. run = Unchanged
    BY <1>5, <1>17
  <2>2. ~loose /\ ~NotAsAsked(t, h) => Promised(t, h)
    <3> SUFFICES ASSUME ~loose, ~NotAsAsked(t, h) PROVE Promised(t, h)
      OBVIOUS
    <3>1. file = h.lines
      BY <1>17 DEF loose
    <3> QED BY <1>14, <1>15, <1>17, <3>1, MountPromised
  <2>3. Good(t, h, run, loose)
    BY <2>1, <2>2, RunParts, GoodIdle
  <2> QED BY <2>3 DEF loose, run
<1>18. CASE ~(~inFile /\ ~acts) /\ check
  <2>1. run = Reports(TRUE) /\ loose
    BY <1>5, <1>18 DEF loose
  <2>2. Good(t, h, run, loose)
    BY <2>1, RunParts, GoodIdle
  <2> QED BY <2>2 DEF loose, run
<1>19. CASE ~(~inFile /\ ~acts) /\ ~check
  <2> DEFINE a == IF inFile THEN <<Loud(h1)>> ELSE <<>>
             b == IF acts THEN <<Loud(h2)>> ELSE <<>>
  <2>1. run = Ran(a \o b, TRUE, acts /\ fails)
    BY <1>5, <1>19
  <2>2. Fitting(t, a) /\ LoudEnd(a) /\ End(a, h) = (IF inFile THEN h1 ELSE h)
    <3>1. Fitting(t, <<Loud(h1)>>) /\ Fitting(t, <<>>) /\ LoudEnd(<<Loud(h1)>>) /\ LoudEnd(<<>>)
      BY <1>13, FittingOne, EndShort, LoudQuiet
    <3>2. End(<<Loud(h1)>>, h) = h1 /\ End(<<>>, h) = h
      BY EndOne, EndShort, LoudQuiet
    <3> QED BY <3>1, <3>2
  <2>3. Fitting(t, b) /\ LoudEnd(b) /\ \A x : End(b, x) = (IF acts THEN h2 ELSE x)
    <3>1. LoudEnd(<<>>) /\ LoudEnd(<<Loud(h2)>>)
      BY EndShort, LoudQuiet
    <3>3. Fitting(t, <<>>) /\ (acts => Fitting(t, <<Loud(h2)>>))
      <4>1. Fitting(t, <<>>)
        BY <1>13, FittingOne, LoudQuiet
      <4>2. ASSUME acts PROVE Fitting(t, <<Loud(h2)>>)
        BY <1>13, <4>2, FittingOne, LoudQuiet
      <4> QED BY <4>1, <4>2
    <3>2. \A x : End(<<Loud(h2)>>, x) = h2 /\ End(<<>>, x) = x
      BY EndOne, EndShort, LoudQuiet
    <3> QED BY <3>1, <3>2, <3>3
  <2>4. ~inFile => h1 = h
    BY DEF h1
  <2> HIDE DEF a, b, inFile
  <2>5. Fitting(t, a \o b) /\ LoudEnd(a \o b)
    <3>1. IsTrail(a) /\ IsTrail(b)
      BY <2>2, <2>3 DEF Fitting
    <3>2. LoudEnd(a \o b)
      BY <2>2, <2>3, <3>1, EndJoin
    <3> QED BY <2>2, <2>3, <3>2, FittingJoin
  <2>6. End(a \o b, h) = IF acts THEN h2 ELSE h1
    <3>1. IsTrail(a) /\ IsTrail(b)
      BY <2>2, <2>3 DEF Fitting
    <3>2. End(a \o b, h) = End(b, End(a, h))
      BY <3>1, EndSplit
    <3> QED BY <2>2, <2>3, <2>4, <3>2
  <2>7. run.trail = a \o b
    BY <2>1 DEF Ran
  <2>8. run.failed = (acts /\ fails)
    BY <2>1 DEF Ran
  <2>9. ASSUME ~loose, ~NotAsAsked(t, h), ~run.failed PROVE Promised(t, IF acts THEN h2 ELSE h1)
    <3>1. h1.lines = file /\ IsList(file) /\ TableAsked(t, file)
      BY <1>14, <2>9
    <3>2. CASE acts
      <4>1. ~fails
        BY <2>8, <2>9, <3>2
      <4>2. MountAsked(t, h2.live)
        BY <1>11, <1>16, <2>9, <3>2, <4>1
      <4> QED BY <1>11, <3>1, <3>2, <4>2, MountPromised
    <3>3. CASE ~acts
      <4>1. MountAsked(t, h1.live)
        BY <1>9, <1>15, <2>9, <3>3
      <4> QED BY <3>1, <3>3, <4>1, MountPromised
    <3> QED BY <3>2, <3>3
  <2>10. Good(t, h, run, loose)
    BY <2>5, <2>6, <2>7, <2>9, GoodRun
  <2> QED BY <2>10 DEF loose, run
<1> QED BY <1>17, <1>18, <1>19

-----------------------------------------------------------------------------
(* hostname, group and user                                                *)

LEMMA OtherFits ==
  ASSUME NEW t, NEW g
  PROVE  /\ t.module \in {"hostname", "group", "user"} /\ FitsAccounts(t, g) => Fits(t, g)
         /\ t.module \in {"package", "pip", "service", "systemd"} /\ FitsServices(t, g) => Fits(t, g)
         /\ t.module \in {"git", "archive", "unarchive", "synchronize", "tempfile", "docker_container", "k8s", "command", "shell", "uri"}
              /\ FitsTransfers(t, g) => Fits(t, g)
<1>1. ASSUME t.module \in {"hostname", "group", "user"}, FitsAccounts(t, g) PROVE Fits(t, g)
  <2>1. FitsFiles(t, g) /\ FitsEntries(t, g)
    BY <1>1 DEF FitsFiles, FileModules, LineModules, FitsEntries, ReadsBeforeItWrites
  <2>2. FitsServices(t, g)
    BY <1>1 DEF FitsServices
  <2>3. FitsTransfers(t, g)
    BY <1>1 DEF FitsTransfers
  <2>4. t.module \in Modules
    BY <1>1 DEF Modules
  <2> QED BY <1>1, <2>1, <2>2, <2>3, <2>4 DEF Fits
<1>2. ASSUME t.module \in {"package", "pip", "service", "systemd"}, FitsServices(t, g) PROVE Fits(t, g)
  <2>1. FitsFiles(t, g) /\ FitsEntries(t, g)
    BY <1>2 DEF FitsFiles, FileModules, LineModules, FitsEntries, ReadsBeforeItWrites
  <2>2. FitsAccounts(t, g)
    BY <1>2 DEF FitsAccounts
  <2>3. FitsTransfers(t, g)
    BY <1>2 DEF FitsTransfers
  <2>4. t.module \in Modules
    BY <1>2 DEF Modules
  <2> QED BY <1>2, <2>1, <2>2, <2>3, <2>4 DEF Fits
<1>3. ASSUME t.module \in {"git", "archive", "unarchive", "synchronize", "tempfile", "docker_container", "k8s", "command", "shell", "uri"},
             FitsTransfers(t, g)
      PROVE  Fits(t, g)
  <2>1. FitsFiles(t, g) /\ FitsEntries(t, g)
    BY <1>3 DEF FitsFiles, FileModules, LineModules, FitsEntries, ReadsBeforeItWrites
  <2>2. FitsAccounts(t, g)
    BY <1>3 DEF FitsAccounts
  <2>3. FitsServices(t, g)
    BY <1>3 DEF FitsServices
  <2>4. t.module \in Modules
    BY <1>3 DEF Modules
  <2> QED BY <1>3, <2>1, <2>2, <2>3, <2>4 DEF Fits
<1> QED BY <1>1, <1>2, <1>3

LEMMA HostnameGood ==
  ASSUME NEW t, NEW h, NEW check, Fits(t, h), t.module = "hostname"
  PROVE  Good(t, h, HostnameRun(h, t, check), check)
<1> DEFINE both == [live |-> t.name, file |-> t.name]
           first == IF t.hostnamectl THEN both ELSE [h EXCEPT !.live = t.name]
           run == HostnameRun(h, t, check)
<1>1. {"live", "file"} \subseteq DOMAIN h /\ t.name # ""
  BY DEF Fits, FitsAccounts
<1>2. \A g : {"live", "file"} \subseteq DOMAIN g => Fits(t, g)
  <2> SUFFICES ASSUME NEW g, {"live", "file"} \subseteq DOMAIN g PROVE Fits(t, g)
    OBVIOUS
  <2>1. FitsAccounts(t, g)
    BY <1>1 DEF FitsAccounts
  <2> QED BY <2>1, OtherFits
<1>3. Fits(t, both) /\ Fits(t, first)
  <2>1. {"live", "file"} \subseteq DOMAIN both /\ {"live", "file"} \subseteq DOMAIN first
    BY <1>1
  <2> HIDE DEF both, first
  <2> QED BY <1>2, <2>1
<1>4. Promised(t, both)
  BY DEF Promised, AccountPromised, ReadsBeforeItWrites
<1>5. CASE h.live = t.name
  <2>1. run = Unchanged /\ NotAsAsked(t, h)
    BY <1>5 DEF HostnameRun, NotAsAsked
  <2> QED BY <2>1, RunParts, GoodIdle
<1>6. CASE h.live # t.name /\ check
  <2>1. run = Reports(TRUE)
    BY <1>6 DEF HostnameRun
  <2> QED BY <1>6, <2>1, RunParts, GoodIdle
<1>7. CASE h.live # t.name /\ ~check
  <2>1. run = Changes(<<Quiet(first), Loud(both)>>)
    BY <1>7 DEF HostnameRun
  <2> HIDE DEF first, both, run
  <2>2. run.trail = <<Quiet(first), Loud(both)>>
    BY <2>1, RunParts
  <2>3. Quiet(first).host = first
    BY LoudQuiet
  <2> QED BY <1>3, <1>4, <2>2, <2>3, GoodTwo DEF run
<1> QED BY <1>5, <1>6, <1>7

LEMMA GroupGood ==
  ASSUME NEW t, NEW h, NEW check, Fits(t, h), t.module = "group"
  PROVE  Good(t, h, GroupRun(h, t, check), check)
<1> DEFINE gone == [exists |-> FALSE, gid |-> ""]
           gid == IF t.gid # "" THEN t.gid ELSE "any"
           made == [exists |-> TRUE, gid |-> gid]
           run == GroupRun(h, t, check)
           cmd == GroupCommand(h, t)
<1>1. {"exists", "gid"} \subseteq DOMAIN h /\ h.exists \in BOOLEAN /\ t.state \in {"present", "absent"}
  BY DEF Fits, FitsAccounts
<1>2. Fits(t, gone) /\ Fits(t, made)
  <2>1. FitsAccounts(t, gone)
    BY <1>1 DEF FitsAccounts
  <2>2. FitsAccounts(t, made)
    BY <1>1 DEF FitsAccounts
  <2> HIDE DEF gone, made
  <2> QED BY <2>1, <2>2, OtherFits
<1>3. \A g : Promised(t, g) <=> IF t.state = "absent" THEN ~g.exists ELSE g.exists /\ (t.gid = "" \/ g.gid = t.gid)
  BY DEF Promised, AccountPromised, ReadsBeforeItWrites
<1>4. CASE t.state = "absent"
  <2>1. CASE h.exists
    <3>1. cmd = <<Loud(gone)>>
      BY <1>4, <2>1 DEF GroupCommand
    <3>2. run = IF check THEN Reports(TRUE) ELSE Ran(<<Loud(gone)>>, TRUE, t.state = "present" /\ t.gid = "taken")
      <4> HIDE DEF gone
      <4> QED BY <1>4, <3>1 DEF GroupRun
    <3>3. Promised(t, gone)
      BY <1>3, <1>4
    <3> HIDE DEF gone, run
    <3>4. CASE check
      BY <3>2, <3>4, RunParts, GoodIdle DEF run
    <3>5. CASE ~check
      <4>1. run.trail = <<Loud(gone)>>
        BY <3>2, <3>5 DEF Ran
      <4> QED BY <1>2, <3>3, <4>1, GoodOne DEF run
    <3> QED BY <3>4, <3>5
  <2>2. CASE ~h.exists
    <3>1. run = Unchanged
      BY <1>4, <2>2 DEF GroupCommand, GroupRun
    <3>2. Promised(t, h)
      BY <1>3, <1>4, <2>2
    <3> QED BY <3>1, <3>2, RunParts, GoodIdle
  <2> QED BY <2>1, <2>2
<1>5. CASE t.state = "present"
  <2>1. CASE h.exists /\ t.gid \in {"", h.gid}
    <3>1. run = Unchanged
      BY <1>5, <2>1 DEF GroupCommand, GroupRun
    <3>2. Promised(t, h)
      BY <1>3, <1>5, <2>1
    <3> QED BY <3>1, <3>2, RunParts, GoodIdle
  <2>2. CASE ~(h.exists /\ t.gid \in {"", h.gid})
    <3> DEFINE g == IF gid = "taken" THEN h ELSE made
    <3>1. cmd = <<Loud(g)>>
      BY <1>5, <2>2 DEF GroupCommand
    <3>2. run = IF check THEN Reports(TRUE) ELSE Ran(<<Loud(g)>>, TRUE, t.gid = "taken")
      <4> HIDE DEF g
      <4> QED BY <1>5, <3>1 DEF GroupRun
    <3>3. t.gid # "taken" => Promised(t, g)
      <4> SUFFICES ASSUME t.gid # "taken" PROVE Promised(t, g)
        OBVIOUS
      <4>1. g = made
        OBVIOUS
      <4>2. made.exists /\ (t.gid = "" \/ made.gid = t.gid)
        OBVIOUS
      <4> HIDE DEF made
      <4> QED BY <1>3, <1>5, <4>1, <4>2
    <3>4. Fits(t, g)
      <4> HIDE DEF made
      <4> QED BY <1>2
    <3> HIDE DEF g, run
    <3>5. CASE check
      BY <3>2, <3>5, RunParts, GoodIdle DEF run
    <3>6. CASE ~check
      <4>1. run.trail = <<Loud(g)>>
        BY <3>2, <3>6 DEF Ran
      <4>2. run.failed <=> t.gid = "taken"
        BY <3>2, <3>6 DEF Ran
      <4> QED BY <3>3, <3>4, <4>1, <4>2, GoodOne DEF run
    <3> QED BY <3>5, <3>6
  <2> QED BY <2>1, <2>2
<1> QED BY <1>1, <1>4, <1>5

-----------------------------------------------------------------------------
(* user                                                                    *)

UserHost(h) == /\ DOMAIN NoUser \subseteq DOMAIN h
               /\ h.exists \in BOOLEAN /\ h.locked \in BOOLEAN /\ h.key \in BOOLEAN

\* A task of the module user, in the words that the code knows.
UserTask(t) == /\ t.module = "user"
               /\ t.state \in {"present", "absent", "locked", "unlocked"}
               /\ t.lock \in {"", "lock", "unlock"}

LEMMA UserFit ==
  ASSUME NEW t, NEW g
  PROVE  /\ t.module = "user" /\ Fits(t, g) => UserTask(t) /\ UserHost(g)
         /\ UserTask(t) /\ UserHost(g) => Fits(t, g)
<1>1. ASSUME t.module = "user", Fits(t, g) PROVE UserTask(t) /\ UserHost(g)
  BY <1>1 DEF Fits, FitsAccounts, UserTask, UserHost
<1>2. ASSUME UserTask(t), UserHost(g) PROVE Fits(t, g)
  <2>1. FitsAccounts(t, g)
    BY <1>2 DEF FitsAccounts, UserTask, UserHost
  <2> QED BY <1>2, <2>1, OtherFits DEF UserTask
<1> QED BY <1>1, <1>2

LEMMA NoUserFields == /\ DOMAIN NoUser = {"exists", "shell", "groups", "password", "locked", "key"}
                      /\ ~NoUser.exists /\ ~NoUser.locked /\ ~NoUser.key
                      /\ NoUser.exists \in BOOLEAN /\ NoUser.locked \in BOOLEAN /\ NoUser.key \in BOOLEAN
BY DEF NoUser

\* What a task of the module user promises besides the key.
LockAsked(t, g) == t.state = "locked" \/ (t.state = "present" /\ t.lock = "lock") => g.locked
NamesAsked(t, g) == t.state = "present" => /\ t.shell \in {"", g.shell}
                                           /\ t.groups \subseteq g.groups
                                           /\ (t.groups # {} /\ ~t.append) => g.groups = t.groups
                                           /\ ~t.onCreate => t.password \in {"", g.password}
UserAsked(t, g) == (g.exists <=> t.state # "absent") /\ LockAsked(t, g) /\ NamesAsked(t, g)

LEMMA UserPromised ==
  ASSUME NEW t, NEW g, UserTask(t), UserHost(g), UserAsked(t, g), t.state = "present" /\ t.key => g.key
  PROVE  Promised(t, g)
<1>1. g.exists = (t.state # "absent")
  <2>1. CASE t.state = "absent"
    <3>1. ~g.exists /\ ~(t.state # "absent")
      BY <2>1 DEF UserAsked
    <3> QED BY <3>1 DEF UserHost
  <2>2. CASE t.state # "absent"
    <3>1. g.exists /\ (t.state # "absent")
      BY <2>2 DEF UserAsked
    <3> QED BY <3>1 DEF UserHost
  <2> QED BY <2>1, <2>2
<1>2. AccountPromised(t, g)
  BY <1>1 DEF AccountPromised, UserAsked, LockAsked, NamesAsked, UserTask
<1> QED BY <1>2 DEF Promised, UserTask, ReadsBeforeItWrites

KeyMade(g) == [g EXCEPT !.key = TRUE]

LEMMA WithKey ==
  ASSUME NEW t, NEW g, UserHost(g)
  PROVE  UserHost(KeyMade(g)) /\ KeyMade(g).key /\ (UserAsked(t, g) => UserAsked(t, KeyMade(g)))
<1> DEFINE made == KeyMade(g)
<1>0. {"exists", "shell", "groups", "password", "locked", "key"} \subseteq DOMAIN g
  BY NoUserFields DEF UserHost
<1>1. DOMAIN made = DOMAIN g /\ made.shell = g.shell /\ made.groups = g.groups /\ made.password = g.password
  BY <1>0 DEF KeyMade
<1>2. made.key /\ made.key \in BOOLEAN
  BY <1>0 DEF KeyMade
<1>3. made.exists = g.exists /\ made.locked = g.locked
  BY <1>0 DEF KeyMade
<1> HIDE DEF made
<1>4. UserHost(made)
  BY <1>1, <1>2, <1>3 DEF UserHost
<1>5. UserAsked(t, g) => UserAsked(t, made)
  <2>1. (made.exists <=> g.exists) /\ (made.locked <=> g.locked)
    BY <1>3
  <2> QED BY <1>1, <2>1 DEF UserAsked, LockAsked, NamesAsked
<1> QED BY <1>2, <1>4, <1>5 DEF made

\* The host after the options of usermod, and after the lock and the password.
Modified(h, t, groups) == Usermod(h, t.shell, groups, t.append)
GroupsSet(h, t, groups, g) == g.groups = (IF groups = {} THEN h.groups ELSE IF t.append THEN h.groups \cup groups ELSE groups)
ShellSet(h, t, g) == g.shell = (IF t.shell = "" THEN h.shell ELSE t.shell) /\ g.password = h.password

LEMMA UsermodIs ==
  ASSUME NEW h, NEW t, NEW groups, UserHost(h)
  PROVE  /\ UserHost(Modified(h, t, groups)) /\ (Modified(h, t, groups).exists <=> h.exists)
         /\ ShellSet(h, t, Modified(h, t, groups)) /\ GroupsSet(h, t, groups, Modified(h, t, groups))
<1> DEFINE g == Modified(h, t, groups)
<1>0. {"exists", "shell", "groups", "password", "locked", "key"} \subseteq DOMAIN h
  BY NoUserFields DEF UserHost
<1>1. DOMAIN g = DOMAIN h /\ g.exists = h.exists /\ g.locked = h.locked /\ g.key = h.key /\ g.password = h.password
  BY <1>0 DEF Modified, Usermod
<1>2. g.shell = IF t.shell = "" THEN h.shell ELSE t.shell
  BY <1>0 DEF Modified, Usermod
<1>3. g.groups = IF groups = {} THEN h.groups ELSE IF t.append THEN h.groups \cup groups ELSE groups
  BY <1>0 DEF Modified, Usermod
<1> HIDE DEF g
<1>4. UserHost(g)
  BY <1>1 DEF UserHost
<1>5. g.exists <=> h.exists
  BY <1>1
<1>6. ShellSet(h, t, g)
  BY <1>1, <1>2 DEF ShellSet
<1>7. GroupsSet(h, t, groups, g)
  BY <1>3 DEF GroupsSet
<1> QED BY <1>4, <1>5, <1>6, <1>7 DEF g

LEMMA LockIs ==
  ASSUME NEW h, UserHost(h)
  PROVE  /\ UserHost(Lock(h)) /\ Lock(h).locked /\ (Lock(h).exists <=> h.exists)
         /\ Lock(h).shell = h.shell /\ Lock(h).groups = h.groups /\ Lock(h).password = h.password
<1>0. {"exists", "shell", "groups", "password", "locked", "key"} \subseteq DOMAIN h
  BY NoUserFields DEF UserHost
<1>1. /\ DOMAIN Lock(h) = DOMAIN h /\ Lock(h).exists = h.exists /\ Lock(h).key = h.key
      /\ Lock(h).shell = h.shell /\ Lock(h).groups = h.groups /\ Lock(h).password = h.password
  BY <1>0 DEF Lock
<1>2. Lock(h).locked /\ Lock(h).locked \in BOOLEAN
  BY <1>0 DEF Lock
<1>3. UserHost(Lock(h))
  BY <1>1, <1>2 DEF UserHost
<1>4. Lock(h).exists <=> h.exists
  BY <1>1
<1> QED BY <1>1, <1>2, <1>3, <1>4

LEMMA UnlockIs ==
  ASSUME NEW h, UserHost(h)
  PROVE  /\ UserHost(Unlock(h)) /\ (Unlock(h).exists <=> h.exists)
         /\ Unlock(h).shell = h.shell /\ Unlock(h).groups = h.groups /\ Unlock(h).password = h.password
<1>0. {"exists", "shell", "groups", "password", "locked", "key"} \subseteq DOMAIN h
  BY NoUserFields DEF UserHost
<1>1. /\ DOMAIN Unlock(h) = DOMAIN h /\ Unlock(h).exists = h.exists /\ Unlock(h).key = h.key
      /\ Unlock(h).shell = h.shell /\ Unlock(h).groups = h.groups /\ Unlock(h).password = h.password
  BY <1>0 DEF Unlock
<1>2. Unlock(h).locked \in BOOLEAN
  BY <1>0 DEF Unlock
<1>3. UserHost(Unlock(h))
  BY <1>1, <1>2 DEF UserHost
<1>4. Unlock(h).exists <=> h.exists
  BY <1>1
<1> QED BY <1>1, <1>3, <1>4

LEMMA SetPasswordIs ==
  ASSUME NEW h, NEW password, UserHost(h)
  PROVE  LET g == SetPassword(h, password)
         IN  /\ UserHost(g) /\ (g.exists <=> h.exists)
             /\ g.shell = h.shell /\ g.groups = h.groups /\ g.password = password
<1> DEFINE g == SetPassword(h, password)
<1>0. {"exists", "shell", "groups", "password", "locked", "key"} \subseteq DOMAIN h
  BY NoUserFields DEF UserHost
<1>1. /\ DOMAIN g = DOMAIN h /\ g.exists = h.exists /\ g.key = h.key
      /\ g.shell = h.shell /\ g.groups = h.groups /\ g.password = password
  BY <1>0 DEF SetPassword
<1>2. g.locked \in BOOLEAN
  BY <1>0 DEF SetPassword
<1> HIDE DEF g
<1>3. UserHost(g)
  BY <1>1, <1>2 DEF UserHost
<1>4. g.exists <=> h.exists
  BY <1>1
<1> QED BY <1>1, <1>3, <1>4 DEF g

LEMMA UseraddIs ==
  ASSUME NEW h, NEW t, UserHost(h)
  PROVE  LET g == Useradd(h, t)
         IN  /\ UserHost(g) /\ g.exists /\ (t.lock = "lock" => g.locked)
             /\ g.shell = t.shell /\ g.groups = t.groups /\ g.password = t.password
<1> DEFINE g == Useradd(h, t)
           locks == t.password = "" \/ t.lock = "lock"
<1>0. {"exists", "shell", "groups", "password", "locked", "key"} \subseteq DOMAIN h
  BY NoUserFields DEF UserHost
<1>1. /\ DOMAIN g = DOMAIN h /\ g.key = h.key
      /\ g.shell = t.shell /\ g.groups = t.groups /\ g.password = t.password
  BY <1>0 DEF Useradd
<1>2. g.exists /\ g.exists \in BOOLEAN
  BY <1>0 DEF Useradd
<1>3. g.locked = locks
  BY <1>0 DEF Useradd
<1>4. locks \in BOOLEAN /\ (t.lock = "lock" => locks)
  OBVIOUS
<1> HIDE DEF locks, g
<1>5. g.locked \in BOOLEAN /\ (t.lock = "lock" => g.locked)
  BY <1>3, <1>4
<1>6. UserHost(g)
  BY <1>1, <1>2, <1>5 DEF UserHost
<1> QED BY <1>1, <1>2, <1>5, <1>6 DEF g

\* The commands for the account: their errors are all returned.
Obeys(t, run, h) ==
  /\ Fitting(t, run.trail) /\ LoudEnd(run.trail) /\ UserHost(End(run.trail, h))
  /\ ~NotAsAsked(t, h) /\ ~run.failed => UserAsked(t, End(run.trail, h))

LEMMA ObeysNone ==
  ASSUME NEW t, NEW run, NEW h, run.trail = <<>>, UserHost(h), ~NotAsAsked(t, h) /\ ~run.failed => UserAsked(t, h)
  PROVE  Obeys(t, run, h)
<1>1. Fitting(t, <<>>)
  BY ElemsShort, ShortTrails DEF Fitting
<1>2. End(run.trail, h) = h
  BY EndShort
<1>3. LoudEnd(run.trail)
  BY EndShort
<1> QED BY <1>1, <1>2, <1>3 DEF Obeys

LEMMA ObeysOne ==
  ASSUME NEW t, NEW run, NEW h, NEW g, run.trail = <<Loud(g)>>, UserTask(t), UserHost(g),
         ~NotAsAsked(t, h) /\ ~run.failed => UserAsked(t, g)
  PROVE  Obeys(t, run, h)
<1>1. Fitting(t, <<Loud(g)>>)
  BY FittingOne, LoudQuiet, UserFit
<1>2. End(<<Loud(g)>>, h) = g
  BY EndOne, LoudQuiet
<1>3. LoudEnd(<<Loud(g)>>)
  BY EndShort, LoudQuiet
<1> QED BY <1>1, <1>2, <1>3 DEF Obeys

LEMMA ObeysTwo ==
  ASSUME NEW t, NEW run, NEW h, NEW a, NEW g, run.trail = <<Loud(a), Loud(g)>>, UserTask(t), UserHost(a), UserHost(g),
         ~NotAsAsked(t, h) /\ ~run.failed => UserAsked(t, g)
  PROVE  Obeys(t, run, h)
<1>1. Fitting(t, <<Loud(a), Loud(g)>>)
  BY FittingTwo, LoudQuiet, UserFit
<1>2. End(<<Loud(a), Loud(g)>>, h) = g
  BY EndTwo, LoudQuiet
<1>3. LoudEnd(<<Loud(a), Loud(g)>>)
  BY EndShort, LoudQuiet
<1> QED BY <1>1, <1>2, <1>3 DEF Obeys

UserThere(h) == h.exists

\* Groups that the user has already are not named again, and a password only
\* for the creation is left out.
GroupsFrom(t, h, groups) == groups = t.groups \/ (groups = {} /\ t.append /\ t.groups \subseteq h.groups)
PasswordFrom(t, password) == password = t.password \/ (password = "" /\ t.onCreate)

\* usermod: the options and the lock in one command, the password in the next.
LEMMA ModifyObeys ==
  ASSUME NEW t, NEW h, NEW groups, NEW password, UserTask(t), UserHost(h), t.state = "present", UserThere(h),
         GroupsFrom(t, h, groups), PasswordFrom(t, password)
  PROVE  Obeys(t, ModifyUser(h, t, groups, password), h)
<1> DEFINE args == t.shell # "" \/ groups # {}
           fails == args /\ ~Usable(groups)
           modified == Modified(h, t, groups)
           set == IF fails THEN h ELSE modified
           first == CASE fails \/ t.lock = "" -> set
                      [] ~fails /\ t.lock = "lock" -> Lock(set)
                      [] ~fails /\ t.lock = "unlock" -> Unlock(set)
           second == SetPassword(first, password)
           cmd == IF args \/ t.lock # "" THEN <<Loud(first)>> ELSE <<>>
           pass == IF password # "" THEN <<Loud(second)>> ELSE <<>>
           run == ModifyUser(h, t, groups, password)
           changed == cmd \o pass # <<>>
<1>1. run = Ran(cmd \o pass, changed, fails)
  BY DEF ModifyUser, Modified
<1>2. t.lock \in {"", "lock", "unlock"}
  BY DEF UserTask
<1>3. first = IF fails \/ t.lock = "" THEN set ELSE IF t.lock = "lock" THEN Lock(set) ELSE Unlock(set)
  BY <1>2
<1>4. UserHost(modified) /\ (modified.exists <=> h.exists) /\ ShellSet(h, t, modified) /\ GroupsSet(h, t, groups, modified)
  BY UsermodIs
<1>5. run.failed <=> fails
  <2> HIDE DEF fails, changed, cmd, pass, run
  <2> QED BY <1>1 DEF Ran
<1>6. run.trail = cmd \o pass
  <2> HIDE DEF fails, changed, cmd, pass, run
  <2> QED BY <1>1 DEF Ran
<1> HIDE DEF modified
<1>7. UserHost(set) /\ (set.exists <=> h.exists)
  BY <1>4
<1>8. UserHost(first) /\ (first.exists <=> h.exists)
  <2> HIDE DEF set, fails
  <2>1. first \in {set, Lock(set), Unlock(set)}
    BY <1>3
  <2>2. UserHost(Lock(set)) /\ (Lock(set).exists <=> h.exists)
    BY <1>7, LockIs
  <2>3. UserHost(Unlock(set)) /\ (Unlock(set).exists <=> h.exists)
    BY <1>7, UnlockIs
  <2> HIDE DEF first
  <2>4. first = set \/ first = Lock(set) \/ first = Unlock(set)
    BY <2>1
  <2> QED BY <1>7, <2>2, <2>3, <2>4
<1>9. UserHost(second) /\ (second.exists <=> h.exists)
  <2> HIDE DEF first
  <2> QED BY <1>8, SetPasswordIs
<1>10. ASSUME ~fails
       PROVE  /\ first.shell = modified.shell /\ first.groups = modified.groups /\ first.password = h.password
              /\ t.lock = "lock" => first.locked
  <2>1. set = modified
    BY <1>10
  <2> HIDE DEF set, first, fails
  <2> QED BY <1>3, <1>4, <1>10, <2>1, LockIs, UnlockIs DEF ShellSet
<1>11. second.shell = first.shell /\ second.groups = first.groups /\ second.password = password
  <2> HIDE DEF first
  <2> QED BY <1>8, SetPasswordIs
<1>12. t.shell \in {"", modified.shell}
  BY <1>4 DEF ShellSet
<1>13. t.groups \subseteq modified.groups /\ (t.groups # {} /\ ~t.append => modified.groups = t.groups)
  BY <1>4 DEF GroupsFrom, GroupsSet
<1>14. NotAsAsked(t, h) \/ t.password = "" \/ t.lock # "lock"
  BY DEF NotAsAsked, UserTask
<1> HIDE DEF run
<1>15. CASE password # ""
  <2>1. pass = <<Loud(second)>>
    BY <1>15
  <2>2. ~NotAsAsked(t, h) /\ ~run.failed => UserAsked(t, second)
    <3> SUFFICES ASSUME ~NotAsAsked(t, h), ~run.failed PROVE UserAsked(t, second)
      OBVIOUS
    <3>1. ~fails
      BY <1>5
    <3>2. t.lock # "lock" /\ password = t.password
      BY <1>14, <1>15 DEF PasswordFrom
    <3> HIDE DEF second, first, fails
    <3>3. LockAsked(t, second)
      BY <3>2 DEF LockAsked
    <3>4. NamesAsked(t, second)
      BY <1>10, <1>11, <1>12, <1>13, <3>1, <3>2 DEF NamesAsked
    <3> QED BY <1>9, <3>3, <3>4 DEF UserAsked, UserThere
  <2>3. CASE args \/ t.lock # ""
    <3>1. cmd = <<Loud(first)>>
      BY <2>3
    <3> HIDE DEF first, second, cmd, pass
    <3>2. run.trail = <<Loud(first), Loud(second)>>
      BY <1>6, <2>1, <3>1, Joined
    <3> QED BY <1>8, <1>9, <2>2, <3>2, ObeysTwo DEF run
  <2>4. CASE ~(args \/ t.lock # "")
    <3>1. cmd = <<>>
      BY <2>4
    <3> HIDE DEF first, second, cmd, pass
    <3>2. run.trail = <<Loud(second)>>
      BY <1>6, <2>1, <3>1, Joined
    <3> QED BY <1>9, <2>2, <3>2, ObeysOne DEF run
  <2> QED BY <2>3, <2>4
<1>16. CASE password = ""
  <2>1. pass = <<>>
    BY <1>16
  <2>2. ~t.onCreate => t.password = ""
    BY <1>16 DEF PasswordFrom
  <2>3. CASE args \/ t.lock # ""
    <3>1. cmd = <<Loud(first)>>
      BY <2>3
    <3>2. run.trail = <<Loud(first)>>
      <4> HIDE DEF first, cmd, pass
      <4> QED BY <1>6, <2>1, <3>1, Joined
    <3>3. ~NotAsAsked(t, h) /\ ~run.failed => UserAsked(t, first)
      <4> SUFFICES ASSUME ~run.failed PROVE UserAsked(t, first)
        OBVIOUS
      <4>1. ~fails
        BY <1>5
      <4> HIDE DEF first, fails
      <4>2. LockAsked(t, first)
        BY <1>10, <4>1 DEF LockAsked
      <4>3. NamesAsked(t, first)
        BY <1>10, <1>12, <1>13, <2>2, <4>1 DEF NamesAsked
      <4> QED BY <1>8, <4>2, <4>3 DEF UserAsked, UserThere
    <3> HIDE DEF first
    <3> QED BY <1>8, <3>2, <3>3, ObeysOne DEF run
  <2>4. CASE ~(args \/ t.lock # "")
    <3>1. cmd = <<>>
      BY <2>4
    <3>2. run.trail = <<>>
      <4> HIDE DEF cmd, pass
      <4> QED BY <1>6, <2>1, <3>1, Joined
    <3>3. UserAsked(t, h)
      <4>1. LockAsked(t, h)
        BY <2>4 DEF LockAsked
      <4>2. t.shell = "" /\ groups = {}
        BY <2>4
      <4>3. NamesAsked(t, h)
        BY <2>2, <4>2 DEF NamesAsked, GroupsFrom
      <4> QED BY <4>1, <4>3 DEF UserAsked, UserThere
    <3> QED BY <3>2, <3>3, ObeysNone DEF run
  <2> QED BY <2>3, <2>4
<1> QED BY <1>15, <1>16 DEF run

LEMMA GoneUser ==
  ASSUME NEW h, NEW t, UserHost(h)
  PROVE  LET gone == IF t.remove THEN NoUser ELSE [NoUser EXCEPT !.key = h.key]
         IN  UserHost(gone) /\ ~gone.exists
<1> DEFINE left == [NoUser EXCEPT !.key = h.key]
<1>1. UserHost(NoUser) /\ ~NoUser.exists
  BY NoUserFields DEF UserHost
<1>2. DOMAIN left = DOMAIN NoUser /\ left.exists = NoUser.exists /\ left.locked = NoUser.locked /\ left.key = h.key
  BY NoUserFields
<1>3. UserHost(left) /\ ~left.exists
  <2> HIDE DEF left
  <2>1. UserHost(left)
    BY <1>1, <1>2 DEF UserHost
  <2>2. ~left.exists
    BY <1>1, <1>2
  <2> QED BY <2>1, <2>2
<1> QED BY <1>1, <1>3

LEMMA CommandsObey ==
  ASSUME NEW t, NEW h, UserTask(t), UserHost(h)
  PROVE  Obeys(t, UserCommands(h, t), h)
<1> DEFINE run == UserCommands(h, t)
           password == IF h.exists /\ t.onCreate THEN "" ELSE t.password
           groups == IF h.exists /\ t.append /\ t.groups \subseteq h.groups THEN {} ELSE t.groups
           gone == IF t.remove THEN NoUser ELSE [NoUser EXCEPT !.key = h.key]
<1>1. t.state \in {"present", "absent", "locked", "unlocked"}
  BY DEF UserTask
<1>2. CASE t.state = "present" /\ h.exists
  <2>1. run = ModifyUser(h, t, groups, password)
    BY <1>2 DEF UserCommands
  <2>2. GroupsFrom(t, h, groups) /\ PasswordFrom(t, password)
    BY DEF GroupsFrom, PasswordFrom
  <2>3. UserThere(h)
    BY <1>2 DEF UserThere
  <2> HIDE DEF groups, password, run
  <2>4. Obeys(t, ModifyUser(h, t, groups, password), h)
    BY <1>2, <2>2, <2>3, ModifyObeys
  <2> QED BY <2>1, <2>4 DEF run
<1>3. CASE t.state = "present" /\ ~h.exists
  <2>1. CASE Usable(t.groups)
    <3>1. run = Changes(<<Loud(Useradd(h, t))>>)
      BY <1>3, <2>1 DEF UserCommands
    <3>2. UserAsked(t, Useradd(h, t))
      <4>1. /\ UserHost(Useradd(h, t)) /\ Useradd(h, t).exists /\ (t.lock = "lock" => Useradd(h, t).locked)
            /\ Useradd(h, t).shell = t.shell /\ Useradd(h, t).groups = t.groups /\ Useradd(h, t).password = t.password
        BY UseraddIs
      <4>2. LockAsked(t, Useradd(h, t))
        BY <1>3, <4>1 DEF LockAsked
      <4>3. NamesAsked(t, Useradd(h, t))
        BY <4>1 DEF NamesAsked
      <4> QED BY <1>3, <4>1, <4>2, <4>3 DEF UserAsked
    <3>3. UserHost(Useradd(h, t))
      BY UseraddIs
    <3> HIDE DEF run
    <3>4. run.trail = <<Loud(Useradd(h, t))>>
      BY <3>1, RunParts
    <3> QED BY <3>2, <3>3, <3>4, ObeysOne DEF run
  <2>2. CASE ~Usable(t.groups)
    <3>1. run = Ran(<<Loud(h)>>, TRUE, TRUE)
      BY <1>3, <2>2 DEF UserCommands
    <3>2. run.trail = <<Loud(h)>> /\ run.failed
      BY <3>1 DEF Ran
    <3> HIDE DEF run
    <3> QED BY <3>2, ObeysOne DEF run
  <2> QED BY <2>1, <2>2
<1>4. CASE t.state = "absent"
  <2>1. CASE h.exists
    <3>1. run = Changes(<<Loud(gone)>>)
      BY <1>4, <2>1 DEF UserCommands
    <3>2. UserHost(gone) /\ ~gone.exists
      BY GoneUser
    <3> HIDE DEF run, gone
    <3>3. UserAsked(t, gone)
      BY <1>4, <3>2 DEF UserAsked, LockAsked, NamesAsked
    <3>4. run.trail = <<Loud(gone)>>
      BY <3>1, RunParts
    <3> QED BY <3>2, <3>3, <3>4, ObeysOne DEF run
  <2>2. CASE ~h.exists
    <3>1. run = Unchanged
      BY <1>4, <2>2 DEF UserCommands
    <3>2. UserAsked(t, h)
      BY <1>4, <2>2 DEF UserAsked, LockAsked, NamesAsked
    <3> HIDE DEF run
    <3>3. run.trail = <<>>
      BY <3>1, RunParts
    <3> QED BY <3>2, <3>3, ObeysNone DEF run
  <2> QED BY <2>1, <2>2
<1>5. CASE t.state \in {"locked", "unlocked"} /\ h.exists
  <2> DEFINE g == IF t.state = "locked" THEN Lock(h) ELSE Unlock(h)
  <2>1. run = Changes(<<Loud(g)>>)
    BY <1>5 DEF UserCommands
  <2>2. UserHost(Lock(h)) /\ Lock(h).locked /\ (Lock(h).exists <=> h.exists)
    BY LockIs
  <2>3. UserHost(Unlock(h)) /\ (Unlock(h).exists <=> h.exists)
    BY UnlockIs
  <2>4. UserHost(g) /\ g.exists /\ (t.state = "locked" => g.locked)
    BY <1>5, <2>2, <2>3
  <2> HIDE DEF g, run
  <2>5. UserAsked(t, g)
    BY <1>5, <2>4 DEF UserAsked, LockAsked, NamesAsked
  <2>6. run.trail = <<Loud(g)>>
    BY <2>1, RunParts
  <2> QED BY <2>4, <2>5, <2>6, ObeysOne DEF run
<1>6. CASE t.state \in {"locked", "unlocked"} /\ ~h.exists
  <2>1. run = Refused
    BY <1>6 DEF UserCommands
  <2> HIDE DEF run
  <2>2. run.trail = <<>> /\ run.failed
    BY <2>1, RunParts
  <2> QED BY <2>2, ObeysNone DEF run
<1> QED BY <1>1, <1>2, <1>3, <1>4, <1>5, <1>6

LEMMA TrailsAssociate ==
  ASSUME NEW x, NEW y, NEW z, IsTrail(x), IsTrail(y), IsTrail(z)
  PROVE  x \o (y \o z) = (x \o y) \o z
<1>1. PICK X : x \in Seq(X)
  BY DEF IsTrail
<1>2. PICK Y : y \in Seq(Y)
  BY DEF IsTrail
<1>3. PICK Z : z \in Seq(Z)
  BY DEF IsTrail
<1> DEFINE S == X \cup Y \cup Z
<1>4. x \in Seq(S) /\ y \in Seq(S) /\ z \in Seq(S)
  BY <1>1, <1>2, <1>3
<1> HIDE DEF S
<1> QED BY <1>4

LEMMA JoinThree ==
  ASSUME NEW a, NEW b, NEW c
  PROVE  (<<a>> \o <<b>>) \o <<c>> = <<a, b, c>>
<1> DEFINE s == (<<a>> \o <<b>>) \o <<c>>
           S == {a, b, c}
<1>1. <<a>> \in Seq(S) /\ <<b>> \in Seq(S) /\ <<c>> \in Seq(S) /\ <<a, b, c>> \in Seq(S)
  OBVIOUS
<1>2. s \in Seq(S) /\ Len(s) = 3 /\ s[1] = a /\ s[2] = b /\ s[3] = c
  BY <1>1
<1>3. Len(<<a, b, c>>) = 3 /\ <<a, b, c>>[1] = a /\ <<a, b, c>>[2] = b /\ <<a, b, c>>[3] = c
  OBVIOUS
<1> HIDE DEF s
<1>4. s = <<a, b, c>>
  BY <1>1, <1>2, <1>3
<1> QED BY <1>4 DEF s

LEMMA JoinTwoOne ==
  ASSUME NEW a, NEW b, NEW c
  PROVE  <<a, b>> \o <<c>> = <<a, b, c>>
<1>1. <<a>> \o <<b>> = <<a, b>>
  BY Joined
<1>2. (<<a>> \o <<b>>) \o <<c>> = <<a, b, c>>
  BY JoinThree
<1> QED BY <1>1, <1>2

LEMMA EndAfter ==
  ASSUME NEW run, NEW h, IsTrail(run.trail)
  PROVE  HostAfter(run, h, Len(run.trail)) = End(run.trail, h)
BY TrailEmpty DEF HostAfter, End

LEMMA UserGood ==
  ASSUME NEW t, NEW h, NEW check, Fits(t, h), t.module = "user"
  PROVE  Good(t, h, UserRun(h, t, check), check)
<1> DEFINE cmds == UserCommands(h, t)
           done == HostAfter(cmds, h, Len(cmds.trail))
           key == UserSSHKey(done, t)
           run == UserRun(h, t, check)
<1>1. UserTask(t) /\ UserHost(h)
  BY UserFit
<1>2. Obeys(t, cmds, h)
  BY <1>1, CommandsObey
<1>3. done = End(cmds.trail, h) /\ UserHost(done) /\ Fitting(t, cmds.trail) /\ IsTrail(cmds.trail) /\ LoudEnd(cmds.trail)
  <2> HIDE DEF cmds
  <2>1. UserHost(End(cmds.trail, h)) /\ Fitting(t, cmds.trail) /\ IsTrail(cmds.trail) /\ LoudEnd(cmds.trail)
    BY <1>2 DEF Obeys, Fitting
  <2>2. done = End(cmds.trail, h)
    BY <2>1, EndAfter
  <2> QED BY <2>1, <2>2
<1>4. CASE cmds = Refused
  <2>1. run = Refused
    BY <1>4 DEF UserRun
  <2> HIDE DEF run
  <2> QED BY <2>1, RunParts, GoodIdle DEF run
<1>5. CASE cmds # Refused /\ check
  <2> DEFINE c == cmds.trail # <<>> \/ UserSSHKey(h, t) # <<>>
  <2>1. run = Reports(c)
    BY <1>5 DEF UserRun
  <2> HIDE DEF run, c
  <2>2. run.trail = <<>>
    BY <2>1, RunParts
  <2> QED BY <1>5, <2>2, GoodIdle DEF run
<1>6. CASE cmds # Refused /\ ~check
  <2> DEFINE c == cmds.trail # <<>> \/ key # <<>>
  <2>1. run = Ran(cmds.trail \o key, c, cmds.failed)
    BY <1>6 DEF UserRun
  <2>2. run.trail = cmds.trail \o key /\ run.failed = cmds.failed
    <3> HIDE DEF run, c, cmds, key
    <3> QED BY <2>1 DEF Ran
  <2>3. run.failed <=> cmds.failed
    <3> HIDE DEF run, cmds
    <3> QED BY <2>2
  <2>4. ~NotAsAsked(t, h) /\ ~run.failed => UserAsked(t, done)
    <3> HIDE DEF run, cmds, done
    <3> QED BY <1>2, <1>3, <2>3 DEF Obeys
  <2>5. CASE t.state = "absent" \/ ~t.key \/ done.key
    <3>1. key = <<>>
      BY <2>5 DEF UserSSHKey
    <3>2. run.trail = cmds.trail
      <4>1. \A s : IsTrail(s) => s \o <<>> = s
        BY DEF IsTrail
      <4> HIDE DEF run, cmds, key
      <4> QED BY <1>3, <2>2, <3>1, <4>1
    <3>3. t.state = "present" /\ t.key => done.key
      BY <2>5
    <3> HIDE DEF run, cmds, done
    <3>4. ~NotAsAsked(t, h) /\ ~run.failed => Promised(t, done)
      BY <1>1, <1>3, <2>4, <3>3, UserPromised
    <3>5. Good(t, h, run, check)
      BY <1>3, <3>2, <3>4, GoodRun
    <3> QED BY <3>5 DEF run
  <2>6. CASE ~(t.state = "absent" \/ ~t.key \/ done.key)
    <3> DEFINE made == KeyMade(done)
               pre == <<Quiet(done), Loud(made)>>
               b == cmds.trail \o pre
               q == <<Quiet(made)>>
    <3>1. key = <<Quiet(done), Loud(made), Quiet(made)>>
      BY <2>6 DEF UserSSHKey, KeyMade
    <3>2. UserHost(made) /\ made.key /\ (UserAsked(t, done) => UserAsked(t, made))
      <4> HIDE DEF done
      <4> QED BY <1>3, WithKey
    <3> HIDE DEF run, cmds, done, made, key
    <3>3. ~NotAsAsked(t, h) /\ ~run.failed => Promised(t, made)
      BY <1>1, <2>4, <3>2, UserPromised
    <3>4. Fits(t, done) /\ Fits(t, made)
      BY <1>1, <1>3, <3>2, UserFit
    <3>5. IsTrail(pre) /\ IsTrail(q) /\ Elems(pre) = {Quiet(done), Loud(made)} /\ Elems(q) = {Quiet(made)}
      BY ShortTrails, ElemsShort, ElemsTwo
    <3>6. key = pre \o q
      <4>1. pre \o q = <<Quiet(done), Loud(made), Quiet(made)>>
        BY JoinTwoOne
      <4> QED BY <3>1, <4>1
    <3>7. End(pre, End(cmds.trail, h)) = made /\ LoudEnd(pre) /\ pre # <<>>
      BY EndTwo, EndShort, LoudQuiet, ShortTrails
    <3>8. Fitting(t, pre) /\ Fitting(t, q)
      BY <3>4, FittingOne, FittingTwo, LoudQuiet
    <3> HIDE DEF pre, q
    <3>9. IsTrail(b) /\ End(b, h) = made /\ LoudEnd(b)
      <4>1. IsTrail(b) /\ LoudEnd(b)
        BY <1>3, <3>5, <3>7, EndJoin
      <4>2. End(b, h) = End(pre, End(cmds.trail, h))
        BY <1>3, <3>5, EndSplit
      <4> QED BY <3>7, <4>1, <4>2
    <3>10. run.trail = b \o q
      <4> DEFINE w == cmds.trail
      <4>1. IsTrail(w) /\ run.trail = w \o key /\ b = w \o pre
        BY <1>3, <2>2
      <4> HIDE DEF w
      <4>2. w \o (pre \o q) = (w \o pre) \o q
        BY <3>5, <4>1, TrailsAssociate
      <4> HIDE DEF b
      <4> QED BY <3>6, <4>1, <4>2
    <3>11. Fitting(t, run.trail)
      <4>1. Fitting(t, b)
        BY <1>3, <3>8, FittingJoin
      <4> QED BY <3>8, <3>10, <4>1, FittingJoin
    <3> HIDE DEF b
    <3>12. ASSUME ~NotAsAsked(t, h) PROVE Done(t, run, h)
      <4>1. ~run.failed => Promised(t, End(b, h)) /\ \A s \in Elems(q) : Promised(t, s.host)
        BY <3>3, <3>5, <3>9, <3>12, LoudQuiet
      <4> QED BY <3>5, <3>9, <3>10, <4>1, DoneTail
    <3>13. Good(t, h, run, check)
      BY <3>11, <3>12 DEF Good
    <3> QED BY <3>13 DEF run
  <2> QED BY <2>5, <2>6
<1> QED BY <1>4, <1>5, <1>6

-----------------------------------------------------------------------------
(* Packages                                                                *)

\* A task that asks for nothing which a host could lack.
LEMMA GoodAnyway ==
  ASSUME NEW t, NEW h, NEW run, NEW loose, Fitting(t, run.trail), \A g : Promised(t, g)
  PROVE  Good(t, h, run, loose)
BY DEF Good, Done

\* The run of several commands, the last one loud.
LEMMA GoodEnd ==
  ASSUME NEW t, NEW h, NEW run, NEW loose, NEW a, NEW g, Fitting(t, a), run.trail = a \o <<Loud(g)>>, Fits(t, g),
         ~loose /\ ~NotAsAsked(t, h) /\ ~run.failed => Promised(t, g)
  PROVE  Good(t, h, run, loose)
<1> DEFINE z == <<Loud(g)>>
<1>1. Fitting(t, z) /\ IsTrail(z) /\ LoudEnd(z) /\ z # <<>>
  BY FittingOne, LoudQuiet, EndShort, ShortTrails
<1>2. \A x : End(z, x) = g
  BY EndOne, LoudQuiet
<1>3. run.trail = a \o z /\ IsTrail(a)
  BY DEF Fitting
<1> HIDE DEF z
<1>4. Fitting(t, run.trail)
  BY <1>1, <1>3, FittingJoin
<1>5. LoudEnd(run.trail)
  BY <1>1, <1>3, EndJoin
<1>6. End(run.trail, h) = g
  <2>1. End(a \o z, h) = End(z, End(a, h))
    BY <1>1, <1>3, EndSplit
  <2> QED BY <1>2, <1>3, <2>1
<1> QED BY <1>4, <1>5, <1>6, GoodRun

Shelf(t, h) == /\ "versions" \in DOMAIN h /\ h.versions \in [DOMAIN h.versions -> Versions]
               /\ t.names \subseteq DOMAIN h.versions

LEMMA ShelfFit ==
  ASSUME NEW t, NEW h, Fits(t, h), t.module \in {"package", "pip"}
  PROVE  Shelf(t, h) /\ \A g : Shelf(t, g) => Fits(t, g)
<1>1. Shelf(t, h)
  BY DEF Fits, FitsServices, Shelf
<1>2. ASSUME NEW g, Shelf(t, g) PROVE Fits(t, g)
  <2>1. FitsServices(t, g)
    BY <1>2 DEF FitsServices, Fits, Shelf
  <2> QED BY <2>1, OtherFits
<1> QED BY <1>1, <1>2

LEMMA VersionSet ==
  ASSUME NEW t, NEW h, NEW names, NEW version, Shelf(t, h), NEW p \in t.names
  PROVE  WithVersions(h, names, version).versions[p] = IF p \in names THEN version ELSE h.versions[p]
<1> DEFINE g == WithVersions(h, names, version)
           new == [q \in DOMAIN h.versions |-> IF q \in names THEN version ELSE h.versions[q]]
<1>1. "versions" \in DOMAIN h /\ p \in DOMAIN h.versions
  BY DEF Shelf
<1>2. g.versions = new
  BY <1>1 DEF WithVersions
<1>3. new[p] = IF p \in names THEN version ELSE h.versions[p]
  BY <1>1
<1> HIDE DEF g, new
<1>4. g.versions[p] = IF p \in names THEN version ELSE h.versions[p]
  BY <1>2, <1>3
<1> QED BY <1>4 DEF g

LEMMA ShelfKept ==
  ASSUME NEW t, NEW h, NEW names, NEW version \in Versions, Shelf(t, h)
  PROVE  Shelf(t, WithVersions(h, names, version))
<1> DEFINE g == WithVersions(h, names, version)
           new == [p \in DOMAIN h.versions |-> IF p \in names THEN version ELSE h.versions[p]]
<1>1. "versions" \in DOMAIN h /\ h.versions \in [DOMAIN h.versions -> Versions] /\ t.names \subseteq DOMAIN h.versions
  BY DEF Shelf
<1>2. "versions" \in DOMAIN g /\ g.versions = new
  BY <1>1 DEF WithVersions
<1>3. new \in [DOMAIN h.versions -> Versions] /\ DOMAIN new = DOMAIN h.versions
  BY <1>1
<1> HIDE DEF g, new
<1>4. Shelf(t, g)
  BY <1>1, <1>2, <1>3 DEF Shelf
<1> QED BY <1>4 DEF g

\* What a task asks of the version of each of its packages.
VersionAsked(t, v) == IF Removes(t) THEN v = "none"
                      ELSE IF t.module = "pip" /\ t.version # "" THEN v = t.version
                      ELSE v \in (IF t.state = "latest" THEN {"new"} ELSE {"old", "new"})

LEMMA VersionsPromised ==
  ASSUME NEW t, NEW g, t.module \in {"package", "pip"}, \A p \in t.names : VersionAsked(t, g.versions[p])
  PROVE  Promised(t, g)
<1>1. ServicePromised(t, g)
  BY DEF ServicePromised, VersionAsked
<1> QED BY <1>1 DEF Promised, ReadsBeforeItWrites

LEMMA ManageGood ==
  ASSUME NEW t, NEW h, NEW changed, NEW loose, Fits(t, h), t.module = "package"
  PROVE  Good(t, h, Manage(h, t, changed), loose)
<1> DEFINE g == IF t.update THEN Fresh(h) ELSE h
           version == IF Removes(t) THEN "none" ELSE "new"
           names == t.names \cap Todo(h, t)
           done == WithVersions(g, names, version)
           run == Manage(h, t, changed)
<1>0. Shelf(t, h) /\ t.manager \in {"apt", "dnf", "yum", "apk"} /\ \A x : Shelf(t, x) => Fits(t, x)
  BY ShelfFit DEF Fits, FitsServices
<1>1. Shelf(t, Fresh(h)) /\ Fresh(h).versions = h.versions
  <2>1. DOMAIN Fresh(h) = DOMAIN h /\ Fresh(h).versions = h.versions
    BY <1>0 DEF Fresh, Shelf
  <2> QED BY <1>0, <2>1 DEF Shelf
<1>2. Shelf(t, g) /\ g.versions = h.versions
  BY <1>0, <1>1
<1>3. version \in Versions
  BY DEF Versions
<1>4. Fitting(t, Refresh(h, t))
  <2>1. Fitting(t, <<Quiet(Fresh(h))>>) /\ Fitting(t, <<>>)
    BY <1>0, <1>1, FittingOne, LoudQuiet
  <2> QED BY <2>1 DEF Refresh
<1>5. CASE "ghost" \in t.names /\ ~Removes(t)
  <2>1. run = Ran(Refresh(h, t) \o <<Loud(g)>>, TRUE, TRUE)
    BY <1>5 DEF Manage
  <2> HIDE DEF g, run
  <2>2. run.trail = Refresh(h, t) \o <<Loud(g)>> /\ run.failed
    BY <2>1 DEF Ran
  <2>3. Good(t, h, run, loose)
    BY <1>0, <1>2, <1>4, <2>2, GoodEnd
  <2> QED BY <2>3 DEF run
<1>6. CASE ~("ghost" \in t.names /\ ~Removes(t))
  <2>1. run = Ran(Refresh(h, t) \o <<Loud(done)>>, changed, FALSE)
    BY <1>6 DEF Manage
  <2>2. run.trail = Refresh(h, t) \o <<Loud(done)>>
    <3> HIDE DEF done, run
    <3> QED BY <2>1 DEF Ran
  <2>3. /\ Shelf(t, done)
        /\ \A p \in t.names : done.versions[p] = IF p \in names THEN version ELSE g.versions[p]
    <3> HIDE DEF g, version, names
    <3>1. Shelf(t, done)
      BY <1>2, <1>3, ShelfKept
    <3>2. ASSUME NEW p \in t.names PROVE done.versions[p] = IF p \in names THEN version ELSE g.versions[p]
      BY <1>2, <1>3, VersionSet
    <3> QED BY <3>1, <3>2
  <2> HIDE DEF done, g
  <2>4. ASSUME ~NotAsAsked(t, h), NEW p \in t.names PROVE VersionAsked(t, done.versions[p])
    <3>1. h.versions[p] \in Versions /\ p \in DOMAIN h.versions
      BY <1>0 DEF Shelf
    <3>2. done.versions[p] = IF p \in names THEN version ELSE h.versions[p]
      BY <1>2, <2>3
    <3>3. \A s : p \in Having(h, s) <=> h.versions[p] \in s
      BY <3>1 DEF Having
    <3>4. CASE Removes(t)
      <4>1. p \in Todo(h, t) <=> h.versions[p] \in {"old", "new"}
        BY <3>3, <3>4 DEF Todo, Removes
      <4>2. done.versions[p] = "none"
        BY <3>1, <3>2, <3>4, <4>1 DEF Versions
      <4> QED BY <3>4, <4>2 DEF VersionAsked
    <3>5. CASE ~Removes(t) /\ t.manager = "apt"
      <4>1. p \in Todo(h, t) <=> h.versions[p] \in {"none", "old"}
        BY <3>3, <3>5 DEF Todo, Removes
      <4>2. done.versions[p] = "new"
        BY <3>1, <3>2, <3>5, <4>1 DEF Versions
      <4> QED BY <3>5, <4>2 DEF VersionAsked
    <3>6. CASE ~Removes(t) /\ t.manager \in {"dnf", "yum"} /\ t.state = "latest"
      <4>1. p \in Todo(h, t) <=> h.versions[p] \in {"old"}
        BY <3>3, <3>6 DEF Todo, Removes
      <4>2. p \notin Having(h, {"none"})
        BY <2>4, <3>6 DEF NotAsAsked
      <4>3. done.versions[p] = "new"
        BY <3>1, <3>2, <3>3, <3>6, <4>1, <4>2 DEF Versions
      <4> QED BY <3>6, <4>3 DEF VersionAsked
    <3>7. CASE ~Removes(t) /\ t.manager # "apt" /\ (t.manager = "apk" \/ t.state # "latest")
      <4>1. p \in Todo(h, t) <=> h.versions[p] \in {"none"}
        BY <1>0, <3>3, <3>7 DEF Todo, Removes
      <4>2. t.state = "latest" => p \notin Having(h, {"old"})
        BY <2>4, <3>7 DEF NotAsAsked
      <4>3. done.versions[p] \in {"old", "new"} /\ (t.state = "latest" => done.versions[p] = "new")
        BY <3>1, <3>2, <3>3, <3>7, <4>1, <4>2 DEF Versions
      <4> QED BY <3>7, <4>3 DEF VersionAsked
    <3> QED BY <1>0, <3>4, <3>5, <3>6, <3>7
  <2>5. ~NotAsAsked(t, h) => Promised(t, done)
    BY <2>4, VersionsPromised
  <2> HIDE DEF run
  <2>6. Good(t, h, run, loose)
    BY <1>0, <1>4, <2>2, <2>3, <2>5, GoodEnd
  <2> QED BY <2>6 DEF run
<1> QED BY <1>5, <1>6

LEMMA PackageGood ==
  ASSUME NEW t, NEW h, NEW check, Fits(t, h), t.module = "package"
  PROVE  Good(t, h, PackageRun(h, t, check), check)
<1>1. t.manager \in {"apt", "dnf", "yum", "apk"}
  BY DEF Fits, FitsServices
<1>2. Fits(t, Fresh(h))
  <2>1. Shelf(t, h) /\ \A x : Shelf(t, x) => Fits(t, x)
    BY ShelfFit
  <2>2. DOMAIN Fresh(h) = DOMAIN h /\ Fresh(h).versions = h.versions
    BY <2>1 DEF Fresh, Shelf
  <2> QED BY <2>1, <2>2 DEF Shelf
<1>3. Fitting(t, <<Quiet(Fresh(h))>>) /\ Fitting(t, <<Loud(Fresh(h))>>) /\ Fitting(t, <<>>)
  BY <1>2, FittingOne, LoudQuiet
<1>4. Fitting(t, Refresh(h, t))
  BY <1>3 DEF Refresh
<1>5. CASE t.names = {}
  <2> DEFINE run == PackageRun(h, t, check)
  <2>1. run \in {Changes(<<Loud(Fresh(h))>>), Unchanged, Ran(Refresh(h, t), t.update, FALSE)}
    BY <1>1, <1>5 DEF PackageRun, AptRun, DnfRun, YumRun, ApkRun, OnlyRefresh
  <2>2. Ran(Refresh(h, t), t.update, FALSE).trail = Refresh(h, t)
    BY DEF Ran
  <2>3. Changes(<<Loud(Fresh(h))>>).trail = <<Loud(Fresh(h))>> /\ Unchanged.trail = <<>>
    BY RunParts
  <2> HIDE DEF run
  <2>4. run.trail \in {<<Loud(Fresh(h))>>, <<>>, Refresh(h, t)}
    BY <2>1, <2>2, <2>3
  <2>5. Fitting(t, run.trail)
    BY <1>3, <1>4, <2>4
  <2>6. \A g : Promised(t, g)
    BY <1>5, VersionsPromised
  <2>7. Good(t, h, run, check)
    BY <2>5, <2>6, GoodAnyway
  <2> QED BY <2>7 DEF run
<1>6. CASE t.names # {} /\ ~check
  <2>1. \E changed : PackageRun(h, t, check) = Manage(h, t, changed)
    BY <1>1, <1>6 DEF PackageRun, AptRun, DnfRun, YumRun, ApkRun
  <2>2. PICK changed : PackageRun(h, t, check) = Manage(h, t, changed)
    BY <2>1
  <2>3. Good(t, h, Manage(h, t, changed), check)
    BY ManageGood
  <2> QED BY <2>2, <2>3
<1>7. CASE t.names # {} /\ check
  <2> DEFINE c == ForeseesPackages(h, t)
             run == PackageRun(h, t, check)
  <2>1. run \in {Reports(c), Ran(Refresh(h, t), TRUE, FALSE)}
    BY <1>1, <1>7 DEF PackageRun, AptRun, DnfRun, YumRun, ApkRun
  <2>2. Reports(c).trail = <<>>
    BY RunParts
  <2>3. Ran(Refresh(h, t), TRUE, FALSE).trail = Refresh(h, t)
    BY DEF Ran
  <2> HIDE DEF c, run
  <2>4. Fitting(t, run.trail)
    BY <1>3, <1>4, <2>1, <2>2, <2>3
  <2>5. Good(t, h, run, check)
    BY <1>7, <2>4 DEF Good
  <2> QED BY <2>5 DEF run
<1> QED BY <1>5, <1>6, <1>7

LEMMA PipGood ==
  ASSUME NEW t, NEW h, NEW check, Fits(t, h), t.module = "pip"
  PROVE  Good(t, h, PipRun(h, t, check), check)
<1> DEFINE creates == t.venv /\ ~h.venv
           made == [h EXCEPT !.venv = TRUE]
           first == IF creates THEN <<Loud(made)>> ELSE <<>>
           g == IF creates THEN made ELSE h
           version == IF t.version = "" THEN "new" ELSE t.version
           names == PipWanted(h, t)
           done == IF t.state = "absent" THEN WithVersions(g, t.names, "none") ELSE WithVersions(g, names, version)
           run == PipRun(h, t, check)
<1>1. /\ Shelf(t, h) /\ \A x : Shelf(t, x) => Fits(t, x)
      /\ t.version \in Versions \cup {""} /\ t.state \in {"present", "absent", "latest", "forcereinstall"}
  BY ShelfFit DEF Fits, FitsServices
<1>2. Shelf(t, made) /\ made.versions = h.versions
  <2>1. DOMAIN made = DOMAIN h /\ made.versions = h.versions
    BY <1>1 DEF Shelf
  <2> HIDE DEF made
  <2> QED BY <1>1, <2>1 DEF Shelf
<1> HIDE DEF made
<1>3. Shelf(t, g) /\ g.versions = h.versions
  BY <1>1, <1>2
<1>4. version \in Versions /\ "none" \in Versions
  BY <1>1 DEF Versions
<1>5. Fitting(t, first)
  <2>1. Fitting(t, <<Loud(made)>>) /\ Fitting(t, <<>>)
    BY <1>1, <1>2, FittingOne, LoudQuiet
  <2> QED BY <2>1
<1>6. Shelf(t, done)
  <2> HIDE DEF g, version, names
  <2>1. Shelf(t, WithVersions(g, t.names, "none")) /\ Shelf(t, WithVersions(g, names, version))
    BY <1>3, <1>4, ShelfKept
  <2> QED BY <2>1
<1>7. ASSUME NEW p \in t.names PROVE VersionAsked(t, done.versions[p])
  <2>1. h.versions[p] \in Versions /\ p \in DOMAIN h.versions
    BY <1>1 DEF Shelf
  <2>2. \A s : p \in Having(h, s) <=> h.versions[p] \in s
    BY <2>1 DEF Having
  <2>3. CASE t.state = "absent"
    <3> DEFINE x == WithVersions(g, t.names, "none")
    <3>1. done = x
      BY <2>3
    <3>2. x.versions[p] = IF p \in t.names THEN "none" ELSE g.versions[p]
      <4> HIDE DEF g
      <4> QED BY <1>3, VersionSet
    <3> HIDE DEF x, done
    <3>3. done.versions[p] = "none"
      BY <3>1, <3>2
    <3> QED BY <2>3, <3>3 DEF VersionAsked, Removes
  <2>4. CASE t.state # "absent"
    <3> DEFINE x == WithVersions(g, names, version)
    <3>1. done = x
      BY <2>4
    <3>2. x.versions[p] = IF p \in names THEN version ELSE g.versions[p]
      <4> HIDE DEF g, names, version
      <4> QED BY <1>3, VersionSet
    <3> HIDE DEF x, done, g
    <3>3. done.versions[p] = IF p \in names THEN version ELSE h.versions[p]
      BY <1>3, <3>1, <3>2
    <3>4. CASE t.version # ""
      <4>1. p \in names <=> h.versions[p] # t.version \/ t.state = "forcereinstall"
        BY <2>1, <3>4 DEF PipWanted
      <4>2. done.versions[p] = t.version
        BY <3>3, <3>4, <4>1
      <4> QED BY <1>1, <2>4, <3>4, <4>2 DEF VersionAsked, Removes
    <3>5. CASE t.version = "" /\ t.state \in {"latest", "forcereinstall"}
      <4>1. p \in names <=> h.versions[p] \in {"none", "old"}
        BY <2>2, <3>5 DEF PipWanted
      <4>2. done.versions[p] = "new"
        BY <2>1, <3>3, <3>5, <4>1 DEF Versions
      <4> QED BY <1>1, <2>4, <3>5, <4>2 DEF VersionAsked, Removes
    <3>6. CASE t.version = "" /\ t.state = "present"
      <4>1. p \in names <=> h.versions[p] \in {"none"}
        BY <2>2, <3>6 DEF PipWanted
      <4>2. done.versions[p] \in {"old", "new"}
        BY <2>1, <3>3, <3>6, <4>1 DEF Versions
      <4> QED BY <1>1, <2>4, <3>6, <4>2 DEF VersionAsked, Removes
    <3> QED BY <1>1, <2>4, <3>4, <3>5, <3>6
  <2> QED BY <2>3, <2>4
<1> HIDE DEF g, done
<1>8. Promised(t, done)
  BY <1>7, VersionsPromised
<1>9. CASE check
  <2> DEFINE c == PipForesees(h, t)
  <2>1. run = Reports(c)
    BY <1>9 DEF PipRun
  <2> HIDE DEF c, run
  <2>2. run.trail = <<>>
    BY <2>1, RunParts
  <2>3. Good(t, h, run, check)
    BY <1>9, <2>2, GoodIdle
  <2> QED BY <2>3 DEF run
<1>10. CASE ~check /\ creates /\ ~h.python
  <2>1. run = Ran(<<Loud(h)>>, FALSE, TRUE)
    BY <1>10 DEF PipRun
  <2> HIDE DEF run
  <2>2. run.trail = <<Loud(h)>> /\ run.failed
    BY <2>1 DEF Ran
  <2>3. Good(t, h, run, check)
    BY <2>2, GoodOne
  <2> QED BY <2>3 DEF run
<1>11. CASE ~check /\ ~(creates /\ ~h.python) /\ "ghost" \in t.names /\ t.state # "absent"
  <2>1. run = Ran(first \o <<Loud(g)>>, TRUE, TRUE)
    BY <1>11 DEF PipRun, g, made
  <2> HIDE DEF first, run
  <2>2. run.trail = first \o <<Loud(g)>> /\ run.failed
    BY <2>1 DEF Ran
  <2>3. Good(t, h, run, check)
    BY <1>1, <1>3, <1>5, <2>2, GoodEnd
  <2> QED BY <2>3 DEF run
<1>12. CASE ~check /\ ~(creates /\ ~h.python) /\ ~("ghost" \in t.names /\ t.state # "absent")
  <2> DEFINE c == creates \/ PipChanged(h, t)
  <2>1. run = Ran(first \o <<Loud(done)>>, c, FALSE)
    BY <1>12 DEF PipRun, done, g, made
  <2> HIDE DEF first, run, c
  <2>2. run.trail = first \o <<Loud(done)>>
    BY <2>1 DEF Ran
  <2>3. Good(t, h, run, check)
    BY <1>1, <1>5, <1>6, <1>8, <2>2, GoodEnd
  <2> QED BY <2>3 DEF run
<1> QED BY <1>9, <1>10, <1>11, <1>12

-----------------------------------------------------------------------------
(* Services                                                                *)

UnitHost(h) == {"active", "unit", "masked"} \subseteq DOMAIN h /\ h.active \in BOOLEAN /\ h.masked \in BOOLEAN

\* A task of the modules service and systemd, in the words that the code knows.
UnitTask(t) == /\ t.module \in {"service", "systemd"}
               /\ t.state \in {"", "started", "stopped", "restarted", "reloaded"}
               /\ t.enabled \in {"", "yes", "no"} /\ t.masked \in {"", "yes", "no"}

LEMMA UnitFit ==
  ASSUME NEW t, NEW g
  PROVE  /\ t.module \in {"service", "systemd"} /\ Fits(t, g) => UnitTask(t) /\ UnitHost(g)
         /\ UnitTask(t) /\ UnitHost(g) => Fits(t, g)
<1>1. ASSUME t.module \in {"service", "systemd"}, Fits(t, g) PROVE UnitTask(t) /\ UnitHost(g)
  BY <1>1 DEF Fits, FitsServices, UnitTask, UnitHost
<1>2. ASSUME UnitTask(t), UnitHost(g) PROVE Fits(t, g)
  <2>1. FitsServices(t, g)
    BY <1>2 DEF FitsServices, UnitTask, UnitHost
  <2> QED BY <1>2, <2>1, OtherFits DEF UnitTask
<1> QED BY <1>1, <1>2

\* What a step promises of the state, of the start at boot, and of the mask.
ActiveAsked(t, g) == /\ t.state \in {"started", "restarted", "reloaded"} => g.active
                     /\ t.state = "stopped" => ~g.active
BootAsked(t, g) == (t.enabled = "yes" => IsEnabled(g)) /\ (t.enabled = "no" => ~IsEnabled(g))
MaskAsked(t, g) == (t.masked = "yes" => g.masked) /\ (t.masked = "no" => ~g.masked)

LEMMA UnitPromised ==
  ASSUME NEW t, NEW g, UnitTask(t), UnitHost(g), ActiveAsked(t, g), BootAsked(t, g), MaskAsked(t, g)
  PROVE  Promised(t, g)
<1>1. t.masked # "" => g.masked = (t.masked = "yes")
  <2>1. CASE t.masked = "yes"
    BY <2>1 DEF MaskAsked, UnitHost
  <2>2. CASE t.masked = "no"
    BY <2>2 DEF MaskAsked, UnitHost
  <2> QED BY <2>1, <2>2 DEF UnitTask
<1>2. ServicePromised(t, g)
  BY <1>1 DEF ServicePromised, ActiveAsked, BootAsked, UnitTask
<1> QED BY <1>2 DEF Promised, UnitTask, ReadsBeforeItWrites

LEMMA StepIs == \A g, m, o : Step(g, m, o).host = g
BY DEF Step

LEMMA MaskIs ==
  ASSUME NEW t, NEW h, UnitTask(t), UnitHost(h), t.masked # ""
  PROVE  LET g == MaskStep(h, t.masked = "yes").host
         IN  UnitHost(g) /\ MaskAsked(t, g) /\ g.unit = h.unit
<1> DEFINE mask == t.masked = "yes"
           set == [h EXCEPT !.masked = mask]
           g == MaskStep(h, mask).host
<1>1. mask \in BOOLEAN
  OBVIOUS
<1>2. CASE h.masked = mask
  <2>1. g = h
    BY <1>2 DEF MaskStep, AsItIs, Step
  <2>2. MaskAsked(t, h)
    BY <1>2 DEF MaskAsked
  <2> HIDE DEF g
  <2>3. UnitHost(g) /\ MaskAsked(t, g) /\ g.unit = h.unit
    BY <2>1, <2>2
  <2> QED BY <2>3 DEF g
<1>3. CASE h.masked # mask
  <2>1. g = set
    BY <1>3 DEF MaskStep, Step
  <2>2. DOMAIN set = DOMAIN h /\ set.active = h.active /\ set.unit = h.unit /\ set.masked = mask
    BY DEF UnitHost
  <2> HIDE DEF g, set
  <2>3. g.masked = mask
    BY <2>1, <2>2
  <2>4. UnitHost(g)
    BY <1>1, <2>1, <2>2, <2>3 DEF UnitHost
  <2>5. MaskAsked(t, g)
    BY <2>3 DEF MaskAsked
  <2>6. g.unit = h.unit
    BY <2>1, <2>2
  <2> QED BY <2>4, <2>5, <2>6 DEF g
<1> QED BY <1>2, <1>3

LEMMA EnableIs ==
  ASSUME NEW t, NEW h, UnitTask(t), UnitHost(h), t.enabled # ""
  PROVE  LET s == EnableStep(h, t.enabled = "yes")
         IN  /\ UnitHost(s.host) /\ (MaskAsked(t, h) => MaskAsked(t, s.host))
             /\ s.ok /\ ~(t.enabled = "no" /\ h.unit = "static") => BootAsked(t, s.host)
<1> DEFINE on == t.enabled = "yes"
           s == EnableStep(h, on)
           unit == IF on THEN "enabled" ELSE "disabled"
           set == [h EXCEPT !.unit = unit]
<1>1. CASE IsEnabled(h) = on
  <2>1. s = AsItIs(h)
    BY <1>1 DEF EnableStep
  <2>2. s.host = h
    <3> HIDE DEF s
    <3> QED BY <2>1 DEF AsItIs, Step
  <2>3. BootAsked(t, h)
    BY <1>1 DEF BootAsked
  <2> HIDE DEF s
  <2> QED BY <2>2, <2>3 DEF s
<1>2. CASE IsEnabled(h) # on /\ h.masked
  <2>1. s = Step(h, TRUE, FALSE)
    BY <1>2 DEF EnableStep
  <2>2. s.host = h /\ ~s.ok
    <3> HIDE DEF s
    <3> QED BY <2>1 DEF Step
  <2> HIDE DEF s
  <2> QED BY <2>2 DEF s
<1>3. CASE IsEnabled(h) # on /\ ~h.masked /\ h.unit = "static"
  <2>1. s = Step(h, TRUE, TRUE)
    BY <1>3 DEF EnableStep
  <2>2. s.host = h
    <3> HIDE DEF s
    <3> QED BY <2>1 DEF Step
  <2>3. t.enabled = "no"
    BY <1>3 DEF IsEnabled, UnitTask
  <2> HIDE DEF s
  <2> QED BY <1>3, <2>2, <2>3 DEF s
<1>4. CASE IsEnabled(h) # on /\ ~h.masked /\ h.unit # "static"
  <2>1. s = Step(set, TRUE, TRUE)
    BY <1>4 DEF EnableStep
  <2>2. DOMAIN set = DOMAIN h /\ set.active = h.active /\ set.masked = h.masked /\ set.unit = unit
    BY DEF UnitHost
  <2> HIDE DEF set, s, unit
  <2>3. s.host = set
    BY <2>1, StepIs
  <2>4. UnitHost(set) /\ ~set.masked
    BY <1>4, <2>2 DEF UnitHost
  <2>5. MaskAsked(t, h) => MaskAsked(t, set)
    BY <1>4, <2>4 DEF MaskAsked
  <2>6. BootAsked(t, set)
    BY <2>2, <2>4 DEF BootAsked, IsEnabled, unit
  <2> QED BY <2>3, <2>4, <2>5, <2>6 DEF s
<1> QED BY <1>1, <1>2, <1>3, <1>4

LEMMA StateIs ==
  ASSUME NEW t, NEW h, UnitTask(t), UnitHost(h), t.state # ""
  PROVE  LET s == StateStep(h, t.state)
         IN  /\ UnitHost(s.host) /\ (MaskAsked(t, h) => MaskAsked(t, s.host)) /\ (BootAsked(t, h) => BootAsked(t, s.host))
             /\ s.ok => ActiveAsked(t, s.host)
<1> DEFINE s == StateStep(h, t.state)
           up == [h EXCEPT !.active = TRUE]
           down == [h EXCEPT !.active = FALSE]
           Keeps(g) == UnitHost(g) /\ (MaskAsked(t, h) => MaskAsked(t, g)) /\ (BootAsked(t, h) => BootAsked(t, g))
<1>0. t.state \in {"started", "stopped", "restarted", "reloaded"}
  BY DEF UnitTask
<1>1. Keeps(h)
  OBVIOUS
<1>2. ASSUME NEW g, DOMAIN g = DOMAIN h, g.active \in BOOLEAN, g.unit = h.unit, g.masked = h.masked PROVE Keeps(g)
  <2>1. g.masked <=> h.masked
    BY <1>2
  <2>2. UnitHost(g)
    BY <1>2 DEF UnitHost
  <2>3. MaskAsked(t, h) => MaskAsked(t, g)
    BY <2>1 DEF MaskAsked
  <2>4. BootAsked(t, h) => BootAsked(t, g)
    BY <1>2, <2>1 DEF BootAsked, IsEnabled
  <2> QED BY <2>2, <2>3, <2>4
<1>3. Keeps(up) /\ up.active
  <2>1. DOMAIN up = DOMAIN h /\ up.unit = h.unit /\ up.masked = h.masked
    BY DEF UnitHost
  <2>2. up.active /\ up.active \in BOOLEAN
    BY DEF UnitHost
  <2> HIDE DEF up, Keeps
  <2> QED BY <1>2, <2>1, <2>2
<1>4. Keeps(down) /\ ~down.active
  <2>1. DOMAIN down = DOMAIN h /\ down.unit = h.unit /\ down.masked = h.masked
    BY DEF UnitHost
  <2>2. ~down.active /\ down.active \in BOOLEAN
    BY DEF UnitHost
  <2> HIDE DEF down, Keeps
  <2> QED BY <1>2, <2>1, <2>2
<1> HIDE DEF up, down, Keeps
<1>5. ASSUME NEW g, Keeps(g), s.host = g, s.ok => ActiveAsked(t, g)
      PROVE  /\ UnitHost(s.host) /\ (MaskAsked(t, h) => MaskAsked(t, s.host)) /\ (BootAsked(t, h) => BootAsked(t, s.host))
             /\ s.ok => ActiveAsked(t, s.host)
  <2> HIDE DEF s
  <2> QED BY <1>5 DEF Keeps
<1>6. CASE t.state = "started" /\ h.active
  <2>1. s.host = h
    BY <1>6, StepIs DEF StateStep, AsItIs
  <2>2. ActiveAsked(t, h)
    BY <1>6 DEF ActiveAsked
  <2> QED BY <1>1, <1>5, <2>1, <2>2
<1>7. CASE t.state = "started" /\ ~h.active /\ h.masked
  <2>1. s.host = h /\ ~s.ok
    BY <1>7 DEF StateStep, Step
  <2> QED BY <1>1, <1>5, <2>1
<1>8. CASE t.state = "started" /\ ~h.active /\ ~h.masked
  <2>1. s.host = up
    BY <1>8, StepIs DEF StateStep, up
  <2>2. ActiveAsked(t, up)
    BY <1>3, <1>8 DEF ActiveAsked
  <2> QED BY <1>3, <1>5, <2>1, <2>2
<1>9. CASE t.state = "stopped" /\ h.active
  <2>1. s.host = down
    BY <1>9, StepIs DEF StateStep, down
  <2>2. ActiveAsked(t, down)
    BY <1>4, <1>9 DEF ActiveAsked
  <2> QED BY <1>4, <1>5, <2>1, <2>2
<1>10. CASE t.state = "stopped" /\ ~h.active
  <2>1. s.host = h
    BY <1>10, StepIs DEF StateStep, AsItIs
  <2>2. ActiveAsked(t, h)
    BY <1>10 DEF ActiveAsked
  <2> QED BY <1>1, <1>5, <2>1, <2>2
<1>11. CASE t.state = "restarted" /\ h.masked
  <2>1. s.host = h /\ ~s.ok
    BY <1>11 DEF StateStep, Step
  <2> QED BY <1>1, <1>5, <2>1
<1>12. CASE t.state = "restarted" /\ ~h.masked
  <2>1. s.host = up
    BY <1>12, StepIs DEF StateStep, up
  <2>2. ActiveAsked(t, up)
    BY <1>3, <1>12 DEF ActiveAsked
  <2> QED BY <1>3, <1>5, <2>1, <2>2
<1>13. CASE t.state = "reloaded"
  <2>1. s.host = h /\ s.ok = h.active
    BY <1>13 DEF StateStep, Step
  <2>2. s.ok <=> h.active
    <3> HIDE DEF s
    <3> QED BY <2>1
  <2>3. h.active => ActiveAsked(t, h)
    BY <1>13 DEF ActiveAsked
  <2> QED BY <1>1, <1>5, <2>1, <2>2, <2>3
<1> QED BY <1>0, <1>6, <1>7, <1>8, <1>9, <1>10, <1>11, <1>12, <1>13

\* The hosts of steps, as the commands of a run.
Hosts(steps) == [i \in DOMAIN steps |-> steps[i].host]

LEMMA SaidHosts ==
  ASSUME NEW steps, IsTrail(steps), NEW h
  PROVE  /\ IsTrail(Said(Hosts(steps))) /\ LoudEnd(Said(Hosts(steps)))
         /\ \A x \in Elems(Said(Hosts(steps))) : \E s \in Elems(steps) : x = Loud(s.host)
<1> DEFINE w == Hosts(steps)
           S == {s.host : s \in Elems(steps)}
<1>1. DOMAIN steps = 1..Len(steps) /\ Len(steps) \in Nat
  BY TrailLength
<1>2. w \in Seq(S)
  <2>1. w = [i \in 1..Len(steps) |-> steps[i].host]
    BY <1>1 DEF Hosts
  <2>2. \A i \in 1..Len(steps) : steps[i].host \in S
    BY <1>1 DEF Elems
  <2> HIDE DEF w, S
  <2> QED BY <1>1, <2>1, <2>2
<1>3. IsTrail(w)
  BY <1>2 DEF IsTrail
<1>4. \A y \in Elems(w) : \E s \in Elems(steps) : y = s.host
  BY <1>1 DEF Elems, Hosts
<1> HIDE DEF w
<1>5. IsTrail(Said(w))
  BY <1>3, SaidHushed
<1>6. LoudEnd(Said(w)) /\ \A x \in Elems(Said(w)) : \E y \in Elems(w) : x = Loud(y)
  BY <1>3, ElemsSaid
<1> QED BY <1>4, <1>5, <1>6 DEF w

LEMMA SaidHostsEnd ==
  ASSUME NEW steps, IsTrail(steps), NEW h
  PROVE  End(Said(Hosts(steps)), h) = End(steps, h)
<1> DEFINE w == Hosts(steps)
<1>1. DOMAIN steps = 1..Len(steps) /\ Len(steps) \in Nat /\ (steps = <<>> <=> Len(steps) = 0)
  BY TrailLength, TrailEmpty
<1>2. IsTrail(Said(w))
  BY SaidHosts
<1>3. Said(w) = [i \in DOMAIN steps |-> Loud(steps[i].host)]
  BY DEF Said, Hosts
<1> HIDE DEF w
<1>4. DOMAIN Said(w) = 1..Len(steps) /\ \A i \in 1..Len(steps) : Said(w)[i] = Loud(steps[i].host)
  BY <1>1, <1>3
<1>5. Len(Said(w)) = Len(steps)
  <2>1. DOMAIN Said(w) = 1..Len(Said(w)) /\ Len(Said(w)) \in Nat
    BY <1>2, TrailLength
  <2> QED BY <1>1, <1>4, <2>1
<1>6. Said(w) = <<>> <=> steps = <<>>
  BY <1>1, <1>2, <1>5, TrailEmpty
<1>7. steps # <<>> => Said(w)[Len(steps)].host = steps[Len(steps)].host
  BY <1>1, <1>4, LoudQuiet
<1>8. End(Said(w), h) = End(steps, h)
  BY <1>5, <1>6, <1>7 DEF End
<1> QED BY <1>8 DEF w

\* A run of steps behind a command that changes nothing.
LEMMA GoodSteps ==
  ASSUME NEW t, NEW h, NEW run, NEW loose, NEW a, NEW steps, Fitting(t, a), IsTrail(steps), steps # <<>>,
         \A s \in Elems(steps) : Fits(t, s.host), run.trail = a \o Said(Hosts(steps)),
         ~loose /\ ~NotAsAsked(t, h) /\ ~run.failed => \A g : Promised(t, End(steps, g))
  PROVE  Good(t, h, run, loose)
<1> DEFINE z == Said(Hosts(steps))
<1>1. IsTrail(z) /\ LoudEnd(z) /\ \A x \in Elems(z) : \E s \in Elems(steps) : x = Loud(s.host)
  BY SaidHosts
<1>2. \A g : End(z, g) = End(steps, g)
  BY SaidHostsEnd
<1>3. z # <<>>
  <2>1. DOMAIN z = DOMAIN steps
    BY DEF Said, Hosts
  <2>2. DOMAIN steps = 1..Len(steps) /\ Len(steps) \in Nat /\ (steps = <<>> <=> Len(steps) = 0)
    BY TrailLength, TrailEmpty
  <2> HIDE DEF z
  <2>3. DOMAIN z = 1..Len(z) /\ Len(z) \in Nat /\ (z = <<>> <=> Len(z) = 0)
    BY <1>1, TrailLength, TrailEmpty
  <2> QED BY <2>1, <2>2, <2>3
<1>4. run.trail = a \o z /\ IsTrail(a)
  BY DEF Fitting
<1> HIDE DEF z
<1>5. Fitting(t, z)
  BY <1>1, LoudQuiet DEF Fitting
<1>6. Fitting(t, run.trail)
  BY <1>4, <1>5, FittingJoin
<1>7. LoudEnd(run.trail)
  BY <1>1, <1>3, <1>4, EndJoin
<1>8. End(run.trail, h) = End(steps, End(a, h))
  <2>1. End(a \o z, h) = End(z, End(a, h))
    BY <1>1, <1>4, EndSplit
  <2> QED BY <1>2, <1>4, <2>1
<1>9. ~loose /\ ~NotAsAsked(t, h) /\ ~run.failed => Promised(t, End(run.trail, h))
  BY <1>8
<1> QED BY <1>6, <1>7, <1>9, GoodRun

\* A sequence of at most one step, which leads from the host to g.
Optional(s, h, g) == (s = <<>> /\ g = h) \/ \E x : s = <<x>> /\ g = x.host

LEMMA OptionalIs ==
  ASSUME NEW s, NEW h, NEW g, Optional(s, h, g)
  PROVE  IsTrail(s) /\ End(s, h) = g /\ \A x \in Elems(s) : x.host = g
<1>1. CASE s = <<>> /\ g = h
  BY <1>1, ShortTrails, ElemsShort, EndShort
<1>2. CASE \E x : s = <<x>> /\ g = x.host
  <2>1. PICK x : s = <<x>> /\ g = x.host
    BY <1>2
  <2> QED BY <2>1, ShortTrails, ElemsShort, EndOne
<1> QED BY <1>1, <1>2 DEF Optional

\* What was asked of the unit besides what cannot be had.
UnitAsked(t, h, g) == UnitHost(g) /\ (~StaysEnabled(t, h) => Promised(t, g))

LEMMA StepsRight ==
  ASSUME NEW t, NEW h, UnitTask(t), UnitHost(h)
  PROVE  /\ IsTrail(Steps(h, t)) /\ \A s \in Elems(Steps(h, t)) : Fits(t, s.host)
         /\ (\A s \in Elems(Steps(h, t)) : s.ok) => UnitAsked(t, h, End(Steps(h, t), h))
<1> DEFINE mask == IF t.masked = "" THEN <<>> ELSE <<MaskStep(h, t.masked = "yes")>>
           h1 == IF mask = <<>> THEN h ELSE mask[1].host
           enable == IF t.enabled = "" THEN <<>> ELSE <<EnableStep(h1, t.enabled = "yes")>>
           h2 == IF enable = <<>> THEN h1 ELSE enable[1].host
           state == IF t.state = "" THEN <<>> ELSE <<StateStep(h2, t.state)>>
           h3 == End(state, h2)
           steps == Steps(h, t)
<1>1. steps = mask \o enable \o state
  BY DEF Steps
<1>2. Optional(mask, h, h1) /\ UnitHost(h1) /\ MaskAsked(t, h1) /\ h1.unit = h.unit
  <2>1. CASE t.masked = ""
    <3>1. mask = <<>> /\ h1 = h
      BY <2>1
    <3>2. MaskAsked(t, h)
      BY <2>1 DEF MaskAsked
    <3> HIDE DEF mask, h1
    <3> QED BY <3>1, <3>2 DEF Optional
  <2>2. CASE t.masked # ""
    <3> DEFINE x == MaskStep(h, t.masked = "yes")
    <3>1. mask = <<x>> /\ h1 = x.host
      BY <2>2
    <3>2. UnitHost(x.host) /\ MaskAsked(t, x.host) /\ x.host.unit = h.unit
      BY <2>2, MaskIs
    <3> HIDE DEF mask, h1, x
    <3> QED BY <3>1, <3>2 DEF Optional
  <2> QED BY <2>1, <2>2
<1> HIDE DEF mask, h1
<1>3. /\ Optional(enable, h1, h2) /\ UnitHost(h2) /\ MaskAsked(t, h2)
      /\ (\A s \in Elems(enable) : s.ok) /\ ~StaysEnabled(t, h) => BootAsked(t, h2)
  <2>1. CASE t.enabled = ""
    <3>1. enable = <<>> /\ h2 = h1
      BY <2>1
    <3>2. BootAsked(t, h1)
      BY <2>1 DEF BootAsked
    <3> HIDE DEF enable, h2
    <3> QED BY <1>2, <3>1, <3>2 DEF Optional
  <2>2. CASE t.enabled # ""
    <3> DEFINE x == EnableStep(h1, t.enabled = "yes")
    <3>1. enable = <<x>> /\ h2 = x.host
      BY <2>2
    <3>2. UnitHost(x.host) /\ (MaskAsked(t, h1) => MaskAsked(t, x.host))
      BY <1>2, <2>2, EnableIs
    <3>3. x.ok /\ ~(t.enabled = "no" /\ h1.unit = "static") => BootAsked(t, x.host)
      BY <1>2, <2>2, EnableIs
    <3>4. Elems(<<x>>) = {x}
      BY ElemsShort
    <3> HIDE DEF enable, h2, x
    <3>5. (\A s \in Elems(enable) : s.ok) /\ ~StaysEnabled(t, h) => BootAsked(t, h2)
      BY <1>2, <3>1, <3>3, <3>4 DEF StaysEnabled
    <3> QED BY <1>2, <3>1, <3>2, <3>5 DEF Optional
  <2> QED BY <2>1, <2>2
<1> HIDE DEF enable, h2
<1>4. /\ Optional(state, h2, h3) /\ UnitHost(h3) /\ MaskAsked(t, h3) /\ (BootAsked(t, h2) => BootAsked(t, h3))
      /\ (\A s \in Elems(state) : s.ok) => ActiveAsked(t, h3)
  <2>1. CASE t.state = ""
    <3>1. state = <<>>
      BY <2>1
    <3> HIDE DEF state
    <3>2. h3 = h2
      BY <3>1, EndShort
    <3>3. ActiveAsked(t, h2)
      BY <2>1 DEF ActiveAsked
    <3> HIDE DEF h3
    <3> QED BY <1>3, <3>1, <3>2, <3>3 DEF Optional
  <2>2. CASE t.state # ""
    <3> DEFINE x == StateStep(h2, t.state)
    <3>1. state = <<x>>
      BY <2>2
    <3> HIDE DEF state
    <3>2. h3 = x.host
      BY <3>1, EndOne
    <3>3. /\ UnitHost(x.host) /\ (MaskAsked(t, h2) => MaskAsked(t, x.host)) /\ (BootAsked(t, h2) => BootAsked(t, x.host))
      BY <1>3, <2>2, StateIs
    <3>4. x.ok => ActiveAsked(t, x.host)
      BY <1>3, <2>2, StateIs
    <3>5. Elems(<<x>>) = {x}
      BY ElemsShort
    <3> HIDE DEF h3, x
    <3>6. (\A s \in Elems(state) : s.ok) => ActiveAsked(t, h3)
      BY <3>1, <3>2, <3>4, <3>5
    <3> QED BY <1>3, <3>1, <3>2, <3>3, <3>6 DEF Optional
  <2> QED BY <2>1, <2>2
<1> HIDE DEF state, h3
<1>5. /\ IsTrail(mask) /\ End(mask, h) = h1 /\ \A x \in Elems(mask) : x.host = h1
      /\ IsTrail(enable) /\ End(enable, h1) = h2 /\ \A x \in Elems(enable) : x.host = h2
      /\ IsTrail(state) /\ End(state, h2) = h3 /\ \A x \in Elems(state) : x.host = h3
  BY <1>2, <1>3, <1>4, OptionalIs
<1> DEFINE two == mask \o enable
<1>6. IsTrail(two) /\ End(two, h) = h2 /\ Elems(two) = Elems(mask) \cup Elems(enable)
  <2>1. End(mask \o enable, h) = End(enable, End(mask, h))
    BY <1>5, EndSplit
  <2>2. IsTrail(mask \o enable) /\ Elems(mask \o enable) = Elems(mask) \cup Elems(enable)
    BY <1>5, TrailsJoin, ElemsJoin
  <2> QED BY <1>5, <2>1, <2>2
<1> HIDE DEF two, steps
<1>7. steps = two \o state
  BY <1>1 DEF two
<1>8. IsTrail(steps) /\ End(steps, h) = h3 /\ Elems(steps) = Elems(two) \cup Elems(state)
  <2>1. End(two \o state, h) = End(state, End(two, h))
    BY <1>5, <1>6, EndSplit
  <2>2. IsTrail(two \o state) /\ Elems(two \o state) = Elems(two) \cup Elems(state)
    BY <1>5, <1>6, TrailsJoin, ElemsJoin
  <2> QED BY <1>5, <1>6, <1>7, <2>1, <2>2
<1>9. \A s \in Elems(steps) : Fits(t, s.host)
  <2>1. Fits(t, h1) /\ Fits(t, h2) /\ Fits(t, h3)
    BY <1>2, <1>3, <1>4, UnitFit
  <2> QED BY <1>5, <1>6, <1>8, <2>1
<1>10. ASSUME \A s \in Elems(steps) : s.ok PROVE UnitAsked(t, h, h3)
  <2>1. (\A s \in Elems(enable) : s.ok) /\ \A s \in Elems(state) : s.ok
    BY <1>6, <1>8, <1>10
  <2>2. ActiveAsked(t, h3) /\ (~StaysEnabled(t, h) => BootAsked(t, h3))
    BY <1>3, <1>4, <2>1
  <2>3. ~StaysEnabled(t, h) => Promised(t, h3)
    BY <1>4, <2>2, UnitPromised
  <2> QED BY <1>4, <2>3 DEF UnitAsked
<1> QED BY <1>8, <1>9, <1>10 DEF steps

LEMMA NoSteps ==
  ASSUME NEW t, NEW h, t.module \in {"service", "systemd"}, Steps(h, t) = <<>>
  PROVE  \A g : Promised(t, g)
<1> DEFINE mask == IF t.masked = "" THEN <<>> ELSE <<MaskStep(h, t.masked = "yes")>>
           h1 == IF mask = <<>> THEN h ELSE mask[1].host
           enable == IF t.enabled = "" THEN <<>> ELSE <<EnableStep(h1, t.enabled = "yes")>>
           h2 == IF enable = <<>> THEN h1 ELSE enable[1].host
           state == IF t.state = "" THEN <<>> ELSE <<StateStep(h2, t.state)>>
<1>1. mask \o enable \o state = <<>>
  BY DEF Steps
<1>2. IsTrail(mask) /\ (t.masked = "" \/ mask # <<>>)
  BY ShortTrails
<1> HIDE DEF mask, h1
<1>3. IsTrail(enable) /\ (t.enabled = "" \/ enable # <<>>)
  BY ShortTrails
<1> HIDE DEF enable, h2
<1>4. IsTrail(state) /\ (t.state = "" \/ state # <<>>)
  BY ShortTrails
<1> HIDE DEF state
<1>5. Len(mask) + Len(enable) + Len(state) = 0
  <2>1. IsTrail(mask \o enable) /\ Len(mask \o enable) = Len(mask) + Len(enable)
    BY <1>2, <1>3, TrailsJoin
  <2> DEFINE two == mask \o enable
  <2> HIDE DEF two
  <2>2. Len(two \o state) = Len(two) + Len(state) /\ IsTrail(two) /\ two \o state = <<>>
    BY <1>1, <1>4, <2>1, TrailsJoin DEF two
  <2>3. Len(<<>>) = 0
    OBVIOUS
  <2> QED BY <2>1, <2>2, <2>3 DEF two
<1>6. Len(mask) \in Nat /\ Len(enable) \in Nat /\ Len(state) \in Nat
  BY <1>2, <1>3, <1>4, TrailLength
<1>7. t.masked = "" /\ t.enabled = "" /\ t.state = ""
  <2>1. Len(mask) = 0 /\ Len(enable) = 0 /\ Len(state) = 0
    <3> DEFINE x == Len(mask)
               y == Len(enable)
               z == Len(state)
    <3> HIDE DEF x, y, z
    <3>1. x + y + z = 0 /\ x \in Nat /\ y \in Nat /\ z \in Nat
      BY <1>5, <1>6 DEF x, y, z
    <3>2. x = 0 /\ y = 0 /\ z = 0
      BY <3>1
    <3> QED BY <3>2 DEF x, y, z
  <2>5. mask = <<>> /\ enable = <<>> /\ state = <<>>
    BY <1>2, <1>3, <1>4, <2>1, TrailEmpty
  <2>2. t.masked = ""
    BY <1>2, <2>5
  <2>3. t.enabled = ""
    BY <1>3, <2>5
  <2>4. t.state = ""
    BY <1>4, <2>5
  <2> QED BY <2>2, <2>3, <2>4
<1>8. \A g : ServicePromised(t, g)
  BY <1>7 DEF ServicePromised
<1> QED BY <1>8 DEF Promised, ReadsBeforeItWrites

\* A run of steps fails when one of them does.
LEMMA MergedIs ==
  ASSUME NEW steps, NEW t
  PROVE  /\ MergeModuleResults(steps, t).trail = Said(Hosts(steps))
         /\ ~MergeModuleResults(steps, t).failed => \A s \in Elems(steps) : s.ok
<1> DEFINE c == t.local \/ \E i \in DOMAIN steps : steps[i].marks
           f == \E i \in DOMAIN steps : ~steps[i].ok
           run == MergeModuleResults(steps, t)
<1>1. run = Ran(Said(Hosts(steps)), c, f)
  BY DEF MergeModuleResults, Hosts
<1> HIDE DEF c, f, run
<1>2. run.trail = Said(Hosts(steps)) /\ (run.failed <=> f)
  BY <1>1 DEF Ran
<1>3. ~f => \A s \in Elems(steps) : s.ok
  BY DEF f, Elems
<1> QED BY <1>2, <1>3 DEF run

LEMMA ServiceGood ==
  ASSUME NEW t, NEW h, NEW check, Fits(t, h), t.module = "service"
  PROVE  Good(t, h, ServiceRun(h, t, check), check)
<1> DEFINE steps == Steps(h, t)
           reload == IF t.reload THEN <<Quiet(h)>> ELSE <<>>
           merged == MergeModuleResults(steps, t)
           run == ServiceRun(h, t, check)
<1>1. UnitTask(t) /\ UnitHost(h)
  BY UnitFit
<1>2. Fitting(t, reload)
  <2>1. Fitting(t, <<Quiet(h)>>) /\ Fitting(t, <<>>)
    BY FittingOne, LoudQuiet
  <2> QED BY <2>1
<1>3. \A r : After(reload, r).trail = reload \o r.trail /\ After(reload, r).failed = r.failed
  <2> HIDE DEF reload
  <2> QED BY DEF After
<1>4. CASE check
  <2> DEFINE c == ServiceForesees(h, t)
  <2>1. run = Reports(c)
    BY <1>4 DEF ServiceRun
  <2> HIDE DEF c, run
  <2>2. run.trail = <<>>
    BY <2>1, RunParts
  <2>3. Good(t, h, run, check)
    BY <1>4, <2>2, GoodIdle
  <2> QED BY <2>3 DEF run
<1>5. CASE ~check /\ steps = <<>>
  <2>1. run = After(reload, Status(h, t))
    BY <1>5 DEF ServiceRun
  <2>2. Status(h, t).trail = <<>>
    BY DEF Status, Ran
  <2>3. \A g : Promised(t, g)
    BY <1>5, NoSteps
  <2> HIDE DEF run, reload
  <2>4. run.trail = reload \o <<>>
    BY <1>3, <2>1, <2>2
  <2>5. Fitting(t, run.trail)
    <3>1. Fitting(t, <<>>)
      BY ElemsShort, ShortTrails DEF Fitting
    <3> QED BY <1>2, <2>4, ElemsShort, ShortTrails, FittingJoin DEF Fitting
  <2>6. Good(t, h, run, check)
    BY <2>3, <2>5, GoodAnyway
  <2> QED BY <2>6 DEF run
<1>6. CASE ~check /\ steps # <<>>
  <2>1. run = After(reload, merged)
    BY <1>6 DEF ServiceRun
  <2>2. merged.trail = Said(Hosts(steps)) /\ (~merged.failed => \A s \in Elems(steps) : s.ok)
    BY MergedIs
  <2>3. IsTrail(steps) /\ (\A s \in Elems(steps) : Fits(t, s.host)) /\ ((\A s \in Elems(steps) : s.ok) => UnitAsked(t, h, End(steps, h)))
    BY <1>1, StepsRight
  <2> HIDE DEF run, reload, merged, steps
  <2>4. run.trail = reload \o Said(Hosts(steps)) /\ run.failed = merged.failed
    BY <1>3, <2>1, <2>2
  <2>5. run.failed <=> merged.failed
    BY <2>4
  <2>6. ~NotAsAsked(t, h) => ~StaysEnabled(t, h)
    BY DEF NotAsAsked
  <2>7. \A g : End(steps, g) = End(steps, h)
    BY <1>6 DEF End
  <2>8. ~NotAsAsked(t, h) /\ ~run.failed => \A g : Promised(t, End(steps, g))
    <3> SUFFICES ASSUME ~NotAsAsked(t, h), ~run.failed, NEW g PROVE Promised(t, End(steps, g))
      OBVIOUS
    <3>1. Promised(t, End(steps, h))
      BY <2>2, <2>3, <2>5, <2>6 DEF UnitAsked
    <3>2. End(steps, g) = End(steps, h)
      BY <2>7
    <3> QED BY <3>1, <3>2
  <2>9. Good(t, h, run, check)
    BY <1>2, <1>6, <2>3, <2>4, <2>8, GoodSteps
  <2> QED BY <2>9 DEF run
<1> QED BY <1>4, <1>5, <1>6

LEMMA SystemdGood ==
  ASSUME NEW t, NEW h, NEW check, Fits(t, h), t.module = "systemd"
  PROVE  Good(t, h, SystemdRun(h, t, check), check)
<1> DEFINE own == Steps(h, t)
           step == Step(h, TRUE, TRUE)
           reload == IF t.reload THEN <<step>> ELSE <<>>
           steps == reload \o own
           merged == MergeModuleResults(steps, t)
           run == SystemdRun(h, t, check)
<1>1. UnitTask(t) /\ UnitHost(h)
  BY UnitFit
<1>2. step.host = h
  BY StepIs
<1> HIDE DEF step
<1>3. IsTrail(reload) /\ End(reload, h) = h /\ \A s \in Elems(reload) : s.host = h
  <2>1. Optional(reload, h, h)
    BY <1>2 DEF Optional
  <2> HIDE DEF reload
  <2> QED BY <2>1, OptionalIs
<1>4. IsTrail(own) /\ (\A s \in Elems(own) : Fits(t, s.host)) /\ ((\A s \in Elems(own) : s.ok) => UnitAsked(t, h, End(own, h)))
  BY <1>1, StepsRight
<1>5. CASE check
  <2> DEFINE c == SystemdForesees(h, t)
  <2>1. run = Reports(c)
    BY <1>5 DEF SystemdRun
  <2> HIDE DEF c, run
  <2>2. run.trail = <<>>
    BY <2>1, RunParts
  <2>3. Good(t, h, run, check)
    BY <1>5, <2>2, GoodIdle
  <2> QED BY <2>3 DEF run
<1>6. ASSUME steps = <<>> PROVE own = <<>>
  <2> HIDE DEF reload, own
  <2>1. Len(reload \o own) = Len(reload) + Len(own)
    BY <1>3, <1>4, TrailsJoin
  <2>2. Len(<<>>) = 0 /\ Len(reload) \in Nat /\ Len(own) \in Nat
    BY <1>3, <1>4, TrailLength
  <2> QED BY <1>4, <1>6, <2>1, <2>2, TrailEmpty
<1>7. CASE ~check /\ steps = <<>>
  <2>1. run = Status(h, t)
    BY <1>7 DEF SystemdRun, step
  <2>2. run.trail = <<>>
    <3> HIDE DEF run
    <3> QED BY <2>1 DEF Status, Ran
  <2>3. Promised(t, h)
    BY <1>6, <1>7, NoSteps
  <2> HIDE DEF run
  <2>4. Good(t, h, run, check)
    BY <2>2, <2>3, GoodIdle
  <2> QED BY <2>4 DEF run
<1>8. CASE ~check /\ steps # <<>>
  <2>1. run = merged
    BY <1>8 DEF SystemdRun, step
  <2>2. merged.trail = Said(Hosts(steps)) /\ (~merged.failed => \A s \in Elems(steps) : s.ok)
    BY MergedIs
  <2>3. IsTrail(steps) /\ Elems(steps) = Elems(reload) \cup Elems(own) /\ End(steps, h) = End(own, h)
    <3> HIDE DEF reload, own
    <3>1. End(reload \o own, h) = End(own, End(reload, h))
      BY <1>3, <1>4, EndSplit
    <3>2. IsTrail(reload \o own) /\ Elems(reload \o own) = Elems(reload) \cup Elems(own)
      BY <1>3, <1>4, TrailsJoin, ElemsJoin
    <3> QED BY <1>3, <3>1, <3>2
  <2> HIDE DEF run, reload, merged, steps, own
  <2>4. \A s \in Elems(steps) : Fits(t, s.host)
    BY <1>3, <1>4, <2>3
  <2>5. \A s : <<>> \o Said(Hosts(steps)) = Said(Hosts(steps))
    <3>1. IsTrail(Said(Hosts(steps)))
      BY <2>3, SaidHosts
    <3> DEFINE z == Said(Hosts(steps))
    <3> HIDE DEF z
    <3>2. IsTrail(z) => <<>> \o z = z
      BY DEF IsTrail
    <3> QED BY <3>1, <3>2 DEF z
  <2>6. run.trail = <<>> \o Said(Hosts(steps))
    BY <2>1, <2>2, <2>5
  <2>7. ~run.failed => \A s \in Elems(own) : s.ok
    BY <2>1, <2>2, <2>3
  <2>8. ~NotAsAsked(t, h) => ~StaysEnabled(t, h)
    BY DEF NotAsAsked
  <2>9. \A g : End(steps, g) = End(steps, h)
    BY <1>8 DEF End
  <2>10. ~NotAsAsked(t, h) /\ ~run.failed => \A g : Promised(t, End(steps, g))
    <3> SUFFICES ASSUME ~NotAsAsked(t, h), ~run.failed, NEW g PROVE Promised(t, End(steps, g))
      OBVIOUS
    <3>1. Promised(t, End(own, h))
      BY <1>4, <2>7, <2>8 DEF UnitAsked
    <3>2. End(steps, g) = End(own, h)
      BY <2>3, <2>9
    <3> QED BY <3>1, <3>2
  <2>11. Fitting(t, <<>>)
    BY ElemsShort, ShortTrails DEF Fitting
  <2>12. Good(t, h, run, check)
    BY <1>8, <2>3, <2>4, <2>6, <2>10, <2>11, GoodSteps
  <2> QED BY <2>12 DEF run
<1> QED BY <1>5, <1>7, <1>8

-----------------------------------------------------------------------------
(* git                                                                     *)

GitHost(h) == /\ {"dest", "origin", "main", "at", "dirty"} \subseteq DOMAIN h
              /\ h.dest \in {"none", "other", "repo"} /\ (h.dest = "none" => ~h.dirty)
GitTask(t) == t.module = "git" /\ t.state \in {"present", "absent"}

LEMMA GitFit ==
  ASSUME NEW t, NEW g
  PROVE  /\ t.module = "git" /\ Fits(t, g) => GitTask(t) /\ GitHost(g)
         /\ GitTask(t) /\ GitHost(g) => Fits(t, g)
<1>1. ASSUME t.module = "git", Fits(t, g) PROVE GitTask(t) /\ GitHost(g)
  BY <1>1 DEF Fits, FitsTransfers, GitTask, GitHost
<1>2. ASSUME GitTask(t), GitHost(g) PROVE Fits(t, g)
  <2>1. FitsTransfers(t, g)
    BY <1>2 DEF FitsTransfers, GitTask, GitHost
  <2> QED BY <1>2, <2>1, OtherFits DEF GitTask
<1> QED BY <1>1, <1>2

\* What is asked of a working copy.
CopyAsked(t, g) == /\ g.origin = t.repo
                   /\ t.version = "r1" => HeadOf(g) = "r1"
                   /\ t.version = "main" => g.at = "main" /\ (t.update => g.main = "r2")

LEMMA GitPromised ==
  ASSUME NEW t, NEW g, GitTask(t),
         IF t.state = "absent" THEN g.dest = "none" ELSE IF g.dest = "none" THEN ~t.clone ELSE CopyAsked(t, g)
  PROVE  Promised(t, g)
<1>1. TransferPromised(t, g)
  <2>1. CASE t.state = "absent"
    BY <2>1 DEF TransferPromised, GitTask
  <2>2. CASE t.state = "present" /\ g.dest = "none"
    BY <2>2 DEF TransferPromised, GitTask
  <2>3. CASE t.state = "present" /\ g.dest # "none"
    BY <2>3 DEF TransferPromised, CopyAsked, GitTask
  <2> QED BY <2>1, <2>2, <2>3 DEF GitTask
<1> QED BY <1>1 DEF Promised, GitTask, ReadsBeforeItWrites

LEMMA GitSteps ==
  ASSUME NEW t, NEW h, GitHost(h)
  PROVE  /\ GitHost(Gone(h)) /\ Gone(h).dest = "none"
         /\ GitHost(Cloned(h, t)) /\ Cloned(h, t).dest # "none" /\ (t.version # "r1" => CopyAsked(t, Cloned(h, t)))
<1>0. {"dest", "origin", "main", "at", "dirty"} \subseteq DOMAIN h
  BY DEF GitHost
<1>1. DOMAIN Gone(h) = DOMAIN h /\ Gone(h).dest = "none" /\ ~Gone(h).dirty
  BY <1>0 DEF Gone
<1>2. /\ DOMAIN Cloned(h, t) = DOMAIN h /\ Cloned(h, t).dest = "repo" /\ Cloned(h, t).origin = t.repo
      /\ Cloned(h, t).main = "r2" /\ Cloned(h, t).at = "main"
  BY <1>0 DEF Cloned
<1>3. GitHost(Gone(h))
  BY <1>0, <1>1 DEF GitHost
<1>4. GitHost(Cloned(h, t))
  BY <1>0, <1>2 DEF GitHost
<1>5. t.version # "r1" => CopyAsked(t, Cloned(h, t))
  BY <1>2 DEF CopyAsked
<1> QED BY <1>1, <1>2, <1>3, <1>4, <1>5

LEMMA UpdatedGood ==
  ASSUME NEW t, NEW h, NEW loose, GitTask(t), GitHost(h), t.state = "present", h.dest = "repo", h.origin = t.repo
  PROVE  Good(t, h, Updated(h, t), loose)
<1> DEFINE out == Checkout(h, t)
           new == IF Pulls(out, t) THEN Pull(out) ELSE out
           c == HeadOf(new) # HeadOf(h)
           run == Updated(h, t)
<1>0. {"dest", "origin", "main", "at", "dirty"} \subseteq DOMAIN h
  BY DEF GitHost
<1>1. /\ DOMAIN out = DOMAIN h /\ out.dest = h.dest /\ out.origin = h.origin /\ out.main = h.main /\ out.dirty = h.dirty
      /\ t.version # "" => out.at = t.version
  BY <1>0 DEF Checkout
<1>2. GitHost(out)
  <2> HIDE DEF out
  <2> QED BY <1>0, <1>1 DEF GitHost
<1> HIDE DEF out
<1>3. DOMAIN Pull(out) = DOMAIN out /\ Pull(out).dest = out.dest /\ Pull(out).origin = out.origin /\ Pull(out).main = "r2"
      /\ Pull(out).at = out.at
  BY <1>0, <1>1 DEF Pull
<1>4. GitHost(new) /\ new.dest = "repo" /\ new.origin = t.repo
  BY <1>0, <1>1, <1>2, <1>3 DEF GitHost
<1>5. CopyAsked(t, new)
  <2>1. CASE t.version = "r1"
    <3>1. new = out
      BY <2>1 DEF Pulls
    <3>2. HeadOf(out) = "r1"
      BY <1>1, <2>1 DEF HeadOf
    <3> HIDE DEF new
    <3> QED BY <1>4, <2>1, <3>1, <3>2 DEF CopyAsked
  <2>2. CASE t.version = "main"
    <3>1. out.at = "main"
      BY <1>1, <2>2
    <3>2. new.at = "main"
      BY <1>3, <3>1
    <3>3. t.update => new.main = "r2"
      BY <1>3, <2>2, <3>1 DEF Pulls
    <3> HIDE DEF new
    <3> QED BY <1>4, <2>2, <3>2, <3>3 DEF CopyAsked
  <2>3. CASE t.version \notin {"r1", "main"}
    <3> HIDE DEF new
    <3> QED BY <1>4, <2>3 DEF CopyAsked
  <2> QED BY <2>1, <2>2, <2>3
<1>6. run \in {ScriptFailed(h), ScriptFailed(out), Script(new, c)}
  BY DEF Updated, out
<1> HIDE DEF new, c
<1>7. Promised(t, new)
  BY <1>4, <1>5, GitPromised
<1>8. Fits(t, h) /\ Fits(t, out) /\ Fits(t, new)
  BY <1>2, <1>4, GitFit
<1>9. Good(t, h, ScriptFailed(h), loose) /\ Good(t, h, ScriptFailed(out), loose) /\ Good(t, h, Script(new, c), loose)
  BY <1>7, <1>8, GoodScripts
<1> HIDE DEF run
<1>10. Good(t, h, run, loose)
  BY <1>6, <1>9
<1> QED BY <1>10 DEF run

LEMMA GitGood ==
  ASSUME NEW t, NEW h, NEW check, Fits(t, h), t.module = "git"
  PROVE  Good(t, h, GitRun(h, t, check), check)
<1> DEFINE c == h.dest # "none"
           clone == Cloned(h, t)
           gone == Gone(h)
<1>1. GitTask(t) /\ GitHost(h)
  BY GitFit
<1>2. GitHost(gone) /\ gone.dest = "none" /\ GitHost(clone) /\ clone.dest # "none" /\ (t.version # "r1" => CopyAsked(t, clone))
  BY <1>1, GitSteps
<1> HIDE DEF clone, gone
<1>3. Fits(t, gone) /\ Fits(t, clone)
  BY <1>1, <1>2, GitFit
<1>4. CASE t.state = "absent"
  <2>1. GitRun(h, t, check) = Script(gone, c)
    BY <1>4 DEF GitRun, gone
  <2>2. Promised(t, gone)
    BY <1>1, <1>2, <1>4, GitPromised
  <2> HIDE DEF c
  <2> QED BY <1>3, <2>1, <2>2, GoodScripts
<1>5. CASE t.state = "present" /\ h.dest = "other"
  <2>1. GitRun(h, t, check) = ScriptFailed(h)
    BY <1>5 DEF GitRun
  <2> QED BY <2>1, GoodScripts
<1>6. Good(t, h, ScriptFailed(h), check) /\ Good(t, h, ScriptFailed(gone), check)
  BY <1>3, GoodScripts
<1>7. t.state = "present" /\ (h.dest = "none" \/ h.origin # t.repo) => Good(t, h, Script(clone, TRUE), check)
  <2> SUFFICES ASSUME t.state = "present", h.dest = "none" \/ h.origin # t.repo
               PROVE  Good(t, h, Script(clone, TRUE), check)
    OBVIOUS
  <2>1. NotAsAsked(t, h) \/ t.version # "r1"
    BY DEF NotAsAsked
  <2>2. ~NotAsAsked(t, h) => Promised(t, clone)
    BY <1>1, <1>2, <2>1, GitPromised
  <2> QED BY <1>3, <2>2, GoodScripts
<1>8. CASE t.state = "present" /\ h.dest = "none"
  <2>1. CASE ~t.clone
    <3>1. GitRun(h, t, check) = Script(h, FALSE)
      BY <1>8, <2>1 DEF GitRun
    <3>2. Promised(t, h)
      BY <1>1, <1>8, <2>1, GitPromised
    <3> QED BY <3>1, <3>2, GoodScripts
  <2>2. CASE t.clone
    <3>1. GitRun(h, t, check) \in {Script(clone, TRUE), ScriptFailed(h)}
      BY <1>8, <2>2 DEF GitRun, clone
    <3> QED BY <1>6, <1>7, <1>8, <3>1
  <2> QED BY <2>1, <2>2
<1>9. CASE t.state = "present" /\ h.dest = "repo" /\ h.origin # t.repo
  <2>1. GitRun(h, t, check) \in {ScriptFailed(h), Script(clone, TRUE), ScriptFailed(gone)}
    BY <1>9 DEF GitRun, clone, gone
  <2> QED BY <1>6, <1>7, <1>9, <2>1
<1>10. CASE t.state = "present" /\ h.dest = "repo" /\ h.origin = t.repo
  <2>1. GitRun(h, t, check) = Updated(h, t)
    BY <1>10 DEF GitRun
  <2> QED BY <1>1, <1>10, <2>1, UpdatedGood
<1> QED BY <1>1, <1>4, <1>5, <1>8, <1>9, <1>10 DEF GitTask, GitHost

-----------------------------------------------------------------------------
(* archive, tempfile, command, shell and uri                               *)

LEMMA ArchiveGood ==
  ASSUME NEW t, NEW h, NEW check, Fits(t, h), t.module = "archive"
  PROVE  Good(t, h, ArchiveRun(h, t, check), check)
<1> DEFINE packed == [kind |-> "archive", holds |-> t.paths \cap h.here]
           moved == [h EXCEPT !.pack = packed, !.bak = IF t.backup THEN h.pack ELSE @,
                              !.here = IF t.remove THEN @ \ t.paths ELSE @]
           run == ArchiveRun(h, t, check)
<1>1. {"here", "pack", "bak"} \subseteq DOMAIN h
  BY DEF Fits, FitsTransfers
<1>2. /\ DOMAIN moved = DOMAIN h /\ moved.pack = packed
      /\ moved.here = (IF t.remove THEN h.here \ t.paths ELSE h.here)
  BY <1>1
<1>3. \A g : Promised(t, g) <=> g.pack.holds = t.paths /\ (t.remove => t.paths \cap g.here = {})
  BY DEF Promised, TransferPromised, ReadsBeforeItWrites
<1>4. CASE check
  <2>1. run = Reports(TRUE)
    BY <1>4 DEF ArchiveRun
  <2> QED BY <1>4, <2>1, RunParts, GoodIdle
<1>5. CASE ~check
  <2>1. run = IF ~t.piped /\ ~(t.paths \subseteq h.here) THEN ScriptFailed(h)
              ELSE IF h.pack = packed THEN Script(h, FALSE)
              ELSE IF t.owner \notin Owners \cup {""} THEN ScriptFailed(moved)
              ELSE Script(moved, TRUE)
    BY <1>5 DEF ArchiveRun, ArchiveScript
  <2> HIDE DEF moved, run
  <2>2. Fits(t, moved)
    <3>1. FitsTransfers(t, moved)
      BY <1>1, <1>2 DEF FitsTransfers
    <3> QED BY <3>1, OtherFits
  <2>3. CASE t.piped
    <3>1. NotAsAsked(t, h)
      BY <2>3 DEF NotAsAsked
    <3>2. \A c : Good(t, h, ScriptFailed(h), check) /\ Good(t, h, Script(h, c), check) /\ Good(t, h, ScriptFailed(moved), check) /\ Good(t, h, Script(moved, c), check)
      BY <2>2, <3>1, GoodScripts
    <3> HIDE DEF packed
    <3>3. Good(t, h, run, check)
      BY <2>1, <3>2
    <3> QED BY <3>3 DEF run
  <2>4. CASE ~t.piped /\ t.paths \subseteq h.here
    <3>1. packed.holds = t.paths
      BY <2>4
    <3>2. Promised(t, moved)
      <4>1. t.remove => t.paths \cap moved.here = {}
        BY <1>2
      <4>2. moved.pack.holds = t.paths
        BY <1>2, <3>1
      <4> QED BY <1>3, <4>1, <4>2
    <3> HIDE DEF packed
    <3>3. h.pack = packed /\ ~NotAsAsked(t, h) => Promised(t, h)
      <4> SUFFICES ASSUME h.pack = packed, ~NotAsAsked(t, h) PROVE Promised(t, h)
        OBVIOUS
      <4>1. ~t.remove /\ h.pack.holds = t.paths
        BY <3>1 DEF NotAsAsked
      <4> QED BY <1>3, <4>1
    <3>4. CASE h.pack = packed
      <4>1. run = Script(h, FALSE)
        BY <2>1, <2>4, <3>4
      <4>2. Good(t, h, run, check)
        BY <3>3, <3>4, <4>1, GoodScripts
      <4> QED BY <4>2 DEF run
    <3>5. CASE h.pack # packed
      <4>1. run = ScriptFailed(moved) \/ run = Script(moved, TRUE)
        BY <2>1, <2>4, <3>5
      <4>2. Good(t, h, run, check)
        BY <2>2, <3>2, <4>1, GoodScripts
      <4> QED BY <4>2 DEF run
    <3> QED BY <3>4, <3>5
  <2>5. CASE ~t.piped /\ ~(t.paths \subseteq h.here)
    <3>1. run = ScriptFailed(h)
      BY <2>1, <2>5
    <3>2. Good(t, h, run, check)
      BY <3>1, GoodScripts
    <3> QED BY <3>2 DEF run
  <2> QED BY <2>3, <2>4, <2>5
<1> QED BY <1>4, <1>5

LEMMA TempfileGood ==
  ASSUME NEW t, NEW h, NEW check, Fits(t, h), t.module = "tempfile"
  PROVE  Good(t, h, TempfileRun(h, t, check), check)
<1> DEFINE made == [h EXCEPT !.made = @ + 1]
           run == TempfileRun(h, t, check)
<1>1. "made" \in DOMAIN h /\ h.made \in Nat
  BY DEF Fits, FitsTransfers
<1>2. DOMAIN made = DOMAIN h /\ made.made = h.made + 1
  BY <1>1
<1>3. CASE check
  <2>1. run = Reports(TRUE)
    BY <1>3 DEF TempfileRun
  <2> QED BY <1>3, <2>1, RunParts, GoodIdle
<1>4. CASE ~check /\ ~h.writable
  <2>1. run = Script(h, TRUE) /\ NotAsAsked(t, h)
    BY <1>4 DEF TempfileRun, NotAsAsked
  <2> QED BY <2>1, GoodScripts
<1>5. CASE ~check /\ h.writable
  <2>1. run = Script(made, TRUE)
    BY <1>5 DEF TempfileRun
  <2> HIDE DEF made
  <2>2. FitsTransfers(t, made)
    BY <1>1, <1>2 DEF FitsTransfers
  <2>3. Fits(t, made)
    BY <2>2, OtherFits
  <2>4. made.made > 0
    BY <1>1, <1>2
  <2>5. Promised(t, made)
    BY <2>4 DEF Promised, TransferPromised, ReadsBeforeItWrites
  <2> HIDE DEF run
  <2>6. Good(t, h, run, check)
    BY <2>1, <2>3, <2>5, GoodScripts
  <2> QED BY <2>6 DEF run
<1> QED BY <1>3, <1>4, <1>5

LEMMA CommandGood ==
  ASSUME NEW t, NEW h, NEW check, Fits(t, h), t.module \in {"command", "shell", "uri"}
  PROVE  Good(t, h, CommandRun(h, t, check), check) /\ Good(t, h, UriRun(h, t, check), check)
<1> DEFINE did == [h EXCEPT !.here = (@ \ {"used"}) \cup {"made"}]
<1>1. \A g : Promised(t, g)
  BY DEF Promised, TransferPromised, ReadsBeforeItWrites
<1>2. Fits(t, did)
  <2>1. "here" \in DOMAIN h => "here" \in DOMAIN did
    OBVIOUS
  <2> HIDE DEF did
  <2>2. FitsTransfers(t, did)
    BY <2>1 DEF Fits, FitsTransfers
  <2> QED BY <2>2, OtherFits
<1>3. CommandRun(h, t, check) \in {Unchanged, Refused, ScriptFailed(h), Script(did, t.local)}
  BY DEF CommandRun
<1> HIDE DEF did
<1>4. Good(t, h, Unchanged, check) /\ Good(t, h, Refused, check)
  <2>1. Unchanged.trail = <<>> /\ Refused.trail = <<>>
    BY DEF Unchanged, Refused, Reports, Ran
  <2> QED BY <1>1, <2>1, GoodIdle
<1>5. Good(t, h, ScriptFailed(h), check) /\ Good(t, h, Script(did, t.local), check)
  BY <1>1, <1>2, GoodScripts
<1>6. UriRun(h, t, check).trail = <<>>
  BY DEF UriRun, Ran
<1>7. Good(t, h, UriRun(h, t, check), check)
  BY <1>1, <1>6, GoodIdle
<1> QED BY <1>3, <1>4, <1>5, <1>7

-----------------------------------------------------------------------------
(* synchronize and docker_container                                        *)

TreeHost(h) == "dest" \in DOMAIN h /\ IsMap(h.dest) /\ DOMAIN h.src = DOMAIN h.dest

LEMMA SynchronizeGood ==
  ASSUME NEW t, NEW h, NEW check, Fits(t, h), t.module = "synchronize"
  PROVE  Good(t, h, SynchronizeRun(h, t, check), check)
<1> DEFINE new1 == [f \in DOMAIN h.dest |-> IF f \in Sent(h, t) THEN h.src[f] ELSE h.dest[f]]
           sent == [h EXCEPT !.dest = [f \in DOMAIN @ |-> IF f \in Sent(h, t) THEN h.src[f] ELSE @[f]]]
           new2 == [f \in DOMAIN sent.dest |-> IF f \in Deleted(h, t) THEN "none" ELSE sent.dest[f]]
           done == [sent EXCEPT !.dest = [f \in DOMAIN @ |-> IF f \in Deleted(h, t) THEN "none" ELSE @[f]]]
           run == SynchronizeRun(h, t, check)
<1>1. TreeHost(h)
  BY DEF Fits, FitsTransfers, TreeHost
<1>2. \A g : TreeHost(g) => Fits(t, g)
  <2> SUFFICES ASSUME NEW g, TreeHost(g) PROVE Fits(t, g)
    OBVIOUS
  <2>1. FitsTransfers(t, g)
    BY DEF FitsTransfers, TreeHost
  <2> QED BY <2>1, OtherFits
<1>3. DOMAIN sent = DOMAIN h /\ sent.dest = new1
  BY <1>1 DEF TreeHost
<1>4. sent.src = h.src
  BY <1>1 DEF TreeHost
<1>5. run \in {Refused, Reports(RsyncChanged(h, t)), Ran(<<Loud(sent), Loud(done)>>, RsyncChanged(h, t), FALSE)}
      /\ (check => run \in {Refused, Reports(RsyncChanged(h, t))})
  BY DEF SynchronizeRun
<1> HIDE DEF sent
<1>6. DOMAIN done = DOMAIN sent /\ done.dest = new2 /\ done.src = sent.src
  BY <1>1, <1>3 DEF TreeHost
<1> HIDE DEF done
<1>7. TreeHost(sent) /\ TreeHost(done)
  <2>1. TreeHost(sent)
    BY <1>1, <1>3, <1>4 DEF TreeHost, IsMap
  <2>2. IsMap(new2) /\ DOMAIN new2 = DOMAIN sent.dest
    BY DEF IsMap
  <2> HIDE DEF new2
  <2>3. TreeHost(done)
    BY <1>6, <2>1, <2>2 DEF TreeHost
  <2> QED BY <2>1, <2>3
<1>8. DOMAIN new1 = DOMAIN h.src /\ DOMAIN done.dest = DOMAIN h.src
  BY <1>1, <1>3, <1>6 DEF TreeHost
<1>9. \A f \in DOMAIN h.src : /\ done.dest[f] = IF f \in Deleted(h, t) THEN "none" ELSE IF f \in Sent(h, t) THEN h.src[f] ELSE h.dest[f]
  <2> SUFFICES ASSUME NEW f \in DOMAIN h.src
               PROVE done.dest[f] = IF f \in Deleted(h, t) THEN "none" ELSE IF f \in Sent(h, t) THEN h.src[f] ELSE h.dest[f]
    OBVIOUS
  <2>1. f \in DOMAIN h.dest /\ f \in DOMAIN sent.dest
    BY <1>1, <1>3 DEF TreeHost
  <2>2. sent.dest[f] = IF f \in Sent(h, t) THEN h.src[f] ELSE h.dest[f]
    BY <1>3, <2>1
  <2>3. new2[f] = IF f \in Deleted(h, t) THEN "none" ELSE sent.dest[f]
    BY <2>1
  <2> HIDE DEF new2
  <2> QED BY <1>6, <2>2, <2>3
<1>10. done.src = h.src
  BY <1>4, <1>6
<1> HIDE DEF new1, new2
<1>11. Promised(t, done)
  <2>1. ASSUME NEW f \in DOMAIN h.src PROVE f \notin Sent(done, t) /\ f \notin Deleted(done, t)
    BY <1>9, <1>10 DEF Sent, Deleted
  <2>2. Sent(done, t) \cup Deleted(done, t) = {}
    BY <1>10, <2>1 DEF Sent, Deleted
  <2> QED BY <2>2 DEF Promised, TransferPromised, ReadsBeforeItWrites
<1>12. Good(t, h, Refused, check)
  <2>1. Refused.trail = <<>> /\ Refused.failed
    BY DEF Refused, Ran
  <2> QED BY <2>1, GoodIdle
<1>13. check => Good(t, h, Reports(RsyncChanged(h, t)), check)
  BY RunParts, GoodIdle
<1>14. Good(t, h, Ran(<<Loud(sent), Loud(done)>>, RsyncChanged(h, t), FALSE), check)
  <2> DEFINE r == Ran(<<Loud(sent), Loud(done)>>, RsyncChanged(h, t), FALSE)
  <2>1. r.trail = <<Loud(sent), Loud(done)>>
    BY DEF Ran
  <2> HIDE DEF r
  <2>2. Good(t, h, r, check)
    BY <1>2, <1>7, <1>11, <2>1, GoodTwo, LoudQuiet
  <2> QED BY <2>2 DEF r
<1>15. ~check /\ run # Refused => run = Ran(<<Loud(sent), Loud(done)>>, RsyncChanged(h, t), FALSE)
  BY DEF SynchronizeRun, sent, done
<1> HIDE DEF run
<1>16. Good(t, h, run, check)
  BY <1>5, <1>12, <1>13, <1>14, <1>15
<1> QED BY <1>16 DEF run

IsBox(b) == b = [image |-> b.image, conf |-> b.conf, runs |-> b.runs]
BoxHost(h) == {"box", "pulled"} \subseteq DOMAIN h /\ IsBox(h.box) /\ (h.box = NoContainer \/ h.box.image # "")
BoxAsked(t, b) == /\ b # NoContainer /\ t.image \in {"", b.image}
                  /\ t.image # "" => b.conf = t.conf
                  /\ t.state # "present" => b.runs = (t.state # "stopped")
Boxed(g, h, b) == DOMAIN g = DOMAIN h /\ g.box = b

LEMMA BoxFit ==
  ASSUME NEW t, NEW g, NEW h, Fits(t, h), t.module = "docker_container"
  PROVE  /\ BoxHost(h) /\ t.state \in {"present", "started", "stopped", "restarted", "absent"}
         /\ BoxHost(g) => Fits(t, g)
         /\ Promised(t, g) <=> IF t.state = "absent" THEN g.box = NoContainer ELSE BoxAsked(t, g.box)
<1>1. BoxHost(h) /\ t.state \in {"present", "started", "stopped", "restarted", "absent"}
  BY DEF Fits, FitsTransfers, BoxHost, IsBox
<1>2. ASSUME BoxHost(g) PROVE Fits(t, g)
  <2>1. FitsTransfers(t, g)
    BY <1>1, <1>2 DEF FitsTransfers, BoxHost, IsBox
  <2> QED BY <2>1, OtherFits
<1>3. Promised(t, g) <=> IF t.state = "absent" THEN g.box = NoContainer ELSE BoxAsked(t, g.box)
  BY DEF Promised, TransferPromised, BoxAsked, ReadsBeforeItWrites
<1> QED BY <1>1, <1>2, <1>3

LEMMA BoxInState ==
  ASSUME NEW b, NEW state, IsBox(b)
  PROVE  LET c == InState(b, state)
         IN  /\ IsBox(c) /\ c.image = b.image /\ c.conf = b.conf
             /\ state # "present" => c.runs = (state # "stopped")
<1> DEFINE c == InState(b, state)
           on == CASE state = "present" -> b.runs [] state = "stopped" -> FALSE [] OTHER -> TRUE
<1> DEFINE r == [image |-> b.image, conf |-> b.conf, runs |-> b.runs]
<1>0. b = r
  BY DEF IsBox
<1>1. c = [image |-> b.image, conf |-> b.conf, runs |-> on]
  <2>1. c = [b EXCEPT !.runs = on]
    BY DEF InState
  <2> HIDE DEF on, c
  <2>2. [r EXCEPT !.runs = on] = [image |-> b.image, conf |-> b.conf, runs |-> on]
    OBVIOUS
  <2> HIDE DEF r
  <2> QED BY <1>0, <2>1, <2>2
<1>2. state # "present" => on = (state # "stopped")
  OBVIOUS
<1> HIDE DEF c, on
<1>3. IsBox(c) /\ c.image = b.image /\ c.conf = b.conf
  BY <1>1 DEF IsBox
<1>4. c.runs = on
  BY <1>1
<1>5. state # "present" => c.runs = (state # "stopped")
  BY <1>2, <1>4
<1> QED BY <1>3, <1>5 DEF c

LEMMA BoxMade ==
  ASSUME NEW t
  PROVE  IsBox(Container(t)) /\ Container(t).image = t.image /\ Container(t).conf = t.conf /\ IsBox(NoContainer)
         /\ NoContainer.image = ""
BY DEF Container, IsBox, NoContainer

LEMMA DockerContainerGood ==
  ASSUME NEW t, NEW h, NEW check, Fits(t, h), t.module = "docker_container"
  PROVE  Good(t, h, DockerContainerRun(h, t, check), check)
<1> DEFINE exists == h.box # NoContainer
           pulls == t.pull /\ t.image # ""
           h1 == IF pulls THEN [h EXCEPT !.pulled = "new"] ELSE h
           recreate == t.recreate \/ (t.image # "" /\ t.image # h.box.image)
           gone == [h1 EXCEPT !.box = NoContainer]
           old == IF exists /\ ~recreate THEN h.box ELSE Container(t)
           box == InState(old, t.state)
           new == [h1 EXCEPT !.box = box]
           c == new # h \/ (exists /\ t.recreate) \/ t.state = "restarted"
           run == DockerContainerRun(h, t, check)
<1>1. BoxHost(h) /\ t.state \in {"present", "started", "stopped", "restarted", "absent"} /\ \A g : BoxHost(g) => Fits(t, g)
  BY BoxFit
<1>2. \A g : Promised(t, g) <=> IF t.state = "absent" THEN g.box = NoContainer ELSE BoxAsked(t, g.box)
  BY BoxFit
<1>3. /\ pulls /\ t.image = "bad" => run = ScriptFailed(h)
      /\ t.state = "absent" /\ (pulls => t.image # "bad") => run = Script(gone, gone # h)
      /\ t.state # "absent" /\ (~exists \/ recreate) /\ t.image \in {"", "bad"} /\ (pulls => t.image # "bad") => run = ScriptFailed(gone)
      /\ t.state # "absent" /\ (pulls => t.image # "bad") /\ ~((~exists \/ recreate) /\ t.image \in {"", "bad"}) => run = Script(new, c)
  BY DEF DockerContainerRun
<1>4. {"box", "pulled"} \subseteq DOMAIN h1 /\ h1.box = h.box
  BY <1>1 DEF BoxHost
<1> HIDE DEF h1, run
<1>5. Boxed(gone, h1, NoContainer) /\ Boxed(new, h1, box)
  BY <1>4 DEF Boxed
<1> HIDE DEF gone, new
<1>6. BoxHost(gone) /\ gone.box = NoContainer
  BY <1>4, <1>5, BoxMade DEF Boxed, BoxHost
<1>7. IsBox(old)
  BY <1>1, BoxMade DEF BoxHost
<1> HIDE DEF box
<1>8. /\ IsBox(box) /\ box.image = old.image /\ box.conf = old.conf
      /\ t.state # "present" => box.runs = (t.state # "stopped")
  <2> HIDE DEF old
  <2> QED BY <1>7, BoxInState DEF box
<1>9. ASSUME t.state # "absent", ~((~exists \/ recreate) /\ t.image \in {"", "bad"})
      PROVE  BoxHost(new) /\ (~NotAsAsked(t, h) => Promised(t, new))
  <2>1. old.image # "" /\ t.image \in {"", old.image}
    <3>1. CASE exists /\ ~recreate
      BY <1>1, <3>1 DEF BoxHost
    <3>2. CASE ~(exists /\ ~recreate)
      BY <1>9, <3>2, BoxMade
    <3> QED BY <3>1, <3>2
  <2>2. ASSUME ~NotAsAsked(t, h), t.image # "" PROVE old.conf = t.conf
    <3>1. CASE exists /\ ~recreate
      <4>1. t.image = h.box.image
        BY <2>2, <3>1
      <4>2. t.conf = h.box.conf
        BY <2>2, <4>1 DEF NotAsAsked
      <4> QED BY <3>1, <4>2
    <3>2. CASE ~(exists /\ ~recreate)
      BY <3>2, BoxMade
    <3> QED BY <3>1, <3>2
  <2> HIDE DEF old
  <2>3. BoxHost(new) /\ new.box = box
    BY <1>4, <1>5, <1>8, <2>1 DEF Boxed, BoxHost
  <2>4. box # NoContainer
    BY <1>8, <2>1, BoxMade
  <2>5. ASSUME ~NotAsAsked(t, h) PROVE BoxAsked(t, box)
    BY <1>8, <2>1, <2>2, <2>4, <2>5 DEF BoxAsked
  <2> QED BY <1>2, <1>9, <2>3, <2>5
<1> HIDE DEF old, exists, recreate, c
<1>10. Good(t, h, ScriptFailed(h), check) /\ Good(t, h, ScriptFailed(gone), check)
  BY <1>1, <1>6, GoodScripts
<1>11. t.state = "absent" => \A x : Good(t, h, Script(gone, x), check)
  BY <1>1, <1>2, <1>6, GoodScripts
<1>12. t.state # "absent" /\ ~((~exists \/ recreate) /\ t.image \in {"", "bad"}) => \A x : Good(t, h, Script(new, x), check)
  BY <1>1, <1>9, GoodScripts
<1>13. Good(t, h, run, check)
  <2>1. CASE pulls /\ t.image = "bad"
    BY <1>3, <1>10, <2>1
  <2>2. CASE (pulls => t.image # "bad") /\ t.state = "absent"
    BY <1>3, <1>11, <2>2
  <2>3. CASE (pulls => t.image # "bad") /\ t.state # "absent" /\ (~exists \/ recreate) /\ t.image \in {"", "bad"}
    BY <1>3, <1>10, <2>3
  <2>4. CASE (pulls => t.image # "bad") /\ t.state # "absent" /\ ~((~exists \/ recreate) /\ t.image \in {"", "bad"})
    BY <1>3, <1>12, <2>4
  <2> QED BY <2>1, <2>2, <2>3, <2>4
<1> QED BY <1>13 DEF run

-----------------------------------------------------------------------------
(* k8s and unarchive, which leave no trace of what they uploaded           *)

\* A run whose errors are returned, but for the removal of what it uploaded.
LEMMA GoodTail ==
  ASSUME NEW t, NEW h, NEW run, NEW loose, NEW b, NEW g, Fitting(t, b), LoudEnd(b), run.trail = b \o <<Quiet(g)>>, Fits(t, g),
         ~loose /\ ~NotAsAsked(t, h) /\ ~run.failed => Promised(t, End(b, h)) /\ Promised(t, g)
  PROVE  Good(t, h, run, loose)
<1> DEFINE q == <<Quiet(g)>>
<1>1. Fitting(t, q) /\ IsTrail(q) /\ \A s \in Elems(q) : s.host = g
  BY FittingOne, LoudQuiet, ElemsShort, ShortTrails
<1>2. run.trail = b \o q /\ IsTrail(b)
  BY DEF Fitting
<1> HIDE DEF q
<1>3. Fitting(t, run.trail)
  BY <1>1, <1>2, FittingJoin
<1>4. ASSUME ~loose, ~NotAsAsked(t, h) PROVE Done(t, run, h)
  <2>1. ~run.failed => Promised(t, End(b, h)) /\ \A s \in Elems(q) : Promised(t, s.host)
    BY <1>1, <1>4
  <2> QED BY <1>1, <1>2, <2>1, DoneTail
<1> QED BY <1>3, <1>4 DEF Good

ObjectsHost(t, g) == {"objects", "tmp"} \subseteq DOMAIN g /\ IsMap(g.objects) /\ DOMAIN t.objects \subseteq DOMAIN g.objects
ObjectsAsked(t, g) == \A o \in DOMAIN t.objects : g.objects[o] = IF t.state = "present" THEN t.objects[o] ELSE "none"

LEMMA AppliedIs ==
  ASSUME NEW t, NEW g, ObjectsHost(t, g)
  PROVE  ObjectsHost(t, Applied(g, t)) /\ ObjectsAsked(t, Applied(g, t))
<1> DEFINE f == [o \in DOMAIN g.objects |->
                   IF o \in DOMAIN t.objects THEN IF t.state = "present" THEN t.objects[o] ELSE "none" ELSE g.objects[o]]
           a == Applied(g, t)
<1>1. DOMAIN a = DOMAIN g /\ a.objects = f
  BY DEF Applied, ObjectsHost
<1>2. IsMap(f) /\ DOMAIN f = DOMAIN g.objects
  BY DEF IsMap
<1>3. \A o \in DOMAIN t.objects : f[o] = IF t.state = "present" THEN t.objects[o] ELSE "none"
  BY DEF ObjectsHost
<1> HIDE DEF f, a
<1>4. ObjectsHost(t, a) /\ ObjectsAsked(t, a)
  BY <1>1, <1>2, <1>3 DEF ObjectsHost, ObjectsAsked
<1> QED BY <1>4 DEF a

LEMMA K8sGood ==
  ASSUME NEW t, NEW h, NEW check, Fits(t, h), t.module = "k8s"
  PROVE  Good(t, h, K8sRun(h, t, check), check)
<1> DEFINE up == [h EXCEPT !.tmp = TRUE]
           done == IF h.kubectl THEN Applied(up, t) ELSE up
           end == [done EXCEPT !.tmp = FALSE]
           run == K8sRun(h, t, check)
           b == <<Loud(up), Loud(done)>>
           c == h.kubectl /\ K8sChanged(h, t)
           f == ~h.kubectl
<1>1. ObjectsHost(t, h) /\ \A g : ObjectsHost(t, g) => Fits(t, g)
  <2>1. ObjectsHost(t, h)
    BY DEF Fits, FitsTransfers, ObjectsHost
  <2>2. ASSUME NEW g, ObjectsHost(t, g) PROVE Fits(t, g)
    <3>1. FitsTransfers(t, g)
      BY <2>2 DEF FitsTransfers, ObjectsHost
    <3> QED BY <3>1, OtherFits
  <2> QED BY <2>1, <2>2
<1>2. \A g : ObjectsAsked(t, g) => Promised(t, g)
  BY DEF Promised, TransferPromised, ObjectsAsked, ReadsBeforeItWrites
<1>3. run = Ran(<<Loud(up), Loud(done), Quiet(end)>>, c, f)
  BY DEF K8sRun
<1>4. ObjectsHost(t, up)
  <2>1. DOMAIN up = DOMAIN h /\ up.objects = h.objects
    BY <1>1 DEF ObjectsHost
  <2> HIDE DEF up
  <2> QED BY <1>1, <2>1 DEF ObjectsHost
<1> HIDE DEF up
<1>5. ObjectsHost(t, done) /\ (h.kubectl => ObjectsAsked(t, done))
  BY <1>4, AppliedIs
<1> HIDE DEF done
<1>6. DOMAIN end = DOMAIN done /\ end.objects = done.objects
  BY <1>5 DEF ObjectsHost
<1> HIDE DEF end, run, c, f
<1>7. ObjectsHost(t, end) /\ (h.kubectl => ObjectsAsked(t, end))
  BY <1>5, <1>6 DEF ObjectsHost, ObjectsAsked
<1>8. run.trail = <<Loud(up), Loud(done), Quiet(end)>> /\ (run.failed <=> f)
  BY <1>3 DEF Ran
<1>9. run.trail = b \o <<Quiet(end)>>
  BY <1>8, JoinTwoOne
<1>10. Fitting(t, b) /\ LoudEnd(b) /\ End(b, h) = done
  <2>1. Fitting(t, b)
    BY <1>1, <1>4, <1>5, FittingTwo, LoudQuiet
  <2>2. LoudEnd(b)
    BY EndShort, LoudQuiet
  <2>3. End(b, h) = done
    BY EndTwo, LoudQuiet
  <2> QED BY <2>1, <2>2, <2>3
<1> HIDE DEF b
<1>11. ~run.failed => Promised(t, End(b, h)) /\ Promised(t, end)
  BY <1>2, <1>5, <1>7, <1>8, <1>10 DEF f
<1>12. Good(t, h, run, check)
  BY <1>1, <1>7, <1>9, <1>10, <1>11, GoodTail
<1> QED BY <1>12 DEF run

LEMMA UnarchiveGood ==
  ASSUME NEW t, NEW h, NEW check, Fits(t, h), t.module = "unarchive"
  PROVE  Good(t, h, UnarchiveRun(h, t, check), check)
<1> DEFINE W(g) == {"tmp", "files", "creates", "mode"} \subseteq DOMAIN g
           up == [h EXCEPT !.tmp = TRUE]
           h1 == IF t.remote THEN h ELSE up
           h2 == Extracted(h1, t)
           h3 == IF t.mode = "" THEN h2 ELSE [h2 EXCEPT !.mode = t.mode]
           end == [h3 EXCEPT !.tmp = FALSE]
           run == UnarchiveRun(h, t, check)
           first == IF t.remote THEN <<>> ELSE <<Loud(up)>>
           mode == IF t.mode = "" THEN <<>> ELSE <<Loud(h3)>>
           drop == IF t.remote THEN <<>> ELSE <<Quiet(end)>>
           b == (first \o <<Loud(h2)>>) \o mode
<1>1. W(h)
  BY DEF Fits, FitsTransfers
<1>2. \A g : W(g) => Fits(t, g)
  <2> SUFFICES ASSUME NEW g, W(g) PROVE Fits(t, g)
    OBVIOUS
  <2>1. FitsTransfers(t, g)
    BY DEF FitsTransfers
  <2> QED BY <2>1, OtherFits
<1>3. \A g : Promised(t, g) <=> (t.creates /\ g.creates) \/ (g.files = "new" /\ t.mode \in {"", g.mode})
  BY DEF Promised, TransferPromised, ReadsBeforeItWrites
<1>4. /\ t.creates /\ h.creates => run = Unchanged
      /\ ~(t.creates /\ h.creates) /\ check => run = Reports(TRUE)
      /\ ~(t.creates /\ h.creates) /\ ~check => run = Ran(first \o <<Loud(h2)>> \o mode \o drop, t.good, ~t.good)
  BY DEF UnarchiveRun
<1>5. W(up) /\ W(h1)
  BY <1>1
<1> HIDE DEF h1, up
<1>6. W(h2) /\ (t.good => h2.files = "new")
  BY <1>5 DEF Extracted
<1> HIDE DEF h2
<1>7. W(h3) /\ h3.files = h2.files /\ t.mode \in {"", h3.mode}
  BY <1>6
<1> HIDE DEF h3
<1>8. W(end) /\ end.files = h3.files /\ end.mode = h3.mode
  BY <1>7
<1> HIDE DEF end
<1>9. Fits(t, up) /\ Fits(t, h2) /\ Fits(t, h3) /\ Fits(t, end)
  BY <1>2, <1>5, <1>6, <1>7, <1>8
<1>10. t.good => Promised(t, h3) /\ Promised(t, end)
  <2>1. t.good => h3.files = "new" /\ end.files = "new" /\ t.mode \in {"", end.mode}
    BY <1>6, <1>7, <1>8
  <2> HIDE DEF W
  <2> QED BY <1>3, <1>7, <2>1
<1>11. CASE t.creates /\ h.creates
  <2>1. Promised(t, h)
    BY <1>3, <1>11
  <2>2. run = Unchanged
    BY <1>4, <1>11
  <2> QED BY <2>1, <2>2, RunParts, GoodIdle
<1>12. CASE ~(t.creates /\ h.creates) /\ check
  <2>1. run = Reports(TRUE)
    BY <1>4, <1>12
  <2> QED BY <1>12, <2>1, RunParts, GoodIdle
<1>13. CASE ~(t.creates /\ h.creates) /\ ~check
  <2> HIDE DEF run, W, first, mode, drop
  <2>1. run.trail = b \o drop
    BY <1>4, <1>13 DEF Ran
  <2>2. run.failed <=> ~t.good
    <3> DEFINE f == ~t.good
    <3>1. run = Ran(b \o drop, t.good, f)
      BY <1>4, <1>13
    <3> HIDE DEF f, b
    <3>2. run.failed <=> f
      BY <3>1 DEF Ran
    <3> QED BY <3>2 DEF f
  <2>3. Fitting(t, <<Loud(up)>>) /\ Fitting(t, <<Loud(h2)>>) /\ Fitting(t, <<Loud(h3)>>) /\ Fitting(t, <<>>)
    BY <1>9, FittingOne, LoudQuiet
  <2>4. Fitting(t, first) /\ Fitting(t, mode)
    BY <2>3 DEF first, mode
  <2>5. IsTrail(first) /\ IsTrail(mode) /\ IsTrail(<<Loud(h2)>>)
    BY <2>3, <2>4 DEF Fitting
  <2> DEFINE a == first \o <<Loud(h2)>>
  <2>6. Fitting(t, a) /\ IsTrail(a)
    BY <2>3, <2>4, FittingJoin DEF Fitting
  <2>7. LoudEnd(a) /\ End(a, h) = h2
    <3>1. LoudEnd(<<Loud(h2)>>) /\ <<Loud(h2)>> # <<>>
      BY EndShort, LoudQuiet
    <3>2. \A x : End(<<Loud(h2)>>, x) = h2
      BY EndOne, LoudQuiet
    <3>3. End(a, h) = End(<<Loud(h2)>>, End(first, h))
      BY <2>5, EndSplit
    <3>4. LoudEnd(a)
      BY <2>5, <3>1, EndJoin
    <3> QED BY <3>2, <3>3, <3>4
  <2> HIDE DEF a
  <2>8. b = a \o mode
    BY DEF a
  <2>9. Fitting(t, b) /\ LoudEnd(b) /\ End(b, h) = h3
    <3>1. Fitting(t, a \o mode)
      BY <2>4, <2>6, FittingJoin
    <3>2. CASE t.mode = ""
      <4>1. mode = <<>> /\ h3 = h2
        BY <3>2 DEF mode, h3
      <4>2. End(a \o mode, h) = End(mode, End(a, h))
        BY <2>5, <2>6, EndSplit
      <4>3. LoudEnd(mode)
        BY <4>1, EndShort
      <4>4. LoudEnd(a \o mode)
        BY <2>5, <2>6, <2>7, <4>3, EndJoin
      <4>5. End(mode, End(a, h)) = h2
        BY <2>7, <4>1, EndShort
      <4>6. End(b, h) = h2
        BY <2>8, <4>2, <4>5
      <4> HIDE DEF b
      <4> QED BY <2>8, <3>1, <4>1, <4>4, <4>6
    <3>3. CASE t.mode # ""
      <4>1. mode = <<Loud(h3)>>
        BY <3>3 DEF mode
      <4>2. End(a \o mode, h) = End(mode, End(a, h))
        BY <2>5, <2>6, EndSplit
      <4>3. LoudEnd(mode) /\ mode # <<>>
        BY <4>1, EndShort, LoudQuiet
      <4>4. LoudEnd(a \o mode)
        BY <2>5, <2>6, <4>3, EndJoin
      <4>5. \A x : End(mode, x) = h3
        BY <4>1, EndOne, LoudQuiet
      <4>6. End(b, h) = h3
        BY <2>8, <4>2, <4>5
      <4> HIDE DEF b
      <4> QED BY <2>8, <3>1, <4>4, <4>6
    <3> QED BY <3>2, <3>3
  <2> HIDE DEF b
  <2>10. CASE t.remote
    <3>1. drop = <<>>
      BY <2>10 DEF drop
    <3>2. run.trail = b
      <4>1. IsTrail(b)
        BY <2>9 DEF Fitting
      <4>2. PICK B : b \in Seq(B)
        BY <4>1 DEF IsTrail
      <4>3. b \o <<>> = b
        BY <4>2
      <4> QED BY <2>1, <3>1, <4>3
    <3>3. Good(t, h, run, check)
      BY <1>10, <2>2, <2>9, <3>2, GoodRun
    <3> QED BY <3>3 DEF run
  <2>11. CASE ~t.remote
    <3>1. drop = <<Quiet(end)>>
      BY <2>11 DEF drop
    <3>2. Good(t, h, run, check)
      BY <1>9, <1>10, <2>1, <2>2, <2>9, <3>1, GoodTail
    <3> QED BY <3>2 DEF run
  <2> QED BY <2>10, <2>11
<1> QED BY <1>11, <1>12, <1>13

-----------------------------------------------------------------------------
(* Every module                                                            *)

LEMMA FileGood ==
  ASSUME NEW t, NEW h, NEW check \in BOOLEAN, Fits(t, h), t.module = "file"
  PROVE  Good(t, h, FileRun(h, t, check), check)
<1> DEFINE run == FileRun(h, t, check)
<1>1. CASE check
  <2>1. run.trail = <<>>
    BY <1>1 DEF FileRun, Ran
  <2> HIDE DEF run
  <2>2. Good(t, h, run, check)
    BY <1>1, <2>1, GoodIdle
  <2> QED BY <2>2 DEF run
<1>2. CASE ~check
  <2>1. run = FileRun(h, t, FALSE)
    BY <1>2
  <2>2. Passes(t, run.trail) /\ (~NotAsAsked(t, h) => Done(t, run, h))
    BY <2>1, FileDone
  <2> HIDE DEF run
  <2>3. t.module \in FileModules \cup LineModules
    BY DEF FileModules
  <2>4. Right(t, h, run, check)
    BY <2>2, RightDone
  <2>5. Good(t, h, run, check)
    BY <2>3, <2>4, RightGood
  <2> QED BY <2>5 DEF run
<1> QED BY <1>1, <1>2

LEMMA FileModulesGood ==
  ASSUME NEW t, NEW h, NEW seen, NEW check \in BOOLEAN, Fits(t, h),
         t.module \in {"file", "copy", "copy_directory", "template", "fetch", "lineinfile", "blockinfile", "replace", "get_url"}
  PROVE  Good(t, h, Run(t, h, seen, check), check)
<1>1. t.module \in FileModules \cup LineModules
  BY DEF FileModules, LineModules
<1>2. CASE t.module = "file"
  BY <1>2, FileGood DEF Run
<1>3. CASE t.module \in {"copy", "template"}
  <2>1. Run(t, h, seen, check) = IF t.module = "copy" THEN CopyRun(h, t, check) ELSE TemplateRun(h, t, check)
    BY <1>3 DEF Run
  <2> QED BY <1>1, <1>3, <2>1, CopyRight, RightGood
<1>4. CASE t.module = "copy_directory"
  BY <1>1, <1>4, DirectoryRight, RightGood DEF Run
<1>5. CASE t.module = "fetch"
  BY <1>1, <1>5, FetchRight, RightGood DEF Run
<1>6. CASE t.module = "lineinfile"
  BY <1>1, <1>6, LineinfileRight, RightGood DEF Run
<1>7. CASE t.module = "blockinfile"
  BY <1>1, <1>7, BlockinfileRight, RightGood DEF Run
<1>8. CASE t.module = "replace"
  BY <1>1, <1>8, ReplaceRight, RightGood DEF Run
<1>9. CASE t.module = "get_url"
  BY <1>1, <1>9, UrlRight, RightGood DEF Run
<1> QED BY <1>2, <1>3, <1>4, <1>5, <1>6, <1>7, <1>8, <1>9

LEMMA OtherModulesGood ==
  ASSUME NEW t, NEW h, NEW seen, NEW check \in BOOLEAN, Fits(t, h),
         t.module \in {"hostname", "user", "group", "package", "pip", "service", "systemd", "git", "archive", "unarchive",
                       "synchronize", "tempfile", "docker_container", "k8s", "command", "shell", "uri"}
  PROVE  Good(t, h, Run(t, h, seen, check), check)
<1>1. CASE t.module \in {"hostname", "user", "group"}
  BY <1>1, HostnameGood, UserGood, GroupGood DEF Run
<1>2. CASE t.module \in {"package", "pip"}
  BY <1>2, PackageGood, PipGood DEF Run
<1>3. CASE t.module \in {"service", "systemd"}
  BY <1>3, ServiceGood, SystemdGood DEF Run
<1>4. CASE t.module \in {"git", "archive", "unarchive"}
  BY <1>4, GitGood, ArchiveGood, UnarchiveGood DEF Run
<1>5. CASE t.module \in {"synchronize", "tempfile", "docker_container", "k8s"}
  BY <1>5, SynchronizeGood, TempfileGood, DockerContainerGood, K8sGood DEF Run
<1>6. CASE t.module \in {"command", "shell", "uri"}
  BY <1>6, CommandGood DEF Run, ShellRun
<1> QED BY <1>1, <1>2, <1>3, <1>4, <1>5, <1>6

LEMMA GoodLoose ==
  ASSUME NEW t, NEW h, NEW run, NEW strict, NEW loose, strict => loose, Good(t, h, run, strict)
  PROVE  Good(t, h, run, loose)
BY DEF Good

LEMMA GoodModules ==
  ASSUME NEW t, NEW h, NEW seen \in {Reads(t, h), <<>>}, NEW check \in BOOLEAN, Fits(t, h)
  PROVE  Good(t, h, Run(t, h, seen, check), check \/ seen # Reads(t, h))
<1> DEFINE loose == check \/ seen # Reads(t, h)
           run == Run(t, h, seen, check)
<1>1. CASE t.module \in ReadsBeforeItWrites
  <2>1. Reads(t, h) = h.lines /\ seen \in {h.lines, <<>>}
    BY <1>1 DEF Reads
  <2>2. Good(t, h, run, check \/ seen # h.lines)
    <3>1. CASE t.module \in {"authorized_key", "known_hosts"}
      BY <2>1, <3>1, AuthorizedKeyGood, KnownHostsGood DEF Run
    <3>2. CASE t.module \in {"cron", "sysctl", "mount"}
      BY <2>1, <3>2, CronGood, SysctlGood, MountGood DEF Run
    <3> QED BY <1>1, <3>1, <3>2 DEF ReadsBeforeItWrites
  <2> QED BY <2>1, <2>2
<1>2. CASE t.module \notin ReadsBeforeItWrites
  <2>1. Good(t, h, run, check)
    <3>1. t.module \in Modules
      BY DEF Fits
    <3>2. CASE t.module \in {"file", "copy", "copy_directory", "template", "fetch", "lineinfile", "blockinfile", "replace", "get_url"}
      BY <3>2, FileModulesGood
    <3>3. CASE t.module \in {"hostname", "user", "group", "package", "pip", "service", "systemd", "git", "archive", "unarchive",
                             "synchronize", "tempfile", "docker_container", "k8s", "command", "shell", "uri"}
      BY <3>3, OtherModulesGood
    <3> QED BY <1>2, <3>1, <3>2, <3>3 DEF Modules, ReadsBeforeItWrites
  <2>2. check => loose
    OBVIOUS
  <2> HIDE DEF run, loose
  <2>3. Good(t, h, run, loose)
    BY <2>1, <2>2, GoodLoose
  <2> QED BY <2>3 DEF run, loose
<1> QED BY <1>1, <1>2

\* Wherever a run ends, the task fits the host.
LEMMA FitModules ==
  ASSUME NEW t, NEW h, NEW seen \in {Reads(t, h), <<>>}, NEW check \in BOOLEAN, Fits(t, h), NEW n,
         LET length == Len(Run(t, h, seen, check).trail) IN n = length \/ n \in 0..(length - 1)
  PROVE  Fits(t, HostAfter(Run(t, h, seen, check), h, n))
<1> DEFINE run == Run(t, h, seen, check)
<1>1. Fitting(t, run.trail)
  BY GoodModules DEF Good
<1>2. n = Len(run.trail) \/ n \in 0..(Len(run.trail) - 1)
  OBVIOUS
<1> HIDE DEF run
<1>3. DOMAIN run.trail = 1..Len(run.trail) /\ Len(run.trail) \in Nat
  BY <1>1, TrailLength DEF Fitting
<1>4. Fits(t, HostAfter(run, h, n))
  <2>1. CASE n = 0
    BY <2>1 DEF HostAfter
  <2>2. CASE n # 0
    <3>1. n \in DOMAIN run.trail
      BY <1>2, <1>3, <2>2
    <3>2. Fits(t, run.trail[n].host)
      BY <1>1, <3>1 DEF Fitting, Elems
    <3> QED BY <2>2, <3>2 DEF HostAfter
  <2> QED BY <2>1, <2>2
<1> QED BY <1>4 DEF run

-----------------------------------------------------------------------------
(* The lines and entries of others                                         *)

LEMMA KeepOne ==
  ASSUME NEW K, NEW e
  PROVE  Keep(<<e>>, K) = Kept1(e, K)
<1>1. <<>> \in Seq({e}) /\ Append(<<>>, e) = <<e>> /\ e \in {e}
  OBVIOUS
<1>2. Kept1(e, K) \in Seq({e})
  BY <1>1, Kept1List
<1>3. Keep(Append(<<>>, e), K) = Keep(<<>>, K) \o Kept1(e, K)
  BY <1>1, KeepAppend
<1>4. <<>> \o Kept1(e, K) = Kept1(e, K)
  BY <1>2
<1> QED BY <1>1, <1>3, <1>4, KeepNothing

LEMMA KeepTwice ==
  ASSUME NEW S, NEW K, NEW L, NEW s \in Seq(S)
  PROVE  Keep(Keep(s, K), L) = Keep(s, K \cap L)
<1> DEFINE p == [i \in DOMAIN s |-> Kept1(s[i], K)]
<1>1. p \in Seq(Seq(S))
  BY KeepParts
<1>2. Keep(s, K) = FlattenSeq(p)
  BY DEF Keep
<1>3. DOMAIN p = DOMAIN s /\ \A i \in DOMAIN s : p[i] = Kept1(s[i], K)
  OBVIOUS
<1> HIDE DEF p
<1>4. Keep(FlattenSeq(p), L) = FlattenSeq([i \in DOMAIN p |-> Keep(p[i], L)])
  BY <1>1, KeepFlatten
<1>5. ASSUME NEW e PROVE Keep(Kept1(e, K), L) = Kept1(e, K \cap L)
  <2>1. Keep(<<>>, L) = <<>>
    BY KeepNothing
  <2>2. Keep(<<e>>, L) = Kept1(e, L)
    BY KeepOne
  <2> QED BY <2>1, <2>2 DEF Kept1
<1>6. [i \in DOMAIN p |-> Keep(p[i], L)] = [i \in DOMAIN s |-> Kept1(s[i], K \cap L)]
  BY <1>3, <1>5
<1> QED BY <1>2, <1>4, <1>6 DEF Keep

\* A list whose pieces were rewritten, when the rewriting spares the set.
LEMMA KeepRewritten ==
  ASSUME NEW S, NEW K, NEW s, NEW p \in Seq(Seq(S)), DOMAIN p = DOMAIN s, \A i \in DOMAIN s : Keep(p[i], K) = Kept1(s[i], K)
  PROVE  Keep(FlattenSeq(p), K) = Keep(s, K)
<1>1. Keep(FlattenSeq(p), K) = FlattenSeq([i \in DOMAIN p |-> Keep(p[i], K)])
  BY KeepFlatten
<1>2. [i \in DOMAIN p |-> Keep(p[i], K)] = [i \in DOMAIN s |-> Kept1(s[i], K)]
  OBVIOUS
<1> QED BY <1>1, <1>2 DEF Keep

LEMMA SplitSeq ==
  ASSUME NEW S, NEW s \in Seq(S), NEW from \in 1..(Len(s) + 1), NEW to \in 0..Len(s), from - 1 <= to
  PROVE  /\ s = Splice(s, from, to, SubSeq(s, from, to))
         /\ SubSeq(s, 1, from - 1) \in Seq(S) /\ SubSeq(s, from, to) \in Seq(S) /\ SubSeq(s, to + 1, Len(s)) \in Seq(S)
<1> DEFINE m == SubSeq(s, from, to)
           r == Splice(s, from, to, m)
<1>0. Len(s) \in Nat /\ from \in Nat /\ to \in Nat /\ from >= 1 /\ to <= Len(s)
  OBVIOUS
<1>1. m \in Seq(S)
  OBVIOUS
<1>2. Len(m) = to - (from - 1)
  OBVIOUS
<1>3. \A i \in 1..Len(m) : m[i] = s[from - 1 + i]
  BY <1>0
<1>4. SubSeq(s, 1, from - 1) \in Seq(S)
  OBVIOUS
<1>5. SubSeq(s, to + 1, Len(s)) \in Seq(S)
  OBVIOUS
<1> HIDE DEF m
<1>6. Spliced(S, s, from, to, m, r)
  BY <1>1, SpliceIs
<1> HIDE DEF r
<1>7. r \in Seq(S) /\ Len(r) = Len(s)
  BY <1>0, <1>2, <1>6 DEF Spliced
<1>8. ASSUME NEW i \in 1..Len(s) PROVE s[i] = r[i]
  <2>1. CASE i \in 1..(from - 1)
    BY <1>6, <2>1 DEF Spliced
  <2>2. CASE i \in from..to
    <3> DEFINE j == i - (from - 1)
    <3>1. j \in 1..Len(m) /\ from - 1 + j = i
      BY <1>0, <1>2, <2>2
    <3> QED BY <1>3, <1>6, <3>1 DEF Spliced
  <2>3. CASE i \in (to + 1)..Len(s)
    <3> DEFINE j == i - to
    <3>1. j \in 1..(Len(s) - to) /\ to + j = i /\ from - 1 + Len(m) + j = i
      BY <1>0, <1>2, <2>3
    <3> QED BY <1>6, <3>1 DEF Spliced
  <2> QED BY <1>0, <2>1, <2>2, <2>3
<1>9. s = r
  BY <1>7, <1>8, ListsSame
<1> QED BY <1>1, <1>4, <1>5, <1>9 DEF r, m

\* A piece put in the place of another, neither with an element of the set.
LEMMA KeepSplice ==
  ASSUME NEW S, NEW K, NEW s \in Seq(S), NEW m \in Seq(S), NEW from \in 1..(Len(s) + 1), NEW to \in 0..Len(s), from - 1 <= to,
         Elems(m) \cap K = {}, \A i \in from..to : s[i] \notin K
  PROVE  Keep(Splice(s, from, to, m), K) = Keep(s, K)
<1> DEFINE a == SubSeq(s, 1, from - 1)
           b == SubSeq(s, to + 1, Len(s))
           n == SubSeq(s, from, to)
<1>0. Len(s) \in Nat /\ from \in Nat /\ to \in Nat /\ from >= 1 /\ to <= Len(s)
  OBVIOUS
<1>1. s = Splice(s, from, to, n) /\ a \in Seq(S) /\ n \in Seq(S) /\ b \in Seq(S)
  BY SplitSeq
<1>2. Elems(n) \cap K = {}
  <2>1. Len(n) = to - (from - 1)
    OBVIOUS
  <2>2. \A i \in 1..Len(n) : n[i] = s[from - 1 + i]
    BY <1>0
  <2>3. \A i \in 1..Len(n) : from - 1 + i \in from..to
    BY <1>0, <2>1
  <2>4. DOMAIN n = 1..Len(n)
    BY <1>1
  <2> HIDE DEF n
  <2> QED BY <2>2, <2>3, <2>4 DEF Elems
<1>3. \A x : Splice(s, from, to, x) = (a \o x) \o b
  BY DEF Splice
<1> HIDE DEF a, b, n
<1>4. ASSUME NEW x \in Seq(S), Elems(x) \cap K = {} PROVE Keep((a \o x) \o b, K) = Keep(a, K) \o Keep(b, K)
  <2>1. a \o x \in Seq(S)
    BY <1>1
  <2>2. Keep((a \o x) \o b, K) = Keep(a \o x, K) \o Keep(b, K)
    BY <1>1, <2>1, KeepJoin
  <2>3. Keep(a \o x, K) = Keep(a, K) \o Keep(x, K)
    BY <1>1, KeepJoin
  <2>4. Keep(x, K) = <<>>
    BY <1>4, KeepAll
  <2>5. Keep(a, K) \in Seq(S)
    BY <1>1, KeepList
  <2>6. Keep(a, K) \o <<>> = Keep(a, K)
    BY <2>5
  <2> QED BY <2>2, <2>3, <2>4, <2>6
<1>5. Keep(Splice(s, from, to, m), K) = Keep(a, K) \o Keep(b, K)
  BY <1>3, <1>4
<1>6. Keep(Splice(s, from, to, n), K) = Keep(a, K) \o Keep(b, K)
  BY <1>1, <1>2, <1>3, <1>4
<1> QED BY <1>1, <1>5, <1>6

\* A run that leaves the lines and entries of others as they are.
Spares(t, h, run) == IsTrail(run.trail) /\ \A s \in Elems(run.trail) : Others(t, s.host) = Others(t, h)

LEMMA SparesIdle ==
  ASSUME NEW t, NEW h, NEW run, run.trail = <<>>
  PROVE  Spares(t, h, run)
BY ShortTrails, ElemsShort DEF Spares

LEMMA SparesUnmoved == \A t, h : Spares(t, h, Unchanged) /\ Spares(t, h, Refused) /\ \A c : Spares(t, h, Reports(c))
<1>1. ASSUME NEW t, NEW h, NEW c, NEW f PROVE Spares(t, h, Ran(<<>>, c, f))
  BY RanTrail, SparesIdle
<1> QED BY <1>1 DEF Unchanged, Refused, Reports

\* Every host on the way has the text it had, or the new one.
Between(h, text, trail) == IsTrail(trail) /\ \A s \in Elems(trail) : s.host.node.text \in {h.node.text, text}

LEMMA BetweenNone == ASSUME NEW h, NEW text PROVE Between(h, text, <<>>)
BY ShortTrails, ElemsShort DEF Between

LEMMA BetweenOne ==
  ASSUME NEW h, NEW text, NEW a, a.host.node.text \in {h.node.text, text}
  PROVE  Between(h, text, <<a>>)
<1>1. IsTrail(<<a>>) /\ Elems(<<a>>) = {a}
  BY ShortTrails, ElemsShort
<1> QED BY <1>1 DEF Between

LEMMA BetweenTwo ==
  ASSUME NEW h, NEW text, NEW a, NEW b, a.host.node.text \in {h.node.text, text}, b.host.node.text \in {h.node.text, text}
  PROVE  Between(h, text, <<a, b>>)
<1>1. IsTrail(<<a, b>>) /\ Elems(<<a, b>>) = {a, b}
  BY ShortTrails, ElemsTwo
<1> QED BY <1>1 DEF Between

LEMMA BetweenJoin ==
  ASSUME NEW h, NEW text, NEW a, NEW b, Between(h, text, a), Between(h, text, b)
  PROVE  Between(h, text, a \o b)
BY ElemsJoin, TrailsJoin DEF Between

LEMMA BetweenHushed ==
  ASSUME NEW h, NEW text, NEW a, Between(h, text, a)
  PROVE  Between(h, text, Hushed(a))
<1>1. \A x \in Elems(Hushed(a)) : \E y \in Elems(a) : x = Quiet(y.host)
  BY ElemsHushed DEF Between
<1>2. IsTrail(Hushed(a))
  BY SaidHushed DEF Between
<1>3. ASSUME NEW x \in Elems(Hushed(a)) PROVE x.host.node.text \in {h.node.text, text}
  <2>1. PICK y \in Elems(a) : x = Quiet(y.host)
    BY <1>1
  <2>2. x.host = y.host
    BY <2>1, LoudQuiet
  <2> QED BY <2>2 DEF Between
<1> QED BY <1>2, <1>3 DEF Between

LEMMA BetweenPermissions ==
  ASSUME NEW h, NEW text, NEW g, HasFiles(g), g.node.text \in {h.node.text, text}, NEW want
  PROVE  /\ Between(h, text, SetFilePermissions(g, want, FALSE))
         /\ End(SetFilePermissions(g, want, FALSE), g).node.text \in {h.node.text, text}
         /\ HasFiles(End(SetFilePermissions(g, want, FALSE), g))
<1> DEFINE trail == SetFilePermissions(g, want, FALSE)
<1>1. /\ IsTrail(trail) /\ \A s \in Elems(trail) : Same(s.host, g)
      /\ HasFiles(End(trail, g)) /\ Same(End(trail, g), g)
  BY PermissionHosts
<1> HIDE DEF trail
<1>2. \A s \in Elems(trail) : s.host.node.text = g.node.text
  BY <1>1 DEF Same
<1>3. End(trail, g).node.text = g.node.text
  BY <1>1 DEF Same
<1>4. Between(h, text, trail)
  BY <1>1, <1>2 DEF Between
<1> QED BY <1>1, <1>3, <1>4 DEF trail

LEMMA WriteBackBetween ==
  ASSUME NEW h, HasFiles(h), NEW u, NEW text
  PROVE  Between(h, text, WriteBack(h, u, text).trail)
<1> DEFINE up == WriteTmp(h, text)
           staged == IF u.validate THEN <<Loud(up), Loud(up)>> ELSE <<>>
           kept == BackupIf(h, u.backup)
           tmp(g) == IF u.validate THEN [g EXCEPT !.tmp = Node("file", text, Default)] ELSE g
           first == tmp(kept)
           done == tmp(Write(kept, text))
           perms == SetFilePermissions(done, u.want, FALSE)
           final == IF perms = <<>> THEN done ELSE perms[Len(perms)].host
           drop == IF u.validate THEN <<Quiet(DropTmp(final))>> ELSE <<>>
           two == <<Quiet(first), Loud(done)>>
           set == Hushed(perms)
           whole == staged \o two \o set \o drop
           run == WriteBack(h, u, text)
           Is(g) == HasFiles(g) /\ g.node.text \in {h.node.text, text}
<1>1. Is(h)
  OBVIOUS
<1>2. ASSUME NEW g, Is(g) PROVE Is(WriteTmp(g, text)) /\ Is(BackupIf(g, u.backup)) /\ Is(DropTmp(g)) /\ Is(tmp(g))
  <2>1. /\ HasFiles(WriteTmp(g, text)) /\ WriteTmp(g, text).node = g.node
        /\ HasFiles(BackupIf(g, u.backup)) /\ BackupIf(g, u.backup).node = g.node
        /\ HasFiles(DropTmp(g)) /\ DropTmp(g).node = g.node
    BY <1>2, AsideHosts
  <2>2. tmp(g) = IF u.validate THEN WriteTmp(g, text) ELSE g
    BY DEF WriteTmp
  <2> HIDE DEF tmp
  <2> QED BY <1>2, <2>1, <2>2
<1>3. ASSUME NEW g, Is(g) PROVE Is(Write(g, text))
  <2> DEFINE w == Write(g, text)
  <2>1. /\ HasFiles(w) /\ (g.dir => w.node.text = text) /\ (~g.dir => w = g)
    BY <1>3, WriteHost
  <2> HIDE DEF w
  <2> QED BY <1>3, <2>1 DEF w
<1>4. Is(up) /\ Is(first) /\ Is(done)
  BY <1>1, <1>2, <1>3
<1>5. CASE Rejects(u, text)
  <2>1. run = Ran(<<Loud(up), Quiet(h)>>, FALSE, TRUE)
    BY <1>5 DEF WriteBack, up
  <2>2. run.trail = <<Loud(up), Quiet(h)>>
    BY <2>1, RanTrail
  <2> HIDE DEF run, up
  <2> QED BY <1>1, <1>4, <2>2, BetweenNone, BetweenTwo, LoudQuiet DEF run
<1>6. CASE ~Rejects(u, text)
  <2>1. run = Ran(whole, TRUE, ~h.dir)
    BY <1>6 DEF WriteBack, up
  <2> HIDE DEF run, whole
  <2>2. run.trail = whole
    BY <2>1, RanTrail
  <2> HIDE DEF up, first
  <2>3. Between(h, text, staged)
    BY <1>4, BetweenNone, BetweenTwo, LoudQuiet
  <2> HIDE DEF done
  <2>4. Between(h, text, two)
    BY <1>4, BetweenNone, BetweenTwo, LoudQuiet
  <2>5. Between(h, text, perms) /\ Is(End(perms, done))
    BY <1>4, BetweenPermissions
  <2>6. Between(h, text, set)
    BY <2>5, BetweenHushed
  <2>7. final = End(perms, done)
    BY DEF End
  <2> HIDE DEF final, perms
  <2>8. Is(DropTmp(final))
    BY <1>2, <2>5, <2>7
  <2>9. Between(h, text, drop)
    <3> DEFINE g == DropTmp(final)
    <3>1. Is(g)
      BY <2>8
    <3>2. drop = IF u.validate THEN <<Quiet(g)>> ELSE <<>>
      OBVIOUS
    <3> HIDE DEF drop, g
    <3>3. Quiet(g).host = g
      BY LoudQuiet
    <3>4. Quiet(g).host.node.text \in {h.node.text, text}
      BY <3>1, <3>3
    <3>5. Between(h, text, <<>>)
      BY BetweenNone
    <3>6. Between(h, text, <<Quiet(g)>>)
      BY <3>4, BetweenOne
    <3> QED BY <3>2, <3>5, <3>6
  <2> HIDE DEF staged, two, set, drop
  <2>10. Between(h, text, whole)
    <3> DEFINE a == staged \o two
               b == a \o set
    <3>1. Between(h, text, a)
      BY <2>3, <2>4, BetweenJoin
    <3> HIDE DEF a
    <3>2. Between(h, text, b)
      BY <2>6, <3>1, BetweenJoin
    <3> HIDE DEF b
    <3>3. Between(h, text, b \o drop)
      BY <2>9, <3>2, BetweenJoin
    <3> QED BY <3>3 DEF whole, a, b
  <2> QED BY <2>2, <2>10 DEF run
<1> QED BY <1>5, <1>6

\* What others have among the lines of a text.
AmongLines(t, lines) ==
  CASE t.module = "lineinfile" -> Filtered(lines, LAMBDA l : l \notin t.pattern \cup Rewrites(t))
    [] t.module = "blockinfile" -> IF HasBlock(lines) THEN Splice(lines, Start(lines), MinOf(Ends(lines)), <<>>) ELSE lines
    [] OTHER -> Filtered(lines, LAMBDA l : l \notin t.pattern \cup {t.rewrite[m] : m \in t.pattern})

LEMMA LinesAmong ==
  ASSUME NEW t, NEW h, t.module \in LineModules
  PROVE  Others(t, h) = AmongLines(t, h.node.text.lines)
<1>1. CASE t.module = "lineinfile"
  BY <1>1 DEF Others, AmongLines
<1>2. CASE t.module = "blockinfile"
  BY <1>2 DEF Others, AmongLines
<1>3. CASE t.module = "replace"
  BY <1>3 DEF Others, AmongLines
<1> QED BY <1>1, <1>2, <1>3 DEF LineModules

LEMMA SparesLines ==
  ASSUME NEW t, NEW h, NEW run, NEW text, t.module \in LineModules, Between(h, text, run.trail),
         AmongLines(t, text.lines) = AmongLines(t, h.node.text.lines)
  PROVE  Spares(t, h, run)
<1>1. ASSUME NEW s \in Elems(run.trail) PROVE Others(t, s.host) = Others(t, h)
  <2>1. s.host.node.text \in {h.node.text, text}
    BY DEF Between
  <2>2. AmongLines(t, s.host.node.text.lines) = AmongLines(t, h.node.text.lines)
    BY <2>1
  <2> QED BY <2>2, LinesAmong
<1> QED BY <1>1 DEF Spares, Between

\* The three modules, given what they make of the lines.
LEMMA EditSpares ==
  ASSUME NEW t, NEW h, NEW check, NEW did, Fits(t, h), t.module \in {"lineinfile", "blockinfile"},
         AmongLines(t, did.lines) = AmongLines(t, h.node.text.lines)
  PROVE  Spares(t, h, EditRun(h, t, check, did))
<1> DEFINE text == Text(did.lines, t.newline)
           run == EditRun(h, t, check, did)
<1>1. HasFiles(h) /\ t.module \in LineModules
  BY LineTasks DEF LineModules, FileFit
<1>2. text.lines = did.lines
  BY DEF Text
<1>3. ASSUME Exists(h) \/ t.create, did.changed, ~check PROVE Spares(t, h, run)
  <2>1. run = WriteBack(h, t, text)
    BY <1>3 DEF EditRun
  <2> HIDE DEF run, text
  <2>2. Between(h, text, run.trail)
    BY <1>1, <2>1, WriteBackBetween
  <2> QED BY <1>1, <1>2, <2>2, SparesLines DEF run
<1>4. Spares(t, h, OnlyPermissions(h, t.want))
  <2> DEFINE x == h.node.text
             trail == SetFilePermissions(h, t.want, FALSE)
  <2>1. Between(h, x, trail)
    BY <1>1, BetweenPermissions
  <2>2. OnlyPermissions(h, t.want).trail = trail
    BY RanTrail DEF OnlyPermissions
  <2> HIDE DEF trail
  <2> QED BY <1>1, <2>1, <2>2, SparesLines
<1>5. \/ run \in {Refused, Unchanged, Reports(TRUE), OnlyPermissions(h, t.want)}
      \/ (Exists(h) \/ t.create) /\ did.changed /\ ~check
  BY DEF EditRun
<1> QED BY <1>3, <1>4, <1>5, SparesUnmoved

LEMMA ReplaceSpares ==
  ASSUME NEW t, NEW h, NEW check, Fits(t, h), t.module = "replace",
         AmongLines(t, TransformAll(h.node.text.lines, t)) = AmongLines(t, h.node.text.lines)
  PROVE  Spares(t, h, ReplaceRun(h, t, check))
<1> DEFINE text == Text(TransformAll(h.node.text.lines, t), t.newline)
           u == [t EXCEPT !.want = AsIs]
           run == ReplaceRun(h, t, check)
<1>1. HasFiles(h) /\ t.module \in LineModules
  BY LineTasks DEF LineModules, FileFit
<1>2. text.lines = TransformAll(h.node.text.lines, t)
  BY DEF Text
<1>3. run \in {Refused, Unchanged, Reports(TRUE), WriteBack(h, u, text)}
  BY DEF ReplaceRun
<1> HIDE DEF text, u
<1>4. Between(h, text, WriteBack(h, u, text).trail)
  BY <1>1, WriteBackBetween
<1>5. Spares(t, h, WriteBack(h, u, text))
  BY <1>1, <1>2, <1>4, SparesLines
<1> HIDE DEF run
<1> QED BY <1>3, <1>5, SparesUnmoved DEF run

\* The lines that lineinfile and replace may touch.
Touched(t) == t.pattern \cup IF t.module = "lineinfile" THEN Rewrites(t) ELSE {t.rewrite[m] : m \in t.pattern}

LEMMA UntouchedAre ==
  ASSUME NEW S, NEW s \in Seq(S), NEW t, t.module \in {"lineinfile", "replace"}
  PROVE  AmongLines(t, s) = Keep(s, S \ Touched(t))
<1> DEFINE X == Touched(t)
<1>1. \A i \in DOMAIN s : s[i] \in S
  OBVIOUS
<1>2. [i \in DOMAIN s |-> IF s[i] \notin X THEN <<s[i]>> ELSE <<>>] = [i \in DOMAIN s |-> IF s[i] \in S \ X THEN <<s[i]>> ELSE <<>>]
  BY <1>1
<1>3. FlattenSeq([i \in DOMAIN s |-> IF s[i] \notin X THEN <<s[i]>> ELSE <<>>]) = Keep(s, S \ X)
  <2> HIDE DEF X
  <2> QED BY <1>2 DEF Keep, Kept1
<1>4. CASE t.module = "lineinfile"
  <2>1. X = t.pattern \cup Rewrites(t)
    BY <1>4 DEF Touched
  <2> HIDE DEF X
  <2>2. AmongLines(t, s) = FlattenSeq([i \in DOMAIN s |-> IF s[i] \notin X THEN <<s[i]>> ELSE <<>>])
    BY <1>4, <2>1 DEF AmongLines, Filtered, Rewritten
  <2> QED BY <1>3, <2>2 DEF X
<1>5. CASE t.module = "replace"
  <2>1. X = t.pattern \cup {t.rewrite[m] : m \in t.pattern}
    BY <1>5 DEF Touched
  <2> HIDE DEF X
  <2>2. AmongLines(t, s) = FlattenSeq([i \in DOMAIN s |-> IF s[i] \notin X THEN <<s[i]>> ELSE <<>>])
    BY <1>5, <2>1 DEF AmongLines, Filtered, Rewritten
  <2> QED BY <1>3, <2>2 DEF X
<1> QED BY <1>4, <1>5

\* A list that grows or changes by elements of no interest.
LEMMA KeepInserted ==
  ASSUME NEW S, NEW K, NEW s \in Seq(S), NEW e \in S \ K
  PROVE  /\ Keep(Append(s, e), K) = Keep(s, K) /\ Keep(Cons(e, s), K) = Keep(s, K)
         /\ \A i \in 1..(Len(s) + 1) : Keep(InsertAt(s, i, e), K) = Keep(s, K)
<1>0. Len(s) \in Nat
  OBVIOUS
<1>1. <<e>> \in Seq(S) /\ Elems(<<e>>) \cap K = {}
  BY ElemsShort
<1>2. Keep(<<e>>, K) = <<>>
  BY <1>1, KeepAll
<1>3. Keep(s, K) \in Seq(S)
  BY KeepList
<1>4. Keep(s, K) \o <<>> = Keep(s, K) /\ <<>> \o Keep(s, K) = Keep(s, K)
  BY <1>3
<1>5. Keep(s \o <<e>>, K) = Keep(s, K) \o Keep(<<e>>, K) /\ Keep(<<e>> \o s, K) = Keep(<<e>>, K) \o Keep(s, K)
  BY <1>1, KeepJoin
<1>6. Append(s, e) = s \o <<e>> /\ Cons(e, s) = <<e>> \o s
  BY DEF Cons
<1>7. ASSUME NEW i \in 1..(Len(s) + 1) PROVE Keep(InsertAt(s, i, e), K) = Keep(s, K)
  <2>1. InsertAt(s, i, e) = Splice(s, i, i - 1, <<e>>)
    <3>1. i - 1 + 1 = i
      BY <1>0
    <3> QED BY <3>1 DEF InsertAt, Splice
  <2>2. i - 1 \in 0..Len(s) /\ i - 1 <= i - 1 /\ i..(i - 1) = {}
    BY <1>0
  <2> DEFINE from == i
             to == i - 1
             m == <<e>>
  <2>3. from \in 1..(Len(s) + 1) /\ to \in 0..Len(s) /\ from - 1 <= to /\ \A j \in from..to : s[j] \notin K
    BY <2>2
  <2>4. m \in Seq(S) /\ Elems(m) \cap K = {}
    BY <1>1
  <2> HIDE DEF from, to, m
  <2>5. Keep(Splice(s, from, to, m), K) = Keep(s, K)
    BY <2>3, <2>4, KeepSplice
  <2> QED BY <2>1, <2>5 DEF from, to, m
<1> QED BY <1>2, <1>4, <1>5, <1>6, <1>7

LEMMA KeepReplaced ==
  ASSUME NEW S, NEW K, NEW s \in Seq(S), NEW i \in DOMAIN s, s[i] \notin K, NEW e, e \notin K
  PROVE  Keep(ReplaceAt(s, i, e), K) = Keep(s, K)
<1> DEFINE r == ReplaceAt(s, i, e)
<1>1. DOMAIN r = DOMAIN s /\ r[i] = e /\ \A j \in DOMAIN s \ {i} : r[j] = s[j]
  BY DEF ReplaceAt
<1> HIDE DEF r
<1>2. \A j \in DOMAIN r : r[j] = s[j] \/ (r[j] \notin K /\ s[j] \notin K)
  BY <1>1
<1> QED BY <1>1, <1>2, KeepSame DEF r

LEMMA InsertLineSpares ==
  ASSUME NEW S, NEW K, NEW s \in Seq(S), NEW t, t.line \in S \ K
  PROVE  Keep(InsertLine(s, t), K) = Keep(s, K)
<1> DEFINE e == t.line
           r == InsertLine(s, t)
<1>1. IsList(s) /\ Len(s) \in Nat
  BY ListIs
<1>2. /\ Keep(Append(s, e), K) = Keep(s, K) /\ Keep(Cons(e, s), K) = Keep(s, K)
      /\ \A i \in 1..(Len(s) + 1) : Keep(InsertAt(s, i, e), K) = Keep(s, K)
  BY KeepInserted
<1>3. ASSUME s = <<>> PROVE Keep(r, K) = Keep(s, K)
  <2>1. r = <<e>> /\ Append(s, e) = <<e>>
    BY <1>3 DEF InsertLine
  <2> QED BY <1>2, <2>1
<1>4. ASSUME NEW p, Found(s, p) PROVE FindInsertIndex(s, p, t.first) \in 1..Len(s)
  BY <1>1, <1>4, MatchesEnds DEF Found
<1>5. ASSUME s # <<>>
      PROVE  \/ r = Cons(e, s) \/ r = Append(s, e)
             \/ \E p : Found(s, p) /\ r = InsertAt(s, FindInsertIndex(s, p, t.first), e)
             \/ \E p : Found(s, p) /\ r = InsertAt(s, FindInsertIndex(s, p, t.first) + 1, e)
  BY <1>5 DEF InsertLine
<1> HIDE DEF r
<1>6. ASSUME NEW p, Found(s, p), r = InsertAt(s, FindInsertIndex(s, p, t.first), e) PROVE Keep(r, K) = Keep(s, K)
  BY <1>1, <1>2, <1>4, <1>6
<1>7. ASSUME NEW p, Found(s, p), r = InsertAt(s, FindInsertIndex(s, p, t.first) + 1, e) PROVE Keep(r, K) = Keep(s, K)
  <2> DEFINE i == FindInsertIndex(s, p, t.first)
  <2>1. i \in 1..Len(s)
    BY <1>4, <1>7
  <2> HIDE DEF i
  <2>2. i + 1 \in 1..(Len(s) + 1)
    BY <1>1, <2>1
  <2> QED BY <1>2, <1>7, <2>2 DEF i
<1> QED BY <1>2, <1>3, <1>5, <1>6, <1>7 DEF r

LEMMA InsertLineIn ==
  ASSUME NEW S, NEW s \in Seq(S), NEW t, t.line \in S
  PROVE  InsertLine(s, t) \in Seq(S)
<1> DEFINE e == t.line
           r == InsertLine(s, t)
<1>1. IsList(s) /\ Len(s) \in Nat
  BY ListIs
<1>2. Append(s, e) \in Seq(S) /\ Cons(e, s) \in Seq(S) /\ <<e>> \in Seq(S)
  BY DEF Cons
<1>3. ASSUME NEW i \in 1..(Len(s) + 1) PROVE InsertAt(s, i, e) \in Seq(S)
  <2>1. S \cup {e} = S
    OBVIOUS
  <2> HIDE DEF e
  <2>2. InsertAt(s, i, e) \in Seq(S \cup {e})
    BY Inserting
  <2> QED BY <2>1, <2>2
<1>4. ASSUME NEW p, Found(s, p)
      PROVE  FindInsertIndex(s, p, t.first) \in 1..(Len(s) + 1) /\ FindInsertIndex(s, p, t.first) + 1 \in 1..(Len(s) + 1)
  <2> DEFINE i == FindInsertIndex(s, p, t.first)
  <2>1. i \in 1..Len(s)
    BY <1>1, <1>4, MatchesEnds DEF Found
  <2> HIDE DEF i
  <2>2. i \in 1..(Len(s) + 1) /\ i + 1 \in 1..(Len(s) + 1)
    BY <1>1, <2>1
  <2> QED BY <2>2 DEF i
<1>5. \/ r = Cons(e, s) \/ r = Append(s, e) \/ r = <<e>>
      \/ \E p : Found(s, p) /\ r = InsertAt(s, FindInsertIndex(s, p, t.first), e)
      \/ \E p : Found(s, p) /\ r = InsertAt(s, FindInsertIndex(s, p, t.first) + 1, e)
  BY DEF InsertLine
<1> HIDE DEF r
<1> QED BY <1>2, <1>3, <1>4, <1>5 DEF r

LEMMA LineinfileSpares ==
  ASSUME NEW t, NEW h, NEW check, Fits(t, h), t.module = "lineinfile"
  PROVE  Spares(t, h, LineinfileRun(h, t, check))
<1> DEFINE s == h.node.text.lines
           did == TransformLine(s, t)
           M == Touched(t)
           S == Elems(s) \cup M \cup {t.line}
           K == S \ M
           hits == IF t.pattern = NoPattern THEN {} ELSE Matches(s, t.pattern)
           target == IF t.first THEN MinOf(hits) ELSE MaxOf(hits)
           new == IF t.backrefs THEN t.rewrite[s[target]] ELSE t.line
<1>1. IsList(s) /\ t.state \in {"present", "absent"}
  BY LineTasks DEF LineModules, Fits, FitsFiles
<1>2. M = t.pattern \cup Rewrites(t)
  BY DEF Touched
<1>3. t.state = "present" /\ t.backrefs => \A l \in t.pattern : t.rewrite[l] \in M
  BY <1>2 DEF Rewrites
<1>4. ~(t.state = "present" /\ t.backrefs) => t.line \in M
  BY <1>2 DEF Rewrites
<1>5. t.pattern \subseteq M
  BY <1>2
<1> HIDE DEF s, M
<1>6. s \in Seq(Elems(s)) /\ DOMAIN s = 1..Len(s) /\ Len(s) \in Nat
  BY <1>1, ListSeq
<1>7. Elems(s) \subseteq S /\ t.line \in S
  OBVIOUS
<1> HIDE DEF S
<1>8. s \in Seq(S)
  BY <1>6, <1>7
<1>9. CASE t.state = "present" /\ hits # {}
  <2>1. did = Gives(ReplaceAt(s, target, new), s[target] # new)
    BY <1>9 DEF TransformLine, LinePresent
  <2>2. t.pattern # NoPattern /\ hits = Matches(s, t.pattern)
    BY <1>9
  <2>3. target = FindInsertIndex(s, t.pattern, t.first)
    BY <2>2 DEF FindInsertIndex
  <2>4. target \in Matches(s, t.pattern) /\ target \in DOMAIN s
    <3> HIDE DEF target
    <3> QED BY <1>1, <1>6, <1>9, <2>2, <2>3, MatchesEnds
  <2>5. s[target] \in t.pattern
    BY <2>4 DEF Matches
  <2>6. new \in M
    <3> HIDE DEF target
    <3> QED BY <1>3, <1>4, <1>9, <2>5
  <2>7. did.lines = ReplaceAt(s, target, new)
    BY <2>1 DEF Gives
  <2> HIDE DEF target, new, did
  <2>8. s[target] \notin K /\ new \notin K
    BY <1>5, <2>5, <2>6
  <2> HIDE DEF K
  <2>9. Keep(did.lines, K) = Keep(s, K)
    BY <1>8, <2>4, <2>7, <2>8, KeepReplaced
  <2> DEFINE r == did.lines
  <2>10. r \in Seq(S \cup {new})
    BY <1>8, <2>4, <2>7, Replacing
  <2>11. r \in Seq(S)
    <3>1. M \subseteq S
      BY DEF S
    <3>2. S \cup {new} = S
      BY <2>6, <3>1
    <3> QED BY <2>10, <3>2
  <2> HIDE DEF r
  <2>12. AmongLines(t, r) = Keep(r, K) /\ AmongLines(t, s) = Keep(s, K)
    BY <1>8, <2>11, UntouchedAre DEF K, M
  <2> QED BY <2>9, <2>12, EditSpares DEF LineinfileRun, s, did, r
<1>10. CASE t.state = "present" /\ hits = {} /\ (t.backrefs \/ (t.pattern = NoPattern /\ Contains(s, t.line)))
  <2>1. did = Gives(s, FALSE)
    BY <1>10 DEF TransformLine, LinePresent
  <2>2. did.lines = s
    BY <2>1 DEF Gives
  <2> HIDE DEF did
  <2> QED BY <2>2, EditSpares DEF LineinfileRun, s, did
<1>11. CASE t.state = "present" /\ hits = {} /\ ~(t.backrefs \/ (t.pattern = NoPattern /\ Contains(s, t.line)))
  <2>1. did = Gives(InsertLine(s, t), TRUE)
    BY <1>11 DEF TransformLine, LinePresent
  <2> DEFINE r == did.lines
  <2>2. r = InsertLine(s, t)
    BY <2>1 DEF Gives
  <2> HIDE DEF did, r
  <2>3. t.line \in S /\ t.line \notin K
    BY <1>4, <1>7, <1>11
  <2>4. Keep(r, K) = Keep(s, K)
    <3> HIDE DEF K
    <3> QED BY <1>8, <2>2, <2>3, InsertLineSpares
  <2>5. r \in Seq(S)
    BY <1>7, <1>8, <2>2, InsertLineIn
  <2>6. AmongLines(t, r) = Keep(r, K) /\ AmongLines(t, s) = Keep(s, K)
    BY <1>8, <2>5, UntouchedAre DEF K, M
  <2> QED BY <2>4, <2>6, EditSpares DEF LineinfileRun, s, did, r
<1>12. CASE t.state = "absent"
  <2>1. did = LineAbsent(s, t)
    BY <1>12 DEF TransformLine
  <2> DEFINE r == did.lines
             L == Elems(s) \ Gone1(t)
  <2>2. r = Keep(s, L)
    BY <1>1, <2>1, LineAbsentIs
  <2> HIDE DEF did, r
  <2>3. Gone1(t) \subseteq M
    BY <1>4, <1>5, <1>12 DEF Gone1
  <2>4. L \cap K = Elems(s) \cap K
    BY <2>3
  <2>5. Keep(s, Elems(s) \cap K) = Keep(s, K)
    <3>1. Elems(s) \subseteq Elems(s)
      OBVIOUS
    <3> DEFINE E == Elems(s)
    <3>2. Keep(s, E) = s
      BY <1>6, <3>1, KeepAll
    <3> HIDE DEF E
    <3>3. Keep(Keep(s, E), K) = Keep(s, E \cap K)
      BY <1>8, KeepTwice
    <3> QED BY <3>2, <3>3 DEF E
  <2>6. Keep(r, K) = Keep(s, L \cap K)
    <3> HIDE DEF K, L
    <3> QED BY <1>8, <2>2, KeepTwice
  <2>7. r \in Seq(S)
    <3> HIDE DEF L
    <3> QED BY <1>8, <2>2, KeepList
  <2>8. AmongLines(t, r) = Keep(r, K) /\ AmongLines(t, s) = Keep(s, K)
    BY <1>8, <2>7, UntouchedAre DEF K, M
  <2> HIDE DEF K, L
  <2>9. AmongLines(t, r) = AmongLines(t, s)
    BY <2>4, <2>5, <2>6, <2>8
  <2> QED BY <2>9, EditSpares DEF LineinfileRun, s, did, r
<1> QED BY <1>1, <1>9, <1>10, <1>11, <1>12

LEMMA ReplaceSparesLines ==
  ASSUME NEW t, NEW h, NEW check, Fits(t, h), t.module = "replace"
  PROVE  Spares(t, h, ReplaceRun(h, t, check))
<1> DEFINE s == h.node.text.lines
           r == TransformAll(s, t)
           M == Touched(t)
           S == Elems(s) \cup Elems(r)
           K == S \ M
<1>1. IsList(s)
  BY LineTasks DEF LineModules
<1>2. IsList(r) /\ DOMAIN r = DOMAIN s
  BY <1>1, TransformAllIs
<1>3. \A i \in DOMAIN s : r[i] = s[i] \/ (s[i] \in t.pattern /\ r[i] = t.rewrite[s[i]])
  BY <1>1, TransformAllIs
<1>4. M = t.pattern \cup {t.rewrite[m] : m \in t.pattern}
  BY DEF Touched
<1> HIDE DEF s, r, M
<1>5. \A i \in DOMAIN r : r[i] = s[i] \/ (r[i] \notin K /\ s[i] \notin K)
  BY <1>2, <1>3, <1>4
<1>6. s \in Seq(Elems(s)) /\ r \in Seq(Elems(r))
  BY <1>1, <1>2, ListSeq
<1>7. Elems(s) \subseteq S /\ Elems(r) \subseteq S
  OBVIOUS
<1> HIDE DEF S
<1>8. s \in Seq(S) /\ r \in Seq(S)
  BY <1>6, <1>7
<1>9. Keep(r, K) = Keep(s, K)
  <2> HIDE DEF K
  <2> QED BY <1>2, <1>5, KeepSame
<1>10. AmongLines(t, r) = Keep(r, K) /\ AmongLines(t, s) = Keep(s, K)
  BY <1>8, UntouchedAre DEF K, M
<1> QED BY <1>9, <1>10, ReplaceSpares DEF s, r

\* A piece that was put in, taken out again.
LEMMA SpliceTwice ==
  ASSUME NEW S, NEW s \in Seq(S), NEW m \in Seq(S), NEW from \in 1..(Len(s) + 1), NEW to \in 0..Len(s), from - 1 <= to
  PROVE  Splice(Splice(s, from, to, m), from, from + Len(m) - 1, <<>>) = Splice(s, from, to, <<>>)
<1> DEFINE r == Splice(s, from, to, m)
           e == from + Len(m) - 1
           q == Splice(r, from, e, <<>>)
           p == Splice(s, from, to, <<>>)
<1>0. Len(s) \in Nat /\ Len(m) \in Nat /\ from \in Nat /\ to \in Nat /\ from >= 1 /\ to <= Len(s)
  OBVIOUS
<1>n. <<>> \in Seq(S) /\ Len(<<>>) = 0
  OBVIOUS
<1>1. Spliced(S, s, from, to, m, r)
  BY SpliceIs
<1> DEFINE none == <<>>
<1>m. none \in Seq(S) /\ Len(none) = 0
  BY <1>n
<1>2. Spliced(S, s, from, to, none, p)
  BY <1>n, SpliceIs
<1> HIDE DEF r, p, none
<1>3. r \in Seq(S) /\ Len(r) = (from - 1) + Len(m) + (Len(s) - to)
  BY <1>1 DEF Spliced
<1>4. from \in 1..(Len(r) + 1) /\ e \in 0..Len(r) /\ from - 1 <= e
  BY <1>0, <1>3
<1>5. Spliced(S, r, from, e, none, q)
  <2> HIDE DEF e, q
  <2>1. q = Splice(r, from, e, none)
    BY DEF q, none
  <2> QED BY <1>3, <1>4, <1>m, <2>1, SpliceIs
<1> HIDE DEF q
<1>6. p \in Seq(S) /\ q \in Seq(S) /\ Len(p) = (from - 1) + (Len(s) - to) /\ Len(q) = (from - 1) + (Len(s) - to)
  BY <1>0, <1>2, <1>3, <1>5, <1>m DEF Spliced
<1>7. \A i \in 1..(from - 1) : p[i] = s[i] /\ q[i] = r[i] /\ r[i] = s[i]
  BY <1>1, <1>2, <1>5 DEF Spliced
<1>8. ASSUME NEW i \in 1..(Len(s) - to) PROVE p[from - 1 + i] = s[to + i] /\ q[from - 1 + i] = s[to + i]
  <2>1. p[from - 1 + Len(none) + i] = s[to + i]
    BY <1>2 DEF Spliced
  <2>2. r[from - 1 + Len(m) + i] = s[to + i]
    BY <1>1 DEF Spliced
  <2>3. i \in 1..(Len(r) - e)
    BY <1>0, <1>3
  <2>4. q[from - 1 + Len(none) + i] = r[e + i]
    BY <1>5, <2>3 DEF Spliced
  <2>5. e + i = from - 1 + Len(m) + i /\ from - 1 + Len(none) + i = from - 1 + i
    BY <1>0, <1>m
  <2> QED BY <2>1, <2>2, <2>4, <2>5
<1>9. ASSUME NEW i \in 1..Len(p) PROVE q[i] = p[i]
  <2>1. CASE i <= from - 1
    <3>1. i \in 1..(from - 1)
      BY <1>0, <2>1
    <3> QED BY <1>7, <3>1
  <2>2. CASE i > from - 1
    <3> DEFINE j == i - (from - 1)
    <3>1. j \in 1..(Len(s) - to) /\ from - 1 + j = i
      BY <1>0, <1>6, <2>2
    <3> HIDE DEF j
    <3> QED BY <1>8, <3>1
  <2> QED BY <1>0, <2>1, <2>2
<1>10. q = p
  BY <1>6, <1>9, ListsSame
<1> QED BY <1>10 DEF q, r, p, e

LEMMA SpliceNothing ==
  ASSUME NEW S, NEW s \in Seq(S), NEW from \in 1..(Len(s) + 1)
  PROVE  Splice(s, from, from - 1, <<>>) = s
<1> DEFINE to == from - 1
<1>1. to \in 0..Len(s) /\ from - 1 <= to
  OBVIOUS
<1>2. SubSeq(s, from, to) = <<>>
  OBVIOUS
<1> HIDE DEF to
<1>3. s = Splice(s, from, to, SubSeq(s, from, to))
  BY <1>1, SplitSeq
<1> QED BY <1>2, <1>3 DEF to

\* The lines around the block of blockinfile.
Around(s) == IF HasBlock(s) THEN Splice(s, Start(s), MinOf(Ends(s)), <<>>) ELSE s

LEMMA AroundPut ==
  ASSUME NEW s, IsList(s), NEW b, IsList(b), ~Contains(b, "end"),
         NEW from \in 1..(Len(s) + 1), NEW to \in 0..Len(s), from - 1 <= to, \A i \in 1..(from - 1) : s[i] # "begin"
  PROVE  Around(Splice(s, from, to, Framed(b))) = Splice(s, from, to, <<>>)
<1> DEFINE S == Elems(s) \cup Elems(b) \cup {"begin", "end"}
           f == Framed(b)
           r == Splice(s, from, to, f)
<1>1. s \in Seq(Elems(s)) /\ b \in Seq(Elems(b))
  BY ListSeq
<1>2. Elems(s) \subseteq S /\ Elems(b) \subseteq S /\ "begin" \in S /\ "end" \in S
  OBVIOUS
<1> HIDE DEF S
<1>3. s \in Seq(S) /\ b \in Seq(S)
  BY <1>1, <1>2
<1>4. HasBlock(r) /\ Start(r) = from /\ MinOf(Ends(r)) = from + Len(b) + 1
  BY <1>2, <1>3, BlockPut
<1>5. f \in Seq(S) /\ Len(f) = Len(b) + 2
  BY <1>2, <1>3, FramedIs
<1> HIDE DEF f
<1>6. from + Len(f) - 1 = from + Len(b) + 1
  <2>1. Len(b) \in Nat /\ from \in Nat
    BY <1>3
  <2> QED BY <1>5, <2>1
<1>7. Splice(r, from, from + Len(f) - 1, <<>>) = Splice(s, from, to, <<>>)
  BY <1>3, <1>5, SpliceTwice
<1> HIDE DEF r
<1>8. Around(r) = Splice(s, from, to, <<>>)
  BY <1>4, <1>6, <1>7 DEF Around
<1> QED BY <1>8 DEF r, f

LEMMA BlockSpares ==
  ASSUME NEW s, IsList(s), NEW t, IsList(t.block), ~Markers(t, s)
  PROVE  Around(TransformBlock(s, t).lines) = Around(s)
<1> DEFINE from == Start(s)
           to == MinOf(Ends(s))
           full == Framed(t.block)
           did == TransformBlock(s, t)
           r == did.lines
<1>1. s \in Seq(Elems(s)) /\ Len(s) \in Nat
  BY ListSeq
<1>2. did = IF Unblocks(t) THEN IF HasBlock(s) THEN Gives(Splice(s, from, to, <<>>), TRUE) ELSE Gives(s, FALSE)
            ELSE IF ~HasBlock(s) THEN Gives(InsertBlock(s, full, t), TRUE)
            ELSE IF SubSeq(s, from, to) = full THEN Gives(s, FALSE)
            ELSE Gives(Splice(s, from, to, full), TRUE)
  BY DEF TransformBlock, Framed, Unblocks
<1> HIDE DEF did
<1>3. r = s \/ (Unblocks(t) /\ HasBlock(s) /\ r = Splice(s, from, to, <<>>))
      \/ (~Unblocks(t) /\ ~HasBlock(s) /\ r = InsertBlock(s, full, t))
      \/ (~Unblocks(t) /\ HasBlock(s) /\ r = Splice(s, from, to, full))
  <2>1. \A l, c : Gives(l, c).lines = l
    BY DEF Gives
  <2> HIDE DEF full, from, to
  <2> QED BY <1>2, <2>1
<1>4. Unblocks(t) => ~Doubled(Begins(s))
  BY DEF Markers
<1>5. ~Unblocks(t) => ~Contains(t.block, "end") /\ (Begins(s) = {} \/ HasBlock(s))
  BY DEF Markers
<1> HIDE DEF r
<1>6. CASE Unblocks(t) /\ HasBlock(s) /\ r = Splice(s, from, to, <<>>)
  <2>1. ~HasBlock(Splice(s, from, to, <<>>))
    BY <1>4, <1>6, BlockOut
  <2>2. Around(r) = Around(s)
    BY <1>6, <2>1 DEF Around
  <2> QED BY <2>2 DEF r, did
<1>7. CASE ~Unblocks(t) /\ ~HasBlock(s) /\ r = InsertBlock(s, full, t)
  <2> DEFINE at == BlockAt(s, t)
  <2>1. at \in 1..(Len(s) + 1) /\ InsertBlock(s, full, t) = Splice(s, at, at - 1, full)
    BY BlockPlace
  <2> HIDE DEF at
  <2>2. at - 1 \in 0..Len(s) /\ at - 1 <= at - 1
    BY <1>1, <2>1
  <2>3. \A i \in 1..(at - 1) : s[i] # "begin"
    <3>1. DOMAIN s = 1..Len(s)
      BY ListSeq
    <3>2. \A i \in 1..Len(s) : s[i] # "begin"
      BY <1>5, <1>7, <3>1 DEF Begins
    <3> QED BY <1>1, <2>1, <3>2
  <2> DEFINE e == at - 1
  <2>4. e \in 0..Len(s) /\ at - 1 <= e
    BY <2>2
  <2>5. \A i \in 1..(at - 1) : s[i] # "begin"
    BY <2>3
  <2>6. Around(Splice(s, at, e, full)) = Splice(s, at, e, <<>>)
    <3> HIDE DEF e
    <3> QED BY <1>5, <1>7, <2>1, <2>4, <2>5, AroundPut
  <2>7. Splice(s, at, at - 1, <<>>) = s
    BY <1>1, <2>1, SpliceNothing
  <2>8. Around(r) = Around(s)
    BY <1>7, <2>1, <2>6, <2>7 DEF Around
  <2> QED BY <2>8 DEF r, did
<1>8. CASE ~Unblocks(t) /\ HasBlock(s) /\ r = Splice(s, from, to, full)
  <2>1. Begins(s) # {} /\ to \in 1..Len(s) /\ to > from
    BY <1>8, EndIs
  <2>2. from \in 1..Len(s) /\ \A i \in 1..Len(s) : s[i] = "begin" => from <= i
    BY <2>1, StartIs
  <2> HIDE DEF from, to
  <2>3. from \in 1..(Len(s) + 1) /\ to \in 0..Len(s) /\ from - 1 <= to
    BY <1>1, <2>1, <2>2
  <2>4. \A i \in 1..(from - 1) : s[i] # "begin"
    BY <1>1, <2>2
  <2>5. Around(Splice(s, from, to, full)) = Splice(s, from, to, <<>>)
    BY <1>5, <1>8, <2>3, <2>4, AroundPut
  <2>6. Around(r) = Around(s)
    BY <1>8, <2>5 DEF Around, from, to
  <2> QED BY <2>6 DEF r, did
<1> QED BY <1>3, <1>6, <1>7, <1>8 DEF r, did

LEMMA BlockinfileSpares ==
  ASSUME NEW t, NEW h, NEW check, Fits(t, h), t.module = "blockinfile", ~StrayMarker(t, h)
  PROVE  Spares(t, h, BlockinfileRun(h, t, check))
<1> DEFINE s == h.node.text.lines
           r == TransformBlock(s, t).lines
<1>1. IsList(s) /\ IsList(t.block)
  BY LineTasks DEF LineModules, Fits, FitsFiles
<1>2. ~Markers(t, s)
  BY DEF Markers, StrayMarker, Unblocks
<1> HIDE DEF s
<1>3. Around(r) = Around(s)
  BY <1>1, <1>2, BlockSpares
<1>4. \A x : AmongLines(t, x) = Around(x)
  BY DEF AmongLines, Around
<1> HIDE DEF r
<1>5. AmongLines(t, r) = AmongLines(t, s)
  BY <1>3, <1>4
<1> QED BY <1>5, EditSpares DEF BlockinfileRun, s, r

\* The last five cases of Others, whatever the branches are.
LEMMA EntryCases ==
  ASSUME NEW e1, NEW e2, NEW e3, NEW e4, NEW e5, NEW e6, NEW e7, NEW e8
  PROVE  LET c(m) == CASE m = "lineinfile" -> e1 [] m = "blockinfile" -> e2 [] m = "replace" -> e3
                       [] m = "authorized_key" -> e4 [] m = "known_hosts" -> e5 [] m = "cron" -> e6
                       [] m = "sysctl" -> e7 [] m = "mount" -> e8 [] OTHER -> <<>>
         IN  c("authorized_key") = e4 /\ c("known_hosts") = e5 /\ c("cron") = e6 /\ c("sysctl") = e7 /\ c("mount") = e8
  OBVIOUS

\* The keys and the host lines of others, the settings of other names, and the lines for other paths.
Leaves(t, e) == e.key = "#" \/ (e.key \notin ToSet(t.keys) /\ ~(t.state = "present" /\ t.exclusive))
KeysRest(t, s) == FlattenSeq([i \in DOMAIN s |-> IF Leaves(t, s[i]) THEN <<s[i]>> ELSE <<>>])
HostsRest(t, s) == UNION {{<<n, s[i].type, s[i].blob>> : n \in s[i].hosts \ {t.name}} : i \in DOMAIN s}
SysctlRest(t, s) == FlattenSeq([i \in DOMAIN s |-> IF s[i].name # t.name THEN <<s[i]>> ELSE <<>>])
MountRest(t, s) == FlattenSeq([i \in DOMAIN s |-> IF s[i].path # t.path THEN <<s[i]>> ELSE <<>>])

LEMMA KeysOthers ==
  ASSUME NEW t, t.module = "authorized_key", NEW h
  PROVE  Others(t, h) = KeysRest(t, h.lines)
  BY EntryCases, Zenon DEF Others, Filtered, Rewritten, KeysRest, Leaves

LEMMA HostsOthers ==
  ASSUME NEW t, t.module = "known_hosts", NEW h
  PROVE  Others(t, h) = HostsRest(t, h.lines)
  BY EntryCases, Zenon DEF Others, HostsRest

LEMMA SysctlOthers ==
  ASSUME NEW t, t.module = "sysctl", NEW h
  PROVE  Others(t, h) = SysctlRest(t, h.lines)
  BY EntryCases, Zenon DEF Others, Filtered, Rewritten, SysctlRest

LEMMA MountOthers ==
  ASSUME NEW t, t.module = "mount", NEW h
  PROVE  Others(t, h) = MountRest(t, h.lines)
  BY EntryCases, Zenon DEF Others, Filtered, Rewritten, MountRest

\* The lines of a crontab that belong to the task.
CronMine(t, s, i) ==
  IF t.name # <<>> THEN s[i] = Comment(t.name) \/ (Heads(s, t.name)[i - 1] /\ s[i].kind = "job")
  ELSE s[i].kind = "job" /\ s[i].text = t.job

CronRest(t, s) == FlattenSeq([i \in DOMAIN s |-> IF CronMine(t, s, i) THEN <<>> ELSE <<s[i]>>])

LEMMA CronOthers ==
  ASSUME NEW t, t.module = "cron", NEW h
  PROVE  Others(t, h) = CronRest(t, h.lines)
  BY EntryCases, Zenon DEF Others, Rewritten, CronRest, CronMine

LEMMA SameEntries ==
  ASSUME NEW t, t.module \in ReadsBeforeItWrites, NEW g, NEW h, g.lines = h.lines
  PROVE  Others(t, g) = Others(t, h)
<1>1. CASE t.module = "authorized_key"
  <2>1. Others(t, g) = KeysRest(t, g.lines)
    BY <1>1, KeysOthers
  <2>2. Others(t, h) = KeysRest(t, h.lines)
    BY <1>1, KeysOthers
  <2> QED BY <2>1, <2>2
<1>2. CASE t.module = "known_hosts"
  <2>1. Others(t, g) = HostsRest(t, g.lines)
    BY <1>2, HostsOthers
  <2>2. Others(t, h) = HostsRest(t, h.lines)
    BY <1>2, HostsOthers
  <2> QED BY <2>1, <2>2
<1>3. CASE t.module = "cron"
  <2>1. Others(t, g) = CronRest(t, g.lines)
    BY <1>3, CronOthers
  <2>2. Others(t, h) = CronRest(t, h.lines)
    BY <1>3, CronOthers
  <2> QED BY <2>1, <2>2
<1>4. CASE t.module = "sysctl"
  <2>1. Others(t, g) = SysctlRest(t, g.lines)
    BY <1>4, SysctlOthers
  <2>2. Others(t, h) = SysctlRest(t, h.lines)
    BY <1>4, SysctlOthers
  <2> QED BY <2>1, <2>2
<1>5. CASE t.module = "mount"
  <2>1. Others(t, g) = MountRest(t, g.lines)
    BY <1>5, MountOthers
  <2>2. Others(t, h) = MountRest(t, h.lines)
    BY <1>5, MountOthers
  <2> QED BY <2>1, <2>2
<1> QED BY <1>1, <1>2, <1>3, <1>4, <1>5 DEF ReadsBeforeItWrites

\* Every host on the way has the entries it had, or those of g.
LEMMA SparesEntries ==
  ASSUME NEW t, t.module \in ReadsBeforeItWrites, NEW h, NEW run, NEW g, Others(t, g) = Others(t, h), IsTrail(run.trail),
         \A s \in Elems(run.trail) : s.host.lines = h.lines \/ s.host.lines = g.lines
  PROVE  Spares(t, h, run)
<1>1. ASSUME NEW s \in Elems(run.trail) PROVE Others(t, s.host) = Others(t, h)
  <2>1. CASE s.host.lines = h.lines
    BY <2>1, SameEntries
  <2>2. CASE s.host.lines = g.lines
    <3>1. Others(t, s.host) = Others(t, g)
      BY <2>2, SameEntries
    <3> QED BY <3>1
  <2> QED BY <2>1, <2>2
<1> QED BY <1>1 DEF Spares

LEMMA SparesTwo ==
  ASSUME NEW t, t.module \in ReadsBeforeItWrites, NEW h, NEW run, NEW a, NEW g, a.host.lines = h.lines,
         Others(t, g) = Others(t, h), run.trail = <<a, Loud(g)>>
  PROVE  Spares(t, h, run)
<1>1. IsTrail(run.trail) /\ Elems(run.trail) = {a, Loud(g)}
  BY ShortTrails, ElemsTwo
<1>2. Loud(g).host = g
  BY LoudQuiet
<1>3. \A s \in Elems(run.trail) : s.host.lines = h.lines \/ s.host.lines = g.lines
  BY <1>1, <1>2
<1> QED BY <1>1, <1>3, SparesEntries

LEMMA KeysOfOthers ==
  ASSUME NEW t, t.module = "authorized_key", NEW h, NEW S, h.lines \in Seq(S)
  PROVE  Others(t, h) = Keep(h.lines, {e \in S : Leaves(t, e)})
<1> DEFINE s == h.lines
           K == {e \in S : Leaves(t, e)}
<1>1. \A i \in DOMAIN s : s[i] \in S
  OBVIOUS
<1>2. \A i \in DOMAIN s : Kept1(s[i], K) = IF Leaves(t, s[i]) THEN <<s[i]>> ELSE <<>>
  BY <1>1 DEF Kept1
<1>3. [i \in DOMAIN s |-> Kept1(s[i], K)] = [i \in DOMAIN s |-> IF Leaves(t, s[i]) THEN <<s[i]>> ELSE <<>>]
  BY <1>2
<1>4. Others(t, h) = KeysRest(t, s)
  BY KeysOthers
<1> QED BY <1>3, <1>4 DEF Keep, KeysRest

LEMMA KeyLineSpares ==
  ASSUME NEW t, NEW e, NEW K, Leaves(t, e) <=> e \in K, Noted(t, e) \in K => Leaves(t, e) /\ Place(t, e.key) = {},
         Place(t, e.key) # {} <=> e.key \in ToSet(t.keys), ~Contains(t.keys, "#"), IsList(t.keys)
  PROVE  Keep(KeyLine(t, e), K) = Kept1(e, K)
<1>1. Keep(<<>>, K) = <<>> /\ Keep(<<e>>, K) = Kept1(e, K) /\ Keep(<<Noted(t, e)>>, K) = Kept1(Noted(t, e), K)
  BY KeepNothing, KeepOne
<1>2. CASE e.key = "#"
  BY <1>1, <1>2 DEF KeyLine
<1>3. CASE e.key # "#" /\ Place(t, e.key) # {}
  <2>1. e \notin K /\ Noted(t, e) \notin K
    BY <1>3 DEF Leaves
  <2>2. Kept1(e, K) = <<>> /\ Kept1(Noted(t, e), K) = <<>>
    BY <2>1 DEF Kept1
  <2>3. KeyLine(t, e) \in {<<>>, <<Noted(t, e)>>}
    BY <1>3 DEF KeyLine
  <2> QED BY <1>1, <2>2, <2>3
<1>4. CASE e.key # "#" /\ Place(t, e.key) = {}
  <2>1. CASE t.state = "present" /\ t.exclusive
    <3>1. KeyLine(t, e) = <<>> /\ e \notin K
      BY <1>4, <2>1 DEF KeyLine, Leaves
    <3> QED BY <1>1, <3>1 DEF Kept1
  <2>2. CASE ~(t.state = "present" /\ t.exclusive)
    <3>1. KeyLine(t, e) = <<e>>
      BY <1>4, <2>2 DEF KeyLine
    <3> QED BY <1>1, <3>1
  <2> QED BY <2>1, <2>2
<1> QED BY <1>2, <1>3, <1>4

LEMMA AuthorizedKeysSpare ==
  ASSUME NEW t, t.module = "authorized_key", NEW h, KeyList(h.lines), IsList(t.keys), ~Contains(t.keys, "#"),
         NEW g, g.lines = AuthorizedKeys(h.lines, t)
  PROVE  Others(t, g) = Others(t, h)
<1> DEFINE s == h.lines
           p == [i \in DOMAIN s |-> KeyLine(t, s[i])]
           kept == FlattenSeq(p)
           q == [i \in DOMAIN t.keys |-> NewKey(s, t, i)]
           missing == FlattenSeq(q)
           A == Elems(s) \cup {Noted(t, e) : e \in Elems(s)}
           T == {Keyed(k, t.note) : k \in Elems(t.keys)}
           S == A \cup T
           K == {e \in S : Leaves(t, e)}
           mine == ToSet(t.keys)
<1>1. kept \in Seq(A)
  BY KeptKeys
<1>2. missing \in Seq(T)
  BY MissingKeys
<1>3. \A e \in T : e.key \in mine
  BY KeyedIs DEF ToSet, Elems
<1>4. g.lines = IF t.state = "absent" THEN kept ELSE kept \o missing
  BY KeysAre
<1>5. mine = {t.keys[i] : i \in DOMAIN t.keys} /\ "#" \notin mine /\ Elems(t.keys) = mine
  <2>1. DOMAIN t.keys = 1..Len(t.keys)
    BY ListSeq
  <2> QED BY <2>1 DEF ToSet, Contains, Elems
<1>6. \A k : Place(t, k) # {} <=> k \in mine
  BY <1>5 DEF Place
<1>7. s \in Seq(Elems(s)) /\ \A i \in DOMAIN s : IsKey(s[i]) /\ s[i] \in Elems(s)
  BY ListSeq DEF KeyList, Elems
<1>8. ASSUME NEW i \in DOMAIN s PROVE Keep(KeyLine(t, s[i]), K) = Kept1(s[i], K)
  <2> DEFINE e == s[i]
  <2>1. IsKey(e) /\ e \in S /\ Noted(t, e) \in S /\ Noted(t, e).key = e.key
    <3>1. IsKey(e) /\ e \in Elems(s)
      BY <1>7
    <3>2. Noted(t, e).key = e.key
      BY KeyedIs DEF Noted
    <3> QED BY <3>1, <3>2
  <2>2. Leaves(t, e) <=> e \in K
    BY <2>1
  <2>3. Leaves(t, Noted(t, e)) => Leaves(t, e)
    BY <2>1 DEF Leaves
  <2> HIDE DEF e
  <2>4. Noted(t, e) \in K => Leaves(t, e)
    BY <2>3
  <2> HIDE DEF K, S
  <2>5. Place(t, e.key) # {} <=> e.key \in mine
    BY <1>6
  <2>6. CASE e.key # "#" \/ Place(t, e.key) = {}
    <3>1. Leaves(t, e) => e.key = "#" \/ Place(t, e.key) = {}
      BY <2>5 DEF Leaves
    <3>2. Noted(t, e) \in K => Leaves(t, e) /\ Place(t, e.key) = {}
      BY <1>5, <2>4, <2>5, <3>1
    <3> QED BY <2>2, <2>5, <3>2, KeyLineSpares DEF e
  <2>7. CASE e.key = "#"
    <3>1. Place(t, e.key) = {}
      BY <1>5, <2>5, <2>7
    <3> QED BY <2>6, <3>1
  <2> QED BY <2>6, <2>7
<1>9. Elems(missing) \cap K = {}
  <2>1. Elems(missing) \subseteq T
    BY <1>2, ListIs
  <2> QED BY <1>3, <1>5, <2>1 DEF Leaves
<1>10. p \in Seq(Seq(A)) /\ DOMAIN p = DOMAIN s /\ \A i \in DOMAIN s : p[i] = KeyLine(t, s[i])
  <2> DEFINE Q == Seq(A)
  <2>1. \A i \in DOMAIN s : KeyLine(t, s[i]) \in Q
    <3> SUFFICES ASSUME NEW i \in DOMAIN s PROVE KeyLine(t, s[i]) \in Seq(A)
      OBVIOUS
    <3>1. KeyLine(t, s[i]) \in Seq({s[i], Noted(t, s[i])})
      BY <1>7, KeyLineIs
    <3>2. {s[i], Noted(t, s[i])} \subseteq A
      BY <1>7
    <3> HIDE DEF A
    <3> QED BY <3>1, <3>2
  <2>2. p \in [1..Len(s) -> Q] /\ Len(s) \in Nat
    <3>1. DOMAIN s = 1..Len(s) /\ Len(s) \in Nat
      BY <1>7
    <3> QED BY <2>1, <3>1
  <2> HIDE DEF Q, p
  <2>3. p \in Seq(Q)
    BY <2>2
  <2> QED BY <2>3 DEF Q, p
<1> HIDE DEF p, q, kept, missing, T, A, mine
<1>11. kept \in Seq(S) /\ missing \in Seq(S) /\ s \in Seq(S)
  <2>1. Elems(s) \subseteq S
    BY DEF A
  <2> HIDE DEF s
  <2> QED BY <1>1, <1>2, <1>7, <2>1
<1> HIDE DEF K, S
<1>12. Keep(kept, K) = Keep(s, K)
  BY <1>8, <1>10, KeepRewritten DEF kept
<1>13. Keep(kept \o missing, K) = Keep(kept, K)
  <2>1. Keep(missing, K) = <<>>
    BY <1>9, <1>11, KeepAll
  <2>2. Keep(kept \o missing, K) = Keep(kept, K) \o Keep(missing, K)
    BY <1>11, KeepJoin
  <2>3. Keep(kept, K) \in Seq(S)
    BY <1>11, KeepList
  <2> QED BY <2>1, <2>2, <2>3
<1>14. g.lines \in Seq(S) /\ Keep(g.lines, K) = Keep(s, K)
  BY <1>4, <1>11, <1>12, <1>13
<1>15. Others(t, g) = Keep(g.lines, K) /\ Others(t, h) = Keep(s, K)
  BY <1>11, <1>14, KeysOfOthers DEF K
<1> QED BY <1>14, <1>15

LEMMA AuthorizedKeySpares ==
  ASSUME NEW t, NEW h, NEW check, Fits(t, h), t.module = "authorized_key"
  PROVE  Spares(t, h, AuthorizedKeyRun(h, h.lines, t, check))
<1> DEFINE new == AuthorizedKeys(h.lines, t)
           g == WithLines(h, new)
           run == AuthorizedKeyRun(h, h.lines, t, check)
<1>1. /\ "lines" \in DOMAIN h /\ KeyList(h.lines) /\ IsList(t.keys) /\ ~Contains(t.keys, "#")
      /\ t.module \in ReadsBeforeItWrites
  BY DEF Fits, FitsEntries, ReadsBeforeItWrites, KeyList, IsKey, Keyed
<1>2. g.lines = new
  BY <1>1, WithLinesIs
<1> HIDE DEF g
<1>3. Others(t, g) = Others(t, h)
  BY <1>1, <1>2, AuthorizedKeysSpare
<1> DEFINE k == IF h.writable THEN g ELSE h
           r == Changes(Said(<<h, k>>))
<1>4. run \in {Unchanged, Reports(TRUE), r}
  BY DEF AuthorizedKeyRun, g
<1>5. r.trail = <<Loud(h), Loud(k)>>
  BY RunParts, SaidTwo
<1>6. Loud(h).host = h
  BY LoudQuiet
<1> HIDE DEF r, run
<1>7. Spares(t, h, r)
  <2>1. Others(t, k) = Others(t, h)
    BY <1>3
  <2> HIDE DEF k
  <2> QED BY <1>1, <1>5, <1>6, <2>1, SparesTwo
<1> QED BY <1>4, <1>7, SparesUnmoved DEF r, run

\* What others have in one line of known_hosts.
HostRest(t, e) == {<<n, e.type, e.blob>> : n \in e.hosts \ {t.name}}

LEMMA HostsRestIs ==
  ASSUME NEW t, NEW s
  PROVE  \A x : x \in HostsRest(t, s) <=> \E e \in Elems(s) : x \in HostRest(t, e)
<1>1. HostsRest(t, s) = UNION {HostRest(t, s[i]) : i \in DOMAIN s}
  BY DEF HostsRest, HostRest
<1> QED BY <1>1 DEF Elems

LEMMA HostRestNone ==
  ASSUME NEW t
  PROVE  /\ HostRest(t, HostTarget(t)) = {}
         /\ \A e : (t.name \in e.hosts => e.hosts = {t.name}) /\ NamesHost(t, e) => HostRest(t, e) = {}
BY DEF HostRest, HostTarget, NamesHost

LEMMA HostsSpare ==
  ASSUME NEW s, IsList(s), NEW t, t.state \in {"present", "absent"},
         \A i \in DOMAIN s : t.name \in s[i].hosts => s[i].hosts = {t.name}
  PROVE  HostsRest(t, KnownHosts(s, t)) = HostsRest(t, s)
<1> DEFINE n == HostTarget(t)
           p == [i \in DOMAIN s |-> HostLine(t, s[i])]
           kept == FlattenSeq(p)
           S == Elems(s) \cup {n}
           r == KnownHosts(s, t)
           here == \E i \in DOMAIN s : SameHost(t, s[i])
<1>1. \A i \in DOMAIN s : p[i] \in Seq(S)
  <2> SUFFICES ASSUME NEW i \in DOMAIN s PROVE HostLine(t, s[i]) \in Seq(S)
    OBVIOUS
  <2>1. HostLine(t, s[i]) \in Seq({s[i], n})
    BY HostLineIs
  <2>2. {s[i], n} \subseteq S
    BY DEF Elems
  <2> HIDE DEF S
  <2> QED BY <2>1, <2>2
<1>2. kept \in Seq(S) /\ Gathers(kept, p)
  <2>1. p = [i \in DOMAIN s |-> p[i]]
    OBVIOUS
  <2> HIDE DEF p, S
  <2> QED BY <1>1, <2>1, Pieces
<1>3. r = IF t.state = "present" /\ ~here THEN Append(kept, n) ELSE kept
  BY HostsAre
<1> HIDE DEF here, kept, r, S
<1>4. \A e : e \in Elems(r) => e \in Elems(kept) \/ e = n
  <2>1. CASE r = kept
    BY <2>1
  <2>2. CASE r = Append(kept, n)
    <3>1. r = kept \o <<n>>
      BY <1>2, <2>2
    <3>2. IsTrail(kept) /\ IsTrail(<<n>>) /\ Elems(<<n>>) = {n}
      BY <1>2, ElemsShort, ShortTrails DEF IsTrail
    <3>3. Elems(r) = Elems(kept) \cup {n}
      BY <3>1, <3>2, ElemsJoin
    <3> QED BY <3>3
  <2> QED BY <1>3, <2>1, <2>2
<1>5. \A e : e \in Elems(kept) => e \in Elems(r)
  <2>1. CASE r = kept
    BY <2>1
  <2>2. CASE r = Append(kept, n)
    <3>1. r = kept \o <<n>>
      BY <1>2, <2>2
    <3>2. IsTrail(kept) /\ IsTrail(<<n>>)
      BY <1>2, ShortTrails DEF IsTrail
    <3>3. Elems(r) = Elems(kept) \cup Elems(<<n>>)
      BY <3>1, <3>2, ElemsJoin
    <3> QED BY <3>3
  <2> QED BY <1>3, <2>1, <2>2
<1>6. ASSUME NEW x \in HostsRest(t, r) PROVE x \in HostsRest(t, s)
  <2>1. PICK e \in Elems(r) : x \in HostRest(t, e)
    BY <1>6, HostsRestIs
  <2>2. e # n
    BY <2>1, HostRestNone
  <2>3. e \in Elems(kept)
    BY <1>4, <2>1, <2>2
  <2>4. PICK i \in DOMAIN p : e \in Elems(p[i])
    BY <1>2, <2>3 DEF Gathers
  <2>5. i \in DOMAIN s /\ e \in Elems(HostLine(t, s[i]))
    BY <2>4
  <2>6. e = s[i]
    <3>1. HostLine(t, s[i]) \in Seq({s[i], n})
      BY HostLineIs
    <3> HIDE DEF n
    <3>2. Elems(HostLine(t, s[i])) \subseteq {s[i], n}
      BY <3>1, ListIs
    <3> QED BY <2>2, <2>5, <3>2
  <2>7. e \in Elems(s)
    BY <2>5, <2>6 DEF Elems
  <2> QED BY <2>1, <2>7, HostsRestIs
<1>7. ASSUME NEW x \in HostsRest(t, s) PROVE x \in HostsRest(t, r)
  <2>1. PICK e \in Elems(s) : x \in HostRest(t, e)
    BY <1>7, HostsRestIs
  <2>2. PICK i \in DOMAIN s : e = s[i]
    BY <2>1 DEF Elems
  <2>3. ~NamesHost(t, e)
    BY <2>1, <2>2, HostRestNone
  <2>4. HostLine(t, e) = <<e>>
    BY <2>3 DEF HostLine, SameHost
  <2>5. e \in Elems(p[i]) /\ i \in DOMAIN p
    BY <2>2, <2>4, ElemsShort
  <2>6. e \in Elems(kept)
    BY <1>2, <2>5 DEF Gathers
  <2>7. e \in Elems(r)
    BY <1>5, <2>6
  <2> QED BY <2>1, <2>7, HostsRestIs
<1>8. HostsRest(t, r) = HostsRest(t, s)
  BY <1>6, <1>7
<1> QED BY <1>8 DEF r

LEMMA KnownHostsSpare ==
  ASSUME NEW t, NEW h, NEW check, Fits(t, h), t.module = "known_hosts", ~TakesOthers(t, h)
  PROVE  Spares(t, h, KnownHostsRun(h, h.lines, t, check))
<1> DEFINE new == KnownHosts(h.lines, t)
           g == WithLines(h, new)
           run == KnownHostsRun(h, h.lines, t, check)
<1>1. /\ "lines" \in DOMAIN h /\ IsList(h.lines) /\ t.state \in {"present", "absent"} /\ t.module \in ReadsBeforeItWrites
  BY DEF Fits, FitsEntries, ReadsBeforeItWrites
<1>2. g.lines = new
  BY <1>1, WithLinesIs
<1> HIDE DEF g
<1>3. \A i \in DOMAIN h.lines : t.name \in h.lines[i].hosts => h.lines[i].hosts = {t.name}
  BY DEF TakesOthers
<1>4. Others(t, g) = Others(t, h)
  <2>1. HostsRest(t, new) = HostsRest(t, h.lines)
    BY <1>1, <1>3, HostsSpare
  <2>2. Others(t, g) = HostsRest(t, new)
    BY <1>2, HostsOthers
  <2>3. Others(t, h) = HostsRest(t, h.lines)
    BY HostsOthers
  <2> QED BY <2>1, <2>2, <2>3
<1>5. run \in {Unchanged, Reports(TRUE), Changes(<<Quiet(h), Loud(g)>>)}
  BY DEF KnownHostsRun, g
<1> DEFINE r == Changes(<<Quiet(h), Loud(g)>>)
<1>6. r.trail = <<Quiet(h), Loud(g)>>
  BY RunParts
<1>7. Quiet(h).host = h
  BY LoudQuiet
<1> HIDE DEF r, run
<1>8. Spares(t, h, r)
  BY <1>1, <1>4, <1>6, <1>7, SparesTwo
<1> QED BY <1>5, <1>8, SparesUnmoved DEF r, run

\* The entries of one kind of a list of settings or of mounts.
LEMMA SysctlKept ==
  ASSUME NEW S, NEW s \in Seq(S), NEW t
  PROVE  SysctlRest(t, s) = Keep(s, {e \in S : e.name # t.name})
<1> DEFINE K == {e \in S : e.name # t.name}
<1>1. \A i \in DOMAIN s : s[i] \in S
  OBVIOUS
<1>2. \A i \in DOMAIN s : Kept1(s[i], K) = IF s[i].name # t.name THEN <<s[i]>> ELSE <<>>
  BY <1>1 DEF Kept1
<1>3. [i \in DOMAIN s |-> Kept1(s[i], K)] = [i \in DOMAIN s |-> IF s[i].name # t.name THEN <<s[i]>> ELSE <<>>]
  BY <1>2
<1> QED BY <1>3 DEF Keep, SysctlRest

LEMMA SysctlFileSpares ==
  ASSUME NEW s, IsList(s), NEW t, t.state \in {"present", "absent"}
  PROVE  SysctlRest(t, SysctlFile(s, t)) = SysctlRest(t, s)
<1> DEFINE e == [name |-> t.name, value |-> t.value]
           found == Named(s, t.name)
           S == Elems(s) \cup {e}
           K == {x \in S : x.name # t.name}
           r == SysctlFile(s, t)
<1>1. s \in Seq(S) /\ DOMAIN s = 1..Len(s) /\ Len(s) \in Nat
  <2>1. s \in Seq(Elems(s)) /\ DOMAIN s = 1..Len(s) /\ Len(s) \in Nat
    BY ListSeq
  <2>2. Elems(s) \subseteq S
    OBVIOUS
  <2> HIDE DEF S
  <2> QED BY <2>1, <2>2
<1>2. found # {} => First(found) \in found /\ First(found) \in DOMAIN s
  <2>1. found \subseteq Nat /\ found \subseteq DOMAIN s
    BY <1>1 DEF Named
  <2> HIDE DEF found
  <2> QED BY <2>1, LeastIs
<1>3. e \in S /\ e \notin K
  OBVIOUS
<1>4. SysctlRest(t, s) = Keep(s, K)
  <2> HIDE DEF S
  <2> QED BY <1>1, SysctlKept
<1>5. CASE t.state = "absent"
  <2>1. r = SysctlRest(t, s)
    BY <1>5 DEF SysctlFile, Filtered, Rewritten, SysctlRest
  <2> HIDE DEF r, S, K
  <2>2. r \in Seq(S)
    BY <1>1, <1>4, <2>1, KeepList
  <2>3. Keep(r, K) = Keep(s, K \cap K)
    BY <1>1, <1>4, <2>1, KeepTwice
  <2>4. SysctlRest(t, r) = Keep(r, K)
    BY <2>2, SysctlKept DEF K
  <2> QED BY <1>4, <2>3, <2>4 DEF r
<1>6. CASE t.state = "present" /\ found = {}
  <2>1. r = Append(s, e)
    BY <1>6 DEF SysctlFile
  <2> HIDE DEF r, S, K, e
  <2>2. r \in Seq(S)
    BY <1>1, <1>3, <2>1
  <2>3. Keep(r, K) = Keep(s, K)
    BY <1>1, <1>3, <2>1, KeepInserted
  <2>4. SysctlRest(t, r) = Keep(r, K)
    BY <2>2, SysctlKept DEF K
  <2> QED BY <1>4, <2>3, <2>4 DEF r
<1>7. CASE t.state = "present" /\ found # {}
  <2>1. r = ReplaceAt(s, First(found), e)
    BY <1>7 DEF SysctlFile
  <2>2. First(found) \in DOMAIN s /\ s[First(found)].name = t.name
    <3>1. \A i \in found : s[i].name = t.name
      BY DEF Named
    <3> HIDE DEF found
    <3> QED BY <1>2, <1>7, <3>1
  <2>3. s[First(found)] \notin K
    BY <2>2
  <2> HIDE DEF r, S, K, e, found
  <2>4. r \in Seq(S)
    <3>1. r \in Seq(S \cup {e}) /\ S \cup {e} = S
      BY <1>1, <1>3, <2>1, <2>2, Replacing
    <3> QED BY <3>1
  <2>5. Keep(r, K) = Keep(s, K)
    BY <1>1, <1>3, <2>1, <2>2, <2>3, KeepReplaced
  <2>6. SysctlRest(t, r) = Keep(r, K)
    BY <2>4, SysctlKept DEF K
  <2> QED BY <1>4, <2>5, <2>6 DEF r
<1> QED BY <1>5, <1>6, <1>7

LEMMA SysctlSpares ==
  ASSUME NEW t, NEW h, NEW check, Fits(t, h), t.module = "sysctl"
  PROVE  Spares(t, h, SysctlRun(h, h.lines, t, check))
<1> DEFINE file == SysctlFile(h.lines, t)
           inFile == file # h.lines
           inKernel == t.state = "present" /\ h.live # t.value
           before == t.state = "present" /\ t.set
           bad == t.value = "bad" /\ ~t.ignore
           h1 == IF before THEN SetLive(h, t) ELSE h
           h2 == IF inFile THEN WithLines(h1, file) ELSE h1
           loads == (inFile \/ t.state = "present") /\ t.reload
           h3 == IF loads THEN Reload(h2, t) ELSE h2
           after == inKernel /\ ~before
           h4 == IF after THEN SetLive(h3, t) ELSE h3
           steps == Opt(before, h1) \o Opt(inFile, h2)
           run == SysctlRun(h, h.lines, t, check)
           g == WithLines(h, file)
           Is(f) == f.lines = h.lines \/ f.lines = g.lines
<1>1. /\ {"lines", "live", "bak"} \subseteq DOMAIN h /\ IsList(h.lines)
      /\ t.state \in {"present", "absent"} /\ t.module \in ReadsBeforeItWrites
  BY DEF Fits, FitsEntries, ReadsBeforeItWrites
<1>2. Others(t, g) = Others(t, h)
  <2>1. SysctlRest(t, file) = SysctlRest(t, h.lines)
    BY <1>1, SysctlFileSpares
  <2> HIDE DEF file
  <2>2. g.lines = file
    BY <1>1, WithLinesIs
  <2> HIDE DEF g
  <2>3. Others(t, g) = SysctlRest(t, file)
    BY <2>2, SysctlOthers
  <2>4. Others(t, h) = SysctlRest(t, h.lines)
    BY SysctlOthers
  <2> QED BY <2>1, <2>3, <2>4
<1>3. run \in {Unchanged, Reports(TRUE), Refused, Ran(Said(steps \o <<h3>>), FALSE, TRUE),
              Ran(Said(steps \o Opt(loads, h3) \o Opt(after, h4)), TRUE, after /\ bad)}
  BY DEF SysctlRun, Opt
<1> HIDE DEF run, file
<1>7. h1 = (IF before THEN SetLive(h, t) ELSE h) /\ DOMAIN h1 = DOMAIN h /\ h1.lines = h.lines
  <2> HIDE DEF before
  <2> QED BY <1>1, Setting
<1>8. h2 = (IF inFile THEN WithLines(h1, file) ELSE h1)
  OBVIOUS
<1> HIDE DEF h1, h2
<1>9. DOMAIN h2 = DOMAIN h /\ h2.lines = (IF inFile THEN file ELSE h.lines)
  BY <1>1, <1>7, <1>8, WithLinesIs
<1>10. DOMAIN h3 = DOMAIN h /\ h3.lines = h2.lines
  <2> HIDE DEF loads
  <2> QED BY <1>1, <1>9, Reloading
<1> HIDE DEF h3
<1>11. h4.lines = h3.lines
  <2> HIDE DEF after
  <2> QED BY <1>1, <1>10, Setting
<1> HIDE DEF h4
<1>12. g.lines = file
  BY <1>1, WithLinesIs
<1> HIDE DEF g
<1>13. Is(h1) /\ Is(h2) /\ Is(h3) /\ Is(h4)
  BY <1>7, <1>9, <1>10, <1>11, <1>12
<1> HIDE DEF Is
<1>14. IsTrail(steps) /\ Elems(steps) \subseteq {h1, h2}
  <2> HIDE DEF before, inFile
  <2> DEFINE a == Opt(before, h1)
  <2>1. IsTrail(a) /\ Elems(a) \subseteq {h1}
    BY OptFirst
  <2> HIDE DEF a
  <2>2. IsTrail(a \o Opt(inFile, h2)) /\ Elems(a \o Opt(inFile, h2)) \subseteq Elems(a) \cup {h2}
    BY <2>1, OptBehind
  <2> QED BY <2>1, <2>2 DEF a
<1> HIDE DEF steps, after, loads, bad
<1>15. ASSUME NEW s, IsTrail(s), Elems(s) \subseteq {h1, h2, h3, h4}, NEW c, NEW f PROVE Spares(t, h, Ran(Said(s), c, f))
  <2> DEFINE q == Ran(Said(s), c, f)
  <2>1. q.trail = Said(s)
    BY DEF Ran
  <2> HIDE DEF q
  <2>2. IsTrail(q.trail)
    BY <1>15, <2>1, SaidHushed
  <2>3. \A x \in Elems(q.trail) : x.host.lines = h.lines \/ x.host.lines = g.lines
    <3> SUFFICES ASSUME NEW x \in Elems(Said(s)) PROVE Is(x.host)
      BY <2>1 DEF Is
    <3>1. PICK y \in Elems(s) : x = Loud(y)
      BY <1>15, ElemsSaid
    <3>2. x.host = y
      BY <3>1, LoudQuiet
    <3> QED BY <1>13, <1>15, <3>1, <3>2
  <2>4. Spares(t, h, q)
    BY <1>1, <1>2, <2>2, <2>3, SparesEntries
  <2> QED BY <2>4 DEF q
<1>16. Spares(t, h, Ran(Said(steps \o <<h3>>), FALSE, TRUE))
  <2> DEFINE s == steps \o <<h3>>
  <2>1. IsTrail(<<h3>>) /\ Elems(<<h3>>) = {h3}
    BY ElemsShort, ShortTrails
  <2>2. IsTrail(s) /\ Elems(s) = Elems(steps) \cup {h3}
    BY <1>14, <2>1, LastJoin
  <2>3. Elems(s) \subseteq {h1, h2, h3, h4}
    BY <1>14, <2>2
  <2> HIDE DEF s
  <2> QED BY <1>15, <2>2, <2>3 DEF s
<1>17. Spares(t, h, Ran(Said(steps \o Opt(loads, h3) \o Opt(after, h4)), TRUE, after /\ bad))
  <2> DEFINE s1 == steps \o Opt(loads, h3)
             s == s1 \o Opt(after, h4)
  <2>1. IsTrail(s1) /\ Elems(s1) \subseteq Elems(steps) \cup {h3}
    BY <1>14, OptBehind
  <2> HIDE DEF s1
  <2>2. IsTrail(s) /\ Elems(s) \subseteq Elems(s1) \cup {h4}
    BY <2>1, OptBehind
  <2>3. Elems(s) \subseteq {h1, h2, h3, h4}
    BY <1>14, <2>1, <2>2
  <2> HIDE DEF s
  <2>4. Spares(t, h, Ran(Said(s), TRUE, after /\ bad))
    BY <1>15, <2>2, <2>3
  <2> QED BY <2>4 DEF s, s1
<1>18. Spares(t, h, run)
  BY <1>3, <1>16, <1>17, SparesUnmoved
<1> QED BY <1>18 DEF run, file

LEMMA MountKept ==
  ASSUME NEW S, NEW s \in Seq(S), NEW t
  PROVE  MountRest(t, s) = Keep(s, {e \in S : e.path # t.path})
<1> DEFINE K == {e \in S : e.path # t.path}
<1>1. \A i \in DOMAIN s : s[i] \in S
  OBVIOUS
<1>2. \A i \in DOMAIN s : Kept1(s[i], K) = IF s[i].path # t.path THEN <<s[i]>> ELSE <<>>
  BY <1>1 DEF Kept1
<1>3. [i \in DOMAIN s |-> Kept1(s[i], K)] = [i \in DOMAIN s |-> IF s[i].path # t.path THEN <<s[i]>> ELSE <<>>]
  BY <1>2
<1> QED BY <1>3 DEF Keep, MountRest

LEMMA KeepRemoved ==
  ASSUME NEW S, NEW K, NEW s \in Seq(S), NEW i \in DOMAIN s, s[i] \notin K
  PROVE  Keep(RemoveAt(s, i), K) = Keep(s, K)
<1> DEFINE a == SubSeq(s, 1, i - 1)
           b == SubSeq(s, i + 1, Len(s))
<1>1. Len(s) \in Nat /\ DOMAIN s = 1..Len(s) /\ i \in 1..Len(s)
  OBVIOUS
<1>2. a \in Seq(S)
  <2>1. \A k \in 1..Len(s) : s[k] \in S
    OBVIOUS
  <2> QED BY <1>1, <2>1
<1>3. RemoveAt(s, i) = a \o b /\ Splice(s, i, i, <<>>) = (a \o <<>>) \o b
  BY DEF RemoveAt, Splice
<1> DEFINE c == a \o <<>>
<1> HIDE DEF a, b
<1>4. c = a
  BY <1>2
<1> HIDE DEF c
<1>5. RemoveAt(s, i) = Splice(s, i, i, <<>>)
  <2>1. Splice(s, i, i, <<>>) = c \o b
    BY <1>3 DEF c
  <2>2. RemoveAt(s, i) = a \o b
    BY <1>3
  <2> QED BY <1>4, <2>1, <2>2
<1>6. i \in 1..(Len(s) + 1) /\ i \in 0..Len(s) /\ i - 1 <= i /\ \A j \in i..i : s[j] \notin K
  BY <1>1
<1>7. <<>> \in Seq(S) /\ Elems(<<>>) \cap K = {}
  <2>1. <<>> \in Seq(S)
    OBVIOUS
  <2>2. Elems(<<>>) = {}
    BY ElemsShort
  <2> QED BY <2>1, <2>2
<1>8. Keep(Splice(s, i, i, <<>>), K) = Keep(s, K)
  BY <1>6, <1>7, KeepSplice
<1> QED BY <1>5, <1>8

LEMMA FstabSpares ==
  ASSUME NEW s, IsList(s), NEW t
  PROVE  MountRest(t, Fstab(s, t)) = MountRest(t, s)
<1> DEFINE e == [path |-> t.path, src |-> t.src, opts |-> t.opts]
           found == At(s, t.path)
           hit == First(found)
           S == Elems(s) \cup {e}
           K == {x \in S : x.path # t.path}
           r == Fstab(s, t)
<1>1. s \in Seq(S) /\ DOMAIN s = 1..Len(s) /\ Len(s) \in Nat
  <2>1. s \in Seq(Elems(s)) /\ DOMAIN s = 1..Len(s) /\ Len(s) \in Nat
    BY ListSeq
  <2>2. Elems(s) \subseteq S
    OBVIOUS
  <2> HIDE DEF S
  <2> QED BY <2>1, <2>2
<1>2. found # {} => hit \in DOMAIN s /\ s[hit].path = t.path
  <2>1. found \subseteq Nat /\ found \subseteq DOMAIN s /\ \A i \in found : s[i].path = t.path
    BY <1>1 DEF At
  <2> HIDE DEF found
  <2> QED BY <2>1, LeastIs
<1>3. e \in S /\ e \notin K
  OBVIOUS
<1>4. found # {} => s[hit] \notin K
  BY <1>2
<1>5. MountRest(t, s) = Keep(s, K)
  <2> HIDE DEF S
  <2> QED BY <1>1, MountKept
<1>6. ASSUME r \in Seq(S), Keep(r, K) = Keep(s, K) PROVE MountRest(t, r) = MountRest(t, s)
  <2> HIDE DEF r, S
  <2>1. MountRest(t, r) = Keep(r, K)
    BY <1>6, MountKept
  <2> QED BY <1>5, <1>6, <2>1
<1>7. CASE AtBoot(t) /\ found = {}
  <2>1. r = Append(s, e)
    BY <1>7 DEF Fstab, AtBoot
  <2> HIDE DEF r, S, K, e
  <2>2. r \in Seq(S)
    BY <1>1, <1>3, <2>1
  <2>3. Keep(r, K) = Keep(s, K)
    BY <1>1, <1>3, <2>1, KeepInserted
  <2> QED BY <1>6, <2>2, <2>3 DEF r
<1>8. CASE AtBoot(t) /\ found # {}
  <2>1. r = ReplaceAt(s, hit, e)
    BY <1>8 DEF Fstab, AtBoot
  <2> HIDE DEF r, S, K, e, found, hit
  <2>2. r \in Seq(S)
    <3>1. r \in Seq(S \cup {e}) /\ S \cup {e} = S
      BY <1>1, <1>2, <1>3, <1>8, <2>1, Replacing
    <3> QED BY <3>1
  <2>3. Keep(r, K) = Keep(s, K)
    BY <1>1, <1>2, <1>3, <1>4, <1>8, <2>1, KeepReplaced
  <2> QED BY <1>6, <2>2, <2>3 DEF r
<1>9. CASE t.state = "absent" /\ found # {}
  <2>1. r = RemoveAt(s, hit)
    BY <1>9 DEF Fstab
  <2> HIDE DEF r, S, K, found, hit
  <2>2. r \in Seq(S)
    BY <1>1, <1>2, <1>9, <2>1, Removing
  <2>3. Keep(r, K) = Keep(s, K)
    BY <1>1, <1>2, <1>4, <1>9, <2>1, KeepRemoved
  <2> QED BY <1>6, <2>2, <2>3 DEF r
<1>10. CASE ~AtBoot(t) /\ ~(t.state = "absent" /\ found # {})
  <2>1. r = s
    BY <1>10 DEF Fstab, AtBoot
  <2> QED BY <2>1
<1> QED BY <1>7, <1>8, <1>9, <1>10

LEMMA MountSpares ==
  ASSUME NEW t, NEW h, NEW check, Fits(t, h), t.module = "mount"
  PROVE  Spares(t, h, MountRun(h, h.lines, t, check))
<1> DEFINE file == Fstab(h.lines, t)
           inFile == file # h.lines
           up == h.live # NotMounted
           acts == CASE t.state = "mounted" -> ~up \/ inFile
                     [] t.state \in {"unmounted", "absent"} -> up
                     [] t.state = "remounted" -> TRUE
                     [] t.state = "present" -> FALSE
           h1 == IF inFile THEN WithLines(h, file) ELSE h
           asked == Completed(h.lines, t)
           live == CASE t.state \in {"unmounted", "absent"} -> NotMounted
                     [] t.state = "mounted" /\ ~up -> Mounted(h, h1.lines, t)
                     [] t.state = "remounted" /\ ~up -> IF asked.src \in {"", "bad"} THEN h.live ELSE asked
                     [] OTHER -> [h.live EXCEPT !.opts = t.opts]
           fails == t.state \in {"mounted", "remounted"} /\ live = NotMounted
           h2 == [h1 EXCEPT !.live = live]
           run == MountRun(h, h.lines, t, check)
           g == WithLines(h, file)
           a == IF inFile THEN <<Loud(h1)>> ELSE <<>>
           b == IF acts THEN <<Loud(h2)>> ELSE <<>>
           q == Ran(a \o b, TRUE, acts /\ fails)
<1>1. {"lines", "live", "bak"} \subseteq DOMAIN h /\ IsList(h.lines) /\ t.module \in ReadsBeforeItWrites
  BY DEF Fits, FitsEntries, ReadsBeforeItWrites
<1>2. Others(t, g) = Others(t, h)
  <2>1. MountRest(t, file) = MountRest(t, h.lines)
    BY <1>1, FstabSpares
  <2> HIDE DEF file
  <2>2. g.lines = file
    BY <1>1, WithLinesIs
  <2> HIDE DEF g
  <2>3. Others(t, g) = MountRest(t, file)
    BY <2>2, MountOthers
  <2>4. Others(t, h) = MountRest(t, h.lines)
    BY MountOthers
  <2> QED BY <2>1, <2>3, <2>4
<1>3. run \in {Unchanged, Reports(TRUE), q}
  BY DEF MountRun
<1> HIDE DEF run, file, acts, live, asked
<1>4. g.lines = file
  BY <1>1, WithLinesIs
<1>5. DOMAIN h1 = DOMAIN h /\ (h1.lines = h.lines \/ h1.lines = g.lines)
  <2> HIDE DEF inFile
  <2> QED BY <1>1, <1>4, WithLinesIs
<1> HIDE DEF h1, g
<1>6. h2.lines = h1.lines
  BY <1>1, <1>5
<1> HIDE DEF h2
<1>7. a \in {<<Loud(h1)>>, <<>>} /\ b \in {<<Loud(h2)>>, <<>>}
  OBVIOUS
<1>8. IsTrail(a) /\ Elems(a) \subseteq {Loud(h1)} /\ IsTrail(b) /\ Elems(b) \subseteq {Loud(h2)}
  <2> HIDE DEF a, b
  <2> QED BY <1>7, ElemsShort, ShortTrails
<1>9. q.trail = a \o b
  BY DEF Ran
<1> HIDE DEF a, b, q, fails
<1>10. IsTrail(q.trail) /\ Elems(q.trail) \subseteq {Loud(h1), Loud(h2)}
  BY <1>8, <1>9, LastJoin
<1>11. \A x \in Elems(q.trail) : x.host.lines = h.lines \/ x.host.lines = g.lines
  BY <1>5, <1>6, <1>10, LoudQuiet
<1>12. Spares(t, h, q)
  BY <1>1, <1>2, <1>10, <1>11, SparesEntries
<1>13. Spares(t, h, run)
  BY <1>3, <1>12, SparesUnmoved
<1> QED BY <1>13 DEF run, file

\* A crontab in which no comment follows the comment c, the lines that belong
\* to c in such a table, and the lines that do not.
Clean(s, c) == \A i \in 1..(Len(s) - 1) : s[i] = c => s[i + 1].kind # "comment"
NamedMine(s, c, i) == s[i] = c \/ (i > 1 /\ s[i - 1] = c)
NamedRest(s, c) == FlattenSeq([i \in DOMAIN s |-> IF NamedMine(s, c, i) THEN <<>> ELSE <<s[i]>>])

LEMMA CleanHeads ==
  ASSUME NEW s, EntryList(s), NEW name, Clean(s, Comment(name))
  PROVE  /\ ~Heads(s, name)[0]
         /\ \A i \in 1..Len(s) : Heads(s, name)[i] <=> s[i] = Comment(name)
         /\ \A i \in 1..Len(s) : Heads(s, name)[i - 1] <=> i > 1 /\ s[i - 1] = Comment(name)
<1> DEFINE c == Comment(name)
           H == Heads(s, name)
           N == Len(s)
<1>1. IsList(s) /\ N \in Nat /\ DOMAIN s = 1..N
  BY ListSeq DEF EntryList
<1>2. ~H[0] /\ \A i \in 1..N : H[i] <=> s[i] = c /\ ~H[i - 1]
  BY <1>1, HeadsAre
<1>3. c.kind = "comment"
  BY DEF Comment
<1>4. \A i \in 1..(N - 1) : s[i] = c => s[i + 1].kind # "comment"
  BY DEF Clean
<1> HIDE DEF c, H, N
<1>5. ASSUME NEW i \in 1..N, s[i] = c PROVE ~H[i - 1]
  <2>1. CASE i = 1
    BY <1>2, <2>1
  <2>2. CASE i > 1
    <3>1. i - 1 \in 1..N /\ i - 1 \in 1..(N - 1) /\ (i - 1) + 1 = i
      BY <1>1, <2>2
    <3>2. H[i - 1] => s[i - 1] = c
      BY <1>2, <3>1
    <3>3. s[i - 1] = c => s[i].kind # "comment"
      BY <1>4, <3>1
    <3> QED BY <1>3, <1>5, <3>2, <3>3
  <2> QED BY <1>1, <2>1, <2>2
<1>6. \A i \in 1..N : H[i] <=> s[i] = c
  BY <1>2, <1>5
<1>7. ASSUME NEW i \in 1..N PROVE H[i - 1] <=> i > 1 /\ s[i - 1] = c
  <2>1. CASE i = 1
    BY <1>2, <2>1
  <2>2. CASE i > 1
    <3>1. i - 1 \in 1..N
      BY <1>1, <2>2
    <3> QED BY <1>6, <2>2, <3>1
  <2> QED BY <1>1, <2>1, <2>2
<1> QED BY <1>2, <1>6, <1>7 DEF c, H, N

LEMMA CleanRest ==
  ASSUME NEW s, EntryList(s), NEW t, t.name # <<>>, Clean(s, Comment(t.name))
  PROVE  CronRest(t, s) = NamedRest(s, Comment(t.name))
<1> DEFINE c == Comment(t.name)
<1>1. DOMAIN s = 1..Len(s) /\ Len(s) \in Nat /\ \A i \in DOMAIN s : IsEntry(s[i])
  BY ListSeq DEF EntryList
<1>2. ASSUME NEW i \in DOMAIN s PROVE CronMine(t, s, i) <=> NamedMine(s, c, i)
  <2>1. Heads(s, t.name)[i - 1] <=> i > 1 /\ s[i - 1] = c
    BY <1>1, CleanHeads
  <2>2. CronMine(t, s, i) <=> s[i] = c \/ (Heads(s, t.name)[i - 1] /\ s[i].kind = "job")
    BY DEF CronMine
  <2>3. i > 1 /\ s[i - 1] = c => s[i].kind = "job"
    <3> SUFFICES ASSUME i > 1, s[i - 1] = c PROVE s[i].kind = "job"
      OBVIOUS
    <3>1. i - 1 \in 1..(Len(s) - 1) /\ (i - 1) + 1 = i
      BY <1>1
    <3>2. s[i].kind # "comment"
      BY <3>1 DEF Clean
    <3> QED BY <1>1, <3>2 DEF IsEntry
  <2> HIDE DEF c
  <2> QED BY <2>1, <2>2, <2>3 DEF NamedMine
<1> HIDE DEF c
<1>3. [i \in DOMAIN s |-> IF CronMine(t, s, i) THEN <<>> ELSE <<s[i]>>]
        = [i \in DOMAIN s |-> IF NamedMine(s, c, i) THEN <<>> ELSE <<s[i]>>]
  BY <1>2
<1>4. CronRest(t, s) = NamedRest(s, c)
  BY <1>3 DEF CronRest, NamedRest
<1> QED BY <1>4 DEF c

\* One more line that belongs to c.
LEMMA NamedMore ==
  ASSUME NEW S, NEW s \in Seq(S), NEW e \in S, NEW c, NamedMine(Append(s, e), c, Len(s) + 1)
  PROVE  NamedRest(Append(s, e), c) = NamedRest(s, c)
<1> DEFINE r == Append(s, e)
           N == Len(s)
           F(i) == IF NamedMine(s, c, i) THEN <<>> ELSE <<s[i]>>
           G(i) == IF NamedMine(r, c, i) THEN <<>> ELSE <<r[i]>>
           p == [i \in DOMAIN s |-> F(i)]
           q == [i \in DOMAIN r |-> G(i)]
<1>1. N \in Nat /\ DOMAIN s = 1..N /\ DOMAIN r = 1..(N + 1) /\ \A i \in 1..N : r[i] = s[i]
  OBVIOUS
<1>2. G(N + 1) = <<>>
  OBVIOUS
<1>3. \A i \in 1..N : G(i) = F(i)
  <2> SUFFICES ASSUME NEW i \in 1..N PROVE G(i) = F(i)
    OBVIOUS
  <2>1. r[i] = s[i] /\ (i > 1 => r[i - 1] = s[i - 1])
    BY <1>1
  <2> HIDE DEF r
  <2>2. NamedMine(r, c, i) <=> NamedMine(s, c, i)
    BY <2>1 DEF NamedMine
  <2> QED BY <2>1, <2>2
<1>4. \A i \in 1..N : F(i) \in Seq(S)
  OBVIOUS
<1> DEFINE Q == Seq(S)
<1>5. p \in Seq(Q) /\ Len(p) = N /\ \A i \in 1..N : p[i] = F(i)
  <2>1. \A i \in 1..N : F(i) \in Q
    BY <1>4
  <2> HIDE DEF F, Q
  <2> QED BY <1>1, <2>1
<1>6. <<>> \in Q
  OBVIOUS
<1>7. q = [i \in 1..(N + 1) |-> IF i = N + 1 THEN <<>> ELSE p[i]]
  <2> HIDE DEF F, G, p, r, N
  <2> QED BY <1>1, <1>2, <1>3, <1>5
<1> HIDE DEF p, q, N, Q
<1>8. Append(p, <<>>) = q
  BY <1>5, <1>6, <1>7, AppendIs
<1>9. FlattenSeq(q) = FlattenSeq(p) \o <<>> /\ FlattenSeq(p) \in Seq(S)
  BY <1>5, <1>6, <1>8, FlattenAppend, FlattenList DEF Q
<1>10. FlattenSeq(q) = FlattenSeq(p)
  BY <1>9
<1> QED BY <1>10 DEF NamedRest, p, q

LEMMA NamedNone ==
  ASSUME NEW S, NEW s \in Seq(S), NEW c, c \notin Elems(s)
  PROVE  NamedRest(s, c) = s
<1> DEFINE K == Elems(s)
<1>1. \A i \in DOMAIN s : s[i] \in K /\ s[i] # c
  BY DEF Elems
<1>2. DOMAIN s = 1..Len(s) /\ Len(s) \in Nat
  OBVIOUS
<1>3. \A i \in DOMAIN s : ~NamedMine(s, c, i)
  BY <1>1, <1>2 DEF NamedMine
<1>4. \A i \in DOMAIN s : Kept1(s[i], K) = <<s[i]>>
  BY <1>1 DEF Kept1
<1>5. [i \in DOMAIN s |-> IF NamedMine(s, c, i) THEN <<>> ELSE <<s[i]>>] = [i \in DOMAIN s |-> Kept1(s[i], K)]
  BY <1>3, <1>4
<1>6. Keep(s, K) = s
  BY KeepAll
<1> QED BY <1>5, <1>6 DEF Keep, NamedRest

LEMMA NoNameClean ==
  ASSUME NEW S, NEW s \in Seq(S), NEW c, c \notin Elems(s)
  PROVE  Clean(s, c)
<1>1. Len(s) \in Nat /\ DOMAIN s = 1..Len(s) /\ \A i \in DOMAIN s : s[i] # c
  BY DEF Elems
<1> QED BY <1>1 DEF Clean

LEMMA NamedAbsent ==
  ASSUME NEW s, EntryList(s), NEW t, t.name # <<>>, t.state = "absent", IsList(t.job), Clean(s, Comment(t.name))
  PROVE  CronRest(t, CronWithout(s, t)) = CronRest(t, s)
<1> DEFINE c == Comment(t.name)
           heads == Heads(s, t.name)
           p == [i \in DOMAIN s |-> IF heads[i] \/ heads[i - 1] THEN <<>> ELSE <<s[i]>>]
           r == CronWithout(s, t)
<1>1. DOMAIN s = 1..Len(s) /\ Len(s) \in Nat
  BY ListSeq DEF EntryList
<1>2. r = FlattenSeq(p)
  BY DEF CronWithout, Rewritten
<1>3. \A i \in DOMAIN s : heads[i] \/ heads[i - 1] <=> NamedMine(s, c, i)
  <2>1. \A i \in 1..Len(s) : heads[i] <=> s[i] = c
    BY CleanHeads
  <2>2. \A i \in 1..Len(s) : heads[i - 1] <=> i > 1 /\ s[i - 1] = c
    BY CleanHeads
  <2> HIDE DEF heads, c
  <2> QED BY <1>1, <2>1, <2>2 DEF NamedMine
<1>4. p = [i \in DOMAIN s |-> IF NamedMine(s, c, i) THEN <<>> ELSE <<s[i]>>]
  <2> HIDE DEF heads, c
  <2> QED BY <1>3
<1>5. r = NamedRest(s, c)
  BY <1>2, <1>4 DEF NamedRest
<1>6. EntryList(r) /\ CronAsked(t, r)
  BY WithoutRight
<1>7. r \in Seq(Elems(r)) /\ c \notin Elems(r)
  <2>1. \A i \in DOMAIN r : r[i] # c
    BY <1>6 DEF CronAsked, GoneLine
  <2> HIDE DEF r, c
  <2>2. r \in Seq(Elems(r))
    BY <1>6, ListSeq DEF EntryList
  <2> QED BY <2>1, <2>2 DEF Elems
<1> HIDE DEF r
<1>8. Clean(r, c) /\ NamedRest(r, c) = r
  BY <1>7, NoNameClean, NamedNone
<1>9. CronRest(t, r) = NamedRest(r, c)
  BY <1>6, <1>8, CleanRest
<1>10. CronRest(t, s) = NamedRest(s, c)
  BY CleanRest
<1>11. CronRest(t, r) = CronRest(t, s)
  BY <1>5, <1>8, <1>9, <1>10
<1> QED BY <1>11 DEF r

LEMMA NamedPresent ==
  ASSUME NEW s, EntryList(s), NEW t, t.name # <<>>, t.state = "present", Clean(s, Comment(t.name))
  PROVE  CronRest(t, CronNamed(s, t)) = CronRest(t, s)
<1> DEFINE N == Len(s)
           heads == Heads(s, t.name)
           c == Comment(t.name)
           job == Job(t.job, t.disabled)
           none == ~\E i \in DOMAIN s : heads[i]
           body == [i \in DOMAIN s |-> IF heads[i - 1] THEN job ELSE s[i]]
           tail == CASE none -> <<c, job>> [] ~none /\ heads[N] -> <<job>> [] OTHER -> <<>>
           S == Elems(s) \cup {c, job}
           r == CronNamed(s, t)
<1>1. IsList(s) /\ DOMAIN s = 1..N /\ N \in Nat /\ s \in Seq(S) /\ \A i \in DOMAIN s : s[i] \in S
  <2>1. IsList(s) /\ s \in Seq(Elems(s)) /\ DOMAIN s = 1..N /\ N \in Nat
    BY ListSeq DEF EntryList
  <2>2. Elems(s) \subseteq S /\ \A i \in DOMAIN s : s[i] \in S
    BY DEF Elems
  <2> HIDE DEF S, N
  <2> QED BY <2>1, <2>2
<1>2. \A i \in 1..N : heads[i] <=> s[i] = c
  BY CleanHeads
<1>3. \A i \in 1..N : heads[i - 1] <=> i > 1 /\ s[i - 1] = c
  BY CleanHeads
<1>4. r = body \o tail
  BY DEF CronNamed
<1>5. ~heads[0]
  BY CleanHeads
<1>6. c \in S /\ job \in S /\ job # c /\ job.kind # "comment"
  BY DEF Comment, Job
<1>7. \A i \in 1..N : body[i] = (IF heads[i - 1] THEN job ELSE s[i])
  BY <1>1
<1>8. DOMAIN body = 1..N
  BY <1>1
<1>9. /\ none => tail = <<c, job>>
      /\ ~none /\ heads[N] => tail = <<job>>
      /\ ~none /\ ~heads[N] => tail = <<>>
  <2> HIDE DEF heads, c, job, none
  <2> QED OBVIOUS
<1>10. body \in Seq(S) /\ Len(body) = N
  <2>1. \A i \in 1..N : body[i] \in S
    <3> HIDE DEF body, S, heads, c, job
    <3> QED BY <1>1, <1>6, <1>7
  <2>2. body = [i \in 1..N |-> body[i]]
    BY <1>1
  <2> HIDE DEF body, S, N
  <2> QED BY <1>1, <2>1, <2>2
<1>11. none <=> \A i \in 1..N : ~heads[i]
  BY <1>1
<1>12. \A i \in 1..(N - 1) : s[i] = c => s[i + 1].kind # "comment"
  BY DEF Clean
<1>13. c.kind = "comment"
  BY DEF Comment
<1>14. EntryList(r)
  BY NamedRight
<1> HIDE DEF heads, c, job, none, body, tail, S, r, N
<1>15. \A i \in 1..N : s[i] = c => ~heads[i - 1]
  <2> SUFFICES ASSUME NEW i \in 1..N, s[i] = c, heads[i - 1] PROVE FALSE
    OBVIOUS
  <2>1. i > 1 /\ s[i - 1] = c
    BY <1>3
  <2>2. i - 1 \in 1..(N - 1) /\ (i - 1) + 1 = i
    BY <1>1, <2>1
  <2> QED BY <1>12, <1>13, <2>1, <2>2
<1>16. \A i \in 1..N : body[i] = c <=> s[i] = c
  BY <1>6, <1>7, <1>15
<1>17. \A i \in 1..N : NamedMine(body, c, i) <=> NamedMine(s, c, i)
  <2> SUFFICES ASSUME NEW i \in 1..N PROVE NamedMine(body, c, i) <=> NamedMine(s, c, i)
    OBVIOUS
  <2>1. i > 1 => i - 1 \in 1..N
    BY <1>1
  <2> QED BY <1>16, <2>1 DEF NamedMine
<1>18. \A i \in 1..N : ~NamedMine(s, c, i) => body[i] = s[i]
  BY <1>3, <1>7 DEF NamedMine
<1>19. NamedRest(body, c) = NamedRest(s, c)
  <2>1. [i \in DOMAIN body |-> IF NamedMine(body, c, i) THEN <<>> ELSE <<body[i]>>]
          = [i \in DOMAIN s |-> IF NamedMine(s, c, i) THEN <<>> ELSE <<s[i]>>]
    BY <1>1, <1>8, <1>17, <1>18
  <2> QED BY <2>1 DEF NamedRest
<1>20. \A i \in 1..(N - 1) : body[i] = c => body[i + 1] = job
  <2> SUFFICES ASSUME NEW i \in 1..(N - 1), body[i] = c PROVE body[i + 1] = job
    OBVIOUS
  <2>1. i \in 1..N /\ i + 1 \in 1..N /\ (i + 1) - 1 = i /\ i + 1 > 1
    BY <1>1
  <2>2. heads[(i + 1) - 1]
    BY <1>3, <1>16, <2>1
  <2> QED BY <1>7, <2>1, <2>2
<1>21. Clean(body, c)
  BY <1>6, <1>10, <1>20 DEF Clean
<1>22. NamedRest(r, c) = NamedRest(s, c) /\ Clean(r, c)
  <2>1. CASE none
    <3> DEFINE b1 == Append(body, c)
               b2 == Append(b1, job)
    <3>1. r = b2
      <4>1. tail = <<c, job>>
        BY <1>9, <2>1
      <4> QED BY <1>4, <1>6, <1>10, <4>1
    <3>2. b1 \in Seq(S) /\ Len(b1) = N + 1 /\ b1[N + 1] = c /\ \A i \in 1..N : b1[i] = body[i]
      BY <1>1, <1>6, <1>10
    <3>3. NamedRest(b1, c) = NamedRest(body, c)
      <4>1. NamedMine(b1, c, Len(body) + 1)
        BY <1>10, <3>2 DEF NamedMine
      <4> QED BY <1>6, <1>10, <4>1, NamedMore
    <3> HIDE DEF b1
    <3>4. Len(b2) = N + 2 /\ b2[N + 2] = job /\ b2[N + 1] = c /\ \A i \in 1..(N + 1) : b2[i] = b1[i]
      BY <1>1, <1>6, <3>2
    <3>5. NamedRest(b2, c) = NamedRest(b1, c)
      <4>1. (N + 1) + 1 = N + 2 /\ (N + 2) - 1 = N + 1 /\ N + 2 > 1
        BY <1>1
      <4>2. NamedMine(b2, c, Len(b1) + 1)
        BY <3>2, <3>4, <4>1 DEF NamedMine
      <4> QED BY <1>6, <3>2, <4>2, NamedMore
    <3> HIDE DEF b2
    <3>6. Clean(b2, c)
      <4> SUFFICES ASSUME NEW i \in 1..(N + 1), b2[i] = c PROVE b2[i + 1].kind # "comment"
        BY <1>1, <3>4 DEF Clean
      <4>1. CASE i = N + 1
        <5>1. i + 1 = N + 2
          BY <1>1, <4>1
        <5> QED BY <1>6, <3>4, <5>1
      <4>2. CASE i # N + 1
        <5>1. i \in 1..N
          BY <1>1, <4>2
        <5>2. b2[i] = body[i]
          BY <1>1, <3>2, <3>4, <5>1
        <5>3. heads[i]
          BY <1>2, <1>16, <5>1, <5>2
        <5> QED BY <1>11, <2>1, <5>1, <5>3
      <4> QED BY <4>1, <4>2
    <3> QED BY <1>19, <3>1, <3>3, <3>5, <3>6
  <2>2. CASE ~none /\ heads[N]
    <3> DEFINE b1 == Append(body, job)
    <3>1. r = b1
      <4>1. tail = <<job>>
        BY <1>9, <2>2
      <4> QED BY <1>4, <1>6, <1>10, <4>1
    <3>2. N # 0
      BY <1>5, <2>2
    <3>3. N \in 1..N /\ body[N] = c
      BY <1>1, <1>2, <1>16, <2>2, <3>2
    <3>4. Len(b1) = N + 1 /\ b1[N + 1] = job /\ \A i \in 1..N : b1[i] = body[i]
      BY <1>1, <1>6, <1>10
    <3> HIDE DEF b1
    <3>5. NamedRest(b1, c) = NamedRest(body, c)
      <4>1. (N + 1) - 1 = N /\ N + 1 > 1
        BY <1>1, <3>3
      <4>2. NamedMine(b1, c, Len(body) + 1)
        BY <1>10, <3>3, <3>4, <4>1 DEF NamedMine
      <4> QED BY <1>6, <1>10, <4>2, NamedMore DEF b1
    <3>6. Clean(b1, c)
      <4> SUFFICES ASSUME NEW i \in 1..N, b1[i] = c PROVE b1[i + 1].kind # "comment"
        BY <1>1, <3>4 DEF Clean
      <4>1. CASE i = N
        BY <1>6, <3>4, <4>1
      <4>2. CASE i # N
        <5>1. i \in 1..(N - 1) /\ i + 1 \in 1..N
          BY <1>1, <4>2
        <5>2. body[i] = c
          BY <3>4
        <5>3. body[i + 1] = job
          BY <1>20, <5>1, <5>2
        <5> QED BY <1>6, <3>4, <5>1, <5>3
      <4> QED BY <4>1, <4>2
    <3> QED BY <1>19, <3>1, <3>5, <3>6
  <2>3. CASE ~none /\ ~heads[N]
    <3>1. r = body
      <4>1. tail = <<>>
        BY <1>9, <2>3
      <4> QED BY <1>4, <1>10, <4>1
    <3> QED BY <1>19, <1>21, <3>1
  <2> QED BY <2>1, <2>2, <2>3
<1>23. CronRest(t, r) = NamedRest(r, c)
  BY <1>14, <1>22, CleanRest DEF c
<1>24. CronRest(t, s) = NamedRest(s, c)
  BY CleanRest DEF c
<1> QED BY <1>22, <1>23, <1>24 DEF r

\* The lines of a crontab that are no job with the text of the task.
NotTheJob(t, e) == ~(e.kind = "job" /\ e.text = t.job)

LEMMA UnnamedKept ==
  ASSUME NEW S, NEW s \in Seq(S), NEW t, t.name = <<>>
  PROVE  CronRest(t, s) = Keep(s, {e \in S : NotTheJob(t, e)})
<1> DEFINE K == {e \in S : NotTheJob(t, e)}
<1>1. \A i \in DOMAIN s : s[i] \in S
  OBVIOUS
<1>2. \A i \in DOMAIN s : CronMine(t, s, i) <=> s[i] \notin K
  BY <1>1 DEF CronMine, NotTheJob
<1> HIDE DEF K
<1>3. [i \in DOMAIN s |-> Kept1(s[i], K)] = [i \in DOMAIN s |-> IF CronMine(t, s, i) THEN <<>> ELSE <<s[i]>>]
  BY <1>2 DEF Kept1
<1>4. CronRest(t, s) = Keep(s, K)
  BY <1>3 DEF Keep, CronRest
<1> QED BY <1>4 DEF K

LEMMA UnnamedAbsent ==
  ASSUME NEW s, EntryList(s), NEW t, t.name = <<>>, IsList(t.job),
         t.job # <<>> => \A i \in DOMAIN s : IsPrefix(t.job, s[i].text) => s[i].kind = "job" /\ s[i].text = t.job
  PROVE  CronRest(t, CronWithout(s, t)) = CronRest(t, s)
<1> DEFINE S == Elems(s)
           K == {e \in S : NotTheJob(t, e)}
           goes(i) == t.job # <<>> /\ IsPrefix(t.job, s[i].text)
           p == [i \in DOMAIN s |-> IF goes(i) THEN <<>> ELSE <<s[i]>>]
           r == CronWithout(s, t)
<1>1. s \in Seq(S) /\ \A i \in DOMAIN s : s[i] \in S
  <2>1. s \in Seq(Elems(s))
    BY ListSeq DEF EntryList
  <2> QED BY <2>1 DEF Elems
<1>2. r = FlattenSeq(p)
  BY DEF CronWithout, Rewritten
<1> HIDE DEF S, r
<1>3. CronRest(t, s) = Keep(s, K)
  BY <1>1, UnnamedKept
<1>4. CASE t.job = <<>>
  <2>1. \A i \in DOMAIN s : Kept1(s[i], S) = <<s[i]>>
    BY <1>1 DEF Kept1
  <2>2. p = [i \in DOMAIN s |-> Kept1(s[i], S)]
    BY <1>4, <2>1
  <2>3. r = Keep(s, S)
    BY <1>2, <2>2 DEF Keep
  <2>4. Keep(s, S) = s
    BY <1>1, KeepAll DEF S
  <2> QED BY <2>3, <2>4 DEF r
<1>5. CASE t.job # <<>>
  <2>1. \A i \in DOMAIN s : goes(i) <=> s[i] \notin K
    <3>1. IsPrefix(t.job, t.job)
      BY PrefixOfItself
    <3> QED BY <1>1, <1>5, <3>1 DEF NotTheJob
  <2> HIDE DEF goes, K
  <2>2. p = [i \in DOMAIN s |-> Kept1(s[i], K)]
    BY <2>1 DEF Kept1
  <2>3. r = Keep(s, K)
    BY <1>2, <2>2 DEF Keep
  <2>4. r \in Seq(S)
    BY <1>1, <2>3, KeepList
  <2>5. Keep(r, K) = Keep(s, K \cap K)
    BY <1>1, <2>3, KeepTwice
  <2>6. CronRest(t, r) = Keep(r, K)
    BY <2>4, UnnamedKept DEF K
  <2> QED BY <1>3, <2>5, <2>6 DEF r
<1> QED BY <1>4, <1>5

LEMMA UnnamedPresent ==
  ASSUME NEW s, EntryList(s), NEW t, t.name = <<>>
  PROVE  CronRest(t, CronUnnamed(s, t)) = CronRest(t, s)
<1> DEFINE job == Job(t.job, t.disabled)
           hits == {i \in DOMAIN s : s[i].kind = "job" /\ s[i].text = t.job}
           S == Elems(s) \cup {job}
           K == {e \in S : NotTheJob(t, e)}
           r == CronUnnamed(s, t)
           body == [i \in DOMAIN s |-> IF i = First(hits) THEN job ELSE s[i]]
<1>1. IsList(s) /\ DOMAIN s = 1..Len(s) /\ Len(s) \in Nat /\ s \in Seq(S) /\ \A i \in DOMAIN s : s[i] \in S
  <2>1. IsList(s) /\ s \in Seq(Elems(s)) /\ DOMAIN s = 1..Len(s) /\ Len(s) \in Nat
    BY ListSeq DEF EntryList
  <2>2. Elems(s) \subseteq S /\ \A i \in DOMAIN s : s[i] \in S
    BY DEF Elems
  <2> HIDE DEF S
  <2> QED BY <2>1, <2>2
<1>2. job \in S /\ job \notin K
  BY DEF NotTheJob, Job
<1>3. r = IF hits = {} THEN Append(s, job) ELSE body
  BY DEF CronUnnamed
<1>4. hits # {} => First(hits) \in DOMAIN s /\ s[First(hits)] \notin K
  <2>1. hits \subseteq Nat /\ hits \subseteq DOMAIN s /\ \A i \in hits : s[i] \notin K
    BY <1>1 DEF NotTheJob
  <2> HIDE DEF hits, K
  <2> QED BY <2>1, LeastIs
<1>5. \A i \in DOMAIN s : body[i] \in S
  BY <1>1, <1>2
<1>6. body \in [1..Len(s) -> S]
  BY <1>1, <1>5
<1>7. DOMAIN body = DOMAIN s /\ \A i \in DOMAIN s : body[i] = IF i = First(hits) THEN job ELSE s[i]
  OBVIOUS
<1>8. CronRest(t, s) = Keep(s, K)
  <2> HIDE DEF S
  <2> QED BY <1>1, UnnamedKept
<1> HIDE DEF job, hits, S, r, body, K
<1>9. r \in Seq(S) /\ Keep(r, K) = Keep(s, K)
  <2>1. CASE hits = {}
    <3>1. r = Append(s, job)
      BY <1>3, <2>1
    <3>2. r \in Seq(S)
      BY <1>1, <1>2, <3>1
    <3>3. Keep(r, K) = Keep(s, K)
      BY <1>1, <1>2, <3>1, KeepInserted
    <3> QED BY <3>2, <3>3
  <2>2. CASE hits # {}
    <3>1. r = body
      BY <1>3, <2>2
    <3>2. r \in Seq(S)
      BY <1>1, <1>6, <3>1
    <3>3. \A i \in DOMAIN s : s[i] = body[i] \/ (s[i] \notin K /\ body[i] \notin K)
      BY <1>2, <1>4, <1>7, <2>2
    <3>4. Keep(s, K) = Keep(body, K)
      BY <1>7, <3>3, KeepSame
    <3> QED BY <3>1, <3>2, <3>4
  <2> QED BY <2>1, <2>2
<1>10. CronRest(t, r) = Keep(r, K)
  BY <1>9, UnnamedKept DEF K
<1> QED BY <1>8, <1>9, <1>10 DEF r

LEMMA CronSpares ==
  ASSUME NEW t, NEW h, NEW check, Fits(t, h), t.module = "cron", ~TakesOthers(t, h)
  PROVE  Spares(t, h, CronRun(h, h.lines, t, check))
<1> DEFINE s == h.lines
           new == Crontab(s, t)
           saved == IF t.backup /\ s # <<>> THEN [h EXCEPT !.bak = h.lines] ELSE h
           g == WithLines(saved, new)
           run == CronRun(h, h.lines, t, check)
<1>1. /\ {"lines", "live", "bak"} \subseteq DOMAIN h /\ IsList(h.lines) /\ IsList(t.job)
      /\ t.state \in {"present", "absent"} /\ \A i \in DOMAIN h.lines : IsEntry(h.lines[i])
      /\ t.module \in ReadsBeforeItWrites
  BY DEF Fits, FitsEntries, ReadsBeforeItWrites, IsEntry
<1>2. EntryList(s)
  BY <1>1 DEF EntryList
<1>3. t.name # <<>> => Clean(s, Comment(t.name))
  BY DEF TakesOthers, Clean
<1>4. t.name = <<>> /\ t.state = "absent" /\ t.job # <<>>
        => \A i \in DOMAIN s : IsPrefix(t.job, s[i].text) => s[i].kind = "job" /\ s[i].text = t.job
  BY <1>1 DEF TakesOthers, IsEntry
<1>5. CronRest(t, new) = CronRest(t, s)
  <2>1. CASE t.state = "absent" /\ t.name # <<>>
    <3>1. new = CronWithout(s, t)
      BY <2>1 DEF Crontab
    <3> HIDE DEF s, new
    <3> QED BY <1>1, <1>2, <1>3, <2>1, <3>1, NamedAbsent
  <2>2. CASE t.state = "absent" /\ t.name = <<>>
    <3>1. new = CronWithout(s, t)
      BY <2>2 DEF Crontab
    <3> HIDE DEF s, new
    <3> QED BY <1>1, <1>2, <1>4, <2>2, <3>1, UnnamedAbsent
  <2>3. CASE t.state = "present" /\ t.name # <<>>
    <3>1. new = CronNamed(s, t)
      BY <2>3 DEF Crontab
    <3> HIDE DEF s, new
    <3> QED BY <1>2, <1>3, <2>3, <3>1, NamedPresent
  <2>4. CASE t.state = "present" /\ t.name = <<>>
    <3>1. new = CronUnnamed(s, t)
      BY <2>4 DEF Crontab
    <3> HIDE DEF s, new
    <3> QED BY <1>2, <2>4, <3>1, UnnamedPresent
  <2> QED BY <1>1, <2>1, <2>2, <2>3, <2>4
<1>6. DOMAIN saved = DOMAIN h /\ saved.lines = h.lines
  OBVIOUS
<1>7. run \in {Unchanged, Reports(TRUE), Changes(<<Quiet(saved), Loud(g)>>)}
  BY DEF CronRun
<1> HIDE DEF new, saved, run
<1>8. g.lines = new
  BY <1>1, <1>6, WithLinesIs
<1> HIDE DEF g
<1>9. Others(t, g) = Others(t, h)
  <2>1. Others(t, g) = CronRest(t, new)
    BY <1>8, CronOthers
  <2>2. Others(t, h) = CronRest(t, s)
    BY CronOthers
  <2> QED BY <1>5, <2>1, <2>2
<1> DEFINE q == Changes(<<Quiet(saved), Loud(g)>>)
<1>10. q.trail = <<Quiet(saved), Loud(g)>>
  BY RunParts
<1>11. Quiet(saved).host.lines = h.lines
  BY <1>6, LoudQuiet
<1> HIDE DEF q
<1>12. Spares(t, h, q)
  BY <1>1, <1>9, <1>10, <1>11, SparesTwo
<1>13. Spares(t, h, run)
  BY <1>7, <1>12, SparesUnmoved DEF q
<1> QED BY <1>13 DEF run

\* The modules that work on nothing of others.
LEMMA NothingOfOthers ==
  ASSUME NEW t, t.module \notin LineModules \cup ReadsBeforeItWrites
  PROVE  \A h : Others(t, h) = <<>>
<1>1. \A m, e1, e2, e3, e4, e5, e6, e7, e8 : m \notin LineModules \cup ReadsBeforeItWrites =>
        (CASE m = "lineinfile" -> e1 [] m = "blockinfile" -> e2 [] m = "replace" -> e3 [] m = "authorized_key" -> e4
           [] m = "known_hosts" -> e5 [] m = "cron" -> e6 [] m = "sysctl" -> e7 [] m = "mount" -> e8 [] OTHER -> <<>>) = <<>>
  BY DEF LineModules, ReadsBeforeItWrites
<1> QED BY <1>1, Zenon DEF Others

LEMMA SparingModules ==
  ASSUME NEW t, NEW h, NEW check \in BOOLEAN, Fits(t, h), ~TakesOthers(t, h)
  PROVE  Spares(t, h, Run(t, h, Reads(t, h), check))
<1> DEFINE run == Run(t, h, Reads(t, h), check)
<1>1. CASE t.module \in ReadsBeforeItWrites
  <2>1. Reads(t, h) = h.lines
    BY <1>1 DEF Reads
  <2>2. CASE t.module = "authorized_key"
    BY <2>1, <2>2, AuthorizedKeySpares DEF Run
  <2>3. CASE t.module = "known_hosts"
    BY <2>1, <2>3, KnownHostsSpare DEF Run
  <2>4. CASE t.module = "cron"
    BY <2>1, <2>4, CronSpares DEF Run
  <2>5. CASE t.module = "sysctl"
    BY <2>1, <2>5, SysctlSpares DEF Run
  <2>6. CASE t.module = "mount"
    BY <2>1, <2>6, MountSpares DEF Run
  <2> QED BY <1>1, <2>2, <2>3, <2>4, <2>5, <2>6 DEF ReadsBeforeItWrites
<1>2. CASE t.module \in LineModules
  <2>1. CASE t.module = "lineinfile"
    BY <2>1, LineinfileSpares DEF Run
  <2>2. CASE t.module = "blockinfile"
    <3>1. ~StrayMarker(t, h)
      BY <2>2 DEF TakesOthers
    <3> QED BY <2>2, <3>1, BlockinfileSpares DEF Run
  <2>3. CASE t.module = "replace"
    BY <2>3, ReplaceSparesLines DEF Run
  <2> QED BY <1>2, <2>1, <2>2, <2>3 DEF LineModules
<1>3. CASE t.module \notin LineModules \cup ReadsBeforeItWrites
  <2>1. IsTrail(run.trail)
    BY GoodModules DEF Good, Fitting
  <2> HIDE DEF run
  <2>2. \A x : Others(t, x) = <<>>
    BY <1>3, NothingOfOthers
  <2>3. Spares(t, h, run)
    BY <2>1, <2>2 DEF Spares
  <2> QED BY <2>3 DEF run
<1> QED BY <1>1, <1>2, <1>3

\* However many of its commands reach the host.
LEMMA SparedAfter ==
  ASSUME NEW t, NEW h, NEW run, Spares(t, h, run), NEW n, n = Len(run.trail) \/ n \in 0..(Len(run.trail) - 1)
  PROVE  Others(t, HostAfter(run, h, n)) = Others(t, h)
<1>1. DOMAIN run.trail = 1..Len(run.trail) /\ Len(run.trail) \in Nat
  BY TrailLength DEF Spares
<1>2. CASE n = 0
  BY <1>2 DEF HostAfter
<1>3. CASE n # 0
  <2>1. n \in DOMAIN run.trail
    BY <1>1, <1>3
  <2>2. run.trail[n] \in Elems(run.trail)
    BY <2>1 DEF Elems
  <2>3. HostAfter(run, h, n) = run.trail[n].host
    BY <1>3 DEF HostAfter
  <2> QED BY <2>2, <2>3 DEF Spares
<1> QED BY <1>2, <1>3

-----------------------------------------------------------------------------
(* Runs that read nothing, and connections lost at the reads               *)

\* A task that adds no entry spares the entries it could not read.
LEMMA BlindSpares ==
  ASSUME NEW t, NEW h, Fits(t, h), t.module \in ReadsBeforeItWrites, ~AddsUnread(t)
  PROVE  Spares(t, h, Run(t, h, <<>>, FALSE))
<1>2. CASE t.module = "authorized_key"
  <2>1. t.state = "absent"
    BY <1>2 DEF Fits, FitsEntries, AddsUnread
  <2>2. AuthorizedKeys(<<>>, t) = <<>>
    BY <2>1, FlattenNone DEF AuthorizedKeys, Rewritten
  <2>3. Run(t, h, <<>>, FALSE) = Unchanged
    BY <1>2, <2>2 DEF Run, AuthorizedKeyRun
  <2> QED BY <2>3, SparesUnmoved
<1>3. CASE t.module = "known_hosts"
  <2>1. t.state = "absent"
    BY <1>3 DEF Fits, FitsEntries, AddsUnread
  <2>2. KnownHosts(<<>>, t) = <<>>
    BY <2>1, FlattenNone DEF KnownHosts, Rewritten
  <2>3. Run(t, h, <<>>, FALSE) = Unchanged
    BY <1>3, <2>2 DEF Run, KnownHostsRun
  <2> QED BY <2>3, SparesUnmoved
<1>4. CASE t.module = "cron"
  <2>1. t.state = "absent"
    BY <1>4 DEF Fits, FitsEntries, AddsUnread
  <2>2. Crontab(<<>>, t) = <<>>
    BY <2>1, FlattenNone DEF Crontab, CronWithout, Rewritten
  <2>3. Run(t, h, <<>>, FALSE) = Unchanged
    BY <1>4, <2>2 DEF Run, CronRun
  <2> QED BY <2>3, SparesUnmoved
<1>5. CASE t.module = "sysctl"
  <2>1. t.state = "absent"
    BY <1>5 DEF Fits, FitsEntries, AddsUnread
  <2>2. SysctlFile(<<>>, t) = <<>>
    BY <2>1, FlattenNone DEF SysctlFile, Filtered, Rewritten
  <2>3. SysctlRun(h, <<>>, t, FALSE) = Unchanged
    BY <2>1, <2>2 DEF SysctlRun
  <2> QED BY <1>5, <2>3, SparesUnmoved DEF Run
<1>6. CASE t.module = "mount"
  <2>1. /\ t.state \in {"absent", "unmounted", "remounted", "mounted"} /\ (t.state = "mounted" => ~t.boot)
        /\ {"lines", "live", "bak"} \subseteq DOMAIN h
    BY <1>6 DEF Fits, FitsEntries, AddsUnread, ReadsBeforeItWrites
  <2>2. Fstab(<<>>, t) = <<>>
    <3>1. At(<<>>, t.path) = {}
      BY DEF At
    <3> QED BY <2>1, <3>1 DEF Fstab
  <2> DEFINE up == h.live # NotMounted
             acts == CASE t.state = "mounted" -> ~up \/ FALSE
                       [] t.state \in {"unmounted", "absent"} -> up
                       [] t.state = "remounted" -> TRUE
                       [] t.state = "present" -> FALSE
             asked == Completed(<<>>, t)
             live == CASE t.state \in {"unmounted", "absent"} -> NotMounted
                       [] t.state = "mounted" /\ ~up -> Mounted(h, h.lines, t)
                       [] t.state = "remounted" /\ ~up -> IF asked.src \in {"", "bad"} THEN h.live ELSE asked
                       [] OTHER -> [h.live EXCEPT !.opts = t.opts]
             fails == t.state \in {"mounted", "remounted"} /\ live = NotMounted
             g == [h EXCEPT !.live = live]
             b == IF acts THEN <<Loud(g)>> ELSE <<>>
             q == Ran(<<>> \o b, TRUE, acts /\ fails)
             run == MountRun(h, <<>>, t, FALSE)
  <2>3. run \in {Unchanged, q}
    BY <2>2 DEF MountRun
  <2> HIDE DEF live, asked, fails, acts, up
  <2>4. g.lines = h.lines
    BY <2>1
  <2> HIDE DEF g, run
  <2>5. b \in {<<>>, <<Loud(g)>>}
    OBVIOUS
  <2> HIDE DEF b
  <2>6. <<>> \o b \in {<<>>, <<Loud(g)>>}
    BY <2>5
  <2>7. q.trail = <<>> \o b
    BY RanTrail
  <2> HIDE DEF q
  <2>8. ASSUME q.trail = <<>> PROVE Spares(t, h, q)
    BY <2>8, SparesIdle
  <2>9. ASSUME q.trail = <<Loud(g)>> PROVE Spares(t, h, q)
    <3>1. IsTrail(q.trail) /\ Elems(q.trail) = {Loud(g)} /\ Loud(g).host = g
      BY <2>9, ElemsShort, ShortTrails, LoudQuiet
    <3>2. \A s \in Elems(q.trail) : s.host.lines = h.lines \/ s.host.lines = h.lines
      BY <2>4, <3>1
    <3> QED BY <1>6, <3>1, <3>2, SparesEntries DEF ReadsBeforeItWrites
  <2>10. Spares(t, h, q)
    BY <2>6, <2>7, <2>8, <2>9
  <2>11. Spares(t, h, run)
    BY <2>3, <2>10, SparesUnmoved
  <2> QED BY <1>6, <2>11 DEF Run, run
<1> QED BY <1>2, <1>3, <1>4, <1>5, <1>6 DEF ReadsBeforeItWrites

\* Some command of a trail is one whose error the code returns.
Noisy(s) == \E x \in Elems(s) : x.loud
Fails(run) == IsTrail(run.trail) /\ (run.failed \/ Noisy(run.trail))

LEMMA NoisyTrails ==
  /\ \A h : IsTrail(<<Loud(h)>>) /\ Noisy(<<Loud(h)>>)
  /\ \A h, x : IsTrail(<<x, Loud(h)>>) /\ Noisy(<<x, Loud(h)>>) /\ IsTrail(<<Loud(h), x>>) /\ Noisy(<<Loud(h), x>>)
BY ShortTrails, ElemsShort, ElemsTwo, LoudQuiet DEF Noisy

LEMMA NoisyJoin ==
  ASSUME NEW a, NEW b, IsTrail(a), IsTrail(b), Noisy(a) \/ Noisy(b)
  PROVE  IsTrail(a \o b) /\ Noisy(a \o b)
BY ElemsJoin, TrailsJoin DEF Noisy

LEMMA FailsLost ==
  ASSUME NEW run, Fails(run)
  PROVE  FailsAfter(run, 0)
<1>1. CASE run.failed
  BY <1>1 DEF FailsAfter
<1>2. CASE Noisy(run.trail)
  <2>1. PICK i \in DOMAIN run.trail : run.trail[i].loud
    BY <1>2 DEF Noisy, Elems
  <2>2. DOMAIN run.trail = 1..Len(run.trail)
    BY TrailLength DEF Fails
  <2>3. i \in (0 + 1)..Len(run.trail)
    BY <2>1, <2>2
  <2> QED BY <2>1, <2>3 DEF FailsAfter
<1> QED BY <1>1, <1>2 DEF Fails

LEMMA FailsRuns ==
  /\ Fails(Refused)
  /\ \A trail, c : IsTrail(trail) => Fails(Ran(trail, c, TRUE))
  /\ \A trail, c, f : IsTrail(trail) /\ Noisy(trail) => Fails(Ran(trail, c, f)) /\ Fails(Changes(trail))
  /\ \A prefix, run : IsTrail(prefix) /\ Fails(run) => Fails(After(prefix, run))
<1>1. Fails(Refused)
  BY RunParts, ShortTrails DEF Fails
<1>2. ASSUME NEW trail, NEW c, NEW f, IsTrail(trail)
      PROVE  Fails(Ran(trail, c, TRUE)) /\ (Noisy(trail) => Fails(Ran(trail, c, f)) /\ Fails(Changes(trail)))
  <2>1. Ran(trail, c, TRUE).trail = trail /\ Ran(trail, c, TRUE).failed /\ Ran(trail, c, f).trail = trail
    BY RanTrail, RanFails
  <2>2. Changes(trail).trail = trail
    BY RunParts
  <2> QED BY <1>2, <2>1, <2>2 DEF Fails
<1>3. ASSUME NEW prefix, NEW run, IsTrail(prefix), Fails(run)
      PROVE  Fails(After(prefix, run))
  <2>1. After(prefix, run).trail = prefix \o run.trail /\ (After(prefix, run).failed <=> run.failed)
    BY AfterTrail, AfterFails
  <2>2. IsTrail(run.trail) /\ (run.failed \/ Noisy(run.trail))
    BY <1>3 DEF Fails
  <2>3. IsTrail(prefix \o run.trail) /\ (Noisy(run.trail) => Noisy(prefix \o run.trail))
    BY <1>3, <2>2, NoisyJoin, TrailsJoin
  <2> QED BY <2>1, <2>2, <2>3 DEF Fails
<1> QED BY <1>1, <1>2, <1>3

\* A copy to a path that was not seen sends its file.
LEMMA FailsCopy ==
  ASSUME NEW t, NEW h, ~Exists(h)
  PROVE  /\ Fails(TemplateRun(h, t, FALSE))
         /\ t.from \in {"remote", "content", "local"} => Fails(CopyRun(h, t, FALSE))
<1> DEFINE ready == Prepared(h, t)
           g == ready[2].host
           staged == [g EXCEPT !.tmp = h.src]
           copied == [g EXCEPT !.node = h.src]
<1>1. IsTrail(ready)
  BY ShortTrails DEF Prepared
<1>2. ASSUME NEW x, NEW want PROVE IsTrail(Finish(x, want))
  BY PermissionTrails, SaidHushed DEF Finish
<1>3. ASSUME NEW x, NEW want PROVE IsTrail(Move(x, want)) /\ IsTrail(Hushed(Move(x, want)))
  <2>1. IsTrail(<<Loud(MoveTmp(x))>>)
    BY ShortTrails
  <2>2. IsTrail(Move(x, want))
    BY <1>2, <2>1, TrailsJoin DEF Move
  <2> QED BY <2>2, SaidHushed
<1>4. ASSUME NEW x, NEW y, IsTrail(y) PROVE Fails(Changes(Said(<<x, x>>) \o y)) /\ Fails(Changes(<<Loud(x)>> \o y))
  <2>1. Said(<<x, x>>) = <<Loud(x), Loud(x)>>
    BY SaidTwo
  <2>2. /\ IsTrail(<<Loud(x), Loud(x)>>) /\ Noisy(<<Loud(x), Loud(x)>>)
        /\ IsTrail(<<Loud(x)>>) /\ Noisy(<<Loud(x)>>)
    BY NoisyTrails
  <2>3. /\ IsTrail(<<Loud(x), Loud(x)>> \o y) /\ Noisy(<<Loud(x), Loud(x)>> \o y)
        /\ IsTrail(<<Loud(x)>> \o y) /\ Noisy(<<Loud(x)>> \o y)
    BY <1>4, <2>2, NoisyJoin
  <2> QED BY <2>1, <2>3, FailsRuns
<1>5. ASSUME NEW x, NEW y PROVE Fails(Ran(<<Loud(x), Quiet(y)>>, FALSE, TRUE))
  BY ShortTrails, FailsRuns
<1>6. ASSUME NEW x, NEW q \in BOOLEAN PROVE Fails(Staged(x, t, q))
  <2> DEFINE up == WriteTmp(x, t.text)
             moved == Move(up, t.want)
  <2>1. CASE Rejects(t, t.text)
    BY <1>5, <2>1 DEF Staged
  <2>2. CASE ~Rejects(t, t.text)
    <3>1. IsTrail(IF q THEN Hushed(moved) ELSE moved)
      BY <1>3
    <3>2. Staged(x, t, q) = Changes(Said(<<up, up>>) \o (IF q THEN Hushed(moved) ELSE moved))
      BY <2>2 DEF Staged
    <3> HIDE DEF up, moved
    <3> QED BY <1>4, <3>1, <3>2
  <2> QED BY <2>1, <2>2
<1>7. ASSUME NEW x PROVE Fails(Direct(x, t))
  BY <1>2, <1>4 DEF Direct
<1> HIDE DEF ready
<1>8. ASSUME NEW run, Fails(run) PROVE Fails(After(ready, run))
  BY <1>1, <1>8, FailsRuns
<1>9. Fails(CopyLocal(h, t, FALSE))
  <2>1. CopyLocal(h, t, FALSE) = After(ready, IF t.become \/ t.validate THEN Staged(g, t, FALSE) ELSE Direct(g, t))
    BY DEF CopyLocal, ready
  <2> QED BY <1>6, <1>7, <1>8, <2>1
<1>10. Fails(CopyContent(h, t, FALSE))
  <2>1. CopyContent(h, t, FALSE) = After(ready, IF t.validate THEN Staged(g, t, TRUE) ELSE Direct(g, t))
    BY DEF CopyContent, ready
  <2> QED BY <1>6, <1>7, <1>8, <2>1
<1>11. Fails(CopyRemote(h, t, FALSE))
  <2> DEFINE r == IF Rejects(t, h.src.text) THEN Ran(<<Loud(staged), Quiet(DropTmp(staged))>>, FALSE, TRUE)
                  ELSE IF t.validate THEN Changes(Said(<<staged, staged>>) \o Move(staged, t.want))
                  ELSE Changes(<<Loud(copied)>> \o Finish(copied, t.want))
  <2>1. CopyRemote(h, t, FALSE) \in {Refused, After(ready, r)}
    BY DEF CopyRemote, ready
  <2> HIDE DEF staged, copied
  <2>2. Fails(r)
    BY <1>2, <1>3, <1>4, <1>5
  <2> HIDE DEF r
  <2> QED BY <1>8, <2>1, <2>2, FailsRuns
<1> QED BY <1>9, <1>10, <1>11 DEF TemplateRun, CopyRun

\* Accounts that were not seen are made, or the task fails.
LEMMA FailsAccounts ==
  ASSUME NEW t, NEW h, Fits(t, h), ~SeenAsGone(t)
  PROVE  /\ t.module = "hostname" => Fails(HostnameRun([h EXCEPT !.live = ""], t, FALSE))
         /\ t.module = "group" => Fails(GroupRun([exists |-> FALSE, gid |-> ""], t, FALSE))
         /\ t.module = "user" => Fails(UserRun(NoUser, t, FALSE))
<1>1. ASSUME t.module = "hostname" PROVE Fails(HostnameRun([h EXCEPT !.live = ""], t, FALSE))
  <2> DEFINE v == [h EXCEPT !.live = ""]
             both == [live |-> t.name, file |-> t.name]
             first == IF t.hostnamectl THEN both ELSE [v EXCEPT !.live = t.name]
  <2>1. "live" \in DOMAIN h /\ t.name # ""
    BY <1>1 DEF Fits, FitsAccounts
  <2>2. v.live # t.name
    BY <2>1
  <2> HIDE DEF v
  <2>3. HostnameRun(v, t, FALSE) = Changes(<<Quiet(first), Loud(both)>>)
    BY <2>2 DEF HostnameRun
  <2> HIDE DEF both, first
  <2>4. IsTrail(<<Quiet(first), Loud(both)>>) /\ Noisy(<<Quiet(first), Loud(both)>>)
    BY NoisyTrails
  <2> QED BY <2>3, <2>4, FailsRuns DEF v
<1>2. ASSUME t.module = "group" PROVE Fails(GroupRun([exists |-> FALSE, gid |-> ""], t, FALSE))
  <2> DEFINE v == [exists |-> FALSE, gid |-> ""]
  <2>1. t.state = "present"
    BY <1>2 DEF Fits, FitsAccounts, SeenAsGone
  <2>2. PICK g : GroupCommand(v, t) = <<Loud(g)>>
    BY <2>1 DEF GroupCommand
  <2> HIDE DEF v
  <2>3. GroupRun(v, t, FALSE) = Ran(<<Loud(g)>>, TRUE, t.state = "present" /\ t.gid = "taken")
    BY <2>2, ShortTrails DEF GroupRun
  <2>4. IsTrail(<<Loud(g)>>) /\ Noisy(<<Loud(g)>>)
    BY NoisyTrails
  <2> QED BY <2>3, <2>4, FailsRuns DEF v
<1>3. ASSUME t.module = "user" PROVE Fails(UserRun(NoUser, t, FALSE))
  <2> DEFINE run == UserCommands(NoUser, t)
             done == HostAfter(run, NoUser, Len(run.trail))
             key == UserSSHKey(done, t)
  <2>1. ~NoUser.exists
    BY DEF NoUser
  <2>2. t.state \in {"present", "locked", "unlocked"}
    BY <1>3 DEF Fits, FitsAccounts, SeenAsGone
  <2>3. run = Refused \/ \E g, f : run = Ran(<<Loud(g)>>, TRUE, f)
    <3>1. CASE t.state = "present"
      BY <2>1, <3>1 DEF UserCommands, Changes
    <3>2. CASE t.state \in {"locked", "unlocked"}
      BY <2>1, <3>2 DEF UserCommands
    <3> QED BY <2>2, <3>1, <3>2
  <2> HIDE DEF run, done
  <2>4. CASE run = Refused
    <3>1. UserRun(NoUser, t, FALSE) = Refused
      BY <2>4 DEF UserRun, run
    <3> QED BY <3>1, FailsRuns
  <2>5. CASE run # Refused
    <3>1. PICK g, f : run = Ran(<<Loud(g)>>, TRUE, f)
      BY <2>3, <2>5
    <3>2. run.trail = <<Loud(g)>>
      BY <3>1, RanTrail
    <3>3. IsTrail(key)
      BY KeyTrails
    <3> HIDE DEF key
    <3>4. UserRun(NoUser, t, FALSE) = Ran(run.trail \o key, run.trail # <<>> \/ key # <<>>, run.failed)
      BY <2>5 DEF UserRun, run, done, key
    <3>5. IsTrail(run.trail) /\ Noisy(run.trail)
      BY <3>2, NoisyTrails
    <3>6. IsTrail(run.trail \o key) /\ Noisy(run.trail \o key)
      BY <3>3, <3>5, NoisyJoin
    <3> QED BY <3>4, <3>6, FailsRuns
  <2> QED BY <2>4, <2>5
<1> QED BY <1>1, <1>2, <1>3

\* Entries of a file that was not seen are written anew, and what is mounted
\* already is as asked.
LEMMA FailsEntries ==
  ASSUME NEW t, NEW h, Fits(t, h), ~SeenAsGone(t)
  PROVE  /\ t.module = "authorized_key" => Fails(AuthorizedKeyRun(h, <<>>, t, FALSE))
         /\ t.module = "known_hosts" => Fails(KnownHostsRun(h, <<>>, t, FALSE))
         /\ t.module = "cron" => Fails(CronRun(h, <<>>, t, FALSE))
<1>1. ASSUME t.module = "authorized_key" PROVE Fails(AuthorizedKeyRun(h, <<>>, t, FALSE))
  <2> DEFINE new == AuthorizedKeys(<<>>, t)
             k == IF h.writable THEN WithLines(h, new) ELSE h
  <2>1. t.state = "present" /\ IsList(t.keys) /\ t.keys # <<>> /\ ~Contains(t.keys, "#")
    BY <1>1 DEF Fits, FitsEntries, SeenAsGone, ReadsBeforeItWrites
  <2>2. new # <<>>
    <3>1. KeyList(<<>>)
      <4>1. <<>> \in Seq({}) /\ DOMAIN <<>> = {}
        OBVIOUS
      <4> QED BY <4>1, ListIs DEF KeyList
    <3>2. KeysAsked(t, new)
      BY <2>1, <3>1, KeysRight
    <3> HIDE DEF new
    <3>3. t.keys[1] \in ToSet(t.keys)
      <4>1. t.keys \in Seq(Elems(t.keys)) /\ DOMAIN t.keys = 1..Len(t.keys) /\ Len(t.keys) \in Nat
        BY <2>1, ListSeq
      <4>2. 1 \in DOMAIN t.keys
        BY <2>1, <4>1
      <4> QED BY <4>2 DEF ToSet
    <3>4. Keys(<<>>) = {}
      BY DEF Keys
    <3> QED BY <2>1, <3>2, <3>3, <3>4 DEF KeysAsked
  <2> HIDE DEF new, k
  <2>3. AuthorizedKeyRun(h, <<>>, t, FALSE) = Changes(Said(<<h, k>>))
    BY <2>2 DEF AuthorizedKeyRun, new, k
  <2>4. Said(<<h, k>>) = <<Loud(h), Loud(k)>>
    BY SaidTwo
  <2>5. IsTrail(<<Loud(h), Loud(k)>>) /\ Noisy(<<Loud(h), Loud(k)>>)
    BY NoisyTrails
  <2> QED BY <2>3, <2>4, <2>5, FailsRuns
<1>2. ASSUME t.module = "known_hosts" PROVE Fails(KnownHostsRun(h, <<>>, t, FALSE))
  <2>1. t.state = "present"
    BY <1>2 DEF Fits, FitsEntries, SeenAsGone, ReadsBeforeItWrites
  <2>2. KnownHosts(<<>>, t) # <<>>
    <3>1. PICK x : KnownHosts(<<>>, t) = Append(<<>>, x)
      BY <2>1, FlattenNone DEF KnownHosts, Rewritten
    <3> QED BY <3>1
  <2>3. KnownHostsRun(h, <<>>, t, FALSE) = Changes(<<Quiet(h), Loud(WithLines(h, KnownHosts(<<>>, t)))>>)
    BY <2>2 DEF KnownHostsRun
  <2> QED BY <2>3, NoisyTrails, FailsRuns
<1>3. ASSUME t.module = "cron" PROVE Fails(CronRun(h, <<>>, t, FALSE))
  <2> DEFINE new == Crontab(<<>>, t)
             saved == IF t.backup /\ FALSE THEN [h EXCEPT !.bak = h.lines] ELSE h
  <2>1. t.state = "present"
    BY <1>3 DEF Fits, FitsEntries, SeenAsGone, ReadsBeforeItWrites
  <2>2. new # <<>>
    <3>1. CASE t.name # <<>>
      <4>1. new = [i \in DOMAIN <<>> |-> IF Heads(<<>>, t.name)[i - 1] THEN Job(t.job, t.disabled) ELSE <<>>[i]] \o <<Comment(t.name), Job(t.job, t.disabled)>>
        BY <2>1, <3>1 DEF Crontab, CronNamed
      <4>2. [i \in DOMAIN <<>> |-> IF Heads(<<>>, t.name)[i - 1] THEN Job(t.job, t.disabled) ELSE <<>>[i]] = <<>>
        OBVIOUS
      <4>3. <<>> \o <<Comment(t.name), Job(t.job, t.disabled)>> # <<>>
        OBVIOUS
      <4> QED BY <4>1, <4>2, <4>3
    <3>2. CASE t.name = <<>>
      <4>1. new = Append(<<>>, Job(t.job, t.disabled))
        BY <2>1, <3>2 DEF Crontab, CronUnnamed
      <4> QED BY <4>1
    <3> QED BY <3>1, <3>2
  <2> HIDE DEF new
  <2>3. CronRun(h, <<>>, t, FALSE) = Changes(<<Quiet(saved), Loud(WithLines(saved, new))>>)
    BY <2>2 DEF CronRun, new
  <2> QED BY <2>3, NoisyTrails, FailsRuns
<1> QED BY <1>1, <1>2, <1>3

LEMMA NoisySaid ==
  ASSUME NEW s, IsTrail(s), NEW x \in Elems(s)
  PROVE  IsTrail(Said(s)) /\ Noisy(Said(s))
<1>1. PICK i \in DOMAIN s : s[i] = x
  BY DEF Elems
<1>2. Said(s)[i] = Loud(x) /\ i \in DOMAIN Said(s)
  BY <1>1 DEF Said
<1>3. Loud(x) \in Elems(Said(s))
  BY <1>2 DEF Elems
<1> QED BY <1>3, SaidHushed, LoudQuiet DEF Noisy

\* A file, a directory, a setting that was not seen is made, or the task fails.
LEMMA FailsTransfers ==
  ASSUME NEW t, NEW h, Fits(t, h), ~SeenAsGone(t)
  PROVE  /\ t.module = "fetch" => Fails(FetchRun([h EXCEPT !.node = Absent], t, FALSE))
         /\ t.module = "copy_directory" => Fails(CopyDirectoryRun([h EXCEPT !.node = Absent, !.dir = FALSE], t, FALSE))
<1>1. ASSUME t.module = "fetch" PROVE Fails(FetchRun([h EXCEPT !.node = Absent], t, FALSE))
  <2> DEFINE v == [h EXCEPT !.node = Absent]
  <2>1. "node" \in DOMAIN h /\ t.fail
    BY <1>1 DEF Fits, FitsFiles, FileModules, HasFiles, SeenAsGone
  <2>2. v.node.kind # "file"
    BY <2>1 DEF Absent, Node
  <2> HIDE DEF v
  <2>3. FetchRun(v, t, FALSE) = Refused
    BY <2>1, <2>2 DEF FetchRun
  <2> QED BY <2>3, FailsRuns DEF v
<1>2. ASSUME t.module = "copy_directory" PROVE Fails(CopyDirectoryRun([h EXCEPT !.node = Absent, !.dir = FALSE], t, FALSE))
  <2> DEFINE v == [h EXCEPT !.node = Absent, !.dir = FALSE]
             made == MakeDir(v)
             sent == Write(made, t.text)
             same == Exists(v) /\ (v.node.text = t.text \/ ~t.force)
             todo == ~v.dir \/ ~same
             a == <<Loud(made)>>
             b == IF same THEN <<>> ELSE <<Quiet(made), Loud(sent)>> \o Finish(sent, t.want)
  <2>1. "dir" \in DOMAIN h
    BY <1>2 DEF Fits, FitsFiles, FileModules, HasFiles
  <2>2. ~v.dir
    BY <2>1
  <2> HIDE DEF v
  <2>3. CopyDirectoryRun(v, t, FALSE) = Ran((IF v.dir THEN <<>> ELSE a) \o b, todo, FALSE)
    BY DEF CopyDirectoryRun
  <2> HIDE DEF made, sent, same, todo
  <2>4. CopyDirectoryRun(v, t, FALSE) = Ran(a \o b, todo, FALSE)
    BY <2>2, <2>3
  <2>5. IsTrail(a) /\ Noisy(a)
    BY NoisyTrails
  <2>6. IsTrail(b)
    BY ShortTrails, TrailsJoin, PermissionTrails
  <2> HIDE DEF a, b
  <2> QED BY <2>4, <2>5, <2>6, NoisyJoin, FailsRuns DEF v
<1> QED BY <1>1, <1>2

LEMMA FailsSysctl ==
  ASSUME NEW t, NEW v, t.state = "present"
  PROVE  Fails(SysctlRun(v, <<>>, t, FALSE))
<1> DEFINE file == SysctlFile(<<>>, t)
           inFile == file # <<>>
           inKernel == t.state = "present" /\ v.live # t.value
           before == t.state = "present" /\ t.set
           bad == t.value = "bad" /\ ~t.ignore
           h1 == IF before THEN SetLive(v, t) ELSE v
           h2 == IF inFile THEN WithLines(h1, file) ELSE h1
           loads == (inFile \/ t.state = "present") /\ t.reload
           h3 == IF loads THEN Reload(h2, t) ELSE h2
           after == inKernel /\ ~before
           h4 == IF after THEN SetLive(h3, t) ELSE h3
           steps == Opt(before, h1) \o Opt(inFile, h2)
           run == SysctlRun(v, <<>>, t, FALSE)
<1>1. inFile
  <2>1. Named(<<>>, t.name) = {}
    BY DEF Named
  <2>2. PICK x : file = Append(<<>>, x)
    BY <2>1 DEF SysctlFile
  <2> QED BY <2>2
<1>2. run \in {Refused, Ran(Said(steps \o <<h3>>), FALSE, TRUE), Ran(Said(steps \o Opt(loads, h3) \o Opt(after, h4)), TRUE, after /\ bad)}
  BY <1>1 DEF SysctlRun, Opt
<1> HIDE DEF run, file, h1, h2, h3, h4, loads, after, bad, before, inFile
<1>3. IsTrail(steps) /\ h2 \in Elems(steps)
  <2>1. IsTrail(Opt(before, h1)) /\ Opt(inFile, h2) = <<h2>>
    BY <1>1, OptFirst DEF Opt
  <2>2. IsTrail(<<h2>>) /\ Elems(<<h2>>) = {h2}
    BY ElemsShort, ShortTrails
  <2> QED BY <2>1, <2>2, LastJoin
<1> HIDE DEF steps
<1>4. Fails(Ran(Said(steps \o <<h3>>), FALSE, TRUE))
  <2>1. IsTrail(steps \o <<h3>>)
    BY <1>3, ShortTrails, TrailsJoin
  <2> QED BY <2>1, SaidHushed, FailsRuns
<1>5. Fails(Ran(Said(steps \o Opt(loads, h3) \o Opt(after, h4)), TRUE, after /\ bad))
  <2> DEFINE s == steps \o Opt(loads, h3)
  <2>1. IsTrail(Opt(loads, h3)) /\ IsTrail(Opt(after, h4))
    BY OptFirst
  <2>2. IsTrail(s) /\ h2 \in Elems(s)
    BY <1>3, <2>1, LastJoin
  <2> HIDE DEF s
  <2>3. IsTrail(s \o Opt(after, h4)) /\ h2 \in Elems(s \o Opt(after, h4))
    BY <2>1, <2>2, LastJoin
  <2>4. IsTrail(Said(s \o Opt(after, h4))) /\ Noisy(Said(s \o Opt(after, h4)))
    BY <2>3, NoisySaid
  <2> QED BY <2>4, FailsRuns DEF s
<1>6. Fails(run)
  BY <1>2, <1>4, <1>5, FailsRuns
<1> QED BY <1>6 DEF run

\* What is mounted is as asked when nothing is to be written, whatever of the
\* host was not seen.
LEMMA FailsMount ==
  ASSUME NEW t, NEW h, Fits(t, h), t.module = "mount", ~SeenAsGone(t), ~NotAsAsked(t, h),
         NEW v \in {h, [h EXCEPT !.live = NotMounted]}
  PROVE  Fails(MountRun(v, <<>>, t, FALSE)) \/ (MountRun(v, <<>>, t, FALSE) = Unchanged /\ Promised(t, h))
<1> DEFINE file == Fstab(<<>>, t)
           inFile == file # <<>>
           up == v.live # NotMounted
           acts == CASE t.state = "mounted" -> ~up \/ inFile
                     [] t.state \in {"unmounted", "absent"} -> up
                     [] t.state = "remounted" -> TRUE
                     [] t.state = "present" -> FALSE
           h1 == IF inFile THEN WithLines(v, file) ELSE v
           asked == Completed(<<>>, t)
           live == CASE t.state \in {"unmounted", "absent"} -> NotMounted
                     [] t.state = "mounted" /\ ~up -> Mounted(v, h1.lines, t)
                     [] t.state = "remounted" /\ ~up -> IF asked.src \in {"", "bad"} THEN v.live ELSE asked
                     [] OTHER -> [v.live EXCEPT !.opts = t.opts]
           fails == t.state \in {"mounted", "remounted"} /\ live = NotMounted
           h2 == [h1 EXCEPT !.live = live]
           run == MountRun(v, <<>>, t, FALSE)
           a == IF inFile THEN <<Loud(h1)>> ELSE <<>>
           b == IF acts THEN <<Loud(h2)>> ELSE <<>>
           q == Ran(a \o b, TRUE, acts /\ fails)
<1>1. "live" \in DOMAIN h /\ t.state \in {"mounted", "present", "remounted"}
  BY DEF Fits, FitsEntries, SeenAsGone, ReadsBeforeItWrites
<1>2. t.state = "present" \/ (t.state = "mounted" /\ t.boot) => inFile
  <2>1. ASSUME t.state = "present" \/ (t.state = "mounted" /\ t.boot) PROVE inFile
    <3>1. At(<<>>, t.path) = {}
      BY DEF At
    <3>2. PICK x : file = Append(<<>>, x)
      BY <2>1, <3>1 DEF Fstab
    <3> QED BY <3>2
  <2> QED BY <2>1
<1>3. t.state = "remounted" \/ (t.state = "mounted" /\ ~up) => acts
  BY <1>1
<1>4. run = (IF ~inFile /\ ~acts THEN Unchanged ELSE q)
  BY DEF MountRun
<1> HIDE DEF run, file, acts, live, asked, h1, h2, fails, up, inFile
<1>5. CASE inFile \/ acts
  <2>1. a = (IF inFile THEN <<Loud(h1)>> ELSE <<>>) /\ b = (IF acts THEN <<Loud(h2)>> ELSE <<>>)
    OBVIOUS
  <2> HIDE DEF a, b
  <2>2. IsTrail(a) /\ IsTrail(b) /\ (Noisy(a) \/ Noisy(b))
    BY <1>5, <2>1, NoisyTrails, ShortTrails
  <2>3. Fails(Ran(a \o b, TRUE, acts /\ fails))
    BY <2>2, NoisyJoin, FailsRuns
  <2> QED BY <1>4, <1>5, <2>3 DEF run
<1>6. CASE ~inFile /\ ~acts
  <2>1. t.state = "mounted" /\ ~t.boot /\ up
    BY <1>1, <1>2, <1>3, <1>6
  <2>2. v.live # NotMounted
    BY <2>1 DEF up
  <2>3. v = h
    BY <1>1, <2>2
  <2>4. h.live # NotMounted /\ h.live.opts = t.opts
    BY <2>1, <2>2, <2>3 DEF NotAsAsked
  <2>5. EntriesPromised(t, h)
    BY <2>1, <2>4 DEF EntriesPromised
  <2>6. Promised(t, h)
    BY <2>5 DEF Promised, ReadsBeforeItWrites
  <2> QED BY <1>4, <1>6, <2>6 DEF run
<1> QED BY <1>5, <1>6

\* A connection that is lost at the reads of a module fails the task, or
\* nothing was left to be done.
LEMMA LostReads ==
  ASSUME NEW t, NEW h, Fits(t, h), ~SeenAsGone(t), ~NotAsAsked(t, h), NEW g \in Glimpses(t, h)
  PROVE  FailsAfter(Run(t, g.host, g.seen, FALSE), 0) \/ Promised(t, h)
<1> DEFINE run == Run(t, g.host, g.seen, FALSE)
<1>1. ASSUME Fails(run) PROVE FailsAfter(run, 0)
  <2> HIDE DEF run
  <2> QED BY <1>1, FailsLost
<1>2. ASSUME NEW x, NEW y PROVE Glimpse(x, y).host = x /\ Glimpse(x, y).seen = y
  BY DEF Glimpse
<1>3. CASE t.module \in {"copy", "template"}
  <2> DEFINE v == [h EXCEPT !.node = Absent]
  <2>1. g = Glimpse(v, <<>>)
    BY <1>3 DEF Glimpses, ReadsBeforeItWrites
  <2>2. "node" \in DOMAIN h /\ (t.module = "copy" => t.from \in {"remote", "content", "local"})
    BY <1>3 DEF Fits, FitsFiles, FileModules, HasFiles
  <2>3. ~Exists(v)
    BY <2>2 DEF Exists, Absent, Node
  <2> HIDE DEF v
  <2>4. g.host = v
    BY <1>2, <2>1
  <2>5. Fails(TemplateRun(v, t, FALSE)) /\ (t.module = "copy" => Fails(CopyRun(v, t, FALSE)))
    BY <2>2, <2>3, FailsCopy
  <2>6. /\ t.module = "copy" => run = CopyRun(v, t, FALSE)
        /\ t.module = "template" => run = TemplateRun(v, t, FALSE)
    BY <2>4 DEF Run
  <2> QED BY <1>1, <1>3, <2>5, <2>6
<1>4. CASE t.module = "fetch"
  <2> DEFINE v == [h EXCEPT !.node = Absent]
  <2>1. g = Glimpse(v, <<>>) /\ Fails(FetchRun(v, t, FALSE))
    BY <1>4, FailsTransfers DEF Glimpses, ReadsBeforeItWrites
  <2> HIDE DEF v
  <2>2. run = FetchRun(v, t, FALSE)
    BY <1>2, <1>4, <2>1 DEF Run
  <2> QED BY <1>1, <2>1, <2>2
<1>5. CASE t.module = "copy_directory"
  <2> DEFINE v == [h EXCEPT !.node = Absent, !.dir = FALSE]
  <2>1. g = Glimpse(v, <<>>) /\ Fails(CopyDirectoryRun(v, t, FALSE))
    BY <1>5, FailsTransfers DEF Glimpses, ReadsBeforeItWrites
  <2> HIDE DEF v
  <2>2. run = CopyDirectoryRun(v, t, FALSE)
    BY <1>2, <1>5, <2>1 DEF Run
  <2> QED BY <1>1, <2>1, <2>2
<1>6. CASE t.module = "hostname"
  <2> DEFINE v == [h EXCEPT !.live = ""]
  <2>1. g = Glimpse(v, <<>>) /\ Fails(HostnameRun(v, t, FALSE))
    BY <1>6, FailsAccounts DEF Glimpses, ReadsBeforeItWrites
  <2> HIDE DEF v
  <2>2. run = HostnameRun(v, t, FALSE)
    BY <1>2, <1>6, <2>1 DEF Run
  <2> QED BY <1>1, <2>1, <2>2
<1>7. CASE t.module = "user"
  <2>1. g = Glimpse(NoUser, <<>>) /\ Fails(UserRun(NoUser, t, FALSE))
    BY <1>7, FailsAccounts DEF Glimpses, ReadsBeforeItWrites
  <2>2. run = UserRun(NoUser, t, FALSE)
    BY <1>2, <1>7, <2>1 DEF Run
  <2> QED BY <1>1, <2>1, <2>2
<1>8. CASE t.module = "group"
  <2> DEFINE v == [exists |-> FALSE, gid |-> ""]
  <2>1. g = Glimpse(v, <<>>) /\ Fails(GroupRun(v, t, FALSE))
    BY <1>8, FailsAccounts DEF Glimpses, ReadsBeforeItWrites
  <2> HIDE DEF v
  <2>2. run = GroupRun(v, t, FALSE)
    BY <1>2, <1>8, <2>1 DEF Run
  <2> QED BY <1>1, <2>1, <2>2
<1>9. CASE t.module = "mount"
  <2>1. PICK v \in {h, [h EXCEPT !.live = NotMounted]} : g = Glimpse(v, <<>>)
    BY <1>9 DEF Glimpses
  <2>2. run = MountRun(v, <<>>, t, FALSE)
    BY <1>2, <1>9, <2>1 DEF Run
  <2>3. Fails(MountRun(v, <<>>, t, FALSE)) \/ Promised(t, h)
    BY <1>9, FailsMount
  <2> QED BY <1>1, <2>2, <2>3
<1>10. CASE t.module = "sysctl"
  <2>1. PICK v : g = Glimpse(v, <<>>)
    BY <1>10 DEF Glimpses
  <2>2. t.state = "present"
    BY <1>10 DEF Fits, FitsEntries, SeenAsGone, ReadsBeforeItWrites
  <2>3. run = SysctlRun(v, <<>>, t, FALSE)
    BY <1>2, <1>10, <2>1 DEF Run
  <2> QED BY <1>1, <2>2, <2>3, FailsSysctl
<1>11. CASE t.module \in {"authorized_key", "known_hosts", "cron"}
  <2>1. g = Glimpse(h, <<>>)
    BY <1>11 DEF Glimpses, ReadsBeforeItWrites
  <2>2. g.host = h /\ g.seen = <<>>
    BY <1>2, <2>1
  <2>3. CASE t.module = "authorized_key"
    BY <1>1, <2>2, <2>3, FailsEntries DEF Run
  <2>4. CASE t.module = "known_hosts"
    BY <1>1, <2>2, <2>4, FailsEntries DEF Run
  <2>5. CASE t.module = "cron"
    BY <1>1, <2>2, <2>5, FailsEntries DEF Run
  <2> QED BY <1>11, <2>3, <2>4, <2>5
<1>12. t.module \in {"copy", "template", "fetch", "copy_directory", "hostname", "user", "group", "mount", "sysctl",
                    "authorized_key", "known_hosts", "cron"}
  BY DEF Glimpses, ReadsBeforeItWrites
<1> QED BY <1>3, <1>4, <1>5, <1>6, <1>7, <1>8, <1>9, <1>10, <1>11, <1>12

-----------------------------------------------------------------------------
(* The steps of Managed                                                    *)

(* The host and its task                                                   *)

\* What a dry run that foretold no change knows of the host.
DryTold == last.kind = "dry" /\ ~last.failed /\ ~last.changed
             => SupportsCheckMode(task.module) /\ Silent(Run(task, host, Reads(task, host), TRUE))

\* A step that runs the task as a whole, or in check mode.
LEMMA StepKinds ==
  ASSUME Next
  PROVE  /\ task' = task
         /\ Succeeded(last') => WholeRun
         /\ last'.kind = "dry" => DryRun
         /\ last'.kind = "cut" => CutRun
         /\ last'.kind = "lost" => LostRead
<1>1. ASSUME NEW run, NEW n, NEW kind, Perform(run, n, kind)
      PROVE  task' = task /\ last'.kind = kind
  BY <1>1 DEF Perform, Outcome
<1>2. CASE WholeRun
  <2>1. task' = task /\ last'.kind = "whole"
    BY <1>1, <1>2 DEF WholeRun
  <2> QED BY <1>2, <2>1
<1>3. CASE CutRun
  <2>1. task' = task /\ last'.kind = "cut"
    BY <1>1, <1>3 DEF CutRun
  <2> QED BY <1>3, <2>1 DEF Succeeded
<1>4. CASE DryRun
  <2>1. task' = task /\ last'.kind = "dry"
    BY <1>1, <1>4 DEF DryRun
  <2> QED BY <1>4, <2>1 DEF Succeeded
<1>5. CASE BlindRun
  <2>1. task' = task /\ last'.kind = "blind"
    BY <1>1, <1>5 DEF BlindRun
  <2> QED BY <2>1 DEF Succeeded
<1>6. CASE LostRead
  <2>1. task' = task /\ last'.kind = "lost"
    BY <1>6 DEF LostRead, Outcome
  <2> QED BY <1>6, <2>1 DEF Succeeded
<1> QED BY <1>2, <1>3, <1>4, <1>5, <1>6 DEF Next

LEMMA StepFits ==
  ASSUME Fits(task, host), Next
  PROVE  Fits(task', host')
<1>1. ASSUME NEW seen \in {Reads(task, host), <<>>}, NEW check \in BOOLEAN, NEW n, NEW kind, Perform(Run(task, host, seen, check), n, kind),
             LET length == Len(Run(task, host, seen, check).trail) IN n = length \/ n \in 0..(length - 1)
      PROVE  Fits(task', host')
  <2>1. Fits(task, HostAfter(Run(task, host, seen, check), host, n))
    BY <1>1, FitModules
  <2> QED BY <1>1, <2>1 DEF Perform
<1>2. CASE WholeRun
  BY <1>1, <1>2 DEF WholeRun
<1>3. CASE CutRun
  BY <1>1, <1>3 DEF CutRun
<1>4. CASE DryRun
  BY <1>1, <1>4 DEF DryRun
<1>5. CASE BlindRun
  BY <1>1, <1>5 DEF BlindRun
<1>6. CASE LostRead
  BY <1>6 DEF LostRead
<1> QED BY <1>2, <1>3, <1>4, <1>5, <1>6 DEF Next

LEMMA StepTells ==
  ASSUME Fits(task, host), Next
  PROVE  DryTold'
<1> DEFINE run == Run(task, host, Reads(task, host), TRUE)
<1>1. SUFFICES ASSUME last'.kind = "dry", ~last'.failed, ~last'.changed
               PROVE  SupportsCheckMode(task'.module) /\ Silent(Run(task', host', Reads(task', host'), TRUE))
  BY DEF DryTold
<1>2. DryRun /\ task' = task
  BY <1>1, StepKinds
<1>3. SupportsCheckMode(task.module) /\ Perform(run, Len(run.trail), "dry")
  BY <1>2 DEF DryRun
<1> HIDE DEF run
<1>4. last' = Outcome("dry", host, FailsAfter(run, Len(run.trail)), run.changed[Len(run.trail)])
  BY <1>3 DEF Perform
<1>5. ~run.failed /\ ~Changed(run)
  BY <1>1, <1>4 DEF Outcome, FailsAfter, Changed
<1>6. run.trail = <<>>
  BY <1>3, <1>5, SilentIsDry DEF Silent, run
<1>7. host' = host
  BY <1>3, <1>6, ShortTrails DEF Perform, HostAfter
<1> QED BY <1>2, <1>3, <1>5, <1>7 DEF Silent, run

\* Whatever has happened to the host, the task fits it, and a dry run that
\* told of no change still would.
THEOREM TasksAlwaysFit == Spec => [](Fits(task, host) /\ DryTold)
<1> DEFINE IInv == Fits(task, host) /\ DryTold
<1>1. Init => IInv
  BY CasesAssumption DEF Init, DryTold, Outcome
<1>2. IInv /\ [Next]_vars => IInv'
  <2> SUFFICES ASSUME IInv, [Next]_vars PROVE IInv'
    OBVIOUS
  <2>1. CASE Next
    BY <2>1, StepFits, StepTells
  <2>2. CASE UNCHANGED vars
    BY <2>2 DEF vars, DryTold
  <2> QED BY <2>1, <2>2
<1> QED BY <1>1, <1>2, PTL DEF Spec

\* A run in check mode leaves the host as it is, for every module that
\* supports check mode and every host that the task fits, but where
\* permissions are set or package lists refreshed before check mode is
\* looked at (NotDry).
THEOREM DryRunsStayDry == Spec => DryRunsAreDry
<1>1. ASSUME Fits(task, host), [Next]_vars
      PROVE  [last'.kind = "dry" /\ ~NotDry(task, host) => host' = host]_vars
  <2> SUFFICES ASSUME Next, last'.kind = "dry", ~NotDry(task, host)
               PROVE  host' = host
    BY <1>1
  <2> DEFINE run == Run(task, host, Reads(task, host), TRUE)
  <2>1. SupportsCheckMode(task.module) /\ Perform(run, Len(run.trail), "dry")
    BY StepKinds DEF DryRun
  <2>2. run.trail = <<>>
    BY <1>1, <2>1, DryModules DEF Dry
  <2> HIDE DEF run
  <2> QED BY <2>1, <2>2, ShortTrails DEF Perform, HostAfter
<1> QED BY <1>1, TasksAlwaysFit, PTL DEF Spec, DryRunsAreDry

\* What is reported as no change is none: of a run that succeeded, whatever
\* ran before it, and by a dry run of the run that comes next.
THEOREM NoChangeIsReal == Spec => NoChangeIsTrue
<1>1. ASSUME Fits(task, host), [Next]_vars
      PROVE  [Succeeded(last') /\ ~last'.changed /\ ~ChangesUnsaid(task, host) => Kept(host') = Kept(host)]_vars
  <2> SUFFICES ASSUME Next, Succeeded(last'), ~last'.changed, ~ChangesUnsaid(task, host)
               PROVE  Kept(host') = Kept(host)
    BY <1>1
  <2> DEFINE run == Run(task, host, Reads(task, host), FALSE)
  <2>1. Perform(run, Len(run.trail), "whole")
    BY StepKinds DEF WholeRun
  <2>2. Honest(run, host)
    BY <1>1, HonestModules
  <2> HIDE DEF run
  <2>3. last' = Outcome("whole", host, FailsAfter(run, Len(run.trail)), run.changed[Len(run.trail)])
    BY <2>1 DEF Perform
  <2>4. ~run.failed /\ ~Changed(run)
    BY <2>3 DEF Succeeded, Outcome, FailsAfter, Changed
  <2>5. host' = Left(run, host)
    BY <2>1 DEF Perform, Left
  <2> QED BY <2>2, <2>4, <2>5 DEF Honest
<1>2. ASSUME Fits(task, host), DryTold, [Next]_vars
      PROVE  [last.kind = "dry" /\ ~last.failed /\ ~last.changed /\ Succeeded(last') /\ ~NotForetold(task, host)
                => ~last'.changed]_vars
  <2> SUFFICES ASSUME Next, last.kind = "dry", ~last.failed, ~last.changed, Succeeded(last'), ~NotForetold(task, host)
               PROVE  ~last'.changed
    BY <1>2
  <2> DEFINE dry == Run(task, host, Reads(task, host), TRUE)
             run == Run(task, host, Reads(task, host), FALSE)
  <2>1. Perform(run, Len(run.trail), "whole")
    BY StepKinds DEF WholeRun
  <2>2. SupportsCheckMode(task.module) /\ Silent(dry)
    BY <1>2 DEF DryTold
  <2>3. Foretells(dry, run)
    BY <1>2, <2>2, ForetellingModules
  <2> HIDE DEF dry, run
  <2>4. last' = Outcome("whole", host, FailsAfter(run, Len(run.trail)), run.changed[Len(run.trail)])
    BY <2>1 DEF Perform
  <2>5. ~run.failed
    BY <2>4 DEF Succeeded, Outcome, FailsAfter
  <2>6. ~Changed(run)
    BY <2>2, <2>3, <2>5 DEF Foretells
  <2> QED BY <2>4, <2>6 DEF Outcome, Changed
<1>3. Spec => UnchangedIsTrue
  BY <1>1, TasksAlwaysFit, PTL DEF Spec, UnchangedIsTrue
<1>4. Spec => NoSurprise
  BY <1>2, TasksAlwaysFit, PTL DEF Spec, NoSurprise
<1> QED BY <1>3, <1>4 DEF NoChangeIsTrue

LEMMA LastCommand ==
  ASSUME NEW run, NEW h, IsTrail(run.trail)
  PROVE  HostAfter(run, h, Len(run.trail)) = End(run.trail, h)
BY TrailEmpty DEF HostAfter, End

\* A run that succeeded leaves on the host what its task asked for, for
\* every module and every host that the task fits, whatever ran before it,
\* but in the cases that NotAsAsked lists.
THEOREM SuccessIsAsAsked == Spec => AsAsked
<1>1. ASSUME Fits(task, host), [Next]_vars
      PROVE  [Succeeded(last') /\ ~NotAsAsked(task, host) => Promised(task, host')]_vars
  <2> SUFFICES ASSUME Next, Succeeded(last'), ~NotAsAsked(task, host)
               PROVE  Promised(task, host')
    BY <1>1
  <2> DEFINE seen == Reads(task, host)
             run == Run(task, host, seen, FALSE)
  <2>1. Perform(run, Len(run.trail), "whole")
    BY StepKinds DEF WholeRun
  <2>2. Good(task, host, run, FALSE)
    <3>1. Good(task, host, run, FALSE \/ seen # Reads(task, host))
      BY <1>1, GoodModules
    <3> HIDE DEF run
    <3>2. FALSE \/ seen # Reads(task, host) => FALSE
      OBVIOUS
    <3> QED BY <3>1, <3>2, GoodLoose
  <2> HIDE DEF run
  <2>3. last' = Outcome("whole", host, FailsAfter(run, Len(run.trail)), run.changed[Len(run.trail)])
    BY <2>1 DEF Perform
  <2>4. ~run.failed
    BY <2>3 DEF Succeeded, Outcome, FailsAfter
  <2>5. Promised(task, End(run.trail, host)) /\ IsTrail(run.trail)
    BY <2>2, <2>4 DEF Good, Done, Fitting
  <2>6. host' = HostAfter(run, host, Len(run.trail))
    BY <2>1 DEF Perform
  <2> QED BY <2>5, <2>6, LastCommand
<1> QED BY <1>1, TasksAlwaysFit, PTL DEF Spec, AsAsked

\* A connection that is lost at the reads of a run or after any of its
\* commands fails the task or leaves what it asked for, but where what comes
\* last is dropped (CutUnseen), and where what is to be gone, or may be
\* missing, was not seen (SeenAsGone).
THEOREM CutsAreSeen == Spec => CutsShow
<1>1. ASSUME Fits(task, host), Next, last'.kind = "cut", ~last'.failed, ~CutUnseen(task), ~NotAsAsked(task, host)
      PROVE  Promised(task, host')
  <2> DEFINE seen == Reads(task, host)
             run == Run(task, host, seen, FALSE)
  <2>1. PICK n \in 0..(Len(run.trail) - 1) : Perform(run, n, "cut")
    BY <1>1, StepKinds DEF CutRun
  <2>2. Good(task, host, run, FALSE)
    <3>1. Good(task, host, run, FALSE \/ seen # Reads(task, host))
      BY <1>1, GoodModules
    <3> HIDE DEF run
    <3>2. FALSE \/ seen # Reads(task, host) => FALSE
      OBVIOUS
    <3> QED BY <3>1, <3>2, GoodLoose
  <2> HIDE DEF run
  <2>3. last' = Outcome("cut", host, FailsAfter(run, n), run.changed[n])
    BY <2>1 DEF Perform
  <2>4. ~run.failed /\ \A i \in (n + 1)..Len(run.trail) : ~run.trail[i].loud
    BY <1>1, <2>3 DEF Outcome, FailsAfter
  <2>5. Promised(task, HostAfter(run, host, n))
    BY <1>1, <2>2, <2>4 DEF Good, Done
  <2> QED BY <2>1, <2>5 DEF Perform
<1>2. ASSUME Fits(task, host), Next, last'.kind = "lost", ~last'.failed, ~SeenAsGone(task), ~NotAsAsked(task, host)
      PROVE  Promised(task, host')
  <2>1. LostRead
    BY <1>2, StepKinds
  <2>2. PICK g \in Glimpses(task, host) :
          LET run == Run(task, g.host, g.seen, FALSE) IN last' = Outcome("lost", host, FailsAfter(run, 0), run.changed[0])
    BY <2>1 DEF LostRead
  <2> DEFINE run == Run(task, g.host, g.seen, FALSE)
  <2>3. last' = Outcome("lost", host, FailsAfter(run, 0), run.changed[0])
    BY <2>2
  <2>4. FailsAfter(run, 0) \/ Promised(task, host)
    BY <1>2, LostReads
  <2> HIDE DEF run
  <2>5. ~FailsAfter(run, 0)
    BY <1>2, <2>3 DEF Outcome
  <2>6. host' = host /\ task' = task
    BY <2>1 DEF LostRead
  <2> QED BY <2>4, <2>5, <2>6
<1>3. ASSUME Fits(task, host), [Next]_vars
      PROVE  [last'.kind \in {"cut", "lost"} /\ ~last'.failed /\ ~Unseen(last'.kind, task) /\ ~NotAsAsked(task, host)
                => Promised(task, host')]_vars
  BY <1>1, <1>2, <1>3 DEF Unseen
<1> QED BY <1>3, TasksAlwaysFit, PTL DEF Spec, CutsShow

\* However a run ends, wherever its connection is lost, and when it could
\* not read the file that it writes, the lines and the entries that its task
\* does not name are what they were, in their order, for every task and every
\* host that it fits, but in the cases that TakesOthers lists, and when a run
\* that read nothing adds an entry of its own (AddsUnread).
THEOREM OthersAreLeft == Spec => OthersStay
<1>1. ASSUME Fits(task, host), [Next]_vars
      PROVE  [~TakesOthers(task, host) /\ ~(last'.kind = "blind" /\ AddsUnread(task)) => Others(task, host') = Others(task, host)]_vars
  <2> SUFFICES ASSUME Next, ~TakesOthers(task, host), ~(last'.kind = "blind" /\ AddsUnread(task))
               PROVE  Others(task, host') = Others(task, host)
    BY <1>1
  <2>1. ASSUME NEW check \in BOOLEAN, NEW n, NEW kind, Perform(Run(task, host, Reads(task, host), check), n, kind),
               LET length == Len(Run(task, host, Reads(task, host), check).trail) IN n = length \/ n \in 0..(length - 1)
        PROVE  Others(task, host') = Others(task, host)
    <3> DEFINE run == Run(task, host, Reads(task, host), check)
    <3>1. Spares(task, host, run)
      BY <1>1, SparingModules
    <3>2. host' = HostAfter(run, host, n) /\ (n = Len(run.trail) \/ n \in 0..(Len(run.trail) - 1))
      BY <2>1 DEF Perform
    <3> HIDE DEF run
    <3> QED BY <3>1, <3>2, SparedAfter
  <2>2. CASE WholeRun
    BY <2>1, <2>2 DEF WholeRun
  <2>3. CASE CutRun
    BY <2>1, <2>3 DEF CutRun
  <2>4. CASE DryRun
    BY <2>1, <2>4 DEF DryRun
  <2>5. CASE BlindRun
    <3> DEFINE run == Run(task, host, <<>>, FALSE)
    <3>1. task.module \in ReadsBeforeItWrites /\ Perform(run, Len(run.trail), "blind")
      BY <2>5 DEF BlindRun
    <3> HIDE DEF run
    <3>2. last'.kind = "blind" /\ host' = HostAfter(run, host, Len(run.trail))
      BY <3>1 DEF Perform, Outcome
    <3>3. Spares(task, host, run)
      BY <1>1, <3>1, <3>2, BlindSpares DEF run
    <3> QED BY <3>2, <3>3, SparedAfter
  <2>6. CASE LostRead
    BY <2>6 DEF LostRead
  <2> QED BY <2>2, <2>3, <2>4, <2>5, <2>6 DEF Next
<1> QED BY <1>1, TasksAlwaysFit, PTL DEF Spec, OthersStay
==============================================================================
