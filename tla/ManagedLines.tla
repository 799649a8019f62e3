--------------------------- MODULE ManagedLines ---------------------------
(***************************************************************************)
(* lineinfile, blockinfile and replace of pkg/module: the text is read,    *)
(* transformed on the control machine and written back whole.              *)
(***************************************************************************)
EXTENDS ManagedFiles

(* What a transformation gives: the lines, and whether it calls them changed. *)
Gives(lines, changed) == [lines |-> lines, changed |-> changed]

Matches(lines, pattern) == {i \in DOMAIN lines : lines[i] \in pattern}
MaxOf(S) == CHOOSE i \in S : \A j \in S : j <= i
MinOf(S) == CHOOSE i \in S : \A j \in S : i <= j

-----------------------------------------------------------------------------
(* lineinfile.  A place is BOF or the set of the lines it matches, none of *)
(* which stands for EOF; the literal text that a pattern falls back on when*)
(* it matches nothing is folded into the set.                              *)

BOF == {"BOF"}

FindInsertIndex(lines, pattern, first) ==
    IF first THEN MinOf(Matches(lines, pattern)) ELSE MaxOf(Matches(lines, pattern))

Found(lines, place) == Matches(lines, place) # {}

InsertLine(lines, t) ==
    IF lines = <<>> THEN <<t.line>>
    ELSE IF t.before = BOF THEN Cons(t.line, lines)
    ELSE IF Found(lines, t.before) THEN InsertAt(lines, FindInsertIndex(lines, t.before, t.first), t.line)
    ELSE IF Found(lines, t.after) THEN InsertAt(lines, FindInsertIndex(lines, t.after, t.first) + 1, t.line)
    ELSE Append(lines, t.line)

(* Mutant: a line that is there already is inserted again. *)
LinePresentAgain(lines, t) ==
    LET hits == Matches(lines, t.pattern)
    IN  IF hits = {} THEN Gives(InsertLine(lines, t), TRUE)
        ELSE Gives(ReplaceAt(lines, MaxOf(hits), t.line), lines[MaxOf(hits)] # t.line)

(* The last line the pattern matches, or the first, becomes the line; the  *)
(* others stay.  Without a match the line is inserted, and with a pattern  *)
(* nobody looks whether it is there already.                               *)
LinePresent(lines, t) ==
    LET hits == IF t.pattern = NoPattern THEN {} ELSE Matches(lines, t.pattern)
        target == IF t.first THEN MinOf(hits) ELSE MaxOf(hits)
        new == IF t.backrefs THEN t.rewrite[lines[target]] ELSE t.line
    IN  CASE hits # {} -> Gives(ReplaceAt(lines, target, new), lines[target] # new)
          [] hits = {} /\ (t.backrefs \/ (t.pattern = NoPattern /\ Contains(lines, t.line))) -> Gives(lines, FALSE)
          [] OTHER -> Gives(InsertLine(lines, t), TRUE)

(* Mutant: only the first of the lines goes. *)
LineAbsentOnce(lines, t) ==
    LET gone == Matches(lines, IF t.pattern = NoPattern THEN {t.line} ELSE t.pattern)
    IN  Gives(IF gone = {} THEN lines ELSE RemoveAt(lines, MinOf(gone)), gone # {})

LineAbsent(lines, t) ==
    LET gone == IF t.pattern = NoPattern THEN {t.line} ELSE t.pattern
        kept == Filtered(lines, LAMBDA l : l \notin gone)
    IN  Gives(kept, kept # lines)

TransformLine(lines, t) == IF t.state = "present" THEN LinePresent(lines, t) ELSE LineAbsent(lines, t)

-----------------------------------------------------------------------------
(* blockinfile.  The marker lines are "begin" and "end"; the first begin   *)
(* and the first end after it hold the block.  A begin without an end, or  *)
(* an end alone, is no block: a new one goes in.                           *)

Begins(lines) == {i \in DOMAIN lines : lines[i] = "begin"}
Start(lines)  == MinOf(Begins(lines))
Ends(lines)   == IF Begins(lines) = {} THEN {} ELSE {i \in DOMAIN lines : lines[i] = "end" /\ i > Start(lines)}
HasBlock(lines) == Ends(lines) # {}

Splice(lines, from, to, middle) ==
    SubSeq(lines, 1, from - 1) \o middle \o SubSeq(lines, to + 1, Len(lines))

InsertBlock(lines, full, t) ==
    LET at == CASE t.before = BOF -> 1
                [] t.before \notin {BOF, NoPattern} ->
                     IF Found(lines, t.before) THEN MinOf(Matches(lines, t.before)) ELSE Len(lines) + 1
                [] OTHER ->
                     IF Found(lines, t.after) THEN MaxOf(Matches(lines, t.after)) + 1 ELSE Len(lines) + 1
    IN  Splice(lines, at, at - 1, full)

TransformBlock(lines, t) ==
    LET full == <<"begin">> \o t.block \o <<"end">>
        from == Start(lines)
        to == MinOf(Ends(lines))
    IN  IF t.state = "absent" \/ t.block = <<>>
        THEN IF HasBlock(lines) THEN Gives(Splice(lines, from, to, <<>>), TRUE) ELSE Gives(lines, FALSE)
        ELSE IF ~HasBlock(lines) THEN Gives(InsertBlock(lines, full, t), TRUE)
        ELSE IF SubSeq(lines, from, to) = full THEN Gives(lines, FALSE)
        ELSE Gives(Splice(lines, from, to, full), TRUE)

-----------------------------------------------------------------------------
(* replace: in the part of the text after what "before" matches and before *)
(* what "after" matches from there on, every line of the pattern becomes   *)
(* its rewriting.  A scope whose "before" does not match is the whole text.*)

Scope(lines, t) ==
    LET starts == Matches(lines, t.before)
        from == IF t.before = NoPattern THEN 1 ELSE MinOf(starts) + 1
        stops == {i \in Matches(lines, t.after) : i >= from}
        to == IF t.after = NoPattern \/ stops = {} THEN Len(lines) ELSE MinOf(stops) - 1
    IN  IF t.before # NoPattern /\ starts = {} THEN DOMAIN lines ELSE from..to

TransformAll(lines, t) ==
    [i \in DOMAIN lines |-> IF i \in Scope(lines, t) /\ lines[i] \in t.pattern THEN t.rewrite[lines[i]] ELSE lines[i]]

-----------------------------------------------------------------------------
(* What the three have in common once they know the new text: validate     *)
(* sees it in a temporary file of its own, then a backup, the text, the    *)
(* permissions.  loudExit: whether the task fails when the shell could not *)
(* write the file.                                                         *)

WriteBack(h, t, text) ==
    LET staged == IF t.validate THEN <<Loud(WriteTmp(h, text)), Loud(WriteTmp(h, text))>> ELSE <<>>
        kept == BackupIf(h, t.backup)
        done == Write(kept, text)
        tmp(g) == IF t.validate THEN [g EXCEPT !.tmp = Node("file", text, Default)] ELSE g
        perms == SetFilePermissions(tmp(done), t.want, FALSE)
        last == IF perms = <<>> THEN tmp(done) ELSE perms[Len(perms)].host
    IN  IF Rejects(t, text)
        THEN Ran(<<Loud(WriteTmp(h, text)), Quiet(h)>>, FALSE, TRUE)
        ELSE Ran(staged \o <<Quiet(tmp(kept)), Loud(tmp(done))>> \o Hushed(perms)
                   \o (IF t.validate THEN <<Quiet(DropTmp(last))>> ELSE <<>>),
                 TRUE, ~h.dir)

(* lineinfile and blockinfile, once one of the two above did its part. *)
EditRun(h, t, check, did) ==
    IF ~Exists(h) /\ ~t.create THEN Refused
    ELSE IF ~did.changed THEN IF Exists(h) THEN OnlyPermissions(h, t.want) ELSE Unchanged
    ELSE IF check THEN Reports(TRUE)
    ELSE WriteBack(h, t, Text(did.lines, t.newline))

LineinfileRun(h, t, check)  == EditRun(h, t, check, TransformLine(h.node.text.lines, t))
BlockinfileRun(h, t, check) == EditRun(h, t, check, TransformBlock(h.node.text.lines, t))

ReplaceRun(h, t, check) ==
    LET text == Text(TransformAll(h.node.text.lines, t), t.newline)
    IN  IF ~Exists(h) THEN Refused
        ELSE IF text = h.node.text THEN Unchanged
        ELSE IF check THEN Reports(TRUE)
        ELSE WriteBack(h, [t EXCEPT !.want = AsIs], text)
=============================================================================
