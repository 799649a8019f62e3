-------------------------- MODULE ManagedRunProofs --------------------------
(***************************************************************************)
(* Lemmas about the runs of Managed's modules, for any tasks and hosts     *)
(* that fit.  First what their reports are worth: a run that reports no    *)
(* change made none (Honest), in check mode it has no trail (Dry), and a   *)
(* dry run that foretells no change is followed by none (Foretells); one   *)
(* lemma per module each.  Then what runs leave behind: the modules that   *)
(* bring files or edit lines leave what was asked for, or have failed, and *)
(* a loss of the connection after any of their commands is not taken for a *)
(* success (Right).  The recursive functions of the lines are opened by    *)
(* induction over sets of numbers.                                         *)
(***************************************************************************)
EXTENDS Managed, TLAPS, WellFoundedInduction

\* The trail of a run is a sequence, of whatever commands.
IsTrail(s) == \E S : s \in Seq(S)

LEMMA TrailLength ==
  ASSUME NEW s, IsTrail(s)
  PROVE  Len(s) \in Nat /\ DOMAIN s = 1..Len(s)
BY DEF IsTrail

LEMMA TrailsJoin ==
  ASSUME NEW a, NEW b, IsTrail(a), IsTrail(b)
  PROVE  IsTrail(a \o b) /\ Len(a \o b) = Len(a) + Len(b)
<1>1. PICK A : a \in Seq(A)
  BY DEF IsTrail
<1>2. PICK B : b \in Seq(B)
  BY DEF IsTrail
<1> DEFINE S == A \union B
<1>3. a \in Seq(S) /\ b \in Seq(S)
  BY <1>1, <1>2
<1>4. a \o b \in Seq(S) /\ Len(a \o b) = Len(a) + Len(b)
  BY <1>3
<1> QED BY <1>4 DEF IsTrail

LEMMA ShortTrails ==
  /\ IsTrail(<<>>) /\ Len(<<>>) = 0
  /\ \A a : IsTrail(<<a>>) /\ Len(<<a>>) = 1 /\ <<a>> # <<>>
  /\ \A a, b : IsTrail(<<a, b>>) /\ Len(<<a, b>>) = 2 /\ <<a, b>> # <<>>
  /\ \A a, b, c : IsTrail(<<a, b, c>>) /\ Len(<<a, b, c>>) = 3 /\ <<a, b, c>> # <<>>
<1>1. IsTrail(<<>>) /\ Len(<<>>) = 0
  <2>1. <<>> \in Seq({})
    OBVIOUS
  <2> QED BY <2>1 DEF IsTrail
<1>2. ASSUME NEW a PROVE IsTrail(<<a>>) /\ Len(<<a>>) = 1 /\ <<a>> # <<>>
  <2>1. <<a>> \in Seq({a})
    OBVIOUS
  <2> QED BY <2>1 DEF IsTrail
<1>3. ASSUME NEW a, NEW b PROVE IsTrail(<<a, b>>) /\ Len(<<a, b>>) = 2 /\ <<a, b>> # <<>>
  <2>1. <<a, b>> \in Seq({a, b})
    OBVIOUS
  <2> QED BY <2>1 DEF IsTrail
<1>4. ASSUME NEW a, NEW b, NEW c PROVE IsTrail(<<a, b, c>>) /\ Len(<<a, b, c>>) = 3 /\ <<a, b, c>> # <<>>
  <2>1. <<a, b, c>> \in Seq({a, b, c})
    OBVIOUS
  <2> QED BY <2>1 DEF IsTrail
<1> QED BY <1>1, <1>2, <1>3, <1>4

LEMMA SaidHushed ==
  ASSUME NEW s, IsTrail(s)
  PROVE  /\ IsTrail(Said(s)) /\ Len(Said(s)) = Len(s)
         /\ IsTrail(Hushed(s)) /\ Len(Hushed(s)) = Len(s)
<1>1. PICK S : s \in Seq(S)
  BY DEF IsTrail
<1>2. Said(s) = [i \in 1..Len(s) |-> Loud(s[i])]
  BY <1>1 DEF Said
<1>3. Said(s) \in Seq({Loud(a) : a \in S}) /\ Len(Said(s)) = Len(s)
  BY <1>1, <1>2
<1>4. Hushed(s) = [i \in 1..Len(s) |-> Quiet(s[i].host)]
  BY <1>1 DEF Hushed
<1>5. Hushed(s) \in Seq({Quiet(a.host) : a \in S}) /\ Len(Hushed(s)) = Len(s)
  BY <1>1, <1>4
<1> QED BY <1>3, <1>5 DEF IsTrail

\* What a whole run says of changes, and the host it leaves.
Changed(r) == r.changed[Len(r.trail)]
Left(r, h) == HostAfter(r, h, Len(r.trail))

\* A run that claims to have changed nothing has not.
Honest(r, h) == ~r.failed /\ ~Changed(r) => Kept(Left(r, h)) = Kept(h)

LEMMA RanChanged ==
  ASSUME NEW trail, NEW c, NEW f, IsTrail(trail)
  PROVE  LET r == Ran(trail, c, f) IN r.trail = trail /\ r.failed = f /\ Changed(r) = c /\ r.changed[0] = c
<1>1. 0 \in 0..Len(trail) /\ Len(trail) \in 0..Len(trail)
  BY TrailLength
<1> QED BY <1>1 DEF Ran, Changed

LEMMA RanSays ==
  ASSUME NEW trail, NEW c, NEW f, IsTrail(trail)
  PROVE  Changed(Ran(trail, c, f)) = c
BY RanChanged

LEMMA HonestRuns ==
  /\ \A trail, h : IsTrail(trail) => Honest(Changes(trail), h)
  /\ \A trail, c, h : IsTrail(trail) => Honest(Ran(trail, c, TRUE), h)
  /\ \A trail, f, h : IsTrail(trail) => Honest(Ran(trail, TRUE, f), h)
  /\ \A c, f, h : Honest(Ran(<<>>, c, f), h)
  /\ \A c, h : Honest(Reports(c), h)
  /\ \A h : Honest(Unchanged, h) /\ Honest(Refused, h)
<1>1. \A trail, c, h : IsTrail(trail) => Honest(Ran(trail, c, TRUE), h)
  BY RanChanged DEF Honest
<1>2. ASSUME NEW trail, NEW f, NEW h, IsTrail(trail)
      PROVE  Honest(Ran(trail, TRUE, f), h)
  <2>1. Changed(Ran(trail, TRUE, f)) = TRUE
    BY <1>2, RanChanged
  <2>2. Changed(Ran(trail, TRUE, f))
    BY <2>1
  <2> QED BY <2>2 DEF Honest
<1>3. \A c, f, h : Honest(Ran(<<>>, c, f), h)
  BY RanChanged, ShortTrails DEF Honest, Left, HostAfter
<1> QED BY <1>1, <1>2, <1>3 DEF Changes, Reports, Unchanged, Refused

LEMMA HonestScripts ==
  /\ \A g, c, h : Kept(g) = Kept(h) => Honest(Script(g, c), h)
  /\ \A g, h : Honest(Script(g, TRUE), h) /\ Honest(ScriptFailed(g), h)
<1>1. ASSUME NEW g, NEW c, NEW h, Kept(g) = Kept(h)
      PROVE  Honest(Script(g, c), h)
  <2>1. Script(g, c).trail = <<Loud(g)>>
    BY DEF Script, Ran
  <2>2. Left(Script(g, c), h) = g
    BY <2>1, ShortTrails DEF Left, HostAfter, Loud
  <2> QED BY <1>1, <2>2 DEF Honest
<1>2. \A g, h : Honest(Script(g, TRUE), h) /\ Honest(ScriptFailed(g), h)
  BY HonestRuns, ShortTrails DEF Script, ScriptFailed
<1> QED BY <1>1, <1>2

LEMMA HonestAfter ==
  ASSUME NEW prefix, NEW run, NEW h, IsTrail(prefix), IsTrail(run.trail), run.changed[0]
  PROVE  Honest(After(prefix, run), h)
<1>1. Len(prefix) \in Nat /\ Len(run.trail) \in Nat /\ Len(prefix \o run.trail) = Len(prefix) + Len(run.trail)
  BY TrailLength, TrailsJoin
<1>2. /\ After(prefix, run).trail = prefix \o run.trail
      /\ After(prefix, run).changed = [n \in 0..(Len(prefix) + Len(run.trail)) |-> run.changed[0]]
  BY DEF After
<1>3. Len(prefix) + Len(run.trail) \in 0..(Len(prefix) + Len(run.trail))
  BY <1>1
<1>4. Changed(After(prefix, run)) = run.changed[0]
  BY <1>1, <1>2, <1>3 DEF Changed
<1>5. Changed(After(prefix, run))
  BY <1>4
<1> QED BY <1>5 DEF Honest
-----------------------------------------------------------------------------
(* What is reported unchanged, module by module                            *)

LEMMA PermissionTrails ==
  ASSUME NEW h, NEW want, NEW recurse
  PROVE  /\ IsTrail(SetFilePermissions(h, want, recurse))
         /\ IsTrail(Hushed(SetFilePermissions(h, want, recurse)))
         /\ IsTrail(Finish(h, want))
BY ShortTrails, TrailsJoin, SaidHushed DEF SetFilePermissions, Finish

LEMMA HonestPermissions ==
  ASSUME NEW h, NEW want
  PROVE  Honest(OnlyPermissions(h, want), h)
<1> DEFINE trail == SetFilePermissions(h, want, FALSE)
<1>1. IsTrail(trail)
  BY PermissionTrails
<1> HIDE DEF trail
<1>2. CASE trail = <<>>
  BY <1>2, HonestRuns DEF trail, OnlyPermissions
<1>3. CASE trail # <<>>
  <2>1. OnlyPermissions(h, want) = Ran(trail, TRUE, FALSE)
    BY <1>3 DEF trail, OnlyPermissions
  <2> QED BY <1>1, <2>1, HonestRuns
<1> QED BY <1>2, <1>3

LEMMA HonestFile ==
  ASSUME NEW t, NEW h, Fits(t, h), t.module = "file"
  PROVE  Honest(FileRun(h, t, FALSE), h)
<1> DEFINE did == FileState(h, t)
           marks == did.marks \/ t.state = "touch"
           perms == Hushed(SetFilePermissions(did.host, t.want, t.recurse))
           trail == <<Loud(did.host)>> \o perms
           changed == [n \in 0..Len(trail) |-> marks \/ n > 1]
           run == FileRun(h, t, FALSE)
<1>1. run.trail = trail /\ run.changed = changed
  BY DEF FileRun
<1>2. run.failed = ~did.ok
  BY DEF FileRun
<1>3. did.marks \/ did.host = h \/ ~did.ok \/ t.state = "touch"
  <2>1. t.state \in {"directory", "touch", "absent", "link", "hard", "file"}
    BY DEF Fits, FitsFiles
  <2> QED BY <2>1 DEF FileState, Did
<1> HIDE DEF did, perms
<1>4. IsTrail(perms) /\ IsTrail(trail) /\ Len(trail) = 1 + Len(perms) /\ Len(perms) \in Nat
  BY PermissionTrails, ShortTrails, TrailsJoin, TrailLength DEF perms
<1> HIDE DEF trail, marks, run
<1>5. Len(trail) \in 0..Len(trail)
  BY <1>4
<1>6. Changed(run) = (marks \/ Len(trail) > 1)
  BY <1>1, <1>5 DEF Changed
<1>7. ASSUME ~run.failed, ~Changed(run) PROVE Left(run, h) = h
  <2>1. ~marks /\ ~(Len(trail) > 1)
    BY <1>6, <1>7
  <2>2. Len(trail) = 1
    BY <1>4, <2>1
  <2>3. did.ok
    BY <1>2, <1>7
  <2>4. did.host = h
    BY <1>3, <2>1, <2>3 DEF marks
  <2>5. trail[1] = Loud(did.host)
    <3>1. PICK S : perms \in Seq(S)
      BY <1>4 DEF IsTrail
    <3> QED BY <3>1 DEF trail
  <2>6. Left(run, h) = trail[1].host
    BY <1>1, <2>2 DEF Left, HostAfter
  <2> QED BY <2>4, <2>5, <2>6 DEF Loud
<1> QED BY <1>7 DEF Honest, run

LEMMA Joined ==
  /\ \A b : <<>> \o <<b>> = <<b>>
  /\ \A a, b : <<a>> \o <<b>> = <<a, b>>
  /\ \A a : <<a>> \o <<>> = <<a>>
  /\ <<>> \o <<>> = <<>>
<1>1. ASSUME NEW b PROVE <<>> \o <<b>> = <<b>> /\ <<b>> \o <<>> = <<b>>
  OBVIOUS
<1>2. ASSUME NEW a, NEW b PROVE <<a>> \o <<b>> = <<a, b>>
  <2> DEFINE s == <<a>> \o <<b>>
  <2>1. <<a>> \in Seq({a, b}) /\ <<b>> \in Seq({a, b}) /\ <<a, b>> \in Seq({a, b})
    OBVIOUS
  <2>2. s \in Seq({a, b}) /\ Len(s) = 2 /\ s[1] = a /\ s[2] = b
    BY <2>1
  <2>3. Len(<<a, b>>) = 2 /\ <<a, b>>[1] = a /\ <<a, b>>[2] = b
    OBVIOUS
  <2> HIDE DEF s
  <2>4. s = <<a, b>>
    BY <2>1, <2>2, <2>3
  <2> QED BY <2>4 DEF s
<1>3. <<>> \o <<>> = <<>>
  <2>1. <<>> \in Seq({}) /\ <<>> \o <<>> \in Seq({}) /\ Len(<<>> \o <<>>) = 0
    OBVIOUS
  <2> QED BY <2>1
<1> QED BY <1>1, <1>2, <1>3

\* Runs that end in a change or in a failure.
Marks(r) == IsTrail(r.trail) /\ (r.changed[0] \/ r.failed)

LEMMA MarkingRuns ==
  ASSUME NEW trail, NEW c, NEW f, IsTrail(trail), c \/ f
  PROVE  Marks(Ran(trail, c, f))
BY RanChanged DEF Marks, Ran

LEMMA HonestMarking ==
  ASSUME NEW prefix, NEW run, NEW h, IsTrail(prefix), Marks(run)
  PROVE  Honest(After(prefix, run), h)
<1>1. CASE run.failed
  BY <1>1 DEF Honest, After
<1>2. CASE ~run.failed
  BY <1>2, HonestAfter DEF Marks
<1> QED BY <1>1, <1>2

LEMMA HonestCopy ==
  ASSUME NEW t, NEW h, Fits(t, h)
  PROVE  /\ t.module = "copy" => Honest(CopyRun(h, t, FALSE), h)
         /\ Honest(TemplateRun(h, t, FALSE), h)
<1>1. ASSUME NEW g, NEW quietMove PROVE Marks(Staged(g, t, quietMove)) /\ Marks(Direct(g, t))
  <2> DEFINE up == WriteTmp(g, t.text)
             moved == Move(up, t.want)
  <2>1. IsTrail(Finish(MoveTmp(up), t.want)) /\ IsTrail(Finish(Write(g, t.text), t.want))
    BY PermissionTrails
  <2>2. IsTrail(moved) /\ IsTrail(<<Loud(Write(g, t.text))>> \o Finish(Write(g, t.text), t.want))
    BY <2>1, ShortTrails, TrailsJoin DEF Move
  <2>3. Marks(Direct(g, t))
    BY <2>2, MarkingRuns DEF Direct, Changes
  <2>4. IsTrail(Said(<<up, up>>)) /\ IsTrail(IF quietMove THEN Hushed(moved) ELSE moved)
    BY <2>2, ShortTrails, SaidHushed
  <2>5. IsTrail(Said(<<up, up>>) \o (IF quietMove THEN Hushed(moved) ELSE moved))
    BY <2>4, TrailsJoin
  <2>6. IsTrail(<<Loud(up), Quiet(DropTmp(up))>>)
    BY ShortTrails
  <2> HIDE DEF up, moved
  <2>7. Staged(g, t, quietMove) \in {Ran(<<Loud(up), Quiet(DropTmp(up))>>, FALSE, TRUE),
             Ran(Said(<<up, up>>) \o (IF quietMove THEN Hushed(moved) ELSE moved), TRUE, FALSE)}
    BY DEF Staged, Changes, up, moved
  <2>8. Marks(Staged(g, t, quietMove))
    BY <2>5, <2>6, <2>7, MarkingRuns
  <2> QED BY <2>3, <2>8
<1>2. ASSUME NEW want PROVE Honest(OnlyPermissions(h, want), h)
  BY HonestPermissions
<1>3. IsTrail(Prepared(h, t))
  BY ShortTrails DEF Prepared
<1>4. Honest(CopyLocal(h, t, FALSE), h)
  BY <1>1, <1>2, <1>3, HonestRuns, HonestMarking DEF CopyLocal
<1>5. Honest(CopyContent(h, t, FALSE), h)
  BY <1>1, <1>2, <1>3, HonestRuns, HonestMarking DEF CopyContent
<1>6. Honest(CopyRemote(h, t, FALSE), h)
  <2> DEFINE g == Prepared(h, t)[2].host
             staged == [g EXCEPT !.tmp = h.src]
             copied == [g EXCEPT !.node = h.src]
  <2>1. IsTrail(Finish(MoveTmp(staged), t.want)) /\ IsTrail(Finish(copied, t.want))
    BY PermissionTrails
  <2>2. /\ IsTrail(<<Loud(staged), Quiet(DropTmp(staged))>>)
        /\ IsTrail(Said(<<staged, staged>>) \o Move(staged, t.want))
        /\ IsTrail(<<Loud(copied)>> \o Finish(copied, t.want))
    BY <2>1, ShortTrails, SaidHushed, TrailsJoin DEF Move
  <2> HIDE DEF staged, copied
  <2>3. /\ Marks(Ran(<<Loud(staged), Quiet(DropTmp(staged))>>, FALSE, TRUE))
        /\ Marks(Changes(Said(<<staged, staged>>) \o Move(staged, t.want)))
        /\ Marks(Changes(<<Loud(copied)>> \o Finish(copied, t.want)))
    BY <2>2, MarkingRuns DEF Changes
  <2> QED BY <1>3, <2>3, HonestRuns, HonestMarking DEF CopyRemote, staged, copied
<1> QED BY <1>4, <1>5, <1>6 DEF CopyRun, TemplateRun, Fits, FitsFiles

LEMMA HonestDirectory ==
  ASSUME NEW t, NEW h
  PROVE  Honest(CopyDirectoryRun(h, t, FALSE), h)
<1> DEFINE made == MakeDir(h)
           sent == Write(made, t.text)
           same == Exists(h) /\ (h.node.text = t.text \/ ~t.force)
           first == IF h.dir THEN <<>> ELSE <<Loud(made)>>
           then == IF same THEN <<>> ELSE <<Quiet(made), Loud(sent)>> \o Finish(sent, t.want)
           todo == ~h.dir \/ ~same
<1>1. CopyDirectoryRun(h, t, FALSE) = Ran(first \o then, todo, FALSE)
  BY DEF CopyDirectoryRun
<1>2. IsTrail(Finish(sent, t.want))
  BY PermissionTrails
<1>3. IsTrail(first) /\ IsTrail(then)
  BY <1>2, ShortTrails, TrailsJoin
<1>4. IsTrail(first \o then)
  BY <1>3, TrailsJoin
<1>5. CASE todo
  <2>1. CopyDirectoryRun(h, t, FALSE) = Ran(first \o then, TRUE, FALSE)
    BY <1>1, <1>5
  <2> QED BY <1>4, <2>1, HonestRuns
<1>6. CASE ~todo
  <2>1. first \o then = <<>>
    BY <1>6, Joined
  <2> QED BY <1>1, <2>1, HonestRuns
<1> QED BY <1>5, <1>6

LEMMA HonestFetch ==
  ASSUME NEW t, NEW h
  PROVE  Honest(FetchRun(h, t, FALSE), h)
BY HonestRuns, ShortTrails DEF FetchRun

LEMMA HonestWriteBack ==
  ASSUME NEW t, NEW h, NEW text
  PROVE  Honest(WriteBack(h, t, text), h)
<1> DEFINE staged == IF t.validate THEN <<Loud(WriteTmp(h, text)), Loud(WriteTmp(h, text))>> ELSE <<>>
           kept == BackupIf(h, t.backup)
           done == Write(kept, text)
           tmp(g) == IF t.validate THEN [g EXCEPT !.tmp = Node("file", text, Default)] ELSE g
           perms == SetFilePermissions(tmp(done), t.want, FALSE)
           final == IF perms = <<>> THEN tmp(done) ELSE perms[Len(perms)].host
           drop == IF t.validate THEN <<Quiet(DropTmp(final))>> ELSE <<>>
           trail == staged \o <<Quiet(tmp(kept)), Loud(tmp(done))>> \o Hushed(perms) \o drop
           rejected == <<Loud(WriteTmp(h, text)), Quiet(h)>>
<1>1. WriteBack(h, t, text) = IF Rejects(t, text) THEN Ran(rejected, FALSE, TRUE) ELSE Ran(trail, TRUE, ~h.dir)
  BY DEF WriteBack
<1>2. IsTrail(rejected)
  BY ShortTrails
<1>3. IsTrail(staged) /\ IsTrail(<<Quiet(tmp(kept)), Loud(tmp(done))>>) /\ IsTrail(Hushed(perms)) /\ IsTrail(drop)
  BY ShortTrails, PermissionTrails
<1> HIDE DEF staged, perms, drop, tmp, done, kept, rejected
<1>4. IsTrail(trail)
  BY <1>3, TrailsJoin
<1> HIDE DEF trail
<1> QED BY <1>1, <1>2, <1>4, HonestRuns

LEMMA HonestLines ==
  ASSUME NEW t, NEW h
  PROVE  /\ \A did : Honest(EditRun(h, t, FALSE, did), h)
         /\ Honest(ReplaceRun(h, t, FALSE), h)
<1>1. ASSUME NEW did PROVE Honest(EditRun(h, t, FALSE, did), h)
  BY HonestRuns, HonestPermissions, HonestWriteBack DEF EditRun
<1>2. Honest(ReplaceRun(h, t, FALSE), h)
  BY HonestRuns, HonestWriteBack DEF ReplaceRun
<1> QED BY <1>1, <1>2

LEMMA HonestEntries ==
  ASSUME NEW t, NEW h, NEW seen
  PROVE  /\ Honest(AuthorizedKeyRun(h, seen, t, FALSE), h)
         /\ Honest(KnownHostsRun(h, seen, t, FALSE), h)
         /\ Honest(CronRun(h, seen, t, FALSE), h)
<1>2. \A a, b : IsTrail(<<Quiet(a), Loud(b)>>)
  BY ShortTrails
<1>3. Honest(AuthorizedKeyRun(h, seen, t, FALSE), h)
  <2> DEFINE new == AuthorizedKeys(seen, t)
             left == IF h.writable THEN WithLines(h, new) ELSE h
             said == Said(<<h, left>>)
             run == AuthorizedKeyRun(h, seen, t, FALSE)
  <2>1. run = IF new = seen THEN Unchanged ELSE Changes(said)
    BY DEF AuthorizedKeyRun
  <2>2. IsTrail(said)
    <3> HIDE DEF left
    <3> QED BY ShortTrails, SaidHushed
  <2> HIDE DEF new, said, run
  <2>3. Honest(run, h)
    BY <2>1, <2>2, HonestRuns
  <2> QED BY <2>3 DEF run
<1>4. Honest(KnownHostsRun(h, seen, t, FALSE), h)
  BY <1>2, HonestRuns DEF KnownHostsRun
<1>5. Honest(CronRun(h, seen, t, FALSE), h)
  BY <1>2, HonestRuns DEF CronRun
<1> QED BY <1>3, <1>4, <1>5

LEMMA HonestSysctl ==
  ASSUME NEW t, NEW h, NEW seen
  PROVE  Honest(SysctlRun(h, seen, t, FALSE), h)
<1> DEFINE file == SysctlFile(seen, t)
           inFile == file # seen
           inKernel == t.state = "present" /\ h.live # t.value
           before == t.state = "present" /\ t.set
           bad == t.value = "bad" /\ ~t.ignore
           h1 == IF before THEN SetLive(h, t) ELSE h
           h2 == IF inFile THEN WithLines(h1, file) ELSE h1
           loads == (inFile \/ t.state = "present") /\ t.reload
           h3 == IF loads THEN Reload(h2, t) ELSE h2
           after == inKernel /\ ~before
           h4 == IF after THEN SetLive(h3, t) ELSE h3
           steps == (IF before THEN <<h1>> ELSE <<>>) \o (IF inFile THEN <<h2>> ELSE <<>>)
           all == steps \o (IF loads THEN <<h3>> ELSE <<>>) \o (IF after THEN <<h4>> ELSE <<>>)
           run == SysctlRun(h, seen, t, FALSE)
<1>1. run \in {Unchanged, Refused, Ran(Said(steps \o <<h3>>), FALSE, TRUE), Ran(Said(all), TRUE, after /\ bad)}
  BY DEF SysctlRun
<1>2. ASSUME NEW a, NEW b PROVE IsTrail(IF b THEN <<a>> ELSE <<>>)
  BY ShortTrails
<1>3. IsTrail(steps) /\ IsTrail(steps \o <<h3>>) /\ IsTrail(all)
  BY <1>2, ShortTrails, TrailsJoin
<1> HIDE DEF steps, all, h3, after, bad
<1>4. IsTrail(Said(steps \o <<h3>>)) /\ IsTrail(Said(all))
  BY <1>3, SaidHushed
<1> HIDE DEF run
<1>5. Honest(run, h)
  BY <1>1, <1>4, HonestRuns
<1> QED BY <1>5 DEF run

LEMMA HonestMount ==
  ASSUME NEW t, NEW h, NEW seen
  PROVE  Honest(MountRun(h, seen, t, FALSE), h)
<1>1. \A a, b, c, d, f : IsTrail((IF c THEN <<Loud(a)>> ELSE <<>>) \o (IF d THEN <<Loud(b)>> ELSE <<>>))
  BY ShortTrails, TrailsJoin
<1> QED BY <1>1, HonestRuns DEF MountRun

LEMMA HonestAccounts ==
  ASSUME NEW t, NEW h
  PROVE  Honest(HostnameRun(h, t, FALSE), h) /\ Honest(GroupRun(h, t, FALSE), h)
<1>1. Honest(HostnameRun(h, t, FALSE), h)
  BY HonestRuns, ShortTrails DEF HostnameRun
<1>2. IsTrail(GroupCommand(h, t))
  BY ShortTrails DEF GroupCommand
<1>3. Honest(GroupRun(h, t, FALSE), h)
  BY <1>2, HonestRuns DEF GroupRun
<1> QED BY <1>1, <1>3

\* A run that says nothing has changed when nothing was done.
LEMMA HonestRan ==
  ASSUME NEW trail, NEW c, NEW f, NEW h, IsTrail(trail), ~c => Kept(Left(Ran(trail, c, f), h)) = Kept(h)
  PROVE  Honest(Ran(trail, c, f), h)
<1> DEFINE run == Ran(trail, c, f)
<1>1. Changed(run) = c
  BY RanChanged
<1>2. CASE c
  <2>1. Changed(run)
    BY <1>1, <1>2
  <2> QED BY <2>1 DEF Honest
<1>3. CASE ~c
  BY <1>3 DEF Honest
<1> QED BY <1>2, <1>3

LEMMA KeyTrails ==
  ASSUME NEW t, NEW h
  PROVE  IsTrail(UserSSHKey(h, t))
BY ShortTrails DEF UserSSHKey

LEMMA UserTrails ==
  ASSUME NEW t, NEW h, Fits(t, h), t.module = "user"
  PROVE  IsTrail(UserCommands(h, t).trail)
<1>2. ASSUME NEW groups, NEW password PROVE IsTrail(ModifyUser(h, t, groups, password).trail)
  <2>1. \A a, b, c, d : IsTrail((IF c THEN <<Loud(a)>> ELSE <<>>) \o (IF d THEN <<Loud(b)>> ELSE <<>>))
    BY ShortTrails, TrailsJoin
  <2> QED BY <2>1 DEF ModifyUser, Ran
<1>3. \A c, f : IsTrail(Ran(<<>>, c, f).trail) /\ \A g : IsTrail(Ran(<<Loud(g)>>, c, f).trail)
  BY ShortTrails DEF Ran
<1> DEFINE password == IF h.exists /\ t.onCreate THEN "" ELSE t.password
           groups == IF h.exists /\ t.append /\ t.groups \subseteq h.groups THEN {} ELSE t.groups
           gone == IF t.remove THEN NoUser ELSE [NoUser EXCEPT !.key = h.key]
<1>4. UserCommands(h, t) \in {ModifyUser(h, t, groups, password), Changes(<<Loud(Useradd(h, t))>>), Ran(<<Loud(h)>>, TRUE, TRUE),
                              Changes(<<Loud(gone)>>), Unchanged, Changes(<<Loud(Lock(h))>>), Refused, Changes(<<Loud(Unlock(h))>>)}
  BY DEF UserCommands, Fits, FitsAccounts
<1> HIDE DEF password, groups, gone
<1> QED BY <1>2, <1>3, <1>4 DEF Changes, Unchanged, Reports, Refused

LEMMA HonestUser ==
  ASSUME NEW t, NEW h, Fits(t, h), t.module = "user"
  PROVE  Honest(UserRun(h, t, FALSE), h)
<1> DEFINE run == UserCommands(h, t)
           key == UserSSHKey(HostAfter(run, h, Len(run.trail)), t)
<1>1. IsTrail(run.trail) /\ IsTrail(key) /\ IsTrail(run.trail \o key)
  BY UserTrails, KeyTrails, TrailsJoin
<1>2. UserRun(h, t, FALSE) \in {Refused, Ran(run.trail \o key, run.trail # <<>> \/ key # <<>>, run.failed)}
  BY DEF UserRun
<1> HIDE DEF run, key
<1>3. CASE run.trail = <<>> /\ key = <<>>
  <2>1. run.trail \o key = <<>>
    BY <1>3, Joined
  <2> QED BY <1>2, <2>1, HonestRuns
<1>4. CASE run.trail # <<>> \/ key # <<>>
  <2>1. (run.trail # <<>> \/ key # <<>>) = TRUE
    BY <1>4
  <2> QED BY <1>1, <1>2, <2>1, HonestRuns
<1> QED BY <1>3, <1>4

\* Hosts with the same fields but for traces nobody asked about.
LEMMA SameKept ==
  ASSUME NEW g, NEW h, DOMAIN g = DOMAIN h, "at" \in DOMAIN h => HeadOf(g) = HeadOf(h),
         \A f \in DOMAIN h \ {"tmp", "bak", "fresh", "main", "at"} : g[f] = h[f]
  PROVE  Kept(g) = Kept(h)
BY DEF Kept

LEMMA LastOfOne ==
  ASSUME NEW b, NEW c, NEW h
  PROVE  Left(Ran(<<b>>, c, FALSE), h) = b.host
BY ShortTrails DEF Left, HostAfter, Ran

LEMMA LastOfTwo ==
  ASSUME NEW a, NEW b, NEW c, NEW h
  PROVE  Left(Ran(<<a, b>>, c, FALSE), h) = b.host
BY ShortTrails DEF Left, HostAfter, Ran

LEMMA SameVersions ==
  ASSUME NEW t, NEW h, Fits(t, h), t.module \in {"package", "pip"}, NEW names, NEW version,
         \A p \in names \cap DOMAIN h.versions : h.versions[p] = version
  PROVE  WithVersions(h, names, version).versions = h.versions
<1>1. h.versions \in [DOMAIN h.versions -> Versions] /\ "versions" \in DOMAIN h
  BY DEF Fits, FitsServices
<1> DEFINE new == [p \in DOMAIN h.versions |-> IF p \in names THEN version ELSE h.versions[p]]
<1>2. WithVersions(h, names, version).versions = new
  BY <1>1 DEF WithVersions
<1>3. \A p \in DOMAIN h.versions : new[p] = h.versions[p]
  OBVIOUS
<1>4. new = h.versions
  BY <1>1, <1>3
<1> QED BY <1>2, <1>4

LEMMA HonestManage ==
  ASSUME NEW t, NEW h, NEW changed, Fits(t, h), t.module = "package",
         ~changed => t.names \cap Todo(h, t) = {}
  PROVE  Honest(Manage(h, t, changed), h)
<1> DEFINE g == IF t.update THEN Fresh(h) ELSE h
           names == t.names \cap Todo(h, t)
           version == IF Removes(t) THEN "none" ELSE "new"
           done == WithVersions(g, names, version)
<1>1. \/ Manage(h, t, changed) = Ran(Refresh(h, t) \o <<Loud(g)>>, TRUE, TRUE)
      \/ Manage(h, t, changed) = Ran(Refresh(h, t) \o <<Loud(done)>>, changed, FALSE)
  BY DEF Manage
<1>2. ASSUME NEW b PROVE Refresh(h, t) \o <<b>> = <<b>> \/ Refresh(h, t) \o <<b>> = <<Quiet(Fresh(h)), b>>
  BY Joined DEF Refresh
<1>3. IsTrail(Refresh(h, t) \o <<Loud(g)>>) /\ IsTrail(Refresh(h, t) \o <<Loud(done)>>)
  BY <1>2, ShortTrails
<1>4. ASSUME ~changed PROVE Kept(done) = Kept(h)
  <2>1. names = {}
    BY <1>4
  <2>2. WithVersions(h, names, version).versions = h.versions
    BY <2>1, SameVersions
  <2>3. DOMAIN done = DOMAIN h /\ done.versions = h.versions
    BY <2>2 DEF WithVersions, Fresh
  <2>4. \A f \in DOMAIN h \ {"versions", "fresh"} : done[f] = h[f]
    BY DEF WithVersions, Fresh
  <2>5. "at" \in DOMAIN h => HeadOf(done) = HeadOf(h)
    BY DEF WithVersions, Fresh, HeadOf
  <2> HIDE DEF done
  <2> QED BY <2>3, <2>4, <2>5, SameKept
<1>5. Left(Ran(Refresh(h, t) \o <<Loud(done)>>, changed, FALSE), h) = done
  <2>1. Loud(done).host = done
    BY DEF Loud
  <2> HIDE DEF done
  <2>2. ASSUME NEW c PROVE Left(Ran(Refresh(h, t) \o <<Loud(done)>>, c, FALSE), h) = done
    <3>1. CASE Refresh(h, t) \o <<Loud(done)>> = <<Loud(done)>>
      BY <2>1, <3>1, LastOfOne
    <3>2. CASE Refresh(h, t) \o <<Loud(done)>> = <<Quiet(Fresh(h)), Loud(done)>>
      <4>1. Left(Ran(<<Quiet(Fresh(h)), Loud(done)>>, c, FALSE), h) = Loud(done).host
        BY LastOfTwo
      <4> QED BY <2>1, <3>2, <4>1
    <3> QED BY <1>2, <3>1, <3>2
  <2> QED BY <2>2
<1>6. Honest(Ran(Refresh(h, t) \o <<Loud(done)>>, changed, FALSE), h)
  <2> DEFINE trail == Refresh(h, t) \o <<Loud(done)>>
  <2>1. IsTrail(trail) /\ Left(Ran(trail, changed, FALSE), h) = done
    BY <1>3, <1>5
  <2> HIDE DEF trail, done
  <2>2. ~changed => Kept(Left(Ran(trail, changed, FALSE), h)) = Kept(h)
    BY <1>4, <2>1
  <2>3. Honest(Ran(trail, changed, FALSE), h)
    BY <2>1, <2>2, HonestRan
  <2> QED BY <2>3 DEF trail
<1> QED BY <1>1, <1>3, <1>6, HonestRuns

LEMMA HonestPackage ==
  ASSUME NEW t, NEW h, Fits(t, h), t.module = "package", ~ChangesUnsaid(t, h)
  PROVE  Honest(PackageRun(h, t, FALSE), h)
<1>1. Honest(OnlyRefresh(h, t), h)
  BY ShortTrails, HonestRuns DEF OnlyRefresh
<1>2. t.manager \in {"apt", "dnf", "yum", "apk"}
  BY DEF Fits, FitsServices
<1>3. t.manager = "apt" => Honest(Manage(h, t, AptChanged(h, t)), h)
  BY HonestManage DEF AptChanged, ChangesUnsaid
<1>4. Honest(Manage(h, t, YumChanged(h, t)), h)
  BY HonestManage DEF YumChanged
<1>5. Honest(Ran(Refresh(h, t), t.update, FALSE), h)
  <2>1. Refresh(h, t) = <<>> \/ (t.update /\ IsTrail(Refresh(h, t)))
    BY ShortTrails DEF Refresh
  <2>2. CASE Refresh(h, t) = <<>>
    BY <2>2, HonestRuns
  <2>3. CASE t.update /\ IsTrail(Refresh(h, t))
    <3>1. Changed(Ran(Refresh(h, t), t.update, FALSE)) = t.update
      BY <2>3, RanChanged
    <3>2. Changed(Ran(Refresh(h, t), t.update, FALSE))
      BY <2>3, <3>1
    <3> QED BY <3>2 DEF Honest
  <2> QED BY <2>1, <2>2, <2>3
<1>6. t.manager = "apt" => Honest(AptRun(h, t, FALSE), h)
  BY <1>1, <1>3 DEF AptRun
<1>7. Honest(DnfRun(h, t, FALSE), h)
  BY <1>1, <1>4 DEF DnfRun
<1>8. Honest(ApkRun(h, t, FALSE), h)
  BY <1>4, <1>5 DEF ApkRun
<1> QED BY <1>2, <1>6, <1>7, <1>8 DEF PackageRun, YumRun

LEMMA HonestPip ==
  ASSUME NEW t, NEW h, Fits(t, h), t.module = "pip"
  PROVE  Honest(PipRun(h, t, FALSE), h)
<1> DEFINE creates == t.venv /\ ~h.venv
           made == [h EXCEPT !.venv = TRUE]
           first == IF creates THEN <<Loud(made)>> ELSE <<>>
           g == IF creates THEN made ELSE h
           done == IF t.state = "absent" THEN WithVersions(g, t.names, "none")
                   ELSE WithVersions(g, PipWanted(h, t), IF t.version = "" THEN "new" ELSE t.version)
           said == creates \/ PipChanged(h, t)
<1>1. \/ PipRun(h, t, FALSE) = Ran(<<Loud(h)>>, FALSE, TRUE)
      \/ PipRun(h, t, FALSE) = Ran(first \o <<Loud(g)>>, TRUE, TRUE)
      \/ PipRun(h, t, FALSE) = Ran(first \o <<Loud(done)>>, said, FALSE)
  BY DEF PipRun
<1>2. ASSUME NEW b PROVE IsTrail(first \o <<b>>) /\ (~creates => first \o <<b>> = <<b>>)
  <2>1. CASE creates
    <3>1. first \o <<b>> = <<Loud(made), b>>
      BY <2>1, Joined
    <3> QED BY <2>1, <3>1, ShortTrails
  <2>2. CASE ~creates
    <3>1. first \o <<b>> = <<b>>
      BY <2>2, Joined
    <3> QED BY <3>1, ShortTrails
  <2> QED BY <2>1, <2>2
<1>3. ASSUME ~said PROVE Kept(done) = Kept(h)
  <2>1. g = h
    BY <1>3
  <2>2. CASE t.state = "absent"
    <3>1. t.names \cap Having(h, {"old", "new"}) = {}
      BY <1>3, <2>2 DEF PipChanged
    <3>2. ASSUME NEW p \in t.names \cap DOMAIN h.versions PROVE h.versions[p] = "none"
      <4>1. h.versions \in [DOMAIN h.versions -> {"none", "old", "new"}]
        BY DEF Fits, FitsServices, Versions
      <4>2. h.versions[p] \in {"none", "old", "new"}
        BY <4>1
      <4>3. h.versions[p] \notin {"old", "new"}
        BY <3>1 DEF Having
      <4> QED BY <4>2, <4>3
    <3>3. done = WithVersions(h, t.names, "none")
      BY <2>1, <2>2
    <3> HIDE DEF done
    <3>7. WithVersions(h, t.names, "none").versions = h.versions
      BY <3>2, SameVersions
    <3>4. done.versions = h.versions
      BY <3>3, <3>7
    <3>5. \A f \in DOMAIN h \ {"versions"} : done[f] = h[f]
      BY <3>3 DEF WithVersions
    <3>6. DOMAIN done = DOMAIN h /\ ("at" \in DOMAIN h => HeadOf(done) = HeadOf(h))
      BY <3>3 DEF WithVersions, HeadOf
    <3> HIDE DEF done
    <3> QED BY <3>4, <3>5, <3>6, SameKept
  <2>3. CASE t.state # "absent"
    <3> DEFINE version == IF t.version = "" THEN "new" ELSE t.version
    <3>1. PipWanted(h, t) = {}
      BY <1>3, <2>3 DEF PipChanged
    <3>2. done = WithVersions(h, {}, version)
      BY <2>1, <2>3, <3>1
    <3> HIDE DEF version, done
    <3>6. \A p \in {} \cap DOMAIN h.versions : h.versions[p] = version
      OBVIOUS
    <3>3. WithVersions(h, {}, version).versions = h.versions
      BY <3>6, SameVersions
    <3>4. \A f \in DOMAIN h \ {"versions"} : done[f] = h[f]
      BY <3>2 DEF WithVersions
    <3>5. DOMAIN done = DOMAIN h /\ ("at" \in DOMAIN h => HeadOf(done) = HeadOf(h))
      BY <3>2 DEF WithVersions, HeadOf
    <3> HIDE DEF done
    <3> QED BY <3>2, <3>3, <3>4, <3>5, SameKept
  <2> QED BY <2>2, <2>3
<1>4. Loud(done).host = done
  BY DEF Loud
<1> HIDE DEF done, g, made
<1>5. ASSUME ~said PROVE Left(Ran(first \o <<Loud(done)>>, said, FALSE), h) = done
  <2>1. first \o <<Loud(done)>> = <<Loud(done)>>
    BY <1>2, <1>5
  <2> HIDE DEF said
  <2>2. Left(Ran(<<Loud(done)>>, said, FALSE), h) = Loud(done).host
    BY LastOfOne
  <2> QED BY <1>4, <2>1, <2>2
<1>6. IsTrail(first \o <<Loud(done)>>) /\ IsTrail(first \o <<Loud(g)>>) /\ IsTrail(<<Loud(h)>>)
  BY <1>2, ShortTrails
<1> DEFINE trail == first \o <<Loud(done)>>
<1> HIDE DEF first, said
<1>7. Honest(Ran(trail, said, FALSE), h)
  <2>1. IsTrail(trail)
    BY <1>6
  <2>2. ~said => Kept(Left(Ran(trail, said, FALSE), h)) = Kept(h)
    BY <1>3, <1>5
  <2> HIDE DEF trail
  <2> QED BY <2>1, <2>2, HonestRan
<1> QED BY <1>1, <1>6, <1>7, HonestRuns

\* A step of a service that is no change and no failure leaves the host.
Idle(s, h) == s.marks \/ ~s.ok \/ s.host = h

LEMMA IdleMask ==
  ASSUME NEW h, NEW on
  PROVE  Idle(MaskStep(h, on), h)
BY DEF Idle, MaskStep, Step, AsItIs

LEMMA IdleEnable ==
  ASSUME NEW h, NEW on
  PROVE  Idle(EnableStep(h, on), h)
BY DEF Idle, EnableStep, Step, AsItIs

LEMMA IdleState ==
  ASSUME NEW h, NEW state, state \in {"started", "stopped", "restarted", "reloaded"}
  PROVE  Idle(StateStep(h, state), h)
BY DEF Idle, StateStep, Step, AsItIs

Elems(s) == {s[i] : i \in DOMAIN s}

LEMMA ElemsShort ==
  ASSUME NEW x
  PROVE  Elems(<<x>>) = {x} /\ Elems(<<>>) = {}
BY DEF Elems

LEMMA ElemsJoin ==
  ASSUME NEW a, NEW b, IsTrail(a), IsTrail(b)
  PROVE  Elems(a \o b) = Elems(a) \cup Elems(b)
<1>1. PICK A : a \in Seq(A)
  BY DEF IsTrail
<1>2. PICK B : b \in Seq(B)
  BY DEF IsTrail
<1> DEFINE S == A \cup B
<1>3. a \in Seq(S) /\ b \in Seq(S)
  BY <1>1, <1>2
<1>4. /\ DOMAIN a = 1..Len(a) /\ DOMAIN b = 1..Len(b) /\ DOMAIN (a \o b) = 1..(Len(a) + Len(b))
      /\ Len(a) \in Nat /\ Len(b) \in Nat
  BY <1>3
<1>5. \A i \in 1..Len(a) : (a \o b)[i] = a[i]
  BY <1>3, <1>4
<1>6. \A i \in 1..Len(b) : (a \o b)[Len(a) + i] = b[i]
  BY <1>3, <1>4
<1> HIDE DEF S
<1>7. ASSUME NEW i \in 1..(Len(a) + Len(b)) PROVE (a \o b)[i] \in Elems(a) \cup Elems(b)
  <2>1. CASE i <= Len(a)
    BY <1>4, <1>5, <2>1 DEF Elems
  <2>2. CASE i > Len(a)
    <3> DEFINE j == i - Len(a)
    <3>1. j \in 1..Len(b) /\ i = Len(a) + j
      BY <1>4, <2>2
    <3>2. (a \o b)[i] = b[j]
      BY <1>6, <3>1
    <3> QED BY <1>4, <3>1, <3>2 DEF Elems
  <2> QED BY <1>4, <2>1, <2>2
<1>8. ASSUME NEW i \in 1..Len(a) PROVE a[i] \in Elems(a \o b)
  <2>1. i \in 1..(Len(a) + Len(b))
    BY <1>4
  <2> QED BY <1>4, <1>5, <2>1 DEF Elems
<1>9. ASSUME NEW i \in 1..Len(b) PROVE b[i] \in Elems(a \o b)
  <2>1. Len(a) + i \in 1..(Len(a) + Len(b))
    BY <1>4
  <2> QED BY <1>4, <1>6, <2>1 DEF Elems
<1>10. Elems(a \o b) \subseteq Elems(a) \cup Elems(b)
  BY <1>4, <1>7 DEF Elems
<1>11. Elems(a) \cup Elems(b) \subseteq Elems(a \o b)
  BY <1>4, <1>8, <1>9 DEF Elems
<1> QED BY <1>10, <1>11

\* Steps of which none is a change or fails leave the host.
Uneventful(steps, h) == (\A s \in Elems(steps) : ~s.marks /\ s.ok) => \A s \in Elems(steps) : s.host = h

LEMMA ServiceSteps ==
  ASSUME NEW t, NEW h, Fits(t, h), t.module \in {"service", "systemd"}
  PROVE  IsTrail(Steps(h, t)) /\ Uneventful(Steps(h, t), h)
<1> DEFINE maskStep == MaskStep(h, t.masked = "yes")
           mask == IF t.masked = "" THEN <<>> ELSE <<maskStep>>
           h1 == IF mask = <<>> THEN h ELSE mask[1].host
           enableStep == EnableStep(h1, t.enabled = "yes")
           enable == IF t.enabled = "" THEN <<>> ELSE <<enableStep>>
           h2 == IF enable = <<>> THEN h1 ELSE enable[1].host
           stateStep == StateStep(h2, t.state)
           act == IF t.state = "" THEN <<>> ELSE <<stateStep>>
<1>0. t.state \in {"", "started", "stopped", "restarted", "reloaded"}
  BY DEF Fits, FitsServices
<1>1. Steps(h, t) = mask \o enable \o act
  BY DEF Steps
<1>2. IsTrail(mask) /\ IsTrail(enable) /\ IsTrail(act) /\ IsTrail(mask \o enable) /\ IsTrail(mask \o enable \o act)
  BY ShortTrails, TrailsJoin
<1>3. /\ Elems(mask \o enable) = Elems(mask) \cup Elems(enable)
      /\ Elems(mask \o enable \o act) = Elems(mask \o enable) \cup Elems(act)
  <2> DEFINE both == mask \o enable
  <2>1. IsTrail(both)
    BY <1>2
  <2> HIDE DEF mask, enable, act
  <2>2. Elems(both) = Elems(mask) \cup Elems(enable)
    BY <1>2, ElemsJoin
  <2> HIDE DEF both
  <2>3. Elems(both \o act) = Elems(both) \cup Elems(act)
    BY <1>2, <2>1, ElemsJoin
  <2> QED BY <2>2, <2>3 DEF both
<1>4. (mask = <<>> /\ h1 = h) \/ (mask = <<maskStep>> /\ h1 = maskStep.host)
  OBVIOUS
<1>5. (enable = <<>> /\ h2 = h1) \/ (enable = <<enableStep>> /\ h2 = enableStep.host)
  OBVIOUS
<1>6. act = <<>> \/ (act = <<stateStep>> /\ Idle(stateStep, h2))
  BY <1>0, IdleState
<1>11. Idle(maskStep, h) /\ Idle(enableStep, h1)
  BY IdleMask, IdleEnable
<1> HIDE DEF mask, enable, act, h1, h2, maskStep, enableStep, stateStep
<1>7. (Elems(mask) = {} /\ h1 = h) \/ (Elems(mask) = {maskStep} /\ h1 = maskStep.host /\ Idle(maskStep, h))
  BY <1>4, <1>11, ElemsShort
<1>8. (Elems(enable) = {} /\ h2 = h1) \/ (Elems(enable) = {enableStep} /\ h2 = enableStep.host /\ Idle(enableStep, h1))
  BY <1>5, <1>11, ElemsShort
<1>9. Elems(act) = {} \/ (Elems(act) = {stateStep} /\ Idle(stateStep, h2))
  BY <1>6, ElemsShort
<1>10. ASSUME \A s \in Elems(Steps(h, t)) : ~s.marks /\ s.ok
       PROVE  \A s \in Elems(Steps(h, t)) : s.host = h
  <2>1. Elems(Steps(h, t)) = Elems(mask) \cup Elems(enable) \cup Elems(act)
    BY <1>1, <1>3
  <2>2. h1 = h /\ \A s \in Elems(mask) : s.host = h
    BY <1>7, <1>10, <2>1 DEF Idle
  <2>3. h2 = h /\ \A s \in Elems(enable) : s.host = h
    BY <1>8, <1>10, <2>1, <2>2 DEF Idle
  <2>4. \A s \in Elems(act) : s.host = h
    BY <1>9, <1>10, <2>1, <2>3 DEF Idle
  <2> QED BY <2>1, <2>2, <2>3, <2>4
<1> QED BY <1>1, <1>2, <1>10 DEF Uneventful

\* Steps that are all idle, in a run of their own.
LEMMA HonestSteps ==
  ASSUME NEW t, NEW h, NEW steps, IsTrail(steps), Uneventful(steps, h)
  PROVE  Honest(MergeModuleResults(steps, t), h)
<1> DEFINE hosts == [i \in DOMAIN steps |-> steps[i].host]
           marks == t.local \/ \E i \in DOMAIN steps : steps[i].marks
           fails == \E i \in DOMAIN steps : ~steps[i].ok
<1>1. MergeModuleResults(steps, t) = Ran(Said(hosts), marks, fails)
  BY DEF MergeModuleResults
<1>2. PICK S : steps \in Seq(S)
  BY DEF IsTrail
<1>3. DOMAIN steps = 1..Len(steps) /\ Len(steps) \in Nat
  BY <1>2
<1>4. hosts \in Seq({s.host : s \in S}) /\ Len(hosts) = Len(steps)
  BY <1>2, <1>3
<1>5. IsTrail(hosts)
  BY <1>4 DEF IsTrail
<1>6. IsTrail(Said(hosts)) /\ Len(Said(hosts)) = Len(steps)
  BY <1>4, <1>5, SaidHushed
<1>7. ASSUME ~marks, ~fails PROVE Left(Ran(Said(hosts), marks, fails), h) = h
  <2>1. \A s \in Elems(steps) : s.host = h
    BY <1>7 DEF Elems, Uneventful
  <2>2. \A i \in DOMAIN steps : Said(hosts)[i].host = h
    BY <2>1, <1>3, <1>4 DEF Said, Loud, Elems
  <2>3. Left(Ran(Said(hosts), marks, fails), h) = IF Len(steps) = 0 THEN h ELSE Said(hosts)[Len(steps)].host
    BY <1>6 DEF Left, HostAfter, Ran
  <2>4. Len(steps) = 0 \/ Len(steps) \in DOMAIN steps
    BY <1>3
  <2>5. CASE Len(steps) = 0
    BY <2>3, <2>5
  <2>6. CASE Len(steps) # 0
    <3>1. Said(hosts)[Len(steps)].host = h
      BY <2>2, <2>4, <2>6
    <3> QED BY <2>3, <2>6, <3>1
  <2> QED BY <2>5, <2>6
<1> HIDE DEF hosts, marks, fails
<1>8. CASE fails
  <2>1. Ran(Said(hosts), marks, fails).failed
    BY <1>8 DEF Ran
  <2> QED BY <1>1, <2>1 DEF Honest
<1>9. CASE ~fails
  <2>1. ~marks => Kept(Left(Ran(Said(hosts), marks, fails), h)) = Kept(h)
    BY <1>7, <1>9
  <2>2. Honest(Ran(Said(hosts), marks, fails), h)
    BY <1>6, <2>1, HonestRan
  <2> QED BY <1>1, <2>2
<1> QED BY <1>8, <1>9

LEMMA HonestStatus ==
  ASSUME NEW t, NEW h
  PROVE  Honest(Status(h, t), h)
BY HonestRuns DEF Status

\* A reload of the service manager before a run says nothing of itself.
LEMMA HonestReload ==
  ASSUME NEW trail, NEW c, NEW f, NEW h, NEW prefix, prefix = <<>> \/ prefix = <<Quiet(h)>>,
         IsTrail(trail), Honest(Ran(trail, c, f), h)
  PROVE  Honest(After(prefix, Ran(trail, c, f)), h)
<1> DEFINE run == Ran(trail, c, f)
           all == After(prefix, run)
<1>1. run.trail = trail /\ run.failed = f /\ Changed(run) = c /\ run.changed[0] = c
  BY RanChanged
<1>2. IsTrail(prefix) /\ Len(prefix) \in {0, 1}
  BY ShortTrails
<1>3. IsTrail(prefix \o trail) /\ Len(prefix \o trail) = Len(prefix) + Len(trail) /\ Len(trail) \in Nat
  BY <1>2, TrailsJoin, TrailLength
<1> HIDE DEF run
<1>4. all.trail = prefix \o trail /\ all.failed = run.failed /\ all.changed = [n \in 0..(Len(prefix) + Len(trail)) |-> run.changed[0]]
  BY <1>1 DEF After
<1>5. Len(prefix) + Len(trail) \in 0..(Len(prefix) + Len(trail))
  BY <1>2, <1>3
<1>6. Changed(all) = run.changed[0]
  BY <1>3, <1>4, <1>5 DEF Changed
<1>7. Changed(all) = Changed(run)
  BY <1>1, <1>6
<1>8. Left(all, h) = Left(run, h)
  <2>1. CASE prefix = <<>>
    <3>1. prefix \o trail = trail
      <4>1. PICK S : trail \in Seq(S)
        BY DEF IsTrail
      <4> QED BY <2>1, <4>1
    <3> QED BY <1>1, <1>4, <3>1 DEF Left
  <2>2. CASE prefix = <<Quiet(h)>>
    <3>1. PICK S : trail \in Seq(S)
      BY DEF IsTrail
    <3>2. Len(prefix \o trail) = 1 + Len(trail)
      BY <1>3, <2>2, ShortTrails
    <3>3. Left(all, h) = (prefix \o trail)[1 + Len(trail)].host
      BY <1>3, <1>4, <3>2 DEF Left, HostAfter
    <3>4. CASE Len(trail) = 0
      <4>1. (prefix \o trail)[1] = Quiet(h)
        BY <2>2, <3>1
      <4>2. Left(run, h) = h
        BY <1>1, <3>4 DEF Left, HostAfter
      <4>3. 1 + Len(trail) = 1
        BY <3>4
      <4>4. Quiet(h).host = h
        BY DEF Quiet
      <4>5. Left(all, h) = (prefix \o trail)[1].host
        BY <3>3, <4>3
      <4> QED BY <4>1, <4>2, <4>4, <4>5
    <3>5. CASE Len(trail) # 0
      <4>1. (prefix \o trail)[1 + Len(trail)] = trail[Len(trail)]
        BY <1>3, <2>2, <3>1, <3>5
      <4>2. Left(run, h) = trail[Len(trail)].host
        BY <1>1, <3>5 DEF Left, HostAfter
      <4> QED BY <3>3, <4>1, <4>2
    <3> QED BY <3>4, <3>5
  <2> QED BY <2>1, <2>2
<1> HIDE DEF all
<1>9. Honest(run, h)
  BY DEF run
<1>10. Honest(all, h)
  BY <1>4, <1>7, <1>8, <1>9 DEF Honest
<1> QED BY <1>10 DEF all, run

LEMMA HonestServices ==
  ASSUME NEW t, NEW h, Fits(t, h), t.module \in {"service", "systemd"}
  PROVE  Honest(ServiceRun(h, t, FALSE), h) /\ Honest(SystemdRun(h, t, FALSE), h)
<1> DEFINE steps == Steps(h, t)
           reload == IF t.reload THEN <<Quiet(h)>> ELSE <<>>
           step == Step(h, TRUE, TRUE)
           reloads == IF t.reload THEN <<step>> ELSE <<>>
<1>1. IsTrail(steps)
  BY ServiceSteps
<1>2. Uneventful(steps, h)
  BY ServiceSteps
<1> HIDE DEF steps
<1>3. Honest(MergeModuleResults(steps, t), h)
  BY <1>1, <1>2, HonestSteps
<1>4. Honest(ServiceRun(h, t, FALSE), h)
  <2>1. PICK trail, c, f : /\ (IF steps = <<>> THEN Status(h, t) ELSE MergeModuleResults(steps, t)) = Ran(trail, c, f)
                           /\ IsTrail(trail)
    <3> DEFINE hosts == [i \in DOMAIN steps |-> steps[i].host]
    <3>1. IsTrail(Said(hosts))
      <4>1. PICK S : steps \in Seq(S)
        BY <1>1 DEF IsTrail
      <4>2. hosts \in Seq({s.host : s \in S})
        BY <4>1
      <4> HIDE DEF hosts
      <4>3. IsTrail(hosts)
        BY <4>2 DEF IsTrail
      <4> QED BY <4>3, SaidHushed
    <3>2. CASE steps = <<>>
      BY <3>2, ShortTrails DEF Status
    <3>3. CASE steps # <<>>
      BY <3>1, <3>3 DEF MergeModuleResults
    <3> QED BY <3>2, <3>3
  <2>2. Honest(Ran(trail, c, f), h)
    BY <1>3, <2>1, HonestStatus
  <2>3. Honest(After(reload, Ran(trail, c, f)), h)
    BY <2>1, <2>2, HonestReload
  <2> QED BY <2>1, <2>3 DEF ServiceRun, steps
<1>5. Honest(SystemdRun(h, t, FALSE), h)
  <2>1. IsTrail(reloads) /\ IsTrail(reloads \o steps) /\ Elems(reloads \o steps) = Elems(reloads) \cup Elems(steps)
    BY <1>1, ShortTrails, TrailsJoin, ElemsJoin
  <2>2. Elems(reloads) = IF t.reload THEN {step} ELSE {}
    BY ElemsShort
  <2>3. step.marks /\ step.host = h
    BY DEF Step
  <2> HIDE DEF reloads, step
  <2>4. Honest(MergeModuleResults(reloads \o steps, t), h)
    <3>1. Uneventful(reloads \o steps, h)
      BY <1>2, <2>1, <2>2, <2>3 DEF Uneventful
    <3> QED BY <2>1, <3>1, HonestSteps
  <2> QED BY <2>4, HonestStatus DEF SystemdRun, reloads, step, steps
<1> QED BY <1>4, <1>5

LEMMA RanTrail ==
  ASSUME NEW trail, NEW c, NEW f
  PROVE  Ran(trail, c, f).trail = trail
BY DEF Ran

\* A script that says nothing leaves what matters as it was.
LEMMA HonestScript ==
  ASSUME NEW g, NEW c, NEW h, ~c => Kept(g) = Kept(h)
  PROVE  Honest(Script(g, c), h)
<1>1. IsTrail(<<Loud(g)>>)
  BY ShortTrails
<1>2. Left(Ran(<<Loud(g)>>, c, FALSE), h) = g
  <2>1. Left(Ran(<<Loud(g)>>, c, FALSE), h) = Loud(g).host
    BY LastOfOne
  <2> QED BY <2>1 DEF Loud
<1>3. ~c => Kept(Left(Ran(<<Loud(g)>>, c, FALSE), h)) = Kept(h)
  BY <1>2
<1> QED BY <1>1, <1>3, HonestRan DEF Script

LEMMA HonestFailure ==
  ASSUME NEW g, NEW h
  PROVE  Honest(ScriptFailed(g), h)
BY HonestScripts

LEMMA HonestUpdate ==
  ASSUME NEW t, NEW h, NEW g, NEW c,
         c = (HeadOf(g) # HeadOf(h)),
         DOMAIN g = DOMAIN h, \A f \in DOMAIN h \ {"main", "at"} : g[f] = h[f]
  PROVE  Honest(Script(g, c), h)
<1>1. ASSUME ~c PROVE Kept(g) = Kept(h)
  <2>1. HeadOf(g) = HeadOf(h)
    BY <1>1
  <2> QED BY <2>1, SameKept
<1> QED BY <1>1, HonestScript

LEMMA HonestGit ==
  ASSUME NEW t, NEW h, Fits(t, h), t.module = "git"
  PROVE  Honest(GitRun(h, t, FALSE), h)
<1>1. t.state \in {"present", "absent"} /\ {"dest", "dirty"} \subseteq DOMAIN h /\ (h.dest = "none" => ~h.dirty)
  BY DEF Fits, FitsTransfers
<1>2. Honest(Script(Gone(h), h.dest # "none"), h)
  <2>1. ASSUME ~(h.dest # "none") PROVE Kept(Gone(h)) = Kept(h)
    <3>1. h.dest = "none" /\ h.dirty = FALSE
      BY <1>1, <2>1
    <3>2. DOMAIN Gone(h) = DOMAIN h /\ HeadOf(Gone(h)) = HeadOf(h)
      BY DEF Gone, HeadOf
    <3>3. \A f \in DOMAIN h : Gone(h)[f] = h[f]
      BY <3>1 DEF Gone
    <3> QED BY <3>2, <3>3, SameKept
  <2> QED BY <2>1, HonestScript
<1>3. Honest(Updated(h, t), h)
  <2> DEFINE out == Checkout(h, t)
             new == IF Pulls(out, t) THEN Pull(out) ELSE out
             c == HeadOf(new) # HeadOf(h)
  <2>1. DOMAIN new = DOMAIN h /\ \A f \in DOMAIN h \ {"main", "at"} : new[f] = h[f]
    BY DEF Checkout, Pull
  <2>2. Updated(h, t) \in {ScriptFailed(h), ScriptFailed(out), Script(new, c)}
    BY DEF Updated
  <2> HIDE DEF out, new
  <2>3. Honest(Script(new, c), h)
    BY <2>1, HonestUpdate
  <2> HIDE DEF c
  <2> QED BY <2>2, <2>3, HonestFailure
<1>4. \A g : Honest(Script(g, TRUE), h) /\ Honest(ScriptFailed(g), h)
  BY HonestScripts
<1>5. Honest(Script(h, FALSE), h)
  BY HonestScripts
<1> QED BY <1>1, <1>2, <1>3, <1>4, <1>5 DEF GitRun

LEMMA HonestUrl ==
  ASSUME NEW t, NEW h, Fits(t, h), t.module = "get_url"
  PROVE  Honest(GetURLRun(h, t, FALSE), h)
<1>1. {"node", "dir"} \subseteq DOMAIN h /\ (Exists(h) => h.dir)
  BY DEF Fits, FitsFiles, HasFiles, FileModules
<1>2. \A g : Honest(Script(g, TRUE), h) /\ Honest(ScriptFailed(g), h)
  BY HonestScripts
<1>3. Honest(Script(h, FALSE), h)
  BY HonestScripts
<1>4. ASSUME Exists(h) PROVE Honest(Script(MakeDir(h), FALSE), h)
  <2>1. h.dir = TRUE
    BY <1>1, <1>4
  <2>2. DOMAIN MakeDir(h) = DOMAIN h /\ \A f \in DOMAIN h : MakeDir(h)[f] = h[f]
    BY <2>1 DEF MakeDir
  <2>3. HeadOf(MakeDir(h)) = HeadOf(h)
    BY DEF MakeDir, HeadOf
  <2>4. Kept(MakeDir(h)) = Kept(h)
    BY <2>2, <2>3, SameKept
  <2> QED BY <2>4, HonestScripts
<1> QED BY <1>2, <1>3, <1>4 DEF GetURLRun

LEMMA HonestArchives ==
  ASSUME NEW t, NEW h
  PROVE  Honest(ArchiveRun(h, t, FALSE), h) /\ Honest(UnarchiveRun(h, t, FALSE), h) /\ Honest(TempfileRun(h, t, FALSE), h)
<1>1. Honest(ArchiveRun(h, t, FALSE), h)
  BY HonestScripts DEF ArchiveRun, ArchiveScript
<1>2. Honest(TempfileRun(h, t, FALSE), h)
  BY HonestScripts DEF TempfileRun
<1>3. Honest(UnarchiveRun(h, t, FALSE), h)
  <2> DEFINE up == [h EXCEPT !.tmp = TRUE]
             h1 == IF t.remote THEN h ELSE up
             h2 == Extracted(h1, t)
             h3 == IF t.mode = "" THEN h2 ELSE [h2 EXCEPT !.mode = t.mode]
             a == IF t.remote THEN <<>> ELSE <<Loud(up)>>
             b == IF t.mode = "" THEN <<>> ELSE <<Loud(h3)>>
             c == IF t.remote THEN <<>> ELSE <<Quiet([h3 EXCEPT !.tmp = FALSE])>>
             trail == a \o <<Loud(h2)>> \o b \o c
  <2>1. IsTrail(a) /\ IsTrail(b) /\ IsTrail(c) /\ IsTrail(<<Loud(h2)>>)
    BY ShortTrails
  <2>2. UnarchiveRun(h, t, FALSE) = Unchanged \/ UnarchiveRun(h, t, FALSE) = Ran(trail, t.good, ~t.good)
    BY DEF UnarchiveRun
  <2> HIDE DEF up, h1, h2, h3, a, b, c
  <2>3. IsTrail(trail)
    BY <2>1, TrailsJoin
  <2> HIDE DEF trail
  <2>4. Honest(Ran(trail, t.good, ~t.good), h)
    <3>1. CASE t.good
      <4>1. ~t.good => Kept(Left(Ran(trail, t.good, ~t.good), h)) = Kept(h)
        BY <3>1
      <4> QED BY <2>3, <4>1, HonestRan
    <3>2. CASE ~t.good
      <4>1. Ran(trail, t.good, ~t.good).failed
        BY <3>2 DEF Ran
      <4> QED BY <4>1 DEF Honest
    <3> QED BY <3>1, <3>2
  <2> QED BY <2>2, <2>4, HonestRuns
<1> QED BY <1>1, <1>2, <1>3

LEMMA HonestSynchronize ==
  ASSUME NEW t, NEW h, Fits(t, h), t.module = "synchronize"
  PROVE  Honest(SynchronizeRun(h, t, FALSE), h)
<1> DEFINE sent == [h EXCEPT !.dest = [f \in DOMAIN @ |-> IF f \in Sent(h, t) THEN h.src[f] ELSE @[f]]]
           done == [sent EXCEPT !.dest = [f \in DOMAIN @ |-> IF f \in Deleted(h, t) THEN "none" ELSE @[f]]]
           c == RsyncChanged(h, t)
<1>1. SynchronizeRun(h, t, FALSE) = Refused \/ SynchronizeRun(h, t, FALSE) = Ran(<<Loud(sent), Loud(done)>>, c, FALSE)
  BY DEF SynchronizeRun
<1>2. "dest" \in DOMAIN h /\ h.dest = [f \in DOMAIN h.dest |-> h.dest[f]]
  BY DEF Fits, FitsTransfers, IsMap
<1>3. ASSUME ~c PROVE Kept(done) = Kept(h)
  <2>1. Sent(h, t) = {} /\ Deleted(h, t) = {}
    BY <1>3 DEF RsyncChanged
  <2>2. sent.dest = h.dest
    BY <1>2, <2>1
  <2>3. DOMAIN sent = DOMAIN h /\ "dest" \in DOMAIN sent /\ \A f \in DOMAIN h \ {"dest"} : sent[f] = h[f]
    BY <1>2
  <2> HIDE DEF sent
  <2>4. done.dest = h.dest
    BY <1>2, <2>1, <2>2, <2>3
  <2>5. DOMAIN done = DOMAIN h /\ \A f \in DOMAIN h \ {"dest"} : done[f] = h[f]
    BY <2>3
  <2>6. "at" \in DOMAIN h => HeadOf(done) = HeadOf(h)
    <3>1. done.at = sent.at /\ done.main = sent.main
      OBVIOUS
    <3>2. sent.at = h.at /\ sent.main = h.main
      BY DEF sent
    <3> QED BY <3>1, <3>2 DEF HeadOf
  <2> HIDE DEF done
  <2> QED BY <2>4, <2>5, <2>6, SameKept
<1>4. Left(Ran(<<Loud(sent), Loud(done)>>, c, FALSE), h) = done
  <2> HIDE DEF sent, done, c
  <2>1. Left(Ran(<<Loud(sent), Loud(done)>>, c, FALSE), h) = Loud(done).host
    BY LastOfTwo
  <2> QED BY <2>1 DEF Loud
<1>5. IsTrail(<<Loud(sent), Loud(done)>>)
  BY ShortTrails
<1> HIDE DEF sent, done, c
<1>6. ~c => Kept(Left(Ran(<<Loud(sent), Loud(done)>>, c, FALSE), h)) = Kept(h)
  BY <1>3, <1>4
<1>7. Honest(Ran(<<Loud(sent), Loud(done)>>, c, FALSE), h)
  BY <1>5, <1>6, HonestRan
<1> QED BY <1>1, <1>7, HonestRuns

LEMMA HonestContainer ==
  ASSUME NEW t, NEW h
  PROVE  Honest(DockerContainerRun(h, t, FALSE), h)
<1>1. ASSUME NEW g, NEW b PROVE Honest(Script(g, g # h \/ b), h)
  <2>1. ~(g # h \/ b) => Kept(g) = Kept(h)
    OBVIOUS
  <2> QED BY <2>1, HonestScript
<1>2. ASSUME NEW g PROVE Honest(Script(g, g # h), h)
  <2>1. ~(g # h) => Kept(g) = Kept(h)
    OBVIOUS
  <2> QED BY <2>1, HonestScript
<1>3. \A g : Honest(ScriptFailed(g), h)
  BY HonestFailure
<1> DEFINE exists == h.box # NoContainer
           pulls == t.pull /\ t.image # ""
           h1 == IF pulls THEN [h EXCEPT !.pulled = "new"] ELSE h
           recreate == t.recreate \/ (t.image # "" /\ t.image # h.box.image)
           gone == [h1 EXCEPT !.box = NoContainer]
           new == [h1 EXCEPT !.box = InState(IF exists /\ ~recreate THEN h.box ELSE Container(t), t.state)]
           b == (exists /\ t.recreate) \/ t.state = "restarted"
<1>4. DockerContainerRun(h, t, FALSE) \in {ScriptFailed(h), Script(gone, gone # h), ScriptFailed(gone), Script(new, new # h \/ b)}
  BY DEF DockerContainerRun
<1> HIDE DEF gone, new, b
<1> QED BY <1>1, <1>2, <1>3, <1>4

LEMMA HonestObjects ==
  ASSUME NEW t, NEW h, Fits(t, h), t.module = "k8s", ~ChangesUnsaid(t, h)
  PROVE  Honest(K8sRun(h, t, FALSE), h)
<1> DEFINE up == [h EXCEPT !.tmp = TRUE]
           done == IF h.kubectl THEN Applied(up, t) ELSE up
           end == [done EXCEPT !.tmp = FALSE]
           trail == <<Loud(up), Loud(done), Quiet(end)>>
           c == h.kubectl /\ K8sChanged(h, t)
<1>1. K8sRun(h, t, FALSE) = Ran(trail, c, ~h.kubectl)
  BY DEF K8sRun
<1>2. CASE ~h.kubectl
  <2>1. Ran(trail, c, ~h.kubectl).failed
    BY <1>2 DEF Ran
  <2> QED BY <1>1, <2>1 DEF Honest
<1>3. CASE h.kubectl
  <2>1. ASSUME ~c PROVE Kept(end) = Kept(h)
    <3>1. \A o \in DOMAIN t.objects : h.objects[o] # t.objects[o]
      BY DEF ChangesUnsaid
    <3>2. t.state # "present" /\ \A o \in DOMAIN t.objects : h.objects[o] = "none"
      BY <1>3, <2>1, <3>1 DEF K8sChanged
    <3>3. "objects" \in DOMAIN h /\ h.objects = [o \in DOMAIN h.objects |-> h.objects[o]]
      BY DEF Fits, FitsTransfers, IsMap
    <3>4. DOMAIN up = DOMAIN h /\ up.objects = h.objects /\ \A f \in DOMAIN h \ {"tmp"} : up[f] = h[f]
      OBVIOUS
    <3> HIDE DEF up
    <3>5. Applied(up, t).objects = h.objects
      BY <3>2, <3>3, <3>4 DEF Applied
    <3>6. DOMAIN Applied(up, t) = DOMAIN h /\ \A f \in DOMAIN h \ {"objects"} : Applied(up, t)[f] = up[f]
      BY <3>4 DEF Applied
    <3>7. done = Applied(up, t)
      BY <1>3
    <3> HIDE DEF done
    <3>8. DOMAIN end = DOMAIN h /\ \A f \in DOMAIN h \ {"tmp"} : end[f] = done[f]
      BY <3>6, <3>7
    <3>9. "at" \in DOMAIN h => HeadOf(end) = HeadOf(h)
      <4>1. end.at = done.at /\ end.main = done.main
        OBVIOUS
      <4>2. done.at = up.at /\ done.main = up.main
        BY <3>7 DEF Applied
      <4>3. up.at = h.at /\ up.main = h.main
        BY DEF up
      <4> QED BY <4>1, <4>2, <4>3 DEF HeadOf
    <3>10. \A f \in DOMAIN h \ {"tmp"} : end[f] = h[f]
      BY <3>3, <3>4, <3>5, <3>6, <3>7, <3>8
    <3> HIDE DEF end
    <3> QED BY <3>8, <3>9, <3>10, SameKept
  <2>2. IsTrail(trail) /\ Len(trail) = 3 /\ trail[3] = Quiet(end)
    BY ShortTrails
  <2> HIDE DEF trail, end
  <2>3. Left(Ran(trail, c, ~h.kubectl), h) = trail[3].host
    <3> HIDE DEF c
    <3> DEFINE run == Ran(trail, c, ~h.kubectl)
    <3>1. run.trail = trail
      BY RanTrail
    <3> HIDE DEF run
    <3>2. Len(run.trail) = 3
      BY <2>2, <3>1
    <3>3. Left(run, h) = run.trail[3].host
      BY <3>2 DEF Left, HostAfter
    <3> QED BY <3>1, <3>3 DEF run
  <2>4. Left(Ran(trail, c, ~h.kubectl), h) = end
    BY <2>2, <2>3 DEF Quiet
  <2> HIDE DEF c
  <2>5. ~c => Kept(Left(Ran(trail, c, ~h.kubectl), h)) = Kept(h)
    BY <2>1, <2>4
  <2>6. Honest(Ran(trail, c, ~h.kubectl), h)
    BY <2>2, <2>5, HonestRan
  <2> QED BY <1>1, <2>6 DEF c, trail, end
<1> QED BY <1>2, <1>3

LEMMA HonestCommand ==
  ASSUME NEW t, NEW h, t.module \in {"command", "shell"} => ~ChangesUnsaid(t, h)
  PROVE  /\ t.module \in {"command", "shell"} => Honest(CommandRun(h, t, FALSE), h)
         /\ Honest(UriRun(h, t, FALSE), h)
<1>1. Honest(UriRun(h, t, FALSE), h)
  BY HonestRuns DEF UriRun
<1>2. ASSUME t.module \in {"command", "shell"} PROVE Honest(CommandRun(h, t, FALSE), h)
  <2>1. t.local
    BY <1>2 DEF ChangesUnsaid
  <2>2. \A g : Honest(Script(g, t.local), h)
    <3> SUFFICES ASSUME NEW g PROVE Honest(Script(g, t.local), h)
      OBVIOUS
    <3>1. ~t.local => Kept(g) = Kept(h)
      BY <2>1
    <3> QED BY <3>1, HonestScript
  <2> QED BY <2>2, HonestFailure, HonestRuns DEF CommandRun
<1> QED BY <1>1, <1>2

LEMMA HonestModules ==
  ASSUME NEW t, NEW h, NEW seen, Fits(t, h), ~ChangesUnsaid(t, h)
  PROVE  Honest(Run(t, h, seen, FALSE), h)
<1>1. t.module \in Modules
  BY DEF Fits
<1>2. CASE t.module \in {"file", "copy", "copy_directory", "template", "fetch"}
  BY <1>2, HonestFile, HonestCopy, HonestDirectory, HonestFetch DEF Run
<1>3. CASE t.module \in {"lineinfile", "blockinfile", "replace"}
  <2>1. \A did : Honest(EditRun(h, t, FALSE, did), h)
    BY HonestLines
  <2>2. Honest(ReplaceRun(h, t, FALSE), h)
    BY HonestLines
  <2> QED BY <1>3, <2>1, <2>2 DEF Run, LineinfileRun, BlockinfileRun
<1>4. CASE t.module \in {"authorized_key", "known_hosts", "cron", "sysctl", "mount"}
  BY <1>4, HonestEntries, HonestSysctl, HonestMount DEF Run
<1>5. CASE t.module \in {"hostname", "user", "group"}
  BY <1>5, HonestAccounts, HonestUser DEF Run
<1>6. CASE t.module \in {"package", "pip", "service", "systemd"}
  BY <1>6, HonestPackage, HonestPip, HonestServices DEF Run
<1>7. CASE t.module \in {"git", "get_url", "archive", "unarchive", "synchronize", "tempfile"}
  BY <1>7, HonestGit, HonestUrl, HonestArchives, HonestSynchronize DEF Run
<1>8. CASE t.module \in {"docker_container", "k8s", "command", "shell", "uri"}
  BY <1>8, HonestContainer, HonestObjects, HonestCommand DEF Run, ShellRun
<1>9. \/ t.module \in {"file", "copy", "copy_directory", "template", "fetch"}
      \/ t.module \in {"lineinfile", "blockinfile", "replace"}
      \/ t.module \in {"authorized_key", "known_hosts", "cron", "sysctl", "mount"}
      \/ t.module \in {"hostname", "user", "group"}
      \/ t.module \in {"package", "pip", "service", "systemd"}
      \/ t.module \in {"git", "get_url", "archive", "unarchive", "synchronize", "tempfile"}
      \/ t.module \in {"docker_container", "k8s", "command", "shell", "uri"}
  BY <1>1 DEF Modules
<1> QED BY <1>2, <1>3, <1>4, <1>5, <1>6, <1>7, <1>8, <1>9

-----------------------------------------------------------------------------
(* Check mode                                                              *)

LEMMA NothingToPermit ==
  ASSUME NEW h
  PROVE  SetFilePermissions(h, AsIs, FALSE) = <<>> /\ OnlyPermissions(h, AsIs) = Ran(<<>>, FALSE, FALSE)
<1>1. AsIs.mode = "" /\ AsIs.owner = ""
  BY DEF AsIs, Perm
<1> HIDE DEF AsIs
<1>2. Said(<<>> \o <<>>) = <<>>
  BY DEF Said
<1>3. SetFilePermissions(h, AsIs, FALSE) = Said(<<>> \o <<>>)
  BY <1>1 DEF SetFilePermissions
<1> QED BY <1>2, <1>3 DEF OnlyPermissions

\* What a run in check mode is: it changes nothing.
Dry(r) == r.trail = <<>>

LEMMA DryRuns ==
  /\ \A c, f : Dry(Ran(<<>>, c, f))
  /\ Dry(Unchanged) /\ Dry(Refused) /\ \A c : Dry(Reports(c))
  /\ \A h : Dry(OnlyPermissions(h, AsIs))
<1>1. ASSUME NEW c, NEW f PROVE Dry(Ran(<<>>, c, f))
  BY DEF Dry, Ran
<1>2. \A h : OnlyPermissions(h, AsIs) = Ran(<<>>, FALSE, FALSE)
  BY NothingToPermit
<1> QED BY <1>1, <1>2 DEF Unchanged, Refused, Reports

LEMMA DryFiles ==
  ASSUME NEW t, NEW h, NEW seen, Fits(t, h), ~NotDry(t, h),
         t.module \in {"file", "copy", "copy_directory", "template", "fetch"}
  PROVE  Dry(Run(t, h, seen, TRUE))
<1>1. t.module \in {"copy", "template"} => t.want = AsIs
  BY DEF NotDry
<1>2. CASE t.module = "file"
  BY <1>2 DEF Dry, Run, FileRun, Ran
<1>3. CASE t.module = "copy"
  <2>1. t.from \in {"remote", "content", "local"} /\ t.want = AsIs
    BY <1>1, <1>3 DEF Fits, FitsFiles
  <2>2. Dry(CopyRemote(h, t, TRUE)) /\ Dry(CopyContent(h, t, TRUE)) /\ Dry(CopyLocal(h, t, TRUE))
    BY <2>1, DryRuns DEF CopyRemote, CopyContent, CopyLocal
  <2> QED BY <1>3, <2>1, <2>2 DEF Run, CopyRun
<1>4. CASE t.module = "copy_directory"
  BY <1>4 DEF Dry, Run, CopyDirectoryRun, Reports, Ran
<1>5. CASE t.module = "template"
  BY <1>1, <1>5, DryRuns DEF Run, TemplateRun, CopyLocal
<1>6. CASE t.module = "fetch"
  BY <1>6 DEF Dry, Run, FetchRun, Refused, Unchanged, Reports, Ran
<1> QED BY <1>2, <1>3, <1>4, <1>5, <1>6

LEMMA DryLines ==
  ASSUME NEW t, NEW h, NEW seen, Fits(t, h), ~NotDry(t, h),
         t.module \in {"lineinfile", "blockinfile", "replace"}
  PROVE  Dry(Run(t, h, seen, TRUE))
<1>1. ASSUME NEW did, t.want = AsIs PROVE Dry(EditRun(h, t, TRUE, did))
  BY <1>1, DryRuns DEF EditRun
<1>2. CASE t.module \in {"lineinfile", "blockinfile"}
  <2>1. t.want = AsIs
    BY <1>2 DEF NotDry
  <2> QED BY <1>1, <1>2, <2>1 DEF Run, LineinfileRun, BlockinfileRun
<1>3. CASE t.module = "replace"
  BY <1>3 DEF Dry, Run, ReplaceRun, Refused, Unchanged, Reports, Ran
<1> QED BY <1>2, <1>3

LEMMA DryEntries ==
  ASSUME NEW t, NEW h, NEW seen, Fits(t, h),
         t.module \in {"authorized_key", "known_hosts", "cron", "sysctl", "mount", "hostname", "user", "group"}
  PROVE  Dry(Run(t, h, seen, TRUE))
<1>1. CASE t.module \in {"authorized_key", "known_hosts", "cron"}
  BY <1>1 DEF Dry, Run, AuthorizedKeyRun, KnownHostsRun, CronRun, Unchanged, Reports, Ran
<1>2. CASE t.module \in {"sysctl", "mount"}
  BY <1>2 DEF Dry, Run, SysctlRun, MountRun, Unchanged, Reports, Ran
<1>3. CASE t.module \in {"hostname", "user", "group"}
  BY <1>3 DEF Dry, Run, HostnameRun, UserRun, GroupRun, Unchanged, Refused, Reports, Ran
<1> QED BY <1>1, <1>2, <1>3

LEMMA DryServices ==
  ASSUME NEW t, NEW h, NEW seen, Fits(t, h), ~NotDry(t, h),
         t.module \in {"package", "pip", "service", "systemd"}
  PROVE  Dry(Run(t, h, seen, TRUE))
<1>1. CASE t.module = "package"
  <2>1. t.manager \in {"apt", "dnf", "yum", "apk"} /\ ~(t.update /\ (t.manager = "apk" \/ t.names = {}))
    BY <1>1 DEF Fits, FitsServices, NotDry
  <2>2. Dry(AptRun(h, t, TRUE)) \/ t.manager # "apt"
    BY <2>1 DEF Dry, AptRun, OnlyRefresh, Unchanged, Reports, Ran
  <2>3. Dry(DnfRun(h, t, TRUE)) \/ t.manager \notin {"dnf", "yum"}
    BY <2>1 DEF Dry, DnfRun, OnlyRefresh, Unchanged, Reports, Ran
  <2>4. Dry(ApkRun(h, t, TRUE)) \/ t.manager # "apk"
    BY <2>1 DEF Dry, ApkRun, Refresh, Unchanged, Reports, Ran
  <2> QED BY <1>1, <2>1, <2>2, <2>3, <2>4 DEF Run, PackageRun, YumRun
<1>2. CASE t.module = "pip"
  BY <1>2 DEF Dry, Run, PipRun, Reports, Ran
<1>3. CASE t.module \in {"service", "systemd"}
  BY <1>3, DryRuns DEF Run, ServiceRun, SystemdRun
<1> QED BY <1>1, <1>2, <1>3

LEMMA DryTransfers ==
  ASSUME NEW t, NEW h, NEW seen, Fits(t, h),
         t.module \in {"get_url", "archive", "unarchive", "synchronize", "tempfile"}
  PROVE  Dry(Run(t, h, seen, TRUE))
BY DEF Dry, Run, GetURLRun, ArchiveRun, UnarchiveRun, SynchronizeRun, TempfileRun, Unchanged, Refused, Reports, Ran

LEMMA DryModules ==
  ASSUME NEW t, NEW h, NEW seen, Fits(t, h), SupportsCheckMode(t.module), ~NotDry(t, h)
  PROVE  Dry(Run(t, h, seen, TRUE))
<1>1. t.module \in Modules /\ t.module \notin {"git", "docker_container", "k8s", "command", "shell", "uri"}
  BY DEF Fits, SupportsCheckMode
<1>2. CASE t.module \in {"file", "copy", "copy_directory", "template", "fetch"}
  BY <1>2, DryFiles
<1>3. CASE t.module \in {"lineinfile", "blockinfile", "replace"}
  BY <1>3, DryLines
<1>4. CASE t.module \in {"authorized_key", "known_hosts", "cron", "sysctl", "mount", "hostname", "user", "group"}
  BY <1>4, DryEntries
<1>5. CASE t.module \in {"package", "pip", "service", "systemd"}
  BY <1>5, DryServices
<1>6. CASE t.module \in {"get_url", "archive", "unarchive", "synchronize", "tempfile"}
  BY <1>6, DryTransfers
<1>7. \/ t.module \in {"file", "copy", "copy_directory", "template", "fetch"}
      \/ t.module \in {"lineinfile", "blockinfile", "replace"}
      \/ t.module \in {"authorized_key", "known_hosts", "cron", "sysctl", "mount", "hostname", "user", "group"}
      \/ t.module \in {"package", "pip", "service", "systemd"}
      \/ t.module \in {"get_url", "archive", "unarchive", "synchronize", "tempfile"}
  BY <1>1 DEF Modules
<1> QED BY <1>2, <1>3, <1>4, <1>5, <1>6, <1>7

\* A run that neither fails nor changes anything, by its own account; and
\* a dry run after which the run it stands for does not say otherwise.
Silent(r) == ~r.failed /\ ~Changed(r)
Foretells(dry, whole) == Silent(dry) => whole.failed \/ ~Changed(whole)

LEMMA ForetellingRuns ==
  /\ \A r : Foretells(r, r) /\ Foretells(Reports(TRUE), r) /\ Foretells(Refused, r)
  /\ \A r : Foretells(r, Unchanged) /\ Foretells(r, Refused)
<1>1. IsTrail(<<>>)
  BY ShortTrails
<1>2. Changed(Ran(<<>>, TRUE, FALSE)) = TRUE
  BY <1>1, RanChanged
<1>3. Changed(Ran(<<>>, FALSE, FALSE)) = FALSE
  BY <1>1, RanChanged
<1>4. Ran(<<>>, FALSE, TRUE).failed = TRUE
  BY DEF Ran
<1> QED BY <1>2, <1>3, <1>4 DEF Foretells, Silent, Unchanged, Refused, Reports

LEMMA ForetellsReport ==
  ASSUME NEW c, NEW whole, ~c => whole.failed \/ ~Changed(whole)
  PROVE  Foretells(Reports(c), whole)
<1>1. Changed(Reports(c)) = c
  BY ShortTrails, RanChanged DEF Reports
<1> QED BY <1>1 DEF Foretells, Silent

LEMMA ForetoldFile ==
  ASSUME NEW t, NEW h, NEW seen, Fits(t, h), ~NotForetold(t, h), t.module = "file"
  PROVE  Foretells(Run(t, h, seen, TRUE), Run(t, h, seen, FALSE))
<1> DEFINE dry == FileRun(h, t, TRUE)
           whole == FileRun(h, t, FALSE)
           did == FileState(h, t)
           check == FileStateCheck(h, t)
           marks == did.marks \/ t.state = "touch"
           trail == <<Loud(did.host)>> \o Hushed(SetFilePermissions(did.host, t.want, t.recurse))
           said == check.marks \/ t.want # AsIs
<1>1. dry = Ran(<<>>, said, ~check.ok)
  BY DEF FileRun
<1>2. Changed(dry) = said
  <2> HIDE DEF said
  <2>1. Changed(Ran(<<>>, said, ~check.ok)) = said
    BY ShortTrails, RanChanged
  <2> QED BY <1>1, <2>1
<1>3. whole.trail = trail /\ whole.changed = [n \in 0..Len(trail) |-> marks \/ n > 1]
  BY DEF FileRun
<1>4. whole.failed = ~did.ok
  BY DEF FileRun
<1>5. ASSUME ~check.marks, check.ok, did.ok PROVE ~did.marks /\ t.state # "touch"
  <2>1. t.state \in {"directory", "touch", "absent", "link", "hard", "file"}
    BY DEF Fits, FitsFiles
  <2>2. ~(t.state = "file" /\ t.times)
    BY DEF NotForetold
  <2> QED BY <1>5, <2>1, <2>2 DEF FileState, FileStateCheck, Did
<1>6. dry.failed = ~check.ok
  <2> HIDE DEF check, said, dry
  <2>1. \A c, f : Ran(<<>>, c, f).failed = f
    BY DEF Ran
  <2> QED BY <1>1, <2>1
<1> HIDE DEF dry, whole, did, check
<1>7. ASSUME Silent(dry), ~whole.failed PROVE ~Changed(whole)
  <2>1. ~said /\ check.ok
    BY <1>2, <1>6, <1>7 DEF Silent
  <2>2. t.want = AsIs /\ ~check.marks
    BY <2>1
  <2>3. ~did.marks /\ t.state # "touch"
    BY <1>4, <1>5, <1>7, <2>1, <2>2
  <2>4. Hushed(SetFilePermissions(did.host, t.want, t.recurse)) = <<>>
    <3>1. AsIs.mode = "" /\ AsIs.owner = ""
      BY DEF AsIs, Perm
    <3> HIDE DEF AsIs
    <3>2. SetFilePermissions(did.host, AsIs, t.recurse) = Said(<<>> \o <<>>)
      BY <3>1 DEF SetFilePermissions
    <3>3. Said(<<>> \o <<>>) = <<>> /\ Hushed(<<>>) = <<>>
      BY DEF Said, Hushed
    <3> QED BY <2>2, <3>2, <3>3
  <2>5. trail = <<Loud(did.host)>>
    BY <2>4, Joined
  <2>6. Len(trail) = 1
    BY <2>5, ShortTrails
  <2>7. ~marks /\ ~(1 > 1)
    BY <2>3
  <2> HIDE DEF trail, marks
  <2>8. Changed(whole) = (marks \/ 1 > 1)
    BY <1>3, <2>6 DEF Changed
  <2> QED BY <2>7, <2>8
<1>8. Foretells(dry, whole)
  BY <1>7 DEF Foretells
<1> QED BY <1>8 DEF Run, dry, whole

LEMMA ForetoldFiles ==
  ASSUME NEW t, NEW h, NEW seen, Fits(t, h), t.module \in {"copy", "template", "fetch"}
  PROVE  Foretells(Run(t, h, seen, TRUE), Run(t, h, seen, FALSE))
<1>1. Foretells(CopyLocal(h, t, TRUE), CopyLocal(h, t, FALSE))
  BY ForetellingRuns DEF CopyLocal
<1>2. Foretells(CopyContent(h, t, TRUE), CopyContent(h, t, FALSE))
  BY ForetellingRuns DEF CopyContent
<1>3. Foretells(CopyRemote(h, t, TRUE), CopyRemote(h, t, FALSE))
  BY ForetellingRuns DEF CopyRemote
<1>4. t.module = "copy" => t.from \in {"remote", "content", "local"}
  BY DEF Fits, FitsFiles
<1>5. t.module = "copy" => Foretells(CopyRun(h, t, TRUE), CopyRun(h, t, FALSE))
  BY <1>1, <1>2, <1>3, <1>4 DEF CopyRun
<1>6. Foretells(FetchRun(h, t, TRUE), FetchRun(h, t, FALSE))
  BY ForetellingRuns DEF FetchRun
<1> QED BY <1>1, <1>5, <1>6 DEF Run, TemplateRun

LEMMA ForetoldDirectory ==
  ASSUME NEW t, NEW h
  PROVE  Foretells(CopyDirectoryRun(h, t, TRUE), CopyDirectoryRun(h, t, FALSE))
<1> DEFINE made == MakeDir(h)
           sent == Write(made, t.text)
           same == Exists(h) /\ (h.node.text = t.text \/ ~t.force)
           first == IF h.dir THEN <<>> ELSE <<Loud(made)>>
           then == IF same THEN <<>> ELSE <<Quiet(made), Loud(sent)>> \o Finish(sent, t.want)
           todo == ~h.dir \/ ~same
<1>1. CopyDirectoryRun(h, t, FALSE) = Ran(first \o then, todo, FALSE) /\ CopyDirectoryRun(h, t, TRUE) = Reports(todo)
  BY DEF CopyDirectoryRun
<1>2. IsTrail(Finish(sent, t.want))
  BY PermissionTrails
<1>3. IsTrail(first) /\ IsTrail(then)
  BY <1>2, ShortTrails, TrailsJoin
<1>4. IsTrail(first \o then)
  BY <1>3, TrailsJoin
<1> HIDE DEF todo, first, then
<1>5. Changed(Ran(first \o then, todo, FALSE)) = todo
  BY <1>4, RanChanged
<1> QED BY <1>1, <1>5, ForetellsReport

LEMMA ForetoldLines ==
  ASSUME NEW t, NEW h, NEW seen, Fits(t, h), t.module \in {"lineinfile", "blockinfile", "replace"}
  PROVE  Foretells(Run(t, h, seen, TRUE), Run(t, h, seen, FALSE))
<1>1. ASSUME NEW did PROVE Foretells(EditRun(h, t, TRUE, did), EditRun(h, t, FALSE, did))
  BY ForetellingRuns DEF EditRun
<1>2. Foretells(ReplaceRun(h, t, TRUE), ReplaceRun(h, t, FALSE))
  BY ForetellingRuns DEF ReplaceRun
<1> QED BY <1>1, <1>2 DEF Run, LineinfileRun, BlockinfileRun

LEMMA ForetoldEntries ==
  ASSUME NEW t, NEW h, NEW seen, Fits(t, h), t.module \in {"authorized_key", "known_hosts", "cron", "sysctl", "mount"}
  PROVE  Foretells(Run(t, h, seen, TRUE), Run(t, h, seen, FALSE))
<1>1. Foretells(AuthorizedKeyRun(h, seen, t, TRUE), AuthorizedKeyRun(h, seen, t, FALSE))
  BY ForetellingRuns DEF AuthorizedKeyRun
<1>2. Foretells(KnownHostsRun(h, seen, t, TRUE), KnownHostsRun(h, seen, t, FALSE))
  BY ForetellingRuns DEF KnownHostsRun
<1>3. Foretells(CronRun(h, seen, t, TRUE), CronRun(h, seen, t, FALSE))
  BY ForetellingRuns DEF CronRun
<1>4. Foretells(SysctlRun(h, seen, t, TRUE), SysctlRun(h, seen, t, FALSE))
  BY ForetellingRuns DEF SysctlRun
<1>5. Foretells(MountRun(h, seen, t, TRUE), MountRun(h, seen, t, FALSE))
  BY ForetellingRuns DEF MountRun
<1> QED BY <1>1, <1>2, <1>3, <1>4, <1>5 DEF Run

LEMMA ForetoldAccounts ==
  ASSUME NEW t, NEW h, NEW seen, Fits(t, h), t.module \in {"hostname", "user", "group"}
  PROVE  Foretells(Run(t, h, seen, TRUE), Run(t, h, seen, FALSE))
<1>1. Foretells(HostnameRun(h, t, TRUE), HostnameRun(h, t, FALSE))
  BY ForetellingRuns DEF HostnameRun
<1>2. Foretells(GroupRun(h, t, TRUE), GroupRun(h, t, FALSE))
  BY ForetellingRuns DEF GroupRun
<1>3. Foretells(UserRun(h, t, TRUE), UserRun(h, t, FALSE))
  <2> DEFINE run == UserCommands(h, t)
             done == HostAfter(run, h, Len(run.trail))
             key == UserSSHKey(done, t)
             said == run.trail # <<>> \/ key # <<>>
             foreseen == run.trail # <<>> \/ UserSSHKey(h, t) # <<>>
             whole == Ran(run.trail \o key, said, run.failed)
  <2>1. CASE run = Refused
    BY <2>1, ForetellingRuns DEF UserRun
  <2>2. CASE run # Refused
    <3>1. UserRun(h, t, TRUE) = Reports(foreseen) /\ UserRun(h, t, FALSE) = whole
      BY <2>2 DEF UserRun
    <3>2. ASSUME ~foreseen PROVE ~Changed(whole)
      <4>1. run.trail = <<>> /\ UserSSHKey(h, t) = <<>>
        BY <3>2
      <4>2. done = h
        BY <4>1, ShortTrails DEF HostAfter
      <4>3. key = <<>>
        BY <4>1, <4>2
      <4>4. run.trail \o key = <<>> /\ ~said
        BY <4>1, <4>3, Joined
      <4> HIDE DEF run, key, said
      <4>5. Changed(Ran(<<>>, said, run.failed)) = said
        BY ShortTrails, RanChanged
      <4> QED BY <4>4, <4>5
    <3> HIDE DEF foreseen, whole
    <3> QED BY <3>1, <3>2, ForetellsReport
  <2> QED BY <2>1, <2>2
<1> QED BY <1>1, <1>2, <1>3 DEF Run

LEMMA ForetoldPackage ==
  ASSUME NEW t, NEW h, Fits(t, h), ~NotForetold(t, h), t.module = "package"
  PROVE  Foretells(PackageRun(h, t, TRUE), PackageRun(h, t, FALSE))
<1>1. t.manager \in {"apt", "dnf", "yum", "apk"} /\ t.names \subseteq DOMAIN h.versions
  BY DEF Fits, FitsServices
<1>2. h.versions \in [DOMAIN h.versions -> {"none", "old", "new"}]
  BY DEF Fits, FitsServices, Versions
<1>3. ASSUME t.names # {}, ~ForeseesPackages(h, t) PROVE ~AptChanged(h, t) /\ ~YumChanged(h, t)
  <2>1. CASE Removes(t)
    <3>1. t.names \cap Having(h, {"old", "new"}) = {}
      BY <1>3, <2>1 DEF ForeseesPackages
    <3>2. Todo(h, t) = Having(h, {"old", "new"})
      BY <2>1 DEF Todo, Removes
    <3> QED BY <2>1, <3>1, <3>2 DEF AptChanged, YumChanged
  <2>2. CASE ~Removes(t)
    <3>1. t.names \cap Having(h, {"none"}) = {}
      BY <1>3, <2>2 DEF ForeseesPackages
    <3>2. t.names \cap Having(h, {"old"}) = {}
      BY <2>2 DEF NotForetold, Removes
    <3>3. PICK p : p \in t.names
      BY <1>3
    <3>4. \A q \in t.names : h.versions[q] = "new"
      BY <1>1, <1>2, <3>1, <3>2 DEF Having
    <3>5. p \in t.names \cap Having(h, {"new"})
      BY <1>1, <3>3, <3>4 DEF Having
    <3>6. Todo(h, t) \in {Having(h, {"none", "old"}), Having(h, {"old"}), Having(h, {"none"})}
      BY <2>2 DEF Todo, Removes
    <3>7. t.names \cap Todo(h, t) = {}
      BY <3>4, <3>6 DEF Having
    <3> QED BY <2>2, <3>5, <3>7 DEF AptChanged, YumChanged
  <2> QED BY <2>1, <2>2
<1>4. ASSUME NEW changed, ~changed PROVE Manage(h, t, changed).failed \/ ~Changed(Manage(h, t, changed))
  <2> DEFINE g == IF t.update THEN Fresh(h) ELSE h
             done == WithVersions(g, t.names \cap Todo(h, t), IF Removes(t) THEN "none" ELSE "new")
             trail == Refresh(h, t) \o <<Loud(done)>>
  <2>1. \/ Manage(h, t, changed) = Ran(Refresh(h, t) \o <<Loud(g)>>, TRUE, TRUE)
        \/ Manage(h, t, changed) = Ran(trail, changed, FALSE)
    BY DEF Manage
  <2>2. IsTrail(trail)
    <3>1. IsTrail(Refresh(h, t)) /\ IsTrail(<<Loud(done)>>)
      BY ShortTrails DEF Refresh
    <3> HIDE DEF done
    <3> QED BY <3>1, TrailsJoin
  <2> HIDE DEF trail
  <2>3. Changed(Ran(trail, changed, FALSE)) = changed
    BY <2>2, RanChanged
  <2>4. Ran(Refresh(h, t) \o <<Loud(g)>>, TRUE, TRUE).failed
    BY DEF Ran
  <2> QED BY <1>4, <2>1, <2>3, <2>4
<1>5. Foretells(AptRun(h, t, TRUE), AptRun(h, t, FALSE))
  <2> DEFINE said == AptChanged(h, t)
             foreseen == ForeseesPackages(h, t)
  <2>1. CASE t.names = {}
    BY <2>1, ForetellingRuns DEF AptRun
  <2>2. CASE t.names # {}
    <3>1. AptRun(h, t, TRUE) = Reports(foreseen) /\ AptRun(h, t, FALSE) = Manage(h, t, said)
      BY <2>2 DEF AptRun
    <3>2. ~foreseen => ~said
      BY <1>3, <2>2
    <3> HIDE DEF said, foreseen
    <3> QED BY <1>4, <3>1, <3>2, ForetellsReport
  <2> QED BY <2>1, <2>2
<1>6. Foretells(DnfRun(h, t, TRUE), DnfRun(h, t, FALSE))
  <2> DEFINE said == YumChanged(h, t)
             foreseen == ForeseesPackages(h, t)
  <2>1. CASE t.names = {}
    BY <2>1, ForetellingRuns DEF DnfRun
  <2>2. CASE t.names # {}
    <3>1. DnfRun(h, t, TRUE) = Reports(foreseen) /\ DnfRun(h, t, FALSE) = Manage(h, t, said)
      BY <2>2 DEF DnfRun
    <3>2. ~foreseen => ~said
      BY <1>3, <2>2
    <3> HIDE DEF said, foreseen
    <3> QED BY <1>4, <3>1, <3>2, ForetellsReport
  <2> QED BY <2>1, <2>2
<1>7. Foretells(ApkRun(h, t, TRUE), ApkRun(h, t, FALSE))
  <2>1. CASE t.names = {}
    BY <2>1, ForetellingRuns DEF ApkRun
  <2>2. CASE t.names # {}
    <3>1. ApkRun(h, t, TRUE) = Ran(Refresh(h, t), TRUE, FALSE)
      BY <2>2 DEF ApkRun
    <3>2. IsTrail(Refresh(h, t))
      BY ShortTrails DEF Refresh
    <3>3. Changed(Ran(Refresh(h, t), TRUE, FALSE)) = TRUE
      BY <3>2, RanChanged
    <3> QED BY <3>1, <3>3 DEF Foretells, Silent
  <2> QED BY <2>1, <2>2
<1> QED BY <1>1, <1>5, <1>6, <1>7 DEF PackageRun, YumRun

LEMMA ForetoldPip ==
  ASSUME NEW t, NEW h, Fits(t, h), t.module = "pip"
  PROVE  Foretells(PipRun(h, t, TRUE), PipRun(h, t, FALSE))
<1> DEFINE creates == t.venv /\ ~h.venv
           made == [h EXCEPT !.venv = TRUE]
           first == IF creates THEN <<Loud(made)>> ELSE <<>>
           g == IF creates THEN made ELSE h
           done == IF t.state = "absent" THEN WithVersions(g, t.names, "none")
                   ELSE WithVersions(g, PipWanted(h, t), IF t.version = "" THEN "new" ELSE t.version)
           said == creates \/ PipChanged(h, t)
           foreseen == PipForesees(h, t)
           whole == PipRun(h, t, FALSE)
<1>1. \/ whole = Ran(<<Loud(h)>>, FALSE, TRUE)
      \/ whole = Ran(first \o <<Loud(g)>>, TRUE, TRUE)
      \/ whole = Ran(first \o <<Loud(done)>>, said, FALSE)
  BY DEF PipRun
<1>2. IsTrail(first \o <<Loud(done)>>)
  <2>1. IsTrail(first) /\ IsTrail(<<Loud(done)>>)
    BY ShortTrails
  <2> HIDE DEF first, done
  <2> QED BY <2>1, TrailsJoin
<1>3. PipRun(h, t, TRUE) = Reports(foreseen)
  BY DEF PipRun
<1>4. ASSUME ~foreseen PROVE ~said
  <2>1. ~creates /\ t.state \in {"present", "absent"}
    BY <1>4 DEF PipForesees, Fits, FitsServices
  <2>2. CASE t.state = "absent"
    BY <1>4, <2>1, <2>2 DEF PipForesees, PipChanged
  <2>3. CASE t.state = "present"
    <3>1. \A p \in t.names : p \in Having(h, {"old", "new"}) /\ t.version \in {"", h.versions[p]}
      BY <1>4, <2>3 DEF PipForesees
    <3>2. \A p \in t.names : p \in DOMAIN h.versions /\ h.versions[p] # "none" /\ t.version \in {"", h.versions[p]}
      BY <3>1 DEF Having
    <3>3. PipWanted(h, t) = {}
      <4>1. CASE t.version # ""
        BY <2>3, <3>2, <4>1 DEF PipWanted
      <4>2. CASE t.version = ""
        <5>1. PipWanted(h, t) = t.names \cap Having(h, {"none"})
          BY <2>3, <4>2 DEF PipWanted
        <5> QED BY <3>2, <5>1 DEF Having
      <4> QED BY <4>1, <4>2
    <3> QED BY <2>1, <2>3, <3>3 DEF PipChanged
  <2> QED BY <2>1, <2>2, <2>3
<1>5. /\ Ran(<<Loud(h)>>, FALSE, TRUE).failed
      /\ Ran(first \o <<Loud(g)>>, TRUE, TRUE).failed
  BY DEF Ran
<1> DEFINE trail == first \o <<Loud(done)>>
<1> HIDE DEF said, foreseen, trail, whole, first, g
<1>6. Changed(Ran(trail, said, FALSE)) = said
  BY <1>2, RanChanged DEF trail
<1>7. ~foreseen => whole.failed \/ ~Changed(whole)
  BY <1>1, <1>4, <1>5, <1>6 DEF trail
<1> QED BY <1>3, <1>7, ForetellsReport DEF whole

LEMMA ForetoldServices ==
  ASSUME NEW t, NEW h, NEW seen, Fits(t, h), ~NotForetold(t, h), t.module \in {"service", "systemd"}
  PROVE  Foretells(Run(t, h, seen, TRUE), Run(t, h, seen, FALSE))
<1> DEFINE steps == Steps(h, t)
           hosts == [i \in DOMAIN steps |-> steps[i].host]
           marks == t.local \/ \E i \in DOMAIN steps : steps[i].marks
           fails == \E i \in DOMAIN steps : ~steps[i].ok
           foreseen == ServiceForesees(h, t)
           merged == Ran(Said(hosts), marks, fails)
           rest == IF steps = <<>> THEN Status(h, t) ELSE MergeModuleResults(steps, t)
           reload == IF t.reload THEN <<Quiet(h)>> ELSE <<>>
<1>1. ~t.local /\ ~StaysEnabled(t, h) /\ ~(t.state = "reloaded" /\ ~h.active)
  BY DEF NotForetold
<1>2. IsTrail(steps)
  BY ServiceSteps
<1>3. ASSUME ~foreseen PROVE \A s \in Elems(steps) : ~s.marks
  <2> DEFINE maskStep == MaskStep(h, t.masked = "yes")
             mask == IF t.masked = "" THEN <<>> ELSE <<maskStep>>
             h1 == IF mask = <<>> THEN h ELSE mask[1].host
             enableStep == EnableStep(h1, t.enabled = "yes")
             enable == IF t.enabled = "" THEN <<>> ELSE <<enableStep>>
             h2 == IF enable = <<>> THEN h1 ELSE enable[1].host
             stateStep == StateStep(h2, t.state)
             act == IF t.state = "" THEN <<>> ELSE <<stateStep>>
  <2>1. steps = mask \o enable \o act
    BY DEF Steps
  <2>2. mask = <<>> \/ (mask = <<maskStep>> /\ maskStep = AsItIs(h))
    BY <1>3 DEF ServiceForesees, MaskStep
  <2>3. AsItIs(h).host = h /\ AsItIs(h).marks = FALSE
    BY DEF AsItIs, Step
  <2>4. h1 = h
    BY <2>2, <2>3
  <2>5. enable = <<>> \/ (enable = <<enableStep>> /\ enableStep = AsItIs(h))
    <3>1. CASE t.enabled = ""
      BY <3>1
    <3>2. CASE t.enabled # ""
      <4>1. t.enabled \in {"yes", "no"}
        BY <3>2 DEF Fits, FitsServices
      <4>2. (EnabledText(h) = "enabled") <=> (t.enabled = "yes")
        BY <1>3, <3>2 DEF ServiceForesees
      <4>3. IsEnabled(h) = (t.enabled = "yes")
        BY <1>1, <4>1, <4>2 DEF EnabledText, IsEnabled, StaysEnabled
      <4>4. EnableStep(h, t.enabled = "yes") = AsItIs(h)
        BY <4>3 DEF EnableStep
      <4> QED BY <2>4, <3>2, <4>4
    <3> QED BY <3>1, <3>2
  <2>6. h2 = h
    BY <2>3, <2>4, <2>5
  <2>7. act = <<>> \/ (act = <<stateStep>> /\ stateStep = AsItIs(h))
    <3>1. CASE t.state = ""
      BY <3>1
    <3>2. CASE t.state # ""
      <4>1. (t.state = "started" /\ h.active) \/ (t.state = "stopped" /\ ~h.active)
        BY <1>1, <1>3, <3>2 DEF Fits, FitsServices, ServiceForesees
      <4>2. StateStep(h, t.state) = AsItIs(h)
        BY <4>1 DEF StateStep
      <4> QED BY <2>6, <3>2, <4>2
    <3> QED BY <3>1, <3>2
  <2> HIDE DEF maskStep, enableStep, stateStep, mask, enable, act, h1, h2
  <2>8. /\ IsTrail(mask) /\ Elems(mask) \subseteq {AsItIs(h)}
        /\ IsTrail(enable) /\ Elems(enable) \subseteq {AsItIs(h)}
        /\ IsTrail(act) /\ Elems(act) \subseteq {AsItIs(h)}
    BY <2>2, <2>5, <2>7, ElemsShort, ShortTrails
  <2>9. IsTrail(mask \o enable) /\ Elems(mask \o enable) \subseteq {AsItIs(h)}
    BY <2>8, ElemsJoin, TrailsJoin
  <2>10. Elems((mask \o enable) \o act) \subseteq {AsItIs(h)}
    BY <2>8, <2>9, ElemsJoin
  <2> QED BY <2>1, <2>3, <2>10
<1>4. IsTrail(Said(hosts))
  <2>1. PICK S : steps \in Seq(S)
    BY <1>2 DEF IsTrail
  <2> HIDE DEF steps
  <2>2. hosts \in Seq({s.host : s \in S})
    BY <2>1
  <2> HIDE DEF hosts
  <2>3. IsTrail(hosts)
    BY <2>2 DEF IsTrail
  <2> QED BY <2>3, SaidHushed
<1>5. ASSUME ~foreseen PROVE ~marks
  BY <1>1, <1>3, <1>5 DEF Elems
<1>6. MergeModuleResults(steps, t) = merged
  BY DEF MergeModuleResults
<1>7. PICK trail, c, f : rest = Ran(trail, c, f) /\ IsTrail(trail) /\ (~foreseen => ~c)
  <2> HIDE DEF steps, hosts, marks, fails, foreseen
  <2>1. CASE steps = <<>>
    <3>1. rest = Ran(<<>>, t.local, ~h.active)
      BY <2>1 DEF Status
    <3> QED BY <1>1, <3>1, ShortTrails
  <2>2. CASE steps # <<>>
    BY <1>4, <1>5, <1>6, <2>2
  <2> QED BY <2>1, <2>2
<1> HIDE DEF foreseen, rest, steps, marks, fails, hosts
<1>8. CASE t.module = "service"
  <2> DEFINE whole == After(reload, Ran(trail, c, f))
  <2>1. Run(t, h, seen, TRUE) = Reports(foreseen) /\ Run(t, h, seen, FALSE) = whole
    BY <1>7, <1>8 DEF Run, ServiceRun, foreseen, rest, steps
  <2>2. Changed(whole) = c
    <3>1. IsTrail(reload) /\ Len(reload) \in {0, 1}
      BY ShortTrails
    <3>2. Ran(trail, c, f).trail = trail /\ Ran(trail, c, f).changed[0] = c
      BY <1>7, RanChanged
    <3> HIDE DEF reload
    <3>3. Len(reload \o trail) = Len(reload) + Len(trail) /\ Len(trail) \in Nat
      BY <1>7, <3>1, TrailsJoin, TrailLength
    <3>4. Len(reload) + Len(trail) \in 0..(Len(reload) + Len(trail))
      BY <3>1, <3>3
    <3>5. whole.trail = reload \o trail /\ whole.changed = [n \in 0..(Len(reload) + Len(trail)) |-> c]
      BY <3>2 DEF After
    <3> QED BY <3>3, <3>4, <3>5 DEF Changed
  <2> HIDE DEF whole
  <2> QED BY <1>7, <2>1, <2>2, ForetellsReport
<1>9. CASE t.module = "systemd"
  <2>1. CASE t.reload
    <3>1. SystemdForesees(h, t) = TRUE
      BY <2>1 DEF SystemdForesees
    <3>2. Run(t, h, seen, TRUE) = Reports(TRUE)
      BY <1>9, <3>1 DEF Run, SystemdRun
    <3> QED BY <3>2, ForetellingRuns
  <2>2. CASE ~t.reload
    <3>1. SystemdForesees(h, t) = foreseen
      BY <2>2 DEF SystemdForesees, foreseen, ServiceForesees
    <3>2. <<>> \o steps = steps
      <4>1. PICK S : steps \in Seq(S)
        BY <1>2 DEF IsTrail
      <4> QED BY <4>1
    <3>3. Run(t, h, seen, TRUE) = Reports(foreseen) /\ Run(t, h, seen, FALSE) = rest
      BY <1>9, <2>2, <3>1, <3>2 DEF Run, SystemdRun, rest, steps
    <3>4. Changed(Ran(trail, c, f)) = c
      BY <1>7, RanChanged
    <3> QED BY <1>7, <3>3, <3>4, ForetellsReport
  <2> QED BY <2>1, <2>2
<1> QED BY <1>8, <1>9

LEMMA ForetoldTransfers ==
  ASSUME NEW t, NEW h, NEW seen, Fits(t, h), t.module \in {"get_url", "archive", "unarchive", "synchronize", "tempfile"}
  PROVE  Foretells(Run(t, h, seen, TRUE), Run(t, h, seen, FALSE))
<1>1. Foretells(GetURLRun(h, t, TRUE), GetURLRun(h, t, FALSE))
  <2> DEFINE foreseen == GetURLCheck(h, t)
  <2>1. GetURLRun(h, t, TRUE) = Reports(foreseen)
    BY DEF GetURLRun
  <2>2. ASSUME ~foreseen PROVE ~Changed(GetURLRun(h, t, FALSE))
    <3>1. GetURLRun(h, t, FALSE) = Ran(<<Loud(h)>>, FALSE, FALSE)
      BY <2>2 DEF GetURLCheck, GetURLRun, Script
    <3>2. IsTrail(<<Loud(h)>>)
      BY ShortTrails
    <3>3. Changed(Ran(<<Loud(h)>>, FALSE, FALSE)) = FALSE
      BY <3>2, RanChanged
    <3> QED BY <3>1, <3>3
  <2> HIDE DEF foreseen
  <2> QED BY <2>1, <2>2, ForetellsReport
<1>2. Foretells(SynchronizeRun(h, t, TRUE), SynchronizeRun(h, t, FALSE))
  <2> DEFINE sent == [h EXCEPT !.dest = [f \in DOMAIN @ |-> IF f \in Sent(h, t) THEN h.src[f] ELSE @[f]]]
             done == [sent EXCEPT !.dest = [f \in DOMAIN @ |-> IF f \in Deleted(h, t) THEN "none" ELSE @[f]]]
             said == RsyncChanged(h, t)
             whole == Ran(<<Loud(sent), Loud(done)>>, said, FALSE)
  <2>1. \/ SynchronizeRun(h, t, TRUE) = Refused
        \/ SynchronizeRun(h, t, TRUE) = Reports(said) /\ SynchronizeRun(h, t, FALSE) = whole
    BY DEF SynchronizeRun
  <2> HIDE DEF sent, done, said
  <2>2. Changed(whole) = said
    <3>1. IsTrail(<<Loud(sent), Loud(done)>>)
      BY ShortTrails
    <3> QED BY <3>1, RanChanged
  <2> HIDE DEF whole
  <2> QED BY <2>1, <2>2, ForetellingRuns, ForetellsReport
<1>3. Foretells(UnarchiveRun(h, t, TRUE), UnarchiveRun(h, t, FALSE))
  BY ForetellingRuns DEF UnarchiveRun
<1>4. Foretells(ArchiveRun(h, t, TRUE), ArchiveRun(h, t, FALSE))
  BY ForetellingRuns DEF ArchiveRun
<1>5. Foretells(TempfileRun(h, t, TRUE), TempfileRun(h, t, FALSE))
  BY ForetellingRuns DEF TempfileRun
<1> QED BY <1>1, <1>2, <1>3, <1>4, <1>5 DEF Run

LEMMA ForetellingModules ==
  ASSUME NEW t, NEW h, NEW seen, Fits(t, h), SupportsCheckMode(t.module), ~NotForetold(t, h)
  PROVE  Foretells(Run(t, h, seen, TRUE), Run(t, h, seen, FALSE))
<1>1. t.module \in Modules /\ t.module \notin {"git", "docker_container", "k8s", "command", "shell", "uri"}
  BY DEF Fits, SupportsCheckMode
<1>2. CASE t.module = "file"
  BY <1>2, ForetoldFile
<1>3. CASE t.module \in {"copy", "template", "fetch"}
  BY <1>3, ForetoldFiles
<1>4. CASE t.module = "copy_directory"
  BY <1>4, ForetoldDirectory DEF Run
<1>5. CASE t.module \in {"lineinfile", "blockinfile", "replace"}
  BY <1>5, ForetoldLines
<1>6. CASE t.module \in {"authorized_key", "known_hosts", "cron", "sysctl", "mount"}
  BY <1>6, ForetoldEntries
<1>7. CASE t.module \in {"hostname", "user", "group"}
  BY <1>7, ForetoldAccounts
<1>8. CASE t.module \in {"package", "pip"}
  BY <1>8, ForetoldPackage, ForetoldPip DEF Run
<1>9. CASE t.module \in {"service", "systemd"}
  BY <1>9, ForetoldServices
<1>10. CASE t.module \in {"get_url", "archive", "unarchive", "synchronize", "tempfile"}
  BY <1>10, ForetoldTransfers
<1>11. \/ t.module = "file" \/ t.module \in {"copy", "template", "fetch"} \/ t.module = "copy_directory"
       \/ t.module \in {"lineinfile", "blockinfile", "replace"}
       \/ t.module \in {"authorized_key", "known_hosts", "cron", "sysctl", "mount"}
       \/ t.module \in {"hostname", "user", "group"} \/ t.module \in {"package", "pip"}
       \/ t.module \in {"service", "systemd"}
       \/ t.module \in {"get_url", "archive", "unarchive", "synchronize", "tempfile"}
  BY <1>1 DEF Modules
<1> QED BY <1>2, <1>3, <1>4, <1>5, <1>6, <1>7, <1>8, <1>9, <1>10, <1>11

\* A dry run that says of itself that it changes nothing does change
\* nothing, whatever it was asked.
LEMMA SilentIsDry ==
  ASSUME NEW t, NEW h, NEW seen, Fits(t, h), SupportsCheckMode(t.module), Silent(Run(t, h, seen, TRUE))
  PROVE  Run(t, h, seen, TRUE).trail = <<>>
<1>1. CASE ~NotDry(t, h)
  BY <1>1, DryModules DEF Dry
<1>2. ASSUME NEW want PROVE ~Silent(OnlyPermissions(h, want)) \/ OnlyPermissions(h, want).trail = <<>>
  <2> DEFINE trail == SetFilePermissions(h, want, FALSE)
  <2>1. IsTrail(trail)
    BY PermissionTrails
  <2>2. CASE trail = <<>>
    BY <2>2 DEF OnlyPermissions, Ran
  <2>3. CASE trail # <<>>
    <3>1. OnlyPermissions(h, want) = Ran(trail, TRUE, FALSE)
      BY <2>3 DEF OnlyPermissions
    <3> HIDE DEF trail
    <3>2. Changed(Ran(trail, TRUE, FALSE)) = TRUE
      BY <2>1, RanChanged
    <3> QED BY <3>1, <3>2 DEF Silent
  <2> QED BY <2>2, <2>3
<1>3. /\ Unchanged.trail = <<>> /\ Refused.trail = <<>>
      /\ \A c : Reports(c).trail = <<>>
  BY DEF Unchanged, Refused, Reports, Ran
<1>4. CASE t.module = "copy"
  <2>1. ASSUME Silent(CopyLocal(h, t, TRUE)) PROVE CopyLocal(h, t, TRUE).trail = <<>>
    BY <1>2, <1>3, <2>1 DEF CopyLocal
  <2>2. ASSUME Silent(CopyContent(h, t, TRUE)) PROVE CopyContent(h, t, TRUE).trail = <<>>
    BY <1>2, <1>3, <2>2 DEF CopyContent
  <2>3. CopyRemote(h, t, TRUE).trail = <<>>
    BY <1>3 DEF CopyRemote
  <2> QED BY <1>4, <2>1, <2>2, <2>3 DEF Run, CopyRun, Fits, FitsFiles
<1>5. CASE t.module = "template"
  BY <1>2, <1>3, <1>5 DEF Run, TemplateRun, CopyLocal
<1>6. CASE t.module \in {"lineinfile", "blockinfile"}
  <2>1. ASSUME NEW did, Silent(EditRun(h, t, TRUE, did)) PROVE EditRun(h, t, TRUE, did).trail = <<>>
    BY <1>2, <1>3, <2>1 DEF EditRun
  <2> QED BY <1>6, <2>1 DEF Run, LineinfileRun, BlockinfileRun
<1>7. CASE t.module = "package"
  <2>1. ~Silent(OnlyRefresh(h, t)) \/ OnlyRefresh(h, t).trail = <<>>
    <3>1. CASE t.update
      <4>1. OnlyRefresh(h, t) = Ran(<<Loud(Fresh(h))>>, TRUE, FALSE)
        BY <3>1 DEF OnlyRefresh, Changes
      <4>2. IsTrail(<<Loud(Fresh(h))>>)
        BY ShortTrails
      <4>3. Changed(Ran(<<Loud(Fresh(h))>>, TRUE, FALSE)) = TRUE
        BY <4>2, RanChanged
      <4> QED BY <4>1, <4>3 DEF Silent
    <3>2. CASE ~t.update
      BY <1>3, <3>2 DEF OnlyRefresh
    <3> QED BY <3>1, <3>2
  <2>2. ASSUME Silent(AptRun(h, t, TRUE)) PROVE AptRun(h, t, TRUE).trail = <<>>
    BY <1>3, <2>1, <2>2 DEF AptRun
  <2>3. ASSUME Silent(DnfRun(h, t, TRUE)) PROVE DnfRun(h, t, TRUE).trail = <<>>
    BY <1>3, <2>1, <2>3 DEF DnfRun
  <2>4. ASSUME Silent(ApkRun(h, t, TRUE)) PROVE ApkRun(h, t, TRUE).trail = <<>>
    <3> DEFINE said == IF t.names = {} THEN t.update ELSE TRUE
    <3>1. ApkRun(h, t, TRUE) = Ran(Refresh(h, t), said, FALSE)
      BY DEF ApkRun
    <3>2. IsTrail(Refresh(h, t)) /\ (~t.update => Refresh(h, t) = <<>>)
      BY ShortTrails DEF Refresh
    <3>3. ~said => ~t.update
      OBVIOUS
    <3> HIDE DEF said
    <3>4. Changed(Ran(Refresh(h, t), said, FALSE)) = said
      BY <3>2, RanSays
    <3>5. Ran(Refresh(h, t), said, FALSE).trail = Refresh(h, t)
      BY RanTrail
    <3> QED BY <2>4, <3>1, <3>2, <3>3, <3>4, <3>5 DEF Silent
  <2>5. t.manager \in {"apt", "dnf", "yum", "apk"}
    BY <1>7 DEF Fits, FitsServices
  <2> QED BY <1>7, <2>2, <2>3, <2>4, <2>5 DEF Run, PackageRun, YumRun
<1>8. CASE NotDry(t, h)
  <2>1. t.module \in {"copy", "template", "lineinfile", "blockinfile", "package"}
    BY <1>8 DEF NotDry
  <2> QED BY <1>4, <1>5, <1>6, <1>7, <2>1
<1> QED BY <1>1, <1>8

-----------------------------------------------------------------------------
(* What runs leave behind: where a trail leads                             *)

\* The host at the end of a trail, and whether its last error is returned.
End(trail, h)  == IF trail = <<>> THEN h ELSE trail[Len(trail)].host
LoudEnd(trail) == trail = <<>> \/ trail[Len(trail)].loud
AllLoud(trail) == \A s \in Elems(trail) : s.loud

LEMMA TrailEmpty ==
  ASSUME NEW s, IsTrail(s)
  PROVE  s = <<>> <=> Len(s) = 0
BY DEF IsTrail

LEMMA TrailLast ==
  ASSUME NEW a, NEW b, IsTrail(a), IsTrail(b)
  PROVE  IF b = <<>> THEN a \o b = a ELSE a \o b # <<>> /\ (a \o b)[Len(a \o b)] = b[Len(b)]
<1>1. PICK A : a \in Seq(A)
  BY DEF IsTrail
<1>2. PICK B : b \in Seq(B)
  BY DEF IsTrail
<1>3. a \in Seq(A \cup B) /\ b \in Seq(A \cup B)
  BY <1>1, <1>2
<1> QED BY <1>3

LEMMA EndJoin ==
  ASSUME NEW a, NEW b, NEW h, IsTrail(a), IsTrail(b)
  PROVE  /\ IsTrail(a \o b)
         /\ End(a \o b, h) = End(b, End(a, h))
         /\ LoudEnd(b) /\ (b = <<>> => LoudEnd(a)) => LoudEnd(a \o b)
BY TrailsJoin, TrailLast DEF End, LoudEnd

LEMMA EndShort ==
  ASSUME NEW h
  PROVE  /\ End(<<>>, h) = h /\ LoudEnd(<<>>)
         /\ \A a : End(<<a>>, h) = a.host /\ (LoudEnd(<<a>>) <=> a.loud)
         /\ \A a, b : End(<<a, b>>, h) = b.host /\ (LoudEnd(<<a, b>>) <=> b.loud)
         /\ \A a, b, c : End(<<a, b, c>>, h) = c.host /\ (LoudEnd(<<a, b, c>>) <=> c.loud)
<1>1. End(<<>>, h) = h /\ LoudEnd(<<>>)
  BY DEF End, LoudEnd
<1>2. ASSUME NEW a PROVE End(<<a>>, h) = a.host /\ (LoudEnd(<<a>>) <=> a.loud)
  <2>1. <<a>> # <<>> /\ <<a>>[Len(<<a>>)] = a
    BY ShortTrails
  <2> QED BY <2>1 DEF End, LoudEnd
<1>3. ASSUME NEW a, NEW b PROVE End(<<a, b>>, h) = b.host /\ (LoudEnd(<<a, b>>) <=> b.loud)
  <2>1. <<a, b>> # <<>> /\ <<a, b>>[Len(<<a, b>>)] = b
    BY ShortTrails
  <2> QED BY <2>1 DEF End, LoudEnd
<1>4. ASSUME NEW a, NEW b, NEW c PROVE End(<<a, b, c>>, h) = c.host /\ (LoudEnd(<<a, b, c>>) <=> c.loud)
  <2>1. <<a, b, c>> # <<>> /\ <<a, b, c>>[Len(<<a, b, c>>)] = c
    BY ShortTrails
  <2> QED BY <2>1 DEF End, LoudEnd
<1> QED BY <1>1, <1>2, <1>3, <1>4

LEMMA ElemsTwo ==
  ASSUME NEW a, NEW b
  PROVE  Elems(<<a, b>>) = {a, b}
<1>1. DOMAIN <<a, b>> = {1, 2}
  OBVIOUS
<1> QED BY <1>1 DEF Elems

LEMMA ElemsThree ==
  ASSUME NEW a, NEW b, NEW c
  PROVE  Elems(<<a, b, c>>) = {a, b, c}
<1>1. DOMAIN <<a, b, c>> = {1, 2, 3}
  OBVIOUS
<1> QED BY <1>1 DEF Elems

LEMMA LoudQuiet == \A h : Loud(h).host = h /\ Loud(h).loud = TRUE /\ Quiet(h).host = h /\ Quiet(h).loud = FALSE
BY DEF Loud, Quiet

\* The same hosts in a trail whose errors are dropped.
LEMMA ElemsHushed ==
  ASSUME NEW s, IsTrail(s), NEW h
  PROVE  /\ \A x \in Elems(Hushed(s)) : \E y \in Elems(s) : x = Quiet(y.host)
         /\ End(Hushed(s), h) = End(s, h)
<1>1. IsTrail(Hushed(s)) /\ Len(Hushed(s)) = Len(s) /\ DOMAIN s = 1..Len(s) /\ Len(s) \in Nat
  BY SaidHushed, TrailLength
<1>2. \A i \in DOMAIN s : Hushed(s)[i] = Quiet(s[i].host)
  BY DEF Hushed
<1>3. DOMAIN Hushed(s) = DOMAIN s
  BY DEF Hushed
<1>4. Hushed(s) = <<>> <=> s = <<>>
  BY <1>1, TrailEmpty
<1>5. s # <<>> => Len(s) \in DOMAIN s
  BY <1>1, TrailEmpty
<1> QED BY <1>1, <1>2, <1>3, <1>4, <1>5, LoudQuiet DEF Elems, End

LEMMA ElemsSaid ==
  ASSUME NEW s, IsTrail(s), NEW h
  PROVE  /\ \A x \in Elems(Said(s)) : \E y \in Elems(s) : x = Loud(y)
         /\ End(Said(s), h) = IF s = <<>> THEN h ELSE s[Len(s)]
         /\ LoudEnd(Said(s))
<1>1. IsTrail(Said(s)) /\ Len(Said(s)) = Len(s) /\ DOMAIN s = 1..Len(s) /\ Len(s) \in Nat
  BY SaidHushed, TrailLength
<1>2. \A i \in DOMAIN s : Said(s)[i] = Loud(s[i])
  BY DEF Said
<1>3. DOMAIN Said(s) = DOMAIN s
  BY DEF Said
<1>4. Said(s) = <<>> <=> s = <<>>
  BY <1>1, TrailEmpty
<1>5. s # <<>> => Len(s) \in DOMAIN s
  BY <1>1, TrailEmpty
<1> QED BY <1>1, <1>2, <1>3, <1>4, <1>5, LoudQuiet DEF Elems, End, LoudEnd

\* What holds of every host that a trail leaves holds of the host after any
\* number of its commands.
LEMMA OnTheWay ==
  ASSUME NEW run, NEW h, NEW n, IsTrail(run.trail), n = Len(run.trail) \/ n \in 0..(Len(run.trail) - 1)
  PROVE  /\ n = 0 \/ run.trail[n] \in Elems(run.trail)
         /\ HostAfter(run, h, n) = (IF n = 0 THEN h ELSE run.trail[n].host)
         /\ HostAfter(run, h, Len(run.trail)) = End(run.trail, h)
<1>1. Len(run.trail) \in Nat /\ DOMAIN run.trail = 1..Len(run.trail)
  BY TrailLength
<1>2. n = 0 \/ n \in DOMAIN run.trail
  BY <1>1
<1> QED BY <1>1, <1>2, TrailEmpty DEF Elems, HostAfter, End

-----------------------------------------------------------------------------
(* Files: the hosts that the commands of a run leave                       *)

\* Two hosts that differ at most in permissions and in what no promise names.
Same(g, h) == /\ g.node.kind = h.node.kind /\ g.node.text = h.node.text /\ g.dir = h.dir
              /\ g.src.kind = h.src.kind /\ g.src.text = h.src.text /\ g.got = h.got

LEMMA SameAgain ==
  /\ \A h : Same(h, h)
  /\ \A f, g, h : Same(f, g) /\ Same(g, h) => Same(f, h)
BY DEF Same

LEMMA PermHost ==
  ASSUME NEW h, HasFiles(h), NEW mode, NEW owner
  PROVE  LET g == WithPerm(h, Perm(mode, owner))
         IN  /\ HasFiles(g) /\ Same(g, h)
             /\ RealPerm(g) = (IF Exists(h) THEN Perm(mode, owner) ELSE RealPerm(h))
<1> DEFINE g == WithPerm(h, Perm(mode, owner))
           p == Perm(mode, owner)
<1>1. CASE h.node.kind \in {"link", "hard"}
  <2>1. g = [h EXCEPT !.src.perm = p]
    BY <1>1 DEF WithPerm
  <2>2. "src" \in DOMAIN h /\ h.src = Node(h.src.kind, h.src.text, Perm(h.src.perm.mode, h.src.perm.owner))
    BY DEF HasFiles, IsNode
  <2>3. DOMAIN g = DOMAIN h /\ g.src = Node(h.src.kind, h.src.text, p) /\ \A x \in DOMAIN h \ {"src"} : g[x] = h[x]
    BY <2>1, <2>2 DEF Node
  <2>4. g.src.kind = h.src.kind /\ g.src.text = h.src.text /\ g.src.perm = p
    BY <2>3 DEF Node
  <2>5. p.mode = mode /\ p.owner = owner
    BY DEF Perm
  <2>6. g.node = h.node /\ g.dir = h.dir /\ g.got = h.got
    BY <2>3 DEF HasFiles
  <2>7. IsNode(g.src)
    BY <2>3, <2>4, <2>5 DEF IsNode
  <2> HIDE DEF g, p
  <2>8. HasFiles(g) /\ Same(g, h)
    BY <2>3, <2>4, <2>6, <2>7 DEF HasFiles, Same, Exists
  <2> QED BY <1>1, <2>4, <2>6, <2>8 DEF RealPerm, Exists, g, p
<1>2. CASE h.node.kind = "absent"
  <2>1. g = h
    BY <1>2 DEF WithPerm
  <2> QED BY <1>2, <2>1, SameAgain DEF Exists
<1>3. CASE h.node.kind \notin {"link", "hard", "absent"}
  <2>1. g = [h EXCEPT !.node.perm = p]
    BY <1>3 DEF WithPerm
  <2>2. "node" \in DOMAIN h /\ h.node = Node(h.node.kind, h.node.text, Perm(h.node.perm.mode, h.node.perm.owner))
    BY DEF HasFiles, IsNode
  <2>3. DOMAIN g = DOMAIN h /\ g.node = Node(h.node.kind, h.node.text, p) /\ \A x \in DOMAIN h \ {"node"} : g[x] = h[x]
    BY <2>1, <2>2 DEF Node
  <2>4. g.node.kind = h.node.kind /\ g.node.text = h.node.text /\ g.node.perm = p
    BY <2>3 DEF Node
  <2>5. p.mode = mode /\ p.owner = owner
    BY DEF Perm
  <2>6. g.src = h.src /\ g.dir = h.dir /\ g.got = h.got
    BY <2>3 DEF HasFiles
  <2>7. IsNode(g.node)
    BY <2>3, <2>4, <2>5 DEF IsNode
  <2> HIDE DEF g, p
  <2>8. HasFiles(g) /\ Same(g, h)
    BY <1>3, <2>3, <2>4, <2>6, <2>7 DEF HasFiles, Same, Exists
  <2> QED BY <1>3, <2>4, <2>6, <2>8 DEF RealPerm, Exists, g, p
<1> QED BY <1>1, <1>2, <1>3

LEMMA RealPermIs ==
  ASSUME NEW h, HasFiles(h)
  PROVE  RealPerm(h) = Perm(RealPerm(h).mode, RealPerm(h).owner)
<1>1. h.src.perm = Perm(h.src.perm.mode, h.src.perm.owner) /\ h.node.perm = Perm(h.node.perm.mode, h.node.perm.owner)
  BY DEF HasFiles, IsNode, Node
<1> QED BY <1>1 DEF RealPerm

LEMMA ChmodHost ==
  ASSUME NEW h, HasFiles(h), NEW mode
  PROVE  LET g == Chmod(h, mode)
         IN  HasFiles(g) /\ Same(g, h) /\ (Exists(h) => RealPerm(g) = Perm(mode, RealPerm(h).owner))
<1>1. [RealPerm(h) EXCEPT !.mode = mode] = Perm(mode, RealPerm(h).owner)
  BY RealPermIs DEF Perm
<1> QED BY <1>1, PermHost DEF Chmod

LEMMA ChownHost ==
  ASSUME NEW h, HasFiles(h), NEW owner
  PROVE  LET g == Chown(h, owner)
         IN  /\ HasFiles(g) /\ Same(g, h)
             /\ Exists(h) /\ owner \in Owners => RealPerm(g) = Perm(RealPerm(h).mode, owner)
<1>1. [RealPerm(h) EXCEPT !.owner = owner] = Perm(RealPerm(h).mode, owner)
  BY RealPermIs DEF Perm
<1> QED BY <1>1, PermHost, SameAgain DEF Chown

\* The hosts that setting permissions leaves, and the one it ends with.
LEMMA PermissionHosts ==
  ASSUME NEW h, HasFiles(h), NEW want, NEW recurse
  PROVE  LET trail == SetFilePermissions(h, want, recurse)
         IN  /\ IsTrail(trail) /\ LoudEnd(trail)
             /\ \A s \in Elems(trail) : HasFiles(s.host) /\ Same(s.host, h)
             /\ HasFiles(End(trail, h)) /\ Same(End(trail, h), h)
             /\ Exists(h) /\ want.owner \in Owners \cup {""}
                  /\ (h.node.kind = "link" /\ ~recurse => want.mode # LinkPerm.mode /\ want.owner # LinkPerm.owner)
                => Permitted(End(trail, h), want)
<1> DEFINE known == Exists(h) /\ ~recurse
           chmod == want.mode # "" /\ (known => want.mode # Shown(h).mode)
           chown == want.owner # "" /\ (known => want.owner # Shown(h).owner)
           moded == Chmod(h, want.mode)
           g == IF chmod THEN moded ELSE h
           owned == Chown(g, want.owner)
           first == IF chmod THEN <<moded>> ELSE <<>>
           then == IF chown THEN <<owned>> ELSE <<>>
           trail == SetFilePermissions(h, want, recurse)
<1>1. trail = Said(first \o then)
  <2>1. chmod => first[1] = moded
    OBVIOUS
  <2> QED BY <2>1 DEF SetFilePermissions
<1>2. HasFiles(moded) /\ Same(moded, h) /\ (Exists(h) => RealPerm(moded) = Perm(want.mode, RealPerm(h).owner))
  BY ChmodHost
<1> HIDE DEF moded
<1>3. HasFiles(g) /\ Same(g, h)
  BY <1>2, SameAgain
<1>4. HasFiles(owned) /\ Same(owned, g) /\ (Exists(g) /\ want.owner \in Owners => RealPerm(owned) = Perm(RealPerm(g).mode, want.owner))
  <2> HIDE DEF g
  <2> QED BY <1>3, ChownHost
<1>5. Same(owned, h)
  BY <1>3, <1>4, SameAgain
<1>6. IsTrail(first) /\ IsTrail(then) /\ IsTrail(first \o then)
  BY ShortTrails, TrailsJoin
<1> DEFINE goal == IF chown THEN owned ELSE g
<1>7. Elems(first \o then) \subseteq {moded, owned} /\ (chmod \/ g = h)
  <2>1. Elems(first \o then) = Elems(first) \cup Elems(then)
    BY <1>6, ElemsJoin
  <2>2. Elems(first) \subseteq {moded} /\ Elems(then) \subseteq {owned}
    <3> HIDE DEF owned
    <3> QED BY ElemsShort
  <2> HIDE DEF first, then, owned
  <2> QED BY <2>1, <2>2
<1>8. (chown \/ chmod \/ goal = h) /\ IF first \o then = <<>> THEN ~chown /\ ~chmod ELSE (first \o then)[Len(first \o then)] = goal
  <2>1. CASE chown
    <3>1. then = <<owned>> /\ then # <<>> /\ then[Len(then)] = owned
      BY <2>1, ShortTrails
    <3> QED BY <2>1, <3>1, <1>6, TrailLast
  <2>2. CASE ~chown
    <3>1. first \o then = first
      BY <2>2, <1>6, TrailLast
    <3>2. chmod => first # <<>> /\ first[Len(first)] = moded
      BY ShortTrails
    <3> QED BY <2>2, <3>1, <3>2
  <2> QED BY <2>1, <2>2
<1>9. End(trail, h) = goal /\ LoudEnd(trail) /\ IsTrail(trail)
  BY <1>1, <1>6, <1>8, ElemsSaid, SaidHushed
<1>10. \A s \in Elems(trail) : s.host \in {moded, owned}
  <2> HIDE DEF first, then, owned, trail
  <2> QED BY <1>1, <1>6, <1>7, ElemsSaid, LoudQuiet
<1>11. HasFiles(goal) /\ Same(goal, h)
  BY <1>3, <1>4, <1>5
<1>12. ASSUME Exists(h), want.owner \in Owners \cup {""},
              h.node.kind = "link" /\ ~recurse => want.mode # LinkPerm.mode /\ want.owner # LinkPerm.owner
       PROVE  Permitted(goal, want)
  <2>1. Exists(g)
    BY <1>3, <1>12 DEF Exists, Same
  <2>2. ~chmod => want.mode \in {"", RealPerm(h).mode}
    BY <1>12 DEF Shown, RealPerm
  <2>3. ~chown => want.owner \in {"", RealPerm(h).owner}
    BY <1>12 DEF Shown, RealPerm
  <2>4. \A m, o : Perm(m, o).mode = m /\ Perm(m, o).owner = o
    BY DEF Perm
  <2>5. want.mode \in {"", RealPerm(g).mode} /\ (RealPerm(g).owner = RealPerm(h).owner)
    <3>1. CASE chmod
      <4>1. g = moded /\ RealPerm(moded) = Perm(want.mode, RealPerm(h).owner)
        BY <3>1, <1>2, <1>12
      <4>2. Perm(want.mode, RealPerm(h).owner).mode = want.mode /\ Perm(want.mode, RealPerm(h).owner).owner = RealPerm(h).owner
        BY <2>4
      <4> HIDE DEF g
      <4> QED BY <4>1, <4>2
    <3>2. CASE ~chmod
      <4>1. g = h
        BY <3>2
      <4> HIDE DEF g
      <4> QED BY <3>2, <4>1, <2>2
    <3> QED BY <3>1, <3>2
  <2>6. chown => want.owner \in Owners
    BY <1>12
  <2> HIDE DEF g, owned, chown
  <2>7. CASE chown
    <3>1. goal = owned /\ RealPerm(owned) = Perm(RealPerm(g).mode, want.owner)
      BY <2>7, <1>4, <2>1, <2>6
    <3>2. Perm(RealPerm(g).mode, want.owner).mode = RealPerm(g).mode /\ Perm(RealPerm(g).mode, want.owner).owner = want.owner
      BY <2>4
    <3> HIDE DEF goal
    <3> QED BY <3>1, <3>2, <2>5 DEF Permitted
  <2>8. CASE ~chown
    <3>1. goal = g
      BY <2>8
    <3> HIDE DEF goal
    <3> QED BY <3>1, <2>3, <2>5, <2>8 DEF Permitted
  <2> QED BY <2>7, <2>8
<1> HIDE DEF goal, trail, moded, owned
<1> QED BY <1>2, <1>4, <1>5, <1>9, <1>10, <1>11, <1>12 DEF trail

\* What a task relies on of the files of a host.
FileFit(t, g) == /\ HasFiles(g) /\ (t.module = "file" \/ g.node.kind # "dir")
                 /\ t.module = "fetch" \/ (t.module = "copy" /\ t.from = "remote") => g.node.kind \in {"file", "absent"}
                 /\ t.module \in LineModules => IsList(g.node.text.lines)

LEMMA FileFits ==
  ASSUME NEW t, NEW h, Fits(t, h), t.module \in FileModules \cup LineModules
  PROVE  FileFit(t, h) /\ \A g : FileFit(t, g) => Fits(t, g)
<1>1. t.module \notin ReadsBeforeItWrites /\ t.module \notin {"hostname", "user", "group", "package", "pip", "service", "systemd"}
      /\ t.module \notin {"git", "archive", "unarchive", "synchronize", "tempfile", "docker_container", "k8s", "command", "shell"}
  BY DEF FileModules, LineModules, ReadsBeforeItWrites
<1>2. FileFit(t, h)
  BY DEF Fits, FitsFiles, FileFit
<1>3. \A g : FitsEntries(t, g) /\ FitsAccounts(t, g) /\ FitsServices(t, g) /\ FitsTransfers(t, g)
  BY <1>1 DEF FitsEntries, FitsAccounts, FitsServices, FitsTransfers, ReadsBeforeItWrites
<1>4. ASSUME NEW g, FileFit(t, g) PROVE FitsFiles(t, g)
  BY <1>4 DEF Fits, FitsFiles, FileFit
<1> QED BY <1>2, <1>3, <1>4 DEF Fits

\* Hosts alike but for permissions fit alike.
LEMMA FitSame ==
  ASSUME NEW t, NEW h, NEW g, FileFit(t, h), HasFiles(g), Same(g, h)
  PROVE  FileFit(t, g)
BY DEF FileFit, Same

\* What the commands that do not touch the path itself leave alone.
LEMMA AsideHosts ==
  ASSUME NEW h, HasFiles(h), NEW text, NEW asked
  PROVE  /\ HasFiles(BackupIf(h, asked)) /\ BackupIf(h, asked).node = h.node /\ Same(BackupIf(h, asked), h)
         /\ HasFiles(MakeDir(h)) /\ MakeDir(h).node = h.node /\ MakeDir(h).dir = TRUE /\ MakeDir(h).src = h.src
         /\ HasFiles(WriteTmp(h, text)) /\ WriteTmp(h, text).node = h.node /\ Same(WriteTmp(h, text), h)
         /\ WriteTmp(h, text).tmp = Node("file", text, Default)
         /\ HasFiles(DropTmp(h)) /\ DropTmp(h).node = h.node /\ Same(DropTmp(h), h)
<1>1. ASSUME NEW x \in {"bak", "tmp"}, NEW v, NEW g, g = [h EXCEPT ![x] = v]
      PROVE  HasFiles(g) /\ g.node = h.node /\ Same(g, h) /\ g[x] = v
  <2>1. DOMAIN g = DOMAIN h /\ g.node = h.node /\ g.src = h.src /\ g.dir = h.dir /\ g.got = h.got /\ g[x] = v
    BY <1>1 DEF HasFiles
  <2> QED BY <2>1 DEF HasFiles, Same, Exists
<1>2. HasFiles(Backup(h)) /\ Backup(h).node = h.node /\ Same(Backup(h), h)
  BY <1>1 DEF Backup
<1>3. HasFiles(BackupIf(h, asked)) /\ BackupIf(h, asked).node = h.node /\ Same(BackupIf(h, asked), h)
  BY <1>2, SameAgain DEF BackupIf
<1>4. HasFiles(WriteTmp(h, text)) /\ WriteTmp(h, text).node = h.node /\ Same(WriteTmp(h, text), h)
      /\ WriteTmp(h, text).tmp = Node("file", text, Default)
  BY <1>1 DEF WriteTmp
<1>5. HasFiles(DropTmp(h)) /\ DropTmp(h).node = h.node /\ Same(DropTmp(h), h)
  BY <1>1 DEF DropTmp
<1>6. HasFiles(MakeDir(h)) /\ MakeDir(h).node = h.node /\ MakeDir(h).dir = TRUE /\ MakeDir(h).src = h.src
  <2> DEFINE g == MakeDir(h)
  <2>1. DOMAIN g = DOMAIN h /\ g.node = h.node /\ g.src = h.src /\ g.dir = TRUE
    BY DEF HasFiles, MakeDir
  <2> HIDE DEF g
  <2>2. HasFiles(g)
    BY <2>1 DEF HasFiles, Exists
  <2> QED BY <2>1, <2>2 DEF g
<1> QED BY <1>3, <1>4, <1>5, <1>6

LEMMA NodeParts ==
  ASSUME NEW kind, NEW text, NEW mode, NEW owner
  PROVE  LET n == Node(kind, text, Perm(mode, owner))
         IN  IsNode(n) /\ n.kind = kind /\ n.text = text /\ n.perm = Perm(mode, owner)
<1> DEFINE p == Perm(mode, owner)
           n == Node(kind, text, p)
<1>1. p.mode = mode /\ p.owner = owner
  BY DEF Perm
<1> HIDE DEF p
<1>2. n.kind = kind /\ n.text = text /\ n.perm = p
  BY DEF Node
<1> HIDE DEF n
<1>3. n = Node(n.kind, n.text, Perm(n.perm.mode, n.perm.owner))
  BY <1>1, <1>2 DEF n, p
<1> QED BY <1>2, <1>3 DEF IsNode, n, p

\* A host with another node at the path.
LEMMA NodeHost ==
  ASSUME NEW h, NEW g, HasFiles(h), DOMAIN g = DOMAIN h, IsNode(g.node), g.node.kind # "absent" => g.dir,
         g.node.kind = "absent" => g.node = Absent, g.dir \in BOOLEAN, g.src = h.src
  PROVE  HasFiles(g)
BY DEF HasFiles, Exists

LEMMA WriteHost ==
  ASSUME NEW h, HasFiles(h), NEW text
  PROVE  LET g == Write(h, text)
         IN  /\ HasFiles(g) /\ g.dir = h.dir /\ g.src = h.src /\ g.got = h.got
             /\ h.dir => /\ g.node.text = text /\ Exists(g)
                         /\ g.node.kind = IF Exists(h) THEN h.node.kind ELSE "file"
             /\ ~h.dir => g = h
             /\ DOMAIN g = DOMAIN h
<1> DEFINE g == Write(h, text)
           fresh == Node("file", text, Default)
           old == [h.node EXCEPT !.text = text]
<1>1. CASE ~h.dir
  BY <1>1 DEF Write
<1>2. CASE h.dir
  <2> DEFINE new == IF Exists(h) THEN old ELSE fresh
  <2>1. g = [h EXCEPT !.node = new]
    BY <1>2 DEF Write
  <2>2. h.node = Node(h.node.kind, h.node.text, Perm(h.node.perm.mode, h.node.perm.owner))
    BY DEF HasFiles, IsNode
  <2>3. old = Node(h.node.kind, text, Perm(h.node.perm.mode, h.node.perm.owner))
    BY <2>2 DEF Node
  <2>4. IsNode(old) /\ old.text = text /\ old.kind = h.node.kind
    BY <2>3, NodeParts
  <2>5. IsNode(fresh) /\ fresh.text = text /\ fresh.kind = "file"
    BY NodeParts DEF Default
  <2> HIDE DEF old, fresh
  <2>6. IsNode(new) /\ new.text = text /\ new.kind = (IF Exists(h) THEN h.node.kind ELSE "file") /\ new.kind # "absent"
    BY <2>4, <2>5 DEF Exists
  <2> HIDE DEF new
  <2>7. DOMAIN g = DOMAIN h /\ g.node = new /\ g.dir = h.dir /\ g.src = h.src /\ g.got = h.got
    BY <2>1 DEF HasFiles
  <2>8. h.dir \in BOOLEAN
    BY DEF HasFiles
  <2> HIDE DEF g
  <2>9. HasFiles(g)
    BY <1>2, <2>6, <2>7, <2>8, NodeHost
  <2> QED BY <1>2, <2>6, <2>7, <2>9 DEF Exists, g
<1> QED BY <1>1, <1>2

LEMMA MoveHost ==
  ASSUME NEW h, HasFiles(h), h.dir, IsNode(h.tmp), h.tmp.kind # "absent"
  PROVE  LET g == MoveTmp(h) IN HasFiles(g) /\ g.node = h.tmp /\ g.src = h.src /\ g.dir = h.dir
<1> DEFINE g == MoveTmp(h)
<1>1. g = [h EXCEPT !.node = h.tmp, !.tmp = Absent]
  BY DEF MoveTmp
<1>2. DOMAIN g = DOMAIN h /\ g.node = h.tmp /\ g.dir = h.dir /\ g.src = h.src
  BY <1>1 DEF HasFiles
<1>3. h.dir \in BOOLEAN
  BY DEF HasFiles
<1> HIDE DEF g
<1> QED BY <1>2, <1>3, NodeHost DEF g

-----------------------------------------------------------------------------
(* What was asked for is done                                              *)

\* A run that does not fail leaves what its task promises, and so does one
\* that was cut where no error was still to come.
Done(t, r, h) ==
  ~r.failed => /\ Promised(t, End(r.trail, h))
               /\ ~CutUnseen(t) => \A n \in 0..(Len(r.trail) - 1) :
                    (\A i \in (n + 1)..Len(r.trail) : ~r.trail[i].loud) => Promised(t, HostAfter(r, h, n))

LEMMA PromisedBy ==
  ASSUME NEW t, NEW h
  PROVE  /\ t.module = "file" => Promised(t, h) = FilePromised(t, h)
         /\ t.module \in {"copy", "template"} => Promised(t, h) = CopyPromised(t, h)
         /\ t.module \in {"lineinfile", "blockinfile", "replace"} => Promised(t, h) = LinesPromised(t, h)
         /\ t.module \in ReadsBeforeItWrites => Promised(t, h) = EntriesPromised(t, h)
         /\ t.module \in {"hostname", "user", "group"} => Promised(t, h) = AccountPromised(t, h)
         /\ t.module \in {"package", "pip", "service", "systemd"} => Promised(t, h) = ServicePromised(t, h)
         /\ t.module \in {"fetch", "copy_directory", "git", "get_url", "archive", "unarchive", "synchronize", "tempfile",
                          "docker_container", "k8s", "command", "shell", "uri"} => Promised(t, h) = TransferPromised(t, h)
BY DEF Promised, ReadsBeforeItWrites

LEMMA DoneLoud ==
  ASSUME NEW t, NEW r, NEW h, IsTrail(r.trail),
         ~r.failed => Promised(t, End(r.trail, h)) /\ (CutUnseen(t) \/ LoudEnd(r.trail))
  PROVE  Done(t, r, h)
<1> SUFFICES ASSUME ~r.failed, ~CutUnseen(t), NEW n \in 0..(Len(r.trail) - 1)
             PROVE  ~\A i \in (n + 1)..Len(r.trail) : ~r.trail[i].loud
  BY DEF Done
<1>1. Len(r.trail) \in Nat
  BY TrailLength
<1>2. r.trail # <<>> /\ Len(r.trail) \in (n + 1)..Len(r.trail)
  BY <1>1, TrailEmpty
<1> QED BY <1>2 DEF LoudEnd

LEMMA DoneFailing ==
  ASSUME NEW t, NEW r, NEW h, r.failed
  PROVE  Done(t, r, h)
BY DEF Done

LEMMA DoneIdle ==
  ASSUME NEW t, NEW h, NEW c, NEW f, f \/ Promised(t, h)
  PROVE  Done(t, Ran(<<>>, c, f), h)
<1>1. Ran(<<>>, c, f).trail = <<>> /\ Ran(<<>>, c, f).failed = f /\ IsTrail(<<>>)
  BY ShortTrails DEF Ran
<1>2. End(<<>>, h) = h /\ LoudEnd(<<>>)
  BY EndShort
<1> QED BY <1>1, <1>2, DoneLoud

\* Every host of a trail is one that the task fits.
Passes(t, trail) == IsTrail(trail) /\ \A s \in Elems(trail) : FileFit(t, s.host)

LEMMA PassesOne ==
  ASSUME NEW t, NEW s, FileFit(t, s.host)
  PROVE  Passes(t, <<s>>)
BY ShortTrails, ElemsShort DEF Passes

LEMMA PassesNone ==
  ASSUME NEW t
  PROVE  Passes(t, <<>>)
BY ShortTrails, ElemsShort DEF Passes

LEMMA PassesJoin ==
  ASSUME NEW t, NEW a, NEW b, Passes(t, a), Passes(t, b)
  PROVE  Passes(t, a \o b)
BY TrailsJoin, ElemsJoin DEF Passes

LEMMA PassesHushed ==
  ASSUME NEW t, NEW a, Passes(t, a)
  PROVE  Passes(t, Hushed(a))
BY SaidHushed, ElemsHushed, LoudQuiet DEF Passes

LEMMA PassesTwo ==
  ASSUME NEW t, NEW a, NEW b, FileFit(t, a.host), FileFit(t, b.host)
  PROVE  Passes(t, <<a, b>>)
BY ShortTrails, ElemsTwo DEF Passes

\* Nothing is done when nothing is asked.
LEMMA NothingToSet ==
  ASSUME NEW h, NEW recurse
  PROVE  /\ SetFilePermissions(h, AsIs, recurse) = <<>>
         /\ Finish(h, AsIs) = <<>> /\ Hushed(<<>>) = <<>>
<1>1. AsIs.mode = "" /\ AsIs.owner = ""
  BY DEF AsIs, Perm
<1> HIDE DEF AsIs
<1>2. Said(<<>>) = <<>> /\ Hushed(<<>>) = <<>>
  BY SaidHushed, TrailEmpty, ShortTrails
<1>3. <<>> \o <<>> = <<>>
  OBVIOUS
<1>4. \A r : SetFilePermissions(h, AsIs, r) = Said(<<>> \o <<>>)
  BY <1>1 DEF SetFilePermissions
<1> QED BY <1>2, <1>3, <1>4 DEF Finish

\* The permissions at the end of a run.
LEMMA Finishing ==
  ASSUME NEW t, NEW g, FileFit(t, g), NEW want, NEW recurse
  PROVE  LET trail == SetFilePermissions(g, want, recurse)
         IN  /\ Passes(t, trail) /\ Passes(t, Hushed(trail)) /\ LoudEnd(trail)
             /\ End(Hushed(trail), g) = End(trail, g)
             /\ FileFit(t, End(trail, g)) /\ Same(End(trail, g), g)
             /\ Exists(g) /\ want.owner \in Owners \cup {""}
                  /\ (g.node.kind = "link" => want.mode # LinkPerm.mode /\ want.owner # LinkPerm.owner)
                => Permitted(End(trail, g), want)
<1> DEFINE trail == SetFilePermissions(g, want, recurse)
<1>1. HasFiles(g)
  BY DEF FileFit
<1>2. IsTrail(trail) /\ LoudEnd(trail) /\ (\A s \in Elems(trail) : HasFiles(s.host) /\ Same(s.host, g))
      /\ HasFiles(End(trail, g)) /\ Same(End(trail, g), g)
  BY <1>1, PermissionHosts
<1>3. Exists(g) /\ want.owner \in Owners \cup {""}
        /\ (g.node.kind = "link" => want.mode # LinkPerm.mode /\ want.owner # LinkPerm.owner)
      => Permitted(End(trail, g), want)
  BY <1>1, PermissionHosts
<1> HIDE DEF trail
<1>4. Passes(t, trail)
  BY <1>2, FitSame DEF Passes
<1>5. FileFit(t, End(trail, g))
  BY <1>2, FitSame
<1> QED BY <1>2, <1>3, <1>4, <1>5, PassesHushed, ElemsHushed DEF trail

\* The path is in the state that a file task names.
Reached(t, h) == /\ t.state = "directory" => h.node.kind = "dir"
                 /\ t.state = "absent" => h.node.kind = "absent"
                 /\ t.state \in {"link", "hard"} => h.node.kind = t.state
                 /\ t.state \in {"touch", "file"} => h.node.kind # "absent"

LEMMA StatePromised ==
  ASSUME NEW t, NEW h, t.module = "file", t.state \in {"directory", "touch", "absent", "link", "hard", "file"},
         Reached(t, h), t.state # "absent" => Permitted(h, t.want)
  PROVE  Promised(t, h)
<1>1. FilePromised(t, h)
  BY DEF FilePromised, Reached, Exists
<1> QED BY <1>1, PromisedBy

LEMMA FileStates ==
  ASSUME NEW t, NEW h, Fits(t, h), t.module = "file"
  PROVE  LET did == FileState(h, t)
         IN  /\ FileFit(t, did.host)
             /\ did.ok => Reached(t, did.host)
             /\ did.host.node.kind = "link" => h.node.kind = "link" \/ t.state = "link"
<1> DEFINE did == FileState(h, t)
<1>1. FileFit(t, h) /\ t.state \in {"directory", "touch", "absent", "link", "hard", "file"}
  BY FileFits DEF FileModules, Fits, FitsFiles
<1>2. HasFiles(h) /\ \A g : HasFiles(g) => FileFit(t, g)
  BY <1>1 DEF FileFit, LineModules
<1>3. ASSUME NEW kind, NEW g, NEW mode, NEW owner, DOMAIN g = DOMAIN h, g.src = h.src, g.dir = TRUE, g.node = Node(kind, Empty, Perm(mode, owner)),
             kind # "absent"
      PROVE  HasFiles(g) /\ g.node.kind = kind
  <2>1. IsNode(g.node) /\ g.node.kind = kind
    BY <1>3, NodeParts
  <2> QED BY <1>2, <1>3, <2>1, NodeHost
<1>4. ASSUME NEW g, g \in {Unlink(h, t.backup), [Unlink(h, t.backup) EXCEPT !.node = Absent]}
      PROVE  HasFiles(g) /\ g.node = Absent /\ g.dir = h.dir /\ g.src = h.src /\ DOMAIN g = DOMAIN h
  <2>1. DOMAIN g = DOMAIN h /\ g.node = Absent /\ g.src = h.src /\ g.dir = h.dir
    BY <1>2, <1>4 DEF HasFiles, Unlink
  <2>2. IsNode(Absent) /\ Absent.kind = "absent"
    <3>1. Node("absent", Empty, Perm("", "")) = Absent
      BY DEF Absent, AsIs
    <3>2. IsNode(Node("absent", Empty, Perm("", "")))
      BY NodeParts
    <3>3. Node("absent", Empty, Perm("", "")).kind = "absent"
      BY DEF Node
    <3> QED BY <3>1, <3>2, <3>3
  <2>3. h.dir \in BOOLEAN
    BY <1>2 DEF HasFiles
  <2> QED BY <1>2, <2>1, <2>2, <2>3, NodeHost
<1>5. CASE t.state = "directory"
  <2> DEFINE made == [MakeDir(h) EXCEPT !.node = Node("dir", Empty, Perm("755", "root"))]
  <2>1. DOMAIN made = DOMAIN h /\ made.src = h.src /\ made.dir = TRUE /\ made.node = Node("dir", Empty, Perm("755", "root"))
    BY <1>2 DEF MakeDir, HasFiles
  <2> HIDE DEF made
  <2>2. HasFiles(made) /\ made.node.kind = "dir"
    BY <1>3, <2>1
  <2>3. did \in {Did(h, FALSE, FALSE), Did(made, TRUE, TRUE)} \/ (did = Did(h, FALSE, TRUE) /\ h.node.kind = "dir")
    BY <1>5 DEF FileState, made
  <2> HIDE DEF did
  <2> QED BY <1>2, <1>5, <2>2, <2>3 DEF Did, Reached, did
<1>6. CASE t.state = "touch"
  <2> DEFINE made == [h EXCEPT !.node = Node("file", Empty, Default)]
  <2>1. DOMAIN made = DOMAIN h /\ made.src = h.src /\ made.dir = h.dir /\ made.node = Node("file", Empty, Perm("644", "root"))
    BY <1>2 DEF HasFiles, Default
  <2> HIDE DEF made
  <2>2. h.dir = TRUE => HasFiles(made) /\ made.node.kind = "file"
    <3>1. IsNode(Node("file", Empty, Perm("644", "root"))) /\ Node("file", Empty, Perm("644", "root")).kind = "file"
      BY NodeParts
    <3> QED BY <1>2, <2>1, <3>1, NodeHost
  <2>3. did = Did(Touch(h), TRUE, h.dir) /\ Touch(h) = (IF h.dir /\ ~Exists(h) THEN made ELSE h) /\ h.dir \in BOOLEAN
    BY <1>2, <1>6 DEF FileState, Touch, made, HasFiles
  <2> HIDE DEF did
  <2>4. did.host = (IF h.dir /\ ~Exists(h) THEN made ELSE h) /\ did.ok = h.dir
    BY <2>3 DEF Did
  <2> QED BY <1>2, <1>6, <2>2, <2>3, <2>4 DEF Exists, Reached, did
<1>7. CASE t.state = "absent"
  <2>1. did = (IF Exists(h) THEN Did(Unlink(h, t.backup), TRUE, TRUE) ELSE Did(h, FALSE, TRUE))
    BY <1>7 DEF FileState
  <2>2. HasFiles(Unlink(h, t.backup)) /\ Unlink(h, t.backup).node.kind = "absent"
    BY <1>4 DEF Absent, Node
  <2> HIDE DEF did
  <2> QED BY <1>2, <1>7, <2>1, <2>2 DEF Did, Exists, Reached, did
<1>8. CASE t.state \in {"link", "hard"}
  <2> DEFINE away == IF Exists(h) THEN Unlink(h, t.backup) ELSE h
             made == [away EXCEPT !.node = Node(t.state, Empty, AsIs)]
  <2>1. HasFiles(away) /\ away.dir = h.dir /\ away.src = h.src /\ DOMAIN away = DOMAIN h /\ away.node.kind = "absent"
    BY <1>2, <1>4 DEF Exists, Absent, Node
  <2> HIDE DEF away
  <2>2. DOMAIN made = DOMAIN h /\ made.src = h.src /\ made.dir = h.dir /\ made.node = Node(t.state, Empty, Perm("", ""))
    BY <1>2, <2>1 DEF HasFiles, AsIs
  <2> HIDE DEF made
  <2>3. h.dir = TRUE => HasFiles(made) /\ made.node.kind = t.state
    BY <1>3, <1>8, <2>2
  <2>4. Linked(h, t.state, t.backup) = IF h.dir THEN made ELSE away
    BY DEF Linked, made, away
  <2>5. did \in {Did(h, FALSE, FALSE), Did(Linked(h, t.state, t.backup), h.dir, h.dir)} \/ (did = Did(h, FALSE, TRUE) /\ h.node.kind = t.state)
    BY <1>8 DEF FileState
  <2>6. h.dir \in BOOLEAN
    BY <1>2 DEF HasFiles
  <2> HIDE DEF did
  <2>7. CASE did = Did(Linked(h, t.state, t.backup), h.dir, h.dir)
    <3>1. did.host = (IF h.dir THEN made ELSE away) /\ did.ok = h.dir
      BY <2>4, <2>7 DEF Did
    <3> QED BY <1>2, <1>8, <2>1, <2>3, <2>6, <3>1 DEF Reached, did
  <2>8. CASE did # Did(Linked(h, t.state, t.backup), h.dir, h.dir)
    <3>1. did.host = h /\ (did.ok => h.node.kind = t.state)
      BY <2>5, <2>8 DEF Did
    <3> QED BY <1>2, <1>8, <3>1 DEF Reached, did
  <2> QED BY <2>7, <2>8
<1>9. CASE t.state = "file"
  <2>1. did = Did(h, t.times /\ Exists(h), Exists(h))
    BY <1>9 DEF FileState
  <2> HIDE DEF did
  <2>2. did.host = h /\ did.ok = Exists(h)
    BY <2>1 DEF Did
  <2>3. Exists(h) => Reached(t, h)
    BY <1>9 DEF Reached, Exists
  <2> QED BY <1>2, <2>2, <2>3 DEF did
<1>10. t.state = "directory" \/ t.state = "touch" \/ t.state = "absent" \/ t.state \in {"link", "hard"} \/ t.state = "file"
  BY <1>1
<1> QED BY <1>5, <1>6, <1>7, <1>8, <1>9, <1>10

LEMMA FileDone ==
  ASSUME NEW t, NEW h, Fits(t, h), t.module = "file"
  PROVE  LET run == FileRun(h, t, FALSE)
         IN  Passes(t, run.trail) /\ (~NotAsAsked(t, h) => Done(t, run, h))
<1> DEFINE did == FileState(h, t)
           perms == SetFilePermissions(did.host, t.want, t.recurse)
           run == FileRun(h, t, FALSE)
           end == End(perms, did.host)
<1>1. run.trail = <<Loud(did.host)>> \o Hushed(perms) /\ run.failed = ~did.ok
  BY DEF FileRun
<1>2. FileFit(t, did.host)
  BY FileStates
<1>3. Passes(t, Hushed(perms)) /\ Passes(t, perms) /\ End(Hushed(perms), did.host) = end /\ Same(end, did.host)
  <2> HIDE DEF did
  <2> QED BY <1>2, Finishing
<1>4. Passes(t, <<Loud(did.host)>>)
  BY <1>2, PassesOne, LoudQuiet
<1>5. ASSUME ~NotAsAsked(t, h), ~run.failed PROVE Promised(t, end)
  <2>1. did.ok
    BY <1>1, <1>5
  <2>2. Reached(t, did.host) /\ t.state \in {"directory", "touch", "absent", "link", "hard", "file"}
    BY <2>1, FileStates DEF Fits, FitsFiles
  <2>3. end.node.kind = did.host.node.kind
    BY <1>3 DEF Same
  <2>4. "want" \in DOMAIN t
    BY DEF Fits, FitsFiles, FileModules
  <2>5. t.want.owner \in Owners \cup {""} /\ ~LinkHides(t, h)
    BY <1>5, <2>4 DEF NotAsAsked
  <2>6. did.host.node.kind = "link" => t.want.mode # LinkPerm.mode /\ t.want.owner # LinkPerm.owner
    BY <2>4, <2>5, FileStates DEF LinkHides
  <2>7. t.state # "absent" => Exists(did.host)
    BY <2>2 DEF Exists, Reached
  <2>8. t.state # "absent" => Permitted(end, t.want)
    <3> HIDE DEF did
    <3> QED BY <1>2, <2>5, <2>6, <2>7, Finishing
  <2> HIDE DEF end
  <2>9. Reached(t, end)
    BY <2>2, <2>3 DEF Reached
  <2> QED BY <2>2, <2>8, <2>9, StatePromised
<1>6. IsTrail(run.trail) /\ End(run.trail, h) = end
  <2> HIDE DEF perms, did, end, run
  <2>1. IsTrail(<<Loud(did.host)>>) /\ IsTrail(Hushed(perms))
    BY <1>3, <1>4 DEF Passes
  <2>2. End(<<Loud(did.host)>>, h) = did.host
    BY EndShort, LoudQuiet
  <2> QED BY <1>1, <1>3, <2>1, <2>2, EndJoin
<1>7. CutUnseen(t) \/ LoudEnd(run.trail)
  <2>1. CASE t.want # AsIs
    BY <2>1 DEF CutUnseen
  <2>2. CASE t.want = AsIs
    <3>1. Hushed(perms) = <<>>
      BY <2>2, NothingToSet
    <3>2. run.trail = <<Loud(did.host)>>
      BY <1>1, <3>1, Joined
    <3> HIDE DEF run, did
    <3> QED BY <3>2, EndShort, LoudQuiet
  <2> QED BY <2>1, <2>2
<1> HIDE DEF run, did, perms, end
<1>8. Passes(t, run.trail)
  BY <1>1, <1>3, <1>4, PassesJoin
<1> QED BY <1>5, <1>6, <1>7, <1>8, DoneLoud DEF run

\* A command, and the permissions behind it.
LEMMA Settling ==
  ASSUME NEW t, NEW c, FileFit(t, c.host), NEW want, NEW h
  PROVE  LET trail == <<c>> \o Finish(c.host, want)
         IN  /\ Passes(t, trail) /\ trail # <<>>
             /\ End(trail, h) = End(SetFilePermissions(c.host, want, FALSE), c.host)
             /\ c.loud /\ want = AsIs => LoudEnd(trail)
<1> DEFINE finish == Finish(c.host, want)
           trail == <<c>> \o finish
           end == End(SetFilePermissions(c.host, want, FALSE), c.host)
<1>1. Passes(t, finish) /\ End(finish, c.host) = end
  BY Finishing DEF Finish
<1>2. Passes(t, <<c>>) /\ End(<<c>>, h) = c.host /\ (LoudEnd(<<c>>) <=> c.loud)
  BY PassesOne, EndShort
<1>3. want = AsIs => trail = <<c>>
  BY NothingToSet, Joined
<1> HIDE DEF finish, end
<1>4. IsTrail(<<c>>) /\ IsTrail(finish)
  BY <1>1, <1>2 DEF Passes
<1>5. End(trail, h) = end /\ Passes(t, trail)
  BY <1>1, <1>2, <1>4, EndJoin, PassesJoin
<1>6. trail # <<>>
  <2>1. Len(trail) # 0
    BY <1>4, TrailsJoin, ShortTrails, TrailLength
  <2> QED BY <2>1, <1>5, TrailEmpty DEF Passes
<1> HIDE DEF trail
<1> QED BY <1>2, <1>3, <1>5, <1>6 DEF trail, finish, end

\* A trail behind another.
LEMMA Behind ==
  ASSUME NEW t, NEW a, NEW b, NEW h, Passes(t, a), Passes(t, b), b # <<>>
  PROVE  Passes(t, a \o b) /\ End(a \o b, h) = End(b, h) /\ a \o b # <<>>
<1>1. IsTrail(a) /\ IsTrail(b)
  BY DEF Passes
<1>2. End(b, End(a, h)) = End(b, h)
  BY DEF End
<1>3. a \o b # <<>>
  BY <1>1, TrailLast
<1> QED BY <1>1, <1>2, <1>3, EndJoin, PassesJoin

LEMMA BehindEnd ==
  ASSUME NEW a, NEW b, NEW h, IsTrail(a), IsTrail(b), b # <<>>
  PROVE  End(a \o b, h) = End(b, h)
BY EndJoin DEF End

LEMMA BehindLoud ==
  ASSUME NEW t, NEW a, NEW b, Passes(t, a), Passes(t, b), b # <<>>, LoudEnd(b)
  PROVE  LoudEnd(a \o b)
BY EndJoin DEF Passes

LEMMA AfterTrail == ASSUME NEW prefix, NEW run PROVE After(prefix, run).trail = prefix \o run.trail
BY DEF After

LEMMA AfterFails == ASSUME NEW prefix, NEW run PROVE After(prefix, run).failed <=> run.failed
BY DEF After

LEMMA RanFails ==
  ASSUME NEW trail, NEW c
  PROVE  Ran(trail, c, TRUE).failed /\ ~Ran(trail, c, FALSE).failed
BY DEF Ran

LEMMA RunParts ==
  /\ \A trail : Changes(trail).trail = trail /\ ~Changes(trail).failed
  /\ \A c : Reports(c).trail = <<>> /\ ~Reports(c).failed
  /\ Unchanged.trail = <<>> /\ ~Unchanged.failed
  /\ Refused.trail = <<>> /\ Refused.failed
<1>1. ASSUME NEW trail PROVE Changes(trail).trail = trail /\ ~Changes(trail).failed
  BY DEF Changes, Ran
<1>2. ASSUME NEW c PROVE Reports(c).trail = <<>> /\ ~Reports(c).failed
  BY DEF Reports, Ran
<1>3. Refused.trail = <<>> /\ Refused.failed
  BY DEF Refused, Ran
<1> QED BY <1>1, <1>2, <1>3 DEF Unchanged

-----------------------------------------------------------------------------
(* copy and template                                                       *)

\* The text that a copy brings, and the permissions behind it.
Brings(t, h) == IF t.module = "copy" /\ t.from = "remote" THEN h.src.text ELSE t.text

CopyTask(t, h) == /\ t.module \in {"copy", "template"} /\ FileFit(t, h) /\ t.want.owner \in Owners \cup {""}
                  /\ h.node.kind = "link" => t.want.mode # LinkPerm.mode /\ t.want.owner # LinkPerm.owner

LEMMA TextPromised ==
  ASSUME NEW t, NEW g, NEW recurse, CopyTask(t, g), Exists(g), g.node.text = Brings(t, g)
  PROVE  Promised(t, End(SetFilePermissions(g, t.want, recurse), g))
<1> DEFINE end == End(SetFilePermissions(g, t.want, recurse), g)
<1>1. Same(end, g) /\ Permitted(end, t.want)
  BY Finishing DEF CopyTask
<1> HIDE DEF end
<1>2. end.node.text = Brings(t, end)
  BY <1>1 DEF Same, Brings
<1>3. CopyPromised(t, end)
  BY <1>1, <1>2 DEF CopyPromised, Brings
<1> QED BY <1>3, PromisedBy DEF end, CopyTask

\* The permissions alone.
LEMMA PermissionsDone ==
  ASSUME NEW t, NEW h, FileFit(t, h),
         ~NotAsAsked(t, h) => Promised(t, End(SetFilePermissions(h, t.want, FALSE), h))
  PROVE  LET run == OnlyPermissions(h, t.want)
         IN  Passes(t, run.trail) /\ (~NotAsAsked(t, h) => Done(t, run, h))
<1> DEFINE run == OnlyPermissions(h, t.want)
           trail == SetFilePermissions(h, t.want, FALSE)
<1>1. run.trail = trail /\ ~run.failed
  BY RanTrail, RanFails DEF OnlyPermissions
<1>2. Passes(t, trail) /\ LoudEnd(trail)
  BY Finishing
<1> HIDE DEF run, trail
<1>3. IsTrail(run.trail)
  BY <1>1, <1>2 DEF Passes
<1> QED BY <1>1, <1>2, <1>3, DoneLoud DEF run, trail

LEMMA CopyTasks ==
  ASSUME NEW t, NEW h, Fits(t, h), t.module \in {"copy", "template"}
  PROVE  FileFit(t, h) /\ (~NotAsAsked(t, h) => CopyTask(t, h))
<1>1. FileFit(t, h) /\ "want" \in DOMAIN t
  BY FileFits DEF Fits, FitsFiles, FileModules
<1> QED BY <1>1 DEF NotAsAsked, LinkHides, CopyTask

\* The host that a copy works on: the directory is there.
Readied(g, h) == g.node = h.node /\ g.dir = TRUE /\ g.src.kind = h.src.kind /\ g.src.text = h.src.text

LEMMA PreparedHost ==
  ASSUME NEW t, NEW h, FileFit(t, h)
  PROVE  LET ready == Prepared(h, t)
             g == ready[2].host
         IN  Passes(t, ready) /\ FileFit(t, g) /\ Readied(g, h)
<1> DEFINE a == BackupIf(h, t.backup)
           g == MakeDir(a)
<1>1. HasFiles(h)
  BY DEF FileFit
<1>2. HasFiles(a) /\ a.node = h.node /\ Same(a, h)
  BY <1>1, AsideHosts
<1> HIDE DEF a
<1>3. HasFiles(g) /\ g.node = a.node /\ g.dir = TRUE /\ g.src = a.src
  BY <1>2, AsideHosts
<1>4. FileFit(t, a) /\ FileFit(t, g)
  BY <1>2, <1>3 DEF FileFit
<1> HIDE DEF g
<1>5. Prepared(h, t) = <<Quiet(a), Quiet(g)>>
  BY DEF Prepared, a, g
<1>6. Prepared(h, t)[2].host = g
  BY <1>5, LoudQuiet
<1>7. Passes(t, Prepared(h, t))
  BY <1>4, <1>5, PassesTwo, LoudQuiet
<1> QED BY <1>2, <1>3, <1>4, <1>6, <1>7 DEF Same, Readied

\* A run whose trail is behind another.
LEMMA DoneBehind ==
  ASSUME NEW t, NEW h, NEW a, NEW b, NEW r, Passes(t, a), Passes(t, b), b # <<>>, r.trail = a \o b,
         CutUnseen(t) \/ LoudEnd(b), ~NotAsAsked(t, h) => Promised(t, End(b, h))
  PROVE  Passes(t, r.trail) /\ (~NotAsAsked(t, h) => Done(t, r, h))
<1> DEFINE s == a \o b
<1>1. Passes(t, s)
  BY PassesJoin
<1>2. End(s, h) = End(b, h)
  BY BehindEnd DEF Passes
<1>3. CutUnseen(t) \/ LoudEnd(s)
  BY BehindLoud
<1>4. r.trail = s
  OBVIOUS
<1> HIDE DEF s
<1>5. IsTrail(r.trail)
  BY <1>1, <1>4 DEF Passes
<1> QED BY <1>1, <1>2, <1>3, <1>4, <1>5, DoneLoud

\* A host with the text at the path, and the permissions behind it.
LEMMA BroughtDone ==
  ASSUME NEW t, NEW h, NEW a, NEW c, NEW r, Passes(t, a), FileFit(t, c.host), Exists(c.host),
         c.host.node.text = Brings(t, c.host),
         r.trail = a \o (<<c>> \o Finish(c.host, t.want)), c.loud \/ CutUnseen(t),
         t.module \in {"copy", "template"},
         ~NotAsAsked(t, h) => CopyTask(t, c.host)
  PROVE  Passes(t, r.trail) /\ (~NotAsAsked(t, h) => Done(t, r, h))
<1> DEFINE b == <<c>> \o Finish(c.host, t.want)
<1>1. Passes(t, b) /\ b # <<>> /\ End(b, h) = End(SetFilePermissions(c.host, t.want, FALSE), c.host)
      /\ (c.loud /\ t.want = AsIs => LoudEnd(b))
  BY Settling
<1>2. ASSUME ~NotAsAsked(t, h) PROVE Promised(t, End(SetFilePermissions(c.host, t.want, FALSE), c.host))
  <2>1. CopyTask(t, c.host)
    BY <1>2
  <2> QED BY <2>1, TextPromised
<1>3. r.trail = a \o b
  OBVIOUS
<1> HIDE DEF b
<1>4. CutUnseen(t) \/ LoudEnd(b)
  BY <1>1 DEF CutUnseen
<1>5. ~NotAsAsked(t, h) => Promised(t, End(b, h))
  BY <1>1, <1>2
<1> QED BY <1>1, <1>3, <1>4, <1>5, DoneBehind

\* The hosts of a run fit its task, and it does what was asked unless it is
\* a run in check mode.
Right(t, h, run, check) == Passes(t, run.trail) /\ (~check /\ ~NotAsAsked(t, h) => Done(t, run, h))

LEMMA RightIdle ==
  ASSUME NEW t, NEW h, NEW run, NEW check, run.trail = <<>>, check \/ run.failed \/ (~NotAsAsked(t, h) => Promised(t, h))
  PROVE  Right(t, h, run, check)
<1>1. Passes(t, run.trail) /\ IsTrail(run.trail)
  BY PassesNone DEF Passes
<1>2. End(run.trail, h) = h /\ LoudEnd(run.trail)
  BY EndShort
<1> QED BY <1>1, <1>2, DoneLoud, DoneFailing DEF Right

\* A run that fails.
LEMMA RightFailing ==
  ASSUME NEW t, NEW h, NEW run, NEW check, Passes(t, run.trail), run.failed
  PROVE  Right(t, h, run, check)
BY DoneFailing DEF Right

LEMMA StagedDone ==
  ASSUME NEW t, NEW h, Fits(t, h), t.module \in {"copy", "template"}, ~(t.module = "copy" /\ t.from = "remote"),
         NEW quiet \in BOOLEAN, quiet => t.module = "copy" /\ t.from = "content",
         NEW staged \in BOOLEAN, staged /\ quiet => t.validate
  PROVE  LET ready == Prepared(h, t)
             g == ready[2].host
             run == After(ready, IF staged THEN Staged(g, t, quiet) ELSE Direct(g, t))
         IN  Right(t, h, run, FALSE)
<1> DEFINE ready == Prepared(h, t)
           g == ready[2].host
           up == WriteTmp(g, t.text)
           moved == MoveTmp(up)
           wrote == Write(g, t.text)
           run == After(ready, IF staged THEN Staged(g, t, quiet) ELSE Direct(g, t))
<1>1. FileFit(t, h) /\ (~NotAsAsked(t, h) => CopyTask(t, h))
  BY CopyTasks
<1>2. Passes(t, ready) /\ FileFit(t, g) /\ g.node = h.node /\ g.dir = TRUE
  BY <1>1, PreparedHost DEF Readied
<1> HIDE DEF ready, g
<1>3. HasFiles(g) /\ \A x : HasFiles(x) /\ x.node.kind # "dir" => FileFit(t, x)
  BY <1>2 DEF FileFit, LineModules
<1>4. CASE ~staged
  <2>1. HasFiles(wrote) /\ wrote.node.text = t.text /\ Exists(wrote) /\ wrote.node.kind = IF Exists(g) THEN g.node.kind ELSE "file"
    BY <1>2, <1>3, WriteHost
  <2> HIDE DEF wrote
  <2>2. FileFit(t, wrote)
    BY <1>2, <1>3, <2>1 DEF FileFit
  <2>3. ~NotAsAsked(t, h) => CopyTask(t, wrote)
    BY <1>1, <1>2, <2>1, <2>2 DEF CopyTask
  <2>4. run.trail = ready \o (<<Loud(wrote)>> \o Finish(Loud(wrote).host, t.want))
    <3>1. Direct(g, t).trail = <<Loud(wrote)>> \o Finish(Loud(wrote).host, t.want)
      BY RunParts, LoudQuiet DEF Direct, wrote
    <3>2. run = After(ready, Direct(g, t))
      BY <1>4
    <3> QED BY <3>1, <3>2, AfterTrail
  <2> HIDE DEF run
  <2>5. Loud(wrote).host = wrote /\ Loud(wrote).loud /\ wrote.node.text = Brings(t, wrote)
    BY <2>1, LoudQuiet DEF Brings
  <2>6. Passes(t, run.trail) /\ (~NotAsAsked(t, h) => Done(t, run, h))
    <3> DEFINE c == Loud(wrote)
    <3>1. c.host = wrote /\ c.loud /\ run.trail = ready \o (<<c>> \o Finish(c.host, t.want))
      BY <2>4, <2>5
    <3> HIDE DEF c
    <3> QED BY <1>2, <2>1, <2>2, <2>3, <2>5, <3>1, BroughtDone
  <2> QED BY <2>6 DEF Right, run, ready, g
<1>5. CASE staged
  <2>1. HasFiles(up) /\ up.node = g.node /\ Same(up, g) /\ up.tmp = Node("file", t.text, Default)
    BY <1>3, AsideHosts
  <2>2. FileFit(t, up) /\ up.dir = TRUE
    BY <1>2, <1>3, <2>1 DEF FileFit, Same
  <2>3. IsNode(up.tmp) /\ up.tmp.text = t.text
    BY <2>1, NodeParts DEF Default
  <2>4. up.tmp.kind = "file"
    BY <2>1 DEF Node
  <2>5. HasFiles(DropTmp(up)) /\ DropTmp(up).node = up.node
    BY <2>1, AsideHosts
  <2> HIDE DEF up
  <2>6. HasFiles(moved) /\ moved.node = up.tmp
    BY <2>1, <2>2, <2>3, <2>4, MoveHost
  <2> HIDE DEF moved
  <2>7. FileFit(t, moved) /\ FileFit(t, DropTmp(up)) /\ Exists(moved) /\ moved.node.text = Brings(t, moved)
    BY <1>2, <1>3, <2>1, <2>3, <2>4, <2>5, <2>6 DEF FileFit, Exists, Brings
  <2>8. CASE Rejects(t, t.text)
    <3>1. Staged(g, t, quiet) = Ran(<<Loud(up), Quiet(DropTmp(up))>>, FALSE, TRUE)
      BY <2>8 DEF Staged, up
    <3>2. run = After(ready, Staged(g, t, quiet))
      BY <1>5
    <3>3. run.trail = ready \o <<Loud(up), Quiet(DropTmp(up))>>
      <4>1. Staged(g, t, quiet).trail = <<Loud(up), Quiet(DropTmp(up))>>
        BY <3>1 DEF Ran
      <4> QED BY <3>2, <4>1, AfterTrail
    <3>4. run.failed
      <4>1. Staged(g, t, quiet).failed
        BY <3>1, RanFails
      <4> QED BY <3>2, <4>1, AfterFails
    <3>5. Passes(t, <<Loud(up), Quiet(DropTmp(up))>>)
      BY <2>2, <2>7, LoudQuiet, PassesTwo
    <3> HIDE DEF run
    <3>6. Passes(t, run.trail)
      BY <1>2, <3>3, <3>5, PassesJoin
    <3>7. Right(t, h, run, FALSE)
      BY <3>4, <3>6, RightFailing
    <3> QED BY <3>7 DEF run, ready, g
  <2>9. CASE ~Rejects(t, t.text)
    <3> DEFINE move == Move(up, t.want)
               end == End(SetFilePermissions(moved, t.want, FALSE), moved)
               tail == IF quiet THEN Hushed(move) ELSE move
               said == Said(<<up, up>>)
               body == said \o tail
    <3>1. Passes(t, move) /\ move # <<>> /\ End(move, h) = end /\ (t.want = AsIs => LoudEnd(move))
      <4>1. move = <<Loud(moved)>> \o Finish(Loud(moved).host, t.want)
        BY LoudQuiet DEF Move, moved
      <4>2. Loud(moved).host = moved /\ Loud(moved).loud
        BY LoudQuiet
      <4> DEFINE c == Loud(moved)
      <4> HIDE DEF c, move
      <4>3. c.host = moved /\ c.loud /\ move = <<c>> \o Finish(c.host, t.want)
        BY <4>1, <4>2 DEF c
      <4> QED BY <2>7, <4>3, Settling
    <3> HIDE DEF move
    <3>2. IsTrail(move)
      BY <3>1 DEF Passes
    <3>3. Passes(t, tail) /\ tail # <<>> /\ End(tail, h) = end
      <4>1. Passes(t, Hushed(move)) /\ End(Hushed(move), h) = end
        BY <3>1, <3>2, PassesHushed, ElemsHushed
      <4>2. Hushed(move) # <<>>
        BY <3>1, <3>2, SaidHushed, TrailEmpty
      <4> QED BY <3>1, <4>1, <4>2
    <3>4. CutUnseen(t) \/ LoudEnd(tail)
      BY <1>5, <3>1 DEF CutUnseen
    <3>5. Passes(t, said)
      <4>1. \A s \in Elems(said) : s.host = up
        BY ElemsSaid, ElemsTwo, LoudQuiet, ShortTrails
      <4>2. IsTrail(said)
        BY SaidHushed, ShortTrails
      <4> QED BY <2>2, <4>1, <4>2 DEF Passes
    <3> HIDE DEF said, tail
    <3>6. Passes(t, body) /\ body # <<>> /\ End(body, h) = end
      <4>1. IsTrail(said) /\ IsTrail(tail)
        BY <3>3, <3>5 DEF Passes
      <4>2. End(body, h) = end
        <5>1. tail # <<>> /\ End(tail, h) = end
          BY <3>3
        <5> HIDE DEF end
        <5> QED BY <4>1, <5>1, BehindEnd
      <4>3. Passes(t, body)
        BY <3>3, <3>5, PassesJoin
      <4>4. body # <<>>
        BY <3>3, <4>1, TrailLast
      <4> QED BY <4>2, <4>3, <4>4
    <3>7. CutUnseen(t) \/ LoudEnd(body)
      BY <3>3, <3>4, <3>5, BehindLoud
    <3>8. ~NotAsAsked(t, h) => Promised(t, end)
      <4>1. ASSUME ~NotAsAsked(t, h) PROVE CopyTask(t, moved)
        BY <1>1, <2>4, <2>6, <2>7, <4>1 DEF CopyTask
      <4> QED BY <2>7, <4>1, TextPromised
    <3>9. run.trail = ready \o body
      <4>1. Staged(g, t, quiet).trail = body
        BY <2>9, RunParts DEF Staged, up, said, tail, move
      <4>2. run = After(ready, Staged(g, t, quiet))
        BY <1>5
      <4> QED BY <4>1, <4>2, AfterTrail
    <3> HIDE DEF body, run, end
    <3>10. Passes(t, run.trail) /\ (~NotAsAsked(t, h) => Done(t, run, h))
      BY <1>2, <3>6, <3>7, <3>8, <3>9, DoneBehind
    <3> QED BY <3>10 DEF Right, run, ready, g
  <2> QED BY <2>8, <2>9
<1> QED BY <1>4, <1>5

\* The cases that copy and template share: the text is there, the file must
\* not be touched, check mode, or the text is brought.
LEMMA TextRight ==
  ASSUME NEW t, NEW h, NEW check, NEW r, NEW run, Fits(t, h), t.module \in {"copy", "template"},
         ~(t.module = "copy" /\ t.from = "remote"), Right(t, h, r, FALSE),
         run = IF Exists(h) /\ h.node.text = t.text THEN OnlyPermissions(h, t.want)
               ELSE IF Exists(h) /\ ~t.force THEN Unchanged
               ELSE IF check THEN Reports(TRUE) ELSE r
  PROVE  Right(t, h, run, check)
<1>1. FileFit(t, h) /\ (~NotAsAsked(t, h) => CopyTask(t, h))
  BY CopyTasks
<1>2. CASE Exists(h) /\ h.node.text = t.text
  <2>1. run = OnlyPermissions(h, t.want)
    BY <1>2
  <2>2. ASSUME ~NotAsAsked(t, h) PROVE Promised(t, End(SetFilePermissions(h, t.want, FALSE), h))
    <3>1. CopyTask(t, h) /\ h.node.text = Brings(t, h)
      BY <1>1, <1>2, <2>2 DEF Brings
    <3> QED BY <1>2, <3>1, TextPromised
  <2>3. Passes(t, run.trail) /\ (~NotAsAsked(t, h) => Done(t, run, h))
    BY <1>1, <2>1, <2>2, PermissionsDone
  <2> QED BY <2>3 DEF Right
<1>3. CASE ~(Exists(h) /\ h.node.text = t.text) /\ Exists(h) /\ ~t.force
  <2>1. run = Unchanged
    BY <1>3
  <2>2. CopyPromised(t, h)
    BY <1>3 DEF CopyPromised
  <2>3. Promised(t, h)
    BY <2>2, PromisedBy
  <2> QED BY <2>1, <2>3, RunParts, RightIdle
<1>4. CASE ~(Exists(h) /\ h.node.text = t.text) /\ ~(Exists(h) /\ ~t.force) /\ check
  <2>1. run = Reports(TRUE)
    BY <1>4
  <2> QED BY <1>4, <2>1, RunParts, RightIdle
<1>5. CASE ~(Exists(h) /\ h.node.text = t.text) /\ ~(Exists(h) /\ ~t.force) /\ ~check
  <2>1. run = r
    BY <1>5
  <2> QED BY <1>5, <2>1 DEF Right
<1> QED BY <1>2, <1>3, <1>4, <1>5

LEMMA RemoteRight ==
  ASSUME NEW t, NEW h, NEW check, Fits(t, h), t.module = "copy", t.from = "remote"
  PROVE  Right(t, h, CopyRemote(h, t, check), check)
<1> DEFINE ready == Prepared(h, t)
           g == ready[2].host
           staged == [g EXCEPT !.tmp = h.src]
           copied == [g EXCEPT !.node = h.src]
           moved == MoveTmp(staged)
           run == CopyRemote(h, t, check)
           fails == Ran(<<Loud(staged), Quiet(DropTmp(staged))>>, FALSE, TRUE)
           checked == Changes(Said(<<staged, staged>>) \o Move(staged, t.want))
           direct == Changes(<<Loud(copied)>> \o Finish(copied, t.want))
<1>1. FileFit(t, h) /\ (~NotAsAsked(t, h) => CopyTask(t, h))
  BY CopyTasks
<1>2. Passes(t, ready) /\ FileFit(t, g) /\ g.node = h.node /\ g.dir = TRUE /\ g.src.text = h.src.text
  <2>1. Passes(t, ready) /\ FileFit(t, g) /\ Readied(g, h)
    BY <1>1, PreparedHost
  <2> QED BY <2>1 DEF Readied
<1>3. HasFiles(h) /\ IsNode(h.src)
  BY <1>1 DEF FileFit, HasFiles
<1> HIDE DEF ready, g
<1>4. HasFiles(g) /\ \A x : HasFiles(x) /\ x.node.kind \in {"file", "absent"} => FileFit(t, x)
  BY <1>2 DEF FileFit, LineModules
<1>5. CASE h.src.kind = "absent"
  <2>1. run = Refused
    BY <1>5 DEF CopyRemote
  <2> HIDE DEF run
  <2> QED BY <2>1, RunParts, RightIdle DEF run
<1>6. CASE h.src.kind # "absent" /\ h.node.text = h.src.text /\ Exists(h)
  <2>1. run = Unchanged
    BY <1>6 DEF CopyRemote
  <2>2. NotAsAsked(t, h)
    BY <1>6 DEF NotAsAsked
  <2> HIDE DEF run
  <2> QED BY <2>1, <2>2, RunParts, RightIdle DEF run
<1>7. CASE h.src.kind # "absent" /\ h.node.text # h.src.text /\ Exists(h) /\ ~t.force
  <2>1. run = Unchanged
    BY <1>7 DEF CopyRemote
  <2>2. CopyPromised(t, h)
    BY <1>7 DEF CopyPromised
  <2>3. Promised(t, h)
    BY <2>2, PromisedBy
  <2> HIDE DEF run
  <2> QED BY <2>1, <2>3, RunParts, RightIdle DEF run
<1> DEFINE works == /\ h.src.kind # "absent" /\ ~(h.node.text = h.src.text /\ Exists(h)) /\ ~(Exists(h) /\ ~t.force)
<1>8. CASE works /\ check
  <2>1. run = Reports(TRUE)
    BY <1>8 DEF CopyRemote
  <2> HIDE DEF run
  <2> QED BY <1>8, <2>1, RunParts, RightIdle DEF run
<1>9. CASE works /\ ~check
  <2>1. run = After(ready, IF Rejects(t, h.src.text) THEN fails ELSE IF t.validate THEN checked ELSE direct)
    BY <1>9 DEF CopyRemote, ready, g
  <2>2. h.src.kind = "file" /\ h.src.kind # "dir"
    BY <1>3, <1>9 DEF HasFiles
  <2>3. HasFiles(staged) /\ staged.node = g.node /\ staged.dir = TRUE /\ staged.tmp = h.src /\ staged.src = g.src
    <3>1. DOMAIN staged = DOMAIN g /\ staged.node = g.node /\ staged.src = g.src /\ staged.dir = g.dir /\ staged.tmp = h.src
      BY <1>4 DEF HasFiles
    <3> HIDE DEF staged
    <3> QED BY <1>2, <1>4, <3>1 DEF HasFiles, Exists
  <2>4. HasFiles(copied) /\ copied.node = h.src /\ copied.src = g.src
    <3>1. DOMAIN copied = DOMAIN g /\ copied.node = h.src /\ copied.src = g.src /\ copied.dir = TRUE
      BY <1>2, <1>4 DEF HasFiles
    <3> HIDE DEF copied
    <3> QED BY <1>3, <1>4, <1>9, <3>1, NodeHost
  <2> HIDE DEF staged, copied
  <2>5. HasFiles(DropTmp(staged)) /\ DropTmp(staged).node = g.node
    BY <2>3, AsideHosts
  <2>6. HasFiles(moved) /\ moved.node = h.src /\ moved.src = g.src
    BY <1>3, <1>9, <2>3, MoveHost
  <2> HIDE DEF moved
  <2>7. FileFit(t, staged) /\ FileFit(t, DropTmp(staged)) /\ FileFit(t, moved) /\ FileFit(t, copied)
    BY <1>2, <1>4, <2>2, <2>3, <2>4, <2>5, <2>6 DEF FileFit
  <2>8. ASSUME NEW x, FileFit(t, x), x.node = h.src, x.src = g.src
        PROVE  Exists(x) /\ x.node.text = Brings(t, x) /\ (~NotAsAsked(t, h) => CopyTask(t, x))
    <3>1. x.node.kind = "file" /\ x.node.text = x.src.text
      BY <1>2, <2>2, <2>8
    <3> QED BY <1>1, <2>8, <3>1 DEF Exists, Brings, CopyTask
  <2>9. CASE Rejects(t, h.src.text)
    <3>1. run = After(ready, fails) /\ fails.trail = <<Loud(staged), Quiet(DropTmp(staged))>>
      BY <2>1, <2>9 DEF Ran
    <3>2. Passes(t, fails.trail)
      BY <2>7, <3>1, PassesTwo, LoudQuiet
    <3>3. fails.failed
      BY RanFails
    <3> HIDE DEF fails, run
    <3>4. run.failed
      BY <3>1, <3>3, AfterFails
    <3>5. run.trail = ready \o fails.trail
      BY <3>1, AfterTrail
    <3>6. Passes(t, run.trail)
      BY <1>2, <3>2, <3>5, PassesJoin
    <3> QED BY <3>4, <3>6, RightFailing DEF run
  <2>10. CASE ~Rejects(t, h.src.text) /\ ~t.validate
    <3> DEFINE c == Loud(copied)
    <3>1. c.host = copied /\ c.loud
      BY LoudQuiet
    <3>2. run = After(ready, direct) /\ direct.trail = <<c>> \o Finish(c.host, t.want)
      BY <2>1, <2>10, <3>1 DEF Changes, Ran
    <3> HIDE DEF direct, run, c
    <3>3. run.trail = ready \o (<<c>> \o Finish(c.host, t.want))
      BY <3>2, AfterTrail
    <3>4. Exists(c.host) /\ c.host.node.text = Brings(t, c.host) /\ (~NotAsAsked(t, h) => CopyTask(t, c.host))
      BY <2>4, <2>7, <2>8, <3>1
    <3>5. Passes(t, run.trail) /\ (~NotAsAsked(t, h) => Done(t, run, h))
      BY <1>2, <2>7, <3>1, <3>3, <3>4, BroughtDone
    <3> QED BY <3>5 DEF Right, run
  <2>11. CASE ~Rejects(t, h.src.text) /\ t.validate
    <3> DEFINE c == Loud(moved)
               said == Said(<<staged, staged>>)
               a == ready \o said
               tail == <<c>> \o Finish(c.host, t.want)
    <3>1. c.host = moved /\ c.loud
      BY LoudQuiet
    <3>2. run = After(ready, checked)
      BY <2>1, <2>11
    <3>3. checked.trail = said \o tail
      BY <3>1 DEF Changes, Ran, Move, moved
    <3>4. Passes(t, said)
      <4>1. \A s \in Elems(said) : s.host = staged
        BY ElemsSaid, ElemsTwo, LoudQuiet, ShortTrails
      <4>2. IsTrail(said)
        BY SaidHushed, ShortTrails
      <4> QED BY <2>7, <4>1, <4>2 DEF Passes
    <3> HIDE DEF checked, run, said
    <3>5. IsTrail(tail) /\ Passes(t, a)
      BY <1>2, <2>7, <3>1, <3>4, Settling, PassesJoin DEF Passes
    <3> HIDE DEF tail, c
    <3>6. run.trail = ready \o (said \o tail)
      BY <3>2, <3>3, AfterTrail
    <3>7. ready \o (said \o tail) = a \o tail
      <4>1. PICK S1 : ready \in Seq(S1)
        BY <1>2 DEF Passes, IsTrail
      <4>2. PICK S2 : said \in Seq(S2)
        BY <3>4 DEF Passes, IsTrail
      <4>3. PICK S3 : tail \in Seq(S3)
        BY <3>5 DEF IsTrail
      <4> DEFINE S == S1 \cup S2 \cup S3
      <4>4. ready \in Seq(S) /\ said \in Seq(S) /\ tail \in Seq(S)
        BY <4>1, <4>2, <4>3
      <4> HIDE DEF S
      <4> QED BY <4>4
    <3>8. run.trail = a \o (<<c>> \o Finish(c.host, t.want))
      BY <3>6, <3>7 DEF tail
    <3> HIDE DEF a
    <3>9. Exists(c.host) /\ c.host.node.text = Brings(t, c.host) /\ (~NotAsAsked(t, h) => CopyTask(t, c.host))
      BY <2>6, <2>7, <2>8, <3>1 DEF c
    <3>10. c.loud /\ FileFit(t, c.host)
      BY <2>7, <3>1 DEF c
    <3>11. Passes(t, run.trail) /\ (~NotAsAsked(t, h) => Done(t, run, h))
      BY <3>5, <3>8, <3>9, <3>10, BroughtDone
    <3> QED BY <3>11 DEF Right, run
  <2> QED BY <2>9, <2>10, <2>11
<1> QED BY <1>5, <1>6, <1>7, <1>8, <1>9

LEMMA CopyRight ==
  ASSUME NEW t, NEW h, NEW check, Fits(t, h), t.module \in {"copy", "template"}
  PROVE  Right(t, h, IF t.module = "copy" THEN CopyRun(h, t, check) ELSE TemplateRun(h, t, check), check)
<1> DEFINE ready == Prepared(h, t)
           g == ready[2].host
           local == After(ready, IF t.become \/ t.validate THEN Staged(g, t, FALSE) ELSE Direct(g, t))
           content == After(ready, IF t.validate THEN Staged(g, t, TRUE) ELSE Direct(g, t))
<1>1. ASSUME ~(t.module = "copy" /\ t.from = "remote") PROVE Right(t, h, CopyLocal(h, t, check), check)
  <2>1. Right(t, h, local, FALSE)
    <3> DEFINE staged == IF t.become \/ t.validate THEN TRUE ELSE FALSE
    <3>1. staged \in BOOLEAN /\ local = After(ready, IF staged THEN Staged(g, t, FALSE) ELSE Direct(g, t))
      OBVIOUS
    <3> HIDE DEF staged
    <3> QED BY <1>1, <3>1, StagedDone
  <2>2. CopyLocal(h, t, check) = IF Exists(h) /\ h.node.text = t.text THEN OnlyPermissions(h, t.want)
               ELSE IF Exists(h) /\ ~t.force THEN Unchanged
               ELSE IF check THEN Reports(TRUE) ELSE local
    BY DEF CopyLocal
  <2> HIDE DEF local
  <2> QED BY <1>1, <2>1, <2>2, TextRight
<1>2. ASSUME t.module = "copy", t.from = "content" PROVE Right(t, h, CopyContent(h, t, check), check)
  <2>1. Right(t, h, content, FALSE)
    <3> DEFINE staged == IF t.validate THEN TRUE ELSE FALSE
    <3>1. staged \in BOOLEAN /\ (staged => t.validate) /\ content = After(ready, IF staged THEN Staged(g, t, TRUE) ELSE Direct(g, t))
      OBVIOUS
    <3> HIDE DEF staged
    <3> QED BY <1>2, <3>1, StagedDone
  <2>2. CopyContent(h, t, check) = IF Exists(h) /\ h.node.text = t.text THEN OnlyPermissions(h, t.want)
               ELSE IF Exists(h) /\ ~t.force THEN Unchanged
               ELSE IF check THEN Reports(TRUE) ELSE content
    BY DEF CopyContent
  <2> HIDE DEF content
  <2> QED BY <1>2, <2>1, <2>2, TextRight
<1>3. t.module = "copy" => t.from \in {"remote", "content", "local"}
  BY DEF Fits, FitsFiles
<1>4. CASE t.module = "copy"
  <2>1. t.from = "remote" => Right(t, h, CopyRemote(h, t, check), check)
    BY <1>4, RemoteRight
  <2> HIDE DEF local, content
  <2>2. CopyRun(h, t, check) = IF t.from = "remote" THEN CopyRemote(h, t, check)
                               ELSE IF t.from = "content" THEN CopyContent(h, t, check) ELSE CopyLocal(h, t, check)
    BY <1>3, <1>4 DEF CopyRun
  <2> QED BY <1>1, <1>2, <1>3, <1>4, <2>1, <2>2
<1>5. CASE t.module = "template"
  BY <1>1, <1>5 DEF TemplateRun
<1> QED BY <1>4, <1>5

\* A trail that ends in commands whose errors are dropped and which leave
\* the promise kept.
LEMMA DoneTail ==
  ASSUME NEW t, NEW r, NEW h, NEW b, NEW q, IsTrail(b), IsTrail(q), r.trail = b \o q, LoudEnd(b),
         ~r.failed => Promised(t, End(b, h)) /\ \A s \in Elems(q) : Promised(t, s.host)
  PROVE  Done(t, r, h)
<1> SUFFICES ASSUME ~r.failed
             PROVE  /\ Promised(t, End(r.trail, h))
                    /\ \A n \in 0..(Len(r.trail) - 1) :
                         (\A i \in (n + 1)..Len(r.trail) : ~r.trail[i].loud) => Promised(t, HostAfter(r, h, n))
  BY DEF Done
<1> DEFINE s == b \o q
           k == Len(b)
<1>1. PICK S : b \in Seq(S) /\ q \in Seq(S)
  <2>1. PICK B : b \in Seq(B)
    BY DEF IsTrail
  <2>2. PICK Q : q \in Seq(Q)
    BY DEF IsTrail
  <2>3. b \in Seq(B \cup Q) /\ q \in Seq(B \cup Q)
    BY <2>1, <2>2
  <2> QED BY <2>3
<1>2. /\ s \in Seq(S) /\ Len(s) = k + Len(q) /\ k \in Nat /\ Len(q) \in Nat
      /\ \A i \in 1..k : s[i] = b[i]
      /\ \A i \in (k + 1)..Len(s) : s[i] = q[i - k] /\ i - k \in DOMAIN q
  BY <1>1
<1> HIDE DEF s
<1>3. r.trail = s
  BY DEF s
<1>4. ASSUME NEW n \in 0..Len(s), n >= k PROVE Promised(t, HostAfter(r, h, n))
  <2>1. CASE n = k
    <3>1. CASE k = 0
      <4>1. b = <<>>
        BY <1>1, <3>1
      <4> QED BY <2>1, <3>1, <4>1 DEF End, HostAfter
    <3>2. CASE k # 0
      <4>1. b # <<>> /\ k \in 1..k
        BY <1>1, <1>2, <3>2
      <4>2. s[k] = b[k]
        BY <1>2, <4>1
      <4>3. HostAfter(r, h, n) = b[k].host
        BY <1>3, <2>1, <3>2, <4>2 DEF HostAfter
      <4>4. End(b, h) = b[k].host
        BY <4>1 DEF End
      <4> QED BY <4>3, <4>4
    <3> QED BY <3>1, <3>2
  <2>2. CASE n # k
    <3>1. n \in (k + 1)..Len(s) /\ n # 0
      BY <1>2, <1>4, <2>2
    <3>2. s[n] = q[n - k] /\ n - k \in DOMAIN q
      BY <1>2, <3>1
    <3>3. s[n] \in Elems(q)
      BY <3>2 DEF Elems
    <3>4. HostAfter(r, h, n) = s[n].host
      BY <1>3, <3>1 DEF HostAfter
    <3> QED BY <3>3, <3>4
  <2> QED BY <2>1, <2>2
<1>5. Promised(t, End(r.trail, h))
  <2>1. End(r.trail, h) = HostAfter(r, h, Len(s))
    BY <1>2, <1>3 DEF End, HostAfter
  <2>2. Len(s) \in 0..Len(s) /\ Len(s) >= k
    BY <1>2
  <2> QED BY <1>4, <2>1, <2>2
<1>6. ASSUME NEW n \in 0..(Len(s) - 1), \A i \in (n + 1)..Len(s) : ~s[i].loud PROVE Promised(t, HostAfter(r, h, n))
  <2>1. n >= k
    <3> SUFFICES ASSUME n < k PROVE FALSE
      BY <1>2
    <3>1. k \in (n + 1)..Len(s) /\ k \in 1..k /\ k # 0
      BY <1>2
    <3>2. ~b[k].loud
      BY <1>2, <1>6, <3>1
    <3>3. b # <<>>
      BY <1>1, <3>1
    <3> QED BY <3>2, <3>3 DEF LoudEnd
  <2>2. n \in 0..Len(s)
    BY <1>2
  <2> QED BY <1>4, <2>1, <2>2
<1> QED BY <1>3, <1>5, <1>6

LEMMA RightDone ==
  ASSUME NEW t, NEW h, NEW run, NEW check, Passes(t, run.trail), ~NotAsAsked(t, h) => Done(t, run, h)
  PROVE  Right(t, h, run, check)
BY DEF Right

\* A script that leaves g.
LEMMA ScriptRight ==
  ASSUME NEW t, NEW h, NEW g, NEW c, NEW check, FileFit(t, g), ~NotAsAsked(t, h) => Promised(t, g)
  PROVE  Right(t, h, Script(g, c), check) /\ Right(t, h, Changes(<<Loud(g)>>), check)
<1>1. ASSUME NEW run, run.trail = <<Loud(g)>> PROVE Right(t, h, run, check)
  <2>1. Passes(t, <<Loud(g)>>)
    BY PassesOne, LoudQuiet
  <2>2. Passes(t, run.trail) /\ IsTrail(run.trail)
    BY <1>1, <2>1 DEF Passes
  <2>3. End(run.trail, h) = g
    BY <1>1, EndShort, LoudQuiet
  <2>4. LoudEnd(run.trail)
    BY <1>1, EndShort, LoudQuiet
  <2>5. ~NotAsAsked(t, h) => Done(t, run, h)
    BY <2>2, <2>3, <2>4, DoneLoud
  <2> QED BY <2>2, <2>5, RightDone
<1>2. Script(g, c).trail = <<Loud(g)>> /\ Changes(<<Loud(g)>>).trail = <<Loud(g)>>
  BY DEF Script, Changes, Ran
<1> QED BY <1>1, <1>2

LEMMA FailedRight ==
  ASSUME NEW t, NEW h, NEW g, NEW check, FileFit(t, g)
  PROVE  Right(t, h, ScriptFailed(g), check)
<1>1. ScriptFailed(g).trail = <<Loud(g)>>
  BY DEF ScriptFailed, Ran
<1>2. ScriptFailed(g).failed
  BY DEF ScriptFailed, Ran
<1>3. Passes(t, <<Loud(g)>>)
  BY PassesOne, LoudQuiet
<1> QED BY <1>1, <1>2, <1>3, RightFailing

LEMMA FetchRight ==
  ASSUME NEW t, NEW h, NEW check, Fits(t, h), t.module = "fetch"
  PROVE  Right(t, h, FetchRun(h, t, check), check)
<1> DEFINE g == [h EXCEPT !.got = h.node.text]
           run == FetchRun(h, t, check)
<1>1. FileFit(t, h)
  BY FileFits DEF FileModules
<1>2. HasFiles(g) /\ g.node = h.node /\ g.got = h.node.text
  <2>1. DOMAIN g = DOMAIN h /\ g.node = h.node /\ g.dir = h.dir /\ g.src = h.src /\ g.got = h.node.text
    BY <1>1 DEF FileFit, HasFiles
  <2> HIDE DEF g
  <2> QED BY <1>1, <2>1 DEF FileFit, HasFiles, Exists
<1> HIDE DEF g
<1>3. FileFit(t, g)
  BY <1>1, <1>2 DEF FileFit
<1>4. \A x : (x.node.kind = "file" => x.got = x.node.text) => Promised(t, x)
  <2>1. \A x : (x.node.kind = "file" => x.got = x.node.text) => TransferPromised(t, x)
    BY DEF TransferPromised
  <2> QED BY <2>1, PromisedBy
<1>5. CASE h.node.kind # "file"
  <2>1. run \in {Refused, Unchanged} /\ Promised(t, h)
    BY <1>4, <1>5 DEF FetchRun
  <2> HIDE DEF run
  <2> QED BY <2>1, RunParts, RightIdle DEF run
<1>6. CASE h.node.kind = "file" /\ h.got = h.node.text
  <2>1. run = Unchanged /\ Promised(t, h)
    BY <1>4, <1>6 DEF FetchRun
  <2> HIDE DEF run
  <2> QED BY <2>1, RunParts, RightIdle DEF run
<1>7. CASE h.node.kind = "file" /\ h.got # h.node.text /\ check
  <2>1. run = Reports(TRUE)
    BY <1>7 DEF FetchRun
  <2> HIDE DEF run
  <2> QED BY <1>7, <2>1, RunParts, RightIdle DEF run
<1>8. CASE h.node.kind = "file" /\ h.got # h.node.text /\ ~check
  <2>1. run = Changes(<<Loud(g)>>)
    BY <1>8 DEF FetchRun, g
  <2>2. Promised(t, g)
    BY <1>2, <1>4
  <2> HIDE DEF run
  <2> QED BY <1>3, <2>1, <2>2, ScriptRight DEF run
<1> QED BY <1>5, <1>6, <1>7, <1>8

LEMMA DirectoryRight ==
  ASSUME NEW t, NEW h, NEW check, Fits(t, h), t.module = "copy_directory"
  PROVE  Right(t, h, CopyDirectoryRun(h, t, check), check)
<1> DEFINE made == MakeDir(h)
           sent == Write(made, t.text)
           same == Exists(h) /\ (h.node.text = t.text \/ ~t.force)
           first == IF h.dir THEN <<>> ELSE <<Loud(made)>>
           two == <<Quiet(made), Loud(sent)>>
           finish == Finish(sent, t.want)
           run == CopyDirectoryRun(h, t, check)
<1>1. FileFit(t, h)
  BY FileFits DEF FileModules
<1>2. HasFiles(made) /\ made.node = h.node /\ made.dir = TRUE
  BY <1>1, AsideHosts DEF FileFit
<1>3. FileFit(t, made)
  BY <1>1, <1>2 DEF FileFit
<1> HIDE DEF made
<1>4. HasFiles(sent) /\ sent.dir = made.dir /\ sent.node.text = t.text /\ Exists(sent)
      /\ sent.node.kind = IF Exists(made) THEN made.node.kind ELSE "file"
  BY <1>2, WriteHost
<1> HIDE DEF sent
<1>5. FileFit(t, sent)
  BY <1>2, <1>3, <1>4 DEF FileFit, LineModules
<1>6. \A x : x.dir /\ (t.force => x.node.text = t.text) => Promised(t, x)
  <2>1. \A x : x.dir /\ (t.force => x.node.text = t.text) => TransferPromised(t, x)
    BY DEF TransferPromised
  <2> QED BY <2>1, PromisedBy
<1>7. Passes(t, first) /\ LoudEnd(first) /\ End(first, h) = IF h.dir THEN h ELSE made
  BY <1>3, PassesOne, PassesNone, EndShort, LoudQuiet
<1>8. Passes(t, two) /\ LoudEnd(two) /\ End(two, h) = sent /\ two # <<>>
  BY <1>3, <1>5, PassesTwo, EndShort, LoudQuiet, ShortTrails
<1>9. Passes(t, finish) /\ \A s \in Elems(finish) : Promised(t, s.host)
  <2>1. Passes(t, finish)
    BY <1>5, Finishing DEF Finish
  <2>2. IsTrail(SetFilePermissions(sent, t.want, FALSE))
        /\ \A s \in Elems(SetFilePermissions(sent, t.want, FALSE)) : Same(s.host, sent)
    BY <1>4, PermissionHosts
  <2> DEFINE perms == SetFilePermissions(sent, t.want, FALSE)
  <2>3. \A s \in Elems(finish) : Same(s.host, sent)
    <3>1. finish = Hushed(perms)
      BY DEF Finish
    <3> HIDE DEF perms, finish
    <3>2. ASSUME NEW s \in Elems(finish) PROVE Same(s.host, sent)
      <4>1. PICK y \in Elems(perms) : s = Quiet(y.host)
        BY <2>2, <3>1, <3>2, ElemsHushed DEF perms
      <4>2. Same(y.host, sent)
        BY <2>2 DEF perms
      <4> QED BY <4>1, <4>2, LoudQuiet
    <3> QED BY <3>2
  <2> HIDE DEF finish
  <2> QED BY <1>2, <1>4, <1>6, <2>1, <2>3 DEF Same
<1> HIDE DEF first, two, finish
<1>10. Promised(t, sent)
  BY <1>2, <1>4, <1>6
<1>11. CASE check
  <2>1. run.trail = <<>>
    BY <1>11 DEF CopyDirectoryRun, Reports, Ran
  <2> HIDE DEF run
  <2> QED BY <1>11, <2>1, RightIdle DEF run
<1>12. CASE ~check /\ same
  <2>1. run.trail = first \o <<>>
    BY <1>12 DEF CopyDirectoryRun, Ran, first, made
  <2> HIDE DEF run
  <2>2. IsTrail(first) /\ IsTrail(<<>>) /\ Elems(<<>>) = {}
    BY <1>7, ShortTrails, ElemsShort DEF Passes
  <2>3. run.trail = first
    BY <2>1, <2>2, TrailLast
  <2>4. Promised(t, End(first, h))
    <3>1. h.node.text = t.text \/ ~t.force
      BY <1>12
    <3>2. h.dir => Promised(t, h)
      BY <1>6, <3>1
    <3>3. Promised(t, made)
      BY <1>2, <1>6, <3>1
    <3> QED BY <1>7, <3>2, <3>3
  <2>5. Done(t, run, h)
    BY <1>7, <2>2, <2>3, <2>4, DoneLoud
  <2> QED BY <1>7, <2>3, <2>5, RightDone DEF run
<1>13. CASE ~check /\ ~same
  <2>1. run.trail = first \o (two \o finish)
    BY <1>13 DEF CopyDirectoryRun, Ran, first, made, two, finish, sent
  <2> HIDE DEF run, same
  <2>2. IsTrail(first) /\ IsTrail(two) /\ IsTrail(finish)
    BY <1>7, <1>8, <1>9 DEF Passes
  <2>3. first \o (two \o finish) = (first \o two) \o finish
    <3>1. PICK S1 : first \in Seq(S1)
      BY <2>2 DEF IsTrail
    <3>2. PICK S2 : two \in Seq(S2)
      BY <2>2 DEF IsTrail
    <3>3. PICK S3 : finish \in Seq(S3)
      BY <2>2 DEF IsTrail
    <3> DEFINE S == S1 \cup S2 \cup S3
    <3>4. first \in Seq(S) /\ two \in Seq(S) /\ finish \in Seq(S)
      BY <3>1, <3>2, <3>3
    <3> HIDE DEF S
    <3> QED BY <3>4
  <2> DEFINE b == first \o two
  <2>4. Passes(t, b)
    BY <1>7, <1>8, PassesJoin
  <2>5. End(b, h) = sent
    BY <1>8, <2>2, BehindEnd
  <2>6. LoudEnd(b)
    BY <1>7, <1>8, BehindLoud
  <2>7. run.trail = b \o finish
    BY <2>1, <2>3
  <2> HIDE DEF b
  <2>8. IsTrail(b)
    BY <2>4 DEF Passes
  <2>9. Done(t, run, h)
    BY <1>9, <1>10, <2>2, <2>5, <2>6, <2>7, <2>8, DoneTail
  <2>10. Passes(t, run.trail)
    BY <1>9, <2>4, <2>7, PassesJoin
  <2> QED BY <2>9, <2>10, RightDone DEF run
<1> QED BY <1>11, <1>12, <1>13

LEMMA UrlPromised ==
  ASSUME NEW t, NEW h, t.module = "get_url",
         t.sum \in {NoSum, h.node.text}, t.force /\ t.sum = NoSum => h.node.text = t.text,
         h.node.text = t.text => Permitted(h, t.want)
  PROVE  Promised(t, h)
<1>1. TransferPromised(t, h)
  BY DEF TransferPromised
<1> QED BY <1>1, PromisedBy

\* The file that get_url moves into its place: mode 600 of root, and then
\* what the task wants.
LEMMA MovedFile ==
  ASSUME NEW g, HasFiles(g), Exists(g), NEW want, want.owner \in Owners \cup {""}
  PROVE  LET moded == IF want.mode = "" THEN g ELSE Chmod(g, want.mode)
             owned == IF want.owner = "" THEN moded ELSE Chown(moded, want.owner)
         IN  HasFiles(moded) /\ HasFiles(owned) /\ Same(moded, g) /\ Same(owned, g) /\ Permitted(owned, want)
<1> DEFINE moded == IF want.mode = "" THEN g ELSE Chmod(g, want.mode)
           owned == IF want.owner = "" THEN moded ELSE Chown(moded, want.owner)
<1>1. HasFiles(moded) /\ Same(moded, g) /\ Exists(moded) /\ want.mode \in {"", RealPerm(moded).mode}
  <2>1. CASE want.mode = ""
    BY <2>1, SameAgain
  <2>2. CASE want.mode # ""
    <3> DEFINE x == Chmod(g, want.mode)
    <3>1. HasFiles(x) /\ Same(x, g) /\ RealPerm(x) = Perm(want.mode, RealPerm(g).owner)
      BY ChmodHost
    <3> HIDE DEF x
    <3>2. RealPerm(x).mode = want.mode
      <4>1. RealPerm(x) = Perm(want.mode, RealPerm(g).owner)
        BY <3>1
      <4>2. Perm(want.mode, RealPerm(g).owner).mode = want.mode
        BY DEF Perm
      <4> QED BY <4>1, <4>2
    <3>3. moded = x
      BY <2>2 DEF x
    <3> HIDE DEF moded
    <3> QED BY <3>1, <3>2, <3>3 DEF Same, Exists
  <2> QED BY <2>1, <2>2
<1> HIDE DEF moded
<1>2. CASE want.owner = ""
  <2>1. owned = moded
    BY <1>2
  <2> HIDE DEF owned
  <2> QED BY <1>1, <1>2, <2>1 DEF Permitted, owned, moded
<1>3. CASE want.owner # ""
  <2> DEFINE x == Chown(moded, want.owner)
  <2>1. HasFiles(x) /\ Same(x, moded) /\ RealPerm(x) = Perm(RealPerm(moded).mode, want.owner)
    BY <1>1, <1>3, ChownHost
  <2>2. owned = x
    BY <1>3
  <2> HIDE DEF x, owned
  <2>3. RealPerm(x).mode = RealPerm(moded).mode /\ RealPerm(x).owner = want.owner
    <3> DEFINE p == Perm(RealPerm(moded).mode, want.owner)
    <3>1. p.mode = RealPerm(moded).mode /\ p.owner = want.owner
      BY DEF Perm
    <3> HIDE DEF p
    <3>2. RealPerm(x) = p
      BY <2>1 DEF p
    <3> QED BY <3>1, <3>2
  <2>4. Permitted(x, want) /\ Same(x, g)
    BY <1>1, <2>1, <2>3, SameAgain DEF Permitted
  <2> QED BY <1>1, <2>1, <2>2, <2>4 DEF owned, moded
<1> QED BY <1>2, <1>3 DEF moded

LEMMA UrlRight ==
  ASSUME NEW t, NEW h, NEW check, Fits(t, h), t.module = "get_url"
  PROVE  Right(t, h, GetURLRun(h, t, check), check)
<1> DEFINE made == MakeDir(h)
           kept == BackupIf(made, t.backup)
           new == Node("file", t.text, Perm("600", "root"))
           moved == [kept EXCEPT !.node = new]
           moded == IF t.want.mode = "" THEN moved ELSE Chmod(moved, t.want.mode)
           owned == IF t.want.owner = "" THEN moded ELSE Chown(moded, t.want.owner)
           run == GetURLRun(h, t, check)
           right == Exists(h) /\ IF t.sum # NoSum THEN h.node.text = t.sum ELSE ~t.force
<1>1. FileFit(t, h) /\ "want" \in DOMAIN t
  BY FileFits DEF FileModules, Fits, FitsFiles
<1>2. HasFiles(made) /\ made.node = h.node /\ made.dir = TRUE
  BY <1>1, AsideHosts DEF FileFit
<1>3. FileFit(t, made)
  BY <1>1, <1>2 DEF FileFit
<1> HIDE DEF made
<1>4. HasFiles(kept) /\ kept.dir = TRUE
  <2>1. HasFiles(kept) /\ Same(kept, made)
    BY <1>2, AsideHosts
  <2> QED BY <1>2, <2>1 DEF Same
<1> HIDE DEF kept
<1>5. HasFiles(moved) /\ moved.node = new
  <2>1. IsNode(new)
    BY NodeParts
  <2>2. new.kind = "file"
    BY DEF Node
  <2> HIDE DEF new
  <2>3. DOMAIN moved = DOMAIN kept /\ moved.node = new /\ moved.dir = kept.dir /\ moved.src = kept.src
    BY <1>4 DEF HasFiles
  <2> HIDE DEF moved
  <2> QED BY <1>4, <2>1, <2>2, <2>3, NodeHost
<1>6. new.text = t.text /\ Exists(moved) /\ moved.node.kind = "file"
  <2>1. new.text = t.text
    BY NodeParts
  <2>2. new.kind = "file"
    BY DEF Node
  <2> HIDE DEF new, moved
  <2> QED BY <1>5, <2>1, <2>2 DEF Exists
<1> HIDE DEF new, moved
<1>7. t.want.owner \in Owners \cup {""} =>
        HasFiles(moded) /\ HasFiles(owned) /\ Same(moded, moved) /\ Same(owned, moved) /\ Permitted(owned, t.want)
  BY <1>5, <1>6, MovedFile
<1>8. HasFiles(moded) /\ Same(moded, moved)
  BY <1>5, ChmodHost, SameAgain
<1> HIDE DEF moded
<1>9. FileFit(t, moved)
  BY <1>1, <1>5, <1>6 DEF FileFit, LineModules
<1>10. CASE check
  <2>1. run.trail = <<>>
    BY <1>10 DEF GetURLRun, Reports, Ran
  <2> HIDE DEF run
  <2> QED BY <1>10, <2>1, RightIdle DEF run
<1>11. CASE ~check /\ right
  <2>1. run = Script(h, FALSE)
    BY <1>11 DEF GetURLRun
  <2> HIDE DEF run
  <2>2. ~NotAsAsked(t, h) => Promised(t, h)
    <3>1. ~NotAsAsked(t, h) => h.node.text # t.text
      BY <1>11 DEF NotAsAsked
    <3>2. t.sum \in {NoSum, h.node.text} /\ (t.force /\ t.sum = NoSum => h.node.text = t.text)
      BY <1>11
    <3> QED BY <3>1, <3>2, UrlPromised
  <2>3. Right(t, h, Script(h, FALSE), check)
    BY <1>1, <2>2, ScriptRight
  <2> QED BY <2>1, <2>3 DEF run
<1>12. CASE ~check /\ ~right /\ t.sum \notin {NoSum, t.text}
  <2>1. run = ScriptFailed(made)
    BY <1>12 DEF GetURLRun, made
  <2> HIDE DEF run
  <2>2. Right(t, h, ScriptFailed(made), check)
    BY <1>3, FailedRight
  <2> QED BY <2>1, <2>2 DEF run
<1>13. CASE ~check /\ ~right /\ t.sum \in {NoSum, t.text} /\ Exists(h) /\ h.node.text = t.text
  <2>1. run = Script(made, FALSE)
    BY <1>13 DEF GetURLRun, made
  <2> HIDE DEF run
  <2>2. NotAsAsked(t, h)
    BY <1>13 DEF NotAsAsked
  <2>3. Right(t, h, Script(made, FALSE), check)
    BY <1>3, <2>2, ScriptRight
  <2> QED BY <2>1, <2>3 DEF run
<1>14. CASE ~check /\ ~right /\ t.sum \in {NoSum, t.text} /\ ~(Exists(h) /\ h.node.text = t.text)
            /\ t.want.owner \notin Owners \cup {""}
  <2>1. run = ScriptFailed(moded)
    BY <1>14 DEF GetURLRun, made, kept, new, moved, moded
  <2> HIDE DEF run
  <2>2. FileFit(t, moded)
    BY <1>8, <1>9, FitSame
  <2>3. Right(t, h, ScriptFailed(moded), check)
    BY <2>2, FailedRight
  <2> QED BY <2>1, <2>3 DEF run
<1>15. CASE ~check /\ ~right /\ t.sum \in {NoSum, t.text} /\ ~(Exists(h) /\ h.node.text = t.text)
            /\ t.want.owner \in Owners \cup {""}
  <2>1. run = Script(owned, TRUE)
    BY <1>15 DEF GetURLRun, made, kept, new, moved, moded
  <2> HIDE DEF run
  <2>2. HasFiles(owned) /\ Same(owned, moved) /\ Permitted(owned, t.want)
    BY <1>7, <1>15 DEF moded
  <2> HIDE DEF owned
  <2>3. FileFit(t, owned)
    BY <1>9, <2>2, FitSame
  <2>4. owned.node.text = t.text
    BY <1>5, <1>6, <2>2 DEF Same
  <2>5. Promised(t, owned)
    BY <1>15, <2>2, <2>4, UrlPromised
  <2>6. Right(t, h, Script(owned, TRUE), check)
    BY <2>3, <2>5, ScriptRight
  <2> QED BY <2>1, <2>6 DEF run
<1> QED BY <1>10, <1>11, <1>12, <1>13, <1>14, <1>15

-----------------------------------------------------------------------------
(* lineinfile, blockinfile and replace                                     *)

LEMMA EndSplit ==
  ASSUME NEW a, NEW b, NEW h, IsTrail(a), IsTrail(b)
  PROVE  End(a \o b, h) = End(b, End(a, h))
<1> DEFINE x == End(a, h)
<1> HIDE DEF x
<1> QED BY EndJoin DEF x

LEMMA EndPasses ==
  ASSUME NEW t, NEW a, NEW b, NEW h, Passes(t, a), Passes(t, b)
  PROVE  End(a \o b, h) = End(b, End(a, h))
BY EndSplit DEF Passes

LEMMA EndOne == \A a, h : End(<<a>>, h) = a.host
BY EndShort

LEMMA EndTwo == \A a, b, h : End(<<a, b>>, h) = b.host
BY EndShort

\* g is h with the text written, where there is a directory for it.
Written(g, h, text) == h.dir => /\ g.node.text = text /\ Exists(g)
                                /\ g.node.kind = "link" => h.node.kind = "link"

\* The hosts on the way of a text that is written back.
LEMMA BackHosts ==
  ASSUME NEW t, NEW h, NEW text, FileFit(t, h), t.module \in LineModules, IsList(text.lines), NEW asked, NEW validate
  PROVE  LET kept == BackupIf(h, asked)
             done == Write(kept, text)
             tmp(g) == IF validate THEN [g EXCEPT !.tmp = Node("file", text, Default)] ELSE g
         IN  FileFit(t, tmp(kept)) /\ FileFit(t, tmp(done)) /\ Written(tmp(done), h, text)
<1> DEFINE kept == BackupIf(h, asked)
           done == Write(kept, text)
           tmp(g) == IF validate THEN [g EXCEPT !.tmp = Node("file", text, Default)] ELSE g
<1>1. HasFiles(h) /\ h.node.kind # "dir"
  BY DEF FileFit, LineModules
<1>2. HasFiles(kept) /\ kept.node = h.node /\ Same(kept, h)
  BY <1>1, AsideHosts
<1>3. FileFit(t, kept)
  BY <1>2 DEF FileFit
<1> HIDE DEF kept
<1>4. /\ HasFiles(done) /\ (~kept.dir => done = kept)
      /\ kept.dir => done.node.text = text /\ Exists(done) /\ done.node.kind = IF Exists(kept) THEN kept.node.kind ELSE "file"
  BY <1>2, WriteHost
<1>5. kept.dir = h.dir /\ (Exists(kept) <=> Exists(h))
  BY <1>2 DEF Same, Exists
<1> HIDE DEF done
<1>6. h.dir => done.node.text = text /\ Exists(done) /\ (done.node.kind = "link" => h.node.kind = "link")
  BY <1>2, <1>4, <1>5
<1>7. FileFit(t, done)
  <2>1. CASE h.dir
    <3>1. done.node.kind # "dir"
      BY <1>1, <1>2, <1>4, <1>5, <2>1
    <3> QED BY <1>4, <1>6, <2>1, <3>1 DEF FileFit, LineModules
  <2>2. CASE ~h.dir
    BY <1>3, <1>4, <1>5, <2>2
  <2> QED BY <2>1, <2>2
<1>8. ASSUME NEW g, FileFit(t, g) PROVE FileFit(t, tmp(g)) /\ tmp(g).node = g.node
  <2>1. HasFiles(g)
    BY <1>8 DEF FileFit
  <2>2. HasFiles(WriteTmp(g, text)) /\ WriteTmp(g, text).node = g.node
    BY <2>1, AsideHosts
  <2>3. tmp(g) = IF validate THEN WriteTmp(g, text) ELSE g
    BY DEF WriteTmp
  <2> HIDE DEF tmp
  <2> QED BY <1>8, <2>2, <2>3 DEF FileFit
<1>9. FileFit(t, tmp(kept)) /\ FileFit(t, tmp(done)) /\ tmp(done).node = done.node
  BY <1>3, <1>7, <1>8
<1> HIDE DEF tmp
<1>10. h.dir => tmp(done).node.text = text /\ Exists(tmp(done)) /\ (tmp(done).node.kind = "link" => h.node.kind = "link")
  BY <1>6, <1>9 DEF Exists
<1>11. Written(tmp(done), h, text)
  BY <1>10 DEF Written
<1> QED BY <1>9, <1>11 DEF tmp, done, kept

\* The text, with the permissions that u wants, is what t asks for.
Suffices(t, u, h, text) ==
  /\ u.want.owner \in Owners \cup {""}
  /\ h.node.kind = "link" => u.want.mode # LinkPerm.mode /\ u.want.owner # LinkPerm.owner
  /\ \A g : g.node.text = text /\ Permitted(g, u.want) => Promised(t, g)

\* A text written back: u is the task, or the task with no permissions.
LEMMA WriteBackRight ==
  ASSUME NEW t, NEW u, NEW h, NEW text, NEW check, FileFit(t, h), t.module \in LineModules, IsList(text.lines),
         u.want # AsIs => CutUnseen(t),
         ~NotAsAsked(t, h) => Suffices(t, u, h, text)
  PROVE  Right(t, h, WriteBack(h, u, text), check)
<1> DEFINE up == WriteTmp(h, text)
           staged == IF u.validate THEN <<Loud(up), Loud(up)>> ELSE <<>>
           kept == BackupIf(h, u.backup)
           tmp(g) == IF u.validate THEN [g EXCEPT !.tmp = Node("file", text, Default)] ELSE g
           first == tmp(kept)
           done == tmp(Write(kept, text))
           perms == SetFilePermissions(done, u.want, FALSE)
           final == IF perms = <<>> THEN done ELSE perms[Len(perms)].host
           drop == IF u.validate THEN <<Quiet(DropTmp(final))>> ELSE <<>>
           two == <<Quiet(first), Loud(done)>>
           front == staged \o two
           set == Hushed(perms)
           whole == front \o set \o drop
           run == WriteBack(h, u, text)
<1>1. FileFit(t, up) /\ HasFiles(h)
  <2>1. HasFiles(h)
    BY DEF FileFit
  <2>2. HasFiles(up) /\ up.node = h.node
    BY <2>1, AsideHosts
  <2> HIDE DEF up
  <2> QED BY <2>1, <2>2 DEF FileFit
<1>2. FileFit(t, first) /\ FileFit(t, done) /\ Written(done, h, text)
  BY BackHosts
<1>3. h.dir => done.node.text = text /\ Exists(done) /\ (done.node.kind = "link" => h.node.kind = "link")
  <2> HIDE DEF done
  <2> QED BY <1>2 DEF Written
<1>4. CASE Rejects(u, text)
  <2>1. run = Ran(<<Loud(up), Quiet(h)>>, FALSE, TRUE)
    BY <1>4 DEF WriteBack, up
  <2> HIDE DEF run, up
  <2>2. Passes(t, <<Loud(up), Quiet(h)>>)
    BY <1>1, PassesTwo, LoudQuiet
  <2>3. run.trail = <<Loud(up), Quiet(h)>>
    BY <2>1 DEF Ran
  <2>4. run.failed
    BY <2>1, RanFails
  <2> QED BY <2>2, <2>3, <2>4, RightFailing DEF run
<1>5. CASE ~Rejects(u, text)
  <2>1. run = Ran(whole, TRUE, ~h.dir)
    BY <1>5 DEF WriteBack, up
  <2> HIDE DEF run, whole
  <2>2. run.trail = whole
    BY <2>1 DEF Ran
  <2>3. run.failed <=> ~h.dir
    BY <2>1 DEF Ran
  <2> HIDE DEF up, first
  <2>4. Passes(t, staged)
    BY <1>1, PassesTwo, PassesNone, LoudQuiet
  <2> HIDE DEF staged, kept, tmp
  <2>5. Passes(t, two) /\ LoudEnd(two) /\ End(two, h) = done /\ two # <<>>
    <3> HIDE DEF done
    <3>1. Passes(t, two)
      BY <1>2, PassesTwo, LoudQuiet DEF done
    <3>2. End(two, h) = done
      <4>1. End(two, h) = Loud(done).host
        BY EndTwo
      <4> QED BY <4>1, LoudQuiet
    <3>3. LoudEnd(two)
      BY EndShort, LoudQuiet
    <3>4. two # <<>>
      BY ShortTrails
    <3> QED BY <3>1, <3>2, <3>3, <3>4 DEF done
  <2> HIDE DEF two, done
  <2>6. Passes(t, front) /\ End(front, h) = done
    <3>1. IsTrail(staged) /\ IsTrail(two)
      BY <2>4, <2>5 DEF Passes
    <3>2. Passes(t, front)
      BY <2>4, <2>5, PassesJoin
    <3>3. End(front, h) = End(two, h)
      BY <2>5, <3>1, BehindEnd
    <3> QED BY <2>5, <3>2, <3>3
  <2>7. LoudEnd(front)
    BY <2>4, <2>5, BehindLoud
  <2> HIDE DEF front
  <2>8. Passes(t, perms) /\ Passes(t, set) /\ FileFit(t, End(perms, done)) /\ Same(End(perms, done), done)
        /\ End(set, done) = End(perms, done)
    BY <1>2, Finishing
  <2>9. final = End(perms, done)
    BY DEF End
  <2>10. ~NotAsAsked(t, h) /\ h.dir => Permitted(final, u.want)
    BY <1>2, <1>3, <2>9, Finishing DEF Suffices
  <2> HIDE DEF perms, final, set
  <2>11. FileFit(t, final) /\ final.node.text = done.node.text
    BY <2>8, <2>9 DEF Same
  <2>12. ~NotAsAsked(t, h) /\ h.dir => Promised(t, final)
    BY <1>3, <2>10, <2>11 DEF Suffices
  <2> DEFINE dropped == DropTmp(final)
  <2>13. HasFiles(dropped) /\ dropped.node = final.node /\ Same(dropped, final)
    BY <2>11, AsideHosts DEF FileFit
  <2>14. RealPerm(dropped) = RealPerm(final)
    <3>1. \A x : x \in {"node", "src"} => dropped[x] = final[x]
      BY <2>11 DEF DropTmp, FileFit, HasFiles
    <3>2. dropped.node = final.node /\ dropped.src = final.src
      BY <3>1
    <3> HIDE DEF dropped
    <3> QED BY <3>2 DEF RealPerm
  <2> HIDE DEF dropped
  <2>15. FileFit(t, dropped)
    BY <2>11, <2>13 DEF FileFit
  <2>16. ~NotAsAsked(t, h) /\ h.dir => Promised(t, dropped)
    <3>1. ~NotAsAsked(t, h) /\ h.dir => Permitted(dropped, u.want)
      BY <2>10, <2>14 DEF Permitted
    <3> QED BY <1>3, <2>11, <2>13, <3>1 DEF Suffices
  <2>17. drop = IF u.validate THEN <<Quiet(dropped)>> ELSE <<>>
    BY DEF dropped
  <2> HIDE DEF drop
  <2>18. Passes(t, drop) /\ \A s \in Elems(drop) : s.host = dropped
    <3>1. Passes(t, <<Quiet(dropped)>>) /\ Elems(<<Quiet(dropped)>>) = {Quiet(dropped)} /\ Elems(<<>>) = {}
      BY <2>15, PassesOne, LoudQuiet, ElemsShort
    <3> QED BY <2>17, <3>1, PassesNone, LoudQuiet
  <2> DEFINE mid == front \o set
  <2>19. Passes(t, mid) /\ End(mid, h) = final
    <3>1. IsTrail(front) /\ IsTrail(set)
      BY <2>6, <2>8 DEF Passes
    <3>2. End(mid, h) = End(set, End(front, h))
      BY <2>6, <2>8, EndPasses
    <3> QED BY <2>6, <2>8, <2>9, <3>2, PassesJoin
  <2> HIDE DEF mid
  <2>20. run.trail = mid \o drop /\ Passes(t, run.trail)
    <3>1. run.trail = mid \o drop
      BY <2>2 DEF mid, whole
    <3> QED BY <2>18, <2>19, <3>1, PassesJoin
  <2>21. ASSUME ~NotAsAsked(t, h) PROVE Done(t, run, h)
    <3>1. CASE u.want # AsIs
      <4>1. End(run.trail, h) \in {final, dropped}
        <5>1. CASE u.validate
          <6>1. drop = <<Quiet(dropped)>> /\ drop # <<>>
            BY <2>17, <5>1, ShortTrails
          <6>2. IsTrail(mid) /\ IsTrail(drop)
            BY <2>18, <2>19 DEF Passes
          <6>3. End(mid \o drop, h) = End(drop, h)
            <7>1. drop # <<>>
              BY <6>1
            <7> QED BY <6>2, <7>1, BehindEnd
          <6>4. End(drop, h) = dropped
            BY <6>1, EndOne, LoudQuiet
          <6> QED BY <2>20, <6>3, <6>4
        <5>2. CASE ~u.validate
          <6>1. drop = <<>>
            BY <2>17, <5>2
          <6>2. run.trail = mid
            BY <2>19, <2>20, <6>1, TrailLast, ShortTrails DEF Passes
          <6> QED BY <2>19, <6>2
        <5> QED BY <5>1, <5>2
      <4>2. ~run.failed => Promised(t, End(run.trail, h))
        BY <2>3, <2>12, <2>16, <2>21, <4>1
      <4> QED BY <2>20, <3>1, <4>2, DoneLoud DEF Passes
    <3>2. CASE u.want = AsIs
      <4>1. perms = <<>> /\ set = <<>>
        BY <3>2, NothingToSet DEF perms, set
      <4>2. mid = front
        BY <2>6, <4>1, TrailLast, ShortTrails DEF mid, Passes
      <4>3. run.trail = front \o drop
        BY <2>20, <4>2
      <4>4. End(front, h) = final
        BY <2>19, <4>2
      <4>5. IsTrail(front) /\ IsTrail(drop)
        BY <2>6, <2>18 DEF Passes
      <4>6. ~run.failed => Promised(t, End(front, h)) /\ \A s \in Elems(drop) : Promised(t, s.host)
        BY <2>3, <2>12, <2>16, <2>18, <2>21, <4>4
      <4> QED BY <2>7, <4>3, <4>5, <4>6, DoneTail
    <3> QED BY <3>1, <3>2
  <2> QED BY <2>20, <2>21, RightDone DEF run
<1> QED BY <1>4, <1>5

-----------------------------------------------------------------------------
(* Sequences.  Induction on a set of numbers, and the functions that are   *)
(* defined by recursion.                                                   *)

LEMMA SetInduction ==
  ASSUME NEW S, 0 \in S, \A n \in Nat : n \in S => n + 1 \in S
  PROVE  Nat \subseteq S
<1> DEFINE T == Nat \ S
           R == OpToRel(<, Nat)
<1>1. IsWellFoundedOn(R, Nat)
  BY NatLessThanWellFounded
<1>2. ASSUME T # {} PROVE FALSE
  <2>1. PICK x \in T : \A y \in T : ~(<<y, x>> \in R)
    <3> HIDE DEF R
    <3> QED BY <1>1, <1>2, WFMin
  <2>2. x # 0 /\ x \in Nat
    OBVIOUS
  <2>3. x - 1 \in Nat /\ x - 1 < x
    BY <2>2
  <2>4. x - 1 \in T
    BY <2>3
  <2>5. <<x - 1, x>> \in R
    BY <2>2, <2>3 DEF OpToRel
  <2> QED BY <2>1, <2>4, <2>5
<1> QED BY <1>2

Recursive(f, k, N, V, v, G) ==
  f \in [k..N -> V] /\ \A i \in k..N : f[i] = IF i = k THEN v ELSE G[<<i, f[i - 1]>>]

\* A function from k on, given its first value and each next one.
LEMMA Recursion ==
  ASSUME NEW k \in Nat, NEW N \in Nat, k <= N, NEW V, NEW v \in V, NEW G \in [(k..N) \X V -> V]
  PROVE  \E f : Recursive(f, k, N, V, v, G)
<1> DEFINE Good(n, f) == f \in [k..N -> V] /\ \A i \in k..(k + n) : f[i] = (IF i = k THEN v ELSE G[<<i, f[i - 1]>>])
           S == {n \in Nat : k + n <= N => \E f : Good(n, f)}
<1>1. 0 \in S
  <2>1. Good(0, [i \in k..N |-> v])
    OBVIOUS
  <2> QED BY <2>1
<1>2. ASSUME NEW n \in Nat, n \in S PROVE n + 1 \in S
  <2> SUFFICES ASSUME k + (n + 1) <= N PROVE \E f : Good(n + 1, f)
    OBVIOUS
  <2> DEFINE m == k + n
  <2>1. PICK f : Good(n, f)
    BY <1>2
  <2> DEFINE x == G[<<m + 1, f[m]>>]
             g == [f EXCEPT ![m + 1] = x]
  <2>2. m \in k..N /\ m + 1 \in k..N /\ m + 1 # k /\ f[m] \in V /\ k + (n + 1) = m + 1
    BY <2>1
  <2>3. x \in V
    BY <2>2
  <2>4. g \in [k..N -> V]
    BY <2>1, <2>3
  <2>5. ASSUME NEW i \in k..(m + 1) PROVE g[i] = (IF i = k THEN v ELSE G[<<i, g[i - 1]>>])
    <3>1. CASE i = m + 1
      <4>1. g[i] = x /\ g[m] = f[m] /\ i - 1 = m /\ i # k
        BY <2>1, <2>2, <3>1
      <4> QED BY <4>1, <3>1
    <3>2. CASE i # m + 1
      <4>1. i \in k..(k + n) /\ i \in k..N
        BY <3>2, <2>2
      <4>2. g[i] = f[i]
        BY <2>1, <4>1, <3>2
      <4>3. i # k => g[i - 1] = f[i - 1]
        BY <2>1, <4>1
      <4> QED BY <2>1, <4>1, <4>2, <4>3
    <3> QED BY <3>1, <3>2
  <2>6. \A i \in k..(k + (n + 1)) : g[i] = (IF i = k THEN v ELSE G[<<i, g[i - 1]>>])
    <3> HIDE DEF g, m
    <3> QED BY <2>2, <2>5
  <2> HIDE DEF g
  <2>7. Good(n + 1, g)
    BY <2>4, <2>6
  <2> QED BY <2>7
<1>3. N - k \in S
  <2> HIDE DEF S
  <2> QED BY <1>1, <1>2, SetInduction
<1>4. PICK f : Good(N - k, f)
  BY <1>3
<1>5. Recursive(f, k, N, V, v, G)
  BY <1>4 DEF Recursive
<1> QED BY <1>5

\* What FlattenSeq joins, one sequence after the other.
LEMMA Flattening ==
  ASSUME NEW S, NEW p \in Seq(Seq(S)), p # <<>>
  PROVE  \E f \in [1..Len(p) -> Seq(S)] :
           /\ f[1] = p[1] /\ \A i \in 2..Len(p) : f[i] = f[i - 1] \o p[i]
           /\ FlattenSeq(p) = f[Len(p)]
<1> DEFINE N == Len(p)
           G == [x \in (1..N) \X Seq(S) |-> x[2] \o p[x[1]]]
           Defines(F) == F = [i \in 1..N |-> IF i = 1 THEN p[i] ELSE F[i - 1] \o p[i]]
           flat == CHOOSE F : Defines(F)
<1>1. N \in Nat /\ 1 <= N /\ p[1] \in Seq(S)
  OBVIOUS
<1>2. G \in [(1..N) \X Seq(S) -> Seq(S)]
  OBVIOUS
<1>3. PICK f \in [1..N -> Seq(S)] : \A i \in 1..N : f[i] = IF i = 1 THEN p[1] ELSE G[<<i, f[i - 1]>>]
  <2> DEFINE V == Seq(S)
             v == p[1]
  <2>1. v \in V /\ 1 \in Nat /\ N \in Nat /\ 1 <= N /\ G \in [(1..N) \X V -> V]
    BY <1>1, <1>2
  <2> HIDE DEF G, N, V, v
  <2>2. \E f : Recursive(f, 1, N, V, v, G)
    BY <2>1, Recursion
  <2> QED BY <2>2 DEF V, v, Recursive
<1>4. Defines(f)
  <2>1. ASSUME NEW i \in 1..N, i # 1 PROVE G[<<i, f[i - 1]>>] = f[i - 1] \o p[i]
    <3>0. i - 1 \in 1..N
      <4> HIDE DEF N
      <4> QED BY <2>1, <1>1
    <3>1. f[i - 1] \in Seq(S)
      <4> HIDE DEF N
      <4> QED BY <3>0, <1>3
    <3>2. \A q \in Seq(S) : G[<<i, q>>] = q \o p[i]
      BY <2>1
    <3> HIDE DEF G
    <3> QED BY <3>1, <3>2
  <2>2. \A i \in 1..N : f[i] = IF i = 1 THEN p[i] ELSE f[i - 1] \o p[i]
    <3> HIDE DEF G
    <3>1. \A i \in 1..N : f[i] = IF i = 1 THEN p[1] ELSE G[<<i, f[i - 1]>>]
      BY <1>3
    <3> QED BY <2>1, <3>1
  <2> HIDE DEF G
  <2> QED BY <1>3, <2>2
<1>5. Defines(flat)
  <2> HIDE DEF Defines
  <2> QED BY <1>4
<1>6. FlattenSeq(p) = flat[N]
  BY <1>1 DEF FlattenSeq
<1> HIDE DEF flat
<1>7. ASSUME NEW i \in 1..N PROVE flat[i] = f[i]
  <2> DEFINE T == {n \in Nat : n + 1 \in 1..N => flat[n + 1] = f[n + 1]}
  <2>1. 0 \in T
    BY <1>1, <1>4, <1>5
  <2>2. ASSUME NEW n \in Nat, n \in T PROVE n + 1 \in T
    <3> SUFFICES ASSUME (n + 1) + 1 \in 1..N PROVE flat[(n + 1) + 1] = f[(n + 1) + 1]
      OBVIOUS
    <3>1. n + 1 \in 1..N /\ flat[n + 1] = f[n + 1] /\ ((n + 1) + 1) - 1 = n + 1 /\ (n + 1) + 1 # 1
      BY <1>1, <2>2
    <3>2. flat[(n + 1) + 1] = flat[n + 1] \o p[(n + 1) + 1]
      BY <1>5, <3>1
    <3>3. f[(n + 1) + 1] = f[n + 1] \o p[(n + 1) + 1]
      BY <1>4, <3>1
    <3> QED BY <3>1, <3>2, <3>3
  <2>3. i - 1 \in T
    <3> HIDE DEF T
    <3>1. Nat \subseteq T
      BY <2>1, <2>2, SetInduction
    <3>2. i - 1 \in Nat
      BY <1>1
    <3> QED BY <3>1, <3>2
  <2> QED BY <2>3
<1>8. FlattenSeq(p) = f[N]
  BY <1>1, <1>6, <1>7
<1>9. f[1] = p[1] /\ \A i \in 2..N : f[i] = f[i - 1] \o p[i]
  <2>1. \A i \in 1..N : f[i] = IF i = 1 THEN p[i] ELSE f[i - 1] \o p[i]
    BY <1>4
  <2>2. 1 \in 1..N /\ \A i \in 2..N : i \in 1..N /\ i # 1
    BY <1>1
  <2> HIDE DEF N
  <2> QED BY <2>1, <2>2
<1> QED BY <1>3, <1>8, <1>9

LEMMA ListInduction ==
  ASSUME NEW S, NEW T, <<>> \in T, \A s \in Seq(S) : \A e \in S : s \in T => Append(s, e) \in T
  PROVE  Seq(S) \subseteq T
<1> DEFINE L == {n \in Nat : \A s \in Seq(S) : Len(s) = n => s \in T}
<1>1. 0 \in L
  <2>1. \A s \in Seq(S) : Len(s) = 0 => s = <<>>
    OBVIOUS
  <2> QED BY <2>1
<1>2. ASSUME NEW n \in Nat, n \in L PROVE n + 1 \in L
  <2> SUFFICES ASSUME NEW s \in Seq(S), Len(s) = n + 1 PROVE s \in T
    OBVIOUS
  <2> DEFINE r == SubSeq(s, 1, n)
  <2>1. n + 1 \in 1..Len(s) /\ s[n + 1] \in S
    OBVIOUS
  <2>2. r \in Seq(S) /\ Len(r) = n
    OBVIOUS
  <2>3. s = Append(r, s[n + 1])
    OBVIOUS
  <2>4. r \in T
    BY <1>2, <2>2
  <2> HIDE DEF r
  <2> QED BY <2>1, <2>2, <2>3, <2>4
<1>3. Nat \subseteq L
  <2> HIDE DEF L
  <2> QED BY <1>1, <1>2, SetInduction
<1>4. ASSUME NEW s \in Seq(S) PROVE s \in T
  <2>1. Len(s) \in Nat
    OBVIOUS
  <2> QED BY <1>3, <2>1
<1> QED BY <1>4

LEMMA FlattenNone == FlattenSeq(<<>>) = <<>>
BY DEF FlattenSeq

LEMMA FlattenList ==
  ASSUME NEW S, NEW p \in Seq(Seq(S))
  PROVE  FlattenSeq(p) \in Seq(S)
<1>1. CASE p = <<>>
  <2>1. <<>> \in Seq(S)
    OBVIOUS
  <2> QED BY <1>1, <2>1, FlattenNone
<1>2. CASE p # <<>>
  <2>1. PICK f \in [1..Len(p) -> Seq(S)] : FlattenSeq(p) = f[Len(p)]
    BY <1>2, Flattening
  <2>2. Len(p) \in 1..Len(p)
    BY <1>2
  <2> QED BY <2>1, <2>2
<1> QED BY <1>1, <1>2

LEMMA FlattenAppend ==
  ASSUME NEW S, NEW p \in Seq(Seq(S)), NEW q \in Seq(S)
  PROVE  FlattenSeq(Append(p, q)) = FlattenSeq(p) \o q
<1> DEFINE r == Append(p, q)
           N == Len(p)
<1>1. r \in Seq(Seq(S)) /\ r # <<>> /\ Len(r) = N + 1 /\ r[N + 1] = q /\ N \in Nat
  <2> DEFINE Q == Seq(S)
  <2>1. p \in Seq(Q) /\ q \in Q
    OBVIOUS
  <2> HIDE DEF Q
  <2>2. r \in Seq(Q) /\ Len(r) = N + 1 /\ N \in Nat
    BY <2>1
  <2>3. r[N + 1] = q
    BY <2>1
  <2>4. r # <<>>
    BY <2>1
  <2> QED BY <2>2, <2>3, <2>4 DEF Q
<1>2. \A i \in 1..N : r[i] = p[i]
  OBVIOUS
<1> HIDE DEF r
<1>3. PICK g \in [1..Len(r) -> Seq(S)] :
        g[1] = r[1] /\ (\A i \in 2..Len(r) : g[i] = g[i - 1] \o r[i]) /\ FlattenSeq(r) = g[Len(r)]
  BY <1>1, Flattening
<1>4. CASE p = <<>>
  <2>1. N = 0 /\ g[1] = q /\ FlattenSeq(r) = g[1]
    BY <1>1, <1>3, <1>4
  <2>2. <<>> \o q = q
    OBVIOUS
  <2> QED BY <1>4, <2>1, <2>2, FlattenNone DEF r
<1>5. CASE p # <<>>
  <2>1. PICK f \in [1..N -> Seq(S)] :
          f[1] = p[1] /\ (\A i \in 2..N : f[i] = f[i - 1] \o p[i]) /\ FlattenSeq(p) = f[N]
    BY <1>5, Flattening
  <2> DEFINE T == {n \in Nat : n + 1 <= N => g[n + 1] = f[n + 1]}
  <2>2. 0 \in T /\ N # 0
    BY <1>1, <1>2, <1>3, <1>5, <2>1
  <2>3. ASSUME NEW n \in Nat, n \in T PROVE n + 1 \in T
    <3> SUFFICES ASSUME (n + 1) + 1 <= N PROVE g[(n + 1) + 1] = f[(n + 1) + 1]
      OBVIOUS
    <3>1. g[n + 1] = f[n + 1] /\ ((n + 1) + 1) - 1 = n + 1 /\ (n + 1) + 1 \in 2..N
      BY <1>1, <2>3
    <3>2. (n + 1) + 1 \in 2..Len(r) /\ (n + 1) + 1 \in 1..N
      BY <1>1, <3>1
    <3>3. g[(n + 1) + 1] = g[n + 1] \o r[(n + 1) + 1]
      BY <1>3, <3>1, <3>2
    <3>4. f[(n + 1) + 1] = f[n + 1] \o p[(n + 1) + 1]
      BY <2>1, <3>1
    <3> QED BY <1>2, <3>1, <3>2, <3>3, <3>4
  <2>4. Nat \subseteq T
    <3> HIDE DEF T
    <3> QED BY <2>2, <2>3, SetInduction
  <2>5. N - 1 \in Nat /\ (N - 1) + 1 = N
    BY <1>1, <2>2
  <2>6. g[N] = f[N]
    <3> DEFINE m == N - 1
    <3>1. m \in Nat /\ m + 1 = N
      BY <2>5
    <3> HIDE DEF m, N
    <3>2. m \in T
      BY <2>4, <3>1
    <3>3. g[m + 1] = f[m + 1]
      BY <1>1, <3>1, <3>2
    <3> QED BY <3>1, <3>3
  <2>7. N + 1 \in 2..Len(r) /\ (N + 1) - 1 = N
    BY <1>1, <2>2
  <2>8. g[N + 1] = g[N] \o q
    BY <1>1, <1>3, <2>7
  <2> QED BY <1>1, <1>3, <2>1, <2>6, <2>8 DEF r
<1> QED BY <1>4, <1>5

\* What is in the sequences that are joined.
LEMMA FlattenElems ==
  ASSUME NEW S, NEW p \in Seq(Seq(S))
  PROVE  Elems(FlattenSeq(p)) = UNION {Elems(p[i]) : i \in DOMAIN p}
<1> DEFINE T == {q \in Seq(Seq(S)) : Elems(FlattenSeq(q)) = UNION {Elems(q[i]) : i \in DOMAIN q}}
<1>1. <<>> \in T
  <2>1. Elems(FlattenSeq(<<>>)) = {}
    BY FlattenNone DEF Elems
  <2>2. UNION {Elems(<<>>[i]) : i \in DOMAIN <<>>} = {}
    OBVIOUS
  <2> QED BY <2>1, <2>2
<1>2. ASSUME NEW q \in Seq(Seq(S)), NEW e \in Seq(S), q \in T PROVE Append(q, e) \in T
  <2> DEFINE r == Append(q, e)
  <2>1. r \in Seq(Seq(S)) /\ DOMAIN r = DOMAIN q \cup {Len(q) + 1} /\ r[Len(q) + 1] = e
    OBVIOUS
  <2>2. \A i \in DOMAIN q : r[i] = q[i]
    OBVIOUS
  <2> HIDE DEF r
  <2>3. IsTrail(FlattenSeq(q)) /\ IsTrail(e)
    BY FlattenList DEF IsTrail
  <2>4. Elems(FlattenSeq(r)) = Elems(FlattenSeq(q)) \cup Elems(e)
    <3> DEFINE x == FlattenSeq(q)
    <3>1. FlattenSeq(r) = x \o e
      BY FlattenAppend DEF r
    <3> HIDE DEF x
    <3>2. Elems(x \o e) = Elems(x) \cup Elems(e)
      BY <2>3, ElemsJoin DEF x
    <3> QED BY <3>1, <3>2 DEF x
  <2>5. UNION {Elems(r[i]) : i \in DOMAIN r} = (UNION {Elems(q[i]) : i \in DOMAIN q}) \cup Elems(e)
    <3> HIDE DEF Elems
    <3> QED BY <2>1, <2>2
  <2> QED BY <1>2, <2>1, <2>4, <2>5 DEF r
<1>3. Seq(Seq(S)) \subseteq T
  <2> DEFINE Q == Seq(S)
  <2> HIDE DEF T
  <2>1. \A s \in Seq(Q) : \A e \in Q : s \in T => Append(s, e) \in T
    BY <1>2
  <2> HIDE DEF Q
  <2>2. Seq(Q) \subseteq T
    BY <1>1, <2>1, ListInduction
  <2> QED BY <2>2 DEF Q
<1> QED BY <1>3

\* The elements of a sequence that are in a set, in their order.
Kept1(e, K) == IF e \in K THEN <<e>> ELSE <<>>
Keep(s, K)  == FlattenSeq([i \in DOMAIN s |-> Kept1(s[i], K)])

LEMMA KeepNothing == ASSUME NEW K PROVE Keep(<<>>, K) = <<>>
<1>1. [i \in DOMAIN <<>> |-> Kept1(<<>>[i], K)] = <<>>
  OBVIOUS
<1> QED BY <1>1, FlattenNone DEF Keep

LEMMA AppendIs ==
  ASSUME NEW T, NEW p \in Seq(T), NEW k \in T, NEW n, n = Len(p)
  PROVE  Append(p, k) = [i \in 1..(n + 1) |-> IF i = n + 1 THEN k ELSE p[i]]
<1>1. Append(p, k) \in Seq(T) /\ Len(Append(p, k)) = n + 1 /\ n \in Nat
  OBVIOUS
<1>2. Append(p, k)[n + 1] = k /\ \A i \in 1..n : Append(p, k)[i] = p[i]
  OBVIOUS
<1>3. Append(p, k) = [i \in 1..(n + 1) |-> Append(p, k)[i]]
  <2> DEFINE a == Append(p, k)
  <2>1. a \in Seq(T) /\ Len(a) = n + 1
    BY <1>1
  <2> HIDE DEF a
  <2>2. DOMAIN a = 1..(n + 1)
    BY <1>1, <2>1
  <2>3. a = [i \in DOMAIN a |-> a[i]]
    BY <2>1
  <2> QED BY <2>2, <2>3 DEF a
<1>4. ASSUME NEW i \in 1..(n + 1) PROVE Append(p, k)[i] = IF i = n + 1 THEN k ELSE p[i]
  BY <1>1, <1>2
<1> QED BY <1>3, <1>4

LEMMA KeepParts ==
  ASSUME NEW S, NEW K, NEW s \in Seq(S)
  PROVE  /\ [i \in DOMAIN s |-> Kept1(s[i], K)] \in Seq(Seq(S))
         /\ Keep(s, K) \in Seq(S) /\ Elems(Keep(s, K)) = Elems(s) \cap K
<1> DEFINE p == [i \in DOMAIN s |-> Kept1(s[i], K)]
           Q == Seq(S)
<1>1. p \in Seq(Q)
  <2>1. \A i \in DOMAIN s : Kept1(s[i], K) \in Q
    BY DEF Kept1
  <2> HIDE DEF Q
  <2> QED BY <2>1
<1>2. FlattenSeq(p) \in Seq(S)
  <2> HIDE DEF p
  <2> QED BY <1>1, FlattenList
<1>3. DOMAIN p = DOMAIN s /\ \A i \in DOMAIN s : Elems(p[i]) = {s[i]} \cap K
  <2>1. \A i \in DOMAIN s : p[i] = Kept1(s[i], K)
    OBVIOUS
  <2>2. \A e : Elems(Kept1(e, K)) = {e} \cap K
    <3>1. \A e : Elems(<<e>>) = {e} /\ Elems(<<>>) = {}
      BY ElemsShort
    <3> HIDE DEF Elems
    <3> QED BY <3>1 DEF Kept1
  <2> QED BY <2>1, <2>2
<1>4. Elems(FlattenSeq(p)) = UNION {Elems(p[i]) : i \in DOMAIN p}
  <2> HIDE DEF p
  <2> QED BY <1>1, FlattenElems
<1>5. (UNION {Elems(p[i]) : i \in DOMAIN p}) = Elems(s) \cap K
  <2> HIDE DEF p
  <2>1. (UNION {Elems(p[i]) : i \in DOMAIN p}) = UNION {{s[i]} \cap K : i \in DOMAIN s}
    BY <1>3
  <2> QED BY <2>1 DEF Elems
<1> QED BY <1>1, <1>2, <1>4, <1>5 DEF Keep

LEMMA KeepList ==
  ASSUME NEW S, NEW K, NEW s \in Seq(S)
  PROVE  Keep(s, K) \in Seq(S)
BY KeepParts

LEMMA Kept1List == ASSUME NEW S, NEW K, NEW e \in S PROVE Kept1(e, K) \in Seq(S)
BY DEF Kept1

LEMMA KeepAppend ==
  ASSUME NEW S, NEW K, NEW s \in Seq(S), NEW e \in S
  PROVE  Keep(Append(s, e), K) = Keep(s, K) \o Kept1(e, K)
<1> DEFINE r == Append(s, e)
           p == [i \in DOMAIN s |-> Kept1(s[i], K)]
           q == [i \in DOMAIN r |-> Kept1(r[i], K)]
           k == Kept1(e, K)
<1>1. p \in Seq(Seq(S)) /\ k \in Seq(S)
  <2>1. p \in Seq(Seq(S))
    BY KeepParts
  <2>2. k \in Seq(S)
    BY Kept1List
  <2> QED BY <2>1, <2>2
<1>2. q = Append(p, k)
  <2>1. DOMAIN r = 1..(Len(s) + 1) /\ r[Len(s) + 1] = e /\ (\A i \in DOMAIN s : r[i] = s[i]) /\ Len(s) \in Nat
        /\ DOMAIN s = 1..Len(s)
    OBVIOUS
  <2> HIDE DEF r
  <2>2. DOMAIN p = 1..Len(s) /\ Len(p) = Len(s) /\ \A i \in DOMAIN s : p[i] = Kept1(s[i], K)
    <3>1. DOMAIN p = 1..Len(s) /\ \A i \in DOMAIN s : p[i] = Kept1(s[i], K)
      BY <2>1
    <3> HIDE DEF p
    <3>2. Len(p) = Len(s)
      BY <1>1, <2>1, <3>1
    <3> QED BY <3>1, <3>2
  <2>3. DOMAIN q = 1..(Len(s) + 1) /\ \A i \in 1..(Len(s) + 1) : q[i] = Kept1(r[i], K)
    BY <2>1
  <2>4. q = [i \in 1..(Len(s) + 1) |-> Kept1(r[i], K)]
    BY <2>1
  <2> HIDE DEF p
  <2>5. Append(p, k) = [i \in 1..(Len(s) + 1) |-> IF i = Len(s) + 1 THEN k ELSE p[i]]
    <3> DEFINE T == Seq(S)
    <3>1. p \in Seq(T) /\ k \in T
      BY <1>1
    <3> HIDE DEF T, k
    <3> DEFINE n == Len(s)
    <3>2. n = Len(p)
      BY <2>2
    <3> HIDE DEF n
    <3>3. Append(p, k) = [i \in 1..(n + 1) |-> IF i = n + 1 THEN k ELSE p[i]]
      BY <3>1, <3>2, AppendIs
    <3> QED BY <3>3 DEF n
  <2>6. ASSUME NEW i \in 1..(Len(s) + 1) PROVE Kept1(r[i], K) = IF i = Len(s) + 1 THEN k ELSE p[i]
    <3>1. CASE i = Len(s) + 1
      BY <2>1, <3>1
    <3>2. CASE i # Len(s) + 1
      <4>1. i \in DOMAIN s
        BY <2>1, <3>2
      <4> QED BY <2>1, <2>2, <3>2, <4>1
    <3> QED BY <3>1, <3>2
  <2> HIDE DEF q, k
  <2> QED BY <2>4, <2>5, <2>6
<1> HIDE DEF p, q, r, k
<1>3. FlattenSeq(q) = FlattenSeq(p) \o k
  BY <1>1, <1>2, FlattenAppend
<1> QED BY <1>3 DEF Keep, p, q, r, k

LEMMA KeepJoin ==
  ASSUME NEW S, NEW K, NEW s \in Seq(S), NEW r \in Seq(S)
  PROVE  Keep(s \o r, K) = Keep(s, K) \o Keep(r, K)
<1> DEFINE T == {x \in Seq(S) : Keep(s \o x, K) = Keep(s, K) \o Keep(x, K)}
<1>1. <<>> \in T
  <2>1. s \o <<>> = s /\ Keep(s, K) \in Seq(S) /\ Keep(<<>>, K) = <<>> /\ <<>> \in Seq(S)
    <3>1. s \o <<>> = s /\ <<>> \in Seq(S)
      OBVIOUS
    <3>2. Keep(s, K) \in Seq(S)
      BY KeepList
    <3> QED BY <3>1, <3>2, KeepNothing
  <2>2. Keep(s, K) \o <<>> = Keep(s, K)
    BY <2>1
  <2> QED BY <2>1, <2>2
<1>2. ASSUME NEW x \in Seq(S), NEW e \in S, x \in T PROVE Append(x, e) \in T
  <2>1. s \o Append(x, e) = Append(s \o x, e) /\ s \o x \in Seq(S) /\ Append(x, e) \in Seq(S)
    OBVIOUS
  <2>2. Keep(Append(s \o x, e), K) = Keep(s \o x, K) \o Kept1(e, K)
    BY <2>1, KeepAppend
  <2>3. Keep(Append(x, e), K) = Keep(x, K) \o Kept1(e, K)
    BY KeepAppend
  <2>4. Keep(s, K) \in Seq(S) /\ Keep(x, K) \in Seq(S) /\ Kept1(e, K) \in Seq(S)
    BY KeepList, Kept1List
  <2>5. (Keep(s, K) \o Keep(x, K)) \o Kept1(e, K) = Keep(s, K) \o (Keep(x, K) \o Kept1(e, K))
    BY <2>4
  <2> QED BY <1>2, <2>1, <2>2, <2>3, <2>5
<1>3. Seq(S) \subseteq T
  <2> HIDE DEF T
  <2> QED BY <1>1, <1>2, ListInduction
<1> QED BY <1>3

LEMMA KeepFlatten ==
  ASSUME NEW S, NEW K, NEW p \in Seq(Seq(S))
  PROVE  Keep(FlattenSeq(p), K) = FlattenSeq([i \in DOMAIN p |-> Keep(p[i], K)])
<1> DEFINE Q == Seq(S)
           F(q) == [i \in DOMAIN q |-> Keep(q[i], K)]
           T == {q \in Seq(Q) : Keep(FlattenSeq(q), K) = FlattenSeq(F(q))}
<1>1. <<>> \in T
  <2>1. F(<<>>) = <<>>
    OBVIOUS
  <2>2. Keep(<<>>, K) = <<>>
    BY KeepNothing
  <2> QED BY <2>1, <2>2, FlattenNone
<1>2. ASSUME NEW q \in Seq(Q), NEW e \in Q, q \in T PROVE Append(q, e) \in T
  <2> DEFINE r == Append(q, e)
             k == Keep(e, K)
             x == FlattenSeq(q)
  <2>1. x \in Seq(S) /\ FlattenSeq(r) = x \o e /\ k \in Q
    BY FlattenList, FlattenAppend, KeepList
  <2>2. Keep(x \o e, K) = Keep(x, K) \o k
    <3> HIDE DEF x
    <3> QED BY <2>1, KeepJoin
  <2>3. F(q) \in Seq(Q)
    <3>1. \A i \in DOMAIN q : Keep(q[i], K) \in Q
      BY KeepList
    <3> HIDE DEF Q
    <3> QED BY <3>1
  <2>4. F(r) = Append(F(q), k)
    <3> HIDE DEF Q, k
    <3>1. DOMAIN r = 1..(Len(q) + 1) /\ r[Len(q) + 1] = e /\ (\A i \in DOMAIN q : r[i] = q[i]) /\ Len(q) \in Nat
          /\ DOMAIN q = 1..Len(q) /\ r \in Seq(Q)
      OBVIOUS
    <3> HIDE DEF r
    <3>2. F(r) = [i \in 1..(Len(q) + 1) |-> Keep(r[i], K)]
      BY <3>1
    <3> DEFINE f == F(q)
    <3>3. \A i \in 1..Len(q) : f[i] = Keep(q[i], K)
      BY <3>1
    <3>4. DOMAIN f = 1..Len(q) /\ f \in Seq(Q)
      BY <2>3, <3>1
    <3> HIDE DEF f
    <3>5. Len(f) = Len(q)
      BY <3>1, <3>4
    <3>6. Append(f, k) = [i \in 1..(Len(q) + 1) |-> IF i = Len(q) + 1 THEN k ELSE f[i]]
      <4> DEFINE n == Len(q)
      <4>1. n = Len(f)
        BY <3>5
      <4> HIDE DEF n
      <4>2. Append(f, k) = [i \in 1..(n + 1) |-> IF i = n + 1 THEN k ELSE f[i]]
        BY <2>1, <3>4, <4>1, AppendIs
      <4> QED BY <4>2 DEF n
    <3>7. ASSUME NEW i \in 1..(Len(q) + 1) PROVE Keep(r[i], K) = IF i = Len(q) + 1 THEN k ELSE f[i]
      <4>1. CASE i = Len(q) + 1
        BY <3>1, <4>1 DEF k
      <4>2. CASE i # Len(q) + 1
        <5>1. i \in DOMAIN q
          BY <3>1, <4>2
        <5> QED BY <3>1, <3>3, <4>2, <5>1
      <4> QED BY <4>1, <4>2
    <3>8. Append(f, k) = [i \in 1..(Len(q) + 1) |-> Keep(r[i], K)]
      BY <3>6, <3>7
    <3> QED BY <3>2, <3>8 DEF f
  <2> DEFINE f == F(q)
  <2>5. FlattenSeq(Append(f, k)) = FlattenSeq(f) \o k
    <3> HIDE DEF f, k
    <3> QED BY <2>1, <2>3, FlattenAppend DEF f
  <2>6. Keep(FlattenSeq(r), K) = FlattenSeq(F(r))
    <3> HIDE DEF k, r, f
    <3>1. Keep(x, K) = FlattenSeq(f)
      BY <1>2 DEF f
    <3> QED BY <2>1, <2>2, <2>4, <2>5, <3>1 DEF f
  <2>7. r \in Seq(Q)
    <3> HIDE DEF Q
    <3> QED OBVIOUS
  <2> QED BY <2>6, <2>7
<1>3. Seq(Q) \subseteq T
  <2> HIDE DEF T, Q
  <2> QED BY <1>1, <1>2, ListInduction
<1> QED BY <1>3

\* Sequences that differ only outside the set.
LEMMA KeepSame ==
  ASSUME NEW K, NEW s, NEW r, DOMAIN s = DOMAIN r,
         \A i \in DOMAIN s : s[i] = r[i] \/ (s[i] \notin K /\ r[i] \notin K)
  PROVE  Keep(s, K) = Keep(r, K)
<1>1. \A i \in DOMAIN s : Kept1(s[i], K) = Kept1(r[i], K)
  BY DEF Kept1
<1>2. [i \in DOMAIN s |-> Kept1(s[i], K)] = [i \in DOMAIN r |-> Kept1(r[i], K)]
  BY <1>1
<1> QED BY <1>2 DEF Keep

LEMMA KeepAll ==
  ASSUME NEW S, NEW K, NEW s \in Seq(S)
  PROVE  (Elems(s) \subseteq K => Keep(s, K) = s) /\ (Elems(s) \cap K = {} => Keep(s, K) = <<>>)
<1> DEFINE T == {x \in Seq(S) : (Elems(x) \subseteq K => Keep(x, K) = x) /\ (Elems(x) \cap K = {} => Keep(x, K) = <<>>)}
<1>1. <<>> \in T
  <2>1. Keep(<<>>, K) = <<>> /\ <<>> \in Seq(S)
    BY KeepNothing
  <2> QED BY <2>1
<1>2. ASSUME NEW x \in Seq(S), NEW e \in S, x \in T PROVE Append(x, e) \in T
  <2>1. Elems(Append(x, e)) = Elems(x) \cup {e}
    <3>1. Append(x, e) = x \o <<e>> /\ IsTrail(x) /\ IsTrail(<<e>>)
      BY DEF IsTrail
    <3> QED BY <3>1, ElemsJoin, ElemsShort
  <2>2. Keep(Append(x, e), K) = Keep(x, K) \o Kept1(e, K)
    BY KeepAppend
  <2>3. Append(x, e) \in Seq(S) /\ Append(x, e) = x \o <<e>> /\ <<>> \o <<>> = <<>>
    OBVIOUS
  <2> QED BY <1>2, <2>1, <2>2, <2>3 DEF Kept1
<1>3. Seq(S) \subseteq T
  <2> HIDE DEF T
  <2> QED BY <1>1, <1>2, ListInduction
<1> QED BY <1>3

LEMMA LeastIs ==
  ASSUME NEW S, S \subseteq Nat, S # {}
  PROVE  /\ \E i \in S : \A j \in S : i <= j
         /\ MinOf(S) \in S /\ \A j \in S : MinOf(S) <= j
         /\ First(S) \in S /\ \A j \in S : First(S) <= j
<1>1. \E i \in S : \A j \in S : i <= j
  <2> DEFINE R == OpToRel(<, Nat)
  <2>1. IsWellFoundedOn(R, Nat)
    BY NatLessThanWellFounded
  <2>2. PICK x \in S : \A y \in S : ~(<<y, x>> \in R)
    <3> HIDE DEF R
    <3> QED BY <2>1, WFMin
  <2>3. ASSUME NEW y \in S PROVE x <= y
    <3>1. x \in Nat /\ y \in Nat
      OBVIOUS
    <3>2. ~(y < x)
      BY <2>2, <3>1 DEF OpToRel
    <3> QED BY <3>1, <3>2
  <2> QED BY <2>3
<1>2. MinOf(S) \in S /\ \A j \in S : MinOf(S) <= j
  BY <1>1 DEF MinOf
<1>3. First(S) \in S /\ \A j \in S : First(S) <= j
  BY <1>1 DEF First
<1> QED BY <1>1, <1>2, <1>3

LEMMA GreatestIs ==
  ASSUME NEW S, NEW N \in Nat, S \subseteq 0..N, S # {}
  PROVE  /\ MaxOf(S) \in S /\ \A j \in S : j <= MaxOf(S)
         /\ Final(S) \in S /\ \A j \in S : j <= Final(S)
<1> DEFINE T == {N - x : x \in S}
<1>1. T \subseteq Nat /\ T # {}
  <2>1. \A x \in S : x \in 0..N
    OBVIOUS
  <2>2. \A x \in S : N - x \in Nat
    BY <2>1
  <2> QED BY <2>2
<1>2. PICK m \in T : \A j \in T : m <= j
  <2> HIDE DEF T
  <2> QED BY <1>1, LeastIs
<1>3. PICK i \in S : m = N - i
  OBVIOUS
<1>4. ASSUME NEW j \in S PROVE j <= i
  <2>1. N - j \in T /\ i \in 0..N /\ j \in 0..N
    OBVIOUS
  <2>2. N - i <= N - j
    BY <1>2, <1>3, <2>1
  <2> QED BY <2>1, <2>2
<1>5. \E k \in S : \A j \in S : j <= k
  BY <1>4
<1>6. MaxOf(S) \in S /\ \A j \in S : j <= MaxOf(S)
  BY <1>5 DEF MaxOf
<1>7. Final(S) \in S /\ \A j \in S : j <= Final(S)
  BY <1>5 DEF Final
<1> QED BY <1>6, <1>7

\* A list is a sequence, of whatever elements.
LEMMA ListIs ==
  ASSUME NEW S, NEW s \in Seq(S)
  PROVE  IsList(s) /\ Elems(s) \subseteq S
<1>1. DOMAIN s = 1..Len(s) /\ Len(s) \in Nat /\ \A i \in DOMAIN s : s[i] \in ToSet(s)
  BY DEF ToSet
<1>2. s \in Seq(ToSet(s))
  <2> DEFINE T == ToSet(s)
  <2>1. s = [i \in 1..Len(s) |-> s[i]]
    OBVIOUS
  <2>2. s \in [1..Len(s) -> T]
    BY <1>1, <2>1
  <2> HIDE DEF T
  <2> QED BY <1>1, <2>2
<1> QED BY <1>2 DEF IsList, Elems

LEMMA ListSeq ==
  ASSUME NEW s, IsList(s)
  PROVE  s \in Seq(Elems(s)) /\ Elems(s) = ToSet(s) /\ Len(s) \in Nat /\ DOMAIN s = 1..Len(s)
<1>1. Elems(s) = ToSet(s) /\ s \in Seq(ToSet(s))
  BY DEF IsList, Elems, ToSet
<1> QED BY <1>1

\* Two sequences, one behind the other.
LEMMA JoinList ==
  ASSUME NEW S, NEW a \in Seq(S), NEW b \in Seq(S)
  PROVE  a \o b \in Seq(S) /\ Len(a \o b) = Len(a) + Len(b)
OBVIOUS

LEMMA JoinFront ==
  ASSUME NEW S, NEW a \in Seq(S), NEW b \in Seq(S), NEW i \in 1..Len(a)
  PROVE  (a \o b)[i] = a[i]
OBVIOUS

LEMMA JoinBack ==
  ASSUME NEW S, NEW a \in Seq(S), NEW b \in Seq(S), NEW i \in 1..Len(b)
  PROVE  (a \o b)[Len(a) + i] = b[i]
OBVIOUS

\* An element put into a list, or in the place of one.
LEMMA Inserting ==
  ASSUME NEW S, NEW s \in Seq(S), NEW e, NEW i \in 1..(Len(s) + 1)
  PROVE  InsertAt(s, i, e) \in Seq(S \cup {e}) /\ Contains(InsertAt(s, i, e), e)
<1> DEFINE T == S \cup {e}
           a == SubSeq(s, 1, i - 1)
           b == SubSeq(s, i, Len(s))
           r == InsertAt(s, i, e)
<1>1. a \in Seq(T) /\ b \in Seq(T) /\ <<e>> \in Seq(T) /\ Len(a) = i - 1 /\ i - 1 \in Nat
  OBVIOUS
<1>2. r = (a \o <<e>>) \o b
  BY DEF InsertAt
<1> HIDE DEF T, a, b, r
<1> DEFINE c == a \o <<e>>
<1>3. c \in Seq(T) /\ Len(c) = i /\ c[i] = e
  <2>1. Len(a) + 1 = i /\ Len(a) \in Nat
    BY <1>1
  <2>2. c \in Seq(T) /\ Len(c) = Len(a) + 1 /\ c[Len(a) + 1] = e
    BY <1>1
  <2> HIDE DEF c
  <2> QED BY <2>1, <2>2
<1>4. r = c \o b
  BY <1>2
<1> HIDE DEF c
<1>5. i \in Nat /\ i >= 1 /\ Len(b) \in Nat
  BY <1>1
<1>6. r \in Seq(T)
  BY <1>1, <1>3, <1>4
<1>7. Len(r) = i + Len(b) /\ r[i] = c[i]
  <2>1. i \in 1..Len(c)
    BY <1>3, <1>5
  <2> QED BY <1>1, <1>3, <1>4, <2>1, JoinFront, JoinList
<1>8. r[i] = e /\ i \in 1..Len(r)
  BY <1>3, <1>5, <1>7
<1> QED BY <1>6, <1>8 DEF Contains, r, T

LEMMA Replacing ==
  ASSUME NEW S, NEW s \in Seq(S), NEW e, NEW i \in DOMAIN s
  PROVE  /\ ReplaceAt(s, i, e) \in Seq(S \cup {e}) /\ Contains(ReplaceAt(s, i, e), e)
         /\ DOMAIN ReplaceAt(s, i, e) = DOMAIN s /\ ReplaceAt(s, i, e)[i] = e
         /\ \A j \in DOMAIN s \ {i} : ReplaceAt(s, i, e)[j] = s[j]
         /\ s[i] = e => ReplaceAt(s, i, e) = s
<1> DEFINE r == ReplaceAt(s, i, e)
           T == S \cup {e}
<1>1. DOMAIN r = DOMAIN s /\ r[i] = e /\ \A j \in DOMAIN s \ {i} : r[j] = s[j]
  BY DEF ReplaceAt
<1>2. s[i] = e => r = s
  BY DEF ReplaceAt
<1>3. r \in Seq(T)
  <2>1. s \in Seq(T) /\ e \in T
    OBVIOUS
  <2> HIDE DEF T
  <2> QED BY <2>1 DEF ReplaceAt
<1>4. i \in 1..Len(r)
  <2> HIDE DEF r
  <2> QED BY <1>1, <1>3
<1>5. Contains(r, e)
  BY <1>1, <1>4 DEF Contains
<1> QED BY <1>1, <1>2, <1>3, <1>5

\* The permissions that a task wants can be set and seen.
Settable(t, h) == /\ t.want.owner \in Owners \cup {""}
                  /\ h.node.kind = "link" => t.want.mode # LinkPerm.mode /\ t.want.owner # LinkPerm.owner

LEMMA LineTasks ==
  ASSUME NEW t, NEW h, Fits(t, h), t.module \in LineModules
  PROVE  /\ FileFit(t, h) /\ IsList(h.node.text.lines)
         /\ ~NotAsAsked(t, h) => Settable(t, h)
<1>1. FileFit(t, h) /\ "want" \in DOMAIN t /\ IsList(h.node.text.lines)
  BY FileFits DEF Fits, FitsFiles, LineModules
<1> QED BY <1>1 DEF NotAsAsked, LinkHides, Settable

\* The lines, with the permissions where there is a file, are what t asks for.
Edited(t, lines) == \A g : g.node.text.lines = lines /\ (Exists(g) => Permitted(g, t.want)) => Promised(t, g)

\* What lineinfile and blockinfile have in common.
LEMMA EditRight ==
  ASSUME NEW t, NEW h, NEW check, NEW did, Fits(t, h), t.module \in {"lineinfile", "blockinfile"}, IsList(did.lines),
         ~did.changed => did.lines = h.node.text.lines,
         ~NotAsAsked(t, h) => Edited(t, did.lines)
  PROVE  Right(t, h, EditRun(h, t, check, did), check)
<1> DEFINE run == EditRun(h, t, check, did)
           text == Text(did.lines, t.newline)
<1>1. FileFit(t, h) /\ IsList(h.node.text.lines) /\ (~NotAsAsked(t, h) => Settable(t, h)) /\ t.module \in LineModules
  BY LineTasks DEF LineModules
<1>2. CASE ~Exists(h) /\ ~t.create
  <2>1. run = Refused
    BY <1>2 DEF EditRun
  <2> QED BY <2>1, RightIdle, RunParts
<1>3. CASE Exists(h) /\ ~did.changed
  <2>1. run = OnlyPermissions(h, t.want)
    BY <1>3 DEF EditRun
  <2> DEFINE g == End(SetFilePermissions(h, t.want, FALSE), h)
  <2>2. Same(g, h) /\ (~NotAsAsked(t, h) => Permitted(g, t.want))
    BY <1>1, <1>3, Finishing DEF Settable
  <2> HIDE DEF g
  <2>3. g.node.text.lines = did.lines
    BY <1>3, <2>2 DEF Same
  <2>4. ~NotAsAsked(t, h) => Promised(t, g)
    BY <2>2, <2>3 DEF Edited
  <2>5. Passes(t, run.trail) /\ (~NotAsAsked(t, h) => Done(t, run, h))
    BY <1>1, <2>1, <2>4, PermissionsDone DEF g
  <2> HIDE DEF run
  <2> QED BY <2>5, RightDone DEF run
<1>4. CASE ~Exists(h) /\ t.create /\ ~did.changed
  <2>1. run = Unchanged
    BY <1>4 DEF EditRun
  <2>2. ~NotAsAsked(t, h) => Promised(t, h)
    BY <1>4 DEF Edited
  <2> QED BY <2>1, <2>2, RightIdle, RunParts
<1>5. CASE ~(~Exists(h) /\ ~t.create) /\ did.changed /\ check
  <2>1. run = Reports(TRUE)
    BY <1>5 DEF EditRun
  <2> QED BY <1>5, <2>1, RightIdle, RunParts
<1>6. CASE ~(~Exists(h) /\ ~t.create) /\ did.changed /\ ~check
  <2>1. run = WriteBack(h, t, text)
    BY <1>6 DEF EditRun
  <2>2. text.lines = did.lines
    BY DEF Text
  <2>3. t.want # AsIs => CutUnseen(t)
    BY DEF CutUnseen
  <2> HIDE DEF text, run
  <2>4. ASSUME ~NotAsAsked(t, h) PROVE Suffices(t, t, h, text)
    <3>1. Settable(t, h) /\ Edited(t, did.lines)
      BY <1>1, <2>4
    <3>2. \A g : g.node.text = text /\ Permitted(g, t.want) => Promised(t, g)
      BY <2>2, <3>1 DEF Edited
    <3> QED BY <3>1, <3>2 DEF Suffices, Settable
  <2>5. IsList(text.lines)
    BY <2>2
  <2> QED BY <1>1, <2>1, <2>3, <2>4, <2>5, WriteBackRight DEF run
<1> QED BY <1>2, <1>3, <1>4, <1>5, <1>6

\* replace, which leaves the permissions alone.
LEMMA ReplaceEditRight ==
  ASSUME NEW t, NEW h, NEW check, Fits(t, h), t.module = "replace", IsList(TransformAll(h.node.text.lines, t)),
         ~NotAsAsked(t, h) => TransformAll(TransformAll(h.node.text.lines, t), t) = TransformAll(h.node.text.lines, t)
  PROVE  Right(t, h, ReplaceRun(h, t, check), check)
<1> DEFINE run == ReplaceRun(h, t, check)
           lines == h.node.text.lines
           text == Text(TransformAll(lines, t), t.newline)
           u == [t EXCEPT !.want = AsIs]
<1>1. FileFit(t, h) /\ t.module \in LineModules /\ "want" \in DOMAIN t
  BY LineTasks DEF LineModules, Fits, FitsFiles
<1>2. u.want = AsIs /\ AsIs.owner = "" /\ AsIs.mode = "" /\ LinkPerm.mode # "" /\ LinkPerm.owner # ""
  BY <1>1 DEF AsIs, LinkPerm, Perm
<1>3. ASSUME ~NotAsAsked(t, h), NEW g, g.node.text.lines = TransformAll(lines, t) PROVE Promised(t, g)
  <2>1. LinesPromised(t, g)
    BY <1>3 DEF LinesPromised
  <2> QED BY <2>1, PromisedBy
<1>4. CASE ~Exists(h)
  <2>1. run = Refused
    BY <1>4 DEF ReplaceRun
  <2> QED BY <2>1, RightIdle, RunParts
<1>5. CASE Exists(h) /\ text = h.node.text
  <2>1. run = Unchanged
    BY <1>5 DEF ReplaceRun
  <2>2. lines = TransformAll(lines, t)
    BY <1>5 DEF Text
  <2>3. ~NotAsAsked(t, h) => Promised(t, h)
    BY <1>3, <2>2
  <2> QED BY <2>1, <2>3, RightIdle, RunParts
<1>6. CASE Exists(h) /\ text # h.node.text /\ check
  <2>1. run = Reports(TRUE)
    BY <1>6 DEF ReplaceRun
  <2> QED BY <1>6, <2>1, RightIdle, RunParts
<1>7. CASE Exists(h) /\ text # h.node.text /\ ~check
  <2>1. run = WriteBack(h, u, text)
    BY <1>7 DEF ReplaceRun
  <2>2. text.lines = TransformAll(lines, t)
    BY DEF Text
  <2> HIDE DEF u, text, run
  <2>3. ASSUME ~NotAsAsked(t, h) PROVE Suffices(t, u, h, text)
    <3>1. \A g : g.node.text = text => Promised(t, g)
      BY <1>3, <2>2, <2>3
    <3> QED BY <1>2, <3>1 DEF Suffices
  <2> QED BY <1>1, <1>2, <2>1, <2>2, <2>3, WriteBackRight DEF run
<1> QED BY <1>4, <1>5, <1>6, <1>7

LEMMA MatchesIn ==
  ASSUME NEW s, IsList(s), NEW p
  PROVE  Matches(s, p) \subseteq DOMAIN s /\ DOMAIN s = 1..Len(s) /\ Len(s) \in Nat
BY ListSeq DEF Matches

LEMMA MatchesEnds ==
  ASSUME NEW s, IsList(s), NEW p, Matches(s, p) # {}, NEW first
  PROVE  FindInsertIndex(s, p, first) \in 1..Len(s) /\ FindInsertIndex(s, p, first) \in Matches(s, p)
<1> DEFINE S == Matches(s, p)
<1>1. S \subseteq 1..Len(s) /\ Len(s) \in Nat /\ S # {}
  BY MatchesIn
<1> HIDE DEF S
<1>2. S \subseteq Nat /\ S \subseteq 0..Len(s)
  BY <1>1
<1>3. MinOf(S) \in S /\ MaxOf(S) \in S
  BY <1>1, <1>2, LeastIs, GreatestIs
<1> QED BY <1>1, <1>3 DEF FindInsertIndex, S

LEMMA InsertLineIs ==
  ASSUME NEW s, IsList(s), NEW t
  PROVE  IsList(InsertLine(s, t)) /\ Contains(InsertLine(s, t), t.line)
<1> DEFINE e == t.line
           S == Elems(s) \cup {e}
           r == InsertLine(s, t)
<1>1. s \in Seq(S) /\ e \in S /\ Len(s) \in Nat /\ s \in Seq(Elems(s))
  BY ListSeq
<1>2. CASE s = <<>>
  <2>1. r = <<e>>
    BY <1>2 DEF InsertLine
  <2>2. <<e>> \in Seq(S) /\ Contains(<<e>>, e)
    BY DEF Contains
  <2> QED BY <2>1, <2>2, ListIs
<1>3. CASE s # <<>> /\ t.before = BOF
  <2>1. r = <<e>> \o s
    BY <1>3 DEF InsertLine, Cons
  <2>2. <<e>> \in Seq(S) /\ Len(<<e>>) = 1 /\ <<e>>[1] = e
    BY <1>1
  <2> HIDE DEF r, S, e
  <2>3. r \in Seq(S) /\ r[1] = e /\ Len(r) = 1 + Len(s)
    <3>1. r \in Seq(S) /\ Len(r) = 1 + Len(s)
      BY <1>1, <2>1, <2>2, JoinList
    <3>2. 1 \in 1..Len(<<e>>)
      BY <2>2
    <3>3. r[1] = <<e>>[1]
      BY <1>1, <2>1, <2>2, <3>2, JoinFront
    <3> QED BY <2>2, <3>1, <3>3
  <2>4. Contains(r, e)
    BY <1>1, <2>3 DEF Contains
  <2> QED BY <2>3, <2>4, ListIs DEF r, e
<1>4. ASSUME NEW i \in 1..(Len(s) + 1), r = InsertAt(s, i, e) PROVE IsList(r) /\ Contains(r, e)
  <2>1. InsertAt(s, i, e) \in Seq(S) /\ Contains(InsertAt(s, i, e), e)
    BY <1>1, Inserting
  <2> HIDE DEF S, r
  <2> QED BY <1>4, <2>1, ListIs
<1>5. CASE s # <<>> /\ t.before # BOF /\ Found(s, t.before)
  <2> DEFINE i == FindInsertIndex(s, t.before, t.first)
  <2>1. i \in 1..Len(s)
    BY <1>5, MatchesEnds DEF Found
  <2>2. r = InsertAt(s, i, e)
    BY <1>5 DEF InsertLine
  <2> HIDE DEF i, r, e
  <2>3. i \in 1..(Len(s) + 1)
    BY <1>1, <2>1
  <2> QED BY <1>4, <2>2, <2>3 DEF r, e
<1>6. CASE s # <<>> /\ t.before # BOF /\ ~Found(s, t.before) /\ Found(s, t.after)
  <2> DEFINE i == FindInsertIndex(s, t.after, t.first)
  <2>1. i \in 1..Len(s)
    BY <1>6, MatchesEnds DEF Found
  <2>2. r = InsertAt(s, i + 1, e)
    BY <1>6 DEF InsertLine
  <2> HIDE DEF i, r, e
  <2>3. i + 1 \in 1..(Len(s) + 1)
    BY <1>1, <2>1
  <2> QED BY <1>4, <2>2, <2>3 DEF r, e
<1>7. CASE s # <<>> /\ t.before # BOF /\ ~Found(s, t.before) /\ ~Found(s, t.after)
  <2>1. r = Append(s, e)
    BY <1>7 DEF InsertLine
  <2> HIDE DEF r, e, S
  <2>2. r \in Seq(S) /\ Len(r) = Len(s) + 1 /\ r[Len(s) + 1] = e
    BY <1>1, <2>1
  <2>3. Contains(r, e)
    BY <1>1, <2>2 DEF Contains
  <2> QED BY <2>2, <2>3, ListIs DEF r, e
<1> QED BY <1>2, <1>3, <1>5, <1>6, <1>7

\* What lineinfile asks of the lines for a line that is to be there.
LineThere(t, lines) ==
  IF t.backrefs THEN Matches(lines, t.pattern) = {} \/ \E l \in t.pattern : Contains(lines, t.rewrite[l])
  ELSE Contains(lines, t.line)

\* The lines a transformation gives: those it found unless it says otherwise.
Transforms(did, lines) == IsList(did.lines) /\ (~did.changed => did.lines = lines)

LEMMA LinePresentIs ==
  ASSUME NEW s, IsList(s), NEW t
  PROVE  Transforms(LinePresent(s, t), s) /\ LineThere(t, LinePresent(s, t).lines)
<1> DEFINE hits == IF t.pattern = NoPattern THEN {} ELSE Matches(s, t.pattern)
           target == IF t.first THEN MinOf(hits) ELSE MaxOf(hits)
           new == IF t.backrefs THEN t.rewrite[s[target]] ELSE t.line
           did == LinePresent(s, t)
<1>0. s \in Seq(Elems(s)) /\ DOMAIN s = 1..Len(s) /\ Len(s) \in Nat
  BY ListSeq
<1>1. CASE hits # {}
  <2>1. did = Gives(ReplaceAt(s, target, new), s[target] # new)
    BY <1>1 DEF LinePresent
  <2>2. t.pattern # NoPattern /\ hits = Matches(s, t.pattern)
    BY <1>1
  <2>3. target = FindInsertIndex(s, t.pattern, t.first)
    BY <2>2 DEF FindInsertIndex
  <2>4. target \in Matches(s, t.pattern) /\ target \in DOMAIN s
    <3> HIDE DEF target
    <3> QED BY <1>0, <1>1, <2>2, <2>3, MatchesEnds
  <2>5. s[target] \in t.pattern
    BY <2>4 DEF Matches
  <2>6. t.backrefs => new = t.rewrite[s[target]]
    OBVIOUS
  <2>7. ~t.backrefs => new = t.line
    OBVIOUS
  <2> HIDE DEF target, new, did, hits
  <2> DEFINE r == ReplaceAt(s, target, new)
  <2>8. r \in Seq(Elems(s) \cup {new}) /\ Contains(r, new) /\ (s[target] = new => r = s)
    BY <1>0, <2>4, Replacing
  <2>9. did.lines = r /\ (did.changed <=> s[target] # new)
    BY <2>1 DEF Gives
  <2> HIDE DEF r
  <2>10. LineThere(t, r)
    BY <2>5, <2>6, <2>7, <2>8 DEF LineThere
  <2>11. IsList(r)
    BY <2>8, ListIs
  <2> QED BY <2>8, <2>9, <2>10, <2>11 DEF Transforms, did
<1>2. CASE hits = {} /\ t.backrefs
  <2>1. did = Gives(s, FALSE)
    BY <1>2 DEF LinePresent
  <2>2. did.lines = s
    BY <2>1 DEF Gives
  <2>3. Matches(s, t.pattern) = {}
    BY <1>2 DEF Matches, NoPattern
  <2> HIDE DEF did
  <2>4. LineThere(t, s)
    BY <1>2, <2>3 DEF LineThere
  <2> QED BY <2>2, <2>4 DEF Transforms, did
<1>3. CASE hits = {} /\ ~t.backrefs /\ t.pattern = NoPattern /\ Contains(s, t.line)
  <2>1. did = Gives(s, FALSE)
    BY <1>3 DEF LinePresent
  <2>2. did.lines = s
    BY <2>1 DEF Gives
  <2> HIDE DEF did
  <2>3. LineThere(t, s)
    BY <1>3 DEF LineThere
  <2> QED BY <2>2, <2>3 DEF Transforms, did
<1>4. CASE hits = {} /\ ~t.backrefs /\ ~(t.pattern = NoPattern /\ Contains(s, t.line))
  <2>1. did = Gives(InsertLine(s, t), TRUE)
    BY <1>4 DEF LinePresent
  <2>2. did.lines = InsertLine(s, t) /\ did.changed
    BY <2>1 DEF Gives
  <2> HIDE DEF did
  <2>3. LineThere(t, did.lines)
    BY <1>4, <2>2, InsertLineIs DEF LineThere
  <2> QED BY <2>2, <2>3, InsertLineIs DEF Transforms, did
<1> QED BY <1>1, <1>2, <1>3, <1>4

\* The lines that lineinfile takes out.
Gone1(t) == IF t.pattern = NoPattern THEN {t.line} ELSE t.pattern

LEMMA LineAbsentIs ==
  ASSUME NEW s, IsList(s), NEW t
  PROVE  /\ LineAbsent(s, t).lines = Keep(s, Elems(s) \ Gone1(t))
         /\ Transforms(LineAbsent(s, t), s) /\ Elems(LineAbsent(s, t).lines) \cap Gone1(t) = {}
<1> DEFINE gone == Gone1(t)
           K == Elems(s) \ gone
           did == LineAbsent(s, t)
<1>0. s \in Seq(Elems(s)) /\ DOMAIN s = 1..Len(s) /\ Len(s) \in Nat
  BY ListSeq
<1>1. Filtered(s, LAMBDA l : l \notin gone) = Keep(s, K)
  <2>1. \A i \in DOMAIN s : s[i] \in Elems(s)
    BY DEF Elems
  <2>2. [i \in DOMAIN s |-> IF s[i] \notin gone THEN <<s[i]>> ELSE <<>>] = [i \in DOMAIN s |-> IF s[i] \in K THEN <<s[i]>> ELSE <<>>]
    BY <2>1
  <2> HIDE DEF K, gone
  <2> QED BY <2>2 DEF Filtered, Rewritten, Keep, Kept1
<1>2. did = Gives(Keep(s, K), Keep(s, K) # s)
  BY <1>1 DEF LineAbsent, Gone1
<1> HIDE DEF did, K
<1>3. did.lines = Keep(s, K) /\ (did.changed <=> Keep(s, K) # s)
  BY <1>2 DEF Gives
<1>4. Keep(s, K) \in Seq(Elems(s)) /\ Elems(Keep(s, K)) = Elems(s) \cap K
  BY <1>0, KeepParts
<1>5. IsList(Keep(s, K))
  BY <1>4, ListIs
<1>6. Transforms(did, s)
  BY <1>3, <1>5 DEF Transforms
<1> QED BY <1>3, <1>4, <1>6 DEF did, K

LEMMA LineinfileRight ==
  ASSUME NEW t, NEW h, NEW check, Fits(t, h), t.module = "lineinfile"
  PROVE  Right(t, h, LineinfileRun(h, t, check), check)
<1> DEFINE s == h.node.text.lines
           did == TransformLine(s, t)
<1>1. FileFit(t, h) /\ IsList(s) /\ t.state \in {"present", "absent"}
  BY LineTasks DEF LineModules, Fits, FitsFiles
<1>2. CASE t.state = "present"
  <2>1. did = LinePresent(s, t)
    BY <1>2 DEF TransformLine
  <2> HIDE DEF s, did
  <2>2. Transforms(did, s) /\ LineThere(t, did.lines)
    BY <1>1, <2>1, LinePresentIs
  <2>3. Edited(t, did.lines)
    <3>1. ASSUME NEW g, g.node.text.lines = did.lines, Exists(g) => Permitted(g, t.want) PROVE LinesPromised(t, g)
      <4> USE <1>2
      <4> DEFINE l == g.node.text.lines
      <4>1. LineThere(t, l)
        BY <2>2, <3>1
      <4> HIDE DEF l
      <4>2. IF t.backrefs THEN Matches(l, t.pattern) = {} \/ \E x \in t.pattern : Contains(l, t.rewrite[x]) ELSE Contains(l, t.line)
        BY <4>1 DEF LineThere
      <4> QED BY <4>2, <3>1 DEF LinesPromised, l
    <3> QED BY <3>1, PromisedBy DEF Edited
  <2>4. IsList(did.lines) /\ (~did.changed => did.lines = s)
    BY <2>2 DEF Transforms
  <2> QED BY <2>3, <2>4, EditRight DEF LineinfileRun, s, did
<1>3. CASE t.state = "absent"
  <2>1. did = LineAbsent(s, t)
    BY <1>3 DEF TransformLine
  <2> HIDE DEF s, did
  <2>2. Transforms(did, s) /\ Elems(did.lines) \cap Gone1(t) = {}
    BY <1>1, <2>1, LineAbsentIs
  <2>3. Edited(t, did.lines)
    <3>1. ASSUME NEW g, g.node.text.lines = did.lines PROVE LinesPromised(t, g)
      <4> DEFINE l == g.node.text.lines
      <4>1. Elems(l) \cap Gone1(t) = {}
        BY <2>2, <3>1
      <4> HIDE DEF l
      <4>2. \A i \in DOMAIN l : l[i] \notin (IF t.pattern = NoPattern THEN {t.line} ELSE t.pattern)
        BY <4>1 DEF Elems, Gone1
      <4> QED BY <1>3, <4>2 DEF LinesPromised, l
    <3> QED BY <3>1, PromisedBy DEF Edited
  <2>4. IsList(did.lines) /\ (~did.changed => did.lines = s)
    BY <2>2 DEF Transforms
  <2> QED BY <2>3, <2>4, EditRight DEF LineinfileRun, s, did
<1> QED BY <1>1, <1>2, <1>3

LEMMA ListsSame ==
  ASSUME NEW S, NEW s \in Seq(S), NEW r \in Seq(S), Len(s) = Len(r), \A i \in 1..Len(s) : s[i] = r[i]
  PROVE  s = r
OBVIOUS

\* r is s with another list in the place of a piece of it.
Spliced(S, s, from, to, m, r) ==
  /\ r \in Seq(S)
  /\ Len(r) = (from - 1) + Len(m) + (Len(s) - to)
  /\ \A i \in 1..(from - 1) : r[i] = s[i]
  /\ \A i \in 1..Len(m) : r[from - 1 + i] = m[i]
  /\ \A i \in 1..(Len(s) - to) : r[from - 1 + Len(m) + i] = s[to + i]

LEMMA SpliceIs ==
  ASSUME NEW S, NEW s \in Seq(S), NEW m \in Seq(S), NEW from \in 1..(Len(s) + 1), NEW to \in 0..Len(s), from - 1 <= to
  PROVE  Spliced(S, s, from, to, m, Splice(s, from, to, m))
<1> DEFINE a == SubSeq(s, 1, from - 1)
           b == SubSeq(s, to + 1, Len(s))
           c == a \o m
           r == Splice(s, from, to, m)
<1>0. Len(s) \in Nat /\ Len(m) \in Nat /\ from \in Nat /\ to \in Nat /\ from >= 1 /\ to <= Len(s)
  OBVIOUS
<1>1. a \in Seq(S) /\ Len(a) = from - 1 /\ \A i \in 1..(from - 1) : a[i] = s[i]
  <2>1. a \in Seq(S)
    OBVIOUS
  <2>2. Len(a) = from - 1
    OBVIOUS
  <2>3. \A i \in 1..(from - 1) : a[i] = s[i]
    OBVIOUS
  <2> QED BY <2>1, <2>2, <2>3
<1>2. b \in Seq(S) /\ Len(b) = Len(s) - to /\ \A i \in 1..(Len(s) - to) : b[i] = s[to + i]
  <2>1. b \in Seq(S)
    OBVIOUS
  <2>2. Len(b) = Len(s) - to
    OBVIOUS
  <2>3. \A i \in 1..(Len(s) - to) : b[i] = s[to + i]
    BY <1>0
  <2> QED BY <2>1, <2>2, <2>3
<1>3. r = c \o b
  BY DEF Splice
<1> HIDE DEF a, b, r
<1>4. c \in Seq(S) /\ Len(c) = from - 1 + Len(m)
  BY <1>1, JoinList
<1>c1. \A i \in 1..(from - 1) : c[i] = a[i]
  BY <1>1, JoinFront
<1>c2. \A i \in 1..Len(m) : c[from - 1 + i] = m[i]
  <2>1. \A i \in 1..Len(m) : c[Len(a) + i] = m[i]
    BY <1>1, JoinBack
  <2> HIDE DEF c
  <2> QED BY <1>1, <2>1
<1> HIDE DEF c
<1>m. c \in Seq(S) /\ b \in Seq(S)
  BY <1>2, <1>4
<1>5. r \in Seq(S) /\ Len(r) = Len(c) + Len(b)
  BY <1>m, <1>3, JoinList
<1>r1. \A i \in 1..Len(c) : r[i] = c[i]
  BY <1>m, <1>3, JoinFront
<1>r2. \A i \in 1..Len(b) : r[Len(c) + i] = b[i]
  BY <1>m, <1>3, JoinBack
<1>6. Len(r) = (from - 1) + Len(m) + (Len(s) - to)
  BY <1>0, <1>2, <1>4, <1>5
<1>7. \A i \in 1..(from - 1) : r[i] = s[i]
  <2>1. \A i \in 1..(from - 1) : i \in 1..Len(c)
    BY <1>0, <1>4
  <2> QED BY <1>1, <1>c1, <1>r1, <2>1
<1>8. \A i \in 1..Len(m) : r[from - 1 + i] = m[i]
  <2>1. \A i \in 1..Len(m) : from - 1 + i \in 1..Len(c)
    BY <1>0, <1>4
  <2> QED BY <1>c2, <1>r1, <2>1
<1>9. \A i \in 1..(Len(s) - to) : r[from - 1 + Len(m) + i] = s[to + i]
  BY <1>2, <1>4, <1>r2
<1>10. Spliced(S, s, from, to, m, r)
  BY <1>5, <1>6, <1>7, <1>8, <1>9 DEF Spliced
<1> QED BY <1>10 DEF r

\* The markers and what stands between them.
Framed(block) == <<"begin">> \o block \o <<"end">>

LEMMA FramedIs ==
  ASSUME NEW S, NEW b \in Seq(S), "begin" \in S, "end" \in S
  PROVE  /\ Framed(b) \in Seq(S) /\ Len(Framed(b)) = Len(b) + 2
         /\ Framed(b)[1] = "begin" /\ Framed(b)[Len(b) + 2] = "end"
         /\ \A i \in 1..Len(b) : Framed(b)[1 + i] = b[i]
<1> DEFINE p == <<"begin">>
           q == <<"end">>
           a == p \o b
           r == Framed(b)
<1>1. p \in Seq(S) /\ Len(p) = 1 /\ p[1] = "begin" /\ q \in Seq(S) /\ Len(q) = 1 /\ q[1] = "end" /\ Len(b) \in Nat
  OBVIOUS
<1>2. r = a \o q
  BY DEF Framed
<1> HIDE DEF p, q, r
<1>3. a \in Seq(S) /\ Len(a) = 1 + Len(b)
  BY <1>1, JoinList
<1>a1. \A i \in 1..Len(p) : a[i] = p[i]
  BY <1>1, JoinFront
<1>a2. \A i \in 1..Len(b) : a[Len(p) + i] = b[i]
  BY <1>1, JoinBack
<1> HIDE DEF a
<1>m. a \in Seq(S) /\ q \in Seq(S)
  BY <1>1, <1>3
<1>s. r \in Seq(S) /\ Len(r) = Len(a) + Len(q)
  BY <1>m, <1>2, JoinList
<1>4. r \in Seq(S) /\ Len(r) = Len(a) + 1
  BY <1>1, <1>s
<1>r1. \A i \in 1..Len(a) : r[i] = a[i]
  BY <1>m, <1>2, JoinFront
<1>r2. \A i \in 1..Len(q) : r[Len(a) + i] = q[i]
  BY <1>m, <1>2, JoinBack
<1>5. r[1] = "begin"
  <2>1. 1 \in 1..Len(a) /\ 1 \in 1..1
    BY <1>1, <1>3
  <2> QED BY <1>1, <1>a1, <1>r1, <2>1
<1>6. r[Len(b) + 2] = "end" /\ Len(r) = Len(b) + 2
  <2>1. Len(b) + 2 = Len(a) + 1 /\ 1 \in 1..1
    BY <1>1, <1>3
  <2> QED BY <1>1, <1>4, <1>r2, <2>1
<1>7. \A i \in 1..Len(b) : r[1 + i] = b[i]
  <2>1. \A i \in 1..Len(b) : 1 + i \in 1..Len(a)
    BY <1>1, <1>3
  <2> QED BY <1>1, <1>a2, <1>r1, <2>1
<1> QED BY <1>4, <1>5, <1>6, <1>7 DEF r

LEMMA StartIs ==
  ASSUME NEW s, IsList(s), Begins(s) # {}
  PROVE  Start(s) \in 1..Len(s) /\ s[Start(s)] = "begin" /\ \A i \in 1..Len(s) : s[i] = "begin" => Start(s) <= i
<1> DEFINE B == Begins(s)
<1>1. DOMAIN s = 1..Len(s) /\ Len(s) \in Nat
  BY ListSeq
<1>2. B = {i \in 1..Len(s) : s[i] = "begin"}
  BY <1>1 DEF Begins
<1>3. B \subseteq Nat /\ B # {}
  BY <1>1, <1>2
<1> HIDE DEF B
<1>4. MinOf(B) \in B /\ \A j \in B : MinOf(B) <= j
  BY <1>3, LeastIs
<1> QED BY <1>2, <1>4 DEF Start, B

LEMMA EndIs ==
  ASSUME NEW s, IsList(s), HasBlock(s)
  PROVE  /\ Begins(s) # {} /\ MinOf(Ends(s)) \in 1..Len(s) /\ s[MinOf(Ends(s))] = "end" /\ MinOf(Ends(s)) > Start(s)
         /\ \A i \in 1..Len(s) : s[i] = "end" /\ i > Start(s) => MinOf(Ends(s)) <= i
<1> DEFINE B == Ends(s)
<1>1. DOMAIN s = 1..Len(s) /\ Len(s) \in Nat
  BY ListSeq
<1>2. B # {} /\ Begins(s) # {}
  BY DEF HasBlock, Ends
<1>3. B = {i \in 1..Len(s) : s[i] = "end" /\ i > Start(s)}
  BY <1>1, <1>2 DEF Ends
<1>4. B \subseteq Nat
  BY <1>1, <1>3
<1> HIDE DEF B
<1>5. MinOf(B) \in B /\ \A j \in B : MinOf(B) <= j
  BY <1>2, <1>4, LeastIs
<1> QED BY <1>2, <1>3, <1>5 DEF B

\* The block stands where it was put, when no marker is before it and none in it.
LEMMA BlockPut ==
  ASSUME NEW S, NEW s \in Seq(S), NEW b \in Seq(S), "begin" \in S, "end" \in S,
         NEW from \in 1..(Len(s) + 1), NEW to \in 0..Len(s), from - 1 <= to,
         \A i \in 1..(from - 1) : s[i] # "begin", ~Contains(b, "end")
  PROVE  LET r == Splice(s, from, to, Framed(b))
         IN  /\ HasBlock(r) /\ Start(r) = from /\ MinOf(Ends(r)) = from + Len(b) + 1
             /\ SubSeq(r, Start(r), MinOf(Ends(r))) = Framed(b)
<1> DEFINE f == Framed(b)
           r == Splice(s, from, to, f)
           k == Len(b)
<1>1. f \in Seq(S) /\ Len(f) = k + 2 /\ f[1] = "begin" /\ f[k + 2] = "end" /\ k \in Nat
  BY FramedIs
<1>2. \A i \in 1..k : f[1 + i] = b[i]
  BY FramedIs
<1> HIDE DEF f
<1>x. Spliced(S, s, from, to, f, r)
  BY <1>1, SpliceIs
<1> HIDE DEF r
<1>3. r \in Seq(S) /\ Len(r) = (from - 1) + Len(f) + (Len(s) - to)
  BY <1>x DEF Spliced
<1>4. \A i \in 1..(from - 1) : r[i] = s[i]
  BY <1>x DEF Spliced
<1>5. \A i \in 1..Len(f) : r[from - 1 + i] = f[i]
  BY <1>x DEF Spliced
<1>6. IsList(r) /\ DOMAIN r = 1..Len(r) /\ Len(r) \in Nat
  <2>1. IsList(r)
    BY <1>3, ListIs
  <2> QED BY <2>1, ListSeq
<1> HIDE DEF r, k
<1>7. Len(s) \in Nat /\ from \in Nat /\ from >= 1 /\ to \in Nat /\ to <= Len(s)
  OBVIOUS
<1>8. from + k + 1 \in 1..Len(r) /\ from \in 1..Len(r)
  BY <1>1, <1>3, <1>6, <1>7
<1>9. r[from] = "begin"
  <2>1. 1 \in 1..Len(f) /\ from - 1 + 1 = from
    BY <1>1, <1>7
  <2> QED BY <1>1, <1>5, <2>1
<1>10. r[from + k + 1] = "end"
  <2>1. k + 2 \in 1..Len(f) /\ from - 1 + (k + 2) = from + k + 1
    BY <1>1, <1>7
  <2> QED BY <1>1, <1>5, <2>1
<1>11. Begins(r) # {}
  BY <1>6, <1>8, <1>9 DEF Begins
<1>12. Start(r) = from
  <2>1. Start(r) \in 1..Len(r) /\ r[Start(r)] = "begin"
    BY <1>6, <1>11, StartIs
  <2>2. Start(r) <= from
    BY <1>6, <1>8, <1>9, <1>11, StartIs
  <2>3. Start(r) >= from
    <3>1. \A i \in 1..(from - 1) : r[i] # "begin"
      BY <1>4
    <3> QED BY <1>7, <2>1, <3>1
  <2> QED BY <1>7, <2>1, <2>2, <2>3
<1>13. HasBlock(r)
  BY <1>1, <1>6, <1>7, <1>8, <1>10, <1>11, <1>12 DEF HasBlock, Ends
<1> DEFINE e == MinOf(Ends(r))
<1>14. e = from + k + 1
  <2>1. e \in 1..Len(r) /\ r[e] = "end" /\ e > from
    BY <1>6, <1>12, <1>13, EndIs
  <2>2. e <= from + k + 1
    <3>1. from + k + 1 > Start(r)
      BY <1>1, <1>7, <1>12
    <3> QED BY <1>6, <1>8, <1>10, <1>13, <3>1, EndIs
  <2> HIDE DEF e
  <2>3. ASSUME e < from + k + 1 PROVE FALSE
    <3> DEFINE i == e - from
    <3>1. i \in 1..k /\ 1 + i \in 1..Len(f) /\ from - 1 + (1 + i) = e
      BY <1>1, <1>7, <2>1, <2>3
    <3> HIDE DEF i
    <3>2. r[e] = b[i]
      BY <1>2, <1>5, <3>1
    <3> QED BY <2>1, <3>1, <3>2 DEF Contains, k
  <2> QED BY <1>1, <1>7, <2>1, <2>2, <2>3
<1>15. SubSeq(r, from, from + k + 1) = f
  <2> DEFINE q == SubSeq(r, from, from + k + 1)
  <2>1. q \in Seq(S)
    BY <1>3, <1>8
  <2>2. Len(q) = k + 2
    BY <1>1, <1>3, <1>7, <1>8
  <2>3. \A i \in 1..(k + 2) : q[i] = r[from - 1 + i]
    BY <1>1, <1>3, <1>7, <1>8
  <2> HIDE DEF q
  <2>4. \A i \in 1..(k + 2) : q[i] = f[i]
    BY <1>1, <1>5, <2>3
  <2>5. f \in Seq(S) /\ Len(q) = Len(f) /\ \A i \in 1..Len(q) : q[i] = f[i]
    BY <1>1, <2>2, <2>4
  <2> QED BY <2>1, <2>5, ListsSame DEF q
<1> QED BY <1>12, <1>13, <1>14, <1>15 DEF r, f, k

\* Where a new block goes.
BlockAt(s, t) == CASE t.before = BOF -> 1
                   [] t.before \notin {BOF, NoPattern} ->
                        IF Found(s, t.before) THEN MinOf(Matches(s, t.before)) ELSE Len(s) + 1
                   [] OTHER ->
                        IF Found(s, t.after) THEN MaxOf(Matches(s, t.after)) + 1 ELSE Len(s) + 1

LEMMA BlockPlace ==
  ASSUME NEW s, IsList(s), NEW t
  PROVE  /\ BlockAt(s, t) \in 1..(Len(s) + 1)
         /\ \A full : InsertBlock(s, full, t) = Splice(s, BlockAt(s, t), BlockAt(s, t) - 1, full)
<1>1. Len(s) \in Nat
  BY ListSeq
<1>2. ASSUME NEW p, Found(s, p) PROVE MinOf(Matches(s, p)) \in 1..Len(s) /\ MaxOf(Matches(s, p)) \in 1..Len(s)
  <2>1. FindInsertIndex(s, p, TRUE) \in 1..Len(s) /\ FindInsertIndex(s, p, FALSE) \in 1..Len(s)
    BY <1>2, MatchesEnds DEF Found
  <2> QED BY <2>1 DEF FindInsertIndex
<1>3. ASSUME t.before = BOF PROVE BlockAt(s, t) \in 1..(Len(s) + 1)
  <2>1. BlockAt(s, t) = 1
    BY <1>3 DEF BlockAt
  <2> QED BY <1>1, <2>1
<1>4. ASSUME t.before \notin {BOF, NoPattern} /\ Found(s, t.before) PROVE BlockAt(s, t) \in 1..(Len(s) + 1)
  <2>1. BlockAt(s, t) = MinOf(Matches(s, t.before))
    BY <1>4 DEF BlockAt
  <2>2. MinOf(Matches(s, t.before)) \in 1..Len(s)
    BY <1>2, <1>4
  <2> QED BY <1>1, <2>1, <2>2
<1>5. ASSUME t.before \notin {BOF, NoPattern} /\ ~Found(s, t.before) PROVE BlockAt(s, t) \in 1..(Len(s) + 1)
  <2>1. BlockAt(s, t) = Len(s) + 1
    BY <1>5 DEF BlockAt
  <2> QED BY <1>1, <2>1
<1>6. ASSUME t.before # BOF /\ t.before \in {BOF, NoPattern} /\ Found(s, t.after) PROVE BlockAt(s, t) \in 1..(Len(s) + 1)
  <2>1. BlockAt(s, t) = MaxOf(Matches(s, t.after)) + 1
    BY <1>6 DEF BlockAt
  <2>2. MaxOf(Matches(s, t.after)) \in 1..Len(s)
    BY <1>2, <1>6
  <2> QED BY <1>1, <2>1, <2>2
<1>7. ASSUME t.before # BOF /\ t.before \in {BOF, NoPattern} /\ ~Found(s, t.after) PROVE BlockAt(s, t) \in 1..(Len(s) + 1)
  <2>1. BlockAt(s, t) = Len(s) + 1
    BY <1>7 DEF BlockAt
  <2> QED BY <1>1, <2>1
<1>8. BlockAt(s, t) \in 1..(Len(s) + 1)
  BY <1>3, <1>4, <1>5, <1>6, <1>7
<1>9. ASSUME NEW full PROVE InsertBlock(s, full, t) = Splice(s, BlockAt(s, t), BlockAt(s, t) - 1, full)
  BY DEF InsertBlock, BlockAt
<1> QED BY <1>8, <1>9

\* Whether a task takes the block out, and what it asks of the lines.
Unblocks(t) == t.state = "absent" \/ t.block = <<>>
BlockThere(t, s) ==
  IF Unblocks(t) THEN ~HasBlock(s)
  ELSE HasBlock(s) /\ SubSeq(s, Start(s), MinOf(Ends(s))) = Framed(t.block)

Markers(t, s) == IF Unblocks(t) THEN Doubled(Begins(s)) ELSE Contains(t.block, "end") \/ (Begins(s) # {} /\ ~HasBlock(s))

\* A list without its only block has none.
LEMMA BlockOut ==
  ASSUME NEW s, IsList(s), HasBlock(s)
  PROVE  LET r == Splice(s, Start(s), MinOf(Ends(s)), <<>>)
         IN  IsList(r) /\ (~Doubled(Begins(s)) => ~HasBlock(r))
<1> DEFINE S == Elems(s)
           b == Start(s)
           e == MinOf(Ends(s))
           r == Splice(s, b, e, <<>>)
<1>1. s \in Seq(S) /\ <<>> \in Seq(S) /\ Len(s) \in Nat /\ DOMAIN s = 1..Len(s)
  BY ListSeq
<1>2. e \in 1..Len(s) /\ e > b /\ Begins(s) # {}
  BY EndIs
<1>3. b \in 1..Len(s) /\ s[b] = "begin" /\ b \in Begins(s)
  BY <1>1, <1>2, StartIs DEF Begins
<1> HIDE DEF b, e, S
<1>4. b \in 1..(Len(s) + 1) /\ e \in 0..Len(s) /\ b - 1 <= e
  BY <1>1, <1>2, <1>3
<1>5. Spliced(S, s, b, e, <<>>, r)
  BY <1>1, <1>4, SpliceIs
<1> HIDE DEF r
<1>6. r \in Seq(S) /\ Len(r) = (b - 1) + 0 + (Len(s) - e) /\ \A i \in 1..(b - 1) : r[i] = s[i]
  BY <1>5 DEF Spliced
<1>7. \A i \in 1..(Len(s) - e) : r[b - 1 + 0 + i] = s[e + i]
  BY <1>5 DEF Spliced
<1>8. IsList(r) /\ DOMAIN r = 1..Len(r)
  BY <1>6, ListIs
<1>9. ASSUME ~Doubled(Begins(s)), NEW i \in 1..Len(r), r[i] = "begin" PROVE FALSE
  <2>1. \A j \in DOMAIN s : s[j] = "begin" => j = b
    BY <1>3, <1>9 DEF Doubled, Begins
  <2>2. CASE i < b
    <3>1. i \in 1..(b - 1) /\ i \in DOMAIN s /\ i # b
      BY <1>1, <1>3, <2>2
    <3> QED BY <1>6, <1>9, <2>1, <3>1
  <2>3. CASE ~(i < b)
    <3> DEFINE k == i - (b - 1)
    <3>1. k \in 1..(Len(s) - e) /\ b - 1 + 0 + k = i
      BY <1>1, <1>2, <1>3, <1>6, <2>3
    <3> HIDE DEF k
    <3>2. e + k \in DOMAIN s /\ e + k # b
      BY <1>1, <1>2, <1>3, <3>1
    <3>3. s[e + k] = "begin"
      BY <1>7, <1>9, <3>1
    <3> QED BY <2>1, <3>2, <3>3
  <2> QED BY <2>2, <2>3
<1>10. ~Doubled(Begins(s)) => ~HasBlock(r)
  BY <1>8, <1>9 DEF HasBlock, Ends, Begins
<1> QED BY <1>8, <1>10 DEF r, b, e

LEMMA BlockIs ==
  ASSUME NEW s, IsList(s), NEW t, IsList(t.block)
  PROVE  Transforms(TransformBlock(s, t), s) /\ (~Markers(t, s) => BlockThere(t, TransformBlock(s, t).lines))
<1> DEFINE did == TransformBlock(s, t)
           from == Start(s)
           to == MinOf(Ends(s))
           S == Elems(s) \cup Elems(t.block) \cup {"begin", "end"}
           full == Framed(t.block)
<1>1. s \in Seq(S) /\ t.block \in Seq(S) /\ "begin" \in S /\ "end" \in S /\ Len(s) \in Nat /\ DOMAIN s = 1..Len(s)
  <2>1. s \in Seq(Elems(s)) /\ t.block \in Seq(Elems(t.block))
    BY ListSeq
  <2>2. Len(s) \in Nat /\ DOMAIN s = 1..Len(s)
    BY ListSeq
  <2> QED BY <2>1, <2>2
<1>2. full \in Seq(S)
  BY <1>1, FramedIs
<1> HIDE DEF S, full
<1>3. CASE Unblocks(t) /\ HasBlock(s)
  <2> DEFINE r == Splice(s, from, to, <<>>)
  <2>1. did = Gives(r, TRUE)
    BY <1>3 DEF TransformBlock, Unblocks
  <2>2. IsList(r) /\ (~Doubled(Begins(s)) => ~HasBlock(r))
    BY <1>3, BlockOut
  <2> HIDE DEF r, did
  <2>3. did.lines = r /\ did.changed
    BY <2>1 DEF Gives
  <2> QED BY <1>3, <2>2, <2>3 DEF Transforms, Markers, BlockThere, did
<1>4. CASE Unblocks(t) /\ ~HasBlock(s)
  <2>1. did = Gives(s, FALSE)
    BY <1>4 DEF TransformBlock, Unblocks
  <2> HIDE DEF did
  <2>2. did.lines = s
    BY <2>1 DEF Gives
  <2> QED BY <1>4, <2>2 DEF Transforms, BlockThere, did
<1>5. CASE ~Unblocks(t) /\ ~HasBlock(s)
  <2> DEFINE at == BlockAt(s, t)
             r == Splice(s, at, at - 1, full)
  <2>1. did = Gives(InsertBlock(s, full, t), TRUE)
    BY <1>5 DEF TransformBlock, Unblocks, Framed, full
  <2>2. at \in 1..(Len(s) + 1) /\ InsertBlock(s, full, t) = r
    BY BlockPlace
  <2> HIDE DEF at, did
  <2>3. at - 1 \in 0..Len(s) /\ at - 1 <= at - 1
    BY <1>1, <2>2
  <2>4. Spliced(S, s, at, at - 1, full, r)
    BY <1>1, <1>2, <2>2, <2>3, SpliceIs
  <2>5. did.lines = r /\ did.changed
    BY <2>1, <2>2 DEF Gives
  <2>6. ASSUME ~Markers(t, s) PROVE BlockThere(t, r)
    <3>1. ~Contains(t.block, "end") /\ Begins(s) = {}
      BY <1>5, <2>6 DEF Markers
    <3>2. \A i \in 1..(at - 1) : s[i] # "begin"
      BY <1>1, <2>2, <3>1 DEF Begins
    <3>3. HasBlock(r) /\ SubSeq(r, Start(r), MinOf(Ends(r))) = full
      BY <1>1, <2>2, <2>3, <3>1, <3>2, BlockPut DEF full
    <3> QED BY <1>5, <3>3 DEF BlockThere, full
  <2> HIDE DEF r
  <2>7. IsList(r)
    BY <2>4, ListIs DEF Spliced
  <2> QED BY <2>5, <2>6, <2>7 DEF Transforms, did
<1>6. CASE ~Unblocks(t) /\ HasBlock(s) /\ SubSeq(s, from, to) = full
  <2>1. did = Gives(s, FALSE)
    BY <1>6 DEF TransformBlock, Unblocks, Framed, full
  <2> HIDE DEF did
  <2>2. did.lines = s
    BY <2>1 DEF Gives
  <2> QED BY <1>6, <2>2 DEF Transforms, BlockThere, did, full
<1>7. CASE ~Unblocks(t) /\ HasBlock(s) /\ SubSeq(s, from, to) # full
  <2> DEFINE r == Splice(s, from, to, full)
  <2>1. did = Gives(r, TRUE)
    BY <1>7 DEF TransformBlock, Unblocks, Framed, full
  <2>2. to \in 1..Len(s) /\ to > from /\ Begins(s) # {}
    BY <1>7, EndIs
  <2>3. from \in 1..Len(s) /\ \A i \in 1..Len(s) : s[i] = "begin" => from <= i
    BY <2>2, StartIs
  <2> HIDE DEF did, from, to
  <2>4. from \in 1..(Len(s) + 1) /\ to \in 0..Len(s) /\ from - 1 <= to
    BY <1>1, <2>2, <2>3
  <2>5. Spliced(S, s, from, to, full, r)
    BY <1>1, <1>2, <2>4, SpliceIs
  <2>6. did.lines = r /\ did.changed
    BY <2>1 DEF Gives
  <2>7. ASSUME ~Markers(t, s) PROVE BlockThere(t, r)
    <3>1. ~Contains(t.block, "end")
      BY <1>7, <2>7 DEF Markers
    <3>2. \A i \in 1..(from - 1) : s[i] # "begin"
      BY <1>1, <2>3
    <3>3. HasBlock(r) /\ SubSeq(r, Start(r), MinOf(Ends(r))) = full
      BY <1>1, <2>4, <3>1, <3>2, BlockPut DEF full
    <3> QED BY <1>7, <3>3 DEF BlockThere, full
  <2> HIDE DEF r
  <2>8. IsList(r)
    BY <2>5, ListIs DEF Spliced
  <2> QED BY <2>6, <2>7, <2>8 DEF Transforms, did
<1> QED BY <1>3, <1>4, <1>5, <1>6, <1>7

LEMMA BlockinfileRight ==
  ASSUME NEW t, NEW h, NEW check, Fits(t, h), t.module = "blockinfile"
  PROVE  Right(t, h, BlockinfileRun(h, t, check), check)
<1> DEFINE s == h.node.text.lines
           did == TransformBlock(s, t)
<1>1. IsList(s) /\ IsList(t.block)
  BY LineTasks DEF LineModules, Fits, FitsFiles
<1> HIDE DEF s, did
<1>2. Transforms(did, s) /\ (~Markers(t, s) => BlockThere(t, did.lines))
  BY <1>1, BlockIs DEF did
<1>3. ~NotAsAsked(t, h) => ~Markers(t, s)
  BY DEF NotAsAsked, StrayMarker, Markers, Unblocks, s
<1>4. BlockThere(t, did.lines) => Edited(t, did.lines)
  <2>1. ASSUME BlockThere(t, did.lines), NEW g, g.node.text.lines = did.lines PROVE LinesPromised(t, g)
    BY <2>1 DEF LinesPromised, BlockThere, Unblocks, Framed
  <2> QED BY <2>1, PromisedBy DEF Edited
<1>5. IsList(did.lines) /\ (~did.changed => did.lines = s)
  BY <1>2 DEF Transforms
<1> QED BY <1>2, <1>3, <1>4, <1>5, EditRight DEF BlockinfileRun, s, did

\* What replace makes of a line in its scope.
LEMMA TransformAllIs ==
  ASSUME NEW s, IsList(s), NEW t
  PROVE  LET r == TransformAll(s, t)
         IN  /\ IsList(r) /\ DOMAIN r = DOMAIN s /\ Len(r) = Len(s)
             /\ \A i \in DOMAIN s : r[i] = s[i] \/ (i \in Scope(s, t) /\ s[i] \in t.pattern /\ r[i] = t.rewrite[s[i]])
             /\ \A i \in DOMAIN s : i \in Scope(s, t) /\ s[i] \in t.pattern => r[i] = t.rewrite[s[i]]
<1> DEFINE r == TransformAll(s, t)
           S == Elems(s) \cup {t.rewrite[l] : l \in t.pattern}
<1>1. DOMAIN s = 1..Len(s) /\ Len(s) \in Nat
  BY ListSeq
<1>2. DOMAIN r = DOMAIN s /\ r = [i \in DOMAIN s |-> r[i]]
  BY DEF TransformAll
<1>3. \A i \in DOMAIN s : r[i] = IF i \in Scope(s, t) /\ s[i] \in t.pattern THEN t.rewrite[s[i]] ELSE s[i]
  BY DEF TransformAll
<1> HIDE DEF r
<1>4. \A i \in DOMAIN s : r[i] \in S
  BY <1>3 DEF Elems
<1> HIDE DEF S
<1>5. r \in [1..Len(s) -> S]
  BY <1>1, <1>2, <1>4
<1>6. r \in Seq(S)
  BY <1>1, <1>5
<1>7. Len(r) = Len(s)
  BY <1>1, <1>5
<1>8. IsList(r)
  BY <1>6, ListIs
<1>9. \A i \in DOMAIN s : r[i] = s[i] \/ (i \in Scope(s, t) /\ s[i] \in t.pattern /\ r[i] = t.rewrite[s[i]])
  BY <1>3
<1>10. \A i \in DOMAIN s : i \in Scope(s, t) /\ s[i] \in t.pattern => r[i] = t.rewrite[s[i]]
  BY <1>3
<1> QED BY <1>2, <1>7, <1>8, <1>9, <1>10 DEF r

LEMMA SettledScope ==
  ASSUME NEW s, IsList(s), NEW t, ~Restless(t)
  PROVE  Scope(TransformAll(s, t), t) = Scope(s, t)
<1> DEFINE r == TransformAll(s, t)
<1>1. DOMAIN r = DOMAIN s /\ Len(r) = Len(s)
  BY TransformAllIs
<1>2. \A i \in DOMAIN s : r[i] = s[i] \/ (s[i] \in t.pattern /\ r[i] = t.rewrite[s[i]])
  BY TransformAllIs
<1> HIDE DEF r
<1>3. \A l \in t.pattern : l \notin t.before /\ t.rewrite[l] \notin t.before /\ l \notin t.after /\ t.rewrite[l] \notin t.after
  BY DEF Restless
<1>4. Matches(r, t.before) = Matches(s, t.before)
  BY <1>1, <1>2, <1>3 DEF Matches
<1>5. Matches(r, t.after) = Matches(s, t.after)
  BY <1>1, <1>2, <1>3 DEF Matches
<1>6. Scope(r, t) = Scope(s, t)
  BY <1>1, <1>4, <1>5 DEF Scope
<1> QED BY <1>6 DEF r

LEMMA Settled ==
  ASSUME NEW s, IsList(s), NEW t, ~Restless(t)
  PROVE  TransformAll(TransformAll(s, t), t) = TransformAll(s, t)
<1> DEFINE r == TransformAll(s, t)
           q == TransformAll(r, t)
<1>1. IsList(r) /\ DOMAIN r = DOMAIN s
  BY TransformAllIs
<1>2. \A i \in DOMAIN s : r[i] = s[i] \/ (i \in Scope(s, t) /\ s[i] \in t.pattern /\ r[i] = t.rewrite[s[i]])
  BY TransformAllIs
<1>3. \A i \in DOMAIN s : i \in Scope(s, t) /\ s[i] \in t.pattern => r[i] = t.rewrite[s[i]]
  BY TransformAllIs
<1>4. Scope(r, t) = Scope(s, t)
  BY SettledScope
<1> HIDE DEF r
<1>5. DOMAIN q = DOMAIN r /\ q = [i \in DOMAIN r |-> q[i]] /\ r = [i \in DOMAIN r |-> r[i]]
  <2>1. r = [i \in DOMAIN r |-> r[i]]
    BY <1>1 DEF IsList
  <2> QED BY <2>1 DEF TransformAll
<1>6. \A i \in DOMAIN r : q[i] = IF i \in Scope(r, t) /\ r[i] \in t.pattern THEN t.rewrite[r[i]] ELSE r[i]
  BY DEF TransformAll
<1> HIDE DEF q
<1>7. \A l \in t.pattern : t.rewrite[l] \in t.pattern => t.rewrite[t.rewrite[l]] = t.rewrite[l]
  BY DEF Restless
<1>8. ASSUME NEW i \in DOMAIN r PROVE q[i] = r[i]
  <2>1. CASE i \in Scope(r, t) /\ r[i] \in t.pattern
    <3>1. q[i] = t.rewrite[r[i]]
      BY <1>6, <2>1
    <3>2. CASE s[i] \in t.pattern
      <4>1. r[i] = t.rewrite[s[i]]
        BY <1>1, <1>3, <1>4, <2>1, <3>2
      <4> QED BY <1>7, <2>1, <3>1, <3>2, <4>1
    <3>3. CASE s[i] \notin t.pattern
      <4>1. r[i] = s[i]
        BY <1>1, <1>2, <3>3
      <4> QED BY <2>1, <3>3, <4>1
    <3> QED BY <3>2, <3>3
  <2>2. CASE ~(i \in Scope(r, t) /\ r[i] \in t.pattern)
    BY <1>6, <2>2
  <2> QED BY <2>1, <2>2
<1> QED BY <1>5, <1>8 DEF q, r

LEMMA ReplaceRight ==
  ASSUME NEW t, NEW h, NEW check, Fits(t, h), t.module = "replace"
  PROVE  Right(t, h, ReplaceRun(h, t, check), check)
<1>1. IsList(h.node.text.lines)
  BY LineTasks DEF LineModules
<1>2. IsList(TransformAll(h.node.text.lines, t))
  BY <1>1, TransformAllIs
<1>3. ~NotAsAsked(t, h) => ~Restless(t)
  BY DEF NotAsAsked
<1> QED BY <1>1, <1>2, <1>3, Settled, ReplaceEditRight
==============================================================================
