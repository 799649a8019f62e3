--------------------------- MODULE ManagedFiles ---------------------------
(***************************************************************************)
(* The modules of pkg/module that manage one file: file, copy, fetch,      *)
(* template, lineinfile, blockinfile and replace, each as the run it makes *)
(* of a task on a host.                                                    *)
(*                                                                         *)
(* The host keeps, of everything it has, the path the task names (node),   *)
(* whether the directory above it exists (dir), the file a link may point  *)
(* to (src), the backup (bak), the temporary file (tmp) and, for fetch,    *)
(* the copy on the control machine (got).  A text is a sequence of lines   *)
(* with the way its lines end; a pattern is the set of lines it matches.   *)
(***************************************************************************)
EXTENDS ModuleRun

CONSTANTS Owners,      \* the users the host knows
          Valid(_)     \* the texts the validate command of a task accepts

NoPattern == {}
Perm(mode, owner) == [mode |-> mode, owner |-> owner]
AsIs == Perm("", "")
Default == Perm("644", "root")
LinkPerm == Perm("777", "root")

Node(kind, text, perm) == [kind |-> kind, text |-> text, perm |-> perm]
Text(lines, eol) == [lines |-> lines, eol |-> eol]
Empty == Text(<<>>, "lf")
Absent == Node("absent", Empty, AsIs)
Exists(h) == h.node.kind # "absent"

-----------------------------------------------------------------------------
(* SetFilePermissions.  stat shows the permissions of a link and not of    *)
(* the file it points to, which chmod and chown change; a second name of   *)
(* the same file has the permissions of the file.  chown fails for a user  *)
(* the host does not know, and both fail when there is no file: the exit   *)
(* code is not looked at.                                                  *)

Shown(h) == CASE h.node.kind = "link" -> LinkPerm
              [] h.node.kind = "hard" -> h.src.perm
              [] OTHER -> h.node.perm

WithPerm(h, perm) == CASE h.node.kind \in {"link", "hard"} -> [h EXCEPT !.src.perm = perm]
                       [] h.node.kind = "absent" -> h
                       [] OTHER -> [h EXCEPT !.node.perm = perm]

RealPerm(h) == IF h.node.kind \in {"link", "hard"} THEN h.src.perm ELSE h.node.perm

Chmod(h, mode)  == WithPerm(h, [RealPerm(h) EXCEPT !.mode = mode])
Chown(h, owner) == IF owner \in Owners THEN WithPerm(h, [RealPerm(h) EXCEPT !.owner = owner]) ELSE h

SetFilePermissions(h, want, recurse) ==
    LET known == Exists(h) /\ ~recurse
        chmod == want.mode # "" /\ (known => want.mode # Shown(h).mode)
        chown == want.owner # "" /\ (known => want.owner # Shown(h).owner)
        first == IF chmod THEN <<Chmod(h, want.mode)>> ELSE <<>>
        then  == IF chown THEN <<Chown(IF chmod THEN first[1] ELSE h, want.owner)>> ELSE <<>>
    IN  Said(first \o then)

-----------------------------------------------------------------------------
(* Steps that the modules share. *)

Backup(h) == [h EXCEPT !.bak = h.node]
BackupIf(h, asked) == IF asked /\ Exists(h) THEN Backup(h) ELSE h
MakeDir(h) == [h EXCEPT !.dir = TRUE]

(* A redirection or an upload fills the file that is there or makes one. *)
Write(h, text) ==
    IF ~h.dir THEN h
    ELSE [h EXCEPT !.node = IF Exists(h) THEN [@ EXCEPT !.text = text] ELSE Node("file", text, Default)]

WriteTmp(h, text) == [h EXCEPT !.tmp = Node("file", text, Default)]
DropTmp(h) == [h EXCEPT !.tmp = Absent]
MoveTmp(h) == IF h.dir THEN [h EXCEPT !.node = h.tmp, !.tmp = Absent] ELSE h

(* executeValidate: the command is there and does not like the text. *)
Rejects(t, text) == t.validate /\ ~Valid(text)

(* The permissions set once the file is written: every error is dropped. *)
Finish(h, want) == Hushed(SetFilePermissions(h, want, FALSE))

(* Mutant: only the text decides whether the file is changed. *)
OnlyPermissionsUnsaid(h, want) == Ran(SetFilePermissions(h, want, FALSE), FALSE, FALSE)

(* A run that found the right text and looks at the permissions alone: it  *)
(* sets them in check mode too.                                            *)
OnlyPermissions(h, want) ==
    LET trail == SetFilePermissions(h, want, FALSE) IN Ran(trail, trail # <<>>, FALSE)

-----------------------------------------------------------------------------
(* file *)

Touch(h) == IF h.dir /\ ~Exists(h) THEN [h EXCEPT !.node = Node("file", Empty, Default)] ELSE h
Unlink(h, backup) == [h EXCEPT !.node = Absent, !.bak = IF backup THEN h.node ELSE @]
Linked(h, kind, backup) ==
    LET away == IF Exists(h) THEN Unlink(h, backup) ELSE h
    IN  IF h.dir THEN [away EXCEPT !.node = Node(kind, Empty, AsIs)] ELSE away

(* What the command for a state does: the host it leaves, whether it marks *)
(* a change, and whether its exit code is 0.                               *)
Did(h, marks, ok) == [host |-> h, marks |-> marks, ok |-> ok]

FileState(h, t) ==
    CASE t.state = "directory" ->
            IF h.node.kind = "dir" THEN Did(h, FALSE, TRUE)
            ELSE IF Exists(h) THEN Did(h, FALSE, FALSE)
            ELSE Did([MakeDir(h) EXCEPT !.node = Node("dir", Empty, Perm("755", "root"))], TRUE, TRUE)
      [] t.state = "touch" -> Did(Touch(h), TRUE, h.dir)
      [] t.state = "absent" -> IF Exists(h) THEN Did(Unlink(h, t.backup), TRUE, TRUE) ELSE Did(h, FALSE, TRUE)
      [] t.state \in {"link", "hard"} ->
            IF h.node.kind = t.state THEN Did(h, FALSE, TRUE)
            ELSE IF Exists(h) /\ ~t.force THEN Did(h, FALSE, FALSE)
            ELSE Did(Linked(h, t.state, t.backup), h.dir, h.dir)
      [] t.state = "file" -> Did(h, t.times /\ Exists(h), Exists(h))

(* The same in check mode: only echo, and force is forgotten. *)
FileStateCheck(h, t) ==
    CASE t.state = "directory" -> Did(h, h.node.kind # "dir", TRUE)
      [] t.state = "touch" -> Did(h, TRUE, TRUE)
      [] t.state = "absent" -> Did(h, Exists(h), TRUE)
      [] t.state \in {"link", "hard"} ->
            IF h.node.kind = t.state THEN Did(h, FALSE, TRUE) ELSE Did(h, ~Exists(h), ~Exists(h))
      [] t.state = "file" -> Did(h, FALSE, Exists(h))

FileRun(h, t, check) ==
    IF check
    THEN LET did == FileStateCheck(h, t) IN Ran(<<>>, did.marks \/ t.want # AsIs, ~did.ok)
    ELSE LET did == FileState(h, t)
             marks == did.marks \/ t.state = "touch"
             trail == <<Loud(did.host)>> \o Hushed(SetFilePermissions(did.host, t.want, t.recurse))
         IN  [trail |-> trail, failed |-> ~did.ok,
              changed |-> [n \in 0..Len(trail) |-> marks \/ n > 1]]

-----------------------------------------------------------------------------
(* copy, template: a text of the control machine goes to the path. *)

(* Mutant: the error of the move is dropped, as that of the permissions is. *)
MoveUnseen(h, want) == <<Quiet(MoveTmp(h))>> \o Finish(MoveTmp(h), want)

Move(h, want) == <<Loud(MoveTmp(h))>> \o Finish(MoveTmp(h), want)

(* The upload to a temporary file, and validate, which sees that file *)
(* before it is moved: both return their errors.                      *)
Staged(h, t, quietMove) ==
    LET up == WriteTmp(h, t.text)
        moved == Move(up, t.want)
    IN  IF Rejects(t, t.text) THEN Ran(<<Loud(up), Quiet(DropTmp(up))>>, FALSE, TRUE)
        ELSE Changes(Said(<<up, up>>) \o (IF quietMove THEN Hushed(moved) ELSE moved))

Prepared(h, t) == <<Quiet(BackupIf(h, t.backup)), Quiet(MakeDir(BackupIf(h, t.backup)))>>

Direct(h, t) == Changes(<<Loud(Write(h, t.text))>> \o Finish(Write(h, t.text), t.want))

CopyLocal(h, t, check) ==
    IF Exists(h) /\ h.node.text = t.text THEN OnlyPermissions(h, t.want)
    ELSE IF Exists(h) /\ ~t.force THEN Unchanged
    ELSE IF check THEN Reports(TRUE)
    ELSE LET ready == Prepared(h, t)
             g == ready[2].host
         IN  After(ready, IF t.become \/ t.validate THEN Staged(g, t, FALSE) ELSE Direct(g, t))

(* content: nothing goes to a temporary file without validate, and the     *)
(* error of the move is dropped.                                           *)
CopyContent(h, t, check) ==
    IF Exists(h) /\ h.node.text = t.text THEN OnlyPermissions(h, t.want)
    ELSE IF Exists(h) /\ ~t.force THEN Unchanged
    ELSE IF check THEN Reports(TRUE)
    ELSE LET ready == Prepared(h, t)
             g == ready[2].host
         IN  After(ready, IF t.validate THEN Staged(g, t, TRUE) ELSE Direct(g, t))

(* remote_src: cp -p gives the copy the permissions of its source.  What   *)
(* it writes through when the path is a link is left out.                  *)
CopyRemote(h, t, check) ==
    LET ready == Prepared(h, t)
        g == ready[2].host
        staged == [g EXCEPT !.tmp = h.src]
        copied == [g EXCEPT !.node = h.src]
    IN  IF h.src.kind = "absent" THEN Refused
        ELSE IF h.node.text = h.src.text /\ Exists(h) THEN Unchanged
        ELSE IF Exists(h) /\ ~t.force THEN Unchanged
        ELSE IF check THEN Reports(TRUE)
        ELSE After(ready, IF Rejects(t, h.src.text) THEN Ran(<<Loud(staged), Quiet(DropTmp(staged))>>, FALSE, TRUE)
               ELSE IF t.validate THEN Changes(Said(<<staged, staged>>) \o Move(staged, t.want))
               ELSE Changes(<<Loud(copied)>> \o Finish(copied, t.want)))

CopyRun(h, t, check) == CASE t.from = "remote"  -> CopyRemote(h, t, check)
                          [] t.from = "content" -> CopyContent(h, t, check)
                          [] t.from = "local"   -> CopyLocal(h, t, check)

TemplateRun(h, t, check) == CopyLocal(h, t, check)

(* A directory of one directory and one file in it: dir and node stand for *)
(* the two of the host.  What is there already keeps its permissions.      *)
CopyDirectoryRun(h, t, check) ==
    LET made == MakeDir(h)
        sent == Write(made, t.text)
        same == Exists(h) /\ (h.node.text = t.text \/ ~t.force)
        todo == ~h.dir \/ ~same
    IN  IF check THEN Reports(todo)
        ELSE Ran((IF h.dir THEN <<>> ELSE <<Loud(made)>>)
                 \o (IF same THEN <<>> ELSE <<Quiet(made), Loud(sent)>> \o Finish(sent, t.want)),
                 todo, FALSE)

(* fetch: the host is read, the control machine is written. *)
FetchRun(h, t, check) ==
    IF h.node.kind # "file" THEN IF t.fail THEN Refused ELSE Unchanged
    ELSE IF h.got = h.node.text THEN Unchanged
    ELSE IF check THEN Reports(TRUE)
    ELSE Changes(<<Loud([h EXCEPT !.got = h.node.text])>>)
=============================================================================
