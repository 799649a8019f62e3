-------------------------- MODULE ManagedTransfers --------------------------
(***************************************************************************)
(* The modules of pkg/module that bring trees of files, or a container, to *)
(* a host: git, get_url, archive, unarchive, synchronize, tempfile and     *)
(* docker_container; and command and shell.  Most of them send one script, *)
(* which stops at its first failing command and has then done what stands  *)
(* before it.                                                              *)
(***************************************************************************)
EXTENDS ManagedFiles, FiniteSets

(* The run of one script that leaves h. *)
Script(h, changed)    == Ran(<<Loud(h)>>, changed, FALSE)
ScriptFailed(h)       == Ran(<<Loud(h)>>, FALSE, TRUE)

-----------------------------------------------------------------------------
(* git.  What is at the destination (dest), the repository it came from,   *)
(* the revision of the branch main there, what is checked out (at: main or *)
(* a revision), whether files were modified, and whether the server can be *)
(* reached (up).  On the server main is at r2, which follows r1; "mine" is *)
(* a commit made on the host.                                              *)

HeadOf(h) == IF h.at = "main" THEN h.main ELSE h.at

(* A clone is on a branch, and then the commit a task asks for is not *)
(* checked out.                                                        *)
Cloned(h, t) == [h EXCEPT !.dest = "repo", !.origin = t.repo, !.main = "r2", !.at = "main", !.dirty = FALSE]
Gone(h) == [h EXCEPT !.dest = "none", !.dirty = FALSE]

(* Files that were modified keep another revision from being checked out. *)
Checkout(h, t) == IF t.version = "" THEN h ELSE [h EXCEPT !.at = t.version]
CheckoutFails(h, t) == h.dirty /\ HeadOf(Checkout(h, t)) # HeadOf(h)

Pulls(h, t) == t.update /\ h.at = "main" /\ t.version \in {"", "main"}
PullFails(h) == h.main = "mine" \/ (h.main # "r2" /\ h.dirty)
Pull(h) == [h EXCEPT !.main = "r2"]

Updated(h, t) ==
    LET out == Checkout(h, t)
        new == IF Pulls(out, t) THEN Pull(out) ELSE out
    IN  IF (t.update /\ ~h.up) \/ CheckoutFails(h, t) THEN ScriptFailed(h)
        ELSE IF Pulls(out, t) /\ PullFails(out) THEN ScriptFailed(out)
        ELSE Script(new, HeadOf(new) # HeadOf(h))

GitRun(h, t, check) ==
    CASE t.state = "absent" -> Script(Gone(h), h.dest # "none")
      [] t.state = "present" /\ h.dest = "other" -> ScriptFailed(h)
      [] t.state = "present" /\ h.dest = "none" ->
            IF ~t.clone THEN Script(h, FALSE) ELSE IF h.up THEN Script(Cloned(h, t), TRUE) ELSE ScriptFailed(h)
      [] t.state = "present" /\ h.dest = "repo" /\ h.origin # t.repo ->
            IF ~t.force THEN ScriptFailed(h) ELSE IF h.up THEN Script(Cloned(h, t), TRUE) ELSE ScriptFailed(Gone(h))
      [] OTHER -> Updated(h, t)

-----------------------------------------------------------------------------
(* get_url.  text is what the server sends, sum the text whose checksum    *)
(* the task gives, or NoSum.                                               *)

NoSum == Text(<<>>, "none")

GetURLCheck(h, t) == \/ ~Exists(h)
                     \/ IF t.sum # NoSum THEN h.node.text # t.sum ELSE t.force

GetURLRun(h, t, check) ==
    LET kept == BackupIf(MakeDir(h), t.backup)
        moved == [kept EXCEPT !.node = Node("file", t.text, Perm("600", "root"))]
        moded == IF t.want.mode = "" THEN moved ELSE Chmod(moved, t.want.mode)
    IN  IF check THEN Reports(GetURLCheck(h, t))
        ELSE IF Exists(h) /\ IF t.sum # NoSum THEN h.node.text = t.sum ELSE ~t.force THEN Script(h, FALSE)
        ELSE IF t.sum \notin {NoSum, t.text} THEN ScriptFailed(MakeDir(h))
        ELSE IF Exists(h) /\ h.node.text = t.text THEN Script(MakeDir(h), FALSE)
        ELSE IF t.want.owner \notin Owners \cup {""} THEN ScriptFailed(moded)
        ELSE Script(IF t.want.owner = "" THEN moded ELSE Chown(moded, t.want.owner), TRUE)

-----------------------------------------------------------------------------
(* archive.  The host keeps the paths that exist (here) and what the       *)
(* archive at the destination holds.  In a pipe the failure of tar, which  *)
(* does not find a path, is not seen.                                      *)

ArchiveScript(h, t) ==
    LET packed == [kind |-> "archive", holds |-> t.paths \cap h.here]
        moved == [h EXCEPT !.pack = packed, !.bak = IF t.backup THEN h.pack ELSE @,
                           !.here = IF t.remove THEN @ \ t.paths ELSE @]
    IN  IF ~t.piped /\ ~(t.paths \subseteq h.here) THEN ScriptFailed(h)
        ELSE IF h.pack = packed THEN Script(h, FALSE)
        ELSE IF t.owner \notin Owners \cup {""} THEN ScriptFailed(moved)
        ELSE Script(moved, TRUE)

ArchiveRun(h, t, check) == IF check THEN Reports(TRUE) ELSE ArchiveScript(h, t)

-----------------------------------------------------------------------------
(* unarchive.  The archive is uploaded unless it is there, extracted, and  *)
(* removed at the end.  creates: whether the file exists that tells that   *)
(* all is done.                                                            *)

Extracted(h, t) == IF t.good THEN [h EXCEPT !.files = "new", !.creates = @ \/ t.holds] ELSE h

UnarchiveRun(h, t, check) ==
    LET up == [h EXCEPT !.tmp = TRUE]
        h1 == IF t.remote THEN h ELSE up
        h2 == Extracted(h1, t)
        h3 == IF t.mode = "" THEN h2 ELSE [h2 EXCEPT !.mode = t.mode]
    IN  IF t.creates /\ h.creates THEN Unchanged
        ELSE IF check THEN Reports(TRUE)
        ELSE Ran((IF t.remote THEN <<>> ELSE <<Loud(up)>>) \o <<Loud(h2)>>
                   \o (IF t.mode = "" THEN <<>> ELSE <<Loud(h3)>>)
                   \o (IF t.remote THEN <<>> ELSE <<Quiet([h3 EXCEPT !.tmp = FALSE])>>),
                 t.good, ~t.good)

-----------------------------------------------------------------------------
(* synchronize: rsync between two trees, from name to version.  existing:  *)
(* only what the destination has; files go before what is deleted.         *)

Sent(h, t) == {f \in DOMAIN h.src : /\ h.src[f] \notin {"none", h.dest[f]}
                                    /\ t.existing => h.dest[f] # "none"}
Deleted(h, t) == {f \in DOMAIN h.src : t.delete /\ h.src[f] = "none" /\ h.dest[f] # "none"}

RsyncChanged(h, t) == Sent(h, t) \cup Deleted(h, t) # {}

SynchronizeRun(h, t, check) ==
    LET sent == [h EXCEPT !.dest = [f \in DOMAIN @ |-> IF f \in Sent(h, t) THEN h.src[f] ELSE @[f]]]
        done == [sent EXCEPT !.dest = [f \in DOMAIN @ |-> IF f \in Deleted(h, t) THEN "none" ELSE @[f]]]
    IN  IF \A f \in DOMAIN h.src : h.src[f] = "none" THEN Refused
        ELSE IF check THEN Reports(RsyncChanged(h, t))
        ELSE Ran(<<Loud(sent), Loud(done)>>, RsyncChanged(h, t), FALSE)

-----------------------------------------------------------------------------
(* tempfile: the script says the path even when nothing could be made. *)

TempfileRun(h, t, check) ==
    IF check THEN Reports(TRUE)
    ELSE Script(IF h.writable THEN [h EXCEPT !.made = @ + 1] ELSE h, TRUE)

-----------------------------------------------------------------------------
(* docker_container.  A container has its image, its settings and whether  *)
(* it runs; the host has the version it pulled of the image.  No container *)
(* can be made from no image, or from the image "bad", which cannot be     *)
(* pulled either.                                                          *)

NoContainer == [image |-> "", conf |-> "", runs |-> FALSE]
Container(t) == [image |-> t.image, conf |-> t.conf, runs |-> t.state \in {"started", "restarted"}]

InState(c, state) == [c EXCEPT !.runs = CASE state = "present" -> @
                                          [] state = "stopped" -> FALSE
                                          [] OTHER -> TRUE]

DockerContainerRun(h, t, check) ==
    LET exists == h.box # NoContainer
        pulls == t.pull /\ t.image # ""
        h1 == IF pulls THEN [h EXCEPT !.pulled = "new"] ELSE h
        recreate == t.recreate \/ (t.image # "" /\ t.image # h.box.image)
        gone == [h1 EXCEPT !.box = NoContainer]
        new == [h1 EXCEPT !.box = InState(IF exists /\ ~recreate THEN h.box ELSE Container(t), t.state)]
    IN  CASE pulls /\ t.image = "bad" -> ScriptFailed(h)
          [] t.state = "absent" /\ (pulls => t.image # "bad") -> Script(gone, gone # h)
          [] t.state # "absent" /\ (~exists \/ recreate) /\ t.image \in {"", "bad"} /\ (pulls => t.image # "bad") ->
               ScriptFailed(gone)
          [] OTHER -> Script(new, new # h \/ (exists /\ t.recreate) \/ t.state = "restarted")

-----------------------------------------------------------------------------
(* command, shell: the same code twice.  The command makes the path "made" and takes "used"     *)
(* away; it fails where "used" is needed and not there.  A run that is     *)
(* skipped because of "creates" succeeds; one skipped because of "removes" *)
(* returns the exit code of the test, which is not 0.  Nothing is marked:  *)
(* a local or container connection calls every command a change, and SSH   *)
(* none.                                                                   *)

CommandRun(h, t, check) ==
    IF t.creates /\ "made" \in h.here THEN Unchanged
    ELSE IF t.removes /\ "used" \notin h.here THEN Refused
    ELSE IF t.needs /\ "used" \notin h.here THEN ScriptFailed(h)
    ELSE Script([h EXCEPT !.here = (@ \ {"used"}) \cup {"made"}], t.local)

ShellRun(h, t, check) == CommandRun(h, t, check)

-----------------------------------------------------------------------------
(* k8s.  objects: the version the cluster has of each; the manifest goes   *)
(* through a file of its own.  kubectl says of every object whether it was *)
(* unchanged, and one that was is enough; of what it does not find to      *)
(* delete it says nothing.                                                 *)

Applied(h, t) == [h EXCEPT !.objects = [o \in DOMAIN @ |->
                    IF o \in DOMAIN t.objects THEN IF t.state = "present" THEN t.objects[o] ELSE "none" ELSE @[o]]]

K8sChanged(h, t) ==
    IF t.state = "present" THEN \A o \in DOMAIN t.objects : h.objects[o] # t.objects[o]
    ELSE \E o \in DOMAIN t.objects : h.objects[o] # "none"

K8sRun(h, t, check) ==
    LET up == [h EXCEPT !.tmp = TRUE]
        done == IF h.kubectl THEN Applied(up, t) ELSE up
    IN  Ran(<<Loud(up), Loud(done), Quiet([done EXCEPT !.tmp = FALSE])>>, h.kubectl /\ K8sChanged(h, t), ~h.kubectl)

-----------------------------------------------------------------------------
(* uri asks a server; nothing changes on the host.  A server that cannot   *)
(* be reached answers 0; without codes the task wants 200.                 *)

StatusCodes(t) == IF t.codes = {} THEN {200} ELSE t.codes
StatusAllowed(status, codes) == status \in codes
UriRun(h, t, check) == Ran(<<>>, FALSE, ~StatusAllowed(h.status, StatusCodes(t)))
=============================================================================
