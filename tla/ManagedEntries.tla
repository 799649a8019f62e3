-------------------------- MODULE ManagedEntries --------------------------
(***************************************************************************)
(* The modules of pkg/module that keep entries in a file of the host which *)
(* belongs to others too: authorized_key, known_hosts, cron, sysctl and    *)
(* mount; and hostname, user and group.  Each reads what is there, works   *)
(* out the new contents on the control machine and writes them back.       *)
(*                                                                         *)
(* The host keeps the entries (lines), what the running system has (live), *)
(* the backup and, for authorized_key, whether the file can be written.    *)
(* seen is what the read returned: the entries, or nothing when the read   *)
(* failed, because every one of these modules takes a failed read for an   *)
(* empty file.                                                             *)
(***************************************************************************)
EXTENDS ModuleRun

First(S) == CHOOSE i \in S : \A j \in S : i <= j
Final(S) == CHOOSE i \in S : \A j \in S : j <= i

WithLines(h, lines) == [h EXCEPT !.lines = lines]

-----------------------------------------------------------------------------
(* authorized_key.  An entry is a key with its note (comment and options); *)
(* a line that is no key has the key "#".  The keys of a task are matched  *)
(* by the first place they have in its list.                               *)

Place(t, key) == {i \in DOMAIN t.keys : t.keys[i] = key}

AuthorizedKeys(lines, t) ==
    LET known(i) == Place(t, lines[i].key) # {}
        noted(e) == [key |-> e.key, note |-> IF t.note = "" THEN e.note ELSE t.note]
        kept == Rewritten(lines, LAMBDA i :
                  IF lines[i].key = "#" THEN <<lines[i]>>
                  ELSE IF known(i) THEN IF t.state = "absent" THEN <<>> ELSE <<noted(lines[i])>>
                  ELSE IF t.state = "present" /\ t.exclusive THEN <<>> ELSE <<lines[i]>>)
        matched == {First(Place(t, lines[i].key)) : i \in {j \in DOMAIN lines : known(j)}}
        missing == Rewritten(t.keys, LAMBDA i :
                     IF i \in matched THEN <<>> ELSE <<[key |-> t.keys[i], note |-> t.note]>>)
    IN  IF t.state = "absent" THEN kept ELSE kept \o missing

(* The directory first, then the new file is moved over the old one.  Both *)
(* commands end in "|| true", so that a host that cannot do them says that *)
(* it did.                                                                 *)
AuthorizedKeyRun(h, seen, t, check) ==
    LET new == AuthorizedKeys(seen, t)
    IN  IF new = seen THEN Unchanged
        ELSE IF check THEN Reports(TRUE)
        ELSE Changes(Said(<<h, IF h.writable THEN WithLines(h, new) ELSE h>>))

-----------------------------------------------------------------------------
(* known_hosts.  An entry is the hosts of the line, the type and the text  *)
(* of the key, and whether the hosts are hashed.                           *)

KnownHosts(lines, t) ==
    LET target == [hosts |-> {t.name}, type |-> t.type, blob |-> t.blob, hashed |-> t.hash]
        here(i) == t.name \in lines[i].hosts
        same(i) == here(i) /\ lines[i].type = t.type
        right(i) == lines[i].blob = t.blob /\ (t.hash => lines[i].hashed)
        kept == Rewritten(lines, LAMBDA i :
                  CASE t.state = "absent" /\ here(i) /\ t.blob \in {"", lines[i].blob} -> <<>>
                    [] t.state = "present" /\ same(i) /\ ~right(i) -> <<target>>
                    [] OTHER -> <<lines[i]>>)
    IN  IF t.state = "present" /\ ~\E i \in DOMAIN lines : same(i) THEN Append(kept, target) ELSE kept

KnownHostsRun(h, seen, t, check) ==
    LET new == KnownHosts(seen, t)
    IN  IF new = seen THEN Unchanged
        ELSE IF check THEN Reports(TRUE)
        ELSE Changes(<<Quiet(h), Loud(WithLines(h, new))>>)

-----------------------------------------------------------------------------
(* cron.  A line is the comment that names an entry, or a job, which may   *)
(* be commented out (off).  The text of a job is a tuple of words; a text  *)
(* is contained in the texts it is a prefix of.                            *)

Comment(name) == [kind |-> "comment", text |-> name, off |-> FALSE]
Job(text, off) == [kind |-> "job", text |-> text, off |-> off]

(* heads[i]: line i names the entry and takes the line after it along. *)
Heads(lines, name) ==
    LET heads[i \in 0..Len(lines)] == i > 0 /\ lines[i] = Comment(name) /\ ~heads[i - 1]
    IN  heads

(* Without a name every line that contains the text of the job goes, the   *)
(* comment that names the entry of another included.                       *)
CronWithout(lines, t) ==
    LET heads == Heads(lines, t.name)
        goes(i) == IF t.name # <<>> THEN heads[i] \/ heads[i - 1]
                   ELSE t.job # <<>> /\ IsPrefix(t.job, lines[i].text)
    IN  Rewritten(lines, LAMBDA i : IF goes(i) THEN <<>> ELSE <<lines[i]>>)

CronNamed(lines, t) ==
    LET heads == Heads(lines, t.name)
        job == Job(t.job, t.disabled)
        none == ~\E i \in DOMAIN lines : heads[i]
    IN  [i \in DOMAIN lines |-> IF heads[i - 1] THEN job ELSE lines[i]]
          \o (CASE none -> <<Comment(t.name), job>>
                [] ~none /\ heads[Len(lines)] -> <<job>>
                [] OTHER -> <<>>)

(* Without a name: the first line with the text of the job, on or off, *)
(* stands for the entry unless an equal one came before it.             *)
CronUnnamed(lines, t) ==
    LET job == Job(t.job, t.disabled)
        hits == {i \in DOMAIN lines : lines[i].kind = "job" /\ lines[i].text = t.job}
    IN  IF hits = {} THEN Append(lines, job)
        ELSE [i \in DOMAIN lines |-> IF i = First(hits) THEN job ELSE lines[i]]

Crontab(lines, t) == IF t.state = "absent" THEN CronWithout(lines, t)
                     ELSE IF t.name # <<>> THEN CronNamed(lines, t) ELSE CronUnnamed(lines, t)

CronRun(h, seen, t, check) ==
    LET new == Crontab(seen, t)
        saved == IF t.backup /\ seen # <<>> THEN [h EXCEPT !.bak = h.lines] ELSE h
    IN  IF new = seen THEN Unchanged
        ELSE IF check THEN Reports(TRUE)
        ELSE Changes(<<Quiet(saved), Loud(WithLines(saved, new))>>)

-----------------------------------------------------------------------------
(* sysctl.  An entry is a name with its value; live is the value the       *)
(* kernel has for the name of the task.  sysctl -p sets every line of the  *)
(* file in order; the kernel refuses the value "bad".                      *)

Named(lines, name) == {i \in DOMAIN lines : lines[i].name = name}

SysctlFile(lines, t) ==
    LET found == Named(lines, t.name)
        entry == [name |-> t.name, value |-> t.value]
    IN  CASE t.state = "absent" -> Filtered(lines, LAMBDA e : e.name # t.name)
          [] t.state = "present" /\ found = {} -> Append(lines, entry)
          [] OTHER -> ReplaceAt(lines, First(found), entry)

Reload(h, t) == LET set == {i \in Named(h.lines, t.name) : h.lines[i].value # "bad"}
                IN  IF set = {} THEN h ELSE [h EXCEPT !.live = h.lines[Final(set)].value]
ReloadFails(h) == \E i \in DOMAIN h.lines : h.lines[i].value = "bad"
SetLive(h, t) == IF t.value = "bad" THEN h ELSE [h EXCEPT !.live = t.value]

(* The value is tried on the kernel before the file is written only with   *)
(* sysctl_set; the reload comes after the file, the setting last.          *)
SysctlRun(h, seen, t, check) ==
    LET file == SysctlFile(seen, t)
        inFile == file # seen
        inKernel == t.state = "present" /\ h.live # t.value
        before == t.state = "present" /\ t.set
        bad == t.value = "bad" /\ ~t.ignore
        h1 == IF before THEN SetLive(h, t) ELSE h
        h2 == IF inFile THEN WithLines(h1, file) ELSE h1
        loads == (inFile \/ t.state = "present") /\ t.reload
        h3 == IF loads THEN Reload(h2, t) ELSE h2
        after == inKernel /\ ~before
        h4 == IF after THEN SetLive(h3, t) ELSE h3
        steps == (IF before THEN <<h1>> ELSE <<>>) \o (IF inFile THEN <<h2>> ELSE <<>>)
    IN  IF ~inFile /\ ~inKernel THEN Unchanged
        ELSE IF check THEN Reports(TRUE)
        ELSE IF before /\ bad THEN Refused
        ELSE IF loads /\ ReloadFails(h2) /\ ~t.ignore THEN Ran(Said(steps \o <<h3>>), FALSE, TRUE)
        ELSE Ran(Said(steps \o (IF loads THEN <<h3>> ELSE <<>>) \o (IF after THEN <<h4>> ELSE <<>>)),
                 TRUE, after /\ bad)

-----------------------------------------------------------------------------
(* mount.  An entry of fstab is a path with its source and options; live   *)
(* is what is mounted at the path of the task.  The source "bad" cannot be *)
(* mounted.                                                                *)

NotMounted == [src |-> "", opts |-> ""]
Mounts(src, opts) == [src |-> src, opts |-> opts]
At(lines, path) == {i \in DOMAIN lines : lines[i].path = path}

(* Mutant: the last line of the table is taken for the entry. *)
FstabLast(lines, t) == CASE t.state = "absent" /\ lines # <<>> -> RemoveAt(lines, Len(lines))
                         [] OTHER -> lines

Fstab(lines, t) ==
    LET found == At(lines, t.path)
        entry == [path |-> t.path, src |-> t.src, opts |-> t.opts]
    IN  CASE t.state = "present" \/ (t.state = "mounted" /\ t.boot) ->
               IF found = {} THEN Append(lines, entry) ELSE ReplaceAt(lines, First(found), entry)
          [] t.state = "absent" /\ found # {} -> RemoveAt(lines, First(found))
          [] OTHER -> lines

(* mount asks fstab first and takes the parameters of the task otherwise. *)
Mounted(h, lines, t) ==
    LET found == At(lines, t.path)
        entry == lines[First(found)]
    IN  IF found # {} /\ entry.src # "bad" THEN Mounts(entry.src, entry.opts)
        ELSE IF t.src # "bad" THEN Mounts(t.src, t.opts) ELSE h.live

(* A remount of what is not mounted takes what the task leaves out from    *)
(* fstab.                                                                  *)
Completed(lines, t) ==
    LET found == At(lines, t.path)
        entry == lines[First(found)]
    IN  IF found = {} THEN Mounts(t.src, t.opts)
        ELSE Mounts(IF t.src = "" THEN entry.src ELSE t.src, IF t.opts = "defaults" THEN entry.opts ELSE t.opts)

MountRun(h, seen, t, check) ==
    LET file == Fstab(seen, t)
        inFile == file # seen
        up == h.live # NotMounted
        acts == CASE t.state = "mounted" -> ~up \/ inFile
                  [] t.state \in {"unmounted", "absent"} -> up
                  [] t.state = "remounted" -> TRUE
                  [] t.state = "present" -> FALSE
        h1 == IF inFile THEN WithLines(h, file) ELSE h
        asked == Completed(seen, t)
        live == CASE t.state \in {"unmounted", "absent"} -> NotMounted
                  [] t.state = "mounted" /\ ~up -> Mounted(h, h1.lines, t)
                  [] t.state = "remounted" /\ ~up -> IF asked.src \in {"", "bad"} THEN h.live ELSE asked
                  [] OTHER -> [h.live EXCEPT !.opts = t.opts]
        fails == t.state \in {"mounted", "remounted"} /\ live = NotMounted
    IN  IF ~inFile /\ ~acts THEN Unchanged
        ELSE IF check THEN Reports(TRUE)
        ELSE Ran((IF inFile THEN <<Loud(h1)>> ELSE <<>>)
                   \o (IF acts THEN <<Loud([h1 EXCEPT !.live = live])>> ELSE <<>>), TRUE, acts /\ fails)
=============================================================================
