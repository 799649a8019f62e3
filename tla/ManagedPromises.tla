-------------------------- MODULE ManagedPromises --------------------------
(***************************************************************************)
(* What the modules of pkg/module promise, whatever they do to keep it:    *)
(* the run of a task by the operator of its module; what a task that       *)
(* succeeded leaves behind (Promised); what belongs to others and stays    *)
(* (Others); and, each with its reason, the cases in which the code does   *)
(* not keep a promise.                                                     *)
(***************************************************************************)
EXTENDS ManagedLines, ManagedEntries, ManagedAccounts, ManagedServices, ManagedTransfers

Run(t, h, seen, check) ==
    CASE t.module = "file"             -> FileRun(h, t, check)
      [] t.module = "copy"             -> CopyRun(h, t, check)
      [] t.module = "copy_directory"   -> CopyDirectoryRun(h, t, check)
      [] t.module = "template"         -> TemplateRun(h, t, check)
      [] t.module = "fetch"            -> FetchRun(h, t, check)
      [] t.module = "lineinfile"       -> LineinfileRun(h, t, check)
      [] t.module = "blockinfile"      -> BlockinfileRun(h, t, check)
      [] t.module = "replace"          -> ReplaceRun(h, t, check)
      [] t.module = "authorized_key"   -> AuthorizedKeyRun(h, seen, t, check)
      [] t.module = "known_hosts"      -> KnownHostsRun(h, seen, t, check)
      [] t.module = "cron"             -> CronRun(h, seen, t, check)
      [] t.module = "sysctl"           -> SysctlRun(h, seen, t, check)
      [] t.module = "mount"            -> MountRun(h, seen, t, check)
      [] t.module = "hostname"         -> HostnameRun(h, t, check)
      [] t.module = "user"             -> UserRun(h, t, check)
      [] t.module = "group"            -> GroupRun(h, t, check)
      [] t.module = "package"          -> PackageRun(h, t, check)
      [] t.module = "pip"              -> PipRun(h, t, check)
      [] t.module = "service"          -> ServiceRun(h, t, check)
      [] t.module = "systemd"          -> SystemdRun(h, t, check)
      [] t.module = "git"              -> GitRun(h, t, check)
      [] t.module = "get_url"          -> GetURLRun(h, t, check)
      [] t.module = "archive"          -> ArchiveRun(h, t, check)
      [] t.module = "unarchive"        -> UnarchiveRun(h, t, check)
      [] t.module = "synchronize"      -> SynchronizeRun(h, t, check)
      [] t.module = "tempfile"         -> TempfileRun(h, t, check)
      [] t.module = "docker_container" -> DockerContainerRun(h, t, check)
      [] t.module = "k8s"              -> K8sRun(h, t, check)
      [] t.module = "command"          -> CommandRun(h, t, check)
      [] t.module = "shell"            -> ShellRun(h, t, check)
      [] t.module = "uri"              -> UriRun(h, t, check)

SupportsCheckMode(module) == module \notin {"git", "docker_container", "k8s", "command", "shell", "uri"}

ReadsBeforeItWrites == {"authorized_key", "known_hosts", "cron", "sysctl", "mount"}
Reads(t, h) == IF t.module \in ReadsBeforeItWrites THEN h.lines ELSE <<>>

(* What a module takes the host for when the connection is lost at one of  *)
(* the reads before its first command whose error the code drops: what was *)
(* not read is not there.  A module without such a read returns the error  *)
(* of its first read or of its first command.                              *)
Glimpse(h, seen) == [host |-> h, seen |-> seen]
Glimpses(t, h) ==
    CASE t.module \in {"copy", "template", "fetch"} -> {Glimpse([h EXCEPT !.node = Absent], <<>>)}
      [] t.module = "copy_directory" -> {Glimpse([h EXCEPT !.node = Absent, !.dir = FALSE], <<>>)}
      [] t.module = "hostname" -> {Glimpse([h EXCEPT !.live = ""], <<>>)}
      [] t.module = "user" -> {Glimpse(NoUser, <<>>)}
      [] t.module = "group" -> {Glimpse([exists |-> FALSE, gid |-> ""], <<>>)}
      [] t.module = "mount" -> {Glimpse(h, <<>>), Glimpse([h EXCEPT !.live = NotMounted], <<>>)}
      [] t.module = "sysctl" -> {Glimpse(h, <<>>), Glimpse([h EXCEPT !.live = ""], <<>>)}
      [] t.module \in ReadsBeforeItWrites \ {"mount", "sysctl"} -> {Glimpse(h, <<>>)}
      [] OTHER -> {}

(* The host without the traces that nobody asked about. *)
Kept(h) ==
    LET rest == [f \in DOMAIN h \ {"tmp", "bak", "fresh", "main", "at"} |-> h[f]]
    IN  IF "at" \in DOMAIN h THEN rest @@ ("head" :> HeadOf(h)) ELSE rest

-----------------------------------------------------------------------------
(* What was asked for. *)

Permitted(h, want) == /\ want.mode \in {"", RealPerm(h).mode}
                      /\ want.owner \in {"", RealPerm(h).owner}

FilePromised(t, h) ==
    /\ CASE t.state = "directory" -> h.node.kind = "dir"
         [] t.state = "absent" -> ~Exists(h)
         [] t.state \in {"link", "hard"} -> h.node.kind = t.state
         [] OTHER -> Exists(h)
    /\ t.state # "absent" => Permitted(h, t.want)

CopyPromised(t, h) ==
    LET text == IF t.module = "copy" /\ t.from = "remote" THEN h.src.text ELSE t.text
    IN  /\ t.force => h.node.text = text
        /\ h.node.text = text => Permitted(h, t.want)

LinesPromised(t, h) ==
    LET lines == h.node.text.lines
    IN  CASE t.module = "lineinfile" /\ t.state = "present" ->
               /\ IF t.backrefs THEN Matches(lines, t.pattern) = {} \/ \E l \in t.pattern : Contains(lines, t.rewrite[l])
                  ELSE Contains(lines, t.line)
               /\ Exists(h) => Permitted(h, t.want)
          [] t.module = "lineinfile" /\ t.state = "absent" ->
               \A i \in DOMAIN lines : lines[i] \notin (IF t.pattern = NoPattern THEN {t.line} ELSE t.pattern)
          [] t.module = "blockinfile" ->
               IF t.state = "absent" \/ t.block = <<>> THEN ~HasBlock(lines)
               ELSE HasBlock(lines) /\ SubSeq(lines, Start(lines), MinOf(Ends(lines))) = <<"begin">> \o t.block \o <<"end">>
          [] t.module = "replace" -> TransformAll(lines, t) = lines

EntriesPromised(t, h) ==
    CASE t.module = "authorized_key" ->
           LET keys == {h.lines[i].key : i \in DOMAIN h.lines} \ {"#"}
           IN  CASE t.state = "absent" -> keys \cap ToSet(t.keys) = {}
                 [] t.state = "present" /\ t.exclusive -> keys = ToSet(t.keys)
                 [] OTHER -> ToSet(t.keys) \subseteq keys
      [] t.module = "known_hosts" ->
           LET mine == {i \in DOMAIN h.lines : t.name \in h.lines[i].hosts /\ h.lines[i].type = t.type}
           IN  IF t.state = "present" THEN mine # {} /\ \A i \in mine : h.lines[i].blob = t.blob
               ELSE \A i \in mine : t.blob \notin {"", h.lines[i].blob}
      [] t.module = "cron" ->
           LET jobs == {i \in DOMAIN h.lines : h.lines[i] = Job(t.job, t.disabled) /\
                          (t.name # <<>> => i > 1 /\ h.lines[i - 1] = Comment(t.name))}
           IN  IF t.state = "present" THEN jobs # {}
               ELSE \A i \in DOMAIN h.lines : IF t.name # <<>> THEN h.lines[i] # Comment(t.name)
                                              ELSE h.lines[i].kind = "job" /\ t.job # <<>> => h.lines[i].text # t.job
      [] t.module = "sysctl" ->
           LET mine == Named(h.lines, t.name)
           IN  IF t.state = "absent" THEN mine = {}
               ELSE mine # {} /\ h.lines[First(mine)].value = t.value /\ h.live = t.value
      [] t.module = "mount" ->
           LET mine == At(h.lines, t.path)
               entry == h.lines[First(mine)]
           IN  /\ t.state \in {"absent", "unmounted"} => h.live = NotMounted
               /\ t.state = "absent" => mine = {}
               /\ t.state = "mounted" => h.live # NotMounted /\ h.live.opts = t.opts
               /\ (t.state = "present" \/ (t.state = "mounted" /\ t.boot)) => mine # {} /\ entry.opts = t.opts

AccountPromised(t, h) ==
    CASE t.module = "hostname" -> h.live = t.name /\ h.file = t.name
      [] t.module = "group" -> IF t.state = "absent" THEN ~h.exists ELSE h.exists /\ (t.gid = "" \/ h.gid = t.gid)
      [] t.module = "user" ->
           /\ h.exists = (t.state # "absent")
           /\ (t.state = "locked" \/ (t.state = "present" /\ t.lock = "lock")) => h.locked
           /\ t.state = "present" =>
                /\ t.shell \in {"", h.shell}
                /\ t.groups \subseteq h.groups
                /\ (t.groups # {} /\ ~t.append) => h.groups = t.groups
                /\ ~t.onCreate => t.password \in {"", h.password}
                /\ t.key => h.key

ServicePromised(t, h) ==
    CASE t.module \in {"package", "pip"} ->
           \A p \in t.names : IF Removes(t) THEN h.versions[p] = "none"
                              ELSE IF t.module = "pip" /\ t.version # "" THEN h.versions[p] = t.version
                              ELSE h.versions[p] \in (IF t.state = "latest" THEN {"new"} ELSE {"old", "new"})
      [] t.module \in {"service", "systemd"} ->
           /\ t.state \in {"started", "restarted", "reloaded"} => h.active
           /\ t.state = "stopped" => ~h.active
           /\ t.enabled = "yes" => IsEnabled(h)
           /\ t.enabled = "no" => ~IsEnabled(h)
           /\ t.masked # "" => h.masked = (t.masked = "yes")

TransferPromised(t, h) ==
    CASE t.module = "fetch" -> h.node.kind = "file" => h.got = h.node.text
      [] t.module = "copy_directory" -> h.dir /\ (t.force => h.node.text = t.text)
      [] t.module = "git" -> CASE t.state = "absent" -> h.dest = "none"
                               [] t.state = "present" /\ h.dest = "none" -> ~t.clone
                               [] OTHER -> /\ h.origin = t.repo
                                           /\ t.version = "r1" => HeadOf(h) = "r1"
                                           /\ t.version = "main" => h.at = "main" /\ (t.update => h.main = "r2")
      [] t.module = "get_url" -> /\ t.sum \in {NoSum, h.node.text}
                                 /\ (t.force /\ t.sum = NoSum) => h.node.text = t.text
                                 /\ h.node.text = t.text => Permitted(h, t.want)
      [] t.module = "archive" -> h.pack.holds = t.paths /\ (t.remove => t.paths \cap h.here = {})
      [] t.module = "unarchive" -> (t.creates /\ h.creates) \/ (h.files = "new" /\ t.mode \in {"", h.mode})
      [] t.module = "synchronize" -> Sent(h, t) \cup Deleted(h, t) = {}
      [] t.module = "tempfile" -> h.made > 0
      [] t.module = "docker_container" ->
           IF t.state = "absent" THEN h.box = NoContainer
           ELSE /\ h.box # NoContainer /\ t.image \in {"", h.box.image}
                /\ t.image # "" => h.box.conf = t.conf
                /\ t.state # "present" => h.box.runs = (t.state # "stopped")
      [] t.module = "k8s" -> \A o \in DOMAIN t.objects :
                               h.objects[o] = IF t.state = "present" THEN t.objects[o] ELSE "none"
      [] OTHER -> TRUE

Promised(t, h) ==
    CASE t.module = "file" -> FilePromised(t, h)
      [] t.module \in {"copy", "template"} -> CopyPromised(t, h)
      [] t.module \in {"lineinfile", "blockinfile", "replace"} -> LinesPromised(t, h)
      [] t.module \in ReadsBeforeItWrites -> EntriesPromised(t, h)
      [] t.module \in {"hostname", "user", "group"} -> AccountPromised(t, h)
      [] t.module \in {"package", "pip", "service", "systemd"} -> ServicePromised(t, h)
      [] OTHER -> TransferPromised(t, h)

-----------------------------------------------------------------------------
(* What belongs to others: the lines or entries a task does not name. *)

Rewrites(t) == IF t.state = "present" /\ t.backrefs THEN {t.rewrite[l] : l \in t.pattern} ELSE {t.line}

Others(t, h) ==
    CASE t.module = "lineinfile" -> Filtered(h.node.text.lines, LAMBDA l : l \notin t.pattern \cup Rewrites(t))
      [] t.module = "blockinfile" ->
           LET lines == h.node.text.lines
           IN  IF HasBlock(lines) THEN Splice(lines, Start(lines), MinOf(Ends(lines)), <<>>) ELSE lines
      [] t.module = "replace" -> Filtered(h.node.text.lines, LAMBDA l : l \notin t.pattern \cup {t.rewrite[m] : m \in t.pattern})
      [] t.module = "authorized_key" ->
           Filtered(h.lines, LAMBDA e : e.key = "#" \/ (e.key \notin ToSet(t.keys) /\ ~(t.state = "present" /\ t.exclusive)))
      [] t.module = "known_hosts" ->
           UNION {{<<n, h.lines[i].type, h.lines[i].blob>> : n \in h.lines[i].hosts \ {t.name}} : i \in DOMAIN h.lines}
      [] t.module = "cron" ->
           LET heads == Heads(h.lines, t.name)
               mine(i) == IF t.name # <<>> THEN h.lines[i] = Comment(t.name) \/ (heads[i - 1] /\ h.lines[i].kind = "job")
                          ELSE h.lines[i].kind = "job" /\ h.lines[i].text = t.job
           IN  Rewritten(h.lines, LAMBDA i : IF mine(i) THEN <<>> ELSE <<h.lines[i]>>)
      [] t.module = "sysctl" -> Filtered(h.lines, LAMBDA e : e.name # t.name)
      [] t.module = "mount" -> Filtered(h.lines, LAMBDA e : e.path # t.path)
      [] OTHER -> <<>>
-----------------------------------------------------------------------------
(* The cases in which the code does not keep a promise, by promise. *)

Doubled(S) == \E i, j \in S : i # j
Repeated(t, h) == CASE t.module = "sysctl" -> Doubled(Named(h.lines, t.name))
                    [] t.module = "mount" -> Doubled(At(h.lines, t.path))
                    [] OTHER -> FALSE

(* The task calls for a service state in words the unit cannot follow. *)
StaysEnabled(t, h) == t.enabled = "no" /\ h.unit = "static"

(* Markers that are not those of one block: a begin without an end, an end *)
(* among the lines of the block, a second begin behind a block to remove.  *)
StrayMarker(t, h) ==
    LET lines == h.node.text.lines
        removes == t.state = "absent" \/ t.block = <<>>
    IN  IF removes THEN Doubled(Begins(lines)) ELSE Contains(t.block, "end") \/ (Begins(lines) # {} /\ ~HasBlock(lines))

(* stat shows the permissions of a link and not of the file behind it. *)
LinkHides(t, h) ==
    /\ "want" \in DOMAIN t /\ (h.node.kind = "link" \/ (t.module = "file" /\ t.state = "link"))
    /\ t.want.mode = LinkPerm.mode \/ t.want.owner = LinkPerm.owner

(* What replace writes matches again, or moves the place where it works. *)
Restless(t) == \E l \in t.pattern : \/ {l, t.rewrite[l]} \cap (t.before \cup t.after) # {}
                                    \/ t.rewrite[l] \in t.pattern /\ t.rewrite[t.rewrite[l]] # t.rewrite[l]

(* A success that is not as asked: the error of chown is not looked at;    *)
(* equal texts end the run before the permissions are set, and what stat   *)
(* says of a link is taken for the file's; markers that are no block, and  *)
(* lines that replace would change once more; the first of several entries *)
(* is taken for the only one, and only the source but not the options of a *)
(* mount decide whether it is mounted again; keys that could not be        *)
(* written are said to be; errors of sysctl were to be ignored; only the   *)
(* name the kernel has is looked at;                                       *)
(* the password is set after the lock; dnf and apk do not do "latest" as   *)
(* others do; a clone stays on its branch; a pipe hides that tar found     *)
(* nothing, and an equal archive ends the run before the paths are         *)
(* removed; a script says a path it could not make; settings alone do not  *)
(* make a new container.                                                   *)
NotAsAsked(t, h) ==
    \/ "want" \in DOMAIN t /\ t.want.owner \notin Owners \cup {""}
    \/ t.module = "copy" /\ t.from = "remote" /\ h.node.text = h.src.text
    \/ t.module = "get_url" /\ Exists(h) /\ h.node.text = t.text
    \/ LinkHides(t, h)
    \/ t.module = "blockinfile" /\ StrayMarker(t, h)
    \/ t.module = "replace" /\ Restless(t)
    \/ Repeated(t, h)
    \/ t.module = "mount" /\ t.state = "mounted"
         /\ IF h.live # NotMounted THEN h.live.opts # t.opts ELSE ~t.boot /\ At(h.lines, t.path) # {}
    \/ t.module = "authorized_key" /\ ~h.writable
    \/ t.module = "sysctl" /\ t.ignore
    \/ t.module = "hostname" /\ h.live = t.name
    \/ t.module = "user" /\ t.password # "" /\ t.lock = "lock"
    \/ t.module = "package" /\ t.state = "latest" /\ t.manager # "apt"
         /\ t.names \cap Having(h, {IF t.manager = "apk" THEN "old" ELSE "none"}) # {}
    \/ t.module \in {"service", "systemd"} /\ StaysEnabled(t, h)
    \/ t.module = "git" /\ t.version = "r1" /\ (h.dest = "none" \/ h.origin # t.repo)
    \/ t.module = "archive" /\ (t.piped \/ (t.remove /\ h.pack.holds = t.paths))
    \/ t.module = "tempfile" /\ ~h.writable
    \/ t.module = "docker_container" /\ t.image = h.box.image /\ t.conf # h.box.conf

(* A success that changes the host and says it did not: one package that   *)
(* was the newest, one object that was unchanged speaks for all of them;   *)
(* a command over SSH.                                                     *)
ChangesUnsaid(t, h) ==
    \/ t.module = "package" /\ t.manager = "apt" /\ t.names \cap Having(h, {"new"}) # {}
    \/ t.module = "k8s" /\ \E o \in DOMAIN t.objects : h.objects[o] = t.objects[o]
    \/ t.module \in {"command", "shell"} /\ ~t.local

(* A task that is not meant to be quiet, or is not: what is asked for is   *)
(* an event (touch, restarted, a new file); or the code cannot see that    *)
(* there is nothing to do.                                                 *)
NotQuiet(t, h) ==
    \/ "want" \in DOMAIN t /\ t.want.owner \notin Owners \cup {""}
    \/ t.module = "file" /\ (t.state = "touch" \/ t.times \/ t.recurse \/ (t.want # AsIs /\ t.state \in {"absent", "link"}))
    \/ "want" \in DOMAIN t /\ t.want # AsIs /\ h.node.kind = "link"
    \/ t.module = "lineinfile" /\ t.state = "present" /\ t.pattern # NoPattern
         /\ IF t.backrefs THEN \E l \in t.pattern : t.rewrite[l] \notin t.pattern \/ t.rewrite[t.rewrite[l]] # t.rewrite[l]
            ELSE t.line \notin t.pattern
    \/ t.module = "blockinfile" /\ StrayMarker(t, h)
    \/ t.module = "replace" /\ Restless(t)
    \/ t.module = "authorized_key" /\ ~h.writable
    \/ t.module = "authorized_key" /\ Doubled({i \in DOMAIN t.keys : \E j \in DOMAIN t.keys \ {i} : t.keys[i] = t.keys[j]})
    \/ Repeated(t, h)
    \/ t.module = "mount" /\ t.state = "remounted"
    \/ t.module = "sysctl" /\ t.ignore
    \/ t.module = "user" /\ (t.shell # "" \/ t.groups # {} \/ t.lock # "" \/ t.password # "" \/ t.state \in {"locked", "unlocked"})
    \/ t.module = "package" /\ t.names = {} /\ t.update
    \/ t.module = "pip" /\ t.state = "forcereinstall"
    \/ t.module \in {"service", "systemd"} /\ (t.local \/ t.state \in {"restarted", "reloaded"} \/ StaysEnabled(t, h))
    \/ t.module = "systemd" /\ t.reload
    \/ t.module = "git" /\ t.version = "r1" /\ (h.dest = "none" \/ h.origin # t.repo)
    \/ t.module = "archive" /\ t.piped /\ t.remove
    \/ t.module = "unarchive" /\ ~(t.creates /\ t.holds)
    \/ t.module = "tempfile"
    \/ t.module = "docker_container" /\ (t.recreate \/ t.state = "restarted")
    \/ t.module \in {"command", "shell"} /\ t.local

(* A lost connection that goes unseen: the permissions come last and their *)
(* errors are dropped, and so is that of the move of a checked content.    *)
CutUnseen(t) ==
    \/ t.module \in {"file", "copy", "template", "lineinfile", "blockinfile"} /\ t.want # AsIs
    \/ t.module = "copy" /\ t.from = "content" /\ t.validate

(* A connection lost at the first reads that goes unseen: what should not  *)
(* be there, or may be missing, is not looked for again once it was not    *)
(* seen.                                                                   *)
SeenAsGone(t) ==
    \/ t.module \in {"user", "group"} \cup ReadsBeforeItWrites /\ t.state \in {"absent", "unmounted"}
    \/ t.module = "fetch" /\ ~t.fail

(* A dry run that changes the host: permissions are set before check mode  *)
(* is looked at, and package lists refreshed.                              *)
NotDry(t, h) ==
    \/ t.module \in {"copy", "template", "lineinfile", "blockinfile"} /\ t.want # AsIs
    \/ t.module = "package" /\ t.update /\ (t.manager = "apk" \/ t.names = {})

(* A dry run that foretells no change where the run makes one: the times   *)
(* of a file are not looked at in check mode; what is installed is never   *)
(* out of date; and a local command is always a change.                    *)
NotForetold(t, h) ==
    \/ t.module = "file" /\ t.state = "file" /\ t.times
    \/ t.module = "package" /\ t.state # "absent" /\ t.names \cap Having(h, {"old"}) # {}
    \/ t.module \in {"service", "systemd"} /\ (t.local \/ StaysEnabled(t, h) \/ (t.state = "reloaded" /\ ~h.active))

(* A task that takes the entries of others along. *)
TakesOthers(t, h) ==
    \/ t.module = "blockinfile" /\ StrayMarker(t, h)
    \/ t.module = "known_hosts" /\ \E i \in DOMAIN h.lines : {t.name} # h.lines[i].hosts /\ t.name \in h.lines[i].hosts
    \/ t.module = "cron" /\ t.name = <<>> /\ t.state = "absent" /\ t.job # <<>>
         /\ \E i \in DOMAIN h.lines : IsPrefix(t.job, h.lines[i].text) /\ (h.lines[i].kind = "comment" \/ h.lines[i].text # t.job)
    \/ t.module = "cron" /\ t.name # <<>> /\ \E i \in 1..(Len(h.lines) - 1) : h.lines[i] = Comment(t.name) /\ h.lines[i + 1].kind = "comment"

(* A run that read nothing and adds an entry of its own writes a file of   *)
(* that entry alone.                                                       *)
AddsUnread(t) == t.state = "present" \/ (t.module = "mount" /\ t.state = "mounted" /\ t.boot)
=============================================================================
