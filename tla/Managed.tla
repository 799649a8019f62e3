------------------------------ MODULE Managed ------------------------------
(***************************************************************************)
(* A managed host on which one task runs again and again: for real, in     *)
(* check mode, with a connection that is lost at the reads or after any of *)
(* the commands that change the host, or with a read that fails.  What the *)
(* modules promise together: a success is as asked, a second one changes   *)
(* nothing, what is reported unchanged is, a dry run changes nothing and   *)
(* foretells no less than the real one does, and the entries of others     *)
(* stay.                                                                   *)
(***************************************************************************)
EXTENDS ManagedPromises

CONSTANTS Cases,     \* families of pairs of a task and the host it finds
          MaxRuns    \* how often the task runs

Modules == {"file", "copy", "copy_directory", "template", "fetch", "lineinfile", "blockinfile", "replace",
            "authorized_key", "known_hosts", "cron", "sysctl", "mount", "hostname", "user", "group", "package", "pip",
            "service", "systemd", "git", "get_url", "archive", "unarchive", "synchronize", "tempfile",
            "docker_container", "k8s", "command", "shell", "uri"}
Versions == {"none", "old", "new"}
IsMap(f)  == f = [x \in DOMAIN f |-> f[x]]
IsList(s) == s \in Seq(ToSet(s))

(* What the modules rely on of a task and of the host it finds: the words  *)
(* that the code knows, and a host of the kind that the module works on.   *)

(* A file is in a directory, and only the file module works on directories. *)
IsNode(n) == n = Node(n.kind, n.text, Perm(n.perm.mode, n.perm.owner))
HasFiles(h) ==
    /\ {"node", "dir", "src", "bak", "tmp", "got"} \subseteq DOMAIN h
    /\ IsNode(h.node) /\ (h.node.kind = "absent" => h.node = Absent)
    /\ IsNode(h.src) /\ h.src.kind \in {"file", "absent"}
    /\ h.dir \in BOOLEAN /\ (Exists(h) => h.dir)

FileModules == {"file", "copy", "copy_directory", "template", "fetch", "get_url"}
LineModules == {"lineinfile", "blockinfile", "replace"}

FitsFiles(t, h) ==
    /\ t.module \in FileModules \cup LineModules => HasFiles(h) /\ (t.module = "file" \/ h.node.kind # "dir")
    /\ t.module \in FileModules \cup LineModules /\ t.module # "fetch" => "want" \in DOMAIN t
    /\ t.module = "fetch" => h.node.kind \in {"file", "absent"}
    /\ t.module = "file" => t.state \in {"directory", "touch", "absent", "link", "hard", "file"}
    /\ t.module = "copy" => t.from \in {"remote", "content", "local"} /\ (t.from = "remote" => h.node.kind \in {"file", "absent"})
    /\ t.module \in LineModules => IsList(h.node.text.lines)
    /\ t.module \in {"lineinfile", "blockinfile"} => t.state \in {"present", "absent"}
    /\ t.module = "blockinfile" => IsList(t.block)
    /\ t.module = "replace" => t.pattern \subseteq DOMAIN t.rewrite

(* The entries of a file are records, a line that is no key is none of the *)
(* keys of a task, and what is mounted, or is to be, has a source.         *)
IsMount(m) == m = Mounts(m.src, m.opts) /\ (m = NotMounted \/ m.src # "")

FitsEntries(t, h) ==
    /\ t.module \in ReadsBeforeItWrites => {"lines", "live", "bak"} \subseteq DOMAIN h /\ IsList(h.lines)
    /\ t.module \in {"authorized_key", "known_hosts", "cron", "sysctl"} => t.state \in {"present", "absent"}
    /\ t.module = "authorized_key" =>
         /\ \A i \in DOMAIN h.lines : h.lines[i] = [key |-> h.lines[i].key, note |-> h.lines[i].note]
         /\ IsList(t.keys) /\ t.keys # <<>> /\ ~Contains(t.keys, "#")
         /\ "writable" \in DOMAIN h /\ h.writable \in BOOLEAN
    /\ t.module = "cron" =>
         /\ \A i \in DOMAIN h.lines : /\ h.lines[i] = [kind |-> h.lines[i].kind, text |-> h.lines[i].text, off |-> h.lines[i].off]
                                      /\ h.lines[i].kind \in {"comment", "job"}
         /\ IsList(t.job)
    /\ t.module = "sysctl" => \A i \in DOMAIN h.lines : h.lines[i] = [name |-> h.lines[i].name, value |-> h.lines[i].value]
    /\ t.module = "mount" =>
         /\ t.state \in {"mounted", "present", "absent", "unmounted", "remounted"}
         /\ t.state \in {"mounted", "present"} => t.src # ""
         /\ IsMount(h.live)
         /\ \A i \in DOMAIN h.lines : /\ h.lines[i] = [path |-> h.lines[i].path, src |-> h.lines[i].src, opts |-> h.lines[i].opts]
                                      /\ h.lines[i].src # ""

FitsAccounts(t, h) ==
    /\ t.module = "hostname" => {"live", "file"} \subseteq DOMAIN h /\ t.name # ""
    /\ t.module = "group" => /\ {"exists", "gid"} \subseteq DOMAIN h /\ h.exists \in BOOLEAN
                             /\ t.state \in {"present", "absent"}
    /\ t.module = "user" => /\ DOMAIN NoUser \subseteq DOMAIN h /\ {h.exists, h.locked, h.key} \subseteq BOOLEAN
                            /\ t.state \in {"present", "absent", "locked", "unlocked"} /\ t.lock \in {"", "lock", "unlock"}

(* A version is one that the host can have. *)
FitsServices(t, h) ==
    /\ t.module \in {"package", "pip"} => /\ "versions" \in DOMAIN h /\ h.versions \in [DOMAIN h.versions -> Versions]
                                          /\ t.names \subseteq DOMAIN h.versions
    /\ t.module = "package" => t.manager \in {"apt", "dnf", "yum", "apk"}
    /\ t.module = "pip" => t.version \in Versions \cup {""} /\ t.state \in {"present", "absent", "latest", "forcereinstall"}
    /\ t.module \in {"service", "systemd"} =>
         /\ t.state \in {"", "started", "stopped", "restarted", "reloaded"}
         /\ t.enabled \in {"", "yes", "no"} /\ t.masked \in {"", "yes", "no"}
         /\ {"active", "unit", "masked"} \subseteq DOMAIN h /\ {h.active, h.masked} \subseteq BOOLEAN

(* Files that were modified are in a working copy. *)
FitsTransfers(t, h) ==
    /\ t.module = "git" => /\ t.state \in {"present", "absent"}
                           /\ {"dest", "origin", "main", "at", "dirty"} \subseteq DOMAIN h
                           /\ h.dest \in {"none", "other", "repo"} /\ (h.dest = "none" => ~h.dirty)
    /\ t.module = "archive" => {"here", "pack", "bak"} \subseteq DOMAIN h
    /\ t.module = "unarchive" => {"tmp", "files", "creates", "mode"} \subseteq DOMAIN h
    /\ t.module = "synchronize" => "dest" \in DOMAIN h /\ IsMap(h.dest) /\ DOMAIN h.src = DOMAIN h.dest
    /\ t.module = "tempfile" => "made" \in DOMAIN h /\ h.made \in Nat
    /\ t.module = "docker_container" => /\ t.state \in {"present", "started", "stopped", "restarted", "absent"}
                                        /\ {"box", "pulled"} \subseteq DOMAIN h
                                        /\ h.box = [image |-> h.box.image, conf |-> h.box.conf, runs |-> h.box.runs]
                                        /\ h.box = NoContainer \/ h.box.image # ""
    /\ t.module = "k8s" => {"objects", "tmp"} \subseteq DOMAIN h /\ IsMap(h.objects) /\ DOMAIN t.objects \subseteq DOMAIN h.objects
    /\ t.module \in {"command", "shell"} => "here" \in DOMAIN h

Fits(t, h) == /\ t.module \in Modules
              /\ FitsFiles(t, h) /\ FitsEntries(t, h) /\ FitsAccounts(t, h) /\ FitsServices(t, h) /\ FitsTransfers(t, h)

ASSUME CasesAssumption == \A family \in DOMAIN Cases : \A c \in Cases[family] : Fits(c[1], c[2])

VARIABLES task,      \* the task: its module and its parameters
          host,      \* what the modules see of the managed host
          runs,      \* how often the task has run
          last       \* the last run: the host it found and how it went
vars == <<task, host, runs, last>>

Outcome(kind, found, failed, changed) == [kind |-> kind, found |-> found, failed |-> failed, changed |-> changed]

(* The first n commands of a run are all that reach the host. *)
Perform(run, n, kind) ==
    /\ runs < MaxRuns
    /\ host' = HostAfter(run, host, n)
    /\ last' = Outcome(kind, host, FailsAfter(run, n), run.changed[n])
    /\ runs' = runs + 1
    /\ UNCHANGED task

Init == /\ \E family \in DOMAIN Cases : \E c \in Cases[family] : task = c[1] /\ host = c[2]
        /\ runs = 0
        /\ last = Outcome("none", host, FALSE, FALSE)

WholeRun == LET run == Run(task, host, Reads(task, host), FALSE)
            IN  Perform(run, Len(run.trail), "whole")

(* The connection is lost behind the reads and before the last command. *)
CutRun == LET run == Run(task, host, Reads(task, host), FALSE)
          IN  \E n \in 0..(Len(run.trail) - 1) : Perform(run, n, "cut")

(* The connection is lost at one of the reads: the module goes on with     *)
(* what it takes the host for, and none of its commands reaches the host.  *)
LostRead == /\ runs < MaxRuns
            /\ \E seen \in Glimpses(task, host) :
                 LET run == Run(task, seen.host, seen.seen, FALSE)
                 IN  last' = Outcome("lost", host, FailsAfter(run, 0), run.changed[0])
            /\ runs' = runs + 1
            /\ UNCHANGED <<task, host>>

(* A module that does not support check mode is skipped. *)
DryRun == LET run == Run(task, host, Reads(task, host), TRUE)
          IN  SupportsCheckMode(task.module) /\ Perform(run, Len(run.trail), "dry")

(* The read before a change fails and is taken for an empty file. *)
BlindRun == /\ task.module \in ReadsBeforeItWrites
            /\ LET run == Run(task, host, <<>>, FALSE)
               IN  Perform(run, Len(run.trail), "blind")

Next == WholeRun \/ CutRun \/ LostRead \/ DryRun \/ BlindRun
Spec == Init /\ [][Next]_vars
-----------------------------------------------------------------------------
Succeeded(run) == run.kind = "whole" /\ ~run.failed

(* A run that ends without a failure leaves what the task asked for, also  *)
(* when runs that were cut or that read nothing came before it: the        *)
(* retries of the executor repair what an interrupted run left behind.     *)
AsAsked == [][Succeeded(last') /\ ~NotAsAsked(task, host) => Promised(task, host')]_vars

Unseen(kind, t) == (kind = "cut" /\ CutUnseen(t)) \/ (kind = "lost" /\ SeenAsGone(t))
(* A connection lost at the reads of a run or between two of its commands  *)
(* is not taken for a success: either the task fails or everything asked   *)
(* for is done.  What goes unseen behind the reads (CutUnseen) and at them *)
(* (SeenAsGone) are different tasks.                                       *)
CutsShow == [][last'.kind \in {"cut", "lost"} /\ ~last'.failed /\ ~Unseen(last'.kind, task) /\ ~NotAsAsked(task, host)
                 => Promised(task, host')]_vars

(* What a run reports as unchanged is: the notifications and the exit code *)
(* of the program rest on Result.Changed.                                  *)
UnchangedIsTrue == [][Succeeded(last') /\ ~last'.changed /\ ~ChangesUnsaid(task, host) => Kept(host') = Kept(host)]_vars

(* When a dry run foretold no change, the run after it makes none. *)
NoSurprise == [][last.kind = "dry" /\ ~last.failed /\ ~last.changed /\ Succeeded(last') /\ ~NotForetold(task, host)
                   => ~last'.changed]_vars

(* No change is reported, of a run or by a dry run of the next one, only   *)
(* where there is none.                                                    *)
NoChangeIsTrue == UnchangedIsTrue /\ NoSurprise

(* The second of two successful runs changes nothing and says so, the      *)
(* idempotence that the README promises of the modules.                    *)
SecondRunIsQuiet ==
    [][Succeeded(last) /\ Succeeded(last') /\ ~NotQuiet(task, last.found)
         => ~last'.changed /\ Kept(host') = Kept(host)]_vars

(* Check mode leaves the host as it is. *)
DryRunsAreDry == [][last'.kind = "dry" /\ ~NotDry(task, host) => host' = host]_vars

(* However a run ends, the lines and the entries that the task does not    *)
(* name stay as they were, in their order; also when nothing was read, but *)
(* for a task that then writes an entry of its own.                        *)
OthersStay == [][~TakesOthers(task, host) /\ ~(last'.kind = "blind" /\ AddsUnread(task))
                   => Others(task, host') = Others(task, host)]_vars
=============================================================================
