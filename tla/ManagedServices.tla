-------------------------- MODULE ManagedServices --------------------------
(***************************************************************************)
(* Packages and services: apt, dnf, yum, package (apk), pip, service and   *)
(* systemd of pkg/module, each as the run it makes of a task on a host.    *)
(*                                                                         *)
(* For packages the host keeps the version it has of each (old, new or     *)
(* none) and whether its package lists are fresh; for a service whether it *)
(* is active, how its unit file is installed, and whether it is masked.    *)
(* The package "ghost" exists nowhere.                                     *)
(***************************************************************************)
EXTENDS ModuleRun, FiniteSets

WithVersions(h, names, version) ==
    [h EXCEPT !.versions = [p \in DOMAIN @ |-> IF p \in names THEN version ELSE @[p]]]
Having(h, versions) == {p \in DOMAIN h.versions : h.versions[p] \in versions}
Fresh(h) == [h EXCEPT !.fresh = TRUE]

-----------------------------------------------------------------------------
(* apt, dnf, yum, apk.  What the tools do: apt brings what is installed to *)
(* the newest version, dnf and yum do so for "latest" and only to what is  *)
(* installed, apk never.                                                   *)

Removes(t) == t.state \in {"absent", "purged"}

Todo(h, t) ==
    CASE Removes(t) -> Having(h, {"old", "new"})
      [] ~Removes(t) /\ t.manager = "apt" -> Having(h, {"none", "old"})
      [] t.manager \in {"dnf", "yum"} /\ t.state = "latest" -> Having(h, {"old"})
      [] OTHER -> Having(h, {"none"})

(* What the code reads from the output.  apt says "is already the newest   *)
(* version" of every package for which that is so, and one is enough; the  *)
(* others say something when there was nothing to do at all.               *)
AptChanged(h, t) == IF Removes(t) THEN t.names \cap Todo(h, t) # {} ELSE t.names \cap Having(h, {"new"}) = {}
YumChanged(h, t) == t.names \cap Todo(h, t) # {}

(* In check mode only what is installed counts, not in which version. *)
ForeseesPackages(h, t) == IF Removes(t) THEN t.names \cap Having(h, {"old", "new"}) # {}
                          ELSE t.names \cap Having(h, {"none"}) # {}

(* The command for the packages, after the lists were refreshed.  A       *)
(* package that exists nowhere cannot be installed.                       *)
Refresh(h, t) == IF t.update THEN <<Quiet(Fresh(h))>> ELSE <<>>
Manage(h, t, changed) ==
    LET g == IF t.update THEN Fresh(h) ELSE h
        done == WithVersions(g, t.names \cap Todo(h, t), IF Removes(t) THEN "none" ELSE "new")
    IN  IF "ghost" \in t.names /\ ~Removes(t) THEN Ran(Refresh(h, t) \o <<Loud(g)>>, TRUE, TRUE)
        ELSE Ran(Refresh(h, t) \o <<Loud(done)>>, changed, FALSE)

(* A task without a name only refreshes the lists, in check mode too. *)
OnlyRefresh(h, t) == IF t.update THEN Changes(<<Loud(Fresh(h))>>) ELSE Unchanged

AptRun(h, t, check) == CASE t.names = {} -> OnlyRefresh(h, t)
                         [] t.names # {} /\ check -> Reports(ForeseesPackages(h, t))
                         [] OTHER -> Manage(h, t, AptChanged(h, t))

(* Mutant: dnf removes packages in check mode. *)
DnfRunChecksLate(h, t, check) == CASE t.names = {} -> OnlyRefresh(h, t)
                                   [] t.names # {} /\ check /\ ~Removes(t) -> Reports(ForeseesPackages(h, t))
                                   [] OTHER -> Manage(h, t, YumChanged(h, t))

DnfRun(h, t, check) == CASE t.names = {} -> OnlyRefresh(h, t)
                         [] t.names # {} /\ check -> Reports(ForeseesPackages(h, t))
                         [] OTHER -> Manage(h, t, YumChanged(h, t))

(* The code of yum is that of dnf, line by line. *)
YumRun(h, t, check) == DnfRun(h, t, check)

(* apk refreshes the lists before it looks at check mode, in which every   *)
(* task is a change.                                                       *)
ApkRun(h, t, check) == CASE t.names = {} -> Ran(Refresh(h, t), t.update, FALSE)
                         [] t.names # {} /\ check -> Ran(Refresh(h, t), TRUE, FALSE)
                         [] OTHER -> Manage(h, t, YumChanged(h, t))

PackageRun(h, t, check) == CASE t.manager = "apt" -> AptRun(h, t, check)
                             [] t.manager = "dnf" -> DnfRun(h, t, check)
                             [] t.manager = "yum" -> YumRun(h, t, check)
                             [] t.manager = "apk" -> ApkRun(h, t, check)

-----------------------------------------------------------------------------
(* pip.  venv: "none" when the task uses the virtual environment and it is *)
(* not there yet.  A version of a task is "" when it names none; the names *)
(* of a requirements file are not looked at in check mode.                 *)

PipWanted(h, t) ==
    CASE t.version # "" -> {p \in t.names : p \in DOMAIN h.versions /\ (h.versions[p] # t.version \/ t.state = "forcereinstall")}
      [] t.version = "" /\ t.state \in {"latest", "forcereinstall"} -> t.names \cap Having(h, {"none", "old"})
      [] OTHER -> t.names \cap Having(h, {"none"})

PipChanged(h, t) ==
    CASE t.state = "absent" -> t.names \cap Having(h, {"old", "new"}) # {}
      [] t.state = "forcereinstall" -> TRUE
      [] OTHER -> PipWanted(h, t) # {}

PipForesees(h, t) ==
    \/ t.venv /\ ~h.venv
    \/ t.requirements \/ t.state \in {"latest", "forcereinstall"}
    \/ t.state = "absent" /\ t.names \cap Having(h, {"old", "new"}) # {}
    \/ t.state = "present" /\ \E p \in t.names : \/ p \notin Having(h, {"old", "new"})
                                                \/ t.version \notin {"", h.versions[p]}

PipRun(h, t, check) ==
    LET creates == t.venv /\ ~h.venv
        made == [h EXCEPT !.venv = TRUE]
        first == IF creates THEN <<Loud(made)>> ELSE <<>>
        g == IF creates THEN made ELSE h
        done == IF t.state = "absent" THEN WithVersions(g, t.names, "none")
                ELSE WithVersions(g, PipWanted(h, t), IF t.version = "" THEN "new" ELSE t.version)
    IN  IF check THEN Reports(PipForesees(h, t))
        ELSE IF creates /\ ~h.python THEN Ran(<<Loud(h)>>, FALSE, TRUE)
        ELSE IF "ghost" \in t.names /\ t.state # "absent" THEN Ran(first \o <<Loud(g)>>, TRUE, TRUE)
        ELSE Ran(first \o <<Loud(done)>>, creates \/ PipChanged(h, t), FALSE)

-----------------------------------------------------------------------------
(* service, systemd.  A step is a command with the host it leaves, whether *)
(* it is reported as a change and whether it succeeds.                     *)

Step(h, marks, ok) == [host |-> h, marks |-> marks, ok |-> ok]
AsItIs(h) == Step(h, FALSE, TRUE)

IsEnabled(h) == ~h.masked /\ h.unit \in {"enabled", "static"}
EnabledText(h) == IF h.masked THEN "masked" ELSE h.unit

MaskStep(h, mask) == IF h.masked = mask THEN AsItIs(h) ELSE Step([h EXCEPT !.masked = mask], TRUE, TRUE)

(* Disabling a static unit succeeds and changes nothing. *)
EnableStep(h, on) ==
    CASE IsEnabled(h) = on -> AsItIs(h)
      [] IsEnabled(h) # on /\ h.masked -> Step(h, TRUE, FALSE)
      [] IsEnabled(h) # on /\ ~h.masked /\ h.unit = "static" -> Step(h, TRUE, TRUE)
      [] OTHER -> Step([h EXCEPT !.unit = IF on THEN "enabled" ELSE "disabled"], TRUE, TRUE)

(* A command that fails before its marker leaves the change to the default *)
(* of its state.                                                           *)
StateStep(h, state) ==
    CASE state = "started" -> IF h.active THEN AsItIs(h)
                              ELSE IF h.masked THEN Step(h, FALSE, FALSE)
                              ELSE Step([h EXCEPT !.active = TRUE], TRUE, TRUE)
      [] state = "stopped" -> IF h.active THEN Step([h EXCEPT !.active = FALSE], TRUE, TRUE) ELSE AsItIs(h)
      [] state = "restarted" -> IF h.masked THEN Step(h, TRUE, FALSE) ELSE Step([h EXCEPT !.active = TRUE], TRUE, TRUE)
      [] state = "reloaded" -> Step(h, TRUE, h.active)

(* In check mode the text of is-enabled is compared, not its exit code. *)
ServiceForesees(h, t) ==
    \/ t.state = "started" /\ ~h.active
    \/ t.state \in {"stopped", "reloaded"} /\ h.active
    \/ t.state = "restarted"
    \/ t.enabled # "" /\ (EnabledText(h) = "enabled") # (t.enabled = "yes")
    \/ t.masked # "" /\ h.masked # (t.masked = "yes")

SystemdForesees(h, t) == t.reload \/ ServiceForesees(h, t)

(* mask, enable, state, in this order. *)
Steps(h, t) ==
    LET mask == IF t.masked = "" THEN <<>> ELSE <<MaskStep(h, t.masked = "yes")>>
        h1 == IF mask = <<>> THEN h ELSE mask[1].host
        enable == IF t.enabled = "" THEN <<>> ELSE <<EnableStep(h1, t.enabled = "yes")>>
        h2 == IF enable = <<>> THEN h1 ELSE enable[1].host
    IN  mask \o enable \o (IF t.state = "" THEN <<>> ELSE <<StateStep(h2, t.state)>>)

(* Every answer is merged into the result, which fails when one of them    *)
(* does and is a change when one of them is.  Only SSH returns an answer   *)
(* as unchanged: on a local or container connection every command counts   *)
(* as a change.                                                            *)
MergeModuleResults(steps, t) ==
    Ran(Said([i \in DOMAIN steps |-> steps[i].host]),
        t.local \/ \E i \in DOMAIN steps : steps[i].marks, \E i \in DOMAIN steps : ~steps[i].ok)

(* A task that asks for nothing runs the status command, which says of a   *)
(* service that is not active that it failed.                              *)
Status(h, t) == Ran(<<>>, t.local, ~h.active)

(* The error of the reload is dropped. *)
ServiceRun(h, t, check) ==
    LET reload == IF t.reload THEN <<Quiet(h)>> ELSE <<>>
        steps == Steps(h, t)
    IN  IF check THEN Reports(ServiceForesees(h, t))
        ELSE After(reload, IF steps = <<>> THEN Status(h, t) ELSE MergeModuleResults(steps, t))

(* systemd counts a reload of the manager as a change. *)
SystemdRun(h, t, check) ==
    LET reload == IF t.reload THEN <<Step(h, TRUE, TRUE)>> ELSE <<>>
        steps == reload \o Steps(h, t)
    IN  IF check THEN Reports(SystemdForesees(h, t))
        ELSE IF steps = <<>> THEN Status(h, t) ELSE MergeModuleResults(steps, t)
=============================================================================
