-------------------------- MODULE ManagedAccounts --------------------------
(***************************************************************************)
(* hostname, user and group of pkg/module, each as the run it makes of a   *)
(* task on a host.                                                         *)
(*                                                                         *)
(* For hostname the host keeps the name the kernel has (live) and the one  *)
(* in /etc/hostname (file); for user whether it exists, an attribute that  *)
(* usermod sets (shell), the groups, the password, the lock and the SSH    *)
(* key; for group whether it exists and its number.  The group "ghost" and *)
(* the number "taken" are refused by the host.                             *)
(***************************************************************************)
EXTENDS ModuleRun, FiniteSets

-----------------------------------------------------------------------------
(* hostname.  hostnamectl sets both names; what takes its place sets the   *)
(* kernel's, and its error is dropped.  Then the file is written.          *)

HostnameRun(h, t, check) ==
    LET both == [live |-> t.name, file |-> t.name]
        first == IF t.hostnamectl THEN both ELSE [h EXCEPT !.live = t.name]
    IN  IF h.live = t.name THEN Unchanged
        ELSE IF check THEN Reports(TRUE)
        ELSE Changes(<<Quiet(first), Loud(both)>>)

-----------------------------------------------------------------------------
(* user *)

NoUser == [exists |-> FALSE, shell |-> "", groups |-> {}, password |-> "", locked |-> FALSE, key |-> FALSE]

Usable(groups) == "ghost" \notin groups
Lock(h) == [h EXCEPT !.locked = TRUE]
Unlock(h) == [h EXCEPT !.locked = h.password = ""]
SetPassword(h, password) == [h EXCEPT !.password = password, !.locked = FALSE]

(* The options of usermod: the groups replace the user's or are added. *)
Usermod(h, shell, groups, append) ==
    [h EXCEPT !.shell = IF shell = "" THEN @ ELSE shell,
              !.groups = IF groups = {} THEN @ ELSE IF append THEN @ \cup groups ELSE groups]

(* useradd leaves a user without a password locked. *)
Useradd(h, t) ==
    [h EXCEPT !.exists = TRUE, !.shell = t.shell, !.groups = t.groups, !.password = t.password,
              !.locked = t.password = "" \/ t.lock = "lock"]

(* The options, and the lock behind them when they were accepted; then, in *)
(* a command of its own, the password, which undoes a lock.                *)
ModifyUser(h, t, groups, password) ==
    LET args == t.shell # "" \/ groups # {}
        fails == args /\ ~Usable(groups)
        set == IF fails THEN h ELSE Usermod(h, t.shell, groups, t.append)
        first == CASE fails \/ t.lock = "" -> set
                   [] ~fails /\ t.lock = "lock" -> Lock(set)
                   [] ~fails /\ t.lock = "unlock" -> Unlock(set)
        cmd == IF args \/ t.lock # "" THEN <<Loud(first)>> ELSE <<>>
        pass == IF password # "" THEN <<Loud(SetPassword(first, password))>> ELSE <<>>
    IN  Ran(cmd \o pass, cmd \o pass # <<>>, fails)

UserCommands(h, t) ==
    LET password == IF h.exists /\ t.onCreate THEN "" ELSE t.password
        groups == IF h.exists /\ t.append /\ t.groups \subseteq h.groups THEN {} ELSE t.groups
        gone == IF t.remove THEN NoUser ELSE [NoUser EXCEPT !.key = h.key]
    IN  CASE t.state = "present" /\ h.exists -> ModifyUser(h, t, groups, password)
          [] t.state = "present" /\ ~h.exists ->
               IF Usable(t.groups) THEN Changes(<<Loud(Useradd(h, t))>>) ELSE Ran(<<Loud(h)>>, TRUE, TRUE)
          [] t.state = "absent" -> IF h.exists THEN Changes(<<Loud(gone)>>) ELSE Unchanged
          [] t.state = "locked" -> IF h.exists THEN Changes(<<Loud(Lock(h))>>) ELSE Refused
          [] t.state = "unlocked" -> IF h.exists THEN Changes(<<Loud(Unlock(h))>>) ELSE Refused

(* mkdir and the permissions are commands whose errors are dropped. *)
UserSSHKey(h, t) ==
    LET made == [h EXCEPT !.key = TRUE]
    IN  IF t.state = "absent" \/ ~t.key \/ h.key THEN <<>> ELSE <<Quiet(h), Loud(made), Quiet(made)>>

UserRun(h, t, check) ==
    LET run == UserCommands(h, t)
        done == HostAfter(run, h, Len(run.trail))
        key == UserSSHKey(done, t)
    IN  IF run = Refused THEN Refused
        ELSE IF check THEN Reports(run.trail # <<>> \/ UserSSHKey(h, t) # <<>>)
        ELSE Ran(run.trail \o key, run.trail # <<>> \/ key # <<>>, run.failed)

-----------------------------------------------------------------------------
(* group *)

(* The command, or <<>> when the group is as asked.  groupadd and groupmod *)
(* refuse a number that another group has.                                 *)
GroupCommand(h, t) ==
    LET gid == IF t.gid # "" THEN t.gid ELSE "any"
    IN  CASE t.state = "present" /\ h.exists /\ t.gid \in {"", h.gid} -> <<>>
          [] t.state = "absent" /\ ~h.exists -> <<>>
          [] t.state = "absent" /\ h.exists -> <<Loud([exists |-> FALSE, gid |-> ""])>>
          [] OTHER -> <<Loud(IF gid = "taken" THEN h ELSE [exists |-> TRUE, gid |-> gid])>>

GroupRun(h, t, check) ==
    LET cmd == GroupCommand(h, t)
    IN  IF cmd = <<>> THEN Unchanged
        ELSE IF check THEN Reports(TRUE)
        ELSE Ran(cmd, TRUE, t.state = "present" /\ t.gid = "taken")
=============================================================================
