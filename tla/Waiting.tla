------------------------------- MODULE Waiting -------------------------------
(***************************************************************************)
(* The modules that wait for the managed host: wait_for, whose loop is a   *)
(* script on the host; wait_for_connection and reboot, whose loops run in  *)
(* the controller; an async job with poll: 0, which a script starts on the *)
(* host, and async_status, which asks for it until it has finished; and    *)
(* pause, which only waits for time or for the user.                       *)
(*                                                                         *)
(* The host and the network do as they like: the host reboots, by itself   *)
(* or when told to, which kills what runs on it; what wait_for waits for   *)
(* comes and goes; a connection breaks.  Time is the clock; a step of a    *)
(* module takes none, and any amount may pass between two of them.         *)
(***************************************************************************)
EXTENDS Naturals

CONSTANTS
  Asks,            \* what the task may ask for
  CommandTimeout,  \* the limit of one command: the connect timeout of the client
  MaxLag,          \* bound: the time that passes, in all, while a step of the module is due
  MaxBoots, MaxTurns, MaxDrops  \* bounds: reboots, changes of what is waited for, broken
                                \* connections

(* present: the state waited for; polls: the retries of the until around   *)
(* async_status.                                                           *)
Ask == [module : {"wait_for", "wait_for_connection", "reboot", "async", "pause"},
        present : BOOLEAN, delay : Nat, timeout : Nat, polls : Nat]

ASSUME AsksAssumption == \A a \in Asks : a \in Ask

VARIABLES
  ask,        \* what is asked for (never changes)
  at,         \* where the module is
  hasClient,  \* whether the module was given a connection
  wake,       \* until when it sleeps
  deadline, began,
  previous,   \* the boot id it has read, 0 if none
  polls,      \* how often async_status has asked
  answer,     \* what the module has returned
  clock, lag,
  \* the host
  up, boot, present,
  launcher,   \* the script that starts a job
  job, file,  \* the job, and the status file of it
  turns, drops,
  \* history, for the properties only
  looked,     \* what the last look of the module saw: none, yes, no
  broken,     \* a connection broke under a command of the module
  unread,     \* a boot id could not be read
  late        \* the script wrote the status after the job was over

ctl   == <<at, hasClient, wake, deadline, began, previous, polls, answer>>
host  == <<up, boot, present, turns>>
jobs  == <<launcher, job, file>>
hist  == <<looked, broken, unread, late>>
time  == <<clock, lag>>
waitVars == <<ask, ctl, time, host, jobs, drops, hist>>

WaitInit ==
  /\ ask \in Asks /\ at = "start" /\ hasClient = FALSE /\ wake = 0 /\ deadline = 0 /\ began = 0
  /\ previous = 0 /\ polls = 0 /\ answer = "none" /\ clock = 0 /\ lag = 0
  /\ up \in BOOLEAN /\ boot = 1 /\ present \in BOOLEAN
  /\ launcher = "none" /\ job = "none" /\ file = "absent" /\ turns = 0 /\ drops = 0
  /\ looked = "none" /\ broken = FALSE /\ unread = FALSE /\ late = FALSE
-----------------------------------------------------------------------------
(* Commands                                                                *)

Enter(l)     == at' = l
Sleep(t)    == wake' = clock + t
Awake       == clock >= wake
Returns(a)  == answer' = a /\ at' = "over"

(* How a command of the module may end: done, cut by a broken connection   *)
(* (a result without output, and an error), or not begun (no result).      *)
Ends(how) ==
  \/ how = "done" /\ up /\ UNCHANGED <<drops, broken>>
  \/ how = "cut" /\ up /\ drops < MaxDrops /\ drops' = drops + 1 /\ broken' = TRUE
  \/ how = "refused" /\ ~up /\ UNCHANGED <<drops, broken>>

(* The pool may have a connection from before.  If not, getOrCreateClient  *)
(* drops the error of the pool: a host that is down when the module starts *)
(* gives it no client at all.                                              *)
Start ==
  /\ at = "start"
  /\ hasClient' \in IF up THEN {TRUE} ELSE BOOLEAN
  /\ IF ask.module \in {"wait_for", "async"} /\ ~up THEN Returns("error")
     ELSE Enter(ask.module) /\ UNCHANGED answer
  /\ UNCHANGED <<ask, wake, deadline, began, previous, polls, time, host, jobs, drops, hist>>
-----------------------------------------------------------------------------
(* wait_for: one command for the whole loop                                *)

WaitFor ==
  /\ at = "wait_for"
  /\ began' = clock /\ deadline' = clock + ask.timeout /\ Sleep(ask.delay)
  /\ Enter("looking")
  /\ UNCHANGED <<ask, hasClient, previous, polls, answer, time, host, jobs, drops, hist>>

Holds == present = ask.present

Look ==
  /\ at = "looking" /\ Awake /\ up /\ clock <= deadline
  /\ looked' = IF Holds THEN "yes" ELSE "no"
  /\ IF Holds THEN Returns("ok") /\ UNCHANGED wake
     ELSE Sleep(1) /\ UNCHANGED <<at, answer>>
  /\ UNCHANGED <<ask, hasClient, deadline, began, previous, polls, time, host, jobs, drops,
                 broken, unread, late>>

Past == clock > deadline

TimeOut ==
  /\ at = "looking" /\ Awake /\ up /\ Past
  /\ Returns("timed out")
  /\ UNCHANGED <<ask, hasClient, wake, deadline, began, previous, polls, time, host, jobs,
                 drops, hist>>

(* The result of a command that broke has exit code 0: it is taken for a   *)
(* success, and the error is dropped.                                      *)
Broken ==
  /\ at = "looking"
  /\ IF up THEN drops < MaxDrops /\ drops' = drops + 1 ELSE UNCHANGED drops
  /\ broken' = TRUE /\ Returns("ok")
  /\ UNCHANGED <<ask, hasClient, wake, deadline, began, previous, polls, time, host, jobs,
                 looked, unread, late>>

(* The client gives the command up; the script runs on. *)
Cut ==
  /\ at \in {"looking", "launching"} /\ clock >= began + CommandTimeout
  /\ Returns("command timed out")
  /\ UNCHANGED <<ask, hasClient, wake, deadline, began, previous, polls, time, host, jobs,
                 drops, hist>>
-----------------------------------------------------------------------------
(* wait_for_connection                                                     *)

WaitForConnection ==
  /\ at = "wait_for_connection"
  /\ Sleep(ask.delay) /\ Enter("delay")
  /\ UNCHANGED <<ask, hasClient, deadline, began, previous, polls, answer, time, host, jobs,
                 drops, hist>>

Delayed ==
  /\ at = "delay" /\ Awake
  /\ began' = clock /\ deadline' = clock + ask.timeout /\ Enter("connecting")
  /\ UNCHANGED <<ask, hasClient, wake, previous, polls, answer, time, host, jobs, drops, hist>>

(* Connect and the test command; without a client neither is tried.        *)
Connecting ==
  /\ at = "connecting" /\ Awake
  /\ \E how \in {"done", "cut", "refused"} :
       /\ Ends(how)
       /\ looked' = IF how = "done" THEN "yes" ELSE "no"
       /\ IF hasClient /\ how = "done" THEN Returns("ok") /\ UNCHANGED wake
          ELSE IF Past THEN Returns("timed out") /\ UNCHANGED wake
          ELSE Sleep(1) /\ UNCHANGED <<at, answer>>
  /\ UNCHANGED <<ask, hasClient, deadline, began, previous, polls, time, host, jobs, unread, late>>
-----------------------------------------------------------------------------
(* reboot                                                                  *)

(* The boot id is 0 when it cannot be read.  The deadline counts from here. *)
ReadBoot ==
  /\ at = "reboot"
  /\ began' = clock /\ deadline' = clock + ask.timeout /\ Sleep(ask.delay) /\ Enter("telling")
  /\ IF hasClient
     THEN \E how \in {"done", "cut", "refused"} :
            /\ Ends(how)
            /\ previous' = IF how = "done" THEN boot ELSE 0
            /\ unread' = (how # "done")
     ELSE UNCHANGED <<previous, drops, broken>> /\ unread' = TRUE
  /\ UNCHANGED <<ask, hasClient, polls, answer, time, host, jobs, looked, late>>

(* Whatever becomes of the command is ignored; the host may go down from   *)
(* here on, or not (GoDown).                                               *)
Tell ==
  /\ at = "telling" /\ Awake /\ Enter("returning")
  /\ UNCHANGED <<ask, hasClient, wake, deadline, began, previous, polls, answer, time, host, jobs,
                 drops, hist>>

(* Mutant: an answer is enough, of whichever boot. *)
PassesAny == "ok"

(* The test command answered: without a boot id to compare that is enough. *)
Passes == IF previous = 0 THEN "ok" ELSE "compare"

Returning ==
  /\ at = "returning" /\ Awake /\ ~Past
  /\ \E how \in {"done", "cut", "refused"} :
       /\ IF hasClient THEN Ends(how) ELSE how = "refused" /\ UNCHANGED <<drops, broken>>
       /\ looked' = IF how = "done" THEN "yes" ELSE "no"
       /\ IF how # "done" THEN Sleep(1) /\ UNCHANGED <<at, answer>>
          ELSE /\ UNCHANGED wake
               /\ IF Passes = "ok" THEN Returns("ok") ELSE Enter("comparing") /\ UNCHANGED answer
  /\ UNCHANGED <<ask, hasClient, deadline, began, previous, polls, time, host, jobs, unread, late>>

(* A boot id that cannot be read counts as a new one. *)
Compare ==
  /\ at = "comparing"
  /\ \E how \in {"done", "cut", "refused"} :
       /\ Ends(how)
       /\ IF how = "done" /\ boot = previous
          THEN Sleep(1) /\ Enter("returning") /\ UNCHANGED answer
          ELSE Returns("ok") /\ UNCHANGED wake
       /\ unread' = (unread \/ how # "done")
  /\ UNCHANGED <<ask, hasClient, deadline, began, previous, polls, time, host, jobs, looked, late>>

GiveUp ==
  /\ at = "returning" /\ Awake /\ Past
  /\ Returns("timed out")
  /\ UNCHANGED <<ask, hasClient, wake, deadline, began, previous, polls, time, host, jobs,
                 drops, hist>>
-----------------------------------------------------------------------------
(* pause: until the time is over, or until the user answers                *)

Pause ==
  /\ at = "pause" /\ Sleep(ask.delay) /\ Enter("paused")
  /\ UNCHANGED <<ask, hasClient, deadline, began, previous, polls, answer, time, host, jobs,
                 drops, hist>>

Proceed ==
  /\ at = "paused" /\ Awake /\ Returns("ok")
  /\ UNCHANGED <<ask, hasClient, wake, deadline, began, previous, polls, time, host, jobs,
                 drops, hist>>
-----------------------------------------------------------------------------
(* A detached job                                                          *)

(* The script of startDetachedTask is one command; the module waits for it. *)
Launch ==
  /\ at = "async" /\ up /\ launcher' = "begin" /\ Enter("launching") /\ began' = clock
  /\ UNCHANGED <<ask, hasClient, wake, deadline, previous, polls, answer, time, host, job,
                 file, drops, hist>>

CannotLaunch ==
  /\ at = "async" /\ ~up /\ Returns("error")
  /\ UNCHANGED <<ask, hasClient, wake, deadline, began, previous, polls, time, host, jobs,
                 drops, hist>>

(* A redirection empties the file before the text is in it. *)
Script(from, to, text) ==
  /\ launcher = from /\ up /\ launcher' = to /\ file' = text
  /\ late' = (late \/ (from \in {"forked", "reopened"} /\ job = "over"))
  /\ UNCHANGED <<ask, ctl, time, host, job, drops, looked, broken, unread>>

Fork ==
  /\ launcher = "written" /\ up /\ launcher' = "forked" /\ job' = "running"
  /\ UNCHANGED <<ask, ctl, time, host, file, drops, hist>>

Launcher ==
  \/ Script("begin", "opened", "empty") \/ Script("opened", "written", "started")
  \/ Fork
  \/ Script("forked", "reopened", "empty") \/ Script("reopened", "over", "pid")

(* The job ends; its shell writes what it exited with.  Over a text that   *)
(* came in between, and is longer, it leaves the tail of it.               *)
JobStep(from, to, text) ==
  /\ up /\ job = from /\ job' = to /\ file' = text
  /\ UNCHANGED <<ask, ctl, time, host, launcher, drops, hist>>

Job ==
  \/ JobStep("running", "exited", file) \/ JobStep("exited", "writing", "empty")
  \/ JobStep("writing", "over", IF file = "empty" THEN "finished" ELSE "garbled")

Launched ==
  /\ at = "launching" /\ launcher = "over" /\ up
  /\ Enter("asking") /\ Sleep(1)
  /\ UNCHANGED <<ask, hasClient, deadline, began, previous, polls, answer, time, host, jobs,
                 drops, hist>>

(* The command broke: the task fails, the job may run all the same. *)
LaunchBroken ==
  /\ at = "launching"
  /\ IF up THEN drops < MaxDrops /\ drops' = drops + 1 ELSE UNCHANGED drops
  /\ broken' = TRUE /\ Returns("error")
  /\ UNCHANGED <<ask, hasClient, wake, deadline, began, previous, polls, time, host, jobs,
                 looked, unread, late>>

(* async_status reads the status file.  An empty or garbled file is no     *)
(* JSON and says nothing of "finished", nor does an error: the until asks  *)
(* again.                                                                  *)
Query ==
  /\ at = "asking" /\ Awake /\ polls' = polls + 1
  /\ \E how \in {"done", "cut", "refused"} :
       /\ Ends(how)
       /\ IF how = "done" /\ file = "finished" THEN Returns("finished") /\ UNCHANGED wake
          ELSE IF how = "done" /\ file = "absent" THEN Returns("no such job") /\ UNCHANGED wake
          ELSE IF how = "done" /\ file = "pid"
               THEN Enter("probing") /\ UNCHANGED <<wake, answer>>
          ELSE IF polls < ask.polls THEN Sleep(1) /\ UNCHANGED <<at, answer>>
               ELSE Returns("exhausted") /\ UNCHANGED wake
  /\ UNCHANGED <<ask, hasClient, deadline, began, previous, time, host, jobs, looked, unread, late>>

Alive == job \in {"running", "exited", "writing"}

(* Mutant: a process that is gone has not finished. *)
GoneIsDead == "died"

(* A process that is gone may just have written its end. *)
Gone == "requery"

(* kill -0 of the pid: without output the process counts as gone; without  *)
(* a result the program panics.                                            *)
Probe ==
  /\ at = "probing"
  /\ \E how \in {"done", "cut", "refused"} :
       /\ Ends(how)
       /\ IF how = "refused" THEN Returns("panic") /\ UNCHANGED wake
          ELSE IF how = "done" /\ Alive
               THEN IF polls < ask.polls THEN Sleep(1) /\ Enter("asking") /\ UNCHANGED answer
                    ELSE Returns("exhausted") /\ UNCHANGED wake
          ELSE IF Gone = "died" THEN Returns("died") /\ UNCHANGED wake
          ELSE Enter("requery") /\ UNCHANGED <<wake, answer>>
  /\ UNCHANGED <<ask, hasClient, deadline, began, previous, polls, time, host, jobs, looked,
                 unread, late>>

(* Mutant: whatever the file says, it is asked for again. *)
SaysAnything == file # "absent"

SaysFinished == file \in {"finished", "garbled"}

(* A text that says finished, even a garbled one, is asked for from the    *)
(* beginning; that is no new attempt of the until.                         *)
Requery ==
  /\ at = "requery"
  /\ \E how \in {"done", "cut", "refused"} :
       /\ Ends(how)
       /\ IF how = "refused" THEN Returns("panic") /\ UNCHANGED polls
          ELSE IF how = "done" /\ SaysFinished
               THEN Enter("asking") /\ polls' = polls - 1 /\ UNCHANGED answer
          ELSE Returns("died") /\ UNCHANGED polls
  /\ UNCHANGED <<ask, hasClient, wake, deadline, began, previous, time, host, jobs, looked,
                 unread, late>>

(* mode: cleanup, once the answer is there: a job still running writes its *)
(* file again.                                                             *)
CleanUp ==
  /\ ask.module = "async" /\ at = "over" /\ up /\ hasClient /\ file # "absent"
  /\ file' = "absent" /\ Enter("cleaned")
  /\ UNCHANGED <<ask, hasClient, wake, deadline, began, previous, polls, answer, time, host,
                 launcher, job, drops, hist>>
-----------------------------------------------------------------------------
(* The host, and time                                                      *)

(* Told to or by itself; what runs on it is gone, its files stay. *)
GoDown ==
  /\ up /\ boot < MaxBoots /\ up' = FALSE /\ present' = FALSE
  /\ job' = IF Alive THEN "killed" ELSE job
  /\ launcher' = IF launcher \in {"none", "over"} THEN launcher ELSE "dead"
  /\ UNCHANGED <<ask, ctl, time, boot, turns, file, drops, hist>>

ComeUp ==
  /\ ~up /\ up' = TRUE /\ boot' = boot + 1
  /\ UNCHANGED <<ask, ctl, time, present, turns, jobs, drops, hist>>

Turn ==
  /\ up /\ turns < MaxTurns /\ turns' = turns + 1 /\ present' = ~present
  /\ UNCHANGED <<ask, ctl, time, up, boot, jobs, drops, hist>>

Due ==
  CASE at = "looking"   -> (Awake /\ up) \/ clock >= began + CommandTimeout
    [] at = "launching" -> (launcher = "over" /\ up) \/ clock >= began + CommandTimeout
    [] OTHER            -> Awake

Tick ==
  /\ answer = "none" /\ (Due => lag < MaxLag)
  /\ clock' = clock + 1 /\ lag' = IF Due THEN lag + 1 ELSE lag
  /\ UNCHANGED <<ask, ctl, host, jobs, drops, hist>>

Module ==
  \/ Start
  \/ WaitFor \/ Look \/ TimeOut \/ Broken \/ Cut
  \/ WaitForConnection \/ Delayed \/ Connecting
  \/ ReadBoot \/ Tell \/ Returning \/ Compare \/ GiveUp
  \/ Pause \/ Proceed
  \/ Launch \/ CannotLaunch \/ Launched \/ LaunchBroken \/ Query \/ Probe \/ Requery

Stop == at \in {"over", "cleaned"} /\ UNCHANGED waitVars

WaitNext == Module \/ CleanUp \/ Launcher \/ Job \/ GoDown \/ ComeUp \/ Turn \/ Tick \/ Stop

(* The controller goes on and time passes; the host owes nothing. *)
WaitSpec == WaitInit /\ [][WaitNext]_waitVars /\ WF_waitVars(Module) /\ WF_waitVars(Tick)
-----------------------------------------------------------------------------
(* Properties                                                              *)

(* A wait that succeeds has found what it waited for: the last look of     *)
(* wait_for saw the state, that of wait_for_connection the host, and the   *)
(* host a reboot has returned for runs another boot than before.  Not      *)
(* covered: a connection that breaks under the script of wait_for, whose   *)
(* error is dropped (wait_for.go:73), and a boot id that cannot be read,   *)
(* before or after (reboot.go:63, reboot.go:114).                          *)
SuccessIsReal ==
  answer = "ok" =>
    /\ ask.module = "wait_for" => looked = "yes" \/ broken
    /\ ask.module = "wait_for_connection" => looked = "yes"
    /\ ask.module = "reboot" /\ ~unread => previous # 0 /\ boot # previous

(* A wait that times out has waited its whole time, and its last look was  *)
(* in vain; but a wait_for_connection without a client does not look.      *)
TimeoutIsReal ==
  answer = "timed out" =>
    /\ clock > deadline
    /\ ask.module = "wait_for" => looked # "yes"
    /\ ask.module = "wait_for_connection" /\ hasClient => looked = "no"

(* A wait tells what it found: a success has found what it waited for, a   *)
(* timeout has looked until the end.                                       *)
WaitsTell == SuccessIsReal /\ TimeoutIsReal

(* What async_status says of a job is true: it has finished when it is     *)
(* called finished, it is never unknown, and when it is said to have died  *)
(* unexpectedly it was killed.  The last fails in two ways: the script     *)
(* that starts the job writes the status once more after it, and so over   *)
(* the end of a short job (executor_task.go:1469), and a connection that   *)
(* breaks under kill -0 leaves no output (async_status.go:186).            *)
JobVerdictIsReal ==
  /\ answer = "finished" => job = "over"
  /\ answer # "no such job"
  /\ answer = "died" => job = "killed" \/ late \/ broken

(* Every wait ends, whatever the host does. *)
WaitEnds == <>(answer # "none")

=============================================================================
