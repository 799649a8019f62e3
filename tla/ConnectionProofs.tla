-------------------------- MODULE ConnectionProofs --------------------------
(***************************************************************************)
(* Proofs about the two users of a connection.                             *)
(*                                                                         *)
(* SshClient, for any goroutines and bounds: types, that no reconnect      *)
(* leaks a connection, and that calls heal.  What carries the first is     *)
(* that c.mu is held over a dial: who dials is alone, and found the client *)
(* not connected; what carries the last is what a call knows, at each      *)
(* place, of the connection and the SFTP session it works with.            *)
(*                                                                         *)
(* Waiting, for any tasks, limits, reboots and broken connections: what a  *)
(* wait answers is what it found, and what async_status says of a job is   *)
(* true of the job.  What carries them is what each place of a module      *)
(* knows of its clock and its last look, and each place of the script of   *)
(* the job and of the status file.                                         *)
(***************************************************************************)
EXTENDS SshClient, Waiting, TLAPS

DialInv ==
  /\ \A t \in Threads : pc[t] = "dial" => ~connected
  /\ \A t, u \in Threads : pc[t] = "dial" /\ pc[u] = "dial" => t = u

IInv == TypeOK /\ NoConnectionLeaked /\ DialInv

-----------------------------------------------------------------------------
(* Types                                                                    *)

LEMMA Goes ==
  ASSUME pc \in [Threads -> Pcs], NEW t \in Threads, NEW l \in Pcs, Goto(t, l)
  PROVE  /\ pc' \in [Threads -> Pcs] /\ pc'[t] = l
         /\ \A u \in Threads \ {t} : pc'[u] = pc[u]
  BY DEF Goto

LEMMA Disturbs ==
  ASSUME NEW T, Disturb(T)
  PROVE  disturbed' \in [Threads -> BOOLEAN]
  BY DEF Disturb

\* Actions that end a try of a call, on a connection that may be alive.
Failing(t) == FinalRefused(t) \/ RunFails(t) \/ FileRefused(t) \/ CopyFails(t)

LEMMA FailingSteps ==
  ASSUME pc \in [Threads -> Pcs], NEW t \in Threads, Failing(t)
  PROVE  /\ \E l \in {"error", "again"} : Goto(t, l) /\ pc'[t] = l
         /\ UNCHANGED <<shared, ret, my, retried, network>>
         /\ Disturb({t})
  BY DEF Failing, FinalRefused, RunFails, FileRefused, CopyFails, Goto

\* Actions of one goroutine that leave connections and sessions alone.
Walking(t) ==
  \/ Call(t) \/ Return(t) \/ Connect(t) \/ Session(t) \/ Connected(t) \/ KeepAlive(t)
  \/ Open(t) \/ OpenRefused(t) \/ Stamp(t) \/ Reconnected(t) \/ Final(t) \/ Run(t)
  \/ Sftp(t) \/ SftpRead(t) \/ SftpFailed(t) \/ Transfer(t) \/ Copy(t)
  \/ DialFail(t) \/ DialDenied(t) \/ Failing(t)

Dropping(t) == Invalidate(t) \/ Again(t) \/ Close(t)

Discarding(t) == Reset(t) \/ SftpReset(t) \/ CloseClient(t)

LEMMA NextSteps ==
  ASSUME [Next]_vars
  PROVE  \/ \E t \in Threads : /\ Walking(t) \/ Dropping(t) \/ Discarding(t) \/ DialOk(t) \/ SftpOpened(t)
                               /\ UNCHANGED agent
         \/ \E c \in Conns : Lost(c) /\ UNCHANGED agent
         \/ UNCHANGED vars
  BY DEF Next, Crashed, Step, Walking, Failing, Dropping, Discarding

LEMMA PcTypes ==
  ASSUME TypeOK, NEW t \in Threads,
         Walking(t) \/ Dropping(t) \/ Discarding(t) \/ DialOk(t) \/ SftpOpened(t)
  PROVE  /\ \E l \in Pcs : Goto(t, l) /\ (l = "dial" => Connect(t) /\ ~connected)
         /\ ret' \in [Threads -> {"connected", "reconnected", "final", "sftpRead", "sftpReread"}]
         /\ retried' \in [Threads -> BOOLEAN]
<1> USE DEF TypeOK, Pcs
<1>1. CASE Call(t) \/ Return(t)
  BY <1>1, CallsAssumption DEF Call, Return, AllCalls
<1>2. CASE Connect(t)
  BY <1>2 DEF Connect
<1>3. CASE Session(t) \/ Connected(t) \/ KeepAlive(t)
  BY <1>3 DEF Session, Connected, KeepAlive, Take
<1>4. CASE Open(t) \/ OpenRefused(t) \/ Stamp(t) \/ Reconnected(t) \/ Final(t) \/ Run(t)
  BY <1>4 DEF Open, OpenRefused, Stamp, Reconnected, Final, Run
<1>5. CASE Sftp(t) \/ SftpRead(t) \/ SftpFailed(t) \/ Transfer(t) \/ Copy(t)
  BY <1>5 DEF Sftp, SftpRead, SftpFailed, Transfer, Copy, Fail
<1>6. CASE DialFail(t) \/ DialDenied(t) \/ DialOk(t) \/ SftpOpened(t)
  BY <1>6 DEF DialFail, DialDenied, DialOk, SftpOpened, Fail
<1>7. CASE Dropping(t)
  BY <1>7 DEF Dropping, Invalidate, Again, Close
<1>8. CASE Discarding(t)
  BY <1>8 DEF Discarding, Reset, SftpReset, CloseClient
<1>9. CASE Failing(t)
  <2>1. Goto(t, "error") \/ Goto(t, "again")
    BY <1>9 DEF Failing, FinalRefused, RunFails, FileRefused, CopyFails
  <2>2. UNCHANGED <<ret, retried>>
    BY <1>9 DEF Failing, FinalRefused, RunFails, FileRefused, CopyFails
  <2> QED
    BY <2>1, <2>2
<1> QED
  BY <1>1, <1>2, <1>3, <1>4, <1>5, <1>6, <1>7, <1>8, <1>9 DEF Walking

\* What no action of the goroutine can disturb but that of its group.
Kept == UNCHANGED <<client, connected, agentOpen, sftp, network>>

LockKept(t) == \/ sftpMu' = sftpMu \/ sftpMu' = sftpMu \ {t}
               \/ sftpMu = {} /\ sftpMu' = {t}

LEMMA WalkKeeps ==
  ASSUME TypeOK, NEW t \in Threads, Walking(t)
  PROVE  /\ Kept /\ LockKept(t)
         /\ used' \in BOOLEAN
         /\ my' \in [Threads -> Nat]
         /\ disturbed' \in [Threads -> BOOLEAN]
<1> USE DEF TypeOK, Kept, LockKept, shared, network, Nil, Conns
<1>1. CASE Call(t) \/ Connect(t)
  BY <1>1 DEF Call, Connect
<1>7. CASE Return(t)
  <2>1. my' \in [Threads -> Nat]
    BY <1>7 DEF Return
  <2>2. disturbed' \in [Threads -> BOOLEAN]
    BY <1>7 DEF Return
  <2> QED
    BY <1>7, <2>1, <2>2 DEF Return
<1>2. CASE Session(t) \/ Connected(t) \/ KeepAlive(t)
  BY <1>2, BoundsAssumption DEF Session, Connected, KeepAlive, Take
<1>3. CASE Open(t) \/ OpenRefused(t) \/ Stamp(t) \/ Run(t) \/ Transfer(t) \/ Copy(t)
  BY <1>3 DEF Open, OpenRefused, Stamp, Run, Transfer, Copy, Disturb
<1>4. CASE Reconnected(t) \/ Final(t)
  <2>1. client \in Nat /\ my' \in [Threads -> Nat]
    BY <1>4, BoundsAssumption DEF Reconnected, Final
  <2>2. used' \in BOOLEAN
    BY <1>4 DEF Reconnected, Final
  <2> QED
    BY <1>4, <2>1, <2>2 DEF Reconnected, Final
<1>5. CASE Sftp(t)
  BY <1>5, BoundsAssumption DEF Sftp, SftpMuFree
<1>6. CASE SftpRead(t) \/ SftpFailed(t) \/ DialFail(t) \/ DialDenied(t)
  <2>1. client \in Nat /\ my' \in [Threads -> Nat]
    BY <1>6, BoundsAssumption DEF SftpRead, SftpFailed, DialFail, DialDenied
  <2>2. disturbed' \in [Threads -> BOOLEAN]
    BY <1>6, Disturbs DEF SftpRead, SftpFailed, DialFail, DialDenied
  <2> QED
    BY <1>6, <2>1, <2>2 DEF SftpRead, SftpFailed, DialFail, DialDenied, Fail
<1>8. CASE Failing(t)
  BY <1>8, FailingSteps, Disturbs
<1> QED
  BY <1>1, <1>2, <1>3, <1>4, <1>5, <1>6, <1>7, <1>8 DEF Walking

LEMMA DropKeeps ==
  ASSUME TypeOK, NEW t \in Threads, Dropping(t)
  PROVE  /\ UNCHANGED <<client, connected, used, agentOpen, sftpMu, my, network>>
         /\ sftp' = NoSftp
         /\ disturbed' \in [Threads -> BOOLEAN]
  BY DEF Dropping, Invalidate, Again, Close, DropSftp, Disturb, network

LEMMA DiscardKeeps ==
  ASSUME TypeOK, NEW t \in Threads, Discarding(t)
  PROVE  /\ MuFree
         /\ UNCHANGED <<used, sftp, sftpMu, my, dialed, opened>>
         /\ client' = Nil /\ connected' = FALSE /\ agentOpen' = FALSE
         /\ alive' = alive \ {client}
         /\ disturbed' \in [Threads -> BOOLEAN]
  BY DEF Discarding, Reset, SftpReset, CloseClient, Discard, Disturb

LEMMA TypeKept ==
  ASSUME TypeOK, [Next]_vars
  PROVE  TypeOK'
<1> USE DEF TypeOK, Nil, Conns
<1>1. ASSUME NEW t \in Threads, UNCHANGED agent,
             Walking(t) \/ Dropping(t) \/ Discarding(t) \/ DialOk(t) \/ SftpOpened(t)
      PROVE  TypeOK'
  <2>1. /\ pc' \in [Threads -> Pcs]
        /\ ret' \in [Threads -> {"connected", "reconnected", "final", "sftpRead", "sftpReread"}]
        /\ retried' \in [Threads -> BOOLEAN]
    BY <1>1, PcTypes, Goes
  <2>2. CASE Walking(t)
    <3>1. UNCHANGED <<client, connected, agentOpen, sftp, network>>
      BY <2>2, WalkKeeps DEF Kept
    <3>2. sftpMu' \subseteq Threads /\ \A u, v \in sftpMu' : u = v
      BY <2>2, WalkKeeps DEF LockKept
    <3>3. used' \in BOOLEAN
      BY <2>2, WalkKeeps
    <3>4. my' \in [Threads -> Nat] /\ disturbed' \in [Threads -> BOOLEAN]
      BY <2>2, WalkKeeps
    <3> QED
      BY <1>1, <2>1, <3>1, <3>2, <3>3, <3>4 DEF network
  <2>3. CASE Dropping(t)
    <3>1. UNCHANGED <<client, connected, used, agentOpen, sftpMu, my, network>>
      BY <2>3, DropKeeps
    <3>2. sftp' \in [id : 0..MaxSftp, conn : Conns \union {Nil}]
      BY <2>3, DropKeeps, BoundsAssumption DEF NoSftp
    <3>3. disturbed' \in [Threads -> BOOLEAN]
      BY <2>3, DropKeeps
    <3> QED
      BY <1>1, <2>1, <3>1, <3>2, <3>3 DEF network
  <2>4. CASE Discarding(t)
    BY <1>1, <2>1, <2>4, DiscardKeeps
  <2>5. CASE DialOk(t)
    BY <1>1, <2>1, <2>5, BoundsAssumption DEF DialOk
  <2>6. CASE SftpOpened(t)
    BY <1>1, <2>1, <2>6, BoundsAssumption DEF SftpOpened
  <2> QED
    BY <1>1, <2>2, <2>3, <2>4, <2>5, <2>6
<1>2. ASSUME NEW c \in Conns, Lost(c), UNCHANGED agent
      PROVE  TypeOK'
  BY <1>2 DEF Lost, shared, calls, Disturb
<1>3. CASE UNCHANGED vars
  BY <1>3 DEF vars, shared, calls, network
<1> QED
  BY <1>1, <1>2, <1>3, NextSteps

-----------------------------------------------------------------------------
(* The connection                                                          *)

\* Who dials found the client not connected, alone: there is nothing to leak.
LEMMA DialsFromNothing ==
  ASSUME IInv, NEW t \in Threads, pc[t] = "dial"
  PROVE  alive = {} /\ client = Nil
  BY DEF IInv, DialInv, NoConnectionLeaked, TypeOK, Conns, Nil

\* Nobody starts to dial, and the client does not get connected, while
\* another goroutine dials: but DialOk, whose goroutine ends dialing.
LEMMA DialsKept ==
  ASSUME IInv, NEW t \in Threads,
         Walking(t) \/ Dropping(t) \/ Discarding(t) \/ DialOk(t) \/ SftpOpened(t)
  PROVE  DialInv'
<1>1. PICK l \in Pcs : Goto(t, l) /\ (l = "dial" => Connect(t) /\ ~connected)
  BY PcTypes DEF IInv
<1>2. pc'[t] = l /\ \A u \in Threads \ {t} : pc'[u] = pc[u]
  BY <1>1, Goes DEF IInv, TypeOK
<1>3. CASE l = "dial"
  <2>1. MuFree /\ ~connected /\ connected' = connected
    BY <1>1, <1>3 DEF Connect, shared
  <2> QED
    BY <1>2, <1>3, <2>1 DEF MuFree, DialInv
<1>4. CASE l # "dial" /\ ~DialOk(t)
  <2>1. connected' => connected
    BY <1>4, WalkKeeps, DropKeeps, DiscardKeeps DEF IInv, Kept, SftpOpened
  <2> QED
    BY <1>2, <1>4, <2>1 DEF IInv, DialInv
<1>5. CASE l # "dial" /\ DialOk(t)
  BY <1>2, <1>5 DEF IInv, DialInv, DialOk
<1> QED
  BY <1>3, <1>4, <1>5

LEMMA NoneLeakedKept ==
  ASSUME IInv, NEW t \in Threads,
         Walking(t) \/ Dropping(t) \/ Discarding(t) \/ DialOk(t) \/ SftpOpened(t)
  PROVE  NoConnectionLeaked'
<1>1. CASE Walking(t) \/ Dropping(t) \/ SftpOpened(t)
  <2>1. UNCHANGED <<client, connected, alive>>
    BY <1>1, WalkKeeps, DropKeeps DEF IInv, Kept, SftpOpened, network
  <2> QED
    BY <2>1 DEF IInv, NoConnectionLeaked
<1>2. CASE Discarding(t)
  BY <1>2, DiscardKeeps DEF IInv, NoConnectionLeaked
<1>3. CASE DialOk(t)
  <2>1. alive = {}
    BY <1>3, DialsFromNothing DEF DialOk
  <2>2. client' = dialed + 1 /\ connected' = TRUE /\ alive' = alive \union {client'}
    BY <1>3 DEF DialOk
  <2>3. client' # Nil
    BY <2>2 DEF IInv, TypeOK, Nil
  <2> QED
    BY <2>1, <2>2, <2>3 DEF NoConnectionLeaked
<1> QED
  BY <1>1, <1>2, <1>3

LEMMA StepKeeps ==
  ASSUME IInv, [Next]_vars
  PROVE  IInv'
<1>1. TypeOK'
  BY TypeKept DEF IInv
<1>2. NoConnectionLeaked' /\ DialInv'
  <2>1. ASSUME NEW t \in Threads,
               Walking(t) \/ Dropping(t) \/ Discarding(t) \/ DialOk(t) \/ SftpOpened(t)
        PROVE  NoConnectionLeaked' /\ DialInv'
    BY <2>1, DialsKept, NoneLeakedKept
  <2>2. ASSUME NEW c \in Conns, Lost(c)
        PROVE  NoConnectionLeaked' /\ DialInv'
    BY <2>2 DEF IInv, NoConnectionLeaked, DialInv, Lost, shared, calls
  <2>3. CASE UNCHANGED vars
    BY <2>3 DEF IInv, NoConnectionLeaked, DialInv, vars, shared, calls, network
  <2> QED
    BY <2>1, <2>2, <2>3, NextSteps
<1> QED
  BY <1>1, <1>2 DEF IInv

LEMMA InitHolds ==
  ASSUME Init
  PROVE  IInv
<1>1. TypeOK
  <2>1. agent \in Agents /\ agentOpen \in BOOLEAN
    BY CallsAssumption DEF Init
  <2>2. sftp \in [id : 0..MaxSftp, conn : Conns \union {Nil}]
    BY BoundsAssumption DEF Init, NoSftp, Nil
  <2>3. /\ pc \in [Threads -> Pcs] /\ my \in [Threads -> Nat]
        /\ ret \in [Threads -> {"connected", "reconnected", "final", "sftpRead", "sftpReread"}]
    BY DEF Init, Pcs, Nil
  <2>4. retried \in [Threads -> BOOLEAN] /\ disturbed \in [Threads -> BOOLEAN]
    BY DEF Init
  <2>5. connected \in BOOLEAN /\ used \in BOOLEAN
    BY DEF Init
  <2>6. client \in Conns \union {Nil} /\ sftpMu = {} /\ alive = {}
    BY DEF Init
  <2>7. dialed \in 0..MaxConns /\ opened \in 0..MaxSftp
    BY BoundsAssumption DEF Init
  <2> QED
    BY <2>1, <2>2, <2>3, <2>4, <2>5, <2>6, <2>7 DEF TypeOK
<1>2. NoConnectionLeaked /\ DialInv
  BY DEF Init, NoConnectionLeaked, DialInv, Nil
<1> QED
  BY <1>1, <1>2 DEF IInv

LEMMA InvHolds == Spec => []IInv
  BY InitHolds, StepKeeps, PTL DEF Spec

\* The client's fields keep their types: the client is a connection that was
\* dialed or nil, and at most one goroutine holds sftpMu.
THEOREM TypeCorrect == Spec => []TypeOK
<1>1. IInv => TypeOK
  BY DEF IInv
<1> QED
  BY <1>1, InvHolds, PTL

\* Whatever goroutines share the client, and however the network drops its
\* connections: a connection that is still open is the client's current one,
\* so newSession, getSFTPClient and Close leak none, and c.connected tells
\* whether there is a client.
THEOREM NothingLeaked == Spec => []NoConnectionLeaked
<1>1. IInv => NoConnectionLeaked
  BY DEF IInv
<1> QED
  BY <1>1, InvHolds, PTL

-----------------------------------------------------------------------------
(* Healing                                                                 *)

\* Inside getSFTPClient, after it found no SFTP session cached.
InSftp(t) ==
  \/ pc[t] \in {"sftpRead", "sftpReread", "sftpNew", "sftpRenew", "sftpReset"}
  \/ pc[t] \in {"connect", "dial"} /\ ret[t] \in {"sftpRead", "sftpReread"}

\* Who is in getSFTPClient holds sftpMu, and while it is held none is cached.
SftpMuInv ==
  /\ \A t \in Threads : InSftp(t) => t \in sftpMu
  /\ \A t \in Threads : pc[t] = "invalidate" => ret[t] \in {"final", "reconnected"}
  /\ \A t \in Threads : pc[t] = "idle" => ~retried[t]
  /\ sftpMu # {} => sftp = NoSftp

\* It reconnected after its connection failed: the client is nil or alive.
Reconnecting(t) ==
  \/ pc[t] \in {"final", "sftpReread"}
  \/ pc[t] \in {"invalidate", "connect", "dial"} /\ ret[t] \in {"final", "sftpReread"}

\* What a call can rely on until it is disturbed, in the connection
ConnSound(t) ==
  /\ pc[t] \in {"connected", "sftpRead", "final", "sftpReread"} => client # Nil
  /\ Reconnecting(t) => client \in alive \union {Nil}
  /\ pc[t] \in {"stamp", "running", "sftpRenew"} => my[t] \in alive

\* and in the SFTP session.
SftpSound(t) ==
  /\ pc[t] \in {"transfer", "copying"} => sftp.id = my[t] /\ sftp # NoSftp
  /\ pc[t] \in {"sftp", "transfer"} /\ retried[t] => sftp = NoSftp \/ sftp.conn \in alive
  /\ pc[t] = "copying" => sftp.conn \in alive

HealInv ==
  \A t \in Threads : ~disturbed[t] /\ ~agent => ConnSound(t) /\ SftpSound(t) /\ pc[t] # "error"

HealsInv == SftpMuInv /\ HealInv

\* The step of t, of one of the five groups.
StepOf(t) == Walking(t) \/ Dropping(t) \/ Discarding(t) \/ DialOk(t) \/ SftpOpened(t)

\* A step of t leaves the locals of the other goroutines alone, and forgets of
\* none that it was disturbed.
LEMMA OthersKeep ==
  ASSUME TypeOK, NEW t \in Threads, StepOf(t), NEW u \in Threads \ {t}
  PROVE  /\ pc'[u] = pc[u] /\ ret'[u] = ret[u] /\ my'[u] = my[u]
         /\ retried'[u] = retried[u]
         /\ disturbed[u] => disturbed'[u]
<1> USE DEF TypeOK
<1>1. pc'[u] = pc[u]
  BY PcTypes, Goes DEF StepOf
<1>2. CASE Call(t) \/ Connect(t) \/ Session(t) \/ Connected(t) \/ KeepAlive(t)
  BY <1>1, <1>2 DEF Call, Connect, Session, Connected, KeepAlive, Take
<1>3. CASE Return(t)
  BY <1>1, <1>3 DEF Return
<1>4. CASE Open(t) \/ OpenRefused(t) \/ Stamp(t) \/ Run(t) \/ Transfer(t) \/ Copy(t)
  BY <1>1, <1>4 DEF Open, OpenRefused, Stamp, Run, Transfer, Copy, Disturb
<1>5. CASE Reconnected(t) \/ Final(t) \/ Sftp(t) \/ SftpRead(t)
  BY <1>1, <1>5 DEF Reconnected, Final, Sftp, SftpRead
<1>6. CASE SftpFailed(t) \/ DialFail(t) \/ DialDenied(t)
  BY <1>1, <1>6 DEF SftpFailed, DialFail, DialDenied, Disturb
<1>7. CASE Dropping(t)
  BY <1>1, <1>7 DEF Dropping, Invalidate, Again, Close, DropSftp, Disturb
<1>8. CASE Discarding(t)
  BY <1>1, <1>8 DEF Discarding, Reset, SftpReset, CloseClient, Discard, Disturb
<1>9. CASE DialOk(t) \/ SftpOpened(t)
  BY <1>1, <1>9 DEF DialOk, SftpOpened
<1>10. CASE Failing(t)
  BY <1>1, <1>10, FailingSteps DEF Disturb
<1> QED
  BY <1>2, <1>3, <1>4, <1>5, <1>6, <1>7, <1>8, <1>9, <1>10 DEF StepOf, Walking

\* Who opens an SFTP session holds sftpMu, so none was cached.
LEMMA OpensIntoNothing ==
  ASSUME SftpMuInv, NEW t \in Threads, SftpOpened(t)
  PROVE  t \in sftpMu /\ sftp = NoSftp
  BY DEF SftpOpened, SftpMuInv, InSftp

-----------------------------------------------------------------------------
(* A step of t keeps what another goroutine relies on, or disturbs it.     *)

LEMMA OthersSound ==
  ASSUME IInv, HealsInv, NEW t \in Threads, StepOf(t), UNCHANGED agent,
         NEW u \in Threads \ {t}, ~disturbed'[u], ~agent
  PROVE  ConnSound(u)' /\ SftpSound(u)' /\ pc'[u] # "error"
<1>1. /\ pc'[u] = pc[u] /\ ret'[u] = ret[u] /\ my'[u] = my[u] /\ retried'[u] = retried[u]
      /\ ~disturbed[u]
  BY OthersKeep DEF IInv
<1>2. ConnSound(u) /\ SftpSound(u) /\ pc[u] # "error" /\ (pc[u] = "idle" => ~retried[u])
  BY <1>1 DEF HealsInv, HealInv, SftpMuInv
<1>3. Reconnecting(u)' <=> Reconnecting(u)
  BY <1>1 DEF Reconnecting
<1>4. CASE Walking(t)
  <2>1. UNCHANGED <<client, alive, sftp>>
    BY <1>4, WalkKeeps DEF IInv, Kept, network
  <2> QED
    BY <1>1, <1>2, <1>3, <2>1 DEF ConnSound, SftpSound
<1>5. CASE Dropping(t)
  <2>1. UNCHANGED <<client, alive>> /\ sftp' = NoSftp
    BY <1>5, DropKeeps DEF IInv, network
  <2>2. pc[u] \notin {"transfer", "copying"}
    BY <1>5 DEF Dropping, Invalidate, Again, Close, DropSftp, Disturb, Others
  <2> QED
    BY <1>1, <1>2, <1>3, <2>1, <2>2 DEF ConnSound, SftpSound
<1>6. CASE Discarding(t)
  <2>1. pc[u] = "idle"
    BY <1>6 DEF Discarding, Reset, SftpReset, CloseClient, Discard, Disturb, Others
  <2> QED
    BY <1>1, <2>1 DEF ConnSound, SftpSound, Reconnecting
<1>7. CASE DialOk(t)
  <2>1. /\ client' \in alive' /\ alive \subseteq alive' /\ sftp' = sftp /\ client' # Nil
    BY <1>7 DEF DialOk, IInv, TypeOK, Nil
  <2> QED
    BY <1>1, <1>2, <1>3, <2>1 DEF ConnSound, SftpSound
<1>8. CASE SftpOpened(t)
  <2>1. UNCHANGED <<client, alive>> /\ sftp'.conn \in alive
    BY <1>8 DEF SftpOpened
  <2>2. pc[u] \notin {"transfer", "copying"}
    BY <1>2, <1>8, OpensIntoNothing DEF SftpSound, HealsInv
  <2> QED
    BY <1>1, <1>2, <1>3, <2>1, <2>2 DEF ConnSound, SftpSound
<1> QED
  BY <1>4, <1>5, <1>6, <1>7, <1>8 DEF StepOf

-----------------------------------------------------------------------------
(* A step of t keeps what t itself relies on.                              *)

LEMMA OwnSound ==
  ASSUME IInv, HealsInv, NEW t \in Threads, StepOf(t), UNCHANGED agent,
         ~disturbed'[t], ~agent
  PROVE  ConnSound(t)' /\ SftpSound(t)' /\ pc'[t] # "error"
<1>a. /\ TypeOK /\ (connected <=> client # Nil) /\ alive \subseteq {client}
      /\ t \in Threads /\ pc \in [Threads -> Pcs] /\ my \in [Threads -> Nat]
      /\ disturbed \in [Threads -> BOOLEAN]
      /\ ret \in [Threads -> {"connected", "reconnected", "final", "sftpRead", "sftpReread"}]
  BY DEF IInv, NoConnectionLeaked, TypeOK
<1>b. ~disturbed[t] => ConnSound(t) /\ SftpSound(t) /\ pc[t] # "error"
  BY DEF HealsInv, HealInv
<1>c. /\ pc[t] = "idle" => ~retried[t]
      /\ pc[t] = "invalidate" => ret[t] \in {"final", "reconnected"}
  BY DEF HealsInv, SftpMuInv
<1> USE DEF ConnSound, SftpSound, Reconnecting
<1>1. CASE Call(t)
  <2>1. /\ pc[t] = "idle" /\ pc'[t] \in {"session", "sftp", "close"} /\ retried' = retried
    BY <1>1, <1>a, CallsAssumption DEF Call, Goto, AllCalls
  <2> QED
    BY <1>c, <2>1
<1>2. CASE Return(t)
  BY <1>2, <1>a DEF Return, Goto
<1>3. CASE Connect(t)
  <2>1. /\ pc[t] = "connect" /\ UNCHANGED <<client, alive, sftp, ret, my, retried, disturbed>>
        /\ pc'[t] = IF connected THEN ret[t] ELSE "dial"
    BY <1>3, <1>a DEF Connect, Goto, shared, network
  <2> QED
    BY <1>a, <1>b, <2>1
<1>4. CASE DialOk(t)
  <2>1. /\ pc[t] = "dial" /\ UNCHANGED <<ret, my, retried, sftp, disturbed>>
        /\ pc'[t] = ret[t] /\ client' \in alive'
    BY <1>4, <1>a DEF DialOk, Goto
  <2>2. client' # Nil
    BY <1>4, <1>a DEF DialOk, TypeOK, Nil
  <2> QED
    BY <1>a, <2>1, <2>2
<1>5. CASE DialFail(t)
  BY <1>5 DEF DialFail, Disturb
<1>6. CASE DialDenied(t)
  BY <1>6 DEF DialDenied
<1>7. CASE Session(t)
  <2>1. /\ UNCHANGED <<client, alive, sftp, retried, disturbed>>
        /\ \/ pc'[t] \in {"open", "keepalive"}
           \/ pc'[t] = "connect" /\ ret'[t] = "connected"
    BY <1>7, <1>a DEF Session, Take, Goto, shared, network
  <2> QED
    BY <2>1
<1>8. CASE Connected(t)
  <2>1. client # Nil
    BY <1>8, <1>b DEF Connected
  <2>2. pc'[t] \in {"open", "keepalive"}
    BY <1>8, <1>a, <2>1 DEF Connected, Take, Goto
  <2> QED
    BY <2>2
<1>9. CASE KeepAlive(t) \/ OpenRefused(t) \/ Reconnected(t)
  <2>1. pc'[t] \in {"open", "resetIdle", "reset"}
    BY <1>9, <1>a DEF KeepAlive, OpenRefused, Reconnected, Goto
  <2> QED
    BY <2>1
<1>10. CASE Open(t)
  <2>1. /\ pc'[t] \in {"panic", "stamp", "reset"} /\ (pc'[t] = "stamp" => my[t] \in alive)
        /\ UNCHANGED <<alive, my>>
    BY <1>10, <1>a DEF Open, Goto, network
  <2> QED
    BY <2>1
<1>11. CASE Stamp(t)
  <2>1. pc[t] = "stamp" /\ pc'[t] = "running" /\ UNCHANGED <<alive, my, disturbed>>
    BY <1>11, <1>a DEF Stamp, Goto, network
  <2> QED
    BY <1>b, <2>1
<1>12. CASE Final(t)
  <2>1. client \in alive
    BY <1>12, <1>b DEF Final
  <2>2. pc'[t] = "running" /\ my'[t] \in alive'
    BY <1>12, <1>a, <2>1 DEF Final, Goto, network
  <2> QED
    BY <2>2
<1>13. CASE Run(t) \/ Copy(t)
  <2>1. pc'[t] = "done"
    BY <1>13, <1>a, <1>b DEF Run, Copy, Goto, SftpAlive
  <2> QED
    BY <2>1
<1>14. CASE Reset(t)
  <2>1. pc'[t] = "invalidate" /\ client' = Nil
    BY <1>14, <1>a DEF Reset, Discard, Goto
  <2> QED
    BY <2>1
<1>15. CASE SftpReset(t)
  <2>1. pc'[t] = "connect" /\ client' = Nil
    BY <1>15, <1>a DEF SftpReset, Discard, Goto
  <2> QED
    BY <2>1
<1>16. CASE CloseClient(t)
  <2>1. pc'[t] \in {"panic", "done"}
    BY <1>16, <1>a DEF CloseClient, Goto
  <2> QED
    BY <2>1
<1>17. CASE Invalidate(t)
  <2>1. /\ pc[t] = "invalidate" /\ pc'[t] = "connect"
        /\ UNCHANGED <<client, alive, ret>> /\ (disturbed[t] => disturbed'[t])
    BY <1>17, <1>a DEF Invalidate, DropSftp, Disturb, Goto, network
  <2> QED
    BY <1>b, <2>1
<1>18. CASE Again(t)
  <2>1. pc'[t] = "sftp" /\ sftp' = NoSftp
    BY <1>18, <1>a DEF Again, DropSftp, Goto
  <2> QED
    BY <2>1
<1>19. CASE Close(t)
  <2>1. pc'[t] = "closing"
    BY <1>19, <1>a DEF Close, Goto
  <2> QED
    BY <2>1
<1>20. CASE Sftp(t)
  <2>1. pc[t] = "sftp" /\ UNCHANGED <<client, alive, sftp, retried, disturbed>>
    BY <1>20 DEF Sftp, network
  <2>2. CASE sftp # NoSftp
    <3>1. my'[t] = sftp.id /\ pc'[t] = "transfer"
      BY <1>20, <1>a, <2>2 DEF Sftp, Goto
    <3> QED
      BY <1>b, <2>1, <2>2, <3>1
  <2>3. CASE sftp = NoSftp
    <3>1. pc'[t] = "connect" /\ ret'[t] = "sftpRead"
      BY <1>20, <1>a, <2>3 DEF Sftp, Goto
    <3> QED
      BY <3>1
  <2> QED
    BY <2>2, <2>3
<1>21. CASE SftpRead(t)
  <2>1. pc[t] \in {"sftpRead", "sftpReread"} /\ UNCHANGED <<client, alive, disturbed>>
    BY <1>21 DEF SftpRead, network
  <2>2. client # Nil
    BY <1>b, <2>1
  <2>3. my'[t] = client /\ pc'[t] = IF pc[t] = "sftpRead" THEN "sftpNew" ELSE "sftpRenew"
    BY <1>21, <1>a, <2>2 DEF SftpRead, Goto
  <2> QED
    BY <1>b, <2>1, <2>2, <2>3
<1>22. CASE SftpOpened(t)
  <2>1. /\ pc'[t] = "transfer" /\ sftp' = [id |-> opened + 1, conn |-> my[t]]
        /\ my'[t] = opened + 1 /\ my[t] \in alive /\ alive' = alive /\ opened \in Nat
    BY <1>22, <1>a DEF SftpOpened, Goto, TypeOK
  <2> QED
    BY <2>1 DEF NoSftp, Nil
<1>23. CASE SftpFailed(t)
  <2>1. my[t] \notin alive /\ disturbed' = disturbed
    BY <1>23 DEF SftpFailed, Disturb
  <2>2. pc[t] # "sftpRenew"
    BY <1>b, <2>1
  <2>3. pc'[t] = "sftpReset"
    BY <1>23, <1>a, <2>2 DEF SftpFailed, Goto
  <2> QED
    BY <2>3
<1>24. CASE Transfer(t)
  <2>1. /\ pc[t] = "transfer" /\ UNCHANGED <<alive, sftp, my, disturbed>>
        /\ pc'[t] = IF SftpAlive(my[t]) THEN "copying" ELSE IF retried[t] THEN "error" ELSE "again"
    BY <1>24, <1>a DEF Transfer, Goto, shared, network
  <2>2. retried[t] => SftpAlive(my[t])
    BY <1>b, <2>1 DEF SftpAlive
  <2>3. pc'[t] \in {"copying", "again"} /\ (pc'[t] = "copying" => SftpAlive(my[t]))
    BY <2>1, <2>2
  <2> QED
    BY <1>b, <2>1, <2>3 DEF SftpAlive
<1>25. CASE Failing(t)
  BY <1>25, <1>a, FailingSteps DEF Disturb
<1> QED
  BY <1>1, <1>2, <1>3, <1>4, <1>5, <1>6, <1>7, <1>8, <1>9, <1>10, <1>11, <1>12, <1>13, <1>14, <1>15,
     <1>16, <1>17, <1>18, <1>19, <1>20, <1>21, <1>22, <1>23, <1>24, <1>25
  DEF StepOf, Walking, Dropping, Discarding

-----------------------------------------------------------------------------
(* sftpMu                                                                  *)

\* What the step of t does to its own place in getSFTPClient.
LEMMA OwnSftpMu ==
  ASSUME TypeOK, SftpMuInv, NEW t \in Threads, StepOf(t)
  PROVE  /\ InSftp(t)' => t \in sftpMu'
         /\ pc'[t] = "invalidate" => ret'[t] \in {"final", "reconnected"}
         /\ pc'[t] = "idle" => ~retried'[t]
<1>a. /\ t \in Threads /\ pc \in [Threads -> Pcs] /\ retried \in [Threads -> BOOLEAN]
      /\ ret \in [Threads -> {"connected", "reconnected", "final", "sftpRead", "sftpReread"}]
  BY DEF TypeOK
<1>b. /\ InSftp(t) => t \in sftpMu
      /\ pc[t] = "invalidate" => ret[t] \in {"final", "reconnected"}
  BY DEF SftpMuInv
<1> USE DEF InSftp, Goto
<1>1. CASE Call(t)
  <2>1. pc'[t] \in {"session", "sftp", "close"}
    BY <1>1, <1>a, CallsAssumption DEF Call, AllCalls
  <2> QED
    BY <2>1
<1>2. CASE Return(t)
  BY <1>2, <1>a DEF Return
<1>3. CASE Connect(t)
  BY <1>3, <1>a, <1>b DEF Connect, shared
<1>4. CASE DialOk(t)
  BY <1>4, <1>a, <1>b DEF DialOk
<1>5. CASE DialFail(t) \/ DialDenied(t)
  BY <1>5, <1>a DEF DialFail, DialDenied, Fail
<1>6. CASE Session(t) \/ Connected(t) \/ KeepAlive(t) \/ Open(t) \/ OpenRefused(t)
  BY <1>6, <1>a DEF Session, Connected, KeepAlive, Open, OpenRefused, Take
<1>7. CASE Stamp(t) \/ Reconnected(t) \/ Final(t) \/ Run(t) \/ Transfer(t) \/ Copy(t)
  BY <1>7, <1>a DEF Stamp, Reconnected, Final, Run, Transfer, Copy
<1>8. CASE Reset(t) \/ Invalidate(t) \/ Again(t) \/ Close(t) \/ CloseClient(t)
  BY <1>8, <1>a, <1>b DEF Reset, Invalidate, Again, Close, CloseClient
<1>9. CASE Sftp(t)
  BY <1>9, <1>a DEF Sftp
<1>10. CASE SftpRead(t) \/ SftpOpened(t) \/ SftpFailed(t) \/ SftpReset(t)
  BY <1>10, <1>a, <1>b DEF SftpRead, SftpOpened, SftpFailed, SftpReset, Fail
<1>11. CASE Failing(t)
  BY <1>11, <1>a, FailingSteps
<1> QED
  BY <1>1, <1>2, <1>3, <1>4, <1>5, <1>6, <1>7, <1>8, <1>9, <1>10, <1>11
  DEF StepOf, Walking, Dropping, Discarding

LEMMA SftpMuKept ==
  ASSUME TypeOK, SftpMuInv, NEW t \in Threads, StepOf(t)
  PROVE  SftpMuInv'
<1>1. /\ InSftp(t)' => t \in sftpMu'
      /\ pc'[t] = "invalidate" => ret'[t] \in {"final", "reconnected"}
      /\ pc'[t] = "idle" => ~retried'[t]
  BY OwnSftpMu
<1>2. \A u \in Threads \ {t} : u \in sftpMu => u \in sftpMu'
  BY WalkKeeps, DropKeeps, DiscardKeeps DEF StepOf, LockKept, DialOk, SftpOpened
<1>3. \A u \in Threads \ {t} :
        /\ InSftp(u)' <=> InSftp(u)
        /\ pc'[u] = pc[u] /\ ret'[u] = ret[u] /\ retried'[u] = retried[u]
  BY OthersKeep DEF InSftp
<1>4. sftpMu' # {} => sftp' = NoSftp
  <2>1. CASE Walking(t)
    <3>1. sftp' = sftp /\ LockKept(t)
      BY <2>1, WalkKeeps DEF Kept
    <3>2. CASE Sftp(t)
      BY <3>1, <3>2 DEF Sftp, SftpMuFree, SftpMuInv
    <3>3. CASE ~Sftp(t)
      <4>1. sftpMu' \subseteq sftpMu
        BY <2>1, <3>3, FailingSteps DEF TypeOK, Walking, Call, Return, Connect, Session, Connected, KeepAlive, Open, OpenRefused,
           Stamp, Reconnected, Final, Run, SftpRead, SftpFailed, Transfer, Copy, DialFail,
           DialDenied, Fail, shared
      <4> QED
        BY <3>1, <4>1 DEF SftpMuInv
    <3> QED
      BY <3>2, <3>3
  <2>2. CASE Dropping(t)
    BY <2>2, DropKeeps
  <2>3. CASE Discarding(t) \/ DialOk(t)
    BY <2>3, DiscardKeeps DEF DialOk, SftpMuInv
  <2>4. CASE SftpOpened(t)
    <3>1. t \in sftpMu /\ sftpMu' = sftpMu \ {t}
      BY <2>4, OpensIntoNothing DEF SftpOpened
    <3>2. \A u, v \in sftpMu : u = v
      BY DEF TypeOK
    <3> QED
      BY <3>1, <3>2
  <2> QED
    BY <2>1, <2>2, <2>3, <2>4 DEF StepOf
<1> QED
  BY <1>1, <1>2, <1>3, <1>4 DEF SftpMuInv

LEMMA HealsStep ==
  ASSUME IInv, HealsInv, [Next]_vars
  PROVE  HealsInv'
<1>1. ASSUME NEW t \in Threads, StepOf(t), UNCHANGED agent
      PROVE  HealsInv'
  <2>1. SftpMuInv'
    BY <1>1, SftpMuKept DEF IInv, HealsInv
  <2>2. ASSUME NEW u \in Threads, ~disturbed'[u], ~agent
        PROVE  ConnSound(u)' /\ SftpSound(u)' /\ pc'[u] # "error"
    BY <1>1, <2>2, OwnSound, OthersSound
  <2> QED
    BY <1>1, <2>1, <2>2 DEF HealsInv, HealInv
<1>2. ASSUME NEW c \in Conns, Lost(c), UNCHANGED agent
      PROVE  HealsInv'
  <2>1. UNCHANGED <<sftp, sftpMu, pc, ret, my, retried>>
    BY <1>2 DEF Lost, shared, calls
  <2>2. SftpMuInv'
    BY <2>1 DEF HealsInv, SftpMuInv, InSftp
  <2>3. \A u \in Threads : ~disturbed'[u] => pc[u] = "idle"
    BY <1>2 DEF Lost, Disturb
  <2>4. \A u \in Threads : pc[u] = "idle" => ~retried[u]
    BY DEF HealsInv, SftpMuInv
  <2>5. HealInv'
    BY <2>1, <2>3, <2>4 DEF HealInv, ConnSound, SftpSound, Reconnecting
  <2> QED
    BY <2>2, <2>5 DEF HealsInv
<1>3. CASE UNCHANGED vars
  BY <1>3 DEF vars, shared, calls, network, HealsInv, SftpMuInv, InSftp, HealInv, ConnSound,
     SftpSound, Reconnecting
<1> QED
  BY <1>1, <1>2, <1>3, NextSteps DEF StepOf

LEMMA HealsAlways == Spec => []HealsInv
<1>1. Init => HealsInv
  <2> SUFFICES ASSUME Init PROVE HealsInv
    OBVIOUS
  <2>1. \A t \in Threads : pc[t] = "idle" /\ ~retried[t]
    BY DEF Init
  <2> QED
    BY <2>1 DEF Init, HealsInv, SftpMuInv, InSftp, HealInv, ConnSound, SftpSound, Reconnecting
<1>2. IInv /\ HealsInv /\ [Next]_vars => HealsInv'
  BY HealsStep
<1> QED
  BY <1>1, <1>2, InvHolds, PTL DEF Spec

\* newSession and the transfers heal by themselves: whatever goroutines share the
\* client, and whatever went wrong before, a call ends in an error only for what
\* happens during it: the network or the host fails it, a session or a file is
\* refused, the command takes too long, or another goroutine drops what it uses,
\* as one whose own file was refused does.  A client with an agent is excepted.
THEOREM CallsHeal == Spec => []Heals
<1>1. TypeOK /\ HealsInv => Heals
  BY DEF HealsInv, HealInv, Heals
<1>2. IInv => TypeOK
  BY DEF IInv
<1> QED
  BY <1>1, <1>2, InvHolds, HealsAlways, PTL
-----------------------------------------------------------------------------
(* Waiting                                                                  *)


\* Each module is at a place of its own, and has an answer when it is over.
PlaceInv ==
  /\ ask \in Asks
  /\ at \in {"wait_for", "looking"} => ask.module = "wait_for"
  /\ at \in {"wait_for_connection", "delay", "connecting"} => ask.module = "wait_for_connection"
  /\ at \in {"reboot", "telling", "returning", "comparing"} => ask.module = "reboot"
  /\ at \in {"async", "launching", "asking", "probing", "requery", "cleaned"} => ask.module = "async"
  /\ at \in {"pause", "paused"} => ask.module = "pause"
  /\ answer = "none" <=> at \notin {"over", "cleaned"}

NumberType ==
  /\ clock \in Nat /\ deadline \in Nat /\ boot \in Nat \ {0} /\ previous \in Nat

\* While wait_for goes on it has not seen what it waits for; a timeout comes after
\* the deadline, and a look of wait_for_connection before it was in vain.
LookInv ==
  /\ at = "looking" => looked # "yes"
  /\ at \in {"start", "wait_for"} => looked = "none"
  /\ TimeoutIsReal

\* The boot id that was read is one of the host's, and 0 only when it was not read.
BootInv ==
  /\ previous <= boot
  /\ at \in {"telling", "returning", "comparing"} /\ ~unread => previous # 0
  /\ at = "comparing" => previous # 0
  /\ SuccessIsReal

\* The script has written the status before and after it forks the job; the job
\* writes its end once, and only the script can write over it.
ScriptInv ==
  /\ at \in {"start", "async"} => launcher = "none"
  /\ launcher \in {"none", "begin", "opened", "written"} => job = "none"
  /\ launcher \in {"forked", "reopened", "over"} => job # "none"
  /\ launcher \in {"opened", "written", "forked", "reopened", "over"} => file # "absent" \/ at = "cleaned"
  /\ file = "finished" => job = "over"
  /\ job = "over" => file \in {"finished", "garbled"} \/ late \/ at = "cleaned"
  /\ job \in {"none", "running", "exited", "writing", "over", "killed"}

\* async_status asks for a job whose script is through; it asks once more only when
\* the process was gone, or a connection broke.
AskInv ==
  /\ at \in {"asking", "probing", "requery"} => launcher = "over"
  /\ at = "requery" => ~Alive \/ broken
  /\ JobVerdictIsReal

WaitsInv == PlaceInv /\ NumberType /\ LookInv /\ BootInv /\ ScriptInv /\ AskInv

LEMMA AskShape ==
  ASSUME ask \in Asks
  PROVE  /\ ask.module \in {"wait_for", "wait_for_connection", "reboot", "async", "pause"}
         /\ ask.timeout \in Nat /\ ask.delay \in Nat
BY AsksAssumption DEF Ask

World == Launcher \/ Job \/ GoDown \/ ComeUp \/ Turn \/ Tick

\* What goes on by itself leaves the module alone.
LEMMA WorldApart ==
  ASSUME World
  PROVE  UNCHANGED <<ask, ctl, looked, broken, unread>> /\ (late => late')
<1> USE DEF hist
<1>1. CASE Launcher
  <2>1. ASSUME NEW from, NEW to, NEW text, Script(from, to, text)
        PROVE  UNCHANGED <<ask, ctl, looked, broken, unread>> /\ (late => late')
    <3>1. UNCHANGED <<ask, ctl, looked, broken, unread>>
      BY <2>1 DEF Script
    <3>2. late' = (late \/ (from \in {"forked", "reopened"} /\ job = "over"))
      BY <2>1 DEF Script
    <3>3. late => late'
      BY <3>2
    <3> QED BY <3>1, <3>3
  <2>2. CASE Fork
    BY <2>2 DEF Fork
  <2> QED BY <1>1, <2>1, <2>2 DEF Launcher
<1>2. CASE Job
  BY <1>2 DEF Job, JobStep
<1>3. CASE GoDown \/ ComeUp \/ Turn \/ Tick
  BY <1>3 DEF GoDown, ComeUp, Turn, Tick
<1> QED BY <1>1, <1>2, <1>3 DEF World

LEMMA PlaceStep ==
  ASSUME PlaceInv, [WaitNext]_waitVars
  PROVE  PlaceInv'
<1>0. ask.module \in {"wait_for", "wait_for_connection", "reboot", "async", "pause"}
  BY AskShape DEF PlaceInv
<1> USE <1>0 DEF PlaceInv, Enter, Returns
<1>1. CASE UNCHANGED <<ask, ctl>>
  BY <1>1 DEF ctl
<1>2. CASE World \/ Stop \/ UNCHANGED waitVars
  BY <1>1, <1>2, WorldApart DEF Stop, waitVars
<1>3. CASE Start
  BY <1>3 DEF Start
<1>4. CASE WaitFor \/ Look \/ TimeOut \/ Broken \/ Cut
  BY <1>4 DEF WaitFor, Look, TimeOut, Broken, Cut
<1>5. CASE WaitForConnection \/ Delayed \/ Connecting
  BY <1>5 DEF WaitForConnection, Delayed, Connecting
<1>6. CASE ReadBoot \/ Tell \/ GiveUp
  BY <1>6 DEF ReadBoot, Tell, GiveUp
<1>7. CASE Returning
  BY <1>7 DEF Returning
<1>8. CASE Compare
  BY <1>8 DEF Compare
<1>9. CASE Pause \/ Proceed
  BY <1>9 DEF Pause, Proceed
<1>10. CASE Launch \/ CannotLaunch \/ Launched \/ LaunchBroken
  BY <1>10 DEF Launch, CannotLaunch, Launched, LaunchBroken
<1>11. CASE Query
  BY <1>11 DEF Query
<1>12. CASE Probe \/ Requery
  BY <1>12 DEF Probe, Requery, Gone
<1>13. CASE CleanUp
  BY <1>13 DEF CleanUp
<1> QED BY <1>2, <1>3, <1>4, <1>5, <1>6, <1>7, <1>8, <1>9, <1>10, <1>11, <1>12, <1>13 DEF WaitNext, Module, World

LEMMA NumberStep ==
  ASSUME PlaceInv, NumberType, [WaitNext]_waitVars
  PROVE  NumberType' /\ boot' >= boot /\ clock' >= clock
<1>0. ask.timeout \in Nat
  BY AskShape DEF PlaceInv
<1> USE <1>0 DEF NumberType
<1>1. CASE UNCHANGED <<clock, deadline, boot, previous>>
  BY <1>1
<1>2. CASE Launcher \/ Job
  BY <1>1, <1>2 DEF Launcher, Script, Fork, Job, JobStep, ctl, time, host
<1>3. CASE GoDown \/ ComeUp \/ Turn \/ Tick
  BY <1>3 DEF GoDown, ComeUp, Turn, Tick, ctl, time, host
<1>4. CASE Start \/ Look \/ TimeOut \/ Broken \/ Cut \/ WaitForConnection \/ Connecting
  BY <1>1, <1>4 DEF Start, Look, TimeOut, Broken, Cut, WaitForConnection, Connecting, time, host
<1>5. CASE WaitFor \/ Delayed
  <2>1. UNCHANGED <<clock, boot, previous>> /\ deadline' = clock + ask.timeout
    BY <1>5 DEF WaitFor, Delayed, time, host
  <2> QED BY <2>1
<1>6. CASE ReadBoot
  BY <1>6 DEF ReadBoot, time, host
<1>7. CASE Tell \/ GiveUp \/ Returning \/ Compare \/ Pause \/ Proceed
  BY <1>1, <1>7 DEF Tell, GiveUp, Returning, Compare, Pause, Proceed, time, host
<1>8. CASE Launch \/ CannotLaunch \/ Launched \/ LaunchBroken \/ Query \/ Probe \/ Requery \/ CleanUp
  BY <1>1, <1>8 DEF Launch, CannotLaunch, Launched, LaunchBroken, Query, Probe, Requery, CleanUp, time, host
<1>9. CASE Stop \/ UNCHANGED waitVars
  BY <1>1, <1>9 DEF Stop, waitVars, ctl, time, host
<1> QED BY <1>2, <1>3, <1>4, <1>5, <1>6, <1>7, <1>8, <1>9 DEF WaitNext, Module

LEMMA StillPast ==
  ASSUME NEW now \in Nat, NEW later \in Nat, NEW end \in Nat, later >= now, now > end
  PROVE  later > end
OBVIOUS

LEMMA LookStep ==
  ASSUME PlaceInv, NumberType, LookInv, [WaitNext]_waitVars
  PROVE  LookInv'
<1>0. /\ ask.module \in {"wait_for", "wait_for_connection", "reboot", "async", "pause"}
      /\ clock \in Nat /\ deadline \in Nat /\ clock' \in Nat /\ clock' >= clock
  BY AskShape, NumberStep DEF PlaceInv, NumberType
<1> USE <1>0 DEF LookInv, TimeoutIsReal, PlaceInv, Enter, Returns, Past
<1>1. CASE UNCHANGED <<ask, ctl, looked>>
  <2>1. UNCHANGED <<ask, at, hasClient, deadline, answer, looked>>
    BY <1>1 DEF ctl
  <2>6. deadline' = deadline
    BY <2>1
  <2>2. clock > deadline => clock' > deadline'
    BY <1>0, <2>6, StillPast
  <2>3. TimeoutIsReal
    BY DEF LookInv
  <2>4. /\ answer' = answer /\ ask' = ask /\ looked' = looked
        /\ hasClient' <=> hasClient
    BY <2>1
  <2>5. TimeoutIsReal'
    BY <2>2, <2>3, <2>4 DEF TimeoutIsReal
  <2> QED BY <2>1, <2>5
<1>2. CASE World \/ Stop \/ UNCHANGED waitVars
  BY <1>1, <1>2, WorldApart DEF Stop, waitVars, hist
<1>3. CASE Start \/ WaitFor
  BY <1>3 DEF Start, WaitFor, hist
<1>4. CASE Look
  BY <1>4 DEF Look
<1>5. CASE TimeOut
  BY <1>5 DEF TimeOut, hist, time
<1>6. CASE Broken \/ Cut
  BY <1>6 DEF Broken, Cut, hist
<1>7. CASE WaitForConnection \/ Delayed \/ Tell \/ Pause \/ Proceed
  BY <1>7 DEF WaitForConnection, Delayed, Tell, Pause, Proceed, hist
<1>8. CASE Connecting
  <2>1. PICK how \in {"done", "cut", "refused"} :
          /\ looked' = IF how = "done" THEN "yes" ELSE "no"
          /\ IF hasClient /\ how = "done" THEN Returns("ok") /\ UNCHANGED wake
             ELSE IF Past THEN Returns("timed out") /\ UNCHANGED wake
             ELSE Sleep(1) /\ UNCHANGED <<at, answer>>
    BY <1>8 DEF Connecting
  <2>2. UNCHANGED <<ask, hasClient, deadline, clock>> /\ at = "connecting"
    BY <1>8 DEF Connecting, time
  <2> QED BY <2>1, <2>2
<1>9. CASE ReadBoot \/ Returning \/ Compare
  BY <1>9 DEF ReadBoot, Returning, Compare, hist
<1>10. CASE GiveUp
  BY <1>10 DEF GiveUp, hist, time
<1>11. CASE Launch \/ CannotLaunch \/ Launched \/ LaunchBroken
  BY <1>11 DEF Launch, CannotLaunch, Launched, LaunchBroken, hist
<1>12. CASE Query \/ Probe \/ Requery
  BY <1>12 DEF Query, Probe, Requery, Gone, hist
<1>13. CASE CleanUp
  BY <1>13 DEF CleanUp, hist, time
<1> QED BY <1>2, <1>3, <1>4, <1>5, <1>6, <1>7, <1>8, <1>9, <1>10, <1>11, <1>12, <1>13 DEF WaitNext, Module, World

LEMMA BootStep ==
  ASSUME PlaceInv, NumberType, BootInv, [WaitNext]_waitVars
  PROVE  BootInv'
<1>0. /\ ask.module \in {"wait_for", "wait_for_connection", "reboot", "async", "pause"}
      /\ boot \in Nat \ {0} /\ previous \in Nat /\ boot' \in Nat /\ boot' >= boot
  BY AskShape, NumberStep DEF PlaceInv, NumberType
<1> USE <1>0 DEF BootInv, SuccessIsReal, PlaceInv, Enter, Returns
<1>1. CASE UNCHANGED <<ask, ctl, looked, broken, unread>>
  BY <1>1 DEF ctl
<1>2. CASE World \/ Stop \/ UNCHANGED waitVars
  BY <1>1, <1>2, WorldApart DEF Stop, waitVars, hist
<1>3. CASE Start
  BY <1>3 DEF Start, hist
<1>14. CASE WaitFor \/ TimeOut \/ Cut
  BY <1>14 DEF WaitFor, TimeOut, Cut, hist, host
<1>4. CASE Look
  BY <1>4 DEF Look
<1>5. CASE Broken
  BY <1>5 DEF Broken
<1>6. CASE WaitForConnection \/ Delayed \/ Tell \/ GiveUp
  BY <1>6 DEF WaitForConnection, Delayed, Tell, GiveUp, hist, host
<1>15. CASE Pause \/ Proceed
  BY <1>15 DEF Pause, Proceed, hist, host
<1>7. CASE Connecting
  <2>1. /\ at = "connecting" /\ UNCHANGED <<ask, previous, boot>>
        /\ \/ UNCHANGED <<at, answer>>
           \/ at' = "over" /\ answer' = "timed out"
           \/ at' = "over" /\ answer' = "ok" /\ looked' = "yes"
    BY <1>7 DEF Connecting, host
  <2> QED BY <2>1
<1>8. CASE ReadBoot
  <2>1. at = "reboot" /\ at' = "telling" /\ UNCHANGED <<ask, answer, boot>>
    BY <1>8 DEF ReadBoot, host
  <2>2. (previous' = boot /\ unread' = FALSE) \/ (previous' = 0 /\ unread' = TRUE) \/ (previous' = previous /\ unread' = TRUE)
    BY <1>8 DEF ReadBoot
  <2> QED BY <2>1, <2>2
<1>9. CASE Returning
  <2>1. at = "returning" /\ UNCHANGED <<ask, previous, boot, unread>>
    BY <1>9 DEF Returning, host
  <2>2. \/ at' = "returning" /\ UNCHANGED answer
        \/ at' = "over" /\ answer' = "ok" /\ previous = 0
        \/ at' = "comparing" /\ UNCHANGED answer /\ previous # 0
    BY <1>9 DEF Returning, Passes
  <2> QED BY <2>1, <2>2
<1>10. CASE Compare
  <2>1. PICK how \in {"done", "cut", "refused"} :
          /\ IF how = "done" /\ boot = previous
             THEN Sleep(1) /\ Enter("returning") /\ UNCHANGED answer
             ELSE Returns("ok") /\ UNCHANGED wake
          /\ unread' = (unread \/ how # "done")
    BY <1>10 DEF Compare
  <2>2. at = "comparing" /\ UNCHANGED <<ask, previous, boot>>
    BY <1>10 DEF Compare, host
  <2>3. unread => unread'
    BY <2>1
  <2>4. how # "done" => unread'
    BY <2>1
  <2>5. \/ at' = "returning" /\ UNCHANGED answer
        \/ at' = "over" /\ answer' = "ok" /\ (how = "done" => boot # previous)
    BY <2>1
  <2> QED BY <2>2, <2>3, <2>4, <2>5
<1>11. CASE Launch \/ CannotLaunch \/ Launched \/ LaunchBroken
  BY <1>11 DEF Launch, CannotLaunch, Launched, LaunchBroken, hist
<1>12. CASE Query \/ Probe \/ Requery
  <2>1. at \in {"asking", "probing", "requery"} /\ UNCHANGED <<ask, previous, boot>>
    BY <1>12 DEF Query, Probe, Requery, host
  <2>2. at' \in {"asking", "probing", "requery", "over"} /\ answer' # "ok"
    BY <1>0, <2>1, <1>12 DEF Query, Probe, Requery, Gone
  <2> QED BY <2>1, <2>2
<1>13. CASE CleanUp
  BY <1>13 DEF CleanUp, hist
<1> QED BY <1>2, <1>3, <1>4, <1>5, <1>6, <1>7, <1>8, <1>9, <1>10, <1>11, <1>12, <1>13, <1>14, <1>15 DEF WaitNext, Module, World

LEMMA ScriptStep ==
  ASSUME PlaceInv, ScriptInv, [WaitNext]_waitVars
  PROVE  ScriptInv'
<1>0. ask.module \in {"wait_for", "wait_for_connection", "reboot", "async", "pause"}
  BY AskShape DEF PlaceInv
<1> USE <1>0 DEF ScriptInv
<1>1. CASE /\ UNCHANGED <<jobs, late>>
           /\ at = "cleaned" <=> at' = "cleaned"
           /\ at' \in {"start", "async"} => at \in {"start", "async"}
  <2>1. launcher' = launcher /\ job' = job /\ file' = file
    BY <1>1 DEF jobs
  <2>2. late => late'
    BY <1>1
  <2>3. at = "cleaned" => at' = "cleaned"
    BY <1>1
  <2>4. at' \in {"start", "async"} => launcher' = "none"
    BY <1>1, <2>1
  <2> QED BY <2>1, <2>2, <2>3, <2>4
<1>2. CASE Start \/ WaitFor \/ Look \/ TimeOut \/ Broken \/ Cut
  <2>1. UNCHANGED <<jobs, late>>
    BY <1>2 DEF Start, WaitFor, Look, TimeOut, Broken, Cut, hist
  <2>2. /\ at # "cleaned" /\ at' # "cleaned"
        /\ at' \in {"start", "async"} => at \in {"start", "async"}
    BY <1>2 DEF Start, WaitFor, Look, TimeOut, Broken, Cut, Enter, Returns
  <2> QED BY <1>1, <2>1, <2>2
<1>3. CASE WaitForConnection \/ Delayed \/ Connecting \/ Pause \/ Proceed
  <2>1. UNCHANGED <<jobs, late>>
    BY <1>3 DEF WaitForConnection, Delayed, Connecting, Pause, Proceed, hist
  <2>2. /\ at # "cleaned" /\ at' # "cleaned"
        /\ at' \in {"start", "async"} => at \in {"start", "async"}
    BY <1>3 DEF WaitForConnection, Delayed, Connecting, Pause, Proceed, Enter, Returns
  <2> QED BY <1>1, <2>1, <2>2
<1>4. CASE ReadBoot \/ Tell \/ Returning \/ Compare \/ GiveUp
  <2>1. UNCHANGED <<jobs, late>>
    BY <1>4 DEF ReadBoot, Tell, Returning, Compare, GiveUp, hist
  <2>2. /\ at # "cleaned" /\ at' # "cleaned"
        /\ at' \in {"start", "async"} => at \in {"start", "async"}
    BY <1>4 DEF ReadBoot, Tell, Returning, Compare, GiveUp, Enter, Returns
  <2> QED BY <1>1, <2>1, <2>2
<1>5. CASE CannotLaunch \/ Launched \/ LaunchBroken \/ Query \/ Probe \/ Requery
  <2>1. UNCHANGED <<jobs, late>>
    BY <1>5 DEF CannotLaunch, Launched, LaunchBroken, Query, Probe, Requery, hist
  <2>2. /\ at # "cleaned" /\ at' # "cleaned"
        /\ at' \in {"start", "async"} => at \in {"start", "async"}
    BY <1>5 DEF CannotLaunch, Launched, LaunchBroken, Query, Probe, Requery, Enter, Returns, Gone
  <2> QED BY <1>1, <2>1, <2>2
<1>6. CASE ComeUp \/ Turn \/ Tick
  BY <1>1, <1>6 DEF ComeUp, Turn, Tick, ctl, hist
<1>7. CASE Stop \/ UNCHANGED waitVars
  BY <1>1, <1>7 DEF Stop, waitVars, ctl, hist
<1>8. CASE Launch
  BY <1>8 DEF Launch, Enter, hist
<1>9. CASE Launcher
  <2>1. ASSUME NEW from, NEW to, NEW text, Script(from, to, text),
               /\ text # "absent" /\ text # "finished"
               /\ \/ from \in {"begin", "opened"} /\ to \in {"opened", "written"}
                  \/ from \in {"forked", "reopened"} /\ to \in {"reopened", "over"}
        PROVE  ScriptInv'
    <3>1. /\ launcher = from /\ launcher' = to /\ file' = text /\ job' = job
      BY <2>1 DEF Script
    <3>2. at' = at
      BY <2>1 DEF Script, ctl
    <3>3. late => late'
      BY <1>9, WorldApart DEF World
    <3>4. from \in {"forked", "reopened"} /\ job = "over" => late'
      BY <2>1 DEF Script
    <3>5. from \in {"begin", "opened"} => job = "none"
      BY <3>1
    <3>6. from \in {"forked", "reopened"} => job # "none"
      BY <3>1
    <3>7. job' = "over" => late'
      BY <3>1, <3>4, <3>5, <2>1
    <3> QED BY <2>1, <3>1, <3>2, <3>5, <3>6, <3>7
  <2>2. CASE Fork
    <3>1. launcher = "written" /\ launcher' = "forked" /\ job' = "running" /\ file' = file
      BY <2>2 DEF Fork
    <3>2. at' = at
      BY <2>2 DEF Fork, ctl
    <3> QED BY <3>1, <3>2
  <2> QED BY <1>9, <2>1, <2>2 DEF Launcher
<1>10. CASE Job
  <2>1. ASSUME NEW from, NEW to, NEW text, JobStep(from, to, text),
               from \in {"running", "exited", "writing"}, to \in {"exited", "writing", "over"},
               text # "absent" \/ text = file,
               to = "over" => text \in {"finished", "garbled"},
               text = "finished" => to = "over" \/ text = file
        PROVE  ScriptInv'
    <3>1. job = from /\ job' = to /\ file' = text /\ launcher' = launcher
      BY <2>1 DEF JobStep
    <3>2. at' = at
      BY <2>1 DEF JobStep, ctl
    <3> QED BY <2>1, <3>1, <3>2
  <2>2. CASE JobStep("running", "exited", file)
    BY <2>1, <2>2
  <2>3. CASE JobStep("exited", "writing", "empty")
    BY <2>1, <2>3
  <2>4. CASE JobStep("writing", "over", IF file = "empty" THEN "finished" ELSE "garbled")
    <3> DEFINE text == IF file = "empty" THEN "finished" ELSE "garbled"
    <3>1. text \in {"finished", "garbled"} /\ JobStep("writing", "over", text)
      BY <2>4
    <3> HIDE DEF text
    <3> QED BY <2>1, <3>1
  <2> QED BY <1>10, <2>2, <2>3, <2>4 DEF Job
<1>11. CASE GoDown
  <2>1. job' = IF Alive THEN "killed" ELSE job
    BY <1>11 DEF GoDown
  <2>2. launcher' = IF launcher \in {"none", "over"} THEN launcher ELSE "dead"
    BY <1>11 DEF GoDown
  <2>3. file' = file
    BY <1>11 DEF GoDown
  <2>4. at' = at
    BY <1>11 DEF GoDown, ctl
  <2>5. late' <=> late
    BY <1>11 DEF GoDown, hist
  <2> QED BY <2>1, <2>2, <2>3, <2>4, <2>5 DEF Alive
<1>12. CASE CleanUp
  BY <1>12 DEF CleanUp, Enter, hist
<1> QED BY <1>2, <1>3, <1>4, <1>5, <1>6, <1>7, <1>8, <1>9, <1>10, <1>11, <1>12 DEF WaitNext, Module

LEMMA AskStep ==
  ASSUME PlaceInv, ScriptInv, AskInv, [WaitNext]_waitVars
  PROVE  AskInv'
<1>0. ask.module \in {"wait_for", "wait_for_connection", "reboot", "async", "pause"}
  BY AskShape DEF PlaceInv
<1> USE <1>0 DEF AskInv, JobVerdictIsReal
<1>1. CASE /\ UNCHANGED <<launcher, job, answer>> /\ (late => late') /\ (broken => broken')
           /\ at' \in {"asking", "probing", "requery"} => at' = at
  <2>1. launcher' = launcher /\ job' = job /\ answer' = answer
    BY <1>1
  <2>2. (late => late') /\ (broken => broken')
    BY <1>1
  <2>3. at' \in {"asking", "probing", "requery"} => at' = at
    BY <1>1
  <2> QED BY <2>1, <2>2, <2>3 DEF Alive
<1>2. CASE World
  <2>1. ask' = ask /\ at' = at /\ answer' = answer
    BY <1>2, WorldApart DEF ctl
  <2>2. (late => late') /\ (broken => broken')
    BY <1>2, WorldApart
  <2>3. launcher = "over" => launcher' = "over"
    BY <1>2 DEF World, Launcher, Script, Fork, Job, JobStep, GoDown, ComeUp, Turn, Tick, jobs
  <2>4. launcher = "over" /\ ~Alive => job' = job
    BY <1>2 DEF World, Launcher, Script, Fork, Job, JobStep, GoDown, ComeUp, Turn, Tick, jobs, Alive
  <2>5. job \in {"over", "killed"} => job' = job
    BY <1>2 DEF World, Launcher, Script, Fork, Job, JobStep, GoDown, ComeUp, Turn, Tick, jobs, Alive, ScriptInv
  <2>6. at' \in {"asking", "probing", "requery"} => launcher' = "over"
    BY <2>1, <2>3
  <2>7. at' = "requery" => ~Alive' \/ broken'
    BY <2>1, <2>2, <2>4 DEF Alive
  <2> QED BY <2>1, <2>2, <2>5, <2>6, <2>7
<1>3. CASE Stop \/ UNCHANGED waitVars
  BY <1>1, <1>3 DEF Stop, waitVars, ctl, hist, jobs
<1>4. CASE Start \/ WaitFor \/ Look \/ TimeOut \/ Cut \/ CleanUp
  <2>1. UNCHANGED <<job, late, broken>> /\ launcher' = launcher
    BY <1>4 DEF Start, WaitFor, Look, TimeOut, Cut, CleanUp, hist, jobs
  <2>2. at' \notin {"asking", "probing", "requery"}
    BY <1>4 DEF Start, WaitFor, Look, TimeOut, Cut, CleanUp, Enter, Returns
  <2>3. answer' = answer \/ answer' \notin {"finished", "no such job", "died"}
    BY <1>4 DEF Start, WaitFor, Look, TimeOut, Cut, CleanUp, Enter, Returns
  <2> QED BY <2>1, <2>2, <2>3
<1>5. CASE Broken \/ LaunchBroken
  <2>1. UNCHANGED <<job, late>> /\ broken'
    BY <1>5 DEF Broken, LaunchBroken, jobs
  <2>2. at' = "over" /\ answer' \notin {"finished", "no such job", "died"}
    BY <1>5 DEF Broken, LaunchBroken, Returns
  <2> QED BY <2>1, <2>2
<1>6. CASE WaitForConnection \/ Delayed \/ Connecting \/ ReadBoot \/ Tell \/ Returning \/ Compare \/ GiveUp
           \/ Pause \/ Proceed \/ Launch \/ CannotLaunch
  <2>1. answer = "none"
    BY <1>6 DEF PlaceInv, WaitForConnection, Delayed, Connecting, ReadBoot, Tell, Returning, Compare, GiveUp, Pause,
                Proceed, Launch, CannotLaunch
  <2>2. at' \notin {"asking", "probing", "requery"}
    BY <1>6 DEF WaitForConnection, Delayed, Connecting, ReadBoot, Tell, Returning, Compare, GiveUp, Pause,
                Proceed, Launch, CannotLaunch, Enter, Returns
  <2>3. answer' = answer \/ answer' \notin {"finished", "no such job", "died"}
    BY <1>6 DEF WaitForConnection, Delayed, Connecting, ReadBoot, Tell, Returning, Compare, GiveUp, Pause,
                Proceed, Launch, CannotLaunch, Enter, Returns
  <2> QED BY <2>1, <2>2, <2>3
<1>7. CASE Launched
  BY <1>7 DEF Launched, PlaceInv, Enter, hist, jobs
<1>8. CASE Query
  <2>1. PICK how \in {"done", "cut", "refused"} :
          IF how = "done" /\ file = "finished" THEN Returns("finished")
          ELSE IF how = "done" /\ file = "absent" THEN Returns("no such job")
          ELSE IF how = "done" /\ file = "pid" THEN Enter("probing") /\ UNCHANGED answer
          ELSE IF polls < ask.polls THEN UNCHANGED <<at, answer>>
               ELSE Returns("exhausted")
    BY <1>8 DEF Query
  <2>2. at = "asking" /\ job' = job /\ launcher' = launcher
    BY <1>8 DEF Query, jobs
  <2>3. answer = "none" /\ launcher = "over" /\ file # "absent"
    BY <2>2 DEF PlaceInv, ScriptInv
  <2>4. \/ at' = "over" /\ answer' = "finished" /\ file = "finished"
        \/ at' \in {"probing", "asking"} /\ answer' = answer
        \/ at' = "over" /\ answer' = "exhausted"
    BY <2>1, <2>2, <2>3 DEF Returns, Enter
  <2> QED BY <2>2, <2>3, <2>4 DEF ScriptInv
<1>9. CASE Probe
  <2>1. PICK how \in {"done", "cut", "refused"} :
          /\ Ends(how)
          /\ IF how = "refused" THEN Returns("panic")
             ELSE IF how = "done" /\ Alive
                  THEN IF polls < ask.polls THEN Enter("asking") /\ UNCHANGED answer
                       ELSE Returns("exhausted")
             ELSE Enter("requery") /\ UNCHANGED answer
    BY <1>9 DEF Probe, Gone
  <2>2. at = "probing" /\ job' = job /\ launcher' = launcher
    BY <1>9 DEF Probe, jobs
  <2>3. answer = "none" /\ launcher = "over"
    BY <2>2 DEF PlaceInv
  <2>4. \/ at' = "over" /\ answer' \in {"panic", "exhausted"}
        \/ at' = "asking" /\ answer' = answer
        \/ at' = "requery" /\ answer' = answer /\ (how = "cut" \/ ~Alive)
    BY <2>1, <2>2, <2>3 DEF Returns, Enter
  <2>5. how = "cut" => broken'
    BY <2>1 DEF Ends
  <2>6. at' = "requery" => ~Alive' \/ broken'
    BY <2>2, <2>4, <2>5 DEF Alive
  <2> QED BY <2>2, <2>3, <2>4, <2>6
<1>10. CASE Requery
  <2>1. PICK how \in {"done", "cut", "refused"} :
          /\ Ends(how)
          /\ IF how = "refused" THEN Returns("panic")
             ELSE IF how = "done" /\ SaysFinished THEN Enter("asking") /\ UNCHANGED answer
             ELSE Returns("died")
    BY <1>10 DEF Requery
  <2>2. at = "requery" /\ job' = job /\ launcher' = launcher /\ (late => late')
    BY <1>10 DEF Requery, jobs
  <2>3. answer = "none" /\ launcher = "over" /\ (~Alive \/ broken)
    BY <2>2 DEF PlaceInv
  <2>4. \/ at' = "over" /\ answer' = "panic"
        \/ at' = "asking" /\ answer' = answer
        \/ at' = "over" /\ answer' = "died" /\ (how = "cut" \/ ~SaysFinished)
    BY <2>1, <2>2, <2>3 DEF Returns, Enter
  <2>9. Ends(how)
    BY <2>1
  <2>5. (how = "cut" => broken') /\ (broken => broken')
    <3>1. broken' = broken \/ broken' = TRUE
      BY <2>9 DEF Ends
    <3>2. how = "cut" => broken' = TRUE
      BY <2>9 DEF Ends
    <3> QED BY <3>1, <3>2
  <2>6. job \in {"running", "exited", "writing", "over", "killed"}
    BY <2>3 DEF ScriptInv
  <2>7. job = "over" /\ ~SaysFinished => late
    BY <2>2 DEF ScriptInv, SaysFinished
  <2>8. answer' = "died" => job' = "killed" \/ late' \/ broken'
    BY <2>2, <2>3, <2>4, <2>5, <2>6, <2>7 DEF Alive
  <2> QED BY <2>2, <2>3, <2>4, <2>8
<1> QED BY <1>2, <1>3, <1>4, <1>5, <1>6, <1>7, <1>8, <1>9, <1>10 DEF WaitNext, Module, World
-----------------------------------------------------------------------------

LEMMA InitWaitsInv ==
  ASSUME WaitInit
  PROVE  WaitsInv
<1>0. ask.module \in {"wait_for", "wait_for_connection", "reboot", "async", "pause"}
  BY AskShape DEF WaitInit
<1>1. PlaceInv /\ NumberType
  BY <1>0 DEF WaitInit, PlaceInv, NumberType
<1>2. LookInv /\ BootInv
  BY <1>0 DEF WaitInit, LookInv, TimeoutIsReal, BootInv, SuccessIsReal
<1>3. ScriptInv /\ AskInv
  BY <1>0 DEF WaitInit, ScriptInv, AskInv, JobVerdictIsReal
<1> QED BY <1>1, <1>2, <1>3 DEF WaitsInv

LEMMA WaitsInvariant == WaitSpec => []WaitsInv
<1>1. WaitsInv /\ [WaitNext]_waitVars => WaitsInv'
  BY PlaceStep, NumberStep, LookStep, BootStep, ScriptStep, AskStep DEF WaitsInv
<1> QED BY InitWaitsInv, <1>1, PTL DEF WaitSpec

(* What a wait answers is what it found: a success has seen what it waited *)
(* for, a timeout comes after the deadline and after a last look in vain,  *)
(* for any task, any limit of a command and any number of reboots and      *)
(* broken connections (wait_for.go, wait_for_connection.go, reboot.go).    *)
THEOREM WaitsAreTrue == WaitSpec => []WaitsTell
<1>1. WaitsInv => WaitsTell
  BY DEF WaitsInv, LookInv, BootInv, WaitsTell
<1> QED BY WaitsInvariant, <1>1, PTL

(* What async_status says of a detached job is true: finished when it is   *)
(* over, never unknown, and dead only if it was killed, if the script      *)
(* wrote the status after the end of the job, or if a connection broke     *)
(* (async_status.go, executor_task.go:1469).                               *)
THEOREM JobVerdictsAreTrue == WaitSpec => []JobVerdictIsReal
<1>1. WaitsInv => JobVerdictIsReal
  BY DEF WaitsInv, AskInv
<1> QED BY WaitsInvariant, <1>1, PTL
=============================================================================
