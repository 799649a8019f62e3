------------------------------ MODULE SshClient -----------------------------
(***************************************************************************)
(* One SSH client (ssh.Client of pkg/ssh) shared by the goroutines that    *)
(* got it from the pool: Connect, Close, newSession with its keepalive and *)
(* its reconnect, and the SFTP session cached in the client.  The network  *)
(* drops connections at any time; a command or a transfer is one step.     *)
(*                                                                         *)
(* Every critical section under c.mu is one step, but Connect, which holds *)
(* c.mu while it dials.  sftpMu is held over all of getSFTPClient.         *)
(***************************************************************************)
EXTENDS Integers

CONSTANTS
  Threads,   \* the goroutines that use the client
  Agents,    \* whether it may authenticate by the SSH agent: a subset of BOOLEAN
  Calls,     \* what they call: a subset of AllCalls
  MaxConns,  \* bound: connections dialed
  MaxSftp    \* bound: SFTP sessions opened

\* Execute, Upload or Download, and Close (by ConnectionPool.Remove)
AllCalls == {"session", "sftp", "close"}

ASSUME BoundsAssumption == MaxConns \in Nat /\ MaxSftp \in Nat
ASSUME CallsAssumption  == Calls \subseteq AllCalls /\ Agents \subseteq BOOLEAN

Nil   == 0
Conns == 1..MaxConns

VARIABLES
  client,     \* c.client
  connected,  \* c.connected
  used,       \* c.lastUsed is set
  agent,      \* it authenticates by the agent, over a socket NewClient opened
  agentOpen,  \* this socket, one of c.authClosers, is open
  sftp,       \* c.sftpClient: [id, conn], id = Nil if there is none
  sftpMu,     \* the goroutines that hold sftpMu, none or one
  pc,         \* where each goroutine is
  ret,        \* where Connect returns to
  my,         \* its local client (newSession), or SFTP session (Upload)
  retried,    \* Upload and Download: the one retry was taken
  dialed, opened,  \* connections and SFTP sessions made so far
  alive,      \* connections that are neither closed nor dropped
  disturbed   \* history: something went wrong during the call: the network, the
              \* host, the file or the clock failed it, or another goroutine did

shared  == <<client, connected, used, agentOpen, sftp, sftpMu>>
calls   == <<pc, ret, my, retried>>
network == <<dialed, opened, alive>>
vars    == <<agent, shared, calls, network, disturbed>>

NoSftp == [id |-> Nil, conn |-> Nil]

\* c.mu is held over a step only while dialing
MuFree == \A t \in Threads : pc[t] # "dial"

SftpMuFree == sftpMu = {}

Goto(t, l) == pc' = [pc EXCEPT ![t] = l]

Disturb(T) == disturbed' = [u \in Threads |-> disturbed[u] \/ u \in T]
Others(t)  == {u \in Threads : u # t /\ pc[u] # "idle"}

Init ==
  /\ client = Nil /\ connected = FALSE /\ used = FALSE /\ agent \in Agents /\ agentOpen = agent
  /\ sftp = NoSftp /\ sftpMu = {}
  /\ pc = [t \in Threads |-> "idle"] /\ ret = [t \in Threads |-> "final"]
  /\ my = [t \in Threads |-> Nil] /\ retried = [t \in Threads |-> FALSE]
  /\ dialed = 0 /\ opened = 0 /\ alive = {}
  /\ disturbed = [t \in Threads |-> FALSE]

Call(t) ==
  /\ pc[t] = "idle"
  /\ \E l \in Calls : Goto(t, l)
  /\ UNCHANGED <<shared, ret, my, retried, network, disturbed>>

\* the locals of the call are gone with it
Return(t) ==
  /\ pc[t] \in {"error", "done"} /\ Goto(t, "idle")
  /\ my' = [my EXCEPT ![t] = Nil] /\ retried' = [retried EXCEPT ![t] = FALSE]
  /\ ret' = [ret EXCEPT ![t] = "final"]
  /\ disturbed' = [disturbed EXCEPT ![t] = FALSE]
  /\ UNCHANGED <<shared, network>>

\* Mutant: getSFTPClient returns an error with sftpMu locked.
FailLocked(t) == Goto(t, "error") /\ UNCHANGED sftpMu

\* The goroutine gives up with an error; getSFTPClient unlocks sftpMu.
Fail(t) == Goto(t, "error") /\ sftpMu' = sftpMu \ {t}
-----------------------------------------------------------------------------
(* Connect: a client that is connected is left alone                       *)

Connect(t) ==
  /\ pc[t] = "connect" /\ MuFree
  /\ Goto(t, IF connected THEN ret[t] ELSE "dial")
  /\ UNCHANGED <<shared, ret, my, retried, network, disturbed>>

DialOk(t) ==
  /\ pc[t] = "dial" /\ dialed < MaxConns /\ (agent => agentOpen)
  /\ dialed' = dialed + 1 /\ client' = dialed' /\ connected' = TRUE
  /\ alive' = alive \union {dialed'}
  /\ Goto(t, ret[t])
  /\ UNCHANGED <<used, agentOpen, sftp, sftpMu, ret, my, retried, opened, disturbed>>

\* the host cannot be reached, or refuses
DialFail(t) ==
  /\ pc[t] = "dial"
  /\ Fail(t) /\ Disturb({t})
  /\ UNCHANGED <<client, connected, used, agentOpen, sftp, ret, my, retried, network>>

\* the agent's socket is closed: there is no key to authenticate with
DialDenied(t) ==
  /\ pc[t] = "dial" /\ agent /\ ~agentOpen
  /\ Fail(t)
  /\ UNCHANGED <<client, connected, used, agentOpen, sftp, ret, my, retried, network,
                 disturbed>>

\* Mutant: the connection is forgotten without being closed.
DiscardUnclosed(t) ==
  /\ client' = Nil /\ connected' = FALSE
  /\ agentOpen' = FALSE
  /\ Disturb(Others(t))
  /\ UNCHANGED alive

\* What newSession, getSFTPClient and Close do under c.mu to drop whatever
\* connection the client has, and everything in authClosers with it.
Discard(t) ==
  /\ alive' = alive \ {client}
  /\ client' = Nil /\ connected' = FALSE
  /\ agentOpen' = FALSE
  /\ Disturb(Others(t))

-----------------------------------------------------------------------------
(* newSession                                                              *)

\* A connection idle for more than 30 seconds is asked for a keepalive first.
Take(t) ==
  /\ my' = [my EXCEPT ![t] = client]
  /\ Goto(t, "open") \/ (used /\ Goto(t, "keepalive"))
  /\ UNCHANGED ret

Session(t) ==
  /\ pc[t] = "session" /\ MuFree
  /\ IF connected /\ client # Nil THEN Take(t)
     ELSE /\ Goto(t, "connect") /\ ret' = [ret EXCEPT ![t] = "connected"]
          /\ UNCHANGED my
  /\ UNCHANGED <<shared, retried, network, disturbed>>

Connected(t) ==
  /\ pc[t] = "connected" /\ MuFree
  /\ IF client = Nil THEN Goto(t, "error") /\ UNCHANGED <<ret, my>> ELSE Take(t)
  /\ UNCHANGED <<shared, retried, network, disturbed>>

KeepAlive(t) ==
  /\ pc[t] = "keepalive"
  /\ Goto(t, IF my[t] \in alive THEN "open" ELSE "resetIdle")
  /\ UNCHANGED <<shared, ret, my, retried, network, disturbed>>

\* client.NewSession() of a nil client panics
Open(t) ==
  /\ pc[t] = "open"
  /\ Goto(t, IF my[t] = Nil THEN "panic" ELSE IF my[t] \in alive THEN "stamp" ELSE "reset")
  /\ UNCHANGED <<shared, ret, my, retried, network, disturbed>>

\* the host may refuse a session on a connection that is alive
OpenRefused(t) ==
  /\ pc[t] = "open" /\ my[t] \in alive
  /\ Goto(t, "reset") /\ Disturb({t})
  /\ UNCHANGED <<shared, ret, my, retried, network>>

Stamp(t) ==
  /\ pc[t] = "stamp" /\ MuFree
  /\ used' = TRUE /\ Goto(t, "running")
  /\ UNCHANGED <<client, connected, agentOpen, sftp, sftpMu, ret, my, retried, network,
                 disturbed>>

Reset(t) ==
  /\ pc[t] \in {"resetIdle", "reset"} /\ MuFree
  /\ Discard(t)
  /\ ret' = [ret EXCEPT ![t] = IF pc[t] = "resetIdle" THEN "reconnected" ELSE "final"]
  /\ Goto(t, "invalidate")
  /\ UNCHANGED <<used, sftp, sftpMu, my, retried, dialed, opened>>

\* invalidateSFTPClient
DropSftp(t) ==
  /\ SftpMuFree
  /\ sftp' = NoSftp
  /\ Disturb({u \in Others(t) : pc[u] \in {"transfer", "copying"}})

Invalidate(t) ==
  /\ pc[t] = "invalidate" /\ DropSftp(t) /\ Goto(t, "connect")
  /\ UNCHANGED <<client, connected, used, agentOpen, sftpMu, ret, my, retried, network>>

\* after the keepalive's reconnect the client is read again, not checked for nil
Reconnected(t) ==
  /\ pc[t] = "reconnected" /\ MuFree
  /\ my' = [my EXCEPT ![t] = client] /\ Goto(t, "open")
  /\ UNCHANGED <<shared, ret, retried, network, disturbed>>

\* after the other reconnect it is, and the session opened under c.mu
Final(t) ==
  /\ pc[t] = "final" /\ MuFree
  /\ IF client \in alive
     THEN /\ my' = [my EXCEPT ![t] = client] /\ used' = TRUE
          /\ Goto(t, "running")
     ELSE Goto(t, "error") /\ UNCHANGED <<my, used>>
  /\ UNCHANGED <<client, connected, agentOpen, sftp, sftpMu, ret, retried, network,
                 disturbed>>

\* the host refuses the session, on the connection just made
FinalRefused(t) ==
  /\ pc[t] = "final" /\ MuFree /\ client \in alive
  /\ Goto(t, "error") /\ Disturb({t})
  /\ UNCHANGED <<shared, ret, my, retried, network>>

\* the command ends, or its connection did
Run(t) ==
  /\ pc[t] = "running"
  /\ Goto(t, IF my[t] \in alive THEN "done" ELSE "error")
  /\ UNCHANGED <<shared, ret, my, retried, network, disturbed>>
\* The command cannot be started, or runs longer than the timeout of the client:
\* only its session is closed, the connection stays.
RunFails(t) ==
  /\ pc[t] = "running"
  /\ Goto(t, "error") /\ Disturb({t})
  /\ UNCHANGED <<shared, ret, my, retried, network>>
-----------------------------------------------------------------------------
(* getSFTPClient, Upload and Download                                      *)

Sftp(t) ==
  /\ pc[t] = "sftp" /\ SftpMuFree
  /\ IF sftp # NoSftp
     THEN /\ my' = [my EXCEPT ![t] = sftp.id] /\ Goto(t, "transfer")
          /\ UNCHANGED <<ret, sftpMu>>
     ELSE /\ sftpMu' = sftpMu \union {t} /\ Goto(t, "connect")
          /\ ret' = [ret EXCEPT ![t] = "sftpRead"] /\ UNCHANGED my
  /\ UNCHANGED <<client, connected, used, agentOpen, sftp, retried, network, disturbed>>

\* the client is read, after the first Connect and after the reconnect
SftpRead(t) ==
  /\ pc[t] \in {"sftpRead", "sftpReread"} /\ MuFree
  /\ my' = [my EXCEPT ![t] = client]
  /\ IF client = Nil THEN Fail(t)
     ELSE /\ Goto(t, IF pc[t] = "sftpRead" THEN "sftpNew" ELSE "sftpRenew")
          /\ UNCHANGED sftpMu
  /\ UNCHANGED <<client, connected, used, agentOpen, sftp, ret, retried, network,
                 disturbed>>

SftpOpened(t) ==
  /\ pc[t] \in {"sftpNew", "sftpRenew"} /\ my[t] \in alive /\ opened < MaxSftp
  /\ opened' = opened + 1
  /\ sftp' = [id |-> opened', conn |-> my[t]]
  /\ my' = [my EXCEPT ![t] = opened'] /\ sftpMu' = sftpMu \ {t}
  /\ Goto(t, "transfer")
  /\ UNCHANGED <<client, connected, used, agentOpen, ret, retried, dialed, alive,
                 disturbed>>

\* sftp.NewClient fails: on a dead connection, or refused by the host
SftpFailed(t) ==
  /\ pc[t] \in {"sftpNew", "sftpRenew"}
  /\ IF pc[t] = "sftpNew" THEN Goto(t, "sftpReset") /\ UNCHANGED sftpMu ELSE Fail(t)
  /\ IF my[t] \in alive THEN Disturb({t}) ELSE UNCHANGED disturbed
  /\ UNCHANGED <<client, connected, used, agentOpen, sftp, ret, my, retried, network>>

SftpReset(t) ==
  /\ pc[t] = "sftpReset" /\ MuFree
  /\ Discard(t)
  /\ ret' = [ret EXCEPT ![t] = "sftpReread"] /\ Goto(t, "connect")
  /\ UNCHANGED <<used, sftp, sftpMu, my, retried, dialed, opened>>

\* an SFTP session is closed when, and only when, it leaves the cache
SftpAlive(s) == sftp.id = s /\ sftp.conn \in alive

\* Mutant: a file that cannot be created is not tried again.
TransferOnce(t) ==
  /\ pc[t] = "transfer"
  /\ Goto(t, IF SftpAlive(my[t]) THEN "copying" ELSE "error")
  /\ UNCHANGED <<shared, ret, my, retried, network, disturbed>>

\* the file is created or opened; if that fails, once more with a new session
Transfer(t) ==
  /\ pc[t] = "transfer"
  /\ Goto(t, IF SftpAlive(my[t]) THEN "copying" ELSE IF retried[t] THEN "error" ELSE "again")
  /\ UNCHANGED <<shared, ret, my, retried, network, disturbed>>

\* The host refuses the file (it is missing, or not permitted) on a session that
\* is alive: the session is thrown away all the same, whoever else uses it, and
\* the file is asked for once more.
FileRefused(t) ==
  /\ pc[t] = "transfer"
  /\ Goto(t, IF retried[t] THEN "error" ELSE "again") /\ Disturb({t})
  /\ UNCHANGED <<shared, ret, my, retried, network>>

Again(t) ==
  /\ pc[t] = "again" /\ DropSftp(t)
  /\ retried' = [retried EXCEPT ![t] = TRUE] /\ Goto(t, "sftp")
  /\ UNCHANGED <<client, connected, used, agentOpen, sftpMu, ret, my, network>>

Copy(t) ==
  /\ pc[t] = "copying"
  /\ Goto(t, IF SftpAlive(my[t]) THEN "done" ELSE "error")
  /\ UNCHANGED <<shared, ret, my, retried, network, disturbed>>
\* The local file cannot be opened, by Upload before it asks for the remote one, by
\* Download after it; or the content cannot be copied.  The session is kept.
CopyFails(t) ==
  /\ pc[t] = "copying" \/ (pc[t] = "transfer" /\ ~retried[t])
  /\ Goto(t, "error") /\ Disturb({t})
  /\ UNCHANGED <<shared, ret, my, retried, network>>
-----------------------------------------------------------------------------
(* Close: the SFTP session first, then the connection                      *)

Close(t) ==
  /\ pc[t] = "close" /\ DropSftp(t) /\ Goto(t, "closing")
  /\ UNCHANGED <<client, connected, used, agentOpen, sftpMu, ret, my, retried, network>>

\* c.client.Close() of a nil client panics
CloseClient(t) ==
  /\ pc[t] = "closing" /\ MuFree
  /\ Discard(t)
  /\ Goto(t, IF connected /\ client = Nil THEN "panic" ELSE "done")
  /\ UNCHANGED <<used, sftp, sftpMu, ret, my, retried, dialed, opened>>

\* the network or the host drops a connection
Lost(c) ==
  /\ c \in alive /\ alive' = alive \ {c}
  /\ Disturb({u \in Threads : pc[u] # "idle"})
  /\ UNCHANGED <<shared, calls, dialed, opened>>
-----------------------------------------------------------------------------
Step(t) ==
  \/ Return(t) \/ Connect(t) \/ DialOk(t) \/ DialFail(t) \/ DialDenied(t)
  \/ Session(t) \/ Connected(t) \/ KeepAlive(t) \/ Open(t) \/ OpenRefused(t)
  \/ Stamp(t) \/ Reset(t) \/ Invalidate(t) \/ Reconnected(t) \/ Final(t) \/ Run(t)
  \/ FinalRefused(t) \/ RunFails(t) \/ FileRefused(t) \/ CopyFails(t)
  \/ Sftp(t) \/ SftpRead(t) \/ SftpOpened(t) \/ SftpFailed(t) \/ SftpReset(t)
  \/ Transfer(t) \/ Again(t) \/ Copy(t) \/ Close(t) \/ CloseClient(t)

\* a panic of one goroutine ends the process
Running == \A t \in Threads : pc[t] # "panic"
Crashed == ~Running /\ UNCHANGED vars

Next ==
  \/ /\ Running /\ UNCHANGED agent
     /\ \/ \E t \in Threads : Call(t) \/ Step(t)
        \/ \E c \in Conns : Lost(c)
  \/ Crashed

Spec == Init /\ [][Next]_vars

\* Goroutines run on, mutexes do not starve them, dials and commands end.
FairSpec == Spec /\ \A t \in Threads : SF_vars(Running /\ Step(t) /\ UNCHANGED agent)
-----------------------------------------------------------------------------
Pcs == {"idle", "error", "done", "panic", "connect", "dial", "session", "connected", "keepalive",
        "open", "stamp", "resetIdle", "reset", "invalidate", "reconnected", "final",
        "running", "sftp", "sftpRead", "sftpReread", "sftpNew", "sftpRenew", "sftpReset",
        "transfer", "again", "copying", "close", "closing"}

TypeOK ==
  /\ client \in Conns \union {Nil} /\ connected \in BOOLEAN /\ used \in BOOLEAN
  /\ agent \in Agents /\ agentOpen \in BOOLEAN
  /\ sftp \in [id : 0..MaxSftp, conn : Conns \union {Nil}]
  /\ sftpMu \subseteq Threads /\ \A t, u \in sftpMu : t = u
  /\ pc \in [Threads -> Pcs]
  /\ ret \in [Threads -> {"connected", "reconnected", "final", "sftpRead", "sftpReread"}]
  /\ my \in [Threads -> Nat] /\ retried \in [Threads -> BOOLEAN]
  /\ dialed \in 0..MaxConns /\ opened \in 0..MaxSftp /\ alive \subseteq Conns
  /\ disturbed \in [Threads -> BOOLEAN]

\* Every connection that is neither lost nor closed is the client's current
\* one, so that a reconnect never leaks one; Close, which trusts c.connected,
\* finds a client exactly when it is set.
NoConnectionLeaked == alive \subseteq {client} /\ (connected <=> client # Nil)

\* What went wrong before a call does not make it fail: a connection the network
\* lost, or an SFTP session that died, is found out and made anew, as the comments
\* of newSession and Upload say.  A call ends in an error only if during the call
\* the network or the host failed it, a file or a session was refused, the command
\* took too long, or another goroutine closed the connection or the SFTP session
\* under it, as one does whose own file was refused.
\* Not so a client that authenticates by the agent: a reset closes the agent's
\* socket, opened once in NewClient, and keeps the configuration that needs it.
Heals == ~agent => \A t \in Threads : pc[t] = "error" => disturbed[t]

\* Every call returns, unless the process crashes: newSession and getSFTPClient
\* take c.mu and sftpMu in no order that deadlocks.
CallReturns ==
  \A t \in Threads : pc[t] # "idle" ~> (pc[t] = "idle" \/ ~Running)
=============================================================================
