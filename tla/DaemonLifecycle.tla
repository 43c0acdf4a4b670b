--------------------------- MODULE DaemonLifecycle ---------------------------
(***************************************************************************)
(* Daemons and the commands that start, stop, probe and use them, on the   *)
(* Unix transport.                                                         *)
(*                                                                         *)
(* A daemon is found through two socket files, .dekko/daemon.sock and      *)
(* .dekko/daemon.status.sock.  Nothing locks them: a daemon that binds     *)
(* unlinks what is there, a command whose connect is refused unlinks both, *)
(* a stopper unlinks both, and a daemon that ends unlinks both, whoever    *)
(* bound them.  A file therefore names the daemon that bound it, which may *)
(* be listening, not listening yet, or dead.                               *)
(***************************************************************************)
EXTENDS Naturals, FiniteSets

CONSTANTS
    Daemons,            \* daemon processes that can be spawned, each once
    Clients,            \* command-line processes, each running one at a time
    NoOne,              \* no daemon, no client
    Commands,           \* commands issued (see CommandKinds)
    Overlap,            \* may daemon start overlap with other commands and
                        \* with a daemon going down, and other commands with
                        \* a daemon coming up?
    Kills,              \* may a daemon be killed from outside?
    ConnectTimeouts,    \* may a connect to a listening socket time out, or
                        \* fail because its queue is full?
    ReplyTimeouts,      \* may an answer take longer than its client waits?
    PollCapExpires,     \* may start and stop give up polling for the file?
    MaxCommands         \* bound: commands issued

\* "run" is a routed read (try_daemon), "status" daemon status.
CommandKinds == {"start", "stop", "status", "run"}

ASSUME ConstantsAssumption ==
    /\ NoOne \notin Daemons /\ NoOne \notin Clients
    /\ Commands \subseteq CommandKinds
    /\ {Overlap, Kills, ConnectTimeouts, ReplyTimeouts, PollCapExpires}
         \subseteq BOOLEAN
    /\ MaxCommands \in Nat

VARIABLES
    file,       \* the daemon whose socket each path leads to
    phase,      \* where each daemon is in serve_daemon
    sock,       \* the socket it is binding, or unlinking at its end
    tries,      \* its bind attempts for that socket
    up,         \* the sockets it listens on
    serves,     \* the client whose request it runs
    cmd,        \* the command each client runs (or ran last)
    pc,         \* where each client is in it
    stage,      \* what it is connecting for
    next,       \* what it does once it has unlinked the files
    conn,       \* the daemon it is connected to
    acked,      \* the shutdown acknowledgement is in its socket
    report,     \* what the command told the user
    commands    \* commands issued so far

daemonVars == <<phase, sock, tries, up, serves>>
clientVars == <<cmd, pc, stage, next, conn, acked, report, commands>>
vars == <<file, daemonVars, clientVars>>

-----------------------------------------------------------------------------
Sockets == {"main", "status"}

Booting == {"unlink", "bind", "chmod", "listen"}
Established == {"serving", "busy"}
Closing == {"closing", "unlinking"}
Live == Booting \cup Established \cup Closing
Phases == Live \cup {"unspawned", "dead"}

Steps == {"idle", "exists", "probe", "dial", "unlink-main", "unlink-status",
          "stale", "spawn", "confirm", "request", "shutdown", "query", "kill",
          "teardown"}

\* For a liveness check, for the command's own request, or for a pid.
Stages == {"reach", "ask", "pid"}

Reports == {"none", "already-running", "started", "unconfirmed", "stopped",
            "no-daemon", "still-running", "answered", "abandoned"}

TypeOK ==
    /\ file \in [Sockets -> Daemons \cup {NoOne}]
    /\ phase \in [Daemons -> Phases]
    /\ sock \in [Daemons -> Sockets]
    /\ tries \in [Daemons -> 0 .. 2]
    /\ up \in [Daemons -> SUBSET Sockets]
    /\ serves \in [Daemons -> Clients \cup {NoOne}]
    /\ cmd \in [Clients -> CommandKinds]
    /\ pc \in [Clients -> Steps]
    /\ stage \in [Clients -> Stages]
    /\ next \in [Clients -> {"dial", "missed", "spawn", "stopped"}]
    /\ conn \in [Clients -> Daemons \cup {NoOne}]
    /\ acked \in [Clients -> BOOLEAN]
    /\ report \in [Clients -> Reports]
    /\ commands \in Nat
    /\ \A d \in Daemons : serves[d] # NoOne <=> phase[d] = "busy"

\* No daemon yet, or the socket file of one that was killed long ago.
Init ==
    /\ phase \in [Daemons -> {"unspawned", "dead"}]
    /\ \E d \in Daemons \cup {NoOne} :
          /\ file = [s \in Sockets |-> d]
          /\ \A e \in Daemons : phase[e] = "dead" <=> e = d
    /\ sock = [d \in Daemons |-> "main"]
    /\ tries = [d \in Daemons |-> 0]
    /\ up = [d \in Daemons |-> {}]
    /\ serves = [d \in Daemons |-> NoOne]
    /\ cmd = [c \in Clients |-> "status"]
    /\ pc = [c \in Clients |-> "idle"]
    /\ stage = [c \in Clients |-> "reach"]
    /\ next = [c \in Clients |-> "dial"]
    /\ conn = [c \in Clients |-> NoOne]
    /\ acked = [c \in Clients |-> FALSE]
    /\ report = [c \in Clients |-> "none"]
    /\ commands = 0

-----------------------------------------------------------------------------
\* A daemon comes up: UnixSocketTransport._bind, for the main socket and
\* then for the status socket.

\* A stale file, or anyone's.
UnlinkOld(d) ==
    /\ phase[d] = "unlink"
    /\ file' = [file EXCEPT ![sock[d]] = NoOne]
    /\ phase' = [phase EXCEPT ![d] = "bind"]
    /\ UNCHANGED <<sock, tries, up, serves, clientVars>>

\* TransportUnavailable: a daemon without its main socket just exits, one
\* without its status socket closes the main socket and cleans up.
BindFails(d) ==
    /\ up' = [up EXCEPT ![d] = {}]
    /\ phase' = [phase EXCEPT ![d] =
                   IF sock[d] = "main" THEN "dead" ELSE "unlinking"]
    /\ sock' = [sock EXCEPT ![d] = "main"]
    /\ tries' = [tries EXCEPT ![d] = 0]

Bind(d) ==
    /\ phase[d] = "bind"
    /\ \/ /\ file[sock[d]] = NoOne
          /\ file' = [file EXCEPT ![sock[d]] = d]
          /\ phase' = [phase EXCEPT ![d] = "chmod"]
          /\ UNCHANGED <<sock, tries, up>>
       \/ /\ file[sock[d]] # NoOne      \* address already in use
          /\ BindFails(d) /\ UNCHANGED file
    /\ UNCHANGED <<serves, clientVars>>

\* chmod goes by path: it fails, and the attempt is repeated, only when
\* there is no file at all.
Chmod(d) ==
    /\ phase[d] = "chmod"
    /\ \/ /\ file[sock[d]] # NoOne
          /\ phase' = [phase EXCEPT ![d] = "listen"]
          /\ UNCHANGED <<sock, tries, up>>
       \/ /\ file[sock[d]] = NoOne /\ tries[d] < 2
          /\ tries' = [tries EXCEPT ![d] = @ + 1]
          /\ phase' = [phase EXCEPT ![d] = "unlink"]
          /\ UNCHANGED <<sock, up>>
       \/ /\ file[sock[d]] = NoOne /\ tries[d] = 2
          /\ BindFails(d)
    /\ UNCHANGED <<file, serves, clientVars>>

Listen(d) ==
    /\ phase[d] = "listen"
    /\ up' = [up EXCEPT ![d] = @ \cup {sock[d]}]
    /\ tries' = [tries EXCEPT ![d] = 0]
    /\ sock' = [sock EXCEPT ![d] = IF @ = "main" THEN "status" ELSE "main"]
    /\ phase' = [phase EXCEPT ![d] =
                   IF sock[d] = "main" THEN "unlink" ELSE "serving"]
    /\ UNCHANGED <<file, serves, clientVars>>

-----------------------------------------------------------------------------
\* A daemon serves and ends: serve_daemon's single-threaded accept loop.

\* Clients with a connection the loop has not accepted yet.
Queued(d) ==
    {c \in Clients : /\ conn[c] = d /\ pc[c] \in {"request", "shutdown"}
                     /\ serves[d] # c /\ ~acked[c]}

Serve(d, c) ==
    /\ phase[d] = "serving" /\ c \in Queued(d) /\ pc[c] = "request"
    /\ phase' = [phase EXCEPT ![d] = "busy"]
    /\ serves' = [serves EXCEPT ![d] = c]
    /\ UNCHANGED <<file, sock, tries, up, clientVars>>

\* Mutant of Finish: busy_event is not cleared in a finally block.
FinishStillBusy(d) ==
    /\ phase[d] = "busy"
    /\ phase' = [phase EXCEPT ![d] = "serving"]
    /\ UNCHANGED <<file, sock, tries, up, serves, clientVars>>

\* The reply is sent; a client that is gone makes no difference.
Finish(d) ==
    /\ phase[d] = "busy"
    /\ phase' = [phase EXCEPT ![d] = "serving"]
    /\ serves' = [serves EXCEPT ![d] = NoOne]
    /\ LET c == serves[d] IN
         IF conn[c] = d /\ pc[c] = "request"
           THEN /\ pc' = [pc EXCEPT ![c] = "idle"]
                /\ report' = [report EXCEPT ![c] = "answered"]
                /\ conn' = [conn EXCEPT ![c] = NoOne]
           ELSE UNCHANGED <<pc, report, conn>>
    /\ UNCHANGED <<file, sock, tries, up, cmd, stage, next, acked, commands>>

\* The acknowledgement goes out before the teardown.  A stopper that gave
\* up has closed its end: sending fails, and the daemon goes on serving.
Shutdown(d, c) ==
    /\ phase[d] = "serving" /\ c \in Queued(d) /\ pc[c] = "shutdown"
    /\ acked' = [acked EXCEPT ![c] = TRUE]
    /\ phase' = [phase EXCEPT ![d] = "closing"]
    /\ UNCHANGED <<file, sock, tries, up, serves, cmd, pc, stage, next, conn,
                   report, commands>>

\* Mutant of IdleTimeout: a daemon whose file is gone stays.
IdleTimeoutIfLinked(d) ==
    /\ phase[d] = "serving" /\ Queued(d) = {} /\ file["main"] = d
    /\ phase' = [phase EXCEPT ![d] = "closing"]
    /\ UNCHANGED <<file, sock, tries, up, serves, clientVars>>

IdleTimeout(d) ==
    /\ phase[d] = "serving" /\ Queued(d) = {}
    /\ Overlap \/ \A c \in Clients : cmd[c] = "start" => pc[c] = "idle"
    /\ phase' = [phase EXCEPT ![d] = "closing"]
    /\ UNCHANGED <<file, sock, tries, up, serves, clientVars>>

\* serve_daemon's finally block: the status socket, up to two seconds for
\* its thread, the main socket.
CloseSockets(d) ==
    /\ phase[d] = "closing"
    /\ IF "status" \in up[d]
         THEN /\ up' = [up EXCEPT ![d] = @ \ {"status"}]
              /\ UNCHANGED phase
         ELSE /\ up' = [up EXCEPT ![d] = {}]
              /\ phase' = [phase EXCEPT ![d] = "unlinking"]
    /\ UNCHANGED <<file, sock, tries, serves, clientVars>>

\* transport.cleanup(), whoever's files those are by now.
UnlinkAtEnd(d) ==
    /\ phase[d] = "unlinking"
    /\ file' = [file EXCEPT ![sock[d]] = NoOne]
    /\ sock' = [sock EXCEPT ![d] = "status"]
    /\ phase' = [phase EXCEPT ![d] =
                   IF sock[d] = "main" THEN "unlinking" ELSE "dead"]
    /\ UNCHANGED <<tries, up, serves, clientVars>>

Dies(d) ==
    /\ phase' = [phase EXCEPT ![d] = "dead"]
    /\ up' = [up EXCEPT ![d] = {}]
    /\ serves' = [serves EXCEPT ![d] = NoOne]

\* kill -9, a crash, a reboot: the files stay.
Killed(d) ==
    /\ Kills /\ phase[d] \in Live
    /\ Dies(d)
    /\ UNCHANGED <<file, sock, tries, clientVars>>

-----------------------------------------------------------------------------
\* A command.

Goto(c, s) == pc' = [pc EXCEPT ![c] = s]

Return(c, r) ==
    /\ pc' = [pc EXCEPT ![c] = "idle"]
    /\ report' = [report EXCEPT ![c] = r]
    /\ conn' = [conn EXCEPT ![c] = NoOne]
    /\ acked' = [acked EXCEPT ![c] = FALSE]
    /\ UNCHANGED <<cmd, stage, next, commands>>

\* Who else is in the middle of a command, apart from waiting for an answer.
Active(c) == {e \in Clients \ {c} : pc[e] \notin {"idle", "request"}}

\* A start has the daemons and the files to itself, and a daemon comes up
\* unobserved.
Apart(c, k) ==
    /\ \A d \in Daemons : phase[d] \notin Booting
    /\ \A e \in Active(c) : cmd[e] # "start"
    /\ k = "start" => /\ Active(c) = {}
                      /\ \A d \in Daemons : phase[d] \notin Closing

\* Starts that may still spawn a daemon.  Bound: each finds one to spawn.
Starting ==
    {c \in Clients : cmd[c] = "start" /\ pc[c] \notin {"idle", "confirm"}}
Unspawned == {d \in Daemons : phase[d] = "unspawned"}

Begin(c, k) ==
    /\ pc[c] = "idle" /\ commands < MaxCommands
    /\ Overlap \/ Apart(c, k)
    /\ k = "start" => Cardinality(Starting) < Cardinality(Unspawned)
    /\ commands' = commands + 1
    /\ cmd' = [cmd EXCEPT ![c] = k]
    /\ report' = [report EXCEPT ![c] = "none"]
    /\ stage' = [stage EXCEPT ![c] = IF k \in {"start", "status"} THEN "reach"
                                                                  ELSE "ask"]
    /\ Goto(c, "exists")
    /\ UNCHANGED <<file, daemonVars, next, conn, acked>>

\* Nothing answers on the main socket, or there is no such file: what that
\* means to the command.
Missed(c) ==
    CASE stage[c] = "reach" /\ cmd[c] = "start" ->
           /\ Goto(c, "stale")
           /\ UNCHANGED <<cmd, stage, next, conn, acked, report, commands>>
      [] stage[c] = "reach" /\ cmd[c] = "stop" ->
           /\ Goto(c, "unlink-main")
           /\ next' = [next EXCEPT ![c] = "stopped"]
           /\ UNCHANGED <<cmd, stage, conn, acked, report, commands>>
      [] stage[c] = "pid" ->
           /\ Goto(c, "exists")
           /\ stage' = [stage EXCEPT ![c] = "reach"]
           /\ UNCHANGED <<cmd, next, conn, acked, report, commands>>
      [] OTHER -> Return(c, "no-daemon")

\* transport.exists() looks at the main file only.
Exists(c) ==
    /\ pc[c] = "exists"
    /\ IF file["main"] = NoOne
         THEN Missed(c)
         ELSE /\ Goto(c, IF stage[c] = "ask" THEN "dial" ELSE "probe")
              /\ UNCHANGED <<cmd, stage, next, conn, acked, report, commands>>
    /\ UNCHANGED <<file, daemonVars>>

\* How a connect ends: _connect distinguishes no file, a listener, a
\* listener too slow to be told from none, and every other error: a file
\* nobody listens on, or a listener whose queue is full.
Answers(s) == file[s] # NoOne /\ s \in up[file[s]]
Refuses(s) == file[s] # NoOne /\ (ConnectTimeouts \/ s \notin up[file[s]])
\* Mutant of Unavailable: a busy daemon answers no probe.
UnavailableWhenBusy(s) ==
    file[s] = NoOne \/ (Answers(s) /\ phase[file[s]] = "busy")

Unavailable(s) == file[s] = NoOne \/ (ConnectTimeouts /\ Answers(s))

\* A refused connect unlinks both files before it reports anything.
Cleanup(c, then) ==
    /\ Goto(c, "unlink-main")
    /\ next' = [next EXCEPT ![c] = then]
    /\ UNCHANGED <<cmd, stage, conn, acked, report, commands>>

\* Connected: a liveness check is over, a request or a query is sent.
Connected(c, d) ==
    CASE stage[c] = "reach" /\ cmd[c] = "start" -> Return(c, "already-running")
      [] stage[c] = "reach" /\ cmd[c] = "stop" -> Return(c, "still-running")
      [] OTHER ->
           /\ conn' = [conn EXCEPT ![c] = d]
           /\ Goto(c, IF cmd[c] = "run" THEN "request"
                      ELSE IF stage[c] = "ask" THEN "shutdown" ELSE "query")
           /\ UNCHANGED <<cmd, stage, next, acked, report, commands>>

\* The status socket first, so that a busy daemon still answers.
Probe(c) ==
    /\ pc[c] = "probe"
    /\ \/ Answers("status") /\ Connected(c, file["status"])
       \/ /\ Unavailable("status") /\ Goto(c, "dial")
          /\ UNCHANGED <<cmd, stage, next, conn, acked, report, commands>>
       \/ Refuses("status") /\ Cleanup(c, "dial")
    /\ UNCHANGED <<file, daemonVars>>

Dial(c) ==
    /\ pc[c] = "dial"
    /\ \/ Answers("main") /\ Connected(c, file["main"])
       \/ Unavailable("main") /\ Missed(c)
       \/ Refuses("main") /\ Cleanup(c, "missed")
    /\ UNCHANGED <<file, daemonVars>>

UnlinkMain(c) ==
    /\ pc[c] = "unlink-main"
    /\ file' = [file EXCEPT !["main"] = NoOne]
    /\ Goto(c, "unlink-status")
    /\ UNCHANGED <<daemonVars, cmd, stage, next, conn, acked, report,
                   commands>>

UnlinkStatus(c) ==
    /\ pc[c] = "unlink-status"
    /\ file' = [file EXCEPT !["status"] = NoOne]
    /\ CASE next[c] = "missed"  -> Missed(c)
         [] next[c] = "stopped" -> Return(c, "stopped")
         [] OTHER -> /\ Goto(c, next[c])
                     /\ UNCHANGED <<cmd, stage, next, conn, acked, report,
                                    commands>>
    /\ UNCHANGED daemonVars

-----------------------------------------------------------------------------
\* The rest of daemon start.

RemoveStale(c) ==
    /\ pc[c] = "stale"
    /\ IF file["main"] # NoOne
         THEN Cleanup(c, "spawn")
         ELSE /\ Goto(c, "spawn")
              /\ UNCHANGED <<cmd, stage, next, conn, acked, report, commands>>
    /\ UNCHANGED <<file, daemonVars>>

Spawn(c, d) ==
    /\ pc[c] = "spawn" /\ d \in Unspawned
    /\ phase' = [phase EXCEPT ![d] = "unlink"]
    /\ Goto(c, "confirm")
    /\ UNCHANGED <<file, sock, tries, up, serves, cmd, stage, next, conn,
                   acked, report, commands>>

\* _wait_for_bind: the file appears, or three seconds pass.
Confirm(c) ==
    /\ pc[c] = "confirm"
    /\ \/ file["main"] # NoOne /\ Return(c, "started")
       \/ /\ file["main"] = NoOne
          /\ PollCapExpires \/ \A d \in Daemons : phase[d] \notin Booting
          /\ Return(c, "unconfirmed")
    /\ UNCHANGED <<file, daemonVars>>

-----------------------------------------------------------------------------
\* The rest of daemon stop, and of a routed read.

\* The other end is gone before it answered.
Reset(c) == phase[conn[c]] \notin Live \/ "main" \notin up[conn[c]]

\* Exit code 7: the request was sent and nothing came back.
Abandon(c) ==
    /\ pc[c] = "request" /\ Reset(c)
    /\ Return(c, "abandoned")
    /\ UNCHANGED <<file, daemonVars>>

Acknowledged(c) ==
    /\ pc[c] = "shutdown" /\ acked[c]
    /\ Goto(c, "teardown")
    /\ UNCHANGED <<file, daemonVars, cmd, stage, next, conn, acked, report,
                   commands>>

\* Mutant of NotGraceful: stop reports stopped in every branch.
NotGracefulStopped(c) ==
    /\ pc[c] = "shutdown"
    /\ ReplyTimeouts \/ (Reset(c) /\ ~acked[c])
    /\ Return(c, "stopped")
    /\ UNCHANGED <<file, daemonVars>>

\* Thirty seconds without an acknowledgement, or a lost connection.
NotGraceful(c) ==
    /\ pc[c] = "shutdown"
    /\ ReplyTimeouts \/ (Reset(c) /\ ~acked[c])
    /\ Goto(c, "probe")
    /\ stage' = [stage EXCEPT ![c] = "pid"]
    /\ conn' = [conn EXCEPT ![c] = NoOne]
    /\ acked' = [acked EXCEPT ![c] = FALSE]
    /\ UNCHANGED <<file, daemonVars, cmd, next, report, commands>>

\* Mutant of TeardownSeen: the wait has no deadline.
TeardownSeenForever(c) ==
    /\ pc[c] = "teardown"
    /\ file["main"] = NoOne
    /\ Return(c, "stopped")
    /\ UNCHANGED <<file, daemonVars>>

\* _wait_for_teardown: the main file is gone, or five seconds pass.
TeardownSeen(c) ==
    /\ pc[c] = "teardown"
    /\ file["main"] = NoOne \/ PollCapExpires
    /\ Return(c, "stopped")
    /\ UNCHANGED <<file, daemonVars>>

\* The query of daemon status, and of stop for a pid (_query_pid): the status
\* thread answers it, until the status socket closes.
Told(c) ==
    /\ pc[c] = "query" /\ "status" \in up[conn[c]]
    /\ IF cmd[c] = "status"
         THEN Return(c, "answered")
         ELSE /\ Goto(c, "kill")
              /\ UNCHANGED <<cmd, stage, next, conn, acked, report, commands>>
    /\ UNCHANGED <<file, daemonVars>>

\* No answer in two seconds, which daemon status reports as a daemon it could
\* not confirm, or a lost connection.
Lost(c) == phase[conn[c]] \notin Booting \cup Established

\* Mutant of Untold: no final reachability probe before the files go.
UntoldCleansUp(c) ==
    /\ pc[c] = "query"
    /\ ReplyTimeouts \/ Lost(c)
    /\ IF cmd[c] = "status"
         THEN Return(c, IF Lost(c) THEN "no-daemon" ELSE "answered")
         ELSE Cleanup(c, "stopped")
    /\ UNCHANGED <<file, daemonVars>>

Untold(c) ==
    /\ pc[c] = "query"
    /\ ReplyTimeouts \/ Lost(c)
    /\ IF cmd[c] = "status"
         THEN Return(c, IF Lost(c) THEN "no-daemon" ELSE "answered")
         ELSE /\ Goto(c, "exists")
              /\ stage' = [stage EXCEPT ![c] = "reach"]
              /\ conn' = [conn EXCEPT ![c] = NoOne]
              /\ UNCHANGED <<cmd, next, acked, report, commands>>
    /\ UNCHANGED <<file, daemonVars>>

\* force_stop, on the one daemon whose pid is known; SIGTERM runs no
\* cleanup.  A process that is gone already changes nothing.
ForceStop(c) ==
    /\ pc[c] = "kill"
    /\ Dies(conn[c])
    /\ Cleanup(c, "stopped")
    /\ UNCHANGED <<file, sock, tries>>

-----------------------------------------------------------------------------
Boot(d)  == UnlinkOld(d) \/ Bind(d) \/ Chmod(d) \/ Listen(d)
Close(d) == CloseSockets(d) \/ UnlinkAtEnd(d)
Accept(d) == \E c \in Clients : Serve(d, c) \/ Shutdown(d, c)
Connect(c) == Exists(c) \/ Probe(c) \/ Dial(c) \/ UnlinkMain(c)
                \/ UnlinkStatus(c)
Start(c) == RemoveStale(c) \/ (\E d \in Daemons : Spawn(c, d)) \/ Confirm(c)
Stop(c)  == Acknowledged(c) \/ NotGraceful(c) \/ TeardownSeen(c)
              \/ ForceStop(c)
Proceed(c) == Connect(c) \/ Start(c) \/ Stop(c) \/ Told(c) \/ Untold(c)
                \/ Abandon(c)

Next ==
    \/ \E d \in Daemons : \/ Boot(d) \/ Accept(d) \/ Finish(d) \/ Close(d)
                          \/ IdleTimeout(d) \/ Killed(d)
    \/ \E c \in Clients : Proceed(c) \/ \E k \in Commands : Begin(c, k)

Spec == Init /\ [][Next]_vars

\* A daemon's request ends (every routed command is a bounded computation),
\* its accept loop times out when nobody can reach it, and a running command
\* keeps running.
FairSpec ==
    /\ Spec
    /\ \A d \in Daemons :
          /\ WF_vars(Boot(d) \/ Accept(d) \/ Finish(d) \/ Close(d))
          /\ WF_vars(file["main"] # d /\ IdleTimeout(d))
    /\ \A c \in Clients : WF_vars(Proceed(c))
-----------------------------------------------------------------------------
(***************************************************************************)
(* Properties.                                                             *)
(***************************************************************************)

\* At most one daemon is alive at a time: daemon.start finds the one that is
\* there, busy or not, and daemon.stop does not call stopped what runs on.
OneDaemon ==
    \A d, e \in Daemons : phase[d] \in Live /\ phase[e] \in Live => d = e

\* A daemon that serves can be reached through both of its files: no probe,
\* starter or stopper unlinked them on evidence that was not there.
ServingIsReachable ==
    \A d \in Daemons, s \in Sockets :
        phase[d] \in Established => file[s] = d

\* What a command that returns tells the user: nothing is left serving when
\* it says stopped or no daemon, and a daemon is alive behind its socket when
\* it says still running or already running.
Returns(c, r) == pc[c] # "idle" /\ pc'[c] = "idle" /\ report'[c] \in r
TruthfulReports ==
    [][\A c \in Clients :
         /\ Returns(c, {"stopped", "no-daemon"})
              => \A d \in Daemons : phase'[d] \notin Established
         /\ Returns(c, {"still-running", "already-running"})
              => \E d \in Daemons : phase'[d] \in Live /\ file'["main"] = d]_vars

\* A daemon that nobody can reach any more does not live for ever.
OrphansEnd ==
    \A d \in Daemons :
        phase[d] \in Established /\ file["main"] # d ~> phase[d] = "dead"

\* Every command ends, however daemons die under it.
EveryCommandEnds == \A c \in Clients : pc[c] # "idle" ~> pc[c] = "idle"

\* "a race-free, filesystem-only signal that teardown has actually finished"
\* (daemon._wait_for_teardown): when stop sees the main file gone, the daemon
\* it stopped has unlinked it itself, as its last act.
TeardownSignal ==
    [][\A c \in Clients :
         pc[c] = "teardown" /\ pc'[c] = "idle"
           => \/ phase[conn[c]] = "dead"
              \/ phase[conn[c]] = "unlinking" /\ sock[conn[c]] = "status"]_vars

\* "Closes the race where `start()` used to return [...] a `status` call
\* issued in that window would [...] report an honest-but-wrong \"not
\* running\"" (daemon._wait_for_bind): once start said started, status does
\* not say no daemon while that daemon lives.
NoFalseNegative ==
    [][\A c \in Clients :
         cmd[c] = "status" /\ Returns(c, {"no-daemon"})
           => \A d \in Daemons : phase[d] \notin Booting \cup Established]_vars

\* "A fresh bind attempt closes that race window outright" (daemon_transport.
\* UnixSocketTransport._bind): the socket _bind returns is the one its path
\* leads to.
BoundIsLinked ==
    [][\A d \in Daemons, s \in Sockets :
         s \in up'[d] /\ s \notin up[d] => file[s] = d]_vars
=============================================================================
