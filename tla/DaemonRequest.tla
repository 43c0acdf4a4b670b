---------------------------- MODULE DaemonRequest ----------------------------
(***************************************************************************)
(* A command routed through a daemon: the client hands its request over,   *)
(* waits for the reply while the status listener says busy, and gives up;  *)
(* the daemon accepts one connection at a time and runs what it reads to   *)
(* the end, whether or not the client is still there.                      *)
(*                                                                         *)
(* Time is left out: a read may expire whenever no reply is there.         *)
(***************************************************************************)
EXTENDS Naturals, Sequences

CONSTANTS
    Clients,        \* commands, each issued once
    NoClient,
    SendFailures,   \* may a connect or a send fail?
    Dies,           \* may the daemon die?
    SilentProbes,   \* may a status probe go unanswered?
    OtherBuild,     \* may the daemon be of a build that lacks the command?
    WaitCap         \* reads that may expire before _REQUEST_WAIT_CAP is over

ASSUME RequestAssumption ==
    /\ NoClient \notin Clients
    /\ {SendFailures, Dies, SilentProbes, OtherBuild} \subseteq BOOLEAN
    /\ WaitCap \in Nat

VARIABLES
    alive,      \* the daemon
    step,       \* where its accept loop is
    serving,    \* whose connection it has accepted
    busy,       \* busy_event
    queue,      \* connections it has not accepted yet
    line,       \* the whole request line is in the connection
    closed,     \* the daemon has closed the connection
    reply,      \* what the daemon has sent back
    pc,         \* where each client is
    misses,     \* _PatientWait._misses
    expiries,   \* reads that expired so far
    reason,     \* why the wait is over
    runs,       \* how often the command was run, by either side
    outcome     \* what the command's user got

daemonVars == <<alive, step, serving, busy>>
waitVars == <<misses, expiries, reason>>
vars == <<daemonVars, queue, line, closed, reply, pc, waitVars, runs, outcome>>

-----------------------------------------------------------------------------
TypeOK ==
    /\ alive \in BOOLEAN
    /\ step \in {"accept", "read", "run", "reply"}
    /\ serving \in Clients \cup {NoClient}
    /\ busy \in BOOLEAN
    /\ queue \in Seq(Clients)
    /\ line \in [Clients -> BOOLEAN]
    /\ closed \in [Clients -> BOOLEAN]
    /\ reply \in [Clients -> {"none", "result", "refusal"}]
    /\ pc \in [Clients -> {"dial", "send", "wait", "last-read", "done"}]
    /\ misses \in [Clients -> 0 .. 2]
    /\ expiries \in [Clients -> 0 .. WaitCap]
    /\ reason \in [Clients -> {"timed-out", "limit", "not-busy", "silent"}]
    /\ runs \in [Clients -> Nat]
    /\ outcome \in
         [Clients -> {"none", "local", "answered", "refused", "abandoned"}]
    /\ serving = NoClient <=> step = "accept"
    /\ busy <=> step = "run"

Init ==
    /\ alive = TRUE /\ step = "accept" /\ serving = NoClient /\ busy = FALSE
    /\ queue = <<>>
    /\ line = [c \in Clients |-> FALSE]
    /\ closed = [c \in Clients |-> FALSE]
    /\ reply = [c \in Clients |-> "none"]
    /\ pc = [c \in Clients |-> "dial"]
    /\ misses = [c \in Clients |-> 0]
    /\ expiries = [c \in Clients |-> 0]
    /\ reason = [c \in Clients |-> "timed-out"]
    /\ runs = [c \in Clients |-> 0]
    /\ outcome = [c \in Clients |-> "none"]

-----------------------------------------------------------------------------
\* The daemon: serve_daemon's accept loop and _handle_connection.

Accept ==
    /\ alive /\ step = "accept" /\ queue # <<>>
    /\ serving' = Head(queue)
    /\ queue' = Tail(queue)
    /\ step' = "read"
    /\ UNCHANGED <<alive, busy, line, closed, reply, pc, waitVars, runs,
                   outcome>>

\* Dispatched: from here on it runs to the end.
ReadRequest ==
    /\ alive /\ step = "read" /\ line[serving]
    /\ busy' = TRUE
    /\ runs' = [runs EXCEPT ![serving] = @ + 1]
    /\ step' = "run"
    /\ UNCHANGED <<alive, serving, queue, line, closed, reply, pc, waitVars,
                   outcome>>

\* Mutant of HangUp: the last client is still taken for the one served.
HangUpKeeps ==
    /\ closed' = [closed EXCEPT ![serving] = TRUE]
    /\ step' = "accept"
    /\ UNCHANGED serving

\* The connection is done with, and the loop is ready for the next one.
HangUp ==
    /\ closed' = [closed EXCEPT ![serving] = TRUE]
    /\ serving' = NoClient
    /\ step' = "accept"

\* The other end closed before a whole line came, or none came in time.
NoRequest ==
    /\ alive /\ step = "read" /\ ~line[serving]
    /\ HangUp
    /\ UNCHANGED <<alive, busy, queue, line, reply, pc, waitVars, runs,
                   outcome>>

\* Sending to a client that is gone fails, which makes no difference.
Respond(content) ==
    reply' = [reply EXCEPT ![serving] = IF pc[serving] = "done" THEN @ ELSE content]

\* "unknown or ineligible command", or no JSON: nothing is run.
Refuse ==
    /\ OtherBuild
    /\ alive /\ step = "read" /\ line[serving]
    /\ Respond("refusal")
    /\ HangUp
    /\ UNCHANGED <<alive, busy, queue, line, pc, waitVars, runs, outcome>>

\* busy_event.clear(), then _with_outdated_note, then the reply.
Run ==
    /\ alive /\ step = "run"
    /\ busy' = FALSE
    /\ step' = "reply"
    /\ UNCHANGED <<alive, serving, queue, line, closed, reply, pc, waitVars,
                   runs, outcome>>

Reply ==
    /\ alive /\ step = "reply"
    /\ Respond("result")
    /\ HangUp
    /\ UNCHANGED <<alive, busy, queue, line, pc, waitVars, runs, outcome>>

\* Every connection is reset, whatever the daemon was doing.
Die ==
    /\ Dies /\ alive
    /\ alive' = FALSE
    /\ busy' = FALSE
    /\ queue' = <<>>
    /\ serving' = NoClient
    /\ step' = "accept"
    /\ closed' = [c \in Clients |-> TRUE]
    /\ UNCHANGED <<line, reply, pc, waitVars, runs, outcome>>

-----------------------------------------------------------------------------
\* A client: try_daemon, and what the command line makes of it.

Ends(c, o) ==
    /\ pc' = [pc EXCEPT ![c] = "done"]
    /\ outcome' = [outcome EXCEPT ![c] = o]

\* try_daemon returned None: the command line runs the command itself.
RunLocally(c) ==
    /\ Ends(c, "local")
    /\ runs' = [runs EXCEPT ![c] = @ + 1]

Dial(c) ==
    /\ pc[c] = "dial"
    /\ \/ /\ alive
          /\ queue' = Append(queue, c)
          /\ pc' = [pc EXCEPT ![c] = "send"]
          /\ UNCHANGED <<runs, outcome>>
       \/ /\ ~alive \/ SendFailures
          /\ RunLocally(c)
          /\ UNCHANGED queue
    /\ UNCHANGED <<daemonVars, line, closed, reply, waitVars>>

\* Nothing is dispatched before the newline, and the newline goes last.
Send(c) ==
    /\ pc[c] = "send"
    /\ \/ /\ ~closed[c]
          /\ line' = [line EXCEPT ![c] = TRUE]
          /\ pc' = [pc EXCEPT ![c] = "wait"]
          /\ UNCHANGED <<runs, outcome>>
       \/ /\ closed[c] \/ SendFailures
          /\ RunLocally(c)
          /\ UNCHANGED line
    /\ UNCHANGED <<daemonVars, queue, closed, reply, waitVars>>

Waiting(c) == pc[c] \in {"wait", "last-read"}
Replied(c) == reply[c] # "none"

\* The user gets the daemon's exit code and output, also when it refused.
Receive(c) ==
    /\ Waiting(c) /\ Replied(c)
    /\ Ends(c, IF reply[c] = "result" THEN "answered" ELSE "refused")
    /\ UNCHANGED <<daemonVars, queue, line, closed, reply, waitVars, runs>>

\* Mutant of Lost: a lost reply is taken for a daemon never reached.
LostRunsLocally(c) ==
    /\ Waiting(c) /\ closed[c] /\ ~Replied(c)
    /\ RunLocally(c)
    /\ UNCHANGED <<daemonVars, queue, line, closed, reply, waitVars>>

\* "connection closed before a response arrived"
Lost(c) ==
    /\ Waiting(c) /\ closed[c] /\ ~Replied(c)
    /\ Ends(c, "abandoned")
    /\ UNCHANGED <<daemonVars, queue, line, closed, reply, waitVars, runs>>

GivesUp(c) ==
    /\ pc[c] = "last-read" /\ ~Replied(c) /\ ~closed[c]
    /\ Ends(c, "abandoned")
    /\ UNCHANGED <<daemonVars, queue, line, closed, reply, waitVars, runs>>

\* The status listener's answer to a brief probe, or none.
Probes == (IF alive THEN {IF busy THEN "busy" ELSE "free"} ELSE {}) \cup
          (IF SilentProbes \/ ~alive THEN {"silent"} ELSE {})

\* Mutant of ReachesLimit: the wait is not capped while the daemon is busy.
NoLimit(c) ==
    /\ pc[c] = "wait" /\ ~Replied(c) /\ ~closed[c] /\ expiries[c] = WaitCap
    /\ IF busy THEN UNCHANGED <<pc, outcome>> ELSE Ends(c, "abandoned")
    /\ reason' = [reason EXCEPT ![c] = "limit"]
    /\ UNCHANGED <<daemonVars, queue, line, closed, reply, misses, expiries,
                   runs>>

ReachesLimit(c) ==
    /\ pc[c] = "wait" /\ ~Replied(c) /\ ~closed[c] /\ expiries[c] = WaitCap
    /\ Ends(c, "abandoned")
    /\ reason' = [reason EXCEPT ![c] = "limit"]
    /\ UNCHANGED <<daemonVars, queue, line, closed, reply, misses, expiries,
                   runs>>

\* _PatientWait.next_timeout: another slice, or one last short read.
Expire(c) ==
    /\ pc[c] = "wait" /\ ~Replied(c) /\ ~closed[c] /\ expiries[c] < WaitCap
    /\ expiries' = [expiries EXCEPT ![c] = @ + 1]
    /\ \E answer \in Probes :
          /\ misses' = [misses EXCEPT ![c] =
                          IF answer = "silent" THEN @ + 1 ELSE 0]
          /\ IF answer = "free" \/ misses'[c] >= 2
               THEN /\ pc' = [pc EXCEPT ![c] = "last-read"]
                    /\ reason' = [reason EXCEPT ![c] =
                                    IF answer = "free" THEN "not-busy"
                                                      ELSE "silent"]
               ELSE UNCHANGED <<pc, reason>>
    /\ UNCHANGED <<daemonVars, queue, line, closed, reply, runs, outcome>>

-----------------------------------------------------------------------------
Serve == Accept \/ ReadRequest \/ Refuse \/ NoRequest \/ Run \/ Reply
Request(c) == Dial(c) \/ Send(c) \/ Receive(c) \/ Lost(c) \/ GivesUp(c)
                \/ ReachesLimit(c) \/ Expire(c)
Next == Serve \/ Die \/ \E c \in Clients : Request(c)

Spec == Init /\ [][Next]_vars

\* A client's calls return or time out; a daemon may be stuck for ever.
FairSpec == Spec /\ \A c \in Clients : WF_vars(Request(c))
-----------------------------------------------------------------------------
(***************************************************************************)
(* Properties.                                                             *)
(***************************************************************************)

\* A request runs at most once: by the daemon if the whole line was sent,
\* even when the client has given up, and otherwise by the client; who is told
\* a result had it run, who is refused had it run by nobody
\* (DaemonRequestAbandonedError, _send_daemon_request).
Once == INSTANCE RequestOnce WITH sent <- line
RunsAtMostOnce == Once!Spec

\* Every routed command ends, stuck or dead as the daemon may be.
EveryWaitEnds == \A c \in Clients : <>(pc[c] = "done")

\* "A slow request is waited for as long as the daemon is working on it [...]
\* so a request queued behind another client's slow one waits for both"
\* (docs/cli.md): nobody who was told "busy" gives up later, as "no longer
\* busy", on a request that the daemon is running.
WaitsForBoth ==
    [][\A c \in Clients :
         GivesUp(c) /\ reason[c] = "not-busy" /\ expiries[c] > 1 => ~(busy /\ serving = c)]_vars
=============================================================================
