------------------------ MODULE DaemonLifecycleProofs ------------------------
(***************************************************************************)
(* Proofs about DaemonLifecycle: its types for every value of the          *)
(* constants, and, when each daemon comes up undisturbed and a listening   *)
(* socket answers a connect, one daemon at a time, reachable through both  *)
(* of its files, about which every command reports the truth.              *)
(***************************************************************************)
EXTENDS DaemonLifecycle, TLAPS

Quiet == Overlap = FALSE /\ ConnectTimeouts = FALSE

-----------------------------------------------------------------------------
\* The inductive invariant.

\* What a daemon has bound and listens on, in each phase.  A daemon that
\* listens on both sockets is what both files lead to, also while it closes.
SocketsOf(d) ==
    /\ phase[d] = "unspawned" => sock[d] = "main"
    /\ phase[d] \in {"unspawned", "dead", "unlinking"} => up[d] = {}
    /\ phase[d] \in Booting /\ sock[d] = "main" => up[d] = {}
    /\ phase[d] \in Booting /\ sock[d] = "status"
         => up[d] = {"main"} /\ file["main"] = d
    /\ phase[d] = "bind" => file[sock[d]] = NoOne
    /\ phase[d] \in {"chmod", "listen"} => file[sock[d]] = d
    /\ phase[d] \in Established => up[d] = Sockets
    /\ phase[d] = "closing" => up[d] \in {Sockets, {"main"}}
    /\ up[d] = Sockets => \A s \in Sockets : file[s] = d

SocketInv == \A d \in Daemons : SocketsOf(d)

\* The steps of a start, the ones it takes once it found nothing alive, and
\* the ones at which a command unlinks the files.
StartSteps == {"exists", "probe", "dial", "unlink-main", "unlink-status",
               "stale", "spawn", "confirm"}
ClearedSteps == {"dial", "unlink-main", "unlink-status", "stale", "spawn"}
UnlinkSteps == {"unlink-main", "unlink-status"}

\* Where a command is says what it is, ...
StepInv(c) ==
    /\ cmd[c] = "start" /\ pc[c] # "idle"
         => stage[c] = "reach" /\ pc[c] \in StartSteps
    /\ pc[c] \in {"stale", "spawn", "confirm"} => cmd[c] = "start"
    /\ pc[c] \in UnlinkSteps /\ next[c] = "spawn" => cmd[c] = "start"
    /\ acked[c] => pc[c] \in {"shutdown", "teardown"}

\* ... a start has everything to itself, ...
AloneInv(c) ==
    cmd[c] = "start" /\ pc[c] # "idle"
      => \A e \in Clients \ {c} : pc[e] \in {"idle", "request"}

\* ... and what a command has learnt of the daemons stays true while it runs.
EvidenceInv(c) ==
    \A d \in Daemons :
        /\ phase[d] \in Booting => pc[c] \in {"idle", "request", "confirm"}
        /\ cmd[c] = "start" /\ pc[c] \in {"exists", "probe"}
             => phase[d] \notin Closing
        /\ cmd[c] = "start" /\ pc[c] \in ClearedSteps => phase[d] \notin Live
        /\ pc[c] \in UnlinkSteps => up[d] # Sockets
        /\ pc[c] \in {"shutdown", "query", "kill"} /\ phase[d] \in Live
             => d = conn[c]
        /\ pc[c] = "teardown" \/ (pc[c] = "shutdown" /\ acked[c])
             => phase[d] \notin Established

CommandInv ==
    \A c \in Clients : StepInv(c) /\ AloneInv(c) /\ EvidenceInv(c)

QuietInv == TypeOK /\ SocketInv /\ OneDaemon /\ CommandInv

-----------------------------------------------------------------------------
(***************************************************************************)
(* Types, for every value of the constants.                                *)
(***************************************************************************)

DaemonTypes ==
    /\ phase \in [Daemons -> Phases]
    /\ sock \in [Daemons -> Sockets]
    /\ tries \in [Daemons -> 0 .. 2]
    /\ up \in [Daemons -> SUBSET Sockets]
    /\ serves \in [Daemons -> Clients \cup {NoOne}]
    /\ \A d \in Daemons : serves[d] # NoOne <=> phase[d] = "busy"

ClientTypes ==
    /\ cmd \in [Clients -> CommandKinds]
    /\ pc \in [Clients -> Steps]
    /\ stage \in [Clients -> Stages]
    /\ next \in [Clients -> {"dial", "missed", "spawn", "stopped"}]
    /\ conn \in [Clients -> Daemons \cup {NoOne}]
    /\ acked \in [Clients -> BOOLEAN]
    /\ report \in [Clients -> Reports]
    /\ commands \in Nat

FileType == file \in [Sockets -> Daemons \cup {NoOne}]

LEMMA Types == TypeOK <=> FileType /\ DaemonTypes /\ ClientTypes
  BY DEF TypeOK, FileType, DaemonTypes, ClientTypes

LEMMA TypesNext ==
    FileType' /\ DaemonTypes' /\ ClientTypes' => TypeOK'
  BY DEF TypeOK, FileType, DaemonTypes, ClientTypes

LEMMA ClientTypesStay == ClientTypes /\ UNCHANGED clientVars => ClientTypes'
  BY DEF ClientTypes, clientVars

LEMMA DaemonTypesStay == DaemonTypes /\ UNCHANGED daemonVars => DaemonTypes'
  BY DEF DaemonTypes, daemonVars

LEMMA FileTypeStays == FileType /\ UNCHANGED file => FileType'
  BY DEF FileType

LEMMA DaemonActionTypes ==
    ASSUME DaemonTypes, FileType, NEW d \in Daemons,
           \/ Boot(d) \/ Close(d) \/ IdleTimeout(d) \/ Killed(d)
    PROVE  DaemonTypes' /\ FileType'
<1> USE DEF DaemonTypes, FileType, Phases, Live, Booting, Established, Closing,
            Sockets
<1>1. CASE UnlinkOld(d)
  BY <1>1 DEF UnlinkOld
<1>2. CASE Bind(d)
  BY <1>2 DEF Bind, BindFails
<1>3. CASE Chmod(d)
  BY <1>3 DEF Chmod, BindFails
<1>4. CASE Listen(d)
  BY <1>4 DEF Listen
<1>5. CASE CloseSockets(d)
  BY <1>5 DEF CloseSockets
<1>6. CASE UnlinkAtEnd(d)
  BY <1>6 DEF UnlinkAtEnd
<1>7. CASE IdleTimeout(d)
  BY <1>7 DEF IdleTimeout
<1>8. CASE Killed(d)
  BY <1>8 DEF Killed, Dies
<1> QED BY <1>1, <1>2, <1>3, <1>4, <1>5, <1>6, <1>7, <1>8 DEF Boot, Close

LEMMA ServeTypes ==
    ASSUME TypeOK, NEW d \in Daemons, Accept(d) \/ Finish(d)
    PROVE  TypeOK'
<1> USE ConstantsAssumption DEF TypeOK, Phases, Live, Booting, Established,
            Closing, Steps, Reports, CommandKinds
<1>1. ASSUME NEW c \in Clients, Serve(d, c)
      PROVE  TypeOK'
  BY <1>1 DEF Serve, clientVars
<1>2. ASSUME NEW c \in Clients, Shutdown(d, c)
      PROVE  TypeOK'
  BY <1>2 DEF Shutdown
<1>3. CASE Finish(d)
  BY <1>3 DEF Finish
<1> QED BY <1>1, <1>2, <1>3 DEF Accept

\* What a client's step leaves of its types: the operators it is built from.
LEMMA StepTypes ==
    ASSUME ClientTypes, NEW c \in Clients
    PROVE  /\ \A r \in Reports : Return(c, r) => ClientTypes'
           /\ \A s \in Steps :
                Goto(c, s) /\ UNCHANGED <<cmd, stage, next, conn, acked, report,
                                          commands>>
                  => ClientTypes'
           /\ \A then \in {"dial", "missed", "spawn", "stopped"} :
                Cleanup(c, then) => ClientTypes'
<1> USE DEF ClientTypes, Steps
<1>1. ASSUME NEW r \in Reports, Return(c, r) PROVE ClientTypes'
  BY <1>1 DEF Return
<1>2. ASSUME NEW s \in Steps, Goto(c, s),
             UNCHANGED <<cmd, stage, next, conn, acked, report, commands>>
      PROVE  ClientTypes'
  BY <1>2 DEF Goto
<1>3. ASSUME NEW then \in {"dial", "missed", "spawn", "stopped"},
             Cleanup(c, then)
      PROVE  ClientTypes'
  BY <1>3 DEF Cleanup, Goto
<1> QED BY <1>1, <1>2, <1>3

LEMMA MissedTypes ==
    ASSUME ClientTypes, NEW c \in Clients, Missed(c)
    PROVE  ClientTypes'
<1>1. CASE stage[c] = "reach" /\ cmd[c] = "start"
  BY <1>1, StepTypes DEF Missed, Steps
<1>2. CASE stage[c] = "reach" /\ cmd[c] = "stop"
  BY <1>2 DEF Missed, ClientTypes, Goto, Steps
<1>3. CASE stage[c] = "pid"
  BY <1>3 DEF Missed, ClientTypes, Goto, Steps, Stages
<1>4. CASE ~(stage[c] = "reach" /\ cmd[c] \in {"start", "stop"})
           /\ stage[c] # "pid"
  <2>1. Return(c, "no-daemon")
    BY <1>4 DEF Missed
  <2> QED BY <2>1, StepTypes DEF Reports
<1> QED BY <1>1, <1>2, <1>3, <1>4

LEMMA ConnectedTypes ==
    ASSUME ClientTypes, NEW c \in Clients, NEW d \in Daemons, Connected(c, d)
    PROVE  ClientTypes'
<1>1. CASE stage[c] = "reach" /\ cmd[c] \in {"start", "stop"}
  <2>1. Return(c, "already-running") \/ Return(c, "still-running")
    BY <1>1 DEF Connected
  <2> QED BY <2>1, StepTypes DEF Reports
<1>2. CASE ~(stage[c] = "reach" /\ cmd[c] \in {"start", "stop"})
  BY <1>2 DEF Connected, ClientTypes, Goto, Steps
<1> QED BY <1>1, <1>2

LEMMA ConnectTypes ==
    ASSUME TypeOK, NEW c \in Clients, Connect(c)
    PROVE  TypeOK'
<1>0. FileType /\ DaemonTypes /\ ClientTypes
  BY Types
<1>1. CASE Exists(c)
  <2>1. Missed(c) \/ (\E s \in {"dial", "probe"} : Goto(c, s)
          /\ UNCHANGED <<cmd, stage, next, conn, acked, report, commands>>)
    BY <1>1 DEF Exists
  <2>2. ClientTypes'
    BY <1>0, <2>1, MissedTypes, StepTypes DEF Steps
  <2> QED BY <1>0, <1>1, <2>2, TypesNext, FileTypeStays, DaemonTypesStay
          DEF Exists
<1>2. CASE Probe(c)
  <2>1. \/ \E d \in Daemons : Connected(c, d)
        \/ Goto(c, "dial")
             /\ UNCHANGED <<cmd, stage, next, conn, acked, report, commands>>
        \/ Cleanup(c, "dial")
    BY <1>0, <1>2 DEF Probe, Answers, FileType, Sockets
  <2>2. ClientTypes'
    BY <1>0, <2>1, ConnectedTypes, StepTypes DEF Steps
  <2> QED BY <1>0, <1>2, <2>2, TypesNext, FileTypeStays, DaemonTypesStay
          DEF Probe
<1>3. CASE Dial(c)
  <2>1. \/ \E d \in Daemons : Connected(c, d)
        \/ Missed(c)
        \/ Cleanup(c, "missed")
    BY <1>0, <1>3 DEF Dial, Answers, FileType, Sockets
  <2>2. ClientTypes'
    BY <1>0, <2>1, ConnectedTypes, MissedTypes, StepTypes
  <2> QED BY <1>0, <1>3, <2>2, TypesNext, FileTypeStays, DaemonTypesStay
          DEF Dial
<1>4. CASE UnlinkMain(c)
  <2>1. ClientTypes'
    BY <1>0, <1>4, StepTypes DEF UnlinkMain, Steps
  <2>2. FileType'
    BY <1>0, <1>4 DEF UnlinkMain, FileType
  <2> QED BY <1>0, <1>4, <2>1, <2>2, TypesNext, DaemonTypesStay DEF UnlinkMain
<1>5. CASE UnlinkStatus(c)
  <2>0. next[c] \in {"dial", "missed", "spawn", "stopped"}
    BY <1>0 DEF ClientTypes
  <2>1. \/ Missed(c)
        \/ Return(c, "stopped")
        \/ \E s \in {"dial", "spawn"} : Goto(c, s)
             /\ UNCHANGED <<cmd, stage, next, conn, acked, report, commands>>
    BY <1>5, <2>0 DEF UnlinkStatus
  <2>2. ClientTypes'
    BY <1>0, <2>1, MissedTypes, StepTypes DEF Steps, Reports
  <2>3. FileType'
    BY <1>0, <1>5 DEF UnlinkStatus, FileType
  <2> QED BY <1>0, <1>5, <2>2, <2>3, TypesNext, DaemonTypesStay DEF UnlinkStatus
<1> QED BY <1>1, <1>2, <1>3, <1>4, <1>5 DEF Connect

LEMMA RestTypes ==
    ASSUME TypeOK, NEW c \in Clients,
           \/ Start(c) \/ Stop(c) \/ Told(c) \/ Untold(c) \/ Abandon(c)
    PROVE  TypeOK'
<1>0. FileType /\ DaemonTypes /\ ClientTypes
  BY Types
<1>1. CASE RemoveStale(c)
  <2>1. ClientTypes'
    BY <1>0, <1>1, StepTypes DEF RemoveStale, Steps
  <2> QED BY <1>0, <1>1, <2>1, TypesNext, FileTypeStays, DaemonTypesStay
          DEF RemoveStale
<1>2. ASSUME NEW d \in Daemons, Spawn(c, d)
      PROVE  TypeOK'
  <2>1. ClientTypes'
    BY <1>0, <1>2, StepTypes DEF Spawn, Steps
  <2>2. DaemonTypes'
    BY <1>0, <1>2 DEF Spawn, Unspawned, DaemonTypes, Phases, Live, Booting
  <2> QED BY <1>0, <1>2, <2>1, <2>2, TypesNext, FileTypeStays DEF Spawn
<1>3. CASE Confirm(c)
  <2>1. Return(c, "started") \/ Return(c, "unconfirmed")
    BY <1>3 DEF Confirm
  <2>2. ClientTypes'
    BY <1>0, <2>1, StepTypes DEF Reports
  <2> QED BY <1>0, <1>3, <2>2, TypesNext, FileTypeStays, DaemonTypesStay
          DEF Confirm
<1>4. CASE Acknowledged(c)
  <2>1. ClientTypes'
    BY <1>0, <1>4, StepTypes DEF Acknowledged, Steps
  <2> QED BY <1>0, <1>4, <2>1, TypesNext, FileTypeStays, DaemonTypesStay
          DEF Acknowledged
<1>5. CASE NotGraceful(c)
  <2>1. ClientTypes'
    BY <1>0, <1>5 DEF NotGraceful, ClientTypes, Goto, Steps, Stages
  <2> QED BY <1>0, <1>5, <2>1, TypesNext, FileTypeStays, DaemonTypesStay
          DEF NotGraceful
<1>6. CASE TeardownSeen(c)
  <2>1. ClientTypes'
    BY <1>0, <1>6, StepTypes DEF TeardownSeen, Reports
  <2> QED BY <1>0, <1>6, <2>1, TypesNext, FileTypeStays, DaemonTypesStay
          DEF TeardownSeen
<1>7. CASE ForceStop(c)
  <2>1. ClientTypes'
    BY <1>0, <1>7, StepTypes DEF ForceStop
  <2>2. DaemonTypes'
    BY <1>0, <1>7 DEF ForceStop, Dies, DaemonTypes, Phases
  <2> QED BY <1>0, <1>7, <2>1, <2>2, TypesNext, FileTypeStays DEF ForceStop
<1>8. CASE Told(c)
  <2>1. ClientTypes'
    BY <1>0, <1>8, StepTypes DEF Told, Steps, Reports
  <2> QED BY <1>0, <1>8, <2>1, TypesNext, FileTypeStays, DaemonTypesStay
          DEF Told
<1>9. CASE Untold(c)
  <2>1. ASSUME cmd[c] = "status" PROVE ClientTypes'
    <3>1. Return(c, "no-daemon") \/ Return(c, "answered")
      BY <1>9, <2>1 DEF Untold
    <3> QED BY <1>0, <3>1, StepTypes DEF Reports
  <2>2. ASSUME cmd[c] # "status" PROVE ClientTypes'
    BY <1>0, <1>9, <2>2 DEF Untold, ClientTypes, Goto, Steps, Stages
  <2>3. ClientTypes'
    BY <2>1, <2>2
  <2> QED BY <1>0, <1>9, <2>3, TypesNext, FileTypeStays, DaemonTypesStay
          DEF Untold
<1>10. CASE Abandon(c)
  <2>1. ClientTypes'
    BY <1>0, <1>10, StepTypes DEF Abandon, Reports
  <2> QED BY <1>0, <1>10, <2>1, TypesNext, FileTypeStays, DaemonTypesStay
          DEF Abandon
<1> QED BY <1>1, <1>2, <1>3, <1>4, <1>5, <1>6, <1>7, <1>8, <1>9, <1>10
        DEF Start, Stop

LEMMA BeginTypes ==
    ASSUME TypeOK, NEW c \in Clients, NEW k \in Commands, Begin(c, k)
    PROVE  TypeOK'
<1>0. FileType /\ DaemonTypes /\ ClientTypes
  BY Types
<1>1. ClientTypes'
  BY <1>0, ConstantsAssumption
     DEF Begin, ClientTypes, Goto, Steps, Stages, Reports
<1> QED BY <1>0, <1>1, TypesNext, FileTypeStays, DaemonTypesStay DEF Begin

LEMMA TypeInit == Init => TypeOK
  BY ConstantsAssumption
     DEF Init, TypeOK, Sockets, Phases, Steps, Stages, Reports, CommandKinds

LEMMA TypeStep == TypeOK /\ [Next]_vars => TypeOK'
<1> SUFFICES ASSUME TypeOK, [Next]_vars PROVE TypeOK'
  OBVIOUS
<1>0. FileType /\ DaemonTypes /\ ClientTypes
  BY Types
<1>1. ASSUME NEW d \in Daemons,
             \/ Boot(d) \/ Close(d) \/ IdleTimeout(d) \/ Killed(d)
      PROVE  TypeOK'
  <2>1. UNCHANGED clientVars
    BY <1>1 DEF Boot, Close, UnlinkOld, Bind, Chmod, Listen, CloseSockets,
                UnlinkAtEnd, IdleTimeout, Killed
  <2> QED BY <1>0, <1>1, <2>1, DaemonActionTypes, ClientTypesStay, TypesNext
<1>2. ASSUME NEW d \in Daemons, Accept(d) \/ Finish(d)
      PROVE  TypeOK'
  BY <1>2, ServeTypes
<1>3. ASSUME NEW c \in Clients, Proceed(c)
      PROVE  TypeOK'
  BY <1>3, ConnectTypes, RestTypes DEF Proceed
<1>4. ASSUME NEW c \in Clients, NEW k \in Commands, Begin(c, k)
      PROVE  TypeOK'
  BY <1>4, BeginTypes
<1>5. CASE UNCHANGED vars
  BY <1>0, <1>5, ClientTypesStay, DaemonTypesStay, FileTypeStays, TypesNext
     DEF vars
<1> QED BY <1>1, <1>2, <1>3, <1>4, <1>5 DEF Next

\* Every variable stays in its type, and a daemon is busy exactly while it
\* runs a client's request: for any number of daemons, clients and commands,
\* with every fault of the model switched on.
THEOREM TypeCorrect == Spec => []TypeOK
  BY TypeInit, TypeStep, PTL DEF Spec

-----------------------------------------------------------------------------
(***************************************************************************)
(* The invariant: what the daemons' steps do to the sockets.               *)
(***************************************************************************)

\* A daemon that is not alive has nothing to keep.
LEMMA NotLiveSockets ==
    ASSUME NEW d \in Daemons, TypeOK', phase'[d] \notin Live, up'[d] = {},
           phase'[d] = "unspawned" => sock'[d] = "main"
    PROVE  SocketsOf(d)'
  BY DEF SocketsOf, Live, Booting, Established, Closing, Sockets

\* Who is not alive listens on nothing.
LEMMA ListenersLive ==
    ASSUME TypeOK, SocketInv, NEW d \in Daemons
    PROVE  /\ up[d] # {} => phase[d] \in Live
           /\ phase[d] \notin Live
                => up[d] = {} /\ phase[d] \in {"unspawned", "dead"}
  BY DEF TypeOK, SocketInv, SocketsOf, Phases, Live, Booting, Established,
         Closing

\* Only the one live daemon moves, so its own sockets are what is left to
\* look at.
LEMMA OneMoves ==
    ASSUME TypeOK, TypeOK', SocketInv, OneDaemon, NEW d \in Daemons,
           phase[d] \in Live, SocketsOf(d)',
           \A e \in Daemons \ {d} : /\ phase'[e] = phase[e]
                                    /\ sock'[e] = sock[e] /\ up'[e] = up[e]
    PROVE  SocketInv' /\ OneDaemon'
<1>1. \A e \in Daemons \ {d} : phase[e] \notin Live
  BY DEF OneDaemon
<1>2. OneDaemon'
  BY <1>1 DEF OneDaemon
<1>3. ASSUME NEW e \in Daemons \ {d} PROVE SocketsOf(e)'
  <2>1. up[e] = {} /\ (phase[e] = "unspawned" => sock[e] = "main")
    BY <1>1, ListenersLive DEF SocketInv, SocketsOf
  <2> QED BY <1>1, <2>1, NotLiveSockets
<1> QED BY <1>2, <1>3 DEF SocketInv

LEMMA BootSockets ==
    ASSUME QuietInv, TypeOK', NEW d \in Daemons, Boot(d)
    PROVE  SocketInv' /\ OneDaemon'
<1>0. TypeOK /\ SocketInv /\ OneDaemon /\ SocketsOf(d) /\ phase[d] \in Live
  BY DEF QuietInv, SocketInv, Boot, UnlinkOld, Bind, Chmod, Listen, Live,
         Booting
<1>1. /\ sock[d] \in {"main", "status"} /\ d # NoOne
      /\ file \in [Sockets -> Daemons \cup {NoOne}]
      /\ phase \in [Daemons -> Phases] /\ sock \in [Daemons -> Sockets]
      /\ up \in [Daemons -> SUBSET Sockets] /\ tries \in [Daemons -> 0 .. 2]
  BY <1>0, ConstantsAssumption DEF TypeOK, Sockets
<1> USE DEF SocketsOf, Booting, Established, Sockets
<1>2. CASE UnlinkOld(d)
  <2>1. SocketsOf(d)'
    BY <1>0, <1>1, <1>2 DEF UnlinkOld
  <2> QED BY <1>0, <1>1, <1>2, <2>1, OneMoves DEF UnlinkOld
<1>3. CASE Bind(d)
  <2>1. SocketsOf(d)'
    BY <1>0, <1>1, <1>3 DEF Bind
  <2> QED BY <1>0, <1>1, <1>3, <2>1, OneMoves DEF Bind, BindFails
<1>4. CASE Chmod(d)
  <2>1. SocketsOf(d)'
    BY <1>0, <1>1, <1>4 DEF Chmod
  <2> QED BY <1>0, <1>1, <1>4, <2>1, OneMoves DEF Chmod, BindFails
<1>5. CASE Listen(d)
  <2>1. SocketsOf(d)'
    BY <1>0, <1>1, <1>5 DEF Listen
  <2> QED BY <1>0, <1>1, <1>5, <2>1, OneMoves DEF Listen
<1> QED BY <1>2, <1>3, <1>4, <1>5 DEF Boot

LEMMA RunSockets ==
    ASSUME QuietInv, TypeOK', NEW d \in Daemons,
           \/ Accept(d) \/ Finish(d) \/ Close(d) \/ IdleTimeout(d) \/ Killed(d)
    PROVE  SocketInv' /\ OneDaemon'
<1>0. /\ TypeOK /\ SocketInv /\ OneDaemon /\ SocketsOf(d)
      /\ phase[d] \in Live
  BY DEF QuietInv, SocketInv, Accept, Finish, Close, IdleTimeout, Killed,
         Serve, Shutdown, CloseSockets, UnlinkAtEnd, Live, Established, Closing
<1>1. /\ file \in [Sockets -> Daemons \cup {NoOne}]
      /\ phase \in [Daemons -> Phases] /\ sock \in [Daemons -> Sockets]
      /\ up \in [Daemons -> SUBSET Sockets]
  BY <1>0 DEF TypeOK
<1> USE DEF SocketsOf, Booting, Established, Sockets
<1>2. ASSUME NEW c \in Clients, Serve(d, c) \/ Shutdown(d, c)
      PROVE  SocketInv' /\ OneDaemon'
  <2>1. SocketsOf(d)'
    BY <1>0, <1>1, <1>2 DEF Serve, Shutdown
  <2> QED BY <1>0, <1>1, <1>2, <2>1, OneMoves DEF Serve, Shutdown
<1>3. CASE Finish(d)
  <2>1. SocketsOf(d)'
    BY <1>0, <1>1, <1>3 DEF Finish
  <2> QED BY <1>0, <1>1, <1>3, <2>1, OneMoves DEF Finish
<1>4. CASE CloseSockets(d)
  <2>1. SocketsOf(d)'
    BY <1>0, <1>1, <1>4 DEF CloseSockets
  <2> QED BY <1>0, <1>1, <1>4, <2>1, OneMoves DEF CloseSockets
<1>5. CASE UnlinkAtEnd(d)
  <2>1. SocketsOf(d)'
    BY <1>0, <1>1, <1>5 DEF UnlinkAtEnd
  <2> QED BY <1>0, <1>1, <1>5, <2>1, OneMoves DEF UnlinkAtEnd
<1>6. CASE IdleTimeout(d)
  <2>1. SocketsOf(d)'
    BY <1>0, <1>1, <1>6 DEF IdleTimeout
  <2> QED BY <1>0, <1>1, <1>6, <2>1, OneMoves DEF IdleTimeout
<1>7. CASE Killed(d)
  <2>1. phase'[d] = "dead" /\ up'[d] = {}
    BY <1>1, <1>7 DEF Killed, Dies
  <2>2. SocketsOf(d)'
    BY <2>1
  <2> QED BY <1>0, <1>1, <1>7, <2>2, OneMoves DEF Killed, Dies
<1> QED BY <1>2, <1>3, <1>4, <1>5, <1>6, <1>7 DEF Accept, Close

-----------------------------------------------------------------------------
(***************************************************************************)
(* The invariant: what the daemons' steps leave true of the commands.      *)
(***************************************************************************)

\* A daemon that only goes down takes nothing from what a command knows.
LEMMA GoingDown ==
    ASSUME CommandInv, UNCHANGED clientVars,
           \A e \in Daemons :
               /\ phase'[e] \in Live => phase[e] \in Live
               /\ phase'[e] \in Booting => phase[e] \in Booting
               /\ phase'[e] \in Established => phase[e] \in Established
               /\ phase'[e] \in Closing
                    => \/ phase[e] \in Closing
                       \/ \A c \in Clients : cmd[c] = "start" => pc[c] = "idle"
               /\ up'[e] = Sockets => up[e] = Sockets
    PROVE  CommandInv'
<1> SUFFICES ASSUME NEW c \in Clients
             PROVE  StepInv(c)' /\ AloneInv(c)' /\ EvidenceInv(c)'
  BY DEF CommandInv
<1>0. StepInv(c) /\ AloneInv(c) /\ EvidenceInv(c)
  BY DEF CommandInv
<1>1. StepInv(c)' /\ AloneInv(c)'
  BY <1>0 DEF StepInv, AloneInv, clientVars
<1>2. EvidenceInv(c)'
  BY <1>0 DEF EvidenceInv, clientVars
<1> QED BY <1>1, <1>2

LEMMA BootCommands ==
    ASSUME QuietInv, TypeOK', NEW d \in Daemons, Boot(d)
    PROVE  CommandInv'
<1>0. /\ TypeOK /\ SocketInv /\ OneDaemon /\ SocketsOf(d) /\ CommandInv
      /\ phase[d] \in Booting /\ UNCHANGED clientVars
  BY DEF QuietInv, SocketInv, Boot, UnlinkOld, Bind, Chmod, Listen, Booting
<1>1. /\ sock[d] \in {"main", "status"} /\ d # NoOne
      /\ file \in [Sockets -> Daemons \cup {NoOne}]
      /\ phase \in [Daemons -> Phases] /\ sock \in [Daemons -> Sockets]
      /\ up \in [Daemons -> SUBSET Sockets]
  BY <1>0, ConstantsAssumption DEF TypeOK, Sockets
<1>2. CASE UnlinkOld(d)
  BY <1>0, <1>1, <1>2, GoingDown
     DEF UnlinkOld, Live, Booting, Established, Closing
<1>3. CASE Bind(d)
  <2>1. file[sock[d]] = NoOne
    BY <1>0, <1>3 DEF Bind, SocketsOf
  <2> QED BY <1>0, <1>1, <1>3, <2>1, GoingDown
          DEF Bind, Live, Booting, Established, Closing
<1>4. CASE Chmod(d)
  <2>1. file[sock[d]] # NoOne
    BY <1>0, <1>1, <1>4 DEF Chmod, SocketsOf
  <2> QED BY <1>0, <1>1, <1>4, <2>1, GoingDown
          DEF Chmod, Live, Booting, Established, Closing
<1>5. CASE Listen(d)
  <2>1. ASSUME NEW c \in Clients
        PROVE  StepInv(c)' /\ AloneInv(c)' /\ EvidenceInv(c)'
    <3>1. StepInv(c) /\ AloneInv(c) /\ EvidenceInv(c)
      BY <1>0 DEF CommandInv
    <3>2. pc[c] \in {"idle", "request", "confirm"}
      BY <1>0, <3>1 DEF EvidenceInv
    <3>3. UNCHANGED <<pc, cmd, stage, next, acked, conn>>
      BY <1>0 DEF clientVars
    <3>4. StepInv(c)' /\ AloneInv(c)'
      BY <3>1, <3>3 DEF StepInv, AloneInv
    <3>5. EvidenceInv(c)'
      BY <3>2, <3>3 DEF EvidenceInv, ClearedSteps, UnlinkSteps
    <3> QED BY <3>4, <3>5
  <2> QED BY <2>1 DEF CommandInv
<1> QED BY <1>2, <1>3, <1>4, <1>5 DEF Boot

LEMMA EndCommands ==
    ASSUME QuietInv, Quiet, TypeOK', NEW d \in Daemons,
           Close(d) \/ IdleTimeout(d) \/ Killed(d)
    PROVE  CommandInv'
<1>0. TypeOK /\ SocketsOf(d) /\ CommandInv
  BY DEF QuietInv, SocketInv
<1>1. /\ phase \in [Daemons -> Phases] /\ up \in [Daemons -> SUBSET Sockets]
  BY <1>0 DEF TypeOK
<1> USE DEF Live, Booting, Established, Closing
<1>2. CASE CloseSockets(d)
  BY <1>0, <1>1, <1>2, GoingDown DEF CloseSockets, Sockets
<1>3. CASE UnlinkAtEnd(d)
  BY <1>0, <1>1, <1>3, GoingDown DEF UnlinkAtEnd
<1>4. CASE IdleTimeout(d)
  BY <1>0, <1>1, <1>4, GoingDown DEF IdleTimeout, Quiet
<1>5. CASE Killed(d)
  BY <1>0, <1>1, <1>5, GoingDown DEF Killed, Dies, Sockets
<1> QED BY <1>2, <1>3, <1>4, <1>5 DEF Close

LEMMA AcceptCommands ==
    ASSUME QuietInv, TypeOK', NEW d \in Daemons, Accept(d)
    PROVE  CommandInv'
<1>0. TypeOK /\ OneDaemon /\ CommandInv
  BY DEF QuietInv
<1>1. phase \in [Daemons -> Phases] /\ acked \in [Clients -> BOOLEAN]
  BY <1>0 DEF TypeOK
<1> USE DEF Live, Booting, Established, Closing
<1>2. ASSUME NEW c \in Clients, Serve(d, c)
      PROVE  CommandInv'
  BY <1>0, <1>1, <1>2, GoingDown DEF Serve
<1>3. ASSUME NEW c \in Clients, Shutdown(d, c)
      PROVE  CommandInv'
  <2>1. /\ pc[c] = "shutdown" /\ acked' = [acked EXCEPT ![c] = TRUE]
        /\ phase' = [phase EXCEPT ![d] = "closing"] /\ phase[d] = "serving"
        /\ UNCHANGED <<pc, cmd, stage, next, conn, up>>
    BY <1>3 DEF Shutdown
  <2>2. \A e \in Daemons \ {d} : phase[e] \notin Live
    BY <1>0, <2>1 DEF OneDaemon
  <2>3. \A e \in Daemons : phase'[e] \notin Established
    BY <1>1, <2>1, <2>2
  <2>4. ASSUME NEW e \in Clients
        PROVE  StepInv(e)' /\ AloneInv(e)' /\ EvidenceInv(e)'
    <3>1. StepInv(e) /\ AloneInv(e) /\ EvidenceInv(e)
      BY <1>0 DEF CommandInv
    <3>2. StepInv(e)'
      BY <1>1, <2>1, <3>1 DEF StepInv
    <3>3. AloneInv(e)'
      BY <2>1, <3>1 DEF AloneInv
    <3>4. cmd[e] = "start" => pc[e] = "idle"
      <4>1. CASE e = c
        BY <4>1, <2>1, <3>1 DEF StepInv, StartSteps
      <4>2. CASE e # c
        BY <4>2, <2>1, <3>1 DEF AloneInv
      <4> QED BY <4>1, <4>2
    <3>5. EvidenceInv(e)'
      BY <1>1, <2>1, <2>2, <2>3, <3>1, <3>4
         DEF EvidenceInv, ClearedSteps
    <3> QED BY <3>2, <3>3, <3>5
  <2> QED BY <2>4 DEF CommandInv
<1> QED BY <1>2, <1>3 DEF Accept

LEMMA FinishCommands ==
    ASSUME QuietInv, TypeOK', NEW d \in Daemons, Finish(d)
    PROVE  CommandInv'
<1>0. TypeOK /\ CommandInv
  BY DEF QuietInv
<1>1. /\ phase \in [Daemons -> Phases] /\ pc \in [Clients -> Steps]
      /\ conn \in [Clients -> Daemons \cup {NoOne}]
  BY <1>0 DEF TypeOK
<1>2. /\ phase' = [phase EXCEPT ![d] = "serving"] /\ phase[d] = "busy"
      /\ UNCHANGED <<cmd, stage, next, acked, up>>
  BY DEF Finish
<1>3. \A c \in Clients :
        \/ pc'[c] = pc[c] /\ conn'[c] = conn[c]
        \/ pc[c] = "request" /\ pc'[c] = "idle"
  BY <1>1 DEF Finish
<1> SUFFICES ASSUME NEW c \in Clients
             PROVE  StepInv(c)' /\ AloneInv(c)' /\ EvidenceInv(c)'
  BY DEF CommandInv
<1>4. StepInv(c) /\ AloneInv(c) /\ EvidenceInv(c)
  BY <1>0 DEF CommandInv
<1>5. StepInv(c)'
  BY <1>2, <1>3, <1>4 DEF StepInv, UnlinkSteps
<1>6. AloneInv(c)'
  BY <1>2, <1>3, <1>4 DEF AloneInv
<1>7. EvidenceInv(c)'
  BY <1>1, <1>2, <1>3, <1>4
     DEF EvidenceInv, ClearedSteps, UnlinkSteps, Live, Booting, Established,
         Closing
<1> QED BY <1>5, <1>6, <1>7

-----------------------------------------------------------------------------
(***************************************************************************)
(* The invariant: the commands' steps.                                     *)
(***************************************************************************)

\* A path that leads nowhere, or to a socket nobody listens on, is evidence
\* that nothing serves.
LEMMA Silent ==
    ASSUME QuietInv, Quiet, NEW s \in Sockets, file[s] = NoOne \/ Refuses(s)
    PROVE  \A d \in Daemons : up[d] # Sockets /\ phase[d] \notin Established
<1> SUFFICES ASSUME NEW d \in Daemons, up[d] = Sockets \/ phase[d] \in Established
             PROVE  FALSE
  OBVIOUS
<1>1. SocketsOf(d) /\ d # NoOne
  BY ConstantsAssumption DEF QuietInv, SocketInv
<1>2. up[d] = Sockets /\ file[s] = d
  BY <1>1 DEF SocketsOf
<1> QED BY <1>1, <1>2 DEF Refuses, Quiet

\* For a start, which found nothing coming up or going down when it began,
\* it is evidence that nothing is alive.
LEMMA SilentStart ==
    ASSUME QuietInv, NEW c \in Clients, cmd[c] = "start",
           pc[c] \in {"exists", "probe"} \cup ClearedSteps,
           \A d \in Daemons : phase[d] \notin Established
    PROVE  \A d \in Daemons : phase[d] \notin Live
<1> SUFFICES ASSUME NEW d \in Daemons PROVE phase[d] \notin Live
  OBVIOUS
<1>1. EvidenceInv(c)
  BY DEF QuietInv, CommandInv
<1> QED BY <1>1 DEF EvidenceInv, Live, ClearedSteps

\* What answers is the one live daemon.
LEMMA AnswersLive ==
    ASSUME QuietInv, NEW s \in Sockets, Answers(s)
    PROVE  /\ file[s] \in Daemons /\ phase[file[s]] \in Live
           /\ \A d \in Daemons : phase[d] \in Live => d = file[s]
<1>1. file[s] \in Daemons
  BY DEF QuietInv, TypeOK, Answers
<1>2. phase[file[s]] \in Live
  BY <1>1, ListenersLive DEF QuietInv, Answers
<1> QED BY <1>1, <1>2 DEF QuietInv, OneDaemon

\* The steps at which nobody boots, because somebody is in between.
LEMMA NoneBoots ==
    ASSUME QuietInv, NEW c \in Clients,
           pc[c] \notin {"idle", "request", "confirm"}
    PROVE  \A d \in Daemons : phase[d] \notin Booting
  BY DEF QuietInv, CommandInv, EvidenceInv

\* A command other than Begin moves alone.
LEMMA MovesAlone ==
    ASSUME QuietInv, NEW c \in Clients, UNCHANGED <<phase, up>>,
           pc[c] # "idle", UNCHANGED cmd, StepInv(c)', EvidenceInv(c)',
           pc[c] = "request" => pc'[c] = "idle",
           \A e \in Clients \ {c} :
               /\ pc'[e] = pc[e] /\ stage'[e] = stage[e] /\ next'[e] = next[e]
               /\ conn'[e] = conn[e] /\ acked'[e] = acked[e]
    PROVE  CommandInv'
<1> SUFFICES ASSUME NEW e \in Clients
             PROVE  StepInv(e)' /\ AloneInv(e)' /\ EvidenceInv(e)'
  BY DEF CommandInv
<1>1. /\ StepInv(e) /\ AloneInv(e) /\ EvidenceInv(e)
      /\ StepInv(c) /\ AloneInv(c)
  BY DEF QuietInv, CommandInv
<1>2. CASE e = c
  <2>1. AloneInv(c)'
    BY <1>1 DEF AloneInv
  <2> QED BY <1>2, <2>1
<1>3. CASE e # c
  <2>1. StepInv(e)'
    BY <1>1, <1>3 DEF StepInv
  <2>2. AloneInv(e)'
    BY <1>1, <1>3 DEF AloneInv
  <2>3. EvidenceInv(e)'
    BY <1>1, <1>3 DEF EvidenceInv
  <2> QED BY <2>1, <2>2, <2>3
<1> QED BY <1>2, <1>3

\* A command that returns forgets what it knew.
LEMMA Returned ==
    ASSUME QuietInv, NEW c \in Clients, NEW r \in Reports, pc[c] # "idle",
           Return(c, r), UNCHANGED <<phase, up>>
    PROVE  CommandInv'
<1>1. /\ pc \in [Clients -> Steps] /\ acked \in [Clients -> BOOLEAN]
      /\ conn \in [Clients -> Daemons \cup {NoOne}]
  BY DEF QuietInv, TypeOK
<1>2. /\ pc' = [pc EXCEPT ![c] = "idle"] /\ acked' = [acked EXCEPT ![c] = FALSE]
      /\ conn' = [conn EXCEPT ![c] = NoOne]
      /\ UNCHANGED <<cmd, stage, next, commands>>
  BY DEF Return
<1>3. pc'[c] = "idle" /\ acked'[c] = FALSE
  BY <1>1, <1>2
<1>4. StepInv(c)'
  BY <1>3 DEF StepInv, UnlinkSteps
<1>5. EvidenceInv(c)'
  BY <1>3 DEF EvidenceInv, UnlinkSteps, ClearedSteps
<1>6. \A e \in Clients \ {c} : pc'[e] = pc[e] /\ conn'[e] = conn[e]
                                /\ acked'[e] = acked[e]
  BY <1>1, <1>2
<1> QED BY <1>2, <1>3, <1>4, <1>5, <1>6, MovesAlone

\* A command that goes on, to a step it has the evidence for.
LEMMA GoesOn ==
    ASSUME QuietInv, TypeOK', NEW c \in Clients, NEW s \in Steps,
           Goto(c, s), UNCHANGED <<phase, up, cmd>>, ~acked'[c],
           pc[c] \notin {"idle", "request", "confirm"},
           s \notin {"shutdown", "query", "kill", "teardown", "request", "idle",
                     "confirm"},
           \A e \in Clients \ {c} : /\ stage'[e] = stage[e]
                                    /\ next'[e] = next[e]
                                    /\ conn'[e] = conn[e]
                                    /\ acked'[e] = acked[e],
           cmd[c] = "start" => stage'[c] = "reach",
           cmd[c] = "start" /\ s \in {"exists", "probe"}
             => \A d \in Daemons : phase[d] \notin Closing,
           cmd[c] = "start" /\ s \in ClearedSteps
             => \A d \in Daemons : phase[d] \notin Live,
           s \in {"stale", "spawn"} => cmd[c] = "start",
           s \in UnlinkSteps => \A d \in Daemons : up[d] # Sockets,
           s \in UnlinkSteps /\ next'[c] = "spawn" => cmd[c] = "start"
    PROVE  CommandInv'
<1>1. pc'[c] = s /\ \A e \in Clients \ {c} : pc'[e] = pc[e]
  BY DEF QuietInv, TypeOK, Goto
<1>2. s \in StartSteps
  BY DEF Steps, StartSteps
<1>3. StepInv(c)'
  BY <1>1, <1>2 DEF StepInv
<1>4. \A d \in Daemons : phase[d] \notin Booting
  BY NoneBoots
<1>5. EvidenceInv(c)'
  BY <1>1, <1>4 DEF EvidenceInv
<1> QED BY <1>1, <1>3, <1>5, MovesAlone

\* Nothing answered: each command draws its own conclusion.
LEMMA MissedKeeps ==
    ASSUME QuietInv, TypeOK', NEW c \in Clients, UNCHANGED <<phase, up>>,
           pc[c] \in {"exists", "dial", "unlink-status"}, Missed(c),
           \A d \in Daemons : up[d] # Sockets /\ phase[d] \notin Established
    PROVE  CommandInv'
<1>0. StepInv(c) /\ ~acked[c]
  BY DEF QuietInv, CommandInv, StepInv
<1>t. /\ stage \in [Clients -> Stages]
      /\ next \in [Clients -> {"dial", "missed", "spawn", "stopped"}]
  BY DEF QuietInv, TypeOK
<1>1. CASE stage[c] = "reach" /\ cmd[c] = "start"
  <2>1. \A d \in Daemons : phase[d] \notin Live
    BY <1>1, SilentStart DEF ClearedSteps
  <2>2. /\ Goto(c, "stale")
        /\ UNCHANGED <<cmd, stage, next, conn, acked>>
    BY <1>1 DEF Missed
  <2> QED BY <1>0, <1>1, <2>1, <2>2, GoesOn DEF Steps, ClearedSteps, UnlinkSteps
<1>2. CASE stage[c] = "reach" /\ cmd[c] = "stop"
  <2>1. /\ Goto(c, "unlink-main") /\ next' = [next EXCEPT ![c] = "stopped"]
        /\ UNCHANGED <<cmd, stage, conn, acked>>
    BY <1>2 DEF Missed
  <2>2. next'[c] = "stopped" /\ \A e \in Clients \ {c} : next'[e] = next[e]
    BY <1>t, <2>1
  <2> QED BY <1>0, <1>2, <2>1, <2>2, GoesOn DEF Steps, ClearedSteps, UnlinkSteps
<1>3. CASE stage[c] = "pid"
  <2>1. /\ Goto(c, "exists") /\ stage' = [stage EXCEPT ![c] = "reach"]
        /\ UNCHANGED <<cmd, next, conn, acked>>
    BY <1>3 DEF Missed
  <2>2. cmd[c] # "start"
    BY <1>0, <1>3 DEF StepInv
  <2>3. \A e \in Clients \ {c} : stage'[e] = stage[e]
    BY <1>t, <2>1
  <2> QED BY <1>0, <1>3, <2>1, <2>2, <2>3, GoesOn
          DEF Steps, ClearedSteps, UnlinkSteps
<1>4. CASE ~(stage[c] = "reach" /\ cmd[c] \in {"start", "stop"})
           /\ stage[c] # "pid"
  <2>1. Return(c, "no-daemon")
    BY <1>4 DEF Missed
  <2> QED BY <2>1, Returned DEF Reports
<1> QED BY <1>1, <1>2, <1>3, <1>4

\* The files go only on the evidence that nothing serves.
LEMMA CleanupKeeps ==
    ASSUME QuietInv, TypeOK', NEW c \in Clients, UNCHANGED <<phase, up>>,
           pc[c] \notin {"idle", "request", "confirm", "shutdown", "teardown"},
           NEW then \in {"dial", "missed", "spawn", "stopped"},
           Cleanup(c, then), then = "spawn" => cmd[c] = "start",
           \A d \in Daemons : up[d] # Sockets,
           cmd[c] = "start" => \A d \in Daemons : phase[d] \notin Live
    PROVE  CommandInv'
<1>0. StepInv(c) /\ ~acked[c]
  BY DEF QuietInv, CommandInv, StepInv
<1>1. next \in [Clients -> {"dial", "missed", "spawn", "stopped"}]
  BY DEF QuietInv, TypeOK
<1>2. /\ Goto(c, "unlink-main") /\ next' = [next EXCEPT ![c] = then]
      /\ UNCHANGED <<cmd, stage, conn, acked>>
  BY DEF Cleanup
<1>3. next'[c] = then /\ \A e \in Clients \ {c} : next'[e] = next[e]
  BY <1>1, <1>2
<1>4. cmd[c] = "start" => stage[c] = "reach"
  BY <1>0 DEF StepInv
<1> QED BY <1>0, <1>2, <1>3, <1>4, GoesOn DEF Steps, ClearedSteps, UnlinkSteps

\* A command is connected to the one daemon there is.
LEMMA ConnectedKeeps ==
    ASSUME QuietInv, NEW c \in Clients, UNCHANGED <<phase, up>>,
           pc[c] \in {"probe", "dial"}, NEW s \in Sockets, Answers(s),
           Connected(c, file[s])
    PROVE  CommandInv'
<1>0. /\ StepInv(c) /\ EvidenceInv(c) /\ ~acked[c]
      /\ pc \in [Clients -> Steps] /\ conn \in [Clients -> Daemons \cup {NoOne}]
  BY DEF QuietInv, TypeOK, CommandInv, StepInv
<1>1. CASE stage[c] = "reach" /\ cmd[c] \in {"start", "stop"}
  <2>1. Return(c, "already-running") \/ Return(c, "still-running")
    BY <1>1 DEF Connected
  <2> QED BY <2>1, Returned DEF Reports
<1>2. CASE ~(stage[c] = "reach" /\ cmd[c] \in {"start", "stop"})
  <2>1. PICK t \in {"request", "shutdown", "query"} :
              Goto(c, t) /\ conn' = [conn EXCEPT ![c] = file[s]]
              /\ UNCHANGED <<cmd, stage, next, acked>>
    BY <1>2 DEF Connected
  <2>2. pc'[c] = t /\ conn'[c] = file[s]
        /\ \A e \in Clients \ {c} : pc'[e] = pc[e] /\ conn'[e] = conn[e]
    BY <1>0, <2>1 DEF Goto
  <2>3. cmd[c] # "start"
    BY <1>0, <1>2 DEF StepInv
  <2>4. StepInv(c)'
    BY <1>0, <2>1, <2>2, <2>3 DEF StepInv, UnlinkSteps
  <2>5. \A d \in Daemons : phase[d] \notin Booting
                             /\ (phase[d] \in Live => d = file[s])
    BY NoneBoots, AnswersLive
  <2>6. EvidenceInv(c)'
    BY <1>0, <2>1, <2>2, <2>3, <2>5
       DEF EvidenceInv, UnlinkSteps, ClearedSteps
  <2> QED BY <2>1, <2>2, <2>4, <2>6, MovesAlone
<1> QED BY <1>1, <1>2

LEMMA ConnectCommands ==
    ASSUME QuietInv, Quiet, TypeOK', NEW c \in Clients, Connect(c)
    PROVE  CommandInv'
<1>0. /\ StepInv(c) /\ EvidenceInv(c)
      /\ \A d \in Daemons : SocketsOf(d)
      /\ UNCHANGED <<phase, up>>
  BY DEF QuietInv, CommandInv, SocketInv, Connect, Exists, Probe, Dial,
         UnlinkMain, UnlinkStatus, daemonVars
<1>m. "main" \in Sockets /\ "status" \in Sockets
  BY DEF Sockets
<1>1. CASE Exists(c)
  <2>1. CASE file["main"] = NoOne
    BY <1>0, <1>1, <1>m, <2>1, Silent, MissedKeeps DEF Exists
  <2>2. CASE file["main"] # NoOne
    <3>1. PICK s \in {"dial", "probe"} :
                /\ Goto(c, s) /\ UNCHANGED <<cmd, stage, next, conn, acked>>
                /\ s = "dial" => stage[c] = "ask"
      BY <1>1, <2>2 DEF Exists
    <3>2. /\ pc[c] = "exists" /\ ~acked[c]
          /\ cmd[c] = "start" => stage[c] = "reach"
      BY <1>0, <1>1 DEF Exists, StepInv
    <3>3. cmd[c] = "start" => \A d \in Daemons : phase[d] \notin Closing
      BY <1>0, <3>2 DEF EvidenceInv
    <3> QED BY <1>0, <3>1, <3>2, <3>3, GoesOn
            DEF Steps, ClearedSteps, UnlinkSteps
  <2> QED BY <2>1, <2>2
<1>2. CASE Probe(c)
  <2>0. pc[c] = "probe" /\ ~acked[c] /\ (cmd[c] = "start" => stage[c] = "reach")
    BY <1>0, <1>2 DEF Probe, StepInv
  <2>1. CASE Answers("status") /\ Connected(c, file["status"])
    BY <1>0, <1>m, <2>0, <2>1, ConnectedKeeps
  <2>2. CASE Unavailable("status") /\ Goto(c, "dial")
              /\ UNCHANGED <<cmd, stage, next, conn, acked>>
    <3>1. \A d \in Daemons : phase[d] \notin Established
      BY <1>m, <2>2, Silent DEF Unavailable, Quiet
    <3>2. cmd[c] = "start" => \A d \in Daemons : phase[d] \notin Live
      BY <2>0, <3>1, SilentStart
    <3> QED BY <1>0, <2>0, <2>2, <3>2, GoesOn
            DEF Steps, ClearedSteps, UnlinkSteps
  <2>3. CASE Refuses("status") /\ Cleanup(c, "dial")
    <3>1. \A d \in Daemons : up[d] # Sockets /\ phase[d] \notin Established
      BY <1>m, <2>3, Silent
    <3>2. cmd[c] = "start" => \A d \in Daemons : phase[d] \notin Live
      BY <2>0, <3>1, SilentStart
    <3> QED BY <1>0, <2>0, <2>3, <3>1, <3>2, CleanupKeeps
  <2> QED BY <1>2, <2>1, <2>2, <2>3 DEF Probe
<1>3. CASE Dial(c)
  <2>0. pc[c] = "dial"
    BY <1>3 DEF Dial
  <2>1. CASE Answers("main") /\ Connected(c, file["main"])
    BY <1>0, <1>m, <2>0, <2>1, ConnectedKeeps
  <2>2. CASE Unavailable("main") /\ Missed(c)
    BY <1>0, <1>m, <2>0, <2>2, Silent, MissedKeeps DEF Unavailable, Quiet
  <2>3. CASE Refuses("main") /\ Cleanup(c, "missed")
    <3>1. \A d \in Daemons : up[d] # Sockets /\ phase[d] \notin Established
      BY <1>m, <2>3, Silent
    <3>2. cmd[c] = "start" => \A d \in Daemons : phase[d] \notin Live
      BY <2>0, <3>1, SilentStart DEF ClearedSteps
    <3> QED BY <1>0, <2>0, <2>3, <3>1, <3>2, CleanupKeeps
  <2> QED BY <1>3, <2>1, <2>2, <2>3 DEF Dial
<1>4. CASE UnlinkMain(c)
  <2>1. /\ pc[c] = "unlink-main" /\ ~acked[c] /\ Goto(c, "unlink-status")
        /\ UNCHANGED <<cmd, stage, next, conn, acked>>
    BY <1>0, <1>4 DEF UnlinkMain, StepInv
  <2>2. /\ cmd[c] = "start" => stage[c] = "reach"
        /\ next[c] = "spawn" => cmd[c] = "start"
    BY <1>0, <2>1 DEF StepInv, UnlinkSteps
  <2>3. /\ \A d \in Daemons : up[d] # Sockets
        /\ cmd[c] = "start" => \A d \in Daemons : phase[d] \notin Live
    BY <1>0, <2>1 DEF EvidenceInv, UnlinkSteps, ClearedSteps
  <2> QED BY <1>0, <2>1, <2>2, <2>3, GoesOn DEF Steps, UnlinkSteps
<1>5. CASE UnlinkStatus(c)
  <2>1. pc[c] = "unlink-status" /\ ~acked[c]
    BY <1>0, <1>5 DEF UnlinkStatus, StepInv
  <2>2. /\ cmd[c] = "start" => stage[c] = "reach"
        /\ next[c] = "spawn" => cmd[c] = "start"
    BY <1>0, <2>1 DEF StepInv, UnlinkSteps
  <2>3. /\ \A d \in Daemons : up[d] # Sockets /\ phase[d] \notin Established
        /\ cmd[c] = "start" => \A d \in Daemons : phase[d] \notin Live
    BY <1>0, <2>1 DEF EvidenceInv, UnlinkSteps, ClearedSteps, SocketsOf
  <2>4. CASE next[c] = "missed"
    BY <1>0, <1>5, <2>1, <2>3, <2>4, MissedKeeps DEF UnlinkStatus
  <2>5. CASE next[c] = "stopped"
    BY <1>0, <1>5, <2>1, <2>5, Returned DEF UnlinkStatus, Reports
  <2>6. CASE next[c] \in {"dial", "spawn"}
    <3>1. /\ Goto(c, next[c])
          /\ UNCHANGED <<cmd, stage, next, conn, acked>>
      BY <1>5, <2>6 DEF UnlinkStatus
    <3> QED BY <1>0, <2>1, <2>2, <2>3, <2>6, <3>1, GoesOn
            DEF Steps, UnlinkSteps
  <2>7. next[c] \in {"dial", "missed", "spawn", "stopped"}
    BY DEF QuietInv, TypeOK
  <2> QED BY <2>4, <2>5, <2>6, <2>7
<1> QED BY <1>1, <1>2, <1>3, <1>4, <1>5 DEF Connect

\* A start spawns when nothing is alive and nobody else is in between.
LEMMA SpawnCommands ==
    ASSUME QuietInv, TypeOK', NEW c \in Clients, NEW d \in Daemons, Spawn(c, d)
    PROVE  CommandInv'
<1>0. /\ pc[c] = "spawn" /\ phase' = [phase EXCEPT ![d] = "unlink"]
      /\ pc' = [pc EXCEPT ![c] = "confirm"]
      /\ UNCHANGED <<up, cmd, stage, next, conn, acked>>
  BY DEF Spawn, Goto
<1>1. phase \in [Daemons -> Phases] /\ pc \in [Clients -> Steps]
  BY DEF QuietInv, TypeOK
<1>2. StepInv(c) /\ AloneInv(c) /\ cmd[c] = "start"
  BY <1>0 DEF QuietInv, CommandInv, StepInv
<1> SUFFICES ASSUME NEW e \in Clients
             PROVE  StepInv(e)' /\ AloneInv(e)' /\ EvidenceInv(e)'
  BY DEF CommandInv
<1>3. StepInv(e) /\ AloneInv(e)
  BY DEF QuietInv, CommandInv
<1>4. \/ e = c /\ pc'[e] = "confirm"
      \/ e # c /\ pc'[e] = pc[e] /\ pc[e] \in {"idle", "request"}
  BY <1>0, <1>1, <1>2 DEF AloneInv
<1>5. StepInv(e)'
  BY <1>0, <1>2, <1>3, <1>4 DEF StepInv, StartSteps, UnlinkSteps
<1>6. AloneInv(e)'
  BY <1>0, <1>1, <1>2, <1>3, <1>4 DEF AloneInv, StepInv, StartSteps
<1>7. EvidenceInv(e)'
  BY <1>4 DEF EvidenceInv, ClearedSteps, UnlinkSteps
<1> QED BY <1>5, <1>6, <1>7

LEMMA StartCommands ==
    ASSUME QuietInv, TypeOK', NEW c \in Clients, Start(c)
    PROVE  CommandInv'
<1>1. CASE RemoveStale(c)
  <2>1. /\ pc[c] = "stale" /\ UNCHANGED <<phase, up>>
        /\ cmd[c] = "start" /\ stage[c] = "reach" /\ ~acked[c]
    BY <1>1 DEF RemoveStale, daemonVars, QuietInv, CommandInv, StepInv
  <2>2. \A d \in Daemons : phase[d] \notin Live
    BY <2>1 DEF QuietInv, CommandInv, EvidenceInv, ClearedSteps
  <2>3. \A d \in Daemons : up[d] # Sockets
    BY <2>2, ListenersLive DEF QuietInv, Sockets
  <2>4. CASE Cleanup(c, "spawn")
    BY <2>1, <2>2, <2>3, <2>4, CleanupKeeps
  <2>5. CASE Goto(c, "spawn") /\ UNCHANGED <<cmd, stage, next, conn, acked>>
    BY <2>1, <2>2, <2>5, GoesOn DEF Steps, UnlinkSteps
  <2> QED BY <1>1, <2>4, <2>5 DEF RemoveStale
<1>2. ASSUME NEW d \in Daemons, Spawn(c, d)
      PROVE  CommandInv'
  BY <1>2, SpawnCommands
<1>3. CASE Confirm(c)
  <2>1. pc[c] # "idle" /\ UNCHANGED <<phase, up>>
    BY <1>3 DEF Confirm, daemonVars
  <2>2. Return(c, "started") \/ Return(c, "unconfirmed")
    BY <1>3 DEF Confirm
  <2> QED BY <2>1, <2>2, Returned DEF Reports
<1> QED BY <1>1, <1>2, <1>3 DEF Start

\* force_stop kills the one daemon that can be alive.
LEMMA ForceStopCommands ==
    ASSUME QuietInv, TypeOK', NEW c \in Clients, ForceStop(c)
    PROVE  CommandInv'
<1>0. /\ pc[c] = "kill" /\ phase' = [phase EXCEPT ![conn[c]] = "dead"]
      /\ up' = [up EXCEPT ![conn[c]] = {}]
      /\ pc' = [pc EXCEPT ![c] = "unlink-main"]
      /\ next' = [next EXCEPT ![c] = "stopped"]
      /\ UNCHANGED <<cmd, stage, conn, acked>>
  BY DEF ForceStop, Dies, Cleanup, Goto
<1>1. /\ phase \in [Daemons -> Phases] /\ pc \in [Clients -> Steps]
      /\ next \in [Clients -> {"dial", "missed", "spawn", "stopped"}]
      /\ up \in [Daemons -> SUBSET Sockets]
  BY DEF QuietInv, TypeOK
<1>2. \A d \in Daemons : phase'[d] \notin Live /\ up'[d] # Sockets
  <2>1. \A d \in Daemons : phase[d] \in Live => d = conn[c]
    BY <1>0 DEF QuietInv, CommandInv, EvidenceInv
  <2>2. \A d \in Daemons : phase'[d] \notin Live
    BY <1>0, <1>1, <2>1 DEF Live, Booting, Established, Closing
  <2>3. \A d \in Daemons : phase[d] \notin Live => up[d] = {}
    BY ListenersLive DEF QuietInv
  <2> QED BY <1>0, <1>1, <2>1, <2>2, <2>3 DEF Sockets
<1> SUFFICES ASSUME NEW e \in Clients
             PROVE  StepInv(e)' /\ AloneInv(e)' /\ EvidenceInv(e)'
  BY DEF CommandInv
<1>3. StepInv(e) /\ AloneInv(e) /\ EvidenceInv(e) /\ StepInv(c)
  BY DEF QuietInv, CommandInv
<1>4. \/ e = c /\ pc'[e] = "unlink-main" /\ next'[e] = "stopped"
      \/ e # c /\ pc'[e] = pc[e] /\ next'[e] = next[e]
  BY <1>0, <1>1
<1>5. StepInv(e)'
  BY <1>0, <1>3, <1>4 DEF StepInv, StartSteps, UnlinkSteps
<1>6. AloneInv(e)'
  BY <1>0, <1>1, <1>3, <1>4 DEF AloneInv
<1>7. EvidenceInv(e)'
  BY <1>2 DEF EvidenceInv, Live
<1> QED BY <1>5, <1>6, <1>7

LEMMA StopCommands ==
    ASSUME QuietInv, TypeOK', NEW c \in Clients, Stop(c)
    PROVE  CommandInv'
<1>0. /\ StepInv(c) /\ EvidenceInv(c) /\ pc \in [Clients -> Steps]
      /\ stage \in [Clients -> Stages] /\ acked \in [Clients -> BOOLEAN]
      /\ conn \in [Clients -> Daemons \cup {NoOne}]
  BY DEF QuietInv, TypeOK, CommandInv
<1>1. CASE Acknowledged(c)
  <2>1. /\ pc[c] = "shutdown" /\ acked[c]
        /\ pc' = [pc EXCEPT ![c] = "teardown"]
        /\ UNCHANGED <<phase, up, cmd, stage, next, conn, acked>>
    BY <1>1 DEF Acknowledged, Goto, daemonVars
  <2>2. pc'[c] = "teardown" /\ \A e \in Clients \ {c} : pc'[e] = pc[e]
    BY <1>0, <2>1
  <2>3. cmd[c] # "start"
    BY <1>0, <2>1 DEF StepInv, StartSteps
  <2>4. StepInv(c)'
    BY <2>1, <2>2, <2>3 DEF StepInv, UnlinkSteps
  <2>5. EvidenceInv(c)'
    BY <1>0, <2>1, <2>2, <2>3 DEF EvidenceInv, UnlinkSteps
  <2> QED BY <2>1, <2>2, <2>4, <2>5, MovesAlone
<1>2. CASE NotGraceful(c)
  <2>1. /\ pc[c] = "shutdown" /\ Goto(c, "probe")
        /\ stage' = [stage EXCEPT ![c] = "pid"]
        /\ conn' = [conn EXCEPT ![c] = NoOne]
        /\ acked' = [acked EXCEPT ![c] = FALSE]
        /\ UNCHANGED <<phase, up, cmd, next>>
    BY <1>2 DEF NotGraceful, daemonVars
  <2>2. cmd[c] # "start"
    BY <1>0, <2>1 DEF StepInv, StartSteps
  <2>3. /\ ~acked'[c]
        /\ \A e \in Clients \ {c} : /\ stage'[e] = stage[e]
                                    /\ conn'[e] = conn[e]
                                    /\ acked'[e] = acked[e]
    BY <1>0, <2>1
  <2> QED BY <2>1, <2>2, <2>3, GoesOn DEF Steps, ClearedSteps, UnlinkSteps
<1>3. CASE TeardownSeen(c)
  <2>1. pc[c] # "idle" /\ UNCHANGED <<phase, up>> /\ Return(c, "stopped")
    BY <1>3 DEF TeardownSeen, daemonVars
  <2> QED BY <2>1, Returned DEF Reports
<1>4. CASE ForceStop(c)
  BY <1>4, ForceStopCommands
<1> QED BY <1>1, <1>2, <1>3, <1>4 DEF Stop

LEMMA AnswerCommands ==
    ASSUME QuietInv, TypeOK', NEW c \in Clients,
           Told(c) \/ Untold(c) \/ Abandon(c)
    PROVE  CommandInv'
<1>0. /\ StepInv(c) /\ EvidenceInv(c) /\ pc \in [Clients -> Steps]
      /\ stage \in [Clients -> Stages]
      /\ conn \in [Clients -> Daemons \cup {NoOne}]
  BY DEF QuietInv, TypeOK, CommandInv
<1>1. UNCHANGED <<phase, up>> /\ pc[c] \in {"query", "request"}
  BY DEF Told, Untold, Abandon, daemonVars
<1>2. cmd[c] # "start" /\ ~acked[c]
  BY <1>0, <1>1 DEF StepInv, StartSteps
<1>3. ASSUME NEW r \in {"answered", "no-daemon", "abandoned"}, Return(c, r)
      PROVE  CommandInv'
  BY <1>1, <1>3, Returned DEF Reports
<1>4. CASE Told(c)
  <2>1. CASE cmd[c] = "status"
    BY <1>3, <1>4, <2>1 DEF Told
  <2>2. CASE cmd[c] # "status"
    <3>1. /\ pc[c] = "query" /\ pc' = [pc EXCEPT ![c] = "kill"]
          /\ UNCHANGED <<cmd, stage, next, conn, acked>>
      BY <1>4, <2>2 DEF Told, Goto
    <3>2. pc'[c] = "kill" /\ \A e \in Clients \ {c} : pc'[e] = pc[e]
      BY <1>0, <3>1
    <3>3. StepInv(c)'
      BY <1>2, <3>1, <3>2 DEF StepInv, UnlinkSteps
    <3>4. EvidenceInv(c)'
      BY <1>0, <1>1, <1>2, <3>1, <3>2 DEF EvidenceInv, UnlinkSteps
    <3> QED BY <1>1, <3>1, <3>2, <3>3, <3>4, MovesAlone
  <2> QED BY <2>1, <2>2
<1>5. CASE Untold(c)
  <2>1. CASE cmd[c] = "status"
    <3>1. Return(c, "no-daemon") \/ Return(c, "answered")
      BY <1>5, <2>1 DEF Untold
    <3> QED BY <1>3, <3>1
  <2>2. CASE cmd[c] # "status"
    <3>1. /\ pc[c] = "query" /\ Goto(c, "exists")
          /\ stage' = [stage EXCEPT ![c] = "reach"]
          /\ conn' = [conn EXCEPT ![c] = NoOne]
          /\ UNCHANGED <<cmd, next, acked>>
      BY <1>5, <2>2 DEF Untold
    <3>2. \A e \in Clients \ {c} : stage'[e] = stage[e] /\ conn'[e] = conn[e]
      BY <1>0, <3>1
    <3> QED BY <1>1, <1>2, <3>1, <3>2, GoesOn DEF Steps, ClearedSteps, UnlinkSteps
  <2> QED BY <2>1, <2>2
<1>6. CASE Abandon(c)
  BY <1>3, <1>6 DEF Abandon
<1> QED BY <1>4, <1>5, <1>6

\* A command begins when it has, or leaves, the daemons to itself.
LEMMA BeginCommands ==
    ASSUME QuietInv, Quiet, NEW c \in Clients, NEW k \in Commands, Begin(c, k)
    PROVE  CommandInv'
<1>0. /\ pc \in [Clients -> Steps] /\ cmd \in [Clients -> CommandKinds]
      /\ stage \in [Clients -> Stages]
  BY DEF QuietInv, TypeOK
<1>1. /\ pc[c] = "idle" /\ Apart(c, k) /\ cmd' = [cmd EXCEPT ![c] = k]
      /\ pc' = [pc EXCEPT ![c] = "exists"]
      /\ k = "start" => stage' = [stage EXCEPT ![c] = "reach"]
      /\ \A e \in Clients \ {c} : stage'[e] = stage[e]
      /\ UNCHANGED <<phase, up, next, conn, acked>>
  BY <1>0 DEF Begin, Goto, Quiet, daemonVars
<1>2. /\ pc'[c] = "exists" /\ cmd'[c] = k
      /\ k = "start" => stage'[c] = "reach"
      /\ \A e \in Clients \ {c} : pc'[e] = pc[e] /\ cmd'[e] = cmd[e]
                                  /\ stage'[e] = stage[e]
  BY <1>0, <1>1
<1>3. /\ \A d \in Daemons : phase[d] \notin Booting
      /\ \A e \in Clients \ {c} : cmd[e] = "start" => pc[e] \in {"idle", "request"}
      /\ k = "start" => /\ \A d \in Daemons : phase[d] \notin Closing
                        /\ \A e \in Clients \ {c} : pc[e] \in {"idle", "request"}
  BY <1>1 DEF Apart, Active
<1> SUFFICES ASSUME NEW e \in Clients
             PROVE  StepInv(e)' /\ AloneInv(e)' /\ EvidenceInv(e)'
  BY DEF CommandInv
<1>4. StepInv(e) /\ AloneInv(e) /\ EvidenceInv(e)
  BY DEF QuietInv, CommandInv
<1>5. CASE e = c
  <2>1. StepInv(c)'
    BY <1>1, <1>2, <1>4, <1>5 DEF StepInv, StartSteps, UnlinkSteps
  <2>2. AloneInv(c)'
    BY <1>2, <1>3 DEF AloneInv
  <2>3. EvidenceInv(c)'
    BY <1>1, <1>2, <1>3 DEF EvidenceInv, ClearedSteps, UnlinkSteps
  <2> QED BY <1>5, <2>1, <2>2, <2>3
<1>6. CASE e # c
  <2>1. StepInv(e)'
    BY <1>1, <1>2, <1>4, <1>6 DEF StepInv
  <2>2. cmd[e] = "start" => pc[e] = "idle"
    BY <1>3, <1>4, <1>6 DEF StepInv, StartSteps
  <2>3. AloneInv(e)'
    BY <1>2, <1>6, <2>2 DEF AloneInv
  <2>4. EvidenceInv(e)'
    BY <1>1, <1>2, <1>4, <1>6 DEF EvidenceInv
  <2> QED BY <2>1, <2>3, <2>4
<1> QED BY <1>5, <1>6

LEMMA ClientSockets ==
    ASSUME QuietInv, TypeOK', NEW c \in Clients,
           Proceed(c) \/ \E k \in Commands : Begin(c, k)
    PROVE  SocketInv' /\ OneDaemon'
<1>0. /\ TypeOK /\ SocketInv /\ OneDaemon /\ EvidenceInv(c) /\ StepInv(c)
      /\ \A d \in Daemons : SocketsOf(d)
  BY DEF QuietInv, CommandInv, SocketInv
<1>1. CASE UNCHANGED <<file, phase, sock, up>>
  <2>1. \A d \in Daemons : SocketsOf(d)'
    BY <1>0, <1>1 DEF SocketsOf
  <2> QED BY <1>0, <1>1, <2>1 DEF SocketInv, OneDaemon
<1>2. CASE UnlinkMain(c) \/ UnlinkStatus(c)
  <2>1. /\ pc[c] \in UnlinkSteps /\ UNCHANGED <<phase, sock, up>>
    BY <1>2 DEF UnlinkMain, UnlinkStatus, UnlinkSteps, daemonVars
  <2>2. \A d \in Daemons : phase[d] \notin Booting /\ up[d] # Sockets
    BY <1>0, <2>1 DEF EvidenceInv, UnlinkSteps
  <2>3. \A d \in Daemons : SocketsOf(d)'
    BY <1>0, <2>1, <2>2 DEF SocketsOf, Booting
  <2> QED BY <1>0, <2>1, <2>3 DEF SocketInv, OneDaemon
<1>3. ASSUME NEW d \in Daemons, Spawn(c, d)
      PROVE  SocketInv' /\ OneDaemon'
  <2>1. /\ pc[c] = "spawn" /\ phase[d] = "unspawned"
        /\ phase' = [phase EXCEPT ![d] = "unlink"]
        /\ UNCHANGED <<file, sock, up>> /\ phase \in [Daemons -> Phases]
    BY <1>0, <1>3 DEF Spawn, Unspawned, TypeOK
  <2>2. cmd[c] = "start"
    BY <1>0, <2>1 DEF StepInv
  <2>3. \A e \in Daemons : phase[e] \notin Live
    BY <1>0, <2>1, <2>2 DEF EvidenceInv, ClearedSteps
  <2>4. \A e \in Daemons \ {d} : phase'[e] = phase[e]
    BY <2>1
  <2>5. SocketsOf(d)'
    BY <1>0, <2>1 DEF SocketsOf, Established, Sockets
  <2>6. ASSUME NEW e \in Daemons \ {d} PROVE SocketsOf(e)'
    BY <1>0, <2>1, <2>4 DEF SocketsOf
  <2>7. OneDaemon'
    BY <2>3, <2>4 DEF OneDaemon
  <2> QED BY <2>5, <2>6, <2>7 DEF SocketInv
<1>4. CASE ForceStop(c)
  <2>1. /\ pc[c] = "kill" /\ phase' = [phase EXCEPT ![conn[c]] = "dead"]
        /\ up' = [up EXCEPT ![conn[c]] = {}] /\ UNCHANGED <<file, sock>>
        /\ phase \in [Daemons -> Phases] /\ up \in [Daemons -> SUBSET Sockets]
    BY <1>0, <1>4 DEF ForceStop, Dies, TypeOK
  <2>2. ASSUME NEW e \in Daemons
        PROVE  phase'[e] \notin Live /\ SocketsOf(e)'
    <3>1. CASE e = conn[c]
      <4>1. phase'[e] = "dead" /\ up'[e] = {}
        BY <2>1, <3>1
      <4> QED BY <4>1, NotLiveSockets DEF Live, Booting, Established, Closing
    <3>2. CASE e # conn[c]
      <4>1. phase'[e] = phase[e] /\ up'[e] = up[e]
        BY <2>1, <3>2
      <4>2. phase[e] \notin Live
        BY <1>0, <2>1, <3>2 DEF EvidenceInv
      <4> QED BY <1>0, <2>1, <4>1, <4>2 DEF SocketsOf
    <3> QED BY <3>1, <3>2
  <2> QED BY <2>2 DEF SocketInv, OneDaemon
<1>5. \/ UNCHANGED <<file, phase, sock, up>>
      \/ UnlinkMain(c) \/ UnlinkStatus(c)
      \/ (\E d \in Daemons : Spawn(c, d))
      \/ ForceStop(c)
  BY DEF Proceed, Begin, Connect, Start, Stop, Exists, Probe, Dial,
         RemoveStale, Confirm, Acknowledged, NotGraceful, TeardownSeen, Told,
         Untold, Abandon, daemonVars
<1> QED BY <1>1, <1>2, <1>3, <1>4, <1>5

LEMMA QuietInit == Init => QuietInv
<1> SUFFICES ASSUME Init PROVE QuietInv
  OBVIOUS
<1>1. TypeOK
  BY TypeInit
<1>2. /\ \A d \in Daemons : /\ phase[d] \in {"unspawned", "dead"}
                            /\ sock[d] = "main" /\ up[d] = {}
      /\ \A c \in Clients : /\ pc[c] = "idle" /\ acked[c] = FALSE
  BY DEF Init
<1>3. SocketInv
  BY <1>2 DEF SocketInv, SocketsOf, Booting, Established, Sockets
<1>4. OneDaemon
  BY <1>2 DEF OneDaemon, Live, Booting, Established, Closing
<1>5. CommandInv
  BY <1>2 DEF CommandInv, StepInv, AloneInv, EvidenceInv, UnlinkSteps,
              ClearedSteps
<1> QED BY <1>1, <1>3, <1>4, <1>5 DEF QuietInv

LEMMA QuietStep ==
    ASSUME Quiet, QuietInv, [Next]_vars
    PROVE  QuietInv'
<1>0. TypeOK'
  BY TypeStep DEF QuietInv
<1>1. ASSUME NEW d \in Daemons,
             \/ Boot(d) \/ Accept(d) \/ Finish(d) \/ Close(d)
             \/ IdleTimeout(d) \/ Killed(d)
      PROVE  QuietInv'
  <2>1. SocketInv' /\ OneDaemon'
    BY <1>0, <1>1, BootSockets, RunSockets
  <2>2. CommandInv'
    BY <1>0, <1>1, BootCommands, EndCommands, AcceptCommands, FinishCommands
  <2> QED BY <1>0, <2>1, <2>2 DEF QuietInv
<1>2. ASSUME NEW c \in Clients, Proceed(c) \/ \E k \in Commands : Begin(c, k)
      PROVE  QuietInv'
  <2>1. SocketInv' /\ OneDaemon'
    BY <1>0, <1>2, ClientSockets
  <2>2. CommandInv'
    BY <1>0, <1>2, ConnectCommands, StartCommands, StopCommands,
       AnswerCommands, BeginCommands DEF Proceed
  <2> QED BY <1>0, <2>1, <2>2 DEF QuietInv
<1>3. CASE UNCHANGED vars
  <2>1. SocketInv' /\ OneDaemon'
    BY <1>3 DEF QuietInv, SocketInv, SocketsOf, OneDaemon, vars, daemonVars
  <2>2. UNCHANGED clientVars /\ UNCHANGED <<phase, up>>
    BY <1>3 DEF vars, daemonVars
  <2>3. CommandInv'
    BY <2>2, GoingDown DEF QuietInv
  <2> QED BY <1>0, <2>1, <2>3 DEF QuietInv
<1> QED BY <1>1, <1>2, <1>3 DEF Next

-----------------------------------------------------------------------------
\* With each daemon coming up undisturbed, and connects that are answered when
\* somebody listens, at most one daemon is ever alive, however daemons die,
\* answers are late and polls expire.
THEOREM OneDaemonSafe == ASSUME Quiet PROVE Spec => []OneDaemon
<1>1. QuietInv => OneDaemon
  BY DEF QuietInv
<1> QED BY <1>1, QuietInit, QuietStep, PTL DEF Spec

\* Under the same assumptions a daemon that serves is what both of its files
\* lead to: no probe, start or stop unlinked them under it.
THEOREM ReachableSafe == ASSUME Quiet PROVE Spec => []ServingIsReachable
<1>1. QuietInv => ServingIsReachable
  BY DEF QuietInv, SocketInv, SocketsOf, ServingIsReachable
<1> QED BY <1>1, QuietInit, QuietStep, PTL DEF Spec

-----------------------------------------------------------------------------
(***************************************************************************)
(* What the commands report.                                               *)
(***************************************************************************)

\* TruthfulReports, for one command.
NothingServes == \A d \in Daemons : phase[d] \notin Established
OneIsThere == \E d \in Daemons : phase[d] \in Live /\ file["main"] = d
Truthful(c) ==
    /\ report'[c] \in {"stopped", "no-daemon"} => NothingServes'
    /\ report'[c] \in {"still-running", "already-running"} => OneIsThere'

\* What the operators a command's step is built from tell the user.
LEMMA Says ==
    ASSUME TypeOK, NEW c \in Clients
    PROVE  /\ \A r \in Reports : Return(c, r) => report'[c] = r
           /\ \A s \in Steps : Goto(c, s) => pc'[c] = s
           /\ \A then : Cleanup(c, then) => pc'[c] # "idle"
           /\ Missed(c) => \/ pc'[c] # "idle"
                           \/ report'[c] = "no-daemon"
           /\ \A d \in Daemons :
                Connected(c, d)
                  => \/ pc'[c] # "idle"
                     \/ report'[c] \in {"already-running", "still-running"}
<1>0. /\ pc \in [Clients -> Steps] /\ report \in [Clients -> Reports]
  BY DEF TypeOK
<1>1. \A r \in Reports : Return(c, r) => report'[c] = r
  BY <1>0 DEF Return
<1>2. \A s \in Steps : Goto(c, s) => pc'[c] = s
  BY <1>0 DEF Goto
<1>3. \A then : Cleanup(c, then) => pc'[c] # "idle"
  BY <1>2 DEF Cleanup, Steps
<1>4. ASSUME Missed(c)
      PROVE  pc'[c] # "idle" \/ report'[c] = "no-daemon"
  <2>1. \/ Return(c, "no-daemon")
        \/ \E s \in {"stale", "unlink-main", "exists"} : Goto(c, s)
    BY <1>4 DEF Missed
  <2> QED BY <2>1, <1>1, <1>2 DEF Steps, Reports
<1>5. ASSUME NEW d \in Daemons, Connected(c, d)
      PROVE  \/ pc'[c] # "idle"
             \/ report'[c] \in {"already-running", "still-running"}
  <2>1. \/ Return(c, "already-running") \/ Return(c, "still-running")
        \/ \E s \in {"request", "shutdown", "query"} : Goto(c, s)
    BY <1>5 DEF Connected
  <2> QED BY <2>1, <1>1, <1>2 DEF Steps, Reports
<1> QED BY <1>1, <1>2, <1>3, <1>4, <1>5

LEMMA ConnectTruthful ==
    ASSUME QuietInv, Quiet, NEW c \in Clients, Connect(c), pc'[c] = "idle"
    PROVE  Truthful(c)
<1>0. TypeOK /\ EvidenceInv(c) /\ \A d \in Daemons : SocketsOf(d)
  BY DEF QuietInv, CommandInv, SocketInv
<1>m. "main" \in Sockets /\ "status" \in Sockets
  BY DEF Sockets
<1>1. ASSUME NEW s \in Sockets, file[s] = NoOne \/ Refuses(s),
             Missed(c), UNCHANGED phase
      PROVE  Truthful(c)
  <2>1. report'[c] = "no-daemon"
    BY <1>0, <1>1, Says
  <2>2. NothingServes'
    BY <1>1, Silent DEF NothingServes
  <2> QED BY <2>1, <2>2 DEF Truthful
<1>2. ASSUME NEW s \in Sockets, Answers(s), Connected(c, file[s]),
             pc[c] \in {"probe", "dial"}, s = "main" \/ pc[c] = "probe",
             UNCHANGED <<file, phase>>
      PROVE  Truthful(c)
  <2>1. file[s] \in Daemons /\ phase[file[s]] \in Live
    BY <1>2, AnswersLive
  <2>2. report'[c] \in {"already-running", "still-running"}
    BY <1>0, <1>2, <2>1, Says
  <2>3. file["main"] = file[s]
    <3>1. CASE s = "main"
      BY <3>1
    <3>2. CASE s = "status"
      <4>1. s \in up[file[s]] /\ up[file[s]] \in SUBSET Sockets
        BY <1>0, <1>2, <2>1 DEF Answers, TypeOK
      <4>2. phase[file[s]] \notin Booting
        BY <1>2, NoneBoots, <2>1
      <4>3. up[file[s]] = Sockets
        BY <1>0, <2>1, <3>2, <4>1, <4>2
           DEF SocketsOf, Live, Established, Closing
      <4> QED BY <1>0, <1>m, <2>1, <4>3 DEF SocketsOf
    <3> QED BY <3>1, <3>2 DEF Sockets
  <2>4. OneIsThere'
    BY <1>2, <2>1, <2>3 DEF OneIsThere
  <2> QED BY <2>2, <2>4 DEF Truthful
<1>3. CASE Exists(c)
  <2>1. \/ file["main"] = NoOne /\ Missed(c)
        \/ \E s \in {"dial", "probe"} : Goto(c, s)
    BY <1>3 DEF Exists
  <2>2. UNCHANGED phase
    BY <1>3 DEF Exists, daemonVars
  <2> QED BY <1>0, <1>1, <1>m, <2>1, <2>2, Says DEF Steps
<1>4. CASE Probe(c)
  <2>1. \/ Answers("status") /\ Connected(c, file["status"])
        \/ Goto(c, "dial")
        \/ Cleanup(c, "dial")
    BY <1>4 DEF Probe
  <2>2. UNCHANGED <<file, phase>> /\ pc[c] = "probe"
    BY <1>4 DEF Probe, daemonVars
  <2> QED BY <1>0, <1>2, <1>m, <2>1, <2>2, Says DEF Steps
<1>5. CASE Dial(c)
  <2>1. \/ Answers("main") /\ Connected(c, file["main"])
        \/ file["main"] = NoOne /\ Missed(c)
        \/ Cleanup(c, "missed")
    BY <1>5 DEF Dial, Unavailable, Quiet
  <2>2. UNCHANGED <<file, phase>> /\ pc[c] = "dial"
    BY <1>5 DEF Dial, daemonVars
  <2> QED BY <1>0, <1>1, <1>2, <1>m, <2>1, <2>2, Says
<1>6. CASE UnlinkMain(c)
  BY <1>0, <1>6, Says DEF UnlinkMain, Steps
<1>7. CASE UnlinkStatus(c)
  <2>1. pc[c] = "unlink-status" /\ UNCHANGED phase
        /\ next[c] \in {"dial", "missed", "spawn", "stopped"}
    BY <1>0, <1>7 DEF UnlinkStatus, daemonVars, TypeOK
  <2>2. \/ Missed(c) \/ Return(c, "stopped")
        \/ \E s \in {"dial", "spawn"} : Goto(c, s)
    BY <1>7, <2>1 DEF UnlinkStatus
  <2>3. report'[c] \in {"no-daemon", "stopped"}
    BY <1>0, <2>2, Says DEF Steps, Reports
  <2>4. \A d \in Daemons : up[d] # Sockets
    BY <1>0, <2>1 DEF EvidenceInv, UnlinkSteps
  <2>5. NothingServes'
    BY <1>0, <2>1, <2>4 DEF NothingServes, SocketsOf
  <2> QED BY <2>3, <2>5 DEF Truthful
<1> QED BY <1>3, <1>4, <1>5, <1>6, <1>7 DEF Connect

LEMMA RestTruthful ==
    ASSUME QuietInv, NEW c \in Clients, pc'[c] = "idle",
           \/ Start(c) \/ Stop(c) \/ Told(c) \/ Untold(c) \/ Abandon(c)
    PROVE  Truthful(c)
<1>0. TypeOK /\ EvidenceInv(c)
  BY DEF QuietInv, CommandInv
<1>1. ASSUME NEW r \in {"started", "unconfirmed", "answered", "abandoned"},
             Return(c, r)
      PROVE  Truthful(c)
  BY <1>0, <1>1, Says DEF Truthful, Reports
<1>2. CASE Start(c)
  <2>1. \/ Return(c, "started") \/ Return(c, "unconfirmed")
        \/ (\E s \in {"spawn", "confirm"} : Goto(c, s)) \/ Cleanup(c, "spawn")
    BY <1>2 DEF Start, RemoveStale, Spawn, Confirm
  <2> QED BY <1>0, <1>1, <2>1, Says DEF Steps
<1>3. CASE TeardownSeen(c)
  <2>1. pc[c] = "teardown" /\ Return(c, "stopped") /\ UNCHANGED phase
    BY <1>3 DEF TeardownSeen, daemonVars
  <2>2. report'[c] = "stopped"
    BY <1>0, <2>1, Says DEF Reports
  <2>3. NothingServes'
    BY <1>0, <2>1 DEF EvidenceInv, NothingServes
  <2> QED BY <2>2, <2>3 DEF Truthful
<1>4. CASE Acknowledged(c) \/ NotGraceful(c) \/ ForceStop(c)
  <2>1. (\E s \in {"teardown", "probe"} : Goto(c, s)) \/ Cleanup(c, "stopped")
    BY <1>4 DEF Acknowledged, NotGraceful, ForceStop
  <2> QED BY <1>0, <2>1, Says DEF Steps
<1>5. CASE Told(c)
  <2>1. Return(c, "answered") \/ Goto(c, "kill")
    BY <1>5 DEF Told
  <2> QED BY <1>0, <1>1, <2>1, Says DEF Steps
<1>6. CASE Untold(c)
  <2>1. \/ Lost(c) /\ Return(c, "no-daemon")
        \/ Return(c, "answered") \/ Goto(c, "exists")
    BY <1>6 DEF Untold
  <2>2. pc[c] = "query" /\ UNCHANGED phase
    BY <1>6 DEF Untold, daemonVars
  <2>3. CASE Lost(c) /\ Return(c, "no-daemon")
    <3>1. report'[c] = "no-daemon"
      BY <1>0, <2>3, Says DEF Reports
    <3>2. NothingServes'
      BY <1>0, <2>2, <2>3 DEF EvidenceInv, Lost, NothingServes, Live
    <3> QED BY <3>1, <3>2 DEF Truthful
  <2> QED BY <1>0, <1>1, <2>1, <2>3, Says DEF Steps
<1>7. CASE Abandon(c)
  BY <1>1, <1>7 DEF Abandon
<1> QED BY <1>2, <1>3, <1>4, <1>5, <1>6, <1>7 DEF Stop

LEMMA TruthfulStep ==
    ASSUME Quiet, QuietInv, [Next]_vars, NEW c \in Clients,
           pc[c] # "idle", pc'[c] = "idle"
    PROVE  Truthful(c)
<1>0. /\ TypeOK /\ pc \in [Clients -> Steps] /\ report \in [Clients -> Reports]
  BY DEF QuietInv, TypeOK
<1>1. ASSUME NEW d \in Daemons,
             \/ Boot(d) \/ Accept(d) \/ Close(d) \/ IdleTimeout(d) \/ Killed(d)
      PROVE  FALSE
  <2>1. UNCHANGED pc
    BY <1>1 DEF Boot, Accept, Close, UnlinkOld, Bind, Chmod, Listen, Serve,
                Shutdown, CloseSockets, UnlinkAtEnd, IdleTimeout, Killed,
                clientVars
  <2> QED BY <2>1
<1>2. ASSUME NEW d \in Daemons, Finish(d)
      PROVE  Truthful(c)
  <2>1. report'[c] = "answered"
    BY <1>0, <1>2 DEF Finish
  <2> QED BY <2>1 DEF Truthful
<1>3. CASE Proceed(c)
  BY <1>3, ConnectTruthful, RestTruthful DEF Proceed
<1>4. ASSUME NEW e \in Clients, e # c,
             Proceed(e) \/ \E k \in Commands : Begin(e, k)
      PROVE  FALSE
  <2>1. \E s : pc' = [pc EXCEPT ![e] = s]
    <3>1. Missed(e) => \E s : pc' = [pc EXCEPT ![e] = s]
      BY DEF Missed, Goto, Return
    <3>2. \A d : Connected(e, d) => \E s : pc' = [pc EXCEPT ![e] = s]
      BY DEF Connected, Goto, Return
    <3>3. Connect(e) => \E s : pc' = [pc EXCEPT ![e] = s]
      BY <3>1, <3>2
         DEF Connect, Exists, Probe, Dial, UnlinkMain, UnlinkStatus, Goto,
             Return, Cleanup
    <3>4. Start(e) \/ Stop(e) => \E s : pc' = [pc EXCEPT ![e] = s]
      BY DEF Start, RemoveStale, Spawn, Confirm, Stop, Acknowledged,
             NotGraceful, TeardownSeen, ForceStop, Goto, Return, Cleanup
    <3>5. Told(e) \/ Untold(e) \/ Abandon(e)
            => \E s : pc' = [pc EXCEPT ![e] = s]
      BY DEF Told, Untold, Abandon, Goto, Return
    <3>6. \A k : Begin(e, k) => \E s : pc' = [pc EXCEPT ![e] = s]
      BY DEF Begin, Goto
    <3> QED BY <1>4, <3>3, <3>4, <3>5, <3>6 DEF Proceed
  <2>2. pc'[c] = pc[c]
    BY <1>0, <1>4, <2>1
  <2> QED BY <2>2
<1>5. ASSUME NEW k \in Commands, Begin(c, k)
      PROVE  FALSE
  BY <1>5 DEF Begin
<1>6. CASE UNCHANGED vars
  BY <1>6 DEF vars, clientVars
<1> QED BY <1>1, <1>2, <1>3, <1>4, <1>5, <1>6 DEF Next

\* Under the same assumptions a command that says stopped or no daemon leaves
\* nothing serving, and one that says still running or already running leaves
\* a live daemon behind its main socket.
THEOREM ReportsTrue == ASSUME Quiet PROVE Spec => TruthfulReports
<1>1. ASSUME QuietInv, [Next]_vars
      PROVE  [\A c \in Clients :
                /\ Returns(c, {"stopped", "no-daemon"})
                     => \A d \in Daemons : phase'[d] \notin Established
                /\ Returns(c, {"still-running", "already-running"})
                     => \E d \in Daemons : phase'[d] \in Live
                                            /\ file'["main"] = d]_vars
  BY <1>1, TruthfulStep DEF Returns, Truthful, NothingServes, OneIsThere
<1> QED BY <1>1, QuietInit, QuietStep, PTL DEF Spec, TruthfulReports
=============================================================================
