-------------------------- MODULE DaemonRequestProofs --------------------------
(***************************************************************************)
(* Proofs about DaemonRequest, for any number of clients, with and without *)
(* failing sends, unanswered probes and a daemon that dies: the types, and *)
(* that it implements the service of RequestOnce.                          *)
(***************************************************************************)
EXTENDS DaemonRequest, SequenceTheorems, TLAPS

(***************************************************************************)
(* A request is run by the daemon while it is its connection's turn, so    *)
(* what has to be known is where a client's connection is: not there yet,  *)
(* in the queue once, accepted, or done with.  The daemon can only run a   *)
(* request nobody ran because a client that handed its request over never  *)
(* runs it, and because a connection is never queued again.  What was      *)
(* refused is done with and was run by nobody.                             *)
(***************************************************************************)
Queued == {queue[i] : i \in 1 .. Len(queue)}

QueueInv ==
    /\ \A i, j \in 1 .. Len(queue) : queue[i] = queue[j] => i = j
    /\ serving \notin Queued
    /\ \A c \in Clients : pc[c] = "dial" => c \notin Queued /\ c # serving

ClientInv ==
    \A c \in Clients :
        /\ pc[c] \in {"dial", "send"} => ~line[c] /\ runs[c] = 0
        /\ pc[c] \in {"wait", "last-read"} => line[c]
        /\ pc[c] \in {"dial", "send", "wait"} => misses[c] < 2
        /\ pc[c] = "done" <=> outcome[c] # "none"
        /\ reply[c] = "result" => line[c] /\ runs[c] = 1

DaemonInv ==
    /\ \A c \in Queued : line[c] => runs[c] = 0
    /\ step = "read" /\ line[serving] => runs[serving] = 0
    /\ step \in {"run", "reply"} => line[serving] /\ runs[serving] = 1

RefusedInv ==
    \A c \in Clients :
        /\ reply[c] = "refusal" =>
              line[c] /\ runs[c] = 0 /\ c \notin Queued /\ c # serving
        /\ outcome[c] = "refused" => reply[c] = "refusal"

RequestInv == TypeOK /\ QueueInv /\ ClientInv /\ DaemonInv /\ RefusedInv

-----------------------------------------------------------------------------
\* What accepting and dialling make of the queue.

LEMMA AcceptQueue ==
    ASSUME TypeOK, QueueInv, queue # <<>>, queue' = Tail(queue)
    PROVE  /\ queue' \in Seq(Clients)
           /\ Head(queue) \in Queued
           /\ Queued' = Queued \ {Head(queue)}
           /\ \A i, j \in 1 .. Len(queue') : queue'[i] = queue'[j] => i = j
<1>0. queue \in Seq(Clients)
  BY DEF TypeOK
<1>1. queue \in Seq(Clients) /\ Len(queue) \in Nat \ {0}
  BY <1>0, EmptySeq
<1>2. /\ queue' \in Seq(Clients) /\ Len(queue') = Len(queue) - 1
      /\ \A i \in 1 .. Len(queue') : queue'[i] = queue[i + 1]
  BY <1>1, HeadTailProperties
<1>3. Head(queue) = queue[1]
  BY <1>1
<1>4. \A i, j \in 1 .. Len(queue) : queue[i] = queue[j] => i = j
  BY DEF QueueInv
<1>5. \A i, j \in 1 .. Len(queue') : queue'[i] = queue'[j] => i = j
  BY <1>1, <1>2, <1>4
<1>6. ASSUME NEW i \in 1 .. Len(queue')
      PROVE  queue'[i] \in Queued \ {Head(queue)}
  BY <1>1, <1>2, <1>3, <1>4 DEF Queued
<1>7. ASSUME NEW i \in 1 .. Len(queue), queue[i] # Head(queue)
      PROVE  queue[i] \in Queued'
  <2>1. i # 1
    BY <1>3, <1>7
  <2>2. i - 1 \in 1 .. Len(queue') /\ queue'[i - 1] = queue[i]
    BY <2>1, <1>1, <1>2
  <2> QED BY <2>2 DEF Queued
<1> QED BY <1>1, <1>2, <1>3, <1>5, <1>6, <1>7 DEF Queued

LEMMA DialQueue ==
    ASSUME TypeOK, QueueInv, NEW c \in Clients, c \notin Queued,
           queue' = Append(queue, c)
    PROVE  /\ queue' \in Seq(Clients)
           /\ Queued' = Queued \cup {c}
           /\ \A i, j \in 1 .. Len(queue') : queue'[i] = queue'[j] => i = j
<1>0. queue \in Seq(Clients)
  BY DEF TypeOK
<1>1. queue \in Seq(Clients) /\ Len(queue) \in Nat
  BY <1>0, LenProperties
<1>2. /\ queue' \in Seq(Clients) /\ Len(queue') = Len(queue) + 1
      /\ \A i \in 1 .. Len(queue) : queue'[i] = queue[i]
      /\ queue'[Len(queue) + 1] = c
  BY <1>1, AppendProperties
<1>3. \A i \in 1 .. Len(queue) : queue[i] # c
  BY DEF Queued
<1>4. \A i, j \in 1 .. Len(queue) : queue[i] = queue[j] => i = j
  BY DEF QueueInv
<1>5. \A i, j \in 1 .. Len(queue') : queue'[i] = queue'[j] => i = j
  BY <1>1, <1>2, <1>3, <1>4
<1>6. Queued' = Queued \cup {c}
  BY <1>1, <1>2 DEF Queued
<1> QED BY <1>2, <1>5, <1>6

LEMMA QueueStays ==
    UNCHANGED queue => UNCHANGED Queued
  BY DEF Queued

LEMMA QueuedClients ==
    TypeOK => Queued \subseteq Clients
  BY ElementOfSeq DEF TypeOK, Queued

LEMMA InitHolds == Init => RequestInv
<1> SUFFICES ASSUME Init PROVE RequestInv
  OBVIOUS
<1>0. queue \in Seq(Clients) /\ Len(queue) = 0
  BY EmptySeq DEF Init
<1>1. queue \in Seq(Clients) /\ Queued = {}
  <2>1. 1 .. Len(queue) = {}
    BY <1>0
  <2> QED BY <1>0, <2>1 DEF Queued
<1>2. TypeOK
  <2>1. /\ misses \in [Clients -> 0 .. 2] /\ runs \in [Clients -> Nat]
        /\ expiries \in [Clients -> 0 .. WaitCap]
    BY RequestAssumption DEF Init
  <2>2. busy <=> step = "run"
    BY DEF Init
  <2> QED BY <1>1, <2>1, <2>2 DEF Init, TypeOK
<1>3. QueueInv
  BY <1>1, RequestAssumption DEF Init, QueueInv
<1>4. ClientInv /\ DaemonInv /\ RefusedInv
  BY <1>1 DEF Init, ClientInv, DaemonInv, RefusedInv
<1> QED BY <1>2, <1>3, <1>4 DEF RequestInv

-----------------------------------------------------------------------------
\* The daemon's steps.

LEMMA ServeStep ==
    ASSUME RequestInv, Serve
    PROVE  RequestInv'
<1> USE DEF RequestInv
<1>1. CASE Accept
  <2>1. /\ queue' \in Seq(Clients) /\ Head(queue) \in Queued
        /\ Queued' = Queued \ {Head(queue)}
        /\ \A i, j \in 1 .. Len(queue') : queue'[i] = queue'[j] => i = j
    BY <1>1, AcceptQueue DEF Accept
  <2>2. Head(queue) \in Clients
    BY <1>1, HeadTailProperties DEF Accept, TypeOK
  <2>3. TypeOK'
    BY <1>1, <2>1, <2>2, RequestAssumption DEF Accept, TypeOK, waitVars
  <2>4. QueueInv'
    BY <1>1, <2>1 DEF Accept, QueueInv
  <2>5. ClientInv'
    BY <1>1 DEF Accept, ClientInv, waitVars
  <2>6. DaemonInv'
    BY <1>1, <2>1 DEF Accept, DaemonInv, TypeOK
  <2>7. RefusedInv'
    BY <1>1, <2>1 DEF Accept, RefusedInv
  <2> QED BY <2>3, <2>4, <2>5, <2>6, <2>7
<1>2. CASE ReadRequest
  <2>1. UNCHANGED Queued
    BY <1>2, QueueStays DEF ReadRequest
  <2>2. serving \in Clients /\ runs[serving] = 0 /\ runs[serving]' = 1
    BY <1>2 DEF ReadRequest, TypeOK, DaemonInv
  <2>3. \A c \in Clients : c # serving => runs[c]' = runs[c]
    BY <1>2 DEF ReadRequest, TypeOK
  <2>4. TypeOK'
    BY <1>2, <2>2, <2>3 DEF ReadRequest, TypeOK, waitVars
  <2>5. QueueInv'
    BY <1>2, <2>1 DEF ReadRequest, QueueInv
  <2>6. ClientInv'
    BY <1>2, <2>2, <2>3 DEF ReadRequest, ClientInv, TypeOK, waitVars
  <2>7. DaemonInv'
    BY <1>2, <2>1, <2>2, <2>3 DEF ReadRequest, DaemonInv, QueueInv, TypeOK
  <2>8. RefusedInv'
    BY <1>2, <2>1, <2>3 DEF ReadRequest, RefusedInv
  <2> QED BY <2>4, <2>5, <2>6, <2>7, <2>8
<1>3. CASE Refuse
  <2>1. UNCHANGED Queued
    BY <1>3, QueueStays DEF Refuse
  <2>2. /\ serving \in Clients /\ line[serving] /\ runs[serving] = 0
        /\ serving \notin Queued
    BY <1>3 DEF Refuse, TypeOK, DaemonInv, QueueInv
  <2>3. /\ reply' \in [Clients -> {"none", "result", "refusal"}]
        /\ \A c \in Clients : /\ c # serving => reply'[c] = reply[c]
                              /\ reply'[c] \in {reply[c], "refusal"}
    BY <1>3 DEF Refuse, Respond, TypeOK
  <2>4. serving' = NoClient /\ step' = "accept"
    BY <1>3 DEF Refuse, HangUp
  <2>5. TypeOK'
    BY <1>3, <2>3, RequestAssumption DEF Refuse, HangUp, TypeOK, waitVars
  <2>6. QueueInv'
    BY <1>3, <2>1, <2>4, QueuedClients, RequestAssumption DEF Refuse, QueueInv
  <2>7. ClientInv'
    BY <1>3, <2>3 DEF Refuse, ClientInv, waitVars
  <2>8. DaemonInv'
    BY <1>3, <2>1, <2>4 DEF Refuse, DaemonInv
  <2>9. RefusedInv'
    BY <1>3, <2>1, <2>2, <2>3, <2>4, RequestAssumption DEF Refuse, RefusedInv
  <2> QED BY <2>5, <2>6, <2>7, <2>8, <2>9
<1>4. CASE NoRequest \/ Run \/ Reply
  <2>1. UNCHANGED Queued
    BY <1>4, QueueStays DEF NoRequest, Run, Reply
  <2>2. TypeOK'
    <3>1. CASE NoRequest
      BY <3>1, RequestAssumption DEF NoRequest, HangUp, TypeOK, waitVars
    <3>2. CASE Run
      BY <3>2 DEF Run, TypeOK, waitVars
    <3>3. CASE Reply
      BY <3>3, RequestAssumption DEF Reply, Respond, HangUp, TypeOK, waitVars
    <3> QED BY <1>4, <3>1, <3>2, <3>3
  <2>3. QueueInv'
    <3>1. UNCHANGED <<queue, pc>>
      BY <1>4 DEF NoRequest, Run, Reply
    <3>2. serving' = serving \/ serving' = NoClient
      BY <1>4 DEF NoRequest, Run, Reply, HangUp
    <3> QED BY <2>1, <3>1, <3>2, QueuedClients, RequestAssumption DEF QueueInv
  <2>4. ClientInv'
    <3>1. UNCHANGED <<line, pc, misses, runs, outcome>>
      BY <1>4 DEF NoRequest, Run, Reply, waitVars
    <3>2. \A c \in Clients :
            reply'[c] = "result" => reply[c] = "result" \/ (line[c] /\ runs[c] = 1)
      <4>1. CASE NoRequest \/ Run
        BY <4>1 DEF NoRequest, Run
      <4>2. CASE Reply
        BY <4>2 DEF Reply, Respond, DaemonInv, TypeOK
      <4> QED BY <1>4, <4>1, <4>2
    <3> QED BY <3>1, <3>2 DEF ClientInv
  <2>5. DaemonInv'
    <3>1. CASE Run
      BY <3>1, <2>1 DEF Run, DaemonInv
    <3>2. CASE NoRequest \/ Reply
      <4>1. step' = "accept" /\ UNCHANGED <<line, runs>>
        BY <3>2 DEF NoRequest, Reply, HangUp
      <4> QED BY <2>1, <4>1 DEF DaemonInv
    <3> QED BY <1>4, <3>1, <3>2
  <2>6. RefusedInv'
    <3>1. UNCHANGED <<line, runs, outcome>>
      BY <1>4 DEF NoRequest, Run, Reply
    <3>2. serving' = serving \/ serving' = NoClient
      BY <1>4 DEF NoRequest, Run, Reply, HangUp
    <3>3. \A c \in Clients : reply'[c] = reply[c] \/
              (c = serving /\ reply'[c] = "result")
      BY <1>4 DEF NoRequest, Run, Reply, Respond, TypeOK
    <3> QED BY <2>1, <3>1, <3>2, <3>3, RequestAssumption DEF RefusedInv
  <2> QED BY <2>2, <2>3, <2>4, <2>5, <2>6
<1> QED BY <1>1, <1>2, <1>3, <1>4 DEF Serve

LEMMA DieStep ==
    ASSUME RequestInv, Die
    PROVE  RequestInv'
<1>1. queue' \in Seq(Clients) /\ Len(queue') = 0
  BY EmptySeq DEF Die
<1>2. Queued' = {}
  <2>1. 1 .. Len(queue') = {}
    BY <1>1
  <2> QED BY <2>1 DEF Queued
<1>3. TypeOK'
  BY <1>1 DEF Die, RequestInv, TypeOK, waitVars
<1>4. QueueInv'
  BY <1>1, <1>2, RequestAssumption DEF Die, RequestInv, QueueInv
<1>5. ClientInv'
  BY DEF Die, RequestInv, ClientInv, waitVars
<1>6. DaemonInv'
  BY <1>2 DEF Die, DaemonInv
<1>7. RefusedInv'
  BY <1>2, RequestAssumption DEF Die, RequestInv, RefusedInv
<1> QED BY <1>3, <1>4, <1>5, <1>6, <1>7 DEF RequestInv

-----------------------------------------------------------------------------
\* A client's steps.

\* What a step of one client leaves alone for the others, and what it must
\* keep true of the client itself.
LEMMA OnlyOneClient ==
    ASSUME RequestInv, NEW c \in Clients, TypeOK', UNCHANGED daemonVars,
           UNCHANGED Queued, UNCHANGED queue, UNCHANGED reply,
           \A d \in Clients \ {c} :
               UNCHANGED <<line[d], pc[d], misses[d], runs[d], outcome[d]>>,
           pc'[c] # "dial",
           pc'[c] = "send" => ~line'[c] /\ runs'[c] = 0,
           pc'[c] \in {"wait", "last-read"} => line'[c],
           pc'[c] \in {"send", "wait"} => misses'[c] < 2,
           pc'[c] = "done" <=> outcome'[c] # "none",
           outcome'[c] = "refused" => reply[c] = "refusal",
           line[c] => line'[c],
           line'[c] => runs'[c] = IF line[c] THEN runs[c] ELSE 0
    PROVE  RequestInv'
<1>1. QueueInv'
  BY DEF RequestInv, QueueInv, daemonVars
<1>2. ClientInv'
  <2> SUFFICES ASSUME NEW d \in Clients
               PROVE  ClientInv!(d)'
    BY DEF ClientInv
  <2>1. CASE d = c
    BY <2>1 DEF RequestInv, ClientInv
  <2>2. CASE d # c
    BY <2>2 DEF RequestInv, ClientInv
  <2> QED BY <2>1, <2>2
<1>3. ASSUME NEW d \in Clients, line'[d]
      PROVE  runs'[d] = IF line[d] THEN runs[d] ELSE 0
  BY <1>3
<1>4. serving # NoClient => serving \in Clients
  BY DEF RequestInv, TypeOK
<1>5. DaemonInv'
  <2>1. \A d \in Queued' : line'[d] => runs'[d] = 0
    BY <1>3, QueuedClients DEF RequestInv, DaemonInv
  <2>2. step' = "read" /\ line'[serving'] => runs'[serving'] = 0
    BY <1>3, <1>4 DEF RequestInv, DaemonInv, TypeOK, daemonVars
  <2>3. step' \in {"run", "reply"} =>
            line'[serving'] /\ runs'[serving'] = 1
    BY <1>3, <1>4 DEF RequestInv, DaemonInv, TypeOK, daemonVars
  <2> QED BY <2>1, <2>2, <2>3 DEF DaemonInv
<1>6. RefusedInv'
  <2>1. serving' = serving
    BY DEF daemonVars
  <2> SUFFICES ASSUME NEW d \in Clients
               PROVE  RefusedInv!(d)'
    BY DEF RefusedInv
  <2>2. CASE d = c
    BY <2>1, <2>2, <1>3 DEF RequestInv, RefusedInv
  <2>3. CASE d # c
    BY <2>1, <2>3 DEF RequestInv, RefusedInv
  <2> QED BY <2>2, <2>3
<1> QED BY <1>1, <1>2, <1>5, <1>6 DEF RequestInv

LEMMA DialStep ==
    ASSUME RequestInv, NEW c \in Clients, Dial(c)
    PROVE  RequestInv'
<1> USE DEF RequestInv
<1>1. /\ pc[c] = "dial" /\ ~line[c] /\ runs[c] = 0 /\ outcome[c] = "none"
      /\ c \notin Queued /\ c # serving
  BY DEF Dial, ClientInv, QueueInv, TypeOK
<1>2. CASE alive /\ queue' = Append(queue, c)
            /\ pc' = [pc EXCEPT ![c] = "send"] /\ UNCHANGED <<runs, outcome>>
  <2>1. /\ queue' \in Seq(Clients)
        /\ Queued' = Queued \cup {c}
        /\ \A i, j \in 1 .. Len(queue') : queue'[i] = queue'[j] => i = j
    BY <1>1, <1>2, DialQueue
  <2>2. TypeOK'
    BY <1>2, <2>1 DEF Dial, TypeOK, daemonVars, waitVars
  <2>3. QueueInv'
    BY <1>1, <1>2, <2>1 DEF Dial, QueueInv, TypeOK, daemonVars
  <2>4. ClientInv'
    BY <1>1, <1>2 DEF Dial, ClientInv, TypeOK, waitVars
  <2>5. DaemonInv'
    BY <1>1, <1>2, <2>1 DEF Dial, DaemonInv, daemonVars
  <2>6. RefusedInv'
    BY <1>1, <1>2, <2>1 DEF Dial, RefusedInv, daemonVars
  <2> QED BY <2>2, <2>3, <2>4, <2>5, <2>6
<1>3. CASE RunLocally(c) /\ UNCHANGED queue
  <2>1. TypeOK'
    BY <1>3 DEF Dial, RunLocally, Ends, TypeOK, daemonVars, waitVars
  <2>2. UNCHANGED Queued
    BY <1>3, QueueStays
  <2>3. \A d \in Clients \ {c} :
          UNCHANGED <<line[d], pc[d], misses[d], runs[d], outcome[d]>>
    BY <1>3 DEF Dial, RunLocally, Ends, TypeOK, waitVars
  <2>4. ~line'[c] /\ pc'[c] = "done" /\ outcome'[c] = "local"
    BY <1>1, <1>3 DEF Dial, RunLocally, Ends, TypeOK
  <2> QED
    BY <1>1, <1>3, <2>1, <2>2, <2>3, <2>4, OnlyOneClient DEF Dial
<1> QED BY <1>2, <1>3 DEF Dial

LEMMA SendStep ==
    ASSUME RequestInv, NEW c \in Clients, Send(c)
    PROVE  RequestInv'
<1> USE DEF RequestInv
<1>1. ~line[c] /\ runs[c] = 0 /\ outcome[c] = "none" /\ misses[c] < 2
  BY DEF Send, ClientInv, TypeOK
<1>2. UNCHANGED <<daemonVars, queue, closed, reply, waitVars>>
  BY DEF Send
<1>3. UNCHANGED Queued
  BY <1>2, QueueStays
<1>4. CASE /\ line' = [line EXCEPT ![c] = TRUE]
           /\ pc' = [pc EXCEPT ![c] = "wait"] /\ UNCHANGED <<runs, outcome>>
  <2>1. TypeOK'
    BY <1>2, <1>4 DEF TypeOK, daemonVars, waitVars
  <2>2. \A d \in Clients \ {c} :
          UNCHANGED <<line[d], pc[d], misses[d], runs[d], outcome[d]>>
    BY <1>2, <1>4 DEF TypeOK, waitVars
  <2>3. /\ line'[c] /\ pc'[c] = "wait" /\ misses'[c] < 2
        /\ runs'[c] = 0 /\ outcome'[c] = "none"
    BY <1>1, <1>2, <1>4 DEF TypeOK, waitVars
  <2> QED
    BY <1>1, <1>2, <1>3, <2>1, <2>2, <2>3, OnlyOneClient
<1>5. CASE RunLocally(c) /\ UNCHANGED line
  <2>1. TypeOK'
    BY <1>2, <1>5 DEF RunLocally, Ends, TypeOK, daemonVars, waitVars
  <2>2. \A d \in Clients \ {c} :
          UNCHANGED <<line[d], pc[d], misses[d], runs[d], outcome[d]>>
    BY <1>2, <1>5 DEF RunLocally, Ends, TypeOK, waitVars
  <2>3. ~line'[c] /\ pc'[c] = "done" /\ outcome'[c] = "local"
    BY <1>1, <1>5 DEF RunLocally, Ends, TypeOK
  <2> QED
    BY <1>1, <1>2, <1>3, <2>1, <2>2, <2>3, OnlyOneClient
<1> QED BY <1>4, <1>5 DEF Send

LEMMA WaitStep ==
    ASSUME RequestInv, NEW c \in Clients,
           Receive(c) \/ Lost(c) \/ GivesUp(c) \/ ReachesLimit(c) \/ Expire(c)
    PROVE  RequestInv'
<1> USE DEF RequestInv
<1>1. Waiting(c) /\ line[c] /\ outcome[c] = "none"
  <2>1. pc[c] \in {"wait", "last-read"}
    BY DEF Receive, Lost, GivesUp, ReachesLimit, Expire, Waiting
  <2> QED BY <2>1 DEF Waiting, ClientInv
<1>2. UNCHANGED <<daemonVars, queue, line, closed, reply, runs>>
  BY DEF Receive, Lost, GivesUp, ReachesLimit, Expire
<1>3. UNCHANGED Queued
  BY <1>2, QueueStays
<1>4. CASE Expire(c)
  <2>1. PICK answer \in Probes :
          /\ misses' = [misses EXCEPT ![c] =
                          IF answer = "silent" THEN @ + 1 ELSE 0]
          /\ IF answer = "free" \/ misses'[c] >= 2
               THEN /\ pc' = [pc EXCEPT ![c] = "last-read"]
                    /\ reason' = [reason EXCEPT ![c] =
                                    IF answer = "free" THEN "not-busy"
                                                      ELSE "silent"]
               ELSE UNCHANGED <<pc, reason>>
    BY <1>4 DEF Expire
  <2>2. pc[c] = "wait" /\ misses[c] \in 0 .. 1
    BY <1>4 DEF Expire, ClientInv, TypeOK
  <2>3. misses' \in [Clients -> 0 .. 2]
    BY <2>1, <2>2 DEF TypeOK
  <2>4. /\ pc' \in [Clients -> {"dial", "send", "wait", "last-read", "done"}]
        /\ reason' \in [Clients -> {"timed-out", "limit", "not-busy", "silent"}]
        /\ pc'[c] \in {"wait", "last-read"}
        /\ pc'[c] = "wait" => misses'[c] < 2
        /\ \A d \in Clients \ {c} : UNCHANGED <<pc[d], misses[d]>>
    <3>1. CASE answer = "free" \/ misses'[c] >= 2
      BY <2>1, <3>1 DEF TypeOK
    <3>2. CASE ~(answer = "free" \/ misses'[c] >= 2)
      BY <2>1, <2>2, <2>3, <3>2 DEF TypeOK
    <3> QED BY <3>1, <3>2
  <2>5. expiries' \in [Clients -> 0 .. WaitCap]
    BY <1>4, RequestAssumption DEF Expire, TypeOK
  <2>6. TypeOK'
    BY <1>2, <1>4, <2>3, <2>4, <2>5 DEF Expire, TypeOK, daemonVars
  <2>7. \A d \in Clients \ {c} :
          UNCHANGED <<line[d], pc[d], misses[d], runs[d], outcome[d]>>
    BY <1>2, <1>4, <2>4 DEF Expire
  <2> QED
    BY <1>1, <1>2, <1>3, <1>4, <2>4, <2>6, <2>7, OnlyOneClient DEF Expire
<1>5. CASE Receive(c) \/ Lost(c) \/ GivesUp(c) \/ ReachesLimit(c)
  <2>1. PICK o \in {"answered", "refused", "abandoned"} :
            Ends(c, o) /\ (o = "refused" => reply[c] = "refusal")
    BY <1>5 DEF Receive, Lost, GivesUp, ReachesLimit, Replied, TypeOK
  <2>2. /\ UNCHANGED <<misses, expiries>>
        /\ reason' \in [Clients -> {"timed-out", "limit", "not-busy", "silent"}]
    BY <1>5 DEF Receive, Lost, GivesUp, ReachesLimit, TypeOK, waitVars
  <2>3. TypeOK'
    BY <1>2, <2>1, <2>2 DEF Ends, TypeOK, daemonVars
  <2>4. /\ pc'[c] = "done" /\ outcome'[c] = o
        /\ \A d \in Clients \ {c} : UNCHANGED <<pc[d], outcome[d]>>
    BY <2>1 DEF Ends, TypeOK
  <2> QED
    BY <1>1, <1>2, <1>3, <2>1, <2>2, <2>3, <2>4, OnlyOneClient
<1> QED BY <1>4, <1>5

-----------------------------------------------------------------------------
LEMMA RequestStep == RequestInv /\ [Next]_vars => RequestInv'
<1> SUFFICES ASSUME RequestInv, [Next]_vars PROVE RequestInv'
  OBVIOUS
<1>1. CASE UNCHANGED vars
  <2>1. /\ UNCHANGED <<alive, step, serving, busy, queue, line, closed, reply>>
        /\ UNCHANGED <<pc, misses, expiries, reason, runs, outcome>>
    BY <1>1 DEF vars, daemonVars, waitVars
  <2>2. UNCHANGED Queued
    BY <2>1, QueueStays
  <2>3. TypeOK' /\ QueueInv'
    BY <2>1, <2>2 DEF RequestInv, TypeOK, QueueInv
  <2>4. ClientInv' /\ DaemonInv' /\ RefusedInv'
    BY <2>1, <2>2 DEF RequestInv, ClientInv, DaemonInv, RefusedInv
  <2> QED BY <2>3, <2>4 DEF RequestInv
<1>2. CASE Serve
  BY <1>2, ServeStep
<1>3. CASE Die
  BY <1>3, DieStep
<1>4. CASE \E c \in Clients : Request(c)
  BY <1>4, DialStep, SendStep, WaitStep DEF Request
<1> QED BY <1>1, <1>2, <1>3, <1>4 DEF Next

LEMMA RequestInvariant == Spec => []RequestInv
  BY InitHolds, RequestStep, PTL DEF Spec

(***************************************************************************)
(* serve_daemon's flags, the connections and what each client remembers    *)
(* stay within their types: busy_event is set while a request runs and at  *)
(* no other time, and _PatientWait never counts more than two misses.      *)
(***************************************************************************)
THEOREM TypeCorrect == Spec => []TypeOK
<1>1. RequestInv => TypeOK
  BY DEF RequestInv
<1> QED BY <1>1, RequestInvariant, PTL

-----------------------------------------------------------------------------
\* Step by step, the implementation of the service.

LEMMA OnceInit == Init => Once!Init
  BY DEF Init, Once!Init

\* The daemon's steps: only reading a request is seen by anybody.
LEMMA OnceServe ==
    ASSUME RequestInv, Serve
    PROVE  [Once!Next]_(Once!vars)
<1>1. CASE ReadRequest
  <2>0. /\ serving \in Clients /\ line[serving] /\ runs[serving] = 0
        /\ outcome[serving] # "refused"
    BY <1>1 DEF ReadRequest, RequestInv, TypeOK, DaemonInv, RefusedInv
  <2>1. /\ serving \in Clients /\ line[serving] /\ runs[serving] = 0
        /\ outcome[serving] # "refused"
        /\ runs' = [runs EXCEPT ![serving] = 1]
        /\ UNCHANGED <<line, outcome>>
    BY <1>1, <2>0 DEF ReadRequest
  <2>2. Once!RunByDaemon(serving)
    BY <2>1 DEF Once!RunByDaemon
  <2> QED BY <2>1, <2>2 DEF Once!Next
<1>2. CASE Accept \/ Refuse \/ NoRequest \/ Run \/ Reply
  BY <1>2 DEF Accept, Refuse, NoRequest, Run, Reply, Once!vars
<1> QED BY <1>1, <1>2 DEF Serve

\* A client's steps: handing the request over, running it, and the end.
LEMMA OnceRequest ==
    ASSUME RequestInv, NEW c \in Clients, Request(c)
    PROVE  [Once!Next]_(Once!vars)
<1>1. CASE Dial(c) \/ Send(c)
  <2>1. ~line[c] /\ runs[c] = 0 /\ outcome[c] = "none"
    BY <1>1 DEF Dial, Send, RequestInv, ClientInv
  <2>2. CASE RunLocally(c) /\ UNCHANGED line
    <3>1. /\ runs' = [runs EXCEPT ![c] = 1]
          /\ outcome' = [outcome EXCEPT ![c] = "local"]
      BY <2>1, <2>2 DEF RunLocally, Ends, RequestInv, TypeOK
    <3>2. Once!RunByClient(c)
      BY <2>1, <2>2, <3>1 DEF Once!RunByClient, Once!Ends
    <3> QED BY <3>2 DEF Once!Next
  <2>3. CASE line' = [line EXCEPT ![c] = TRUE] /\ UNCHANGED <<runs, outcome>>
    <3>1. Once!HandOver(c)
      BY <2>1, <2>3 DEF Once!HandOver
    <3> QED BY <3>1 DEF Once!Next
  <2>4. CASE UNCHANGED <<line, runs, outcome>>
    BY <2>4 DEF Once!vars
  <2> QED BY <1>1, <2>2, <2>3, <2>4 DEF Dial, Send
<1>2. CASE Receive(c)
  <2>1. line[c] /\ outcome[c] = "none" /\ UNCHANGED <<line, runs>>
    BY <1>2 DEF Receive, Waiting, RequestInv, ClientInv
  <2>2. CASE reply[c] = "result"
    <3>1. runs[c] = 1 /\ outcome' = [outcome EXCEPT ![c] = "answered"]
      BY <1>2, <2>2 DEF Receive, Ends, RequestInv, ClientInv
    <3>2. Once!Answer(c)
      BY <2>1, <3>1 DEF Once!Answer, Once!Ends
    <3> QED BY <3>2 DEF Once!Next
  <2>3. CASE reply[c] = "refusal"
    <3>1. runs[c] = 0 /\ outcome' = [outcome EXCEPT ![c] = "refused"]
      BY <1>2, <2>3 DEF Receive, Ends, RequestInv, RefusedInv
    <3>2. Once!Refuse(c)
      BY <2>1, <3>1 DEF Once!Refuse, Once!Ends
    <3> QED BY <3>2 DEF Once!Next
  <2> QED BY <1>2, <2>2, <2>3 DEF Receive, Replied, RequestInv, TypeOK
<1>3. CASE Lost(c) \/ GivesUp(c) \/ ReachesLimit(c)
  <2>1. /\ pc[c] \in {"wait", "last-read"} /\ Ends(c, "abandoned")
        /\ UNCHANGED <<line, runs>>
    BY <1>3 DEF Lost, GivesUp, ReachesLimit, Waiting
  <2>2. /\ line[c] /\ outcome[c] = "none"
        /\ outcome' = [outcome EXCEPT ![c] = "abandoned"]
    BY <2>1 DEF Ends, RequestInv, ClientInv
  <2>3. Once!Abandon(c)
    BY <2>1, <2>2 DEF Once!Abandon, Once!Ends
  <2> QED BY <2>3 DEF Once!Next
<1>4. CASE Expire(c)
  BY <1>4 DEF Expire, Once!vars
<1> QED BY <1>1, <1>2, <1>3, <1>4 DEF Request

LEMMA OnceStep == RequestInv /\ [Next]_vars => [Once!Next]_(Once!vars)
<1> SUFFICES ASSUME RequestInv, [Next]_vars PROVE [Once!Next]_(Once!vars)
  OBVIOUS
<1>1. CASE UNCHANGED vars
  BY <1>1 DEF vars, Once!vars
<1>2. CASE Die
  BY <1>2 DEF Die, Once!vars
<1> QED BY <1>1, <1>2, OnceServe, OnceRequest DEF Next

(***************************************************************************)
(* A request is run at most once.  Once its whole line was sent it is the  *)
(* daemon that runs it, or nobody, whatever the client was told; until     *)
(* then the client may still run it, and then the daemon never does        *)
(* (try_daemon, _send_daemon_request, _handle_connection).                 *)
(***************************************************************************)
THEOREM RoutedOnce == Spec => RunsAtMostOnce
  BY RequestInvariant, OnceInit, OnceStep, PTL
  DEF Spec, RunsAtMostOnce, Once!Spec
=============================================================================
