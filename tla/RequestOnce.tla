----------------------------- MODULE RequestOnce -----------------------------
(***************************************************************************)
(* What routing a command through a daemon promises its caller: a request  *)
(* that was handed over is run by the daemon or by nobody, one that was not *)
(* is run by the client, and either happens at most once.                  *)
(***************************************************************************)
EXTENDS Naturals

CONSTANTS Clients

VARIABLES
    sent,       \* the request was handed over
    runs,       \* how often it was run, wherever
    outcome     \* what the caller got

vars == <<sent, runs, outcome>>

Outcomes == {"none", "local", "answered", "refused", "abandoned"}

Init ==
    /\ sent = [c \in Clients |-> FALSE]
    /\ runs = [c \in Clients |-> 0]
    /\ outcome = [c \in Clients |-> "none"]

Ends(c, o) == outcome[c] = "none" /\ outcome' = [outcome EXCEPT ![c] = o]

HandOver(c) ==
    /\ ~sent[c] /\ outcome[c] = "none"
    /\ sent' = [sent EXCEPT ![c] = TRUE]
    /\ UNCHANGED <<runs, outcome>>

\* With or without somebody still waiting for it.
RunByDaemon(c) ==
    /\ sent[c] /\ runs[c] = 0 /\ outcome[c] # "refused"
    /\ runs' = [runs EXCEPT ![c] = 1]
    /\ UNCHANGED <<sent, outcome>>

RunByClient(c) ==
    /\ ~sent[c] /\ runs[c] = 0
    /\ Ends(c, "local")
    /\ runs' = [runs EXCEPT ![c] = 1]
    /\ UNCHANGED sent

Answer(c) ==
    /\ sent[c] /\ runs[c] = 1
    /\ Ends(c, "answered")
    /\ UNCHANGED <<sent, runs>>

\* The daemon would not run it; nobody will.
Refuse(c) ==
    /\ sent[c] /\ runs[c] = 0
    /\ Ends(c, "refused")
    /\ UNCHANGED <<sent, runs>>

Abandon(c) ==
    /\ sent[c]
    /\ Ends(c, "abandoned")
    /\ UNCHANGED <<sent, runs>>

Next == \E c \in Clients : \/ HandOver(c) \/ RunByDaemon(c) \/ RunByClient(c)
                           \/ Answer(c) \/ Refuse(c) \/ Abandon(c)

Spec == Init /\ [][Next]_vars
=============================================================================
