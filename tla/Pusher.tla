------------------------------- MODULE Pusher -------------------------------
(***************************************************************************)
(* The push from the worker to the manager: MonitorPusher.cpp of the       *)
(* worker, and SetMonitorInfo() of manager/src/rpc/GrpcServer.cpp.  The    *)
(* sample is what NetEbpfMonitor collects; the other monitors' parts of it *)
(* travel the same way.                                                    *)
(*                                                                         *)
(* gRPC is outside the repository: a call that is made may fail before the *)
(* handler, be answered, or fail after the handler has run.  Without a     *)
(* deadline it may take any time, or never end.                            *)
(***************************************************************************)
EXTENDS NetStats

CONSTANTS
    Identities,  \* which of worker id and host id the worker has
    Nobody       \* no sample yet

VARIABLES
    identity,  \* [worker, host : BOOLEAN]
    running,   \* running_
    pusher,    \* where pushLoop() is
    status,    \* the status of the last call
    stored,    \* hostDatas_ of this host
    accepted   \* history: the packets in the samples the dispatcher took

pushVars == <<identity, running, pusher, status, stored, accepted>>

PushInit ==
    /\ NetInit
    /\ identity \in Identities
    /\ running = TRUE /\ pusher = "loop" /\ status = "OK"
    /\ stored = Nobody /\ accepted = 0

packet == packetStep /\ UNCHANGED pushVars

-----------------------------------------------------------------------------
\* pushLoop() and pushOnce().

loopHead ==
    /\ pusher = "loop"
    /\ IF running THEN pusher' = "collect" /\ collectBegin
               ELSE pusher' = "done" /\ UNCHANGED <<mapVars, monitorVars>>
    /\ UNCHANGED <<identity, running, status, stored, accepted>>

collect ==
    /\ pusher = "collect"
    /\ \E i \in Interface : readEntry(i) \/ skipEntry(i)
    /\ UNCHANGED pushVars

call ==
    /\ pusher = "collect" /\ reading = {}
    /\ pusher' = "calling"
    /\ UNCHANGED <<mapVars, monitorVars, identity, running, status, stored, accepted>>

callReturns(s) ==
    /\ pusher' = "sleep" /\ status' = s
    /\ UNCHANGED <<mapVars, monitorVars, identity, running>>

\* Variant: a failed call is made again.
AfterFailureAgain == "calling"

AfterFailure == "sleep"

\* The call fails; pushOnce() reports it and does not try again.
unreachable ==
    /\ pusher = "calling"
    /\ pusher' = AfterFailure /\ status' = "UNAVAILABLE"
    /\ UNCHANGED <<mapVars, monitorVars, identity, running, stored, accepted>>

\* SetMonitorInfo() turns the call away.
refuse ==
    /\ pusher = "calling"
    /\ ~identity.worker \/ ~identity.host
    /\ callReturns(IF ~identity.worker THEN "UNAUTHENTICATED" ELSE "INVALID_ARGUMENT")
    /\ UNCHANGED <<stored, accepted>>

\* SetMonitorInfo() keeps the sample and hands it to the dispatcher, whose
\* refusal (taken = FALSE) it answers with OK all the same.
SetMonitorInfo(taken) ==
    /\ pusher = "calling"
    /\ identity.worker /\ identity.host
    /\ stored' = diff
    /\ accepted' = IF taken THEN accepted + SumFunction(diff) ELSE accepted
    /\ pusher' = "handled"
    /\ UNCHANGED <<mapVars, monitorVars, identity, running, status>>

reply ==
    /\ pusher = "handled"
    /\ callReturns("OK")
    /\ UNCHANGED <<stored, accepted>>

replyLost ==
    /\ pusher = "handled"
    /\ pusher' = AfterFailure /\ status' = "UNAVAILABLE"
    /\ UNCHANGED <<mapVars, monitorVars, identity, running, stored, accepted>>

\* The sleep is cut into seconds, and ends early when running_ is cleared.
wakeUp ==
    /\ pusher = "sleep"
    /\ pusher' = "loop"
    /\ UNCHANGED <<mapVars, monitorVars, identity, running, status, stored, accepted>>

\* stop(): join() waits for pusher = "done".
stop ==
    /\ running
    /\ running' = FALSE
    /\ UNCHANGED <<mapVars, monitorVars, identity, pusher, status, stored, accepted>>

callEnds == unreachable \/ refuse \/ (\E taken \in BOOLEAN : SetMonitorInfo(taken)) \/ reply \/ replyLost

loopStep == loopHead \/ collect \/ call \/ wakeUp

PushNext == packet \/ loopStep \/ callEnds \/ stop

-----------------------------------------------------------------------------
\* No packet reaches HostManager twice: whatever calls fail or lose their
\* answer, whatever entries replace one another in the map, the samples the
\* dispatcher took hold no more packets than the CPUs have handled.
PacketsAtMostOnce == accepted <= SumFunction(packets)
=============================================================================
