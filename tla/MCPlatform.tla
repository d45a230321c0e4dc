----------------------------- MODULE MCPlatform ------------------------------
(* Small instances of the components that connect agents and backend: the
   policies and their synchronisation, the agent's command channel, the
   websockets, the rate limiter and the records that the console edits.  They
   share no state, so a behaviour of the run is a behaviour of one of them,
   chosen in the initial state.                                              *)
EXTENDS PolicySync, CommandChannel, SocketRegistry, RateLimiter, ConsoleEdits, TLC

CONSTANTS g1, t1, t2, s1, s2, s3, u1, r1, r2, r3, c1, k1, v0, v1, h1, l1, l2

VARIABLE part   \* the component that runs

TwoThreads  == (t1 :> g1) @@ (t2 :> g1)
SocketOwner == (s1 :> g1) @@ (s2 :> g1) @@ (s3 :> NoClient)
AnyArea     == [c \in Categories |-> "FIM"]
FimOnly     == [s \in Subscribers |-> "FIM"]

\* Threads, requests and broadcasts
Interchangeable == Permutations({r1, r2})

Init ==
    /\ part \in {"policy", "channel", "socket", "limiter", "console"}
    /\ PolicyInit /\ ChannelInit /\ SocketInit /\ LimiterInit /\ ConsoleInit
    /\ part = "console" \/ \A k \in Upgrades : ~rows[k].there

\* Only component p takes steps
Runs(p) ==
    /\ part = p /\ UNCHANGED part
    /\ p # "policy"  => UNCHANGED policyVars
    /\ p # "channel" => UNCHANGED channelVars
    /\ p # "socket"  => UNCHANGED socketVars
    /\ p # "limiter" => UNCHANGED limiterVars
    /\ p # "console" => UNCHANGED consoleVars

Next ==
    \/ Runs("policy")  /\ PolicyNext
    \/ Runs("channel") /\ ChannelNext
    \/ Runs("socket")  /\ SocketNext
    \/ Runs("limiter") /\ LimiterNext
    \/ Runs("console") /\ ConsoleNext

Spec == Init /\ [][Next]_<<part, policyVars, channelVars, socketVars, limiterVars, consoleVars>>

TypeOK == PolicyTypeOK /\ ChannelTypeOK /\ SocketTypeOK /\ LimiterTypeOK
=============================================================================
