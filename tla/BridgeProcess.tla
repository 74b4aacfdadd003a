----------------------------- MODULE BridgeProcess -----------------------------
(***************************************************************************)
(* The Java bridge as the gateway processes of one machine share it         *)
(* (clients/arapi/process.py, bootstrap.py, lifecycle.py, ArapiBridge.java):*)
(* a gateway that starts looks for a bridge that proves to know its token,  *)
(* starts one of its own if there is none, and stops that one, and no other,*)
(* when it closes.  All bridges want the same port.                         *)
(*                                                                         *)
(* A Gateway is one ApplicationContext: an MCP server, a preflight, or one  *)
(* of the successive applications of a dashboard session (a dashboard whose *)
(* settings changed closes one and starts the next).  Starts and closes are *)
(* coroutines, and may be cancelled at every await: by a signal, or by the  *)
(* time limits of the dashboard's operations.                               *)
(***************************************************************************)
EXTENDS Integers, FiniteSets

CONSTANTS Gateway,     \* application contexts
          Bridge,      \* Java processes they may start
          Token,       \* bridge tokens
          TokenOf,     \* the token of each gateway's installation
          Session,     \* gateways that are applications of a dashboard session
          MaxPolls,    \* probes of a new bridge before start gives up (50)
          None

ASSUME GatewayAssumption ==
  /\ TokenOf \in [Gateway -> Token]
  /\ Session \subseteq Gateway
  /\ MaxPolls \in Nat \ {0}
  /\ None \notin Bridge /\ None \notin Gateway

VARIABLES phase,    \* gateway -> where its start and close stand
          process,  \* gateway -> _process, in aclose its local copy
          polls,    \* gateway -> probes of the new bridge so far
          bridge,   \* Java process -> its state
          creator,  \* Java process -> the gateway that started it
          port      \* the Java process bound to the port

processVars == <<phase, process, polls, bridge, creator, port>>

Starting == {"probing", "spawning", "polling"}
Closing == {"failing", "releasing", "closing"}
Over == {"closed", "abandoned", "killed"}
Alive == {"starting", "listening", "stopping"}

ProcessTypeOK ==
  /\ phase \in [Gateway -> {"new", "ready"} \cup Starting \cup Closing \cup Over]
  /\ process \in [Gateway -> Bridge \cup {None}]
  /\ polls \in [Gateway -> 0..MaxPolls]
  /\ bridge \in [Bridge -> {"unused", "exited"} \cup Alive]
  /\ creator \in [Bridge -> Gateway \cup {None}]
  /\ port \in Bridge \cup {None}

ProcessInit ==
  /\ phase = [g \in Gateway |-> "new"]
  /\ process = [g \in Gateway |-> None]
  /\ polls = [g \in Gateway |-> 0]
  /\ bridge = [j \in Bridge |-> "unused"]
  /\ creator = [j \in Bridge |-> None]
  /\ port = None

(***************************************************************************)
(* What a bridge knows: the token its creator put into its environment.    *)
(***************************************************************************)
Knows(j, g) == creator[j] # None /\ TokenOf[creator[j]] = TokenOf[g]

(* GET /health answers in time, with the proof of the gateway's token.  A  *)
(* bridge that was told to stop may still answer until it has exited.      *)
Proves(g) == port # None /\ Knows(port, g)

Goto(g, p) == phase' = [phase EXCEPT ![g] = p]

(***************************************************************************)
(* The start of a gateway.                                                 *)
(***************************************************************************)
(* A configuration without a target has nothing to start.  Otherwise the   *)
(* JDK and the libraries are validated first.                              *)
Start(g) ==
  /\ phase[g] = "new"
  /\ \E p \in {"ready", "probing", "failing"} : Goto(g, p)
  /\ UNCHANGED <<process, polls, bridge, creator, port>>

(* The first probe.  It may fail although a bridge is there: the bridge    *)
(* serves /health from the thread pool that also runs the slow operations, *)
(* and the probe waits for one second.                                     *)
Probe(g) ==
  /\ phase[g] = "probing"
  /\ \/ Proves(g) /\ Goto(g, "ready")
     \/ Goto(g, "spawning")
  /\ UNCHANGED <<process, polls, bridge, creator, port>>

(* create_subprocess_exec, which hands the token to the child.             *)
Spawn(g) ==
  /\ phase[g] = "spawning"
  /\ \/ \E j \in Bridge :
          /\ bridge[j] = "unused"
          /\ bridge' = [bridge EXCEPT ![j] = "starting"]
          /\ creator' = [creator EXCEPT ![j] = g]
          /\ process' = [process EXCEPT ![g] = j]
          /\ Goto(g, "polling")
     \/ /\ Goto(g, "failing")                        \* OSError
        /\ UNCHANGED <<process, bridge, creator>>
  /\ UNCHANGED <<polls, port>>

\* Mutant: turns that are not counted.
PollUncounted(g) ==
  /\ phase[g] = "polling"
  /\ \/ bridge[process[g]] = "exited" /\ Goto(g, "failing")
     \/ Proves(g) /\ Goto(g, "ready")
     \/ UNCHANGED phase
  /\ UNCHANGED <<process, polls, bridge, creator, port>>

(* One turn of the loop after the creation: leave it if the child is seen  *)
(* to have exited, return if any bridge on the port proves the token.      *)
Poll(g) ==
  /\ phase[g] = "polling"
  /\ \/ /\ bridge[process[g]] = "exited" \/ polls[g] = MaxPolls
        /\ Goto(g, "failing")
        /\ UNCHANGED polls
     \/ /\ polls[g] < MaxPolls
        /\ \/ Proves(g) /\ Goto(g, "ready") /\ UNCHANGED polls
           \/ polls' = [polls EXCEPT ![g] = @ + 1] /\ UNCHANGED phase
  /\ UNCHANGED <<process, bridge, creator, port>>

(***************************************************************************)
(* The end of a gateway.                                                   *)
(***************************************************************************)
(* aclose of the context, which first closes the clients: at the end of     *)
(* the lifespan, or because the start was cancelled under a finally.        *)
BeginClose(g) ==
  /\ phase[g] = "ready" \/ (phase[g] \in Starting /\ g \notin Session)
  /\ Goto(g, "releasing")
  /\ UNCHANGED <<process, polls, bridge, creator, port>>

\* Mutants: a child that does not listen yet is forgotten; the bridge on the
\* port is stopped, whoever started it.
CloseForgetting(g) ==
  /\ phase[g] \in {"failing", "releasing"}
  /\ LET j == process[g] IN
       IF j # None /\ bridge[j] = "listening"
       THEN /\ bridge' = [bridge EXCEPT ![j] = "stopping"]
            /\ Goto(g, "closing")
            /\ UNCHANGED process
       ELSE /\ Goto(g, "closed")
            /\ process' = [process EXCEPT ![g] = None]
            /\ UNCHANGED bridge
  /\ UNCHANGED <<polls, creator, port>>

CloseAnyBridge(g) ==
  /\ phase[g] \in {"failing", "releasing"}
  /\ LET j == IF port = None THEN process[g] ELSE port IN
       IF j # None /\ bridge[j] \in {"starting", "listening"}
       THEN /\ bridge' = [bridge EXCEPT ![j] = "stopping"]
            /\ Goto(g, "closing")
            /\ process' = [process EXCEPT ![g] = j]
       ELSE /\ Goto(g, "closed")
            /\ process' = [process EXCEPT ![g] = None]
            /\ UNCHANGED bridge
  /\ UNCHANGED <<polls, creator, port>>

(* aclose of the process, for the context or for a start that fails: only  *)
(* an own child that runs is terminated.                                   *)
CloseContext(g) ==
  /\ phase[g] \in {"failing", "releasing"}
  /\ LET j == process[g] IN
       IF j # None /\ bridge[j] \in {"starting", "listening"}
       THEN /\ bridge' = [bridge EXCEPT ![j] = "stopping"]
            /\ Goto(g, "closing")
            /\ UNCHANGED process
       ELSE /\ Goto(g, "closed")
            /\ process' = [process EXCEPT ![g] = None]
            /\ UNCHANGED bridge
  /\ UNCHANGED <<polls, creator, port>>

(* process.wait returns.                                                   *)
Closed(g) ==
  /\ phase[g] = "closing"
  /\ bridge[process[g]] = "exited"
  /\ Goto(g, "closed")
  /\ process' = [process EXCEPT ![g] = None]
  /\ UNCHANGED <<polls, bridge, creator, port>>

(* CancelledError passes the session's "except Exception": nobody closes   *)
(* the application that was starting.                                      *)
CancelStart(g) ==
  /\ g \in Session /\ phase[g] \in Starting
  /\ Goto(g, "abandoned")
  /\ process' = [process EXCEPT ![g] = None]
  /\ UNCHANGED <<polls, bridge, creator, port>>

(* A close is cancelled while it closes the clients, before the child is   *)
(* told to stop, or while it waits for the child to end.  The context says *)
(* it is closed and the process is forgotten: nobody tries again.          *)
CancelClose(g) ==
  /\ phase[g] \in {"releasing", "closing"}
  /\ Goto(g, "abandoned")
  /\ process' = [process EXCEPT ![g] = None]
  /\ UNCHANGED <<polls, bridge, creator, port>>

(* The gateway is killed: nothing tells its child.                         *)
Kill(g) ==
  /\ phase[g] \notin {"new"} \cup Over
  /\ Goto(g, "killed")
  /\ process' = [process EXCEPT ![g] = None]
  /\ UNCHANGED <<polls, bridge, creator, port>>

(***************************************************************************)
(* The Java process.                                                       *)
(***************************************************************************)

\* main: binds the port and serves, or ends with a BindException.
Bind(j) ==
  /\ bridge[j] = "starting"
  /\ \/ /\ port = None
        /\ port' = j
        /\ bridge' = [bridge EXCEPT ![j] = "listening"]
     \/ /\ port # None
        /\ bridge' = [bridge EXCEPT ![j] = "exited"]
        /\ UNCHANGED port
  /\ UNCHANGED <<phase, process, polls, creator>>

(* It exits: terminated or killed by aclose, or by itself.                 *)
Exit(j) ==
  /\ bridge[j] \in Alive
  /\ bridge' = [bridge EXCEPT ![j] = "exited"]
  /\ port' = IF port = j THEN None ELSE port
  /\ UNCHANGED <<phase, process, polls, creator>>

ProcessNext ==
  \/ \E g \in Gateway :
       \/ Start(g) \/ Probe(g) \/ Spawn(g) \/ Poll(g)
       \/ BeginClose(g) \/ CloseContext(g) \/ Closed(g)
       \/ CancelStart(g) \/ CancelClose(g) \/ Kill(g)
  \/ \E j \in Bridge : Bind(j) \/ Exit(j)

ProcessSpec == ProcessInit /\ [][ProcessNext]_processVars

(* Probes have a timeout of one second and the loop 50 turns; a child that *)
(* does not react to terminate is killed after five seconds.               *)
Fairness ==
  /\ \A g \in Gateway :
       /\ WF_processVars(Probe(g) \/ Spawn(g) \/ Poll(g))
       /\ WF_processVars(CloseContext(g))
       /\ WF_processVars(Closed(g))
  /\ \A g \in Gateway : WF_processVars(phase[g] = "closing" /\ Exit(process[g]))

ProcessFairSpec == ProcessSpec /\ Fairness

(***************************************************************************)
(* Properties                                                              *)
(***************************************************************************)
(* No Java process outlives its gateway, however its start ended (failed   *)
(* before, during or after the creation of the child, or cancelled): one   *)
(* that runs is known to the gateway that created it.  Excepted are a      *)
(* gateway that was killed, a close that was cancelled, and a start        *)
(* cancelled in a dashboard's session.                                     *)
LeavesNothingBehind ==
  \A j \in Bridge :
    bridge[j] \in Alive => \/ phase[creator[j]] \in {"killed", "abandoned"}
                          \/ process[creator[j]] = j

(* docs/mcp-tools.md:245: a gateway "stops only the child process it       *)
(* owns": a bridge is told to stop only by the close of its creator,       *)
(* whoever else uses it.                                                   *)
OnlyOwnerStops ==
  [][\A j \in Bridge :
       (bridge[j] # "stopping" /\ bridge'[j] = "stopping") =>
         /\ process[creator[j]] = j
         /\ phase[creator[j]] # "closing"
         /\ phase'[creator[j]] = "closing"]_processVars

(* Every start is decided, and every close ends, unless the gateway is     *)
(* killed.                                                                 *)
EveryStartIsDecided ==
  \A g \in Gateway :
    phase[g] \in Starting \cup Closing ~> phase[g] \in {"ready"} \cup Over

(***************************************************************************)
(* The inductive invariant: who knows which child, and who has the port.   *)
(***************************************************************************)
ChildIsKnown ==
  \A g \in Gateway :
    /\ process[g] # None => creator[process[g]] = g
    /\ phase[g] \in {"polling", "closing"} => process[g] # None
    /\ phase[g] \in {"new", "probing", "spawning"} \cup Over => process[g] = None

CreatorIsKnown ==
  \A j \in Bridge :
    /\ bridge[j] = "unused" <=> creator[j] = None
    /\ bridge[j] = "stopping" => phase[creator[j]] \in {"closing", "abandoned", "killed"}

PortIsHeld ==
  \A j \in Bridge :
    /\ bridge[j] = "listening" => port = j
    /\ port = j => bridge[j] \in {"listening", "stopping"}

ProcessInv ==
  /\ ProcessTypeOK
  /\ ChildIsKnown
  /\ CreatorIsKnown
  /\ PortIsHeld
  /\ LeavesNothingBehind

================================================================================
