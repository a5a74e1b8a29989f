-------------------------- MODULE ServerTransports --------------------------
(***************************************************************************)
(* PiServer: WebSocket connections with their governor slots, pending      *)
(* commands and heartbeats, the stdio transport, and stop() with the drain *)
(* of the session manager.  A connection handler runs to its await of the  *)
(* authentication, and from its answer to its end; socket events and       *)
(* timers come between.                                                    *)
(***************************************************************************)
EXTENDS Integers, FiniteSets

CONSTANTS Conns,
          MaxConnections, MaxPending,
          Stops,        \* calls of stop()
          UseStdio,     \* stdio takes part
          Executions    \* promises of executions, as many as are tracked at once

ASSUME TransportAssumption ==
  /\ IsFiniteSet(Conns) /\ MaxConnections \in Nat /\ MaxPending \in Nat
  /\ UseStdio \in BOOLEAN /\ IsFiniteSet(Executions)

VARIABLES conn,         \* the closure of each connection handler and its socket
          silent,       \* peers that are gone without a word
          connections,  \* governor.connectionCount
          reserved,     \* governor.pendingConnectionCount
          subscribers,  \* session manager: subscribers that are connections
          sessionAlive, \* the session a switch_session is about
          twice,        \* history: a message was answered twice
          stdio,        \* the stdio transport
          crashed,      \* history: an error event of stdout had no handler
          inFlight,     \* session manager: inFlightCommands
          awaited,      \* those the drain waits for: its snapshot, without the settled ones
          accepting,    \* the WebSocket server listens
          stopping,     \* where each call of stop() is
          isShuttingDown, disposed

slots == <<connections, reserved>>
executions == <<inFlight, awaited>>
shutdown == <<accepting, stopping, isShuttingDown, disposed>>
vars == <<conn, silent, slots, subscribers, sessionAlive, twice, stdio, crashed, executions,
          shutdown>>

\* pending counts the messages that are not answered, begun those of them that execute or did;
\* threw is history: a send or a ping of ws threw.
NoConn == [stage |-> "none", cleanedUp |-> FALSE, activated |-> FALSE,
           pending |-> 0, begun |-> 0,
           ws |-> "none", buffer |-> "low", threw |-> FALSE,
           timer |-> FALSE, waitingForPong |-> FALSE, deadline |-> FALSE]

Init ==
  /\ conn = [c \in Conns |-> NoConn] /\ silent = {}
  /\ connections = 0 /\ reserved = 0 /\ subscribers = {}
  /\ sessionAlive = TRUE /\ twice = FALSE
  /\ \E allowed \in {UseStdio, FALSE} :
       stdio = [authenticated |-> allowed, open |-> UseStdio, subscribed |-> allowed,
                pending |-> 0, begun |-> 0, stdout |-> "up", broken |-> FALSE,
                guarded |-> TRUE]
  /\ crashed = FALSE /\ inFlight = {} /\ awaited = {}
  /\ accepting = TRUE /\ stopping = [s \in Stops |-> "idle"]
  /\ isShuttingDown = FALSE /\ disposed = FALSE
-----------------------------------------------------------------------------
\* The governor's accounting of connections.
Dec(n) == IF n > 0 THEN n - 1 ELSE 0
AtCapacity == connections + reserved >= MaxConnections
ActivateReserved == reserved' = Dec(reserved) /\ connections' = connections + 1

QuietHeart(k) == [k EXCEPT !.timer = FALSE, !.waitingForPong = FALSE, !.deadline = FALSE]
Closing(k) == [k EXCEPT !.ws = IF @ = "open" THEN "closing" ELSE @]

AlreadyCleaned(k) == k.cleanedUp

\* cleanupConnection, k being the connection as the handler leaves it.
CleanUp(c, k) ==
  IF AlreadyCleaned(k)
  THEN conn' = [conn EXCEPT ![c] = k] /\ UNCHANGED <<slots, subscribers>>
  ELSE /\ conn' = [conn EXCEPT ![c] = [QuietHeart(k) EXCEPT !.cleanedUp = TRUE]]
       /\ subscribers' = subscribers \ {c}
       /\ IF k.activated THEN connections' = Dec(connections) /\ UNCHANGED reserved
          ELSE reserved' = Dec(reserved) /\ UNCHANGED connections

\* sendWithBackpressure: whether data is handed to ws, whose send may throw, and what it does
\* to the socket otherwise.
Sends(k) == k.ws = "open" /\ k.buffer # "over"
Thrown(k) == [k EXCEPT !.threw = TRUE]
AfterSend(k) == IF k.ws = "open" /\ k.buffer = "over" THEN Closing(k) ELSE k

\* sendCriticalWebSocket: a failure cleans the connection up; after a throw the socket stays.
Respond(c, k) ==
  \/ Sends(k) /\ conn' = [conn EXCEPT ![c] = k] /\ UNCHANGED <<slots, subscribers>>
  \/ Sends(k) /\ CleanUp(c, Thrown(k))
  \/ ~Sends(k) /\ CleanUp(c, AfterSend(k))

NotServer == UNCHANGED <<sessionAlive, twice, stdio, crashed, executions, shutdown>>
-----------------------------------------------------------------------------
\* A connection arrives: a slot is reserved before authentication, or it is turned away.
Connect(c) ==
  /\ accepting /\ conn[c].stage = "none"
  /\ IF AtCapacity
     THEN /\ conn' = [conn EXCEPT ![c] = [NoConn EXCEPT !.stage = "rejected", !.ws = "closing"]]
          /\ UNCHANGED reserved
     ELSE /\ conn' = [conn EXCEPT ![c] = [NoConn EXCEPT !.stage = "authenticating", !.ws = "open"]]
          /\ reserved' = reserved + 1
  /\ UNCHANGED <<connections, silent, subscribers>> /\ NotServer

AuthenticationFails(c) ==
  /\ conn[c].stage = "authenticating"
  /\ CleanUp(c, Closing([conn[c] EXCEPT !.stage = "over"]))
  /\ UNCHANGED silent /\ NotServer

NeverLeft(k) == FALSE                             \* fault: the close event is forgotten
LeftMeanwhile(k) == k.cleanedUp

AuthenticatedTooLate(c) ==
  /\ conn[c].stage = "authenticating" /\ LeftMeanwhile(conn[c])
  /\ conn' = [conn EXCEPT ![c].stage = "over"]
  /\ UNCHANGED <<silent, slots, subscribers>> /\ NotServer

NeverBeating(k) == k                              \* fault: no heartbeat is started
Beating(k) == [k EXCEPT !.timer = TRUE]           \* startHeartbeat

\* Activation, server_ready, the subscription, the heartbeat, all in one run.
Authenticated(c) ==
  LET k == [conn[c] EXCEPT !.activated = TRUE] IN
  /\ conn[c].stage = "authenticating" /\ ~LeftMeanwhile(conn[c])
  /\ \/ /\ Sends(k)
        /\ conn' = [conn EXCEPT ![c] = Beating([k EXCEPT !.stage = "served"])]
        /\ subscribers' = subscribers \cup {c}
        /\ ActivateReserved
     \/ \* server_ready did not get out: activated and cleaned up at once
        /\ \E q \in {IF Sends(k) THEN Thrown(k) ELSE AfterSend(k)} :
             conn' = [conn EXCEPT ![c] = [q EXCEPT !.stage = "over", !.cleanedUp = TRUE]]
        /\ reserved' = Dec(reserved) /\ UNCHANGED <<connections, subscribers>>
  /\ UNCHANGED silent /\ NotServer

\* The close event, of a socket that was closing or whose peer went away.
SocketClosed(c) ==
  /\ conn[c].ws \in {"open", "closing"}
  /\ IF conn[c].stage = "rejected"
     THEN conn' = [conn EXCEPT ![c].ws = "closed"] /\ UNCHANGED <<slots, subscribers>>
     ELSE CleanUp(c, [conn[c] EXCEPT !.ws = "closed", !.buffer = "low"])
  /\ silent' = silent \ {c} /\ NotServer

SocketError(c) ==
  /\ conn[c].ws = "open" /\ CleanUp(c, Closing(conn[c]))
  /\ UNCHANGED silent /\ NotServer

BufferChanges(c) ==                               \* bufferedAmount
  /\ conn[c].ws = "open"
  /\ \E b \in {"low", "over"} \ {conn[c].buffer} : conn' = [conn EXCEPT ![c].buffer = b]
  /\ UNCHANGED <<silent, slots, subscribers>> /\ NotServer

GoSilent(c) ==
  /\ conn[c].ws = "open" /\ c \notin silent /\ silent' = silent \cup {c}
  /\ UNCHANGED <<conn, slots, subscribers>> /\ NotServer
-----------------------------------------------------------------------------
Hears(c) == conn[c].stage = "served" /\ conn[c].ws \in {"open", "closing"} /\ c \notin silent

\* Too large, not JSON, or one too many: answered at once.
MessageRefused(c) ==
  /\ Hears(c) /\ Respond(c, conn[c])
  /\ UNCHANGED silent /\ NotServer

\* Handed to executeCommand, which waits for the journal first.
MessageAccepted(c) ==
  /\ Hears(c) /\ conn[c].pending < MaxPending
  /\ conn' = [conn EXCEPT ![c].pending = @ + 1]
  /\ UNCHANGED <<silent, slots, subscribers>> /\ NotServer

AdmittedOnArrival == TRUE                         \* fault: shutdown is not looked at again
Admitting == ~isShuttingDown

\* executeCommand, from there to its lane in one run: a command that is not refused, replayed
\* or joined is put on its lane, and its execution is registered.
Registers(e) == Admitting /\ e \notin inFlight /\ inFlight' = inFlight \cup {e} /\ UNCHANGED awaited

CommandBegins(c, e) ==
  /\ conn[c].begun < conn[c].pending /\ Registers(e)
  /\ conn' = [conn EXCEPT ![c].begun = @ + 1]
  /\ UNCHANGED <<silent, slots, subscribers, sessionAlive, twice, stdio, crashed, shutdown>>

\* It leaves the table when its body ends on the lane, answered or not.
ExecutionEnds(e) ==
  /\ e \in inFlight /\ inFlight' = inFlight \ {e} /\ awaited' = awaited \ {e}
  /\ UNCHANGED <<conn, silent, slots, subscribers, sessionAlive, twice, stdio, crashed, shutdown>>

\* A message is answered without an execution, when its execution ends, or at its timeout.
AfterAnswer(k) == {[k EXCEPT !.pending = @ - 1, !.begun = b] :
                  b \in {k.begun, k.begun - 1} \cap 0 .. k.pending - 1}

\* handleCommand: the response is sent, and counts as delivered unless the send failed.
CommandDone(c) ==
  /\ \E k \in AfterAnswer(conn[c]) : Respond(c, k)
  /\ UNCHANGED silent /\ NotServer

\* A successful switch_session subscribes, once it is delivered.  A replayed success may
\* come after the session: subscribeToSession throws and the message is answered again.
SwitchDone(c) ==
  /\ Sends(conn[c])
  /\ \E k \in AfterAnswer(conn[c]) : conn' = [conn EXCEPT ![c] = k]
  /\ twice' = (twice \/ ~sessionAlive)
  /\ UNCHANGED <<silent, slots, subscribers, sessionAlive, stdio, crashed, executions, shutdown>>

\* broadcast: no cleanup here, an overfull socket is closed and cleans up when it is.
Broadcast == conn' = [c \in Conns |-> IF c \in subscribers THEN AfterSend(conn[c]) ELSE conn[c]]

SessionDeleted ==                                 \* with its session_deleted event
  /\ sessionAlive /\ sessionAlive' = FALSE /\ Broadcast
  /\ UNCHANGED <<silent, slots, subscribers, twice, stdio, crashed, executions, shutdown>>
-----------------------------------------------------------------------------
\* startHeartbeat: the interval fires; a ping that throws ends the heartbeat, and nothing else.
HeartbeatTick(c) ==
  LET k == conn[c] IN
  /\ k.timer
  /\ \/ k.ws # "open" /\ conn' = [conn EXCEPT ![c] = QuietHeart(k)]
     \/ k.ws = "open" /\ k.waitingForPong /\ conn' = [conn EXCEPT ![c] = Closing(QuietHeart(k))]
     \/ /\ k.ws = "open" /\ ~k.waitingForPong
        /\ \E q \in {[k EXCEPT !.waitingForPong = TRUE], Thrown(QuietHeart(k))} :
             conn' = [conn EXCEPT ![c] = [q EXCEPT !.deadline = TRUE]]
  /\ UNCHANGED <<silent, slots, subscribers>> /\ NotServer

PongTimeout(c) ==
  LET k == conn[c] IN
  /\ k.deadline
  /\ conn' = [conn EXCEPT ![c] = IF k.waitingForPong /\ k.ws = "open"
                                 THEN Closing(QuietHeart(k)) ELSE [k EXCEPT !.deadline = FALSE]]
  /\ UNCHANGED <<silent, slots, subscribers>> /\ NotServer

Pong(c) ==
  /\ Hears(c) /\ conn[c].waitingForPong
  /\ conn' = [conn EXCEPT ![c].waitingForPong = FALSE, ![c].deadline = FALSE]
  /\ UNCHANGED <<silent, slots, subscribers>> /\ NotServer
-----------------------------------------------------------------------------
StdioOnly ==
  UNCHANGED <<conn, silent, slots, subscribers, sessionAlive, twice, executions, shutdown>>

\* readline closes: end of input, or a critical send that failed.
StdinClosed(k) == [k EXCEPT !.open = FALSE, !.subscribed = FALSE]

\* A write to a stdout nobody reads fails later, with an error event.
Written(k) == IF k.stdout = "gone" THEN [k EXCEPT !.stdout = "failing"] ELSE k
\* sendCriticalStdio: a broken stdout is not written to any more.
StdioRespond(k) == IF k.broken THEN StdinClosed(k) ELSE Written(k)

StdioRefused ==                                   \* not authenticated, or not a command
  /\ stdio.open /\ stdio' = StdioRespond(stdio)
  /\ UNCHANGED crashed /\ StdioOnly

StdioAccepted ==
  /\ stdio.open /\ stdio.authenticated /\ stdio.pending < MaxPending
  /\ stdio' = [stdio EXCEPT !.pending = @ + 1]
  /\ UNCHANGED crashed /\ StdioOnly

StdioBegins(e) ==
  /\ stdio.begun < stdio.pending /\ Registers(e)
  /\ stdio' = [stdio EXCEPT !.begun = @ + 1]
  /\ UNCHANGED <<conn, silent, slots, subscribers, sessionAlive, twice, crashed, shutdown>>

StdioDone ==
  /\ \E k \in AfterAnswer(stdio) : stdio' = StdioRespond(k)
  /\ UNCHANGED crashed /\ StdioOnly

StdinEnds ==
  /\ stdio.open /\ stdio' = StdinClosed(stdio)
  /\ UNCHANGED crashed /\ StdioOnly

StdoutGoes ==
  /\ UseStdio /\ stdio.stdout = "up" /\ stdio' = [stdio EXCEPT !.stdout = "gone"]
  /\ UNCHANGED crashed /\ StdioOnly

StdoutError ==
  /\ stdio.stdout = "failing"
  /\ stdio' = [stdio EXCEPT !.stdout = "gone", !.broken = stdio.guarded]
  /\ crashed' = (crashed \/ ~stdio.guarded)
  /\ StdioOnly
-----------------------------------------------------------------------------
\* stop(): the flag it looks at is set only after the authentication provider is disposed of.
StopBegins(s) ==
  /\ stopping[s] = "idle"
  /\ stopping' = [stopping EXCEPT ![s] = IF isShuttingDown THEN "returned" ELSE "disposingAuth"]
  /\ UNCHANGED <<conn, silent, slots, subscribers, sessionAlive, twice, stdio, crashed,
                 executions, accepting, isShuttingDown, disposed>>

\* The listener, stdin and the handler of stdout errors go, then initiateShutdown tells the
\* subscribers that are left and takes the executions to wait for; a second caller does not wait.
StopListening(s) ==
  /\ stopping[s] = "disposingAuth"
  /\ accepting' = FALSE /\ isShuttingDown' = TRUE
  /\ stdio' = [StdinClosed(stdio) EXCEPT !.guarded = FALSE, !.broken = FALSE]
  /\ IF isShuttingDown
     THEN stopping' = [stopping EXCEPT ![s] = "closing"] /\ UNCHANGED <<conn, awaited>>
     ELSE stopping' = [stopping EXCEPT ![s] = "draining"] /\ Broadcast /\ awaited' = inFlight
  /\ UNCHANGED <<silent, slots, subscribers, sessionAlive, twice, crashed, inFlight, disposed>>

Drained == awaited = {}

StopDrained(s) ==
  /\ stopping[s] = "draining" /\ Drained
  /\ stopping' = [stopping EXCEPT ![s] = "closing"]
  /\ UNCHANGED <<conn, silent, slots, subscribers, sessionAlive, twice, stdio, crashed,
                 executions, accepting, isShuttingDown, disposed>>

StopTimesOut(s) ==                                \* and the sessions are told to abort
  /\ stopping[s] = "draining" /\ ~Drained
  /\ stopping' = [stopping EXCEPT ![s] = "closingLate"]
  /\ UNCHANGED <<conn, silent, slots, subscribers, sessionAlive, twice, stdio, crashed,
                 executions, accepting, isShuttingDown, disposed>>

EveryClient(c) == TRUE

\* All sockets are closed, then the sessions are disposed of.
StopCloses(s) ==
  /\ stopping[s] \in {"closing", "closingLate"}
  /\ conn' = [c \in Conns |-> IF EveryClient(c) THEN Closing(conn[c]) ELSE conn[c]]
  /\ disposed' = TRUE
  /\ stopping' = [stopping EXCEPT ![s] = IF @ = "closing" THEN "closed" ELSE "closedLate"]
  /\ UNCHANGED <<silent, slots, subscribers, sessionAlive, twice, stdio, crashed, executions,
                 accepting, isShuttingDown>>
-----------------------------------------------------------------------------
ConnStep(c) ==
  \/ AuthenticationFails(c) \/ AuthenticatedTooLate(c) \/ Authenticated(c)
  \/ CommandDone(c) \/ SwitchDone(c)

Next ==
  \/ \E c \in Conns :
       \/ Connect(c) \/ ConnStep(c) \/ SocketClosed(c) \/ SocketError(c) \/ BufferChanges(c)
       \/ GoSilent(c) \/ MessageRefused(c) \/ MessageAccepted(c)
       \/ HeartbeatTick(c) \/ PongTimeout(c) \/ Pong(c)
  \/ \E e \in Executions :
       ExecutionEnds(e) \/ StdioBegins(e) \/ \E c \in Conns : CommandBegins(c, e)
  \/ SessionDeleted
  \/ StdioRefused \/ StdioAccepted \/ StdioDone \/ StdinEnds \/ StdoutGoes \/ StdoutError
  \/ \E s \in Stops : StopBegins(s) \/ StopListening(s) \/ StopDrained(s)
                      \/ StopTimesOut(s) \/ StopCloses(s)

\* Timers fire, a socket that was closed gets its close event (ws gives up on a silent peer
\* after its own timeout), and stop() runs on; executions and authentications need not end.
Fairness ==
  /\ \A c \in Conns :
       /\ WF_vars(HeartbeatTick(c)) /\ WF_vars(PongTimeout(c))
       /\ WF_vars(conn[c].ws = "closing" /\ SocketClosed(c))
  /\ \A s \in Stops : /\ WF_vars(StopListening(s)) /\ WF_vars(StopCloses(s))
                      /\ WF_vars(StopDrained(s) \/ StopTimesOut(s))

Spec == Init /\ [][Next]_vars
FairSpec == Spec /\ Fairness
-----------------------------------------------------------------------------
TypeOK ==
  /\ conn \in [Conns -> [stage : {"none", "rejected", "authenticating", "served", "over"},
                         cleanedUp : BOOLEAN, activated : BOOLEAN,
                         pending : Nat, begun : Nat,
                         ws : {"none", "open", "closing", "closed"},
                         buffer : {"low", "over"}, threw : BOOLEAN,
                         timer : BOOLEAN, waitingForPong : BOOLEAN, deadline : BOOLEAN]]
  /\ connections \in Nat /\ reserved \in Nat /\ subscribers \subseteq Conns

Holding(c) == ~conn[c].cleanedUp /\ conn[c].stage \in {"authenticating", "served"}

\* The governor's counts are the handshakes and the connections that have not been cleaned up,
\* and together never exceed the limit, whatever closes, fails or answers late
\* (setupWebSocket, tryReserveConnectionSlot).
SlotsAccounted ==
  /\ reserved = Cardinality({c \in Conns : Holding(c) /\ ~conn[c].activated})
  /\ connections = Cardinality({c \in Conns : Holding(c) /\ conn[c].activated})
  /\ connections + reserved <= MaxConnections

\* A connection that was cleaned up stays out: no subscription, no timer, and no open socket
\* that could go on sending commands on a slot it does not have, unless a send of ws threw.
CleanedForGood ==
  \A c \in Conns : conn[c].cleanedUp =>
    /\ c \notin subscribers /\ ~conn[c].timer /\ ~conn[c].deadline
    /\ conn[c].ws = "open" => conn[c].threw

\* Connections are accounted for: their slots are counted right, and those that went are gone.
ConnectionsAccounted == TypeOK /\ SlotsAccounted /\ CleanedForGood

\* A served peer that falls silent is noticed by the heartbeat and loses its slot, unless a
\* ping threw, which ends the heartbeat of the connection.
SilentPeersLeave ==
  \A c \in Conns : c \in silent /\ Holding(c) /\ conn[c].activated ~> ~Holding(c) \/ conn[c].threw

\* One stop() whose drain did not time out closes the sockets and disposes of the sessions with
\* no execution in flight, and none is in flight afterwards: not that of a command answered by
\* its timeout, and not that of a message that still waited for the journal (initiateShutdown).
DrainedFirst == \A s \in Stops : stopping[s] \in {"closing", "closed"} => inFlight = {}

\* After stop() every slot comes back, those of handshakes in progress too.
StopFreesSlots == disposed ~> connections = 0 /\ reserved = 0

\* Each message is answered once (handleCommand).
OneAnswer == ~twice
=============================================================================
