------------------------------ MODULE Conductor ------------------------------
(***************************************************************************)
(* The life of the connection to the conductor (conductor/conductor.ts):   *)
(* the websocket, its ping interval and ping timeout, the reconnection     *)
(* timer and stop().  The network opens, drops, refuses or silently loses  *)
(* a connection at any time.  What the messages ask for are calls into the *)
(* executor and are not modelled here.                                     *)
(*                                                                         *)
(* A socket is named by an id, used again once the socket is closed.       *)
(***************************************************************************)
EXTENDS Naturals

CONSTANTS Sockets,  \* ids for the sockets that exist at a time
          NoSocket,
          MaxLate   \* bound: close events that come after the timer

ASSUME ConductorAssumption ==
  Sockets # {} /\ NoSocket \notin Sockets /\ MaxLate \in Nat

VARIABLES
  websocket,        \* this.websocket
  pingSocket,       \* whose ping this.pingIntervalTimeout is
  readyState,       \* of each socket; "hung" is OPEN with the peer gone
  interval,         \* the sockets whose ping interval runs
  pingTimeout,      \* the sockets whose ping timeout is pending
  reconnectTimeout, \* "undefined", "armed", or "spent": fired or cleared
  isShuttingDown,
  late

vars == <<websocket, pingSocket, readyState, interval, pingTimeout,
          reconnectTimeout, isShuttingDown, late>>

Live == {"connecting", "open", "hung"}

TypeOK ==
  /\ websocket \in Sockets \cup {NoSocket}
  /\ pingSocket \in Sockets \cup {NoSocket}
  /\ readyState \in [Sockets -> Live \cup {"closing", "closed"}]
  /\ interval \subseteq Sockets
  /\ pingTimeout \subseteq Sockets
  /\ reconnectTimeout \in {"undefined", "armed", "spent"}
  /\ isShuttingDown \in BOOLEAN
  /\ late \in 0..MaxLate

(* launch() has called dispatchLoop() for the first time. *)
Init ==
  /\ websocket \in Sockets
  /\ pingSocket = websocket
  /\ readyState = [s \in Sockets |->
                     IF s = websocket THEN "connecting" ELSE "closed"]
  /\ interval = {websocket}
  /\ pingTimeout = {}
  /\ reconnectTimeout = "undefined"
  /\ isShuttingDown = FALSE
  /\ late = 0

IsLive(s) == s \in Sockets /\ readyState[s] \in Live

Become(s, state) == readyState' = [readyState EXCEPT ![s] = state]

-----------------------------------------------------------------------------
(* What the handlers and timers call. *)

(* Mutant: the connection that is given up is not terminated. *)
ResetWithoutTerminate(s, fallen) ==
  /\ interval' = interval \ {s}
  /\ pingTimeout' = pingTimeout \ {s}
  /\ Become(s, fallen)
  /\ websocket' = IF websocket = s THEN NoSocket ELSE websocket
  /\ reconnectTimeout' = IF reconnectTimeout # "undefined" \/ isShuttingDown
                         THEN reconnectTimeout ELSE "armed"
  /\ UNCHANGED <<pingSocket, isShuttingDown, late>>

(* resetWebsocket: give the socket up, in the state it fell into, and see  *)
(* to it that there will be another.                                       *)
ResetWebsocket(s, fallen) ==
  /\ interval' = interval \ {s}
  /\ pingTimeout' = pingTimeout \ {s}
  /\ Become(s, IF fallen \in Live THEN "closing" ELSE fallen)
  /\ websocket' = IF websocket = s THEN NoSocket ELSE websocket
  /\ reconnectTimeout' = IF reconnectTimeout # "undefined" \/ isShuttingDown
                         THEN reconnectTimeout ELSE "armed"
  /\ UNCHANGED <<pingSocket, isShuttingDown, late>>

(* Every handler resets only if no reconnection is under way. *)
ResetOnce(s, fallen) ==
  IF reconnectTimeout = "undefined" THEN ResetWebsocket(s, fallen)
  ELSE /\ Become(s, fallen)
       /\ UNCHANGED <<websocket, pingSocket, interval, pingTimeout,
                      reconnectTimeout, isShuttingDown, late>>

(* Mutant: the spent timer is taken for one that is under way. *)
ReconnectKeepingTimer ==
  /\ reconnectTimeout' = "spent"
  /\ \E s \in Sockets :
       /\ readyState[s] = "closed"
       /\ Become(s, "connecting")
       /\ websocket' = s
       /\ pingSocket' = s
       /\ interval' = (interval \ {pingSocket}) \cup {s}
  /\ pingTimeout' = pingTimeout \ {pingSocket}
  /\ UNCHANGED isShuttingDown

(* Mutant: the ping starts before the new websocket takes its place. *)
ReconnectPingingOld ==
  /\ reconnectTimeout' = "undefined"
  /\ pingTimeout' = pingTimeout \ {pingSocket}
  /\ \E s \in Sockets :
       /\ readyState[s] = "closed"
       /\ Become(s, "connecting")
       /\ websocket' = s
       /\ pingSocket' = s
       /\ interval' = (interval \ {pingSocket}) \cup {websocket}
  /\ UNCHANGED isShuttingDown

(* dispatchLoop without a live websocket: the old ping is cleared and,     *)
(* unless stopped, a socket opened.                                        *)
Reconnect ==
  /\ reconnectTimeout' = "undefined"
  /\ pingTimeout' = pingTimeout \ {pingSocket}
  /\ IF isShuttingDown
     THEN /\ interval' = interval \ {pingSocket}
          /\ UNCHANGED <<websocket, pingSocket, readyState>>
     ELSE \E s \in Sockets :
            /\ readyState[s] = "closed"
            /\ Become(s, "connecting")
            /\ websocket' = s
            /\ pingSocket' = s
            /\ interval' = (interval \ {pingSocket}) \cup {s}
  /\ UNCHANGED isShuttingDown

(* The reconnection timer fires.  A terminated socket has told so by then, *)
(* unless the event loop was held up from before its close event until     *)
(* after the timer was due.  With a live websocket dispatchLoop returns    *)
(* and the handle stays set.                                               *)
DispatchLoop ==
  /\ reconnectTimeout = "armed"
  /\ IF \A s \in Sockets : readyState[s] # "closing" THEN UNCHANGED late
     ELSE late < MaxLate /\ late' = late + 1
  /\ IF IsLive(websocket)
     THEN /\ reconnectTimeout' = "spent"
          /\ UNCHANGED <<websocket, pingSocket, readyState, interval,
                         pingTimeout, isShuttingDown>>
     ELSE Reconnect

-----------------------------------------------------------------------------
(* The events of a socket. *)

Opened(s) ==
  /\ readyState[s] = "connecting"
  /\ Become(s, "open")
  /\ pingTimeout' = pingTimeout \ {s}
  /\ UNCHANGED <<websocket, pingSocket, interval, reconnectTimeout,
                 isShuttingDown, late>>

(* A refused handshake; the socket itself is still connecting. *)
UnexpectedResponse(s) ==
  /\ readyState[s] = "connecting"
  /\ ResetOnce(s, "connecting")

(* A failed connection, or a handshake that timed out. *)
Failed(s) ==
  /\ readyState[s] \in Live
  /\ ResetOnce(s, "closing")

(* The peer closes; the close event is still to come. *)
PeerCloses(s) ==
  /\ readyState[s] = "open"
  /\ Become(s, "closing")
  /\ UNCHANGED <<websocket, pingSocket, interval, pingTimeout,
                 reconnectTimeout, isShuttingDown, late>>

(* The peer is gone without a word. *)
PeerVanishes(s) ==
  /\ readyState[s] = "open"
  /\ Become(s, "hung")
  /\ UNCHANGED <<websocket, pingSocket, interval, pingTimeout,
                 reconnectTimeout, isShuttingDown, late>>

Closed(s) ==
  /\ readyState[s] = "closing"
  /\ IF isShuttingDown
     THEN /\ Become(s, "closed")
          /\ UNCHANGED <<websocket, pingSocket, interval, pingTimeout,
                         reconnectTimeout, isShuttingDown, late>>
     ELSE ResetOnce(s, "closed")

-----------------------------------------------------------------------------
(* The ping. *)

(* Every period the timeout is armed and, on an open socket, a ping sent.  *)
(* The period is longer than the timeout: the last one is over.            *)
Ping(s) ==
  /\ s \in interval \ pingTimeout
  /\ pingTimeout' = pingTimeout \cup {s}
  /\ UNCHANGED <<websocket, pingSocket, readyState, interval,
                 reconnectTimeout, isShuttingDown, late>>

(* A pong or any message. *)
Pong(s) ==
  /\ s \in pingTimeout
  /\ readyState[s] = "open"
  /\ pingTimeout' = pingTimeout \ {s}
  /\ UNCHANGED <<websocket, pingSocket, readyState, interval,
                 reconnectTimeout, isShuttingDown, late>>

(* No answer in time. *)
PingTimesOut(s) ==
  /\ s \in pingTimeout
  /\ IF ~ isShuttingDown /\ reconnectTimeout = "undefined"
     THEN ResetWebsocket(s, readyState[s])
     ELSE /\ pingTimeout' = pingTimeout \ {s}
          /\ UNCHANGED <<websocket, pingSocket, readyState, interval,
                         reconnectTimeout, isShuttingDown, late>>

-----------------------------------------------------------------------------
(* Mutant: the websocket is forgotten instead of closed. *)
StopForgetting ==
  /\ ~ isShuttingDown
  /\ isShuttingDown' = TRUE
  /\ interval' = interval \ {pingSocket}
  /\ pingTimeout' = pingTimeout \ {pingSocket}
  /\ reconnectTimeout' = IF reconnectTimeout = "armed" THEN "spent"
                         ELSE reconnectTimeout
  /\ UNCHANGED <<websocket, pingSocket, readyState, late>>

Stop ==
  /\ ~ isShuttingDown
  /\ isShuttingDown' = TRUE
  /\ interval' = interval \ {pingSocket}
  /\ pingTimeout' = pingTimeout \ {pingSocket}
  /\ reconnectTimeout' = IF reconnectTimeout = "armed" THEN "spent"
                         ELSE reconnectTimeout
  /\ IF IsLive(websocket) THEN Become(websocket, "closing")
     ELSE UNCHANGED readyState
  /\ UNCHANGED <<websocket, pingSocket, late>>

SocketEvent(s) ==
  \/ Opened(s) \/ UnexpectedResponse(s) \/ Failed(s)
  \/ PeerCloses(s) \/ PeerVanishes(s) \/ Closed(s)
  \/ Ping(s) \/ Pong(s) \/ PingTimesOut(s)

Next == DispatchLoop \/ Stop \/ \E s \in Sockets : SocketEvent(s)

Spec == Init /\ [][Next]_vars

Handshake(s) == readyState[s] = "connecting" /\ (Opened(s) \/ Failed(s))

(* Timers fire, a closing socket closes and a handshake is answered or     *)
(* times out; nothing else of the network is owed.                         *)
Fairness ==
  /\ WF_vars(DispatchLoop)
  /\ \A s \in Sockets :
       /\ WF_vars(Closed(s))
       /\ WF_vars(Handshake(s))
       /\ WF_vars(Ping(s))
       /\ WF_vars(PingTimesOut(s))

FairSpec == Spec /\ Fairness

-----------------------------------------------------------------------------
(* Properties. *)

(* However connections fail, at most one is alive: the executor is never   *)
(* told by two conductors' sockets to recover the same workflows.          *)
OneLiveSocket == \A s, t \in Sockets : IsLive(s) /\ IsLive(t) => s = t

(* A reconnection is under way only while no connection is: the handle     *)
(* every handler asks (conductor.ts:66,356,366,375) is undefined again     *)
(* before the next loss, or that loss would go unnoticed.  One late close  *)
(* event is enough to break this.                                          *)
NoTimerWhileLive ==
  late = 0 /\ reconnectTimeout # "undefined" => ~ IsLive(websocket)

(* The inductive invariant behind the properties that have no fairness in  *)
(* them: what is alive or pinged is the current connection, nothing is     *)
(* alive after stop(), and, while every close event came in time, the      *)
(* sockets before a live one are closed and none is to follow it.          *)
LiveIsCurrent == \A s \in Sockets : IsLive(s) => s = websocket

PingIsCurrent ==
  /\ interval \cup pingTimeout \subseteq {pingSocket}
  /\ websocket \in {pingSocket, NoSocket}

StoppedIsDead == isShuttingDown => \A s \in Sockets : ~ IsLive(s)

LiveIsAlone ==
  late = 0 /\ IsLive(websocket) =>
    /\ reconnectTimeout = "undefined"
    /\ \A s \in Sockets \ {websocket} : readyState[s] = "closed"

IInv ==
  TypeOK /\ LiveIsCurrent /\ PingIsCurrent /\ StoppedIsDead /\ LiveIsAlone

(* A lost connection, one whose peer is gone without a word included, is   *)
(* noticed and replaced.                                                   *)
Connected == IsLive(websocket) /\ readyState[websocket] # "hung"

LossIsNoticed == ~ Connected ~> (Connected \/ isShuttingDown \/ late > 0)

(* After stop() every socket closes and none is opened again. *)
StopIsFinal == isShuttingDown ~> [](\A s \in Sockets : ~ IsLive(s))

=============================================================================
