-------------------------- MODULE ConductorProofs ---------------------------
(***************************************************************************)
(* Proofs about Conductor, for every set of sockets and every number of    *)
(* late close events.                                                      *)
(***************************************************************************)
EXTENDS Conductor, TLAPS

USE ConductorAssumption

(* Where the connection is after launch(). *)
LEMMA InitIInv == Init => IInv
<1> SUFFICES ASSUME Init PROVE IInv
  OBVIOUS
<1>1. late = 0 /\ late \in 0..MaxLate
  BY DEF Init
<1>2. TypeOK
  BY <1>1 DEF Init, TypeOK, Live
<1>3. \A s \in Sockets \ {websocket} : readyState[s] = "closed"
  BY DEF Init
<1>4. LiveIsCurrent /\ PingIsCurrent /\ StoppedIsDead /\ LiveIsAlone
  BY <1>3 DEF Init, LiveIsCurrent, PingIsCurrent, StoppedIsDead, LiveIsAlone,
              IsLive, Live
<1> QED BY <1>2, <1>4 DEF IInv

(* Giving a socket up, in whatever state it is left, when it is the        *)
(* current one unless a close event was late.                              *)
LEMMA ResetInv ==
  ASSUME IInv, NEW s \in Sockets,
         NEW fallen \in Live \cup {"closing", "closed"},
         fallen \in Live => IsLive(s),
         late = 0 /\ IsLive(websocket) => s = websocket,
         ResetOnce(s, fallen)
  PROVE  IInv'
<1>1. CASE reconnectTimeout = "undefined"
  <2> DEFINE left == IF fallen \in Live THEN "closing" ELSE fallen
  <2>0. left \in {"closing", "closed"}
    BY DEF Live
  <2>1. /\ readyState' = [readyState EXCEPT ![s] = left]
        /\ interval' = interval \ {s} /\ pingTimeout' = pingTimeout \ {s}
        /\ websocket' = IF websocket = s THEN NoSocket ELSE websocket
        /\ reconnectTimeout' \in {"undefined", "armed"}
        /\ UNCHANGED <<pingSocket, isShuttingDown, late>>
    BY <1>1 DEF ResetOnce, ResetWebsocket, Become
  <2>2. TypeOK'
    BY <2>0, <2>1 DEF IInv, TypeOK
  <2>3. \A t \in Sockets : IsLive(t)' => t # s /\ IsLive(t)
    BY <2>0, <2>1 DEF IInv, TypeOK, IsLive, Live
  <2>4. LiveIsCurrent' /\ StoppedIsDead' /\ PingIsCurrent'
    BY <2>1, <2>3 DEF IInv, LiveIsCurrent, StoppedIsDead, PingIsCurrent
  <2>5. LiveIsAlone'
    <3> SUFFICES ASSUME late' = 0, IsLive(websocket)'
                 PROVE  FALSE
      BY DEF LiveIsAlone
    <3> QED BY <2>3, <2>1 DEF IsLive
  <2> QED BY <2>2, <2>4, <2>5 DEF IInv
<1>2. CASE reconnectTimeout # "undefined"
  <2>1. /\ readyState' = [readyState EXCEPT ![s] = fallen]
        /\ UNCHANGED <<websocket, pingSocket, interval, pingTimeout,
                       reconnectTimeout, isShuttingDown, late>>
    BY <1>2 DEF ResetOnce, Become
  <2>2. TypeOK'
    BY <2>1 DEF IInv, TypeOK
  <2>3. \A t \in Sockets : IsLive(t)' => IsLive(t)
    BY <2>1 DEF IInv, TypeOK, IsLive, Live
  <2>4. IsLive(websocket)' => IsLive(websocket)
    BY <2>1, <2>3 DEF IsLive
  <2>5. LiveIsCurrent' /\ StoppedIsDead' /\ PingIsCurrent'
    BY <2>1, <2>3 DEF IInv, LiveIsCurrent, StoppedIsDead, PingIsCurrent
  <2>6. LiveIsAlone'
    BY <1>2, <2>1, <2>4 DEF IInv, LiveIsAlone
  <2> QED BY <2>2, <2>5, <2>6 DEF IInv
<1> QED BY <1>1, <1>2

(* Events that move a socket without anybody acting on it. *)
LEMMA MoveInv ==
  ASSUME IInv, NEW s \in Sockets,
         NEW state \in Live \cup {"closing", "closed"},
         state \in Live \/ s = websocket => IsLive(s),
         state = "closing" => IsLive(s),
         Become(s, state),
         UNCHANGED <<websocket, pingSocket, interval, reconnectTimeout,
                     isShuttingDown, late>>,
         pingTimeout' \subseteq pingTimeout
  PROVE  IInv'
<1>1. readyState' = [readyState EXCEPT ![s] = state]
  BY DEF Become
<1>2. TypeOK'
  BY <1>1 DEF IInv, TypeOK
<1>3. \A t \in Sockets : IsLive(t)' => IsLive(t)
  BY <1>1 DEF IInv, TypeOK, IsLive
<1>4. LiveIsCurrent' /\ StoppedIsDead' /\ PingIsCurrent'
  BY <1>3 DEF IInv, LiveIsCurrent, StoppedIsDead, PingIsCurrent
<1>5. LiveIsAlone'
  <2> SUFFICES ASSUME late' = 0, IsLive(websocket)'
               PROVE  /\ reconnectTimeout = "undefined"
                      /\ \A t \in Sockets \ {websocket} :
                           readyState'[t] = "closed"
    BY DEF LiveIsAlone
  <2>1. IsLive(websocket)
    BY <1>3 DEF IsLive
  <2>2. reconnectTimeout = "undefined"
        /\ \A t \in Sockets \ {websocket} : readyState[t] = "closed"
    BY <2>1 DEF IInv, LiveIsAlone
  <2>3. s # websocket => state = "closed"
    BY <2>2 DEF IsLive, Live
  <2> QED BY <1>1, <2>2, <2>3 DEF IInv, TypeOK
<1> QED BY <1>2, <1>4, <1>5 DEF IInv

(* Ping and pong arm and disarm the timeout of the current connection. *)
LEMMA PingInv ==
  ASSUME IInv, NEW s \in Sockets, Ping(s) \/ Pong(s)
  PROVE  IInv'
<1> USE DEF Ping, Pong
<1>1. TypeOK' /\ PingIsCurrent'
  BY DEF IInv, TypeOK, PingIsCurrent
<1>2. LiveIsCurrent' /\ StoppedIsDead' /\ LiveIsAlone'
  BY DEF IInv, LiveIsCurrent, StoppedIsDead, LiveIsAlone, IsLive
<1> QED BY <1>1, <1>2 DEF IInv

LEMMA PingTimesOutInv ==
  ASSUME IInv, NEW s \in Sockets, PingTimesOut(s)
  PROVE  IInv'
<1>1. CASE ~ isShuttingDown /\ reconnectTimeout = "undefined"
  <2>1. ResetOnce(s, readyState[s])
    BY <1>1 DEF PingTimesOut, ResetOnce
  <2>2. readyState[s] \in Live \cup {"closing", "closed"}
    BY DEF IInv, TypeOK
  <2>3. IsLive(websocket) => s = websocket
    BY DEF PingTimesOut, IInv, PingIsCurrent, IsLive
  <2> QED BY <2>1, <2>2, <2>3, ResetInv DEF IsLive
<1>2. CASE ~ (~ isShuttingDown /\ reconnectTimeout = "undefined")
  <2> USE <1>2 DEF PingTimesOut
  <2>1. TypeOK' /\ PingIsCurrent'
    BY DEF IInv, TypeOK, PingIsCurrent
  <2>2. LiveIsCurrent' /\ StoppedIsDead' /\ LiveIsAlone'
    BY DEF IInv, LiveIsCurrent, StoppedIsDead, LiveIsAlone, IsLive
  <2> QED BY <2>1, <2>2 DEF IInv
<1> QED BY <1>1, <1>2

LEMMA SocketEventInv ==
  ASSUME IInv, NEW s \in Sockets, SocketEvent(s)
  PROVE  IInv'
<1>1. CASE Opened(s)
  BY <1>1, MoveInv DEF Opened, IsLive, Live
<1>2. CASE UnexpectedResponse(s)
  BY <1>2, ResetInv DEF UnexpectedResponse, IInv, LiveIsCurrent, IsLive, Live
<1>3. CASE Failed(s)
  BY <1>3, ResetInv DEF Failed, IInv, LiveIsCurrent, IsLive, Live
<1>4. CASE PeerCloses(s) \/ PeerVanishes(s)
  BY <1>4, MoveInv DEF PeerCloses, PeerVanishes, IsLive, Live
<1>5. CASE Closed(s)
  <2>1. CASE isShuttingDown
    <3>1. \A t \in Sockets : ~ IsLive(t)
      BY <2>1 DEF IInv, StoppedIsDead
    <3> USE <1>5, <2>1 DEF Closed, Become
    <3>2. TypeOK' /\ PingIsCurrent'
      BY DEF IInv, TypeOK, PingIsCurrent
    <3>3. \A t \in Sockets : ~ IsLive(t)'
      BY <3>1 DEF IInv, TypeOK, IsLive, Live
    <3>4. ~ IsLive(websocket)'
      BY <3>3 DEF IsLive
    <3> QED BY <3>2, <3>3, <3>4
            DEF IInv, LiveIsCurrent, StoppedIsDead, LiveIsAlone
  <2>2. CASE ~ isShuttingDown
    BY <1>5, <2>2, ResetInv DEF Closed, IInv, LiveIsAlone, Live
  <2> QED BY <2>1, <2>2
<1>6. CASE Ping(s) \/ Pong(s)
  BY <1>6, PingInv
<1>7. CASE PingTimesOut(s)
  BY <1>7, PingTimesOutInv
<1> QED BY <1>1, <1>2, <1>3, <1>4, <1>5, <1>6, <1>7 DEF SocketEvent

(* The timer opens a socket only when none is alive, and, unless a close   *)
(* event is late, when all are closed.                                     *)
LEMMA DispatchLoopInv ==
  ASSUME IInv, DispatchLoop
  PROVE  IInv'
<1>1. late' \in 0..MaxLate /\ (late' = 0 =>
        late = 0 /\ \A s \in Sockets : readyState[s] # "closing")
  BY DEF DispatchLoop, IInv, TypeOK
<1>2. CASE IsLive(websocket)
  <2>1. /\ reconnectTimeout' = "spent"
        /\ UNCHANGED <<websocket, pingSocket, readyState, interval,
                       pingTimeout, isShuttingDown>>
    BY <1>2 DEF DispatchLoop
  <2>2. late' # 0
    BY <1>1, <1>2 DEF DispatchLoop, IInv, LiveIsAlone
  <2>3. TypeOK' /\ PingIsCurrent'
    BY <1>1, <2>1 DEF IInv, TypeOK, PingIsCurrent
  <2>4. LiveIsCurrent' /\ StoppedIsDead' /\ LiveIsAlone'
    BY <2>1, <2>2 DEF IInv, LiveIsCurrent, StoppedIsDead, LiveIsAlone, IsLive
  <2> QED BY <2>3, <2>4 DEF IInv
<1>3. CASE ~ IsLive(websocket)
  <2>1. Reconnect
    BY <1>3 DEF DispatchLoop
  <2>2. \A s \in Sockets : ~ IsLive(s)
    BY <1>3 DEF IInv, LiveIsCurrent
  <2>3. CASE isShuttingDown
    <3>1. /\ reconnectTimeout' = "undefined"
          /\ interval' = interval \ {pingSocket}
          /\ pingTimeout' = pingTimeout \ {pingSocket}
          /\ UNCHANGED <<websocket, pingSocket, readyState, isShuttingDown>>
      BY <2>1, <2>3 DEF Reconnect
    <3>2. TypeOK' /\ PingIsCurrent'
      BY <1>1, <3>1 DEF IInv, TypeOK, PingIsCurrent
    <3>3. LiveIsCurrent' /\ StoppedIsDead' /\ LiveIsAlone'
      BY <1>3, <2>2, <3>1
         DEF LiveIsCurrent, StoppedIsDead, LiveIsAlone, IsLive
    <3> QED BY <3>2, <3>3 DEF IInv
  <2>4. CASE ~ isShuttingDown
    <3>1. PICK s \in Sockets :
            /\ readyState[s] = "closed"
            /\ readyState' = [readyState EXCEPT ![s] = "connecting"]
            /\ websocket' = s
            /\ pingSocket' = s
            /\ interval' = (interval \ {pingSocket}) \cup {s}
      BY <2>1, <2>4 DEF Reconnect, Become
    <3>2. /\ reconnectTimeout' = "undefined"
          /\ pingTimeout' = pingTimeout \ {pingSocket}
          /\ isShuttingDown' = isShuttingDown
      BY <2>1 DEF Reconnect
    <3>3. TypeOK' /\ PingIsCurrent'
      BY <1>1, <3>1, <3>2 DEF IInv, TypeOK, PingIsCurrent, Live
    <3>4. \A t \in Sockets \ {s} : readyState'[t] = readyState[t]
      BY <3>1 DEF IInv, TypeOK
    <3>5. LiveIsCurrent' /\ StoppedIsDead'
      BY <2>2, <2>4, <3>1, <3>2, <3>4
         DEF LiveIsCurrent, StoppedIsDead, IsLive
    <3>6. LiveIsAlone'
      <4> SUFFICES ASSUME late' = 0, NEW t \in Sockets \ {s}
                   PROVE  readyState'[t] = "closed"
        BY <3>1, <3>2 DEF LiveIsAlone
      <4>1. readyState[t] \notin Live /\ readyState[t] # "closing"
        BY <1>1, <2>2 DEF IsLive
      <4> QED BY <4>1, <3>4 DEF IInv, TypeOK
    <3> QED BY <3>3, <3>5, <3>6 DEF IInv
  <2> QED BY <2>3, <2>4
<1> QED BY <1>2, <1>3

(* stop() closes the only socket that can be alive. *)
LEMMA StopInv ==
  ASSUME IInv, Stop
  PROVE  IInv'
<1>1. TypeOK' /\ PingIsCurrent'
  BY DEF Stop, Become, IInv, TypeOK, PingIsCurrent, IsLive
<1>2. \A s \in Sockets : ~ IsLive(s)'
  <2>1. CASE IsLive(websocket)
    BY <2>1 DEF Stop, Become, IInv, TypeOK, LiveIsCurrent, IsLive, Live
  <2>2. CASE ~ IsLive(websocket)
    BY <2>2 DEF Stop, IInv, LiveIsCurrent, IsLive
  <2> QED BY <2>1, <2>2
<1>3. ~ IsLive(websocket)'
  BY <1>2 DEF IsLive
<1> QED BY <1>1, <1>2, <1>3
        DEF IInv, LiveIsCurrent, StoppedIsDead, LiveIsAlone

LEMMA NextIInv == IInv /\ [Next]_vars => IInv'
<1> SUFFICES ASSUME IInv, [Next]_vars PROVE IInv'
  OBVIOUS
<1>1. CASE DispatchLoop
  BY <1>1, DispatchLoopInv
<1>2. CASE Stop
  BY <1>2, StopInv
<1>3. ASSUME NEW s \in Sockets, SocketEvent(s) PROVE IInv'
  BY <1>3, SocketEventInv
<1>4. CASE UNCHANGED vars
  BY <1>4 DEF vars, IInv, TypeOK, LiveIsCurrent, PingIsCurrent,
              StoppedIsDead, LiveIsAlone, IsLive
<1> QED BY <1>1, <1>2, <1>3, <1>4 DEF Next

(* The current connection is the only one that is alive or pinged, and     *)
(* none is alive after stop().                                             *)
THEOREM Invariance == Spec => []IInv
<1> QED BY InitIInv, NextIInv, PTL DEF Spec

(* Every variable keeps its type. *)
THEOREM TypeCorrect == Spec => []TypeOK
<1>1. IInv => TypeOK
  BY DEF IInv
<1> QED BY <1>1, Invariance, PTL

(* However connections fail, at most one is alive. *)
THEOREM OneAlive == Spec => []OneLiveSocket
<1>1. IInv => OneLiveSocket
  BY DEF IInv, LiveIsCurrent, OneLiveSocket
<1> QED BY <1>1, Invariance, PTL

(* While every close event came in time, no timer is set that would make a *)
(* handler of the live connection believe a reconnection is under way.     *)
THEOREM TimerOver == Spec => []NoTimerWhileLive
<1>1. IInv => NoTimerWhileLive
  BY DEF IInv, LiveIsAlone, NoTimerWhileLive
<1> QED BY <1>1, Invariance, PTL

(* No socket lives on after stop(), and none is opened. *)
THEOREM Stopped == Spec => StopIsFinal
<1> DEFINE Dead == \A s \in Sockets : ~ IsLive(s)
<1>1. IInv => (isShuttingDown => Dead)
  BY DEF IInv, StoppedIsDead
<1>2. isShuttingDown /\ [Next]_vars => isShuttingDown'
  BY DEF Next, DispatchLoop, Reconnect, Stop, SocketEvent, Opened,
         UnexpectedResponse, Failed, PeerCloses, PeerVanishes, Closed, Ping,
         Pong, PingTimesOut, ResetOnce, ResetWebsocket, vars
<1> HIDE DEF Dead
<1>3. Spec => (isShuttingDown ~> []Dead)
  BY <1>1, <1>2, Invariance, PTL DEF Spec
<1> QED BY <1>3 DEF StopIsFinal, Dead

=============================================================================
