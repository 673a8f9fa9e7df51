------------------------ MODULE ClientSession_proofs ------------------------
(***************************************************************************)
(* Proofs about ClientSession, for every number of attempts and commands.   *)
(***************************************************************************)
EXTENDS ClientSession, SequenceTheorems, TLAPS

(***************************************************************************)
(* The session properties are not inductive: that no server's ID survives   *)
(* into an Unconnected state needs that an attempt has not received one,    *)
(* which needs that ENet is not connected during an attempt.                *)
(***************************************************************************)
AttemptIsClean ==
  connectState = "Connecting" =>
    /\ playerEID # "remote"
    /\ phase # "done" => peer \in {"connecting", "free"}

SessionInv ==
  TypeOK /\ PeerMatchesState /\ PlayerIsInWorld /\ RendererShowsWorld /\ AttemptIsClean

(***************************************************************************)
(* Between frames the queue holds nothing but what was issued during an     *)
(* attempt: the rest was taken from it in the frame it was put there.       *)
(***************************************************************************)
QueueHoldsConnecting ==
  \A k \in DOMAIN playerCommandQueue : playerCommandQueue[k].state = "Connecting"

QueueInv == QueueHoldsConnecting /\ RanWhereIssued /\ QueueIsFIFO

IInv == SessionInv /\ QueueInv

-----------------------------------------------------------------------------
(***************************************************************************)
(* What ProcessQueue does to the queue and to what ran.                     *)
(***************************************************************************)

\* Running a queue of commands gives one outcome per command, in order.
LEMMA OutcomesType ==
  ASSUME NEW q \in Seq(Command), NEW state \in {"Unconnected", "Connected"}, NEW p,
         NEW w \in Nat
  PROVE  [k \in DOMAIN q |-> [cmd |-> q[k], where |-> Route(state, p), world |-> w]]
           \in Seq(Outcome)
<1>1. Route(state, p) \in {"local", "server", "nowhere"}
  BY DEF Route
<1>2. \A k \in DOMAIN q : [cmd |-> q[k], where |-> Route(state, p), world |-> w] \in Outcome
  BY <1>1 DEF Outcome
<1>3. DOMAIN q = 1 .. Len(q) /\ Len(q) \in Nat
  OBVIOUS
<1> QED
  BY <1>2, <1>3

\* A frame adds a few commands to the queue, all issued now, and then processes it.
LEMMA FrameQueue ==
  ASSUME TypeOK, SimFrame
  PROVE  \E n \in 0 .. 2 :
           /\ issued' = issued + n
           /\ NewCommands(n) \in Seq(Command)
           /\ ProcessQueue(connectState', peer', playerCommandQueue \o NewCommands(n))
           /\ connectState' \in ConnectState
<1>1. connectState' \in ConnectState
  BY DEF TypeOK, SimFrame, CmdConnect, CmdDisconnect, connection, ConnectState
<1>2. PICK n \in 0 .. 2 :
        /\ issued' = issued + n
        /\ ProcessQueue(connectState', peer', playerCommandQueue \o NewCommands(n))
  BY DEF SimFrame
<1>3. NewCommands(n) \in Seq(Command)
  <2>1. \A k \in 1 .. n :
          [number |-> issued + k, state |-> connectState', world |-> world] \in Command
    BY <1>1 DEF TypeOK, Command
  <2> QED
    BY <2>1 DEF NewCommands
<1> QED
  BY <1>1, <1>2, <1>3

-----------------------------------------------------------------------------
LEMMA InitIInv == Init => IInv
<1> SUFFICES ASSUME Init PROVE IInv
  OBVIOUS
<1>1. SessionInv
  <2>1. paused \in BOOLEAN /\ timeUp \in BOOLEAN
    BY Zenon DEF Init
  <2> QED
    BY <2>1 DEF Init, SessionInv, TypeOK, ConnectState, PeerMatchesState, PlayerIsInWorld,
           RendererShowsWorld, AttemptIsClean
<1>2. QueueInv
  BY DEF Init, QueueInv, QueueHoldsConnecting, RanWhereIssued, QueueIsFIFO
<1> QED
  BY <1>1, <1>2 DEF IInv

\* Everything but the typing of the queue and of what ran is settled by the state of
\* the connection alone.
LEMMA NextSession == SessionInv /\ [Next]_vars => SessionInv'
<1> SUFFICES ASSUME SessionInv, [Next]_vars PROVE SessionInv'
  OBVIOUS
<1> USE DEF SessionInv, TypeOK, ConnectState, PeerMatchesState, PlayerIsInWorld,
        RendererShowsWorld, AttemptIsClean
<1>1. CASE TogglePause
  BY <1>1 DEF TogglePause, connection, scene, commands
<1>2. CASE ProcessConnect
  BY <1>2 DEF ProcessConnect, commands, ConnectRenderer, NewWorldPlayer
<1>3. CASE ProcessDisconnect
  BY <1>3 DEF ProcessDisconnect, commands, NewWorldPlayer, DisconnectedState
<1>4. CASE ProcessPlayerCmd
  BY <1>4 DEF ProcessPlayerCmd, connection, commands
<1>5. CASE EndPoll
  BY <1>5 DEF EndPoll, TimedOut, ResetPeer, scene, commands
<1>6. CASE SimFrame
  <2>1. PICK q \in Seq(Command) :
           /\ issued' \in Nat
           /\ ProcessQueue(connectState', peer', q)
           /\ connectState' \in ConnectState
    <3>1. PICK n \in 0 .. 2 :
            /\ issued' = issued + n
            /\ NewCommands(n) \in Seq(Command)
            /\ ProcessQueue(connectState', peer', playerCommandQueue \o NewCommands(n))
            /\ connectState' \in ConnectState
      BY <1>6, FrameQueue
    <3>2. playerCommandQueue \o NewCommands(n) \in Seq(Command)
      BY <3>1, ConcatProperties
    <3>3. issued' \in Nat
      BY <3>1
    <3> DEFINE q == playerCommandQueue \o NewCommands(n)
    <3>4. q \in Seq(Command) /\ ProcessQueue(connectState', peer', q)
      BY <3>1, <3>2
    <3> HIDE DEF q
    <3> QED
      BY <3>1, <3>3, <3>4
  <2>2. playerCommandQueue' \in Seq(Command) /\ ran' \in Seq(Outcome)
    <3>1. CASE connectState' = "Connecting"
      BY <2>1, <3>1 DEF ProcessQueue
    <3>2. CASE connectState' # "Connecting"
      <4>1. connectState' \in {"Unconnected", "Connected"}
        BY <2>1, <3>2
      <4>2. [k \in DOMAIN q |-> [cmd |-> q[k], where |-> Route(connectState', peer'),
                                 world |-> world]] \in Seq(Outcome)
        BY <4>1, OutcomesType
      <4> DEFINE new == [k \in DOMAIN q |-> [cmd |-> q[k],
                           where |-> Route(connectState', peer'), world |-> world]]
      <4>3. playerCommandQueue' = <<>> /\ ran' = ran \o new
        BY <2>1, <3>2 DEF ProcessQueue, Emptied
      <4> HIDE DEF new
      <4>4. ran \o new \in Seq(Outcome)
        BY <4>2, ConcatProperties DEF new
      <4> QED
        BY <4>3, <4>4
    <3> QED
      BY <3>1, <3>2
  <2>3. issued' \in Nat /\ attempts' \in Nat
    BY <1>6, <2>1 DEF SimFrame
  <2>4. /\ phase' = phase /\ paused' = paused /\ world' = world /\ renderer' = renderer
        /\ playerEID' = playerEID /\ phase \in {"tick", "exiting"} /\ selected' \in {0, world}
    BY <1>6 DEF SimFrame
  <2>5. CASE UNCHANGED connection
    BY <2>2, <2>3, <2>4, <2>5 DEF connection
  <2>6. CASE CmdConnect
    <3>1. timeUp' \in BOOLEAN
      BY Zenon, <2>6 DEF CmdConnect, connection
    <3>2. \/ UNCHANGED <<connectState, server, peer>>
          \/ /\ connectState = "Unconnected" /\ peer = "free"
             /\ server' = "peer" /\ peer' = "connecting" /\ connectState' = "Connecting"
          \/ /\ connectState = "Unconnected" /\ peer # "free"
             /\ server' = "null" /\ UNCHANGED <<connectState, peer>>
      BY <2>6 DEF CmdConnect, connection
    <3> QED
      BY <2>2, <2>3, <2>4, <3>1, <3>2
  <2>7. CASE CmdDisconnect
    BY <2>2, <2>3, <2>4, <2>7 DEF CmdDisconnect, PeerDisconnect
  <2> QED
    BY <1>6, <2>5, <2>6, <2>7 DEF SimFrame
<1>12. CASE Exit
  BY <1>12 DEF Exit, connection, scene, commands
<1>7. CASE EndTicks
  BY <1>7 DEF EndTicks, connection, scene, commands
<1>8. CASE Draw
  BY <1>8 DEF Draw, connection, scene, commands
<1>9. CASE Quit
  BY <1>9 DEF Quit, PeerDisconnect, ResetPeer, scene, commands
<1>10. CASE TimePasses
  BY <1>10 DEF TimePasses, scene, commands
<1>11. CASE UNCHANGED vars
  BY <1>11 DEF vars, connection, scene, commands
<1> QED
  BY <1>1, <1>2, <1>3, <1>4, <1>5, <1>6, <1>7, <1>8, <1>9, <1>10, <1>11, <1>12 DEF Next

\* Only a frame touches the queue: the commands it runs are those that waited, all
\* issued during an attempt, and those issued in the state and world it runs in.
LEMMA NextQueue == TypeOK /\ QueueInv /\ [Next]_vars => QueueInv'
<1> SUFFICES ASSUME TypeOK, QueueInv, [Next]_vars PROVE QueueInv'
  OBVIOUS
<1>1. CASE SimFrame
  <2>1. PICK n \in 0 .. 2 :
          /\ issued' = issued + n
          /\ NewCommands(n) \in Seq(Command)
          /\ ProcessQueue(connectState', peer', playerCommandQueue \o NewCommands(n))
          /\ connectState' \in ConnectState
    BY <1>1, FrameQueue
  <2>2. /\ playerCommandQueue \in Seq(Command) /\ Len(playerCommandQueue) \in Nat
        /\ ran \in Seq(Outcome) /\ Len(ran) \in Nat
    BY DEF TypeOK
  <2>3. /\ issued = Len(ran) + Len(playerCommandQueue)
        /\ \A k \in DOMAIN playerCommandQueue :
             /\ playerCommandQueue[k].number = Len(ran) + k
             /\ playerCommandQueue[k].state = "Connecting"
    BY DEF QueueInv, QueueHoldsConnecting, QueueIsFIFO
  <2> DEFINE q == playerCommandQueue \o NewCommands(n)
  <2>4. /\ q \in Seq(Command)
        /\ \A k \in DOMAIN q :
             /\ q[k].number = Len(ran) + k
             /\ \/ q[k].state = "Connecting"
                \/ q[k].state = connectState' /\ q[k].world = world
        /\ issued' = Len(ran) + Len(q)
        /\ ProcessQueue(connectState', peer', q)
    <3>1. /\ Len(NewCommands(n)) = n
          /\ \A k \in 1 .. n : /\ NewCommands(n)[k].number = issued + k
                               /\ NewCommands(n)[k].state = connectState'
                               /\ NewCommands(n)[k].world = world
      BY DEF NewCommands
    <3>2. /\ q \in Seq(Command)
          /\ Len(q) = Len(playerCommandQueue) + n
          /\ \A k \in 1 .. Len(q) :
               q[k] = IF k <= Len(playerCommandQueue) THEN playerCommandQueue[k]
                      ELSE NewCommands(n)[k - Len(playerCommandQueue)]
      BY <2>1, <2>2, <3>1, ConcatProperties
    <3> HIDE DEF q
    <3>3. DOMAIN q = 1 .. Len(q)
      BY <3>2
    <3>4. \A k \in DOMAIN q :
             /\ q[k].number = Len(ran) + k
             /\ \/ q[k].state = "Connecting"
                \/ q[k].state = connectState' /\ q[k].world = world
      <4> TAKE k \in DOMAIN q
      <4>1. CASE k <= Len(playerCommandQueue)
        <5>1. k \in DOMAIN playerCommandQueue
          BY <2>2, <3>3, <4>1
        <5>2. q[k] = playerCommandQueue[k]
          BY <3>2, <3>3, <4>1
        <5> QED
          BY <2>3, <5>1, <5>2
      <4>2. CASE k > Len(playerCommandQueue)
        <5>1. /\ k - Len(playerCommandQueue) \in 1 .. n
              /\ q[k] = NewCommands(n)[k - Len(playerCommandQueue)]
          BY <2>2, <3>2, <3>3, <4>2
        <5>2. issued + (k - Len(playerCommandQueue)) = Len(ran) + k
          BY <2>2, <2>3, <3>3
        <5> QED
          BY <3>1, <5>1, <5>2
      <4> QED
        BY <2>2, <3>3, <4>1, <4>2
    <3>5. issued' = Len(ran) + Len(q)
      BY <2>1, <2>2, <2>3, <3>2
    <3> QED
      BY <2>1, <3>2, <3>4, <3>5 DEF q
  <2> HIDE DEF q
  <2>5. \A k \in DOMAIN q :
          /\ q[k].number = Len(ran) + k
          /\ \/ q[k].state = "Connecting"
             \/ q[k].state = connectState' /\ q[k].world = world
    BY <2>4
  <2>6. issued' = Len(ran) + Len(q)
    BY <2>4
  <2>7. CASE connectState' = "Connecting"
    <3>1. playerCommandQueue' = q /\ ran' = ran
      BY <2>4, <2>7 DEF ProcessQueue
    <3> QED
      BY <2>5, <2>6, <2>7, <3>1
         DEF QueueInv, QueueHoldsConnecting, RanWhereIssued, QueueIsFIFO
  <2>8. CASE connectState' # "Connecting"
    <3> DEFINE new == [k \in DOMAIN q |-> [cmd |-> q[k],
                         where |-> Route(connectState', peer'), world |-> world]]
    <3>1. playerCommandQueue' = <<>> /\ ran' = ran \o new
      BY <2>4, <2>8 DEF ProcessQueue, Emptied
    <3>2. connectState' \in {"Unconnected", "Connected"}
      BY <2>1, <2>8 DEF ConnectState
    <3>3. new \in Seq(Outcome)
      BY <2>4, <3>2, OutcomesType DEF TypeOK
    <3>4. Len(new) = Len(q) /\ DOMAIN new = DOMAIN q
      BY <2>4
    <3>5. \A k \in DOMAIN q : /\ new[k].cmd = q[k] /\ new[k].world = world
                              /\ new[k].where = Route(connectState', peer')
      OBVIOUS
    <3>6. /\ connectState' = "Unconnected" => Route(connectState', peer') = "local"
          /\ connectState' = "Connected" => Route(connectState', peer') # "local"
      BY DEF Route
    <3>7. \A k \in DOMAIN q :
            /\ q[k].state = "Unconnected" => new[k].where = "local" /\ new[k].world = q[k].world
            /\ q[k].state = "Connected" => new[k].where # "local" /\ new[k].world = q[k].world
      BY <2>5, <3>5, <3>6
    <3> HIDE DEF new
    <3>8. /\ DOMAIN (ran \o new) = 1 .. (Len(ran) + Len(q))
          /\ \A k \in DOMAIN ran : (ran \o new)[k] = ran[k]
          /\ \A k \in DOMAIN (ran \o new) : k \notin DOMAIN ran =>
               /\ k - Len(ran) \in DOMAIN q
               /\ (ran \o new)[k] = new[k - Len(ran)]
          /\ Len(ran \o new) = Len(ran) + Len(q)
      <4>1. /\ Len(ran \o new) = Len(ran) + Len(new)
            /\ \A k \in 1 .. Len(ran) + Len(new) :
                 (ran \o new)[k] = IF k <= Len(ran) THEN ran[k] ELSE new[k - Len(ran)]
        BY <2>2, <3>3, ConcatProperties
      <4>2. ran \o new \in Seq(Outcome)
        BY <2>2, <3>3, ConcatProperties
      <4>3. DOMAIN ran = 1 .. Len(ran) /\ DOMAIN q = 1 .. Len(q) /\ Len(q) \in Nat
        BY <2>2, <2>4
      <4>4. DOMAIN (ran \o new) = 1 .. (Len(ran) + Len(q))
        BY <3>4, <4>1, <4>2
      <4> HIDE DEF new
      <4> QED
        BY <2>2, <3>4, <4>1, <4>3, <4>4
    <3>9. RanWhereIssued'
      BY <3>1, <3>5, <3>7, <3>8 DEF QueueInv, RanWhereIssued
    <3>10. \A k \in DOMAIN (ran \o new) : (ran \o new)[k].cmd.number = k
      <4> TAKE k \in DOMAIN (ran \o new)
      <4>1. CASE k \in DOMAIN ran
        BY <3>8, <4>1 DEF QueueInv, QueueIsFIFO
      <4>2. CASE k \notin DOMAIN ran
        <5>1. (ran \o new)[k].cmd.number = Len(ran) + (k - Len(ran))
          BY <2>5, <3>5, <3>8, <4>2
        <5> QED
          BY <3>8, <5>1 DEF TypeOK
      <4> QED
        BY <4>1, <4>2
    <3>11. QueueIsFIFO'
      BY <2>6, <3>1, <3>8, <3>10 DEF QueueIsFIFO, TypeOK
    <3> QED
      BY <3>1, <3>9, <3>11 DEF QueueInv, QueueHoldsConnecting
  <2> QED
    BY <2>7, <2>8
<1>2. CASE ~SimFrame
  <2>1. UNCHANGED commands
    BY <1>2 DEF Next, vars, TogglePause, Exit, ProcessConnect, ProcessDisconnect,
                ProcessPlayerCmd, EndPoll, EndTicks, Draw, Quit, TimePasses
  <2> QED
    BY <2>1 DEF commands, QueueInv, QueueHoldsConnecting, RanWhereIssued, QueueIsFIFO
<1> QED
  BY <1>1, <1>2

-----------------------------------------------------------------------------
\* IInv is an invariant of every session.
THEOREM Invariance == Spec => []IInv
<1>1. IInv /\ [Next]_vars => IInv'
  BY NextSession, NextQueue DEF IInv, SessionInv
<1> QED
  BY InitIInv, <1>1, PTL DEF Spec

\* The client's idea of the connection and ENet's agree where the code relies on it.
THEOREM SessionAgrees == Spec => []PeerMatchesState
<1>1. IInv => PeerMatchesState
  BY DEF IInv, SessionInv
<1> QED
  BY Invariance, <1>1, PTL

\* The unchecked dereference of the player in sim_frame always finds the player.
THEOREM PlayerFound == Spec => []PlayerIsInWorld
<1>1. IInv => PlayerIsInWorld
  BY DEF IInv, SessionInv
<1> QED
  BY Invariance, <1>1, PTL

\* A connected client's renderer is one of the world it receives.
THEOREM RendererFollows == Spec => []RendererShowsWorld
<1>1. IInv => RendererShowsWorld
  BY DEF IInv, SessionInv
<1> QED
  BY Invariance, <1>1, PTL

\* Commands issued on one side of a connection never run on the other side of it.
THEOREM CommandsRouted == Spec => []RanWhereIssued
<1>1. IInv => RanWhereIssued
  BY DEF IInv, QueueInv
<1> QED
  BY Invariance, <1>1, PTL

\* The command queue is first-in first-out through connects and disconnects.
THEOREM CommandsInOrder == Spec => []QueueIsFIFO
<1>1. IInv => QueueIsFIFO
  BY DEF IInv, QueueInv
<1> QED
  BY Invariance, <1>1, PTL
=============================================================================
