---------------------------- MODULE ClientSession ----------------------------
(***************************************************************************)
(* The client program's session (narf/client/main.cpp): the loop of         *)
(* getInput, ticks and draw, the connection to a server, and the globals    *)
(* that point into the world, which each connect and disconnect replaces.   *)
(*                                                                          *)
(* Worlds are numbered in the order newWorld() makes them; every number but *)
(* the last is a deleted world.  Of ENet the one peer object of the client  *)
(* host is modelled, from how it is used.  Chat, console text and what the  *)
(* world contains are left out.                                             *)
(***************************************************************************)
EXTENDS Integers, Sequences

CONSTANTS
  MaxAttempts,  \* bound on connection attempts
  MaxCommands   \* bound on player commands

ASSUME SessionAssumption == MaxAttempts \in Nat /\ MaxCommands \in Nat

VARIABLES
  phase,         \* where the loop is: poll (getInput), tick, draw, exiting (the
                 \* window was closed), or done
  paused,
  connectState,
  server,        \* whether the global points at the peer object
  peer,          \* external: the state of that object
  timeUp,        \* now >= connectTimeoutEnd
  playerCommandQueue,
  world,         \* the number of the current world
  renderer,      \* the world of the renderer
  selected,      \* the world selectedBlockFace.block points into, or 0
  playerEID,     \* whose ID it is: nobody's, the local player's, or a server's
  ran,           \* history: the commands taken from the queue, and where they ran
  attempts, issued  \* history: counters for the bounds

connection == <<connectState, server, peer, timeUp>>
scene == <<world, renderer, selected, playerEID>>
commands == <<playerCommandQueue, ran, issued>>
vars == <<phase, paused, connection, scene, commands, attempts>>

ConnectState == {"Unconnected", "Connecting", "Connected"}
Command == [number : Nat, state : ConnectState, world : Nat]
Outcome == [cmd : Command, where : {"local", "server", "nowhere"}, world : Nat]

TypeOK ==
  /\ phase \in {"poll", "tick", "draw", "exiting", "done"}
  /\ paused \in BOOLEAN
  /\ connectState \in ConnectState
  /\ server \in {"null", "peer"}
  /\ peer \in {"free", "connecting", "connected", "disconnecting"}
  /\ timeUp \in BOOLEAN
  /\ playerCommandQueue \in Seq(Command)
  /\ world \in Nat \ {0}
  /\ renderer \in 1 .. world
  /\ selected \in 0 .. world
  /\ playerEID \in {"InvalidID", "local", "remote"}
  /\ ran \in Seq(Outcome)
  /\ attempts \in Nat
  /\ issued \in Nat

\* main() up to gameLoop->run().
Init ==
  /\ phase = "poll" /\ paused = FALSE
  /\ connectState = "Unconnected" /\ server = "null" /\ peer = "free" /\ timeUp = FALSE
  /\ playerCommandQueue = <<>> /\ ran = <<>> /\ issued = 0 /\ attempts = 0
  /\ world = 1 /\ renderer = 1 /\ selected = 0 /\ playerEID = "local"

-----------------------------------------------------------------------------
(***************************************************************************)
(* getInput() and pollNet(), whose loop dispatches what ENet reports.       *)
(***************************************************************************)
TogglePause ==
  /\ phase = "poll"
  /\ paused' = ~paused
  /\ UNCHANGED <<phase, connection, scene, commands, attempts>>

\* The window is closed: getInput() returns before pollNet(), from then on.
Exit ==
  /\ phase = "poll" /\ phase' = "exiting"
  /\ UNCHANGED <<paused, connection, scene, commands, attempts>>

\* Mutant of NewWorldPlayer: the camera stays with the ID it followed.
KeepPlayer == playerEID

\* What newWorld() leaves in playerEID.
NewWorldPlayer == "InvalidID"

\* Mutants of ConnectRenderer: the renderer is kept, as processDisconnect() does; or
\* it is deleted and not made again.
KeepRenderer(w) == renderer
NoRenderer(w) == 0

\* processConnect() replaces the renderer by one of the new world.
ConnectRenderer(w) == w

\* processConnect().  ENet reports it of a connection attempt in progress only.
ProcessConnect ==
  /\ phase = "poll" /\ connectState # "Unconnected"
  /\ peer = "connecting" /\ peer' = "connected"
  /\ connectState' = "Connected"
  /\ world' = world + 1
  /\ renderer' = ConnectRenderer(world')
  /\ playerEID' = NewWorldPlayer
  /\ UNCHANGED <<phase, paused, server, timeUp, selected, commands, attempts>>

\* Mutant of DisconnectedState: the state is left as it is.
KeepState == connectState

DisconnectedState == "Unconnected"

\* processDisconnect(): the server left or timed out, an attempt failed, or the
\* disconnection this client asked for is complete.  The renderer is not replaced.
ProcessDisconnect ==
  /\ phase = "poll" /\ connectState # "Unconnected"
  /\ peer # "free" /\ peer' = "free"
  /\ connectState' = DisconnectedState
  /\ world' = world + 1
  /\ playerEID' = NewWorldPlayer
  /\ UNCHANGED <<phase, paused, server, timeUp, renderer, selected, commands, attempts>>

\* processPlayerCmd(): the server says which entity is this player's.
ProcessPlayerCmd ==
  /\ phase = "poll" /\ connectState # "Unconnected"
  /\ peer = "connected"
  /\ playerEID' = "remote"
  /\ UNCHANGED <<phase, paused, connection, world, renderer, selected, commands, attempts>>

\* Mutant of TimedOut: an attempt the user has cancelled is not looked at.
TimedOutUncancelled == connectState = "Connecting" /\ timeUp /\ peer = "connecting"

TimedOut == connectState = "Connecting" /\ timeUp

\* Mutant of ResetPeer: the peer object is left as it is.
ForgetPeer == peer

\* enet_peer_reset() makes the object free again, whatever it was doing.
ResetPeer == "free"

\* The end of pollNet(): the timeout of an attempt.
EndPoll ==
  /\ phase = "poll" /\ phase' = "tick"
  /\ IF TimedOut
     THEN peer' = ResetPeer /\ server' = "null" /\ connectState' = "Unconnected"
     ELSE UNCHANGED <<peer, server, connectState>>
  /\ UNCHANGED <<paused, timeUp, scene, commands, attempts>>

-----------------------------------------------------------------------------
(***************************************************************************)
(* tick(), that is sim_frame() unless paused, and draw().                   *)
(***************************************************************************)
\* enet_peer_disconnect(): a connection is closed in an exchange of messages that
\* ends in an event; an attempt is dropped without one.
PeerDisconnect ==
  CASE peer = "connected"  -> "disconnecting"
    [] peer = "connecting" -> "free"
    [] OTHER               -> peer

\* The console command of this frame, if any.  cmdConnect() does nothing unless
\* Unconnected; enet_host_connect() answers null without a free peer object.
CmdConnect ==
  \/ connectState # "Unconnected" /\ UNCHANGED connection
  \/ /\ connectState = "Unconnected"
     /\ IF peer = "free"
        THEN server' = "peer" /\ peer' = "connecting"
             /\ connectState' = "Connecting" /\ timeUp' = FALSE
        ELSE server' = "null" /\ UNCHANGED <<connectState, peer, timeUp>>

CmdDisconnect ==
  /\ peer' = IF connectState # "Unconnected" THEN PeerDisconnect ELSE peer
  /\ UNCHANGED <<connectState, server, timeUp>>

\* Mutant of Route: everything is executed here first.
RouteLocal(state, p) == "local"

\* processPlayerCommandQueue(): where the commands go.  enet_peer_send() refuses a
\* packet for a peer that is not connected.
Route(state, p) ==
  CASE state = "Unconnected" -> "local"
    [] state = "Connected"   -> IF p = "connected" THEN "server" ELSE "nowhere"

\* Mutant of Emptied: the loop runs the commands without popping them.
NotEmptied(queue) == queue

Emptied(queue) == <<>>

ProcessQueue(state, p, queue) ==
  IF state = "Connecting"
  THEN playerCommandQueue' = queue /\ UNCHANGED ran
  ELSE /\ playerCommandQueue' = Emptied(queue)
       /\ ran' = ran \o [k \in DOMAIN queue |->
                           [cmd |-> queue[k], where |-> Route(state, p), world |-> world]]

\* The commands of one sim_frame, n of them: at most one for the block looked at,
\* which needs one, and at most one projectile.
NewCommands(n) ==
  [k \in 1 .. n |-> [number |-> issued + k, state |-> connectState', world |-> world]]

\* One sim_frame: console command, world update and ray trace, player commands, queue.
SimFrame ==
  /\ phase \in {"tick", "exiting"} /\ ~paused
  /\ \/ UNCHANGED <<connection, attempts>>
     \/ attempts < MaxAttempts /\ attempts' = attempts + 1 /\ CmdConnect
     \/ CmdDisconnect /\ UNCHANGED attempts
  /\ selected' \in {0, world}
  /\ \E n \in 0 .. 2 :
       /\ n = 2 => selected' = world
       /\ issued + n <= MaxCommands
       /\ issued' = issued + n
       /\ ProcessQueue(connectState', peer', playerCommandQueue \o NewCommands(n))
  /\ UNCHANGED <<phase, paused, world, renderer, playerEID>>

\* The time for ticks is used up, which may be at once: a frame may be shorter than
\* a tick.
EndTicks ==
  /\ phase = "tick" /\ phase' = "draw"
  /\ UNCHANGED <<paused, connection, scene, commands, attempts>>

Draw ==
  /\ phase = "draw" /\ phase' = "poll"
  /\ UNCHANGED <<paused, connection, scene, commands, attempts>>

\* The end of main(), after a tick with quit set.
Quit ==
  /\ phase \in {"tick", "exiting"} /\ phase' = "done"
  /\ peer' = CASE connectState = "Connected"  -> PeerDisconnect
               [] connectState = "Connecting" -> ResetPeer
               [] OTHER                       -> peer
  /\ UNCHANGED <<paused, connectState, server, timeUp, scene, commands, attempts>>

\* The clock reaches connectTimeoutEnd.
TimePasses ==
  /\ connectState = "Connecting" /\ ~timeUp /\ timeUp' = TRUE
  /\ UNCHANGED <<phase, paused, connectState, server, peer, scene, commands, attempts>>

-----------------------------------------------------------------------------
Next ==
  \/ TogglePause \/ Exit \/ ProcessConnect \/ ProcessDisconnect \/ ProcessPlayerCmd \/ EndPoll
  \/ SimFrame \/ EndTicks \/ Draw \/ Quit \/ TimePasses

Spec == Init /\ [][Next]_vars

\* The loop goes on and ends when it is told to, the clock goes on too, and ENet reports the end of a disconnection that
\* was asked for: by the answer or by its own timeout, at one of the polls.
Fairness ==
  /\ WF_vars(EndPoll) /\ WF_vars(EndTicks) /\ WF_vars(Draw)
  /\ WF_vars(phase = "exiting" /\ Quit)
  /\ WF_vars(TimePasses)
  /\ SF_vars(peer = "disconnecting" /\ ProcessDisconnect)

FairSpec == Spec /\ Fairness

-----------------------------------------------------------------------------
\* The client's idea of the connection and ENet's agree where the code relies on it:
\* while Unconnected the only peer object is free, so that cmdConnect (main.cpp:1019)
\* gets one; in the other states server is a valid pointer for the disconnect, the
\* reset and the sends; and a client that is Connected has, or is closing, a connection.
PeerMatchesState ==
  /\ phase # "done" /\ connectState = "Unconnected" => peer = "free"
  /\ connectState # "Unconnected" => server = "peer"
  /\ phase # "done" /\ connectState = "Connected" => peer \in {"connected", "disconnecting"}

\* sim_frame dereferences the player without a check when Unconnected (main.cpp:640):
\* then playerEID is the local player of the first world, which is still there, or
\* nobody; an ID a server gave is never looked up in a world made afterwards.
PlayerIsInWorld ==
  /\ connectState = "Unconnected" => playerEID # "remote"
  /\ playerEID = "local" => world = 1

\* A connected client draws, and reports block updates to a renderer of, the world
\* that the server's messages go to.
RendererShowsWorld == connectState = "Connected" => renderer = world

\* A command aimed at something in a world runs in that world and in no other, on the
\* side of the connection it was issued on, if it was not issued while Connecting.
RanWhereIssued ==
  \A k \in DOMAIN ran :
    LET cmd == ran[k].cmd IN
    /\ cmd.state = "Unconnected" => ran[k].where = "local" /\ ran[k].world = cmd.world
    /\ cmd.state = "Connected"   => ran[k].where # "local" /\ ran[k].world = cmd.world

\* Whatever becomes of the connection meanwhile, the commands leave the queue once
\* each, in the order they were issued, and none is dropped from it.
QueueIsFIFO ==
  /\ \A k \in DOMAIN ran : ran[k].cmd.number = k
  /\ \A k \in DOMAIN playerCommandQueue : playerCommandQueue[k].number = Len(ran) + k
  /\ issued = Len(ran) + Len(playerCommandQueue)

\* The comment at main.cpp:585, "discard command": what the player does while the
\* client is Connecting is never run.
ConnectingCommandsDiscarded == \A k \in DOMAIN ran : ran[k].cmd.state # "Connecting"

\* An attempt ends, also when the user disconnects meanwhile, which drops it in ENet
\* without an event, and when the game is paused.
ConnectingEnds == connectState = "Connecting" ~> (connectState # "Connecting" \/ phase = "done")

\* A disconnection the user asked for is completed: the client can connect again.
DisconnectCompletes ==
  peer = "disconnecting" ~> (connectState = "Unconnected" \/ phase = "done")
=============================================================================
