----------------------------- MODULE ChatSocket -----------------------------
(***************************************************************************)
(* One chat thread behind /ws/chat/<thread_id>: the sockets that open on   *)
(* it, the receive loop of each (routes/chat.py), the task that runs a     *)
(* turn (SessionRunner.run_turn), the session it appends to               *)
(* (ChatSession.turn) and the thread file every save writes whole          *)
(* (ThreadPersistence).  All sockets share one event loop: a step below is *)
(* what runs between two awaits.  A turn is <<socket, turn number>>; a     *)
(* session and the thread file are sets of turns.                          *)
(***************************************************************************)
EXTENDS Naturals, FiniteSets

CONSTANTS
  MaxSockets,  \* bound: websocket connections
  Modes,       \* chat modes a client may ask for
  Ask,         \* the mode every connection starts in
  NoTurn,      \* no turn task
  Limit,       \* turns that fit in max_patch_bytes
  MaxRounds,   \* ChatSession.MAX_TOOL_ROUNDS
  MaxTurns,    \* bound: turns started on one socket
  MaxErrors,   \* bound: failures of the LLM, of a guard or of a save
  MaxDeaths,   \* bound: process deaths
  MaxEdits     \* bound: edits that make the thread file unparsable

ASSUME ModesAssumption == Ask \in Modes
ASSUME BoundsAssumption ==
  /\ MaxSockets \in Nat /\ Limit \in Nat /\ MaxRounds \in Nat \ {0}
  /\ MaxTurns \in Nat /\ MaxErrors \in Nat /\ MaxDeaths \in Nat /\ MaxEdits \in Nat

VARIABLES
  client,    \* client[s]: not connected yet, connected, or gone
  route,     \* route[s]: where chat_ws is
  turn,      \* turn[s]: the turn task, or NoTurn when there is none or it is done
  session,   \* session[s]: ChatSession._turns
  number,    \* number[s]: SessionRunner._turn_number
  mode,      \* mode[s]: SessionRunner.mode
  config,    \* config[s]: ChatSession.config.mode
  file,      \* turns in the thread file ({}: there is no file)
  readable,  \* ThreadPersistence.read can parse the file
  errors, deaths, edits,
  begun,     \* history: turns whose context has been compiled
  answered,  \* history: turns whose turn_end frame was sent
  capped,    \* history: turns that ran out of tool rounds
  shared,    \* history: sockets that were live together with another one
  unread,    \* history: turns in the file when a connection could not parse it
  cut        \* history: sockets whose last save failed

disk == <<file, readable>>
bounds == <<errors, deaths, edits>>
history == <<begun, answered, capped, shared, unread, cut>>
vars == <<client, route, turn, session, number, mode, config, disk, bounds, history>>

(* The connections, in the order they are accepted. *)
Sockets == 1..MaxSockets
Turns == Sockets \X (1..MaxTurns)

(* The context of a task: the turns its compiled messages have in full. *)
TurnTask == [pc : {"start", "stream", "end", "error"}, round : 0..MaxRounds,
             context : SUBSET Turns]
ASSUME NoTurnAssumption == NoTurn \notin TurnTask

(* The turn the task of s runs. *)
Current(s) == <<s, number[s]>>
Running(s) == turn[s] # NoTurn
At(s, pc) == Running(s) /\ turn[s].pc = pc

(* The route of s runs: the runner holds its session. *)
Live(s) == route[s] \in {"loop", "cancel", "close"}

(* VaultWriter refuses a patch, the whole thread here, over its ceiling. *)
Fits(turns) == Cardinality(turns) =< Limit

(* Turns are listed in the order of their sockets, then of their numbers: a *)
(* session starts with the turns of the file and appends its own.           *)
Older(t, u) == t[1] < u[1] \/ (t[1] = u[1] /\ t[2] < u[2])

(* What may be left of a list whose oldest messages were dropped to come   *)
(* under context_cap_tokens: how many go depends on the length of texts.   *)
Trims(turns) ==
  {kept \in SUBSET turns : \A t \in kept, u \in turns : Older(t, u) => u \in kept}

-----------------------------------------------------------------------------
Init ==
  /\ client = [s \in Sockets |-> "new"]
  /\ route = [s \in Sockets |-> "none"]
  /\ turn = [s \in Sockets |-> NoTurn]
  /\ session = [s \in Sockets |-> {}]
  /\ number = [s \in Sockets |-> 0]
  /\ mode = [s \in Sockets |-> Ask]
  /\ config = [s \in Sockets |-> Ask]
  /\ file = {} /\ readable = TRUE
  /\ errors = 0 /\ deaths = 0 /\ edits = 0
  /\ begun = {} /\ answered = {} /\ capped = {}
  /\ shared = {} /\ unread = {} /\ cut = {}

(* The next connection is accepted, with these turns in its session. *)
Open(s, turns) ==
  LET others == {r \in Sockets \ {s} : Live(r)}
  IN
  /\ client[s] = "new" /\ \A r \in Sockets : r < s => client[r] # "new"
  /\ client' = [client EXCEPT ![s] = "open"]
  /\ route' = [route EXCEPT ![s] = "loop"]
  /\ session' = [session EXCEPT ![s] = turns]
  /\ config' = [config EXCEPT ![s] = mode[s]]
  /\ unread' = IF readable THEN unread ELSE unread \cup file
  /\ shared' = IF others = {} THEN shared ELSE shared \cup others \cup {s}
  /\ UNCHANGED <<turn, number, mode, disk, bounds, begun, answered, capped, cut>>

(* Mutant: the session is built without the thread's file. *)
Connect_Fresh(s) == Open(s, {})

(* A client connects and the runner loads the thread; a file it cannot     *)
(* parse is logged and the session starts empty.                           *)
Connect(s) == Open(s, IF readable THEN file ELSE {})

-----------------------------------------------------------------------------
(* Frames from the client.  A frame sent before the client went may still  *)
(* be read after: only the route's own state guards these.                 *)

Idle(s) == route[s] = "loop" /\ ~Running(s)

(* turn_start while idle; m is the mode in effect once the frame's own, if *)
(* it names one, is taken.  The task counts the turn and sends turn_start. *)
StartTurn(s, m) ==
  /\ Idle(s) /\ number[s] < MaxTurns
  /\ mode' = [mode EXCEPT ![s] = m]
  /\ number' = [number EXCEPT ![s] = @ + 1]
  /\ turn' = [turn EXCEPT ![s] = [pc |-> "start", round |-> 0, context |-> {}]]
  /\ UNCHANGED <<client, route, session, config, disk, bounds, history>>

SwitchMode(s, m) ==
  /\ Idle(s)
  /\ mode' = [mode EXCEPT ![s] = m]
  /\ UNCHANGED <<client, route, turn, session, number, config, disk, bounds, history>>

(* cancel_turn while a turn runs: the route awaits the cancelled task. *)
CancelTurn(s) ==
  /\ route[s] = "loop" /\ Running(s)
  /\ route' = [route EXCEPT ![s] = "cancel"]
  /\ UNCHANGED <<client, turn, session, number, mode, config, disk, bounds, history>>

ClientLeaves(s) ==
  /\ client[s] = "open"
  /\ client' = [client EXCEPT ![s] = "gone"]
  /\ UNCHANGED <<route, turn, session, number, mode, config, disk, bounds, history>>

-----------------------------------------------------------------------------
(* The turn task.                                                          *)

(* The generator is over, and its context with it: the last frame is left. *)
Over(pc) == [pc |-> pc, round |-> 0, context |-> {}]

(* A step of the task: one that the route has not cancelled. *)
Steps(s, pc) == route[s] = "loop" /\ At(s, pc)

(* The generator starts: it compiles the context from the session. *)
BeginTurn(s) ==
  /\ Steps(s, "start")
  /\ \E kept \in Trims(session[s]) :
       turn' = [turn EXCEPT ![s] = [pc |-> "stream", round |-> 0, context |-> kept]]
  /\ begun' = begun \cup {Current(s)}
  /\ UNCHANGED <<client, route, session, number, mode, config, disk, bounds,
                 answered, capped, shared, unread, cut>>

(* The turn_start frame cannot be sent: the task ends before the generator *)
(* exists, and the user's message with it.                                 *)
NeverBegins(s) ==
  /\ Steps(s, "start") /\ client[s] = "gone"
  /\ turn' = [turn EXCEPT ![s] = NoTurn]
  /\ UNCHANGED <<client, route, session, number, mode, config, disk, bounds, history>>

(* A note the context is compiled from cannot be read: the generator       *)
(* raises before its try, and the user's message is in no session.         *)
CompileFails(s) ==
  /\ Steps(s, "start") /\ errors < MaxErrors
  /\ errors' = errors + 1
  /\ turn' = [turn EXCEPT ![s] = Over("error")]
  /\ UNCHANGED <<client, route, session, number, mode, config, disk, deaths, edits, history>>

(* The LLM asked for tools: they run and the next round starts. *)
NextRound(s) ==
  /\ Steps(s, "stream") /\ turn[s].round < MaxRounds
  /\ turn' = [turn EXCEPT ![s].round = @ + 1]
  /\ UNCHANGED <<client, route, session, number, mode, config, disk, bounds, history>>

(* No round is left: the generator returns, so its finally appends the     *)
(* turn, but the save that follows the try is never reached.  run_turn     *)
(* goes on to send turn_end.                                               *)
OutOfRounds(s) ==
  /\ Steps(s, "stream") /\ turn[s].round = MaxRounds
  /\ turn' = [turn EXCEPT ![s] = Over("end")]
  /\ session' = [session EXCEPT ![s] = @ \cup {Current(s)}]
  /\ capped' = capped \cup {Current(s)}
  /\ UNCHANGED <<client, route, number, mode, config, disk, bounds,
                 begun, answered, shared, unread, cut>>

(* The finally appends the turn, and the whole thread is written. *)
Write(s, turns) ==
  /\ Steps(s, "stream") /\ turn[s].round < MaxRounds
  /\ turn' = [turn EXCEPT ![s] = Over("end")]
  /\ session' = [session EXCEPT ![s] = turns]
  /\ file' = turns /\ readable' = TRUE
  /\ UNCHANGED <<client, route, number, mode, config, bounds, history>>

(* Mutant: the write goes past the vault writer's checks. *)
Finish_Unbounded(s) == Write(s, session[s] \cup {Current(s)})

(* The LLM has answered without asking for tools, and the thread still     *)
(* fits.                                                                   *)
Finish(s) ==
  LET turns == session[s] \cup {Current(s)}
  IN  Fits(turns) /\ Write(s, turns)

(* The LLM, a guard, a frame to a client that has gone, or the write       *)
(* raises: the finally has appended the turn, nothing is written, and      *)
(* run_turn reports the error.                                             *)
Raise(s) ==
  /\ Steps(s, "stream")
  /\ \/ client[s] = "gone" /\ errors' = errors
     \/ ~Fits(session[s] \cup {Current(s)}) /\ errors' = errors
     \/ errors < MaxErrors /\ errors' = errors + 1
  /\ turn' = [turn EXCEPT ![s] = Over("error")]
  /\ session' = [session EXCEPT ![s] = @ \cup {Current(s)}]
  /\ UNCHANGED <<client, route, number, mode, config, disk, deaths, edits, history>>

(* The last frame, and the task is done.  An error is best effort; a       *)
(* turn_end to a client that has gone is lost.                             *)
SendEnd(s) ==
  /\ Steps(s, "end") \/ Steps(s, "error")
  /\ turn' = [turn EXCEPT ![s] = NoTurn]
  /\ answered' = IF At(s, "end") /\ client[s] = "open"
                   THEN answered \cup {Current(s)} ELSE answered
  /\ UNCHANGED <<client, route, session, number, mode, config, disk, bounds,
                 begun, capped, shared, unread, cut>>

-----------------------------------------------------------------------------
(* The cancelled task, and the route that awaits it.                       *)

(* The task is over, with these turns in the session. *)
EndTask(s, turns) ==
  /\ Running(s)
  /\ turn' = [turn EXCEPT ![s] = NoTurn]
  /\ session' = [session EXCEPT ![s] = turns]
  /\ UNCHANGED <<client, route, number, mode, config, disk, bounds, history>>
Partial(s) == session[s] \cup (IF At(s, "stream") THEN {Current(s)} ELSE {})

(* Mutants: the generator is not closed before the task ends; the route's  *)
(* finally awaits the task without cancelling it.                          *)
Unwind_Drops(s) == route[s] \in {"cancel", "close"} /\ EndTask(s, session[s])
Unwind_OnCancel(s) == route[s] = "cancel" /\ EndTask(s, Partial(s))

(* CancelledError reaches the task: run_turn closes the generator under a  *)
(* shield, and its finally appends the turn it was running.  A task that   *)
(* was still sending turn_start has no generator to close.                 *)
Unwind(s) == route[s] \in {"cancel", "close"} /\ EndTask(s, Partial(s))

(* The cancelled frame: back to the loop, or to the route's finally when   *)
(* the client has gone and the frame raises.                               *)
Cancelled(s) ==
  /\ route[s] = "cancel" /\ ~Running(s)
  /\ \/ route' = [route EXCEPT ![s] = "loop"]
     \/ client[s] = "gone" /\ route' = [route EXCEPT ![s] = "close"]
  /\ UNCHANGED <<client, turn, session, number, mode, config, disk, bounds, history>>

(* The loop ends: the disconnect is read, or a frame that is not JSON      *)
(* raises out of receive_json and the server closes the socket.  Either    *)
(* way the finally cancels the task.                                       *)
LeaveLoop(s) ==
  /\ route[s] = "loop"
  /\ route' = [route EXCEPT ![s] = "close"]
  /\ client' = [client EXCEPT ![s] = "gone"]
  /\ UNCHANGED <<turn, session, number, mode, config, disk, bounds, history>>

Disconnect(s) == client[s] = "gone" /\ LeaveLoop(s)
BadFrame(s) == client[s] = "open" /\ LeaveLoop(s)

(* The last save: nothing to do for an empty session, and a failure is    *)
(* logged and dropped.                                                     *)
Persist(s) ==
  /\ route[s] = "close"
  /\ route' = [route EXCEPT ![s] = "done"]
  /\ turn' = [turn EXCEPT ![s] = NoTurn]
  /\ session' = [session EXCEPT ![s] = {}]
  /\ \/ /\ session[s] = {}
        /\ UNCHANGED <<disk, errors, cut>>
     \/ /\ session[s] # {} /\ Fits(session[s])
        /\ file' = session[s] /\ readable' = TRUE
        /\ UNCHANGED <<errors, cut>>
     \/ /\ session[s] # {}
        /\ \/ ~Fits(session[s]) /\ errors' = errors
           \/ errors < MaxErrors /\ errors' = errors + 1
        /\ cut' = cut \cup {s}
        /\ UNCHANGED disk
  /\ UNCHANGED <<client, number, mode, config, deaths, edits,
                 begun, answered, capped, shared, unread>>

(* The cancelled task has been awaited. *)
Close(s) == ~Running(s) /\ Persist(s)

-----------------------------------------------------------------------------
(* The user edits the thread file in the vault and its frontmatter no      *)
(* longer parses.                                                          *)
Garble ==
  /\ edits < MaxEdits /\ file # {}
  /\ edits' = edits + 1
  /\ readable' = FALSE
  /\ UNCHANGED <<client, route, turn, session, number, mode, config, file,
                 errors, deaths, history>>

(* The process dies: every socket with it, and what was not written. *)
Die ==
  LET hit == {s \in Sockets : Live(s)}
  IN
  /\ deaths < MaxDeaths /\ hit # {}
  /\ deaths' = deaths + 1
  /\ route' = [s \in Sockets |-> IF s \in hit THEN "dead" ELSE route[s]]
  /\ client' = [s \in Sockets |-> IF s \in hit THEN "gone" ELSE client[s]]
  /\ turn' = [s \in Sockets |-> NoTurn]
  /\ session' = [s \in Sockets |-> {}]
  /\ UNCHANGED <<number, mode, config, disk, errors, edits, history>>

FrameStep(s) ==
  \/ CancelTurn(s) \/ ClientLeaves(s) \/ BadFrame(s)
  \/ \E m \in Modes : StartTurn(s, m) \/ SwitchMode(s, m)
TurnStep(s) ==
  \/ BeginTurn(s) \/ NeverBegins(s) \/ CompileFails(s) \/ NextRound(s) \/ OutOfRounds(s)
  \/ Finish(s) \/ Raise(s) \/ SendEnd(s)
RouteStep(s) == Unwind(s) \/ Cancelled(s) \/ Disconnect(s) \/ Close(s)

Next ==
  \/ \E s \in Sockets : Connect(s) \/ FrameStep(s) \/ TurnStep(s) \/ RouteStep(s)
  \/ Garble \/ Die

Spec == Init /\ [][Next]_vars

(* The event loop runs a route that is ready.  Nothing is assumed of the   *)
(* LLM: a turn may stream for ever.                                        *)
FairSpec == Spec /\ \A s \in Sockets : WF_vars(RouteStep(s))

-----------------------------------------------------------------------------
(* Types, and: a turn task belongs to a live route; the file never exceeds *)
(* what the vault writer accepts.                                          *)
TypeOK ==
  /\ client \in [Sockets -> {"new", "open", "gone"}]
  /\ route \in [Sockets -> {"none", "loop", "cancel", "close", "done", "dead"}]
  /\ turn \in [Sockets -> TurnTask \cup {NoTurn}]
  /\ session \in [Sockets -> SUBSET Turns]
  /\ number \in [Sockets -> 0..MaxTurns]
  /\ mode \in [Sockets -> Modes]
  /\ config \in [Sockets -> Modes]
  /\ file \in SUBSET Turns /\ Fits(file)
  /\ readable \in BOOLEAN
  /\ errors \in 0..MaxErrors /\ deaths \in 0..MaxDeaths /\ edits \in 0..MaxEdits
  /\ begun \in SUBSET Turns /\ answered \in SUBSET Turns /\ capped \in SUBSET Turns
  /\ shared \in SUBSET Sockets /\ unread \in SUBSET Turns /\ cut \in SUBSET Sockets
  /\ \A s \in Sockets : Running(s) => Live(s) /\ number[s] > 0

(* The turns of the sockets that had the thread to themselves, and that    *)
(* were not in a file a later connection failed to parse.                  *)
Alone(t) == t[1] \notin shared /\ t \notin unread

(* A turn whose turn_end the client was sent is in the thread file, over   *)
(* reconnects, failed saves, a full thread and deaths of the process,      *)
(* except the turns that ran out of tool rounds (session.py:247 leaves     *)
(* before the save).                                                       *)
AnsweredIsSaved == \A t \in answered \ capped : Alone(t) => t \in file

(* Once a route has closed with its last save done, every turn the LLM was *)
(* asked for on that socket is in the thread file: answered, failed,       *)
(* cancelled or cut short by the disconnect.                               *)
ClosedIsSaved ==
  \A t \in begun : route[t[1]] = "done" /\ t[1] \notin cut /\ Alone(t) => t \in file

(* No turn is lost: neither an answered one, at any time, nor one of a     *)
(* route that has closed.                                                  *)
TurnsAreSaved == AnsweredIsSaved /\ ClosedIsSaved

(* The turns before the one that s runs, that the LLM should know: those   *)
(* of the same socket, cancelled and failed ones too, and the ones that    *)
(* were answered on earlier connections.                                   *)
Before(t, s) ==
  \/ t \in begun /\ t[1] = s /\ t[2] < number[s]
  \/ t \in answered \ capped /\ t[1] < s /\ Alone(t)

(* Each of them is in the context the LLM is asked with, or it is in the   *)
(* session and its cap dropped it: then every turn in the context is newer *)
(* (context.py:70).                                                        *)
ContextIsComplete ==
  \A s \in Sockets : At(s, "stream") =>
    \A t \in Turns : Before(t, s) =>
      \/ t \in turn[s].context
      \/ t \in session[s] /\ \A u \in turn[s].context : Older(t, u)

(* A turn runs in the mode the client last chose: in its own turn_start or *)
(* by switch_mode (events.py:204).                                         *)
TurnRunsInItsMode == \A s \in Sockets : At(s, "stream") => config[s] = mode[s]

(* A route whose client has gone ends, whatever the LLM does. *)
RoutesClose ==
  \A s \in Sockets : client[s] = "gone" ~> route[s] \in {"done", "dead"}
=============================================================================
