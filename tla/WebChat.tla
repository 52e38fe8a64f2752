------------------------------- MODULE WebChat -------------------------------
(***************************************************************************)
(* One browser tab on the chat screens: the transcript store               *)
(* (chat-store.ts), the hook that routes frames into it and sends          *)
(* (ws/hooks.ts), the reconnecting BrainWebSocket (ws/client.ts) and the   *)
(* screen that switches threads (chat-screen.tsx), against the receive     *)
(* loop of the server (routes/chat.py).  JavaScript runs one callback at a *)
(* time: a step below is a browser callback or a step of the server.       *)
(* Every visit of a thread makes a BrainWebSocket, numbered by the visit;  *)
(* questions are numbered in the order they are sent.                      *)
(***************************************************************************)
EXTENDS Naturals, Sequences, SequencesExt

CONSTANTS
  MaxVisits,     \* bound: screens the user opens
  MaxQuestions,  \* bound: messages the user sends
  MaxPieces,     \* bound: deltas, and patches, of an answer
  MaxCancels,    \* bound: presses of the stop button
  MaxDrops       \* bound: connections lost or refused

ASSUME BoundsAssumption ==
  /\ MaxVisits \in Nat /\ MaxQuestions \in Nat /\ MaxPieces \in Nat
  /\ MaxCancels \in Nat /\ MaxDrops \in Nat

VARIABLES
  visits,     \* screens opened so far; the last one is shown
  current,    \* wsRef.current: the visit whose socket it is, 0 for none
  socket,     \* socket[v]: the native socket of a BrainWebSocket, and its flags
  up, down,   \* frames on their way to the server and to the browser
  serving,    \* serving[v]: the turn task behind the socket
  transcript, streaming, text,  \* chat-store: transcript, streaming, streamingText
  connection, \* system-store: the connection pip
  cancels, drops,
  askedIn,    \* history: the visit each question was sent in
  pieces,     \* history: deltas and patches the server has sent for each question
  ended,      \* history: questions whose turn_end reached the browser
  broken,     \* history: the socket was lost while this screen streamed
  late        \* history: a cancel found its turn ended, or the next not begun

store == <<transcript, streaming, text>>
wire == <<up, down>>
ghosts == <<askedIn, pieces, ended, broken, late>>
vars == <<visits, current, socket, wire, serving, store, connection,
          cancels, drops, ghosts>>

Visits == 1..MaxVisits
Questions == 1..MaxQuestions
Frames == [type : {"turn_start", "delta", "patch", "turn_end", "cancelled", "error", "invalid"},
           of : 0..MaxQuestions]
Requests == [type : {"turn_start", "cancel_turn"}, of : 0..MaxQuestions]
Sockets == [native : {"none", "connecting", "open", "dropped", "closing"},
            timer : BOOLEAN, manual : BOOLEAN]
Tasks == [pc : {"idle", "start", "stream", "ended"}, of : 0..MaxQuestions]
Messages == [role : {"user", "brain"}, of : 0..MaxQuestions, body : Seq(Questions),
             patches : SUBSET Questions, live : BOOLEAN]

Idle == [pc |-> "idle", of |-> 0]
NewSocket == [native |-> "none", timer |-> FALSE, manual |-> FALSE]
Asked == Len(askedIn)

Init ==
  /\ visits = 0 /\ current = 0
  /\ socket = [v \in Visits |-> NewSocket]
  /\ up = [v \in Visits |-> <<>>] /\ down = [v \in Visits |-> <<>>]
  /\ serving = [v \in Visits |-> Idle]
  /\ transcript = <<>> /\ streaming = FALSE /\ text = <<>>
  /\ connection = "ok"
  /\ cancels = 0 /\ drops = 0
  /\ askedIn = <<>> /\ pieces = [q \in Questions |-> [type \in {"delta", "patch"} |-> 0]] /\ ended = {}
  /\ broken = FALSE /\ late = FALSE

-----------------------------------------------------------------------------
(* The screen.                                                             *)

(* MUTANT: the backoff timer outlives the screen. *)
Closed_KeepsTimer(s) ==
  [s EXCEPT !.manual = TRUE,
            !.native = IF @ = "none" THEN @ ELSE "closing"]

(* BrainWebSocket.close: the timer is dropped; the close event of the      *)
(* native socket, which carries no more messages, is still to come.        *)
Closed(s) ==
  [s EXCEPT !.manual = TRUE, !.timer = FALSE,
            !.native = IF @ = "none" THEN @ ELSE "closing"]

(* MUTANT: the cleanup leaves wsRef.current behind. *)
Point_Stale(next) == current' = IF next = 0 THEN current ELSE next
(* The cleanup empties wsRef.current; the effect of a thread that has an   *)
(* id points it at the new socket.                                         *)
Point(next) == current' = next

(* Another screen: the effects' cleanup closes the old socket, then the    *)
(* new one connects and the store is emptied, in one commit.  A new thread *)
(* has no id yet and gets no socket.                                       *)
Visit ==
  /\ visits < MaxVisits
  /\ visits' = visits + 1
  /\ \E next \in {0, visits + 1} :
       /\ Point(next)
       /\ socket' = [v \in Visits |->
            IF v = current THEN Closed(socket[v])
            ELSE IF v = next THEN [NewSocket EXCEPT !.native = "connecting"] ELSE socket[v]]
  /\ up' = [v \in Visits |-> IF v = current THEN <<>> ELSE up[v]]
  /\ down' = [v \in Visits |-> IF v = current THEN <<>> ELSE down[v]]
  /\ serving' = [v \in Visits |-> IF v = current THEN Idle ELSE serving[v]]
  /\ transcript' = <<>> /\ streaming' = FALSE /\ text' = <<>>
  /\ broken' = FALSE /\ late' = FALSE
  /\ UNCHANGED <<connection, cancels, drops, askedIn, pieces, ended>>

Connected == current # 0 /\ socket[current].native = "open"

(* BrainWebSocket.send: a socket that is not open swallows the frame. *)
Request(type, q) ==
  up' = IF Connected THEN [up EXCEPT ![current] = Append(@, [type |-> type, of |-> q])] ELSE up

(* MUTANT: the composer does not look at the streaming flag. *)
MaySend_Always == TRUE
(* The composer and sendTurnStart both refuse while an answer streams. *)
MaySend == ~streaming

(* The message is shown at once, then sent. *)
SendTurnStart ==
  LET q == Asked + 1 IN
  /\ visits > 0 /\ Asked < MaxQuestions /\ MaySend
  /\ transcript' = Append(transcript, [role |-> "user", of |-> q, body |-> <<q>>,
                                       patches |-> {}, live |-> FALSE])
  /\ Request("turn_start", q)
  /\ askedIn' = Append(askedIn, visits)
  /\ UNCHANGED <<visits, current, socket, down, serving, streaming, text, connection,
                 cancels, drops, pieces, ended, broken, late>>

(* The stop button takes the place of the send button while an answer streams. *)
CancelTurn ==
  /\ visits > 0 /\ streaming /\ cancels < MaxCancels
  /\ cancels' = cancels + 1
  /\ Request("cancel_turn", 0)
  /\ UNCHANGED <<visits, current, socket, down, serving, store, connection, drops, ghosts>>

-----------------------------------------------------------------------------
(* The native socket.                                                      *)

Opened(v) ==
  /\ socket[v].native = "connecting"
  /\ socket' = [socket EXCEPT ![v].native = "open"]
  /\ connection' = "ok"
  /\ UNCHANGED <<visits, current, wire, serving, store, cancels, drops, ghosts>>

(* The connection is lost, or is never made: a refusal of the token comes  *)
(* before the accept and looks the same.  Frames on the wire are lost and  *)
(* the server unwinds its turn.                                            *)
Drop(v) ==
  /\ drops < MaxDrops /\ socket[v].native \in {"connecting", "open"}
  /\ drops' = drops + 1
  /\ socket' = [socket EXCEPT ![v].native = "dropped"]
  /\ up' = [up EXCEPT ![v] = <<>>] /\ down' = [down EXCEPT ![v] = <<>>]
  /\ serving' = [serving EXCEPT ![v] = Idle]
  /\ broken' = (broken \/ (v = current /\ streaming))
  /\ UNCHANGED <<visits, current, store, connection, cancels, askedIn, pieces, ended, late>>

(* MUTANT: only a socket that the pip knows as connected is retried. *)
CloseEvent_Once(v) ==
  /\ socket[v].native \in {"dropped", "closing"}
  /\ socket' = [socket EXCEPT ![v].native = "none",
                              ![v].timer = ~socket[v].manual /\ connection = "ok"]
  /\ connection' = IF socket[v].manual THEN connection ELSE "reconnecting"
  /\ UNCHANGED <<visits, current, wire, serving, store, cancels, drops, ghosts>>

(* The close event: a socket nobody closed by hand is retried after the    *)
(* backoff.                                                                *)
CloseEvent(v) ==
  /\ socket[v].native \in {"dropped", "closing"}
  /\ socket' = [socket EXCEPT ![v].native = "none", ![v].timer = ~socket[v].manual]
  /\ connection' = IF socket[v].manual THEN connection ELSE "reconnecting"
  /\ UNCHANGED <<visits, current, wire, serving, store, cancels, drops, ghosts>>

(* The backoff ends: connect() opens a socket, unless there is one. *)
Reconnect(v) ==
  /\ socket[v].timer
  /\ socket' = [socket EXCEPT ![v].timer = FALSE, ![v].manual = FALSE,
                              ![v].native = IF @ = "none" THEN "connecting" ELSE @]
  /\ UNCHANGED <<visits, current, wire, serving, store, connection, cancels, drops, ghosts>>

-----------------------------------------------------------------------------
(* The reducers of the store, by the frame that calls them.                *)

Latest == Last(transcript)
UpdateLast(message) ==
  IF transcript = <<>> THEN transcript ELSE Append(Front(transcript), message)

(* MUTANT: text that an earlier answer left behind is kept. *)
OnTurnStart_KeepsText(q) ==
  /\ streaming' = TRUE /\ text' = text
  /\ transcript' = Append(transcript, [role |-> "brain", of |-> q, body |-> <<>>,
                                       patches |-> {}, live |-> TRUE])

(* An empty answer is added for the deltas to come. *)
OnTurnStart(q) ==
  /\ streaming' = TRUE /\ text' = <<>>
  /\ transcript' = Append(transcript, [role |-> "brain", of |-> q, body |-> <<>>,
                                       patches |-> {}, live |-> TRUE])

OnDelta(q) == text' = Append(text, q) /\ UNCHANGED <<transcript, streaming>>

(* What an answer brings besides text is kept with the last message: tool  *)
(* calls add up, a cost or a proposed patch writes over the one before it  *)
(* (chat-store.ts:250).  `patches` is the turns any of it ever came from.  *)
OnPatchProposed(q) ==
  /\ transcript' = UpdateLast([Latest EXCEPT !.patches = @ \cup {q}])
  /\ UNCHANGED <<streaming, text>>

(* turn_end and cancelled: the streamed text becomes the body. *)
OnTurnEnd ==
  /\ streaming' = FALSE /\ text' = <<>>
  /\ transcript' = UpdateLast([Latest EXCEPT !.body = text, !.live = FALSE])

(* MUTANT: an error leaves the flag to the turn_end that never comes. *)
OnError_KeepsStreaming ==
  /\ streaming' = streaming /\ text' = text
  /\ transcript' = UpdateLast([Latest EXCEPT !.live = FALSE])

(* The text of a failed answer stays behind: the next turn_start drops it. *)
OnError ==
  /\ streaming' = FALSE /\ text' = text
  /\ transcript' = UpdateLast([Latest EXCEPT !.live = FALSE])

OnEvent(f) ==
  CASE f.type = "turn_start" -> OnTurnStart(f.of)
    [] f.type = "delta" -> OnDelta(f.of)
    [] f.type = "patch" -> OnPatchProposed(f.of)
    [] f.type \in {"turn_end", "cancelled"} -> OnTurnEnd
    [] f.type = "error" -> OnError
    [] f.type = "invalid" -> UNCHANGED store

(* A message event: only an open socket has them. *)
Deliver(v) ==
  /\ socket[v].native = "open" /\ down[v] # <<>>
  /\ OnEvent(Head(down[v]))
  /\ down' = [down EXCEPT ![v] = Tail(@)]
  /\ ended' = IF Head(down[v]).type = "turn_end" THEN ended \cup {Head(down[v]).of} ELSE ended
  /\ UNCHANGED <<visits, current, socket, up, serving, connection, cancels, drops,
                 askedIn, pieces, broken, late>>

-----------------------------------------------------------------------------
(* The server behind an open socket.                                       *)

Send(v, type, q) == down' = [down EXCEPT ![v] = Append(@, [type |-> type, of |-> q])]
Task(v, pc, q) == serving' = [serving EXCEPT ![v] = [pc |-> pc, of |-> q]]
ServerKeeps == UNCHANGED <<visits, current, socket, store, connection, cancels, drops,
                           askedIn, ended, broken>>

Waiting(v, type) == up[v] # <<>> /\ Head(up[v]).type = type
Taken(v) == up' = [up EXCEPT ![v] = Tail(@)]

(* A turn_start while idle makes the task; during a turn it is refused. *)
TakeTurnStart(v) ==
  /\ Waiting(v, "turn_start") /\ Taken(v)
  /\ IF serving[v] = Idle
       THEN Task(v, "start", Head(up[v]).of) /\ UNCHANGED down
       ELSE Send(v, "invalid", 0) /\ UNCHANGED serving
  /\ UNCHANGED <<pieces, late>> /\ ServerKeeps

(* MUTANT: a cancel waits until the turn has ended by itself. *)
TakeCancel_Waits(v) ==
  /\ Waiting(v, "cancel_turn") /\ Taken(v) /\ serving[v].pc \in {"idle", "ended"}
  /\ IF serving[v] = Idle
       THEN Send(v, "invalid", 0) /\ UNCHANGED <<serving, late>>
       ELSE /\ Task(v, "idle", 0) /\ Send(v, "cancelled", serving[v].of)
            /\ late' = (late \/ serving[v].pc # "stream")
  /\ UNCHANGED pieces /\ ServerKeeps

(* A cancel_turn awaits the cancelled task, which sends nothing more, and  *)
(* then reports it, even if the task had sent its turn_end, or not yet its *)
(* turn_start; without a task it is refused.                               *)
TakeCancel(v) ==
  /\ Waiting(v, "cancel_turn") /\ Taken(v)
  /\ IF serving[v] = Idle
       THEN Send(v, "invalid", 0) /\ UNCHANGED <<serving, late>>
       ELSE /\ Task(v, "idle", 0) /\ Send(v, "cancelled", serving[v].of)
            /\ late' = (late \/ serving[v].pc # "stream")
  /\ UNCHANGED pieces /\ ServerKeeps

(* The frames of a turn, in their order. *)
BeginTurn(v) ==
  /\ serving[v].pc = "start"
  /\ Task(v, "stream", serving[v].of) /\ Send(v, "turn_start", serving[v].of)
  /\ UNCHANGED <<up, pieces, late>> /\ ServerKeeps

StreamPiece(v) ==
  LET q == serving[v].of IN
  /\ serving[v].pc = "stream"
  /\ \E type \in {"delta", "patch"} :
       /\ pieces[q][type] < MaxPieces
       /\ pieces' = [pieces EXCEPT ![q][type] = @ + 1]
       /\ Send(v, type, q)
  /\ UNCHANGED <<up, serving, late>> /\ ServerKeeps

EndTurn(v) ==
  /\ serving[v].pc = "stream"
  /\ Task(v, "ended", serving[v].of)
  /\ \E type \in {"turn_end", "error"} : Send(v, type, serving[v].of)
  /\ UNCHANGED <<up, pieces, late>> /\ ServerKeeps

(* The task closes the generator and is done. *)
TaskDone(v) ==
  /\ serving[v].pc = "ended"
  /\ Task(v, "idle", 0)
  /\ UNCHANGED <<wire, pieces, late>> /\ ServerKeeps

-----------------------------------------------------------------------------
ScreenStep == Visit \/ SendTurnStart \/ CancelTurn
BrowserStep(v) == Opened(v) \/ CloseEvent(v) \/ Reconnect(v) \/ Deliver(v)
ServerLoop(v) == TakeTurnStart(v) \/ TakeCancel(v) \/ TaskDone(v)
Next ==
  \/ ScreenStep
  \/ \E v \in Visits :
       \/ BrowserStep(v) \/ ServerLoop(v)
       \/ Drop(v) \/ BeginTurn(v) \/ StreamPiece(v) \/ EndTurn(v)

Spec == Init /\ [][Next]_vars

(* The browser runs its callbacks and the server's loop its frames;        *)
(* nothing is assumed of the LLM: an answer may stream for ever.           *)
FairSpec == Spec /\ \A v \in Visits : WF_vars(BrowserStep(v)) /\ WF_vars(ServerLoop(v))

-----------------------------------------------------------------------------
(* Types of the tab, the wire and the history. *)
TypeOK ==
  /\ visits \in 0..MaxVisits /\ current \in {0, visits}
  /\ socket \in [Visits -> Sockets]
  /\ \A v \in Visits : \A i \in DOMAIN up[v] : up[v][i] \in Requests
  /\ \A v \in Visits : \A i \in DOMAIN down[v] : down[v][i] \in Frames
  /\ serving \in [Visits -> Tasks]
  /\ \A i \in DOMAIN transcript : transcript[i] \in Messages
  /\ streaming \in BOOLEAN /\ text \in Seq(Questions)
  /\ connection \in {"ok", "reconnecting"}
  /\ cancels \in 0..MaxCancels /\ drops \in 0..MaxDrops
  /\ askedIn \in Seq(Visits) /\ Asked =< MaxQuestions
  /\ pieces \in [Questions -> [{"delta", "patch"} -> 0..MaxPieces]]
  /\ ended \subseteq Questions /\ broken \in BOOLEAN /\ late \in BOOLEAN

(* Only the socket of the screen on show is open, being opened or waiting  *)
(* to be retried: whatever dropped, timed out or was refused before, no    *)
(* frame of another thread can reach the one transcript there is.          *)
OneSocket ==
  \A v \in Visits \ {current} :
    socket[v].native \in {"none", "closing"} /\ ~socket[v].timer

(* What a message should say: the user's is what was typed, an answer      *)
(* holds text and patches of its own turn only, and all of its text once   *)
(* its turn_end has arrived.                                               *)
SaysItsOwn(m) ==
  /\ askedIn[m.of] = visits
  /\ m.role = "user" => m.body = <<m.of>> /\ m.patches = {}
  /\ m.role = "brain" =>
       /\ \A i \in DOMAIN m.body : m.body[i] = m.of
       /\ m.patches \subseteq {m.of}
       /\ m.of \in ended => Len(m.body) = pieces[m.of]["delta"]

(* The transcript is true to the wire, over early second sends, errors,    *)
(* cancels and reconnects, as long as every cancel found a turn that       *)
(* streams: one that comes a moment later, or hits a second question whose *)
(* turn has not begun, empties the last message (chat-store.ts:288), a     *)
(* finished answer or the question typed since.                            *)
TranscriptTrue == ~late => \A i \in DOMAIN transcript : SaysItsOwn(transcript[i])

(* The store streams only while the server works on the turn or has        *)
(* already sent its last frame: the composer never waits for nothing.      *)
(* Except that a socket lost during an answer leaves the flag behind       *)
(* (hooks.ts:146 touches the pip only).                                    *)
StreamingIsReal ==
  streaming /\ ~broken =>
    /\ Connected
    /\ \/ serving[current].pc = "stream"
       \/ \E i \in DOMAIN down[current] :
            down[current][i].type \in {"turn_end", "cancelled", "error"}

(* Once the server has the cancel, the composer comes back, even when the  *)
(* LLM never says another word.                                            *)
CancelPending ==
  Connected /\ \E i \in DOMAIN up[current] : up[current][i].type = "cancel_turn"
CancelStops == CancelPending ~> (~streaming \/ broken)

(* A thread on show gets its socket back after every loss and refusal. *)
Reconnects == (current # 0 /\ ~Connected) ~> (current = 0 \/ Connected)
=============================================================================
