---------------------------- MODULE WebChatProofs ----------------------------
(* Theorems of WebChat: types; only the screen on show has a socket; the   *)
(* streaming flag stands for a turn somebody works on; every message on    *)
(* the screen says its own.                                                *)
EXTENDS WebChat, TLAPS, SequenceTheorems

EndTypes == {"turn_end", "cancelled", "error"}

(* Frames of a turn carry the number of a question.                        *)
GoodRequests == {r \in Requests : r.type = "turn_start" => r.of \in Questions}
GoodFrames == {f \in Frames : f.type # "invalid" => f.of \in Questions}
GoodTasks == {t \in Tasks : IF t.pc = "idle" THEN t.of = 0 ELSE t.of \in Questions}

TabOK ==
  /\ visits \in 0 .. MaxVisits /\ current \in {0, visits}
  /\ socket \in [Visits -> Sockets]
  /\ connection \in {"ok", "reconnecting"}
  /\ cancels \in 0 .. MaxCancels /\ drops \in 0 .. MaxDrops
  /\ broken \in BOOLEAN

WireOK ==
  /\ up \in [Visits -> Seq(GoodRequests)]
  /\ down \in [Visits -> Seq(GoodFrames)]
  /\ serving \in [Visits -> GoodTasks]
  /\ askedIn \in Seq(Visits) /\ Asked <= MaxQuestions
  /\ pieces \in [Questions -> [{"delta", "patch"} -> 0 .. MaxPieces]]
  /\ ended \subseteq Questions
  /\ late \in BOOLEAN

StoreOK ==
  /\ transcript \in Seq(Messages)
  /\ streaming \in BOOLEAN
  /\ text \in Seq(Questions)

(* A socket whose screen is gone has been closed by hand.                  *)
ClosedByHand ==
  \A v \in Visits \ {current} : socket[v].native = "closing" => socket[v].manual

(* Every turn_start under way has an end behind it, or will have.          *)
EndIsComing ==
  \A v \in Visits : \A i \in DOMAIN down[v] :
    down[v][i].type = "turn_start" =>
      \/ serving[v].pc = "stream"
      \/ \E j \in DOMAIN down[v] : j > i /\ down[v][j].type \in EndTypes

TypesInv == TabOK /\ WireOK /\ StoreOK
IInv == TypesInv /\ OneSocket /\ ClosedByHand /\ EndIsComing /\ StreamingIsReal

USE DEF store, wire, ghosts

LEMMA Numbers ==
  /\ Visits \subseteq Nat /\ 0 \notin Visits
  /\ Questions \subseteq Nat /\ Questions \subseteq 0 .. MaxQuestions
  BY BoundsAssumption DEF Visits, Questions

LEMMA TypesInvIsTypeOK == TypesInv => TypeOK
<1> SUFFICES ASSUME TypesInv  PROVE TypeOK
  OBVIOUS
<1>1. \A v \in Visits : \A i \in DOMAIN up[v] : up[v][i] \in Requests
  <2> SUFFICES ASSUME NEW v \in Visits, NEW i \in DOMAIN up[v]  PROVE up[v][i] \in GoodRequests
    BY DEF GoodRequests
  <2>1. up[v] \in Seq(GoodRequests)  BY DEF TypesInv, WireOK
  <2> QED  BY <2>1, ElementOfSeq
<1>2. \A v \in Visits : \A i \in DOMAIN down[v] : down[v][i] \in Frames
  <2> SUFFICES ASSUME NEW v \in Visits, NEW i \in DOMAIN down[v]  PROVE down[v][i] \in GoodFrames
    BY DEF GoodFrames
  <2>1. down[v] \in Seq(GoodFrames)  BY DEF TypesInv, WireOK
  <2> QED  BY <2>1, ElementOfSeq
<1>3. serving \in [Visits -> Tasks]  BY DEF TypesInv, WireOK, GoodTasks
<1>4. \A i \in DOMAIN transcript : transcript[i] \in Messages  BY DEF TypesInv, StoreOK
<1> QED  BY <1>1, <1>2, <1>3, <1>4 DEF TypesInv, TabOK, WireOK, StoreOK, TypeOK

-----------------------------------------------------------------------------
(* The tab and its sockets.                                                *)

LEMMA TabStep ==
  ASSUME TabOK, WireOK, StoreOK, OneSocket, ClosedByHand, [Next]_vars
  PROVE  TabOK' /\ OneSocket' /\ ClosedByHand'
<1> USE Numbers, BoundsAssumption DEF TabOK
<1>1. CASE Visit
  <2>1. PICK next \in {0, visits + 1} :
          /\ current' = next
          /\ socket' = [v \in Visits |->
               IF v = current THEN Closed(socket[v])
               ELSE IF v = next THEN [NewSocket EXCEPT !.native = "connecting"] ELSE socket[v]]
    BY <1>1 DEF Visit, Point
  <2>2. visits < MaxVisits /\ visits' = visits + 1 /\ broken' = FALSE
        /\ UNCHANGED <<connection, cancels, drops>>
    BY <1>1 DEF Visit
  <2>3. \A s \in Sockets : /\ Closed(s) \in Sockets /\ Closed(s).manual /\ ~Closed(s).timer
                           /\ Closed(s).native \in {"none", "closing"}
    BY DEF Closed, Sockets
  <2>4. [NewSocket EXCEPT !.native = "connecting"] \in Sockets  BY DEF NewSocket, Sockets
  <2>5. TabOK'
    <3>1. visits' \in 0 .. MaxVisits /\ current' \in {0, visits'}  BY <2>1, <2>2
    <3>2. socket' \in [Visits -> Sockets]  BY <2>1, <2>3, <2>4
    <3> QED  BY <2>2, <3>1, <3>2
  <2>6. \A v \in Visits \ {current'} :
          socket'[v] = IF v = current THEN Closed(socket[v]) ELSE socket[v]
    BY <2>1
  <2>7. OneSocket'  BY <2>3, <2>6 DEF OneSocket
  <2>8. ClosedByHand'  BY <2>3, <2>6 DEF ClosedByHand
  <2> QED  BY <2>5, <2>7, <2>8
<1>2. ASSUME UNCHANGED <<visits, current, socket, connection, drops, broken>>,
             cancels' \in 0 .. MaxCancels
      PROVE  TabOK' /\ OneSocket' /\ ClosedByHand'
  BY <1>2 DEF OneSocket, ClosedByHand
<1>3. CASE CancelTurn
  BY <1>2, <1>3 DEF CancelTurn
<1>4. CASE SendTurnStart \/ \E v \in Visits : Deliver(v) \/ TakeTurnStart(v) \/ TakeCancel(v)
            \/ TaskDone(v) \/ BeginTurn(v) \/ StreamPiece(v) \/ EndTurn(v)
  BY <1>2, <1>4 DEF SendTurnStart, Deliver, TakeTurnStart, TakeCancel, TaskDone, BeginTurn,
     StreamPiece, EndTurn, ServerKeeps
<1>5. ASSUME NEW v \in Visits, Opened(v) \/ CloseEvent(v) \/ Reconnect(v) \/ Drop(v)
      PROVE  TabOK' /\ OneSocket' /\ ClosedByHand'
  <2> USE <1>5 DEF OneSocket, ClosedByHand
  <2>0. socket[v] \in Sockets  OBVIOUS
  <2>1. CASE Opened(v)
    <3>1. v = current  BY <2>1 DEF Opened
    <3>2. /\ socket' = [socket EXCEPT ![v].native = "open"] /\ connection' = "ok"
          /\ UNCHANGED <<visits, current, cancels, drops, broken>>  BY <2>1 DEF Opened
    <3>3. socket' \in [Visits -> Sockets]  BY <3>2, <2>0 DEF Sockets
    <3> QED  BY <3>1, <3>2, <3>3
  <2>2. CASE CloseEvent(v)
    <3>1. /\ socket' = [socket EXCEPT ![v].native = "none", ![v].timer = ~socket[v].manual]
          /\ connection' \in {"ok", "reconnecting"}
          /\ socket[v].native \in {"dropped", "closing"}
          /\ UNCHANGED <<visits, current, cancels, drops, broken>>  BY <2>2 DEF CloseEvent
    <3>2. socket' \in [Visits -> Sockets]  BY <3>1, <2>0 DEF Sockets
    <3>3. v # current => socket[v].manual  BY <3>1
    <3>4. socket'[v].native = "none" /\ socket'[v].timer = ~socket[v].manual
      BY <3>1, <2>0 DEF Sockets
    <3>5. \A w \in Visits \ {v} : socket'[w] = socket[w]  BY <3>1
    <3> QED  BY <3>1, <3>2, <3>3, <3>4, <3>5
  <2>3. CASE Reconnect(v)
    <3>1. v = current  BY <2>3 DEF Reconnect
    <3>2. /\ socket' = [socket EXCEPT ![v].timer = FALSE, ![v].manual = FALSE,
                                      ![v].native = IF @ = "none" THEN "connecting" ELSE @]
          /\ UNCHANGED <<visits, current, connection, cancels, drops, broken>>
      BY <2>3 DEF Reconnect
    <3>3. socket' \in [Visits -> Sockets]  BY <3>2, <2>0 DEF Sockets
    <3> QED  BY <3>1, <3>2, <3>3
  <2>4. CASE Drop(v)
    <3>1. v = current  BY <2>4 DEF Drop
    <3>2. /\ socket' = [socket EXCEPT ![v].native = "dropped"]
          /\ drops' = drops + 1 /\ drops < MaxDrops /\ broken' \in BOOLEAN
          /\ UNCHANGED <<visits, current, connection, cancels>>
      BY <2>4 DEF Drop
    <3>3. socket' \in [Visits -> Sockets]  BY <3>2, <2>0 DEF Sockets
    <3> QED  BY <3>1, <3>2, <3>3
  <2> QED  BY <2>1, <2>2, <2>3, <2>4
<1>6. CASE UNCHANGED vars
  BY <1>2, <1>6 DEF vars
<1> QED  BY <1>1, <1>3, <1>4, <1>5, <1>6 DEF Next, ScreenStep, BrowserStep, ServerLoop

-----------------------------------------------------------------------------
(* The frames and the server.                                              *)

(* What Send, Task and Taken keep.                                         *)
LEMMA WirePieces ==
  ASSUME WireOK, NEW v \in Visits
  PROVE  /\ \A f \in GoodFrames : [down EXCEPT ![v] = Append(@, f)] \in [Visits -> Seq(GoodFrames)]
         /\ \A r \in GoodRequests : [up EXCEPT ![v] = Append(@, r)] \in [Visits -> Seq(GoodRequests)]
         /\ \A t \in GoodTasks : [serving EXCEPT ![v] = t] \in [Visits -> GoodTasks]
         /\ up[v] # <<>> => [up EXCEPT ![v] = Tail(@)] \in [Visits -> Seq(GoodRequests)]
         /\ down[v] # <<>> => [down EXCEPT ![v] = Tail(@)] \in [Visits -> Seq(GoodFrames)]
<1>1. up[v] \in Seq(GoodRequests) /\ down[v] \in Seq(GoodFrames)  BY DEF WireOK
<1>2. \A f \in GoodFrames : Append(down[v], f) \in Seq(GoodFrames)
  BY <1>1, AppendProperties
<1>3. \A r \in GoodRequests : Append(up[v], r) \in Seq(GoodRequests)
  BY <1>1, AppendProperties
<1>4. /\ up[v] # <<>> => Tail(up[v]) \in Seq(GoodRequests)
      /\ down[v] # <<>> => Tail(down[v]) \in Seq(GoodFrames)
  BY <1>1, HeadTailProperties
<1> QED  BY <1>2, <1>3, <1>4 DEF WireOK

(* A turn has a question.                                                  *)
LEMMA ServingOK ==
  ASSUME WireOK, NEW v \in Visits
  PROVE  /\ serving[v] \in GoodTasks
         /\ serving[v].pc # "idle" => serving[v].of \in Questions
         /\ serving[v] # Idle => serving[v].of \in Questions
  BY DEF WireOK, GoodTasks, Tasks, Idle

LEMMA WireStep ==
  ASSUME TypesInv, [Next]_vars
  PROVE  WireOK'
<1> USE Numbers, BoundsAssumption DEF TypesInv
<1>0. /\ Idle \in GoodTasks
      /\ \A q \in Questions, pc \in {"start", "stream", "ended"} : [pc |-> pc, of |-> q] \in GoodTasks
      /\ \A q \in Questions, type \in {"turn_start", "delta", "patch", "turn_end", "cancelled", "error"} :
           [type |-> type, of |-> q] \in GoodFrames
      /\ [type |-> "invalid", of |-> 0] \in GoodFrames
      /\ \A q \in Questions : [type |-> "turn_start", of |-> q] \in GoodRequests
      /\ [type |-> "cancel_turn", of |-> 0] \in GoodRequests
  BY DEF GoodTasks, Tasks, Idle, GoodFrames, Frames, GoodRequests, Requests
<1>1. CASE Visit
  <2>1. <<>> \in Seq(GoodRequests) /\ <<>> \in Seq(GoodFrames)  OBVIOUS
  <2> QED  BY <1>0, <1>1, <2>1 DEF Visit, WireOK, Asked
<1>2. CASE SendTurnStart
  <2>1. /\ Asked + 1 \in Questions /\ visits \in Visits
        /\ askedIn' = Append(askedIn, visits) /\ askedIn \in Seq(Visits)
        /\ UNCHANGED <<down, serving, pieces, ended, late>>
    BY <1>2 DEF SendTurnStart, WireOK, Asked, Questions, TabOK, Visits
  <2>2. askedIn' \in Seq(Visits) /\ Asked' <= MaxQuestions
    BY <2>1, AppendProperties DEF Asked, Questions
  <2>3. up' \in [Visits -> Seq(GoodRequests)]
    BY <1>0, <1>2, <2>1, WirePieces DEF SendTurnStart, Request, Connected, TabOK, WireOK
  <2> QED  BY <2>1, <2>2, <2>3 DEF WireOK
<1>3. CASE CancelTurn
  <2>1. up' \in [Visits -> Seq(GoodRequests)]
    BY <1>0, <1>3, WirePieces DEF CancelTurn, Request, Connected, TabOK, WireOK, Visits
  <2> QED  BY <1>3, <2>1 DEF CancelTurn, WireOK, Asked
<1>4. ASSUME NEW v \in Visits, Opened(v) \/ CloseEvent(v) \/ Reconnect(v)
      PROVE  WireOK'
  BY <1>4 DEF Opened, CloseEvent, Reconnect, WireOK, Asked
<1>5. ASSUME NEW v \in Visits, Drop(v)  PROVE WireOK'
  <2>1. <<>> \in Seq(GoodRequests) /\ <<>> \in Seq(GoodFrames)  OBVIOUS
  <2> QED  BY <1>0, <1>5, <2>1 DEF Drop, WireOK, Asked
<1>6. ASSUME NEW v \in Visits, Deliver(v)  PROVE WireOK'
  <2>1. down' \in [Visits -> Seq(GoodFrames)] /\ UNCHANGED <<up, serving, askedIn, pieces, late>>
    BY <1>6, WirePieces DEF Deliver
  <2>2. Head(down[v]) \in GoodFrames
    BY <1>6, HeadTailProperties DEF Deliver, WireOK
  <2>3. ended' \subseteq Questions
    BY <1>6, <2>2 DEF Deliver, WireOK, GoodFrames
  <2> QED  BY <2>1, <2>3 DEF WireOK, Asked
<1>7. ASSUME NEW v \in Visits, TakeTurnStart(v) \/ TakeCancel(v)  PROVE WireOK'
  <2>1. up' \in [Visits -> Seq(GoodRequests)] /\ UNCHANGED <<askedIn, pieces, ended>>
    BY <1>7, WirePieces DEF TakeTurnStart, TakeCancel, Waiting, Taken, ServerKeeps
  <2>2. Head(up[v]) \in GoodRequests
    BY <1>7, HeadTailProperties DEF TakeTurnStart, TakeCancel, Waiting, WireOK
  <2>3. CASE TakeTurnStart(v)
    <3>1. Head(up[v]).of \in Questions  BY <2>2, <2>3 DEF TakeTurnStart, Waiting, GoodRequests
    <3>2. CASE serving[v] = Idle
      <4>1. serving' = [serving EXCEPT ![v] = [pc |-> "start", of |-> Head(up[v]).of]]
            /\ UNCHANGED <<down, late>>
        BY <2>3, <3>2 DEF TakeTurnStart, Task
      <4>2. serving' \in [Visits -> GoodTasks]  BY <1>0, <3>1, <4>1, WirePieces
      <4> QED  BY <2>1, <4>1, <4>2 DEF WireOK, Asked
    <3>3. CASE serving[v] # Idle
      <4>1. down' = [down EXCEPT ![v] = Append(@, [type |-> "invalid", of |-> 0])]
            /\ UNCHANGED <<serving, late>>
        BY <2>3, <3>3 DEF TakeTurnStart, Send
      <4>2. down' \in [Visits -> Seq(GoodFrames)]  BY <1>0, <4>1, WirePieces
      <4> QED  BY <2>1, <4>1, <4>2 DEF WireOK, Asked
    <3> QED  BY <3>2, <3>3
  <2>4. CASE TakeCancel(v)
    <3>1. down' \in [Visits -> Seq(GoodFrames)] /\ serving' \in [Visits -> GoodTasks]
      <4>1. CASE serving[v] = Idle
        <5>1. down' = [down EXCEPT ![v] = Append(@, [type |-> "invalid", of |-> 0])]
              /\ UNCHANGED serving
          BY <2>4, <4>1 DEF TakeCancel, Send
        <5>2. down' \in [Visits -> Seq(GoodFrames)]  BY <1>0, <5>1, WirePieces
        <5> QED  BY <5>1, <5>2 DEF WireOK
      <4>2. CASE serving[v] # Idle
        <5>1. serving[v].of \in Questions  BY <4>2, ServingOK
        <5>2. down' = [down EXCEPT ![v] = Append(@, [type |-> "cancelled", of |-> serving[v].of])]
              /\ serving' = [serving EXCEPT ![v] = Idle]
          BY <2>4, <4>2 DEF TakeCancel, Send, Task, Idle
        <5>3. down' \in [Visits -> Seq(GoodFrames)]  BY <1>0, <5>1, <5>2, WirePieces
        <5>4. serving' \in [Visits -> GoodTasks]  BY <1>0, <5>2, WirePieces
        <5> QED  BY <5>3, <5>4
      <4> QED  BY <4>1, <4>2
    <3>2. late' \in BOOLEAN  BY <2>4 DEF TakeCancel, WireOK
    <3> QED  BY <2>1, <3>1, <3>2 DEF WireOK, Asked
  <2> QED  BY <1>7, <2>3, <2>4
<1>8. ASSUME NEW v \in Visits, TaskDone(v) \/ BeginTurn(v) \/ StreamPiece(v) \/ EndTurn(v)
      PROVE  WireOK'
  <2> DEFINE q == serving[v].of
  <2>1. q \in Questions /\ UNCHANGED <<up, askedIn, ended, late>>
    BY <1>8, ServingOK DEF TaskDone, BeginTurn, StreamPiece, EndTurn, ServerKeeps
  <2>2. down' \in [Visits -> Seq(GoodFrames)] /\ serving' \in [Visits -> GoodTasks]
    <3>1. CASE TaskDone(v)
      BY <1>0, <3>1, WirePieces DEF TaskDone, Task, WireOK, Idle
    <3>2. CASE BeginTurn(v)
      <4>1. serving' = [serving EXCEPT ![v] = [pc |-> "stream", of |-> q]]
            /\ down' = [down EXCEPT ![v] = Append(@, [type |-> "turn_start", of |-> q])]
        BY <3>2 DEF BeginTurn, Task, Send
      <4>2. serving' \in [Visits -> GoodTasks]  BY <1>0, <2>1, <4>1, WirePieces
      <4>3. down' \in [Visits -> Seq(GoodFrames)]  BY <1>0, <2>1, <4>1, WirePieces
      <4> QED  BY <4>2, <4>3
    <3>3. CASE StreamPiece(v)
      <4>1. PICK type \in {"delta", "patch"} :
              down' = [down EXCEPT ![v] = Append(@, [type |-> type, of |-> q])]
        BY <3>3 DEF StreamPiece, Send
      <4>2. down' \in [Visits -> Seq(GoodFrames)]  BY <1>0, <2>1, <4>1, WirePieces
      <4>3. UNCHANGED serving  BY <3>3 DEF StreamPiece
      <4> QED  BY <4>2, <4>3 DEF WireOK
    <3>4. CASE EndTurn(v)
      <4>1. PICK type \in {"turn_end", "error"} :
              /\ serving' = [serving EXCEPT ![v] = [pc |-> "ended", of |-> q]]
              /\ down' = [down EXCEPT ![v] = Append(@, [type |-> type, of |-> q])]
        BY <3>4 DEF EndTurn, Task, Send
      <4>2. serving' \in [Visits -> GoodTasks]  BY <1>0, <2>1, <4>1, WirePieces
      <4>3. down' \in [Visits -> Seq(GoodFrames)]  BY <1>0, <2>1, <4>1, WirePieces
      <4> QED  BY <4>2, <4>3
    <3> QED  BY <1>8, <3>1, <3>2, <3>3, <3>4
  <2>3. pieces' \in [Questions -> [{"delta", "patch"} -> 0 .. MaxPieces]]
    <3>1. CASE StreamPiece(v)
      <4>1. PICK type \in {"delta", "patch"} :
              pieces[q][type] < MaxPieces /\ pieces' = [pieces EXCEPT ![q][type] = @ + 1]
        BY <3>1 DEF StreamPiece
      <4>2. pieces[q] \in [{"delta", "patch"} -> 0 .. MaxPieces]  BY <2>1 DEF WireOK
      <4>3. [pieces[q] EXCEPT ![type] = @ + 1] \in [{"delta", "patch"} -> 0 .. MaxPieces]
        BY <4>1, <4>2
      <4> QED  BY <2>1, <4>1, <4>3 DEF WireOK
    <3>2. CASE ~StreamPiece(v)
      BY <1>8, <3>2 DEF TaskDone, BeginTurn, EndTurn, WireOK
    <3> QED  BY <3>1, <3>2
  <2> QED  BY <2>1, <2>2, <2>3 DEF WireOK, Asked
<1>9. CASE UNCHANGED vars
  BY <1>9 DEF vars, WireOK, Asked
<1> QED  BY <1>1, <1>2, <1>3, <1>4, <1>5, <1>6, <1>7, <1>8, <1>9
     DEF Next, ScreenStep, BrowserStep, ServerLoop

-----------------------------------------------------------------------------
(* The store.                                                              *)

LEMMA EditedMessage ==
  /\ \A m \in Messages, q \in Questions : [m EXCEPT !.patches = @ \cup {q}] \in Messages
  /\ \A m \in Messages : [m EXCEPT !.live = FALSE] \in Messages
  /\ \A m \in Messages, body \in Seq(Questions) :
       [m EXCEPT !.body = body, !.live = FALSE] \in Messages
  BY DEF Messages

LEMMA LatestMessage ==
  ASSUME transcript \in Seq(Messages), transcript # <<>>
  PROVE  Latest \in Messages
<1>1. Len(transcript) \in Nat \ {0}  BY EmptySeq, LenProperties
<1> QED  BY <1>1, ElementOfSeq DEF Latest, Last

LEMMA UpdatedTranscript ==
  ASSUME transcript \in Seq(Messages), NEW m, transcript # <<>> => m \in Messages
  PROVE  UpdateLast(m) \in Seq(Messages)
<1>1. CASE transcript = <<>>
  BY <1>1 DEF UpdateLast
<1>2. CASE transcript # <<>>
  <2>1. Len(transcript) \in Nat \ {0}  BY <1>2, EmptySeq, LenProperties
  <2>2. \A i \in 1 .. Len(transcript) - 1 : transcript[i] \in Messages
    BY <2>1, ElementOfSeq
  <2>3. Front(transcript) \in Seq(Messages)
    BY <2>1, <2>2, SubSeqProperties DEF Front
  <2> QED  BY <1>2, <2>3, AppendProperties DEF UpdateLast
<1> QED  BY <1>1, <1>2

LEMMA StoreStep ==
  ASSUME TypesInv, [Next]_vars
  PROVE  StoreOK'
<1> USE Numbers, BoundsAssumption DEF TypesInv, StoreOK
<1>0. <<>> \in Seq(Messages) /\ <<>> \in Seq(Questions)  OBVIOUS
<1>1. CASE Visit
  BY <1>0, <1>1 DEF Visit
<1>2. CASE SendTurnStart
  <2>1. Asked + 1 \in Questions  BY <1>2 DEF SendTurnStart, WireOK, Asked, Questions
  <2>2. <<Asked + 1>> \in Seq(Questions)  BY <2>1
  <2>3. [role |-> "user", of |-> Asked + 1, body |-> <<Asked + 1>>, patches |-> {}, live |-> FALSE]
          \in Messages
    BY <2>1, <2>2 DEF Messages
  <2> QED  BY <1>2, <2>3, AppendProperties DEF SendTurnStart
<1>3. ASSUME NEW v \in Visits, Deliver(v)  PROVE StoreOK'
  <2> DEFINE f == Head(down[v])
  <2>1. f \in GoodFrames  BY <1>3, HeadTailProperties DEF Deliver, WireOK
  <2>2. OnEvent(f)  BY <1>3 DEF Deliver
  <2> HIDE DEF f
  <2>3. f.type # "invalid" => f.of \in Questions  BY <2>1 DEF GoodFrames
  <2>4. f.type \in {"turn_start", "delta", "patch", "turn_end", "cancelled", "error", "invalid"}
    BY <2>1 DEF GoodFrames, Frames
  <2>5. CASE f.type = "turn_start"
    <3>1. OnTurnStart(f.of)  BY <2>2, <2>5 DEF OnEvent
    <3>2. [role |-> "brain", of |-> f.of, body |-> <<>>, patches |-> {}, live |-> TRUE] \in Messages
      BY <1>0, <2>3, <2>5, Numbers DEF Messages
    <3> QED  BY <1>0, <3>1, <3>2, AppendProperties DEF OnTurnStart
  <2>6. CASE f.type = "delta"
    <3>1. OnDelta(f.of)  BY <2>2, <2>6 DEF OnEvent
    <3> QED  BY <2>3, <2>6, <3>1, AppendProperties DEF OnDelta
  <2>7. CASE f.type = "patch"
    <3>1. OnPatchProposed(f.of)  BY <2>2, <2>7 DEF OnEvent
    <3> DEFINE m == [Latest EXCEPT !.patches = @ \cup {f.of}]
    <3>2. transcript # <<>> => m \in Messages
      BY <2>3, <2>7, LatestMessage, EditedMessage
    <3> HIDE DEF m
    <3>3. transcript' = UpdateLast(m) /\ UNCHANGED <<streaming, text>>
      BY <3>1 DEF OnPatchProposed, m
    <3> QED  BY <1>0, <3>2, <3>3, UpdatedTranscript
  <2>8. CASE f.type \in {"turn_end", "cancelled"}
    <3>1. OnTurnEnd  BY <2>2, <2>8 DEF OnEvent
    <3> DEFINE m == [Latest EXCEPT !.body = text, !.live = FALSE]
    <3>2. transcript # <<>> => m \in Messages
      BY LatestMessage, EditedMessage
    <3> HIDE DEF m
    <3>3. transcript' = UpdateLast(m) /\ streaming' = FALSE /\ text' = <<>>
      BY <3>1 DEF OnTurnEnd, m
    <3> QED  BY <1>0, <3>2, <3>3, UpdatedTranscript
  <2>9. CASE f.type = "error"
    <3>1. OnError  BY <2>2, <2>9 DEF OnEvent
    <3> DEFINE m == [Latest EXCEPT !.live = FALSE]
    <3>2. transcript # <<>> => m \in Messages
      BY LatestMessage, EditedMessage
    <3> HIDE DEF m
    <3>3. transcript' = UpdateLast(m) /\ streaming' = FALSE /\ text' = text
      BY <3>1 DEF OnError, m
    <3> QED  BY <1>0, <3>2, <3>3, UpdatedTranscript
  <2>10. CASE f.type = "invalid"
    BY <2>2, <2>10 DEF OnEvent
  <2> QED  BY <2>4, <2>5, <2>6, <2>7, <2>8, <2>9, <2>10
<1>4. CASE UNCHANGED store
  BY <1>4
<1> QED
  BY <1>1, <1>2, <1>3, <1>4 DEF Next, ScreenStep, BrowserStep, ServerLoop, CancelTurn, Opened,
     CloseEvent, Reconnect, Drop, TakeTurnStart, TakeCancel, TaskDone, BeginTurn, StreamPiece,
     EndTurn, ServerKeeps, vars

-----------------------------------------------------------------------------
(* The streaming flag.                                                     *)

(* The two conjuncts, for the queue and the task of one visit.             *)
EndIn(q) == \E i \in DOMAIN q : q[i].type \in EndTypes
Ends(q, pc) ==
  \A i \in DOMAIN q : q[i].type = "turn_start" =>
    pc = "stream" \/ \E j \in DOMAIN q : j > i /\ q[j].type \in EndTypes

(* A frame put at the end of a queue leaves the ends there; an end or a    *)
(* turn_start with a stream behind it keeps them all.                      *)
LEMMA SentEnds ==
  ASSUME NEW q \in Seq(GoodFrames), NEW f \in GoodFrames, NEW pc, NEW pc2, Ends(q, pc),
         \/ f.type \in EndTypes
         \/ pc2 = "stream"
         \/ f.type # "turn_start" /\ pc # "stream"
  PROVE  Ends(Append(q, f), pc2)
<1>1. /\ Len(q) \in Nat /\ DOMAIN q = 1 .. Len(q)
      /\ DOMAIN Append(q, f) = 1 .. Len(q) + 1
      /\ Append(q, f)[Len(q) + 1] = f
      /\ \A i \in 1 .. Len(q) : Append(q, f)[i] = q[i]
  BY AppendProperties, LenProperties
<1> DEFINE a == Append(q, f)
<1> HIDE DEF a
<1>2. SUFFICES ASSUME NEW i \in DOMAIN a, a[i].type = "turn_start", pc2 # "stream"
               PROVE  \E j \in DOMAIN a : j > i /\ a[j].type \in EndTypes
  BY DEF Ends, a
<1>3. CASE f.type \in EndTypes
  <2>1. i # Len(q) + 1  BY <1>1, <1>2, <1>3 DEF a, EndTypes
  <2>2. Len(q) + 1 \in DOMAIN a /\ Len(q) + 1 > i /\ a[Len(q) + 1].type \in EndTypes
    BY <1>1, <1>2, <1>3, <2>1 DEF a
  <2> QED  BY <2>2
<1>4. CASE f.type # "turn_start" /\ pc # "stream"
  <2>1. i \in DOMAIN q /\ q[i].type = "turn_start"  BY <1>1, <1>2, <1>4 DEF a
  <2>2. PICK j \in DOMAIN q : j > i /\ q[j].type \in EndTypes  BY <1>4, <2>1 DEF Ends
  <2>3. j \in DOMAIN a /\ a[j] = q[j]  BY <1>1, <2>2 DEF a
  <2> QED  BY <2>2, <2>3
<1> QED  BY <1>2, <1>3, <1>4

(* An end stays where it is, and the queue keeps it until it is the head.  *)
LEMMA SentEnd ==
  ASSUME NEW q \in Seq(GoodFrames), NEW f \in GoodFrames, EndIn(q) \/ f.type \in EndTypes
  PROVE  EndIn(Append(q, f))
<1>1. /\ Len(q) \in Nat /\ DOMAIN q = 1 .. Len(q)
      /\ DOMAIN Append(q, f) = 1 .. Len(q) + 1
      /\ Append(q, f)[Len(q) + 1] = f
      /\ \A i \in 1 .. Len(q) : Append(q, f)[i] = q[i]
  BY AppendProperties, LenProperties
<1>2. CASE EndIn(q)
  <2>1. PICK i \in DOMAIN q : q[i].type \in EndTypes  BY <1>2 DEF EndIn
  <2>2. i \in DOMAIN Append(q, f) /\ Append(q, f)[i] = q[i]  BY <1>1
  <2> QED  BY <2>1, <2>2 DEF EndIn
<1>3. CASE f.type \in EndTypes
  <2>1. Len(q) + 1 \in DOMAIN Append(q, f)  BY <1>1
  <2> QED  BY <1>1, <1>3, <2>1 DEF EndIn
<1> QED  BY <1>2, <1>3

(* The head leaves: the rest has its ends still, and the end of the turn   *)
(* the head began.                                                         *)
LEMMA TakenEnds ==
  ASSUME NEW q \in Seq(GoodFrames), q # <<>>, NEW pc, Ends(q, pc)
  PROVE  /\ Ends(Tail(q), pc)
         /\ Head(q).type = "turn_start" => pc = "stream" \/ EndIn(Tail(q))
         /\ EndIn(q) /\ Head(q).type \notin EndTypes => EndIn(Tail(q))
<1>1. /\ Len(q) \in Nat \ {0} /\ DOMAIN q = 1 .. Len(q)
      /\ Tail(q) \in Seq(GoodFrames) /\ Len(Tail(q)) = Len(q) - 1
      /\ DOMAIN Tail(q) = 1 .. Len(q) - 1
      /\ \A i \in 1 .. Len(q) - 1 : Tail(q)[i] = q[i + 1]
      /\ Head(q) = q[1]
  <2>1. Len(q) \in Nat \ {0} /\ DOMAIN q = 1 .. Len(q)  BY EmptySeq, LenProperties
  <2>2. Tail(q) \in Seq(GoodFrames) /\ Len(Tail(q)) = Len(q) - 1
        /\ \A i \in 1 .. Len(Tail(q)) : Tail(q)[i] = q[i + 1]
    BY HeadTailProperties
  <2>3. DOMAIN Tail(q) = 1 .. Len(Tail(q))  BY <2>2, LenProperties
  <2>4. Head(q) = q[1]  OBVIOUS
  <2> QED  BY <2>1, <2>2, <2>3, <2>4
<1>2. \A j \in DOMAIN q : j > 1 => j - 1 \in DOMAIN Tail(q) /\ Tail(q)[j - 1] = q[j]
  <2> SUFFICES ASSUME NEW j \in DOMAIN q, j > 1
               PROVE  j - 1 \in DOMAIN Tail(q) /\ Tail(q)[j - 1] = q[j]
    OBVIOUS
  <2>1. j \in 1 .. Len(q) /\ j - 1 \in 1 .. Len(q) - 1 /\ (j - 1) + 1 = j  BY <1>1
  <2>2. Tail(q)[j - 1] = q[(j - 1) + 1]  BY <1>1, <2>1
  <2> QED  BY <1>1, <2>1, <2>2
<1>3. \A i \in DOMAIN Tail(q) : i + 1 \in DOMAIN q /\ Tail(q)[i] = q[i + 1] /\ i \in Nat
  BY <1>1
<1>4. Ends(Tail(q), pc)
  <2> SUFFICES ASSUME NEW i \in DOMAIN Tail(q), Tail(q)[i].type = "turn_start", pc # "stream"
               PROVE  \E j \in DOMAIN Tail(q) : j > i /\ Tail(q)[j].type \in EndTypes
    BY DEF Ends
  <2>1. PICK j \in DOMAIN q : j > i + 1 /\ q[j].type \in EndTypes
    BY <1>3 DEF Ends
  <2>2. j > 1 /\ j - 1 > i  BY <1>1, <1>3, <2>1
  <2> QED  BY <1>2, <2>1, <2>2
<1>5. Head(q).type = "turn_start" => pc = "stream" \/ EndIn(Tail(q))
  <2> SUFFICES ASSUME Head(q).type = "turn_start", pc # "stream"  PROVE EndIn(Tail(q))
    OBVIOUS
  <2>1. 1 \in DOMAIN q /\ q[1].type = "turn_start"  BY <1>1
  <2>2. PICK j \in DOMAIN q : j > 1 /\ q[j].type \in EndTypes  BY <2>1 DEF Ends
  <2> QED  BY <1>2, <2>2 DEF EndIn
<1>6. EndIn(q) /\ Head(q).type \notin EndTypes => EndIn(Tail(q))
  <2> SUFFICES ASSUME EndIn(q), Head(q).type \notin EndTypes  PROVE EndIn(Tail(q))
    OBVIOUS
  <2>1. PICK j \in DOMAIN q : q[j].type \in EndTypes  BY DEF EndIn
  <2>2. j > 1  BY <1>1, <2>1
  <2> QED  BY <1>2, <2>1, <2>2 DEF EndIn
<1> QED  BY <1>4, <1>5, <1>6

(* A step of the server: a frame is sent, or none, and the task moves on.  *)
LEMMA SendStep ==
  ASSUME TypesInv, EndIsComing, StreamingIsReal, NEW v \in Visits,
         NEW f \in GoodFrames, NEW t \in GoodTasks,
         down' = [down EXCEPT ![v] = Append(@, f)],
         serving' = [serving EXCEPT ![v] = t],
         UNCHANGED <<current, socket, streaming, broken>>,
         \/ f.type \in EndTypes
         \/ t.pc = "stream"
         \/ f.type # "turn_start" /\ serving[v].pc # "stream"
  PROVE  EndIsComing' /\ StreamingIsReal'
<1>1. down[v] \in Seq(GoodFrames)  BY DEF TypesInv, WireOK
<1>2. /\ down'[v] = Append(down[v], f) /\ serving'[v] = t
      /\ \A w \in Visits \ {v} : down'[w] = down[w] /\ serving'[w] = serving[w]
  BY DEF TypesInv, WireOK
<1>3. Ends(down[v], serving[v].pc)  BY DEF EndIsComing, Ends
<1>4. Ends(down'[v], t.pc)  BY <1>1, <1>2, <1>3, SentEnds
<1>5. EndIsComing'
  <2> SUFFICES ASSUME NEW w \in Visits  PROVE Ends(down'[w], serving'[w].pc)
    BY DEF EndIsComing, Ends
  <2>1. CASE w = v  BY <1>2, <1>4, <2>1
  <2>2. CASE w # v
    <3>1. Ends(down[w], serving[w].pc)  BY DEF EndIsComing, Ends
    <3> QED  BY <1>2, <2>2, <3>1
  <2> QED  BY <2>1, <2>2
<1>6. StreamingIsReal'
  <2> SUFFICES ASSUME streaming, ~broken
               PROVE  Connected' /\ (serving'[current].pc = "stream" \/ EndIn(down'[current]))
    BY DEF StreamingIsReal, EndIn, EndTypes
  <2>1. Connected /\ (serving[current].pc = "stream" \/ EndIn(down[current]))
    BY DEF StreamingIsReal, EndIn, EndTypes
  <2>2. Connected'  BY <2>1 DEF Connected
  <2>3. CASE current = v
    <3>1. CASE t.pc = "stream"  BY <1>2, <2>2, <2>3, <3>1
    <3>2. CASE EndIn(down[v]) \/ f.type \in EndTypes
      <4>1. EndIn(down'[v])  BY <1>1, <1>2, <3>2, SentEnd
      <4> QED  BY <2>2, <2>3, <4>1
    <3> QED  BY <2>1, <2>3, <3>1, <3>2
  <2>4. CASE current # v
    <3>1. current \in Visits  BY <2>1, BoundsAssumption DEF Connected, TypesInv, TabOK, Visits
    <3> QED  BY <1>2, <2>1, <2>2, <2>4, <3>1
  <2> QED  BY <2>3, <2>4
<1> QED  BY <1>5, <1>6

LEMMA QuietStep ==
  ASSUME TypesInv, EndIsComing, StreamingIsReal, NEW v \in Visits, NEW t \in GoodTasks,
         serving[v].pc # "stream", serving' = [serving EXCEPT ![v] = t],
         UNCHANGED <<down, current, socket, streaming, broken>>
  PROVE  EndIsComing' /\ StreamingIsReal'
<1>1. serving'[v] = t /\ \A w \in Visits \ {v} : serving'[w] = serving[w]
  BY DEF TypesInv, WireOK
<1>2. EndIsComing'  BY <1>1 DEF EndIsComing
<1>3. Connected => current \in Visits
  BY BoundsAssumption DEF Connected, TypesInv, TabOK, Visits
<1>4. StreamingIsReal'  BY <1>1, <1>3 DEF StreamingIsReal, Connected
<1> QED  BY <1>2, <1>4

LEMMA StreamStep ==
  ASSUME TypesInv, OneSocket, EndIsComing, StreamingIsReal, [Next]_vars
  PROVE  EndIsComing' /\ StreamingIsReal'
<1> USE Numbers, BoundsAssumption
<1>0. /\ Idle \in GoodTasks
      /\ \A q \in Questions, pc \in {"start", "stream", "ended"} : [pc |-> pc, of |-> q] \in GoodTasks
      /\ \A q \in Questions, type \in {"turn_start", "delta", "patch", "turn_end", "cancelled", "error"} :
           [type |-> type, of |-> q] \in GoodFrames
      /\ [type |-> "invalid", of |-> 0] \in GoodFrames
  BY DEF GoodTasks, Tasks, Idle, GoodFrames, Frames
<1>1. CASE Visit
  <2>1. /\ down' = [v \in Visits |-> IF v = current THEN <<>> ELSE down[v]]
        /\ serving' = [v \in Visits |-> IF v = current THEN Idle ELSE serving[v]]
        /\ streaming' = FALSE
    BY <1>1 DEF Visit
  <2>2. \A v \in Visits : /\ v = current => down'[v] = <<>>
                          /\ v # current => down'[v] = down[v] /\ serving'[v] = serving[v]
    BY <2>1
  <2>3. EndIsComing'
    <3> SUFFICES ASSUME NEW v \in Visits  PROVE Ends(down'[v], serving'[v].pc)
      BY DEF EndIsComing, Ends
    <3>1. CASE v = current
      <4>1. down'[v] = <<>>  BY <2>2, <3>1
      <4> QED  BY <4>1 DEF Ends
    <3>2. CASE v # current
      <4>1. Ends(down[v], serving[v].pc)  BY DEF EndIsComing, Ends
      <4> QED  BY <2>2, <3>2, <4>1
    <3> QED  BY <3>1, <3>2
  <2> QED  BY <2>1, <2>3 DEF StreamingIsReal
<1>2. ASSUME UNCHANGED <<down, serving, current, socket, streaming, broken>>
      PROVE  EndIsComing' /\ StreamingIsReal'
  BY <1>2 DEF EndIsComing, StreamingIsReal, Connected
<1>3. CASE SendTurnStart \/ CancelTurn \/ UNCHANGED vars
  BY <1>2, <1>3 DEF SendTurnStart, CancelTurn, vars
<1>4. ASSUME NEW v \in Visits, Opened(v) \/ CloseEvent(v) \/ Reconnect(v)
      PROVE  EndIsComing' /\ StreamingIsReal'
  <2>1. UNCHANGED <<down, serving, current, streaming, broken>>
    BY <1>4 DEF Opened, CloseEvent, Reconnect
  <2>2. EndIsComing'  BY <2>1 DEF EndIsComing
  <2>3. Connected => Connected'
    <3>1. SUFFICES ASSUME Connected  PROVE socket'[current].native = "open"
      BY <2>1 DEF Connected
    <3>2. current \in Visits /\ socket \in [Visits -> Sockets] /\ socket[v] \in Sockets
      BY <3>1 DEF Connected, TypesInv, TabOK, Visits
    <3>3. CASE Opened(v)
      <4>1. v # current /\ socket' = [socket EXCEPT ![v].native = "open"]
        BY <3>1, <3>3 DEF Opened, Connected
      <4> QED  BY <3>1, <3>2, <4>1 DEF Connected
    <3>4. CASE CloseEvent(v)
      <4>1. v # current  BY <3>1, <3>4 DEF CloseEvent, Connected
      <4>2. socket' = [socket EXCEPT ![v].native = "none", ![v].timer = ~socket[v].manual]
        BY <3>4 DEF CloseEvent
      <4> QED  BY <3>1, <3>2, <4>1, <4>2 DEF Connected
    <3>5. CASE Reconnect(v)
      <4>1. socket' = [socket EXCEPT ![v].timer = FALSE, ![v].manual = FALSE,
                                     ![v].native = IF @ = "none" THEN "connecting" ELSE @]
        BY <3>5 DEF Reconnect
      <4> QED  BY <3>1, <3>2, <4>1 DEF Connected, Sockets
    <3> QED  BY <1>4, <3>3, <3>4, <3>5
  <2> QED  BY <2>1, <2>2, <2>3 DEF StreamingIsReal
<1>5. ASSUME NEW v \in Visits, Drop(v)  PROVE EndIsComing' /\ StreamingIsReal'
  <2>1. /\ down' = [down EXCEPT ![v] = <<>>] /\ serving' = [serving EXCEPT ![v] = Idle]
        /\ broken' = (broken \/ (v = current /\ streaming))
        /\ UNCHANGED <<current, streaming>> /\ socket[v].native \in {"connecting", "open"}
    BY <1>5 DEF Drop
  <2>2. v = current
    <3>1. v # current => socket[v].native \in {"none", "closing"}  BY DEF OneSocket
    <3> QED  BY <2>1, <3>1
  <2>3. /\ down'[v] = <<>>
        /\ \A w \in Visits \ {v} : down'[w] = down[w] /\ serving'[w] = serving[w]
    BY <2>1 DEF TypesInv, WireOK
  <2>4. EndIsComing'  BY <2>3 DEF EndIsComing
  <2>5. streaming' => broken'  BY <2>1, <2>2
  <2> QED  BY <2>4, <2>5 DEF StreamingIsReal
<1>6. ASSUME NEW v \in Visits, Deliver(v)  PROVE EndIsComing' /\ StreamingIsReal'
  <2> DEFINE f == Head(down[v])
             q == down[v]
  <2>1. /\ down' = [down EXCEPT ![v] = Tail(@)] /\ q # <<>> /\ OnEvent(f)
        /\ socket[v].native = "open"
        /\ UNCHANGED <<current, socket, serving, broken>>
    BY <1>6 DEF Deliver
  <2>2. q \in Seq(GoodFrames) /\ Ends(q, serving[v].pc)
    BY DEF TypesInv, WireOK, EndIsComing, Ends
  <2>3. v = current  BY <2>1 DEF OneSocket
  <2>4. /\ Ends(Tail(q), serving[v].pc)
        /\ f.type = "turn_start" => serving[v].pc = "stream" \/ EndIn(Tail(q))
        /\ EndIn(q) /\ f.type \notin EndTypes => EndIn(Tail(q))
    BY <2>1, <2>2, TakenEnds
  <2>5. down'[v] = Tail(q) /\ \A w \in Visits \ {v} : down'[w] = down[w]
    BY <2>1 DEF TypesInv, WireOK
  <2>6. f \in GoodFrames  BY <2>1, <2>2, HeadTailProperties
  <2>7. f.type \in {"turn_start", "delta", "patch", "turn_end", "cancelled", "error", "invalid"}
    BY <2>6 DEF GoodFrames, Frames
  <2> HIDE DEF f
  <2>8. EndIsComing'
    <3> SUFFICES ASSUME NEW w \in Visits  PROVE Ends(down'[w], serving'[w].pc)
      BY DEF EndIsComing, Ends
    <3>1. CASE w = v  BY <2>1, <2>4, <2>5, <3>1
    <3>2. CASE w # v
      <4>1. Ends(down[w], serving[w].pc)  BY DEF EndIsComing, Ends
      <4> QED  BY <2>1, <2>5, <3>2, <4>1
    <3> QED  BY <3>1, <3>2
  <2>9. f.type \in EndTypes => streaming' = FALSE
    <3>1. CASE f.type \in {"turn_end", "cancelled"}
      BY <2>1, <3>1 DEF OnEvent, OnTurnEnd
    <3>2. CASE f.type = "error"
      BY <2>1, <3>2 DEF OnEvent, OnError
    <3> QED  BY <3>1, <3>2 DEF EndTypes
  <2>10. f.type \in {"delta", "patch", "invalid"} => streaming' = streaming
    <3>1. CASE f.type = "delta"  BY <2>1, <3>1 DEF OnEvent, OnDelta
    <3>2. CASE f.type = "patch"  BY <2>1, <3>2 DEF OnEvent, OnPatchProposed
    <3>3. CASE f.type = "invalid"  BY <2>1, <3>3 DEF OnEvent
    <3> QED  BY <3>1, <3>2, <3>3
  <2>11. StreamingIsReal'
    <3> SUFFICES ASSUME streaming', ~broken
                 PROVE  Connected' /\ (serving[v].pc = "stream" \/ EndIn(Tail(q)))
      BY <2>1, <2>3, <2>5 DEF StreamingIsReal, EndIn, EndTypes
    <3>1. Connected'  BY <2>1, <2>3 DEF Connected, Visits
    <3>2. CASE f.type = "turn_start"  BY <2>4, <3>1, <3>2
    <3>3. CASE f.type \in {"delta", "patch", "invalid"}
      <4>1. streaming /\ f.type \notin EndTypes  BY <2>10, <3>3 DEF EndTypes
      <4>2. serving[v].pc = "stream" \/ EndIn(q)
        BY <2>3, <4>1 DEF StreamingIsReal, EndIn, EndTypes
      <4> QED  BY <2>4, <3>1, <4>1, <4>2
    <3> QED  BY <2>7, <2>9, <3>2, <3>3 DEF EndTypes
  <2> QED  BY <2>8, <2>11
<1>7. ASSUME NEW v \in Visits,
             \/ TakeTurnStart(v) \/ TakeCancel(v) \/ TaskDone(v)
             \/ BeginTurn(v) \/ StreamPiece(v) \/ EndTurn(v)
      PROVE  EndIsComing' /\ StreamingIsReal'
  <2> DEFINE n == serving[v].of
             invalid == [type |-> "invalid", of |-> 0]
  <2>1. UNCHANGED <<current, socket, streaming, broken>>
    BY <1>7 DEF TakeTurnStart, TakeCancel, TaskDone, BeginTurn, StreamPiece, EndTurn, ServerKeeps
  <2>2. serving[v] \in GoodTasks /\ (serving[v].pc # "idle" => n \in Questions)
        /\ (serving[v] # Idle => n \in Questions)
    BY ServingOK DEF TypesInv
  <2>3. serving = [serving EXCEPT ![v] = serving[v]]  BY DEF TypesInv, WireOK
  <2>4. CASE TakeTurnStart(v)
    <3>1. CASE serving[v] = Idle
      <4>1. Head(up[v]).of \in Questions
        <5>1. up[v] \in Seq(GoodRequests)  BY DEF TypesInv, WireOK
        <5>2. Head(up[v]) \in GoodRequests /\ Head(up[v]).type = "turn_start"
          BY <2>4, <5>1, HeadTailProperties DEF TakeTurnStart, Waiting
        <5> QED  BY <5>2 DEF GoodRequests
      <4>2. serving' = [serving EXCEPT ![v] = [pc |-> "start", of |-> Head(up[v]).of]]
            /\ UNCHANGED down
        BY <2>4, <3>1 DEF TakeTurnStart, Task
      <4>3. serving[v].pc # "stream"  BY <3>1 DEF Idle
      <4>4. [pc |-> "start", of |-> Head(up[v]).of] \in GoodTasks  BY <1>0, <4>1
      <4> QED  BY <2>1, <4>2, <4>3, <4>4, QuietStep
    <3>2. CASE serving[v] # Idle
      <4>1. down' = [down EXCEPT ![v] = Append(@, invalid)] /\ UNCHANGED serving
        BY <2>4, <3>2 DEF TakeTurnStart, Send
      <4>2. invalid \in GoodFrames /\ invalid.type # "turn_start"  BY <1>0
      <4>3. serving' = [serving EXCEPT ![v] = serving[v]]  BY <2>3, <4>1
      <4> HIDE DEF invalid
      <4> QED  BY <2>1, <2>2, <4>1, <4>2, <4>3, SendStep
    <3> QED  BY <3>1, <3>2
  <2>5. CASE TakeCancel(v)
    <3>1. CASE serving[v] = Idle
      <4>1. down' = [down EXCEPT ![v] = Append(@, invalid)] /\ UNCHANGED serving
        BY <2>5, <3>1 DEF TakeCancel, Send
      <4>2. invalid \in GoodFrames /\ invalid.type # "turn_start"  BY <1>0
      <4>3. serving' = [serving EXCEPT ![v] = serving[v]]  BY <2>3, <4>1
      <4>4. serving[v].pc # "stream"  BY <3>1 DEF Idle
      <4> HIDE DEF invalid
      <4> QED  BY <2>1, <2>2, <4>1, <4>2, <4>3, <4>4, SendStep
    <3>2. CASE serving[v] # Idle
      <4> DEFINE g == [type |-> "cancelled", of |-> n]
      <4>1. down' = [down EXCEPT ![v] = Append(@, g)] /\ serving' = [serving EXCEPT ![v] = Idle]
        BY <2>5, <3>2 DEF TakeCancel, Send, Task, Idle
      <4>2. g \in GoodFrames /\ g.type \in EndTypes  BY <1>0, <2>2, <3>2 DEF EndTypes
      <4> HIDE DEF g
      <4> QED  BY <1>0, <2>1, <4>1, <4>2, SendStep
    <3> QED  BY <3>1, <3>2
  <2>6. CASE TaskDone(v)
    <3>1. serving' = [serving EXCEPT ![v] = Idle] /\ UNCHANGED down /\ serving[v].pc # "stream"
      BY <2>6 DEF TaskDone, Task, Idle
    <3> QED  BY <1>0, <2>1, <3>1, QuietStep
  <2>7. CASE BeginTurn(v)
    <3> DEFINE g == [type |-> "turn_start", of |-> n]
               t == [pc |-> "stream", of |-> n]
    <3>1. down' = [down EXCEPT ![v] = Append(@, g)] /\ serving' = [serving EXCEPT ![v] = t]
      BY <2>7 DEF BeginTurn, Send, Task
    <3>2. g \in GoodFrames /\ t \in GoodTasks /\ t.pc = "stream"
      BY <1>0, <2>2, <2>7 DEF BeginTurn
    <3> HIDE DEF g, t
    <3> QED  BY <2>1, <3>1, <3>2, SendStep
  <2>8. CASE StreamPiece(v)
    <3>1. PICK type \in {"delta", "patch"} :
            down' = [down EXCEPT ![v] = Append(@, [type |-> type, of |-> n])]
      BY <2>8 DEF StreamPiece, Send
    <3> DEFINE g == [type |-> type, of |-> n]
    <3>2. g \in GoodFrames /\ serving[v].pc = "stream"
      BY <1>0, <2>2, <2>8 DEF StreamPiece
    <3>3. serving' = [serving EXCEPT ![v] = serving[v]]  BY <2>3, <2>8 DEF StreamPiece
    <3>4. down' = [down EXCEPT ![v] = Append(@, g)]  BY <3>1
    <3> HIDE DEF g
    <3> QED  BY <2>1, <2>2, <3>2, <3>3, <3>4, SendStep
  <2>9. CASE EndTurn(v)
    <3>1. PICK type \in {"turn_end", "error"} :
            /\ down' = [down EXCEPT ![v] = Append(@, [type |-> type, of |-> n])]
            /\ serving' = [serving EXCEPT ![v] = [pc |-> "ended", of |-> n]]
      BY <2>9 DEF EndTurn, Send, Task
    <3> DEFINE g == [type |-> type, of |-> n]
               t == [pc |-> "ended", of |-> n]
    <3>2. g \in GoodFrames /\ g.type \in EndTypes /\ t \in GoodTasks
      BY <1>0, <2>2, <2>9 DEF EndTurn, EndTypes
    <3>3. down' = [down EXCEPT ![v] = Append(@, g)] /\ serving' = [serving EXCEPT ![v] = t]
      BY <3>1
    <3> HIDE DEF g, t
    <3> QED  BY <2>1, <3>2, <3>3, SendStep
  <2> QED  BY <1>7, <2>4, <2>5, <2>6, <2>7, <2>8, <2>9
<1> QED
  BY <1>1, <1>3, <1>4, <1>5, <1>6, <1>7 DEF Next, ScreenStep, BrowserStep, ServerLoop

-----------------------------------------------------------------------------
LEMMA InitIInv == Init => IInv
<1> SUFFICES ASSUME Init  PROVE IInv
  OBVIOUS
<1> USE Numbers, BoundsAssumption DEF Init
<1>1. <<>> \in Seq(GoodRequests) /\ <<>> \in Seq(GoodFrames) /\ <<>> \in Seq(Visits)
      /\ <<>> \in Seq(Messages) /\ <<>> \in Seq(Questions)
  OBVIOUS
<1>2. Idle \in GoodTasks /\ NewSocket \in Sockets
  BY DEF Idle, GoodTasks, Tasks, NewSocket, Sockets
<1>3. TabOK
  <2>1. socket \in [Visits -> Sockets]  BY <1>2
  <2>2. visits \in 0 .. MaxVisits /\ cancels \in 0 .. MaxCancels /\ drops \in 0 .. MaxDrops
    OBVIOUS
  <2>3. current \in {0, visits} /\ connection \in {"ok", "reconnecting"} /\ broken \in BOOLEAN
    OBVIOUS
  <2> QED  BY <2>1, <2>2, <2>3 DEF TabOK
<1>4. WireOK
  <2>1. up \in [Visits -> Seq(GoodRequests)] /\ down \in [Visits -> Seq(GoodFrames)]  BY <1>1
  <2>2. serving \in [Visits -> GoodTasks]  BY <1>2
  <2>3. Asked <= MaxQuestions  BY DEF Asked
  <2>4. pieces \in [Questions -> [{"delta", "patch"} -> 0 .. MaxPieces]]  OBVIOUS
  <2> QED  BY <1>1, <2>1, <2>2, <2>3, <2>4 DEF WireOK
<1>5. StoreOK  BY <1>1 DEF StoreOK
<1>6. OneSocket /\ ClosedByHand  BY DEF OneSocket, ClosedByHand, NewSocket
<1>7. EndIsComing /\ StreamingIsReal  BY DEF EndIsComing, StreamingIsReal
<1> QED  BY <1>3, <1>4, <1>5, <1>6, <1>7 DEF IInv, TypesInv

LEMMA StepIInv == IInv /\ [Next]_vars => IInv'
BY TabStep, WireStep, StoreStep, StreamStep DEF IInv, TypesInv

LEMMA Inductive == Spec => []IInv
BY InitIInv, StepIInv, PTL DEF Spec

(* Types of the tab, the wire and the server's tasks, for every number of  *)
(* visits, questions, pieces, cancels and losses (chat-store.ts,           *)
(* ws/client.ts, routes/chat.py).                                          *)
THEOREM TypeCorrect == Spec => []TypeOK
<1>1. IInv => TypeOK  BY TypesInvIsTypeOK DEF IInv
<1> QED  BY <1>1, Inductive, PTL

(* The reconnecting client never opens, or waits to open, a second socket  *)
(* (ws/client.ts): a timer survives no close by hand, and the close event  *)
(* of a socket the screen closed starts none.                              *)
THEOREM OneSocketCorrect == Spec => []OneSocket
<1>1. IInv => OneSocket  BY DEF IInv
<1> QED  BY <1>1, Inductive, PTL

(* While the composer is locked (chat-store.ts streaming) the socket is    *)
(* open and the turn streams or its last frame is on the wire, unless the  *)
(* connection was lost during the answer: the server sends no turn_start   *)
(* that it does not end, and no refusal ends a turn.                       *)
THEOREM StreamingCorrect == Spec => []StreamingIsReal
<1>1. IInv => StreamingIsReal  BY DEF IInv
<1> QED  BY <1>1, Inductive, PTL


-----------------------------------------------------------------------------
(* The transcript.  A position is what the browser knows after a frame:    *)
(* the turn it streams (0 for none), the last turn that began, and how     *)
(* many deltas of the turn it has.  The frames under way lead from the     *)
(* position of the tab to that of the server.                              *)

Position == {a \in [turn : Nat, seen : Nat, len : Nat] : a.turn \in {0, a.seen}}

Leads(a, f, b) ==
  \/ f.type \in {"invalid", "patch"} /\ b = a /\ (f.type = "patch" => f.of = a.turn)
  \/ f.type = "turn_start" /\ a.turn = 0 /\ f.of > a.seen
     /\ b = [turn |-> f.of, seen |-> f.of, len |-> 0]
  \/ f.type = "delta" /\ f.of = a.turn /\ b = [turn |-> a.turn, seen |-> a.seen, len |-> a.len + 1]
  \/ f.type \in EndTypes /\ f.of = a.turn /\ b = [turn |-> 0, seen |-> a.seen, len |-> 0]

(* No turn begins again.                                                   *)
Passes(a, b) ==
  /\ a.seen <= b.seen
  /\ a.seen = b.seen /\ b.turn # 0 => a.turn = b.turn

(* p[i]: the position after the first i of the n frames of d; a turn_end   *)
(* is sent when the browser will have all deltas of its turn.              *)
Path(d, n, p, g) ==
  /\ n \in Nat /\ Len(d) = n /\ p \in [0 .. n -> Position]
  /\ \A i \in 1 .. n :
       /\ Leads(p[i - 1], d[i], p[i])
       /\ d[i].type = "turn_end" => p[i - 1].len = g[d[i].of]["delta"]
  /\ \A i, j \in 0 .. n : i <= j => Passes(p[i], p[j])

LEMMA LeadsOn ==
  ASSUME NEW a \in Position, NEW b \in Position, NEW f \in GoodFrames, Leads(a, f, b)
  PROVE  Passes(a, b)
<1>1. a.seen \in Nat /\ a.turn \in Nat /\ b.seen \in Nat /\ b.turn \in Nat  BY DEF Position
<1>2. CASE f.type = "turn_start"
  <2>1. f.of > a.seen /\ b = [turn |-> f.of, seen |-> f.of, len |-> 0]
    BY <1>2 DEF Leads, EndTypes
  <2>2. f.of \in Nat  BY <1>2, Numbers DEF GoodFrames
  <2> QED  BY <1>1, <2>1, <2>2 DEF Passes
<1>3. CASE f.type # "turn_start"
  BY <1>1, <1>3 DEF Leads, Passes
<1> QED  BY <1>2, <1>3

LEMMA PassesFurther ==
  ASSUME NEW a \in Position, NEW b \in Position, NEW c \in Position, Passes(a, b), Passes(b, c)
  PROVE  Passes(a, c)
BY DEF Position, Passes

LEMMA PathStarts ==
  ASSUME NEW a \in Position, NEW g
  PROVE  Path(<<>>, 0, [i \in 0 .. 0 |-> a], g)
<1> DEFINE p == [i \in 0 .. 0 |-> a]
<1>1. p \in [0 .. 0 -> Position] /\ p[0] = a  OBVIOUS
<1>2. Passes(a, a)  BY DEF Passes, Position
<1>3. \A i \in 0 .. 0 : i = 0  OBVIOUS
<1>4. 1 .. 0 = {}  OBVIOUS
<1> HIDE DEF p
<1>5. \A i, j \in 0 .. 0 : i <= j => Passes(p[i], p[j])  BY <1>1, <1>2, <1>3
<1>6. Path(<<>>, 0, p, g)  BY <1>1, <1>4, <1>5 DEF Path
<1> QED  BY <1>6 DEF p

(* A frame is sent.                                                        *)
LEMMA PathGrows ==
  ASSUME NEW d \in Seq(GoodFrames), NEW n, NEW p, NEW g, Path(d, n, p, g),
         NEW f \in GoodFrames, NEW b \in Position, Leads(p[n], f, b),
         f.type = "turn_end" => p[n].len = g[f.of]["delta"]
  PROVE  \E r : Path(Append(d, f), n + 1, r, g) /\ r[0] = p[0] /\ r[n + 1] = b
<1>1. n \in Nat /\ Len(d) = n /\ p \in [0 .. n -> Position]  BY DEF Path
<1>2. /\ Len(Append(d, f)) = n + 1 /\ Append(d, f)[n + 1] = f
      /\ \A i \in 1 .. n : Append(d, f)[i] = d[i]
  BY <1>1, AppendProperties
<1> DEFINE r == [i \in 0 .. n + 1 |-> IF i <= n THEN p[i] ELSE b]
           e == Append(d, f)
<1>3. r \in [0 .. n + 1 -> Position] /\ (\A i \in 0 .. n : r[i] = p[i]) /\ r[n + 1] = b
  <2>1. \A i \in 0 .. n + 1 : i <= n => i \in 0 .. n  BY <1>1
  <2>2. \A i \in 0 .. n : i \in 0 .. n + 1 /\ i <= n  BY <1>1
  <2>3. n + 1 \in 0 .. n + 1 /\ ~(n + 1 <= n)  BY <1>1
  <2> QED  BY <1>1, <2>1, <2>2, <2>3
<1> HIDE DEF r, e
<1>4. \A i \in 1 .. n + 1 : /\ Leads(r[i - 1], e[i], r[i])
                            /\ e[i].type = "turn_end" => r[i - 1].len = g[e[i].of]["delta"]
  <2> SUFFICES ASSUME NEW i \in 1 .. n + 1
               PROVE  /\ Leads(r[i - 1], e[i], r[i])
                      /\ e[i].type = "turn_end" => r[i - 1].len = g[e[i].of]["delta"]
    OBVIOUS
  <2>1. CASE i \in 1 .. n
    <3>1. i \in 0 .. n /\ i - 1 \in 0 .. n  BY <1>1, <2>1
    <3>2. e[i] = d[i]  BY <1>2, <2>1 DEF e
    <3>3. Leads(p[i - 1], d[i], p[i]) /\ (d[i].type = "turn_end" => p[i - 1].len = g[d[i].of]["delta"])
      BY <2>1 DEF Path
    <3> QED  BY <1>3, <3>1, <3>2, <3>3
  <2>2. CASE i = n + 1
    <3>1. i - 1 = n /\ n \in 0 .. n  BY <1>1, <2>2
    <3>2. e[i] = f  BY <1>2, <2>2 DEF e
    <3> QED  BY <1>3, <2>2, <3>1, <3>2
  <2>3. i \in 1 .. n \/ i = n + 1  BY <1>1
  <2> QED  BY <2>1, <2>2, <2>3
<1>5. \A i, j \in 0 .. n + 1 : i <= j => Passes(r[i], r[j])
  <2> SUFFICES ASSUME NEW i \in 0 .. n + 1, NEW j \in 0 .. n + 1, i <= j
               PROVE  Passes(r[i], r[j])
    OBVIOUS
  <2>1. CASE j \in 0 .. n
    <3>1. i \in 0 .. n  BY <1>1, <2>1
    <3>2. Passes(p[i], p[j])  BY <2>1, <3>1 DEF Path
    <3> QED  BY <1>3, <2>1, <3>1, <3>2
  <2>2. CASE j = n + 1 /\ i \in 0 .. n
    <3>1. n \in 0 .. n /\ i <= n  BY <1>1, <2>2
    <3>2. Passes(p[i], p[n])  BY <2>2, <3>1 DEF Path
    <3>3. p[i] \in Position /\ p[n] \in Position  BY <1>1, <2>2, <3>1
    <3>4. Passes(p[n], b)  BY <3>3, LeadsOn
    <3>5. Passes(p[i], b)  BY <3>2, <3>3, <3>4, PassesFurther
    <3> QED  BY <1>3, <2>2, <3>5
  <2>3. CASE i = n + 1 /\ j = n + 1
    BY <1>3, <2>3 DEF Passes, Position
  <2>4. (j \in 0 .. n) \/ (j = n + 1 /\ i \in 0 .. n) \/ (i = n + 1 /\ j = n + 1)  BY <1>1
  <2> QED  BY <2>1, <2>2, <2>3, <2>4
<1>6. Path(e, n + 1, r, g)  BY <1>1, <1>2, <1>3, <1>4, <1>5 DEF Path, e
<1>7. r[0] = p[0]  BY <1>1, <1>3
<1> QED  BY <1>3, <1>6, <1>7 DEF e

(* The head is delivered.                                                  *)
LEMMA PathShrinks ==
  ASSUME NEW d \in Seq(GoodFrames), d # <<>>, NEW n, NEW p, NEW g, Path(d, n, p, g)
  PROVE  /\ Leads(p[0], Head(d), p[1]) /\ p[0] \in Position /\ p[1] \in Position
         /\ Head(d).type = "turn_end" => p[0].len = g[Head(d).of]["delta"]
         /\ \E m, r : Path(Tail(d), m, r, g) /\ r[0] = p[1] /\ r[m] = p[n]
<1>1. n \in Nat \ {0} /\ Len(d) = n /\ p \in [0 .. n -> Position]  BY EmptySeq, LenProperties DEF Path
<1>2. Head(d) = d[1] /\ 1 \in 1 .. n /\ 1 - 1 = 0 /\ 0 \in 0 .. n /\ 1 \in 0 .. n  BY <1>1
<1>3. Leads(p[0], Head(d), p[1]) /\ (Head(d).type = "turn_end" => p[0].len = g[Head(d).of]["delta"])
  <2>1. Leads(p[1 - 1], d[1], p[1]) /\ (d[1].type = "turn_end" => p[1 - 1].len = g[d[1].of]["delta"])
    BY <1>2 DEF Path
  <2> QED  BY <1>2, <2>1
<1> DEFINE m == n - 1
           r == [i \in 0 .. m |-> p[i + 1]]
           e == Tail(d)
<1>4. m \in Nat /\ Len(e) = m /\ \A i \in 1 .. m : e[i] = d[i + 1]
  BY <1>1, HeadTailProperties
<1>5. r \in [0 .. m -> Position] /\ \A i \in 0 .. m : r[i] = p[i + 1] /\ i + 1 \in 0 .. n
  <2>1. \A i \in 0 .. m : i + 1 \in 0 .. n  BY <1>1
  <2> QED  BY <1>1, <2>1
<1>6. m + 1 = n  BY <1>1
<1> HIDE DEF r, e, m
<1>7. \A i \in 1 .. m : /\ Leads(r[i - 1], e[i], r[i])
                        /\ e[i].type = "turn_end" => r[i - 1].len = g[e[i].of]["delta"]
  <2> SUFFICES ASSUME NEW i \in 1 .. m
               PROVE  /\ Leads(r[i - 1], e[i], r[i])
                      /\ e[i].type = "turn_end" => r[i - 1].len = g[e[i].of]["delta"]
    OBVIOUS
  <2>1. i \in 0 .. m /\ i - 1 \in 0 .. m /\ i + 1 \in 1 .. n /\ (i - 1) + 1 = i /\ (i + 1) - 1 = i
    BY <1>4, <1>6
  <2>2. r[i] = p[i + 1] /\ r[i - 1] = p[i]
    <3>1. r[i - 1] = p[(i - 1) + 1]  BY <1>5, <2>1
    <3> QED  BY <1>5, <2>1, <3>1
  <2>3. /\ Leads(p[(i + 1) - 1], d[i + 1], p[i + 1])
        /\ d[i + 1].type = "turn_end" => p[(i + 1) - 1].len = g[d[i + 1].of]["delta"]
    BY <2>1 DEF Path
  <2>4. e[i] = d[i + 1]  BY <1>4
  <2>5. p[(i + 1) - 1] = p[i]  BY <2>1
  <2> QED  BY <2>2, <2>3, <2>4, <2>5
<1>8. \A i, j \in 0 .. m : i <= j => Passes(r[i], r[j])
  <2> SUFFICES ASSUME NEW i \in 0 .. m, NEW j \in 0 .. m, i <= j  PROVE Passes(r[i], r[j])
    OBVIOUS
  <2>1. i + 1 \in 0 .. n /\ j + 1 \in 0 .. n  BY <1>5
  <2>2. i + 1 <= j + 1  BY <1>4
  <2>3. Passes(p[i + 1], p[j + 1])  BY <2>1, <2>2 DEF Path
  <2> QED  BY <1>5, <2>3
<1>9. Path(e, m, r, g)  BY <1>4, <1>5, <1>7, <1>8 DEF Path
<1>10. r[0] = p[1] /\ r[m] = p[n]
  <2>1. 0 \in 0 .. m /\ m \in 0 .. m /\ 0 + 1 = 1  BY <1>4
  <2> QED  BY <1>5, <1>6, <2>1
<1>11. p[0] \in Position /\ p[1] \in Position  BY <1>1, <1>2
<1>12. \E k, s : Path(Tail(d), k, s, g) /\ s[0] = p[1] /\ s[k] = p[n]  BY <1>9, <1>10 DEF e
<1> QED  BY <1>3, <1>11, <1>12

(* A delta of the turn that streams is counted: the turn_ends under way    *)
(* are of turns before it.                                                 *)
LEMMA PathRecounts ==
  ASSUME NEW d \in Seq(GoodFrames), NEW n, NEW p, NEW g, NEW h, Path(d, n, p, g), p[n].turn # 0,
         \A q \in Questions \ {p[n].turn} : h[q]["delta"] = g[q]["delta"]
  PROVE  Path(d, n, p, h)
<1>1. n \in Nat /\ Len(d) = n /\ p \in [0 .. n -> Position]  BY DEF Path
<1> SUFFICES ASSUME NEW i \in 1 .. n, d[i].type = "turn_end"
             PROVE  p[i - 1].len = h[d[i].of]["delta"]
  BY DEF Path
<1>2. i \in 0 .. n /\ i - 1 \in 0 .. n /\ n \in 0 .. n /\ i <= n /\ i - 1 <= n  BY <1>1
<1>3. Leads(p[i - 1], d[i], p[i]) /\ p[i - 1].len = g[d[i].of]["delta"]  BY DEF Path
<1>4. Passes(p[i], p[n]) /\ Passes(p[i - 1], p[n])  BY <1>2 DEF Path
<1>5. d[i] \in GoodFrames  BY <1>1, ElementOfSeq
<1>6. d[i].of \in Questions  BY <1>5 DEF GoodFrames
<1>7. d[i].of = p[i - 1].turn /\ p[i].turn = 0 /\ p[i].seen = p[i - 1].seen
  BY <1>3 DEF Leads, EndTypes
<1>8. p[i] \in Position /\ p[i - 1] \in Position /\ p[n] \in Position  BY <1>1, <1>2
<1>9. p[i - 1].turn # p[n].turn
  BY <1>4, <1>7, <1>8 DEF Passes, Position
<1> QED  BY <1>3, <1>6, <1>7, <1>9

(* A question belongs to the visit it was asked in: so do the frames and   *)
(* the task of its turn, and other visits have none left.                  *)
Own(n, v) == n \in 1 .. Asked /\ askedIn[n] = v
OwnRequests(v) == {r \in GoodRequests : r.type = "turn_start" => Own(r.of, v)}
OwnFrames(v) == {f \in GoodFrames : f.type # "invalid" => Own(f.of, v)}

InOrder(u) ==
  \A i, j \in DOMAIN u :
    i < j /\ u[i].type = "turn_start" /\ u[j].type = "turn_start" => u[i].of < u[j].of

Tagged(v) ==
  /\ up[v] \in Seq(OwnRequests(v)) /\ InOrder(up[v])
  /\ down[v] \in Seq(OwnFrames(v))
  /\ serving[v].pc # "idle" => Own(serving[v].of, v)
  /\ v # current => up[v] = <<>> /\ down[v] = <<>> /\ serving[v] = Idle

Past ==
  /\ ended \subseteq 1 .. Asked
  /\ \A q \in Questions : q > Asked => pieces[q]["delta"] = 0

Tags == (\A v \in Visits : Tagged(v)) /\ Past

LEMMA LargerSeq ==
  ASSUME NEW S, NEW T, S \subseteq T, NEW q \in Seq(S)
  PROVE  q \in Seq(T)
<1>1. q \in [1 .. Len(q) -> S] /\ Len(q) \in Nat  BY LenProperties
<1>2. q \in [1 .. Len(q) -> T]  BY <1>1
<1> QED  BY <1>1, <1>2, SeqDef

LEMMA OwnGrows ==
  ASSUME WireOK, NEW w, askedIn' = Append(askedIn, w)
  PROVE  /\ Asked \in Nat /\ Asked' = Asked + 1 /\ askedIn'[Asked + 1] = w
         /\ \A n \in 1 .. Asked : askedIn'[n] = askedIn[n]
         /\ \A n, v : Own(n, v) => Own(n, v)'
<1>1. askedIn \in Seq(Visits)  BY DEF WireOK
<1>2. askedIn \in Seq(Visits \cup {w})  BY <1>1, LargerSeq
<1>3. /\ Len(askedIn) \in Nat /\ Len(askedIn') = Len(askedIn) + 1
      /\ askedIn'[Len(askedIn) + 1] = w
      /\ \A n \in 1 .. Len(askedIn) : askedIn'[n] = askedIn[n]
  BY <1>2, AppendProperties, LenProperties
<1>4. \A n \in 1 .. Len(askedIn) : n \in 1 .. Len(askedIn')  BY <1>3
<1> QED  BY <1>3, <1>4 DEF Own, Asked

LEMMA OrderRest ==
  ASSUME NEW u \in Seq(GoodRequests), u # <<>>, InOrder(u)
  PROVE  /\ InOrder(Tail(u))
         /\ \A i \in DOMAIN Tail(u) :
              i + 1 \in DOMAIN u /\ Tail(u)[i] = u[i + 1]
              /\ (Head(u).type = "turn_start" /\ Tail(u)[i].type = "turn_start"
                    => Head(u).of < Tail(u)[i].of)
<1>1. /\ Len(u) \in Nat \ {0} /\ DOMAIN u = 1 .. Len(u) /\ Tail(u) \in Seq(GoodRequests)
      /\ Len(Tail(u)) = Len(u) - 1 /\ Head(u) = u[1]
      /\ \A i \in 1 .. Len(u) - 1 : Tail(u)[i] = u[i + 1]
  BY EmptySeq, LenProperties, HeadTailProperties
<1>2. DOMAIN Tail(u) = 1 .. Len(u) - 1  BY <1>1, LenProperties
<1>3. \A i \in DOMAIN Tail(u) : i + 1 \in DOMAIN u /\ Tail(u)[i] = u[i + 1] /\ i \in Nat /\ 1 < i + 1
  BY <1>1, <1>2
<1>4. InOrder(Tail(u))
  <2> SUFFICES ASSUME NEW i \in DOMAIN Tail(u), NEW j \in DOMAIN Tail(u), i < j,
                      Tail(u)[i].type = "turn_start", Tail(u)[j].type = "turn_start"
               PROVE  Tail(u)[i].of < Tail(u)[j].of
    BY DEF InOrder
  <2>1. i + 1 < j + 1  BY <1>3
  <2> QED  BY <1>3, <2>1 DEF InOrder
<1>5. 1 \in DOMAIN u  BY <1>1
<1> QED  BY <1>1, <1>3, <1>4, <1>5 DEF InOrder

LEMMA OrderSent ==
  ASSUME NEW u \in Seq(GoodRequests), InOrder(u), NEW r \in GoodRequests,
         r.type = "turn_start" => \A i \in DOMAIN u : u[i].type = "turn_start" => u[i].of < r.of
  PROVE  InOrder(Append(u, r))
<1>1. /\ Len(u) \in Nat /\ DOMAIN u = 1 .. Len(u)
      /\ DOMAIN Append(u, r) = 1 .. Len(u) + 1 /\ Append(u, r)[Len(u) + 1] = r
      /\ \A i \in 1 .. Len(u) : Append(u, r)[i] = u[i]
  BY AppendProperties, LenProperties
<1> DEFINE e == Append(u, r)
<1> HIDE DEF e
<1> SUFFICES ASSUME NEW i \in DOMAIN e, NEW j \in DOMAIN e, i < j,
                    e[i].type = "turn_start", e[j].type = "turn_start"
             PROVE  e[i].of < e[j].of
  BY DEF InOrder, e
<1>2. i \in DOMAIN u /\ e[i] = u[i]  BY <1>1 DEF e
<1>3. CASE j \in DOMAIN u
  <2>1. e[j] = u[j]  BY <1>1, <1>3 DEF e
  <2> QED  BY <1>2, <1>3, <2>1 DEF InOrder
<1>4. CASE j = Len(u) + 1
  <2>1. e[j] = r  BY <1>1, <1>4 DEF e
  <2> QED  BY <1>2, <2>1
<1> QED  BY <1>1, <1>3, <1>4 DEF e

(* A step that moves the frames and the task of one visit.                 *)
LEMMA TaggedMove ==
  ASSUME WireOK, Tags, NEW v \in Visits, NEW u, NEW d, NEW t,
         up' = [up EXCEPT ![v] = u], down' = [down EXCEPT ![v] = d],
         serving' = [serving EXCEPT ![v] = t],
         UNCHANGED <<current, askedIn>>,
         u \in Seq(OwnRequests(v)), InOrder(u), d \in Seq(OwnFrames(v)),
         t.pc # "idle" => Own(t.of, v),
         v # current => u = <<>> /\ d = <<>> /\ t = Idle
  PROVE  \A w \in Visits : Tagged(w)'
<1>1. \A n, w : Own(n, w)' <=> Own(n, w)  BY DEF Own, Asked
<1>2. \A w : OwnRequests(w)' = OwnRequests(w) /\ OwnFrames(w)' = OwnFrames(w)
  BY <1>1 DEF OwnRequests, OwnFrames
<1> SUFFICES ASSUME NEW w \in Visits  PROVE Tagged(w)'
  OBVIOUS
<1>3. CASE w = v
  <2>1. up'[w] = u /\ down'[w] = d /\ serving'[w] = t  BY <1>3 DEF WireOK
  <2> QED  BY <1>1, <1>2, <1>3, <2>1 DEF Tagged
<1>4. CASE w # v
  <2>1. up'[w] = up[w] /\ down'[w] = down[w] /\ serving'[w] = serving[w]  BY <1>4 DEF WireOK
  <2>2. Tagged(w)  BY DEF Tags
  <2> QED  BY <1>1, <1>2, <2>1, <2>2 DEF Tagged
<1> QED  BY <1>3, <1>4

LEMMA PastKept ==
  ASSUME WireOK, Past, UNCHANGED <<askedIn, pieces>>, ended' \subseteq 1 .. Asked
  PROVE  Past'
BY DEF Past, Asked

(* What the queues of one visit stay after a frame is sent or taken.       *)
LEMMA TaggedPieces ==
  ASSUME WireOK, NEW v \in Visits, Tagged(v)
  PROVE  /\ \A f \in OwnFrames(v) : Append(down[v], f) \in Seq(OwnFrames(v))
         /\ down[v] # <<>> => Head(down[v]) \in OwnFrames(v) /\ Tail(down[v]) \in Seq(OwnFrames(v))
         /\ up[v] # <<>> => /\ Head(up[v]) \in OwnRequests(v) /\ Tail(up[v]) \in Seq(OwnRequests(v))
                            /\ InOrder(Tail(up[v]))
         /\ \A r \in OwnRequests(v) : Append(up[v], r) \in Seq(OwnRequests(v))
         /\ [type |-> "invalid", of |-> 0] \in OwnFrames(v)
         /\ [type |-> "cancel_turn", of |-> 0] \in OwnRequests(v)
         /\ \A type \in {"turn_start", "delta", "patch", "turn_end", "cancelled", "error"} :
              serving[v].pc # "idle" => [type |-> type, of |-> serving[v].of] \in OwnFrames(v)
<1>1. up[v] \in Seq(OwnRequests(v)) /\ down[v] \in Seq(OwnFrames(v)) /\ InOrder(up[v])
      /\ (serving[v].pc # "idle" => Own(serving[v].of, v))
  BY DEF Tagged
<1>2. \A f \in OwnFrames(v) : Append(down[v], f) \in Seq(OwnFrames(v))
  BY <1>1, AppendProperties
<1>3. \A r \in OwnRequests(v) : Append(up[v], r) \in Seq(OwnRequests(v))
  BY <1>1, AppendProperties
<1>4. down[v] # <<>> => Head(down[v]) \in OwnFrames(v) /\ Tail(down[v]) \in Seq(OwnFrames(v))
  BY <1>1, HeadTailProperties
<1>5. up[v] # <<>> => Head(up[v]) \in OwnRequests(v) /\ Tail(up[v]) \in Seq(OwnRequests(v))
  BY <1>1, HeadTailProperties
<1>6. up[v] # <<>> => InOrder(Tail(up[v]))
  BY <1>1, OrderRest DEF WireOK
<1>7. [type |-> "invalid", of |-> 0] \in OwnFrames(v) /\ [type |-> "cancel_turn", of |-> 0] \in OwnRequests(v)
  BY BoundsAssumption DEF OwnFrames, OwnRequests, GoodFrames, GoodRequests, Frames, Requests
<1>8. ASSUME NEW type \in {"turn_start", "delta", "patch", "turn_end", "cancelled", "error"},
             serving[v].pc # "idle"
      PROVE  [type |-> type, of |-> serving[v].of] \in OwnFrames(v)
  <2>1. serving[v].of \in Questions /\ Own(serving[v].of, v)  BY <1>1, <1>8, ServingOK
  <2>2. [type |-> type, of |-> serving[v].of] \in GoodFrames
    BY <2>1, Numbers DEF GoodFrames, Frames
  <2> QED  BY <2>1, <2>2 DEF OwnFrames
<1> QED  BY <1>2, <1>3, <1>4, <1>5, <1>6, <1>7, <1>8

LEMMA TagsServer ==
  ASSUME TypesInv, Tags, NEW v \in Visits,
         \/ Deliver(v) \/ TakeTurnStart(v) \/ TakeCancel(v) \/ TaskDone(v)
         \/ BeginTurn(v) \/ StreamPiece(v) \/ EndTurn(v)
  PROVE  Tags' /\ v = current
<1> DEFINE u == up[v]
           d == down[v]
           s == serving[v]
           invalid == [type |-> "invalid", of |-> 0]
<1>1. WireOK /\ Tagged(v) /\ Past  BY DEF TypesInv, Tags
<1>2. u \in Seq(OwnRequests(v)) /\ d \in Seq(OwnFrames(v)) /\ InOrder(u)
      /\ (s.pc # "idle" => Own(s.of, v)) /\ (v # current => u = <<>> /\ d = <<>> /\ s = Idle)
  BY <1>1 DEF Tagged
<1>3. v = current
  <2>1. v # current => u = <<>> /\ d = <<>> /\ s.pc = "idle"  BY <1>2 DEF Idle
  <2> QED
    BY <2>1 DEF Deliver, TakeTurnStart, TakeCancel, Waiting, TaskDone, BeginTurn, StreamPiece, EndTurn
<1>4. up = [up EXCEPT ![v] = u] /\ down = [down EXCEPT ![v] = d] /\ serving = [serving EXCEPT ![v] = s]
  BY <1>1 DEF WireOK
<1>5. Idle.pc = "idle"  BY DEF Idle
<1>6. current' = current /\ askedIn' = askedIn
  BY DEF Deliver, TakeTurnStart, TakeCancel, TaskDone, BeginTurn, StreamPiece, EndTurn, ServerKeeps
<1>7. CASE Deliver(v)
  <2>1. /\ d # <<>> /\ down' = [down EXCEPT ![v] = Tail(d)] /\ UNCHANGED <<up, serving, pieces>>
        /\ ended' = IF Head(d).type = "turn_end" THEN ended \cup {Head(d).of} ELSE ended
    BY <1>7 DEF Deliver
  <2>2. Head(d) \in OwnFrames(v) /\ Tail(d) \in Seq(OwnFrames(v))  BY <1>1, <2>1, TaggedPieces
  <2>3. \A w \in Visits : Tagged(w)'
    <3>1. up' = [up EXCEPT ![v] = u] /\ serving' = [serving EXCEPT ![v] = s]  BY <1>4, <2>1
    <3> HIDE DEF u, d, s
    <3> QED  BY <1>1, <1>2, <1>3, <1>6, <2>1, <2>2, <3>1, TaggedMove
  <2>4. Past'
    <3>1. Head(d).type = "turn_end" => Head(d).of \in 1 .. Asked  BY <2>2 DEF OwnFrames, Own
    <3>2. ended' \subseteq 1 .. Asked  BY <1>1, <2>1, <3>1 DEF Past
    <3> QED  BY <1>1, <1>6, <2>1, <3>2, PastKept
  <2> QED  BY <1>3, <2>3, <2>4 DEF Tags
<1>8. CASE TakeTurnStart(v) \/ TakeCancel(v) \/ TaskDone(v) \/ BeginTurn(v) \/ EndTurn(v)
  <2>1. UNCHANGED <<pieces, ended>>
    BY <1>8 DEF TakeTurnStart, TakeCancel, TaskDone, BeginTurn, EndTurn, ServerKeeps
  <2>2. Past'  BY <1>1, <1>6, <2>1, PastKept DEF Past
  <2>3. PICK e, t : /\ e \in Seq(OwnFrames(v)) /\ down' = [down EXCEPT ![v] = e]
                    /\ serving' = [serving EXCEPT ![v] = t]
                    /\ t.pc # "idle" => Own(t.of, v)
    <3>1. CASE TakeTurnStart(v)
      <4>1. u # <<>> /\ Head(u).type = "turn_start"  BY <3>1 DEF TakeTurnStart, Waiting
      <4>2. Head(u) \in OwnRequests(v)  BY <1>1, <4>1, TaggedPieces
      <4>3. Own(Head(u).of, v)  BY <4>1, <4>2 DEF OwnRequests
      <4>4. CASE s = Idle
        <5> DEFINE t == [pc |-> "start", of |-> Head(u).of]
        <5>1. down' = [down EXCEPT ![v] = d] /\ serving' = [serving EXCEPT ![v] = t]
          BY <1>4, <3>1, <4>4 DEF TakeTurnStart, Task
        <5>2. Own(t.of, v)  BY <4>3
        <5> HIDE DEF t, d
        <5> QED  BY <1>2, <5>1, <5>2
      <4>5. CASE s # Idle
        <5>1. down' = [down EXCEPT ![v] = Append(d, invalid)] /\ serving' = [serving EXCEPT ![v] = s]
          BY <1>4, <3>1, <4>5 DEF TakeTurnStart, Send
        <5>2. Append(d, invalid) \in Seq(OwnFrames(v))  BY <1>1, TaggedPieces
        <5> HIDE DEF s, d, invalid
        <5> QED  BY <1>2, <5>1, <5>2
      <4> QED  BY <4>4, <4>5
    <3>2. CASE TakeCancel(v)
      <4>1. CASE s = Idle
        <5>1. down' = [down EXCEPT ![v] = Append(d, invalid)] /\ serving' = [serving EXCEPT ![v] = s]
          BY <1>4, <3>2, <4>1 DEF TakeCancel, Send
        <5>2. Append(d, invalid) \in Seq(OwnFrames(v))  BY <1>1, TaggedPieces
        <5> HIDE DEF s, d, invalid
        <5> QED  BY <1>2, <5>1, <5>2
      <4>2. CASE s # Idle
        <5> DEFINE f == [type |-> "cancelled", of |-> s.of]
        <5>1. down' = [down EXCEPT ![v] = Append(d, f)] /\ serving' = [serving EXCEPT ![v] = Idle]
          BY <3>2, <4>2 DEF TakeCancel, Send, Task, Idle
        <5>2. s.pc # "idle"  BY <1>1, <4>2 DEF WireOK, GoodTasks, Tasks, Idle
        <5>3. Append(d, f) \in Seq(OwnFrames(v))  BY <1>1, <5>2, TaggedPieces
        <5> HIDE DEF f, d
        <5> QED  BY <1>5, <5>1, <5>3
      <4> QED  BY <4>1, <4>2
    <3>3. CASE TaskDone(v)
      <4>1. down' = [down EXCEPT ![v] = d] /\ serving' = [serving EXCEPT ![v] = Idle]
        BY <1>4, <3>3 DEF TaskDone, Task, Idle
      <4> QED  BY <1>2, <1>5, <4>1
    <3>4. CASE BeginTurn(v)
      <4> DEFINE f == [type |-> "turn_start", of |-> s.of]
                 t == [pc |-> "stream", of |-> s.of]
      <4>1. down' = [down EXCEPT ![v] = Append(d, f)] /\ serving' = [serving EXCEPT ![v] = t]
            /\ s.pc = "start"
        BY <3>4 DEF BeginTurn, Send, Task
      <4>2. Append(d, f) \in Seq(OwnFrames(v))  BY <1>1, <4>1, TaggedPieces
      <4>3. Own(t.of, v)  BY <1>2, <4>1
      <4> HIDE DEF f, d, t
      <4> QED  BY <4>1, <4>2, <4>3
    <3>5. CASE EndTurn(v)
      <4>1. PICK type \in {"turn_end", "error"} :
              down' = [down EXCEPT ![v] = Append(d, [type |-> type, of |-> s.of])]
        BY <3>5 DEF EndTurn, Send
      <4> DEFINE f == [type |-> type, of |-> s.of]
                 t == [pc |-> "ended", of |-> s.of]
      <4>2. down' = [down EXCEPT ![v] = Append(d, f)] /\ serving' = [serving EXCEPT ![v] = t]
            /\ s.pc = "stream"
        BY <3>5, <4>1 DEF EndTurn, Task
      <4>3. Append(d, f) \in Seq(OwnFrames(v))  BY <1>1, <4>2, TaggedPieces
      <4>4. Own(t.of, v)  BY <1>2, <4>2
      <4> HIDE DEF f, d, t
      <4> QED  BY <4>2, <4>3, <4>4
    <3> QED  BY <1>8, <3>1, <3>2, <3>3, <3>4, <3>5
  <2>4. PICK r \in Seq(OwnRequests(v)) : up' = [up EXCEPT ![v] = r] /\ InOrder(r)
    <3>1. CASE TakeTurnStart(v) \/ TakeCancel(v)
      <4>1. u # <<>> /\ up' = [up EXCEPT ![v] = Tail(u)]
        BY <3>1 DEF TakeTurnStart, TakeCancel, Waiting, Taken
      <4> QED  BY <1>1, <4>1, TaggedPieces
    <3>2. CASE TaskDone(v) \/ BeginTurn(v) \/ EndTurn(v)
      <4>1. up' = [up EXCEPT ![v] = u]  BY <1>4, <3>2 DEF TaskDone, BeginTurn, EndTurn
      <4> QED  BY <1>2, <4>1
    <3> QED  BY <1>8, <3>1, <3>2
  <2>5. \A w \in Visits : Tagged(w)'
    BY <1>1, <1>3, <1>6, <2>3, <2>4, TaggedMove DEF Tags
  <2> QED  BY <1>3, <2>2, <2>5 DEF Tags
<1>9. CASE StreamPiece(v)
  <2>1. PICK type \in {"delta", "patch"} :
          /\ down' = [down EXCEPT ![v] = Append(d, [type |-> type, of |-> s.of])]
          /\ pieces' = [pieces EXCEPT ![s.of][type] = @ + 1]
    BY <1>9 DEF StreamPiece, Send
  <2>2. s.pc = "stream" /\ UNCHANGED <<up, serving, ended>>  BY <1>9 DEF StreamPiece, ServerKeeps
  <2> DEFINE e == Append(d, [type |-> type, of |-> s.of])
  <2>3. e \in Seq(OwnFrames(v))  BY <1>1, <2>2, TaggedPieces
  <2>4. \A w \in Visits : Tagged(w)'
    <3>1. up' = [up EXCEPT ![v] = u] /\ down' = [down EXCEPT ![v] = e]
          /\ serving' = [serving EXCEPT ![v] = s]
      BY <1>4, <2>1, <2>2
    <3> HIDE DEF u, e, s
    <3> QED  BY <1>1, <1>2, <1>3, <1>6, <2>3, <3>1, TaggedMove
  <2>5. Past'
    <3>1. s.of \in Questions /\ s.of \in 1 .. Asked  BY <1>1, <1>2, <2>2, ServingOK DEF Own
    <3>2. Asked \in Nat  BY <1>1, LenProperties DEF WireOK, Asked
    <3>3. \A q \in Questions : q > Asked => q # s.of  BY <3>1, <3>2
    <3>4. \A q \in Questions : q # s.of => pieces'[q] = pieces[q]  BY <1>1, <2>1, <3>1 DEF WireOK
    <3> QED  BY <1>1, <1>6, <2>2, <3>3, <3>4 DEF Past, Asked
  <2> QED  BY <1>3, <2>4, <2>5 DEF Tags
<1> QED  BY <1>7, <1>8, <1>9

LEMMA TagsStep ==
  ASSUME TypesInv, Tags, [Next]_vars
  PROVE  Tags'
<1>1. WireOK /\ Past /\ \A w \in Visits : Tagged(w)  BY DEF TypesInv, Tags
<1>2. CASE Visit
  <2>1. /\ UNCHANGED <<askedIn, pieces, ended>>
        /\ up' = [w \in Visits |-> IF w = current THEN <<>> ELSE up[w]]
        /\ down' = [w \in Visits |-> IF w = current THEN <<>> ELSE down[w]]
        /\ serving' = [w \in Visits |-> IF w = current THEN Idle ELSE serving[w]]
    BY <1>2 DEF Visit
  <2>2. Past'  BY <1>1, <2>1, PastKept DEF Past
  <2>3. ASSUME NEW w \in Visits  PROVE Tagged(w)'
    <3>1. up'[w] = <<>> /\ down'[w] = <<>> /\ serving'[w] = Idle
      <4>1. Tagged(w)  BY <1>1
      <4> QED  BY <2>1, <4>1 DEF Tagged
    <3>2. <<>> \in Seq(OwnRequests(w)') /\ <<>> \in Seq(OwnFrames(w)') /\ InOrder(<<>>)
      BY DEF InOrder
    <3> QED  BY <3>1, <3>2 DEF Tagged, Idle
  <2> QED  BY <2>2, <2>3 DEF Tags
<1>3. CASE SendTurnStart
  <2> PICK n : n = Asked + 1
    OBVIOUS
  <2> DEFINE r == [type |-> "turn_start", of |-> n]
  <2>1. /\ UNCHANGED <<current, down, serving, pieces, ended>> /\ askedIn' = Append(askedIn, visits)
        /\ up' = IF Connected THEN [up EXCEPT ![current] = Append(@, r)] ELSE up
        /\ Asked < MaxQuestions /\ visits > 0
    BY <1>3 DEF SendTurnStart, Request
  <2>2. /\ Asked \in Nat /\ Asked' = Asked + 1 /\ askedIn'[Asked + 1] = visits
        /\ \A k \in 1 .. Asked : k \in 1 .. Asked' /\ askedIn'[k] = askedIn[k]
        /\ \A k, w : Own(k, w) => Own(k, w)'
    <3>1. /\ Asked \in Nat /\ Asked' = Asked + 1 /\ askedIn'[Asked + 1] = visits
          /\ \A k \in 1 .. Asked : askedIn'[k] = askedIn[k]
          /\ \A k, w : Own(k, w) => Own(k, w)'
      BY <1>1, <2>1, OwnGrows
    <3>2. \A k \in 1 .. Asked : k \in 1 .. Asked'  BY <3>1
    <3> QED  BY <3>1, <3>2
  <2>3. \A w : OwnRequests(w) \subseteq OwnRequests(w)' /\ OwnFrames(w) \subseteq OwnFrames(w)'
    BY <2>2 DEF OwnRequests, OwnFrames
  <2>4. Past'
    <3>1. \A k \in Nat : k \in 1 .. Asked => k \in 1 .. Asked'  BY <2>2
    <3>2. \A k \in Questions : k > Asked' => k > Asked  BY <2>2, Numbers
    <3>3. ended' \subseteq 1 .. Asked'  BY <1>1, <2>1, <2>2, <3>1 DEF Past
    <3> QED  BY <1>1, <2>1, <3>2, <3>3 DEF Past
  <2>5. ASSUME NEW w \in Visits  PROVE Tagged(w)'
    <3>1. Tagged(w)  BY <1>1
    <3>2. down'[w] \in Seq(OwnFrames(w)')  BY <2>1, <2>3, <3>1, LargerSeq DEF Tagged
    <3>3. (serving[w].pc # "idle" => Own(serving[w].of, w))'
      BY <2>1, <2>2, <3>1 DEF Tagged, Own
    <3>4. up[w] \in Seq(OwnRequests(w)') /\ InOrder(up[w])  BY <2>3, <3>1, LargerSeq DEF Tagged
    <3>5. CASE up'[w] = up[w]
      BY <2>1, <3>1, <3>2, <3>3, <3>4, <3>5 DEF Tagged
    <3>6. CASE up'[w] # up[w]
      <4>1. w = current /\ up'[w] = Append(up[w], r)
        BY <1>1, <2>1, <3>6 DEF WireOK
      <4>2. w = visits
        BY <4>1, BoundsAssumption DEF TypesInv, TabOK, Visits
      <4>3. n \in Questions /\ n \in 1 .. Asked'  BY <2>1, <2>2, BoundsAssumption DEF Questions
      <4>4. Own(n, w)'  BY <2>2, <4>2, <4>3 DEF Own
      <4>5. r \in GoodRequests  BY <4>3, Numbers DEF GoodRequests, Requests
      <4>6. r \in OwnRequests(w)'  BY <4>4, <4>5 DEF OwnRequests
      <4>7. up[w] \in Seq(GoodRequests)  BY <1>1 DEF WireOK
      <4>8. ASSUME NEW i \in DOMAIN up[w], up[w][i].type = "turn_start"  PROVE up[w][i].of < n
        <5>1. up[w] \in Seq(OwnRequests(w))  BY <3>1 DEF Tagged
        <5>2. up[w][i] \in OwnRequests(w)  BY <5>1, ElementOfSeq
        <5>3. up[w][i].of \in 1 .. Asked  BY <4>8, <5>2 DEF OwnRequests, Own
        <5> QED  BY <2>2, <5>3
      <4> HIDE DEF r
      <4>9. InOrder(Append(up[w], r))
        <5>1. r.of = n  BY DEF r
        <5> QED  BY <3>4, <4>5, <4>7, <4>8, <5>1, OrderSent
      <4>10. Append(up[w], r) \in Seq(OwnRequests(w)')  BY <3>4, <4>6, AppendProperties
      <4> QED  BY <2>1, <3>2, <3>3, <4>1, <4>9, <4>10 DEF Tagged
    <3> QED  BY <3>5, <3>6
  <2> QED  BY <2>4, <2>5 DEF Tags
<1>4. CASE CancelTurn
  <2> DEFINE r == [type |-> "cancel_turn", of |-> 0]
  <2>1. UNCHANGED <<current, down, serving, askedIn, pieces, ended>>  BY <1>4 DEF CancelTurn
  <2>2. Past'  BY <1>1, <2>1, PastKept DEF Past
  <2>3. CASE Connected
    <3>1. current \in Visits  BY <2>3, BoundsAssumption DEF Connected, TypesInv, TabOK, Visits
    <3> DEFINE u == Append(up[current], r)
    <3>2. up' = [up EXCEPT ![current] = u]  BY <1>4, <2>3 DEF CancelTurn, Request
    <3>3. down' = [down EXCEPT ![current] = down[current]]
          /\ serving' = [serving EXCEPT ![current] = serving[current]]
      BY <1>1, <2>1 DEF WireOK
    <3>4. Tagged(current)  BY <1>1, <3>1
    <3>5. u \in Seq(OwnRequests(current))  BY <1>1, <3>1, <3>4, TaggedPieces
    <3>6. up[current] \in Seq(GoodRequests) /\ r \in GoodRequests
      BY <1>1, <3>1, BoundsAssumption DEF WireOK, GoodRequests, Requests
    <3>7. InOrder(u)
      <4>1. r.type # "turn_start"  OBVIOUS
      <4> HIDE DEF r
      <4> QED  BY <3>4, <3>6, <4>1, OrderSent DEF Tagged
    <3> HIDE DEF u
    <3>8. down[current] \in Seq(OwnFrames(current))
          /\ (serving[current].pc # "idle" => Own(serving[current].of, current))
      BY <3>4 DEF Tagged
    <3>9. \A w \in Visits : Tagged(w)'
      BY <1>1, <2>1, <3>1, <3>2, <3>3, <3>5, <3>7, <3>8, TaggedMove DEF Tags
    <3> QED  BY <2>2, <3>9 DEF Tags
  <2>4. CASE ~Connected
    <3>1. UNCHANGED up  BY <1>4, <2>4 DEF CancelTurn, Request
    <3> QED  BY <1>1, <2>1, <2>2, <3>1 DEF Tags, Tagged, OwnRequests, OwnFrames, Own, Asked
  <2> QED  BY <2>3, <2>4
<1>5. CASE \E v \in Visits : Opened(v) \/ CloseEvent(v) \/ Reconnect(v)
  <2>1. UNCHANGED <<current, up, down, serving, askedIn, pieces, ended>>
    BY <1>5 DEF Opened, CloseEvent, Reconnect
  <2> QED  BY <1>1, <2>1 DEF Tags, Past, Tagged, OwnRequests, OwnFrames, Own, Asked
<1>6. CASE UNCHANGED vars
  BY <1>1, <1>6 DEF vars, Tags, Past, Tagged, OwnRequests, OwnFrames, Own, Asked
<1>7. ASSUME NEW v \in Visits, Drop(v)  PROVE Tags'
  <2>1. /\ up' = [up EXCEPT ![v] = <<>>] /\ down' = [down EXCEPT ![v] = <<>>]
        /\ serving' = [serving EXCEPT ![v] = Idle] /\ UNCHANGED <<current, askedIn, pieces, ended>>
    BY <1>7 DEF Drop
  <2>2. Past'  BY <1>1, <2>1, PastKept DEF Past
  <2>3. <<>> \in Seq(OwnRequests(v)) /\ <<>> \in Seq(OwnFrames(v)) /\ InOrder(<<>>)
    BY DEF InOrder
  <2>4. Idle.pc = "idle"  BY DEF Idle
  <2>5. \A w \in Visits : Tagged(w)'
    BY <1>1, <2>1, <2>3, <2>4, TaggedMove DEF Tags
  <2> QED  BY <2>2, <2>5 DEF Tags
<1>8. CASE \E v \in Visits : \/ Deliver(v) \/ TakeTurnStart(v) \/ TakeCancel(v) \/ TaskDone(v)
                             \/ BeginTurn(v) \/ StreamPiece(v) \/ EndTurn(v)
  BY <1>8, TagsServer
<1> QED
  BY <1>2, <1>3, <1>4, <1>5, <1>6, <1>7, <1>8 DEF Next, ScreenStep, BrowserStep, ServerLoop

TrueMessages == {m \in Messages : m.of \in 1 .. Asked /\ SaysItsOwn(m)}
Told == transcript \in Seq(TrueMessages)

(* The tab at position a: it streams its turn into the last message, has   *)
(* ended others, and has no message of a later turn.                       *)
AtStart(a) ==
  /\ streaming <=> a.turn # 0
  /\ \A q \in ended : q <= a.seen /\ q # a.turn
  /\ \A i \in DOMAIN transcript : transcript[i].role = "brain" =>
       transcript[i].of <= a.seen /\ (transcript[i].of = a.turn => i = Len(transcript))
  /\ streaming =>
       /\ transcript # <<>> /\ Latest.role = "brain" /\ Latest.of = a.turn /\ Latest.body = <<>>
       /\ Len(text) = a.len /\ \A i \in DOMAIN text : text[i] = a.turn

(* The server at position b: its task streams that turn, or has a later    *)
(* one to begin; the requests u on their way are for turns later still.    *)
AtEnd(b, u, s, g) ==
  /\ s.pc = "stream" => b.turn = s.of /\ b.len = g[s.of]["delta"]
  /\ s.pc # "stream" => b.turn = 0
  /\ s.pc = "start" => b.seen < s.of
  /\ \A i \in DOMAIN u : u[i].type = "turn_start" =>
       u[i].of > b.seen /\ (s.pc = "start" => u[i].of > s.of)
  /\ \A q \in Questions : q > b.seen => g[q]["delta"] = 0

Way(n, p) ==
  /\ Path(down[current], n, p, pieces) /\ p[n].seen <= Asked
  /\ AtStart(p[0]) /\ AtEnd(p[n], up[current], serving[current], pieces)
Underway == \E n, p : Way(n, p)

(* After a loss in the middle of an answer the composer stays locked and   *)
(* nothing is said any more.                                               *)
Refusals == {f \in GoodFrames : f.type = "invalid"}
CancelsOnly == {r \in GoodRequests : r.type = "cancel_turn"}
Cut ==
  /\ streaming /\ serving[current] = Idle
  /\ down[current] \in Seq(Refusals) /\ up[current] \in Seq(CancelsOnly)

TrueInv == ~late => Told /\ (current # 0 => IF broken THEN Cut ELSE Underway)

LEMMA ToldKept ==
  ASSUME Told, UNCHANGED <<visits, transcript, askedIn, pieces, ended>>
  PROVE  Told'
BY DEF Told, TrueMessages, SaysItsOwn, Asked

LEMMA StartKept ==
  ASSUME NEW a, AtStart(a), UNCHANGED <<transcript, streaming, text, ended>>
  PROVE  AtStart(a)'
BY DEF AtStart, Latest

LEMMA TrueStill ==
  ASSUME TrueInv, late' = late, UNCHANGED <<visits, current, wire, serving, store, askedIn, pieces, ended, broken>>
  PROVE  TrueInv'
<1> SUFFICES ASSUME ~late  PROVE Told' /\ (current' # 0 => IF broken' THEN Cut' ELSE Underway')
  BY DEF TrueInv
<1>1. Told /\ (current # 0 => IF broken THEN Cut ELSE Underway)  BY DEF TrueInv
<1>2. Told'  BY <1>1, ToldKept
<1>3. Cut => Cut'  BY DEF Cut
<1>4. ASSUME NEW n, NEW p, Way(n, p)  PROVE Way(n, p)'
  <2>1. AtStart(p[0])'  BY <1>4, StartKept DEF Way
  <2> QED  BY <1>4, <2>1 DEF Way, Asked
<1>5. Underway => Underway'  BY <1>4 DEF Underway
<1> QED  BY <1>1, <1>2, <1>3, <1>5

(* The server takes or sends a frame: the tab does not move.               *)
LEMMA WayMove ==
  ASSUME TypesInv, NEW v \in Visits, v = current, NEW n, NEW p, Way(n, p),
         UNCHANGED <<current, store, askedIn, ended>>,
         NEW d, NEW u, NEW t, down' = [down EXCEPT ![v] = d], up' = [up EXCEPT ![v] = u],
         serving' = [serving EXCEPT ![v] = t],
         NEW m, NEW r, Path(d, m, r, pieces'), r[0] = p[0], r[m].seen <= Asked,
         AtEnd(r[m], u, t, pieces')
  PROVE  Underway'
<1>1. down'[current'] = d /\ up'[current'] = u /\ serving'[current'] = t
  BY DEF TypesInv, WireOK
<1>2. AtStart(p[0])'  BY StartKept DEF Way
<1>3. AtStart(r[0])'
  <2> DEFINE a == p[0]
  <2>1. r[0] = a /\ AtStart(a)'  BY <1>2
  <2> QED  BY <2>1
<1>4. r[m].seen <= Asked'  BY DEF Asked
<1>5. Way(m, r)'  BY <1>1, <1>3, <1>4 DEF Way
<1> QED  BY <1>5 DEF Underway

(* A frame of the server, by the position it leads to.                     *)
LEMMA WaySend ==
  ASSUME TypesInv, NEW v \in Visits, v = current, NEW n, NEW p, Way(n, p),
         UNCHANGED <<current, store, askedIn, ended, pieces>>,
         NEW f \in GoodFrames, NEW u, NEW t, NEW b \in Position,
         down' = [down EXCEPT ![v] = Append(down[v], f)], up' = [up EXCEPT ![v] = u],
         serving' = [serving EXCEPT ![v] = t],
         Leads(p[n], f, b), f.type = "turn_end" => p[n].len = pieces[f.of]["delta"],
         b.seen <= Asked, AtEnd(b, u, t, pieces)
  PROVE  Underway'
<1>1. down[v] \in Seq(GoodFrames)  BY DEF TypesInv, WireOK
<1>2. Path(down[v], n, p, pieces)  BY DEF Way
<1>3. PICK m, r : Path(Append(down[v], f), m, r, pieces) /\ r[0] = p[0] /\ r[m] = b
  BY <1>1, <1>2, PathGrows
<1> DEFINE d == Append(down[v], f)
<1>4. down' = [down EXCEPT ![v] = d] /\ Path(d, m, r, pieces')  BY <1>3
<1>5. AtEnd(r[m], u, t, pieces') /\ r[m].seen <= Asked  BY <1>3
<1> HIDE DEF d
<1> QED  BY <1>3, <1>4, <1>5, WayMove

LEMMA WayPositions ==
  ASSUME NEW n, NEW p, Way(n, p)
  PROVE  p[n] \in Position /\ p[0] \in Position /\ n \in Nat /\ Passes(p[0], p[n])
<1>1. n \in Nat /\ p \in [0 .. n -> Position]  BY DEF Way, Path
<1>2. n \in 0 .. n /\ 0 \in 0 .. n /\ 0 <= n  BY <1>1
<1> QED  BY <1>1, <1>2 DEF Way, Path

LEMMA WayTake ==
  ASSUME TypesInv, Tags, NEW v \in Visits, v = current, NEW n, NEW p, Way(n, p),
         TakeTurnStart(v) \/ TakeCancel(v), ~late'
  PROVE  Underway'
<1> DEFINE u == up[v]
           s == serving[v]
           b == p[n]
           invalid == [type |-> "invalid", of |-> 0]
<1>1. /\ u # <<>> /\ up' = [up EXCEPT ![v] = Tail(u)]
      /\ UNCHANGED <<current, store, askedIn, ended, pieces>>
  BY DEF TakeTurnStart, TakeCancel, Waiting, Taken, ServerKeeps
<1>2. WireOK /\ Tagged(v)  BY DEF TypesInv, Tags
<1>3. u \in Seq(GoodRequests) /\ InOrder(u) /\ s \in GoodTasks  BY <1>2 DEF Tagged, WireOK
<1>4. b \in Position /\ AtEnd(b, u, s, pieces) /\ b.seen <= Asked /\ Path(down[v], n, p, pieces)
  BY WayPositions DEF Way
<1>5. \A i \in DOMAIN Tail(u) :
        i + 1 \in DOMAIN u /\ Tail(u)[i] = u[i + 1]
        /\ (Head(u).type = "turn_start" /\ Tail(u)[i].type = "turn_start" => Head(u).of < Tail(u)[i].of)
  BY <1>1, <1>3, OrderRest
<1>6. AtEnd(b, Tail(u), s, pieces)  BY <1>4, <1>5 DEF AtEnd
<1>7. invalid \in GoodFrames /\ Leads(b, invalid, b) /\ invalid.type # "turn_end"
  BY BoundsAssumption DEF GoodFrames, Frames, Leads
<1>8. CASE down' = [down EXCEPT ![v] = Append(down[v], invalid)] /\ UNCHANGED serving
  <2>1. serving' = [serving EXCEPT ![v] = s]  BY <1>2, <1>8 DEF WireOK
  <2> DEFINE w == Tail(u)
  <2>2. up' = [up EXCEPT ![v] = w] /\ AtEnd(b, w, s, pieces)  BY <1>1, <1>6
  <2> HIDE DEF invalid, w, s
  <2> QED  BY <1>1, <1>4, <1>7, <1>8, <2>1, <2>2, WaySend
<1>9. CASE TakeTurnStart(v) /\ s = Idle
  <2> DEFINE t == [pc |-> "start", of |-> Head(u).of]
             w == Tail(u)
             d == down[v]
  <2>1. serving' = [serving EXCEPT ![v] = t] /\ UNCHANGED down /\ Head(u).type = "turn_start"
    BY <1>9 DEF TakeTurnStart, Task, Waiting
  <2>2. down' = [down EXCEPT ![v] = d]  BY <1>2, <2>1 DEF WireOK
  <2>3. 1 \in DOMAIN u /\ u[1] = Head(u)  BY <1>1, <1>3, EmptySeq, LenProperties
  <2>4. b.seen < Head(u).of
    <3>1. Head(u) \in GoodRequests  BY <1>1, <1>3, HeadTailProperties
    <3>2. Head(u).of \in Nat /\ b.seen \in Nat  BY <1>4, <3>1, BoundsAssumption DEF GoodRequests, Requests, Position
    <3> QED  BY <1>4, <2>1, <2>3, <3>2 DEF AtEnd
  <2>5. \A i \in DOMAIN w : w[i].type = "turn_start" => w[i].of > b.seen /\ w[i].of > t.of
    <3> SUFFICES ASSUME NEW i \in DOMAIN w, w[i].type = "turn_start"
                 PROVE  w[i].of > b.seen /\ w[i].of > t.of
      OBVIOUS
    <3>1. Head(u).of < w[i].of  BY <1>5, <2>1
    <3>2. w \in Seq(GoodRequests)  BY <1>1, <1>3, HeadTailProperties
    <3>3. w[i] \in GoodRequests /\ Head(u) \in GoodRequests
      BY <1>1, <1>3, <3>2, ElementOfSeq, HeadTailProperties
    <3>4. w[i].of \in Nat /\ Head(u).of \in Nat /\ b.seen \in Nat
      BY <1>4, <3>3, BoundsAssumption DEF GoodRequests, Requests, Position
    <3> QED  BY <2>4, <3>1, <3>4
  <2>6. AtEnd(b, w, t, pieces)
    <3>1. t.pc = "start" /\ t.of = Head(u).of /\ b.turn = 0
      BY <1>4, <1>9 DEF AtEnd, Idle
    <3>2. \A q \in Questions : q > b.seen => pieces[q]["delta"] = 0  BY <1>4 DEF AtEnd
    <3> HIDE DEF t, w, b
    <3> QED  BY <2>4, <2>5, <3>1, <3>2 DEF AtEnd
  <2>7. up' = [up EXCEPT ![v] = w] /\ AtEnd(p[n], w, t, pieces') /\ Path(d, n, p, pieces')
        /\ p[n].seen <= Asked /\ p[0] = p[0]
    BY <1>1, <1>4, <2>6
  <2>8. UNCHANGED <<current, store, askedIn, ended>>  BY <1>1
  <2> HIDE DEF t, w, d
  <2> QED  BY <2>1, <2>2, <2>7, <2>8, WayMove
<1>10. CASE TakeCancel(v) /\ s # Idle
  <2> DEFINE f == [type |-> "cancelled", of |-> s.of]
             w == Tail(u)
             c == [turn |-> 0, seen |-> b.seen, len |-> 0]
  <2>1. down' = [down EXCEPT ![v] = Append(down[v], f)] /\ serving' = [serving EXCEPT ![v] = Idle]
        /\ s.pc = "stream"
    BY <1>10 DEF TakeCancel, Send, Task, Idle
  <2>2. s.of \in Questions /\ b.turn = s.of  BY <1>2, <1>4, <2>1, ServingOK DEF AtEnd
  <2>3. f \in GoodFrames /\ f.type # "turn_end"  BY <2>2, Numbers DEF GoodFrames, Frames
  <2>4. c \in Position /\ Leads(b, f, c) /\ c.seen = b.seen /\ c.turn = 0
    BY <1>4, <2>2 DEF Position, Leads, EndTypes
  <2>5. AtEnd(c, w, Idle, pieces)
    <3> HIDE DEF c
    <3>1. AtEnd(b, w, s, pieces)  BY <1>6
    <3> HIDE DEF b, s, w
    <3> QED  BY <2>4, <3>1 DEF AtEnd, Idle
  <2>6. up' = [up EXCEPT ![v] = w] /\ c.seen <= Asked  BY <1>1, <1>4, <2>4
  <2> HIDE DEF f, w, c
  <2> QED  BY <1>1, <2>1, <2>3, <2>4, <2>5, <2>6, WaySend
<1>11. (TakeTurnStart(v) /\ s = Idle) \/ (TakeCancel(v) /\ s # Idle)
       \/ (down' = [down EXCEPT ![v] = Append(down[v], invalid)] /\ UNCHANGED serving)
  BY DEF TakeTurnStart, TakeCancel, Send
<1> QED  BY <1>8, <1>9, <1>10, <1>11

LEMMA WayTurn ==
  ASSUME TypesInv, Tags, NEW v \in Visits, v = current, NEW n, NEW p, Way(n, p),
         BeginTurn(v) \/ EndTurn(v) \/ TaskDone(v)
  PROVE  Underway'
<1> DEFINE u == up[v]
           s == serving[v]
           b == p[n]
<1>1. UNCHANGED <<current, store, askedIn, ended, pieces, up>> /\ s.pc # "idle"
  BY DEF BeginTurn, EndTurn, TaskDone, ServerKeeps
<1>2. WireOK /\ Tagged(v)  BY DEF TypesInv, Tags
<1>3. s \in GoodTasks /\ s.of \in Questions /\ s.of \in 1 .. Asked /\ up' = [up EXCEPT ![v] = u]
      /\ s.of \in Nat /\ s.of # 0
  BY <1>1, <1>2, ServingOK, Numbers DEF Tagged, WireOK, Own, Questions
<1>4. b \in Position /\ AtEnd(b, u, s, pieces) /\ b.seen <= Asked /\ Path(down[v], n, p, pieces)
  BY WayPositions DEF Way
<1>5. Asked \in Nat  BY <1>2, LenProperties DEF WireOK, Asked
<1>6. CASE BeginTurn(v)
  <2> DEFINE f == [type |-> "turn_start", of |-> s.of]
             t == [pc |-> "stream", of |-> s.of]
             c == [turn |-> s.of, seen |-> s.of, len |-> 0]
  <2>1. down' = [down EXCEPT ![v] = Append(down[v], f)] /\ serving' = [serving EXCEPT ![v] = t]
        /\ s.pc = "start"
    BY <1>6 DEF BeginTurn, Send, Task
  <2>2. f \in GoodFrames /\ f.type # "turn_end"  BY <1>3, Numbers DEF GoodFrames, Frames
  <2>3. c \in Position /\ c.seen <= Asked  BY <1>3, <1>5 DEF Position
  <2>4. b.seen < s.of /\ b.turn = 0 /\ b.seen \in Nat  BY <1>4, <2>1 DEF AtEnd, Position
  <2>5. Leads(b, f, c)  BY <1>3, <2>4 DEF Leads
  <2>6. AtEnd(c, u, t, pieces)
    <3>1. c.turn = s.of /\ c.seen = s.of /\ c.len = 0 /\ t.pc = "stream" /\ t.of = s.of  OBVIOUS
    <3>2. pieces[s.of]["delta"] = 0  BY <1>3, <1>4, <2>4 DEF AtEnd
    <3>3. \A i \in DOMAIN u : u[i].type = "turn_start" => u[i].of > s.of  BY <1>4, <2>1 DEF AtEnd
    <3>4. \A q \in Questions : q > s.of => pieces[q]["delta"] = 0
      <4>1. \A q \in Questions : q > s.of => q > b.seen  BY <1>3, <2>4, Numbers
      <4> QED  BY <1>4, <4>1 DEF AtEnd
    <3> HIDE DEF c, t, u, b, s
    <3> QED  BY <3>1, <3>2, <3>3, <3>4 DEF AtEnd
  <2> HIDE DEF f, t, c, u
  <2> QED  BY <1>1, <1>3, <2>1, <2>2, <2>3, <2>5, <2>6, WaySend
<1>7. CASE EndTurn(v)
  <2>1. PICK type \in {"turn_end", "error"} :
          down' = [down EXCEPT ![v] = Append(down[v], [type |-> type, of |-> s.of])]
    BY <1>7 DEF EndTurn, Send
  <2> DEFINE f == [type |-> type, of |-> s.of]
             t == [pc |-> "ended", of |-> s.of]
             c == [turn |-> 0, seen |-> b.seen, len |-> 0]
  <2>2. down' = [down EXCEPT ![v] = Append(down[v], f)] /\ serving' = [serving EXCEPT ![v] = t]
        /\ s.pc = "stream"
    BY <1>7, <2>1 DEF EndTurn, Task
  <2>3. f \in GoodFrames  BY <1>3, Numbers DEF GoodFrames, Frames
  <2>4. b.turn = s.of /\ b.len = pieces[s.of]["delta"]  BY <1>4, <2>2 DEF AtEnd
  <2>5. c \in Position /\ c.seen = b.seen /\ c.turn = 0 /\ c.seen <= Asked  BY <1>4 DEF Position
  <2>6. Leads(b, f, c) /\ (f.type = "turn_end" => b.len = pieces[f.of]["delta"])
    BY <2>4 DEF Leads, EndTypes
  <2>7. AtEnd(c, u, t, pieces)
    <3>1. t.pc = "ended"  OBVIOUS
    <3> HIDE DEF c, t, u, b, s
    <3> QED  BY <1>4, <2>5, <3>1 DEF AtEnd
  <2> HIDE DEF f, t, c, u
  <2> QED  BY <1>1, <1>3, <2>2, <2>3, <2>5, <2>6, <2>7, WaySend
<1>8. CASE TaskDone(v)
  <2> DEFINE d == down[v]
  <2>1. down' = [down EXCEPT ![v] = d] /\ serving' = [serving EXCEPT ![v] = Idle] /\ s.pc = "ended"
    BY <1>2, <1>8 DEF TaskDone, Task, Idle, WireOK
  <2>2. AtEnd(b, u, Idle, pieces)
    <3> HIDE DEF u, b, s
    <3> QED  BY <1>4, <2>1 DEF AtEnd, Idle
  <2>3. Path(d, n, p, pieces') /\ AtEnd(p[n], u, Idle, pieces') /\ p[n].seen <= Asked /\ p[0] = p[0]
    BY <1>1, <1>4, <2>2
  <2> HIDE DEF d, u
  <2> QED  BY <1>1, <1>3, <2>1, <2>3, WayMove
<1> QED  BY <1>6, <1>7, <1>8

(* A piece: the delta is counted for the turn that streams, whose end is   *)
(* neither delivered nor under way.                                        *)
LEMMA WayPiece ==
  ASSUME TypesInv, Tags, Told, NEW v \in Visits, v = current, NEW n, NEW p, Way(n, p), StreamPiece(v)
  PROVE  Underway' /\ Told'
<1> DEFINE u == up[v]
           s == serving[v]
           b == p[n]
           q == s.of
<1>1. UNCHANGED <<visits, current, store, askedIn, ended, up, serving>> /\ s.pc = "stream"
  BY DEF StreamPiece, ServerKeeps
<1>2. PICK type \in {"delta", "patch"} :
        /\ down' = [down EXCEPT ![v] = Append(down[v], [type |-> type, of |-> q])]
        /\ pieces' = [pieces EXCEPT ![q][type] = @ + 1]
  BY DEF StreamPiece, Send
<1>3. WireOK /\ q \in Questions /\ down[v] \in Seq(GoodFrames) /\ q # 0
      /\ up' = [up EXCEPT ![v] = u] /\ serving' = [serving EXCEPT ![v] = s]
  BY <1>1, ServingOK, Numbers DEF TypesInv, WireOK, Questions
<1>4. /\ b \in Position /\ p[0] \in Position /\ Passes(p[0], b)
      /\ AtEnd(b, u, s, pieces) /\ b.seen <= Asked /\ Path(down[v], n, p, pieces)
  BY WayPositions DEF Way
<1>5. b.turn = q /\ b.seen = q /\ b.len = pieces[q]["delta"]
  BY <1>1, <1>3, <1>4 DEF AtEnd, Position
<1>6. /\ \A k \in Questions \ {q} : pieces'[k] = pieces[k]
      /\ pieces'[q]["delta"] = IF type = "delta" THEN pieces[q]["delta"] + 1 ELSE pieces[q]["delta"]
      /\ pieces[q]["delta"] \in Nat
  <2>1. pieces[q] \in [{"delta", "patch"} -> 0 .. MaxPieces]  BY <1>3 DEF WireOK
  <2>2. pieces'[q] = [pieces[q] EXCEPT ![type] = @ + 1] /\ \A k \in Questions \ {q} : pieces'[k] = pieces[k]
    BY <1>2, <1>3 DEF WireOK
  <2> QED  BY <2>1, <2>2, BoundsAssumption
<1>7. Path(down[v], n, p, pieces')
  <2>1. \A k \in Questions \ {p[n].turn} : pieces'[k]["delta"] = pieces[k]["delta"]  BY <1>5, <1>6
  <2> QED  BY <1>3, <1>4, <1>5, <2>1, PathRecounts
<1> DEFINE f == [type |-> type, of |-> q]
           c == [turn |-> q, seen |-> q, len |-> pieces'[q]["delta"]]
<1>8. f \in GoodFrames /\ f.type # "turn_end"  BY <1>3, Numbers DEF GoodFrames, Frames
<1>9. c \in Position /\ c.seen <= Asked
  BY <1>3, <1>4, <1>5, <1>6, Numbers DEF Position
<1>10. Leads(b, f, c)
  <2>1. CASE type = "delta"
    BY <1>4, <1>5, <1>6, <2>1 DEF Leads, Position
  <2>2. CASE type = "patch"
    <3>1. b = c  BY <1>4, <1>5, <1>6, <2>2 DEF Position
    <3> QED  BY <1>5, <2>2, <3>1 DEF Leads
  <2> QED  BY <2>1, <2>2
<1>11. AtEnd(c, u, s, pieces')
  <2>1. c.turn = q /\ c.seen = q /\ c.len = pieces'[q]["delta"]  OBVIOUS
  <2>2. \A k \in Questions : k > q => pieces'[k]["delta"] = 0
    <3>1. \A k \in Questions : k > q => k # q  BY <1>3, Numbers
    <3> QED  BY <1>4, <1>5, <1>6, <3>1 DEF AtEnd
  <2>3. \A i \in DOMAIN u : u[i].type = "turn_start" => u[i].of > q  BY <1>4, <1>5 DEF AtEnd
  <2> HIDE DEF c, u
  <2> QED  BY <1>1, <2>1, <2>2, <2>3 DEF AtEnd
<1>12. PICK m, r : Path(Append(down[v], f), m, r, pieces') /\ r[0] = p[0] /\ r[m] = c
  <2> HIDE DEF f, c
  <2> QED  BY <1>3, <1>7, <1>8, <1>9, <1>10, PathGrows
<1>13. Underway'
  <2> DEFINE d == Append(down[v], f)
  <2>1. down' = [down EXCEPT ![v] = d]  BY <1>2
  <2>2. /\ Path(d, m, r, pieces') /\ r[m].seen <= Asked /\ AtEnd(r[m], u, s, pieces')
        /\ r[0] = p[0]
    BY <1>9, <1>11, <1>12
  <2>3. /\ up' = [up EXCEPT ![v] = u] /\ serving' = [serving EXCEPT ![v] = s]
        /\ UNCHANGED <<current, store, askedIn, ended>>
    BY <1>1, <1>3
  <2> HIDE DEF d, u, s
  <2> QED  BY <2>1, <2>2, <2>3, WayMove
<1>14. q \notin ended
  <2>1. q \in ended => q <= p[0].seen /\ q # p[0].turn  BY DEF Way, AtStart
  <2> QED  BY <1>3, <1>4, <1>5, <2>1, Numbers DEF Passes, Position
<1>15. Told'
  <2>1. ended \subseteq Questions  BY <1>3 DEF WireOK
  <2>2. \A k \in ended : pieces'[k]["delta"] = pieces[k]["delta"]  BY <1>6, <1>14, <2>1
  <2> QED  BY <1>1, <2>2 DEF Told, TrueMessages, SaysItsOwn, Asked
<1> QED  BY <1>13, <1>15

LEMMA TrueServer ==
  ASSUME TypesInv, Tags, TrueInv, NEW v \in Visits,
         \/ TakeTurnStart(v) \/ TakeCancel(v) \/ TaskDone(v)
         \/ BeginTurn(v) \/ StreamPiece(v) \/ EndTurn(v)
  PROVE  TrueInv'
<1> SUFFICES ASSUME ~late'  PROVE Told' /\ (current' # 0 => IF broken' THEN Cut' ELSE Underway')
  BY DEF TrueInv
<1>1. ~late /\ UNCHANGED <<visits, current, store, askedIn, ended, broken>>
  <2>1. UNCHANGED <<visits, current, store, askedIn, ended, broken>>
    BY DEF TakeTurnStart, TakeCancel, TaskDone, BeginTurn, StreamPiece, EndTurn, ServerKeeps
  <2>2. CASE TakeTurnStart(v) \/ TaskDone(v) \/ BeginTurn(v) \/ StreamPiece(v) \/ EndTurn(v)
    <3>1. late' = late
      BY <2>2 DEF TakeTurnStart, TaskDone, BeginTurn, StreamPiece, EndTurn
    <3> QED  BY <2>1, <3>1
  <2>3. CASE TakeCancel(v)
    <3>1. late' = late \/ late' = (late \/ serving[v].pc # "stream")  BY <2>3 DEF TakeCancel
    <3>2. ~late  BY <3>1, Zenon
    <3> QED  BY <2>1, <3>2
  <2> QED  BY <2>2, <2>3
<1>2. v = current /\ current # 0  BY TagsServer, Numbers
<1>3. Told /\ IF broken THEN Cut ELSE Underway  BY <1>1, <1>2 DEF TrueInv
<1>4. CASE broken
  <2>1. Cut  BY <1>3, <1>4
  <2>2. serving[v] = Idle /\ down[v] \in Seq(Refusals) /\ up[v] \in Seq(CancelsOnly) /\ streaming
    BY <1>2, <2>1 DEF Cut
  <2>3. TakeCancel(v)
    <3>1. Waiting(v, "turn_start") => FALSE
      <4>1. up[v] # <<>> => Head(up[v]) \in CancelsOnly  BY <2>2, HeadTailProperties
      <4> QED  BY <4>1 DEF Waiting, CancelsOnly
    <3> QED  BY <2>2, <3>1 DEF TakeTurnStart, TaskDone, BeginTurn, StreamPiece, EndTurn, Idle
  <2>4. /\ up' = [up EXCEPT ![v] = Tail(@)] /\ up[v] # <<>> /\ UNCHANGED <<serving, pieces>>
        /\ down' = [down EXCEPT ![v] = Append(@, [type |-> "invalid", of |-> 0])]
    BY <2>2, <2>3 DEF TakeCancel, Waiting, Taken, Send
  <2>5. Tail(up[v]) \in Seq(CancelsOnly)  BY <2>2, <2>4, HeadTailProperties
  <2>6. [type |-> "invalid", of |-> 0] \in Refusals
    BY BoundsAssumption DEF Refusals, GoodFrames, Frames
  <2>7. Append(down[v], [type |-> "invalid", of |-> 0]) \in Seq(Refusals)
    BY <2>2, <2>6, AppendProperties
  <2>8. up'[v] = Tail(up[v]) /\ down'[v] = Append(down[v], [type |-> "invalid", of |-> 0])
    BY <2>4 DEF TypesInv, WireOK
  <2>9. Cut'  BY <1>1, <1>2, <2>2, <2>4, <2>5, <2>7, <2>8 DEF Cut
  <2>10. Told'  BY <1>1, <1>3, <2>4, ToldKept
  <2> QED  BY <1>1, <1>4, <2>9, <2>10
<1>5. CASE ~broken
  <2>1. PICK n, p : Way(n, p)  BY <1>3, <1>5 DEF Underway
  <2>2. CASE TakeTurnStart(v) \/ TakeCancel(v)
    <3>1. UNCHANGED pieces  BY <2>2 DEF TakeTurnStart, TakeCancel
    <3>2. Told'  BY <1>1, <1>3, <3>1, ToldKept
    <3>3. Underway'  BY <1>2, <2>1, <2>2, WayTake
    <3> QED  BY <1>1, <1>5, <3>2, <3>3
  <2>3. CASE BeginTurn(v) \/ EndTurn(v) \/ TaskDone(v)
    <3>1. UNCHANGED pieces  BY <2>3 DEF BeginTurn, EndTurn, TaskDone
    <3>2. Told'  BY <1>1, <1>3, <3>1, ToldKept
    <3>3. Underway'  BY <1>2, <2>1, <2>3, WayTurn
    <3> QED  BY <1>1, <1>5, <3>2, <3>3
  <2>4. CASE StreamPiece(v)
    <3>1. Underway' /\ Told'  BY <1>2, <1>3, <2>1, <2>4, WayPiece
    <3> QED  BY <1>1, <1>5, <3>1
  <2> QED  BY <2>2, <2>3, <2>4
<1>6. broken \in BOOLEAN  BY DEF TypesInv, TabOK
<1> QED  BY <1>4, <1>5, <1>6

(* The screen changes, the connection is lost, a question is sent.         *)

(* An idle server and a tab that streams nothing: the position of both is  *)
(* the end of the last question asked.                                     *)
LEMMA WayAnew ==
  ASSUME NEW n \in Nat, n = Asked', Past', ~streaming',
         down'[current'] = <<>>, up'[current'] = <<>>, serving'[current'] = Idle,
         \A i \in DOMAIN transcript' : transcript'[i].of \in 1 .. n
  PROVE  Underway'
<1> DEFINE a == [turn |-> 0, seen |-> n, len |-> 0]
           p == [i \in 0 .. 0 |-> a]
<1>1. a \in Position /\ a.turn = 0 /\ a.seen = n  BY DEF Position
<1>2. p[0] = a  OBVIOUS
<1>3. Path(<<>>, 0, p, pieces')
  <2> HIDE DEF a
  <2> QED  BY <1>1, PathStarts
<1> HIDE DEF p, a
<1>4. AtStart(a)'
  <2>1. \A q \in ended' : q <= a.seen /\ q # a.turn  BY <1>1 DEF Past
  <2>2. \A i \in DOMAIN transcript' : transcript'[i].of <= a.seen /\ transcript'[i].of # a.turn
    BY <1>1
  <2> QED  BY <1>1, <2>1, <2>2 DEF AtStart
<1>5. AtEnd(a, <<>>, Idle, pieces')
  <2>1. \A q \in Questions : q > a.seen => pieces'[q]["delta"] = 0  BY <1>1 DEF Past
  <2> QED  BY <1>1, <2>1 DEF AtEnd, Idle
<1>6. AtStart(p[0])' /\ AtEnd(p[0], <<>>, Idle, pieces') /\ p[0].seen <= Asked'
  BY <1>1, <1>2, <1>4, <1>5
<1>7. Way(0, p)'  BY <1>3, <1>6 DEF Way
<1> QED  BY <1>7 DEF Underway

LEMMA TrueVisit ==
  ASSUME TypesInv, Tags, Tags', Visit
  PROVE  TrueInv'
<1>1. /\ current' \in {0, visits + 1} /\ transcript' = <<>> /\ streaming' = FALSE /\ broken' = FALSE
      /\ UNCHANGED askedIn
  BY DEF Visit, Point
<1>2. Told'  BY <1>1 DEF Told
<1>3. ASSUME current' # 0  PROVE Underway'
  <2>1. current' = visits + 1 /\ current' # current /\ current' \in Visits
    BY <1>1, <1>3, BoundsAssumption DEF TypesInv, TabOK, Visit, Visits
  <2>2. PICK v \in Visits : v = current'  BY <2>1
  <2>3. up[v] = <<>> /\ down[v] = <<>> /\ serving[v] = Idle
    BY <2>1, <2>2 DEF Tags, Tagged
  <2>4. up'[v] = <<>> /\ down'[v] = <<>> /\ serving'[v] = Idle
    BY <2>1, <2>2, <2>3 DEF Visit
  <2>5. Asked' \in Nat  BY <1>1, LenProperties DEF TypesInv, WireOK, Asked
  <2>6. PICK n \in Nat : n = Asked'  BY <2>5
  <2>7. Past'  BY DEF Tags
  <2> QED  BY <1>1, <2>2, <2>4, <2>6, <2>7, WayAnew
<1> QED  BY <1>1, <1>2, <1>3 DEF TrueInv

LEMMA TrueDrop ==
  ASSUME TypesInv, OneSocket, Tags', TrueInv, NEW v \in Visits, Drop(v)
  PROVE  TrueInv'
<1> SUFFICES ASSUME ~late'  PROVE Told' /\ (current' # 0 => IF broken' THEN Cut' ELSE Underway')
  BY DEF TrueInv
<1>1. /\ socket[v].native \in {"connecting", "open"}
      /\ up' = [up EXCEPT ![v] = <<>>] /\ down' = [down EXCEPT ![v] = <<>>]
      /\ serving' = [serving EXCEPT ![v] = Idle]
      /\ broken' = (broken \/ (v = current /\ streaming))
      /\ UNCHANGED <<visits, current, store, askedIn, pieces, ended, late>>
  BY DEF Drop
<1>2. v = current /\ current # 0  BY <1>1, Numbers DEF OneSocket
<1>3. Told /\ IF broken THEN Cut ELSE Underway  BY <1>1, <1>2 DEF TrueInv
<1>4. Told'  BY <1>1, <1>3, ToldKept
<1>5. up'[v] = <<>> /\ down'[v] = <<>> /\ serving'[v] = Idle
  BY <1>1 DEF TypesInv, WireOK
<1>6. streaming \in BOOLEAN /\ broken \in BOOLEAN /\ (broken => streaming)
  BY <1>3 DEF TypesInv, StoreOK, TabOK, Cut
<1>7. CASE streaming
  <2>1. broken'  BY <1>1, <1>2, <1>7
  <2>2. /\ streaming' /\ serving'[current'] = Idle
        /\ down'[current'] = <<>> /\ up'[current'] = <<>>
    BY <1>1, <1>2, <1>5, <1>7
  <2>3. Cut'  BY <2>2 DEF Cut
  <2> QED  BY <1>4, <2>1, <2>3
<1>8. CASE ~streaming
  <2>1. ~broken' /\ ~streaming'  BY <1>1, <1>6, <1>8
  <2>2. Asked' \in Nat /\ Asked' = Asked  BY <1>1, LenProperties DEF TypesInv, WireOK, Asked
  <2>3. PICK n \in Nat : n = Asked'  BY <2>2
  <2>4. \A i \in DOMAIN transcript' : transcript'[i].of \in 1 .. n
    <3> SUFFICES ASSUME NEW i \in DOMAIN transcript  PROVE transcript[i].of \in 1 .. n
      BY <1>1
    <3>1. transcript[i] \in TrueMessages  BY <1>3, ElementOfSeq DEF Told
    <3> QED  BY <2>2, <2>3, <3>1 DEF TrueMessages
  <2>5. Past'  BY DEF Tags
  <2>6. Underway'  BY <1>1, <1>2, <1>5, <2>1, <2>3, <2>4, <2>5, WayAnew
  <2> QED  BY <1>4, <2>1, <2>6
<1> QED  BY <1>7, <1>8

LEMMA EndAsked ==
  ASSUME NEW b, NEW u \in Seq(GoodRequests), NEW s, NEW g, AtEnd(b, u, s, g), NEW r \in GoodRequests,
         r.type = "turn_start" => r.of > b.seen /\ (s.pc = "start" => r.of > s.of)
  PROVE  AtEnd(b, Append(u, r), s, g)
<1> DEFINE e == Append(u, r)
<1>1. /\ Len(u) \in Nat /\ DOMAIN u = 1 .. Len(u) /\ DOMAIN e = 1 .. Len(u) + 1
      /\ e[Len(u) + 1] = r /\ \A i \in 1 .. Len(u) : e[i] = u[i]
  BY AppendProperties, LenProperties
<1> HIDE DEF e
<1>2. \A i \in DOMAIN e : (i \in DOMAIN u /\ e[i] = u[i]) \/ e[i] = r  BY <1>1
<1>3. AtEnd(b, e, s, g)  BY <1>2 DEF AtEnd
<1> QED  BY <1>3 DEF e

LEMMA TrueSend ==
  ASSUME TypesInv, Tags, TrueInv, SendTurnStart
  PROVE  TrueInv'
<1> SUFFICES ASSUME ~late'  PROVE Told' /\ (current' # 0 => IF broken' THEN Cut' ELSE Underway')
  BY DEF TrueInv
<1> PICK k : k = Asked + 1
  OBVIOUS
<1> DEFINE r == [type |-> "turn_start", of |-> k]
           m == [role |-> "user", of |-> k, body |-> <<k>>, patches |-> {}, live |-> FALSE]
<1>1. /\ UNCHANGED <<visits, current, down, serving, streaming, text, pieces, ended, broken, late>>
      /\ askedIn' = Append(askedIn, visits) /\ transcript' = Append(transcript, m)
      /\ up' = IF Connected THEN [up EXCEPT ![current] = Append(@, r)] ELSE up
      /\ Asked < MaxQuestions /\ visits > 0 /\ ~streaming
  BY DEF SendTurnStart, Request, MaySend
<1>2. /\ Asked \in Nat /\ Asked' = Asked + 1 /\ askedIn'[k] = visits
      /\ \A j \in 1 .. Asked : askedIn'[j] = askedIn[j]
  BY <1>1, OwnGrows DEF TypesInv
<1>3. k \in Questions /\ k \in Nat  BY <1>1, <1>2, BoundsAssumption DEF Questions
<1>4. Told /\ (current # 0 => IF broken THEN Cut ELSE Underway)  BY <1>1 DEF TrueInv
<1>5. Told'
  <2>1. k \in 1 .. Asked' /\ \A j \in 1 .. Asked : j \in 1 .. Asked'  BY <1>2
  <2>2. m \in Messages
    <3>1. <<k>> \in Seq(Questions)  BY <1>3
    <3> QED  BY <1>3, <3>1, Numbers DEF Messages
  <2>3. m \in TrueMessages'
    <3>1. m.role = "user" /\ m.of = k /\ m.body = <<k>> /\ m.patches = {}  OBVIOUS
    <3> HIDE DEF m
    <3> QED  BY <1>1, <1>2, <2>1, <2>2, <3>1 DEF TrueMessages, SaysItsOwn
  <2>4. TrueMessages \subseteq TrueMessages'
    BY <1>1, <1>2, <2>1 DEF TrueMessages, SaysItsOwn
  <2>5. transcript \in Seq(TrueMessages')  BY <1>4, <2>4, LargerSeq DEF Told
  <2> HIDE DEF m
  <2> QED  BY <1>1, <2>3, <2>5, AppendProperties DEF Told
<1>6. ASSUME current # 0  PROVE ~broken /\ Underway'
  <2>1. ~broken /\ Underway
    <3>1. broken => FALSE  BY <1>1, <1>4, <1>6 DEF Cut
    <3> QED  BY <1>4, <1>6, <3>1
  <2>2. PICK n, p : Way(n, p)  BY <2>1 DEF Underway
  <2>3. current \in Visits  BY <1>6, BoundsAssumption DEF TypesInv, TabOK, Visits
  <2> DEFINE a == p[0]
             b == p[n]
             u == up[current]
             s == serving[current]
  <2>4. a \in Position /\ b \in Position /\ b.seen <= Asked /\ AtEnd(b, u, s, pieces)
        /\ Path(down[current], n, p, pieces) /\ AtStart(a)
    BY <2>2, WayPositions DEF Way
  <2>5. AtStart(a)'
    <3>1. transcript \in Seq(TrueMessages)  BY <1>4 DEF Told
    <3>2. /\ Len(transcript) \in Nat /\ DOMAIN transcript = 1 .. Len(transcript)
          /\ transcript \in Seq(TrueMessages \cup {m})
      BY <3>1, LenProperties, LargerSeq
    <3>3. /\ DOMAIN transcript' = 1 .. Len(transcript) + 1 /\ transcript'[Len(transcript) + 1] = m
          /\ \A i \in 1 .. Len(transcript) : transcript'[i] = transcript[i]
      BY <1>1, <3>2, AppendProperties, LenProperties
    <3>4. m.role # "brain"  OBVIOUS
    <3>5. \A i \in DOMAIN transcript : transcript[i].of # 0
      <4> SUFFICES ASSUME NEW i \in DOMAIN transcript  PROVE transcript[i].of # 0
        OBVIOUS
      <4>1. transcript[i] \in TrueMessages  BY <3>1, ElementOfSeq
      <4> QED  BY <4>1 DEF TrueMessages
    <3>6. a.turn = 0  BY <1>1, <2>4 DEF AtStart
    <3> HIDE DEF m, a
    <3>7. \A i \in DOMAIN transcript' : transcript'[i].role = "brain" =>
            i \in DOMAIN transcript /\ transcript'[i] = transcript[i]
      BY <3>2, <3>3, <3>4
    <3>8. \A i \in DOMAIN transcript' : transcript'[i].role = "brain" =>
            transcript'[i].of <= a.seen /\ transcript'[i].of # a.turn
      BY <2>4, <3>5, <3>6, <3>7 DEF AtStart
    <3> QED  BY <1>1, <2>4, <3>8 DEF AtStart
  <2>6. AtEnd(b, up'[current'], s, pieces')
    <3>1. CASE Connected
      <4>1. up'[current'] = Append(u, r)  BY <1>1, <2>3, <3>1 DEF TypesInv, WireOK
      <4>2. k > b.seen  BY <1>2, <2>4 DEF Position
      <4>3. s.pc = "start" => k > s.of
        <5>1. Tagged(current)  BY <2>3 DEF Tags
        <5>2. s.pc = "start" => s.of \in 1 .. Asked  BY <5>1 DEF Tagged, Own
        <5> QED  BY <1>2, <5>2
      <4>4. r \in GoodRequests /\ u \in Seq(GoodRequests) /\ r.of = k
        BY <1>3, <2>3, Numbers DEF TypesInv, WireOK, GoodRequests, Requests
      <4> HIDE DEF r, u, s, b
      <4> QED  BY <1>1, <2>4, <4>1, <4>2, <4>3, <4>4, EndAsked
    <3>2. CASE ~Connected
      BY <1>1, <2>4, <3>2
    <3> QED  BY <3>1, <3>2
  <2>7. b.seen <= Asked'  BY <1>2, <2>4 DEF Position
  <2>8. Way(n, p)'  BY <1>1, <2>4, <2>5, <2>6, <2>7 DEF Way
  <2> QED  BY <2>1, <2>8 DEF Underway
<1> QED  BY <1>1, <1>5, <1>6

LEMMA TrueCancel ==
  ASSUME TypesInv, TrueInv, CancelTurn
  PROVE  TrueInv'
<1> DEFINE r == [type |-> "cancel_turn", of |-> 0]
<1>1. /\ UNCHANGED <<visits, current, down, serving, store, ghosts>>
      /\ up' = IF Connected THEN [up EXCEPT ![current] = Append(@, r)] ELSE up
  BY DEF CancelTurn, Request
<1>2. CASE ~Connected
  <2>1. UNCHANGED <<visits, current, wire, serving, store, askedIn, pieces, ended, broken>> /\ late' = late
    BY <1>1, <1>2
  <2> QED  BY <2>1, TrueStill
<1>3. CASE Connected
  <2>1. current \in Visits  BY <1>3, BoundsAssumption DEF Connected, TypesInv, TabOK, Visits
  <2>2. up'[current] = Append(up[current], r) /\ up[current] \in Seq(GoodRequests)
    BY <1>1, <1>3, <2>1 DEF TypesInv, WireOK
  <2>3. r \in GoodRequests /\ r \in CancelsOnly /\ r.type # "turn_start"
    BY BoundsAssumption DEF CancelsOnly, GoodRequests, Requests
  <2> HIDE DEF r
  <2> SUFFICES ASSUME ~late  PROVE Told' /\ (current' # 0 => IF broken' THEN Cut' ELSE Underway')
    BY <1>1 DEF TrueInv
  <2>4. Told /\ (current # 0 => IF broken THEN Cut ELSE Underway)  BY DEF TrueInv
  <2>5. Told'  BY <1>1, <2>4, ToldKept
  <2>6. Cut => Cut'
    <3> SUFFICES ASSUME Cut  PROVE Cut'
      OBVIOUS
    <3>1. Append(up[current], r) \in Seq(CancelsOnly)  BY <2>3, AppendProperties DEF Cut
    <3> QED  BY <1>1, <2>2, <3>1 DEF Cut
  <2>7. ASSUME NEW n, NEW p, Way(n, p)  PROVE Way(n, p)'
    <3>1. AtStart(p[0])'  BY <1>1, <2>7, StartKept DEF Way
    <3>2. AtEnd(p[n], Append(up[current], r), serving[current], pieces)
      BY <2>2, <2>3, <2>7, EndAsked DEF Way
    <3> QED  BY <1>1, <2>2, <2>7, <3>1, <3>2 DEF Way, Asked
  <2>8. Underway => Underway'  BY <2>7 DEF Underway
  <2> QED  BY <1>1, <2>4, <2>5, <2>6, <2>8
<1> QED  BY <1>2, <1>3

(* The reducers, by the frame: each moves the tab one position on.         *)

LEMMA Earlier ==
  ASSUME NEW n \in Nat, NEW i \in 1 .. n - 1
  PROVE  i \in 1 .. n /\ i # n
OBVIOUS

LEMMA LastUpdated ==
  ASSUME transcript \in Seq(Messages), transcript # <<>>, NEW S, NEW m \in S,
         \A i \in 1 .. Len(transcript) - 1 : transcript[i] \in S,
         transcript' = UpdateLast(m)
  PROVE  /\ transcript' \in Seq(S) /\ transcript' # <<>> /\ Latest' = m
         /\ Len(transcript') = Len(transcript) /\ transcript'[Len(transcript)] = m
         /\ \A i \in 1 .. Len(transcript) - 1 : transcript'[i] = transcript[i]
<1> DEFINE L == Len(transcript)
           f == Front(transcript)
<1>1. L \in Nat \ {0}  BY EmptySeq, LenProperties
<1>2. /\ f \in Seq(S) /\ Len(f) = L - 1
      /\ \A i \in 1 .. L - 1 : f[i] = transcript[i]
  <2>1. f = SubSeq(transcript, 1, L - 1) /\ L - 1 \in Int /\ \A i \in 1 .. L - 1 : transcript[i] \in S
    BY <1>1 DEF Front
  <2> HIDE DEF f, L
  <2>2. /\ f \in Seq(S) /\ Len(f) = IF 1 <= L - 1 THEN (L - 1) - 1 + 1 ELSE 0
        /\ \A i \in 1 .. (L - 1) - 1 + 1 : f[i] = transcript[1 + i - 1]
    BY <2>1, SubSeqProperties
  <2>3. \A i \in 1 .. L - 1 : i \in 1 .. (L - 1) - 1 + 1 /\ 1 + i - 1 = i  BY <1>1
  <2>4. \A i \in 1 .. L - 1 : f[i] = transcript[i]  BY <2>2, <2>3
  <2>5. Len(f) = L - 1  BY <1>1, <2>2
  <2> QED  BY <2>2, <2>4, <2>5
<1>3. transcript' = Append(f, m)  BY DEF UpdateLast
<1> HIDE DEF f, L
<1>4. /\ transcript' \in Seq(S) /\ Len(transcript') = (L - 1) + 1 /\ transcript'[(L - 1) + 1] = m
      /\ \A i \in 1 .. L - 1 : transcript'[i] = f[i]
  BY <1>2, <1>3, AppendProperties
<1>5. (L - 1) + 1 = L  BY <1>1
<1>6. transcript' # <<>>  BY <1>1, <1>4, <1>5, EmptySeq
<1>7. Latest' = m  BY <1>4, <1>5 DEF Latest, Last
<1> QED  BY <1>2, <1>4, <1>5, <1>6, <1>7 DEF L

LEMMA TabTurnStart ==
  ASSUME TypesInv, Told, NEW a \in Position, AtStart(a), NEW f \in OwnFrames(visits), NEW b \in Position,
         Leads(a, f, b), f.type = "turn_start", OnEvent(f), UNCHANGED <<visits, askedIn, pieces, ended>>
  PROVE  Told' /\ AtStart(b)'
<1> DEFINE m == [role |-> "brain", of |-> f.of, body |-> <<>>, patches |-> {}, live |-> TRUE]
           L == Len(transcript)
<1>1. OnTurnStart(f.of)  BY DEF OnEvent
<1>2. transcript' = Append(transcript, m) /\ streaming' = TRUE /\ text' = <<>>
  BY <1>1 DEF OnTurnStart
<1>3. /\ a.turn = 0 /\ f.of > a.seen /\ b = [turn |-> f.of, seen |-> f.of, len |-> 0]
  BY DEF Leads, EndTypes
<1>4. f.of \in Questions /\ f.of \in Nat /\ f.of # 0 /\ Own(f.of, visits) /\ a.seen \in Nat
  BY Numbers, BoundsAssumption DEF OwnFrames, GoodFrames, Position, Questions
<1>5. f.of \notin ended  BY <1>3, <1>4 DEF AtStart
<1>6. TrueMessages' = TrueMessages  BY DEF TrueMessages, SaysItsOwn, Asked
<1>7. m \in TrueMessages
  <2>1. m \in Messages  BY <1>4, Numbers DEF Messages
  <2>2. m.of = f.of /\ m.role = "brain" /\ m.body = <<>> /\ m.patches = {}  OBVIOUS
  <2> HIDE DEF m
  <2> QED  BY <1>4, <1>5, <2>1, <2>2 DEF TrueMessages, SaysItsOwn, Own
<1>8. m.role = "brain" /\ m.of = f.of /\ m.body = <<>>  OBVIOUS
<1> HIDE DEF m
<1>9. Told'  BY <1>2, <1>6, <1>7, AppendProperties DEF Told
<1>10. /\ L \in Nat /\ DOMAIN transcript = 1 .. L
       /\ DOMAIN transcript' = 1 .. L + 1 /\ Len(transcript') = L + 1 /\ transcript'[L + 1] = m
       /\ \A i \in 1 .. L : transcript'[i] = transcript[i]
  BY <1>2, <1>7, AppendProperties, LenProperties DEF Told
<1>11. AtStart(b)'
  <2>1. b.turn = f.of /\ b.seen = f.of /\ b.len = 0  BY <1>3
  <2>2. \A q \in ended' : q <= b.seen /\ q # b.turn
    <3>1. ended \subseteq Nat  BY Numbers DEF TypesInv, WireOK
    <3> QED  BY <1>3, <1>4, <1>5, <2>1, <3>1 DEF AtStart
  <2>3. ASSUME NEW i \in DOMAIN transcript', transcript'[i].role = "brain"
        PROVE  transcript'[i].of <= b.seen /\ (transcript'[i].of = b.turn => i = Len(transcript'))
    <3>1. CASE i \in DOMAIN transcript
      <4>1. transcript'[i] = transcript[i]  BY <1>10, <3>1
      <4>2. transcript[i].of <= a.seen  BY <2>3, <3>1, <4>1 DEF AtStart
      <4>3. transcript[i] \in TrueMessages  BY <3>1, ElementOfSeq DEF Told
      <4>4. transcript[i].of \in Nat  BY <4>3, BoundsAssumption DEF TrueMessages, Messages
      <4> QED  BY <1>3, <1>4, <2>1, <4>1, <4>2, <4>4
    <3>2. CASE i = L + 1
      BY <1>4, <1>8, <1>10, <2>1, <3>2
    <3> QED  BY <1>10, <3>1, <3>2
  <2>4. transcript' # <<>> /\ Latest' = m  BY <1>10, EmptySeq DEF Latest, Last
  <2>5. Len(text') = b.len /\ DOMAIN text' = {}  BY <1>2, <2>1
  <2> QED  BY <1>2, <1>4, <1>8, <2>1, <2>2, <2>3, <2>4, <2>5 DEF AtStart
<1> QED  BY <1>9, <1>11

LEMMA TabDelta ==
  ASSUME TypesInv, Told, NEW a \in Position, AtStart(a), NEW f \in OwnFrames(visits), NEW b \in Position,
         Leads(a, f, b), f.type = "delta", OnEvent(f), UNCHANGED <<visits, askedIn, pieces, ended>>
  PROVE  Told' /\ AtStart(b)'
<1>1. OnDelta(f.of)  BY DEF OnEvent
<1>2. text' = Append(text, f.of) /\ UNCHANGED <<transcript, streaming>>  BY <1>1 DEF OnDelta
<1>3. f.of = a.turn /\ b = [turn |-> a.turn, seen |-> a.seen, len |-> a.len + 1]
  BY DEF Leads, EndTypes
<1>4. f.of \in Questions /\ f.of # 0 /\ text \in Seq(Questions)
  BY BoundsAssumption DEF OwnFrames, GoodFrames, TypesInv, StoreOK, Questions
<1>5. Told'  BY <1>2, ToldKept
<1>6. /\ Len(text) \in Nat /\ Len(text') = Len(text) + 1 /\ DOMAIN text = 1 .. Len(text)
      /\ DOMAIN text' = 1 .. Len(text) + 1 /\ text'[Len(text) + 1] = f.of
      /\ \A i \in 1 .. Len(text) : text'[i] = text[i]
  BY <1>2, <1>4, AppendProperties, LenProperties
<1>7. b.turn = a.turn /\ b.seen = a.seen /\ b.len = a.len + 1  BY <1>3
<1>8. Latest' = Latest  BY <1>2 DEF Latest
<1>9. streaming => \A i \in DOMAIN text' : text'[i] = b.turn
  BY <1>3, <1>6, <1>7 DEF AtStart
<1>10. AtStart(b)'  BY <1>2, <1>6, <1>7, <1>8, <1>9 DEF AtStart
<1> QED  BY <1>5, <1>10

(* An event for the message that streams: what it makes of it, and where   *)
(* the tab is then.                                                        *)
LEMMA TabUpdate ==
  ASSUME TypesInv, Told, NEW a \in Position, AtStart(a), streaming, a.turn # 0, NEW b \in Position,
         NEW m \in TrueMessages', m.of = a.turn, m.role = "brain", transcript' = UpdateLast(m),
         UNCHANGED <<visits, askedIn, pieces>>, ended' \subseteq ended \cup {a.turn},
         a.turn \in ended' => b.turn = 0,
         b.seen = a.seen, b.turn \in {0, a.turn}, streaming' <=> b.turn # 0,
         streaming' => m.body = <<>> /\ text' = text /\ b.len = a.len
  PROVE  Told' /\ AtStart(b)'
<1> DEFINE L == Len(transcript)
<1>1. /\ transcript # <<>> /\ transcript \in Seq(Messages) /\ transcript \in Seq(TrueMessages)
      /\ L \in Nat \ {0} /\ DOMAIN transcript = 1 .. L
  BY EmptySeq, LenProperties DEF AtStart, TypesInv, StoreOK, Told
<1>2. ASSUME NEW i \in 1 .. L - 1  PROVE transcript[i] \in TrueMessages'
  <2>1. i \in DOMAIN transcript /\ i # L
    <3>1. L \in Nat /\ DOMAIN transcript = 1 .. L  BY <1>1
    <3> HIDE DEF L
    <3>2. i \in 1 .. L /\ i # L  BY <3>1, Earlier
    <3> QED  BY <3>1, <3>2
  <2>2. transcript[i] \in TrueMessages  BY <1>1, <2>1, ElementOfSeq
  <2>3. transcript[i].role = "brain" => transcript[i].of # a.turn  BY <2>1 DEF AtStart
  <2>4. transcript[i].role = "brain" => (transcript[i].of \in ended' => transcript[i].of \in ended)
    BY <2>3
  <2> QED  BY <2>2, <2>4 DEF TrueMessages, SaysItsOwn, Asked
<1>3. /\ transcript' \in Seq(TrueMessages') /\ transcript' # <<>> /\ Latest' = m
      /\ Len(transcript') = L /\ transcript'[L] = m
      /\ \A i \in 1 .. L - 1 : transcript'[i] = transcript[i]
  BY <1>1, <1>2, LastUpdated
<1>4. Told'  BY <1>3 DEF Told
<1>5. a.turn = a.seen /\ a.seen \in Nat  BY DEF Position
<1>6. \A q \in ended' : q <= b.seen /\ q # b.turn
  <2> SUFFICES ASSUME NEW q \in ended'  PROVE q <= b.seen /\ q # b.turn
    OBVIOUS
  <2>1. CASE q = a.turn  BY <1>5, <2>1
  <2>2. CASE q \in ended
    <3>1. q <= a.seen /\ q # a.turn  BY <2>2 DEF AtStart
    <3>2. q # 0  BY <2>2, BoundsAssumption DEF TypesInv, WireOK, Questions
    <3> QED  BY <3>1, <3>2
  <2> QED  BY <2>1, <2>2
<1>7. ASSUME NEW i \in DOMAIN transcript', transcript'[i].role = "brain"
      PROVE  transcript'[i].of <= b.seen /\ (transcript'[i].of = b.turn => i = Len(transcript'))
  <2>1. DOMAIN transcript' = 1 .. L  BY <1>1, <1>3, LenProperties
  <2>2. CASE i = L
    BY <1>3, <1>5, <2>2
  <2>3. CASE i \in 1 .. L - 1
    <3>1. transcript'[i] = transcript[i] /\ i \in DOMAIN transcript /\ i # L  BY <1>1, <1>3, <2>3
    <3>2. transcript[i].of <= a.seen /\ transcript[i].of # a.turn  BY <1>7, <3>1 DEF AtStart
    <3>3. transcript[i] \in TrueMessages  BY <1>1, <3>1, ElementOfSeq
    <3>4. transcript[i].of # 0  BY <3>3 DEF TrueMessages
    <3> QED  BY <3>1, <3>2, <3>4
  <2> QED  BY <1>1, <2>1, <2>2, <2>3
<1>8. streaming' => Len(text') = b.len /\ \A i \in DOMAIN text' : text'[i] = b.turn
  BY DEF AtStart
<1>9. AtStart(b)'
  <2>1. streaming' => b.turn = a.turn  OBVIOUS
  <2> QED  BY <1>3, <1>6, <1>7, <1>8, <2>1 DEF AtStart
<1> QED  BY <1>4, <1>9

LEMMA TabPatchOrEnd ==
  ASSUME TypesInv, Told, NEW a \in Position, AtStart(a), NEW f \in OwnFrames(visits), NEW b \in Position,
         Leads(a, f, b), f.type \in {"patch"} \cup EndTypes, OnEvent(f),
         UNCHANGED <<visits, askedIn, pieces>>,
         f.type = "turn_end" => a.len = pieces[f.of]["delta"],
         ended' = IF f.type = "turn_end" THEN ended \cup {f.of} ELSE ended
  PROVE  Told' /\ AtStart(b)'
<1> DEFINE k == a.turn
<1>1. f.of = k /\ k \in Questions /\ k # 0
  <2>1. f.of \in Questions  BY DEF OwnFrames, GoodFrames, EndTypes
  <2>2. f.of = a.turn  BY DEF Leads, EndTypes
  <2> QED  BY <2>1, <2>2, BoundsAssumption DEF Questions
<1>2. /\ streaming /\ transcript # <<>> /\ Latest.role = "brain" /\ Latest.of = k /\ Latest.body = <<>>
      /\ Len(text) = a.len /\ (\A i \in DOMAIN text : text[i] = k) /\ k \notin ended
  BY <1>1 DEF AtStart
<1>3. Latest \in TrueMessages /\ text \in Seq(Questions)
  <2>1. transcript \in Seq(TrueMessages) /\ Len(transcript) \in Nat \ {0}
    BY <1>2, EmptySeq, LenProperties DEF Told
  <2> QED  BY <2>1, ElementOfSeq DEF Latest, Last, TypesInv, StoreOK
<1>4. /\ Latest \in Messages /\ k \in 1 .. Asked /\ askedIn[k] = visits /\ Latest.patches \subseteq {k}
  BY <1>2, <1>3 DEF TrueMessages, SaysItsOwn
<1>5. ended' \subseteq ended \cup {k}  BY <1>1
<1>6. CASE f.type = "patch"
  <2> DEFINE m == [Latest EXCEPT !.patches = @ \cup {f.of}]
  <2>1. transcript' = UpdateLast(m) /\ streaming' = streaming /\ text' = text
    BY <1>6 DEF OnEvent, OnPatchProposed
  <2>2. m \in Messages  BY <1>1, <1>4, EditedMessage
  <2>3. m.role = "brain" /\ m.of = k /\ m.body = <<>> /\ m.patches \subseteq {k}
    BY <1>1, <1>2, <1>4 DEF Messages
  <2> HIDE DEF m
  <2>4. ended' = ended  BY <1>6
  <2>5. m \in TrueMessages'
    BY <1>2, <1>4, <2>2, <2>3, <2>4 DEF TrueMessages, SaysItsOwn, Asked
  <2>6. b = a  BY <1>6 DEF Leads, EndTypes
  <2>7. /\ k \notin ended' /\ b.seen = a.seen /\ b.turn = k /\ b.len = a.len
        /\ streaming' /\ (streaming' <=> b.turn # 0)
    BY <1>1, <1>2, <2>1, <2>4, <2>6
  <2> QED  BY <1>1, <1>2, <1>5, <2>1, <2>3, <2>5, <2>7, TabUpdate
<1>7. CASE f.type \in EndTypes
  <2>1. b = [turn |-> 0, seen |-> a.seen, len |-> 0]  BY <1>7 DEF Leads, EndTypes
  <2>2. b.seen = a.seen /\ b.turn = 0  BY <2>1
  <2>3. CASE f.type \in {"turn_end", "cancelled"}
    <3> DEFINE m == [Latest EXCEPT !.body = text, !.live = FALSE]
    <3>1. transcript' = UpdateLast(m) /\ streaming' = FALSE
      BY <2>3 DEF OnEvent, OnTurnEnd
    <3>2. m \in Messages  BY <1>3, <1>4, EditedMessage
    <3>3. m.role = "brain" /\ m.of = k /\ m.body = text /\ m.patches \subseteq {k}
      BY <1>2, <1>4 DEF Messages
    <3> HIDE DEF m
    <3>4. k \in ended' => Len(text) = pieces[k]["delta"]
      BY <1>1, <1>2, <2>3
    <3>5. m \in TrueMessages'
      BY <1>2, <1>4, <3>2, <3>3, <3>4 DEF TrueMessages, SaysItsOwn, Asked
    <3>6. (streaming' <=> b.turn # 0) /\ ~streaming'  BY <2>2, <3>1
    <3> QED  BY <1>1, <1>2, <1>5, <2>2, <3>1, <3>3, <3>5, <3>6, TabUpdate
  <2>4. CASE f.type = "error"
    <3> DEFINE m == [Latest EXCEPT !.live = FALSE]
    <3>1. transcript' = UpdateLast(m) /\ streaming' = FALSE
      BY <2>4 DEF OnEvent, OnError
    <3>2. m \in Messages  BY <1>4, EditedMessage
    <3>3. m.role = "brain" /\ m.of = k /\ m.body = <<>> /\ m.patches \subseteq {k}
      BY <1>2, <1>4 DEF Messages
    <3> HIDE DEF m
    <3>4. ended' = ended  BY <2>4
    <3>5. m \in TrueMessages'
      BY <1>2, <1>4, <3>2, <3>3, <3>4 DEF TrueMessages, SaysItsOwn, Asked
    <3>6. (streaming' <=> b.turn # 0) /\ ~streaming'  BY <2>2, <3>1
    <3> QED  BY <1>1, <1>2, <1>5, <2>2, <3>1, <3>3, <3>5, <3>6, TabUpdate
  <2> QED  BY <1>7, <2>3, <2>4 DEF EndTypes
<1> QED  BY <1>6, <1>7

LEMMA TrueDeliver ==
  ASSUME TypesInv, Tags, TrueInv, NEW v \in Visits, Deliver(v)
  PROVE  TrueInv'
<1> SUFFICES ASSUME ~late'  PROVE Told' /\ (current' # 0 => IF broken' THEN Cut' ELSE Underway')
  BY DEF TrueInv
<1> DEFINE d == down[v]
           f == Head(d)
<1>1. /\ OnEvent(f) /\ d # <<>> /\ down' = [down EXCEPT ![v] = Tail(d)]
      /\ ended' = IF f.type = "turn_end" THEN ended \cup {f.of} ELSE ended
      /\ UNCHANGED <<visits, current, up, serving, askedIn, pieces, broken, late>>
  BY DEF Deliver
<1>2. v = current /\ current # 0 /\ v = visits
  BY TagsServer, Numbers DEF TypesInv, TabOK
<1>3. Told /\ IF broken THEN Cut ELSE Underway  BY <1>1, <1>2 DEF TrueInv
<1>4. d \in Seq(GoodFrames) /\ f \in OwnFrames(visits) /\ down'[v] = Tail(d)
  <2>1. Tagged(v) /\ WireOK  BY DEF Tags, TypesInv
  <2>2. f \in OwnFrames(v)  BY <1>1, <2>1, TaggedPieces
  <2> QED  BY <1>1, <1>2, <2>1, <2>2 DEF WireOK
<1>5. f.type \in {"turn_start", "delta", "patch", "turn_end", "cancelled", "error", "invalid"}
      /\ f \in GoodFrames
  BY <1>4 DEF OwnFrames, GoodFrames, Frames
<1> HIDE DEF f, d
<1>6. f.type = "invalid" => UNCHANGED <<store, ended>>
  BY <1>1 DEF OnEvent
<1>7. CASE broken
  <2>1. d \in Seq(Refusals) /\ Cut  BY <1>2, <1>3, <1>7 DEF Cut, d
  <2>2. f \in Refusals /\ Tail(d) \in Seq(Refusals)
    BY <1>1, <2>1, HeadTailProperties DEF f
  <2>3. UNCHANGED <<store, ended>>  BY <1>6, <2>2 DEF Refusals
  <2>4. Told'  BY <1>1, <1>3, <2>3, ToldKept
  <2>5. Cut'  BY <1>1, <1>2, <1>4, <2>1, <2>2, <2>3 DEF Cut
  <2> QED  BY <1>1, <1>7, <2>4, <2>5
<1>8. CASE ~broken
  <2>1. PICK n, p : Way(n, p)  BY <1>3, <1>8 DEF Underway
  <2>2. Path(d, n, p, pieces) /\ AtStart(p[0]) /\ p[n].seen <= Asked
        /\ AtEnd(p[n], up[v], serving[v], pieces)
    BY <1>2, <2>1 DEF Way, d
  <2>3. /\ Leads(p[0], f, p[1]) /\ p[0] \in Position /\ p[1] \in Position
        /\ f.type = "turn_end" => p[0].len = pieces[f.of]["delta"]
    BY <1>1, <1>4, <2>2, PathShrinks DEF f
  <2>4. PICK m, r : Path(Tail(d), m, r, pieces) /\ r[0] = p[1] /\ r[m] = p[n]
    BY <1>1, <1>4, <2>2, PathShrinks
  <2> DEFINE a == p[0]
             b == p[1]
  <2>5. Leads(a, f, b) /\ a \in Position /\ b \in Position /\ AtStart(a)
        /\ (f.type = "turn_end" => a.len = pieces[f.of]["delta"])
    BY <2>2, <2>3
  <2>6. Told' /\ AtStart(b)'
    <3> HIDE DEF a, b
    <3>1. CASE f.type = "turn_start"
      BY <1>1, <1>3, <1>4, <2>5, <3>1, TabTurnStart
    <3>2. CASE f.type = "delta"
      BY <1>1, <1>3, <1>4, <2>5, <3>2, TabDelta
    <3>3. CASE f.type \in {"patch"} \cup EndTypes
      BY <1>1, <1>3, <1>4, <2>5, <3>3, TabPatchOrEnd
    <3>4. CASE f.type = "invalid"
      <4>1. b = a  BY <2>5, <3>4 DEF Leads, EndTypes
      <4>2. Told'  BY <1>1, <1>3, <1>6, <3>4, ToldKept
      <4>3. AtStart(a)'  BY <1>6, <2>5, <3>4, StartKept DEF a
      <4> QED  BY <4>1, <4>2, <4>3
    <3> QED  BY <1>5, <3>1, <3>2, <3>3, <3>4 DEF EndTypes
  <2>7. AtStart(r[0])'  BY <2>4, <2>6
  <2>8. /\ down'[current'] = Tail(d) /\ up'[current'] = up[v] /\ serving'[current'] = serving[v]
        /\ pieces' = pieces /\ Asked' = Asked
    BY <1>1, <1>2, <1>4 DEF Asked
  <2>9. Way(m, r)'  BY <2>2, <2>4, <2>7, <2>8 DEF Way
  <2> QED  BY <1>1, <1>8, <2>6, <2>9 DEF Underway
<1>9. broken \in BOOLEAN  BY DEF TypesInv, TabOK
<1> QED  BY <1>7, <1>8, <1>9

LEMMA TrueStep ==
  ASSUME TypesInv, OneSocket, Tags, TrueInv, [Next]_vars
  PROVE  TrueInv'
<1>1. Tags'  BY TagsStep
<1>2. CASE Visit  BY <1>1, <1>2, TrueVisit
<1>3. CASE SendTurnStart  BY <1>3, TrueSend
<1>4. CASE CancelTurn  BY <1>4, TrueCancel
<1>5. ASSUME NEW v \in Visits, Opened(v) \/ CloseEvent(v) \/ Reconnect(v)  PROVE TrueInv'
  <2>1. late' = late /\ UNCHANGED <<visits, current, wire, serving, store, askedIn, pieces, ended, broken>>
    BY <1>5 DEF Opened, CloseEvent, Reconnect
  <2> QED  BY <2>1, TrueStill
<1>6. ASSUME NEW v \in Visits, Deliver(v)  PROVE TrueInv'
  BY <1>6, TrueDeliver
<1>7. ASSUME NEW v \in Visits, Drop(v)  PROVE TrueInv'
  BY <1>1, <1>7, TrueDrop
<1>8. ASSUME NEW v \in Visits,
             \/ TakeTurnStart(v) \/ TakeCancel(v) \/ TaskDone(v)
             \/ BeginTurn(v) \/ StreamPiece(v) \/ EndTurn(v)
      PROVE  TrueInv'
  BY <1>8, TrueServer
<1>9. CASE UNCHANGED vars
  <2>1. late' = late /\ UNCHANGED <<visits, current, wire, serving, store, askedIn, pieces, ended, broken>>
    BY <1>9 DEF vars
  <2> QED  BY <2>1, TrueStill
<1> QED
  BY <1>2, <1>3, <1>4, <1>5, <1>6, <1>7, <1>8, <1>9 DEF Next, ScreenStep, BrowserStep, ServerLoop

LEMMA InitTrue == Init => Tags /\ TrueInv
<1> SUFFICES ASSUME Init  PROVE Tags /\ TrueInv
  OBVIOUS
<1>1. \A v \in Visits : Tagged(v)
  <2> SUFFICES ASSUME NEW v \in Visits  PROVE Tagged(v)
    OBVIOUS
  <2>1. up[v] = <<>> /\ down[v] = <<>> /\ serving[v] = Idle  BY DEF Init
  <2>2. <<>> \in Seq(OwnRequests(v)) /\ <<>> \in Seq(OwnFrames(v)) /\ InOrder(<<>>)  BY DEF InOrder
  <2> QED  BY <2>1, <2>2 DEF Tagged, Idle
<1>2. Past  BY DEF Init, Past
<1>3. Told /\ current = 0  BY DEF Init, Told
<1> QED  BY <1>1, <1>2, <1>3 DEF Tags, TrueInv

(* Over second sends, refusals, errors, cancels, losses and reconnects     *)
(* every message on the screen says its own (chat-store.ts reducers,       *)
(* ws/hooks.ts): the question as typed, or text and patches of its own     *)
(* turn, all of the text once its turn_end is in; as long as every cancel  *)
(* found a turn that streams.                                              *)
THEOREM TranscriptCorrect == Spec => []TranscriptTrue
<1>1. Told => \A i \in DOMAIN transcript : SaysItsOwn(transcript[i])
  <2> SUFFICES ASSUME Told, NEW i \in DOMAIN transcript  PROVE SaysItsOwn(transcript[i])
    OBVIOUS
  <2>1. transcript[i] \in TrueMessages  BY ElementOfSeq DEF Told
  <2> QED  BY <2>1 DEF TrueMessages
<1>2. TrueInv => TranscriptTrue  BY <1>1 DEF TrueInv, TranscriptTrue
<1>3. Init => Tags /\ TrueInv  BY InitTrue
<1>4. IInv /\ Tags /\ TrueInv /\ [Next]_vars => Tags' /\ TrueInv'
  BY TagsStep, TrueStep DEF IInv
<1> QED  BY <1>2, <1>3, <1>4, Inductive, PTL DEF Spec
=============================================================================
