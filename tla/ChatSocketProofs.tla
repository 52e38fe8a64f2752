-------------------------- MODULE ChatSocketProofs --------------------------
(* Theorems of ChatSocket: types, what is saved of the turns of a socket,  *)
(* and what a turn is asked with.                                          *)
EXTENDS ChatSocket, FiniteSetTheorems, TLAPS

(* A connection is new until its route runs. *)
RoutesOK == \A s \in Sockets : client[s] = "new" <=> route[s] = "none"

(* Two sockets that are live together are both in shared. *)
OverlapOK == \A s, r \in Sockets : Live(s) /\ Live(r) /\ s # r => s \in shared

(* A turn that has begun is on a socket that has connected, carries a      *)
(* number the runner has reached, and is in the session as long as the     *)
(* route is live, unless it still streams.                                 *)
SessionOK ==
  \A t \in begun :
    /\ route[t[1]] # "none"
    /\ t[2] =< number[t[1]]
    /\ Live(t[1]) => t \in session[t[1]] \/ (At(t[1], "stream") /\ t = Current(t[1]))

(* The turns the file must hold: answered, written with turn_end still to  *)
(* be sent, or of a socket that has closed with its last save done.        *)
Due(t) ==
  \/ t \in answered \ capped
  \/ At(t[1], "end") /\ t = Current(t[1]) /\ t \notin capped
  \/ t \in begun /\ route[t[1]] = "done" /\ t[1] \notin cut

(* They are in every live session too: else the next save of that socket   *)
(* would drop them.                                                        *)
KeptOK ==
  \A t \in Turns : Due(t) /\ Alone(t) =>
    t \in file /\ \A s \in Sockets : Live(s) => t \in session[s]

(* What a turn is asked with is what the cap has left of its session.      *)
ContextOK == \A s \in Sockets : At(s, "stream") => turn[s].context \in Trims(session[s])

IInv == TypeOK /\ RoutesOK /\ OverlapOK /\ SessionOK /\ KeptOK /\ ContextOK

(* The invariant holds initially.                                          *)
LEMMA InitKeeps == Init => IInv
<1> SUFFICES ASSUME Init PROVE IInv
  OBVIOUS
<1>1. Fits({})  BY BoundsAssumption, FS_EmptySet DEF Fits
<1>2. TypeOK
  BY <1>1, ModesAssumption, BoundsAssumption DEF Init, TypeOK, Running
<1>3. RoutesOK /\ OverlapOK /\ SessionOK
  BY DEF Init, RoutesOK, OverlapOK, SessionOK, Live
<1>4. KeptOK  BY DEF Init, KeptOK, Due, At, Running, Turns
<1>5. ContextOK  BY DEF Init, ContextOK, At, Running
<1> QED  BY <1>2, <1>3, <1>4, <1>5 DEF IInv

(* Every turn is <<socket, number>>.                                       *)
LEMMA TurnPair == \A t \in Turns : t = <<t[1], t[2]>> /\ t[1] \in Sockets /\ t[2] \in 1..MaxTurns
  BY DEF Turns

(* The current turn of a socket that runs one.                             *)
LEMMA CurrentTurn ==
  ASSUME TypeOK, NEW s \in Sockets, Running(s)
  PROVE  Current(s) \in Turns /\ Current(s)[1] = s /\ turn[s] \in TurnTask /\ Live(s)
  BY BoundsAssumption DEF TypeOK, Current, Turns, Running

(* A connection and a frame from the client keep it.                       *)
LEMMA FrameKeeps ==
  ASSUME IInv, NEW s \in Sockets, NEW m \in Modes,
         Connect(s) \/ StartTurn(s, m) \/ SwitchMode(s, m)
         \/ CancelTurn(s) \/ ClientLeaves(s) \/ BadFrame(s)
  PROVE  IInv'
<1> USE BoundsAssumption, NoTurnAssumption, TurnPair
    DEF IInv, Running, At, Live, Current, disk, bounds, history
<1>1. CASE Connect(s)
  <2> USE <1>1 DEF Connect, Open
  <2>1. TypeOK'  BY DEF TypeOK, TurnTask
  <2>2. RoutesOK'  BY DEF TypeOK, RoutesOK
  <2>3. OverlapOK'  BY DEF TypeOK, OverlapOK
  <2>4. SessionOK'  BY DEF TypeOK, RoutesOK, SessionOK, TurnTask
  <2>5. KeptOK'
    BY DEF TypeOK, RoutesOK, OverlapOK, SessionOK, KeptOK, Due, Alone, TurnTask
  <2>6. ContextOK'  BY DEF TypeOK, RoutesOK, ContextOK, TurnTask
  <2> QED  BY <2>1, <2>2, <2>3, <2>4, <2>5, <2>6
<1>2. CASE StartTurn(s, m)
  <2> USE <1>2 DEF StartTurn, Idle
  <2>1. TypeOK'  BY DEF TypeOK, TurnTask
  <2>2. RoutesOK'  BY DEF TypeOK, RoutesOK
  <2>3. OverlapOK'  BY DEF TypeOK, OverlapOK
  <2>4. SessionOK'  BY DEF TypeOK, RoutesOK, SessionOK, TurnTask
  <2>5. KeptOK'
    BY DEF TypeOK, RoutesOK, OverlapOK, SessionOK, KeptOK, Due, Alone, TurnTask
  <2>6. ContextOK'  BY DEF TypeOK, RoutesOK, ContextOK, TurnTask
  <2> QED  BY <2>1, <2>2, <2>3, <2>4, <2>5, <2>6
<1>3. CASE SwitchMode(s, m)
  <2> USE <1>3 DEF SwitchMode, Idle
  <2>1. TypeOK'  BY DEF TypeOK, TurnTask
  <2>2. RoutesOK'  BY DEF TypeOK, RoutesOK
  <2>3. OverlapOK'  BY DEF TypeOK, OverlapOK
  <2>4. SessionOK'  BY DEF TypeOK, RoutesOK, SessionOK, TurnTask
  <2>5. KeptOK'
    BY DEF TypeOK, RoutesOK, OverlapOK, SessionOK, KeptOK, Due, Alone, TurnTask
  <2>6. ContextOK'  BY DEF TypeOK, RoutesOK, ContextOK, TurnTask
  <2> QED  BY <2>1, <2>2, <2>3, <2>4, <2>5, <2>6
<1>4. CASE CancelTurn(s)
  <2> USE <1>4 DEF CancelTurn
  <2>1. TypeOK'  BY DEF TypeOK, TurnTask
  <2>2. RoutesOK'  BY DEF TypeOK, RoutesOK
  <2>3. OverlapOK'  BY DEF TypeOK, OverlapOK
  <2>4. SessionOK'  BY DEF TypeOK, RoutesOK, SessionOK, TurnTask
  <2>5. KeptOK'
    BY DEF TypeOK, RoutesOK, OverlapOK, SessionOK, KeptOK, Due, Alone, TurnTask
  <2>6. ContextOK'  BY DEF TypeOK, RoutesOK, ContextOK, TurnTask
  <2> QED  BY <2>1, <2>2, <2>3, <2>4, <2>5, <2>6
<1>5. CASE ClientLeaves(s)
  <2> USE <1>5 DEF ClientLeaves
  <2>1. TypeOK'  BY DEF TypeOK, TurnTask
  <2>2. RoutesOK'  BY DEF TypeOK, RoutesOK
  <2>3. OverlapOK'  BY DEF TypeOK, OverlapOK
  <2>4. SessionOK'  BY DEF TypeOK, RoutesOK, SessionOK, TurnTask
  <2>5. KeptOK'
    BY DEF TypeOK, RoutesOK, OverlapOK, SessionOK, KeptOK, Due, Alone, TurnTask
  <2>6. ContextOK'  BY DEF TypeOK, RoutesOK, ContextOK, TurnTask
  <2> QED  BY <2>1, <2>2, <2>3, <2>4, <2>5, <2>6
<1>6. CASE BadFrame(s)
  <2> USE <1>6 DEF BadFrame, LeaveLoop
  <2>1. TypeOK'  BY DEF TypeOK, TurnTask
  <2>2. RoutesOK'  BY DEF TypeOK, RoutesOK
  <2>3. OverlapOK'  BY DEF TypeOK, OverlapOK
  <2>4. SessionOK'  BY DEF TypeOK, RoutesOK, SessionOK, TurnTask
  <2>5. KeptOK'
    BY DEF TypeOK, RoutesOK, OverlapOK, SessionOK, KeptOK, Due, Alone, TurnTask
  <2>6. ContextOK'  BY DEF TypeOK, RoutesOK, ContextOK, TurnTask
  <2> QED  BY <2>1, <2>2, <2>3, <2>4, <2>5, <2>6
<1> QED  BY <1>1, <1>2, <1>3, <1>4, <1>5, <1>6

(* So does a step of the turn task ...                                     *)
LEMMA TurnKeeps ==
  ASSUME IInv, NEW s \in Sockets,
         BeginTurn(s) \/ NeverBegins(s) \/ CompileFails(s) \/ NextRound(s) \/ OutOfRounds(s)
         \/ Finish(s) \/ Raise(s) \/ SendEnd(s)
  PROVE  IInv'
<1> USE BoundsAssumption, NoTurnAssumption, TurnPair
    DEF IInv, Running, At, Live, Current, disk, bounds, history
<1>1. CASE BeginTurn(s)
  <2> USE <1>1 DEF Steps
  <2>0. Running(s) /\ Current(s) \in Turns /\ Current(s)[1] = s
       /\ turn[s] \in TurnTask /\ Live(s) /\ route[s] = "loop" /\ At(s, "start")
    BY CurrentTurn DEF BeginTurn
  <2>a. PICK kept \in Trims(session[s]) :
          turn' = [turn EXCEPT ![s] = [pc |-> "stream", round |-> 0, context |-> kept]]
    BY DEF BeginTurn
  <2>b. /\ begun' = begun \cup {Current(s)}
        /\ UNCHANGED <<client, route, session, number, mode, config, disk, bounds,
                       answered, capped, shared, unread, cut>>
    BY DEF BeginTurn
  <2> DEFINE task == [pc |-> "stream", round |-> 0, context |-> kept]
  <2>c. /\ task \in TurnTask /\ task # NoTurn /\ task.pc = "stream" /\ task.context = kept
        /\ turn' = [turn EXCEPT ![s] = task]
    BY <2>0, <2>a DEF TypeOK, Trims, TurnTask
  <2> HIDE DEF task
  <2>1. TypeOK'  BY <2>0, <2>b, <2>c DEF TypeOK
  <2>2. RoutesOK'  BY <2>0, <2>b, <2>c DEF TypeOK, RoutesOK
  <2>3. OverlapOK'  BY <2>0, <2>b, <2>c DEF TypeOK, OverlapOK
  <2>4. SessionOK'  BY <2>0, <2>b, <2>c DEF TypeOK, RoutesOK, SessionOK
  <2>5. KeptOK'
    BY <2>0, <2>b, <2>c DEF TypeOK, RoutesOK, OverlapOK, SessionOK, KeptOK, Due, Alone
  <2>6. ContextOK'  BY <2>0, <2>b, <2>c DEF TypeOK, RoutesOK, ContextOK
  <2> QED  BY <2>1, <2>2, <2>3, <2>4, <2>5, <2>6
<1>2. CASE NeverBegins(s)
  <2> USE <1>2 DEF NeverBegins, Steps
  <2>0. Running(s) /\ Current(s) \in Turns /\ Current(s)[1] = s
       /\ turn[s] \in TurnTask /\ Live(s)
    BY CurrentTurn
  <2>1. TypeOK'  BY <2>0 DEF TypeOK, TurnTask
  <2>2. RoutesOK'  BY <2>0 DEF TypeOK, RoutesOK
  <2>3. OverlapOK'  BY <2>0 DEF TypeOK, OverlapOK
  <2>4. SessionOK'  BY <2>0 DEF TypeOK, RoutesOK, SessionOK, TurnTask
  <2>5. KeptOK'
    BY <2>0 DEF TypeOK, RoutesOK, OverlapOK, SessionOK, KeptOK, Due, Alone, TurnTask
  <2>6. ContextOK'  BY <2>0 DEF TypeOK, RoutesOK, ContextOK, TurnTask
  <2> QED  BY <2>1, <2>2, <2>3, <2>4, <2>5, <2>6
<1>3. CASE NextRound(s)
  <2> USE <1>3 DEF NextRound, Steps
  <2>0. Running(s) /\ Current(s) \in Turns /\ Current(s)[1] = s
       /\ turn[s] \in TurnTask /\ Live(s)
    BY CurrentTurn
  <2>1. TypeOK'  BY <2>0 DEF TypeOK, TurnTask
  <2>2. RoutesOK'  BY <2>0 DEF TypeOK, RoutesOK
  <2>3. OverlapOK'  BY <2>0 DEF TypeOK, OverlapOK
  <2>4. SessionOK'  BY <2>0 DEF TypeOK, RoutesOK, SessionOK, TurnTask
  <2>5. KeptOK'
    BY <2>0 DEF TypeOK, RoutesOK, OverlapOK, SessionOK, KeptOK, Due, Alone, TurnTask
  <2>6. ContextOK'  BY <2>0 DEF TypeOK, RoutesOK, ContextOK, TurnTask
  <2> QED  BY <2>1, <2>2, <2>3, <2>4, <2>5, <2>6
<1>4. CASE OutOfRounds(s)
  <2> USE <1>4 DEF OutOfRounds, Steps, Over
  <2>0. Running(s) /\ Current(s) \in Turns /\ Current(s)[1] = s
       /\ turn[s] \in TurnTask /\ Live(s)
    BY CurrentTurn
  <2>1. TypeOK'  BY <2>0 DEF TypeOK, TurnTask
  <2>2. RoutesOK'  BY <2>0 DEF TypeOK, RoutesOK
  <2>3. OverlapOK'  BY <2>0 DEF TypeOK, OverlapOK
  <2>4. SessionOK'  BY <2>0 DEF TypeOK, RoutesOK, SessionOK, TurnTask
  <2>5. KeptOK'
    BY <2>0 DEF TypeOK, RoutesOK, OverlapOK, SessionOK, KeptOK, Due, Alone, TurnTask
  <2>6. ContextOK'  BY <2>0 DEF TypeOK, RoutesOK, ContextOK, TurnTask
  <2> QED  BY <2>1, <2>2, <2>3, <2>4, <2>5, <2>6
<1>5. CASE Finish(s)
  <2> USE <1>5 DEF Finish, Write, Steps, Over
  <2>0. Running(s) /\ Current(s) \in Turns /\ Current(s)[1] = s
       /\ turn[s] \in TurnTask /\ Live(s)
    BY CurrentTurn
  <2>1. TypeOK'  BY <2>0 DEF TypeOK, TurnTask
  <2>2. RoutesOK'  BY <2>0 DEF TypeOK, RoutesOK
  <2>3. OverlapOK'  BY <2>0 DEF TypeOK, OverlapOK
  <2>4. SessionOK'  BY <2>0 DEF TypeOK, RoutesOK, SessionOK, TurnTask
  <2>5. KeptOK'
    BY <2>0 DEF TypeOK, RoutesOK, OverlapOK, SessionOK, KeptOK, Due, Alone, TurnTask
  <2>6. ContextOK'  BY <2>0 DEF TypeOK, RoutesOK, ContextOK, TurnTask
  <2> QED  BY <2>1, <2>2, <2>3, <2>4, <2>5, <2>6
<1>6. CASE Raise(s)
  <2> USE <1>6 DEF Raise, Steps, Over
  <2>0. Running(s) /\ Current(s) \in Turns /\ Current(s)[1] = s
       /\ turn[s] \in TurnTask /\ Live(s)
    BY CurrentTurn
  <2>1. TypeOK'  BY <2>0 DEF TypeOK, TurnTask
  <2>2. RoutesOK'  BY <2>0 DEF TypeOK, RoutesOK
  <2>3. OverlapOK'  BY <2>0 DEF TypeOK, OverlapOK
  <2>4. SessionOK'  BY <2>0 DEF TypeOK, RoutesOK, SessionOK, TurnTask
  <2>5. KeptOK'
    BY <2>0 DEF TypeOK, RoutesOK, OverlapOK, SessionOK, KeptOK, Due, Alone, TurnTask
  <2>6. ContextOK'  BY <2>0 DEF TypeOK, RoutesOK, ContextOK, TurnTask
  <2> QED  BY <2>1, <2>2, <2>3, <2>4, <2>5, <2>6
<1>7. CASE SendEnd(s)
  <2> USE <1>7 DEF SendEnd, Steps
  <2>0. Running(s) /\ Current(s) \in Turns /\ Current(s)[1] = s
       /\ turn[s] \in TurnTask /\ Live(s)
    BY CurrentTurn
  <2>1. TypeOK'  BY <2>0 DEF TypeOK, TurnTask
  <2>2. RoutesOK'  BY <2>0 DEF TypeOK, RoutesOK
  <2>3. OverlapOK'  BY <2>0 DEF TypeOK, OverlapOK
  <2>4. SessionOK'  BY <2>0 DEF TypeOK, RoutesOK, SessionOK, TurnTask
  <2>5. KeptOK'
    BY <2>0 DEF TypeOK, RoutesOK, OverlapOK, SessionOK, KeptOK, Due, Alone, TurnTask
  <2>6. ContextOK'  BY <2>0 DEF TypeOK, RoutesOK, ContextOK, TurnTask
  <2> QED  BY <2>1, <2>2, <2>3, <2>4, <2>5, <2>6
<1>8. CASE CompileFails(s)
  <2> USE <1>8 DEF CompileFails, Steps, Over
  <2>0. Running(s) /\ Current(s) \in Turns /\ Current(s)[1] = s
       /\ turn[s] \in TurnTask /\ Live(s)
    BY CurrentTurn
  <2>1. TypeOK'  BY <2>0 DEF TypeOK, TurnTask
  <2>2. RoutesOK'  BY <2>0 DEF TypeOK, RoutesOK
  <2>3. OverlapOK'  BY <2>0 DEF TypeOK, OverlapOK
  <2>4. SessionOK'  BY <2>0 DEF TypeOK, RoutesOK, SessionOK, TurnTask
  <2>5. KeptOK'
    BY <2>0 DEF TypeOK, RoutesOK, OverlapOK, SessionOK, KeptOK, Due, Alone, TurnTask
  <2>6. ContextOK'  BY <2>0 DEF TypeOK, RoutesOK, ContextOK, TurnTask
  <2> QED  BY <2>1, <2>2, <2>3, <2>4, <2>5, <2>6
<1> QED  BY <1>1, <1>2, <1>3, <1>4, <1>5, <1>6, <1>7, <1>8

(* ... and a step of the route.                                            *)
LEMMA RouteKeeps ==
  ASSUME IInv, NEW s \in Sockets,
         Unwind(s) \/ Cancelled(s) \/ Disconnect(s) \/ Close(s)
  PROVE  IInv'
<1> USE BoundsAssumption, NoTurnAssumption, TurnPair
    DEF IInv, Running, At, Live, Current, disk, bounds, history
<1>1. CASE Unwind(s)
  <2> USE <1>1 DEF Unwind, EndTask, Partial
  <2>0. Running(s) /\ Current(s) \in Turns /\ Current(s)[1] = s
       /\ turn[s] \in TurnTask /\ Live(s)
    BY CurrentTurn
  <2>1. TypeOK'  BY <2>0 DEF TypeOK, TurnTask
  <2>2. RoutesOK'  BY <2>0 DEF TypeOK, RoutesOK
  <2>3. OverlapOK'  BY <2>0 DEF TypeOK, OverlapOK
  <2>4. SessionOK'  BY <2>0 DEF TypeOK, RoutesOK, SessionOK, TurnTask
  <2>5. KeptOK'
    BY <2>0 DEF TypeOK, RoutesOK, OverlapOK, SessionOK, KeptOK, Due, Alone, TurnTask
  <2>6. ContextOK'  BY <2>0 DEF TypeOK, RoutesOK, ContextOK, TurnTask
  <2> QED  BY <2>1, <2>2, <2>3, <2>4, <2>5, <2>6
<1>2. CASE Cancelled(s)
  <2> USE <1>2 DEF Cancelled
  <2>1. TypeOK'  BY DEF TypeOK, TurnTask
  <2>2. RoutesOK'  BY DEF TypeOK, RoutesOK
  <2>3. OverlapOK'  BY DEF TypeOK, OverlapOK
  <2>4. SessionOK'  BY DEF TypeOK, RoutesOK, SessionOK, TurnTask
  <2>5. KeptOK'
    BY DEF TypeOK, RoutesOK, OverlapOK, SessionOK, KeptOK, Due, Alone, TurnTask
  <2>6. ContextOK'  BY DEF TypeOK, RoutesOK, ContextOK, TurnTask
  <2> QED  BY <2>1, <2>2, <2>3, <2>4, <2>5, <2>6
<1>3. CASE Disconnect(s)
  <2> USE <1>3 DEF Disconnect, LeaveLoop
  <2>1. TypeOK'  BY DEF TypeOK, TurnTask
  <2>2. RoutesOK'  BY DEF TypeOK, RoutesOK
  <2>3. OverlapOK'  BY DEF TypeOK, OverlapOK
  <2>4. SessionOK'  BY DEF TypeOK, RoutesOK, SessionOK, TurnTask
  <2>5. KeptOK'
    BY DEF TypeOK, RoutesOK, OverlapOK, SessionOK, KeptOK, Due, Alone, TurnTask
  <2>6. ContextOK'  BY DEF TypeOK, RoutesOK, ContextOK, TurnTask
  <2> QED  BY <2>1, <2>2, <2>3, <2>4, <2>5, <2>6
<1>4. CASE Close(s)
  <2> USE <1>4 DEF Close, Persist
  <2>1. TypeOK'
    <3>1. (file \in SUBSET Turns /\ Fits(file) /\ readable \in BOOLEAN)'  BY DEF TypeOK
    <3>2. errors' \in 0..MaxErrors /\ cut' \in SUBSET Sockets  BY DEF TypeOK
    <3>3. \A r \in Sockets : Running(r)' => Live(r)' /\ number'[r] > 0
      BY DEF TypeOK, Running, Live
    <3> QED  BY <3>1, <3>2, <3>3 DEF TypeOK
  <2>2. RoutesOK'  BY DEF TypeOK, RoutesOK
  <2>3. OverlapOK'  BY DEF TypeOK, OverlapOK
  <2>4. SessionOK'  BY DEF TypeOK, RoutesOK, SessionOK, TurnTask
  <2>5. KeptOK'
    BY DEF TypeOK, RoutesOK, OverlapOK, SessionOK, KeptOK, Due, Alone, TurnTask
  <2>6. ContextOK'  BY DEF TypeOK, RoutesOK, ContextOK, TurnTask
  <2> QED  BY <2>1, <2>2, <2>3, <2>4, <2>5, <2>6
<1> QED  BY <1>1, <1>2, <1>3, <1>4

(* So do the steps that are not a socket's, and stuttering.                *)
LEMMA OtherKeeps == IInv /\ (Garble \/ Die \/ UNCHANGED vars) => IInv'
<1> SUFFICES ASSUME IInv, Garble \/ Die \/ UNCHANGED vars PROVE IInv'
  OBVIOUS
<1> USE DEF disk, bounds, history
<1>1. CASE Garble
  <2> USE <1>1, BoundsAssumption DEF Garble
  <2>1. TypeOK'
    <3>1. edits' \in 0..MaxEdits  BY DEF IInv, TypeOK
    <3>0. readable' \in BOOLEAN  OBVIOUS
    <3>2. (file \in SUBSET Turns /\ Fits(file))'  BY DEF IInv, TypeOK, Fits
    <3>3. \A r \in Sockets : Running(r)' => Live(r)' /\ number'[r] > 0
      BY DEF IInv, TypeOK, Running, Live
    <3> QED  BY <3>0, <3>1, <3>2, <3>3 DEF IInv, TypeOK
  <2>2. (RoutesOK /\ OverlapOK /\ SessionOK)'
    BY DEF IInv, RoutesOK, OverlapOK, SessionOK, At, Running, Live, Current
  <2>3. KeptOK'  BY DEF IInv, KeptOK, Due, Alone, At, Running, Live, Current
  <2>4. ContextOK'  BY DEF IInv, ContextOK, At, Running
  <2> QED  BY <2>1, <2>2, <2>3, <2>4 DEF IInv
<1>2. CASE Die
  <2> USE <1>2, BoundsAssumption DEF Die
  <2>1. TypeOK'  BY DEF IInv, TypeOK, Running, Live
  <2>2. (RoutesOK /\ OverlapOK /\ SessionOK)'
    BY TurnPair DEF IInv, TypeOK, RoutesOK, OverlapOK, SessionOK, Live
  <2>3. KeptOK'
    BY TurnPair DEF IInv, TypeOK, KeptOK, Due, Alone, At, Running, Live
  <2>4. ContextOK'  BY DEF ContextOK, At, Running
  <2> QED  BY <2>1, <2>2, <2>3, <2>4 DEF IInv
<1>3. CASE UNCHANGED vars
  BY <1>3 DEF vars, IInv, TypeOK, RoutesOK, OverlapOK, SessionOK, KeptOK, ContextOK, Due, Alone,
              At, Running, Live, Current
<1> QED  BY <1>1, <1>2, <1>3

(* The invariant is inductive.                                             *)
LEMMA Invariant == Spec => []IInv
<1>1. IInv /\ [Next]_vars => IInv'
  BY FrameKeeps, TurnKeeps, RouteKeeps, OtherKeeps, ModesAssumption
     DEF Next, FrameStep, TurnStep, RouteStep
<1> QED  BY InitKeeps, <1>1, PTL DEF Spec

(* Every state has its type, and the thread file never exceeds the ceiling *)
(* of the vault writer (vault/writer.py:75).                               *)
THEOREM TypeCorrect == Spec => []TypeOK
<1>1. IInv => TypeOK  BY DEF IInv
<1> QED  BY Invariant, <1>1, PTL

(* A turn whose turn_end was sent is in the thread file (session.py:531),  *)
(* except the turns that ran out of tool rounds; and a route that has      *)
(* closed with its last save done has left every turn it asked there       *)
(* (routes/chat.py:262).                                                   *)
THEOREM TurnsSaved == Spec => []TurnsAreSaved
<1>1. IInv => AnsweredIsSaved
  BY DEF IInv, TypeOK, KeptOK, Due, AnsweredIsSaved
<1>2. IInv => ClosedIsSaved
  BY DEF IInv, TypeOK, KeptOK, Due, ClosedIsSaved
<1> QED  BY Invariant, <1>1, <1>2, PTL DEF TurnsAreSaved

(* The cap drops the oldest turns only: a turn that it has dropped is      *)
(* older than every turn it has left.                                      *)
LEMMA OldestGo ==
  ASSUME NEW turns \in SUBSET Turns, NEW kept \in Trims(turns), NEW t \in turns, t \notin kept
  PROVE  \A u \in kept : Older(t, u)
<1> SUFFICES ASSUME NEW u \in kept  PROVE Older(t, u)
  OBVIOUS
<1>1. t \in Turns /\ u \in Turns /\ u # t /\ ~Older(u, t)  BY DEF Trims
<1>2. /\ t = <<t[1], t[2]>> /\ t[1] \in Nat /\ t[2] \in Nat
      /\ u = <<u[1], u[2]>> /\ u[1] \in Nat /\ u[2] \in Nat
  BY <1>1, TurnPair, BoundsAssumption DEF Sockets
<1> QED  BY <1>1, <1>2 DEF Older

(* A turn is asked with every earlier turn of its socket, and every one    *)
(* answered before it connected, in its context, but for the oldest when   *)
(* the session does not fit the cap of the context (session.py:216,        *)
(* context.py:70).                                                         *)
THEOREM ContextsAreComplete == Spec => []ContextIsComplete
<1>1. IInv => ContextIsComplete
  <2> SUFFICES ASSUME IInv, NEW s \in Sockets, At(s, "stream"), NEW t \in Turns, Before(t, s)
               PROVE  \/ t \in turn[s].context
                      \/ t \in session[s] /\ \A u \in turn[s].context : Older(t, u)
    BY DEF ContextIsComplete
  <2>1. Live(s)  BY DEF IInv, TypeOK, At
  <2>2. t \in session[s]
    <3>1. CASE t \in begun /\ t[1] = s /\ t[2] < number[s]
      <4>1. t # Current(s)  BY <3>1, BoundsAssumption DEF IInv, TypeOK, Current
      <4> QED  BY <2>1, <3>1, <4>1 DEF IInv, SessionOK
    <3>2. CASE t \in answered \ capped /\ Alone(t)
      BY <2>1, <3>2 DEF IInv, KeptOK, Due
    <3> QED  BY <3>1, <3>2 DEF Before
  <2>3. turn[s].context \in Trims(session[s]) /\ session[s] \in SUBSET Turns
    BY DEF IInv, ContextOK, TypeOK
  <2> QED  BY <2>2, <2>3, OldestGo
<1> QED  BY Invariant, <1>1, PTL
=============================================================================
