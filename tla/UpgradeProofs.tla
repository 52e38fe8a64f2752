---------------------------- MODULE UpgradeProofs ----------------------------
(* Theorems of Upgrade: the version that was installed last is never lost, *)
(* whatever fails or dies, however many commands overlap, and whatever     *)
(* happens to the daemon meanwhile; and commands that run one after the    *)
(* other keep hold of the daemon and of the version it runs, also when     *)
(* some of them fail or are interrupted and the vault is restored.         *)
EXTENDS Upgrade, TLAPS, FiniteSetTheorems

UpgradePCs == {"stage", "build", "migrate", "out", "in", "rotate"}

(* A command is a record; what is past the stop of the daemon is an        *)
(* upgrade to a version, and only the swap knows a backup.                 *)
Shaped(r) ==
  /\ r = [op |-> r.op, pc |-> r.pc, pid |-> r.pid, port |-> r.port,
          version |-> r.version, backup |-> r.backup]
  /\ r.op = "upgrade" => r.version \in Versions
  /\ r.pc \in UpgradePCs => r.op = "upgrade"
  /\ r.pc \notin {"in", "rotate"} => r.backup = None

CommandsOK ==
  /\ cmd = [c \in Cmds |-> cmd[c]]
  /\ \A c \in Cmds : cmd[c] # None => Shaped(cmd[c])

(* The staging folder is the lock of the upgrades.                         *)
Holds(c) == cmd[c] # None /\ cmd[c].pc \in {"build", "migrate", "out", "in"}

StagingOK ==
  /\ \A c \in Cmds : Holds(c) => staging # None
  /\ \A c, d \in Cmds : Holds(c) /\ Holds(d) => c = d

(* The backup a swap would put back is the version installed last.  With   *)
(* no backup kept at all nothing is said of them.                          *)
NoClaim == removed \/ Keep = 0

BackupOK ==
  /\ stamp \in Nat /\ Stamps \subseteq Nat
  /\ \A s \in Stamps : s <= stamp
  /\ \A c \in Cmds : At(c, "in") /\ cmd[c].backup \in Stamps /\ ~NoClaim
                       => prevs[cmd[c].backup] = last

(* Where the version installed last is: in place, or in the newest backup. *)
InPlaceOrNewest ==
  \/ NoClaim
  \/ install = last
  \/ install = None /\ stamp \in Stamps /\ prevs[stamp] = last

IInv == CommandsOK /\ StagingOK /\ BackupOK /\ InPlaceOrNewest

(* A step that leaves the folders alone and takes no command on into the   *)
(* part that holds the staging folder.                                     *)
Aside == \A c \in Cmds : Holds(c)' => Holds(c) /\ cmd'[c] = cmd[c]
LEMMA AsideKeepsInv ==
  ASSUME IInv, CommandsOK', Aside, UNCHANGED <<install, upVars>>
  PROVE  IInv'
<1> USE DEF IInv, NoClaim, upVars
<1>1. StagingOK'  BY DEF StagingOK, Aside
<1>2. BackupOK'
  <2>1. Stamps' = Stamps  BY DEF Stamps
  <2>2. \A c \in Cmds : At(c, "in")' => At(c, "in") /\ cmd'[c] = cmd[c]
    BY DEF Aside, Holds, At
  <2> QED  BY <2>1, <2>2 DEF BackupOK
<1>3. InPlaceOrNewest'  BY DEF InPlaceOrNewest, Stamps
<1> QED  BY <1>1, <1>2, <1>3

(* A command that ends, begins, or goes on to a step before the staging.   *)
Before == {"read", "probe", "stale", "spawn", "write", "health", "kill", "clean", "ask", "stage"}
LEMMA OneCommandMoves ==
  ASSUME CommandsOK, NEW c \in Cmds, NEW r,
         r = None \/ (Shaped(r) /\ r.pc \in Before),
         cmd' = [cmd EXCEPT ![c] = r]
  PROVE  CommandsOK' /\ Aside
  BY DEF CommandsOK, Aside, Holds, Before

(* The three ways in which the record of a command changes on its way.     *)
LEMMA Reshaped ==
  ASSUME NEW r, Shaped(r), r.backup = None, NEW pc \in Before \ UpgradePCs, NEW pid, NEW port
  PROVE  /\ Shaped([r EXCEPT !.pc = pc]) /\ [r EXCEPT !.pc = pc].pc \in Before
         /\ Shaped([r EXCEPT !.pid = pid, !.pc = pc]) /\ [r EXCEPT !.pid = pid, !.pc = pc].pc \in Before
         /\ Shaped([r EXCEPT !.pc = pc, !.pid = pid]) /\ [r EXCEPT !.pc = pc, !.pid = pid].pc \in Before
         /\ Shaped([r EXCEPT !.pc = pc, !.port = port]) /\ [r EXCEPT !.pc = pc, !.port = port].pc \in Before
<1> DEFINE New(q, x, y) == [op |-> r.op, pc |-> q, pid |-> x, port |-> y,
                            version |-> r.version, backup |-> None]
<1>1. r = New(r.pc, r.pid, r.port)  BY DEF Shaped
<1>2. \A x, y : Shaped(New(pc, x, y)) /\ New(pc, x, y).pc \in Before
  BY DEF Shaped, Before, UpgradePCs
<1>3. [r EXCEPT !.pc = pc] = New(pc, r.pid, r.port)  BY <1>1
<1>4. [r EXCEPT !.pid = pid, !.pc = pc] = New(pc, pid, r.port)
  <2>1. [r EXCEPT !.pid = pid] = New(r.pc, pid, r.port)  BY <1>1
  <2>2. [New(r.pc, pid, r.port) EXCEPT !.pc = pc] = New(pc, pid, r.port)  OBVIOUS
  <2>3. [r EXCEPT !.pid = pid, !.pc = pc] = [[r EXCEPT !.pid = pid] EXCEPT !.pc = pc]  OBVIOUS
  <2> HIDE DEF New
  <2> QED  BY <2>1, <2>2, <2>3
<1>5. [r EXCEPT !.pc = pc, !.pid = pid] = New(pc, pid, r.port)
  <2>1. [New(pc, r.pid, r.port) EXCEPT !.pid = pid] = New(pc, pid, r.port)  OBVIOUS
  <2>2. [r EXCEPT !.pc = pc, !.pid = pid] = [[r EXCEPT !.pc = pc] EXCEPT !.pid = pid]  OBVIOUS
  <2> HIDE DEF New
  <2> QED  BY <1>3, <2>1, <2>2
<1>6. [r EXCEPT !.pc = pc, !.port = port] = New(pc, r.pid, port)
  <2>1. [New(pc, r.pid, r.port) EXCEPT !.port = port] = New(pc, r.pid, port)  OBVIOUS
  <2>2. [r EXCEPT !.pc = pc, !.port = port] = [[r EXCEPT !.pc = pc] EXCEPT !.port = port]  OBVIOUS
  <2> HIDE DEF New
  <2> QED  BY <1>3, <2>1, <2>2
<1> HIDE DEF New
<1> QED  BY <1>2, <1>3, <1>4, <1>5, <1>6

LEMMA LifeStep ==
  ASSUME IInv, LifeNext, UNCHANGED upVars
  PROVE  IInv'
<1> USE DEF IInv, NoClaim
<1>0. ASSUME UNCHANGED cmd  PROVE CommandsOK' /\ Aside
  BY <1>0 DEF CommandsOK, Aside, Holds
<1>1. CASE \/ \E pid \in Pids : Boot(pid) \/ Crash(pid) \/ Reuse(pid)
           \/ Restore
  <2>1. UNCHANGED <<cmd, install>>  BY <1>1 DEF Boot, Crash, Reuse, Restore
  <2> QED  BY <2>1, <1>0, AsideKeepsInv
<1>2. ASSUME NEW c \in Cmds, Start(c) \/ Stop(c) \/ StartStep(c) \/ StopStep(c) \/ Interrupt(c)
      PROVE  IInv'
  <2>1. install' = install
    BY <1>2 DEF Start, Stop, StartStep, StopStep, Interrupt, ReadPid, CleanStale, Probe, Spawn,
                WritePid, Healthy, HealthTimeout, Unhealthy, ReadToStop, Kill
  <2>2. CommandsOK' /\ Aside
    <3>1. CASE Start(c) \/ Stop(c)
      <4> DEFINE r(op) == [op |-> op, pc |-> "read", pid |-> None, port |-> None,
                           version |-> None, backup |-> None]
      <4>1. PICK op \in {"start", "stop"} : cmd' = [cmd EXCEPT ![c] = r(op)]
        BY <3>1 DEF Start, Stop, Run
      <4>2. Shaped(r(op)) /\ r(op).pc \in Before
        BY DEF Shaped, UpgradePCs, Before
      <4> HIDE DEF r
      <4> QED  BY <4>1, <4>2, OneCommandMoves
    <3>2. CASE Interrupt(c)
      BY <3>2, OneCommandMoves DEF Interrupt, ExitBadly
    <3>3. CASE StartStep(c) \/ StopStep(c)
      <4>1. cmd[c] # None /\ Shaped(cmd[c])
        BY <3>3 DEF CommandsOK, StartStep, StopStep, ReadPid, CleanStale, Probe, Spawn, WritePid,
                    Healthy, HealthTimeout, Unhealthy, ReadToStop, Kill, At
      <4>2. cmd[c].backup = None
        BY <3>3, <4>1 DEF Shaped, StartStep, StopStep, ReadPid, CleanStale, Probe, Spawn, WritePid,
                    Healthy, HealthTimeout, Unhealthy, ReadToStop, Kill, At
      <4> DEFINE r == cmd[c]
                 Keeps(x) == cmd' = [cmd EXCEPT ![c] = x]
                 Allowed(x) == x = None \/ (Shaped(x) /\ x.pc \in Before)
      <4>3. \A pid, port : \A pc \in Before \ UpgradePCs :
              /\ Allowed([r EXCEPT !.pc = pc]) /\ Allowed([r EXCEPT !.pid = pid, !.pc = pc])
              /\ Allowed([r EXCEPT !.pc = pc, !.pid = pid]) /\ Allowed([r EXCEPT !.pc = pc, !.port = port])
        BY <4>1, <4>2, Reshaped
      <4>4. {"stale", "probe", "spawn", "write", "health", "kill", "clean"} \subseteq Before \ UpgradePCs
        BY DEF Before, UpgradePCs
      <4>5. \/ Keeps(None)
            \/ \E pid, port : \E pc \in {"stale", "probe", "spawn", "write", "health", "kill", "clean"} :
                 \/ Keeps([r EXCEPT !.pc = pc])
                 \/ Keeps([r EXCEPT !.pid = pid, !.pc = pc])
                 \/ Keeps([r EXCEPT !.pc = pc, !.pid = pid])
                 \/ Keeps([r EXCEPT !.pc = pc, !.port = port])
        <5>1. CASE ReadPid(c)
          BY <5>1 DEF ReadPid, Exit, Goto
        <5>2. CASE CleanStale(c) \/ WritePid(c)
          BY <5>2 DEF CleanStale, WritePid, Goto
        <5>3. CASE Healthy(c) \/ HealthTimeout(c)
          BY <5>3 DEF Healthy, HealthTimeout, Unhealthy, Exit
        <5>4. CASE Kill(c)
          BY <5>4 DEF Kill, Goto
        <5>5. CASE Probe(c)
          <6>1. CASE Free = {}  BY <5>5, <6>1 DEF Probe, Exit
          <6>2. CASE Free # {}
            <7>1. cmd' = [cmd EXCEPT ![c].pc = "spawn", ![c].port = Min(Free)]
              BY <5>5, <6>2 DEF Probe
            <7> QED  BY <7>1
          <6> QED  BY <6>1, <6>2
        <5>6. CASE Spawn(c)
          <6>1. CASE install = None  BY <5>6, <6>1 DEF Spawn, Exit
          <6>2. CASE install # None
            <7>1. PICK pid \in Pids : cmd' = [cmd EXCEPT ![c].pc = "write", ![c].pid = pid]
              BY <5>6, <6>2 DEF Spawn
            <7> QED  BY <7>1
          <6> QED  BY <6>1, <6>2
        <5>7. CASE ReadToStop(c)
          <6>1. cmd' = [cmd EXCEPT ![c].pid = pidFile, ![c].pc = IF Alive(pidFile) THEN "kill" ELSE "clean"]
            BY <5>7 DEF ReadToStop
          <6> QED  BY <6>1
        <5> QED  BY <3>3, <5>1, <5>2, <5>3, <5>4, <5>5, <5>6, <5>7 DEF StartStep, StopStep
      <4> HIDE DEF r, Keeps, Allowed
      <4>6. \E x : Keeps(x) /\ Allowed(x)
        <5>1. Allowed(None)  BY DEF Allowed
        <5> QED  BY <4>3, <4>4, <4>5, <5>1
      <4> QED  BY <4>6, OneCommandMoves DEF Keeps, Allowed
    <3> QED  BY <1>2, <3>1, <3>2, <3>3
  <2> QED  BY <2>1, <2>2, AsideKeepsInv
<1> QED  BY <1>1, <1>2 DEF LifeNext

(* A command goes on to step q.                                            *)
LEMMA StepShaped ==
  ASSUME NEW r, Shaped(r), NEW q,
         q \in UpgradePCs => r.op = "upgrade",
         q \notin {"in", "rotate"} => r.backup = None
  PROVE  /\ Shaped([r EXCEPT !.pc = q])
         /\ [r EXCEPT !.pc = q].pc = q
         /\ [r EXCEPT !.pc = q].backup = r.backup
<1> DEFINE new == [op |-> r.op, pc |-> q, pid |-> r.pid, port |-> r.port,
                   version |-> r.version, backup |-> r.backup]
<1>1. r = [op |-> r.op, pc |-> r.pc, pid |-> r.pid, port |-> r.port,
           version |-> r.version, backup |-> r.backup]  BY DEF Shaped
<1>2. [r EXCEPT !.pc = q] = new  BY <1>1
<1>3. Shaped(new) /\ new.pc = q /\ new.backup = r.backup  BY DEF Shaped
<1> QED  BY <1>2, <1>3

LEMMA GotoStep ==
  ASSUME CommandsOK, NEW c \in Cmds, NEW x, NEW q \in UpgradePCs, At(c, x),
         x \in UpgradePCs \/ cmd[c].op = "upgrade",
         q \in {"in", "rotate"} \/ x \notin {"in", "rotate"},
         cmd' = [cmd EXCEPT ![c].pc = q]
  PROVE  /\ CommandsOK'
         /\ cmd'[c].pc = q /\ cmd'[c].backup = cmd[c].backup
         /\ \A d \in Cmds \ {c} : cmd'[d] = cmd[d]
<1>1. Shaped(cmd[c]) /\ cmd[c].pc = x  BY DEF CommandsOK, At
<1>2. /\ q \in UpgradePCs => cmd[c].op = "upgrade"
      /\ q \notin {"in", "rotate"} => cmd[c].backup = None  BY <1>1 DEF Shaped
<1>3. cmd'[c] = [cmd[c] EXCEPT !.pc = q] /\ \A d \in Cmds \ {c} : cmd'[d] = cmd[d]
  BY DEF CommandsOK
<1>4. cmd' = [d \in Cmds |-> cmd'[d]]  BY DEF CommandsOK
<1> DEFINE r == cmd[c]
<1>a. /\ Shaped([r EXCEPT !.pc = q]) /\ [r EXCEPT !.pc = q].pc = q
      /\ [r EXCEPT !.pc = q].backup = r.backup
  <2> HIDE DEF r
  <2>1. Shaped(r) /\ (q \in UpgradePCs => r.op = "upgrade") /\ (q \notin {"in", "rotate"} => r.backup = None)
    BY <1>1, <1>2 DEF r
  <2> QED  BY <2>1, StepShaped
<1>5. Shaped(cmd'[c]) /\ cmd'[c].pc = q /\ cmd'[c].backup = cmd[c].backup
  BY <1>3, <1>a
<1> QED  BY <1>3, <1>4, <1>5 DEF CommandsOK

(* A command ends: nobody else gets the staging folder.                    *)
LEMMA ExitStep ==
  ASSUME CommandsOK, NEW c \in Cmds, cmd' = [cmd EXCEPT ![c] = None]
  PROVE  /\ CommandsOK' /\ cmd'[c] = None /\ Aside
         /\ \A d \in Cmds \ {c} : cmd'[d] = cmd[d]
  BY DEF CommandsOK, Aside, Holds

(* The steps that only begin, end or prepare.                              *)
LEMMA QuietStep ==
  ASSUME IInv, NEW c \in Cmds,
         \/ \E v \in Versions : UpgradeTo(c, v)
         \/ Uninstall(c) \/ CleanUp(c)
  PROVE  IInv'
<1> USE DEF IInv, NoClaim
<1>1. UNCHANGED <<install, upVars>>  BY DEF UpgradeTo, Uninstall, CleanUp, Cleaned
<1>2. CASE (\E v \in Versions : UpgradeTo(c, v)) \/ Uninstall(c)
  <2> DEFINE r(op, v) == [op |-> op, pc |-> "read", pid |-> None, port |-> None,
                          version |-> v, backup |-> None]
  <2>1. PICK op, v : /\ cmd' = [cmd EXCEPT ![c] = r(op, v)]
                     /\ op = "upgrade" => v \in Versions
    BY <1>2 DEF UpgradeTo, Uninstall, Run
  <2>2. Shaped(r(op, v)) /\ r(op, v).pc \in Before
    BY <2>1 DEF Shaped, UpgradePCs, Before
  <2> HIDE DEF r
  <2> QED  BY <1>1, <2>1, <2>2, OneCommandMoves, AsideKeepsInv
<1>3. CASE CleanUp(c)
  <2>1. /\ cmd[c] # None /\ cmd[c].pc = "clean"
        /\ \/ cmd' = [cmd EXCEPT ![c] = None]
           \/ cmd[c].op = "upgrade" /\ cmd' = [cmd EXCEPT ![c].pc = "stage"]
           \/ cmd' = [cmd EXCEPT ![c].pc = "ask"]
    BY <1>3 DEF CleanUp, Cleaned, At, Exit, Goto
  <2>2. Shaped(cmd[c]) /\ cmd[c].backup = None  BY <2>1 DEF CommandsOK, Shaped
  <2>3. \A q \in {"stage"} : cmd[c].op = "upgrade"
          => Shaped([cmd[c] EXCEPT !.pc = q]) /\ [cmd[c] EXCEPT !.pc = q].pc = q
    BY <2>2, StepShaped DEF UpgradePCs
  <2>4. Shaped([cmd[c] EXCEPT !.pc = "ask"]) /\ [cmd[c] EXCEPT !.pc = "ask"].pc = "ask"
    BY <2>2, StepShaped DEF UpgradePCs
  <2>5. PICK r : cmd' = [cmd EXCEPT ![c] = r] /\ (r = None \/ (Shaped(r) /\ r.pc \in Before))
    <3>1. CASE cmd' = [cmd EXCEPT ![c] = None]  BY <3>1
    <3>2. CASE cmd[c].op = "upgrade" /\ cmd' = [cmd EXCEPT ![c].pc = "stage"]
      BY <3>2, <2>3 DEF Before
    <3>3. CASE cmd' = [cmd EXCEPT ![c].pc = "ask"]  BY <3>3, <2>4 DEF Before
    <3> QED  BY <2>1, <3>1, <3>2, <3>3
  <2> QED  BY <1>1, <2>5, OneCommandMoves, AsideKeepsInv
<1> QED  BY <1>2, <1>3

(* Who holds the staging folder holds it alone.                            *)
LEMMA HolderMoves ==
  ASSUME IInv, NEW c \in Cmds,
         Holds(c) \/ (staging = None /\ cmd[c] # None),
         \A d \in Cmds \ {c} : cmd'[d] = cmd[d],
         Holds(c)' => staging' # None
  PROVE  /\ StagingOK'
         /\ \A d \in Cmds \ {c} : ~Holds(d) /\ ~Holds(d)' /\ ~At(d, "in")'
<1> USE DEF IInv, NoClaim
<1>1. \A d \in Cmds \ {c} : ~Holds(d)  BY DEF StagingOK
<1>2. \A d \in Cmds \ {c} : ~Holds(d)' /\ ~At(d, "in")'  BY <1>1 DEF Holds, At
<1> QED  BY <1>1, <1>2 DEF StagingOK

(* stage_upgrade, the build and the migrations.                            *)
LEMMA PrepareStep ==
  ASSUME IInv, NEW c \in Cmds, Stage(c) \/ Build(c) \/ Migrate(c)
  PROVE  IInv'
<1> USE DEF IInv, NoClaim
<1>1. CASE Stage(c) /\ staging # None
  <2>1. cmd' = [cmd EXCEPT ![c] = None] /\ UNCHANGED <<install, upVars>>
    BY <1>1 DEF Stage, Exit, upVars
  <2> QED  BY <2>1, ExitStep, AsideKeepsInv
<1>2. CASE ~(Stage(c) /\ staging # None)
  <2>1. UNCHANGED <<install, prevs, stamp, removed, last>>
    BY <1>2 DEF Stage, Build, Built, Migrate, upVars
  <2>2. \E x \in {"stage", "build", "migrate"}, q \in {"build", "migrate", "out"} :
          At(c, x) /\ cmd' = [cmd EXCEPT ![c].pc = q]
    BY <1>2 DEF Stage, Build, Built, Migrate, Goto
  <2>3. cmd[c] # None /\ cmd[c].op = "upgrade" /\ cmd[c].version \in Versions
    BY <2>2 DEF At, CommandsOK, Shaped, UpgradePCs
  <2>4. Holds(c) \/ staging = None
    BY <1>2 DEF Stage, Build, Built, Migrate, At, Holds
  <2>5. staging' # None
    <3>1. CASE Stage(c)  BY <3>1, <1>2, UpgradeAssumption DEF Stage
    <3>2. CASE Build(c)  BY <3>2, <2>3, LifecycleAssumption DEF Build, Built
    <3>3. CASE Migrate(c)  BY <3>3, <2>4 DEF Migrate, upVars, StagingOK, At, Holds
    <3> QED  BY <1>2, <3>1, <3>2, <3>3
  <2>6. /\ CommandsOK' /\ cmd'[c].pc \in {"build", "migrate", "out"}
        /\ \A d \in Cmds \ {c} : cmd'[d] = cmd[d]
    BY <2>2, GotoStep DEF UpgradePCs
  <2>7. /\ StagingOK' /\ \A d \in Cmds \ {c} : ~At(d, "in")'
    BY <2>3, <2>4, <2>5, <2>6, HolderMoves
  <2>8. \A d \in Cmds : ~At(d, "in")'  BY <2>6, <2>7 DEF At
  <2>9. BackupOK' /\ InPlaceOrNewest'
    BY <2>1, <2>8 DEF BackupOK, InPlaceOrNewest, Stamps
  <2> QED  BY <2>6, <2>7, <2>9
<1> QED  BY <1>1, <1>2

(* swap_in, first rename: the install becomes the newest backup.           *)
LEMMA SwapOutStep ==
  ASSUME IInv, NEW c \in Cmds, SwapOut(c)
  PROVE  IInv'
<1> USE DEF IInv, NoClaim
<1>1. /\ cmd[c] # None /\ cmd[c].pc = "out" /\ At(c, "out") /\ Holds(c)
      /\ UNCHANGED <<staging, removed, last>>
  BY DEF SwapOut, At, Holds
<1>2. Shaped(cmd[c]) /\ cmd[c].op = "upgrade" /\ cmd[c].backup = None /\ staging # None
  BY <1>1 DEF CommandsOK, Shaped, UpgradePCs, StagingOK
<1>3. CASE install = None
  <2>1. cmd' = [cmd EXCEPT ![c].pc = "in"] /\ UNCHANGED <<install, prevs, stamp>>
    BY <1>3 DEF SwapOut, Goto
  <2>2. /\ CommandsOK' /\ cmd'[c].backup = None
        /\ \A d \in Cmds \ {c} : cmd'[d] = cmd[d]
    BY <1>1, <1>2, <2>1, GotoStep DEF UpgradePCs
  <2>3. StagingOK' /\ \A d \in Cmds \ {c} : ~At(d, "in")'
    BY <1>1, <1>2, <2>2, HolderMoves
  <2>4. BackupOK' /\ InPlaceOrNewest'
    BY <1>1, <2>1, <2>2, <2>3, LifecycleAssumption DEF BackupOK, InPlaceOrNewest, Stamps
  <2> QED  BY <2>2, <2>3, <2>4
<1>4. CASE install # None
  <2> DEFINE r == cmd[c]
             new == [op |-> r.op, pc |-> "in", pid |-> r.pid, port |-> r.port,
                     version |-> r.version, backup |-> stamp + 1]
  <2>1. /\ stamp' = stamp + 1 /\ prevs' = Plus(prevs, stamp + 1, install) /\ install' = None
        /\ cmd' = [cmd EXCEPT ![c].pc = "in", ![c].backup = stamp + 1]
    BY <1>4 DEF SwapOut
  <2>2. [r EXCEPT !.pc = "in", !.backup = stamp + 1] = new
    <3>1. r = [op |-> r.op, pc |-> r.pc, pid |-> r.pid, port |-> r.port,
               version |-> r.version, backup |-> r.backup]  BY <1>2 DEF Shaped
    <3> DEFINE mid == [op |-> r.op, pc |-> "in", pid |-> r.pid, port |-> r.port,
                       version |-> r.version, backup |-> r.backup]
    <3>2. [r EXCEPT !.pc = "in"] = mid  BY <3>1
    <3>3. [mid EXCEPT !.backup = stamp + 1] = new  OBVIOUS
    <3>4. [r EXCEPT !.pc = "in", !.backup = stamp + 1]
            = [[r EXCEPT !.pc = "in"] EXCEPT !.backup = stamp + 1]  OBVIOUS
    <3> HIDE DEF r, new, mid
    <3> QED  BY <3>2, <3>3, <3>4
  <2>3. Shaped(new) /\ new.pc = "in" /\ new.backup = stamp + 1
    BY <1>2 DEF Shaped, UpgradePCs
  <2>4. cmd' = [cmd EXCEPT ![c] = new]
    BY <2>1, <2>2 DEF CommandsOK
  <2> HIDE DEF r, new
  <2>5. /\ CommandsOK' /\ cmd'[c] = new
        /\ \A d \in Cmds \ {c} : cmd'[d] = cmd[d]
    BY <2>3, <2>4 DEF CommandsOK
  <2>6. StagingOK' /\ \A d \in Cmds \ {c} : ~At(d, "in")'
    BY <1>1, <1>2, <2>5, HolderMoves
  <2>7. /\ stamp \in Nat /\ Stamps' = Stamps \cup {stamp + 1} /\ prevs'[stamp + 1] = install
        /\ \A s \in Stamps : prevs'[s] = prevs[s]
    BY <2>1 DEF BackupOK, Stamps, Plus
  <2>8. NoClaim \/ install = last  BY <1>4 DEF InPlaceOrNewest
  <2>9. InPlaceOrNewest'
    BY <1>1, <2>1, <2>7, <2>8 DEF InPlaceOrNewest
  <2>10. BackupOK'
    <3>1. \A s \in Stamps' : s \in Nat /\ s <= stamp'
      BY <2>1, <2>7 DEF BackupOK
    <3>2. \A d \in Cmds : At(d, "in")' => d = c /\ cmd'[d].backup = stamp + 1
      BY <2>3, <2>5, <2>6
    <3>3. ~NoClaim' => prevs'[stamp + 1] = last'
      BY <1>1, <2>7, <2>8
    <3> QED  BY <2>1, <2>7, <3>1, <3>2, <3>3 DEF BackupOK
  <2> QED  BY <2>5, <2>6, <2>9, <2>10
<1> QED  BY <1>3, <1>4

(* swap_in, second rename, or its failure; the clean-up of other failures. *)
LEMMA HolderEnds ==
  ASSUME IInv, NEW c \in Cmds, SwapIn(c) \/ SwapInFails(c) \/ UpgradeFails(c)
  PROVE  IInv'
<1> USE DEF IInv, NoClaim
<1>1. cmd[c] # None /\ Holds(c) /\ UNCHANGED <<stamp, removed>>
  BY DEF SwapIn, SwapInFails, UpgradeFails, At, Holds
<1>2. CommandsOK' /\ ~Holds(c)' /\ (\A d \in Cmds \ {c} : cmd'[d] = cmd[d]) /\ ~At(c, "in")'
  <2>1. CASE SwapIn(c)
    <3>1. At(c, "in") /\ cmd' = [cmd EXCEPT ![c].pc = "rotate"]  BY <2>1 DEF SwapIn, Goto
    <3>2. /\ CommandsOK' /\ cmd'[c].pc = "rotate"
          /\ \A d \in Cmds \ {c} : cmd'[d] = cmd[d]
      BY <3>1, GotoStep DEF UpgradePCs
    <3> QED  BY <3>2 DEF Holds, At
  <2>2. CASE SwapInFails(c) \/ UpgradeFails(c)
    <3>1. cmd' = [cmd EXCEPT ![c] = None]  BY <2>2 DEF SwapInFails, UpgradeFails, ExitBadly
    <3> QED  BY <3>1, ExitStep DEF Holds, At
  <2> QED  BY <2>1, <2>2
<1>3. StagingOK' /\ \A d \in Cmds : ~At(d, "in")'
  BY <1>1, <1>2, HolderMoves
<1>4. Stamps' \subseteq Stamps /\ InPlaceOrNewest'
  <2>1. CASE SwapIn(c)  BY <2>1 DEF SwapIn, InPlaceOrNewest, Stamps
  <2>2. CASE UpgradeFails(c)  BY <1>1, <2>2 DEF UpgradeFails, InPlaceOrNewest, Stamps
  <2>3. CASE SwapInFails(c)
    <3>1. last' = last  BY <2>3 DEF SwapInFails
    <3>2. CASE UNCHANGED <<install, prevs>>
      BY <1>1, <3>1, <3>2 DEF InPlaceOrNewest, Stamps
    <3>3. CASE ~UNCHANGED <<install, prevs>>
      <4> DEFINE b == cmd[c].backup
      <4>1. b \in Stamps /\ install' = prevs[b] /\ prevs' = Less(prevs, {b}) /\ At(c, "in")
        BY <2>3, <3>3 DEF SwapInFails
      <4>2. NoClaim \/ prevs[b] = last  BY <4>1 DEF BackupOK
      <4>3. Stamps' \subseteq Stamps  BY <4>1 DEF Stamps, Less
      <4> QED  BY <1>1, <3>1, <4>1, <4>2, <4>3 DEF InPlaceOrNewest
    <3> QED  BY <3>2, <3>3
  <2> QED  BY <2>1, <2>2, <2>3
<1>5. BackupOK'  BY <1>1, <1>3, <1>4 DEF BackupOK
<1> QED  BY <1>2, <1>3, <1>4, <1>5

(* _rotate_backups never removes the newest.                               *)
LEMMA RotateStep ==
  ASSUME IInv, NEW c \in Cmds, Rotate(c)
  PROVE  IInv'
<1> USE DEF IInv, NoClaim
<1>1. /\ cmd' = [cmd EXCEPT ![c] = None] /\ prevs' = Less(prevs, Stale)
      /\ UNCHANGED <<install, staging, stamp, removed, last>>
  BY DEF Rotate, Exit
<1>2. CommandsOK' /\ Aside /\ cmd'[c] = None /\ \A d \in Cmds \ {c} : cmd'[d] = cmd[d]
  BY <1>1, ExitStep
<1>3. StagingOK'  BY <1>1, <1>2 DEF StagingOK, Aside
<1>4. Stamps' = Stamps \ Stale /\ \A s \in Stamps' : prevs'[s] = prevs[s]
  BY <1>1 DEF Stamps, Less
<1>5. Keep = 0 \/ stamp \notin Stale
  <2>1. {t \in Stamps : t > stamp} = {}
    <3>1. \A t \in Stamps : ~(t > stamp)  BY DEF BackupOK
    <3> QED  BY <3>1
  <2>2. Cardinality({}) = 0  BY FS_EmptySet
  <2> QED  BY <2>1, <2>2, UpgradeAssumption DEF Stale
<1>6. \A d \in Cmds : At(d, "in")' => At(d, "in") /\ cmd'[d] = cmd[d]
  BY <1>2 DEF At
<1>7. BackupOK'
  <2>1. stamp' \in Nat /\ \A s \in Stamps' : s \in Nat /\ s <= stamp'
    BY <1>1, <1>4 DEF BackupOK
  <2>2. \A d \in Cmds : At(d, "in")' /\ cmd'[d].backup \in Stamps' /\ ~NoClaim'
          => prevs'[cmd'[d].backup] = last'
    <3> SUFFICES ASSUME NEW d \in Cmds, At(d, "in")', cmd'[d].backup \in Stamps', ~NoClaim'
                 PROVE  prevs'[cmd'[d].backup] = last'
      OBVIOUS
    <3>1. At(d, "in") /\ cmd'[d].backup = cmd[d].backup /\ cmd[d].backup \in Stamps
      BY <1>4, <1>6
    <3>2. prevs[cmd[d].backup] = last  BY <1>1, <3>1 DEF BackupOK
    <3> QED  BY <1>1, <1>4, <3>1, <3>2
  <2> QED  BY <2>1, <2>2 DEF BackupOK
<1>8. InPlaceOrNewest'  BY <1>1, <1>4, <1>5 DEF InPlaceOrNewest
<1> QED  BY <1>2, <1>3, <1>7, <1>8

(* brain uninstall removes the code, or is answered no.                    *)
LEMMA RemoveCodeStep ==
  ASSUME IInv, NEW c \in Cmds, RemoveCode(c)
  PROVE  IInv'
<1> USE DEF IInv, NoClaim
<1>1. cmd' = [cmd EXCEPT ![c] = None] /\ UNCHANGED <<staging, prevs, stamp, last>>
  BY DEF RemoveCode, Exit
<1>2. UNCHANGED <<install, removed>> \/ removed'  BY DEF RemoveCode
<1>3. CommandsOK' /\ Aside /\ cmd'[c] = None /\ \A d \in Cmds \ {c} : cmd'[d] = cmd[d]
  BY <1>1, ExitStep
<1>4. StagingOK'  BY <1>1, <1>3 DEF StagingOK, Aside
<1>5. Stamps' = Stamps  BY <1>1 DEF Stamps
<1>6. \A d \in Cmds : At(d, "in")' => At(d, "in") /\ cmd'[d] = cmd[d]
  BY <1>3 DEF At
<1>7. BackupOK'  BY <1>1, <1>2, <1>5, <1>6 DEF BackupOK
<1>8. InPlaceOrNewest'  BY <1>1, <1>2, <1>5 DEF InPlaceOrNewest
<1> QED  BY <1>3, <1>4, <1>7, <1>8

(* The user removes a staging folder that nobody works on.                 *)
LEMMA RemoveStagingStep ==
  ASSUME IInv, RemoveStaging
  PROVE  IInv'
<1> USE DEF IInv, NoClaim
<1>1. /\ \A c \in Cmds : cmd[c] = None
      /\ UNCHANGED <<cmd, install, prevs, stamp, removed, last>>
  BY DEF RemoveStaging, lifeVars, AtRest
<1> QED  BY <1>1 DEF CommandsOK, StagingOK, BackupOK, InPlaceOrNewest, Holds, Stamps, At

LEMMA InitialInv ==
  ASSUME InitUpgrade
  PROVE  IInv
<1> USE DEF NoClaim
<1>1. CommandsOK /\ StagingOK  BY DEF InitUpgrade, Init, CommandsOK, StagingOK, Holds
<1>2. Stamps = {}  BY DEF InitUpgrade, Stamps
<1>3. BackupOK /\ InPlaceOrNewest
  BY <1>2 DEF InitUpgrade, Init, BackupOK, InPlaceOrNewest
<1> QED  BY <1>1, <1>3 DEF IInv

LEMMA NextInv ==
  ASSUME IInv, [Next]_vars
  PROVE  IInv'
<1>1. CASE UNCHANGED vars
  BY <1>1 DEF vars, lifeVars, upVars, IInv, CommandsOK, StagingOK, BackupOK, InPlaceOrNewest,
              Holds, At, Stamps, NoClaim
<1>2. CASE LifeNext /\ UNCHANGED upVars  BY <1>2, LifeStep
<1>3. CASE \E c \in Cmds : (\E v \in Versions : UpgradeTo(c, v)) \/ Uninstall(c)
  BY <1>3, QuietStep
<1>4. ASSUME NEW c \in Cmds, UpgradeStep(c)  PROVE IInv'
  BY <1>4, QuietStep, PrepareStep, SwapOutStep, HolderEnds, RotateStep, RemoveCodeStep
     DEF UpgradeStep
<1>5. CASE RemoveStaging  BY <1>5, RemoveStagingStep
<1>6. CASE Exhausted  BY <1>1, <1>6 DEF Exhausted
<1> QED  BY <1>1, <1>2, <1>3, <1>4, <1>5, <1>6 DEF Next

LEMMA Invariant == Spec => []IInv
<1>1. InitUpgrade => IInv  BY InitialInv
<1>2. IInv /\ [Next]_vars => IInv'  BY NextInv
<1> QED  BY <1>1, <1>2, PTL DEF Spec

(* InstallAtHand: brain upgrade, with any number of terminals, versions,   *)
(* faults and overlapping commands, never loses the version it installed   *)
(* last (commands/upgrade.py, runtime/swap.py), if it keeps one backup.    *)
THEOREM InstallNeverLost ==
  ASSUME Keep > 0
  PROVE  Spec => []InstallAtHand
<1>1. IInv => InstallAtHand
  BY UpgradeAssumption DEF IInv, InPlaceOrNewest, InstallAtHand, NoClaim
<1> QED  BY <1>1, Invariant, PTL
-----------------------------------------------------------------------------
(* Types, the files of the daemon, and its code.                           *)

LEMMA LeastIsThere ==
  ASSUME NEW S, S \subseteq Nat, S # {}
  PROVE  Min(S) \in S /\ \A y \in S : Min(S) =< y
<1>1. PICK x \in S : \A y \in S : <<y, x>> \notin OpToRel(<, Nat)
  BY NatLessThanWellFounded, WFMin, Zenon
<1>2. \A y \in S : ~ (y < x)  BY <1>1, Zenon DEF OpToRel
<1>3. \A y \in S : x =< y
  <2>1. x \in Nat /\ \A y \in S : y \in Nat  OBVIOUS
  <2> QED  BY <1>2, <2>1
<1>4. \E m \in S : \A y \in S : m =< y  BY <1>3
<1> QED  BY <1>4, Zenon DEF Min

LEMMA LaterIsOne ==
  ASSUME NEW v \in Nat, NEW w \in Nat
  PROVE  Later(v, w) \in {v, w} /\ Later(v, w) >= v /\ Later(v, w) >= w
<1>1. \E x \in {v, w} : \A y \in {v, w} : x >= y  OBVIOUS
<1> QED  BY <1>1 DEF Later, Max

(* How the record of command c changes: it goes on to step q with what it  *)
(* has read, or it ends, or it is a new one.  All others stay.             *)
Commands == cmd \in [Cmds -> {None} \cup Command]
Others(c) == \A d \in Cmds \ {c} : cmd'[d] = cmd[d]
Goes(c, q, pid, port) ==
  /\ cmd[c] # None /\ cmd'[c] # None /\ Others(c)
  /\ cmd'[c].pc = q /\ cmd'[c].pid = pid /\ cmd'[c].port = port
  /\ cmd'[c].op = cmd[c].op /\ cmd'[c].version = cmd[c].version
Ends(c) == cmd'[c] = None /\ Others(c)
Begins(c, op, version) ==
  /\ cmd[c] = None /\ cmd'[c] # None /\ Others(c)
  /\ cmd'[c].pc = "read" /\ cmd'[c].op = op /\ cmd'[c].version = version

PCs == {"read", "stale", "probe", "spawn", "write", "health", "kill", "clean"}
         \cup {"ask", "stage", "build", "migrate", "out", "in", "rotate"}

LEMMA NoneIsNoCommand == None \notin Command /\ None \notin Process /\ None \notin Pids /\ None \notin Nat
  BY LifecycleAssumption

LEMMA Someone == (\E port : port \in Ports) /\ (\E b : b \in Nat)
  BY LifecycleAssumption

(* What a record is after two of its fields have changed.                  *)
Written(r, x, q, pid, port) ==
  /\ x \in Command /\ x.pc = q /\ x.pid = pid /\ x.port = port
  /\ x.op = r.op /\ x.version = r.version

LEMMA NewRecord ==
  ASSUME NEW r \in Command, NEW q \in PCs, NEW pid \in Pids \cup {None},
         NEW port \in Ports, NEW b \in Nat
  PROVE  /\ Written(r, [r EXCEPT !.pc = q], q, r.pid, r.port)
         /\ Written(r, [r EXCEPT !.pc = q, !.pid = pid], q, pid, r.port)
         /\ Written(r, [r EXCEPT !.pid = pid, !.pc = q], q, pid, r.port)
         /\ Written(r, [r EXCEPT !.pc = q, !.port = port], q, r.pid, port)
         /\ Written(r, [r EXCEPT !.pc = q, !.backup = b], q, r.pid, r.port)
<1> DEFINE N(c, x, y, z) == [op |-> r.op, pc |-> c, pid |-> x, port |-> y,
                             version |-> r.version, backup |-> z]
<1>1. r = N(r.pc, r.pid, r.port, r.backup)  BY DEF Command
<1>2. /\ r.op \in {"start", "stop", "upgrade", "uninstall"} /\ r.pid \in Pids \cup {None}
      /\ r.port \in Ports \cup {None} /\ r.version \in Versions \cup {None}
      /\ r.backup \in Nat \cup {None} /\ r.pc \in PCs
  BY DEF Command, PCs
<1>3. \A x \in Pids \cup {None}, y \in Ports \cup {None}, z \in Nat \cup {None} :
        Written(r, N(q, x, y, z), q, x, y)
  BY <1>2 DEF Written, Command, PCs
<1>4. /\ [r EXCEPT !.pc = q] = N(q, r.pid, r.port, r.backup)
      /\ [r EXCEPT !.pid = pid] = N(r.pc, pid, r.port, r.backup)
  BY <1>1
<1>5. /\ [N(q, r.pid, r.port, r.backup) EXCEPT !.pid = pid] = N(q, pid, r.port, r.backup)
      /\ [N(r.pc, pid, r.port, r.backup) EXCEPT !.pc = q] = N(q, pid, r.port, r.backup)
      /\ [N(q, r.pid, r.port, r.backup) EXCEPT !.port = port] = N(q, r.pid, port, r.backup)
      /\ [N(q, r.pid, r.port, r.backup) EXCEPT !.backup = b] = N(q, r.pid, r.port, b)
  OBVIOUS
<1>6. /\ [r EXCEPT !.pc = q, !.pid = pid] = [[r EXCEPT !.pc = q] EXCEPT !.pid = pid]
      /\ [r EXCEPT !.pid = pid, !.pc = q] = [[r EXCEPT !.pid = pid] EXCEPT !.pc = q]
      /\ [r EXCEPT !.pc = q, !.port = port] = [[r EXCEPT !.pc = q] EXCEPT !.port = port]
      /\ [r EXCEPT !.pc = q, !.backup = b] = [[r EXCEPT !.pc = q] EXCEPT !.backup = b]
  OBVIOUS
<1> HIDE DEF N
<1>7. /\ [r EXCEPT !.pc = q, !.pid = pid] = N(q, pid, r.port, r.backup)
      /\ [r EXCEPT !.pid = pid, !.pc = q] = N(q, pid, r.port, r.backup)
  BY <1>4, <1>5, <1>6
<1>8. /\ [r EXCEPT !.pc = q, !.port = port] = N(q, r.pid, port, r.backup)
      /\ [r EXCEPT !.pc = q, !.backup = b] = N(q, r.pid, r.port, b)
  BY <1>4, <1>5, <1>6
<1>9. Written(r, N(q, r.pid, r.port, r.backup), q, r.pid, r.port)  BY <1>2, <1>3
<1>10. Written(r, N(q, pid, r.port, r.backup), q, pid, r.port)  BY <1>2, <1>3
<1>11. Written(r, N(q, r.pid, port, r.backup), q, r.pid, port)  BY <1>2, <1>3
<1>12. Written(r, N(q, r.pid, r.port, b), q, r.pid, r.port)  BY <1>2, <1>3
<1> QED  BY <1>4, <1>7, <1>8, <1>9, <1>10, <1>11, <1>12

LEMMA GoesOn ==
  ASSUME Commands, NEW c \in Cmds, cmd[c] # None, NEW q \in PCs,
         cmd' = [cmd EXCEPT ![c].pc = q]
  PROVE  Commands' /\ Goes(c, q, cmd[c].pid, cmd[c].port)
<1>1. cmd[c] \in Command  BY DEF Commands
<1>2. cmd'[c] = [cmd[c] EXCEPT !.pc = q] /\ Others(c)  BY DEF Commands, Others
<1>3. Written(cmd[c], cmd'[c], q, cmd[c].pid, cmd[c].port)
  BY <1>1, <1>2, NewRecord, Someone
<1>4. cmd'[c] \in Command /\ Goes(c, q, cmd[c].pid, cmd[c].port)
  BY <1>2, <1>3, NoneIsNoCommand DEF Goes, Written
<1> QED  BY <1>2, <1>4 DEF Commands, Others

LEMMA ReadsOn ==
  ASSUME Commands, NEW c \in Cmds, cmd[c] # None, NEW q \in PCs, NEW pid \in Pids \cup {None},
         \/ cmd' = [cmd EXCEPT ![c].pid = pid, ![c].pc = q]
         \/ cmd' = [cmd EXCEPT ![c].pc = q, ![c].pid = pid]
  PROVE  Commands' /\ Goes(c, q, pid, cmd[c].port)
<1>1. cmd[c] \in Command  BY DEF Commands
<1>2. Others(c) /\ (\/ cmd'[c] = [cmd[c] EXCEPT !.pid = pid, !.pc = q]
                   \/ cmd'[c] = [cmd[c] EXCEPT !.pc = q, !.pid = pid])
  BY DEF Commands, Others
<1>3. /\ Written(cmd[c], [cmd[c] EXCEPT !.pc = q, !.pid = pid], q, pid, cmd[c].port)
      /\ Written(cmd[c], [cmd[c] EXCEPT !.pid = pid, !.pc = q], q, pid, cmd[c].port)
  BY <1>1, NewRecord, Someone
<1>4. Written(cmd[c], cmd'[c], q, pid, cmd[c].port)
  BY <1>2, <1>3
<1>5. cmd'[c] \in Command /\ Goes(c, q, pid, cmd[c].port)
  BY <1>2, <1>4, NoneIsNoCommand DEF Goes, Written
<1> QED  BY <1>2, <1>5 DEF Commands, Others

LEMMA ProbesOn ==
  ASSUME Commands, NEW c \in Cmds, cmd[c] # None, NEW q \in PCs, NEW port \in Ports,
         cmd' = [cmd EXCEPT ![c].pc = q, ![c].port = port]
  PROVE  Commands' /\ Goes(c, q, cmd[c].pid, port)
<1>1. cmd[c] \in Command  BY DEF Commands
<1>2. Others(c) /\ cmd'[c] = [cmd[c] EXCEPT !.pc = q, !.port = port]
  BY DEF Commands, Others
<1>3. Written(cmd[c], cmd'[c], q, cmd[c].pid, port)
  BY <1>1, <1>2, NewRecord, Someone
<1>4. cmd'[c] \in Command /\ Goes(c, q, cmd[c].pid, port)
  BY <1>2, <1>3, NoneIsNoCommand DEF Goes, Written
<1> QED  BY <1>2, <1>4 DEF Commands, Others

LEMMA SwapsOn ==
  ASSUME Commands, NEW c \in Cmds, cmd[c] # None, NEW q \in PCs, NEW b \in Nat,
         cmd' = [cmd EXCEPT ![c].pc = q, ![c].backup = b]
  PROVE  Commands' /\ Goes(c, q, cmd[c].pid, cmd[c].port)
<1>1. cmd[c] \in Command  BY DEF Commands
<1>2. Others(c) /\ cmd'[c] = [cmd[c] EXCEPT !.pc = q, !.backup = b]
  BY DEF Commands, Others
<1>3. Written(cmd[c], cmd'[c], q, cmd[c].pid, cmd[c].port)
  BY <1>1, <1>2, NewRecord, Someone
<1>4. cmd'[c] \in Command /\ Goes(c, q, cmd[c].pid, cmd[c].port)
  BY <1>2, <1>3, NoneIsNoCommand DEF Goes, Written
<1> QED  BY <1>2, <1>4 DEF Commands, Others

LEMMA EndsNow ==
  ASSUME Commands, NEW c \in Cmds, cmd' = [cmd EXCEPT ![c] = None]
  PROVE  Commands' /\ Ends(c)
  BY DEF Commands, Ends, Others

LEMMA BeginsNow ==
  ASSUME Commands, NEW c \in Cmds, NEW op \in {"start", "stop", "upgrade", "uninstall"},
         NEW v \in Versions \cup {None}, Run(c, op, v)
  PROVE  Commands' /\ Begins(c, op, v)
<1> DEFINE r == [op |-> op, pc |-> "read", pid |-> None, port |-> None, version |-> v, backup |-> None]
<1>1. r \in Command /\ r.pc = "read" /\ r.op = op /\ r.version = v  BY DEF Command
<1>2. cmd[c] = None /\ cmd' = [cmd EXCEPT ![c] = r]  BY DEF Run
<1> HIDE DEF r
<1> QED  BY <1>1, <1>2, NoneIsNoCommand DEF Commands, Begins, Others

-----------------------------------------------------------------------------
(* What is true of the daemon, its files and its code.  First the types,   *)
(* in parts: a brain_api always has a version.                             *)
Machine ==
  /\ procs \in [Pids -> {None} \cup Process]
  /\ pidFile \in {None} \cup Pids /\ portFile \in {None} \cup Ports
  /\ \A d \in Daemons : procs[d].version \in Versions
Folders ==
  /\ install \in {None} \cup Versions /\ schema \in Versions
  /\ staging \in {None, Partial} \cup Versions /\ stamp \in Nat /\ last \in Versions
  /\ \A s \in Stamps : prevs[s] \in Versions
Flags ==
  /\ orderly \in BOOLEAN /\ removed \in BOOLEAN
  /\ astray \subseteq Pids /\ left \in {None} \cup Versions
Staged == \A c \in Cmds : cmd[c] # None /\ cmd[c].pc \in {"migrate", "out", "in"} => staging \in Versions

TypeInv == Machine /\ Folders /\ Flags /\ Commands /\ Staged

(* The files lead to the daemon that is not astray while one may run, and  *)
(* each command knows it: after it has been stopped, or found missing,     *)
(* there is none.                                                          *)
Led(d) == pidFile = d /\ portFile = procs[d].port
Guided(c) ==
  /\ cmd[c].pc \in {"read", "kill", "health"} => \A d \in Known : Led(d)
  /\ cmd[c].pc \in {"kill", "health"} => cmd[c].pid = pidFile
  /\ cmd[c].pc = "write" => \A d \in Known : cmd[c].pid = d /\ portFile = procs[d].port
  /\ cmd[c].pc = "spawn" => cmd[c].port = portFile
  /\ cmd[c].pc \notin {"read", "kill", "health", "write"} => Known = {}
OrderInv ==
  orderly =>
    /\ \A c, d \in Cmds : cmd[c] # None /\ cmd[d] # None => c = d
    /\ AtRest => \A d \in Known : Led(d)
    /\ \A c \in Cmds : cmd[c] # None => Guided(c)

(* A version fits the schema when it is not older, or when a failed        *)
(* upgrade has left the schema at that.  The install fits, but for the     *)
(* time between the migrations and the swap of an upgrade, and what the    *)
(* swap will put in its place fits then.                                   *)
Fits(v) == v >= schema \/ schema = left
Swapping(c) == cmd[c] # None /\ cmd[c].pc \in {"out", "in"}
Sound == install # None => Fits(install)
Ahead(c) ==
  /\ cmd[c].pc \in {"out", "in"} => cmd[c].version <= schema /\ Fits(cmd[c].version)
  /\ cmd[c].pc \in {"migrate", "out", "in"} => staging = cmd[c].version
  /\ cmd[c].op = "upgrade" /\ cmd[c].pc \in {"read", "kill", "clean", "stage", "build", "migrate"}
       => install # None /\ install < cmd[c].version

(* No code at hand, installed, kept or running, is newer than the schema:  *)
(* a daemon that starts has nothing to migrate.                            *)
Covers ==
  /\ install # None => install <= schema
  /\ \A s \in Stamps : prevs[s] <= schema
  /\ \A d \in Daemons : procs[d].version <= schema

CodeInv ==
  orderly =>
    /\ (\A c \in Cmds : ~Swapping(c)) => Sound
    /\ \A c \in Cmds : cmd[c] # None => Ahead(c)
    /\ \A d \in Known : procs[d].version = install
    /\ Covers

DaemonInv == TypeInv /\ OrderInv /\ CodeInv

LEMMA InvGives ==
  ASSUME DaemonInv
  PROVE  TypeOK /\ Tracked /\ DaemonCurrent
<1> USE DEF DaemonInv
<1>1. TypeOK  BY DEF TypeInv, Machine, Folders, Flags, Commands, Staged, TypeOK
<1>2. Tracked  BY DEF OrderInv, Tracked, Led
<1>3. ASSUME orderly, NEW d \in Known
      PROVE  procs[d].version = install /\ (procs[d].version >= schema \/ schema = left)
  <2>1. \A c \in Cmds : ~Swapping(c)  BY <1>3 DEF OrderInv, Guided, Swapping
  <2>2. install # None
    BY <1>3, LifecycleAssumption DEF CodeInv, TypeInv, Machine, Known
  <2> QED  BY <1>3, <2>1, <2>2 DEF CodeInv, Sound, Fits
<1>4. ASSUME orderly, NEW c \in Cmds, Upgrading(c)  PROVE Known = {}
  BY <1>4 DEF OrderInv, Guided, Upgrading
<1>5. DaemonCurrent  BY <1>3, <1>4 DEF DaemonCurrent
<1> QED  BY <1>1, <1>2, <1>5

(* What becomes of the daemons.                                            *)
LEMMA DaemonIs ==
  ASSUME Machine
  PROVE  \A d : d \in Daemons <=> d \in Pids /\ procs[d] # None /\ procs[d].kind = "brain_api"
  BY NoneIsNoCommand DEF Machine, Daemons, IsBrainApi, Alive

Fewer(ds) == Daemons' \subseteq ds
               /\ \A d \in Daemons' : procs'[d].port = procs[d].port /\ procs'[d].version = procs[d].version

LEMMA ProcessEnds ==
  ASSUME Machine, NEW pid, procs' = [procs EXCEPT ![pid] = None]
  PROVE  procs' \in [Pids -> {None} \cup Process] /\ Fewer(Daemons \ {pid})
  BY NoneIsNoCommand DEF Machine, Daemons, IsBrainApi, Alive, Fewer

LEMMA StrangerComes ==
  ASSUME Machine, NEW pid \in Pids, procs' = [procs EXCEPT ![pid] = Stranger]
  PROVE  procs' \in [Pids -> {None} \cup Process] /\ Fewer(Daemons \ {pid})
<1>1. Stranger \in Process /\ Stranger.kind = "other"  BY DEF Stranger, Process
<1> HIDE DEF Stranger
<1> QED  BY <1>1, NoneIsNoCommand DEF Machine, Daemons, IsBrainApi, Alive, Fewer

LEMMA ServesNow ==
  ASSUME Machine, NEW pid \in Daemons, procs' = [procs EXCEPT ![pid].state = "serving"]
  PROVE  procs' \in [Pids -> {None} \cup Process] /\ Fewer(Daemons)
<1>1. pid \in Pids /\ procs[pid] \in Process  BY DEF Daemons, IsBrainApi, Alive, Machine
<1>2. procs' = [procs EXCEPT ![pid] = [procs[pid] EXCEPT !.state = "serving"]]  OBVIOUS
<1>3. /\ [procs[pid] EXCEPT !.state = "serving"] \in Process
      /\ [procs[pid] EXCEPT !.state = "serving"].port = procs[pid].port
      /\ [procs[pid] EXCEPT !.state = "serving"].version = procs[pid].version
      /\ [procs[pid] EXCEPT !.state = "serving"].kind = procs[pid].kind
  BY <1>1 DEF Process
<1>4. /\ procs'[pid] \in Process
      /\ procs'[pid].port = procs[pid].port /\ procs'[pid].version = procs[pid].version
      /\ procs'[pid].kind = procs[pid].kind
      /\ \A p \in Pids \ {pid} : procs'[p] = procs[p]
      /\ procs' \in [Pids -> {None} \cup Process]
  BY <1>1, <1>2, <1>3 DEF Machine
<1>5. \A d \in Daemons' : d \in Daemons
  BY <1>1, <1>4, NoneIsNoCommand DEF Daemons, IsBrainApi, Alive
<1>6. \A d \in Daemons' : d \in Pids  BY DEF Daemons
<1> QED  BY <1>4, <1>5, <1>6 DEF Fewer

LEMMA DaemonComes ==
  ASSUME Machine, NEW pid \in Pids, NEW port \in Ports \cup {None}, NEW v \in Versions,
         procs' = [procs EXCEPT ![pid] = [kind |-> "brain_api", port |-> port,
                                          state |-> "booting", version |-> v]]
  PROVE  /\ procs' \in [Pids -> {None} \cup Process]
         /\ Daemons' \subseteq Daemons \cup {pid}
         /\ procs'[pid].port = port /\ procs'[pid].version = v
         /\ \A d \in Daemons' \ {pid} : procs'[d] = procs[d]
<1> DEFINE new == [kind |-> "brain_api", port |-> port, state |-> "booting", version |-> v]
<1>1. new \in Process /\ new.port = port /\ new.version = v  BY DEF Process
<1>2. procs' = [procs EXCEPT ![pid] = new]  OBVIOUS
<1> HIDE DEF new
<1> QED  BY <1>1, <1>2, NoneIsNoCommand DEF Machine, Daemons, IsBrainApi, Alive

LEMMA KnownFewer ==
  ASSUME Fewer(Daemons), astray \subseteq astray'
  PROVE  /\ Known' \subseteq Known
         /\ \A d \in Known' : procs'[d].port = procs[d].port /\ procs'[d].version = procs[d].version
  BY DEF Known, Fewer

LEMMA CoversFewer ==
  ASSUME Covers, Fewer(Daemons), UNCHANGED <<install, schema, prevs>>
  PROVE  Covers'
  BY DEF Covers, Fewer, Stamps

LEMMA SameCode ==
  ASSUME Sound, Covers, UNCHANGED <<procs, install, schema, left, prevs>>, Daemons' = Daemons
  PROVE  Sound' /\ Covers'
  BY DEF Sound, Fits, Covers, Stamps

(* The steps of the processes: no command moves, no daemon comes.          *)
LEMMA OrderWithFewer ==
  ASSUME OrderInv, UNCHANGED <<cmd, orderly, astray, runFiles>>, Fewer(Daemons)
  PROVE  OrderInv'
<1>1. \A d \in Known' : d \in Known /\ (Led(d) => Led(d)') /\ procs'[d].port = procs[d].port
  BY KnownFewer DEF Led, runFiles
<1>2. Known = {} => Known' = {}  BY <1>1
<1>3. \A c \in Cmds : Guided(c) => Guided(c)'
  BY <1>1, <1>2 DEF Guided, runFiles
<1>4. AtRest' => AtRest  BY DEF AtRest
<1> QED  BY <1>1, <1>3, <1>4 DEF OrderInv

LEMMA CodeWithFewer ==
  ASSUME CodeInv, UNCHANGED <<cmd, install, staging, prevs, left>>, Fewer(Daemons),
         orderly' => orderly /\ schema' = schema, astray \subseteq astray'
  PROVE  CodeInv'
<1> SUFFICES ASSUME orderly, orderly', schema' = schema  PROVE CodeInv'
  BY DEF CodeInv
<1>1. \A c \in Cmds : (Swapping(c)' <=> Swapping(c)) /\ (Ahead(c) => Ahead(c)')
  BY DEF Swapping, Ahead, Fits
<1>2. \A d \in Known' : procs'[d].version = install'  BY KnownFewer DEF CodeInv
<1>3. Sound => Sound'  BY DEF Sound, Fits
<1>4. Covers'  BY CoversFewer DEF CodeInv
<1> QED  BY <1>1, <1>2, <1>3, <1>4 DEF CodeInv

LEMMA TypesWithFewer ==
  ASSUME TypeInv, UNCHANGED <<cmd, install, upVars>>, procs' \in [Pids -> {None} \cup Process],
         Fewer(Daemons), schema' \in Versions, UNCHANGED left,
         orderly' \in BOOLEAN, astray' \subseteq Pids,
         UNCHANGED runFiles \/ (pidFile' = None /\ portFile' = None)
  PROVE  TypeInv'
<1>1. Machine'
  <2>1. pidFile' \in {None} \cup Pids /\ portFile' \in {None} \cup Ports
    BY DEF TypeInv, Machine, runFiles
  <2>2. \A d \in Daemons' : procs'[d].version \in Versions  BY DEF TypeInv, Machine, Fewer
  <2> QED  BY <2>1, <2>2 DEF Machine
<1>2. Folders' /\ Flags' /\ Commands' /\ Staged'
  BY DEF TypeInv, Folders, Flags, Commands, Staged, upVars, Stamps
<1> QED  BY <1>1, <1>2 DEF TypeInv

LEMMA BootStep ==
  ASSUME DaemonInv, NEW pid \in Pids, Boot(pid), UNCHANGED upVars
  PROVE  DaemonInv'
<1> USE DEF DaemonInv
<1>1. /\ pid \in Daemons /\ schema' = Later(schema, procs[pid].version)
      /\ UNCHANGED <<runFiles, cmd, install, orderly, astray, left>>
  BY DEF Boot, Daemons, history
<1>2. procs[pid].version \in Versions /\ schema \in Versions  BY <1>1 DEF TypeInv, Machine, Folders
<1>3. /\ schema' \in {schema, procs[pid].version} /\ schema' \in Versions
      /\ schema \in Nat /\ procs[pid].version \in Nat
  BY <1>1, <1>2, LaterIsOne, LifecycleAssumption
<1>4. procs' \in [Pids -> {None} \cup Process] /\ Fewer(Daemons)
  <2>1. CASE Bound(procs[pid].port)
    <3>1. procs' = [procs EXCEPT ![pid] = None]  BY <2>1 DEF Boot
    <3> QED  BY <3>1, ProcessEnds DEF TypeInv, Fewer
  <2>2. CASE ~Bound(procs[pid].port)
    <3>1. procs' = [procs EXCEPT ![pid].state = "serving"]  BY <2>2 DEF Boot
    <3> QED  BY <1>1, <3>1, ServesNow DEF TypeInv
  <2> QED  BY <2>1, <2>2
<1>5. orderly' \in BOOLEAN /\ astray' \subseteq Pids  BY <1>1 DEF TypeInv, Flags
<1>6. TypeInv'  BY <1>1, <1>3, <1>4, <1>5, TypesWithFewer
<1>7. OrderInv'  BY <1>1, <1>4, OrderWithFewer
<1>8. orderly => schema' = schema
  <2>1. orderly => procs[pid].version <= schema  BY <1>1 DEF CodeInv, Covers
  <2>2. Later(schema, procs[pid].version) >= schema /\ Later(schema, procs[pid].version) >= procs[pid].version
    BY <1>3, LaterIsOne
  <2> QED  BY <1>1, <1>3, <2>1, <2>2
<1>9. CodeInv'
  BY <1>1, <1>4, <1>8, CodeWithFewer DEF upVars
<1> QED  BY <1>6, <1>7, <1>9

LEMMA ProcessStep ==
  ASSUME DaemonInv, UNCHANGED upVars, Restore \/ \E pid \in Pids : Crash(pid) \/ Reuse(pid)
  PROVE  DaemonInv'
<1> USE DEF DaemonInv
<1>1. UNCHANGED <<cmd, install, schema, staging, prevs, left>>
  BY DEF Crash, Reuse, Restore, upVars, history
<1>2. schema' \in Versions  BY <1>1 DEF TypeInv, Folders
<1>3. CASE Restore
  <2>1. /\ pidFile' = None /\ portFile' = None /\ procs' = procs
        /\ orderly' = (orderly /\ AtRest) /\ astray' = astray \cup Daemons
    BY <1>3 DEF Restore
  <2>2. procs' \in [Pids -> {None} \cup Process] /\ Fewer(Daemons) /\ Daemons' = Daemons
    BY <2>1 DEF TypeInv, Machine, Fewer, Daemons, IsBrainApi, Alive
  <2>3. orderly' \in BOOLEAN /\ astray' \subseteq Pids
    <3>1. Daemons \subseteq Pids  BY DEF Daemons
    <3> QED  BY <2>1, <3>1 DEF TypeInv, Flags, AtRest
  <2>4. TypeInv'  BY <1>1, <1>2, <2>1, <2>2, <2>3, TypesWithFewer
  <2>5. Known' = {}  BY <2>1, <2>2 DEF Known
  <2>6. OrderInv'
    <3>1. orderly' => \A c \in Cmds : cmd'[c] = None  BY <1>1, <2>1 DEF AtRest
    <3> QED  BY <2>5, <3>1 DEF OrderInv
  <2>7. CodeInv'  BY <1>1, <2>1, <2>2, CodeWithFewer
  <2> QED  BY <2>4, <2>6, <2>7
<1>4. CASE \E pid \in Pids : Crash(pid) \/ Reuse(pid)
  <2>1. PICK pid \in Pids : \/ procs' = [procs EXCEPT ![pid] = None]
                            \/ procs' = [procs EXCEPT ![pid] = Stranger]
    BY <1>4 DEF Crash, Reuse
  <2>2. UNCHANGED <<runFiles, orderly, astray>>  BY <1>4 DEF Crash, Reuse, history
  <2>3. procs' \in [Pids -> {None} \cup Process] /\ Fewer(Daemons)
    BY <2>1, ProcessEnds, StrangerComes DEF TypeInv, Fewer
  <2>4. orderly' \in BOOLEAN /\ astray' \subseteq Pids  BY <2>2 DEF TypeInv, Flags
  <2>5. TypeInv'  BY <1>1, <1>2, <2>2, <2>3, <2>4, TypesWithFewer
  <2> QED  BY <1>1, <2>2, <2>3, <2>5, OrderWithFewer, CodeWithFewer
<1> QED  BY <1>3, <1>4

-----------------------------------------------------------------------------
(* A step of one command: while commands are orderly it is the only one.   *)
LEMMA Alone ==
  ASSUME OrderInv, NEW c \in Cmds, cmd[c] # None, Others(c), orderly
  PROVE  \A d \in Cmds \ {c} : cmd[d] = None /\ cmd'[d] = None
  BY DEF OrderInv, Others

LEMMA OrderByOne ==
  ASSUME NEW c \in Cmds,
         orderly' => \A d \in Cmds \ {c} : cmd'[d] = None,
         orderly' /\ cmd'[c] = None => \A d \in Known' : Led(d)',
         orderly' /\ cmd'[c] # None => Guided(c)'
  PROVE  OrderInv'
  BY DEF OrderInv, AtRest

LEMMA CodeByOne ==
  ASSUME NEW c \in Cmds,
         orderly' => \A d \in Cmds \ {c} : cmd'[d] = None,
         orderly' /\ cmd'[c] # None => Ahead(c)',
         orderly' /\ ~Swapping(c)' => Sound',
         orderly' => (\A d \in Known' : procs'[d].version = install') /\ Covers'
  PROVE  CodeInv'
<1> SUFFICES ASSUME orderly'  PROVE CodeInv'
  BY DEF CodeInv
<1>1. \A d \in Cmds : cmd'[d] # None => Ahead(d)'  OBVIOUS
<1>2. (\A d \in Cmds : ~Swapping(d)') => Sound'  OBVIOUS
<1> QED  BY <1>1, <1>2 DEF CodeInv

LEMMA TypesByOne ==
  ASSUME TypeInv, NEW c \in Cmds, Commands', Others(c), Machine', Folders', Flags',
         UNCHANGED staging,
         cmd'[c] # None /\ cmd'[c].pc \in {"migrate", "out", "in"} => staging \in Versions
  PROVE  TypeInv'
<1>1. Staged'  BY DEF TypeInv, Staged, Others
<1> QED  BY <1>1 DEF TypeInv

(* The steps of brain start and brain stop but the one that makes a        *)
(* daemon, and the same steps of the other two commands.                   *)
LEMMA CommandMoves ==
  ASSUME DaemonInv, NEW c \in Cmds, cmd[c] # None, cmd[c].pc \notin {"migrate", "out", "in"},
         UNCHANGED <<install, schema, orderly, astray, left, upVars>>,
         Commands', procs' \in [Pids -> {None} \cup Process], Fewer(Daemons),
         pidFile' \in {None} \cup Pids, portFile' \in {None} \cup Ports,
         Ends(c) \/ \E pid, port : \E q \in PCs \ {"read", "build", "migrate", "out", "in"} :
                      /\ Goes(c, q, pid, port)
                      /\ q \in {"kill", "clean", "stage"} => cmd[c].pc \in {"read", "kill", "clean"},
         orderly /\ cmd'[c] = None => \A d \in Known' : Led(d)',
         orderly /\ cmd'[c] # None => Guided(c)'
  PROVE  DaemonInv'
<1> USE DEF DaemonInv
<1>1. Others(c)  BY DEF Ends, Goes
<1>2. Machine'  BY DEF Machine, TypeInv, Fewer
<1>3. Folders' /\ Flags'  BY DEF TypeInv, Folders, Flags, upVars, Stamps
<1>4. cmd'[c] # None => /\ cmd'[c].pc \notin {"read", "build", "migrate", "out", "in"}
                        /\ cmd'[c].op = cmd[c].op /\ cmd'[c].version = cmd[c].version
                        /\ cmd'[c].pc \in {"kill", "clean", "stage"} => cmd[c].pc \in {"read", "kill", "clean"}
  BY DEF Ends, Goes
<1>5. TypeInv'  BY <1>1, <1>2, <1>3, <1>4, TypesByOne DEF upVars
<1>6. orderly' => \A d \in Cmds \ {c} : cmd'[d] = None /\ cmd[d] = None
  BY <1>1, Alone
<1>7. OrderInv'  BY <1>6, OrderByOne
<1>8. orderly => Sound' /\ (\A d \in Known' : procs'[d].version = install') /\ Covers'
  <2> SUFFICES ASSUME orderly  PROVE Sound' /\ (\A d \in Known' : procs'[d].version = install') /\ Covers'
    OBVIOUS
  <2>1. \A d \in Cmds : ~Swapping(d)  BY <1>6 DEF Swapping
  <2>2. Sound'  BY <2>1 DEF CodeInv, Sound, Fits
  <2>3. \A d \in Known' : procs'[d].version = install'  BY KnownFewer DEF CodeInv
  <2>4. Covers'  BY CoversFewer DEF CodeInv, upVars
  <2> QED  BY <2>2, <2>3, <2>4
<1>9. orderly /\ cmd'[c] # None => Ahead(c)'
  BY <1>4 DEF CodeInv, Ahead
<1>10. CodeInv'  BY <1>6, <1>8, <1>9, CodeByOne
<1> QED  BY <1>5, <1>7, <1>10

LEMMA StillThere ==
  ASSUME TypeInv, procs' = procs, astray' = astray
  PROVE  procs' \in [Pids -> {None} \cup Process] /\ Fewer(Daemons) /\ Known' = Known
  BY DEF TypeInv, Machine, Fewer, Known, Daemons, IsBrainApi, Alive

LEMMA ReadPidStep ==
  ASSUME DaemonInv, NEW c \in Cmds, ReadPid(c), UNCHANGED upVars
  PROVE  DaemonInv'
<1> USE DEF DaemonInv
<1>1. /\ cmd[c] # None /\ cmd[c].pc = "read" /\ Commands
      /\ UNCHANGED <<procs, runFiles, install, schema, orderly, astray, left>>
  BY DEF ReadPid, At, TypeInv, Exit, Goto, history
<1>2. /\ procs' \in [Pids -> {None} \cup Process] /\ Fewer(Daemons) /\ Known' = Known
  BY <1>1, StillThere
<1>3. pidFile' \in {None} \cup Pids /\ portFile' \in {None} \cup Ports
  BY <1>1 DEF TypeInv, Machine, runFiles
<1>4. ASSUME orderly  PROVE \A d \in Known : Led(d)
  BY <1>1, <1>4 DEF OrderInv, Guided
<1>5. \A d \in Known : Led(d) => Led(d)'  BY <1>1 DEF Led, runFiles
<1>6. CASE IsBrainApi(pidFile)
  <2>1. cmd' = [cmd EXCEPT ![c] = None]  BY <1>6 DEF ReadPid, Exit
  <2>2. Commands' /\ Ends(c)  BY <1>1, <2>1, EndsNow
  <2> QED  BY <1>1, <1>2, <1>3, <1>4, <1>5, <2>2, CommandMoves DEF Ends
<1>7. CASE ~IsBrainApi(pidFile)
  <2>1. PICK q \in {"probe", "stale"} : cmd' = [cmd EXCEPT ![c].pc = q]
    BY <1>7 DEF ReadPid, Goto
  <2>2. Commands' /\ Goes(c, q, cmd[c].pid, cmd[c].port)  BY <1>1, <2>1, GoesOn DEF PCs
  <2>3. orderly => Known = {}  BY <1>4, <1>7 DEF Led, Known, Daemons
  <2>4. orderly => Guided(c)'  BY <1>2, <2>2, <2>3 DEF Guided, Goes
  <2> QED  BY <1>1, <1>2, <1>3, <2>2, <2>4, CommandMoves DEF Goes, PCs
<1> QED  BY <1>6, <1>7

LEMMA CleanStaleStep ==
  ASSUME DaemonInv, NEW c \in Cmds, CleanStale(c), UNCHANGED upVars
  PROVE  DaemonInv'
<1> USE DEF DaemonInv
<1>1. /\ cmd[c] # None /\ cmd[c].pc = "stale" /\ Commands
      /\ UNCHANGED <<procs, install, schema, orderly, astray, left>> /\ pidFile' = None /\ portFile' = None
      /\ cmd' = [cmd EXCEPT ![c].pc = "probe"]
  BY DEF CleanStale, At, TypeInv, Goto, history
<1>2. /\ procs' \in [Pids -> {None} \cup Process] /\ Fewer(Daemons) /\ Known' = Known
  BY <1>1, StillThere
<1>3. Commands' /\ Goes(c, "probe", cmd[c].pid, cmd[c].port)  BY <1>1, GoesOn DEF PCs
<1>4. orderly => Known = {}  BY <1>1 DEF OrderInv, Guided
<1>5. orderly => Guided(c)'  BY <1>2, <1>3, <1>4 DEF Guided, Goes
<1> QED  BY <1>1, <1>2, <1>3, <1>5, CommandMoves DEF Goes, PCs

LEMMA ProbeStep ==
  ASSUME DaemonInv, NEW c \in Cmds, Probe(c), UNCHANGED upVars
  PROVE  DaemonInv'
<1> USE DEF DaemonInv
<1>1. /\ cmd[c] # None /\ cmd[c].pc = "probe" /\ Commands
      /\ UNCHANGED <<procs, pidFile, install, schema, orderly, astray, left>>
  BY DEF Probe, At, TypeInv, Exit, history
<1>2. /\ procs' \in [Pids -> {None} \cup Process] /\ Fewer(Daemons) /\ Known' = Known
  BY <1>1, StillThere
<1>3. pidFile' \in {None} \cup Pids  BY <1>1 DEF TypeInv, Machine
<1>4. orderly => Known = {}  BY <1>1 DEF OrderInv, Guided
<1>5. CASE Free = {}
  <2>1. cmd' = [cmd EXCEPT ![c] = None] /\ portFile' = portFile  BY <1>5 DEF Probe, Exit
  <2>2. Commands' /\ Ends(c)  BY <1>1, <2>1, EndsNow
  <2>3. portFile' \in {None} \cup Ports  BY <2>1 DEF TypeInv, Machine
  <2> QED  BY <1>1, <1>2, <1>3, <1>4, <2>2, <2>3, CommandMoves DEF Ends
<1>6. CASE Free # {}
  <2>1. /\ portFile' = Min(Free)
        /\ cmd' = [cmd EXCEPT ![c].pc = "spawn", ![c].port = Min(Free)]
    BY <1>6 DEF Probe
  <2>2. Free \subseteq Ports  BY DEF Free
  <2>3. Min(Free) \in Ports  BY <1>6, <2>2, LeastIsThere, LifecycleAssumption
  <2>4. Commands' /\ Goes(c, "spawn", cmd[c].pid, Min(Free))
    BY <1>1, <2>1, <2>3, ProbesOn DEF PCs
  <2>5. orderly => Guided(c)'  BY <1>2, <1>4, <2>1, <2>4 DEF Guided, Goes
  <2>6. portFile' \in {None} \cup Ports  BY <2>1, <2>3
  <2> QED  BY <1>1, <1>2, <1>3, <2>4, <2>5, <2>6, CommandMoves DEF Goes, PCs
<1> QED  BY <1>5, <1>6

(* The one step that makes a daemon.                                       *)
LEMMA SpawnStep ==
  ASSUME DaemonInv, NEW c \in Cmds, Spawn(c), UNCHANGED upVars
  PROVE  DaemonInv'
<1> USE DEF DaemonInv
<1>1. /\ cmd[c] # None /\ cmd[c].pc = "spawn" /\ Commands
      /\ UNCHANGED <<pidFile, install, schema, orderly, left>>
  BY DEF Spawn, At, TypeInv, Exit, history
<1>2. pidFile' \in {None} \cup Pids  BY <1>1 DEF TypeInv, Machine
<1>3. orderly => Known = {} /\ cmd[c].port = portFile  BY <1>1 DEF OrderInv, Guided
<1>4. CASE install = None
  <2>1. cmd' = [cmd EXCEPT ![c] = None] /\ portFile' = None /\ procs' = procs /\ astray' = astray
    BY <1>4 DEF Spawn, Exit, history
  <2>2. Commands' /\ Ends(c)  BY <1>1, <2>1, EndsNow
  <2>3. /\ procs' \in [Pids -> {None} \cup Process] /\ Fewer(Daemons) /\ Known' = Known
    BY <2>1, StillThere
  <2> QED  BY <1>1, <1>2, <1>3, <2>1, <2>2, <2>3, CommandMoves DEF Ends
<1>5. CASE install # None
  <2>1. PICK pid \in Pids :
          /\ procs' = [procs EXCEPT ![pid] = [kind |-> "brain_api", port |-> cmd[c].port,
                                              state |-> "booting", version |-> install]]
          /\ cmd' = [cmd EXCEPT ![c].pc = "write", ![c].pid = pid]
          /\ astray' = astray \ {pid}
    BY <1>5 DEF Spawn
  <2>2. portFile' = portFile  BY <1>5 DEF Spawn
  <2>3. Commands' /\ Goes(c, "write", pid, cmd[c].port)  BY <1>1, <2>1, ReadsOn DEF PCs
  <2>4. cmd[c].port \in Ports \cup {None} /\ install \in Versions
    <3>1. cmd[c] \in Command  BY <1>1 DEF Commands
    <3> QED  BY <1>5, <3>1 DEF Command, TypeInv, Folders
  <2>5. /\ procs' \in [Pids -> {None} \cup Process]
        /\ Daemons' \subseteq Daemons \cup {pid}
        /\ procs'[pid].port = cmd[c].port /\ procs'[pid].version = install
        /\ \A d \in Daemons' \ {pid} : procs'[d] = procs[d]
    <3>1. Machine  BY DEF TypeInv
    <3> QED  BY <2>1, <2>4, <3>1, DaemonComes
  <2>6. Machine'
    <3>1. pidFile' \in {None} \cup Pids /\ portFile' \in {None} \cup Ports
      BY <1>2, <2>2 DEF TypeInv, Machine
    <3>2. \A d \in Daemons' : procs'[d].version \in Versions
      BY <2>4, <2>5 DEF TypeInv, Machine
    <3> QED  BY <2>5, <3>1, <3>2 DEF Machine
  <2>7. Folders' /\ Flags'  BY <1>1, <2>1 DEF TypeInv, Folders, Flags, upVars, Stamps
  <2>8. TypeInv'  BY <2>3, <2>6, <2>7, TypesByOne DEF Goes, upVars
  <2>9. orderly' => \A d \in Cmds \ {c} : cmd'[d] = None /\ cmd[d] = None
    BY <1>1, <2>3, Alone DEF Goes
  <2>10. Known' \subseteq Known \cup {pid}  BY <2>1, <2>5 DEF Known
  <2>11. orderly => Guided(c)'
    BY <1>3, <2>2, <2>3, <2>5, <2>10 DEF Guided, Goes
  <2>12. OrderInv'
    BY <1>1, <2>3, <2>9, <2>11, OrderByOne DEF Goes
  <2>13. orderly => Sound' /\ (\A d \in Known' : procs'[d].version = install') /\ Covers'
    <3> SUFFICES ASSUME orderly
                 PROVE  Sound' /\ (\A d \in Known' : procs'[d].version = install') /\ Covers'
      OBVIOUS
    <3>1. \A d \in Cmds : ~Swapping(d)  BY <1>1, <2>9 DEF Swapping
    <3>2. Sound'  BY <1>1, <3>1 DEF CodeInv, Sound, Fits
    <3>3. \A d \in Known' : procs'[d].version = install'  BY <1>1, <1>3, <2>5, <2>10
    <3>4. Covers'  BY <1>1, <1>5, <2>5 DEF CodeInv, Covers, upVars, Stamps
    <3> QED  BY <3>2, <3>3, <3>4
  <2>14. Ahead(c)'  BY <2>3 DEF Ahead, Goes
  <2>15. CodeInv'  BY <1>1, <2>9, <2>13, <2>14, CodeByOne
  <2> QED  BY <2>8, <2>12, <2>15
<1> QED  BY <1>4, <1>5

LEMMA WritePidStep ==
  ASSUME DaemonInv, NEW c \in Cmds, WritePid(c), UNCHANGED upVars
  PROVE  DaemonInv'
<1> USE DEF DaemonInv
<1>1. /\ cmd[c] # None /\ cmd[c].pc = "write" /\ Commands
      /\ UNCHANGED <<procs, portFile, install, schema, orderly, astray, left>> /\ pidFile' = cmd[c].pid
      /\ cmd' = [cmd EXCEPT ![c].pc = "health"]
  BY DEF WritePid, At, TypeInv, Goto, history
<1>2. /\ procs' \in [Pids -> {None} \cup Process] /\ Fewer(Daemons) /\ Known' = Known
  BY <1>1, StillThere
<1>3. pidFile' \in {None} \cup Pids /\ portFile' \in {None} \cup Ports
  <2>1. cmd[c] \in Command  BY <1>1 DEF Commands
  <2> QED  BY <1>1, <2>1 DEF Command, TypeInv, Machine
<1>4. Commands' /\ Goes(c, "health", cmd[c].pid, cmd[c].port)  BY <1>1, GoesOn DEF PCs
<1>5. orderly => \A d \in Known : cmd[c].pid = d /\ portFile = procs[d].port
  BY <1>1 DEF OrderInv, Guided
<1>6. orderly => Guided(c)'
  BY <1>1, <1>2, <1>4, <1>5 DEF Guided, Goes, Led
<1> QED  BY <1>1, <1>2, <1>3, <1>4, <1>6, CommandMoves DEF Goes, PCs

LEMMA HealthStep ==
  ASSUME DaemonInv, NEW c \in Cmds, Healthy(c) \/ HealthTimeout(c), UNCHANGED upVars
  PROVE  DaemonInv'
<1> USE DEF DaemonInv
<1>1. /\ cmd[c] # None /\ cmd[c].pc = "health" /\ Commands
      /\ UNCHANGED <<install, schema, orderly, astray, left>> /\ cmd' = [cmd EXCEPT ![c] = None]
  BY DEF Healthy, HealthTimeout, Unhealthy, At, TypeInv, Exit, history
<1>2. Commands' /\ Ends(c)  BY <1>1, EndsNow
<1>3. orderly => cmd[c].pid = pidFile /\ \A d \in Known : Led(d)
  BY <1>1 DEF OrderInv, Guided
<1>4. CASE Healthy(c)
  <2>1. UNCHANGED <<procs, runFiles>>  BY <1>4 DEF Healthy
  <2>2. /\ procs' \in [Pids -> {None} \cup Process] /\ Fewer(Daemons) /\ Known' = Known
    BY <1>1, <2>1, StillThere
  <2>3. pidFile' \in {None} \cup Pids /\ portFile' \in {None} \cup Ports
    BY <2>1 DEF TypeInv, Machine, runFiles
  <2>4. \A d \in Known : Led(d) => Led(d)'  BY <2>1 DEF Led, runFiles
  <2> QED  BY <1>1, <1>2, <1>3, <2>2, <2>3, <2>4, CommandMoves DEF Ends
<1>5. CASE HealthTimeout(c)
  <2>1. /\ procs' = [procs EXCEPT ![cmd[c].pid] = None] /\ pidFile' = None /\ portFile' = None
    BY <1>5 DEF HealthTimeout, Unhealthy, Terminate
  <2>2. procs' \in [Pids -> {None} \cup Process] /\ Fewer(Daemons \ {cmd[c].pid})
    BY <2>1, ProcessEnds DEF TypeInv
  <2>3. orderly => Known' = {}  BY <1>1, <1>3, <2>2 DEF Fewer, Led, Known
  <2>4. Fewer(Daemons)  BY <2>2 DEF Fewer
  <2> QED  BY <1>1, <1>2, <2>1, <2>2, <2>3, <2>4, CommandMoves DEF Ends
<1> QED  BY <1>4, <1>5

LEMMA ReadToStopStep ==
  ASSUME DaemonInv, NEW c \in Cmds, ReadToStop(c), UNCHANGED upVars
  PROVE  DaemonInv'
<1> USE DEF DaemonInv
<1>1. /\ cmd[c] # None /\ cmd[c].pc = "read" /\ Commands
      /\ UNCHANGED <<procs, runFiles, install, schema, orderly, astray, left>>
  BY DEF ReadToStop, At, TypeInv, history
<1>2. /\ procs' \in [Pids -> {None} \cup Process] /\ Fewer(Daemons) /\ Known' = Known
  BY <1>1, StillThere
<1>3. /\ pidFile \in {None} \cup Pids
      /\ pidFile' \in {None} \cup Pids /\ portFile' \in {None} \cup Ports
  BY <1>1 DEF TypeInv, Machine, runFiles
<1>4. orderly => \A d \in Known : Led(d)
  BY <1>1 DEF OrderInv, Guided
<1>5. \A d \in Known : Led(d) => Led(d)'  BY <1>1 DEF Led, runFiles
<1>6. PICK q \in {"kill", "clean"} :
        /\ cmd' = [cmd EXCEPT ![c].pid = pidFile, ![c].pc = q]
        /\ q = "clean" => ~Alive(pidFile)
  <2>1. cmd' = [cmd EXCEPT ![c].pid = pidFile, ![c].pc = IF Alive(pidFile) THEN "kill" ELSE "clean"]
    BY DEF ReadToStop, history
  <2> QED  BY <2>1
<1>7. Commands' /\ Goes(c, q, pidFile, cmd[c].port)  BY <1>1, <1>3, <1>6, ReadsOn DEF PCs
<1>8. orderly => Guided(c)'
  <2>1. orderly /\ q = "clean" => Known = {}
    BY <1>4, <1>6 DEF Led, Known, Daemons, IsBrainApi
  <2> QED  BY <1>1, <1>2, <1>4, <1>5, <1>7, <2>1 DEF Guided, Goes, runFiles
<1> QED  BY <1>1, <1>2, <1>3, <1>7, <1>8, CommandMoves DEF Goes, PCs

LEMMA KillStep ==
  ASSUME DaemonInv, NEW c \in Cmds, Kill(c), UNCHANGED upVars
  PROVE  DaemonInv'
<1> USE DEF DaemonInv
<1>1. /\ cmd[c] # None /\ cmd[c].pc = "kill" /\ Commands
      /\ UNCHANGED <<runFiles, install, schema, orderly, astray, left>>
      /\ procs' = [procs EXCEPT ![cmd[c].pid] = None] /\ cmd' = [cmd EXCEPT ![c].pc = "clean"]
  BY DEF Kill, At, TypeInv, Goto, Terminate, history
<1>2. procs' \in [Pids -> {None} \cup Process] /\ Fewer(Daemons \ {cmd[c].pid})
  BY <1>1, ProcessEnds DEF TypeInv
<1>3. Fewer(Daemons)  BY <1>2 DEF Fewer
<1>4. pidFile' \in {None} \cup Pids /\ portFile' \in {None} \cup Ports
  BY <1>1 DEF TypeInv, Machine, runFiles
<1>5. Commands' /\ Goes(c, "clean", cmd[c].pid, cmd[c].port)  BY <1>1, GoesOn DEF PCs
<1>6. orderly => Known' = {}
  BY <1>1, <1>2 DEF OrderInv, Guided, Fewer, Led, Known
<1>7. orderly => Guided(c)'  BY <1>5, <1>6 DEF Guided, Goes
<1> QED  BY <1>1, <1>2, <1>3, <1>4, <1>5, <1>7, CommandMoves DEF Goes, PCs

LEMMA CleanUpStep ==
  ASSUME DaemonInv, NEW c \in Cmds, CleanUp(c)
  PROVE  DaemonInv'
<1> USE DEF DaemonInv
<1>1. /\ cmd[c] # None /\ cmd[c].pc = "clean" /\ Commands
      /\ UNCHANGED <<procs, install, schema, orderly, astray, left, upVars>> /\ pidFile' = None /\ portFile' = None
  BY DEF CleanUp, Cleaned, At, TypeInv, Goto, Exit, history
<1>2. /\ procs' \in [Pids -> {None} \cup Process] /\ Fewer(Daemons) /\ Known' = Known
  BY <1>1, StillThere
<1>3. orderly => Known = {}  BY <1>1 DEF OrderInv, Guided
<1>4. CASE cmd[c].op = "stop"
  <2>1. cmd' = [cmd EXCEPT ![c] = None]  BY <1>4 DEF CleanUp, Cleaned, Exit
  <2>2. Commands' /\ Ends(c)  BY <1>1, <2>1, EndsNow
  <2> QED  BY <1>1, <1>2, <1>3, <2>2, CommandMoves DEF Ends
<1>5. CASE cmd[c].op # "stop"
  <2>1. PICK q \in {"stage", "ask"} : cmd' = [cmd EXCEPT ![c].pc = q]
    BY <1>5 DEF CleanUp, Cleaned, Goto
  <2>2. Commands' /\ Goes(c, q, cmd[c].pid, cmd[c].port)  BY <1>1, <2>1, GoesOn DEF PCs
  <2>3. orderly => Guided(c)'  BY <1>2, <1>3, <2>2 DEF Guided, Goes
  <2> QED  BY <1>1, <1>2, <2>2, <2>3, CommandMoves DEF Goes, PCs
<1> QED  BY <1>4, <1>5

-----------------------------------------------------------------------------
(* A command begins: all is at rest, or the commands are not orderly.      *)
LEMMA BeginStep ==
  ASSUME DaemonInv, NEW c \in Cmds,
         \/ (Start(c) \/ Stop(c)) /\ UNCHANGED upVars
         \/ Uninstall(c) \/ \E v \in Versions : UpgradeTo(c, v)
  PROVE  DaemonInv'
<1> USE DEF DaemonInv
<1>1. UNCHANGED <<procs, runFiles, install, schema, upVars>>
  BY DEF Start, Stop, Uninstall, UpgradeTo
<1>2. PICK op \in {"start", "stop", "upgrade", "uninstall"}, v \in Versions \cup {None} :
        Run(c, op, v) /\ (op = "upgrade" => install # None /\ install < v)
  BY DEF Start, Stop, Uninstall, UpgradeTo
<1>3. Commands' /\ Begins(c, op, v)  BY <1>2, BeginsNow DEF TypeInv
<1>4. orderly' = (orderly /\ AtRest) /\ UNCHANGED <<astray, left>>  BY <1>2 DEF Run
<1>5. Daemons' = Daemons /\ Known' = Known
  BY <1>1, <1>4 DEF Known, Daemons, IsBrainApi, Alive
<1>6. Machine' /\ Folders'
  BY <1>1, <1>5 DEF TypeInv, Machine, Folders, runFiles, upVars, Stamps
<1>7. Flags'  BY <1>1, <1>4 DEF TypeInv, Flags, upVars, AtRest
<1>8. TypeInv'  BY <1>1, <1>3, <1>6, <1>7, TypesByOne DEF Begins, upVars
<1>9. orderly' => orderly /\ AtRest /\ \A d \in Cmds \ {c} : cmd'[d] = None
  BY <1>3, <1>4 DEF AtRest, Begins, Others
<1>10. orderly' => \A d \in Known' : Led(d)'
  <2>1. orderly' => \A d \in Known : Led(d)  BY <1>9 DEF OrderInv
  <2> QED  BY <1>1, <1>5, <2>1 DEF Led, runFiles
<1>11. orderly' => Guided(c)'
  BY <1>3, <1>10 DEF Guided, Begins
<1>12. OrderInv'  BY <1>3, <1>9, <1>11, OrderByOne DEF Begins
<1>13. orderly' => Sound' /\ (\A d \in Known' : procs'[d].version = install') /\ Covers'
  <2> SUFFICES ASSUME orderly'
               PROVE  Sound' /\ (\A d \in Known' : procs'[d].version = install') /\ Covers'
    OBVIOUS
  <2>1. \A d \in Cmds : ~Swapping(d)  BY <1>9 DEF AtRest, Swapping
  <2>2. Sound'  BY <1>1, <1>4, <1>9, <2>1 DEF CodeInv, Sound, Fits
  <2>3. \A d \in Known' : procs'[d].version = install'  BY <1>1, <1>5, <1>9 DEF CodeInv
  <2>4. Covers'  BY <1>1, <1>5, <1>9 DEF CodeInv, Covers, upVars, Stamps
  <2> QED  BY <2>2, <2>3, <2>4
<1>14. Ahead(c)'  BY <1>1, <1>2, <1>3 DEF Ahead, Begins
<1>15. CodeInv'  BY <1>3, <1>9, <1>13, <1>14, CodeByOne
<1> QED  BY <1>8, <1>12, <1>15

(* A command fails or is interrupted: the daemon it has spawned and not    *)
(* written down goes astray, and so does the schema it has migrated.       *)
LEMMA BadExit ==
  ASSUME DaemonInv, NEW c \in Cmds, cmd[c] # None, ExitBadly(c), UNCHANGED <<procs, runFiles>>,
         Folders', removed' \in BOOLEAN, Staged', schema <= schema',
         \/ install' = install
         \/ cmd[c].pc = "in" /\ \E b \in Stamps : install' = prevs[b],
         \A s \in Stamps' : s \in Stamps /\ prevs'[s] = prevs[s]
  PROVE  DaemonInv'
<1> USE DEF DaemonInv
<1>1. /\ cmd' = [cmd EXCEPT ![c] = None] /\ orderly' = orderly
      /\ astray' = astray \cup {d \in Daemons : At(c, "write") /\ cmd[c].pid = d}
      /\ left' = IF install' # None /\ install' < schema' THEN schema' ELSE left
  BY DEF ExitBadly
<1>2. Commands' /\ Ends(c)  BY <1>1, EndsNow DEF TypeInv
<1>3. Daemons' = Daemons  BY DEF Daemons, IsBrainApi, Alive
<1>4. Machine'  BY <1>3 DEF TypeInv, Machine, runFiles
<1>5. Flags'
  <2>1. Daemons \subseteq Pids  BY DEF Daemons
  <2> QED  BY <1>1, <2>1 DEF TypeInv, Flags, Folders
<1>6. TypeInv'  BY <1>2, <1>4, <1>5 DEF TypeInv
<1>7. Known' \subseteq Known  BY <1>1, <1>3 DEF Known
<1>8. orderly' => \A d \in Cmds \ {c} : cmd'[d] = None
  BY <1>1, <1>2, Alone DEF Ends
<1>9. orderly => \A d \in Known' : Led(d)'
  <2> SUFFICES ASSUME orderly, NEW d \in Known'  PROVE Led(d)'
    OBVIOUS
  <2>1. Guided(c) /\ d \in Known  BY <1>7 DEF OrderInv
  <2>2. cmd[c].pc # "write"
    BY <1>1, <2>1 DEF Guided, At, Known
  <2>3. Led(d)  BY <2>1, <2>2 DEF Guided
  <2> QED  BY <2>3 DEF Led, runFiles
<1>10. OrderInv'  BY <1>1, <1>2, <1>8, <1>9, OrderByOne DEF Ends
<1>11. Versions \subseteq Nat /\ schema \in Nat /\ schema' \in Nat
  BY LifecycleAssumption DEF TypeInv, Folders
<1>12. Sound'
  <2> SUFFICES ASSUME install' # None, ~(install' < schema')  PROVE install' >= schema'
    BY <1>1 DEF Sound, Fits
  <2>1. install' \in Nat  BY <1>11 DEF Folders
  <2> QED  BY <1>11, <2>1
<1>13. ASSUME orderly
       PROVE  (\A d \in Known' : procs'[d].version = install') /\ Covers'
  <2>1. /\ install # None => install <= schema
        /\ \A s \in Stamps : prevs[s] <= schema
        /\ \A d \in Daemons : procs[d].version <= schema
    BY <1>13 DEF CodeInv, Covers
  <2>2. \A v \in Versions : v <= schema => v <= schema'
    <3> SUFFICES ASSUME NEW v \in Versions, v <= schema  PROVE v <= schema'
      OBVIOUS
    <3>1. v \in Nat  BY LifecycleAssumption
    <3> QED  BY <3>1, <1>11
  <2>3. /\ install \in {None} \cup Versions /\ \A s \in Stamps : prevs[s] \in Versions
        /\ \A d \in Daemons : procs[d].version \in Versions
    BY DEF TypeInv, Folders, Machine
  <2>4. Covers'  BY <1>3, <2>1, <2>2, <2>3 DEF Covers
  <2>5. install' = install \/ Known' = {}
    BY <1>7, <1>13 DEF OrderInv, Guided
  <2> QED  BY <1>7, <1>13, <2>4, <2>5 DEF CodeInv
<1>14. CodeInv'  BY <1>1, <1>2, <1>8, <1>12, <1>13, CodeByOne DEF Ends
<1> QED  BY <1>6, <1>10, <1>14

LEMMA ReachedSchema ==
  ASSUME TypeInv, NEW c \in Cmds, schema' \in Reached(c)
  PROVE  schema' \in Versions /\ schema <= schema'
<1>1. schema \in Versions /\ schema \in Nat  BY LifecycleAssumption DEF TypeInv, Folders
<1> QED  BY <1>1 DEF Reached

LEMMA InterruptStep ==
  ASSUME DaemonInv, NEW c \in Cmds, Interrupt(c), UNCHANGED upVars
  PROVE  DaemonInv'
<1> USE DEF DaemonInv
<1>1. /\ cmd[c] # None /\ ExitBadly(c) /\ UNCHANGED <<procs, runFiles, install>>
      /\ schema' \in Reached(c)
  BY DEF Interrupt
<1>2. schema' \in Versions /\ schema <= schema'  BY <1>1, ReachedSchema
<1>3. Folders' /\ removed' \in BOOLEAN
  BY <1>1, <1>2 DEF TypeInv, Folders, Flags, upVars, Stamps
<1>4. Staged'
  <2>1. cmd' = [cmd EXCEPT ![c] = None]  BY <1>1 DEF ExitBadly
  <2> QED  BY <2>1 DEF TypeInv, Staged, Commands, upVars
<1>5. \A s \in Stamps' : s \in Stamps /\ prevs'[s] = prevs[s]  BY DEF upVars, Stamps
<1> QED  BY <1>1, <1>2, <1>3, <1>4, <1>5, BadExit

-----------------------------------------------------------------------------
(* The steps of brain upgrade past the stop of the daemon, which only one  *)
(* command takes at a time: it has the staging folder.                     *)
LEMMA StagedByHolder ==
  ASSUME IInv, NEW c \in Cmds, Others(c), Holds(c) \/ staging = None,
         cmd'[c] # None /\ cmd'[c].pc \in {"migrate", "out", "in"} => staging' \in Versions
  PROVE  Staged'
<1>1. \A d \in Cmds \ {c} : ~Holds(d)  BY DEF IInv, StagingOK
<1>2. \A d \in Cmds \ {c} : ~(cmd'[d] # None /\ cmd'[d].pc \in {"migrate", "out", "in"})
  BY <1>1 DEF Holds, Others
<1> QED  BY <1>2 DEF Staged

LEMMA FilesSame ==
  ASSUME TypeInv, UNCHANGED <<procs, runFiles, astray>>
  PROVE  Machine' /\ Daemons' = Daemons /\ Known' = Known
<1>1. Daemons' = Daemons /\ Known' = Known  BY DEF Known, Daemons, IsBrainApi, Alive
<1> QED  BY <1>1 DEF TypeInv, Machine, runFiles

LEMMA StageStep ==
  ASSUME DaemonInv, IInv, NEW c \in Cmds, Stage(c)
  PROVE  DaemonInv'
<1> USE DEF DaemonInv
<1>1. /\ cmd[c] # None /\ cmd[c].pc = "stage" /\ Commands
      /\ UNCHANGED <<procs, runFiles, install, schema, prevs, stamp, removed, last>>
      /\ UNCHANGED <<orderly, astray, left>>
  BY DEF Stage, At, TypeInv, Exit, Goto, history
<1>2. Machine' /\ Daemons' = Daemons /\ Known' = Known  BY <1>1, FilesSame
<1>3. orderly => Known = {}  BY <1>1 DEF OrderInv, Guided
<1>4. CASE staging # None
  <2>1. cmd' = [cmd EXCEPT ![c] = None] /\ staging' = staging
    BY <1>4 DEF Stage, Exit
  <2>2. Commands' /\ Ends(c)  BY <1>1, <2>1, EndsNow
  <2>3. procs' \in [Pids -> {None} \cup Process] /\ Fewer(Daemons)  BY <1>1, StillThere
  <2>4. pidFile' \in {None} \cup Pids /\ portFile' \in {None} \cup Ports
    BY <1>2 DEF Machine
  <2> QED  BY <1>1, <1>2, <1>3, <2>1, <2>2, <2>3, <2>4, CommandMoves DEF Ends, upVars
<1>5. CASE staging = None
  <2>1. cmd' = [cmd EXCEPT ![c].pc = "build"] /\ staging' = Partial
    BY <1>5 DEF Stage, Goto
  <2>2. Commands' /\ Goes(c, "build", cmd[c].pid, cmd[c].port)  BY <1>1, <2>1, GoesOn DEF PCs
  <2>3. Folders' /\ Flags'  BY <1>1, <2>1 DEF TypeInv, Folders, Flags, Stamps
  <2>4. Staged'  BY <1>5, <2>2, StagedByHolder DEF Goes
  <2>5. TypeInv'  BY <1>2, <2>2, <2>3, <2>4 DEF TypeInv
  <2>6. orderly' => \A d \in Cmds \ {c} : cmd'[d] = None /\ cmd[d] = None
    BY <1>1, <2>2, Alone DEF Goes
  <2>7. orderly => Guided(c)'  BY <1>2, <1>3, <2>2 DEF Guided, Goes
  <2>8. OrderInv'  BY <1>1, <2>2, <2>6, <2>7, OrderByOne DEF Goes
  <2>9. orderly => Sound /\ Ahead(c) /\ Covers
    <3>1. orderly => \A d \in Cmds : ~Swapping(d)  BY <1>1, <2>6 DEF Swapping
    <3> QED  BY <1>1, <3>1 DEF CodeInv
  <2>10. orderly => Ahead(c)'
    BY <1>1, <2>2, <2>9 DEF Ahead, Goes
  <2>11. orderly => Sound' /\ Covers'  BY <1>1, <1>2, <2>9, SameCode
  <2>12. CodeInv'  BY <1>1, <1>2, <1>3, <2>6, <2>10, <2>11, CodeByOne
  <2> QED  BY <2>5, <2>8, <2>12
<1> QED  BY <1>4, <1>5

(* Build and the migrations.                                               *)
LEMMA BuildStep ==
  ASSUME DaemonInv, IInv, NEW c \in Cmds, Build(c) \/ Migrate(c)
  PROVE  DaemonInv'
<1> USE DEF DaemonInv
<1>1. /\ cmd[c] # None /\ Holds(c) /\ Commands /\ cmd[c].pc \in {"build", "migrate"}
      /\ UNCHANGED <<procs, runFiles, install, prevs, stamp, removed, last>>
      /\ UNCHANGED <<orderly, astray, left>>
  BY DEF Build, Built, Migrate, At, TypeInv, Goto, Holds, upVars, history
<1>2. Machine' /\ Daemons' = Daemons /\ Known' = Known  BY <1>1, FilesSame
<1>3. cmd[c].op = "upgrade" /\ cmd[c].version \in Versions /\ cmd[c].version \in Nat
  <2>1. cmd[c].op = "upgrade" /\ cmd[c].version \in Versions
    BY <1>1 DEF IInv, CommandsOK, Shaped, UpgradePCs
  <2> QED  BY <2>1, LifecycleAssumption
<1>4. PICK q \in {"migrate", "out"} :
        /\ cmd' = [cmd EXCEPT ![c].pc = q]
        /\ q = "migrate" => cmd[c].pc = "build" /\ schema' = schema /\ staging' = cmd[c].version
        /\ q = "out" => /\ cmd[c].pc = "migrate" /\ staging' = staging
                        /\ schema' = Later(schema, cmd[c].version)
  BY DEF Build, Built, Migrate, Goto, At, upVars
<1>5. Commands' /\ Goes(c, q, cmd[c].pid, cmd[c].port)  BY <1>1, <1>4, GoesOn DEF PCs
<1>6. schema \in Versions /\ schema \in Nat  BY LifecycleAssumption DEF TypeInv, Folders
<1>7. /\ schema' \in Versions /\ schema' \in Nat /\ schema <= schema'
      /\ q = "out" => schema' \in {schema, cmd[c].version} /\ schema' >= cmd[c].version
  BY <1>3, <1>4, <1>6, LaterIsOne
<1>8. staging' \in Versions
  BY <1>1, <1>3, <1>4 DEF TypeInv, Staged
<1>9. Folders' /\ Flags'  BY <1>1, <1>7, <1>8 DEF TypeInv, Folders, Flags, Stamps
<1>10. Staged'  BY <1>1, <1>5, <1>8, StagedByHolder DEF Goes
<1>11. TypeInv'  BY <1>2, <1>5, <1>9, <1>10 DEF TypeInv
<1>12. orderly' => \A d \in Cmds \ {c} : cmd'[d] = None /\ cmd[d] = None
  BY <1>1, <1>5, Alone DEF Goes
<1>13. orderly => Known = {}  BY <1>1 DEF OrderInv, Guided
<1>14. orderly => Guided(c)'  BY <1>2, <1>5, <1>13 DEF Guided, Goes
<1>15. OrderInv'  BY <1>1, <1>5, <1>12, <1>14, OrderByOne DEF Goes
<1>16. orderly => Sound /\ Ahead(c) /\ Covers
  <2>1. orderly => \A d \in Cmds : ~Swapping(d)  BY <1>1, <1>12 DEF Swapping
  <2> QED  BY <1>1, <2>1 DEF CodeInv
<1>17. ASSUME orderly  PROVE Ahead(c)' /\ (~Swapping(c)' => Sound')
  <2>1. /\ install \in Nat /\ install # None /\ install < cmd[c].version
        /\ install >= schema \/ schema = left
    <3>1. install # None /\ install < cmd[c].version  BY <1>1, <1>3, <1>16, <1>17 DEF Ahead
    <3>2. install \in Nat  BY <3>1, LifecycleAssumption DEF TypeInv, Folders
    <3> QED  BY <1>16, <1>17, <3>1, <3>2 DEF Sound, Fits
  <2>2. CASE q = "migrate"
    <3>1. Sound'  BY <1>1, <1>4, <1>16, <1>17, <2>2 DEF Sound, Fits
    <3>2. Ahead(c)'  BY <1>1, <1>4, <1>5, <2>1, <2>2 DEF Ahead, Goes
    <3> QED  BY <3>1, <3>2
  <2>3. CASE q = "out"
    <3>1. cmd[c].version <= schema' /\ (cmd[c].version >= schema' \/ schema' = left)
      <4>1. CASE schema' = cmd[c].version  BY <1>3, <4>1
      <4>2. CASE schema' = schema /\ schema' # cmd[c].version
        <5>1. ~(install >= schema)  BY <1>3, <1>6, <1>7, <2>1, <2>3, <4>2
        <5> QED  BY <1>3, <1>6, <1>7, <2>1, <2>3, <4>2, <5>1
      <4> QED  BY <1>7, <2>3, <4>1, <4>2
    <3>2. staging' = cmd[c].version  BY <1>4, <1>16, <1>17, <2>3 DEF Ahead
    <3>3. Swapping(c)'  BY <1>5, <2>3 DEF Swapping, Goes
    <3> QED  BY <1>1, <1>5, <2>3, <3>1, <3>2, <3>3 DEF Ahead, Goes, Fits
  <2> QED  BY <2>2, <2>3
<1>18. orderly => Covers'
  <2> SUFFICES ASSUME orderly  PROVE Covers'
    OBVIOUS
  <2>1. \A v \in Versions : v <= schema => v <= schema'
    <3> SUFFICES ASSUME NEW v \in Versions, v <= schema  PROVE v <= schema'
      OBVIOUS
    <3>1. v \in Nat  BY LifecycleAssumption
    <3> QED  BY <3>1, <1>6, <1>7, LifecycleAssumption
  <2>2. /\ install \in {None} \cup Versions /\ \A s \in Stamps : prevs[s] \in Versions
        /\ \A d \in Daemons : procs[d].version \in Versions
    BY DEF TypeInv, Folders, Machine
  <2> QED  BY <1>1, <1>2, <1>16, <2>1, <2>2 DEF Covers, Stamps
<1>19. CodeInv'  BY <1>1, <1>2, <1>12, <1>13, <1>17, <1>18, CodeByOne
<1> QED  BY <1>11, <1>15, <1>19

(* The two renames of the swap: the install is behind the schema or gone   *)
(* between the migrations and the second rename, with no daemon to see it. *)
LEMMA SwapOutMoves ==
  ASSUME DaemonInv, IInv, NEW c \in Cmds, SwapOut(c)
  PROVE  DaemonInv'
<1> USE DEF DaemonInv
<1>1. /\ cmd[c] # None /\ Holds(c) /\ Commands /\ cmd[c].pc = "out"
      /\ UNCHANGED <<procs, runFiles, schema, staging, removed, last>>
      /\ UNCHANGED <<orderly, astray, left>>
  BY DEF SwapOut, At, TypeInv, Goto, Holds, history
<1>2. Machine' /\ Daemons' = Daemons /\ Known' = Known  BY <1>1, FilesSame
<1>3. /\ Commands' /\ Goes(c, "in", cmd[c].pid, cmd[c].port) /\ Folders'
      /\ install' \in {None, install}
      /\ \A s \in Stamps' : (s \in Stamps /\ prevs'[s] = prevs[s]) \/ (install # None /\ prevs'[s] = install)
  <2>1. CASE install = None
    <3>1. cmd' = [cmd EXCEPT ![c].pc = "in"] /\ UNCHANGED <<install, prevs, stamp>>
      BY <2>1 DEF SwapOut, Goto
    <3>2. Folders'  BY <1>1, <3>1 DEF TypeInv, Folders, Stamps
    <3> QED  BY <1>1, <3>1, <3>2, GoesOn DEF PCs, Stamps
  <2>2. CASE install # None
    <3>1. /\ stamp' = stamp + 1 /\ prevs' = Plus(prevs, stamp + 1, install) /\ install' = None
          /\ cmd' = [cmd EXCEPT ![c].pc = "in", ![c].backup = stamp + 1]
      BY <2>2 DEF SwapOut
    <3>2. stamp + 1 \in Nat /\ install \in Versions  BY <2>2 DEF TypeInv, Folders
    <3>3. \A s \in Stamps' : (s \in Stamps /\ prevs'[s] = prevs[s]) \/ prevs'[s] = install
      BY <3>1 DEF Stamps, Plus
    <3>4. Folders'  BY <1>1, <3>1, <3>2, <3>3 DEF TypeInv, Folders
    <3> QED  BY <1>1, <2>2, <3>1, <3>2, <3>3, <3>4, SwapsOn DEF PCs
  <2> QED  BY <2>1, <2>2
<1>4. Flags'  BY <1>1 DEF TypeInv, Flags
<1>5. staging \in Versions  BY <1>1 DEF TypeInv, Staged
<1>6. TypeInv'  BY <1>1, <1>2, <1>3, <1>4, <1>5, TypesByOne DEF Goes
<1>7. orderly' => \A d \in Cmds \ {c} : cmd'[d] = None
  BY <1>1, <1>3, Alone DEF Goes
<1>8. orderly => Known = {}  BY <1>1 DEF OrderInv, Guided
<1>9. orderly => Guided(c)'  BY <1>2, <1>3, <1>8 DEF Guided, Goes
<1>10. OrderInv'  BY <1>1, <1>3, <1>7, <1>9, OrderByOne DEF Goes
<1>11. orderly => Ahead(c)'
  BY <1>1, <1>3 DEF CodeInv, Ahead, Goes, Fits
<1>12. Swapping(c)'  BY <1>3 DEF Swapping, Goes
<1>13. orderly => Covers'  BY <1>1, <1>2, <1>3 DEF CodeInv, Covers
<1>14. CodeInv'  BY <1>1, <1>2, <1>7, <1>8, <1>11, <1>12, <1>13, CodeByOne
<1> QED  BY <1>6, <1>10, <1>14

LEMMA SwapInMoves ==
  ASSUME DaemonInv, IInv, NEW c \in Cmds, SwapIn(c)
  PROVE  DaemonInv'
<1> USE DEF DaemonInv
<1>1. /\ cmd[c] # None /\ Holds(c) /\ Commands /\ cmd[c].pc = "in"
      /\ UNCHANGED <<procs, runFiles, schema, prevs, stamp, removed>>
      /\ UNCHANGED <<orderly, astray, left>>
      /\ install' = staging /\ last' = staging /\ staging' = None
      /\ cmd' = [cmd EXCEPT ![c].pc = "rotate"]
  BY DEF SwapIn, At, TypeInv, Goto, Holds, history
<1>2. Machine' /\ Daemons' = Daemons /\ Known' = Known  BY <1>1, FilesSame
<1>3. Commands' /\ Goes(c, "rotate", cmd[c].pid, cmd[c].port)  BY <1>1, GoesOn DEF PCs
<1>4. staging \in Versions /\ staging # None
  BY <1>1, LifecycleAssumption DEF TypeInv, Staged
<1>5. Folders' /\ Flags'  BY <1>1, <1>4 DEF TypeInv, Folders, Flags, Stamps
<1>6. Staged'  BY <1>1, <1>3, StagedByHolder DEF Goes
<1>7. TypeInv'  BY <1>2, <1>3, <1>5, <1>6 DEF TypeInv
<1>8. orderly' => \A d \in Cmds \ {c} : cmd'[d] = None
  BY <1>1, <1>3, Alone DEF Goes
<1>9. orderly => Known = {}  BY <1>1 DEF OrderInv, Guided
<1>10. orderly => Guided(c)'  BY <1>2, <1>3, <1>9 DEF Guided, Goes
<1>11. OrderInv'  BY <1>1, <1>3, <1>8, <1>10, OrderByOne DEF Goes
<1>12. orderly => Sound' /\ Covers'
  BY <1>1, <1>2 DEF CodeInv, Ahead, Sound, Fits, Covers, Stamps
<1>13. Ahead(c)'  BY <1>3 DEF Ahead, Goes
<1>14. CodeInv'  BY <1>1, <1>2, <1>8, <1>9, <1>12, <1>13, CodeByOne
<1> QED  BY <1>7, <1>11, <1>14

(* An upgrade that fails.                                                  *)
LEMMA FailureMoves ==
  ASSUME DaemonInv, IInv, NEW c \in Cmds, SwapInFails(c) \/ UpgradeFails(c)
  PROVE  DaemonInv'
<1> USE DEF DaemonInv
<1>1. /\ cmd[c] # None /\ Holds(c) /\ Commands /\ ExitBadly(c)
      /\ UNCHANGED <<procs, runFiles, stamp, removed, last>> /\ staging' = None
      /\ cmd' = [cmd EXCEPT ![c] = None]
  BY DEF SwapInFails, UpgradeFails, ExitBadly, At, Holds, TypeInv
<1>2. schema' \in Versions /\ schema <= schema'
  <2>1. CASE UpgradeFails(c)  BY <2>1, ReachedSchema DEF UpgradeFails
  <2>2. CASE SwapInFails(c)
    <3>1. schema' = schema  BY <2>2 DEF SwapInFails
    <3> QED  BY <3>1, LifecycleAssumption DEF TypeInv, Folders
  <2> QED  BY <2>1, <2>2
<1>3. Ends(c)  BY <1>1, EndsNow
<1>4. Staged'  BY <1>1, <1>3, StagedByHolder DEF Ends
<1>5. /\ install' = install \/ (cmd[c].pc = "in" /\ \E b \in Stamps : install' = prevs[b])
      /\ \A s \in Stamps' : s \in Stamps /\ prevs'[s] = prevs[s]
  <2>1. CASE UNCHANGED <<install, prevs>>  BY <2>1 DEF Stamps
  <2>2. CASE ~UNCHANGED <<install, prevs>>
    <3>1. /\ cmd[c].pc = "in" /\ cmd[c].backup \in Stamps /\ install' = prevs[cmd[c].backup]
          /\ prevs' = Less(prevs, {cmd[c].backup})
      BY <2>2 DEF SwapInFails, UpgradeFails, At
    <3> QED  BY <3>1 DEF Less, Stamps
  <2> QED  BY <2>1, <2>2
<1>6. Folders'  BY <1>1, <1>2, <1>5 DEF TypeInv, Folders
<1>7. removed' \in BOOLEAN  BY <1>1 DEF TypeInv, Flags
<1> QED  BY <1>1, <1>2, <1>4, <1>5, <1>6, <1>7, BadExit

(* The last step of an upgrade and of an uninstall.                        *)
LEMMA LastStep ==
  ASSUME DaemonInv, NEW c \in Cmds, Rotate(c) \/ RemoveCode(c)
  PROVE  DaemonInv'
<1> USE DEF DaemonInv
<1>1. /\ cmd[c] # None /\ Commands /\ cmd[c].pc \in {"rotate", "ask"}
      /\ UNCHANGED <<procs, runFiles, schema, staging, stamp, last, orderly, astray, left>>
      /\ cmd' = [cmd EXCEPT ![c] = None]
      /\ install' \in {None, install} /\ removed' \in {TRUE, removed}
  BY DEF Rotate, RemoveCode, At, TypeInv, Exit, history
<1>2. Machine' /\ Daemons' = Daemons /\ Known' = Known  BY <1>1, FilesSame
<1>3. Commands' /\ Ends(c)  BY <1>1, EndsNow
<1>4. \A s \in Stamps' : s \in Stamps /\ prevs'[s] = prevs[s]
  BY DEF Rotate, RemoveCode, Less, Stamps
<1>5. Folders'  BY <1>1, <1>4 DEF TypeInv, Folders
<1>6. Flags'  BY <1>1 DEF TypeInv, Flags
<1>7. TypeInv'  BY <1>1, <1>2, <1>3, <1>5, <1>6, TypesByOne DEF Ends
<1>8. orderly' => \A d \in Cmds \ {c} : cmd'[d] = None /\ cmd[d] = None
  BY <1>1, <1>3, Alone DEF Ends
<1>9. orderly => Known = {}  BY <1>1 DEF OrderInv, Guided
<1>10. OrderInv'  BY <1>1, <1>2, <1>3, <1>8, <1>9, OrderByOne DEF Ends
<1>11. orderly => Sound' /\ Covers'
  <2>1. orderly => \A d \in Cmds : ~Swapping(d)  BY <1>1, <1>8 DEF Swapping
  <2>2. orderly => Sound /\ Covers  BY <2>1 DEF CodeInv
  <2> QED  BY <1>1, <1>2, <1>4, <2>2 DEF Sound, Fits, Covers
<1>12. CodeInv'  BY <1>1, <1>2, <1>3, <1>8, <1>9, <1>11, CodeByOne DEF Ends
<1> QED  BY <1>7, <1>10, <1>12

LEMMA RemoveStagingMoves ==
  ASSUME DaemonInv, RemoveStaging
  PROVE  DaemonInv'
<1> USE DEF DaemonInv
<1>1. /\ \A c \in Cmds : cmd[c] = None /\ cmd'[c] = None
      /\ UNCHANGED <<lifeVars, prevs, stamp, removed, last>> /\ staging' = None
  BY DEF RemoveStaging, lifeVars, AtRest
<1>2. /\ Machine' /\ Daemons' = Daemons /\ Known' = Known
      /\ UNCHANGED <<procs, install, schema, orderly, left, runFiles>>
  BY <1>1, FilesSame DEF lifeVars, runFiles, history
<1>3. Folders' /\ Flags' /\ Commands' /\ Staged'
  BY <1>1 DEF TypeInv, Folders, Flags, Commands, Staged, Stamps, lifeVars, history
<1>4. TypeInv'  BY <1>2, <1>3 DEF TypeInv
<1>5. OrderInv'
  <2>1. \A d \in Known : Led(d) => Led(d)'  BY <1>2 DEF Led, runFiles
  <2> QED  BY <1>1, <1>2, <2>1 DEF OrderInv, AtRest
<1>6. CodeInv'
  <2>1. \A c \in Cmds : ~Swapping(c)  BY <1>1 DEF Swapping
  <2>2. orderly => Sound' /\ Covers'  BY <1>1, <1>2, <2>1, SameCode DEF CodeInv
  <2> QED  BY <1>1, <1>2, <2>2 DEF CodeInv
<1> QED  BY <1>4, <1>5, <1>6

LEMMA InitialDaemon ==
  ASSUME InitUpgrade
  PROVE  DaemonInv
<1>1. Min(Versions) \in Versions  BY LeastIsThere, LifecycleAssumption
<1>2. Daemons = {} /\ Known = {}
  BY DEF InitUpgrade, Init, Known, Daemons, IsBrainApi, Alive
<1>3. Machine /\ Commands /\ Staged
  BY <1>2 DEF InitUpgrade, Init, Machine, Commands, Staged
<1>4. Folders /\ Flags
  BY <1>1 DEF InitUpgrade, Init, Folders, Flags, Stamps
<1>5. OrderInv  BY <1>2 DEF OrderInv, InitUpgrade, Init
<1>6. CodeInv
  <2>1. install = Min(Versions) /\ schema = install  BY DEF InitUpgrade, Init
  <2> DEFINE least == Min(Versions)
  <2>2. least \in Nat /\ least # None  BY <1>1, LifecycleAssumption
  <2> HIDE DEF least
  <2>3. least >= least /\ least <= least  BY <2>2
  <2>4. \A c \in Cmds : cmd[c] = None  BY DEF InitUpgrade, Init
  <2>5. install = least  BY <2>1 DEF least
  <2>6. Stamps = {}  BY DEF InitUpgrade, Stamps
  <2>7. Sound /\ Covers  BY <1>2, <2>1, <2>3, <2>5, <2>6 DEF Sound, Fits, Covers
  <2> QED  BY <1>2, <2>4, <2>7 DEF CodeInv
<1> QED  BY <1>3, <1>4, <1>5, <1>6 DEF DaemonInv, TypeInv

LEMMA NextDaemon ==
  ASSUME DaemonInv, IInv, [Next]_vars
  PROVE  DaemonInv'
<1>1. CASE UNCHANGED vars
  <2>1. UNCHANGED <<cmd, install, upVars, schema, orderly, astray, left, procs, runFiles>>
    BY <1>1 DEF vars, lifeVars, runFiles, history
  <2>2. /\ procs' \in [Pids -> {None} \cup Process] /\ Fewer(Daemons) /\ schema' \in Versions
        /\ orderly' \in BOOLEAN /\ astray' \subseteq Pids
    BY <2>1, StillThere DEF DaemonInv, TypeInv, Folders, Flags
  <2>3. TypeInv'  BY <2>1, <2>2, TypesWithFewer DEF DaemonInv
  <2>4. OrderInv' /\ CodeInv'
    BY <2>1, <2>2, OrderWithFewer, CodeWithFewer DEF DaemonInv, upVars
  <2> QED  BY <2>3, <2>4 DEF DaemonInv
<1>2. CASE LifeNext /\ UNCHANGED upVars
  BY <1>2, BootStep, ProcessStep, BeginStep, InterruptStep, ReadPidStep, CleanStaleStep,
     ProbeStep, SpawnStep, WritePidStep, HealthStep, ReadToStopStep, KillStep
     DEF LifeNext, StartStep, StopStep
<1>3. CASE \E c \in Cmds : (\E v \in Versions : UpgradeTo(c, v)) \/ Uninstall(c)
  BY <1>3, BeginStep
<1>4. ASSUME NEW c \in Cmds, UpgradeStep(c)  PROVE DaemonInv'
  BY <1>4, CleanUpStep, StageStep, BuildStep, SwapOutMoves, SwapInMoves, FailureMoves, LastStep
     DEF UpgradeStep
<1>5. CASE RemoveStaging  BY <1>5, RemoveStagingMoves
<1>6. CASE Exhausted  BY <1>1, <1>6 DEF Exhausted
<1> QED  BY <1>1, <1>2, <1>3, <1>4, <1>5, <1>6 DEF Next

LEMMA DaemonInvariant == Spec => []DaemonInv
<1>1. InitUpgrade => DaemonInv  BY InitialDaemon
<1>2. IInv /\ DaemonInv /\ [Next]_vars => DaemonInv'  BY NextDaemon
<1> QED  BY <1>1, <1>2, Invariant, PTL DEF Spec

(* TypeOK: commands, processes, files and folders are what the code takes  *)
(* them for; in particular the install is a whole version or absent, and   *)
(* an upgrade past its build has one in staging.                           *)
THEOREM TypeCorrect == Spec => []TypeOK
<1>1. DaemonInv => TypeOK  BY InvGives
<1> QED  BY <1>1, DaemonInvariant, PTL

(* Tracked: commands (commands/start.py, stop.py, upgrade.py) and restores *)
(* that run one at a time leave at most one brain_api that is not astray,  *)
(* and brain.pid and brain.port lead to it, whatever crashed, failed or    *)
(* was interrupted and whoever was given a free pid.  Astray are the       *)
(* daemons under which a restore moved the files away, and those whose     *)
(* start was interrupted before it wrote their pid.                        *)
THEOREM TrackedCorrect == Spec => []Tracked
<1>1. DaemonInv => Tracked  BY InvGives
<1> QED  BY <1>1, DaemonInvariant, PTL

(* DaemonCurrent: in such runs a daemon that is not astray runs the        *)
(* installed code, there is none from the staging of an upgrade to its end *)
(* (commands/upgrade.py stops it before), and its code is not older than   *)
(* the schema, unless an upgrade that failed left the schema at that.      *)
THEOREM DaemonCurrentCorrect == Spec => []DaemonCurrent
<1>1. DaemonInv => DaemonCurrent  BY InvGives
<1> QED  BY <1>1, DaemonInvariant, PTL
=============================================================================
