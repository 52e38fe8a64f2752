----------------------------- MODULE Lifecycle ------------------------------
(***************************************************************************)
(* The daemon of a vault and the two files that stand for it:              *)
(* `brain start' and `brain stop' (commands/start.py, stop.py), their      *)
(* helpers (runtime/pidfile.py, portprobe.py, supervisor.py), and the      *)
(* processes of the machine they look at.                                  *)
(*                                                                         *)
(* No lock orders the commands: two may run at once, and any of them may   *)
(* be interrupted between two steps.  A process is what the commands can   *)
(* see of it: whether its command line has the token of brain_api, the     *)
(* port it was given, whether it answers.  What a pid stands for may       *)
(* change behind a command's back: the daemon may crash, and the system    *)
(* may give its pid to another process.                                    *)
(***************************************************************************)
EXTENDS Integers, FiniteSets, FiniteSetsExt

CONSTANTS
  Cmds,      \* terminals: what runs the commands
  Pids,
  Ports,     \* 4317 .. 4330: natural numbers
  Versions,  \* of the code, each with its schema of state.sqlite: natural numbers
  MaxCmds, MaxFaults, \* bounds: commands, and crashes, failures or deaths, in a run
  None

Process == [kind : {"brain_api", "other"}, port : Ports \cup {None},
            state : {"booting", "serving"}, version : Versions \cup {None}]

(* A command: what it is, its next step, and what it has read so far.  The *)
(* steps of the last line are those of Upgrade.                            *)
Command == [op : {"start", "stop", "upgrade", "uninstall"},
            pc : {"read", "stale", "probe", "spawn", "write", "health", "kill", "clean"}
                 \cup {"ask", "stage", "build", "migrate", "out", "in", "rotate"},
            pid : Pids \cup {None}, port : Ports \cup {None},
            version : Versions \cup {None}, backup : Nat \cup {None}]

ASSUME LifecycleAssumption ==
  /\ Ports \subseteq Nat /\ Ports # {} /\ IsFiniteSet(Ports)
  /\ Versions \subseteq Nat /\ Versions # {} /\ IsFiniteSet(Versions)
  /\ MaxCmds \in Nat /\ MaxFaults \in Nat
  /\ None \notin Pids \cup Nat \cup Process \cup Command

VARIABLES
  procs,     \* pid -> the process, None
  pidFile,   \* .brain/run/brain.pid
  portFile,  \* .brain/run/brain.port
  cmd,       \* terminal -> the command it runs, None
  install,   \* the version in the install folder, None when there is none
  schema,    \* the version state.sqlite has been migrated to
  orderly,   \* history: commands and restores have run one at a time
  astray,    \* history: daemons whose pid a start did not live to write down,
             \* or whose files a restore has moved away
  left,      \* history: the schema a failed upgrade left ahead of the install
  cmds, faults

runFiles == <<pidFile, portFile>>
counters == <<cmds, faults>>
history == <<orderly, astray, left>>
lifeVars == <<procs, runFiles, cmd, install, schema, history, counters>>

Stranger == [kind |-> "other", port |-> None, state |-> "serving", version |-> None]

Alive(pid) == pid # None /\ procs[pid] # None
IsBrainApi(pid) == Alive(pid) /\ procs[pid].kind = "brain_api"
Daemons == {pid \in Pids : IsBrainApi(pid)}
Known == Daemons \ astray
Bound(port) == \E d \in Daemons : procs[d].port = port /\ procs[d].state = "serving"

Later(v, w) == Max({v, w})

AtRest == \A c \in Cmds : cmd[c] = None

Init ==
  /\ procs = [pid \in Pids |-> None]
  /\ pidFile = None /\ portFile = None
  /\ cmd = [c \in Cmds |-> None]
  /\ install = Min(Versions) /\ schema = Min(Versions)
  /\ orderly = TRUE /\ astray = {} /\ left = None
  /\ cmds = 0 /\ faults = 0

Fault == faults < MaxFaults /\ faults' = faults + 1
-----------------------------------------------------------------------------
(* The processes.                                                          *)

(* The application migrates state.sqlite to its own version as it starts;  *)
(* only then uvicorn binds the port, and with the port taken it exits.     *)
Boot(pid) ==
  /\ IsBrainApi(pid) /\ procs[pid].state = "booting"
  /\ schema' = Later(schema, procs[pid].version)
  /\ procs' = IF Bound(procs[pid].port) THEN [procs EXCEPT ![pid] = None]
                                        ELSE [procs EXCEPT ![pid].state = "serving"]
  /\ UNCHANGED <<runFiles, cmd, install, history, counters>>

Crash(pid) ==
  /\ IsBrainApi(pid) /\ Fault
  /\ procs' = [procs EXCEPT ![pid] = None]
  /\ UNCHANGED <<runFiles, cmd, install, schema, history, cmds>>

(* The system gives the pid of the file, which is free again, away.        *)
Reuse(pid) ==
  /\ pid = pidFile /\ ~Alive(pid)
  /\ procs' = [procs EXCEPT ![pid] = Stranger]
  /\ UNCHANGED <<runFiles, cmd, install, schema, history, counters>>

(* A restore moves .brain/run away with the rest of .brain (VaultBackup),  *)
(* and the daemon that serves it goes on: nothing leads to it any more.    *)
Restore ==
  /\ \E d \in Daemons : procs[d].state = "serving"
  /\ pidFile # None \/ portFile # None
  /\ Fault
  /\ pidFile' = None /\ portFile' = None
  /\ orderly' = (orderly /\ AtRest) /\ astray' = astray \cup Daemons
  /\ UNCHANGED <<procs, cmd, install, schema, left, cmds>>
-----------------------------------------------------------------------------
(* Helpers of the commands.                                                *)

At(c, pc) == cmd[c] # None /\ cmd[c].pc = pc
Goto(c, pc) == cmd' = [cmd EXCEPT ![c].pc = pc] /\ UNCHANGED history
Exit(c) == cmd' = [cmd EXCEPT ![c] = None] /\ UNCHANGED history

(* It fails, or is interrupted, in the middle of its work.                 *)
ExitBadly(c) ==
  /\ cmd' = [cmd EXCEPT ![c] = None]
  /\ astray' = astray \cup {d \in Daemons : At(c, "write") /\ cmd[c].pid = d}
  /\ left' = IF install' # None /\ install' < schema' THEN schema' ELSE left
  /\ UNCHANGED orderly

(* Migrations are committed one by one: what a run of them has reached     *)
(* when it stops.                                                          *)
Reached(c) ==
  IF At(c, "migrate") THEN {v \in Versions : schema <= v /\ v <= Later(schema, cmd[c].version)}
                      ELSE {schema}

Run(c, op, version) ==
  /\ cmd[c] = None /\ cmds < MaxCmds
  /\ cmds' = cmds + 1
  /\ cmd' = [cmd EXCEPT ![c] = [op |-> op, pc |-> "read", pid |-> None, port |-> None,
                                version |-> version, backup |-> None]]
  /\ orderly' = (orderly /\ AtRest)
  /\ UNCHANGED <<astray, left>>

(* stop_brain_api: terminate, wait, kill.                                  *)
Terminate(pid) == procs' = [procs EXCEPT ![pid] = None]
-----------------------------------------------------------------------------
(* brain start.                                                            *)

Start(c) ==
  /\ Run(c, "start", None)
  /\ UNCHANGED <<procs, runFiles, install, schema, faults>>

(* A live brain_api: "already running".  Anything else is stale.           *)
ReadPid(c) ==
  /\ At(c, "read") /\ cmd[c].op = "start"
  /\ IF IsBrainApi(pidFile) THEN Exit(c)
     ELSE Goto(c, IF pidFile = None THEN "probe" ELSE "stale")
  /\ UNCHANGED <<procs, runFiles, install, schema, counters>>

CleanStale(c) ==
  /\ At(c, "stale")
  /\ pidFile' = None /\ portFile' = None
  /\ Goto(c, "probe")
  /\ UNCHANGED <<procs, install, schema, counters>>

(* find_free_port and the port file, or NoFreePortError.                   *)
Free == {port \in Ports : ~Bound(port)}
Probe(c) ==
  /\ At(c, "probe")
  /\ IF Free = {} THEN Exit(c) /\ UNCHANGED portFile
     ELSE /\ portFile' = Min(Free)
          /\ cmd' = [cmd EXCEPT ![c].pc = "spawn", ![c].port = Min(Free)]
          /\ UNCHANGED history
  /\ UNCHANGED <<procs, pidFile, install, schema, counters>>

(* Without an install there is nothing to launch.                          *)
Spawn(c) ==
  /\ At(c, "spawn")
  /\ IF install = None
     THEN portFile' = None /\ Exit(c) /\ UNCHANGED procs
     ELSE /\ \E pid \in Pids :
               /\ ~Alive(pid)
               /\ procs' = [procs EXCEPT ![pid] =
                    [kind |-> "brain_api", port |-> cmd[c].port, state |-> "booting",
                     version |-> install]]
               /\ cmd' = [cmd EXCEPT ![c].pc = "write", ![c].pid = pid]
               /\ astray' = astray \ {pid}
          /\ UNCHANGED <<portFile, orderly, left>>
  /\ UNCHANGED <<pidFile, install, schema, counters>>

WritePid(c) ==
  /\ At(c, "write")
  /\ pidFile' = cmd[c].pid
  /\ Goto(c, "health")
  /\ UNCHANGED <<procs, portFile, install, schema, counters>>

(* wait_for_healthz: whoever answers on the port.                          *)
Healthy(c) ==
  /\ At(c, "health") /\ Bound(cmd[c].port)
  /\ Exit(c)
  /\ UNCHANGED <<procs, runFiles, install, schema, counters>>

(* Ten seconds without an answer: the child is stopped, the files go.      *)
Unhealthy(c, stops) ==
  /\ At(c, "health") /\ ~Bound(cmd[c].port)
  /\ IF stops THEN Terminate(cmd[c].pid) ELSE UNCHANGED procs
  /\ pidFile' = None /\ portFile' = None
  /\ Exit(c)
  /\ UNCHANGED <<install, schema, counters>>

(* MUTANT: the slow child is left alone. *)
HealthTimeout_LeavesChild(c) == Unhealthy(c, FALSE)

HealthTimeout(c) == Unhealthy(c, TRUE)
-----------------------------------------------------------------------------
(* brain stop; brain upgrade and brain uninstall begin with the same steps *)
(* (their _stop_running_daemon).                                           *)

Stop(c) ==
  /\ Run(c, "stop", None)
  /\ UNCHANGED <<procs, runFiles, install, schema, faults>>

(* Alive is all that is asked: a process that was given the pid of a       *)
(* crashed daemon is terminated too.                                       *)
ReadToStop(c) ==
  /\ At(c, "read") /\ cmd[c].op # "start"
  /\ cmd' = [cmd EXCEPT ![c].pid = pidFile, ![c].pc = IF Alive(pidFile) THEN "kill" ELSE "clean"]
  /\ UNCHANGED <<procs, runFiles, install, schema, history, counters>>

Kill(c) ==
  /\ At(c, "kill")
  /\ Terminate(cmd[c].pid)
  /\ Goto(c, "clean")
  /\ UNCHANGED <<runFiles, install, schema, counters>>

Cleaned(c, next) ==
  /\ At(c, "clean")
  /\ pidFile' = None /\ portFile' = None
  /\ IF cmd[c].op = "stop" THEN Exit(c) ELSE Goto(c, next)
  /\ UNCHANGED <<procs, install, schema, counters>>
-----------------------------------------------------------------------------
(* A command is interrupted.                                               *)
Interrupt(c) ==
  /\ cmd[c] # None /\ Fault
  /\ schema' \in Reached(c)
  /\ UNCHANGED <<procs, runFiles, install, cmds>>
  /\ ExitBadly(c)

StartStep(c) ==
  \/ ReadPid(c) \/ CleanStale(c) \/ Probe(c) \/ Spawn(c) \/ WritePid(c)
  \/ Healthy(c) \/ HealthTimeout(c)

StopStep(c) == ReadToStop(c) \/ Kill(c)

LifeNext ==
  \/ \E pid \in Pids : Boot(pid) \/ Crash(pid) \/ Reuse(pid)
  \/ Restore
  \/ \E c \in Cmds : Start(c) \/ Stop(c) \/ StartStep(c) \/ StopStep(c) \/ Interrupt(c)
=============================================================================
