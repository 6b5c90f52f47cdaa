---------------------------- MODULE MasterCycle ----------------------------
(***************************************************************************)
(* The master process: master_process_cycle, the process table             *)
(* g_processes, spawn_process, reap_children, signal_worker_processes and  *)
(* the signal handler, together with the child processes as the master     *)
(* sees them.                                                              *)
(*                                                                         *)
(* A step of the master is the treatment of one table slot, one spawn, or  *)
(* one test of the loop.  Every signal is blocked except inside            *)
(* sigsuspend: what a child or an operator does in the middle of an        *)
(* iteration is seen by the master only there (kill fails for a process    *)
(* that has been waited for, never for a zombie), so children and          *)
(* operators move while the master sleeps in sigsuspend.  Time is          *)
(* abstract: a set timer may go off at any moment.  Pids are not reused.   *)
(***************************************************************************)
EXTENDS Integers, FiniteSets

CONSTANTS
  NumProcesses,  \* cycle->num_processes
  MaxSlots,      \* MAX_PROCESSES
  MaxPid,        \* bound: processes the system lets the master fork
  MaxSignals,    \* bound: signals sent to the master from outside
  MaxCrashes,    \* bound: crashes and failed starts of children
  MaxForkFails,  \* bound: failures of socketpair or fork below MaxPid
  ChannelSize,   \* messages a channel holds before sendmsg says EAGAIN
  Signals,       \* the signals sent from outside
  GracefulQuit   \* FLAGS_use_graceful_quit

ASSUME MasterAssumption ==
  /\ NumProcesses \in Nat \ {0}
  /\ MaxSlots \in Nat \ {0} /\ MaxPid \in Nat
  /\ MaxSignals \in Nat /\ MaxCrashes \in Nat /\ MaxForkFails \in Nat
  /\ ChannelSize \in Nat \ {0}
  /\ Signals \subseteq {"HUP", "TERM", "QUIT", "WINCH", "USR1", "USR2"}
  /\ GracefulQuit \in BOOLEAN

Slots == 0..(MaxSlots - 1)
Pids == 1..MaxPid

(* delay = 50 * (2 << delay_times) ms; above 1000 ms TERM becomes KILL, so *)
(* larger values of delay_times need not be told apart.                    *)
KillTimes == 4
TermDelay == <<100, 200, 400, 800, 1600>>
ReloadDelay == 60000

VARIABLES
  mpc,          \* where the master is
  idx,          \* loop index: slot of a pass, or number of spawned children
  kind,         \* start_worker_processes: its argument type
  signo,        \* signal_worker_processes: its argument
  ret,          \* where the master goes on after spawning or signalling
  table,        \* g_processes
  last,         \* g_last_process
  slot,         \* g_process_slot
  live,         \* live
  nlive,        \* reap_children: its local live
  delay, delay_times, sigio, graceful,   \* locals of the same names
  delay_shutdown,                        \* delay_shutdown_process
  flags,        \* those of g_reap, g_sigalrm, ... that are set
  new_binary,   \* g_new_binary: 0, -1 or a pid
  noaccepting,  \* g_noaccepting
  pidfile,      \* name under which the master's pid file exists
  status_file,  \* FLAGS_status_file exists
  pending,      \* blocked signals waiting for the master
  itimer,       \* ITIMER_REAL is running
  child,        \* state of each process
  mail,         \* unread messages in its channel
  stopmail,     \* one of them is SHS_CMD_QUIT or SHS_CMD_TERMINATE
  flagged,      \* its signal handler has set g_quit or g_terminate
  next_pid,     \* the next pid
  sent, crashes, forkfails,   \* counters of the bounds
  revived,      \* history: children spawned by a reload when live was 0
  swallowed,    \* history: SIGALRM of a reload was dropped by a `continue'
  short         \* history: a start failed or an operator stopped workers

loop == <<mpc, idx, kind, signo, ret>>
timer == <<delay, delay_times, sigio, graceful, delay_shutdown>>
files == <<pidfile, status_file>>
kids == <<child, mail, stopmail, flagged, next_pid>>
env == <<sent, crashes, forkfails>>
history == <<revived, swallowed, short>>
vars == <<loop, timer, files, kids, env, history, table, last, slot, live,
          nlive, flags, new_binary, noaccepting, pending, itimer>>

MasterPC == {"spawn", "top", "suspend", "reap", "dispatch", "signal",
             "restart", "change", "noaccept", "exit"}
Flags == {"reap", "sigalrm", "terminate", "quit", "reconfigure", "restart",
          "change_binary", "noaccept"}
AllSignals == {"CHLD", "ALRM", "HUP", "TERM", "QUIT", "WINCH", "USR1", "USR2"}
ChildState == {"none", "init", "run", "told", "zombie", "zombie2", "gone"}

Process == [pid : Pids \cup {-1, 0}, respawn : BOOLEAN, just : BOOLEAN,
            detached : BOOLEAN, exiting : BOOLEAN, exited : BOOLEAN,
            channel : {"open", "closed", "none"}]

LoopType ==
  /\ mpc \in MasterPC /\ idx \in Nat
  /\ kind \in {"respawn", "just_respawn"}
  /\ signo \in {"QUIT", "TERM", "KILL"}
  /\ ret \in {"top", "restart", "change"}
  /\ pidfile \in {"pid", "oldbin", "none"}
TableType ==
  /\ table \in [Slots -> Process]
  /\ last \in 0..MaxSlots /\ slot \in Slots
TimerType ==
  /\ delay \in Nat /\ delay_times \in 0..KillTimes
  /\ sigio \in 0..(NumProcesses + 1)
  /\ sent \in 0..MaxSignals /\ crashes \in 0..MaxCrashes
  /\ forkfails \in 0..MaxForkFails
BoolType ==
  /\ live \in BOOLEAN /\ nlive \in BOOLEAN
  /\ graceful \in BOOLEAN /\ delay_shutdown \in BOOLEAN
  /\ noaccepting \in BOOLEAN /\ status_file \in BOOLEAN
  /\ itimer \in BOOLEAN /\ swallowed \in BOOLEAN /\ short \in BOOLEAN
SetType ==
  /\ flags \in SUBSET Flags /\ pending \in SUBSET AllSignals
  /\ new_binary \in Pids \cup {-1, 0} /\ revived \in SUBSET Pids
KidsType ==
  /\ child \in [Pids -> ChildState]
  /\ mail \in [Pids -> 0..ChannelSize]
  /\ next_pid \in 1..(MaxPid + 1)
ToldType == stopmail \in [Pids -> BOOLEAN] /\ flagged \in [Pids -> BOOLEAN]

TypeOK == /\ LoopType /\ TableType /\ TimerType /\ BoolType /\ SetType
          /\ KidsType /\ ToldType

Free == [pid |-> 0, respawn |-> FALSE, just |-> FALSE, detached |-> FALSE,
         exiting |-> FALSE, exited |-> FALSE, channel |-> "closed"]

(* master_process_cycle up to its loop; the spawns that follow are steps.  *)
Init ==
  /\ mpc = "spawn" /\ idx = 0 /\ kind = "respawn" /\ signo = "QUIT"
  /\ ret = "top"
  /\ table = [s \in Slots |-> Free] /\ last = 0 /\ slot = 0
  /\ live = TRUE /\ nlive = FALSE
  /\ delay = 0 /\ delay_times = 0 /\ sigio = 0 /\ graceful = FALSE
  /\ delay_shutdown = FALSE
  /\ flags = {} /\ new_binary = 0 /\ noaccepting = FALSE
  /\ pidfile = "pid" /\ status_file = GracefulQuit
  /\ pending = {} /\ itimer = FALSE
  /\ child = [p \in Pids |-> "none"] /\ mail = [p \in Pids |-> 0]
  /\ stopmail = [p \in Pids |-> FALSE] /\ flagged = [p \in Pids |-> FALSE]
  /\ next_pid = 1
  /\ sent = 0 /\ crashes = 0 /\ forkfails = 0
  /\ revived = {} /\ swallowed = FALSE /\ short = FALSE

-----------------------------------------------------------------------------
(* spawn_process and the channels.                                         *)

Used == 0..(last - 1)

(* The tests at the end of the loop, from l on: the next one whose flag is *)
(* set.                                                                    *)
Goto(l) ==
  IF l = "restart" /\ "restart" \in flags THEN "restart"
  ELSE IF l \in {"restart", "change"} /\ "change_binary" \in flags
  THEN "change"
  ELSE IF l # "top" /\ "noaccept" \in flags THEN "noaccept"
  ELSE "top"

(* The end of a call: the master goes on at ret, the locals are gone. *)
Return == /\ mpc' = Goto(ret)
          /\ idx' = 0 /\ kind' = "respawn" /\ signo' = "QUIT" /\ ret' = "top"

Alive == {"init", "run", "told"}

(* One more message in the channels of the slots S of table t, if it fits. *)
Deliver(m, t, S) ==
  [p \in Pids |->
     IF m[p] < ChannelSize
          /\ \E s \in S : t[s].pid = p /\ t[s].channel = "open"
     THEN m[p] + 1 ELSE m[p]]

(* pass_open_channel, after the slot's process has been recorded in t. *)
OpenChannel(m, t, used, s) == Deliver(m, t, used \ {s})

CanFork == next_pid <= MaxPid
ForkMayFail == ~CanFork \/ forkfails < MaxForkFails
CountFail == forkfails' = IF CanFork THEN forkfails + 1 ELSE forkfails

(* fork succeeds: the new process next_pid. *)
Fork ==
  /\ CanFork
  /\ child' = [child EXCEPT ![next_pid] = "init"]
  /\ next_pid' = next_pid + 1
  /\ UNCHANGED <<stopmail, flagged, forkfails>>

NoFork == CountFail /\ UNCHANGED <<child, next_pid, stopmail, flagged>>

(* The first slot without a process, at most g_last_process. *)
FreeSlot ==
  IF \E s \in Used : table[s].pid = -1
  THEN CHOOSE s \in Used : /\ table[s].pid = -1
                           /\ \A t \in Used : table[t].pid = -1 => s <= t
  ELSE last

(* The slot of the process just forked, which the master fills in. *)
Spawned(type) ==
  [pid |-> next_pid, respawn |-> type \in {"respawn", "just_respawn"},
   just |-> type = "just_respawn", detached |-> type = "detached",
   exiting |-> FALSE, exited |-> FALSE,
   channel |-> IF type = "detached" THEN "none" ELSE "open"]

(* start_worker_processes and start_monitor_processes, one child: spawned; *)
(* not spawned because fork failed (its channel is closed again); not      *)
(* spawned because there is no slot or no socket pair, when the previous   *)
(* g_process_slot is announced once more.                                  *)
SpawnChild ==
  /\ mpc = "spawn" /\ idx <= NumProcesses
  /\ idx' = idx + 1
  /\ \/ /\ FreeSlot < MaxSlots /\ Fork
        /\ table' = [table EXCEPT ![FreeSlot] = Spawned(kind)]
        /\ last' = IF FreeSlot = last THEN last + 1 ELSE last
        /\ slot' = FreeSlot
        /\ mail' = OpenChannel(mail, table', 0..(last' - 1), slot')
        /\ revived' = IF live THEN revived ELSE revived \cup {next_pid}
        /\ UNCHANGED short
     \/ /\ FreeSlot < MaxSlots /\ ForkMayFail /\ NoFork
        /\ table' = [table EXCEPT ![FreeSlot].channel = "closed"]
        /\ slot' = FreeSlot
        /\ short' = TRUE
        /\ UNCHANGED <<last, mail, revived>>
     \/ /\ \/ FreeSlot = MaxSlots /\ UNCHANGED forkfails
           \/ CanFork /\ ForkMayFail /\ CountFail
        /\ UNCHANGED <<child, next_pid, stopmail, flagged>>
        /\ mail' = OpenChannel(mail, table, Used, slot)
        /\ short' = TRUE
        /\ UNCHANGED <<table, last, slot, revived>>
  /\ UNCHANGED <<mpc, kind, signo, ret, timer, files, sent, crashes,
                 swallowed, live, nlive, flags, new_binary, noaccepting,
                 pending, itimer>>

SpawnDone ==
  /\ mpc = "spawn" /\ idx > NumProcesses
  /\ Return
  /\ UNCHANGED <<timer, files, kids, env, history,
                 table, last, slot, live, nlive, flags, new_binary,
                 noaccepting, pending, itimer>>

-----------------------------------------------------------------------------
(* The head of the loop, and sigsuspend with the handlers it runs.         *)

(* setitimer; a SIGALRM of the last round that no branch has used is over. *)
LoopTop ==
  /\ mpc = "top"
  /\ itimer' = (itimer \/ delay > 0)
  /\ delay' = 0
  /\ graceful' = (graceful /\ delay = 0)
  /\ flags' = flags \ {"sigalrm"}
  /\ sigio' = IF "sigalrm" \in flags THEN 0 ELSE sigio
  /\ delay_times' = IF "sigalrm" \in flags /\ delay_times < KillTimes
                    THEN delay_times + 1 ELSE delay_times
  /\ swallowed' = (swallowed \/ ("sigalrm" \in flags /\ delay_shutdown))
  /\ mpc' = "suspend"
  /\ UNCHANGED <<idx, kind, signo, ret, delay_shutdown, files, kids, env,
                 revived, short, table, last, slot, live, nlive, new_binary,
                 noaccepting, pending>>

(* signal_handler, for one signal. *)
FlagOf(sig) ==
  CASE sig = "CHLD" -> {"reap"}
    [] sig = "ALRM" -> {"sigalrm"}
    [] sig = "HUP" -> {"reconfigure"}
    [] sig = "TERM" -> {"terminate"}
    [] sig = "QUIT" -> {"quit"}
    [] sig = "WINCH" -> {"noaccept"}
    [] sig = "USR2" -> IF new_binary > 0 THEN {} ELSE {"change_binary"}
    [] sig = "USR1" -> {}

Zombies == {p \in Pids : child[p] \in {"zombie", "zombie2"}}

(* Mutant: one waitpid for each SIGCHLD. *)
ProcessGetStatusOnce ==
  \E z \in Zombies \cup {0} :
    /\ z = 0 => Zombies = {}
    /\ table' = [s \in Slots |->
         IF s \in Used /\ table[s].pid = z /\ z # 0
         THEN [table[s] EXCEPT !.exited = TRUE] ELSE table[s]]
    /\ child' = [p \in Pids |-> IF p = z THEN "gone" ELSE child[p]]
    /\ stopmail' = [p \in Pids |-> stopmail[p] /\ p # z]
    /\ flagged' = [p \in Pids |-> flagged[p] /\ p # z]

(* process_get_status: every dead child is waited for; exit status 2 means *)
(* that the process shall not be started again.                            *)
ProcessGetStatus ==
  /\ table' = [s \in Slots |->
       IF s \in Used /\ table[s].pid \in Zombies
       THEN [table[s] EXCEPT !.exited = TRUE,
               !.respawn = @ /\ child[table[s].pid] # "zombie2"]
       ELSE table[s]]
  /\ child' = [p \in Pids |-> IF p \in Zombies THEN "gone" ELSE child[p]]
  /\ stopmail' = [p \in Pids |-> stopmail[p] /\ p \notin Zombies]
  /\ flagged' = [p \in Pids |-> flagged[p] /\ p \notin Zombies]

Suspend ==
  /\ mpc = "suspend" /\ pending # {}
  /\ pending' = {}
  /\ flags' = flags \cup (UNION {FlagOf(sig) : sig \in pending})
  /\ IF "CHLD" \in pending THEN ProcessGetStatus
     ELSE UNCHANGED <<table, child, stopmail, flagged>>
  /\ IF "reap" \in flags'
     THEN mpc' = "reap" /\ idx' = 0 /\ nlive' = FALSE
     ELSE mpc' = "dispatch" /\ UNCHANGED <<idx, nlive>>
  /\ UNCHANGED <<kind, signo, ret, timer, files, mail, next_pid, env,
                 history, last, slot, live, new_binary, noaccepting, itimer>>

-----------------------------------------------------------------------------
(* reap_children, one slot. *)

ReapUnchanged ==
  UNCHANGED <<mpc, kind, signo, ret, timer, status_file, sent, crashes,
              swallowed, live, pending, itimer>>

ReapNothing ==
  /\ mpc = "reap" /\ idx < last
  /\ table[idx].pid = -1 \/ ~table[idx].exited
  /\ nlive' = (nlive \/ (table[idx].pid # -1
                          /\ (table[idx].exiting \/ ~table[idx].detached)))
  /\ idx' = idx + 1
  /\ ReapUnchanged
  /\ UNCHANGED <<table, last, slot, kids, forkfails, revived, short, flags,
                 new_binary, noaccepting, pidfile>>

(* The table and the channels after CLOSE_CHANNEL for slot idx; unread     *)
(* messages go with the channel.                                           *)
ClosedTable ==
  [table EXCEPT ![idx].channel = IF table[idx].detached THEN @ ELSE "none"]
ClosedMail ==
  IF table[idx].detached THEN mail
  ELSE Deliver([mail EXCEPT ![table[idx].pid] = 0], ClosedTable,
               {n \in Used : ~table[n].exited})

MustRespawn == /\ table[idx].respawn /\ ~table[idx].exiting
               /\ flags \cap {"terminate", "quit"} = {}

(* The process is started again in its slot.  If that fails the slot keeps *)
(* its dead process until the next SIGCHLD.                                *)
ReapRespawn ==
  /\ mpc = "reap" /\ idx < last
  /\ table[idx].pid # -1 /\ table[idx].exited /\ MustRespawn
  /\ idx' = idx + 1
  /\ \/ /\ Fork
        /\ table' = [ClosedTable EXCEPT ![idx].pid = next_pid,
                       ![idx].exited = FALSE, ![idx].channel = "open"]
        /\ slot' = idx
        /\ mail' = OpenChannel(ClosedMail, table', Used, idx)
        /\ nlive' = TRUE
     \/ /\ ForkMayFail /\ NoFork
        /\ table' = [ClosedTable EXCEPT ![idx].channel = "closed"]
        /\ slot' = idx
        /\ mail' = ClosedMail
        /\ UNCHANGED nlive
     \/ /\ CanFork /\ ForkMayFail /\ NoFork
        /\ table' = ClosedTable
        /\ mail' = ClosedMail
        /\ UNCHANGED <<slot, nlive>>
  /\ ReapUnchanged
  /\ UNCHANGED <<last, revived, short, flags, new_binary, noaccepting,
                 pidfile>>

(* Mutant: the table shrinks by one whichever slot is freed. *)
ReapRemoveShrink ==
  /\ mpc = "reap" /\ idx < last
  /\ table[idx].pid # -1 /\ table[idx].exited /\ ~MustRespawn
  /\ idx' = idx + 1
  /\ mail' = ClosedMail
  /\ last' = last - 1 /\ table' = ClosedTable
  /\ ReapUnchanged
  /\ UNCHANGED <<slot, nlive, child, stopmail, flagged, next_pid, forkfails,
                 revived, short, flags, new_binary, noaccepting, pidfile>>

(* The process is gone for good; a failed new binary gives back the name   *)
(* of the pid file and, if the workers were told to go, asks for new ones. *)
ReapRemove ==
  /\ mpc = "reap" /\ idx < last
  /\ table[idx].pid # -1 /\ table[idx].exited /\ ~MustRespawn
  /\ idx' = idx + 1
  /\ mail' = ClosedMail
  /\ IF table[idx].pid = new_binary
     THEN /\ pidfile' = IF pidfile = "oldbin" THEN "pid" ELSE pidfile
          /\ new_binary' = 0
          /\ noaccepting' = FALSE
          /\ flags' = IF noaccepting THEN flags \cup {"restart"} ELSE flags
     ELSE UNCHANGED <<pidfile, new_binary, noaccepting, flags>>
  /\ IF idx = last - 1
     THEN last' = last - 1 /\ table' = ClosedTable
     ELSE table' = [ClosedTable EXCEPT ![idx].pid = -1] /\ UNCHANGED last
  /\ ReapUnchanged
  /\ UNCHANGED <<slot, nlive, child, stopmail, flagged, next_pid, forkfails,
                 revived, short>>

ReapDone ==
  /\ mpc = "reap" /\ idx >= last
  /\ live' = nlive
  /\ nlive' = FALSE
  /\ idx' = 0
  /\ flags' = flags \ {"reap"}
  /\ mpc' = "dispatch"
  /\ UNCHANGED <<kind, signo, ret, timer, files, kids, env, history, table,
                 last, slot, new_binary, noaccepting, pending, itimer>>

-----------------------------------------------------------------------------
(* The tests of the loop, in their order.                                  *)

Stopping == flags \cap {"terminate", "quit"} # {}

(* Mutant: the master leaves as soon as it is told to. *)
MasterExitEarly ==
  /\ mpc = "dispatch" /\ Stopping
  /\ mpc' = "exit"
  /\ pidfile' = "none"
  /\ UNCHANGED <<idx, kind, signo, ret, timer, status_file, kids, env,
                 history, table, last, slot, live, nlive, flags, new_binary,
                 noaccepting, pending, itimer>>

(* master_process_exit removes one of the two names of the pid file. *)
MasterExit ==
  /\ mpc = "dispatch" /\ Stopping /\ ~live
  /\ mpc' = "exit"
  /\ pidfile' = IF pidfile = (IF new_binary # 0 THEN "oldbin" ELSE "pid")
                THEN "none" ELSE pidfile
  /\ UNCHANGED <<idx, kind, signo, ret, timer, status_file, kids, env,
                 history, table, last, slot, live, nlive, flags, new_binary,
                 noaccepting, pending, itimer>>

(* Mutant: TERM is never replaced by KILL. *)
TerminateGently ==
  /\ mpc = "dispatch" /\ "terminate" \in flags /\ live
  /\ delay' = TermDelay[delay_times + 1]
  /\ \/ sigio > 0 /\ sigio' = sigio - 1 /\ mpc' = "top" /\ UNCHANGED <<idx, signo, ret>>
     \/ /\ sigio = 0 /\ sigio' = NumProcesses + 1
        /\ mpc' = "signal" /\ idx' = 0 /\ signo' = "TERM" /\ ret' = "top"
  /\ UNCHANGED <<graceful, status_file, kind, delay_times, delay_shutdown,
                 pidfile, kids, env, history, table, last, slot, live, nlive,
                 flags, new_binary, noaccepting, pending, itimer>>

(* g_terminate: every wake-up counts down sigio, and the children are told *)
(* again (at last: killed) when it has reached 0.                          *)
Terminate ==
  /\ mpc = "dispatch" /\ "terminate" \in flags /\ live
  /\ graceful' = (graceful \/ (GracefulQuit /\ status_file))
  /\ status_file' = (status_file /\ ~GracefulQuit)
  /\ delay' = TermDelay[delay_times + 1]
  /\ \/ /\ sigio > 0
        /\ sigio' = sigio - 1
        /\ mpc' = "top"
        /\ UNCHANGED <<idx, signo, ret>>
     \/ /\ sigio = 0 /\ graceful'
        /\ sigio' = NumProcesses + 1
        /\ mpc' = "top"
        /\ UNCHANGED <<idx, signo, ret>>
     \/ /\ sigio = 0 /\ ~graceful'
        /\ sigio' = NumProcesses + 1
        /\ mpc' = "signal" /\ idx' = 0 /\ ret' = "top"
        /\ signo' = IF delay' > 1000 THEN "KILL" ELSE "TERM"
  /\ UNCHANGED <<kind, delay_times, delay_shutdown, pidfile, kids, env,
                 history, table, last, slot, live, nlive, flags, new_binary,
                 noaccepting, pending, itimer>>

DispatchUnchanged ==
  UNCHANGED <<files, kids, env, revived, swallowed, table, last, slot, nlive,
              new_binary, pending, itimer>>

Quit ==
  /\ mpc = "dispatch" /\ live /\ "quit" \in flags /\ "terminate" \notin flags
  /\ mpc' = "signal" /\ idx' = 0 /\ signo' = "QUIT" /\ ret' = "top"
  /\ DispatchUnchanged
  /\ UNCHANGED <<kind, timer, live, flags, noaccepting, short>>

(* The test of last_reconfig_tm: less than 150 s after the last reload.    *)
(* The 60 s timer of that reload is still running, has just gone off, or   *)
(* has been lost.                                                          *)
ReloadTooSoon ==
  /\ mpc = "dispatch" /\ ~Stopping /\ "reconfigure" \in flags
  /\ delay_shutdown
  /\ flags' = flags \ {"reconfigure"}
  /\ mpc' = "top"
  /\ DispatchUnchanged
  /\ UNCHANGED <<idx, kind, signo, ret, timer, live, noaccepting, short>>

MayReload ==
  \/ ~delay_shutdown
  \/ ~itimer /\ "sigalrm" \notin flags /\ "ALRM" \notin pending

ReloadFails ==
  /\ mpc = "dispatch" /\ ~Stopping /\ "reconfigure" \in flags /\ MayReload
  /\ new_binary = 0
  /\ flags' = flags \ {"reconfigure"}
  /\ mpc' = "top"
  /\ DispatchUnchanged
  /\ UNCHANGED <<idx, kind, signo, ret, timer, live, noaccepting, short>>

(* Mutant: the reload does not start its timer. *)
ReloadNoDelay ==
  /\ mpc = "dispatch" /\ ~Stopping /\ "reconfigure" \in flags /\ MayReload
  /\ flags' = flags \ {"reconfigure"}
  /\ mpc' = "spawn" /\ idx' = 0 /\ ret' = "top" /\ kind' = "just_respawn"
  /\ delay_shutdown' = TRUE
  /\ UNCHANGED <<noaccepting, delay>>
  /\ DispatchUnchanged
  /\ UNCHANGED <<signo, delay_times, sigio, graceful, live, short>>

(* The new generation is started beside the old one, which is told to quit *)
(* when the timer goes off.  While a new binary runs, only processes are   *)
(* added.                                                                  *)
Reload ==
  /\ mpc = "dispatch" /\ ~Stopping /\ "reconfigure" \in flags /\ MayReload
  /\ flags' = flags \ {"reconfigure"}
  /\ mpc' = "spawn" /\ idx' = 0 /\ ret' = "top"
  /\ IF new_binary # 0
     THEN /\ kind' = "respawn"
          /\ noaccepting' = FALSE
          /\ UNCHANGED <<delay, delay_shutdown>>
     ELSE /\ kind' = "just_respawn"
          /\ delay_shutdown' = TRUE /\ delay' = ReloadDelay
          /\ UNCHANGED noaccepting
  /\ DispatchUnchanged
  /\ UNCHANGED <<signo, delay_times, sigio, graceful, live, short>>

(* The timer of the reload: the older generation is told to quit. *)
DelayedShutdown ==
  /\ mpc = "dispatch" /\ ~Stopping /\ "reconfigure" \notin flags
  /\ delay_shutdown /\ "sigalrm" \in flags
  /\ delay' = 0 /\ delay_times' = 0 /\ delay_shutdown' = FALSE /\ live' = TRUE
  /\ mpc' = "signal" /\ idx' = 0 /\ signo' = "QUIT" /\ ret' = "restart"
  /\ DispatchUnchanged
  /\ UNCHANGED <<kind, sigio, graceful, flags, noaccepting, short>>

DispatchDone ==
  /\ mpc = "dispatch" /\ ~Stopping /\ "reconfigure" \notin flags
  /\ ~(delay_shutdown /\ "sigalrm" \in flags)
  /\ mpc' = Goto("restart")
  /\ DispatchUnchanged
  /\ UNCHANGED <<idx, kind, signo, ret, timer, live, flags, noaccepting, short>>

Restart ==
  /\ mpc = "restart"
  /\ flags' = flags \ {"restart"}
  /\ live' = TRUE
  /\ mpc' = "spawn" /\ idx' = 0 /\ kind' = "respawn" /\ ret' = "change"
  /\ DispatchUnchanged
  /\ UNCHANGED <<signo, timer, noaccepting, short>>

NoAccept ==
  /\ mpc = "noaccept"
  /\ flags' = flags \ {"noaccept"}
  /\ noaccepting' = TRUE /\ short' = TRUE
  /\ mpc' = "signal" /\ idx' = 0 /\ signo' = "QUIT" /\ ret' = "top"
  /\ DispatchUnchanged
  /\ UNCHANGED <<kind, timer, live>>

(* exec_new_binary: the pid file is renamed, the new binary is spawned as  *)
(* a detached process; on failure the name is given back and g_new_binary  *)
(* becomes -1.                                                             *)
ChangeBinary ==
  /\ mpc = "change"
  /\ flags' = flags \ {"change_binary"}
  /\ mpc' = Goto("noaccept")
  /\ \/ /\ pidfile = "pid" /\ FreeSlot < MaxSlots /\ Fork
        /\ pidfile' = "oldbin"
        /\ new_binary' = next_pid
        /\ table' = [table EXCEPT ![FreeSlot] = Spawned("detached")]
        /\ last' = IF FreeSlot = last THEN last + 1 ELSE last
        /\ slot' = FreeSlot
     \/ /\ pidfile = "pid" /\ FreeSlot < MaxSlots /\ ForkMayFail /\ NoFork
        /\ new_binary' = -1
        /\ table' = [table EXCEPT ![FreeSlot].channel = "none"]
        /\ slot' = FreeSlot
        /\ UNCHANGED <<pidfile, last>>
     \/ /\ pidfile # "pid" \/ FreeSlot = MaxSlots
        /\ new_binary' = -1
        /\ UNCHANGED <<pidfile, table, last, slot, child, next_pid, stopmail,
                       flagged, forkfails>>
  /\ UNCHANGED <<idx, kind, signo, ret, timer, status_file, mail, sent,
                 crashes, history, live, nlive, noaccepting, pending, itimer>>

-----------------------------------------------------------------------------
(* signal_worker_processes, one slot.                                      *)

SignalUnchanged ==
  UNCHANGED <<mpc, kind, signo, ret, timer, files, next_pid, env, history,
              last, slot, live, nlive, new_binary, noaccepting, itimer>>

(* Mutant: a child of the last reload is not spared. *)
SparedNotJust(e) ==
  e.detached \/ e.pid = -1 \/ (e.exiting /\ signo = "QUIT")

(* Not signalled: detached or empty slots, children of the last reload     *)
(* (once), children that were told to quit before.                         *)
Spared(e) ==
  e.detached \/ e.pid = -1 \/ e.just \/ (e.exiting /\ signo = "QUIT")

(* Mutant: a spared child is spared for ever. *)
SignalSpareKeep ==
  /\ mpc = "signal" /\ idx < last /\ Spared(table[idx])
  /\ idx' = idx + 1
  /\ SignalUnchanged
  /\ UNCHANGED <<table, flags, child, mail, stopmail, flagged, pending>>

SignalSpare ==
  /\ mpc = "signal" /\ idx < last /\ Spared(table[idx])
  /\ idx' = idx + 1
  /\ table' = [table EXCEPT ![idx].just = @ /\ (table[idx].detached
                                                 \/ table[idx].pid = -1)]
  /\ SignalUnchanged
  /\ UNCHANGED <<flags, child, mail, stopmail, flagged, pending>>

CanWrite(e) == e.channel = "open" /\ mail[e.pid] < ChannelSize

(* shs_write_channel succeeds. *)
SignalWrite ==
  /\ mpc = "signal" /\ idx < last /\ ~Spared(table[idx])
  /\ signo # "KILL" /\ CanWrite(table[idx])
  /\ idx' = idx + 1
  /\ mail' = [mail EXCEPT ![table[idx].pid] = @ + 1]
  /\ stopmail' = [stopmail EXCEPT ![table[idx].pid] = TRUE]
  /\ table' = [table EXCEPT ![idx].exiting = TRUE]
  /\ SignalUnchanged
  /\ UNCHANGED <<flags, child, flagged, pending>>

(* signal_handler in a child: SIGTERM is ignored with a graceful quit. *)
StopsChild(sig) == sig = "QUIT" \/ ~GracefulQuit

(* kill: SIGKILL, or the channel is full or closed. *)
SignalKill ==
  /\ mpc = "signal" /\ idx < last /\ ~Spared(table[idx])
  /\ signo = "KILL" \/ ~CanWrite(table[idx])
  /\ idx' = idx + 1
  /\ LET p == table[idx].pid
     IN \/ /\ child[p] \in {"none", "gone"}             \* ESRCH
           /\ table' = [table EXCEPT ![idx].exited = TRUE,
                                     ![idx].exiting = FALSE]
           /\ flags' = flags \cup {"reap"}
           /\ UNCHANGED <<child, flagged, pending>>
        \/ /\ child[p] \notin {"none", "gone"}
           /\ table' = [table EXCEPT ![idx].exiting = TRUE]
           /\ IF signo = "KILL"
              THEN /\ child' = [child EXCEPT ![p] =
                                  IF @ \in Alive THEN "zombie" ELSE @]
                   /\ pending' = pending \cup {"CHLD"}
                   /\ UNCHANGED flagged
              ELSE /\ flagged' = [flagged EXCEPT ![p] = @ \/ StopsChild(signo)]
                   /\ UNCHANGED <<child, pending>>
           /\ UNCHANGED flags
  /\ SignalUnchanged
  /\ UNCHANGED <<mail, stopmail>>

SignalDone ==
  /\ mpc = "signal" /\ idx >= last
  /\ Return
  /\ UNCHANGED <<timer, files, kids, env, history,
                 table, last, slot, live, nlive, flags, new_binary,
                 noaccepting, pending, itimer>>

-----------------------------------------------------------------------------
(* The children, the timer and the outside world.                          *)

ChildUnchanged ==
  UNCHANGED <<loop, timer, files, next_pid, sent, forkfails, revived,
              swallowed, table, last, slot, live, nlive, flags, new_binary,
              noaccepting, itimer>>

(* Where the others move; see the head of the module. *)
Asleep == mpc = "suspend"

IsDetached(p) == \E s \in Slots : table[s].pid = p /\ table[s].detached

(* worker_process_cycle or monitor_process_cycle reaches its event loop. *)
ChildReady(p) ==
  /\ Asleep /\ child[p] = "init"
  /\ child' = [child EXCEPT ![p] = "run"]
  /\ ChildUnchanged
  /\ UNCHANGED <<mail, stopmail, flagged, crashes, short, pending>>

(* It cannot initialise: exit(2). *)
ChildFail(p) ==
  /\ Asleep /\ child[p] = "init" /\ ~IsDetached(p) /\ crashes < MaxCrashes
  /\ child' = [child EXCEPT ![p] = "zombie2"]
  /\ crashes' = crashes + 1
  /\ short' = TRUE
  /\ pending' = pending \cup {"CHLD"}
  /\ ChildUnchanged
  /\ UNCHANGED <<mail, stopmail, flagged>>

ChildCrash(p) ==
  /\ Asleep /\ child[p] \in Alive /\ crashes < MaxCrashes
  /\ child' = [child EXCEPT ![p] = "zombie"]
  /\ crashes' = crashes + 1
  /\ pending' = pending \cup {"CHLD"}
  /\ ChildUnchanged
  /\ UNCHANGED <<mail, stopmail, flagged, short>>

(* The messages of the channel are read; the handler looks at each. *)
ReadChannel(p) ==
  /\ mail' = [mail EXCEPT ![p] = 0]
  /\ stopmail' = [stopmail EXCEPT ![p] = FALSE]
  /\ flagged' = [flagged EXCEPT ![p] = @ \/ stopmail[p]]

(* channel_handler reads until EAGAIN.  Only here are g_quit and           *)
(* g_terminate looked at: a signal alone stops nothing.  The handler that  *)
(* stops the child closes its epoll descriptor (HTTPService::Stop): it is  *)
(* not called again.                                                       *)
ChannelHandler(p) ==
  /\ Asleep /\ child[p] = "run" /\ mail[p] > 0
  /\ ReadChannel(p)
  /\ child' = [child EXCEPT ![p] = IF flagged'[p] THEN "told" ELSE @]
  /\ ChildUnchanged
  /\ UNCHANGED <<crashes, short, pending>>

(* Framework::Stop has come to its end. *)
ChildExit(p) ==
  /\ Asleep /\ child[p] = "told"
  /\ child' = [child EXCEPT ![p] = "zombie"]
  /\ pending' = pending \cup {"CHLD"}
  /\ ChildUnchanged
  /\ UNCHANGED <<mail, stopmail, flagged, crashes, short>>

Alarm ==
  /\ itimer /\ mpc # "exit"
  /\ itimer' = FALSE
  /\ pending' = pending \cup {"ALRM"}
  /\ UNCHANGED <<loop, timer, files, kids, env, history, table, last, slot,
                 live, nlive, flags, new_binary, noaccepting>>

Send(sig) ==
  /\ sent < MaxSignals /\ mpc = "suspend"
  /\ sent' = sent + 1
  /\ pending' = pending \cup {sig}
  /\ UNCHANGED <<loop, timer, files, kids, crashes, forkfails, history, table,
                 last, slot, live, nlive, flags, new_binary, noaccepting,
                 itimer>>

-----------------------------------------------------------------------------
MasterStep ==
  \/ SpawnChild \/ SpawnDone \/ LoopTop \/ Suspend
  \/ ReapNothing \/ ReapRespawn \/ ReapRemove \/ ReapDone
  \/ MasterExit \/ Terminate \/ Quit
  \/ ReloadTooSoon \/ ReloadFails \/ Reload \/ DelayedShutdown \/ DispatchDone
  \/ Restart \/ ChangeBinary \/ NoAccept
  \/ SignalSpare \/ SignalWrite \/ SignalKill \/ SignalDone

ChildStep(p) ==
  \/ ChildReady(p) \/ ChildFail(p) \/ ChildCrash(p) \/ ChannelHandler(p)
  \/ ChildExit(p)

Next ==
  \/ MasterStep
  \/ \E p \in Pids : ChildStep(p)
  \/ Alarm
  \/ \E sig \in Signals : Send(sig)

SafeSpec == Init /\ [][Next]_vars

(* The master goes on when it can, and a running timer goes off; nothing   *)
(* is assumed of the children.                                             *)
MasterFairness == WF_vars(MasterStep) /\ WF_vars(Alarm)
MasterSpec == SafeSpec /\ MasterFairness

(* The children start, read their channel and, once told to stop, end:     *)
(* each of them is an event loop, and Framework::Stop comes to its end,    *)
(* but for the case ShutdownCompletes of InvokePipeline excepts.           *)
ChildFairness ==
  \A p \in Pids : /\ WF_vars(ChildReady(p))
                  /\ WF_vars(ChannelHandler(p))
                  /\ WF_vars(ChildExit(p))

-----------------------------------------------------------------------------
(* Properties. *)

Mine(p) == child[p] \in Alive /\ ~IsDetached(p)

(* The loops over g_processes reach a child only through its slot: a child *)
(* that has not been waited for, or that waits to be reaped, has one slot  *)
(* below g_last_process and no other has its pid, however holes are filled *)
(* and the table shrinks.  (The types of the variables are part of it.)    *)
ChildrenTracked ==
  /\ TypeOK
  /\ \A p \in Pids :
       child[p] \in Alive \cup {"zombie", "zombie2"} =>
         \E s \in Used : /\ table[s].pid = p
                         /\ \A t \in Used : table[t].pid = p => t = s

(* `live' is what decides whether the master may leave.  It is computed by *)
(* reap_children only, and a reload spawns children without setting it:    *)
(* the master leaves no child behind except ones a reload has started when *)
(* no other child was left.  Nor does its pid file outlive it, unless an   *)
(* upgrade failed (g_new_binary = -1), when the wrong one of its names is  *)
(* removed.                                                                *)
LeavesClean ==
  mpc = "exit" =>
    /\ \A p \in Pids : Mine(p) => p \in revived
    /\ new_binary # -1 => pidfile = "none"

(* As long as nobody stops the service or its workers and every start      *)
(* succeeds, there are num_processes + 1 children (or slots about to be    *)
(* refilled) that nobody has told to quit: crashes, reloads, lost alarms   *)
(* and failed forks in between notwithstanding.                            *)
Staffed ==
  (~short /\ ~Stopping /\ mpc # "spawn") =>
    Cardinality({s \in Used : /\ table[s].pid # -1 /\ table[s].respawn
                              /\ ~table[s].exiting}) >= NumProcesses + 1

(* A child that is dead when the master sleeps in sigsuspend has a SIGCHLD *)
(* on its way, and a waited-for child has been reaped or its respawn has   *)
(* failed: no death goes unnoticed.                                        *)
DeathNoticed ==
  mpc = "suspend" =>
    /\ Zombies # {} => "CHLD" \in pending
    /\ \A s \in Used : (table[s].pid # -1 /\ table[s].exited) =>
         \/ "reap" \in flags
         \/ table[s].respawn /\ ~table[s].exiting /\ table[s].channel # "open"

(* SIGTERM ends the service even if no child ever reacts: the countdown of *)
(* sigio and the growing delay lead to SIGKILL, also for children that the *)
(* first passes spare.                                                     *)
TerminateCompletes == ("terminate" \in flags) ~> (mpc = "exit")

(* SIGQUIT ends the service if the children obey. *)
QuitCompletes == ChildFairness => (("quit" \in flags) ~> (mpc = "exit"))

(* The generation before a reload is told to quit, unless the master is    *)
(* stopped first or SIGHUP arrived together with the timer's SIGALRM.      *)
OldRetired == delay_shutdown ~> (~delay_shutdown \/ swallowed \/ Stopping)
=============================================================================
