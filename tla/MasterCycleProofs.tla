------------------------- MODULE MasterCycleProofs -------------------------
(***************************************************************************)
(* ChildrenTracked, DeathNoticed, LeavesClean and Staffed of MasterCycle,  *)
(* for any number of workers, any size of the process table and any        *)
(* bounds.                                                                 *)
(*                                                                         *)
(* The inductive invariant says what holds in the middle of the passes     *)
(* over g_processes too: what reap_children has seen below its index, how  *)
(* many children a start has forked so far, and which of them a pass of    *)
(* signal_worker_processes will spare.                                     *)
(***************************************************************************)
EXTENDS MasterCycle, FiniteSetTheorems, WellFoundedInduction, TLAPS

(* A slot is empty (pid -1) or holds one process of its own; a process     *)
(* that was waited for is gone, and one without a slot was never forked or *)
(* is gone.                                                                *)
SlotInv ==
  /\ \A s \in Used :
       /\ table[s].pid \in Pids \cup {-1}
       /\ table[s].pid # -1 => /\ table[s].pid < next_pid
                               /\ table[s].exited => child[table[s].pid] = "gone"
       /\ ~(table[s].respawn /\ table[s].detached)
  /\ \A s, t \in Used : table[s].pid = table[t].pid /\ table[s].pid # -1 => s = t
KidInv ==
  \A p \in Pids :
    /\ p >= next_pid <=> child[p] = "none"
    /\ child[p] \notin {"none", "gone"} => \E s \in Used : table[s].pid = p

(* Every death is announced by SIGCHLD; exit status 2 is a failed start. *)
ZombieInv ==
  /\ Zombies # {} => "CHLD" \in pending
  /\ \A p \in Pids : child[p] = "zombie2" => short

(* The slots with a process that was waited for: g_reap is set, or the     *)
(* process could not be started again.                                     *)
Exited(s) == table[s].pid # -1 /\ table[s].exited
Failed(s) == table[s].respawn /\ ~table[s].exiting /\ table[s].channel # "open"
ReapInv ==
  /\ \A s \in Used : Exited(s) => "reap" \in flags \/ Failed(s)
  /\ mpc = "reap" => /\ "reap" \in flags
                     /\ \A s \in Used : s < idx /\ Exited(s) => Failed(s)

(* The slots that do not count for `live'. *)
Quiet(s) == \/ table[s].pid = -1 \/ table[s].exited \/ table[s].detached
            \/ table[s].pid \in revived
LiveInv ==
  /\ mpc # "reap" /\ ~live => \A s \in Used : Quiet(s)
  /\ mpc = "reap" /\ ~nlive => \A s \in Used : s < idx => Quiet(s)

(* The name of the pid file tells whether a new binary runs. *)
FileInv ==
  mpc # "exit" => /\ new_binary = 0 => pidfile = "pid"
                  /\ new_binary > 0 => pidfile = "oldbin"
ExitInv == mpc = "exit" => LeavesClean

(* The processes that nobody has told to quit; those of them that a reload *)
(* has started, and those that a pass of signals leaves alone.             *)
Staff == {s \in Used : table[s].pid # -1 /\ table[s].respawn /\ ~table[s].exiting}
NewStaff == {s \in Staff : table[s].just}
KeptStaff == {s \in Staff : s < idx \/ table[s].just}
InService == ~short /\ ~Stopping
StaffInv ==
  InService =>
    /\ mpc # "spawn" => Cardinality(Staff) >= NumProcesses + 1
    /\ delay_shutdown => /\ mpc # "signal"
                         /\ mpc # "spawn" \/ kind = "respawn" =>
                              Cardinality(NewStaff) >= NumProcesses + 1
    /\ mpc = "signal" => Cardinality(KeptStaff) >= NumProcesses + 1
    /\ mpc = "spawn" /\ kind = "respawn" => Cardinality(Staff) >= idx
    /\ mpc = "spawn" /\ kind = "just_respawn" => Cardinality(NewStaff) >= idx

Inv == /\ TypeOK /\ SlotInv /\ KidInv /\ ZombieInv /\ ReapInv /\ LiveInv
       /\ FileInv /\ ExitInv /\ StaffInv

-----------------------------------------------------------------------------
(* Slots and free slots. *)

LEMMA LeastNat ==
  ASSUME NEW S \in SUBSET Nat, NEW n \in S
  PROVE  \E x \in S : \A y \in S : x <= y
<1>1. PICK x \in S : \A y \in S : ~(<<y, x>> \in OpToRel(<, Nat))
  BY NatLessThanWellFounded, WFMin
<1>2. \A y \in S : ~(y < x)
  BY <1>1 DEF OpToRel
<1> QED BY <1>2

LEMMA UsedSlots ==
  ASSUME TableType
  PROVE  /\ MaxSlots \in Nat /\ last \in Nat /\ last <= MaxSlots
         /\ Used \subseteq Slots /\ Used \subseteq Nat /\ Slots \subseteq Nat
         /\ \A n \in Nat : (n < last <=> n \in Used) /\ (n < MaxSlots <=> n \in Slots)
  BY MasterAssumption DEF TableType, Used, Slots

LEMMA FreeSlotIs ==
  ASSUME TableType
  PROVE  /\ FreeSlot \in 0..last
         /\ FreeSlot # last => FreeSlot \in Used /\ table[FreeSlot].pid = -1
<1> DEFINE S == {s \in Used : table[s].pid = -1}
<1>1. CASE S = {}
  BY <1>1, UsedSlots DEF FreeSlot
<1>2. CASE S # {}
  <2>1. S \subseteq Nat
    BY UsedSlots
  <2>2. PICK x \in S : \A y \in S : x <= y
    <3> HIDE DEF S
    <3> QED BY <1>2, <2>1, LeastNat
  <2>3. \E s \in Used : /\ table[s].pid = -1
                        /\ \A t \in Used : table[t].pid = -1 => s <= t
    BY <2>2
  <2>4. FreeSlot \in Used /\ table[FreeSlot].pid = -1
    BY <2>2, <2>3 DEF FreeSlot
  <2> QED BY <2>4, UsedSlots
<1> QED BY <1>1, <1>2

-----------------------------------------------------------------------------
(* Types. *)

(* The actions that leave the table and the children alone. *)
Calm == \/ SpawnDone \/ LoopTop \/ ReapNothing \/ ReapDone \/ MasterExit
        \/ Terminate \/ Quit \/ ReloadTooSoon \/ ReloadFails \/ Reload
        \/ DelayedShutdown \/ DispatchDone \/ Restart \/ NoAccept \/ SignalDone
        \/ Alarm \/ (\E sig \in Signals : Send(sig)) \/ UNCHANGED vars

LEMMA CalmFrame ==
  ASSUME Calm
  PROVE  UNCHANGED <<table, last, slot, child, next_pid, mail, stopmail, flagged,
                     revived, crashes, forkfails>>
  BY DEF Calm, SpawnDone, LoopTop, ReapNothing, ReapDone, MasterExit, Terminate,
      Quit, ReloadTooSoon, ReloadFails, Reload, DelayedShutdown, DispatchDone,
      Restart, NoAccept, SignalDone, Alarm, Send, vars, ReapUnchanged,
      DispatchUnchanged, kids, env, history

(* The cases of a step. *)
LEMMA Cases ==
  ASSUME [Next]_vars
  PROVE  \/ Calm \/ SpawnChild \/ Suspend \/ ReapRespawn \/ ReapRemove
         \/ ChangeBinary \/ SignalSpare \/ SignalWrite \/ SignalKill
         \/ \E p \in Pids : ChildStep(p)
  BY DEF Next, MasterStep, Calm

LEMMA ChildFrame ==
  ASSUME NEW p \in Pids, ChildStep(p)
  PROVE  UNCHANGED <<loop, timer, files, next_pid, sent, forkfails, revived,
                     swallowed, table, last, slot, live, nlive, flags, new_binary,
                     noaccepting, itimer>>
  BY DEF ChildStep, ChildReady, ChildFail, ChildCrash, ChannelHandler, ChildExit,
      ChildUnchanged

LEMMA GotoIs == \A l : Goto(l) \in MasterPC \ {"spawn", "reap", "signal", "suspend", "exit", "dispatch"}
  BY DEF Goto, MasterPC

LEMMA LoopTypeStep ==
  ASSUME LoopType, [Next]_vars PROVE LoopType'
<1>1. CASE Calm
  <2>1. CASE SpawnDone \/ SignalDone
    BY <2>1, GotoIs DEF SpawnDone, SignalDone, Return, LoopType, files
  <2>2. CASE LoopTop \/ ReapNothing \/ ReapDone
    BY <2>2 DEF LoopTop, ReapNothing, ReapDone, ReapUnchanged, LoopType, MasterPC, files
  <2>3. CASE MasterExit
    BY <2>3 DEF MasterExit, LoopType, MasterPC
  <2>4. CASE Terminate
    BY <2>4 DEF Terminate, LoopType, MasterPC
  <2>5. CASE Quit \/ ReloadTooSoon \/ ReloadFails \/ Reload \/ DelayedShutdown
    BY <2>5 DEF Quit, ReloadTooSoon, ReloadFails, Reload, DelayedShutdown,
      DispatchUnchanged, LoopType, MasterPC, files
  <2>6. CASE DispatchDone \/ Restart \/ NoAccept
    BY <2>6, GotoIs DEF DispatchDone, Restart, NoAccept,
      DispatchUnchanged, LoopType, MasterPC, files
  <2>7. CASE Alarm \/ (\E sig \in Signals : Send(sig)) \/ UNCHANGED vars
    BY <2>7 DEF Alarm, Send, vars, loop, LoopType, files
  <2> QED BY <1>1, <2>1, <2>2, <2>3, <2>4, <2>5, <2>6, <2>7 DEF Calm
<1>2. CASE SpawnChild \/ Suspend
  BY <1>2 DEF SpawnChild, Suspend, LoopType, MasterPC, files
<1>3. CASE ReapRespawn \/ ReapRemove
  BY <1>3 DEF ReapRespawn, ReapRemove, ReapUnchanged, LoopType, MasterPC
<1>4. CASE ChangeBinary
  BY <1>4, GotoIs DEF ChangeBinary, LoopType
<1>5. CASE SignalSpare \/ SignalWrite \/ SignalKill
  BY <1>5 DEF SignalSpare, SignalWrite, SignalKill, SignalUnchanged, LoopType, files
<1>6. CASE \E p \in Pids : ChildStep(p)
  BY <1>6, ChildFrame DEF loop, LoopType, files
<1> QED BY <1>1, <1>2, <1>3, <1>4, <1>5, <1>6, Cases

LEMMA TimerTypeStep ==
  ASSUME TimerType, [Next]_vars PROVE TimerType'
<1>0. /\ NumProcesses \in Nat /\ MaxCrashes \in Nat /\ MaxSignals \in Nat
      /\ MaxForkFails \in Nat /\ KillTimes = 4
  BY MasterAssumption DEF KillTimes
<1>1. CASE Calm
  <2>1. CASE LoopTop
    BY <1>0, <2>1 DEF LoopTop, TimerType, env
  <2>2. CASE Terminate
    <3>1. TermDelay[delay_times + 1] \in Nat
      BY <1>0 DEF TimerType, TermDelay
    <3> QED BY <1>0, <2>2, <3>1 DEF Terminate, TimerType, env
  <2>3. CASE Reload \/ DelayedShutdown
    BY <1>0, <2>3 DEF Reload, DelayedShutdown, DispatchUnchanged, TimerType, env, ReloadDelay
  <2>4. CASE \E sig \in Signals : Send(sig)
    BY <1>0, <2>4 DEF Send, TimerType, timer
  <2>5. CASE \/ SpawnDone \/ ReapNothing \/ ReapDone \/ MasterExit \/ Quit
             \/ ReloadTooSoon \/ ReloadFails \/ DispatchDone \/ Restart
             \/ NoAccept \/ SignalDone \/ Alarm \/ UNCHANGED vars
    <3>1. UNCHANGED <<delay, delay_times, sigio, sent, crashes, forkfails>>
      BY <2>5 DEF SpawnDone, ReapNothing, ReapDone, MasterExit, Quit,
        ReloadTooSoon, ReloadFails, DispatchDone, Restart, NoAccept, SignalDone,
        Alarm, vars, env, timer, ReapUnchanged, DispatchUnchanged
    <3> QED BY <3>1 DEF TimerType
  <2> QED BY <1>1, <2>1, <2>2, <2>3, <2>4, <2>5 DEF Calm
<1>2. CASE SpawnChild \/ ReapRespawn \/ ChangeBinary
  <2>1. UNCHANGED <<delay, delay_times, sigio, sent, crashes>>
    BY <1>2 DEF SpawnChild, ReapRespawn, ChangeBinary, ReapUnchanged, timer
  <2>2. forkfails' = forkfails \/ (ForkMayFail /\ CountFail)
    BY <1>2 DEF SpawnChild, ReapRespawn, ChangeBinary, NoFork, Fork
  <2>3. forkfails' \in 0..MaxForkFails
    BY <1>0, <2>2 DEF ForkMayFail, CountFail, TimerType
  <2> QED BY <2>1, <2>3 DEF TimerType
<1>3. CASE Suspend \/ ReapRemove \/ SignalSpare \/ SignalWrite \/ SignalKill
  <2>1. UNCHANGED <<delay, delay_times, sigio, sent, crashes, forkfails>>
    BY <1>3 DEF Suspend, ReapRemove, SignalSpare, SignalWrite, SignalKill,
      SignalUnchanged, ReapUnchanged, timer, env
  <2> QED BY <2>1 DEF TimerType
<1>4. ASSUME NEW p \in Pids, ChildStep(p) PROVE TimerType'
  <2>1. UNCHANGED <<delay, delay_times, sigio, sent, forkfails>>
    BY <1>4, ChildFrame DEF timer
  <2>2. crashes' = crashes \/ (crashes < MaxCrashes /\ crashes' = crashes + 1)
    BY <1>4 DEF ChildStep, ChildReady, ChildFail, ChildCrash, ChannelHandler, ChildExit
  <2> QED BY <1>0, <2>1, <2>2 DEF TimerType
<1> QED BY <1>1, <1>2, <1>3, <1>4, Cases

LEMMA BoolTypeStep ==
  ASSUME BoolType, [Next]_vars PROVE BoolType'
<1>1. CASE Calm
  <2>1. CASE LoopTop \/ Terminate
    <3>1. UNCHANGED <<live, nlive, delay_shutdown, noaccepting, short>>
      BY <2>1 DEF LoopTop, Terminate, history
    <3>2. graceful' \in BOOLEAN /\ status_file' \in BOOLEAN
      BY <2>1, Zenon DEF LoopTop, Terminate, BoolType, files
    <3>3. itimer' \in BOOLEAN
      BY <2>1, Zenon DEF LoopTop, Terminate, BoolType
    <3>4. swallowed' \in BOOLEAN
      BY <2>1, Zenon DEF LoopTop, Terminate, BoolType, history
    <3> QED BY <3>1, <3>2, <3>3, <3>4 DEF BoolType
  <2>2. CASE \/ ReapNothing \/ ReapDone
    BY <2>2 DEF ReapNothing, ReapDone, ReapUnchanged, BoolType, files, history, timer
  <2>3. CASE \/ Reload \/ DelayedShutdown \/ Restart \/ NoAccept
    BY <2>3, Zenon DEF Reload, DelayedShutdown, Restart, NoAccept,
      DispatchUnchanged, BoolType, files, history, timer
  <2>4. CASE Alarm
    BY <2>4 DEF Alarm, BoolType, files, history, timer
  <2>5. CASE \/ SpawnDone \/ MasterExit \/ Quit \/ ReloadTooSoon \/ ReloadFails
             \/ DispatchDone \/ SignalDone \/ UNCHANGED vars
             \/ (\E sig \in Signals : Send(sig))
    <3>1. UNCHANGED <<live, nlive, graceful, delay_shutdown, noaccepting,
                      status_file, itimer, swallowed, short>>
      BY <2>5 DEF SpawnDone, MasterExit, Quit, ReloadTooSoon, ReloadFails,
        DispatchDone, SignalDone, Send, vars, timer, files, history,
        DispatchUnchanged
    <3> QED BY <3>1 DEF BoolType
  <2> QED BY <1>1, <2>1, <2>2, <2>3, <2>4, <2>5 DEF Calm
<1>2. CASE SpawnChild \/ Suspend \/ ReapRespawn \/ ReapRemove \/ ChangeBinary
  <2>1. UNCHANGED <<live, graceful, delay_shutdown, status_file, itimer, swallowed>>
    BY <1>2 DEF SpawnChild, Suspend, ReapRespawn, ReapRemove, ChangeBinary,
      ReapUnchanged, timer, files, history
  <2>2. nlive' \in {nlive, TRUE, FALSE} /\ short' \in {short, TRUE}
    BY <1>2 DEF SpawnChild, Suspend, ReapRespawn, ReapRemove, ChangeBinary, history
  <2>3. noaccepting' \in {noaccepting, FALSE}
    BY <1>2 DEF SpawnChild, Suspend, ReapRespawn, ReapRemove, ChangeBinary
  <2> QED BY <2>1, <2>2, <2>3 DEF BoolType
<1>3. CASE SignalSpare \/ SignalWrite \/ SignalKill
  <2>1. UNCHANGED <<live, nlive, graceful, delay_shutdown, noaccepting,
                    status_file, itimer, swallowed, short>>
    BY <1>3 DEF SignalSpare, SignalWrite, SignalKill, SignalUnchanged, timer,
      files, history
  <2> QED BY <2>1 DEF BoolType
<1>4. ASSUME NEW p \in Pids, ChildStep(p) PROVE BoolType'
  <2>1. UNCHANGED <<live, nlive, graceful, delay_shutdown, noaccepting,
                    status_file, itimer, swallowed>>
    BY <1>4, ChildFrame DEF timer, files
  <2>2. short' \in {short, TRUE}
    BY <1>4 DEF ChildStep, ChildReady, ChildFail, ChildCrash, ChannelHandler, ChildExit
  <2> QED BY <2>1, <2>2 DEF BoolType
<1> QED BY <1>1, <1>2, <1>3, <1>4, Cases

LEMMA FlagOfType == \A sig \in AllSignals : FlagOf(sig) \subseteq Flags
  BY DEF FlagOf, Flags, AllSignals

LEMMA SetTypeStep ==
  ASSUME SetType, TableType, KidsType, [Next]_vars PROVE SetType'
<1>1. CASE Calm
  <2>0. UNCHANGED revived
    BY <1>1, CalmFrame
  <2>1. CASE \/ SpawnDone \/ LoopTop \/ ReapNothing \/ ReapDone \/ MasterExit
             \/ Terminate \/ SignalDone \/ UNCHANGED vars
    <3>1. UNCHANGED <<pending, new_binary>> /\ flags' \subseteq flags
      BY <2>1 DEF SpawnDone, LoopTop, ReapNothing, ReapDone, MasterExit,
        Terminate, SignalDone, vars, ReapUnchanged
    <3> QED BY <2>0, <3>1 DEF SetType
  <2>2. CASE \/ Quit \/ ReloadTooSoon \/ ReloadFails \/ Reload
             \/ DelayedShutdown \/ DispatchDone \/ Restart \/ NoAccept
    <3>1. UNCHANGED <<pending, new_binary>> /\ flags' \subseteq flags
      BY <2>2 DEF Quit, ReloadTooSoon, ReloadFails, Reload, DelayedShutdown,
        DispatchDone, Restart, NoAccept, DispatchUnchanged
    <3> QED BY <2>0, <3>1 DEF SetType
  <2>3. CASE Alarm
    BY <2>0, <2>3 DEF Alarm, SetType, AllSignals
  <2>4. CASE \E sig \in Signals : Send(sig)
    BY <2>0, <2>4, MasterAssumption DEF Send, SetType, AllSignals
  <2> QED BY <1>1, <2>1, <2>2, <2>3, <2>4 DEF Calm
<1>2. CASE SpawnChild
  <2>1. UNCHANGED <<flags, pending, new_binary>>
    BY <1>2 DEF SpawnChild
  <2>2. revived' = revived \/ (CanFork /\ revived' \subseteq revived \cup {next_pid})
    BY <1>2 DEF SpawnChild, Fork
  <2>3. CanFork => next_pid \in Pids
    BY DEF CanFork, KidsType, Pids
  <2> QED BY <2>1, <2>2, <2>3 DEF SetType
<1>3. CASE Suspend
  <2>1. UNCHANGED <<new_binary, revived>> /\ pending' = {}
    BY <1>3 DEF Suspend, history
  <2>2. flags' = flags \cup UNION {FlagOf(sig) : sig \in pending}
    BY <1>3 DEF Suspend
  <2>3. flags' \subseteq Flags
    BY <2>2, FlagOfType DEF SetType
  <2> QED BY <2>1, <2>3 DEF SetType
<1>4. CASE ReapRespawn \/ ReapRemove
  BY <1>4 DEF ReapRespawn, ReapRemove, ReapUnchanged, SetType, Flags
<1>5. CASE ChangeBinary
  <2>1. UNCHANGED <<pending, revived>> /\ flags' \subseteq flags
    BY <1>5 DEF ChangeBinary, history
  <2>2. new_binary' = -1 \/ (CanFork /\ new_binary' = next_pid)
    BY <1>5 DEF ChangeBinary, Fork
  <2>3. CanFork => next_pid \in Pids
    BY DEF CanFork, KidsType, Pids
  <2> QED BY <2>1, <2>2, <2>3 DEF SetType
<1>6. CASE SignalSpare \/ SignalWrite \/ SignalKill
  BY <1>6 DEF SignalSpare, SignalWrite, SignalKill, SignalUnchanged, SetType,
    history, Flags, AllSignals
<1>7. ASSUME NEW p \in Pids, ChildStep(p) PROVE SetType'
  <2>1. UNCHANGED <<flags, new_binary, revived>>
    BY <1>7, ChildFrame
  <2>2. pending' \subseteq pending \cup {"CHLD"}
    BY <1>7 DEF ChildStep, ChildReady, ChildFail, ChildCrash, ChannelHandler, ChildExit
  <2> QED BY <2>1, <2>2 DEF SetType, AllSignals
<1> QED BY <1>1, <1>2, <1>3, <1>4, <1>5, <1>6, <1>7, Cases

(* What fork does to next_pid. *)
LEMMA ForkPid ==
  ASSUME KidsType, CanFork
  PROVE  /\ next_pid \in Pids /\ next_pid + 1 \in 1..(MaxPid + 1)
         /\ next_pid \in Nat /\ next_pid > 0
  BY MasterAssumption DEF CanFork, KidsType, Pids

LEMMA SpawnedIs ==
  ASSUME NEW k \in {"respawn", "just_respawn", "detached"}, next_pid \in Pids
  PROVE  Spawned(k) \in Process
<1>1. (k \in {"respawn", "just_respawn"}) \in BOOLEAN /\ (k = "just_respawn") \in BOOLEAN
      /\ (k = "detached") \in BOOLEAN
  OBVIOUS
<1>2. (IF k = "detached" THEN "none" ELSE "open") \in {"open", "closed", "none"}
  OBVIOUS
<1> QED BY <1>1, <1>2, Zenon DEF Spawned, Process

LEMMA ClosedType ==
  ASSUME TableType, idx \in Slots PROVE ClosedTable \in [Slots -> Process]
<1>1. table[idx] \in Process
  BY DEF TableType
<1> QED BY <1>1 DEF TableType, ClosedTable, Process

LEMMA TableTypeStep ==
  ASSUME TableType, LoopType, KidsType, [Next]_vars PROVE TableType'
<1>0. idx \in Nat /\ (idx < last => idx \in Used /\ idx \in Slots)
  BY UsedSlots DEF LoopType
<1>f. FreeSlot < MaxSlots => FreeSlot \in Slots
  BY FreeSlotIs, UsedSlots
<1>t. \A f \in Slots : table[f] \in Process
  BY DEF TableType
<1>1. CASE Calm
  BY <1>1, CalmFrame DEF TableType
<1>2. CASE SpawnChild
  <2>1. CASE FreeSlot < MaxSlots /\ Fork
             /\ table' = [table EXCEPT ![FreeSlot] = Spawned(kind)]
             /\ last' = (IF FreeSlot = last THEN last + 1 ELSE last)
             /\ slot' = FreeSlot
    <3>1. next_pid \in Pids
      BY <2>1, ForkPid DEF Fork
    <3>2. Spawned(kind) \in Process
      BY <3>1, SpawnedIs DEF LoopType
    <3>3. table' \in [Slots -> Process]
      BY <2>1, <3>2, <1>f DEF TableType
    <3>4. last' \in 0..MaxSlots
      BY <2>1, UsedSlots DEF TableType
    <3> QED BY <2>1, <1>f, <3>3, <3>4 DEF TableType
  <2>2. CASE /\ FreeSlot < MaxSlots /\ last' = last /\ slot' = FreeSlot
             /\ table' = [table EXCEPT ![FreeSlot].channel = "closed"]
    BY <2>2, <1>f, <1>t DEF TableType, Process
  <2>3. CASE UNCHANGED <<table, last, slot>>
    BY <2>3 DEF TableType
  <2> QED BY <1>2, <2>1, <2>2, <2>3 DEF SpawnChild
<1>3. CASE Suspend
  <2>1. UNCHANGED <<last, slot>>
    BY <1>3 DEF Suspend
  <2>2. CASE table' = table
    BY <2>1, <2>2 DEF TableType
  <2>3. CASE ProcessGetStatus
    <3>1. ASSUME NEW s \in Slots PROVE table'[s] \in Process
      <4>1. PICK v : v = (table[s].respawn /\ child[table[s].pid] # "zombie2")
        OBVIOUS
      <4>2. v \in BOOLEAN
        BY <4>1
      <4>3. [table[s] EXCEPT !.exited = TRUE, !.respawn = v] \in Process
        BY <1>t, <3>1, <4>2 DEF Process
      <4>4. \/ table'[s] = table[s]
            \/ table'[s] = [table[s] EXCEPT !.exited = TRUE, !.respawn = v]
        BY <2>3, <3>1, <4>1 DEF ProcessGetStatus
      <4> QED BY <1>t, <4>3, <4>4
    <3>2. table' = [s \in Slots |-> table'[s]]
      BY <2>3 DEF ProcessGetStatus
    <3> QED BY <2>1, <3>1, <3>2 DEF TableType
  <2> QED BY <1>3, <2>2, <2>3 DEF Suspend
<1>4. CASE ReapRespawn
  <2>0. idx \in Slots /\ ClosedTable \in [Slots -> Process] /\ UNCHANGED last
    BY <1>0, <1>4, ClosedType DEF ReapRespawn
  <2>1. CASE /\ Fork /\ slot' = idx
             /\ table' = [ClosedTable EXCEPT ![idx].pid = next_pid,
                            ![idx].exited = FALSE, ![idx].channel = "open"]
    <3>1. next_pid \in Pids
      BY <2>1, ForkPid DEF Fork
    <3>2. table' \in [Slots -> Process]
      BY <2>0, <2>1, <3>1 DEF Process
    <3> QED BY <2>0, <2>1, <3>2 DEF TableType
  <2>2. CASE slot' = idx /\ table' = [ClosedTable EXCEPT ![idx].channel = "closed"]
    BY <2>0, <2>2 DEF TableType, Process
  <2>3. CASE UNCHANGED slot /\ table' = ClosedTable
    BY <2>0, <2>3 DEF TableType
  <2> QED BY <1>4, <2>1, <2>2, <2>3 DEF ReapRespawn
<1>5. CASE ReapRemove
  <2>0. idx \in Slots /\ ClosedTable \in [Slots -> Process] /\ UNCHANGED slot
    BY <1>0, <1>5, ClosedType DEF ReapRemove
  <2>1. CASE idx = last - 1 /\ last' = last - 1 /\ table' = ClosedTable
    BY <1>0, <2>0, <2>1, UsedSlots DEF TableType
  <2>2. CASE last' = last /\ table' = [ClosedTable EXCEPT ![idx].pid = -1]
    BY <2>0, <2>2 DEF TableType, Process
  <2> QED BY <1>5, <2>1, <2>2 DEF ReapRemove
<1>6. CASE ChangeBinary
  <2>1. CASE FreeSlot < MaxSlots /\ Fork
             /\ table' = [table EXCEPT ![FreeSlot] = Spawned("detached")]
             /\ last' = (IF FreeSlot = last THEN last + 1 ELSE last)
             /\ slot' = FreeSlot
    <3>1. next_pid \in Pids
      BY <2>1, ForkPid DEF Fork
    <3>2. Spawned("detached") \in Process
      BY <3>1, SpawnedIs
    <3>3. table' \in [Slots -> Process]
      BY <2>1, <3>2, <1>f DEF TableType
    <3>4. last' \in 0..MaxSlots
      BY <2>1, UsedSlots DEF TableType
    <3> QED BY <2>1, <1>f, <3>3, <3>4 DEF TableType
  <2>2. CASE /\ FreeSlot < MaxSlots /\ last' = last /\ slot' = FreeSlot
             /\ table' = [table EXCEPT ![FreeSlot].channel = "none"]
    BY <2>2, <1>f, <1>t DEF TableType, Process
  <2>3. CASE UNCHANGED <<table, last, slot>>
    BY <2>3 DEF TableType
  <2> QED BY <1>6, <2>1, <2>2, <2>3 DEF ChangeBinary
<1>7. CASE SignalSpare
  <2>1. idx \in Slots /\ UNCHANGED <<last, slot>>
    BY <1>0, <1>7 DEF SignalSpare, SignalUnchanged
  <2>2. PICK v : v = (table[idx].just /\ (table[idx].detached
                                             \/ table[idx].pid = -1))
    OBVIOUS
  <2>3. v \in BOOLEAN
    BY <2>2
  <2>4. table' = [table EXCEPT ![idx].just = v]
    BY <1>7, <2>2 DEF SignalSpare
  <2>5. table' \in [Slots -> Process]
    BY <1>t, <2>1, <2>3, <2>4 DEF TableType, Process
  <2> QED BY <2>1, <2>5 DEF TableType
<1>8. CASE SignalWrite \/ SignalKill
  <2>1. idx \in Slots /\ UNCHANGED <<last, slot>>
    BY <1>0, <1>8 DEF SignalWrite, SignalKill, SignalUnchanged
  <2>2. \/ table' = [table EXCEPT ![idx].exiting = TRUE]
        \/ table' = [table EXCEPT ![idx].exited = TRUE, ![idx].exiting = FALSE]
    BY <1>8 DEF SignalWrite, SignalKill
  <2>3. table' \in [Slots -> Process]
    <3>1. CASE table' = [table EXCEPT ![idx].exiting = TRUE]
      BY <1>t, <2>1, <3>1 DEF TableType, Process
    <3>2. CASE table' = [table EXCEPT ![idx].exited = TRUE, ![idx].exiting = FALSE]
      BY <1>t, <2>1, <3>2 DEF TableType, Process
    <3> QED BY <2>2, <3>1, <3>2
  <2> QED BY <2>1, <2>3 DEF TableType
<1>9. ASSUME NEW p \in Pids, ChildStep(p) PROVE TableType'
  BY <1>9, ChildFrame DEF TableType
<1> QED BY <1>1, <1>2, <1>3, <1>4, <1>5, <1>6, <1>7, <1>8, <1>9, Cases

LEMMA DeliverType ==
  ASSUME NEW m \in [Pids -> 0..ChannelSize], NEW t, NEW S
  PROVE  Deliver(m, t, S) \in [Pids -> 0..ChannelSize]
<1>1. ChannelSize \in Nat
  BY MasterAssumption
<1>2. \A p \in Pids : m[p] \in 0..ChannelSize /\ (m[p] < ChannelSize => m[p] + 1 \in 0..ChannelSize)
  BY <1>1
<1> QED BY <1>2 DEF Deliver

LEMMA ClosedMailType ==
  ASSUME KidsType PROVE ClosedMail \in [Pids -> 0..ChannelSize]
<1>1. 0 \in 0..ChannelSize
  BY MasterAssumption
<1>2. [mail EXCEPT ![table[idx].pid] = 0] \in [Pids -> 0..ChannelSize]
  BY <1>1 DEF KidsType
<1> QED BY <1>2, DeliverType DEF KidsType, ClosedMail

LEMMA KidsTypeStep ==
  ASSUME KidsType, TableType, LoopType, SlotInv, [Next]_vars PROVE KidsType'
<1>0. ChannelSize \in Nat /\ 0 \in 0..ChannelSize
  BY MasterAssumption
<1>f. ASSUME Fork PROVE /\ child' \in [Pids -> ChildState]
                        /\ next_pid' \in 1..(MaxPid + 1)
  <2>1. next_pid \in Pids /\ next_pid + 1 \in 1..(MaxPid + 1)
    BY <1>f, ForkPid DEF Fork
  <2> QED BY <1>f, <2>1 DEF Fork, KidsType, ChildState
<1>1. CASE Calm
  BY <1>1, CalmFrame DEF KidsType
<1>2. CASE SpawnChild
  <2>1. Fork \/ UNCHANGED <<child, next_pid>>
    BY <1>2 DEF SpawnChild, NoFork
  <2>2. mail' = mail \/ \E t, S : mail' = Deliver(mail, t, S)
    <3>1. CASE mail' = OpenChannel(mail, table', 0..(last' - 1), slot')
      BY <3>1 DEF OpenChannel
    <3>2. CASE mail' = OpenChannel(mail, table, Used, slot)
      BY <3>2 DEF OpenChannel
    <3> QED BY <1>2, <3>1, <3>2 DEF SpawnChild
  <2>3. mail' \in [Pids -> 0..ChannelSize]
    BY <2>2, DeliverType DEF KidsType
  <2> QED BY <1>f, <2>1, <2>3 DEF KidsType
<1>3. CASE Suspend
  <2>1. UNCHANGED <<mail, next_pid>>
    BY <1>3 DEF Suspend
  <2>2. child' \in [Pids -> ChildState]
    <3>1. CASE UNCHANGED child
      BY <3>1 DEF KidsType
    <3>2. CASE child' = [p \in Pids |-> IF p \in Zombies THEN "gone" ELSE child[p]]
      BY <3>2 DEF KidsType, ChildState
    <3> QED BY <1>3, <3>1, <3>2 DEF Suspend, ProcessGetStatus
  <2> QED BY <2>1, <2>2 DEF KidsType
<1>4. CASE ReapRespawn
  <2>1. Fork \/ UNCHANGED <<child, next_pid>>
    BY <1>4 DEF ReapRespawn, NoFork
  <2>2. mail' = ClosedMail \/ \E t, S : mail' = Deliver(ClosedMail, t, S)
    <3>1. CASE mail' = OpenChannel(ClosedMail, table', Used, idx)
      BY <3>1 DEF OpenChannel
    <3> QED BY <1>4, <3>1 DEF ReapRespawn
  <2>3. mail' \in [Pids -> 0..ChannelSize]
    BY <2>2, DeliverType, ClosedMailType
  <2> QED BY <1>f, <2>1, <2>3 DEF KidsType
<1>5. CASE ReapRemove
  BY <1>5, ClosedMailType DEF ReapRemove, KidsType
<1>6. CASE ChangeBinary
  <2>1. Fork \/ UNCHANGED <<child, next_pid>>
    BY <1>6 DEF ChangeBinary, NoFork
  <2>2. UNCHANGED mail
    BY <1>6 DEF ChangeBinary
  <2> QED BY <1>f, <2>1, <2>2 DEF KidsType
<1>7. CASE SignalSpare
  BY <1>7 DEF SignalSpare, SignalUnchanged, KidsType
<1>8. CASE SignalWrite
  <2>1. idx \in Used /\ table[idx].pid # -1
    BY <1>8, UsedSlots DEF SignalWrite, LoopType, Spared
  <2>2. table[idx].pid \in Pids
    BY <2>1 DEF SlotInv
  <2>3. mail[table[idx].pid] + 1 \in 0..ChannelSize
    BY <1>0, <1>8, <2>2 DEF SignalWrite, CanWrite, KidsType
  <2>4. mail' \in [Pids -> 0..ChannelSize]
    BY <1>8, <2>3 DEF SignalWrite, KidsType
  <2> QED BY <1>8, <2>4 DEF SignalWrite, SignalUnchanged, KidsType
<1>9. CASE SignalKill
  <2>1. UNCHANGED <<mail, next_pid>>
    BY <1>9 DEF SignalKill, SignalUnchanged
  <2>2. PICK p : p = table[idx].pid
    OBVIOUS
  <2>3. \/ child' = child
        \/ child' = [child EXCEPT ![p] = IF child[p] \in Alive THEN "zombie" ELSE child[p]]
    BY <1>9, <2>2 DEF SignalKill
  <2>4. child' \in [Pids -> ChildState]
    BY <2>3 DEF KidsType, ChildState
  <2> QED BY <2>1, <2>4 DEF KidsType
<1>10. ASSUME NEW p \in Pids, ChildStep(p) PROVE KidsType'
  <2>1. UNCHANGED next_pid
    BY <1>10, ChildFrame
  <2>2. mail' = mail \/ mail' = [mail EXCEPT ![p] = 0]
    BY <1>10 DEF ChildStep, ChildReady, ChildFail, ChildCrash, ChannelHandler,
      ChildExit, ReadChannel
  <2>3. \E c \in {"run", "zombie", "zombie2", "told", child[p]} :
          child' = [child EXCEPT ![p] = c]
    BY <1>10 DEF ChildStep, ChildReady, ChildFail, ChildCrash, ChannelHandler, ChildExit
  <2>4. child' \in [Pids -> ChildState]
    BY <2>3 DEF KidsType, ChildState
  <2> QED BY <1>0, <2>1, <2>2, <2>4 DEF KidsType
<1> QED BY <1>1, <1>2, <1>3, <1>4, <1>5, <1>6, <1>7, <1>8, <1>9, <1>10, Cases

LEMMA ToldTypeStep ==
  ASSUME ToldType, [Next]_vars PROVE ToldType'
<1>1. CASE Calm
  BY <1>1, CalmFrame DEF ToldType
<1>2. CASE SpawnChild \/ ReapRespawn \/ ReapRemove \/ ChangeBinary \/ SignalSpare
  <2>1. UNCHANGED <<stopmail, flagged>>
    BY <1>2 DEF SpawnChild, ReapRespawn, ReapRemove, ChangeBinary, SignalSpare,
      Fork, NoFork
  <2> QED BY <2>1 DEF ToldType
<1>3. CASE Suspend
  <2>1. CASE UNCHANGED <<stopmail, flagged>>
    BY <2>1 DEF ToldType
  <2>2. CASE /\ stopmail' = [p \in Pids |-> stopmail[p] /\ p \notin Zombies]
             /\ flagged' = [p \in Pids |-> flagged[p] /\ p \notin Zombies]
    BY <2>2 DEF ToldType
  <2> QED BY <1>3, <2>1, <2>2 DEF Suspend, ProcessGetStatus
<1>4. CASE SignalWrite
  BY <1>4 DEF SignalWrite, ToldType
<1>5. CASE SignalKill
  <2>1. UNCHANGED stopmail
    BY <1>5 DEF SignalKill
  <2>2. PICK p, v : p = table[idx].pid /\ v = (flagged[p] \/ StopsChild(signo))
    OBVIOUS
  <2>3. v \in BOOLEAN
    BY <2>2
  <2>4. flagged' = flagged \/ flagged' = [flagged EXCEPT ![p] = v]
    BY <1>5, <2>2 DEF SignalKill
  <2> QED BY <2>1, <2>3, <2>4 DEF ToldType
<1>6. ASSUME NEW p \in Pids, ChildStep(p) PROVE ToldType'
  <2>1. PICK v : v = (flagged[p] \/ stopmail[p])
    OBVIOUS
  <2>2. v \in BOOLEAN
    BY <2>1
  <2>3. \/ UNCHANGED <<stopmail, flagged>>
        \/ /\ stopmail' = [stopmail EXCEPT ![p] = FALSE]
           /\ flagged' = [flagged EXCEPT ![p] = v]
    BY <1>6, <2>1 DEF ChildStep, ChildReady, ChildFail, ChildCrash, ChannelHandler,
      ChildExit, ReadChannel
  <2> QED BY <2>2, <2>3 DEF ToldType
<1> QED BY <1>1, <1>2, <1>3, <1>4, <1>5, <1>6, Cases

-----------------------------------------------------------------------------
(* The slots and the children. *)

(* No slot gets or loses a process, and no process comes or goes, but for  *)
(* those that are waited for.                                              *)
LEMMA SameProcesses ==
  ASSUME TableType, KidsType, SlotInv, KidInv, UNCHANGED <<last, next_pid>>,
         \A s \in Used :
           /\ table'[s].pid = table[s].pid /\ table'[s].detached = table[s].detached
           /\ table'[s].respawn => table[s].respawn
           /\ table'[s].exited => \/ table[s].exited
                                  \/ child'[table[s].pid] = "gone",
         \A p \in Pids : /\ child[p] \in {"none", "gone"} => child'[p] = child[p]
                         /\ child'[p] = "none" => child[p] = "none"
  PROVE  SlotInv' /\ KidInv'
<1>1. Used' = Used
  BY DEF Used
<1>2. SlotInv'
  BY <1>1 DEF SlotInv
<1>3. KidInv'
  <2> SUFFICES ASSUME NEW p \in Pids
               PROVE  /\ p >= next_pid <=> child'[p] = "none"
                      /\ child'[p] \notin {"none", "gone"} =>
                           \E s \in Used : table'[s].pid = p
    BY <1>1 DEF KidInv
  <2>1. p >= next_pid <=> child'[p] = "none"
    BY DEF KidInv
  <2>2. child'[p] \notin {"none", "gone"} => child[p] \notin {"none", "gone"}
    OBVIOUS
  <2>3. ASSUME child[p] \notin {"none", "gone"}
        PROVE  \E s \in Used : table'[s].pid = p
    BY <2>3 DEF KidInv
  <2> QED BY <2>1, <2>2, <2>3
<1> QED BY <1>2, <1>3

(* A new process takes an empty slot, the one behind the last, or that of  *)
(* a process that was waited for.                                          *)
LEMMA NewProcess ==
  ASSUME TableType, KidsType, SlotInv, KidInv, Fork, NEW f \in Slots,
         \/ f = last /\ last' = last + 1
         \/ f \in Used /\ last' = last /\ (table[f].pid = -1 \/ table[f].exited),
         \A t \in Slots \ {f} : table'[t] = table[t],
         table'[f].pid = next_pid, ~table'[f].exited,
         ~(table'[f].respawn /\ table'[f].detached)
  PROVE  SlotInv' /\ KidInv'
<1>1. /\ next_pid \in Pids /\ next_pid' = next_pid + 1 /\ next_pid \in Nat
      /\ child' = [child EXCEPT ![next_pid] = "init"]
  BY ForkPid DEF Fork
<1>2. Used' = Used \cup {f} /\ Used \subseteq Slots
  BY UsedSlots DEF Used
<1>3. \A s \in Used : table[s].pid # -1 => table[s].pid < next_pid
  BY DEF SlotInv
<1>4. \A p \in Pids : p # next_pid => child'[p] = child[p]
  BY <1>1 DEF KidsType
<1>5. SlotInv'
  <2>1. ASSUME NEW s \in Used'
        PROVE  /\ table'[s].pid \in Pids \cup {-1}
               /\ table'[s].pid # -1 => /\ table'[s].pid < next_pid'
                                        /\ table'[s].exited => child'[table'[s].pid] = "gone"
               /\ ~(table'[s].respawn /\ table'[s].detached)
    <3>1. CASE s = f
      BY <1>1, <3>1
    <3>2. CASE s # f
      <4>1. s \in Used /\ table'[s] = table[s]
        BY <1>2, <3>2
      <4>2. table[s].pid # -1 => table[s].pid \in Pids /\ table[s].pid < next_pid
        BY <1>3, <4>1 DEF SlotInv
      <4>3. table[s].pid # -1 => /\ table[s].pid < next_pid + 1
                                 /\ child'[table[s].pid] = child[table[s].pid]
        BY <1>1, <1>4, <4>2 DEF Pids
      <4> QED BY <1>1, <4>1, <4>2, <4>3 DEF SlotInv
    <3> QED BY <3>1, <3>2
  <2>2. ASSUME NEW s \in Used', NEW t \in Used', table'[s].pid = table'[t].pid,
               table'[s].pid # -1
        PROVE  s = t
    <3>1. \A u \in Used' : u # f => u \in Used /\ table'[u] = table[u]
                                     /\ table[u].pid # next_pid
      BY <1>1, <1>2, <1>3 DEF Pids
    <3> QED BY <2>2, <3>1 DEF SlotInv
  <2> QED BY <2>1, <2>2 DEF SlotInv
<1>6. KidInv'
  <2> SUFFICES ASSUME NEW p \in Pids
               PROVE  /\ p >= next_pid' <=> child'[p] = "none"
                      /\ child'[p] \notin {"none", "gone"} =>
                           \E s \in Used' : table'[s].pid = p
    BY DEF KidInv
  <2>1. CASE p = next_pid
    <3>1. child'[p] = "init" /\ ~(p >= next_pid + 1)
      BY <1>1, <2>1 DEF KidsType
    <3>2. f \in Used' /\ table'[f].pid = p
      BY <1>2, <2>1
    <3> QED BY <1>1, <3>1, <3>2
  <2>2. CASE p # next_pid
    <3>1. child'[p] = child[p] /\ (p >= next_pid + 1 <=> p >= next_pid)
      BY <1>1, <1>4, <2>2 DEF Pids
    <3>2. ASSUME child[p] \notin {"none", "gone"}
          PROVE  \E s \in Used' : table'[s].pid = p
      <4>1. PICK s \in Used : table[s].pid = p
        BY <3>2 DEF KidInv
      <4>2. p # -1
        BY DEF Pids
      <4>3. s # f
        BY <3>2, <4>1, <4>2, UsedSlots DEF SlotInv
      <4> QED BY <1>2, <4>1, <4>3
    <3> QED BY <1>1, <3>1, <3>2 DEF KidInv
  <2> QED BY <2>1, <2>2
<1> QED BY <1>5, <1>6

(* The process in slot f, waited for before, is forgotten. *)
LEMMA RemoveProcess ==
  ASSUME TableType, KidsType, SlotInv, KidInv, UNCHANGED <<child, next_pid>>,
         NEW f \in Used, table[f].exited,
         \/ f = last - 1 /\ last' = last - 1
         \/ last' = last /\ table'[f].pid = -1,
         \A t \in Slots \ {f} : table'[t] = table[t],
         table'[f].respawn = table[f].respawn,
         table'[f].detached = table[f].detached
  PROVE  SlotInv' /\ KidInv'
<1>1. Used' \subseteq Used /\ Used \ {f} \subseteq Used' /\ Used \subseteq Slots
  BY UsedSlots DEF Used
<1>2. \A s \in Used' : s = f => table'[s].pid = -1
  BY UsedSlots DEF Used
<1>3. SlotInv'
  BY <1>1, <1>2 DEF SlotInv
<1>4. KidInv'
  <2> SUFFICES ASSUME NEW p \in Pids
               PROVE  /\ p >= next_pid <=> child[p] = "none"
                      /\ child[p] \notin {"none", "gone"} =>
                           \E s \in Used' : table'[s].pid = p
    BY DEF KidInv
  <2>1. ASSUME child[p] \notin {"none", "gone"}
        PROVE  \E s \in Used' : table'[s].pid = p
    <3>1. PICK s \in Used : table[s].pid = p
      BY <2>1 DEF KidInv
    <3>2. p # -1
      BY DEF Pids
    <3>3. s # f
      BY <2>1, <3>1, <3>2 DEF SlotInv
    <3> QED BY <1>1, <3>1, <3>3
  <2> QED BY <2>1 DEF KidInv
<1> QED BY <1>3, <1>4

-----------------------------------------------------------------------------
(* What each action does to the slots. *)

Types == /\ LoopType /\ TableType /\ TimerType /\ BoolType /\ SetType
         /\ KidsType /\ ToldType

(* The slots in use keep what they have, but for the channels of the empty *)
(* ones.                                                                   *)
SameSlots ==
  /\ last' = last
  /\ \A s \in Used :
       /\ table'[s].pid = table[s].pid /\ table'[s].exited = table[s].exited
       /\ table'[s].respawn = table[s].respawn /\ table'[s].just = table[s].just
       /\ table'[s].detached = table[s].detached
       /\ table'[s].exiting = table[s].exiting
       /\ table[s].pid # -1 => table'[s].channel = table[s].channel

(* Slot f holds the process just forked, as spawn_process fills it in. *)
FilledIn(f, type) ==
  /\ Fork /\ f \in Slots
  /\ \/ f = last /\ last' = last + 1
     \/ f \in Used /\ last' = last /\ table[f].pid = -1
  /\ \A t \in Slots \ {f} : table'[t] = table[t]
  /\ table'[f] = Spawned(type)

LEMMA FilledInIs ==
  ASSUME TableType, FreeSlot < MaxSlots, Fork, NEW k,
         table' = [table EXCEPT ![FreeSlot] = Spawned(k)],
         last' = (IF FreeSlot = last THEN last + 1 ELSE last)
  PROVE  FilledIn(FreeSlot, k)
<1>1. FreeSlot \in Slots
  BY FreeSlotIs, UsedSlots
<1> QED BY <1>1, FreeSlotIs DEF FilledIn, TableType

LEMMA FreeSlotSame ==
  ASSUME TableType, FreeSlot < MaxSlots, NEW c, last' = last,
         table' = [table EXCEPT ![FreeSlot].channel = c]
  PROVE  SameSlots
<1>1. FreeSlot \in Slots /\ Used \subseteq Slots
  BY FreeSlotIs, UsedSlots
<1>2. FreeSlot \in Used => table[FreeSlot].pid = -1
  BY FreeSlotIs, UsedSlots DEF Used
<1>3. \A s \in Slots : table[s] \in Process
  BY DEF TableType
<1>4. \A s \in Slots \ {FreeSlot} : table'[s] = table[s]
  BY DEF TableType
<1>5. LET e == table'[FreeSlot]  o == table[FreeSlot]
      IN /\ e.pid = o.pid /\ e.exited = o.exited /\ e.respawn = o.respawn
         /\ e.just = o.just /\ e.detached = o.detached /\ e.exiting = o.exiting
  BY <1>1, <1>3 DEF TableType, Process
<1> QED BY <1>1, <1>2, <1>4, <1>5 DEF SameSlots

LEMMA SpawnFacts ==
  ASSUME Types, SpawnChild
  PROVE  \/ /\ FilledIn(FreeSlot, kind) /\ short' = short
            /\ ~live => revived' = revived \cup {next_pid}
            /\ live => revived' = revived
         \/ /\ SameSlots /\ short' = TRUE
            /\ UNCHANGED <<child, next_pid, revived>>
<1>1. CASE FreeSlot < MaxSlots /\ Fork
           /\ table' = [table EXCEPT ![FreeSlot] = Spawned(kind)]
           /\ last' = (IF FreeSlot = last THEN last + 1 ELSE last)
           /\ revived' = (IF live THEN revived ELSE revived \cup {next_pid})
           /\ short' = short
  BY <1>1, FilledInIs DEF Types
<1>2. CASE /\ FreeSlot < MaxSlots /\ last' = last /\ short' = TRUE /\ revived' = revived
           /\ table' = [table EXCEPT ![FreeSlot].channel = "closed"]
           /\ UNCHANGED <<child, next_pid>>
  BY <1>2, FreeSlotSame DEF Types
<1>3. CASE UNCHANGED <<table, last, revived, child, next_pid>> /\ short' = TRUE
  BY <1>3 DEF SameSlots
<1> QED BY <1>1, <1>2, <1>3 DEF SpawnChild, NoFork

LEMMA BinaryFacts ==
  ASSUME Types, ChangeBinary
  PROVE  FilledIn(FreeSlot, "detached") \/ (SameSlots /\ UNCHANGED <<child, next_pid>>)
<1>1. CASE FreeSlot < MaxSlots /\ Fork
           /\ table' = [table EXCEPT ![FreeSlot] = Spawned("detached")]
           /\ last' = (IF FreeSlot = last THEN last + 1 ELSE last)
  BY <1>1, FilledInIs DEF Types
<1>2. CASE /\ FreeSlot < MaxSlots /\ last' = last
           /\ table' = [table EXCEPT ![FreeSlot].channel = "none"]
           /\ UNCHANGED <<child, next_pid>>
  BY <1>2, FreeSlotSame DEF Types
<1>3. CASE UNCHANGED <<table, last, child, next_pid>>
  BY <1>3 DEF SameSlots
<1> QED BY <1>1, <1>2, <1>3 DEF ChangeBinary, NoFork

(* Entry o becomes entry e, of the same process as far as starting it      *)
(* again is concerned.                                                     *)
SameKind(e, o) == /\ e.respawn = o.respawn /\ e.just = o.just
                  /\ e.detached = o.detached /\ e.exiting = o.exiting

LEMMA ClosedFacts ==
  ASSUME TableType, idx \in Slots
  PROVE  /\ ClosedTable \in [Slots -> Process]
         /\ \A s \in Slots \ {idx} : ClosedTable[s] = table[s]
         /\ SameKind(ClosedTable[idx], table[idx])
         /\ ClosedTable[idx].pid = table[idx].pid
         /\ ClosedTable[idx].exited = table[idx].exited
         /\ ~table[idx].detached => ClosedTable[idx].channel = "none"
<1>1. table[idx] \in Process
  BY DEF TableType
<1>2. ClosedTable \in [Slots -> Process]
  BY ClosedType
<1>3. \A s \in Slots \ {idx} : ClosedTable[s] = table[s]
  BY DEF TableType, ClosedTable
<1>4. LET e == ClosedTable[idx]  o == table[idx]
      IN /\ SameKind(e, o) /\ e.pid = o.pid /\ e.exited = o.exited
         /\ ~o.detached => e.channel = "none"
  BY <1>1 DEF TableType, ClosedTable, SameKind, Process
<1> QED BY <1>2, <1>3, <1>4

LEMMA RespawnFacts ==
  ASSUME Types, SlotInv, ReapRespawn
  PROVE  /\ idx \in Used /\ mpc = "reap" /\ mpc' = "reap" /\ idx' = idx + 1
         /\ Exited(idx) /\ table[idx].respawn /\ ~table[idx].exiting
         /\ last' = last /\ \A t \in Slots \ {idx} : table'[t] = table[t]
         /\ SameKind(table'[idx], table[idx])
         /\ \/ /\ Fork /\ nlive' = TRUE
               /\ table'[idx].pid = next_pid /\ ~table'[idx].exited
            \/ /\ UNCHANGED <<child, next_pid, nlive>>
               /\ table'[idx].pid = table[idx].pid /\ table'[idx].exited
               /\ table'[idx].channel # "open"
<1>1. /\ idx \in Used /\ idx \in Slots /\ mpc = "reap" /\ mpc' = mpc /\ idx' = idx + 1
      /\ Exited(idx) /\ table[idx].respawn /\ ~table[idx].exiting /\ last' = last
  BY UsedSlots DEF ReapRespawn, MustRespawn, Exited, ReapUnchanged, Types, LoopType
<1>2. ~table[idx].detached
  BY <1>1 DEF SlotInv
<1>3. ClosedTable \in [Slots -> Process] /\ ClosedTable[idx] \in Process
  BY <1>1, ClosedFacts DEF Types
<1>4. \A s \in Slots \ {idx} : ClosedTable[s] = table[s]
  BY <1>1, ClosedFacts DEF Types
<1>5. /\ SameKind(ClosedTable[idx], table[idx])
      /\ ClosedTable[idx].pid = table[idx].pid /\ ClosedTable[idx].exited
      /\ ClosedTable[idx].channel = "none"
  BY <1>1, <1>2, ClosedFacts DEF Types, Exited
<1>6. CASE /\ Fork /\ nlive' = TRUE
           /\ table' = [ClosedTable EXCEPT ![idx].pid = next_pid,
                          ![idx].exited = FALSE, ![idx].channel = "open"]
  <2>1. \A t \in Slots \ {idx} : table'[t] = table[t]
    BY <1>3, <1>4, <1>6
  <2>2. /\ table'[idx].pid = next_pid /\ ~table'[idx].exited
        /\ SameKind(table'[idx], ClosedTable[idx])
    BY <1>1, <1>3, <1>6 DEF Process, SameKind
  <2> QED BY <1>1, <1>5, <1>6, <2>1, <2>2 DEF SameKind
<1>7. CASE /\ UNCHANGED <<child, next_pid, nlive>>
           /\ \/ table' = ClosedTable
              \/ table' = [ClosedTable EXCEPT ![idx].channel = "closed"]
  <2>1. \A t \in Slots \ {idx} : table'[t] = table[t]
    BY <1>3, <1>4, <1>7
  <2>2. /\ table'[idx].pid = ClosedTable[idx].pid
        /\ table'[idx].exited = ClosedTable[idx].exited
        /\ SameKind(table'[idx], ClosedTable[idx])
        /\ table'[idx].channel \in {"none", "closed"}
    <3>1. CASE table' = ClosedTable
      BY <1>5, <3>1 DEF SameKind
    <3>2. CASE table' = [ClosedTable EXCEPT ![idx].channel = "closed"]
      BY <1>1, <1>3, <3>2 DEF Process, SameKind
    <3> QED BY <1>7, <3>1, <3>2
  <2> QED BY <1>1, <1>5, <1>7, <2>1, <2>2 DEF SameKind
<1> QED BY <1>6, <1>7 DEF ReapRespawn, NoFork

LEMMA RemoveFacts ==
  ASSUME Types, ReapRemove
  PROVE  /\ idx \in Used /\ mpc = "reap" /\ mpc' = "reap" /\ idx' = idx + 1
         /\ Exited(idx) /\ \A t \in Slots \ {idx} : table'[t] = table[t]
         /\ SameKind(table'[idx], table[idx])
         /\ Stopping \/ table[idx].exiting \/ ~table[idx].respawn
         /\ \/ idx = last - 1 /\ last' = last - 1
            \/ last' = last /\ table'[idx].pid = -1
         /\ UNCHANGED <<child, next_pid, nlive, short>> /\ flags \subseteq flags'
<1>1. /\ idx \in Used /\ idx \in Slots /\ mpc = "reap" /\ mpc' = mpc /\ idx' = idx + 1
      /\ Exited(idx) /\ UNCHANGED <<child, next_pid, nlive, short>>
      /\ flags \subseteq flags'
  BY UsedSlots DEF ReapRemove, Exited, ReapUnchanged, Types, LoopType
<1>2. Stopping \/ table[idx].exiting \/ ~table[idx].respawn
  BY DEF ReapRemove, MustRespawn, Stopping
<1>3. ClosedTable \in [Slots -> Process] /\ ClosedTable[idx] \in Process
  BY <1>1, ClosedFacts DEF Types
<1>4. \A s \in Slots \ {idx} : ClosedTable[s] = table[s]
  BY <1>1, ClosedFacts DEF Types
<1>5. SameKind(ClosedTable[idx], table[idx])
  BY <1>1, ClosedFacts DEF Types
<1>6. CASE idx = last - 1 /\ last' = last - 1 /\ table' = ClosedTable
  BY <1>1, <1>2, <1>4, <1>5, <1>6
<1>7. CASE last' = last /\ table' = [ClosedTable EXCEPT ![idx].pid = -1]
  <2>1. \A t \in Slots \ {idx} : table'[t] = table[t]
    BY <1>3, <1>4, <1>7
  <2>2. table'[idx].pid = -1 /\ SameKind(table'[idx], ClosedTable[idx])
    BY <1>1, <1>3, <1>7 DEF Process, SameKind
  <2> QED BY <1>1, <1>2, <1>5, <1>7, <2>1, <2>2 DEF SameKind
<1> QED BY <1>6, <1>7 DEF ReapRemove

(* One entry of a pass of signal_worker_processes. *)
PassFacts ==
  /\ idx \in Used /\ mpc = "signal" /\ mpc' = "signal" /\ idx' = idx + 1
  /\ last' = last /\ \A t \in Slots \ {idx} : table'[t] = table[t]
  /\ table'[idx].pid = table[idx].pid /\ table'[idx].respawn = table[idx].respawn
  /\ table'[idx].detached = table[idx].detached
  /\ table'[idx].channel = table[idx].channel
  /\ UNCHANGED <<next_pid, kind, short, live, revived, delay_shutdown>>

LEMMA SpareFacts ==
  ASSUME Types, SignalSpare
  PROVE  /\ PassFacts /\ UNCHANGED <<child, flags, pending>>
         /\ table'[idx].exited = table[idx].exited
         /\ table'[idx].exiting = table[idx].exiting
<1>1. /\ idx \in Used /\ idx \in Slots /\ mpc = "signal" /\ mpc' = mpc /\ idx' = idx + 1
      /\ UNCHANGED <<last, next_pid, kind, short, live, revived, delay_shutdown>>
      /\ UNCHANGED <<child, flags, pending>>
  BY UsedSlots DEF SignalSpare, SignalUnchanged, Types, LoopType, history, timer
<1>2. PICK v : v = (table[idx].just /\ (table[idx].detached
                                          \/ table[idx].pid = -1))
  OBVIOUS
<1>3. table' = [table EXCEPT ![idx].just = v] /\ table[idx] \in Process
  BY <1>1, <1>2 DEF SignalSpare, Types, TableType
<1>4. \A t \in Slots \ {idx} : table'[t] = table[t]
  BY <1>3 DEF Types, TableType
<1>5. LET e == table'[idx]  o == table[idx]
      IN /\ e.pid = o.pid /\ e.respawn = o.respawn /\ e.detached = o.detached
         /\ e.channel = o.channel /\ e.exited = o.exited /\ e.exiting = o.exiting
  BY <1>1, <1>3 DEF Types, TableType, Process
<1> QED BY <1>1, <1>4, <1>5 DEF PassFacts

LEMMA ToldFacts ==
  ASSUME Types, SignalWrite \/ SignalKill
  PROVE  /\ PassFacts /\ ~Spared(table[idx]) /\ flags \subseteq flags'
         /\ flags' \subseteq flags \cup {"reap"}
         /\ table'[idx].just = table[idx].just
         /\ \/ /\ table'[idx].exiting /\ table'[idx].exited = table[idx].exited
               /\ \/ table[idx].channel = "open"
                  \/ child[table[idx].pid] \notin {"none", "gone"}
            \/ /\ table'[idx].exited /\ ~table'[idx].exiting /\ "reap" \in flags'
               /\ child' = child /\ child[table[idx].pid] \in {"none", "gone"}
         /\ \/ UNCHANGED <<child, pending>>
            \/ /\ pending' = pending \cup {"CHLD"}
               /\ \A p \in Pids : \/ child'[p] = child[p]
                                  \/ child[p] \in Alive /\ child'[p] = "zombie"
<1>1. /\ idx \in Used /\ idx \in Slots /\ mpc = "signal" /\ mpc' = mpc /\ idx' = idx + 1
      /\ UNCHANGED <<last, next_pid, kind, short, live, revived, delay_shutdown>>
      /\ ~Spared(table[idx]) /\ flags \subseteq flags'
      /\ flags' \subseteq flags \cup {"reap"}
  BY UsedSlots DEF SignalWrite, SignalKill, SignalUnchanged, Types, LoopType, history, timer
<1>2. table[idx] \in Process
  BY <1>1 DEF Types, TableType
<1>3. \/ UNCHANGED <<child, pending>>
      \/ /\ pending' = pending \cup {"CHLD"}
         /\ \A p \in Pids : \/ child'[p] = child[p]
                            \/ child[p] \in Alive /\ child'[p] = "zombie"
  <2>1. PICK p : p = table[idx].pid
    OBVIOUS
  <2>2. \/ UNCHANGED <<child, pending>>
        \/ /\ pending' = pending \cup {"CHLD"}
           /\ child' = [child EXCEPT ![p] =
                          IF child[p] \in Alive THEN "zombie" ELSE child[p]]
    BY <2>1 DEF SignalWrite, SignalKill
  <2> QED BY <2>2 DEF Types, KidsType
<1>4. CASE /\ table' = [table EXCEPT ![idx].exiting = TRUE]
           /\ \/ table[idx].channel = "open"
              \/ child[table[idx].pid] \notin {"none", "gone"}
  <2>1. \A t \in Slots \ {idx} : table'[t] = table[t]
    BY <1>4 DEF Types, TableType
  <2>2. LET e == table'[idx]  o == table[idx]
        IN /\ e.pid = o.pid /\ e.respawn = o.respawn /\ e.detached = o.detached
           /\ e.channel = o.channel /\ e.exited = o.exited /\ e.just = o.just
           /\ e.exiting
    BY <1>1, <1>2, <1>4 DEF Types, TableType, Process
  <2> QED BY <1>1, <1>3, <1>4, <2>1, <2>2 DEF PassFacts
<1>5. CASE /\ table' = [table EXCEPT ![idx].exited = TRUE, ![idx].exiting = FALSE]
           /\ "reap" \in flags' /\ child' = child
           /\ child[table[idx].pid] \in {"none", "gone"}
  <2>1. \A t \in Slots \ {idx} : table'[t] = table[t]
    BY <1>5 DEF Types, TableType
  <2>2. LET e == table'[idx]  o == table[idx]
        IN /\ e.pid = o.pid /\ e.respawn = o.respawn /\ e.detached = o.detached
           /\ e.channel = o.channel /\ e.exited /\ e.just = o.just /\ ~e.exiting
    BY <1>1, <1>2, <1>5 DEF Types, TableType, Process
  <2> QED BY <1>1, <1>3, <1>5, <2>1, <2>2 DEF PassFacts
<1> QED BY <1>4, <1>5 DEF SignalWrite, SignalKill, CanWrite

(* The slots after process_get_status. *)
LEMMA StatusFacts ==
  ASSUME Types, Suspend
  PROVE  /\ UNCHANGED <<last, next_pid, short, live, revived, delay_shutdown>>
         /\ flags \subseteq flags' /\ mpc = "suspend" /\ pending' = {}
         /\ mpc' = "dispatch" \/ (mpc' = "reap" /\ idx' = 0 /\ "reap" \in flags')
         /\ \A s \in Used :
              /\ table'[s].pid = table[s].pid /\ table'[s].just = table[s].just
              /\ table'[s].detached = table[s].detached
              /\ table'[s].exiting = table[s].exiting
              /\ table'[s].channel = table[s].channel
              /\ table'[s].respawn => table[s].respawn
              /\ table[s].respawn => \/ table'[s].respawn
                                     \/ /\ table[s].pid \in Pids
                                        /\ child[table[s].pid] = "zombie2"
              /\ table[s].exited => table'[s].exited
              /\ table'[s].exited => \/ table[s].exited
                                     \/ /\ "reap" \in flags'
                                        /\ child'[table[s].pid] = "gone"
              /\ table[s].pid \notin Zombies => table'[s] = table[s]
         /\ \A p \in Pids : \/ p \notin Zombies /\ child'[p] = child[p]
                            \/ p \in Zombies /\ child'[p] = "gone"
                            \/ "CHLD" \notin pending /\ child'[p] = child[p]
<1>1. /\ UNCHANGED <<last, next_pid, short, live, revived, delay_shutdown>>
      /\ mpc = "suspend" /\ pending' = {}
      /\ mpc' = "dispatch" \/ (mpc' = "reap" /\ idx' = 0 /\ "reap" \in flags')
      /\ flags' = flags \cup (UNION {FlagOf(sig) : sig \in pending})
  <2>1. /\ UNCHANGED <<last, next_pid, short, live, revived, delay_shutdown>>
        /\ mpc = "suspend" /\ pending' = {}
    BY DEF Suspend, history, timer
  <2>2. mpc' = "dispatch" \/ (mpc' = "reap" /\ idx' = 0 /\ "reap" \in flags')
    <3>1. PICK F : F = flags'
      OBVIOUS
    <3>2. IF "reap" \in F THEN mpc' = "reap" /\ idx' = 0 /\ nlive' = FALSE
          ELSE mpc' = "dispatch" /\ UNCHANGED <<idx, nlive>>
      BY <3>1 DEF Suspend
    <3> QED BY <3>1, <3>2
  <2>3. flags' = flags \cup (UNION {FlagOf(sig) : sig \in pending})
    BY Zenon DEF Suspend
  <2> QED BY <2>1, <2>2, <2>3
<1>2. Used \subseteq Slots
  BY UsedSlots DEF Types
<1>3. CASE "CHLD" \notin pending
  <2>1. UNCHANGED <<table, child>>
    BY <1>3 DEF Suspend
  <2> QED BY <1>1, <1>3, <2>1
<1>4. CASE "CHLD" \in pending
  <2>1. ProcessGetStatus
    BY <1>4 DEF Suspend
  <2>2. "reap" \in flags'
    <3>1. FlagOf("CHLD") = {"reap"}
      BY DEF FlagOf
    <3> QED BY <1>1, <1>4, <3>1
  <2>3. \A p \in Pids : /\ p \notin Zombies => child'[p] = child[p]
                        /\ p \in Zombies => child'[p] = "gone"
    BY <2>1 DEF ProcessGetStatus
  <2>4. ASSUME NEW s \in Used
        PROVE  /\ table'[s].pid = table[s].pid /\ table'[s].just = table[s].just
               /\ table'[s].detached = table[s].detached
               /\ table'[s].exiting = table[s].exiting
               /\ table'[s].channel = table[s].channel
               /\ table'[s].respawn => table[s].respawn
               /\ table[s].respawn => \/ table'[s].respawn
                                      \/ /\ table[s].pid \in Pids
                                         /\ child[table[s].pid] = "zombie2"
               /\ table[s].exited => table'[s].exited
               /\ table'[s].exited => \/ table[s].exited
                                      \/ /\ "reap" \in flags'
                                         /\ child'[table[s].pid] = "gone"
               /\ table[s].pid \notin Zombies => table'[s] = table[s]
    <3>1. table[s] \in Process /\ s \in Slots
      BY <1>2 DEF Types, TableType
    <3>2. CASE table[s].pid \notin Zombies
      <4>1. table'[s] = table[s]
        BY <2>1, <3>1, <3>2 DEF ProcessGetStatus
      <4> QED BY <4>1
    <3>3. CASE table[s].pid \in Zombies
      <4>1. PICK v : v = (table[s].respawn /\ child[table[s].pid] # "zombie2")
        OBVIOUS
      <4>2. table'[s] = [table[s] EXCEPT !.exited = TRUE, !.respawn = v]
        BY <2>1, <2>4, <3>1, <3>3, <4>1 DEF ProcessGetStatus
      <4>3. LET e == table'[s]  o == table[s]
            IN /\ e.pid = o.pid /\ e.just = o.just /\ e.detached = o.detached
               /\ e.exiting = o.exiting /\ e.channel = o.channel
               /\ e.respawn = v /\ e.exited
        BY <3>1, <4>2 DEF Process
      <4>4. table[s].pid \in Pids
        BY <3>3 DEF Zombies
      <4> QED BY <2>2, <2>3, <3>3, <4>1, <4>3, <4>4
    <3> QED BY <3>2, <3>3
  <2>5. flags \subseteq flags'
    BY <1>1
  <2> QED BY <1>1, <2>3, <2>4, <2>5
<1> QED BY <1>3, <1>4

-----------------------------------------------------------------------------
(* The invariant, part by part. *)

LEMMA FilledInEntry ==
  ASSUME TableType, NEW f, NEW k, FilledIn(f, k)
  PROVE  /\ table'[f].pid = next_pid /\ ~table'[f].exited /\ ~table'[f].exiting
         /\ table'[f].just <=> k = "just_respawn"
         /\ table'[f].respawn <=> k \in {"respawn", "just_respawn"}
         /\ table'[f].detached <=> k = "detached"
         /\ Used' = Used \cup {f} /\ Used \subseteq Slots
         /\ \A s \in Used : s # f => table'[s] = table[s]
         /\ f \in Used => table[f].pid = -1
<1>1. Used' = Used \cup {f} /\ Used \subseteq Slots
  BY UsedSlots DEF FilledIn, Used
<1>2. f \in Used => table[f].pid = -1
  BY UsedSlots DEF FilledIn, Used
<1>3. /\ table'[f] = Spawned(k)
      /\ \A s \in Used : s # f => table'[s] = table[s]
  BY <1>1 DEF FilledIn
<1>4. LET e == Spawned(k)
      IN /\ e.pid = next_pid /\ ~e.exited /\ ~e.exiting
         /\ e.just <=> k = "just_respawn"
         /\ e.respawn <=> k \in {"respawn", "just_respawn"}
         /\ e.detached <=> k = "detached"
  BY DEF Spawned
<1> HIDE DEF Spawned
<1> QED BY <1>1, <1>2, <1>3, <1>4

LEMMA SlotStep ==
  ASSUME Types, SlotInv, KidInv, [Next]_vars PROVE SlotInv' /\ KidInv'
<1>0. TableType /\ KidsType /\ Used \subseteq Slots
  BY UsedSlots DEF Types
<1>1. CASE Calm
  <2>1. UNCHANGED <<table, last, child, next_pid>>
    BY <1>1, CalmFrame
  <2> QED BY <1>0, <2>1, SameProcesses
<1>2. ASSUME NEW k \in {"respawn", "just_respawn", "detached"}, FilledIn(FreeSlot, k)
      PROVE  SlotInv' /\ KidInv'
  <2>1. /\ table'[FreeSlot].pid = next_pid /\ ~table'[FreeSlot].exited
        /\ ~(table'[FreeSlot].respawn /\ table'[FreeSlot].detached)
    BY <1>0, <1>2, FilledInEntry
  <2> QED BY <1>0, <1>2, <2>1, NewProcess DEF FilledIn
<1>3. ASSUME SameSlots, UNCHANGED <<child, next_pid>> PROVE SlotInv' /\ KidInv'
  BY <1>0, <1>3, SameProcesses DEF SameSlots
<1>4. CASE SpawnChild
  <2>1. kind \in {"respawn", "just_respawn", "detached"}
    BY DEF Types, LoopType
  <2> QED BY <1>2, <1>3, <1>4, <2>1, SpawnFacts
<1>5. CASE ChangeBinary
  BY <1>2, <1>3, <1>5, BinaryFacts
<1>6. CASE Suspend
  <2>1. UNCHANGED <<last, next_pid>>
    BY <1>6, StatusFacts
  <2>2. \A s \in Used :
           /\ table'[s].pid = table[s].pid /\ table'[s].detached = table[s].detached
           /\ table'[s].respawn => table[s].respawn
           /\ table'[s].exited => \/ table[s].exited
                                  \/ child'[table[s].pid] = "gone"
    BY <1>6, StatusFacts
  <2>3. \A p \in Pids : /\ child[p] \in {"none", "gone"} => child'[p] = child[p]
                        /\ child'[p] = "none" => child[p] = "none"
    BY <1>6, StatusFacts DEF Zombies
  <2> QED BY <1>0, <2>1, <2>2, <2>3, SameProcesses
<1>7. CASE ReapRespawn
  <2>1. /\ idx \in Slots /\ idx \in Used /\ last' = last /\ table[idx].exited
        /\ \A t \in Slots \ {idx} : table'[t] = table[t]
        /\ SameKind(table'[idx], table[idx])
    BY <1>0, <1>7, RespawnFacts DEF Exited
  <2>2. ~(table'[idx].respawn /\ table'[idx].detached)
    BY <2>1 DEF SameKind, SlotInv
  <2>3. CASE Fork /\ table'[idx].pid = next_pid /\ ~table'[idx].exited
    BY <1>0, <2>1, <2>2, <2>3, NewProcess
  <2>4. CASE /\ UNCHANGED <<child, next_pid>> /\ table'[idx].pid = table[idx].pid
             /\ table'[idx].exited
    BY <1>0, <2>1, <2>4, SameProcesses DEF SameKind
  <2> QED BY <1>7, <2>3, <2>4, RespawnFacts
<1>8. CASE ReapRemove
  <2>1. /\ idx \in Used /\ table[idx].exited /\ UNCHANGED <<child, next_pid>>
        /\ \/ idx = last - 1 /\ last' = last - 1
           \/ last' = last /\ table'[idx].pid = -1
        /\ \A t \in Slots \ {idx} : table'[t] = table[t]
        /\ table'[idx].respawn = table[idx].respawn
        /\ table'[idx].detached = table[idx].detached
    BY <1>8, RemoveFacts DEF Exited, SameKind
  <2> QED BY <1>0, <2>1, RemoveProcess
<1>9. CASE SignalSpare
  <2>1. PassFacts /\ UNCHANGED child /\ table'[idx].exited = table[idx].exited
    BY <1>9, SpareFacts
  <2> QED BY <1>0, <2>1, SameProcesses DEF PassFacts
<1>10. CASE SignalWrite \/ SignalKill
  <2>1. PassFacts /\ ~Spared(table[idx])
    BY <1>10, ToldFacts
  <2>2. \A p \in Pids : /\ child[p] \in {"none", "gone"} => child'[p] = child[p]
                        /\ child'[p] = "none" => child[p] = "none"
    BY <1>10, ToldFacts DEF Alive
  <2>3. table[idx].pid \in Pids /\ table[idx].pid < next_pid
    BY <2>1 DEF PassFacts, Spared, SlotInv
  <2>4. child[table[idx].pid] # "none"
    <3>1. ~(table[idx].pid >= next_pid)
      BY <1>0, <2>3 DEF KidsType, Pids
    <3> QED BY <2>3, <3>1 DEF KidInv
  <2>5. table'[idx].exited => \/ table[idx].exited
                              \/ child'[table[idx].pid] = "gone"
    BY <1>10, <2>4, ToldFacts
  <2> QED BY <1>0, <2>1, <2>2, <2>5, SameProcesses DEF PassFacts
<1>11. ASSUME NEW p \in Pids, ChildStep(p) PROVE SlotInv' /\ KidInv'
  <2>1. UNCHANGED <<table, last, next_pid>>
    BY <1>11, ChildFrame
  <2>2. \A q \in Pids : /\ child[q] \in {"none", "gone"} => child'[q] = child[q]
                        /\ child'[q] = "none" => child[q] = "none"
    BY <1>11 DEF ChildStep, ChildReady, ChildFail, ChildCrash, ChannelHandler,
      ChildExit, Alive, Types, KidsType
  <2> QED BY <1>0, <2>1, <2>2, SameProcesses
<1> QED BY <1>1, <1>4, <1>5, <1>6, <1>7, <1>8, <1>9, <1>10, <1>11, Cases

LEMMA ZombieStep ==
  ASSUME Types, ZombieInv, [Next]_vars PROVE ZombieInv'
<1>1. CASE Calm
  <2>1. UNCHANGED child
    BY <1>1, CalmFrame
  <2>2. pending \subseteq pending'
    BY <1>1 DEF Calm, SpawnDone, LoopTop, ReapNothing, ReapDone, MasterExit,
      Terminate, Quit, ReloadTooSoon, ReloadFails, Reload, DelayedShutdown,
      DispatchDone, Restart, NoAccept, SignalDone, Alarm, Send, vars,
      ReapUnchanged, DispatchUnchanged
  <2>3. short => short'
    BY <1>1 DEF Calm, SpawnDone, LoopTop, ReapNothing, ReapDone, MasterExit,
      Terminate, Quit, ReloadTooSoon, ReloadFails, Reload, DelayedShutdown,
      DispatchDone, Restart, NoAccept, SignalDone, Alarm, Send, vars, history,
      ReapUnchanged, DispatchUnchanged
  <2>4. Zombies' = Zombies
    BY <2>1 DEF Zombies
  <2> QED BY <2>1, <2>2, <2>3, <2>4 DEF ZombieInv
<1>2. CASE SpawnChild \/ ReapRespawn \/ ReapRemove \/ ChangeBinary
  <2>1. UNCHANGED pending /\ (short => short')
    BY <1>2 DEF SpawnChild, ReapRespawn, ReapRemove, ChangeBinary, ReapUnchanged, history
  <2>2. \A p \in Pids : child'[p] = child[p] \/ child'[p] = "init"
    <3>1. child' = child \/ child' = [child EXCEPT ![next_pid] = "init"]
      BY <1>2 DEF SpawnChild, ReapRespawn, ReapRemove, ChangeBinary, Fork, NoFork
    <3> QED BY <3>1 DEF Types, KidsType
  <2>3. Zombies' \subseteq Zombies
    BY <2>2 DEF Zombies
  <2> QED BY <2>1, <2>2, <2>3 DEF ZombieInv
<1>3. CASE Suspend
  <2>1. Zombies' = {}
    BY <1>3, StatusFacts DEF Zombies, ZombieInv
  <2> QED BY <2>1 DEF ZombieInv, Zombies
<1>4. CASE SignalSpare
  BY <1>4, SpareFacts DEF ZombieInv, Zombies, PassFacts
<1>5. CASE SignalWrite \/ SignalKill
  <2>1. UNCHANGED short
    BY <1>5, ToldFacts DEF PassFacts
  <2>2. CASE UNCHANGED <<child, pending>>
    BY <2>1, <2>2 DEF ZombieInv, Zombies
  <2>3. CASE /\ pending' = pending \cup {"CHLD"}
             /\ \A p \in Pids : child'[p] = child[p] \/ child'[p] = "zombie"
    BY <2>1, <2>3 DEF ZombieInv
  <2> QED BY <1>5, <2>2, <2>3, ToldFacts
<1>6. ASSUME NEW p \in Pids, ChildStep(p) PROVE ZombieInv'
  <2>1. CASE ChildReady(p) \/ ChannelHandler(p)
    <3>1. UNCHANGED <<pending, short>>
      BY <2>1 DEF ChildReady, ChannelHandler
    <3>2. \A q \in Pids : child'[q] = child[q] \/ child'[q] \in {"run", "told"}
      BY <2>1 DEF ChildReady, ChannelHandler, Types, KidsType
    <3>3. Zombies' \subseteq Zombies
      BY <3>2 DEF Zombies
    <3> QED BY <3>1, <3>2, <3>3 DEF ZombieInv
  <2>2. CASE ChildFail(p)
    BY <2>2 DEF ChildFail, ZombieInv
  <2>3. CASE ChildCrash(p) \/ ChildExit(p)
    <3>1. "CHLD" \in pending' /\ UNCHANGED short
      BY <2>3 DEF ChildCrash, ChildExit
    <3>2. \A q \in Pids : child'[q] = child[q] \/ child'[q] = "zombie"
      BY <2>3 DEF ChildCrash, ChildExit, Types, KidsType
    <3> QED BY <3>1, <3>2 DEF ZombieInv
  <2> QED BY <1>6, <2>1, <2>2, <2>3 DEF ChildStep
<1> QED BY <1>1, <1>2, <1>3, <1>4, <1>5, <1>6, Cases

(* A calm step other than the two of reap_children. *)
LEMMA CalmOutside ==
  ASSUME Types, Calm, ~ReapNothing, ~ReapDone, mpc = "reap"
  PROVE  mpc' = mpc /\ UNCHANGED <<idx, nlive, flags>>
<1>1. /\ ~SpawnDone /\ ~LoopTop /\ ~MasterExit /\ ~Terminate /\ ~Quit /\ ~ReloadTooSoon
      /\ ~ReloadFails /\ ~Reload /\ ~DelayedShutdown /\ ~DispatchDone /\ ~Restart
      /\ ~NoAccept /\ ~SignalDone
  BY DEF SpawnDone, LoopTop, MasterExit, Terminate, Quit, ReloadTooSoon, ReloadFails,
    Reload, DelayedShutdown, DispatchDone, Restart, NoAccept, SignalDone
<1>2. Alarm \/ (\E sig \in Signals : Send(sig)) \/ UNCHANGED vars
  BY <1>1 DEF Calm
<1> QED BY <1>2 DEF Alarm, Send, vars, loop

LEMMA CalmFlags ==
  ASSUME Types, Calm, ~ReapDone
  PROVE  "reap" \in flags => "reap" \in flags'
  BY DEF Calm, SpawnDone, LoopTop, ReapNothing, MasterExit, Terminate, Quit,
    ReloadTooSoon, ReloadFails, Reload, DelayedShutdown, DispatchDone, Restart,
    NoAccept, SignalDone, Alarm, Send, vars, ReapUnchanged

LEMMA CalmNoReap ==
  ASSUME Types, Calm, mpc # "reap" PROVE mpc' # "reap"
  BY GotoIs DEF Calm, SpawnDone, LoopTop, ReapNothing, ReapDone, MasterExit, Terminate,
    Quit, ReloadTooSoon, ReloadFails, Reload, DelayedShutdown, DispatchDone, Restart,
    NoAccept, SignalDone, Alarm, Send, vars, loop, Return, ReapUnchanged

LEMMA ReapStep ==
  ASSUME Types, SlotInv, KidInv, ReapInv, [Next]_vars PROVE ReapInv'
<1>0. TableType /\ LoopType /\ Used \subseteq Slots /\ Used \subseteq Nat /\ idx \in Nat
  BY UsedSlots DEF Types, LoopType
<1>1. CASE Calm
  <2>1. UNCHANGED <<table, last>> /\ Used' = Used
    BY <1>1, CalmFrame DEF Used
  <2>2. \A s : (Exited(s)' <=> Exited(s)) /\ (Failed(s)' <=> Failed(s))
    BY <2>1 DEF Exited, Failed
  <2>3. CASE ReapNothing
    <3>1. mpc' = mpc /\ mpc = "reap" /\ idx' = idx + 1 /\ flags' = flags /\ ~Exited(idx)
      BY <2>3 DEF ReapNothing, ReapUnchanged, Exited
    <3>2. \A s \in Used : s < idx + 1 => s < idx \/ s = idx
      BY <1>0
    <3> QED BY <2>1, <2>2, <3>1, <3>2 DEF ReapInv
  <2>4. CASE ReapDone
    <3>1. mpc = "reap" /\ mpc' = "dispatch" /\ idx >= last
      BY <2>4 DEF ReapDone
    <3>2. \A s \in Used : s < idx
      BY <1>0, <3>1, UsedSlots DEF Used
    <3> QED BY <2>1, <2>2, <3>1, <3>2 DEF ReapInv
  <2>5. CASE ~ReapNothing /\ ~ReapDone /\ mpc = "reap"
    BY <1>1, <2>1, <2>2, <2>5, CalmOutside DEF ReapInv
  <2>6. CASE ~ReapDone /\ mpc # "reap"
    BY <1>1, <2>1, <2>2, <2>6, CalmFlags, CalmNoReap DEF ReapInv
  <2> QED BY <2>3, <2>4, <2>5, <2>6
<1>2. ASSUME NEW k, FilledIn(FreeSlot, k), UNCHANGED flags \/ flags' = flags \ {"change_binary"},
             mpc' # "reap"
      PROVE  ReapInv'
  <2>1. PICK f : f = FreeSlot
    OBVIOUS
  <2>2. /\ Used' = Used \cup {f} /\ ~table'[f].exited
        /\ \A s \in Used : s # f => table'[s] = table[s]
    BY <1>0, <1>2, <2>1, FilledInEntry
  <2>3. ASSUME NEW s \in Used', Exited(s)' PROVE "reap" \in flags' \/ Failed(s)'
    <3>1. s # f /\ s \in Used /\ table'[s] = table[s]
      BY <2>2, <2>3 DEF Exited
    <3>2. Exited(s) /\ (Failed(s)' <=> Failed(s))
      BY <2>3, <3>1 DEF Exited, Failed
    <3> QED BY <1>2, <3>1, <3>2 DEF ReapInv
  <2> QED BY <1>2, <2>3 DEF ReapInv
<1>3. ASSUME SameSlots, UNCHANGED flags \/ flags' = flags \ {"change_binary"}, mpc' # "reap"
      PROVE  ReapInv'
  <2>1. Used' = Used
    BY <1>3 DEF SameSlots, Used
  <2>2. \A s \in Used : Exited(s)' => Exited(s) /\ (Failed(s)' <=> Failed(s))
    BY <1>3 DEF SameSlots, Exited, Failed
  <2> QED BY <1>3, <2>1, <2>2 DEF ReapInv
<1>4. CASE SpawnChild
  <2>1. UNCHANGED flags /\ mpc' # "reap"
    BY <1>4 DEF SpawnChild
  <2> QED BY <1>2, <1>3, <1>4, <2>1, SpawnFacts
<1>5. CASE ChangeBinary
  <2>1. flags' = flags \ {"change_binary"} /\ mpc' # "reap"
    BY <1>5, GotoIs DEF ChangeBinary
  <2> QED BY <1>2, <1>3, <1>5, <2>1, BinaryFacts
<1>6. CASE Suspend
  <2>1. Used' = Used /\ flags \subseteq flags'
    BY <1>6, StatusFacts DEF Used
  <2>2. ASSUME NEW s \in Used, Exited(s)' PROVE "reap" \in flags' \/ Failed(s)'
    <3>1. CASE ~table[s].exited
      BY <1>6, <2>2, <3>1, StatusFacts DEF Exited
    <3>2. CASE table[s].exited
      <4>1. table[s].pid # -1 /\ Exited(s)
        BY <1>6, <2>2, <3>2, StatusFacts DEF Exited
      <4>2. table[s].pid \notin Zombies
        BY <3>2, <4>1 DEF SlotInv, Zombies
      <4>3. table'[s] = table[s]
        BY <1>6, <4>2, StatusFacts
      <4> QED BY <2>1, <4>1, <4>3 DEF ReapInv, Failed
    <3> QED BY <3>1, <3>2
  <2>3. mpc' = "reap" => "reap" \in flags' /\ idx' = 0
    BY <1>6, StatusFacts
  <2> QED BY <1>0, <2>1, <2>2, <2>3 DEF ReapInv
<1>7. CASE ReapRespawn
  <2>1. PICK i \in Used :
        /\ i = idx /\ mpc = "reap" /\ mpc' = "reap" /\ idx' = i + 1
        /\ last' = last /\ \A t \in Slots \ {i} : table'[t] = table[t]
        /\ table'[i].exited => /\ table'[i].respawn /\ ~table'[i].exiting
                              /\ table'[i].channel # "open"
    BY <1>7, RespawnFacts DEF SameKind
  <2>2. Exited(i)' => Failed(i)'
    BY <2>1 DEF Exited, Failed
  <2>3. UNCHANGED flags /\ Used' = Used /\ "reap" \in flags
    BY <1>7, <2>1 DEF ReapRespawn, Used, ReapInv
  <2>4. ASSUME NEW s \in Used, s < idx', Exited(s)' PROVE Failed(s)'
    <3>1. CASE s = i
      BY <2>2, <2>4, <3>1
    <3>2. CASE s # i
      <4>1. s < idx /\ table'[s] = table[s]
        BY <1>0, <2>1, <2>4, <3>2
      <4>2. Exited(s) /\ (Failed(s)' <=> Failed(s))
        BY <2>4, <4>1 DEF Exited, Failed
      <4> QED BY <2>1, <4>1, <4>2 DEF ReapInv
    <3> QED BY <3>1, <3>2
  <2> QED BY <2>3, <2>4 DEF ReapInv
<1>8. CASE ReapRemove
  <2>1. PICK i \in Used :
        /\ i = idx /\ mpc = "reap" /\ mpc' = "reap" /\ idx' = i + 1
        /\ \A t \in Slots \ {i} : table'[t] = table[t] /\ flags \subseteq flags'
        /\ \/ i = last - 1 /\ last' = last - 1
           \/ last' = last /\ table'[i].pid = -1
    BY <1>8, RemoveFacts
  <2>2. Used' \subseteq Used /\ (i \in Used' => ~Exited(i)')
    BY <1>0, <2>1, UsedSlots DEF Used, Exited
  <2>3. "reap" \in flags'
    BY <1>8, <2>1, RemoveFacts DEF ReapInv
  <2>4. ASSUME NEW s \in Used', s < idx', Exited(s)' PROVE Failed(s)'
    <3>1. s # i /\ s \in Used
      BY <2>2, <2>4
    <3>2. s < idx /\ table'[s] = table[s]
      BY <1>0, <2>1, <2>4, <3>1
    <3>3. Exited(s) /\ (Failed(s)' <=> Failed(s))
      BY <2>4, <3>2 DEF Exited, Failed
    <3> QED BY <2>1, <3>1, <3>2, <3>3 DEF ReapInv
  <2> QED BY <2>3, <2>4 DEF ReapInv
<1>9. CASE SignalSpare
  <2>1. PICK i \in Used :
        /\ i = idx /\ mpc' = "signal" /\ last' = last /\ flags' = flags
        /\ \A t \in Slots \ {i} : table'[t] = table[t]
        /\ table'[i].pid = table[i].pid /\ table'[i].respawn = table[i].respawn
        /\ table'[i].channel = table[i].channel
        /\ table'[i].exited = table[i].exited /\ table'[i].exiting = table[i].exiting
    BY <1>9, SpareFacts DEF PassFacts
  <2>2. \A s \in Used : Exited(s)' => Exited(s) /\ (Failed(s)' <=> Failed(s))
    BY <1>0, <2>1 DEF Exited, Failed
  <2>3. Used' = Used
    BY <2>1 DEF Used
  <2> QED BY <2>1, <2>2, <2>3 DEF ReapInv
<1>10. CASE SignalWrite \/ SignalKill
  <2>1. PICK i \in Used :
        /\ i = idx /\ mpc' = "signal" /\ last' = last /\ flags \subseteq flags'
        /\ \A t \in Slots \ {i} : table'[t] = table[t]
        /\ table'[i].pid = table[i].pid /\ table[i].pid # -1
        /\ \/ /\ table'[i].exited = table[i].exited
              /\ \/ table[i].channel = "open"
                 \/ child[table[i].pid] \notin {"none", "gone"}
           \/ "reap" \in flags'
    BY <1>10, ToldFacts DEF PassFacts, Spared
  <2>2. Used' = Used
    BY <2>1 DEF Used
  <2>3. ASSUME NEW s \in Used, Exited(s)' PROVE "reap" \in flags' \/ Failed(s)'
    <3>1. CASE s = i
      <4>1. SUFFICES ASSUME "reap" \notin flags' PROVE FALSE
        OBVIOUS
      <4>2. Exited(s)
        BY <2>1, <2>3, <3>1, <4>1 DEF Exited
      <4>3. child[table[s].pid] = "gone"
        BY <4>2 DEF Exited, SlotInv
      <4>4. table[s].channel = "open" /\ "reap" \notin flags
        BY <2>1, <3>1, <4>1, <4>3
      <4> QED BY <4>2, <4>4 DEF ReapInv, Failed
    <3>2. CASE s # i
      <4>1. table'[s] = table[s]
        BY <1>0, <2>1, <3>2
      <4>2. Exited(s) /\ (Failed(s)' <=> Failed(s))
        BY <2>3, <4>1 DEF Exited, Failed
      <4> QED BY <2>1, <4>2 DEF ReapInv
    <3> QED BY <3>1, <3>2
  <2> QED BY <2>1, <2>2, <2>3 DEF ReapInv
<1>11. ASSUME NEW p \in Pids, ChildStep(p) PROVE ReapInv'
  <2>1. UNCHANGED <<table, last, flags, mpc, idx>>
    BY <1>11, ChildFrame DEF loop
  <2> QED BY <2>1 DEF ReapInv, Used, Exited, Failed
<1> QED BY <1>1, <1>4, <1>5, <1>6, <1>7, <1>8, <1>9, <1>10, <1>11, Cases

LEMMA CalmLive ==
  ASSUME Types, Calm, mpc # "reap" PROVE live => live'
  BY DEF Calm, SpawnDone, LoopTop, ReapNothing, ReapDone, MasterExit, Terminate,
    Quit, ReloadTooSoon, ReloadFails, Reload, DelayedShutdown, DispatchDone, Restart,
    NoAccept, SignalDone, Alarm, Send, vars, ReapUnchanged, DispatchUnchanged

LEMMA LiveStep ==
  ASSUME Types, SlotInv, KidInv, LiveInv, [Next]_vars PROVE LiveInv'
<1>0. TableType /\ LoopType /\ Used \subseteq Slots /\ Used \subseteq Nat /\ idx \in Nat
  BY UsedSlots DEF Types, LoopType
<1>1. CASE Calm
  <2>1. UNCHANGED <<table, last, revived>> /\ Used' = Used
    BY <1>1, CalmFrame DEF Used
  <2>2. \A s : Quiet(s)' <=> Quiet(s)
    BY <2>1 DEF Quiet
  <2>3. CASE ReapNothing
    <3>1. mpc' = mpc /\ mpc = "reap" /\ idx' = idx + 1 /\ (~nlive' => ~nlive)
      BY <2>3 DEF ReapNothing, ReapUnchanged
    <3>2. ~nlive' => Quiet(idx)
      BY <2>3 DEF ReapNothing, Quiet
    <3>3. \A s \in Used : s < idx + 1 => s < idx \/ s = idx
      BY <1>0
    <3> QED BY <2>1, <2>2, <3>1, <3>2, <3>3 DEF LiveInv
  <2>4. CASE ReapDone
    <3>1. mpc = "reap" /\ mpc' = "dispatch" /\ idx >= last /\ live' = nlive
      BY <2>4 DEF ReapDone
    <3>2. \A s \in Used : s < idx
      BY <1>0, <3>1, UsedSlots DEF Used
    <3> QED BY <2>1, <2>2, <3>1, <3>2 DEF LiveInv
  <2>5. CASE ~ReapNothing /\ ~ReapDone /\ mpc = "reap"
    BY <1>1, <2>1, <2>2, <2>5, CalmOutside DEF LiveInv
  <2>6. CASE ~ReapDone /\ mpc # "reap"
    BY <1>1, <2>1, <2>2, <2>6, CalmLive, CalmNoReap DEF LiveInv
  <2> QED BY <2>3, <2>4, <2>5, <2>6
<1>2. CASE SpawnChild
  <2>1. mpc' # "reap" /\ mpc # "reap" /\ live' = live
    BY <1>2 DEF SpawnChild
  <2>2. CASE /\ FilledIn(FreeSlot, kind)
             /\ ~live => revived' = revived \cup {next_pid}
    <3>1. PICK f : f = FreeSlot
      OBVIOUS
    <3>2. /\ Used' = Used \cup {f} /\ table'[f].pid = next_pid
          /\ \A s \in Used : s # f => table'[s] = table[s]
      BY <1>0, <2>2, <3>1, FilledInEntry
    <3>3. ASSUME ~live, NEW s \in Used' PROVE Quiet(s)'
      <4>1. CASE s = f
        BY <2>2, <3>2, <3>3, <4>1 DEF Quiet
      <4>2. CASE s # f
        BY <2>1, <2>2, <3>2, <3>3, <4>2 DEF Quiet, LiveInv
      <4> QED BY <4>1, <4>2
    <3> QED BY <2>1, <3>3 DEF LiveInv
  <2>3. CASE SameSlots /\ UNCHANGED revived
    BY <2>1, <2>3 DEF SameSlots, LiveInv, Quiet, Used
  <2> QED BY <1>2, <2>2, <2>3, SpawnFacts
<1>3. CASE ChangeBinary
  <2>1. mpc' # "reap" /\ mpc # "reap" /\ live' = live /\ revived' = revived
    BY <1>3, GotoIs DEF ChangeBinary, history
  <2>2. CASE FilledIn(FreeSlot, "detached")
    <3>1. PICK f : f = FreeSlot
      OBVIOUS
    <3>2. /\ Used' = Used \cup {f} /\ table'[f].detached
          /\ \A s \in Used : s # f => table'[s] = table[s]
      BY <1>0, <2>2, <3>1, FilledInEntry
    <3> QED BY <2>1, <3>2 DEF Quiet, LiveInv
  <2>3. CASE SameSlots
    BY <2>1, <2>3 DEF SameSlots, LiveInv, Quiet, Used
  <2> QED BY <1>3, <2>2, <2>3, BinaryFacts
<1>4. CASE Suspend
  <2>1. /\ Used' = Used /\ mpc # "reap" /\ live' = live /\ revived' = revived
        /\ mpc' = "reap" => idx' = 0
    BY <1>4, StatusFacts DEF Used
  <2>2. \A s \in Used : Quiet(s) => Quiet(s)'
    BY <1>4, <2>1, StatusFacts DEF Quiet
  <2> QED BY <1>0, <2>1, <2>2 DEF LiveInv
<1>5. CASE ReapRespawn
  <2>1. PICK i \in Used :
        /\ i = idx /\ mpc = "reap" /\ mpc' = "reap" /\ idx' = i + 1
        /\ last' = last /\ \A t \in Slots \ {i} : table'[t] = table[t]
        /\ nlive' = TRUE \/ (nlive' = nlive /\ table'[i].exited)
    BY <1>5, RespawnFacts
  <2>2. Used' = Used /\ revived' = revived
    BY <1>5, <2>1 DEF ReapRespawn, Used
  <2>3. ASSUME ~nlive', NEW s \in Used, s < i + 1 PROVE Quiet(s)'
    <3>1. nlive' = nlive /\ Quiet(i)'
      BY <2>1, <2>3 DEF Quiet
    <3>2. CASE s # i
      <4>1. s < i /\ table'[s] = table[s]
        BY <1>0, <2>1, <2>3, <3>2
      <4> QED BY <2>1, <2>2, <2>3, <3>1, <4>1 DEF LiveInv, Quiet
    <3> QED BY <3>1, <3>2
  <2> QED BY <2>1, <2>2, <2>3 DEF LiveInv
<1>6. CASE ReapRemove
  <2>1. PICK i \in Used :
        /\ i = idx /\ mpc = "reap" /\ mpc' = "reap" /\ idx' = i + 1 /\ nlive' = nlive
        /\ \A t \in Slots \ {i} : table'[t] = table[t]
        /\ \/ i = last - 1 /\ last' = last - 1
           \/ last' = last /\ table'[i].pid = -1
    BY <1>6, RemoveFacts
  <2>2. Used' \subseteq Used /\ (i \in Used' => Quiet(i)')
    BY <1>0, <2>1, UsedSlots DEF Used, Quiet
  <2>3. revived' = revived
    BY <1>6 DEF ReapRemove
  <2>4. ASSUME ~nlive', NEW s \in Used', s < i + 1 PROVE Quiet(s)'
    <3>1. CASE s # i
      <4>1. s \in Used /\ s < i /\ table'[s] = table[s]
        BY <1>0, <2>1, <2>2, <2>4, <3>1
      <4> QED BY <2>1, <2>3, <2>4, <4>1 DEF LiveInv, Quiet
    <3> QED BY <2>2, <2>4, <3>1
  <2> QED BY <2>1, <2>4 DEF LiveInv
<1>7. CASE SignalSpare \/ SignalWrite \/ SignalKill
  <2>1. PICK i \in Used :
        /\ i = idx /\ mpc = "signal" /\ mpc' = "signal" /\ last' = last
        /\ live' = live /\ revived' = revived
        /\ \A t \in Slots \ {i} : table'[t] = table[t]
        /\ table'[i].pid = table[i].pid /\ table'[i].detached = table[i].detached
        /\ table[i].exited => table'[i].exited
    BY <1>7, SpareFacts, ToldFacts DEF PassFacts
  <2>2. Used' = Used
    BY <2>1 DEF Used
  <2>3. \A s \in Used : Quiet(s) => Quiet(s)'
    BY <1>0, <2>1 DEF Quiet
  <2> QED BY <2>1, <2>2, <2>3 DEF LiveInv
<1>8. ASSUME NEW p \in Pids, ChildStep(p) PROVE LiveInv'
  <2>1. UNCHANGED <<table, last, live, nlive, revived, mpc, idx>>
    BY <1>8, ChildFrame DEF loop
  <2> QED BY <2>1 DEF LiveInv, Used, Quiet
<1> QED BY <1>1, <1>2, <1>3, <1>4, <1>5, <1>6, <1>7, <1>8, Cases

(* After master_process_exit nothing happens. *)
LEMMA ExitStays ==
  ASSUME mpc = "exit", [Next]_vars PROVE UNCHANGED vars
<1>1. ~MasterStep
  <2>1. /\ ~SpawnChild /\ ~SpawnDone /\ ~LoopTop /\ ~Suspend /\ ~ReapNothing
        /\ ~ReapRespawn /\ ~ReapRemove /\ ~ReapDone /\ ~MasterExit /\ ~Terminate
        /\ ~Quit /\ ~ReloadTooSoon
    BY DEF SpawnChild, SpawnDone, LoopTop, Suspend, ReapNothing, ReapRespawn,
      ReapRemove, ReapDone, MasterExit, Terminate, Quit, ReloadTooSoon
  <2>2. /\ ~ReloadFails /\ ~Reload /\ ~DelayedShutdown /\ ~DispatchDone /\ ~Restart
        /\ ~ChangeBinary /\ ~NoAccept /\ ~SignalSpare /\ ~SignalWrite
        /\ ~SignalKill /\ ~SignalDone
    BY DEF ReloadFails, Reload, DelayedShutdown, DispatchDone, Restart,
      ChangeBinary, NoAccept, SignalSpare, SignalWrite, SignalKill, SignalDone
  <2> QED BY <2>1, <2>2 DEF MasterStep
<1>2. \A p \in Pids : ~ChildStep(p)
  BY DEF ChildStep, ChildReady, ChildFail, ChildCrash, ChannelHandler, ChildExit, Asleep
<1>3. ~Alarm /\ \A sig \in Signals : ~Send(sig)
  BY DEF Alarm, Send
<1> QED BY <1>1, <1>2, <1>3 DEF Next

(* The names of the pid file change only with these. *)
LEMMA FilesFrame ==
  ASSUME [Next]_vars, ~MasterExit, ~ReapRemove, ~ChangeBinary
  PROVE  UNCHANGED <<pidfile, new_binary>>
<1>1. CASE Calm
  BY <1>1 DEF Calm, SpawnDone, LoopTop, ReapNothing, ReapDone, Terminate,
    Quit, ReloadTooSoon, ReloadFails, Reload, DelayedShutdown, DispatchDone, Restart,
    NoAccept, SignalDone, Alarm, Send, vars, files, ReapUnchanged, DispatchUnchanged
<1>2. CASE SpawnChild \/ Suspend \/ ReapRespawn
  BY <1>2 DEF SpawnChild, Suspend, ReapRespawn, files
<1>3. CASE SignalSpare \/ SignalWrite \/ SignalKill
  BY <1>3 DEF SignalSpare, SignalWrite, SignalKill, SignalUnchanged, files
<1>4. ASSUME NEW p \in Pids, ChildStep(p) PROVE UNCHANGED <<pidfile, new_binary>>
  BY <1>4, ChildFrame DEF files
<1> QED BY <1>1, <1>2, <1>3, <1>4, Cases

LEMMA FileStep ==
  ASSUME Types, SlotInv, FileInv, [Next]_vars PROVE FileInv'
<1>1. CASE mpc = "exit"
  <2>1. UNCHANGED mpc
    BY <1>1, ExitStays DEF vars, loop
  <2> QED BY <1>1, <2>1 DEF FileInv
<1>2. CASE MasterExit
  BY <1>2 DEF MasterExit, FileInv
<1>3. CASE ReapRemove
  <2>1. idx \in Used /\ table[idx].pid # -1
    BY <1>3, RemoveFacts DEF Exited
  <2>2. table[idx].pid \in Pids
    BY <2>1 DEF SlotInv
  <2>3. mpc # "exit"
    BY <1>3 DEF ReapRemove
  <2>4. CASE table[idx].pid = new_binary
    <3>1. new_binary > 0
      BY <2>2, <2>4 DEF Pids
    <3>2. pidfile' = "pid" /\ new_binary' = 0
      BY <1>3, <2>3, <2>4, <3>1 DEF ReapRemove, FileInv
    <3> QED BY <3>2 DEF FileInv
  <2>5. CASE table[idx].pid # new_binary
    BY <1>3, <2>3, <2>5 DEF ReapRemove, FileInv
  <2> QED BY <2>4, <2>5
<1>4. CASE ChangeBinary
  <2>1. CASE new_binary' = -1
    BY <2>1 DEF FileInv
  <2>2. CASE pidfile' = "oldbin" /\ Fork /\ new_binary' = next_pid
    <3>1. next_pid # 0
      BY <2>2, ForkPid DEF Fork, Types
    <3> QED BY <2>2, <3>1 DEF FileInv
  <2> QED BY <1>4, <2>1, <2>2 DEF ChangeBinary
<1>5. CASE mpc # "exit" /\ ~MasterExit /\ ~ReapRemove /\ ~ChangeBinary
  BY <1>5, FilesFrame DEF FileInv
<1> QED BY <1>1, <1>2, <1>3, <1>4, <1>5

LEMMA ExitStep ==
  ASSUME Types, SlotInv, KidInv, LiveInv, FileInv, ExitInv, [Next]_vars
  PROVE  ExitInv'
<1>1. CASE mpc = "exit"
  <2>1. UNCHANGED vars
    BY <1>1, ExitStays
  <2>2. UNCHANGED <<mpc, child, table, revived, new_binary, pidfile>>
    BY <2>1 DEF vars, loop, kids, history, files
  <2> QED BY <2>2 DEF ExitInv, LeavesClean, Mine, IsDetached
<1>2. CASE MasterExit
  <2>1. /\ UNCHANGED <<child, table, revived, new_binary>> /\ mpc = "dispatch" /\ ~live
    BY <1>2 DEF MasterExit, kids, history
  <2>2. ASSUME NEW p \in Pids, child[p] \in Alive, ~IsDetached(p) PROVE p \in revived
    <3>1. PICK s \in Used : table[s].pid = p
      BY <2>2 DEF KidInv, Alive
    <3>2. Quiet(s) /\ s \in Slots /\ p # -1
      BY <2>1, <3>1, UsedSlots DEF LiveInv, Types, Pids
    <3>3. ~table[s].exited
      BY <2>2, <3>1, <3>2 DEF SlotInv, Alive
    <3>4. ~table[s].detached
      BY <2>2, <3>1, <3>2 DEF IsDetached
    <3> QED BY <3>1, <3>2, <3>3, <3>4 DEF Quiet
  <2>3. new_binary # -1 => pidfile' = "none"
    <3>1. new_binary # -1 => new_binary = 0 \/ new_binary > 0
      BY DEF Types, SetType, Pids
    <3> QED BY <1>2, <2>1, <3>1 DEF MasterExit, FileInv
  <2> QED BY <2>1, <2>2, <2>3 DEF ExitInv, LeavesClean, Mine, IsDetached
<1>3. CASE mpc # "exit" /\ ~MasterExit
  <2>1. mpc' # "exit"
    <3>1. CASE Calm
      BY <1>3, <3>1, GotoIs DEF Calm, SpawnDone, LoopTop, ReapNothing, ReapDone,
        Terminate, Quit, ReloadTooSoon, ReloadFails, Reload, DelayedShutdown,
        DispatchDone, Restart, NoAccept, SignalDone, Alarm, Send, vars, loop,
        Return, ReapUnchanged
    <3>2. CASE SpawnChild \/ ReapRespawn \/ ReapRemove \/ ChangeBinary
      BY <1>3, <3>2, GotoIs DEF SpawnChild, ReapRespawn, ReapRemove, ChangeBinary,
        ReapUnchanged
    <3>3. CASE Suspend
      BY <3>3, StatusFacts
    <3>4. CASE SignalSpare \/ SignalWrite \/ SignalKill
      BY <3>4, SpareFacts, ToldFacts DEF PassFacts
    <3>5. ASSUME NEW p \in Pids, ChildStep(p) PROVE mpc' # "exit"
      BY <1>3, <3>5, ChildFrame DEF loop
    <3> QED BY <3>1, <3>2, <3>3, <3>4, <3>5, Cases
  <2> QED BY <2>1 DEF ExitInv
<1> QED BY <1>1, <1>2, <1>3

(* How many. *)
LEMMA FiniteSize ==
  ASSUME NEW U, IsFiniteSet(U)
  PROVE  \A A \in SUBSET U :
           /\ IsFiniteSet(A) /\ Cardinality(A) \in Nat
           /\ \A B \in SUBSET A : Cardinality(B) \in Nat /\ Cardinality(B) <= Cardinality(A)
           /\ \A f \in A : Cardinality(A \ {f}) = Cardinality(A) - 1
<1> TAKE A \in SUBSET U
<1>1. IsFiniteSet(A)
  BY FS_Subset
<1>2. ASSUME NEW B \in SUBSET A
      PROVE  Cardinality(B) \in Nat /\ Cardinality(B) <= Cardinality(A)
  BY <1>1, FS_Subset, FS_CardinalityType
<1> QED BY <1>1, <1>2, FS_CardinalityType, FS_RemoveElement

LEMMA StaffSize ==
  ASSUME TableType
  PROVE  /\ Staff \subseteq Used /\ NewStaff \subseteq Staff /\ KeptStaff \subseteq Staff
         /\ \A A \in SUBSET Used :
              /\ IsFiniteSet(A) /\ Cardinality(A) \in Nat
              /\ \A B \in SUBSET A : Cardinality(B) <= Cardinality(A)
<1>1. IsFiniteSet(Used)
  BY FS_Interval, UsedSlots DEF Used, TableType
<1>2. Staff \subseteq Used /\ NewStaff \subseteq Staff /\ KeptStaff \subseteq Staff
  BY DEF Staff, NewStaff, KeptStaff
<1> QED BY <1>1, <1>2, FiniteSize

(* More of them is no less. *)
LEMMA StaffMore ==
  ASSUME TableType, TableType', NEW n \in Nat
  PROVE  /\ Staff \subseteq Staff' /\ Cardinality(Staff) >= n => Cardinality(Staff') >= n
         /\ NewStaff \subseteq NewStaff' /\ Cardinality(NewStaff) >= n
              => Cardinality(NewStaff') >= n
         /\ KeptStaff \subseteq KeptStaff' /\ Cardinality(KeptStaff) >= n
              => Cardinality(KeptStaff') >= n
         /\ NewStaff \subseteq KeptStaff' /\ Cardinality(NewStaff) >= n
              => Cardinality(KeptStaff') >= n
         /\ Cardinality(NewStaff') >= n => Cardinality(Staff') >= n
         /\ Cardinality(KeptStaff') >= n => Cardinality(Staff') >= n
<1>1. /\ Staff' \in SUBSET (Used') /\ NewStaff' \in SUBSET (Staff')
      /\ KeptStaff' \in SUBSET (Staff') /\ NewStaff' \in SUBSET (Used')
      /\ KeptStaff' \in SUBSET (Used')
  BY DEF Staff, NewStaff, KeptStaff
<1>2. \A A \in SUBSET (Used') : \A B \in SUBSET A :
        Cardinality(B) \in Nat /\ Cardinality(A) \in Nat /\ Cardinality(B) <= Cardinality(A)
  <2>1. IsFiniteSet(0..(last' - 1))
    BY FS_Interval, MasterAssumption DEF TableType
  <2>2. IsFiniteSet(Used')
    BY <2>1 DEF Used
  <2>3. PICK U : U = Used'
    OBVIOUS
  <2> QED BY <2>2, <2>3, FiniteSize
<1>3. ASSUME NEW A \in SUBSET (Used'), NEW B \in SUBSET A, Cardinality(B) >= n
      PROVE  Cardinality(A) >= n
  <2>1. Cardinality(B) \in Nat /\ Cardinality(A) \in Nat /\ Cardinality(B) <= Cardinality(A)
    BY <1>2
  <2> QED BY <1>3, <2>1
<1> QED BY <1>1, <1>3

LEMMA ServiceStep ==
  ASSUME Types, [Next]_vars
  PROVE  InService' => InService /\ ~Stopping /\ ~short
<1>1. short => short'
  <2>1. CASE Calm
    BY <2>1 DEF Calm, SpawnDone, LoopTop, ReapNothing, ReapDone, MasterExit,
      Terminate, Quit, ReloadTooSoon, ReloadFails, Reload, DelayedShutdown,
      DispatchDone, Restart, NoAccept, SignalDone, Alarm, Send, vars, history,
      ReapUnchanged, DispatchUnchanged
  <2>2. CASE SpawnChild \/ Suspend \/ ReapRespawn \/ ReapRemove \/ ChangeBinary
    BY <2>2 DEF SpawnChild, Suspend, ReapRespawn, ReapRemove, ChangeBinary, history
  <2>3. CASE SignalSpare \/ SignalWrite \/ SignalKill
    BY <2>3, SpareFacts, ToldFacts DEF PassFacts
  <2>4. ASSUME NEW p \in Pids, ChildStep(p) PROVE short => short'
    BY <2>4 DEF ChildStep, ChildReady, ChildFail, ChildCrash, ChannelHandler, ChildExit
  <2> QED BY <2>1, <2>2, <2>3, <2>4, Cases
<1>2. Stopping => Stopping'
  <2>1. CASE Calm
    BY <2>1 DEF Stopping, Calm, SpawnDone, LoopTop, ReapNothing, ReapDone, MasterExit,
      Terminate, Quit, ReloadTooSoon, ReloadFails, Reload, DelayedShutdown,
      DispatchDone, Restart, NoAccept, SignalDone, Alarm, Send, vars,
      ReapUnchanged, DispatchUnchanged
  <2>2. CASE SpawnChild \/ ReapRespawn \/ ChangeBinary
    BY <2>2 DEF Stopping, SpawnChild, ReapRespawn, ChangeBinary
  <2>3. CASE Suspend \/ ReapRemove \/ SignalSpare \/ SignalWrite \/ SignalKill
    <3>1. flags \subseteq flags'
      BY <2>3, StatusFacts, RemoveFacts, SpareFacts, ToldFacts
    <3> QED BY <3>1 DEF Stopping
  <2>4. ASSUME NEW p \in Pids, ChildStep(p) PROVE Stopping => Stopping'
    BY <2>4, ChildFrame DEF Stopping
  <2> QED BY <2>1, <2>2, <2>3, <2>4, Cases
<1> QED BY <1>1, <1>2 DEF InService

(* A step outside of a start and a pass of signals, to one of the same. *)
LEMMA StaffKeep ==
  ASSUME Types, TableType', StaffInv, InService' => InService,
         mpc \notin {"spawn", "signal"}, mpc' \notin {"spawn", "signal"},
         delay_shutdown' = delay_shutdown,
         InService' => Staff \subseteq Staff' /\ NewStaff \subseteq NewStaff'
  PROVE  StaffInv'
<1> SUFFICES ASSUME InService'
             PROVE  /\ Cardinality(Staff') >= NumProcesses + 1
                    /\ delay_shutdown => Cardinality(NewStaff') >= NumProcesses + 1
  BY DEF StaffInv
<1>1. /\ Cardinality(Staff) >= NumProcesses + 1
      /\ delay_shutdown => Cardinality(NewStaff) >= NumProcesses + 1
  BY DEF StaffInv
<1>2. NumProcesses + 1 \in Nat
  BY MasterAssumption
<1> QED BY <1>1, <1>2, StaffMore DEF Types

LEMMA StaffCalm ==
  ASSUME Types, TableType', StaffInv, InService' => InService, Calm
  PROVE  StaffInv'
<1>0. NumProcesses + 1 \in Nat /\ 0 \in Nat /\ TableType /\ NumProcesses \in Nat
  BY MasterAssumption DEF Types
<1>1. UNCHANGED <<table, last>>
  BY CalmFrame
<1>2. Staff' = Staff /\ NewStaff' = NewStaff
  BY <1>1 DEF Staff, NewStaff, Used
<1>3. Cardinality(Staff) >= 0 /\ Cardinality(NewStaff) >= 0
  BY <1>0, StaffSize
<1> SUFFICES ASSUME InService' PROVE StaffInv'
  BY DEF StaffInv
<1>4. CASE SpawnDone
  <2>1. /\ mpc = "spawn" /\ idx > NumProcesses /\ mpc' \notin {"spawn", "signal"}
        /\ delay_shutdown' = delay_shutdown /\ idx \in Nat
        /\ kind \in {"respawn", "just_respawn"}
    BY <1>4, GotoIs DEF SpawnDone, Return, timer, Types, LoopType
  <2>2. ASSUME NEW S \in {Staff, NewStaff}, Cardinality(S) >= idx
        PROVE  Cardinality(S) >= NumProcesses + 1
    <3>1. Cardinality(S) \in Nat
      BY <1>0, StaffSize
    <3> QED BY <1>0, <2>1, <2>2, <3>1
  <2>3. Cardinality(NewStaff) >= NumProcesses + 1 => Cardinality(Staff) >= NumProcesses + 1
    <3>1. Cardinality(NewStaff) \in Nat /\ Cardinality(Staff) \in Nat
          /\ Cardinality(NewStaff) <= Cardinality(Staff)
      BY <1>0, StaffSize
    <3> QED BY <1>0, <3>1
  <2>4. CASE kind = "respawn"
    <3>1. Cardinality(Staff) >= NumProcesses + 1
      BY <2>1, <2>2, <2>4 DEF StaffInv
    <3>2. delay_shutdown => Cardinality(NewStaff) >= NumProcesses + 1
      BY <2>1, <2>4 DEF StaffInv
    <3> QED BY <1>2, <2>1, <3>1, <3>2 DEF StaffInv
  <2>5. CASE kind = "just_respawn"
    <3>1. Cardinality(NewStaff) >= NumProcesses + 1
      BY <2>1, <2>2, <2>5 DEF StaffInv
    <3> QED BY <1>2, <2>1, <2>3, <3>1 DEF StaffInv
  <2> QED BY <2>1, <2>4, <2>5
<1>5. CASE Reload \/ Restart
  <2>1. /\ mpc \notin {"spawn", "signal"} /\ mpc' = "spawn" /\ idx' = 0
        /\ kind' = "just_respawn" \/ (kind' = "respawn" /\ delay_shutdown' = delay_shutdown)
        /\ kind' \in {"respawn", "just_respawn"}
    BY <1>5 DEF Reload, Restart, timer
  <2> QED BY <1>2, <1>3, <2>1 DEF StaffInv
<1>6. CASE DelayedShutdown
  <2>1. /\ mpc = "dispatch" /\ mpc' = "signal" /\ ~delay_shutdown' /\ delay_shutdown
        /\ idx' = 0
    BY <1>6 DEF DelayedShutdown
  <2>2. NewStaff \subseteq KeptStaff'
    BY <1>1 DEF NewStaff, KeptStaff, Staff, Used
  <2>3. Cardinality(NewStaff) >= NumProcesses + 1 /\ Cardinality(Staff) >= NumProcesses + 1
    BY <2>1 DEF StaffInv
  <2>4. Cardinality(KeptStaff') >= NumProcesses + 1
    BY <1>0, <2>2, <2>3, StaffMore
  <2> QED BY <1>2, <2>1, <2>3, <2>4 DEF StaffInv
<1>7. CASE SignalDone
  <2>1. mpc = "signal" /\ mpc' \notin {"spawn", "signal"} /\ delay_shutdown' = delay_shutdown
    BY <1>7, GotoIs DEF SignalDone, Return, timer
  <2> QED BY <1>2, <2>1 DEF StaffInv
<1>8. CASE MasterExit \/ Terminate \/ Quit
  <2>1. Stopping
    BY <1>8 DEF MasterExit, Terminate, Quit, Stopping
  <2> QED BY <2>1 DEF InService
<1>9. CASE NoAccept
  <2>1. short'
    BY <1>9 DEF NoAccept
  <2> QED BY <2>1 DEF InService
<1>10. CASE Alarm \/ (\E sig \in Signals : Send(sig)) \/ UNCHANGED vars
  <2>1. UNCHANGED <<mpc, idx, kind, delay_shutdown>>
    BY <1>10 DEF Alarm, Send, vars, loop, timer
  <2>2. KeptStaff' = KeptStaff
    BY <1>1, <2>1 DEF KeptStaff, Staff, Used
  <2> QED BY <1>2, <2>1, <2>2 DEF StaffInv
<1>11. CASE \/ LoopTop \/ ReapNothing \/ ReapDone \/ ReloadTooSoon \/ ReloadFails
            \/ DispatchDone
  <2>1. /\ mpc \notin {"spawn", "signal"} /\ mpc' \notin {"spawn", "signal"}
        /\ delay_shutdown' = delay_shutdown
    BY <1>11, GotoIs DEF LoopTop, ReapNothing, ReapDone, ReloadTooSoon, ReloadFails,
      DispatchDone, ReapUnchanged, timer
  <2> QED BY <1>2, <2>1, StaffKeep
<1> QED BY <1>4, <1>5, <1>6, <1>7, <1>8, <1>9, <1>10, <1>11 DEF Calm

LEMMA StaffStep ==
  ASSUME Types, Types', SlotInv, KidInv, ZombieInv, StaffInv, [Next]_vars
  PROVE  StaffInv'
<1>0. /\ NumProcesses + 1 \in Nat /\ TableType /\ TableType' /\ idx \in Nat
      /\ Used \subseteq Slots /\ Used \subseteq Nat
  BY MasterAssumption, UsedSlots DEF Types, LoopType
<1>s. InService' => InService /\ ~Stopping /\ ~short
  BY ServiceStep
<1> SUFFICES ASSUME InService' PROVE StaffInv'
  BY DEF StaffInv
<1>1. CASE Calm
  BY <1>0, <1>1, <1>s, StaffCalm
<1>2. CASE SpawnChild
  <2>1. /\ mpc = "spawn" /\ mpc' = "spawn" /\ idx' = idx + 1
        /\ UNCHANGED <<kind, delay_shutdown>>
    BY <1>2 DEF SpawnChild, timer
  <2>2. FilledIn(FreeSlot, kind)
    BY <1>2, SpawnFacts DEF InService
  <2>3. PICK f : f = FreeSlot
    OBVIOUS
  <2>4. /\ Used' = Used \cup {f} /\ table'[f].pid = next_pid /\ ~table'[f].exiting
        /\ \A s \in Used : s # f => table'[s] = table[s]
        /\ f \in Used => table[f].pid = -1
        /\ table'[f].just <=> kind = "just_respawn"
        /\ table'[f].respawn
    BY <1>0, <2>2, <2>3, FilledInEntry DEF Types, LoopType
  <2>5. next_pid # -1
    BY <2>2, ForkPid DEF FilledIn, Fork, Types
  <2>6. Staff' = Staff \cup {f} /\ f \notin Staff
    BY <2>4, <2>5 DEF Staff
  <2>7. NewStaff \subseteq NewStaff' /\ (kind = "just_respawn" => NewStaff' = NewStaff \cup {f})
    <3>1. \A s \in Staff : s # f /\ table'[s] = table[s]
      BY <2>4, <2>6 DEF Staff
    <3>2. \A s \in Staff' : s = f \/ s \in Staff
      BY <2>6
    <3>3. f \in Staff' /\ \A s \in Staff : s \in Staff'
      BY <2>6
    <3>4. \A s : s \in NewStaff <=> s \in Staff /\ table[s].just
      BY DEF NewStaff
    <3>5. \A s : s \in NewStaff' <=> s \in Staff' /\ table'[s].just
      BY DEF NewStaff
    <3>6. \A s \in NewStaff : s \in NewStaff'
      BY <3>1, <3>3, <3>4, <3>5
    <3>7. ASSUME kind = "just_respawn" PROVE NewStaff' = NewStaff \cup {f}
      <4>1. f \in NewStaff'
        BY <2>4, <3>3, <3>5, <3>7
      <4>2. \A s \in NewStaff' : s = f \/ s \in NewStaff
        BY <3>1, <3>2, <3>4, <3>5
      <4> QED BY <3>6, <4>1, <4>2
    <3> QED BY <3>6, <3>7
  <2>8. f \notin NewStaff /\ NewStaff \subseteq Staff
    BY <2>6 DEF NewStaff
  <2>9. ASSUME NEW S \in SUBSET Used, Cardinality(S) >= idx, f \notin S
        PROVE  Cardinality(S \cup {f}) >= idx + 1
    <3>1. IsFiniteSet(S) /\ Cardinality(S) \in Nat
      BY <1>0, StaffSize
    <3>2. Cardinality(S \cup {f}) = Cardinality(S) + 1
      BY <2>9, <3>1, FS_AddElement
    <3> QED BY <1>0, <2>9, <3>1, <3>2
  <2>10. Staff \in SUBSET Used /\ NewStaff \in SUBSET Used
    BY <1>0, StaffSize
  <2>11. kind = "respawn" => Cardinality(Staff') >= idx + 1
    BY <1>s, <2>1, <2>6, <2>9, <2>10 DEF StaffInv
  <2>12. kind = "just_respawn" => Cardinality(NewStaff') >= idx + 1
    BY <1>s, <2>1, <2>7, <2>8, <2>9, <2>10 DEF StaffInv
  <2>13. delay_shutdown /\ kind = "respawn" => Cardinality(NewStaff') >= NumProcesses + 1
    BY <1>0, <1>s, <2>1, <2>7, StaffMore DEF StaffInv
  <2> QED BY <2>1, <2>11, <2>12, <2>13 DEF StaffInv
<1>3. CASE ChangeBinary
  <2>1. /\ mpc \notin {"spawn", "signal"} /\ mpc' \notin {"spawn", "signal"}
        /\ delay_shutdown' = delay_shutdown
    BY <1>3, GotoIs DEF ChangeBinary, timer
  <2>2. Staff \subseteq Staff' /\ NewStaff \subseteq NewStaff'
    <3>1. CASE FilledIn(FreeSlot, "detached")
      <4>1. PICK f : f = FreeSlot
        OBVIOUS
      <4>2. /\ Used' = Used \cup {f} /\ \A s \in Used : s # f => table'[s] = table[s]
            /\ f \in Used => table[f].pid = -1
        BY <1>0, <3>1, <4>1, FilledInEntry
      <4> QED BY <4>2 DEF Staff, NewStaff
    <3>2. CASE SameSlots
      BY <3>2 DEF SameSlots, Staff, NewStaff, Used
    <3> QED BY <1>3, <3>1, <3>2, BinaryFacts
  <2> QED BY <1>0, <1>s, <2>1, <2>2, StaffKeep
<1>4. CASE Suspend
  <2>1. /\ mpc \notin {"spawn", "signal"} /\ mpc' \notin {"spawn", "signal"}
        /\ delay_shutdown' = delay_shutdown /\ last' = last
    BY <1>4, StatusFacts
  <2>2. \A s \in Used : /\ table'[s].pid = table[s].pid /\ table'[s].just = table[s].just
                        /\ table'[s].exiting = table[s].exiting
                        /\ table[s].respawn => table'[s].respawn
    BY <1>s, <1>4, StatusFacts DEF ZombieInv
  <2>3. Staff \subseteq Staff' /\ NewStaff \subseteq NewStaff'
    BY <2>1, <2>2 DEF Staff, NewStaff, Used
  <2> QED BY <1>0, <1>s, <2>1, <2>3, StaffKeep
<1>5. CASE ReapRespawn
  <2>1. PICK i \in Used :
        /\ i = idx /\ mpc = "reap" /\ mpc' = "reap" /\ last' = last
        /\ \A t \in Slots \ {i} : table'[t] = table[t]
        /\ SameKind(table'[i], table[i])
        /\ (Fork /\ table'[i].pid = next_pid) \/ table'[i].pid = table[i].pid
    BY <1>5, RespawnFacts
  <2>2. table[i].pid # -1 => table'[i].pid # -1
    BY <2>1, ForkPid DEF Fork, Types
  <2>3. delay_shutdown' = delay_shutdown
    BY <1>5 DEF ReapRespawn, ReapUnchanged, timer
  <2>4. Staff \subseteq Staff' /\ NewStaff \subseteq NewStaff'
    BY <1>0, <2>1, <2>2 DEF Staff, NewStaff, Used, SameKind
  <2> QED BY <1>0, <1>s, <2>1, <2>3, <2>4, StaffKeep
<1>6. CASE ReapRemove
  <2>1. PICK i \in Used :
        /\ i = idx /\ mpc = "reap" /\ mpc' = "reap"
        /\ \A t \in Slots \ {i} : table'[t] = table[t]
        /\ table[i].exiting \/ ~table[i].respawn
        /\ (i = last - 1 /\ last' = last - 1) \/ last' = last
    BY <1>s, <1>6, RemoveFacts
  <2>2. delay_shutdown' = delay_shutdown
    BY <1>6 DEF ReapRemove, ReapUnchanged, timer
  <2>3. i \notin Staff /\ Used \ {i} \subseteq Used'
    BY <1>0, <2>1, UsedSlots DEF Staff, Used
  <2>4. Staff \subseteq Staff' /\ NewStaff \subseteq NewStaff'
    BY <1>0, <2>1, <2>3 DEF Staff, NewStaff
  <2> QED BY <1>0, <1>s, <2>1, <2>2, <2>4, StaffKeep
<1>7. CASE SignalSpare \/ SignalWrite \/ SignalKill
  <2>1. PICK i \in Used :
        /\ i = idx /\ mpc = "signal" /\ mpc' = "signal" /\ idx' = i + 1 /\ last' = last
        /\ \A t \in Slots \ {i} : table'[t] = table[t]
        /\ table'[i].pid = table[i].pid /\ table'[i].respawn = table[i].respawn
        /\ delay_shutdown' = delay_shutdown
        /\ table'[i].exiting = table[i].exiting \/ ~table[i].just
    BY <1>7, SpareFacts, ToldFacts DEF PassFacts, Spared
  <2>2. ASSUME NEW s \in KeptStaff PROVE s \in KeptStaff'
    <3>1. s \in Used /\ s \in Nat /\ (s < i \/ table[s].just) /\ Used' = Used
      BY <1>0, <2>1 DEF KeptStaff, Staff, Used
    <3>2. CASE s = i
      <4>1. table[s].just /\ s < i + 1
        BY <3>1, <3>2
      <4> QED BY <2>1, <2>2, <3>1, <3>2, <4>1 DEF KeptStaff, Staff
    <3>3. CASE s # i
      <4>1. table'[s] = table[s] /\ (s < i => s < i + 1)
        BY <1>0, <2>1, <3>1, <3>3
      <4> QED BY <2>1, <2>2, <3>1, <4>1 DEF KeptStaff, Staff
    <3> QED BY <3>2, <3>3
  <2>3. Cardinality(KeptStaff) >= NumProcesses + 1 /\ ~delay_shutdown
    BY <1>s, <2>1 DEF StaffInv
  <2>4. Cardinality(KeptStaff') >= NumProcesses + 1
    BY <1>0, <2>2, <2>3, StaffMore
  <2>5. Cardinality(Staff') >= NumProcesses + 1
    BY <1>0, <2>4, StaffMore
  <2> QED BY <2>1, <2>3, <2>4, <2>5 DEF StaffInv
<1>8. ASSUME NEW p \in Pids, ChildStep(p) PROVE StaffInv'
  <2>1. UNCHANGED <<table, last, mpc, delay_shutdown>> /\ mpc = "suspend"
    BY <1>8, ChildFrame DEF loop, timer, ChildStep, ChildReady, ChildFail, ChildCrash,
      ChannelHandler, ChildExit, Asleep
  <2>2. Staff \subseteq Staff' /\ NewStaff \subseteq NewStaff'
    BY <2>1 DEF Staff, NewStaff, Used
  <2> QED BY <1>0, <1>s, <2>1, <2>2, StaffKeep
<1> QED BY <1>1, <1>2, <1>3, <1>4, <1>5, <1>6, <1>7, <1>8, Cases

-----------------------------------------------------------------------------
LEMMA InvInit == Init => Inv
<1> SUFFICES ASSUME Init PROVE Inv
  OBVIOUS
<1>0. /\ NumProcesses \in Nat /\ MaxSlots \in Nat /\ MaxSlots > 0 /\ MaxPid \in Nat
      /\ ChannelSize \in Nat /\ MaxSignals \in Nat /\ MaxCrashes \in Nat
      /\ MaxForkFails \in Nat /\ GracefulQuit \in BOOLEAN
  BY MasterAssumption
<1>1. Used = {} /\ last = 0
  BY DEF Init, Used
<1>2. LoopType /\ SetType
  BY DEF Init, LoopType, SetType, MasterPC, Flags, AllSignals
<1>3. TableType
  <2>1. Free \in Process
    BY DEF Free, Process
  <2>2. 0 \in Slots /\ 0 \in 0..MaxSlots
    BY <1>0 DEF Slots
  <2> QED BY <2>1, <2>2 DEF Init, TableType
<1>4. TimerType
  BY <1>0 DEF Init, TimerType, KillTimes
<1>5. BoolType
  BY <1>0 DEF Init, BoolType
<1>6. KidsType
  BY <1>0 DEF Init, KidsType, ChildState
<1>7. ToldType
  BY DEF Init, ToldType
<1>8. SlotInv
  BY <1>1 DEF SlotInv
<1>9. KidInv /\ ZombieInv
  <2>1. \A p \in Pids : child[p] = "none" /\ p >= next_pid
    BY <1>0 DEF Init, Pids
  <2> QED BY <2>1 DEF KidInv, ZombieInv, Zombies
<1>10. ReapInv /\ LiveInv /\ FileInv /\ ExitInv
  BY <1>1 DEF Init, ReapInv, LiveInv, FileInv, ExitInv
<1>11. StaffInv
  <2>1. Cardinality(Staff) >= 0
    BY <1>3, StaffSize
  <2>2. mpc = "spawn" /\ kind = "respawn" /\ idx = 0 /\ ~delay_shutdown
    BY DEF Init
  <2> QED BY <2>1, <2>2 DEF StaffInv
<1> QED
  BY <1>2, <1>3, <1>4, <1>5, <1>6, <1>7, <1>8, <1>9, <1>10, <1>11 DEF Inv, TypeOK

LEMMA InvStep == Inv /\ [Next]_vars => Inv'
<1> SUFFICES ASSUME Inv, [Next]_vars PROVE Inv'
  OBVIOUS
<1>1. Types
  BY DEF Inv, TypeOK, Types
<1>2. LoopType' /\ TableType' /\ TimerType' /\ BoolType' /\ SetType' /\ KidsType' /\ ToldType'
  BY <1>1, LoopTypeStep, TableTypeStep, TimerTypeStep, BoolTypeStep, SetTypeStep,
    KidsTypeStep, ToldTypeStep DEF Types, Inv
<1>3. SlotInv' /\ KidInv' /\ ZombieInv' /\ ReapInv'
  BY <1>1, SlotStep, ZombieStep, ReapStep DEF Inv
<1>4. LiveInv' /\ FileInv' /\ ExitInv'
  BY <1>1, LiveStep, FileStep, ExitStep DEF Inv
<1>5. StaffInv'
  BY <1>1, <1>2, StaffStep DEF Inv, Types
<1> QED BY <1>2, <1>3, <1>4, <1>5 DEF Inv, TypeOK

LEMMA InvAlways == SafeSpec => []Inv
  BY InvInit, InvStep, PTL DEF SafeSpec

(* A child that is not waited for, or waits to be reaped, has one slot     *)
(* below g_last_process, and no other slot has its pid: for any table      *)
(* size, any number of workers and any order of crashes, reloads, upgrades *)
(* and failed forks (spawn_process, reap_children).                        *)
THEOREM ChildrenTrackedAlways == SafeSpec => []ChildrenTracked
<1>1. Inv => ChildrenTracked
  <2> SUFFICES ASSUME Inv PROVE ChildrenTracked
    OBVIOUS
  <2>1. ASSUME NEW p \in Pids, child[p] \in Alive \cup {"zombie", "zombie2"}
        PROVE  \E s \in Used : /\ table[s].pid = p
                               /\ \A t \in Used : table[t].pid = p => t = s
    <3>1. PICK s \in Used : table[s].pid = p
      BY <2>1 DEF Inv, KidInv, Alive
    <3>2. p # -1
      BY DEF Pids
    <3>3. \A t \in Used : table[t].pid = p => t = s
      BY <3>1, <3>2 DEF Inv, SlotInv
    <3> QED BY <3>1, <3>3
  <2> QED BY <2>1 DEF ChildrenTracked, Inv
<1> QED BY <1>1, InvAlways, PTL

(* No death goes unnoticed: while the master sleeps, SIGCHLD is on its way *)
(* for every dead child, and a child that was waited for has been reaped   *)
(* or could not be started again (process_get_status, reap_children).      *)
THEOREM DeathNoticedAlways == SafeSpec => []DeathNoticed
<1>1. Inv => DeathNoticed
  BY DEF Inv, ZombieInv, ReapInv, Exited, Failed, DeathNoticed
<1> QED BY <1>1, InvAlways, PTL

(* The master leaves no child behind but those a reload has started when   *)
(* no other was left, and its pid file does not outlive it unless an       *)
(* upgrade failed (master_process_cycle, master_process_exit).             *)
THEOREM LeavesCleanAlways == SafeSpec => []LeavesClean
<1>1. Inv => LeavesClean
  BY DEF Inv, ExitInv, LeavesClean
<1> QED BY <1>1, InvAlways, PTL

(* While nobody stops the service or its workers and every start succeeds, *)
(* num_processes + 1 children that nobody has told to quit have a slot,    *)
(* through every crash, reload and lost alarm (start_worker_processes,     *)
(* signal_worker_processes).                                               *)
THEOREM StaffedAlways == SafeSpec => []Staffed
<1>1. Inv => Staffed
  <2>1. Staff = {s \in Used : /\ table[s].pid # -1 /\ table[s].respawn
                              /\ ~table[s].exiting}
    BY DEF Staff
  <2> QED BY <2>1 DEF Inv, StaffInv, InService, Staffed
<1> QED BY <1>1, InvAlways, PTL
=============================================================================
