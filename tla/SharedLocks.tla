---------------------------- MODULE SharedLocks ----------------------------
(***************************************************************************)
(* The locks of core/shs_lock.cc as threads (of one or several processes)  *)
(* use them.  Two scenes, one of which each behaviour has: "signals", the  *)
(* process lock and the read-write lock, which block signals while they    *)
(* are held, and "blocks", the atomic lock, as the user of which core/     *)
(* shs_mblks.cc is modelled, a list of blocks of equal size.               *)
(*                                                                         *)
(* The pthread objects are seen through their owners (external); what the  *)
(* code adds is the saving and restoring of the signal mask: the mask of   *)
(* the caller is saved in the lock itself, which is shared, before the     *)
(* lock is obtained.  A mask is a set of signals: "blk" stands for those   *)
(* of sig_block_mask, "oth" for the others.                                *)
(***************************************************************************)
EXTENDS Integers, Sequences, FiniteSets

CONSTANTS
  Threads,
  Blocks,       \* the blocks of the pool, 1 .. count
  MaxDead       \* threads that may die

ASSUME LocksAssumption ==
  /\ Blocks \in Nat
  /\ MaxDead \in Nat

Locks == {"process", "rw"}

Tries == {"try_on", "write_try_on"}
Signals == {"blk", "oth"}

VARIABLES
  scene,    \* the locks this behaviour is about
  own,      \* the mask each thread started with
  mask,     \* its mask now
  prev,     \* sig_prev_mask of each lock
  made,     \* the locks that exist
  readers, writer,  \* the threads that hold each lock
  pc,       \* where each thread is in a call
  dead,     \* threads that died
  unused,   \* history: locks nobody has locked since they were made
  tainted,  \* history: a try failed, a thread locked while it held another
            \* lock, or an unused lock was released
  word,     \* the atomic lock is SHS_LOCK_ON
  head, next, cold, hot,  \* the block list: 0 is beyond the last block
  held      \* the blocks of each thread

sig == <<own, mask, prev, tainted>>
pth == <<made, readers, writer, unused>>
pool == <<word, head, next, cold, hot, held>>
vars == <<scene, sig, pth, pc, dead, pool>>

Idle == <<"idle">>
Alive == Threads \ dead
Holds(t, l) == t \in readers[l] \cup writer[l]
HoldsNone(t) == \A l \in Locks : ~Holds(t, l)

Places == {"idle", "saved", "unlocked", "spin", "in", "pop", "link", "out"}

TypeOK ==
  /\ {own, mask} \subseteq [Threads -> SUBSET Signals]
  /\ prev \in [Locks -> SUBSET Signals]
  /\ unused \subseteq made /\ made \subseteq Locks
  /\ {readers, writer} \subseteq [Locks -> SUBSET Threads]
  /\ \A t \in Threads : pc[t][1] \in Places
  /\ dead \subseteq Threads /\ tainted \in BOOLEAN /\ word \in BOOLEAN
  /\ {head, cold, hot} \subseteq 0..(Blocks + 1)
  /\ next \in [1..Blocks -> 0..(Blocks + 1)]
  /\ held \in [Threads -> SUBSET (1..Blocks)]

Init ==
  /\ scene \in {"signals", "blocks"}
  /\ own \in [Threads -> SUBSET (Signals \ {"blk"})]
  /\ mask = own
  /\ prev = [l \in Locks |-> {}]
  /\ made = {} /\ unused = {}
  /\ readers = [l \in Locks |-> {}]
  /\ writer = [l \in Locks |-> {}]
  /\ pc = [t \in Threads |-> Idle]
  /\ dead = {}
  /\ tainted = FALSE
  /\ word = FALSE
  /\ head = 1
  /\ next = [b \in 1..Blocks |-> b + 1]
  /\ cold = Blocks /\ hot = 0
  /\ held = [t \in Threads |-> {}]

-----------------------------------------------------------------------------
(* Process lock and read-write lock. *)

Ready(t) == pc[t] = Idle /\ t \in Alive

(* A lock in new memory: sig_prev_mask is what that memory holds. *)
Fresh(l) ==
  /\ scene = "signals" /\ l \notin made
  /\ made' = made \cup {l} /\ unused' = unused \cup {l}
  /\ \E m \in SUBSET Signals : prev' = [prev EXCEPT ![l] = m]
  /\ UNCHANGED <<scene, own, mask, tainted, readers, writer, pc, dead, pool>>

shs_process_lock_create == Fresh("process")
shs_process_rwlock_create == Fresh("rw")

(* The last user destroys the lock, and gets sig_prev_mask as its mask. *)
Destroy(t, l) ==
  /\ Ready(t) /\ l \in made
  /\ readers[l] \cup writer[l] = {}
  /\ \A u \in Alive : pc[u] # Idle => pc[u][2] # l
  /\ mask' = [mask EXCEPT ![t] = prev[l]]
  /\ tainted' = (tainted \/ l \in unused \/ ~HoldsNone(t))
  /\ made' = made \ {l} /\ unused' = unused \ {l}
  /\ UNCHANGED <<scene, own, prev, readers, writer, pc, dead, pool>>

shs_process_lock_release(t) == Destroy(t, "process")
shs_process_rwlock_release(t) == Destroy(t, "rw")

(* The first half of every locking call: sigprocmask(SIG_BLOCK). *)
Block(t, l, call) ==
  /\ Ready(t) /\ l \in made /\ ~Holds(t, l)
  /\ prev' = [prev EXCEPT ![l] = mask[t]]
  /\ mask' = [mask EXCEPT ![t] = mask[t] \cup {"blk"}]
  /\ pc' = [pc EXCEPT ![t] = <<"saved", l, call>>]
  /\ unused' = unused \ {l}
  /\ tainted' = (tainted \/ ~HoldsNone(t))
  /\ UNCHANGED <<scene, own, made, readers, writer, dead, pool>>

shs_process_lock_on(t) == Block(t, "process", "on")
shs_process_lock_try_on(t) == Block(t, "process", "try_on")
shs_process_rwlock_read_on(t) == Block(t, "rw", "read_on")
shs_process_rwlock_write_on(t) == Block(t, "rw", "write_on")
shs_process_rwlock_write_try_on(t) == Block(t, "rw", "write_try_on")

(* pthread_mutex_lock, pthread_rwlock_rdlock and so on can succeed. *)
Free(l, call) == writer[l] = {} /\ (call = "read_on" \/ readers[l] = {})

(* The second half of every locking call. *)
LockOn(t) ==
  LET l == pc[t][2]
      call == pc[t][3]
  IN /\ pc[t][1] = "saved" /\ t \in Alive
     /\ Free(l, call)
     /\ IF call = "read_on"
        THEN readers' = [readers EXCEPT ![l] = readers[l] \cup {t}] /\ UNCHANGED writer
        ELSE writer' = [writer EXCEPT ![l] = {t}] /\ UNCHANGED readers
     /\ pc' = [pc EXCEPT ![t] = Idle]
     /\ UNCHANGED <<scene, sig, made, unused, dead, pool>>

(* try_on and write_try_on find the lock taken: they return at once, with  *)
(* the signals still blocked.                                              *)
TryOnFails(t) ==
  /\ pc[t][1] = "saved" /\ t \in Alive
  /\ pc[t][3] \in Tries /\ ~Free(pc[t][2], pc[t][3])
  /\ tainted' = TRUE
  /\ pc' = [pc EXCEPT ![t] = Idle]
  /\ UNCHANGED <<scene, own, mask, prev, pth, dead, pool>>

(* Unlock, then SIG_SETMASK. *)
LockOff(t, l) ==
  /\ Ready(t) /\ Holds(t, l)
  /\ readers' = [readers EXCEPT ![l] = readers[l] \ {t}]
  /\ writer' = [writer EXCEPT ![l] = writer[l] \ {t}]
  /\ pc' = [pc EXCEPT ![t] = <<"unlocked", l>>]
  /\ UNCHANGED <<scene, sig, made, unused, dead, pool>>

shs_process_lock_off(t) == LockOff(t, "process")
shs_process_rwlock_off(t) == LockOff(t, "rw")

(* Mutant: the mask is not restored. *)
NoRestore(t) ==
  /\ pc[t][1] = "unlocked" /\ t \in Alive
  /\ pc' = [pc EXCEPT ![t] = Idle]
  /\ UNCHANGED <<scene, sig, pth, dead, pool>>

RestoreMask(t) ==
  /\ pc[t][1] = "unlocked" /\ t \in Alive
  /\ mask' = [mask EXCEPT ![t] = prev[pc[t][2]]]
  /\ pc' = [pc EXCEPT ![t] = Idle]
  /\ UNCHANGED <<scene, own, prev, tainted, pth, dead, pool>>

(* A thread dies, in the middle of a call or with locks held. *)
Die(t) ==
  /\ t \in Alive /\ Cardinality(dead) < MaxDead
  /\ dead' = dead \cup {t}
  /\ UNCHANGED <<scene, sig, pth, pc, pool>>

(* The pthread object is initialised again, when it is held by dead        *)
(* threads only.                                                           *)
Reset(l) ==
  /\ readers[l] \cup writer[l] # {} /\ readers[l] \cup writer[l] \subseteq dead
  /\ \A t \in Alive : pc[t][1] = "saved" => pc[t][2] # l
  /\ readers' = [readers EXCEPT ![l] = {}]
  /\ writer' = [writer EXCEPT ![l] = {}]
  /\ UNCHANGED <<scene, sig, made, unused, pc, dead, pool>>

shs_process_lock_reset == Reset("process")
shs_process_rwlock_reset == Reset("rw")

-----------------------------------------------------------------------------
(* Atomic lock and block list. *)

Critical == {"in", "pop", "link", "out"}

(* mem_get, or mem_put of block b, enters LOCK: op is "get" or b. *)
Enter(t, op) ==
  /\ scene = "blocks" /\ Ready(t)
  /\ op \in {0} \cup held[t]
  /\ held' = [held EXCEPT ![t] = held[t] \ {op}]
  /\ pc' = [pc EXCEPT ![t] = <<"spin", op>>]
  /\ UNCHANGED <<scene, sig, pth, dead, word, head, next, cold, hot>>

(* Mutant: the word is set without being compared. *)
SetWord(t) ==
  /\ pc[t][1] = "spin" /\ t \in Alive
  /\ word' = TRUE
  /\ pc' = [pc EXCEPT ![t] = <<"in", pc[t][2]>>]
  /\ UNCHANGED <<scene, sig, pth, dead, head, next, cold, hot, held>>

(* shs_atomic_lock_on: the CAS that succeeds; the others are a spin. *)
Cas(t) ==
  /\ pc[t][1] = "spin" /\ t \in Alive
  /\ ~word /\ word' = TRUE
  /\ pc' = [pc EXCEPT ![t] = <<"in", pc[t][2]>>]
  /\ UNCHANGED <<scene, sig, pth, dead, head, next, cold, hot, held>>

(* mem_get reads the head of the list, unless no block is left. *)
ReadHead(t) ==
  /\ pc[t] = <<"in", 0>> /\ t \in Alive
  /\ pc' = [pc EXCEPT ![t] = IF cold = 0 THEN <<"out">> ELSE <<"pop", head>>]
  /\ UNCHANGED <<scene, sig, pth, dead, pool>>

(* What mem_get does with a pointer beyond the last block is not followed: *)
(* the list ends there only after a thread died in mem_put.                *)
mem_get(t) ==
  LET b == pc[t][2]
  IN /\ pc[t][1] = "pop" /\ b \in 1..Blocks /\ t \in Alive
     /\ head' = next[b]
     /\ next' = [next EXCEPT ![b] = 0]
     /\ hot' = hot + 1 /\ cold' = cold - 1
     /\ held' = [held EXCEPT ![t] = held[t] \cup {b}]
     /\ pc' = [pc EXCEPT ![t] = <<"out">>]
     /\ UNCHANGED <<scene, sig, pth, dead, word>>

(* mem_put: the counts and the link of the block, then the head. *)
mem_put(t) ==
  LET b == pc[t][2]
  IN /\ pc[t][1] = "in" /\ b # 0 /\ t \in Alive
     /\ hot' = hot - 1 /\ cold' = cold + 1
     /\ next' = [next EXCEPT ![b] = head]
     /\ pc' = [pc EXCEPT ![t] = <<"link", b>>]
     /\ UNCHANGED <<scene, sig, pth, dead, word, head, held>>

SetHead(t) ==
  /\ pc[t][1] = "link" /\ t \in Alive
  /\ head' = pc[t][2]
  /\ pc' = [pc EXCEPT ![t] = <<"out">>]
  /\ UNCHANGED <<scene, sig, pth, dead, word, next, cold, hot, held>>

(* shs_atomic_lock_off. *)
AtomicOff(t) ==
  /\ pc[t] = <<"out">> /\ t \in Alive
  /\ word' = FALSE
  /\ pc' = [pc EXCEPT ![t] = Idle]
  /\ UNCHANGED <<scene, sig, pth, dead, head, next, cold, hot, held>>

(* shs_atomic_lock_reset, off_force: when the thread that set it is dead. *)
AtomicReset ==
  /\ word /\ \A t \in Alive : pc[t][1] \notin Critical
  /\ word' = FALSE
  /\ UNCHANGED <<scene, sig, pth, pc, dead, head, next, cold, hot, held>>

Next ==
  \/ shs_process_lock_create \/ shs_process_rwlock_create
  \/ \E t \in Threads : shs_process_lock_release(t)
  \/ \E t \in Threads : shs_process_rwlock_release(t)
  \/ \E t \in Threads : shs_process_lock_on(t)
  \/ \E t \in Threads : shs_process_lock_try_on(t)
  \/ \E t \in Threads : shs_process_rwlock_read_on(t)
  \/ \E t \in Threads : shs_process_rwlock_write_on(t)
  \/ \E t \in Threads : shs_process_rwlock_write_try_on(t)
  \/ \E t \in Threads : LockOn(t)
  \/ \E t \in Threads : TryOnFails(t)
  \/ \E t \in Threads : shs_process_lock_off(t)
  \/ \E t \in Threads : shs_process_rwlock_off(t)
  \/ \E t \in Threads : RestoreMask(t)
  \/ \E t \in Threads : Die(t)
  \/ shs_process_lock_reset \/ shs_process_rwlock_reset
  \/ \E t \in Threads : \E op \in {0} \cup held[t] : Enter(t, op)
  \/ \E t \in Threads : Cas(t)
  \/ \E t \in Threads : ReadHead(t)
  \/ \E t \in Threads : mem_get(t)
  \/ \E t \in Threads : mem_put(t)
  \/ \E t \in Threads : SetHead(t)
  \/ \E t \in Threads : AtomicOff(t)
  \/ AtomicReset

Spec == Init /\ [][Next]_vars

-----------------------------------------------------------------------------
(* Properties *)

(* A thread outside of every lock and lock call has its signals back: the  *)
(* mask that it, or another thread, started with.  The mask is saved in    *)
(* the shared lock before the lock is obtained, so that this holds only    *)
(* as long as no try failed, no thread locked while holding a lock, and no *)
(* lock was released that had never been locked.                           *)
MaskRestored ==
  ~tainted => \A t \in Alive : pc[t] = Idle /\ HoldsNone(t)
                => mask[t] \in {own[u] : u \in Threads}

(* The blocks reached by k steps from b. *)
Chain(k) ==
  LET at[i \in 1..k] == IF i = 1 THEN head ELSE next[at[i - 1]]
  IN at

(* While nobody is inside the atomic lock of the list, and nobody died in  *)
(* it, each block is held by one thread or is once on the list, and the    *)
(* two counts say how many (mem_get, mem_put).  (The types of the          *)
(* variables are part of it.)                                              *)
PoolSound ==
  LET coming == {t \in Threads : pc[t][1] = "spin" /\ pc[t][2] # 0}
      away == (UNION {held[t] : t \in Threads}) \cup {pc[t][2] : t \in coming}
  IN /\ TypeOK
     /\ (\A t \in Threads : pc[t][1] \notin Critical) =>
          /\ \A t, u \in Threads : t # u => held[t] \cap held[u] = {}
          /\ hot = Cardinality(away) /\ cold = Blocks - hot
          /\ {Chain(cold)[i] : i \in 1..cold} = (1..Blocks) \ away
=============================================================================
