------------------------- MODULE SharedLocksProofs -------------------------
(***************************************************************************)
(* Proofs about SharedLocks for any number of threads and blocks: a thread *)
(* gets its signals back, and the atomic lock has one thread inside.       *)
(***************************************************************************)
EXTENDS SharedLocks, FiniteSetTheorems, WellFoundedInduction, TLAPS

Owns == {own[u] : u \in Threads}
InCall(t) == pc[t][1] \in {"saved", "unlocked"}
InUse == made \ unused

Types ==
  /\ mask = [t \in Threads |-> mask[t]] /\ DOMAIN mask = Threads
  /\ prev = [l \in Locks |-> prev[l]] /\ DOMAIN prev = Locks
  /\ pc = [t \in Threads |-> pc[t]] /\ DOMAIN pc = Threads
  /\ readers \in [Locks -> SUBSET Threads]
  /\ writer \in [Locks -> SUBSET Threads]
  /\ made \subseteq Locks
  /\ tainted \in BOOLEAN

(* A lock that is held, waited for or just left by a thread that lives     *)
(* exists and has been locked before.                                      *)
UsedExists ==
  \A t \in Alive :
    /\ InCall(t) => pc[t][2] \in InUse
    /\ \A l \in Locks : Holds(t, l) => l \in InUse

(* What a lock in use has saved is a mask some thread started with. *)
SavedOwn == ~tainted => \A l \in InUse : prev[l] \in Owns

(* So is the mask of a thread that is in no lock and no lock call. *)
QuietOwn ==
  ~tainted => \A t \in Alive : ~InCall(t) /\ HoldsNone(t) => mask[t] \in Owns

MaskInv == Types /\ UsedExists /\ SavedOwn /\ QuietOwn

LEMMA IdleIsQuiet == \A t : pc[t] = Idle => pc[t][1] = "idle" /\ ~InCall(t)
  BY DEF Idle, InCall

LEMMA MaskInit == Init => MaskInv
<1> SUFFICES ASSUME Init PROVE MaskInv
  OBVIOUS
<1>1. Types
  BY DEF Init, Types
<1>2. UsedExists /\ SavedOwn
  BY DEF Init, UsedExists, SavedOwn, InUse, InCall, Holds, Alive, Idle
<1>3. QuietOwn
  BY DEF Init, QuietOwn, Owns, Alive
<1> QED BY <1>1, <1>2, <1>3 DEF MaskInv

(* What the calls of the block list keep: everything but pc, and there     *)
(* only places outside of the lock calls.                                  *)
LEMMA QuietKeeps ==
  ASSUME MaskInv, NEW t \in Threads, NEW v, ~InCall(t),
         v[1] \notin {"saved", "unlocked"},
         pc' = [pc EXCEPT ![t] = v], UNCHANGED <<sig, pth, dead>>
  PROVE MaskInv'
<1> USE DEF MaskInv, sig, pth
<1>1. Types' BY DEF Types
<1>2. \A u \in Threads : InCall(u)' => InCall(u) /\ pc'[u] = pc[u]
  BY DEF Types, InCall
<1>3. \A u \in Threads : InCall(u) => InCall(u)'
  BY DEF Types, InCall
<1>4. UsedExists'
  BY <1>2 DEF UsedExists, InUse, Holds, Alive
<1>5. SavedOwn' BY DEF SavedOwn, InUse, Owns
<1>6. QuietOwn'
  BY <1>2, <1>3 DEF QuietOwn, HoldsNone, Holds, Owns, Alive
<1> QED BY <1>1, <1>4, <1>5, <1>6

(* A lock in new memory. *)
LEMMA FreshKeeps ==
  ASSUME MaskInv, NEW l \in Locks, Fresh(l)
  PROVE MaskInv'
<1> USE DEF MaskInv, Fresh
<1>1. Types' BY DEF Types
<1>2. InUse' = InUse /\ l \notin InUse BY DEF InUse
<1>3. UsedExists' BY <1>2 DEF UsedExists, InCall, Holds, Alive
<1>4. SavedOwn'
  <2>1. \A k \in Locks \ {l} : prev'[k] = prev[k] BY DEF Types
  <2>2. InUse \subseteq Locks BY DEF InUse, Types
  <2> QED BY <1>2, <2>1, <2>2 DEF SavedOwn, Owns
<1>5. QuietOwn' BY DEF QuietOwn, InCall, HoldsNone, Holds, Owns, Alive
<1> QED BY <1>1, <1>3, <1>4, <1>5

(* The lock is destroyed: nobody alive uses it. *)
LEMMA DestroyKeeps ==
  ASSUME MaskInv, NEW t \in Threads, NEW l \in Locks, Destroy(t, l)
  PROVE MaskInv'
<1> USE DEF MaskInv, Destroy
<1>1. Types' BY DEF Types
<1>2. InUse' = InUse \ {l} BY DEF InUse
<1>3. UsedExists'
  <2>1. \A u \in Alive : InCall(u) => pc[u] # Idle
    BY IdleIsQuiet
  <2>2. \A u \in Alive : ~Holds(u, l)
    BY DEF Holds
  <2> QED BY <1>2, <2>1, <2>2 DEF UsedExists, InCall, Holds, Alive
<1>4. SavedOwn' BY <1>2 DEF SavedOwn, Owns
<1>5. QuietOwn'
  <2>1. ~tainted' => l \in InUse /\ ~tainted
    BY DEF InUse
  <2>2. ~tainted' => mask'[t] \in Owns
    BY <2>1 DEF SavedOwn, Types
  <2>3. \A u \in Threads \ {t} : mask'[u] = mask[u]
    BY DEF Types
  <2> QED
    BY <2>1, <2>2, <2>3 DEF QuietOwn, InCall, HoldsNone, Holds, Owns, Alive
<1> QED BY <1>1, <1>3, <1>4, <1>5

(* The mask of the caller is saved in the lock. *)
LEMMA BlockKeeps ==
  ASSUME MaskInv, NEW t \in Threads, NEW l \in Locks, NEW call,
         Block(t, l, call)
  PROVE MaskInv'
<1> USE DEF MaskInv, Block, Ready
<1>0. ~tainted' => ~tainted /\ HoldsNone(t) BY DEF Types
<1>1. Types' BY DEF Types
<1>2. InUse' = InUse \cup {l} BY DEF InUse
<1>3. /\ pc'[t] = <<"saved", l, call>>
      /\ \A u \in Threads \ {t} : pc'[u] = pc[u] /\ mask'[u] = mask[u]
  BY DEF Types
<1>4. UsedExists'
  BY <1>2, <1>3 DEF UsedExists, InCall, Holds, Alive
<1>5. SavedOwn'
  <2>1. ~tainted' => mask[t] \in Owns
    BY <1>0, IdleIsQuiet DEF QuietOwn
  <2>2. prev'[l] = mask[t] /\ \A k \in Locks \ {l} : prev'[k] = prev[k]
    BY DEF Types
  <2>3. InUse \subseteq Locks BY DEF InUse, Types
  <2> QED BY <1>0, <1>2, <2>1, <2>2, <2>3 DEF SavedOwn, Owns
<1>6. QuietOwn'
  BY <1>0, <1>3 DEF QuietOwn, InCall, HoldsNone, Holds, Owns, Alive
<1> QED BY <1>1, <1>4, <1>5, <1>6

(* The lock is obtained. *)
LEMMA LockOnKeeps ==
  ASSUME MaskInv, NEW t \in Threads, LockOn(t)
  PROVE MaskInv'
<1> DEFINE l == pc[t][2]
<1> USE DEF MaskInv, LockOn, sig
<1>1. l \in InUse /\ l \in Locks
  BY DEF UsedExists, InUse, Types, InCall
<1>2. Types' BY <1>1 DEF Types
<1>3. /\ \A k \in Locks : readers[k] \subseteq readers'[k]
      /\ \A k \in Locks : readers'[k] \subseteq readers[k] \cup {t}
      /\ \A k \in Locks \ {l} : readers'[k] = readers[k]
  BY DEF Types
<1>4. /\ writer[l] = {}
      /\ writer' \in {writer, [writer EXCEPT ![l] = {t}]}
  BY DEF Free
<1>5. /\ \A k \in Locks : writer[k] \subseteq writer'[k]
      /\ \A k \in Locks : writer'[k] \subseteq writer[k] \cup {t}
      /\ \A k \in Locks \ {l} : writer'[k] = writer[k]
  BY <1>1, <1>4 DEF Types
<1>6. t \in readers'[l] \cup writer'[l]
  BY <1>1 DEF Types
<1>7. /\ pc'[t] = Idle
      /\ \A u \in Threads \ {t} : pc'[u] = pc[u]
  BY DEF Types
<1> HIDE DEF l
<1>8. UsedExists'
  BY <1>1, <1>3, <1>5, <1>7 DEF UsedExists, InUse, InCall, Holds, Alive, Idle
<1>9. SavedOwn' BY DEF SavedOwn, InUse, Owns
<1>10. QuietOwn'
  <2>1. \A u \in Threads \ {t} : HoldsNone(u)' => HoldsNone(u)
    BY <1>3, <1>5 DEF HoldsNone, Holds
  <2>2. ~HoldsNone(t)' BY <1>1, <1>6 DEF HoldsNone, Holds
  <2> QED BY <1>7, <2>1, <2>2 DEF QuietOwn, InCall, Owns, Alive
<1> QED BY <1>2, <1>8, <1>9, <1>10

(* A failed try taints. *)
LEMMA TryKeeps ==
  ASSUME MaskInv, NEW t \in Threads, TryOnFails(t)
  PROVE MaskInv'
<1> USE DEF MaskInv, TryOnFails, pth
<1>1. Types' BY DEF Types
<1>2. /\ pc'[t] = Idle
      /\ \A u \in Threads \ {t} : pc'[u] = pc[u]
  BY DEF Types
<1>3. UsedExists'
  BY <1>2 DEF UsedExists, InUse, InCall, Holds, Alive, Idle
<1> QED BY <1>1, <1>3 DEF SavedOwn, QuietOwn

(* The lock is given back; the mask is restored in the next step. *)
LEMMA LockOffKeeps ==
  ASSUME MaskInv, NEW t \in Threads, NEW l \in Locks, LockOff(t, l)
  PROVE MaskInv'
<1> USE DEF MaskInv, LockOff, sig, Ready
<1>1. Types' BY DEF Types
<1>2. /\ pc'[t] = <<"unlocked", l>>
      /\ \A u \in Threads \ {t} : pc'[u] = pc[u]
  BY DEF Types
<1>3. /\ \A u \in Threads : \A k \in Locks : Holds(u, k)' => Holds(u, k)
      /\ \A u \in Threads \ {t} :
           \A k \in Locks : Holds(u, k) => Holds(u, k)'
  BY DEF Types, Holds
<1>4. UsedExists'
  BY <1>2, <1>3 DEF UsedExists, InUse, InCall, Alive
<1>5. SavedOwn' BY DEF SavedOwn, InUse, Owns
<1>6. QuietOwn'
  <2>1. InCall(t)' BY <1>2 DEF InCall
  <2>2. \A u \in Threads \ {t} : HoldsNone(u)' => HoldsNone(u)
    BY <1>3 DEF HoldsNone
  <2> QED BY <1>2, <2>1, <2>2 DEF QuietOwn, InCall, Owns, Alive
<1> QED BY <1>1, <1>4, <1>5, <1>6

(* The mask saved in the lock becomes the thread's. *)
LEMMA RestoreKeeps ==
  ASSUME MaskInv, NEW t \in Threads, RestoreMask(t)
  PROVE MaskInv'
<1> USE DEF MaskInv, RestoreMask, pth
<1>1. Types' BY DEF Types
<1>2. /\ pc'[t] = Idle /\ mask'[t] = prev[pc[t][2]]
      /\ \A u \in Threads \ {t} : pc'[u] = pc[u] /\ mask'[u] = mask[u]
  BY DEF Types
<1>3. UsedExists'
  BY <1>2 DEF UsedExists, InUse, InCall, Holds, Alive, Idle
<1>4. SavedOwn' BY DEF SavedOwn, InUse, Owns
<1>5. QuietOwn'
  <2>1. pc[t][2] \in InUse BY DEF UsedExists, InCall
  <2>2. ~tainted => mask'[t] \in Owns BY <1>2, <2>1 DEF SavedOwn
  <2> QED BY <1>2, <2>2 DEF QuietOwn, InCall, HoldsNone, Holds, Owns, Alive
<1> QED BY <1>1, <1>3, <1>4, <1>5

(* A thread that dies makes no claims any more. *)
LEMMA DieKeeps ==
  ASSUME MaskInv, NEW t \in Threads, Die(t)
  PROVE MaskInv'
<1> USE DEF MaskInv, Die, sig, pth
<1>1. Alive' \subseteq Alive BY DEF Alive
<1>2. Types' BY DEF Types
<1>3. UsedExists' BY <1>1 DEF UsedExists, InUse, InCall, Holds
<1>4. SavedOwn' BY DEF SavedOwn, InUse, Owns
<1>5. QuietOwn' BY <1>1 DEF QuietOwn, InCall, HoldsNone, Holds, Owns
<1> QED BY <1>2, <1>3, <1>4, <1>5

(* A lock that only dead threads hold is initialised again. *)
LEMMA ResetKeeps ==
  ASSUME MaskInv, NEW l \in Locks, Reset(l)
  PROVE MaskInv'
<1> USE DEF MaskInv, Reset, sig
<1>1. Types' BY DEF Types
<1>2. \A u \in Alive : \A k \in Locks : Holds(u, k)' <=> Holds(u, k)
  BY DEF Types, Holds, Alive
<1>3. UsedExists' BY <1>2 DEF UsedExists, InUse, InCall, Alive
<1>4. SavedOwn' BY DEF SavedOwn, InUse, Owns
<1>5. QuietOwn' BY <1>2 DEF QuietOwn, InCall, HoldsNone, Owns, Alive
<1> QED BY <1>1, <1>3, <1>4, <1>5

(* The calls of the block list and its lock. *)
LEMMA BlockListKeeps ==
  ASSUME MaskInv, NEW t \in Threads,
         \/ \E op \in {0} \cup held[t] : Enter(t, op)
         \/ Cas(t) \/ ReadHead(t) \/ mem_get(t) \/ mem_put(t)
         \/ SetHead(t) \/ AtomicOff(t)
  PROVE MaskInv'
<1>1. CASE \E op \in {0} \cup held[t] : Enter(t, op)
  <2>1. PICK op : Enter(t, op) BY <1>1
  <2> QED BY <2>1, QuietKeeps, IdleIsQuiet DEF Enter, Ready
<1>2. CASE Cas(t)
  BY <1>2, QuietKeeps DEF Cas, InCall
<1>3. CASE ReadHead(t)
  <2>1. ~InCall(t) BY <1>3 DEF ReadHead, InCall
  <2>2. PICK v \in {<<"out">>, <<"pop", head>>} : pc' = [pc EXCEPT ![t] = v]
    BY <1>3 DEF ReadHead
  <2>3. v[1] \notin {"saved", "unlocked"} BY <2>2
  <2> QED BY <1>3, <2>1, <2>2, <2>3, QuietKeeps DEF ReadHead
<1>4. CASE mem_get(t)
  BY <1>4, QuietKeeps DEF mem_get, InCall
<1>5. CASE mem_put(t)
  BY <1>5, QuietKeeps DEF mem_put, InCall
<1>6. CASE SetHead(t)
  BY <1>6, QuietKeeps DEF SetHead, InCall
<1>7. CASE AtomicOff(t)
  <2>1. ~InCall(t) BY <1>7 DEF AtomicOff, InCall
  <2> QED BY <1>7, <2>1, QuietKeeps DEF AtomicOff, Idle
<1> QED BY <1>1, <1>2, <1>3, <1>4, <1>5, <1>6, <1>7

(* Every step keeps the invariant. *)
LEMMA MaskStep == MaskInv /\ [Next]_vars => MaskInv'
<1> SUFFICES ASSUME MaskInv, [Next]_vars PROVE MaskInv'
  OBVIOUS
<1>0. "process" \in Locks /\ "rw" \in Locks BY DEF Locks
<1>1. CASE shs_process_lock_create \/ shs_process_rwlock_create
  BY <1>0, <1>1, FreshKeeps
  DEF shs_process_lock_create, shs_process_rwlock_create
<1>2. CASE \E t \in Threads : \/ shs_process_lock_release(t)
                              \/ shs_process_rwlock_release(t)
  BY <1>0, <1>2, DestroyKeeps
  DEF shs_process_lock_release, shs_process_rwlock_release
<1>3. CASE \E t \in Threads : \/ shs_process_lock_on(t)
                              \/ shs_process_lock_try_on(t)
                              \/ shs_process_rwlock_read_on(t)
                              \/ shs_process_rwlock_write_on(t)
                              \/ shs_process_rwlock_write_try_on(t)
  BY <1>0, <1>3, BlockKeeps
  DEF shs_process_lock_on, shs_process_lock_try_on,
      shs_process_rwlock_read_on, shs_process_rwlock_write_on,
      shs_process_rwlock_write_try_on
<1>4. CASE \E t \in Threads : LockOn(t)
  BY <1>4, LockOnKeeps
<1>5. CASE \E t \in Threads : TryOnFails(t)
  BY <1>5, TryKeeps
<1>6. CASE \E t \in Threads : \/ shs_process_lock_off(t)
                              \/ shs_process_rwlock_off(t)
  BY <1>0, <1>6, LockOffKeeps
  DEF shs_process_lock_off, shs_process_rwlock_off
<1>7. CASE \E t \in Threads : RestoreMask(t)
  BY <1>7, RestoreKeeps
<1>8. CASE \E t \in Threads : Die(t)
  BY <1>8, DieKeeps
<1>9. CASE shs_process_lock_reset \/ shs_process_rwlock_reset
  BY <1>0, <1>9, ResetKeeps DEF shs_process_lock_reset, shs_process_rwlock_reset
<1>10. CASE \E t \in Threads :
              \/ \E op \in {0} \cup held[t] : Enter(t, op)
              \/ Cas(t) \/ ReadHead(t) \/ mem_get(t) \/ mem_put(t)
              \/ SetHead(t) \/ AtomicOff(t)
  BY <1>10, BlockListKeeps
<1>11. CASE AtomicReset \/ UNCHANGED vars
  <2>1. UNCHANGED <<sig, pth, pc, dead>>
    BY <1>11 DEF AtomicReset, vars
  <2> QED
    BY <2>1 DEF MaskInv, Types, UsedExists, SavedOwn, QuietOwn, sig, pth,
                InUse, InCall, Owns, HoldsNone, Holds, Alive
<1> QED
  BY <1>1, <1>2, <1>3, <1>4, <1>5, <1>6, <1>7, <1>8, <1>9, <1>10, <1>11 DEF Next

(* A thread outside of every lock has its signals back, for any number of  *)
(* threads, until a call is made that spoils the saved mask                *)
(* (shs_process_lock_on, shs_process_lock_off).                            *)
THEOREM MaskRestoredAlways == Spec => []MaskRestored
<1>1. MaskInv => MaskRestored
  BY IdleIsQuiet DEF MaskInv, QuietOwn, MaskRestored, Owns
<1> QED BY <1>1, MaskInit, MaskStep, PTL DEF Spec

-----------------------------------------------------------------------------
(* The atomic lock. *)

Inside(t) == t \in Alive /\ pc[t][1] \in Critical

(* One thread that lives is between shs_atomic_lock_on and                 *)
(* shs_atomic_lock_off, and while one is the word is set.                  *)
OneInside ==
  \A t \in Threads : Inside(t) => word /\ \A u \in Threads : Inside(u) => u = t

ListInv == OneInside /\ DOMAIN pc = Threads

(* A step that changes pc for one thread, who was inside before if he is   *)
(* inside after it, with the word left as it was.                          *)
LEMMA SameInside ==
  ASSUME ListInv, NEW t \in Threads, NEW v,
         v[1] \in Critical => Inside(t),
         pc' = [pc EXCEPT ![t] = v], UNCHANGED <<dead, word>>
  PROVE ListInv'
<1>1. \A u \in Threads : Inside(u)' => Inside(u)
  BY DEF ListInv, Inside, Alive
<1> QED BY <1>1 DEF ListInv, OneInside

LEMMA InsideStep == ListInv /\ [Next]_vars => ListInv'
<1> SUFFICES ASSUME ListInv, [Next]_vars PROVE ListInv'
  OBVIOUS
<1> USE DEF Critical
<1>1. ASSUME NEW t \in Threads, NEW l, NEW call, Block(t, l, call)
      PROVE ListInv'
  BY <1>1, SameInside DEF Block, pool
<1>2. ASSUME NEW t \in Threads, NEW l, LockOff(t, l)
      PROVE ListInv'
  BY <1>2, SameInside DEF LockOff, pool
<1>3. ASSUME NEW t \in Threads, LockOn(t) \/ TryOnFails(t) \/ RestoreMask(t)
      PROVE ListInv'
  BY <1>3, SameInside DEF LockOn, TryOnFails, RestoreMask, pool, Idle
<1>4. ASSUME NEW t \in Threads, NEW op, Enter(t, op)
      PROVE ListInv'
  BY <1>4, SameInside DEF Enter
<1>5. ASSUME NEW t \in Threads, Cas(t)
      PROVE ListInv'
  <2>1. \A u \in Threads : ~Inside(u) BY <1>5 DEF Cas, ListInv, OneInside
  <2>2. \A u \in Threads : Inside(u)' => u = t
    BY <1>5, <2>1 DEF Cas, ListInv, Inside, Alive
  <2> QED BY <1>5, <2>2 DEF Cas, ListInv, OneInside
<1>6. ASSUME NEW t \in Threads, ReadHead(t)
      PROVE ListInv'
  <2>1. Inside(t) BY <1>6 DEF ReadHead, Inside
  <2> QED BY <1>6, <2>1, SameInside DEF ReadHead, pool
<1>7. ASSUME NEW t \in Threads, mem_get(t) \/ mem_put(t) \/ SetHead(t)
      PROVE ListInv'
  <2>1. Inside(t) BY <1>7 DEF mem_get, mem_put, SetHead, Inside
  <2> QED BY <1>7, <2>1, SameInside DEF mem_get, mem_put, SetHead
<1>8. ASSUME NEW t \in Threads, AtomicOff(t)
      PROVE ListInv'
  <2>1. Inside(t) BY <1>8 DEF AtomicOff, Inside
  <2>2. \A u \in Threads : ~Inside(u)'
    BY <1>8, <2>1 DEF AtomicOff, ListInv, OneInside, Inside, Alive, Idle
  <2> QED BY <1>8, <2>2 DEF AtomicOff, ListInv, OneInside
<1>9. CASE AtomicReset
  BY <1>9 DEF AtomicReset, ListInv, OneInside, Inside, Alive
<1>10. ASSUME NEW t \in Threads, Die(t)
       PROVE ListInv'
  <2>1. \A u \in Threads : Inside(u)' => Inside(u)
    BY <1>10 DEF Die, Inside, Alive
  <2> QED BY <1>10, <2>1 DEF Die, ListInv, OneInside, pool
<1>11. CASE \/ UNCHANGED vars
            \/ \E l \in Locks : Fresh(l) \/ Reset(l)
            \/ \E t \in Threads : \E l \in Locks : Destroy(t, l)
  <2>1. UNCHANGED <<pc, dead, word>>
    BY <1>11 DEF vars, pool, Fresh, Reset, Destroy
  <2> QED BY <2>1 DEF ListInv, OneInside, Inside, Alive
<1> QED
  BY <1>1, <1>2, <1>3, <1>4, <1>5, <1>6, <1>7, <1>8, <1>9, <1>10, <1>11
  DEF Next, Locks, shs_process_lock_create, shs_process_rwlock_create,
      shs_process_lock_release, shs_process_rwlock_release,
      shs_process_lock_on, shs_process_lock_try_on,
      shs_process_rwlock_read_on, shs_process_rwlock_write_on,
      shs_process_rwlock_write_try_on, shs_process_lock_off,
      shs_process_rwlock_off, shs_process_lock_reset,
      shs_process_rwlock_reset

(* Two threads that live are never inside the atomic lock together,        *)
(* whichever threads die and however often the lock is reset after them    *)
(* (shs_atomic_lock_on, shs_atomic_lock_off, shs_atomic_lock_reset).       *)
THEOREM OneInsideAlways == Spec => []OneInside
<1>1. Init => ListInv
  BY DEF Init, ListInv, OneInside, Inside, Idle, Critical
<1>2. ListInv => OneInside
  BY DEF ListInv
<1> QED BY <1>1, <1>2, InsideStep, PTL DEF Spec

-----------------------------------------------------------------------------
(* The block list.  The invariant speaks of every state, those with a      *)
(* thread inside, or dead inside, included: a thread that died in mem_put  *)
(* after it counted its block (pc "link") leaves the list whole, but the   *)
(* counts one off.                                                         *)

SigType ==
  /\ own \in [Threads -> SUBSET Signals] /\ mask \in [Threads -> SUBSET Signals]
  /\ prev \in [Locks -> SUBSET Signals]
  /\ readers \in [Locks -> SUBSET Threads] /\ writer \in [Locks -> SUBSET Threads]
  /\ unused \subseteq made /\ made \subseteq Locks /\ dead \subseteq Threads
FlagType == tainted \in BOOLEAN /\ word \in BOOLEAN
PcType ==
  /\ DOMAIN pc = Threads /\ pc = [t \in Threads |-> pc[t]]
  /\ \A t \in Threads :
       /\ pc[t][1] \in Places
       /\ pc[t][1] \in {"saved", "unlocked"} => pc[t][2] \in Locks
       /\ pc[t][1] \in {"spin", "in"} => pc[t][2] \in 0..Blocks
       /\ pc[t][1] = "link" => pc[t][2] \in 1..Blocks
ListType ==
  /\ next \in [1..Blocks -> 0..(Blocks + 1)] /\ head \in 0..(Blocks + 1)
  /\ held \in [Threads -> SUBSET (1..Blocks)]

(* The block a thread is giving back, the blocks it has, and those whose   *)
(* thread has counted them but not yet put them at the head.               *)
Carried(t) == IF pc[t][1] \in {"spin", "in", "link"} THEN {pc[t][2]} \ {0} ELSE {}
Mine(t) == held[t] \cup Carried(t)
Away == UNION {Mine(t) : t \in Threads}
Linking == {b \in 1..Blocks :
              \E t \in Threads : pc[t][1] = "link" /\ pc[t][2] = b}

(* No block is with two threads. *)
Apart ==
  /\ \A t \in Threads : held[t] \cap Carried(t) = {}
  /\ \A t, u \in Threads : t # u => Mine(t) \cap Mine(u) = {}

(* q names the n blocks of the set S in the order of the list. *)
IsList(q, n, S) ==
  /\ q \in [1..n -> S]
  /\ \A b \in S : \E i \in 1..n : q[i] = b
  /\ \A i, j \in 1..n : q[i] = q[j] => i = j
  /\ n > 0 => q[1] = head
  /\ \A i \in 1..(n - 1) : q[i + 1] = next[q[i]]
  /\ n = 0 => head = Blocks + 1
  /\ n > 0 => next[q[n]] = Blocks + 1
Listed ==
  \E n \in Nat : \E q : /\ IsList(q, n, (1..Blocks) \ Away)
                        /\ cold = n + Cardinality(Linking)

Counted == hot = Cardinality(Away \ Linking) /\ cold = Blocks - hot

(* What a thread inside has read is still so. *)
Seen ==
  \A t \in Alive :
    /\ pc[t][1] = "pop" => pc[t][2] = head
    /\ pc[t][1] = "link" => next[pc[t][2]] = head

PoolInv == /\ SigType /\ FlagType /\ PcType /\ ListType /\ ListInv
           /\ Apart /\ Listed /\ Counted /\ Seen

LEMMA AwayFinite ==
  ASSUME PcType, ListType
  PROVE  /\ Away \subseteq 1..Blocks /\ Linking \subseteq Away
         /\ IsFiniteSet(Away) /\ IsFiniteSet(Linking) /\ IsFiniteSet(Away \ Linking)
         /\ Cardinality(Away) \in 0..Blocks /\ Cardinality(Linking) \in Nat
         /\ Cardinality(Away \ Linking) \in Nat
         /\ Cardinality(Away \ Linking) = Cardinality(Away) - Cardinality(Linking)
<1>0. Blocks \in Nat
  BY LocksAssumption
<1>1. \A t \in Threads : Carried(t) \subseteq 1..Blocks
  BY <1>0 DEF PcType, Carried
<1>2. Away \subseteq 1..Blocks
  BY <1>1 DEF ListType, Away, Mine
<1>3. Linking \subseteq Away
  BY <1>0 DEF Linking, Away, Mine, Carried
<1>4. IsFiniteSet(1..Blocks) /\ Cardinality(1..Blocks) = Blocks
  <2>1. Blocks \in Int /\ 1 \in Int /\ (1 > Blocks => Blocks = 0) /\ Blocks - 1 + 1 = Blocks
    BY <1>0
  <2> QED BY <2>1, FS_Interval
<1>5. IsFiniteSet(Away) /\ Cardinality(Away) <= Blocks
  BY <1>2, <1>4, FS_Subset
<1>6. IsFiniteSet(Linking)
  BY <1>3, <1>5, FS_Subset
<1>7. Cardinality(Away) \in Nat /\ Cardinality(Linking) \in Nat
  BY <1>5, <1>6, FS_CardinalityType
<1>8. /\ IsFiniteSet(Away \ Linking)
      /\ Cardinality(Away \ Linking)
           = Cardinality(Away) - Cardinality(Away \cap Linking)
  BY <1>5, <1>6, FS_Difference
<1>9. Away \cap Linking = Linking
  BY <1>3
<1>10. Cardinality(Away \ Linking) \in Nat
  BY <1>8, FS_CardinalityType
<1>11. Cardinality(Away) \in 0..Blocks
  BY <1>0, <1>5, <1>7
<1> QED BY <1>2, <1>3, <1>5, <1>6, <1>7, <1>8, <1>9, <1>10, <1>11

(* A step that leaves the list alone, and with every thread its blocks. *)
LEMMA ListSame ==
  ASSUME PoolInv, UNCHANGED <<head, next, cold, hot>>,
         \A u \in Threads : Mine(u)' = Mine(u) /\ held'[u] \cap Carried(u)' = {},
         Linking' = Linking
  PROVE  Apart' /\ Listed' /\ Counted'
<1>1. Away' = Away
  BY DEF Away
<1>2. Apart'
  BY DEF PoolInv, Apart
<1>3. \A q, n, S : IsList(q, n, S)' <=> IsList(q, n, S)
  BY DEF IsList
<1>4. Listed'
  BY <1>1, <1>3 DEF PoolInv, Listed
<1>5. Counted'
  BY <1>1 DEF PoolInv, Counted
<1> QED BY <1>2, <1>4, <1>5

(* A step of one thread, to a place other than "link". *)
LEMMA PlaceSame ==
  ASSUME PoolInv, NEW t \in Threads, NEW v,
         pc' = [pc EXCEPT ![t] = v], UNCHANGED <<head, next, cold, hot, dead>>,
         pc[t][1] # "link", v[1] # "link", v[1] = "pop" => v[2] = head,
         \A u \in Threads \ {t} : held'[u] = held[u],
         Mine(t)' = Mine(t), held'[t] \cap Carried(t)' = {}
  PROVE  Apart' /\ Listed' /\ Counted' /\ Seen'
<1>1. pc'[t] = v /\ \A u \in Threads \ {t} : pc'[u] = pc[u]
  BY DEF PoolInv, PcType
<1>2. \A u \in Threads \ {t} : Carried(u)' = Carried(u)
  BY <1>1 DEF Carried
<1>3. \A u \in Threads : Mine(u)' = Mine(u) /\ held'[u] \cap Carried(u)' = {}
  BY <1>2 DEF PoolInv, Apart, Mine
<1>4. Linking' = Linking
  BY <1>1 DEF Linking
<1>5. Apart' /\ Listed' /\ Counted'
  BY <1>3, <1>4, ListSame
<1>6. Seen'
  BY <1>1 DEF PoolInv, Seen, Alive
<1> QED BY <1>5, <1>6

(* A step that leaves pc and the list alone. *)
LEMMA PoolSame ==
  ASSUME PoolInv, UNCHANGED <<pc, head, next, cold, hot, held>>, dead \subseteq dead'
  PROVE  ListType' /\ PcType' /\ Apart' /\ Listed' /\ Counted' /\ Seen'
<1>1. \A u \in Threads : Carried(u)' = Carried(u) /\ Mine(u)' = Mine(u)
  BY DEF Carried, Mine
<1>2. Linking' = Linking
  BY DEF Linking
<1>3. Apart' /\ Listed' /\ Counted'
  BY <1>1, <1>2, ListSame DEF PoolInv, Apart
<1>4. Seen'
  BY DEF PoolInv, Seen, Alive
<1>5. ListType' /\ PcType'
  BY DEF PoolInv, ListType, PcType
<1> QED BY <1>3, <1>4, <1>5

(* The first of n blocks is taken off. *)
LEMMA PopList ==
  ASSUME NEW S, NEW n \in Nat, NEW q, IsList(q, n, S), n > 0,
         S \subseteq 1..Blocks, NEW b, b = head,
         next \in [1..Blocks -> 0..(Blocks + 1)],
         head' = next[b], next' = [next EXCEPT ![b] = 0]
  PROVE  \E r : IsList(r, n - 1, S \ {b})'
<1> DEFINE r == [i \in 1..(n - 1) |-> q[i + 1]]
<1>1. /\ q \in [1..n -> S] /\ q[1] = b /\ 1 \in 1..n
      /\ \A c \in S : \E i \in 1..n : q[i] = c
      /\ \A i, j \in 1..n : q[i] = q[j] => i = j
      /\ \A i \in 1..(n - 1) : q[i + 1] = next[q[i]]
      /\ next[q[n]] = Blocks + 1
  BY DEF IsList
<1>2. \A i \in 1..(n - 1) : i + 1 \in 1..n /\ i + 1 # 1
  OBVIOUS
<1>3. \A i \in 1..(n - 1) : r[i] \in S /\ r[i] # b
  BY <1>1, <1>2
<1>4. r \in [1..(n - 1) -> S \ {b}]
  BY <1>3
<1>5. \A c \in S \ {b} : next'[c] = next[c]
  OBVIOUS
<1>6. ASSUME NEW c \in S \ {b} PROVE \E i \in 1..(n - 1) : r[i] = c
  <2>1. PICK i \in 1..n : q[i] = c
    BY <1>1
  <2>2. i - 1 \in 1..(n - 1) /\ (i - 1) + 1 = i
    BY <1>1, <2>1
  <2>3. r[i - 1] = c
    BY <2>1, <2>2
  <2> QED BY <2>2, <2>3
<1>7. \A i, j \in 1..(n - 1) : r[i] = r[j] => i = j
  <2> TAKE i, j \in 1..(n - 1)
  <2> HAVE r[i] = r[j]
  <2>1. i + 1 = j + 1
    BY <1>1, <1>2
  <2> QED BY <2>1
<1>8. n - 1 > 0 => r[1] = head'
  BY <1>1
<1>9. \A i \in 1..(n - 1 - 1) : r[i + 1] = next'[r[i]]
  <2> TAKE i \in 1..(n - 1 - 1)
  <2>1. i \in 1..(n - 1) /\ i + 1 \in 1..(n - 1)
    OBVIOUS
  <2>2. r[i + 1] = next[q[i + 1]] /\ r[i] = q[i + 1]
    BY <1>1, <2>1
  <2> QED BY <1>3, <1>5, <2>1, <2>2
<1>10. n - 1 = 0 => head' = Blocks + 1
  BY <1>1
<1>11. n - 1 > 0 => next'[r[n - 1]] = Blocks + 1
  <2> HAVE n - 1 > 0
  <2>1. n - 1 \in 1..(n - 1) /\ (n - 1) + 1 = n
    OBVIOUS
  <2>2. r[n - 1] = q[n]
    BY <2>1
  <2>3. next'[q[n]] = next[q[n]]
    BY <1>3, <1>5, <2>1, <2>2
  <2> QED BY <1>1, <2>2, <2>3
<1> HIDE DEF r
<1>12. IsList(r, n - 1, S \ {b})'
  BY <1>4, <1>6, <1>7, <1>8, <1>9, <1>10, <1>11, SMTT(30) DEF IsList
<1> QED BY <1>12

(* A block that is not on the list, and whose link is the head, is put     *)
(* before the others.                                                      *)
LEMMA PushList ==
  ASSUME NEW S, NEW n \in Nat, NEW q, IsList(q, n, S), NEW b \in 1..Blocks,
         b \notin S, next[b] = head, UNCHANGED next, head' = b
  PROVE  \E r : IsList(r, n + 1, S \cup {b})'
<1> DEFINE r == [i \in 1..(n + 1) |-> IF i = 1 THEN b ELSE q[i - 1]]
<1>1. /\ q \in [1..n -> S]
      /\ \A c \in S : \E i \in 1..n : q[i] = c
      /\ \A i, j \in 1..n : q[i] = q[j] => i = j
      /\ n > 0 => q[1] = head
      /\ \A i \in 1..(n - 1) : q[i + 1] = next[q[i]]
      /\ n = 0 => head = Blocks + 1
      /\ n > 0 => next[q[n]] = Blocks + 1
  BY DEF IsList
<1>2. \A i \in 1..(n + 1) : i = 1 \/ i - 1 \in 1..n
  OBVIOUS
<1>3. /\ 1 \in 1..(n + 1) /\ r[1] = b
      /\ \A i \in 1..n : i + 1 \in 1..(n + 1) /\ r[i + 1] = q[i]
  <2>1. 1 \in 1..(n + 1) /\ r[1] = b
    OBVIOUS
  <2>2. \A i \in 1..n : i + 1 \in 1..(n + 1) /\ i + 1 # 1 /\ (i + 1) - 1 = i
    OBVIOUS
  <2> QED BY <2>1, <2>2
<1>4. r \in [1..(n + 1) -> S \cup {b}]
  BY <1>1, <1>2
<1>5. \A i \in 1..(n + 1) : i # 1 => i - 1 \in 1..n /\ r[i] = q[i - 1] /\ r[i] \in S
  BY <1>1, <1>2
<1> HIDE DEF r
<1>6. \A c \in S \cup {b} : \E i \in 1..(n + 1) : r[i] = c
  BY <1>1, <1>3
<1>7. \A i, j \in 1..(n + 1) : r[i] = r[j] => i = j
  <2> TAKE i, j \in 1..(n + 1)
  <2> HAVE r[i] = r[j]
  <2>1. CASE i = 1 \/ j = 1
    BY <1>3, <1>5, <2>1
  <2>2. CASE i # 1 /\ j # 1
    <3>1. i - 1 = j - 1
      BY <1>1, <1>5, <2>2
    <3> QED BY <3>1
  <2> QED BY <2>1, <2>2
<1>8. \A i \in 1..(n + 1 - 1) : r[i + 1] = next'[r[i]]
  <2> TAKE i \in 1..(n + 1 - 1)
  <2>1. i \in 1..n /\ r[i + 1] = q[i]
    BY <1>3
  <2>2. CASE i = 1
    BY <1>1, <1>3, <2>1, <2>2
  <2>3. CASE i # 1
    <3>1. i - 1 \in 1..(n - 1) /\ (i - 1) + 1 = i /\ r[i] = q[i - 1]
      BY <1>5, <2>1, <2>3
    <3> QED BY <1>1, <2>1, <3>1
  <2> QED BY <2>2, <2>3
<1>9. next'[r[n + 1]] = Blocks + 1
  <2>1. CASE n = 0
    BY <1>1, <1>3, <2>1
  <2>2. CASE n > 0
    <3>1. n \in 1..n /\ r[n + 1] = q[n]
      BY <1>3, <2>2
    <3> QED BY <1>1, <2>2, <3>1
  <2> QED BY <2>1, <2>2
<1>10. n + 1 > 0 /\ n + 1 # 0
  OBVIOUS
<1>11. IsList(r, n + 1, S \cup {b})'
  BY <1>3, <1>4, <1>6, <1>7, <1>8, <1>9, <1>10, SMTT(30) DEF IsList
<1> QED BY <1>11

(* The types of the masks and of the pthread objects. *)
LEMMA SigTypeStep ==
  ASSUME SigType, PcType, [Next]_vars PROVE SigType'
<1>0. "process" \in Locks /\ "rw" \in Locks /\ "blk" \in Signals
  BY DEF Locks, Signals
<1>1. ASSUME NEW l \in Locks, Fresh(l) PROVE SigType'
  <2>1. PICK m \in SUBSET Signals : prev' = [prev EXCEPT ![l] = m]
    BY <1>1 DEF Fresh
  <2> QED BY <1>1, <2>1 DEF Fresh, SigType
<1>2. ASSUME NEW t \in Threads, NEW l \in Locks, Destroy(t, l) PROVE SigType'
  <2>1. mask' \in [Threads -> SUBSET Signals]
    BY <1>2 DEF Destroy, SigType
  <2> QED BY <1>2, <2>1 DEF Destroy, SigType
<1>3. ASSUME NEW t \in Threads, NEW l \in Locks, NEW call, Block(t, l, call)
      PROVE  SigType'
  <2>1. mask[t] \in SUBSET Signals /\ mask[t] \cup {"blk"} \in SUBSET Signals
    BY <1>0 DEF SigType
  <2>2. mask' \in [Threads -> SUBSET Signals] /\ prev' \in [Locks -> SUBSET Signals]
    BY <1>3, <2>1 DEF Block, SigType
  <2> QED BY <1>3, <2>2 DEF Block, SigType
<1>4. ASSUME NEW t \in Threads, LockOn(t) PROVE SigType'
  <2>1. UNCHANGED <<own, mask, prev, made, unused, dead>>
    BY <1>4 DEF LockOn, sig
  <2>2. PICK l : l = pc[t][2]
    OBVIOUS
  <2>3. l \in Locks
    BY <1>4, <2>2 DEF LockOn, PcType
  <2>4. CASE pc[t][3] = "read_on"
    <3>1. readers' = [readers EXCEPT ![l] = readers[l] \cup {t}] /\ writer' = writer
      BY <1>4, <2>2, <2>4 DEF LockOn
    <3> QED BY <2>1, <2>3, <3>1 DEF SigType
  <2>5. CASE pc[t][3] # "read_on"
    <3>1. writer' = [writer EXCEPT ![l] = {t}] /\ readers' = readers
      BY <1>4, <2>2, <2>5 DEF LockOn
    <3> QED BY <2>1, <2>3, <3>1 DEF SigType
  <2> QED BY <2>4, <2>5
<1>5. ASSUME NEW t \in Threads, NEW l \in Locks, LockOff(t, l) PROVE SigType'
  BY <1>5 DEF LockOff, SigType, sig
<1>6. ASSUME NEW t \in Threads, RestoreMask(t) PROVE SigType'
  <2>1. prev[pc[t][2]] \in SUBSET Signals
    BY <1>6 DEF RestoreMask, PcType, SigType
  <2>2. mask' \in [Threads -> SUBSET Signals]
    BY <1>6, <2>1 DEF RestoreMask, SigType
  <2> QED BY <1>6, <2>2 DEF RestoreMask, SigType, pth
<1>7. ASSUME NEW t \in Threads, Die(t) PROVE SigType'
  BY <1>7 DEF Die, SigType, sig, pth
<1>8. ASSUME NEW l \in Locks, Reset(l) PROVE SigType'
  BY <1>8 DEF Reset, SigType, sig
<1>9. CASE \/ \E t \in Threads :
                \/ TryOnFails(t) \/ Cas(t) \/ ReadHead(t) \/ mem_get(t)
                \/ mem_put(t) \/ SetHead(t) \/ AtomicOff(t)
                \/ \E op \in {0} \cup held[t] : Enter(t, op)
           \/ AtomicReset \/ UNCHANGED vars
  <2>1. UNCHANGED <<own, mask, prev, made, readers, writer, unused, dead>>
    BY <1>9 DEF TryOnFails, Cas, ReadHead, mem_get, mem_put, SetHead, AtomicOff,
      Enter, AtomicReset, vars, sig, pth
  <2> QED BY <2>1 DEF SigType
<1> QED
  BY <1>0, <1>1, <1>2, <1>3, <1>4, <1>5, <1>6, <1>7, <1>8, <1>9
  DEF Next, shs_process_lock_create, shs_process_rwlock_create,
      shs_process_lock_release, shs_process_rwlock_release,
      shs_process_lock_on, shs_process_lock_try_on,
      shs_process_rwlock_read_on, shs_process_rwlock_write_on,
      shs_process_rwlock_write_try_on, shs_process_lock_off,
      shs_process_rwlock_off, shs_process_lock_reset,
      shs_process_rwlock_reset

LEMMA FlagTypeStep == FlagType /\ [Next]_vars => FlagType'
  BY DEF FlagType, Next, vars, sig, pth, pool, Fresh, Destroy, Block, LockOn,
      TryOnFails, LockOff, RestoreMask, Die, Reset, Enter, Cas, ReadHead,
      mem_get, mem_put, SetHead, AtomicOff, AtomicReset,
      shs_process_lock_create, shs_process_rwlock_create,
      shs_process_lock_release, shs_process_rwlock_release,
      shs_process_lock_on, shs_process_lock_try_on,
      shs_process_rwlock_read_on, shs_process_rwlock_write_on,
      shs_process_rwlock_write_try_on, shs_process_lock_off,
      shs_process_rwlock_off, shs_process_lock_reset,
      shs_process_rwlock_reset

(* What a thread may be set to. *)
PlaceType(v) ==
  /\ v[1] \in Places
  /\ v[1] \in {"saved", "unlocked"} => v[2] \in Locks
  /\ v[1] \in {"spin", "in"} => v[2] \in 0..Blocks
  /\ v[1] = "link" => v[2] \in 1..Blocks

LEMMA PcTypeSet ==
  ASSUME PcType, NEW t \in Threads, NEW v, PlaceType(v),
         pc' = [pc EXCEPT ![t] = v]
  PROVE  PcType'
<1>1. pc'[t] = v /\ \A u \in Threads \ {t} : pc'[u] = pc[u]
  BY DEF PcType
<1>2. \A u \in Threads : PlaceType(pc'[u])
  BY <1>1 DEF PcType, PlaceType
<1>3. DOMAIN pc' = Threads /\ pc' = [u \in Threads |-> pc'[u]]
  BY DEF PcType
<1> QED BY <1>2, <1>3 DEF PcType, PlaceType

(* The calls of the process lock and the read-write lock. *)
LEMMA LockCallsPool ==
  ASSUME PoolInv, NEW t \in Threads,
         \/ \E l \in Locks : LockOff(t, l) \/ \E call : Block(t, l, call)
         \/ LockOn(t) \/ TryOnFails(t) \/ RestoreMask(t)
  PROVE  ListType' /\ PcType' /\ Apart' /\ Listed' /\ Counted' /\ Seen'
<1>1. PICK v : /\ pc' = [pc EXCEPT ![t] = v] /\ PlaceType(v)
               /\ v[1] \in {"saved", "unlocked", "idle"}
  <2>1. CASE \E l \in Locks : LockOff(t, l)
    <3>1. PICK l \in Locks : pc' = [pc EXCEPT ![t] = <<"unlocked", l>>]
      BY <2>1 DEF LockOff
    <3>2. PICK w : w = <<"unlocked", l>>
      OBVIOUS
    <3>3. PlaceType(w) /\ w[1] \in {"saved", "unlocked", "idle"}
      BY <3>2 DEF PlaceType, Places
    <3> QED BY <3>1, <3>2, <3>3
  <2>2. CASE \E l \in Locks : \E call : Block(t, l, call)
    <3>1. PICK l, call : l \in Locks /\ pc' = [pc EXCEPT ![t] = <<"saved", l, call>>]
      BY <2>2 DEF Block
    <3>2. PICK w : w = <<"saved", l, call>>
      OBVIOUS
    <3>3. PlaceType(w) /\ w[1] \in {"saved", "unlocked", "idle"}
      BY <3>1, <3>2 DEF PlaceType, Places
    <3> QED BY <3>1, <3>2, <3>3
  <2>3. CASE LockOn(t) \/ TryOnFails(t) \/ RestoreMask(t)
    <3>1. pc' = [pc EXCEPT ![t] = <<"idle">>]
      BY <2>3 DEF LockOn, TryOnFails, RestoreMask, Idle
    <3>2. PICK w : w = <<"idle">>
      OBVIOUS
    <3>3. PlaceType(w) /\ w[1] \in {"saved", "unlocked", "idle"}
      BY <3>2 DEF PlaceType, Places
    <3> QED BY <3>1, <3>2, <3>3
  <2> QED BY <2>1, <2>2, <2>3
<1>2. /\ pc[t][1] \in {"saved", "unlocked", "idle"}
      /\ UNCHANGED <<head, next, cold, hot, held, dead>>
  BY DEF LockOff, Block, LockOn, TryOnFails, RestoreMask, Ready, Idle, pool
<1>3. Carried(t) = {} /\ Carried(t)' = {}
  BY <1>1, <1>2 DEF Carried, PoolInv, PcType
<1>4. Mine(t)' = Mine(t) /\ held'[t] \cap Carried(t)' = {}
  BY <1>2, <1>3 DEF Mine
<1>5. Apart' /\ Listed' /\ Counted' /\ Seen'
  BY <1>1, <1>2, <1>4, PlaceSame
<1> QED BY <1>1, <1>2, <1>5, PcTypeSet DEF PoolInv, ListType

(* A thread enters the lock of the list, and leaves it. *)
LEMMA EnterPool ==
  ASSUME PoolInv, NEW t \in Threads, NEW op \in {0} \cup held[t], Enter(t, op)
  PROVE  ListType' /\ PcType' /\ Apart' /\ Listed' /\ Counted' /\ Seen'
<1>0. Blocks \in Nat
  BY LocksAssumption
<1>1. /\ pc[t] = <<"idle">> /\ pc' = [pc EXCEPT ![t] = <<"spin", op>>]
      /\ held' = [held EXCEPT ![t] = held[t] \ {op}]
      /\ UNCHANGED <<head, next, cold, hot, dead>>
  BY DEF Enter, Ready, Idle
<1>2. op \in 0..Blocks /\ (op # 0 => op \in held[t]) /\ 0 \notin held[t]
  BY <1>0 DEF PoolInv, ListType
<1>3. held'[t] = held[t] \ {op} /\ \A u \in Threads \ {t} : held'[u] = held[u]
  BY <1>1 DEF PoolInv, ListType
<1>4. Carried(t) = {} /\ Carried(t)' = {op} \ {0}
  BY <1>1 DEF Carried, PoolInv, PcType
<1>5. Mine(t)' = Mine(t) /\ held'[t] \cap Carried(t)' = {}
  BY <1>2, <1>3, <1>4 DEF Mine
<1>6. Apart' /\ Listed' /\ Counted' /\ Seen'
  <2>1. /\ pc[t][1] # "link" /\ <<"spin", op>>[1] # "link"
        /\ <<"spin", op>>[1] # "pop"
    BY <1>1
  <2> QED BY <1>1, <1>3, <1>5, <2>1, PlaceSame
<1>7. ListType'
  BY <1>1, <1>2 DEF PoolInv, ListType
<1>8. PlaceType(<<"spin", op>>)
  BY <1>2 DEF PlaceType, Places
<1> QED BY <1>1, <1>6, <1>7, <1>8, PcTypeSet DEF PoolInv

LEMMA InsidePool ==
  ASSUME PoolInv, NEW t \in Threads, Cas(t) \/ ReadHead(t) \/ AtomicOff(t)
  PROVE  ListType' /\ PcType' /\ Apart' /\ Listed' /\ Counted' /\ Seen'
<1>1. UNCHANGED <<head, next, cold, hot, held, dead>>
  BY DEF Cas, ReadHead, AtomicOff, pool
<1>2. PICK v : /\ pc' = [pc EXCEPT ![t] = v] /\ PlaceType(v) /\ v[1] # "link"
               /\ pc[t][1] # "link"
               /\ v[1] = "pop" => v[2] = head
               /\ Carried(t)' = Carried(t)
  <2>1. CASE Cas(t)
    <3>1. pc[t][1] = "spin" /\ pc' = [pc EXCEPT ![t] = <<"in", pc[t][2]>>]
      BY <2>1 DEF Cas
    <3>2. PlaceType(<<"in", pc[t][2]>>)
      BY <3>1 DEF PlaceType, Places, PoolInv, PcType
    <3>3. pc'[t] = <<"in", pc[t][2]>>
      BY <3>1 DEF PoolInv, PcType
    <3>4. Carried(t)' = Carried(t)
      BY <3>1, <3>3 DEF Carried
    <3> QED BY <3>1, <3>2, <3>4
  <2>2. CASE ReadHead(t)
    <3>1. PICK v \in {<<"out">>, <<"pop", head>>} : pc' = [pc EXCEPT ![t] = v]
      BY <2>2 DEF ReadHead
    <3>2. pc[t] = <<"in", 0>>
      BY <2>2 DEF ReadHead
    <3>3. PlaceType(v) /\ v[1] \in {"out", "pop"} /\ (v[1] = "pop" => v[2] = head)
      BY <3>1 DEF PlaceType, Places
    <3>4. pc'[t] = v
      BY <3>1 DEF PoolInv, PcType
    <3>5. Carried(t)' = {} /\ Carried(t) = {}
      BY <3>2, <3>3, <3>4 DEF Carried
    <3>6. pc[t][1] # "link" /\ v[1] # "link"
      BY <3>2, <3>3
    <3> QED BY <3>1, <3>3, <3>5, <3>6
  <2>3. CASE AtomicOff(t)
    <3>1. PICK w : w = <<"idle">>
      OBVIOUS
    <3>2. pc[t] = <<"out">> /\ pc' = [pc EXCEPT ![t] = w]
      BY <2>3, <3>1 DEF AtomicOff, Idle
    <3>3. PlaceType(w) /\ w[1] = "idle"
      BY <3>1 DEF PlaceType, Places
    <3>4. pc'[t] = w
      BY <3>2 DEF PoolInv, PcType
    <3>5. Carried(t)' = {} /\ Carried(t) = {}
      BY <3>2, <3>3, <3>4 DEF Carried
    <3>6. pc[t][1] # "link" /\ w[1] # "link" /\ w[1] # "pop"
      BY <3>2, <3>3
    <3> QED BY <3>2, <3>3, <3>5, <3>6
  <2> QED BY <2>1, <2>2, <2>3
<1>3. Mine(t)' = Mine(t) /\ held'[t] \cap Carried(t)' = {}
  BY <1>1, <1>2 DEF Mine, PoolInv, Apart
<1>4. Apart' /\ Listed' /\ Counted' /\ Seen'
  BY <1>1, <1>2, <1>3, PlaceSame
<1> QED BY <1>1, <1>2, <1>4, PcTypeSet DEF PoolInv, ListType

(* A thread that lives and is inside is the only one: the others' pc is    *)
(* neither "pop" nor "link" unless they are dead.                          *)
LEMMA OthersOut ==
  ASSUME ListInv, NEW t \in Alive, t \in Threads, pc[t][1] \in Critical
  PROVE  \A u \in Alive \ {t} : pc[u][1] \notin Critical
  BY DEF ListInv, OneInside, Inside, Alive

LEMMA MemGetPool ==
  ASSUME PoolInv, NEW t \in Threads, mem_get(t)
  PROVE  ListType' /\ PcType' /\ Apart' /\ Listed' /\ Counted' /\ Seen'
<1>0. Blocks \in Nat
  BY LocksAssumption
<1>1. PICK b \in 1..Blocks :
        /\ b = pc[t][2] /\ pc[t][1] = "pop" /\ t \in Alive
        /\ head' = next[b] /\ next' = [next EXCEPT ![b] = 0]
        /\ hot' = hot + 1 /\ cold' = cold - 1
        /\ held' = [held EXCEPT ![t] = held[t] \cup {b}]
        /\ pc' = [pc EXCEPT ![t] = <<"out">>]
        /\ dead' = dead
  BY DEF mem_get
<1>2. b = head
  BY <1>1 DEF PoolInv, Seen
<1>3. PICK n, q : /\ n \in Nat /\ IsList(q, n, (1..Blocks) \ Away)
                  /\ cold = n + Cardinality(Linking)
  BY DEF PoolInv, Listed
<1>4. n > 0 /\ b \notin Away
  BY <1>0, <1>2, <1>3 DEF IsList
<1>5. /\ pc'[t] = <<"out">> /\ \A u \in Threads \ {t} : pc'[u] = pc[u]
      /\ held'[t] = held[t] \cup {b}
      /\ \A u \in Threads \ {t} : held'[u] = held[u]
  BY <1>1 DEF PoolInv, PcType, ListType
<1>6. /\ Carried(t) = {} /\ Carried(t)' = {} /\ Mine(t)' = Mine(t) \cup {b}
      /\ \A u \in Threads \ {t} : Carried(u)' = Carried(u) /\ Mine(u)' = Mine(u)
  BY <1>1, <1>5 DEF Carried, Mine
<1>7. Away' = Away \cup {b} /\ Linking' = Linking /\ b \notin Linking
  <2>1. Away' = Away \cup {b}
    BY <1>6 DEF Away
  <2>2. Linking' = Linking
    BY <1>1, <1>5 DEF Linking
  <2>3. Linking \subseteq Away
    BY AwayFinite DEF PoolInv
  <2> QED BY <1>4, <2>1, <2>2, <2>3
<1>8. ListType' /\ PcType'
  <2>1. next[b] \in 0..(Blocks + 1) /\ 0 \in 0..(Blocks + 1)
    BY <1>0 DEF PoolInv, ListType
  <2>2. PlaceType(<<"out">>)
    BY DEF PlaceType, Places
  <2> QED BY <1>1, <2>1, <2>2, PcTypeSet DEF PoolInv, ListType
<1>9. Apart'
  <2>1. \A u \in Threads : b \notin Mine(u)
    BY <1>4 DEF Away
  <2> QED BY <1>5, <1>6, <2>1 DEF PoolInv, Apart
<1>10. Listed'
  <2>1. \E r : IsList(r, n - 1, ((1..Blocks) \ Away) \ {b})'
    <3> DEFINE S == (1..Blocks) \ Away
    <3>1. PICK T : T = S
      OBVIOUS
    <3>2. \E r : IsList(r, n - 1, T \ {b})'
      BY <1>1, <1>2, <1>3, <1>4, <3>1, PopList DEF PoolInv, ListType
    <3>3. T \ {b} = (1..Blocks) \ Away'
      BY <1>7, <3>1
    <3>4. ((1..Blocks) \ Away') \ {b} = T \ {b}
      BY <3>3
    <3> QED BY <3>2, <3>4 DEF IsList
  <2>2. ((1..Blocks) \ Away') \ {b} = (1..Blocks) \ Away'
    BY <1>7
  <2>3. \E r : IsList(r, n - 1, (1..Blocks) \ Away)'
    BY <2>1, <2>2 DEF IsList
  <2>4. n - 1 \in Nat /\ cold' = (n - 1) + Cardinality(Linking)'
    BY <1>1, <1>3, <1>4, <1>7, AwayFinite DEF PoolInv
  <2> QED BY <2>3, <2>4 DEF Listed
<1>11. Counted'
  <2>1. Away' \ Linking' = (Away \ Linking) \cup {b} /\ b \notin Away \ Linking
    BY <1>4, <1>7
  <2>2. Cardinality(Away' \ Linking') = Cardinality(Away \ Linking) + 1
    BY <2>1, AwayFinite, FS_AddElement DEF PoolInv
  <2>3. hot' = Cardinality(Away' \ Linking')
    BY <1>1, <2>2 DEF PoolInv, Counted
  <2>4. cold' = Blocks - hot'
    BY <1>0, <1>1, AwayFinite DEF PoolInv, Counted
  <2> QED BY <2>3, <2>4 DEF Counted
<1>12. Seen'
  <2>1. \A u \in Alive \ {t} : pc[u][1] \notin {"pop", "link"}
    BY <1>1, OthersOut DEF PoolInv, Critical
  <2> QED BY <1>1, <1>5, <2>1 DEF Seen, Alive
<1> QED BY <1>8, <1>9, <1>10, <1>11, <1>12

LEMMA MemPutPool ==
  ASSUME PoolInv, NEW t \in Threads, mem_put(t)
  PROVE  ListType' /\ PcType' /\ Apart' /\ Listed' /\ Counted' /\ Seen'
<1>0. Blocks \in Nat
  BY LocksAssumption
<1>1. PICK b \in 1..Blocks :
        /\ b = pc[t][2] /\ pc[t][1] = "in" /\ t \in Alive
        /\ hot' = hot - 1 /\ cold' = cold + 1
        /\ next' = [next EXCEPT ![b] = head]
        /\ pc' = [pc EXCEPT ![t] = <<"link", b>>]
        /\ UNCHANGED <<dead, head, held>>
  <2>1. pc[t][2] \in 1..Blocks
    BY <1>0 DEF mem_put, PoolInv, PcType
  <2> QED BY <2>1 DEF mem_put
<1>2. pc'[t] = <<"link", b>> /\ \A u \in Threads \ {t} : pc'[u] = pc[u]
  BY <1>1 DEF PoolInv, PcType
<1>3. /\ b \in Carried(t) /\ Carried(t)' = Carried(t)
      /\ \A u \in Threads : Mine(u)' = Mine(u) /\ Carried(u)' = Carried(u)
  <2>1. Carried(t) = {b}
    BY <1>0, <1>1 DEF Carried
  <2>2. Carried(t)' = {b}
    BY <1>0, <1>2 DEF Carried
  <2>3. \A u \in Threads \ {t} : Carried(u)' = Carried(u)
    BY <1>2 DEF Carried
  <2>4. \A u \in Threads : Carried(u)' = Carried(u)
    BY <2>1, <2>2, <2>3
  <2> QED BY <1>1, <2>1, <2>4 DEF Mine
<1>4. Away' = Away /\ b \in Away
  BY <1>3 DEF Away, Mine
<1>5. Linking' = Linking \cup {b} /\ b \notin Linking
  <2>1. Linking' = Linking \cup {b}
    BY <1>1, <1>2 DEF Linking
  <2>2. ASSUME NEW u \in Threads, pc[u][1] = "link", pc[u][2] = b PROVE FALSE
    <3>1. u # t /\ b \in Mine(u) /\ b \in Mine(t)
      BY <1>0, <1>1, <1>3, <2>2 DEF Mine, Carried
    <3> QED BY <3>1 DEF PoolInv, Apart
  <2> QED BY <2>1, <2>2 DEF Linking
<1>6. ListType' /\ PcType'
  <2>1. PlaceType(<<"link", b>>)
    BY DEF PlaceType, Places
  <2> QED BY <1>1, <2>1, PcTypeSet DEF PoolInv, ListType
<1>7. Apart'
  BY <1>1, <1>3 DEF PoolInv, Apart
<1>8. Listed'
  <2>1. PICK n, q : /\ n \in Nat /\ IsList(q, n, (1..Blocks) \ Away)
                    /\ cold = n + Cardinality(Linking)
    BY DEF PoolInv, Listed
  <2>2. \A c \in (1..Blocks) \ Away : next'[c] = next[c]
    BY <1>1, <1>4 DEF PoolInv, ListType
  <2>3. IsList(q, n, (1..Blocks) \ Away)'
    <3> DEFINE S == (1..Blocks) \ Away
    <3>1. /\ q \in [1..n -> S]
          /\ \A c \in S : \E i \in 1..n : q[i] = c
          /\ \A i, j \in 1..n : q[i] = q[j] => i = j
          /\ n > 0 => q[1] = head'
          /\ n = 0 => head' = Blocks + 1
      BY <1>1, <2>1 DEF IsList
    <3>2. \A i \in 1..(n - 1) : q[i + 1] = next'[q[i]]
      <4> TAKE i \in 1..(n - 1)
      <4>1. i \in 1..n /\ q[i + 1] = next[q[i]]
        BY <2>1 DEF IsList
      <4> QED BY <2>2, <3>1, <4>1
    <3>3. n > 0 => next'[q[n]] = Blocks + 1
      <4> HAVE n > 0
      <4>1. n \in 1..n /\ next[q[n]] = Blocks + 1
        BY <2>1 DEF IsList
      <4> QED BY <2>2, <3>1, <4>1
    <3>4. (1..Blocks) \ Away' = S
      BY <1>4
    <3> HIDE DEF S
    <3> QED BY <3>1, <3>2, <3>3, <3>4 DEF IsList
  <2>4. Cardinality(Linking') = Cardinality(Linking) + 1
    BY <1>5, AwayFinite, FS_AddElement DEF PoolInv
  <2>5. cold' = n + Cardinality(Linking')
    BY <1>1, <2>1, <2>4, AwayFinite DEF PoolInv
  <2> QED BY <2>1, <2>3, <2>5 DEF Listed
<1>9. Counted'
  <2>1. Away' \ Linking' = (Away \ Linking) \ {b} /\ b \in Away \ Linking
    BY <1>4, <1>5
  <2>2. Cardinality(Away' \ Linking') = Cardinality(Away \ Linking) - 1
    BY <2>1, AwayFinite, FS_RemoveElement DEF PoolInv
  <2>3. hot' = Cardinality(Away' \ Linking')
    BY <1>1, <2>2 DEF PoolInv, Counted
  <2>4. cold' = Blocks - hot'
    BY <1>0, <1>1, AwayFinite DEF PoolInv, Counted
  <2> QED BY <2>3, <2>4 DEF Counted
<1>10. Seen'
  <2>1. \A u \in Alive \ {t} : pc[u][1] \notin {"pop", "link"}
    BY <1>1, OthersOut DEF PoolInv, Critical
  <2>2. next'[b] = head
    BY <1>1 DEF PoolInv, ListType
  <2> QED BY <1>1, <1>2, <2>1, <2>2 DEF Seen, Alive
<1> QED BY <1>6, <1>7, <1>8, <1>9, <1>10

LEMMA SetHeadPool ==
  ASSUME PoolInv, NEW t \in Threads, SetHead(t)
  PROVE  ListType' /\ PcType' /\ Apart' /\ Listed' /\ Counted' /\ Seen'
<1>0. Blocks \in Nat
  BY LocksAssumption
<1>1. PICK b \in 1..Blocks :
        /\ b = pc[t][2] /\ pc[t][1] = "link" /\ t \in Alive
        /\ head' = b /\ pc' = [pc EXCEPT ![t] = <<"out">>]
        /\ UNCHANGED <<dead, next, cold, hot, held>>
  <2>1. pc[t][2] \in 1..Blocks
    BY DEF SetHead, PoolInv, PcType
  <2> QED BY <2>1 DEF SetHead
<1>2. pc'[t] = <<"out">> /\ \A u \in Threads \ {t} : pc'[u] = pc[u]
  BY <1>1 DEF PoolInv, PcType
<1>3. /\ Carried(t) = {b} /\ Carried(t)' = {}
      /\ \A u \in Threads \ {t} : Carried(u)' = Carried(u) /\ Mine(u)' = Mine(u)
  BY <1>0, <1>1, <1>2 DEF Carried, Mine
<1>4. /\ b \in Mine(t) /\ Mine(t)' = Mine(t) \ {b}
      /\ \A u \in Threads \ {t} : b \notin Mine(u)
  BY <1>1, <1>3 DEF PoolInv, Apart, Mine
<1>5. Away' = Away \ {b} /\ b \in Away
  BY <1>3, <1>4 DEF Away
<1>6. Linking' = Linking \ {b} /\ b \in Linking
  <2>1. \A u \in Threads \ {t} : ~(pc[u][1] = "link" /\ pc[u][2] = b)
    BY <1>0, <1>4 DEF Mine, Carried
  <2> QED BY <1>1, <1>2, <2>1 DEF Linking
<1>7. ListType' /\ PcType'
  <2>1. PlaceType(<<"out">>)
    BY DEF PlaceType, Places
  <2>2. b \in 0..(Blocks + 1)
    BY <1>0
  <2> QED BY <1>1, <2>1, <2>2, PcTypeSet DEF PoolInv, ListType
<1>8. Apart'
  BY <1>1, <1>3, <1>4 DEF PoolInv, Apart
<1>9. Listed'
  <2>1. PICK n, q : /\ n \in Nat /\ IsList(q, n, (1..Blocks) \ Away)
                    /\ cold = n + Cardinality(Linking)
    BY DEF PoolInv, Listed
  <2>2. PICK S : S = (1..Blocks) \ Away
    OBVIOUS
  <2>3. next[b] = head
    BY <1>1 DEF PoolInv, Seen
  <2>4. \E r : IsList(r, n + 1, S \cup {b})'
    BY <1>1, <1>5, <2>1, <2>2, <2>3, PushList
  <2>5. S \cup {b} = (1..Blocks) \ Away'
    BY <1>5, <2>2
  <2>6. \E r : IsList(r, n + 1, (1..Blocks) \ Away)'
    BY <2>4, <2>5 DEF IsList
  <2>7. Cardinality(Linking') = Cardinality(Linking) - 1
    BY <1>6, AwayFinite, FS_RemoveElement DEF PoolInv
  <2>8. n + 1 \in Nat /\ cold' = (n + 1) + Cardinality(Linking')
    BY <1>1, <2>1, <2>7, AwayFinite DEF PoolInv
  <2> QED BY <2>6, <2>8 DEF Listed
<1>10. Counted'
  <2>1. Away' \ Linking' = Away \ Linking
    BY <1>5, <1>6
  <2> QED BY <1>1, <2>1 DEF PoolInv, Counted
<1>11. Seen'
  <2>1. \A u \in Alive \ {t} : pc[u][1] \notin {"pop", "link"}
    BY <1>1, OthersOut DEF PoolInv, Critical
  <2> QED BY <1>1, <1>2, <2>1 DEF Seen, Alive
<1> QED BY <1>7, <1>8, <1>9, <1>10, <1>11

(* What a step keeps beside the types of the masks and the lock's own      *)
(* invariant.                                                              *)
PoolRest == ListType /\ PcType /\ Apart /\ Listed /\ Counted /\ Seen

LEMMA PoolStep == PoolInv /\ [Next]_vars => PoolInv'
<1> SUFFICES ASSUME PoolInv, [Next]_vars PROVE PoolInv'
  OBVIOUS
<1>0. "process" \in Locks /\ "rw" \in Locks
  BY DEF Locks
<1>1. SigType' /\ FlagType' /\ ListInv'
  BY SigTypeStep, FlagTypeStep, InsideStep DEF PoolInv
<1> SUFFICES PoolRest'
  BY <1>1 DEF PoolInv, PoolRest
<1>2. ASSUME NEW t \in Threads, \E op \in {0} \cup held[t] : Enter(t, op)
      PROVE  PoolRest'
  BY <1>2, EnterPool DEF PoolRest
<1>3. ASSUME NEW t \in Threads, Cas(t) \/ ReadHead(t) \/ AtomicOff(t)
      PROVE  PoolRest'
  BY <1>3, InsidePool DEF PoolRest
<1>4. ASSUME NEW t \in Threads, mem_get(t) PROVE PoolRest'
  BY <1>4, MemGetPool DEF PoolRest
<1>5. ASSUME NEW t \in Threads, mem_put(t) PROVE PoolRest'
  BY <1>5, MemPutPool DEF PoolRest
<1>6. ASSUME NEW t \in Threads, SetHead(t) PROVE PoolRest'
  BY <1>6, SetHeadPool DEF PoolRest
<1>7. ASSUME NEW t \in Threads,
             \/ \E l \in Locks : LockOff(t, l) \/ \E call : Block(t, l, call)
             \/ LockOn(t) \/ TryOnFails(t) \/ RestoreMask(t)
      PROVE  PoolRest'
  BY <1>7, LockCallsPool DEF PoolRest
<1>8. CASE \/ \E l \in Locks : Fresh(l) \/ Reset(l)
           \/ \E t \in Threads : Die(t) \/ \E l \in Locks : Destroy(t, l)
           \/ AtomicReset \/ UNCHANGED vars
  <2>1. UNCHANGED <<pc, head, next, cold, hot, held>> /\ dead \subseteq dead'
    BY <1>8 DEF Fresh, Reset, Die, Destroy, AtomicReset, vars, pool
  <2>2. ListType' /\ PcType' /\ Apart' /\ Listed' /\ Counted' /\ Seen'
    BY <2>1, PoolSame
  <2> QED BY <2>2 DEF PoolRest
<1>9. ASSUME NEW t \in Threads,
             \/ shs_process_lock_on(t) \/ shs_process_lock_try_on(t)
             \/ shs_process_rwlock_read_on(t) \/ shs_process_rwlock_write_on(t)
             \/ shs_process_rwlock_write_try_on(t)
             \/ shs_process_lock_off(t) \/ shs_process_rwlock_off(t)
      PROVE  PoolRest'
  BY <1>0, <1>7, <1>9
  DEF shs_process_lock_on, shs_process_lock_try_on,
      shs_process_rwlock_read_on, shs_process_rwlock_write_on,
      shs_process_rwlock_write_try_on, shs_process_lock_off,
      shs_process_rwlock_off
<1>10. CASE \/ shs_process_lock_create \/ shs_process_rwlock_create
            \/ \E t \in Threads : \/ shs_process_lock_release(t)
                                  \/ shs_process_rwlock_release(t)
            \/ shs_process_lock_reset \/ shs_process_rwlock_reset
  BY <1>0, <1>8, <1>10
  DEF shs_process_lock_create, shs_process_rwlock_create,
      shs_process_lock_release, shs_process_rwlock_release,
      shs_process_lock_reset, shs_process_rwlock_reset
<1> QED
  BY <1>2, <1>3, <1>4, <1>5, <1>6, <1>7, <1>8, <1>9, <1>10 DEF Next

LEMMA PoolInit == Init => PoolInv
<1> SUFFICES ASSUME Init PROVE PoolInv
  OBVIOUS
<1>0. Blocks \in Nat
  BY LocksAssumption
<1>1. SigType /\ FlagType
  BY DEF Init, SigType, FlagType, Signals
<1>2. \A t \in Threads : pc[t] = <<"idle">> /\ held[t] = {}
  BY DEF Init, Idle
<1>3. PcType
  <2>1. \A t \in Threads : pc[t][1] = "idle"
    BY <1>2
  <2>2. DOMAIN pc = Threads /\ pc = [t \in Threads |-> pc[t]]
    BY DEF Init
  <2> QED BY <2>1, <2>2 DEF PcType, Places
<1>4. ListType
  <2>1. \A b \in 1..Blocks : b + 1 \in 0..(Blocks + 1)
    BY <1>0
  <2> QED BY <1>0, <2>1 DEF Init, ListType
<1>5. \A t \in Threads : Carried(t) = {} /\ Mine(t) = {}
  BY <1>2 DEF Carried, Mine
<1>6. Apart /\ Away = {} /\ Linking = {}
  BY <1>2, <1>5 DEF Apart, Away, Linking
<1>7. Cardinality(Linking) = 0 /\ Cardinality(Away \ Linking) = 0
  BY <1>6, FS_EmptySet
<1>8. Listed
  <2> DEFINE q == [i \in 1..Blocks |-> i]
  <2>1. \A i \in 1..(Blocks - 1) : i \in 1..Blocks /\ i + 1 \in 1..Blocks
    BY <1>0
  <2>2. (1..Blocks) \ Away = 1..Blocks
    BY <1>6
  <2>3. IsList(q, Blocks, 1..Blocks)
    BY <1>0, <2>1 DEF Init, IsList
  <2>4. cold = Blocks + Cardinality(Linking)
    BY <1>0, <1>7 DEF Init
  <2> QED BY <1>0, <2>2, <2>3, <2>4 DEF Listed
<1>9. Counted
  BY <1>0, <1>7 DEF Init, Counted
<1>10. Seen
  BY <1>2 DEF Seen, Alive
<1>11. ListInv
  BY DEF Init, ListInv, OneInside, Inside, Idle, Critical
<1> QED BY <1>1, <1>3, <1>4, <1>6, <1>8, <1>9, <1>10, <1>11 DEF PoolInv

(* The list's function is the one that Chain computes. *)
IsChain(f, k) == f = [i \in 1..k |-> IF i = 1 THEN head ELSE next[f[i - 1]]]

LEMMA ChainIs ==
  ASSUME NEW k \in Nat, NEW q, IsChain(q, k) PROVE IsChain(Chain(k), k)
  BY DEF Chain, IsChain

LEMMA ListChain ==
  ASSUME NEW k \in Nat, NEW q, NEW S, IsList(q, k, S) PROVE IsChain(q, k)
<1>1. /\ q = [i \in 1..k |-> q[i]] /\ (k > 0 => q[1] = head)
      /\ \A i \in 1..(k - 1) : q[i + 1] = next[q[i]]
  BY DEF IsList
<1>2. \A i \in 1..k : q[i] = IF i = 1 THEN head ELSE next[q[i - 1]]
  <2> TAKE i \in 1..k
  <2>1. CASE i = 1
    BY <1>1, <2>1
  <2>2. CASE i # 1
    <3>1. i - 1 \in 1..(k - 1) /\ (i - 1) + 1 = i
      BY <2>2
    <3> QED BY <1>1, <2>2, <3>1
  <2> QED BY <2>1, <2>2
<1> QED BY <1>1, <1>2 DEF IsChain

(* A set of numbers that is not empty has a least one. *)
LEMMA LeastNat ==
  ASSUME NEW S \in SUBSET Nat, NEW n \in S
  PROVE  \E x \in S : \A y \in S : x <= y
<1>1. PICK x \in S : \A y \in S : ~(<<y, x>> \in OpToRel(<, Nat))
  BY NatLessThanWellFounded, WFMin
<1>2. \A y \in S : ~(y < x)
  BY <1>1 DEF OpToRel
<1> QED BY <1>2

LEMMA ChainUnique ==
  ASSUME NEW k \in Nat, NEW f, NEW g, IsChain(f, k), IsChain(g, k)
  PROVE  \A i \in 1..k : f[i] = g[i]
<1> DEFINE Differ == {i \in 1..k : f[i] # g[i]}
<1>1. SUFFICES ASSUME NEW j \in Differ PROVE FALSE
  OBVIOUS
<1>2. Differ \in SUBSET Nat
  OBVIOUS
<1>3. PICK i \in Differ : \A y \in Differ : i <= y
  <2> HIDE DEF Differ
  <2> QED BY <1>2, <1>1, LeastNat
<1>4. /\ f[i] = IF i = 1 THEN head ELSE next[f[i - 1]]
      /\ g[i] = IF i = 1 THEN head ELSE next[g[i - 1]]
  BY <1>3 DEF IsChain
<1>5. i # 1
  BY <1>3, <1>4
<1>6. i - 1 \in 1..k /\ i - 1 \notin Differ
  <2>1. i \in 1..k /\ i - 1 \in 1..k /\ ~(i <= i - 1)
    BY <1>3, <1>5
  <2> QED BY <1>3, <2>1
<1>7. f[i - 1] = g[i - 1]
  BY <1>6
<1> QED BY <1>3, <1>4, <1>5, <1>7

LEMMA PoolTypes == PoolInv => TypeOK
<1> SUFFICES ASSUME PoolInv PROVE TypeOK
  OBVIOUS
<1>0. Blocks \in Nat
  BY LocksAssumption
<1>1. hot \in Nat /\ hot <= Blocks
  BY <1>0, AwayFinite DEF PoolInv, Counted
<1>2. hot \in 0..(Blocks + 1) /\ cold \in 0..(Blocks + 1)
  BY <1>0, <1>1 DEF PoolInv, Counted
<1>3. {head, cold, hot} \subseteq 0..(Blocks + 1)
  BY <1>2 DEF PoolInv, ListType
<1>4. \A t \in Threads : pc[t][1] \in Places
  BY DEF PoolInv, PcType
<1>5. /\ next \in [1..Blocks -> 0..(Blocks + 1)]
      /\ held \in [Threads -> SUBSET (1..Blocks)]
  BY DEF PoolInv, ListType
<1>6. tainted \in BOOLEAN /\ word \in BOOLEAN
  BY DEF PoolInv, FlagType
<1>7. /\ {own, mask} \subseteq [Threads -> SUBSET Signals]
      /\ prev \in [Locks -> SUBSET Signals]
      /\ unused \subseteq made /\ made \subseteq Locks
      /\ {readers, writer} \subseteq [Locks -> SUBSET Threads]
      /\ dead \subseteq Threads
  BY DEF PoolInv, SigType
<1> QED BY <1>3, <1>4, <1>5, <1>6, <1>7, Zenon DEF TypeOK

LEMMA PoolImplies == PoolInv => PoolSound
<1> SUFFICES ASSUME PoolInv PROVE PoolSound
  OBVIOUS
<1>0. Blocks \in Nat
  BY LocksAssumption
<1> DEFINE coming == {t \in Threads : pc[t][1] = "spin" /\ pc[t][2] # 0}
           away == (UNION {held[t] : t \in Threads}) \cup {pc[t][2] : t \in coming}
<1>1. TypeOK
  BY PoolTypes
<1>2. \A t, u \in Threads : t # u => held[t] \cap held[u] = {}
  BY DEF PoolInv, Apart, Mine
<1>3. ASSUME \A t \in Threads : pc[t][1] \notin Critical
      PROVE  /\ hot = Cardinality(away) /\ cold = Blocks - hot
             /\ {Chain(cold)[i] : i \in 1..cold} = (1..Blocks) \ away
  <2>1. \A t \in Threads :
          /\ t \in coming => Carried(t) = {pc[t][2]}
          /\ t \notin coming => Carried(t) = {}
    BY <1>3 DEF Carried, Critical
  <2>2. away = Away
    <3>1. ASSUME NEW b \in away PROVE b \in Away
      <4>1. CASE \E t \in Threads : b \in held[t]
        BY <4>1 DEF Away, Mine
      <4>2. CASE \E t \in coming : b = pc[t][2]
        <5>1. PICK t \in Threads : t \in coming /\ b = pc[t][2]
          BY <4>2
        <5>2. b \in Carried(t)
          BY <2>1, <5>1
        <5> QED BY <5>2 DEF Away, Mine
      <4> QED BY <3>1, <4>1, <4>2
    <3>2. ASSUME NEW b \in Away PROVE b \in away
      <4>1. PICK t \in Threads : b \in held[t] \/ b \in Carried(t)
        BY <3>2 DEF Away, Mine
      <4>2. CASE b \in held[t]
        BY <4>1, <4>2
      <4>3. CASE b \in Carried(t)
        <5>1. t \in coming /\ b = pc[t][2]
          BY <2>1, <4>1, <4>3
        <5> QED BY <5>1
      <4> QED BY <4>1, <4>2, <4>3
    <3> QED BY <3>1, <3>2
  <2>3. Linking = {}
    BY <1>3 DEF Linking, Critical
  <2> HIDE DEF away, coming
  <2>4. hot = Cardinality(away) /\ cold = Blocks - hot
    <3>1. Away \ Linking = away
      BY <2>2, <2>3
    <3> QED BY <3>1 DEF PoolInv, Counted
  <2>5. PICK n, q : /\ n \in Nat /\ IsList(q, n, (1..Blocks) \ Away)
                    /\ cold = n + Cardinality(Linking)
    BY DEF PoolInv, Listed
  <2>6. cold = n
    BY <2>3, <2>5, FS_EmptySet
  <2>7. \A i \in 1..n : Chain(n)[i] = q[i]
    <3>1. IsChain(q, n)
      BY <2>5, ListChain
    <3>2. IsChain(Chain(n), n)
      BY <2>5, <3>1, ChainIs
    <3> QED BY <2>5, <3>1, <3>2, ChainUnique
  <2>8. {q[i] : i \in 1..n} = (1..Blocks) \ away
    <3>1. \A i \in 1..n : q[i] \in (1..Blocks) \ Away
      BY <2>5 DEF IsList
    <3>2. \A b \in (1..Blocks) \ Away : \E i \in 1..n : q[i] = b
      BY <2>5 DEF IsList
    <3> QED BY <2>2, <3>1, <3>2
  <2>9. {Chain(n)[i] : i \in 1..n} = {q[i] : i \in 1..n}
    BY <2>7
  <2> QED BY <2>4, <2>6, <2>8, <2>9
<1> HIDE DEF away, coming
<1>4. /\ TypeOK
      /\ (\A t \in Threads : pc[t][1] \notin Critical) =>
           /\ \A t, u \in Threads : t # u => held[t] \cap held[u] = {}
           /\ hot = Cardinality(away) /\ cold = Blocks - hot
           /\ {Chain(cold)[i] : i \in 1..cold} = (1..Blocks) \ away
  BY <1>1, <1>2, <1>3
<1> QED BY <1>4 DEF PoolSound, away, coming

(* For any number of threads and blocks: while nobody is inside the atomic *)
(* lock of the block list, and nobody died in it, each block is with one   *)
(* thread or is once on the list, and cold_count and hot_count say how     *)
(* many (mem_get and mem_put of core/shs_mblks.cc).                        *)
THEOREM PoolSoundAlways == Spec => []PoolSound
<1>1. Init => PoolInv
  BY PoolInit
<1>2. PoolInv /\ [Next]_vars => PoolInv'
  BY PoolStep
<1>3. PoolInv => PoolSound
  BY PoolImplies
<1> QED BY <1>1, <1>2, <1>3, PTL DEF Spec
=============================================================================
