----------------------------- MODULE EventTimer -----------------------------
(***************************************************************************)
(* The timers of a thread (core/shs_event_timer.cc) and the part of its    *)
(* loop that serves them (thread_event_process): the time to wait is that  *)
(* of the earliest timer, at most Cap; handlers set and delete timers;     *)
(* timers are expired only if the time changed during the iteration.       *)
(*                                                                         *)
(*   timers   the tree of timers, the nodes are the events                 *)
(*   set      the events with timer_set                                    *)
(*   now      shs_current_msec, written by all threads (time_update reads  *)
(*            the wall clock, which may also be set back)                  *)
(*   pc       where thread_event_process is                                *)
(*   delta, wait   its local delta (the time at the start) and timer, 0    *)
(*            when they are not used any more                              *)
(*                                                                         *)
(* load, chosen at the start, is what the thread is used for: its events,  *)
(* the delays each of them asks for, and how far time goes.                *)
(***************************************************************************)
EXTENDS RbTree

CONSTANTS
  Lazy,       \* EVENT_TIMER_LAZY_DELAY
  Cap,        \* the 10 ms of thread_event_process
  Loads       \* records of events, delays, until

ASSUME TimerAssumption ==
  /\ {Lazy, Cap} \subseteq Nat
  /\ \A l \in Loads : /\ l.events \subseteq Nodes
                      /\ l.delays \in [l.events -> SUBSET Nat]
                      /\ l.until \in Nat

VARIABLES
  timers, set, now, pc, delta, wait,
  load,
  want,       \* history: the time last asked for, of each event
  early,      \* history: a timer fired Lazy or more before that
  looked      \* history: the time at which expiring ended, Never at first

vars == <<timers, set, now, pc, delta, wait, load, want, early, looked>>

Infinite == -1          \* EVENT_TIMER_INFINITE
Never == -1

TypeOK ==
  /\ set \subseteq load.events /\ now \in 0..load.until
  /\ pc \in {"top", "found", "wait", "handle", "expire", "fired"}
  /\ delta \in 0..load.until /\ wait \in 0..Cap
  /\ want \in [load.events -> Int] /\ early \in BOOLEAN
  /\ looked \in Never..load.until

Init ==
  /\ load \in Loads
  /\ timers = rbtree_init /\ set = {}
  /\ now = 0 /\ pc = "top" /\ delta = 0 /\ wait = 0
  /\ want = [e \in load.events |-> 0] /\ early = FALSE
  /\ looked = Never

Earliest == rbtree_min(timers, timers.root)

Largest(a, b) == IF a > b THEN a ELSE b

event_find_timer ==
  IF timers.root = Nil THEN Infinite
  ELSE Largest(0, timers.key[Earliest] - now)

-----------------------------------------------------------------------------
(* What handlers do. *)

Handling == pc \in {"handle", "fired"}

(* event_timer_del, without the test of timer_set. *)
timer_del(e) == rbtree_delete(timers, e)

(* Mutant: a timer that is set keeps its time. *)
KeepsOld(e, key) == e \in set

(* A timer that is set is left alone if the new time is close to its own. *)
lazy(e, key) ==
  /\ e \in set
  /\ key - timers.key[e] < Lazy /\ timers.key[e] - key < Lazy

event_timer_add(e, delay) ==
  LET key == now + delay
  IN /\ Handling
     /\ want' = [want EXCEPT ![e] = key]
     /\ \/ lazy(e, key) /\ UNCHANGED <<timers, set>>
        \/ /\ ~lazy(e, key)
           /\ timers' = rbtree_insert(IF e \in set THEN timer_del(e) ELSE timers,
                                      e, key)
           /\ set' = set \cup {e}
     /\ UNCHANGED <<now, pc, delta, wait, load, early, looked>>

event_timer_del(e) ==
  /\ Handling
  /\ e \in set
  /\ timers' = timer_del(e)
  /\ set' = set \ {e}
  /\ want' = [want EXCEPT ![e] = 0]
  /\ UNCHANGED <<now, pc, delta, wait, load, early, looked>>

-----------------------------------------------------------------------------
(* thread_event_process. *)

(* The time to wait; delta takes the time only in the next step. *)
Find ==
  /\ pc = "top"
  /\ pc' = "found"
  /\ delta' = now
  /\ wait' = IF event_find_timer = Infinite \/ event_find_timer > Cap THEN Cap
             ELSE event_find_timer
  /\ looked' = Never
  /\ UNCHANGED <<timers, set, now, load, want, early>>

Begin ==
  /\ pc = "found"
  /\ pc' = "wait"
  /\ delta' = now
  /\ UNCHANGED <<timers, set, now, wait, load, want, early, looked>>

(* epoll_wait returns and the time is updated, unless another thread is    *)
(* just doing so.                                                          *)
Wake ==
  /\ pc = "wait"
  /\ pc' = "handle"
  /\ now' \in 0..load.until
  /\ wait' = 0
  /\ UNCHANGED <<timers, set, delta, load, want, early, looked>>

(* The handlers have run. *)
Handled ==
  /\ pc = "handle"
  /\ pc' = IF now # delta THEN "expire" ELSE "top"
  /\ delta' = 0
  /\ UNCHANGED <<timers, set, now, wait, load, want, early, looked>>

Due == timers.root # Nil /\ timers.key[Earliest] <= now

(* One turn of event_timers_expire, up to the call of the handler. *)
Expire ==
  /\ pc \in {"expire", "fired"}
  /\ Due
  /\ pc' = "fired"
  /\ timers' = timer_del(Earliest)
  /\ set' = set \ {Earliest}
  /\ early' = (early \/ want[Earliest] - now >= Largest(Lazy, 1))
  /\ want' = [want EXCEPT ![Earliest] = 0]
  /\ UNCHANGED <<now, delta, wait, load, looked>>

Expired ==
  /\ pc \in {"expire", "fired"}
  /\ ~Due
  /\ pc' = "top"
  /\ looked' = now
  /\ UNCHANGED <<timers, set, now, delta, wait, load, want, early>>

(* Another thread updates the time. *)
TimeUpdate ==
  /\ now' \in (0..load.until) \ {now}
  /\ UNCHANGED <<timers, set, pc, delta, wait, load, want, early, looked>>

Next ==
  \/ \E e \in load.events : \E d \in load.delays[e] : event_timer_add(e, d)
  \/ \E e \in load.events : event_timer_del(e)
  \/ Find
  \/ Begin
  \/ Wake
  \/ Handled
  \/ Expire
  \/ Expired
  \/ TimeUpdate

Spec == Init /\ [][Next]_vars

-----------------------------------------------------------------------------
(* Properties *)

(* The nodes below n, n included. *)
Below(n) ==
  LET f[k \in 0..Cardinality(Nodes)] ==
        IF k = 0 THEN {n} \ {Nil}
        ELSE f[k - 1] \cup
             ({timers.kid[s][x] : s \in {"l", "r"}, x \in f[k - 1]} \ {Nil})
  IN f[Cardinality(Nodes)]

(* The numbers of black nodes on the ways from n to the sentinel. *)
Heights(n) ==
  LET f[x \in Nodes \cup {Nil}] ==
        IF x = Nil THEN {0}
        ELSE {h + (IF timers.red[x] THEN 0 ELSE 1) :
                h \in f[timers.kid["l"][x]] \cup f[timers.kid["r"][x]]}
  IN f[n]

(* The tree holds the timers that are set, each reached from the root and  *)
(* linked back to its parent, in the order of their times; the root and    *)
(* the sentinel are black, a red node has black children, and all ways     *)
(* down have the same number of black nodes, after any sequence of         *)
(* insertions and deletions (rbtree_insert, rbtree_delete).                *)
(* (The types of the variables are part of it.)                            *)
TreeSound ==
  LET in == Below(timers.root)
      kid(s, n) == timers.kid[s][n]
  IN /\ TypeOK
     /\ in = set
     /\ ~timers.red[timers.root] /\ ~timers.red[Nil]
     /\ \A n \in in :
          /\ \A s \in {"l", "r"} : kid(s, n) # Nil => timers.up[kid(s, n)] = n
          /\ \A m \in Below(kid("l", n)) : timers.key[m] <= timers.key[n]
          /\ \A m \in Below(kid("r", n)) : timers.key[m] >= timers.key[n]
          /\ timers.red[n] => ~timers.red[kid("l", n)] /\ ~timers.red[kid("r", n)]
     /\ Cardinality(Heights(timers.root)) = 1

(* A timer that is set again is lazily left where it is, and still fires   *)
(* less than Lazy from the time last asked for (event_timer_add); no wait  *)
(* is longer than the earliest of them (event_find_timer); and when        *)
(* event_timers_expire is through, none is due at the time it looked at.   *)
FiresOnTime ==
  /\ ~early
  /\ \A e \in set : /\ want[e] - timers.key[e] < Largest(Lazy, 1)
                    /\ timers.key[e] - want[e] < Largest(Lazy, 1)
                    /\ pc = "found" => wait <= Largest(0, timers.key[e] - delta)
                    /\ pc = "top" /\ looked # Never => timers.key[e] > looked
=============================================================================
