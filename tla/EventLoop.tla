----------------------------- MODULE EventLoop ------------------------------
(***************************************************************************)
(* One thread's event loop (core/shs_thread.cc, shs_epoll.cc,              *)
(* shs_event.cc), its connections (shs_conn.cc) and their pool             *)
(* (shs_conn_pool.cc).  One epoll_wait returns a batch of entries; the     *)
(* handler called for one of them may close connections the others are     *)
(* about, and take them from the pool again.                               *)
(*                                                                         *)
(* The main thread of a process (mode "main", THREAD_MASTER) posts the     *)
(* events of a batch to two queues and calls the handlers from there; its  *)
(* accept handlers alone take connections from the pool.  The thread of a  *)
(* worker (mode "worker") calls handlers directly; they make downstream    *)
(* requests, which take connections, and connect again on failure.         *)
(*                                                                         *)
(* A loop is set up by thread_event_init and the watchers of its pipes,    *)
(* the main thread's also by HTTPService::RegisterEvent, and is taken down *)
(* by the handler of a pipe: HTTPService::Stop, Worker::Close.             *)
(*                                                                         *)
(*   conn     fields of each connection of the pool and its two events:    *)
(*            fd (open or -1), inst (the instance bit), and, as sets of    *)
(*            sides "r" and "w", active, handler (set) and timer_set; and  *)
(*            watch, the events epoll is asked for, which the kernel keeps *)
(*   free     pool->free_connections                                       *)
(*   batch    the entries of event_list not yet looked at                  *)
(*   half     the entry whose write event comes next, None                 *)
(*   accq, postq   posted_accept_events, posted_events                     *)
(*   ep       the epoll descriptor: "none", "open" or "closed"             *)
(*   listening   the listening socket is registered (http_ is not NULL)    *)
(*   pc       where the thread is; in pcs "direct", "posted", "pipe" and   *)
(*            "timer" a handler is running                                 *)
(*                                                                         *)
(* The listening socket and the pipes that wake the thread (the channel of *)
(* the master and the results, or the tasks and the stop pipe) have        *)
(* connections outside of the pool, Listen and Pipe.                       *)
(***************************************************************************)
EXTENDS Integers, Sequences, FiniteSets, SequencesExt

CONSTANTS
  PoolSize,     \* pool->connection_n
  MaxReuse      \* bound: conn_set_default calls per connection and batch

ASSUME LoopAssumption == PoolSize \in Nat \ {0} /\ MaxReuse \in Nat \ {0}

Conns == 1..PoolSize
Listen == -1
Pipe == 0
None == [c |-> 0, inst |-> 0, ev |-> {}, gen |-> 0]
Sides == {"r", "w"}

VARIABLES
  mode, conn, free, batch, half, accq, postq, pc, ep, listening,
  gen,    \* history: conn_set_default calls on each connection in this batch
  call,   \* history: the handler call just made for a pool connection
  torn    \* history: an event was cleared while in a queue or in the timers

lvars == <<ep, listening>>
vars == <<mode, conn, free, batch, half, accq, postq, pc, lvars, gen, call,
          torn>>

NoCall == [was |-> 0, is |-> 0, half |-> FALSE]

Held == Conns \ ToSet(free)

TypeOK ==
  /\ mode \in {"main", "worker"}
  /\ conn \in [Conns -> [fd : BOOLEAN, inst : 0..1, active : SUBSET Sides,
                         handler : SUBSET Sides, timer : SUBSET Sides,
                         watch : SUBSET Sides]]
  /\ free \in Seq(Conns) /\ gen \in [Conns -> 0..MaxReuse]
  /\ pc \in {"init", "watch", "register", "wait", "batch", "direct", "accept",
             "queue", "posted", "pipe", "timers", "timer", "ended"}
  /\ ep \in {"none", "open", "closed"}
  /\ listening \in BOOLEAN
  /\ torn \in BOOLEAN

(* The fields conn_pool_init gives a connection. *)
conn_pool_init ==
  [fd |-> FALSE, inst |-> 1, active |-> {}, handler |-> {}, timer |-> {},
   watch |-> {}]

Init ==
  /\ mode \in {"main", "worker"}
  /\ conn = [c \in Conns |-> conn_pool_init]
  /\ free = [i \in 1..PoolSize |-> i]
  /\ batch = <<>> /\ half = None /\ accq = <<>> /\ postq = <<>>
  /\ pc = "init" /\ ep = "none" /\ listening = FALSE
  /\ gen = [c \in Conns |-> 0] /\ call = NoCall /\ torn = FALSE

-----------------------------------------------------------------------------
(* Connections. *)

(* Mutant: the instance bit is kept. *)
SetDefaultSame(r) ==
  [conn_pool_init EXCEPT !.fd = TRUE, !.inst = r.inst]

(* conn_set_default with a new descriptor: both events are cleared. *)
conn_set_default(r) ==
  [conn_pool_init EXCEPT !.fd = TRUE, !.inst = 1 - r.inst]

(* epoll_del_connection with EVENT_CLOSE_EVENT. *)
epoll_del_connection(r) == [r EXCEPT !.active = {}]

(* Mutant: the timers stay. *)
CloseTimed(r) ==
  IF r.fd THEN epoll_del_connection([r EXCEPT !.fd = FALSE, !.watch = {}])
  ELSE r

(* conn_close: the kernel takes a closed descriptor out of epoll. *)
conn_close(r) ==
  IF r.fd
  THEN epoll_del_connection([r EXCEPT !.fd = FALSE, !.watch = {},
                                      !.timer = {}])
  ELSE r

(* epoll_add_event: EPOLL_CTL_MOD if the other event is active, and        *)
(* EPOLL_CTL_ADD, which the kernel refuses for what it has, if it is not.  *)
epoll_add_event(r, x) ==
  LET other == r.active \ {x}
      done == ep = "open" /\ ((other # {}) <=> (r.watch # {}))
  IN IF done THEN [r EXCEPT !.active = @ \cup {x}, !.watch = other \cup {x}]
     ELSE [r EXCEPT !.active = @ \ {x}]

(* Mutant: the other event is forgotten. *)
DelEventAll(r, x) ==
  IF ep = "open" /\ r.watch # {}
  THEN [r EXCEPT !.active = @ \ {x}, !.watch = {}]
  ELSE r

(* epoll_del_event: EPOLL_CTL_MOD or EPOLL_CTL_DEL, likewise. *)
epoll_del_event(r, x) ==
  IF ep = "open" /\ r.watch # {}
  THEN [r EXCEPT !.active = @ \ {x}, !.watch = r.active \ {x}]
  ELSE r

(* event_handle_read and event_handle_write: nothing to do if the event is *)
(* active (or ready, which is left open).                                  *)
event_handle(r, x) == IF x \in r.active THEN r ELSE epoll_add_event(r, x)

(* epoll_add_connection, event handlers and perhaps a timer. *)
Register(r, hnd, tim) ==
  [r EXCEPT !.active = Sides, !.watch = Sides, !.handler = hnd, !.timer = tim]

Queued(c) == \E i \in 1..Len(postq) : postq[i].c = c

(* The bookkeeping of a conn_set_default on c. *)
Renewed(c) ==
  /\ gen[c] < MaxReuse
  /\ gen' = [gen EXCEPT ![c] = @ + 1]
  /\ torn' = (torn \/ conn[c].timer # {} \/ Queued(c))

-----------------------------------------------------------------------------
(* One iteration of thread_event_process. *)

(* What epoll can report of c: events it is asked for, or an error, which  *)
(* stands for both.                                                        *)
Reports(c) == (SUBSET conn[c].watch \ {{}}) \cup {Sides}

Entries ==
  {[c |-> f, inst |-> 1, ev |-> {"r"}, gen |-> 0] :
     f \in IF listening THEN {Listen, Pipe} ELSE {Pipe}}
  \cup UNION {{[c |-> c, inst |-> conn[c].inst, ev |-> e, gen |-> 0] :
                  e \in Reports(c)} :
                c \in {d \in Conns : conn[d].watch # {}}}

(* epoll_wait returns: at most one entry for each descriptor, and nothing  *)
(* but an error once the epoll descriptor is closed.                       *)
epoll_wait ==
  /\ pc = "wait"
  /\ \E es \in IF ep = "open" THEN SUBSET Entries ELSE {{}} :
       /\ \A a, b \in es : a.c = b.c => a = b
       /\ \E s \in SetToSeqs(es) : batch' = s
  /\ pc' = "batch"
  /\ gen' = [c \in Conns |-> 0] /\ call' = NoCall
  /\ UNCHANGED <<mode, conn, free, half, accq, postq, lvars, torn>>

(* The entry is about a closed descriptor. *)
Stale(e) == e.c \in Conns /\ (~conn[e.c].fd \/ conn[e.c].inst # e.inst)

Active(c) == IF c \in Conns THEN conn[c].active ELSE {"r"}
Handler(c) == IF c \in Conns THEN conn[c].handler ELSE {"r"}

(* The sides of entry e whose handlers are to be called: without a read    *)
(* handler the write event is not looked at.                               *)
Ready(e) == e.ev \cap Active(e.c)

Callable(e) ==
  IF "r" \in Ready(e) /\ "r" \notin Handler(e.c) THEN {}
  ELSE Ready(e) \cap Handler(e.c)

Posts(e, x) ==
  IF x \in Callable(e) THEN <<[c |-> e.c, x |-> x, gen |-> e.gen]>> ELSE <<>>

(* The end of the batch. *)
BatchDone ==
  /\ pc = "batch" /\ batch = <<>>
  /\ pc' = IF mode = "main" THEN "accept" ELSE "timers"
  /\ call' = NoCall
  /\ UNCHANGED <<mode, conn, free, batch, half, accq, postq, lvars, gen, torn>>

(* The queues after entry e; rev->accepted is set for the listener. *)
PostTo(e) ==
  /\ accq' = IF e.c = Listen THEN accq \o Posts(e, "r") ELSE accq
  /\ postq' = IF e.c = Listen \/ Stale(e) THEN postq
              ELSE postq \o Posts(e, "r") \o Posts(e, "w")

(* epoll_process_events with EVENT_POST_EVENTS, one entry. *)
Post ==
  /\ pc = "batch" /\ mode = "main" /\ batch # <<>>
  /\ PostTo(Head(batch))
  /\ batch' = Tail(batch)
  /\ call' = NoCall
  /\ UNCHANGED <<mode, conn, free, half, pc, lvars, gen, torn>>

(* A handler is called for an event of incarnation was of c. *)
Called(c, was, second) ==
  call' = IF c \in Conns THEN [was |-> was, is |-> gen[c], half |-> second]
          ELSE NoCall

(* Without it: the read event of the next entry, and its write event if    *)
(* there is nothing to read.                                               *)
Direct ==
  /\ pc = "batch" /\ mode = "worker" /\ batch # <<>>
  /\ LET e == Head(batch)
         sides == IF Stale(e) THEN {} ELSE Callable(e)
     IN /\ pc' = IF sides = {} THEN "batch"
                 ELSE IF e.c = Pipe THEN "pipe" ELSE "direct"
        /\ half' = IF "r" \in sides /\ "w" \in e.ev THEN e ELSE None
        /\ IF sides = {} THEN call' = NoCall ELSE Called(e.c, e.gen, FALSE)
  /\ batch' = Tail(batch)
  /\ UNCHANGED <<mode, conn, free, accq, postq, lvars, gen, torn>>

(* The read handler has returned: now the write event, without looking at  *)
(* the descriptor and the instance again.                                  *)
DirectDone ==
  /\ mode = "worker" /\ pc \in {"direct", "pipe"}
  /\ LET also == half # None /\ "w" \in Active(half.c) \cap Handler(half.c)
     IN /\ pc' = IF also THEN "direct" ELSE "batch"
        /\ IF also THEN Called(half.c, half.gen, TRUE) ELSE call' = NoCall
  /\ half' = None
  /\ UNCHANGED <<mode, conn, free, batch, accq, postq, lvars, gen, torn>>

(* http_accept_handler.  The connection is set up to be read from, or      *)
(* given back at once on failure; without a free connection the new        *)
(* descriptor is closed; accept4 may find nothing.                         *)
Accepted ==
  LET c == Head(free)
      r == conn_set_default(conn[c])
  IN \/ /\ free # <<>> /\ Renewed(c)
        /\ conn' = [conn EXCEPT ![c] =
             event_handle([r EXCEPT !.handler = Sides], "r")]
        /\ free' = Tail(free)
     \/ /\ free # <<>> /\ Renewed(c)
        /\ conn' = [conn EXCEPT ![c] = conn_close(r)]
        /\ UNCHANGED free
     \/ UNCHANGED <<conn, free, gen, torn>>

(* event_process_posted, first on the accept queue, then on the other.     *)
(* Only the descriptor is looked at.                                       *)
Queue == IF pc = "accept" THEN accq ELSE postq

Pop == IF pc = "accept" THEN accq' = Tail(accq) /\ UNCHANGED postq
       ELSE postq' = Tail(postq) /\ UNCHANGED accq

AcceptPosted ==
  /\ pc \in {"accept", "queue"} /\ Queue # <<>> /\ Head(Queue).c = Listen
  /\ Pop /\ Accepted
  /\ call' = NoCall
  /\ UNCHANGED <<mode, batch, half, pc, lvars>>

Posted ==
  LET e == Head(Queue)
      open == e.c \notin Conns \/ conn[e.c].fd
  IN /\ pc \in {"accept", "queue"} /\ Queue # <<>> /\ e.c # Listen
     /\ Pop
     /\ pc' = IF ~open THEN pc ELSE IF e.c = Pipe THEN "pipe" ELSE "posted"
     /\ IF open THEN Called(e.c, e.gen, FALSE) ELSE call' = NoCall
     /\ UNCHANGED <<mode, conn, free, batch, half, lvars, gen, torn>>

(* A posted handler returns, or the queue is empty. *)
PostedDone ==
  /\ \/ mode = "main" /\ pc \in {"posted", "pipe"} /\ pc' = "queue"
     \/ pc = "accept" /\ accq = <<>> /\ pc' = "queue"
     \/ pc = "queue" /\ postq = <<>> /\ pc' = "timers"
  /\ call' = NoCall
  /\ UNCHANGED <<mode, conn, free, batch, half, accq, postq, lvars, gen, torn>>

(* event_timers_expire: the timer of side x of c is the next that is due. *)
Expire(c, x) ==
  /\ pc = "timers"
  /\ x \in conn[c].timer
  /\ conn' = [conn EXCEPT ![c].timer = @ \ {x}]
  /\ pc' = "timer"
  /\ call' = NoCall
  /\ UNCHANGED <<mode, free, batch, half, accq, postq, lvars, gen, torn>>

ExpireDone ==
  /\ \/ pc = "timer" /\ pc' = "timers"
     \/ pc = "timers" /\ pc' = "wait"
  /\ call' = NoCall
  /\ UNCHANGED <<mode, conn, free, batch, half, accq, postq, lvars, gen, torn>>

-----------------------------------------------------------------------------
(* What handlers do, any number of times. *)

Running == pc \in {"direct", "posted", "pipe", "timer"}

Same ==
  UNCHANGED <<mode, batch, half, accq, postq, pc, lvars>> /\ call' = NoCall

(* conn_release and conn_pool_free_connection. *)
Close(c) ==
  /\ Running /\ c \in Held
  /\ conn' = [conn EXCEPT ![c] = conn_close(@)]
  /\ free' = <<c>> \o free
  /\ Same /\ UNCHANGED <<gen, torn>>

(* The outcomes of http_conn_connect: connecting, with handlers and a      *)
(* timer; connected at once, when no handler is set yet; failed.           *)
Connected(r) ==
  {Register(r, Sides, {"w"}), Register(r, {}, {}),
   [r EXCEPT !.fd = FALSE, !.active = Sides]}

(* conn_pool_get_connection and http_conn_connect. *)
Take ==
  /\ Running /\ mode = "worker" /\ free # <<>>
  /\ LET c == Head(free)
     IN /\ Renewed(c)
        /\ \E r \in Connected(conn_set_default(conn[c])) :
             conn' = [conn EXCEPT ![c] = r]
  /\ free' = Tail(free)
  /\ Same

(* http_retry_connect, from the handler that waits for the connection: the *)
(* timer of the write event has fired or is deleted first.                 *)
Reconnect(c) ==
  /\ Running /\ mode = "worker" /\ c \in Held
  /\ conn[c].timer \subseteq {"w"}
  /\ gen[c] < MaxReuse
  /\ gen' = [gen EXCEPT ![c] = @ + 1]
  /\ \E r \in Connected(conn_set_default(conn[c])) :
       conn' = [conn EXCEPT ![c] = r]
  /\ Same /\ UNCHANGED <<free, torn>>

(* event_handle_read, event_handle_write, and the event_delete of          *)
(* request_block_writing.                                                  *)
Watch(c) ==
  /\ Running /\ c \in Held /\ conn[c].fd
  /\ \/ \E x \in Sides : conn' = [conn EXCEPT ![c] = event_handle(@, x)]
     \/ conn' = [conn EXCEPT ![c] = epoll_del_event(@, "w")]
  /\ Same /\ UNCHANGED <<free, gen, torn>>

(* event_timer_add, event_timer_del. *)
Timer(c, x) ==
  /\ Running /\ c \in Held /\ conn[c].fd
  /\ conn' = [conn EXCEPT ![c].timer = IF x \in @ THEN @ \ {x} ELSE @ \cup {x}]
  /\ Same /\ UNCHANGED <<free, gen, torn>>

-----------------------------------------------------------------------------
(* The beginning and the end of a loop. *)

LoopUnchanged ==
  UNCHANGED <<mode, conn, free, batch, half, accq, postq, gen, call, torn>>

(* The descriptor is created, or not. *)
epoll_init == ep' \in {"none", "open"}

epoll_done == ep' = "closed"

(* epoll_init and conn_pool_init; a process that cannot have them exits. *)
thread_event_init ==
  /\ pc = "init"
  /\ epoll_init
  /\ pc' \in IF ep' = "open" THEN {"watch", "ended"} ELSE {"ended"}
  /\ LoopUnchanged /\ UNCHANGED listening

(* PipedEventWatcher::Init of the result watcher (WatchInvokeComplete) or  *)
(* of the task watcher (Worker::Init); after a failure the process exits.  *)
WatchPipe ==
  /\ pc = "watch"
  /\ \/ pc' = (IF mode = "main" THEN "register" ELSE "wait") /\ UNCHANGED ep
     \/ pc' = "ended" /\ (IF mode = "main" THEN UNCHANGED ep ELSE epoll_done)
  /\ LoopUnchanged /\ UNCHANGED listening

(* HTTPService::RegisterEvent; RegisterService does not look at the result *)
(* and the process goes on without a listening socket.                     *)
RegisterEvent ==
  /\ pc = "register"
  /\ listening' \in BOOLEAN
  /\ pc' = "wait"
  /\ LoopUnchanged /\ UNCHANGED ep

(* HTTPService::Stop, called by the handler of the master's channel. *)
StopService ==
  /\ mode = "main" /\ pc = "pipe" /\ listening
  /\ epoll_done
  /\ LoopUnchanged /\ UNCHANGED <<pc, listening>>

(* Worker::Close, called by HandleStop, the handler of the stop pipe: the  *)
(* pool and the thread's structure are freed, and running_ cleared.  What  *)
(* the loop does with the freed structure before it looks at running_, for *)
(* the next entry of the batch and for the timers, is undefined.           *)
WorkerClose ==
  /\ mode = "worker" /\ pc = "pipe"
  /\ epoll_done
  /\ pc' = "ended"
  /\ LoopUnchanged /\ UNCHANGED listening

Ended == pc = "ended" /\ UNCHANGED vars

Next ==
  \/ thread_event_init \/ WatchPipe \/ RegisterEvent
  \/ StopService \/ WorkerClose \/ Ended
  \/ epoll_wait \/ BatchDone \/ Post \/ Direct \/ DirectDone
  \/ AcceptPosted \/ Posted \/ PostedDone
  \/ \E c \in Conns, x \in Sides : Expire(c, x)
  \/ ExpireDone
  \/ \E c \in Conns : Close(c)
  \/ Take
  \/ \E c \in Conns : Reconnect(c)
  \/ \E c \in Conns : Watch(c)
  \/ \E c \in Conns, x \in Sides : Timer(c, x)

Spec == Init /\ [][Next]_vars

-----------------------------------------------------------------------------
(* Properties *)

(* A handler is called for the connection its event was reported of, never *)
(* for one that took its place in the same batch (the instance bit of      *)
(* epoll_process_events, the two queues of thread_event_process); except   *)
(* that in a worker the write event of an entry whose read handler         *)
(* replaced the connection is not checked, and an entry passes the check   *)
(* when the connection was replaced twice.                                 *)
FreshEvents ==
  call.was # call.is =>
    mode = "worker" /\ (call.half \/ call.is >= call.was + 2)

(* conn_set_default never clears an event that is in a queue or in the     *)
(* tree of timers, which would cut the list or the tree in two; every      *)
(* connection is in the pool or held, a free one has neither a descriptor  *)
(* nor a timer.  (The types of the variables are part of it.)              *)
PoolIntact ==
  /\ TypeOK
  /\ ~torn
  /\ IsInjective(free)
  /\ \A c \in ToSet(free) : ~conn[c].fd /\ conn[c].timer = {}

(* epoll is asked for exactly the events that are marked active, however   *)
(* handlers add and delete them: epoll_add_event and epoll_del_event       *)
(* choose between adding, changing and deleting by the flag of the other   *)
(* event alone, and a flag the kernel does not agree with is an event that *)
(* is never reported or one nobody waits for.  Only a loop whose epoll     *)
(* descriptor is closed differs.                                           *)
WatchedActive ==
  \A c \in Conns :
    (conn[c].fd /\ ep = "open") => conn[c].watch = conn[c].active
=============================================================================
