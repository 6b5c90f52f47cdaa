-------------------------- MODULE EventLoopProofs ---------------------------
(***************************************************************************)
(* Proofs about EventLoop, for every size of the pool, every batch and any *)
(* number of replacements of a connection in a batch.                      *)
(***************************************************************************)
EXTENDS EventLoop, FiniteSetTheorems, SequenceTheorems, TLAPS

USE LoopAssumption DEF Listen, Pipe

-----------------------------------------------------------------------------
(* The inductive invariants.                                               *)

ConnRec == [fd : BOOLEAN, inst : 0..1, active : SUBSET Sides,
            handler : SUBSET Sides, timer : SUBSET Sides, watch : SUBSET Sides]

(* The parts of the type invariant. *)
ConnType == conn \in [Conns -> ConnRec]
FreeType == free \in Seq(Conns)
GenType == gen \in [Conns -> 0..MaxReuse]
ControlType ==
  /\ mode \in {"main", "worker"}
  /\ pc \in {"init", "watch", "register", "wait", "batch", "direct", "accept",
             "queue", "posted", "pipe", "timers", "timer", "ended"}
  /\ ep \in {"none", "open", "closed"}
  /\ listening \in BOOLEAN

(* What epoll_wait reports, and what is posted of it. *)
Entry == [c : Conns \cup {Listen, Pipe}, inst : 0..1, ev : SUBSET Sides,
          gen : {0}]
PostedEntry(C) == [c : C, x : Sides, gen : {0}]

(* The queues: rev->accepted decides which of them an event is posted to. *)
QueueType ==
  /\ batch \in Seq(Entry) /\ half \in Entry
  /\ accq \in Seq(PostedEntry({Listen}))
  /\ postq \in Seq(PostedEntry(Conns \cup {Pipe}))

(* A connection without descriptor has no timer. *)
Closed == \A c \in Conns : ~conn[c].fd => conn[c].timer = {}

(* None has a descriptor before the epoll descriptor is created. *)
Start == pc = "init" => \A c \in Conns : ~conn[c].fd

(* The pool: nothing is in it twice, and nothing that is open. *)
Pool ==
  /\ IsInjective(free)
  /\ \A i \in DOMAIN free : ~conn[free[i]].fd

(* No event was cleared while it was in a queue or in the timers. *)
Untorn == torn = FALSE

(* The phases of an iteration: a worker posts nothing, the queue is empty  *)
(* when the timers run, and while the accept handlers may take connections *)
(* from the pool, the posted events are about open ones.                   *)
Phases ==
  /\ mode = "worker" => accq = <<>> /\ postq = <<>>
  /\ pc \in {"init", "watch", "register", "wait", "timers", "timer", "ended"}
       => postq = <<>>
  /\ pc \in {"batch", "accept"} =>
       \A i \in DOMAIN postq : postq[i].c \in Conns => conn[postq[i].c].fd

(* A posted event is about a connection that was not replaced in this      *)
(* batch; in a worker one replacement flips the instance bit of an entry.  *)
Incarnations ==
  /\ mode = "main" =>
       /\ pc = "batch" => \A c \in Conns : gen[c] = 0
       /\ \A i \in DOMAIN postq : postq[i].c \in Conns => gen[postq[i].c] = 0
  /\ mode = "worker" =>
       \A i \in DOMAIN batch : batch[i].c \in Conns =>
         /\ gen[batch[i].c] = 0 => conn[batch[i].c].inst = batch[i].inst
         /\ gen[batch[i].c] = 1 => conn[batch[i].c].inst # batch[i].inst

-----------------------------------------------------------------------------
(* What the operations on a connection do to its record.                   *)

LEMMA SetDefaultRec ==
  ASSUME NEW r \in ConnRec
  PROVE  /\ conn_set_default(r) \in ConnRec
         /\ conn_set_default(r).fd
         /\ conn_set_default(r).inst = 1 - r.inst
         /\ conn_set_default(r).active = {}
         /\ conn_set_default(r).timer = {}
         /\ conn_set_default(r).watch = {}
<1> DEFINE i == 1 - r.inst
<1>1. i \in 0..1
    BY DEF ConnRec
<1>2. conn_set_default(r) = [conn_pool_init EXCEPT !.fd = TRUE, !.inst = i]
    BY DEF conn_set_default
<1> HIDE DEF i
<1>3. conn_set_default(r) \in ConnRec
    BY <1>1, <1>2 DEF conn_pool_init, ConnRec
<1>4. /\ conn_set_default(r).fd
      /\ conn_set_default(r).active = {}
      /\ conn_set_default(r).timer = {}
      /\ conn_set_default(r).watch = {}
    BY <1>2 DEF conn_pool_init
<1>5. conn_set_default(r).inst = i
    BY <1>2 DEF conn_pool_init
<1> QED BY <1>3, <1>4, <1>5 DEF i

LEMMA CloseRec ==
  ASSUME NEW r \in ConnRec
  PROVE  /\ conn_close(r) \in ConnRec
         /\ ~conn_close(r).fd
         /\ conn_close(r).inst = r.inst
         /\ r.fd => conn_close(r).timer = {}
         /\ ~r.fd => conn_close(r) = r
  BY DEF conn_close, epoll_del_connection, ConnRec

LEMMA HandleRec ==
  ASSUME NEW r \in ConnRec, NEW x \in Sides
  PROVE  /\ event_handle(r, x) \in ConnRec
         /\ event_handle(r, x).fd = r.fd
         /\ event_handle(r, x).inst = r.inst
         /\ event_handle(r, x).timer = r.timer
         /\ (ep = "open" /\ r.watch = r.active)
              => event_handle(r, x).watch = event_handle(r, x).active
  BY DEF event_handle, epoll_add_event, ConnRec

LEMMA DelEventRec ==
  ASSUME NEW r \in ConnRec, NEW x \in Sides
  PROVE  /\ epoll_del_event(r, x) \in ConnRec
         /\ epoll_del_event(r, x).fd = r.fd
         /\ epoll_del_event(r, x).inst = r.inst
         /\ epoll_del_event(r, x).timer = r.timer
         /\ (ep = "open" /\ r.watch = r.active)
              => epoll_del_event(r, x).watch = epoll_del_event(r, x).active
  BY DEF epoll_del_event, ConnRec

LEMMA ConnectedRec ==
  ASSUME NEW r \in ConnRec, NEW q \in Connected(conn_set_default(r))
  PROVE  /\ q \in ConnRec
         /\ q.inst = 1 - r.inst
         /\ q.fd => q.watch = q.active
         /\ ~q.fd => q.timer = {}
<1> DEFINE d == conn_set_default(r)
           i == 1 - r.inst
<1>1. d \in ConnRec /\ d.inst = i /\ d.timer = {}
    BY SetDefaultRec
<1> HIDE DEF d, i
<1>2. \/ q = Register(d, Sides, {"w"})
      \/ q = Register(d, {}, {})
      \/ q = [d EXCEPT !.fd = FALSE, !.active = Sides]
    BY DEF Connected, d
<1>3. CASE q = Register(d, Sides, {"w"})
  <2>1. q \in ConnRec
      BY <1>1, <1>3 DEF Register, ConnRec, Sides
  <2> QED BY <1>1, <1>3, <2>1, SetDefaultRec DEF Register, ConnRec, d, i
<1>4. CASE q = Register(d, {}, {})
  <2>1. q \in ConnRec
      BY <1>1, <1>4 DEF Register, ConnRec
  <2> QED BY <1>1, <1>4, <2>1, SetDefaultRec DEF Register, ConnRec, d, i
<1>5. CASE q = [d EXCEPT !.fd = FALSE, !.active = Sides]
  <2>1. q \in ConnRec
      BY <1>1, <1>5 DEF ConnRec
  <2> QED BY <1>1, <1>5, <2>1 DEF ConnRec, i
<1> QED BY <1>2, <1>3, <1>4, <1>5

LEMMA AcceptedRec ==
  ASSUME NEW r \in ConnRec
  PROVE  LET d == [conn_set_default(r) EXCEPT !.handler = Sides]
         IN /\ d \in ConnRec
            /\ d.fd
            /\ d.inst = 1 - r.inst
            /\ d.watch = d.active
<1> DEFINE i == 1 - r.inst
           e == conn_set_default(r)
<1>1. e \in ConnRec /\ e.fd /\ e.inst = i /\ e.watch = e.active
    BY SetDefaultRec
<1> HIDE DEF i, e
<1>2. [e EXCEPT !.handler = Sides] \in ConnRec
    BY <1>1 DEF ConnRec, Sides
<1>3. /\ [e EXCEPT !.handler = Sides].fd
      /\ [e EXCEPT !.handler = Sides].inst = i
      /\ [e EXCEPT !.handler = Sides].watch
           = [e EXCEPT !.handler = Sides].active
    BY <1>1 DEF ConnRec
<1> QED BY <1>2, <1>3 DEF i, e

-----------------------------------------------------------------------------
(* What the actions do to the connections.                                 *)

(* The first free connection. *)
LEMMA HeadFree ==
  ASSUME TypeOK, free # <<>>
  PROVE  /\ Head(free) \in Conns /\ Head(free) = free[1]
         /\ conn[Head(free)] \in ConnRec
         /\ Tail(free) \in Seq(Conns) /\ Len(Tail(free)) = Len(free) - 1
         /\ 1 \in DOMAIN free
         /\ \A i \in DOMAIN Tail(free) :
              i + 1 \in DOMAIN free /\ Tail(free)[i] = free[i + 1]
  BY DEF TypeOK, ConnRec

(* http_accept_handler renews the first free connection, or does nothing. *)
LEMMA AcceptConn ==
  ASSUME TypeOK, AcceptPosted
  PROVE  \/ UNCHANGED <<conn, free, gen, torn>>
         \/ /\ free # <<>> /\ Renewed(Head(free))
            /\ \E q \in ConnRec :
                 /\ conn' = [conn EXCEPT ![Head(free)] = q]
                 /\ q.inst = 1 - conn[Head(free)].inst
                 /\ \/ ~q.fd /\ q.timer = {} /\ free' = free
                    \/ /\ q.fd /\ free' = Tail(free)
                       /\ ep = "open" => q.watch = q.active
<1> DEFINE c == Head(free)
           r == conn_set_default(conn[c])
           d == [r EXCEPT !.handler = Sides]
<1>1. CASE UNCHANGED <<conn, free, gen, torn>>
    BY <1>1
<1>2. CASE /\ free # <<>> /\ Renewed(c)
           /\ conn' = [conn EXCEPT ![c] = event_handle(d, "r")]
           /\ free' = Tail(free)
  <2>1. conn[c] \in ConnRec
      BY <1>2, HeadFree
  <2>2. /\ d \in ConnRec /\ d.fd /\ d.watch = d.active
        /\ d.inst = 1 - conn[c].inst
      BY <2>1, AcceptedRec
  <2> HIDE DEF d
  <2>3. /\ event_handle(d, "r") \in ConnRec
        /\ event_handle(d, "r").fd
        /\ event_handle(d, "r").inst = 1 - conn[c].inst
        /\ ep = "open" =>
             event_handle(d, "r").watch = event_handle(d, "r").active
      BY <2>2, HandleRec DEF Sides
  <2> QED BY <1>2, <2>3
<1>3. CASE /\ free # <<>> /\ Renewed(c)
           /\ conn' = [conn EXCEPT ![c] = conn_close(r)]
           /\ UNCHANGED free
  <2>1. conn[c] \in ConnRec
      BY <1>3, HeadFree
  <2>2. r \in ConnRec /\ r.fd /\ r.inst = 1 - conn[c].inst
      BY <2>1, SetDefaultRec
  <2> HIDE DEF r
  <2>3. /\ conn_close(r) \in ConnRec /\ ~conn_close(r).fd
        /\ conn_close(r).inst = 1 - conn[c].inst
        /\ conn_close(r).timer = {}
      BY <2>2, CloseRec
  <2> QED BY <1>3, <2>3
<1> QED BY <1>1, <1>2, <1>3 DEF AcceptPosted, Accepted

(* conn_pool_get_connection renews it, too. *)
LEMMA TakeConn ==
  ASSUME TypeOK, Take
  PROVE  /\ free # <<>> /\ Renewed(Head(free)) /\ free' = Tail(free)
         /\ \E q \in ConnRec :
              /\ conn' = [conn EXCEPT ![Head(free)] = q]
              /\ q.inst = 1 - conn[Head(free)].inst
              /\ ~q.fd => q.timer = {}
              /\ q.fd => q.watch = q.active
<1>1. PICK q \in Connected(conn_set_default(conn[Head(free)])) :
        conn' = [conn EXCEPT ![Head(free)] = q]
    BY DEF Take
<1>2. free # <<>> /\ Renewed(Head(free)) /\ free' = Tail(free)
    BY DEF Take
<1>3. conn[Head(free)] \in ConnRec
    BY <1>2, HeadFree
<1> QED BY <1>1, <1>2, <1>3, ConnectedRec

(* http_retry_connect renews a connection that is held. *)
LEMMA ReconnectConn ==
  ASSUME TypeOK, NEW c \in Conns, Reconnect(c)
  PROVE  \E q \in ConnRec :
           /\ conn' = [conn EXCEPT ![c] = q]
           /\ q.inst = 1 - conn[c].inst
           /\ ~q.fd => q.timer = {}
           /\ q.fd => q.watch = q.active
<1>1. PICK q \in Connected(conn_set_default(conn[c])) :
        conn' = [conn EXCEPT ![c] = q]
    BY DEF Reconnect
<1>2. conn[c] \in ConnRec
    BY DEF TypeOK, ConnRec
<1> QED BY <1>1, <1>2, ConnectedRec

(* conn_release closes it. *)
LEMMA CloseConn ==
  ASSUME TypeOK, Closed, NEW c \in Conns, Close(c)
  PROVE  \E q \in ConnRec :
           /\ conn' = [conn EXCEPT ![c] = q]
           /\ q.inst = conn[c].inst
           /\ ~q.fd /\ q.timer = {}
<1>1. conn[c] \in ConnRec
    BY DEF TypeOK, ConnRec
<1>2. conn_close(conn[c]).timer = {}
    BY <1>1, CloseRec DEF Closed, ConnRec
<1> QED BY <1>1, <1>2, CloseRec DEF Close

(* The other handlers change what epoll is asked for and the timers. *)
LEMMA WatchConn ==
  ASSUME TypeOK, NEW c \in Conns, Watch(c)
  PROVE  \E q \in ConnRec :
           /\ conn' = [conn EXCEPT ![c] = q]
           /\ q.inst = conn[c].inst /\ q.fd = conn[c].fd
           /\ q.timer = conn[c].timer
           /\ ep = "open" /\ conn[c].watch = conn[c].active
                => q.watch = q.active
<1>1. conn[c] \in ConnRec
    BY DEF TypeOK, ConnRec
<1>2. \/ \E x \in Sides : conn' = [conn EXCEPT ![c] = event_handle(conn[c], x)]
      \/ conn' = [conn EXCEPT ![c] = epoll_del_event(conn[c], "w")]
    BY <1>1 DEF Watch
<1> QED BY <1>1, <1>2, HandleRec, DelEventRec DEF Sides

LEMMA TimerConn ==
  ASSUME TypeOK, NEW c \in Conns, NEW x \in Sides, Timer(c, x) \/ Expire(c, x)
  PROVE  \E q \in ConnRec :
           /\ conn' = [conn EXCEPT ![c] = q]
           /\ q.inst = conn[c].inst /\ q.fd = conn[c].fd
           /\ q.watch = conn[c].watch /\ q.active = conn[c].active
           /\ q.timer # {} => conn[c].fd \/ conn[c].timer # {}
<1>1. conn[c] \in ConnRec
    BY DEF TypeOK, ConnRec
<1>2. PICK t \in SUBSET Sides :
        /\ conn' = [conn EXCEPT ![c] = [conn[c] EXCEPT !.timer = t]]
        /\ t # {} => conn[c].fd \/ conn[c].timer # {}
    BY <1>1 DEF Timer, Expire, ConnRec
<1>3. [conn[c] EXCEPT !.timer = t] \in ConnRec
    BY <1>1 DEF ConnRec
<1> QED BY <1>1, <1>2, <1>3 DEF ConnRec

-----------------------------------------------------------------------------
(* Every step keeps the control state in range. *)
LEMMA ControlTypeStep ==
  ASSUME TypeOK, [Next]_vars PROVE ControlType'
<1> USE DEF TypeOK, ControlType
<1>1. CASE thread_event_init
    BY <1>1 DEF thread_event_init, epoll_init, LoopUnchanged
<1>2. CASE WatchPipe
    BY <1>2 DEF WatchPipe, epoll_done, LoopUnchanged
<1>3. CASE RegisterEvent
    BY <1>3 DEF RegisterEvent, LoopUnchanged
<1>4. CASE StopService
    BY <1>4 DEF StopService, epoll_done, LoopUnchanged
<1>5. CASE WorkerClose
    BY <1>5 DEF WorkerClose, epoll_done, LoopUnchanged
<1>6. CASE epoll_wait
    BY <1>6 DEF epoll_wait, lvars
<1>7. CASE BatchDone
    BY <1>7 DEF BatchDone, lvars
<1>8. CASE Post
    BY <1>8 DEF Post, PostTo, lvars, Listen
<1>9. CASE Direct
    BY <1>9 DEF Direct, Pipe, Called, lvars
<1>10. CASE DirectDone
    BY <1>10 DEF DirectDone, Called, lvars
<1>11. CASE Posted
    BY <1>11 DEF Posted, Queue, Listen, Pop, Pipe, Called, lvars
<1>12. CASE PostedDone
    BY <1>12 DEF PostedDone, lvars
<1>13. ASSUME NEW c \in Conns, NEW x \in Sides, Expire(c, x)
      PROVE  ControlType'
    BY <1>13 DEF Expire, lvars
<1>14. CASE ExpireDone
    BY <1>14 DEF ExpireDone, lvars
<1>15. CASE AcceptPosted \/ Take
  <2>1. UNCHANGED <<mode, batch, pc, ep, listening>>
    BY <1>15 DEF AcceptPosted, Queue, Listen, Pop, lvars, Take, Renewed, Same
  <2> QED BY <2>1
<1>16. ASSUME NEW c \in Conns, Close(c)
      PROVE  ControlType'
  <2>1. UNCHANGED <<mode, batch, pc, ep, listening>>
    BY <1>16 DEF Close, Same, lvars
  <2> QED BY <2>1
<1>17. ASSUME NEW c \in Conns, Reconnect(c)
      PROVE  ControlType'
  <2>1. UNCHANGED <<mode, batch, pc, ep, listening>>
    BY <1>17 DEF Reconnect, Same, lvars
  <2> QED BY <2>1
<1>18. ASSUME NEW c \in Conns, Watch(c)
      PROVE  ControlType'
  <2>1. UNCHANGED <<mode, batch, pc, ep, listening>>
    BY <1>18 DEF Watch, Same, lvars
  <2> QED BY <2>1
<1>19. ASSUME NEW c \in Conns, NEW x \in Sides, Timer(c, x)
      PROVE  ControlType'
  <2>1. UNCHANGED <<mode, batch, pc, ep, listening>>
    BY <1>19 DEF Timer, Same, lvars
  <2> QED BY <2>1
<1>20. CASE UNCHANGED vars
    BY <1>20 DEF vars, lvars
<1> QED BY <1>1, <1>2, <1>3, <1>4, <1>5, <1>6, <1>7, <1>8, <1>9, <1>10,
      <1>11, <1>12, <1>13, <1>14, <1>15, <1>16, <1>17, <1>18, <1>19, <1>20
      DEF Next, Ended

(* Every step keeps the connections records. *)
LEMMA ConnTypeStep ==
  ASSUME TypeOK, Closed, [Next]_vars PROVE ConnType'
<1> USE DEF TypeOK, ConnType, ConnRec
<1>1. CASE AcceptPosted
    BY <1>1, AcceptConn, HeadFree
<1>2. ASSUME NEW c \in Conns, NEW x \in Sides, Expire(c, x)
      PROVE  ConnType'
    BY <1>2, TimerConn
<1>3. ASSUME NEW c \in Conns, Close(c)
      PROVE  ConnType'
    BY <1>3, CloseConn
<1>4. CASE Take
    BY <1>4, TakeConn, HeadFree
<1>5. ASSUME NEW c \in Conns, Reconnect(c)
      PROVE  ConnType'
    BY <1>5, ReconnectConn
<1>6. ASSUME NEW c \in Conns, Watch(c)
      PROVE  ConnType'
    BY <1>6, WatchConn
<1>7. ASSUME NEW c \in Conns, NEW x \in Sides, Timer(c, x)
      PROVE  ConnType'
    BY <1>7, TimerConn
<1>8. CASE thread_event_init \/ WatchPipe \/ RegisterEvent \/ StopService \/
           WorkerClose \/ epoll_wait \/ BatchDone \/ Post \/ Direct \/
           DirectDone \/ Posted \/ PostedDone \/ ExpireDone
  <2>1. UNCHANGED <<conn>>
    BY <1>8 DEF thread_event_init, epoll_init, LoopUnchanged, WatchPipe,
      epoll_done, RegisterEvent, StopService, WorkerClose, epoll_wait, lvars,
      BatchDone, Post, PostTo, Listen, Direct, Pipe, Called, DirectDone,
      Posted, Queue, Pop, PostedDone, ExpireDone
  <2> QED BY <2>1
<1>9. CASE UNCHANGED vars
    BY <1>9 DEF vars, lvars
<1> QED BY <1>1, <1>2, <1>3, <1>4, <1>5, <1>6, <1>7, <1>8, <1>9 DEF Next,
      Ended

(* Every step keeps the pool a list of connections. *)
LEMMA FreeTypeStep ==
  ASSUME TypeOK, [Next]_vars PROVE FreeType'
<1> USE DEF TypeOK, FreeType
<1>1. CASE AcceptPosted
    BY <1>1, AcceptConn, HeadFree
<1>2. ASSUME NEW c \in Conns, Close(c)
      PROVE  FreeType'
    BY <1>2 DEF Close, Same, lvars
<1>3. CASE Take
    BY <1>3, TakeConn, HeadFree
<1>4. CASE thread_event_init \/ WatchPipe \/ RegisterEvent \/ StopService \/
           WorkerClose \/ epoll_wait \/ BatchDone \/ Post \/ Direct \/
           DirectDone \/ Posted \/ PostedDone \/ ExpireDone
  <2>1. UNCHANGED <<free>>
    BY <1>4 DEF thread_event_init, epoll_init, LoopUnchanged, WatchPipe,
      epoll_done, RegisterEvent, StopService, WorkerClose, epoll_wait, lvars,
      BatchDone, Post, PostTo, Listen, Direct, Pipe, Called, DirectDone,
      Posted, Queue, Pop, PostedDone, ExpireDone
  <2> QED BY <2>1
<1>5. ASSUME NEW c \in Conns, NEW x \in Sides, Expire(c, x)
      PROVE  FreeType'
  <2>1. UNCHANGED <<free>>
    BY <1>5 DEF Expire, lvars
  <2> QED BY <2>1
<1>6. ASSUME NEW c \in Conns, Reconnect(c)
      PROVE  FreeType'
  <2>1. UNCHANGED <<free>>
    BY <1>6 DEF Reconnect, Same, lvars
  <2> QED BY <2>1
<1>7. ASSUME NEW c \in Conns, Watch(c)
      PROVE  FreeType'
  <2>1. UNCHANGED <<free>>
    BY <1>7 DEF Watch, Same, lvars
  <2> QED BY <2>1
<1>8. ASSUME NEW c \in Conns, NEW x \in Sides, Timer(c, x)
      PROVE  FreeType'
  <2>1. UNCHANGED <<free>>
    BY <1>8 DEF Timer, Same, lvars
  <2> QED BY <2>1
<1>9. CASE UNCHANGED vars
    BY <1>9 DEF vars, lvars
<1> QED BY <1>1, <1>2, <1>3, <1>4, <1>5, <1>6, <1>7, <1>8, <1>9 DEF Next,
      Ended

(* Every step keeps the count of replacements within its bound. *)
LEMMA GenTypeStep ==
  ASSUME TypeOK, [Next]_vars PROVE GenType'
<1> USE DEF TypeOK, GenType
<1>1. CASE epoll_wait
    BY <1>1 DEF epoll_wait, lvars
<1>2. CASE AcceptPosted
    BY <1>2, AcceptConn, HeadFree DEF Renewed
<1>3. CASE Take
  <2>1. Renewed(Head(free)) /\ Head(free) \in Conns
      BY <1>3, TakeConn, HeadFree
  <2> QED BY <2>1 DEF Renewed
<1>4. ASSUME NEW c \in Conns, Reconnect(c)
      PROVE  GenType'
    BY <1>4 DEF Reconnect, Same, lvars
<1>5. CASE thread_event_init \/ WatchPipe \/ RegisterEvent \/ StopService \/
           WorkerClose \/ BatchDone \/ Post \/ Direct \/ DirectDone \/ Posted
           \/ PostedDone \/ ExpireDone
  <2>1. UNCHANGED <<gen>>
    BY <1>5 DEF thread_event_init, epoll_init, LoopUnchanged, WatchPipe,
      epoll_done, RegisterEvent, StopService, WorkerClose, BatchDone, lvars,
      Post, PostTo, Listen, Direct, Pipe, Called, DirectDone, Posted, Queue,
      Pop, PostedDone, ExpireDone
  <2> QED BY <2>1
<1>6. ASSUME NEW c \in Conns, NEW x \in Sides, Expire(c, x)
      PROVE  GenType'
  <2>1. UNCHANGED <<gen>>
    BY <1>6 DEF Expire, lvars
  <2> QED BY <2>1
<1>7. ASSUME NEW c \in Conns, Close(c)
      PROVE  GenType'
  <2>1. UNCHANGED <<gen>>
    BY <1>7 DEF Close, Same, lvars
  <2> QED BY <2>1
<1>8. ASSUME NEW c \in Conns, Watch(c)
      PROVE  GenType'
  <2>1. UNCHANGED <<gen>>
    BY <1>8 DEF Watch, Same, lvars
  <2> QED BY <2>1
<1>9. ASSUME NEW c \in Conns, NEW x \in Sides, Timer(c, x)
      PROVE  GenType'
  <2>1. UNCHANGED <<gen>>
    BY <1>9 DEF Timer, Same, lvars
  <2> QED BY <2>1
<1>10. CASE UNCHANGED vars
    BY <1>10 DEF vars, lvars
<1> QED BY <1>1, <1>2, <1>3, <1>4, <1>5, <1>6, <1>7, <1>8, <1>9, <1>10 DEF
      Next, Ended

(* None is an entry like any other, of no events. *)
LEMMA NoneEntry == None \in Entry
  BY DEF None, Entry

(* What an entry posts for one of its sides. *)
LEMMA PostsType ==
  ASSUME NEW e \in Entry, NEW x \in Sides
  PROVE  /\ e.c = Listen => Posts(e, x) \in Seq(PostedEntry({Listen}))
         /\ e.c # Listen =>
              Posts(e, x) \in Seq(PostedEntry(Conns \cup {Pipe}))
<1>1. e.c \in Conns \cup {Listen, Pipe} /\ e.gen = 0
    BY DEF Entry
<1>2. Posts(e, x) = <<>> \/ Posts(e, x) = <<[c |-> e.c, x |-> x, gen |-> 0]>>
    BY <1>1 DEF Posts
<1>3. e.c = Listen => [c |-> e.c, x |-> x, gen |-> 0] \in PostedEntry({Listen})
    BY DEF PostedEntry
<1>4. e.c # Listen =>
        [c |-> e.c, x |-> x, gen |-> 0] \in PostedEntry(Conns \cup {Pipe})
    BY <1>1 DEF PostedEntry
<1> DEFINE p == [c |-> e.c, x |-> x, gen |-> 0]
<1> HIDE DEF p
<1>5. ASSUME NEW S, p \in S
      PROVE  Posts(e, x) \in Seq(S)
  <2>1. <<>> \in Seq(S) /\ <<p>> \in Seq(S)
      BY <1>5
  <2> QED BY <1>2, <2>1 DEF p
<1> QED BY <1>3, <1>4, <1>5 DEF p

(* The queue without its first event. *)
LEMMA PopType ==
  ASSUME QueueType, Queue # <<>>, Pop
  PROVE  /\ accq' \in Seq(PostedEntry({Listen}))
         /\ postq' \in Seq(PostedEntry(Conns \cup {Pipe}))
<1>1. ASSUME NEW S, NEW s \in Seq(S), s # <<>>
      PROVE  Tail(s) \in Seq(S)
    BY <1>1, HeadTailProperties
<1>2. CASE pc = "accept"
    BY <1>1, <1>2 DEF QueueType, Queue, Pop
<1>3. CASE pc # "accept"
    BY <1>1, <1>3 DEF QueueType, Queue, Pop
<1> QED BY <1>2, <1>3

(* Everything epoll reports is an entry, of the instance the connection    *)
(* has then.                                                               *)
LEMMA EntriesType ==
  ASSUME TypeOK
  PROVE  /\ Entries \subseteq Entry
         /\ \A e \in Entries : e.c \in Conns => e.inst = conn[e.c].inst
<1>1. \A c \in Conns : conn[c].inst \in 0..1 /\ conn[c].watch \in SUBSET Sides
    BY DEF TypeOK
<1>2. ASSUME NEW e \in Entries
      PROVE  e \in Entry /\ (e.c \in Conns => e.inst = conn[e.c].inst)
  <2>1. CASE e \in {[c |-> f, inst |-> 1, ev |-> {"r"}, gen |-> 0] :
                      f \in IF listening THEN {Listen, Pipe} ELSE {Pipe}}
      BY <2>1 DEF Entry, Sides, Conns
  <2>2. CASE \E c \in Conns : \E v \in Reports(c) :
               e = [c |-> c, inst |-> conn[c].inst, ev |-> v, gen |-> 0]
      BY <1>1, <2>2 DEF Entry, Reports
  <2> QED BY <1>2, <2>1, <2>2 DEF Entries
<1> QED BY <1>2

(* A batch is a sequence of them: it has at most one for each connection,  *)
(* so that it is finite.                                                   *)
LEMMA BatchEntries ==
  ASSUME TypeOK, epoll_wait
  PROVE  /\ batch' \in Seq(Entry)
         /\ \A i \in DOMAIN batch' :
              batch'[i].c \in Conns => batch'[i].inst = conn[batch'[i].c].inst
<1>1. PICK es \in SUBSET Entries :
        /\ \A a, b \in es : a.c = b.c => a = b
        /\ batch' \in SetToSeqs(es)
    BY DEF epoll_wait
<1>2. es \subseteq Entry
    BY EntriesType
<1>3. IsFiniteSet(es)
  <2> DEFINE f == [e \in es |-> e.c]
  <2>1. f \in Injection(es, (-1)..PoolSize)
      BY <1>1, <1>2 DEF Injection, IsInjective, Entry, Conns
  <2>2. IsFiniteSet((-1)..PoolSize)
      BY FS_Interval
  <2> QED BY <2>1, <2>2, FS_Injection
<1>4. batch' \in [1..Cardinality(es) -> es] /\ Cardinality(es) \in Nat
    BY <1>1, <1>3, FS_CardinalityType DEF SetToSeqs
<1>5. batch' \in Seq(es) /\ DOMAIN batch' = 1..Cardinality(es)
    BY <1>4, SeqDef
<1>6. \A i \in DOMAIN batch' : batch'[i] \in es
    BY <1>4, <1>5
<1> QED BY <1>2, <1>5, <1>6, EntriesType

(* Every step keeps the entries and the posted events in range. *)
LEMMA QueueTypeStep ==
  ASSUME TypeOK, QueueType, Closed, [Next]_vars PROVE QueueType'
<1> USE DEF QueueType
<1>1. CASE epoll_wait
    BY <1>1, BatchEntries DEF epoll_wait
<1>2. CASE Post
  <2>1. Head(batch) \in Entry /\ Tail(batch) \in Seq(Entry)
      BY <1>2 DEF Post
  <2>2. /\ Head(batch).c = Listen =>
             Posts(Head(batch), "r") \in Seq(PostedEntry({Listen}))
        /\ Head(batch).c # Listen => \A x \in Sides :
             Posts(Head(batch), x) \in Seq(PostedEntry(Conns \cup {Pipe}))
      BY <2>1, PostsType DEF Sides
  <2>3. /\ accq' \in Seq(PostedEntry({Listen}))
        /\ postq' \in Seq(PostedEntry(Conns \cup {Pipe}))
      BY <1>2, <2>2, ConcatProperties DEF Post, PostTo, Sides
  <2> QED BY <1>2, <2>1, <2>3 DEF Post
<1>3. CASE Direct
  <2>1. Head(batch) \in Entry /\ Tail(batch) \in Seq(Entry)
      BY <1>3 DEF Direct
  <2>2. half' \in Entry
      BY <1>3, <2>1, NoneEntry DEF Direct
  <2> QED BY <1>3, <2>1, <2>2 DEF Direct
<1>4. CASE DirectDone
    BY <1>4, NoneEntry DEF DirectDone
<1>5. CASE AcceptPosted
    BY <1>5, PopType DEF AcceptPosted
<1>6. CASE Posted
    BY <1>6, PopType DEF Posted
<1>7. CASE Take
    BY <1>7 DEF Take, Renewed, Same, lvars
<1>8. ASSUME NEW c \in Conns, Reconnect(c)
      PROVE  QueueType'
    BY <1>8 DEF Reconnect, Same, lvars
<1>9. CASE thread_event_init \/ WatchPipe \/ RegisterEvent \/ StopService \/
           WorkerClose \/ BatchDone \/ PostedDone \/ ExpireDone
  <2>1. UNCHANGED <<batch, half, accq, postq, gen>>
    BY <1>9 DEF thread_event_init, epoll_init, LoopUnchanged, WatchPipe,
      epoll_done, RegisterEvent, StopService, WorkerClose, BatchDone, lvars,
      PostedDone, ExpireDone
  <2> QED BY <2>1
<1>10. ASSUME NEW c \in Conns, NEW x \in Sides, Expire(c, x)
      PROVE  QueueType'
  <2>1. UNCHANGED <<batch, half, accq, postq, gen>>
    BY <1>10 DEF Expire, lvars
  <2> QED BY <2>1
<1>11. ASSUME NEW c \in Conns, Close(c)
      PROVE  QueueType'
  <2>1. UNCHANGED <<batch, half, accq, postq, gen>>
    BY <1>11 DEF Close, Same, lvars
  <2> QED BY <2>1
<1>12. ASSUME NEW c \in Conns, Watch(c)
      PROVE  QueueType'
  <2>1. UNCHANGED <<batch, half, accq, postq, gen>>
    BY <1>12 DEF Watch, Same, lvars
  <2> QED BY <2>1
<1>13. ASSUME NEW c \in Conns, NEW x \in Sides, Timer(c, x)
      PROVE  QueueType'
  <2>1. UNCHANGED <<batch, half, accq, postq, gen>>
    BY <1>13 DEF Timer, Same, lvars
  <2> QED BY <2>1
<1>14. CASE UNCHANGED vars
    BY <1>14 DEF vars, lvars
<1> QED BY <1>1, <1>2, <1>3, <1>4, <1>5, <1>6, <1>7, <1>8, <1>9, <1>10,
      <1>11, <1>12, <1>13, <1>14 DEF Next, Ended

(* Every step keeps timers on open connections. *)
LEMMA ClosedStep ==
  ASSUME TypeOK, Closed, [Next]_vars PROVE Closed'
<1> USE DEF TypeOK, ConnRec, Closed
<1>1. CASE AcceptPosted
    BY <1>1, AcceptConn, HeadFree
<1>2. ASSUME NEW c \in Conns, NEW x \in Sides, Expire(c, x)
      PROVE  Closed'
    BY <1>2, TimerConn
<1>3. ASSUME NEW c \in Conns, Close(c)
      PROVE  Closed'
    BY <1>3, CloseConn
<1>4. CASE Take
    BY <1>4, TakeConn, HeadFree
<1>5. ASSUME NEW c \in Conns, Reconnect(c)
      PROVE  Closed'
    BY <1>5, ReconnectConn
<1>6. ASSUME NEW c \in Conns, Watch(c)
      PROVE  Closed'
    BY <1>6, WatchConn
<1>7. ASSUME NEW c \in Conns, NEW x \in Sides, Timer(c, x)
      PROVE  Closed'
    BY <1>7, TimerConn
<1>8. CASE thread_event_init \/ WatchPipe \/ RegisterEvent \/ StopService \/
           WorkerClose \/ epoll_wait \/ BatchDone \/ Post \/ Direct \/
           DirectDone \/ Posted \/ PostedDone \/ ExpireDone
  <2>1. UNCHANGED <<conn>>
    BY <1>8 DEF thread_event_init, epoll_init, LoopUnchanged, WatchPipe,
      epoll_done, RegisterEvent, StopService, WorkerClose, epoll_wait, lvars,
      BatchDone, Post, PostTo, Listen, Direct, Pipe, Called, DirectDone,
      Posted, Queue, Pop, PostedDone, ExpireDone
  <2> QED BY <2>1
<1>9. CASE UNCHANGED vars
    BY <1>9 DEF vars, lvars
<1> QED BY <1>1, <1>2, <1>3, <1>4, <1>5, <1>6, <1>7, <1>8, <1>9 DEF Next,
      Ended

(* The loop is set up once. *)
LEMMA NeverInit ==
  ASSUME TypeOK, Next PROVE pc' # "init"
<1>1. CASE thread_event_init
    BY <1>1 DEF thread_event_init, epoll_init, LoopUnchanged
<1>2. CASE WatchPipe
    BY <1>2 DEF WatchPipe, epoll_done, LoopUnchanged
<1>3. CASE RegisterEvent
    BY <1>3 DEF RegisterEvent, LoopUnchanged
<1>4. CASE StopService
    BY <1>4 DEF StopService, epoll_done, LoopUnchanged
<1>5. CASE WorkerClose
    BY <1>5 DEF WorkerClose, epoll_done, LoopUnchanged
<1>6. CASE Ended
    BY <1>6 DEF Ended, vars
<1>7. CASE epoll_wait
    BY <1>7 DEF epoll_wait, lvars
<1>8. CASE BatchDone
    BY <1>8 DEF BatchDone, lvars
<1>9. CASE Post
    BY <1>9 DEF Post, PostTo, lvars, Listen
<1>10. CASE Direct
    BY <1>10 DEF Direct, Pipe, Called, lvars
<1>11. CASE DirectDone
    BY <1>11 DEF DirectDone, Called, lvars
<1>12. CASE AcceptPosted
    BY <1>12 DEF AcceptPosted, Queue, Listen, Pop, lvars
<1>13. CASE Posted
    BY <1>13 DEF Posted, Queue, Listen, Pop, Pipe, Called, lvars
<1>14. CASE PostedDone
    BY <1>14 DEF PostedDone, lvars
<1>15. ASSUME NEW c \in Conns, NEW x \in Sides, Expire(c, x)
      PROVE  pc' # "init"
    BY <1>15 DEF Expire, lvars
<1>16. CASE ExpireDone
    BY <1>16 DEF ExpireDone, lvars
<1>17. ASSUME NEW c \in Conns, Close(c)
      PROVE  pc' # "init"
    BY <1>17 DEF Close, Same, lvars, Running
<1>18. CASE Take
    BY <1>18 DEF Take, Renewed, Same, lvars, Running
<1>19. ASSUME NEW c \in Conns, Reconnect(c)
      PROVE  pc' # "init"
    BY <1>19 DEF Reconnect, Same, lvars, Running
<1>20. ASSUME NEW c \in Conns, Watch(c)
      PROVE  pc' # "init"
    BY <1>20 DEF Watch, Same, lvars, Running
<1>21. ASSUME NEW c \in Conns, NEW x \in Sides, Timer(c, x)
      PROVE  pc' # "init"
    BY <1>21 DEF Timer, Same, lvars, Running
<1> QED BY <1>1, <1>2, <1>3, <1>4, <1>5, <1>6, <1>7, <1>8, <1>9, <1>10,
      <1>11, <1>12, <1>13, <1>14, <1>15, <1>16, <1>17, <1>18, <1>19, <1>20,
      <1>21 DEF Next

(* Every step keeps the start. *)
LEMMA StartStep ==
  ASSUME TypeOK, Start, [Next]_vars PROVE Start'
  BY NeverInit DEF Start, vars

(* Every step keeps epoll asked for exactly the active events. *)
LEMMA WatchedStep ==
  ASSUME TypeOK, Closed, Start, WatchedActive, [Next]_vars
  PROVE  WatchedActive'
<1> USE DEF TypeOK, ConnRec, WatchedActive
<1>1. CASE thread_event_init
    BY <1>1 DEF thread_event_init, LoopUnchanged, Start
<1>2. CASE WatchPipe
    BY <1>2 DEF WatchPipe, LoopUnchanged, epoll_done
<1>3. CASE StopService
    BY <1>3 DEF StopService, LoopUnchanged, epoll_done
<1>4. CASE WorkerClose
    BY <1>4 DEF WorkerClose, LoopUnchanged, epoll_done
<1>5. CASE AcceptPosted
  <2>1. UNCHANGED ep
      BY <1>5 DEF AcceptPosted, lvars
  <2> QED BY <1>5, <2>1, AcceptConn, HeadFree
<1>6. ASSUME NEW c \in Conns, NEW x \in Sides, Expire(c, x)
      PROVE  WatchedActive'
  <2>1. UNCHANGED ep
      BY <1>6 DEF Expire, lvars
  <2> QED BY <1>6, <2>1, TimerConn
<1>7. ASSUME NEW c \in Conns, Close(c)
      PROVE  WatchedActive'
  <2>1. UNCHANGED ep
      BY <1>7 DEF Close, Same, lvars
  <2> QED BY <1>7, <2>1, CloseConn
<1>8. CASE Take
  <2>1. UNCHANGED ep
      BY <1>8 DEF Take, Same, lvars
  <2> QED BY <1>8, <2>1, TakeConn, HeadFree
<1>9. ASSUME NEW c \in Conns, Reconnect(c)
      PROVE  WatchedActive'
  <2>1. UNCHANGED ep
      BY <1>9 DEF Reconnect, Same, lvars
  <2> QED BY <1>9, <2>1, ReconnectConn
<1>10. ASSUME NEW c \in Conns, Watch(c)
      PROVE  WatchedActive'
  <2>1. UNCHANGED ep
      BY <1>10 DEF Watch, Same, lvars
  <2> QED BY <1>10, <2>1, WatchConn
<1>11. ASSUME NEW c \in Conns, NEW x \in Sides, Timer(c, x)
      PROVE  WatchedActive'
  <2>1. UNCHANGED ep
      BY <1>11 DEF Timer, Same, lvars
  <2> QED BY <1>11, <2>1, TimerConn
<1>12. CASE RegisterEvent \/ epoll_wait \/ BatchDone \/ Post \/ Direct \/
           DirectDone \/ Posted \/ PostedDone \/ ExpireDone
  <2>1. UNCHANGED <<conn, ep>>
    BY <1>12 DEF RegisterEvent, LoopUnchanged, epoll_wait, lvars, BatchDone,
      Post, PostTo, Listen, Direct, Pipe, Called, DirectDone, Posted, Queue,
      Pop, PostedDone, ExpireDone
  <2> QED BY <2>1
<1>13. CASE UNCHANGED vars
    BY <1>13 DEF vars, lvars
<1> QED BY <1>1, <1>2, <1>3, <1>4, <1>5, <1>6, <1>7, <1>8, <1>9, <1>10,
      <1>11, <1>12, <1>13 DEF Next, Ended

(* The elements of a sequence without its first. *)
LEMMA TailElements ==
  ASSUME NEW S, NEW s \in Seq(S), s # <<>>
  PROVE  \A i \in DOMAIN Tail(s) : i + 1 \in DOMAIN s /\ Tail(s)[i] = s[i + 1]
  OBVIOUS

(* The elements of a concatenation. *)
LEMMA ConcatElements ==
  ASSUME NEW S, NEW s \in Seq(S), NEW t \in Seq(S)
  PROVE  \A i \in DOMAIN (s \o t) :
           \/ \E j \in DOMAIN s : (s \o t)[i] = s[j]
           \/ \E j \in DOMAIN t : (s \o t)[i] = t[j]
<1> SUFFICES ASSUME NEW i \in DOMAIN (s \o t)
             PROVE  \/ \E j \in DOMAIN s : (s \o t)[i] = s[j]
                    \/ \E j \in DOMAIN t : (s \o t)[i] = t[j]
    OBVIOUS
<1>1. i \in 1..(Len(s) + Len(t))
    OBVIOUS
<1>2. CASE i <= Len(s)
    BY <1>1, <1>2
<1>3. CASE i > Len(s)
  <2>1. i - Len(s) \in DOMAIN t /\ (s \o t)[i] = t[i - Len(s)]
      BY <1>1, <1>3
  <2> QED BY <2>1
<1> QED BY <1>1, <1>2, <1>3

(* The pool without its first connection. *)
LEMMA TailPool ==
  ASSUME TypeOK, Pool, free # <<>>
  PROVE  /\ IsInjective(Tail(free))
         /\ \A i \in DOMAIN Tail(free) :
              /\ Tail(free)[i] # Head(free) /\ Tail(free)[i] \in Conns
              /\ ~conn[Tail(free)[i]].fd
<1>1. \A i \in DOMAIN Tail(free) :
        i + 1 \in DOMAIN free /\ Tail(free)[i] = free[i + 1] /\ i \in Nat \ {0}
    BY HeadFree DEF TypeOK
<1>2. Head(free) = free[1] /\ 1 \in DOMAIN free
    BY HeadFree
<1>3. \A i \in DOMAIN Tail(free) : Tail(free)[i] # Head(free)
    BY <1>1, <1>2 DEF Pool, IsInjective
<1>4. IsInjective(Tail(free))
    BY <1>1 DEF Pool, IsInjective
<1> QED BY <1>1, <1>3, <1>4 DEF Pool, TypeOK

(* What is posted comes from the entry, which is not stale. *)
LEMMA PostedFrom ==
  ASSUME TypeOK, QueueType, Post, NEW i \in DOMAIN postq'
  PROVE  \/ \E j \in DOMAIN postq : postq'[i] = postq[j]
         \/ /\ postq'[i].c = Head(batch).c
            /\ ~Stale(Head(batch))
<1> DEFINE e == Head(batch)
<1>1. e \in Entry
    BY DEF Post, QueueType
<1>2. CASE e.c = Listen \/ Stale(e)
    BY <1>2 DEF Post, PostTo
<1>3. CASE e.c # Listen /\ ~Stale(e)
  <2> DEFINE P == PostedEntry(Conns \cup {Pipe})
             r == Posts(e, "r")
             w == Posts(e, "w")
  <2>1. r \in Seq(P) /\ w \in Seq(P)
      BY <1>1, <1>3, PostsType DEF Sides
  <2>2. /\ \A k \in DOMAIN r : r[k].c = e.c
        /\ \A k \in DOMAIN w : w[k].c = e.c
      BY DEF Posts
  <2>3. postq' = (postq \o r) \o w /\ postq \in Seq(P)
      BY <1>3 DEF Post, PostTo, QueueType
  <2> HIDE DEF r, w, P, e
  <2>4. \/ \E j \in DOMAIN postq : postq'[i] = postq[j]
        \/ \E k \in DOMAIN r : postq'[i] = r[k]
        \/ \E k \in DOMAIN w : postq'[i] = w[k]
    <3>1. postq \in Seq(P) /\ postq \o r \in Seq(P)
        BY <2>1, <2>3
    <3>2. \A k \in DOMAIN ((postq \o r) \o w) :
            \/ \E j \in DOMAIN (postq \o r) :
                 ((postq \o r) \o w)[k] = (postq \o r)[j]
            \/ \E j \in DOMAIN w : ((postq \o r) \o w)[k] = w[j]
        BY <2>1, <3>1, ConcatElements
    <3>3. \A k \in DOMAIN (postq \o r) :
            \/ \E j \in DOMAIN postq : (postq \o r)[k] = postq[j]
            \/ \E j \in DOMAIN r : (postq \o r)[k] = r[j]
        BY <2>1, <3>1, ConcatElements
    <3> QED BY <2>3, <3>2, <3>3
  <2> QED BY <1>3, <2>2, <2>4 DEF e
<1> QED BY <1>2, <1>3

(* Connections are accepted in the main thread, before the posted events   *)
(* are looked at, and these are all in the other queue.                    *)
LEMMA AcceptPhase ==
  ASSUME QueueType, Phases, TypeOK, AcceptPosted
  PROVE  pc = "accept" /\ mode = "main"
<1>1. postq # <<>> => Head(postq).c # Listen
  <2>1. postq # <<>> => Head(postq) \in PostedEntry(Conns \cup {Pipe})
      BY DEF QueueType
  <2> QED BY <2>1 DEF PostedEntry, Conns
<1> QED BY <1>1 DEF AcceptPosted, Queue, Phases, TypeOK

LEMMA PostedPhase ==
  ASSUME QueueType, Phases, TypeOK, Posted
  PROVE  /\ pc = "queue" /\ mode = "main"
         /\ postq # <<>> /\ postq' = Tail(postq)
<1>1. accq # <<>> => Head(accq).c = Listen
  <2>1. accq # <<>> => Head(accq) \in PostedEntry({Listen})
      BY DEF QueueType
  <2> QED BY <2>1 DEF PostedEntry
<1> QED BY <1>1 DEF Posted, Queue, Pop, Phases, TypeOK

(* Every step keeps the pool free of duplicates and of open connections. *)
LEMMA PoolStep ==
  ASSUME TypeOK, Closed, Pool, [Next]_vars PROVE Pool'
<1> USE DEF TypeOK, ConnRec, Pool
<1>1. CASE AcceptPosted
  <2>1. CASE UNCHANGED <<conn, free>>
      BY <2>1
  <2>2. CASE free # <<>> /\ ~UNCHANGED <<conn, free>>
    <3>1. PICK q \in ConnRec :
            /\ conn' = [conn EXCEPT ![Head(free)] = q]
            /\ \/ ~q.fd /\ free' = free
               \/ q.fd /\ free' = Tail(free)
        BY <1>1, <2>2, AcceptConn
    <3>2. CASE ~q.fd /\ free' = free
        BY <2>2, <3>1, <3>2, HeadFree
    <3>3. CASE q.fd /\ free' = Tail(free)
        BY <2>2, <3>1, <3>3, TailPool
    <3> QED BY <3>1, <3>2, <3>3
  <2> QED BY <1>1, <2>1, <2>2, AcceptConn
<1>2. ASSUME NEW c \in Conns, NEW x \in Sides, Expire(c, x)
      PROVE  Pool'
    BY <1>2, TimerConn DEF Expire
<1>3. ASSUME NEW c \in Conns, Close(c)
      PROVE  Pool'
  <2>1. PICK q \in ConnRec : conn' = [conn EXCEPT ![c] = q] /\ ~q.fd
      BY <1>3, CloseConn
  <2>2. free' = <<c>> \o free /\ \A i \in DOMAIN free : free[i] # c
      BY <1>3 DEF Close, Held, ToSet
  <2>3. /\ DOMAIN free' = 1..(Len(free) + 1)
        /\ free'[1] = c
        /\ \A i \in DOMAIN free' \ {1} :
             i - 1 \in DOMAIN free /\ free'[i] = free[i - 1]
      BY <2>2
  <2>4. \A i \in DOMAIN free' : ~conn'[free'[i]].fd
      BY <2>1, <2>2, <2>3
  <2>5. IsInjective(free')
      BY <2>2, <2>3 DEF IsInjective
  <2> QED BY <2>4, <2>5
<1>4. CASE Take
  <2>1. PICK q \in ConnRec : conn' = [conn EXCEPT ![Head(free)] = q]
      BY <1>4, TakeConn
  <2> QED BY <1>4, <2>1, TakeConn, TailPool
<1>5. ASSUME NEW c \in Conns, Reconnect(c)
      PROVE  Pool'
  <2>1. PICK q \in ConnRec : conn' = [conn EXCEPT ![c] = q]
      BY <1>5, ReconnectConn
  <2>2. free' = free /\ \A i \in DOMAIN free : free[i] # c
      BY <1>5 DEF Reconnect, Held, ToSet
  <2> QED BY <2>1, <2>2
<1>6. ASSUME NEW c \in Conns, Watch(c)
      PROVE  Pool'
  <2>1. PICK q \in ConnRec :
          conn' = [conn EXCEPT ![c] = q] /\ q.fd = conn[c].fd
      BY <1>6, WatchConn
  <2> QED BY <1>6, <2>1 DEF Watch
<1>7. ASSUME NEW c \in Conns, NEW x \in Sides, Timer(c, x)
      PROVE  Pool'
    BY <1>7, TimerConn DEF Timer
<1>8. CASE thread_event_init \/ WatchPipe \/ RegisterEvent \/ StopService \/
           WorkerClose \/ epoll_wait \/ BatchDone \/ Post \/ Direct \/
           DirectDone \/ Posted \/ PostedDone \/ ExpireDone
  <2>1. UNCHANGED <<conn, free>>
    BY <1>8 DEF thread_event_init, epoll_init, LoopUnchanged, WatchPipe,
      epoll_done, RegisterEvent, StopService, WorkerClose, epoll_wait, lvars,
      BatchDone, Post, PostTo, Listen, Direct, Pipe, Called, DirectDone,
      Posted, Queue, Pop, PostedDone, ExpireDone
  <2> QED BY <2>1
<1>9. CASE UNCHANGED vars
    BY <1>9 DEF vars, lvars
<1> QED BY <1>1, <1>2, <1>3, <1>4, <1>5, <1>6, <1>7, <1>8, <1>9 DEF Next,
      Ended

(* Every step keeps the phases of the iteration. *)
LEMMA PhasesStep ==
  ASSUME TypeOK, QueueType, Closed, Pool, Phases, [Next]_vars PROVE Phases'
<1> USE DEF Phases
<1>1. CASE thread_event_init
    BY <1>1 DEF thread_event_init, LoopUnchanged
<1>2. CASE WatchPipe
    BY <1>2 DEF WatchPipe, epoll_done, LoopUnchanged
<1>3. CASE RegisterEvent
    BY <1>3 DEF RegisterEvent, LoopUnchanged
<1>4. CASE WorkerClose
    BY <1>4 DEF WorkerClose, epoll_done, LoopUnchanged
<1>5. CASE epoll_wait
    BY <1>5 DEF epoll_wait, lvars
<1>6. CASE BatchDone
    BY <1>6 DEF BatchDone, TypeOK
<1>7. CASE Post
  <2>1. mode = "main" /\ pc = "batch" /\ UNCHANGED <<mode, pc, conn>>
      BY <1>7 DEF Post
  <2>2. \A i \in DOMAIN postq' : postq'[i].c \in Conns => conn[postq'[i].c].fd
      BY <1>7, <2>1, PostedFrom DEF Stale
  <2> QED BY <2>1, <2>2
<1>8. CASE Direct
    BY <1>8 DEF Direct, Pipe, Called, lvars
<1>9. CASE DirectDone
    BY <1>9 DEF DirectDone, Called, lvars
<1>10. CASE AcceptPosted
  <2>1. /\ pc = "accept" /\ mode = "main"
        /\ UNCHANGED <<mode, pc, postq>>
      BY <1>10, AcceptPhase DEF AcceptPosted, Pop
  <2>2. \A c \in Conns : conn[c].fd => conn'[c] = conn[c]
    <3>1. CASE UNCHANGED conn
        BY <3>1
    <3>2. CASE free # <<>> /\ \E q \in ConnRec :
                 conn' = [conn EXCEPT ![Head(free)] = q]
        BY <3>2, HeadFree DEF Pool, TypeOK
    <3> QED BY <1>10, <3>1, <3>2, AcceptConn
  <2> QED BY <2>1, <2>2 DEF ControlType, TypeOK
<1>11. CASE Posted
  <2>1. pc = "queue" /\ mode = "main" /\ UNCHANGED mode
      BY <1>11, PostedPhase DEF Posted
  <2>2. pc' \in {"queue", "pipe", "posted"}
      BY <1>11, <2>1 DEF Posted
  <2> QED BY <2>1, <2>2
<1>12. CASE PostedDone
    BY <1>12 DEF PostedDone, lvars
<1>13. ASSUME NEW c \in Conns, NEW x \in Sides, Expire(c, x)
      PROVE  Phases'
    BY <1>13 DEF Expire
<1>14. CASE ExpireDone
    BY <1>14 DEF ExpireDone, lvars
<1>15. ASSUME NEW c \in Conns, Close(c)
      PROVE  Phases'
    BY <1>15 DEF Close, Same, Running, lvars
<1>16. CASE Take
    BY <1>16 DEF Take, Same, Running, lvars
<1>17. ASSUME NEW c \in Conns, Reconnect(c)
      PROVE  Phases'
    BY <1>17 DEF Reconnect, Same, Running, lvars
<1>18. ASSUME NEW c \in Conns, Watch(c)
      PROVE  Phases'
    BY <1>18 DEF Watch, Same, Running, lvars
<1>19. ASSUME NEW c \in Conns, NEW x \in Sides, Timer(c, x)
      PROVE  Phases'
    BY <1>19 DEF Timer, Same, Running, lvars
<1>20. CASE StopService
  <2>1. UNCHANGED <<mode, conn, accq, postq, pc>>
    BY <1>20 DEF StopService, epoll_done, LoopUnchanged, lvars
  <2> QED BY <2>1
<1>21. CASE UNCHANGED vars
    BY <1>21 DEF vars, lvars
<1> QED BY <1>1, <1>2, <1>3, <1>4, <1>5, <1>6, <1>7, <1>8, <1>9, <1>10,
      <1>11, <1>12, <1>13, <1>14, <1>15, <1>16, <1>17, <1>18, <1>19, <1>20,
      <1>21 DEF Next, Ended

(* Every step keeps the queues and the tree of timers whole. *)
LEMMA UntornStep ==
  ASSUME TypeOK, QueueType, Closed, Pool, Phases, Untorn, [Next]_vars
  PROVE  Untorn'
<1> USE DEF Untorn
<1>1. CASE AcceptPosted
  <2>1. CASE UNCHANGED torn
      BY <2>1
  <2>2. CASE free # <<>> /\ Renewed(Head(free))
    <3>1. /\ Head(free) \in Conns /\ ~conn[Head(free)].fd
          /\ conn[Head(free)].timer = {}
        BY <2>2, HeadFree DEF Pool, Closed
    <3>2. ~Queued(Head(free))
        BY <1>1, <3>1, AcceptPhase DEF Phases, Queued
    <3> QED BY <2>2, <3>1, <3>2 DEF Renewed
  <2> QED BY <1>1, <2>1, <2>2, AcceptConn
<1>2. CASE Take
  <2>1. free # <<>> /\ Renewed(Head(free)) /\ postq = <<>>
      BY <1>2, TakeConn DEF Take, Phases
  <2>2. /\ Head(free) \in Conns /\ ~conn[Head(free)].fd
        /\ conn[Head(free)].timer = {}
      BY <2>1, HeadFree DEF Pool, Closed
  <2>3. ~Queued(Head(free))
      BY <2>1 DEF Queued
  <2> QED BY <2>1, <2>2, <2>3 DEF Renewed
<1>3. CASE thread_event_init \/ WatchPipe \/ RegisterEvent \/ StopService \/
           WorkerClose \/ epoll_wait \/ BatchDone \/ Post \/ Direct \/
           DirectDone \/ Posted \/ PostedDone \/ ExpireDone
  <2>1. UNCHANGED <<torn>>
    BY <1>3 DEF thread_event_init, epoll_init, LoopUnchanged, WatchPipe,
      epoll_done, RegisterEvent, StopService, WorkerClose, epoll_wait, lvars,
      BatchDone, Post, PostTo, Listen, Direct, Pipe, Called, DirectDone,
      Posted, Queue, Pop, PostedDone, ExpireDone
  <2> QED BY <2>1
<1>4. ASSUME NEW c \in Conns, NEW x \in Sides, Expire(c, x)
      PROVE  Untorn'
  <2>1. UNCHANGED <<torn>>
    BY <1>4 DEF Expire, lvars
  <2> QED BY <2>1
<1>5. ASSUME NEW c \in Conns, Close(c)
      PROVE  Untorn'
  <2>1. UNCHANGED <<torn>>
    BY <1>5 DEF Close, Same, lvars
  <2> QED BY <2>1
<1>6. ASSUME NEW c \in Conns, Reconnect(c)
      PROVE  Untorn'
  <2>1. UNCHANGED <<torn>>
    BY <1>6 DEF Reconnect, Same, lvars
  <2> QED BY <2>1
<1>7. ASSUME NEW c \in Conns, Watch(c)
      PROVE  Untorn'
  <2>1. UNCHANGED <<torn>>
    BY <1>7 DEF Watch, Same, lvars
  <2> QED BY <2>1
<1>8. ASSUME NEW c \in Conns, NEW x \in Sides, Timer(c, x)
      PROVE  Untorn'
  <2>1. UNCHANGED <<torn>>
    BY <1>8 DEF Timer, Same, lvars
  <2> QED BY <2>1
<1>9. CASE UNCHANGED vars
    BY <1>9 DEF vars, lvars
<1> QED BY <1>1, <1>2, <1>3, <1>4, <1>5, <1>6, <1>7, <1>8, <1>9 DEF Next,
      Ended

(* What the entries of a batch are about. *)
LEMMA EntryConns ==
  ASSUME QueueType
  PROVE  \A i \in DOMAIN batch : batch[i] \in Entry /\ batch[i].inst \in 0..1
<1>1. \A i \in DOMAIN batch : batch[i] \in Entry
    BY DEF QueueType
<1> QED BY <1>1 DEF Entry

(* A replacement tells the entries of the batch before from those after. *)
LEMMA RenewedInst ==
  ASSUME TypeOK, QueueType, Incarnations, mode = "worker", UNCHANGED batch,
         NEW c \in Conns, gen' = [gen EXCEPT ![c] = @ + 1],
         NEW q \in ConnRec, conn' = [conn EXCEPT ![c] = q],
         q.inst = 1 - conn[c].inst
  PROVE  \A i \in DOMAIN batch' : batch'[i].c \in Conns =>
           /\ gen'[batch'[i].c] = 0 => conn'[batch'[i].c].inst = batch'[i].inst
           /\ gen'[batch'[i].c] = 1 => conn'[batch'[i].c].inst # batch'[i].inst
<1> SUFFICES ASSUME NEW i \in DOMAIN batch, batch[i].c \in Conns
             PROVE  /\ gen'[batch[i].c] = 0
                         => conn'[batch[i].c].inst = batch[i].inst
                    /\ gen'[batch[i].c] = 1
                         => conn'[batch[i].c].inst # batch[i].inst
    OBVIOUS
<1>1. /\ gen[batch[i].c] = 0 => conn[batch[i].c].inst = batch[i].inst
      /\ gen[batch[i].c] = 1 => conn[batch[i].c].inst # batch[i].inst
    BY DEF Incarnations
<1>2. batch[i].inst \in 0..1 /\ conn[c].inst \in 0..1 /\ gen[c] \in Nat
    BY EntryConns DEF TypeOK
<1>3. CASE batch[i].c = c
  <2>1. gen'[c] = gen[c] + 1 /\ conn'[c].inst = 1 - conn[c].inst
      BY DEF TypeOK
  <2> QED BY <1>1, <1>2, <1>3, <2>1
<1>4. CASE batch[i].c # c
    BY <1>1, <1>4 DEF TypeOK
<1> QED BY <1>3, <1>4

(* Every step keeps the instance bits of a batch telling. *)
LEMMA IncarnationsStep ==
  ASSUME TypeOK, QueueType, Closed, Pool, Phases, Incarnations, [Next]_vars
  PROVE  Incarnations'
<1> USE DEF Incarnations
<1>1. CASE thread_event_init
    BY <1>1 DEF thread_event_init, epoll_init, LoopUnchanged
<1>2. CASE WatchPipe
    BY <1>2 DEF WatchPipe, epoll_done, LoopUnchanged
<1>3. CASE RegisterEvent
    BY <1>3 DEF RegisterEvent, LoopUnchanged
<1>4. CASE WorkerClose
    BY <1>4 DEF WorkerClose, epoll_done, LoopUnchanged
<1>5. CASE epoll_wait
    BY <1>5, BatchEntries DEF epoll_wait, Phases
<1>6. CASE BatchDone
    BY <1>6 DEF BatchDone, lvars
<1>7. CASE Post
  <2>1. /\ mode = "main" /\ pc = "batch" /\ batch # <<>>
        /\ UNCHANGED <<mode, pc, gen, conn>>
      BY <1>7 DEF Post
  <2> QED BY <1>7, <2>1, PostedFrom
<1>8. CASE Direct
  <2>1. /\ mode = "worker" /\ batch # <<>> /\ batch' = Tail(batch)
        /\ UNCHANGED <<mode, gen, conn, postq>>
      BY <1>8 DEF Direct
  <2>2. \A i \in DOMAIN batch' :
          i + 1 \in DOMAIN batch /\ batch'[i] = batch[i + 1]
      BY <2>1, TailElements DEF QueueType
  <2> QED BY <2>1, <2>2
<1>9. CASE DirectDone
    BY <1>9 DEF DirectDone, Called, lvars
<1>10. CASE AcceptPosted
  <2>1. /\ pc = "accept" /\ mode = "main"
        /\ UNCHANGED <<mode, pc, postq>>
      BY <1>10, AcceptPhase DEF AcceptPosted, Pop
  <2>2. \A c \in Conns : conn[c].fd => gen'[c] = gen[c]
    <3>1. CASE UNCHANGED gen
        BY <3>1
    <3>2. CASE free # <<>> /\ Renewed(Head(free))
        BY <3>2, HeadFree DEF Pool, TypeOK, Renewed
    <3> QED BY <1>10, <3>1, <3>2, AcceptConn
  <2> QED BY <2>1, <2>2 DEF Phases
<1>11. CASE Posted
  <2>1. /\ mode = "main" /\ postq # <<>> /\ postq' = Tail(postq)
        /\ UNCHANGED <<mode, gen>> /\ pc' # "batch"
      BY <1>11, PostedPhase DEF Posted
  <2>2. \A i \in DOMAIN postq' :
          i + 1 \in DOMAIN postq /\ postq'[i] = postq[i + 1]
      BY <2>1, TailElements DEF QueueType
  <2> QED BY <2>1, <2>2
<1>12. CASE PostedDone
    BY <1>12 DEF PostedDone, lvars
<1>13. ASSUME NEW c \in Conns, NEW x \in Sides, Expire(c, x)
      PROVE  Incarnations'
  <2>1. UNCHANGED <<mode, batch, gen, postq>> /\ pc' # "batch"
      BY <1>13 DEF Expire
  <2>2. \A d \in Conns : conn'[d].inst = conn[d].inst
      BY <1>13, TimerConn DEF TypeOK
  <2> QED BY <2>1, <2>2, EntryConns
<1>14. CASE ExpireDone
    BY <1>14 DEF ExpireDone, lvars
<1>15. ASSUME NEW c \in Conns, Close(c)
      PROVE  Incarnations'
  <2>1. UNCHANGED <<mode, batch, gen, postq>> /\ pc' # "batch"
      BY <1>15 DEF Close, Same, Running
  <2>2. \A d \in Conns : conn'[d].inst = conn[d].inst
      BY <1>15, CloseConn DEF TypeOK
  <2> QED BY <2>1, <2>2, EntryConns
<1>16. CASE Take
  <2>1. /\ mode = "worker" /\ UNCHANGED <<mode, batch>>
      BY <1>16 DEF Take, Same
  <2>2. Head(free) \in Conns /\ Renewed(Head(free))
      BY <1>16, TakeConn, HeadFree
  <2>3. PICK q \in ConnRec : /\ conn' = [conn EXCEPT ![Head(free)] = q]
                             /\ q.inst = 1 - conn[Head(free)].inst
      BY <1>16, TakeConn
  <2> QED BY <2>1, <2>2, <2>3, RenewedInst DEF Renewed, TypeOK
<1>17. ASSUME NEW c \in Conns, Reconnect(c)
      PROVE  Incarnations'
  <2>1. /\ mode = "worker" /\ UNCHANGED <<mode, batch>>
        /\ gen' = [gen EXCEPT ![c] = gen[c] + 1]
      BY <1>17 DEF Reconnect, Same
  <2>2. PICK q \in ConnRec : /\ conn' = [conn EXCEPT ![c] = q]
                             /\ q.inst = 1 - conn[c].inst
      BY <1>17, ReconnectConn
  <2> QED BY <2>1, <2>2, RenewedInst DEF TypeOK
<1>18. ASSUME NEW c \in Conns, Watch(c)
      PROVE  Incarnations'
  <2>1. UNCHANGED <<mode, batch, gen, postq>> /\ pc' # "batch"
      BY <1>18 DEF Watch, Same, Running
  <2>2. \A d \in Conns : conn'[d].inst = conn[d].inst
      BY <1>18, WatchConn DEF TypeOK
  <2> QED BY <2>1, <2>2, EntryConns
<1>19. ASSUME NEW c \in Conns, NEW x \in Sides, Timer(c, x)
      PROVE  Incarnations'
  <2>1. UNCHANGED <<mode, batch, gen, postq>> /\ pc' # "batch"
      BY <1>19 DEF Timer, Same, Running
  <2>2. \A d \in Conns : conn'[d].inst = conn[d].inst
      BY <1>19, TimerConn DEF TypeOK
  <2> QED BY <2>1, <2>2, EntryConns
<1>20. CASE StopService
  <2>1. UNCHANGED <<mode, conn, batch, postq, pc, gen>>
    BY <1>20 DEF StopService, epoll_done, LoopUnchanged, lvars
  <2> QED BY <2>1
<1>21. CASE UNCHANGED vars
    BY <1>21 DEF vars, lvars
<1> QED BY <1>1, <1>2, <1>3, <1>4, <1>5, <1>6, <1>7, <1>8, <1>9, <1>10,
      <1>11, <1>12, <1>13, <1>14, <1>15, <1>16, <1>17, <1>18, <1>19, <1>20,
      <1>21 DEF Next, Ended

(* Every step calls handlers for the connection of the event. *)
LEMMA FreshStep ==
  ASSUME TypeOK, QueueType, Phases, Incarnations, FreshEvents, [Next]_vars
  PROVE  FreshEvents'
<1> USE DEF FreshEvents, NoCall
<1>1. CASE epoll_wait
    BY <1>1 DEF epoll_wait, lvars
<1>2. CASE BatchDone
    BY <1>2 DEF BatchDone, lvars
<1>3. CASE Post
    BY <1>3 DEF Post, PostTo, lvars, Listen
<1>4. CASE Direct
  <2> DEFINE e == Head(batch)
  <2>1. mode = "worker" /\ batch # <<>> /\ UNCHANGED mode
      BY <1>4 DEF Direct
  <2>2. e = batch[1] /\ 1 \in DOMAIN batch /\ e \in Entry
      BY <2>1 DEF QueueType
  <2>3. CASE call' = NoCall
      BY <2>3
  <2>4. CASE ~Stale(e) /\ e.c \in Conns /\ Called(e.c, e.gen, FALSE)
    <3>1. e.gen = 0 /\ gen[e.c] \in Nat /\ gen[e.c] # 1
        BY <2>1, <2>2, <2>4 DEF Incarnations, Entry, TypeOK, Stale
    <3>2. call'.was = 0 /\ call'.is = gen[e.c]
        BY <2>4, <3>1 DEF Called
    <3> QED BY <2>1, <3>1, <3>2
  <2> QED BY <1>4, <2>3, <2>4 DEF Direct, Called
<1>5. CASE DirectDone
  <2>1. mode = "worker" /\ UNCHANGED mode
      BY <1>5 DEF DirectDone
  <2>2. call' = NoCall \/ call'.half
      BY <1>5 DEF DirectDone, Called
  <2> QED BY <2>1, <2>2
<1>6. CASE AcceptPosted
    BY <1>6 DEF AcceptPosted, Queue, Listen, Pop, lvars
<1>7. CASE Posted
  <2> DEFINE e == Head(postq)
  <2>1. mode = "main" /\ postq # <<>> /\ Head(Queue) = e
      BY <1>7, PostedPhase DEF Queue
  <2>2. /\ e = postq[1] /\ 1 \in DOMAIN postq
        /\ e \in PostedEntry(Conns \cup {Pipe})
      BY <2>1 DEF QueueType
  <2>3. CASE call' = NoCall
      BY <2>3
  <2>4. CASE e.c \in Conns /\ Called(e.c, e.gen, FALSE)
    <3>1. e.gen = 0 /\ gen[e.c] = 0
        BY <2>1, <2>2, <2>4 DEF Incarnations, PostedEntry
    <3>2. call'.was = 0 /\ call'.is = 0
        BY <2>4, <3>1 DEF Called
    <3> QED BY <3>2
  <2> QED BY <1>7, <2>1, <2>3, <2>4 DEF Posted, Called
<1>8. CASE PostedDone
    BY <1>8 DEF PostedDone, lvars
<1>9. ASSUME NEW c \in Conns, NEW x \in Sides, Expire(c, x)
      PROVE  FreshEvents'
    BY <1>9 DEF Expire, lvars
<1>10. CASE ExpireDone
    BY <1>10 DEF ExpireDone, lvars
<1>11. ASSUME NEW c \in Conns, Close(c)
      PROVE  FreshEvents'
    BY <1>11 DEF Close, Same, lvars
<1>12. CASE Take
    BY <1>12 DEF Take, Renewed, Same, lvars
<1>13. ASSUME NEW c \in Conns, Reconnect(c)
      PROVE  FreshEvents'
    BY <1>13 DEF Reconnect, Same, lvars
<1>14. ASSUME NEW c \in Conns, Watch(c)
      PROVE  FreshEvents'
    BY <1>14 DEF Watch, Same, lvars
<1>15. ASSUME NEW c \in Conns, NEW x \in Sides, Timer(c, x)
      PROVE  FreshEvents'
    BY <1>15 DEF Timer, Same, lvars
<1>16. CASE thread_event_init \/ WatchPipe \/ RegisterEvent \/ StopService \/
           WorkerClose
  <2>1. UNCHANGED <<mode, call>>
    BY <1>16 DEF thread_event_init, epoll_init, LoopUnchanged, WatchPipe,
      epoll_done, RegisterEvent, StopService, WorkerClose, lvars
  <2> QED BY <2>1
<1>17. CASE UNCHANGED vars
    BY <1>17 DEF vars, lvars
<1> QED BY <1>1, <1>2, <1>3, <1>4, <1>5, <1>6, <1>7, <1>8, <1>9, <1>10,
      <1>11, <1>12, <1>13, <1>14, <1>15, <1>16, <1>17 DEF Next, Ended

-----------------------------------------------------------------------------
(* The inductive invariant. *)
Safe ==
  /\ TypeOK /\ QueueType /\ Closed /\ Start /\ Pool /\ Phases /\ Untorn
  /\ Incarnations /\ FreshEvents /\ WatchedActive

(* A loop that is set up satisfies it. *)
LEMMA SafeInit == Init => Safe
<1> SUFFICES ASSUME Init PROVE Safe
    OBVIOUS
<1>1. conn_pool_init \in ConnRec /\ conn_pool_init.timer = {}
        /\ ~conn_pool_init.fd
    BY DEF conn_pool_init, ConnRec
<1>2. ConnType /\ Closed /\ Start /\ WatchedActive
    BY <1>1 DEF Init, ConnType, Closed, Start, WatchedActive
<1>3. /\ free \in Seq(Conns) /\ DOMAIN free = Conns
      /\ \A i \in Conns : free[i] = i
    BY DEF Init, Conns
<1>4. Pool
    BY <1>1, <1>3 DEF Init, Pool, IsInjective
<1>5. TypeOK
  <2>1. GenType
      BY DEF Init, GenType
  <2>2. ControlType /\ torn \in BOOLEAN
      BY DEF Init, ControlType
  <2> QED BY <1>2, <1>3, <2>1, <2>2 DEF TypeOK, ConnType, ConnRec, GenType,
        ControlType
<1>6. QueueType
    BY NoneEntry DEF Init, QueueType
<1>7. Phases /\ Incarnations /\ Untorn /\ FreshEvents
    BY DEF Init, Untorn, Phases, Incarnations, FreshEvents, NoCall
<1> QED BY <1>2, <1>4, <1>5, <1>6, <1>7 DEF Safe

(* Every step of the loop and of a handler keeps it. *)
LEMMA SafeStep == Safe /\ [Next]_vars => Safe'
<1> SUFFICES ASSUME Safe, [Next]_vars PROVE Safe'
    OBVIOUS
<1> USE DEF Safe
<1>1. ControlType' /\ ConnType' /\ FreeType' /\ GenType'
    BY ControlTypeStep, ConnTypeStep, FreeTypeStep, GenTypeStep
<1>2. Untorn'
    BY UntornStep
<1>3. TypeOK'
    BY <1>1, <1>2 DEF Untorn, TypeOK, ControlType, ConnType,
      FreeType, GenType, ConnRec
<1>4. QueueType' /\ Closed' /\ Start' /\ Pool' /\ Phases'
    BY QueueTypeStep, ClosedStep, StartStep, PoolStep, PhasesStep
<1>5. Incarnations' /\ FreshEvents' /\ WatchedActive'
    BY IncarnationsStep, FreshStep, WatchedStep
<1> QED BY <1>2, <1>3, <1>4, <1>5

(* It always holds. *)
LEMMA SafeAlways == Spec => []Safe
<1> QED BY SafeInit, SafeStep, PTL DEF Spec

(* A handler is called for the connection its event was reported of: in    *)
(* the main thread always, because epoll_process_events drops the entries  *)
(* of a closed descriptor and the accept handlers, which alone renew       *)
(* connections, run before the posted events; in a worker the instance bit *)
(* tells a connection from the next one with the same conn_t, but not from *)
(* the one after, and the write event of an entry is not checked again.    *)
THEOREM FreshEventsAlways == Spec => []FreshEvents
<1>1. Safe => FreshEvents
    BY DEF Safe
<1> QED BY <1>1, SafeAlways, PTL

(* conn_set_default never clears an event that is posted or in the tree of *)
(* timers, no connection is twice in the pool, and a free one has neither  *)
(* descriptor nor timer, for every size of the pool.                       *)
THEOREM PoolIntactAlways == Spec => []PoolIntact
<1>1. Safe => PoolIntact
  <2> SUFFICES ASSUME Safe PROVE PoolIntact
      OBVIOUS
  <2>1. ASSUME NEW c \in ToSet(free)
        PROVE  ~conn[c].fd /\ conn[c].timer = {}
    <3>1. PICK i \in DOMAIN free : c = free[i]
        BY <2>1 DEF ToSet
    <3>2. c \in Conns
        BY <3>1 DEF Safe, TypeOK
    <3> QED BY <3>1, <3>2 DEF Safe, Pool, Closed
  <2> QED BY <2>1 DEF Safe, Pool, Untorn, PoolIntact
<1> QED BY <1>1, SafeAlways, PTL

(* As long as the epoll descriptor is open the kernel is asked for exactly *)
(* the events that are marked active, although epoll_add_event and         *)
(* epoll_del_event choose their operation by the flag of the other event.  *)
THEOREM WatchedActiveAlways == Spec => []WatchedActive
<1>1. Safe => WatchedActive
    BY DEF Safe
<1> QED BY <1>1, SafeAlways, PTL
=============================================================================
