------------------------------- MODULE Hosts --------------------------------
(***************************************************************************)
(* The host groups of downstream servers: HostGroupProvider keeps their    *)
(* data (HostGroupData) in memory shared by the processes, under a robust  *)
(* mutex, and requests select hosts from it (HostSelect).                  *)
(*                                                                         *)
(* A Server made in the master process before it forks lives on in every   *)
(* child, which has the group object (its ring included) as a copy and the *)
(* group data in common.  Each copy is released once, by its process, or   *)
(* lost when that process dies.  ref_cnt starts with one for each worker,  *)
(* one for the monitor and one for the master.                             *)
(*                                                                         *)
(*   slot       the shared group data: used (index is not -1), ref_cnt,    *)
(*              group (the address of a HostGroup object, 0: NULL) and     *)
(*              hosts (whose hosts it holds, 0: none)                      *)
(*   avail, next   avail_group_cnt; next_group_index, counted from 1 and   *)
(*              Slots + 1 for every index beyond the array                 *)
(*   op         what the owner of the mutex is doing: step, p, g, s; step  *)
(*              "free": no owner                                           *)
(*   alive, has the processes, and the copies each one has: records of g,  *)
(*              s (0: group data of the process's own) and a, the address  *)
(*              of the copy; a new object may get that of a deleted one    *)
(*   groups     history: number of groups made                             *)
(*   copies     history: copies of each group that were made and not lost  *)
(*              with a process, released or not                            *)
(*   torn       history: a process died after next_group_index++ and       *)
(*              before the wrap to 0 that was due                          *)
(*   robbed     history: groups of whose ref_cnt a release of another      *)
(*              group has taken one                                        *)
(*   req        a downstream request: its process, copy and hash, the      *)
(*              masters tried, the number of retries and the last host     *)
(***************************************************************************)
EXTENDS HostSelect

CONSTANTS
  Workers,      \* the worker processes
  Monitor,      \* the monitor process
  Slots,        \* number of shared group data, 80
  Addrs,        \* addresses of HostGroup objects in the heap of a process
  MaxGroups,    \* bound: servers made
  MaxCopies,    \* bound: copies of a server
  MaxRetry,     \* max_retry_req_num
  Masters, Slaves,   \* hosts of each group
  Calc,         \* hashes of the virtual nodes, in the order they are made
  Hashes        \* hashes of requests

(* There is room for MAX_PROCESSES children in g_processes, so that ref_cnt, *)
(* a uint16_t, can hold Refs.  HashInit makes nodes for every master.      *)
ASSUME HostsAssumption ==
  /\ IsFiniteSet(Workers) /\ Monitor \notin Workers
  /\ Cardinality(Workers) <= 1024
  /\ {Slots, MaxGroups, MaxCopies, Masters} \subseteq Nat \ {0}
  /\ {MaxRetry, Slaves} \cup Hashes \subseteq Nat
  /\ 0 \notin Addrs
  /\ Calc \subseteq Seq([idx : 0..(Masters - 1), off : Nat])
  /\ \A c \in Calc, m \in 0..(Masters - 1) : \E i \in DOMAIN c : c[i].idx = m

VARIABLES slot, avail, next, op, alive, has, groups, copies, torn, robbed, ring, req

provider == <<slot, avail, next, op>>
hist == <<groups, copies, torn, robbed>>
vars == <<provider, alive, has, hist, ring, req>>

Boss == "master"
Children == Workers \cup {Monitor}
Procs == Children \cup {Boss}
Refs == Cardinality(Workers) + 1 + 1  \* FLAGS_num_processes + 1 + 1

Free == [step |-> "free", p |-> Boss, g |-> 0, s |-> 0]
Idle == [used |-> FALSE, ref |-> 0, group |-> 0, hosts |-> 0]
NoReq == [p |-> Boss, g |-> 0, s |-> 0, hash |-> 0, history |-> {}, retry |-> 0,
          host |-> <<"none">>]

Groups == 1..MaxGroups

TypeOK ==
  /\ slot \in [1..Slots -> [used : BOOLEAN, ref : 0..(2^16 - 1),
                            group : Addrs \cup {0}, hosts : 0..MaxGroups]]
  /\ avail \in 0..Slots /\ next \in 1..(Slots + 1)
  /\ alive \subseteq Procs /\ copies \in [Groups -> 0..MaxCopies]
  /\ has \in [Procs -> SUBSET [g : Groups, s : 0..Slots, a : Addrs]]

Init ==
  /\ slot = [s \in 1..Slots |-> Idle]
  /\ avail = Slots /\ next = 1 /\ op = Free
  /\ alive = {Boss} /\ has = [p \in Procs |-> {}]
  /\ groups = 0 /\ copies = [g \in Groups |-> 0]
  /\ torn = FALSE /\ robbed = {}
  /\ ring \in {HashInit(c) : c \in Calc}
  /\ req = NoReq

-----------------------------------------------------------------------------
(* Create, in the master process; Release.  SharedMemoryScopedLock takes   *)
(* the mutex also from an owner that died (EOWNERDEAD), and the group data *)
(* is as that owner left it.                                               *)

Locked(step, p, g, s) ==
  op.step = "free" /\ p \in alive /\ op' = [step |-> step, p |-> p, g |-> g, s |-> s]

(* new HostGroup: an address at which process p has no object. *)
New(p) == {a \in Addrs : \A c \in has[p] : c.a # a}

(* The group data of a worker's server, and of any other when no slot is   *)
(* available, is the process's own.                                        *)
CreateOwn(p) ==
  LET g == groups + 1
  IN /\ g <= MaxGroups /\ p \in alive /\ op.step = "free"
     /\ p \in Workers \/ avail = 0
     /\ \E a \in New(p) : has' = [has EXCEPT ![p] = @ \cup {[g |-> g, s |-> 0, a |-> a]}]
     /\ groups' = g /\ copies' = [copies EXCEPT ![g] = 1]
     /\ UNCHANGED <<provider, alive, torn, robbed, ring, req>>

(* One action for each of its writes to shared memory.  GetIdleIndex goes  *)
(* around the array.                                                       *)
Create(p) ==
  LET g == groups + 1
  IN /\ g <= MaxGroups /\ avail > 0
     /\ Locked("next", p, g, 0)
     /\ UNCHANGED <<slot, avail, next, alive, has, hist, ring, req>>

(* next_group_index++.  An index beyond the array reads memory that is     *)
(* not the provider's: the search goes on there until the process dies.    *)
NextIndex ==
  /\ op.step = "next"
  /\ \/ /\ next <= Slots
        /\ op' = [op EXCEPT !.step = IF next = Slots THEN "wrap" ELSE "test", !.s = next]
        /\ next' = next + 1
     \/ /\ next > Slots
        /\ op' = [op EXCEPT !.step = "beyond"]
        /\ UNCHANGED next
  /\ UNCHANGED <<slot, avail, alive, has, hist, ring, req>>

WrapIndex ==
  /\ op.step = "wrap"
  /\ next' = 1
  /\ op' = [op EXCEPT !.step = "test"]
  /\ UNCHANGED <<slot, avail, alive, has, hist, ring, req>>

(* avail_group_cnt-- when the slot is idle. *)
TestIndex ==
  /\ op.step = "test"
  /\ \/ /\ ~slot[op.s].used
        /\ avail' = avail - 1
        /\ op' = [op EXCEPT !.step = "index"]
     \/ /\ slot[op.s].used
        /\ op' = [op EXCEPT !.step = "next", !.s = 0]
        /\ UNCHANGED avail
  /\ UNCHANGED <<slot, next, alive, has, hist, ring, req>>

(* data->index, then ref_cnt. *)
CreateIndex ==
  /\ \/ /\ op.step = "index"
        /\ slot' = [slot EXCEPT ![op.s].used = TRUE]
        /\ op' = [op EXCEPT !.step = "ref"]
     \/ /\ op.step = "ref"
        /\ slot' = [slot EXCEPT ![op.s].ref = Refs]
        /\ op' = [op EXCEPT !.step = "group"]
  /\ UNCHANGED <<avail, next, alive, has, hist, ring, req>>

(* AddMasterServer and AddSlaveServer write the hosts of group g to slot r. *)
AddServers(r, g) == [r EXCEPT !.hosts = g]

(* The group, and then, without the mutex, its hosts. *)
CreateGroup ==
  /\ op.step = "group"
  /\ \E a \in New(op.p) :
       /\ slot' = [slot EXCEPT ![op.s] = AddServers([@ EXCEPT !.group = a], op.g)]
       /\ has' = [has EXCEPT ![op.p] = @ \cup {[g |-> op.g, s |-> op.s, a |-> a]}]
  /\ groups' = op.g /\ copies' = [copies EXCEPT ![op.g] = 1]
  /\ op' = Free
  /\ UNCHANGED <<avail, next, alive, torn, robbed, ring, req>>

(* Mutant: whose slot it is now is not looked at. *)
ReleaseAny(c) == c.s > 0

(* The slot has the address of copy c. *)
Shared(c) == c.s > 0 /\ slot[c.s].group = c.a

(* The group whose reference a release of c takes for its own, if any: the *)
(* object of another group has got the address of c.                       *)
Taken(c) ==
  {slot[s].hosts : s \in {t \in 1..Slots : t = c.s /\ slot[t].group = c.a}} \ {c.g}

(* Release, from ~Server: the object is deleted in any case. *)
Release(p, c) ==
  LET last == Shared(c) /\ slot[c.s].ref = 1
  IN /\ c \in has[p] /\ ~(req.p = p /\ req.g = c.g)
     /\ IF last THEN Locked("hosts", p, c.g, c.s)
        ELSE op.step = "free" /\ p \in alive /\ UNCHANGED op
     /\ slot' = IF Shared(c) THEN [slot EXCEPT ![c.s].ref = (@ - 1) % 2^16]
               ELSE slot
     /\ robbed' = robbed \cup Taken(c)
     /\ has' = [has EXCEPT ![p] = @ \ {c}]
     /\ UNCHANGED <<avail, next, alive, groups, copies, torn, ring, req>>

(* The last reference: HostGroupData::Reset clears the hosts, the group,   *)
(* the index and ref_cnt.                                                  *)
Reset ==
  /\ \/ /\ op.step = "hosts"
        /\ slot' = [slot EXCEPT ![op.s].hosts = 0]
        /\ op' = [op EXCEPT !.step = "forget"]
     \/ /\ op.step = "forget"
        /\ slot' = [slot EXCEPT ![op.s].group = 0]
        /\ op' = [op EXCEPT !.step = "reset"]
  /\ UNCHANGED <<avail, next, alive, has, hist, ring, req>>

(* Mutant: counted as available before it is. *)
AvailFirst ==
  /\ \/ /\ op.step = "reset"
        /\ avail' = avail + 1
        /\ op' = [op EXCEPT !.step = "count"]
        /\ UNCHANGED slot
     \/ /\ op.step = "count"
        /\ slot' = [slot EXCEPT ![op.s] = Idle]
        /\ op' = Free
        /\ UNCHANGED avail
  /\ UNCHANGED <<next, alive, has, hist, ring, req>>

(* The end of Reset, then avail_group_cnt. *)
ReleaseLast ==
  /\ \/ /\ op.step = "reset"
        /\ slot' = [slot EXCEPT ![op.s] = Idle]
        /\ op' = [op EXCEPT !.step = "count"]
        /\ UNCHANGED avail
     \/ /\ op.step = "count"
        /\ avail' = avail + 1
        /\ op' = Free
        /\ UNCHANGED slot
  /\ UNCHANGED <<next, alive, has, hist, ring, req>>

-----------------------------------------------------------------------------
(* Processes. *)

(* Process p has a copy of group g. *)
Has(p, g) == \E c \in has[p] : c.g = g

(* The master, which is in no operation of its own, forks a child. *)
Fork(p) ==
  /\ Boss \in alive /\ p \notin alive /\ ~(op.step # "free" /\ op.p = Boss)
  /\ \A c \in has[Boss] : copies[c.g] < MaxCopies
  /\ alive' = alive \cup {p}
  /\ has' = [has EXCEPT ![p] = has[Boss]]
  /\ copies' = [g \in Groups |-> IF Has(Boss, g) THEN copies[g] + 1 ELSE copies[g]]
  /\ UNCHANGED <<provider, groups, torn, robbed, ring, req>>

(* A process dies, or exits without ~Server: its copies are lost, and the  *)
(* mutex, if it has it, is left to the next one.                           *)
Die(p) ==
  /\ p \in alive
  /\ alive' = alive \ {p}
  /\ has' = [has EXCEPT ![p] = {}]
  /\ copies' = [g \in Groups |-> IF Has(p, g) THEN copies[g] - 1 ELSE copies[g]]
  /\ op' = IF op.p = p THEN Free ELSE op
  /\ torn' = (torn \/ (op.p = p /\ op.step = "wrap"))
  /\ req' = IF req.p = p THEN NoReq ELSE req
  /\ UNCHANGED <<slot, avail, next, groups, robbed, ring>>

-----------------------------------------------------------------------------
(* Requests, which the modules make in the worker processes. *)

Execute(p, c, hash) ==
  /\ req = NoReq /\ p \in alive /\ c \in has[p]
  /\ ~(op.step # "free" /\ op.p = p)
  /\ req' = [NoReq EXCEPT !.p = p, !.g = c.g, !.s = c.s, !.hash = hash,
                          !.host = <<"first">>]
  /\ UNCHANGED <<provider, alive, has, hist, ring>>

(* Whose hosts the request finds in its group data. *)
Owner(r) == IF r.s = 0 THEN r.g ELSE slot[r.s].hosts

Count(r, n) == IF Owner(r) = 0 THEN 0 ELSE n

Selecting == req.host[1] \in {"first", "failed"}
Masterly(junk) == Master(ring, Count(req, Masters), req.hash, junk, req.history)

(* SelectHost: a master, which the request will not get again. *)
SelectMaster(junk) ==
  LET m == Masterly(junk)
  IN /\ Selecting /\ m # NoHost
     /\ req' = [req EXCEPT !.host = <<"master", Owner(req), m>>,
                          !.history = @ \cup {m}]
     /\ UNCHANGED <<provider, alive, has, hist, ring>>

(* SelectHost when there is no master: a slave or none.  Which slaves never *)
(* failed and which are alive other processes decide.                      *)
SelectSlave(fresh, alv) ==
  LET s == Slave(Count(req, Slaves), req.hash, req.retry, fresh, alv)
  IN /\ Selecting /\ Masterly(0) = NoHost
     /\ req' = [req EXCEPT !.host = IF s = NoHost THEN <<"null", fresh \cup alv>>
                                    ELSE <<"slave", Owner(req), s>>]
     /\ UNCHANGED <<provider, alive, has, hist, ring>>

(* The request failed at its host and is tried again. *)
Retry ==
  /\ req.host[1] \in {"master", "slave"}
  /\ req.retry < MaxRetry
  /\ req' = [req EXCEPT !.retry = @ + 1, !.host = <<"failed">>]
  /\ UNCHANGED <<provider, alive, has, hist, ring>>

Finish ==
  /\ req.host[1] \in {"master", "slave", "null"}
  /\ req' = NoReq
  /\ UNCHANGED <<provider, alive, has, hist, ring>>

(* Memory beyond the ring is looked at for a hash beyond its last offset. *)
Junk == IF req.hash > Last(ring).off THEN {0, req.hash, req.hash + 1} ELSE {0}

Next ==
  \/ \E p \in Procs : CreateOwn(p)
  \/ \E p \in {Boss, Monitor} : Create(p)
  \/ NextIndex \/ WrapIndex \/ TestIndex \/ CreateIndex \/ CreateGroup
  \/ \E p \in Procs : \E c \in has[p] : Release(p, c)
  \/ Reset \/ ReleaseLast
  \/ \E p \in Children : Fork(p)
  \/ \E p \in Procs : Die(p)
  \/ \E p \in Workers : \E c \in has[p], h \in Hashes : Execute(p, c, h)
  \/ \E junk \in Junk : SelectMaster(junk)
  \/ \E fresh, alv \in SUBSET (0..(Slaves - 1)) : SelectSlave(fresh, alv)
  \/ Retry \/ Finish

Spec == Init /\ [][Next]_vars

-----------------------------------------------------------------------------
(* Properties *)

(* No more copies of g can be released than ref_cnt allows for: every      *)
(* child forked after the first round replaces one that died with its copy. *)
Balanced(g) == copies[g] <= Refs

(* Every process that has a copy of a shared group finds that group and    *)
(* its hosts in the slot, as long as the copies are balanced; a worker     *)
(* that released its copy and was started again releases once too often,   *)
(* and takes the slot from the others (Data::Release).  What then remains  *)
(* of the old group leaves a new one in the slot alone, unless that one's  *)
(* object has the address of the old: then its references are taken, too,  *)
(* and it is the only case, so that nobody is robbed while all groups are  *)
(* balanced.  (The types of the variables are part of it.)                 *)
SlotKept ==
  /\ TypeOK
  /\ \A p \in alive : \A c \in has[p] :
       c.s > 0 /\ Balanced(c.g) /\ c.g \notin robbed =>
         slot[c.s].group = c.a /\ slot[c.s].hosts = c.g
  /\ robbed # {} => \E g \in Groups : ~Balanced(g)

(* There are as many idle slots as avail_group_cnt says, wherever a        *)
(* process died with the mutex (PTHREAD_MUTEX_ROBUST_NP): GetIdleIndex,    *)
(* which goes around until it finds one, comes to an end, and stays in the *)
(* array unless a process died between its two writes of next_group_index. *)
IdleFound ==
  /\ avail <= Cardinality({s \in 1..Slots : ~slot[s].used})
               - (IF op.step \in {"index", "count"} THEN 1 ELSE 0)
  /\ ~torn => /\ op.step # "beyond"
              /\ next = Slots + 1 => op.step = "wrap"

(* A request gets each master of its group once, in the order of the ring  *)
(* from the node its hash falls on (that of the least offset not below it; *)
(* past the last the first or, depending on memory, the second), and a     *)
(* slave, or no host, only when it has tried all masters and no slave will *)
(* do (SelectHost) - if the slot is still its group's.                     *)
SelectRight ==
  LET n == Size(ring)
      at == {i \in 0..(n - 1) : Node(ring, i).off >= req.hash}
      first == IF at = {} THEN {0, 1 % n}
               ELSE {i \in at : \A j \in at : Node(ring, i).off <= Node(ring, j).off}
      kind == req.host[1]
  IN req # NoReq /\ (req.s > 0 => slot[req.s].hosts = req.g) =>
       /\ kind \in {"master", "slave"} => req.host[2] = req.g
       /\ kind = "master" => Cardinality(req.history) = req.retry + 1
       /\ kind = "master" /\ req.retry = 0 =>
            \E i \in first : req.host[3] = Node(ring, i).idx
       /\ kind \in {"slave", "null"} => req.history = 0..(Masters - 1)
       /\ kind = "null" => req.host[2] = {}
=============================================================================
