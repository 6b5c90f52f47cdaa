------------------------------- MODULE ShMem -------------------------------
(***************************************************************************)
(* The allocator of a shared memory segment, core/shs_shmem.cc, behind the *)
(* interface of core/shs_shmem_allocator.cc.  The segment is a value h:    *)
(*                                                                         *)
(*   linear level_type is LINEAR, else EXP: the sizes of the levels        *)
(*   order  all storages, the queue shm->order, by their addresses         *)
(*   blk    the header (struct storage) at each address: alloc, size,      *)
(*          act_size, and head, the level of its free list (None: NULL)    *)
(*   free   the free list of each level, newest first                      *)
(*   avail  the queue of the levels whose free list is not empty           *)
(*   top    max_available_index, free_len: none                            *)
(*   used, reqs, count   shmem_stat: used_size, reqs_size, st_count        *)
(*                                                                         *)
(* Sizes and addresses are small numbers: Hdr is sizeof(struct storage),   *)
(* address 0 the first storage.  The counters of failures are left out.    *)
(***************************************************************************)
EXTENDS Integers, Sequences, FiniteSetsExt, SequencesExt

CONSTANTS
  Total,      \* size of the first storage
  Hdr,        \* sizeof(struct storage)
  MinSize,    \* shm->min_size, also split_threshold
  MaxSize,    \* shm->max_size
  Factor      \* step between two linear levels

ASSUME ShMemAssumption ==
  /\ {Total, Hdr, MinSize, MaxSize, Factor} \subseteq Nat \ {0}
  /\ MinSize < MaxSize /\ MaxSize <= Total

None == -1

(* shs_math_dfslog2, rounding down and up: x & (x - 1) is 0 unless x and   *)
(* x - 1 have the same highest bit.                                        *)
log2down(x) ==
  LET f[y \in 0..x] == IF y <= 1 THEN 0 ELSE 1 + f[y \div 2]
  IN f[x]

dfslog2(x, up) ==
  log2down(x) + (IF up /\ x > 1 /\ log2down(x) = log2down(x - 1) THEN 1 ELSE 0)

CeilDiv(a, b) == (a + b - 1) \div b

(* The first level all of whose storages are large enough. *)
get_alloc_index(h, size) ==
  IF size <= MinSize THEN 0
  ELSE IF h.linear THEN CeilDiv(size - MinSize, Factor)
       ELSE dfslog2(CeilDiv(size, MinSize), TRUE)

(* The level a free storage belongs to, before it is capped. *)
get_insert_index(h, size) ==
  IF size <= MinSize THEN 0
  ELSE IF h.linear THEN (size - MinSize) \div Factor
       ELSE dfslog2(size \div MinSize, FALSE)

FreeLen(h) == 1 + (IF h.linear THEN CeilDiv(MaxSize - MinSize, Factor)
                   ELSE dfslog2(CeilDiv(MaxSize, MinSize), TRUE))

-----------------------------------------------------------------------------
(* Free lists. *)

RemoveLevel(h, a) == Min({get_insert_index(h, h.blk[a].size), h.top})

(* shs_shmem_remove_free succeeds. *)
Removable(h, a) == h.blk[a].head = RemoveLevel(h, a)

(* The level before i in the queue of available levels. *)
LevelBefore(h, i) ==
  LET k == SelectInSeq(h.avail, LAMBDA l : l = i)
  IN IF k <= 1 THEN FreeLen(h) ELSE h.avail[k - 1]

remove_free(h, a) ==
  LET i == RemoveLevel(h, a)
      l == RemoveFirst(h.free[i], a)
  IN [h EXCEPT
        !.free[i] = l,
        !.blk[a].head = None,
        !.avail = IF l = <<>> THEN RemoveFirst(h.avail, i) ELSE h.avail,
        !.top = IF l = <<>> /\ i = h.top THEN LevelBefore(h, i) ELSE h.top]

(* Levels are kept in order; one that goes to the end is the new top. *)
insert_free(h, a) ==
  LET i == Min({get_insert_index(h, h.blk[a].size), FreeLen(h) - 1})
      k == SelectInSeq(h.avail, LAMBDA l : i < l)
      fresh == h.free[i] = <<>>
  IN [h EXCEPT
        !.free[i] = <<a>> \o h.free[i],
        !.blk[a].head = i,
        !.avail = IF ~fresh THEN h.avail
                  ELSE IF k = 0 THEN Append(h.avail, i)
                  ELSE InsertAt(h.avail, k, i),
        !.top = IF fresh /\ k = 0 THEN i ELSE h.top]

-----------------------------------------------------------------------------
(* Allocation. *)

(* The free list that is searched, None if there is none. *)
SearchLevel(h, size) ==
  LET i == get_alloc_index(h, size)
      k == SelectInSeq(h.avail, LAMBDA l : h.free[l] # <<>> /\ l > i)
  IN IF h.top = FreeLen(h) THEN None
     ELSE IF i >= h.top THEN h.top
     ELSE IF h.free[i] # <<>> THEN i
     ELSE IF k = 0 THEN None ELSE h.avail[k]

(* First fit in that list; None: the allocation fails. *)
FirstFit(h, size) ==
  LET l == SearchLevel(h, size)
      k == IF l = None THEN 0
           ELSE SelectInSeq(h.free[l], LAMBDA a : h.blk[a].size >= size)
  IN IF k = 0 \/ ~Removable(h, h.free[l][k]) THEN None ELSE h.free[l][k]

(* The storage at a, in no free list, is given out; what is left over      *)
(* becomes a storage of its own unless it is too small.                    *)
take(g, a, size) ==
  LET rest == a + Hdr + size
      k == SelectInSeq(g.order, LAMBDA b : b = a)
      cut == [g.blk EXCEPT ![a].alloc = TRUE, ![a].size = size, ![a].act = size]
      new == [g.blk[a] EXCEPT !.size = g.blk[a].size - (size + Hdr)]
  IN IF g.blk[a].size - size < Hdr + MinSize
     THEN [g EXCEPT !.blk[a].alloc = TRUE, !.blk[a].act = size,
                    !.used = g.used + g.blk[a].size, !.reqs = g.reqs + size]
     ELSE insert_free([g EXCEPT
            !.blk = [b \in DOMAIN cut \cup {rest} |->
                       IF b = rest THEN new ELSE cut[b]],
            !.order = InsertAt(g.order, k + 1, rest),
            !.used = g.used + size, !.reqs = g.reqs + size,
            !.count = g.count + 1], rest)

(* The address, None on failure, and the segment after. *)
give(h, a, size) ==
  [at |-> a, h |-> IF a = None THEN h ELSE take(remove_free(h, a), a, size)]

shm_alloc(h, size) == give(h, FirstFit(h, size), size)

(* The largest storage of the largest level, the first of equal ones. *)
get_max_st(h) ==
  LET l == h.free[Last(h.avail)]
      k == SelectInSeq(l, LAMBDA a : \A b \in ToSet(l) : h.blk[b].size <= h.blk[a].size)
  IN IF h.top = FreeLen(h) \/ h.avail = <<>> THEN None ELSE l[k]

(* shs_shmem_split_alloc: the largest storage as a whole. *)
shm_split_alloc(h, minsize) ==
  LET a == get_max_st(h)
      n == h.blk[a].size
      g == remove_free(h, a)
  IN IF a = None THEN [at |-> None, h |-> h]
     ELSE IF n < minsize \/ ~Removable(h, a) THEN [at |-> None, h |-> h]
     ELSE [at |-> a,
           h |-> [g EXCEPT !.blk[a].alloc = TRUE, !.blk[a].act = n,
                           !.used = g.used + n, !.reqs = g.reqs + n]]

-----------------------------------------------------------------------------
(* Release. *)

(* b, which follows a in order and in memory, is absorbed by it. *)
absorb(h, a, b) ==
  [h EXCEPT !.blk = [x \in DOMAIN h.blk \ {b} |->
                       IF x = a THEN [h.blk[a] EXCEPT
                                        !.size = @ + h.blk[b].size + Hdr]
                       ELSE h.blk[x]],
            !.order = RemoveFirst(h.order, b),
            !.count = h.count - 1]

Adjacent(h, a, b) == b = a + Hdr + h.blk[a].size

(* Mutant: the storage before is absorbed without leaving its free list. *)
MergePrevUnlisted(h, a) ==
  LET k == SelectInSeq(h.order, LAMBDA b : b = a)
      p == h.order[k - 1]
  IN IF k > 1 /\ ~h.blk[p].alloc /\ Adjacent(h, p, a)
     THEN insert_free(absorb(h, p, a), p)
     ELSE insert_free(h, a)

(* The storage before is free: it absorbs a, and is listed anew. *)
merge_prev(h, a) ==
  LET k == SelectInSeq(h.order, LAMBDA b : b = a)
      p == h.order[k - 1]
  IN IF k > 1 /\ ~h.blk[p].alloc /\ Adjacent(h, p, a)
     THEN IF Removable(h, p)
          THEN insert_free(absorb(remove_free(h, p), p, a), p)
          ELSE h
     ELSE insert_free(h, a)

(* The next storage is free: a absorbs it, before it is itself merged.     *)
merge_next(h, a) ==
  LET k == SelectInSeq(h.order, LAMBDA b : b = a)
      n == h.order[k + 1]
  IN IF k < Len(h.order) /\ ~h.blk[n].alloc /\ Adjacent(h, a, n)
     THEN IF Removable(h, n)
          THEN merge_prev(absorb(remove_free(h, n), a, n), a)
          ELSE h
     ELSE merge_prev(h, a)

(* shs_shmem_free of an allocated storage. *)
shm_free(h, a) ==
  IF ~h.blk[a].alloc THEN h
  ELSE merge_next([h EXCEPT !.used = h.used - h.blk[a].size,
                            !.reqs = h.reqs - h.blk[a].act,
                            !.blk[a].alloc = FALSE], a)

(* shs_shmem_create: one free storage. *)
shm_create(lin) ==
  LET n == FreeLen([linear |-> lin])
      first == [alloc |-> FALSE, size |-> Total, act |-> 0, head |-> None]
  IN insert_free([linear |-> lin, order |-> <<0>>, blk |-> [a \in {0} |-> first],
                  free |-> [l \in 0..(n - 1) |-> <<>>], avail |-> <<>>, top |-> n,
                  used |-> 0, reqs |-> 0, count |-> 1], 0)
=============================================================================
