------------------------------- MODULE Slabs -------------------------------
(***************************************************************************)
(* The slab manager of core/shs_slabs.cc over the segment of ShMem.        *)
(* Chunks of a few size classes are taken from the segment; freed ones     *)
(* wait in the list of their class and are returned to the segment only    *)
(* when an allocation finds no room.  The manager is a value m:            *)
(*                                                                         *)
(*   power  uptype is POWER (each class twice the one before), else LINEAR *)
(*   max    item_size_max                                                  *)
(*   list   free_list of each class, newest first                          *)
(*   chunk  the header (chunk_link_t) of each chunk, by the address of its *)
(*          storage: size, req (req_size), id                              *)
(*   used, reqs, free, count   slab_stat                                   *)
(*                                                                         *)
(* Any number of clients use the manager and, directly, the segment; each  *)
(* frees what it was given, once.  live and raw are what they hold.        *)
(***************************************************************************)
EXTENDS ShMem

CONSTANTS
  ChunkHdr,     \* sizeof(chunk_link_t)
  AlignSize,    \* SHS_MATH_ALIGN_SIZE
  ItemMin,      \* item_size_min of shs_slabs_create
  ItemMaxes,    \* values of item_size_max
  SlabStep,     \* SHS_SLAB_LINEAR_FACTOR
  MgrSize,      \* sizeof(shs_slab_manager_t)
  ClassSize,    \* sizeof(slabclass_t)
  Word,         \* size_t is modulo Word
  Reqs,         \* sizes asked of the slab manager
  RawReqs       \* sizes asked of the segment

ASSUME SlabsAssumption ==
  /\ {ChunkHdr, AlignSize, ItemMin, SlabStep, MgrSize, ClassSize, Word}
       \cup ItemMaxes \cup Reqs \cup RawReqs \subseteq Nat \ {0}
  /\ \A max \in ItemMaxes : max \div ItemMin >= 2
  /\ \A x \in {ChunkHdr, ItemMin, SlabStep} : \E q \in 1..x : x = q * AlignSize

VARIABLES
  h,      \* the segment
  m,      \* the slab manager
  live,   \* addresses of the chunks held by clients of the manager
  raw     \* addresses of the storages held by clients of the segment

vars == <<h, m, live, raw>>

SplitId == -5
InvalidId == -1

ALIGNMENT(n) == CeilDiv(n, AlignSize) * AlignSize

-----------------------------------------------------------------------------
(* Size classes of a manager mm. *)

ClassCount(mm) ==
  1 + (IF mm.power THEN dfslog2(CeilDiv(mm.max, ItemMin), TRUE)
       ELSE CeilDiv(mm.max - ItemMin, SlabStep))

class_size(mm, i) ==
  LET size[k \in 0..i] ==
        IF k = 0 THEN ItemMin
        ELSE IF mm.power THEN 2 * size[k - 1] ELSE size[k - 1] + SlabStep
  IN ALIGNMENT(ChunkHdr + size[i])

(* A turn of the binary search of shs_slabs_clsid between t.low and t.high, *)
(* which compares n with the class in the middle and those beside it.      *)
look(mm, n, t) ==
  LET size(i) == class_size(mm, i)
      mid == (t.low + t.high) \div 2
  IN IF t.id # InvalidId \/ t.low > t.high THEN t
     ELSE IF n > size(mid)
     THEN IF n <= size(mid + 1) THEN [t EXCEPT !.id = mid + 1]
          ELSE [t EXCEPT !.low = mid + 1]
     ELSE IF n > size(mid - 1) THEN [t EXCEPT !.id = mid]
     ELSE IF n = size(mid - 1) THEN [t EXCEPT !.id = mid - 1]
     ELSE [t EXCEPT !.high = mid - 1]

(* The search between 1 and top - 1: with two classes it looks at none. *)
search(mm, n, top) ==
  LET f[k \in 0..top] ==
        IF k = 0 THEN [low |-> 1, high |-> top - 1, id |-> InvalidId]
        ELSE look(mm, n, f[k - 1])
  IN f[top].id

(* shs_slabs_clsid, rounding up. *)
clsid(mm, n) ==
  LET all == ALIGNMENT(n + ChunkHdr)
      top == ClassCount(mm) - 1
  IN IF all > class_size(mm, top) THEN InvalidId
     ELSE IF all <= class_size(mm, 0) THEN 0
     ELSE IF all = class_size(mm, top) THEN top
     ELSE IF mm.power THEN search(mm, all, top)
     ELSE CeilDiv(n - ItemMin, SlabStep)

-----------------------------------------------------------------------------
(* Recovery: s is a record of segment and manager. *)

(* The newest free chunk of class i goes back to the segment. *)
give_back(s, i) ==
  LET a == Head(s.m.list[i])
  IN [h |-> shm_free(s.h, a),
      m |-> [s.m EXCEPT
               !.list[i] = Tail(s.m.list[i]),
               !.chunk = Restrict(s.m.chunk, DOMAIN s.m.chunk \ {a}),
               !.free = (s.m.free - (class_size(s.m, i) - ChunkHdr)) % Word,
               !.count = s.m.count - 1]]

Filled(mm, ids) == {i \in ids : mm.list[i] # <<>>}

(* The next chunk of the classes below id, from above, unless those        *)
(* returned before make need bytes.                                        *)
recover_one(t, id, need) ==
  LET below == Filled(t.s.m, 0..(id - 1))
  IN IF below = {} \/ t.sum >= need THEN t
     ELSE [s |-> give_back(t.s, Max(below)),
           sum |-> t.sum + class_size(t.s.m, Max(below))]

recover_below(s, id, need) ==
  LET f[k \in 0..s.m.count] ==
        IF k = 0 THEN [s |-> s, sum |-> 0] ELSE recover_one(f[k - 1], id, need)
  IN f[s.m.count].s

(* Mutant: only the smaller classes are searched. *)
RecoverSmaller(s, id) ==
  [s |-> recover_below(s, id, 2 * class_size(s.m, id)),
   nospace |-> Filled(s.m, 0..(id - 1)) = {}]

(* shs_slabs_recover: one chunk of the next larger class, else chunks of   *)
(* the smaller ones until they make twice what is needed.                  *)
slabs_recover(s, id) ==
  LET above == Filled(s.m, (id + 1)..(ClassCount(s.m) - 1))
  IN IF above # {}
     THEN [s |-> give_back(s, Min(above)), nospace |-> FALSE]
     ELSE [s |-> recover_below(s, id, 2 * class_size(s.m, id)),
           nospace |-> Filled(s.m, 0..(id - 1)) = {}]

(* allocator->alloc for class id; r is what the segment answers. *)
answered(s, r) == [s |-> [s EXCEPT !.h = r.h], at |-> r.at, nospace |-> FALSE]

try_alloc(s, id) == answered(s, shm_alloc(s.h, class_size(s.m, id)))

(* Another try, if the recovery r has found anything. *)
retry_alloc(t, r, id) ==
  IF r.nospace THEN [t EXCEPT !.s = r.s, !.nospace = TRUE]
  ELSE try_alloc(r.s, id)

(* A turn of the loop: an allocation that failed, recovery, another try. *)
obtain_again(t, id) ==
  IF t.at # None \/ t.nospace THEN t
  ELSE retry_alloc(t, slabs_recover(t.s, id), id)

obtain(s, id) ==
  LET f[k \in 0..(s.m.count + 1)] ==
        IF k = 0 THEN try_alloc(s, id) ELSE obtain_again(f[k - 1], id)
  IN f[s.m.count + 1]

-----------------------------------------------------------------------------
(* Operations on a segment with its manager: the result is the pair after  *)
(* the call and the address handed out, None on failure.                   *)

(* The newest free chunk of class id, full bytes large. *)
uncache(s, id, full) ==
  [s |-> [s EXCEPT !.m.list[id] = Tail(s.m.list[id]),
                   !.m.free = (s.m.free - full) % Word],
   at |-> Head(s.m.list[id])]

(* The storage obtained as t becomes a chunk with header c. *)
hand_out(t, c, new) ==
  IF t.at = None THEN [s |-> t.s, at |-> None]
  ELSE [s |-> [t.s EXCEPT !.m.chunk = [a \in DOMAIN t.s.m.chunk \cup {t.at} |->
                                         IF a = t.at THEN c ELSE t.s.m.chunk[a]],
                          !.m.count = t.s.m.count + new,
                          !.m.reqs = t.s.m.reqs + c.req,
                          !.m.used = t.s.m.used + c.size],
        at |-> t.at]

(* shs_slabs_alloc; act: the client asks for all of the chunk. *)
slabs_alloc(s, n, act) ==
  LET id == clsid(s.m, n)
      full == class_size(s.m, id) - ChunkHdr
      c == [size |-> full, req |-> IF act THEN full ELSE n, id |-> id]
  IN IF id = InvalidId THEN [s |-> s, at |-> None]
     ELSE IF s.m.list[id] # <<>> THEN hand_out(uncache(s, id, full), c, 0)
     ELSE hand_out(obtain(s, id), c, 1)

(* The storage r, as large as it is, becomes a chunk for n bytes. *)
split_chunk(s, r, n) ==
  LET full == r.h.blk[r.at].size - ChunkHdr
      c == [size |-> full, req |-> Min({n, full}), id |-> SplitId]
  IN IF r.at = None THEN [s |-> s, at |-> None]
     ELSE hand_out([s |-> [s EXCEPT !.h = r.h], at |-> r.at], c, 1)

(* shs_slabs_split_alloc: the largest free storage as one chunk. *)
slabs_split_alloc(s, n, minn) ==
  IF ALIGNMENT(n + ChunkHdr) > class_size(s.m, ClassCount(s.m) - 1)
  THEN [s |-> s, at |-> None]
  ELSE split_chunk(s, shm_split_alloc(s.h, ALIGNMENT(minn + ChunkHdr)), n)

(* Mutant: the statistics are left alone when a chunk is freed. *)
SlabsFreeUncounted(s, a) ==
  LET c == s.m.chunk[a]
  IN IF c.id = SplitId
     THEN [h |-> shm_free(s.h, a),
           m |-> [s.m EXCEPT !.count = s.m.count - 1,
                             !.chunk = Restrict(s.m.chunk, DOMAIN s.m.chunk \ {a})]]
     ELSE [s EXCEPT !.m.list[c.id] = <<a>> \o s.m.list[c.id]]

(* Mutant: a chunk stays out of the list when the test of used fails. *)
SlabsFreeLost(s, a) ==
  LET c == s.m.chunk[a]
  IN IF s.m.used < class_size(s.m, c.id) THEN s
     ELSE [s EXCEPT !.m.list[c.id] = <<a>> \o s.m.list[c.id],
                    !.m.free = (s.m.free + c.size) % Word,
                    !.m.used = s.m.used - c.size,
                    !.m.reqs = s.m.reqs - c.req]

(* shs_slabs_free.  The chunk is in the list of its class before used is   *)
(* compared with the size of the class, the header included: a call that   *)
(* frees the last chunk reports an error and leaves the statistics alone.  *)
slabs_free(s, a) ==
  LET c == s.m.chunk[a]
      listed == [s EXCEPT !.m.list[c.id] = <<a>> \o s.m.list[c.id]]
  IN IF c.id = SplitId
     THEN [h |-> shm_free(s.h, a),
           m |-> [s.m EXCEPT !.count = s.m.count - 1,
                             !.used = s.m.used - c.size,
                             !.reqs = s.m.reqs - c.req,
                             !.chunk = Restrict(s.m.chunk, DOMAIN s.m.chunk \ {a})]]
     ELSE IF s.m.used < class_size(s.m, c.id) THEN listed
     ELSE [listed EXCEPT !.m.free = (s.m.free + c.size) % Word,
                         !.m.used = s.m.used - c.size,
                         !.m.reqs = s.m.reqs - c.req]

(* shs_slabs_create: the manager and its classes live in the segment. *)
slabs_create(lin, power, max) ==
  LET n == ClassCount([power |-> power, max |-> max])
      g == shm_alloc(shm_create(lin), MgrSize).h
  IN [h |-> shm_alloc(g, ClassSize * n).h,
      m |-> [power |-> power, max |-> max,
             list |-> [i \in 0..(n - 1) |-> <<>>], chunk |-> <<>>,
             used |-> 0, reqs |-> 0, free |-> 0, count |-> 0]]

-----------------------------------------------------------------------------
(* The clients. *)

S == [h |-> h, m |-> m]

Init ==
  \E lin, power \in BOOLEAN, max \in ItemMaxes :
    \E s \in {slabs_create(lin, power, max)} :
      h = s.h /\ m = s.m /\ live = {} /\ raw = {}

Held(set, a) == IF a = None THEN set ELSE set \cup {a}

SlabsResult(r) ==
  h' = r.s.h /\ m' = r.s.m /\ live' = Held(live, r.at) /\ UNCHANGED raw

SlabsAlloc(n, act) == SlabsResult(slabs_alloc(S, n, act))

SlabsSplitAlloc(n, minn) == SlabsResult(slabs_split_alloc(S, n, minn))

SlabsFree(a) ==
  \E s \in {slabs_free(S, a)} :
    h' = s.h /\ m' = s.m /\ live' = live \ {a} /\ UNCHANGED raw

ShmemResult(r) ==
  h' = r.h /\ raw' = Held(raw, r.at) /\ UNCHANGED <<m, live>>

ShmemAlloc(n) == ShmemResult(shm_alloc(h, n))

ShmemSplitAlloc(minn) == ShmemResult(shm_split_alloc(h, minn))

ShmemFree(a) ==
  h' = shm_free(h, a) /\ raw' = raw \ {a} /\ UNCHANGED <<m, live>>

Next ==
  \/ \E n \in Reqs, act \in BOOLEAN : SlabsAlloc(n, act)
  \/ \E n, minn \in Reqs : minn <= n /\ SlabsSplitAlloc(n, minn)
  \/ \E a \in live : SlabsFree(a)
  \/ \E n \in RawReqs : ShmemAlloc(n)
  \/ \E n \in RawReqs : ShmemSplitAlloc(n)
  \/ \E a \in raw : ShmemFree(a)

Spec == Init /\ [][Next]_vars

-----------------------------------------------------------------------------
(* Properties *)

Storages == DOMAIN h.blk
FreeSt == {a \in Storages : ~h.blk[a].alloc}

(* Storages follow each other without gap or overlap from the start of the *)
(* segment to its end, and no two free ones are neighbours.                *)
Tiled ==
  LET o == h.order
      next(k) == o[k] + Hdr + h.blk[o[k]].size
  IN /\ IsInjective(o) /\ ToSet(o) = Storages
     /\ o[1] = 0 /\ next(Len(o)) = Hdr + Total
     /\ \A k \in 1..(Len(o) - 1) :
          o[k + 1] = next(k) /\ ~({o[k], o[k + 1]} \subseteq FreeSt)

(* The free lists hold the free storages, each once and at the level of    *)
(* its size; available names the levels in use in order, top the last.     *)
Listed ==
  LET levels == DOMAIN h.free
      level(a) == Min({get_insert_index(h, h.blk[a].size), FreeLen(h) - 1})
  IN /\ \A l \in levels : /\ IsInjective(h.free[l])
                          /\ ToSet(h.free[l]) = {a \in FreeSt : level(a) = l}
     /\ ToSet(h.avail) = {l \in levels : h.free[l] # <<>>}
     /\ \A j, k \in 1..Len(h.avail) : j < k => h.avail[j] < h.avail[k]
     /\ h.top = (IF h.avail = <<>> THEN FreeLen(h) ELSE Last(h.avail))

(* The sum of f over a set of addresses. *)
SumOver(set, f) ==
  LET upto[k \in 0..(Hdr + Total)] ==
        IF k = 0 THEN 0
        ELSE upto[k - 1] + (IF k - 1 \in set THEN f[k - 1] ELSE 0)
  IN upto[Hdr + Total]

(* The statistics of the segment are those of its storages. *)
Counted ==
  LET taken == Storages \ FreeSt
  IN /\ h.used = SumOver(taken, [a \in taken |-> h.blk[a].size])
     /\ h.reqs = SumOver(taken, [a \in taken |-> h.blk[a].act])
     /\ h.count = Len(h.order)

(* After any sequence of splits and merges the segment is one row of       *)
(* storages, and its redundant descriptions (order, free lists, available, *)
(* max_available_index, statistics) agree, as the comments of the fields   *)
(* in shs_shmem.h say (shs_shmem_alloc, shs_shmem_free).                   *)
SegmentSound == Tiled /\ Listed /\ Counted

Cached == UNION {ToSet(m.list[i]) : i \in DOMAIN m.list}

(* A chunk is with one client or once in the list of its class; its        *)
(* storage is allocated, large enough, and nobody else's; no smaller class *)
(* would have held what was asked for (shs_slabs_clsid).                   *)
ChunksOwned ==
  /\ DOMAIN m.chunk = live \cup Cached /\ live \cap Cached = {}
  /\ live \cap raw = {} /\ m.count = Cardinality(DOMAIN m.chunk)
  /\ \A i \in DOMAIN m.list : /\ IsInjective(m.list[i])
                              /\ \A a \in ToSet(m.list[i]) : m.chunk[a].id = i
  /\ \A a \in DOMAIN m.chunk : /\ a \in Storages \ FreeSt
                               /\ m.chunk[a].size + ChunkHdr <= h.blk[a].size
                               /\ m.chunk[a].req <= m.chunk[a].size
                               /\ \A i \in 0..(m.chunk[a].id - 1) :
                                    m.chunk[a].req + ChunkHdr > class_size(m, i)
  /\ raw \subseteq Storages \ FreeSt

(* shs_slabs_free forgets to count a chunk when used is below the size of  *)
(* its class: the statistics drift, but used and free by the same amount,  *)
(* which stays below the largest class whatever the clients do.            *)
DriftBounded ==
  LET top == class_size(m, ClassCount(m) - 1)
      size(set) == SumOver(set, [a \in set |-> m.chunk[a].size])
      drift == m.used - size(live)
  IN /\ drift \in 0..(top - 1)
     /\ m.free = (size(Cached) - drift) % Word
     /\ m.reqs - SumOver(live, [a \in live |-> m.chunk[a].req]) \in 0..drift

(* No free storage of segment g holds n bytes; or n is not above min_size  *)
(* and a storage below min_size hides the others from the search.          *)
NoRoom(g, n) ==
  LET free == {a \in DOMAIN g.blk : ~g.blk[a].alloc}
      small == {a \in free : g.blk[a].size < n}
  IN small = free \/ (n <= MinSize /\ small # {})

Fitting(n) == {i \in DOMAIN m.list : n + ChunkHdr <= class_size(m, i)}

(* A request larger than every class, or one between the two classes of    *)
(* type POWER, which the search of shs_slabs_clsid does not find.          *)
Classless(n) ==
  \/ Fitting(n) = {}
  \/ /\ m.power /\ Fitting(n) = {1} /\ ClassCount(m) = 2
     /\ ALIGNMENT(n + ChunkHdr) # class_size(m, 1)

(* The answer r to a request of n bytes says the truth if it says no. *)
Refused(r, n) ==
  r.at = None =>
    \/ Classless(n)
    \/ /\ \A i \in DOMAIN r.s.m.list : r.s.m.list[i] = <<>>
       /\ NoRoom(r.s.h, Min({class_size(m, i) : i \in Fitting(n)}))

(* shs_shmem_alloc searches one free list only, and still fails only if    *)
(* there is no room; shs_slabs_alloc only if no class holds the request or *)
(* there is no room even after every cached chunk, of whatever class, has  *)
(* gone back to the segment (shs_slabs_recover).                           *)
FailsOnlyWhenFull ==
  /\ \A n \in 1..Total : FirstFit(h, n) = None => NoRoom(h, n)
  /\ \A n \in Reqs : Refused(slabs_alloc(S, n, FALSE), n)
=============================================================================
