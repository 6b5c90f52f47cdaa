----------------------------- MODULE HostSelect -----------------------------
(***************************************************************************)
(* How a downstream request gets its host (downstream/host.cc,             *)
(* downstream/server.cc), as operators.  The masters of a group stand on a *)
(* ring of virtual nodes, a sequence of records idx, off in the order of   *)
(* off; the vector of the code starts at 0.                                *)
(***************************************************************************)
EXTENDS Integers, Sequences, FiniteSets, SequencesExt

Size(ring) == Len(ring)
Node(ring, i) == ring[i + 1]

(* GetPos: before the first node with a larger offset. *)
GetPos(ring, hash) ==
  LET later == {i \in 0..(Size(ring) - 1) : hash < Node(ring, i).off}
  IN IF later = {} THEN Size(ring) ELSE CHOOSE i \in later : \A j \in later : i <= j

(* HashInit for virtual nodes, given in the order in which they are made:  *)
(* sorted by hash, then spread evenly up to the largest hash.              *)
HashInit(nodes) ==
  LET put(r, n) == InsertAt(r, GetPos(r, n.off) + 1, n)
      upto[k \in 0..Len(nodes)] ==
        IF k = 0 THEN <<>> ELSE put(upto[k - 1], nodes[k])
      sorted == upto[Len(nodes)]
      avg == Last(sorted).off \div Len(sorted)
  IN [i \in 1..Len(sorted) |-> [sorted[i] EXCEPT !.off = avg * i]]

(* The calls GetHashIdx(start, end, hash) makes: start does not pass end. *)
Calls(n) == {c \in (0..n) \X (0..n) : c[1] <= c[2]}

(* Mutant: the node before is not compared with. *)
HashIdxLow(ring, hash, junk) ==
  LET off(i) == IF i < Size(ring) THEN Node(ring, i).off ELSE junk
      f[c \in Calls(Size(ring))] ==
        LET middle == (c[1] + c[2]) \div 2
        IN IF hash = off(middle) THEN middle
           ELSE IF hash < off(middle)
           THEN IF middle = c[1] THEN middle ELSE f[<<c[1], middle - 1>>]
           ELSE IF middle = c[1] \/ hash < off(middle + 1) THEN middle
           ELSE f[<<middle + 1, c[2]>>]
  IN f[<<0, Size(ring)>>]

(* GetHashIdx(0, size, hash).  The node after the last one, which a hash   *)
(* beyond the last offset may be compared with, is not there: junk is what *)
(* memory holds.                                                           *)
GetHashIdx(ring, hash, junk) ==
  LET off(i) == IF i < Size(ring) THEN Node(ring, i).off ELSE junk
      f[c \in Calls(Size(ring))] ==
        LET middle == (c[1] + c[2]) \div 2
        IN IF hash = off(middle) THEN middle
           ELSE IF hash < off(middle)
           THEN IF middle = c[1] \/ hash > off(middle - 1) THEN middle
                ELSE f[<<c[1], middle - 1>>]
           ELSE IF middle = c[1] \/ hash < off(middle + 1) THEN middle + 1
           ELSE f[<<middle + 1, c[2]>>]
  IN f[<<0, Size(ring)>>]

NoHost == -1

(* The masters on the ring from node at on. *)
Around(ring, at) ==
  [i \in 1..Size(ring) |-> Node(ring, (at + i - 1) % Size(ring)).idx]

(* Master: the master of the node the hash falls on or, when this request  *)
(* has tried it, the next untried one on the ring.  cnt is the number of   *)
(* masters the group data holds: GetMaster fails from there on, at the     *)
(* first node for good.                                                    *)
Master(ring, cnt, hash, junk, history) ==
  LET at == GetHashIdx(ring, hash, junk) % Size(ring)
      row == Around(ring, at)
      k == SelectInSeq(row, LAMBDA i : i \notin history /\ i < cnt)
  IN IF ring = <<>> THEN NoHost
     ELSE IF row[1] >= cnt \/ k = 0 THEN NoHost
     ELSE row[k]

(* Slave: the first that never failed, from the hash plus the number of    *)
(* retries on; else the first one alive, from the hash on.                 *)
Slave(cnt, hash, retry, fresh, alive) ==
  LET row(start) == [i \in 1..cnt |-> (start + i - 1) % cnt]
      pick(start, ok) ==
        LET k == SelectInSeq(row(start), LAMBDA i : i \in ok)
        IN IF k = 0 THEN NoHost ELSE row(start)[k]
      legal == hash % cnt
  IN IF cnt = 0 THEN NoHost
     ELSE IF fresh \cap 0..(cnt - 1) # {} THEN pick(legal + retry, fresh)
     ELSE pick(legal, alive)
=============================================================================
