---------------------------- MODULE HostsProofs -----------------------------
(***************************************************************************)
(* Proofs about the shared group data of Hosts: the idle slots are as many *)
(* as avail_group_cnt says, no process loses the slot of a group it has a  *)
(* copy of, and a request gets the hosts that the ring of its group and    *)
(* its hash say.                                                           *)
(***************************************************************************)
EXTENDS Hosts, FiniteSetTheorems, WellFoundedInduction, TLAPS

-----------------------------------------------------------------------------
(* The inductive invariant. *)

SlotRec == [used : BOOLEAN, ref : 0..(2^16 - 1), group : Addrs \cup {0},
            hosts : 0..MaxGroups]
SlotType == slot \in [1..Slots -> SlotRec]
PoolType == avail \in 0..Slots /\ next \in 1..(Slots + 1)
CountType == groups \in 0..MaxGroups /\ copies \in [Groups -> 0..MaxCopies]
CopyRec == [g : Groups, s : 0..Slots, a : Addrs]
HasType == alive \subseteq Procs /\ has \in [Procs -> SUBSET CopyRec]

(* The owner of the mutex is alive (Die frees it), and works on a slot     *)
(* unless it has still to look at one; Create makes the next group.        *)
Searching == {"next", "wrap", "test"}
Creating == Searching \cup {"beyond", "index", "ref", "group"}
Resetting == {"hosts", "forget", "reset", "count"}
Steps == {"free"} \cup Creating \cup Resetting
OpType ==
  /\ op \in [step : Steps, p : Procs, g : 0..MaxGroups, s : 0..Slots]
  /\ op.step # "free" => op.p \in alive
  /\ op.step \notin {"free", "next", "beyond"} => op.s \in 1..Slots
  /\ op.step \in Creating => op.g \in Groups /\ op.g = groups + 1
  /\ op.step \in Searching => avail > 0

(* A slot that is not used belongs to no group; neither does the one       *)
(* Create is about to fill.  Reset has the slot in hand.                   *)
IdleSlots == {s \in 1..Slots : ~slot[s].used}
SlotInv ==
  /\ \A s \in IdleSlots : slot[s].group = 0
  /\ op.step \in {"index", "count"} => op.s \in IdleSlots
  /\ op.step \in {"ref", "group", "hosts", "forget", "reset"} => op.s \notin IdleSlots
  /\ op.step \in {"ref", "group", "reset"} => slot[op.s].group = 0
  /\ op.step = "group" => slot[op.s].ref = Refs
  /\ op.step = "forget" => slot[op.s].hosts = 0

(* How often copies of g were released: those made that are neither lost   *)
(* nor still with a process.                                               *)
Made == 1..groups
Holders(g) == {p \in Procs : \E c \in has[p] : c.g = g}
Released(g) == copies[g] - Cardinality(Holders(g))

(* The copies of a group are alike, one per process, in live processes.    *)
CopyInv ==
  /\ \A p \in Procs : \A c \in has[p] : c.g \in Made
  /\ \A p, q \in Procs : \A c \in has[p], d \in has[q] : c.g = d.g => c = d
  /\ \A p \in Procs \ alive : has[p] = {}
  /\ \A g \in Groups : Released(g) >= 0

(* Nothing of group g is to be expected in its slot any more. *)
Spent(g) == g \in Groups => Released(g) >= Refs \/ g \in robbed

(* ref_cnt of a slot is what the releases leave of Refs, and until nothing *)
(* is left or the group is robbed, the slot is the group's.  This does not *)
(* depend on Balanced, which a death can make true again.  Only a group    *)
(* that was released more than Refs times robs another.                    *)
OwnSlot(c) == /\ slot[c.s].group = c.a /\ slot[c.s].hosts = c.g
              /\ slot[c.s].ref = Refs - Released(c.g)
KeptInv ==
  /\ \A p \in Procs : \A c \in has[p] : c.s > 0 /\ ~Spent(c.g) => OwnSlot(c)
  /\ op.step = "hosts" => Spent(slot[op.s].hosts)
  /\ robbed # {} => \E g \in Made : Released(g) > Refs

Inv == /\ SlotType /\ PoolType /\ CountType /\ HasType /\ OpType
       /\ SlotInv /\ CopyInv /\ IdleFound /\ KeptInv

(* A slot gets the hosts of a new group only. *)
HostsOnce ==
  \A s \in 1..Slots : slot'[s].hosts \in Made => slot'[s].hosts = slot[s].hosts

-----------------------------------------------------------------------------
(* Facts about the constants and the operators. *)

LEMMA Constants ==
  /\ Slots \in Nat \ {0} /\ MaxGroups \in Nat \ {0} /\ MaxCopies \in Nat \ {0}
  /\ IsFiniteSet(Workers) /\ Cardinality(Workers) <= 1024 /\ 0 \notin Addrs
  BY HostsAssumption

LEMMA RefsType == Refs \in 2..1026
<1>1. Cardinality(Workers) \in Nat
  BY Constants, FS_CardinalityType
<1> QED BY <1>1, Constants DEF Refs

LEMMA Width == 2^16 = 65536
  OBVIOUS

LEMMA ProcsFinite == IsFiniteSet(Procs)
<1>1. IsFiniteSet(Workers \cup {Monitor})
  BY Constants, FS_AddElement
<1>2. IsFiniteSet((Workers \cup {Monitor}) \cup {Boss})
  BY <1>1, FS_AddElement
<1> QED BY <1>2 DEF Procs, Children

LEMMA HoldersFinite ==
  \A g : IsFiniteSet(Holders(g)) /\ Cardinality(Holders(g)) \in Nat
<1> SUFFICES ASSUME NEW g
             PROVE  IsFiniteSet(Holders(g)) /\ Cardinality(Holders(g)) \in Nat
  OBVIOUS
<1>1. Holders(g) \subseteq Procs
  BY DEF Holders
<1>2. IsFiniteSet(Holders(g))
  BY <1>1, ProcsFinite, FS_Subset
<1> QED BY <1>2, FS_CardinalityType

LEMMA IdleFinite ==
  /\ IsFiniteSet(IdleSlots) /\ Cardinality(IdleSlots) \in 0..Slots
<1>1. IsFiniteSet(1..Slots) /\ Cardinality(1..Slots) = Slots
  <2>1. 1 \in Int /\ Slots \in Int /\ ~(1 > Slots) /\ Slots - 1 + 1 = Slots
    BY Constants
  <2> QED BY <2>1, FS_Interval
<1>2. IdleSlots \subseteq 1..Slots
  BY DEF IdleSlots
<1>3. IsFiniteSet(IdleSlots) /\ Cardinality(IdleSlots) <= Slots
  BY <1>1, <1>2, FS_Subset
<1> QED BY <1>3, Constants, FS_CardinalityType

(* A set of naturals has a least element. *)
LEMMA LeastNat ==
  ASSUME NEW T \in SUBSET Nat, T # {}
  PROVE  \E x \in T : \A y \in T : x <= y
<1>1. PICK x \in T : \A y \in T : <<y, x>> \notin OpToRel(<, Nat)
  BY NatLessThanWellFounded, WFMin
<1>2. \A y \in T : ~(y < x)
  BY <1>1 DEF OpToRel
<1> QED BY <1>2

LEMMA RemainderRange ==
  ASSUME NEW a \in Int, NEW m \in Nat, m > 0 PROVE a % m \in 0..(m - 1)
  OBVIOUS

LEMMA RemainderSame ==
  ASSUME NEW a \in Nat, NEW m \in Nat, a < m PROVE a % m = a
  OBVIOUS

(* ref_cnt -= 1 of a uint16_t. *)
LEMMA Decrement ==
  ASSUME NEW x \in 0..(2^16 - 1)
  PROVE  /\ (x - 1) % 2^16 \in 0..(2^16 - 1)
         /\ x > 0 => (x - 1) % 2^16 = x - 1
<1> DEFINE a == x - 1
           m == 2^16
<1>1. m \in Nat /\ m > 0
  BY Width
<1>2. a \in Int /\ (x > 0 => a \in Nat /\ a < m)
  BY Width
<1> HIDE DEF a, m
<1>3. a % m \in 0..(m - 1)
  BY <1>1, <1>2, RemainderRange
<1>4. x > 0 => a % m = a
  BY <1>1, <1>2, RemainderSame
<1> QED BY <1>3, <1>4 DEF a, m

LEMMA ReleasedType ==
  ASSUME CountType
  PROVE  /\ \A g \in Groups : Released(g) \in Int
         /\ Made \subseteq Groups
<1>1. \A g \in Groups : copies[g] \in Int
  BY Constants DEF CountType
<1>2. \A g \in Groups : Cardinality(Holders(g)) \in Int
  BY HoldersFinite
<1>3. Made \subseteq Groups
  BY Constants DEF CountType, Made, Groups
<1> QED BY <1>1, <1>2, <1>3 DEF Released

(* What a copy says, and that of a group not spent. *)
LEMMA CopyFields ==
  ASSUME Inv, NEW p \in Procs, NEW c \in has[p]
  PROVE  /\ c.g \in Groups /\ c.g \in Made /\ c.g # 0 /\ c.s \in 0..Slots
         /\ c.a \in Addrs /\ c.a # 0 /\ (c.s > 0 => c.s \in 1..Slots)
         /\ Released(c.g) \in Int /\ Released(c.g) >= 0
<1>1. c \in CopyRec
  BY DEF Inv, HasType
<1>2. c.g \in Groups /\ c.s \in 0..Slots /\ c.a \in Addrs
  BY <1>1 DEF CopyRec
<1>3. c.g # 0 /\ c.a # 0 /\ (c.s > 0 => c.s \in 1..Slots)
  BY <1>2, Constants DEF Groups
<1>4. c.g \in Made /\ Released(c.g) >= 0
  BY <1>2 DEF Inv, CopyInv
<1>5. Released(c.g) \in Int
  BY <1>2, ReleasedType DEF Inv
<1> QED BY <1>2, <1>3, <1>4, <1>5

(* What a step keeps when it changes neither the copies nor the counts of  *)
(* them.                                                                   *)
LEMMA SameCopies ==
  ASSUME Inv, UNCHANGED <<alive, has, groups, copies, robbed>>
  PROVE  /\ CountType' /\ HasType' /\ CopyInv' /\ Made' = Made
         /\ \A g : Released(g)' = Released(g) /\ Spent(g)' = Spent(g)
<1>1. Made' = Made /\ \A g : Released(g)' = Released(g)
  BY DEF Made, Released, Holders
<1>2. \A g : Spent(g)' = Spent(g)
  BY <1>1 DEF Spent, Refs, Groups
<1>3. CountType' /\ HasType'
  BY DEF Inv, CountType, HasType
<1>4. CopyInv'
  BY <1>1 DEF Inv, CopyInv
<1> QED BY <1>1, <1>2, <1>3, <1>4

(* And when, besides, it writes only to slots that nobody counts on.       *)
LEMMA StillKept ==
  ASSUME Inv, UNCHANGED <<alive, has, groups, copies, robbed>>,
         \A s \in 1..Slots :
           \/ /\ slot'[s].group = slot[s].group /\ slot'[s].hosts = slot[s].hosts
              /\ slot'[s].ref = slot[s].ref
           \/ slot[s].group = 0 \/ slot[s].hosts = 0 \/ Spent(slot[s].hosts),
         op'.step = "hosts" => UNCHANGED <<op, slot>>
  PROVE  KeptInv'
<1>1. Made' = Made /\ \A g : Released(g)' = Released(g) /\ Spent(g)' = Spent(g)
  BY SameCopies
<1>2. ASSUME NEW p \in Procs, NEW c \in has[p], c.s > 0, ~Spent(c.g)
      PROVE  OwnSlot(c)'
  <2>1. c.s \in 1..Slots /\ c.a # 0 /\ c.g # 0
    BY <1>2, CopyFields
  <2>2. OwnSlot(c)
    BY <1>2 DEF Inv, KeptInv
  <2>3. slot[c.s].group # 0 /\ slot[c.s].hosts # 0 /\ ~Spent(slot[c.s].hosts)
    BY <1>2, <2>1, <2>2 DEF OwnSlot
  <2>4. /\ slot'[c.s].group = slot[c.s].group /\ slot'[c.s].hosts = slot[c.s].hosts
        /\ slot'[c.s].ref = slot[c.s].ref
    BY <2>1, <2>3
  <2> QED BY <1>1, <2>2, <2>4 DEF OwnSlot, Refs
<1>3. (op.step = "hosts" => Spent(slot[op.s].hosts))'
  <2> SUFFICES ASSUME op'.step = "hosts" PROVE Spent(slot[op.s].hosts)'
    OBVIOUS
  <2>1. op' = op /\ slot' = slot /\ Spent(slot[op.s].hosts)
    BY DEF Inv, KeptInv
  <2> QED BY <2>1 DEF Spent, Released, Holders, Refs, Groups
<1>4. (robbed # {} => \E g \in Made : Released(g) > Refs)'
  BY <1>1 DEF Inv, KeptInv, Refs
<1> QED BY <1>1, <1>2, <1>3, <1>4 DEF KeptInv

(* A step that changes who has copies, and no release. *)
LEMMA SameReleased ==
  ASSUME Inv, UNCHANGED <<slot, robbed>>, Made' = Made,
         \A g \in Groups : Released(g)' = Released(g) /\ Spent(g)' = Spent(g),
         \A q \in Procs : \A c \in has'[q] : \E r \in Procs : c \in has[r],
         op'.step = "free" \/ op' = op
  PROVE  KeptInv'
<1>1. ASSUME NEW q \in Procs, NEW c \in has'[q], c.s > 0, ~Spent(c.g)'
      PROVE  OwnSlot(c)'
  <2>1. PICK r \in Procs : c \in has[r]
    OBVIOUS
  <2>2. c.g \in Groups
    BY <2>1, CopyFields
  <2>3. OwnSlot(c) /\ Released(c.g)' = Released(c.g)
    BY <1>1, <2>1, <2>2 DEF Inv, KeptInv
  <2> QED BY <2>3 DEF OwnSlot, Refs
<1>2. (op.step = "hosts" => Spent(slot[op.s].hosts))'
  <2> SUFFICES ASSUME op'.step = "hosts" PROVE Spent(slot[op.s].hosts)'
    OBVIOUS
  <2>1. op' = op /\ Spent(slot[op.s].hosts) /\ op.s \in 1..Slots
    BY DEF Inv, KeptInv, OpType
  <2>2. PICK h \in 0..MaxGroups : h = slot[op.s].hosts
    BY <2>1 DEF Inv, SlotType, SlotRec
  <2>3. Spent(h)'
    <3>1. CASE h \in Groups
      BY <2>1, <2>2, <3>1
    <3>2. CASE h \notin Groups
      BY <3>2 DEF Spent, Groups
    <3> QED BY <3>1, <3>2
  <2>4. slot'[op'.s].hosts = h
    BY <2>1, <2>2
  <2> QED BY <2>3, <2>4 DEF Spent, Released, Holders
<1>3. (robbed # {} => \E g \in Made : Released(g) > Refs)'
  BY ReleasedType DEF Inv, KeptInv, Refs
<1> QED BY <1>1, <1>2, <1>3 DEF KeptInv

-----------------------------------------------------------------------------
(* Each action keeps the invariant. *)

LEMMA QuietStep ==
  ASSUME Inv, UNCHANGED <<slot, avail, next, op, alive, has, groups, copies, torn, robbed>>
  PROVE  Inv' /\ HostsOnce
<1>1. CountType' /\ HasType' /\ CopyInv'
  BY SameCopies
<1>2. SlotType' /\ PoolType' /\ OpType'
  BY DEF Inv, SlotType, PoolType, OpType
<1>3. IdleSlots' = IdleSlots
  BY DEF IdleSlots
<1>4. SlotInv'
  BY <1>3 DEF Inv, SlotInv, Refs
<1>5. IdleFound'
  BY DEF Inv, IdleFound
<1>6. KeptInv'
  BY StillKept
<1> QED BY <1>1, <1>2, <1>4, <1>5, <1>6 DEF Inv, HostsOnce

(* GetIdleIndex writes to next_group_index and avail_group_cnt only. *)
LEMMA IndexStep ==
  ASSUME Inv, UNCHANGED <<slot, alive, has, groups, copies, torn, robbed>>,
         PoolType', OpType', IdleFound',
         op'.step \in Searching \cup {"beyond", "index"},
         op'.step = "index" => op'.s \in IdleSlots
  PROVE  Inv' /\ HostsOnce
<1>1. CountType' /\ HasType' /\ CopyInv'
  BY SameCopies
<1>2. SlotType'
  BY DEF Inv, SlotType
<1>3. IdleSlots' = IdleSlots
  BY DEF IdleSlots
<1>4. op'.step \notin {"count", "ref", "group", "hosts", "forget", "reset"}
  BY DEF Searching
<1>5. SlotInv'
  BY <1>3, <1>4 DEF Inv, SlotInv
<1>6. KeptInv'
  BY <1>4, StillKept
<1> QED BY <1>1, <1>2, <1>5, <1>6 DEF Inv, HostsOnce

LEMMA CreateStep ==
  ASSUME Inv, NEW p \in Procs, Create(p) PROVE Inv' /\ HostsOnce
<1>1. /\ op.step = "free" /\ p \in alive /\ avail > 0
      /\ groups + 1 <= MaxGroups
      /\ op' = [step |-> "next", p |-> p, g |-> groups + 1, s |-> 0]
      /\ UNCHANGED <<slot, avail, next, alive, has, groups, copies, torn, robbed>>
  BY DEF Create, Locked, hist
<1>2. groups + 1 \in Groups /\ 0 \in 0..Slots
  BY <1>1, Constants DEF Inv, CountType, Groups
<1>3. OpType'
  BY <1>1, <1>2 DEF OpType, Steps, Creating, Searching, Groups
<1>4. PoolType'
  BY <1>1 DEF Inv, PoolType
<1>5. IdleFound'
  BY <1>1 DEF Inv, IdleFound
<1>6. op'.step \in Searching /\ op'.step # "index"
  BY <1>1 DEF Searching
<1> QED BY <1>1, <1>3, <1>4, <1>5, <1>6, IndexStep

LEMMA NextIndexStep ==
  ASSUME Inv, NextIndex PROVE Inv' /\ HostsOnce
<1>0. op.step = "next" /\ UNCHANGED <<slot, avail, alive, has, groups, copies, torn, robbed>>
  BY DEF NextIndex, hist
<1>1. /\ op.p \in alive /\ op.g \in Groups /\ op.g = groups + 1 /\ avail > 0
      /\ op \in [step : Steps, p : Procs, g : 0..MaxGroups, s : 0..Slots]
  BY <1>0 DEF Inv, OpType, Creating, Searching
<1>2. next \in 1..(Slots + 1) /\ Slots \in Nat
  BY Constants DEF Inv, PoolType
<1>3. CASE next <= Slots
  <2> DEFINE st == IF next = Slots THEN "wrap" ELSE "test"
  <2>1. op' = [op EXCEPT !.step = st, !.s = next] /\ next' = next + 1
    BY <1>2, <1>3 DEF NextIndex
  <2>2. st \in {"wrap", "test"} /\ (next' = Slots + 1 => st = "wrap")
    BY <1>2, <2>1
  <2> HIDE DEF st
  <2>3. op'.step = st /\ op'.p = op.p /\ op'.g = op.g /\ op'.s = next /\ next \in 1..Slots
    BY <1>1, <1>2, <1>3, <2>1
  <2>4. OpType'
    <3>1. st \in Steps /\ next \in 0..Slots
      BY <2>2, <2>3 DEF Steps, Creating, Searching
    <3>2. op' \in [step : Steps, p : Procs, g : 0..MaxGroups, s : 0..Slots]
      BY <1>1, <2>1, <3>1
    <3> QED BY <1>0, <1>1, <2>2, <2>3, <3>2 DEF OpType, Creating, Searching
  <2>5. PoolType'
    BY <1>0, <1>2, <1>3, <2>1 DEF Inv, PoolType
  <2>6. IdleFound'
    BY <1>0, <2>2, <2>3 DEF Inv, IdleFound
  <2>7. op'.step \in Searching /\ op'.step # "index"
    BY <2>2, <2>3 DEF Searching
  <2> QED BY <1>0, <2>4, <2>5, <2>6, <2>7, IndexStep
<1>4. CASE next > Slots
  <2>1. op' = [op EXCEPT !.step = "beyond"] /\ next' = next
    BY <1>2, <1>4 DEF NextIndex
  <2>2. op'.step = "beyond" /\ op'.p = op.p /\ op'.g = op.g /\ op'.s = op.s
    BY <1>1, <2>1
  <2>3. OpType'
    <3>1. op' \in [step : Steps, p : Procs, g : 0..MaxGroups, s : 0..Slots]
      BY <1>1, <2>1, <2>2 DEF Steps, Creating, Searching
    <3> QED BY <1>0, <1>1, <2>2, <3>1 DEF OpType, Creating, Searching
  <2>4. PoolType'
    BY <1>0, <2>1 DEF Inv, PoolType
  <2>5. torn
    <3>1. next = Slots + 1
      BY <1>2, <1>4
    <3> QED BY <1>0, <3>1 DEF Inv, IdleFound
  <2>6. IdleFound'
    BY <1>0, <2>2, <2>5 DEF Inv, IdleFound
  <2> QED BY <1>0, <2>2, <2>3, <2>4, <2>6, IndexStep
<1> QED BY <1>2, <1>3, <1>4

LEMMA WrapIndexStep ==
  ASSUME Inv, WrapIndex PROVE Inv' /\ HostsOnce
<1>0. /\ op.step = "wrap" /\ next' = 1 /\ op' = [op EXCEPT !.step = "test"]
      /\ UNCHANGED <<slot, avail, alive, has, groups, copies, torn, robbed>>
  BY DEF WrapIndex, hist
<1>1. /\ op.p \in alive /\ op.g \in Groups /\ op.g = groups + 1 /\ avail > 0
      /\ op.s \in 1..Slots
      /\ op \in [step : Steps, p : Procs, g : 0..MaxGroups, s : 0..Slots]
  BY <1>0 DEF Inv, OpType, Creating, Searching
<1>2. op'.step = "test" /\ op'.p = op.p /\ op'.g = op.g /\ op'.s = op.s
  BY <1>0, <1>1
<1>3. OpType'
  <2>1. op' \in [step : Steps, p : Procs, g : 0..MaxGroups, s : 0..Slots]
    BY <1>0, <1>1 DEF Steps, Creating, Searching
  <2> QED BY <1>0, <1>1, <1>2, <2>1 DEF OpType, Creating, Searching
<1>4. PoolType'
  BY <1>0, Constants DEF Inv, PoolType
<1>5. IdleFound'
  <2>1. next' # Slots + 1
    BY <1>0, Constants
  <2> QED BY <1>0, <1>2, <2>1 DEF Inv, IdleFound
<1>6. op'.step \in Searching /\ op'.step # "index"
  BY <1>2 DEF Searching
<1> QED BY <1>0, <1>3, <1>4, <1>5, <1>6, IndexStep

(* The slot in hand is taken from the count when it is idle. *)
LEMMA TestIndexStep ==
  ASSUME Inv, TestIndex PROVE Inv' /\ HostsOnce
<1>0. op.step = "test" /\ UNCHANGED <<slot, next, alive, has, groups, copies, torn, robbed>>
  BY DEF TestIndex, hist
<1>1. /\ op.p \in alive /\ op.g \in Groups /\ op.g = groups + 1 /\ avail > 0
      /\ op.s \in 1..Slots /\ avail \in 0..Slots
      /\ op \in [step : Steps, p : Procs, g : 0..MaxGroups, s : 0..Slots]
  BY <1>0 DEF Inv, OpType, Creating, Searching, PoolType
<1>2. CASE ~slot[op.s].used
  <2>1. avail' = avail - 1 /\ op' = [op EXCEPT !.step = "index"]
    BY <1>2 DEF TestIndex
  <2>2. op'.step = "index" /\ op'.p = op.p /\ op'.g = op.g /\ op'.s = op.s
    BY <1>1, <2>1
  <2>3. OpType'
    <3>1. op' \in [step : Steps, p : Procs, g : 0..MaxGroups, s : 0..Slots]
      BY <1>1, <2>1 DEF Steps, Creating, Searching
    <3> QED BY <1>0, <1>1, <2>2, <3>1 DEF OpType, Creating, Searching
  <2>4. PoolType'
    BY <1>0, <1>1, <2>1, Constants DEF Inv, PoolType
  <2>5. IdleFound'
    <3>1. avail <= Cardinality(IdleSlots) - 0
      BY <1>0 DEF Inv, IdleFound, IdleSlots
    <3>2. avail' <= Cardinality(IdleSlots) - 1
      BY <1>1, <2>1, <3>1, IdleFinite
    <3> QED BY <1>0, <2>2, <3>2 DEF Inv, IdleFound, IdleSlots
  <2>6. op'.s \in IdleSlots
    BY <1>1, <1>2, <2>2 DEF IdleSlots
  <2> QED BY <1>0, <2>2, <2>3, <2>4, <2>5, <2>6, IndexStep
<1>3. CASE slot[op.s].used
  <2>1. avail' = avail /\ op' = [op EXCEPT !.step = "next", !.s = 0]
    BY <1>3 DEF TestIndex
  <2>2. op'.step = "next" /\ op'.p = op.p /\ op'.g = op.g
    BY <1>1, <2>1
  <2>3. OpType'
    <3>1. 0 \in 0..Slots
      BY Constants
    <3>2. op' \in [step : Steps, p : Procs, g : 0..MaxGroups, s : 0..Slots]
      BY <1>1, <2>1, <3>1 DEF Steps, Creating, Searching
    <3> QED BY <1>0, <1>1, <2>1, <2>2, <3>2 DEF OpType, Creating, Searching
  <2>4. PoolType'
    BY <1>0, <2>1 DEF Inv, PoolType
  <2>5. IdleFound'
    BY <1>0, <2>1, <2>2 DEF Inv, IdleFound
  <2>6. op'.step \in Searching /\ op'.step # "index"
    BY <2>2 DEF Searching
  <2> QED BY <1>0, <2>3, <2>4, <2>5, <2>6, IndexStep
<1> QED BY <1>2, <1>3

(* Create and Reset write a field of the slot in hand. *)
LEMMA WriteStep ==
  ASSUME Inv, op.step \in {"index", "ref", "hosts", "forget", "reset"},
         NEW r \in SlotRec, slot' = [slot EXCEPT ![op.s] = r],
         NEW st \in {"ref", "group", "forget", "reset", "count"},
         op' = [op EXCEPT !.step = st],
         r.hosts \in {slot[op.s].hosts, 0},
         \/ /\ r.group = slot[op.s].group /\ r.hosts = slot[op.s].hosts
            /\ r.ref = slot[op.s].ref
         \/ op.step # "index",
         op.step \in {"index", "ref"} <=> st \in {"ref", "group"},
         op.step = "index" => st = "ref" /\ r.used,
         op.step # "index" => (r.used <=> st # "count"),
         st \in {"ref", "group", "reset", "count"} => r.group = 0,
         st = "group" => r.ref = Refs,
         st = "forget" => r.hosts = 0,
         UNCHANGED <<avail, next, alive, has, groups, copies, torn, robbed>>
  PROVE  Inv' /\ HostsOnce
<1>1. CountType' /\ HasType' /\ CopyInv'
  BY SameCopies
<1>2. /\ op.s \in 1..Slots /\ op.p \in alive
      /\ op \in [step : Steps, p : Procs, g : 0..MaxGroups, s : 0..Slots]
  BY DEF Inv, OpType
<1>3. /\ op'.step = st /\ op'.p = op.p /\ op'.g = op.g /\ op'.s = op.s
  BY <1>2
<1>4. OpType'
  <2>1. op' \in [step : Steps, p : Procs, g : 0..MaxGroups, s : 0..Slots]
    BY <1>2 DEF Steps, Creating, Resetting
  <2>2. st \in Creating => op.g \in Groups /\ op.g = groups + 1
    BY DEF Inv, OpType, Creating, Searching
  <2> QED BY <1>2, <1>3, <2>1, <2>2 DEF OpType, Searching
<1>5. slot'[op.s] = r /\ \A s \in 1..Slots : s # op.s => slot'[s] = slot[s]
  BY <1>2 DEF Inv, SlotType
<1>6. SlotType' /\ PoolType'
  BY <1>2 DEF Inv, SlotType, PoolType
<1>7. IdleSlots' = IF r.used THEN IdleSlots \ {op.s} ELSE IdleSlots \cup {op.s}
  BY <1>2, <1>5 DEF IdleSlots
<1>8. SlotInv'
  <2>1. \A s \in IdleSlots' : slot'[s].group = 0
    <3>1. ~r.used => r.group = 0
      OBVIOUS
    <3> QED BY <1>2, <1>5, <1>7, <3>1 DEF Inv, SlotInv, IdleSlots
  <2>2. st = "count" => op'.s \in IdleSlots'
    BY <1>3, <1>7
  <2>3. st \in {"ref", "group", "hosts", "forget", "reset"} => op'.s \notin IdleSlots'
    BY <1>3, <1>7
  <2> QED BY <1>3, <1>5, <2>1, <2>2, <2>3 DEF SlotInv, Refs
<1>9. IdleFound'
  <2>1. CASE op.step = "index"
    <3>1. op.s \in IdleSlots /\ IdleSlots' = IdleSlots \ {op.s}
      BY <1>7, <2>1 DEF Inv, SlotInv
    <3>2. Cardinality(IdleSlots') = Cardinality(IdleSlots) - 1
      BY <3>1, IdleFinite, FS_RemoveElement
    <3>3. avail <= Cardinality(IdleSlots) - 1
      BY <2>1 DEF Inv, IdleFound, IdleSlots
    <3>4. avail' <= Cardinality(IdleSlots') - 0
      BY <3>2, <3>3, IdleFinite DEF Inv, PoolType
    <3>5. st = "ref"
      BY <2>1
    <3> QED BY <1>3, <2>1, <3>4, <3>5 DEF Inv, IdleFound, IdleSlots
  <2>2. CASE op.step # "index"
    <3>1. op.s \notin IdleSlots
      BY <2>2 DEF Inv, SlotInv
    <3>2. avail <= Cardinality(IdleSlots) - 0
      BY <2>2 DEF Inv, IdleFound, IdleSlots
    <3>3. CASE st # "count"
      <4>1. IdleSlots' = IdleSlots
        BY <1>7, <2>2, <3>1, <3>3
      <4> QED BY <1>3, <2>2, <3>2, <3>3, <4>1 DEF Inv, IdleFound, IdleSlots
    <3>4. CASE st = "count"
      <4>1. IdleSlots' = IdleSlots \cup {op.s}
        BY <1>7, <2>2, <3>4
      <4>2. Cardinality(IdleSlots') = Cardinality(IdleSlots) + 1
        BY <3>1, <4>1, IdleFinite, FS_AddElement
      <4>3. avail' <= Cardinality(IdleSlots') - 1
        BY <3>2, <4>2, IdleFinite DEF Inv, PoolType
      <4> QED BY <1>3, <2>2, <3>4, <4>3 DEF Inv, IdleFound, IdleSlots
    <3> QED BY <3>3, <3>4
  <2> QED BY <2>1, <2>2
<1>10. KeptInv'
  <2>1. op.step # "index" => \/ slot[op.s].group = 0 \/ slot[op.s].hosts = 0
                             \/ Spent(slot[op.s].hosts)
    BY DEF Inv, SlotInv, KeptInv
  <2>2. \A s \in 1..Slots :
          \/ /\ slot'[s].group = slot[s].group /\ slot'[s].hosts = slot[s].hosts
             /\ slot'[s].ref = slot[s].ref
          \/ slot[s].group = 0 \/ slot[s].hosts = 0 \/ Spent(slot[s].hosts)
    BY <1>5, <2>1
  <2>3. op'.step # "hosts"
    BY <1>3
  <2> QED BY <2>2, <2>3, StillKept
<1>11. HostsOnce
  <2>1. 0 \notin Made
    BY DEF Inv, CountType, Made
  <2> QED BY <1>2, <1>5, <2>1 DEF HostsOnce
<1> QED BY <1>1, <1>4, <1>6, <1>8, <1>9, <1>10, <1>11 DEF Inv

LEMMA CreateIndexStep ==
  ASSUME Inv, CreateIndex PROVE Inv' /\ HostsOnce
<1>0. op.step \in {"index", "ref"}
      /\ UNCHANGED <<avail, next, alive, has, groups, copies, torn, robbed>>
  BY DEF CreateIndex, hist
<1>1. op.s \in 1..Slots /\ slot[op.s] \in SlotRec /\ slot[op.s].group = 0
  BY <1>0 DEF Inv, OpType, SlotType, SlotInv
<1>2. CASE op.step = "index"
  <2> DEFINE r == [slot[op.s] EXCEPT !.used = TRUE]
  <2>1. slot' = [slot EXCEPT ![op.s] = r] /\ op' = [op EXCEPT !.step = "ref"]
    BY <1>1, <1>2 DEF CreateIndex
  <2>2. /\ r \in SlotRec /\ r.used /\ r.group = slot[op.s].group
        /\ r.hosts = slot[op.s].hosts /\ r.ref = slot[op.s].ref
    BY <1>1 DEF SlotRec
  <2> HIDE DEF r
  <2> QED BY <1>0, <1>1, <1>2, <2>1, <2>2, WriteStep
<1>3. CASE op.step = "ref"
  <2> DEFINE r == [slot[op.s] EXCEPT !.ref = Refs]
  <2>1. slot' = [slot EXCEPT ![op.s] = r] /\ op' = [op EXCEPT !.step = "group"]
    BY <1>1, <1>3 DEF CreateIndex
  <2>2. Refs \in 0..(2^16 - 1)
    BY RefsType, Width
  <2>3. /\ r \in SlotRec /\ r.used = slot[op.s].used /\ r.group = slot[op.s].group
        /\ r.hosts = slot[op.s].hosts /\ r.ref = Refs
    BY <1>1, <2>2 DEF SlotRec
  <2>4. slot[op.s].used
    BY <1>1, <1>3 DEF Inv, SlotInv, IdleSlots
  <2> HIDE DEF r
  <2> QED BY <1>0, <1>1, <1>3, <2>1, <2>3, <2>4, WriteStep
<1> QED BY <1>0, <1>2, <1>3

LEMMA ResetStep ==
  ASSUME Inv, Reset PROVE Inv' /\ HostsOnce
<1>0. op.step \in {"hosts", "forget"}
      /\ UNCHANGED <<avail, next, alive, has, groups, copies, torn, robbed>>
  BY DEF Reset, hist
<1>1. op.s \in 1..Slots /\ slot[op.s] \in SlotRec /\ slot[op.s].used
  BY <1>0 DEF Inv, OpType, SlotType, SlotInv, IdleSlots
<1>2. CASE op.step = "hosts"
  <2> DEFINE r == [slot[op.s] EXCEPT !.hosts = 0]
  <2>1. slot' = [slot EXCEPT ![op.s] = r] /\ op' = [op EXCEPT !.step = "forget"]
    BY <1>1, <1>2 DEF Reset
  <2>2. r \in SlotRec /\ r.used /\ r.hosts = 0
    <3>1. 0 \in 0..MaxGroups
      BY Constants
    <3> QED BY <1>1, <3>1 DEF SlotRec
  <2> HIDE DEF r
  <2> QED BY <1>0, <1>1, <1>2, <2>1, <2>2, WriteStep
<1>3. CASE op.step = "forget"
  <2> DEFINE r == [slot[op.s] EXCEPT !.group = 0]
  <2>1. slot' = [slot EXCEPT ![op.s] = r] /\ op' = [op EXCEPT !.step = "reset"]
    BY <1>1, <1>3 DEF Reset
  <2>2. r \in SlotRec /\ r.used /\ r.group = 0 /\ r.hosts = slot[op.s].hosts
    BY <1>1 DEF SlotRec
  <2> HIDE DEF r
  <2> QED BY <1>0, <1>1, <1>3, <2>1, <2>2, WriteStep
<1> QED BY <1>0, <1>2, <1>3

(* The end of Reset, then avail_group_cnt. *)
LEMMA ReleaseLastStep ==
  ASSUME Inv, ReleaseLast PROVE Inv' /\ HostsOnce
<1>1. CASE op.step = "reset"
  <2>1. /\ slot' = [slot EXCEPT ![op.s] = Idle]
        /\ op' = [op EXCEPT !.step = "count"]
        /\ UNCHANGED <<avail, next, alive, has, groups, copies, torn, robbed>>
    BY <1>1 DEF ReleaseLast, hist
  <2>2. 0 \in 0..(2^16 - 1) /\ 0 \in 0..MaxGroups
    BY Width, Constants
  <2>3. Idle \in SlotRec /\ ~Idle.used /\ Idle.group = 0 /\ Idle.hosts = 0
    BY <2>2 DEF Idle, SlotRec
  <2> QED BY <1>1, <2>1, <2>3, WriteStep
<1>2. CASE op.step = "count"
  <2>1. /\ avail' = avail + 1 /\ op' = Free
        /\ UNCHANGED <<slot, next, alive, has, groups, copies, torn, robbed>>
    BY <1>2 DEF ReleaseLast, hist
  <2>2. CountType' /\ HasType' /\ CopyInv'
    BY <2>1, SameCopies
  <2>3. op'.step = "free" /\ OpType'
    <3>1. Boss \in Procs /\ 0 \in 0..MaxGroups /\ 0 \in 0..Slots
      BY Constants DEF Procs
    <3> QED BY <2>1, <3>1 DEF Free, OpType, Steps, Creating, Searching
  <2>4. IdleSlots' = IdleSlots
    BY <2>1 DEF IdleSlots
  <2>5. avail <= Cardinality(IdleSlots) - 1
    BY <1>2 DEF Inv, IdleFound, IdleSlots
  <2>6. PoolType'
    BY <2>1, <2>5, IdleFinite, Constants DEF Inv, PoolType
  <2>7. IdleFound'
    <3>1. avail' <= Cardinality(IdleSlots) - 0
      BY <2>1, <2>5, IdleFinite DEF Inv, PoolType
    <3> QED BY <1>2, <2>1, <2>3, <2>4, <3>1 DEF Inv, IdleFound, IdleSlots
  <2>8. SlotType' /\ SlotInv'
    BY <2>1, <2>3, <2>4 DEF Inv, SlotType, SlotInv
  <2>9. KeptInv'
    BY <2>1, <2>3, StillKept
  <2> QED BY <2>1, <2>2, <2>3, <2>6, <2>7, <2>8, <2>9 DEF Inv, HostsOnce
<1> QED BY <1>1, <1>2 DEF ReleaseLast

(* A live process gets the first copy of a new group. *)
LEMMA NewCopy ==
  ASSUME Inv, NEW p \in alive, NEW g, g = groups + 1, g <= MaxGroups,
         NEW s \in 0..Slots, NEW a \in New(p), UNCHANGED <<alive, robbed>>,
         has' = [has EXCEPT ![p] = @ \cup {[g |-> g, s |-> s, a |-> a]}],
         groups' = g, copies' = [copies EXCEPT ![g] = 1]
  PROVE  /\ g \in Groups /\ g \notin Made /\ a \in Addrs
         /\ CountType' /\ HasType' /\ CopyInv' /\ Made' = Made \cup {g}
         /\ \A h \in Groups \ {g} : Released(h)' = Released(h) /\ Spent(h)' = Spent(h)
         /\ Released(g)' = 0
         /\ (robbed # {} => \E h \in Made : Released(h) > Refs)'
<1> DEFINE c == [g |-> g, s |-> s, a |-> a]
<1>1. g \in Groups /\ g \notin Made /\ a \in Addrs
  BY DEF Inv, CountType, Made, Groups, New
<1>2. c.g = g /\ c.s = s /\ c.a = a /\ c \in CopyRec
  BY <1>1 DEF CopyRec
<1>3. p \in Procs /\ has \in [Procs -> SUBSET CopyRec] /\ alive \subseteq Procs
  BY DEF Inv, HasType
<1>4. copies \in [Groups -> 0..MaxCopies] /\ 1 \in 0..MaxCopies
  BY Constants DEF Inv, CountType
<1>5. CountType'
  BY <1>1, <1>4 DEF CountType, Groups
<1>6. /\ has'[p] = has[p] \cup {c}
      /\ \A q \in Procs \ {p} : has'[q] = has[q]
  BY <1>3
<1> HIDE DEF c
<1>7. HasType'
  <2>1. has[p] \cup {c} \in SUBSET CopyRec
    BY <1>2, <1>3
  <2> QED BY <1>3, <2>1 DEF HasType, c
<1>8. Made' = Made \cup {g}
  BY DEF Inv, CountType, Made
<1>9. \A q \in Procs : \A d \in has[q] : d.g \in Made
  BY DEF Inv, CopyInv
<1>10. \A h \in Groups \ {g} : Released(h)' = Released(h)
  <2> TAKE h \in Groups \ {g}
  <2>1. Holders(h)' = Holders(h)
    BY <1>2, <1>3, <1>6 DEF Holders
  <2>2. copies'[h] = copies[h]
    BY <1>4
  <2> QED BY <2>1, <2>2 DEF Released
<1>11. Released(g)' = 0
  <2>1. Holders(g)' = {p}
    BY <1>1, <1>2, <1>3, <1>6, <1>9 DEF Holders
  <2>2. Cardinality(Holders(g)') = 1
    BY <2>1, FS_Singleton
  <2>3. copies'[g] = 1
    BY <1>1, <1>4
  <2> QED BY <2>2, <2>3 DEF Released
<1>12. CopyInv'
  <2>1. \A q \in Procs : \A d \in has'[q] :
          d = c \/ (d.g \in Made /\ d.g # g /\ \E r \in Procs : d \in has[r])
    BY <1>1, <1>3, <1>6, <1>9
  <2>2. \A q \in Procs : \A d \in has'[q] : d.g \in Made'
    BY <1>2, <1>8, <2>1
  <2>3. \A q, r \in Procs : \A d \in has'[q], e \in has'[r] : d.g = e.g => d = e
    BY <1>2, <2>1 DEF Inv, CopyInv
  <2>4. \A q \in Procs \ alive' : has'[q] = {}
    BY <1>6 DEF Inv, CopyInv
  <2>5. \A h \in Groups : Released(h)' >= 0
    BY <1>10, <1>11 DEF Inv, CopyInv
  <2> QED BY <2>2, <2>3, <2>4, <2>5 DEF CopyInv, Groups
<1>13. \A h \in Groups \ {g} : Spent(h)' = Spent(h)
  BY <1>10 DEF Spent, Refs, Groups
<1>14. (robbed # {} => \E h \in Made : Released(h) > Refs)'
  <2>1. Made \subseteq Groups \ {g}
    BY <1>1, ReleasedType DEF Inv
  <2> QED BY <1>8, <1>10, <2>1 DEF Inv, KeptInv, Refs
<1> QED BY <1>1, <1>5, <1>7, <1>8, <1>10, <1>11, <1>12, <1>13, <1>14

LEMMA CreateOwnStep ==
  ASSUME Inv, NEW p \in Procs, CreateOwn(p)
  PROVE  Inv' /\ HostsOnce
<1> DEFINE g == groups + 1
<1>1. /\ p \in alive /\ g <= MaxGroups /\ op.step = "free"
      /\ \E a \in New(p) : has' = [has EXCEPT ![p] = @ \cup {[g |-> g, s |-> 0, a |-> a]}]
      /\ groups' = g /\ copies' = [copies EXCEPT ![g] = 1]
      /\ UNCHANGED <<slot, avail, next, op, alive, torn, robbed>>
  BY DEF CreateOwn, provider
<1>2. PICK a \in New(p) : has' = [has EXCEPT ![p] = @ \cup {[g |-> g, s |-> 0, a |-> a]}]
  BY <1>1
<1> HIDE DEF g
<1>3. /\ g \in Groups /\ g \notin Made
      /\ CountType' /\ HasType' /\ CopyInv' /\ Made' = Made \cup {g}
      /\ \A h \in Groups \ {g} : Released(h)' = Released(h) /\ Spent(h)' = Spent(h)
      /\ (robbed # {} => \E h \in Made : Released(h) > Refs)'
  <2>1. 0 \in 0..Slots /\ g = groups + 1
    BY Constants DEF g
  <2> QED BY <1>1, <1>2, <2>1, NewCopy
<1>4. SlotType' /\ PoolType'
  BY <1>1 DEF Inv, SlotType, PoolType
<1>5. OpType'
  BY <1>1 DEF Inv, OpType, Creating, Searching
<1>6. IdleSlots' = IdleSlots
  BY <1>1 DEF IdleSlots
<1>7. SlotInv'
  BY <1>1, <1>6 DEF Inv, SlotInv, Refs
<1>8. IdleFound'
  BY <1>1 DEF Inv, IdleFound
<1>9. KeptInv'
  <2>1. ASSUME NEW q \in Procs, NEW c \in has'[q], c.s > 0, ~Spent(c.g)'
        PROVE  OwnSlot(c)'
    <3>1. c \in has[q] \/ c = [g |-> g, s |-> 0, a |-> a]
      BY <1>2, <2>1 DEF Inv, HasType
    <3>2. c # [g |-> g, s |-> 0, a |-> a]
      BY <2>1
    <3>3. c \in has[q]
      BY <3>1, <3>2
    <3>4. c.g \in Groups \ {g}
      BY <1>3, <3>3, CopyFields
    <3> QED BY <1>1, <1>3, <2>1, <3>3, <3>4 DEF Inv, KeptInv, OwnSlot, Refs
  <2>2. op'.step # "hosts"
    BY <1>1
  <2> QED BY <1>3, <2>1, <2>2 DEF KeptInv
<1> QED BY <1>1, <1>3, <1>4, <1>5, <1>7, <1>8, <1>9 DEF Inv, HostsOnce

LEMMA CreateGroupStep ==
  ASSUME Inv, CreateGroup
  PROVE  Inv' /\ HostsOnce
<1>1. /\ op.step = "group" /\ op.p \in alive /\ op.s \in 1..Slots
      /\ op.g \in Groups /\ op.g = groups + 1
      /\ op.s \notin IdleSlots /\ slot[op.s].group = 0 /\ slot[op.s].ref = Refs
  BY DEF CreateGroup, Inv, OpType, SlotInv, Creating
<1>2. PICK a \in New(op.p) :
        /\ slot' = [slot EXCEPT ![op.s] = AddServers([@ EXCEPT !.group = a], op.g)]
        /\ has' = [has EXCEPT ![op.p] = @ \cup {[g |-> op.g, s |-> op.s, a |-> a]}]
  BY DEF CreateGroup
<1>3. /\ groups' = op.g /\ copies' = [copies EXCEPT ![op.g] = 1] /\ op' = Free
      /\ UNCHANGED <<avail, next, alive, torn, robbed>>
  BY DEF CreateGroup
<1>4. PICK g \in Groups, s \in 1..Slots : g = op.g /\ s = op.s
  BY <1>1
<1>5. /\ g \notin Made /\ a \in Addrs
      /\ CountType' /\ HasType' /\ CopyInv' /\ Made' = Made \cup {g}
      /\ \A h \in Groups \ {g} : Released(h)' = Released(h) /\ Spent(h)' = Spent(h)
      /\ Released(g)' = 0
      /\ (robbed # {} => \E h \in Made : Released(h) > Refs)'
  <2>1. /\ op.p \in alive /\ g = groups + 1 /\ g <= MaxGroups /\ s \in 0..Slots
    BY <1>1, <1>4, Constants DEF Groups
  <2> QED BY <1>2, <1>3, <1>4, <2>1, NewCopy
<1>6. /\ slot'[s].used /\ slot'[s].ref = Refs /\ slot'[s].group = a
      /\ slot'[s].hosts = g
      /\ \A t \in 1..Slots \ {s} : slot'[t] = slot[t]
  <2>1. slot[s].used /\ slot[s].ref = Refs /\ slot[s] \in SlotRec
    BY <1>1, <1>4 DEF Inv, SlotType, IdleSlots
  <2>2. slot'[s] = AddServers([slot[s] EXCEPT !.group = a], g)
    BY <1>2, <1>4 DEF Inv, SlotType
  <2>3. \A t \in 1..Slots \ {s} : slot'[t] = slot[t]
    BY <1>2, <1>4 DEF Inv, SlotType
  <2> QED BY <2>1, <2>2, <2>3 DEF AddServers, SlotRec
<1>7. SlotType'
  <2>1. g \in 0..MaxGroups
    BY DEF Groups
  <2>2. slot[s] \in SlotRec
    BY DEF Inv, SlotType
  <2>3. AddServers([slot[s] EXCEPT !.group = a], g) \in SlotRec
    BY <1>5, <2>1, <2>2 DEF SlotRec, AddServers
  <2> QED BY <1>2, <1>4, <2>3 DEF Inv, SlotType
<1>8. op'.step = "free" /\ OpType'
  <2>1. Boss \in Procs /\ 0 \in 0..MaxGroups /\ 0 \in 0..Slots
    BY Constants DEF Procs
  <2> QED BY <1>3, <2>1 DEF Free, OpType, Steps, Creating, Searching
<1>9. IdleSlots' = IdleSlots
  BY <1>1, <1>4, <1>6 DEF IdleSlots
<1>10. SlotInv'
  BY <1>1, <1>4, <1>6, <1>8, <1>9 DEF Inv, SlotInv, IdleSlots
<1>11. IdleFound'
  BY <1>1, <1>3, <1>8, <1>9 DEF Inv, IdleFound, IdleSlots
<1>12. KeptInv'
  <2>1. ASSUME NEW q \in Procs, NEW c \in has'[q], c.s > 0, ~Spent(c.g)'
        PROVE  OwnSlot(c)'
    <3>1. CASE c \in has[q]
      <4>1. c.g \in Groups \ {g} /\ c.s \in 1..Slots /\ c.a # 0
        BY <1>5, <2>1, <3>1, CopyFields
      <4>2. OwnSlot(c) /\ Released(c.g)' = Released(c.g)
        BY <1>5, <2>1, <3>1, <4>1 DEF Inv, KeptInv
      <4>3. c.s # s
        BY <1>1, <1>4, <4>1, <4>2 DEF OwnSlot
      <4> QED BY <1>6, <4>1, <4>2, <4>3 DEF OwnSlot, Refs
    <3>2. CASE c \notin has[q]
      <4>1. c = [g |-> g, s |-> s, a |-> a]
        BY <1>2, <1>4, <2>1, <3>2 DEF Inv, HasType
      <4>2. c.g = g /\ c.s = s /\ c.a = a
        BY <4>1
      <4> QED BY <1>5, <1>6, <4>2, RefsType DEF OwnSlot, Refs
    <3> QED BY <3>1, <3>2
  <2> QED BY <1>5, <1>8, <2>1 DEF KeptInv
<1>13. PoolType'
  BY <1>3 DEF Inv, PoolType
<1>14. HostsOnce
  BY <1>5, <1>6 DEF HostsOnce
<1> QED BY <1>5, <1>7, <1>8, <1>10, <1>11, <1>12, <1>13, <1>14 DEF Inv

(* ~Server: a copy goes, and its group has been released once more. *)
LEMMA ReleaseStep ==
  ASSUME Inv, NEW p \in Procs, NEW c \in has[p], Release(p, c)
  PROVE  Inv' /\ HostsOnce
<1>1. /\ op.step = "free" /\ p \in alive
      /\ has' = [has EXCEPT ![p] = @ \ {c}]
      /\ robbed' = robbed \cup Taken(c)
      /\ UNCHANGED <<avail, next, alive, groups, copies, torn>>
      /\ slot' = IF Shared(c) THEN [slot EXCEPT ![c.s].ref = (@ - 1) % 2^16]
                 ELSE slot
      /\ \/ op' = op /\ ~(Shared(c) /\ slot[c.s].ref = 1)
         \/ /\ op' = [step |-> "hosts", p |-> p, g |-> c.g, s |-> c.s]
            /\ Shared(c) /\ slot[c.s].ref = 1
  BY DEF Release, Locked
<1>2. /\ c.g \in Groups /\ c.s \in 0..Slots /\ c.g \in Made /\ c.g # 0 /\ c.a # 0
      /\ Shared(c) => c.s \in 1..Slots /\ slot[c.s].group = c.a
      /\ Released(c.g) \in Int /\ Released(c.g) >= 0
  BY CopyFields DEF Shared
<1>3. /\ has'[p] = has[p] \ {c}
      /\ \A q \in Procs \ {p} : has'[q] = has[q]
      /\ \A q \in Procs : has'[q] \subseteq has[q]
  BY <1>1 DEF Inv, HasType
<1>4. /\ \A t \in 1..Slots : /\ slot'[t].used = slot[t].used
                             /\ slot'[t].group = slot[t].group
                             /\ slot'[t].hosts = slot[t].hosts
                             /\ ~(t = c.s /\ Shared(c)) => slot'[t] = slot[t]
      /\ Shared(c) => slot'[c.s].ref = (slot[c.s].ref - 1) % 2^16
  BY <1>1, <1>2 DEF Inv, SlotType, SlotRec
<1>5. SlotType'
  <2>1. CASE Shared(c)
    <3>1. slot[c.s].ref \in 0..(2^16 - 1)
      BY <1>2, <2>1 DEF Inv, SlotType, SlotRec
    <3>2. (slot[c.s].ref - 1) % 2^16 \in 0..(2^16 - 1)
      BY <3>1, Decrement
    <3> DEFINE n == (slot[c.s].ref - 1) % 2^16
    <3>3. slot' = [slot EXCEPT ![c.s].ref = n]
      BY <1>1, <2>1
    <3> HIDE DEF n
    <3> QED BY <1>2, <2>1, <3>2, <3>3 DEF Inv, SlotType, SlotRec, n
  <2>2. CASE ~Shared(c)
    BY <1>1, <2>2 DEF Inv, SlotType
  <2> QED BY <2>1, <2>2
<1>6. PoolType' /\ CountType' /\ Made' = Made
  BY <1>1 DEF Inv, PoolType, CountType, Made, Groups
<1>7. HasType'
  BY <1>1, <1>3 DEF Inv, HasType
<1>8. OpType'
  <2>1. CASE op' = op
    BY <1>1, <2>1 DEF Inv, OpType
  <2>2. CASE op' = [step |-> "hosts", p |-> p, g |-> c.g, s |-> c.s] /\ Shared(c)
    <3>1. c.g \in 0..MaxGroups /\ "hosts" \in Steps
          /\ "hosts" \notin Creating /\ "hosts" \notin Searching
      BY <1>2 DEF Groups, Steps, Resetting, Creating, Searching
    <3> QED BY <1>1, <1>2, <2>2, <3>1 DEF OpType
  <2> QED BY <1>1, <2>1, <2>2
<1>9. IdleSlots' = IdleSlots
  BY <1>4 DEF IdleSlots
<1>10. SlotInv'
  <2>1. \A s \in IdleSlots' : slot'[s].group = 0
    BY <1>4, <1>9 DEF Inv, SlotInv, IdleSlots
  <2>2. CASE op' = op
    BY <1>1, <2>1, <2>2 DEF SlotInv
  <2>3. CASE op' = [step |-> "hosts", p |-> p, g |-> c.g, s |-> c.s] /\ Shared(c)
    <3>1. c.s \notin IdleSlots
      BY <1>2, <2>3 DEF Inv, SlotInv
    <3> QED BY <1>9, <2>1, <2>3, <3>1 DEF SlotInv
  <2> QED BY <1>1, <2>2, <2>3
<1>11. IdleFound'
  <2>1. op'.step \notin {"index", "count", "wrap", "beyond"}
    BY <1>1
  <2> QED BY <1>1, <1>9, <2>1 DEF Inv, IdleFound, IdleSlots
<1>12. /\ Released(c.g)' = Released(c.g) + 1
       /\ \A h \in Groups \ {c.g} : Released(h)' = Released(h)
  <2>1. \A d \in has[p] : d.g = c.g => d = c
    BY DEF Inv, CopyInv
  <2>2. p \in Holders(c.g)
    BY DEF Holders
  <2>3. Holders(c.g)' = Holders(c.g) \ {p}
    BY <1>3, <2>1 DEF Holders
  <2>4. \A h \in Groups \ {c.g} : Holders(h)' = Holders(h)
    BY <1>3 DEF Holders
  <2>5. Cardinality(Holders(c.g)') = Cardinality(Holders(c.g)) - 1
    BY <2>2, <2>3, HoldersFinite, FS_RemoveElement
  <2>6. copies[c.g] \in Int /\ Cardinality(Holders(c.g)) \in Int
    BY <1>2, Constants, HoldersFinite DEF Inv, CountType
  <2>7. Released(c.g)' = Released(c.g) + 1
    BY <1>1, <2>5, <2>6 DEF Released
  <2> QED BY <1>1, <2>4, <2>7 DEF Released
<1>13. CopyInv'
  <2>1. \A g \in Groups : Released(g)' >= 0
    BY <1>2, <1>12 DEF Inv, CopyInv
  <2> QED BY <1>1, <1>3, <1>6, <2>1 DEF Inv, CopyInv, Groups
<1>14. /\ ~Spent(c.g) /\ c.s > 0 => OwnSlot(c)
       /\ Released(c.g)' \in Int /\ Refs \in 2..1026
       /\ \A h : Spent(h) => Spent(h)'
  <2>1. ~Spent(c.g) /\ c.s > 0 => OwnSlot(c)
    BY DEF Inv, KeptInv
  <2>2. Released(c.g)' \in Int /\ Refs \in 2..1026
    BY <1>2, <1>12, RefsType
  <2>3. ASSUME NEW h \in Groups, Spent(h) PROVE Spent(h)'
    <3>1. CASE h \in robbed
      BY <1>1, <3>1 DEF Spent
    <3>2. CASE Released(h) >= Refs
      <4>1. Released(h)' >= Refs
        BY <1>2, <1>12, <2>2, <3>2
      <4> QED BY <4>1 DEF Spent, Refs
    <3> QED BY <2>3, <3>1, <3>2 DEF Spent
  <2> QED BY <2>1, <2>2, <2>3 DEF Spent, Groups
(* Whoever else the slot belongs to has been robbed. *)
<1>15. Shared(c) => Taken(c) = {slot[c.s].hosts} \ {c.g}
  BY <1>2 DEF Taken, Shared
<1>16. Taken(c) # {} => Shared(c)
  BY DEF Taken, Shared
<1>17. KeptInv'
  <2>1. ASSUME NEW q \in Procs, NEW d \in has'[q], d.s > 0, ~Spent(d.g)'
        PROVE  OwnSlot(d)'
    <3>1. d \in has[q] /\ ~Spent(d.g)
      BY <1>3, <1>14, <2>1
    <3>2. d.g \in Groups /\ d.s \in 1..Slots /\ OwnSlot(d)
      BY <2>1, <3>1, CopyFields DEF Inv, KeptInv
    <3>3. CASE d.g = c.g
      <4>1. d = c /\ Shared(c)
        <5>1. d = c
          BY <3>1, <3>3 DEF Inv, CopyInv
        <5> QED BY <2>1, <3>2, <5>1 DEF OwnSlot, Shared
      <4>2. Released(c.g) < Refs /\ Released(c.g) + 1 < Refs
        BY <1>2, <1>12, <1>14, <2>1, <3>2, <3>3 DEF Spent, Refs
      <4>3. slot[c.s].ref \in 0..(2^16 - 1) /\ slot[c.s].ref > 0
        <5>1. slot[c.s].ref \in 0..(2^16 - 1)
          BY <3>2, <4>1 DEF Inv, SlotType, SlotRec
        <5>2. slot[c.s].ref > 0
          BY <1>2, <1>14, <3>2, <4>1, <4>2 DEF OwnSlot
        <5> QED BY <5>1, <5>2
      <4>4. slot'[c.s].ref = slot[c.s].ref - 1
        BY <1>4, <4>1, <4>3, Decrement
      <4>5. slot'[c.s].ref = Refs - Released(c.g)'
        BY <1>2, <1>12, <1>14, <3>2, <4>1, <4>4 DEF OwnSlot
      <4> QED BY <1>4, <3>2, <4>1, <4>5 DEF OwnSlot, Refs
    <3>4. CASE d.g # c.g
      <4>1. Released(d.g)' = Released(d.g)
        BY <1>12, <3>2, <3>4
      <4>2. ~(d.s = c.s /\ Shared(c))
        <5> SUFFICES ASSUME d.s = c.s, Shared(c) PROVE FALSE
          OBVIOUS
        <5>1. d.g \in Taken(c)
          BY <1>15, <3>2, <3>4 DEF OwnSlot
        <5> QED BY <1>1, <2>1, <5>1 DEF Spent
      <4>3. slot'[d.s] = slot[d.s]
        BY <1>4, <3>2, <4>2
      <4> QED BY <3>2, <4>1, <4>3 DEF OwnSlot, Refs
    <3> QED BY <3>3, <3>4
  <2>2. (op.step = "hosts" => Spent(slot[op.s].hosts))'
    <3>1. CASE op' = op
      BY <1>1, <3>1
    <3>2. CASE /\ op' = [step |-> "hosts", p |-> p, g |-> c.g, s |-> c.s]
               /\ Shared(c) /\ slot[c.s].ref = 1
      <4>1. PICK h \in 0..MaxGroups : h = slot[c.s].hosts
        BY <1>2, <3>2 DEF Inv, SlotType, SlotRec
      <4>2. slot'[op'.s].hosts = h /\ c.s > 0
        BY <1>2, <1>4, <3>2, <4>1 DEF Shared
      <4>3. CASE h # c.g
        <5>1. h \in robbed'
          BY <1>1, <1>15, <3>2, <4>1, <4>3
        <5> QED BY <4>2, <5>1 DEF Spent
      <4>4. CASE h = c.g
        <5>1. Released(c.g)' >= Refs \/ c.g \in robbed
          BY <1>2, <1>12, <1>14, <3>2, <4>2 DEF OwnSlot, Spent
        <5>2. Spent(c.g)'
          BY <1>1, <5>1 DEF Spent, Refs
        <5>3. slot'[op'.s].hosts = c.g
          BY <4>2, <4>4
        <5> QED BY <5>2, <5>3 DEF Spent, Released, Holders
      <4> QED BY <4>3, <4>4
    <3> QED BY <1>1, <3>1, <3>2
  <2>3. (robbed # {} => \E g \in Made : Released(g) > Refs)'
    <3> SUFFICES ASSUME robbed' # {}
                 PROVE  \E g \in Made' : (Released(g) > Refs)'
      OBVIOUS
    <3>1. CASE robbed # {}
      <4>1. PICK g \in Made : Released(g) > Refs
        BY <3>1 DEF Inv, KeptInv
      <4>2. g \in Groups
        BY ReleasedType DEF Inv
      <4>3. Released(g)' > Refs
        BY <1>2, <1>12, <1>14, <4>1, <4>2
      <4> QED BY <1>6, <4>3 DEF Refs
    <3>2. CASE robbed = {}
      <4>1. Shared(c) /\ slot[c.s].hosts # c.g /\ c.s > 0
        BY <1>1, <1>15, <1>16, <3>2 DEF Shared
      <4>2. Released(c.g) >= Refs
        BY <1>2, <1>14, <3>2, <4>1 DEF OwnSlot, Spent
      <4>3. Released(c.g)' > Refs
        BY <1>2, <1>12, <1>14, <4>2
      <4> QED BY <1>2, <1>6, <4>3 DEF Refs
    <3> QED BY <3>1, <3>2
  <2> QED BY <2>1, <2>2, <2>3 DEF KeptInv
<1>18. HostsOnce
  BY <1>4 DEF HostsOnce
<1> QED BY <1>5, <1>6, <1>7, <1>8, <1>10, <1>11, <1>13, <1>17, <1>18 DEF Inv

(* The master forks: each of its groups has a copy more, and a holder.     *)
LEMMA ForkStep ==
  ASSUME Inv, NEW p \in Children, Fork(p)
  PROVE  Inv' /\ HostsOnce
<1>1. /\ p \in Procs /\ p \notin alive /\ Boss \in Procs /\ Boss \in alive
      /\ \A c \in has[Boss] : copies[c.g] < MaxCopies
      /\ alive' = alive \cup {p}
      /\ has' = [has EXCEPT ![p] = has[Boss]]
      /\ copies' = [g \in Groups |-> IF Has(Boss, g) THEN copies[g] + 1 ELSE copies[g]]
      /\ UNCHANGED <<slot, avail, next, op, groups, torn, robbed>>
  BY DEF Fork, Procs, provider
<1>2. /\ has[p] = {} /\ has'[p] = has[Boss]
      /\ \A q \in Procs \ {p} : has'[q] = has[q]
      /\ \A q \in Procs : \A c \in has'[q] : \E r \in Procs : c \in has[r]
  <2>1. has[p] = {}
    BY <1>1 DEF Inv, CopyInv
  <2>2. /\ has'[p] = has[Boss]
        /\ \A q \in Procs \ {p} : has'[q] = has[q]
    BY <1>1 DEF Inv, HasType
  <2> QED BY <1>1, <2>1, <2>2
<1>3. /\ \A g \in Groups : copies[g] \in 0..MaxCopies
      /\ \A g \in Groups : p \notin Holders(g)
  BY <1>2 DEF Inv, CountType, Holders
<1>4. CountType'
  <2>1. \A g \in Groups : copies'[g] \in 0..MaxCopies
    <3> TAKE g \in Groups
    <3>1. CASE Has(Boss, g)
      <4>1. copies[g] < MaxCopies /\ copies'[g] = copies[g] + 1
        BY <1>1, <3>1 DEF Has
      <4> QED BY <1>3, <4>1, Constants
    <3>2. CASE ~Has(Boss, g)
      BY <1>1, <1>3, <3>2
    <3> QED BY <3>1, <3>2
  <2>2. copies' = [g \in Groups |-> copies'[g]]
    BY <1>1
  <2> QED BY <1>1, <2>1, <2>2 DEF Inv, CountType, Groups
<1>5. HasType'
  <2>1. has[Boss] \in SUBSET CopyRec
    BY <1>1 DEF Inv, HasType
  <2> QED BY <1>1, <2>1 DEF Inv, HasType
<1>6. Made' = Made
  BY <1>1 DEF Made
<1>7. SlotType' /\ PoolType'
  BY <1>1 DEF Inv, SlotType, PoolType
<1>8. OpType'
  BY <1>1 DEF Inv, OpType
<1>9. IdleSlots' = IdleSlots
  BY <1>1 DEF IdleSlots
<1>10. SlotInv' /\ IdleFound'
  BY <1>1, <1>9 DEF Inv, SlotInv, IdleFound, Refs
<1>11. \A g \in Groups : Released(g)' = Released(g) /\ Spent(g)' = Spent(g)
  <2> TAKE g \in Groups
  <2>1. Released(g)' = Released(g)
    <3>1. CASE Has(Boss, g)
      <4>1. Holders(g)' = Holders(g) \cup {p}
        BY <1>1, <1>2, <3>1 DEF Holders, Has
      <4>2. Cardinality(Holders(g)') = Cardinality(Holders(g)) + 1
        BY <1>3, <4>1, HoldersFinite, FS_AddElement
      <4>3. copies'[g] = copies[g] + 1
        BY <1>1, <3>1
      <4>4. copies[g] \in Int /\ Cardinality(Holders(g)) \in Int
        BY <1>3, HoldersFinite, Constants
      <4> QED BY <4>2, <4>3, <4>4 DEF Released
    <3>2. CASE ~Has(Boss, g)
      <4>1. Holders(g)' = Holders(g)
        BY <1>1, <1>2, <3>2 DEF Holders, Has
      <4>2. copies'[g] = copies[g]
        BY <1>1, <3>2
      <4> QED BY <4>1, <4>2 DEF Released
    <3> QED BY <3>1, <3>2
  <2> QED BY <1>1, <2>1 DEF Spent, Refs
<1>12. CopyInv'
  <2>1. \A q \in Procs : \A c \in has'[q] : c.g \in Made'
    BY <1>2, <1>6 DEF Inv, CopyInv
  <2>2. \A q, r \in Procs : \A c \in has'[q], d \in has'[r] : c.g = d.g => c = d
    BY <1>2 DEF Inv, CopyInv
  <2>3. \A q \in Procs \ alive' : has'[q] = {}
    BY <1>1, <1>2 DEF Inv, CopyInv
  <2> QED BY <1>11, <2>1, <2>2, <2>3 DEF Inv, CopyInv, Groups
<1>13. \A q \in Procs : \A c \in has'[q] : \E r \in Procs : c \in has[r]
  BY <1>2
<1>14. KeptInv'
  BY <1>1, <1>6, <1>11, <1>13, SameReleased
<1> QED BY <1>1, <1>4, <1>5, <1>7, <1>8, <1>10, <1>12, <1>14 DEF Inv, HostsOnce

(* A process dies: each of its groups has lost a copy, and a holder. *)
LEMMA DieStep ==
  ASSUME Inv, NEW p \in Procs, Die(p)
  PROVE  Inv' /\ HostsOnce
<1>1. /\ p \in alive /\ alive' = alive \ {p}
      /\ has' = [has EXCEPT ![p] = {}]
      /\ copies' = [g \in Groups |-> IF Has(p, g) THEN copies[g] - 1 ELSE copies[g]]
      /\ op' = IF op.p = p THEN Free ELSE op
      /\ torn' = (torn \/ (op.p = p /\ op.step = "wrap"))
      /\ UNCHANGED <<slot, avail, next, groups, robbed>>
  BY DEF Die
<1>2. /\ has'[p] = {}
      /\ \A q \in Procs \ {p} : has'[q] = has[q]
      /\ \A q \in Procs : has'[q] \subseteq has[q]
  BY <1>1 DEF Inv, HasType
<1>3. /\ \A g \in Groups : copies[g] \in 0..MaxCopies
      /\ \A g \in Groups : p \in Holders(g) <=> Has(p, g)
  BY DEF Inv, CountType, Holders, Has
<1>4. \A g \in Groups : Has(p, g) => copies[g] > 0
  <2> SUFFICES ASSUME NEW g \in Groups, Has(p, g) PROVE copies[g] > 0
    OBVIOUS
  <2>1. p \in Holders(g)
    BY <1>3
  <2>2. Cardinality(Holders(g)) # 0
    BY <2>1, HoldersFinite, FS_EmptySet
  <2>3. Released(g) >= 0
    BY DEF Inv, CopyInv
  <2> QED BY <1>3, <2>2, <2>3, HoldersFinite, Constants DEF Released
<1>5. CountType'
  <2>1. \A g \in Groups : copies'[g] \in 0..MaxCopies
    BY <1>1, <1>3, <1>4, Constants
  <2>2. copies' = [g \in Groups |-> copies'[g]]
    BY <1>1
  <2> QED BY <1>1, <2>1, <2>2 DEF Inv, CountType, Groups
<1>6. HasType'
  BY <1>1 DEF Inv, HasType
<1>7. Made' = Made
  BY <1>1 DEF Made
<1>8. SlotType' /\ PoolType'
  BY <1>1 DEF Inv, SlotType, PoolType
<1>9. IdleSlots' = IdleSlots
  BY <1>1 DEF IdleSlots
<1>10. OpType' /\ SlotInv' /\ IdleFound' /\ (op'.step = "free" \/ op' = op)
  <2>1. CASE op.p = p
    <3>1. op'.step = "free" /\ OpType'
      <4>1. Boss \in Procs /\ 0 \in 0..MaxGroups /\ 0 \in 0..Slots
        BY Constants DEF Procs
      <4> QED BY <1>1, <2>1, <4>1 DEF Free, OpType, Steps, Creating, Searching
    <3>2. SlotInv'
      BY <1>1, <1>9, <3>1 DEF Inv, SlotInv
    <3>3. IdleFound'
      <4>1. avail <= Cardinality(IdleSlots) - 0
        BY IdleFinite DEF Inv, IdleFound, IdleSlots, PoolType
      <4>2. ~torn' => next # Slots + 1
        BY <1>1, <2>1 DEF Inv, IdleFound
      <4> QED BY <1>1, <1>9, <3>1, <4>1, <4>2 DEF IdleFound, IdleSlots
    <3> QED BY <3>1, <3>2, <3>3
  <2>2. CASE op.p # p
    <3>1. op' = op /\ (torn' <=> torn)
      BY <1>1, <2>2
    <3>2. OpType'
      BY <1>1, <2>2, <3>1 DEF Inv, OpType
    <3>3. SlotInv' /\ IdleFound'
      BY <1>1, <1>9, <3>1 DEF Inv, SlotInv, IdleFound, Refs
    <3> QED BY <3>1, <3>2, <3>3
  <2> QED BY <2>1, <2>2
<1>11. \A g \in Groups : Released(g)' = Released(g) /\ Spent(g)' = Spent(g)
  <2> TAKE g \in Groups
  <2>1. Holders(g)' = Holders(g) \ {p}
    BY <1>2 DEF Holders
  <2>2. copies[g] \in Int /\ Cardinality(Holders(g)) \in Int
    BY <1>3, HoldersFinite, Constants
  <2>3. CASE Has(p, g)
    <3>1. Cardinality(Holders(g)') = Cardinality(Holders(g)) - 1
      BY <1>3, <2>1, <2>3, HoldersFinite, FS_RemoveElement
    <3>2. copies'[g] = copies[g] - 1
      BY <1>1, <2>3
    <3>3. Released(g)' = Released(g)
      BY <2>2, <3>1, <3>2 DEF Released
    <3> QED BY <1>1, <3>3 DEF Spent, Refs
  <2>4. CASE ~Has(p, g)
    <3>1. Holders(g)' = Holders(g)
      BY <1>3, <2>1, <2>4
    <3>2. copies'[g] = copies[g]
      BY <1>1, <2>4
    <3>3. Released(g)' = Released(g)
      BY <3>1, <3>2 DEF Released
    <3> QED BY <1>1, <3>3 DEF Spent, Refs
  <2> QED BY <2>3, <2>4
<1>12. CopyInv'
  BY <1>1, <1>2, <1>7, <1>11 DEF Inv, CopyInv, Groups
<1>13. \A q \in Procs : \A c \in has'[q] : \E r \in Procs : c \in has[r]
  BY <1>2
<1>14. KeptInv'
  BY <1>1, <1>7, <1>10, <1>11, <1>13, SameReleased
<1> QED BY <1>1, <1>5, <1>6, <1>8, <1>10, <1>12, <1>14 DEF Inv, HostsOnce

-----------------------------------------------------------------------------
(* The theorems. *)

LEMMA InvInit == Init => Inv
<1> SUFFICES ASSUME Init PROVE Inv
  OBVIOUS
<1>1. 0 \in 0..(2^16 - 1) /\ 0 \in 0..MaxGroups /\ 0 \in 0..Slots
      /\ 0 \in 0..MaxCopies /\ 1 \in 1..(Slots + 1) /\ Slots \in 0..Slots
      /\ 1 # Slots + 1
  BY Width, Constants
<1>2. SlotType
  BY <1>1 DEF Init, SlotType, SlotRec, Idle
<1>3. PoolType /\ CountType /\ HasType
  BY <1>1 DEF Init, PoolType, CountType, HasType, Procs
<1>4. op.step = "free" /\ OpType
  <2>1. Boss \in Procs
    BY DEF Procs
  <2> QED BY <1>1, <2>1 DEF Init, Free, OpType, Steps, Creating, Searching
<1>5. \A s \in 1..Slots : ~slot[s].used /\ slot[s].group = 0
  BY DEF Init, Idle
<1>6. IdleSlots = 1..Slots
  BY <1>5 DEF IdleSlots
<1>7. SlotInv
  BY <1>4, <1>5, <1>6 DEF SlotInv
<1>8. CopyInv
  <2>1. \A g \in Groups : Released(g) = 0
    <3> TAKE g \in Groups
    <3>1. Holders(g) = {}
      BY DEF Init, Holders
    <3> QED BY <3>1, FS_EmptySet DEF Init, Released
  <2> QED BY <2>1 DEF Init, CopyInv
<1>9. KeptInv
  BY <1>4 DEF Init, KeptInv
<1>10. IdleFound
  <2>1. Cardinality(1..Slots) = Slots
    <3>1. 1 \in Int /\ Slots \in Int /\ ~(1 > Slots) /\ Slots - 1 + 1 = Slots
      BY Constants
    <3> QED BY <3>1, FS_Interval
  <2>2. Cardinality(1..Slots) - 0 = Slots /\ Slots <= Slots
    BY <2>1, Constants
  <2>3. IdleSlots = {s \in 1..Slots : ~slot[s].used}
    BY DEF IdleSlots
  <2> QED BY <1>1, <1>4, <1>6, <2>2, <2>3 DEF Init, IdleFound
<1> QED BY <1>2, <1>3, <1>4, <1>7, <1>8, <1>9, <1>10 DEF Inv

LEMMA InvStep == Inv /\ [Next]_vars => Inv' /\ HostsOnce
<1> SUFFICES ASSUME Inv, [Next]_vars PROVE Inv' /\ HostsOnce
  OBVIOUS
<1>1. ASSUME NEW p \in Procs, CreateOwn(p) PROVE Inv' /\ HostsOnce
  BY <1>1, CreateOwnStep
<1>2. ASSUME NEW p \in {Boss, Monitor}, Create(p) PROVE Inv' /\ HostsOnce
  <2>1. p \in Procs
    BY DEF Procs, Children
  <2> QED BY <1>2, <2>1, CreateStep
<1>3. CASE NextIndex
  BY <1>3, NextIndexStep
<1>4. CASE WrapIndex
  BY <1>4, WrapIndexStep
<1>5. CASE TestIndex
  BY <1>5, TestIndexStep
<1>6. CASE CreateIndex
  BY <1>6, CreateIndexStep
<1>7. CASE CreateGroup
  BY <1>7, CreateGroupStep
<1>8. ASSUME NEW p \in Procs, NEW c \in has[p], Release(p, c) PROVE Inv' /\ HostsOnce
  BY <1>8, ReleaseStep
<1>9. CASE Reset
  BY <1>9, ResetStep
<1>10. CASE ReleaseLast
  BY <1>10, ReleaseLastStep
<1>11. ASSUME NEW p \in Children, Fork(p) PROVE Inv' /\ HostsOnce
  BY <1>11, ForkStep
<1>12. ASSUME NEW p \in Procs, Die(p) PROVE Inv' /\ HostsOnce
  BY <1>12, DieStep
<1>13. CASE \/ \E p \in Workers : \E c \in has[p], h \in Hashes : Execute(p, c, h)
            \/ \E junk \in Junk : SelectMaster(junk)
            \/ \E fresh, alv \in SUBSET (0..(Slaves - 1)) : SelectSlave(fresh, alv)
            \/ Retry \/ Finish \/ UNCHANGED vars
  <2>1. UNCHANGED <<slot, avail, next, op, alive, has, groups, copies, torn, robbed>>
    BY <1>13 DEF Execute, SelectMaster, SelectSlave, Retry, Finish, provider, hist, vars
  <2> QED BY <2>1, QuietStep
<1> QED
  BY <1>1, <1>2, <1>3, <1>4, <1>5, <1>6, <1>7, <1>8, <1>9, <1>10, <1>11, <1>12, <1>13
     DEF Next

(* A group that was released more than Refs times is not balanced, and a   *)
(* process whose copies are balanced is one of the holders that fewer than *)
(* Refs releases leave.                                                    *)
LEMMA BalancedReleased ==
  ASSUME Inv, NEW g \in Groups, Balanced(g)
  PROVE  /\ ~(Released(g) > Refs)
         /\ Holders(g) # {} => Released(g) < Refs
<1>1. copies[g] \in Int
  BY Constants DEF Inv, CountType
<1>2. Cardinality(Holders(g)) \in Nat /\ (Holders(g) # {} => Cardinality(Holders(g)) # 0)
  BY HoldersFinite, FS_EmptySet
<1> QED BY <1>1, <1>2, RefsType DEF Balanced, Released

(* The inductive invariant gives what a process finds in its slot. *)
LEMMA InvKept == Inv => SlotKept
<1> SUFFICES ASSUME Inv PROVE SlotKept
  OBVIOUS
<1>1. TypeOK
  BY DEF Inv, TypeOK, SlotType, SlotRec, PoolType, HasType, CopyRec, CountType
<1>2. ASSUME NEW p \in alive, NEW c \in has[p], c.s > 0, Balanced(c.g), c.g \notin robbed
      PROVE  slot[c.s].group = c.a /\ slot[c.s].hosts = c.g
  <2>1. p \in Procs
    BY DEF Inv, HasType
  <2>2. c.g \in Groups /\ p \in Holders(c.g) /\ Released(c.g) \in Int
    BY <2>1, CopyFields DEF Holders
  <2>3. Released(c.g) < Refs
    BY <1>2, <2>2, BalancedReleased
  <2>4. ~Spent(c.g)
    BY <1>2, <2>2, <2>3, RefsType DEF Spent
  <2> QED BY <1>2, <2>1, <2>4 DEF Inv, KeptInv, OwnSlot
<1>3. robbed # {} => \E g \in Groups : ~Balanced(g)
  <2>1. robbed # {} => \E g \in Groups : Released(g) > Refs
    BY ReleasedType DEF Inv, KeptInv
  <2> QED BY <2>1, BalancedReleased
<1> QED BY <1>1, <1>2, <1>3 DEF SlotKept

(* HostGroupProvider::Create always finds the slot that avail_group_cnt    *)
(* promises, for every number of slots and processes and wherever a        *)
(* process dies with the mutex: GetIdleIndex does not go round for ever,   *)
(* and does not leave the array unless a process died between the two      *)
(* writes of next_group_index.                                             *)
THEOREM IdleFoundAlways == Spec => []IdleFound
<1>1. Spec => []Inv
  BY InvInit, InvStep, PTL DEF Spec
<1>2. Inv => IdleFound
  BY DEF Inv
<1> QED BY <1>1, <1>2, PTL

(* No process that has a copy of a group loses its group data, for any     *)
(* number of processes that are forked, die and release and any addresses  *)
(* their objects get, as long as a group is not copied more often than     *)
(* ref_cnt allows for and no other group has been.                         *)
THEOREM SlotKeptAlways == Spec => []SlotKept
<1>1. Spec => []Inv
  BY InvInit, InvStep, PTL DEF Spec
<1> QED BY <1>1, InvKept, PTL

-----------------------------------------------------------------------------
(* The search of GetHashIdx. *)

Off(r, i, junk) == IF i < Size(r) THEN Node(r, i).off ELSE junk

(* What one call returns, f being what further calls return. *)
SearchStep(f, r, hash, junk, c) ==
  LET middle == (c[1] + c[2]) \div 2
  IN IF hash = Off(r, middle, junk) THEN middle
     ELSE IF hash < Off(r, middle, junk)
     THEN IF middle = c[1] \/ hash > Off(r, middle - 1, junk) THEN middle
          ELSE f[<<c[1], middle - 1>>]
     ELSE IF middle = c[1] \/ hash < Off(r, middle + 1, junk) THEN middle + 1
     ELSE f[<<middle + 1, c[2]>>]

(* The calls about at most d + 1 nodes, and what they all return. *)
Narrow(n, d) == {c \in Calls(n) : c[2] - c[1] <= d}
IsSearch(f, S, r, hash, junk) == f = [c \in S |-> SearchStep(f, r, hash, junk, c)]

LEMMA SearchIs ==
  ASSUME NEW r, NEW hash, NEW junk, NEW q,
         IsSearch(q, Calls(Size(r)), r, hash, junk)
  PROVE  \E f : /\ IsSearch(f, Calls(Size(r)), r, hash, junk)
                /\ GetHashIdx(r, hash, junk) = f[<<0, Size(r)>>]
  BY DEF GetHashIdx, IsSearch, SearchStep, Off

(* The calls that a call makes are about fewer nodes. *)
LEMMA CallShrinks ==
  ASSUME NEW n \in Nat, NEW c \in Calls(n)
  PROVE  LET middle == (c[1] + c[2]) \div 2
         IN /\ middle \in c[1]..c[2]
            /\ middle # c[1] =>
                 /\ middle < c[2]
                 /\ <<c[1], middle - 1>> \in Calls(n)
                 /\ <<middle + 1, c[2]>> \in Calls(n)
                 /\ (middle - 1) - c[1] < c[2] - c[1]
                 /\ c[2] - (middle + 1) < c[2] - c[1]
            /\ middle = c[1] => c[2] <= c[1] + 1
<1>1. PICK a \in 0..n, b \in 0..n : c = <<a, b>> /\ a <= b
  BY DEF Calls
<1>2. c[1] = a /\ c[2] = b
  BY <1>1
<1> DEFINE m == (a + b) \div 2
<1>3. a \in Int /\ b \in Int /\ m \in Int /\ 2 * m <= a + b /\ a + b < 2 * m + 2
  OBVIOUS
<1> HIDE DEF m
<1>4. m \in a..b /\ (m # a => m > a /\ m < b) /\ (m = a => b <= a + 1)
  BY <1>1, <1>3
<1>5. m # a => <<a, m - 1>> \in Calls(n) /\ <<m + 1, b>> \in Calls(n)
  BY <1>1, <1>3, <1>4 DEF Calls
<1>6. m # a => (m - 1) - a < b - a /\ b - (m + 1) < b - a
  BY <1>3, <1>4
<1> QED BY <1>2, <1>4, <1>5, <1>6 DEF m

(* So that the function GetHashIdx is exists. *)
LEMMA SearchExists ==
  ASSUME NEW r, NEW hash, NEW junk, NEW n \in Nat
  PROVE  \E f : IsSearch(f, Calls(n), r, hash, junk)
<1> DEFINE Step(f, c) == SearchStep(f, r, hash, junk, c)
           Some(d) == \E f : IsSearch(f, Narrow(n, d), r, hash, junk)
           Bad == {d \in Nat : ~Some(d)}
<1>1. ASSUME NEW f, NEW g, NEW c \in Calls(n),
             \A e \in Calls(n) : e[2] - e[1] < c[2] - c[1] => f[e] = g[e]
      PROVE  Step(f, c) = Step(g, c)
  <2> DEFINE middle == (c[1] + c[2]) \div 2
  <2>1. middle # c[1] => /\ f[<<c[1], middle - 1>>] = g[<<c[1], middle - 1>>]
                         /\ f[<<middle + 1, c[2]>>] = g[<<middle + 1, c[2]>>]
    <3>1. middle # c[1] =>
            /\ <<c[1], middle - 1>> \in Calls(n) /\ <<middle + 1, c[2]>> \in Calls(n)
            /\ (middle - 1) - c[1] < c[2] - c[1]
            /\ c[2] - (middle + 1) < c[2] - c[1]
      BY CallShrinks
    <3> HIDE DEF middle
    <3> QED BY <1>1, <3>1
  <2> HIDE DEF middle
  <2> QED BY <2>1 DEF SearchStep, middle
<1>2. Narrow(n, n) = Calls(n)
  BY DEF Narrow, Calls
<1> SUFFICES ASSUME n \in Bad PROVE FALSE
  BY <1>2
<1>3. PICK d \in Bad : \A e \in Bad : d <= e
  <2>1. Bad \in SUBSET Nat /\ n \in Bad
    OBVIOUS
  <2> HIDE DEF Bad
  <2> QED BY <2>1, LeastNat
<1>4. CASE d = 0
  <2> DEFINE f == [c \in Narrow(n, d) |-> Step(<<>>, c)]
  <2>1. \A c \in Narrow(n, d) : Step(f, c) = Step(<<>>, c)
    <3> TAKE c \in Narrow(n, d)
    <3>1. c \in Calls(n) /\ c[2] - c[1] = 0
      BY <1>4 DEF Narrow, Calls
    <3>2. \A e \in Calls(n) : ~(e[2] - e[1] < 0)
      BY DEF Calls
    <3> QED BY <1>1, <3>1, <3>2
  <2>2. f = [c \in Narrow(n, d) |-> Step(f, c)]
    BY <2>1
  <2>3. Some(d)
    <3> HIDE DEF f
    <3> QED BY <2>2 DEF IsSearch
  <2> QED BY <1>3, <2>3
<1>5. CASE d # 0
  <2>1. d - 1 \in Nat /\ ~(d <= d - 1)
    BY <1>3, <1>5
  <2>2. Some(d - 1)
    BY <1>3, <2>1
  <2>3. PICK f : f = [c \in Narrow(n, d - 1) |-> Step(f, c)]
    BY <2>2 DEF IsSearch
  <2> DEFINE g == [c \in Narrow(n, d) |-> IF c \in Narrow(n, d - 1) THEN f[c]
                                           ELSE Step(f, c)]
  <2>4. \A c \in Narrow(n, d) : Step(g, c) = Step(f, c)
    <3> TAKE c \in Narrow(n, d)
    <3>1. c \in Calls(n) /\ c[2] - c[1] <= d
      BY DEF Narrow
    <3>2. \A e \in Calls(n) : e[2] - e[1] < c[2] - c[1] =>
             e \in Narrow(n, d - 1) /\ e \in Narrow(n, d)
      BY <1>3, <3>1 DEF Narrow, Calls
    <3>3. \A e \in Calls(n) : e[2] - e[1] < c[2] - c[1] => g[e] = f[e]
      BY <3>2
    <3> HIDE DEF g
    <3> QED BY <1>1, <3>1, <3>3
  <2>5. \A c \in Narrow(n, d) : g[c] = Step(g, c)
    <3> TAKE c \in Narrow(n, d)
    <3>1. g[c] = Step(f, c)
      BY <2>3
    <3> QED BY <2>4, <3>1
  <2>6. g = [c \in Narrow(n, d) |-> Step(g, c)]
    <3>1. g = [c \in Narrow(n, d) |-> g[c]]
      OBVIOUS
    <3> HIDE DEF g
    <3> QED BY <2>5, <3>1
  <2>7. Some(d)
    <3> HIDE DEF g
    <3> QED BY <2>6 DEF IsSearch
  <2> QED BY <1>3, <2>7
<1> QED BY <1>4, <1>5

(* A ring: its offsets do not fall, its nodes are of the masters, and      *)
(* every master has one.                                                   *)
NodeRec == [idx : 0..(Masters - 1), off : Nat]
Ring(r) ==
  /\ r \in Seq(NodeRec) /\ Len(r) > 0
  /\ \A i, j \in 1..Len(r) : i <= j => r[i].off <= r[j].off
  /\ \A m \in 0..(Masters - 1) : \E i \in 1..Len(r) : r[i].idx = m

LEMMA RingNodes ==
  ASSUME NEW r, Ring(r)
  PROVE  /\ Size(r) \in Nat /\ Size(r) > 0
         /\ \A i \in 0..(Size(r) - 1) :
              Node(r, i) \in NodeRec /\ Node(r, i).off \in Nat /\ i < Size(r)
         /\ \A i, j \in 0..(Size(r) - 1) : i <= j => Node(r, i).off <= Node(r, j).off
<1>1. /\ Len(r) \in Nat /\ Len(r) > 0 /\ \A i \in 1..Len(r) : r[i] \in NodeRec
      /\ \A i, j \in 1..Len(r) : i <= j => r[i].off <= r[j].off
  BY DEF Ring
<1>2. \A i \in 0..(Len(r) - 1) : i + 1 \in 1..Len(r) /\ i < Len(r)
  BY <1>1
<1>3. \A i, j \in 0..(Len(r) - 1) : i <= j => i + 1 <= j + 1
  BY <1>1
<1>4. \A i, j \in 0..(Len(r) - 1) : i <= j => r[i + 1].off <= r[j + 1].off
  BY <1>1, <1>2, <1>3
<1>5. \A i \in 0..(Len(r) - 1) : r[i + 1] \in NodeRec /\ r[i + 1].off \in Nat
  BY <1>1, <1>2 DEF NodeRec
<1> QED BY <1>1, <1>2, <1>4, <1>5 DEF Size, Node

(* The nodes that a hash may fall on, before the ring is closed. *)
Ahead(r, hash) == {i \in 0..(Size(r) - 1) : Node(r, i).off >= hash}
Falls(r, hash) ==
  IF Ahead(r, hash) = {} THEN {Size(r), Size(r) + 1}
  ELSE {i \in Ahead(r, hash) :
          \A j \in Ahead(r, hash) : Node(r, i).off <= Node(r, j).off}

(* What is known when a call is made: nodes before are too low, the last   *)
(* one, if it is there, is high enough.                                    *)
Bracket(r, hash, c) ==
  /\ c[1] > 0 => Node(r, c[1] - 1).off < hash
  /\ c[2] < Size(r) => hash <= Node(r, c[2]).off

LEMMA FallsOn ==
  ASSUME NEW r, Ring(r), NEW hash \in Nat, NEW x \in 0..(Size(r) - 1),
         hash <= Node(r, x).off,
         \/ x = 0 \/ Node(r, x - 1).off < hash \/ Node(r, x).off = hash
  PROVE  x \in Falls(r, hash)
<1>1. /\ Size(r) \in Nat
      /\ \A i \in 0..(Size(r) - 1) : Node(r, i).off \in Nat
      /\ \A i, j \in 0..(Size(r) - 1) : i <= j => Node(r, i).off <= Node(r, j).off
  BY RingNodes
<1>2. x \in Ahead(r, hash)
  BY <1>1 DEF Ahead
<1>3. ASSUME NEW j \in Ahead(r, hash) PROVE Node(r, x).off <= Node(r, j).off
  <2>1. j \in 0..(Size(r) - 1) /\ Node(r, j).off >= hash
    BY DEF Ahead
  <2>2. CASE x <= j
    BY <1>1, <2>1, <2>2
  <2>3. CASE j < x
    <3>1. x - 1 \in 0..(Size(r) - 1) /\ j <= x - 1 /\ x # 0
      BY <1>1, <2>1, <2>3
    <3>2. Node(r, j).off <= Node(r, x - 1).off
      BY <1>1, <2>1, <3>1
    <3> QED BY <1>1, <2>1, <3>1, <3>2
  <2> QED BY <1>1, <2>1, <2>2, <2>3
<1> QED BY <1>2, <1>3 DEF Falls

LEMMA SearchFinds ==
  ASSUME NEW r, Ring(r), NEW hash \in Nat, NEW junk \in Nat, NEW f,
         IsSearch(f, Calls(Size(r)), r, hash, junk)
  PROVE  f[<<0, Size(r)>>] \in Falls(r, hash)
<1> DEFINE n == Size(r)
           Wrong == {c \in Calls(n) : Bracket(r, hash, c) /\ f[c] \notin Falls(r, hash)}
           Bad == {c[2] - c[1] : c \in Wrong}
<1>1. /\ n \in Nat /\ n > 0
      /\ \A i \in 0..(n - 1) : Node(r, i).off \in Nat /\ i < n
      /\ \A i, j \in 0..(n - 1) : i <= j => Node(r, i).off <= Node(r, j).off
  BY RingNodes DEF n
<1> HIDE DEF n
<1>2. <<0, n>> \in Calls(n) /\ Bracket(r, hash, <<0, n>>)
  BY <1>1 DEF Calls, Bracket, n
<1> SUFFICES ASSUME <<0, n>> \in Wrong PROVE FALSE
  BY <1>2 DEF n
<1>3. PICK c \in Wrong : \A e \in Wrong : c[2] - c[1] <= e[2] - e[1]
  <2>1. Bad \in SUBSET Nat /\ Bad # {}
    BY DEF Calls
  <2>2. PICK d \in Bad : \A e \in Bad : d <= e
    <3> HIDE DEF Bad
    <3> QED BY <2>1, LeastNat
  <2> QED BY <2>2
<1>4. PICK a \in 0..n, b \in 0..n : c = <<a, b>> /\ a <= b
  BY <1>3 DEF Calls
<1>5. c \in Calls(n) /\ Bracket(r, hash, c) /\ f[c] \notin Falls(r, hash)
      /\ c[1] = a /\ c[2] = b
  BY <1>3, <1>4
<1> DEFINE m == (a + b) \div 2
<1>6. /\ m \in a..b
      /\ m # a => /\ m < b /\ <<a, m - 1>> \in Calls(n) /\ <<m + 1, b>> \in Calls(n)
                  /\ (m - 1) - a < b - a /\ b - (m + 1) < b - a
      /\ m = a => b <= a + 1
  BY <1>1, <1>5, CallShrinks
<1>7. f[c] = SearchStep(f, r, hash, junk, c)
  BY <1>5 DEF IsSearch, n
<1> HIDE DEF m, Wrong, Bad
<1>8. /\ a > 0 => Node(r, a - 1).off < hash
      /\ b < n => hash <= Node(r, b).off
  BY <1>5 DEF Bracket, n
<1>9. ASSUME NEW e \in Calls(n), Bracket(r, hash, e), e[2] - e[1] < b - a
      PROVE  f[e] \in Falls(r, hash)
  <2>1. e[2] - e[1] \in Int /\ b - a \in Int
    BY <1>4 DEF Calls
  <2> QED BY <1>3, <1>5, <1>9, <2>1 DEF Wrong
<1>10. /\ Off(r, m, junk) = (IF m < n THEN Node(r, m).off ELSE junk)
       /\ Off(r, m - 1, junk) = (IF m - 1 < n THEN Node(r, m - 1).off ELSE junk)
       /\ Off(r, m + 1, junk) = (IF m + 1 < n THEN Node(r, m + 1).off ELSE junk)
  BY DEF Off, n
<1>11. \A x \in 0..(n - 1) :
         hash <= Node(r, x).off /\ (x = 0 \/ Node(r, x - 1).off < hash \/ Node(r, x).off = hash)
           => x \in Falls(r, hash)
  BY FallsOn DEF n
<1>12. Node(r, n - 1).off < hash => {n, n + 1} \subseteq Falls(r, hash)
  <2>1. ASSUME Node(r, n - 1).off < hash PROVE Ahead(r, hash) = {}
    <3>1. \A i \in 0..(n - 1) : Node(r, i).off <= Node(r, n - 1).off
      BY <1>1
    <3> QED BY <1>1, <2>1, <3>1 DEF Ahead, n
  <2> QED BY <2>1 DEF Falls, n
<1>13. CASE hash = Off(r, m, junk)
  <2>1. f[c] = m
    BY <1>5, <1>7, <1>13 DEF SearchStep, m
  <2>2. CASE m < n
    BY <1>1, <1>4, <1>5, <1>6, <1>10, <1>11, <1>13, <2>1, <2>2
  <2>3. CASE m = n
    <3>1. a = n
      BY <1>1, <1>4, <1>6, <2>3
    <3> QED BY <1>1, <1>5, <1>8, <1>12, <2>1, <2>3, <3>1
  <2> QED BY <1>1, <1>4, <1>6, <2>2, <2>3
<1>14. CASE hash < Off(r, m, junk)
  <2>1. CASE m = n
    <3>1. a = n /\ m = a
      BY <1>1, <1>4, <1>6, <2>1
    <3>2. f[c] = m
      BY <1>1, <1>5, <1>7, <1>14, <1>10, <2>1, <3>1 DEF SearchStep, m
    <3> QED BY <1>1, <1>5, <1>8, <1>12, <2>1, <3>1, <3>2
  <2>2. CASE m < n /\ (m = a \/ hash > Off(r, m - 1, junk))
    <3>1. f[c] = m
      BY <1>1, <1>5, <1>7, <1>14, <1>10, <2>2 DEF SearchStep, m
    <3>2. m = 0 \/ Node(r, m - 1).off < hash
      BY <1>1, <1>4, <1>6, <1>8, <1>10, <2>2
    <3> QED BY <1>1, <1>4, <1>5, <1>6, <1>10, <1>11, <1>14, <2>2, <3>1, <3>2
  <2>3. CASE m < n /\ m # a /\ ~(hash > Off(r, m - 1, junk))
    <3>1. f[c] = f[<<a, m - 1>>]
      BY <1>1, <1>5, <1>7, <1>14, <1>10, <2>3 DEF SearchStep, m
    <3>2. Bracket(r, hash, <<a, m - 1>>)
      BY <1>1, <1>4, <1>6, <1>8, <1>10, <2>3 DEF Bracket, n
    <3> QED BY <1>5, <1>6, <1>9, <2>3, <3>1, <3>2
  <2> QED BY <1>1, <1>4, <1>6, <2>1, <2>2, <2>3
<1>15. CASE ~(hash = Off(r, m, junk)) /\ ~(hash < Off(r, m, junk))
  <2>1. CASE m = n
    <3>1. a = n /\ m = a
      BY <1>1, <1>4, <1>6, <2>1
    <3>2. f[c] = m + 1
      BY <1>1, <1>5, <1>7, <1>15, <1>10, <2>1, <3>1 DEF SearchStep, m
    <3> QED BY <1>1, <1>5, <1>8, <1>12, <2>1, <3>1, <3>2
  <2>2. CASE m < n /\ (m = a \/ hash < Off(r, m + 1, junk))
    <3>1. f[c] = m + 1
      BY <1>1, <1>5, <1>7, <1>15, <1>10, <2>2 DEF SearchStep, m
    <3>2. m \in 0..(n - 1) /\ Node(r, m).off < hash
      BY <1>1, <1>4, <1>6, <1>10, <1>15, <2>2
    <3>3. CASE m + 1 = n
      <4>1. n - 1 = m
        BY <1>1, <3>2, <3>3
      <4> QED BY <1>5, <1>12, <3>1, <3>2, <3>3, <4>1
    <3>4. CASE m + 1 < n
      <4>1. (m + 1) - 1 = m /\ m + 1 \in 0..(n - 1)
        BY <1>1, <3>2, <3>4
      <4>2. hash <= Node(r, m + 1).off
        <5>1. CASE hash < Off(r, m + 1, junk)
          BY <1>1, <1>10, <3>4, <4>1, <5>1
        <5>2. CASE m = a
          <6>1. b = a \/ b = m + 1
            BY <1>1, <1>4, <1>6, <5>2
          <6>2. b # a
            BY <1>1, <1>8, <3>2, <5>2
          <6> QED BY <1>8, <3>4, <6>1, <6>2
        <5> QED BY <2>2, <5>1, <5>2
      <4> QED BY <1>5, <1>11, <3>1, <3>2, <4>1, <4>2
    <3> QED BY <1>1, <3>2, <3>3, <3>4
  <2>3. CASE m < n /\ m # a /\ ~(hash < Off(r, m + 1, junk))
    <3>1. f[c] = f[<<m + 1, b>>]
      BY <1>1, <1>5, <1>7, <1>15, <1>10, <2>3 DEF SearchStep, m
    <3>2. Bracket(r, hash, <<m + 1, b>>)
      <4>1. (m + 1) - 1 = m /\ m \in 0..(n - 1) /\ Node(r, m).off < hash
        BY <1>1, <1>4, <1>6, <1>10, <1>15, <2>3
      <4> QED BY <1>8, <4>1 DEF Bracket, n
    <3> QED BY <1>5, <1>6, <1>9, <2>3, <3>1, <3>2
  <2> QED BY <1>1, <1>4, <1>6, <2>1, <2>2, <2>3
<1> QED BY <1>13, <1>14, <1>15

(* GetHashIdx finds a node the hash falls on, whatever is in the memory    *)
(* behind the ring.                                                        *)
LEMMA HashIdxFalls ==
  ASSUME NEW r, Ring(r), NEW hash \in Nat, NEW junk \in Nat
  PROVE  GetHashIdx(r, hash, junk) \in Falls(r, hash)
<1>1. Size(r) \in Nat
  BY DEF Ring, Size
<1> QED BY <1>1, SearchExists, SearchIs, SearchFinds

-----------------------------------------------------------------------------
(* The ring that HashInit makes. *)

(* Inserting into a sequence: what is kept, and where. *)
Inserted(S, r, s, p, e) ==
  /\ r \in Seq(S) /\ Len(r) = Len(s) + 1
  /\ \A i \in 1..(Len(s) + 1) :
       r[i] = IF i < p THEN s[i] ELSE IF i = p THEN e ELSE s[i - 1]

LEMMA InsertAtIs ==
  ASSUME NEW S, NEW s \in Seq(S), NEW e \in S, NEW p \in 1..(Len(s) + 1)
  PROVE  Inserted(S, InsertAt(s, p, e), s, p, e)
<1>0. p \in Nat /\ Len(s) \in Nat
  OBVIOUS
<1> DEFINE x == SubSeq(s, 1, p - 1)
           y == SubSeq(s, p, Len(s))
<1>1. /\ x \in Seq(S) /\ Len(x) = p - 1
      /\ \A i \in 1..(p - 1) : x[i] = s[i]
  OBVIOUS
<1>2. /\ y \in Seq(S) /\ Len(y) = Len(s) - p + 1
      /\ \A i \in 1..(Len(s) - p + 1) : y[i] = s[p + i - 1]
  OBVIOUS
<1> HIDE DEF x, y
<1> DEFINE z == x \o <<e>>
<1>3. /\ z \in Seq(S) /\ Len(z) = p
      /\ \A i \in 1..p : z[i] = IF i < p THEN s[i] ELSE e
  BY <1>1
<1> HIDE DEF z
<1>4. /\ z \o y \in Seq(S) /\ Len(z \o y) = Len(s) + 1
      /\ \A i \in 1..(Len(s) + 1) : (z \o y)[i] = IF i <= p THEN z[i] ELSE y[i - p]
  <2>1. Len(z) + Len(y) = Len(s) + 1 /\ Len(z) = p
    BY <1>0, <1>2, <1>3
  <2>2. z \in Seq(S) /\ y \in Seq(S)
    BY <1>2, <1>3
  <2>3. /\ z \o y \in Seq(S) /\ Len(z \o y) = Len(z) + Len(y)
        /\ \A i \in 1..(Len(z) + Len(y)) :
             (z \o y)[i] = IF i <= Len(z) THEN z[i] ELSE y[i - Len(z)]
    BY <2>2
  <2> QED BY <2>1, <2>3
<1>5. \A i \in 1..(Len(s) + 1) :
        (z \o y)[i] = IF i < p THEN s[i] ELSE IF i = p THEN e ELSE s[i - 1]
  <2> TAKE i \in 1..(Len(s) + 1)
  <2>0. i <= p \/ i > p
    BY <1>0
  <2>1. CASE i <= p
    BY <1>3, <1>4, <2>1
  <2>2. CASE i > p
    <3>1. i - p \in 1..(Len(s) - p + 1) /\ p + (i - p) - 1 = i - 1
      BY <2>2
    <3>2. y[i - p] = s[i - 1]
      BY <1>2, <3>1
    <3>3. ~(i <= p) /\ ~(i < p) /\ i # p
      BY <1>0, <2>2
    <3>4. (z \o y)[i] = y[i - p]
      BY <1>4, <3>3
    <3> QED BY <3>2, <3>3, <3>4
  <2> QED BY <2>0, <2>1, <2>2
<1>6. InsertAt(s, p, e) = z \o y
  BY DEF InsertAt, x, y, z
<1>7. Inserted(S, z \o y, s, p, e)
  BY <1>4, <1>5 DEF Inserted
<1> QED BY <1>6, <1>7

Put(r, v) == InsertAt(r, GetPos(r, v.off) + 1, v)
IsUpto(f, nodes, k) ==
  f = [i \in 0..k |-> IF i = 0 THEN <<>> ELSE Put(f[i - 1], nodes[i])]

LEMMA PutIs ==
  ASSUME NEW r \in Seq(NodeRec), NEW v \in NodeRec
  PROVE  /\ Put(r, v) \in Seq(NodeRec) /\ Len(Put(r, v)) = Len(r) + 1
         /\ \E i \in 1..(Len(r) + 1) : Put(r, v)[i] = v
         /\ \A j \in 1..Len(r) : \E i \in 1..(Len(r) + 1) : Put(r, v)[i] = r[j]
<1> DEFINE p == GetPos(r, v.off)
           later == {i \in 0..(Size(r) - 1) : v.off < Node(r, i).off}
<1>1. p \in 0..Len(r)
  <2>1. CASE later = {}
    BY <2>1 DEF GetPos, Size
  <2>2. CASE later # {}
    <3>1. later \in SUBSET Nat
      BY DEF Size
    <3>2. PICK x \in later : \A y \in later : x <= y
      <4> HIDE DEF later
      <4> QED BY <2>2, <3>1, LeastNat
    <3>3. p \in later
      BY <2>2, <3>2 DEF GetPos
    <3> QED BY <3>3 DEF Size
  <2> QED BY <2>1, <2>2
<1> DEFINE q == p + 1
<1>2. q \in 1..(Len(r) + 1) /\ Put(r, v) = InsertAt(r, q, v)
  BY <1>1 DEF Put
<1> HIDE DEF p, q
<1>3. /\ Put(r, v) \in Seq(NodeRec)
      /\ Len(Put(r, v)) = Len(r) + 1
      /\ \A i \in 1..(Len(r) + 1) :
           Put(r, v)[i] = IF i < q THEN r[i] ELSE IF i = q THEN v ELSE r[i - 1]
  <2>1. Inserted(NodeRec, InsertAt(r, q, v), r, q, v)
    BY <1>2, InsertAtIs
  <2> QED BY <1>2, <2>1 DEF Inserted
<1>4. Put(r, v)[q] = v
  BY <1>2, <1>3
<1>5. ASSUME NEW j \in 1..Len(r)
      PROVE  \E i \in 1..(Len(r) + 1) : Put(r, v)[i] = r[j]
  <2>1. CASE j < q
    BY <1>3, <2>1
  <2>2. CASE j >= q
    <3>1. j + 1 \in 1..(Len(r) + 1) /\ j + 1 > q /\ (j + 1) - 1 = j
      BY <1>2, <2>2
    <3>2. Put(r, v)[j + 1] = r[j]
      BY <1>2, <1>3, <3>1
    <3> QED BY <3>1, <3>2
  <2> QED BY <1>2, <2>1, <2>2
<1> QED BY <1>2, <1>3, <1>4, <1>5

LEMMA UptoExists ==
  ASSUME NEW nodes, NEW n \in Nat PROVE \E f : IsUpto(f, nodes, n)
<1> DEFINE Bad == {k \in Nat : ~\E f : IsUpto(f, nodes, k)}
<1> SUFFICES ASSUME n \in Bad PROVE FALSE
  OBVIOUS
<1>1. PICK k \in Bad : \A j \in Bad : k <= j
  <2>1. Bad \in SUBSET Nat /\ n \in Bad
    OBVIOUS
  <2> HIDE DEF Bad
  <2> QED BY <2>1, LeastNat
<1>2. CASE k = 0
  <2> DEFINE f == [i \in 0..k |-> <<>>]
  <2>1. f = [i \in 0..k |-> IF i = 0 THEN <<>> ELSE Put(f[i - 1], nodes[i])]
    BY <1>2
  <2> HIDE DEF f
  <2> QED BY <1>1, <2>1 DEF IsUpto
<1>3. CASE k # 0
  <2>1. k - 1 \in Nat /\ ~(k <= k - 1)
    BY <1>1, <1>3
  <2>2. PICK f : f = [i \in 0..(k - 1) |-> IF i = 0 THEN <<>> ELSE Put(f[i - 1], nodes[i])]
    BY <1>1, <2>1 DEF IsUpto
  <2> DEFINE g == [i \in 0..k |-> IF i = k THEN Put(f[k - 1], nodes[k]) ELSE f[i]]
  <2>3. \A i \in 0..k : g[i] = IF i = 0 THEN <<>> ELSE Put(g[i - 1], nodes[i])
    <3> TAKE i \in 0..k
    <3>1. CASE i = 0
      BY <1>3, <2>2, <3>1, <2>1
    <3>2. CASE i # 0
      <4>1. i - 1 \in 0..k /\ i - 1 # k /\ g[i - 1] = f[i - 1]
        BY <3>2, <1>1
      <4>2. g[i] = Put(f[i - 1], nodes[i])
        <5>1. CASE i = k
          BY <5>1
        <5>2. CASE i # k
          <6>1. i \in 0..(k - 1) /\ g[i] = f[i]
            BY <5>2, <1>1
          <6> QED BY <2>2, <3>2, <6>1
        <5> QED BY <5>1, <5>2
      <4> QED BY <3>2, <4>1, <4>2
    <3> QED BY <3>1, <3>2
  <2>4. g = [i \in 0..k |-> g[i]]
    OBVIOUS
  <2> HIDE DEF g
  <2>5. IsUpto(g, nodes, k)
    BY <2>3, <2>4 DEF IsUpto
  <2> QED BY <1>1, <2>5
<1> QED BY <1>2, <1>3

(* The virtual nodes sorted are all the virtual nodes. *)
LEMMA UptoAll ==
  ASSUME NEW nodes \in Seq(NodeRec), NEW f, IsUpto(f, nodes, Len(nodes)),
         NEW k \in 0..Len(nodes)
  PROVE  /\ f[k] \in Seq(NodeRec) /\ Len(f[k]) = k
         /\ \A j \in 1..k : \E i \in 1..k : f[k][i] = nodes[j]
<1> DEFINE Good(i) == /\ f[i] \in Seq(NodeRec) /\ Len(f[i]) = i
                      /\ \A j \in 1..i : \E l \in 1..i : f[i][l] = nodes[j]
           Bad == {i \in 0..Len(nodes) : ~Good(i)}
<1> SUFFICES ASSUME k \in Bad PROVE FALSE
  OBVIOUS
<1>1. PICK i \in Bad : \A j \in Bad : i <= j
  <2>1. Bad \in SUBSET Nat /\ k \in Bad
    OBVIOUS
  <2> HIDE DEF Bad
  <2> QED BY <2>1, LeastNat
<1>2. f[i] = IF i = 0 THEN <<>> ELSE Put(f[i - 1], nodes[i])
  BY <1>1 DEF IsUpto
<1>3. CASE i = 0
  <2>1. Good(i)
    BY <1>2, <1>3
  <2> QED BY <1>1, <2>1
<1>4. CASE i # 0
  <2>1. /\ i - 1 \in 0..Len(nodes) /\ ~(i <= i - 1) /\ i \in 1..Len(nodes)
        /\ (i - 1) + 1 = i
    BY <1>1, <1>4
  <2>2. Good(i - 1)
    BY <1>1, <2>1
  <2>3. nodes[i] \in NodeRec /\ f[i] = Put(f[i - 1], nodes[i])
    BY <1>2, <1>4, <2>1
  <2>4. /\ f[i] \in Seq(NodeRec) /\ Len(f[i]) = i
        /\ \E l \in 1..i : f[i][l] = nodes[i]
        /\ \A j \in 1..(i - 1) : \E l \in 1..i : f[i][l] = f[i - 1][j]
    <3> DEFINE g == f[i - 1]
    <3>1. g \in Seq(NodeRec) /\ Len(g) = i - 1
      BY <2>2
    <3>2. /\ Put(g, nodes[i]) \in Seq(NodeRec) /\ Len(Put(g, nodes[i])) = Len(g) + 1
          /\ \E l \in 1..(Len(g) + 1) : Put(g, nodes[i])[l] = nodes[i]
          /\ \A j \in 1..Len(g) : \E l \in 1..(Len(g) + 1) : Put(g, nodes[i])[l] = g[j]
      <4> HIDE DEF g
      <4> QED BY <2>3, <3>1, PutIs
    <3>3. Len(g) + 1 = i
      BY <2>1, <3>1
    <3> QED BY <2>3, <3>1, <3>2, <3>3
  <2>5. ASSUME NEW j \in 1..i PROVE \E l \in 1..i : f[i][l] = nodes[j]
    <3>1. CASE j = i
      BY <2>4, <3>1
    <3>2. CASE j # i
      <4>1. j \in 1..(i - 1)
        BY <2>1, <3>2
      <4>2. PICK l \in 1..(i - 1) : f[i - 1][l] = nodes[j]
        BY <2>2, <4>1
      <4> QED BY <2>4, <4>2
    <3> QED BY <3>1, <3>2
  <2>6. Good(i)
    BY <2>4, <2>5
  <2> QED BY <1>1, <2>6
<1> QED BY <1>3, <1>4

LEMMA Times ==
  ASSUME NEW a \in Nat, NEW i \in Nat, NEW j \in Nat, i <= j
  PROVE  a * i \in Nat /\ a * i <= a * j
<1>1. j - i \in Nat /\ j = i + (j - i)
  OBVIOUS
<1>2. PICK d \in Nat : j = i + d
  BY <1>1
<1>3. a * (i + d) = a * i + a * d
  OBVIOUS
<1>4. a * i \in Nat /\ a * d \in Nat
  OBVIOUS
<1> QED BY <1>2, <1>3, <1>4

(* HashInit makes a ring. *)
LEMMA HashInitRing ==
  ASSUME NEW nodes \in Calc PROVE Ring(HashInit(nodes))
<1>0. Masters \in Nat /\ Masters > 0
  BY HostsAssumption
<1>1. nodes \in Seq(NodeRec)
  BY HostsAssumption DEF NodeRec
<1>2. \A m \in 0..(Masters - 1) : \E i \in DOMAIN nodes : nodes[i].idx = m
  BY HostsAssumption
<1>3. Len(nodes) \in Nat /\ Len(nodes) > 0 /\ DOMAIN nodes = 1..Len(nodes)
  <2>1. \E i \in DOMAIN nodes : TRUE
    BY <1>0, <1>2
  <2> QED BY <1>1, <2>1
<1> DEFINE sorted(f) == f[Len(nodes)]
           avg(f) == Last(sorted(f)).off \div Len(sorted(f))
<1>4. PICK f : /\ IsUpto(f, nodes, Len(nodes))
               /\ HashInit(nodes) = [i \in 1..Len(sorted(f)) |->
                                       [sorted(f)[i] EXCEPT !.off = avg(f) * i]]
  <2>1. \E g : IsUpto(g, nodes, Len(nodes))
    BY <1>3, UptoExists
  <2> QED BY <2>1 DEF HashInit, IsUpto, Put
<1> DEFINE s == sorted(f)
           k == avg(f)
<1>5. /\ s \in Seq(NodeRec) /\ Len(s) = Len(nodes)
      /\ \A j \in 1..Len(nodes) : \E i \in 1..Len(nodes) : s[i] = nodes[j]
  <2>1. Len(nodes) \in 0..Len(nodes)
    BY <1>3
  <2>2. IsUpto(f, nodes, Len(nodes))
    BY <1>4
  <2> QED BY <1>1, <2>1, <2>2, UptoAll
<1>6. k \in Nat
  <2>1. Last(s) \in NodeRec
    BY <1>3, <1>5 DEF Last
  <2>2. Last(s).off \in Nat
    BY <2>1 DEF NodeRec
  <2>3. Len(s) \in Nat /\ Len(s) > 0
    BY <1>3, <1>5
  <2> DEFINE x == Last(s).off
             y == Len(s)
  <2>4. x \in Nat /\ y \in Nat /\ y > 0
    BY <2>2, <2>3
  <2> HIDE DEF x, y
  <2>5. x \div y \in Nat
    BY <2>4
  <2> QED BY <2>5 DEF x, y
<1>7. HashInit(nodes) = [i \in 1..Len(nodes) |-> [s[i] EXCEPT !.off = k * i]]
  BY <1>4, <1>5
<1> DEFINE r == HashInit(nodes)
<1> HIDE DEF s, k
<1>8. \A i \in 1..Len(nodes) : r[i].off = k * i /\ r[i].idx = s[i].idx /\ r[i] \in NodeRec
  <2> TAKE i \in 1..Len(nodes)
  <2>1. s[i] \in NodeRec /\ k * i \in Nat
    BY <1>3, <1>5, <1>6, Times
  <2>2. r[i] = [s[i] EXCEPT !.off = k * i]
    BY <1>7
  <2> HIDE DEF r
  <2> QED BY <2>1, <2>2 DEF NodeRec
<1>9. r \in Seq(NodeRec) /\ Len(r) = Len(nodes)
  <2>1. r = [i \in 1..Len(nodes) |-> r[i]]
    BY <1>7
  <2> HIDE DEF r
  <2> QED BY <1>3, <1>8, <2>1
<1> HIDE DEF r
<1>10. \A i, j \in 1..Len(r) : i <= j => r[i].off <= r[j].off
  BY <1>3, <1>6, <1>8, <1>9, Times
<1>11. ASSUME NEW m \in 0..(Masters - 1) PROVE \E i \in 1..Len(r) : r[i].idx = m
  <2>1. PICK j \in 1..Len(nodes) : nodes[j].idx = m
    BY <1>2, <1>3
  <2>2. PICK i \in 1..Len(nodes) : s[i] = nodes[j]
    BY <1>5
  <2> QED BY <1>8, <1>9, <2>1, <2>2
<1> QED BY <1>3, <1>9, <1>10, <1>11 DEF Ring, r

-----------------------------------------------------------------------------
(* Going around the ring, and the slaves. *)

LEMMA Division ==
  ASSUME NEW x \in Nat, NEW n \in Nat, n > 0
  PROVE  x % n \in 0..(n - 1) /\ x \div n \in Nat /\ x = n * (x \div n) + (x % n)
  OBVIOUS

(* From any place, n steps come to every place of n in a circle. *)
LEMMA Turn ==
  ASSUME NEW n \in Nat, n > 0, NEW at \in Nat, NEW j \in 0..(n - 1)
  PROVE  \E i \in 1..n : (at + i - 1) % n = j
<1> DEFINE a == at % n
           q == at \div n
<1>1. a \in 0..(n - 1) /\ q \in Nat /\ at = n * q + a
  BY Division
<1> HIDE DEF a, q
<1>2. \A k \in Nat : (n * k + j) % n = j
  <2> TAKE k \in Nat
  <2> DEFINE x == n * k + j
  <2>1. x \in Nat
    OBVIOUS
  <2>2. x % n \in 0..(n - 1) /\ x \div n \in Nat /\ x = n * (x \div n) + (x % n)
    <3> HIDE DEF x
    <3> QED BY <2>1, Division
  <2> DEFINE y == x \div n
             z == x % n
  <2> HIDE DEF y, z
  <2>3. n * k + j = n * y + z /\ y \in Nat /\ z \in 0..(n - 1)
    BY <2>2 DEF x, y, z
  <2>4. k = y
    <3>1. CASE k < y
      <4>1. y - k - 1 \in Nat /\ y = k + 1 + (y - k - 1)
        BY <2>3, <3>1
      <4>2. PICK d \in Nat : y = k + 1 + d
        BY <4>1
      <4>3. n * y = n * k + n + n * d /\ n * d \in Nat
        BY <4>2
      <4> QED BY <2>3, <4>3
    <3>2. CASE y < k
      <4>1. k - y - 1 \in Nat /\ k = y + 1 + (k - y - 1)
        BY <2>3, <3>2
      <4>2. PICK d \in Nat : k = y + 1 + d
        BY <4>1
      <4>3. n * k = n * y + n + n * d /\ n * d \in Nat
        BY <2>3, <4>2
      <4> QED BY <2>3, <4>3
    <3> QED BY <2>3, <3>1, <3>2
  <2>5. z = j
    BY <2>3, <2>4
  <2> QED BY <2>5 DEF x, z
<1>3. CASE j >= a
  <2>1. j - a + 1 \in 1..n /\ at + (j - a + 1) - 1 = n * q + j
    BY <1>1, <1>3
  <2>2. (at + (j - a + 1) - 1) % n = j
    BY <1>1, <1>2, <2>1
  <2> QED BY <2>1, <2>2
<1>4. CASE j < a
  <2>1. j - a + 1 + n \in 1..n
    BY <1>1, <1>4
  <2>2. at + (j - a + 1 + n) - 1 = n * (q + 1) + j
    BY <1>1
  <2>3. (at + (j - a + 1 + n) - 1) % n = j
    BY <1>1, <1>2, <2>2
  <2> QED BY <2>1, <2>3
<1> QED BY <1>1, <1>3, <1>4

(* The least of a set of indices. *)
LEMMA MinIs ==
  ASSUME NEW I \in SUBSET Nat, I # {}
  PROVE  Min(I) \in I /\ \A j \in I : Min(I) <= j
<1>1. \E x \in I : \A y \in I : x <= y
  BY LeastNat
<1> QED BY <1>1 DEF Min
(* A hash falls on a node of the ring. *)
LEMMA FallsNode ==
  ASSUME NEW r, Ring(r), NEW hash \in Nat, NEW x \in Falls(r, hash)
  PROVE  x % Size(r) \in 0..(Size(r) - 1) /\ x \in Nat
         /\ IF Ahead(r, hash) = {} THEN x % Size(r) \in {0, 1 % Size(r)}
            ELSE x % Size(r) = x
<1>1. Size(r) \in Nat /\ Size(r) > 0
  BY RingNodes
<1> DEFINE n == Size(r)
<1>2. CASE Ahead(r, hash) = {}
  <2>1. x = n \/ x = n + 1
    BY <1>2 DEF Falls
  <2> HIDE DEF n
  <2>2. n \in Nat /\ n > 0
    BY <1>1 DEF n
  <2>3. n % n = 0
    BY <2>2
  <2>4. (n + 1) % n = 1 % n
    <3>1. CASE n = 1
      BY <3>1
    <3>2. CASE n > 1
      <4>1. (n + 1) % n = 1
        BY <2>2, <3>2
      <4>2. 1 % n = 1
        BY <2>2, <3>2
      <4> QED BY <4>1, <4>2
    <3> QED BY <2>2, <3>1, <3>2
  <2>5. x \in Nat /\ x % n \in 0..(n - 1)
    BY <2>1, <2>2
  <2> QED BY <1>2, <2>1, <2>3, <2>4, <2>5 DEF n
<1>3. CASE Ahead(r, hash) # {}
  <2>1. x \in 0..(Size(r) - 1)
    BY <1>3 DEF Falls, Ahead
  <2>2. x \in Nat /\ x < Size(r)
    BY <1>1, <2>1
  <2>3. x % Size(r) = x
    BY <1>1, <2>2, RemainderSame
  <2> QED BY <1>3, <2>1, <2>2, <2>3
<1> QED BY <1>2, <1>3

(* The nodes SelectRight allows for the first try. *)
First(r, hash) ==
  LET n == Size(r)
      at == {i \in 0..(n - 1) : Node(r, i).off >= hash}
  IN IF at = {} THEN {0, 1 % n}
     ELSE {i \in at : \A j \in at : Node(r, i).off <= Node(r, j).off}

(* Master finds a master that was not tried as long as there is one, and   *)
(* at first that of the node the hash falls on.                            *)
LEMMA MasterIs ==
  ASSUME NEW r, Ring(r), NEW hash \in Nat, NEW junk \in Nat, NEW history
  PROVE  LET m == Master(r, Masters, hash, junk, history)
         IN /\ Master(r, 0, hash, junk, history) = NoHost
            /\ m # NoHost => m \in 0..(Masters - 1) /\ m \notin history
            /\ m = NoHost => 0..(Masters - 1) \subseteq history
            /\ m # NoHost /\ history = {} => \E i \in First(r, hash) : m = Node(r, i).idx
<1> DEFINE x == GetHashIdx(r, hash, junk)
           n == Size(r)
           at == x % n
           row == Around(r, at)
           I == {i \in 1..Len(row) : row[i] \notin history /\ row[i] < Masters}
           k == IF I # {} THEN Min(I) ELSE 0
           m == Master(r, Masters, hash, junk, history)
<1>1. Masters \in Nat /\ Masters > 0
  BY HostsAssumption
<1>2. n \in Nat /\ n > 0 /\ r # <<>>
  BY RingNodes DEF Ring
<1>3. x \in Falls(r, hash)
  BY HashIdxFalls
<1> HIDE DEF x
<1>4. /\ at \in 0..(n - 1)
      /\ IF Ahead(r, hash) = {} THEN at \in {0, 1 % n} ELSE at = x
  BY <1>3, FallsNode
<1>5. at \in First(r, hash)
  <2>1. CASE Ahead(r, hash) = {}
    BY <1>4, <2>1 DEF First, Ahead
  <2>2. CASE Ahead(r, hash) # {}
    <3>1. at \in Falls(r, hash)
      BY <1>3, <1>4, <2>2
    <3> HIDE DEF at
    <3> QED BY <2>2, <3>1 DEF First, Ahead, Falls
  <2> QED BY <2>1, <2>2
<1> HIDE DEF at
<1>6. row = [i \in 1..n |-> Node(r, (at + i - 1) % n).idx]
  BY DEF Around
<1>7. \A i \in 1..n : (at + i - 1) % n \in 0..(n - 1)
  <2> TAKE i \in 1..n
  <2> DEFINE y == at + i - 1
  <2>1. y \in Nat
    BY <1>2, <1>4
  <2> HIDE DEF y
  <2>2. y % n \in 0..(n - 1)
    BY <1>2, <2>1, Division
  <2> QED BY <2>2 DEF y
<1>8. \A i \in 0..(n - 1) : Node(r, i).idx \in 0..(Masters - 1)
  <2>1. \A i \in 0..(n - 1) : Node(r, i) \in NodeRec
    BY RingNodes
  <2> QED BY <2>1 DEF NodeRec
<1> HIDE DEF n
<1>9. \A i \in 1..n : row[i] \in 0..(Masters - 1)
  <2> HIDE DEF row
  <2> QED BY <1>6, <1>7, <1>8
<1>10. Len(row) = n
  BY <1>2, <1>6
<1>11. row[1] = Node(r, at).idx
  <2>1. at + 1 - 1 = at /\ at \in Nat /\ at < n
    BY <1>2, <1>4
  <2>2. (at + 1 - 1) % n = at
    BY <1>2, <2>1, RemainderSame
  <2>3. 1 \in 1..n
    BY <1>2
  <2> HIDE DEF row
  <2> QED BY <1>6, <2>2, <2>3
<1>12. m = IF row[1] >= Masters \/ k = 0 THEN NoHost ELSE row[k]
  BY <1>2 DEF Master, SelectInSeq, at, n, x
<1>16. Master(r, 0, hash, junk, history) = NoHost
  <2>1. row[1] >= 0
    BY <1>1, <1>2, <1>9
  <2> QED BY <1>2, <2>1 DEF Master, at, n, x
<1> HIDE DEF row, m
<1>13. ~(row[1] >= Masters)
  BY <1>1, <1>2, <1>9
<1>14. CASE I = {}
  <2>1. m = NoHost
    BY <1>12, <1>14
  <2>2. ASSUME NEW j \in 0..(Masters - 1) PROVE j \in history
    <3>1. PICK l \in 1..Len(r) : r[l].idx = j
      BY DEF Ring
    <3>2. l - 1 \in 0..(n - 1) /\ Node(r, l - 1).idx = j
      <4>1. (l - 1) + 1 = l /\ Len(r) = n
        BY <3>1 DEF n, Size
      <4> QED BY <1>2, <3>1, <4>1 DEF Node
    <3>3. PICK i \in 1..n : (at + i - 1) % n = l - 1
      <4>1. at \in Nat
        BY <1>2, <1>4
      <4> QED BY <1>2, <3>2, <4>1, Turn
    <3>4. row[i] = j
      BY <1>6, <3>2, <3>3
    <3>5. i \notin I /\ i \in 1..Len(row) /\ row[i] < Masters
      BY <1>1, <1>9, <1>10, <1>14, <3>3
    <3> QED BY <3>4, <3>5
  <2> QED BY <1>16, <2>1, <2>2 DEF m
<1>15. CASE I # {}
  <2>1. I \in SUBSET Nat
    BY <1>2, <1>10
  <2>2. Min(I) \in I /\ \A j \in I : Min(I) <= j
    <3> HIDE DEF I
    <3> QED BY <1>15, <2>1, MinIs
  <2>3. k \in I /\ k # 0 /\ \A j \in I : k <= j
    BY <1>15, <2>2
  <2> HIDE DEF k
  <2>4. m = row[k] /\ m \in 0..(Masters - 1) /\ m \notin history
    BY <1>9, <1>10, <1>12, <1>13, <2>3
  <2>5. m # NoHost
    BY <2>4, <1>1 DEF NoHost
  <2>6. history = {} => m = row[1]
    <3> SUFFICES ASSUME history = {} PROVE m = row[1]
      OBVIOUS
    <3>1. 1 \in I
      BY <1>1, <1>2, <1>9, <1>10
    <3>2. k = 1
      BY <1>2, <1>10, <2>3, <3>1
    <3> QED BY <2>4, <3>2
  <2> QED BY <1>5, <1>11, <1>16, <2>4, <2>5, <2>6 DEF m
<1> QED BY <1>14, <1>15, <1>16

(* Slave finds a slave as long as one never failed, or is alive. *)
LEMMA SlaveIs ==
  ASSUME NEW hash \in Nat, NEW retry \in Nat,
         NEW fresh \in SUBSET (0..(Slaves - 1)), NEW alv \in SUBSET (0..(Slaves - 1)),
         Slave(Slaves, hash, retry, fresh, alv) = NoHost
  PROVE  fresh \cup alv = {}
<1> DEFINE n == Slaves
           row(start) == [i \in 1..n |-> (start + i - 1) % n]
           I(start, ok) == {i \in 1..Len(row(start)) : row(start)[i] \in ok}
           k(start, ok) == IF I(start, ok) # {} THEN Min(I(start, ok)) ELSE 0
           pick(start, ok) == IF k(start, ok) = 0 THEN NoHost ELSE row(start)[k(start, ok)]
           legal == hash % n
<1>1. n \in Nat
  BY HostsAssumption
<1>2. CASE n = 0
  BY <1>2
<1>3. CASE n # 0
  <2>1. Slave(Slaves, hash, retry, fresh, alv) =
          IF fresh \cap 0..(n - 1) # {} THEN pick(legal + retry, fresh)
          ELSE pick(legal, alv)
    BY <1>3 DEF Slave, SelectInSeq
  <2>2. legal \in Nat
    BY <1>1, <1>3
  <2>3. legal + retry \in Nat
    BY <2>2
  <2> HIDE DEF legal, n
  <2>4. ASSUME NEW start \in Nat, NEW ok \in SUBSET (0..(n - 1)), ok # {}
        PROVE  pick(start, ok) # NoHost
    <3>1. PICK j \in ok : TRUE
      BY <2>4
    <3>2. PICK i \in 1..n : (start + i - 1) % n = j
      <4>1. n > 0 /\ j \in 0..(n - 1)
        BY <1>1, <1>3, <3>1
      <4> QED BY <1>1, <4>1, Turn
    <3>3. Len(row(start)) = n
      BY <1>1
    <3>4. i \in I(start, ok)
      BY <3>1, <3>2, <3>3
    <3>5. I(start, ok) \in SUBSET Nat
      BY <1>1, <3>3
    <3>6. Min(I(start, ok)) \in I(start, ok)
      <4> DEFINE J == I(start, ok)
      <4>1. J # {} /\ J \in SUBSET Nat
        BY <3>4, <3>5
      <4> HIDE DEF J
      <4>2. Min(J) \in J
        BY <4>1, MinIs
      <4> QED BY <4>2 DEF J
    <3>7. k(start, ok) \in I(start, ok)
      BY <3>4, <3>6
    <3> DEFINE l == k(start, ok)
    <3>8. l \in 1..n /\ row(start)[l] \in ok
      BY <1>1, <3>3, <3>7
    <3>9. l # 0 /\ row(start)[l] # -1
      <4> HIDE DEF l
      <4> QED BY <1>1, <3>8
    <3> HIDE DEF k, row
    <3> QED BY <3>9 DEF NoHost
  <2> HIDE DEF pick
  <2>5. fresh = {}
    <3> SUFFICES ASSUME fresh # {} PROVE FALSE
      OBVIOUS
    <3>1. fresh \cap 0..(n - 1) # {}
      BY DEF n
    <3>2. pick(legal + retry, fresh) # NoHost
      BY <2>3, <2>4 DEF n
    <3> QED BY <2>1, <3>1, <3>2
  <2>6. alv = {}
    <3> SUFFICES ASSUME alv # {} PROVE FALSE
      OBVIOUS
    <3>1. pick(legal, alv) # NoHost
      BY <2>2, <2>4 DEF n
    <3> QED BY <2>1, <2>5, <3>1
  <2> QED BY <2>5, <2>6
<1> QED BY <1>2, <1>3

-----------------------------------------------------------------------------
(* Requests. *)

(* A request is of a process that is alive and has the copy of its group.  *)
ReqShape == req = [p |-> req.p, g |-> req.g, s |-> req.s, hash |-> req.hash,
                   history |-> req.history, retry |-> req.retry, host |-> req.host]
Copied(r) == \E c \in has[r.p] : c.g = r.g /\ c.s = r.s
ReqType ==
  \/ req = NoReq
  \/ /\ ReqShape
     /\ req.p \in alive /\ Copied(req)
     /\ req.hash \in Nat /\ req.retry \in Nat
     /\ req.history \in SUBSET (0..(Masters - 1))
     /\ req.host[1] \in {"first", "failed", "master", "slave", "null"}

(* How often it was tried and which masters it got: one more for every     *)
(* retry, until it has had all.                                            *)
Tries ==
  LET kind == req.host[1]
      all == 0..(Masters - 1)
  IN /\ kind = "first" => req.history = {} /\ req.retry = 0
     /\ kind = "failed" => /\ req.retry > 0
                           /\ req.history = all \/ Cardinality(req.history) = req.retry
     /\ kind = "master" => /\ req.host[2] = req.g
                           /\ Cardinality(req.history) = req.retry + 1
                           /\ req.retry = 0 => \E i \in First(ring, req.hash) :
                                                 req.host[3] = Node(ring, i).idx
     /\ kind = "slave" => req.host[2] = req.g /\ req.history = all
     /\ kind = "null" => req.host[2] = {} /\ req.history = all

(* As long as its slot is its group's. *)
Right == req.s > 0 => slot[req.s].hosts = req.g

ReqInv == /\ Ring(ring) /\ ReqType
          /\ req # NoReq /\ Right => Tries

LEMMA NoReqHost == NoReq.host[1] = "none" /\ NoReq.p = Boss /\ NoReq.g = 0
  BY DEF NoReq

LEMMA ReqFields ==
  ASSUME Inv, ReqInv, req # NoReq
  PROVE  /\ req.p \in Procs /\ req.p \in alive /\ Copied(req)
         /\ req.g \in Made /\ req.g # 0 /\ req.s \in 0..Slots
         /\ req.hash \in Nat /\ req.retry \in Nat
         /\ req.history \in SUBSET (0..(Masters - 1))
         /\ req.host[1] \in {"first", "failed", "master", "slave", "null"}
<1>1. /\ req.p \in alive /\ Copied(req)
      /\ req.hash \in Nat /\ req.retry \in Nat
      /\ req.history \in SUBSET (0..(Masters - 1))
      /\ req.host[1] \in {"first", "failed", "master", "slave", "null"}
  BY DEF ReqInv, ReqType, ReqShape
<1>2. req.p \in Procs
  BY <1>1 DEF Inv, HasType
<1>3. PICK c \in has[req.p] : c.g = req.g /\ c.s = req.s
  BY <1>1 DEF Copied
<1>4. req.g \in Made /\ req.g # 0 /\ req.s \in 0..Slots
  BY <1>2, <1>3, CopyFields
<1> QED BY <1>1, <1>2, <1>4

(* While the slot is its group's, the request finds the hosts of its group. *)
LEMMA OwnerIs ==
  ASSUME Inv, ReqInv, req # NoReq
  PROVE  /\ \A n : Count(req, n) \in {0, n}
         /\ Right => Owner(req) = req.g /\ \A n : Count(req, n) = n
<1>1. req.g # 0 /\ req.s \in 0..Slots
  BY ReqFields
<1>2. \A n : Count(req, n) \in {0, n}
  BY DEF Count
<1>3. req.s = 0 \/ req.s > 0
  BY <1>1
<1>4. Right => Owner(req) = req.g
  BY <1>3 DEF Right, Owner
<1> QED BY <1>1, <1>2, <1>4 DEF Count

(* The steps of the processes and their group data. *)
LEMMA OtherStep ==
  ASSUME Inv, ReqInv, HostsOnce, UNCHANGED ring,
         \/ req' = NoReq
         \/ /\ UNCHANGED req
            /\ req # NoReq => req.p \in alive' /\ Copied(req)'
  PROVE  ReqInv'
<1>1. CASE req' = NoReq
  BY <1>1 DEF ReqInv, ReqType, ReqShape
<1>2. CASE req' # NoReq
  <2>1. req' = req /\ req # NoReq /\ req.p \in alive' /\ Copied(req)'
    BY <1>2
  <2>2. ReqType'
    BY <2>1 DEF ReqInv, ReqType, ReqShape
  <2>3. Right' => Right
    <3>1. req.g \in Made /\ (req.s > 0 => req.s \in 1..Slots)
      BY <2>1, ReqFields, Constants
    <3> QED BY <2>1, <3>1 DEF Right, HostsOnce
  <2>4. Tries' = Tries
    BY <2>1 DEF Tries
  <2> QED BY <2>1, <2>2, <2>3, <2>4 DEF ReqInv
<1> QED BY <1>1, <1>2

LEMMA ExecuteStep ==
  ASSUME Inv, ReqInv, NEW p \in Workers, NEW c \in has[p], NEW h \in Hashes,
         Execute(p, c, h)
  PROVE  ReqInv'
<1>1. /\ p \in alive /\ UNCHANGED <<alive, has, ring>>
      /\ req' = [p |-> p, g |-> c.g, s |-> c.s, hash |-> h, history |-> {},
                 retry |-> 0, host |-> <<"first">>]
  BY DEF Execute, NoReq
<1>2. h \in Nat
  BY HostsAssumption
<1>3. ReqType'
  <2>1. /\ req'.p = p /\ req'.g = c.g /\ req'.s = c.s /\ req'.hash = h
        /\ req'.history = {} /\ req'.retry = 0 /\ req'.host[1] = "first"
    BY <1>1
  <2>2. req' = [p |-> req'.p, g |-> req'.g, s |-> req'.s, hash |-> req'.hash,
                history |-> req'.history, retry |-> req'.retry, host |-> req'.host]
    BY <1>1
  <2>3. req'.p \in alive' /\ Copied(req)'
    BY <1>1, <2>1 DEF Copied
  <2> QED BY <1>2, <2>1, <2>2, <2>3 DEF ReqType, ReqShape
<1>4. Tries'
  <2>1. req'.host[1] = "first" /\ req'.history = {} /\ req'.retry = 0
    BY <1>1
  <2> QED BY <2>1 DEF Tries
<1> QED BY <1>1, <1>3, <1>4 DEF ReqInv

(* What a step of the request itself changes: history, retry and host.     *)
LEMMA OwnFields ==
  ASSUME ReqInv, req # NoReq, NEW history, NEW retry, NEW host,
         req' = [req EXCEPT !.history = history, !.retry = retry, !.host = host]
  PROVE  /\ req'.p = req.p /\ req'.g = req.g /\ req'.s = req.s /\ req'.hash = req.hash
         /\ req'.history = history /\ req'.retry = retry /\ req'.host = host
         /\ ReqShape'
<1>1. req' = [p |-> req.p, g |-> req.g, s |-> req.s, hash |-> req.hash,
              history |-> history, retry |-> retry, host |-> host]
  BY DEF ReqInv, ReqType, ReqShape
<1>2. /\ req'.p = req.p /\ req'.g = req.g /\ req'.s = req.s /\ req'.hash = req.hash
      /\ req'.history = history /\ req'.retry = retry /\ req'.host = host
  BY <1>1
<1> QED BY <1>1, <1>2 DEF ReqShape

LEMMA OwnStep ==
  ASSUME Inv, ReqInv, req # NoReq, UNCHANGED <<slot, alive, has, ring>>,
         req'.p = req.p, req'.g = req.g, req'.s = req.s, req'.hash = req.hash,
         ReqShape',
         req'.history \in SUBSET (0..(Masters - 1)), req'.retry \in Nat,
         req'.host[1] \in {"first", "failed", "master", "slave", "null"},
         Right => Tries'
  PROVE  ReqInv'
<1>1. req.p \in alive /\ Copied(req) /\ req.hash \in Nat
  BY DEF ReqInv, ReqType, ReqShape
<1>2. Copied(req)'
  BY <1>1 DEF Copied
<1>3. ReqType'
  BY <1>1, <1>2 DEF ReqType, ReqShape
<1>4. Right' = Right
  BY DEF Right
<1> QED BY <1>3, <1>4 DEF ReqInv

LEMMA HistoryFinite ==
  \A H \in SUBSET (0..(Masters - 1)) : IsFiniteSet(H) /\ Cardinality(H) \in Nat
<1>1. IsFiniteSet(0..(Masters - 1))
  <2>1. 0 \in Int /\ Masters - 1 \in Int
    BY HostsAssumption
  <2> QED BY <2>1, FS_Interval
<1> QED BY <1>1, FS_Subset, FS_CardinalityType

LEMMA SelectMasterStep ==
  ASSUME Inv, ReqInv, NEW junk \in Nat, SelectMaster(junk) PROVE ReqInv'
<1> DEFINE cnt == Count(req, Masters)
           m == Master(ring, cnt, req.hash, junk, req.history)
           all == 0..(Masters - 1)
           H == req.history \cup {m}
           host == <<"master", Owner(req), m>>
<1>1. /\ req.host[1] \in {"first", "failed"} /\ m # NoHost
      /\ req' = [req EXCEPT !.host = host, !.history = H]
      /\ UNCHANGED <<slot, alive, has, ring>>
  BY DEF SelectMaster, Selecting, Masterly, provider
<1>2. req # NoReq
  BY <1>1, NoReqHost
<1>3. /\ req.hash \in Nat /\ req.retry \in Nat /\ req.history \in SUBSET all
      /\ Ring(ring)
  BY <1>2, ReqFields DEF ReqInv
<1>4. cnt \in {0, Masters} /\ (Right => cnt = Masters /\ Owner(req) = req.g)
  BY <1>2, OwnerIs
<1>5. /\ Master(ring, 0, req.hash, junk, req.history) = NoHost
      /\ LET x == Master(ring, Masters, req.hash, junk, req.history)
         IN /\ x # NoHost => x \in all /\ x \notin req.history
            /\ x # NoHost /\ req.history = {} =>
                 \E i \in First(ring, req.hash) : x = Node(ring, i).idx
  BY <1>3, MasterIs
<1>6. cnt = Masters /\ m \in all /\ m \notin req.history
  BY <1>1, <1>4, <1>5
<1>7. req.history = {} => \E i \in First(ring, req.hash) : m = Node(ring, i).idx
  BY <1>1, <1>5, <1>6
<1> HIDE DEF m
<1>8. H \in SUBSET all /\ req' = [req EXCEPT !.history = H, !.retry = req.retry, !.host = host]
  <2>1. req = [p |-> req.p, g |-> req.g, s |-> req.s, hash |-> req.hash,
               history |-> req.history, retry |-> req.retry, host |-> req.host]
    BY <1>2 DEF ReqInv, ReqType, ReqShape
  <2> QED BY <1>1, <1>3, <1>6, <2>1
<1>9. host[1] = "master" /\ host[2] = Owner(req) /\ host[3] = m
  OBVIOUS
<1> HIDE DEF H, host
<1>10. ASSUME Right PROVE Tries'
  <2>1. Tries
    BY <1>2, <1>10 DEF ReqInv
  <2>2. req.history # all
    BY <1>6
  <2>3. IsFiniteSet(req.history) /\ Cardinality(req.history) \in Nat
    BY <1>3, HistoryFinite
  <2>4. Cardinality(H) = Cardinality(req.history) + 1
    BY <1>6, <2>3, FS_AddElement DEF H
  <2>5. Cardinality(req.history) = req.retry /\ (req.retry = 0 => req.history = {})
    <3>1. CASE req.host[1] = "first"
      BY <2>1, <3>1, FS_EmptySet DEF Tries
    <3>2. CASE req.host[1] = "failed"
      BY <1>3, <2>1, <2>2, <3>2 DEF Tries
    <3> QED BY <1>1, <3>1, <3>2
  <2>6. /\ req'.host = host /\ req'.history = H /\ req'.retry = req.retry
        /\ req'.g = req.g /\ req'.hash = req.hash
    BY <1>2, <1>8, OwnFields
  <2>7. \A i : Node(ring, i)' = Node(ring, i)
    BY <1>1 DEF Node
  <2>8. First(ring, req.hash)' = First(ring, req.hash)
    BY <1>1, <2>6 DEF First, Node, Size
  <2>9. Owner(req) = req.g
    BY <1>4, <1>10
  <2>10. req'.retry = 0 => \E i \in First(ring, req.hash)' : req'.host[3] = (Node(ring, i).idx)'
    BY <1>7, <1>9, <2>5, <2>6, <2>7, <2>8
  <2>11. req'.host[1] = "master" /\ req'.host[2] = req'.g
         /\ Cardinality(req'.history) = req'.retry + 1
    BY <1>9, <2>4, <2>5, <2>6, <2>9
  <2> QED BY <2>10, <2>11 DEF Tries
<1>11. host[1] \in {"first", "failed", "master", "slave", "null"} /\ (Right => Tries')
  BY <1>9, <1>10
<1>12. /\ req'.p = req.p /\ req'.g = req.g /\ req'.s = req.s /\ req'.hash = req.hash
      /\ req'.history = H /\ req'.retry = req.retry /\ req'.host = host
      /\ ReqShape'
  BY <1>2, <1>8, OwnFields
<1> QED BY <1>1, <1>2, <1>3, <1>8, <1>11, <1>12, OwnStep

LEMMA SelectSlaveStep ==
  ASSUME Inv, ReqInv, NEW fresh \in SUBSET (0..(Slaves - 1)),
         NEW alv \in SUBSET (0..(Slaves - 1)), SelectSlave(fresh, alv)
  PROVE  ReqInv'
<1> DEFINE s == Slave(Count(req, Slaves), req.hash, req.retry, fresh, alv)
           all == 0..(Masters - 1)
           host == IF s = NoHost THEN <<"null", fresh \cup alv>>
                   ELSE <<"slave", Owner(req), s>>
<1>1. /\ req.host[1] \in {"first", "failed"}
      /\ Master(ring, Count(req, Masters), req.hash, 0, req.history) = NoHost
      /\ req' = [req EXCEPT !.host = host]
      /\ UNCHANGED <<slot, alive, has, ring>>
  BY DEF SelectSlave, Selecting, Masterly, provider
<1>2. req # NoReq
  BY <1>1, NoReqHost
<1>3. /\ req.hash \in Nat /\ req.retry \in Nat /\ req.history \in SUBSET all
      /\ Ring(ring)
  BY <1>2, ReqFields DEF ReqInv
<1>4. Right => Count(req, Masters) = Masters /\ Count(req, Slaves) = Slaves
               /\ Owner(req) = req.g
  BY <1>2, OwnerIs
<1>5. Right => req.history = all
  BY <1>1, <1>3, <1>4, MasterIs
<1>6. Right /\ s = NoHost => fresh \cup alv = {}
  BY <1>3, <1>4, SlaveIs
<1>7. host[1] \in {"null", "slave"} /\ (host[1] = "null" => s = NoHost /\ host[2] = fresh \cup alv)
      /\ (host[1] = "slave" => host[2] = Owner(req))
  BY Zenon
<1> HIDE DEF s, host
<1>8. req' = [req EXCEPT !.history = req.history, !.retry = req.retry, !.host = host]
  <2>1. req = [p |-> req.p, g |-> req.g, s |-> req.s, hash |-> req.hash,
               history |-> req.history, retry |-> req.retry, host |-> req.host]
    BY <1>2 DEF ReqInv, ReqType, ReqShape
  <2> QED BY <1>1, <2>1
<1>9. ASSUME Right PROVE Tries'
  <2>1. req'.host = host /\ req'.history = req.history /\ req'.g = req.g
    BY <1>2, <1>8, OwnFields
  <2> QED BY <1>4, <1>5, <1>6, <1>7, <1>9, <2>1 DEF Tries
<1>10. host[1] \in {"first", "failed", "master", "slave", "null"}
  BY <1>7
<1>11. Right => Tries'
  BY <1>9
<1>12. /\ req'.p = req.p /\ req'.g = req.g /\ req'.s = req.s /\ req'.hash = req.hash
      /\ req'.history = req.history /\ req'.retry = req.retry /\ req'.host = host
      /\ ReqShape'
  BY <1>2, <1>8, OwnFields
<1> QED BY <1>1, <1>2, <1>3, <1>10, <1>11, <1>12, OwnStep

LEMMA RetryStep ==
  ASSUME Inv, ReqInv, Retry PROVE ReqInv'
<1> DEFINE n == req.retry + 1
           host == <<"failed">>
<1>1. /\ req.host[1] \in {"master", "slave"}
      /\ req' = [req EXCEPT !.retry = n, !.host = host]
      /\ UNCHANGED <<slot, alive, has, ring>>
  BY DEF Retry, provider
<1>2. req # NoReq
  BY <1>1, NoReqHost
<1>3. req.retry \in Nat /\ req.history \in SUBSET (0..(Masters - 1))
  BY <1>2, ReqFields
<1>4. n \in Nat /\ n > 0 /\ host[1] = "failed"
  BY <1>3
<1>5. req' = [req EXCEPT !.history = req.history, !.retry = n, !.host = host]
  <2>1. req = [p |-> req.p, g |-> req.g, s |-> req.s, hash |-> req.hash,
               history |-> req.history, retry |-> req.retry, host |-> req.host]
    BY <1>2 DEF ReqInv, ReqType, ReqShape
  <2> HIDE DEF n
  <2> QED BY <1>1, <2>1
<1>6. ASSUME Right PROVE Tries'
  <2>1. Tries
    BY <1>2, <1>6 DEF ReqInv
  <2>2. req'.host = host /\ req'.history = req.history /\ req'.retry = n
    <3> HIDE DEF n, host
    <3> QED BY <1>2, <1>5, OwnFields
  <2>3. req.history = 0..(Masters - 1) \/ Cardinality(req.history) = n
    BY <1>1, <2>1 DEF Tries
  <2> HIDE DEF n, host
  <2> QED BY <1>4, <2>2, <2>3 DEF Tries
<1>7. host[1] \in {"first", "failed", "master", "slave", "null"} /\ (Right => Tries')
  BY <1>4, <1>6
<1> HIDE DEF n, host
<1>8. /\ req'.p = req.p /\ req'.g = req.g /\ req'.s = req.s /\ req'.hash = req.hash
      /\ req'.history = req.history /\ req'.retry = n /\ req'.host = host
      /\ ReqShape'
  BY <1>2, <1>5, OwnFields
<1> QED BY <1>1, <1>2, <1>3, <1>4, <1>7, <1>8, OwnStep
LEMMA JunkNat ==
  ASSUME Inv, ReqInv, NEW junk \in Junk PROVE junk \in Nat
<1>1. req.hash \in Nat
  <2>1. CASE req = NoReq
    BY <2>1 DEF NoReq
  <2> QED BY <2>1, ReqFields
<1> QED BY <1>1 DEF Junk

LEMMA ReqStep ==
  ASSUME Inv, ReqInv, [Next]_vars PROVE ReqInv'
<1>0. HostsOnce
  BY InvStep
<1>1. req # NoReq => req.p \in Procs /\ req.p \in alive /\ Copied(req)
  BY ReqFields
<1>2. ASSUME UNCHANGED <<ring, req>>,
             \A p \in Procs : p \in alive /\ req.p = p => p \in alive' /\ has[p] \subseteq has'[p]
      PROVE  ReqInv'
  <2>1. req # NoReq => req.p \in alive' /\ Copied(req)'
    BY <1>1, <1>2 DEF Copied
  <2> QED BY <1>0, <1>2, <2>1, OtherStep
<1>3. has \in [Procs -> SUBSET CopyRec]
  BY DEF Inv, HasType
<1>4. ASSUME NEW p \in Procs, CreateOwn(p) PROVE ReqInv'
  <2>1. \A q \in Procs : has[q] \subseteq has'[q]
    BY <1>3, <1>4 DEF CreateOwn
  <2> QED BY <1>2, <1>4, <2>1 DEF CreateOwn
<1>5. ASSUME NEW p \in {Boss, Monitor}, Create(p) PROVE ReqInv'
  BY <1>2, <1>5 DEF Create
<1>6. CASE NextIndex \/ WrapIndex \/ TestIndex \/ CreateIndex \/ Reset \/ ReleaseLast
  BY <1>2, <1>6 DEF NextIndex, WrapIndex, TestIndex, CreateIndex, Reset, ReleaseLast
<1>7. CASE CreateGroup
  <2>1. \A q \in Procs : has[q] \subseteq has'[q]
    BY <1>3, <1>7 DEF CreateGroup
  <2> QED BY <1>2, <1>7, <2>1 DEF CreateGroup
<1>8. ASSUME NEW p \in Procs, NEW d \in has[p], Release(p, d) PROVE ReqInv'
  <2>1. /\ ~(req.p = p /\ req.g = d.g) /\ UNCHANGED <<alive, ring, req>>
        /\ has' = [has EXCEPT ![p] = @ \ {d}]
    BY <1>8 DEF Release
  <2>2. ASSUME req # NoReq PROVE req.p \in alive' /\ Copied(req)'
    <3>1. PICK c \in has[req.p] : c.g = req.g /\ c.s = req.s
      BY <1>1, <2>2 DEF Copied
    <3>2. c \in has'[req.p]
      BY <1>1, <1>3, <2>1, <2>2, <3>1
    <3> QED BY <1>1, <2>1, <2>2, <3>1, <3>2 DEF Copied
  <2> QED BY <1>0, <2>1, <2>2, OtherStep
<1>10. ASSUME NEW p \in Children, Fork(p) PROVE ReqInv'
  <2>1. \A q \in Procs : q \in alive => q \in alive' /\ has[q] \subseteq has'[q]
    BY <1>3, <1>10 DEF Fork
  <2> QED BY <1>2, <1>10, <2>1 DEF Fork
<1>11. ASSUME NEW p \in Procs, Die(p) PROVE ReqInv'
  <2>1. /\ alive' = alive \ {p} /\ has' = [has EXCEPT ![p] = {}]
        /\ req' = IF req.p = p THEN NoReq ELSE req
        /\ UNCHANGED ring
    BY <1>11 DEF Die
  <2>2. CASE req.p = p
    BY <1>0, <2>1, <2>2, OtherStep
  <2>3. CASE req.p # p
    <3>1. req # NoReq => req.p \in alive' /\ has'[req.p] = has[req.p]
      BY <1>1, <1>3, <2>1, <2>3
    <3>2. req # NoReq => Copied(req)'
      BY <1>1, <2>1, <2>3, <3>1 DEF Copied
    <3> QED BY <1>0, <2>1, <2>3, <3>1, <3>2, OtherStep
  <2> QED BY <2>2, <2>3
<1>12. ASSUME NEW p \in Workers, NEW d \in has[p], NEW h \in Hashes, Execute(p, d, h)
       PROVE  ReqInv'
  BY <1>12, ExecuteStep
<1>13. ASSUME NEW junk \in Junk, SelectMaster(junk) PROVE ReqInv'
  BY <1>13, JunkNat, SelectMasterStep
<1>14. ASSUME NEW fresh \in SUBSET (0..(Slaves - 1)), NEW alv \in SUBSET (0..(Slaves - 1)),
              SelectSlave(fresh, alv)
       PROVE  ReqInv'
  BY <1>14, SelectSlaveStep
<1>15. CASE Retry
  BY <1>15, RetryStep
<1>16. CASE Finish
  <2>1. req' = NoReq /\ UNCHANGED ring
    BY <1>16 DEF Finish
  <2> QED BY <1>0, <2>1, OtherStep
<1>17. CASE UNCHANGED vars
  BY <1>2, <1>17 DEF vars
<1> QED
  BY <1>4, <1>5, <1>6, <1>7, <1>8, <1>10, <1>11, <1>12, <1>13, <1>14, <1>15, <1>16,
     <1>17 DEF Next

LEMMA ReqInit == Init => ReqInv
<1> SUFFICES ASSUME Init PROVE ReqInv
  OBVIOUS
<1>1. Ring(ring)
  BY HashInitRing DEF Init
<1> QED BY <1>1 DEF Init, ReqInv, ReqType, ReqShape

LEMMA ReqRight == Inv /\ ReqInv => SelectRight
<1> SUFFICES ASSUME Inv, ReqInv, req # NoReq, Right, Tries
             PROVE  SelectRight
  BY DEF ReqInv, Right, SelectRight
<1> QED BY DEF Tries, SelectRight, First

(* Every downstream request gets each master of its group once, first that *)
(* of the node its hash falls on, and a slave or no host only after all of *)
(* them, for every number of masters and slaves and every set of virtual   *)
(* nodes (HostGroup::HashInit, GetHashIdx, GetHost), whatever other        *)
(* processes do to the shared group data meanwhile, as long as the slot is *)
(* its group's.                                                            *)
THEOREM SelectRightAlways == Spec => []SelectRight
<1>1. Inv /\ ReqInv /\ [Next]_vars => (Inv /\ ReqInv)'
  BY InvStep, ReqStep
<1>2. Spec => [](Inv /\ ReqInv)
  BY <1>1, InvInit, ReqInit, PTL DEF Spec
<1> QED BY <1>2, ReqRight, PTL
=============================================================================
