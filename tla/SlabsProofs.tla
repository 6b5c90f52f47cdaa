---------------------------- MODULE SlabsProofs -----------------------------
(***************************************************************************)
(* Proofs about Slabs and the segment of ShMem: for every size of segment, *)
(* headers, classes and requests, and after every sequence of allocations, *)
(* splits and releases, the segment is a row of storages that its lists    *)
(* and statistics describe, every chunk has one owner, and an allocation   *)
(* fails only if there is no room.                                         *)
(*                                                                         *)
(* Each operation is a function of a segment g or of a pair s of segment   *)
(* and manager; a lemma XIs says what X returns for every g (Seg) or s     *)
(* (Own).  The recursive functions of the model are followed with least    *)
(* counterexamples (LeastNat): IsLog, IsRaw, IsSearch, IsRec and IsObtain  *)
(* say that f is the function the model chooses.                           *)
(***************************************************************************)
EXTENDS Slabs, FiniteSetTheorems, WellFoundedInduction, TLAPS

-----------------------------------------------------------------------------
(* Sequences. *)

(* A set of naturals has a least element. *)
LEMMA LeastNat ==
  ASSUME NEW T \in SUBSET Nat, T # {}
  PROVE  \E x \in T : \A y \in T : x <= y
<1>1. PICK x \in T : \A y \in T : <<y, x>> \notin OpToRel(<, Nat)
  BY NatLessThanWellFounded, WFMin
<1>2. \A y \in T : ~(y < x)
  BY <1>1 DEF OpToRel
<1> QED BY <1>2

LEMMA MinIs ==
  ASSUME NEW I \in SUBSET Nat, I # {}
  PROVE  Min(I) \in I /\ \A j \in I : Min(I) <= j
<1>1. \E x \in I : \A y \in I : x <= y
  BY LeastNat
<1> QED BY <1>1 DEF Min

(* The smaller of two numbers. *)
LEMMA MinPair ==
  ASSUME NEW x \in Int, NEW y \in Int
  PROVE  Min({x, y}) = IF x <= y THEN x ELSE y
<1>1. CASE x <= y
  <2>1. x \in {x, y} /\ \A z \in {x, y} : x <= z
    BY <1>1
  <2>2. \A z \in {x, y} : (\A w \in {x, y} : z <= w) => z = x
    BY <1>1
  <2> QED BY <1>1, <2>1, <2>2 DEF Min
<1>2. CASE ~(x <= y)
  <2>1. y \in {x, y} /\ \A z \in {x, y} : y <= z
    BY <1>2
  <2>2. \A z \in {x, y} : (\A w \in {x, y} : z <= w) => z = y
    BY <1>2
  <2> QED BY <1>2, <2>1, <2>2 DEF Min
<1> QED BY <1>1, <1>2

(* s has the members of T, each once; s has them in order. *)
Once(s, T) ==
  /\ s \in Seq(Nat) /\ T = {s[i] : i \in 1..Len(s)}
  /\ \A i, j \in 1..Len(s) : s[i] = s[j] => i = j
Enum(s, T) ==
  /\ s \in Seq(Nat) /\ T = {s[i] : i \in 1..Len(s)}
  /\ \A i, j \in 1..Len(s) : i < j => s[i] < s[j]

LEMMA EnumOnce ==
  ASSUME NEW s, NEW T, Enum(s, T) PROVE Once(s, T)
<1>1. \A i \in 1..Len(s) : s[i] \in Nat
  BY DEF Enum
<1> QED BY <1>1 DEF Enum, Once

LEMMA OnceSet ==
  ASSUME NEW s, NEW T, Once(s, T)
  PROVE  ToSet(s) = T /\ IsInjective(s) /\ DOMAIN s = 1..Len(s) /\ Len(s) \in Nat
         /\ (s = <<>> <=> T = {})
<1>1. DOMAIN s = 1..Len(s) /\ Len(s) \in Nat
  BY DEF Once
<1>2. ToSet(s) = T
  BY <1>1 DEF ToSet, Once
<1>3. IsInjective(s)
  BY <1>1 DEF IsInjective, Once
<1>4. s = <<>> => T = {}
  BY DEF Once
<1>5. s # <<>> => T # {}
  <2> SUFFICES ASSUME s # <<>> PROVE T # {}
    OBVIOUS
  <2>1. Len(s) # 0
    BY DEF Once
  <2>2. 1 \in 1..Len(s)
    BY <1>1, <2>1
  <2>3. T = {s[i] : i \in 1..Len(s)}
    BY DEF Once
  <2>4. s[1] \in {s[i] : i \in 1..Len(s)}
    BY <2>2
  <2> QED BY <2>3, <2>4
<1> QED BY <1>1, <1>2, <1>3, <1>4, <1>5

(* The place of a member. *)
Place(s, e) == SelectInSeq(s, LAMBDA v : v = e)

LEMMA PlaceIs ==
  ASSUME NEW s, NEW T, Once(s, T), NEW e \in T
  PROVE  Place(s, e) \in 1..Len(s) /\ s[Place(s, e)] = e
<1>1. PICK k \in 1..Len(s) : s[k] = e
  BY DEF Once
<1> DEFINE I == {i \in 1..Len(s) : s[i] = e}
<1>2. I = {k}
  BY <1>1 DEF Once
<1>3. Min({k}) = k
  <2>1. k \in Int
    BY DEF Once
  <2>2. {k, k} = {k}
    OBVIOUS
  <2> QED BY <2>1, <2>2, MinPair
<1>4. Place(s, e) = IF I # {} THEN Min(I) ELSE 0
  BY DEF SelectInSeq, Place
<1> HIDE DEF I
<1> QED BY <1>1, <1>2, <1>3, <1>4

LEMMA RemoveAtIs ==
  ASSUME NEW s \in Seq(Nat), NEW k \in 1..Len(s)
  PROVE  /\ RemoveAt(s, k) \in Seq(Nat) /\ Len(RemoveAt(s, k)) = Len(s) - 1
         /\ \A i \in 1..(Len(s) - 1) : RemoveAt(s, k)[i] = IF i < k THEN s[i] ELSE s[i + 1]
<1>0. k \in Nat /\ Len(s) \in Nat /\ k <= Len(s)
  OBVIOUS
<1> DEFINE x == SubSeq(s, 1, k - 1)
           y == SubSeq(s, k + 1, Len(s))
<1>1. /\ x \in Seq(Nat) /\ Len(x) = k - 1
      /\ \A i \in 1..(k - 1) : x[i] = s[i]
  OBVIOUS
<1>2. /\ y \in Seq(Nat) /\ Len(y) = Len(s) - k
      /\ \A i \in 1..(Len(s) - k) : y[i] = s[k + i]
  <2>1. CASE k = Len(s)
    BY <2>1
  <2>2. CASE k < Len(s)
    <3>1. y \in Seq(Nat)
      BY <2>2
    <3>2. Len(y) = Len(s) - k
      BY <2>2
    <3>3. ASSUME NEW i \in 1..(Len(s) - k) PROVE y[i] = s[k + i]
      <4>1. i \in 1..(Len(s) - (k + 1) + 1) /\ (k + 1) + i - 1 = k + i
        BY <1>0
      <4>2. y[i] = s[(k + 1) + i - 1]
        BY <2>2, <4>1
      <4> QED BY <4>1, <4>2
    <3> QED BY <3>1, <3>2, <3>3
  <2> QED BY <1>0, <2>1, <2>2
<1> HIDE DEF x, y
<1>3. /\ x \o y \in Seq(Nat) /\ Len(x \o y) = Len(s) - 1
      /\ \A i \in 1..(Len(s) - 1) : (x \o y)[i] = IF i <= k - 1 THEN x[i] ELSE y[i - (k - 1)]
  <2>1. Len(x) + Len(y) = Len(s) - 1
    BY <1>0, <1>1, <1>2
  <2>2. x \in Seq(Nat) /\ y \in Seq(Nat)
    BY <1>1, <1>2
  <2>3. /\ x \o y \in Seq(Nat) /\ Len(x \o y) = Len(x) + Len(y)
        /\ \A i \in 1..(Len(x) + Len(y)) :
             (x \o y)[i] = IF i <= Len(x) THEN x[i] ELSE y[i - Len(x)]
    BY <2>2
  <2> QED BY <1>1, <2>1, <2>3
<1>4. ASSUME NEW i \in 1..(Len(s) - 1)
      PROVE  (x \o y)[i] = IF i < k THEN s[i] ELSE s[i + 1]
  <2>1. CASE i < k
    BY <1>0, <1>1, <1>3, <2>1
  <2>2. CASE ~(i < k)
    <3>1. i - (k - 1) \in 1..(Len(s) - k) /\ k + (i - (k - 1)) = i + 1 /\ ~(i <= k - 1)
      BY <1>0, <2>2
    <3> QED BY <1>2, <1>3, <2>2, <3>1
  <2> QED BY <2>1, <2>2
<1> QED BY <1>3, <1>4 DEF RemoveAt, x, y

(* A member is taken out. *)
LEMMA RemoveIs ==
  ASSUME NEW s, NEW T, Once(s, T), NEW e \in T
  PROVE  \E k \in 1..Len(s) :
           /\ s[k] = e
           /\ RemoveFirst(s, e) \in Seq(Nat) /\ Len(RemoveFirst(s, e)) = Len(s) - 1
           /\ \A i \in 1..(Len(s) - 1) :
                RemoveFirst(s, e)[i] = IF i < k THEN s[i] ELSE s[i + 1]
<1> DEFINE k == Place(s, e)
<1>1. k \in 1..Len(s) /\ s[k] = e
  BY PlaceIs
<1>2. RemoveFirst(s, e) = RemoveAt(s, k)
  BY <1>1 DEF RemoveFirst, Place
<1>3. s \in Seq(Nat)
  BY DEF Once
<1> HIDE DEF k
<1> QED BY <1>1, <1>2, <1>3, RemoveAtIs

LEMMA OnceRemove ==
  ASSUME NEW s, NEW T, Once(s, T), NEW e \in T
  PROVE  Once(RemoveFirst(s, e), T \ {e})
<1> DEFINE r == RemoveFirst(s, e)
<1>1. PICK k \in 1..Len(s) :
        /\ s[k] = e /\ r \in Seq(Nat) /\ Len(r) = Len(s) - 1
        /\ \A i \in 1..(Len(s) - 1) : r[i] = IF i < k THEN s[i] ELSE s[i + 1]
  BY RemoveIs
<1>2. /\ s \in Seq(Nat) /\ Len(s) \in Nat /\ T = {s[i] : i \in 1..Len(s)}
      /\ \A i, j \in 1..Len(s) : s[i] = s[j] => i = j
  BY DEF Once
<1> HIDE DEF r
<1> DEFINE from(i) == IF i < k THEN i ELSE i + 1
           len == Len(s)
<1>0. len \in Nat /\ k \in 1..len /\ Len(r) = len - 1
  BY <1>1, <1>2
<1>3. \A i \in 1..Len(r) : from(i) \in 1..Len(s) /\ from(i) # k /\ r[i] = s[from(i)]
  <2> TAKE i \in 1..Len(r)
  <2>1. i \in 1..(Len(s) - 1)
    BY <1>0
  <2>2. r[i] = s[from(i)]
    BY <1>1, <2>1
  <2>3. from(i) \in 1..len /\ from(i) # k
    <3> HIDE DEF len
    <3> QED BY <1>0
  <2> QED BY <2>2, <2>3
<1>4. \A i, j \in 1..Len(r) : from(i) = from(j) => i = j
  <2> HIDE DEF len
  <2> QED BY <1>0
<1>5. \A l \in 1..Len(s) : l # k => \E i \in 1..Len(r) : from(i) = l
  <2> TAKE l \in 1..Len(s)
  <2> HAVE l # k
  <2>1. CASE l < k
    <3>1. l \in 1..Len(r) /\ from(l) = l
      BY <1>1, <1>2, <2>1
    <3> QED BY <3>1
  <2>2. CASE l > k
    <3>1. l - 1 \in 1..Len(r) /\ from(l - 1) = l
      BY <1>1, <1>2, <2>2
    <3> QED BY <3>1
  <2> QED BY <1>1, <1>2, <2>1, <2>2
<1> HIDE DEF from
<1>6. \A i, j \in 1..Len(r) : r[i] = r[j] => i = j
  BY <1>2, <1>3, <1>4
<1>7. T \ {e} = {r[i] : i \in 1..Len(r)}
  <2>1. \A i \in 1..Len(r) : r[i] \in T \ {e}
    <3> TAKE i \in 1..Len(r)
    <3>1. PICK l \in 1..Len(s) : l # k /\ r[i] = s[l]
      BY <1>3
    <3> QED BY <1>1, <1>2, <3>1
  <2>2. \A x \in T \ {e} : \E i \in 1..Len(r) : r[i] = x
    <3> TAKE x \in T \ {e}
    <3>1. PICK l \in 1..Len(s) : s[l] = x
      BY <1>2
    <3>2. PICK i \in 1..Len(r) : from(i) = l
      BY <1>1, <1>5, <3>1
    <3> QED BY <1>3, <3>1, <3>2
  <2> QED BY <2>1, <2>2
<1> QED BY <1>1, <1>6, <1>7 DEF Once, r

LEMMA EnumRemove ==
  ASSUME NEW s, NEW T, Enum(s, T), NEW e \in T
  PROVE  /\ Enum(RemoveFirst(s, e), T \ {e}) /\ Len(RemoveFirst(s, e)) = Len(s) - 1
         /\ \A i \in 1..(Len(s) - 1) : s[i] < e => RemoveFirst(s, e)[i] = s[i]
<1> DEFINE r == RemoveFirst(s, e)
<1>0. Once(s, T)
  BY EnumOnce
<1>1. PICK k \in 1..Len(s) :
        /\ s[k] = e /\ r \in Seq(Nat) /\ Len(r) = Len(s) - 1
        /\ \A i \in 1..(Len(s) - 1) : r[i] = IF i < k THEN s[i] ELSE s[i + 1]
  BY <1>0, RemoveIs
<1>2. Once(r, T \ {e})
  BY <1>0, OnceRemove
<1>3. /\ s \in Seq(Nat) /\ Len(s) \in Nat /\ \A i \in 1..Len(s) : s[i] \in Nat
      /\ \A i, j \in 1..Len(s) : i < j => s[i] < s[j]
  <2>1. s \in Seq(Nat) /\ \A i, j \in 1..Len(s) : i < j => s[i] < s[j]
    BY DEF Enum
  <2>2. Len(s) \in Nat /\ \A i \in 1..Len(s) : s[i] \in Nat
    BY <2>1
  <2> QED BY <2>1, <2>2
<1> HIDE DEF r
<1>4. ASSUME NEW i \in 1..Len(r), NEW j \in 1..Len(r), i < j PROVE r[i] < r[j]
  <2> DEFINE len == Len(s)
  <2>0. len \in Nat /\ Len(r) = len - 1
    BY <1>1, <1>3
  <2>1. i \in 1..len /\ i + 1 \in 1..len /\ j \in 1..len /\ j + 1 \in 1..len
        /\ i < j + 1 /\ i + 1 < j + 1
    <3> HIDE DEF len
    <3> QED BY <1>4, <2>0
  <2>2. s[i] < s[j] /\ s[i] < s[j + 1] /\ s[i + 1] < s[j + 1]
    BY <1>3, <1>4, <2>1
  <2>3. i < k \/ ~(j < k)
    BY <1>3, <1>4
  <2>4. r[i] = (IF i < k THEN s[i] ELSE s[i + 1]) /\ r[j] = IF j < k THEN s[j] ELSE s[j + 1]
    BY <1>1
  <2> QED BY <2>2, <2>3, <2>4
<1>5. \A i \in 1..(Len(s) - 1) : s[i] < e => r[i] = s[i]
  <2> TAKE i \in 1..(Len(s) - 1)
  <2> HAVE s[i] < e
  <2>1. i < k
    <3> SUFFICES ASSUME ~(i < k) PROVE FALSE
      OBVIOUS
    <3>1. i = k \/ k < i
      BY <1>3
    <3>2. i \in 1..Len(s)
      BY <1>3
    <3>3. s[k] <= s[i]
      BY <1>3, <3>1, <3>2
    <3>4. s[k] = e /\ s[k] \in Nat
      BY <1>1, <1>3
    <3>5. s[i] \in Nat
      BY <1>3, <3>2
    <3> QED BY <3>3, <3>4, <3>5
  <2> QED BY <1>1, <2>1
<1> QED BY <1>1, <1>2, <1>4, <1>5 DEF Once, Enum, r

LEMMA OnceCons ==
  ASSUME NEW s, NEW T, Once(s, T), NEW e \in Nat, e \notin T
  PROVE  Once(<<e>> \o s, T \cup {e}) /\ <<e>> \o s # <<>>
<1> DEFINE r == <<e>> \o s
<1>1. /\ s \in Seq(Nat) /\ Len(s) \in Nat /\ T = {s[i] : i \in 1..Len(s)}
      /\ \A i, j \in 1..Len(s) : s[i] = s[j] => i = j
  BY DEF Once
<1>2. /\ r \in Seq(Nat) /\ Len(r) = Len(s) + 1 /\ r[1] = e
      /\ \A i \in 2..Len(r) : r[i] = s[i - 1]
  BY <1>1
<1> HIDE DEF r
<1>3. \A i \in 2..Len(r) : i - 1 \in 1..Len(s) /\ r[i] \in T /\ r[i] # e
  <2> TAKE i \in 2..Len(r)
  <2>1. i - 1 \in 1..Len(s)
    BY <1>1, <1>2
  <2> QED BY <1>1, <1>2, <2>1
<1>4. \A i \in 1..Len(r) : i = 1 \/ i \in 2..Len(r)
  BY <1>1, <1>2
<1>5. ASSUME NEW i \in 1..Len(r), NEW j \in 1..Len(r), r[i] = r[j] PROVE i = j
  <2>1. CASE i = 1 \/ j = 1
    BY <1>2, <1>3, <1>4, <1>5, <2>1
  <2>2. CASE i \in 2..Len(r) /\ j \in 2..Len(r)
    <3>1. i - 1 = j - 1
      <4>1. i - 1 \in 1..Len(s) /\ j - 1 \in 1..Len(s) /\ s[i - 1] = s[j - 1]
        BY <1>2, <1>3, <1>5, <2>2
      <4> QED BY <1>1, <4>1
    <3> QED BY <1>1, <1>2, <3>1
  <2> QED BY <1>4, <2>1, <2>2
<1>6. \A l \in 1..Len(s) : l + 1 \in 2..Len(r) /\ (l + 1) - 1 = l /\ l + 1 \in 1..Len(r)
  BY <1>1, <1>2
<1>7. T \cup {e} = {r[i] : i \in 1..Len(r)}
  <2>1. \A x \in T : \E i \in 1..Len(r) : r[i] = x
    <3> TAKE x \in T
    <3>1. PICK l \in 1..Len(s) : s[l] = x
      BY <1>1
    <3>2. r[l + 1] = x /\ l + 1 \in 1..Len(r)
      BY <1>2, <1>6, <3>1
    <3> QED BY <3>2
  <2>2. 1 \in 1..Len(r)
    BY <1>1, <1>2
  <2> QED BY <1>2, <1>3, <1>4, <2>1, <2>2
<1>8. r # <<>>
  BY <1>1, <1>2
<1> QED BY <1>2, <1>5, <1>7, <1>8 DEF Once, r

LEMMA OnceTail ==
  ASSUME NEW s, NEW T, Once(s, T), s # <<>>
  PROVE  Head(s) \in T /\ Once(Tail(s), T \ {Head(s)})
<1>1. /\ s \in Seq(Nat) /\ Len(s) \in Nat /\ T = {s[i] : i \in 1..Len(s)}
      /\ \A i, j \in 1..Len(s) : s[i] = s[j] => i = j
  BY DEF Once
<1>2. Len(s) > 0 /\ Head(s) = s[1]
  BY <1>1
<1> DEFINE r == Tail(s)
<1>3. /\ r \in Seq(Nat) /\ Len(r) = Len(s) - 1
      /\ \A i \in 1..Len(r) : r[i] = s[i + 1]
  BY <1>1, <1>2
<1> HIDE DEF r
<1>4. \A i \in 1..Len(r) : i + 1 \in 1..Len(s) /\ i + 1 # 1
  BY <1>1, <1>3
<1>5. \A l \in 1..Len(s) : l # 1 => l - 1 \in 1..Len(r) /\ (l - 1) + 1 = l
  BY <1>1, <1>3
<1>6. 1 \in 1..Len(s)
  BY <1>1, <1>2
<1>7. \A i, j \in 1..Len(r) : r[i] = r[j] => i = j
  <2> TAKE i, j \in 1..Len(r)
  <2> HAVE r[i] = r[j]
  <2>1. i + 1 = j + 1
    BY <1>1, <1>3, <1>4
  <2> QED BY <1>1, <1>3, <2>1
<1>8. T \ {s[1]} = {r[i] : i \in 1..Len(r)}
  <2>1. \A x \in T \ {s[1]} : \E i \in 1..Len(r) : r[i] = x
    <3> TAKE x \in T \ {s[1]}
    <3>1. PICK l \in 1..Len(s) : s[l] = x
      BY <1>1
    <3>2. l - 1 \in 1..Len(r) /\ r[l - 1] = x
      BY <1>3, <1>5, <3>1
    <3> QED BY <3>2
  <2>2. \A i \in 1..Len(r) : r[i] \in T \ {s[1]}
    <3> TAKE i \in 1..Len(r)
    <3>1. i + 1 \in 1..Len(s) /\ i + 1 # 1 /\ r[i] = s[i + 1]
      BY <1>3, <1>4
    <3> QED BY <1>1, <1>6, <3>1
  <2> QED BY <2>1, <2>2
<1> QED BY <1>1, <1>2, <1>3, <1>6, <1>7, <1>8 DEF Once, r

Inserted(r, s, p, e) ==
  /\ r \in Seq(Nat) /\ Len(r) = Len(s) + 1
  /\ \A i \in 1..(Len(s) + 1) :
       r[i] = IF i < p THEN s[i] ELSE IF i = p THEN e ELSE s[i - 1]

LEMMA InsertAtIs ==
  ASSUME NEW s \in Seq(Nat), NEW e \in Nat, NEW p \in 1..(Len(s) + 1)
  PROVE  Inserted(InsertAt(s, p, e), s, p, e)
<1>0. p \in Nat /\ Len(s) \in Nat
  OBVIOUS
<1> DEFINE x == SubSeq(s, 1, p - 1)
           y == SubSeq(s, p, Len(s))
<1>1. /\ x \in Seq(Nat) /\ Len(x) = p - 1
      /\ \A i \in 1..(p - 1) : x[i] = s[i]
  OBVIOUS
<1>2. /\ y \in Seq(Nat) /\ Len(y) = Len(s) - p + 1
      /\ \A i \in 1..(Len(s) - p + 1) : y[i] = s[p + i - 1]
  OBVIOUS
<1> HIDE DEF x, y
<1> DEFINE z == x \o <<e>>
<1>3. /\ z \in Seq(Nat) /\ Len(z) = p
      /\ \A i \in 1..p : z[i] = IF i < p THEN s[i] ELSE e
  BY <1>1
<1> HIDE DEF z
<1>4. /\ z \o y \in Seq(Nat) /\ Len(z \o y) = Len(s) + 1
      /\ \A i \in 1..(Len(s) + 1) : (z \o y)[i] = IF i <= p THEN z[i] ELSE y[i - p]
  <2>1. Len(z) + Len(y) = Len(s) + 1 /\ Len(z) = p
    BY <1>0, <1>2, <1>3
  <2>2. z \in Seq(Nat) /\ y \in Seq(Nat)
    BY <1>2, <1>3
  <2>3. /\ z \o y \in Seq(Nat) /\ Len(z \o y) = Len(z) + Len(y)
        /\ \A i \in 1..(Len(z) + Len(y)) :
             (z \o y)[i] = IF i <= Len(z) THEN z[i] ELSE y[i - Len(z)]
    BY <2>2
  <2> QED BY <2>1, <2>3
<1>5. \A i \in 1..(Len(s) + 1) :
        (z \o y)[i] = IF i < p THEN s[i] ELSE IF i = p THEN e ELSE s[i - 1]
  <2> TAKE i \in 1..(Len(s) + 1)
  <2>0. i <= p \/ i > p
    BY <1>0
  <2>1. CASE i <= p
    BY <1>3, <1>4, <2>1
  <2>2. CASE i > p
    <3>1. i - p \in 1..(Len(s) - p + 1) /\ p + (i - p) - 1 = i - 1
      BY <2>2
    <3>2. y[i - p] = s[i - 1]
      BY <1>2, <3>1
    <3>3. ~(i <= p) /\ ~(i < p) /\ i # p
      BY <1>0, <2>2
    <3>4. (z \o y)[i] = y[i - p]
      BY <1>4, <3>3
    <3> QED BY <3>2, <3>3, <3>4
  <2> QED BY <2>0, <2>1, <2>2
<1>6. InsertAt(s, p, e) = z \o y
  BY DEF InsertAt, x, y, z
<1>7. Inserted(z \o y, s, p, e)
  BY <1>4, <1>5 DEF Inserted
<1> QED BY <1>6, <1>7

(* A new member goes where it belongs. *)
LEMMA EnumInsert ==
  ASSUME NEW s, NEW T, Enum(s, T), NEW e \in Nat, NEW p \in 1..(Len(s) + 1),
         \A i \in 1..Len(s) : i < p <=> s[i] < e, e \notin T
  PROVE  Enum(InsertAt(s, p, e), T \cup {e}) /\ Len(InsertAt(s, p, e)) = Len(s) + 1
<1> DEFINE r == InsertAt(s, p, e)
<1>1. /\ s \in Seq(Nat) /\ T = {s[i] : i \in 1..Len(s)}
      /\ \A i, j \in 1..Len(s) : i < j => s[i] < s[j]
  BY DEF Enum
<1>2. Len(s) \in Nat /\ \A i \in 1..Len(s) : s[i] \in Nat
  BY <1>1
<1>0. Inserted(InsertAt(s, p, e), s, p, e)
  BY <1>1, InsertAtIs
<1>3. /\ r \in Seq(Nat) /\ Len(r) = Len(s) + 1
      /\ \A i \in 1..(Len(s) + 1) :
           r[i] = IF i < p THEN s[i] ELSE IF i = p THEN e ELSE s[i - 1]
  BY <1>0 DEF Inserted
<1> HIDE DEF r
<1>4. \A i \in 1..Len(r) : \/ i < p /\ i \in 1..Len(s) /\ r[i] = s[i] /\ s[i] < e
                           \/ i = p /\ r[i] = e
                           \/ i > p /\ i - 1 \in 1..Len(s) /\ r[i] = s[i - 1] /\ e < s[i - 1]
  <2> TAKE i \in 1..Len(r)
  <2>1. CASE i < p
    <3>1. i \in 1..Len(s)
      BY <1>2, <1>3, <2>1
    <3> QED BY <1>3, <2>1, <3>1
  <2>2. CASE i = p
    BY <1>3, <2>2
  <2>3. CASE i > p
    <3>1. i - 1 \in 1..Len(s) /\ ~(i - 1 < p) /\ ~(i < p) /\ i # p
      BY <1>2, <1>3, <2>3
    <3>2. r[i] = s[i - 1] /\ ~(s[i - 1] < e)
      BY <1>3, <3>1
    <3>3. s[i - 1] # e /\ s[i - 1] \in Nat
      BY <1>1, <1>2, <3>1
    <3> QED BY <2>3, <3>1, <3>2, <3>3
  <2> QED BY <1>3, <2>1, <2>2, <2>3
<1>5. ASSUME NEW i \in 1..Len(r), NEW j \in 1..Len(r), i < j PROVE r[i] < r[j]
  <2>1. CASE j < p
    <3>1. i < p
      BY <1>3, <1>5, <2>1
    <3>2. i \in 1..Len(s) /\ r[i] = s[i] /\ j \in 1..Len(s) /\ r[j] = s[j]
      BY <1>3, <1>4, <2>1, <3>1
    <3> QED BY <1>1, <1>5, <3>2
  <2>2. CASE j = p
    <3>1. i < p /\ i # p /\ ~(i > p)
      BY <1>3, <1>5, <2>2
    <3>2. r[i] = s[i] /\ s[i] < e
      BY <1>4, <3>1
    <3>3. r[j] = e
      BY <1>3, <2>2
    <3> QED BY <3>2, <3>3
  <2>3. CASE j > p
    <3>1. j - 1 \in 1..Len(s) /\ r[j] = s[j - 1] /\ e < s[j - 1]
      BY <1>4, <2>3, <1>2, <1>3
    <3>2. CASE i < p
      <4>1. i \in 1..Len(s) /\ r[i] = s[i] /\ s[i] < e
        BY <1>4, <3>2, <1>2, <1>3
      <4> QED BY <1>2, <3>1, <4>1
    <3>3. CASE i = p
      BY <1>3, <3>1, <3>3
    <3>4. CASE i > p
      <4>1. i - 1 \in 1..Len(s) /\ r[i] = s[i - 1] /\ i - 1 < j - 1
        BY <1>4, <1>5, <3>4, <1>2, <1>3
      <4> QED BY <1>1, <3>1, <4>1
    <3> QED BY <1>3, <3>2, <3>3, <3>4
  <2> QED BY <1>3, <2>1, <2>2, <2>3
<1>6. T \cup {e} = {r[i] : i \in 1..Len(r)}
  <2>1. \A i \in 1..Len(r) : r[i] \in T \cup {e}
    BY <1>1, <1>4
  <2>2. p \in 1..Len(r) /\ r[p] = e
    BY <1>2, <1>3
  <2>3. \A x \in T : \E i \in 1..Len(r) : r[i] = x
    <3> TAKE x \in T
    <3>1. PICK l \in 1..Len(s) : s[l] = x
      BY <1>1
    <3>2. CASE l < p
      <4>1. l \in 1..(Len(s) + 1) /\ l \in 1..Len(r)
        BY <1>2, <1>3
      <4>2. r[l] = x
        BY <1>3, <3>1, <3>2, <4>1
      <4> QED BY <4>1, <4>2
    <3>3. CASE ~(l < p)
      <4>1. l + 1 \in 1..Len(r) /\ (l + 1) - 1 = l /\ ~(l + 1 < p) /\ l + 1 # p
        BY <1>2, <1>3, <3>3
      <4>2. r[l + 1] = x
        BY <1>3, <3>1, <4>1
      <4> QED BY <4>1, <4>2
    <3> QED BY <3>2, <3>3
  <2> QED BY <2>1, <2>2, <2>3
<1> QED BY <1>3, <1>5, <1>6 DEF Enum, r

(* The members before and after another one, and the last one. *)
LEMMA EnumNeighbours ==
  ASSUME NEW s, NEW T, Enum(s, T), NEW e \in T
  PROVE  LET k == Place(s, e)
         IN /\ k \in 1..Len(s) /\ s[k] = e /\ Len(s) \in Nat
            /\ k > 1 => /\ s[k - 1] \in T /\ s[k - 1] < e
                        /\ \A x \in T : x < e => x <= s[k - 1]
            /\ k = 1 => \A x \in T : e <= x
            /\ k < Len(s) => /\ s[k + 1] \in T /\ e < s[k + 1]
                             /\ \A x \in T : e < x => s[k + 1] <= x
            /\ k = Len(s) => \A x \in T : x <= e
<1> DEFINE k == Place(s, e)
<1>1. k \in 1..Len(s) /\ s[k] = e
  BY EnumOnce, PlaceIs
<1> HIDE DEF k
<1>2. /\ s \in Seq(Nat) /\ T = {s[i] : i \in 1..Len(s)}
      /\ \A i, j \in 1..Len(s) : i < j => s[i] < s[j]
  BY DEF Enum
<1>3. Len(s) \in Nat /\ \A i \in 1..Len(s) : s[i] \in Nat
  BY <1>2
<1>4. \A i, j \in 1..Len(s) : /\ s[i] < s[j] => i < j
                              /\ i <= j => s[i] <= s[j]
  <2> TAKE i, j \in 1..Len(s)
  <2>1. i < j \/ i = j \/ j < i
    BY <1>3
  <2> QED BY <1>2, <1>3, <2>1
<1>5. ASSUME NEW x \in T PROVE \E i \in 1..Len(s) : s[i] = x
  BY <1>2
<1>6. ASSUME k > 1
      PROVE  s[k - 1] \in T /\ s[k - 1] < e /\ \A x \in T : x < e => x <= s[k - 1]
  <2>1. k - 1 \in 1..Len(s) /\ k - 1 < k
    BY <1>1, <1>3, <1>6
  <2>2. \A x \in T : x < e => x <= s[k - 1]
    <3> TAKE x \in T
    <3> HAVE x < e
    <3>1. PICK i \in 1..Len(s) : s[i] = x
      BY <1>5
    <3>2. i < k
      BY <1>1, <1>4, <3>1
    <3>3. i <= k - 1
      BY <1>1, <1>3, <3>2
    <3> QED BY <1>4, <2>1, <3>1, <3>3
  <2> QED BY <1>1, <1>2, <2>1, <2>2
<1>7. ASSUME k < Len(s)
      PROVE  s[k + 1] \in T /\ e < s[k + 1] /\ \A x \in T : e < x => s[k + 1] <= x
  <2>1. k + 1 \in 1..Len(s) /\ k < k + 1
    BY <1>1, <1>3, <1>7
  <2>2. \A x \in T : e < x => s[k + 1] <= x
    <3> TAKE x \in T
    <3> HAVE e < x
    <3>1. PICK i \in 1..Len(s) : s[i] = x
      BY <1>5
    <3>2. k < i
      BY <1>1, <1>4, <3>1
    <3>3. k + 1 <= i
      BY <1>1, <1>3, <3>2
    <3> QED BY <1>4, <2>1, <3>1, <3>3
  <2> QED BY <1>1, <1>2, <2>1, <2>2
<1>8. k = 1 => \A x \in T : e <= x
  BY <1>1, <1>3, <1>4, <1>5
<1>9. k = Len(s) => \A x \in T : x <= e
  BY <1>1, <1>3, <1>4, <1>5
<1> QED BY <1>1, <1>3, <1>6, <1>7, <1>8, <1>9 DEF k

LEMMA EnumLast ==
  ASSUME NEW s, NEW T, Enum(s, T), s # <<>>
  PROVE  /\ Last(s) \in T /\ \A x \in T : x <= Last(s)
         /\ Len(s) \in Nat \ {0} /\ Last(s) = s[Len(s)]
<1>1. /\ s \in Seq(Nat) /\ T = {s[i] : i \in 1..Len(s)}
      /\ \A i, j \in 1..Len(s) : i < j => s[i] < s[j]
  BY DEF Enum
<1>2. Len(s) \in Nat \ {0} /\ \A i \in 1..Len(s) : s[i] \in Nat
  BY <1>1
<1>3. Len(s) \in 1..Len(s)
  BY <1>2
<1>4. \A i \in 1..Len(s) : s[i] <= s[Len(s)]
  <2> TAKE i \in 1..Len(s)
  <2>1. i < Len(s) \/ i = Len(s)
    BY <1>2
  <2> QED BY <1>1, <1>2, <1>3, <2>1
<1> QED BY <1>1, <1>2, <1>3, <1>4 DEF Last

-----------------------------------------------------------------------------
(* Sums over addresses. *)

End == Hdr + Total

LEMMA Sizes ==
  /\ Total \in Nat \ {0} /\ Hdr \in Nat \ {0} /\ MinSize \in Nat \ {0}
  /\ MaxSize \in Nat \ {0} /\ Factor \in Nat \ {0} /\ MinSize < MaxSize
  /\ End \in Nat /\ End > Total
  BY ShMemAssumption DEF End

Term(X, f, x) == IF x \in X THEN f[x] ELSE 0
IsSum(u, n, X, f) ==
  u = [k \in 0..n |-> IF k = 0 THEN 0 ELSE u[k - 1] + (IF k - 1 \in X THEN f[k - 1] ELSE 0)]

LEMMA SumExists ==
  ASSUME NEW X, NEW f, NEW n \in Nat PROVE \E u : IsSum(u, n, X, f)
<1> DEFINE Bad == {k \in Nat : ~\E u : IsSum(u, k, X, f)}
<1> SUFFICES ASSUME n \in Bad PROVE FALSE
  OBVIOUS
<1>1. PICK k \in Bad : \A j \in Bad : k <= j
  <2>1. Bad \in SUBSET Nat /\ n \in Bad
    OBVIOUS
  <2> HIDE DEF Bad
  <2> QED BY <2>1, LeastNat
<1>2. CASE k = 0
  <2> DEFINE u == [i \in 0..k |-> 0]
  <2>1. u = [i \in 0..k |-> IF i = 0 THEN 0
                            ELSE u[i - 1] + (IF i - 1 \in X THEN f[i - 1] ELSE 0)]
    BY <1>2
  <2> HIDE DEF u
  <2> QED BY <1>1, <2>1 DEF IsSum
<1>3. CASE k # 0
  <2>1. k - 1 \in Nat /\ ~(k <= k - 1)
    BY <1>1, <1>3
  <2>2. PICK u : IsSum(u, k - 1, X, f)
    BY <1>1, <2>1
  <2>3. \A i \in 0..(k - 1) :
          u[i] = IF i = 0 THEN 0 ELSE u[i - 1] + (IF i - 1 \in X THEN f[i - 1] ELSE 0)
    BY <2>2 DEF IsSum
  <2> DEFINE last == u[k - 1] + (IF k - 1 \in X THEN f[k - 1] ELSE 0)
             v == [i \in 0..k |-> IF i = k THEN last ELSE u[i]]
  <2>4. \A i \in 0..k :
          v[i] = IF i = 0 THEN 0 ELSE v[i - 1] + (IF i - 1 \in X THEN f[i - 1] ELSE 0)
    <3> TAKE i \in 0..k
    <3>1. CASE i = 0
      BY <1>3, <2>1, <2>3, <3>1
    <3>2. CASE i # 0 /\ i = k
      <4>1. i - 1 \in 0..k /\ i - 1 # k /\ v[i - 1] = u[i - 1]
        BY <3>2, <1>1
      <4>2. v[i] = last
        BY <3>2
      <4> QED BY <3>2, <4>1, <4>2
    <3>3. CASE i # 0 /\ i # k
      <4>1. i - 1 \in 0..k /\ i - 1 # k /\ v[i - 1] = u[i - 1]
        BY <3>3, <1>1
      <4>2. v[i] = u[i] /\ i \in 0..(k - 1)
        BY <3>3, <1>1
      <4> QED BY <2>3, <3>3, <4>1, <4>2
    <3> QED BY <3>1, <3>2, <3>3
  <2>5. v = [i \in 0..k |-> v[i]]
    OBVIOUS
  <2> HIDE DEF v
  <2>6. IsSum(v, k, X, f)
    BY <2>4, <2>5 DEF IsSum
  <2> QED BY <1>1, <2>6
<1> QED BY <1>2, <1>3

LEMMA SumIs ==
  ASSUME NEW X, NEW f
  PROVE  \E u : IsSum(u, End, X, f) /\ SumOver(X, f) = u[End]
<1>1. \E u : IsSum(u, End, X, f)
  BY Sizes, SumExists
<1> QED BY <1>1 DEF SumOver, IsSum, End

(* A sum after the term of one address has changed. *)
LEMMA SumChange ==
  ASSUME NEW X, NEW T, NEW f, NEW g, NEW x \in 0..(End - 1),
         \A y \in X : f[y] \in Int, \A y \in T : g[y] \in Int,
         \A y : y # x => ((y \in X) <=> (y \in T)) /\ (y \in X => f[y] = g[y])
  PROVE  /\ SumOver(X, f) \in Int /\ SumOver(T, g) \in Int
         /\ SumOver(T, g) = SumOver(X, f) - Term(X, f, x) + Term(T, g, x)
<1>1. PICK u : IsSum(u, End, X, f) /\ SumOver(X, f) = u[End]
  BY SumIs
<1>2. PICK v : IsSum(v, End, T, g) /\ SumOver(T, g) = v[End]
  BY SumIs
<1>3. End \in Nat /\ End \in 0..End /\ x < End
  BY Sizes
<1>4. \A k \in 0..End :
        /\ u[k] = IF k = 0 THEN 0 ELSE u[k - 1] + Term(X, f, k - 1)
        /\ v[k] = IF k = 0 THEN 0 ELSE v[k - 1] + Term(T, g, k - 1)
  BY <1>1, <1>2 DEF IsSum, Term
<1>5. \A y : Term(X, f, y) \in Int /\ Term(T, g, y) \in Int
             /\ (y # x => Term(X, f, y) = Term(T, g, y))
  BY DEF Term
<1> DEFINE d == Term(T, g, x) - Term(X, f, x)
           Good(k) == u[k] \in Int /\ v[k] = u[k] + (IF x < k THEN d ELSE 0)
           Bad == {k \in 0..End : ~Good(k)}
<1>6. d \in Int
  BY <1>5
<1> HIDE DEF d
<1>7. Bad = {}
  <2> SUFFICES ASSUME Bad # {} PROVE FALSE
    OBVIOUS
  <2>1. PICK k \in Bad : \A j \in Bad : k <= j
    <3>1. Bad \in SUBSET Nat
      BY <1>3
    <3> HIDE DEF Bad
    <3> QED BY <3>1, LeastNat
  <2>2. CASE k = 0
    <3>1. u[0] = 0 /\ v[0] = 0 /\ ~(x < 0)
      BY <1>3, <1>4
    <3>2. Good(k)
      BY <2>2, <3>1
    <3> QED BY <2>1, <3>2
  <2>3. CASE k # 0
    <3>1. k - 1 \in 0..End /\ ~(k <= k - 1)
      BY <1>3, <2>1, <2>3
    <3>2. Good(k - 1)
      BY <2>1, <3>1
    <3>3. /\ u[k] = u[k - 1] + Term(X, f, k - 1)
          /\ v[k] = v[k - 1] + Term(T, g, k - 1)
      BY <1>4, <2>1, <2>3
    <3>4. /\ Term(X, f, k - 1) \in Int /\ Term(T, g, k - 1) \in Int
          /\ k - 1 # x => Term(X, f, k - 1) = Term(T, g, k - 1)
          /\ k - 1 = x => Term(T, g, k - 1) = Term(X, f, k - 1) + d
      <4>1. Term(T, g, x) = Term(X, f, x) + d
        BY <1>5 DEF d
      <4> QED BY <1>5, <4>1
    <3>5. CASE x < k - 1
      BY <1>3, <1>6, <2>1, <3>2, <3>3, <3>4, <3>5
    <3>6. CASE x = k - 1
      BY <1>3, <1>6, <2>1, <3>2, <3>3, <3>4, <3>6
    <3>7. CASE x > k - 1
      BY <1>3, <1>6, <2>1, <3>2, <3>3, <3>4, <3>7
    <3> QED BY <1>3, <2>1, <3>5, <3>6, <3>7
  <2> QED BY <2>2, <2>3
<1>8. Good(End)
  BY <1>3, <1>7
<1> QED BY <1>1, <1>2, <1>3, <1>5, <1>6, <1>8 DEF d

LEMMA SumSame ==
  ASSUME NEW X, NEW f, NEW g, \A y \in X : f[y] \in Int /\ g[y] = f[y]
  PROVE  SumOver(X, f) \in Int /\ SumOver(X, g) = SumOver(X, f)
<1>1. 0 \in 0..(End - 1)
  BY Sizes
<1>2. Term(X, f, 0) \in Int /\ Term(X, g, 0) = Term(X, f, 0)
  BY DEF Term
<1>3. /\ SumOver(X, f) \in Int
      /\ SumOver(X, g) = SumOver(X, f) - Term(X, f, 0) + Term(X, g, 0)
  BY <1>1, SumChange
<1> QED BY <1>2, <1>3

LEMMA SumNat ==
  ASSUME NEW X, NEW f, \A y \in X : f[y] \in Nat
  PROVE  SumOver(X, f) \in Nat /\ (X = {} => SumOver(X, f) = 0)
<1>1. PICK u : IsSum(u, End, X, f) /\ SumOver(X, f) = u[End]
  BY SumIs
<1>2. End \in Nat /\ End \in 0..End
  BY Sizes
<1>3. \A k \in 0..End : u[k] = IF k = 0 THEN 0 ELSE u[k - 1] + Term(X, f, k - 1)
  BY <1>1 DEF IsSum, Term
<1>4. \A y : Term(X, f, y) \in Nat /\ (X = {} => Term(X, f, y) = 0)
  BY DEF Term
<1> DEFINE Good(k) == u[k] \in Nat /\ (X = {} => u[k] = 0)
           Bad == {k \in 0..End : ~Good(k)}
<1>5. Bad = {}
  <2> SUFFICES ASSUME Bad # {} PROVE FALSE
    OBVIOUS
  <2>1. PICK k \in Bad : \A j \in Bad : k <= j
    <3>1. Bad \in SUBSET Nat
      BY <1>2
    <3> HIDE DEF Bad
    <3> QED BY <3>1, LeastNat
  <2>2. CASE k = 0
    BY <1>3, <2>1, <2>2
  <2>3. CASE k # 0
    <3>1. k - 1 \in 0..End /\ ~(k <= k - 1)
      BY <1>2, <2>1, <2>3
    <3>2. Good(k - 1)
      BY <2>1, <3>1
    <3>3. u[k] = u[k - 1] + Term(X, f, k - 1)
      BY <1>3, <2>1, <2>3
    <3> QED BY <1>4, <2>1, <3>2, <3>3
  <2> QED BY <2>2, <2>3
<1> QED BY <1>1, <1>2, <1>5

-----------------------------------------------------------------------------
(* Levels. *)

IsLog(f, n) == f = [y \in 0..n |-> IF y <= 1 THEN 0 ELSE 1 + f[y \div 2]]

LEMMA LogExists ==
  ASSUME NEW n \in Nat PROVE \E f : IsLog(f, n)
<1> DEFINE Bad == {k \in Nat : ~\E f : IsLog(f, k)}
<1> SUFFICES ASSUME n \in Bad PROVE FALSE
  OBVIOUS
<1>1. PICK k \in Bad : \A j \in Bad : k <= j
  <2>1. Bad \in SUBSET Nat /\ n \in Bad
    OBVIOUS
  <2> HIDE DEF Bad
  <2> QED BY <2>1, LeastNat
<1>2. CASE k <= 1
  <2> DEFINE u == [i \in 0..k |-> 0]
  <2>1. u = [i \in 0..k |-> IF i <= 1 THEN 0 ELSE 1 + u[i \div 2]]
    BY <1>2, <1>1
  <2> HIDE DEF u
  <2> QED BY <1>1, <2>1 DEF IsLog
<1>3. CASE ~(k <= 1)
  <2>1. k - 1 \in Nat /\ ~(k <= k - 1)
    BY <1>1, <1>3
  <2>2. PICK u : IsLog(u, k - 1)
    BY <1>1, <2>1
  <2>3. \A i \in 0..(k - 1) : u[i] = IF i <= 1 THEN 0 ELSE 1 + u[i \div 2]
    BY <2>2 DEF IsLog
  <2> DEFINE v == [i \in 0..k |-> IF i = k THEN 1 + u[k \div 2] ELSE u[i]]
  <2>4. \A i \in 0..k : v[i] = IF i <= 1 THEN 0 ELSE 1 + v[i \div 2]
    <3> TAKE i \in 0..k
    <3>1. CASE i <= 1
      BY <1>1, <1>3, <2>1, <2>3, <3>1
    <3>2. CASE ~(i <= 1)
      <4>1. i \div 2 \in 0..k /\ i \div 2 # k
        BY <1>1, <3>2
      <4>2. v[i \div 2] = u[i \div 2]
        BY <4>1
      <4>3. CASE i = k
        BY <3>2, <4>2, <4>3
      <4>4. CASE i # k
        <5>1. i \in 0..(k - 1)
          BY <1>1, <4>4
        <5> QED BY <2>3, <3>2, <4>2, <4>4, <5>1
      <4> QED BY <4>3, <4>4
    <3> QED BY <3>1, <3>2
  <2>5. v = [i \in 0..k |-> v[i]]
    OBVIOUS
  <2> HIDE DEF v
  <2>6. IsLog(v, k)
    BY <2>4, <2>5 DEF IsLog
  <2> QED BY <1>1, <2>6
<1> QED BY <1>2, <1>3

LEMMA LogIs ==
  ASSUME NEW n \in Nat
  PROVE  \E f : /\ IsLog(f, n) /\ log2down(n) = f[n]
                /\ \A y \in 0..n : f[y] \in Nat
<1>1. \E f : IsLog(f, n)
  BY LogExists
<1>2. PICK f : IsLog(f, n) /\ log2down(n) = f[n]
  BY <1>1 DEF log2down, IsLog
<1>3. \A y \in 0..n : f[y] = IF y <= 1 THEN 0 ELSE 1 + f[y \div 2]
  BY <1>2 DEF IsLog
<1> DEFINE Bad == {y \in 0..n : f[y] \notin Nat}
<1>4. Bad = {}
  <2> SUFFICES ASSUME Bad # {} PROVE FALSE
    OBVIOUS
  <2>1. PICK k \in Bad : \A j \in Bad : k <= j
    <3>1. Bad \in SUBSET Nat
      OBVIOUS
    <3> HIDE DEF Bad
    <3> QED BY <3>1, LeastNat
  <2>2. CASE k <= 1
    BY <1>3, <2>1, <2>2
  <2>3. CASE ~(k <= 1)
    <3>1. k \div 2 \in 0..n /\ ~(k <= k \div 2)
      BY <2>1, <2>3
    <3>2. f[k \div 2] \in Nat
      BY <2>1, <3>1
    <3> QED BY <1>3, <2>1, <2>3, <3>2
  <2> QED BY <2>2, <2>3
<1> QED BY <1>2, <1>4

LEMMA LogNat == ASSUME NEW n \in Nat PROVE log2down(n) \in Nat
<1>1. n \in 0..n
  OBVIOUS
<1> QED BY <1>1, LogIs

Levels(g) == 0..(FreeLen(g) - 1)
LevelOf(g, n) == Min({get_insert_index(g, n), FreeLen(g) - 1})
Level(g, a) == LevelOf(g, g.blk[a].size)

LEMMA CeilNat ==
  ASSUME NEW a \in Nat, NEW b \in Nat \ {0}
  PROVE  CeilDiv(a, b) \in Nat /\ (a > 0 => CeilDiv(a, b) > 0)
BY DEF CeilDiv

LEMMA LevelType ==
  ASSUME NEW g, g.linear \in BOOLEAN, NEW n \in Nat
  PROVE  /\ FreeLen(g) \in Nat \ {0} /\ get_insert_index(g, n) \in Nat
         /\ LevelOf(g, n) \in Levels(g)
         /\ LevelOf(g, n) = IF get_insert_index(g, n) <= FreeLen(g) - 1
                            THEN get_insert_index(g, n) ELSE FreeLen(g) - 1
<1>1. CeilDiv(MaxSize - MinSize, Factor) \in Nat /\ CeilDiv(MaxSize, MinSize) \in Nat
  BY Sizes, CeilNat
<1>2. dfslog2(CeilDiv(MaxSize, MinSize), TRUE) \in Nat
  BY <1>1, LogNat DEF dfslog2
<1>3. FreeLen(g) \in Nat \ {0}
  <2> DEFINE x == CeilDiv(MaxSize - MinSize, Factor)
             z == dfslog2(CeilDiv(MaxSize, MinSize), TRUE)
  <2>1. FreeLen(g) = 1 + x \/ FreeLen(g) = 1 + z
    BY DEF FreeLen
  <2>2. x \in Nat /\ z \in Nat
    BY <1>1, <1>2
  <2> HIDE DEF x, z
  <2> QED BY <2>1, <2>2
<1>4. n > MinSize => (n - MinSize) \div Factor \in Nat /\ n \div MinSize \in Nat
  BY Sizes
<1>5. n > MinSize => dfslog2(n \div MinSize, FALSE) \in Nat
  BY <1>4, LogNat DEF dfslog2
<1>6. get_insert_index(g, n) \in Nat
  <2> DEFINE x == (n - MinSize) \div Factor
             z == dfslog2(n \div MinSize, FALSE)
  <2>1. \/ n <= MinSize /\ get_insert_index(g, n) = 0
        \/ ~(n <= MinSize) /\ (get_insert_index(g, n) = x \/ get_insert_index(g, n) = z)
    BY Zenon DEF get_insert_index
  <2>2. ~(n <= MinSize) => n > MinSize
    BY Sizes
  <2>3. n > MinSize => x \in Nat /\ z \in Nat
    BY <1>4, <1>5
  <2> HIDE DEF x, z
  <2> QED BY <2>1, <2>2, <2>3
<1>7. LevelOf(g, n) = IF get_insert_index(g, n) <= FreeLen(g) - 1
                      THEN get_insert_index(g, n) ELSE FreeLen(g) - 1
  BY <1>3, <1>6, MinPair DEF LevelOf
<1> QED BY <1>3, <1>6, <1>7 DEF Levels

LEMMA LevelSame ==
  ASSUME NEW g, NEW k, k.linear = g.linear, NEW n
  PROVE  /\ FreeLen(k) = FreeLen(g) /\ Levels(k) = Levels(g)
         /\ get_insert_index(k, n) = get_insert_index(g, n)
         /\ LevelOf(k, n) = LevelOf(g, n)
BY DEF FreeLen, Levels, LevelOf, get_insert_index

-----------------------------------------------------------------------------
(* The segment as a record. *)

Block == [alloc : BOOLEAN, size : Nat, act : Nat, head : Int]
Blks == UNION {[X -> Block] : X \in SUBSET Nat}
Frees == UNION {[X -> Seq(Nat)] : X \in SUBSET Nat}
SegRec == [linear : BOOLEAN, order : Seq(Nat), blk : Blks, free : Frees,
           avail : Seq(Nat), top : Nat, used : Int, reqs : Int, count : Int]
Shape(g) == g \in SegRec /\ DOMAIN g.free = Levels(g)

D(g) == DOMAIN g.blk
FreeOf(g) == {a \in D(g) : ~g.blk[a].alloc}
TakenOf(g) == D(g) \ FreeOf(g)

LEMMA ShapeIs ==
  ASSUME NEW g, Shape(g)
  PROVE  /\ g.linear \in BOOLEAN /\ g.order \in Seq(Nat)
         /\ D(g) \in SUBSET Nat /\ g.blk \in [D(g) -> Block]
         /\ g.free \in [Levels(g) -> Seq(Nat)] /\ g.avail \in Seq(Nat) /\ g.top \in Nat
         /\ g.used \in Int /\ g.reqs \in Int /\ g.count \in Int
<1>1. g \in SegRec
  BY DEF Shape
<1>2. g.linear \in BOOLEAN /\ g.order \in Seq(Nat) /\ g.blk \in Blks /\ g.free \in Frees
      /\ g.avail \in Seq(Nat) /\ g.top \in Nat /\ g.used \in Int /\ g.reqs \in Int
      /\ g.count \in Int
  BY <1>1 DEF SegRec
<1>3. D(g) \in SUBSET Nat /\ g.blk \in [D(g) -> Block]
  BY <1>2 DEF Blks, D
<1>4. g.free \in [DOMAIN g.free -> Seq(Nat)]
  BY <1>2 DEF Frees
<1> QED BY <1>2, <1>3, <1>4 DEF Shape

LEMMA BlockIs ==
  ASSUME NEW g, Shape(g), NEW a \in D(g)
  PROVE  /\ a \in Nat /\ g.blk[a] \in Block
         /\ g.blk[a].alloc \in BOOLEAN /\ g.blk[a].size \in Nat
         /\ g.blk[a].act \in Nat /\ g.blk[a].head \in Int
BY ShapeIs DEF Block

(* k is g but for the free lists and the field head. *)
Frame(g, k) ==
  /\ k.linear = g.linear /\ k.order = g.order
  /\ k.used = g.used /\ k.reqs = g.reqs /\ k.count = g.count
  /\ D(k) = D(g)
  /\ \A x \in D(g) : /\ k.blk[x].size = g.blk[x].size
                     /\ k.blk[x].alloc = g.blk[x].alloc
                     /\ k.blk[x].act = g.blk[x].act

(* Free lists l, available v and top t of g, the storage b with head e. *)
Relisted(g, l, b, e, v, t) ==
  [g EXCEPT !.free = l, !.blk[b].head = e, !.avail = v, !.top = t]

LEMMA RelistedIs ==
  ASSUME NEW g, Shape(g), NEW l \in [Levels(g) -> Seq(Nat)], NEW b \in D(g),
         NEW e \in Int, NEW v \in Seq(Nat), NEW t \in Nat,
         NEW k, k = Relisted(g, l, b, e, v, t)
  PROVE  /\ Shape(k) /\ Frame(g, k)
         /\ k.free = l /\ k.avail = v /\ k.top = t
         /\ k.blk[b].head = e /\ \A x \in D(g) \ {b} : k.blk[x] = g.blk[x]
<1> DEFINE q == [g.blk EXCEPT ![b].head = e]
<1>1. /\ g \in SegRec /\ g.linear \in BOOLEAN /\ g.order \in Seq(Nat) /\ g.used \in Int
      /\ g.reqs \in Int /\ g.count \in Int
      /\ D(g) \in SUBSET Nat /\ g.blk \in [D(g) -> Block]
  BY ShapeIs DEF Shape
<1>2. k = [g EXCEPT !.free = l, !.blk = q, !.avail = v, !.top = t]
  BY <1>1 DEF Relisted, SegRec
<1>3. q \in [D(g) -> Block] /\ q[b].head = e
      /\ (\A x \in D(g) \ {b} : q[x] = g.blk[x])
      /\ \A x \in D(g) : /\ q[x].size = g.blk[x].size
                         /\ q[x].alloc = g.blk[x].alloc
                         /\ q[x].act = g.blk[x].act
  BY <1>1 DEF Block
<1>4. q \in Blks /\ DOMAIN q = D(g)
  BY <1>1, <1>3 DEF Blks
<1>5. l \in Frees /\ DOMAIN l = Levels(g)
  <2>1. Levels(g) \in SUBSET Nat
    BY DEF Levels
  <2> QED BY <2>1 DEF Frees
<1> HIDE DEF q
<1>6. /\ k \in SegRec /\ k.linear = g.linear /\ k.order = g.order
      /\ k.used = g.used /\ k.reqs = g.reqs /\ k.count = g.count
      /\ k.blk = q /\ k.free = l /\ k.avail = v /\ k.top = t
  BY <1>1, <1>2, <1>4, <1>5 DEF SegRec
<1>7. D(k) = D(g)
  BY <1>4, <1>6 DEF D
<1>8. Levels(k) = Levels(g)
  BY <1>6, LevelSame
<1> QED BY <1>3, <1>5, <1>6, <1>7, <1>8 DEF Shape, Frame

-----------------------------------------------------------------------------
(* The free lists hold the storages of X. *)

AtLevel(g, X, l) == {x \in X : Level(g, x) = l}
InUse(g) == {l \in Levels(g) : g.free[l] # <<>>}
Lists(g, X) ==
  /\ X \subseteq D(g)
  /\ \A l \in Levels(g) : Once(g.free[l], AtLevel(g, X, l))
  /\ \A x \in X : g.blk[x].head = Level(g, x)
  /\ Enum(g.avail, InUse(g))
  /\ g.top = IF g.avail = <<>> THEN FreeLen(g) ELSE Last(g.avail)

LEMMA LevelIn ==
  ASSUME NEW g, Shape(g), NEW a \in D(g)
  PROVE  Level(g, a) \in Levels(g) /\ Level(g, a) \in Nat /\ FreeLen(g) \in Nat \ {0}
<1>1. g.linear \in BOOLEAN /\ g.blk[a].size \in Nat
  BY ShapeIs, BlockIs
<1> QED BY <1>1, LevelType DEF Level, Levels

LEMMA TopIs ==
  ASSUME NEW g, Shape(g), NEW X, Lists(g, X)
  PROVE  /\ \A l \in InUse(g) : l <= g.top
         /\ InUse(g) # {} => g.top \in InUse(g) /\ g.avail # <<>>
         /\ InUse(g) = {} => g.avail = <<>> /\ g.top = FreeLen(g)
<1>1. g.avail = <<>> <=> InUse(g) = {}
  BY EnumOnce, OnceSet DEF Lists
<1>2. g.avail # <<>> => Last(g.avail) \in InUse(g) /\ \A x \in InUse(g) : x <= Last(g.avail)
  BY EnumLast DEF Lists
<1> QED BY <1>1, <1>2 DEF Lists

(* A listed storage is found in the list of its size. *)
LEMMA Listing ==
  ASSUME NEW g, Shape(g), NEW X, Lists(g, X), NEW b \in X
  PROVE  /\ Level(g, b) \in InUse(g) /\ b \in AtLevel(g, X, Level(g, b))
         /\ RemoveLevel(g, b) = Level(g, b) /\ Removable(g, b)
<1> DEFINE l == Level(g, b)
<1>1. b \in D(g) /\ g.linear \in BOOLEAN /\ g.blk[b].size \in Nat
  BY ShapeIs, BlockIs DEF Lists
<1>2. l \in Levels(g) /\ l \in Nat
  BY <1>1, LevelIn
<1>3. b \in AtLevel(g, X, l)
  BY DEF AtLevel
<1>4. g.free[l] # <<>>
  BY <1>2, <1>3, OnceSet DEF Lists
<1>5. l \in InUse(g)
  BY <1>2, <1>4 DEF InUse
<1>6. l <= g.top /\ g.top \in Levels(g)
  BY <1>5, TopIs DEF InUse
<1> DEFINE i == get_insert_index(g, g.blk[b].size)
<1>7. i \in Nat /\ FreeLen(g) \in Nat
      /\ l = IF i <= FreeLen(g) - 1 THEN i ELSE FreeLen(g) - 1
  BY <1>1, LevelType DEF Level
<1>8. g.top \in Nat /\ g.top <= FreeLen(g) - 1
  BY <1>6, <1>7 DEF Levels
<1>9. RemoveLevel(g, b) = IF i <= g.top THEN i ELSE g.top
  BY <1>7, <1>8, MinPair DEF RemoveLevel
<1> HIDE DEF l, i
<1>10. RemoveLevel(g, b) = l
  BY <1>2, <1>6, <1>7, <1>8, <1>9
<1>11. Removable(g, b)
  BY <1>10 DEF Removable, Lists, l
<1> QED BY <1>3, <1>5, <1>10, <1>11 DEF l

-----------------------------------------------------------------------------
(* A storage leaves its free list, or enters one. *)

LEMMA LevelFrame ==
  ASSUME NEW g, NEW k, Frame(g, k), NEW a \in D(g)
  PROVE  Level(k, a) = Level(g, a) /\ Levels(k) = Levels(g) /\ FreeLen(k) = FreeLen(g)
BY LevelSame DEF Level, Frame

(* What is left of the other lists. *)
LEMMA RemoveFreeIs ==
  ASSUME NEW g, Shape(g), NEW X, Lists(g, X), NEW b \in X,
         NEW k, k = remove_free(g, b)
  PROVE  /\ Shape(k) /\ Frame(g, k) /\ Lists(k, X \ {b})
         /\ \A x \in D(g) \ {b} : k.blk[x] = g.blk[x]
<1> DEFINE i == Level(g, b)
           l == RemoveFirst(g.free[i], b)
           f == [g.free EXCEPT ![i] = l]
           v == IF l = <<>> THEN RemoveFirst(g.avail, i) ELSE g.avail
           t == IF l = <<>> /\ i = g.top THEN LevelBefore(g, i) ELSE g.top
<1>1. i \in InUse(g) /\ b \in AtLevel(g, X, i) /\ RemoveLevel(g, b) = i
  BY Listing
<1>2. /\ b \in D(g) /\ i \in Levels(g) /\ i \in Nat /\ FreeLen(g) \in Nat \ {0}
      /\ X \subseteq D(g)
  <2>1. b \in D(g) /\ X \subseteq D(g)
    BY DEF Lists
  <2> QED BY <2>1, LevelIn
<1>3. g \in SegRec /\ g.free \in [Levels(g) -> Seq(Nat)] /\ g.blk \in [D(g) -> Block]
      /\ g.avail \in Seq(Nat) /\ g.top \in Nat
  BY ShapeIs DEF Shape
<1>4. k = Relisted(g, f, b, None, v, t)
  <2>1. remove_free(g, b) = [g EXCEPT !.free[i] = l, !.blk[b].head = None,
                                      !.avail = v, !.top = t]
    BY <1>1 DEF remove_free
  <2>2. [g EXCEPT !.free[i] = l, !.blk[b].head = None, !.avail = v, !.top = t]
        = [g EXCEPT !.free = f, !.blk[b].head = None, !.avail = v, !.top = t]
    BY <1>3 DEF SegRec
  <2> QED BY <2>1, <2>2 DEF Relisted
<1>5. Once(g.free[i], AtLevel(g, X, i)) /\ Enum(g.avail, InUse(g))
  BY <1>2 DEF Lists
<1>6. Once(l, AtLevel(g, X, i) \ {b})
  BY <1>1, <1>5, OnceRemove
<1>7. l \in Seq(Nat) /\ f \in [Levels(g) -> Seq(Nat)] /\ f[i] = l
      /\ \A j \in Levels(g) : j # i => f[j] = g.free[j]
  BY <1>2, <1>3, <1>6 DEF Once
<1> DEFINE U == IF l = <<>> THEN InUse(g) \ {i} ELSE InUse(g)
<1>8. Enum(v, U)
  BY <1>1, <1>5, EnumRemove
<1>9. U = {j \in Levels(g) : f[j] # <<>>}
  BY <1>1, <1>2, <1>7 DEF InUse
<1>10. t = IF v = <<>> THEN FreeLen(g) ELSE Last(v)
  <2>1. CASE l # <<>>
    BY <2>1 DEF Lists
  <2>2. CASE l = <<>>
    <3> DEFINE o == g.avail
               r == RemoveFirst(o, i)
               p == Place(o, i)
    <3>1. v = r /\ Enum(r, InUse(g) \ {i}) /\ Len(r) = Len(o) - 1
          /\ (\A j \in 1..(Len(o) - 1) : o[j] < i => r[j] = o[j])
          /\ r \in Seq(Nat) /\ o \in Seq(Nat)
      <4>1. Enum(r, InUse(g) \ {i}) /\ Len(r) = Len(o) - 1
            /\ (\A j \in 1..(Len(o) - 1) : o[j] < i => r[j] = o[j])
        BY <1>1, <1>5, EnumRemove
      <4> QED BY <2>2, <4>1, <1>3 DEF Enum
    <3>2. /\ p \in 1..Len(o) /\ o[p] = i /\ Len(o) \in Nat
          /\ p > 1 => o[p - 1] \in InUse(g) /\ o[p - 1] < i
          /\ p < Len(o) => o[p + 1] \in InUse(g) /\ i < o[p + 1]
          /\ p = Len(o) => \A x \in InUse(g) : x <= i
      BY <1>1, <1>5, EnumNeighbours
    <3>3. o # <<>> /\ Last(o) \in InUse(g) /\ Last(o) = o[Len(o)] /\ g.top = Last(o)
          /\ \A x \in InUse(g) : x <= Last(o)
      <4>1. o # <<>>
        BY <3>2
      <4> QED BY <1>5, <4>1, EnumLast DEF Lists
    <3>4. LevelBefore(g, i) = IF p <= 1 THEN FreeLen(g) ELSE o[p - 1]
      BY DEF LevelBefore, Place
    <3>5. \A x \in InUse(g) : x \in Nat
      BY <1>2 DEF InUse, Levels
    <3> HIDE DEF p, r
    <3>6. CASE i = g.top
      <4>1. p = Len(o)
        BY <3>2, <3>3, <3>5, <3>6
      <4>2. CASE p = 1
        <5>1. r = <<>>
          BY <3>1, <4>1, <4>2
        <5> QED BY <2>2, <3>1, <3>4, <3>6, <4>2, <5>1
      <4>3. CASE p # 1
        <5>1. Len(r) = p - 1 /\ p - 1 \in 1..(Len(o) - 1) /\ r # <<>>
          <6>1. Len(r) = Len(o) - 1
            BY <3>1
          <6>2. p \in 1..Len(o) /\ Len(o) \in Nat
            BY <3>2
          <6>5. p \in Nat /\ p # 1 /\ p # 0
            BY <4>3, <6>2
          <6>6. Len(r) = p - 1
            BY <4>1, <6>1
          <6>7. p - 1 \in 1..(Len(o) - 1)
            <7>1. \A x \in Nat : x # 1 /\ x # 0 => x - 1 \in 1..(x - 1)
              OBVIOUS
            <7>2. p - 1 \in 1..(p - 1)
              BY <6>5, <7>1
            <7> QED BY <4>1, <7>2
          <6>3. Len(r) = p - 1 /\ p - 1 \in 1..(Len(o) - 1) /\ Len(r) # 0
            BY <6>5, <6>6, <6>7
          <6>4. Len(<<>>) = 0
            OBVIOUS
          <6> QED BY <6>3, <6>4
        <5>2. r[p - 1] = o[p - 1]
          BY <3>1, <3>2, <4>3, <5>1
        <5>3. Last(r) = r[p - 1]
          BY <3>1, <5>1 DEF Last
        <5>4. t = o[p - 1]
          BY <2>2, <3>2, <3>4, <3>6, <4>3
        <5> QED BY <3>1, <5>1, <5>2, <5>3, <5>4
      <4> QED BY <4>2, <4>3
    <3>7. CASE i # g.top
      <4>1. Last(o) \in InUse(g) \ {i} /\ r # <<>>
        <5>1. Last(o) \in InUse(g) \ {i}
          BY <3>3, <3>7
        <5>2. r = <<>> <=> InUse(g) \ {i} = {}
          <6>1. Once(r, InUse(g) \ {i})
            BY <3>1, EnumOnce
          <6> QED BY <6>1, OnceSet
        <5> QED BY <5>1, <5>2
      <4>2. Last(r) \in InUse(g) \ {i} /\ \A x \in InUse(g) \ {i} : x <= Last(r)
        BY <3>1, <4>1, EnumLast
      <4>3. Last(r) = Last(o)
        BY <3>3, <3>5, <4>1, <4>2
      <4> QED BY <2>2, <3>1, <3>3, <3>7, <4>1, <4>3
    <3> QED BY <3>6, <3>7
  <2> QED BY <2>1, <2>2
<1>11. v \in Seq(Nat)
  BY <1>8 DEF Enum
<1>12. t \in Nat
  <2>1. v # <<>> => Last(v) \in U /\ U \subseteq InUse(g)
    BY <1>8, EnumLast
  <2>2. InUse(g) \subseteq Nat
    BY DEF InUse, Levels
  <2> QED BY <1>2, <1>10, <2>1, <2>2
<1> HIDE DEF t, v, f, l
<1>13. /\ Shape(k) /\ Frame(g, k) /\ k.free = f /\ k.avail = v /\ k.top = t
       /\ \A x \in D(g) \ {b} : k.blk[x] = g.blk[x]
  <2>1. None \in Int
    BY DEF None
  <2>2. f \in [Levels(g) -> Seq(Nat)] /\ b \in D(g)
    BY <1>2, <1>7
  <2>3. k = Relisted(g, f, b, None, v, t) /\ v \in Seq(Nat) /\ t \in Nat
    BY <1>4, <1>11, <1>12
  <2> QED BY <2>1, <2>2, <2>3, RelistedIs
<1>14. /\ Levels(k) = Levels(g) /\ FreeLen(k) = FreeLen(g) /\ D(k) = D(g)
       /\ \A x \in D(g) : Level(k, x) = Level(g, x)
  BY <1>2, <1>13, LevelFrame DEF Frame
<1>15. Lists(k, X \ {b})
  <2>1. \A j \in Levels(g) : Once(f[j], AtLevel(k, X \ {b}, j))
    <3> TAKE j \in Levels(g)
    <3>1. CASE j = i
      <4>1. AtLevel(k, X \ {b}, j) = AtLevel(g, X, i) \ {b}
        BY <1>2, <1>14, <3>1 DEF AtLevel
      <4> QED BY <1>6, <1>7, <3>1, <4>1
    <3>2. CASE j # i
      <4>1. AtLevel(k, X \ {b}, j) = AtLevel(g, X, j)
        BY <1>2, <1>14, <3>2 DEF AtLevel
      <4> QED BY <1>7, <3>2, <4>1 DEF Lists
    <3> QED BY <3>1, <3>2
  <2>2. \A x \in X \ {b} : k.blk[x].head = Level(k, x)
    BY <1>2, <1>13, <1>14 DEF Lists
  <2>3. InUse(k) = U
    BY <1>9, <1>13, <1>14 DEF InUse
  <2> QED BY <1>2, <1>8, <1>10, <1>13, <1>14, <2>1, <2>2, <2>3 DEF Lists
<1> QED BY <1>13, <1>15

(* The place of the first member above i. *)
Above(s, i) == SelectInSeq(s, LAMBDA l : i < l)

LEMMA AboveIs ==
  ASSUME NEW s \in Seq(Nat), NEW i \in Nat
  PROVE  /\ Above(s, i) \in 0..Len(s)
         /\ Above(s, i) = 0 => \A j \in 1..Len(s) : ~(i < s[j])
         /\ Above(s, i) # 0 => /\ i < s[Above(s, i)]
                               /\ \A j \in 1..Len(s) : i < s[j] => Above(s, i) <= j
<1> DEFINE I == {j \in 1..Len(s) : i < s[j]}
<1>1. Above(s, i) = IF I # {} THEN Min(I) ELSE 0
  BY DEF Above, SelectInSeq
<1>2. I \in SUBSET Nat /\ Len(s) \in Nat
  OBVIOUS
<1>3. CASE I = {}
  BY <1>1, <1>2, <1>3
<1>4. CASE I # {}
  <2>1. Min(I) \in I /\ \A j \in I : Min(I) <= j
    <3> HIDE DEF I
    <3> QED BY <1>2, <1>4, MinIs
  <2>2. Above(s, i) = Min(I) /\ Above(s, i) # 0
    BY <1>1, <1>4, <2>1
  <2> QED BY <1>2, <2>1, <2>2
<1> QED BY <1>3, <1>4

LEMMA EnumAppend ==
  ASSUME NEW s, NEW T, Enum(s, T), NEW e \in Nat, \A i \in 1..Len(s) : s[i] < e
  PROVE  Enum(Append(s, e), T \cup {e}) /\ Append(s, e) # <<>> /\ Last(Append(s, e)) = e
<1> DEFINE r == Append(s, e)
<1>1. s \in Seq(Nat) /\ Len(s) \in Nat /\ T = {s[i] : i \in 1..Len(s)}
      /\ \A i, j \in 1..Len(s) : i < j => s[i] < s[j]
  BY DEF Enum
<1>2. r \in Seq(Nat) /\ Len(r) = Len(s) + 1 /\ r[Len(s) + 1] = e
      /\ \A i \in 1..Len(s) : r[i] = s[i]
  BY <1>1
<1> HIDE DEF r
<1>3. 1..Len(r) = 1..Len(s) \cup {Len(s) + 1}
  BY <1>1, <1>2
<1>4. {r[i] : i \in 1..Len(r)} = T \cup {e}
  <2>1. \A i \in 1..Len(r) : r[i] \in T \cup {e}
    BY <1>1, <1>2, <1>3
  <2>2. \A i \in 1..Len(s) : \E j \in 1..Len(r) : r[j] = s[i]
    BY <1>1, <1>2, <1>3
  <2>3. \E j \in 1..Len(r) : r[j] = e
    BY <1>1, <1>2, <1>3
  <2> QED BY <1>1, <2>1, <2>2, <2>3
<1>5. ASSUME NEW i \in 1..Len(r), NEW j \in 1..Len(r), i < j PROVE r[i] < r[j]
  <2> DEFINE len == Len(s)
  <2>0. len \in Nat /\ Len(r) = len + 1
    BY <1>1, <1>2
  <2>1. i \in 1..len /\ (j \in 1..len \/ j = len + 1)
    <3> HIDE DEF len
    <3> QED BY <1>5, <2>0
  <2> QED BY <1>1, <1>2, <1>5, <2>1
<1>6. r # <<>> /\ Last(r) = e
  BY <1>1, <1>2 DEF Last
<1> QED BY <1>2, <1>4, <1>5, <1>6 DEF Enum, r

LEMMA InsertFreeIs ==
  ASSUME NEW g, Shape(g), NEW X, Lists(g, X), NEW b \in D(g), b \notin X,
         NEW k, k = insert_free(g, b)
  PROVE  /\ Shape(k) /\ Frame(g, k) /\ Lists(k, X \cup {b})
         /\ \A x \in D(g) \ {b} : k.blk[x] = g.blk[x]
<1> DEFINE i == Level(g, b)
           p == Above(g.avail, i)
           fresh == g.free[i] = <<>>
           l == <<b>> \o g.free[i]
           f == [g.free EXCEPT ![i] = l]
           v == IF ~fresh THEN g.avail
                ELSE IF p = 0 THEN Append(g.avail, i) ELSE InsertAt(g.avail, p, i)
           t == IF fresh /\ p = 0 THEN i ELSE g.top
<1>1. /\ b \in Nat /\ i \in Levels(g) /\ i \in Nat /\ FreeLen(g) \in Nat \ {0}
      /\ X \subseteq D(g)
  <2>1. X \subseteq D(g)
    BY DEF Lists
  <2> QED BY <2>1, LevelIn, BlockIs
<1>2. g \in SegRec /\ g.free \in [Levels(g) -> Seq(Nat)] /\ g.blk \in [D(g) -> Block]
      /\ g.avail \in Seq(Nat) /\ g.top \in Nat
  BY ShapeIs DEF Shape
<1>3. k = Relisted(g, f, b, i, v, t)
  <2>1. k = [g EXCEPT !.free[i] = l, !.blk[b].head = i, !.avail = v, !.top = t]
    BY DEF insert_free, Above, Level, LevelOf
  <2>2. [g EXCEPT !.free[i] = l, !.blk[b].head = i, !.avail = v, !.top = t]
        = [g EXCEPT !.free = f, !.blk[b].head = i, !.avail = v, !.top = t]
    BY <1>2 DEF SegRec
  <2> QED BY <2>1, <2>2 DEF Relisted
<1>4. Once(g.free[i], AtLevel(g, X, i)) /\ Enum(g.avail, InUse(g))
  BY <1>1 DEF Lists
<1>5. Once(l, AtLevel(g, X, i) \cup {b}) /\ l # <<>>
  <2>1. b \notin AtLevel(g, X, i)
    BY DEF AtLevel
  <2> QED BY <1>1, <1>4, <2>1, OnceCons
<1>6. l \in Seq(Nat) /\ f \in [Levels(g) -> Seq(Nat)] /\ f[i] = l
      /\ \A j \in Levels(g) : j # i => f[j] = g.free[j]
  BY <1>1, <1>2, <1>5 DEF Once
<1>7. InUse(g) \cup {i} = {j \in Levels(g) : f[j] # <<>>}
  BY <1>1, <1>5, <1>6 DEF InUse
<1>8. Enum(v, InUse(g) \cup {i}) /\ t = (IF v = <<>> THEN FreeLen(g) ELSE Last(v))
  <2>1. CASE ~fresh
    <3>1. i \in InUse(g) /\ InUse(g) \cup {i} = InUse(g)
      BY <1>1, <2>1 DEF InUse
    <3> QED BY <1>4, <2>1, <3>1 DEF Lists
  <2>2. CASE fresh
    <3> DEFINE o == g.avail
    <3>1. i \notin InUse(g) /\ InUse(g) \subseteq Nat
      BY <1>1, <2>2 DEF InUse, Levels
    <3>2. Len(o) \in Nat /\ InUse(g) = {o[j] : j \in 1..Len(o)}
          /\ (\A j \in 1..Len(o) : o[j] \in Nat /\ o[j] # i)
          /\ \A x, y \in 1..Len(o) : x < y => o[x] < o[y]
      BY <1>4, <3>1 DEF Enum
    <3>3. /\ p \in 0..Len(o)
          /\ p = 0 => \A j \in 1..Len(o) : ~(i < o[j])
          /\ p # 0 => /\ i < o[p]
                      /\ \A j \in 1..Len(o) : i < o[j] => p <= j
      BY <1>1, <1>2, AboveIs
    <3> HIDE DEF p, i
    <3>4. CASE p = 0
      <4>1. \A j \in 1..Len(o) : o[j] < i
        BY <1>1, <3>2, <3>3, <3>4
      <4>2. Enum(Append(o, i), InUse(g) \cup {i}) /\ Append(o, i) # <<>>
            /\ Last(Append(o, i)) = i
        BY <1>1, <1>4, <4>1, EnumAppend
      <4> QED BY <2>2, <3>4, <4>2
    <3>5. CASE p # 0
      <4>1. p \in 1..Len(o) /\ p \in 1..(Len(o) + 1)
        BY <3>2, <3>3, <3>5
      <4>2. \A j \in 1..Len(o) : j < p <=> o[j] < i
        <5> TAKE j \in 1..Len(o)
        <5>1. CASE j < p
          BY <1>1, <3>2, <3>3, <3>5, <4>1, <5>1
        <5>2. CASE ~(j < p)
          <6>1. o[p] <= o[j]
            BY <3>2, <4>1, <5>2
          <6> QED BY <1>1, <3>2, <3>3, <3>5, <4>1, <5>2, <6>1
        <5> QED BY <5>1, <5>2
      <4> DEFINE r == InsertAt(o, p, i)
      <4>3. Enum(r, InUse(g) \cup {i})
        BY <1>1, <1>4, <3>1, <4>1, <4>2, EnumInsert
      <4> HIDE DEF r
      <4>4. r # <<>> /\ o # <<>> /\ o[p] \in InUse(g)
        <5>1. o[p] \in InUse(g)
          BY <3>2, <4>1
        <5>2. Once(r, InUse(g) \cup {i}) /\ Once(o, InUse(g))
          BY <1>4, <4>3, EnumOnce
        <5> QED BY <5>1, <5>2, OnceSet
      <4>5. Last(r) \in InUse(g) \cup {i} /\ \A x \in InUse(g) \cup {i} : x <= Last(r)
        BY <4>3, <4>4, EnumLast
      <4>6. Last(o) \in InUse(g) /\ \A x \in InUse(g) : x <= Last(o)
        BY <1>4, <4>4, EnumLast
      <4>7. o[p] <= Last(r) /\ Last(r) \in Nat /\ o[p] \in Nat
        BY <1>1, <3>1, <4>4, <4>5
      <4>8. Last(r) # i
        BY <1>1, <3>3, <3>5, <4>7
      <4>9. Last(r) <= Last(o) /\ Last(o) <= Last(r) /\ Last(o) \in Nat
        BY <3>1, <4>5, <4>6, <4>8
      <4>10. Last(r) = Last(o)
        BY <4>7, <4>9
      <4>11. v = r /\ t = g.top
        BY <2>2, <3>5 DEF r
      <4> QED BY <4>3, <4>4, <4>10, <4>11 DEF Lists
    <3> QED BY <3>4, <3>5
  <2> QED BY <2>1, <2>2
<1>9. v \in Seq(Nat)
  BY <1>8 DEF Enum
<1>10. t \in Nat
  BY <1>1, <1>2
<1> HIDE DEF t, v, f, l
<1>11. /\ Shape(k) /\ Frame(g, k) /\ k.free = f /\ k.avail = v /\ k.top = t
       /\ k.blk[b].head = i /\ \A x \in D(g) \ {b} : k.blk[x] = g.blk[x]
  <2>1. f \in [Levels(g) -> Seq(Nat)] /\ i \in Int
    BY <1>1, <1>6
  <2>2. k = Relisted(g, f, b, i, v, t) /\ v \in Seq(Nat) /\ t \in Nat
    BY <1>3, <1>9, <1>10
  <2> HIDE DEF i
  <2> QED BY <2>1, <2>2, RelistedIs
<1>12. /\ Levels(k) = Levels(g) /\ FreeLen(k) = FreeLen(g) /\ D(k) = D(g)
       /\ \A x \in D(g) : Level(k, x) = Level(g, x)
  BY <1>1, <1>11, LevelFrame DEF Frame
<1>13. Lists(k, X \cup {b})
  <2>1. \A j \in Levels(g) : Once(f[j], AtLevel(k, X \cup {b}, j))
    <3> TAKE j \in Levels(g)
    <3>1. CASE j = i
      <4>1. AtLevel(k, X \cup {b}, j) = AtLevel(g, X, i) \cup {b}
        BY <1>1, <1>12, <3>1 DEF AtLevel
      <4> QED BY <1>5, <1>6, <3>1, <4>1
    <3>2. CASE j # i
      <4>1. AtLevel(k, X \cup {b}, j) = AtLevel(g, X, j)
        BY <1>1, <1>12, <3>2 DEF AtLevel
      <4> QED BY <1>6, <3>2, <4>1 DEF Lists
    <3> QED BY <3>1, <3>2
  <2>2. \A x \in X \cup {b} : k.blk[x].head = Level(k, x)
    BY <1>1, <1>11, <1>12 DEF Lists
  <2>3. InUse(k) = InUse(g) \cup {i}
    BY <1>7, <1>11, <1>12 DEF InUse
  <2> QED BY <1>1, <1>8, <1>11, <1>12, <2>1, <2>2, <2>3 DEF Lists
<1> QED BY <1>11, <1>13

-----------------------------------------------------------------------------
(* The row of storages. *)

Nxt(g, a) == a + Hdr + g.blk[a].size
Row(g) ==
  /\ Enum(g.order, D(g)) /\ 0 \in D(g)
  /\ \A a \in D(g) : Nxt(g, a) <= End /\ (Nxt(g, a) \in D(g) \/ Nxt(g, a) = End)
  /\ \A a, b \in D(g) : a < b => Nxt(g, a) <= b
(* Two free neighbours meet only at an address of E. *)
Apart(g, E) ==
  \A a \in FreeOf(g) : Nxt(g, a) \in FreeOf(g) => Nxt(g, a) \in E
SizeOf(g) == SumOver(TakenOf(g), [a \in TakenOf(g) |-> g.blk[a].size])
ActOf(g) == SumOver(TakenOf(g), [a \in TakenOf(g) |-> g.blk[a].act])
Counts(g) == g.used = SizeOf(g) /\ g.reqs = ActOf(g) /\ g.count = Len(g.order)
Body(g, E) == Shape(g) /\ Row(g) /\ Apart(g, E) /\ Counts(g)

(* The storages that are given out, and the statistics, are the same. *)
Kept(g, k) ==
  /\ k.linear = g.linear /\ TakenOf(k) = TakenOf(g)
  /\ k.used = g.used /\ k.reqs = g.reqs
  /\ \A x \in TakenOf(g) : /\ k.blk[x].size = g.blk[x].size
                           /\ k.blk[x].act = g.blk[x].act

LEMMA NxtIs ==
  ASSUME NEW g, Shape(g), NEW a \in D(g)
  PROVE  Nxt(g, a) \in Nat /\ Nxt(g, a) > a /\ a \in Nat
         /\ Nxt(g, a) = a + Hdr + g.blk[a].size /\ g.blk[a].size \in Nat
BY BlockIs, Sizes DEF Nxt

LEMMA Below ==
  ASSUME NEW g, Shape(g), Row(g), NEW a \in D(g)
  PROVE  a \in 0..(End - 1) /\ a < End
<1>1. Nxt(g, a) <= End
  BY DEF Row
<1> QED BY <1>1, NxtIs, Sizes

(* The neighbours of a storage in the queue order are those in memory. *)
LEMMA Neighbours ==
  ASSUME NEW g, Shape(g), Row(g), NEW a \in D(g),
         NEW k, k = Place(g.order, a)
  PROVE  /\ k \in 1..Len(g.order) /\ g.order[k] = a /\ Len(g.order) \in Nat
         /\ k < Len(g.order) => g.order[k + 1] = Nxt(g, a) /\ Nxt(g, a) \in D(g)
         /\ k = Len(g.order) => Nxt(g, a) = End /\ Nxt(g, a) \notin D(g)
         /\ k > 1 => g.order[k - 1] \in D(g) /\ Nxt(g, g.order[k - 1]) = a
         /\ k = 1 => a = 0
<1> DEFINE o == g.order
<1>1. /\ k \in 1..Len(o) /\ o[k] = a /\ Len(o) \in Nat
      /\ k > 1 => /\ o[k - 1] \in D(g) /\ o[k - 1] < a
                  /\ \A x \in D(g) : x < a => x <= o[k - 1]
      /\ k = 1 => \A x \in D(g) : a <= x
      /\ k < Len(o) => /\ o[k + 1] \in D(g) /\ a < o[k + 1]
                       /\ \A x \in D(g) : a < x => o[k + 1] <= x
      /\ k = Len(o) => \A x \in D(g) : x <= a
  <2>1. Enum(o, D(g))
    BY DEF Row
  <2> QED BY <2>1, EnumNeighbours
<1>2. \A x \in D(g) : Nxt(g, x) \in Nat /\ Nxt(g, x) > x /\ x \in Nat /\ x < End
  BY NxtIs, Below
<1>3. \A x \in D(g) : Nxt(g, x) \in D(g) \/ Nxt(g, x) = End
  BY DEF Row
<1>4. \A x, y \in D(g) : x < y => Nxt(g, x) <= y
  BY DEF Row
<1>5. End \in Nat /\ 0 \in D(g)
  BY Sizes DEF Row
<1>6. ASSUME k < Len(o) PROVE o[k + 1] = Nxt(g, a) /\ Nxt(g, a) \in D(g)
  <2> DEFINE y == o[k + 1]
  <2>1. y \in D(g) /\ a < y /\ \A x \in D(g) : a < x => y <= x
    BY <1>1, <1>6
  <2> HIDE DEF y
  <2>2. Nxt(g, a) <= y /\ y < End
    BY <1>2, <1>4, <2>1
  <2>3. Nxt(g, a) \in D(g)
    BY <1>2, <1>3, <1>5, <2>1, <2>2
  <2>4. y <= Nxt(g, a)
    BY <1>2, <2>1, <2>3
  <2>5. y = Nxt(g, a)
    BY <1>2, <2>1, <2>2, <2>4
  <2> QED BY <2>3, <2>5 DEF y
<1>7. ASSUME k = Len(o) PROVE Nxt(g, a) = End /\ Nxt(g, a) \notin D(g)
  <2>1. Nxt(g, a) \notin D(g)
    BY <1>1, <1>2, <1>7
  <2> QED BY <1>3, <2>1
<1>8. ASSUME k > 1 PROVE o[k - 1] \in D(g) /\ Nxt(g, o[k - 1]) = a
  <2> DEFINE y == o[k - 1]
  <2>1. y \in D(g) /\ y < a /\ \A x \in D(g) : x < a => x <= y
    BY <1>1, <1>8
  <2> HIDE DEF y
  <2>2. Nxt(g, y) <= a /\ a < End
    BY <1>2, <1>4, <2>1
  <2>3. Nxt(g, y) \in D(g)
    BY <1>2, <1>3, <1>5, <2>1, <2>2
  <2>4. ~(Nxt(g, y) < a)
    BY <1>2, <2>1, <2>3
  <2>5. Nxt(g, y) = a
    BY <1>2, <2>1, <2>2, <2>4
  <2> QED BY <2>1, <2>5 DEF y
<1>9. k = 1 => a = 0
  BY <1>1, <1>2, <1>5
<1> QED BY <1>1, <1>6, <1>7, <1>8, <1>9

LEMMA SumsKept ==
  ASSUME NEW g, Shape(g), NEW k, Kept(g, k)
  PROVE  SizeOf(k) = SizeOf(g) /\ ActOf(k) = ActOf(g)
<1> DEFINE T == TakenOf(g)
<1>1. \A x \in T : g.blk[x].size \in Int /\ g.blk[x].act \in Int
  BY BlockIs DEF TakenOf
<1>2. TakenOf(k) = T /\ \A x \in T : /\ k.blk[x].size = g.blk[x].size
                                     /\ k.blk[x].act = g.blk[x].act
  BY DEF Kept
<1> HIDE DEF T
<1>3. SumOver(T, [a \in T |-> k.blk[a].size]) = SumOver(T, [a \in T |-> g.blk[a].size])
  <2> DEFINE x == [a \in T |-> g.blk[a].size]
             y == [a \in T |-> k.blk[a].size]
  <2>1. \A a \in T : x[a] \in Int /\ y[a] = x[a]
    BY <1>1, <1>2
  <2> HIDE DEF x, y
  <2>2. SumOver(T, y) = SumOver(T, x)
    BY <2>1, SumSame
  <2> QED BY <2>2 DEF x, y
<1>4. SumOver(T, [a \in T |-> k.blk[a].act]) = SumOver(T, [a \in T |-> g.blk[a].act])
  <2> DEFINE x == [a \in T |-> g.blk[a].act]
             y == [a \in T |-> k.blk[a].act]
  <2>1. \A a \in T : x[a] \in Int /\ y[a] = x[a]
    BY <1>1, <1>2
  <2> HIDE DEF x, y
  <2>2. SumOver(T, y) = SumOver(T, x)
    BY <2>1, SumSame
  <2> QED BY <2>2 DEF x, y
<1> QED BY <1>2, <1>3, <1>4 DEF SizeOf, ActOf, T

LEMMA KeptOver ==
  ASSUME NEW g, NEW k, NEW q, Kept(g, k), Kept(k, q) PROVE Kept(g, q)
BY DEF Kept

LEMMA BodyFrame ==
  ASSUME NEW g, NEW E, Body(g, E), NEW k, Shape(k), Frame(g, k)
  PROVE  /\ Body(k, E) /\ Kept(g, k) /\ FreeOf(k) = FreeOf(g)
         /\ \A x \in D(g) : Nxt(k, x) = Nxt(g, x)
<1>1. Shape(g) /\ Row(g) /\ Apart(g, E) /\ Counts(g)
  BY DEF Body
<1>2. D(k) = D(g) /\ FreeOf(k) = FreeOf(g) /\ TakenOf(k) = TakenOf(g)
  BY DEF Frame, FreeOf, TakenOf
<1>3. \A x \in D(g) : Nxt(k, x) = Nxt(g, x)
  BY DEF Frame, Nxt
<1>4. Kept(g, k)
  BY <1>2 DEF Frame, Kept, TakenOf
<1>5. Row(k)
  BY <1>1, <1>2, <1>3 DEF Row, Frame
<1>6. Apart(k, E)
  BY <1>1, <1>2, <1>3 DEF Apart, FreeOf
<1>7. Counts(k)
  BY <1>1, <1>4, SumsKept DEF Counts, Frame
<1> QED BY <1>2, <1>3, <1>4, <1>5, <1>6, <1>7 DEF Body

-----------------------------------------------------------------------------
(* Storages are changed, added and removed. *)

(* Headers q, queue o and statistics of g. *)
Changed(g, q, o, u, r, c) ==
  [g EXCEPT !.blk = q, !.order = o, !.used = u, !.reqs = r, !.count = c]

LEMMA ChangedIs ==
  ASSUME NEW g, Shape(g), NEW q \in Blks, NEW o \in Seq(Nat),
         NEW u \in Int, NEW r \in Int, NEW c \in Int,
         NEW k, k = Changed(g, q, o, u, r, c)
  PROVE  /\ Shape(k) /\ k.linear = g.linear /\ k.free = g.free /\ k.avail = g.avail
         /\ k.top = g.top /\ k.blk = q /\ k.order = o /\ D(k) = DOMAIN q
         /\ k.used = u /\ k.reqs = r /\ k.count = c
<1>1. g \in SegRec /\ DOMAIN g.free = Levels(g)
  BY DEF Shape
<1>3. /\ k \in SegRec /\ k.linear = g.linear /\ k.free = g.free /\ k.avail = g.avail
      /\ k.top = g.top /\ k.blk = q /\ k.order = o
      /\ k.used = u /\ k.reqs = r /\ k.count = c
  BY <1>1 DEF SegRec, Changed
<1>4. Levels(k) = Levels(g)
  BY <1>3, LevelSame
<1> QED BY <1>1, <1>3, <1>4 DEF Shape, D

LEMMA ListsSame ==
  ASSUME NEW g, NEW X, Lists(g, X), NEW k, k.linear = g.linear, k.free = g.free,
         k.avail = g.avail, k.top = g.top, X \subseteq D(k),
         \A x \in X : k.blk[x] = g.blk[x]
  PROVE  Lists(k, X)
<1>1. Levels(k) = Levels(g) /\ FreeLen(k) = FreeLen(g)
  BY LevelSame
<1>2. \A x \in X : Level(k, x) = Level(g, x)
  BY LevelSame DEF Level
<1>3. \A l : AtLevel(k, X, l) = AtLevel(g, X, l)
  BY <1>2 DEF AtLevel
<1>4. InUse(k) = InUse(g)
  BY <1>1 DEF InUse
<1> QED BY <1>1, <1>2, <1>3, <1>4 DEF Lists

(* b, free and the next storage, is absorbed by a. *)
LEMMA AbsorbIs ==
  ASSUME NEW g, NEW E, Body(g, E), NEW X, Lists(g, X),
         NEW a \in FreeOf(g) \ X, NEW b \in FreeOf(g) \ X, b = Nxt(g, a),
         NEW k, k = absorb(g, a, b)
  PROVE  /\ Body(k, E \ {b}) /\ Lists(k, X) /\ Kept(g, k)
         /\ FreeOf(k) = FreeOf(g) \ {b} /\ D(k) = D(g) \ {b}
<1> DEFINE n == g.blk[a].size + g.blk[b].size + Hdr
           q == [x \in D(g) \ {b} |-> IF x = a THEN [g.blk[a] EXCEPT !.size = n] ELSE g.blk[x]]
           o == RemoveFirst(g.order, b)
<1>1. Shape(g) /\ Row(g) /\ Apart(g, E) /\ Counts(g) /\ g \in SegRec
  BY DEF Body, Shape
<1>2. a \in D(g) /\ b \in D(g) /\ a # b /\ a \in Nat /\ b \in Nat /\ a < b
      /\ X \subseteq D(g)
  <2>1. a \in D(g) /\ b \in D(g) /\ X \subseteq D(g)
    BY DEF FreeOf, Lists
  <2> QED BY <1>1, <2>1, NxtIs
<1>3. D(g) \in SUBSET Nat /\ g.blk \in [D(g) -> Block] /\ g.used \in Int /\ g.reqs \in Int
      /\ g.count \in Int
  BY <1>1, ShapeIs
<1>4. g.blk[a] \in Block /\ g.blk[a].size \in Nat /\ g.blk[b].size \in Nat /\ n \in Nat
  BY <1>1, <1>2, BlockIs, Sizes
<1>5. [g.blk[a] EXCEPT !.size = n] \in Block /\ [g.blk[a] EXCEPT !.size = n].size = n
      /\ [g.blk[a] EXCEPT !.size = n].alloc = g.blk[a].alloc
  BY <1>4 DEF Block
<1>6. /\ q \in [D(g) \ {b} -> Block] /\ q[a].size = n /\ q[a].alloc = g.blk[a].alloc
      /\ \A x \in D(g) \ {a, b} : q[x] = g.blk[x]
  BY <1>2, <1>3, <1>5
<1>7. Enum(o, D(g) \ {b}) /\ Len(o) = Len(g.order) - 1
  BY <1>1, <1>2, EnumRemove DEF Row
<1>8. k = Changed(g, q, o, g.used, g.reqs, g.count - 1)
  <2>1. [g.blk[a] EXCEPT !.size = @ + g.blk[b].size + Hdr] = [g.blk[a] EXCEPT !.size = n]
    OBVIOUS
  <2>2. k = [g EXCEPT !.blk = q, !.order = o, !.count = g.count - 1]
    BY <2>1 DEF absorb, D
  <2> QED BY <1>1, <2>2 DEF Changed, SegRec
<1> HIDE DEF q, o
<1>9. /\ Shape(k) /\ k.linear = g.linear /\ k.free = g.free /\ k.avail = g.avail
      /\ k.top = g.top /\ k.blk = q /\ k.order = o /\ D(k) = D(g) \ {b}
      /\ k.used = g.used /\ k.reqs = g.reqs /\ k.count = g.count - 1
  <2>1. q \in Blks /\ DOMAIN q = D(g) \ {b}
    BY <1>3, <1>6 DEF Blks
  <2>2. o \in Seq(Nat) /\ g.count - 1 \in Int
    BY <1>3, <1>7 DEF Enum
  <2> QED BY <1>1, <1>3, <1>8, <2>1, <2>2, ChangedIs
<1>10. /\ Nxt(k, a) = Nxt(g, b)
       /\ \A x \in D(k) : x # a => Nxt(k, x) = Nxt(g, x)
  <2>1. Nxt(k, a) = Nxt(g, b)
    BY <1>2, <1>4, <1>6, <1>9, Sizes DEF Nxt
  <2>2. \A x \in D(k) : x # a => k.blk[x] = g.blk[x]
    BY <1>6, <1>9
  <2> QED BY <2>1, <2>2 DEF Nxt
<1>11. FreeOf(k) = FreeOf(g) \ {b}
  BY <1>2, <1>6, <1>9 DEF FreeOf
<1>12. TakenOf(k) = TakenOf(g) /\ a \notin TakenOf(g)
  BY <1>2, <1>9, <1>11 DEF TakenOf
<1>13. Kept(g, k)
  BY <1>6, <1>9, <1>12 DEF Kept, TakenOf
<1>14. Lists(k, X)
  <2>1. X \subseteq D(k) /\ \A x \in X : k.blk[x] = g.blk[x]
    BY <1>2, <1>6, <1>9
  <2> QED BY <1>9, <2>1, ListsSame
<1>15. \A x \in D(g) : Nxt(g, x) \in Nat /\ x < Nxt(g, x) /\ x \in Nat /\ x < End
  BY <1>1, NxtIs, Below
<1>16. Row(k)
  <2>1. Enum(k.order, D(k)) /\ 0 \in D(k)
    BY <1>1, <1>2, <1>7, <1>9 DEF Row
  <2>2. ASSUME NEW x \in D(k)
        PROVE Nxt(k, x) <= End /\ (Nxt(k, x) \in D(k) \/ Nxt(k, x) = End)
    <3>1. CASE x = a
      <4>1. Nxt(g, b) <= End /\ (Nxt(g, b) \in D(g) \/ Nxt(g, b) = End) /\ Nxt(g, b) # b
        BY <1>1, <1>2, <1>15 DEF Row
      <4> QED BY <1>9, <1>10, <3>1, <4>1
    <3>2. CASE x # a
      <4>1. Nxt(g, x) <= End /\ (Nxt(g, x) \in D(g) \/ Nxt(g, x) = End)
        BY <1>1, <1>9 DEF Row
      <4>2. Nxt(g, x) # b
        <5>1. x < a \/ a < x
          BY <1>2, <1>9, <1>15, <3>2
        <5>2. x < a => Nxt(g, x) <= a
          BY <1>1, <1>2, <1>9 DEF Row
        <5>3. a < x => b <= x
          BY <1>1, <1>2, <1>9 DEF Row
        <5> QED BY <1>2, <1>9, <1>15, <5>1, <5>2, <5>3
      <4> QED BY <1>9, <1>10, <3>2, <4>1, <4>2
    <3> QED BY <3>1, <3>2
  <2>3. ASSUME NEW x \in D(k), NEW y \in D(k), x < y PROVE Nxt(k, x) <= y
    <3>1. x \in D(g) /\ y \in D(g) /\ y # b
      BY <1>9
    <3>2. Nxt(g, x) <= y
      BY <1>1, <2>3, <3>1 DEF Row
    <3>3. CASE x = a
      <4>1. b < y
        BY <1>2, <1>15, <3>1, <3>2, <3>3
      <4>2. Nxt(g, b) <= y
        BY <1>1, <1>2, <3>1, <4>1 DEF Row
      <4> QED BY <1>10, <3>3, <4>2
    <3>4. CASE x # a
      BY <1>10, <3>2, <3>4
    <3> QED BY <3>3, <3>4
  <2> QED BY <2>1, <2>2, <2>3 DEF Row
<1>17. Apart(k, E \ {b})
  <2> SUFFICES ASSUME NEW x \in FreeOf(k), Nxt(k, x) \in FreeOf(k)
               PROVE  Nxt(k, x) \in E \ {b}
    BY DEF Apart
  <2>1. Nxt(k, x) \in FreeOf(g) /\ Nxt(k, x) # b /\ x \in D(k) /\ x \in FreeOf(g)
    BY <1>11 DEF FreeOf
  <2>2. CASE x = a
    BY <1>1, <1>10, <2>1, <2>2 DEF Apart
  <2>3. CASE x # a
    BY <1>1, <1>10, <2>1, <2>3 DEF Apart
  <2> QED BY <2>2, <2>3
<1>18. Counts(k)
  BY <1>1, <1>7, <1>9, <1>13, SumsKept DEF Counts
<1> QED BY <1>9, <1>11, <1>13, <1>14, <1>16, <1>17, <1>18 DEF Body

-----------------------------------------------------------------------------
(* shs_shmem_free *)

Seg(g) == Body(g, {}) /\ Lists(g, FreeOf(g))

LEMMA MergePrevIs ==
  ASSUME NEW g, NEW a \in FreeOf(g), Body(g, {a}), Lists(g, FreeOf(g) \ {a}),
         NEW k, k = merge_prev(g, a)
  PROVE  Seg(k) /\ Kept(g, k)
<1> DEFINE i == Place(g.order, a)
           p == g.order[i - 1]
<1>1. Shape(g) /\ Row(g) /\ Apart(g, {a}) /\ a \in D(g)
  BY DEF Body, FreeOf
<1>2. /\ i \in Nat
      /\ i > 1 => p \in D(g) /\ Nxt(g, p) = a
      /\ ~(i > 1) => a = 0
  BY <1>1, Neighbours
<1>3. k = IF i > 1 /\ ~g.blk[p].alloc /\ Adjacent(g, p, a)
          THEN IF Removable(g, p) THEN insert_free(absorb(remove_free(g, p), p, a), p) ELSE g
          ELSE insert_free(g, a)
  BY DEF merge_prev, Place
<1>4. i > 1 => Adjacent(g, p, a)
  BY <1>2 DEF Adjacent, Nxt
<1> HIDE DEF i
<1>5. CASE i > 1 /\ ~g.blk[p].alloc
  <2> DEFINE r == remove_free(g, p)
             q == absorb(r, p, a)
             X == FreeOf(g) \ {a}
  <2>1. p \in D(g) /\ Nxt(g, p) = a /\ p \in FreeOf(g) /\ p # a
    BY <1>1, <1>2, <1>5, NxtIs DEF FreeOf
  <2> HIDE DEF p
  <2>2. p \in X
    BY <2>1
  <2>3. Removable(g, p) /\ Shape(r) /\ Frame(g, r) /\ Lists(r, X \ {p})
    BY <1>1, <2>2, Listing, RemoveFreeIs
  <2> HIDE DEF r
  <2>4. Body(r, {a}) /\ Kept(g, r) /\ FreeOf(r) = FreeOf(g) /\ Nxt(r, p) = a
    BY <2>1, <2>3, BodyFrame
  <2>5. p \in FreeOf(r) \ (X \ {p}) /\ a \in FreeOf(r) \ (X \ {p})
    BY <2>1, <2>4
  <2> DEFINE Z == X \ {p}
  <2>6. Z = X \ {p}
    OBVIOUS
  <2> HIDE DEF Z
  <2>7. /\ Body(q, {a} \ {a}) /\ Lists(q, Z) /\ Kept(r, q)
        /\ FreeOf(q) = FreeOf(r) \ {a} /\ D(q) = D(r) \ {a}
    BY <2>3, <2>4, <2>5, <2>6, AbsorbIs
  <2> HIDE DEF q
  <2>8. Body(q, {}) /\ Shape(q) /\ p \in D(q) /\ p \in FreeOf(q) /\ p \notin Z
    <3>1. {a} \ {a} = {}
      OBVIOUS
    <3> QED BY <2>1, <2>4, <2>6, <2>7, <3>1 DEF Body, FreeOf
  <2>9. k = insert_free(q, p)
    BY <1>3, <1>4, <1>5, <2>3 DEF q, r, p
  <2>10. Shape(k) /\ Frame(q, k) /\ Lists(k, Z \cup {p})
    BY <2>7, <2>8, <2>9, InsertFreeIs
  <2>11. Body(k, {}) /\ Kept(q, k) /\ FreeOf(k) = FreeOf(q)
    BY <2>8, <2>10, BodyFrame
  <2>12. Z \cup {p} = FreeOf(k)
    BY <2>1, <2>4, <2>6, <2>7, <2>11
  <2> QED BY <2>4, <2>7, <2>10, <2>11, <2>12, KeptOver DEF Seg
<1>6. CASE ~(i > 1 /\ ~g.blk[p].alloc)
  <2>1. k = insert_free(g, a)
    BY <1>3, <1>6
  <2>2. Apart(g, {})
    <3> SUFFICES ASSUME NEW x \in FreeOf(g), Nxt(g, x) \in FreeOf(g) PROVE FALSE
      BY DEF Apart
    <3>1. Nxt(g, x) = a
      BY <1>1 DEF Apart
    <3>2. x \in D(g) /\ x \in Nat /\ x < a /\ a \in Nat /\ ~g.blk[x].alloc
      BY <1>1, <3>1, NxtIs DEF FreeOf
    <3>3. i > 1
      BY <1>2, <3>2
    <3>4. p \in D(g) /\ Nxt(g, p) = a /\ g.blk[p].alloc /\ p \in Nat /\ p < a
      BY <1>1, <1>2, <1>6, <3>3, NxtIs
    <3> HIDE DEF p
    <3>5. x # p
      BY <3>2, <3>4
    <3>6. x < p \/ p < x
      BY <3>2, <3>4, <3>5
    <3>7. x < p => Nxt(g, x) <= p
      BY <1>1, <3>2, <3>4 DEF Row
    <3>8. p < x => Nxt(g, p) <= x
      BY <1>1, <3>2, <3>4 DEF Row
    <3> QED BY <3>1, <3>2, <3>4, <3>6, <3>7, <3>8
  <2>3. Body(g, {})
    BY <2>2 DEF Body
  <2> DEFINE X == FreeOf(g) \ {a}
  <2>4. Lists(g, X) /\ a \notin X /\ X \cup {a} = FreeOf(g)
    OBVIOUS
  <2> HIDE DEF X
  <2>5. Shape(k) /\ Frame(g, k) /\ Lists(k, X \cup {a})
    BY <1>1, <2>1, <2>4, InsertFreeIs
  <2>6. Body(k, {}) /\ Kept(g, k) /\ FreeOf(k) = FreeOf(g)
    BY <2>3, <2>5, BodyFrame
  <2> QED BY <2>4, <2>5, <2>6 DEF Seg
<1> QED BY <1>5, <1>6

LEMMA MergeNextIs ==
  ASSUME NEW g, NEW a \in FreeOf(g), Body(g, {a, Nxt(g, a)}), Lists(g, FreeOf(g) \ {a}),
         NEW k, k = merge_next(g, a)
  PROVE  Seg(k) /\ Kept(g, k)
<1> DEFINE i == Place(g.order, a)
           n == g.order[i + 1]
<1>1. Shape(g) /\ Row(g) /\ Apart(g, {a, Nxt(g, a)}) /\ a \in D(g)
  BY DEF Body, FreeOf
<1>2. /\ i < Len(g.order) => n = Nxt(g, a) /\ n \in D(g)
      /\ ~(i < Len(g.order)) => Nxt(g, a) \notin D(g)
  <2>1. /\ i \in 1..Len(g.order) /\ Len(g.order) \in Nat
        /\ i < Len(g.order) => n = Nxt(g, a) /\ n \in D(g)
        /\ i = Len(g.order) => Nxt(g, a) \notin D(g)
    BY <1>1, Neighbours
  <2> HIDE DEF i, n
  <2> QED BY <2>1
<1>3. k = IF i < Len(g.order) /\ ~g.blk[n].alloc /\ Adjacent(g, a, n)
          THEN IF Removable(g, n) THEN merge_prev(absorb(remove_free(g, n), a, n), a) ELSE g
          ELSE merge_prev(g, a)
  BY DEF merge_next, Place
<1>4. i < Len(g.order) => Adjacent(g, a, n)
  BY <1>2 DEF Adjacent, Nxt
<1> HIDE DEF i
<1>5. CASE i < Len(g.order) /\ ~g.blk[n].alloc
  <2> DEFINE r == remove_free(g, n)
             q == absorb(r, a, n)
             X == FreeOf(g) \ {a}
  <2>1. n \in D(g) /\ n = Nxt(g, a) /\ n \in FreeOf(g) /\ n # a
    BY <1>1, <1>2, <1>5, NxtIs DEF FreeOf
  <2> HIDE DEF n
  <2>2. n \in X
    BY <2>1
  <2>3. Removable(g, n) /\ Shape(r) /\ Frame(g, r) /\ Lists(r, X \ {n})
    BY <1>1, <2>2, Listing, RemoveFreeIs
  <2> HIDE DEF r
  <2>4. Body(r, {a, n}) /\ Kept(g, r) /\ FreeOf(r) = FreeOf(g) /\ Nxt(r, a) = n
    BY <1>1, <2>1, <2>3, BodyFrame
  <2> DEFINE Z == X \ {n}
  <2>5. Z = X \ {n}
    OBVIOUS
  <2>6. n \in FreeOf(r) \ Z /\ a \in FreeOf(r) \ Z
    BY <2>1, <2>4
  <2> HIDE DEF Z
  <2>7. /\ Body(q, {a, n} \ {n}) /\ Lists(q, Z) /\ Kept(r, q)
        /\ FreeOf(q) = FreeOf(r) \ {n}
    BY <2>3, <2>4, <2>5, <2>6, AbsorbIs
  <2> HIDE DEF q
  <2>8. {a, n} \ {n} = {a} /\ Z = FreeOf(q) \ {a} /\ a \in FreeOf(q)
    BY <2>1, <2>4, <2>5, <2>7
  <2>9. k = merge_prev(q, a)
    BY <1>3, <1>4, <1>5, <2>3 DEF q, r, n
  <2>10. Body(q, {a}) /\ Lists(q, FreeOf(q) \ {a})
    BY <2>7, <2>8
  <2>11. Seg(k) /\ Kept(q, k)
    BY <2>8, <2>9, <2>10, MergePrevIs
  <2> QED BY <2>4, <2>7, <2>11, KeptOver
<1>6. CASE ~(i < Len(g.order) /\ ~g.blk[n].alloc)
  <2>1. k = merge_prev(g, a)
    BY <1>3, <1>6
  <2>2. Nxt(g, a) \notin FreeOf(g)
    BY <1>2, <1>6 DEF FreeOf
  <2>3. Body(g, {a})
    BY <2>2 DEF Body, Apart
  <2> QED BY <2>1, <2>3, MergePrevIs
<1> QED BY <1>5, <1>6

(* One more storage is given out. *)
LEMMA SumsTaken ==
  ASSUME NEW g, Shape(g), NEW k, Shape(k), NEW a \in 0..(End - 1), a \notin TakenOf(g),
         TakenOf(k) = TakenOf(g) \cup {a},
         \A x \in TakenOf(g) : /\ k.blk[x].size = g.blk[x].size
                               /\ k.blk[x].act = g.blk[x].act
  PROVE  /\ SizeOf(g) \in Int /\ SizeOf(k) = SizeOf(g) + k.blk[a].size
         /\ ActOf(g) \in Int /\ ActOf(k) = ActOf(g) + k.blk[a].act
<1> DEFINE T == TakenOf(g)
           V == TakenOf(k)
<1>1. \A x \in T : g.blk[x].size \in Int /\ g.blk[x].act \in Int
  BY BlockIs DEF TakenOf
<1>2. \A x \in V : k.blk[x].size \in Int /\ k.blk[x].act \in Int
  BY BlockIs DEF TakenOf
<1> DEFINE s == [x \in T |-> g.blk[x].size]
           t == [x \in V |-> k.blk[x].size]
           c == [x \in T |-> g.blk[x].act]
           d == [x \in V |-> k.blk[x].act]
<1>3. /\ a \in V /\ a \notin T /\ V = T \cup {a}
      /\ \A x \in T : s[x] \in Int /\ t[x] = s[x] /\ c[x] \in Int /\ d[x] = c[x]
      /\ \A x \in V : t[x] \in Int /\ d[x] \in Int
      /\ t[a] = k.blk[a].size /\ d[a] = k.blk[a].act
  BY <1>1, <1>2
<1>4. SizeOf(g) = SumOver(T, s) /\ SizeOf(k) = SumOver(V, t)
      /\ ActOf(g) = SumOver(T, c) /\ ActOf(k) = SumOver(V, d)
  BY DEF SizeOf, ActOf
<1> HIDE DEF T, V, s, t, c, d
<1>5. \A y : y # a => ((y \in T) <=> (y \in V)) /\ (y \in T => s[y] = t[y] /\ c[y] = d[y])
  BY <1>3
<1>6. SumOver(T, s) \in Int /\ SumOver(V, t) = SumOver(T, s) - Term(T, s, a) + Term(V, t, a)
  <2>1. (\A y \in T : s[y] \in Int) /\ (\A y \in V : t[y] \in Int)
    BY <1>3
  <2>2. \A y : y # a => ((y \in T) <=> (y \in V)) /\ (y \in T => s[y] = t[y])
    BY <1>5
  <2> QED BY <2>1, <2>2, SumChange
<1>7. SumOver(T, c) \in Int /\ SumOver(V, d) = SumOver(T, c) - Term(T, c, a) + Term(V, d, a)
  <2>1. (\A y \in T : c[y] \in Int) /\ (\A y \in V : d[y] \in Int)
    BY <1>3
  <2>2. \A y : y # a => ((y \in T) <=> (y \in V)) /\ (y \in T => c[y] = d[y])
    BY <1>5
  <2> QED BY <2>1, <2>2, SumChange
<1>8. Term(T, s, a) = 0 /\ Term(V, t, a) = t[a] /\ Term(T, c, a) = 0 /\ Term(V, d, a) = d[a]
  BY <1>3 DEF Term
<1>9. t[a] \in Int /\ d[a] \in Int
  BY <1>3
<1> QED BY <1>3, <1>4, <1>6, <1>7, <1>8, <1>9

(* Those given out by k are those of g without a, or with it. *)
Less(g, k, a) ==
  /\ k.linear = g.linear /\ TakenOf(k) = TakenOf(g) \ {a}
  /\ \A x \in TakenOf(k) : k.blk[x].size = g.blk[x].size
More(g, k, a) ==
  /\ k.linear = g.linear /\ a \notin TakenOf(g) /\ TakenOf(k) = TakenOf(g) \cup {a}
  /\ \A x \in TakenOf(g) : k.blk[x].size = g.blk[x].size

LEMMA FreeIs ==
  ASSUME NEW g, Seg(g), NEW a \in TakenOf(g), NEW k, k = shm_free(g, a)
  PROVE  Seg(k) /\ Less(g, k, a)
<1> DEFINE q == [g.blk EXCEPT ![a].alloc = FALSE]
           r == Changed(g, q, g.order, g.used - g.blk[a].size, g.reqs - g.blk[a].act, g.count)
<1>1. /\ Body(g, {}) /\ Lists(g, FreeOf(g)) /\ Shape(g) /\ Row(g) /\ Apart(g, {})
      /\ Counts(g) /\ g \in SegRec
  BY DEF Seg, Body, Shape
<1>2. a \in D(g) /\ a \notin FreeOf(g) /\ a \in 0..(End - 1)
  <2>1. a \in D(g) /\ a \notin FreeOf(g)
    BY DEF TakenOf
  <2> QED BY <1>1, <2>1, Below
<1>3. /\ D(g) \in SUBSET Nat /\ g.blk \in [D(g) -> Block] /\ g.used \in Int /\ g.reqs \in Int
      /\ g.count \in Int /\ g.order \in Seq(Nat)
      /\ g.blk[a].size \in Int /\ g.blk[a].act \in Int
  BY <1>1, <1>2, ShapeIs, BlockIs
<1>4. /\ q \in [D(g) -> Block] /\ q[a].alloc = FALSE
      /\ q[a].size = g.blk[a].size /\ q[a].act = g.blk[a].act
      /\ \A x \in D(g) \ {a} : q[x] = g.blk[x]
  BY <1>2, <1>3 DEF Block
<1>5. g.blk[a].alloc
  BY <1>2 DEF FreeOf
<1>6. k = merge_next(r, a)
  <2>1. [g EXCEPT !.used = g.used - g.blk[a].size, !.reqs = g.reqs - g.blk[a].act,
                  !.blk[a].alloc = FALSE] = r
    BY <1>1 DEF Changed, SegRec
  <2> QED BY <1>5, <2>1 DEF shm_free
<1> HIDE DEF q
<1>7. /\ Shape(r) /\ r.linear = g.linear /\ r.free = g.free /\ r.avail = g.avail
      /\ r.top = g.top /\ r.blk = q /\ r.order = g.order /\ D(r) = D(g)
      /\ r.used = g.used - g.blk[a].size /\ r.reqs = g.reqs - g.blk[a].act
      /\ r.count = g.count
  <2>1. q \in Blks /\ DOMAIN q = D(g)
    BY <1>3, <1>4 DEF Blks
  <2>2. g.used - g.blk[a].size \in Int /\ g.reqs - g.blk[a].act \in Int
    BY <1>3
  <2> DEFINE u == g.used - g.blk[a].size
             c == g.reqs - g.blk[a].act
  <2>3. r = Changed(g, q, g.order, u, c, g.count) /\ u \in Int /\ c \in Int
    BY <2>2
  <2> HIDE DEF r, u, c
  <2>4. /\ Shape(r) /\ r.linear = g.linear /\ r.free = g.free /\ r.avail = g.avail
        /\ r.top = g.top /\ r.blk = q /\ r.order = g.order /\ D(r) = D(g)
        /\ r.used = u /\ r.reqs = c /\ r.count = g.count
    BY <1>1, <1>3, <2>1, <2>3, ChangedIs
  <2> QED BY <2>4 DEF u, c
<1> HIDE DEF r
<1>8. FreeOf(r) = FreeOf(g) \cup {a} /\ TakenOf(g) = TakenOf(r) \cup {a} /\ a \notin TakenOf(r)
      /\ TakenOf(r) = TakenOf(g) \ {a}
  <2>1. FreeOf(r) = FreeOf(g) \cup {a}
    BY <1>2, <1>4, <1>7 DEF FreeOf
  <2> QED BY <1>2, <1>7, <2>1 DEF TakenOf
<1>9. \A x \in D(g) : r.blk[x].size = g.blk[x].size /\ r.blk[x].act = g.blk[x].act
  BY <1>4, <1>7
<1>10. \A x \in D(g) : Nxt(r, x) = Nxt(g, x)
  BY <1>9 DEF Nxt
<1>11. Row(r)
  BY <1>1, <1>7, <1>10 DEF Row
<1>12. Apart(r, {a, Nxt(r, a)})
  <2> SUFFICES ASSUME NEW x \in FreeOf(r), Nxt(r, x) \in FreeOf(r), x # a, Nxt(r, x) # a
               PROVE  FALSE
    BY DEF Apart
  <2>1. x \in FreeOf(g) /\ Nxt(g, x) \in FreeOf(g)
    BY <1>8, <1>10 DEF FreeOf
  <2> QED BY <1>1, <2>1 DEF Apart
<1>13. Counts(r)
  <2>1. \A x \in TakenOf(r) : /\ g.blk[x].size = r.blk[x].size
                              /\ g.blk[x].act = r.blk[x].act
    BY <1>7, <1>9 DEF TakenOf
  <2>2. /\ SizeOf(r) \in Int /\ SizeOf(g) = SizeOf(r) + g.blk[a].size
        /\ ActOf(r) \in Int /\ ActOf(g) = ActOf(r) + g.blk[a].act
    <3>1. Shape(g) /\ Shape(r) /\ a \in 0..(End - 1) /\ a \notin TakenOf(r)
          /\ TakenOf(g) = TakenOf(r) \cup {a}
      BY <1>1, <1>2, <1>7, <1>8
    <3> QED BY <2>1, <3>1, SumsTaken
  <2> QED BY <1>1, <1>3, <1>7, <2>2 DEF Counts
<1>14. Lists(r, FreeOf(r) \ {a})
  <2> DEFINE X == FreeOf(g)
  <2>1. X \subseteq D(r) /\ \A x \in X : r.blk[x] = g.blk[x]
    BY <1>2, <1>4, <1>7 DEF FreeOf
  <2>2. X = FreeOf(r) \ {a} /\ Lists(g, X)
    BY <1>1, <1>2, <1>8
  <2> HIDE DEF X
  <2>3. Lists(r, X)
    BY <1>7, <2>1, <2>2, ListsSame
  <2> QED BY <2>2, <2>3
<1>15. Seg(k) /\ Kept(r, k)
  <2>1. a \in FreeOf(r) /\ Body(r, {a, Nxt(r, a)})
    BY <1>7, <1>8, <1>11, <1>12, <1>13 DEF Body
  <2> QED BY <1>6, <1>14, <2>1, MergeNextIs
<1>16. Less(g, k, a)
  BY <1>7, <1>8, <1>9, <1>15 DEF Less, Kept, TakenOf
<1> QED BY <1>15, <1>16

-----------------------------------------------------------------------------
(* shs_shmem_alloc *)

(* k is g after its storage a is given out as a whole, for n bytes. *)
Whole(g, k, a, n) ==
  /\ Shape(k) /\ k.linear = g.linear /\ k.free = g.free /\ k.avail = g.avail
  /\ k.top = g.top /\ k.order = g.order /\ D(k) = D(g) /\ k.count = g.count
  /\ k.used = g.used + g.blk[a].size /\ k.reqs = g.reqs + n
  /\ k.blk[a].alloc = TRUE /\ k.blk[a].size = g.blk[a].size /\ k.blk[a].act = n
  /\ \A x \in D(g) \ {a} : k.blk[x] = g.blk[x]

LEMMA WholeFields ==
  ASSUME NEW g, Shape(g), NEW a \in D(g), NEW n \in Nat
  PROVE  Whole(g, [g EXCEPT !.blk[a].alloc = TRUE, !.blk[a].act = n,
                            !.used = g.used + g.blk[a].size, !.reqs = g.reqs + n], a, n)
<1> DEFINE q == [g.blk EXCEPT ![a].alloc = TRUE, ![a].act = n]
           u == g.used + g.blk[a].size
           c == g.reqs + n
           k == Changed(g, q, g.order, u, c, g.count)
<1>1. /\ D(g) \in SUBSET Nat /\ g.blk \in [D(g) -> Block] /\ g.used \in Int /\ g.reqs \in Int
      /\ g.count \in Int /\ g.order \in Seq(Nat) /\ g.blk[a].size \in Int /\ g \in SegRec
  BY ShapeIs, BlockIs DEF Shape
<1>2. [g EXCEPT !.blk[a].alloc = TRUE, !.blk[a].act = n,
                !.used = g.used + g.blk[a].size, !.reqs = g.reqs + n] = k
  BY <1>1 DEF Changed, SegRec
<1>3. /\ q \in [D(g) -> Block] /\ q[a].alloc = TRUE
      /\ q[a].size = g.blk[a].size /\ q[a].act = n
      /\ \A x \in D(g) \ {a} : q[x] = g.blk[x]
  BY <1>1 DEF Block
<1> HIDE DEF q
<1>4. q \in Blks /\ DOMAIN q = D(g)
  BY <1>1, <1>3 DEF Blks
<1>5. u \in Int /\ c \in Int
  BY <1>1
<1>6. u = g.used + g.blk[a].size /\ c = g.reqs + n /\ k = Changed(g, q, g.order, u, c, g.count)
  OBVIOUS
<1> HIDE DEF u, c, k
<1>7. /\ Shape(k) /\ k.linear = g.linear /\ k.free = g.free /\ k.avail = g.avail
      /\ k.top = g.top /\ k.blk = q /\ k.order = g.order /\ D(k) = D(g)
      /\ k.used = u /\ k.reqs = c /\ k.count = g.count
  BY <1>1, <1>4, <1>5, <1>6, ChangedIs
<1>8. Whole(g, k, a, n)
  BY <1>3, <1>6, <1>7 DEF Whole
<1> QED BY <1>2, <1>8

LEMMA WholeIs ==
  ASSUME NEW g, Body(g, {}), NEW a \in FreeOf(g), Lists(g, FreeOf(g) \ {a}),
         NEW n \in Nat, NEW k, Whole(g, k, a, n)
  PROVE  Seg(k) /\ More(g, k, a) /\ k.blk[a].size = g.blk[a].size
<1>1. Shape(g) /\ Row(g) /\ Apart(g, {}) /\ Counts(g) /\ a \in D(g)
  BY DEF Body, FreeOf
<1>2. a \in 0..(End - 1) /\ a \notin TakenOf(g)
  BY <1>1, Below DEF TakenOf
<1>4. /\ k.blk[a].alloc = TRUE
      /\ k.blk[a].size = g.blk[a].size /\ k.blk[a].act = n
      /\ \A x \in D(g) \ {a} : k.blk[x] = g.blk[x]
  BY DEF Whole
<1>5. /\ Shape(k) /\ k.linear = g.linear /\ k.free = g.free /\ k.avail = g.avail
      /\ k.top = g.top /\ k.order = g.order /\ D(k) = D(g)
      /\ k.used = g.used + g.blk[a].size /\ k.reqs = g.reqs + n /\ k.count = g.count
  BY DEF Whole
<1>6. FreeOf(k) = FreeOf(g) \ {a} /\ TakenOf(k) = TakenOf(g) \cup {a}
  <2>1. FreeOf(k) = FreeOf(g) \ {a}
    BY <1>1, <1>4, <1>5 DEF FreeOf
  <2> QED BY <1>1, <1>5, <2>1 DEF TakenOf
<1>7. \A x \in D(g) : k.blk[x].size = g.blk[x].size /\ (x # a => k.blk[x].act = g.blk[x].act)
  BY <1>4, <1>5
<1>8. \A x \in D(g) : Nxt(k, x) = Nxt(g, x)
  BY <1>7 DEF Nxt
<1>9. Row(k)
  BY <1>1, <1>5, <1>8 DEF Row
<1>10. Apart(k, {})
  BY <1>1, <1>6, <1>8 DEF Apart, FreeOf
<1>11. Counts(k)
  <2>1. \A x \in TakenOf(g) : /\ k.blk[x].size = g.blk[x].size
                              /\ k.blk[x].act = g.blk[x].act
    BY <1>2, <1>7 DEF TakenOf
  <2>2. /\ SizeOf(g) \in Int /\ SizeOf(k) = SizeOf(g) + k.blk[a].size
        /\ ActOf(g) \in Int /\ ActOf(k) = ActOf(g) + k.blk[a].act
    <3>1. Shape(g) /\ Shape(k)
      BY <1>1, <1>5
    <3> QED BY <1>2, <1>6, <2>1, <3>1, SumsTaken
  <2>3. k.blk[a].size = g.blk[a].size /\ k.blk[a].act = n
    BY <1>4, <1>5
  <2> QED BY <1>1, <1>5, <2>2, <2>3 DEF Counts
<1>12. Lists(k, FreeOf(k))
  <2> DEFINE X == FreeOf(g) \ {a}
  <2>1. X \subseteq D(k) /\ \A x \in X : k.blk[x] = g.blk[x]
    BY <1>4, <1>5 DEF FreeOf
  <2>2. X = FreeOf(k) /\ Lists(g, X)
    BY <1>6
  <2> HIDE DEF X
  <2>3. Lists(k, X)
    BY <1>5, <2>1, <2>2, ListsSame
  <2> QED BY <2>2, <2>3
<1>13. More(g, k, a)
  BY <1>2, <1>5, <1>6, <1>7 DEF More, TakenOf
<1> QED BY <1>4, <1>5, <1>9, <1>10, <1>11, <1>12, <1>13 DEF Seg, Body

LEMMA TakeIs ==
  ASSUME NEW g, Body(g, {}), NEW a \in FreeOf(g), Lists(g, FreeOf(g) \ {a}),
         NEW n \in Nat, n <= g.blk[a].size, NEW k, k = take(g, a, n)
  PROVE  Seg(k) /\ More(g, k, a) /\ k.blk[a].size >= n
<1>1. Shape(g) /\ Row(g) /\ Apart(g, {}) /\ Counts(g) /\ a \in D(g) /\ g \in SegRec
  BY DEF Body, FreeOf, Shape
<1>2. a \in 0..(End - 1) /\ a \notin TakenOf(g) /\ a \in Nat
  BY <1>1, Below DEF TakenOf
<1>3. /\ D(g) \in SUBSET Nat /\ g.blk \in [D(g) -> Block] /\ g.used \in Int /\ g.reqs \in Int
      /\ g.count \in Int /\ g.order \in Seq(Nat) /\ g.blk[a].size \in Nat /\ g.blk[a] \in Block
  BY <1>1, ShapeIs, BlockIs
<1>4. CASE g.blk[a].size - n < Hdr + MinSize
  <2>1. k = [g EXCEPT !.blk[a].alloc = TRUE, !.blk[a].act = n,
                      !.used = g.used + g.blk[a].size, !.reqs = g.reqs + n]
    BY <1>4 DEF take
  <2>2. Whole(g, k, a, n)
    <3>1. a \in D(g) /\ Shape(g)
      BY <1>1
    <3>2. Whole(g, [g EXCEPT !.blk[a].alloc = TRUE, !.blk[a].act = n,
                             !.used = g.used + g.blk[a].size, !.reqs = g.reqs + n], a, n)
      BY <3>1, WholeFields, Zenon
    <3> QED BY <2>1, <3>2, Zenon
  <2>3. Seg(k) /\ More(g, k, a) /\ k.blk[a].size = g.blk[a].size
    BY <2>2, WholeIs
  <2> QED BY <1>3, <2>3
<1>5. CASE ~(g.blk[a].size - n < Hdr + MinSize)
  <2> DEFINE rest == a + Hdr + n
             cut == [g.blk EXCEPT ![a].alloc = TRUE, ![a].size = n, ![a].act = n]
             new == [g.blk[a] EXCEPT !.size = g.blk[a].size - (n + Hdr)]
             q == [b \in D(g) \cup {rest} |-> IF b = rest THEN new ELSE cut[b]]
             p == Place(g.order, a) + 1
             o == InsertAt(g.order, p, rest)
             r == Changed(g, q, o, g.used + n, g.reqs + n, g.count + 1)
  <2>1. k = insert_free(r, rest)
    <3>1. k = insert_free([g EXCEPT
                 !.blk = [b \in DOMAIN cut \cup {rest} |-> IF b = rest THEN new ELSE cut[b]],
                 !.order = o, !.used = g.used + n, !.reqs = g.reqs + n,
                 !.count = g.count + 1], rest)
      BY <1>5 DEF take, Place
    <3>2. DOMAIN cut = D(g)
      BY DEF D
    <3>3. [g EXCEPT
             !.blk = [b \in DOMAIN cut \cup {rest} |-> IF b = rest THEN new ELSE cut[b]],
             !.order = o, !.used = g.used + n, !.reqs = g.reqs + n, !.count = g.count + 1] = r
      <4> HIDE DEF cut, new, o, rest
      <4> QED BY <3>2 DEF Changed
    <3> QED BY <3>1, <3>3
  <2>2. /\ Nxt(g, a) = a + Hdr + g.blk[a].size /\ Hdr \in Nat \ {0} /\ MinSize \in Nat
        /\ g.blk[a].size - (n + Hdr) \in Nat
        /\ rest \in Nat /\ a < rest /\ rest < Nxt(g, a) /\ Nxt(g, a) \in Nat
        /\ rest + Hdr + (g.blk[a].size - (n + Hdr)) = Nxt(g, a)
    <3> DEFINE z == g.blk[a].size
    <3>1. z \in Nat /\ ~(z - n < Hdr + MinSize) /\ Nxt(g, a) = a + Hdr + z
      BY <1>3, <1>5 DEF Nxt
    <3> HIDE DEF z
    <3>2. /\ Hdr \in Nat \ {0} /\ MinSize \in Nat /\ z - (n + Hdr) \in Nat
          /\ rest \in Nat /\ a < rest /\ rest < Nxt(g, a) /\ Nxt(g, a) \in Nat
          /\ rest + Hdr + (z - (n + Hdr)) = Nxt(g, a)
      BY <1>2, <3>1, Sizes
    <3> QED BY <3>1, <3>2 DEF z
  <2>3. \A x \in D(g) : x \in Nat /\ Nxt(g, x) \in Nat /\ x < Nxt(g, x)
                        /\ (x <= a \/ Nxt(g, a) <= x) /\ (x < a => Nxt(g, x) <= a)
    <3>1. \A x \in D(g) : x \in Nat /\ Nxt(g, x) \in Nat /\ x < Nxt(g, x)
      BY <1>1, NxtIs
    <3> QED BY <1>1, <1>2, <3>1 DEF Row
  <2>4. rest \notin D(g) /\ rest # a /\ \A x \in D(g) : x < rest <=> x <= a
    BY <1>2, <2>2, <2>3
  <2>5. /\ cut \in [D(g) -> Block] /\ cut[a].alloc = TRUE /\ cut[a].size = n /\ cut[a].act = n
        /\ \A x \in D(g) \ {a} : cut[x] = g.blk[x]
    BY <1>1, <1>3 DEF Block
  <2>6. /\ new \in Block /\ new.size = g.blk[a].size - (n + Hdr)
        /\ new.alloc = g.blk[a].alloc
    BY <1>3, <2>2 DEF Block
  <2> HIDE DEF cut, new
  <2>7. /\ q \in [D(g) \cup {rest} -> Block]
        /\ q[a].alloc = TRUE /\ q[a].size = n /\ q[a].act = n
        /\ q[rest] = new /\ \A x \in D(g) \ {a} : q[x] = g.blk[x]
    BY <1>1, <2>4, <2>5, <2>6
  <2> HIDE DEF q
  <2>8. Enum(o, D(g) \cup {rest}) /\ Len(o) = Len(g.order) + 1
    <3> DEFINE s == g.order
    <3>1. Enum(s, D(g)) /\ Once(s, D(g))
      BY <1>1, EnumOnce DEF Row
    <3>2. Place(s, a) \in 1..Len(s) /\ s[Place(s, a)] = a
      BY <1>1, <3>1, PlaceIs
    <3>3. Len(s) \in Nat /\ (\A i \in 1..Len(s) : s[i] \in D(g) /\ s[i] \in Nat)
          /\ \A i, j \in 1..Len(s) : i < j => s[i] < s[j]
      BY <3>1, <1>3 DEF Enum
    <3>4. \A i \in 1..Len(s) : i < p <=> s[i] < rest
      <4> TAKE i \in 1..Len(s)
      <4> DEFINE t == Place(s, a)
      <4>1. t \in 1..Len(s) /\ s[t] = a /\ p = t + 1
        BY <3>2
      <4> HIDE DEF t, p
      <4>2. CASE i <= t
        <5>1. s[i] <= a
          BY <1>2, <3>3, <4>1, <4>2
        <5> QED BY <2>4, <3>3, <4>1, <4>2, <5>1
      <4>3. CASE i > t
        <5>1. a < s[i]
          BY <1>2, <3>3, <4>1, <4>3
        <5>2. ~(s[i] <= a)
          BY <1>2, <3>3, <5>1
        <5> QED BY <2>4, <3>3, <4>1, <4>3, <5>2
      <4> QED BY <3>3, <4>1, <4>2, <4>3
    <3>5. p \in 1..(Len(s) + 1)
      BY <3>2, <3>3
    <3> HIDE DEF p, rest, s
    <3>6. Enum(InsertAt(s, p, rest), D(g) \cup {rest}) /\ Len(InsertAt(s, p, rest)) = Len(s) + 1
      BY <2>2, <2>4, <3>1, <3>4, <3>5, EnumInsert
    <3> QED BY <3>6 DEF s
  <2> HIDE DEF o, p
  <2>9. /\ Shape(r) /\ r.linear = g.linear /\ r.free = g.free /\ r.avail = g.avail
        /\ r.top = g.top /\ r.blk = q /\ r.order = o /\ D(r) = D(g) \cup {rest}
        /\ r.used = g.used + n /\ r.reqs = g.reqs + n /\ r.count = g.count + 1
    <3>1. q \in Blks /\ DOMAIN q = D(g) \cup {rest}
      <4>1. D(g) \cup {rest} \in SUBSET Nat
        BY <1>3, <2>2
      <4> HIDE DEF rest
      <4> QED BY <2>7, <4>1 DEF Blks
    <3> DEFINE u == g.used + n
               v == g.reqs + n
               c == g.count + 1
    <3>2. r = Changed(g, q, o, u, v, c) /\ u \in Int /\ v \in Int /\ c \in Int /\ o \in Seq(Nat)
      <4>1. u \in Int /\ v \in Int /\ c \in Int
        BY <1>3
      <4>2. o \in Seq(Nat)
        BY <2>8 DEF Enum
      <4> QED BY <4>1, <4>2
    <3> HIDE DEF u, v, c, r
    <3>3. /\ Shape(r) /\ r.linear = g.linear /\ r.free = g.free /\ r.avail = g.avail
          /\ r.top = g.top /\ r.blk = q /\ r.order = o /\ D(r) = DOMAIN q
          /\ r.used = u /\ r.reqs = v /\ r.count = c
      BY <1>1, <3>1, <3>2, ChangedIs
    <3> QED BY <3>1, <3>3 DEF u, v, c
  <2> HIDE DEF r
  <2>10. /\ Nxt(r, a) = rest /\ Nxt(r, rest) = Nxt(g, a)
         /\ \A x \in D(g) : x # a => Nxt(r, x) = Nxt(g, x)
    <3>1. Nxt(r, a) = rest
      BY <2>7, <2>9 DEF Nxt
    <3>2. Nxt(r, rest) = Nxt(g, a)
      <4>1. r.blk[rest].size = g.blk[a].size - (n + Hdr)
        BY <2>6, <2>7, <2>9
      <4>2. Nxt(r, rest) = rest + Hdr + r.blk[rest].size
        BY DEF Nxt
      <4> HIDE DEF rest
      <4> QED BY <2>2, <4>1, <4>2
    <3>3. \A x \in D(g) : x # a => Nxt(r, x) = Nxt(g, x)
      BY <2>7, <2>9 DEF Nxt
    <3> QED BY <3>1, <3>2, <3>3
  <2> HIDE DEF rest
  <2>11. FreeOf(r) = (FreeOf(g) \ {a}) \cup {rest} /\ TakenOf(r) = TakenOf(g) \cup {a}
    <3>1. ~g.blk[a].alloc
      BY DEF FreeOf
    <3>2. FreeOf(r) = (FreeOf(g) \ {a}) \cup {rest}
      BY <1>1, <2>4, <2>6, <2>7, <2>9, <3>1 DEF FreeOf
    <3> QED BY <1>1, <2>4, <2>9, <3>2 DEF TakenOf
  <2>12. Row(r)
    <3>1. Enum(r.order, D(r)) /\ 0 \in D(r)
      BY <1>1, <2>8, <2>9 DEF Row
    <3>2. ASSUME NEW x \in D(r)
          PROVE  Nxt(r, x) <= End /\ (Nxt(r, x) \in D(r) \/ Nxt(r, x) = End)
      <4>1. Nxt(g, a) <= End /\ (Nxt(g, a) \in D(g) \/ Nxt(g, a) = End) /\ End \in Nat
        BY <1>1, Sizes DEF Row
      <4>2. CASE x = a
        <5>1. rest <= End
          BY <2>2, <4>1
        <5> QED BY <2>9, <2>10, <4>2, <5>1
      <4>3. CASE x = rest
        BY <2>9, <2>10, <4>1, <4>3
      <4>4. CASE x # a /\ x # rest
        <5>1. x \in D(g) /\ Nxt(r, x) = Nxt(g, x)
          BY <2>9, <2>10, <4>4
        <5> QED BY <1>1, <2>9, <5>1 DEF Row
      <4> QED BY <4>2, <4>3, <4>4
    <3>3. ASSUME NEW x \in D(r), NEW y \in D(r), x < y PROVE Nxt(r, x) <= y
      <4>1. CASE x = a
        <5>1. CASE y = rest
          BY <2>2, <2>10, <4>1, <5>1
        <5>2. CASE y # rest
          <6>1. y \in D(g) /\ y \in Nat /\ Nxt(g, a) <= y
            BY <1>2, <2>3, <2>9, <3>3, <4>1, <5>2
          <6> QED BY <2>2, <2>10, <4>1, <6>1
        <5> QED BY <5>1, <5>2
      <4>2. CASE x = rest
        <5>1. y # rest /\ y \in D(g) /\ y \in Nat
          BY <2>2, <2>3, <2>9, <3>3, <4>2
        <5>2. ~(y <= a)
          BY <1>2, <2>2, <3>3, <4>2, <5>1
        <5> QED BY <2>3, <2>10, <4>2, <5>1, <5>2
      <4>3. CASE x # a /\ x # rest
        <5>1. x \in D(g) /\ Nxt(r, x) = Nxt(g, x) /\ x \in Nat
          BY <2>3, <2>9, <2>10, <4>3
        <5>2. CASE y = rest
          <6>1. x < a
            BY <1>2, <2>2, <2>4, <3>3, <4>3, <5>1, <5>2
          <6>2. Nxt(g, x) <= a /\ Nxt(g, x) \in Nat
            BY <2>3, <5>1, <6>1
          <6> QED BY <1>2, <2>2, <5>1, <5>2, <6>2
        <5>3. CASE y # rest
          <6>1. y \in D(g)
            BY <2>9, <5>3
          <6> QED BY <1>1, <3>3, <5>1, <6>1 DEF Row
        <5> QED BY <5>2, <5>3
      <4> QED BY <4>1, <4>2, <4>3
    <3> QED BY <3>1, <3>2, <3>3 DEF Row
  <2>13. Apart(r, {})
    <3> SUFFICES ASSUME NEW x \in FreeOf(r), Nxt(r, x) \in FreeOf(r) PROVE FALSE
      BY DEF Apart
    <3>1. CASE x = rest
      <4>1. Nxt(g, a) \in FreeOf(g) \/ Nxt(g, a) = rest
        BY <2>10, <2>11, <3>1
      <4> QED BY <1>1, <2>2, <4>1 DEF Apart
    <3>2. CASE x # rest
      <4>1. x \in FreeOf(g) /\ x # a /\ x \in D(g)
        BY <2>11, <3>2 DEF FreeOf
      <4>2. Nxt(g, x) \in FreeOf(g) \/ Nxt(g, x) = rest
        BY <2>10, <2>11, <4>1
      <4>3. Nxt(g, x) # rest
        <5>1. Nxt(g, x) \in D(g) \/ Nxt(g, x) = End
          BY <1>1, <4>1 DEF Row
        <5>2. Nxt(g, a) <= End /\ End \in Nat
          BY <1>1, Sizes DEF Row
        <5> QED BY <2>2, <2>4, <5>1, <5>2
      <4> QED BY <1>1, <4>1, <4>2, <4>3 DEF Apart
    <3> QED BY <3>1, <3>2
  <2>14. Counts(r)
    <3>1. \A x \in TakenOf(g) : /\ r.blk[x].size = g.blk[x].size
                                /\ r.blk[x].act = g.blk[x].act
      BY <1>2, <2>7, <2>9 DEF TakenOf
    <3>2. /\ SizeOf(g) \in Int /\ SizeOf(r) = SizeOf(g) + r.blk[a].size
          /\ ActOf(g) \in Int /\ ActOf(r) = ActOf(g) + r.blk[a].act
      <4>1. Shape(g) /\ Shape(r)
        BY <1>1, <2>9
      <4> QED BY <1>2, <2>11, <3>1, <4>1, SumsTaken
    <3>3. r.blk[a].size = n /\ r.blk[a].act = n
      BY <2>7, <2>9
    <3> QED BY <1>1, <2>8, <2>9, <3>2, <3>3 DEF Counts
  <2> DEFINE X == FreeOf(g) \ {a}
  <2>15. Lists(r, X) /\ rest \notin X /\ X \cup {rest} = FreeOf(r) /\ rest \in D(r)
    <3>1. X \subseteq D(r) /\ \A x \in X : r.blk[x] = g.blk[x]
      BY <2>7, <2>9 DEF FreeOf
    <3>2. rest \notin X /\ X \cup {rest} = FreeOf(r) /\ rest \in D(r)
      BY <2>4, <2>9, <2>11 DEF FreeOf
    <3>3. Lists(g, X)
      OBVIOUS
    <3> HIDE DEF X
    <3>4. Lists(r, X)
      BY <2>9, <3>1, <3>3, ListsSame
    <3> QED BY <3>2, <3>4
  <2> HIDE DEF X
  <2>16. Body(r, {})
    BY <2>9, <2>12, <2>13, <2>14 DEF Body
  <2>17. Shape(k) /\ Frame(r, k) /\ Lists(k, X \cup {rest})
    BY <2>1, <2>9, <2>15, InsertFreeIs
  <2>18. Body(k, {}) /\ Kept(r, k) /\ FreeOf(k) = FreeOf(r)
    BY <2>16, <2>17, BodyFrame
  <2>19. \A x \in TakenOf(g) : r.blk[x].size = g.blk[x].size
    BY <1>2, <2>7, <2>9 DEF TakenOf
  <2>20. More(g, k, a) /\ k.blk[a].size = n
    <3>1. r.blk[a].size = n
      BY <2>7, <2>9
    <3> QED BY <1>2, <2>9, <2>11, <2>18, <2>19, <3>1 DEF More, Kept
  <2>21. Seg(k)
    <3>1. Lists(k, FreeOf(k))
      BY <2>15, <2>17, <2>18
    <3> QED BY <2>18, <3>1 DEF Seg
  <2>22. k.blk[a].size >= n
    BY <2>20
  <2> QED BY <2>20, <2>21, <2>22
<1> QED BY <1>4, <1>5

-----------------------------------------------------------------------------
(* The search. *)

(* The first index of a set, 0 if it is empty. *)
LEMMA FirstIs ==
  ASSUME NEW I \in SUBSET Nat, NEW k, k = IF I # {} THEN Min(I) ELSE 0
  PROVE  (I = {} => k = 0) /\ (I # {} => k \in I /\ \A j \in I : k <= j)
BY MinIs

(* The first storage of level l that is large enough. *)
Fit(g, l, n) == SelectInSeq(g.free[l], LAMBDA a : g.blk[a].size >= n)

LEMMA FitIs ==
  ASSUME NEW g, Shape(g), NEW X, Lists(g, X), NEW l \in Levels(g), NEW n \in Nat,
         NEW k, k = Fit(g, l, n)
  PROVE  /\ k # 0 => g.free[l][k] \in AtLevel(g, X, l) /\ g.blk[g.free[l][k]].size >= n
         /\ k = 0 => \A x \in AtLevel(g, X, l) : ~(g.blk[x].size >= n)
<1> DEFINE s == g.free[l]
           I == {i \in 1..Len(s) : g.blk[s[i]].size >= n}
<1>1. Once(s, AtLevel(g, X, l))
  BY DEF Lists
<1>2. Len(s) \in Nat /\ AtLevel(g, X, l) = {s[i] : i \in 1..Len(s)}
  BY <1>1 DEF Once
<1>3. k = IF I # {} THEN Min(I) ELSE 0
  BY DEF Fit, SelectInSeq
<1>4. I \in SUBSET Nat
  OBVIOUS
<1>5. (I = {} => k = 0) /\ (I # {} => k \in I)
  <2> HIDE DEF I
  <2> QED BY <1>3, <1>4, FirstIs
<1>6. 0 \notin I
  OBVIOUS
<1>7. ASSUME k # 0 PROVE s[k] \in AtLevel(g, X, l) /\ g.blk[s[k]].size >= n
  BY <1>2, <1>5, <1>7
<1>8. ASSUME k = 0 PROVE \A x \in AtLevel(g, X, l) : ~(g.blk[x].size >= n)
  <2>1. I = {}
    BY <1>5, <1>6, <1>8
  <2> QED BY <1>2, <2>1
<1> QED BY <1>7, <1>8

(* The next level in use above i. *)
Used(g, i) == SelectInSeq(g.avail, LAMBDA l : g.free[l] # <<>> /\ l > i)

LEMMA UsedIs ==
  ASSUME NEW g, Shape(g), NEW X, Lists(g, X), NEW i, NEW k, k = Used(g, i)
  PROVE  /\ k # 0 => g.avail[k] \in InUse(g) /\ g.avail[k] > i
         /\ k = 0 => \A l \in InUse(g) : ~(l > i)
<1> DEFINE s == g.avail
           I == {j \in 1..Len(s) : g.free[s[j]] # <<>> /\ s[j] > i}
<1>1. Len(s) \in Nat /\ InUse(g) = {s[j] : j \in 1..Len(s)}
  BY DEF Lists, Enum
<1>2. k = IF I # {} THEN Min(I) ELSE 0
  BY DEF Used, SelectInSeq
<1>3. I \in SUBSET Nat
  OBVIOUS
<1>4. (I = {} => k = 0) /\ (I # {} => k \in I)
  <2> HIDE DEF I
  <2> QED BY <1>2, <1>3, FirstIs
<1>5. 0 \notin I
  OBVIOUS
<1>6. ASSUME k # 0 PROVE s[k] \in InUse(g) /\ s[k] > i
  BY <1>1, <1>4, <1>6
<1>7. ASSUME k = 0 PROVE \A l \in InUse(g) : ~(l > i)
  <2>1. I = {}
    BY <1>4, <1>5, <1>7
  <2>2. \A l \in InUse(g) : g.free[l] # <<>>
    BY DEF InUse
  <2> QED BY <1>1, <2>1, <2>2
<1> QED BY <1>6, <1>7

LEMMA AllocIndexNat ==
  ASSUME NEW g, g.linear \in BOOLEAN, NEW n \in Nat
  PROVE  get_alloc_index(g, n) \in Nat
<1> DEFINE x == CeilDiv(n - MinSize, Factor)
           z == dfslog2(CeilDiv(n, MinSize), TRUE)
<1>1. \/ n <= MinSize /\ get_alloc_index(g, n) = 0
      \/ ~(n <= MinSize) /\ (get_alloc_index(g, n) = x \/ get_alloc_index(g, n) = z)
  BY Zenon DEF get_alloc_index
<1>2. ~(n <= MinSize) => n - MinSize \in Nat
  BY Sizes
<1>3. CeilDiv(n, MinSize) \in Nat
  BY Sizes, CeilNat
<1>4. z \in Nat
  BY <1>3, LogNat DEF dfslog2
<1>5. ~(n <= MinSize) => x \in Nat
  BY <1>2, Sizes, CeilNat
<1> HIDE DEF x, z
<1> QED BY <1>1, <1>4, <1>5

LEMMA SearchIs ==
  ASSUME NEW g, Shape(g), NEW X, Lists(g, X), NEW n \in Nat,
         NEW l, l = SearchLevel(g, n)
  PROVE  l = None \/ l \in InUse(g)
<1> DEFINE i == get_alloc_index(g, n)
           k == Used(g, i)
<1>1. l = IF g.top = FreeLen(g) THEN None
          ELSE IF i >= g.top THEN g.top
          ELSE IF g.free[i] # <<>> THEN i
          ELSE IF k = 0 THEN None ELSE g.avail[k]
  BY DEF SearchLevel, Used
<1>2. i \in Nat
  BY ShapeIs, AllocIndexNat
<1>3. k # 0 => g.avail[k] \in InUse(g)
  BY UsedIs
<1>4. g.top # FreeLen(g) => g.top \in InUse(g)
  BY TopIs
<1> HIDE DEF i, k
<1>5. InUse(g) \subseteq Levels(g) /\ Levels(g) = 0..(FreeLen(g) - 1) /\ FreeLen(g) \in Nat
  <2>1. g.linear \in BOOLEAN
    BY ShapeIs
  <2>2. FreeLen(g) \in Nat
    BY <2>1, LevelType
  <2> QED BY <2>2 DEF InUse, Levels
<1>6. g.top # FreeLen(g) /\ ~(i >= g.top) => i \in Levels(g)
  BY <1>2, <1>4, <1>5
<1>7. i \in Levels(g) /\ g.free[i] # <<>> => i \in InUse(g)
  BY DEF InUse
<1> QED BY <1>1, <1>3, <1>4, <1>6, <1>7

LEMMA FirstFitIs ==
  ASSUME NEW g, Shape(g), NEW X, Lists(g, X), NEW n \in Nat,
         NEW a, a = FirstFit(g, n), a # None
  PROVE  a \in X /\ a \in D(g) /\ g.blk[a].size >= n
<1> DEFINE l == SearchLevel(g, n)
           k == IF l = None THEN 0 ELSE Fit(g, l, n)
<1>1. a = IF k = 0 \/ ~Removable(g, g.free[l][k]) THEN None ELSE g.free[l][k]
  BY DEF FirstFit, Fit
<1>2. k # 0 /\ a = g.free[l][k]
  BY <1>1
<1>3. l # None
  BY <1>2
<1>4. l \in InUse(g)
  BY <1>3, SearchIs
<1>5. l \in Levels(g)
  BY <1>4 DEF InUse
<1>6. k = Fit(g, l, n)
  BY <1>3
<1> HIDE DEF k, l
<1>7. a \in AtLevel(g, X, l) /\ g.blk[a].size >= n
  BY <1>2, <1>5, <1>6, FitIs
<1> QED BY <1>7 DEF AtLevel, Lists

(* The answer r of an allocation of n bytes from g. *)
Answer(g, r, n) ==
  /\ Seg(r.h)
  /\ \/ r.at = None /\ r.h = g
     \/ /\ r.at # None /\ More(g, r.h, r.at) /\ r.h.blk[r.at].size >= n

LEMMA NoneOutside == ASSUME NEW g, Shape(g), NEW a \in D(g) PROVE a # None
<1>1. a \in Nat
  BY BlockIs
<1> QED BY <1>1 DEF None

LEMMA AllocIs ==
  ASSUME NEW g, Seg(g), NEW n \in Nat, NEW r, r = shm_alloc(g, n)
  PROVE  Answer(g, r, n)
<1> DEFINE a == FirstFit(g, n)
           q == remove_free(g, a)
<1>1. r = [at |-> a, h |-> IF a = None THEN g ELSE take(q, a, n)]
  BY DEF shm_alloc, give
<1>2. r.at = a /\ r.h = IF a = None THEN g ELSE take(q, a, n)
  <2> HIDE DEF a, q
  <2> QED BY <1>1
<1>3. Body(g, {}) /\ Lists(g, FreeOf(g)) /\ Shape(g)
  BY DEF Seg, Body
<1>4. CASE a = None
  BY <1>2, <1>4 DEF Answer
<1>5. CASE a # None
  <2>1. a \in FreeOf(g) /\ a \in D(g) /\ g.blk[a].size >= n
    BY <1>3, <1>5, FirstFitIs
  <2> HIDE DEF a
  <2>2. Shape(q) /\ Frame(g, q) /\ Lists(q, FreeOf(g) \ {a})
    BY <1>3, <2>1, RemoveFreeIs
  <2> HIDE DEF q
  <2>3. Body(q, {}) /\ Kept(g, q) /\ FreeOf(q) = FreeOf(g)
    BY <1>3, <2>2, BodyFrame
  <2>4. a \in FreeOf(q) /\ Lists(q, FreeOf(q) \ {a}) /\ n <= q.blk[a].size
    <3>1. q.blk[a].size = g.blk[a].size /\ g.blk[a].size \in Nat
      BY <1>3, <2>1, <2>2, BlockIs DEF Frame
    <3> QED BY <2>1, <2>2, <2>3, <3>1
  <2> DEFINE k == take(q, a, n)
  <2>5. Seg(k) /\ More(q, k, a) /\ k.blk[a].size >= n
    BY <2>3, <2>4, TakeIs
  <2>6. r.h = k /\ r.at = a
    BY <1>2, <1>5
  <2> HIDE DEF k
  <2>7. More(g, k, a)
    BY <2>3, <2>5 DEF More, Kept
  <2> QED BY <1>5, <2>5, <2>6, <2>7 DEF Answer
<1> QED BY <1>4, <1>5

-----------------------------------------------------------------------------
(* shs_shmem_split_alloc *)

(* The first largest storage of level l. *)
Largest(g, l) ==
  SelectInSeq(g.free[l], LAMBDA a : \A b \in ToSet(g.free[l]) : g.blk[b].size <= g.blk[a].size)

LEMMA LargestIs ==
  ASSUME NEW g, Shape(g), Row(g), NEW X, Lists(g, X), NEW l \in InUse(g),
         NEW k, k = Largest(g, l)
  PROVE  g.free[l][k] \in X
<1> DEFINE s == g.free[l]
           I == {i \in 1..Len(s) : \A b \in ToSet(s) : g.blk[b].size <= g.blk[s[i]].size}
           T == AtLevel(g, X, l)
<1>1. Once(s, T)
  BY DEF Lists, InUse
<1>2. Len(s) \in Nat /\ T = {s[i] : i \in 1..Len(s)} /\ ToSet(s) = T /\ T # {}
  <2>1. ToSet(s) = T /\ T # {}
    BY <1>1, OnceSet DEF InUse
  <2> HIDE DEF s, T
  <2> QED BY <1>1, <2>1 DEF Once
<1>3. k = IF I # {} THEN Min(I) ELSE 0
  BY DEF Largest, SelectInSeq
<1>4. I \in SUBSET Nat
  OBVIOUS
<1>5. (I = {} => k = 0) /\ (I # {} => k \in I)
  <2> HIDE DEF I
  <2> QED BY <1>3, <1>4, FirstIs
<1>6. \A b \in T : g.blk[b].size \in Nat /\ End - g.blk[b].size \in Nat
  <2> TAKE b \in T
  <2>1. b \in D(g)
    BY DEF AtLevel, Lists
  <2>2. Nxt(g, b) <= End
    BY <2>1 DEF Row
  <2> QED BY <2>1, <2>2, NxtIs, Sizes
<1> DEFINE R == {End - g.blk[b].size : b \in T}
<1>7. PICK x \in R : \A y \in R : x <= y
  <2>1. R \in SUBSET Nat /\ R # {}
    BY <1>2, <1>6
  <2> HIDE DEF R
  <2> QED BY <2>1, LeastNat
<1>8. PICK c \in T : x = End - g.blk[c].size
  BY <1>7
<1>9. \A b \in T : g.blk[b].size <= g.blk[c].size
  <2> TAKE b \in T
  <2>1. End - g.blk[c].size <= End - g.blk[b].size
    BY <1>7, <1>8
  <2> QED BY <1>6, <2>1, Sizes
<1>10. PICK i \in 1..Len(s) : s[i] = c
  BY <1>2
<1>11. i \in I
  BY <1>2, <1>9, <1>10
<1>12. k \in 1..Len(s)
  BY <1>5, <1>11
<1> QED BY <1>2, <1>12 DEF AtLevel

LEMMA SplitAllocIs ==
  ASSUME NEW g, Seg(g), NEW n \in Nat, NEW r, r = shm_split_alloc(g, n)
  PROVE  Answer(g, r, n)
<1> DEFINE a == get_max_st(g)
           z == g.blk[a].size
           q == remove_free(g, a)
           k == [q EXCEPT !.blk[a].alloc = TRUE, !.blk[a].act = z,
                          !.used = q.used + z, !.reqs = q.reqs + z]
           no == [at |-> None, h |-> g]
<1>1. r = IF a = None THEN no
          ELSE IF z < n \/ ~Removable(g, a) THEN no ELSE [at |-> a, h |-> k]
  BY DEF shm_split_alloc
<1>2. Body(g, {}) /\ Lists(g, FreeOf(g)) /\ Shape(g) /\ Row(g)
  BY DEF Seg, Body
<1>3. a = None \/ a \in FreeOf(g)
  <2> DEFINE l == Last(g.avail)
  <2>1. a = IF g.top = FreeLen(g) \/ g.avail = <<>> THEN None ELSE g.free[l][Largest(g, l)]
    BY DEF get_max_st, Largest
  <2>2. CASE g.avail = <<>>
    BY <2>1, <2>2
  <2>3. CASE g.avail # <<>>
    <3>1. l \in InUse(g)
      BY <1>2, <2>3, EnumLast DEF Lists
    <3>2. g.free[l][Largest(g, l)] \in FreeOf(g)
      BY <1>2, <3>1, LargestIs
    <3> QED BY <2>1, <3>2
  <2> QED BY <2>2, <2>3
<1>4. CASE r = no
  <2>1. r.at = None /\ r.h = g
    BY <1>4
  <2> QED BY <2>1 DEF Answer
<1>5. CASE r # no
  <2>1. a # None /\ ~(z < n) /\ r = [at |-> a, h |-> k]
    <3> HIDE DEF a, z, k, no
    <3> QED BY <1>1, <1>5
  <2>2. a \in FreeOf(g) /\ a \in D(g)
    BY <1>3, <2>1 DEF FreeOf
  <2>3. r.at = a /\ r.h = k
    <3> HIDE DEF a, k
    <3> QED BY <2>1
  <2> HIDE DEF a
  <2>4. Shape(q) /\ Frame(g, q) /\ Lists(q, FreeOf(g) \ {a})
    BY <1>2, <2>2, RemoveFreeIs
  <2> HIDE DEF q
  <2>5. Body(q, {}) /\ Kept(g, q) /\ FreeOf(q) = FreeOf(g)
    BY <1>2, <2>4, BodyFrame
  <2>6. q.blk[a].size = z /\ z \in Nat /\ a \in D(q) /\ a \in FreeOf(q)
        /\ Lists(q, FreeOf(q) \ {a})
    BY <1>2, <2>2, <2>4, <2>5, BlockIs DEF Frame
  <2>7. Whole(q, [q EXCEPT !.blk[a].alloc = TRUE, !.blk[a].act = z,
                           !.used = q.used + q.blk[a].size, !.reqs = q.reqs + z], a, z)
    <3> HIDE DEF z
    <3>1. Shape(q) /\ a \in D(q) /\ z \in Nat
      BY <2>4, <2>6
    <3> QED BY <3>1, WholeFields, Zenon
  <2>8. Whole(q, k, a, z)
    <3> HIDE DEF z
    <3>1. q.blk[a].size = z
      BY <2>6
    <3> QED BY <2>7, <3>1, Zenon
  <2> HIDE DEF k
  <2>9. Seg(k) /\ More(q, k, a) /\ k.blk[a].size = q.blk[a].size
    <3> HIDE DEF z
    <3> QED BY <2>5, <2>6, <2>8, WholeIs
  <2>10. More(g, k, a) /\ k.blk[a].size >= n
    <3>1. More(g, k, a)
      BY <2>5, <2>9 DEF More, Kept
    <3>2. k.blk[a].size = z
      BY <2>6, <2>9
    <3> HIDE DEF z
    <3> QED BY <2>1, <2>6, <3>1, <3>2
  <2> QED BY <2>1, <2>3, <2>9, <2>10 DEF Answer
<1> QED BY <1>4, <1>5

-----------------------------------------------------------------------------
(* shs_shmem_create, and what the properties say of a sound segment. *)

LEMMA CreateIs ==
  ASSUME NEW lin \in BOOLEAN, NEW k, k = shm_create(lin) PROVE Seg(k)
<1> DEFINE n == FreeLen([linear |-> lin])
           first == [alloc |-> FALSE, size |-> Total, act |-> 0, head |-> None]
           g == [linear |-> lin, order |-> <<0>>, blk |-> [a \in {0} |-> first],
                 free |-> [l \in 0..(n - 1) |-> <<>>], avail |-> <<>>, top |-> n,
                 used |-> 0, reqs |-> 0, count |-> 1]
<1>1. k = insert_free(g, 0)
  BY DEF shm_create
<1>2. /\ g.linear = lin /\ g.order = <<0>> /\ g.blk = [a \in {0} |-> first]
      /\ g.free = [l \in 0..(n - 1) |-> <<>>] /\ g.avail = <<>> /\ g.top = n
      /\ g.used = 0 /\ g.reqs = 0 /\ g.count = 1
  OBVIOUS
<1>3. n = FreeLen(g) /\ n \in Nat \ {0} /\ Levels(g) = 0..(n - 1)
  <2>1. [linear |-> lin].linear = g.linear
    OBVIOUS
  <2>2. n = FreeLen(g)
    <3> HIDE DEF g
    <3> QED BY <2>1, LevelSame
  <2>3. FreeLen(g) \in Nat \ {0}
    <3>1. g.linear \in BOOLEAN /\ 0 \in Nat
      BY <1>2
    <3> HIDE DEF g
    <3> QED BY <3>1, LevelType
  <2> QED BY <2>2, <2>3 DEF Levels
<1>4. first \in Block /\ first.alloc = FALSE /\ first.size = Total
  BY Sizes DEF Block, None
<1> HIDE DEF n, first
<1>5. Shape(g)
  <2>1. g.blk \in Blks
    <3>1. {0} \in SUBSET Nat /\ [a \in {0} |-> first] \in [{0} -> Block]
      BY <1>4
    <3> QED BY <1>2, <3>1 DEF Blks
  <2>2. g.free \in Frees /\ DOMAIN g.free = Levels(g)
    <3>1. [l \in 0..(n - 1) |-> <<>>] \in [0..(n - 1) -> Seq(Nat)]
      OBVIOUS
    <3>2. 0..(n - 1) \in SUBSET Nat
      BY <1>3
    <3> QED BY <1>2, <1>3, <3>1, <3>2 DEF Frees
  <2>3. <<0>> \in Seq(Nat) /\ <<>> \in Seq(Nat) /\ n \in Nat
    BY <1>3
  <2>4. g \in SegRec
    BY <1>2, <2>1, <2>2, <2>3 DEF SegRec
  <2> QED BY <2>2, <2>4 DEF Shape
<1>6. D(g) = {0} /\ g.blk[0] = first /\ FreeOf(g) = {0} /\ TakenOf(g) = {}
  <2>1. D(g) = {0} /\ g.blk[0] = first
    BY <1>2 DEF D
  <2>2. FreeOf(g) = {0}
    BY <1>4, <2>1 DEF FreeOf
  <2> QED BY <2>1, <2>2 DEF TakenOf
<1> HIDE DEF g
<1>7. Nxt(g, 0) = End
  BY <1>4, <1>6, Sizes DEF Nxt, End
<1>8. Row(g)
  <2>1. Enum(<<0>>, {0})
    BY DEF Enum
  <2> QED BY <1>2, <1>6, <1>7, <2>1, Sizes DEF Row
<1>9. Apart(g, {})
  BY <1>6, <1>7, Sizes DEF Apart
<1>10. Counts(g)
  <2> DEFINE x == [a \in {} |-> g.blk[a].size]
             y == [a \in {} |-> g.blk[a].act]
  <2>1. SumOver({}, x) = 0 /\ SumOver({}, y) = 0
    <3> HIDE DEF x, y
    <3> QED BY SumNat
  <2>2. SizeOf(g) = 0 /\ ActOf(g) = 0
    BY <1>6, <2>1 DEF SizeOf, ActOf
  <2> QED BY <1>2, <2>2 DEF Counts
<1>11. Lists(g, {})
  <2>1. \A l \in Levels(g) : g.free[l] = <<>>
    BY <1>2, <1>3
  <2>2. InUse(g) = {}
    BY <2>1 DEF InUse
  <2>3. \A l : AtLevel(g, {}, l) = {}
    BY DEF AtLevel
  <2>4. Once(<<>>, {}) /\ Enum(<<>>, {})
    BY DEF Once, Enum
  <2> QED BY <1>2, <1>3, <2>1, <2>2, <2>3, <2>4 DEF Lists
<1>12. Shape(k) /\ Frame(g, k) /\ Lists(k, {} \cup {0})
  BY <1>1, <1>5, <1>6, <1>11, InsertFreeIs
<1>13. Body(g, {})
  BY <1>5, <1>8, <1>9, <1>10 DEF Body
<1>14. Body(k, {}) /\ FreeOf(k) = {0}
  BY <1>6, <1>12, <1>13, BodyFrame
<1>15. {} \cup {0} = {0}
  OBVIOUS
<1> QED BY <1>12, <1>14, <1>15 DEF Seg

LEMMA SegSound == Seg(h) => SegmentSound
<1> SUFFICES ASSUME Seg(h) PROVE SegmentSound
  OBVIOUS
<1>1. Shape(h) /\ Row(h) /\ Apart(h, {}) /\ Counts(h) /\ Lists(h, FreeOf(h))
  BY DEF Seg, Body
<1>2. Storages = D(h) /\ FreeSt = FreeOf(h)
  BY DEF Storages, FreeSt, D, FreeOf
<1>3. Tiled
  <2> DEFINE o == h.order
  <2>1. Enum(o, D(h)) /\ Once(o, D(h)) /\ 0 \in D(h)
    BY <1>1, EnumOnce DEF Row
  <2>2. IsInjective(o) /\ ToSet(o) = D(h) /\ Len(o) \in Nat /\ o # <<>>
    BY <2>1, OnceSet
  <2>3. Len(o) # 0 /\ \A i \in 1..Len(o) : o[i] \in D(h)
    BY <2>1, <2>2 DEF Enum
  <2>4. \A i \in 1..Len(o) : Place(o, o[i]) = i
    <3> TAKE i \in 1..Len(o)
    <3>1. Place(o, o[i]) \in 1..Len(o) /\ o[Place(o, o[i])] = o[i]
      BY <2>1, <2>3, PlaceIs
    <3> QED BY <2>1, <3>1 DEF Once
  <2>5. \A i \in 1..Len(o) :
          /\ i < Len(o) => o[i + 1] = Nxt(h, o[i])
          /\ i = Len(o) => Nxt(h, o[i]) = End
          /\ i = 1 => o[i] = 0
    <3> TAKE i \in 1..Len(o)
    <3>1. i = Place(o, o[i]) /\ o[i] \in D(h)
      BY <2>3, <2>4
    <3> QED BY <1>1, <3>1, Neighbours
  <2>6. 1 \in 1..Len(o) /\ Len(o) \in 1..Len(o)
    BY <2>2, <2>3
  <2>7. o[1] = 0 /\ Nxt(h, o[Len(o)]) = Hdr + Total
    BY <2>5, <2>6 DEF End
  <2>8. \A k \in 1..(Len(o) - 1) :
          o[k + 1] = Nxt(h, o[k]) /\ ~({o[k], o[k + 1]} \subseteq FreeOf(h))
    <3> TAKE k \in 1..(Len(o) - 1)
    <3>1. k \in 1..Len(o) /\ k < Len(o)
      BY <2>2
    <3>2. o[k + 1] = Nxt(h, o[k])
      BY <2>5, <3>1
    <3> QED BY <1>1, <3>2 DEF Apart
  <2> QED BY <1>2, <2>2, <2>7, <2>8 DEF Tiled, Nxt
<1>4. Listed
  <2>1. \A l \in Levels(h) : /\ IsInjective(h.free[l])
                             /\ ToSet(h.free[l]) = {a \in FreeOf(h) : Level(h, a) = l}
    BY <1>1, OnceSet DEF Lists, AtLevel
  <2>2. Enum(h.avail, InUse(h)) /\ ToSet(h.avail) = InUse(h)
    BY <1>1, EnumOnce, OnceSet DEF Lists
  <2>3. \A j, k \in 1..Len(h.avail) : j < k => h.avail[j] < h.avail[k]
    BY <2>2 DEF Enum
  <2>4. DOMAIN h.free = Levels(h)
    BY <1>1 DEF Shape
  <2>5. h.top = (IF h.avail = <<>> THEN FreeLen(h) ELSE Last(h.avail))
    BY <1>1 DEF Lists
  <2> QED BY <1>2, <2>1, <2>2, <2>3, <2>4, <2>5 DEF Listed, Level, LevelOf, InUse
<1>5. Counted
  BY <1>1, <1>2 DEF Counted, Counts, SizeOf, ActOf, TakenOf
<1> QED BY <1>3, <1>4, <1>5 DEF SegmentSound

-----------------------------------------------------------------------------
(* Alignment *)

LEMMA DivIs ==
  ASSUME NEW a \in Nat, NEW b \in Nat \ {0}
  PROVE  a \div b \in Nat /\ (a \div b) * b <= a /\ a < (a \div b) * b + b
OBVIOUS

LEMMA MulLess ==
  ASSUME NEW p \in Nat, NEW q \in Nat, NEW b \in Nat \ {0}, p * b < q * b + b
  PROVE  p <= q
OBVIOUS

LEMMA MulMono ==
  ASSUME NEW p \in Nat, NEW q \in Nat, NEW b \in Nat, p <= q
  PROVE  p * b <= q * b /\ p * b \in Nat /\ (p + q) * b = p * b + q * b
         /\ (p + 1) * b = p * b + b
OBVIOUS

(* The quotient rounded up is the least one that is large enough. *)
LEMMA CeilIs ==
  ASSUME NEW a \in Nat, NEW b \in Nat \ {0}
  PROVE  /\ CeilDiv(a, b) \in Nat /\ CeilDiv(a, b) * b \in Nat /\ a <= CeilDiv(a, b) * b
         /\ \A q \in Nat : a <= q * b => CeilDiv(a, b) <= q
<1> DEFINE c == CeilDiv(a, b)
<1>1. c = (a + b - 1) \div b /\ a + b - 1 \in Nat
  BY DEF CeilDiv
<1>2. c \in Nat /\ c * b <= a + b - 1 /\ a + b - 1 < c * b + b
  BY <1>1, DivIs
<1> HIDE DEF c
<1>3. c * b \in Nat
  BY <1>2
<1>4. a <= c * b
  BY <1>2, <1>3
<1>5. ASSUME NEW q \in Nat, a <= q * b PROVE c <= q
  <2>1. q * b \in Nat
    OBVIOUS
  <2>2. c * b < q * b + b
    BY <1>2, <1>3, <1>5, <2>1
  <2> QED BY <1>2, <2>2, MulLess
<1> QED BY <1>2, <1>3, <1>4, <1>5 DEF c

Mult(x) == \E q \in Nat : x = q * AlignSize

LEMMA Consts ==
  /\ ChunkHdr \in Nat \ {0} /\ AlignSize \in Nat \ {0} /\ ItemMin \in Nat \ {0}
  /\ SlabStep \in Nat \ {0} /\ MgrSize \in Nat \ {0} /\ ClassSize \in Nat \ {0}
  /\ Word \in Nat \ {0}
  /\ ItemMaxes \subseteq Nat \ {0} /\ Reqs \subseteq Nat \ {0} /\ RawReqs \subseteq Nat \ {0}
  /\ \A max \in ItemMaxes : max \div ItemMin >= 2
  /\ Mult(ChunkHdr) /\ Mult(ItemMin) /\ Mult(SlabStep)
<1>1. Mult(ChunkHdr) /\ Mult(ItemMin) /\ Mult(SlabStep)
  <2>1. \A x \in {ChunkHdr, ItemMin, SlabStep} : \E q \in 1..x : x = q * AlignSize
    BY SlabsAssumption
  <2> QED BY <2>1 DEF Mult
<1> QED BY <1>1, SlabsAssumption

LEMMA MultSum ==
  ASSUME NEW x, NEW y, Mult(x), Mult(y) PROVE Mult(x + y) /\ x \in Nat /\ y \in Nat
<1>1. PICK p \in Nat : x = p * AlignSize
  BY DEF Mult
<1>2. PICK q \in Nat : y = q * AlignSize
  BY DEF Mult
<1>3. AlignSize \in Nat
  BY Consts
<1>4. (p + q) * AlignSize = p * AlignSize + q * AlignSize /\ p + q \in Nat
      /\ p * AlignSize \in Nat /\ q * AlignSize \in Nat
  BY <1>3
<1> QED BY <1>1, <1>2, <1>4 DEF Mult

LEMMA AlignIs ==
  ASSUME NEW x \in Nat
  PROVE  /\ ALIGNMENT(x) \in Nat /\ x <= ALIGNMENT(x) /\ Mult(ALIGNMENT(x))
         /\ \A c : Mult(c) /\ x <= c => ALIGNMENT(x) <= c
         /\ Mult(x) => ALIGNMENT(x) = x
<1> DEFINE q == CeilDiv(x, AlignSize)
<1>1. AlignSize \in Nat \ {0}
  BY Consts
<1>2. /\ q \in Nat /\ q * AlignSize \in Nat /\ x <= q * AlignSize
      /\ \A p \in Nat : x <= p * AlignSize => q <= p
  BY <1>1, CeilIs
<1>3. ALIGNMENT(x) = q * AlignSize
  BY DEF ALIGNMENT
<1> HIDE DEF q
<1>4. ASSUME NEW c, Mult(c), x <= c PROVE ALIGNMENT(x) <= c
  <2>1. PICK p \in Nat : c = p * AlignSize
    BY <1>4 DEF Mult
  <2>2. q <= p
    BY <1>2, <1>4, <2>1
  <2> QED BY <1>1, <1>2, <1>3, <2>1, <2>2, MulMono
<1>5. Mult(x) => ALIGNMENT(x) = x
  BY <1>2, <1>3, <1>4
<1> QED BY <1>2, <1>3, <1>4, <1>5 DEF Mult

-----------------------------------------------------------------------------
(* The sizes of the classes *)

IsRaw(f, n, p) ==
  f = [k \in 0..n |-> IF k = 0 THEN ItemMin
                      ELSE IF p THEN 2 * f[k - 1] ELSE f[k - 1] + SlabStep]
Raw(p, i) == (CHOOSE f : IsRaw(f, i, p))[i]

LEMMA RawExists ==
  ASSUME NEW p, NEW n \in Nat PROVE \E f : IsRaw(f, n, p)
<1> DEFINE Bad == {k \in Nat : ~\E f : IsRaw(f, k, p)}
<1> SUFFICES ASSUME n \in Bad PROVE FALSE
  OBVIOUS
<1>1. PICK k \in Bad : \A j \in Bad : k <= j
  <2>1. Bad \in SUBSET Nat /\ n \in Bad
    OBVIOUS
  <2> HIDE DEF Bad
  <2> QED BY <2>1, LeastNat
<1>2. CASE k = 0
  <2> DEFINE u == [i \in 0..k |-> ItemMin]
  <2>1. u = [i \in 0..k |-> IF i = 0 THEN ItemMin
                            ELSE IF p THEN 2 * u[i - 1] ELSE u[i - 1] + SlabStep]
    BY <1>2
  <2> HIDE DEF u
  <2> QED BY <1>1, <2>1 DEF IsRaw
<1>3. CASE k # 0
  <2>1. k - 1 \in Nat /\ ~(k <= k - 1)
    BY <1>1, <1>3
  <2>2. PICK u : IsRaw(u, k - 1, p)
    BY <1>1, <2>1
  <2>3. \A i \in 0..(k - 1) :
          u[i] = IF i = 0 THEN ItemMin
                 ELSE IF p THEN 2 * u[i - 1] ELSE u[i - 1] + SlabStep
    BY <2>2 DEF IsRaw
  <2> DEFINE last == IF p THEN 2 * u[k - 1] ELSE u[k - 1] + SlabStep
             v == [i \in 0..k |-> IF i = k THEN last ELSE u[i]]
  <2>4. \A i \in 0..k : v[i] = IF i = 0 THEN ItemMin
                               ELSE IF p THEN 2 * v[i - 1] ELSE v[i - 1] + SlabStep
    <3> TAKE i \in 0..k
    <3>1. CASE i = 0
      BY <1>3, <2>1, <2>3, <3>1
    <3>2. CASE i # 0
      <4>1. i - 1 \in 0..k /\ i - 1 # k /\ v[i - 1] = u[i - 1]
        BY <3>2, <1>1
      <4>2. i = k => v[i] = last
        OBVIOUS
      <4>3. i # k => v[i] = u[i] /\ i \in 0..(k - 1)
        BY <1>1
      <4> HIDE DEF v
      <4>4. CASE i = k
        BY <3>2, <4>1, <4>2, <4>4
      <4>5. CASE i # k
        BY <2>3, <3>2, <4>1, <4>3, <4>5
      <4> QED BY <4>4, <4>5
    <3> QED BY <3>1, <3>2
  <2>5. v = [i \in 0..k |-> v[i]]
    OBVIOUS
  <2> HIDE DEF v
  <2>6. IsRaw(v, k, p)
    BY <2>4, <2>5 DEF IsRaw
  <2> QED BY <1>1, <2>6
<1> QED BY <1>2, <1>3

LEMMA RawStep ==
  ASSUME NEW p, NEW n \in Nat
  PROVE  /\ Raw(p, 0) = ItemMin
         /\ Raw(p, n + 1) = IF p THEN 2 * Raw(p, n) ELSE Raw(p, n) + SlabStep
<1> DEFINE F(k) == CHOOSE f : IsRaw(f, k, p)
<1>1. \A k \in Nat : IsRaw(F(k), k, p) /\ Raw(p, k) = F(k)[k]
  BY RawExists DEF Raw
<1> HIDE DEF F
<1>2. \A k \in Nat : \A i \in 0..k :
        F(k)[i] = IF i = 0 THEN ItemMin
                  ELSE IF p THEN 2 * F(k)[i - 1] ELSE F(k)[i - 1] + SlabStep
  BY <1>1 DEF IsRaw
<1> DEFINE u == F(n)
           v == F(n + 1)
           Bad == {i \in 0..n : u[i] # v[i]}
<1>3. /\ \A i \in 0..n : u[i] = IF i = 0 THEN ItemMin
                                ELSE IF p THEN 2 * u[i - 1] ELSE u[i - 1] + SlabStep
      /\ \A i \in 0..(n + 1) : v[i] = IF i = 0 THEN ItemMin
                                      ELSE IF p THEN 2 * v[i - 1] ELSE v[i - 1] + SlabStep
  BY <1>2
<1>4. Raw(p, n) = u[n] /\ Raw(p, n + 1) = v[n + 1]
  BY <1>1
<1> HIDE DEF u, v
<1>5. Bad = {}
  <2> SUFFICES ASSUME Bad # {} PROVE FALSE
    OBVIOUS
  <2>1. PICK k \in Bad : \A j \in Bad : k <= j
    <3>1. Bad \in SUBSET Nat
      OBVIOUS
    <3> HIDE DEF Bad
    <3> QED BY <3>1, LeastNat
  <2>2. k \in 0..n /\ k \in 0..(n + 1)
    OBVIOUS
  <2>3. CASE k = 0
    BY <1>3, <2>1, <2>2, <2>3
  <2>4. CASE k # 0
    <3>1. k - 1 \in 0..n /\ ~(k <= k - 1)
      BY <2>2, <2>4
    <3>2. u[k - 1] = v[k - 1]
      BY <2>1, <3>1
    <3> QED BY <1>3, <2>1, <2>2, <2>4, <3>2
  <2> QED BY <2>3, <2>4
<1>6. n \in 0..n /\ n + 1 \in 0..(n + 1) /\ n + 1 # 0 /\ (n + 1) - 1 = n
  OBVIOUS
<1>7. u[n] = v[n]
  BY <1>5, <1>6
<1>8. v[n + 1] = IF p THEN 2 * v[n] ELSE v[n] + SlabStep
  BY <1>3, <1>6
<1>9. Raw(p, 0) = ItemMin
  <2>1. Raw(p, 0) = F(0)[0] /\ 0 \in 0..0
    BY <1>1
  <2> QED BY <1>2, <2>1
<1> QED BY <1>4, <1>7, <1>8, <1>9

LEMMA RawIs ==
  ASSUME NEW p \in BOOLEAN, NEW n \in Nat
  PROVE  /\ Raw(p, n) \in Nat \ {0} /\ Mult(Raw(p, n)) /\ Raw(p, n) < Raw(p, n + 1)
         /\ ~p => Raw(p, n) = ItemMin + n * SlabStep
<1> DEFINE Good(k) == /\ Raw(p, k) \in Nat \ {0} /\ Mult(Raw(p, k))
                      /\ ~p => Raw(p, k) = ItemMin + k * SlabStep
           Bad == {k \in Nat : ~Good(k)}
<1>1. Bad = {}
  <2> SUFFICES ASSUME Bad # {} PROVE FALSE
    OBVIOUS
  <2>1. PICK k \in Bad : \A j \in Bad : k <= j
    <3>1. Bad \in SUBSET Nat
      OBVIOUS
    <3> HIDE DEF Bad
    <3> QED BY <3>1, LeastNat
  <2>2. CASE k = 0
    <3>1. Raw(p, 0) = ItemMin
      BY RawStep
    <3> QED BY <2>1, <2>2, <3>1, Consts
  <2>3. CASE k # 0
    <3>1. k - 1 \in Nat /\ ~(k <= k - 1) /\ (k - 1) + 1 = k
      BY <2>1, <2>3
    <3>2. Good(k - 1)
      BY <2>1, <3>1
    <3>3. Raw(p, k) = IF p THEN 2 * Raw(p, k - 1) ELSE Raw(p, k - 1) + SlabStep
      BY <3>1, RawStep
    <3>4. SlabStep \in Nat \ {0} /\ ItemMin \in Nat \ {0} /\ Mult(SlabStep)
      BY Consts
    <3>5. CASE p
      <4> DEFINE x == Raw(p, k - 1)
                 y == Raw(p, k)
      <4>1. x \in Nat \ {0} /\ Mult(x)
        BY <3>2
      <4>2. y = 2 * x
        BY <3>3, <3>5, Zenon
      <4> HIDE DEF x, y
      <4>3. y = x + x /\ y \in Nat \ {0}
        BY <4>1, <4>2
      <4>4. Mult(y)
        BY <4>1, <4>3, MultSum
      <4>5. Good(k)
        BY <3>5, <4>3, <4>4, Zenon DEF y
      <4> QED BY <2>1, <4>5
    <3>6. CASE ~p
      <4>1. Raw(p, k) = Raw(p, k - 1) + SlabStep
        BY <3>3, <3>6
      <4>2. Mult(Raw(p, k))
        BY <3>2, <3>4, <4>1, MultSum
      <4>3. (k - 1) * SlabStep + SlabStep = k * SlabStep /\ (k - 1) * SlabStep \in Nat
        BY <3>1, <3>4
      <4>4. Raw(p, k) = ItemMin + k * SlabStep
        BY <3>2, <3>4, <3>6, <4>1, <4>3
      <4>5. Raw(p, k) \in Nat \ {0}
        BY <3>2, <3>4, <4>1
      <4> QED BY <2>1, <4>2, <4>4, <4>5
    <3> QED BY <3>5, <3>6
  <2> QED BY <2>2, <2>3
<1>2. Good(n)
  BY <1>1
<1>3. Raw(p, n) < Raw(p, n + 1)
  BY <1>2, RawStep, Consts
<1> QED BY <1>2, <1>3

LEMMA ClassSizeIs ==
  ASSUME NEW mm, mm.power \in BOOLEAN, NEW i \in Nat
  PROVE  /\ class_size(mm, i) = ChunkHdr + Raw(mm.power, i)
         /\ class_size(mm, i) \in Nat /\ class_size(mm, i) > ChunkHdr
         /\ Mult(class_size(mm, i))
<1> DEFINE x == ChunkHdr + Raw(mm.power, i)
<1>1. class_size(mm, i) = ALIGNMENT(x)
  BY DEF class_size, Raw, IsRaw
<1>2. Raw(mm.power, i) \in Nat \ {0} /\ Mult(Raw(mm.power, i))
  BY RawIs
<1>3. Mult(x) /\ x \in Nat /\ x > ChunkHdr
  BY <1>2, Consts, MultSum
<1> HIDE DEF x
<1>4. ALIGNMENT(x) = x
  BY <1>3, AlignIs
<1> QED BY <1>1, <1>3, <1>4 DEF x

(* A larger class has larger chunks. *)
LEMMA ClassSizeMono ==
  ASSUME NEW mm, mm.power \in BOOLEAN, NEW i \in Nat, NEW j \in Nat, i < j
  PROVE  class_size(mm, i) < class_size(mm, j)
<1> DEFINE Bad == {k \in Nat : i < k /\ ~(class_size(mm, i) < class_size(mm, k))}
<1> SUFFICES ASSUME j \in Bad PROVE FALSE
  OBVIOUS
<1>1. PICK k \in Bad : \A l \in Bad : k <= l
  <2>1. Bad \in SUBSET Nat /\ j \in Bad
    OBVIOUS
  <2> HIDE DEF Bad
  <2> QED BY <2>1, LeastNat
<1>2. k - 1 \in Nat /\ (k - 1) + 1 = k /\ ~(k <= k - 1) /\ i <= k - 1
  BY <1>1
<1>3. Raw(mm.power, k - 1) < Raw(mm.power, k) /\ Raw(mm.power, k - 1) \in Nat
      /\ Raw(mm.power, k) \in Nat
  <2>1. Raw(mm.power, k - 1) < Raw(mm.power, (k - 1) + 1) /\ Raw(mm.power, k - 1) \in Nat
    BY <1>2, RawIs
  <2> QED BY <1>1, <1>2, <2>1, RawIs
<1>4. class_size(mm, k - 1) = ChunkHdr + Raw(mm.power, k - 1)
      /\ class_size(mm, k) = ChunkHdr + Raw(mm.power, k)
  BY <1>1, <1>2, ClassSizeIs
<1>5. class_size(mm, k - 1) < class_size(mm, k) /\ class_size(mm, k - 1) \in Nat
      /\ class_size(mm, k) \in Nat
  BY <1>3, <1>4, Consts
<1>6. i = k - 1 \/ class_size(mm, i) < class_size(mm, k - 1)
  BY <1>1, <1>2
<1>7. class_size(mm, i) \in Nat
  BY ClassSizeIs
<1>8. class_size(mm, i) < class_size(mm, k)
  BY <1>5, <1>6, <1>7
<1> QED BY <1>1, <1>8

LEMMA SizeSame ==
  ASSUME NEW mm, NEW nn, nn.power = mm.power, nn.max = mm.max
  PROVE  ClassCount(nn) = ClassCount(mm) /\ \A i : class_size(nn, i) = class_size(mm, i)
BY DEF ClassCount, class_size

-----------------------------------------------------------------------------
(* shs_slabs_clsid *)

Turn == [low : Nat, high : Nat, id : Int]
IsSearch(f, mm, n, top, j) ==
  f = [k \in 0..j |-> IF k = 0 THEN [low |-> 1, high |-> top - 1, id |-> InvalidId]
                      ELSE look(mm, n, f[k - 1])]

LEMMA SearchExists ==
  ASSUME NEW mm, NEW n, NEW top, NEW j \in Nat PROVE \E f : IsSearch(f, mm, n, top, j)
<1> DEFINE init == [low |-> 1, high |-> top - 1, id |-> InvalidId]
           Bad == {k \in Nat : ~\E f : IsSearch(f, mm, n, top, k)}
<1> SUFFICES ASSUME j \in Bad PROVE FALSE
  OBVIOUS
<1>1. PICK k \in Bad : \A i \in Bad : k <= i
  <2>1. Bad \in SUBSET Nat /\ j \in Bad
    OBVIOUS
  <2> HIDE DEF Bad
  <2> QED BY <2>1, LeastNat
<1>2. CASE k = 0
  <2> DEFINE u == [i \in 0..k |-> init]
  <2> HIDE DEF init
  <2>1. u = [i \in 0..k |-> IF i = 0 THEN init ELSE look(mm, n, u[i - 1])]
    BY <1>2
  <2> HIDE DEF u
  <2>2. IsSearch(u, mm, n, top, k)
    BY <2>1 DEF IsSearch, init
  <2> QED BY <1>1, <2>2
<1>3. CASE k # 0
  <2>1. k - 1 \in Nat /\ ~(k <= k - 1)
    BY <1>1, <1>3
  <2>2. PICK u : IsSearch(u, mm, n, top, k - 1)
    BY <1>1, <2>1
  <2>3. \A i \in 0..(k - 1) : u[i] = IF i = 0 THEN init ELSE look(mm, n, u[i - 1])
    BY <2>2 DEF IsSearch
  <2> HIDE DEF init
  <2> DEFINE last == look(mm, n, u[k - 1])
             v == [i \in 0..k |-> IF i = k THEN last ELSE u[i]]
  <2>4. \A i \in 0..k : v[i] = IF i = 0 THEN init ELSE look(mm, n, v[i - 1])
    <3> TAKE i \in 0..k
    <3>1. CASE i = 0
      BY <1>3, <2>1, <2>3, <3>1
    <3>2. CASE i # 0
      <4>1. i - 1 \in 0..k /\ i - 1 # k /\ v[i - 1] = u[i - 1]
        BY <3>2, <1>1
      <4>2. i = k => v[i] = last
        OBVIOUS
      <4>3. i # k => v[i] = u[i] /\ i \in 0..(k - 1)
        BY <1>1
      <4> HIDE DEF v
      <4>4. CASE i = k
        BY <3>2, <4>1, <4>2, <4>4
      <4>5. CASE i # k
        BY <2>3, <3>2, <4>1, <4>3, <4>5
      <4> QED BY <4>4, <4>5
    <3> QED BY <3>1, <3>2
  <2>5. v = [i \in 0..k |-> v[i]]
    OBVIOUS
  <2> HIDE DEF v
  <2>6. IsSearch(v, mm, n, top, k)
    BY <2>4, <2>5 DEF IsSearch, init
  <2> QED BY <1>1, <2>6
<1> QED BY <1>2, <1>3

(* id is the class of all bytes, the header included. *)
ClassFor(mm, all, id) ==
  /\ id \in Nat /\ all <= class_size(mm, id)
  /\ \A i \in 0..(id - 1) : class_size(mm, i) < all

LEMMA ClassForIs ==
  ASSUME NEW mm, mm.power \in BOOLEAN, NEW all \in Nat, NEW id \in Nat \ {0},
         class_size(mm, id - 1) < all, all <= class_size(mm, id)
  PROVE  ClassFor(mm, all, id)
<1>1. ASSUME NEW i \in 0..(id - 1) PROVE class_size(mm, i) < all
  <2>1. id - 1 \in Nat /\ i \in Nat /\ (i = id - 1 \/ i < id - 1)
    OBVIOUS
  <2>2. class_size(mm, i) \in Nat /\ class_size(mm, id - 1) \in Nat
    BY <2>1, ClassSizeIs
  <2>3. i < id - 1 => class_size(mm, i) < class_size(mm, id - 1)
    BY <2>1, ClassSizeMono
  <2> QED BY <2>1, <2>2, <2>3
<1> QED BY <1>1 DEF ClassFor

(* What is known after a turn of the search: the class, or where it is. *)
Narrowed(mm, n, top, t, left) ==
  /\ t \in Turn
  /\ \/ t.id \in 1..top /\ class_size(mm, t.id - 1) < n /\ n <= class_size(mm, t.id)
     \/ /\ t.id = InvalidId /\ t.low \in 1..t.high /\ t.high < top
        /\ class_size(mm, t.low - 1) < n /\ n <= class_size(mm, t.high + 1)
        /\ t.high - t.low < left

LEMMA LookIs ==
  ASSUME NEW mm, mm.power \in BOOLEAN, NEW n \in Nat, NEW top \in Nat, NEW left \in Int,
         NEW t, Narrowed(mm, n, top, t, left)
  PROVE  Narrowed(mm, n, top, look(mm, n, t), left - 1)
<1> DEFINE sz(i) == class_size(mm, i)
           mid == (t.low + t.high) \div 2
           q == look(mm, n, t)
<1>1. q = IF t.id # InvalidId \/ t.low > t.high THEN t
          ELSE IF n > sz(mid)
          THEN IF n <= sz(mid + 1) THEN [t EXCEPT !.id = mid + 1]
               ELSE [t EXCEPT !.low = mid + 1]
          ELSE IF n > sz(mid - 1) THEN [t EXCEPT !.id = mid]
          ELSE IF n = sz(mid - 1) THEN [t EXCEPT !.id = mid - 1]
          ELSE [t EXCEPT !.high = mid - 1]
  BY DEF look
<1>2. t \in Turn /\ t.low \in Nat /\ t.high \in Nat /\ t.id \in Int
  BY DEF Narrowed, Turn
<1>3. CASE t.id # InvalidId
  <2>1. q = t
    BY <1>1, <1>3
  <2> QED BY <1>3, <2>1 DEF Narrowed
<1>4. CASE t.id = InvalidId
  <2>1. InvalidId \notin 1..top
    BY DEF InvalidId
  <2>2. /\ t.low \in 1..t.high /\ t.high < top /\ sz(t.low - 1) < n /\ n <= sz(t.high + 1)
        /\ t.high - t.low < left
    BY <1>4, <2>1 DEF Narrowed
  <2>3. ~(t.low > t.high)
    BY <1>2, <2>2
  <2> DEFINE a == t.low
             b == t.high
  <2>4. a \in Nat /\ b \in Nat /\ a >= 1 /\ a <= b /\ b < top /\ sz(a - 1) < n
        /\ n <= sz(b + 1) /\ b - a < left
    BY <1>2, <2>2
  <2>5. mid \in Nat /\ a <= mid /\ mid <= b
    BY <2>4
  <2>6. \A e \in Int : [t EXCEPT !.id = e] \in Turn /\ [t EXCEPT !.id = e].id = e
    BY <1>2 DEF Turn
  <2>7. \A e \in Nat : /\ [t EXCEPT !.low = e] \in Turn /\ [t EXCEPT !.low = e].low = e
                       /\ [t EXCEPT !.low = e].high = b /\ [t EXCEPT !.low = e].id = InvalidId
    BY <1>2, <1>4 DEF Turn
  <2>8. \A e \in Nat : /\ [t EXCEPT !.high = e] \in Turn /\ [t EXCEPT !.high = e].high = e
                       /\ [t EXCEPT !.high = e].low = a /\ [t EXCEPT !.high = e].id = InvalidId
    BY <1>2, <1>4 DEF Turn
  <2> HIDE DEF q, mid, a, b
  <2>9. \A i \in Nat : sz(i) \in Nat
    BY ClassSizeIs
  <2>10. \A i, j \in Nat : i < j => sz(i) < sz(j)
    BY ClassSizeMono
  <2> HIDE DEF sz
  <2>11. mid - 1 \in Nat /\ mid + 1 \in Nat /\ a - 1 \in Nat /\ b + 1 \in Nat
    BY <2>4, <2>5
  <2>12. CASE n > sz(mid) /\ n <= sz(mid + 1)
    <3>1. q = [t EXCEPT !.id = mid + 1]
      BY <1>1, <1>4, <2>3, <2>12
    <3>2. q \in Turn /\ q.id = mid + 1
      BY <2>6, <2>11, <3>1
    <3>3. mid + 1 \in 1..top /\ (mid + 1) - 1 = mid
      BY <2>4, <2>5
    <3>4. sz(q.id - 1) < n /\ n <= sz(q.id)
      BY <2>5, <2>9, <2>12, <3>2, <3>3
    <3> QED BY <3>2, <3>3, <3>4 DEF Narrowed, q, sz
  <2>13. CASE n > sz(mid) /\ ~(n <= sz(mid + 1))
    <3>1. q = [t EXCEPT !.low = mid + 1]
      BY <1>1, <1>4, <2>3, <2>13
    <3>2. q \in Turn /\ q.low = mid + 1 /\ q.high = b /\ q.id = InvalidId
      BY <2>7, <2>11, <3>1
    <3>3. mid # b
      BY <2>4, <2>13
    <3>4. mid + 1 \in 1..b /\ (mid + 1) - 1 = mid /\ b - (mid + 1) < left - 1
      BY <2>4, <2>5, <3>3
    <3>5. sz(mid) < n
      BY <2>5, <2>9, <2>13
    <3> QED BY <2>4, <3>2, <3>4, <3>5 DEF Narrowed, q, sz
  <2>14. CASE ~(n > sz(mid)) /\ n > sz(mid - 1)
    <3>1. q = [t EXCEPT !.id = mid]
      BY <1>1, <1>4, <2>3, <2>14
    <3>2. q \in Turn /\ q.id = mid
      BY <2>5, <2>6, <3>1
    <3>3. mid \in 1..top
      BY <2>4, <2>5
    <3>4. sz(mid - 1) < n /\ n <= sz(mid)
      BY <2>5, <2>9, <2>11, <2>14
    <3> QED BY <3>2, <3>3, <3>4 DEF Narrowed, q, sz
  <2>15. CASE ~(n > sz(mid)) /\ ~(n > sz(mid - 1)) /\ n = sz(mid - 1)
    <3>1. q = [t EXCEPT !.id = mid - 1]
      BY <1>1, <1>4, <2>3, <2>15
    <3>2. q \in Turn /\ q.id = mid - 1
      BY <2>6, <2>11, <3>1
    <3>3. mid - 1 # a - 1
      BY <2>4, <2>15
    <3>4. mid - 1 \in 1..top /\ (mid - 1) - 1 \in Nat /\ (mid - 1) - 1 < mid - 1
      BY <2>4, <2>5, <3>3
    <3>5. sz((mid - 1) - 1) < n /\ n <= sz(mid - 1)
      BY <2>10, <2>11, <2>15, <3>4
    <3> QED BY <3>2, <3>4, <3>5 DEF Narrowed, q, sz
  <2>16. CASE ~(n > sz(mid)) /\ ~(n > sz(mid - 1)) /\ n # sz(mid - 1)
    <3>1. q = [t EXCEPT !.high = mid - 1]
      BY <1>1, <1>4, <2>3, <2>16
    <3>2. q \in Turn /\ q.high = mid - 1 /\ q.low = a /\ q.id = InvalidId
      BY <2>8, <2>11, <3>1
    <3>3. n < sz(mid - 1) /\ n <= sz(mid)
      BY <2>5, <2>9, <2>11, <2>16
    <3>4. mid - 1 # a - 1
      BY <2>4, <2>9, <2>11, <3>3
    <3>5. a \in 1..(mid - 1) /\ mid - 1 < top /\ (mid - 1) + 1 = mid
          /\ (mid - 1) - a < left - 1
      BY <2>4, <2>5, <3>4
    <3> QED BY <2>4, <3>2, <3>3, <3>5 DEF Narrowed, q, sz
  <2> QED BY <2>12, <2>13, <2>14, <2>15, <2>16 DEF q
<1> QED BY <1>3, <1>4

(* The search finds the class, unless there are only two. *)
LEMMA SearchFinds ==
  ASSUME NEW mm, mm.power \in BOOLEAN, NEW n \in Nat, NEW top \in Nat \ {0},
         class_size(mm, 0) < n, n <= class_size(mm, top),
         NEW id, id = search(mm, n, top)
  PROVE  \/ id \in 1..top /\ ClassFor(mm, n, id)
         \/ id = InvalidId /\ top = 1
<1>1. \E f : IsSearch(f, mm, n, top, top)
  BY SearchExists
<1>2. PICK f : IsSearch(f, mm, n, top, top) /\ id = f[top].id
  BY <1>1 DEF search, IsSearch
<1> DEFINE init == [low |-> 1, high |-> top - 1, id |-> InvalidId]
<1>3. \A k \in 0..top : f[k] = IF k = 0 THEN init ELSE look(mm, n, f[k - 1])
  BY <1>2 DEF IsSearch
<1>4. init \in Turn /\ init.low = 1 /\ init.high = top - 1 /\ init.id = InvalidId
  BY DEF Turn, InvalidId
<1> HIDE DEF init
<1>5. CASE top # 1
  <2> DEFINE Good(k) == Narrowed(mm, n, top, f[k], top - 1 - k)
             Bad == {k \in 0..top : ~Good(k)}
  <2>1. Bad = {}
    <3> SUFFICES ASSUME Bad # {} PROVE FALSE
      OBVIOUS
    <3>1. PICK k \in Bad : \A j \in Bad : k <= j
      <4>1. Bad \in SUBSET Nat
        OBVIOUS
      <4> HIDE DEF Bad
      <4> QED BY <4>1, LeastNat
    <3>2. k \in 0..top
      OBVIOUS
    <3>3. CASE k = 0
      <4>1. f[k] = init
        BY <1>3, <3>2, <3>3
      <4>2. 1 \in 1..(top - 1) /\ top - 1 < top /\ 1 - 1 = 0 /\ (top - 1) + 1 = top
            /\ (top - 1) - 1 < top - 1 - 0
        BY <1>5
      <4>3. Narrowed(mm, n, top, init, top - 1 - 0)
        BY <1>4, <4>2 DEF Narrowed
      <4> QED BY <3>1, <3>3, <4>1, <4>3
    <3>4. CASE k # 0
      <4>1. k - 1 \in 0..top /\ ~(k <= k - 1)
        BY <3>2, <3>4
      <4>2. Good(k - 1)
        BY <3>1, <4>1
      <4>3. f[k] = look(mm, n, f[k - 1])
        BY <1>3, <3>2, <3>4
      <4> DEFINE left == top - 1 - (k - 1)
      <4>4. left \in Int /\ left - 1 = top - 1 - k
        BY <3>2
      <4>5. Narrowed(mm, n, top, f[k - 1], left)
        BY <4>2
      <4> HIDE DEF left
      <4>6. Narrowed(mm, n, top, f[k], left - 1)
        BY <4>3, <4>4, <4>5, LookIs
      <4> QED BY <3>1, <4>4, <4>6
    <3> QED BY <3>3, <3>4
  <2>2. Good(top)
    <3>1. top \in 0..top
      OBVIOUS
    <3> QED BY <2>1, <3>1
  <2>3. id \in 1..top /\ class_size(mm, id - 1) < n /\ n <= class_size(mm, id)
    <3>1. f[top].low \in Nat /\ f[top].high \in Nat
      BY <2>2 DEF Narrowed, Turn
    <3>2. ~(f[top].low \in 1..f[top].high /\ f[top].high - f[top].low < top - 1 - top)
      BY <3>1
    <3> QED BY <1>2, <2>2, <3>2 DEF Narrowed
  <2> QED BY <2>3, ClassForIs
<1>6. CASE top = 1
  <2> DEFINE t == f[1]
  <2>1. f[0] = init /\ f[1] = look(mm, n, f[0])
    BY <1>3, <1>6
  <2>2. init.low > init.high
    BY <1>4, <1>6
  <2>3. look(mm, n, init) = init
    BY <2>2 DEF look
  <2>4. id = InvalidId
    BY <1>2, <1>4, <1>6, <2>1, <2>3
  <2> QED BY <1>6, <2>4
<1> QED BY <1>5, <1>6

Classes(mm) == 0..(ClassCount(mm) - 1)

LEMMA ClassCountIs ==
  ASSUME NEW mm, mm.power \in BOOLEAN, mm.max \in ItemMaxes
  PROVE  ClassCount(mm) \in Nat \ {0, 1}
<1> DEFINE p == CeilDiv(mm.max, ItemMin)
           x == dfslog2(p, TRUE)
           y == CeilDiv(mm.max - ItemMin, SlabStep)
<1>1. mm.max \in Nat \ {0} /\ ItemMin \in Nat \ {0} /\ SlabStep \in Nat \ {0}
      /\ mm.max \div ItemMin >= 2
  BY Consts
<1>2. mm.max >= 2 * ItemMin
  <2>1. mm.max \div ItemMin \in Nat /\ (mm.max \div ItemMin) * ItemMin <= mm.max
    BY <1>1, DivIs
  <2>2. 2 * ItemMin <= (mm.max \div ItemMin) * ItemMin
        /\ (mm.max \div ItemMin) * ItemMin \in Nat
    BY <1>1, <2>1, MulMono
  <2> QED BY <1>1, <2>1, <2>2
<1>3. mm.max - ItemMin \in Nat /\ mm.max - ItemMin > 0
  BY <1>1, <1>2
<1>4. y \in Nat \ {0}
  <2> DEFINE d == mm.max - ItemMin
  <2>1. d \in Nat /\ d > 0 /\ y = CeilDiv(d, SlabStep)
    BY <1>3
  <2> HIDE DEF d, y
  <2>2. CeilDiv(d, SlabStep) \in Nat /\ CeilDiv(d, SlabStep) > 0
    BY <1>1, <2>1, CeilNat
  <2> QED BY <2>1, <2>2
<1>5. p \in Nat /\ p >= 2
  <2>1. p \in Nat /\ mm.max <= p * ItemMin /\ p * ItemMin \in Nat
    BY <1>1, CeilIs
  <2> HIDE DEF p
  <2>2. 1 * ItemMin < p * ItemMin
    BY <1>1, <1>2, <2>1
  <2>3. p # 0 /\ p # 1
    BY <1>1, <2>1, <2>2
  <2> QED BY <2>1, <2>3
<1>6. log2down(p) \in Nat \ {0}
  <2> HIDE DEF p
  <2>1. PICK f : IsLog(f, p) /\ log2down(p) = f[p] /\ \A i \in 0..p : f[i] \in Nat
    BY <1>5, LogIs
  <2>2. f[p] = 1 + f[p \div 2] /\ p \div 2 \in 0..p
    BY <1>5, <2>1 DEF IsLog
  <2>3. f[p \div 2] \in Nat
    BY <2>1, <2>2
  <2> QED BY <2>1, <2>2, <2>3
<1>7. x \in Nat \ {0}
  BY <1>6 DEF dfslog2
<1>8. ClassCount(mm) = 1 + x \/ ClassCount(mm) = 1 + y
  BY DEF ClassCount
<1> HIDE DEF x, y
<1> QED BY <1>4, <1>7, <1>8

LEMMA ClsidIs ==
  ASSUME NEW mm, mm.power \in BOOLEAN, mm.max \in ItemMaxes, NEW n \in Nat \ {0},
         NEW id, id = clsid(mm, n)
  PROVE  \/ id \in Classes(mm) /\ ClassFor(mm, n + ChunkHdr, id)
         \/ /\ id = InvalidId
            /\ \/ n + ChunkHdr > class_size(mm, ClassCount(mm) - 1)
               \/ /\ mm.power /\ ClassCount(mm) = 2 /\ class_size(mm, 0) < n + ChunkHdr
                  /\ ALIGNMENT(n + ChunkHdr) # class_size(mm, 1)
<1> DEFINE all == ALIGNMENT(n + ChunkHdr)
           top == ClassCount(mm) - 1
<1>1. top \in Nat \ {0} /\ Classes(mm) = 0..top /\ 0 \in Classes(mm) /\ top \in Classes(mm)
  BY ClassCountIs DEF Classes
<1>2. id = IF all > class_size(mm, top) THEN InvalidId
           ELSE IF all <= class_size(mm, 0) THEN 0
           ELSE IF all = class_size(mm, top) THEN top
           ELSE IF mm.power THEN search(mm, all, top)
           ELSE CeilDiv(n - ItemMin, SlabStep)
  BY DEF clsid
<1>3. n + ChunkHdr \in Nat
  BY Consts
<1>4. all \in Nat /\ \A i \in Nat : all <= class_size(mm, i) <=> n + ChunkHdr <= class_size(mm, i)
  <2>1. \A i \in Nat : class_size(mm, i) \in Nat /\ Mult(class_size(mm, i))
    BY ClassSizeIs
  <2>2. all \in Nat /\ n + ChunkHdr <= all
        /\ \A c : Mult(c) /\ n + ChunkHdr <= c => all <= c
    BY <1>3, AlignIs
  <2> HIDE DEF all
  <2> QED BY <1>3, <2>1, <2>2
<1>5. ALIGNMENT(n + ChunkHdr) = all /\ ClassCount(mm) - 1 = top /\ (top = 1 => ClassCount(mm) = 2)
  BY ClassCountIs
<1> HIDE DEF all, top
<1>6. \A i \in Nat : class_size(mm, i) \in Nat
  BY ClassSizeIs
<1>7. \A i \in Nat : class_size(mm, i) < all <=> class_size(mm, i) < n + ChunkHdr
  BY <1>3, <1>4, <1>6
<1>8. \A i \in Nat : ClassFor(mm, all, i) => ClassFor(mm, n + ChunkHdr, i)
  BY <1>4, <1>7 DEF ClassFor
<1>9. CASE all > class_size(mm, top)
  <2>1. id = InvalidId
    BY <1>2, <1>9
  <2>2. class_size(mm, top) < all
    BY <1>1, <1>4, <1>6, <1>9
  <2>3. n + ChunkHdr > class_size(mm, top)
    BY <1>1, <1>3, <1>6, <1>7, <2>2
  <2> QED BY <1>5, <2>1, <2>3
<1>10. CASE ~(all > class_size(mm, top)) /\ all <= class_size(mm, 0)
  <2>1. id = 0
    BY <1>2, <1>10
  <2>2. ClassFor(mm, all, 0)
    BY <1>10 DEF ClassFor
  <2> QED BY <1>1, <1>8, <2>1, <2>2
<1>11. CASE ~(all > class_size(mm, top)) /\ ~(all <= class_size(mm, 0))
            /\ all = class_size(mm, top)
  <2>1. id = top
    BY <1>2, <1>11
  <2>2. class_size(mm, top - 1) < class_size(mm, top) /\ all <= class_size(mm, top)
    BY <1>1, <1>4, <1>11, ClassSizeMono
  <2>3. ClassFor(mm, all, top)
    BY <1>1, <1>4, <1>11, <2>2, ClassForIs
  <2> QED BY <1>1, <1>8, <2>1, <2>3
<1>12. ASSUME ~(all > class_size(mm, top)), ~(all <= class_size(mm, 0)),
              all # class_size(mm, top)
       PROVE  /\ class_size(mm, 0) < all /\ all <= class_size(mm, top)
              /\ id = IF mm.power THEN search(mm, all, top)
                      ELSE CeilDiv(n - ItemMin, SlabStep)
  <2>1. class_size(mm, 0) < all /\ all <= class_size(mm, top)
    BY <1>1, <1>4, <1>6, <1>12
  <2> QED BY <1>2, <1>12, <2>1
<1>13. CASE ~(all > class_size(mm, top)) /\ ~(all <= class_size(mm, 0))
            /\ all # class_size(mm, top) /\ mm.power
  <2>1. class_size(mm, 0) < all /\ all <= class_size(mm, top) /\ id = search(mm, all, top)
    BY <1>12, <1>13
  <2>2. \/ id \in 1..top /\ ClassFor(mm, all, id)
        \/ id = InvalidId /\ top = 1
    <3>1. top \in Nat \ {0} /\ all \in Nat
      BY <1>1, <1>4
    <3> DEFINE e == search(mm, all, top)
    <3>2. class_size(mm, 0) < all /\ all <= class_size(mm, top) /\ id = e
      BY <2>1
    <3>3. \/ e \in 1..top /\ ClassFor(mm, all, e)
          \/ e = InvalidId /\ top = 1
      BY <3>1, <3>2, SearchFinds
    <3> HIDE DEF e
    <3> QED BY <3>2, <3>3
  <2>3. CASE id \in 1..top /\ ClassFor(mm, all, id)
    BY <1>1, <1>8, <2>3
  <2>4. CASE id = InvalidId /\ top = 1
    <3>1. class_size(mm, 0) < n + ChunkHdr
      BY <1>7, <2>1
    <3> QED BY <1>5, <1>13, <2>4, <3>1
  <2> QED BY <2>2, <2>3, <2>4
<1>14. CASE ~(all > class_size(mm, top)) /\ ~(all <= class_size(mm, 0))
            /\ all # class_size(mm, top) /\ ~mm.power
  <2>1. class_size(mm, 0) < all /\ all <= class_size(mm, top)
        /\ id = CeilDiv(n - ItemMin, SlabStep)
    BY <1>12, <1>14
  <2>2. class_size(mm, 0) < n + ChunkHdr /\ n + ChunkHdr <= class_size(mm, top)
    BY <1>1, <1>4, <1>7, <2>1
  <2>3. ItemMin \in Nat \ {0} /\ SlabStep \in Nat \ {0} /\ ChunkHdr \in Nat
    BY Consts
  <2>4. \A i \in Nat : class_size(mm, i) = ChunkHdr + (ItemMin + i * SlabStep)
    <3> TAKE i \in Nat
    <3>1. class_size(mm, i) = ChunkHdr + Raw(mm.power, i)
      BY ClassSizeIs
    <3>2. Raw(mm.power, i) = ItemMin + i * SlabStep
      BY <1>14, RawIs
    <3> QED BY <3>1, <3>2
  <2>5. ItemMin < n /\ n - ItemMin \in Nat
    <3>1. class_size(mm, 0) = ChunkHdr + (ItemMin + 0 * SlabStep)
      BY <2>4
    <3> QED BY <2>2, <2>3, <3>1
  <2>6. /\ id \in Nat /\ n - ItemMin <= id * SlabStep /\ id * SlabStep \in Nat
        /\ \A q \in Nat : n - ItemMin <= q * SlabStep => id <= q
    BY <2>1, <2>3, <2>5, CeilIs
  <2>7. \A i \in Nat : i * SlabStep \in Nat
    BY <2>3
  <2>8. n + ChunkHdr <= class_size(mm, id)
    BY <2>3, <2>4, <2>5, <2>6
  <2>9. id <= top
    <3>1. n - ItemMin <= top * SlabStep
      BY <1>1, <2>2, <2>3, <2>4, <2>5, <2>7
    <3> QED BY <1>1, <2>6, <3>1
  <2>10. ASSUME NEW i \in 0..(id - 1) PROVE class_size(mm, i) < n + ChunkHdr
    <3>1. i \in Nat /\ ~(id <= i)
      BY <2>6
    <3>2. ~(n - ItemMin <= i * SlabStep)
      BY <2>6, <3>1
    <3> QED BY <2>3, <2>4, <2>5, <2>7, <3>1, <3>2
  <2> QED BY <1>1, <2>6, <2>8, <2>9, <2>10 DEF ClassFor
<1> QED BY <1>9, <1>10, <1>11, <1>13, <1>14

-----------------------------------------------------------------------------
(* The manager. *)

Chunk == [size : Nat, req : Nat, id : Int]
Chs == UNION {[X -> Chunk] : X \in SUBSET Nat}
MgrRec == [power : BOOLEAN, max : ItemMaxes, list : Frees, chunk : Chs,
           used : Int, reqs : Int, free : Int, count : Int]
MShape(mm) == mm \in MgrRec /\ DOMAIN mm.list = Classes(mm)
Cs(mm) == DOMAIN mm.chunk

LEMMA MShapeIs ==
  ASSUME NEW mm, MShape(mm)
  PROVE  /\ mm.power \in BOOLEAN /\ mm.max \in ItemMaxes
         /\ mm.list \in [Classes(mm) -> Seq(Nat)]
         /\ Cs(mm) \in SUBSET Nat /\ mm.chunk \in [Cs(mm) -> Chunk]
         /\ mm.used \in Int /\ mm.reqs \in Int /\ mm.free \in Int /\ mm.count \in Int
         /\ \A a \in Cs(mm) : /\ mm.chunk[a].size \in Nat /\ mm.chunk[a].req \in Nat
                              /\ mm.chunk[a].id \in Int
<1>0. /\ mm \in MgrRec /\ DOMAIN mm.list = Classes(mm)
  BY DEF MShape
<1>1. /\ mm.power \in BOOLEAN /\ mm.max \in ItemMaxes /\ mm.list \in Frees /\ mm.chunk \in Chs
      /\ mm.used \in Int /\ mm.reqs \in Int /\ mm.free \in Int /\ mm.count \in Int
  BY <1>0 DEF MgrRec
<1>2. PICK X \in SUBSET Nat : mm.list \in [X -> Seq(Nat)]
  BY <1>1 DEF Frees
<1>3. PICK Y \in SUBSET Nat : mm.chunk \in [Y -> Chunk]
  BY <1>1 DEF Chs
<1>4. X = Classes(mm) /\ Y = Cs(mm)
  BY <1>0, <1>2, <1>3 DEF Cs
<1>5. \A a \in Cs(mm) : mm.chunk[a] \in Chunk
  BY <1>3, <1>4
<1>6. ASSUME NEW a \in Cs(mm)
      PROVE  /\ mm.chunk[a].size \in Nat /\ mm.chunk[a].req \in Nat /\ mm.chunk[a].id \in Int
  BY <1>5 DEF Chunk
<1> QED BY <1>1, <1>2, <1>3, <1>4, <1>6

(* The manager k is mm with these fields. *)
With(mm, k, l, c, u, r, f, n) ==
  /\ k.power = mm.power /\ k.max = mm.max
  /\ k.list = l /\ k.chunk = c /\ k.used = u /\ k.reqs = r /\ k.free = f /\ k.count = n

LEMMA WithIs ==
  ASSUME NEW mm, MShape(mm), NEW l \in [Classes(mm) -> Seq(Nat)], NEW c \in Chs,
         NEW u \in Int, NEW r \in Int, NEW f \in Int, NEW n \in Int,
         NEW k, k = [mm EXCEPT !.list = l, !.chunk = c, !.used = u, !.reqs = r,
                               !.free = f, !.count = n]
  PROVE  MShape(k) /\ With(mm, k, l, c, u, r, f, n)
<1>1. mm \in MgrRec
  BY DEF MShape
<1>2. With(mm, k, l, c, u, r, f, n)
  BY <1>1 DEF With, MgrRec
<1>3. Classes(mm) \in SUBSET Nat
  <2>1. ClassCount(mm) \in Nat \ {0, 1}
    BY MShapeIs, ClassCountIs
  <2> QED BY <2>1 DEF Classes
<1>4. l \in Frees
  BY <1>3 DEF Frees
<1>5. k \in MgrRec
  BY <1>1, <1>4 DEF MgrRec
<1>6. Classes(k) = Classes(mm)
  BY <1>2, SizeSame DEF With, Classes
<1> QED BY <1>2, <1>5, <1>6 DEF MShape, With

(* A function with one place more, less, or changed. *)
Plus(c, a, x) == [b \in DOMAIN c \cup {a} |-> IF b = a THEN x ELSE c[b]]

LEMMA PlusIs ==
  ASSUME NEW c \in Chs, NEW a \in Nat, NEW x \in Chunk
  PROVE  /\ Plus(c, a, x) \in Chs /\ DOMAIN Plus(c, a, x) = DOMAIN c \cup {a}
         /\ Plus(c, a, x)[a] = x /\ \A b \in DOMAIN c \ {a} : Plus(c, a, x)[b] = c[b]
<1>1. PICK X \in SUBSET Nat : c \in [X -> Chunk]
  BY DEF Chs
<1>2. DOMAIN c = X /\ X \cup {a} \in SUBSET Nat
  BY <1>1
<1>3. Plus(c, a, x) \in [X \cup {a} -> Chunk]
  BY <1>1, <1>2 DEF Plus
<1>4. Plus(c, a, x) \in Chs
  BY <1>2, <1>3 DEF Chs
<1> QED BY <1>2, <1>4 DEF Plus

LEMMA MinusIs ==
  ASSUME NEW c \in Chs, NEW a
  PROVE  /\ Restrict(c, DOMAIN c \ {a}) \in Chs
         /\ DOMAIN Restrict(c, DOMAIN c \ {a}) = DOMAIN c \ {a}
         /\ \A b \in DOMAIN c \ {a} : Restrict(c, DOMAIN c \ {a})[b] = c[b]
<1>1. PICK X \in SUBSET Nat : c \in [X -> Chunk]
  BY DEF Chs
<1>2. DOMAIN c = X /\ X \ {a} \in SUBSET Nat
  BY <1>1
<1>3. Restrict(c, DOMAIN c \ {a}) \in [X \ {a} -> Chunk]
  BY <1>1, <1>2 DEF Restrict
<1>4. Restrict(c, DOMAIN c \ {a}) \in Chs
  BY <1>2, <1>3 DEF Chs
<1> QED BY <1>2, <1>4 DEF Restrict

-----------------------------------------------------------------------------
(* The invariant of the manager. *)

(* The chunks and the storages Rw of the other clients are given out by    *)
(* the segment, and are different; Lv are chunks.                          *)
Lay(g, mm, Lv, Rw) ==
  /\ Lv \subseteq Cs(mm) /\ Cs(mm) \cup Rw \subseteq TakenOf(g) /\ Cs(mm) \cap Rw = {}
  /\ \A a \in Cs(mm) : mm.chunk[a].size + ChunkHdr <= g.blk[a].size

(* The header c is right: of its class, and of no smaller one. *)
Good(mm, c) ==
  /\ c.id \in Classes(mm) \cup {SplitId} /\ c.req <= c.size
  /\ c.id \in Classes(mm) => c.size + ChunkHdr = class_size(mm, c.id)
  /\ \A i \in 0..(c.id - 1) : c.req + ChunkHdr > class_size(mm, i)

Waiting(mm, Lv, i) == {a \in Cs(mm) \ Lv : mm.chunk[a].id = i}

(* A chunk that no client has is once in the list of its class. *)
Tidy(mm, Lv) ==
  /\ \A a \in Cs(mm) : Good(mm, mm.chunk[a])
  /\ \A a \in Cs(mm) \ Lv : mm.chunk[a].id \in Classes(mm)
  /\ \A i \in Classes(mm) : Once(mm.list[i], Waiting(mm, Lv, i))
  /\ IsFiniteSet(Cs(mm)) /\ mm.count = Cardinality(Cs(mm))

(* The bytes of chunks X, and those asked for. *)
Bytes(mm, X) == SumOver(X, [a \in X |-> mm.chunk[a].size])
Asked(mm, X) == SumOver(X, [a \in X |-> mm.chunk[a].req])
Top(mm) == class_size(mm, ClassCount(mm) - 1)

(* v is x modulo Word. *)
Cong(v, x) == v \in Nat /\ v < Word /\ \E q \in Int : x = Word * q + v

(* The statistics drift, used and free by the same amount. *)
Stat(mm, Lv) ==
  /\ mm.used - Bytes(mm, Lv) \in 0..(Top(mm) - 1)
  /\ Cong(mm.free, Bytes(mm, Cs(mm) \ Lv) - (mm.used - Bytes(mm, Lv)))
  /\ mm.reqs - Asked(mm, Lv) \in 0..(mm.used - Bytes(mm, Lv))

Own(g, mm, Lv, Rw) ==
  Seg(g) /\ MShape(mm) /\ Lay(g, mm, Lv, Rw) /\ Tidy(mm, Lv) /\ Stat(mm, Lv)

LEMMA CongMod ==
  ASSUME NEW v, NEW x \in Int, Cong(v, x) PROVE v = x % Word
<1>1. Word \in Nat \ {0}
  BY Consts
<1>2. PICK q \in Int : x = Word * q + v
  BY DEF Cong
<1>3. v \in Int /\ 0 <= v /\ v < Word
  BY DEF Cong
<1> QED BY <1>1, <1>2, <1>3

LEMMA CongStep ==
  ASSUME NEW v, NEW x \in Int, Cong(v, x), NEW c \in Int
  PROVE  Cong((v + c) % Word, x + c)
<1> DEFINE w == Word
           y == v + c
           r == y % w
<1>1. w \in Nat \ {0}
  BY Consts
<1>2. PICK q \in Int : x = Word * q + v
  BY DEF Cong
<1>3. y \in Int /\ v \in Int
  BY DEF Cong
<1> HIDE DEF w
<1>4. /\ r \in Int /\ 0 <= r /\ r < w
  <2> HIDE DEF y
  <2> QED BY <1>1, <1>3
<1>5. y = w * (y \div w) + (y % w) /\ y \div w \in Int
  <2> HIDE DEF y
  <2>1. y = w * (y \div w) + (y % w)
    BY <1>1, <1>3
  <2> QED BY <2>1, <1>1, <1>3
<1> DEFINE p == y \div w
<1> HIDE DEF r, p
<1>6. y = w * p + r /\ p \in Int
  BY <1>5 DEF r, p
<1>7. x + c = w * q + w * p + r
  BY <1>1, <1>2, <1>3, <1>4, <1>6 DEF w
<1>8. w * q + w * p = w * (q + p) /\ w * (q + p) \in Int
  BY <1>1, <1>6
<1>9. x + c = w * (q + p) + r /\ q + p \in Int
  BY <1>7, <1>8, <1>4, <1>6
<1>10. Cong(r, x + c)
  BY <1>4, <1>9 DEF Cong, w
<1> QED BY <1>10 DEF r, w

-----------------------------------------------------------------------------
(* Sums over chunks. *)

LEMMA BytesIs ==
  ASSUME NEW mm, MShape(mm), NEW X, X \subseteq Cs(mm)
  PROVE  /\ Bytes(mm, X) \in Nat /\ Asked(mm, X) \in Nat
         /\ X = {} => Bytes(mm, X) = 0 /\ Asked(mm, X) = 0
<1> DEFINE f == [a \in X |-> mm.chunk[a].size]
           r == [a \in X |-> mm.chunk[a].req]
<1>1. \A y \in X : f[y] \in Nat /\ r[y] \in Nat
  BY MShapeIs
<1> HIDE DEF f, r
<1>2. SumOver(X, f) \in Nat /\ (X = {} => SumOver(X, f) = 0)
  BY <1>1, SumNat
<1>3. SumOver(X, r) \in Nat /\ (X = {} => SumOver(X, r) = 0)
  BY <1>1, SumNat
<1> QED BY <1>2, <1>3 DEF Bytes, Asked, f, r

LEMMA BytesSame ==
  ASSUME NEW mm, MShape(mm), NEW X, X \subseteq Cs(mm), NEW k,
         \A y \in X : k.chunk[y] = mm.chunk[y]
  PROVE  Bytes(k, X) = Bytes(mm, X) /\ Asked(k, X) = Asked(mm, X)
<1>1. [a \in X |-> k.chunk[a].size] = [a \in X |-> mm.chunk[a].size]
  OBVIOUS
<1>2. [a \in X |-> k.chunk[a].req] = [a \in X |-> mm.chunk[a].req]
  OBVIOUS
<1> QED BY <1>1, <1>2 DEF Bytes, Asked

LEMMA BytesPlus ==
  ASSUME NEW mm, MShape(mm), NEW X, X \subseteq Cs(mm), NEW k, MShape(k),
         NEW x \in 0..(End - 1), x \notin X, X \cup {x} \subseteq Cs(k),
         \A y \in X : k.chunk[y] = mm.chunk[y]
  PROVE  /\ Bytes(k, X \cup {x}) = Bytes(mm, X) + k.chunk[x].size
         /\ Asked(k, X \cup {x}) = Asked(mm, X) + k.chunk[x].req
<1> DEFINE T == X \cup {x}
           f == [a \in X |-> mm.chunk[a].size]
           g == [a \in T |-> k.chunk[a].size]
           p == [a \in X |-> mm.chunk[a].req]
           q == [a \in T |-> k.chunk[a].req]
<1>1. \A y \in X : f[y] \in Int /\ p[y] \in Int
  BY MShapeIs
<1>2. \A y \in T : g[y] \in Int /\ q[y] \in Int
  BY MShapeIs
<1>3. \A y : y # x => ((y \in X) <=> (y \in T)) /\ (y \in X => f[y] = g[y] /\ p[y] = q[y])
  OBVIOUS
<1>4. Term(X, f, x) = 0 /\ Term(X, p, x) = 0
  BY DEF Term
<1>5. Term(T, g, x) = k.chunk[x].size /\ Term(T, q, x) = k.chunk[x].req
  BY DEF Term
<1>6. k.chunk[x].size \in Nat /\ k.chunk[x].req \in Nat
  BY MShapeIs
<1> HIDE DEF T, f, g, p, q
<1>7. /\ SumOver(X, f) \in Int /\ SumOver(T, g) = SumOver(X, f) - Term(X, f, x) + Term(T, g, x)
  BY <1>1, <1>2, <1>3, SumChange
<1>8. /\ SumOver(X, p) \in Int /\ SumOver(T, q) = SumOver(X, p) - Term(X, p, x) + Term(T, q, x)
  BY <1>1, <1>2, <1>3, SumChange
<1>9. SumOver(T, g) = SumOver(X, f) + k.chunk[x].size
  BY <1>4, <1>5, <1>6, <1>7
<1>10. SumOver(T, q) = SumOver(X, p) + k.chunk[x].req
  BY <1>4, <1>5, <1>6, <1>8
<1>11. Bytes(k, T) = SumOver(T, g) /\ Bytes(mm, X) = SumOver(X, f)
  BY DEF Bytes, f, g
<1>12. Asked(k, T) = SumOver(T, q) /\ Asked(mm, X) = SumOver(X, p)
  BY DEF Asked, p, q
<1> QED BY <1>9, <1>10, <1>11, <1>12 DEF T

-----------------------------------------------------------------------------
(* What a change of one chunk does to the lists and the statistics. *)

LEMMA GoodSame ==
  ASSUME NEW mm, NEW k, k.power = mm.power, k.max = mm.max, NEW c, Good(mm, c)
  PROVE  Good(k, c)
BY SizeSame DEF Good, Classes

LEMMA SameClasses ==
  ASSUME NEW mm, NEW k, k.power = mm.power, k.max = mm.max
  PROVE  Classes(k) = Classes(mm) /\ Top(k) = Top(mm)
         /\ \A i : class_size(k, i) = class_size(mm, i)
BY SizeSame DEF Classes, Top

LEMMA ClassIs ==
  ASSUME NEW mm, MShape(mm), NEW i \in Classes(mm)
  PROVE  /\ i \in Nat /\ class_size(mm, i) \in Nat /\ class_size(mm, i) > ChunkHdr
         /\ class_size(mm, i) <= Top(mm) /\ Top(mm) \in Nat /\ ChunkHdr \in Nat
         /\ i # SplitId /\ i # InvalidId
<1>1. mm.power \in BOOLEAN /\ mm.max \in ItemMaxes
  BY MShapeIs
<1> DEFINE t == ClassCount(mm) - 1
<1>2. ClassCount(mm) \in Nat \ {0, 1}
  BY <1>1, ClassCountIs
<1>3. t \in Nat /\ i \in Nat /\ i <= t
  BY <1>2 DEF Classes
<1> HIDE DEF t
<1>4. class_size(mm, i) \in Nat /\ class_size(mm, i) > ChunkHdr /\ class_size(mm, t) \in Nat
  BY <1>1, <1>3, ClassSizeIs
<1>5. i < t => class_size(mm, i) < class_size(mm, t)
  BY <1>1, <1>3, ClassSizeMono
<1>6. class_size(mm, i) <= class_size(mm, t)
  <2>1. i = t \/ i < t
    BY <1>3
  <2> QED BY <1>4, <1>5, <2>1
<1>7. ChunkHdr \in Nat
  BY Consts
<1> QED BY <1>3, <1>4, <1>6, <1>7 DEF Top, t, SplitId, InvalidId

(* The newest chunk of class i leaves its list and the manager. *)
Dropped(mm, k, i, a) ==
  /\ a = Head(mm.list[i])
  /\ With(mm, k, [mm.list EXCEPT ![i] = Tail(mm.list[i])],
          Restrict(mm.chunk, DOMAIN mm.chunk \ {a}), mm.used, mm.reqs,
          (mm.free - (class_size(mm, i) - ChunkHdr)) % Word, mm.count - 1)

LEMMA DropIs ==
  ASSUME NEW mm, MShape(mm), NEW Lv, Lv \subseteq Cs(mm), Tidy(mm, Lv), Stat(mm, Lv),
         Cs(mm) \subseteq 0..(End - 1),
         NEW i \in Classes(mm), mm.list[i] # <<>>, NEW a,
         NEW k, MShape(k), Dropped(mm, k, i, a)
  PROVE  /\ a \in Cs(mm) \ Lv /\ Cs(k) = Cs(mm) \ {a}
         /\ \A x \in Cs(k) : k.chunk[x] = mm.chunk[x]
         /\ Tidy(k, Lv) /\ Stat(k, Lv)
<1>1. Once(mm.list[i], Waiting(mm, Lv, i))
  BY DEF Tidy
<1>2. a \in Waiting(mm, Lv, i) /\ Once(Tail(mm.list[i]), Waiting(mm, Lv, i) \ {a})
  BY <1>1, OnceTail DEF Dropped
<1>3. a \in Cs(mm) \ Lv /\ mm.chunk[a].id = i
  BY <1>2 DEF Waiting
<1>4. mm.chunk \in Chs
  BY DEF MShape, MgrRec
<1>5. Cs(k) = Cs(mm) \ {a} /\ \A x \in Cs(k) : k.chunk[x] = mm.chunk[x]
  <2> DEFINE c == mm.chunk
             q == Restrict(c, DOMAIN c \ {a})
  <2>1. k.chunk = q
    BY DEF With, Dropped
  <2> HIDE DEF c
  <2>2. DOMAIN q = DOMAIN c \ {a} /\ \A x \in DOMAIN c \ {a} : q[x] = c[x]
    BY <1>4, MinusIs DEF c
  <2> HIDE DEF q
  <2> QED BY <2>1, <2>2 DEF Cs, c
<1>6. Classes(k) = Classes(mm) /\ Top(k) = Top(mm)
  BY SameClasses DEF With, Dropped
<1>7. Tidy(k, Lv)
  <2>1. \A x \in Cs(k) : Good(k, k.chunk[x])
    <3> TAKE x \in Cs(k)
    <3>1. Good(mm, mm.chunk[x]) /\ k.chunk[x] = mm.chunk[x]
      BY <1>5 DEF Tidy
    <3> QED BY <3>1, GoodSame DEF With, Dropped
  <2>2. \A x \in Cs(k) \ Lv : k.chunk[x].id \in Classes(k)
    BY <1>5, <1>6 DEF Tidy
  <2>3. \A j \in Classes(k) : Once(k.list[j], Waiting(k, Lv, j))
    <3> TAKE j \in Classes(k)
    <3>0. mm.list \in [Classes(mm) -> Seq(Nat)]
      BY MShapeIs
    <3>1. CASE j = i
      <4>1. k.list[j] = Tail(mm.list[i])
        BY <3>0, <3>1 DEF With, Dropped
      <4>2. Waiting(k, Lv, j) = Waiting(mm, Lv, i) \ {a}
        BY <1>5, <3>1 DEF Waiting
      <4> QED BY <1>2, <4>1, <4>2
    <3>2. CASE j # i
      <4>1. k.list[j] = mm.list[j]
        BY <1>6, <3>0, <3>2 DEF With, Dropped
      <4>2. Waiting(k, Lv, j) = Waiting(mm, Lv, j)
        BY <1>3, <1>5, <3>2 DEF Waiting
      <4>3. Once(mm.list[j], Waiting(mm, Lv, j))
        BY <1>6 DEF Tidy
      <4> QED BY <4>1, <4>2, <4>3
    <3> QED BY <3>1, <3>2
  <2>4. IsFiniteSet(Cs(mm)) /\ mm.count = Cardinality(Cs(mm))
    BY DEF Tidy
  <2>5. IsFiniteSet(Cs(k)) /\ Cardinality(Cs(k)) = Cardinality(Cs(mm)) - 1
    BY <1>3, <1>5, <2>4, FS_RemoveElement
  <2>6. k.count = mm.count - 1
    BY DEF With, Dropped
  <2> QED BY <2>1, <2>2, <2>3, <2>4, <2>5, <2>6 DEF Tidy
<1>8. Stat(k, Lv)
  <2> DEFINE B == Bytes(mm, Cs(mm) \ Lv)
             C == Bytes(k, Cs(k) \ Lv)
             s == class_size(mm, i) - ChunkHdr
             d == mm.used - Bytes(mm, Lv)
  <2>1. Lv \subseteq Cs(k) /\ \A y \in Lv : k.chunk[y] = mm.chunk[y]
    BY <1>3, <1>5
  <2>2. Bytes(k, Lv) = Bytes(mm, Lv) /\ Asked(k, Lv) = Asked(mm, Lv)
    BY <2>1, BytesSame
  <2>3. B = C + mm.chunk[a].size
    <3> DEFINE X == Cs(k) \ Lv
    <3>1. /\ X \subseteq Cs(k) /\ a \in 0..(End - 1) /\ a \notin X /\ X \cup {a} \subseteq Cs(mm)
          /\ \A y \in X : mm.chunk[y] = k.chunk[y]
      BY <1>3, <1>5
    <3>2. X \cup {a} = Cs(mm) \ Lv
      BY <1>3, <1>5
    <3> HIDE DEF X
    <3>3. Bytes(mm, X \cup {a}) = Bytes(k, X) + mm.chunk[a].size
      BY <3>1, BytesPlus
    <3> QED BY <3>2, <3>3 DEF X
  <2>4. mm.chunk[a].size = s
    <3>1. Good(mm, mm.chunk[a])
      BY <1>3 DEF Tidy
    <3>2. mm.chunk[a].size + ChunkHdr = class_size(mm, i) /\ mm.chunk[a].size \in Nat
      BY <1>3, <3>1, MShapeIs DEF Good
    <3>3. ChunkHdr \in Nat /\ class_size(mm, i) \in Nat
      BY ClassIs
    <3> QED BY <3>2, <3>3
  <2>5. s \in Int /\ B \in Int /\ C \in Int /\ d \in Int /\ Bytes(mm, Lv) \in Nat
    <3>1. s \in Int
      BY <2>4, <1>3, MShapeIs
    <3>2. Cs(mm) \ Lv \subseteq Cs(mm) /\ Cs(k) \ Lv \subseteq Cs(k)
      OBVIOUS
    <3>3. B \in Nat /\ C \in Nat
      BY <3>2, BytesIs
    <3>4. Bytes(mm, Lv) \in Nat /\ mm.used \in Int
      BY BytesIs, MShapeIs
    <3> QED BY <3>1, <3>3, <3>4
  <2>6. Cong(mm.free, B - d) /\ mm.free \in Int
    BY MShapeIs DEF Stat
  <2>7. k.free = (mm.free - s) % Word /\ k.used = mm.used /\ k.reqs = mm.reqs
    BY DEF With, Dropped
  <2> HIDE DEF B, C, s, d
  <2>8. Cong(k.free, C - d)
    <3>1. Cong((mm.free + (-s)) % Word, (B - d) + (-s))
      <4>1. B - d \in Int /\ -s \in Int
        BY <2>5
      <4> QED BY <2>6, <4>1, CongStep
    <3>2. mm.free + (-s) = mm.free - s /\ (B - d) + (-s) = C - d
      BY <2>3, <2>4, <2>5, <2>6
    <3> QED BY <2>7, <3>1, <3>2
  <2> QED BY <1>6, <2>2, <2>7, <2>8 DEF Stat, C, d
<1> QED BY <1>3, <1>5, <1>7, <1>8

Reused(mm, k, i, a, c) ==
  /\ a = Head(mm.list[i]) /\ c.id = i
  /\ With(mm, k, [mm.list EXCEPT ![i] = Tail(mm.list[i])], Plus(mm.chunk, a, c),
          mm.used + c.size, mm.reqs + c.req, (mm.free - c.size) % Word, mm.count)
Created(mm, k, a, c) ==
  With(mm, k, mm.list, Plus(mm.chunk, a, c),
       mm.used + c.size, mm.reqs + c.req, mm.free, mm.count + 1)
Removed(mm, k, a) ==
  With(mm, k, mm.list, Restrict(mm.chunk, DOMAIN mm.chunk \ {a}),
       mm.used - mm.chunk[a].size, mm.reqs - mm.chunk[a].req, mm.free, mm.count - 1)

(* The newest chunk of class i is given to a client, with header c. *)
LEMMA ReuseIs ==
  ASSUME NEW mm, MShape(mm), NEW Lv, Lv \subseteq Cs(mm), Tidy(mm, Lv), Stat(mm, Lv),
         Cs(mm) \subseteq 0..(End - 1),
         NEW i \in Classes(mm), mm.list[i] # <<>>, NEW a, NEW c \in Chunk,
         Good(mm, c), NEW k, MShape(k), Reused(mm, k, i, a, c)
  PROVE  /\ a \in Cs(mm) \ Lv /\ Cs(k) = Cs(mm) /\ k.chunk[a].size = mm.chunk[a].size
         /\ \A x \in Cs(k) \ {a} : k.chunk[x] = mm.chunk[x]
         /\ Tidy(k, Lv \cup {a}) /\ Stat(k, Lv \cup {a})
<1>1. Once(mm.list[i], Waiting(mm, Lv, i))
  BY DEF Tidy
<1>2. a \in Waiting(mm, Lv, i) /\ Once(Tail(mm.list[i]), Waiting(mm, Lv, i) \ {a})
  BY <1>1, OnceTail DEF Reused
<1>3. a \in Cs(mm) \ Lv /\ mm.chunk[a].id = i
  BY <1>2 DEF Waiting
<1>4. a \in Nat /\ a \in 0..(End - 1)
  BY <1>3
<1>5. /\ Cs(k) = Cs(mm) /\ \A x \in Cs(k) \ {a} : k.chunk[x] = mm.chunk[x]
      /\ k.chunk[a] = c
  <2> DEFINE o == mm.chunk
             q == Plus(o, a, c)
  <2>1. k.chunk = q
    BY DEF With, Reused
  <2>2. o \in Chs
    BY DEF MShape, MgrRec
  <2> HIDE DEF o
  <2>3. DOMAIN q = DOMAIN o \cup {a} /\ q[a] = c /\ \A x \in DOMAIN o \ {a} : q[x] = o[x]
    BY DEF Plus
  <2> HIDE DEF q
  <2> QED BY <1>3, <2>1, <2>3 DEF Cs, o
<1>6. Classes(k) = Classes(mm) /\ Top(k) = Top(mm)
  BY SameClasses DEF With, Reused
<1>7. Tidy(k, Lv \cup {a})
  <2>1. \A x \in Cs(k) : Good(k, k.chunk[x])
    <3> TAKE x \in Cs(k)
    <3>1. Good(mm, k.chunk[x])
      BY <1>5 DEF Tidy
    <3> QED BY <3>1, GoodSame DEF With, Reused
  <2>2. \A x \in Cs(k) \ (Lv \cup {a}) : k.chunk[x].id \in Classes(k)
    BY <1>5, <1>6 DEF Tidy
  <2>3. \A j \in Classes(k) : Once(k.list[j], Waiting(k, Lv \cup {a}, j))
    <3> TAKE j \in Classes(k)
    <3>0. mm.list \in [Classes(mm) -> Seq(Nat)]
      BY MShapeIs
    <3>1. CASE j = i
      <4>1. k.list[j] = Tail(mm.list[i])
        BY <3>0, <3>1 DEF With, Reused
      <4>2. Waiting(k, Lv \cup {a}, j) = Waiting(mm, Lv, i) \ {a}
        BY <1>5, <3>1 DEF Waiting
      <4> QED BY <1>2, <4>1, <4>2
    <3>2. CASE j # i
      <4>1. k.list[j] = mm.list[j]
        BY <1>6, <3>0, <3>2 DEF With, Reused
      <4>2. Waiting(k, Lv \cup {a}, j) = Waiting(mm, Lv, j)
        BY <1>3, <1>5, <3>2 DEF Waiting
      <4>3. Once(mm.list[j], Waiting(mm, Lv, j))
        BY <1>6 DEF Tidy
      <4> QED BY <4>1, <4>2, <4>3
    <3> QED BY <3>1, <3>2
  <2>4. IsFiniteSet(Cs(k)) /\ k.count = Cardinality(Cs(k))
    BY <1>5 DEF Tidy, With, Reused
  <2> QED BY <2>1, <2>2, <2>3, <2>4 DEF Tidy
<1> DEFINE s == c.size
<1>8. mm.chunk[a].size = s /\ s \in Nat
  <2>1. Good(mm, mm.chunk[a])
    BY <1>3 DEF Tidy
  <2>2. mm.chunk[a].size + ChunkHdr = class_size(mm, i) /\ mm.chunk[a].size \in Nat
    BY <1>3, <2>1, MShapeIs DEF Good
  <2>3. c.size + ChunkHdr = class_size(mm, i) /\ c.size \in Nat
    BY DEF Good, Chunk, Reused
  <2>4. ChunkHdr \in Nat
    BY Consts
  <2> QED BY <2>2, <2>3, <2>4
<1>9. Stat(k, Lv \cup {a})
  <2> DEFINE B == Bytes(mm, Cs(mm) \ Lv)
             C == Bytes(k, Cs(k) \ (Lv \cup {a}))
             L == Bytes(mm, Lv)
             M == Bytes(k, Lv \cup {a})
             P == Asked(mm, Lv)
             Q == Asked(k, Lv \cup {a})
             d == mm.used - L
             r == c.req
  <2>1. M = L + s /\ Q = P + r
    <3>1. /\ a \notin Lv /\ Lv \cup {a} \subseteq Cs(k)
          /\ \A y \in Lv : k.chunk[y] = mm.chunk[y]
      BY <1>3, <1>5
    <3>2. /\ Bytes(k, Lv \cup {a}) = Bytes(mm, Lv) + k.chunk[a].size
          /\ Asked(k, Lv \cup {a}) = Asked(mm, Lv) + k.chunk[a].req
      BY <1>4, <3>1, BytesPlus
    <3> QED BY <1>5, <3>2
  <2>2. B = C + s
    <3> DEFINE X == Cs(k) \ (Lv \cup {a})
    <3>1. /\ X \subseteq Cs(k) /\ a \notin X /\ X \cup {a} \subseteq Cs(mm)
          /\ \A y \in X : mm.chunk[y] = k.chunk[y]
      BY <1>3, <1>5
    <3>2. X \cup {a} = Cs(mm) \ Lv
      BY <1>3, <1>5
    <3> HIDE DEF X
    <3>3. Bytes(mm, X \cup {a}) = Bytes(k, X) + mm.chunk[a].size
      BY <1>4, <3>1, BytesPlus
    <3> QED BY <1>8, <3>2, <3>3 DEF X
  <2>3. B \in Nat /\ C \in Nat /\ L \in Nat /\ P \in Nat /\ r \in Nat
    <3>1. Cs(mm) \ Lv \subseteq Cs(mm) /\ Cs(k) \ (Lv \cup {a}) \subseteq Cs(k)
      OBVIOUS
    <3>2. B \in Nat /\ C \in Nat
      BY <3>1, BytesIs
    <3>3. L \in Nat /\ P \in Nat
      BY BytesIs
    <3>4. r \in Nat
      BY DEF Chunk
    <3> QED BY <3>2, <3>3, <3>4
  <2>4. mm.used \in Int /\ mm.reqs \in Int /\ mm.free \in Int
    BY MShapeIs
  <2>5. d \in 0..(Top(mm) - 1) /\ Cong(mm.free, B - d) /\ mm.reqs - P \in 0..d
    BY DEF Stat
  <2>6. k.free = (mm.free - s) % Word /\ k.used = mm.used + s /\ k.reqs = mm.reqs + r
    BY DEF With, Reused
  <2> HIDE DEF B, C, L, M, P, Q, d, s, r
  <2>7. k.used - M = d /\ k.reqs - Q = mm.reqs - P
    BY <1>8, <2>1, <2>3, <2>4, <2>6 DEF d
  <2>8. d \in Int
    BY <2>3, <2>4 DEF d
  <2>9. Cong(k.free, C - d)
    <3>1. B - d \in Int /\ -s \in Int
      BY <1>8, <2>3, <2>8
    <3>2. Cong((mm.free + (-s)) % Word, (B - d) + (-s))
      BY <2>5, <3>1, CongStep
    <3>3. mm.free + (-s) = mm.free - s /\ (B - d) + (-s) = C - d
      BY <1>8, <2>2, <2>3, <2>4, <2>8
    <3> QED BY <2>6, <3>2, <3>3
  <2> QED BY <1>6, <2>5, <2>7, <2>9 DEF Stat, C, M, Q
<1> QED BY <1>3, <1>5, <1>7, <1>8, <1>9

(* A new chunk at a is given to a client, with header c. *)
LEMMA FreshIs ==
  ASSUME NEW mm, MShape(mm), NEW Lv, Lv \subseteq Cs(mm), Tidy(mm, Lv), Stat(mm, Lv),
         NEW a \in 0..(End - 1), a \notin Cs(mm), NEW c \in Chunk, Good(mm, c),
         NEW k, MShape(k), Created(mm, k, a, c)
  PROVE  /\ Cs(k) = Cs(mm) \cup {a} /\ k.chunk[a] = c
         /\ \A x \in Cs(mm) : k.chunk[x] = mm.chunk[x]
         /\ Tidy(k, Lv \cup {a}) /\ Stat(k, Lv \cup {a})
<1>4. a \in Nat
  BY Sizes
<1>5. /\ Cs(k) = Cs(mm) \cup {a} /\ \A x \in Cs(mm) : k.chunk[x] = mm.chunk[x]
      /\ k.chunk[a] = c
  <2> DEFINE o == mm.chunk
             q == Plus(o, a, c)
  <2>1. k.chunk = q
    BY DEF With, Created
  <2>2. o \in Chs
    BY DEF MShape, MgrRec
  <2> HIDE DEF o
  <2>3. DOMAIN q = DOMAIN o \cup {a} /\ q[a] = c /\ \A x \in DOMAIN o \ {a} : q[x] = o[x]
    BY DEF Plus
  <2> HIDE DEF q
  <2> QED BY <2>1, <2>3 DEF Cs, o
<1>6. Classes(k) = Classes(mm) /\ Top(k) = Top(mm)
  BY SameClasses DEF With, Created
<1>7. Tidy(k, Lv \cup {a})
  <2>1. \A x \in Cs(k) : Good(k, k.chunk[x])
    <3> TAKE x \in Cs(k)
    <3>1. Good(mm, k.chunk[x])
      BY <1>5 DEF Tidy
    <3> QED BY <3>1, GoodSame DEF With, Created
  <2>2. \A x \in Cs(k) \ (Lv \cup {a}) : k.chunk[x].id \in Classes(k)
    BY <1>5, <1>6 DEF Tidy
  <2>3. \A j \in Classes(k) : Once(k.list[j], Waiting(k, Lv \cup {a}, j))
    <3> TAKE j \in Classes(k)
    <3>1. k.list[j] = mm.list[j]
      BY DEF With, Created
    <3>2. Waiting(k, Lv \cup {a}, j) = Waiting(mm, Lv, j)
      BY <1>5 DEF Waiting
    <3>3. Once(mm.list[j], Waiting(mm, Lv, j))
      BY <1>6 DEF Tidy
    <3> QED BY <3>1, <3>2, <3>3
  <2>4. IsFiniteSet(Cs(mm)) /\ mm.count = Cardinality(Cs(mm))
    BY DEF Tidy
  <2>5. IsFiniteSet(Cs(k)) /\ Cardinality(Cs(k)) = Cardinality(Cs(mm)) + 1
    <3>1. /\ IsFiniteSet(Cs(mm) \cup {a})
          /\ Cardinality(Cs(mm) \cup {a}) = IF a \in Cs(mm) THEN Cardinality(Cs(mm))
                                             ELSE Cardinality(Cs(mm)) + 1
      BY <2>4, FS_AddElement
    <3> QED BY <1>5, <3>1
  <2>6. k.count = mm.count + 1
    BY DEF With, Created
  <2> QED BY <2>1, <2>2, <2>3, <2>4, <2>5, <2>6 DEF Tidy
<1>8. Stat(k, Lv \cup {a})
  <2> DEFINE B == Bytes(mm, Cs(mm) \ Lv)
             C == Bytes(k, Cs(k) \ (Lv \cup {a}))
             L == Bytes(mm, Lv)
             M == Bytes(k, Lv \cup {a})
             P == Asked(mm, Lv)
             Q == Asked(k, Lv \cup {a})
             d == mm.used - L
             s == c.size
             r == c.req
  <2>1. M = L + s /\ Q = P + r
    <3>1. /\ a \notin Lv /\ Lv \cup {a} \subseteq Cs(k)
          /\ \A y \in Lv : k.chunk[y] = mm.chunk[y]
      BY <1>5
    <3>2. /\ Bytes(k, Lv \cup {a}) = Bytes(mm, Lv) + k.chunk[a].size
          /\ Asked(k, Lv \cup {a}) = Asked(mm, Lv) + k.chunk[a].req
      BY <1>4, <3>1, BytesPlus
    <3> QED BY <1>5, <3>2
  <2>2. B = C
    <3> DEFINE X == Cs(mm) \ Lv
    <3>1. X \subseteq Cs(mm) /\ \A y \in X : k.chunk[y] = mm.chunk[y]
      BY <1>5
    <3>2. X = Cs(k) \ (Lv \cup {a})
      BY <1>5
    <3> HIDE DEF X
    <3>3. Bytes(k, X) = Bytes(mm, X)
      BY <3>1, BytesSame
    <3> QED BY <3>2, <3>3 DEF X
  <2>3. L \in Nat /\ P \in Nat /\ r \in Nat /\ s \in Nat
    <3>3. L \in Nat /\ P \in Nat
      BY BytesIs
    <3>4. r \in Nat /\ s \in Nat
      BY DEF Chunk
    <3> QED BY <3>3, <3>4
  <2>4. mm.used \in Int /\ mm.reqs \in Int
    BY MShapeIs
  <2>5. d \in 0..(Top(mm) - 1) /\ Cong(mm.free, B - d) /\ mm.reqs - P \in 0..d
    BY DEF Stat
  <2>6. k.free = mm.free /\ k.used = mm.used + s /\ k.reqs = mm.reqs + r
    BY DEF With, Created
  <2> HIDE DEF B, C, L, M, P, Q, d, s, r
  <2>7. k.used - M = d /\ k.reqs - Q = mm.reqs - P
    BY <2>1, <2>3, <2>4, <2>6 DEF d
  <2> QED BY <1>6, <2>2, <2>5, <2>6, <2>7 DEF Stat, C, M, Q
<1> QED BY <1>5, <1>7, <1>8

Agree(mm, k, Y) == Y \subseteq Cs(k) /\ \A y \in Y : k.chunk[y] = mm.chunk[y]

LEMMA BytesLess ==
  ASSUME NEW mm, MShape(mm), NEW k, MShape(k), NEW Y, NEW x \in 0..(End - 1),
         x \notin Y, Y \cup {x} \subseteq Cs(mm), Agree(mm, k, Y)
  PROVE  /\ Bytes(mm, Y \cup {x}) = Bytes(k, Y) + mm.chunk[x].size
         /\ Asked(mm, Y \cup {x}) = Asked(k, Y) + mm.chunk[x].req
<1>1. Y \subseteq Cs(k) /\ \A y \in Y : mm.chunk[y] = k.chunk[y]
  BY DEF Agree
<1> QED BY <1>1, BytesPlus

(* The chunk a of a client, of no class, leaves the manager. *)
LEMMA GoneIs ==
  ASSUME NEW mm, MShape(mm), NEW Lv, Lv \subseteq Cs(mm), Tidy(mm, Lv), Stat(mm, Lv),
         NEW a \in 0..(End - 1), a \in Lv, NEW k, MShape(k), Removed(mm, k, a)
  PROVE  /\ Cs(k) = Cs(mm) \ {a} /\ \A x \in Cs(k) : k.chunk[x] = mm.chunk[x]
         /\ Tidy(k, Lv \ {a}) /\ Stat(k, Lv \ {a})
<1>5. Cs(k) = Cs(mm) \ {a} /\ \A x \in Cs(k) : k.chunk[x] = mm.chunk[x]
  <2> DEFINE o == mm.chunk
             q == Restrict(o, DOMAIN o \ {a})
  <2>1. k.chunk = q
    BY DEF With, Removed
  <2>2. o \in Chs
    BY DEF MShape, MgrRec
  <2> HIDE DEF o
  <2>3. DOMAIN q = DOMAIN o \ {a} /\ \A x \in DOMAIN o \ {a} : q[x] = o[x]
    BY <2>2, MinusIs
  <2> HIDE DEF q
  <2> QED BY <2>1, <2>3 DEF Cs, o
<1>6. Classes(k) = Classes(mm) /\ Top(k) = Top(mm)
  BY SameClasses DEF With, Removed
<1>7. Tidy(k, Lv \ {a})
  <2>1. \A x \in Cs(k) : Good(k, k.chunk[x])
    <3> TAKE x \in Cs(k)
    <3>1. Good(mm, k.chunk[x])
      BY <1>5 DEF Tidy
    <3> QED BY <3>1, GoodSame DEF With, Removed
  <2>2. \A x \in Cs(k) \ (Lv \ {a}) : k.chunk[x].id \in Classes(k)
    BY <1>5, <1>6 DEF Tidy
  <2>3. \A j \in Classes(k) : Once(k.list[j], Waiting(k, Lv \ {a}, j))
    <3> TAKE j \in Classes(k)
    <3>1. k.list[j] = mm.list[j]
      BY DEF With, Removed
    <3>2. Waiting(k, Lv \ {a}, j) = Waiting(mm, Lv, j)
      BY <1>5 DEF Waiting
    <3>3. Once(mm.list[j], Waiting(mm, Lv, j))
      BY <1>6 DEF Tidy
    <3> QED BY <3>1, <3>2, <3>3
  <2>4. IsFiniteSet(Cs(mm)) /\ mm.count = Cardinality(Cs(mm))
    BY DEF Tidy
  <2>5. IsFiniteSet(Cs(k)) /\ Cardinality(Cs(k)) = Cardinality(Cs(mm)) - 1
    BY <1>5, <2>4, FS_RemoveElement
  <2>6. k.count = mm.count - 1
    BY DEF With, Removed
  <2> QED BY <2>1, <2>2, <2>3, <2>4, <2>5, <2>6 DEF Tidy
<1>8. Stat(k, Lv \ {a})
  <2> DEFINE B == Bytes(mm, Cs(mm) \ Lv)
             C == Bytes(k, Cs(k) \ (Lv \ {a}))
             L == Bytes(mm, Lv)
             M == Bytes(k, Lv \ {a})
             P == Asked(mm, Lv)
             Q == Asked(k, Lv \ {a})
             d == mm.used - L
             s == mm.chunk[a].size
             r == mm.chunk[a].req
  <2>1. L = M + s /\ P = Q + r
    <3> DEFINE Y == Lv \ {a}
    <3>1. Agree(mm, k, Y)
      BY <1>5 DEF Agree
    <3>2. a \notin Y /\ Y \cup {a} \subseteq Cs(mm)
      OBVIOUS
    <3>3. Y \cup {a} = Lv
      OBVIOUS
    <3> HIDE DEF Y
    <3>4. /\ Bytes(mm, Y \cup {a}) = Bytes(k, Y) + mm.chunk[a].size
          /\ Asked(mm, Y \cup {a}) = Asked(k, Y) + mm.chunk[a].req
      BY <3>1, <3>2, BytesLess
    <3> QED BY <3>3, <3>4 DEF Y
  <2>2. B = C
    <3> DEFINE X == Cs(mm) \ Lv
    <3>1. X \subseteq Cs(mm) /\ \A y \in X : k.chunk[y] = mm.chunk[y]
      BY <1>5
    <3>2. X = Cs(k) \ (Lv \ {a})
      BY <1>5
    <3> HIDE DEF X
    <3>3. Bytes(k, X) = Bytes(mm, X)
      BY <3>1, BytesSame
    <3> QED BY <3>2, <3>3 DEF X
  <2>3. M \in Nat /\ Q \in Nat /\ r \in Nat /\ s \in Nat
    <3>2. Lv \ {a} \subseteq Cs(k)
      BY <1>5
    <3>3. M \in Nat /\ Q \in Nat
      BY <3>2, BytesIs
    <3>4. r \in Nat /\ s \in Nat
      BY MShapeIs
    <3> QED BY <3>3, <3>4
  <2>4. mm.used \in Int /\ mm.reqs \in Int
    BY MShapeIs
  <2>5. d \in 0..(Top(mm) - 1) /\ Cong(mm.free, B - d) /\ mm.reqs - P \in 0..d
    BY DEF Stat
  <2>6. k.free = mm.free /\ k.used = mm.used - s /\ k.reqs = mm.reqs - r
    BY DEF With, Removed
  <2> HIDE DEF B, C, L, M, P, Q, d, s, r
  <2>7. k.used - M = d /\ k.reqs - Q = mm.reqs - P
    BY <2>1, <2>3, <2>4, <2>6 DEF d
  <2> QED BY <1>6, <2>2, <2>5, <2>6, <2>7 DEF Stat, C, M, Q
<1> QED BY <1>5, <1>7, <1>8

(* The statistics of k after the release of chunk a by mm's client. *)
Forgotten(mm, k, a) ==
  /\ mm.used < class_size(mm, mm.chunk[a].id)
  /\ k.used = mm.used /\ k.reqs = mm.reqs /\ k.free = mm.free
Settled(mm, k, a) ==
  /\ k.used = mm.used - mm.chunk[a].size /\ k.reqs = mm.reqs - mm.chunk[a].req
  /\ k.free = (mm.free + mm.chunk[a].size) % Word
Filed(mm, k, i, a) ==
  /\ k.power = mm.power /\ k.max = mm.max /\ k.chunk = mm.chunk /\ k.count = mm.count
  /\ k.list = [mm.list EXCEPT ![i] = <<a>> \o mm.list[i]]

(* The chunk a of a client goes to the list of its class. *)
LEMMA FiledIs ==
  ASSUME NEW mm, MShape(mm), NEW Lv, Lv \subseteq Cs(mm), Tidy(mm, Lv), Stat(mm, Lv),
         NEW a \in 0..(End - 1), a \in Lv, NEW k, MShape(k),
         mm.chunk[a].id \in Classes(mm), Filed(mm, k, mm.chunk[a].id, a),
         Forgotten(mm, k, a) \/ Settled(mm, k, a)
  PROVE  Cs(k) = Cs(mm) /\ Tidy(k, Lv \ {a}) /\ Stat(k, Lv \ {a})
<1> DEFINE i == mm.chunk[a].id
<1>4. a \in Nat /\ a \in Cs(mm)
  BY Sizes
<1>5. Cs(k) = Cs(mm) /\ k.chunk = mm.chunk
  BY DEF Cs, Filed
<1>6. Classes(k) = Classes(mm) /\ Top(k) = Top(mm)
  BY SameClasses DEF Filed
<1>7. Tidy(k, Lv \ {a})
  <2>1. \A x \in Cs(k) : Good(k, k.chunk[x])
    <3> TAKE x \in Cs(k)
    <3>1. Good(mm, k.chunk[x])
      BY <1>5 DEF Tidy
    <3> QED BY <3>1, GoodSame DEF Filed
  <2>2. \A x \in Cs(k) \ (Lv \ {a}) : k.chunk[x].id \in Classes(k)
    BY <1>5, <1>6 DEF Tidy
  <2>3. \A j \in Classes(k) : Once(k.list[j], Waiting(k, Lv \ {a}, j))
    <3> TAKE j \in Classes(k)
    <3>0. mm.list \in [Classes(mm) -> Seq(Nat)]
      BY MShapeIs
    <3>1. CASE j = i
      <4>1. k.list[j] = <<a>> \o mm.list[i]
        BY <3>0, <3>1 DEF Filed
      <4>2. Waiting(k, Lv \ {a}, j) = Waiting(mm, Lv, i) \cup {a}
        BY <1>4, <1>5, <3>1 DEF Waiting
      <4>3. a \notin Waiting(mm, Lv, i)
        BY DEF Waiting
      <4>4. Once(mm.list[i], Waiting(mm, Lv, i))
        BY DEF Tidy
      <4> DEFINE W == Waiting(mm, Lv, i)
                 s == mm.list[i]
      <4> HIDE DEF W, s, i
      <4>5. Once(s, W) /\ a \notin W
        BY <4>3, <4>4 DEF W, s
      <4>6. Once(<<a>> \o s, W \cup {a})
        BY <1>4, <4>5, OnceCons
      <4> QED BY <4>1, <4>2, <4>6 DEF W, s
    <3>2. CASE j # i
      <4>1. k.list[j] = mm.list[j]
        BY <1>6, <3>0, <3>2 DEF Filed
      <4>2. Waiting(k, Lv \ {a}, j) = Waiting(mm, Lv, j)
        BY <1>5, <3>2 DEF Waiting
      <4>3. Once(mm.list[j], Waiting(mm, Lv, j))
        BY <1>6 DEF Tidy
      <4> QED BY <4>1, <4>2, <4>3
    <3> QED BY <3>1, <3>2
  <2>4. IsFiniteSet(Cs(k)) /\ k.count = Cardinality(Cs(k))
    BY <1>5 DEF Tidy, Filed
  <2> QED BY <2>1, <2>2, <2>3, <2>4 DEF Tidy
<1>8. Stat(k, Lv \ {a})
  <2> DEFINE B == Bytes(mm, Cs(mm) \ Lv)
             C == Bytes(k, Cs(k) \ (Lv \ {a}))
             L == Bytes(mm, Lv)
             M == Bytes(k, Lv \ {a})
             P == Asked(mm, Lv)
             Q == Asked(k, Lv \ {a})
             d == mm.used - L
             s == mm.chunk[a].size
             r == mm.chunk[a].req
             t == Top(mm)
  <2>1. L = M + s /\ P = Q + r
    <3> DEFINE Y == Lv \ {a}
    <3>1. Agree(mm, k, Y)
      BY <1>5 DEF Agree
    <3>2. a \notin Y /\ Y \cup {a} \subseteq Cs(mm)
      OBVIOUS
    <3>3. Y \cup {a} = Lv
      OBVIOUS
    <3> HIDE DEF Y
    <3>4. /\ Bytes(mm, Y \cup {a}) = Bytes(k, Y) + mm.chunk[a].size
          /\ Asked(mm, Y \cup {a}) = Asked(k, Y) + mm.chunk[a].req
      BY <3>1, <3>2, BytesLess
    <3> QED BY <3>3, <3>4 DEF Y
  <2>2. C = B + s
    <3> DEFINE Y == Cs(mm) \ Lv
    <3>1. Agree(k, mm, Y)
      BY <1>5 DEF Agree
    <3>2. a \notin Y /\ Y \cup {a} \subseteq Cs(k)
      BY <1>4, <1>5
    <3>3. Y \cup {a} = Cs(k) \ (Lv \ {a})
      BY <1>4, <1>5
    <3> HIDE DEF Y
    <3>4. Bytes(k, Y \cup {a}) = Bytes(mm, Y) + k.chunk[a].size
      BY <3>1, <3>2, BytesLess
    <3> QED BY <1>5, <3>3, <3>4 DEF Y
  <2>3. B \in Nat /\ M \in Nat /\ Q \in Nat /\ r \in Nat /\ s \in Nat
    <3>1. Cs(mm) \ Lv \subseteq Cs(mm) /\ Lv \ {a} \subseteq Cs(k)
      BY <1>5
    <3>2. B \in Nat /\ M \in Nat /\ Q \in Nat
      BY <3>1, BytesIs
    <3>4. r \in Nat /\ s \in Nat
      BY <1>4, MShapeIs
    <3> QED BY <3>2, <3>4
  <2>4. mm.used \in Int /\ mm.reqs \in Int /\ mm.free \in Int
    BY MShapeIs
  <2>5. d \in 0..(t - 1) /\ Cong(mm.free, B - d) /\ mm.reqs - P \in 0..d
    BY DEF Stat
  <2>6. r <= s
    BY <1>4 DEF Tidy, Good
  <2>7. class_size(mm, i) \in Nat /\ class_size(mm, i) <= t /\ t \in Nat
    BY ClassIs
  <2>8. CASE Forgotten(mm, k, a)
    <3>1. k.used = mm.used /\ k.reqs = mm.reqs /\ k.free = mm.free /\ mm.used < class_size(mm, i)
      BY <2>8 DEF Forgotten
    <3> HIDE DEF B, C, L, M, P, Q, s, r, t, i
    <3>2. k.used - M \in 0..(t - 1)
      BY <2>1, <2>3, <2>4, <2>5, <2>7, <3>1 DEF d
    <3>3. C - (k.used - M) = B - d
      BY <2>1, <2>2, <2>3, <2>4, <3>1 DEF d
    <3>4. k.reqs - Q \in 0..(k.used - M)
      BY <2>1, <2>3, <2>4, <2>5, <2>6, <3>1 DEF d
    <3> HIDE DEF d
    <3>5. Cong(k.free, C - (k.used - M))
      BY <2>5, <3>1, <3>3
    <3> QED BY <1>6, <3>2, <3>4, <3>5 DEF Stat, C, M, Q, t
  <2>9. CASE Settled(mm, k, a)
    <3>1. k.used = mm.used - s /\ k.reqs = mm.reqs - r /\ k.free = (mm.free + s) % Word
      BY <2>9 DEF Settled
    <3> HIDE DEF B, C, L, M, P, Q, s, r, t, i
    <3>2. k.used - M = d /\ k.reqs - Q = mm.reqs - P /\ d \in Int
      BY <2>1, <2>3, <2>4, <3>1 DEF d
    <3> HIDE DEF d
    <3>3. B - d \in Int /\ s \in Int /\ (B - d) + s = C - d
      BY <2>2, <2>3, <3>2
    <3>4. Cong((mm.free + s) % Word, (B - d) + s)
      BY <2>5, <3>3, CongStep
    <3>5. Cong(k.free, C - d)
      BY <3>1, <3>3, <3>4
    <3> QED BY <1>6, <2>5, <3>2, <3>5 DEF Stat, C, M, Q, t
  <2> QED BY <2>8, <2>9
<1> QED BY <1>5, <1>7, <1>8

-----------------------------------------------------------------------------
(* Segment and manager together. *)

Pair == [h : SegRec, m : MgrRec]

LEMMA Reshaped ==
  ASSUME NEW mm, MShape(mm), NEW k \in MgrRec, k.power = mm.power, k.max = mm.max,
         DOMAIN k.list = Classes(mm)
  PROVE  MShape(k)
<1>1. Classes(k) = Classes(mm)
  BY SameClasses
<1> QED BY <1>1 DEF MShape

LEMMA Inside ==
  ASSUME NEW g, Seg(g) PROVE TakenOf(g) \subseteq 0..(End - 1) /\ Shape(g)
<1>1. Shape(g) /\ Row(g)
  BY DEF Seg, Body
<1>2. TakenOf(g) \subseteq D(g)
  BY DEF TakenOf
<1>3. ASSUME NEW a \in TakenOf(g) PROVE a \in 0..(End - 1)
  BY <1>1, <1>2, Below
<1> QED BY <1>1, <1>3

LEMMA LayLess ==
  ASSUME NEW g, NEW mm, NEW Lv, NEW Rw, Lay(g, mm, Lv, Rw), NEW a \in Cs(mm),
         NEW q, Less(g, q, a), NEW k, Cs(k) = Cs(mm) \ {a},
         \A x \in Cs(k) : k.chunk[x] = mm.chunk[x], NEW Mv, Mv \subseteq Cs(k)
  PROVE  Lay(q, k, Mv, Rw)
<1>1. /\ Cs(mm) \cup Rw \subseteq TakenOf(g) /\ Cs(mm) \cap Rw = {}
      /\ \A x \in Cs(mm) : mm.chunk[x].size + ChunkHdr <= g.blk[x].size
  BY DEF Lay
<1>2. TakenOf(q) = TakenOf(g) \ {a} /\ \A x \in TakenOf(q) : q.blk[x].size = g.blk[x].size
  BY DEF Less
<1>3. Cs(k) \cup Rw \subseteq TakenOf(q) /\ Cs(k) \cap Rw = {}
  BY <1>1, <1>2
<1>4. ASSUME NEW x \in Cs(k) PROVE k.chunk[x].size + ChunkHdr <= q.blk[x].size
  <2>1. q.blk[x].size = g.blk[x].size /\ x \in Cs(mm) /\ k.chunk[x] = mm.chunk[x]
    BY <1>2, <1>3
  <2> QED BY <1>1, <2>1
<1> QED BY <1>3, <1>4 DEF Lay

LEMMA LayMore ==
  ASSUME NEW g, NEW mm, NEW Lv, NEW Rw, Lay(g, mm, Lv, Rw), NEW a, NEW q, More(g, q, a)
  PROVE  Lay(q, mm, Lv, Rw) /\ a \in TakenOf(q) /\ a \notin Cs(mm) \cup Rw
<1>1. /\ Cs(mm) \cup Rw \subseteq TakenOf(g) /\ Cs(mm) \cap Rw = {} /\ Lv \subseteq Cs(mm)
      /\ \A x \in Cs(mm) : mm.chunk[x].size + ChunkHdr <= g.blk[x].size
  BY DEF Lay
<1>2. /\ TakenOf(q) = TakenOf(g) \cup {a} /\ \A x \in TakenOf(g) : q.blk[x].size = g.blk[x].size
      /\ a \notin TakenOf(g)
  BY DEF More
<1>3. \A x \in Cs(mm) : q.blk[x].size = g.blk[x].size
  BY <1>1, <1>2
<1> QED BY <1>1, <1>2, <1>3 DEF Lay

Alike(mm, k) == k.power = mm.power /\ k.max = mm.max
Emptied(mm, k) == \A i \in Classes(mm) : mm.list[i] = <<>> => k.list[i] = <<>>

LEMMA GiveBackIs ==
  ASSUME NEW s \in Pair, NEW Lv, NEW Rw, Own(s.h, s.m, Lv, Rw),
         NEW i \in Classes(s.m), s.m.list[i] # <<>>, NEW k, k = give_back(s, i)
  PROVE  /\ k \in Pair /\ Own(k.h, k.m, Lv, Rw)
         /\ Alike(s.m, k.m) /\ Emptied(s.m, k.m) /\ k.m.count = s.m.count - 1
<1> DEFINE g == s.h
           mm == s.m
           a == Head(mm.list[i])
           q == shm_free(g, a)
           f == (mm.free - (class_size(mm, i) - ChunkHdr)) % Word
           c == Restrict(mm.chunk, DOMAIN mm.chunk \ {a})
           l == [mm.list EXCEPT ![i] = Tail(mm.list[i])]
           z == mm.count - 1
           n == [mm EXCEPT !.list = l, !.chunk = c, !.free = f, !.count = z]
<1>1. k = [h |-> q, m |-> n]
  BY DEF give_back
<1>2. Seg(g) /\ MShape(mm) /\ Lay(g, mm, Lv, Rw) /\ Tidy(mm, Lv) /\ Stat(mm, Lv)
  BY DEF Own
<1>3. mm \in MgrRec
  BY <1>2 DEF MShape
<1>4. mm.list \in [Classes(mm) -> Seq(Nat)] /\ mm.count \in Int /\ mm.free \in Int
  BY <1>2, MShapeIs
<1>5. c \in Chs
  BY <1>3, MinusIs DEF MgrRec
<1>6. f \in Int
  <2>1. class_size(mm, i) \in Nat /\ ChunkHdr \in Nat
    BY <1>2, ClassIs
  <2>2. mm.free - (class_size(mm, i) - ChunkHdr) \in Int
    BY <1>4, <2>1
  <2>3. Word \in Nat \ {0}
    BY Consts
  <2> QED BY <2>2, <2>3
<1>7. l \in [Classes(mm) -> Seq(Nat)] /\ l \in Frees
  <2>1. Tail(mm.list[i]) \in Seq(Nat)
    BY <1>4
  <2>2. Classes(mm) \in SUBSET Nat
    <3>1. ClassCount(mm) \in Nat \ {0, 1}
      BY <1>2, MShapeIs, ClassCountIs
    <3> QED BY <3>1 DEF Classes
  <2> QED BY <1>4, <2>1, <2>2 DEF Frees
<1>z. z \in Int
  BY <1>4
<1> HIDE DEF c, f, a, q, l, mm, z
<1>8. /\ n.power = mm.power /\ n.max = mm.max /\ n.list = l /\ n.chunk = c
      /\ n.used = mm.used /\ n.reqs = mm.reqs /\ n.free = f /\ n.count = z
  BY <1>3, <1>4 DEF MgrRec
<1>9. n \in MgrRec
  BY <1>3, <1>5, <1>6, <1>7, <1>z DEF MgrRec
<1> HIDE DEF n, l
<1>10. MShape(n)
  BY <1>2, <1>7, <1>8, <1>9, Reshaped
<1>11. With(mm, n, l, c, mm.used, mm.reqs, f, z)
  BY <1>8 DEF With
<1> HIDE DEF g
<1>12. Lv \subseteq Cs(mm) /\ Cs(mm) \subseteq TakenOf(g) /\ Cs(mm) \subseteq 0..(End - 1)
  <2>1. TakenOf(g) \subseteq 0..(End - 1)
    BY <1>2, Inside
  <2> QED BY <1>2, <2>1 DEF Lay
<1>13. /\ a \in Cs(mm) \ Lv /\ Cs(n) = Cs(mm) \ {a}
       /\ \A x \in Cs(n) : n.chunk[x] = mm.chunk[x]
       /\ Tidy(n, Lv) /\ Stat(n, Lv)
  <2>1. mm.list[i] # <<>> /\ i \in Classes(mm)
    BY DEF mm
  <2>2. Dropped(mm, n, i, a)
    BY <1>11 DEF Dropped, l, c, f, z, a
  <2> QED BY <1>2, <1>10, <1>12, <2>1, <2>2, DropIs
<1>14. Seg(q) /\ Less(g, q, a)
  BY <1>2, <1>12, <1>13, FreeIs DEF q
<1>15. Lay(q, n, Lv, Rw)
  BY <1>2, <1>12, <1>13, <1>14, LayLess
<1>16. Emptied(mm, n)
  BY <1>4, <1>8 DEF Emptied, l, mm
<1>17. q \in SegRec
  BY <1>14, Inside DEF Shape
<1> QED BY <1>1, <1>8, <1>9, <1>10, <1>13, <1>14, <1>15, <1>16, <1>17 DEF Own, Alike, Pair, mm, z

-----------------------------------------------------------------------------
(* shs_slabs_recover *)

LEMMA MaxIs ==
  ASSUME NEW n \in Int, NEW I \in SUBSET (0..n), I # {}
  PROVE  Max(I) \in I
<1> DEFINE T == {y \in Nat : \E x \in I : y = n - x}
<1>1. T \in SUBSET Nat /\ T # {}
  <2>1. PICK x \in I : TRUE
    OBVIOUS
  <2>2. n - x \in Nat
    OBVIOUS
  <2>3. n - x \in T
    BY <2>2
  <2> QED BY <2>3
<1> HIDE DEF T
<1>2. PICK y \in T : \A z \in T : y <= z
  BY <1>1, LeastNat
<1>3. PICK x \in I : y = n - x
  BY <1>2 DEF T
<1>4. ASSUME NEW z \in I PROVE x >= z
  <2>1. n - z \in T /\ z \in Int /\ x \in Int
    BY DEF T
  <2>2. y <= n - z
    BY <1>2, <2>1
  <2> QED BY <1>3, <2>1, <2>2
<1>5. \E u \in I : \A z \in I : u >= z
  BY <1>4
<1> QED BY <1>5 DEF Max

IsRec(f, s, id, need, n) ==
  f = [k \in 0..n |-> IF k = 0 THEN [s |-> s, sum |-> 0]
                      ELSE recover_one(f[k - 1], id, need)]

LEMMA RecExists ==
  ASSUME NEW s, NEW id, NEW need, NEW j \in Nat PROVE \E f : IsRec(f, s, id, need, j)
<1> DEFINE init == [s |-> s, sum |-> 0]
           Bad == {k \in Nat : ~\E f : IsRec(f, s, id, need, k)}
<1> SUFFICES ASSUME j \in Bad PROVE FALSE
  OBVIOUS
<1>1. PICK k \in Bad : \A i \in Bad : k <= i
  <2>1. Bad \in SUBSET Nat /\ j \in Bad
    OBVIOUS
  <2> HIDE DEF Bad
  <2> QED BY <2>1, LeastNat
<1>2. CASE k = 0
  <2> DEFINE u == [i \in 0..k |-> init]
  <2> HIDE DEF init
  <2>1. u = [i \in 0..k |-> IF i = 0 THEN init ELSE recover_one(u[i - 1], id, need)]
    BY <1>2
  <2> HIDE DEF u
  <2>2. IsRec(u, s, id, need, k)
    BY <2>1 DEF IsRec, init
  <2> QED BY <1>1, <2>2
<1>3. CASE k # 0
  <2>1. k - 1 \in Nat /\ ~(k <= k - 1)
    BY <1>1, <1>3
  <2>2. PICK u : IsRec(u, s, id, need, k - 1)
    BY <1>1, <2>1
  <2>3. \A i \in 0..(k - 1) : u[i] = IF i = 0 THEN init ELSE recover_one(u[i - 1], id, need)
    BY <2>2 DEF IsRec
  <2> HIDE DEF init
  <2> DEFINE last == recover_one(u[k - 1], id, need)
             v == [i \in 0..k |-> IF i = k THEN last ELSE u[i]]
  <2>4. \A i \in 0..k : v[i] = IF i = 0 THEN init ELSE recover_one(v[i - 1], id, need)
    <3> TAKE i \in 0..k
    <3>1. CASE i = 0
      BY <1>3, <2>1, <2>3, <3>1
    <3>2. CASE i # 0
      <4>1. i - 1 \in 0..k /\ i - 1 # k /\ v[i - 1] = u[i - 1]
        BY <3>2, <1>1
      <4>2. i = k => v[i] = last
        OBVIOUS
      <4>3. i # k => v[i] = u[i] /\ i \in 0..(k - 1)
        BY <1>1
      <4> HIDE DEF v
      <4>4. CASE i = k
        BY <3>2, <4>1, <4>2, <4>4
      <4>5. CASE i # k
        BY <2>3, <3>2, <4>1, <4>3, <4>5
      <4> QED BY <4>4, <4>5
    <3> QED BY <3>1, <3>2
  <2>5. v = [i \in 0..k |-> v[i]]
    OBVIOUS
  <2> HIDE DEF v
  <2>6. v = [i \in 0..k |-> IF i = 0 THEN init ELSE recover_one(v[i - 1], id, need)]
    BY <2>4, <2>5
  <2>7. IsRec(v, s, id, need, k)
    BY <2>6 DEF IsRec, init
  <2> QED BY <1>1, <2>7
<1> QED BY <1>2, <1>3

(* The pair t is s after some chunks have gone back to the segment. *)
Shrunk(s, t, Lv, Rw) ==
  /\ t \in Pair /\ Own(t.h, t.m, Lv, Rw)
  /\ Alike(s.m, t.m) /\ Emptied(s.m, t.m) /\ t.m.count <= s.m.count

LEMMA ShrunkOver ==
  ASSUME NEW s, NEW t, NEW u, NEW Lv, NEW Rw, s.m.count \in Int, t.m.count \in Int,
         Shrunk(s, t, Lv, Rw), Shrunk(t, u, Lv, Rw)
  PROVE  Shrunk(s, u, Lv, Rw)
<1>1. Alike(s.m, u.m)
  BY DEF Shrunk, Alike
<1>2. Classes(t.m) = Classes(s.m)
  BY SameClasses DEF Shrunk, Alike
<1>3. Emptied(s.m, u.m)
  BY <1>2 DEF Shrunk, Emptied
<1>4. u.m.count \in Int
  BY MShapeIs DEF Shrunk, Own
<1>5. u.m.count <= s.m.count
  BY <1>4 DEF Shrunk
<1> QED BY <1>1, <1>3, <1>5 DEF Shrunk

OneLess(t, r, id, need) ==
  LET below == Filled(t.s.m, 0..(id - 1))
  IN /\ below = {} => r = t
     /\ below # {} /\ ~(t.sum >= need) => r.s.m.count = t.s.m.count - 1

LEMMA RecoverOneIs ==
  ASSUME NEW t, NEW Lv, NEW Rw, t.s \in Pair, Own(t.s.h, t.s.m, Lv, Rw),
         NEW id \in Classes(t.s.m), NEW need, NEW r, r = recover_one(t, id, need)
  PROVE  Shrunk(t.s, r.s, Lv, Rw) /\ OneLess(t, r, id, need)
<1> DEFINE below == Filled(t.s.m, 0..(id - 1))
           i == Max(below)
           k == give_back(t.s, i)
           sum == t.sum + class_size(t.s.m, i)
<1>1. t.s.m.count \in Int
  BY MShapeIs DEF Own
<1>2. r = IF below = {} \/ t.sum >= need THEN t ELSE [s |-> k, sum |-> sum]
  BY DEF recover_one
<1> HIDE DEF k, sum
<1>3. CASE below = {} \/ t.sum >= need
  <2>1. r = t
    BY <1>2, <1>3
  <2> QED BY <1>1, <1>3, <2>1 DEF Shrunk, Alike, Emptied, OneLess
<1>4. CASE ~(below = {} \/ t.sum >= need)
  <2>1. r.s = k
    BY <1>2, <1>4
  <2>2. id \in Nat /\ 0..(id - 1) \subseteq Classes(t.s.m)
    BY ClassIs, ClassCountIs, MShapeIs DEF Classes, Own
  <2>3. below \in SUBSET (0..(id - 1))
    BY DEF Filled
  <2>4. i \in below
    <3>1. id - 1 \in Int
      BY <2>2
    <3> HIDE DEF below
    <3> QED BY <1>4, <2>3, <3>1, MaxIs
  <2>5. i \in Classes(t.s.m) /\ t.s.m.list[i] # <<>>
    <3> HIDE DEF i
    <3> QED BY <2>2, <2>4 DEF Filled
  <2> HIDE DEF i, below
  <2>6. /\ k \in Pair /\ Own(k.h, k.m, Lv, Rw)
        /\ Alike(t.s.m, k.m) /\ Emptied(t.s.m, k.m) /\ k.m.count = t.s.m.count - 1
    BY <2>5, GiveBackIs DEF k
  <2>7. Shrunk(t.s, k, Lv, Rw)
    BY <1>1, <2>6 DEF Shrunk
  <2> QED BY <1>4, <2>1, <2>6, <2>7 DEF below, OneLess
<1> QED BY <1>3, <1>4

LEMMA RecoverBelowIs ==
  ASSUME NEW s \in Pair, NEW Lv, NEW Rw, Own(s.h, s.m, Lv, Rw),
         NEW id \in Classes(s.m), NEW need \in Nat \ {0},
         NEW r, r = recover_below(s, id, need)
  PROVE  /\ Shrunk(s, r, Lv, Rw)
         /\ Filled(s.m, 0..(id - 1)) = {} => r = s
         /\ Filled(s.m, 0..(id - 1)) # {} => r.m.count < s.m.count
<1> DEFINE n == s.m.count
           fill == Filled(s.m, 0..(id - 1))
           init == [s |-> s, sum |-> 0]
<1>1. n \in Nat
  <2>1. IsFiniteSet(Cs(s.m)) /\ s.m.count = Cardinality(Cs(s.m))
    BY DEF Own, Tidy
  <2> QED BY <2>1, FS_CardinalityType
<1>2. PICK f : IsRec(f, s, id, need, n) /\ r = f[n].s
  <2> DEFINE g == CHOOSE f : IsRec(f, s, id, need, n)
  <2>1. \E f : IsRec(f, s, id, need, n)
    BY <1>1, RecExists
  <2>2. IsRec(g, s, id, need, n)
    BY <2>1
  <2>3. r = g[n].s
    BY DEF recover_below, IsRec
  <2> QED BY <2>2, <2>3
<1>3. \A k \in 0..n : f[k] = IF k = 0 THEN init ELSE recover_one(f[k - 1], id, need)
  BY <1>2 DEF IsRec
<1>4. init.s = s /\ init.sum = 0
  OBVIOUS
<1> HIDE DEF init
<1>5. Shrunk(s, s, Lv, Rw)
  BY <1>1 DEF Shrunk, Alike, Emptied
<1> DEFINE Fine(k) == Shrunk(s, f[k].s, Lv, Rw) /\ (fill = {} => f[k].s = s)
<1>6. ASSUME NEW k \in 1..n, Fine(k - 1)
      PROVE  /\ f[k] = recover_one(f[k - 1], id, need)
             /\ Shrunk(f[k - 1].s, f[k].s, Lv, Rw) /\ Shrunk(s, f[k].s, Lv, Rw)
             /\ Filled(f[k - 1].s.m, 0..(id - 1)) = {} => f[k] = f[k - 1]
             /\ Filled(f[k - 1].s.m, 0..(id - 1)) # {} /\ ~(f[k - 1].sum >= need)
                  => f[k].s.m.count = f[k - 1].s.m.count - 1
             /\ f[k].s.m.count \in Int /\ f[k - 1].s.m.count \in Int
  <2> DEFINE t == f[k - 1]
             u == f[k]
  <2>1. u = recover_one(t, id, need)
    BY <1>1, <1>3
  <2>2. Shrunk(s, t.s, Lv, Rw)
    BY <1>6
  <2> HIDE DEF t, u
  <2>3. t.s \in Pair /\ Own(t.s.h, t.s.m, Lv, Rw) /\ id \in Classes(t.s.m)
    BY <2>2, SameClasses DEF Shrunk, Alike
  <2>4. /\ Shrunk(t.s, u.s, Lv, Rw)
        /\ Filled(t.s.m, 0..(id - 1)) = {} => u = t
        /\ Filled(t.s.m, 0..(id - 1)) # {} /\ ~(t.sum >= need)
              => u.s.m.count = t.s.m.count - 1
    <3>1. Shrunk(t.s, u.s, Lv, Rw) /\ OneLess(t, u, id, need)
      BY <2>1, <2>3, RecoverOneIs
    <3> QED BY <3>1 DEF OneLess
  <2>5. t.s.m.count \in Int /\ u.s.m.count \in Int
    BY <2>3, <2>4, MShapeIs DEF Own, Shrunk
  <2>6. Shrunk(s, u.s, Lv, Rw)
    BY <1>1, <2>2, <2>4, <2>5, ShrunkOver
  <2> QED BY <2>1, <2>4, <2>5, <2>6 DEF t, u
<1>7. \A k \in 0..n : Fine(k)
  <2> DEFINE Bad == {k \in 0..n : ~Fine(k)}
  <2> SUFFICES ASSUME Bad # {} PROVE FALSE
    OBVIOUS
  <2>1. PICK k \in Bad : \A i \in Bad : k <= i
    <3>1. Bad \in SUBSET Nat
      OBVIOUS
    <3> HIDE DEF Bad
    <3> QED BY <3>1, LeastNat
  <2>2. k \in 0..n /\ ~Fine(k)
    BY <2>1
  <2>3. CASE k = 0
    <3>1. f[k].s = s
      BY <1>1, <1>3, <1>4, <2>3
    <3> QED BY <1>5, <2>2, <3>1
  <2>4. CASE k # 0
    <3>1. k \in 1..n /\ k - 1 \in 0..n /\ ~(k <= k - 1)
      BY <1>1, <2>2, <2>4
    <3>2. Fine(k - 1)
      BY <2>1, <3>1
    <3>3. /\ Shrunk(s, f[k].s, Lv, Rw)
          /\ Filled(f[k - 1].s.m, 0..(id - 1)) = {} => f[k] = f[k - 1]
      BY <1>6, <3>1, <3>2
    <3>4. fill = {} => f[k].s = s
      <4>1. fill = {} => f[k - 1].s = s
        BY <3>2
      <4> QED BY <3>3, <4>1
    <3> QED BY <2>2, <3>3, <3>4
  <2> QED BY <2>3, <2>4
<1>8. Fine(n)
  BY <1>1, <1>7
<1>9. ASSUME fill # {} PROVE r.m.count < s.m.count
  <2>1. n >= 1
    <3>1. PICK i \in 0..(id - 1) : s.m.list[i] # <<>>
      BY <1>9 DEF Filled
    <3>2. MShape(s.m) /\ Tidy(s.m, Lv)
      BY DEF Own
    <3>3. i \in Classes(s.m)
      <4>1. id \in Nat /\ ClassCount(s.m) \in Nat
        BY <3>2, ClassIs, ClassCountIs, MShapeIs
      <4> QED BY <4>1 DEF Classes
    <3>4. Once(s.m.list[i], Waiting(s.m, Lv, i))
      BY <3>2, <3>3 DEF Tidy
    <3>5. Waiting(s.m, Lv, i) # {}
      BY <3>1, <3>4, OnceSet
    <3>6. Cs(s.m) # {}
      BY <3>5 DEF Waiting
    <3>7. IsFiniteSet(Cs(s.m)) /\ n = Cardinality(Cs(s.m))
      BY <3>2 DEF Tidy
    <3> HIDE DEF n
    <3>8. n # 0
      BY <3>6, <3>7, FS_EmptySet
    <3> QED BY <1>1, <3>8
  <2>2. f[0] = init /\ Fine(0) /\ 1 \in 1..n /\ 1 - 1 = 0
    BY <1>1, <1>3, <1>7, <2>1
  <2>3. f[0].s = s /\ ~(f[0].sum >= need)
    BY <1>4, <2>2
  <2>4. f[1].s.m.count = s.m.count - 1
    BY <1>6, <1>9, <2>2, <2>3
  <2> DEFINE Late == {k \in 1..n : ~(f[k].s.m.count < n)}
  <2>5. Late = {}
    <3> SUFFICES ASSUME Late # {} PROVE FALSE
      OBVIOUS
    <3>1. PICK k \in Late : \A i \in Late : k <= i
      <4>1. Late \in SUBSET Nat
        OBVIOUS
      <4> HIDE DEF Late
      <4> QED BY <4>1, LeastNat
    <3>2. k \in 1..n /\ ~(f[k].s.m.count < n)
      BY <3>1
    <3>3. k # 1
      BY <1>1, <2>4, <3>2
    <3>4. k - 1 \in 1..n /\ ~(k <= k - 1) /\ k - 1 \in 0..n
      BY <1>1, <3>2, <3>3
    <3>5. f[k - 1].s.m.count < n
      BY <3>1, <3>4
    <3>6. /\ Shrunk(f[k - 1].s, f[k].s, Lv, Rw)
          /\ f[k].s.m.count \in Int /\ f[k - 1].s.m.count \in Int
      BY <1>6, <1>7, <3>2, <3>4
    <3>7. f[k].s.m.count <= f[k - 1].s.m.count
      BY <3>6 DEF Shrunk
    <3> QED BY <1>1, <3>2, <3>5, <3>6, <3>7
  <2>6. f[n].s.m.count < n
    BY <1>1, <2>1, <2>5
  <2> QED BY <1>2, <2>6
<1> QED BY <1>2, <1>8, <1>9

LEMMA ShrunkSelf ==
  ASSUME NEW s \in Pair, NEW Lv, NEW Rw, Own(s.h, s.m, Lv, Rw)
  PROVE  Shrunk(s, s, Lv, Rw) /\ s.m.count \in Nat
<1>1. s.m.count \in Nat
  <2>1. IsFiniteSet(Cs(s.m)) /\ s.m.count = Cardinality(Cs(s.m))
    BY DEF Own, Tidy
  <2> QED BY <2>1, FS_CardinalityType
<1> QED BY <1>1 DEF Shrunk, Alike, Emptied

LEMMA RecoverIs ==
  ASSUME NEW s \in Pair, NEW Lv, NEW Rw, Own(s.h, s.m, Lv, Rw),
         NEW id \in Classes(s.m), NEW r, r = slabs_recover(s, id)
  PROVE  /\ Shrunk(s, r.s, Lv, Rw) /\ r.nospace \in BOOLEAN
         /\ r.nospace => r.s = s /\ \A i \in Classes(s.m) \ {id} : s.m.list[i] = <<>>
         /\ ~r.nospace => r.s.m.count < s.m.count
<1> DEFINE C == Classes(s.m)
           up == (id + 1)..(ClassCount(s.m) - 1)
           dn == 0..(id - 1)
           above == Filled(s.m, up)
           below == Filled(s.m, dn)
           i == Min(above)
           p == give_back(s, i)
           need == 2 * class_size(s.m, id)
           q == recover_below(s, id, need)
           no == below = {}
<1>1. MShape(s.m)
  BY DEF Own
<1>2. id \in Nat /\ class_size(s.m, id) \in Nat /\ class_size(s.m, id) > 0 /\ ClassCount(s.m) \in Nat
  BY <1>1, ClassIs, ClassCountIs, MShapeIs
<1>3. up \subseteq C /\ dn \subseteq C /\ C = up \cup dn \cup {id}
  BY <1>2 DEF Classes
<1>4. s.m.count \in Nat
  BY ShrunkSelf
<1>5. r = IF above # {} THEN [s |-> p, nospace |-> FALSE]
          ELSE [s |-> q, nospace |-> no]
  BY DEF slabs_recover
<1> HIDE DEF p, q
<1>6. CASE above # {}
  <2>1. r.s = p /\ r.nospace = FALSE
    <3> HIDE DEF above, no
    <3> QED BY <1>5, <1>6
  <2>2. above \in SUBSET Nat
    BY <1>2 DEF Filled
  <2>3. i \in above
    <3> HIDE DEF above
    <3> QED BY <1>6, <2>2, MinIs
  <2> HIDE DEF i
  <2>4. i \in Classes(s.m) /\ s.m.list[i] # <<>>
    BY <1>3, <2>3 DEF Filled
  <2>5. /\ p \in Pair /\ Own(p.h, p.m, Lv, Rw)
        /\ Alike(s.m, p.m) /\ Emptied(s.m, p.m) /\ p.m.count = s.m.count - 1
    BY <2>4, GiveBackIs DEF p
  <2>6. Shrunk(s, p, Lv, Rw) /\ p.m.count < s.m.count
    BY <1>4, <2>5 DEF Shrunk
  <2> QED BY <2>1, <2>6
<1>7. CASE above = {}
  <2>1. r.s = q /\ r.nospace = no
    <3> HIDE DEF above, no
    <3>1. r = [s |-> q, nospace |-> no]
      BY <1>5, <1>7
    <3> QED BY <3>1
  <2>2. need \in Nat \ {0}
    BY <1>2
  <2> HIDE DEF need
  <2>3. /\ Shrunk(s, q, Lv, Rw)
        /\ Filled(s.m, 0..(id - 1)) = {} => q = s
        /\ Filled(s.m, 0..(id - 1)) # {} => q.m.count < s.m.count
    BY <2>2, RecoverBelowIs DEF q
  <2>4. no \in BOOLEAN
    OBVIOUS
  <2>5. ASSUME no PROVE q = s /\ \A j \in Classes(s.m) \ {id} : s.m.list[j] = <<>>
    BY <1>3, <1>7, <2>3, <2>5 DEF Filled
  <2>6. ASSUME ~no PROVE q.m.count < s.m.count
    BY <2>3, <2>6
  <2> HIDE DEF no
  <2> QED BY <2>1, <2>3, <2>4, <2>5, <2>6
<1> QED BY <1>6, <1>7

-----------------------------------------------------------------------------
(* An allocation with recovery. *)

Tries == [s : Pair, at : Nat \cup {None}, nospace : BOOLEAN]

Spare(g, mm, Rw, a, n) ==
  a \in TakenOf(g) /\ a \notin Cs(mm) \cup Rw /\ g.blk[a].size >= n

Got(s, t, id, Lv, Rw) ==
  /\ t \in Tries /\ Shrunk(s, t.s, Lv, Rw)
  /\ t.at # None => Spare(t.s.h, t.s.m, Rw, t.at, class_size(s.m, id))
  /\ t.at = None => FirstFit(t.s.h, class_size(s.m, id)) = None
  /\ t.at = None /\ t.nospace => \A i \in Classes(s.m) \ {id} : t.s.m.list[i] = <<>>

LEMMA OwnMore ==
  ASSUME NEW g, NEW mm, NEW Lv, NEW Rw, Own(g, mm, Lv, Rw), NEW r, NEW n \in Nat,
         Answer(g, r, n)
  PROVE  /\ Own(r.h, mm, Lv, Rw) /\ r.at \in Nat \cup {None} /\ r.h \in SegRec
         /\ r.at # None => Spare(r.h, mm, Rw, r.at, n)
<1>1. Seg(g) /\ Lay(g, mm, Lv, Rw) /\ Seg(r.h)
  BY DEF Own, Answer
<1>2. r.h \in SegRec /\ TakenOf(r.h) \subseteq Nat
  BY <1>1, Inside DEF Shape
<1>3. CASE r.at = None
  BY <1>2, <1>3 DEF Answer
<1>4. CASE r.at # None
  <2>1. More(g, r.h, r.at) /\ r.h.blk[r.at].size >= n
    BY <1>4 DEF Answer
  <2>2. Lay(r.h, mm, Lv, Rw) /\ r.at \in TakenOf(r.h) /\ r.at \notin Cs(mm) \cup Rw
    BY <1>1, <2>1, LayMore
  <2> QED BY <1>1, <1>2, <2>1, <2>2 DEF Own, Spare
<1> QED BY <1>3, <1>4

LEMMA TryIs ==
  ASSUME NEW s \in Pair, NEW Lv, NEW Rw, Own(s.h, s.m, Lv, Rw),
         NEW id \in Classes(s.m), NEW t, t = try_alloc(s, id)
  PROVE  Got(s, t, id, Lv, Rw) /\ t.nospace = FALSE /\ t.s.m = s.m
<1> DEFINE n == class_size(s.m, id)
           r == shm_alloc(s.h, n)
           u == [s EXCEPT !.h = r.h]
<1>1. t = [s |-> u, at |-> r.at, nospace |-> FALSE]
  BY DEF try_alloc, answered
<1>2. n \in Nat
  BY ClassIs DEF Own
<1>3. Seg(s.h)
  BY DEF Own
<1>4. r.at = None => FirstFit(s.h, n) = None /\ r.h = s.h
  BY DEF shm_alloc, give
<1> HIDE DEF n, r
<1>5. Answer(s.h, r, n)
  BY <1>2, <1>3, AllocIs DEF r
<1>6. /\ Own(r.h, s.m, Lv, Rw) /\ r.at \in Nat \cup {None} /\ r.h \in SegRec
      /\ r.at # None => Spare(r.h, s.m, Rw, r.at, n)
  BY <1>2, <1>5, OwnMore
<1>7. u \in Pair /\ u.h = r.h /\ u.m = s.m
  BY <1>6 DEF Pair
<1> HIDE DEF u
<1>8. t \in Tries /\ t.s = u /\ t.at = r.at /\ t.nospace = FALSE
  BY <1>1, <1>6, <1>7 DEF Tries
<1>9. s.m.count \in Nat
  BY ShrunkSelf
<1>10. Shrunk(s, u, Lv, Rw)
  BY <1>6, <1>7, <1>9 DEF Shrunk, Alike, Emptied
<1> QED BY <1>4, <1>6, <1>7, <1>8, <1>10 DEF Got, n

IsObtain(f, s, id, n) ==
  f = [k \in 0..n |-> IF k = 0 THEN try_alloc(s, id) ELSE obtain_again(f[k - 1], id)]

LEMMA ObtainExists ==
  ASSUME NEW s, NEW id, NEW j \in Nat PROVE \E f : IsObtain(f, s, id, j)
<1> DEFINE init == try_alloc(s, id)
           Bad == {k \in Nat : ~\E f : IsObtain(f, s, id, k)}
<1> SUFFICES ASSUME j \in Bad PROVE FALSE
  OBVIOUS
<1>1. PICK k \in Bad : \A i \in Bad : k <= i
  <2>1. Bad \in SUBSET Nat /\ j \in Bad
    OBVIOUS
  <2> HIDE DEF Bad
  <2> QED BY <2>1, LeastNat
<1>2. CASE k = 0
  <2> DEFINE u == [i \in 0..k |-> init]
  <2> HIDE DEF init
  <2>1. u = [i \in 0..k |-> IF i = 0 THEN init ELSE obtain_again(u[i - 1], id)]
    BY <1>2
  <2> HIDE DEF u
  <2>2. IsObtain(u, s, id, k)
    BY <2>1 DEF IsObtain, init
  <2> QED BY <1>1, <2>2
<1>3. CASE k # 0
  <2>1. k - 1 \in Nat /\ ~(k <= k - 1)
    BY <1>1, <1>3
  <2>2. PICK u : IsObtain(u, s, id, k - 1)
    BY <1>1, <2>1
  <2>3. \A i \in 0..(k - 1) : u[i] = IF i = 0 THEN init ELSE obtain_again(u[i - 1], id)
    BY <2>2 DEF IsObtain
  <2> HIDE DEF init
  <2> DEFINE last == obtain_again(u[k - 1], id)
             v == [i \in 0..k |-> IF i = k THEN last ELSE u[i]]
  <2>4. \A i \in 0..k : v[i] = IF i = 0 THEN init ELSE obtain_again(v[i - 1], id)
    <3> TAKE i \in 0..k
    <3>1. CASE i = 0
      BY <1>3, <2>1, <2>3, <3>1
    <3>2. CASE i # 0
      <4>1. i - 1 \in 0..k /\ i - 1 # k /\ v[i - 1] = u[i - 1]
        BY <3>2, <1>1
      <4>2. i = k => v[i] = last
        OBVIOUS
      <4>3. i # k => v[i] = u[i] /\ i \in 0..(k - 1)
        BY <1>1
      <4> HIDE DEF v
      <4>4. CASE i = k
        BY <3>2, <4>1, <4>2, <4>4
      <4>5. CASE i # k
        BY <2>3, <3>2, <4>1, <4>3, <4>5
      <4> QED BY <4>4, <4>5
    <3> QED BY <3>1, <3>2
  <2>5. v = [i \in 0..k |-> v[i]]
    OBVIOUS
  <2> HIDE DEF v
  <2>6. v = [i \in 0..k |-> IF i = 0 THEN init ELSE obtain_again(v[i - 1], id)]
    BY <2>4, <2>5
  <2>7. IsObtain(v, s, id, k)
    BY <2>6 DEF IsObtain, init
  <2> QED BY <1>1, <2>7
<1> QED BY <1>2, <1>3

LEMMA GotOver ==
  ASSUME NEW s \in Pair, NEW u \in Pair, NEW id \in Classes(s.m), NEW Lv, NEW Rw,
         Shrunk(s, u, Lv, Rw), NEW t, Got(u, t, id, Lv, Rw), s.m.count \in Int
  PROVE  Got(s, t, id, Lv, Rw)
<1>1. u.m.count \in Int
  BY MShapeIs DEF Shrunk, Own
<1>2. Shrunk(u, t.s, Lv, Rw)
  BY DEF Got
<1>3. Shrunk(s, t.s, Lv, Rw)
  BY <1>1, <1>2, ShrunkOver
<1>4. Classes(u.m) = Classes(s.m) /\ class_size(u.m, id) = class_size(s.m, id)
  BY SameClasses DEF Shrunk, Alike
<1> QED BY <1>3, <1>4 DEF Got

LEMMA AgainIs ==
  ASSUME NEW s \in Pair, NEW id \in Classes(s.m), NEW Lv, NEW Rw, s.m.count \in Int,
         NEW t, Got(s, t, id, Lv, Rw), NEW r, r = obtain_again(t, id)
  PROVE  /\ Got(s, r, id, Lv, Rw) /\ r.s.m.count \in Nat /\ t.s.m.count \in Nat
         /\ t.at # None \/ t.nospace => r = t
         /\ ~(t.at # None \/ t.nospace) /\ ~(r.at # None \/ r.nospace)
              => r.s.m.count < t.s.m.count
<1>1. /\ t \in Tries /\ Shrunk(s, t.s, Lv, Rw) /\ t.s \in Pair
      /\ Own(t.s.h, t.s.m, Lv, Rw) /\ Alike(s.m, t.s.m)
  BY DEF Got, Shrunk
<1>2. t.s.m.count \in Nat
  BY <1>1, ShrunkSelf
<1>3. Classes(t.s.m) = Classes(s.m) /\ class_size(t.s.m, id) = class_size(s.m, id)
  BY <1>1, SameClasses DEF Alike
<1>4. CASE t.at # None \/ t.nospace
  BY <1>2, <1>4 DEF obtain_again
<1>5. CASE ~(t.at # None \/ t.nospace)
  <2> DEFINE q == slabs_recover(t.s, id)
  <2>1. r = IF q.nospace THEN [t EXCEPT !.s = q.s, !.nospace = TRUE] ELSE try_alloc(q.s, id)
    BY <1>5 DEF obtain_again, retry_alloc
  <2> HIDE DEF q
  <2>2. /\ Shrunk(t.s, q.s, Lv, Rw) /\ q.nospace \in BOOLEAN
        /\ q.nospace => q.s = t.s /\ \A i \in Classes(t.s.m) \ {id} : t.s.m.list[i] = <<>>
        /\ ~q.nospace => q.s.m.count < t.s.m.count
    BY <1>1, <1>3, RecoverIs DEF q
  <2>3. CASE q.nospace
    <3> DEFINE e == [t EXCEPT !.s = q.s, !.nospace = TRUE]
    <3>1. r = e
      BY <2>1, <2>3
    <3>2. q.s = t.s /\ q.s \in Pair /\ \A i \in Classes(s.m) \ {id} : t.s.m.list[i] = <<>>
      BY <1>1, <1>3, <2>2, <2>3
    <3>3. e \in Tries /\ e.s = t.s /\ e.at = t.at /\ e.nospace = TRUE
      BY <1>1, <3>2 DEF Tries
    <3> HIDE DEF e
    <3>4. t.at = None
      BY <1>5
    <3>5. FirstFit(t.s.h, class_size(s.m, id)) = None
      BY <3>4 DEF Got
    <3> QED BY <1>1, <1>2, <1>5, <3>1, <3>2, <3>3, <3>4, <3>5 DEF Got
  <2>4. CASE ~q.nospace
    <3>1. r = try_alloc(q.s, id)
      BY <2>1, <2>4
    <3>2. q.s \in Pair /\ Own(q.s.h, q.s.m, Lv, Rw) /\ Alike(t.s.m, q.s.m)
      BY <2>2 DEF Shrunk
    <3>3. id \in Classes(q.s.m)
      BY <1>3, <3>2, SameClasses DEF Alike
    <3>4. Got(q.s, r, id, Lv, Rw) /\ r.s.m = q.s.m
      BY <3>1, <3>2, <3>3, TryIs
    <3>5. q.s.m.count \in Nat
      BY <3>2, ShrunkSelf
    <3>6. Shrunk(s, q.s, Lv, Rw)
      BY <1>1, <1>2, <2>2, ShrunkOver
    <3>7. Got(s, r, id, Lv, Rw)
      BY <3>2, <3>4, <3>6, GotOver
    <3> QED BY <1>2, <1>5, <2>2, <2>4, <3>4, <3>5, <3>7
  <2> QED BY <2>2, <2>3, <2>4
<1> QED BY <1>4, <1>5

LEMMA ObtainIs ==
  ASSUME NEW s \in Pair, NEW Lv, NEW Rw, Own(s.h, s.m, Lv, Rw),
         NEW id \in Classes(s.m), NEW r, r = obtain(s, id)
  PROVE  Got(s, r, id, Lv, Rw) /\ (r.at = None => r.nospace)
<1> DEFINE c == s.m.count
           n == c + 1
           init == try_alloc(s, id)
<1>1. c \in Nat /\ n \in Nat
  BY ShrunkSelf
<1>2. PICK f : IsObtain(f, s, id, n) /\ r = f[n]
  <2> DEFINE g == CHOOSE f : IsObtain(f, s, id, n)
  <2>1. \E f : IsObtain(f, s, id, n)
    BY <1>1, ObtainExists
  <2>2. IsObtain(g, s, id, n)
    BY <2>1
  <2>3. r = g[n]
    BY DEF obtain, IsObtain
  <2> QED BY <2>2, <2>3
<1>3. \A k \in 0..n : f[k] = IF k = 0 THEN init ELSE obtain_again(f[k - 1], id)
  BY <1>2 DEF IsObtain
<1> HIDE DEF init, n
<1> DEFINE Open(t) == ~(t.at # None \/ t.nospace)
           Fine(k) == /\ Got(s, f[k], id, Lv, Rw) /\ f[k].s.m.count \in Nat
                      /\ Open(f[k]) => f[k].s.m.count + k <= c
<1>4. Got(s, init, id, Lv, Rw) /\ init.s.m = s.m
  BY TryIs DEF init
<1>5. \A k \in 0..n : Fine(k)
  <2> DEFINE Bad == {k \in 0..n : ~Fine(k)}
  <2> SUFFICES ASSUME Bad # {} PROVE FALSE
    OBVIOUS
  <2>1. PICK k \in Bad : \A i \in Bad : k <= i
    <3>1. Bad \in SUBSET Nat
      BY <1>1
    <3> HIDE DEF Bad
    <3> QED BY <3>1, LeastNat
  <2>2. k \in 0..n /\ ~Fine(k)
    BY <2>1
  <2>3. CASE k = 0
    <3>1. f[k] = init
      BY <1>1, <1>3, <2>2, <2>3
    <3> QED BY <1>1, <1>4, <2>2, <2>3, <3>1
  <2>4. CASE k # 0
    <3>1. k - 1 \in 0..n /\ ~(k <= k - 1)
      BY <1>1, <2>2, <2>4
    <3>2. Fine(k - 1)
      BY <2>1, <3>1
    <3> DEFINE t == f[k - 1]
               u == f[k]
    <3>3. u = obtain_again(t, id)
      BY <1>3, <2>2, <2>4
    <3>4. Got(s, t, id, Lv, Rw) /\ (Open(t) => t.s.m.count + (k - 1) <= c)
      BY <3>2
    <3> HIDE DEF t, u
    <3>5. s.m.count \in Int
      BY <1>1
    <3>6. /\ Got(s, u, id, Lv, Rw) /\ u.s.m.count \in Nat /\ t.s.m.count \in Nat
          /\ t.at # None \/ t.nospace => u = t
          /\ ~(t.at # None \/ t.nospace) /\ ~(u.at # None \/ u.nospace)
               => u.s.m.count < t.s.m.count
      BY <3>3, <3>4, <3>5, AgainIs
    <3>7. Open(u) => Open(t)
      BY <3>6
    <3>8. Open(u) => u.s.m.count < t.s.m.count
      BY <3>6, <3>7
    <3> HIDE DEF Open
    <3>9. Open(u) => u.s.m.count + k <= c
      BY <1>1, <2>2, <3>4, <3>6, <3>7, <3>8
    <3> QED BY <2>2, <3>6, <3>9 DEF u
  <2> QED BY <2>3, <2>4
<1>6. Fine(n) /\ n \in 0..n
  BY <1>1, <1>5
<1>7. ~Open(f[n])
  BY <1>1, <1>6 DEF n
<1> QED BY <1>2, <1>6, <1>7

-----------------------------------------------------------------------------
(* The operations. *)

LEMMA ClassesNat ==
  ASSUME NEW mm, MShape(mm)
  PROVE  Classes(mm) \in SUBSET Nat /\ ClassCount(mm) \in Nat \ {0, 1}
<1>1. ClassCount(mm) \in Nat \ {0, 1}
  BY MShapeIs, ClassCountIs
<1> QED BY <1>1 DEF Classes

LEMMA HandFields ==
  ASSUME NEW t, t.s \in Pair, MShape(t.s.m), t.at \in Nat, NEW c \in Chunk, NEW new \in Int,
         NEW r, r = hand_out(t, c, new)
  PROVE  /\ r.at = t.at /\ r.s \in Pair /\ r.s.h = t.s.h /\ MShape(r.s.m)
         /\ With(t.s.m, r.s.m, t.s.m.list, Plus(t.s.m.chunk, t.at, c),
                 t.s.m.used + c.size, t.s.m.reqs + c.req, t.s.m.free, t.s.m.count + new)
<1> DEFINE s == t.s
           mm == t.s.m
           a == t.at
           p == Plus(mm.chunk, a, c)
           z == mm.count + new
           q == mm.reqs + c.req
           u == mm.used + c.size
           k == [mm EXCEPT !.chunk = p, !.count = z, !.reqs = q, !.used = u]
           e == [s EXCEPT !.m = k]
<1>1. a # None
  BY DEF None
<1>2. s \in Pair /\ mm \in MgrRec
  BY DEF MShape
<1>3. r.at = a /\ r.s = [s EXCEPT !.m.chunk = p, !.m.count = z, !.m.reqs = q, !.m.used = u]
  BY <1>1 DEF hand_out, Plus
<1>4. p \in Chs
  BY <1>2, PlusIs DEF MgrRec
<1>5. z \in Int /\ q \in Int /\ u \in Int
  <2>1. mm.count \in Int /\ mm.reqs \in Int /\ mm.used \in Int
    BY MShapeIs
  <2>2. c.req \in Nat /\ c.size \in Nat
    BY DEF Chunk
  <2> HIDE DEF mm
  <2> QED BY <2>1, <2>2
<1> HIDE DEF p, z, q, u, a
<1>6. r.s = e
  BY <1>2, <1>3 DEF Pair
<1>7. /\ k.power = mm.power /\ k.max = mm.max /\ k.list = mm.list /\ k.chunk = p
      /\ k.used = u /\ k.reqs = q /\ k.free = mm.free /\ k.count = z
  <2> HIDE DEF mm
  <2> QED BY <1>2 DEF MgrRec
<1>8. k \in MgrRec
  <2> HIDE DEF mm
  <2> QED BY <1>2, <1>4, <1>5 DEF MgrRec
<1> HIDE DEF k
<1>9. e \in Pair /\ e.h = s.h /\ e.m = k
  <2> HIDE DEF s
  <2> QED BY <1>2, <1>8 DEF Pair
<1>10. MShape(k)
  BY <1>7, <1>8, Reshaped DEF MShape
<1> HIDE DEF e
<1> QED BY <1>3, <1>6, <1>7, <1>9, <1>10 DEF With, p, z, q, u, a

LEMMA HandOutIs ==
  ASSUME NEW t, NEW Lv, NEW Rw, t.s \in Pair, Own(t.s.h, t.s.m, Lv, Rw),
         t.at \in Nat, NEW n \in Nat, Spare(t.s.h, t.s.m, Rw, t.at, n),
         NEW c \in Chunk, Good(t.s.m, c), c.size + ChunkHdr <= t.s.h.blk[t.at].size,
         NEW r, r = hand_out(t, c, 1)
  PROVE  r.at = t.at /\ r.s \in Pair /\ Own(r.s.h, r.s.m, Lv \cup {t.at}, Rw)
<1> DEFINE g == t.s.h
           mm == t.s.m
           a == t.at
           k == r.s.m
           Mv == Lv \cup {a}
<1>1. Seg(g) /\ MShape(mm) /\ Lay(g, mm, Lv, Rw) /\ Tidy(mm, Lv) /\ Stat(mm, Lv)
  BY DEF Own
<1>2. /\ r.at = a /\ r.s \in Pair /\ r.s.h = g /\ MShape(k)
      /\ With(mm, k, mm.list, Plus(mm.chunk, a, c), mm.used + c.size, mm.reqs + c.req,
              mm.free, mm.count + 1)
  BY <1>1, HandFields
<1>3. a \in TakenOf(g) /\ a \notin Cs(mm) \cup Rw
  BY DEF Spare
<1>4. a \in 0..(End - 1)
  BY <1>1, <1>3, Inside
<1>5. Lv \subseteq Cs(mm)
  BY <1>1 DEF Lay
<1>6. Good(mm, c) /\ c.size + ChunkHdr <= g.blk[a].size
  OBVIOUS
<1>c. Created(mm, k, a, c)
  BY <1>2 DEF Created
<1> HIDE DEF g, mm, a, k
<1>7. /\ Cs(k) = Cs(mm) \cup {a} /\ k.chunk[a] = c
      /\ \A x \in Cs(mm) : k.chunk[x] = mm.chunk[x]
      /\ Tidy(k, Lv \cup {a}) /\ Stat(k, Lv \cup {a})
  <2>1. /\ MShape(mm) /\ Tidy(mm, Lv) /\ Stat(mm, Lv) /\ MShape(k) /\ a \notin Cs(mm)
    BY <1>1, <1>2, <1>3
  <2>2. Good(mm, c)
    BY <1>6
  <2> QED BY <1>4, <1>5, <1>c, <2>1, <2>2, FreshIs
<1>8. Lay(g, k, Mv, Rw)
  <2>1. /\ Cs(mm) \cup Rw \subseteq TakenOf(g) /\ Cs(mm) \cap Rw = {}
        /\ \A x \in Cs(mm) : mm.chunk[x].size + ChunkHdr <= g.blk[x].size
    BY <1>1 DEF Lay
  <2>2. \A x \in Cs(k) : k.chunk[x].size + ChunkHdr <= g.blk[x].size
    <3> TAKE x \in Cs(k)
    <3>1. CASE x = a
      BY <1>6, <1>7, <3>1
    <3>2. CASE x # a
      BY <1>7, <2>1, <3>2
    <3> QED BY <3>1, <3>2
  <2> QED BY <1>3, <1>5, <1>7, <2>1, <2>2 DEF Lay
<1> QED BY <1>1, <1>2, <1>7, <1>8 DEF Own, a, k

LEMMA CachedOutIs ==
  ASSUME NEW s \in Pair, NEW Lv, NEW Rw, Own(s.h, s.m, Lv, Rw),
         NEW id \in Classes(s.m), s.m.list[id] # <<>>,
         NEW c \in Chunk, Good(s.m, c), c.id = id,
         NEW r, r = hand_out(uncache(s, id, c.size), c, 0)
  PROVE  r.at # None /\ r.s \in Pair /\ Own(r.s.h, r.s.m, Lv \cup {r.at}, Rw)
<1> DEFINE g == s.h
           mm == s.m
           a == Head(mm.list[id])
           l == [mm.list EXCEPT ![id] = Tail(mm.list[id])]
           f == (mm.free - c.size) % Word
           u == [mm EXCEPT !.list = l, !.free = f]
           t == uncache(s, id, c.size)
           k == r.s.m
           Mv == Lv \cup {a}
<1>1. Seg(g) /\ MShape(mm) /\ Lay(g, mm, Lv, Rw) /\ Tidy(mm, Lv) /\ Stat(mm, Lv)
  BY DEF Own
<1>2. s \in Pair /\ mm \in MgrRec
  BY <1>1 DEF MShape
<1>3. mm.list \in [Classes(mm) -> Seq(Nat)] /\ mm.free \in Int /\ mm.count \in Int
  BY <1>1, MShapeIs
<1>4. t.at = a /\ t.s = [s EXCEPT !.m = u]
  BY <1>2 DEF uncache, Pair
<1>5. a \in Nat
  BY <1>3
<1>6. f \in Int
  <2>1. mm.free - c.size \in Int
    BY <1>3 DEF Chunk
  <2>2. Word \in Nat \ {0}
    BY Consts
  <2> QED BY <2>1, <2>2
<1>7. l \in [Classes(mm) -> Seq(Nat)] /\ l \in Frees
  <2>1. Tail(mm.list[id]) \in Seq(Nat)
    BY <1>3
  <2>2. Classes(mm) \in SUBSET Nat
    BY <1>1, ClassesNat
  <2> QED BY <1>3, <2>1, <2>2 DEF Frees
<1>0. mm.list[id] # <<>> /\ id \in Classes(mm)
  OBVIOUS
<1> HIDE DEF f, l, mm, a
<1>8. /\ u.power = mm.power /\ u.max = mm.max /\ u.list = l /\ u.chunk = mm.chunk
      /\ u.used = mm.used /\ u.reqs = mm.reqs /\ u.free = f /\ u.count = mm.count
  BY <1>2 DEF MgrRec
<1>9. u \in MgrRec
  BY <1>2, <1>6, <1>7 DEF MgrRec
<1> HIDE DEF u
<1>10. MShape(u)
  BY <1>1, <1>7, <1>8, <1>9, Reshaped
<1>11. t.s \in Pair /\ t.s.h = g /\ t.s.m = u
  BY <1>2, <1>4, <1>9 DEF Pair
<1> HIDE DEF t
<1>12. /\ r.at = t.at /\ r.s \in Pair /\ r.s.h = t.s.h /\ MShape(r.s.m)
       /\ With(t.s.m, r.s.m, t.s.m.list, Plus(t.s.m.chunk, t.at, c),
               t.s.m.used + c.size, t.s.m.reqs + c.req, t.s.m.free, t.s.m.count + 0)
  <2>1. t.at \in Nat /\ MShape(t.s.m) /\ r = hand_out(t, c, 0) /\ 0 \in Int
    BY <1>4, <1>5, <1>10, <1>11 DEF t
  <2> QED BY <1>11, <2>1, HandFields
<1>13. /\ r.at = a /\ r.s \in Pair /\ r.s.h = g /\ MShape(k)
       /\ With(mm, k, l, Plus(mm.chunk, a, c), mm.used + c.size, mm.reqs + c.req, f, mm.count)
  BY <1>3, <1>4, <1>8, <1>11, <1>12 DEF With
<1>14. Lv \subseteq Cs(mm) /\ Cs(mm) \subseteq 0..(End - 1)
  <2>1. TakenOf(g) \subseteq 0..(End - 1)
    BY <1>1, Inside
  <2> QED BY <1>1, <2>1 DEF Lay
<1>15. Reused(mm, k, id, a, c) /\ Good(mm, c)
  BY <1>13 DEF Reused, mm, a, l, f
<1> HIDE DEF g, k
<1>16. /\ a \in Cs(mm) \ Lv /\ Cs(k) = Cs(mm) /\ k.chunk[a].size = mm.chunk[a].size
       /\ \A x \in Cs(k) \ {a} : k.chunk[x] = mm.chunk[x]
       /\ Tidy(k, Lv \cup {a}) /\ Stat(k, Lv \cup {a})
  <2>1. MShape(mm) /\ Tidy(mm, Lv) /\ Stat(mm, Lv) /\ MShape(k)
    BY <1>1, <1>13
  <2> QED BY <1>0, <1>14, <1>15, <2>1, ReuseIs
<1>17. Lay(g, k, Mv, Rw)
  <2>1. /\ Cs(mm) \cup Rw \subseteq TakenOf(g) /\ Cs(mm) \cap Rw = {}
        /\ \A x \in Cs(mm) : mm.chunk[x].size + ChunkHdr <= g.blk[x].size
    BY <1>1 DEF Lay
  <2>2. \A x \in Cs(k) : k.chunk[x].size = mm.chunk[x].size
    BY <1>16
  <2> QED BY <1>14, <1>16, <2>1, <2>2 DEF Lay
<1>18. a # None
  BY <1>5 DEF None
<1> QED BY <1>1, <1>13, <1>16, <1>17, <1>18 DEF Own, k

LEMMA HeldIs ==
  ASSUME NEW X, NEW a
  PROVE  (a = None => Held(X, a) = X) /\ (a # None => Held(X, a) = X \cup {a})
BY DEF Held

(* A request that fails found no class, or no room and no cached chunk. *)
Failed(s, r, n) ==
  \/ clsid(s.m, n) = InvalidId
  \/ \E id \in Classes(s.m) :
       /\ ClassFor(s.m, n + ChunkHdr, id) /\ FirstFit(r.s.h, class_size(s.m, id)) = None
       /\ \A i \in Classes(s.m) : r.s.m.list[i] = <<>>

LEMMA SlabsAllocIs ==
  ASSUME NEW s \in Pair, NEW Lv, NEW Rw, Own(s.h, s.m, Lv, Rw), NEW n \in Nat \ {0},
         NEW act \in BOOLEAN, NEW r, r = slabs_alloc(s, n, act)
  PROVE  /\ r.s \in Pair /\ Own(r.s.h, r.s.m, Held(Lv, r.at), Rw)
         /\ r.at = None => Failed(s, r, n) /\ Alike(s.m, r.s.m)
<1> DEFINE id == clsid(s.m, n)
           full == class_size(s.m, id) - ChunkHdr
           c == [size |-> full, req |-> IF act THEN full ELSE n, id |-> id]
           t == obtain(s, id)
           w == hand_out(uncache(s, id, full), c, 0)
           v == hand_out(t, c, 1)
<1>1. MShape(s.m)
  BY DEF Own
<1>2. s.m.power \in BOOLEAN /\ s.m.max \in ItemMaxes
  BY <1>1, MShapeIs
<1>3. r = IF id = InvalidId THEN [s |-> s, at |-> None]
          ELSE IF s.m.list[id] # <<>> THEN w ELSE v
  BY DEF slabs_alloc
<1> HIDE DEF id
<1>4. id = InvalidId \/ (id \in Classes(s.m) /\ ClassFor(s.m, n + ChunkHdr, id))
  BY <1>2, ClsidIs DEF id
<1>5. CASE id = InvalidId
  <2>1. r.s = s /\ r.at = None
    BY <1>3, <1>5
  <2> QED BY <1>5, <2>1, HeldIs DEF Failed, Alike, id
<1>6. CASE id # InvalidId
  <2>1. id \in Classes(s.m) /\ ClassFor(s.m, n + ChunkHdr, id)
    BY <1>4, <1>6
  <2>2. id \in Nat /\ class_size(s.m, id) \in Nat /\ class_size(s.m, id) > ChunkHdr /\ ChunkHdr \in Nat
    BY <1>1, <2>1, ClassIs
  <2>3. n + ChunkHdr <= class_size(s.m, id) /\ \A i \in 0..(id - 1) : class_size(s.m, i) < n + ChunkHdr
    BY <2>1 DEF ClassFor
  <2>4. full \in Nat /\ n <= full /\ full + ChunkHdr = class_size(s.m, id)
    BY <2>2, <2>3
  <2> DEFINE q == IF act THEN full ELSE n
  <2>5. q \in Nat /\ q <= full /\ q >= n
    BY <2>4
  <2>6. c \in Chunk /\ c.id = id /\ c.size = full /\ c.req = q
    BY <2>2, <2>4, <2>5 DEF Chunk
  <2> HIDE DEF q, c, full
  <2>7. Good(s.m, c)
    <3>1. \A i \in 0..(id - 1) : c.req + ChunkHdr > class_size(s.m, i)
      <4> TAKE i \in 0..(id - 1)
      <4>1. i \in Nat
        BY <2>2
      <4>2. class_size(s.m, i) \in Nat
        BY <1>2, <4>1, ClassSizeIs
      <4>3. class_size(s.m, i) < n + ChunkHdr
        BY <2>3
      <4> QED BY <2>2, <2>5, <2>6, <4>2, <4>3
    <3> QED BY <2>1, <2>4, <2>5, <2>6, <3>1 DEF Good
  <2>8. CASE s.m.list[id] # <<>>
    <3>1. r = w
      BY <1>3, <1>6, <2>8
    <3>2. r = hand_out(uncache(s, id, c.size), c, 0)
      BY <2>6, <3>1
    <3>3. r.at # None /\ r.s \in Pair /\ Own(r.s.h, r.s.m, Lv \cup {r.at}, Rw)
      BY <2>1, <2>6, <2>7, <2>8, <3>2, CachedOutIs
    <3> QED BY <3>3, HeldIs
  <2>9. CASE s.m.list[id] = <<>>
    <3>1. r = v
      BY <1>3, <1>6, <2>9
    <3> HIDE DEF t
    <3>2. Got(s, t, id, Lv, Rw) /\ (t.at = None => t.nospace)
      BY <2>1, ObtainIs DEF t
    <3>3. /\ t \in Tries /\ t.s \in Pair /\ Own(t.s.h, t.s.m, Lv, Rw)
          /\ Alike(s.m, t.s.m) /\ Emptied(s.m, t.s.m)
      BY <3>2 DEF Got, Shrunk
    <3>4. CASE t.at = None
      <4>1. r.s = t.s /\ r.at = None
        BY <3>1, <3>4 DEF hand_out
      <4>2. FirstFit(t.s.h, class_size(s.m, id)) = None
        BY <3>2, <3>4 DEF Got
      <4>3. \A i \in Classes(s.m) : t.s.m.list[i] = <<>>
        BY <2>1, <2>9, <3>2, <3>3, <3>4 DEF Got, Emptied
      <4>4. Failed(s, r, n)
        BY <2>1, <4>1, <4>2, <4>3 DEF Failed
      <4> QED BY <3>3, <4>1, <4>4, HeldIs
    <3>5. CASE t.at # None
      <4>1. Spare(t.s.h, t.s.m, Rw, t.at, class_size(s.m, id))
        BY <3>2, <3>5 DEF Got
      <4>2. t.at \in Nat
        BY <3>3, <3>5 DEF Tries
      <4>3. Good(t.s.m, c)
        BY <2>7, <3>3, GoodSame DEF Alike
      <4>4. c.size + ChunkHdr <= t.s.h.blk[t.at].size
        <5>1. t.s.h.blk[t.at].size >= class_size(s.m, id)
          BY <4>1 DEF Spare
        <5>2. c.size + ChunkHdr = class_size(s.m, id)
          BY <2>4, <2>6
        <5>3. t.s.h.blk[t.at].size \in Nat
          <6>1. Shape(t.s.h) /\ t.at \in D(t.s.h)
            BY <3>3, <4>1, Inside DEF Own, Spare, TakenOf
          <6> QED BY <6>1, BlockIs
        <5> QED BY <2>2, <5>1, <5>2, <5>3
      <4>5. r.at = t.at /\ r.s \in Pair /\ Own(r.s.h, r.s.m, Lv \cup {t.at}, Rw)
        BY <2>2, <2>6, <3>1, <3>3, <4>1, <4>2, <4>3, <4>4, HandOutIs
      <4> QED BY <3>5, <4>5, HeldIs
    <3> QED BY <3>4, <3>5
  <2> QED BY <2>8, <2>9
<1> QED BY <1>5, <1>6

LEMMA SlabsSplitIs ==
  ASSUME NEW s \in Pair, NEW Lv, NEW Rw, Own(s.h, s.m, Lv, Rw), NEW n \in Nat \ {0},
         NEW minn \in Nat \ {0}, NEW r, r = slabs_split_alloc(s, n, minn)
  PROVE  r.s \in Pair /\ Own(r.s.h, r.s.m, Held(Lv, r.at), Rw)
<1> DEFINE z == ALIGNMENT(minn + ChunkHdr)
           q == shm_split_alloc(s.h, z)
           d == split_chunk(s, q, n)
<1>1. r = [s |-> s, at |-> None] \/ r = d
  BY DEF slabs_split_alloc
<1>2. ChunkHdr \in Nat
  BY Consts
<1>3. z \in Nat /\ z >= minn + ChunkHdr
  <2>1. minn + ChunkHdr \in Nat
    BY <1>2
  <2> QED BY <2>1, AlignIs
<1> HIDE DEF z
<1>4. CASE r = [s |-> s, at |-> None]
  BY <1>4, HeldIs
<1>5. CASE r = d
  <2> DEFINE b == q.h.blk[q.at].size
             full == b - ChunkHdr
             j == Min({n, full})
             c == [size |-> full, req |-> j, id |-> SplitId]
             p == [s EXCEPT !.h = q.h]
             t == [s |-> p, at |-> q.at]
  <2>1. r = IF q.at = None THEN [s |-> s, at |-> None] ELSE hand_out(t, c, 1)
    BY <1>5 DEF split_chunk
  <2> HIDE DEF q, b, d
  <2>2. Answer(s.h, q, z)
    BY <1>3, SplitAllocIs DEF Own, q
  <2>3. /\ Own(q.h, s.m, Lv, Rw) /\ q.at \in Nat \cup {None} /\ q.h \in SegRec
        /\ q.at # None => Spare(q.h, s.m, Rw, q.at, z)
    BY <1>3, <2>2, OwnMore
  <2>4. CASE q.at = None
    <3>1. r.s = s /\ r.at = None
      BY <2>1, <2>4
    <3> QED BY <3>1, HeldIs
  <2>5. CASE q.at # None
    <3>1. r = hand_out(t, c, 1)
      BY <2>1, <2>5
    <3>2. p \in Pair /\ p.h = q.h /\ p.m = s.m
      BY <2>3 DEF Pair
    <3> HIDE DEF p
    <3>3. t.s = p /\ t.at = q.at
      OBVIOUS
    <3>4. q.at \in Nat /\ Spare(q.h, s.m, Rw, q.at, z)
      BY <2>3, <2>5
    <3>5. b \in Nat /\ b >= z
      <4>1. Shape(q.h) /\ q.at \in D(q.h) /\ q.h.blk[q.at].size >= z
        BY <2>3, <3>4, Inside DEF Own, Spare, TakenOf
      <4> QED BY <4>1, BlockIs DEF b
    <3>6. full \in Nat
      BY <1>2, <1>3, <3>5
    <3>6a. full + ChunkHdr = b
      BY <1>2, <3>5
    <3> HIDE DEF full
    <3>7. j = IF n <= full THEN n ELSE full
      <4>1. n \in Int /\ full \in Int
        BY <3>6
      <4> QED BY <4>1, MinPair
    <3>8. j \in Nat /\ j <= full
      <4> HIDE DEF j
      <4> QED BY <3>6, <3>7
    <3> HIDE DEF j
    <3>9. c \in Chunk /\ c.size = full /\ c.req = j /\ c.id = SplitId
      BY <3>6, <3>8 DEF Chunk, SplitId
    <3> HIDE DEF c, t
    <3>10. Good(s.m, c)
      <4>1. SplitId \notin Classes(s.m) /\ 0..(SplitId - 1) = {}
        BY ClassIs DEF Own, SplitId
      <4> QED BY <3>8, <3>9, <4>1 DEF Good
    <3>11. r.at = t.at /\ r.s \in Pair /\ Own(r.s.h, r.s.m, Lv \cup {t.at}, Rw)
      <4>1. t.s \in Pair /\ Own(t.s.h, t.s.m, Lv, Rw) /\ t.at \in Nat
        BY <2>3, <3>2, <3>3, <3>4
      <4>2. Spare(t.s.h, t.s.m, Rw, t.at, z) /\ Good(t.s.m, c)
        BY <3>2, <3>3, <3>4, <3>10
      <4>3. c.size + ChunkHdr <= t.s.h.blk[t.at].size
        BY <3>2, <3>3, <3>5, <3>6a, <3>9 DEF b
      <4> QED BY <1>3, <3>1, <3>9, <4>1, <4>2, <4>3, HandOutIs
    <3> QED BY <2>5, <3>3, <3>11, HeldIs
  <2> QED BY <2>4, <2>5
<1> QED BY <1>1, <1>4, <1>5

LEMMA SplitFreeIs ==
  ASSUME NEW s \in Pair, NEW Lv, NEW Rw, Own(s.h, s.m, Lv, Rw), NEW a \in Lv,
         NEW r, r = slabs_free(s, a), s.m.chunk[a].id = SplitId
  PROVE  r \in Pair /\ Own(r.h, r.m, Lv \ {a}, Rw)
<1> DEFINE g == s.h
           mm == s.m
           x == mm.chunk[a]
           q == shm_free(g, a)
           c == Restrict(mm.chunk, DOMAIN mm.chunk \ {a})
           z == mm.count - 1
           u == mm.used - x.size
           v == mm.reqs - x.req
           n == [mm EXCEPT !.count = z, !.used = u, !.reqs = v, !.chunk = c]
           Mv == Lv \ {a}
<1>1. r = [h |-> q, m |-> n]
  BY DEF slabs_free
<1>2. Seg(g) /\ MShape(mm) /\ Lay(g, mm, Lv, Rw) /\ Tidy(mm, Lv) /\ Stat(mm, Lv)
  BY DEF Own
<1>3. mm \in MgrRec
  BY <1>2 DEF MShape
<1>4. Lv \subseteq Cs(mm) /\ a \in Cs(mm) /\ a \in TakenOf(g) /\ a \in 0..(End - 1)
  <2>1. TakenOf(g) \subseteq 0..(End - 1)
    BY <1>2, Inside
  <2> QED BY <1>2, <2>1 DEF Lay
<1>5. z \in Int /\ u \in Int /\ v \in Int
  <2>1. mm.count \in Int /\ mm.reqs \in Int /\ mm.used \in Int
    BY <1>2, MShapeIs
  <2>2. x.size \in Nat /\ x.req \in Nat
    BY <1>2, <1>4, MShapeIs
  <2> HIDE DEF mm, x
  <2> QED BY <2>1, <2>2
<1>6. c \in Chs
  BY <1>3, MinusIs DEF MgrRec
<1> HIDE DEF c, z, u, v, q, mm
<1>7. /\ n.power = mm.power /\ n.max = mm.max /\ n.list = mm.list /\ n.chunk = c
      /\ n.used = u /\ n.reqs = v /\ n.free = mm.free /\ n.count = z
  BY <1>3 DEF MgrRec
<1>8. n \in MgrRec
  BY <1>3, <1>5, <1>6 DEF MgrRec
<1> HIDE DEF n
<1>9. MShape(n)
  BY <1>2, <1>7, <1>8, Reshaped DEF MShape
<1>10. Removed(mm, n, a)
  BY <1>7 DEF Removed, With, c, z, u, v
<1> HIDE DEF g
<1>11. /\ Cs(n) = Cs(mm) \ {a} /\ \A y \in Cs(n) : n.chunk[y] = mm.chunk[y]
       /\ Tidy(n, Mv) /\ Stat(n, Mv)
  BY <1>2, <1>4, <1>9, <1>10, GoneIs
<1>12. Seg(q) /\ Less(g, q, a)
  BY <1>2, <1>4, FreeIs DEF q
<1>13. Mv \subseteq Cs(n)
  BY <1>4, <1>11
<1>14. Lay(q, n, Mv, Rw)
  <2> HIDE DEF Mv
  <2> QED BY <1>2, <1>4, <1>11, <1>12, <1>13, LayLess
<1>15. q \in SegRec
  BY <1>12, Inside DEF Shape
<1> QED BY <1>1, <1>8, <1>9, <1>11, <1>12, <1>14, <1>15 DEF Own, Pair

LEMMA ClassFreeIs ==
  ASSUME NEW s \in Pair, NEW Lv, NEW Rw, Own(s.h, s.m, Lv, Rw), NEW a \in Lv,
         NEW r, r = slabs_free(s, a), s.m.chunk[a].id # SplitId
  PROVE  r \in Pair /\ Own(r.h, r.m, Lv \ {a}, Rw)
<1> DEFINE g == s.h
           mm == s.m
           x == mm.chunk[a]
           i == x.id
           l == [mm.list EXCEPT ![i] = <<a>> \o mm.list[i]]
           f == (mm.free + x.size) % Word
           u == mm.used - x.size
           v == mm.reqs - x.req
           n == [mm EXCEPT !.list = l]
           p == [n EXCEPT !.free = f, !.used = u, !.reqs = v]
           Mv == Lv \ {a}
           few == mm.used < class_size(mm, i)
<1>1. Seg(g) /\ MShape(mm) /\ Lay(g, mm, Lv, Rw) /\ Tidy(mm, Lv) /\ Stat(mm, Lv)
  BY DEF Own
<1>2. mm \in MgrRec /\ s \in Pair
  BY <1>1 DEF MShape
<1>3. Lv \subseteq Cs(mm) /\ a \in Cs(mm) /\ a \in TakenOf(g) /\ a \in 0..(End - 1) /\ a \in Nat
  <2>1. TakenOf(g) \subseteq 0..(End - 1)
    BY <1>1, Inside
  <2> QED BY <1>1, <2>1, Sizes DEF Lay
<1>4. i \in Classes(mm)
  <2>1. Good(mm, x)
    BY <1>1, <1>3 DEF Tidy
  <2> QED BY <2>1 DEF Good
<1>5. mm.list \in [Classes(mm) -> Seq(Nat)] /\ mm.free \in Int /\ x.size \in Nat
  BY <1>1, <1>3, MShapeIs
<1>6. l \in [Classes(mm) -> Seq(Nat)] /\ l \in Frees
  <2>1. <<a>> \o mm.list[i] \in Seq(Nat)
    BY <1>3, <1>4, <1>5
  <2>2. Classes(mm) \in SUBSET Nat
    BY <1>1, ClassesNat
  <2> HIDE DEF i
  <2> QED BY <1>4, <1>5, <2>1, <2>2 DEF Frees
<1>7. f \in Int /\ u \in Int /\ v \in Int
  <2>1. mm.free + x.size \in Int /\ Word \in Nat \ {0}
    <3>1. Word \in Nat \ {0}
      BY Consts
    <3> HIDE DEF mm, x
    <3> QED BY <1>5, <3>1
  <2>2. f \in Int
    BY <2>1
  <2>3. mm.used \in Int /\ mm.reqs \in Int /\ x.size \in Nat /\ x.req \in Nat
    BY <1>1, <1>3, MShapeIs
  <2> HIDE DEF x, mm
  <2>4. u \in Int /\ v \in Int
    BY <2>3
  <2> QED BY <2>2, <2>4
<1> DEFINE e == [s EXCEPT !.m = n]
           d == [s EXCEPT !.m = p]
<1>8. (few => r = e) /\ (~few => r = d)
  <2> DEFINE y == [s EXCEPT !.m.list[i] = <<a>> \o mm.list[i]]
             w == [y EXCEPT !.m.free = f, !.m.used = u, !.m.reqs = v]
  <2>1. r = IF few THEN y ELSE w
    BY DEF slabs_free
  <2>2. y = e
    BY <1>2 DEF Pair
  <2>3. e.m = n
    BY <1>2 DEF Pair
  <2> HIDE DEF n, f, u, v
  <2>4. [e EXCEPT !.m.free = f, !.m.used = u, !.m.reqs = v] = d
    BY <1>2, <2>3 DEF Pair
  <2> HIDE DEF y, e, d, few
  <2>5. w = d
    BY <2>2, <2>4
  <2> HIDE DEF w
  <2> HIDE DEF p, l, i, x, mm, g, Mv
  <2> QED BY <2>1, <2>2, <2>5
<1> HIDE DEF l, f, u, v, mm, e, d
<1>9. /\ n.power = mm.power /\ n.max = mm.max /\ n.list = l /\ n.chunk = mm.chunk
      /\ n.used = mm.used /\ n.reqs = mm.reqs /\ n.free = mm.free /\ n.count = mm.count
  BY <1>2 DEF MgrRec
<1>10. n \in MgrRec
  BY <1>2, <1>6 DEF MgrRec
<1> HIDE DEF n
<1>11. /\ p.power = mm.power /\ p.max = mm.max /\ p.list = l /\ p.chunk = mm.chunk
       /\ p.used = u /\ p.reqs = v /\ p.free = f /\ p.count = mm.count
  BY <1>9, <1>10 DEF MgrRec
<1>12. p \in MgrRec
  BY <1>7, <1>10 DEF MgrRec
<1> HIDE DEF p, x, g
<1>13. \E k \in {n, p} : /\ r.h = g /\ r.m = k /\ r \in Pair
                         /\ Forgotten(mm, k, a) \/ Settled(mm, k, a)
  <2>1. CASE few
    <3>1. r = [s EXCEPT !.m = n]
      BY <1>8, <2>1 DEF e
    <3>2. r.h = g /\ r.m = n /\ r \in Pair
      BY <1>2, <1>10, <3>1 DEF Pair, g
    <3>3. Forgotten(mm, n, a)
      BY <1>9, <2>1 DEF Forgotten, x
    <3> QED BY <3>2, <3>3
  <2>2. CASE ~few
    <3>1. r = [s EXCEPT !.m = p]
      BY <1>8, <2>2 DEF d
    <3>2. r.h = g /\ r.m = p /\ r \in Pair
      BY <1>2, <1>12, <3>1 DEF Pair, g
    <3>3. Settled(mm, p, a)
      BY <1>11 DEF Settled, x, u, v, f
    <3> QED BY <3>2, <3>3
  <2> QED BY <2>1, <2>2
<1>14. PICK k \in {n, p} : /\ r.h = g /\ r.m = k /\ r \in Pair
                           /\ Forgotten(mm, k, a) \/ Settled(mm, k, a)
  BY <1>13
<1>15. /\ k.power = mm.power /\ k.max = mm.max /\ k.list = l /\ k.chunk = mm.chunk
       /\ k.count = mm.count /\ k \in MgrRec
  BY <1>9, <1>10, <1>11, <1>12
<1>16. MShape(k)
  BY <1>1, <1>6, <1>15, Reshaped
<1>17. Filed(mm, k, mm.chunk[a].id, a) /\ mm.chunk[a].id \in Classes(mm)
  BY <1>4, <1>15 DEF Filed, l, x
<1>18. Cs(k) = Cs(mm) /\ Tidy(k, Mv) /\ Stat(k, Mv)
  <2>1. MShape(mm) /\ Tidy(mm, Lv) /\ Stat(mm, Lv) /\ Lv \subseteq Cs(mm) /\ a \in 0..(End - 1)
    BY <1>1, <1>3
  <2>2. Forgotten(mm, k, a) \/ Settled(mm, k, a)
    BY <1>14
  <2> QED BY <1>16, <1>17, <2>1, <2>2, FiledIs
<1>19. Lay(g, k, Mv, Rw)
  BY <1>1, <1>15, <1>18 DEF Lay
<1> QED BY <1>1, <1>14, <1>16, <1>18, <1>19 DEF Own

LEMMA SlabsFreeIs ==
  ASSUME NEW s \in Pair, NEW Lv, NEW Rw, Own(s.h, s.m, Lv, Rw), NEW a \in Lv,
         NEW r, r = slabs_free(s, a)
  PROVE  r \in Pair /\ Own(r.h, r.m, Lv \ {a}, Rw)
BY SplitFreeIs, ClassFreeIs

LEMMA SlabsCreateIs ==
  ASSUME NEW lin \in BOOLEAN, NEW power \in BOOLEAN, NEW max \in ItemMaxes,
         NEW r, r = slabs_create(lin, power, max)
  PROVE  Own(r.h, r.m, {}, {})
<1> DEFINE o == [power |-> power, max |-> max]
           n == ClassCount(o)
           g == shm_create(lin)
           p == shm_alloc(g, MgrSize)
           q == shm_alloc(p.h, ClassSize * n)
           l == [i \in 0..(n - 1) |-> <<>>]
           k == [power |-> power, max |-> max, list |-> l, chunk |-> <<>>,
                 used |-> 0, reqs |-> 0, free |-> 0, count |-> 0]
<1>1. r = [h |-> q.h, m |-> k]
  BY DEF slabs_create
<1>2. n \in Nat \ {0, 1} /\ MgrSize \in Nat /\ ClassSize \in Nat
  <2>1. o.power \in BOOLEAN /\ o.max \in ItemMaxes
    OBVIOUS
  <2> HIDE DEF o
  <2> QED BY <2>1, ClassCountIs, Consts
<1>3. ClassSize * n \in Nat
  <2> HIDE DEF n
  <2> QED BY <1>2
<1> HIDE DEF g, p, q
<1>4. Seg(g)
  BY CreateIs DEF g
<1>5. Seg(p.h)
  <2>1. Answer(g, p, MgrSize)
    BY <1>2, <1>4, AllocIs DEF p
  <2> QED BY <2>1 DEF Answer
<1>6. Seg(q.h)
  <2> DEFINE z == ClassSize * n
  <2>0. z \in Nat /\ q = shm_alloc(p.h, z)
    BY <1>3 DEF q
  <2> HIDE DEF z
  <2>1. Answer(p.h, q, z)
    BY <1>5, <2>0, AllocIs
  <2> QED BY <2>1 DEF Answer
<1>7. k.power = o.power /\ k.max = o.max
  OBVIOUS
<1> HIDE DEF o
<1>8. ClassCount(k) = n
  <2> HIDE DEF k
  <2> QED BY <1>7, SizeSame
<1>9. l \in [0..(n - 1) -> Seq(Nat)] /\ 0..(n - 1) \in SUBSET Nat
  BY <1>2
<1>10. l \in Frees
  BY <1>9 DEF Frees
<1>11. <<>> \in Chs
  <2>1. <<>> \in [{} -> Chunk] /\ {} \in SUBSET Nat
    OBVIOUS
  <2> QED BY <2>1 DEF Chs
<1>12. k \in MgrRec
  BY <1>10, <1>11 DEF MgrRec
<1>13. Classes(k) = 0..(n - 1) /\ DOMAIN k.list = 0..(n - 1)
  BY <1>8 DEF Classes
<1>14. MShape(k)
  BY <1>12, <1>13 DEF MShape
<1>15. Cs(k) = {}
  BY DEF Cs
<1>16. Lay(q.h, k, {}, {})
  BY <1>15 DEF Lay
<1>17. Tidy(k, {})
  <2>1. \A i \in Classes(k) : Once(k.list[i], Waiting(k, {}, i))
    <3> TAKE i \in Classes(k)
    <3>1. k.list[i] = <<>>
      BY <1>13
    <3>2. Waiting(k, {}, i) = {}
      BY <1>15 DEF Waiting
    <3>3. Once(<<>>, {})
      BY DEF Once
    <3> QED BY <3>1, <3>2, <3>3
  <2>2. IsFiniteSet(Cs(k)) /\ Cardinality(Cs(k)) = 0
    BY <1>15, FS_EmptySet
  <2> QED BY <1>15, <2>1, <2>2 DEF Tidy
<1>18. Stat(k, {})
  <2>1. Bytes(k, {}) = 0 /\ Asked(k, {}) = 0 /\ Cs(k) \ {} = {}
    BY <1>14, <1>15, BytesIs
  <2>2. k.used = 0 /\ k.reqs = 0 /\ k.free = 0
    OBVIOUS
  <2>3. Top(k) \in Nat /\ Top(k) > 0
    <3>1. 0 \in Classes(k)
      BY <1>2, <1>13
    <3> QED BY <1>14, <3>1, ClassIs
  <2>4. Cong(0, 0)
    BY Consts DEF Cong
  <2> HIDE DEF k
  <2>5. k.used - Bytes(k, {}) = 0 /\ k.reqs - Asked(k, {}) = 0
    BY <2>1, <2>2
  <2>6. Bytes(k, Cs(k) \ {}) - (k.used - Bytes(k, {})) = 0
    BY <2>1, <2>5
  <2> QED BY <2>2, <2>3, <2>4, <2>5, <2>6 DEF Stat
<1> QED BY <1>1, <1>6, <1>14, <1>16, <1>17, <1>18 DEF Own

-----------------------------------------------------------------------------
(* The specification. *)

(* The inductive invariant: a sound segment, and a manager whose chunks are*)
(* where they belong.                                                      *)
SlabsInv == Own(h, m, live, raw)

LEMMA PairIs ==
  ASSUME NEW g, NEW mm, NEW Lv, NEW Rw, Own(g, mm, Lv, Rw)
  PROVE  [h |-> g, m |-> mm] \in Pair
<1>1. g \in SegRec /\ mm \in MgrRec
  BY Inside DEF Own, MShape, Shape
<1> QED BY <1>1 DEF Pair

LEMMA RawMore ==
  ASSUME NEW g, NEW mm, NEW Lv, NEW Rw, Own(g, mm, Lv, Rw), NEW n \in Nat, NEW r,
         Answer(g, r, n)
  PROVE  Own(r.h, mm, Lv, Held(Rw, r.at))
<1>1. /\ Own(r.h, mm, Lv, Rw)
      /\ r.at # None => Spare(r.h, mm, Rw, r.at, n)
  BY OwnMore
<1>2. CASE r.at = None
  BY <1>1, <1>2, HeldIs
<1>3. CASE r.at # None
  <2>1. r.at \in TakenOf(r.h) /\ r.at \notin Cs(mm)
    BY <1>1, <1>3 DEF Spare
  <2>2. Lay(r.h, mm, Lv, Rw)
    BY <1>1 DEF Own
  <2>3. Lay(r.h, mm, Lv, Rw \cup {r.at})
    BY <2>1, <2>2 DEF Lay
  <2>4. Held(Rw, r.at) = Rw \cup {r.at}
    BY <1>3, HeldIs
  <2> QED BY <1>1, <2>3, <2>4 DEF Own
<1> QED BY <1>2, <1>3

LEMMA RawLess ==
  ASSUME NEW g, NEW mm, NEW Lv, NEW Rw, Own(g, mm, Lv, Rw), NEW a \in Rw,
         NEW q, q = shm_free(g, a)
  PROVE  Own(q, mm, Lv, Rw \ {a})
<1>1. Seg(g) /\ Lay(g, mm, Lv, Rw)
  BY DEF Own
<1>2. /\ Cs(mm) \cup Rw \subseteq TakenOf(g) /\ Cs(mm) \cap Rw = {} /\ Lv \subseteq Cs(mm)
      /\ \A x \in Cs(mm) : mm.chunk[x].size + ChunkHdr <= g.blk[x].size
  BY <1>1 DEF Lay
<1>3. Seg(q) /\ Less(g, q, a)
  BY <1>1, <1>2, FreeIs
<1>4. TakenOf(q) = TakenOf(g) \ {a} /\ \A x \in TakenOf(q) : q.blk[x].size = g.blk[x].size
  BY <1>3 DEF Less
<1>5. Cs(mm) \cup (Rw \ {a}) \subseteq TakenOf(q) /\ Cs(mm) \cap (Rw \ {a}) = {}
  BY <1>2, <1>4
<1>6. \A x \in Cs(mm) : mm.chunk[x].size + ChunkHdr <= q.blk[x].size
  BY <1>2, <1>4, <1>5
<1>7. Lay(q, mm, Lv, Rw \ {a})
  BY <1>2, <1>5, <1>6 DEF Lay
<1> QED BY <1>3, <1>7 DEF Own

LEMMA SlabsInvInit == Init => SlabsInv
<1> SUFFICES ASSUME Init PROVE SlabsInv
  OBVIOUS
<1>1. PICK lin \in BOOLEAN, power \in BOOLEAN, max \in ItemMaxes :
        \E s \in {slabs_create(lin, power, max)} :
          h = s.h /\ m = s.m /\ live = {} /\ raw = {}
  BY DEF Init
<1> DEFINE s == slabs_create(lin, power, max)
<1>2. h = s.h /\ m = s.m /\ live = {} /\ raw = {}
  BY <1>1
<1> HIDE DEF s
<1>3. Own(s.h, s.m, {}, {})
  BY SlabsCreateIs DEF s
<1> QED BY <1>2, <1>3 DEF SlabsInv

LEMMA SlabsInvNext == SlabsInv /\ [Next]_vars => SlabsInv'
<1> SUFFICES ASSUME SlabsInv, [Next]_vars PROVE Own(h', m', live', raw')
  BY DEF SlabsInv
<1>0. Own(h, m, live, raw) /\ Seg(h)
  BY DEF SlabsInv, Own
<1> DEFINE s == [h |-> h, m |-> m]
<1>1. S = s /\ s \in Pair /\ s.h = h /\ s.m = m
  BY <1>0, PairIs DEF S
<1>2. Reqs \subseteq Nat \ {0} /\ RawReqs \subseteq Nat \ {0}
  BY Consts
<1> HIDE DEF s
<1>3. Own(s.h, s.m, live, raw)
  BY <1>0, <1>1
<1>4. ASSUME NEW n \in Reqs, NEW act \in BOOLEAN, SlabsAlloc(n, act)
      PROVE  Own(h', m', live', raw')
  <2> DEFINE r == slabs_alloc(s, n, act)
  <2>1. h' = r.s.h /\ m' = r.s.m /\ live' = Held(live, r.at) /\ raw' = raw
    BY <1>1, <1>4 DEF SlabsAlloc, SlabsResult
  <2> HIDE DEF r
  <2>2. Own(r.s.h, r.s.m, Held(live, r.at), raw)
    BY <1>1, <1>2, <1>3, SlabsAllocIs DEF r
  <2> QED BY <2>1, <2>2
<1>5. ASSUME NEW n \in Reqs, NEW minn \in Reqs, SlabsSplitAlloc(n, minn)
      PROVE  Own(h', m', live', raw')
  <2> DEFINE r == slabs_split_alloc(s, n, minn)
  <2>1. h' = r.s.h /\ m' = r.s.m /\ live' = Held(live, r.at) /\ raw' = raw
    BY <1>1, <1>5 DEF SlabsSplitAlloc, SlabsResult
  <2> HIDE DEF r
  <2>2. Own(r.s.h, r.s.m, Held(live, r.at), raw)
    BY <1>1, <1>2, <1>3, SlabsSplitIs DEF r
  <2> QED BY <2>1, <2>2
<1>6. ASSUME NEW a \in live, SlabsFree(a) PROVE Own(h', m', live', raw')
  <2> DEFINE r == slabs_free(s, a)
  <2>1. h' = r.h /\ m' = r.m /\ live' = live \ {a} /\ raw' = raw
    BY <1>1, <1>6 DEF SlabsFree
  <2> HIDE DEF r
  <2>2. Own(r.h, r.m, live \ {a}, raw)
    BY <1>1, <1>3, SlabsFreeIs DEF r
  <2> QED BY <2>1, <2>2
<1>7. ASSUME NEW n \in RawReqs, ShmemAlloc(n) PROVE Own(h', m', live', raw')
  <2> DEFINE r == shm_alloc(h, n)
  <2>1. h' = r.h /\ raw' = Held(raw, r.at) /\ m' = m /\ live' = live
    BY <1>7 DEF ShmemAlloc, ShmemResult
  <2> HIDE DEF r
  <2>2. Answer(h, r, n)
    BY <1>0, <1>2, AllocIs DEF r
  <2>3. Own(r.h, m, live, Held(raw, r.at))
    BY <1>0, <1>2, <2>2, RawMore
  <2> QED BY <2>1, <2>3
<1>8. ASSUME NEW n \in RawReqs, ShmemSplitAlloc(n) PROVE Own(h', m', live', raw')
  <2> DEFINE r == shm_split_alloc(h, n)
  <2>1. h' = r.h /\ raw' = Held(raw, r.at) /\ m' = m /\ live' = live
    BY <1>8 DEF ShmemSplitAlloc, ShmemResult
  <2> HIDE DEF r
  <2>2. Answer(h, r, n)
    BY <1>0, <1>2, SplitAllocIs DEF r
  <2>3. Own(r.h, m, live, Held(raw, r.at))
    BY <1>0, <1>2, <2>2, RawMore
  <2> QED BY <2>1, <2>3
<1>9. ASSUME NEW a \in raw, ShmemFree(a) PROVE Own(h', m', live', raw')
  <2> DEFINE q == shm_free(h, a)
  <2>1. h' = q /\ raw' = raw \ {a} /\ m' = m /\ live' = live
    BY <1>9 DEF ShmemFree
  <2> HIDE DEF q
  <2>2. Own(q, m, live, raw \ {a})
    BY <1>0, RawLess DEF q
  <2> QED BY <2>1, <2>2
<1>10. CASE UNCHANGED vars
  BY <1>0, <1>10 DEF vars
<1>11. CASE Next
  BY <1>4, <1>5, <1>6, <1>7, <1>8, <1>9, <1>11 DEF Next
<1> QED BY <1>10, <1>11

LEMMA CachedIs == SlabsInv => Cached = Cs(m) \ live
<1> SUFFICES ASSUME SlabsInv PROVE Cached = Cs(m) \ live
  OBVIOUS
<1>1. MShape(m) /\ Tidy(m, live)
  BY DEF SlabsInv, Own
<1>2. DOMAIN m.list = Classes(m)
  BY <1>1 DEF MShape
<1>3. \A i \in Classes(m) : ToSet(m.list[i]) = Waiting(m, live, i)
  BY <1>1, OnceSet DEF Tidy
<1>4. \A a \in Cs(m) \ live : m.chunk[a].id \in Classes(m)
  BY <1>1 DEF Tidy
<1> QED BY <1>2, <1>3, <1>4 DEF Cached, Waiting

LEMMA OwnedFromInv == SlabsInv => ChunksOwned
<1> SUFFICES ASSUME SlabsInv PROVE ChunksOwned
  OBVIOUS
<1>1. MShape(m) /\ Tidy(m, live) /\ Lay(h, m, live, raw)
  BY DEF SlabsInv, Own
<1>2. Cached = Cs(m) \ live /\ Cs(m) = DOMAIN m.chunk
  BY CachedIs DEF Cs
<1>3. /\ live \subseteq Cs(m) /\ Cs(m) \cup raw \subseteq TakenOf(h) /\ Cs(m) \cap raw = {}
      /\ \A a \in Cs(m) : m.chunk[a].size + ChunkHdr <= h.blk[a].size
  BY <1>1 DEF Lay
<1>4. TakenOf(h) = Storages \ FreeSt
  BY DEF TakenOf, FreeOf, D, Storages, FreeSt
<1>5. DOMAIN m.list = Classes(m)
  BY <1>1 DEF MShape
<1>6. \A i \in DOMAIN m.list : /\ IsInjective(m.list[i])
                               /\ \A a \in ToSet(m.list[i]) : m.chunk[a].id = i
  <2> TAKE i \in DOMAIN m.list
  <2>1. Once(m.list[i], Waiting(m, live, i))
    BY <1>1, <1>5 DEF Tidy
  <2>2. ToSet(m.list[i]) = Waiting(m, live, i) /\ IsInjective(m.list[i])
    BY <2>1, OnceSet
  <2> QED BY <2>2 DEF Waiting
<1>7. \A a \in Cs(m) : Good(m, m.chunk[a])
  BY <1>1 DEF Tidy
<1>8. \A a \in Cs(m) : /\ m.chunk[a].req <= m.chunk[a].size
                       /\ \A i \in 0..(m.chunk[a].id - 1) : m.chunk[a].req + ChunkHdr > class_size(m, i)
  BY <1>7 DEF Good
<1>9. m.count = Cardinality(Cs(m))
  BY <1>1 DEF Tidy
<1>10. DOMAIN m.chunk = live \cup Cached /\ live \cap Cached = {} /\ live \cap raw = {}
  BY <1>2, <1>3
<1>11. raw \subseteq Storages \ FreeSt /\ \A a \in Cs(m) : a \in Storages \ FreeSt
  BY <1>3, <1>4
<1> QED BY <1>2, <1>3, <1>6, <1>8, <1>9, <1>10, <1>11 DEF ChunksOwned

LEMMA DriftFromInv == SlabsInv => DriftBounded
<1> SUFFICES ASSUME SlabsInv PROVE DriftBounded
  OBVIOUS
<1>1. MShape(m) /\ Stat(m, live) /\ Lay(h, m, live, raw)
  BY DEF SlabsInv, Own
<1>2. Cached = Cs(m) \ live
  BY CachedIs
<1>3. live \subseteq Cs(m) /\ Cs(m) \ live \subseteq Cs(m)
  BY <1>1 DEF Lay
<1>4. Bytes(m, live) \in Nat /\ Bytes(m, Cs(m) \ live) \in Nat /\ m.used \in Int
  BY <1>1, <1>3, BytesIs, MShapeIs
<1>5. Bytes(m, Cs(m) \ live) - (m.used - Bytes(m, live)) \in Int
  BY <1>4
<1>6. /\ m.used - Bytes(m, live) \in 0..(Top(m) - 1)
      /\ Cong(m.free, Bytes(m, Cs(m) \ live) - (m.used - Bytes(m, live)))
      /\ m.reqs - Asked(m, live) \in 0..(m.used - Bytes(m, live))
  BY <1>1 DEF Stat
<1>7. m.free = (Bytes(m, Cs(m) \ live) - (m.used - Bytes(m, live))) % Word
  BY <1>5, <1>6, CongMod
<1>8. /\ Bytes(m, live) = SumOver(live, [a \in live |-> m.chunk[a].size])
      /\ Bytes(m, Cs(m) \ live) = SumOver(Cached, [a \in Cached |-> m.chunk[a].size])
      /\ Asked(m, live) = SumOver(live, [a \in live |-> m.chunk[a].req])
      /\ Top(m) = class_size(m, ClassCount(m) - 1)
  BY <1>2 DEF Bytes, Asked, Top
<1> QED BY <1>6, <1>7, <1>8 DEF DriftBounded

-----------------------------------------------------------------------------
(* The levels are monotone in the size. *)

LEMMA LogAgree ==
  ASSUME NEW n \in Nat, NEW k \in 0..n, NEW f, NEW g, IsLog(f, n), IsLog(g, k)
  PROVE  f[k] = g[k]
<1>1. \A y \in 0..n : f[y] = IF y <= 1 THEN 0 ELSE 1 + f[y \div 2]
  BY DEF IsLog
<1>2. \A y \in 0..k : g[y] = IF y <= 1 THEN 0 ELSE 1 + g[y \div 2]
  BY DEF IsLog
<1> DEFINE Bad == {y \in 0..k : f[y] # g[y]}
<1>3. Bad = {}
  <2> SUFFICES ASSUME Bad # {} PROVE FALSE
    OBVIOUS
  <2>1. PICK y \in Bad : \A j \in Bad : y <= j
    <3>1. Bad \in SUBSET Nat
      OBVIOUS
    <3> HIDE DEF Bad
    <3> QED BY <3>1, LeastNat
  <2>2. y \in 0..k /\ y \in 0..n /\ f[y] # g[y]
    BY <2>1
  <2>3. CASE y <= 1
    BY <1>1, <1>2, <2>2, <2>3
  <2>4. CASE ~(y <= 1)
    <3>1. y \div 2 \in 0..k /\ ~(y <= y \div 2)
      BY <2>2, <2>4
    <3>2. f[y \div 2] = g[y \div 2]
      BY <2>1, <3>1
    <3> QED BY <1>1, <1>2, <2>2, <2>4, <3>2
  <2> QED BY <2>3, <2>4
<1> QED BY <1>3

LEMMA LogStep ==
  ASSUME NEW n \in Nat
  PROVE  log2down(n) = IF n <= 1 THEN 0 ELSE 1 + log2down(n \div 2)
<1>1. PICK f : IsLog(f, n) /\ log2down(n) = f[n]
  BY LogIs
<1> DEFINE k == n \div 2
<1>2. k \in Nat /\ k \in 0..n
  OBVIOUS
<1>3. f[n] = IF n <= 1 THEN 0 ELSE 1 + f[k]
  BY <1>1 DEF IsLog
<1> HIDE DEF k
<1>4. PICK g : IsLog(g, k) /\ log2down(k) = g[k]
  BY <1>2, LogIs
<1>5. f[k] = g[k]
  BY <1>1, <1>2, <1>4, LogAgree
<1>6. log2down(n) = IF n <= 1 THEN 0 ELSE 1 + log2down(k)
  BY <1>1, <1>3, <1>4, <1>5
<1> QED BY <1>6 DEF k

LEMMA LogMono ==
  ASSUME NEW x \in Nat, NEW y \in Nat, x <= y
  PROVE  log2down(x) <= log2down(y)
<1> DEFINE Bad == {n \in Nat : ~\A k \in 0..n : log2down(k) <= log2down(n)}
<1>1. Bad = {}
  <2> SUFFICES ASSUME Bad # {} PROVE FALSE
    OBVIOUS
  <2>1. PICK n \in Bad : \A j \in Bad : n <= j
    <3>1. Bad \in SUBSET Nat
      OBVIOUS
    <3> HIDE DEF Bad
    <3> QED BY <3>1, LeastNat
  <2>2. PICK k \in 0..n : ~(log2down(k) <= log2down(n))
    BY <2>1
  <2>3. n \in Nat /\ k \in Nat /\ k <= n
    BY <2>1, <2>2
  <2>4. /\ log2down(n) = IF n <= 1 THEN 0 ELSE 1 + log2down(n \div 2)
        /\ log2down(k) = IF k <= 1 THEN 0 ELSE 1 + log2down(k \div 2)
    BY <2>3, LogStep
  <2>5. log2down(n) \in Nat /\ log2down(k) \in Nat
    BY <2>3, LogNat
  <2>6. ~(k <= 1)
    BY <2>2, <2>4, <2>5
  <2> DEFINE a == k \div 2
             b == n \div 2
  <2>7. a \in Nat /\ b \in Nat /\ a <= b /\ ~(n <= b) /\ ~(n <= 1)
    BY <2>3, <2>6
  <2>8. log2down(n) = 1 + log2down(b) /\ log2down(k) = 1 + log2down(a)
    BY <2>4, <2>6, <2>7
  <2> HIDE DEF a, b
  <2>9. b \notin Bad
    BY <2>1, <2>7
  <2>10. log2down(a) <= log2down(b)
    BY <2>7, <2>9
  <2>11. log2down(a) \in Nat /\ log2down(b) \in Nat
    BY <2>7, LogNat
  <2> QED BY <2>2, <2>8, <2>10, <2>11
<1> QED BY <1>1

LEMMA DivMono ==
  ASSUME NEW a \in Nat, NEW b \in Nat, a <= b, NEW w \in Nat \ {0}
  PROVE  a \div w <= b \div w
<1> DEFINE p == a \div w
           q == b \div w
<1>1. p \in Nat /\ p * w <= a
  BY DivIs
<1>2. q \in Nat /\ b < q * w + w
  BY DivIs
<1> HIDE DEF p, q
<1>3. p * w \in Nat /\ q * w \in Nat
  BY <1>1, <1>2
<1>4. p * w < q * w + w
  BY <1>1, <1>2, <1>3
<1>5. p <= q
  BY <1>1, <1>2, <1>4, MulLess
<1> QED BY <1>5 DEF p, q

LEMMA InsertIs ==
  ASSUME NEW g, g.linear \in BOOLEAN, NEW z \in Nat
  PROVE  /\ z <= MinSize => get_insert_index(g, z) = 0
         /\ z > MinSize /\ ~g.linear => get_insert_index(g, z) = log2down(z \div MinSize)
<1> DEFINE y == z \div MinSize
           no == FALSE
<1>0. MinSize \in Nat
  BY Sizes
<1>1. y \in Nat
  BY DivIs, Sizes
<1>2. dfslog2(y, FALSE) = log2down(y)
  <2>1. log2down(y) \in Nat
    BY <1>1, LogNat
  <2> HIDE DEF y
  <2> QED BY <2>1 DEF dfslog2
<1> HIDE DEF y
<1>3. get_insert_index(g, z) = IF z <= MinSize THEN 0
        ELSE IF g.linear THEN (z - MinSize) \div Factor ELSE log2down(y)
  BY <1>2 DEF get_insert_index, y
<1>4. z > MinSize => ~(z <= MinSize)
  BY <1>0
<1> QED BY <1>3, <1>4 DEF y

LEMMA LinearInsert ==
  ASSUME NEW g, g.linear, NEW z \in Nat, z > MinSize
  PROVE  get_insert_index(g, z) = (z - MinSize) \div Factor
<1>1. ~(z <= MinSize)
  BY Sizes
<1> QED BY <1>1 DEF get_insert_index

LEMMA InsertMono ==
  ASSUME NEW g, g.linear \in BOOLEAN, NEW a \in Nat, NEW b \in Nat, a <= b
  PROVE  get_insert_index(g, a) <= get_insert_index(g, b)
<1>0. MinSize \in Nat \ {0} /\ Factor \in Nat \ {0}
  BY Sizes
<1>1. get_insert_index(g, a) \in Nat /\ get_insert_index(g, b) \in Nat
  BY LevelType
<1>2. CASE a <= MinSize
  BY <1>1, <1>2, InsertIs
<1>3. CASE a > MinSize /\ g.linear
  <2>1. b > MinSize
    BY <1>0, <1>3
  <2>2. a - MinSize \in Nat /\ b - MinSize \in Nat /\ a - MinSize <= b - MinSize
    BY <1>0, <1>3, <2>1
  <2>3. (a - MinSize) \div Factor <= (b - MinSize) \div Factor
    BY <1>0, <2>2, DivMono
  <2>4. get_insert_index(g, a) = (a - MinSize) \div Factor
    BY <1>3, LinearInsert
  <2>5. get_insert_index(g, b) = (b - MinSize) \div Factor
    BY <1>3, <2>1, LinearInsert
  <2> QED BY <2>3, <2>4, <2>5
<1>4. CASE a > MinSize /\ ~g.linear
  <2>1. b > MinSize
    BY <1>0, <1>4
  <2>2. a \div MinSize \in Nat /\ b \div MinSize \in Nat /\ a \div MinSize <= b \div MinSize
    BY <1>0, DivIs, DivMono
  <2>3. log2down(a \div MinSize) <= log2down(b \div MinSize)
    BY <2>2, LogMono
  <2>4. /\ get_insert_index(g, a) = log2down(a \div MinSize)
        /\ get_insert_index(g, b) = log2down(b \div MinSize)
    BY <1>4, <2>1, InsertIs
  <2> QED BY <2>3, <2>4
<1> QED BY <1>0, <1>2, <1>3, <1>4

(* Every storage of the first level that is searched is large enough. *)
LEMMA AllocFits ==
  ASSUME NEW g, g.linear \in BOOLEAN, NEW n \in Nat, n > MinSize, NEW z \in Nat,
         get_alloc_index(g, n) <= get_insert_index(g, z)
  PROVE  n <= z
<1>0. MinSize \in Nat \ {0} /\ Factor \in Nat \ {0} /\ ~(n <= MinSize)
  BY Sizes
<1> DEFINE i == get_alloc_index(g, n)
           j == get_insert_index(g, z)
<1>1. i \in Nat /\ j \in Nat /\ i <= j
  BY LevelType, AllocIndexNat
<1>2. CASE g.linear
  <2> DEFINE x == n - MinSize
             c == CeilDiv(x, Factor)
  <2>1. x \in Nat /\ x > 0
    BY <1>0
  <2>2. i = c
    BY <1>0, <1>2 DEF get_alloc_index
  <2>3. c \in Nat /\ c > 0 /\ x <= c * Factor /\ c * Factor \in Nat
    <3> HIDE DEF x
    <3> QED BY <1>0, <2>1, CeilIs, CeilNat
  <2> HIDE DEF c
  <2>4. z > MinSize
    <3>1. j # 0
      BY <1>1, <2>2, <2>3
    <3> QED BY <1>0, <3>1, InsertIs
  <2> DEFINE y == z - MinSize
             d == y \div Factor
  <2>5. y \in Nat /\ j = d
    <3>1. y \in Nat
      BY <1>0, <2>4
    <3>2. j = d
      BY <1>2, <2>4, LinearInsert
    <3> QED BY <3>1, <3>2
  <2>6. d \in Nat /\ d * Factor <= y
    <3> HIDE DEF y
    <3> QED BY <1>0, <2>5, DivIs
  <2> HIDE DEF d
  <2>7. c <= d
    BY <1>1, <2>2, <2>5
  <2>8. c * Factor <= d * Factor /\ d * Factor \in Nat
    BY <1>0, <2>3, <2>6, <2>7, MulMono
  <2>9. x <= y
    <3> HIDE DEF x, y
    <3> QED BY <2>1, <2>3, <2>5, <2>6, <2>8
  <2> QED BY <1>0, <2>9
<1>3. CASE ~g.linear
  <2> DEFINE c == CeilDiv(n, MinSize)
             y == z \div MinSize
             lc == log2down(c)
             lb == log2down(c - 1)
             ly == log2down(y)
  <2>1. c \in Nat /\ n <= c * MinSize /\ c * MinSize \in Nat
    BY <1>0, CeilIs
  <2>2. y \in Nat /\ y * MinSize <= z /\ y * MinSize \in Nat
    BY <1>0, DivIs
  <2>3. i = dfslog2(c, TRUE)
    BY <1>0, <1>3 DEF get_alloc_index
  <2> HIDE DEF c, y
  <2>4. c >= 2
    <3>1. c # 0
      BY <1>0, <2>1
    <3>2. c # 1
      BY <1>0, <2>1
    <3> QED BY <2>1, <3>1, <3>2
  <2>5. c - 1 \in Nat /\ c > 1
    BY <2>1, <2>4
  <2>6. lc \in Nat /\ lb \in Nat /\ ly \in Nat
    BY <2>1, <2>2, <2>5, LogNat
  <2>7. lc >= 1
    <3>1. lc = 1 + log2down(c \div 2) /\ c \div 2 \in Nat
      BY <2>1, <2>4, LogStep
    <3>2. log2down(c \div 2) \in Nat
      BY <3>1, LogNat
    <3> QED BY <3>1, <3>2
  <2>8. i = IF lc = lb THEN lc + 1 ELSE lc
    <3> DEFINE same == c > 1 /\ lc = lb
               e == IF same THEN 1 ELSE 0
    <3>1. dfslog2(c, TRUE) = lc + e
      BY DEF dfslog2
    <3>2. lc = lb => e = 1
      BY <2>5
    <3>3. lc # lb => e = 0
      OBVIOUS
    <3> HIDE DEF lc, lb, e
    <3>4. i = lc + e
      BY <2>3, <3>1
    <3> HIDE DEF i
    <3>5. CASE lc = lb
      BY <3>2, <3>4, <3>5
    <3>6. CASE lc # lb
      <4>1. e = 0
        BY <3>3, <3>6
      <4>2. i = lc
        BY <2>6, <3>4, <4>1
      <4> QED BY <3>6, <4>2
    <3> QED BY <3>5, <3>6
  <2>9. z > MinSize
    <3>1. j # 0
      <4> HIDE DEF lc, lb
      <4> QED BY <1>1, <2>6, <2>7, <2>8
    <3> QED BY <1>0, <3>1, InsertIs
  <2>10. j = ly
    BY <1>3, <2>9, InsertIs DEF y
  <2>11. lb <= lc
    BY <2>1, <2>5, LogMono
  <2>12. c <= y
    <3> SUFFICES ASSUME ~(c <= y) PROVE FALSE
      OBVIOUS
    <3>1. y <= c - 1
      BY <2>1, <2>2
    <3>2. ly <= lb
      BY <2>2, <2>5, <3>1, LogMono
    <3> HIDE DEF lc, lb, ly
    <3> QED BY <1>1, <2>6, <2>8, <2>10, <2>11, <3>2
  <2>13. c * MinSize <= y * MinSize
    BY <1>0, <2>1, <2>2, <2>12, MulMono
  <2> QED BY <1>0, <2>1, <2>2, <2>13
<1> QED BY <1>2, <1>3

-----------------------------------------------------------------------------
(* A search that fails: FirstFit and clsid tell the truth. *)

LEMMA LevelMono ==
  ASSUME NEW g, g.linear \in BOOLEAN, NEW a \in Nat, NEW b \in Nat, a <= b
  PROVE  LevelOf(g, a) <= LevelOf(g, b) /\ LevelOf(g, b) <= get_insert_index(g, b)
<1>1. get_insert_index(g, a) <= get_insert_index(g, b)
  BY InsertMono
<1>2. FreeLen(g) \in Nat /\ get_insert_index(g, a) \in Nat /\ get_insert_index(g, b) \in Nat
  BY LevelType
<1>3. LevelOf(g, a) = IF get_insert_index(g, a) <= FreeLen(g) - 1
                      THEN get_insert_index(g, a) ELSE FreeLen(g) - 1
  BY LevelType
<1>4. LevelOf(g, b) = IF get_insert_index(g, b) <= FreeLen(g) - 1
                      THEN get_insert_index(g, b) ELSE FreeLen(g) - 1
  BY LevelType
<1> DEFINE ia == get_insert_index(g, a)
           ib == get_insert_index(g, b)
           la == LevelOf(g, a)
           lb == LevelOf(g, b)
           fl == FreeLen(g)
<1>5. ia <= ib /\ fl \in Nat /\ ia \in Nat /\ ib \in Nat
      /\ la = (IF ia <= fl - 1 THEN ia ELSE fl - 1)
      /\ lb = (IF ib <= fl - 1 THEN ib ELSE fl - 1)
  BY <1>1, <1>2, <1>3, <1>4
<1>6. la <= lb /\ lb <= ib
  <2> HIDE DEF ia, ib, la, lb, fl
  <2> QED BY <1>5
<1> QED BY <1>6

(* A level in use has a storage; one that is searched in vain only small   *)
(* ones.                                                                   *)
LEMMA InVain ==
  ASSUME NEW g, Seg(g), NEW n \in Nat, FirstFit(g, n) = None,
         NEW l \in InUse(g), l = SearchLevel(g, n)
  PROVE  /\ \A x \in AtLevel(g, FreeOf(g), l) : g.blk[x].size < n
         /\ \E x \in FreeOf(g) : Level(g, x) = l
<1> DEFINE X == FreeOf(g)
           k == Fit(g, l, n)
<1>1. Shape(g) /\ Lists(g, X)
  BY DEF Seg, Body
<1>2. l \in Levels(g) /\ l # None
  <2>1. l \in Levels(g)
    BY DEF InUse
  <2>2. FreeLen(g) \in Nat
    BY <1>1, ShapeIs, LevelType
  <2> QED BY <2>1, <2>2 DEF Levels, None
<1>3. k = 0 \/ ~Removable(g, g.free[l][k]) \/ g.free[l][k] = None
  BY <1>2 DEF FirstFit, Fit
<1> HIDE DEF k
<1>4. /\ k # 0 => g.free[l][k] \in AtLevel(g, X, l)
      /\ k = 0 => \A x \in AtLevel(g, X, l) : ~(g.blk[x].size >= n)
  BY <1>1, <1>2, FitIs DEF k
<1>5. k = 0
  <2> SUFFICES ASSUME k # 0 PROVE FALSE
    OBVIOUS
  <2>1. g.free[l][k] \in X
    BY <1>4 DEF AtLevel
  <2>2. Removable(g, g.free[l][k])
    BY <1>1, <2>1, Listing
  <2>3. g.free[l][k] \in D(g)
    BY <2>1 DEF FreeOf
  <2>4. g.free[l][k] # None
    BY <1>1, <2>3, NoneOutside
  <2> QED BY <1>3, <2>2, <2>4
<1>6. \A x \in AtLevel(g, X, l) : g.blk[x].size < n
  <2> TAKE x \in AtLevel(g, X, l)
  <2>1. x \in D(g)
    BY DEF AtLevel, FreeOf
  <2>2. g.blk[x].size \in Nat
    BY <1>1, <2>1, BlockIs
  <2> QED BY <1>4, <1>5, <2>2
<1>7. AtLevel(g, X, l) # {}
  <2>1. Once(g.free[l], AtLevel(g, X, l)) /\ g.free[l] # <<>>
    BY <1>1, <1>2 DEF Lists, InUse
  <2> QED BY <2>1, OnceSet
<1> QED BY <1>6, <1>7 DEF AtLevel

LEMMA NoRoomIs ==
  ASSUME NEW g, Seg(g), NEW n \in Nat \ {0}, FirstFit(g, n) = None
  PROVE  NoRoom(g, n)
<1> DEFINE X == FreeOf(g)
           i == get_alloc_index(g, n)
           l == SearchLevel(g, n)
           k == Used(g, i)
<1>1. Shape(g) /\ Lists(g, X) /\ g.linear \in BOOLEAN
  BY ShapeIs DEF Seg, Body
<1>2. \A x \in X : x \in D(g) /\ g.blk[x].size \in Nat /\ Level(g, x) = LevelOf(g, g.blk[x].size)
  BY <1>1, BlockIs DEF FreeOf, Level
<1>3. SUFFICES ASSUME NEW b \in X, g.blk[b].size >= n,
                      n <= MinSize => \A x \in X : ~(g.blk[x].size < n)
               PROVE  FALSE
  <2>1. \A x \in X : g.blk[x].size \in Nat
    BY <1>2
  <2>2. \/ \A x \in X : g.blk[x].size < n
        \/ n <= MinSize /\ \E x \in X : g.blk[x].size < n
    BY <1>3, <2>1
  <2> DEFINE small == {x \in X : g.blk[x].size < n}
  <2>3. small = X \/ (n <= MinSize /\ small # {})
    BY <2>2
  <2> QED BY <2>3 DEF NoRoom, FreeOf, D
<1>4. Level(g, b) \in InUse(g) /\ b \in AtLevel(g, X, Level(g, b))
  BY <1>1, Listing
<1>5. g.top \in InUse(g) /\ Level(g, b) <= g.top
  BY <1>1, <1>4, TopIs
<1>6. FreeLen(g) \in Nat /\ InUse(g) \subseteq 0..(FreeLen(g) - 1) /\ i \in Nat
  BY <1>1, LevelType, AllocIndexNat DEF InUse, Levels
<1>7. l = IF i >= g.top THEN g.top
          ELSE IF g.free[i] # <<>> THEN i
          ELSE IF k = 0 THEN None ELSE g.avail[k]
  <2>1. g.top # FreeLen(g)
    BY <1>5, <1>6
  <2> QED BY <2>1 DEF SearchLevel, Used
<1>8. /\ k # 0 => g.avail[k] \in InUse(g) /\ g.avail[k] > i
      /\ k = 0 => \A j \in InUse(g) : ~(j > i)
  BY <1>1, UsedIs
<1> HIDE DEF i, k, l
<1>9. /\ l \in InUse(g)
      /\ l = g.top \/ l >= i
  <2>1. CASE i >= g.top
    BY <1>5, <1>7, <2>1
  <2>2. CASE ~(i >= g.top) /\ g.free[i] # <<>>
    <3>1. l = i
      BY <1>7, <2>2
    <3>2. i \in 0..(FreeLen(g) - 1)
      BY <1>5, <1>6, <2>2
    <3> QED BY <1>6, <2>2, <3>1, <3>2 DEF InUse, Levels
  <2>3. CASE ~(i >= g.top) /\ g.free[i] = <<>>
    <3>1. g.top > i
      BY <1>5, <1>6, <2>3
    <3>2. k # 0
      BY <1>5, <1>8, <3>1
    <3>3. l = g.avail[k]
      BY <1>7, <2>3, <3>2
    <3>4. l \in InUse(g) /\ l > i
      BY <1>8, <3>2, <3>3
    <3> QED BY <1>6, <3>4
  <2> QED BY <2>1, <2>2, <2>3
<1>10. /\ \A x \in AtLevel(g, X, l) : g.blk[x].size < n
       /\ \E x \in X : Level(g, x) = l
  BY <1>9, InVain DEF l
<1>11. PICK x \in X : Level(g, x) = l
  BY <1>10
<1>12. x \in AtLevel(g, X, l)
  BY <1>11 DEF AtLevel
<1>13. g.blk[x].size < n /\ g.blk[x].size \in Nat /\ g.blk[b].size \in Nat
  BY <1>2, <1>10, <1>12
<1>14. n > MinSize
  <2>1. ~(n <= MinSize)
    BY <1>3, <1>13
  <2> QED BY <2>1, Sizes
<1>15. CASE l = g.top
  <2>1. g.blk[x].size <= g.blk[b].size
    BY <1>3, <1>13
  <2>2. LevelOf(g, g.blk[x].size) <= LevelOf(g, g.blk[b].size)
    BY <1>1, <1>13, <2>1, LevelMono
  <2>3. g.top <= Level(g, b)
    BY <1>2, <1>11, <1>15, <2>2
  <2>4. Level(g, b) = g.top
    BY <1>4, <1>5, <1>6, <2>3
  <2>5. g.blk[b].size < n
    BY <1>4, <1>10, <1>15, <2>4
  <2> QED BY <1>3, <1>13, <2>5
<1>16. CASE l >= i
  <2> DEFINE z == g.blk[x].size
  <2>1. LevelOf(g, z) <= get_insert_index(g, z)
    BY <1>1, <1>13, LevelMono
  <2>2. get_insert_index(g, z) \in Nat /\ LevelOf(g, z) = l
    BY <1>1, <1>2, <1>11, <1>13, LevelType
  <2> HIDE DEF z
  <2>3. i <= get_insert_index(g, z)
    BY <1>6, <1>9, <1>16, <2>1, <2>2
  <2>4. n <= z
    BY <1>1, <1>13, <1>14, <2>3, AllocFits DEF i, z
  <2> QED BY <1>13, <2>4 DEF z
<1> QED BY <1>9, <1>15, <1>16

-----------------------------------------------------------------------------
(* A request that shs_slabs_alloc refuses. *)

LEMMA ClasslessIs ==
  ASSUME MShape(m), NEW n \in Nat \ {0}, clsid(m, n) = InvalidId
  PROVE  Classless(n)
<1>1. m.power \in BOOLEAN /\ m.max \in ItemMaxes /\ ChunkHdr \in Nat
  BY MShapeIs, Consts
<1>2. DOMAIN m.list = Classes(m)
  BY DEF MShape
<1>3. \A i \in Classes(m) : i # InvalidId /\ i \in Nat /\ class_size(m, i) \in Nat
        /\ class_size(m, i) <= Top(m) /\ Top(m) \in Nat
  BY ClassIs
<1>4. \/ n + ChunkHdr > Top(m)
      \/ /\ m.power /\ ClassCount(m) = 2 /\ class_size(m, 0) < n + ChunkHdr
         /\ ALIGNMENT(n + ChunkHdr) # class_size(m, 1)
  BY <1>1, <1>3, ClsidIs DEF Top
<1>5. CASE n + ChunkHdr > Top(m)
  <2>1. \A i \in Classes(m) : ~(n + ChunkHdr <= class_size(m, i))
    BY <1>1, <1>3, <1>5
  <2> QED BY <1>2, <2>1 DEF Classless, Fitting
<1>6. CASE /\ m.power /\ ClassCount(m) = 2 /\ class_size(m, 0) < n + ChunkHdr
           /\ ALIGNMENT(n + ChunkHdr) # class_size(m, 1)
  <2>1. Classes(m) = {0, 1}
    BY <1>6 DEF Classes
  <2>2. ~(n + ChunkHdr <= class_size(m, 0))
    BY <1>1, <1>3, <1>6, <2>1
  <2>3. Fitting(n) = {} \/ Fitting(n) = {1}
    BY <1>2, <2>1, <2>2 DEF Fitting
  <2> QED BY <1>6, <2>3 DEF Classless
<1> QED BY <1>4, <1>5, <1>6

LEMMA SmallestIs ==
  ASSUME MShape(m), NEW n \in Nat \ {0}, NEW id \in Classes(m),
         ClassFor(m, n + ChunkHdr, id)
  PROVE  Min({class_size(m, i) : i \in Fitting(n)}) = class_size(m, id)
<1> DEFINE F == Fitting(n)
           Z == {class_size(m, i) : i \in F}
<1>1. m.power \in BOOLEAN /\ ChunkHdr \in Nat
  BY MShapeIs, Consts
<1>2. \A i \in Classes(m) : i \in Nat /\ class_size(m, i) \in Nat
  BY ClassIs
<1>3. F = {i \in Classes(m) : n + ChunkHdr <= class_size(m, i)}
  BY DEF MShape, Fitting
<1>4. id \in F
  BY <1>3 DEF ClassFor
<1>5. ASSUME NEW i \in F PROVE class_size(m, id) <= class_size(m, i)
  <2>1. i \in Nat /\ id \in Nat /\ class_size(m, i) \in Nat /\ class_size(m, id) \in Nat
        /\ n + ChunkHdr <= class_size(m, i)
    BY <1>2, <1>3
  <2>2. ~(i < id)
    <3> SUFFICES ASSUME i < id PROVE FALSE
      OBVIOUS
    <3>1. i \in 0..(id - 1)
      BY <2>1
    <3>2. class_size(m, i) < n + ChunkHdr
      BY <3>1 DEF ClassFor
    <3> QED BY <1>1, <2>1, <3>2
  <2>3. CASE i = id
    BY <2>1, <2>3
  <2>4. CASE id < i
    <3>1. class_size(m, id) < class_size(m, i)
      BY <1>1, <2>1, <2>4, ClassSizeMono
    <3> QED BY <2>1, <3>1
  <2> QED BY <2>1, <2>2, <2>3, <2>4
<1>6. Z \in SUBSET Nat /\ class_size(m, id) \in Z /\ \A z \in Z : class_size(m, id) <= z
  <2> HIDE DEF F
  <2>1. F \subseteq Classes(m)
    BY <1>3
  <2> QED BY <1>2, <1>4, <1>5, <2>1
<1> HIDE DEF F, Z
<1>7. Min(Z) \in Z /\ \A z \in Z : Min(Z) <= z
  BY <1>6, MinIs
<1>8. Min(Z) = class_size(m, id)
  <2>1. Min(Z) <= class_size(m, id) /\ class_size(m, id) <= Min(Z)
    BY <1>6, <1>7
  <2>2. Min(Z) \in Nat /\ class_size(m, id) \in Nat
    BY <1>6, <1>7
  <2> QED BY <2>1, <2>2
<1> QED BY <1>8 DEF Z, F

LEMMA RefusedIs ==
  ASSUME SlabsInv, NEW n \in Nat \ {0}, NEW act \in BOOLEAN
  PROVE  Refused(slabs_alloc(S, n, act), n)
<1> DEFINE s == [h |-> h, m |-> m]
           r == slabs_alloc(s, n, act)
<1>0. Own(h, m, live, raw) /\ MShape(m)
  BY DEF SlabsInv, Own
<1>1. S = s /\ s \in Pair /\ s.h = h /\ s.m = m
  BY <1>0, PairIs DEF S
<1> HIDE DEF s
<1>2. Own(s.h, s.m, live, raw)
  BY <1>0, <1>1
<1> HIDE DEF r
<1>3. /\ Own(r.s.h, r.s.m, Held(live, r.at), raw)
      /\ r.at = None => Failed(s, r, n) /\ Alike(s.m, r.s.m)
  BY <1>1, <1>2, SlabsAllocIs DEF r
<1> SUFFICES ASSUME r.at = None
             PROVE  \/ Classless(n)
                    \/ /\ \A i \in DOMAIN r.s.m.list : r.s.m.list[i] = <<>>
                       /\ NoRoom(r.s.h, Min({class_size(m, i) : i \in Fitting(n)}))
  BY <1>1 DEF Refused, r
<1>4. /\ \/ clsid(m, n) = InvalidId
         \/ \E id \in Classes(m) :
              /\ ClassFor(m, n + ChunkHdr, id) /\ FirstFit(r.s.h, class_size(m, id)) = None
              /\ \A i \in Classes(m) : r.s.m.list[i] = <<>>
      /\ Alike(m, r.s.m)
  BY <1>1, <1>3 DEF Failed
<1>5. CASE clsid(m, n) = InvalidId
  BY <1>0, <1>5, ClasslessIs
<1>6. CASE \E id \in Classes(m) :
             /\ ClassFor(m, n + ChunkHdr, id) /\ FirstFit(r.s.h, class_size(m, id)) = None
             /\ \A i \in Classes(m) : r.s.m.list[i] = <<>>
  <2>1. PICK id \in Classes(m) :
             /\ ClassFor(m, n + ChunkHdr, id) /\ FirstFit(r.s.h, class_size(m, id)) = None
             /\ \A i \in Classes(m) : r.s.m.list[i] = <<>>
    BY <1>6
  <2> DEFINE z == class_size(m, id)
  <2>2. z \in Nat \ {0}
    BY <1>0, ClassIs
  <2>3. Min({class_size(m, i) : i \in Fitting(n)}) = z
    BY <1>0, <2>1, SmallestIs
  <2>4. Seg(r.s.h) /\ MShape(r.s.m)
    BY <1>3 DEF Own
  <2>5. FirstFit(r.s.h, z) = None
    BY <2>1
  <2> HIDE DEF z
  <2>6. NoRoom(r.s.h, z)
    BY <2>2, <2>4, <2>5, NoRoomIs
  <2>7. DOMAIN r.s.m.list = Classes(m)
    <3>1. Classes(r.s.m) = Classes(m)
      BY <1>4, SameClasses DEF Alike
    <3> QED BY <2>4, <3>1 DEF MShape
  <2> QED BY <2>1, <2>3, <2>6, <2>7
<1> QED BY <1>4, <1>5, <1>6

-----------------------------------------------------------------------------
(* The theorems. *)

(* The segment is sound and the manager owns its chunks in every state,    *)
(* for every value of the constants (all operations of shs_shmem.cc and    *)
(* shs_slabs.cc that change either).                                       *)
THEOREM SlabsInvariant == Spec => []SlabsInv
BY SlabsInvInit, SlabsInvNext, PTL DEF Spec

(* After any sequence of shs_shmem_alloc, shs_shmem_split_alloc and        *)
(* shs_shmem_free, by whatever clients, the storages tile the segment, no  *)
(* two free ones are neighbours, and order, the free lists, available,     *)
(* max_available_index and the statistics agree with them.                 *)
THEOREM SegmentSoundAlways == Spec => []SegmentSound
<1>1. SlabsInv => SegmentSound
  BY SegSound DEF SlabsInv, Own
<1> QED BY <1>1, SlabsInvariant, PTL

(* Every chunk is with one client of the slab manager or once in the list  *)
(* of its class, in a storage large enough that nobody else holds, and no  *)
(* smaller class would do (shs_slabs_alloc, shs_slabs_split_alloc,         *)
(* shs_slabs_free, shs_slabs_recover, shs_slabs_clsid).                    *)
THEOREM ChunksOwnedAlways == Spec => []ChunksOwned
BY OwnedFromInv, SlabsInvariant, PTL

(* However often shs_slabs_free leaves the statistics alone, used_size and *)
(* free_size drift by the same amount, below the size of the largest       *)
(* class, for every width of size_t.                                       *)
THEOREM DriftBoundedAlways == Spec => []DriftBounded
BY DriftFromInv, SlabsInvariant, PTL

(* shs_shmem_alloc, which searches one free list, fails only if no free    *)
(* storage is large enough (or, below min_size, a small one hides it), and *)
(* shs_slabs_alloc only if it finds no class or if, with every cached      *)
(* chunk returned by shs_slabs_recover, the segment has no room.           *)
THEOREM FailsOnlyWhenFullAlways == Spec => []FailsOnlyWhenFull
<1>1. SlabsInv => FailsOnlyWhenFull
  <2> SUFFICES ASSUME SlabsInv PROVE FailsOnlyWhenFull
    OBVIOUS
  <2>1. Seg(h)
    BY DEF SlabsInv, Own
  <2>2. \A n \in 1..Total : FirstFit(h, n) = None => NoRoom(h, n)
    <3> TAKE n \in 1..Total
    <3>1. n \in Nat \ {0}
      BY Sizes
    <3> QED BY <2>1, <3>1, NoRoomIs
  <2>3. \A n \in Reqs : Refused(slabs_alloc(S, n, FALSE), n)
    <3> TAKE n \in Reqs
    <3>1. n \in Nat \ {0} /\ FALSE \in BOOLEAN
      BY Consts
    <3> QED BY <3>1, RefusedIs
  <2> QED BY <2>2, <2>3 DEF FailsOnlyWhenFull
<1> QED BY <1>1, SlabsInvariant, PTL
=============================================================================
