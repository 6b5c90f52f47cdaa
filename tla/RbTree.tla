------------------------------- MODULE RbTree -------------------------------
(***************************************************************************)
(* The red-black tree of core/shs_rbtree.cc, with the pointers the code    *)
(* has.  A tree is a value t:                                              *)
(*                                                                         *)
(*   root     tree->root                                                   *)
(*   kid      kid["l"][n] and kid["r"][n]: n->left and n->right            *)
(*   up       n->parent, also of the sentinel, which deletion uses         *)
(*   red      the color; key: the key, -1 where the code leaves 0          *)
(*                                                                         *)
(* The branches of the code that differ only in left and right are one     *)
(* here, with the side as parameter.                                       *)
(***************************************************************************)
EXTENDS Integers, FiniteSets

CONSTANT Nodes          \* the nodes: positive numbers

ASSUME NodesAssumption == IsFiniteSet(Nodes) /\ Nodes \subseteq Nat \ {0}

Nil == 0                \* the sentinel
Null == -1              \* NULL
NoKey == -1

Other(s) == IF s = "l" THEN "r" ELSE "l"

(* The side of its parent on which n is. *)
Side(t, n) == IF n = t.kid["l"][t.up[n]] THEN "l" ELSE "r"

rbtree_init ==
  [root |-> Nil,
   kid |-> [s \in {"l", "r"} |-> [n \in Nodes |-> Null]],
   up |-> [n \in Nodes \cup {Nil} |-> Null],
   red |-> [n \in Nodes \cup {Nil} |-> FALSE],
   key |-> [n \in Nodes |-> NoKey]]

rbtree_min(t, n) ==
  LET f[x \in Nodes] == IF t.kid["l"][x] = Nil THEN x ELSE f[t.kid["l"][x]]
  IN f[n]

(* Mutant: the subtree that changes sides keeps its old parent. *)
RotateUnlinked(t, n, s) ==
  LET o == Other(s)
      m == t.kid[o][n]
      turned == [t EXCEPT !.kid[o][n] = t.kid[s][m], !.kid[s][m] = n,
                          !.up[m] = t.up[n], !.up[n] = m]
  IN IF n = t.root THEN [turned EXCEPT !.root = m]
     ELSE [turned EXCEPT !.kid[Side(t, n)][t.up[n]] = m]

(* rbtree_left_rotate for s = "l", rbtree_right_rotate for s = "r". *)
rotate(t, n, s) ==
  LET o == Other(s)
      m == t.kid[o][n]
      c == t.kid[s][m]
      turned == [t EXCEPT !.kid[o][n] = c, !.kid[s][m] = n,
                          !.up[m] = t.up[n], !.up[n] = m,
                          !.up[c] = IF c = Nil THEN @ ELSE n]
  IN IF n = t.root THEN [turned EXCEPT !.root = m]
     ELSE [turned EXCEPT !.kid[Side(t, n)][t.up[n]] = m]

-----------------------------------------------------------------------------
(* Insertion. *)

(* rbtree_insert_timer_value: equal keys go to the right. *)
insert_timer_value(t, n, k) ==
  LET side(x) == IF k < t.key[x] THEN "l" ELSE "r"
      last[x \in Nodes] == IF t.kid[side(x)][x] = Nil THEN x
                           ELSE last[t.kid[side(x)][x]]
      p == last[t.root]
  IN [t EXCEPT !.kid["l"][n] = Nil, !.kid["r"][n] = Nil,
               !.kid[side(p)][p] = n,
               !.up[n] = p, !.red[n] = TRUE, !.key[n] = k]

RECURSIVE insert_balance(_, _)

insert_balance(t, n) ==
  LET p == t.up[n]
      g == t.up[p]
      s == Side(t, p)
      o == Other(s)
      uncle == t.kid[o][g]
      inner == n = t.kid[o][p]
      low == IF inner THEN p ELSE n
      u == IF inner THEN rotate(t, p, s) ELSE t
      q == u.up[low]
  IN IF n = t.root \/ ~t.red[p] THEN [t EXCEPT !.red[t.root] = FALSE]
     ELSE IF t.red[uncle]
     THEN insert_balance([t EXCEPT !.red[p] = FALSE, !.red[uncle] = FALSE,
                                   !.red[g] = TRUE], g)
     ELSE insert_balance(
            rotate([u EXCEPT !.red[q] = FALSE, !.red[u.up[q]] = TRUE],
                   u.up[q], o), low)

rbtree_insert(t, n, k) ==
  IF t.root = Nil
  THEN [t EXCEPT !.root = n, !.up[n] = Null, !.red[n] = FALSE, !.key[n] = k,
                 !.kid["l"][n] = Nil, !.kid["r"][n] = Nil]
  ELSE insert_balance(insert_timer_value(t, n, k), n)

-----------------------------------------------------------------------------
(* Deletion. *)

(* m takes the place and the color of n. *)
replace(t, n, m) ==
  LET l == t.kid["l"][n]
      r == t.kid["r"][n]
      u == [t EXCEPT !.kid["l"][m] = l, !.kid["r"][m] = r,
                     !.up[m] = t.up[n], !.red[m] = t.red[n],
                     !.up[l] = IF l = Nil THEN @ ELSE m,
                     !.up[r] = IF r = Nil THEN @ ELSE m]
  IN IF n = t.root THEN [u EXCEPT !.root = m]
     ELSE [u EXCEPT !.kid[Side(t, n)][t.up[n]] = m]

(* The node is out; its color is read no more and set to black. *)
forget(t, n) ==
  [t EXCEPT !.kid["l"][n] = Null, !.kid["r"][n] = Null, !.up[n] = Null,
            !.red[n] = FALSE, !.key[n] = NoKey]

RECURSIVE delete_balance(_, _)

delete_balance(t, x) ==
  LET p == t.up[x]
      s == Side(t, x)
      o == Other(s)
      v == t.kid[o][p]
      u == IF t.red[v] THEN rotate([t EXCEPT !.red[v] = FALSE, !.red[p] = TRUE], p, s)
           ELSE t
      w == u.kid[o][p]
      near == u.kid[s][w]
      far == u.kid[o][w]
      y == IF u.red[far] THEN u
           ELSE rotate([u EXCEPT !.red[near] = FALSE, !.red[w] = TRUE], w, o)
      z == y.kid[o][p]
      done == rotate([y EXCEPT !.red[z] = y.red[p], !.red[p] = FALSE,
                               !.red[y.kid[o][z]] = FALSE], p, s)
  IN IF x = t.root \/ t.red[x] THEN [t EXCEPT !.red[x] = FALSE]
     ELSE IF ~u.red[near] /\ ~u.red[far]
     THEN delete_balance([u EXCEPT !.red[w] = TRUE], p)
     ELSE [done EXCEPT !.red[done.root] = FALSE]

(* Removing the root when it has one child leaves that child's parent; the *)
(* parent of the sentinel is of no use after the call.                     *)
rbtree_delete(t, n) ==
  LET both == t.kid["l"][n] # Nil /\ t.kid["r"][n] # Nil
      subst == IF both THEN rbtree_min(t, t.kid["r"][n]) ELSE n
      temp == IF t.kid["l"][subst] # Nil THEN t.kid["l"][subst]
              ELSE t.kid["r"][subst]
      p == t.up[subst]
      u == [t EXCEPT !.kid[Side(t, subst)][p] = temp,
                     !.up[temp] = IF both /\ p = n THEN subst ELSE p]
      out == forget(IF both THEN replace(u, n, subst) ELSE u, n)
  IN IF subst = t.root
     THEN forget([t EXCEPT !.root = temp, !.red[temp] = FALSE], n)
     ELSE [(IF t.red[subst] THEN out ELSE delete_balance(out, temp))
             EXCEPT !.up[Nil] = Null]
=============================================================================
