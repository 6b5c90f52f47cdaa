------------------------------ MODULE MCHosts -------------------------------
(* A master process and two children, two slots for two servers. *)
EXTENDS Hosts, TLC

Nodes4(a, b, c, d) == <<[idx |-> 0, off |-> a], [idx |-> 0, off |-> b],
                       [idx |-> 1, off |-> c], [idx |-> 1, off |-> d]>>

(* Four virtual nodes in order, and with equal hashes that are too small   *)
(* to be spread: all their offsets become 0.                               *)
MCCalc == {Nodes4(2, 9, 4, 6), Nodes4(3, 3, 3, 2)}

(* Requests are followed while the last slot is not in use, and with more  *)
(* than one group for one hash.                                            *)
MCBound == req # NoReq => ~slot[Slots].used /\ (groups > 1 => req.hash = 4)

(* Nothing depends on which address is which. *)
MCSymmetry == Permutations(Addrs)
=============================================================================
