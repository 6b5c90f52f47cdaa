---------------------------- MODULE MCEventTimer ----------------------------
(* Many timers of different or of equal times, or few and a longer time. *)
EXTENDS EventTimer

Load(n, delays(_), until) ==
  [events |-> 1..n, delays |-> [e \in 1..n |-> delays(e)], until |-> until]

MCLoads == {Load(7, LAMBDA e : {2 * e}, 0),
            Load(6, LAMBDA e : {2 * (e \div 2)}, 0),
            Load(2, LAMBDA e : {1, 3}, 3),
            Load(3, LAMBDA e : {e, 3}, 1)}
=============================================================================
