--------------------------- MODULE InvokeService ---------------------------
(***************************************************************************)
(* What Framework::Invoke promises to the network layer: every request it  *)
(* takes is answered, exactly once, and the process does not leave its     *)
(* event loop while a request is unanswered.  How the answer is produced   *)
(* (worker threads, completion queue, timers) is not visible here;         *)
(* InvokePipeline implements this module.                                  *)
(***************************************************************************)
CONSTANT Ids        \* the invoke ids

VARIABLES
  status,           \* status[i]: "new", "pending" or "answered"
  up                \* the event loop of the process is running (g_running)

vars == <<status, up>>

TypeOK == /\ status \in [Ids -> {"new", "pending", "answered"}]
          /\ up \in BOOLEAN

Init == /\ status = [i \in Ids |-> "new"]
        /\ up = TRUE

Submit(i) == /\ up
             /\ status[i] = "new"
             /\ status' = [status EXCEPT ![i] = "pending"]
             /\ UNCHANGED up

(* A request for an unknown module is answered inside the call. *)
Refuse(i) == /\ up
             /\ status[i] = "new"
             /\ status' = [status EXCEPT ![i] = "answered"]
             /\ UNCHANGED up

Answer(i) == /\ up
             /\ status[i] = "pending"
             /\ status' = [status EXCEPT ![i] = "answered"]
             /\ UNCHANGED up

Exit == /\ up
        /\ \A i \in Ids : status[i] # "pending"
        /\ up' = FALSE
        /\ UNCHANGED status

Next == \/ \E i \in Ids : Submit(i) \/ Refuse(i) \/ Answer(i)
        \/ Exit

Fairness == \A i \in Ids : WF_vars(Answer(i))

SafeSpec == Init /\ [][Next]_vars
Spec == SafeSpec /\ Fairness
=============================================================================
