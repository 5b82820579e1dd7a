------------------------------ MODULE TaskPool ------------------------------
(***************************************************************************)
(* What a QueueFunctionManager promises whoever uses it as a context       *)
(* (python/multithreading.py:115-121): any item put into the queue inside  *)
(* the context gets worked on, once, and the context is left only then.    *)
(***************************************************************************)
CONSTANT Items

VARIABLES
  given,    (* items put into the queue                                    *)
  worked,   (* items func was called with                                  *)
  left      (* the context was left                                        *)

PoolInit == given = {} /\ worked = {} /\ left = FALSE

Give(i) == /\ ~left /\ i \notin given
           /\ given' = given \cup {i} /\ UNCHANGED <<worked, left>>

WorkOn(i) == /\ ~left /\ i \in given \ worked
             /\ worked' = worked \cup {i} /\ UNCHANGED <<given, left>>

LeaveContext == /\ ~left /\ worked = given
                /\ left' = TRUE /\ UNCHANGED <<given, worked>>

PoolNext == LeaveContext \/ \E i \in Items : Give(i) \/ WorkOn(i)

Pool == PoolInit /\ [][PoolNext]_<<given, worked, left>>
=============================================================================
