------------------------------ MODULE BufferPool ------------------------------
(***************************************************************************)
(* What the capture path promises about its buffers, without threads: a    *)
(* buffer belongs to the driver or to the application; the application's   *)
(* processors use only buffers it owns; a buffer goes back to the driver,  *)
(* and its memory is freed, only when no processor uses it any more.       *)
(***************************************************************************)
EXTENDS Naturals

CONSTANTS Buffers, Procs

VARIABLES
  owner,  (* who may access a buffer; "none" while it has no memory        *)
  users   (* how many times a processor holds a buffer                     *)

poolVars == <<owner, users>>

Unused(b) == \A p \in Procs : users[b][p] = 0

PoolInit ==
  /\ owner = [b \in Buffers |-> "none"]
  /\ users = [b \in Buffers |-> [p \in Procs |-> 0]]

Allocate ==
  /\ \A b \in Buffers : owner[b] = "none"
  /\ owner' = [b \in Buffers |-> "app"]
  /\ UNCHANGED users

(* The application gives unused buffers to the driver. *)
Give ==
  /\ \E Q \in SUBSET {b \in Buffers : owner[b] = "app" /\ Unused(b)} :
       owner' = [b \in Buffers |-> IF b \in Q THEN "driver" ELSE owner[b]]
  /\ UNCHANGED users

Take(b) ==
  /\ owner[b] = "driver"
  /\ owner' = [owner EXCEPT ![b] = "app"]
  /\ UNCHANGED users

Acquire(b, p) ==
  /\ owner[b] = "app"
  /\ users[b][p] = 0
  /\ users' = [users EXCEPT ![b][p] = 1]
  /\ UNCHANGED owner

Release(b, p) ==
  /\ users[b][p] = 1
  /\ users' = [users EXCEPT ![b][p] = 0]
  /\ UNCHANGED owner

Reclaim ==
  /\ owner' = [b \in Buffers |-> IF owner[b] = "driver" THEN "app" ELSE owner[b]]
  /\ UNCHANGED users

Free ==
  /\ \A b \in Buffers : owner[b] = "app" /\ Unused(b)
  /\ owner' = [b \in Buffers |-> "none"]
  /\ UNCHANGED users

PoolNext ==
  \/ Allocate
  \/ Give
  \/ \E b \in Buffers : Take(b)
  \/ \E b \in Buffers, p \in Procs : Acquire(b, p) \/ Release(b, p)
  \/ Reclaim
  \/ Free

PoolSpec == PoolInit /\ [][PoolNext]_poolVars

=============================================================================
