------------------------------ MODULE Handlers ------------------------------
(***************************************************************************)
(* What the HTTP handlers of every service have in common.  A handler is   *)
(* an async function that awaits one database call after another, and      *)
(* nothing holds other requests back meanwhile; task[r] is the step that   *)
(* request r is at, with what it has read so far.  No step need ever be    *)
(* taken: a request that stops is one whose process exited or whose query  *)
(* failed.                                                                 *)
(*                                                                         *)
(* alone is TRUE as long as no request was begun while another was in      *)
(* progress; a property that the code keeps only then is Serial => P.      *)
(* Bound: requests overlap once.  Those that do run to their end, in every *)
(* order and with every one of them free to stop, and no other begins.     *)
(***************************************************************************)
EXTENDS Integers, Sequences, FiniteSets

CONSTANT Requests   \* requests in progress at one time: the degree of concurrency
ASSUME RequestsAssumption == IsFiniteSet(Requests)

VARIABLES task, alone

Idle == [step |-> "idle"]
At(r, step) == task[r].step = step
Quiet == \A r \in Requests : task[r] = Idle
Serial == alone

HandlersInit == task = [r \in Requests |-> Idle] /\ alone = TRUE

\* A handler starts, and has work left after its first call.
Begin(r, work) ==
  /\ alone /\ task[r] = Idle
  /\ task' = [task EXCEPT ![r] = work]
  /\ alone' = Quiet

\* A handler whose writes are one database call.
AtOnce(r) ==
  /\ alone /\ task[r] = Idle
  /\ alone' = Quiet
  /\ UNCHANGED task

Continue(r, work) == task' = [task EXCEPT ![r] = work] /\ UNCHANGED alone
Finish(r) == Continue(r, Idle)
=============================================================================
