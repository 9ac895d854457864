----------------------------- MODULE ExecTasks ------------------------------
(***************************************************************************)
(* The part of Exec the task collectors look at: SysBase->TaskReady and    *)
(* SysBase->TaskWait, and the ways other activities change them.           *)
(*                                                                         *)
(* Forbid() stops the other tasks, not the interrupts: an interrupt server *)
(* may Signal() a waiting task at any moment, and Exec then moves its node *)
(* from TaskWait into TaskReady, at the place its priority gives it.  All  *)
(* of this is Exec's own code, modelled from how the collectors use it.    *)
(***************************************************************************)
EXTENDS NodeLists

CONSTANTS
  Task,     (* addresses of the other tasks of the machine                     *)
  Self,     (* address of the collector's own task                             *)
  Sentinel (* a list's tail sentinel, the node whose ln_Succ is NULL          *)

ASSUME NodeAssumption == Self \notin Task /\ Sentinel \notin Task \union {Self}

VARIABLES
  ready, (* TaskReady, head first                                           *)
  wait   (* TaskWait, head first                                            *)

execVars == <<ready, wait>>

Live == ToSet(ready) \union ToSet(wait) \union {Self}

ExecTypeOK ==
  /\ ready \in Seq(Task) /\ wait \in Seq(Task)
  /\ IsInjective(ready) /\ IsInjective(wait)
  /\ ToSet(ready) \intersect ToSet(wait) = {}

ExecInit == ready = << >> /\ wait = << >>
-----------------------------------------------------------------------------
HeadOfSkipping(list) == IF Len(list) < 2 THEN Sentinel ELSE list[2]

(* lh_Head and ln_Succ as a list walk reads them. *)
HeadOf(list) == IF list = << >> THEN Sentinel ELSE list[1]

SuccIn(list, t) ==
  LET i == IndexOf(list, t) IN IF i = Len(list) THEN Sentinel ELSE list[i + 1]

SuccOf(t) == SuccIn(IF t \in ToSet(ready) THEN ready ELSE wait, t)
-----------------------------------------------------------------------------
(* An interrupt signals a waiting task: possible even under Forbid. *)
Signal(t) ==
  /\ t \in ToSet(wait)
  /\ wait' = Unlinked(wait, t)
  /\ ready' \in Enqueued(ready, t)

(* A ready task is given the processor and waits for something. *)
Block(t) ==
  /\ t \in ToSet(ready)
  /\ ready' = Unlinked(ready, t)
  /\ wait' = Append(wait, t)

AddTask(t) ==
  /\ t \in Task \ Live
  /\ ready' \in Enqueued(ready, t)
  /\ UNCHANGED wait

RemTask(t) ==
  /\ t \in Live \ {Self}
  /\ ready' = Unlinked(ready, t)
  /\ wait' = Unlinked(wait, t)

(* What the other tasks may do while task switching is allowed. *)
OtherTasks == \E t \in Task : Block(t) \/ AddTask(t) \/ RemTask(t)

Interrupt == \E t \in Task : Signal(t)
=============================================================================
