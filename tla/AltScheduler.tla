---------------------------- MODULE AltScheduler -----------------------------
(***************************************************************************)
(* matrix-b.c: the run loop that hands each VM one timer quantum in turn.  *)
(* A guest that leaves KVM_RUN for I/O keeps its turn.                     *)
(***************************************************************************)
EXTENDS KvmTimer

VARIABLE begun   \* history: the VM whose turn it is has been run in this turn

vars == <<timerVars, begun>>

TypeOK == TimerTypeOK /\ begun \in BOOLEAN

Init == TimerInit /\ begun = FALSE

RunGuest == CallKvmRun /\ begun' = TRUE

M_NextTurn_plusOne == turn + 1
NextTurn == (turn + 1) % 2

M_Switch_noreset == SwitchTo(turn) /\ begun' = FALSE
Switch == SwitchTo(NextTurn) /\ begun' = FALSE

Kernel == KernelStep /\ UNCHANGED begun
Timer == Tick /\ UNCHANGED begun
Loop == RunGuest \/ Switch \/ (Statement /\ UNCHANGED begun)

Next == Kernel \/ Timer \/ Loop

Spec == Init /\ [][Next]_vars

(* As for matrix.c; see FracScheduler. *)
FairSpec == Spec /\ WF_vars(Kernel) /\ WF_vars(Timer) /\ SF_vars(Loop)

-----------------------------------------------------------------------------
(* In a round of one quantum each, VM 0 comes first. *)
Left == [v \in VM |-> IF v = 0 /\ (turn = 0 <=> begun) THEN 0 ELSE 1]

OnCpu == IF pc = "guest" THEN turn ELSE -1
Holder == IF begun THEN turn ELSE -1

Abstract == INSTANCE FairShare
  WITH Share <- [v \in VM |-> 1],
       onCpu <- OnCpu, holder <- Holder,
       credit <- Left, kept <- TRUE

(* The inductive invariant: whatever is run, and whatever returns from      *)
(* KVM_RUN, belongs to a turn that has begun.                               *)
IInv == TypeOK /\ (pc \in {"guest", "returned", "io_sleep"} => begun)

(* matrix-b.c:362-363 "this will simply flip the turn": whatever exits the  *)
(* guests cause in between, the two VMs are granted alternate turns.        *)
ImplementsFairShare == Abstract!Spec

(* Each VM runs again and again, unless the loop ends, the timer could not  *)
(* be armed, the arbitrary signal mask of the other VM blocks SIGUSR1, or a *)
(* guest leaves KVM_RUN by itself for ever (then the expirations can all    *)
(* fall into user mode, where timer_handler swallows them).                 *)
NoStarvation ==
  \A v \in VM :
    []<>( \/ pc = "guest" /\ turn = v
          \/ pc \in Stopped
          \/ pc # "setup" /\ ~timerArmed
          \/ pc # "setup" /\ \E w \in VM \ {v} : maskBlocks[w]
          \/ pc = "returned" /\ ret = 0 )
=============================================================================
