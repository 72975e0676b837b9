---------------------------- MODULE FracScheduler ----------------------------
(***************************************************************************)
(* matrix.c: the run loop that shares the processor FRAC_A : FRAC_B        *)
(* between two VMs.  count numbers the KVM_RUN calls of the current round; *)
(* when a quantum was ended by a signal, count decides whose turn it is.   *)
(***************************************************************************)
EXTENDS KvmTimer

CONSTANTS FRAC_A, FRAC_B

ASSUME FracAssumption == FRAC_A \in Nat \ {0} /\ FRAC_B \in Nat \ {0}

VARIABLE count

vars == <<timerVars, count>>

TypeOK == TimerTypeOK /\ count \in 0 .. FRAC_A + FRAC_B - 1

Init == TimerInit /\ count = 0

(* The next VM after an interrupted quantum. *)
M_NextTurn_gt == IF count > FRAC_A THEN 1 ELSE 0
M_NextTurn_total == IF count >= FRAC_A + FRAC_B THEN 1 ELSE 0
NextTurn == IF count >= FRAC_A THEN 1 ELSE 0

(* count++, reset at the end of a round, then ioctl(KVM_RUN). *)
RunGuest ==
  /\ CallKvmRun
  /\ count' = IF count + 1 = FRAC_A + FRAC_B THEN 0 ELSE count + 1

M_Switch_always == PastSwitch /\ ret < 0 /\ turn' = NextTurn /\ pc' = "top"
                   /\ UNCHANGED <<kvmVars, signalVars, ticks, count>>
Switch == SwitchTo(NextTurn) /\ UNCHANGED count

Kernel == KernelStep /\ UNCHANGED count
Timer == Tick /\ UNCHANGED count
Loop == RunGuest \/ Switch \/ (Statement /\ UNCHANGED count)

Next == Kernel \/ Timer \/ Loop

Spec == Init /\ [][Next]_vars

-----------------------------------------------------------------------------
(* The VM whose guest code is running, if any. *)
OnCpu == IF pc = "guest" THEN turn ELSE -1

(* The quanta each VM still has in this round, read off count: the first
   FRAC_A quanta of a round belong to VM 0, the others to VM 1. *)
Left ==
  [v \in VM |->
     IF v = 0 THEN IF count < FRAC_A THEN FRAC_A - count ELSE 0
              ELSE IF count <= FRAC_A THEN FRAC_B ELSE FRAC_A + FRAC_B - count]

Abstract == INSTANCE FairShare
  WITH Share <- [v \in VM |-> IF v = 0 THEN FRAC_A ELSE FRAC_B],
       onCpu <- OnCpu, holder <- OnCpu, credit <- Left,
       kept <- onlyIntr

(***************************************************************************)
(* The inductive invariant behind both promises: the turn is the one count *)
(* calls for whenever a quantum is about to start, and each phase of the   *)
(* loop has used up the timer expirations it waits for.                    *)
(***************************************************************************)
LoopInv ==
  /\ pc = "returned" => ret = -1 /\ exit_reason[turn] = "INTR"
  /\ pc # "io_sleep"
  /\ pc = "setup" => \A v \in VM : exit_reason[v] = "UNKNOWN"

TurnInv == pc \in {"setup", "top", "sigwait"} => turn = NextTurn

TickInv ==
  /\ pc = "guest" /\ pending => ticks >= 1
  /\ pc \in {"returned", "sigwait"} => ticks >= 1
  /\ pc = "sigwait" /\ pending => ticks >= 2
  /\ pc = "top" /\ (\E v \in VM : exit_reason[v] = "INTR") => ticks >= 2

(* Until a guest causes an exit of its own, every KVM_RUN that returns was  *)
(* interrupted, the turn follows count, and the expirations are used up as  *)
(* described above.                                                         *)
IInv == TypeOK /\ (onlyIntr => LoopInv /\ TurnInv /\ TickInv)

(* matrix.c:24 "so that we can switch between vm1 and vm2 correctly": each  *)
(* round of FRAC_A + FRAC_B quanta gives FRAC_A to vm1 and FRAC_B to vm2,   *)
(* until KVM_RUN first returns for another reason than the timer: count++   *)
(* then also counts calls that are no quantum.                              *)
ImplementsFairShare == Abstract!Spec

(* VM v is running, or has a reason not to: the loop has ended, the timer
   could not be armed, the arbitrary signal mask of the other VM blocks
   SIGUSR1, or a guest left KVM_RUN by itself. *)
Served(v) ==
  \/ pc = "guest" /\ turn = v
  \/ pc \in Stopped
  \/ pc # "setup" /\ ~timerArmed
  \/ pc # "setup" /\ \E w \in VM \ {v} : maskBlocks[w]
  \/ pc = "returned" /\ ret = 0
=============================================================================
