------------------------- MODULE AltSchedulerProofs --------------------------
(***************************************************************************)
(* Proofs about the run loop of matrix-b.c, for all guests.                *)
(***************************************************************************)
EXTENDS AltScheduler, TLAPS

(* The loop starts in a state of the inductive invariant. *)
LEMMA InitIInv == Init => IInv
<1> SUFFICES ASSUME Init PROVE IInv
  OBVIOUS
<1> USE DEF Init, TimerInit
<1>1. pc \in Pc
  BY DEF Pc, UserPc
<1>2. exit_reason \in [VM -> ExitReason]
  BY DEF ExitReason, Resuming
<1>3. turn \in VM /\ ret \in {-1, 0} /\ ticks \in 0 .. TickCap
  BY DEF VM, TickCap
<1>4. /\ pending \in BOOLEAN /\ timerArmed \in BOOLEAN
      /\ maskBlocks \in [VM -> BOOLEAN] /\ onlyIntr \in BOOLEAN /\ begun \in BOOLEAN
  OBVIOUS
<1> QED
  BY <1>1, <1>2, <1>3, <1>4 DEF IInv, TypeOK, TimerTypeOK

(* Every step of the kernel, the timer and the loop keeps the invariant.    *)
LEMMA StepIInv == IInv /\ [Next]_vars => IInv'
<1> SUFFICES ASSUME IInv, [Next]_vars PROVE IInv'
  OBVIOUS
<1> USE GuestExitsAssumption
        DEF IInv, TypeOK, TimerTypeOK, NextTurn, VM, Pc, UserPc, Stopped,
            ExitReason, Resuming, Stopping, TickCap, User, PastSwitch,
            kvmVars, signalVars
<1>1. CASE RunGuest
  BY <1>1 DEF RunGuest, CallKvmRun
<1>2. CASE Switch
  <2>1. turn' = IF turn = 0 THEN 1 ELSE 0
    BY <1>2 DEF Switch, SwitchTo
  <2> QED
    BY <1>2, <2>1 DEF Switch, SwitchTo
<1>3. CASE Timer
  BY <1>3 DEF Timer, Tick
<1>4. CASE Kernel
  <2>1. CASE TimerHandler
    BY <1>4, <2>1 DEF Kernel, TimerHandler
  <2>2. CASE KvmInterrupted
    BY <1>4, <2>2 DEF Kernel, KvmInterrupted
  <2>3. CASE KvmExits
    <3>1. PICK r \in GuestExits :
            exit_reason' = [exit_reason EXCEPT ![turn] = r]
      BY <2>3 DEF KvmExits
    <3>2. r \in ExitReason
      BY <3>1
    <3>3. exit_reason' \in [VM -> ExitReason]
      BY <3>1, <3>2
    <3>4. pc' \in Pc /\ ret' \in {-1, 0} /\ onlyIntr' = FALSE
      BY <2>3 DEF KvmExits
    <3> QED
      BY <1>4, <2>3, <3>3, <3>4 DEF Kernel, KvmExits
  <2>4. CASE KvmFails
    <3>1. PICK r \in {exit_reason[turn], "UNKNOWN"} :
            exit_reason' = [exit_reason EXCEPT ![turn] = r]
      BY <2>4 DEF KvmFails
    <3>2. r \in ExitReason
      BY <3>1
    <3>3. exit_reason' \in [VM -> ExitReason]
      BY <3>1, <3>2
    <3>4. pc' \in Pc /\ ret' \in {-1, 0} /\ onlyIntr' = FALSE
      BY <2>4 DEF KvmFails
    <3> QED
      BY <1>4, <2>4, <3>3, <3>4 DEF Kernel, KvmFails
  <2>5. CASE SigWait
    BY <1>4, <2>5 DEF Kernel, SigWait
  <2> QED
    BY <1>4, <2>1, <2>2, <2>3, <2>4, <2>5 DEF Kernel, KernelStep, KvmReturns
<1>5. CASE Statement /\ UNCHANGED begun
  <2>1. CASE SetUp
    BY <1>5, <2>1 DEF SetUp
  <2>2. CASE StopLoop
    BY <1>5, <2>2 DEF StopLoop
  <2>3. CASE HandleIO
    BY <1>5, <2>3 DEF HandleIO
  <2>4. CASE RunFailed
    BY <1>5, <2>4 DEF RunFailed
  <2>5. CASE Resume
    BY <1>5, <2>5 DEF Resume
  <2> QED
    BY <1>5, <2>1, <2>2, <2>3, <2>4, <2>5 DEF Statement
<1>6. CASE UNCHANGED vars
  BY <1>6 DEF vars, timerVars
<1> QED
  BY <1>1, <1>2, <1>3, <1>4, <1>5, <1>6 DEF Next, Loop

(* The inductive invariant holds of the whole run loop of matrix-b.c: a VM  *)
(* is in KVM_RUN, or has just left it, only in a turn that has begun.       *)
THEOREM Invariant == Spec => []IInv
  BY InitIInv, StepIInv, PTL DEF Spec

-----------------------------------------------------------------------------
(* The first KVM_RUN call of a turn is the one the abstract share grants.   *)
LEMMA FirstCallGrants ==
  IInv /\ RunGuest /\ ~begun => Abstract!Grant(turn)
<1> SUFFICES ASSUME IInv, RunGuest, ~begun PROVE Abstract!Grant(turn)
  OBVIOUS
<1> DEFINE left == [Left EXCEPT ![turn] = @ - 1]
           share == [v \in VM |-> 1]
           spent == \A w \in VM : left[w] = 0
<1> USE DEF VM
<1>1. turn \in VM /\ turn' = turn /\ begun' = TRUE /\ begun = FALSE
  BY DEF IInv, TypeOK, TimerTypeOK, RunGuest, CallKvmRun
<1>2. left = [v \in VM |-> IF v = turn THEN Left[v] - 1 ELSE Left[v]]
  BY <1>1 DEF Left
<1>3. Left[turn] > 0
  BY <1>1 DEF Left
<1>4. Left' = IF spent THEN share ELSE left
  <2>1. CASE turn = 0
    BY <1>1, <1>2, <2>1 DEF Left
  <2>2. CASE turn = 1
    BY <1>1, <1>2, <2>2 DEF Left
  <2> QED
    BY <1>1, <2>1, <2>2
<1>5. OnCpu = -1 /\ OnCpu' = turn /\ Holder = -1 /\ Holder' = turn
  BY <1>1 DEF OnCpu, Holder, RunGuest, CallKvmRun, User
<1> QED
  BY <1>3, <1>4, <1>5 DEF Abstract!Grant, Abstract!Nobody

(* Any later one continues it. *)
LEMMA LaterCallContinues ==
  IInv /\ RunGuest /\ begun => Abstract!Continue
<1> SUFFICES ASSUME IInv, RunGuest, begun PROVE Abstract!Continue
  OBVIOUS
<1>1. turn \in {0, 1} /\ turn' = turn /\ begun' = begun
  BY DEF IInv, TypeOK, TimerTypeOK, RunGuest, CallKvmRun, VM
<1>2. OnCpu = -1 /\ OnCpu' = turn /\ Holder = turn /\ Holder' = turn
  BY <1>1 DEF OnCpu, Holder, RunGuest, CallKvmRun, User
<1>3. Left' = Left
  BY <1>1 DEF Left
<1> QED
  BY <1>1, <1>2, <1>3 DEF Abstract!Continue, Abstract!Nobody

(* A switch ends the turn: it leaves the credits as they are because the    *)
(* turn had begun.                                                          *)
LEMMA SwitchLeaves == IInv /\ Switch => Abstract!Leave
<1> SUFFICES ASSUME IInv, Switch PROVE Abstract!Leave
  OBVIOUS
<1>1. /\ turn \in {0, 1} /\ turn' = (turn + 1) % 2
      /\ begun = TRUE /\ begun' = FALSE
  BY DEF IInv, TypeOK, TimerTypeOK, VM, Switch, SwitchTo, NextTurn, PastSwitch, User
<1>2. OnCpu' = -1 /\ Holder' = -1
  BY <1>1 DEF OnCpu, Holder, Switch, SwitchTo
<1>3. Left' = Left
  <2>1. turn' = IF turn = 0 THEN 1 ELSE 0
    BY <1>1
  <2> QED
    BY <1>1, <2>1 DEF Left, VM
<1> QED
  BY <1>2, <1>3 DEF Abstract!Leave, Abstract!Nobody

(* No other step changes the turn, and none of them gives the processor     *)
(* away.                                                                    *)
LEMMA OtherSteps ==
  ASSUME [Next]_vars, ~RunGuest, ~Switch
  PROVE  /\ UNCHANGED <<turn, begun>>
         /\ UNCHANGED OnCpu \/ OnCpu' = -1
<1> USE DEF OnCpu, kvmVars, signalVars
<1>1. CASE UNCHANGED vars
  BY <1>1 DEF vars, timerVars
<1>2. CASE Timer
  BY <1>2 DEF Timer, Tick
<1>3. CASE Kernel
  BY <1>3 DEF Kernel, KernelStep, TimerHandler, KvmReturns, KvmInterrupted,
              KvmExits, KvmFails, SigWait
<1>4. CASE Statement /\ UNCHANGED begun
  BY <1>4 DEF Statement, SetUp, StopLoop, HandleIO, RunFailed, Resume
<1> QED
  BY <1>1, <1>2, <1>3, <1>4 DEF Next, Loop

(* matrix-b.c grants the two VMs alternate turns, whatever exits, signals   *)
(* and errors come in between: it implements the fair share of one turn     *)
(* each, without a condition.                                               *)
THEOREM Refinement == Spec => ImplementsFairShare
<1>1. Init => Abstract!Init
  BY DEF Init, TimerInit, Abstract!Init, Abstract!Nobody, OnCpu, Holder, Left, VM
<1>2. IInv /\ [Next]_vars => [Abstract!Next]_<<OnCpu, Holder, Left, TRUE>>
  <2> SUFFICES ASSUME IInv, [Next]_vars
               PROVE  [Abstract!Next]_<<OnCpu, Holder, Left, TRUE>>
    OBVIOUS
  <2>1. CASE RunGuest
    <3>1. turn \in VM
      BY DEF IInv, TypeOK, TimerTypeOK
    <3> QED
      BY <2>1, <3>1, FirstCallGrants, LaterCallContinues DEF Abstract!Next
  <2>2. CASE Switch
    BY <2>2, SwitchLeaves DEF Abstract!Next
  <2>3. CASE ~RunGuest /\ ~Switch
    <3>1. UNCHANGED Left /\ UNCHANGED Holder
      BY <2>3, OtherSteps DEF Left, Holder
    <3>2. CASE UNCHANGED OnCpu
      BY <3>1, <3>2
    <3>3. CASE OnCpu' = -1
      BY <3>1, <3>3 DEF Abstract!Next, Abstract!Leave, Abstract!Nobody
    <3> QED
      BY <2>3, <3>2, <3>3, OtherSteps
  <2> QED
    BY <2>1, <2>2, <2>3
<1> QED
  BY <1>1, <1>2, Invariant, PTL
  DEF Spec, ImplementsFairShare, Abstract!Spec
=============================================================================
