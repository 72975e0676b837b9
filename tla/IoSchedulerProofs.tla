-------------------------- MODULE IoSchedulerProofs --------------------------
(***************************************************************************)
(* Proofs about the run loop of matrix-a.c, for all guests.                *)
(***************************************************************************)
EXTENDS IoScheduler, TLAPS

(* The loop starts in a state of the inductive invariant. *)
LEMMA InitIInv == Init => IInv
  BY DEF Init, IInv, TypeOK, BlameIsRight, VM, ExitReason, Resuming

(* KVM_RUN returns for one of the three reasons: its result and the exit    *)
(* reason are those of the VM whose turn it is.                             *)
LEMMA ReturnIInv ==
  ASSUME IInv, KvmInterrupted \/ KvmFails \/ \E r \in GuestExits : KvmExits(r)
  PROVE  IInv'
<1> USE GuestExitsAssumption
        DEF IInv, TypeOK, BlameIsRight, VM, ExitReason, Resuming, Stopping, Return
<1>1. CASE KvmInterrupted
  BY <1>1 DEF KvmInterrupted
<1>2. CASE KvmFails
  BY <1>2 DEF KvmFails
<1>3. CASE \E r \in GuestExits : KvmExits(r)
  BY <1>3 DEF KvmExits
<1> QED
  BY <1>1, <1>2, <1>3

(* The statements of the loop keep the invariant: in HandleIO the turn      *)
(* moves on, and the VM that failed is then one whose exit reason is IO.    *)
LEMMA LoopIInv == IInv /\ Loop => IInv'
<1> SUFFICES ASSUME IInv, Loop PROVE IInv'
  OBVIOUS
<1> USE DEF IInv, TypeOK, BlameIsRight, Blame, VM, Stopping
<1>1. CASE RunGuest
  BY <1>1 DEF RunGuest
<1>2. CASE HandleIO
  <2>1. turn' = IF turn = 0 THEN 1 ELSE 0
    BY <1>2 DEF HandleIO
  <2> QED
    BY <1>2, <2>1 DEF HandleIO
<1>3. CASE FallOut
  BY <1>3 DEF FallOut
<1>4. CASE StopLoop
  BY <1>4 DEF StopLoop
<1>5. CASE CheckReturn
  BY <1>5 DEF CheckReturn
<1> QED
  BY <1>1, <1>2, <1>3, <1>4, <1>5 DEF Loop

(* The inductive invariant holds of the whole run loop of matrix-a.c. *)
THEOREM Invariant == Spec => []IInv
<1>1. IInv /\ UNCHANGED vars => IInv'
  BY DEF IInv, TypeOK, BlameIsRight, Blame, vars
<1> QED
  BY <1>1, InitIInv, ReturnIInv, LoopIInv, PTL DEF Spec, Next

(* The message "VMFD: %d KVM_RUN failed" names the VM whose KVM_RUN failed, *)
(* unless that VM's exit reason was still IO from an earlier exit.          *)
THEOREM RightBlame == Spec => []BlameIsRight
  BY Invariant, PTL DEF IInv

-----------------------------------------------------------------------------
(* The first KVM_RUN call of a turn is the one the abstract share grants.   *)
LEMMA FirstCallGrants ==
  IInv /\ RunGuest /\ ~begun => Abstract!Grant(turn)
<1> SUFFICES ASSUME IInv, RunGuest, ~begun PROVE Abstract!Grant(turn)
  OBVIOUS
<1> DEFINE left == [Left EXCEPT ![turn] = @ - 1]
           share == [v \in VM |-> 1]
           spent == \A w \in VM : left[w] = 0
<1> USE DEF VM
<1>1. turn \in VM /\ turn' = turn /\ begun' = TRUE /\ begun = FALSE
  BY DEF IInv, TypeOK, RunGuest
<1>2. left = [v \in VM |-> IF v = turn THEN Left[v] - 1 ELSE Left[v]]
  BY <1>1 DEF Left
<1>3. Left[turn] > 0
  BY <1>1 DEF Left
<1>4. Left' = IF spent THEN share ELSE left
  <2>1. CASE turn = 0
    BY <1>1, <1>2, <2>1 DEF Left
  <2>2. CASE turn = 1
    BY <1>1, <1>2, <2>2 DEF Left
  <2> QED
    BY <1>1, <2>1, <2>2
<1>5. OnCpu = -1 /\ OnCpu' = turn /\ Holder = -1 /\ Holder' = turn
  BY <1>1 DEF OnCpu, Holder, RunGuest
<1> QED
  BY <1>3, <1>4, <1>5 DEF Abstract!Grant, Abstract!Nobody

(* Any later one continues it. *)
LEMMA LaterCallContinues ==
  IInv /\ RunGuest /\ begun => Abstract!Continue
<1> SUFFICES ASSUME IInv, RunGuest, begun PROVE Abstract!Continue
  OBVIOUS
<1>1. turn \in {0, 1} /\ turn' = turn /\ begun' = TRUE /\ begun = TRUE
  BY DEF IInv, TypeOK, RunGuest, VM
<1>2. OnCpu = -1 /\ OnCpu' = turn /\ Holder = turn /\ Holder' = turn
  BY <1>1 DEF OnCpu, Holder, RunGuest
<1>3. Left' = Left
  BY <1>1 DEF Left
<1> QED
  BY <1>1, <1>2, <1>3 DEF Abstract!Continue, Abstract!Nobody

(* Port I/O ends the turn, which leaves the credits as they are because it  *)
(* had begun.                                                               *)
LEMMA HandleIOLeaves == IInv /\ HandleIO => Abstract!Leave
<1> SUFFICES ASSUME IInv, HandleIO PROVE Abstract!Leave
  OBVIOUS
<1>1. /\ turn \in {0, 1} /\ turn' = (turn + 1) % 2
      /\ begun = TRUE /\ begun' = FALSE
  BY DEF IInv, TypeOK, VM, HandleIO
<1>2. OnCpu' = -1 /\ Holder' = -1
  BY <1>1 DEF OnCpu, Holder, HandleIO
<1>3. Left' = Left
  <2>1. turn' = IF turn = 0 THEN 1 ELSE 0
    BY <1>1
  <2> QED
    BY <1>1, <2>1 DEF Left, VM
<1> QED
  BY <1>2, <1>3 DEF Abstract!Leave, Abstract!Nobody

(* No other step changes the turn, and none of them gives the processor     *)
(* away.                                                                    *)
LEMMA OtherSteps ==
  ASSUME [Next]_vars, ~RunGuest, ~HandleIO
  PROVE  /\ UNCHANGED <<turn, begun>>
         /\ UNCHANGED OnCpu \/ OnCpu' = -1
  BY DEF OnCpu, vars, Next, Loop, FallOut, StopLoop, CheckReturn,
         KvmInterrupted, KvmFails, KvmExits, Return

(* matrix-a.c grants the two VMs alternate turns, each lasting up to a port *)
(* write of the guest: it implements the fair share of one turn each.       *)
THEOREM Refinement == Spec => ImplementsFairShare
<1>1. Init => Abstract!Init
  BY DEF Init, Abstract!Init, Abstract!Nobody, OnCpu, Holder, Left, VM
<1>2. IInv /\ [Next]_vars => [Abstract!Next]_<<OnCpu, Holder, Left, TRUE>>
  <2> SUFFICES ASSUME IInv, [Next]_vars
               PROVE  [Abstract!Next]_<<OnCpu, Holder, Left, TRUE>>
    OBVIOUS
  <2>1. CASE RunGuest
    <3>1. turn \in VM
      BY DEF IInv, TypeOK
    <3> QED
      BY <2>1, <3>1, FirstCallGrants, LaterCallContinues DEF Abstract!Next
  <2>2. CASE HandleIO
    BY <2>2, HandleIOLeaves DEF Abstract!Next
  <2>3. CASE ~RunGuest /\ ~HandleIO
    <3>1. UNCHANGED Left /\ UNCHANGED Holder
      BY <2>3, OtherSteps DEF Left, Holder
    <3>2. CASE UNCHANGED OnCpu
      BY <3>1, <3>2
    <3>3. CASE OnCpu' = -1
      BY <3>1, <3>3 DEF Abstract!Next, Abstract!Leave, Abstract!Nobody
    <3> QED
      BY <2>3, <3>2, <3>3, OtherSteps
  <2> QED
    BY <2>1, <2>2, <2>3
<1> QED
  BY <1>1, <1>2, Invariant, PTL
  DEF Spec, ImplementsFairShare, Abstract!Spec
=============================================================================
