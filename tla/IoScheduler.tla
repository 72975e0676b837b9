----------------------------- MODULE IoScheduler -----------------------------
(***************************************************************************)
(* matrix-a.c: the run loop that switches to the other VM whenever the     *)
(* running guest does port I/O.  There is no timer: a guest that never     *)
(* does I/O keeps the processor.                                           *)
(***************************************************************************)
EXTENDS Integers

CONSTANTS
  GuestExits,   \* the exits to user space the guest code can cause
  KvmErrors     \* can KVM_RUN fail, or be interrupted by a stray signal?

VM == {0, 1}
Resuming == {"UNKNOWN", "DEBUG", "MMIO"}
Stopping == {"SHUTDOWN", "OTHER"}
ExitReason == Resuming \cup Stopping \cup {"IO", "INTR"}

ASSUME GuestExitsAssumption == GuestExits \subseteq ExitReason \ {"INTR"}
ASSUME KvmErrorsAssumption == KvmErrors \in BOOLEAN

VARIABLES
  pc,           \* where the hypervisor thread is
  turn,         \* index in vm_id[] of the VM to run
  exit_reason,  \* kvm_run->exit_reason of each VM's vcpu
  ret,          \* the last result of KVM_RUN
  begun,        \* history: the VM whose turn it is has been run in this turn
  failedVm      \* history: the VM whose KVM_RUN last failed, -1 if none did

vars == <<pc, turn, exit_reason, ret, begun, failedVm>>

TypeOK ==
  /\ pc \in {"top", "guest", "returned", "check", "exit_kvm", "failed"}
  /\ turn \in VM
  /\ exit_reason \in [VM -> ExitReason]
  /\ ret \in {-1, 0}
  /\ begun \in BOOLEAN
  /\ failedVm \in VM \cup {-1}

Init ==
  /\ pc = "top"
  /\ turn = 0
  /\ exit_reason = [v \in VM |-> "UNKNOWN"]
  /\ ret = 0
  /\ begun = FALSE
  /\ failedVm = -1

RunGuest ==
  /\ pc = "top"
  /\ pc' = "guest"
  /\ begun' = TRUE
  /\ UNCHANGED <<turn, exit_reason, ret, failedVm>>

Return(r, value) ==
  /\ pc = "guest"
  /\ pc' = "returned"
  /\ exit_reason' = [exit_reason EXCEPT ![turn] = r]
  /\ ret' = value
  /\ UNCHANGED <<turn, begun>>

KvmExits(r) == Return(r, 0) /\ UNCHANGED failedVm

(* A stop and continue of the process makes KVM_RUN return EINTR. *)
KvmInterrupted == KvmErrors /\ Return("INTR", -1) /\ UNCHANGED failedVm

KvmFails ==
  /\ KvmErrors
  /\ \E r \in {exit_reason[turn], "UNKNOWN"} : Return(r, -1)
  /\ failedVm' = turn

(* case KVM_EXIT_IO: the turn passes to the other VM inside the switch. *)
M_HandleIO_keepTurn ==
  /\ pc = "returned"
  /\ exit_reason[turn] = "IO"
  /\ pc' = "check"
  /\ begun' = FALSE
  /\ UNCHANGED <<turn, exit_reason, ret, failedVm>>
M_HandleIO_plusOne ==
  /\ pc = "returned"
  /\ exit_reason[turn] = "IO"
  /\ turn' = turn + 1
  /\ begun' = FALSE
  /\ pc' = "check"
  /\ UNCHANGED <<exit_reason, ret, failedVm>>
HandleIO ==
  /\ pc = "returned"
  /\ exit_reason[turn] = "IO"
  /\ turn' = (turn + 1) % 2
  /\ begun' = FALSE
  /\ pc' = "check"
  /\ UNCHANGED <<exit_reason, ret, failedVm>>

M_FallOut_flips ==
  /\ pc = "returned"
  /\ exit_reason[turn] \in Resuming \cup {"INTR"}
  /\ turn' = (turn + 1) % 2
  /\ pc' = "check"
  /\ UNCHANGED <<exit_reason, ret, begun, failedVm>>
FallOut ==
  /\ pc = "returned"
  /\ exit_reason[turn] \in Resuming \cup {"INTR"}
  /\ pc' = "check"
  /\ UNCHANGED <<turn, exit_reason, ret, begun, failedVm>>

StopLoop ==
  /\ pc = "returned"
  /\ exit_reason[turn] \in Stopping
  /\ pc' = "exit_kvm"
  /\ UNCHANGED <<turn, exit_reason, ret, begun, failedVm>>

(* The test after the switch reads the exit reason of vm_id[turn], which
   after port I/O is no longer the VM that ran. *)
CheckReturn ==
  /\ pc = "check"
  /\ pc' = IF ret < 0 /\ exit_reason[turn] # "INTR" THEN "failed" ELSE "top"
  /\ UNCHANGED <<turn, exit_reason, ret, begun, failedVm>>

Loop == RunGuest \/ HandleIO \/ FallOut \/ StopLoop \/ CheckReturn

Next ==
  \/ Loop
  \/ KvmInterrupted \/ KvmFails
  \/ \E r \in GuestExits : KvmExits(r)

Spec == Init /\ [][Next]_vars

(* The thread is runnable, and the guests (guest1-a.s, guest2-a.s) write to *)
(* a port in every iteration of their loop.                                 *)
FairSpec == Spec /\ WF_vars(Loop) /\ SF_vars(KvmExits("IO"))

-----------------------------------------------------------------------------
(* In a round of one turn each, VM 0 comes first. *)
Left == [v \in VM |-> IF v = 0 /\ (turn = 0 <=> begun) THEN 0 ELSE 1]

OnCpu == IF pc = "guest" THEN turn ELSE -1
Holder == IF begun THEN turn ELSE -1

Abstract == INSTANCE FairShare
  WITH Share <- [v \in VM |-> 1],
       onCpu <- OnCpu, holder <- Holder,
       credit <- Left, kept <- TRUE

(* The VM named by "VMFD: %d KVM_RUN failed" is the one whose KVM_RUN       *)
(* failed, except when the kernel left a stale KVM_EXIT_IO in its kvm_run   *)
(* page: the switch then moves the turn before the failure is reported.     *)
Blame == failedVm \in VM /\ (failedVm = turn \/ exit_reason[failedVm] = "IO")
BlameIsRight == pc = "failed" => Blame

(* The inductive invariant: the turn has begun whenever its VM is in        *)
(* KVM_RUN or has just left it, and a result that is still to be tested     *)
(* came from the VM whose turn it is, unless that VM's exit reason is IO.   *)
IInv ==
  /\ TypeOK
  /\ pc \in {"guest", "returned"} => begun
  /\ pc = "returned" /\ ret < 0 /\ exit_reason[turn] # "INTR" => failedVm = turn
  /\ pc = "check" /\ ret < 0 /\ exit_reason[turn] # "INTR" => Blame
  /\ BlameIsRight

(* matrix-a.c:289-290 "this will simply flip the turn": whatever other      *)
(* exits, interruptions and failures come in between, the VMs are granted   *)
(* alternate turns, each lasting up to a port write of the guest.           *)
ImplementsFairShare == Abstract!Spec

(* Unless the loop ends, guests that write to their ports run in turn for   *)
(* ever: neither starves the other.                                         *)
NoStarvation ==
  \A v \in VM : []<>( \/ pc = "guest" /\ turn = v
                      \/ pc \in {"exit_kvm", "failed"} )
=============================================================================
