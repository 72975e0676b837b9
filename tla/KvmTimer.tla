------------------------------ MODULE KvmTimer -------------------------------
(***************************************************************************)
(* The part of kvm_run_vm() that matrix.c and matrix-b.c share: a single   *)
(* thread alternates between running a guest (ioctl KVM_RUN) and handling  *)
(* its exit, while a periodic POSIX timer sends it SIGUSR1.  The modules   *)
(* FracScheduler and AltScheduler extend this one with the policy that     *)
(* chooses the next VM.                                                    *)
(*                                                                         *)
(* SIGUSR1 has a handler that does nothing and is NOT blocked in the       *)
(* thread's own signal mask, so a pending SIGUSR1 is consumed by the       *)
(* handler before any user-mode statement executes.  Inside KVM_RUN the    *)
(* mask given to KVM_SET_SIGNAL_MASK is in force instead; inside sigwait   *)
(* the signal is dequeued by sigwait.                                      *)
(***************************************************************************)
EXTENDS Integers

CONSTANTS
  GuestExits,   \* the exits to user space the guest code can cause
  KvmErrors     \* can KVM_RUN fail for another reason than a signal?

VM == {0, 1}    \* indices of vm_id[]

(* exit_reason values by what the switch in kvm_run_vm() does with them. *)
Resuming == {"UNKNOWN", "DEBUG", "MMIO"}   \* print and fall out of the switch
Stopping == {"SHUTDOWN", "OTHER"}          \* goto exit_kvm
ExitReason == Resuming \cup Stopping \cup {"IO", "INTR"}

ASSUME GuestExitsAssumption == GuestExits \subseteq ExitReason \ {"INTR"}
ASSUME KvmErrorsAssumption == KvmErrors \in BOOLEAN

VARIABLES
  pc,           \* where the hypervisor thread is
  turn,         \* index in vm_id[] of the VM to run
  exit_reason,  \* kvm_run->exit_reason of each VM's vcpu
  ret,          \* the last result of KVM_RUN
  pending,      \* is SIGUSR1 pending for the thread?
  timerArmed,   \* did timer_create and timer_settime succeed?
  maskBlocks,   \* does the mask in force inside KVM_RUN of a VM block SIGUSR1?
  onlyIntr,     \* history: every KVM_RUN so far was ended by a signal
  ticks         \* history: timer expirations since KVM_RUN was last called,
                \* counted up to TickCap

TickCap == 2    \* bound of the history variable ticks

kvmVars == <<exit_reason, ret, onlyIntr>>
signalVars == <<pending, timerArmed, maskBlocks>>
timerVars == <<pc, turn, exit_reason, ret, pending, timerArmed, maskBlocks,
               onlyIntr, ticks>>

Stopped == {"exit_kvm", "failed"}
UserPc == {"setup", "top", "returned", "io_sleep"}   \* executing user code
Pc == UserPc \cup {"guest", "sigwait"} \cup Stopped

TimerTypeOK ==
  /\ pc \in Pc
  /\ turn \in VM
  /\ exit_reason \in [VM -> ExitReason]
  /\ ret \in {-1, 0}
  /\ pending \in BOOLEAN
  /\ timerArmed \in BOOLEAN
  /\ maskBlocks \in [VM -> BOOLEAN]
  /\ onlyIntr \in BOOLEAN
  /\ ticks \in 0..TickCap

(* main() has created both VMs; the kvm_run pages are still zero. *)
TimerInit ==
  /\ pc = "setup"
  /\ turn = 0
  /\ exit_reason = [v \in VM |-> "UNKNOWN"]
  /\ ret = 0
  /\ pending = FALSE
  /\ timerArmed = FALSE
  /\ maskBlocks = [v \in VM |-> FALSE]
  /\ onlyIntr = TRUE
  /\ ticks = 0

(* A user-mode statement runs only once a pending signal was handled. *)
User(p) == pc = p /\ ~pending

(***************************************************************************)
(* sigaction, timer_create, timer_settime, KVM_SET_SIGNAL_MASK for each    *)
(* VM.  Failures of the timer calls are reported with perror and ignored;  *)
(* sigaction has no way to fail for SIGUSR1 and a handler of the program.  *)
(* Only len of the kvm_signal_mask is written, its sigset is read          *)
(* uninitialised, and a KVM_SET_SIGNAL_MASK that fails, unnoticed, leaves  *)
(* the thread's own mask in force for that VM: so whether SIGUSR1 is       *)
(* blocked while a guest runs is arbitrary for each of them.               *)
(***************************************************************************)
SetUp ==
  /\ User("setup")
  /\ pc' = "top"
  /\ timerArmed' \in BOOLEAN
  /\ maskBlocks' \in [VM -> BOOLEAN]
  /\ UNCHANGED <<turn, kvmVars, pending, ticks>>

(* The timer expires.  A second expiration while the signal is pending is
   an overrun and changes nothing. *)
Tick ==
  /\ timerArmed /\ ~pending /\ pc \notin Stopped
  /\ pending' = TRUE
  /\ ticks' = IF ticks < TickCap THEN ticks + 1 ELSE ticks
  /\ UNCHANGED <<pc, turn, kvmVars, timerArmed, maskBlocks>>

(* timer_handler(): consumes the signal and does nothing else. *)
TimerHandler ==
  /\ pending /\ pc \in UserPc
  /\ pending' = FALSE
  /\ UNCHANGED <<pc, turn, kvmVars, timerArmed, maskBlocks, ticks>>

(***************************************************************************)
(* The three ways KVM_RUN returns.                                         *)
(***************************************************************************)
KvmInterrupted ==
  /\ pc = "guest" /\ pending /\ ~maskBlocks[turn]
  /\ pc' = "returned"
  /\ exit_reason' = [exit_reason EXCEPT ![turn] = "INTR"]
  /\ ret' = -1
  /\ UNCHANGED <<turn, signalVars, onlyIntr, ticks>>

KvmExits ==
  /\ pc = "guest"
  /\ pc' = "returned"
  /\ \E r \in GuestExits : exit_reason' = [exit_reason EXCEPT ![turn] = r]
  /\ ret' = 0
  /\ onlyIntr' = FALSE
  /\ UNCHANGED <<turn, signalVars, ticks>>

(* An error return: exit_reason keeps its previous value or reads UNKNOWN. *)
KvmFails ==
  /\ KvmErrors
  /\ pc = "guest"
  /\ pc' = "returned"
  /\ \E r \in {exit_reason[turn], "UNKNOWN"} :
       exit_reason' = [exit_reason EXCEPT ![turn] = r]
  /\ ret' = -1
  /\ onlyIntr' = FALSE
  /\ UNCHANGED <<turn, signalVars, ticks>>

KvmReturns == KvmInterrupted \/ KvmExits \/ KvmFails

(***************************************************************************)
(* The switch on exit_reason, and the tests on ret that follow it.         *)
(***************************************************************************)
StopLoop ==
  /\ User("returned")
  /\ exit_reason[turn] \in Stopping
  /\ pc' = "exit_kvm"
  /\ UNCHANGED <<turn, kvmVars, signalVars, ticks>>

HandleIO ==
  /\ User("returned")
  /\ exit_reason[turn] = "IO"
  /\ pc' = "io_sleep"
  /\ UNCHANGED <<turn, kvmVars, signalVars, ticks>>

(* The thread has left the switch by a break. *)
PastSwitch ==
  \/ User("io_sleep")
  \/ User("returned") /\ exit_reason[turn] \in Resuming \cup {"INTR"}

RunFailed ==
  /\ PastSwitch
  /\ ret < 0 /\ exit_reason[turn] # "INTR"
  /\ pc' = "failed"
  /\ UNCHANGED <<turn, kvmVars, signalVars, ticks>>

Resume ==
  /\ PastSwitch
  /\ ret >= 0
  /\ pc' = "top"
  /\ UNCHANGED <<turn, kvmVars, signalVars, ticks>>

(* KVM_RUN was interrupted: the policy picks the next VM, then sigwait. *)
SwitchTo(next) ==
  /\ PastSwitch
  /\ ret < 0 /\ exit_reason[turn] = "INTR"
  /\ turn' = next
  /\ pc' = "sigwait"
  /\ UNCHANGED <<kvmVars, signalVars, ticks>>

(* sigwait returns when SIGUSR1 becomes pending, and takes it. *)
SigWait ==
  /\ pc = "sigwait" /\ pending
  /\ pending' = FALSE
  /\ pc' = "top"
  /\ UNCHANGED <<turn, kvmVars, timerArmed, maskBlocks, ticks>>

(* The head of the loop, up to the entry of the KVM_RUN ioctl. *)
CallKvmRun ==
  /\ User("top")
  /\ pc' = "guest"
  /\ ticks' = 0
  /\ UNCHANGED <<turn, kvmVars, signalVars>>

(* The steps the policy has no part in: those of the kernel for the thread,
   and the user-mode statements of the loop. *)
KernelStep == TimerHandler \/ KvmReturns \/ SigWait
Statement == SetUp \/ StopLoop \/ HandleIO \/ RunFailed \/ Resume

(* A KVM_RUN call that follows one ended by a signal. *)
NextQuantum ==
  pc = "top" /\ pc' = "guest" /\ \E v \in VM : exit_reason[v] = "INTR"

(* While guests are only ever interrupted, two timer expirations pass       *)
(* between two quanta: the first ends the running one and is consumed by    *)
(* timer_handler, sigwait then waits for the second.                        *)
QuantumCostsTwoTicks == [][NextQuantum /\ onlyIntr => ticks >= 2]_timerVars
=============================================================================
