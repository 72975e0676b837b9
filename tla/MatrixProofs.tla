---------------------------- MODULE MatrixProofs -----------------------------
(***************************************************************************)
(* Proofs about matrix.c, for all shares FRAC_A, FRAC_B and all guests:    *)
(* first about its run loop (FracScheduler), then about the whole of it.   *)
(***************************************************************************)
EXTENDS Matrix, TLAPS

(* The loop starts in a state of the inductive invariant. *)
LEMMA InitIInv == Init => IInv
<1> SUFFICES ASSUME Init PROVE IInv
  OBVIOUS
<1> USE DEF Init, TimerInit
<1>1. TypeOK
  <2>1. pc \in Pc
    BY DEF Pc, UserPc
  <2>2. exit_reason \in [VM -> ExitReason]
    BY DEF ExitReason, Resuming
  <2>3. turn \in VM /\ ret \in {-1, 0} /\ ticks \in 0 .. TickCap
    BY DEF VM, TickCap
  <2>4. count \in 0 .. FRAC_A + FRAC_B - 1
    BY FracAssumption
  <2>5. /\ pending \in BOOLEAN /\ timerArmed \in BOOLEAN
        /\ maskBlocks \in [VM -> BOOLEAN] /\ onlyIntr \in BOOLEAN
    OBVIOUS
  <2> QED
    BY <2>1, <2>2, <2>3, <2>4, <2>5 DEF TypeOK, TimerTypeOK
<1>2. LoopInv /\ TurnInv /\ TickInv
  BY FracAssumption DEF LoopInv, TurnInv, TickInv, NextTurn, VM
<1> QED
  BY <1>1, <1>2 DEF IInv

(* Every step of the kernel, the timer and the loop keeps the invariant.    *)
LEMMA StepIInv == IInv /\ [Next]_vars => IInv'
<1> SUFFICES ASSUME IInv, [Next]_vars PROVE IInv'
  OBVIOUS
<1> USE FracAssumption, GuestExitsAssumption
        DEF IInv, TypeOK, TimerTypeOK, LoopInv, TurnInv, TickInv, NextTurn,
            VM, Pc, UserPc, Stopped, ExitReason, Resuming, Stopping, TickCap,
            User, PastSwitch, kvmVars, signalVars
<1>1. CASE RunGuest
  BY <1>1 DEF RunGuest, CallKvmRun
<1>2. CASE Switch
  BY <1>2 DEF Switch, SwitchTo
<1>3. CASE Timer
  BY <1>3 DEF Timer, Tick
<1>4. CASE Kernel
  <2>1. CASE TimerHandler
    BY <1>4, <2>1 DEF Kernel, TimerHandler
  <2>2. CASE KvmInterrupted
    BY <1>4, <2>2 DEF Kernel, KvmInterrupted
  <2>3. CASE KvmExits
    <3>1. PICK r \in GuestExits :
            exit_reason' = [exit_reason EXCEPT ![turn] = r]
      BY <2>3 DEF KvmExits
    <3>2. r \in ExitReason
      BY <3>1
    <3>3. exit_reason' \in [VM -> ExitReason]
      BY <3>1, <3>2
    <3>4. pc' \in Pc /\ ret' \in {-1, 0} /\ onlyIntr' = FALSE
      BY <2>3 DEF KvmExits
    <3> QED
      BY <1>4, <2>3, <3>3, <3>4 DEF Kernel, KvmExits
  <2>4. CASE KvmFails
    <3>1. PICK r \in {exit_reason[turn], "UNKNOWN"} :
            exit_reason' = [exit_reason EXCEPT ![turn] = r]
      BY <2>4 DEF KvmFails
    <3>2. r \in ExitReason
      BY <3>1
    <3>3. exit_reason' \in [VM -> ExitReason]
      BY <3>1, <3>2
    <3>4. pc' \in Pc /\ ret' \in {-1, 0} /\ onlyIntr' = FALSE
      BY <2>4 DEF KvmFails
    <3> QED
      BY <1>4, <2>4, <3>3, <3>4 DEF Kernel, KvmFails
  <2>5. CASE SigWait
    BY <1>4, <2>5 DEF Kernel, SigWait
  <2> QED
    BY <1>4, <2>1, <2>2, <2>3, <2>4, <2>5 DEF Kernel, KernelStep, KvmReturns
<1>5. CASE Statement /\ UNCHANGED count
  <2>1. CASE SetUp
    BY <1>5, <2>1 DEF SetUp
  <2>2. CASE StopLoop
    BY <1>5, <2>2 DEF StopLoop
  <2>3. CASE HandleIO
    BY <1>5, <2>3 DEF HandleIO
  <2>4. CASE RunFailed
    BY <1>5, <2>4 DEF RunFailed
  <2>5. CASE Resume
    BY <1>5, <2>5 DEF Resume
  <2> QED
    BY <1>5, <2>1, <2>2, <2>3, <2>4, <2>5 DEF Statement
<1>6. CASE UNCHANGED vars
  BY <1>6 DEF vars, timerVars
<1> QED
  BY <1>1, <1>2, <1>3, <1>4, <1>5, <1>6 DEF Next, Loop

(* The inductive invariant holds of the whole run loop. *)
THEOREM Invariant == Spec => []IInv
  BY InitIInv, StepIInv, PTL DEF Spec

(* Type correctness, for every pair of shares and every kind of guest. *)
THEOREM TypeCorrect == Spec => []TypeOK
  BY Invariant, PTL DEF IInv

(* Two timer expirations pass between two quanta, whatever the shares. *)
THEOREM TwoTicks == Spec => QuantumCostsTwoTicks
<1>1. IInv => (NextQuantum /\ onlyIntr => ticks >= 2)
  BY DEF IInv, TickInv, NextQuantum
<1> QED
  BY <1>1, Invariant, PTL DEF QuantumCostsTwoTicks

-----------------------------------------------------------------------------
(* A KVM_RUN call made while the guests were only ever interrupted is a     *)
(* quantum that the abstract share grants to the VM whose turn it is.       *)
LEMMA RunGuestGrants == IInv /\ RunGuest /\ onlyIntr => Abstract!Grant(turn)
<1> SUFFICES ASSUME IInv, RunGuest, onlyIntr PROVE Abstract!Grant(turn)
  OBVIOUS
<1> DEFINE left == [Left EXCEPT ![turn] = @ - 1]
           share == [v \in VM |-> IF v = 0 THEN FRAC_A ELSE FRAC_B]
           spent == \A w \in VM : left[w] = 0
<1> USE FracAssumption DEF VM
<1>1. /\ count \in 0 .. FRAC_A + FRAC_B - 1
      /\ turn = IF count >= FRAC_A THEN 1 ELSE 0
      /\ count' = IF count + 1 = FRAC_A + FRAC_B THEN 0 ELSE count + 1
  BY DEF IInv, TypeOK, TurnInv, NextTurn, RunGuest, CallKvmRun, User
<1>0. UNCHANGED onlyIntr
  BY DEF RunGuest, CallKvmRun, kvmVars
<1>2. left = [v \in VM |-> IF v = turn THEN Left[v] - 1 ELSE Left[v]]
  BY <1>1 DEF Left
<1>3. Left[turn] > 0
  BY <1>1 DEF Left
<1>4. spent <=> count + 1 = FRAC_A + FRAC_B
  BY <1>1, <1>2 DEF Left
<1>5. Left' = IF spent THEN share ELSE left
  <2>1. CASE count + 1 = FRAC_A + FRAC_B
    BY <1>1, <1>4, <2>1 DEF Left
  <2>2. CASE count + 1 # FRAC_A + FRAC_B
    BY <1>1, <1>2, <1>4, <2>2 DEF Left
  <2> QED
    BY <2>1, <2>2
<1>6. OnCpu = -1 /\ OnCpu' = turn
  BY DEF OnCpu, RunGuest, CallKvmRun, User
<1> QED
  BY <1>0, <1>3, <1>5, <1>6 DEF Abstract!Grant, Abstract!Nobody

(* The processor changes hands only where KVM_RUN is called and where it    *)
(* returns.                                                                 *)
LEMMA OthersKeepCpu ==
  ASSUME [Next]_vars, ~RunGuest
  PROVE  UNCHANGED OnCpu \/ OnCpu' = -1
<1> USE DEF OnCpu
<1>1. CASE UNCHANGED vars
  BY <1>1 DEF vars, timerVars
<1>2. CASE Timer
  BY <1>2 DEF Timer, Tick
<1>3. CASE Switch
  BY <1>3 DEF Switch, SwitchTo
<1>4. CASE Kernel
  BY <1>4 DEF Kernel, KernelStep, TimerHandler, KvmReturns, KvmInterrupted,
              KvmExits, KvmFails, SigWait
<1>5. CASE Statement
  BY <1>5 DEF Statement, SetUp, StopLoop, HandleIO, RunFailed, Resume
<1> QED
  BY <1>1, <1>2, <1>3, <1>4, <1>5 DEF Next, Loop

(* A history variable: what onlyIntr says is given up once and for all. *)
LEMMA OnlyIntrStep == [Next]_vars => onlyIntr' = onlyIntr \/ onlyIntr' = FALSE
  BY DEF vars, timerVars, Next, Kernel, Timer, Loop, RunGuest, CallKvmRun,
         Switch, SwitchTo, Tick, KernelStep, TimerHandler, KvmReturns,
         KvmInterrupted, KvmExits, KvmFails, SigWait, Statement, SetUp,
         StopLoop, HandleIO, RunFailed, Resume, kvmVars, signalVars

(* The run loop of matrix.c implements the fair share of the processor, for *)
(* all FRAC_A and FRAC_B and for guests with any exits.                     *)
THEOREM Refinement == Spec => ImplementsFairShare
<1>1. Init => Abstract!Init
  BY FracAssumption
  DEF Init, TimerInit, Abstract!Init, Abstract!Nobody, OnCpu, Left, VM
<1>2. IInv /\ [Next]_vars => [Abstract!Next]_<<OnCpu, OnCpu, Left, onlyIntr>>
  <2> SUFFICES ASSUME IInv, [Next]_vars
               PROVE  [Abstract!Next]_<<OnCpu, OnCpu, Left, onlyIntr>>
    OBVIOUS
  <2>1. CASE onlyIntr' = FALSE
    BY <2>1 DEF Abstract!Next, Abstract!GiveUp
  <2>2. CASE RunGuest /\ onlyIntr
    <3>1. turn \in VM
      BY DEF IInv, TypeOK, TimerTypeOK
    <3> QED
      BY <2>2, <3>1, RunGuestGrants DEF Abstract!Next
  <2>3. CASE onlyIntr' = onlyIntr /\ UNCHANGED count /\ ~RunGuest
    <3>1. UNCHANGED Left
      BY <2>3 DEF Left
    <3>2. CASE UNCHANGED OnCpu
      BY <2>3, <3>1, <3>2
    <3>3. CASE OnCpu' = -1
      BY <2>3, <3>1, <3>3 DEF Abstract!Next, Abstract!Leave, Abstract!Nobody
    <3> QED
      BY <2>3, <3>2, <3>3, OthersKeepCpu
  <2>4. RunGuest \/ UNCHANGED count
    BY DEF Next, Kernel, Timer, Loop, Switch, vars
  <2>5. onlyIntr \in BOOLEAN
    BY DEF IInv, TypeOK, TimerTypeOK
  <2> QED
    BY <2>1, <2>2, <2>3, <2>4, <2>5, OnlyIntrStep
<1> QED
  BY <1>1, <1>2, Invariant, PTL
  DEF Spec, ImplementsFairShare, Abstract!Spec

-----------------------------------------------------------------------------
(***************************************************************************)
(* The program around the run loop.                                        *)
(***************************************************************************)
(* Whatever fails in main(), the run loop sees nothing but its own steps:   *)
(* main() starts it in its initial state and touches none of its variables. *)
LEMMA MainLeavesLoop == Main => UNCHANGED vars
  BY DEF Main, Succeed, LoadBinary, Fail, Ends, InitVcpuFails, Segfault,
         RunReturns, RunExits, Clean, Return

(* So the program is a behaviour of its run loop.                           *)
THEOREM RunsTheLoop == MatrixSpec => Spec
<1>1. MatrixInit => Init
  BY DEF MatrixInit
<1>2. [MatrixNext]_mvars => [Next]_vars
  <2>1. Running(Next) => Next
    BY DEF Running
  <2>2. UNCHANGED mvars => UNCHANGED vars
    BY DEF mvars
  <2> QED
    BY <2>1, <2>2, MainLeavesLoop DEF MatrixNext
<1> QED
  BY <1>1, <1>2, PTL DEF MatrixSpec, Spec

(* The inductive invariant of the loop holds while the program runs. *)
THEOREM MatrixInvariant == MatrixSpec => []IInv
  BY RunsTheLoop, Invariant, PTL

(* Two timer expirations pass between two quanta of the program. *)
THEOREM MatrixTwoTicks == MatrixSpec => QuantumCostsTwoTicks
  BY RunsTheLoop, TwoTicks, PTL

(* The program gives vm1 and vm2 their shares, and nothing once it ends. *)
THEOREM MatrixRefinement == MatrixSpec => ImplementsFairShare
  BY RunsTheLoop, Refinement, PTL

-----------------------------------------------------------------------------
(***************************************************************************)
(* What main() holds.  Each descriptor and each mapping comes with one     *)
(* call and goes with one; a call that fails either ends the program or is *)
(* the making of a vcpu.                                                   *)
(***************************************************************************)
PerVmThing == {"create_vm", "mmap_ram", "set_region", "load_binary",
               "create_vcpu", "mmap_run"}
Thing == {<<"open", 0>>} \cup PerVmThing \X VM

(* The positions of the calls that open and release c; none releases the
   files of load_binary. *)
Opened(c) ==
  CASE c[1] = "open"        -> 1
    [] c[1] = "create_vm"   -> 2 + 3 * c[2]
    [] c[1] = "mmap_ram"    -> 3 + 3 * c[2]
    [] c[1] = "set_region"  -> 4 + 3 * c[2]
    [] c[1] = "load_binary" -> 8 + c[2]
    [] c[1] = "create_vcpu" -> 10 + 2 * c[2]
    [] c[1] = "mmap_run"    -> 11 + 2 * c[2]
Closed(c) ==
  CASE c[1] = "open"                                    -> 21
    [] c[1] \in {"create_vm", "mmap_ram", "set_region"} -> 17 + c[2]
    [] c[1] \in {"create_vcpu", "mmap_run"}             -> 19 + c[2]
    [] c[1] = "load_binary"                             -> 24

(* What main() would hold before call i if no call had failed. *)
There(i) == {c \in Thing : Opened(c) < i /\ i <= Closed(c)}

VcpuThing == {"create_vcpu", "mmap_run"} \X VM

MainInv ==
  /\ next_call \in 1 .. 23
  /\ vcpus \in [VM -> {"none", "valid", "null"}]
  /\ image \in [VM -> {"none", "whole", "short"}]
  /\ status = "going" =>
       /\ \A v \in VM : next_call > 8 + v => image[v] # "none"
       /\ \A v \in VM : /\ next_call > 11 + 2 * v <=> vcpus[v] # "none"
                        /\ next_call > 14 + v => vcpus[v] = "valid"
       /\ held \subseteq There(next_call)
       /\ \A c \in There(next_call) \ held : c \in VcpuThing /\ vcpus[c[2]] = "null"
  /\ status = "returned" => held = {<<"load_binary", v>> : v \in VM}

(* The positions of the calls. *)
LEMMA TheCalls ==
  /\ Len(Calls) = 22 /\ DOMAIN Calls = 1 .. 22
  /\ \A i \in 1 .. 22 :
       /\ Calls[i][1] \in Opening <=> i \in 1 .. 13
       /\ Calls[i][1] \in Cleaning <=> i \in 17 .. 22
       /\ Calls[i][1] = "load_binary" <=> i \in {8, 9}
       /\ Calls[i][1] = "create_vcpu" <=> i \in {10, 12}
       /\ Calls[i][1] = "mmap_run" <=> i \in {11, 13}
       /\ Calls[i][1] = "reset_vcpu" <=> i \in {14, 15}
       /\ Calls[i][1] = "run" <=> i = 16
       /\ Calls[i][2] \in VM
  /\ Calls[8] = <<"load_binary", 0>> /\ Calls[9] = <<"load_binary", 1>>
  /\ Calls[10] = <<"create_vcpu", 0>> /\ Calls[11] = <<"mmap_run", 0>>
  /\ Calls[12] = <<"create_vcpu", 1>> /\ Calls[13] = <<"mmap_run", 1>>
  /\ Calls[14] = <<"reset_vcpu", 0>> /\ Calls[15] = <<"reset_vcpu", 1>>
  /\ Calls[22] = <<"clean", 1>>
<1>1. Len(Calls) = 22 /\ DOMAIN Calls = 1 .. 22
  BY DEF Calls
<1>2. ASSUME NEW i \in 1 .. 22
      PROVE  /\ Calls[i][1] \in Opening <=> i \in 1 .. 13
             /\ Calls[i][1] \in Cleaning <=> i \in 17 .. 22
             /\ Calls[i][1] = "load_binary" <=> i \in {8, 9}
             /\ Calls[i][1] = "create_vcpu" <=> i \in {10, 12}
             /\ Calls[i][1] = "mmap_run" <=> i \in {11, 13}
             /\ Calls[i][1] = "reset_vcpu" <=> i \in {14, 15}
             /\ Calls[i][1] = "run" <=> i = 16
             /\ Calls[i][2] \in VM
  BY DEF Calls, Opening, Cleaning, VM
<1>3. /\ Calls[8] = <<"load_binary", 0>> /\ Calls[9] = <<"load_binary", 1>>
      /\ Calls[10] = <<"create_vcpu", 0>> /\ Calls[11] = <<"mmap_run", 0>>
      /\ Calls[12] = <<"create_vcpu", 1>> /\ Calls[13] = <<"mmap_run", 1>>
      /\ Calls[14] = <<"reset_vcpu", 0>> /\ Calls[15] = <<"reset_vcpu", 1>>
      /\ Calls[22] = <<"clean", 1>>
  BY DEF Calls
<1> QED
  BY <1>1, <1>2, <1>3

(* An opening call opens its own thing. *)
LEMMA OpensOwn ==
  /\ \A i \in 1 .. 22 : Calls[i][1] \in Opening => Calls[i] \in Thing /\ Opened(Calls[i]) = i
  /\ \A c \in Thing : /\ Opened(c) \in 1 .. 13 /\ Closed(c) \in 17 .. 24
                      /\ Calls[Opened(c)] = c /\ c[1] \in Opening
<1>1. ASSUME NEW i \in 1 .. 22, Calls[i][1] \in Opening
      PROVE  Calls[i] \in Thing /\ Opened(Calls[i]) = i
  BY <1>1 DEF Calls, Opening, Thing, PerVmThing, VM, Opened
<1>2. ASSUME NEW c \in Thing
      PROVE  /\ Opened(c) \in 1 .. 13 /\ Closed(c) \in 17 .. 24
             /\ Calls[Opened(c)] = c /\ c[1] \in Opening
  <2>1. CASE c = <<"open", 0>>
    BY <2>1 DEF Calls, Opening, Opened, Closed
  <2>2. ASSUME NEW call \in PerVmThing, NEW v \in VM, c = <<call, v>>
        PROVE  /\ Opened(c) \in 1 .. 13 /\ Closed(c) \in 17 .. 24
               /\ Calls[Opened(c)] = c /\ c[1] \in Opening
    BY <2>2 DEF Calls, Opening, Opened, Closed, PerVmThing, VM
  <2> QED
    BY <2>1, <2>2 DEF Thing
<1> QED
  BY <1>1, <1>2

(* A cleaning call releases what is due, if it is still there. *)
LEMMA ReleasesOwn ==
  ASSUME NEW i \in 17 .. 22, NEW c \in Thing
  PROVE  /\ i # 22 => (c \in Released(Calls[i][1], Calls[i][2]) <=> Closed(c) = i)
         /\ Closed(c) # 22
         /\ i = 22 => (c \in Released(Calls[i][1], Calls[i][2]) <=> Closed(c) = 21)
         /\ Released(Calls[i][1], Calls[i][2]) \subseteq Thing
<1>1. \/ i \in {17, 18} /\ Calls[i] = <<"clean_vm", i - 17>>
      \/ i \in {19, 20} /\ Calls[i] = <<"clean_vcpu", i - 19>>
      \/ i \in {21, 22} /\ Calls[i] = <<"clean", i - 21>>
  BY DEF Calls
<1>2. c = <<"open", 0>> \/ \E call \in PerVmThing, v \in VM : c = <<call, v>>
  BY DEF Thing
<1> QED
  BY <1>1, <1>2 DEF Released, Closed, PerVmThing, VM, Thing

(* What there is from one call to the next. *)
LEMMA ThereNext ==
  ASSUME NEW i \in 1 .. 22
  PROVE  /\ Calls[i][1] \in Opening => There(i + 1) = There(i) \cup {Calls[i]}
         /\ Calls[i][1] \in Cleaning =>
              There(i + 1) = There(i) \ Released(Calls[i][1], Calls[i][2])
         /\ Calls[i][1] \notin Opening \cup Cleaning => There(i + 1) = There(i)
<1> USE DEF There
<1>1. CASE Calls[i][1] \in Opening
  <2>1. i \in 1 .. 13 /\ Calls[i] \in Thing /\ Opened(Calls[i]) = i
    BY <1>1, TheCalls, OpensOwn
  <2>2. \A c \in Thing : Opened(c) = i => c = Calls[i]
    BY OpensOwn
  <2>3. There(i + 1) = There(i) \cup {Calls[i]}
    BY <2>1, <2>2, OpensOwn
  <2> QED
    BY <1>1, <2>1, <2>3, TheCalls
<1>2. CASE Calls[i][1] \in Cleaning
  <2>1. i \in 17 .. 22
    BY <1>2, TheCalls
  <2>2. There(i + 1) = There(i) \ Released(Calls[i][1], Calls[i][2])
    BY <2>1, OpensOwn, ReleasesOwn
  <2> QED
    BY <1>2, <2>1, <2>2, TheCalls
<1>3. CASE Calls[i][1] \notin Opening \cup Cleaning
  <2>1. i \notin 17 .. 22 /\ \A c \in Thing : Opened(c) # i
    BY <1>3, TheCalls, OpensOwn
  <2> QED
    BY <1>3, <2>1, OpensOwn
<1> QED
  BY <1>1, <1>2, <1>3

(* main() starts with nothing. *)
LEMMA InitMainInv == MatrixInit => MainInv
<1> SUFFICES ASSUME MatrixInit PROVE MainInv
  OBVIOUS
<1>1. There(1) = {}
  BY OpensOwn DEF There
<1> QED
  BY <1>1 DEF MatrixInit, MainInv, VM

(* The two things of a vcpu become due together. *)
LEMMA VcpuDue ==
  ASSUME NEW v \in VM, NEW i \in {10 + 2 * v, 11 + 2 * v}
  PROVE  /\ There(i) \subseteq There(12 + 2 * v)
         /\ \A c \in There(12 + 2 * v) \ There(i) : c \in VcpuThing /\ c[2] = v
<1>1. ASSUME NEW k \in 10 .. 13, NEW j, j = k + 1
      PROVE  There(j) = There(k) \cup {Calls[k]}
  BY <1>1, ThereNext, TheCalls
<1>2. CASE v = 0
  <2>1. There(12) = There(11) \cup {Calls[11]} /\ There(11) = There(10) \cup {Calls[10]}
    BY <1>1
  <2>2. 12 + 2 * v = 12 /\ i \in {10, 11}
    BY <1>2
  <2> QED
    BY <1>2, <2>1, <2>2, TheCalls DEF VcpuThing, VM
<1>3. CASE v = 1
  <2>1. There(14) = There(13) \cup {Calls[13]} /\ There(13) = There(12) \cup {Calls[12]}
    BY <1>1
  <2>2. 12 + 2 * v = 14 /\ i \in {12, 13}
    BY <1>3
  <2> QED
    BY <1>3, <2>1, <2>2, TheCalls DEF VcpuThing, VM
<1> QED
  BY <1>2, <1>3 DEF VM

(* A call that succeeds, and a vcpu that is not made.                       *)
LEMMA CallsKeepMain == MainInv /\ (Succeed \/ LoadBinary \/ InitVcpuFails) => MainInv'
<1> SUFFICES ASSUME MainInv, Succeed \/ LoadBinary \/ InitVcpuFails PROVE MainInv'
  OBVIOUS
<1> DEFINE i == next_call
           call == Calls[i][1]
<1>1. /\ status = "going" /\ i \in 1 .. 22 /\ UNCHANGED status
      /\ call \in Opening \cup {"reset_vcpu"}
  BY TheCalls DEF Succeed, LoadBinary, InitVcpuFails, Going, Opening
<1>2. /\ held \subseteq There(i)
      /\ \A c \in There(i) \ held : c \in VcpuThing /\ vcpus[c[2]] = "null"
      /\ \A v \in VM : /\ i > 11 + 2 * v <=> vcpus[v] # "none"
                       /\ i > 14 + v => vcpus[v] = "valid"
      /\ vcpus \in [VM -> {"none", "valid", "null"}]
      /\ image \in [VM -> {"none", "whole", "short"}]
      /\ \A v \in VM : i > 8 + v => image[v] # "none"
  BY <1>1 DEF MainInv
<1>3. There(i) \subseteq Thing /\ \A c \in There(i) : Opened(c) < i
  BY DEF There
<1>4. CASE Succeed /\ call # "mmap_run"
  <2>1. /\ i' = i + 1 /\ UNCHANGED <<vcpus, image>> /\ call # "load_binary"
        /\ held' = held \cup (IF call \in Opening THEN {Calls[i]} ELSE {})
        /\ call = "reset_vcpu" => vcpus[Vm] # "null"
    BY <1>1, <1>4 DEF Succeed, Going
  <2>2. There(i + 1) = There(i) \cup (IF call \in Opening THEN {Calls[i]} ELSE {})
    BY <1>1, ThereNext DEF Opening, Cleaning
  <2>3. \A v \in VM : /\ i' > 11 + 2 * v <=> vcpus'[v] # "none"
                      /\ i' > 14 + v => vcpus'[v] = "valid"
    BY <1>1, <1>2, <1>4, <2>1, TheCalls DEF VM, Vm
  <2>4. \A v \in VM : i' > 8 + v => image'[v] # "none"
    BY <1>1, <1>2, <2>1, TheCalls DEF VM
  <2> QED
    BY <1>1, <1>2, <2>1, <2>2, <2>3, <2>4 DEF MainInv
<1>5. CASE Succeed /\ call = "mmap_run"
  <2>1. /\ i' = i + 1 /\ vcpus' = [vcpus EXCEPT ![Vm] = "valid"]
        /\ held' = held \cup {Calls[i]} /\ UNCHANGED image
    BY <1>1, <1>5 DEF Succeed, Going, Opening
  <2>2. There(i + 1) = There(i) \cup {Calls[i]}
    BY <1>1, <1>5, ThereNext DEF Opening
  <2>3. Vm \in VM /\ i = 11 + 2 * Vm
    BY <1>1, <1>5, TheCalls DEF Vm, VM
  <2>4. \A v \in VM : i' > 11 + 2 * v <=> vcpus'[v] # "none"
    BY <1>1, <1>2, <2>1, <2>3 DEF VM
  <2>5. \A c \in There(i) \ held : c[2] # Vm
    <3>1. vcpus[Vm] = "none"
      BY <1>2, <2>3
    <3> QED
      BY <1>2, <3>1
  <2> QED
    BY <1>1, <1>2, <2>1, <2>2, <2>3, <2>4, <2>5 DEF MainInv, VcpuThing, VM
<1>6. CASE InitVcpuFails
  <2>1. /\ call \in {"create_vcpu", "mmap_run"}
        /\ vcpus' = [vcpus EXCEPT ![Vm] = "null"] /\ UNCHANGED <<held, image>>
        /\ i' = i + (IF call = "create_vcpu" THEN 2 ELSE 1)
    BY <1>1, <1>6 DEF InitVcpuFails, Going
  <2>2. Vm \in VM /\ i' = 12 + 2 * Vm /\ i \in 10 .. 13
    BY <1>1, <2>1, TheCalls DEF Vm, VM
  <2>3. There(i) \subseteq There(i')
        /\ \A c \in There(i') \ There(i) : c \in VcpuThing /\ c[2] = Vm
    <3>1. i \in {10 + 2 * Vm, 11 + 2 * Vm}
      BY <1>1, <2>1, <2>2, TheCalls DEF Vm, VM
    <3> QED
      BY <2>2, <3>1, VcpuDue
  <2>4. \A v \in VM : /\ i' > 11 + 2 * v <=> vcpus'[v] # "none"
                      /\ i' > 14 + v => vcpus'[v] = "valid"
    BY <1>1, <1>2, <2>1, <2>2 DEF VM
  <2>5. \A c \in There(i') \ held : c \in VcpuThing /\ vcpus'[c[2]] = "null"
    BY <1>2, <2>1, <2>2, <2>3 DEF VcpuThing
  <2>6. i' \in 1 .. 23
    BY <2>2 DEF VM
  <2> QED
    BY <1>1, <1>2, <2>1, <2>2, <2>3, <2>4, <2>5, <2>6 DEF MainInv, VM
<1>7. CASE LoadBinary
  <2>1. /\ call = "load_binary" /\ i' = i + 1 /\ UNCHANGED vcpus
        /\ held' = held \cup {Calls[i]}
    BY <1>1, <1>7 DEF LoadBinary, Going
  <2>2. PICK loaded \in {"whole", "short"} : image' = [image EXCEPT ![Vm] = loaded]
    BY <1>7 DEF LoadBinary
  <2>3. Vm \in VM /\ i = 8 + Vm
    BY <1>1, <2>1, TheCalls DEF Vm, VM
  <2>4. There(i + 1) = There(i) \cup {Calls[i]}
    BY <1>1, <2>1, ThereNext DEF Opening
  <2>5. \A v \in VM : i' > 8 + v => image'[v] # "none"
    BY <1>1, <1>2, <2>1, <2>2, <2>3 DEF VM
  <2>6. \A v \in VM : /\ i' > 11 + 2 * v <=> vcpus'[v] # "none"
                      /\ i' > 14 + v => vcpus'[v] = "valid"
    BY <1>1, <1>2, <2>1, <2>3 DEF VM
  <2>7. i' \in 1 .. 23 /\ image' \in [VM -> {"none", "whole", "short"}]
    <3>1. i' \in 1 .. 23
      BY <1>1, <2>1
    <3>2. loaded \in {"none", "whole", "short"}
      BY <2>2
    <3>3. image' \in [VM -> {"none", "whole", "short"}]
      BY <1>2, <2>2, <3>2
    <3> QED
      BY <3>1, <3>3
  <2> QED
    BY <1>1, <1>2, <2>1, <2>4, <2>5, <2>6, <2>7 DEF MainInv
<1> QED
  BY <1>4, <1>5, <1>6, <1>7

(* Cleaning releases of what is held just what is no longer due. *)
LEMMA CleanKeepsMain == MainInv /\ Clean => MainInv'
<1> SUFFICES ASSUME MainInv, Clean PROVE MainInv'
  OBVIOUS
<1> DEFINE i == next_call
<1>1. /\ status = "going" /\ i \in 17 .. 22 /\ i' = i + 1
      /\ held' = held \ Released(Calls[i][1], Vm) /\ UNCHANGED <<status, image, vcpus>>
      /\ Calls[i][1] \in Cleaning
  BY TheCalls DEF Clean, Going
<1>2. There(i + 1) = There(i) \ Released(Calls[i][1], Vm)
  BY <1>1, ThereNext DEF Vm
<1> QED
  BY <1>1, <1>2 DEF MainInv, VM

(* After the last call only the two files are due. *)
LEMMA ThereAtEnd == There(23) = {<<"load_binary", v>> : v \in VM}
<1>1. \A c \in Thing : c \in There(23) <=> c[1] = "load_binary"
  BY OpensOwn DEF There, Closed, Thing, PerVmThing, VM
<1> QED
  BY <1>1 DEF Thing, PerVmThing, VM, There

(* The steps of the run loop and the ends of the program. *)
LEMMA OthersKeepMain ==
  ASSUME MainInv, [MatrixNext]_mvars,
         ~(Succeed \/ LoadBinary \/ InitVcpuFails \/ Clean)
  PROVE  MainInv'
<1>1. CASE Fail \/ Segfault \/ RunExits
  BY <1>1 DEF Fail, Segfault, RunExits, Ends, MainInv
<1>2. CASE RunReturns
  <2>1. /\ next_call = 16 /\ next_call' = 17 /\ UNCHANGED <<status, held, image, vcpus>>
        /\ There(17) = There(16)
    BY <1>2, TheCalls, ThereNext DEF RunReturns, Going, Opening, Cleaning
  <2> QED
    BY <2>1 DEF MainInv, VM
<1>3. CASE Return
  <2>1. /\ next_call = 23 /\ status = "going" /\ status' = "returned"
        /\ UNCHANGED <<next_call, held, image, vcpus>>
    BY <1>3, TheCalls DEF Return
  <2>2. \A c \in There(23) : c \in held
    BY <2>1 DEF MainInv, VcpuThing, VM
  <2>3. held' = {<<"load_binary", v>> : v \in VM}
    BY <2>1, <2>2, ThereAtEnd DEF MainInv
  <2> QED
    BY <2>1, <2>3 DEF MainInv
<1>4. CASE Running(Next) \/ UNCHANGED mvars
  BY <1>4 DEF Running, mainVars, mvars, MainInv
<1> QED
  BY <1>1, <1>2, <1>3, <1>4 DEF MatrixNext, Main

(* main() always holds what it should at its place, whatever has failed.    *)
THEOREM MainInvariant == MatrixSpec => []MainInv
<1>1. MainInv /\ [MatrixNext]_mvars => MainInv'
  BY CallsKeepMain, CleanKeepsMain, OthersKeepMain
<1> QED
  BY <1>1, InitMainInv, PTL DEF MatrixSpec

(* A guest runs only with both VMs made, whatever failed in making them:    *)
(* reset_vcpu has met every null vcpu before kvm_run_vm is called.  Their   *)
(* images have been read as far as read() went.                             *)
THEOREM GuestsMade == MatrixSpec => []GuestsRunMade
<1>1. MainInv => GuestsRunMade
  <2> SUFFICES ASSUME MainInv, status = "going", Going({"run"}), NEW v \in VM
               PROVE  /\ vcpus[v] = "valid" /\ image[v] # "none"
                      /\ ({"create_vm", "mmap_ram", "set_region", "load_binary",
                           "create_vcpu", "mmap_run"} \X {v})
                           \cup {<<"open", 0>>} \subseteq held
    BY DEF GuestsRunMade
  <2>1. next_call = 16
    BY TheCalls DEF Going
  <2>2. \A w \in VM : vcpus[w] = "valid" /\ image[w] # "none"
    BY <2>1 DEF MainInv, VM
  <2>3. There(16) \subseteq held
    BY <2>1, <2>2 DEF MainInv, VcpuThing
  <2>4. \A c \in Thing : c \in There(16)
    BY OpensOwn DEF There
  <2> QED
    BY <2>2, <2>3, <2>4 DEF Thing, PerVmThing
<1> QED
  BY <1>1, MainInvariant, PTL

(* A program that returns has released all but the files of load_binary,    *)
(* each thing while it was there; only /dev/kvm is closed a second time.    *)
THEOREM CleanUp == MatrixSpec => []CleanUpCloses
<1>1. MainInv => CleanUpCloses
  <2> SUFFICES ASSUME MainInv, status = "going", next_call \in DOMAIN Calls,
                      Calls[next_call][1] \in Cleaning,
                      Calls[next_call] # <<"clean", 1>>
               PROVE  Released(Calls[next_call][1], Vm) \subseteq held
    BY DEF MainInv, CleanUpCloses, Going
  <2> DEFINE i == next_call
  <2>1. i \in 17 .. 21
    BY TheCalls
  <2>2. There(i) \subseteq held
    BY <2>1 DEF MainInv, VcpuThing, VM
  <2>3. Released(Calls[i][1], Vm) \subseteq Thing
    <3>1. PICK c \in Thing : c = <<"open", 0>>
      BY DEF Thing
    <3> QED
      BY <2>1, ReleasesOwn DEF Vm
  <2>4. \A c \in Thing : c \in Released(Calls[i][1], Vm) => Closed(c) = i
    BY <2>1, ReleasesOwn DEF Vm
  <2> QED
    BY <2>1, <2>2, <2>3, <2>4, OpensOwn DEF There
<1> QED
  BY <1>1, MainInvariant, PTL
=============================================================================
