------------------------------- MODULE Matrix --------------------------------
(***************************************************************************)
(* The whole of matrix.c: main() creates two VMs and their vcpus, runs     *)
(* them (FracScheduler), and cleans up.  Every call may fail; most         *)
(* failures end the program, that of kvm_init_vcpu() is noticed by nobody. *)
(* matrix-a.c and matrix-b.c have the same main().                         *)
(***************************************************************************)
EXTENDS FracScheduler, Sequences

VARIABLES
  next_call,   \* index in Calls of the next call of main()
  status,      \* how the program goes on, or has ended
  held,        \* the calls whose descriptor, mapping or region is still there
  image,       \* how much of the guest's binary is in each VM's memory
  vcpus        \* the pointer vm->vcpus of each VM

mainVars == <<next_call, status, held, image, vcpus>>
mvars == <<vars, mainVars>>

(* kvm_init opens one descriptor for both VMs, and kvm_clean closes it once
   for each. *)
M_Calls_cleanTwice ==
  << <<"open", 0>>,
     <<"create_vm", 0>>, <<"mmap_ram", 0>>, <<"set_region", 0>>,
     <<"create_vm", 1>>, <<"mmap_ram", 1>>, <<"set_region", 1>>,
     <<"load_binary", 0>>, <<"load_binary", 1>>,
     <<"create_vcpu", 0>>, <<"mmap_run", 0>>, <<"create_vcpu", 1>>, <<"mmap_run", 1>>,
     <<"reset_vcpu", 0>>, <<"reset_vcpu", 1>>, <<"run", 0>>,
     <<"clean_vm", 0>>, <<"clean_vm", 0>>, <<"clean_vcpu", 0>>, <<"clean_vcpu", 1>>,
     <<"clean", 0>>, <<"clean", 1>> >>
Calls ==
  << <<"open", 0>>,
     <<"create_vm", 0>>, <<"mmap_ram", 0>>, <<"set_region", 0>>,
     <<"create_vm", 1>>, <<"mmap_ram", 1>>, <<"set_region", 1>>,
     <<"load_binary", 0>>, <<"load_binary", 1>>,
     <<"create_vcpu", 0>>, <<"mmap_run", 0>>, <<"create_vcpu", 1>>, <<"mmap_run", 1>>,
     <<"reset_vcpu", 0>>, <<"reset_vcpu", 1>>, <<"run", 0>>,
     <<"clean_vm", 0>>, <<"clean_vm", 1>>, <<"clean_vcpu", 0>>, <<"clean_vcpu", 1>>,
     <<"clean", 0>>, <<"clean", 1>> >>

Opening == {"open", "create_vm", "mmap_ram", "set_region", "load_binary",
            "create_vcpu", "mmap_run"}
Cleaning == {"clean_vm", "clean_vcpu", "clean"}
(* What each cleaning function closes and unmaps; a VM's region goes with the
   memory behind it. *)
Released(call, v) ==
  CASE call = "clean_vm"   -> {<<"create_vm", v>>, <<"mmap_ram", v>>, <<"set_region", v>>}
    [] call = "clean_vcpu" -> {<<"mmap_run", v>>, <<"create_vcpu", v>>}
    [] call = "clean"      -> {<<"open", 0>>}

MatrixInit ==
  /\ Init
  /\ next_call = 1
  /\ status = "going"
  /\ held = {}
  /\ image = [v \in VM |-> "none"]
  /\ vcpus = [v \in VM |-> "none"]

Going(calls) ==
  /\ status = "going" /\ next_call \in DOMAIN Calls
  /\ Calls[next_call][1] \in calls
Vm == Calls[next_call][2]

(* The call succeeds. *)
Succeed ==
  /\ Going((Opening \ {"load_binary"}) \cup {"reset_vcpu"})
  /\ Going({"reset_vcpu"}) => vcpus[Vm] # "null"
  /\ held' = held \cup (IF Going(Opening) THEN {Calls[next_call]} ELSE {})
  /\ vcpus' = IF Going({"mmap_run"}) THEN [vcpus EXCEPT ![Vm] = "valid"] ELSE vcpus
  /\ next_call' = next_call + 1
  /\ UNCHANGED <<vars, status, image>>

(* load_binary has opened its file.  A read that fails ends its loop like
   the end of the file, so the image may be incomplete and main goes on; what
   such a guest does is any of GuestExits, as of any guest. *)
LoadBinary ==
  /\ Going({"load_binary"})
  /\ held' = held \cup {Calls[next_call]}
  /\ \E loaded \in {"whole", "short"} : image' = [image EXCEPT ![Vm] = loaded]
  /\ next_call' = next_call + 1
  /\ UNCHANGED <<vars, status, vcpus>>

(* exit(1), or return -1 from main: the kernel closes and unmaps it all. *)
Ends(how) ==
  /\ status' = how
  /\ held' = {}
  /\ UNCHANGED <<vars, next_call, image, vcpus>>

M_Fail_createIgnored ==
  /\ Going((Opening \ {"create_vcpu", "mmap_run"}) \cup {"reset_vcpu"})
  /\ Going({"reset_vcpu"}) => vcpus[Vm] # "null"
  /\ IF Going({"mmap_ram"})
       THEN next_call' = next_call + 1 /\ UNCHANGED <<vars, status, held, image, vcpus>>
       ELSE Ends("exit_1")
Fail ==
  /\ Going((Opening \ {"create_vcpu", "mmap_run"}) \cup {"reset_vcpu"})
  /\ Going({"reset_vcpu"}) => vcpus[Vm] # "null"
  /\ Ends("exit_1")

(* kvm_init_vcpu returns NULL, and leaves a descriptor it may have opened;
   main goes on with what follows. *)
InitVcpuFails ==
  /\ Going({"create_vcpu", "mmap_run"})
  /\ vcpus' = [vcpus EXCEPT ![Vm] = "null"]
  /\ next_call' = next_call + (IF Going({"create_vcpu"}) THEN 2 ELSE 1)
  /\ UNCHANGED <<vars, status, held, image>>

(* kvm_reset_vcpu reads vcpu->vcpu_fd. *)
Segfault ==
  /\ Going({"reset_vcpu"}) /\ vcpus[Vm] = "null"
  /\ Ends("segfault")

(* kvm_run_vm from its set-up on. *)
Running(A) == Going({"run"}) /\ A /\ UNCHANGED mainVars

RunReturns ==
  /\ Going({"run"}) /\ pc = "exit_kvm"
  /\ next_call' = next_call + 1
  /\ UNCHANGED <<vars, status, held, image, vcpus>>

RunExits == Going({"run"}) /\ pc = "failed" /\ Ends("exit_1")

(* close and munmap; what is closed a second time is not there any more. *)
Clean ==
  /\ Going(Cleaning)
  /\ held' = held \ Released(Calls[next_call][1], Vm)
  /\ next_call' = next_call + 1
  /\ UNCHANGED <<vars, status, image, vcpus>>

Return ==
  /\ status = "going" /\ next_call = Len(Calls) + 1
  /\ status' = "returned"
  /\ UNCHANGED <<vars, next_call, held, image, vcpus>>

Main == Succeed \/ LoadBinary \/ Fail \/ InitVcpuFails \/ Segfault
          \/ RunReturns \/ RunExits \/ Clean \/ Return

MatrixNext == Main \/ Running(Next)

(***************************************************************************)
(* Fairness: of main's calls, and in the run loop as follows.  The kernel  *)
(* delivers a pending signal and an armed interval timer keeps expiring.   *)
(* A statement of the loop takes microseconds and the timer expires once a *)
(* second, so expirations cannot keep the thread in its signal handler for *)
(* ever: strong fairness of the statements.                                *)
(***************************************************************************)
MatrixSpec ==
  /\ MatrixInit /\ [][MatrixNext]_mvars
  /\ WF_mvars(Main)
  /\ WF_mvars(Running(Kernel)) /\ WF_mvars(Running(Timer)) /\ SF_mvars(Running(Loop))

-----------------------------------------------------------------------------
(* A guest runs only when every call that makes the two VMs has been gone   *)
(* through and what it made is there, however creation went                 *)
(* (matrix.c:414-438): a null vcpu ends the program before that.  Of the    *)
(* images this says only that their files were opened and read: a read that *)
(* fails passes for the end of the file (matrix.c:149-157), and the guest   *)
(* runs on what has been read by then, possibly nothing.                    *)
GuestsRunMade ==
  pc # "setup" /\ status = "going" /\ Going({"run"}) =>
    \A v \in VM :
      /\ vcpus[v] = "valid"
      /\ image[v] # "none"
      /\ {<<"open", 0>>, <<"create_vm", v>>, <<"mmap_ram", v>>, <<"set_region", v>>,
          <<"load_binary", v>>, <<"create_vcpu", v>>, <<"mmap_run", v>>} \subseteq held

(* A program that comes to its end has closed and unmapped everything but   *)
(* the two files of load_binary, and what it closed was open, except for    *)
(* the descriptor of /dev/kvm the second time (matrix.c:393-408, 442-447).  *)
CleanUpCloses ==
  /\ status = "returned" => held = {<<"load_binary", v>> : v \in VM}
  /\ Going(Cleaning) /\ Calls[next_call] # <<"clean", 1>> =>
       Released(Calls[next_call][1], Vm) \subseteq held

(* Neither VM is starved: each runs again and again, unless the program or  *)
(* the loop ends, the timer could not be armed, the arbitrary signal mask   *)
(* of the other VM blocks SIGUSR1, or a guest leaves KVM_RUN by itself for  *)
(* ever (then the expirations can all fall into user mode, where            *)
(* timer_handler swallows them).                                            *)
NoStarvation == \A v \in VM : []<>(status # "going" \/ Served(v))
=============================================================================
