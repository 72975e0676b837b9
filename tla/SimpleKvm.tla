------------------------------ MODULE SimpleKvm ------------------------------
(***************************************************************************)
(* simple-kvm.c and the C guest guest.c it runs: the hypercalls that the   *)
(* guest makes by port I/O.  An OUT or IN of the guest ends KVM_RUN, the   *)
(* switch in run_vm() serves it and resumes the guest.  Two hypercalls are *)
(* an OUT followed by an IN, with the argument kept in a global in         *)
(* between.  Guests make the hypercalls in any order and number.           *)
(***************************************************************************)
EXTENDS Integers

CONSTANTS
  Word,      \* 2^32: the counters are uint32_t
  Buffers,   \* the number of arrays s0, ..., s9 in guest.c
  MemBase,   \* vm->mem, where the guest's memory is mapped in the host
  Gva        \* the addresses that guests ask HC_gvaToHva about

ASSUME WordAssumption == Word \in Nat \ {0, 1}
ASSUME BuffersAssumption == Buffers \in Nat \ {0}
ASSUME AddressAssumption == MemBase \in Nat /\ Gva \subseteq Nat

VARIABLES
  pc,        \* where the program is
  image,     \* the guest program loaded
  total_exits, exits_due_to_io_in, exits_due_to_io_out,
  gva_value, num_exit_HC_address,
  io,        \* the port and the data of the exit in the kvm_run page
  call,      \* the hypercall the guest is in
  turn,      \* guest.c: index of the next array
  s,         \* the arrays, and at -1 the start of the guest's memory
  caused,    \* history: exits the guest has caused, as a uint32_t
  asked,     \* history: the address last passed to HC_gvaToHva
  age,       \* history: calls of HC_numExitsByType begun since an array was
             \*   last returned, up to Buffers
  given      \* history: what was in it then, forgotten after Buffers calls

exitVars == <<total_exits, exits_due_to_io_in, exits_due_to_io_out>>
handVars == <<gva_value, num_exit_HC_address>>
historyVars == <<asked, age, given>>
vars == <<pc, image, exitVars, handVars, io, call, turn, s, caused, historyVars>>

Buffer == 0 .. Buffers - 1
Code == -1                       \* guest address 0, where its code begins
UInt32 == 0 .. Word - 1
Contents == [in : UInt32, out : UInt32]
Unwritten == [in |-> 0, out |-> 0]   \* not a result: the IN asking for it counts

(* Addition of uint32_t. *)
Plus(x, y) == IF x + y >= Word THEN x + y - Word ELSE x + y

Init ==
  /\ pc = "vm_init"
  /\ image = "none"
  /\ total_exits = 0 /\ exits_due_to_io_in = 0 /\ exits_due_to_io_out = 0
  /\ gva_value = 0 /\ num_exit_HC_address = Code
  /\ io = [port |-> "none", data |-> 0]
  /\ call = "none"
  /\ turn = 0
  /\ s = [b \in Buffer \cup {Code} |-> Unwritten]
  /\ caused = 0
  /\ asked = 0
  /\ given = [b \in Buffer |-> Unwritten]
  /\ age = [b \in Buffer |-> Buffers]

(***************************************************************************)
(* main().  A call that fails ends the program with exit(1).               *)
(***************************************************************************)
Fail ==
  /\ pc' = "exit_1"
  /\ UNCHANGED <<image, exitVars, handVars, io, call, turn, s, caused, historyVars>>

SetUp(here, next) ==
  /\ pc = here
  /\ \/ Fail
     \/ /\ pc' = next
        /\ UNCHANGED <<image, exitVars, handVars, io, call, turn, s, caused, historyVars>>

VmInit == SetUp("vm_init", "vcpu_init")
VcpuInit == SetUp("vcpu_init", "run_mode")

(* The mode was an option on the command line.  The registers are set for  *)
(* it and its guest program is copied to the start of the memory.          *)
RunMode(guest) ==
  /\ pc = "run_mode"
  /\ \/ Fail
     \/ /\ pc' = "guest" /\ image' = guest
        /\ UNCHANGED <<exitVars, handVars, io, call, turn, s, caused, historyVars>>

RunRealMode == RunMode("guest16")
RunProtectedMode == RunMode("guest32")
RunPaged32bitMode == RunMode("guest32")
RunLongMode == RunMode("guest64")

(***************************************************************************)
(* The guest.  outb, outl and inl leave the guest; guest16 makes no calls. *)
(***************************************************************************)
Exit(port, data, newCall) ==
  /\ pc = "guest" /\ image \in {"guest32", "guest64"}
  /\ pc' = "exited"
  /\ io' = [port |-> port, data |-> data]
  /\ call' = newCall
  /\ caused' = Plus(caused, 1)
  /\ UNCHANGED <<image, exitVars, handVars, s>>

Simple(port, name) ==
  call = "none" /\ Exit(port, 0, name) /\ UNCHANGED <<turn, historyVars>>

HC_print8bit == Simple("E9", "print8bit")
HC_print32bit == Simple("F1", "print32bit")
HC_printStr == Simple("F2", "printStr")
HC_numExits == Simple("F4", "numExits")

HC_gvaToHva ==
  \/ /\ call = "none"
     /\ \E gva \in Gva : Exit("EE", gva, "gva_out") /\ asked' = gva
     /\ UNCHANGED <<turn, given, age>>
  \/ /\ call = "gva_out"
     /\ Exit("EF", 0, "gva_in")
     /\ UNCHANGED <<turn, historyVars>>

Older == [b \in Buffer |-> IF age[b] < Buffers THEN age[b] + 1 ELSE Buffers]

M_NumExitsByType_short ==
  \/ /\ call = "none"
     /\ turn' = IF turn + 1 >= Buffers - 1 THEN 0 ELSE turn + 1
     /\ Exit("FF", turn, "byType_out")
     /\ age' = Older
     /\ given' = [b \in Buffer |-> IF Older[b] = Buffers THEN Unwritten ELSE given[b]]
     /\ UNCHANGED asked
  \/ /\ call = "byType_out"
     /\ Exit("F3", 0, "byType_in")
     /\ UNCHANGED <<turn, historyVars>>
M_NumExitsByType_noWrap ==
  \/ /\ call = "none"
     /\ turn' = turn + 1
     /\ Exit("FF", turn, "byType_out")
     /\ age' = Older
     /\ given' = [b \in Buffer |-> IF Older[b] = Buffers THEN Unwritten ELSE given[b]]
     /\ UNCHANGED asked
  \/ /\ call = "byType_out"
     /\ Exit("F3", 0, "byType_in")
     /\ UNCHANGED <<turn, historyVars>>
(* The next array is taken, its address sent and the string asked for. *)
HC_numExitsByType ==
  \/ /\ call = "none"
     /\ turn' = IF turn + 1 = Buffers THEN 0 ELSE turn + 1
     /\ Exit("FF", turn, "byType_out")
     /\ age' = Older
     /\ given' = [b \in Buffer |-> IF Older[b] = Buffers THEN Unwritten ELSE given[b]]
     /\ UNCHANGED asked
  \/ /\ call = "byType_out"
     /\ Exit("F3", 0, "byType_in")
     /\ UNCHANGED <<turn, historyVars>>

(* The hypercall returns; HC_numExitsByType returns the address received. *)
Return ==
  /\ pc = "guest" /\ call \notin {"none", "gva_out", "byType_out"}
  /\ call' = "none"
  /\ IF call = "byType_in"
       THEN /\ given' = [given EXCEPT ![io.data] = s[io.data]]
            /\ age' = [age EXCEPT ![io.data] = 0]
            /\ UNCHANGED asked
       ELSE UNCHANGED historyVars
  /\ UNCHANGED <<pc, image, exitVars, handVars, io, turn, s, caused>>

Guest ==
  \/ HC_print8bit \/ HC_print32bit \/ HC_printStr \/ HC_numExits
  \/ HC_gvaToHva \/ HC_numExitsByType \/ Return

(***************************************************************************)
(* run_vm().                                                               *)
(***************************************************************************)
CountOut ==
  /\ total_exits' = Plus(total_exits, 1)
  /\ exits_due_to_io_out' = Plus(exits_due_to_io_out, 1)
  /\ UNCHANGED exits_due_to_io_in
CountIn ==
  /\ total_exits' = Plus(total_exits, 1)
  /\ exits_due_to_io_in' = Plus(exits_due_to_io_in, 1)
  /\ UNCHANGED exits_due_to_io_out

(* An exit for port I/O is served and the loop calls KVM_RUN again. *)
Serve(port) ==
  /\ pc = "exited" /\ io.port = port
  /\ pc' = "guest"
  /\ UNCHANGED <<image, call, turn, caused, historyVars>>

(* Ports 0xE9, 0xF1 and 0xF2: something is printed. *)
ServePrint ==
  \E port \in {"E9", "F1", "F2"} :
    Serve(port) /\ CountOut /\ UNCHANGED <<handVars, io, s>>

ServeGva ==
  /\ Serve("EE") /\ CountOut
  /\ gva_value' = io.data
  /\ UNCHANGED <<num_exit_HC_address, io, s>>

(* The sum is made with 64 bits and cut to 32. *)
Hva(gva) == (MemBase + gva) % Word

(* ioctl_call_kvm_translate: 0 when KVM_TRANSLATE fails or finds nothing. *)
ServeTranslation ==
  /\ Serve("EF") /\ CountIn
  /\ \E hva \in {0, Hva(gva_value)} : io' = [io EXCEPT !.data = hva]
  /\ UNCHANGED <<handVars, s>>

M_ServeNumExits_before ==
  /\ Serve("F4") /\ CountIn
  /\ io' = [io EXCEPT !.data = total_exits]
  /\ UNCHANGED <<handVars, s>>
ServeNumExits ==
  /\ Serve("F4") /\ CountIn
  /\ io' = [io EXCEPT !.data = total_exits']
  /\ UNCHANGED <<handVars, s>>

M_ServeAddress_uncounted ==
  /\ Serve("FF")
  /\ total_exits' = Plus(total_exits, 1)
  /\ num_exit_HC_address' = io.data
  /\ UNCHANGED <<exits_due_to_io_in, exits_due_to_io_out, gva_value, io, s>>
ServeAddress ==
  /\ Serve("FF") /\ CountOut
  /\ num_exit_HC_address' = io.data
  /\ UNCHANGED <<gva_value, io, s>>

ServeNumExitsByType ==
  /\ Serve("F3") /\ CountIn
  /\ s' = [s EXCEPT ![num_exit_HC_address] =
                        [in |-> exits_due_to_io_in', out |-> exits_due_to_io_out]]
  /\ io' = [io EXCEPT !.data = num_exit_HC_address]
  /\ UNCHANGED handVars

(* The guest halts, when it has made its last call. *)
Halt ==
  /\ pc = "guest" /\ call = "none"
  /\ pc' = "check"
  /\ total_exits' = Plus(total_exits, 1)
  /\ caused' = Plus(caused, 1)
  /\ UNCHANGED <<image, exits_due_to_io_in, exits_due_to_io_out, handVars, io,
                 call, turn, s, historyVars>>

(* run_vm looks for 42 in rax and in the guest's memory; main() returns 0 if
   both are right and 1 after "Wrong result".  KVM_GET_REGS may fail. *)
Check ==
  /\ pc = "check"
  /\ \/ Fail
     \/ /\ pc' \in {"exit_0", "wrong_result"}
        /\ UNCHANGED <<image, exitVars, handVars, io, call, turn, s, caused, historyVars>>

(* KVM_RUN fails or returns with an exit that the switch does not expect. *)
KvmRunFails == pc \in {"guest", "exited"} /\ Fail

Host ==
  \/ ServePrint \/ ServeGva \/ ServeTranslation \/ ServeNumExits
  \/ ServeAddress \/ ServeNumExitsByType \/ Halt \/ Check \/ KvmRunFails

Main ==
  \/ VmInit \/ VcpuInit
  \/ RunRealMode \/ RunProtectedMode \/ RunPaged32bitMode \/ RunLongMode

Next == Main \/ Guest \/ Host

Spec == Init /\ [][Next]_vars

-----------------------------------------------------------------------------
(* The guest does not run any more. *)
Stopped == {"check", "exit_0", "wrong_result", "exit_1"}
OutPort == {"E9", "F1", "F2", "EE", "FF"}
InPort == {"EF", "F4", "F3"}
Call == {"none", "print8bit", "print32bit", "printStr", "numExits",
         "gva_out", "gva_in", "byType_out", "byType_in"}

TypeOK ==
  /\ pc \in {"vm_init", "vcpu_init", "run_mode", "guest", "exited"} \cup Stopped
  /\ image \in {"none", "guest16", "guest32", "guest64"}
  /\ total_exits \in UInt32
  /\ exits_due_to_io_in \in UInt32
  /\ exits_due_to_io_out \in UInt32
  /\ gva_value \in Int /\ asked \in Int
  /\ num_exit_HC_address \in Buffer \cup {Code}
  /\ io \in [port : {"none"} \cup OutPort \cup InPort, data : Int]
  /\ call \in Call
  /\ turn \in Buffer
  /\ s \in [Buffer \cup {Code} -> Contents]
  /\ caused \in UInt32
  /\ given \in [Buffer -> Contents]
  /\ age \in [Buffer -> 0 .. Buffers]

(* Every exit to the hypervisor that it has served was counted once in the  *)
(* total and once by its type, whatever mixture of calls (simple-kvm.c:66   *)
(* "for correct functioning of the HyperCalls").                            *)
CountersAgree ==
  pc \notin Stopped => total_exits = Plus(exits_due_to_io_in, exits_due_to_io_out)

(* Each hypercall that asks for something is answered with what it asked    *)
(* for: HC_numExits with the exits up to and with its own, HC_gvaToHva for  *)
(* the address sent before (or 0), HC_numExitsByType with a string whose    *)
(* counts make up the exits so far.                                         *)
AnswersAreRight ==
  pc = "guest" =>
    /\ call = "numExits" => io.data = caused
    /\ call = "gva_in" => io.data \in {0, Hva(asked)}
    /\ call = "byType_in" =>
         io.data \in Buffer /\ Plus(s[io.data].in, s[io.data].out) = caused

(* guest.c:6 "Each time it is called, it should use new character array": a *)
(* string that HC_numExitsByType has returned stays as it was until the     *)
(* call is made for the tenth time after it, and the hypervisor never       *)
(* writes its string over the guest's code.                                 *)
StringsStay ==
  /\ \A b \in Buffer : age[b] < Buffers => s[b] = given[b]
  /\ s[Code] = Unwritten
=============================================================================
