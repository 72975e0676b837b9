------------------------------ MODULE AddrDriver ------------------------------
(***************************************************************************)
(* driver.c with user_program.c and spock.sh, on a machine where the       *)
(* script of Dr. Doom loads its own driver under the same device name.     *)
(*                                                                         *)
(* user_program asks the driver for the physical address of a byte it has  *)
(* allocated, and then has it write to that address.  In between, and even *)
(* before, the kernel may move the byte's page or swap it out.  The driver *)
(* writes through an unsigned long *: the byte and the seven after it.     *)
(***************************************************************************)
EXTENDS CharDev

CONSTANTS
  Frame,     \* page frames of the machine
  PageSize,
  Places,    \* where in a page malloc can put the byte
  Word,      \* sizeof(unsigned long), 8
  IntMod     \* 2^32: an int keeps a number modulo IntMod

ASSUME DriverAssumption == Driver = {"driver", "doom"}
ASSUME MemoryAssumption ==
  /\ Frame \subseteq Nat /\ PageSize \in Nat \ {0}
  /\ Places \subseteq 0 .. PageSize - 1 /\ Word \in 1 .. PageSize
  /\ IntMod \in Nat \ {0} /\ IntMod % (2 * PageSize) = 0

VARIABLES
  script,    \* how far spock.sh and run_dr_doom.sh are
  prog,      \* how far user_program and the soldier are
  fd,        \* the driver whose device each has open, {} if none
  page,      \* the frame of the byte's page, Swapped if it has none
  offset,    \* the byte's place in its page
  gpa,       \* physical_addr in user_program
  value,     \* the byte
  moved,     \* history: was the page moved or swapped out since it was allocated?
  spoilt,    \* history: the other places of the page the driver has overwritten
  wild       \* history: has the driver written outside the byte's page?

damage == <<value, spoilt, wild>>
memVars == <<page, offset, gpa, moved, damage>>
progVars == <<prog, fd>>
vars == <<devVars, script, progVars, memVars>>

Swapped == -1

Init ==
  /\ CharDevInit
  /\ script = [d \in Driver |-> "off"]
  /\ prog = [d \in Driver |-> "none"]
  /\ fd = [d \in Driver |-> {}]
  /\ page \in Frame /\ offset \in Places
  /\ gpa = 0
  /\ moved = FALSE
  /\ value = 6 /\ spoilt = {} /\ wild = FALSE

(***************************************************************************)
(* The scripts.  Neither checks whether insmod or rmmod has succeeded.     *)
(* rmmod is refused while the device is open.  A script is not started     *)
(* again before its program has ended.                                     *)
(***************************************************************************)
ScriptStep(d, from, to) == script[d] = from /\ script' = [script EXCEPT ![d] = to]
ProgStep(d, from, to) == prog[d] = from /\ prog' = [prog EXCEPT ![d] = to]

CallInsmod(d) ==
  /\ ScriptStep(d, "off", "insmod")
  /\ prog[d] = "none"
  /\ IF at[d] = "out" THEN Insmod(d) ELSE UNCHANGED devVars
  /\ UNCHANGED <<progVars, memVars>>

(* user_program allocates its byte and stores 6 in it. *)
Launch(d) ==
  /\ ScriptStep(d, "insmod", "run") /\ at[d] \in Settled
  /\ ProgStep(d, "none", "open")
  /\ IF d = "driver"
       THEN /\ page' \in Frame /\ offset' \in Places
            /\ gpa' = 0 /\ moved' = FALSE
            /\ value' = 6 /\ spoilt' = {} /\ wild' = FALSE
       ELSE UNCHANGED memVars
  /\ UNCHANGED <<devVars, fd>>

M_CallRmmod_open(d) ==
  /\ ScriptStep(d, "run", "rmmod")
  /\ d = "driver" => prog[d] = "none"
  /\ IF at[d] = "live"
       THEN Step(d, "live", "destroy") /\ UNCHANGED <<numberVars, class, node>>
       ELSE UNCHANGED devVars
  /\ UNCHANGED <<progVars, memVars>>
(* spock.sh waits for user_program, run_dr_doom.sh only sleeps. *)
CallRmmod(d) ==
  /\ ScriptStep(d, "run", "rmmod")
  /\ d = "driver" => prog[d] = "none"
  /\ IF at[d] = "live" /\ \A p \in Driver : d \notin fd[p]
       THEN Step(d, "live", "destroy") /\ UNCHANGED <<numberVars, class, node>>
       ELSE UNCHANGED devVars
  /\ UNCHANGED <<progVars, memVars>>

ScriptEnds(d) ==
  /\ ScriptStep(d, "rmmod", "off") /\ at[d] \in Settled
  /\ UNCHANGED <<devVars, progVars, memVars>>

(* A module on its way out gives nobody its device any more. *)
Open(d) ==
  /\ prog[d] = "open"
  /\ IF \E o \in node : at[o] = "live"
       THEN ProgStep(d, "open", "ioctl") /\ fd' = [fd EXCEPT ![d] = node]
       ELSE ProgStep(d, "open", "none") /\ UNCHANGED fd
  /\ UNCHANGED <<devVars, script, memVars>>

Ends(d, from) ==
  /\ ProgStep(d, from, "none")
  /\ fd' = [fd EXCEPT ![d] = {}]

(* The soldier's request, whichever driver gets it (see DrDoom for what
   doom does), and its end. *)
SoldierEnds ==
  /\ Ends("doom", "ioctl")
  /\ UNCHANGED <<devVars, script, memVars>>

(***************************************************************************)
(* my_ioctl of driver.c.  The commands of the two drivers differ, and a    *)
(* command a driver does not know does nothing, successfully.              *)
(***************************************************************************)
Served == fd["driver"] = {"driver"}

ToInt(x) == LET low == x % IntMod IN IF 2 * low >= IntMod THEN low - IntMod ELSE low

(* The page table entry: no-execute bit, frame and flags; of a page that is
   swapped out, its place in the swap space, which the walk does not tell
   from a frame. *)
NoExecute == 4 * IntMod
Present == 1 % PageSize
Entry(frame) == NoExecute + frame * PageSize + Present

M_Translate_keepsNx(entry) == (entry \div PageSize) * PageSize + offset
(* (int)(pte_val & PAGE_MASK) | (int)(~PAGE_MASK & address), as a long *)
Translate(entry) == ToInt((entry \div PageSize) * PageSize) + ToInt(offset)

GetPhysicalAddr ==
  /\ ProgStep("driver", "ioctl", "write")
  /\ IF Served
       THEN IF page # Swapped
              THEN gpa' = Translate(Entry(page))
              ELSE \E place \in Frame : gpa' = Translate(place * PageSize)
       ELSE UNCHANGED gpa
  /\ UNCHANGED <<devVars, script, fd, page, offset, moved, damage>>

(* The address of place i of the byte's page: below 0, where nothing is,
   while the page is swapped out. *)
InPage == 0 .. PageSize - 1
At(i) == page * PageSize + i

(* Where *virt_addr = wpm.value puts 5 and then, the number being little
   endian, zeroes.  An address below 0 is outside the kernel's map of the
   memory: the kernel stops the program. *)
Stored == IF Served /\ gpa >= 0 THEN gpa .. gpa + Word - 1 ELSE {}

WritePhysicalMem ==
  /\ IF Served /\ gpa < 0
       THEN Ends("driver", "write")
       ELSE ProgStep("driver", "write", "print") /\ UNCHANGED fd
  /\ value' = IF At(offset) \notin Stored THEN value
              ELSE IF At(offset) = gpa THEN 5 ELSE 0
  /\ spoilt' = {i \in InPage \ {offset} : At(i) \in Stored}
  /\ wild' = ~(Stored \subseteq {At(i) : i \in InPage})
  /\ UNCHANGED <<devVars, script, page, offset, gpa, moved>>

(* printf of the byte, which brings its page back; close. *)
PrintAndClose ==
  /\ Ends("driver", "print")
  /\ page' \in (IF page = Swapped THEN Frame ELSE {page})
  /\ UNCHANGED <<devVars, script, offset, gpa, moved, damage>>

(* The kernel moves the page, or swaps it out. *)
Reclaim ==
  /\ prog["driver"] # "none" /\ page # Swapped
  /\ page' \in (Frame \cup {Swapped}) \ {page}
  /\ moved' = TRUE
  /\ UNCHANGED <<devVars, script, progVars, offset, gpa, damage>>

-----------------------------------------------------------------------------
Script(d) == CallInsmod(d) \/ Launch(d) \/ CallRmmod(d) \/ ScriptEnds(d)
Module(d) == (MyInit(d) \/ MyExit(d)) /\ UNCHANGED <<script, progVars, memVars>>
UserProgram == Open("driver") \/ GetPhysicalAddr \/ WritePhysicalMem \/ PrintAndClose
Soldier == Open("doom") \/ SoldierEnds

Next ==
  \/ \E d \in Driver : Script(d) \/ Module(d)
  \/ UserProgram \/ Soldier \/ Reclaim

Spec == Init /\ [][Next]_vars

-----------------------------------------------------------------------------
TypeOK ==
  /\ CharDevTypeOK
  /\ script \in [Driver -> {"off", "insmod", "run", "rmmod"}]
  /\ prog \in [Driver -> {"none", "open", "ioctl", "write", "print"}]
  /\ fd \in [Driver -> SUBSET Driver]
  /\ page \in Frame \cup {Swapped} /\ offset \in Places
  /\ gpa \in Int
  /\ value \in {0, 5, 6} /\ spoilt \subseteq InPage
  /\ moved \in BOOLEAN /\ wild \in BOOLEAN

(* An open device belongs to one module, which is in the kernel and stays,  *)
(* whatever the two scripts try (spock.sh:11, run_dr_doom.sh:26).           *)
OpenPinsDriver ==
  \A p \in Driver : \A d \in fd[p] : at[d] = "live" /\ fd[p] = {d}

(* An address in the lower half of what an int can name, 2 GB. *)
Low == 2 * (page * PageSize) < IntMod

(* What the driver changes for user_program's one byte (user_program.c:9,   *)
(* 29-35): the byte becomes 5 and the rest of its word 0, as far as the     *)
(* page goes, and nothing else in the page changes, if the page has stayed  *)
(* where it was and lies low; and outside the page the driver writes only   *)
(* if the page was moved, lies high, or ends before the word does.  If the  *)
(* driver got no request, because the device was the other module's,        *)
(* nothing changes.                                                         *)
OwnWordOnly ==
  /\ wild => moved \/ ~Low \/ offset + Word > PageSize
  /\ prog["driver"] = "print" /\ Served /\ (~wild \/ (~moved /\ Low)) =>
       value = 5 /\ spoilt = (offset + 1 .. offset + Word - 1) \cap InPage
  /\ prog["driver"] # "none" /\ ~Served => value = 6 /\ spoilt = {} /\ ~wild
=============================================================================
