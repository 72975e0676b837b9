--------------------------- MODULE SimpleKvmProofs ---------------------------
(***************************************************************************)
(* Proofs about the hypercalls of simple-kvm.c and guest.c, for counters   *)
(* of any width and any number of arrays.                                  *)
(***************************************************************************)
EXTENDS SimpleKvm, TLAPS

(* The exits caused are those served, and the one to be served if any. *)
CausedInv ==
  /\ pc = "exited" => caused = Plus(total_exits, 1)
  /\ pc \notin {"exited"} \cup Stopped => caused = total_exits

(* The call the guest is in and the port it used last fit each other. *)
CallInv ==
  /\ pc \notin {"guest", "exited"} \cup Stopped => call = "none"
  /\ pc = "exited" =>
       /\ call # "none"
       /\ call = "numExits" <=> io.port = "F4"
       /\ call = "gva_out" <=> io.port = "EE"
       /\ call = "gva_in" <=> io.port = "EF"
       /\ call = "byType_out" <=> io.port = "FF"
       /\ call = "byType_in" <=> io.port = "F3"

(* The address to translate on its way from the guest to gva_value. *)
AskedInv ==
  /\ call = "gva_out" /\ pc = "exited" => io.data = asked
  /\ call = "gva_out" /\ pc = "guest" => gva_value = asked
  /\ call = "gva_in" /\ pc = "exited" => gva_value = asked

(* b is the array that was taken last, and its string is not the caller's  *)
(* yet.                                                                    *)
Taken(b) ==
  /\ b \in Buffer
  /\ b = IF turn = 0 THEN Buffers - 1 ELSE turn - 1
  /\ age[b] = Buffers

(* The arrays handed out last are the ones behind turn, in this order, and *)
(* the address of the array taken reaches num_exit_HC_address and comes    *)
(* back.                                                                   *)
RingInv ==
  /\ \A b \in Buffer : age[b] < Buffers =>
       age[b] = IF b < turn THEN turn - 1 - b ELSE Buffers + turn - 1 - b
  /\ call = "byType_out" /\ pc = "exited" => Taken(io.data)
  /\ call = "byType_out" /\ pc = "guest" => Taken(num_exit_HC_address)
  /\ call = "byType_in" /\ pc \in {"guest", "exited"} => Taken(num_exit_HC_address)
  /\ call = "byType_in" /\ pc = "guest" => io.data = num_exit_HC_address

IInv ==
  /\ TypeOK /\ CountersAgree /\ AnswersAreRight /\ StringsStay
  /\ CausedInv /\ CallInv /\ AskedInv /\ RingInv

(* One more of either kind is one more of the sum, also when it wraps.      *)
LEMMA PlusOne ==
  ASSUME NEW x \in UInt32, NEW y \in UInt32
  PROVE  /\ Plus(x, 1) \in UInt32 /\ Plus(x, y) \in UInt32
         /\ Plus(Plus(x, 1), y) = Plus(Plus(x, y), 1)
         /\ Plus(x, Plus(y, 1)) = Plus(Plus(x, y), 1)
  BY WordAssumption DEF Plus, UInt32

(* What taking the next array makes of the history and of turn. *)
Kept == [b \in Buffer |-> IF Older[b] = Buffers THEN Unwritten ELSE given[b]]
NextTurn == IF turn + 1 = Buffers THEN 0 ELSE turn + 1
LEMMA OlderType ==
  ASSUME TypeOK
  PROVE  /\ Older \in [Buffer -> 0 .. Buffers]
         /\ Kept \in [Buffer -> Contents]
         /\ NextTurn \in Buffer
<1> USE BuffersAssumption, WordAssumption
<1>1. Older \in [Buffer -> 0 .. Buffers]
  BY DEF TypeOK, Older
<1>2. Unwritten \in Contents
  BY DEF Unwritten, Contents, UInt32
<1>3. given \in [Buffer -> Contents]
  BY DEF TypeOK
<1>4. Kept \in [Buffer -> Contents]
  BY <1>2, <1>3 DEF Kept
<1>5. NextTurn \in Buffer
  BY DEF TypeOK, NextTurn, Buffer
<1> QED
  BY <1>1, <1>4, <1>5

(* pc, image, call and the exit stay what they can be. *)
LEMMA StepControl ==
  ASSUME IInv, [Next]_vars
  PROVE  /\ (pc \in {"vm_init", "vcpu_init", "run_mode", "guest", "exited"} \cup Stopped)'
         /\ (image \in {"none", "guest16", "guest32", "guest64"})'
         /\ (call \in Call)'
<1> USE WordAssumption, BuffersAssumption, AddressAssumption
        DEF exitVars, handVars, historyVars, IInv, TypeOK, Stopped, Call
<1>1. CASE Main
  BY <1>1 DEF VmInit, VcpuInit, RunRealMode, RunProtectedMode, RunPaged32bitMode, RunLongMode, SetUp, RunMode, Fail, Main
<1>2. CASE HC_print8bit \/ HC_print32bit \/ HC_printStr \/ HC_numExits
  BY <1>2 DEF HC_print8bit, HC_print32bit, HC_printStr, HC_numExits, Simple, Exit
<1>3. CASE HC_gvaToHva
  BY <1>3 DEF HC_gvaToHva, Exit
<1>4. CASE HC_numExitsByType
  BY <1>4 DEF HC_numExitsByType, Exit
<1>5. CASE Return
  BY <1>5 DEF Return
<1>6. CASE ServePrint
  BY <1>6 DEF ServePrint, Serve, CountOut
<1>7. CASE ServeGva
  BY <1>7 DEF ServeGva, Serve, CountOut
<1>8. CASE ServeTranslation
  BY <1>8 DEF ServeTranslation, Serve, CountIn
<1>9. CASE ServeNumExits
  BY <1>9 DEF ServeNumExits, Serve, CountIn
<1>10. CASE ServeAddress
  BY <1>10 DEF ServeAddress, Serve, CountOut
<1>11. CASE ServeNumExitsByType
  BY <1>11 DEF ServeNumExitsByType, Serve, CountIn
<1>12. CASE Halt \/ Check \/ KvmRunFails
  BY <1>12 DEF Halt, Check, KvmRunFails, Fail
<1>13. CASE UNCHANGED vars
  BY <1>13 DEF vars
<1> QED
  BY <1>1, <1>2, <1>3, <1>4, <1>5, <1>6, <1>7, <1>8, <1>9, <1>10, <1>11, <1>12, <1>13 DEF Next, Guest, Host

(* The port and the data of the exit, and what has been made of the data. *)
LEMMA StepIo ==
  ASSUME IInv, [Next]_vars
  PROVE  /\ (io \in [port : {"none"} \cup OutPort \cup InPort, data : Int])'
         /\ gva_value' \in Int /\ asked' \in Int
<1> USE WordAssumption, BuffersAssumption, AddressAssumption
        DEF exitVars, handVars, historyVars, IInv, TypeOK, OutPort, InPort, Buffer, Code, Hva, UInt32
<1>1. CASE Main
  BY <1>1 DEF VmInit, VcpuInit, RunRealMode, RunProtectedMode, RunPaged32bitMode, RunLongMode, SetUp, RunMode, Fail, Main
<1>2. CASE HC_print8bit \/ HC_print32bit \/ HC_printStr \/ HC_numExits
  BY <1>2 DEF HC_print8bit, HC_print32bit, HC_printStr, HC_numExits, Simple, Exit
<1>3. CASE HC_gvaToHva
  BY <1>3 DEF HC_gvaToHva, Exit
<1>4. CASE HC_numExitsByType
  BY <1>4 DEF HC_numExitsByType, Exit
<1>5. CASE Return
  BY <1>5 DEF Return
<1>6. CASE ServePrint
  BY <1>6 DEF ServePrint, Serve, CountOut
<1>7. CASE ServeGva
  BY <1>7 DEF ServeGva, Serve, CountOut
<1>8. CASE ServeTranslation
  <2>1. Hva(gva_value) \in Int
    OBVIOUS
  <2>2. io'.data \in Int /\ io' = [io EXCEPT !.data = io'.data]
    BY <1>8, <2>1 DEF ServeTranslation
  <2> QED
    BY <1>8, <2>2 DEF ServeTranslation, Serve, CountIn
<1>9. CASE ServeNumExits
  <2>1. total_exits' \in Int
    BY <1>9 DEF ServeNumExits, CountIn, Plus
  <2> QED
    BY <1>9, <2>1 DEF ServeNumExits, Serve, CountIn
<1>10. CASE ServeAddress
  BY <1>10 DEF ServeAddress, Serve, CountOut
<1>11. CASE ServeNumExitsByType
  BY <1>11 DEF ServeNumExitsByType, Serve, CountIn
<1>12. CASE Halt \/ Check \/ KvmRunFails
  BY <1>12 DEF Halt, Check, KvmRunFails, Fail
<1>13. CASE UNCHANGED vars
  BY <1>13 DEF vars
<1> QED
  BY <1>1, <1>2, <1>3, <1>4, <1>5, <1>6, <1>7, <1>8, <1>9, <1>10, <1>11, <1>12, <1>13 DEF Next, Guest, Host

(* The counters stay words of 32 bits: Plus wraps around. *)
LEMMA StepCounterTypes ==
  ASSUME IInv, [Next]_vars
  PROVE  /\ total_exits' \in UInt32 /\ caused' \in UInt32
         /\ exits_due_to_io_in' \in UInt32 /\ exits_due_to_io_out' \in UInt32
<1> USE WordAssumption, BuffersAssumption, AddressAssumption
        DEF exitVars, handVars, historyVars, IInv, TypeOK, UInt32, Plus
<1>1. CASE Main
  BY <1>1 DEF VmInit, VcpuInit, RunRealMode, RunProtectedMode, RunPaged32bitMode, RunLongMode, SetUp, RunMode, Fail, Main
<1>2. CASE HC_print8bit \/ HC_print32bit \/ HC_printStr \/ HC_numExits
  BY <1>2 DEF HC_print8bit, HC_print32bit, HC_printStr, HC_numExits, Simple, Exit
<1>3. CASE HC_gvaToHva
  BY <1>3 DEF HC_gvaToHva, Exit
<1>4. CASE HC_numExitsByType
  BY <1>4 DEF HC_numExitsByType, Exit
<1>5. CASE Return
  BY <1>5 DEF Return
<1>6. CASE ServePrint
  BY <1>6 DEF ServePrint, Serve, CountOut
<1>7. CASE ServeGva
  BY <1>7 DEF ServeGva, Serve, CountOut
<1>8. CASE ServeTranslation
  BY <1>8 DEF ServeTranslation, Serve, CountIn
<1>9. CASE ServeNumExits
  BY <1>9 DEF ServeNumExits, Serve, CountIn
<1>10. CASE ServeAddress
  BY <1>10 DEF ServeAddress, Serve, CountOut
<1>11. CASE ServeNumExitsByType
  BY <1>11 DEF ServeNumExitsByType, Serve, CountIn
<1>12. CASE Halt \/ Check \/ KvmRunFails
  BY <1>12 DEF Halt, Check, KvmRunFails, Fail
<1>13. CASE UNCHANGED vars
  BY <1>13 DEF vars
<1> QED
  BY <1>1, <1>2, <1>3, <1>4, <1>5, <1>6, <1>7, <1>8, <1>9, <1>10, <1>11, <1>12, <1>13 DEF Next, Guest, Host

(* turn stays an index; only strings are written to arrays. *)
LEMMA StepArrays ==
  ASSUME IInv, [Next]_vars
  PROVE  /\ turn' \in Buffer
         /\ num_exit_HC_address' \in Buffer \cup {Code}
         /\ s' \in [Buffer \cup {Code} -> Contents]
         /\ given' \in [Buffer -> Contents]
         /\ age' \in [Buffer -> 0 .. Buffers]
<1> USE WordAssumption, BuffersAssumption, AddressAssumption
        DEF exitVars, handVars, historyVars, IInv, TypeOK, Buffer, Code, Contents, Unwritten, UInt32, Plus, CallInv, RingInv, Taken
<1>1. CASE Main
  BY <1>1 DEF VmInit, VcpuInit, RunRealMode, RunProtectedMode, RunPaged32bitMode, RunLongMode, SetUp, RunMode, Fail, Main
<1>2. CASE HC_print8bit \/ HC_print32bit \/ HC_printStr \/ HC_numExits
  BY <1>2 DEF HC_print8bit, HC_print32bit, HC_printStr, HC_numExits, Simple, Exit
<1>3. CASE HC_gvaToHva
  BY <1>3 DEF HC_gvaToHva, Exit
<1>4. CASE HC_numExitsByType
  <2>1. CASE call = "none"
    <3>1. age' = Older /\ given' = Kept /\ turn' = NextTurn
      BY <1>4, <2>1 DEF HC_numExitsByType, Kept, NextTurn
    <3>2. UNCHANGED <<num_exit_HC_address, s>>
      BY <1>4 DEF HC_numExitsByType, Exit
    <3> QED
      BY <3>1, <3>2, OlderType
  <2>2. CASE call = "byType_out"
    BY <1>4, <2>2 DEF HC_numExitsByType, Exit
  <2> QED
    BY <1>4, <2>1, <2>2 DEF HC_numExitsByType
<1>5. CASE Return
  <2>1. CASE call = "byType_in"
    <3>1. io.data \in Buffer
      BY <1>5, <2>1 DEF Return
    <3>2. s[io.data] \in Contents
      BY <3>1
    <3>3. given' = [given EXCEPT ![io.data] = s[io.data]] /\ age' = [age EXCEPT ![io.data] = 0]
      BY <1>5, <2>1 DEF Return
    <3>4. given' \in [Buffer -> Contents]
      BY <3>1, <3>2, <3>3
    <3>5. age' \in [Buffer -> 0 .. Buffers]
      BY <3>1, <3>3
    <3> QED
      BY <1>5, <3>4, <3>5 DEF Return
  <2>2. CASE call # "byType_in"
    BY <1>5, <2>2 DEF Return
  <2> QED
    BY <2>1, <2>2
<1>6. CASE ServePrint
  BY <1>6 DEF ServePrint, Serve, CountOut
<1>7. CASE ServeGva
  BY <1>7 DEF ServeGva, Serve, CountOut
<1>8. CASE ServeTranslation
  BY <1>8 DEF ServeTranslation, Serve, CountIn
<1>9. CASE ServeNumExits
  BY <1>9 DEF ServeNumExits, Serve, CountIn
<1>10. CASE ServeAddress
  BY <1>10 DEF ServeAddress, Serve, CountOut
<1>11. CASE ServeNumExitsByType
  <2>0. exits_due_to_io_in' \in UInt32
    BY <1>11, PlusOne DEF ServeNumExitsByType, CountIn
  <2>1. [in |-> exits_due_to_io_in', out |-> exits_due_to_io_out] \in Contents
    BY <2>0
  <2>2. s' \in [Buffer \cup {Code} -> Contents]
    BY <1>11, <2>1 DEF ServeNumExitsByType
  <2> QED
    BY <1>11, <2>2 DEF ServeNumExitsByType, Serve, CountIn
<1>12. CASE Halt \/ Check \/ KvmRunFails
  BY <1>12 DEF Halt, Check, KvmRunFails, Fail
<1>13. CASE UNCHANGED vars
  BY <1>13 DEF vars
<1> QED
  BY <1>1, <1>2, <1>3, <1>4, <1>5, <1>6, <1>7, <1>8, <1>9, <1>10, <1>11, <1>12, <1>13 DEF Next, Guest, Host

(* Each exit served is counted once in total_exits and once by its type. *)
LEMMA StepCounters ==
  ASSUME IInv, [Next]_vars
  PROVE  CountersAgree' /\ CausedInv'
<1> USE WordAssumption, BuffersAssumption, AddressAssumption
        DEF exitVars, handVars, historyVars, IInv, TypeOK, UInt32, Plus, CountersAgree, CausedInv, Stopped
<1>1. CASE Main
  BY <1>1 DEF VmInit, VcpuInit, RunRealMode, RunProtectedMode, RunPaged32bitMode, RunLongMode, SetUp, RunMode, Fail, Main
<1>2. CASE HC_print8bit \/ HC_print32bit \/ HC_printStr \/ HC_numExits
  BY <1>2 DEF HC_print8bit, HC_print32bit, HC_printStr, HC_numExits, Simple, Exit
<1>3. CASE HC_gvaToHva
  BY <1>3 DEF HC_gvaToHva, Exit
<1>4. CASE HC_numExitsByType
  BY <1>4 DEF HC_numExitsByType, Exit
<1>5. CASE Return
  BY <1>5 DEF Return
<1>6. CASE ServePrint
  BY <1>6 DEF ServePrint, Serve, CountOut
<1>7. CASE ServeGva
  BY <1>7 DEF ServeGva, Serve, CountOut
<1>8. CASE ServeTranslation
  BY <1>8 DEF ServeTranslation, Serve, CountIn
<1>9. CASE ServeNumExits
  BY <1>9 DEF ServeNumExits, Serve, CountIn
<1>10. CASE ServeAddress
  BY <1>10 DEF ServeAddress, Serve, CountOut
<1>11. CASE ServeNumExitsByType
  BY <1>11 DEF ServeNumExitsByType, Serve, CountIn
<1>12. CASE Halt \/ Check \/ KvmRunFails
  BY <1>12 DEF Halt, Check, KvmRunFails, Fail
<1>13. CASE UNCHANGED vars
  BY <1>13 DEF vars
<1> QED
  BY <1>1, <1>2, <1>3, <1>4, <1>5, <1>6, <1>7, <1>8, <1>9, <1>10, <1>11, <1>12, <1>13 DEF Next, Guest, Host

(* A guest in a hypercall has last used the port of that hypercall. *)
LEMMA StepCall ==
  ASSUME IInv, [Next]_vars
  PROVE  CallInv' /\ AskedInv'
<1> USE WordAssumption, BuffersAssumption, AddressAssumption
        DEF exitVars, handVars, historyVars, IInv, TypeOK, CallInv, AskedInv, Stopped
<1>1. CASE Main
  BY <1>1 DEF VmInit, VcpuInit, RunRealMode, RunProtectedMode, RunPaged32bitMode, RunLongMode, SetUp, RunMode, Fail, Main
<1>2. CASE HC_print8bit \/ HC_print32bit \/ HC_printStr \/ HC_numExits
  BY <1>2 DEF HC_print8bit, HC_print32bit, HC_printStr, HC_numExits, Simple, Exit
<1>3. CASE HC_gvaToHva
  BY <1>3 DEF HC_gvaToHva, Exit
<1>4. CASE HC_numExitsByType
  BY <1>4 DEF HC_numExitsByType, Exit
<1>5. CASE Return
  BY <1>5 DEF Return
<1>6. CASE ServePrint
  BY <1>6 DEF ServePrint, Serve, CountOut
<1>7. CASE ServeGva
  BY <1>7 DEF ServeGva, Serve, CountOut
<1>8. CASE ServeTranslation
  BY <1>8 DEF ServeTranslation, Serve, CountIn
<1>9. CASE ServeNumExits
  BY <1>9 DEF ServeNumExits, Serve, CountIn
<1>10. CASE ServeAddress
  BY <1>10 DEF ServeAddress, Serve, CountOut
<1>11. CASE ServeNumExitsByType
  BY <1>11 DEF ServeNumExitsByType, Serve, CountIn
<1>12. CASE Halt \/ Check \/ KvmRunFails
  BY <1>12 DEF Halt, Check, KvmRunFails, Fail
<1>13. CASE UNCHANGED vars
  BY <1>13 DEF vars
<1> QED
  BY <1>1, <1>2, <1>3, <1>4, <1>5, <1>6, <1>7, <1>8, <1>9, <1>10, <1>11, <1>12, <1>13 DEF Next, Guest, Host

(* turn walks around the ring, and the array it leaves is the oldest one. *)
LEMMA StepRing ==
  ASSUME IInv, [Next]_vars
  PROVE  RingInv'
<1> USE WordAssumption, BuffersAssumption, AddressAssumption
        DEF exitVars, handVars, historyVars, IInv, TypeOK, CallInv, RingInv, Taken, Buffer, Stopped
<1>1. CASE Main
  BY <1>1 DEF VmInit, VcpuInit, RunRealMode, RunProtectedMode, RunPaged32bitMode, RunLongMode, SetUp, RunMode, Fail, Main
<1>2. CASE HC_print8bit \/ HC_print32bit \/ HC_printStr \/ HC_numExits
  BY <1>2 DEF HC_print8bit, HC_print32bit, HC_printStr, HC_numExits, Simple, Exit
<1>3. CASE HC_gvaToHva
  BY <1>3 DEF HC_gvaToHva, Exit
<1>4. CASE HC_numExitsByType
  <2>1. CASE call = "none"
    <3>1. /\ age' = Older /\ io' = [port |-> "FF", data |-> turn]
          /\ turn' = IF turn + 1 = Buffers THEN 0 ELSE turn + 1
          /\ call' = "byType_out" /\ pc' = "exited"
      BY <1>4, <2>1 DEF HC_numExitsByType, Exit
    <3>2. \A b \in Buffer : age'[b] = IF age[b] < Buffers THEN age[b] + 1 ELSE Buffers
      BY <3>1 DEF Older
    <3>3. Taken(io.data)'
      BY <3>1, <3>2
    <3>4. \A b \in Buffer : age'[b] < Buffers =>
            age'[b] = IF b < turn' THEN turn' - 1 - b ELSE Buffers + turn' - 1 - b
      <4> SUFFICES ASSUME NEW b \in Buffer, age'[b] < Buffers
                   PROVE  age'[b] = IF b < turn' THEN turn' - 1 - b
                                    ELSE Buffers + turn' - 1 - b
        OBVIOUS
      <4>1. /\ b \in 0 .. Buffers - 1 /\ turn \in 0 .. Buffers - 1
            /\ age[b] \in 0 .. Buffers
        OBVIOUS
      <4>2. age[b] < Buffers /\ age'[b] = age[b] + 1
        BY <3>2, <4>1
      <4>3. age[b] = IF b < turn THEN turn - 1 - b ELSE Buffers + turn - 1 - b
        BY <4>2
      <4>4. b # turn
        BY <4>1, <4>2, <4>3
      <4> HIDE DEF IInv, TypeOK, CallInv, RingInv, Taken
      <4>5. CASE turn + 1 = Buffers
        BY <3>1, <4>1, <4>2, <4>3, <4>4, <4>5
      <4>6. CASE turn + 1 # Buffers
        BY <3>1, <4>1, <4>2, <4>3, <4>4, <4>6
      <4> QED
        BY <4>5, <4>6
    <3> QED
      BY <3>1, <3>3, <3>4
  <2>2. CASE call = "byType_out"
    BY <1>4, <2>2 DEF HC_numExitsByType, Exit
  <2> QED
    BY <1>4, <2>1, <2>2 DEF HC_numExitsByType
<1>5. CASE Return
  <2>1. CASE call = "byType_in"
    <3>1. /\ Taken(io.data) /\ age' = [age EXCEPT ![io.data] = 0]
          /\ UNCHANGED turn /\ call' = "none"
      BY <1>5, <2>1 DEF Return
    <3>2. \A b \in Buffer : age'[b] = IF b = io.data THEN 0 ELSE age[b]
      BY <3>1
    <3>3. \A b \in Buffer : age'[b] < Buffers =>
            age'[b] = IF b < turn' THEN turn' - 1 - b ELSE Buffers + turn' - 1 - b
      BY <3>1, <3>2
    <3> QED
      BY <3>1, <3>3
  <2>2. CASE call # "byType_in"
    BY <1>5, <2>2 DEF Return
  <2> QED
    BY <2>1, <2>2
<1>6. CASE ServePrint
  BY <1>6 DEF ServePrint, Serve, CountOut
<1>7. CASE ServeGva
  BY <1>7 DEF ServeGva, Serve, CountOut
<1>8. CASE ServeTranslation
  BY <1>8 DEF ServeTranslation, Serve, CountIn
<1>9. CASE ServeNumExits
  BY <1>9 DEF ServeNumExits, Serve, CountIn
<1>10. CASE ServeAddress
  BY <1>10 DEF ServeAddress, Serve, CountOut
<1>11. CASE ServeNumExitsByType
  BY <1>11 DEF ServeNumExitsByType, Serve, CountIn
<1>12. CASE Halt \/ Check \/ KvmRunFails
  BY <1>12 DEF Halt, Check, KvmRunFails, Fail
<1>13. CASE UNCHANGED vars
  BY <1>13 DEF vars
<1> QED
  BY <1>1, <1>2, <1>3, <1>4, <1>5, <1>6, <1>7, <1>8, <1>9, <1>10, <1>11, <1>12, <1>13 DEF Next, Guest, Host

(* What an IN puts into the exit is what the hypercall has asked for. *)
LEMMA StepAnswers ==
  ASSUME IInv, [Next]_vars
  PROVE  AnswersAreRight'
<1> USE WordAssumption, BuffersAssumption, AddressAssumption
        DEF exitVars, handVars, historyVars, IInv, TypeOK, CallInv, AskedInv, CountersAgree, CausedInv, RingInv, Taken, Buffer, Plus, AnswersAreRight, Contents, UInt32, Stopped
<1>1. CASE Main
  BY <1>1 DEF VmInit, VcpuInit, RunRealMode, RunProtectedMode, RunPaged32bitMode, RunLongMode, SetUp, RunMode, Fail, Main
<1>2. CASE HC_print8bit \/ HC_print32bit \/ HC_printStr \/ HC_numExits
  BY <1>2 DEF HC_print8bit, HC_print32bit, HC_printStr, HC_numExits, Simple, Exit
<1>3. CASE HC_gvaToHva
  BY <1>3 DEF HC_gvaToHva, Exit
<1>4. CASE HC_numExitsByType
  BY <1>4 DEF HC_numExitsByType, Exit
<1>5. CASE Return
  BY <1>5 DEF Return
<1>6. CASE ServePrint
  BY <1>6 DEF ServePrint, Serve, CountOut
<1>7. CASE ServeGva
  BY <1>7 DEF ServeGva, Serve, CountOut
<1>8. CASE ServeTranslation
  BY <1>8 DEF ServeTranslation, Serve, CountIn
<1>9. CASE ServeNumExits
  BY <1>9 DEF ServeNumExits, Serve, CountIn
<1>10. CASE ServeAddress
  BY <1>10 DEF ServeAddress, Serve, CountOut
<1>11. CASE ServeNumExitsByType
  <2> DEFINE a == num_exit_HC_address
  <2>1. a \in Buffer /\ call = "byType_in" /\ pc = "exited"
    BY <1>11 DEF ServeNumExitsByType, Serve
  <2>2. io'.data = a /\ call' = "byType_in"
    BY <1>11, <2>1 DEF ServeNumExitsByType, Serve
  <2>3. s'[a] = [in |-> exits_due_to_io_in', out |-> exits_due_to_io_out]
    BY <1>11, <2>1 DEF ServeNumExitsByType, Code
  <2>4. /\ exits_due_to_io_in' = Plus(exits_due_to_io_in, 1)
        /\ caused' = Plus(Plus(exits_due_to_io_in, exits_due_to_io_out), 1)
    BY <1>11, <2>1 DEF ServeNumExitsByType, Serve, CountIn
  <2>5. Plus(exits_due_to_io_in', exits_due_to_io_out) = caused'
    BY <2>4, PlusOne
  <2> QED
    BY <2>1, <2>2, <2>3, <2>5
<1>12. CASE Halt \/ Check \/ KvmRunFails
  BY <1>12 DEF Halt, Check, KvmRunFails, Fail
<1>13. CASE UNCHANGED vars
  BY <1>13 DEF vars
<1> QED
  BY <1>1, <1>2, <1>3, <1>4, <1>5, <1>6, <1>7, <1>8, <1>9, <1>10, <1>11, <1>12, <1>13 DEF Next, Guest, Host

(* The only array written is the one taken, which is nobody's any more. *)
LEMMA StepStrings ==
  ASSUME IInv, [Next]_vars
  PROVE  StringsStay'
<1> USE WordAssumption, BuffersAssumption, AddressAssumption
        DEF exitVars, handVars, historyVars, IInv, TypeOK, CallInv, RingInv, Taken, Buffer, Code, StringsStay
<1>1. CASE Main
  BY <1>1 DEF VmInit, VcpuInit, RunRealMode, RunProtectedMode, RunPaged32bitMode, RunLongMode, SetUp, RunMode, Fail, Main
<1>2. CASE HC_print8bit \/ HC_print32bit \/ HC_printStr \/ HC_numExits
  BY <1>2 DEF HC_print8bit, HC_print32bit, HC_printStr, HC_numExits, Simple, Exit
<1>3. CASE HC_gvaToHva
  BY <1>3 DEF HC_gvaToHva, Exit
<1>4. CASE HC_numExitsByType
  <2>1. CASE call = "none"
    <3>1. /\ age' = Older /\ UNCHANGED s
          /\ given' = [b \in Buffer |-> IF Older[b] = Buffers THEN Unwritten ELSE given[b]]
      BY <1>4, <2>1 DEF HC_numExitsByType, Exit
    <3> QED
      BY <3>1 DEF Older
  <2>2. CASE call = "byType_out"
    BY <1>4, <2>2 DEF HC_numExitsByType, Exit
  <2> QED
    BY <1>4, <2>1, <2>2 DEF HC_numExitsByType
<1>5. CASE Return
  <2>1. CASE call = "byType_in"
    <3>1. /\ io.data \in Buffer /\ UNCHANGED s
          /\ given' = [given EXCEPT ![io.data] = s[io.data]]
          /\ age' = [age EXCEPT ![io.data] = 0]
      BY <1>5, <2>1 DEF Return
    <3>2. \A b \in Buffer \ {io.data} : age'[b] = age[b] /\ given'[b] = given[b]
      BY <3>1
    <3>3. given'[io.data] = s[io.data]
      BY <3>1
    <3> QED
      BY <3>1, <3>2, <3>3
  <2>2. CASE call # "byType_in"
    BY <1>5, <2>2 DEF Return
  <2> QED
    BY <2>1, <2>2
<1>6. CASE ServePrint
  BY <1>6 DEF ServePrint, Serve, CountOut
<1>7. CASE ServeGva
  BY <1>7 DEF ServeGva, Serve, CountOut
<1>8. CASE ServeTranslation
  BY <1>8 DEF ServeTranslation, Serve, CountIn
<1>9. CASE ServeNumExits
  BY <1>9 DEF ServeNumExits, Serve, CountIn
<1>10. CASE ServeAddress
  BY <1>10 DEF ServeAddress, Serve, CountOut
<1>11. CASE ServeNumExitsByType
  BY <1>11 DEF ServeNumExitsByType, Serve, CountIn
<1>12. CASE Halt \/ Check \/ KvmRunFails
  BY <1>12 DEF Halt, Check, KvmRunFails, Fail
<1>13. CASE UNCHANGED vars
  BY <1>13 DEF vars
<1> QED
  BY <1>1, <1>2, <1>3, <1>4, <1>5, <1>6, <1>7, <1>8, <1>9, <1>10, <1>11, <1>12, <1>13 DEF Next, Guest, Host

(* The program starts in a state of the inductive invariant. *)
LEMMA InitIInv == Init => IInv
<1> SUFFICES ASSUME Init PROVE IInv
  OBVIOUS
<1> USE WordAssumption, BuffersAssumption DEF Init, Buffer, Code, Unwritten
<1>1. TypeOK
  BY DEF TypeOK, UInt32, Contents, Call
<1>2. CountersAgree /\ AnswersAreRight /\ CausedInv
  BY DEF CountersAgree, AnswersAreRight, CausedInv, Plus, Stopped
<1>3. StringsStay /\ RingInv
  BY DEF StringsStay, RingInv
<1>4. CallInv /\ AskedInv
  BY DEF CallInv, AskedInv, Stopped
<1> QED
  BY <1>1, <1>2, <1>3, <1>4 DEF IInv

(* The inductive invariant of simple-kvm.c with its guest. *)
THEOREM Invariant == Spec => []IInv
<1>1. IInv /\ [Next]_vars => IInv'
  <2> SUFFICES ASSUME IInv, [Next]_vars PROVE IInv'
    OBVIOUS
  <2>1. TypeOK'
    BY StepControl, StepIo, StepCounterTypes, StepArrays DEF TypeOK
  <2> QED
    BY <2>1, StepCounters, StepCall, StepRing, StepAnswers, StepStrings DEF IInv
<1> QED
  BY <1>1, InitIInv, PTL DEF Spec

(* Every variable keeps to its range: the counters of exits and of string   *)
(* outputs to their width, the cursor to its arrays.                        *)
THEOREM TypeCorrect == Spec => []TypeOK
  BY Invariant, PTL DEF IInv

(* No exit is counted twice or not at all, for counters of any width. *)
THEOREM Counters == Spec => []CountersAgree
  BY Invariant, PTL DEF IInv

(* Each hypercall is answered with what it asks for. *)
THEOREM Answers == Spec => []AnswersAreRight
  BY Invariant, PTL DEF IInv

(* With n arrays, a string stays as it is until the n-th call after it. *)
THEOREM Strings == Spec => []StringsStay
  BY Invariant, PTL DEF IInv
=============================================================================
