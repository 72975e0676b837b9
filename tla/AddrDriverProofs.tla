--------------------------- MODULE AddrDriverProofs ---------------------------
(***************************************************************************)
(* Proofs about the two drivers that share a class and a device name, for  *)
(* any set of device numbers, and about who has the device open.           *)
(***************************************************************************)
EXTENDS AddrDriver, TLAPS

Balance == CharDevTypeOK /\ RegistrationsBalance

USE DEF Step

(* Each call of my_init, successful or not, keeps the registrations in      *)
(* balance.                                                                 *)
LEMMA MyInitKeepsBalance ==
  ASSUME Balance, NEW d \in Driver, MyInit(d)
  PROVE  Balance'
<1> USE NumberAssumption DEF numberVars, HoldsNumber, HoldsClass
<1>1. CASE AllocRegion(d)
  <2>1. CASE at' = [at EXCEPT ![d] = "cdev"]
    <3>1. PICK n \in Number \ region :
            dev' = [dev EXCEPT ![d] = n] /\ region' = region \cup {n}
      BY <1>1, <2>1 DEF AllocRegion, Balance, CharDevTypeOK
    <3>2. CharDevTypeOK'
      BY <1>1, <2>1, <3>1 DEF AllocRegion, Balance, CharDevTypeOK, Stage
    <3>3. RegistrationsBalance'
      BY <1>1, <2>1, <3>1 DEF AllocRegion, Balance, CharDevTypeOK, RegistrationsBalance
    <3> QED
      BY <3>2, <3>3 DEF Balance
  <2>2. CASE at' = [at EXCEPT ![d] = "out"] /\ UNCHANGED <<dev, region>>
    <3>2. CharDevTypeOK'
      BY <1>1, <2>2 DEF AllocRegion, Balance, CharDevTypeOK, Stage
    <3>3. RegistrationsBalance'
      BY <1>1, <2>2 DEF AllocRegion, Balance, CharDevTypeOK, RegistrationsBalance
    <3> QED
      BY <3>2, <3>3 DEF Balance
  <2> QED
    BY <1>1, <2>1, <2>2 DEF AllocRegion
<1>2. CASE CdevAdd(d)
  <2>1. CharDevTypeOK'
    BY <1>2 DEF CdevAdd, Balance, CharDevTypeOK, Stage
  <2>2. RegistrationsBalance'
    BY <1>2 DEF CdevAdd, Balance, CharDevTypeOK, RegistrationsBalance
  <2> QED
    BY <2>1, <2>2 DEF Balance
<1>3. CASE ClassCreate(d)
  <2>1. CharDevTypeOK'
    BY <1>3 DEF ClassCreate, Balance, CharDevTypeOK, Stage
  <2>2. RegistrationsBalance'
    BY <1>3 DEF ClassCreate, Balance, CharDevTypeOK, RegistrationsBalance
  <2> QED
    BY <2>1, <2>2 DEF Balance
<1>4. CASE DeviceCreate(d)
  <2>1. CharDevTypeOK'
    BY <1>4 DEF DeviceCreate, Balance, CharDevTypeOK, Stage
  <2>2. RegistrationsBalance'
    BY <1>4 DEF DeviceCreate, Balance, CharDevTypeOK, RegistrationsBalance
  <2> QED
    BY <2>1, <2>2 DEF Balance
<1> QED
  BY <1>1, <1>2, <1>3, <1>4 DEF MyInit

(* So does each call of my_exit, and of the cleaning up in my_init.         *)
LEMMA MyExitKeepsBalance ==
  ASSUME Balance, NEW d \in Driver, MyExit(d)
  PROVE  Balance'
<1> USE NumberAssumption DEF numberVars, HoldsNumber, HoldsClass
<1>1. CASE DeviceDestroy(d)
  <2>1. CharDevTypeOK'
    BY <1>1 DEF DeviceDestroy, Balance, CharDevTypeOK, Stage
  <2>2. RegistrationsBalance'
    BY <1>1 DEF DeviceDestroy, Balance, CharDevTypeOK, RegistrationsBalance
  <2> QED
    BY <2>1, <2>2 DEF Balance
<1>2. CASE ClassDestroy(d)
  <2>1. CharDevTypeOK'
    BY <1>2 DEF ClassDestroy, Balance, CharDevTypeOK, Stage
  <2>2. RegistrationsBalance'
    BY <1>2 DEF ClassDestroy, Balance, CharDevTypeOK, RegistrationsBalance
  <2> QED
    BY <2>1, <2>2 DEF Balance
<1>3. CASE Unregister(d)
  <2>1. CharDevTypeOK'
    BY <1>3 DEF Unregister, Balance, CharDevTypeOK, Stage
  <2>2. RegistrationsBalance'
    BY <1>3 DEF Unregister, Balance, CharDevTypeOK, RegistrationsBalance
  <2> QED
    BY <2>1, <2>2 DEF Balance
<1> QED
  BY <1>1, <1>2, <1>3 DEF MyExit

-----------------------------------------------------------------------------
(* What holds of the drivers together with the programs that use them: a    *)
(* device is open only while its module is in the kernel to stay.           *)
DriverInv ==
  /\ Balance
  /\ fd \in [Driver -> SUBSET Driver]
  /\ OpenPinsDriver

(* Nothing is registered before a module is loaded.                         *)
LEMMA InitDriverInv == Init => DriverInv
<1> SUFFICES ASSUME Init PROVE DriverInv
  OBVIOUS
<1> USE DEF Init, CharDevInit
<1>1. CharDevTypeOK
  BY DEF CharDevTypeOK, Stage, HoldsNumber
<1>2. RegistrationsBalance
  BY DEF RegistrationsBalance, HoldsNumber, HoldsClass
<1>3. fd \in [Driver -> SUBSET Driver] /\ OpenPinsDriver
  BY DEF OpenPinsDriver
<1> QED
  BY <1>1, <1>2, <1>3 DEF DriverInv, Balance

(* What concerns only the programs leaves the registrations alone. *)
LEMMA BalanceStutters == Balance /\ UNCHANGED devVars => Balance'
  BY DEF Balance, CharDevTypeOK, RegistrationsBalance, devVars, numberVars,
         HoldsNumber, HoldsClass

(* A module that comes or goes is not one whose device is open. *)
LEMMA PinsKept ==
  ASSUME DriverInv, UNCHANGED fd,
         \A d \in Driver : at[d] = "live" => at'[d] = "live" \/ \A p \in Driver : d \notin fd[p]
  PROVE  OpenPinsDriver'
  BY DEF DriverInv, OpenPinsDriver

(* Every step of the script and the programs keeps the balance.             *)
LEMMA StepDriverInv == DriverInv /\ [Next]_vars => DriverInv'
<1> SUFFICES ASSUME DriverInv, [Next]_vars PROVE DriverInv'
  OBVIOUS
<1>0. at \in [Driver -> Stage] /\ Balance
  BY DEF DriverInv, Balance, CharDevTypeOK
<1>1. ASSUME NEW d \in Driver, Module(d) PROVE DriverInv'
  <2>1. Balance'
    BY <1>0, <1>1, MyInitKeepsBalance, MyExitKeepsBalance DEF Module
  <2>2. UNCHANGED fd
    BY <1>1 DEF Module, progVars
  <2>3. \A e \in Driver : at[e] = "live" => at'[e] = "live"
    BY <1>0, <1>1 DEF Module, MyInit, MyExit, AllocRegion, CdevAdd, ClassCreate,
                      DeviceCreate, DeviceDestroy, ClassDestroy, Unregister
  <2> QED
    BY <2>1, <2>2, <2>3, PinsKept DEF DriverInv
<1>2. ASSUME NEW d \in Driver, CallInsmod(d) PROVE DriverInv'
  <2>1. UNCHANGED fd
    BY <1>2 DEF CallInsmod, progVars
  <2>2. CASE Insmod(d)
    <3>1. CharDevTypeOK'
      BY <1>0, <2>2 DEF Insmod, Balance, CharDevTypeOK, Stage, numberVars, HoldsNumber
    <3>2. RegistrationsBalance'
      BY <1>0, <2>2 DEF Insmod, Balance, CharDevTypeOK, RegistrationsBalance,
                        numberVars, HoldsNumber, HoldsClass
    <3>3. \A e \in Driver : at[e] = "live" => at'[e] = "live"
      BY <1>0, <2>2 DEF Insmod
    <3> QED
      BY <2>1, <3>1, <3>2, <3>3, PinsKept DEF DriverInv, Balance
  <2>3. CASE UNCHANGED devVars
    BY <1>0, <2>1, <2>3, BalanceStutters, PinsKept DEF DriverInv, devVars
  <2> QED
    BY <1>2, <2>2, <2>3 DEF CallInsmod
<1>3. ASSUME NEW d \in Driver, CallRmmod(d) PROVE DriverInv'
  <2>1. UNCHANGED fd
    BY <1>3 DEF CallRmmod, progVars
  <2>2. CASE /\ Step(d, "live", "destroy") /\ UNCHANGED <<numberVars, class, node>>
             /\ \A p \in Driver : d \notin fd[p]
    <3>1. CharDevTypeOK'
      BY <1>0, <2>2 DEF Balance, CharDevTypeOK, Stage, numberVars, HoldsNumber
    <3>2. RegistrationsBalance'
      BY <1>0, <2>2 DEF Balance, CharDevTypeOK, RegistrationsBalance,
                        numberVars, HoldsNumber, HoldsClass
    <3>3. \A e \in Driver : at[e] = "live" =>
            at'[e] = "live" \/ \A p \in Driver : e \notin fd[p]
      BY <1>0, <2>2
    <3> QED
      BY <2>1, <3>1, <3>2, <3>3, PinsKept DEF DriverInv, Balance
  <2>3. CASE UNCHANGED devVars
    BY <1>0, <2>1, <2>3, BalanceStutters, PinsKept DEF DriverInv, devVars
  <2> QED
    BY <1>3, <2>2, <2>3 DEF CallRmmod
<1>4. ASSUME UNCHANGED devVars, UNCHANGED fd PROVE DriverInv'
  BY <1>0, <1>4, BalanceStutters, PinsKept DEF DriverInv, devVars
<1>5. ASSUME NEW d \in Driver, Launch(d) \/ ScriptEnds(d) PROVE DriverInv'
  BY <1>4, <1>5 DEF Launch, ScriptEnds, progVars
<1>6. ASSUME NEW d \in Driver, Open(d) PROVE DriverInv'
  <2>1. Balance'
    BY <1>0, <1>6, BalanceStutters DEF Open
  <2>2. fd' \in [Driver -> SUBSET Driver]
    BY <1>6 DEF Open, DriverInv, Balance, CharDevTypeOK
  <2>3. OpenPinsDriver'
    <3>1. CASE UNCHANGED fd
      BY <1>6, <3>1, PinsKept DEF Open, devVars
    <3>2. CASE fd' = [fd EXCEPT ![d] = node] /\ \E o \in node : at[o] = "live"
      <4>1. \A e, o \in node : e = o
        BY <1>0 DEF Balance, CharDevTypeOK, RegistrationsBalance, HoldsClass
      <4>2. UNCHANGED at
        BY <1>6 DEF Open, devVars
      <4>3. \A e \in node : at'[e] = "live" /\ node = {e}
        BY <3>2, <4>1, <4>2
      <4> QED
        BY <3>2, <4>2, <4>3 DEF OpenPinsDriver, DriverInv
    <3> QED
      BY <1>6, <3>1, <3>2 DEF Open
  <2> QED
    BY <2>1, <2>2, <2>3 DEF DriverInv
<1>7. ASSUME NEW d \in Driver, NEW from, Ends(d, from), UNCHANGED devVars PROVE DriverInv'
  <2>1. Balance'
    BY <1>0, <1>7, BalanceStutters
  <2>2. fd' \in [Driver -> SUBSET Driver] /\ UNCHANGED at
    BY <1>7 DEF Ends, DriverInv, devVars
  <2>3. OpenPinsDriver'
    BY <1>7, <2>2 DEF Ends, OpenPinsDriver, DriverInv
  <2> QED
    BY <2>1, <2>2, <2>3 DEF DriverInv
<1>8. "driver" \in Driver /\ "doom" \in Driver
  BY DriverAssumption
<1>9. CASE UserProgram
  BY <1>4, <1>6, <1>7, <1>8, <1>9
  DEF UserProgram, GetPhysicalAddr, WritePhysicalMem, PrintAndClose
<1>10. CASE Soldier \/ Reclaim
  BY <1>4, <1>6, <1>7, <1>8, <1>10 DEF Soldier, SoldierEnds, Reclaim, progVars
<1>11. CASE UNCHANGED vars
  BY <1>4, <1>11 DEF vars, progVars
<1> QED
  BY <1>1, <1>2, <1>3, <1>5, <1>9, <1>10, <1>11 DEF Next, Script

(* The invariant about the registrations, for any set of device numbers.    *)
THEOREM DriverInvariant == Spec => []DriverInv
  BY InitDriverInv, StepDriverInv, PTL DEF Spec

(* Both modules come and go as they like: each registration is undone once, *)
(* by its own module, for any set of device numbers.                        *)
THEOREM Balances == Spec => []RegistrationsBalance
  BY DriverInvariant, PTL DEF DriverInv, Balance

(* rmmod never takes away a module whose device is open. *)
THEOREM Pinned == Spec => []OpenPinsDriver
  BY DriverInvariant, PTL DEF DriverInv

-----------------------------------------------------------------------------
(* Division by the page size and by the width of an int. *)
LEMMA DivMod ==
  ASSUME NEW x \in Int, NEW y \in Nat \ {0}
  PROVE  x = y * (x \div y) + (x % y) /\ x % y \in 0 .. y - 1 /\ x \div y \in Int
  OBVIOUS

(* A number is a multiple of p and a remainder in one way only.             *)
LEMMA DivModUnique ==
  ASSUME NEW x \in Int, NEW p \in Nat \ {0}, NEW r \in 0 .. p - 1
  PROVE  (x * p + r) \div p = x /\ (x * p + r) % p = r
<1> DEFINE n == x * p + r
           q == n \div p
<1>0. n \in Int
  OBVIOUS
<1>1. q \in Int /\ n = p * q + (n % p) /\ n % p \in 0 .. p - 1
  <2> HIDE DEF n
  <2> QED
    BY <1>0, DivMod
<1>2. (x - q) * p = x * p - p * q
  BY <1>1
<1>3. (x - q) * p < p /\ (x - q) * p > -p
  BY <1>1, <1>2
<1>4. x = q
  <2> HIDE DEF q
  <2>1. x - q >= 1 => (x - q) * p >= p
    BY <1>1
  <2>2. x - q <= -1 => (x - q) * p <= -p
    BY <1>1
  <2> QED
    BY <1>1, <1>3, <2>1, <2>2
<1>5. n % p = r
  BY <1>1, <1>4
<1> QED
  BY <1>4, <1>5

(* IntMod is a whole number of pages, and an even one. *)
LEMMA WholePages ==
  \E k \in Int : IntMod = 2 * PageSize * k
<1> DEFINE w == 2 * PageSize
<1>1. w \in Nat \ {0} /\ IntMod \in Int /\ IntMod % w = 0
  BY MemoryAssumption
<1>2. IntMod \div w \in Int /\ IntMod = w * (IntMod \div w)
  <2> HIDE DEF w
  <2>1. IntMod = w * (IntMod \div w) + (IntMod % w) /\ IntMod \div w \in Int
    BY <1>1, DivMod
  <2> QED
    BY <1>1, <2>1
<1> QED
  BY <1>2

(* The place of the byte in its page is a number an int holds. *)
LEMMA OffsetIsInt ==
  ASSUME offset \in Places
  PROVE  offset \in 0 .. PageSize - 1 /\ ToInt(offset) = offset
<1>1. PICK k \in Int : IntMod = 2 * PageSize * k
  BY WholePages
<1>2. /\ PageSize \in Nat \ {0} /\ IntMod \in Nat \ {0}
      /\ offset \in 0 .. PageSize - 1
  BY MemoryAssumption
<1>3. k >= 1
  BY <1>1, <1>2
<1>4. 2 * PageSize <= IntMod
  <2>1. 2 * PageSize * (k - 1) >= 0
    BY <1>2, <1>3
  <2>2. 2 * PageSize * (k - 1) = IntMod - 2 * PageSize
    BY <1>1, <1>2
  <2> QED
    BY <1>1, <1>2, <2>1, <2>2
<1>5. offset \in 0 .. IntMod - 1 /\ 2 * offset < IntMod
  BY <1>2, <1>4
<1>6. (0 * IntMod + offset) % IntMod = offset
  BY <1>2, <1>5, DivModUnique
<1>7. offset % IntMod = offset
  BY <1>2, <1>5, <1>6
<1> QED
  BY <1>2, <1>5, <1>7 DEF ToInt

(* Whatever entry is translated, the byte's place in its page stays right. *)
LEMMA TranslateAligned ==
  ASSUME offset \in Places, NEW entry \in Int
  PROVE  \E n \in Int : Translate(entry) = n * PageSize + offset
<1> DEFINE m == entry \div PageSize
           x == m * PageSize
           q == x \div IntMod
<1>1. PICK k \in Int : IntMod = 2 * PageSize * k
  BY WholePages
<1>2. PageSize \in Nat \ {0} /\ IntMod \in Nat \ {0}
  BY MemoryAssumption
<1>3. m \in Int
  BY <1>2, DivMod
<1>4. q \in Int /\ x % IntMod = x - IntMod * q
  <2>1. x \in Int
    BY <1>2, <1>3
  <2>2. x = IntMod * q + (x % IntMod) /\ x % IntMod \in 0 .. IntMod - 1 /\ q \in Int
    <3> HIDE DEF x
    <3> QED
      BY <1>2, <2>1, DivMod
  <2> QED
    BY <1>2, <2>1, <2>2
<1> DEFINE j == 2 * k
           c == j * q
<1>5. j \in Int /\ c \in Int /\ IntMod = j * PageSize /\ IntMod * q = c * PageSize
  BY <1>1, <1>2, <1>4
<1> HIDE DEF j, c, m, q
<1>6. x - IntMod * q = (m - c) * PageSize
  BY <1>2, <1>3, <1>5
<1>7. ToInt(x) = (m - c) * PageSize \/ ToInt(x) = (m - c - j) * PageSize
  <2>1. ToInt(x) = x - IntMod * q \/ ToInt(x) = x - IntMod * q - IntMod
    BY <1>4 DEF ToInt
  <2>2. (m - c - j) * PageSize = (m - c) * PageSize - j * PageSize
    BY <1>2, <1>3, <1>5
  <2> QED
    BY <1>5, <1>6, <2>1, <2>2
<1>8. PICK n \in Int : ToInt(x) = n * PageSize
  BY <1>3, <1>5, <1>7
<1> QED
  BY <1>8, OffsetIsInt DEF Translate, m

(* A byte whose page lies in the half of the memory an int can name gets    *)
(* its own address from the driver, the bits around the frame being cut off.*)
LEMMA TranslateLow ==
  ASSUME offset \in Places, NEW f \in Frame, 2 * (f * PageSize) < IntMod
  PROVE  Translate(Entry(f)) = f * PageSize + offset
<1> DEFINE low == f * PageSize
<1>1. f \in Nat /\ PageSize \in Nat \ {0} /\ IntMod \in Nat \ {0}
  BY MemoryAssumption
<1>2. PICK k \in Int : IntMod = 2 * PageSize * k
  BY WholePages
<1>3. Present \in 0 .. PageSize - 1
  BY <1>1, DivMod DEF Present
<1>4. low \in 0 .. IntMod - 1
  <2>1. low \in Nat
    BY <1>1
  <2> QED
    BY <1>1, <2>1
<1>5. (Entry(f) \div PageSize) * PageSize = 4 * IntMod + low
  <2>1. 8 * k + f \in Int
    BY <1>1, <1>2
  <2>2. Entry(f) = (8 * k + f) * PageSize + Present
    BY <1>1, <1>2, <1>3 DEF Entry, NoExecute
  <2>3. Entry(f) \div PageSize = 8 * k + f
    BY <1>1, <1>3, <2>1, <2>2, DivModUnique
  <2> QED
    BY <1>1, <1>2, <2>1, <2>3
<1>6. ToInt(4 * IntMod + low) = low
  <2> HIDE DEF low
  <2>1. (4 * IntMod + low) % IntMod = low
    BY <1>1, <1>4, DivModUnique
  <2> QED
    BY <1>1, <1>4, <2>1 DEF ToInt, low
<1> QED
  BY <1>5, <1>6, OffsetIsInt DEF Translate

-----------------------------------------------------------------------------
(* What the driver knows of the byte: the address user_program got is that  *)
(* of the byte's place in some page, until its own page moves that of the   *)
(* byte itself, and before the write nothing has been changed.              *)
Untouched == value = 6 /\ spoilt = {} /\ ~wild

ByteInv ==
  /\ prog \in [Driver -> {"none", "open", "ioctl", "write", "print"}]
  /\ fd \in [Driver -> SUBSET Driver]
  /\ page \in Frame \cup {Swapped} /\ offset \in Places
  /\ moved \in BOOLEAN /\ wild \in BOOLEAN
  /\ ~moved => page \in Frame
  /\ prog["driver"] = "write" /\ Served =>
       /\ \E n \in Int : gpa = n * PageSize + offset
       /\ ~moved /\ Low => gpa = At(offset)
  /\ prog["driver"] \in {"open", "ioctl", "write"} => Untouched
  /\ OwnWordOnly

(* Every frame is a number and so has an address. *)
LEMMA Memory ==
  /\ \A f \in Frame : f # Swapped /\ f * PageSize \in Nat /\ 2 * (f * PageSize) \in Nat
  /\ IntMod \in Nat /\ "driver" \in Driver /\ "doom" \in Driver
<1>1. \A f \in Frame : f \in Nat /\ f # Swapped
  BY MemoryAssumption DEF Swapped
<1>2. \A f \in Nat : f * PageSize \in Nat /\ 2 * (f * PageSize) \in Nat
  BY MemoryAssumption
<1> QED
  BY <1>1, <1>2, MemoryAssumption, DriverAssumption

(* No byte has been written at first.                                       *)
LEMMA InitByteInv == Init => ByteInv
<1> SUFFICES ASSUME Init PROVE ByteInv
  OBVIOUS
<1>1. prog["driver"] = "none" /\ Untouched
  BY Memory DEF Init, Untouched
<1>2. OwnWordOnly
  BY <1>1 DEF OwnWordOnly, Untouched
<1> QED
  BY <1>1, <1>2 DEF ByteInv, Init

(* Steps that leave user_program, its byte and its file alone. *)
LEMMA ByteStutters ==
  ASSUME ByteInv, UNCHANGED memVars,
         prog' \in [Driver -> {"none", "open", "ioctl", "write", "print"}],
         fd' \in [Driver -> SUBSET Driver],
         prog'["driver"] = prog["driver"], fd'["driver"] = fd["driver"]
  PROVE  ByteInv'
  BY DEF ByteInv, OwnWordOnly, Served, Untouched, Low, At, memVars, damage

(* The driver translates every page to an address that is right in the      *)
(* place, and a low page that is there to its own.                          *)
LEMMA AddressRight ==
  ASSUME ByteInv, GetPhysicalAddr, Served
  PROVE  /\ \E n \in Int : gpa' = n * PageSize + offset
         /\ ~moved /\ Low => gpa' = At(offset)
<1>1. offset \in Places /\ page \in Frame \cup {Swapped} /\ (~moved => page \in Frame)
  BY DEF ByteInv
<1>2. \A f \in Frame : Entry(f) \in Int /\ f * PageSize \in Int
  <2>1. Present \in Int
    BY MemoryAssumption DEF Present
  <2> QED
    BY <2>1, MemoryAssumption DEF Entry, NoExecute
<1>3. PICK e \in Int : gpa' = Translate(e) /\ (page # Swapped => e = Entry(page))
  BY <1>1, <1>2 DEF GetPhysicalAddr
<1>4. ASSUME ~moved, Low PROVE gpa' = At(offset)
  <2>1. page \in Frame /\ page # Swapped
    BY <1>1, <1>4, Memory
  <2> QED
    BY <1>1, <1>3, <1>4, <2>1, TranslateLow DEF Low, At
<1> QED
  BY <1>1, <1>3, <1>4, TranslateAligned

(* A word stored within the byte's page starts at the byte. *)
LEMMA WordStarts ==
  ASSUME NEW f \in Int, NEW n \in Int, NEW o \in 0 .. PageSize - 1,
         NEW i \in 0 .. PageSize - 1, n * PageSize + o = f * PageSize + i
  PROVE  n = f /\ o = i
<1>1. PageSize \in Nat \ {0}
  BY MemoryAssumption
<1>2. (n * PageSize + o) \div PageSize = n /\ (n * PageSize + o) % PageSize = o
  BY <1>1, DivModUnique
<1>3. (f * PageSize + i) \div PageSize = f /\ (f * PageSize + i) % PageSize = i
  BY <1>1, DivModUnique
<1> QED
  BY <1>2, <1>3

(* What one store does: nothing if user_program's request went elsewhere or *)
(* the address is none, and otherwise, if it falls on the byte, just what   *)
(* OwnWordOnly says.                                                        *)
LEMMA StoreOnByte ==
  ASSUME ByteInv, WritePhysicalMem, Served, gpa >= 0,
         ~wild' \/ (~moved /\ Low)
  PROVE  /\ value' = 5 /\ spoilt' = (offset + 1 .. offset + Word - 1) \cap InPage
         /\ wild' => offset + Word > PageSize
<1>1. /\ PageSize \in Nat \ {0} /\ Word \in 1 .. PageSize
      /\ offset \in 0 .. PageSize - 1 /\ page \in Int
  BY MemoryAssumption DEF ByteInv, Swapped
<1>2. prog["driver"] = "write"
  BY DEF WritePhysicalMem, Ends, ProgStep
<1>3. PICK n \in Int : gpa = n * PageSize + offset
  BY <1>2 DEF ByteInv
<1>4. n * PageSize \in Int /\ gpa \in Int
  BY <1>1, <1>3
<1>5. Stored = gpa .. gpa + Word - 1
  BY DEF Stored
<1>6. gpa = At(offset)
  <2>1. CASE ~wild'
    <3>1. Stored \subseteq {At(i) : i \in InPage}
      BY <2>1 DEF WritePhysicalMem
    <3>2. gpa \in Stored
      BY <1>1, <1>4, <1>5
    <3>3. PICK i \in 0 .. PageSize - 1 : gpa = page * PageSize + i
      BY <3>1, <3>2 DEF InPage, At
    <3> QED
      BY <1>1, <1>3, <3>3, WordStarts DEF At
  <2>2. CASE ~moved /\ Low
    BY <1>2, <2>2 DEF ByteInv
  <2> QED
    BY <2>1, <2>2
<1> DEFINE base == page * PageSize
<1>7. base \in Int /\ \A i : At(i) = base + i
  BY <1>1 DEF At
<1>8. gpa = base + offset
  BY <1>6, <1>7
<1> HIDE DEF base
<1>9. \A i \in Int : At(i) \in Stored <=> i \in offset .. offset + Word - 1
  BY <1>1, <1>5, <1>7, <1>8
<1>10. value' = 5
  BY <1>1, <1>6, <1>9 DEF WritePhysicalMem
<1>11. spoilt' = (offset + 1 .. offset + Word - 1) \cap InPage
  <2>1. spoilt' = {i \in InPage \ {offset} : i \in offset .. offset + Word - 1}
    BY <1>1, <1>9 DEF WritePhysicalMem, InPage
  <2> QED
    BY <1>1, <2>1 DEF InPage
<1>12. ASSUME offset + Word <= PageSize PROVE ~wild'
  <2>1. ASSUME NEW a \in Stored PROVE \E i \in InPage : a = At(i)
    <3>1. a \in Int /\ a - base \in 0 .. PageSize - 1
      BY <1>1, <1>5, <1>7, <1>8, <1>12, <2>1
    <3>2. a = At(a - base)
      BY <1>7, <3>1
    <3> QED
      BY <3>1, <3>2 DEF InPage
  <2> QED
    BY <2>1 DEF WritePhysicalMem
<1> QED
  BY <1>1, <1>10, <1>11, <1>12

(* A request nobody serves, or for an address that is none, stores nothing. *)
LEMMA StoreNowhere ==
  ASSUME ByteInv, WritePhysicalMem, ~Served \/ ~(gpa >= 0)
  PROVE  Untouched'
<1>1. prog["driver"] = "write"
  BY DEF WritePhysicalMem, Ends, ProgStep
<1>2. Stored = {}
  BY DEF Stored
<1> QED
  BY <1>1, <1>2 DEF WritePhysicalMem, ByteInv, Untouched

(* Each request translates or writes the byte's address or does nothing.    *)
LEMMA StepByteInv == ByteInv /\ DriverInv /\ [Next]_vars => ByteInv'
<1> SUFFICES ASSUME ByteInv, DriverInv, [Next]_vars PROVE ByteInv'
  OBVIOUS
<1> USE Memory
<1>0. class \subseteq Driver /\ node \subseteq Driver
  BY DEF DriverInv, Balance, CharDevTypeOK
<1>1. ASSUME UNCHANGED <<progVars, memVars>> PROVE ByteInv'
  BY <1>1, ByteStutters DEF ByteInv, progVars
<1>2. ASSUME NEW d \in Driver, Script(d) PROVE ByteInv'
  <2>1. CASE CallInsmod(d) \/ CallRmmod(d) \/ ScriptEnds(d)
    BY <1>1, <2>1 DEF CallInsmod, CallRmmod, ScriptEnds
  <2>2. CASE Launch(d) /\ d # "driver"
    <3>1. prog' = [prog EXCEPT ![d] = "open"] /\ UNCHANGED <<fd, memVars>>
      BY <2>2 DEF Launch, ProgStep
    <3> QED
      BY <2>2, <3>1, ByteStutters DEF ByteInv
  <2>3. CASE Launch(d) /\ d = "driver"
    <3>1. /\ prog' = [prog EXCEPT !["driver"] = "open"] /\ UNCHANGED fd
          /\ page' \in Frame /\ offset' \in Places /\ moved' = FALSE /\ Untouched'
      BY <2>3 DEF Launch, ProgStep, Untouched
    <3>2. prog'["driver"] = "open"
      BY <3>1 DEF ByteInv
    <3>3. OwnWordOnly' /\ wild' = FALSE
      BY <2>3, <3>1, <3>2 DEF OwnWordOnly, Untouched, Launch
    <3> QED
      BY <3>1, <3>2, <3>3 DEF ByteInv
  <2> QED
    BY <1>2, <2>1, <2>2, <2>3 DEF Script
<1>3. ASSUME NEW d \in Driver, Module(d) PROVE ByteInv'
  BY <1>1, <1>3 DEF Module
<1>4. CASE Open("driver")
  <2>1. /\ prog["driver"] = "open" /\ UNCHANGED memVars
        /\ prog' \in [Driver -> {"none", "open", "ioctl", "write", "print"}]
        /\ fd' \in [Driver -> SUBSET Driver]
        /\ prog'["driver"] \in {"none", "ioctl"}
    BY <1>0, <1>4 DEF Open, ProgStep, ByteInv
  <2>2. Untouched'
    BY <2>1 DEF ByteInv, Untouched, memVars, damage
  <2>3. OwnWordOnly'
    BY <2>1, <2>2 DEF OwnWordOnly, Untouched
  <2> QED
    BY <2>1, <2>2, <2>3 DEF ByteInv, memVars, damage
<1>5. CASE GetPhysicalAddr
  <2>1. /\ prog["driver"] = "ioctl" /\ prog' = [prog EXCEPT !["driver"] = "write"]
        /\ UNCHANGED <<fd, page, offset, moved, damage>>
    BY <1>5 DEF GetPhysicalAddr, ProgStep
  <2>2. prog'["driver"] = "write" /\ Untouched'
    BY <2>1 DEF ByteInv, Untouched, damage
  <2>3. Served' => /\ \E n \in Int : gpa' = n * PageSize + offset'
                   /\ ~moved' /\ Low' => gpa' = (At(offset))'
    BY <1>5, <2>1, AddressRight DEF Served, Low, At
  <2>4. OwnWordOnly'
    BY <2>1, <2>2 DEF OwnWordOnly, Untouched
  <2> QED
    BY <2>1, <2>2, <2>3, <2>4 DEF ByteInv, damage
<1>6. CASE WritePhysicalMem
  <2>1. /\ prog["driver"] = "write" /\ UNCHANGED <<page, offset, gpa, moved>>
    BY <1>6 DEF WritePhysicalMem, Ends, ProgStep
  <2>2. /\ prog' \in [Driver -> {"none", "open", "ioctl", "write", "print"}]
        /\ fd' \in [Driver -> SUBSET Driver]
        /\ \/ prog'["driver"] = "print" /\ UNCHANGED fd
           \/ prog'["driver"] = "none"
    BY <1>6 DEF WritePhysicalMem, Ends, ProgStep, ByteInv
  <2>3. wild' \in BOOLEAN
    BY <1>6 DEF WritePhysicalMem
  <2>4. UNCHANGED Low
    BY <2>1 DEF Low
  <2>5. OwnWordOnly'
    <3>1. CASE Served /\ gpa >= 0
      <4>1. ~wild' \/ (~moved /\ Low) =>
              /\ value' = 5 /\ spoilt' = (offset + 1 .. offset + Word - 1) \cap InPage
              /\ wild' => offset + Word > PageSize
        BY <1>6, <3>1, StoreOnByte
      <4>2. prog'["driver"] # "none" => Served'
        BY <2>2, <3>1 DEF Served
      <4> QED
        BY <2>1, <2>4, <4>1, <4>2 DEF OwnWordOnly
    <3>2. CASE ~(Served /\ gpa >= 0)
      <4>1. Untouched'
        BY <1>6, <3>2, StoreNowhere
      <4>2. prog'["driver"] = "print" => ~Served'
        <5>1. CASE Served
          <6>1. gpa < 0
            <7>1. PICK n \in Int : gpa = n * PageSize + offset
              BY <2>1, <5>1 DEF ByteInv
            <7>2. n * PageSize + offset \in Int
              BY MemoryAssumption DEF ByteInv
            <7> QED
              BY <3>2, <5>1, <7>1, <7>2
          <6> QED
            BY <1>6, <5>1, <6>1 DEF WritePhysicalMem, Ends, ProgStep, ByteInv
        <5>2. CASE ~Served
          BY <2>2, <5>2 DEF Served
        <5> QED
          BY <5>1, <5>2
      <4> QED
        BY <2>1, <4>1, <4>2 DEF OwnWordOnly, Untouched
    <3> QED
      BY <3>1, <3>2
  <2> QED
    BY <2>1, <2>2, <2>3, <2>5 DEF ByteInv
<1>7. CASE PrintAndClose
  <2>1. /\ prog' \in [Driver -> {"none", "open", "ioctl", "write", "print"}]
        /\ fd' \in [Driver -> SUBSET Driver]
        /\ prog'["driver"] = "none" /\ UNCHANGED <<offset, moved, damage>>
    BY <1>7 DEF PrintAndClose, Ends, ProgStep, ByteInv
  <2>2. page' \in Frame \cup {Swapped} /\ (~moved => page' = page)
    BY <1>7 DEF PrintAndClose, ByteInv
  <2>3. OwnWordOnly'
    BY <2>1, <2>2 DEF OwnWordOnly, ByteInv, Low, damage
  <2> QED
    BY <2>1, <2>2, <2>3 DEF ByteInv, damage
<1>8. CASE Soldier
  <2>1. /\ UNCHANGED memVars
        /\ prog' \in [Driver -> {"none", "open", "ioctl", "write", "print"}]
        /\ fd' \in [Driver -> SUBSET Driver]
        /\ prog'["driver"] = prog["driver"] /\ fd'["driver"] = fd["driver"]
    BY <1>0, <1>8 DEF Soldier, SoldierEnds, Open, Ends, ProgStep, ByteInv
  <2> QED
    BY <2>1, ByteStutters
<1>9. CASE Reclaim
  <2>1. /\ page' \in Frame \cup {Swapped} /\ moved' = TRUE
        /\ UNCHANGED <<prog, fd, offset, gpa, damage>>
    BY <1>9 DEF Reclaim, progVars
  <2>2. OwnWordOnly'
    BY <2>1 DEF OwnWordOnly, ByteInv, Served, damage
  <2> QED
    BY <2>1, <2>2 DEF ByteInv, Served, Untouched, damage
<1>10. CASE UNCHANGED vars
  BY <1>1, <1>10 DEF vars
<1> QED
  BY <1>2, <1>3, <1>4, <1>5, <1>6, <1>7, <1>8, <1>9, <1>10 DEF Next, UserProgram

(* What the driver writes for user_program's byte, for any memory, any      *)
(* width of an int and any size of an unsigned long up to a page: the       *)
(* byte's word as far as the page goes, and nothing outside the page unless *)
(* the page was moved, lies high, or ends before the word.                  *)
THEOREM OwnWord == Spec => []OwnWordOnly
<1>1. ByteInv => OwnWordOnly
  BY DEF ByteInv
<1> QED
  BY <1>1, InitByteInv, StepByteInv, DriverInvariant, PTL DEF Spec
=============================================================================
