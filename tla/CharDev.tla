------------------------------- MODULE CharDev -------------------------------
(***************************************************************************)
(* my_init() and my_exit(), which driver.c and doom.c have word for word   *)
(* in common.  Both create a class of one name, and in it a device of one  *)
(* name, /dev/my_char_device.  Two insmod or rmmod may overlap, so a step  *)
(* is one call into the kernel; each call of my_init may fail.             *)
(***************************************************************************)
EXTENDS Integers

CONSTANTS
  Driver,   \* the loadable modules
  Number    \* the device numbers alloc_chrdev_region can give out

ASSUME NumberAssumption == 0 \notin Number

VARIABLES
  at,       \* how far each module is in my_init or my_exit
  dev,      \* the static variable dev of each module
  region,   \* the device numbers registered
  class,    \* the module that has created the class "char", {} if none
  node,     \* the module whose device /dev/my_char_device is, {} if none
  leaked    \* history: numbers left registered by a failed my_init

numberVars == <<dev, region, leaked>>
devVars == <<at, numberVars, class, node>>

Stage == {"out", "alloc", "cdev", "class", "device", "live",
          "destroy", "undo_class", "undo_cdev"}
Settled == {"out", "live"}
HoldsNumber(d) == at[d] \notin {"out", "alloc"}
HoldsClass(d) == at[d] \in {"device", "live", "destroy", "undo_class"}

CharDevInit ==
  /\ at = [d \in Driver |-> "out"]
  /\ dev = [d \in Driver |-> 0]
  /\ region = {} /\ leaked = {}
  /\ class = {} /\ node = {}

Step(d, from, to) == at[d] = from /\ at' = [at EXCEPT ![d] = to]

Insmod(d) == Step(d, "out", "alloc") /\ UNCHANGED <<numberVars, class, node>>

AllocRegion(d) ==
  /\ \/ /\ Step(d, "alloc", "cdev")
        /\ \E n \in Number \ region :
             dev' = [dev EXCEPT ![d] = n] /\ region' = region \cup {n}
     \/ Step(d, "alloc", "out") /\ UNCHANGED <<dev, region>>
  /\ UNCHANGED <<class, node, leaked>>

(* When cdev_add fails my_init returns without giving the number back. *)
CdevAdd(d) ==
  /\ \/ Step(d, "cdev", "class") /\ UNCHANGED leaked
     \/ Step(d, "cdev", "out") /\ leaked' = leaked \cup {dev[d]}
  /\ UNCHANGED <<dev, region, class, node>>

(* A second class of the same name is refused. *)
ClassCreate(d) ==
  /\ \/ class = {} /\ Step(d, "class", "device") /\ class' = {d}
     \/ Step(d, "class", "undo_cdev") /\ UNCHANGED class
  /\ UNCHANGED <<numberVars, node>>

DeviceCreate(d) ==
  /\ \/ Step(d, "device", "live") /\ node' = {d}
     \/ Step(d, "device", "undo_class") /\ UNCHANGED node
  /\ UNCHANGED <<numberVars, class>>

(* my_exit, and the same calls where my_init cleans up. *)
DeviceDestroy(d) ==
  /\ Step(d, "destroy", "undo_class")
  /\ node' = node \ {d}
  /\ UNCHANGED <<numberVars, class>>

M_ClassDestroy_forgets(d) ==
  /\ Step(d, "undo_class", "undo_cdev")
  /\ UNCHANGED <<numberVars, class, node>>
ClassDestroy(d) ==
  /\ Step(d, "undo_class", "undo_cdev")
  /\ class' = class \ {d}
  /\ UNCHANGED <<numberVars, node>>

Unregister(d) ==
  /\ Step(d, "undo_cdev", "out")
  /\ region' = region \ {dev[d]}
  /\ UNCHANGED <<dev, leaked, class, node>>

MyInit(d) == AllocRegion(d) \/ CdevAdd(d) \/ ClassCreate(d) \/ DeviceCreate(d)
MyExit(d) == DeviceDestroy(d) \/ ClassDestroy(d) \/ Unregister(d)

-----------------------------------------------------------------------------
CharDevTypeOK ==
  /\ at \in [Driver -> Stage]
  /\ dev \in [Driver -> Number \cup {0}]
  /\ \A d \in Driver : HoldsNumber(d) => dev[d] \in Number
  /\ region \subseteq Number /\ leaked \subseteq Number
  /\ class \subseteq Driver /\ node \subseteq Driver

(* Whoever fails or is removed, and in whatever order, each registration is *)
(* undone once by the module that made it, and none of the other's: the     *)
(* class and the device are those of one module, and the numbers in use are *)
(* those of the modules in the kernel, except for the ones a failed         *)
(* cdev_add has left (driver.c:115-133, doom.c:72-90).                      *)
RegistrationsBalance ==
  /\ class = {d \in Driver : HoldsClass(d)}
  /\ \A d, e \in class : d = e
  /\ node = {d \in Driver : at[d] \in {"live", "destroy"}}
  /\ region = leaked \cup {dev[d] : d \in {e \in Driver : HoldsNumber(e)}}
  /\ \A d \in Driver : HoldsNumber(d) =>
       dev[d] \notin leaked /\ \A e \in Driver \ {d} : HoldsNumber(e) => dev[e] # dev[d]
=============================================================================
