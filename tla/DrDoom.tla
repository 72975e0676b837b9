------------------------------- MODULE DrDoom --------------------------------
(***************************************************************************)
(* doom.c, soldier.c, control_station.c and run_dr_doom.sh.  A soldier     *)
(* asks the driver doom to make the control station its parent; the driver *)
(* moves it from one list of children to the other, pointer by pointer and *)
(* without the kernel's tasklist lock.  The control station reaps its      *)
(* soldiers in its handler of SIGCHLD.                                     *)
(*                                                                         *)
(* A list of children is a ring of list_heads: the one in the parent and   *)
(* one, sibling, in each child.  The kernel's own changes of these lists   *)
(* (fork, reaping, the death of a parent) are made under its lock.         *)
(***************************************************************************)
EXTENDS Integers, FiniteSets

CONSTANT Soldier

ASSUME SoldierAssumption ==
  /\ IsFiniteSet(Soldier)
  /\ Soldier \cap {"shell.children", "station.children", "station", "poison"} = {}

VARIABLES
  loaded,    \* is doom.ko in the kernel?
  station,   \* the control station
  sa_flags,  \* its uninitialised sa.sa_flags
  ignored,   \* is SIGCHLD ignored by default (no handler, or reset)?
  pending,   \* is SIGCHLD pending for it?
  handlers,  \* activations of sigchld_handler under way
  pc,        \* where each soldier is
  parent,    \* real_parent of each soldier
  control_station, \* what pid_task found for each soldier
  saved,     \* each soldier's local variables in the list operations
  next, prev,      \* the pointers of each list_head
  race       \* history: has a list changed while the driver was changing one?

stationVars == <<station, sa_flags, ignored, pending, handlers>>
listVars == <<next, prev>>
soldierVars == <<pc, parent, control_station, saved>>
vars == <<loaded, stationVars, soldierVars, listVars, race>>

Head == [shell |-> "shell.children", station |-> "station.children"]
Node == {Head.shell, Head.station, "station"} \cup Soldier
Poison == "poison"

(* The children that following ptr from a head leads to: the nodes in every
   set that cannot be left that way. *)
Closed(ptr, head) ==
  {S \in SUBSET Node : \A n \in S \cup {head} : ptr[n] \in S \cup {head, Poison}}
Chain(ptr, head) == {n \in Node : \A S \in Closed(ptr, head) : n \in S}
Children(p) == Chain(next, Head[p])

(* What the kernel's list_del and list_add_tail make of the lists. *)
Unlink(n) ==
  IF Poison \in {next[n], prev[n]} THEN UNCHANGED listVars
  ELSE /\ next' = [next EXCEPT ![prev[n]] = next[n], ![n] = n]
       /\ prev' = [prev EXCEPT ![next[n]] = prev[n], ![n] = n]
AddTail(n, head) ==
  /\ next' = [next EXCEPT ![prev[head]] = n, ![n] = head]
  /\ prev' = [prev EXCEPT ![head] = n, ![n] = prev[head]]

InDriver(s) == pc[s] \in {"del_prev", "del_next", "set_parent", "add", "add_next"}
(* A change of the lists by somebody else than the soldiers in ok. *)
Disturb(ok) == race' = (race \/ \E s \in Soldier \ ok : InDriver(s))

Running == station \in {"starting", "running"}
ZombieIn(p) == {s \in Children(p) \cap Soldier : pc[s] = "zombie"}

Init ==
  /\ loaded = FALSE
  /\ station = "off"
  /\ sa_flags = {}
  /\ ignored = TRUE
  /\ pending = FALSE
  /\ handlers = 0
  /\ pc = [s \in Soldier |-> "off"]
  /\ parent = [s \in Soldier |-> "shell"]
  /\ control_station = [s \in Soldier |-> "none"]
  /\ saved = [s \in Soldier |-> [prev |-> Poison, next |-> Poison]]
  /\ next = [n \in Node |-> n]
  /\ prev = [n \in Node |-> n]
  /\ race = FALSE

(***************************************************************************)
(* run_dr_doom.sh: insmod, which may fail; the station; the soldiers; kill *)
(* and rmmod, which is refused as long as a soldier has the device open.   *)
(***************************************************************************)
Insmod ==
  /\ station = "off" /\ ~loaded
  /\ loaded' = TRUE
  /\ UNCHANGED <<stationVars, soldierVars, listVars, race>>

LaunchStation ==
  /\ station = "off"
  /\ station' = "starting"
  /\ AddTail("station", Head.shell)
  /\ Disturb({})
  /\ UNCHANGED <<loaded, sa_flags, ignored, pending, handlers, soldierVars>>

LaunchSoldier(s) ==
  /\ station # "off" /\ pc[s] = "off"
  /\ pc' = [pc EXCEPT ![s] = "open"]
  /\ AddTail(s, Head.shell)
  /\ Disturb({})
  /\ UNCHANGED <<loaded, stationVars, parent, control_station, saved>>

(* The station is gone: its children go to init, which reaps the dead ones. *)
StationDies(how) ==
  LET orphans == Children("station") \cap Soldier
  IN  /\ station' = how
      /\ parent' = [s \in Soldier |-> IF s \in orphans THEN "init" ELSE parent[s]]
      /\ pc' = [s \in Soldier |->
                  IF s \in orphans /\ pc[s] = "zombie" THEN "gone" ELSE pc[s]]
      /\ next' = [n \in Node |-> IF n \in orphans \cup {Head.station} THEN n ELSE next[n]]
      /\ prev' = [n \in Node |-> IF n \in orphans \cup {Head.station} THEN n ELSE prev[n]]
      /\ Disturb({})
      /\ pending' = FALSE /\ handlers' = 0
      /\ UNCHANGED <<loaded, sa_flags, ignored, control_station, saved>>

Kill == Running /\ StationDies("killed")

(* bash reaps the station: nobody finds its pid any more. *)
StationReaped ==
  /\ station \in {"killed", "exit_1"}
  /\ station' = "gone"
  /\ Unlink("station")
  /\ Disturb({})
  /\ UNCHANGED <<loaded, sa_flags, ignored, pending, handlers, soldierVars>>

(* A soldier holds the device from open to close.  Nothing but rmmod tells
   whether close has been called, so it is part of the step that returns
   from the driver: a soldier at "exit" no longer holds the device. *)
Rmmod ==
  /\ station \in {"killed", "gone"} /\ loaded
  /\ \A s \in Soldier : pc[s] # "ioctl" /\ ~InDriver(s)
  /\ loaded' = FALSE
  /\ UNCHANGED <<stationVars, soldierVars, listVars, race>>

(***************************************************************************)
(* control_station.c.  Only two of the four fields of sa are set: the      *)
(* flags are what was on the stack.                                        *)
(***************************************************************************)
Sigaction ==
  /\ station = "starting"
  /\ station' = "running"
  /\ ignored' = FALSE
  /\ sa_flags' \in SUBSET {"NOCLDWAIT", "RESETHAND", "NODEFER"}
  /\ UNCHANGED <<loaded, pending, handlers, soldierVars, listVars, race>>

(* SIGCHLD is blocked in its own handler unless SA_NODEFER is set. *)
Deliver ==
  /\ station = "running" /\ pending
  /\ handlers = 0 \/ "NODEFER" \in sa_flags
  /\ pending' = FALSE
  /\ handlers' = IF ignored THEN handlers ELSE handlers + 1
  /\ ignored' = (ignored \/ "RESETHAND" \in sa_flags)
  /\ UNCHANGED <<loaded, station, sa_flags, soldierVars, listVars, race>>

M_WaitReaps_anytime(s) ==
  /\ station = "running"
  /\ s \in ZombieIn("station")
  /\ handlers' = handlers - 1
  /\ pc' = [pc EXCEPT ![s] = "reported"]
  /\ Unlink(s)
  /\ Disturb({})
  /\ UNCHANGED <<loaded, station, sa_flags, ignored, pending, parent, control_station, saved>>
M_WaitReaps_again(s) ==
  /\ station = "running" /\ handlers > 0
  /\ s \in ZombieIn("station")
  /\ pc' = [pc EXCEPT ![s] = "reported"]
  /\ Unlink(s)
  /\ Disturb({})
  /\ UNCHANGED <<loaded, stationVars, parent, control_station, saved>>
(* wait() in the handler finds a dead child, ... *)
WaitReaps(s) ==
  /\ station = "running" /\ handlers > 0
  /\ s \in ZombieIn("station")
  /\ handlers' = handlers - 1
  /\ pc' = [pc EXCEPT ![s] = "reported"]
  /\ Unlink(s)
  /\ Disturb({})
  /\ UNCHANGED <<loaded, station, sa_flags, ignored, pending, parent, control_station, saved>>

M_WaitFails_retry ==
  /\ station = "running" /\ handlers > 0
  /\ Children("station") = {}
  /\ UNCHANGED vars
(* ... or no child at all: exit(1).  With living children only it blocks. *)
WaitFails ==
  /\ station = "running" /\ handlers > 0
  /\ Children("station") = {}
  /\ StationDies("exit_1")

(***************************************************************************)
(* soldier.c.  An open that fails is not noticed; the ioctl then fails too.*)
(***************************************************************************)
Open(s) ==
  /\ pc[s] = "open"
  /\ pc' = [pc EXCEPT ![s] = IF loaded THEN "ioctl" ELSE "exit"]
  /\ UNCHANGED <<loaded, stationVars, parent, control_station, saved, listVars, race>>

(***************************************************************************)
(* my_ioctl() of doom.c.  pid_task finds a process until it is reaped, and *)
(* the search for the soldier in its parent's list is one step.            *)
(***************************************************************************)
Ioctl(s) ==
  /\ pc[s] = "ioctl"
  /\ control_station' = [control_station EXCEPT ![s] =
       CASE Running -> "alive" [] station = "gone" -> "null" [] OTHER -> "corpse"]
  /\ IF s \in Children("shell")
       THEN /\ saved' = [saved EXCEPT ![s] = [prev |-> prev[s], next |-> next[s]]]
            /\ pc' = [pc EXCEPT ![s] = "del_prev"]
       ELSE /\ pc' = [pc EXCEPT ![s] = "set_parent"]
            /\ UNCHANGED saved
  /\ race' = (race \/ \E t \in Soldier : InDriver(t))
  /\ UNCHANGED <<loaded, stationVars, parent, listVars>>

(* list_del: next->prev = prev; prev->next = next; both poisoned *)
DelPrev(s) ==
  /\ pc[s] = "del_prev"
  /\ prev' = IF saved[s].next = Poison THEN prev
             ELSE [prev EXCEPT ![saved[s].next] = saved[s].prev]
  /\ pc' = [pc EXCEPT ![s] = "del_next"]
  /\ UNCHANGED <<loaded, stationVars, parent, control_station, saved, next, race>>
DelNext(s) ==
  /\ pc[s] = "del_next"
  /\ next' = [next EXCEPT ![saved[s].prev] = saved[s].next, ![s] = Poison]
  /\ prev' = [prev EXCEPT ![s] = Poison]
  /\ pc' = [pc EXCEPT ![s] = "set_parent"]
  /\ UNCHANGED <<loaded, stationVars, parent, control_station, saved, race>>

M_SetParent_noAdd(s) ==
  /\ pc[s] = "set_parent"
  /\ parent' = [parent EXCEPT ![s] = "station"]
  /\ pc' = [pc EXCEPT ![s] = "exit"]
  /\ UNCHANGED <<loaded, stationVars, control_station, saved, listVars, race>>
(* With no control station the driver follows a null pointer. *)
SetParent(s) ==
  /\ pc[s] = "set_parent"
  /\ parent' = [parent EXCEPT ![s] = "station"]
  /\ pc' = [pc EXCEPT ![s] = IF control_station[s] = "null" THEN "oops" ELSE "add"]
  /\ UNCHANGED <<loaded, stationVars, control_station, saved, listVars, race>>

M_Add_head(s) ==
  /\ pc[s] = "add"
  /\ saved' = [saved EXCEPT ![s].prev = Head.station]
  /\ prev' = [prev EXCEPT ![Head.station] = s, ![s] = Head.station]
  /\ next' = [next EXCEPT ![s] = Head.station]
  /\ pc' = [pc EXCEPT ![s] = "add_next"]
  /\ UNCHANGED <<loaded, stationVars, parent, control_station, race>>
(* list_add_tail: next->prev = new, the pointers of new, prev->next = new *)
Add(s) ==
  /\ pc[s] = "add"
  /\ saved' = [saved EXCEPT ![s].prev = prev[Head.station]]
  /\ prev' = [prev EXCEPT ![Head.station] = s, ![s] = prev[Head.station]]
  /\ next' = [next EXCEPT ![s] = Head.station]
  /\ pc' = [pc EXCEPT ![s] = "add_next"]
  /\ UNCHANGED <<loaded, stationVars, parent, control_station, race>>
AddNext(s) ==
  /\ pc[s] = "add_next"
  /\ next' = [next EXCEPT ![saved[s].prev] = s]
  /\ pc' = [pc EXCEPT ![s] = "exit"]
  /\ UNCHANGED <<loaded, stationVars, parent, control_station, saved, prev, race>>

(***************************************************************************)
(* The soldier ends.  Its parent gets SIGCHLD and reaps it; bash and init  *)
(* do so at once.  A parent that is not there any more crashes the kernel. *)
(***************************************************************************)
Ends(s, state) == pc' = [pc EXCEPT ![s] = state]

ExitToStation(s) ==
  /\ pc[s] = "exit" /\ parent[s] = "station" /\ Running
  /\ IF "NOCLDWAIT" \in sa_flags
       THEN Ends(s, "gone") /\ Unlink(s) /\ Disturb({})
       ELSE Ends(s, "zombie") /\ UNCHANGED <<listVars, race>>
  /\ pending' = (pending \/ ~ignored \/ (handlers > 0 /\ "NODEFER" \notin sa_flags))
  /\ UNCHANGED <<loaded, station, sa_flags, ignored, handlers, parent, control_station, saved>>

ExitToCorpse(s) ==
  /\ pc[s] = "exit" /\ parent[s] = "station" /\ ~Running
  /\ Ends(s, "oops")
  /\ UNCHANGED <<loaded, stationVars, parent, control_station, saved, listVars, race>>

ExitToOthers(s) ==
  /\ pc[s] = "exit" /\ parent[s] # "station"
  /\ Ends(s, "gone")
  /\ Unlink(s) /\ Disturb({})
  /\ UNCHANGED <<loaded, stationVars, parent, control_station, saved>>

-----------------------------------------------------------------------------
Script == Insmod \/ LaunchStation \/ Kill \/ StationReaped \/ Rmmod
            \/ \E s \in Soldier : LaunchSoldier(s)
ControlStation == Sigaction \/ Deliver \/ WaitFails \/ \E s \in Soldier : WaitReaps(s)
SoldierStep(s) ==
  \/ Open(s) \/ Ioctl(s) \/ DelPrev(s) \/ DelNext(s) \/ SetParent(s) \/ Add(s) \/ AddNext(s)
  \/ ExitToStation(s) \/ ExitToCorpse(s) \/ ExitToOthers(s)

Next == Script \/ ControlStation \/ \E s \in Soldier : SoldierStep(s)

Spec == Init /\ [][Next]_vars

(* The station and the soldiers are runnable processes. *)
FairSpec ==
  /\ Spec
  /\ WF_vars(ControlStation)
  /\ \A s \in Soldier : WF_vars(SoldierStep(s))

-----------------------------------------------------------------------------
TypeOK ==
  /\ loaded \in BOOLEAN
  /\ station \in {"off", "starting", "running", "killed", "exit_1", "gone"}
  /\ sa_flags \subseteq {"NOCLDWAIT", "RESETHAND", "NODEFER"}
  /\ ignored \in BOOLEAN /\ pending \in BOOLEAN /\ race \in BOOLEAN
  /\ handlers \in 0 .. Cardinality(Soldier)
  /\ pc \in [Soldier -> {"off", "open", "ioctl", "del_prev", "del_next", "set_parent",
                         "add", "add_next", "exit", "zombie", "reported", "gone", "oops"}]
  /\ parent \in [Soldier -> {"shell", "station", "init"}]
  /\ control_station \in [Soldier -> {"none", "alive", "corpse", "null"}]
  /\ saved \in [Soldier -> [prev : Node \cup {Poison}, next : Node \cup {Poison}]]
  /\ next \in [Node -> Node \cup {Poison}] /\ prev \in [Node -> Node \cup {Poison}]

(* The child lists are whole, and a living or dead soldier is in the list   *)
(* of its parent and in no other, as long as no list has changed while the  *)
(* driver was changing one (doom.c:17 "change its parent process to the     *)
(* process with the given pid").                                            *)
ParentListsMatch ==
  ~race /\ (\A s \in Soldier : ~InDriver(s)) =>
    /\ \A p \in {"shell", "station"} : \A n \in Children(p) \cup {Head[p]} :
         next[n] # Poison /\ prev[next[n]] = n
    /\ \A s \in Soldier : pc[s] \in {"open", "ioctl", "exit", "zombie"} =>
         /\ s \in Children("shell") <=> parent[s] = "shell"
         /\ control_station[s] = "alive" => (s \in Children("station") <=> parent[s] = "station")

(* Every activation of the handler, and every signal that will cause one,   *)
(* has a dead soldier of its own to reap: wait never finds no child, and    *)
(* never blocks.  With the flag NOCLDWAIT left on the stack it would        *)
(* (control_station.c:12-16).                                               *)
HandlerFindsSoldier ==
  station = "running" /\ ~race /\ "NOCLDWAIT" \notin sa_flags =>
    handlers + (IF pending /\ ~ignored THEN 1 ELSE 0) <= Cardinality(ZombieIn("station"))

(* The driver crashes nobody who names a living control station.            *)
NoOops ==
  \A s \in Soldier : pc[s] = "oops" => race \/ control_station[s] \in {"corpse", "null"}

(* A SIGCHLD that the station is to handle is handled, and the handler     *)
(* comes back from wait, or else the station ends (control_station.c:12-16  *)
(* when NOCLDWAIT was on the stack): it never hangs in its handler.         *)
HandlerReturns ==
  (station = "running" /\ (handlers > 0 \/ (pending /\ ~ignored)))
    ~> (handlers = 0 /\ ~pending) \/ ~Running \/ race
=============================================================================
