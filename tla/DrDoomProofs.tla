---------------------------- MODULE DrDoomProofs -----------------------------
(***************************************************************************)
(* Proofs about Dr. Doom, for any finite set of soldiers: the shape of the *)
(* two rings of list_heads through every pointer that is set, until one of *)
(* them changes under the driver's hands.                                  *)
(***************************************************************************)
EXTENDS DrDoom, FiniteSetTheorems, TLAPS

Ptr == [Node -> Node \cup {Poison}]
Heads == {Head.shell, Head.station}

(* With next and prev as f and g, the children in the ring of head are S. *)
Ring(f, g, head, S) ==
  /\ S = Chain(f, head)
  /\ \A n \in S \cup {head} :
       /\ f[n] \in S \cup {head} /\ g[f[n]] = n
       /\ g[n] \in S \cup {head} /\ f[g[n]] = n

(* Who is in which ring.  A soldier that adds itself to a corpse stays. *)
InShell ==
  {n \in {"station"} : station \notin {"off", "gone"}}
    \cup {s \in Soldier : \/ pc[s] \in {"open", "ioctl", "del_prev", "del_next"}
                          \/ pc[s] = "exit" /\ parent[s] = "shell"}
InStation ==
  {s \in Soldier : /\ parent[s] = "station" /\ control_station[s] # "null"
                   /\ pc[s] \in {"exit", "zombie", "oops"}}

(* prev without the half-done list_del or list_add_tail of s. *)
Undone(s) ==
  CASE pc[s] = "del_next" -> [prev EXCEPT ![next[s]] = s]
    [] pc[s] = "add_next" -> [prev EXCEPT ![Head.station] = saved[s].prev]
    [] OTHER              -> prev

ListInv ==
  /\ \A s, t \in Soldier : InDriver(s) /\ InDriver(t) => s = t
  /\ (\A s \in Soldier : pc[s] # "del_next") => Ring(next, prev, Head.shell, InShell)
  /\ (\A s \in Soldier : pc[s] # "add_next") => Ring(next, prev, Head.station, InStation)
  /\ \A s \in Soldier :
       /\ pc[s] \in {"del_prev", "del_next"} =>
            saved[s] = [prev |-> prev[s], next |-> next[s]]
       /\ pc[s] = "del_next" =>
            /\ prev[next[s]] = prev[s]
            /\ Ring(next, Undone(s), Head.shell, InShell)
       /\ pc[s] = "add_next" =>
            /\ prev[Head.station] = s /\ prev[s] = saved[s].prev /\ next[s] = Head.station
            /\ Ring(next, Undone(s), Head.station, InStation)
       /\ pc[s] = "exit" /\ parent[s] = "init" => next[s] = s /\ prev[s] = s

ParentInv ==
  \A s \in Soldier :
    /\ pc[s] \in {"off", "open", "ioctl", "del_prev", "del_next", "set_parent"} =>
         parent[s] = "shell"
    /\ pc[s] \in {"add", "add_next", "zombie"} => parent[s] = "station"
    /\ InDriver(s) => control_station[s] # "none"
    /\ pc[s] \in {"add", "add_next", "zombie"} \/ (pc[s] = "exit" /\ parent[s] = "station") =>
         control_station[s] \in {"alive", "corpse"}
    /\ /\ control_station[s] = "alive"
       /\ InDriver(s) \/ (parent[s] = "station" /\ pc[s] \in {"exit", "zombie"})
       => Running

(* Each activation of the handler, and each signal to come, is owed to a
   soldier that has ended ... *)
Exited == {s \in Soldier : pc[s] \in {"zombie", "reported", "gone"}}
SignalInv ==
  /\ handlers + (IF pending THEN 1 ELSE 0) <= Cardinality(Exited)
  /\ station \in {"off", "starting"} => handlers = 0 /\ ~pending /\ ignored
(* ... and, while the lists are whole, is still to be reaped. *)
Zombies == {s \in Soldier : pc[s] = "zombie"}
ReapInv ==
  station = "running" /\ "NOCLDWAIT" \notin sa_flags =>
    handlers + (IF pending /\ ~ignored THEN 1 ELSE 0) <= Cardinality(Zombies)

(* TypeOK without the bound on the handlers. *)
Types ==
  /\ loaded \in BOOLEAN
  /\ station \in {"off", "starting", "running", "killed", "exit_1", "gone"}
  /\ sa_flags \subseteq {"NOCLDWAIT", "RESETHAND", "NODEFER"}
  /\ ignored \in BOOLEAN /\ pending \in BOOLEAN /\ race \in BOOLEAN
  /\ handlers \in Nat
  /\ pc \in [Soldier -> {"off", "open", "ioctl", "del_prev", "del_next", "set_parent",
                         "add", "add_next", "exit", "zombie", "reported", "gone", "oops"}]
  /\ parent \in [Soldier -> {"shell", "station", "init"}]
  /\ control_station \in [Soldier -> {"none", "alive", "corpse", "null"}]
  /\ saved \in [Soldier -> [prev : Node \cup {Poison}, next : Node \cup {Poison}]]
  /\ next \in Ptr /\ prev \in Ptr

IInv ==
  /\ Types /\ SignalInv /\ NoOops
  /\ ~race => ListInv /\ ParentInv /\ ReapInv

-----------------------------------------------------------------------------
(* Lemmas about rings. *)
(* The names of nodes are all different, and Poison is none of them. *)
LEMMA Nodes ==
  /\ Heads \subseteq Node /\ "station" \in Node /\ Soldier \subseteq Node /\ Poison \notin Node
  /\ Head.shell # Head.station /\ "station" \notin Heads \cup Soldier
  /\ Heads \cap Soldier = {}
BY SoldierAssumption DEF Heads, Head, Node, Poison

(* A chain is the least set that cannot be left, and leaves out its head. *)
LEMMA ChainLeast ==
  ASSUME NEW f, NEW head, NEW S \in SUBSET Node,
         \A n \in S \cup {head} : f[n] \in S \cup {head, Poison}
  PROVE  Chain(f, head) \subseteq S
BY DEF Chain, Closed

LEMMA ChainClosed ==
  ASSUME NEW f \in Ptr, NEW head \in Node
  PROVE  /\ Chain(f, head) \subseteq Node \ {head}
         /\ \A n \in Chain(f, head) \cup {head} : f[n] \in Chain(f, head) \cup {head, Poison}
<1>1. Chain(f, head) \subseteq Node \ {head}
  <2> DEFINE S == Node \ {head}
  <2>1. \A n \in S \cup {head} : f[n] \in S \cup {head, Poison}
    BY DEF Ptr
  <2>2. S \in SUBSET Node
    OBVIOUS
  <2> HIDE DEF S
  <2>3. Chain(f, head) \subseteq S
    BY <2>1, <2>2, ChainLeast
  <2> QED
    BY <2>3 DEF S
<1>2. ASSUME NEW n \in Chain(f, head) \cup {head}, f[n] \notin {head, Poison}
      PROVE  f[n] \in Chain(f, head)
  <2>1. f[n] \in Node
    BY <1>1, <1>2 DEF Ptr
  <2>2. \A S \in Closed(f, head) : n \in S \cup {head}
    BY DEF Chain
  <2> QED
    BY <1>2, <2>1, <2>2 DEF Chain, Closed
<1> QED
  BY <1>1, <1>2

(* No member of a ring points to itself. *)
LEMMA NoSelf ==
  ASSUME NEW f \in Ptr, NEW g \in Ptr, NEW head \in Node, NEW S,
         Ring(f, g, head, S), NEW x \in S
  PROVE  f[x] # x /\ g[x] # x
<1>1. S \subseteq Node \ {head}
  BY ChainClosed DEF Ring
<1>2. ASSUME f[x] = x PROVE FALSE
  <2> DEFINE T == S \ {x}
  <2>1. \A n \in T \cup {head} : f[n] \in T \cup {head, Poison}
    BY <1>1, <1>2 DEF Ring
  <2>2. T \in SUBSET Node
    BY <1>1
  <2> HIDE DEF T
  <2>3. Chain(f, head) \subseteq T
    BY <2>1, <2>2, ChainLeast
  <2> QED
    BY <2>3 DEF Ring, T
<1> QED
  BY <1>2 DEF Ring

(* list_del of a member leaves a ring of the others. *)
LEMMA RingRemove ==
  ASSUME NEW f \in Ptr, NEW g \in Ptr, NEW head \in Node, NEW S,
         Ring(f, g, head, S), NEW x \in S, NEW f2 \in Ptr, NEW g2 \in Ptr,
         \A n \in (S \cup {head}) \ {x} :
           /\ f2[n] = IF n = g[x] THEN f[x] ELSE f[n]
           /\ g2[n] = IF n = f[x] THEN g[x] ELSE g[n]
  PROVE  Ring(f2, g2, head, S \ {x})
<1>1. S \subseteq Node \ {head} /\ f[x] # x /\ g[x] # x
  BY ChainClosed, NoSelf DEF Ring
<1>2. ASSUME NEW n \in (S \ {x}) \cup {head}
      PROVE  /\ f2[n] \in (S \ {x}) \cup {head} /\ g2[f2[n]] = n
             /\ g2[n] \in (S \ {x}) \cup {head} /\ f2[g2[n]] = n
  BY <1>1 DEF Ring
<1> DEFINE C == Chain(f2, head)
           T == C \cup (IF g[x] \in C \cup {head} THEN {x} ELSE {})
<1>3. C \subseteq S \ {x}
  <2> DEFINE U == S \ {x}
  <2>1. U \in SUBSET Node /\ \A n \in U \cup {head} : f2[n] \in U \cup {head, Poison}
    BY <1>1, <1>2
  <2> HIDE DEF U
  <2>2. C \subseteq U
    BY <2>1, ChainLeast
  <2> QED
    BY <2>2 DEF U
<1>4. S \subseteq T
  <2>1. \A n \in C \cup {head} : f2[n] \in C \cup {head, Poison}
    BY ChainClosed
  <2>2. ASSUME NEW n \in T \cup {head} PROVE f[n] \in T \cup {head, Poison}
    <3>1. CASE n = x
      <4>1. g[x] \in C \cup {head} /\ g[x] \in (S \cup {head}) \ {x}
        BY <1>1, <1>3, <3>1, <2>2
      <4>2. f2[g[x]] = f[x]
        BY <4>1
      <4> QED
        BY <2>1, <3>1, <4>1, <4>2
    <3>2. CASE n # x /\ n = g[x]
      BY <3>2, <2>2 DEF Ring
    <3>3. CASE n # x /\ n # g[x]
      <4>1. n \in C \cup {head} /\ f2[n] = f[n]
        BY <1>3, <3>3, <2>2
      <4> QED
        BY <2>1, <4>1
    <3> QED
      BY <3>1, <3>2, <3>3
  <2>3. T \in SUBSET Node
    BY <1>1, <1>3
  <2>4. Chain(f, head) \subseteq T
    <3> HIDE DEF T
    <3> QED
      BY <2>2, <2>3, ChainLeast
  <2> QED
    BY <2>4 DEF Ring
<1>5. S \ {x} = C
  BY <1>3, <1>4
<1> QED
  BY <1>2, <1>5 DEF Ring

(* list_add_tail of a new node. *)
LEMMA RingAdd ==
  ASSUME NEW f \in Ptr, NEW g \in Ptr, NEW head \in Node, NEW S,
         Ring(f, g, head, S), NEW x \in Node \ (S \cup {head}),
         NEW f2 \in Ptr, NEW g2 \in Ptr,
         f2[x] = head, g2[x] = g[head],
         \A n \in S \cup {head} :
           /\ f2[n] = IF n = g[head] THEN x ELSE f[n]
           /\ g2[n] = IF n = head THEN x ELSE g[n]
  PROVE  Ring(f2, g2, head, S \cup {x})
<1>1. S \subseteq Node \ {head} /\ x # Poison
  BY ChainClosed, Nodes DEF Ring
<1>2. ASSUME NEW n \in S \cup {x, head}
      PROVE  /\ f2[n] \in S \cup {x, head} /\ g2[f2[n]] = n
             /\ g2[n] \in S \cup {x, head} /\ f2[g2[n]] = n
  BY <1>1 DEF Ring
<1> DEFINE C == Chain(f2, head)
           T == C \cap S
<1>3. C \subseteq S \cup {x}
  <2> DEFINE U == S \cup {x}
  <2>1. \A n \in U \cup {head} : f2[n] \in U \cup {head, Poison}
    BY <1>2
  <2>2. U \in SUBSET Node
    BY <1>1
  <2> HIDE DEF U
  <2>3. C \subseteq U
    BY <2>1, <2>2, ChainLeast
  <2> QED
    BY <2>3 DEF U
<1>4. \A n \in C \cup {head} : f2[n] \in C \cup {head, Poison}
  BY ChainClosed
<1>5. S \subseteq C
  <2>1. ASSUME NEW n \in T \cup {head} PROVE f[n] \in T \cup {head, Poison}
    <3>1. CASE n = g[head]
      BY <3>1 DEF Ring
    <3>2. CASE n # g[head]
      <4>1. f2[n] = f[n] /\ f[n] \in S \cup {head}
        BY <3>2 DEF Ring
      <4> QED
        BY <1>4, <4>1
    <3> QED
      BY <3>1, <3>2
  <2>2. Chain(f, head) \subseteq T
    <3>1. T \in SUBSET Node
      BY <1>1
    <3> HIDE DEF T
    <3> QED
      BY <2>1, <3>1, ChainLeast
  <2> QED
    BY <2>2 DEF Ring
<1>6. x \in C
  <2>1. g[head] \in C \cup {head} /\ f2[g[head]] = x
    BY <1>5 DEF Ring
  <2> QED
    BY <1>1, <1>4, <2>1
<1>7. S \cup {x} = C
  BY <1>3, <1>5, <1>6
<1> QED
  BY <1>2, <1>7 DEF Ring

(* What happens outside a ring leaves it as it is. *)
LEMMA RingFrame ==
  ASSUME NEW f \in Ptr, NEW g \in Ptr, NEW head \in Node, NEW S,
         Ring(f, g, head, S), NEW f2 \in Ptr, NEW g2 \in Ptr,
         \A n \in S \cup {head} : f2[n] = f[n] /\ g2[n] = g[n]
  PROVE  Ring(f2, g2, head, S)
<1>1. S \subseteq Node \ {head}
  BY ChainClosed DEF Ring
<1>2. Chain(f2, head) \subseteq S
  BY <1>1, ChainLeast DEF Ring
<1>3. Chain(f, head) \subseteq Chain(f2, head)
  <2> DEFINE T == Chain(f2, head)
  <2>1. \A n \in T \cup {head} : f2[n] \in T \cup {head, Poison}
    BY ChainClosed
  <2> HIDE DEF T
  <2>2. T \in SUBSET Node /\ T \subseteq S
    BY <1>1, <1>2 DEF T
  <2>3. \A n \in T \cup {head} : f[n] \in T \cup {head, Poison}
    BY <2>1, <2>2
  <2>4. Chain(f, head) \subseteq T
    BY <2>2, <2>3, ChainLeast
  <2> QED
    BY <2>4 DEF T
<1> QED
  BY <1>1, <1>2, <1>3 DEF Ring

(* A head that points to itself. *)
LEMMA RingEmpty ==
  ASSUME NEW f \in Ptr, NEW g \in Ptr, NEW head \in Node, f[head] = head, g[head] = head
  PROVE  Ring(f, g, head, {})
<1>1. Chain(f, head) \subseteq {}
  <2> DEFINE S == {}
  <2>1. S \in SUBSET Node /\ \A n \in S \cup {head} : f[n] \in S \cup {head, Poison}
    OBVIOUS
  <2> HIDE DEF S
  <2>2. Chain(f, head) \subseteq S
    BY <2>1, ChainLeast
  <2> QED
    BY <2>2 DEF S
<1> QED
  BY <1>1 DEF Ring

-----------------------------------------------------------------------------
(* The kernel's changes of a list keep the types of the pointers, whatever
   the lists look like. *)
LEMMA PtrTypes ==
  ASSUME next \in Ptr, prev \in Ptr, NEW n \in Node, NEW head \in Node,
         Unlink(n) \/ AddTail(n, head)
  PROVE  next' \in Ptr /\ prev' \in Ptr
<1>1. CASE Unlink(n)
  <2>1. CASE Poison \in {next[n], prev[n]}
    BY <1>1, <2>1 DEF Unlink, listVars
  <2>2. CASE Poison \notin {next[n], prev[n]}
    BY <1>1, <2>2 DEF Unlink, Ptr
  <2> QED
    BY <2>1, <2>2
<1>2. CASE AddTail(n, head)
  BY <1>2 DEF AddTail, Ptr
<1> QED
  BY <1>1, <1>2

(* Every step keeps the types. *)
LEMMA StepTypes == Types /\ [Next]_vars => Types'
<1> SUFFICES ASSUME Types, [Next]_vars PROVE Types'
  OBVIOUS
<1> USE Nodes DEF Types, vars, stationVars, listVars, soldierVars, Heads
<1>1. CASE Insmod \/ Rmmod \/ Sigaction \/ Deliver
  <2>1. CASE Insmod \/ Rmmod \/ Sigaction
    BY <2>1 DEF Insmod, Rmmod, Sigaction
  <2>2. CASE Deliver
    <3>1. handlers' \in Nat /\ UNCHANGED <<loaded, station, sa_flags, soldierVars, listVars, race>>
      BY <2>2 DEF Deliver
    <3>2. ignored' \in BOOLEAN /\ pending' \in BOOLEAN
      BY <2>2 DEF Deliver
    <3> QED
      BY <3>1, <3>2
  <2> QED
    BY <1>1, <2>1, <2>2
<1>2. CASE LaunchStation
  BY <1>2, PtrTypes DEF LaunchStation, Disturb
<1>3. ASSUME NEW s \in Soldier, LaunchSoldier(s) PROVE Types'
  BY <1>3, PtrTypes DEF LaunchSoldier, Disturb
<1>4. ASSUME NEW how \in {"killed", "exit_1"}, StationDies(how) PROVE Types'
  <2>1. next' \in Ptr /\ prev' \in Ptr
    BY <1>4 DEF StationDies, Ptr
  <2>2. parent' \in [Soldier -> {"shell", "station", "init"}]
    BY <1>4 DEF StationDies
  <2>3. pc' \in [Soldier -> {"off", "open", "ioctl", "del_prev", "del_next", "set_parent",
                         "add", "add_next", "exit", "zombie", "reported", "gone", "oops"}]
    BY <1>4 DEF StationDies
  <2> QED
    BY <1>4, <2>1, <2>2, <2>3 DEF StationDies, Disturb
<1>5. CASE StationReaped
  BY <1>5, PtrTypes DEF StationReaped, Disturb
<1>6. ASSUME NEW s \in Soldier, WaitReaps(s) PROVE Types'
  BY <1>6, PtrTypes DEF WaitReaps, Disturb
<1>7. ASSUME NEW s \in Soldier, Open(s) PROVE Types'
  BY <1>7 DEF Open
<1>8. ASSUME NEW s \in Soldier, Ioctl(s) PROVE Types'
  <2>1. control_station' \in [Soldier -> {"none", "alive", "corpse", "null"}]
    BY <1>8 DEF Ioctl
  <2>2. saved' \in [Soldier -> [prev : Node \cup {Poison}, next : Node \cup {Poison}]]
    BY <1>8 DEF Ioctl, Ptr
  <2>3. /\ pc' \in {[pc EXCEPT ![s] = "del_prev"], [pc EXCEPT ![s] = "set_parent"]}
        /\ race' \in BOOLEAN
        /\ UNCHANGED <<loaded, stationVars, listVars, parent>>
    BY <1>8 DEF Ioctl
  <2>4. pc' \in [Soldier -> {"off", "open", "ioctl", "del_prev", "del_next", "set_parent",
                         "add", "add_next", "exit", "zombie", "reported", "gone", "oops"}]
    BY <2>3
  <2> QED
    BY <2>1, <2>2, <2>3, <2>4
<1>9. ASSUME NEW s \in Soldier, DelPrev(s) \/ DelNext(s) PROVE Types'
  <2>1. saved[s].prev \in Node \cup {Poison} /\ saved[s].next \in Node \cup {Poison}
    OBVIOUS
  <2>2. CASE DelPrev(s)
    BY <2>1, <2>2 DEF DelPrev, Ptr
  <2>3. CASE DelNext(s)
    <3>1. next' \in Ptr
      BY <2>1, <2>3 DEF DelNext, Ptr
    <3>2. prev' \in Ptr
      BY <2>3 DEF DelNext, Ptr
    <3> QED
      BY <2>3, <3>1, <3>2 DEF DelNext
  <2> QED
    BY <1>9, <2>2, <2>3
<1>10. ASSUME NEW s \in Soldier, SetParent(s) PROVE Types'
  BY <1>10 DEF SetParent
<1>11. ASSUME NEW s \in Soldier, Add(s) PROVE Types'
  <2>1. saved' \in [Soldier -> [prev : Node \cup {Poison}, next : Node \cup {Poison}]]
    BY <1>11 DEF Add, Ptr
  <2> QED
    BY <1>11, <2>1 DEF Add, Ptr
<1>12. ASSUME NEW s \in Soldier, AddNext(s) PROVE Types'
  BY <1>12 DEF AddNext, Ptr
<1>13. ASSUME NEW s \in Soldier, ExitToStation(s) PROVE Types'
  BY <1>13, PtrTypes DEF ExitToStation, Ends, Disturb
<1>14. ASSUME NEW s \in Soldier, ExitToCorpse(s) \/ ExitToOthers(s) PROVE Types'
  BY <1>14, PtrTypes DEF ExitToCorpse, ExitToOthers, Ends, Disturb
<1>15. CASE UNCHANGED vars
  BY <1>15
<1> QED
  BY <1>1, <1>2, <1>3, <1>4, <1>5, <1>6, <1>7, <1>8, <1>9, <1>10, <1>11, <1>12, <1>13,
     <1>14, <1>15 DEF Next, Script, ControlStation, SoldierStep, Kill, WaitFails

-----------------------------------------------------------------------------
(* The kernel's own changes of the lists, while nobody is in the driver. *)
Quiet == \A s \in Soldier : ~InDriver(s)
Whole ==
  /\ Ring(next, prev, Head.shell, InShell)
  /\ Ring(next, prev, Head.station, InStation)
  /\ \A s \in Soldier : pc[s] = "exit" /\ parent[s] = "init" => next[s] = s /\ prev[s] = s

(* While nobody is in the driver ListInv says that the lists are whole. *)
LEMMA QuietWhole ==
  /\ ListInv /\ Quiet => Whole
  /\ Quiet /\ Whole => ListInv
  /\ Quiet' /\ Whole' => ListInv'
<1>1. ListInv /\ Quiet => Whole
  BY DEF ListInv, Quiet, Whole, InDriver
<1>2. Quiet /\ Whole => ListInv
  BY DEF ListInv, Quiet, Whole, InDriver
<1>3. Quiet' /\ Whole' => ListInv'
  BY DEF ListInv, Quiet, Whole, InDriver
<1> QED
  BY <1>1, <1>2, <1>3

(* Nobody is in both rings. *)
LEMMA Apart ==
  /\ InShell \cup InStation \subseteq Node \ Heads
  /\ InShell \cap InStation = {}
BY Nodes DEF InShell, InStation

(* Unlink takes one child out of its ring, AddTail puts one in; both leave
   the rest alone. *)
LEMMA UnlinkRing ==
  ASSUME next \in Ptr, prev \in Ptr, NEW head \in Heads, NEW S,
         Ring(next, prev, head, S), NEW x \in S, Unlink(x)
  PROVE  /\ Ring(next', prev', head, S \ {x})
         /\ next'[x] = x /\ prev'[x] = x
         /\ \A n \in Node \ (S \cup {head}) : next'[n] = next[n] /\ prev'[n] = prev[n]
<1>1. head \in Node /\ Poison \notin Node
  BY Nodes
<1>2. S \subseteq Node \ {head}
  BY <1>1, ChainClosed DEF Ring
<1>3. next' \in Ptr /\ prev' \in Ptr
  BY <1>1, <1>2, PtrTypes
<1>4. next[x] \in S \cup {head} /\ prev[x] \in S \cup {head}
  BY DEF Ring
<1>5. /\ next' = [next EXCEPT ![prev[x]] = next[x], ![x] = x]
      /\ prev' = [prev EXCEPT ![next[x]] = prev[x], ![x] = x]
  BY <1>1, <1>2, <1>4 DEF Unlink
<1>6. \A n \in (S \cup {head}) \ {x} :
        /\ next'[n] = IF n = prev[x] THEN next[x] ELSE next[n]
        /\ prev'[n] = IF n = next[x] THEN prev[x] ELSE prev[n]
  BY <1>1, <1>2, <1>5 DEF Ptr
<1>7. Ring(next', prev', head, S \ {x})
  BY <1>1, <1>3, <1>6, RingRemove
<1>8. \A n \in Node \ (S \cup {head}) : next'[n] = next[n] /\ prev'[n] = prev[n]
  BY <1>2, <1>4, <1>5 DEF Ptr
<1>9. next'[x] = x /\ prev'[x] = x
  BY <1>2, <1>5 DEF Ptr
<1> QED
  BY <1>7, <1>8, <1>9

LEMMA AddTailRing ==
  ASSUME next \in Ptr, prev \in Ptr, NEW head \in Heads, NEW S,
         Ring(next, prev, head, S), NEW x \in Node \ (S \cup {head}), AddTail(x, head)
  PROVE  /\ Ring(next', prev', head, S \cup {x})
         /\ \A n \in Node \ (S \cup {head, x}) : next'[n] = next[n] /\ prev'[n] = prev[n]
<1>1. head \in Node /\ Poison \notin Node
  BY Nodes
<1>2. S \subseteq Node \ {head}
  BY <1>1, ChainClosed DEF Ring
<1>3. next' \in Ptr /\ prev' \in Ptr
  BY <1>1, PtrTypes
<1>4. prev[head] \in S \cup {head}
  BY DEF Ring
<1>5. /\ next' = [next EXCEPT ![prev[head]] = x, ![x] = head]
      /\ prev' = [prev EXCEPT ![head] = x, ![x] = prev[head]]
  BY DEF AddTail
<1>6. next'[x] = head /\ prev'[x] = prev[head]
  BY <1>5 DEF Ptr
<1>7. \A n \in S \cup {head} :
        /\ next'[n] = IF n = prev[head] THEN x ELSE next[n]
        /\ prev'[n] = IF n = head THEN x ELSE prev[n]
  BY <1>1, <1>2, <1>5 DEF Ptr
<1>8. Ring(next', prev', head, S \cup {x})
  BY <1>1, <1>3, <1>6, <1>7, RingAdd
<1>9. \A n \in Node \ (S \cup {head, x}) : next'[n] = next[n] /\ prev'[n] = prev[n]
  BY <1>1, <1>2, <1>4, <1>5 DEF Ptr
<1> QED
  BY <1>8, <1>9

(* A new child of the shell, and one it reaps.                              *)
LEMMA ShellForks ==
  ASSUME Types, Whole, NEW x \in Node \ (InShell \cup InStation \cup Heads),
         AddTail(x, Head.shell), InShell' = InShell \cup {x}, InStation' = InStation,
         \A s \in Soldier : pc'[s] = "exit" /\ parent'[s] = "init" =>
           pc[s] = "exit" /\ parent[s] = "init" /\ s # x
  PROVE  Whole'
<1>1. next \in Ptr /\ prev \in Ptr /\ next' \in Ptr /\ prev' \in Ptr
  BY PtrTypes, Nodes DEF Types, Heads
<1>2. /\ Ring(next', prev', Head.shell, InShell \cup {x})
      /\ \A n \in Node \ (InShell \cup {Head.shell, x}) :
           next'[n] = next[n] /\ prev'[n] = prev[n]
  BY <1>1, AddTailRing DEF Whole, Heads
<1>3. Ring(next', prev', Head.station, InStation)
  <2>1. \A n \in InStation \cup {Head.station} : next'[n] = next[n] /\ prev'[n] = prev[n]
    BY <1>2, Apart, Nodes DEF Heads
  <2> QED
    BY <1>1, <2>1, RingFrame, Nodes DEF Whole, Heads
<1>4. \A s \in Soldier : pc[s] = "exit" /\ parent[s] = "init" =>
        s \notin InShell \cup {Head.shell} /\ s \in Node
  BY Nodes DEF InShell, Heads
<1> QED
  BY <1>2, <1>3, <1>4 DEF Whole

LEMMA ShellReaps ==
  ASSUME Types, Whole, NEW x \in InShell,
         Unlink(x), InShell' = InShell \ {x}, InStation' = InStation,
         \A s \in Soldier : pc'[s] = "exit" /\ parent'[s] = "init" =>
           pc[s] = "exit" /\ parent[s] = "init"
  PROVE  Whole'
<1>1. next \in Ptr /\ prev \in Ptr /\ next' \in Ptr /\ prev' \in Ptr
  BY PtrTypes, Nodes, Apart DEF Types, Heads
<1>2. /\ Ring(next', prev', Head.shell, InShell \ {x})
      /\ \A n \in Node \ (InShell \cup {Head.shell}) : next'[n] = next[n] /\ prev'[n] = prev[n]
  BY <1>1, UnlinkRing DEF Whole, Heads
<1>3. Ring(next', prev', Head.station, InStation)
  <2>1. \A n \in InStation \cup {Head.station} : next'[n] = next[n] /\ prev'[n] = prev[n]
    BY <1>2, Apart, Nodes DEF Heads
  <2> QED
    BY <1>1, <2>1, RingFrame, Nodes DEF Whole, Heads
<1>4. \A s \in Soldier : pc[s] = "exit" /\ parent[s] = "init" =>
        s \notin InShell \cup {Head.shell} /\ s \in Node
  BY Nodes DEF InShell, Heads
<1> QED
  BY <1>2, <1>3, <1>4 DEF Whole

(* A child the station reaps. *)
LEMMA StationReaps ==
  ASSUME Types, Whole, NEW x \in InStation,
         Unlink(x), InShell' = InShell, InStation' = InStation \ {x},
         \A s \in Soldier : pc'[s] = "exit" /\ parent'[s] = "init" =>
           pc[s] = "exit" /\ parent[s] = "init"
  PROVE  Whole'
<1>1. next \in Ptr /\ prev \in Ptr /\ next' \in Ptr /\ prev' \in Ptr
  BY PtrTypes, Nodes, Apart DEF Types, Heads
<1>2. /\ Ring(next', prev', Head.station, InStation \ {x})
      /\ \A n \in Node \ (InStation \cup {Head.station}) :
           next'[n] = next[n] /\ prev'[n] = prev[n]
  BY <1>1, UnlinkRing DEF Whole, Heads
<1>3. Ring(next', prev', Head.shell, InShell)
  <2>1. \A n \in InShell \cup {Head.shell} : next'[n] = next[n] /\ prev'[n] = prev[n]
    BY <1>2, Apart, Nodes DEF Heads
  <2> QED
    BY <1>1, <2>1, RingFrame, Nodes DEF Whole, Heads
<1>4. \A s \in Soldier : pc[s] = "exit" /\ parent[s] = "init" =>
        s \notin InStation \cup {Head.station} /\ s \in Node
  BY Nodes DEF InStation, Heads
<1> QED
  BY <1>2, <1>3, <1>4 DEF Whole

(* The kernel's changes keep whole lists whole. *)
LEMMA KernelKeepsWhole ==
  ASSUME Types, Whole, ParentInv, Quiet,
         \/ LaunchStation \/ StationReaped
         \/ \E s \in Soldier : LaunchSoldier(s) \/ WaitReaps(s)
         \/ \E s \in Soldier : ExitToStation(s) \/ ExitToOthers(s)
         \/ \E how \in {"killed", "exit_1"} : Running /\ StationDies(how)
  PROVE  Whole' /\ Quiet'
<1> USE DEF Types
<1>1. CASE LaunchStation
  <2>1. InShell' = InShell \cup {"station"} /\ InStation' = InStation /\ "station" \notin InShell
    BY <1>1, Nodes DEF LaunchStation, InShell, InStation, soldierVars
  <2>2. "station" \in Node \ (InShell \cup InStation \cup Heads)
    BY <2>1, Nodes DEF InStation
  <2>3. AddTail("station", Head.shell) /\ UNCHANGED <<pc, parent>>
    BY <1>1 DEF LaunchStation, soldierVars
  <2>4. Whole'
    BY <2>1, <2>2, <2>3, ShellForks, Nodes
  <2> QED
    BY <2>3, <2>4 DEF Quiet, InDriver
<1>2. CASE StationReaped
  <2>1. InShell' = InShell \ {"station"} /\ InStation' = InStation /\ "station" \in InShell
    BY <1>2, Nodes DEF StationReaped, InShell, InStation, soldierVars
  <2>2. Unlink("station") /\ UNCHANGED <<pc, parent>>
    BY <1>2 DEF StationReaped, soldierVars
  <2>3. Whole'
    BY <2>1, <2>2, ShellReaps
  <2> QED
    BY <2>2, <2>3 DEF Quiet, InDriver
<1>3. ASSUME NEW s \in Soldier, LaunchSoldier(s) PROVE Whole' /\ Quiet'
  <2>1. /\ pc[s] = "off" /\ pc' = [pc EXCEPT ![s] = "open"] /\ AddTail(s, Head.shell)
        /\ UNCHANGED <<station, parent, control_station>>
    BY <1>3 DEF LaunchSoldier, stationVars
  <2>2. InShell' = InShell \cup {s} /\ InStation' = InStation
    BY <2>1, Nodes DEF InShell, InStation
  <2>3. s \in Node \ (InShell \cup InStation \cup Heads)
    BY <2>1, Nodes DEF InShell, InStation
  <2>4. Whole'
    BY <2>1, <2>2, <2>3, ShellForks
  <2> QED
    BY <2>1, <2>4 DEF Quiet, InDriver
<1>4. ASSUME NEW s \in Soldier, WaitReaps(s) PROVE Whole' /\ Quiet'
  <2>1. /\ pc[s] = "zombie" /\ pc' = [pc EXCEPT ![s] = "reported"] /\ Unlink(s)
        /\ UNCHANGED <<station, parent, control_station>>
    BY <1>4 DEF WaitReaps, ZombieIn
  <2>2. InShell' = InShell /\ InStation' = InStation \ {s} /\ s \in InStation
    BY <2>1 DEF InShell, InStation, ParentInv
  <2>3. Whole'
    BY <2>1, <2>2, StationReaps
  <2> QED
    BY <2>1, <2>3 DEF Quiet, InDriver
<1>5. ASSUME NEW s \in Soldier, ExitToStation(s) PROVE Whole' /\ Quiet'
  <2>1. /\ pc[s] = "exit" /\ parent[s] = "station"
        /\ UNCHANGED <<station, parent, control_station>>
        /\ \/ pc' = [pc EXCEPT ![s] = "gone"] /\ Unlink(s)
           \/ pc' = [pc EXCEPT ![s] = "zombie"] /\ UNCHANGED listVars
    BY <1>5 DEF ExitToStation, Ends
  <2>2. s \in InStation
    BY <2>1 DEF InStation, ParentInv
  <2>3. Quiet'
    BY <2>1 DEF Quiet, InDriver
  <2>4. CASE pc' = [pc EXCEPT ![s] = "gone"] /\ Unlink(s)
    <3>1. InShell' = InShell /\ InStation' = InStation \ {s}
      BY <2>1, <2>4 DEF InShell, InStation
    <3> QED
      BY <2>1, <2>2, <2>3, <2>4, <3>1, StationReaps
  <2>5. CASE pc' = [pc EXCEPT ![s] = "zombie"] /\ UNCHANGED listVars
    <3>1. InShell' = InShell /\ InStation' = InStation
      BY <2>1, <2>2, <2>5 DEF InShell, InStation
    <3> QED
      BY <2>1, <2>3, <2>5, <3>1 DEF Whole, listVars
  <2> QED
    BY <2>1, <2>4, <2>5
<1>6. ASSUME NEW s \in Soldier, ExitToOthers(s) PROVE Whole' /\ Quiet'
  <2>1. /\ pc[s] = "exit" /\ parent[s] # "station" /\ pc' = [pc EXCEPT ![s] = "gone"]
        /\ Unlink(s) /\ UNCHANGED <<station, parent, control_station>>
    BY <1>6 DEF ExitToOthers, Ends, stationVars
  <2>2. Quiet'
    BY <2>1 DEF Quiet, InDriver
  <2>3. CASE parent[s] = "shell"
    <3>1. InShell' = InShell \ {s} /\ InStation' = InStation /\ s \in InShell
      BY <2>1, <2>3, Nodes DEF InShell, InStation
    <3> QED
      BY <2>1, <2>2, <3>1, ShellReaps
  <2>4. CASE parent[s] = "init"
    <3>1. InShell' = InShell /\ InStation' = InStation
      BY <2>1, <2>4, Nodes DEF InShell, InStation
    <3>2. next[s] = s /\ prev[s] = s
      BY <2>1, <2>4 DEF Whole
    <3>3. next' = next /\ prev' = prev
      BY <2>1, <3>2, Nodes DEF Unlink, listVars, Ptr
    <3> QED
      BY <2>1, <2>2, <3>1, <3>3 DEF Whole
  <2> QED
    BY <2>1, <2>3, <2>4
<1>7. ASSUME NEW how \in {"killed", "exit_1"}, Running, StationDies(how) PROVE Whole' /\ Quiet'
  <2>1. Children("station") \cap Soldier = InStation
    BY DEF Whole, Ring, Children, Head, InStation
  <2>2. /\ station' = how /\ UNCHANGED control_station
        /\ parent' = [s \in Soldier |-> IF s \in InStation THEN "init" ELSE parent[s]]
        /\ pc' = [s \in Soldier |->
                    IF s \in InStation /\ pc[s] = "zombie" THEN "gone" ELSE pc[s]]
        /\ next' = [n \in Node |-> IF n \in InStation \cup {Head.station} THEN n ELSE next[n]]
        /\ prev' = [n \in Node |-> IF n \in InStation \cup {Head.station} THEN n ELSE prev[n]]
    BY <1>7, <2>1 DEF StationDies
  <2>3. InShell' = InShell
    BY <1>7, <2>2, Nodes DEF InShell, InStation, Running
  <2>4. InStation' = {}
    BY <2>2, Nodes DEF InStation
  <2>5. next' \in Ptr /\ prev' \in Ptr
    BY <2>2 DEF Ptr
  <2>6. Ring(next', prev', Head.station, {})
    BY <2>2, <2>5, RingEmpty, Nodes DEF Heads
  <2>7. Ring(next', prev', Head.shell, InShell)
    <3>1. \A n \in InShell \cup {Head.shell} : next'[n] = next[n] /\ prev'[n] = prev[n]
      BY <2>2, Apart, Nodes DEF Heads
    <3> QED
      BY <2>5, <3>1, RingFrame, Nodes DEF Whole, Heads
  <2>8. ASSUME NEW s \in Soldier, pc'[s] = "exit", parent'[s] = "init"
        PROVE  next'[s] = s /\ prev'[s] = s
    <3>1. CASE s \in InStation
      BY <2>2, <3>1, Nodes
    <3>2. CASE s \notin InStation
      BY <2>2, <2>8, <3>2, Nodes DEF Whole, Heads
    <3> QED
      BY <3>1, <3>2
  <2>9. Quiet'
    BY <2>2 DEF Quiet, InDriver
  <2> QED
    BY <2>3, <2>4, <2>6, <2>7, <2>8, <2>9 DEF Whole
<1> QED
  BY <1>1, <1>2, <1>3, <1>4, <1>5, <1>6, <1>7

(* Steps that touch no list. *)
LEMMA NoListChange ==
  ASSUME ListInv, UNCHANGED <<listVars, saved>>, InShell' = InShell, InStation' = InStation,
         \A s \in Soldier :
           /\ InDriver(s)' => InDriver(s)
           /\ pc[s] \in {"del_prev", "del_next", "add_next"}
                \/ pc'[s] \in {"del_prev", "del_next", "add_next"} => pc'[s] = pc[s]
           /\ pc'[s] = "exit" /\ parent'[s] = "init" => pc[s] = "exit" /\ parent[s] = "init"
  PROVE  ListInv'
<1>1. next' = next /\ prev' = prev /\ saved' = saved
  BY DEF listVars
<1>2. \A s \in Soldier : pc'[s] \in {"del_next", "add_next"} => Undone(s)' = Undone(s)
  BY <1>1 DEF Undone
<1> QED
  BY <1>1, <1>2 DEF ListInv

(***************************************************************************)
(* The driver's list_del and list_add_tail, pointer by pointer.            *)
(***************************************************************************)
LEMMA IoctlKeepsLists ==
  ASSUME Types, ParentInv, Whole, Quiet, NEW s \in Soldier, Ioctl(s)
  PROVE  ListInv' /\ pc' = [pc EXCEPT ![s] = "del_prev"]
<1> USE DEF Types
<1>1. s \in InShell /\ InShell = Children("shell")
  BY DEF Ioctl, InShell, Whole, Ring, Children, Head
<1>2. /\ pc[s] = "ioctl" /\ pc' = [pc EXCEPT ![s] = "del_prev"]
      /\ saved' = [saved EXCEPT ![s] = [prev |-> prev[s], next |-> next[s]]]
      /\ UNCHANGED <<station, parent, next, prev>>
      /\ \A t \in Soldier \ {s} : control_station'[t] = control_station[t]
  BY <1>1 DEF Ioctl, stationVars, listVars
<1>3. InShell' = InShell /\ InStation' = InStation
  BY <1>2 DEF InShell, InStation
<1>4. Ring(next', prev', Head.shell, InShell') /\ Ring(next', prev', Head.station, InStation')
  BY <1>2, <1>3 DEF Whole
<1>5. \A t \in Soldier : t # s => pc'[t] = pc[t] /\ ~InDriver(t) /\ saved'[t] = saved[t]
  BY <1>2 DEF Quiet
<1>6. pc'[s] = "del_prev" /\ saved'[s] = [prev |-> prev'[s], next |-> next'[s]]
  BY <1>2
<1> QED
  BY <1>2, <1>4, <1>5, <1>6 DEF ListInv, Whole, InDriver

(* Only one soldier is in the driver. *)
Alone(s) == \A t \in Soldier \ {s} : ~InDriver(t)

LEMMA DelPrevKeepsLists ==
  ASSUME Types, ListInv, NEW s \in Soldier, DelPrev(s)
  PROVE  ListInv'
<1> USE DEF Types
<1>1. /\ pc[s] = "del_prev" /\ Alone(s)
      /\ Ring(next, prev, Head.shell, InShell) /\ Ring(next, prev, Head.station, InStation)
      /\ saved[s] = [prev |-> prev[s], next |-> next[s]]
  BY DEF ListInv, InDriver, DelPrev, Alone
<1>2. s \in InShell /\ s \in Node
  BY <1>1, Nodes DEF InShell
<1>3. next[s] \in InShell \cup {Head.shell} /\ prev[s] \in InShell \cup {Head.shell}
      /\ prev[next[s]] = s
  BY <1>1, <1>2 DEF Ring
<1>4. next[s] \in Node /\ prev[s] \in Node /\ next[s] # Poison /\ next[s] # s
  BY <1>1, <1>2, <1>3, Apart, Nodes, NoSelf DEF Heads
<1>5. /\ prev' = [prev EXCEPT ![next[s]] = prev[s]]
      /\ pc' = [pc EXCEPT ![s] = "del_next"]
      /\ UNCHANGED <<station, parent, control_station, saved, next>>
  BY <1>1, <1>4 DEF DelPrev, stationVars
<1>6. InShell' = InShell /\ InStation' = InStation
  BY <1>1, <1>5 DEF InShell, InStation
<1>7. /\ pc'[s] = "del_next" /\ prev'[next[s]] = prev[s] /\ prev'[s] = prev[s]
      /\ \A t \in Soldier \ {s} : pc'[t] = pc[t] /\ ~InDriver(t)
      /\ \A n \in Node \ {next[s]} : prev'[n] = prev[n]
  BY <1>1, <1>2, <1>4, <1>5 DEF Alone, Ptr
<1>8. Undone(s)' = prev
  <2>1. Undone(s)' = [prev' EXCEPT ![next'[s]] = s]
    BY <1>7 DEF Undone
  <2> QED
    BY <1>3, <1>4, <1>5, <2>1 DEF Ptr
<1>9. Ring(next', prev', Head.station, InStation)
  <2>1. prev' \in Ptr
    BY <1>4, <1>5 DEF Ptr
  <2>2. \A n \in InStation \cup {Head.station} : next'[n] = next[n] /\ prev'[n] = prev[n]
    BY <1>3, <1>5, <1>7, Apart, Nodes DEF Heads
  <2> QED
    <3>1. next' \in Ptr /\ Head.station \in Node
      BY <1>5, Nodes DEF Heads
    <3> QED
      BY <1>1, <2>1, <2>2, <3>1, RingFrame
<1>10. \A t \in Soldier : pc'[t] = "exit" /\ parent'[t] = "init" =>
         next'[t] = t /\ prev'[t] = t
  <2>1. ASSUME NEW t \in Soldier, pc[t] = "exit", parent[t] = "init"
        PROVE  t # next[s] /\ t \in Node
    BY <1>3, <2>1, Nodes DEF InShell, Heads
  <2> QED
    BY <1>5, <1>7, <2>1 DEF ListInv
<1> QED
  BY <1>1, <1>5, <1>6, <1>7, <1>8, <1>9, <1>10 DEF ListInv, InDriver

LEMMA DelNextKeepsLists ==
  ASSUME Types, ListInv, NEW s \in Soldier, DelNext(s)
  PROVE  ListInv'
<1> USE DEF Types
<1> DEFINE g == Undone(s)
<1>1. /\ pc[s] = "del_next" /\ Alone(s)
      /\ Ring(next, g, Head.shell, InShell) /\ Ring(next, prev, Head.station, InStation)
      /\ saved[s] = [prev |-> prev[s], next |-> next[s]] /\ prev[next[s]] = prev[s]
  BY DEF ListInv, InDriver, DelNext, Alone
<1>2. s \in InShell /\ s \in Node
  BY <1>1, Nodes DEF InShell
<1>3. g = [prev EXCEPT ![next[s]] = s]
  BY <1>1 DEF Undone
<1>4. next[s] \in InShell \cup {Head.shell} /\ g[s] \in InShell \cup {Head.shell}
  BY <1>1, <1>2 DEF Ring
<1>5. g \in Ptr /\ next[s] # s
  <2> HIDE DEF g
  <2>1. g \in Ptr
    BY <1>2, <1>3, Nodes DEF Ptr
  <2> QED
    BY <1>1, <1>2, <2>1, NoSelf, Nodes DEF Heads
<1>6. g[s] = prev[s] /\ \A n \in Node \ {next[s]} : g[n] = prev[n]
  BY <1>2, <1>3, <1>5 DEF Ptr
<1>7. /\ next' = [next EXCEPT ![prev[s]] = next[s], ![s] = Poison]
      /\ prev' = [prev EXCEPT ![s] = Poison]
      /\ pc' = [pc EXCEPT ![s] = "set_parent"]
      /\ UNCHANGED <<station, parent, control_station, saved>>
  BY <1>1 DEF DelNext, stationVars
<1>8. next' \in Ptr /\ prev' \in Ptr
  BY <1>4, <1>6, <1>7, Apart, Nodes DEF Ptr, Heads
<1>9. /\ InShell \subseteq Node /\ Head.shell \in Node
  BY Apart, Nodes DEF Heads
<1>10. \A n \in Node \ {s} : /\ next'[n] = IF n = prev[s] THEN next[s] ELSE next[n]
                             /\ prev'[n] = prev[n]
  BY <1>4, <1>6, <1>7, <1>9 DEF Ptr
<1>11. InShell' = InShell \ {s} /\ InStation' = InStation
  BY <1>1, <1>7, Nodes DEF InShell, InStation
<1>12. Ring(next', prev', Head.shell, InShell \ {s})
  <2>1. \A n \in (InShell \cup {Head.shell}) \ {s} :
          /\ next'[n] = IF n = g[s] THEN next[s] ELSE next[n]
          /\ prev'[n] = IF n = next[s] THEN g[s] ELSE g[n]
    BY <1>1, <1>6, <1>9, <1>10
  <2> HIDE DEF g
  <2> QED
    BY <1>1, <1>2, <1>5, <1>8, <1>9, <2>1, RingRemove
<1>13. Ring(next', prev', Head.station, InStation)
  <2>1. \A n \in InStation \cup {Head.station} :
          n \in Node /\ n # s /\ n # prev[s]
    BY <1>2, <1>4, <1>6, Apart, Nodes DEF Heads
  <2>2. \A n \in InStation \cup {Head.station} : next'[n] = next[n] /\ prev'[n] = prev[n]
    BY <1>10, <2>1
  <2> QED
    BY <1>1, <1>8, <2>2, RingFrame, Nodes DEF Heads
<1>14. /\ pc'[s] = "set_parent"
       /\ \A t \in Soldier \ {s} : pc'[t] = pc[t] /\ ~InDriver(t)
  BY <1>1, <1>7 DEF Alone
<1>15. \A t \in Soldier : pc'[t] = "exit" /\ parent'[t] = "init" =>
         next'[t] = t /\ prev'[t] = t
  <2>1. ASSUME NEW t \in Soldier, pc[t] = "exit", parent[t] = "init"
        PROVE  t # prev[s] /\ t # s /\ t \in Node
    BY <1>1, <1>4, <1>6, <2>1, Nodes DEF InShell, Heads
  <2>2. ASSUME NEW t \in Soldier, pc[t] = "exit", parent[t] = "init"
        PROVE  next'[t] = t /\ prev'[t] = t
    BY <1>10, <2>1, <2>2 DEF ListInv
  <2>3. \A t \in Soldier : pc'[t] = "exit" => pc[t] = "exit"
    BY <1>14
  <2> QED
    BY <1>7, <2>2, <2>3
<1> QED
  BY <1>11, <1>12, <1>13, <1>14, <1>15 DEF ListInv, InDriver

LEMMA AddKeepsLists ==
  ASSUME Types, ListInv, ParentInv, NEW s \in Soldier, Add(s)
  PROVE  ListInv'
<1> USE DEF Types
<1> DEFINE H == Head.station
           g == Undone(s)'
<1>1. /\ pc[s] = "add" /\ Alone(s)
      /\ Ring(next, prev, Head.shell, InShell) /\ Ring(next, prev, H, InStation)
  BY DEF ListInv, InDriver, Add, Alone
<1>2. s \in Node \ (InShell \cup InStation \cup Heads) /\ H \in Node /\ H # Head.shell
  BY <1>1, Nodes DEF InShell, InStation, Heads, ParentInv
<1>3. /\ prev' = [prev EXCEPT ![H] = s, ![s] = prev[H]]
      /\ next' = [next EXCEPT ![s] = H]
      /\ saved' = [saved EXCEPT ![s].prev = prev[H]]
      /\ pc' = [pc EXCEPT ![s] = "add_next"]
      /\ UNCHANGED <<station, parent, control_station>>
  BY DEF Add, stationVars
<1>4. next' \in Ptr /\ prev' \in Ptr
  BY <1>2, <1>3 DEF Ptr
<1>5. /\ pc'[s] = "add_next" /\ saved'[s].prev = prev[H]
      /\ \A t \in Soldier \ {s} : pc'[t] = pc[t] /\ ~InDriver(t)
  BY <1>1, <1>3 DEF Alone
<1>6. /\ prev'[H] = s /\ prev'[s] = prev[H] /\ next'[s] = H
      /\ \A n \in Node \ {s} : next'[n] = next[n]
      /\ \A n \in Node \ {s, H} : prev'[n] = prev[n]
  BY <1>2, <1>3 DEF Ptr, Heads
<1>7. InShell' = InShell /\ InStation' = InStation
  BY <1>1, <1>3 DEF InShell, InStation
<1>8. g = [prev' EXCEPT ![H] = prev[H]]
  BY <1>5 DEF Undone
<1>9. g \in Ptr /\ \A n \in Node \ {s} : g[n] = prev[n]
  <2> HIDE DEF g
  <2> QED
    BY <1>2, <1>4, <1>6, <1>8 DEF Ptr
<1>10. InShell \cup InStation \subseteq Node \ {s, H} /\ Head.shell \in Node \ {s, H}
  BY <1>2, Apart, Nodes DEF Heads
<1>11. Ring(next', g, H, InStation)
  <2> HIDE DEF g
  <2>1. \A n \in InStation \cup {H} : next'[n] = next[n] /\ g[n] = prev[n]
    BY <1>2, <1>6, <1>9, <1>10 DEF Heads
  <2> HIDE DEF H
  <2> QED
    BY <1>1, <1>2, <1>4, <1>9, <2>1, RingFrame
<1>12. Ring(next', prev', Head.shell, InShell)
  <2>1. \A n \in InShell \cup {Head.shell} : next'[n] = next[n] /\ prev'[n] = prev[n]
    BY <1>6, <1>10
  <2> QED
    BY <1>1, <1>4, <1>10, <2>1, RingFrame
<1>13. \A t \in Soldier : pc'[t] = "exit" /\ parent'[t] = "init" =>
         next'[t] = t /\ prev'[t] = t
  <2>1. ASSUME NEW t \in Soldier, pc[t] = "exit", parent[t] = "init"
        PROVE  next'[t] = t /\ prev'[t] = t
    BY <1>1, <1>6, <2>1, Nodes DEF ListInv, Heads
  <2>2. \A t \in Soldier : pc'[t] = "exit" => pc[t] = "exit"
    BY <1>5
  <2> QED
    BY <1>3, <2>1, <2>2
<1> QED
  BY <1>5, <1>6, <1>7, <1>11, <1>12, <1>13 DEF ListInv, InDriver

LEMMA AddNextKeepsLists ==
  ASSUME Types, ListInv, ParentInv, NEW s \in Soldier, AddNext(s)
  PROVE  ListInv'
<1> USE DEF Types
<1> DEFINE H == Head.station
           g == Undone(s)
<1>1. /\ pc[s] = "add_next" /\ Alone(s)
      /\ Ring(next, prev, Head.shell, InShell) /\ Ring(next, g, H, InStation)
      /\ prev[H] = s /\ prev[s] = saved[s].prev /\ next[s] = H
  BY DEF ListInv, InDriver, AddNext, Alone
<1>2. s \in Node \ (InShell \cup InStation \cup Heads) /\ H \in Node /\ H # Head.shell
  BY <1>1, Nodes DEF InShell, InStation, Heads, ParentInv
<1>3. g = [prev EXCEPT ![H] = saved[s].prev]
  BY <1>1 DEF Undone
<1>4. saved[s].prev \in Node \cup {Poison}
  OBVIOUS
<1>5. /\ g \in Ptr /\ g[H] = saved[s].prev /\ \A n \in Node \ {H} : g[n] = prev[n]
  <2> HIDE DEF g
  <2> QED
    BY <1>2, <1>3, <1>4 DEF Ptr
<1>6. g[H] \in InStation \cup {H} /\ g[H] # s
  BY <1>1, <1>2 DEF Ring, Heads
<1>7. /\ next' = [next EXCEPT ![saved[s].prev] = s]
      /\ pc' = [pc EXCEPT ![s] = "exit"]
      /\ UNCHANGED <<station, parent, control_station, saved, prev>>
  BY DEF AddNext, stationVars
<1>8. InShell \cup InStation \subseteq Node \ {s, H} /\ Head.shell \in Node \ {s, H}
      /\ InShell \cap InStation = {} /\ Head.shell \notin InStation
  BY <1>2, Apart, Nodes DEF Heads
<1>9. /\ next' \in Ptr /\ next'[s] = H
      /\ \A n \in Node : next'[n] = IF n = saved[s].prev THEN s ELSE next[n]
  <2>1. saved[s].prev # s
    BY <1>5, <1>6
  <2> QED
    BY <1>1, <1>2, <1>7, <2>1 DEF Ptr
<1>10. Ring(next', prev, H, InStation \cup {s})
  <2> HIDE DEF g
  <2>1. \A n \in InStation \cup {H} :
          /\ next'[n] = IF n = g[H] THEN s ELSE next[n]
          /\ prev[n] = IF n = H THEN s ELSE g[n]
    BY <1>1, <1>2, <1>5, <1>8, <1>9
  <2>2. prev[s] = g[H] /\ s \in Node \ (InStation \cup {H})
    BY <1>1, <1>2, <1>5, <1>8 DEF Heads
  <2> HIDE DEF H
  <2> QED
    BY <1>1, <1>2, <1>5, <1>9, <2>1, <2>2, RingAdd
<1>11. Ring(next', prev, Head.shell, InShell)
  <2>1. \A n \in InShell \cup {Head.shell} : next'[n] = next[n]
    BY <1>2, <1>5, <1>6, <1>8, <1>9
  <2> QED
    BY <1>1, <1>8, <1>9, <2>1, RingFrame
<1>12. InShell' = InShell /\ InStation' = InStation \cup {s}
  BY <1>1, <1>7 DEF InShell, InStation, ParentInv
<1>13. /\ pc'[s] = "exit" /\ parent'[s] = "station"
       /\ \A t \in Soldier \ {s} : pc'[t] = pc[t] /\ ~InDriver(t)
  BY <1>1, <1>7 DEF Alone, ParentInv
<1>14. \A t \in Soldier : pc'[t] = "exit" /\ parent'[t] = "init" =>
         next'[t] = t /\ prev'[t] = t
  <2>1. ASSUME NEW t \in Soldier, pc[t] = "exit", parent[t] = "init"
        PROVE  next'[t] = t /\ prev'[t] = t
    <3>1. next[t] = t /\ prev[t] = t /\ t \in Node /\ t \notin InStation \cup {H}
      BY <2>1, Nodes DEF ListInv, InStation, Heads
    <3> QED
      BY <1>5, <1>6, <1>7, <1>9, <3>1
  <2> QED
    BY <1>7, <1>13, <2>1
<1> QED
  BY <1>7, <1>10, <1>11, <1>12, <1>13, <1>14 DEF ListInv, InDriver

(* Every step that leaves race FALSE keeps the lists as ListInv has them.   *)
LEMMA StepListInv ==
  ASSUME Types, ListInv, ParentInv, [Next]_vars, ~race'
  PROVE  ListInv'
<1> DEFINE Kernel ==
      \/ LaunchStation \/ StationReaped
      \/ \E s \in Soldier : LaunchSoldier(s) \/ WaitReaps(s)
      \/ \E s \in Soldier : ExitToStation(s) \/ ExitToOthers(s)
      \/ \E how \in {"killed", "exit_1"} : Running /\ StationDies(how)
<1>1. CASE Kernel
  <2>1. CASE Quiet
    BY <1>1, <2>1, QuietWhole, KernelKeepsWhole
  <2>2. CASE ~Quiet
    <3>1. PICK s \in Soldier : ExitToStation(s) /\ UNCHANGED listVars
                               /\ pc' = [pc EXCEPT ![s] = "zombie"]
      BY <1>1, <2>2 DEF LaunchStation, StationReaped, LaunchSoldier, WaitReaps, ExitToStation,
           ExitToOthers, StationDies, Disturb, Quiet, Ends
    <3>2. /\ UNCHANGED <<listVars, saved, station, parent, control_station>>
          /\ pc[s] = "exit" /\ parent[s] = "station"
      BY <3>1 DEF ExitToStation
    <3>3. InShell' = InShell /\ InStation' = InStation
      BY <3>1, <3>2 DEF InShell, InStation, Types, ParentInv
    <3> QED
      BY <3>1, <3>2, <3>3, NoListChange DEF InDriver, Types
  <2> QED
    BY <2>1, <2>2
<1>2. CASE Insmod \/ Rmmod \/ Sigaction \/ Deliver \/ UNCHANGED vars
  <2>1. /\ UNCHANGED <<listVars, saved, pc, parent, control_station>>
        /\ station' = station \/ (station = "starting" /\ station' = "running")
    BY <1>2 DEF Insmod, Rmmod, Sigaction, Deliver, vars, stationVars, soldierVars
  <2>2. InShell' = InShell /\ InStation' = InStation
    BY <2>1 DEF InShell, InStation
  <2> QED
    BY <2>1, <2>2, NoListChange DEF InDriver
<1>3. ASSUME NEW s \in Soldier, Open(s) \/ SetParent(s) \/ ExitToCorpse(s)
      PROVE  ListInv'
  <2>1. /\ UNCHANGED <<listVars, saved, station, control_station>>
        /\ \/ /\ pc[s] = "open" /\ UNCHANGED parent /\ parent[s] = "shell"
              /\ pc' = [pc EXCEPT ![s] = "ioctl"] \/ pc' = [pc EXCEPT ![s] = "exit"]
           \/ /\ pc[s] = "set_parent" /\ parent' = [parent EXCEPT ![s] = "station"]
              /\ \/ pc' = [pc EXCEPT ![s] = "oops"] /\ control_station[s] = "null"
                 \/ pc' = [pc EXCEPT ![s] = "add"]
           \/ /\ pc[s] = "exit" /\ parent[s] = "station" /\ UNCHANGED parent
              /\ pc' = [pc EXCEPT ![s] = "oops"]
    BY <1>3 DEF Open, SetParent, ExitToCorpse, Ends, stationVars, ParentInv
  <2>2. InShell' = InShell
    BY <2>1 DEF InShell, Types
  <2>3. InStation' = InStation
    BY <2>1 DEF InStation, Types
  <2> QED
    BY <2>1, <2>2, <2>3, NoListChange DEF InDriver, Types
<1>4. ASSUME NEW s \in Soldier, Ioctl(s) PROVE ListInv'
  <2>1. Quiet
    BY <1>4 DEF Ioctl, Quiet
  <2> QED
    BY <1>4, <2>1, QuietWhole, IoctlKeepsLists
<1>5. ASSUME NEW s \in Soldier, DelPrev(s) \/ DelNext(s) \/ Add(s) \/ AddNext(s)
      PROVE  ListInv'
  BY <1>5, DelPrevKeepsLists, DelNextKeepsLists, AddKeepsLists, AddNextKeepsLists
<1> QED
  BY <1>1, <1>2, <1>3, <1>4, <1>5
  DEF Next, Script, ControlStation, SoldierStep, Kill, WaitFails, Running

-----------------------------------------------------------------------------
(* The soldiers' parents, the kernel crash and the signals. *)
(* A living control station, once found, lives while it is used.           *)
LEMMA StepParentInv ==
  ASSUME Types, ListInv, ParentInv, [Next]_vars, ~race'
  PROVE  ParentInv'
<1> USE DEF Types, ParentInv, Running
<1>1. CASE LaunchStation \/ StationReaped \/ Insmod \/ Rmmod \/ Sigaction \/ Deliver
             \/ UNCHANGED vars
  <2>1. /\ UNCHANGED <<pc, parent, control_station>>
        /\ Running => Running'
    BY <1>1 DEF LaunchStation, StationReaped, Insmod, Rmmod, Sigaction, Deliver,
         vars, stationVars, soldierVars
  <2> QED
    BY <2>1 DEF InDriver
<1>2. ASSUME NEW s \in Soldier, \/ LaunchSoldier(s) \/ WaitReaps(s) \/ Open(s)
                                \/ DelPrev(s) \/ DelNext(s) \/ AddNext(s)
                                \/ ExitToStation(s) \/ ExitToCorpse(s) \/ ExitToOthers(s)
      PROVE  ParentInv'
  <2>1. /\ UNCHANGED <<parent, control_station, station>>
        /\ \/ pc[s] = "off" /\ pc' = [pc EXCEPT ![s] = "open"]
           \/ pc[s] = "zombie" /\ pc' = [pc EXCEPT ![s] = "reported"]
           \/ pc[s] = "open" /\ pc' = [pc EXCEPT ![s] = "ioctl"]
           \/ pc[s] = "open" /\ pc' = [pc EXCEPT ![s] = "exit"]
           \/ pc[s] = "del_prev" /\ pc' = [pc EXCEPT ![s] = "del_next"]
           \/ pc[s] = "del_next" /\ pc' = [pc EXCEPT ![s] = "set_parent"]
           \/ pc[s] = "add_next" /\ pc' = [pc EXCEPT ![s] = "exit"]
           \/ pc[s] = "exit" /\ parent[s] = "station" /\ pc' = [pc EXCEPT ![s] = "zombie"]
           \/ pc[s] = "exit" /\ pc' = [pc EXCEPT ![s] = "gone"]
           \/ pc[s] = "exit" /\ pc' = [pc EXCEPT ![s] = "oops"]
    BY <1>2 DEF LaunchSoldier, WaitReaps, ZombieIn, Open, DelPrev, DelNext, AddNext,
         ExitToStation, ExitToCorpse, ExitToOthers, Ends, stationVars
  <2> QED
    BY <2>1 DEF InDriver
<1>3. ASSUME NEW s \in Soldier, Ioctl(s) PROVE ParentInv'
  <2>1. Quiet
    BY <1>3 DEF Ioctl, Quiet
  <2>2. pc' = [pc EXCEPT ![s] = "del_prev"]
    BY <1>3, <2>1, QuietWhole, IoctlKeepsLists
  <2>3. /\ pc[s] = "ioctl" /\ UNCHANGED <<parent, station>>
        /\ control_station' = [control_station EXCEPT ![s] =
             CASE Running -> "alive" [] station = "gone" -> "null" [] OTHER -> "corpse"]
    BY <1>3 DEF Ioctl, stationVars
  <2>4. /\ control_station'[s] # "none" /\ control_station'[s] = "alive" => Running
        /\ \A t \in Soldier \ {s} : control_station'[t] = control_station[t] /\ pc'[t] = pc[t]
    BY <2>2, <2>3
  <2>5. pc'[s] = "del_prev"
    BY <2>2
  <2> QED
    BY <2>3, <2>4, <2>5 DEF InDriver
<1>4. ASSUME NEW s \in Soldier, SetParent(s) PROVE ParentInv'
  <2>1. /\ pc[s] = "set_parent" /\ UNCHANGED <<control_station, station>>
        /\ parent' = [parent EXCEPT ![s] = "station"]
        /\ pc' = [pc EXCEPT ![s] = IF control_station[s] = "null" THEN "oops" ELSE "add"]
    BY <1>4 DEF SetParent, stationVars
  <2> QED
    BY <2>1 DEF InDriver
<1>5. ASSUME NEW s \in Soldier, Add(s) PROVE ParentInv'
  <2>1. /\ pc[s] = "add" /\ UNCHANGED <<control_station, station, parent>>
        /\ pc' = [pc EXCEPT ![s] = "add_next"]
    BY <1>5 DEF Add, stationVars
  <2> QED
    BY <2>1 DEF InDriver
<1>6. ASSUME NEW how \in {"killed", "exit_1"}, Running, StationDies(how) PROVE ParentInv'
  <2>1. Quiet /\ Whole
    BY <1>6, QuietWhole DEF StationDies, Disturb, Quiet
  <2>2. Children("station") \cap Soldier = InStation
    BY <2>1 DEF Whole, Ring, Children, Head, InStation
  <2>3. /\ UNCHANGED control_station
        /\ parent' = [s \in Soldier |-> IF s \in InStation THEN "init" ELSE parent[s]]
        /\ pc' = [s \in Soldier |->
                    IF s \in InStation /\ pc[s] = "zombie" THEN "gone" ELSE pc[s]]
    BY <1>6, <2>2 DEF StationDies
  <2>4. \A s \in Soldier : pc[s] = "zombie" \/ (pc[s] = "exit" /\ parent[s] = "station") =>
          s \in InStation
    BY DEF InStation
  <2>5. ASSUME NEW s \in Soldier
        PROVE  /\ s \in InStation => pc'[s] \in {"gone", "exit", "oops"} /\ parent'[s] = "init"
               /\ s \notin InStation => pc'[s] = pc[s] /\ parent'[s] = parent[s]
               /\ ~InDriver(s)'
    BY <2>1, <2>3, <2>4 DEF Quiet, InDriver, InStation
  <2> QED
    BY <2>3, <2>4, <2>5
<1> QED
  BY <1>1, <1>2, <1>3, <1>4, <1>5, <1>6
  DEF Next, Script, ControlStation, SoldierStep, Kill, WaitFails

(* The kernel crashes only over a control station that is dead or gone.     *)
LEMMA StepNoOops ==
  ASSUME Types, NoOops, ~race => ParentInv, [Next]_vars
  PROVE  NoOops'
<1> USE DEF Types, NoOops
<1>1. race => race'
  BY DEF Next, Script, ControlStation, SoldierStep, Insmod, LaunchStation, Kill, StationDies,
     StationReaped, Rmmod, LaunchSoldier, Sigaction, Deliver, WaitFails, WaitReaps, Open,
     Ioctl, DelPrev, DelNext, SetParent, Add, AddNext, ExitToStation, ExitToCorpse,
     ExitToOthers, Disturb, vars
<1>2. ASSUME NEW t \in Soldier, pc'[t] = "oops", ~race'
      PROVE  control_station'[t] \in {"corpse", "null"}
  <2>1. ASSUME NEW s \in Soldier, Ioctl(s)
        PROVE  control_station'[t] \in {"corpse", "null"}
    BY <1>1, <1>2, <2>1 DEF Ioctl
  <2>2. ASSUME NEW s \in Soldier, SetParent(s)
        PROVE  control_station'[t] \in {"corpse", "null"}
    BY <1>1, <1>2, <2>2 DEF SetParent
  <2>3. ASSUME NEW s \in Soldier, ExitToCorpse(s)
        PROVE  control_station'[t] \in {"corpse", "null"}
    BY <1>1, <1>2, <2>3 DEF ExitToCorpse, Ends, ParentInv
  <2>4. ASSUME ~\E s \in Soldier : Ioctl(s) \/ SetParent(s) \/ ExitToCorpse(s)
        PROVE  pc[t] = "oops" /\ UNCHANGED control_station
    <3>1. CASE Insmod \/ LaunchStation \/ StationReaped \/ Rmmod \/ Sigaction \/ Deliver
                 \/ UNCHANGED vars
      BY <1>2, <3>1 DEF Insmod, LaunchStation, StationReaped, Rmmod, Sigaction, Deliver,
           vars, soldierVars
    <3>2. ASSUME NEW how \in {"killed", "exit_1"}, StationDies(how)
          PROVE  pc[t] = "oops" /\ UNCHANGED control_station
      BY <1>2, <3>2 DEF StationDies
    <3>3. ASSUME NEW s \in Soldier, \/ LaunchSoldier(s) \/ WaitReaps(s) \/ Open(s)
                                    \/ DelPrev(s) \/ DelNext(s) \/ Add(s) \/ AddNext(s)
                                    \/ ExitToStation(s) \/ ExitToOthers(s)
          PROVE  pc[t] = "oops" /\ UNCHANGED control_station
      BY <1>2, <3>3 DEF LaunchSoldier, WaitReaps, Open, DelPrev, DelNext, Add, AddNext,
           ExitToStation, ExitToOthers, Ends
    <3> QED
      BY <2>4, <3>1, <3>2, <3>3
      DEF Next, Script, ControlStation, SoldierStep, Kill, WaitFails
  <2> QED
    BY <1>1, <1>2, <2>1, <2>2, <2>3, <2>4
<1> QED
  BY <1>2

(* Cardinalities of sets of soldiers. *)
LEMMA SoldierSets ==
  ASSUME NEW S \in SUBSET Soldier
  PROVE  /\ Cardinality(S) \in Nat /\ Cardinality(Soldier) \in Nat
         /\ Cardinality(S) <= Cardinality(Soldier)
         /\ \A T \in SUBSET S : Cardinality(T) <= Cardinality(S)
         /\ \A s \in Soldier \ S : Cardinality(S \cup {s}) = Cardinality(S) + 1
         /\ \A s \in S : Cardinality(S \ {s}) = Cardinality(S) - 1
<1>1. IsFiniteSet(Soldier)
  BY SoldierAssumption
<1>2. IsFiniteSet(S) /\ Cardinality(S) <= Cardinality(Soldier)
  BY <1>1, FS_Subset
<1>3. \A T \in SUBSET S : Cardinality(T) <= Cardinality(S)
  BY <1>2, FS_Subset
<1>4. \A s \in Soldier \ S : Cardinality(S \cup {s}) = Cardinality(S) + 1
  BY <1>2, FS_AddElement
<1>5. \A s \in S : Cardinality(S \ {s}) = Cardinality(S) - 1
  BY <1>2, FS_RemoveElement
<1> QED
  BY <1>1, <1>2, <1>3, <1>4, <1>5, FS_CardinalityType

(* Nobody comes back from the dead. *)
LEMMA ExitedGrows ==
  ASSUME Types, [Next]_vars
  PROVE  Exited \subseteq Exited'
<1> SUFFICES ASSUME NEW t \in Soldier, pc[t] \in {"zombie", "reported", "gone"}
             PROVE  pc'[t] \in {"zombie", "reported", "gone"}
  BY DEF Exited
<1> USE DEF Types
<1>1. CASE Insmod \/ LaunchStation \/ StationReaped \/ Rmmod \/ Sigaction \/ Deliver
             \/ UNCHANGED vars
  BY <1>1 DEF Insmod, LaunchStation, StationReaped, Rmmod, Sigaction, Deliver,
       vars, soldierVars
<1>2. ASSUME NEW how \in {"killed", "exit_1"}, StationDies(how)
      PROVE  pc'[t] \in {"zombie", "reported", "gone"}
  BY <1>2 DEF StationDies
<1>3. ASSUME NEW s \in Soldier, \/ LaunchSoldier(s) \/ WaitReaps(s) \/ Open(s) \/ Ioctl(s)
                                \/ DelPrev(s) \/ DelNext(s) \/ SetParent(s)
      PROVE  pc'[t] \in {"zombie", "reported", "gone"}
  BY <1>3 DEF LaunchSoldier, WaitReaps, ZombieIn, Open, Ioctl, DelPrev, DelNext, SetParent
<1>4. ASSUME NEW s \in Soldier, \/ Add(s) \/ AddNext(s) \/ ExitToCorpse(s)
                                \/ ExitToStation(s) \/ ExitToOthers(s)
      PROVE  pc'[t] \in {"zombie", "reported", "gone"}
  BY <1>4 DEF Add, AddNext, ExitToCorpse, ExitToStation, ExitToOthers, Ends
<1> QED
  BY <1>1, <1>2, <1>3, <1>4 DEF Next, Script, ControlStation, SoldierStep, Kill, WaitFails

(* One signal for each soldier that ends, one activation for each signal.   *)
LEMMA StepSignalInv ==
  ASSUME Types, Types', SignalInv, [Next]_vars
  PROVE  SignalInv'
<1>1. /\ Cardinality(Exited) \in Nat /\ Cardinality(Exited') \in Nat
      /\ Cardinality(Exited) <= Cardinality(Exited')
  BY SoldierSets, ExitedGrows DEF Exited
<1>2. ASSUME NEW s \in Soldier, ExitToStation(s) PROVE SignalInv'
  <2>1. /\ pc[s] = "exit" /\ UNCHANGED <<station, handlers, ignored>>
        /\ pc'[s] \in {"gone", "zombie"}
        /\ \A t \in Soldier \ {s} : pc'[t] = pc[t]
        /\ pending' = (pending \/ ~ignored \/ (handlers > 0 /\ "NODEFER" \notin sa_flags))
    BY <1>2 DEF ExitToStation, Ends, Types
  <2>2. Exited' = Exited \cup {s} /\ s \in Soldier \ Exited
    BY <2>1 DEF Exited
  <2>3. Exited \in SUBSET Soldier
    BY DEF Exited
  <2>4. Cardinality(Exited') = Cardinality(Exited) + 1
    BY <2>2, <2>3, SoldierSets
  <2>5. ASSUME station \in {"off", "starting"} PROVE ~pending'
    <3>1. handlers = 0 /\ ~pending /\ ignored /\ ~(handlers > 0)
      BY <2>5 DEF SignalInv
    <3> QED
      BY <2>1, <3>1
  <2>6. handlers \in Nat /\ handlers <= Cardinality(Exited)
    BY <1>1 DEF SignalInv, Types
  <2>7. handlers' + (IF pending' THEN 1 ELSE 0) <= Cardinality(Exited')
    BY <1>1, <2>1, <2>4, <2>6
  <2> QED
    BY <2>1, <2>5, <2>7 DEF SignalInv
<1>3. ASSUME NEW how \in {"killed", "exit_1"}, StationDies(how) PROVE SignalInv'
  BY <1>1, <1>3 DEF StationDies, SignalInv
<1>4. CASE Deliver
  <2>1. /\ station' = station /\ station = "running" /\ pending /\ ~pending'
        /\ handlers' = IF ignored THEN handlers ELSE handlers + 1
    BY <1>4 DEF Deliver
  <2>2. handlers + 1 <= Cardinality(Exited) /\ handlers \in Nat
    BY <2>1 DEF SignalInv, Types
  <2> QED
    BY <1>1, <2>1, <2>2 DEF SignalInv
<1>5. ASSUME NEW s \in Soldier, WaitReaps(s) PROVE SignalInv'
  <2>1. /\ station' = station /\ station = "running" /\ UNCHANGED <<pending, ignored>>
        /\ handlers' = handlers - 1
    BY <1>5 DEF WaitReaps
  <2> QED
    BY <1>1, <2>1 DEF SignalInv, Types
<1>6. CASE Sigaction \/ Insmod \/ LaunchStation \/ StationReaped \/ Rmmod \/ UNCHANGED vars
  <2>1. /\ UNCHANGED <<handlers, pending>>
        /\ station' \in {"off", "starting"} => station \in {"off", "starting"} /\ UNCHANGED ignored
    BY <1>6 DEF Sigaction, Insmod, LaunchStation, StationReaped, Rmmod, vars, stationVars
  <2> QED
    BY <1>1, <2>1 DEF SignalInv, Types
<1>7. ASSUME NEW s \in Soldier, \/ LaunchSoldier(s) \/ Open(s) \/ Ioctl(s) \/ DelPrev(s)
                                \/ DelNext(s) \/ SetParent(s) \/ Add(s) \/ AddNext(s)
                                \/ ExitToCorpse(s) \/ ExitToOthers(s)
      PROVE  SignalInv'
  <2>1. UNCHANGED <<handlers, pending, ignored, station>>
    BY <1>7 DEF LaunchSoldier, Open, Ioctl, DelPrev, DelNext, SetParent, Add, AddNext,
         ExitToCorpse, ExitToOthers, stationVars
  <2> QED
    BY <1>1, <2>1 DEF SignalInv, Types
<1> QED
  BY <1>2, <1>3, <1>4, <1>5, <1>6, <1>7
  DEF Next, Script, ControlStation, SoldierStep, Kill, WaitFails

(* ... and the soldier it is for is not reaped by anybody else.             *)
LEMMA StepReapInv ==
  ASSUME Types, Types', SignalInv, ReapInv, [Next]_vars
  PROVE  ReapInv'
<1> SUFFICES ASSUME station' = "running", "NOCLDWAIT" \notin sa_flags'
             PROVE  handlers' + (IF pending' /\ ~ignored' THEN 1 ELSE 0) <= Cardinality(Zombies')
  BY DEF ReapInv
<1> DEFINE owed == handlers + (IF pending /\ ~ignored THEN 1 ELSE 0)
<1>1. /\ Zombies \in SUBSET Soldier /\ Zombies' \in SUBSET Soldier
      /\ Cardinality(Zombies) \in Nat /\ Cardinality(Zombies') \in Nat
  BY SoldierSets DEF Zombies
<1>2. ASSUME station = "running", UNCHANGED sa_flags
      PROVE  owed <= Cardinality(Zombies)
  BY <1>2 DEF ReapInv
<1>3. ASSUME NEW s \in Soldier, ExitToStation(s) PROVE owed' <= Cardinality(Zombies')
  <2>1. /\ pc[s] = "exit" /\ UNCHANGED <<station, handlers, ignored, sa_flags>>
        /\ pc' = [pc EXCEPT ![s] = "zombie"]
    BY <1>3 DEF ExitToStation, Ends
  <2>2. Zombies' = Zombies \cup {s} /\ s \in Soldier \ Zombies
    BY <2>1 DEF Zombies, Types
  <2>3. Cardinality(Zombies') = Cardinality(Zombies) + 1
    BY <1>1, <2>2, SoldierSets
  <2>4. handlers \in Nat /\ handlers <= Cardinality(Zombies)
    BY <1>1, <1>2, <2>1 DEF Types
  <2> QED
    BY <1>1, <2>1, <2>3, <2>4
<1>4. ASSUME NEW s \in Soldier, WaitReaps(s) PROVE owed' <= Cardinality(Zombies')
  <2>1. /\ pc[s] = "zombie" /\ UNCHANGED <<station, pending, ignored, sa_flags>>
        /\ pc' = [pc EXCEPT ![s] = "reported"] /\ handlers' = handlers - 1
    BY <1>4 DEF WaitReaps, ZombieIn
  <2>2. Zombies' = Zombies \ {s} /\ s \in Zombies
    BY <2>1 DEF Zombies, Types
  <2>3. Cardinality(Zombies') = Cardinality(Zombies) - 1
    BY <1>1, <2>2, SoldierSets
  <2> QED
    BY <1>1, <1>2, <2>1, <2>3 DEF Types
<1>5. CASE Sigaction
  <2>1. handlers' = 0 /\ ~pending'
    BY <1>5 DEF Sigaction, SignalInv
  <2> QED
    BY <1>1, <2>1
<1>6. CASE Deliver
  <2>1. /\ UNCHANGED <<station, sa_flags, pc>> /\ pending /\ ~pending'
        /\ handlers' = IF ignored THEN handlers ELSE handlers + 1
    BY <1>6 DEF Deliver, soldierVars
  <2>2. Zombies' = Zombies
    BY <2>1 DEF Zombies
  <2>3. owed' = owed
    BY <2>1 DEF Types
  <2> QED
    BY <1>2, <2>1, <2>2, <2>3
<1>7. CASE \/ Insmod \/ Rmmod \/ UNCHANGED vars
           \/ \E s \in Soldier : \/ LaunchSoldier(s) \/ Open(s) \/ Ioctl(s) \/ DelPrev(s)
                                 \/ DelNext(s) \/ SetParent(s) \/ Add(s) \/ AddNext(s)
                                 \/ ExitToCorpse(s) \/ ExitToOthers(s)
  <2>1. UNCHANGED <<handlers, pending, ignored, station, sa_flags>>
    BY <1>7 DEF Insmod, Rmmod, vars, LaunchSoldier, Open, Ioctl, DelPrev, DelNext, SetParent,
         Add, AddNext, ExitToCorpse, ExitToOthers, stationVars
  <2>2. Zombies' = Zombies
    <3>1. CASE Insmod \/ Rmmod \/ UNCHANGED vars
      BY <3>1 DEF Insmod, Rmmod, vars, soldierVars, Zombies
    <3>2. ASSUME NEW s \in Soldier, \/ LaunchSoldier(s) \/ Open(s) \/ Ioctl(s) \/ DelPrev(s)
                                    \/ DelNext(s) \/ SetParent(s) \/ Add(s) \/ AddNext(s)
                                    \/ ExitToCorpse(s) \/ ExitToOthers(s)
          PROVE  Zombies' = Zombies
      <4>1. \E q \in {"open", "ioctl", "exit", "del_prev", "del_next", "set_parent", "add",
                      "add_next", "oops", "gone"} : pc' = [pc EXCEPT ![s] = q]
        BY <3>2 DEF LaunchSoldier, Open, Ioctl, DelPrev, DelNext, SetParent, Add, AddNext,
             ExitToCorpse, ExitToOthers, Ends
      <4>2. pc[s] # "zombie"
        BY <3>2 DEF LaunchSoldier, Open, Ioctl, DelPrev, DelNext, SetParent, Add, AddNext,
             ExitToCorpse, ExitToOthers
      <4> QED
        BY <4>1, <4>2 DEF Zombies, Types
    <3> QED
      BY <1>7, <3>1, <3>2
  <2> QED
    BY <1>2, <2>1, <2>2
<1> QED
  BY <1>3, <1>4, <1>5, <1>6, <1>7
  DEF Next, Script, ControlStation, SoldierStep, Kill, WaitFails, StationDies,
      LaunchStation, StationReaped

-----------------------------------------------------------------------------
(* Two empty lists, and nobody anywhere. *)
LEMMA InitIInv == Init => IInv
<1> SUFFICES ASSUME Init PROVE IInv
  OBVIOUS
<1> USE DEF Init
<1>1. Types
  BY Nodes DEF Types, Ptr, Heads
<1>2. SignalInv /\ ReapInv
  <2>1. Cardinality(Exited) \in Nat /\ Cardinality(Zombies) \in Nat
    BY SoldierSets DEF Exited, Zombies
  <2> QED
    BY <2>1 DEF SignalInv, ReapInv
<1>3. NoOops /\ ParentInv
  BY DEF NoOops, ParentInv, InDriver
<1>4. ListInv
  <2>1. InShell = {} /\ InStation = {}
    BY DEF InShell, InStation
  <2>2. Ring(next, prev, Head.shell, {}) /\ Ring(next, prev, Head.station, {})
    BY <1>1, RingEmpty, Nodes DEF Types, Heads
  <2> QED
    BY <2>1, <2>2, QuietWhole DEF Whole, Quiet, InDriver
<1> QED
  BY <1>1, <1>2, <1>3, <1>4 DEF IInv

(* The invariant of Dr. Doom. *)
THEOREM Invariant == Spec => []IInv
<1>1. IInv /\ [Next]_vars => IInv'
  <2> SUFFICES ASSUME IInv, [Next]_vars PROVE IInv'
    OBVIOUS
  <2>1. Types' /\ SignalInv'
    BY StepTypes, StepSignalInv DEF IInv
  <2>2. ~race' => ~race
    BY DEF Next, Script, ControlStation, SoldierStep, Insmod, LaunchStation, Kill, StationDies,
       StationReaped, Rmmod, LaunchSoldier, Sigaction, Deliver, WaitFails, WaitReaps, Open,
       Ioctl, DelPrev, DelNext, SetParent, Add, AddNext, ExitToStation, ExitToCorpse,
       ExitToOthers, Disturb, vars
  <2>3. ~race' => ListInv' /\ ParentInv' /\ ReapInv'
    BY <2>1, <2>2, StepListInv, StepParentInv, StepReapInv DEF IInv
  <2> QED
    BY <2>1, <2>3, StepNoOops DEF IInv
<1> QED
  BY <1>1, InitIInv, PTL DEF Spec

(* Every variable keeps to its range; no more activations of the handler    *)
(* run at once than there are soldiers, whatever is left in sa_flags and     *)
(* whatever becomes of the lists.                                           *)
THEOREM TypeCorrect == Spec => []TypeOK
<1>1. IInv => TypeOK
  <2> SUFFICES ASSUME IInv PROVE TypeOK
    OBVIOUS
  <2>1. Exited \in SUBSET Soldier
    BY DEF Exited
  <2>2. handlers \in 0 .. Cardinality(Soldier)
    BY <2>1, SoldierSets DEF IInv, Types, SignalInv
  <2> QED
    BY <2>2 DEF IInv, Types, TypeOK, Ptr
<1> QED
  BY <1>1, Invariant, PTL

(* The driver moves soldiers from list to list and leaves both whole, each  *)
(* soldier in the list of its parent, unless a list changes under its hands. *)
THEOREM ListsMatch == Spec => []ParentListsMatch
<1>1. IInv => ParentListsMatch
  <2> SUFFICES ASSUME IInv, ~race, Quiet PROVE ParentListsMatch
    BY DEF ParentListsMatch, Quiet
  <2>1. Whole /\ ParentInv /\ Types
    BY QuietWhole DEF IInv
  <2>2. Children("shell") = InShell /\ Children("station") = InStation
    BY <2>1 DEF Whole, Ring, Children, Head
  <2>3. \A p \in {"shell", "station"} : \A n \in Children(p) \cup {Head[p]} :
          next[n] # Poison /\ prev[next[n]] = n
    BY <2>1, <2>2, Apart, Nodes DEF Whole, Ring, Head, Heads
  <2>4. ASSUME NEW s \in Soldier, pc[s] \in {"open", "ioctl", "exit", "zombie"}
        PROVE  /\ s \in InShell <=> parent[s] = "shell"
               /\ control_station[s] = "alive" => (s \in InStation <=> parent[s] = "station")
    BY <2>1, <2>4, Nodes DEF InShell, InStation, ParentInv, Types
  <2> QED
    BY <2>2, <2>3, <2>4 DEF ParentListsMatch
<1> QED
  BY <1>1, Invariant, PTL

(* wait() in the handler always finds a soldier to reap, though signals     *)
(* coalesce and whatever RESETHAND and NODEFER are on the stack.            *)
THEOREM HandlerFinds == Spec => []HandlerFindsSoldier
<1>1. IInv => HandlerFindsSoldier
  <2> SUFFICES ASSUME IInv, ~race, ReapInv PROVE HandlerFindsSoldier
    BY DEF HandlerFindsSoldier, IInv
  <2>1. Children("station") = InStation
    BY DEF IInv, ListInv, Ring, Children, Head
  <2>2. ZombieIn("station") = Zombies
    BY <2>1 DEF ZombieIn, Zombies, InStation, IInv, ParentInv
  <2> QED
    BY <2>2 DEF HandlerFindsSoldier, ReapInv
<1> QED
  BY <1>1, Invariant, PTL

(* Only a control station that was dead or gone when the driver looked it   *)
(* up crashes the kernel, or a list that changed under the driver's hands.  *)
THEOREM OopsOnlyWithoutStation == Spec => []NoOops
<1>1. IInv => NoOops
  BY DEF IInv
<1> QED
  BY <1>1, Invariant, PTL
=============================================================================
