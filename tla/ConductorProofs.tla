--------------------------- MODULE ConductorProofs ---------------------------
(***************************************************************************)
(* Proofs about conductor.sh for any number of invocations, names and      *)
(* containers, overlapping in any way.  The scripts look a process up by   *)
(* its command line and use its PID several commands later; what keeps     *)
(* that safe is that a PID found for a name never comes to stand for       *)
(* another container.                                                      *)
(***************************************************************************)
EXTENDS Orchestrator, FiniteSetTheorems, TLAPS

Argument == Name \cup Image \cup NetOptions \cup {"-"}
Local == [pc : Pc, name : Argument, arg : Argument, pids : SUBSET Pid, num : Int]

(* An idle invocation has the shape of any other. *)
LEMMA IdleLocal == Idle \in Local
  BY DEF Idle, Local, Argument, Pc

Shape ==
  /\ inv \in [Proc -> Local]
  /\ session \in [Session -> [name : Argument, stage : Stage]]
  /\ link \in [Name -> [inside : Session \cup {-1, 0}, outAddr : Int, inAddr : Int]]
  /\ highest \in Int

(* The process of a container an invocation knows belongs to the container  *)
(* the invocation is about, as long as it lives.                            *)
PidsInv ==
  \A p \in Proc : \A pid \in inv[p].pids \ Proc :
    /\ SessionOf(pid) \in Session
    /\ session[SessionOf(pid)].stage # "none"
    /\ Alive(SessionOf(pid)) => session[SessionOf(pid)].name = inv[p].name

LinkInv ==
  \A n \in Name : link[n].inside \in Session =>
    Alive(link[n].inside) /\ session[link[n].inside].name = n

ConductorInv == Shape /\ PidsInv /\ LinkInv

-----------------------------------------------------------------------------
(* What a step may do to keep the invariant: learn no PID, rename no living *)
(* container and wake none from the dead, and leave links alone except to   *)
(* take them away.                                                          *)
NoNewPids ==
  \A p \in Proc : \A pid \in inv'[p].pids \ Proc :
    pid \in inv[p].pids /\ inv'[p].name = inv[p].name
SessionsAge ==
  \A k \in Session : session[k].stage # "none" =>
    /\ session'[k].stage # "none"
    /\ Alive(k)' => Alive(k) /\ session'[k].name = session[k].name
LinksStay ==
  \A n \in Name : link'[n].inside \in Session =>
    link[n].inside = link'[n].inside /\ Alive(link[n].inside)'

(* Such a step leaves every known PID a PID of the right container.         *)
LEMMA PidsKept ==
  ASSUME PidsInv, NoNewPids, SessionsAge
  PROVE  PidsInv'
  BY DEF PidsInv, NoNewPids, SessionsAge, Alive

(* It leaves every link leading where it led.                               *)
LEMMA LinksKept ==
  ASSUME LinkInv, LinksStay, SessionsAge, Shape
  PROVE  LinkInv'
<1> SUFFICES ASSUME NEW n \in Name, link'[n].inside \in Session
             PROVE  Alive(link[n].inside)' /\ session'[link'[n].inside].name = n
  BY DEF LinkInv
<1>1. link[n].inside = link'[n].inside /\ Alive(link[n].inside)'
  BY DEF LinksStay
<1>2. Alive(link[n].inside) /\ session[link[n].inside].name = n
  BY <1>1 DEF LinkInv
<1> QED
  BY <1>1, <1>2 DEF SessionsAge, Alive, Shape

(* Most commands only move their own invocation on. *)
MovesOn(p) ==
  \/ \E label \in Pc : Goto(p, label)
  \/ Exit(p)

(* Moving on gives no invocation a PID.                                     *)
LEMMA MovesOnShape ==
  ASSUME Shape, NEW p \in Proc, MovesOn(p)
  PROVE  inv' \in [Proc -> Local] /\ NoNewPids
<1>1. CASE Exit(p)
  <2>1. Idle \in Local /\ Idle.pids = {}
    BY IdleLocal DEF Idle
  <2> QED
    BY <1>1, <2>1 DEF Exit, Shape, NoNewPids
<1>2. ASSUME NEW label \in Pc, Goto(p, label)
      PROVE  inv' \in [Proc -> Local] /\ NoNewPids
  BY <1>2 DEF Goto, Shape, Local, NoNewPids
<1> QED
  BY <1>1, <1>2 DEF MovesOn

(* Containers that stay as they are do not come back to life.               *)
LEMMA SessionsSame ==
  ASSUME UNCHANGED session PROVE SessionsAge
  BY DEF SessionsAge, Alive

(* Links that stay as they are keep their containers.                       *)
LEMMA LinksSame ==
  ASSUME LinkInv, UNCHANGED <<session, link>> PROVE LinksStay
  BY DEF LinksStay, LinkInv, Alive

(* A command that touches neither containers nor links.                     *)
LEMMA QuietStep ==
  ASSUME ConductorInv, NEW p \in Proc, MovesOn(p), UNCHANGED <<session, link>>,
         highest' \in Int
  PROVE  ConductorInv'
<1>1. Shape'
  BY MovesOnShape DEF ConductorInv, Shape, Local
<1>2. NoNewPids
  BY MovesOnShape DEF ConductorInv
<1> QED
  BY <1>1, <1>2, SessionsSame, LinksSame, PidsKept, LinksKept DEF ConductorInv

(* ps finds the processes of the container that has the name. *)
LEMMA MatchingOwn ==
  ASSUME Shape, NEW n
  PROVE  /\ Matching(n) \subseteq Pid
         /\ \A pid \in Matching(n) \ Proc :
              /\ SessionOf(pid) \in Session
              /\ Alive(SessionOf(pid)) /\ session[SessionOf(pid)].name = n
<1>1. \A k \in Session : k \in Int /\ k > 0 /\ SessionOf(k) = k /\ SessionOf(-k) = k
  BY BoundsAssumption DEF Session, SessionOf
<1>2. Copying(n) \subseteq Proc
  BY DEF Copying
<1> QED
  BY <1>1, <1>2 DEF Matching, Pid

(* A command that only looks PIDs up, for whatever comes next.              *)
LEMMA Lookup ==
  ASSUME ConductorInv, NEW p \in Proc, NEW label \in Pc,
         inv' = [inv EXCEPT ![p].pids = Matching(inv[p].name), ![p].pc = label],
         UNCHANGED <<session, link, highest>>
  PROVE  ConductorInv'
<1>1. Matching(inv[p].name) \subseteq Pid
  BY MatchingOwn DEF ConductorInv
<1>2. Shape'
  BY <1>1 DEF ConductorInv, Shape, Local
<1>3. PidsInv'
  <2> SUFFICES ASSUME NEW q \in Proc, NEW pid \in inv'[q].pids \ Proc
               PROVE  /\ SessionOf(pid) \in Session
                      /\ session[SessionOf(pid)].stage # "none"
                      /\ Alive(SessionOf(pid)) => session[SessionOf(pid)].name = inv'[q].name
    BY DEF PidsInv, Alive
  <2>1. CASE q = p
    <3>1. inv'[p].pids = Matching(inv[p].name) /\ inv'[p].name = inv[p].name
      BY DEF ConductorInv, Shape, Local
    <3> QED
      BY <2>1, <3>1, MatchingOwn DEF ConductorInv, Alive
  <2>2. CASE q # p
    BY <2>2 DEF ConductorInv, PidsInv, Shape, Local
  <2> QED
    BY <2>1, <2>2
<1> QED
  BY <1>2, <1>3, SessionsSame, LinksSame, LinksKept DEF ConductorInv

-----------------------------------------------------------------------------
(* Before the first command there is neither a container nor a link.        *)
LEMMA InitConductorInv == Init => ConductorInv
<1> SUFFICES ASSUME Init PROVE ConductorInv
  OBVIOUS
<1> USE DEF Init, HostInit
<1>1. Idle \in Local
  BY IdleLocal
<1>2. [name |-> "-", stage |-> "none"] \in [name : Argument, stage : Stage]
  BY DEF Argument, Stage
<1>3. NoLink \in [inside : Session \cup {-1, 0}, outAddr : Int, inAddr : Int]
  BY DEF NoLink
<1>4. Shape
  BY <1>1, <1>2, <1>3 DEF Shape, None
<1>5. PidsInv
  BY DEF PidsInv, Idle
<1>6. NoLink.inside \notin Session
  BY BoundsAssumption DEF NoLink, Session
<1>7. LinkInv
  BY <1>6 DEF LinkInv
<1> QED
  BY <1>4, <1>5, <1>7 DEF ConductorInv

(* A user gives a command. *)
LEMMA StartKeeps ==
  ASSUME ConductorInv, NEW p \in Proc, Dispatch(p)
  PROVE  ConductorInv'
<1>1. PICK cmd \in Pc, name \in Argument, arg \in Argument : Start(p, cmd, name, arg)
  <2> DEFINE P(cmd, name, arg) == Start(p, cmd, name, arg)
  <2> HIDE DEF P
  <2>1. /\ {"build", "rmi", "run", "stop", "exec", "addnetwork", "peer"} \subseteq Pc
        /\ "-" \in Argument /\ Name \subseteq Argument
        /\ Image \subseteq Argument /\ NetOptions \subseteq Argument
    BY DEF Argument, Pc
  <2>2. \E cmd \in {"build", "rmi", "run", "stop", "exec", "addnetwork", "peer"} :
          \E name \in Name \cup Image, arg \in Argument : P(cmd, name, arg)
    BY <2>1 DEF Dispatch, P
  <2>3. \E cmd \in Pc, name \in Argument, arg \in Argument : P(cmd, name, arg)
    BY <2>1, <2>2
  <2> QED
    BY <2>3 DEF P
<1> DEFINE fresh == [Idle EXCEPT !.pc = cmd, !.name = name, !.arg = arg]
<1>2. inv' = [inv EXCEPT ![p] = fresh] /\ UNCHANGED <<session, netVars>>
  BY <1>1 DEF Start
<1>3. /\ fresh \in Local
      /\ fresh.pids = {}
  <2>1. Idle \in Local /\ Idle.pids = {}
    BY IdleLocal DEF Idle
  <2> QED
    BY <1>1, <2>1 DEF Local
<1> HIDE DEF fresh
<1>4. UNCHANGED <<session, link, highest>>
  BY <1>2 DEF netVars, linkVars
<1>5. Shape'
  BY <1>2, <1>3, <1>4 DEF ConductorInv, Shape, Local
<1>6. NoNewPids
  BY <1>2, <1>3 DEF NoNewPids, ConductorInv, Shape, Local
<1> QED
  BY <1>4, <1>5, <1>6, SessionsSame, LinksSame, PidsKept, LinksKept DEF ConductorInv

(* build and rmi concern images only. *)
LEMMA BuildKeeps ==
  ASSUME ConductorInv, NEW p \in Proc, Build(p) \/ RemoveImage(p)
  PROVE  ConductorInv'
<1>1. UNCHANGED <<session, link, highest>>
  BY DEF Build, BuildCheck, Debootstrap, Fetched, RemoveImage, netVars, linkVars
<1>2. MovesOn(p)
  BY DEF Build, BuildCheck, Debootstrap, Fetched, RemoveImage, Test, MovesOn, Pc
<1> QED
  BY <1>1, <1>2, QuietStep DEF ConductorInv, Shape, Local

(* exec goes from the PID of unshare to that of its child.                  *)
LEMMA ExecKeeps ==
  ASSUME ConductorInv, NEW p \in Proc, Exec(p)
  PROVE  ConductorInv'
<1>1. UNCHANGED <<session, link, highest>>
  BY DEF Exec, ExecCheck, ExecPs, ExecPgrep, NsEnter, netVars, linkVars
<1>2. CASE MovesOn(p)
  BY <1>1, <1>2, QuietStep DEF ConductorInv, Shape, Local
<1>3. CASE ExecPs(p)
  <2>1. CASE Exit(p)
    BY <1>2, <2>1 DEF MovesOn
  <2>2. CASE inv' = [inv EXCEPT ![p].pids = Matching(inv[p].name), ![p].pc = "exec_pgrep"]
    <3>1. "exec_pgrep" \in Pc
      BY DEF Pc
    <3> QED
      BY <1>1, <2>2, <3>1, Lookup
  <2> QED
    BY <1>3, <2>1, <2>2 DEF ExecPs
<1>4. CASE ExecPgrep(p)
  <2> DEFINE parents == {k \in inv[p].pids \cap Session : HasChild(k)}
             children == {-k : k \in parents}
  <2>1. CASE Exit(p)
    BY <1>2, <2>1 DEF MovesOn
  <2>2. CASE inv' = [inv EXCEPT ![p].pids = children, ![p].pc = "nsenter"]
    <3>1. "nsenter" \in Pc /\ children \subseteq Pid
      BY DEF Pc, Pid
    <3>2. Shape'
      <4> HIDE DEF children
      <4> QED
        BY <1>1, <2>2, <3>1 DEF ConductorInv, Shape, Local
    <3>3. \A k \in Session : k \in Int /\ k > 0 /\ SessionOf(k) = k /\ SessionOf(-k) = k
      BY BoundsAssumption DEF Session, SessionOf
    <3>4. \A pid \in children :
            /\ SessionOf(pid) \in Session /\ Alive(SessionOf(pid))
            /\ SessionOf(pid) \in inv[p].pids
      BY <3>3 DEF HasChild, Alive
    <3> HIDE DEF children
    <3>5. inv'[p].pids = children /\ inv'[p].name = inv[p].name
      BY <2>2 DEF ConductorInv, Shape, Local
    <3>6. \A q \in Proc \ {p} : inv'[q] = inv[q]
      BY <2>2 DEF ConductorInv, Shape, Local
    <3>7. PidsInv'
      <4> SUFFICES ASSUME NEW q \in Proc, NEW pid \in inv'[q].pids \ Proc
                   PROVE  /\ SessionOf(pid) \in Session
                          /\ session[SessionOf(pid)].stage # "none"
                          /\ Alive(SessionOf(pid)) => session[SessionOf(pid)].name = inv'[q].name
        BY <1>1 DEF PidsInv, Alive
      <4>1. CASE q # p
        BY <3>6, <4>1 DEF ConductorInv, PidsInv
      <4>2. CASE q = p
        <5>1. SessionOf(SessionOf(pid)) = SessionOf(pid) /\ SessionOf(pid) \notin Proc
          BY <3>3, <3>4, <3>5, <4>2, ProcAssumption
        <5> QED
          BY <3>4, <3>5, <4>2, <5>1 DEF ConductorInv, PidsInv, Alive
      <4> QED
        BY <4>1, <4>2
    <3> QED
      BY <1>1, <3>2, <3>7, SessionsSame, LinksSame, LinksKept DEF ConductorInv
  <2> QED
    BY <1>4, <2>1, <2>2 DEF ExecPgrep
<1>5. CASE ExecCheck(p) \/ NsEnter(p)
  BY <1>2, <1>5 DEF ExecCheck, NsEnter, Test, MovesOn, Pc
<1> QED
  BY <1>3, <1>4, <1>5 DEF Exec

-----------------------------------------------------------------------------
(* The steps that change sessions or links. *)
LEMMA AgingStep ==
  ASSUME ConductorInv, Shape', NoNewPids, SessionsAge, LinksStay
  PROVE  ConductorInv'
  BY PidsKept, LinksKept DEF ConductorInv

LinkRecord == [inside : Session \cup {-1, 0}, outAddr : Int, inAddr : Int]

(* run starts a container that did not exist, under its own name.           *)
LEMMA RunKeeps ==
  ASSUME ConductorInv, NEW p \in Proc, Run(p)
  PROVE  ConductorInv'
<1>1. CASE RunCheck(p) \/ RunMkdir(p) \/ RunCopy(p) \/ RunMount(p)
  <2>1. UNCHANGED <<session, link, highest>>
    BY <1>1 DEF RunCheck, RunMkdir, RunCopy, RunMount, netVars, linkVars
  <2>2. MovesOn(p)
    BY <1>1 DEF RunCheck, RunMkdir, RunCopy, RunMount, Test, MovesOn, Pc
  <2> QED
    BY <2>1, <2>2, QuietStep DEF ConductorInv, Shape
<1>2. ASSUME NEW k \in Session, RunUnshare(p, k) PROVE ConductorInv'
  <2>1. /\ MovesOn(p) /\ UNCHANGED <<link, highest>>
        /\ session[k].stage = "none"
        /\ session' = [session EXCEPT ![k] = [name |-> inv[p].name, stage |-> "unshare"]]
    BY <1>2 DEF RunUnshare, MovesOn, netVars, linkVars
  <2>2. inv[p].name \in Argument
    BY DEF ConductorInv, Shape, Local
  <2>3. Shape'
    BY <2>1, <2>2, MovesOnShape DEF ConductorInv, Shape, Stage
  <2>4. SessionsAge
    BY <2>1 DEF SessionsAge, Alive, ConductorInv, Shape
  <2>5. LinksStay
    BY <2>1 DEF LinksStay, LinkInv, Alive, ConductorInv, Shape
  <2> QED
    BY <2>1, <2>3, <2>4, <2>5, MovesOnShape, AgingStep DEF ConductorInv
<1> QED
  BY <1>1, <1>2 DEF Run

(* A container starts up, or ends and takes its link along.                 *)
LEMMA ContainerKeeps ==
  ASSUME ConductorInv, NEW k \in Session, StartUp(k) \/ SessionEnds(k)
  PROVE  ConductorInv'
<1>1. UNCHANGED <<inv, highest>>
  BY DEF StartUp, Fork, Chroot, SessionEnds, netVars, linkVars
<1>2. NoNewPids
  BY <1>1 DEF NoNewPids
<1>3. CASE StartUp(k)
  <2>1. PICK to \in {"forked", "init"} :
          /\ session[k].stage \in {"unshare", "forked"}
          /\ session' = [session EXCEPT ![k].stage = to]
    BY <1>3 DEF StartUp, Fork, Chroot, SetStage
  <2>2. UNCHANGED link
    BY <1>3 DEF StartUp, Fork, Chroot, netVars, linkVars
  <2>3. Shape'
    BY <1>1, <2>1, <2>2 DEF ConductorInv, Shape, Stage
  <2>4. SessionsAge
    BY <2>1 DEF SessionsAge, Alive, ConductorInv, Shape
  <2>5. LinksStay
    BY <2>1, <2>2 DEF LinksStay, LinkInv, Alive, ConductorInv, Shape
  <2> QED
    BY <1>2, <2>3, <2>4, <2>5, AgingStep
<1>4. CASE SessionEnds(k)
  <2>1. session' = [session EXCEPT ![k] = Dead] /\ link' = LinksWithout({k})
    BY <1>4 DEF SessionEnds
  <2>2. Dead \in [name : Argument, stage : Stage] /\ Dead.stage = "dead"
    BY DEF Dead, Argument, Stage
  <2>3. NoLink \in LinkRecord /\ NoLink.inside \notin Session
    BY BoundsAssumption DEF NoLink, LinkRecord, Session
  <2>4. link' \in [Name -> LinkRecord]
    BY <2>1, <2>3 DEF LinksWithout, ConductorInv, Shape, LinkRecord
  <2>5. Shape'
    BY <1>1, <2>1, <2>2, <2>4 DEF ConductorInv, Shape, LinkRecord
  <2>6. SessionsAge
    BY <2>1, <2>2 DEF SessionsAge, Alive, ConductorInv, Shape
  <2>7. LinksStay
    BY <2>1, <2>3 DEF LinksStay, LinksWithout, LinkInv, Alive, ConductorInv, Shape
  <2> QED
    BY <1>2, <2>5, <2>6, <2>7, AgingStep
<1> QED
  BY <1>3, <1>4

(* A step of an invocation that edits or removes links but connects none. *)
LEMMA LinkStep ==
  ASSUME ConductorInv, NEW p \in Proc, MovesOn(p), UNCHANGED <<session, highest>>,
         link' \in [Name -> LinkRecord],
         \A n \in Name : link'[n].inside = link[n].inside \/ link'[n].inside \notin Session
  PROVE  ConductorInv'
<1>1. Shape'
  BY MovesOnShape DEF ConductorInv, Shape, LinkRecord
<1>2. LinksStay
  BY DEF LinksStay, LinkInv, Alive, ConductorInv
<1> QED
  BY <1>1, <1>2, SessionsSame, MovesOnShape, AgingStep DEF ConductorInv

(* Neither an absent nor a new link leads into a container.                 *)
LEMMA NewLinks ==
  /\ NoLink \in LinkRecord /\ NoLink.inside \notin Session
  /\ NewLink \in LinkRecord /\ NewLink.inside \notin Session
<1>1. NoLink \in LinkRecord /\ NoLink.inside \notin Session
  BY BoundsAssumption DEF NoLink, LinkRecord, Session
<1>2. NewLink \in LinkRecord /\ NewLink.inside = 0
  BY <1>1 DEF NewLink, LinkRecord
<1> QED
  BY <1>1, <1>2, BoundsAssumption DEF Session

-----------------------------------------------------------------------------
(* What kill hits are containers of the name that is being stopped. *)
LEMMA StopKillKeeps ==
  ASSUME ConductorInv, NEW p \in Proc, StopKill(p)
  PROVE  ConductorInv'
<1> DEFINE hit == {pid \in inv[p].pids : PidAlive(pid)}
           killed == {SessionOf(pid) : pid \in hit \ Proc}
           next == IF inv[p].pids = {} \/ hit # {}
                     THEN [inv[p] EXCEPT !.pc = "stop_umount", !.pids = {}] ELSE Idle
<1>1. /\ inv' = [q \in Proc |-> IF q = p THEN next ELSE IF q \in hit THEN Idle ELSE inv[q]]
      /\ session' = [k \in Session |-> IF k \in killed THEN Dead ELSE session[k]]
      /\ link' = LinksWithout(killed)
      /\ UNCHANGED highest
  BY DEF StopKill
<1>2. Idle \in Local /\ Idle.pids = {}
  BY IdleLocal DEF Idle
<1>3. next \in Local /\ next.pids = {}
  <2>1. inv[p] \in Local /\ "stop_umount" \in Pc
    BY DEF ConductorInv, Shape, Pc
  <2> QED
    BY <1>2, <2>1 DEF Local
<1>4. Dead \in [name : Argument, stage : Stage] /\ Dead.stage = "dead"
  BY DEF Dead, Argument, Stage
<1> HIDE DEF hit, killed, next
<1>5. link' \in [Name -> LinkRecord]
  BY <1>1, NewLinks DEF LinksWithout, ConductorInv, Shape, LinkRecord
<1>6. Shape'
  BY <1>1, <1>2, <1>3, <1>4, <1>5 DEF ConductorInv, Shape, LinkRecord
<1>7. NoNewPids
  BY <1>1, <1>2, <1>3 DEF NoNewPids
<1>8. SessionsAge
  BY <1>1, <1>4 DEF SessionsAge, Alive
<1>9. LinksStay
  BY <1>1, NewLinks DEF LinksStay, LinksWithout, LinkInv, Alive, ConductorInv
<1> QED
  BY <1>6, <1>7, <1>8, <1>9, AgingStep

(* stop looks up, unlinks, kills, and clears what is left.                  *)
LEMMA StopKeeps ==
  ASSUME ConductorInv, NEW p \in Proc, Stop(p)
  PROVE  ConductorInv'
<1>1. CASE \/ StopCheck(p) \/ StopLink(p) \/ StopUmount(p) \/ StopRm(p) \/ StopLs(p)
           \/ StopForward(p) \/ StopNat(p)
  <2>1. UNCHANGED <<session, link, highest>>
    BY <1>1 DEF StopCheck, StopLink, StopUmount, StopRm, StopLs, StopForward, StopNat,
                netVars, linkVars
  <2>2. MovesOn(p)
    BY <1>1 DEF StopCheck, StopLink, StopUmount, StopRm, StopLs, StopForward, StopNat,
                Test, MovesOn, Pc
  <2> QED
    BY <2>1, <2>2, QuietStep DEF ConductorInv, Shape
<1>2. CASE StopPs(p)
  <2>1. "stop_link" \in Pc
    BY DEF Pc
  <2> QED
    BY <1>2, <2>1, Lookup DEF StopPs, netVars, linkVars
<1>3. CASE StopUnlink(p)
  <2>1. /\ UNCHANGED <<session, highest>>
        /\ link' = [link EXCEPT ![inv[p].name] = NoLink]
    BY <1>3 DEF StopUnlink
  <2>2. MovesOn(p)
    BY <1>3 DEF StopUnlink, Test, MovesOn, Pc
  <2>3. link' \in [Name -> LinkRecord]
    BY <2>1, NewLinks DEF ConductorInv, Shape, LinkRecord
  <2>4. \A n \in Name : link'[n].inside = link[n].inside \/ link'[n].inside \notin Session
    BY <2>1, NewLinks DEF ConductorInv, Shape
  <2> QED
    BY <2>1, <2>2, <2>3, <2>4, LinkStep
<1>4. CASE StopKill(p)
  BY <1>4, StopKillKeeps
<1>5. CASE StopRmNum(p)
  <2>1. /\ UNCHANGED <<session, link>> /\ highest' \in Int
        /\ inv' = [q \in Proc |->
              CASE q = p              -> [inv[p] EXCEPT !.pc = "stop_forward"]
                [] At(q, "num_write") -> [inv[q] EXCEPT !.pc = "link_add"]
                [] OTHER              -> inv[q]]
    BY <1>5 DEF StopRmNum, None, linkVars
  <2>2. \A q \in Proc : \E label \in Pc : inv'[q] = [inv[q] EXCEPT !.pc = label]
    <3> SUFFICES ASSUME NEW q \in Proc
                 PROVE  \E label \in Pc : inv'[q] = [inv[q] EXCEPT !.pc = label]
      OBVIOUS
    <3>1. /\ "stop_forward" \in Pc /\ "link_add" \in Pc
      BY DEF Pc
    <3>2. inv[q].pc \in Pc /\ inv[q] = [inv[q] EXCEPT !.pc = inv[q].pc]
      BY DEF ConductorInv, Shape, Local
    <3> QED
      BY <2>1, <3>1, <3>2
  <2>3. inv' \in [Proc -> Local]
    <3>1. ASSUME NEW q \in Proc PROVE inv'[q] \in Local
      <4>1. PICK label \in Pc : inv'[q] = [inv[q] EXCEPT !.pc = label]
        BY <2>2
      <4>2. inv[q] \in Local
        BY DEF ConductorInv, Shape
      <4> QED
        BY <4>1, <4>2 DEF Local
    <3> QED
      BY <2>1, <3>1
  <2>4. \A q \in Proc : inv'[q].pids = inv[q].pids /\ inv'[q].name = inv[q].name
    BY <2>2 DEF ConductorInv, Shape, Local
  <2>5. Shape'
    BY <2>1, <2>3 DEF ConductorInv, Shape
  <2>6. NoNewPids
    BY <2>4 DEF NoNewPids
  <2> QED
    BY <2>1, <2>5, <2>6, SessionsSame, LinksSame, AgingStep DEF ConductorInv
<1> QED
  BY <1>1, <1>2, <1>3, <1>4, <1>5 DEF Stop

(* The one step that connects a container: it goes by the network namespace *)
(* of a process that was looked up for the same name and still lives.       *)
LEMMA LinkMoveKeeps ==
  ASSUME ConductorInv, NEW p \in Proc, LinkMove(p)
  PROVE  ConductorInv'
<1> DEFINE n == inv[p].name
           ok == /\ link[n].inside = 0
                 /\ inv[p].pids # {} /\ \A pid \in inv[p].pids : PidAlive(pid)
           net == CHOOSE net \in {NetOf(pid) : pid \in inv[p].pids} : TRUE
<1>1. /\ UNCHANGED <<session, highest>>
      /\ link' = IF ok THEN [link EXCEPT ![n].inside = net] ELSE link
      /\ IF ok THEN inv' = [inv EXCEPT ![p].pids = {}, ![p].pc = "link_up"] ELSE Exit(p)
  BY DEF LinkMove
<1>2. CASE ~ok
  BY <1>1, <1>2, QuietStep DEF MovesOn, ConductorInv, Shape
<1>3. CASE ok
  <2>1. PICK pid \in inv[p].pids : net = NetOf(pid)
    BY <1>3
  <2>2. /\ net \in Session \cup {0}
        /\ net \in Session => Alive(net) /\ session[net].name = n
    <3>1. CASE pid \in Proc \/ ~HasChild(SessionOf(pid))
      <4>1. 0 \notin Session
        BY BoundsAssumption DEF Session
      <4> QED
        BY <2>1, <3>1, <4>1 DEF NetOf
    <3>2. CASE pid \notin Proc /\ HasChild(SessionOf(pid))
      <4>1. net = SessionOf(pid) /\ Alive(SessionOf(pid))
        BY <2>1, <3>2 DEF NetOf, HasChild, Alive
      <4> QED
        BY <3>2, <4>1 DEF ConductorInv, PidsInv
    <3> QED
      BY <3>1, <3>2
  <2> HIDE DEF ok, net
  <2>3. link' = [link EXCEPT ![n].inside = net]
    BY <1>1, <1>3
  <2>4. inv' = [inv EXCEPT ![p].pids = {}, ![p].pc = "link_up"]
    BY <1>1, <1>3
  <2>5. link' \in [Name -> LinkRecord]
    BY <2>2, <2>3 DEF ConductorInv, Shape, LinkRecord
  <2>6. inv' \in [Proc -> Local]
    <3>1. "link_up" \in Pc
      BY DEF Pc
    <3> QED
      BY <2>4, <3>1 DEF ConductorInv, Shape, Local
  <2>7. Shape'
    BY <1>1, <2>5, <2>6 DEF ConductorInv, Shape, LinkRecord
  <2>8. NoNewPids
    BY <2>4 DEF NoNewPids, ConductorInv, Shape, Local
  <2>9. LinkInv'
    <3> SUFFICES ASSUME NEW m \in Name, link'[m].inside \in Session
                 PROVE  Alive(link'[m].inside) /\ session[link'[m].inside].name = m
      BY <1>1 DEF LinkInv, Alive
    <3>1. CASE m = n
      <4>1. link'[m].inside = net
        BY <2>3, <3>1 DEF ConductorInv, Shape
      <4> QED
        BY <2>2, <3>1, <4>1
    <3>2. CASE m # n
      <4>1. link'[m] = link[m]
        BY <2>3, <3>2 DEF ConductorInv, Shape
      <4> QED
        BY <4>1 DEF ConductorInv, LinkInv
    <3> QED
      BY <3>1, <3>2
  <2> QED
    BY <1>1, <2>7, <2>8, <2>9, SessionsSame, PidsKept DEF ConductorInv
<1> QED
  BY <1>2, <1>3

-----------------------------------------------------------------------------
(* addnetwork: one lookup, one number, one link, and rules. *)
LEMMA AddNetworkKeeps ==
  ASSUME ConductorInv, NEW p \in Proc, AddNetwork(p)
  PROVE  ConductorInv'
<1>1. CASE NetDir(p) \/ NetLn(p) \/ LinkUp(p) \/ Internet(p) \/ Expose(p) \/ NetDone(p)
  <2>1. UNCHANGED <<session, link, highest>>
    BY <1>1 DEF NetDir, NetLn, LinkUp, Internet, Expose, NetDone, netVars, linkVars
  <2>2. MovesOn(p)
    BY <1>1 DEF NetDir, NetLn, LinkUp, Internet, Expose, NetDone, Test, MovesOn, Pc
  <2> QED
    BY <2>1, <2>2, QuietStep DEF ConductorInv, Shape
<1>2. CASE NumTruncate(p) \/ NumWrite(p)
  <2>1. UNCHANGED <<session, link>> /\ highest' \in Int
    BY <1>2 DEF NumTruncate, NumWrite, Truncated, linkVars, ConductorInv, Shape, Local
  <2>2. MovesOn(p)
    BY <1>2 DEF NumTruncate, NumWrite, MovesOn, Pc
  <2> QED
    BY <2>1, <2>2, QuietStep
<1>3. CASE NetPs(p)
  <2>1. "net_ln" \in Pc
    BY DEF Pc
  <2> QED
    BY <1>3, <2>1, Lookup DEF NetPs, netVars, linkVars
<1>4. CASE NumRead(p)
  <2>1. PICK num \in Int, label \in Pc :
          inv' = [inv EXCEPT ![p].num = num, ![p].pc = label]
    <3> DEFINE next == CASE highest = None -> 1
                         [] highest = Truncated -> 0
                         [] OTHER -> highest + 1
               to == IF highest = Truncated THEN "link_add" ELSE "num_truncate"
    <3>1. next \in Int /\ to \in Pc
      BY DEF ConductorInv, Shape, None, Truncated, Pc
    <3>2. inv' = [inv EXCEPT ![p].num = next, ![p].pc = to]
      BY <1>4 DEF NumRead
    <3> HIDE DEF next, to
    <3> QED
      BY <3>1, <3>2
  <2>2. UNCHANGED <<session, link, highest>>
    BY <1>4 DEF NumRead, netVars, linkVars
  <2>3. Shape'
    BY <2>1, <2>2 DEF ConductorInv, Shape, Local
  <2>4. NoNewPids
    BY <2>1 DEF NoNewPids, ConductorInv, Shape, Local
  <2> QED
    BY <2>2, <2>3, <2>4, SessionsSame, LinksSame, AgingStep DEF ConductorInv
<1>5. CASE LinkAdd(p) \/ AddrOut(p) \/ AddrIn(p)
  <2>1. UNCHANGED <<session, highest>>
    BY <1>5 DEF LinkAdd, AddrOut, AddrIn
  <2>2. MovesOn(p)
    BY <1>5 DEF LinkAdd, AddrOut, AddrIn, Test, MovesOn, Pc
  <2>3. inv[p].num \in Int
    BY DEF ConductorInv, Shape, Local
  <2>4. \/ link' = link
        \/ link' = [link EXCEPT ![inv[p].name] = NewLink]
        \/ link' = [link EXCEPT ![inv[p].name].outAddr = inv[p].num]
        \/ link' = [link EXCEPT ![inv[p].name].inAddr = inv[p].num]
    BY <1>5 DEF LinkAdd, AddrOut, AddrIn
  <2>5. link' \in [Name -> LinkRecord]
    BY <2>3, <2>4, NewLinks DEF ConductorInv, Shape, LinkRecord
  <2>6. \A n \in Name : link'[n].inside = link[n].inside \/ link'[n].inside \notin Session
    BY <2>4, NewLinks DEF ConductorInv, Shape
  <2> QED
    BY <2>1, <2>2, <2>5, <2>6, LinkStep
<1>6. CASE LinkMove(p)
  BY <1>6, LinkMoveKeeps
<1> QED
  BY <1>1, <1>2, <1>3, <1>4, <1>5, <1>6 DEF AddNetwork

(* peer only adds rules. *)
LEMMA PeerKeeps ==
  ASSUME ConductorInv, NEW p \in Proc, Peer(p)
  PROVE  ConductorInv'
  BY QuietStep DEF Peer, MovesOn, linkVars, ConductorInv, Shape

-----------------------------------------------------------------------------
(* Every command of every invocation, and every container that starts up    *)
(* or ends meanwhile, keeps the invariant.                                  *)
LEMMA StepConductorInv == ConductorInv /\ [Next]_vars => ConductorInv'
<1> SUFFICES ASSUME ConductorInv, [Next]_vars PROVE ConductorInv'
  OBVIOUS
<1>1. ASSUME NEW p \in Proc, Dispatch(p) PROVE ConductorInv'
  BY <1>1, StartKeeps
<1>2. ASSUME NEW p \in Proc, Invocation(p) PROVE ConductorInv'
  BY <1>2, BuildKeeps, RunKeeps, ExecKeeps, StopKeeps, AddNetworkKeeps, PeerKeeps
     DEF Invocation
<1>3. ASSUME NEW k \in Session, StartUp(k) \/ SessionEnds(k) PROVE ConductorInv'
  BY <1>3, ContainerKeeps
<1>4. CASE UNCHANGED vars
  <2>1. UNCHANGED <<inv, session, link, highest>>
    BY <1>4 DEF vars, netVars, linkVars
  <2>2. Shape' /\ NoNewPids
    BY <2>1 DEF ConductorInv, Shape, NoNewPids
  <2> QED
    BY <2>1, <2>2, SessionsSame, LinksSame, AgingStep DEF ConductorInv
<1> QED
  BY <1>1, <1>2, <1>3, <1>4 DEF Next

(* The inductive invariant of the script, for any number of invocations and *)
(* containers: whatever PIDs an invocation has read, those that still live  *)
(* belong to the container it is about.                                     *)
THEOREM ConductorInvariant == Spec => []ConductorInv
<1>1. Init => ConductorInv
  BY InitConductorInv
<1> QED
  BY <1>1, StepConductorInv, PTL DEF Spec

(* addnetwork never connects a container by another container's name, and   *)
(* no link outlives the container it leads into.                            *)
THEOREM LinksLeadHome == Spec => []LinkIntoOwnContainer
<1>1. ConductorInv => LinkIntoOwnContainer
  <2> SUFFICES ASSUME ConductorInv, NEW n \in Name, link[n].inside > 0
               PROVE  Alive(link[n].inside) /\ session[link[n].inside].name = n
    BY DEF LinkIntoOwnContainer
  <2>1. link[n].inside \in Session
    BY DEF ConductorInv, Shape
  <2> QED
    BY <2>1 DEF ConductorInv, LinkInv
<1> QED
  BY <1>1, ConductorInvariant, PTL

(* kill -9 in stop, which goes by PIDs read before, ends containers of the  *)
(* name that is being stopped and no other (conductor.sh:192-200).          *)
KillsOwnOnly ==
  [][\A p \in Proc : StopKill(p) =>
       \A k \in Session : Alive(k) /\ session'[k].stage = "dead"
                            => session[k].name = inv[p].name]_vars

(* It does so for any number of invocations, on the same name too.          *)
THEOREM StopKillsOwn == Spec => KillsOwnOnly
<1>1. ConductorInv /\ [Next]_vars =>
        [\A p \in Proc : StopKill(p) =>
           \A k \in Session : Alive(k) /\ session'[k].stage = "dead"
                                => session[k].name = inv[p].name]_vars
  <2> SUFFICES ASSUME ConductorInv, NEW p \in Proc, StopKill(p),
                      NEW k \in Session, Alive(k), session'[k].stage = "dead"
               PROVE  session[k].name = inv[p].name
    OBVIOUS
  <2>1. session'[k].stage # session[k].stage
    BY DEF Alive
  <2>2. PICK pid \in inv[p].pids \ Proc : k = SessionOf(pid)
    BY <2>1 DEF StopKill
  <2> QED
    BY <2>2 DEF ConductorInv, PidsInv
<1> QED
  BY <1>1, ConductorInvariant, PTL DEF Spec, KillsOwnOnly

-----------------------------------------------------------------------------
(***************************************************************************)
(* Invocations on different containers.  Containers start up and end       *)
(* whenever they like, and a command that finds one gone leaves its work   *)
(* half done; but as long as no two invocations work on one name, however  *)
(* they overlap, what one has made sure of stays true until it acts on it. *)
(***************************************************************************)
Named(p) ==
  inv[p].pc \notin {"idle", "build", "debootstrap", "fetching", "rmi"} => inv[p].name \in Name

(* Only a container with a directory lives or has an address: run has made  *)
(* the directory, addnetwork has found a process, and stop removes the      *)
(* directory when the link and all processes it knew of are gone.           *)
AliveListed == \A k \in Session : Alive(k) => session[k].name \in Listed
NumberedListed == \A n \in Name : link[n].outAddr # -1 => n \in Listed
Entering == {"run_unshare", "link_up", "addr_out"}
EntersListed(p) == inv[p].pc \in Entering => inv[p].name \in Listed
Killing == {"stop_link", "stop_unlink", "stop_kill"}
Emptying == {"stop_umount", "stop_rm", "stop_ls"}
Unlinked == {"stop_kill"} \cup Emptying
StopKnows(p) ==
  /\ inv[p].pc \in Killing =>
       \A k \in Session : Alive(k) /\ session[k].name = inv[p].name => k \in inv[p].pids
  /\ inv[p].pc \in Emptying =>
       \A k \in Session : Alive(k) => session[k].name # inv[p].name
  /\ inv[p].pc \in Unlinked => link[inv[p].name] = NoLink
  /\ inv[p].pc = "stop_ls" => dir[inv[p].name] = "absent" /\ mounts[inv[p].name] = 0

(* No PID is that of another invocation: cp runs on behalf of the same      *)
(* container only in the invocation itself.                                 *)
NoProcPids(p) == inv[p].pids \cap Proc = {}
Directories == dir \in [Name -> {"absent", "partial", "full"}]
Mounted == mounts \in [Name -> Nat]

DirInv(p) ==
  /\ Directories /\ Named(p)
  /\ AliveListed /\ NumberedListed /\ EntersListed(p) /\ StopKnows(p)

(* What a command leaves of its invocation. *)
LEMMA Moves ==
  ASSUME Shape, NEW p \in Proc
  PROVE  /\ \A label : Goto(p, label) =>
              /\ inv'[p].pc = label /\ inv'[p].name = inv[p].name
              /\ inv'[p].num = inv[p].num /\ inv'[p].pids = inv[p].pids
         /\ Exit(p) => inv'[p].pc = "idle"
  BY DEF Shape, Local, Goto, Exit, Idle

(* Links vanish with their containers or by a command. *)
LinksFade == \A n \in Name : link'[n] = link[n] \/ link'[n] = NoLink

(* Each command starts with its container's name.                           *)
LEMMA DispatchStarts ==
  ASSUME NEW p \in Proc, Shape, Dispatch(p)
  PROVE  /\ inv'[p].pc \in {"build", "rmi", "run", "stop", "exec", "addnetwork", "peer"}
         /\ Named(p)'
<1> DEFINE P(cmd, name, arg) == Start(p, cmd, name, arg)
<1>1. ASSUME NEW cmd, NEW name, NEW arg, P(cmd, name, arg)
      PROVE  inv'[p].pc = cmd /\ inv'[p].name = name
  BY <1>1 DEF Start, Shape, Idle
<1> HIDE DEF P
<1>2. \/ \E cmd \in {"build", "rmi"} : \E name, arg : P(cmd, name, arg)
      \/ \E cmd \in {"run", "stop", "exec", "addnetwork", "peer"} :
           \E name \in Name : \E arg : P(cmd, name, arg)
  <2>1. CASE \E i \in Image, cmd \in {"build", "rmi"} : P(cmd, i, "-")
    BY <2>1
  <2>2. ASSUME NEW n \in Name,
               \/ \E i \in Image : P("run", n, i)
               \/ \E cmd \in {"stop", "exec"} : P(cmd, n, "-")
               \/ \E opt \in NetOptions : P("addnetwork", n, opt)
               \/ \E b \in Name \ {n} : P("peer", n, b)
        PROVE  \E cmd \in {"run", "stop", "exec", "addnetwork", "peer"} :
                 \E name \in Name : \E arg : P(cmd, name, arg)
    BY <2>2
  <2> QED
    BY <2>1, <2>2 DEF Dispatch, P
<1> QED
  BY <1>1, <1>2 DEF Named

(* Steps that touch neither containers, addresses nor directories but to    *)
(* make one.                                                                *)
LEMMA DirQuiet ==
  ASSUME NEW p \in Proc, DirInv(p), UNCHANGED session,
         \A n \in Name : link'[n].outAddr \in {link[n].outAddr, -1},
         Directories', Listed \subseteq Listed',
         Named(p)', EntersListed(p)', StopKnows(p)'
  PROVE  DirInv(p)'
<1>1. AliveListed'
  BY DEF DirInv, AliveListed, Alive
<1>2. NumberedListed'
  BY DEF DirInv, NumberedListed
<1> QED
  BY <1>1, <1>2 DEF DirInv

(* The next command of an invocation is about the same container.           *)
LEMMA NamedKept ==
  ASSUME NEW p \in Proc, Named(p),
         \/ inv'[p].pc \in {"idle", "build", "debootstrap", "fetching", "rmi"}
         \/ /\ inv'[p].name = inv[p].name
            /\ inv[p].pc \notin {"idle", "build", "debootstrap", "fetching", "rmi"}
  PROVE  Named(p)'
  BY DEF Named

(* A step that leaves the directories as they are, too.                     *)
LEMMA DirBoring ==
  ASSUME NEW p \in Proc, DirInv(p), UNCHANGED <<session, dir>>,
         \A n \in Name : link'[n].outAddr = link[n].outAddr,
         Named(p)', inv'[p].pc \notin Entering \cup Killing \cup Emptying \cup Unlinked
  PROVE  DirInv(p)'
<1>1. EntersListed(p)' /\ StopKnows(p)'
  BY DEF EntersListed, StopKnows, Emptying
<1>2. Directories' /\ Listed \subseteq Listed'
  BY DEF DirInv, Directories, Listed
<1> QED
  BY <1>1, <1>2, DirQuiet

(* build, rmi, exec, peer, and the start of any command.                    *)
LEMMA DirBuildExec ==
  ASSUME NEW p \in Proc, Shape, DirInv(p),
         Dispatch(p) \/ Build(p) \/ RemoveImage(p) \/ Exec(p) \/ Peer(p)
  PROVE  DirInv(p)'
<1>1. UNCHANGED <<session, dir, link>>
  BY DEF Dispatch, Start, Build, BuildCheck, Debootstrap, Fetched, RemoveImage,
         Exec, ExecCheck, ExecPs, ExecPgrep, NsEnter, Peer, dirVars, netVars, linkVars
<1>2. CASE Dispatch(p)
  BY <1>1, <1>2, DispatchStarts, DirBoring DEF Entering, Killing, Emptying, Unlinked
<1>3. CASE Build(p) \/ RemoveImage(p) \/ Exec(p) \/ Peer(p)
  <2>1. \/ inv'[p].pc \in {"idle", "debootstrap", "fetching"}
        \/ /\ inv'[p].pc \in {"exec_ps", "exec_pgrep", "nsenter"}
           /\ inv'[p].name = inv[p].name
           /\ inv[p].pc \notin {"idle", "build", "debootstrap", "fetching", "rmi"}
    <3>1. CASE ExecPs(p) \/ ExecPgrep(p)
      BY <3>1, Moves DEF ExecPs, ExecPgrep, At, Shape, Local
    <3> QED
      BY <1>3, <3>1, Moves
      DEF At, Build, BuildCheck, Debootstrap, Fetched, RemoveImage, Exec, ExecCheck,
          NsEnter, Peer, Test
  <2>2. Named(p)'
    BY <2>1, NamedKept DEF DirInv
  <2> QED
    BY <1>1, <2>1, <2>2, DirBoring DEF Entering, Killing, Emptying, Unlinked
<1> QED
  BY <1>2, <1>3

(* run makes the directory before it starts the container.                  *)
LEMMA DirRun ==
  ASSUME NEW p \in Proc, Shape, DirInv(p), Run(p)
  PROVE  DirInv(p)'
<1> USE DEF At
<1> DEFINE n == inv[p].name
<1>1. n \in Name /\ inv[p].pc \in {"run", "run_mkdir", "run_copying", "run_mount", "run_unshare"}
  BY DEF DirInv, Named, Run, RunCheck, RunMkdir, RunCopy, RunMount, RunUnshare
<1>2. CASE RunCheck(p) \/ RunMkdir(p) \/ RunCopy(p) \/ RunMount(p)
  <2>1. UNCHANGED <<session, link>>
    BY <1>2 DEF RunCheck, RunMkdir, RunCopy, RunMount, netVars, linkVars
  <2>2. \/ dir' = dir
        \/ dir' = [dir EXCEPT ![n] = "partial"] \/ dir' = [dir EXCEPT ![n] = "full"]
    BY <1>1, <1>2 DEF RunCheck, RunMkdir, RunCopy, RunMount, dirVars, DirInv, Directories
  <2>3. Directories' /\ Listed \subseteq Listed'
    BY <1>1, <2>2 DEF DirInv, Directories, Listed
  <2>4. \/ inv'[p].pc = "idle"
        \/ inv'[p].pc \in {"run_mkdir", "run_copying", "run_mount"} /\ inv'[p].name = n
        \/ inv'[p].pc = "run_unshare" /\ inv'[p].name = n /\ n \in Listed
    BY <1>1, <1>2, Moves DEF RunCheck, RunMkdir, RunCopy, RunMount, Test, Listed
  <2>5. Named(p)'
    BY <1>1, <2>4, NamedKept DEF DirInv
  <2>6. EntersListed(p)' /\ StopKnows(p)'
    BY <2>3, <2>4 DEF EntersListed, StopKnows, Entering, Killing, Emptying, Unlinked
  <2> QED
    BY <2>1, <2>3, <2>5, <2>6, DirQuiet
<1>3. ASSUME NEW k \in Session, RunUnshare(p, k) PROVE DirInv(p)'
  <2>1. /\ UNCHANGED <<dir, link>> /\ inv'[p].pc = "idle" /\ inv[p].pc = "run_unshare"
        /\ session' = [session EXCEPT ![k] = [name |-> n, stage |-> "unshare"]]
    BY <1>3, Moves DEF RunUnshare, dirVars, netVars, linkVars
  <2>2. n \in Listed
    BY <2>1 DEF DirInv, EntersListed, Entering
  <2>3. AliveListed'
    BY <2>1, <2>2 DEF DirInv, AliveListed, Alive, Shape, Listed
  <2>4. NumberedListed' /\ Directories'
    BY <2>1 DEF DirInv, NumberedListed, Directories, Listed
  <2>5. Named(p)' /\ EntersListed(p)' /\ StopKnows(p)'
    BY <2>1 DEF Named, EntersListed, StopKnows, Entering, Killing, Emptying, Unlinked
  <2> QED
    BY <2>3, <2>4, <2>5 DEF DirInv
<1> QED
  BY <1>2, <1>3 DEF Run

(* addnetwork finds a process, so there is a directory.                     *)
LEMMA DirNetwork ==
  ASSUME NEW p \in Proc, NoProcPids(p), ConductorInv, DirInv(p), AddNetwork(p)
  PROVE  DirInv(p)'
<1> USE DEF At
<1> DEFINE n == inv[p].name
           quiet == {"net_ps", "net_ln", "num_read", "num_truncate", "num_write",
                     "link_add", "link_move", "addr_in", "internet", "expose", "net_done"}
<1>1. Shape /\ Named(p)
  BY DEF ConductorInv, DirInv
<1>2. /\ UNCHANGED <<session, dir>> /\ n \in Name
      /\ inv[p].pc \notin {"idle", "build", "debootstrap", "fetching", "rmi"}
  BY <1>1 DEF AddNetwork, NetDir, NetPs, NetLn, NumRead, NumTruncate, NumWrite, LinkAdd,
              LinkMove, LinkUp, AddrOut, AddrIn, Internet, Expose, NetDone, Named, dirVars
<1>3. Directories' /\ Listed' = Listed
  BY <1>2 DEF DirInv, Directories, Listed
<1>4. CASE \/ NetDir(p) \/ NetPs(p) \/ NetLn(p) \/ NumRead(p) \/ NumTruncate(p) \/ NumWrite(p)
           \/ LinkAdd(p) \/ AddrIn(p) \/ Internet(p) \/ Expose(p) \/ NetDone(p)
  <2>1. \A m \in Name : link'[m].outAddr = link[m].outAddr
    <3>1. CASE LinkAdd(p)
      BY <1>1, <3>1 DEF LinkAdd, Shape, NoLink, NewLink
    <3>2. CASE AddrIn(p)
      BY <1>1, <3>2 DEF AddrIn, Shape
    <3> QED
      BY <1>4, <3>1, <3>2 DEF NetDir, NetPs, NetLn, NumRead, NumTruncate, NumWrite,
                              Internet, Expose, NetDone, netVars, linkVars
  <2>2. inv'[p].pc = "idle" \/ (inv'[p].pc \in quiet /\ inv'[p].name = n)
    <3>1. CASE NetPs(p)
      BY <1>1, <3>1 DEF NetPs, Shape, Local
    <3>2. CASE NumRead(p)
      BY <1>1, <3>2 DEF NumRead, Shape, Local
    <3>3. CASE \E label \in quiet : Goto(p, label)
      BY <1>1, <3>3, Moves
    <3>4. CASE Exit(p)
      BY <1>1, <3>4, Moves
    <3> QED
      BY <1>4, <3>1, <3>2, <3>3, <3>4
      DEF NetDir, NetLn, NumTruncate, NumWrite, LinkAdd, AddrIn, Internet, Expose,
          NetDone, Test
  <2>3. Named(p)'
    BY <1>1, <1>2, <2>2, NamedKept
  <2> QED
    BY <1>2, <2>1, <2>2, <2>3, DirBoring DEF Entering, Killing, Emptying, Unlinked
<1>5. ASSUME \A m \in Name : link'[m].outAddr = link[m].outAddr,
             \/ inv'[p].pc = "idle"
             \/ inv'[p].pc \in {"link_up", "addr_out"} /\ inv'[p].name = n /\ n \in Listed
      PROVE  DirInv(p)'
  <2>1. Named(p)'
    BY <1>1, <1>2, <1>5, NamedKept
  <2>2. EntersListed(p)' /\ StopKnows(p)'
    BY <1>3, <1>5 DEF EntersListed, StopKnows, Killing, Emptying, Unlinked, Entering
  <2> QED
    BY <1>2, <1>3, <1>5, <2>1, <2>2, DirQuiet
<1>6. CASE LinkMove(p)
  <2>1. \A m \in Name : link'[m].outAddr = link[m].outAddr
    BY <1>1, <1>6 DEF LinkMove, Shape
  <2>2. \/ inv'[p].pc = "idle"
        \/ /\ inv'[p].pc = "link_up" /\ inv'[p].name = n
           /\ \E pid \in inv[p].pids : PidAlive(pid)
    BY <1>1, <1>6, Moves DEF LinkMove, Shape, Local
  <2>3. ASSUME NEW pid \in inv[p].pids, PidAlive(pid) PROVE n \in Listed
    <3>1. pid \notin Proc
      BY DEF NoProcPids
    <3>2. SessionOf(pid) \in Session /\ Alive(SessionOf(pid))
      BY <2>3, <3>1 DEF PidAlive, SessionOf, HasChild, Alive, ConductorInv, PidsInv
    <3> QED
      BY <3>1, <3>2 DEF ConductorInv, PidsInv, DirInv, AliveListed
  <2> QED
    BY <1>5, <2>1, <2>2, <2>3
<1>7. CASE LinkUp(p)
  <2>1. UNCHANGED link
    BY <1>7 DEF LinkUp, netVars, linkVars
  <2>2. n \in Listed
    BY <1>7 DEF LinkUp, DirInv, EntersListed, Entering
  <2> QED
    BY <1>1, <1>5, <1>7, <2>1, <2>2, Moves DEF LinkUp, Test
<1>8. CASE AddrOut(p)
  <2>1. n \in Listed
    BY <1>8 DEF AddrOut, DirInv, EntersListed, Entering
  <2>2. \A m \in Name \ {n} : link'[m] = link[m]
    BY <1>1, <1>8 DEF AddrOut, Shape
  <2>3. NumberedListed'
    BY <1>3, <2>1, <2>2 DEF DirInv, NumberedListed
  <2>4. inv'[p].pc = "idle" \/ (inv'[p].pc = "addr_in" /\ inv'[p].name = n)
    <3>1. Goto(p, "addr_in") \/ Exit(p)
      BY <1>8 DEF AddrOut, Test
    <3> QED
      BY <1>1, <3>1, Moves
  <2>5. Named(p)'
    BY <1>1, <1>2, <2>4, NamedKept
  <2>6. AliveListed' /\ EntersListed(p)' /\ StopKnows(p)'
    BY <1>2, <1>3, <2>4 DEF DirInv, AliveListed, Alive, EntersListed, StopKnows,
                            Killing, Emptying, Unlinked, Entering
  <2> QED
    BY <1>3, <2>3, <2>5, <2>6 DEF DirInv
<1> QED
  BY <1>4, <1>6, <1>7, <1>8 DEF AddNetwork

(* A container that goes its own way gets no new name and no address.       *)
LEMMA DirContainer ==
  ASSUME NEW p \in Proc, Shape, DirInv(p), NEW k \in Session, StartUp(k) \/ SessionEnds(k)
  PROVE  DirInv(p)' /\ LinksFade
<1>1. UNCHANGED <<inv, dir, mounts>>
  BY DEF StartUp, Fork, Chroot, SessionEnds, dirVars
<1>2. \A j \in Session : Alive(j)' => Alive(j) /\ session'[j].name = session[j].name
  <2>1. \/ \E to \in {"forked", "init"} :
             /\ session[k].stage \in {"unshare", "forked"}
             /\ session' = [session EXCEPT ![k].stage = to]
        \/ session' = [session EXCEPT ![k] = Dead]
    BY DEF StartUp, Fork, Chroot, SetStage, SessionEnds
  <2> QED
    BY <2>1 DEF Alive, Shape, Dead
<1>3. LinksFade
  BY DEF LinksFade, StartUp, Fork, Chroot, SessionEnds, LinksWithout, netVars, linkVars
<1>4. NoLink.outAddr = -1
  BY DEF NoLink
<1>5. AliveListed' /\ NumberedListed' /\ Directories'
  BY <1>1, <1>2, <1>3, <1>4
  DEF DirInv, AliveListed, NumberedListed, Directories, Listed, LinksFade
<1>6. Named(p)' /\ EntersListed(p)'
  BY <1>1 DEF DirInv, Named, EntersListed, Listed
<1>7. StopKnows(p)'
  <2>1. inv[p].pc \in Unlinked => inv[p].name \in Name
    BY DEF DirInv, Named, Unlinked, Emptying
  <2> QED
    BY <1>1, <1>2, <1>3, <2>1 DEF DirInv, StopKnows, LinksFade, Unlinked, Emptying
<1> QED
  BY <1>3, <1>5, <1>6, <1>7 DEF DirInv

(* stop removes a directory when its container and its address have gone:   *)
(* nobody else can have started or connected it since ps.                   *)
LEMMA DirStop ==
  ASSUME NEW p \in Proc, Shape, DirInv(p), Mounted, Stop(p)
  PROVE  DirInv(p)'
<1> USE DEF At
<1> DEFINE n == inv[p].name
           quiet == {"stop_ps", "stop_rmnum", "stop_forward", "stop_nat"}
<1>1. Named(p) /\ n \in Name
      /\ inv[p].pc \notin {"idle", "build", "debootstrap", "fetching", "rmi"}
  BY DEF DirInv, Named, Stop, StopCheck, StopPs, StopLink, StopUnlink, StopKill,
         StopUmount, StopRm, StopLs, StopRmNum, StopForward, StopNat
<1>2. NoLink.outAddr = -1
  BY DEF NoLink
<1>3. CASE \/ StopCheck(p) \/ StopLs(p) \/ StopRmNum(p) \/ StopForward(p) \/ StopNat(p)
  <2>1. UNCHANGED <<session, dir, link>>
    BY <1>3 DEF StopCheck, StopLs, StopRmNum, StopForward, StopNat, dirVars, netVars, linkVars
  <2>2. inv'[p].pc = "idle" \/ (inv'[p].pc \in quiet /\ inv'[p].name = n)
    <3>1. CASE StopRmNum(p)
      <4>1. inv'[p] = [inv[p] EXCEPT !.pc = "stop_forward"] /\ inv[p] \in Local
        BY <3>1 DEF StopRmNum, Shape
      <4> QED
        BY <4>1 DEF Local
    <3>2. CASE \E label \in quiet : Goto(p, label)
      BY <3>2, Moves
    <3>3. CASE Exit(p)
      BY <3>3, Moves
    <3> QED
      BY <1>3, <3>1, <3>2, <3>3 DEF StopCheck, StopLs, StopForward, StopNat, Test
  <2>3. Named(p)'
    BY <1>1, <2>2, NamedKept
  <2> QED
    BY <2>1, <2>2, <2>3, DirBoring DEF Entering, Killing, Emptying, Unlinked
<1>4. CASE \/ StopPs(p) \/ StopLink(p) \/ StopUnlink(p) \/ StopUmount(p)
  <2>1. UNCHANGED <<session, dir>>
    BY <1>4 DEF StopPs, StopLink, StopUnlink, StopUmount, dirVars
  <2>2. \A m \in Name : link'[m].outAddr \in {link[m].outAddr, -1}
    BY <1>2, <1>4 DEF StopPs, StopLink, StopUnlink, StopUmount, Shape, netVars, linkVars
  <2>3. Directories' /\ Listed' = Listed
    BY <2>1 DEF DirInv, Directories, Listed
  <2>4. \/ inv'[p].pc = "idle"
        \/ /\ inv'[p].pc \in {"stop_link", "stop_unlink", "stop_kill", "stop_rm"}
           /\ inv'[p].name = n
    <3>1. CASE StopPs(p)
      BY <3>1 DEF StopPs, Shape, Local
    <3> QED
      BY <1>4, <3>1, Moves DEF StopLink, StopUnlink, StopUmount, Test
  <2>5. Named(p)'
    BY <1>1, <2>4, NamedKept
  <2>6. EntersListed(p)'
    BY <2>4 DEF EntersListed, Entering
  <2>7. StopKnows(p)'
    <3>1. CASE StopPs(p)
      <4>1. /\ inv'[p].pc = "stop_link" /\ inv'[p].name = n /\ inv'[p].pids = Matching(n)
        BY <3>1 DEF StopPs, Shape, Local
      <4> QED
        BY <2>1, <4>1 DEF StopKnows, Matching, Alive, Emptying, Unlinked
    <3>2. CASE StopLink(p)
      <4>1. /\ inv[p].pc \in Killing /\ inv'[p].name = n /\ inv'[p].pids = inv[p].pids
            /\ inv'[p].pc \in {"stop_unlink", "stop_kill"} /\ UNCHANGED link
            /\ inv'[p].pc = "stop_kill" => link[n] = NoLink
        BY <3>2, Moves DEF StopLink, Killing, netVars, linkVars
      <4> QED
        BY <1>2, <2>1, <4>1 DEF DirInv, StopKnows, Alive, Killing, Emptying, Unlinked
    <3>3. CASE StopUnlink(p)
      <4>1. /\ inv[p].pc \in Killing /\ inv'[p].pc \in {"idle", "stop_kill"}
            /\ inv'[p].pc = "stop_kill" => inv'[p].name = n /\ inv'[p].pids = inv[p].pids
            /\ link'[n] = NoLink
        BY <1>1, <3>3, Moves DEF StopUnlink, Test, Killing, Shape
      <4> QED
        BY <1>2, <2>1, <4>1 DEF DirInv, StopKnows, Alive, Killing, Emptying, Unlinked
    <3>4. CASE StopUmount(p)
      <4>1. /\ inv[p].pc = "stop_umount" /\ inv'[p].pc = "stop_rm" /\ inv'[p].name = n
            /\ UNCHANGED link
        BY <3>4, Moves DEF StopUmount, netVars, linkVars
      <4> QED
        BY <2>1, <4>1 DEF DirInv, StopKnows, Alive, Killing, Emptying, Unlinked
    <3> QED
      BY <1>4, <3>1, <3>2, <3>3, <3>4
  <2> QED
    BY <2>1, <2>2, <2>3, <2>5, <2>6, <2>7, DirQuiet
<1>5. CASE StopKill(p)
  <2> DEFINE hit == {pid \in inv[p].pids : PidAlive(pid)}
             killed == {SessionOf(pid) : pid \in hit \ Proc}
  <2>1. /\ inv[p].pc = "stop_kill" /\ UNCHANGED dir
        /\ session' = [k \in Session |-> IF k \in killed THEN Dead ELSE session[k]]
        /\ link' = LinksWithout(killed)
        /\ \/ inv'[p] = [inv[p] EXCEPT !.pc = "stop_umount", !.pids = {}]
           \/ inv'[p] = Idle
    BY <1>5 DEF StopKill, dirVars
  <2>2. \/ inv'[p].pc = "stop_umount" /\ inv'[p].name = n
        \/ inv'[p].pc = "idle"
    <3>1. inv[p] \in Local /\ Idle.pc = "idle"
      BY DEF Shape, Idle
    <3> QED
      BY <2>1, <3>1 DEF Local
  <2>3. \A k \in Session : Alive(k) /\ session[k].name = n => k \in killed
    <3> SUFFICES ASSUME NEW k \in Session, Alive(k), session[k].name = n
                 PROVE  k \in killed
      OBVIOUS
    <3>1. k \in Int /\ k > 0 /\ SessionOf(k) = k /\ k \notin Proc
      BY BoundsAssumption, ProcAssumption DEF Session, SessionOf
    <3>2. k \in inv[p].pids
      BY <2>1 DEF DirInv, StopKnows, Killing
    <3>3. PidAlive(k)
      BY <3>1 DEF PidAlive
    <3> QED
      BY <3>1, <3>2, <3>3
  <2> HIDE DEF hit, killed
  <2>4. \A k \in Session : Alive(k)' => Alive(k) /\ session'[k] = session[k] /\ k \notin killed
    BY <2>1 DEF Alive, Dead
  <2>5. AliveListed' /\ Directories'
    BY <2>1, <2>4 DEF DirInv, AliveListed, Directories, Listed
  <2>6. NumberedListed'
    BY <1>2, <2>1 DEF DirInv, NumberedListed, LinksWithout, Listed
  <2>7. Named(p)' /\ EntersListed(p)'
    BY <1>1, <2>2 DEF Named, EntersListed, Entering
  <2>8. StopKnows(p)'
    <3>1. link'[n] = NoLink
      BY <1>1, <2>1 DEF DirInv, StopKnows, Unlinked, LinksWithout
    <3> QED
      BY <2>2, <2>3, <2>4, <3>1 DEF StopKnows, Killing, Emptying, Unlinked
  <2> QED
    BY <2>5, <2>6, <2>7, <2>8 DEF DirInv
<1>6. CASE StopRm(p)
  <2>1. /\ inv[p].pc = "stop_rm" /\ UNCHANGED <<session, link, mounts>>
        /\ dir' = [dir EXCEPT ![n] = IF mounts[n] > 0 THEN "partial" ELSE "absent"]
    BY <1>6 DEF StopRm, netVars, linkVars
  <2>2. \/ inv'[p].pc = "idle"
        \/ inv'[p].pc = "stop_ls" /\ inv'[p].name = n /\ ~(mounts[n] > 0)
    BY <1>6, Moves DEF StopRm, Test
  <2>3. Directories' /\ Listed \ {n} \subseteq Listed'
    BY <1>1, <2>1 DEF DirInv, Directories, Listed
  <2>4. /\ link[n] = NoLink /\ link[n].outAddr = -1
        /\ \A k \in Session : Alive(k) => session[k].name # n
    BY <1>2, <2>1 DEF DirInv, StopKnows, Emptying, Unlinked
  <2>5. AliveListed' /\ NumberedListed'
    BY <2>1, <2>3, <2>4 DEF DirInv, AliveListed, NumberedListed, Alive
  <2>6. Named(p)' /\ EntersListed(p)'
    BY <1>1, <2>2 DEF Named, EntersListed, Entering
  <2>7. StopKnows(p)'
    <3>1. inv'[p].pc = "stop_ls" => dir'[n] = "absent" /\ mounts'[n] = 0
      BY <1>1, <2>1, <2>2 DEF DirInv, Directories, Mounted
    <3> QED
      BY <2>1, <2>2, <2>4, <3>1 DEF StopKnows, Alive, Killing, Emptying, Unlinked
  <2> QED
    BY <2>3, <2>5, <2>6, <2>7 DEF DirInv
<1> QED
  BY <1>3, <1>4, <1>5, <1>6 DEF Stop

-----------------------------------------------------------------------------
(* No two invocations overlap on one name, or there is only one. *)
Apart == ~Overlap \/ \A p, q \in Proc : p = q

(* No name is that of two invocations, of which one is under way. *)
Separate ==
  /\ \A p, q \in Proc : p # q /\ inv[p].pc # "idle" => inv[p].name # inv[q].name
  /\ ~Overlap => \A p \in Proc : inv[p].pc = "idle" <=> inv[p].name = "-"

(* What becomes of the other invocations: a get_next_num is let go on when
   .HIGHEST_NUM is removed under it. *)
Bystander(q) ==
  /\ inv'[q].name = inv[q].name /\ inv'[q].pids = inv[q].pids
  /\ \/ inv'[q].pc = inv[q].pc
     \/ inv[q].pc = "num_write" /\ inv'[q].pc = "link_add"

(* A command is given on a name that nobody is working on. *)
LEMMA DispatchOthers ==
  ASSUME Shape, NEW p \in Proc, Dispatch(p)
  PROVE  /\ inv[p].pc = "idle" /\ inv'[p].pc # "idle" /\ inv'[p].pids = {}
         /\ ~Overlap => \A q \in Proc : inv[q].name # inv'[p].name
         /\ \A q \in Proc \ {p} : inv'[q] = inv[q]
<1> DEFINE P(cmd, name, arg) == Start(p, cmd, name, arg)
<1>1. ASSUME NEW cmd, NEW name, NEW arg, P(cmd, name, arg)
      PROVE  /\ inv[p].pc = "idle" /\ inv'[p].pids = {} /\ inv'[p].name = name
             /\ ~Overlap => \A q \in Proc : inv[q].name # name
             /\ \A q \in Proc \ {p} : inv'[q] = inv[q]
  BY <1>1 DEF Start, Shape, Idle, At
<1> HIDE DEF P
<1>2. \E cmd, name, arg : P(cmd, name, arg)
  BY DEF Dispatch, P
<1>3. inv'[p].pc # "idle"
  BY DispatchStarts
<1> QED
  BY <1>1, <1>2, <1>3

(* No command of an invocation does anything else to another invocation. *)
LEMMA Bystanders ==
  ASSUME Shape, NEW p \in Proc, NoProcPids(p), Dispatch(p) \/ Invocation(p)
  PROVE  \A q \in Proc \ {p} : Bystander(q)
<1>1. CASE \A q \in Proc \ {p} : inv'[q] = inv[q]
  BY <1>1 DEF Bystander
<1>2. CASE Dispatch(p)
  BY <1>1, <1>2, DispatchOthers
<1>3. CASE Goto(p, inv'[p].pc) \/ Exit(p)
  BY <1>1, <1>3 DEF Goto, Exit, Shape
<1>4. CASE Build(p) \/ RemoveImage(p) \/ Run(p) \/ Peer(p)
  BY <1>1, <1>4
  DEF Build, BuildCheck, Debootstrap, Fetched, RemoveImage,
      Run, RunCheck, RunMkdir, RunCopy, RunMount, RunUnshare, Peer, Test, Goto, Exit, Shape
<1>5. CASE Exec(p)
  BY <1>1, <1>5 DEF Exec, ExecCheck, ExecPs, ExecPgrep, NsEnter, Test, Goto, Exit, Shape
<1>6. CASE AddNetwork(p)
  <2>1. CASE LinkMove(p) \/ NumRead(p) \/ NetPs(p)
    BY <1>1, <2>1 DEF LinkMove, NumRead, NetPs, Exit, Shape
  <2>2. CASE \/ NetDir(p) \/ NetLn(p) \/ NumTruncate(p) \/ NumWrite(p) \/ LinkAdd(p)
             \/ LinkUp(p) \/ AddrOut(p) \/ AddrIn(p) \/ Internet(p) \/ Expose(p) \/ NetDone(p)
    BY <1>1, <2>2 DEF NetDir, NetLn, NumTruncate, NumWrite, LinkAdd, LinkUp, AddrOut, AddrIn,
                      Internet, Expose, NetDone, Test, Goto, Exit, Shape
  <2> QED
    BY <1>6, <2>1, <2>2 DEF AddNetwork
<1>7. CASE Stop(p)
  <2>1. CASE StopKill(p)
    <3> DEFINE hit == {pid \in inv[p].pids : PidAlive(pid)}
    <3>1. \A q \in Proc \ {p} : inv'[q] = IF q \in hit THEN Idle ELSE inv[q]
      BY <2>1 DEF StopKill
    <3>2. \A q \in Proc : q \notin hit
      BY DEF NoProcPids
    <3> QED
      BY <1>1, <3>1, <3>2
  <2>2. CASE StopRmNum(p)
    <3>1. \A q \in Proc \ {p} :
            inv'[q] = IF At(q, "num_write") THEN [inv[q] EXCEPT !.pc = "link_add"] ELSE inv[q]
      BY <2>2 DEF StopRmNum
    <3>2. \A q \in Proc : inv[q] \in Local
      BY DEF Shape
    <3> QED
      BY <3>1, <3>2 DEF Bystander, Local, At
  <2>3. CASE \/ StopCheck(p) \/ StopPs(p) \/ StopLink(p) \/ StopUnlink(p)
             \/ StopUmount(p) \/ StopRm(p) \/ StopLs(p) \/ StopForward(p) \/ StopNat(p)
    BY <1>1, <2>3 DEF StopCheck, StopPs, StopLink, StopUnlink, StopUmount, StopRm, StopLs,
                      StopForward, StopNat, Test, Goto, Exit, Shape
  <2> QED
    BY <1>7, <2>1, <2>2, <2>3 DEF Stop
<1> QED
  BY <1>2, <1>4, <1>5, <1>6, <1>7 DEF Invocation

(* A command keeps its invocation's name, or ends it. *)
OwnMove(p) ==
  \/ inv'[p].pc = "idle" /\ inv'[p].name = "-" /\ inv'[p].pids = {}
  \/ /\ inv[p].pc # "idle" /\ inv'[p].pc # "idle" /\ inv'[p].name = inv[p].name
     /\ inv'[p].pids \cap Proc \subseteq inv[p].pids \cup Copying(inv[p].name)

(* Most commands move on or end. *)
LEMMA GotoOwn ==
  ASSUME Shape, NEW p \in Proc,
         Exit(p) \/ \E label \in Pc \ {"idle"} : Goto(p, label) /\ inv[p].pc # "idle"
  PROVE  OwnMove(p)
  BY DEF Shape, Local, Goto, Exit, Idle, OwnMove

(* The processes of containers are no invocations. *)
LEMMA ChildrenNoProc ==
  ASSUME NEW n
  PROVE  /\ Matching(n) \cap Proc \subseteq Copying(n)
         /\ Session \cap Proc = {} /\ \A k \in Session : -k \notin Proc
  BY ProcAssumption, BoundsAssumption DEF Matching, Session

(* So do the others, learning at most PIDs of their own container. *)
LEMMA InvocationMoves ==
  ASSUME Shape, NEW p \in Proc, Invocation(p)
  PROVE  OwnMove(p)
<1> USE DEF At
<1>1. CASE Build(p) \/ RemoveImage(p) \/ Run(p) \/ Peer(p)
  BY <1>1, GotoOwn
  DEF Build, BuildCheck, Debootstrap, Fetched, RemoveImage,
      Run, RunCheck, RunMkdir, RunCopy, RunMount, RunUnshare, Peer, Test, Pc
<1>2. CASE ExecCheck(p) \/ NsEnter(p)
  BY <1>2, GotoOwn DEF ExecCheck, NsEnter, Test, Pc
<1>3. CASE \/ NetDir(p) \/ NetLn(p) \/ NumTruncate(p) \/ NumWrite(p) \/ LinkAdd(p)
           \/ LinkUp(p) \/ AddrOut(p) \/ AddrIn(p) \/ Internet(p) \/ Expose(p) \/ NetDone(p)
  BY <1>3, GotoOwn DEF NetDir, NetLn, NumTruncate, NumWrite, LinkAdd, LinkUp, AddrOut, AddrIn,
                       Internet, Expose, NetDone, Test, Pc
<1>4. CASE \/ StopCheck(p) \/ StopLink(p) \/ StopUnlink(p)
           \/ StopUmount(p) \/ StopRm(p) \/ StopLs(p) \/ StopForward(p) \/ StopNat(p)
  BY <1>4, GotoOwn DEF StopCheck, StopLink, StopUnlink, StopUmount, StopRm, StopLs,
                       StopForward, StopNat, Test, Pc
<1>5. CASE Exit(p)
  BY <1>5, GotoOwn
<1>6. CASE ~Exit(p) /\ (ExecPs(p) \/ StopPs(p) \/ NetPs(p))
  <2>1. PICK label \in {"exec_pgrep", "stop_link", "net_ln"} :
          inv' = [inv EXCEPT ![p].pids = Matching(inv[p].name), ![p].pc = label]
    BY <1>6 DEF ExecPs, StopPs, NetPs
  <2>2. inv[p].pc # "idle"
    BY <1>6 DEF ExecPs, StopPs, NetPs
  <2>3. /\ inv'[p].pc = label /\ inv'[p].name = inv[p].name
        /\ inv'[p].pids = Matching(inv[p].name)
    BY <2>1 DEF Shape, Local
  <2> QED
    BY <2>2, <2>3, ChildrenNoProc DEF OwnMove
<1>7. CASE ~Exit(p) /\ ExecPgrep(p)
  <2> DEFINE children == {-k : k \in {k \in inv[p].pids \cap Session : HasChild(k)}}
  <2>1. inv' = [inv EXCEPT ![p].pids = children, ![p].pc = "nsenter"] /\ inv[p].pc # "idle"
    BY <1>7 DEF ExecPgrep
  <2>2. children \cap Proc = {}
    BY ChildrenNoProc
  <2> HIDE DEF children
  <2>3. inv'[p].pc = "nsenter" /\ inv'[p].name = inv[p].name /\ inv'[p].pids = children
    BY <2>1 DEF Shape, Local
  <2> QED
    BY <2>1, <2>2, <2>3 DEF OwnMove
<1>8. CASE NumRead(p)
  BY <1>8 DEF NumRead, Shape, Local, OwnMove
<1>9. CASE ~Exit(p) /\ LinkMove(p)
  <2>1. inv' = [inv EXCEPT ![p].pids = {}, ![p].pc = "link_up"] /\ inv[p].pc # "idle"
    BY <1>9 DEF LinkMove
  <2> QED
    BY <2>1 DEF Shape, Local, OwnMove
<1>10. CASE StopKill(p)
  <2>1. \/ inv'[p] = [inv[p] EXCEPT !.pc = "stop_umount", !.pids = {}]
        \/ inv'[p] = Idle
    BY <1>10 DEF StopKill
  <2>2. inv[p] \in Local
    BY DEF Shape
  <2>3. inv[p].pc = "stop_kill"
    BY <1>10 DEF StopKill
  <2>4. CASE inv'[p] = Idle
    BY <2>4 DEF Idle, OwnMove
  <2>5. CASE inv'[p] = [inv[p] EXCEPT !.pc = "stop_umount", !.pids = {}]
    <3>1. /\ inv'[p].pc = "stop_umount" /\ inv'[p].name = inv[p].name
          /\ inv'[p].pids = {}
      BY <2>2, <2>5 DEF Local
    <3> QED
      BY <2>3, <3>1 DEF OwnMove
  <2> QED
    BY <2>1, <2>4, <2>5
<1>11. CASE StopRmNum(p)
  <2>1. inv'[p] = [inv[p] EXCEPT !.pc = "stop_forward"]
    BY <1>11 DEF StopRmNum
  <2>2. inv[p] \in Local /\ inv[p].pc # "idle"
    BY <1>11 DEF StopRmNum, Shape
  <2> QED
    BY <2>1, <2>2 DEF Local, OwnMove
<1> QED
  BY <1>1, <1>2, <1>3, <1>4, <1>5, <1>6, <1>7, <1>8, <1>9, <1>10, <1>11
  DEF Invocation, Exec, AddNetwork, Stop

-----------------------------------------------------------------------------
(* A command changes directories, mounts, links and containers of its own
   invocation's name only; others it may at most end. *)
Leaves(n) ==
  /\ dir'[n] = dir[n] /\ mounts'[n] = mounts[n]
  /\ link'[n] \in {link[n], NoLink}
  /\ \A k \in Session : Alive(k)' /\ session'[k].name = n => Alive(k) /\ session[k].name = n

(* A command that changes none of them leaves all alone. *)
LEMMA LeavesSame ==
  ASSUME NEW n, UNCHANGED <<dir, mounts, link, session>>
  PROVE  Leaves(n)
  BY DEF Leaves, Alive

(* addnetwork changes links, of its own name. *)
LEMMA NetworkLeaves ==
  ASSUME Shape, NEW p \in Proc, AddNetwork(p), NEW n \in Name, n # inv[p].name
  PROVE  Leaves(n)
<1>1. UNCHANGED <<dir, mounts, session>> /\ link'[n] = link[n]
  <2>1. CASE LinkAdd(p) \/ LinkMove(p) \/ AddrOut(p) \/ AddrIn(p)
    <3>1. UNCHANGED <<dir, mounts, session>>
      BY <2>1 DEF LinkAdd, LinkMove, AddrOut, AddrIn, dirVars
    <3>2. link'[n] = link[n]
      BY <2>1 DEF LinkAdd, LinkMove, AddrOut, AddrIn, Shape
    <3> QED
      BY <3>1, <3>2
  <2>2. CASE \/ NetDir(p) \/ NetPs(p) \/ NetLn(p) \/ NumRead(p) \/ NumTruncate(p) \/ NumWrite(p)
             \/ LinkUp(p) \/ Internet(p) \/ Expose(p) \/ NetDone(p)
    BY <2>2 DEF NetDir, NetPs, NetLn, NumRead, NumTruncate, NumWrite, LinkUp, Internet, Expose,
                NetDone, dirVars, netVars, linkVars
  <2> QED
    BY <2>1, <2>2 DEF AddNetwork
<1> QED
  BY <1>1 DEF Leaves, Alive

(* stop changes whatever has its name, and kills what it knows. *)
LEMMA StopLeaves ==
  ASSUME Shape, Directories, Mounted, NEW p \in Proc, Stop(p), NEW n \in Name, n # inv[p].name
  PROVE  Leaves(n)
<1>1. CASE \/ StopCheck(p) \/ StopPs(p) \/ StopLink(p) \/ StopLs(p) \/ StopRmNum(p)
           \/ StopForward(p) \/ StopNat(p)
  BY <1>1, LeavesSame DEF StopCheck, StopPs, StopLink, StopLs, StopRmNum, StopForward, StopNat,
                          dirVars, netVars, linkVars
<1>2. CASE StopUnlink(p)
  <2>1. UNCHANGED <<dir, mounts, session>> /\ link'[n] = link[n]
    BY <1>2 DEF StopUnlink, Shape, dirVars
  <2> QED
    BY <2>1 DEF Leaves, Alive
<1>3. CASE StopKill(p)
  <2> DEFINE killed == {SessionOf(pid) : pid \in {pid \in inv[p].pids : PidAlive(pid)} \ Proc}
  <2>1. /\ UNCHANGED <<dir, mounts>>
        /\ session' = [k \in Session |-> IF k \in killed THEN Dead ELSE session[k]]
        /\ link' = LinksWithout(killed)
    BY <1>3 DEF StopKill, dirVars
  <2> HIDE DEF killed
  <2>2. link'[n] \in {link[n], NoLink}
    BY <2>1 DEF LinksWithout
  <2>3. \A k \in Session : Alive(k)' => Alive(k) /\ session'[k] = session[k]
    BY <2>1 DEF Alive, Dead
  <2> QED
    BY <2>1, <2>2, <2>3 DEF Leaves
<1>4. CASE StopUmount(p) \/ StopRm(p)
  <2>1. UNCHANGED <<link, session>> /\ dir'[n] = dir[n] /\ mounts'[n] = mounts[n]
    BY <1>4 DEF StopUmount, StopRm, Directories, Mounted, netVars, linkVars
  <2> QED
    BY <2>1 DEF Leaves, Alive
<1> QED
  BY <1>1, <1>2, <1>3, <1>4 DEF Stop

(* run makes a directory, a mount and a container. *)
LEMMA RunLeaves ==
  ASSUME Shape, Directories, Mounted, NEW p \in Proc, Run(p), NEW n \in Name, n # inv[p].name
  PROVE  Leaves(n)
<1>1. CASE RunCheck(p) \/ RunMkdir(p) \/ RunCopy(p) \/ RunMount(p)
  <2>1. UNCHANGED <<link, session>> /\ dir'[n] = dir[n] /\ mounts'[n] = mounts[n]
    BY <1>1 DEF RunCheck, RunMkdir, RunCopy, RunMount, Directories, Mounted,
                dirVars, netVars, linkVars
  <2> QED
    BY <2>1 DEF Leaves, Alive
<1>2. ASSUME NEW k \in Session, RunUnshare(p, k) PROVE Leaves(n)
  <2>1. /\ UNCHANGED <<dir, mounts, link>>
        /\ session' = [session EXCEPT ![k] = [name |-> inv[p].name, stage |-> "unshare"]]
    BY <1>2 DEF RunUnshare, dirVars, netVars, linkVars
  <2> QED
    BY <2>1 DEF Leaves, Alive, Shape
<1> QED
  BY <1>1, <1>2 DEF Run

(* Hence every command keeps to its own name. *)
LEMMA InvocationLeaves ==
  ASSUME Shape, Directories, Mounted, NEW p \in Proc, Dispatch(p) \/ Invocation(p),
         NEW n \in Name, n # inv[p].name \/ inv[p].pc = "idle"
  PROVE  Leaves(n)
<1>1. CASE Dispatch(p) \/ Build(p) \/ RemoveImage(p) \/ Exec(p) \/ Peer(p)
  BY <1>1, LeavesSame
  DEF Dispatch, Start, Build, BuildCheck, Debootstrap, Fetched, RemoveImage,
      Exec, ExecCheck, ExecPs, ExecPgrep, NsEnter, Peer, dirVars, netVars, linkVars
<1>2. Invocation(p) => inv[p].pc # "idle"
  BY DEF At, Invocation, Build, BuildCheck, Debootstrap, Fetched, RemoveImage,
         Exec, ExecCheck, ExecPs, ExecPgrep, NsEnter, Peer,
         Run, RunCheck, RunMkdir, RunCopy, RunMount, RunUnshare,
         AddNetwork, NetDir, NetPs, NetLn, NumRead, NumTruncate, NumWrite, LinkAdd,
         LinkMove, LinkUp, AddrOut, AddrIn, Internet, Expose, NetDone,
         Stop, StopCheck, StopPs, StopLink, StopUnlink, StopKill,
         StopUmount, StopRm, StopLs, StopRmNum, StopForward, StopNat
<1> QED
  BY <1>1, <1>2, RunLeaves, StopLeaves, NetworkLeaves DEF Invocation

(* Without a mount left, rm -rf stays in its directory. *)
Unmounted == {"run_mkdir", "run_copying", "run_mount", "stop_rm"}
MountInv(p) == inv[p].pc \in Unmounted => mounts[inv[p].name] = 0
MountsInv ==
  /\ mounts \in [Name -> {0, 1}]
  /\ \A n \in Name : dir[n] = "absent" => mounts[n] = 0
  /\ DevSafe

(* What an invocation relies on. *)
OwnInv(p) == NoProcPids(p) /\ DirInv(p) /\ MountInv(p)

(* It may rely on it while others work on other names. *)
LEMMA BystanderKeeps ==
  ASSUME NEW q \in Proc, OwnInv(q), Bystander(q),
         \A n \in Name : n = inv[q].name /\ inv[q].pc # "idle" => Leaves(n),
         Directories', AliveListed', NumberedListed'
  PROVE  OwnInv(q)'
<1> DEFINE n == inv[q].name
<1>1. Named(q)' /\ NoProcPids(q)'
  BY DEF OwnInv, DirInv, Named, NoProcPids, Bystander
<1>2. CASE n \in Name /\ inv[q].pc # "idle"
  <2>1. Leaves(n)
    BY <1>2
  <2>2. EntersListed(q)'
    BY <1>2, <2>1 DEF OwnInv, DirInv, EntersListed, Entering, Listed, Leaves, Bystander
  <2>3. MountInv(q)'
    BY <2>1 DEF OwnInv, MountInv, Unmounted, Leaves, Bystander
  <2>4. StopKnows(q)'
    <3>1. CASE inv'[q].pc \notin Killing \cup Emptying \cup Unlinked
      BY <3>1 DEF StopKnows, Emptying
    <3>2. CASE inv'[q].pc = inv[q].pc
      BY <2>1, <3>2 DEF OwnInv, DirInv, StopKnows, Emptying, Unlinked, Leaves, Bystander
    <3> QED
      BY <3>1, <3>2 DEF Bystander, Killing, Emptying, Unlinked
  <2> QED
    BY <1>1, <2>2, <2>3, <2>4 DEF OwnInv, DirInv
<1>3. CASE ~(n \in Name /\ inv[q].pc # "idle")
  <2>1. inv'[q].pc = inv[q].pc
        /\ inv[q].pc \in {"idle", "build", "debootstrap", "fetching", "rmi"}
    BY <1>3 DEF OwnInv, DirInv, Named, Bystander
  <2>2. EntersListed(q)' /\ StopKnows(q)' /\ MountInv(q)'
    BY <2>1 DEF EntersListed, StopKnows, MountInv, Entering, Killing, Emptying, Unlinked, Unmounted
  <2> QED
    BY <1>1, <2>2 DEF OwnInv, DirInv
<1> QED
  BY <1>2, <1>3

(* The invariant of invocations on different containers. *)
ApartInv ==
  /\ Separate /\ MountsInv
  /\ \A p \in Proc : OwnInv(p)

(* No two invocations take up one name. *)
LEMMA SeparateKept ==
  ASSUME Apart, Shape, Separate, NEW p \in Proc, NoProcPids(p), Dispatch(p) \/ Invocation(p)
  PROVE  Separate' /\ NoProcPids(p)'
<1>1. \A q \in Proc \ {p} : inv'[q].name = inv[q].name /\ (inv'[q].pc = "idle" <=> inv[q].pc = "idle")
  BY Bystanders DEF Bystander
<1>2. CASE Dispatch(p)
  <2>1. /\ inv[p].pc = "idle" /\ inv'[p].pc # "idle" /\ inv'[p].pids = {}
        /\ ~Overlap => \A q \in Proc : inv[q].name # inv'[p].name
    BY <1>2, DispatchOthers
  <2> QED
    BY <1>1, <2>1 DEF Separate, Apart, NoProcPids
<1>3. CASE Invocation(p)
  <2>1. OwnMove(p)
    BY <1>3, InvocationMoves
  <2>2. Separate'
    BY <1>1, <2>1 DEF Separate, Apart, OwnMove
  <2>3. inv[p].pc # "run_copying" \/ inv'[p].pids \cap Proc = {}
    <3>1. inv[p].pc = "run_copying" => RunCopy(p)
      BY <1>3 DEF At, Invocation, Build, BuildCheck, Debootstrap, Fetched, RemoveImage,
         Exec, ExecCheck, ExecPs, ExecPgrep, NsEnter, Peer,
         Run, RunCheck, RunMkdir, RunCopy, RunMount, RunUnshare,
         AddNetwork, NetDir, NetPs, NetLn, NumRead, NumTruncate, NumWrite, LinkAdd,
         LinkMove, LinkUp, AddrOut, AddrIn, Internet, Expose, NetDone,
         Stop, StopCheck, StopPs, StopLink, StopUnlink, StopKill,
         StopUmount, StopRm, StopLs, StopRmNum, StopForward, StopNat
    <3>2. RunCopy(p) => inv'[p].pids \subseteq inv[p].pids
      <4>1. Idle.pids = {}
        BY DEF Idle
      <4> QED
        BY <4>1, Moves DEF RunCopy, Test, Goto, Exit, Shape
    <3> QED
      BY <3>1, <3>2 DEF NoProcPids
  <2>4. inv[p].pc \notin {"run_copying", "idle"} => Copying(inv[p].name) = {}
    BY DEF Copying, At, Separate
  <2> QED
    BY <2>1, <2>2, <2>3, <2>4 DEF OwnMove, NoProcPids
<1> QED
  BY <1>2, <1>3

(* run mounts once, and stop unmounts before it removes the directory. *)
LEMMA MountsKept ==
  ASSUME Shape, MountsInv, NEW p \in Proc, OwnInv(p), Dispatch(p) \/ Invocation(p)
  PROVE  MountsInv' /\ MountInv(p)'
<1> USE DEF At
<1> DEFINE n == inv[p].name
<1>1. Directories /\ (inv[p].pc \in Unmounted \cup {"run", "stop_umount"} => n \in Name)
  BY DEF OwnInv, DirInv, Named, Unmounted
<1>2. CASE /\ UNCHANGED mounts /\ (devWiped' => devWiped)
           /\ \A m \in Name : dir'[m] = "absent" => dir[m] = "absent" \/ mounts[m] = 0
           /\ \/ inv'[p].pc \notin Unmounted
              \/ inv'[p].name = n /\ mounts[n] = 0
  BY <1>2 DEF MountsInv, MountInv, DevSafe
<1>3. CASE Dispatch(p)
  <2>1. UNCHANGED <<mounts, devWiped, dir>>
    BY <1>3 DEF Dispatch, Start, dirVars
  <2>2. inv'[p].pc \notin Unmounted
    BY <1>3, DispatchStarts DEF Unmounted
  <2> QED
    BY <1>2, <2>1, <2>2
<1>4. CASE RunCheck(p) \/ RunMkdir(p) \/ RunCopy(p)
  <2>1. UNCHANGED <<mounts, devWiped>>
    BY <1>4 DEF RunCheck, RunMkdir, RunCopy, dirVars
  <2>2. \A m \in Name : dir'[m] = "absent" => dir[m] = "absent"
    BY <1>1, <1>4 DEF RunCheck, RunMkdir, RunCopy, dirVars, Directories, Unmounted
  <2>3. inv'[p].pc = "idle" \/ (inv'[p].name = n /\ mounts[n] = 0)
    <3>1. CASE RunCheck(p)
      BY <1>1, <3>1, Moves DEF RunCheck, Test, MountsInv
    <3>2. CASE RunMkdir(p) \/ RunCopy(p)
      BY <3>2, Moves DEF RunMkdir, RunCopy, Test, OwnInv, MountInv, Unmounted
    <3> QED
      BY <1>4, <3>1, <3>2
  <2> QED
    BY <1>2, <2>1, <2>2, <2>3 DEF Unmounted
<1>5. CASE RunMount(p)
  <2>1. /\ UNCHANGED <<dir, devWiped>> /\ inv'[p].pc \notin Unmounted
        /\ \/ mounts' = mounts
           \/ dir[n] # "absent" /\ mounts' = [mounts EXCEPT ![n] = @ + 1]
        /\ mounts[n] = 0 /\ n \in Name
    BY <1>1, <1>5, Moves DEF RunMount, Unmounted, OwnInv, MountInv
  <2>2. \A m \in Name : mounts'[m] = IF m = n /\ mounts' # mounts THEN 1 ELSE mounts[m]
    BY <2>1 DEF MountsInv
  <2>3. mounts' \in [Name -> {0, 1}]
    BY <2>1, <2>2 DEF MountsInv
  <2> QED
    BY <2>1, <2>2, <2>3 DEF MountsInv, MountInv, DevSafe
<1>6. CASE StopUmount(p)
  <2>1. /\ UNCHANGED <<dir, devWiped>> /\ inv'[p].pc = "stop_rm" /\ inv'[p].name = n
        /\ mounts' = [mounts EXCEPT ![n] = IF @ > 0 THEN @ - 1 ELSE 0] /\ n \in Name
    BY <1>1, <1>6, Moves DEF StopUmount
  <2>2. mounts[n] \in {0, 1}
    BY <2>1 DEF MountsInv
  <2>3. \A m \in Name : mounts'[m] = IF m = n THEN 0 ELSE mounts[m]
    BY <2>1, <2>2 DEF MountsInv
  <2>4. mounts' \in [Name -> {0, 1}]
    BY <2>1, <2>3 DEF MountsInv
  <2> QED
    BY <2>1, <2>3, <2>4 DEF MountsInv, MountInv, DevSafe
<1>7. CASE StopRm(p)
  <2>1. mounts[n] = 0 /\ n \in Name
    BY <1>1, <1>7 DEF StopRm, OwnInv, MountInv, Unmounted
  <2>2. ~(mounts[n] > 0)
    BY <2>1
  <2>3. UNCHANGED mounts /\ (devWiped' => devWiped)
    BY <1>7, <2>2 DEF StopRm
  <2>4. dir' = [dir EXCEPT ![n] = "absent"]
    BY <1>7, <2>2 DEF StopRm
  <2>5. inv'[p].pc \notin Unmounted
    BY <1>7, Moves DEF StopRm, Test, Unmounted
  <2>6. \A m \in Name : dir'[m] = "absent" => dir[m] = "absent" \/ mounts[m] = 0
    BY <1>1, <2>1, <2>4 DEF Directories
  <2> QED
    BY <1>2, <2>3, <2>5, <2>6
<1>8. CASE /\ UNCHANGED <<mounts, devWiped, dir>>
           /\ inv'[p].pc \notin Unmounted
  BY <1>2, <1>8
<1>9. CASE \/ Build(p) \/ RemoveImage(p) \/ Exec(p) \/ AddNetwork(p) \/ Peer(p)
           \/ \E k \in Session : RunUnshare(p, k)
  <2>1. UNCHANGED <<mounts, devWiped, dir>>
    BY <1>9
    DEF Build, BuildCheck, Debootstrap, Fetched, RemoveImage, RunUnshare,
         Exec, ExecCheck, ExecPs, ExecPgrep, NsEnter, Peer,
         AddNetwork, NetDir, NetPs, NetLn, NumRead, NumTruncate, NumWrite, LinkAdd,
         LinkMove, LinkUp, AddrOut, AddrIn, Internet, Expose, NetDone, dirVars
  <2>2. inv'[p].pc \notin Unmounted
    <3>1. CASE LinkMove(p) \/ NumRead(p) \/ NetPs(p) \/ ExecPs(p) \/ ExecPgrep(p)
      BY <3>1, Moves DEF LinkMove, NumRead, NetPs, ExecPs, ExecPgrep, Shape, Local, Unmounted
    <3> QED
      BY <1>9, <3>1, Moves
      DEF Build, BuildCheck, Debootstrap, Fetched, RemoveImage, RunUnshare,
         Exec, ExecCheck, NsEnter, Peer,
         AddNetwork, NetDir, NetLn, NumTruncate, NumWrite, LinkAdd,
         LinkUp, AddrOut, AddrIn, Internet, Expose, NetDone, Test, Unmounted
  <2> QED
    BY <1>8, <2>1, <2>2
<1>10. CASE \/ StopCheck(p) \/ StopPs(p) \/ StopLink(p) \/ StopUnlink(p) \/ StopKill(p)
            \/ StopLs(p) \/ StopRmNum(p) \/ StopForward(p) \/ StopNat(p)
  <2>1. UNCHANGED <<mounts, devWiped, dir>>
    BY <1>10 DEF StopCheck, StopPs, StopLink, StopUnlink, StopKill, StopLs, StopRmNum,
                StopForward, StopNat, dirVars
  <2>2. inv'[p].pc \notin Unmounted
    <3>1. CASE StopPs(p)
      BY <3>1 DEF StopPs, Shape, Local, Unmounted
    <3>2. CASE StopKill(p) \/ StopRmNum(p)
      <4>1. \/ inv'[p] = [inv[p] EXCEPT !.pc = "stop_umount", !.pids = {}]
            \/ inv'[p] = [inv[p] EXCEPT !.pc = "stop_forward"]
            \/ inv'[p] = Idle
        BY <3>2 DEF StopKill, StopRmNum
      <4>2. inv[p] \in Local /\ Idle.pc = "idle"
        BY DEF Shape, Idle
      <4>3. inv'[p].pc \in {"stop_umount", "stop_forward", "idle"}
        BY <4>1, <4>2 DEF Local
      <4> QED
        BY <4>3 DEF Unmounted
    <3> QED
      BY <1>10, <3>1, <3>2, Moves DEF StopCheck, StopLink, StopUnlink, StopLs,
                StopForward, StopNat, Test, Unmounted
  <2> QED
    BY <1>8, <2>1, <2>2
<1> QED
  BY <1>3, <1>4, <1>5, <1>6, <1>7, <1>9, <1>10 DEF Invocation, Run, Stop

(* A step of one invocation keeps what each of them relies on. *)
LEMMA ApartStep ==
  ASSUME Apart, ConductorInv, ApartInv, NEW p \in Proc, Dispatch(p) \/ Invocation(p)
  PROVE  ApartInv'
<1>1. Shape /\ OwnInv(p) /\ NoProcPids(p) /\ DirInv(p) /\ Separate /\ Directories /\ Mounted
  BY DEF ConductorInv, ApartInv, OwnInv, DirInv, MountsInv, Mounted
<1>2. Separate' /\ NoProcPids(p)'
  BY <1>1, SeparateKept
<1>3. MountsInv' /\ MountInv(p)'
  BY <1>1, MountsKept DEF ApartInv
<1>4. DirInv(p)'
  BY <1>1, DirBuildExec, DirRun, DirStop, DirNetwork DEF Invocation
<1>5. OwnInv(p)' /\ Directories' /\ AliveListed' /\ NumberedListed'
  BY <1>2, <1>3, <1>4 DEF OwnInv, DirInv
<1>6. ASSUME NEW q \in Proc \ {p} PROVE OwnInv(q)'
  <2>1. Bystander(q)
    BY <1>1, Bystanders
  <2>2. ASSUME NEW n \in Name, n = inv[q].name, inv[q].pc # "idle" PROVE Leaves(n)
    <3>1. n # inv[p].name \/ inv[p].pc = "idle"
      BY <1>1, <2>2 DEF Separate
    <3> QED
      BY <1>1, <3>1, InvocationLeaves
  <2> QED
    BY <1>5, <2>1, <2>2, BystanderKeeps DEF ApartInv
<1> QED
  BY <1>2, <1>3, <1>5, <1>6 DEF ApartInv

(* So does every step. *)
LEMMA StepApartInv == Apart /\ ConductorInv /\ ApartInv /\ [Next]_vars => ApartInv'
<1> SUFFICES ASSUME Apart, ConductorInv, ApartInv, [Next]_vars PROVE ApartInv'
  OBVIOUS
<1>1. CASE \E p \in Proc : Dispatch(p) \/ Invocation(p)
  BY <1>1, ApartStep
<1>2. ASSUME UNCHANGED <<inv, mounts, dir, devWiped>>,
             \A p \in Proc : DirInv(p)'
      PROVE  ApartInv'
  <2>1. Separate' /\ MountsInv' /\ \A p \in Proc : NoProcPids(p)' /\ MountInv(p)'
    BY <1>2 DEF ApartInv, OwnInv, Separate, MountsInv, NoProcPids, MountInv, DevSafe
  <2> QED
    BY <1>2, <2>1 DEF ApartInv, OwnInv
<1>3. ASSUME NEW k \in Session, StartUp(k) \/ SessionEnds(k) PROVE ApartInv'
  <2>1. UNCHANGED <<inv, mounts, dir, devWiped>>
    BY <1>3 DEF StartUp, Fork, Chroot, SessionEnds, dirVars
  <2>2. \A p \in Proc : DirInv(p)'
    BY <1>3, DirContainer DEF ConductorInv, ApartInv, OwnInv
  <2> QED
    BY <1>2, <2>1, <2>2
<1>4. CASE UNCHANGED vars
  <2>1. UNCHANGED <<inv, dir, mounts, devWiped, session, link>>
    BY <1>4 DEF vars, dirVars, netVars, linkVars
  <2>2. ASSUME NEW p \in Proc PROVE DirInv(p)'
    <3>1. DirInv(p)
      BY DEF ApartInv, OwnInv
    <3>2. Directories' /\ AliveListed' /\ NumberedListed'
      BY <2>1, <3>1 DEF DirInv, Directories, AliveListed, NumberedListed, Alive, Listed
    <3>3. Named(p)' /\ EntersListed(p)' /\ StopKnows(p)'
      BY <2>1, <3>1 DEF DirInv, Named, EntersListed, StopKnows, Alive, Listed
    <3> QED
      BY <3>2, <3>3 DEF DirInv
  <2> QED
    BY <1>2, <2>1, <2>2
<1> QED
  BY <1>1, <1>3, <1>4 DEF Next

(* At first there is nothing to damage. *)
LEMMA InitApartInv == Init => ApartInv
<1> SUFFICES ASSUME Init PROVE ApartInv
  OBVIOUS
<1> USE DEF Init, HostInit
<1>1. \A p \in Proc : inv[p].pc = "idle" /\ inv[p].name = "-" /\ inv[p].pids = {}
  BY DEF Idle
<1>2. \A n \in Name : link[n] = NoLink
  OBVIOUS
<1>3. NoLink.outAddr = -1
  BY DEF NoLink
<1>4. \A p \in Proc : DirInv(p)
  BY <1>1, <1>2, <1>3
  DEF DirInv, Directories, Named, AliveListed, Alive, NumberedListed, EntersListed,
      StopKnows, Entering, Killing, Emptying, Unlinked
<1>5. Separate /\ MountsInv /\ \A p \in Proc : NoProcPids(p) /\ MountInv(p)
  BY <1>1 DEF Separate, MountsInv, DevSafe, NoProcPids, MountInv, Unmounted
<1> QED
  BY <1>4, <1>5 DEF ApartInv, OwnInv

(* The invariant, for any number of invocations that keep to names of their  *)
(* own, and any number of containers.                                       *)
THEOREM ApartInvariant == ASSUME Apart PROVE Spec => []ApartInv
<1>1. Init => ApartInv
  BY InitApartInv
<1>2. ConductorInv /\ ApartInv /\ [Next]_vars => ApartInv'
  BY StepApartInv
<1> QED
  BY <1>1, <1>2, ConductorInvariant, PTL DEF Spec

(* rm -rf never runs into the host's /dev: run mounts once on a directory it *)
(* has made, and stop unmounts before it removes.                           *)
THEOREM DevUnharmed == ASSUME Apart PROVE Spec => []DevSafe
<1>1. ApartInv => DevSafe
  BY DEF ApartInv, MountsInv
<1> QED
  BY <1>1, ApartInvariant, PTL

(* A running container has its directory.                                   *)
THEOREM Orphanless == ASSUME Apart PROVE Spec => []NoOrphans
<1>1. ApartInv => NoOrphans
  BY ScriptAssumption DEF ApartInv, OwnInv, DirInv, AliveListed, NoOrphans
<1> QED
  BY <1>1, ApartInvariant, PTL

(* A stop that gets past rm -rf has left nothing of the container: no       *)
(* process, no mount, no link.                                              *)
THEOREM StopLeavesNothing == ASSUME Apart PROVE Spec => []StoppedIsGone
<1>1. ApartInv => StoppedIsGone
  <2> SUFFICES ASSUME ApartInv, NEW p \in Proc, inv[p].pc = "stop_ls"
               PROVE  LET n == inv[p].name
                      IN  /\ dir[n] = "absent" /\ mounts[n] = 0 /\ link[n] = NoLink
                          /\ \A k \in Session : Alive(k) => session[k].name # n
    BY DEF StoppedIsGone, At
  <2> QED
    BY DEF ApartInv, OwnInv, DirInv, StopKnows, Emptying, Unlinked
<1> QED
  BY <1>1, ApartInvariant, PTL

-----------------------------------------------------------------------------
(***************************************************************************)
(* One invocation at a time.  Then, besides, every number is handed out once and every port leads where it was   *)
(* asked to.                                                               *)
(***************************************************************************)
(* .HIGHEST_NUM is as high as any number in a link or a rule, and the number *)
(* an invocation is about to use is higher than all of them.                *)
Dnat == {r \in nat : r[1] = "dnat"}
Below(x) ==
  /\ \A n \in Name : link[n].outAddr < x
  /\ \A r \in Dnat : r[2] < x
Fresh == {"link_add", "link_move", "link_up", "addr_out"}
Given == {"addr_in", "internet", "expose"}
Clearing == {"stop_rmnum", "stop_forward", "stop_nat"}

Numbers(p) ==
  /\ highest \in Nat \cup {None, Truncated}
  /\ \A r \in Dnat : r[2] \in Nat
  /\ inv[p].pc = "num_write" <=> highest = Truncated
  /\ inv[p].pc \in Fresh \cup Given \cup {"num_truncate", "num_write"} => inv[p].num \in Nat
  /\ inv[p].pc = "num_truncate" => inv[p].num > highest
  /\ inv[p].pc \in Fresh \cup Given => highest = inv[p].num
Bounds(p) ==
  /\ inv[p].pc \notin {"num_write", "stop_forward", "stop_nat"} => Below(highest + 1)
  /\ inv[p].pc \in Fresh \cup {"num_write"} => Below(inv[p].num)
Handing(p) ==
  /\ inv[p].pc \in {"link_move", "link_up", "addr_out"} => link[inv[p].name].inAddr = -1
  /\ inv[p].pc = "addr_in" =>
       /\ link[inv[p].name] = NoLink \/ link[inv[p].name].outAddr = inv[p].num
       /\ \A r \in Dnat : r[2] # inv[p].num
  /\ inv[p].pc \in Given =>
       \A n \in Name \ {inv[p].name} : link[n].outAddr # inv[p].num
  /\ inv[p].pc \in Clearing => \A n \in Name : link[n].outAddr = -1
BothEnds == \A n \in Name : link[n].inAddr # -1 => link[n].inAddr = link[n].outAddr
NetnsInv == netns \in [Name -> SUBSET Pid]

NumInv(p) ==
  /\ NetnsInv /\ BothEnds /\ Numbers(p) /\ Bounds(p) /\ Handing(p)
  /\ UniqueNumbers /\ PortsLeadToAsker

(* A step that uses no number, and may take links away.                     *)
LEMMA NumQuiet ==
  ASSUME NEW p \in Proc, Named(p), NumInv(p), UNCHANGED <<nat, highest>>, LinksFade, NetnsInv',
         \/ UNCHANGED inv
         \/ /\ inv[p].pc \notin {"num_write", "stop_forward", "stop_nat"}
            /\ inv'[p].pc \notin Fresh \cup Given \cup Clearing
                                  \cup {"num_truncate", "num_write"}
  PROVE  NumInv(p)'
<1> USE DEF NumInv
<1>1. NoLink.outAddr = -1 /\ NoLink.inAddr = -1
  BY DEF NoLink
<1>2. BothEnds'
  BY <1>1 DEF BothEnds, LinksFade
<1>3. UniqueNumbers'
  BY <1>1 DEF UniqueNumbers, LinksFade
<1>4. PortsLeadToAsker'
  <2>1. \A r \in Dnat : r[2] # -1
    BY DEF Numbers
  <2> QED
    BY <1>1, <2>1 DEF PortsLeadToAsker, LinksFade, Dnat
<1>5. Numbers(p)'
  BY DEF Numbers, Dnat, Fresh, Given, Clearing
<1>6. \A x \in Nat : Below(x) => Below(x)'
  BY <1>1 DEF Below, LinksFade, Dnat
<1>7. Bounds(p)'
  BY <1>5, <1>6 DEF Bounds, Numbers, Fresh, Given, Clearing, None, Truncated
<1>8. Handing(p)'
  <2>1. CASE UNCHANGED inv
    <3>1. inv[p].pc \in Given => inv[p].num # -1
      BY DEF Numbers
    <3>2. inv[p].pc \in {"link_move", "link_up", "addr_out", "addr_in"} => inv[p].name \in Name
      BY DEF Named
    <3>3. inv[p].pc \in Given =>
            \A n \in Name \ {inv[p].name} : link'[n].outAddr # inv[p].num
      BY <1>1, <3>1 DEF Handing, LinksFade
    <3>4. inv[p].pc \in Clearing => \A n \in Name : link'[n].outAddr = -1
      BY <1>1 DEF Handing, LinksFade
    <3>5. inv[p].pc = "addr_in" =>
            link'[inv[p].name] = NoLink \/ link'[inv[p].name].outAddr = inv[p].num
      BY <3>2 DEF Handing, LinksFade
    <3>6. inv[p].pc \in {"link_move", "link_up", "addr_out"} => link'[inv[p].name].inAddr = -1
      BY <1>1, <3>2 DEF Handing, LinksFade
    <3> QED
      BY <2>1, <3>3, <3>4, <3>5, <3>6 DEF Handing, Dnat
  <2>2. CASE inv'[p].pc \notin Fresh \cup Given \cup Clearing
    BY <2>2 DEF Handing, Given, Fresh
  <2> QED
    BY <2>1, <2>2
<1> QED
  BY <1>2, <1>3, <1>4, <1>5, <1>7, <1>8

(* addnetwork up to the number: quiet, read, truncate, write.               *)
LEMMA NumberKeeps ==
  ASSUME NEW p \in Proc, Shape, Named(p), NumInv(p), NetnsInv',
         \/ NetDir(p) \/ NetPs(p) \/ NetLn(p) \/ NetDone(p)
         \/ NumRead(p) \/ NumTruncate(p) \/ NumWrite(p)
  PROVE  NumInv(p)'
<1> USE DEF At
<1>1. CASE NetDir(p) \/ NetPs(p) \/ NetLn(p) \/ NetDone(p)
  <2>1. UNCHANGED <<nat, highest, link>>
    BY <1>1 DEF NetDir, NetPs, NetLn, NetDone, netVars, linkVars, ruleVars
  <2>2. inv[p].pc \in {"addnetwork", "net_ps", "net_ln", "net_done"}
    BY <1>1 DEF NetDir, NetPs, NetLn, NetDone
  <2>3. inv'[p].pc \in {"net_ps", "net_ln", "num_read", "idle"}
    <3>1. CASE NetPs(p)
      BY <3>1 DEF NetPs, Shape, Local
    <3> QED
      BY <1>1, <3>1, Moves DEF NetDir, NetLn, NetDone, Test
  <2> QED
    BY <2>1, <2>2, <2>3, NumQuiet DEF LinksFade, Fresh, Given, Clearing
<1>2. ASSUME UNCHANGED <<nat, link>>, inv'[p].name = inv[p].name,
             Numbers(p)', Bounds(p)',
             inv'[p].pc \in {"num_truncate", "num_write", "link_add"}
      PROVE  NumInv(p)'
  <2>1. Handing(p)' /\ BothEnds' /\ UniqueNumbers' /\ PortsLeadToAsker'
    BY <1>2 DEF NumInv, Handing, Given, Clearing, BothEnds, UniqueNumbers, PortsLeadToAsker
  <2> QED
    BY <1>2, <2>1 DEF NumInv
<1>3. \A x, y : Below(x) /\ y \in Int /\ x \in Int /\ y >= x /\ UNCHANGED <<nat, link>>
                  => Below(y)'
  <2> SUFFICES ASSUME NEW x \in Int, NEW y \in Int, Below(x), y >= x, UNCHANGED <<nat, link>>
               PROVE  Below(y)'
    OBVIOUS
  <2>1. \A n \in Name : link[n].outAddr \in Int
    BY DEF Shape
  <2>2. \A r \in Dnat : r[2] \in Int
    BY DEF NumInv, Numbers
  <2> QED
    BY <2>1, <2>2 DEF Below, Dnat
<1>4. CASE NumRead(p)
  <2>1. UNCHANGED <<nat, highest, link>> /\ inv[p].pc = "num_read"
    BY <1>4 DEF NumRead, netVars, linkVars, ruleVars
  <2>2. highest \in Nat \cup {None} /\ Below(highest + 1)
    BY <2>1 DEF NumInv, Numbers, Bounds
  <2>3. /\ inv'[p].pc = "num_truncate" /\ inv'[p].name = inv[p].name
        /\ inv'[p].num = IF highest = None THEN 1 ELSE highest + 1
    BY <1>4, <2>2 DEF NumRead, Shape, Local, None, Truncated
  <2>4. Numbers(p)'
    BY <2>1, <2>2, <2>3 DEF NumInv, Numbers, Dnat, Fresh, Given, None, Truncated
  <2>5. Bounds(p)'
    BY <2>1, <2>2, <2>3 DEF Bounds, Below, Dnat, Fresh
  <2> QED
    BY <1>2, <2>1, <2>3, <2>4, <2>5
<1>5. CASE NumTruncate(p)
  <2>1. /\ UNCHANGED <<nat, link>> /\ inv[p].pc = "num_truncate" /\ highest' = Truncated
        /\ inv'[p].pc = "num_write" /\ inv'[p].name = inv[p].name /\ inv'[p].num = inv[p].num
    BY <1>5, Moves DEF NumTruncate, linkVars, ruleVars
  <2>2. /\ highest \in Nat \cup {None} /\ Below(highest + 1)
        /\ inv[p].num \in Nat /\ inv[p].num > highest
    BY <2>1 DEF NumInv, Numbers, Bounds
  <2>3. Below(inv[p].num)'
    BY <1>3, <2>1, <2>2 DEF None
  <2>4. Numbers(p)'
    BY <2>1, <2>2 DEF NumInv, Numbers, Dnat, Fresh, Given
  <2>5. Bounds(p)'
    BY <2>1, <2>3 DEF Bounds, Below, Dnat
  <2> QED
    BY <1>2, <2>1, <2>4, <2>5
<1>6. CASE NumWrite(p)
  <2>1. /\ UNCHANGED <<nat, link>> /\ inv[p].pc = "num_write" /\ highest' = inv[p].num
        /\ inv'[p].pc = "link_add" /\ inv'[p].name = inv[p].name /\ inv'[p].num = inv[p].num
    BY <1>6, Moves DEF NumWrite, linkVars, ruleVars
  <2>2. inv[p].num \in Nat /\ Below(inv[p].num)
    BY <2>1 DEF NumInv, Numbers, Bounds
  <2>3. Below(inv[p].num)' /\ Below(inv[p].num + 1)'
    <3>1. inv[p].num \in Int /\ inv[p].num + 1 \in Int /\ inv[p].num + 1 >= inv[p].num
      BY <2>2
    <3> QED
      BY <1>3, <2>1, <2>2, <3>1 DEF Below, Dnat
  <2>4. Numbers(p)'
    BY <2>1, <2>2 DEF NumInv, Numbers, Dnat, Fresh, Given, Truncated
  <2>5. Bounds(p)'
    BY <2>1, <2>2, <2>3 DEF Bounds, Below, Dnat, Fresh
  <2> QED
    BY <1>2, <2>1, <2>4, <2>5
<1> QED
  BY <1>1, <1>4, <1>5, <1>6

(* The numbers in links and rules, and what becomes of them. *)
SameNumbers ==
  /\ \A n \in Name : /\ link'[n].outAddr = link[n].outAddr
                     /\ link'[n].inAddr = link[n].inAddr
  /\ Dnat' = Dnat /\ highest' = highest

(* Links come, are moved and go up without a number.                        *)
LEMMA LinkKeeps ==
  ASSUME NEW p \in Proc, Shape, Named(p), NumInv(p), NetnsInv',
         LinkAdd(p) \/ LinkMove(p) \/ LinkUp(p) \/ Internet(p)
  PROVE  NumInv(p)'
<1> USE DEF At
<1>1. inv[p].pc \in {"link_add", "link_move", "link_up", "internet"} /\ inv[p].name \in Name
  BY DEF LinkAdd, LinkMove, LinkUp, Internet, Named
<1>2. /\ NoLink.outAddr = -1 /\ NoLink.inAddr = -1
      /\ NewLink.outAddr = -1 /\ NewLink.inAddr = -1
  BY DEF NoLink, NewLink
<1>3. SameNumbers
  <2>1. Dnat' = Dnat /\ highest' = highest
    BY DEF LinkAdd, LinkMove, LinkUp, Internet, Dnat, netVars, linkVars, ruleVars
  <2>2. \A n \in Name : /\ link'[n].outAddr = link[n].outAddr
                        /\ link'[n].inAddr = link[n].inAddr
    <3>1. CASE LinkUp(p) \/ Internet(p)
      BY <3>1 DEF LinkUp, Internet, netVars, linkVars
    <3>2. CASE LinkAdd(p)
      BY <1>2, <3>2 DEF LinkAdd, Shape
    <3>3. CASE LinkMove(p)
      BY <3>3 DEF LinkMove, Shape
    <3> QED
      BY <3>1, <3>2, <3>3
  <2> QED
    BY <2>1, <2>2 DEF SameNumbers
<1>4. BothEnds' /\ UniqueNumbers' /\ PortsLeadToAsker'
  BY <1>3 DEF NumInv, BothEnds, UniqueNumbers, PortsLeadToAsker, SameNumbers, Dnat
<1>5. \A x : Below(x) => Below(x)'
  BY <1>3 DEF Below, SameNumbers
<1>6. CASE inv'[p].pc \in {"idle", "net_done"}
  <2>1. Numbers(p)' /\ Bounds(p)' /\ Handing(p)'
    BY <1>1, <1>3, <1>5, <1>6
    DEF NumInv, Numbers, Bounds, Handing, SameNumbers, Fresh, Given, Clearing
  <2> QED
    BY <1>4, <2>1 DEF NumInv
<1>7. ASSUME inv'[p].name = inv[p].name, inv'[p].num = inv[p].num,
             \/ inv[p].pc = "link_add"  /\ inv'[p].pc = "link_move"
             \/ inv[p].pc = "link_move" /\ inv'[p].pc = "link_up"
             \/ inv[p].pc = "link_up"   /\ inv'[p].pc = "addr_out"
             \/ inv[p].pc = "internet"  /\ inv'[p].pc = "expose",
             inv'[p].pc = "link_move" => link'[inv[p].name].inAddr = -1
      PROVE  NumInv(p)'
  <2>1. Numbers(p)'
    BY <1>3, <1>7 DEF NumInv, Numbers, SameNumbers, Fresh, Given
  <2>2. Bounds(p)'
    BY <1>3, <1>5, <1>7 DEF NumInv, Bounds, SameNumbers, Fresh
  <2>3. Handing(p)'
    BY <1>1, <1>3, <1>7 DEF NumInv, Handing, SameNumbers, Given, Clearing
  <2> QED
    BY <1>4, <2>1, <2>2, <2>3 DEF NumInv
<1>8. CASE LinkMove(p)
  <2>1. \/ inv'[p].pc = "idle"
        \/ /\ inv[p].pc = "link_move" /\ inv'[p].pc = "link_up"
           /\ inv'[p].name = inv[p].name /\ inv'[p].num = inv[p].num
    BY <1>8, Moves DEF LinkMove, Shape, Local
  <2> QED
    BY <1>6, <1>7, <2>1
<1>9. CASE LinkAdd(p)
  <2>1. \/ inv'[p].pc = "idle"
        \/ /\ inv[p].pc = "link_add" /\ inv'[p].pc = "link_move"
           /\ inv'[p].name = inv[p].name /\ inv'[p].num = inv[p].num
           /\ link' = [link EXCEPT ![inv[p].name] = NewLink]
    BY <1>9, Moves DEF LinkAdd, Test
  <2>2. inv'[p].pc # "idle" => link'[inv[p].name].inAddr = -1
    BY <1>1, <1>2, <2>1 DEF Shape
  <2> QED
    BY <1>6, <1>7, <2>1, <2>2
<1>10. CASE LinkUp(p) \/ Internet(p)
  <2>1. \/ inv'[p].pc \in {"idle", "net_done"}
        \/ /\ \/ inv[p].pc = "link_up"   /\ inv'[p].pc = "addr_out"
              \/ inv[p].pc = "internet"  /\ inv'[p].pc = "expose"
           /\ inv'[p].name = inv[p].name /\ inv'[p].num = inv[p].num
    BY <1>10, Moves DEF LinkUp, Internet, Test
  <2> QED
    BY <1>6, <1>7, <2>1
<1> QED
  BY <1>8, <1>9, <1>10

(* The new number goes to the outer end, the inner end, and a rule.         *)
LEMMA AddressKeeps ==
  ASSUME NEW p \in Proc, Shape, Named(p), NumInv(p), NetnsInv',
         AddrOut(p) \/ AddrIn(p) \/ Expose(p)
  PROVE  NumInv(p)'
<1> USE DEF At
<1> DEFINE n == inv[p].name
           num == inv[p].num
<1>1. inv[p].pc \in {"addr_out", "addr_in", "expose"} /\ n \in Name
  BY DEF AddrOut, AddrIn, Expose, Named
<1>2. num \in Nat /\ highest = num /\ Below(num + 1)
  BY <1>1 DEF NumInv, Numbers, Bounds, Fresh, Given
<1>3. highest' = highest
  BY DEF AddrOut, AddrIn, Expose
<1>4. \A m \in Name : link[m].outAddr \in Int /\ link[m].inAddr \in Int
  BY DEF Shape
<1>5. \A r \in Dnat : r[2] \in Nat
  BY DEF NumInv, Numbers
<1>6. CASE link' = link /\ nat' = nat /\ inv'[p].pc = "idle"
  BY <1>1, <1>3, <1>6, NumQuiet DEF LinksFade, Fresh, Given, Clearing
<1>7. CASE /\ AddrOut(p) /\ nat' = nat /\ inv'[p].pc = "addr_in"
           /\ inv'[p].name = n /\ inv'[p].num = num
           /\ link' = [link EXCEPT ![n].outAddr = num]
  <2>1. inv[p].pc = "addr_out"
    BY <1>7 DEF AddrOut
  <2>2. Below(num) /\ link[n].inAddr = -1
    BY <2>1 DEF NumInv, Bounds, Handing, Fresh
  <2>3. /\ link'[n].outAddr = num /\ link'[n].inAddr = -1
        /\ \A m \in Name \ {n} : link'[m] = link[m] /\ link[m].outAddr < num
    BY <1>1, <1>7, <2>2 DEF Shape, Below
  <2>4. \A r \in Dnat : r[2] # num
    BY <1>2, <1>5, <2>2 DEF Below
  <2>5. Dnat' = Dnat
    BY <1>7 DEF Dnat
  <2>6. BothEnds'
    BY <2>3 DEF NumInv, BothEnds
  <2>7. UniqueNumbers'
    BY <1>2, <1>4, <2>3 DEF NumInv, UniqueNumbers
  <2>8. PortsLeadToAsker'
    BY <1>1, <1>5, <2>3, <2>5 DEF NumInv, PortsLeadToAsker, Dnat
  <2>9. Numbers(p)'
    BY <1>2, <1>3, <1>7, <2>5 DEF NumInv, Numbers, Truncated
  <2>10. Bounds(p)'
    BY <1>2, <1>3, <1>4, <1>7, <2>3, <2>5 DEF Bounds, Below, Fresh
  <2>11. Handing(p)'
    BY <1>2, <1>4, <1>7, <2>3, <2>4, <2>5 DEF Handing, Clearing
  <2> QED
    BY <2>6, <2>7, <2>8, <2>9, <2>10, <2>11 DEF NumInv
<1>8. CASE /\ AddrIn(p) /\ nat' = nat /\ inv'[p].pc \in {"net_done", "internet", "expose"}
           /\ inv'[p].name = n /\ inv'[p].num = num
           /\ Reachable(n) /\ link' = [link EXCEPT ![n].inAddr = num]
  <2>1. inv[p].pc = "addr_in"
    BY <1>8 DEF AddrIn
  <2>2. link[n] # NoLink
    <3>1. PICK pid \in netns[n] : link[n].inside = NetOf(pid)
      BY <1>8 DEF Reachable
    <3>2. pid \in Pid
      BY <1>1 DEF NumInv, NetnsInv
    <3>3. \A k \in Session : k \in Int /\ k > 0 /\ SessionOf(k) = k /\ SessionOf(-k) = k
      BY BoundsAssumption DEF Session, SessionOf
    <3>4. NetOf(pid) # -1
      BY <3>2, <3>3 DEF NetOf, Pid
    <3> QED
      BY <3>1, <3>4 DEF NoLink
  <2>3. /\ link[n].outAddr = num
        /\ \A r \in Dnat : r[2] # num
        /\ \A m \in Name \ {n} : link[m].outAddr # num
    BY <2>1, <2>2 DEF NumInv, Handing, Given
  <2>4. /\ link'[n].outAddr = num /\ link'[n].inAddr = num
        /\ \A m \in Name \ {n} : link'[m] = link[m]
    BY <1>1, <1>8, <2>3 DEF Shape
  <2>5. Dnat' = Dnat
    BY <1>8 DEF Dnat
  <2>6. BothEnds'
    BY <2>4 DEF NumInv, BothEnds
  <2>7. UniqueNumbers'
    BY <1>1, <2>3, <2>4 DEF NumInv, UniqueNumbers
  <2>8. PortsLeadToAsker'
    BY <1>1, <2>3, <2>4, <2>5 DEF NumInv, PortsLeadToAsker, Dnat
  <2>9. Numbers(p)'
    BY <1>2, <1>3, <1>8, <2>5 DEF NumInv, Numbers, Truncated, Fresh, Given
  <2>10. Bounds(p)'
    <3>1. \A m \in Name : link'[m].outAddr = link[m].outAddr
      BY <1>1, <2>3, <2>4
    <3> QED
      BY <1>2, <1>3, <1>8, <2>5, <3>1 DEF Bounds, Below, Fresh
  <2>11. Handing(p)'
    BY <1>8, <2>3, <2>4 DEF Handing, Clearing, Given
  <2> QED
    BY <2>6, <2>7, <2>8, <2>9, <2>10, <2>11 DEF NumInv
<1>9. CASE /\ Expose(p) /\ link' = link /\ inv'[p].pc = "net_done"
            /\ nat' = nat \cup {<<"dnat", num, n>>}
  <2>1. inv[p].pc = "expose"
    BY <1>9 DEF Expose
  <2>2. \A m \in Name \ {n} : link[m].outAddr # num
    BY <2>1 DEF NumInv, Handing, Given
  <2>3. Dnat' = Dnat \cup {<<"dnat", num, n>>}
    BY <1>9 DEF Dnat
  <2>4. BothEnds' /\ UniqueNumbers'
    BY <1>9 DEF NumInv, BothEnds, UniqueNumbers
  <2>5. PortsLeadToAsker'
    <3>1. \A m \in Name : link[m].inAddr = num => m = n
      BY <1>2, <2>2 DEF NumInv, BothEnds
    <3> QED
      BY <1>9, <3>1 DEF NumInv, PortsLeadToAsker
  <2>6. Numbers(p)'
    BY <1>2, <1>3, <1>5, <1>9, <2>3 DEF NumInv, Numbers, Truncated, Fresh, Given
  <2>7. Bounds(p)'
    BY <1>2, <1>3, <1>9, <2>3 DEF Bounds, Below, Fresh
  <2>8. Handing(p)'
    BY <1>9 DEF Handing, Clearing, Given
  <2> QED
    BY <2>4, <2>5, <2>6, <2>7, <2>8 DEF NumInv
<1> QED
  <2>1. CASE AddrOut(p)
    <3>1. nat' = nat
      BY <2>1 DEF AddrOut, ruleVars
    <3> QED
      BY <2>1, <3>1, <1>6, <1>7, Moves DEF AddrOut, Test
  <2>2. CASE AddrIn(p)
    <3>1. nat' = nat
      BY <2>2 DEF AddrIn, ruleVars
    <3> QED
      BY <2>2, <3>1, <1>6, <1>8, Moves DEF AddrIn, Test
  <2>3. CASE Expose(p)
    BY <2>3, <1>9, Moves DEF Expose, linkVars
  <2> QED
    BY <2>1, <2>2, <2>3

(* stop: the numbering starts again when no container has an address.       *)
LEMMA StopNumKeeps ==
  ASSUME NEW p \in Proc, Shape, DirInv(p), NumInv(p), NetnsInv', Stop(p)
  PROVE  NumInv(p)'
<1> USE DEF At
<1>1. Named(p)
  BY DEF DirInv
<1>2. CASE \/ StopCheck(p) \/ StopPs(p) \/ StopLink(p) \/ StopUnlink(p) \/ StopKill(p)
           \/ StopUmount(p) \/ StopRm(p)
  <2>1. UNCHANGED <<nat, highest>>
    BY <1>2 DEF StopCheck, StopPs, StopLink, StopUnlink, StopKill, StopUmount, StopRm,
                netVars, ruleVars
  <2>2. LinksFade
    BY <1>2 DEF StopCheck, StopPs, StopLink, StopUnlink, StopKill, StopUmount, StopRm,
                LinksWithout, LinksFade, Shape, netVars, linkVars
  <2>3. inv[p].pc \in {"stop", "stop_ps", "stop_link", "stop_unlink", "stop_kill",
                       "stop_umount", "stop_rm"}
    BY <1>2 DEF StopCheck, StopPs, StopLink, StopUnlink, StopKill, StopUmount, StopRm
  <2>4. inv'[p].pc \in {"idle", "stop_ps", "stop_link", "stop_unlink", "stop_kill",
                        "stop_umount", "stop_rm", "stop_ls"}
    <3>1. CASE StopPs(p)
      BY <3>1 DEF StopPs, Shape, Local
    <3>2. CASE StopKill(p)
      <4>1. \/ inv'[p] = [inv[p] EXCEPT !.pc = "stop_umount", !.pids = {}]
            \/ inv'[p] = Idle
        BY <3>2 DEF StopKill
      <4>2. inv[p] \in Local /\ Idle.pc = "idle"
        BY DEF Shape, Idle
      <4>3. inv'[p].pc \in {"stop_umount", "idle"}
        BY <4>1, <4>2 DEF Local
      <4> QED
        BY <4>3
    <3> QED
      BY <1>2, <3>1, <3>2, Moves DEF StopCheck, StopLink, StopUnlink, StopUmount, StopRm, Test
  <2> QED
    BY <1>1, <2>1, <2>2, <2>3, <2>4, NumQuiet DEF Fresh, Given, Clearing
<1>3. CASE StopLs(p)
  <2>1. UNCHANGED <<link, nat, highest>> /\ inv[p].pc = "stop_ls"
    BY <1>3 DEF StopLs, netVars, linkVars, ruleVars
  <2>2. \/ inv'[p].pc = "idle"
        \/ inv'[p].pc = "stop_rmnum" /\ \A n \in Name : dir[n] = "absent"
    BY <1>3, Moves DEF StopLs, Test
  <2>3. CASE inv'[p].pc = "idle"
    BY <1>1, <2>1, <2>3, NumQuiet DEF LinksFade, Fresh, Given, Clearing
  <2>4. CASE inv'[p].pc = "stop_rmnum" /\ \A n \in Name : dir[n] = "absent"
    <3>1. \A n \in Name : link[n].outAddr = -1
      BY <2>4 DEF DirInv, NumberedListed, Listed
    <3>2. Numbers(p)' /\ Bounds(p)' /\ Handing(p)'
      BY <2>1, <2>4, <3>1 DEF NumInv, Numbers, Bounds, Handing, Below, Dnat, Fresh, Given
    <3>3. BothEnds' /\ UniqueNumbers' /\ PortsLeadToAsker'
      BY <2>1 DEF NumInv, BothEnds, UniqueNumbers, PortsLeadToAsker
    <3> QED
      BY <3>2, <3>3 DEF NumInv
  <2> QED
    BY <2>2, <2>3, <2>4
<1>4. CASE StopRmNum(p) \/ StopForward(p)
  <2>1. /\ UNCHANGED <<link, nat>> /\ highest' \in {highest, None}
        /\ inv[p].pc \in {"stop_rmnum", "stop_forward"}
        /\ inv'[p].pc \in {"stop_forward", "stop_nat"}
    <3>1. inv'[p].pc \in {"stop_forward", "stop_nat"}
      <4>1. CASE StopRmNum(p)
        <5>1. inv'[p] = [inv[p] EXCEPT !.pc = "stop_forward"] /\ inv[p] \in Local
          BY <4>1 DEF StopRmNum, Shape
        <5> QED
          BY <5>1 DEF Local
      <4> QED
        BY <1>4, <4>1, Moves DEF StopForward
    <3> QED
      BY <1>4, <3>1 DEF StopRmNum, StopForward, linkVars, ruleVars
  <2>2. Numbers(p)'
    BY <2>1 DEF NumInv, Numbers, Dnat, Fresh, Given, None, Truncated
  <2>3. Bounds(p)' /\ Handing(p)'
    BY <2>1 DEF NumInv, Bounds, Handing, Fresh, Given, Clearing
  <2>4. BothEnds' /\ UniqueNumbers' /\ PortsLeadToAsker'
    BY <2>1 DEF NumInv, BothEnds, UniqueNumbers, PortsLeadToAsker
  <2> QED
    BY <2>2, <2>3, <2>4 DEF NumInv
<1>5. CASE StopNat(p)
  <2>1. /\ UNCHANGED <<link, highest>> /\ nat' = {} /\ inv[p].pc = "stop_nat"
        /\ inv'[p].pc = "idle"
    BY <1>5, Moves DEF StopNat, linkVars
  <2>2. Numbers(p)'
    BY <2>1 DEF NumInv, Numbers, Dnat, Fresh, Given
  <2>3. Bounds(p)' /\ Handing(p)'
    BY <2>1 DEF NumInv, Numbers, Bounds, Handing, Below, Dnat, Fresh, Given, Clearing,
                None, Truncated
  <2>4. BothEnds' /\ UniqueNumbers' /\ PortsLeadToAsker'
    BY <2>1 DEF NumInv, BothEnds, UniqueNumbers, PortsLeadToAsker
  <2> QED
    BY <2>2, <2>3, <2>4 DEF NumInv
<1> QED
  BY <1>2, <1>3, <1>4, <1>5 DEF Stop

(* No other command uses a number.                                          *)
LEMMA OthersNumKeep ==
  ASSUME NEW p \in Proc, Shape, Named(p), NumInv(p), NetnsInv',
         Dispatch(p) \/ Build(p) \/ RemoveImage(p) \/ Run(p) \/ Exec(p) \/ Peer(p)
  PROVE  NumInv(p)'
<1> DEFINE quiet == {"idle", "build", "debootstrap", "fetching", "rmi",
                     "run", "run_mkdir", "run_copying", "run_mount", "run_unshare",
                     "exec", "exec_ps", "exec_pgrep", "nsenter", "peer"}
<1>1. UNCHANGED <<link, nat, highest>> /\ inv[p].pc \in quiet
  BY DEF At, Dispatch, Start, Build, BuildCheck, Debootstrap, Fetched, RemoveImage,
         Run, RunCheck, RunMkdir, RunCopy, RunMount, RunUnshare,
         Exec, ExecCheck, ExecPs, ExecPgrep, NsEnter, Peer, netVars, linkVars, ruleVars
<1>2. inv'[p].pc \in quiet \cup {"stop", "addnetwork"}
  <2>1. CASE Dispatch(p)
    BY <2>1, DispatchStarts
  <2>2. CASE ExecPs(p) \/ ExecPgrep(p)
    BY <2>2, Moves DEF ExecPs, ExecPgrep, Shape, Local
  <2> QED
    BY <2>1, <2>2, Moves
    DEF Build, BuildCheck, Debootstrap, Fetched, RemoveImage,
        Run, RunCheck, RunMkdir, RunCopy, RunMount, RunUnshare,
        Exec, ExecCheck, NsEnter, Peer, Test
<1> QED
  BY <1>1, <1>2, NumQuiet DEF LinksFade, Fresh, Given, Clearing

(* A link in /var/run/netns names processes.                                *)
LEMMA NetnsKeeps == Shape /\ NetnsInv /\ Next => NetnsInv'
<1> SUFFICES ASSUME Shape, NetnsInv, Next PROVE NetnsInv'
  OBVIOUS
<1>1. CASE UNCHANGED netns
  BY <1>1 DEF NetnsInv
<1>2. ASSUME NEW p \in Proc, NetLn(p) PROVE NetnsInv'
  <2>1. inv[p].pids \subseteq Pid
    BY DEF Shape, Local
  <2> QED
    BY <1>2, <2>1 DEF NetLn, NetnsInv
<1>3. ASSUME NEW p \in Proc, NetDone(p) PROVE NetnsInv'
  BY <1>3 DEF NetDone, NetnsInv
<1>4. ASSUME NEW p \in Proc, AddNetwork(p) PROVE UNCHANGED netns \/ NetLn(p) \/ NetDone(p)
  BY <1>4 DEF AddNetwork, NetDir, NetPs, NumRead, NumTruncate, NumWrite, LinkAdd,
              LinkMove, LinkUp, AddrOut, AddrIn, Internet, Expose, netVars, linkVars
<1>5. ASSUME NEW p \in Proc, Stop(p) PROVE UNCHANGED netns
  BY <1>5 DEF Stop, StopCheck, StopPs, StopLink, StopUnlink, StopKill, StopUmount, StopRm,
              StopLs, StopRmNum, StopForward, StopNat, netVars, linkVars
<1>6. ASSUME NEW p \in Proc,
             Dispatch(p) \/ Build(p) \/ RemoveImage(p) \/ Run(p) \/ Exec(p) \/ Peer(p)
      PROVE  UNCHANGED netns
  BY <1>6 DEF Dispatch, Start, Build, BuildCheck, Debootstrap, Fetched, RemoveImage,
              Run, RunCheck, RunMkdir, RunCopy, RunMount, RunUnshare,
              Exec, ExecCheck, ExecPs, ExecPgrep, NsEnter, Peer, netVars, linkVars
<1>7. ASSUME NEW k \in Session, StartUp(k) \/ SessionEnds(k) PROVE UNCHANGED netns
  BY <1>7 DEF StartUp, Fork, Chroot, SessionEnds, netVars, linkVars
<1> QED
  BY <1>1, <1>2, <1>3, <1>4, <1>5, <1>6, <1>7 DEF Next, Invocation

-----------------------------------------------------------------------------
(* Only stop takes rules away, and the numbering and the rules only go when *)
(* there is no directory left.                                              *)
ClearsLast(p) == inv[p].pc \in Clearing => Listed = {}

(* The one invocation finds no directory and makes none in between.         *)
LEMMA ClearsLastKept ==
  ASSUME NEW p \in Proc, Shape, ClearsLast(p), Dispatch(p) \/ Invocation(p)
  PROVE  ClearsLast(p)'
<1> USE DEF At
<1>1. CASE Dispatch(p)
  BY <1>1, DispatchStarts DEF ClearsLast, Clearing
<1>2. CASE Build(p) \/ RemoveImage(p) \/ Run(p) \/ Exec(p) \/ Peer(p)
  <2>1. inv'[p].pc \notin Clearing
    <3>1. CASE ExecPs(p) \/ ExecPgrep(p)
      BY <3>1, Moves DEF ExecPs, ExecPgrep, Shape, Local, Clearing
    <3> QED
      BY <1>2, <3>1, Moves
      DEF Build, BuildCheck, Debootstrap, Fetched, RemoveImage, Exec, ExecCheck, NsEnter,
          Run, RunCheck, RunMkdir, RunCopy, RunMount, RunUnshare, Peer, Test, Clearing
  <2> QED
    BY <2>1 DEF ClearsLast
<1>3. CASE AddNetwork(p)
  <2>1. inv'[p].pc \notin Clearing
    <3>1. CASE LinkMove(p) \/ NumRead(p) \/ NetPs(p)
      BY <3>1, Moves DEF LinkMove, NumRead, NetPs, Shape, Local, Clearing
    <3> QED
      BY <1>3, <3>1, Moves
      DEF AddNetwork, NetDir, NetLn, NumTruncate, NumWrite, LinkAdd, LinkUp, AddrOut, AddrIn,
          Internet, Expose, NetDone, Test, Clearing
  <2> QED
    BY <2>1 DEF ClearsLast
<1>4. CASE \/ StopCheck(p) \/ StopPs(p) \/ StopLink(p) \/ StopUnlink(p) \/ StopKill(p)
           \/ StopUmount(p) \/ StopRm(p) \/ StopNat(p)
  <2>1. inv'[p].pc \notin Clearing
    <3>1. CASE StopPs(p)
      BY <3>1 DEF StopPs, Shape, Local, Clearing
    <3>2. CASE StopKill(p)
      <4>1. \/ inv'[p] = [inv[p] EXCEPT !.pc = "stop_umount", !.pids = {}]
            \/ inv'[p] = Idle
        BY <3>2 DEF StopKill
      <4>2. inv[p] \in Local /\ Idle.pc = "idle"
        BY DEF Shape, Idle
      <4>3. inv'[p].pc \in {"stop_umount", "idle"}
        BY <4>1, <4>2 DEF Local
      <4> QED
        BY <4>3 DEF Clearing
    <3> QED
      BY <1>4, <3>1, <3>2, Moves
      DEF StopCheck, StopLink, StopUnlink, StopUmount, StopRm, StopNat, Test, Clearing
  <2> QED
    BY <2>1 DEF ClearsLast
<1>5. CASE StopLs(p)
  <2>1. UNCHANGED dir /\ (inv'[p].pc = "idle" \/ \A n \in Name : dir[n] = "absent")
    BY <1>5, Moves DEF StopLs, Test, dirVars
  <2> QED
    BY <2>1 DEF ClearsLast, Clearing, Listed
<1>6. CASE StopRmNum(p) \/ StopForward(p)
  <2>1. UNCHANGED dir /\ inv[p].pc \in Clearing
    BY <1>6 DEF StopRmNum, StopForward, dirVars, Clearing
  <2> QED
    BY <2>1 DEF ClearsLast, Listed
<1> QED
  BY <1>1, <1>2, <1>3, <1>4, <1>5, <1>6 DEF Invocation, Stop

SequentialInv(p) == NumInv(p) /\ ClearsLast(p)

(* There is no number and no rule at first.                                 *)
LEMMA InitSequentialInv ==
  ASSUME NEW p \in Proc, Init
  PROVE  SequentialInv(p)
<1> USE DEF Init, HostInit
<1>1. inv[p].pc = "idle"
  BY DEF Idle
<1>2. \A n \in Name : link[n] = NoLink
  OBVIOUS
<1>3. NoLink.outAddr = -1 /\ NoLink.inAddr = -1
  BY DEF NoLink
<1>4. Numbers(p) /\ Bounds(p) /\ Handing(p) /\ ClearsLast(p)
  BY <1>1, <1>2, <1>3 DEF Numbers, Bounds, Handing, Below, Dnat, None, Truncated,
                          Fresh, Given, Clearing, ClearsLast
<1>5. NetnsInv /\ BothEnds /\ UniqueNumbers /\ PortsLeadToAsker
  BY <1>2, <1>3 DEF NetnsInv, BothEnds, UniqueNumbers, PortsLeadToAsker
<1> QED
  BY <1>4, <1>5 DEF SequentialInv, NumInv

(* Every step of the one invocation and of the containers around it.        *)
LEMMA StepSequentialInv ==
  ASSUME NEW p \in Proc, Proc = {p}, ConductorInv, ApartInv, SequentialInv(p), [Next]_vars
  PROVE  SequentialInv(p)'
<1>1. Shape /\ DirInv(p) /\ NumInv(p) /\ Named(p) /\ ClearsLast(p)
  BY DEF ConductorInv, ApartInv, OwnInv, SequentialInv, DirInv
<1>2. CASE UNCHANGED vars
  <2>1. UNCHANGED <<inv, dir, link, nat, highest, netns>>
    BY <1>2 DEF vars, dirVars, netVars, linkVars, ruleVars
  <2>2. NumInv(p)' /\ ClearsLast(p)'
    BY <1>1, <2>1, NumQuiet DEF LinksFade, NumInv, NetnsInv, ClearsLast, Listed
  <2> QED
    BY <2>2 DEF SequentialInv
<1>3. ASSUME Next PROVE SequentialInv(p)'
  <2>1. NetnsInv'
    BY <1>1, <1>3, NetnsKeeps DEF NumInv
  <2>2. CASE Dispatch(p) \/ Invocation(p)
    <3>1. ClearsLast(p)'
      BY <1>1, <2>2, ClearsLastKept
    <3>2. CASE Dispatch(p) \/ Build(p) \/ RemoveImage(p) \/ Run(p) \/ Exec(p) \/ Peer(p)
      BY <1>1, <2>1, <3>1, <3>2, OthersNumKeep DEF SequentialInv
    <3>3. CASE Stop(p)
      BY <1>1, <2>1, <3>1, <3>3, StopNumKeeps DEF SequentialInv
    <3>4. CASE AddNetwork(p)
      BY <1>1, <2>1, <3>1, <3>4, NumberKeeps, LinkKeeps, AddressKeeps
      DEF SequentialInv, AddNetwork
    <3> QED
      BY <2>2, <3>2, <3>3, <3>4 DEF Invocation
  <2>3. ASSUME NEW k \in Session, StartUp(k) \/ SessionEnds(k) PROVE SequentialInv(p)'
    <3>1. UNCHANGED <<inv, dir, nat, highest>>
      BY <2>3 DEF StartUp, Fork, Chroot, SessionEnds, dirVars, netVars, ruleVars
    <3>2. LinksFade
      BY <1>1, <2>3, DirContainer
    <3>3. NumInv(p)' /\ ClearsLast(p)'
      BY <1>1, <2>1, <3>1, <3>2, NumQuiet DEF ClearsLast, Listed
    <3> QED
      BY <3>3 DEF SequentialInv
  <2> QED
    BY <1>3, <2>2, <2>3 DEF Next
<1> QED
  BY <1>2, <1>3

(* The invariant of one invocation at a time, for any number of containers,  *)
(* images and commands.                                                     *)
THEOREM SequentialInvariant ==
  ASSUME NEW p \in Proc, Proc = {p}
  PROVE  Spec => [](ApartInv /\ SequentialInv(p))
<1>1. Init => SequentialInv(p)
  BY InitSequentialInv
<1>2. ConductorInv /\ ApartInv /\ SequentialInv(p) /\ [Next]_vars => SequentialInv(p)'
  BY StepSequentialInv
<1>3. Spec => []ApartInv
  BY ApartInvariant DEF Apart
<1> QED
  BY <1>1, <1>2, <1>3, ConductorInvariant, PTL DEF Spec

(* One after the other, invocations give every container its own number.    *)
THEOREM NumbersUnique ==
  ASSUME NEW p \in Proc, Proc = {p}
  PROVE  Spec => []UniqueNumbers
<1>1. SequentialInv(p) => UniqueNumbers
  BY DEF SequentialInv, NumInv
<1> QED
  BY <1>1, SequentialInvariant, PTL

(* One after the other, they forward ports to the containers they were      *)
(* exposed for, though numbers are used again.                              *)
THEOREM PortsRight ==
  ASSUME NEW p \in Proc, Proc = {p}
  PROVE  Spec => []PortsLeadToAsker
<1>1. SequentialInv(p) => PortsLeadToAsker
  BY DEF SequentialInv, NumInv
<1> QED
  BY <1>1, SequentialInvariant, PTL

(* Only a stop takes rules of the FORWARD chain away.                       *)
LEMMA RulesGrow ==
  ASSUME Next, ~ \E p \in Proc : StopForward(p)
  PROVE  forward \subseteq forward'
<1>1. CASE UNCHANGED forward
  BY <1>1
<1>2. ASSUME NEW p \in Proc, Internet(p) \/ Expose(p) \/ Peer(p) PROVE forward \subseteq forward'
  BY <1>2 DEF Internet, Expose, Peer
<1>3. ASSUME NEW p \in Proc, AddNetwork(p)
      PROVE  UNCHANGED forward \/ Internet(p) \/ Expose(p)
  BY <1>3 DEF AddNetwork, NetDir, NetPs, NetLn, NumRead, NumTruncate, NumWrite, LinkAdd,
              LinkMove, LinkUp, AddrOut, AddrIn, NetDone, netVars, ruleVars
<1>4. ASSUME NEW p \in Proc, Stop(p) PROVE UNCHANGED forward
  BY <1>4 DEF Stop, StopCheck, StopPs, StopLink, StopUnlink, StopKill, StopUmount, StopRm,
              StopLs, StopRmNum, StopNat, netVars, ruleVars
<1>5. ASSUME NEW p \in Proc,
             Dispatch(p) \/ Build(p) \/ RemoveImage(p) \/ Run(p) \/ Exec(p)
      PROVE  UNCHANGED forward
  BY <1>5 DEF Dispatch, Start, Build, BuildCheck, Debootstrap, Fetched, RemoveImage,
              Run, RunCheck, RunMkdir, RunCopy, RunMount, RunUnshare,
              Exec, ExecCheck, ExecPs, ExecPgrep, NsEnter, netVars, ruleVars
<1>6. ASSUME NEW k \in Session, StartUp(k) \/ SessionEnds(k) PROVE UNCHANGED forward
  BY <1>6 DEF StartUp, Fork, Chroot, SessionEnds, netVars, ruleVars
<1> QED
  BY <1>1, <1>2, <1>3, <1>4, <1>5, <1>6 DEF Next, Invocation

(* One after the other, no stop takes a rule away that a container with a   *)
(* directory is named in.                                                   *)
THEOREM RulesStay ==
  ASSUME NEW p \in Proc, Proc = {p}
  PROVE  Spec => RulesOfOthersStay
<1>1. SequentialInv(p) /\ [Next]_vars =>
        [\A r \in forward \ forward' : r[1] \notin Listed /\ r[2] \notin Listed]_vars
  <2> SUFFICES ASSUME SequentialInv(p), Next, NEW r \in forward \ forward'
               PROVE  Listed = {}
    OBVIOUS
  <2>1. StopForward(p)
    BY RulesGrow
  <2> QED
    BY <2>1 DEF SequentialInv, ClearsLast, Clearing, StopForward, At
<1> QED
  BY <1>1, SequentialInvariant, PTL DEF Spec, RulesOfOthersStay

-----------------------------------------------------------------------------
(***************************************************************************)
(* The types, for any number of invocations that overlap in any way.  That *)
(* numbers and mounts stay bounded is a matter of counting: each           *)
(* addnetwork that is under way may still raise the number by one, and     *)
(* each run that has passed the test for the directory may still mount.    *)
(***************************************************************************)
Asking == {"addnetwork", "net_ps", "net_ln", "num_read"}
Askers == {q \in Proc : inv[q].pc \in Asking}
Mounting == {"run_mkdir", "run_copying", "run_mount"}
Mounters(n) == {q \in Proc : inv[q].pc \in Mounting /\ inv[q].name = n}
Most == MaxPrefix + Cardinality(Proc)

Counted ==
  /\ highest \in Nat \cup {None, Truncated} /\ highest + Cardinality(Askers) <= Most
  /\ \A q \in Proc : inv[q].num \in Nat /\ inv[q].num + Cardinality(Askers) <= Most
MountCount ==
  /\ Mounted
  /\ \A n \in Name : /\ dir[n] = "absent" => mounts[n] = 0
                     /\ mounts[n] + Cardinality(Mounters(n)) <= Cardinality(Proc)
Addresses ==
  \A n \in Name : link[n].outAddr \in Number \cup {-1} /\ link[n].inAddr \in Number \cup {-1}
(* What a step does to the invocations it is not of. *)
LEMMA OthersMove ==
  ASSUME Shape, NEW p \in Proc, Dispatch(p) \/ Invocation(p)
  PROVE  \A q \in Proc \ {p} :
           \/ inv'[q] = inv[q] \/ inv'[q] = Idle
           \/ inv[q].pc = "num_write" /\ inv'[q] = [inv[q] EXCEPT !.pc = "link_add"]
<1>1. CASE Dispatch(p)
  BY <1>1, DispatchOthers
<1>4. CASE Build(p) \/ RemoveImage(p) \/ Run(p) \/ Peer(p)
  BY <1>4
  DEF Build, BuildCheck, Debootstrap, Fetched, RemoveImage,
      Run, RunCheck, RunMkdir, RunCopy, RunMount, RunUnshare, Peer, Test, Goto, Exit, Shape
<1>5. CASE Exec(p)
  BY <1>5 DEF Exec, ExecCheck, ExecPs, ExecPgrep, NsEnter, Test, Goto, Exit, Shape
<1>6. CASE AddNetwork(p)
  <2>1. CASE LinkMove(p) \/ NumRead(p) \/ NetPs(p)
    BY <2>1 DEF LinkMove, NumRead, NetPs, Exit, Shape
  <2>2. CASE \/ NetDir(p) \/ NetLn(p) \/ NumTruncate(p) \/ NumWrite(p) \/ LinkAdd(p)
             \/ LinkUp(p) \/ AddrOut(p) \/ AddrIn(p) \/ Internet(p) \/ Expose(p) \/ NetDone(p)
    BY <2>2 DEF NetDir, NetLn, NumTruncate, NumWrite, LinkAdd, LinkUp, AddrOut, AddrIn,
                      Internet, Expose, NetDone, Test, Goto, Exit, Shape
  <2> QED
    BY <1>6, <2>1, <2>2 DEF AddNetwork
<1>7. CASE Stop(p)
  <2>1. CASE StopKill(p)
    BY <2>1 DEF StopKill
  <2>2. CASE StopRmNum(p)
    BY <2>2 DEF StopRmNum, At
  <2>3. CASE \/ StopCheck(p) \/ StopPs(p) \/ StopLink(p) \/ StopUnlink(p)
             \/ StopUmount(p) \/ StopRm(p) \/ StopLs(p) \/ StopForward(p) \/ StopNat(p)
    BY <2>3 DEF StopCheck, StopPs, StopLink, StopUnlink, StopUmount, StopRm, StopLs,
                      StopForward, StopNat, Test, Goto, Exit, Shape
  <2> QED
    BY <1>7, <2>1, <2>2, <2>3 DEF Stop
<1> QED
  BY <1>1, <1>4, <1>5, <1>6, <1>7 DEF Invocation

(* Where a command leads. *)
LEMMA OwnLabels ==
  ASSUME Shape, NEW p \in Proc, Invocation(p)
  PROVE  /\ inv'[p].pc \in Asking => inv[p].pc \in Asking \ {"num_read"}
         /\ inv'[p].pc \in Mounting => inv[p].pc \in Mounting \cup {"run"}
         /\ NumRead(p) \/ inv'[p].num \in {inv[p].num, 0}
<1> USE DEF At, Asking, Mounting
<1>0. Idle.pc = "idle" /\ Idle.num = 0
  BY DEF Idle
<1>9. ASSUME Exit(p) PROVE inv'[p].pc = "idle" /\ inv'[p].num = 0
  BY <1>0, <1>9 DEF Exit, Shape
<1>1. CASE Build(p) \/ RemoveImage(p) \/ Run(p) \/ Peer(p)
  BY <1>1, <1>9, Moves
  DEF Build, BuildCheck, Debootstrap, Fetched, RemoveImage,
      Run, RunCheck, RunMkdir, RunCopy, RunMount, RunUnshare, Peer, Test
<1>2. CASE Exec(p)
  <2>1. CASE ExecPs(p) \/ ExecPgrep(p)
    BY <1>9, <2>1 DEF ExecPs, ExecPgrep, Shape, Local
  <2> QED
    BY <1>2, <1>9, <2>1, Moves DEF Exec, ExecCheck, NsEnter, Test
<1>3. CASE AddNetwork(p)
  <2>1. CASE LinkMove(p) \/ NumRead(p) \/ NetPs(p)
    BY <1>9, <2>1 DEF LinkMove, NumRead, NetPs, Shape, Local
  <2> QED
    BY <1>3, <1>9, <2>1, Moves
    DEF AddNetwork, NetDir, NetLn, NumTruncate, NumWrite, LinkAdd, LinkUp, AddrOut, AddrIn,
        Internet, Expose, NetDone, Test
<1>4. CASE Stop(p)
  <2>1. CASE StopPs(p)
    BY <2>1 DEF StopPs, Shape, Local
  <2>2. CASE StopKill(p) \/ StopRmNum(p)
    <3>1. \/ inv'[p] = [inv[p] EXCEPT !.pc = "stop_umount", !.pids = {}]
          \/ inv'[p] = [inv[p] EXCEPT !.pc = "stop_forward"]
          \/ inv'[p] = Idle
      BY <2>2 DEF StopKill, StopRmNum
    <3>2. inv[p] \in Local
      BY DEF Shape
    <3> QED
      BY <1>0, <3>1, <3>2 DEF Local
  <2> QED
    BY <1>4, <1>9, <2>1, <2>2, Moves
    DEF Stop, StopCheck, StopLink, StopUnlink, StopUmount, StopRm, StopLs,
        StopForward, StopNat, Test
<1> QED
  BY <1>1, <1>2, <1>3, <1>4 DEF Invocation

(* The start of a command. *)
LEMMA DispatchNumbers ==
  ASSUME Shape, NEW p \in Proc, Dispatch(p)
  PROVE  /\ inv'[p].num = 0 /\ inv'[p].name \in Name \cup Image
         /\ inv'[p].pc \notin Mounting
         /\ inv'[p].pc \in Asking => Numbered
<1> DEFINE P(cmd, name, arg) == Start(p, cmd, name, arg)
<1>1. ASSUME NEW cmd, NEW name, NEW arg, P(cmd, name, arg)
      PROVE  /\ inv'[p].pc = cmd /\ inv'[p].num = 0 /\ inv'[p].name = name
             /\ cmd = "addnetwork" => Numbered
  BY <1>1 DEF Start, Shape, Idle
<1> HIDE DEF P
<1>2. \E cmd, arg : \E name \in Name \cup Image : P(cmd, name, arg)
  BY DEF Dispatch, P
<1>3. inv'[p].pc \in {"build", "rmi", "run", "stop", "exec", "addnetwork", "peer"}
  BY DispatchStarts
<1> QED
  BY <1>1, <1>2, <1>3 DEF Asking, Mounting

(* Counting invocations. *)
LEMMA Fewer ==
  ASSUME IsFiniteSet(Proc), NEW S \in SUBSET Proc, NEW T \in SUBSET S
  PROVE  /\ Cardinality(S) \in Nat /\ Cardinality(T) \in Nat /\ Cardinality(Proc) \in Nat
         /\ Cardinality(T) <= Cardinality(S) /\ Cardinality(S) <= Cardinality(Proc)
         /\ \A p \in S : p \notin T => Cardinality(T) + 1 <= Cardinality(S)
<1>1. IsFiniteSet(S) /\ Cardinality(S) <= Cardinality(Proc)
  BY FS_Subset
<1>2. IsFiniteSet(T) /\ Cardinality(T) <= Cardinality(S)
  BY <1>1, FS_Subset
<1>3. Cardinality(S) \in Nat /\ Cardinality(T) \in Nat /\ Cardinality(Proc) \in Nat
  BY <1>1, <1>2, FS_CardinalityType
<1>4. ASSUME NEW p \in S, p \notin T PROVE Cardinality(T) + 1 <= Cardinality(S)
  <2>1. IsFiniteSet(S \ {p}) /\ Cardinality(S \ {p}) = Cardinality(S) - 1
    BY <1>1, FS_RemoveElement
  <2>2. T \in SUBSET (S \ {p})
    BY <1>4
  <2>3. Cardinality(T) <= Cardinality(S \ {p})
    BY <2>1, <2>2, FS_Subset
  <2> QED
    BY <1>3, <2>1, <2>3
<1> QED
  BY <1>1, <1>2, <1>3, <1>4

(* Only the start of addnetwork adds to those that will ask for a number,
   and reading the number takes one away. *)
LEMMA AskersMove ==
  ASSUME Shape, NEW p \in Proc, Dispatch(p) \/ Invocation(p)
  PROVE  /\ Askers' \subseteq Proc /\ Askers \subseteq Proc
         /\ inv'[p].pc \notin Asking \/ Invocation(p) => Askers' \subseteq Askers
         /\ NumRead(p) => p \in Askers /\ p \notin Askers'
<1>1. \A q \in Proc \ {p} : q \in Askers' => q \in Askers
  <2>1. Idle.pc = "idle" /\ \A q \in Proc : inv[q] \in Local
    BY DEF Idle, Shape
  <2> QED
    BY <2>1, OthersMove DEF Askers, Asking, Local
<1>2. Askers' \subseteq Proc /\ Askers \subseteq Proc
  BY DEF Askers
<1>3. p \in Askers' => inv'[p].pc \in Asking
  BY DEF Askers
<1>4. ASSUME Invocation(p), p \in Askers' PROVE p \in Askers
  BY <1>3, <1>4, OwnLabels DEF Askers
<1>5. ASSUME NumRead(p) PROVE p \in Askers /\ p \notin Askers'
  <2>1. inv[p].pc = "num_read"
    BY <1>5 DEF NumRead, At
  <2>2. inv'[p].pc \notin Asking
    BY <1>5 DEF NumRead, Shape, Local, Asking
  <2> QED
    BY <2>1, <2>2 DEF Askers, Asking
<1> QED
  BY <1>1, <1>2, <1>3, <1>4, <1>5

(* The numbers stay within what the invocations under way can reach. *)
LEMMA CountedKept ==
  ASSUME IsFiniteSet(Proc), Shape, Counted, NEW p \in Proc, Dispatch(p) \/ Invocation(p)
  PROVE  Counted'
<1> DEFINE a == Cardinality(Askers)
           b == Cardinality(Askers')
           c == Cardinality(Proc)
<1>1. /\ a \in Nat /\ b \in Nat /\ c \in Nat /\ b <= c /\ a <= c
      /\ inv'[p].pc \notin Asking \/ Invocation(p) => b <= a
      /\ NumRead(p) => b + 1 <= a
  <2>1. Askers \in SUBSET Proc /\ Askers' \in SUBSET Proc
    BY AskersMove
  <2>2. a \in Nat /\ b \in Nat /\ c \in Nat /\ b <= c /\ a <= c
    <3> HIDE DEF Askers
    <3>1. Proc \in SUBSET Proc
      OBVIOUS
    <3> QED
      BY <2>1, Fewer
  <2>3. ASSUME Askers' \subseteq Askers
        PROVE  /\ b <= a
               /\ p \in Askers /\ p \notin Askers' => b + 1 <= a
    <3> HIDE DEF Askers
    <3> QED
      BY <2>1, <2>3, Fewer
  <2>4. NumRead(p) => Invocation(p)
    BY DEF Invocation, AddNetwork
  <2> QED
    BY <2>2, <2>3, <2>4, AskersMove
<1> HIDE DEF a, b
<1>2. MaxPrefix \in Nat /\ Most = MaxPrefix + c
  BY BoundsAssumption DEF Most
<1>3. /\ highest \in Nat \cup {None, Truncated} /\ highest + a <= Most
      /\ \A q \in Proc : inv[q].num \in Nat /\ inv[q].num + a <= Most
  BY DEF Counted, a
<1>4. \A q \in Proc \ {p} : inv'[q].num \in {inv[q].num, 0}
  <2> SUFFICES ASSUME NEW q \in Proc \ {p} PROVE inv'[q].num \in {inv[q].num, 0}
    OBVIOUS
  <2>1. Idle.num = 0 /\ inv[q] \in Local
    BY DEF Idle, Shape
  <2>2. \/ inv'[q] = inv[q] \/ inv'[q] = Idle
        \/ inv'[q] = [inv[q] EXCEPT !.pc = "link_add"]
    BY OthersMove
  <2> QED
    BY <2>1, <2>2 DEF Local
<1>5. SUFFICES /\ highest' \in Nat \cup {None, Truncated} /\ highest' + b <= Most
               /\ \A q \in Proc : inv'[q].num \in Nat /\ inv'[q].num + b <= Most
  BY DEF Counted, Most, b
<1> HIDE DEF c
<1>6. CASE Dispatch(p)
  <2>1. UNCHANGED highest /\ inv'[p].num = 0
    BY <1>6, DispatchNumbers DEF Dispatch, Start, netVars
  <2>2. CASE b <= a
    BY <1>1, <1>2, <1>3, <1>4, <2>1, <2>2 DEF None, Truncated
  <2>3. CASE Numbered
    BY <1>1, <1>2, <1>3, <1>4, <2>1, <2>3 DEF Numbered, None, Truncated
  <2> QED
    BY <1>1, <1>6, <2>2, <2>3, DispatchNumbers
<1>7. CASE Invocation(p) /\ ~NumRead(p)
  <2>1. inv'[p].num \in {inv[p].num, 0}
    BY <1>7, OwnLabels
  <2>2. \A q \in Proc : inv'[q].num \in Nat /\ inv'[q].num + b <= Most
    BY <1>1, <1>2, <1>3, <1>4, <1>7, <2>1
  <2>3. highest' \in {highest, None, Truncated, inv[p].num}
    BY <1>7 DEF Invocation, Build, BuildCheck, Debootstrap, Fetched, RemoveImage,
         Exec, ExecCheck, ExecPs, ExecPgrep, NsEnter, Peer,
         Run, RunCheck, RunMkdir, RunCopy, RunMount, RunUnshare,
         AddNetwork, NetDir, NetPs, NetLn, NumTruncate, NumWrite, LinkAdd,
         LinkMove, LinkUp, AddrOut, AddrIn, Internet, Expose, NetDone,
         Stop, StopCheck, StopPs, StopLink, StopUnlink, StopKill,
         StopUmount, StopRm, StopLs, StopRmNum, StopForward, StopNat, netVars, linkVars
  <2>4. inv[p].num \in Nat /\ inv[p].num + b <= Most /\ b <= a
    BY <1>1, <1>2, <1>3, <1>7
  <2>5. None + b <= Most /\ Truncated + b <= Most
    BY <1>1, <1>2 DEF None, Truncated
  <2>6. highest' \in Nat \cup {None, Truncated} /\ highest' + b <= Most
    <3>1. CASE highest' = highest
      BY <1>1, <1>2, <1>3, <2>4, <3>1 DEF None, Truncated
    <3> QED
      BY <2>3, <2>4, <2>5, <3>1
  <2> QED
    BY <2>2, <2>6
<1>8. CASE NumRead(p)
  <2>1. UNCHANGED highest
    BY <1>8 DEF NumRead, netVars
  <2>2. \/ highest = None /\ inv'[p].num = 1
        \/ highest = Truncated /\ inv'[p].num = 0
        \/ highest \in Nat /\ inv'[p].num = highest + 1
    BY <1>3, <1>8 DEF NumRead, Shape, Local, None, Truncated
  <2> QED
    BY <1>1, <1>2, <1>3, <1>4, <1>8, <2>1, <2>2 DEF None, Truncated
<1> QED
  BY <1>6, <1>7, <1>8

(* A run joins those that may still mount when it has found no directory,
   and mounting is the last it does among them. *)
LEMMA MountersMove ==
  ASSUME Shape, NEW p \in Proc, Dispatch(p) \/ Invocation(p), NEW n \in Name
  PROVE  /\ Mounters(n)' \subseteq Proc /\ Mounters(n) \subseteq Proc
         /\ Mounters(n)' \subseteq Mounters(n) \/ (RunCheck(p) /\ dir[n] = "absent")
         /\ RunMount(p) /\ inv[p].name = n => p \in Mounters(n) /\ p \notin Mounters(n)'
<1> USE DEF At
<1>1. \A q \in Proc \ {p} : q \in Mounters(n)' => q \in Mounters(n)
  <2>1. Idle.pc = "idle" /\ \A q \in Proc : inv[q] \in Local
    BY DEF Idle, Shape
  <2> QED
    BY <2>1, OthersMove DEF Mounters, Mounting, Local
<1>2. Mounters(n)' \subseteq Proc /\ Mounters(n) \subseteq Proc
  BY DEF Mounters
<1>3. ASSUME p \in Mounters(n)', p \notin Mounters(n)
      PROVE  RunCheck(p) /\ dir[n] = "absent"
  <2>1. inv'[p].pc \in Mounting /\ inv'[p].name = n
    BY <1>3 DEF Mounters
  <2>2. Invocation(p)
    BY <2>1, DispatchNumbers
  <2>3. inv'[p].name = inv[p].name
    BY <2>1, <2>2, InvocationMoves DEF OwnMove, Mounting
  <2>4. inv[p].pc = "run"
    BY <1>3, <2>1, <2>2, <2>3, OwnLabels DEF Mounters
  <2>5. RunCheck(p)
    BY <2>2, <2>4 DEF Invocation, Build, BuildCheck, Debootstrap, Fetched, RemoveImage,
         Exec, ExecCheck, ExecPs, ExecPgrep, NsEnter, Peer,
         Run, RunMkdir, RunCopy, RunMount, RunUnshare,
         AddNetwork, NetDir, NetPs, NetLn, NumRead, NumTruncate, NumWrite, LinkAdd,
         LinkMove, LinkUp, AddrOut, AddrIn, Internet, Expose, NetDone,
         Stop, StopCheck, StopPs, StopLink, StopUnlink, StopKill,
         StopUmount, StopRm, StopLs, StopRmNum, StopForward, StopNat
  <2>6. ~Exit(p)
    BY <2>1, Moves DEF Mounting
  <2> QED
    BY <2>1, <2>3, <2>5, <2>6 DEF RunCheck, Test
<1>4. ASSUME RunMount(p), inv[p].name = n PROVE p \in Mounters(n) /\ p \notin Mounters(n)'
  <2>1. inv'[p].pc \notin Mounting
    BY <1>4, Moves DEF RunMount, Mounting
  <2> QED
    BY <1>4, <2>1 DEF RunMount, Mounters, Mounting
<1> QED
  BY <1>1, <1>2, <1>3, <1>4

(* What becomes of directories and mounts. *)
LEMMA DirMountMove ==
  ASSUME MountCount, Directories, NEW p \in Proc, Named(p), Dispatch(p) \/ Invocation(p)
  PROVE  /\ Directories' /\ Mounted'
         /\ \A n \in Name :
              /\ dir'[n] = "absent" => dir[n] = "absent" \/ mounts'[n] = 0
              /\ \/ mounts'[n] <= mounts[n]
                 \/ /\ RunMount(p) /\ inv[p].name = n
                    /\ mounts'[n] = mounts[n] + 1 /\ dir'[n] # "absent"
<1> USE DEF At
<1> DEFINE m == inv[p].name
<1>1. \A n \in Name : mounts[n] \in Nat
  BY DEF MountCount, Mounted
<1>2. CASE UNCHANGED <<dir, mounts>>
  BY <1>1, <1>2 DEF MountCount, Mounted, Directories
<1>3. ASSUME Run(p) \/ Stop(p) PROVE m \in Name
  BY <1>3 DEF Named, Run, RunCheck, RunMkdir, RunCopy, RunMount, RunUnshare,
     Stop, StopCheck, StopPs, StopLink, StopUnlink, StopKill,
     StopUmount, StopRm, StopLs, StopRmNum, StopForward, StopNat
<1>4. CASE RunMkdir(p) \/ RunCopy(p)
  <2>1. UNCHANGED mounts /\ m \in Name
    BY <1>3, <1>4 DEF RunMkdir, RunCopy, Run
  <2>2. Directories' /\ \A n \in Name : dir'[n] = "absent" => dir[n] = "absent"
    BY <1>4, <2>1 DEF RunMkdir, RunCopy, Directories
  <2> QED
    BY <1>1, <2>1, <2>2 DEF MountCount, Mounted
<1>5. CASE RunMount(p)
  <2>1. UNCHANGED dir /\ m \in Name
    BY <1>3, <1>5 DEF RunMount, Run
  <2>2. \/ mounts' = mounts
        \/ dir[m] # "absent" /\ mounts' = [mounts EXCEPT ![m] = mounts[m] + 1]
    BY <1>5 DEF RunMount
  <2>3. CASE mounts' = mounts
    BY <1>2, <2>1, <2>3
  <2>4. CASE dir[m] # "absent" /\ mounts' = [mounts EXCEPT ![m] = mounts[m] + 1]
    <3>1. \A n \in Name : mounts'[n] = IF n = m THEN mounts[m] + 1 ELSE mounts[n]
      BY <2>4 DEF MountCount, Mounted
    <3>2. Mounted' /\ Directories'
      BY <1>1, <2>1, <2>4, <3>1 DEF MountCount, Mounted, Directories
    <3> QED
      BY <1>1, <1>5, <2>1, <2>4, <3>1, <3>2
  <2> QED
    BY <2>2, <2>3, <2>4
<1>6. CASE StopUmount(p)
  <2>1. /\ UNCHANGED dir /\ m \in Name
        /\ mounts' = [mounts EXCEPT ![m] = IF mounts[m] > 0 THEN mounts[m] - 1 ELSE 0]
    BY <1>3, <1>6 DEF StopUmount, Stop
  <2>2. \A n \in Name : mounts'[n] \in Nat /\ mounts'[n] <= mounts[n]
    BY <1>1, <2>1 DEF MountCount, Mounted
  <2> QED
    BY <2>1, <2>2 DEF MountCount, Mounted, Directories
<1>7. CASE StopRm(p)
  <2>1. /\ UNCHANGED mounts /\ m \in Name
        /\ dir' = [dir EXCEPT ![m] = IF mounts[m] > 0 THEN "partial" ELSE "absent"]
    BY <1>3, <1>7 DEF StopRm, Stop
  <2>2. Directories' /\ \A n \in Name \ {m} : dir'[n] = dir[n]
    BY <2>1 DEF Directories
  <2>3. dir'[m] = "absent" => mounts[m] = 0
    BY <1>1, <2>1 DEF Directories
  <2> QED
    BY <1>1, <2>1, <2>2, <2>3 DEF MountCount, Mounted
<1>8. CASE \/ RunCheck(p) \/ \E k \in Session : RunUnshare(p, k)
           \/ StopCheck(p) \/ StopPs(p) \/ StopLink(p) \/ StopUnlink(p) \/ StopKill(p)
           \/ StopLs(p) \/ StopRmNum(p) \/ StopForward(p) \/ StopNat(p)
  BY <1>2, <1>8 DEF RunCheck, RunUnshare, StopCheck, StopPs, StopLink, StopUnlink, StopKill,
     StopLs, StopRmNum, StopForward, StopNat, dirVars
<1>9. CASE Dispatch(p) \/ Build(p) \/ RemoveImage(p) \/ Exec(p) \/ AddNetwork(p) \/ Peer(p)
  BY <1>2, <1>9
  DEF Dispatch, Start, Build, BuildCheck, Debootstrap, Fetched, RemoveImage,
      Exec, ExecCheck, ExecPs, ExecPgrep, NsEnter, Peer,
      AddNetwork, NetDir, NetPs, NetLn, NumRead, NumTruncate, NumWrite, LinkAdd,
      LinkMove, LinkUp, AddrOut, AddrIn, Internet, Expose, NetDone, dirVars
<1> QED
  BY <1>4, <1>5, <1>6, <1>7, <1>8, <1>9 DEF Invocation, Run, Stop

(* The mounts on a container stay within the invocations. *)
LEMMA MountCountKept ==
  ASSUME IsFiniteSet(Proc), Shape, MountCount, Directories, NEW p \in Proc, Named(p),
         Dispatch(p) \/ Invocation(p)
  PROVE  MountCount' /\ Directories'
<1>1. Directories' /\ Mounted'
  BY DirMountMove
<1> SUFFICES ASSUME NEW n \in Name
             PROVE  /\ dir'[n] = "absent" => mounts'[n] = 0
                    /\ mounts'[n] + Cardinality(Mounters(n)') <= Cardinality(Proc)
  BY <1>1 DEF MountCount
<1> DEFINE a == Cardinality(Mounters(n))
           b == Cardinality(Mounters(n)')
           c == Cardinality(Proc)
<1>2. /\ dir'[n] = "absent" => dir[n] = "absent" \/ mounts'[n] = 0
      /\ \/ mounts'[n] <= mounts[n]
         \/ /\ RunMount(p) /\ inv[p].name = n
            /\ mounts'[n] = mounts[n] + 1 /\ dir'[n] # "absent"
  BY DirMountMove
<1>3. /\ mounts[n] \in Nat /\ mounts'[n] \in Nat
      /\ dir[n] = "absent" => mounts[n] = 0
      /\ mounts[n] + a <= c
  BY <1>1 DEF MountCount, Mounted
<1>4. /\ a \in Nat /\ b \in Nat /\ c \in Nat /\ b <= c
      /\ b <= a \/ (RunCheck(p) /\ dir[n] = "absent")
      /\ RunMount(p) /\ inv[p].name = n => b + 1 <= a
  <2>1. /\ Mounters(n) \in SUBSET Proc /\ Mounters(n)' \in SUBSET Proc
        /\ Mounters(n)' \subseteq Mounters(n) \/ (RunCheck(p) /\ dir[n] = "absent")
        /\ RunMount(p) /\ inv[p].name = n => p \in Mounters(n) /\ p \notin Mounters(n)'
        /\ RunMount(p) => ~RunCheck(p)
    <3>1. RunMount(p) => ~RunCheck(p)
      BY DEF RunMount, RunCheck, At
    <3> QED
      BY <3>1, MountersMove
  <2> DEFINE S == Mounters(n)
             T == Mounters(n)'
  <2> HIDE DEF S, T
  <2>2. S \in SUBSET Proc /\ T \in SUBSET Proc /\ Proc \in SUBSET Proc
    BY <2>1 DEF S, T
  <2>3. Cardinality(S) \in Nat /\ Cardinality(T) \in Nat /\ c \in Nat /\ Cardinality(T) <= c
    BY <2>2, Fewer
  <2>4. ASSUME T \subseteq S
        PROVE  /\ Cardinality(T) <= Cardinality(S)
               /\ p \in S /\ p \notin T => Cardinality(T) + 1 <= Cardinality(S)
    BY <2>2, <2>4, Fewer
  <2> QED
    BY <2>1, <2>3, <2>4 DEF S, T
<1> HIDE DEF a, b, c
<1>5. mounts'[n] + b <= c
  <2>1. CASE mounts'[n] <= mounts[n] /\ b <= a
    BY <1>3, <1>4, <2>1
  <2>2. CASE mounts'[n] <= mounts[n] /\ dir[n] = "absent"
    BY <1>3, <1>4, <2>2
  <2>3. CASE mounts'[n] = mounts[n] + 1 /\ b + 1 <= a
    BY <1>3, <1>4, <2>3
  <2> QED
    BY <1>2, <1>4, <2>1, <2>2, <2>3
<1>6. dir'[n] = "absent" => mounts'[n] = 0
  BY <1>2, <1>3
<1> QED
  BY <1>5, <1>6 DEF b, c

(* A command that is not about images is about a container, and no command
   changes what the next is about. *)
LEMMA NamesKept ==
  ASSUME Shape, NEW p \in Proc, Dispatch(p) \/ Invocation(p),
         \A q \in Proc : Named(q) /\ inv[q].name \in Name \cup Image \cup {"-"}
  PROVE  \A q \in Proc : Named(q)' /\ inv'[q].name \in Name \cup Image \cup {"-"}
<1> USE DEF At
<1>1. ASSUME NEW q \in Proc \ {p}
      PROVE  Named(q)' /\ inv'[q].name \in Name \cup Image \cup {"-"}
  <2>1. inv[q] \in Local /\ Idle.pc = "idle" /\ Idle.name = "-"
    BY DEF Shape, Idle
  <2>2. /\ inv'[q].name \in {inv[q].name, "-"}
        /\ \/ inv'[q].pc = "idle"
           \/ inv'[q].pc = inv[q].pc /\ inv'[q].name = inv[q].name
           \/ inv[q].pc = "num_write" /\ inv'[q].name = inv[q].name
    <3>1. \/ inv'[q] = inv[q] \/ inv'[q] = Idle
          \/ inv[q].pc = "num_write" /\ inv'[q] = [inv[q] EXCEPT !.pc = "link_add"]
      BY OthersMove
    <3>2. CASE inv'[q] = inv[q] \/ inv'[q] = Idle
      BY <2>1, <3>2
    <3>3. CASE inv[q].pc = "num_write" /\ inv'[q] = [inv[q] EXCEPT !.pc = "link_add"]
      BY <2>1, <3>3 DEF Local
    <3> QED
      BY <3>1, <3>2, <3>3
  <2> QED
    BY <2>2 DEF Named
<1>2. CASE Dispatch(p)
  BY <1>1, <1>2, DispatchStarts, DispatchNumbers
<1>3. CASE Invocation(p)
  <2>1. \/ inv'[p].pc = "idle" /\ inv'[p].name = "-"
        \/ inv'[p].name = inv[p].name
    BY <1>3, InvocationMoves DEF OwnMove
  <2>2. CASE Build(p) \/ RemoveImage(p)
    <3>1. inv'[p].pc \in {"idle", "debootstrap", "fetching"}
      BY <2>2, Moves DEF Build, BuildCheck, Debootstrap, Fetched, RemoveImage, Test
    <3> QED
      BY <1>1, <2>1, <3>1 DEF Named
  <2>3. CASE ~(Build(p) \/ RemoveImage(p))
    <3>1. inv[p].pc \notin {"idle", "build", "debootstrap", "fetching", "rmi"}
      BY <1>3, <2>3 DEF Invocation, Exec, ExecCheck, ExecPs, ExecPgrep, NsEnter, Peer,
         Run, RunCheck, RunMkdir, RunCopy, RunMount, RunUnshare,
         AddNetwork, NetDir, NetPs, NetLn, NumRead, NumTruncate, NumWrite, LinkAdd,
         LinkMove, LinkUp, AddrOut, AddrIn, Internet, Expose, NetDone,
         Stop, StopCheck, StopPs, StopLink, StopUnlink, StopKill,
         StopUmount, StopRm, StopLs, StopRmNum, StopForward, StopNat
    <3> QED
      BY <1>1, <2>1, <3>1 DEF Named
  <2> QED
    BY <2>2, <2>3
<1> QED
  BY <1>2, <1>3

SessionNames == \A k \in Session : session[k].name \in Name \cup {"-"}

(* Containers take the names that run is given. *)
LEMMA SessionNamesKept ==
  ASSUME Shape, SessionNames, \A p \in Proc : Named(p), Next
  PROVE  SessionNames'
<1>0. Dead.name = "-"
  BY DEF Dead
<1>1. CASE UNCHANGED session
  BY <1>1 DEF SessionNames
<1>2. ASSUME NEW p \in Proc, NEW k \in Session, RunUnshare(p, k) PROVE SessionNames'
  <2>1. /\ inv[p].name \in Name
        /\ session' = [session EXCEPT ![k] = [name |-> inv[p].name, stage |-> "unshare"]]
    BY <1>2 DEF RunUnshare, Named, At
  <2> QED
    BY <2>1 DEF SessionNames, Shape
<1>3. ASSUME NEW p \in Proc, StopKill(p) PROVE SessionNames'
  <2>1. \A k \in Session : session'[k] \in {session[k], Dead}
    BY <1>3 DEF StopKill
  <2> QED
    BY <1>0, <2>1 DEF SessionNames
<1>4. ASSUME NEW k \in Session, StartUp(k) \/ SessionEnds(k) PROVE SessionNames'
  <2>1. \/ session' = [session EXCEPT ![k] = Dead]
        \/ \E to : session' = [session EXCEPT ![k].stage = to]
    BY <1>4 DEF StartUp, Fork, Chroot, SetStage, SessionEnds
  <2> QED
    BY <1>0, <2>1 DEF SessionNames, Shape
<1>5. ASSUME NEW p \in Proc, Dispatch(p) \/ Invocation(p)
      PROVE  UNCHANGED session \/ StopKill(p) \/ \E k \in Session : RunUnshare(p, k)
  BY <1>5 DEF Dispatch, Start, Invocation, Build, BuildCheck, Debootstrap, Fetched, RemoveImage,
         Exec, ExecCheck, ExecPs, ExecPgrep, NsEnter, Peer,
         Run, RunCheck, RunMkdir, RunCopy, RunMount,
         AddNetwork, NetDir, NetPs, NetLn, NumRead, NumTruncate, NumWrite, LinkAdd,
         LinkMove, LinkUp, AddrOut, AddrIn, Internet, Expose, NetDone,
         Stop, StopCheck, StopPs, StopLink, StopUnlink,
         StopUmount, StopRm, StopLs, StopRmNum, StopForward, StopNat
<1> QED
  BY <1>1, <1>2, <1>3, <1>4, <1>5 DEF Next

(* An address is a number an invocation has been given. *)
LEMMA AddressesKept ==
  ASSUME Shape, Addresses, \A p \in Proc : inv[p].num \in Number, Next
  PROVE  Addresses'
<1> DEFINE Known(a) == a \in Number \cup {-1}
<1>0. NoLink.outAddr = -1 /\ NoLink.inAddr = -1 /\ NewLink.outAddr = -1 /\ NewLink.inAddr = -1
  BY DEF NoLink, NewLink
<1>1. CASE \A n \in Name : link'[n] \in {link[n], NoLink, NewLink}
  BY <1>0, <1>1 DEF Addresses
<1>2. ASSUME NEW p \in Proc, LinkMove(p) \/ AddrOut(p) \/ AddrIn(p) PROVE Addresses'
  <2>1. \A n \in Name : /\ link'[n].outAddr \in {link[n].outAddr, inv[p].num}
                        /\ link'[n].inAddr \in {link[n].inAddr, inv[p].num}
    BY <1>2 DEF LinkMove, AddrOut, AddrIn, Shape
  <2> QED
    BY <2>1 DEF Addresses
<1>3. ASSUME NEW p \in Proc, Dispatch(p) \/ Invocation(p)
      PROVE  \/ UNCHANGED link \/ LinkAdd(p) \/ StopUnlink(p) \/ StopKill(p)
             \/ LinkMove(p) \/ AddrOut(p) \/ AddrIn(p)
  BY <1>3 DEF Dispatch, Start, Invocation, Build, BuildCheck, Debootstrap, Fetched, RemoveImage,
         Exec, ExecCheck, ExecPs, ExecPgrep, NsEnter, Peer,
         Run, RunCheck, RunMkdir, RunCopy, RunMount, RunUnshare,
         AddNetwork, NetDir, NetPs, NetLn, NumRead, NumTruncate, NumWrite,
         LinkUp, Internet, Expose, NetDone,
         Stop, StopCheck, StopPs, StopLink,
         StopUmount, StopRm, StopLs, StopRmNum, StopForward, StopNat, netVars, linkVars
<1>4. ASSUME NEW p \in Proc, UNCHANGED link \/ LinkAdd(p) \/ StopUnlink(p) \/ StopKill(p)
      PROVE  \A n \in Name : link'[n] \in {link[n], NoLink, NewLink}
  BY <1>4 DEF LinkAdd, StopUnlink, StopKill, LinksWithout, Shape
<1>5. ASSUME NEW k \in Session, StartUp(k) \/ SessionEnds(k)
      PROVE  \A n \in Name : link'[n] \in {link[n], NoLink}
  BY <1>5 DEF StartUp, Fork, Chroot, SessionEnds, LinksWithout, netVars, linkVars
<1> QED
  BY <1>1, <1>2, <1>3, <1>4, <1>5 DEF Next

HostKinds ==
  /\ image \in [Image -> {"absent", "partial", "complete"}]
  /\ devWiped \in BOOLEAN /\ netnsDir \in BOOLEAN
  /\ policy \in {"ACCEPT", "DROP"}

(* The rest of the host. *)
LEMMA HostKindsKept ==
  ASSUME HostKinds, Next
  PROVE  HostKinds'
<1>1. CASE UNCHANGED <<image, devWiped, netnsDir, policy>>
  BY <1>1 DEF HostKinds
<1>2. ASSUME NEW p \in Proc, Debootstrap(p) \/ Fetched(p) \/ RemoveImage(p) PROVE HostKinds'
  <2>1. UNCHANGED <<devWiped, netnsDir, policy>>
    BY <1>2 DEF Debootstrap, Fetched, RemoveImage, netVars, linkVars, ruleVars
  <2>2. image' \in [Image -> {"absent", "partial", "complete"}]
    BY <1>2 DEF Debootstrap, Fetched, RemoveImage, HostKinds
  <2> QED
    BY <2>1, <2>2 DEF HostKinds
<1>3. ASSUME NEW p \in Proc, StopRm(p) PROVE HostKinds'
  <2>1. UNCHANGED <<image, netnsDir, policy>>
    BY <1>3 DEF StopRm, netVars, linkVars, ruleVars
  <2>2. devWiped' \in BOOLEAN
    BY <1>3 DEF StopRm
  <2> QED
    BY <2>1, <2>2 DEF HostKinds
<1>4. ASSUME NEW p \in Proc, NetDir(p) \/ NetDone(p) \/ StopForward(p) PROVE HostKinds'
  <2>1. UNCHANGED <<image, devWiped>>
    BY <1>4 DEF NetDir, NetDone, StopForward, dirVars
  <2>2. netnsDir' \in BOOLEAN
    BY <1>4 DEF NetDir, NetDone, StopForward, HostKinds, linkVars
  <2>3. policy' \in {"ACCEPT", "DROP"}
    BY <1>4 DEF NetDir, NetDone, StopForward, HostKinds, ruleVars
  <2> QED
    BY <2>1, <2>2, <2>3 DEF HostKinds
<1>5. ASSUME NEW p \in Proc, Dispatch(p) \/ Invocation(p)
      PROVE  \/ Debootstrap(p) \/ Fetched(p) \/ RemoveImage(p)
             \/ StopRm(p) \/ NetDir(p) \/ NetDone(p) \/ StopForward(p)
             \/ UNCHANGED <<image, devWiped, netnsDir, policy>>
  BY <1>5 DEF Dispatch, Start, Invocation, Build, BuildCheck,
         Exec, ExecCheck, ExecPs, ExecPgrep, NsEnter, Peer,
         Run, RunCheck, RunMkdir, RunCopy, RunMount, RunUnshare,
         AddNetwork, NetPs, NetLn, NumRead, NumTruncate, NumWrite, LinkAdd,
         LinkMove, LinkUp, AddrOut, AddrIn, Internet, Expose,
         Stop, StopCheck, StopPs, StopLink, StopUnlink, StopKill,
         StopUmount, StopLs, StopRmNum, StopNat, dirVars, netVars, linkVars, ruleVars
<1>6. ASSUME NEW k \in Session, StartUp(k) \/ SessionEnds(k)
      PROVE  UNCHANGED <<image, devWiped, netnsDir, policy>>
  BY <1>6 DEF StartUp, Fork, Chroot, SessionEnds, dirVars, netVars, linkVars, ruleVars
<1> QED
  BY <1>1, <1>2, <1>3, <1>4, <1>5, <1>6 DEF Next

TypeInv ==
  /\ Counted /\ MountCount /\ Directories /\ NetnsInv
  /\ SessionNames /\ Addresses /\ HostKinds
  /\ \A p \in Proc : Named(p) /\ inv[p].name \in Name \cup Image \cup {"-"}

(* What the counting bounds. *)
LEMMA NumbersBounded ==
  ASSUME IsFiniteSet(Proc), Counted
  PROVE  /\ \A p \in Proc : inv[p].num \in Number
         /\ highest \in Number \cup {None, Truncated}
<1>1. Askers \in SUBSET Proc /\ Proc \in SUBSET Proc
  BY DEF Askers
<1>2. Cardinality(Askers) \in Nat /\ Cardinality(Proc) \in Nat
  <2> HIDE DEF Askers
  <2> QED
    BY <1>1, Fewer
<1> QED
  BY <1>2, BoundsAssumption DEF Counted, Most, Number

(* With that, everything has its type. *)
LEMMA TypeInvImplies ==
  ASSUME IsFiniteSet(Proc), Shape, TypeInv
  PROVE  TypeOK
<1>1. \A p \in Proc :
        /\ inv[p].pc \in Pc /\ inv[p].name \in Name \cup Image \cup {"-"}
        /\ inv[p].arg \in Name \cup Image \cup NetOptions \cup {"-"}
        /\ inv[p].pids \subseteq Pid /\ inv[p].num \in Number
  <2>1. \A p \in Proc : inv[p] \in Local
    BY DEF Shape
  <2> QED
    BY <2>1, NumbersBounded DEF TypeInv, Local, Argument
<1>2. mounts \in [Name -> 0 .. Cardinality(Proc)]
  <2>1. ASSUME NEW n \in Name PROVE mounts[n] \in 0 .. Cardinality(Proc)
    <3>1. Mounters(n) \in SUBSET Proc
      BY DEF Mounters
    <3>2. Cardinality(Mounters(n)) \in Nat /\ Cardinality(Proc) \in Nat
      <4> DEFINE S == Mounters(n)
      <4> HIDE DEF S
      <4>1. S \in SUBSET Proc /\ Proc \in SUBSET Proc
        BY <3>1 DEF S
      <4>2. Cardinality(S) \in Nat /\ Cardinality(Proc) \in Nat
        BY <4>1, Fewer
      <4> QED
        BY <4>2 DEF S
    <3>3. mounts[n] \in Nat /\ mounts[n] + Cardinality(Mounters(n)) <= Cardinality(Proc)
      BY DEF TypeInv, MountCount, Mounted
    <3> QED
      BY <3>2, <3>3
  <2> QED
    BY <2>1 DEF TypeInv, MountCount, Mounted
<1>3. session \in [Session -> [name : Name \cup {"-"}, stage : Stage]]
  BY DEF Shape, TypeInv, SessionNames
<1>4. link \in [Name -> [inside : -1 .. MaxSession, outAddr : Number \cup {-1},
                         inAddr : Number \cup {-1}]]
  <2>1. Session \cup {-1, 0} \subseteq -1 .. MaxSession
    BY BoundsAssumption DEF Session
  <2> HIDE DEF Number
  <2> QED
    BY <2>1 DEF Shape, TypeInv, Addresses
<1>5. /\ image \in [Image -> {"absent", "partial", "complete"}]
      /\ dir \in [Name -> {"absent", "partial", "full"}] /\ devWiped \in BOOLEAN
      /\ netnsDir \in BOOLEAN /\ netns \in [Name -> SUBSET Pid] /\ policy \in {"ACCEPT", "DROP"}
  BY DEF TypeInv, HostKinds, Directories, NetnsInv
<1>6. highest \in Number \cup {None, Truncated}
  BY NumbersBounded DEF TypeInv
<1> QED
  BY <1>1, <1>2, <1>3, <1>4, <1>5, <1>6 DEF TypeOK

(* At first there are no numbers and no mounts. *)
LEMMA InitTypeInv == ASSUME IsFiniteSet(Proc), Init PROVE TypeInv
<1> USE DEF Init, HostInit
<1>0. /\ Idle.pc = "idle" /\ Idle.name = "-" /\ Idle.num = 0
      /\ NoLink.outAddr = -1 /\ NoLink.inAddr = -1
  BY DEF Idle, NoLink
<1>1. Cardinality(Proc) \in Nat /\ Cardinality({}) = 0
  BY FS_CardinalityType, FS_EmptySet
<1>2. Askers = {} /\ \A n \in Name : Mounters(n) = {}
  BY <1>0 DEF Askers, Mounters, Asking, Mounting
<1>3. Counted
  BY <1>0, <1>1, <1>2, BoundsAssumption DEF Counted, Most, None, Truncated
<1>4. MountCount
  BY <1>1, <1>2 DEF MountCount, Mounted
<1>5. SessionNames /\ Addresses /\ Directories /\ NetnsInv
  BY <1>0 DEF SessionNames, Addresses, Directories, NetnsInv
<1>6. HostKinds
  BY DEF HostKinds
<1>7. \A p \in Proc : Named(p) /\ inv[p].name \in Name \cup Image \cup {"-"}
  BY <1>0 DEF Named
<1> QED
  BY <1>3, <1>4, <1>5, <1>6, <1>7 DEF TypeInv

(* Every step keeps the types. *)
LEMMA StepTypeInv ==
  ASSUME IsFiniteSet(Proc), Shape, TypeInv, [Next]_vars
  PROVE  TypeInv'
<1>1. CASE Next
  <2>1. SessionNames' /\ HostKinds' /\ NetnsInv'
    BY <1>1, SessionNamesKept, HostKindsKept, NetnsKeeps DEF TypeInv
  <2>2. Addresses'
    <3>1. \A p \in Proc : inv[p].num \in Number
      BY NumbersBounded DEF TypeInv
    <3> QED
      BY <1>1, <3>1, AddressesKept DEF TypeInv
  <2>3. CASE \E p \in Proc : Dispatch(p) \/ Invocation(p)
    <3>1. PICK p \in Proc : Dispatch(p) \/ Invocation(p)
      BY <2>3
    <3>2. \A q \in Proc : Named(q)' /\ inv'[q].name \in Name \cup Image \cup {"-"}
      BY <3>1, NamesKept DEF TypeInv
    <3>3. Counted'
      BY <3>1, CountedKept DEF TypeInv
    <3>4. MountCount' /\ Directories'
      BY <3>1, MountCountKept DEF TypeInv
    <3> QED
      BY <2>1, <2>2, <3>2, <3>3, <3>4 DEF TypeInv
  <2>4. CASE \E k \in Session : StartUp(k) \/ SessionEnds(k)
    <3>1. UNCHANGED <<inv, dir, mounts, highest>>
      BY <2>4 DEF StartUp, Fork, Chroot, SessionEnds, dirVars, netVars
    <3>2. Askers' = Askers /\ \A n \in Name : Mounters(n)' = Mounters(n)
      BY <3>1 DEF Askers, Mounters
    <3>3. Counted' /\ MountCount' /\ Directories'
      BY <3>1, <3>2 DEF TypeInv, Counted, MountCount, Mounted, Directories, Most
    <3> QED
      BY <2>1, <2>2, <3>1, <3>3 DEF TypeInv, Named
  <2> QED
    BY <1>1, <2>3, <2>4 DEF Next
<1>2. CASE UNCHANGED vars
  <2>1. UNCHANGED <<inv, dir, mounts, highest, session, link, netns, image, devWiped,
                    netnsDir, policy>>
    BY <1>2 DEF vars, dirVars, netVars, linkVars, ruleVars
  <2>2. Askers' = Askers /\ \A n \in Name : Mounters(n)' = Mounters(n)
    BY <2>1 DEF Askers, Mounters
  <2>3. Counted' /\ MountCount' /\ Directories' /\ NetnsInv'
    BY <2>1, <2>2 DEF TypeInv, Counted, MountCount, Mounted, Directories, Most, NetnsInv
  <2>4. SessionNames' /\ Addresses' /\ HostKinds'
    BY <2>1 DEF TypeInv, SessionNames, Addresses, HostKinds
  <2> QED
    BY <2>1, <2>3, <2>4 DEF TypeInv, Named
<1> QED
  BY <1>1, <1>2

(* TypeOK, for any finite set of invocations. *)
THEOREM TypeCorrect == ASSUME IsFiniteSet(Proc) PROVE Spec => []TypeOK
<1>1. Init => TypeInv
  BY InitTypeInv
<1>2. Shape /\ TypeInv /\ [Next]_vars => TypeInv'
  BY StepTypeInv
<1>3. Shape /\ TypeInv => TypeOK
  BY TypeInvImplies
<1>4. ConductorInv => Shape
  BY DEF ConductorInv
<1> QED
  BY <1>1, <1>2, <1>3, <1>4, ConductorInvariant, PTL DEF Spec

-----------------------------------------------------------------------------
(***************************************************************************)
(* service-orchestrator.sh drives conductor.sh as any user might, so what  *)
(* holds of conductor.sh for every user holds of the deployment, in the    *)
(* script's hurry and after it.                                            *)
(***************************************************************************)
LineInv == line \in 1 .. Administered

(* The script has the eleven lines its positions stand for. *)
LEMMA ElevenLines == Deployed = 12 /\ Administered = 13
  BY DEF Deployed, Administered, Lines

(* Wherever there is an idle process, there is a first one. *)
LEMMA FirstIsIdle ==
  ASSUME \E q \in Proc : At(q, "idle")
  PROVE  FirstIdle \in Proc
  BY DEF FirstIdle

(* No step takes the script to a line it does not have.                     *)
LEMMA StepLineInv == LineInv /\ [OrchestratorNext]_ovars => LineInv'
<1> SUFFICES ASSUME LineInv, [OrchestratorNext]_ovars PROVE LineInv'
  OBVIOUS
<1>1. CASE UNCHANGED line
  BY <1>1, ElevenLines DEF LineInv, Administered, Lines
<1>2. CASE line < Deployed /\ line' = line + 1
  BY <1>2, ElevenLines DEF LineInv
<1>3. CASE line' = Administered
  BY <1>3, ElevenLines DEF LineInv
<1> QED
  BY <1>1, <1>2, <1>3
  DEF OrchestratorNext, Script, Conduct, Sleep, CopyServices, Ready, InvocationStep,
      ContainerStep, AskToStop, Administers, ovars, scriptVars

(* Each line that calls conductor.sh is a command its users may give.       *)
LEMMA ConductDispatches == LineInv /\ Conduct => FirstIdle \in Proc /\ Dispatch(FirstIdle)
<1> SUFFICES ASSUME LineInv, Conduct PROVE FirstIdle \in Proc /\ Dispatch(FirstIdle)
  OBVIOUS
<1>1. FirstIdle \in Proc
  BY FirstIsIdle DEF Conduct
<1>2. line \in 1 .. 11
  BY ElevenLines DEF LineInv, Conduct, Ready
<1> DEFINE P(cmd, name, arg) == Start(FirstIdle, cmd, name, arg)
<1> HIDE DEF P
<1>3. P(Current.cmd, Current.name, Current.arg) /\ Current.cmd \notin {"sleep", "cp"}
  <2>1. Current.cmd \in Commands
    BY DEF Conduct, Ready
  <2> QED
    BY <2>1, ScriptAssumption DEF Conduct, P
<1>4. \/ P("build", deb_img, "-")
      \/ \E n \in {c1, c2} : P("run", n, deb_img)
      \/ P("addnetwork", c1, "expose") \/ P("addnetwork", c2, "internet")
      \/ P("peer", c1, c2)
      \/ \E n \in {c1, c2} : P("exec", n, "-")
  BY <1>2, <1>3 DEF Current, Lines, Call
<1>5. Dispatch(FirstIdle)
  BY <1>4, NamesAssumption, ScriptAssumption DEF Dispatch, P
<1> QED
  BY <1>1, <1>5

(* One step of the deployment is one of conductor.sh's, or none.            *)
LEMMA StepIsConductor == LineInv /\ [OrchestratorNext]_ovars => [Next]_vars
<1> SUFFICES ASSUME LineInv, [OrchestratorNext]_ovars PROVE [Next]_vars
  OBVIOUS
<1>1. CASE UNCHANGED ovars
  BY <1>1 DEF ovars
<1>2. CASE Sleep \/ CopyServices
  BY <1>2 DEF Sleep, CopyServices
<1>3. CASE Conduct
  BY <1>3, ConductDispatches DEF Next
<1>4. ASSUME NEW p \in Proc, InvocationStep(p) PROVE Next
  BY <1>4 DEF InvocationStep, Next
<1>5. ASSUME NEW k \in Session, ContainerStep(k) PROVE Next
  BY <1>5 DEF ContainerStep, Next
<1>6. AllIdle => FirstIdle \in Proc
  BY FirstIsIdle, ScriptAssumption DEF AllIdle
<1>7. ASSUME NEW n \in Name, AskToStop(n) PROVE Next
  <2>1. FirstIdle \in Proc /\ Start(FirstIdle, "stop", n, "-")
    BY <1>6, <1>7 DEF AskToStop, Administers
  <2> DEFINE P(cmd) == Start(FirstIdle, cmd, n, "-")
  <2>2. \E cmd \in {"stop", "exec"} : P(cmd)
    <3>1. P("stop")
      BY <2>1
    <3> HIDE DEF P
    <3> QED
      BY <3>1
  <2>3. Dispatch(FirstIdle)
    BY <2>2 DEF Dispatch
  <2> QED
    BY <2>1, <2>3 DEF Next
<1>8. CASE Administers(Dispatch(FirstIdle) /\ inv'[FirstIdle].pc \in AdminCommands)
  BY <1>6, <1>8 DEF Administers, Next
<1> QED
  BY <1>1, <1>2, <1>3, <1>4, <1>5, <1>7, <1>8 DEF OrchestratorNext, Script

(* The deployment is a behaviour of conductor.sh and its users.             *)
THEOREM DrivesConductor == OrchestratorSpec => Spec
<1>1. OrchestratorInit => Init /\ LineInv
  BY ElevenLines DEF OrchestratorInit, LineInv
<1> QED
  BY <1>1, StepLineInv, StepIsConductor, PTL DEF OrchestratorSpec, Spec

(* However little ten seconds suffice for, the script never connects one    *)
(* container by the name of the other.                                      *)
THEOREM DeploymentLinksLeadHome == OrchestratorSpec => []LinkIntoOwnContainer
  BY DrivesConductor, LinksLeadHome, PTL
-----------------------------------------------------------------------------
(***************************************************************************)
(* What service-orchestrator.sh is for.  The argument follows the script:  *)
(* its two background runs each start at most one container, and a full    *)
(* directory has one, or a run that will still start it; ten seconds that  *)
(* were enough leave exactly those two, and nothing else moves; then each  *)
(* call finds what it looks for, because the ones before have done their   *)
(* work and no other call is under way, until the services enter.          *)
(***************************************************************************)
BuildPc == {"build", "debootstrap", "fetching"}
RunPc == {"run", "run_mkdir", "run_copying", "run_mount", "run_unshare"}
NetPc == {"addnetwork", "net_ps", "net_ln", "num_read", "num_truncate", "num_write", "link_add",
          "link_move", "link_up", "addr_out", "addr_in", "internet", "expose", "net_done"}
ExecPc == {"exec", "exec_ps", "exec_pgrep", "nsenter"}
Running(n) == {p \in Proc : inv[p].pc \in RunPc /\ inv[p].name = n}
Living(n) == {k \in Session : Alive(k) /\ session[k].name = n}
AtMostOne(S) == \A x, y \in S : x = y

(* The two runs and the containers they start: a full directory is that of
   a container, or of a run that will still start it. *)
Launch(n) ==
  /\ AtMostOne(Running(n)) /\ AtMostOne(Living(n))
  /\ Running(n) # {} => Living(n) = {}
  /\ dir[n] = "full" =>
       Living(n) # {} \/ \E p \in Running(n) : inv[p].pc \in {"run_mount", "run_unshare"}
Unlaunched(n) == Running(n) = {} /\ Living(n) = {} /\ dir[n] = "absent"
Launching ==
  /\ \A p \in Proc : inv[p].pc \in {"idle"} \cup BuildPc \cup RunPc
  /\ \A n \in {c1, c2} : Launch(n) /\ link[n] = NoLink
  /\ Directories /\ highest = None
  /\ line <= 2 => Unlaunched(c1)
  /\ line <= 3 => Unlaunched(c2)

(* After ten seconds that were enough. *)
Settled ==
  /\ \A k \in Session : session[k].stage \in {"none", "init", "dead"}
  /\ \A p \in Proc : inv[p].pc \in {"idle", "peer"} \cup NetPc \cup ExecPc
Full == \A n \in {c1, c2} : dir[n] = "full"
Home(n) == CHOOSE k \in Session : session[k] = [name |-> n, stage |-> "init"]
Housed ==
  \A n \in {c1, c2} :
    /\ Home(n) \in Session /\ session[Home(n)] = [name |-> n, stage |-> "init"]
    /\ Living(n) = {Home(n)}

Alone(p) == \A q \in Proc \ {p} : inv[q].pc = "idle"

(* addnetwork of container n that is to get number x. *)
ToRead == {"addnetwork", "net_ps", "net_ln", "num_read"}
Written == {"link_add", "link_move", "link_up", "addr_out", "addr_in", "internet", "expose",
            "net_done"}
Masked(x) == <<"masquerade", x>> \in nat
LinkAt(n, x, pc) ==
  CASE pc \in {"link_move"} -> NewLink
    [] pc \in {"link_up", "addr_out"} -> [NewLink EXCEPT !.inside = Home(n)]
    [] pc = "addr_in" -> [inside |-> Home(n), outAddr |-> x, inAddr |-> -1]
    [] pc \in {"internet", "expose", "net_done"} -> [inside |-> Home(n), outAddr |-> x, inAddr |-> x]
    [] OTHER -> NoLink
Connecting(p, n, x, opt) ==
  LET pc == inv[p].pc
  IN  /\ pc \in NetPc /\ inv[p].name = n /\ inv[p].arg = opt
      /\ pc \in ToRead \cup {"num_truncate"} => highest = IF x = 1 THEN None ELSE x - 1
      /\ pc \in Written => highest = x
      /\ pc \notin ToRead => inv[p].num = x
      /\ pc # "addnetwork" => netnsDir
      /\ pc \in {"net_ln", "num_read", "num_truncate", "num_write", "link_add", "link_move"} =>
           inv[p].pids = {Home(n)}
      /\ pc \notin {"addnetwork", "net_ps", "net_ln"} => netns[n] = {Home(n)}
      /\ link[n] = LinkAt(n, x, pc)
      /\ pc \in {"expose", "net_done"} => Masked(x)
      /\ pc = "net_done" /\ opt = "expose" => <<"dnat", x, n>> \in nat
Connected(n, x) ==
  /\ link[n] = [inside |-> Home(n), outAddr |-> x, inAddr |-> x]
  /\ Masked(x)
Peered == {<<c1, c2>>, <<c2, c1>>} \subseteq forward

(* exec in container n. *)
Inside(p, n) ==
  LET pc == inv[p].pc
  IN  /\ pc \in ExecPc /\ inv[p].name = n
      /\ pc = "exec_pgrep" => inv[p].pids = {Home(n)}
      /\ pc = "nsenter" => inv[p].pids = {-Home(n)}
Served(n) == services[n] = {-Home(n)} \/ \E p \in Proc : Inside(p, n)

(* The script, line by line. *)
FirstConnected == Connected(c1, 1) /\ <<"dnat", 1, c1>> \in nat
Deploying ==
  /\ line > 5 => copied = {c1, c2}
  /\ line <= 6 => AllIdle /\ highest = None /\ link[c1] = NoLink
  /\ line <= 7 => link[c2] = NoLink
  /\ line = 7 =>
       \/ AllIdle /\ FirstConnected /\ highest = 1
       \/ \E p \in Proc : Alone(p) /\ foreground = {p} /\ Connecting(p, c1, 1, "expose")
  /\ line > 7 => FirstConnected
  /\ line = 8 =>
       \/ AllIdle /\ Connected(c2, 2)
       \/ \E p \in Proc : Alone(p) /\ foreground = {p} /\ Connecting(p, c2, 2, "internet")
  /\ line > 8 => Connected(c2, 2)
  /\ line = 9 =>
       \/ AllIdle /\ Peered
       \/ \E p \in Proc : /\ Alone(p) /\ foreground = {p} /\ inv[p].pc = "peer"
                          /\ inv[p].name = c1 /\ inv[p].arg = c2
  /\ line > 9 => Peered
  /\ line = 10 =>
       \/ AllIdle /\ c2_ip_address = 2
       \/ \E p \in Proc : Alone(p) /\ foreground = {p} /\ Inside(p, c2)
  /\ line > 10 =>
       /\ c2_ip_address = 2 /\ foreground = {} /\ Served(c2)
       /\ \A p \in Proc : inv[p].pc = "idle" \/ Inside(p, c1) \/ Inside(p, c2)
  /\ line = 12 => Served(c1)

DeployInv ==
  /\ line <= 4 => Launching
  /\ patient /\ line \in 5 .. 12 => Settled /\ (Full => Housed /\ Deploying)
ServicesInv == services \in [Name -> SUBSET Pid]

-----------------------------------------------------------------------------
(* What is left of the guards when a command starts. *)
LEMMA StartEffect ==
  ASSUME Shape, NEW p \in Proc, NEW cmd, NEW name, NEW arg, Start(p, cmd, name, arg)
  PROVE  /\ inv[p].pc = "idle" /\ inv'[p].pc = cmd /\ inv'[p].name = name /\ inv'[p].arg = arg
         /\ \A q \in Proc \ {p} : inv'[q] = inv[q]
         /\ UNCHANGED <<dirVars, session, netVars>>
  BY DEF Start, Shape, Idle, At

(* What each line of the script does. *)
LEMMA ScriptLines ==
  ASSUME Shape, LineInv, Conduct
  PROVE  /\ line' = line + 1 /\ UNCHANGED <<dirVars, session, netVars, patient, deployVars>>
         /\ \A q \in foreground : inv[q].pc = "idle"
         /\ \E p \in Proc :
              /\ inv[p].pc = "idle" /\ \A q \in Proc \ {p} : inv'[q] = inv[q]
              /\ \/ /\ line = 1 /\ inv'[p].pc = "build"
                 \/ /\ line = 2 /\ inv'[p].pc = "run" /\ inv'[p].name = c1
                 \/ /\ line = 3 /\ inv'[p].pc = "run" /\ inv'[p].name = c2
                 \/ /\ line = 6 /\ inv'[p].pc = "addnetwork" /\ inv'[p].name = c1
                    /\ inv'[p].arg = "expose" /\ foreground' = {p}
                 \/ /\ line = 7 /\ inv'[p].pc = "addnetwork" /\ inv'[p].name = c2
                    /\ inv'[p].arg = "internet" /\ foreground' = {p}
                 \/ /\ line = 8 /\ inv'[p].pc = "peer" /\ inv'[p].name = c1
                    /\ inv'[p].arg = c2 /\ foreground' = {p}
                 \/ /\ line = 9 /\ inv'[p].pc = "exec" /\ inv'[p].name = c2 /\ foreground' = {p}
                 \/ /\ line = 10 /\ inv'[p].pc = "exec" /\ inv'[p].name = c2 /\ foreground' = {}
                 \/ /\ line = 11 /\ inv'[p].pc = "exec" /\ inv'[p].name = c1 /\ foreground' = {}
<1> DEFINE p == FirstIdle
           P(cmd, name, arg) == Start(p, cmd, name, arg)
<1> HIDE DEF P
<1>1. p \in Proc
  BY FirstIsIdle DEF Conduct
<1>2. line \in 1 .. 11 /\ line' = line + 1
  BY ElevenLines DEF LineInv, Conduct, Ready
<1>3. P(Current.cmd, Current.name, Current.arg) /\ Current.cmd \notin {"sleep", "cp"}
  <2>1. Current.cmd \in Commands
    BY DEF Conduct, Ready
  <2> QED
    BY <2>1, ScriptAssumption DEF Conduct, P
<1>4. /\ UNCHANGED <<patient, deployVars>>
      /\ \A q \in foreground : inv[q].pc = "idle"
      /\ foreground' = IF Current.how = "wait" THEN {p} ELSE {}
  BY DEF Conduct, Ready, At
<1> HIDE DEF p
<1>5. /\ inv[p].pc = "idle" /\ inv'[p].pc = Current.cmd /\ inv'[p].name = Current.name
      /\ inv'[p].arg = Current.arg /\ \A q \in Proc \ {p} : inv'[q] = inv[q]
      /\ UNCHANGED <<dirVars, session, netVars>>
  BY <1>1, <1>3, StartEffect DEF P
<1>6. \/ line = 1 /\ Current = Call("build", deb_img, "-", "wait")
      \/ line = 2 /\ Current = Call("run", c1, deb_img, "&")
      \/ line = 3 /\ Current = Call("run", c2, deb_img, "&")
      \/ line = 6 /\ Current = Call("addnetwork", c1, "expose", "wait")
      \/ line = 7 /\ Current = Call("addnetwork", c2, "internet", "wait")
      \/ line = 8 /\ Current = Call("peer", c1, c2, "wait")
      \/ line = 9 /\ Current = Call("exec", c2, "-", "wait")
      \/ line = 10 /\ Current = Call("exec", c2, "-", "&")
      \/ line = 11 /\ Current = Call("exec", c1, "-", "&")
  <2>1. line = 4 => Current.cmd = "sleep"
    BY DEF Current, Lines, Call
  <2>2. line = 5 => Current.cmd = "cp"
    BY DEF Current, Lines, Call
  <2> QED
    BY <1>2, <1>3, <2>1, <2>2 DEF Current, Lines
<1> HIDE DEF Current
<1> QED
  BY <1>1, <1>2, <1>4, <1>5, <1>6 DEF Call

ScriptStep ==
  \/ UNCHANGED ovars
  \/ Conduct
  \/ Sleep /\ line = 4 /\ line' = 5
  \/ CopyServices /\ line = 5 /\ line' = 6
  \/ \E p \in Proc : InvocationStep(p)
  \/ \E k \in Session : /\ UNCHANGED scriptVars
                        /\ StartUp(k) \/ (SessionEnds(k) /\ session[k].stage = "forked")

(* What may happen until the script sleeps for ever and nobody interferes. *)
LEMMA ScriptSteps ==
  LineInv /\ [OrchestratorNext]_ovars /\ line' <= 12 => line <= 12 /\ ScriptStep
<1> SUFFICES ASSUME LineInv, [OrchestratorNext]_ovars, line' <= 12
             PROVE  line <= 12 /\ ScriptStep
  OBVIOUS
<1>1. line \in 1 .. 13
  BY ElevenLines DEF LineInv
<1>2. CASE Sleep
  <2>1. line < Deployed /\ Current.cmd = "sleep" /\ line' = line + 1
    BY <1>2 DEF Sleep, Ready
  <2>2. line = 4
    BY <1>1, <2>1, ElevenLines DEF Current, Lines, Call
  <2> QED
    BY <1>2, <2>1, <2>2 DEF ScriptStep
<1>3. CASE CopyServices
  <2>1. line < Deployed /\ Current.cmd = "cp" /\ line' = line + 1
    BY <1>3 DEF CopyServices, Ready
  <2>2. line = 5
    BY <1>1, <2>1, ElevenLines DEF Current, Lines, Call
  <2> QED
    BY <1>3, <2>1, <2>2 DEF ScriptStep
<1>4. CASE Conduct
  BY <1>1, <1>4, ElevenLines DEF Conduct, Ready, ScriptStep
<1>5. ASSUME NEW p \in Proc, InvocationStep(p) PROVE line' = line
  BY <1>5 DEF InvocationStep
<1>6. ASSUME NEW k \in Session, ContainerStep(k)
      PROVE  /\ UNCHANGED scriptVars /\ line' = line
             /\ StartUp(k) \/ (SessionEnds(k) /\ session[k].stage = "forked")
  <2>1. line' = line
    BY <1>6 DEF ContainerStep, scriptVars
  <2>2. line # Administered
    BY <2>1, ElevenLines
  <2> QED
    BY <1>6, <2>1, <2>2 DEF ContainerStep, SessionEnds
<1>7. line' # Administered
  BY ElevenLines
<1>8. UNCHANGED ovars => line' = line
  BY DEF ovars, scriptVars
<1> QED
  BY <1>1, <1>2, <1>3, <1>4, <1>5, <1>6, <1>7, <1>8
  DEF ScriptStep, OrchestratorNext, Script, AskToStop, Administers

-----------------------------------------------------------------------------
(* An invocation other than stop, or the start of one, moves only itself. *)
LEMMA MovesOnlyOwn ==
  ASSUME Shape, NEW p \in Proc, Build(p) \/ Run(p) \/ Exec(p) \/ AddNetwork(p) \/ Peer(p)
  PROVE  \A q \in Proc \ {p} : inv'[q] = inv[q]
<1>1. CASE Build(p) \/ Run(p) \/ Peer(p)
  BY <1>1
  DEF Build, BuildCheck, Debootstrap, Fetched,
      Run, RunCheck, RunMkdir, RunCopy, RunMount, RunUnshare, Peer, Test, Goto, Exit, Shape
<1>2. CASE Exec(p)
  BY <1>2 DEF Exec, ExecCheck, ExecPs, ExecPgrep, NsEnter, Test, Goto, Exit, Shape
<1>3. CASE AddNetwork(p)
  <2>1. CASE LinkMove(p) \/ NumRead(p) \/ NetPs(p)
    BY <2>1 DEF LinkMove, NumRead, NetPs, Exit, Shape
  <2>2. CASE \/ NetDir(p) \/ NetLn(p) \/ NumTruncate(p) \/ NumWrite(p) \/ LinkAdd(p)
             \/ LinkUp(p) \/ AddrOut(p) \/ AddrIn(p) \/ Internet(p) \/ Expose(p) \/ NetDone(p)
    BY <2>2 DEF NetDir, NetLn, NumTruncate, NumWrite, LinkAdd, LinkUp, AddrOut, AddrIn,
                      Internet, Expose, NetDone, Test, Goto, Exit, Shape
  <2> QED
    BY <1>3, <2>1, <2>2 DEF AddNetwork
<1> QED
  BY <1>1, <1>2, <1>3

(* The run of another container changes nothing of this one. *)
LEMMA OtherLaunches ==
  ASSUME Shape, Directories, NEW p \in Proc, Run(p), NEW n \in Name, n # inv[p].name, Launch(n)
  PROVE  Launch(n)'
<1> USE DEF At
<1>1. \A q \in Proc \ {p} : inv'[q] = inv[q]
  BY MovesOnlyOwn
<1>2. OwnMove(p)
  BY InvocationMoves DEF Invocation
<1>3. Running(n)' = Running(n) /\ \A q \in Running(n) : inv'[q] = inv[q]
  <2>1. p \notin Running(n) /\ p \notin Running(n)'
    BY <1>2 DEF Running, OwnMove, RunPc
  <2> QED
    BY <1>1, <2>1 DEF Running
<1>4. dir'[n] = dir[n]
  BY DEF Run, RunCheck, RunMkdir, RunCopy, RunMount, RunUnshare, Directories, dirVars
<1>5. Living(n)' = Living(n)
  <2>1. CASE UNCHANGED session
    BY <2>1 DEF Living, Alive
  <2>2. ASSUME NEW k \in Session, RunUnshare(p, k) PROVE Living(n)' = Living(n)
    <3>1. /\ session[k].stage = "none"
          /\ session' = [session EXCEPT ![k] = [name |-> inv[p].name, stage |-> "unshare"]]
      BY <2>2 DEF RunUnshare
    <3>2. k \notin Living(n) /\ k \notin Living(n)' /\ \A j \in Session \ {k} : session'[j] = session[j]
      BY <3>1 DEF Living, Alive, Shape
    <3> QED
      BY <3>2 DEF Living, Alive
  <2> QED
    BY <2>1, <2>2 DEF Run, RunCheck, RunMkdir, RunCopy, RunMount
<1> QED
  BY <1>3, <1>4, <1>5 DEF Launch

(* A run on its way to a container. *)
LEMMA OwnLaunches ==
  ASSUME Shape, Directories, NEW p \in Proc, Run(p), NEW n \in Name, n = inv[p].name, Launch(n)
  PROVE  Launch(n)'
<1> USE DEF At
<1>1. p \in Running(n)
  BY DEF Run, RunCheck, RunMkdir, RunCopy, RunMount, RunUnshare, Running, RunPc
<1>2. Running(n) = {p} /\ Living(n) = {}
  BY <1>1 DEF Launch, AtMostOne
<1>3. dir[n] = "full" => inv[p].pc \in {"run_mount", "run_unshare"}
  BY <1>2 DEF Launch
<1>4. \A q \in Proc \ {p} : inv'[q] = inv[q]
  BY MovesOnlyOwn
<1>5. Running(n)' \subseteq {p}
  BY <1>2, <1>4 DEF Running
<1>6. CASE RunCheck(p) \/ RunMkdir(p) \/ RunCopy(p) \/ RunMount(p)
  <2>1. UNCHANGED session
    BY <1>6 DEF RunCheck, RunMkdir, RunCopy, RunMount
  <2>2. Living(n)' = {}
    BY <1>2, <2>1 DEF Living, Alive
  <2>3. dir'[n] = "full" => inv'[p].pc \in {"run_mount", "run_unshare"} /\ inv'[p].name = n
    <3>1. CASE RunCheck(p)
      BY <1>3, <3>1 DEF RunCheck, dirVars
    <3>2. CASE RunMkdir(p)
      BY <1>3, <3>2 DEF RunMkdir, Directories
    <3>3. CASE RunCopy(p)
      <4>1. dir[n] # "full"
        BY <1>3, <3>3 DEF RunCopy
      <4>2. dir'[n] = "full" => dir[n] # "absent" /\ image[inv[p].arg] # "absent"
        BY <3>3, <4>1 DEF RunCopy
      <4>3. dir'[n] = "full" => Goto(p, "run_mount")
        BY <3>3, <4>2 DEF RunCopy, Test
      <4> QED
        BY <4>3, Moves
    <3>4. CASE RunMount(p)
      <4>1. dir'[n] = "full" => Goto(p, "run_unshare")
        BY <3>4 DEF RunMount
      <4> QED
        BY <4>1, Moves
    <3> QED
      BY <1>6, <3>1, <3>2, <3>3, <3>4
  <2>4. dir'[n] = "full" => p \in Running(n)'
    BY <2>3 DEF Running, RunPc
  <2> QED
    BY <1>5, <2>2, <2>3, <2>4 DEF Launch, AtMostOne
<1>7. ASSUME NEW k \in Session, RunUnshare(p, k) PROVE Launch(n)'
  <2>1. /\ session[k].stage = "none" /\ Exit(p)
        /\ session' = [session EXCEPT ![k] = [name |-> n, stage |-> "unshare"]]
    BY <1>7 DEF RunUnshare
  <2>2. Living(n)' = {k}
    <3>1. k \in Living(n)'
      BY <2>1 DEF Living, Alive, Shape
    <3>2. \A j \in Session \ {k} : session'[j] = session[j]
      BY <2>1 DEF Shape
    <3> QED
      BY <1>2, <3>1, <3>2 DEF Living, Alive
  <2>3. Running(n)' = {}
    <3>1. inv'[p].pc = "idle"
      BY <2>1, Moves
    <3> QED
      BY <1>5, <3>1 DEF Running, RunPc
  <2> QED
    BY <2>2, <2>3 DEF Launch, AtMostOne
<1> QED
  BY <1>6, <1>7 DEF Run

(* Nothing else launches or lands. *)
LEMMA LaunchSame ==
  ASSUME NEW n, Launch(n), UNCHANGED dir,
         Running(n)' = Running(n), \A p \in Running(n) : inv'[p].pc = inv[p].pc,
         Living(n)' = Living(n)
  PROVE  Launch(n)'
  BY DEF Launch

(* A container gets on with its start, or fails in a directory that is not
   full. *)
LEMMA ContainerLaunches ==
  ASSUME Shape, NEW k \in Session, NEW n \in Name, Launch(n),
         StartUp(k) \/ (SessionEnds(k) /\ session[k].stage = "forked")
  PROVE  Launch(n)'
<1>1. UNCHANGED <<inv, dir>>
  BY DEF StartUp, Fork, Chroot, SessionEnds, dirVars
<1>2. Running(n)' = Running(n)
  BY <1>1 DEF Running
<1>3. CASE StartUp(k)
  <2>1. PICK to \in {"forked", "init"} :
          /\ session[k].stage \in {"unshare", "forked"}
          /\ session' = [session EXCEPT ![k].stage = to]
    BY <1>3 DEF StartUp, Fork, Chroot, SetStage
  <2>2. Living(n)' = Living(n)
    BY <2>1 DEF Living, Alive, Shape
  <2> QED
    BY <1>1, <1>2, <2>2, LaunchSame
<1>4. CASE SessionEnds(k) /\ session[k].stage = "forked"
  <2>1. dir[session[k].name] # "full" /\ session' = [session EXCEPT ![k] = Dead]
    BY <1>4 DEF SessionEnds
  <2>2. Living(n)' = Living(n) \ {k}
    BY <2>1 DEF Living, Alive, Shape, Dead
  <2>3. dir[n] = "full" => k \notin Living(n)
    BY <2>1 DEF Living
  <2> QED
    BY <1>1, <1>2, <2>2, <2>3 DEF Launch, AtMostOne
<1> QED
  BY <1>3, <1>4

(* Until the ten seconds. *)
LEMMA LaunchingKept ==
  ASSUME Shape, LineInv, Launching, line <= 4, [OrchestratorNext]_ovars, line' <= 4
  PROVE  Launching'
<1> USE DEF At
<1>1. {c1, c2} \subseteq Name
  BY NamesAssumption
<1>2. line \in 1 .. 13 /\ line' \in 1 .. 13
  BY StepLineInv, ElevenLines DEF LineInv
<1>3. CASE UNCHANGED ovars
  <2>1. UNCHANGED <<inv, session, dir, link, highest, line>>
    BY <1>3 DEF ovars, vars, scriptVars, dirVars, netVars, linkVars
  <2>2. \A n : Running(n)' = Running(n) /\ Living(n)' = Living(n)
    BY <2>1 DEF Running, Living, Alive
  <2>3. \A n \in {c1, c2} : Launch(n)'
    BY <2>1, <2>2, LaunchSame DEF Launching
  <2> QED
    BY <2>1, <2>2, <2>3 DEF Launching, Unlaunched, Directories
<1>4. CASE Conduct
  <2>1. /\ line' = line + 1 /\ UNCHANGED <<dirVars, session, netVars>>
        /\ \E p \in Proc :
             /\ inv[p].pc = "idle" /\ \A q \in Proc \ {p} : inv'[q] = inv[q]
             /\ \/ line = 1 /\ inv'[p].pc = "build"
                \/ line = 2 /\ inv'[p].pc = "run" /\ inv'[p].name = c1
                \/ line = 3 /\ inv'[p].pc = "run" /\ inv'[p].name = c2
                \/ line >= 6
    BY <1>4, ScriptLines
  <2>2. UNCHANGED <<dir, session, link, highest>>
    BY <2>1 DEF dirVars, netVars, linkVars
  <2>3. PICK p \in Proc :
             /\ inv[p].pc = "idle" /\ \A q \in Proc \ {p} : inv'[q] = inv[q]
             /\ \/ line = 1 /\ inv'[p].pc = "build"
                \/ line = 2 /\ inv'[p].pc = "run" /\ inv'[p].name = c1
                \/ line = 3 /\ inv'[p].pc = "run" /\ inv'[p].name = c2
    BY <1>2, <2>1
  <2>4. \A n : Living(n)' = Living(n)
    BY <2>2 DEF Living, Alive
  <2>5. \A q \in Proc : inv'[q].pc \in {"idle"} \cup BuildPc \cup RunPc
    BY <2>3 DEF Launching, BuildPc, RunPc
  <2>6. \A n : ~(inv'[p].pc = "run" /\ inv'[p].name = n) =>
          Running(n)' = Running(n) /\ \A q \in Running(n) : inv'[q].pc = inv[q].pc
    BY <2>3 DEF Running, RunPc
  <2>7. ASSUME NEW n, Unlaunched(n), inv'[p].pc = "run", inv'[p].name = n PROVE Launch(n)'
    <3>1. Running(n)' = {p}
      BY <2>3, <2>7 DEF Unlaunched, Running, RunPc
    <3> QED
      BY <2>2, <2>4, <2>7, <3>1 DEF Unlaunched, Launch, AtMostOne
  <2>8. /\ line = 2 => Unlaunched(c1)
        /\ line <= 3 => Unlaunched(c2)
        /\ line <= 2 => Unlaunched(c1)
    BY DEF Launching
  <2>9. \A n \in {c1, c2} : Launch(n)'
    <3> SUFFICES ASSUME NEW n \in {c1, c2} PROVE Launch(n)'
      OBVIOUS
    <3>1. CASE inv'[p].pc = "run" /\ inv'[p].name = n
      BY <2>3, <2>7, <2>8, <3>1
    <3>2. CASE ~(inv'[p].pc = "run" /\ inv'[p].name = n)
      BY <2>2, <2>4, <2>6, <3>2, LaunchSame DEF Launching
    <3> QED
      BY <3>1, <3>2
  <2>10. line' <= 2 => Unlaunched(c1)'
    <3>1. line' <= 2 => line = 1
      BY <2>1, <2>3
    <3> QED
      BY <2>2, <2>3, <2>4, <2>6, <2>8, <3>1 DEF Unlaunched
  <2>11. line' <= 3 => Unlaunched(c2)'
    <3>1. line' <= 3 => line \in {1, 2}
      BY <2>1, <2>3
    <3> QED
      BY <2>2, <2>3, <2>4, <2>6, <2>8, <3>1, NamesAssumption DEF Unlaunched
  <2> QED
    BY <2>2, <2>5, <2>9, <2>10, <2>11 DEF Launching, Directories
<1>5. ASSUME NEW p \in Proc, InvocationStep(p) PROVE Launching'
  <2>1. Invocation(p) /\ UNCHANGED line
    BY <1>5 DEF InvocationStep
  <2>2. inv[p].pc \in {"idle"} \cup BuildPc \cup RunPc
    BY DEF Launching
  <2>3. Build(p) \/ Run(p)
    BY <2>1, <2>2 DEF Invocation, BuildPc, RunPc, RemoveImage,
         Exec, ExecCheck, ExecPs, ExecPgrep, NsEnter, Peer,
         AddNetwork, NetDir, NetPs, NetLn, NumRead, NumTruncate, NumWrite, LinkAdd,
         LinkMove, LinkUp, AddrOut, AddrIn, Internet, Expose, NetDone,
         Stop, StopCheck, StopPs, StopLink, StopUnlink, StopKill,
         StopUmount, StopRm, StopLs, StopRmNum, StopForward, StopNat
  <2>4. \A q \in Proc \ {p} : inv'[q] = inv[q]
    BY <2>3, MovesOnlyOwn
  <2>5. UNCHANGED <<link, highest>>
    BY <2>3 DEF Build, BuildCheck, Debootstrap, Fetched,
      Run, RunCheck, RunMkdir, RunCopy, RunMount, RunUnshare, netVars, linkVars
  <2>6. inv'[p].pc \in {"idle"} \cup BuildPc \cup RunPc
    BY <2>3, Moves DEF Build, BuildCheck, Debootstrap, Fetched, BuildPc, RunPc, Test,
      Run, RunCheck, RunMkdir, RunCopy, RunMount, RunUnshare
  <2>7. CASE Build(p)
    <3>1. UNCHANGED <<dir, session>> /\ inv[p].pc \notin RunPc /\ inv'[p].pc \notin RunPc
      BY <2>7, Moves DEF Build, BuildCheck, Debootstrap, Fetched, RunPc, Test, dirVars
    <3>2. \A n : Living(n)' = Living(n)
      BY <3>1 DEF Living, Alive
    <3>3. \A n : Running(n)' = Running(n) /\ \A q \in Running(n) : inv'[q].pc = inv[q].pc
      BY <2>4, <3>1 DEF Running
    <3>4. \A n \in {c1, c2} : Launch(n)'
      BY <3>1, <3>2, <3>3, LaunchSame DEF Launching
    <3> QED
      BY <2>1, <2>4, <2>5, <2>6, <3>1, <3>2, <3>3, <3>4 DEF Launching, Unlaunched, Directories
  <2>8. CASE Run(p)
    <3>1. \A n \in {c1, c2} : Launch(n)'
      BY <1>1, <2>8, OtherLaunches, OwnLaunches DEF Launching
    <3>2. Directories'
      BY <2>8 DEF Run, RunCheck, RunMkdir, RunCopy, RunMount, RunUnshare, Launching, Directories,
                  dirVars
    <3>3. ASSUME NEW n \in {c1, c2}, Unlaunched(n) PROVE Unlaunched(n)'
      <4>1. p \notin Running(n) /\ inv[p].pc \in RunPc
        BY <2>8, <3>3 DEF Unlaunched, Run, RunCheck, RunMkdir, RunCopy, RunMount, RunUnshare, RunPc
      <4>2. n # inv[p].name
        BY <4>1 DEF Running
      <4>3. dir'[n] = dir[n]
        BY <1>1, <2>8, <4>2 DEF Run, RunCheck, RunMkdir, RunCopy, RunMount, RunUnshare, Directories,
                           Launching, dirVars
      <4>4. Running(n)' = {}
        <5>1. p \notin Running(n)'
          BY <2>1, <4>2, InvocationMoves DEF Running, OwnMove, RunPc
        <5> QED
          BY <2>4, <3>3, <5>1 DEF Unlaunched, Running
      <4>5. Living(n)' = {}
        <5>1. CASE UNCHANGED session
          BY <3>3, <5>1 DEF Unlaunched, Living, Alive
        <5>2. ASSUME NEW k \in Session, RunUnshare(p, k) PROVE Living(n)' = {}
          BY <3>3, <4>2, <5>2 DEF RunUnshare, Unlaunched, Living, Alive, Shape
        <5> QED
          BY <2>8, <5>1, <5>2 DEF Run, RunCheck, RunMkdir, RunCopy, RunMount
      <4> QED
        BY <3>3, <4>3, <4>4, <4>5 DEF Unlaunched
    <3> QED
      BY <2>1, <2>4, <2>5, <2>6, <3>1, <3>2, <3>3 DEF Launching
  <2> QED
    BY <2>3, <2>7, <2>8
<1>6. ASSUME NEW k \in Session, UNCHANGED scriptVars,
             StartUp(k) \/ (SessionEnds(k) /\ session[k].stage = "forked")
      PROVE  Launching'
  <2>1. UNCHANGED <<inv, dir, highest, line>>
    BY <1>6 DEF StartUp, Fork, Chroot, SessionEnds, dirVars, netVars, scriptVars
  <2>2. \A n \in {c1, c2} : Launch(n)'
    BY <1>1, <1>6, ContainerLaunches DEF Launching
  <2>3. \A n \in {c1, c2} : link'[n] = NoLink
    BY <1>1, <1>6 DEF StartUp, Fork, Chroot, SessionEnds, LinksWithout, Launching, netVars, linkVars
  <2>4. ASSUME NEW n \in {c1, c2}, Unlaunched(n) PROVE Unlaunched(n)'
    <3>1. Running(n)' = {} /\ dir'[n] = "absent"
      BY <2>1, <2>4 DEF Unlaunched, Running
    <3>2. \A j \in Session : Alive(j)' => Alive(j) /\ session'[j].name = session[j].name
      <4>1. \/ \E to \in {"forked", "init"} :
                 /\ session[k].stage \in {"unshare", "forked"}
                 /\ session' = [session EXCEPT ![k].stage = to]
            \/ session' = [session EXCEPT ![k] = Dead]
        BY <1>6 DEF StartUp, Fork, Chroot, SetStage, SessionEnds
      <4> QED
        BY <4>1 DEF Alive, Shape, Dead
    <3> QED
      BY <2>4, <3>1, <3>2 DEF Unlaunched, Living
  <2> QED
    BY <2>1, <2>2, <2>3, <2>4 DEF Launching, Directories
<1>7. \/ UNCHANGED ovars \/ Conduct \/ \E p \in Proc : InvocationStep(p)
      \/ \E k \in Session : /\ UNCHANGED scriptVars
                            /\ StartUp(k) \/ (SessionEnds(k) /\ session[k].stage = "forked")
  <2>1. line' <= 12 /\ ~(line' = 5) /\ ~(line' = 6)
    BY <1>2
  <2>2. ScriptStep
    BY <2>1, ScriptSteps
  <2> QED
    BY <2>1, <2>2 DEF ScriptStep
<1> QED
  BY <1>3, <1>4, <1>5, <1>6, <1>7

-----------------------------------------------------------------------------
(* Where the containers are stays so as long as none starts or ends. *)
LEMMA HomeSame ==
  ASSUME UNCHANGED session
  PROVE  /\ \A n : Home(n)' = Home(n)
         /\ Housed => Housed'
<1>1. ASSUME NEW n PROVE Home(n)' = Home(n)
  BY DEF Home
<1>2. \A n : Living(n)' = Living(n)
  BY DEF Living, Alive
<1> HIDE DEF Home
<1> QED
  BY <1>1, <1>2 DEF Housed

(* What a settled container's process is. *)
LEMMA HomeFacts ==
  ASSUME Shape, Settled, Housed, NEW n \in {c1, c2}
  PROVE  LET k == Home(n)
         IN  /\ k \in Session /\ k \in Int /\ k > 0 /\ k \notin Proc /\ -k \notin Proc
             /\ HasChild(k) /\ PidAlive(k) /\ PidAlive(-k)
             /\ NetOf(k) = k /\ NetOf(-k) = k
             /\ Matching(n) = {k}
<1> DEFINE k == Home(n)
<1>1. k \in Session /\ session[k] = [name |-> n, stage |-> "init"] /\ Living(n) = {k}
  BY DEF Housed
<1> HIDE DEF k
<1>2. k \in Int /\ k > 0 /\ k \notin Proc /\ -k \notin Proc /\ -k < 0
  BY <1>1, BoundsAssumption, ProcAssumption DEF Session
<1>3. HasChild(k) /\ Alive(k)
  BY <1>1 DEF HasChild, Alive
<1>4. SessionOf(k) = k /\ SessionOf(-k) = k /\ -(-k) = k
  BY <1>2 DEF SessionOf
<1>5. PidAlive(k) /\ PidAlive(-k)
  BY <1>2, <1>3, <1>4 DEF PidAlive
<1>6. NetOf(k) = k /\ NetOf(-k) = k
  BY <1>2, <1>3, <1>4 DEF NetOf
<1>7. Matching(n) = {k}
  <2>1. Copying(n) = {}
    BY DEF Copying, At, Settled, NetPc, ExecPc
  <2>2. \A j \in Session : session[j].stage # "forked"
    BY DEF Settled
  <2> QED
    BY <1>1, <2>1, <2>2 DEF Matching, Living
<1> QED
  BY <1>1, <1>2, <1>3, <1>5, <1>6, <1>7 DEF k

(* The two are different containers. *)
LEMMA HomesApart == Housed => Home(c1) # Home(c2)
  BY NamesAssumption DEF Housed

(* Once the containers have settled, an invocation leaves them, and every
   other invocation, alone. *)
LEMMA SettledStep ==
  ASSUME Shape, Settled, NEW p \in Proc, Invocation(p)
  PROVE  /\ AddNetwork(p) \/ Peer(p) \/ Exec(p)
         /\ UNCHANGED <<dir, session>> /\ Settled'
         /\ \A q \in Proc \ {p} : inv'[q] = inv[q]
         /\ inv[p].pc \in {"peer"} \cup NetPc \cup ExecPc
<1> USE DEF At
<1>1. inv[p].pc \in {"idle", "peer"} \cup NetPc \cup ExecPc
  BY DEF Settled
<1>2. AddNetwork(p) \/ Peer(p) \/ Exec(p)
  BY <1>1 DEF Invocation, NetPc, ExecPc, Build, BuildCheck, Debootstrap, Fetched, RemoveImage,
         Run, RunCheck, RunMkdir, RunCopy, RunMount, RunUnshare,
         Stop, StopCheck, StopPs, StopLink, StopUnlink, StopKill,
         StopUmount, StopRm, StopLs, StopRmNum, StopForward, StopNat
<1>3. \A q \in Proc \ {p} : inv'[q] = inv[q]
  BY <1>2, MovesOnlyOwn
<1>4. UNCHANGED <<dir, session>>
  BY <1>2 DEF Exec, ExecCheck, ExecPs, ExecPgrep, NsEnter, Peer,
         AddNetwork, NetDir, NetPs, NetLn, NumRead, NumTruncate, NumWrite, LinkAdd,
         LinkMove, LinkUp, AddrOut, AddrIn, Internet, Expose, NetDone, dirVars
<1>5. inv'[p].pc \in {"idle"} \cup NetPc \cup ExecPc
  <2>1. CASE LinkMove(p) \/ NumRead(p) \/ NetPs(p) \/ ExecPs(p) \/ ExecPgrep(p)
    BY <2>1, Moves DEF LinkMove, NumRead, NetPs, ExecPs, ExecPgrep, Shape, Local, NetPc, ExecPc
  <2> QED
    BY <1>2, <2>1, Moves
    DEF Exec, ExecCheck, NsEnter, Peer, AddNetwork, NetDir, NetLn, NumTruncate, NumWrite,
        LinkAdd, LinkUp, AddrOut, AddrIn, Internet, Expose, NetDone, Test, NetPc, ExecPc
<1>6. inv[p].pc # "idle"
  BY <1>2
  DEF Exec, ExecCheck, ExecPs, ExecPgrep, NsEnter, Peer,
         AddNetwork, NetDir, NetPs, NetLn, NumRead, NumTruncate, NumWrite, LinkAdd,
         LinkMove, LinkUp, AddrOut, AddrIn, Internet, Expose, NetDone
<1>7. Settled'
  BY <1>3, <1>4, <1>5 DEF Settled
<1> QED
  BY <1>1, <1>2, <1>3, <1>4, <1>6, <1>7

(* Ten seconds that were enough. *)
LEMMA SleepSettles ==
  ASSUME Shape, Launching, line = 4, line' = 5, patient, Sleep
  PROVE  Settled' /\ (Full' => Housed' /\ Deploying')
<1>1. /\ UNCHANGED <<inv, session, dir, link, highest>> /\ AllIdle
      /\ \A k \in Session : session[k].stage \in {"none", "init", "dead"}
  BY DEF Sleep, vars, dirVars, netVars, linkVars
<1>2. Settled'
  BY <1>1 DEF Settled, AllIdle, At
<1>3. ASSUME Full, NEW n \in {c1, c2}
      PROVE  /\ Home(n) \in Session /\ session[Home(n)] = [name |-> n, stage |-> "init"]
             /\ Living(n) = {Home(n)}
  <2>1. Running(n) = {}
    BY <1>1 DEF Running, RunPc, AllIdle, At
  <2>2. Living(n) # {} /\ AtMostOne(Living(n))
    BY <1>3, <2>1 DEF Launching, Launch, Full
  <2>3. PICK k \in Session : k \in Living(n)
    BY <2>2 DEF Living
  <2>4. session[k].stage = "init" /\ session[k].name = n
    BY <1>1, <2>3 DEF Living, Alive
  <2>5. session[k] = [name |-> n, stage |-> "init"]
    BY <2>4 DEF Shape
  <2>6. Home(n) \in Session /\ session[Home(n)] = [name |-> n, stage |-> "init"]
    BY <2>5 DEF Home
  <2> HIDE DEF Home
  <2>7. Home(n) \in Living(n)
    BY <2>6 DEF Living, Alive
  <2> QED
    BY <2>2, <2>6, <2>7 DEF AtMostOne
<1>4. Full' => Full
  BY <1>1 DEF Full
<1>5. Full => Housed'
  BY <1>1, <1>3, HomeSame DEF Housed
<1>6. Deploying'
  BY <1>1, NamesAssumption DEF Launching, Deploying, AllIdle, At
<1> QED
  BY <1>2, <1>4, <1>5, <1>6

-----------------------------------------------------------------------------
(* exec finds the one process of its container, and that process's child. *)
LEMMA InsideStep ==
  ASSUME Shape, Settled, Housed, NEW n \in {c1, c2}, dir[n] = "full",
         NEW p \in Proc, Inside(p, n), Invocation(p)
  PROVE  /\ UNCHANGED netVars
         /\ \/ inv[p].pc # "nsenter" /\ Inside(p, n)'
            \/ inv[p].pc = "nsenter" /\ inv[p].pids = {-Home(n)} /\ inv'[p].pc = "idle"
<1> USE DEF At
<1> DEFINE k == Home(n)
<1>1. /\ k \in Session /\ k \in Int /\ HasChild(k) /\ Matching(n) = {k}
  BY HomeFacts
<1>2. /\ inv[p].pc \in ExecPc /\ inv[p].name = n
      /\ inv[p].pc = "exec_pgrep" => inv[p].pids = {k}
      /\ inv[p].pc = "nsenter" => inv[p].pids = {-k}
  BY DEF Inside
<1>3. UNCHANGED session
  BY SettledStep
<1>4. Home(n)' = k
  BY <1>3, HomeSame
<1> HIDE DEF k
<1>5. Exec(p)
  <2>1. AddNetwork(p) \/ Peer(p) \/ Exec(p)
    BY SettledStep
  <2> QED
    BY <1>2, <2>1 DEF ExecPc, Peer,
         AddNetwork, NetDir, NetPs, NetLn, NumRead, NumTruncate, NumWrite, LinkAdd,
         LinkMove, LinkUp, AddrOut, AddrIn, Internet, Expose, NetDone
<1>6. UNCHANGED netVars
  BY <1>5 DEF Exec, ExecCheck, ExecPs, ExecPgrep, NsEnter
<1>7. CASE ExecCheck(p)
  <2>1. Goto(p, "exec_ps") /\ inv[p].pc = "exec"
    BY <1>2, <1>7 DEF ExecCheck, Test
  <2> QED
    BY <1>2, <1>6, <2>1, Moves DEF Inside, ExecPc
<1>8. CASE ExecPs(p)
  <2>1. Cardinality({k}) = 1
    BY FS_Singleton
  <2>2. inv' = [inv EXCEPT ![p].pids = {k}, ![p].pc = "exec_pgrep"] /\ inv[p].pc = "exec_ps"
    BY <1>1, <1>2, <1>8, <2>1 DEF ExecPs
  <2>3. inv'[p].pc = "exec_pgrep" /\ inv'[p].pids = {k} /\ inv'[p].name = n
    BY <1>2, <2>2 DEF Shape, Local
  <2> QED
    BY <1>4, <1>6, <2>2, <2>3 DEF Inside, ExecPc
<1>9. CASE ExecPgrep(p)
  <2> DEFINE parents == {j \in inv[p].pids \cap Session : HasChild(j)}
             children == {-j : j \in parents}
  <2>1. inv[p].pc = "exec_pgrep" /\ IF parents # {}
                                      THEN inv' = [inv EXCEPT ![p].pids = children, ![p].pc = "nsenter"]
                                      ELSE Exit(p)
    BY <1>9 DEF ExecPgrep
  <2>2. parents = {k}
    BY <1>1, <1>2, <2>1
  <2>3. children = {-k}
    BY <2>2
  <2> HIDE DEF parents, children
  <2>4. inv' = [inv EXCEPT ![p].pids = {-k}, ![p].pc = "nsenter"]
    BY <2>1, <2>2, <2>3
  <2>5. inv'[p].pc = "nsenter" /\ inv'[p].pids = {-k} /\ inv'[p].name = n
    BY <1>2, <2>4 DEF Shape, Local
  <2> QED
    BY <1>4, <1>6, <2>1, <2>5 DEF Inside, ExecPc
<1>10. CASE NsEnter(p)
  <2>1. inv[p].pc = "nsenter" /\ Exit(p)
    BY <1>10 DEF NsEnter
  <2> QED
    BY <1>2, <1>6, <2>1, Moves DEF k
<1> QED
  BY <1>5, <1>7, <1>8, <1>9, <1>10 DEF Exec

(* A service that is started gets the namespaces of its own container, and
   the address that is looked up is its container's. *)
LEMMA EntersHome ==
  ASSUME Shape, Settled, Housed, ServicesInv, NEW n \in {c1, c2}, NEW p \in Proc,
         inv[p].name = n, inv[p].pids = {-Home(n)}, Entered(p), copied = {c1, c2}
  PROVE  /\ p \notin foreground =>
              /\ services' = [services EXCEPT ![n] = {-Home(n)}]
              /\ services'[n] = {-Home(n)} /\ UNCHANGED c2_ip_address
         /\ p \in foreground /\ n = c2 /\ link[c2].inside = Home(c2) =>
              c2_ip_address' = link[c2].inAddr /\ UNCHANGED services
<1> DEFINE k == Home(n)
<1>1. k \in Int /\ k > 0 /\ PidAlive(-k) /\ NetOf(-k) = k
  BY HomeFacts
<1> HIDE DEF k
<1>2. ASSUME p \notin foreground
      PROVE  /\ services' = [services EXCEPT ![n] = {-k}]
             /\ services'[n] = {-k} /\ UNCHANGED c2_ip_address
  <2> DEFINE live == {pid \in inv[p].pids : PidAlive(pid) /\ n \in copied}
  <2>1. live = {-k}
    BY <1>1 DEF k
  <2> HIDE DEF live
  <2>2. services' = [services EXCEPT ![n] = live] /\ UNCHANGED c2_ip_address
    BY <1>2 DEF Entered, live
  <2> QED
    BY <2>1, <2>2, NamesAssumption DEF ServicesInv
<1>3. ASSUME p \in foreground, n = c2, link[c2].inside = k
      PROVE  c2_ip_address' = link[c2].inAddr /\ UNCHANGED services
  <2>1. \A pid \in inv[p].pids : link[c2].inside \in {NetOf(pid)} \ {0}
    BY <1>1, <1>3 DEF k
  <2> QED
    BY <1>3, <2>1 DEF Entered
<1> QED
  BY <1>2, <1>3 DEF k

-----------------------------------------------------------------------------
(* The end inside a settled container is reached by its name. *)
LEMMA HomeReachable ==
  ASSUME Shape, Settled, Housed, NEW n \in {c1, c2},
         netnsDir, netns[n] = {Home(n)}, link[n].inside = Home(n)
  PROVE  Reachable(n)
  BY HomeFacts DEF Reachable

(* addnetwork of a settled container gets through: the number, ... *)
LEMMA ConnectNumber ==
  ASSUME Shape, Settled, Housed, NetnsInv, NEW n \in {c1, c2}, NEW x \in {1, 2}, NEW opt,
         NEW p \in Proc, Connecting(p, n, x, opt),
         \/ NetDir(p) \/ NetPs(p) \/ NetLn(p) \/ NumRead(p) \/ NumTruncate(p) \/ NumWrite(p)
  PROVE  UNCHANGED <<link, nat, forward>> /\ Connecting(p, n, x, opt)'
<1> USE DEF At
<1> DEFINE k == Home(n)
<1>1. /\ Matching(n) = {k} /\ n \in Name
  BY HomeFacts, NamesAssumption
<1>2. UNCHANGED <<session, link, nat, forward>>
  BY DEF NetDir, NetPs, NetLn, NumRead, NumTruncate, NumWrite, netVars, linkVars, ruleVars
<1>3. Home(n)' = k
  BY <1>2, HomeSame
<1> HIDE DEF k
<1>4. \A label : Goto(p, label) =>
         /\ inv'[p].pc = label /\ inv'[p].name = inv[p].name /\ inv'[p].arg = inv[p].arg
         /\ inv'[p].num = inv[p].num /\ inv'[p].pids = inv[p].pids
  BY DEF Goto, Shape, Local
<1>5. inv[p].name = n /\ inv[p].arg = opt
  BY DEF Connecting
<1>6. CASE NetDir(p)
  <2>1. /\ inv[p].pc = "addnetwork" /\ netnsDir' = TRUE /\ Goto(p, "net_ps") /\ UNCHANGED highest
    BY <1>6 DEF NetDir
  <2>2. link[n] = NoLink /\ highest = IF x = 1 THEN None ELSE x - 1
    BY <2>1 DEF Connecting, LinkAt, ToRead
  <2> QED
    BY <1>2, <1>4, <1>5, <2>1, <2>2 DEF Connecting, LinkAt, ToRead, Written, NetPc
<1>7. CASE NetPs(p)
  <2>1. /\ inv[p].pc = "net_ps" /\ UNCHANGED <<highest, netnsDir, netns>>
        /\ inv' = [inv EXCEPT ![p].pids = {k}, ![p].pc = "net_ln"]
    BY <1>1, <1>5, <1>7 DEF NetPs, netVars, linkVars
  <2>2. /\ inv'[p].pc = "net_ln" /\ inv'[p].name = n /\ inv'[p].arg = opt /\ inv'[p].pids = {k}
    BY <1>5, <2>1 DEF Shape, Local
  <2>3. link[n] = NoLink /\ highest = (IF x = 1 THEN None ELSE x - 1) /\ netnsDir
    BY <2>1 DEF Connecting, LinkAt, ToRead
  <2> QED
    BY <1>2, <1>3, <2>1, <2>2, <2>3 DEF Connecting, LinkAt, ToRead, Written, NetPc
<1>8. CASE NetLn(p)
  <2>1. /\ inv[p].pc = "net_ln" /\ inv[p].pids = {k} /\ link[n] = NoLink
        /\ highest = (IF x = 1 THEN None ELSE x - 1) /\ netnsDir
    BY <1>8 DEF NetLn, Connecting, LinkAt, ToRead, k
  <2>2. Cardinality(inv[p].pids) <= 1
    <3>1. Cardinality({k}) = 1
      BY FS_Singleton
    <3> QED
      BY <2>1, <3>1
  <2>3. /\ netns' = [netns EXCEPT ![n] = {k}] /\ Goto(p, "num_read")
        /\ UNCHANGED <<highest, netnsDir>>
    BY <1>5, <1>8, <2>1, <2>2 DEF NetLn, Test
  <2>4. netns'[n] = {k}
    BY <1>1, <2>3 DEF NetnsInv
  <2> QED
    BY <1>2, <1>3, <1>4, <1>5, <2>1, <2>3, <2>4
    DEF Connecting, LinkAt, ToRead, Written, NetPc
<1>9. CASE NumRead(p)
  <2>1. /\ inv[p].pc = "num_read" /\ inv[p].pids = {k} /\ link[n] = NoLink
        /\ highest = (IF x = 1 THEN None ELSE x - 1) /\ netnsDir /\ netns[n] = {k}
    BY <1>9 DEF NumRead, Connecting, LinkAt, ToRead, k
  <2> DEFINE num == CASE highest = None -> 1
                      [] highest = Truncated -> 0
                      [] OTHER -> highest + 1
             label == IF highest = Truncated THEN "link_add" ELSE "num_truncate"
  <2>2. num = x /\ label = "num_truncate"
    <3>1. CASE x = 1
      BY <2>1, <3>1 DEF None, Truncated
    <3>2. CASE x = 2
      BY <2>1, <3>2 DEF None, Truncated
    <3> QED
      BY <3>1, <3>2
  <2>3. /\ UNCHANGED <<highest, netnsDir, netns>>
        /\ inv' = [inv EXCEPT ![p].num = num, ![p].pc = label]
    BY <1>9 DEF NumRead, netVars, linkVars
  <2> HIDE DEF num, label
  <2>4. /\ UNCHANGED <<highest, netnsDir, netns>>
        /\ inv' = [inv EXCEPT ![p].num = x, ![p].pc = "num_truncate"]
    BY <2>2, <2>3
  <2>5. /\ inv'[p].pc = "num_truncate" /\ inv'[p].name = n /\ inv'[p].arg = opt
        /\ inv'[p].pids = {k} /\ inv'[p].num = x
    BY <1>5, <2>1, <2>4 DEF Shape, Local
  <2> QED
    BY <1>2, <1>3, <2>1, <2>4, <2>5 DEF Connecting, LinkAt, ToRead, Written, NetPc
<1>10. CASE NumTruncate(p) \/ NumWrite(p)
  <2>1. /\ inv[p].pc \in {"num_truncate", "num_write"} /\ inv[p].pids = {k} /\ link[n] = NoLink
        /\ inv[p].num = x /\ netnsDir /\ netns[n] = {k}
    BY <1>10 DEF NumTruncate, NumWrite, Connecting, LinkAt, ToRead, k
  <2>2. /\ UNCHANGED <<netnsDir, netns>>
        /\ \/ Goto(p, "num_write")
           \/ Goto(p, "link_add") /\ highest' = x
    BY <1>10, <2>1 DEF NumTruncate, NumWrite, linkVars
  <2> QED
    BY <1>2, <1>3, <1>4, <1>5, <2>1, <2>2 DEF Connecting, LinkAt, ToRead, Written, NetPc
<1> QED
  BY <1>2, <1>6, <1>7, <1>8, <1>9, <1>10

-----------------------------------------------------------------------------
(* ... and the link, its addresses and the rules. *)
LEMMA ConnectLink ==
  ASSUME Shape, Settled, Housed, MaxPrefix >= 2,
         NEW n \in {c1, c2}, NEW x \in {1, 2}, NEW opt \in {"expose", "internet"},
         NEW p \in Proc, Connecting(p, n, x, opt),
         \/ LinkAdd(p) \/ LinkMove(p) \/ LinkUp(p) \/ AddrOut(p) \/ AddrIn(p)
         \/ Internet(p) \/ Expose(p) \/ NetDone(p)
  PROVE  /\ \A m \in Name \ {n} : link'[m] = link[m]
         /\ nat \subseteq nat' /\ forward \subseteq forward'
         /\ \/ Connecting(p, n, x, opt)'
            \/ /\ inv'[p].pc = "idle" /\ Connected(n, x)' /\ highest' = x
               /\ opt = "expose" => <<"dnat", x, n>> \in nat'
<1> USE DEF At
<1> DEFINE k == Home(n)
<1>1. /\ k \in Session /\ k # -1 /\ PidAlive(k) /\ NetOf(k) = k /\ k \notin Proc /\ n \in Name
  BY HomeFacts, NamesAssumption
<1>2. UNCHANGED <<session, highest>>
  BY DEF LinkAdd, LinkMove, LinkUp, AddrOut, AddrIn, Internet, Expose, NetDone, netVars
<1>3. Home(n)' = k
  BY <1>2, HomeSame
<1>4. netnsDir /\ netns[n] = {k} /\ link[n].inside = k => Reachable(n)
  BY HomeReachable
<1> HIDE DEF k
<1>5. \A label : Goto(p, label) =>
         /\ inv'[p].pc = label /\ inv'[p].name = inv[p].name /\ inv'[p].arg = inv[p].arg
         /\ inv'[p].num = inv[p].num /\ inv'[p].pids = inv[p].pids
  BY DEF Goto, Shape, Local
<1>6. inv[p].name = n /\ inv[p].arg = opt
  BY DEF Connecting
<1>7. /\ inv[p].pc \in Written
      /\ inv[p].num = x /\ highest = x /\ netnsDir /\ netns[n] = {k}
      /\ inv[p].pc \in {"link_add", "link_move"} => inv[p].pids = {k}
      /\ link[n] = LinkAt(n, x, inv[p].pc)
      /\ inv[p].pc \in {"expose", "net_done"} => Masked(x)
      /\ inv[p].pc = "net_done" /\ opt = "expose" => <<"dnat", x, n>> \in nat
  <2>1. inv[p].pc \in Written
    BY DEF LinkAdd, LinkMove, LinkUp, AddrOut, AddrIn, Internet, Expose, NetDone, Written
  <2> QED
    BY <2>1 DEF Connecting, Written, ToRead, k
<1>8. ASSUME NEW label \in Written, inv'[p].pc = label, inv'[p].name = n, inv'[p].arg = opt,
             inv'[p].num = x, UNCHANGED <<netnsDir, netns>>,
             label \in {"link_add", "link_move"} => inv'[p].pids = {k},
             link'[n] = LinkAt(n, x, label)',
             label \in {"expose", "net_done"} => Masked(x)',
             label = "net_done" /\ opt = "expose" => <<"dnat", x, n>> \in nat'
      PROVE  Connecting(p, n, x, opt)'
  BY <1>2, <1>3, <1>7, <1>8 DEF Connecting, Written, ToRead, NetPc
<1>9. CASE LinkAdd(p)
  <2>1. link[n] = NoLink
    BY <1>7, <1>9 DEF LinkAdd, LinkAt
  <2>2. /\ link' = [link EXCEPT ![n] = NewLink] /\ Goto(p, "link_move")
        /\ UNCHANGED <<netnsDir, netns, nat, forward>> /\ inv[p].pc = "link_add"
    BY <1>6, <1>9, <2>1 DEF LinkAdd, Test, ruleVars
  <2>3. link'[n] = NewLink /\ \A m \in Name \ {n} : link'[m] = link[m]
    BY <1>1, <2>2 DEF Shape
  <2>4. LinkAt(n, x, "link_move")' = NewLink
    BY DEF LinkAt
  <2> QED
    BY <1>5, <1>6, <1>7, <1>8, <2>2, <2>3, <2>4 DEF Written
<1>10. CASE LinkMove(p)
  <2>1. inv[p].pc = "link_move" /\ inv[p].pids = {k} /\ link[n] = NewLink
    BY <1>7, <1>10 DEF LinkMove, LinkAt
  <2>2. link[n].inside = 0
    BY <2>1 DEF NewLink, NoLink
  <2>3. {NetOf(pid) : pid \in inv[p].pids} = {k}
    BY <1>1, <2>1
  <2>4. inv[p].pids # {} /\ \A pid \in inv[p].pids : PidAlive(pid)
    BY <1>1, <2>1
  <2> DEFINE net == CHOOSE net \in {NetOf(pid) : pid \in inv[p].pids} : TRUE
  <2>5. net = k
    BY <2>3
  <2> HIDE DEF net
  <2>6. /\ link' = [link EXCEPT ![n].inside = net]
        /\ inv' = [inv EXCEPT ![p].pids = {}, ![p].pc = "link_up"]
        /\ UNCHANGED <<netnsDir, netns, nat, forward>>
    BY <1>6, <1>10, <2>2, <2>4 DEF LinkMove, ruleVars, net
  <2>7. link'[n] = [NewLink EXCEPT !.inside = k] /\ \A m \in Name \ {n} : link'[m] = link[m]
    BY <1>1, <2>1, <2>5, <2>6 DEF Shape
  <2>8. LinkAt(n, x, "link_up")' = [NewLink EXCEPT !.inside = k]
    BY <1>3 DEF LinkAt
  <2>9. /\ inv'[p].pc = "link_up" /\ inv'[p].name = n /\ inv'[p].arg = opt /\ inv'[p].num = x
    BY <1>6, <1>7, <2>6 DEF Shape, Local
  <2> QED
    BY <1>8, <2>6, <2>7, <2>8, <2>9 DEF Written
<1>11. CASE LinkUp(p)
  <2>1. inv[p].pc = "link_up" /\ link[n] = [NewLink EXCEPT !.inside = k]
    BY <1>7, <1>11 DEF LinkUp, LinkAt, k
  <2>2. link[n].inside = k
    BY <2>1 DEF NewLink, NoLink
  <2>3. Goto(p, "addr_out") /\ UNCHANGED <<link, netnsDir, netns, nat, forward>>
    BY <1>4, <1>6, <1>7, <1>11, <2>2 DEF LinkUp, Test, netVars, linkVars, ruleVars
  <2>4. LinkAt(n, x, "addr_out")' = [NewLink EXCEPT !.inside = k]
    BY <1>3 DEF LinkAt
  <2> QED
    BY <1>5, <1>6, <1>7, <1>8, <2>1, <2>3, <2>4 DEF Written
<1>12. CASE AddrOut(p)
  <2>1. inv[p].pc = "addr_out" /\ link[n] = [NewLink EXCEPT !.inside = k]
    BY <1>7, <1>12 DEF AddrOut, LinkAt, k
  <2>2. link[n] = [inside |-> k, outAddr |-> -1, inAddr |-> -1] /\ link[n] # NoLink
    <3>1. link[n] = [inside |-> k, outAddr |-> -1, inAddr |-> -1]
      BY <2>1 DEF NewLink, NoLink
    <3>2. link[n].inside = k /\ NoLink.inside = -1
      BY <3>1 DEF NoLink
    <3> QED
      BY <1>1, <3>1, <3>2
  <2>3. inv[p].num <= MaxPrefix
    BY <1>7, BoundsAssumption
  <2>4. /\ link' = [link EXCEPT ![n].outAddr = x]
        /\ Goto(p, "addr_in") /\ UNCHANGED <<netnsDir, netns, nat, forward>>
    BY <1>6, <1>7, <1>12, <2>2, <2>3 DEF AddrOut, Test, ruleVars
  <2>5. link'[n] = [inside |-> k, outAddr |-> x, inAddr |-> -1]
        /\ \A m \in Name \ {n} : link'[m] = link[m]
    BY <1>1, <2>2, <2>4 DEF Shape
  <2>6. LinkAt(n, x, "addr_in")' = [inside |-> k, outAddr |-> x, inAddr |-> -1]
    BY <1>3 DEF LinkAt
  <2> QED
    BY <1>5, <1>6, <1>7, <1>8, <2>4, <2>5, <2>6 DEF Written
<1>13. CASE AddrIn(p)
  <2>1. inv[p].pc = "addr_in" /\ link[n] = [inside |-> k, outAddr |-> x, inAddr |-> -1]
    BY <1>7, <1>13 DEF AddrIn, LinkAt, k
  <2>2. link[n].inside = k
    BY <2>1
  <2>3. Reachable(n) /\ inv[p].arg # "plain"
    BY <1>4, <1>6, <1>7, <2>2
  <2>4. /\ link' = [link EXCEPT ![n].inAddr = x]
        /\ Goto(p, "internet") /\ UNCHANGED <<netnsDir, netns, nat, forward>>
    BY <1>6, <1>7, <1>13, <2>3 DEF AddrIn, Test, ruleVars
  <2>5. link'[n] = [inside |-> k, outAddr |-> x, inAddr |-> x]
        /\ \A m \in Name \ {n} : link'[m] = link[m]
    BY <1>1, <2>1, <2>4 DEF Shape
  <2>6. LinkAt(n, x, "internet")' = [inside |-> k, outAddr |-> x, inAddr |-> x]
    BY <1>3 DEF LinkAt
  <2> QED
    BY <1>5, <1>6, <1>7, <1>8, <2>4, <2>5, <2>6 DEF Written
<1>14. CASE Internet(p) \/ Expose(p)
  <2>1. /\ inv[p].pc \in {"internet", "expose"}
        /\ link[n] = [inside |-> k, outAddr |-> x, inAddr |-> x]
    BY <1>7, <1>14 DEF Internet, Expose, LinkAt, k
  <2>2. Reachable(n)
    <3>1. link[n].inside = k
      BY <2>1
    <3> QED
      BY <1>4, <1>7, <3>1
  <2>3. UNCHANGED <<link, netnsDir, netns>>
    BY <1>14 DEF Internet, Expose, linkVars
  <2>4. \A pc \in {"expose", "net_done"} :
          LinkAt(n, x, pc)' = [inside |-> k, outAddr |-> x, inAddr |-> x]
    BY <1>3 DEF LinkAt
  <2>5. CASE Internet(p)
    <3>1. /\ nat' = nat \cup {<<"masquerade", x>>} /\ forward \subseteq forward'
          /\ Goto(p, IF opt = "expose" THEN "expose" ELSE "net_done")
      BY <1>6, <1>7, <2>2, <2>5 DEF Internet, Test
    <3>2. Masked(x)' /\ nat \subseteq nat'
      BY <3>1 DEF Masked
    <3>3. CASE opt = "expose"
      BY <1>5, <1>6, <1>7, <1>8, <2>1, <2>3, <2>4, <3>1, <3>2, <3>3 DEF Written
    <3>4. CASE opt # "expose"
      BY <1>5, <1>6, <1>7, <1>8, <2>1, <2>3, <2>4, <3>1, <3>2, <3>4 DEF Written
    <3> QED
      BY <3>3, <3>4
  <2>6. CASE Expose(p)
    <3>1. /\ nat' = nat \cup {<<"dnat", x, n>>} /\ forward \subseteq forward'
          /\ Goto(p, "net_done") /\ Masked(x)
      BY <1>6, <1>7, <2>6 DEF Expose
    <3>2. Masked(x)' /\ nat \subseteq nat' /\ <<"dnat", x, n>> \in nat'
      BY <3>1 DEF Masked
    <3> QED
      BY <1>5, <1>6, <1>7, <1>8, <2>1, <2>3, <2>4, <3>1, <3>2 DEF Written
  <2> QED
    BY <1>14, <2>5, <2>6
<1>15. CASE NetDone(p)
  <2>1. /\ inv[p].pc = "net_done" /\ Exit(p) /\ UNCHANGED <<link, nat, forward>>
    BY <1>15 DEF NetDone, ruleVars
  <2>2. link[n] = [inside |-> k, outAddr |-> x, inAddr |-> x]
    BY <1>7, <2>1 DEF LinkAt, k
  <2>3. Connected(n, x)'
    BY <1>3, <1>7, <2>1, <2>2 DEF Connected, Masked
  <2>4. inv'[p].pc = "idle"
    BY <2>1, Moves
  <2> QED
    BY <1>2, <1>7, <2>1, <2>3, <2>4
<1> QED
  BY <1>9, <1>10, <1>11, <1>12, <1>13, <1>14, <1>15

-----------------------------------------------------------------------------
(* addnetwork and exec are where they were as long as nothing they go by
   changes. *)
LEMMA CallsSame ==
  ASSUME UNCHANGED <<session, netVars>>, NEW p, inv'[p] = inv[p], NEW n
  PROVE  /\ \A x, opt : Connecting(p, n, x, opt) => Connecting(p, n, x, opt)'
         /\ Inside(p, n) => Inside(p, n)'
<1>1. UNCHANGED <<session, link, netnsDir, netns, highest, nat>> /\ Home(n)' = Home(n)
  BY HomeSame DEF netVars, linkVars, ruleVars
<1> HIDE DEF Home
<1>2. ASSUME NEW x, NEW opt, Connecting(p, n, x, opt) PROVE Connecting(p, n, x, opt)'
  <2>1. LinkAt(n, x, inv[p].pc)' = LinkAt(n, x, inv[p].pc)
    BY <1>1 DEF LinkAt
  <2>2. Masked(x)' = Masked(x)
    BY <1>1 DEF Masked
  <2> HIDE DEF LinkAt, Masked
  <2> QED
    BY <1>1, <1>2, <2>1, <2>2 DEF Connecting
<1>3. Inside(p, n) => Inside(p, n)'
  BY <1>1 DEF Inside
<1> QED
  BY <1>2, <1>3

(* A connection stands until its link goes or rules are taken away. *)
LEMMA ConnectedKept ==
  ASSUME UNCHANGED session, NEW n, link'[n] = link[n], nat \subseteq nat',
         NEW x, Connected(n, x)
  PROVE  Connected(n, x)'
<1>1. Home(n)' = Home(n)
  BY HomeSame
<1> QED
  BY <1>1 DEF Connected, Masked

(* Once the containers have settled, they stay so until somebody else comes. *)
LEMMA SettledStays ==
  ASSUME Shape, LineInv, line \in 5 .. 12, Settled, ScriptStep
  PROVE  /\ Settled' /\ UNCHANGED <<dir, session>>
         /\ UNCHANGED ovars \/ Conduct \/ (CopyServices /\ line = 5 /\ line' = 6)
              \/ \E p \in Proc : InvocationStep(p)
<1> USE DEF At
<1>1. CASE UNCHANGED ovars
  BY <1>1 DEF ovars, vars, dirVars, Settled
<1>2. CASE Conduct
  <2>1. /\ UNCHANGED <<dirVars, session>>
        /\ \E p \in Proc : /\ \A q \in Proc \ {p} : inv'[q] = inv[q]
                           /\ inv'[p].pc \in {"addnetwork", "peer", "exec"}
    BY <1>2, ScriptLines
  <2> QED
    BY <1>2, <2>1 DEF Settled, dirVars, NetPc, ExecPc
<1>3. CASE CopyServices /\ line = 5 /\ line' = 6
  BY <1>3 DEF CopyServices, vars, dirVars, Settled
<1>4. ASSUME NEW p \in Proc, InvocationStep(p) PROVE Settled' /\ UNCHANGED <<dir, session>>
  BY <1>4, SettledStep DEF InvocationStep
<1>5. ASSUME NEW k \in Session,
             StartUp(k) \/ (SessionEnds(k) /\ session[k].stage = "forked")
      PROVE  FALSE
  BY <1>5 DEF StartUp, Fork, Chroot, SetStage, Settled
<1>6. ~(Sleep /\ line = 4 /\ line' = 5)
  OBVIOUS
<1> QED
  BY <1>1, <1>2, <1>3, <1>4, <1>5, <1>6 DEF ScriptStep


(* The next line is begun when the call of the one before has done its work. *)
LEMMA NextCall ==
  ASSUME Shape, LineInv, line \in 5 .. 12, line' <= 12, Settled, Housed, Deploying, Conduct
  PROVE  Deploying'
<1> USE DEF At
<1>1. /\ line' = line + 1
      /\ UNCHANGED <<dirVars, session, netVars, copied, services, c2_ip_address>>
      /\ \A q \in foreground : inv[q].pc = "idle"
  BY ScriptLines DEF deployVars
<1>2. PICK p \in Proc :
        /\ inv[p].pc = "idle" /\ \A q \in Proc \ {p} : inv'[q] = inv[q]
        /\ \/ /\ line = 6 /\ inv'[p].pc = "addnetwork" /\ inv'[p].name = c1
              /\ inv'[p].arg = "expose" /\ foreground' = {p}
           \/ /\ line = 7 /\ inv'[p].pc = "addnetwork" /\ inv'[p].name = c2
              /\ inv'[p].arg = "internet" /\ foreground' = {p}
           \/ /\ line = 8 /\ inv'[p].pc = "peer" /\ inv'[p].name = c1
              /\ inv'[p].arg = c2 /\ foreground' = {p}
           \/ /\ line = 9 /\ inv'[p].pc = "exec" /\ inv'[p].name = c2 /\ foreground' = {p}
           \/ /\ line = 10 /\ inv'[p].pc = "exec" /\ inv'[p].name = c2 /\ foreground' = {}
           \/ /\ line = 11 /\ inv'[p].pc = "exec" /\ inv'[p].name = c1 /\ foreground' = {}
  BY ScriptLines
<1>3. UNCHANGED <<link, highest, nat, forward>>
  BY <1>1 DEF netVars, linkVars, ruleVars
<1>4. /\ FirstConnected => FirstConnected'
      /\ Connected(c2, 2) => Connected(c2, 2)'
      /\ Peered => Peered'
  <2>1. \A n, x : Connected(n, x) => Connected(n, x)'
    BY <1>1, <1>3, ConnectedKept
  <2> QED
    BY <1>3, <2>1 DEF FirstConnected, Peered
<1>5. \A q \in Proc : \A n, x, opt : foreground = {q} => ~Connecting(q, n, x, opt) /\ ~Inside(q, n)
                        /\ inv[q].pc # "peer"
  BY <1>1 DEF Connecting, Inside, NetPc, ExecPc
<1>6. AllIdle => Alone(p)'
  BY <1>2 DEF AllIdle, Alone
<1>7. \A n : inv'[p].pc = "exec" /\ inv'[p].name = n => Inside(p, n)'
  BY DEF Inside, ExecPc
<1>8. CASE line = 6
  <2>1. Connecting(p, c1, 1, "expose")'
    BY <1>2, <1>3, <1>8 DEF Connecting, ToRead, Written, NetPc, LinkAt, Deploying
  <2> QED
    BY <1>1, <1>2, <1>3, <1>6, <1>8, <2>1 DEF Deploying
<1>9. CASE line = 7
  <2>1. AllIdle /\ FirstConnected /\ highest = 1 /\ link[c2] = NoLink
    BY <1>5, <1>9 DEF Deploying
  <2>2. Connecting(p, c2, 2, "internet")'
    BY <1>2, <1>3, <1>9, <2>1 DEF Connecting, ToRead, Written, NetPc, LinkAt
  <2> QED
    BY <1>1, <1>2, <1>4, <1>6, <1>9, <2>1, <2>2 DEF Deploying
<1>10. CASE line = 8
  <2>1. AllIdle /\ FirstConnected /\ Connected(c2, 2)
    BY <1>5, <1>10 DEF Deploying
  <2> QED
    BY <1>1, <1>2, <1>4, <1>6, <1>10, <2>1 DEF Deploying
<1>11. CASE line = 9
  <2>1. AllIdle /\ FirstConnected /\ Connected(c2, 2) /\ Peered
    BY <1>5, <1>11 DEF Deploying
  <2> QED
    BY <1>1, <1>2, <1>4, <1>6, <1>7, <1>11, <2>1 DEF Deploying
<1>12. CASE line = 10
  <2>1. AllIdle /\ FirstConnected /\ Connected(c2, 2) /\ Peered /\ c2_ip_address = 2
    BY <1>5, <1>12 DEF Deploying
  <2>2. Inside(p, c2)' /\ foreground' = {}
    BY <1>2, <1>7, <1>12
  <2>3. Served(c2)'
    BY <2>2 DEF Served
  <2>4. \A q \in Proc : inv'[q].pc = "idle" \/ Inside(q, c1)' \/ Inside(q, c2)'
    BY <1>2, <2>1, <2>2 DEF AllIdle
  <2> QED
    BY <1>1, <1>4, <1>12, <2>1, <2>2, <2>3, <2>4 DEF Deploying
<1>13. CASE line = 11
  <2>1. /\ FirstConnected /\ Connected(c2, 2) /\ Peered /\ c2_ip_address = 2 /\ Served(c2)
        /\ \A q \in Proc : inv[q].pc = "idle" \/ Inside(q, c1) \/ Inside(q, c2)
    BY <1>13 DEF Deploying
  <2>2. Inside(p, c1)' /\ foreground' = {}
    BY <1>2, <1>7, <1>13
  <2>3. \A q \in Proc \ {p} : \A n : Inside(q, n) => Inside(q, n)'
    BY <1>1, <1>2, CallsSame
  <2>4. \A q \in Proc : inv'[q].pc = "idle" \/ Inside(q, c1)' \/ Inside(q, c2)'
    BY <1>2, <2>1, <2>2, <2>3
  <2>5. Served(c1)'
    BY <2>2 DEF Served
  <2>6. ~Inside(p, c2)
    BY <1>2 DEF Inside, ExecPc
  <2>7. Home(c2)' = Home(c2)
    BY <1>1, HomeSame
  <2>8. Served(c2)'
    BY <1>1, <2>1, <2>3, <2>6, <2>7 DEF Served
  <2> QED
    BY <1>1, <1>4, <1>13, <2>1, <2>2, <2>4, <2>5, <2>8 DEF Deploying
<1> QED
  BY <1>2, <1>8, <1>9, <1>10, <1>11, <1>12, <1>13

-----------------------------------------------------------------------------
(* What addnetwork of c1, of c2 and peer do for the deployment, step by step. *)
LEMMA CallConnects ==
  ASSUME Shape, LineInv, NetnsInv, MaxPrefix >= 2, line \in 7 .. 9, Settled, Housed, Deploying,
         NEW p \in Proc, InvocationStep(p)
  PROVE  Deploying'
<1> USE DEF At
<1>1. Invocation(p) /\ UNCHANGED <<line, foreground, copied>>
  BY DEF InvocationStep
<1>2. /\ UNCHANGED session /\ \A q \in Proc \ {p} : inv'[q] = inv[q]
      /\ AddNetwork(p) \/ Peer(p) \/ Exec(p)
      /\ inv[p].pc # "idle"
  BY <1>1, SettledStep DEF NetPc, ExecPc
<1>3. ~AllIdle
  BY <1>2 DEF AllIdle
<1>4. ASSUME NEW q \in Proc, Alone(q)
      PROVE  q = p /\ Alone(p)' /\ (inv'[p].pc = "idle" => AllIdle')
  BY <1>2, <1>4 DEF Alone, AllIdle
<1>5. ASSUME NEW n \in {c1, c2}, NEW x \in {1, 2}, NEW opt \in {"expose", "internet"},
             Connecting(p, n, x, opt)
      PROVE  /\ \A m \in Name \ {n} : link'[m] = link[m]
             /\ nat \subseteq nat' /\ forward \subseteq forward'
             /\ \/ Connecting(p, n, x, opt)'
                \/ /\ inv'[p].pc = "idle" /\ Connected(n, x)' /\ highest' = x
                   /\ opt = "expose" => <<"dnat", x, n>> \in nat'
  <2>1. AddNetwork(p)
    <3>1. inv[p].pc \in NetPc
      BY <1>5 DEF Connecting
    <3> QED
      BY <1>2, <3>1 DEF Peer, NetPc, Exec, ExecCheck, ExecPs, ExecPgrep, NsEnter
  <2>2. CASE NetDir(p) \/ NetPs(p) \/ NetLn(p) \/ NumRead(p) \/ NumTruncate(p) \/ NumWrite(p)
    BY <1>5, <2>2, ConnectNumber
  <2>3. CASE \/ LinkAdd(p) \/ LinkMove(p) \/ LinkUp(p) \/ AddrOut(p) \/ AddrIn(p)
             \/ Internet(p) \/ Expose(p) \/ NetDone(p)
    BY <1>5, <2>3, ConnectLink
  <2> QED
    BY <2>1, <2>2, <2>3 DEF AddNetwork
<1>6. c1 # c2 /\ c1 \in Name /\ c2 \in Name
  BY NamesAssumption
<1>7. CASE line = 7
  <2>1. /\ Alone(p) /\ foreground = {p} /\ Connecting(p, c1, 1, "expose")
        /\ link[c2] = NoLink /\ copied = {c1, c2}
    BY <1>3, <1>4, <1>7 DEF Deploying
  <2>2. Alone(p)' /\ foreground' = {p} /\ link'[c2] = NoLink /\ copied' = {c1, c2}
    BY <1>1, <1>4, <1>5, <1>6, <2>1
  <2>3. \/ Connecting(p, c1, 1, "expose")'
        \/ AllIdle' /\ FirstConnected' /\ highest' = 1
    BY <1>4, <1>5, <2>1 DEF FirstConnected
  <2> QED
    BY <1>1, <1>7, <2>2, <2>3 DEF Deploying
<1>8. CASE line = 8
  <2>1. /\ Alone(p) /\ foreground = {p} /\ Connecting(p, c2, 2, "internet")
        /\ FirstConnected /\ copied = {c1, c2}
    BY <1>3, <1>4, <1>8 DEF Deploying
  <2>2. /\ Alone(p)' /\ foreground' = {p} /\ copied' = {c1, c2}
        /\ link'[c1] = link[c1] /\ nat \subseteq nat'
    BY <1>1, <1>4, <1>5, <1>6, <2>1
  <2>3. FirstConnected'
    <3>1. Connected(c1, 1)'
      BY <1>2, <2>1, <2>2, ConnectedKept DEF FirstConnected
    <3> QED
      BY <2>1, <2>2, <3>1 DEF FirstConnected
  <2>4. \/ Connecting(p, c2, 2, "internet")'
        \/ AllIdle' /\ Connected(c2, 2)'
    BY <1>4, <1>5, <2>1
  <2> QED
    BY <1>1, <1>8, <2>2, <2>3, <2>4 DEF Deploying
<1>9. CASE line = 9
  <2>1. /\ Alone(p) /\ foreground = {p} /\ copied = {c1, c2}
        /\ inv[p].pc = "peer" /\ inv[p].name = c1 /\ inv[p].arg = c2
        /\ FirstConnected /\ Connected(c2, 2)
    BY <1>3, <1>4, <1>9 DEF Deploying
  <2>2. Peer(p)
    BY <1>2, <2>1 DEF Exec, ExecCheck, ExecPs, ExecPgrep, NsEnter,
         AddNetwork, NetDir, NetPs, NetLn, NumRead, NumTruncate, NumWrite, LinkAdd,
         LinkMove, LinkUp, AddrOut, AddrIn, Internet, Expose, NetDone
  <2>3. /\ UNCHANGED <<link, nat>> /\ forward' = forward \cup {<<c1, c2>>, <<c2, c1>>}
        /\ Exit(p)
    BY <2>1, <2>2 DEF Peer, linkVars
  <2>4. Peered' /\ AllIdle'
    BY <1>4, <2>1, <2>3, Moves DEF Peered
  <2>5. FirstConnected' /\ Connected(c2, 2)'
    <3>1. \A n, x : Connected(n, x) => Connected(n, x)'
      BY <1>2, <2>3, ConnectedKept
    <3> QED
      BY <2>1, <2>3, <3>1 DEF FirstConnected
  <2> QED
    BY <1>1, <1>9, <2>1, <2>4, <2>5 DEF Deploying
<1> QED
  BY <1>7, <1>8, <1>9

(* What exec does for it: the address is the one of c2, and the services get
   into their containers. *)
LEMMA ServicesEnter ==
  ASSUME Shape, LineInv, ServicesInv, line \in 10 .. 12, Settled, Housed, Full, Deploying,
         NEW p \in Proc, InvocationStep(p)
  PROVE  Deploying'
<1> USE DEF At
<1>1. /\ Invocation(p) /\ UNCHANGED <<line, foreground, copied>>
      /\ IF inv[p].pc = "nsenter" THEN Entered(p) ELSE UNCHANGED <<services, c2_ip_address>>
  BY ElevenLines DEF InvocationStep
<1>2. /\ UNCHANGED session /\ \A q \in Proc \ {p} : inv'[q] = inv[q]
      /\ inv[p].pc # "idle"
  BY <1>1, SettledStep DEF NetPc, ExecPc
<1>3. ~AllIdle
  BY <1>2 DEF AllIdle
<1>4. ASSUME NEW q \in Proc, Alone(q)
      PROVE  q = p /\ Alone(p)' /\ (inv'[p].pc = "idle" => AllIdle')
  BY <1>2, <1>4 DEF Alone, AllIdle
<1>5. /\ copied = {c1, c2} /\ Connected(c2, 2) /\ FirstConnected /\ Peered
  BY DEF Deploying
<1>6. PICK n \in {c1, c2} : Inside(p, n) /\ (line = 10 => n = c2 /\ Alone(p) /\ foreground = {p})
  BY <1>2, <1>3, <1>4 DEF Deploying
<1>7. /\ UNCHANGED netVars
      /\ \/ inv[p].pc # "nsenter" /\ Inside(p, n)'
         \/ inv[p].pc = "nsenter" /\ inv[p].pids = {-Home(n)} /\ inv'[p].pc = "idle"
  BY <1>1, <1>6, InsideStep DEF Full
<1>8. FirstConnected' /\ Connected(c2, 2)' /\ Peered'
  <2>1. UNCHANGED <<link, nat, forward>>
    BY <1>7 DEF netVars, linkVars, ruleVars
  <2>2. \A m, x : Connected(m, x) => Connected(m, x)'
    BY <1>2, <2>1, ConnectedKept
  <2> QED
    BY <1>5, <2>1, <2>2 DEF FirstConnected, Peered
<1>9. inv[p].name = n
  BY <1>6 DEF Inside
<1>10. inv[p].pc = "nsenter" =>
         /\ p \notin foreground =>
              /\ services' = [services EXCEPT ![n] = {-Home(n)}]
              /\ services'[n] = {-Home(n)} /\ UNCHANGED c2_ip_address
         /\ p \in foreground /\ n = c2 /\ link[c2].inside = Home(c2) =>
              c2_ip_address' = link[c2].inAddr /\ UNCHANGED services
  BY <1>1, <1>5, <1>7, <1>9, EntersHome
<1>11. link[c2].inside = Home(c2) /\ link[c2].inAddr = 2
  BY <1>5 DEF Connected
<1>12. CASE line = 10
  <2>1. \/ AllIdle' /\ c2_ip_address' = 2
        \/ Alone(p)' /\ foreground' = {p} /\ Inside(p, c2)'
    BY <1>1, <1>4, <1>6, <1>7, <1>10, <1>11, <1>12
  <2> QED
    BY <1>1, <1>5, <1>8, <1>12, <2>1 DEF Deploying
<1>13. CASE line > 10
  <2>1. /\ c2_ip_address = 2 /\ foreground = {} /\ Served(c2) /\ (line = 12 => Served(c1))
        /\ \A q \in Proc : inv[q].pc = "idle" \/ Inside(q, c1) \/ Inside(q, c2)
    BY <1>13 DEF Deploying
  <2>2. /\ UNCHANGED c2_ip_address
        /\ inv[p].pc # "nsenter" => UNCHANGED services
    BY <1>1, <1>10, <2>1
  <2>3. \A m : Home(m)' = Home(m)
    BY <1>2, HomeSame
  <2>4. \A q \in Proc \ {p} : \A m : Inside(q, m) => Inside(q, m)'
    BY <1>2, <1>7, CallsSame
  <2>5. \A q \in Proc : inv'[q].pc = "idle" \/ Inside(q, c1)' \/ Inside(q, c2)'
    BY <1>2, <1>6, <1>7, <2>1, <2>4
  <2>6. ASSUME NEW m \in {c1, c2}, Served(m) PROVE Served(m)'
    <3>1. CASE m = n
      BY <1>7, <1>10, <2>1, <2>2, <2>3, <2>4, <2>6, <3>1 DEF Served
    <3>2. CASE m # n
      <4>1. ~Inside(p, m)
        BY <1>9, <3>2 DEF Inside
      <4>2. services'[m] = services[m]
        BY <1>7, <1>10, <2>1, <2>2, <3>2, NamesAssumption DEF ServicesInv
      <4> QED
        BY <2>3, <2>4, <2>6, <4>1, <4>2 DEF Served
    <3> QED
      BY <3>1, <3>2
  <2> QED
    BY <1>1, <1>5, <1>8, <1>13, <2>1, <2>2, <2>5, <2>6 DEF Deploying
<1> QED
  BY <1>12, <1>13

(* Every service entry is a set of processes. *)
LEMMA ServicesKept ==
  ASSUME Shape, ServicesInv, [OrchestratorNext]_ovars
  PROVE  ServicesInv'
<1>1. CASE UNCHANGED services
  BY <1>1 DEF ServicesInv
<1>2. ASSUME NEW p \in Proc, InvocationStep(p) PROVE ServicesInv'
  <2>1. \/ UNCHANGED services
        \/ \E S : S \subseteq inv[p].pids /\ services' = [services EXCEPT ![inv[p].name] = S]
    <3> DEFINE live == {pid \in inv[p].pids : PidAlive(pid) /\ inv[p].name \in copied}
    <3>1. UNCHANGED services \/ services' = [services EXCEPT ![inv[p].name] = live]
      BY <1>2 DEF InvocationStep, Entered
    <3>2. live \subseteq inv[p].pids
      OBVIOUS
    <3> HIDE DEF live
    <3> QED
      BY <3>1, <3>2
  <2>2. inv[p].pids \subseteq Pid
    BY DEF Shape, Local
  <2> QED
    BY <2>1, <2>2 DEF ServicesInv
<1>3. CASE services' = [n \in Name |-> {}]
  BY <1>3 DEF ServicesInv
<1> QED
  BY <1>1, <1>2, <1>3
  DEF OrchestratorNext, Script, Conduct, Sleep, CopyServices, ContainerStep, AskToStop,
      Administers, deployVars, scriptVars, ovars

-----------------------------------------------------------------------------
(* A stutter leaves the deployment as it is. *)
LEMMA DeployingSame ==
  ASSUME UNCHANGED ovars, Deploying
  PROVE  Deploying'
<1>1. /\ UNCHANGED <<session, netVars, inv, line, foreground, copied, services, c2_ip_address>>
      /\ UNCHANGED <<link, highest, nat, forward>>
  BY DEF ovars, vars, scriptVars, deployVars, netVars, linkVars, ruleVars
<1>2. \A p, n : Inside(p, n) => Inside(p, n)'
  BY <1>1, CallsSame
<1>3. \A p, n, x, opt : Connecting(p, n, x, opt) => Connecting(p, n, x, opt)'
  BY <1>1, CallsSame
<1>4. \A n, x : Connected(n, x) => Connected(n, x)'
  BY <1>1, ConnectedKept
<1>5. \A n : Served(n) => Served(n)'
  BY <1>1, <1>2, HomeSame DEF Served
<1>6. /\ AllIdle => AllIdle'
      /\ \A p : Alone(p) => Alone(p)'
      /\ FirstConnected => FirstConnected'
      /\ Peered => Peered'
  BY <1>1, <1>4 DEF AllIdle, Alone, FirstConnected, Peered, At
<1> QED
  BY <1>1, <1>2, <1>3, <1>4, <1>5, <1>6 DEF Deploying

(* No step the script waits through undoes the deployment so far. *)
LEMMA StepDeployInv ==
  ASSUME Shape, LineInv, NetnsInv, ServicesInv, DeployInv, MaxPrefix >= 2,
         [OrchestratorNext]_ovars
  PROVE  DeployInv'
<1>1. line \in 1 .. 13 /\ line' \in 1 .. 13
  BY StepLineInv, ElevenLines DEF LineInv
<1>2. line' <= 12 => line <= 12 /\ ScriptStep
  BY ScriptSteps
<1>3. Conduct => line' = line + 1 /\ line # 4 /\ UNCHANGED patient
  <2> SUFFICES ASSUME Conduct PROVE line' = line + 1 /\ line # 4 /\ UNCHANGED patient
    OBVIOUS
  <2>1. line' = line + 1 /\ UNCHANGED patient
    BY ScriptLines
  <2>2. \E p \in Proc : line \in {1, 2, 3, 6, 7, 8, 9, 10, 11}
    BY ScriptLines
  <2> QED
    BY <2>1, <2>2
<1>4. ASSUME NEW p \in Proc, InvocationStep(p) PROVE UNCHANGED <<line, patient>>
  BY <1>4 DEF InvocationStep
<1>5. UNCHANGED ovars \/ UNCHANGED scriptVars => UNCHANGED <<line, patient>>
  BY DEF ovars, scriptVars
<1>6. line' <= 12 => line <= line'
  BY <1>1, <1>2, <1>3, <1>4, <1>5 DEF ScriptStep
<1>7. ASSUME line' <= 4 PROVE Launching'
  <2>1. line <= 4
    BY <1>1, <1>6, <1>7
  <2> QED
    BY <1>7, <2>1, LaunchingKept DEF DeployInv
<1>8. ASSUME patient', line' \in 5 .. 12 PROVE Settled' /\ (Full' => Housed' /\ Deploying')
  <2>1. line <= 12 /\ ScriptStep /\ line \in 1 .. 12
    BY <1>1, <1>2, <1>8
  <2>2. patient
    <3>1. Sleep \/ CopyServices => UNCHANGED patient
      BY DEF Sleep, CopyServices, Ready
    <3> QED
      BY <1>8, <1>3, <1>4, <1>5, <2>1, <3>1 DEF ScriptStep
  <2>3. CASE line <= 4
    <3>1. Sleep /\ line = 4 /\ line' = 5
      <4>1. line' # line /\ ~(line = 5) /\ ~(line # 4 /\ line' = line + 1)
        BY <1>8, <2>1, <2>3
      <4> QED
        BY <1>3, <1>4, <1>5, <2>1, <4>1 DEF ScriptStep
    <3> QED
      BY <2>2, <2>3, <3>1, SleepSettles DEF DeployInv
  <2>4. CASE line \in 5 .. 12
    <3>1. Settled /\ (Full => Housed /\ Deploying)
      BY <2>2, <2>4 DEF DeployInv
    <3>2. /\ Settled' /\ UNCHANGED <<dir, session>>
          /\ UNCHANGED ovars \/ Conduct \/ (CopyServices /\ line = 5 /\ line' = 6)
               \/ \E p \in Proc : InvocationStep(p)
      BY <2>1, <2>4, <3>1, SettledStays
    <3>3. Full' <=> Full
      BY <3>2 DEF Full
    <3>4. ASSUME Full PROVE Housed' /\ Deploying'
      <4>1. Housed /\ Housed' /\ Deploying
        BY <3>1, <3>2, <3>4, HomeSame
      <4>2. CASE UNCHANGED ovars
        BY <4>1, <4>2, DeployingSame
      <4>3. CASE Conduct
        BY <1>8, <2>4, <3>1, <4>1, <4>3, NextCall
      <4>4. CASE CopyServices /\ line = 5 /\ line' = 6
        <5>1. copied' = {c1, c2} /\ UNCHANGED <<inv, link, highest>>
          BY <3>4, <4>4 DEF CopyServices, Full, vars, netVars, linkVars
        <5>2. AllIdle' /\ highest' = None /\ link'[c1] = NoLink /\ link'[c2] = NoLink
          BY <4>1, <4>4, <5>1 DEF Deploying, AllIdle, At
        <5> QED
          BY <4>1, <4>4, <5>1, <5>2 DEF Deploying
      <4>5. ASSUME NEW p \in Proc, InvocationStep(p) PROVE Deploying'
        <5>1. line \notin {5, 6}
          <6>1. line \in {5, 6} => AllIdle
            BY <4>1 DEF Deploying
          <6>2. inv[p].pc # "idle"
            BY <3>1, <4>5, SettledStep DEF InvocationStep, NetPc, ExecPc
          <6> QED
            BY <6>1, <6>2 DEF AllIdle, At
        <5> QED
          BY <2>4, <3>1, <3>4, <4>1, <4>5, <5>1, CallConnects, ServicesEnter
      <4> QED
        BY <3>2, <4>1, <4>2, <4>3, <4>4, <4>5
    <3> QED
      BY <3>2, <3>3, <3>4
  <2> QED
    BY <2>1, <2>3, <2>4
<1> QED
  BY <1>7, <1>8 DEF DeployInv

(* The script finds a host on which nothing runs yet. *)
LEMMA InitDeployInv == OrchestratorInit => DeployInv /\ ServicesInv /\ NetnsInv
<1> SUFFICES ASSUME OrchestratorInit PROVE DeployInv /\ ServicesInv /\ NetnsInv
  OBVIOUS
<1> USE DEF OrchestratorInit, Init, HostInit
<1>1. ServicesInv /\ NetnsInv
  BY DEF ServicesInv, NetnsInv
<1>2. /\ line = 1 /\ Directories /\ highest = None
      /\ \A p \in Proc : inv[p].pc = "idle"
      /\ \A n \in Name : link[n] = NoLink /\ dir[n] = "absent"
      /\ \A k \in Session : session[k].stage = "none"
  BY DEF Directories, Idle
<1> HIDE DEF OrchestratorInit, Init, HostInit
<1>3. \A n : Running(n) = {} /\ Living(n) = {}
  BY <1>2 DEF Running, Living, Alive, RunPc
<1>4. Launching
  BY <1>2, <1>3, NamesAssumption DEF Launching, Launch, Unlaunched, AtMostOne
<1> QED
  BY <1>1, <1>2, <1>4 DEF DeployInv

(* When the script sleeps for ever, the deployment is what it is for. *)
LEMMA DeployedStands ==
  DeployInv /\ ServicesInv /\ Shape => DeploymentStands
<1> USE DEF At
<1> SUFFICES ASSUME DeployInv, patient, line = Deployed, AllIdle,
                    \A n \in {c1, c2} : dir[n] = "full"
             PROVE  /\ \A n \in {c1, c2} :
                         \E k \in Session :
                           /\ session[k] = [name |-> n, stage |-> "init"]
                           /\ services[n] = {-k}
                           /\ link[n].inside = k
                           /\ link[n].inAddr = link[n].outAddr
                           /\ <<"masquerade", link[n].inAddr>> \in nat
                    /\ {<<c1, c2>>, <<c2, c1>>} \subseteq forward
                    /\ <<"dnat", link[c1].inAddr, c1>> \in nat
                    /\ link[c1].inAddr # c2_ip_address
                    /\ c2_ip_address = link[c2].inAddr
  BY DEF DeploymentStands
<1>1. line = 12 /\ Housed /\ Deploying
  BY ElevenLines DEF DeployInv, Full
<1>2. /\ Connected(c1, 1) /\ <<"dnat", 1, c1>> \in nat /\ Connected(c2, 2) /\ Peered
      /\ Served(c1) /\ Served(c2) /\ c2_ip_address = 2
  BY <1>1 DEF Deploying, FirstConnected
<1>3. \A p \in Proc : \A n : ~Inside(p, n)
  BY DEF AllIdle, Inside, ExecPc
<1>4. \A n \in {c1, c2} : services[n] = {-Home(n)}
  BY <1>2, <1>3 DEF Served
<1>5. ASSUME NEW n \in {c1, c2}, NEW x, Connected(n, x)
      PROVE  /\ link[n].inside = Home(n) /\ link[n].inAddr = x /\ link[n].outAddr = x
             /\ <<"masquerade", x>> \in nat
  BY <1>5 DEF Connected, Masked
<1>6. \A n \in {c1, c2} : Home(n) \in Session /\ session[Home(n)] = [name |-> n, stage |-> "init"]
  BY <1>1 DEF Housed
<1>7. /\ link[c1].inside = Home(c1) /\ link[c1].inAddr = 1 /\ link[c1].outAddr = 1
      /\ <<"masquerade", 1>> \in nat
      /\ link[c2].inside = Home(c2) /\ link[c2].inAddr = 2 /\ link[c2].outAddr = 2
      /\ <<"masquerade", 2>> \in nat
  BY <1>2, <1>5
<1>8. ASSUME NEW n \in {c1, c2}
      PROVE  \E k \in Session :
               /\ session[k] = [name |-> n, stage |-> "init"]
               /\ services[n] = {-k}
               /\ link[n].inside = k
               /\ link[n].inAddr = link[n].outAddr
               /\ <<"masquerade", link[n].inAddr>> \in nat
  <2>1. /\ link[n].inside = Home(n) /\ link[n].inAddr = link[n].outAddr
        /\ <<"masquerade", link[n].inAddr>> \in nat
    BY <1>7
  <2> DEFINE k == Home(n)
  <2>2. k \in Session /\ session[k] = [name |-> n, stage |-> "init"] /\ services[n] = {-k}
    BY <1>4, <1>6
  <2>3. link[n].inside = k
    BY <2>1
  <2> HIDE DEF k
  <2> QED
    BY <2>1, <2>2, <2>3
<1> QED
  BY <1>2, <1>7, <1>8 DEF Peered

(* service-orchestrator.sh does what it is for, whatever its background
   invocations and containers do when: if the image was complete and ten
   seconds were enough, both services run in their own connected containers,
   with the ports and addresses they were promised. *)
THEOREM DeploymentRuns ==
  ASSUME MaxPrefix >= 2 PROVE OrchestratorSpec => []DeploymentStands
<1>1. OrchestratorInit => LineInv /\ DeployInv /\ ServicesInv /\ NetnsInv
  BY InitDeployInv, ElevenLines DEF OrchestratorInit, LineInv
<1> DEFINE DInv == LineInv /\ DeployInv /\ ServicesInv /\ NetnsInv
<1>2. DInv /\ ConductorInv /\ [OrchestratorNext]_ovars => DInv'
  <2> SUFFICES ASSUME DInv, ConductorInv, [OrchestratorNext]_ovars PROVE DInv'
    OBVIOUS
  <2>1. Shape
    BY DEF ConductorInv
  <2>2. NetnsInv'
    <3>1. [Next]_vars
      BY StepIsConductor
    <3>2. CASE UNCHANGED vars
      BY <3>2 DEF vars, netVars, linkVars, NetnsInv
    <3> QED
      BY <2>1, <3>1, <3>2, NetnsKeeps
  <2> QED
    BY <2>1, <2>2, StepLineInv, StepDeployInv, ServicesKept
<1>3. DInv /\ ConductorInv => DeploymentStands
  BY DeployedStands DEF ConductorInv
<1>4. OrchestratorSpec => []ConductorInv
  BY DrivesConductor, ConductorInvariant
<1> QED
  BY <1>1, <1>2, <1>3, <1>4, PTL DEF OrchestratorSpec
=============================================================================
