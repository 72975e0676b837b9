---------------------------- MODULE Orchestrator -----------------------------
(***************************************************************************)
(* service-orchestrator.sh: a script without errexit that deploys two      *)
(* services in two containers by a fixed sequence of invocations of        *)
(* conductor.sh, some in the background, and then sleeps for ever.  After  *)
(* that, somebody administers what it has left, one command at a time.     *)
(***************************************************************************)
EXTENDS Conductor, Sequences

CONSTANTS
  c1, c2, deb_img,   \* the names the script uses
  Patience,          \* what may become of the bet on ten seconds, see patient
  AdminCommands      \* the commands given once the script sleeps for ever

ASSUME NamesAssumption == c1 # c2 /\ {c1, c2} \subseteq Name /\ deb_img \in Image
ASSUME ScriptAssumption ==
  /\ {"expose", "internet"} \subseteq NetOptions /\ Proc # {}
  /\ {"sleep", "cp"} \cap Commands = {}   \* lines of the script that are no commands
ASSUME PatienceAssumption == Patience \subseteq BOOLEAN

VARIABLES
  patient,        \* do ten seconds suffice for both containers to start?
  line,           \* the next line of the script
  foreground,     \* the invocation the script waits for, if any
  copied,         \* containers with the directory of their service in them
  services,       \* services[n]: the process whose namespaces and root n's service got
  c2_ip_address   \* the address prefix found for c2, None for an empty string

deployVars == <<copied, services, c2_ip_address>>
scriptVars == <<patient, line, foreground, deployVars>>
ovars == <<vars, scriptVars>>

Call(cmd, name, arg, how) == [cmd |-> cmd, name |-> name, arg |-> arg, how |-> how]

(* The lines of the script, in order. *)
M_Lines_sleepLast ==
  << Call("build", deb_img, "-", "wait"),
     Call("run", c1, deb_img, "&"),
     Call("run", c2, deb_img, "&"),
     Call("cp", "-", "-", "wait"),
     Call("sleep", "-", "-", "wait"),
     Call("addnetwork", c1, "expose", "wait"),
     Call("addnetwork", c2, "internet", "wait"),
     Call("peer", c1, c2, "wait"),
     Call("exec", c2, "-", "wait"),
     Call("exec", c2, "-", "&"),
     Call("exec", c1, "-", "&") >>
Lines ==
  << Call("build", deb_img, "-", "wait"),
     Call("run", c1, deb_img, "&"),
     Call("run", c2, deb_img, "&"),
     Call("sleep", "-", "-", "wait"),
     Call("cp", "-", "-", "wait"),
     Call("addnetwork", c1, "expose", "wait"),
     Call("addnetwork", c2, "internet", "wait"),
     Call("peer", c1, c2, "wait"),
     Call("exec", c2, "-", "wait"),       \* ip addr show, filtered
     Call("exec", c2, "-", "&"),          \* counter-service
     Call("exec", c1, "-", "&") >>        \* external-service
Deployed == Len(Lines) + 1                \* sleep infinity
Administered == Len(Lines) + 2
Current == Lines[line]

(* Which of the idle processes becomes the next invocation is immaterial. *)
FirstIdle == CHOOSE p \in Proc : At(p, "idle")
AllIdle == \A p \in Proc : At(p, "idle")

OrchestratorInit ==
  /\ Init
  /\ patient \in Patience
  /\ line = 1
  /\ foreground = {}
  /\ copied = {}
  /\ services = [n \in Name |-> {}]
  /\ c2_ip_address = None

(* The script goes on when the invocation in the foreground has ended,
   whatever its exit status. *)
Ready(cmds) ==
  /\ line < Deployed /\ Current.cmd \in cmds
  /\ \A p \in foreground : At(p, "idle")
  /\ line' = line + 1
  /\ UNCHANGED patient

Conduct ==
  /\ Ready(Commands)
  /\ \E q \in Proc : At(q, "idle")
  /\ Start(FirstIdle, Current.cmd, Current.name, Current.arg)
  /\ foreground' = IF Current.how = "wait" THEN {FirstIdle} ELSE {}
  /\ UNCHANGED deployVars

(* sleep 10: long enough or not for whatever runs in the background. *)
Sleep ==
  /\ Ready({"sleep"})
  /\ patient => /\ AllIdle
                /\ \A k \in Session : session[k].stage \in {"none", "init", "dead"}
  /\ UNCHANGED <<vars, foreground, deployVars>>

(* Both cp -r; a container without its directory gets no service. *)
CopyServices ==
  /\ Ready({"cp"})
  /\ copied' = {n \in {c1, c2} : dir[n] # "absent"}
  /\ UNCHANGED <<vars, foreground, services, c2_ip_address>>

(* What nsenter starts: in the foreground ip addr show, of which the
   address of c2-inside is kept, in the background a service. *)
Entered(p) ==
  LET n == inv[p].name
  IN  IF p \in foreground
        THEN /\ c2_ip_address' =
                  IF \A pid \in inv[p].pids : link[c2].inside \in {NetOf(pid)} \ {0}
                    THEN link[c2].inAddr ELSE None
             /\ UNCHANGED services
        ELSE /\ services' =
                  [services EXCEPT ![n] =
                     {pid \in inv[p].pids : PidAlive(pid) /\ n \in copied}]
             /\ UNCHANGED c2_ip_address

InvocationStep(p) ==
  /\ Invocation(p)
  /\ IF At(p, "nsenter") /\ line <= Deployed
       THEN Entered(p) ELSE UNCHANGED <<services, c2_ip_address>>
  /\ UNCHANGED <<patient, line, foreground, copied>>

(* sleep infinity, the init command of both, does not end by itself. *)
ContainerStep(k) ==
  /\ \/ StartUp(k)
     \/ SessionEnds(k) /\ (session[k].stage = "init" => line = Administered)
  /\ UNCHANGED scriptVars

(* Somebody dismantles or changes the deployment; the script's variables
   are no longer of use to anybody. *)
Administers(Command) ==
  /\ line >= Deployed /\ AllIdle
  /\ Command
  /\ UNCHANGED patient
  /\ line' = Administered
  /\ foreground' = {}
  /\ copied' = {}
  /\ services' = [n \in Name |-> {}]
  /\ c2_ip_address' = None

AskToStop(n) == Administers(Start(FirstIdle, "stop", n, "-"))

Script == Conduct \/ Sleep \/ CopyServices

OrchestratorNext ==
  \/ Script
  \/ \E p \in Proc : InvocationStep(p)
  \/ \E k \in Session : ContainerStep(k)
  \/ \E n \in Name : AskToStop(n)
  \/ Administers(Dispatch(FirstIdle) /\ inv'[FirstIdle].pc \in AdminCommands)

(* Fairness as in Conductor, and of the script, whose sleep ends. *)
OrchestratorSpec ==
  /\ OrchestratorInit /\ [][OrchestratorNext]_ovars
  /\ WF_ovars(Script)
  /\ \A p \in Proc : WF_ovars(InvocationStep(p))
  /\ \A k \in Session : WF_ovars(StartUp(k) /\ UNCHANGED scriptVars)
  /\ \A n \in Name : SF_ovars(AskToStop(n))

-----------------------------------------------------------------------------
(* What service-orchestrator.sh is for (lines 27-30, 35-40), once it sleeps *)
(* for ever: if the image was complete and ten seconds were enough, both    *)
(* services run in their own containers, these are connected to the         *)
(* internet and to each other, port 3000 leads to c1, and the address that  *)
(* c1's service was given is the one of c2.                                 *)
DeploymentStands ==
  patient /\ line = Deployed /\ AllIdle /\ (\A n \in {c1, c2} : dir[n] = "full") =>
    /\ \A n \in {c1, c2} :
         \E k \in Session :
           /\ session[k] = [name |-> n, stage |-> "init"]
           /\ services[n] = {-k}
           /\ link[n].inside = k
           /\ link[n].inAddr = link[n].outAddr
           /\ <<"masquerade", link[n].inAddr>> \in nat
    /\ {<<c1, c2>>, <<c2, c1>>} \subseteq forward
    /\ <<"dnat", link[c1].inAddr, c1>> \in nat
    /\ link[c1].inAddr # c2_ip_address
    /\ c2_ip_address = link[c2].inAddr
=============================================================================
