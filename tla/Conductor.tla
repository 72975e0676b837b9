------------------------------ MODULE Conductor ------------------------------
(***************************************************************************)
(* conductor.sh: invocations that build and delete images and run, enter,  *)
(* network, peer and stop containers, together with the containers, which  *)
(* start up and end while the next commands are already being given.       *)
(***************************************************************************)
EXTENDS ContainerNet

CONSTANTS
  Commands,   \* the commands users give
  Overlap     \* may two invocations on the same container overlap?

(* Bounds: on .HIGHEST_NUM, and on the containers (what MaxSession leaves). *)
Numbered == highest \in None .. MaxPrefix /\ \A q \in Proc : inv[q].num <= MaxPrefix
Unstarted == Cardinality({k \in Session : session[k].stage = "none"})

(* The dispatch at the end of the script, once the options are parsed and
   check_prereq has found root, the tools and the directories. *)
Start(p, cmd, name, arg) ==
  /\ At(p, "idle")
  /\ cmd \in Commands
  /\ Overlap \/ \A q \in Proc : inv[q].name # name
  /\ cmd = "addnetwork" => Numbered
  /\ cmd = "run" => Cardinality({q \in Proc : inv[q].arg \in Image}) < Unstarted
  /\ inv' = [inv EXCEPT ![p] = [Idle EXCEPT !.pc = cmd, !.name = name, !.arg = arg]]
  /\ UNCHANGED <<dirVars, session, netVars>>

Dispatch(p) ==
  \/ \E i \in Image, cmd \in {"build", "rmi"} : Start(p, cmd, i, "-")
  \/ \E n \in Name :
       \/ \E i \in Image : Start(p, "run", n, i)
       \/ \E cmd \in {"stop", "exec"} : Start(p, cmd, n, "-")
       \/ \E opt \in NetOptions : Start(p, "addnetwork", n, opt)
       \/ \E b \in Name \ {n} : Start(p, "peer", n, b)

(***************************************************************************)
(* build, images, rmi.  debootstrap fills the directory over minutes and   *)
(* may fail; what it has written by then stays.                            *)
(***************************************************************************)
BuildCheck(p) ==
  /\ At(p, "build")
  /\ Test(p, image[inv[p].name] = "absent", "debootstrap")
  /\ UNCHANGED <<dirVars, session, netVars>>

Debootstrap(p) ==
  /\ At(p, "debootstrap")
  /\ image' = [image EXCEPT ![inv[p].name] = IF @ = "absent" THEN "partial" ELSE @]
  /\ Goto(p, "fetching")
  /\ UNCHANGED <<dir, mounts, devWiped, session, netVars>>

Fetched(p) ==
  LET i == inv[p].name
  IN  /\ At(p, "fetching")
      /\ \/ image[i] # "absent" /\ image' = [image EXCEPT ![i] = "complete"]
         \/ UNCHANGED image
      /\ Exit(p)
      /\ UNCHANGED <<dir, mounts, devWiped, session, netVars>>

(* remove_image: what is not there is reported, what is there goes. *)
RemoveImage(p) ==
  /\ At(p, "rmi")
  /\ image' = [image EXCEPT ![inv[p].name] = "absent"]
  /\ Exit(p)
  /\ UNCHANGED <<dir, mounts, devWiped, session, netVars>>

(***************************************************************************)
(* run.                                                                    *)
(***************************************************************************)
RunCheck(p) ==
  /\ At(p, "run")
  /\ Test(p, image[inv[p].arg] # "absent" /\ dir[inv[p].name] = "absent", "run_mkdir")
  /\ UNCHANGED <<dirVars, session, netVars>>

(* mkdir -p does not mind a directory that has appeared since the check. *)
RunMkdir(p) ==
  LET n == inv[p].name
  IN  /\ At(p, "run_mkdir")
      /\ dir' = [dir EXCEPT ![n] = IF @ = "absent" THEN "partial" ELSE @]
      /\ Goto(p, "run_copying")
      /\ UNCHANGED <<image, mounts, devWiped, session, netVars>>

(* cp -a of what the image holds. *)
RunCopy(p) ==
  LET n == inv[p].name
      i == inv[p].arg
      ok == dir[n] # "absent" /\ image[i] # "absent"
  IN  /\ At(p, "run_copying")
      /\ dir' = IF ok /\ image[i] = "complete" THEN [dir EXCEPT ![n] = "full"] ELSE dir
      /\ Test(p, ok, "run_mount")
      /\ UNCHANGED <<image, mounts, devWiped, session, netVars>>

(* mount --bind /dev needs the directory dev, which a partial copy may lack. *)
RunMount(p) ==
  LET n == inv[p].name
  IN  /\ At(p, "run_mount")
      /\ \/ /\ dir[n] # "absent"
            /\ mounts' = [mounts EXCEPT ![n] = @ + 1]
            /\ Goto(p, "run_unshare")
         \/ /\ dir[n] # "full"
            /\ UNCHANGED mounts
            /\ Exit(p)
      /\ UNCHANGED <<image, dir, devWiped, session, netVars>>

(* unshare.  The invocation now only waits for it and returns its status,
   so it takes no further part. *)
RunUnshare(p, k) ==
  /\ At(p, "run_unshare")
  /\ session[k].stage = "none"
  /\ \A j \in Session : j < k => session[j].stage # "none"
  /\ session' = [session EXCEPT ![k] = [name |-> inv[p].name, stage |-> "unshare"]]
  /\ Exit(p)
  /\ UNCHANGED <<dirVars, netVars>>

(***************************************************************************)
(* The container itself: unshare(2) and fork, chroot and exec of the init  *)
(* command, and the end of the init command or of the failed chroot.       *)
(***************************************************************************)
SetStage(k, from, to) ==
  session[k].stage = from /\ session' = [session EXCEPT ![k].stage = to]

Fork(k) ==
  /\ SetStage(k, "unshare", "forked")
  /\ UNCHANGED <<inv, dirVars, netVars>>

Chroot(k) ==
  /\ SetStage(k, "forked", "init")
  /\ dir[session[k].name] # "absent"
  /\ UNCHANGED <<inv, dirVars, netVars>>

SessionEnds(k) ==
  /\ \/ session[k].stage = "init"
     \/ session[k].stage = "forked" /\ dir[session[k].name] # "full"
  /\ session' = [session EXCEPT ![k] = Dead]
  /\ link' = LinksWithout({k})
  /\ UNCHANGED <<inv, dirVars, netnsDir, netns, highest, ruleVars>>

(***************************************************************************)
(* exec: the pid of unshare, then of its child, then nsenter with the root *)
(* directory the child has at that moment.                                 *)
(***************************************************************************)
ExecCheck(p) ==
  /\ At(p, "exec")
  /\ Test(p, dir[inv[p].name] # "absent", "exec_ps")
  /\ UNCHANGED <<dirVars, session, netVars>>

(* With two PIDs the second is pgrep's pattern, and matches nothing. *)
ExecPs(p) ==
  LET found == Matching(inv[p].name)
  IN  /\ At(p, "exec_ps")
      /\ IF Cardinality(found) = 1
           THEN inv' = [inv EXCEPT ![p].pids = found, ![p].pc = "exec_pgrep"]
           ELSE Exit(p)
      /\ UNCHANGED <<dirVars, session, netVars>>

ExecPgrep(p) ==
  /\ At(p, "exec_pgrep")
  /\ LET parents == {k \in inv[p].pids \cap Session : HasChild(k)}
     IN  IF parents # {}
           THEN inv' = [inv EXCEPT ![p].pids = {-k : k \in parents}, ![p].pc = "nsenter"]
           ELSE Exit(p)
  /\ UNCHANGED <<dirVars, session, netVars>>

NsEnter(p) ==
  /\ At(p, "nsenter")
  /\ Exit(p)
  /\ UNCHANGED <<dirVars, session, netVars>>

(***************************************************************************)
(* stop.                                                                   *)
(***************************************************************************)
StopCheck(p) ==
  /\ At(p, "stop")
  /\ Test(p, dir[inv[p].name] # "absent", "stop_ps")
  /\ UNCHANGED <<dirVars, session, netVars>>

StopPs(p) ==
  /\ At(p, "stop_ps")
  /\ inv' = [inv EXCEPT ![p].pids = Matching(inv[p].name), ![p].pc = "stop_link"]
  /\ UNCHANGED <<dirVars, session, netVars>>

M_StopLink_skip(p) ==
  /\ At(p, "stop_link")
  /\ Goto(p, "stop_kill")
  /\ UNCHANGED <<dirVars, session, netVars>>
(* [ -e /sys/class/net/n-outside ], then ip link delete, which fails when
   the pair has gone in between. *)
StopLink(p) ==
  /\ At(p, "stop_link")
  /\ Goto(p, IF link[inv[p].name] # NoLink THEN "stop_unlink" ELSE "stop_kill")
  /\ UNCHANGED <<dirVars, session, netVars>>

StopUnlink(p) ==
  LET n == inv[p].name
  IN  /\ At(p, "stop_unlink")
      /\ link' = [link EXCEPT ![n] = NoLink]
      /\ Test(p, link[n] # NoLink, "stop_kill")
      /\ UNCHANGED <<dirVars, session, netnsDir, netns, highest, ruleVars>>

M_StopKill_none(p) ==
  /\ At(p, "stop_kill")
  /\ inv' = [inv EXCEPT ![p].pc = "stop_umount", ![p].pids = {}]
  /\ UNCHANGED <<dirVars, session, netVars>>
M_StopKill_needsPid(p) ==
  LET hit == {pid \in inv[p].pids : PidAlive(pid)}
      killed == {SessionOf(pid) : pid \in hit \ Proc}
  IN  /\ At(p, "stop_kill")
      /\ Test(p, hit # {}, "stop_umount")
      /\ session' = [k \in Session |-> IF k \in killed THEN Dead ELSE session[k]]
      /\ link' = LinksWithout(killed)
      /\ UNCHANGED <<dirVars, netnsDir, netns, highest, ruleVars>>
(***************************************************************************)
(* [ -z $PID ] || kill -9 $PID: fails when none of the processes is left.  *)
(* --kill-child makes unshare's end that of the container; an invocation   *)
(* whose cp is killed ends.                                                *)
(***************************************************************************)
StopKill(p) ==
  LET hit == {pid \in inv[p].pids : PidAlive(pid)}
      killed == {SessionOf(pid) : pid \in hit \ Proc}
  IN  /\ At(p, "stop_kill")
      /\ inv' = [q \in Proc |->
            IF q = p
              THEN IF inv[p].pids = {} \/ hit # {}
                     THEN [inv[p] EXCEPT !.pc = "stop_umount", !.pids = {}] ELSE Idle
              ELSE IF q \in hit THEN Idle ELSE inv[q]]
      /\ session' = [k \in Session |->
            IF k \in killed THEN Dead ELSE session[k]]
      /\ link' = LinksWithout(killed)
      /\ UNCHANGED <<dirVars, netnsDir, netns, highest, ruleVars>>

M_StopUmount_none(p) ==
  /\ At(p, "stop_umount")
  /\ Goto(p, "stop_rm")
  /\ UNCHANGED <<dirVars, session, netVars>>
(* umount takes the topmost mount away, if there is one. *)
StopUmount(p) ==
  LET n == inv[p].name
  IN  /\ At(p, "stop_umount")
      /\ mounts' = [mounts EXCEPT ![n] = IF @ > 0 THEN @ - 1 ELSE 0]
      /\ Goto(p, "stop_rm")
      /\ UNCHANGED <<image, dir, devWiped, session, netVars>>

(* rm -rf goes into what is still mounted, and fails on the mount point. *)
StopRm(p) ==
  LET n == inv[p].name
      mounted == mounts[n] > 0
  IN  /\ At(p, "stop_rm")
      /\ dir' = [dir EXCEPT ![n] = IF mounted THEN "partial" ELSE "absent"]
      /\ devWiped' = (devWiped \/ mounted)
      /\ Test(p, ~mounted, "stop_ls")
      /\ UNCHANGED <<image, mounts, session, netVars>>

M_StopLs_always(p) ==
  /\ At(p, "stop_ls")
  /\ Goto(p, "stop_rmnum")
  /\ UNCHANGED <<dirVars, session, netVars>>
(* The last container takes the numbering and the rules along. *)
StopLs(p) ==
  /\ At(p, "stop_ls")
  /\ Test(p, \A n \in Name : dir[n] = "absent", "stop_rmnum")
  /\ UNCHANGED <<dirVars, session, netVars>>

(* A get_next_num that has the file open writes to a file nobody will read. *)
StopRmNum(p) ==
  /\ At(p, "stop_rmnum")
  /\ highest' = None
  /\ inv' = [q \in Proc |->
        CASE q = p              -> [inv[p] EXCEPT !.pc = "stop_forward"]
          [] At(q, "num_write") -> [inv[q] EXCEPT !.pc = "link_add"]
          [] OTHER              -> inv[q]]
  /\ UNCHANGED <<dirVars, session, linkVars, ruleVars>>

StopForward(p) ==
  /\ At(p, "stop_forward")
  /\ policy' = "DROP"
  /\ forward' = {}
  /\ Goto(p, "stop_nat")
  /\ UNCHANGED <<dirVars, session, linkVars, highest, nat>>

M_StopNat_keep(p) ==
  /\ At(p, "stop_nat")
  /\ Exit(p)
  /\ UNCHANGED <<dirVars, session, netVars>>
StopNat(p) ==
  /\ At(p, "stop_nat")
  /\ nat' = {}
  /\ Exit(p)
  /\ UNCHANGED <<dirVars, session, linkVars, highest, forward, policy>>

-----------------------------------------------------------------------------
Build(p) == BuildCheck(p) \/ Debootstrap(p) \/ Fetched(p)
Run(p) ==
  \/ RunCheck(p) \/ RunMkdir(p) \/ RunCopy(p) \/ RunMount(p)
  \/ \E k \in Session : RunUnshare(p, k)
Exec(p) == ExecCheck(p) \/ ExecPs(p) \/ ExecPgrep(p) \/ NsEnter(p)
Stop(p) ==
  \/ StopCheck(p) \/ StopPs(p) \/ StopLink(p) \/ StopUnlink(p) \/ StopKill(p)
  \/ StopUmount(p) \/ StopRm(p) \/ StopLs(p)
  \/ StopRmNum(p) \/ StopForward(p) \/ StopNat(p)

Invocation(p) ==
  Build(p) \/ RemoveImage(p) \/ Run(p) \/ Exec(p) \/ Stop(p) \/ AddNetwork(p) \/ Peer(p)

StartUp(k) == Fork(k) \/ Chroot(k)

Init == HostInit

Next ==
  \/ \E p \in Proc : Dispatch(p) \/ Invocation(p)
  \/ \E k \in Session : StartUp(k) \/ SessionEnds(k)

Spec == Init /\ [][Next]_vars
(***************************************************************************)
(* Fairness: an invocation keeps executing commands, all of which end by   *)
(* themselves, and a container gets through its start.                     *)
(***************************************************************************)
Progress ==
  /\ \A p \in Proc : WF_vars(Invocation(p))
  /\ \A k \in Session : WF_vars(StartUp(k))

(* A user who keeps asking for the containers to be stopped. *)
StopRequest(n) == \E p \in Proc : Start(p, "stop", n, "-")
FairSpec == Spec /\ Progress /\ \A n \in Name : SF_vars(StopRequest(n))

-----------------------------------------------------------------------------
Pc == {"idle", "build", "debootstrap", "fetching", "rmi",
       "run", "run_mkdir", "run_copying", "run_mount", "run_unshare",
       "exec", "exec_ps", "exec_pgrep", "nsenter",
       "stop", "stop_ps", "stop_link", "stop_unlink", "stop_kill", "stop_umount",
       "stop_rm", "stop_ls", "stop_rmnum", "stop_forward", "stop_nat",
       "addnetwork", "net_ps", "net_ln", "num_read", "num_truncate", "num_write",
       "link_add", "link_move", "link_up", "addr_out", "addr_in", "internet",
       "expose", "net_done", "peer"}

Pid == Session \cup {-k : k \in Session} \cup Proc
Number == 0 .. MaxPrefix + Cardinality(Proc)

TypeOK ==
  /\ \A p \in Proc :
       /\ inv[p].pc \in Pc
       /\ inv[p].name \in Name \cup Image \cup {"-"}
       /\ inv[p].arg \in Name \cup Image \cup NetOptions \cup {"-"}
       /\ inv[p].pids \subseteq Pid
       /\ inv[p].num \in Number
  /\ image \in [Image -> {"absent", "partial", "complete"}]
  /\ dir \in [Name -> {"absent", "partial", "full"}]
  /\ mounts \in [Name -> 0 .. Cardinality(Proc)]
  /\ devWiped \in BOOLEAN
  /\ session \in [Session -> [name : Name \cup {"-"}, stage : Stage]]
  /\ link \in [Name -> [inside : -1 .. MaxSession, outAddr : Number \cup {-1},
                        inAddr : Number \cup {-1}]]
  /\ netnsDir \in BOOLEAN
  /\ netns \in [Name -> SUBSET Pid]
  /\ highest \in Number \cup {None, Truncated}
  /\ policy \in {"ACCEPT", "DROP"}

(* The directories whose names show_containers lists. *)
Listed == {n \in Name : dir[n] # "absent"}

(* A veth pair that leads into a container leads into a living container   *)
(* of its own name, whatever starts, ends and is stopped meanwhile          *)
(* (conductor.sh:283 and 324 go by a PID read earlier).                     *)
LinkIntoOwnContainer ==
  \A n \in Name : link[n].inside > 0 =>
    Alive(link[n].inside) /\ session[link[n].inside].name = n

(* rm -rf in stop never runs into the host's /dev (conductor.sh:182: "You   *)
(* should also unmount any mount points you created").                      *)
DevSafe == ~devWiped

(* A running container has its directory: ps lists it, and stop and exec    *)
(* accept its name (conductor.sh:189, 229).                                 *)
NoOrphans == \A k \in Session : Alive(k) => session[k].name \in Listed

(* Once stop has deleted the directory, nothing of the container is left:   *)
(* no process, no mount, no veth pair (conductor.sh:180-182).               *)
StoppedIsGone ==
  \A p \in Proc :
    LET n == inv[p].name
    IN  At(p, "stop_ls") =>
          /\ dir[n] = "absent" /\ mounts[n] = 0 /\ link[n] = NoLink
          /\ \A k \in Session : Alive(k) => session[k].name # n

(* conductor.sh:294 "Getting unique interface identifier": the address      *)
(* prefixes of two containers differ.                                       *)
UniqueNumbers ==
  \A m, n \in Name : m # n /\ link[m].outAddr # -1 => link[m].outAddr # link[n].outAddr

(* A forwarded port leads to the container it was exposed for, or nowhere:  *)
(* numbers come back into use only after the rules with them have gone      *)
(* (conductor.sh:210, 371).                                                 *)
PortsLeadToAsker ==
  \A r \in nat : r[1] = "dnat" =>
    \A n \in Name : link[n].inAddr = r[2] => n = r[3]

(* A stop takes no rule away that another container still needs             *)
(* (conductor.sh:210, 356-357, 395-396).                                    *)
RulesOfOthersStay ==
  [][ \A r \in forward \ forward' : r[1] \notin Listed /\ r[2] \notin Listed ]_vars

(* A user who repeats stop gets rid of every container, whatever a first    *)
(* attempt stumbles over (a container or a veth pair that ends by itself    *)
(* after it was looked up, conductor.sh:192-200).                           *)
StopWorksInTheEnd == \A n \in Name : []<>(dir[n] = "absent")

(* conductor.sh:249-250 of exec: "The executed process should be within     *)
(* correct namespace and root directory as of the container".               *)
ExecInRoot ==
  [][ \A p \in Proc : NsEnter(p) =>
        \A pid \in inv[p].pids : PidAlive(pid) => session[-pid].stage = "init" ]_vars
=============================================================================
