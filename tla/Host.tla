-------------------------------- MODULE Host ---------------------------------
(***************************************************************************)
(* The state of the host that invocations of conductor.sh share: images,   *)
(* container directories and the bind mounts in them, the processes that   *)
(* run in containers, veth links, the netns directory, the file            *)
(* .HIGHEST_NUM and the iptables rules.  Every invocation is a process of  *)
(* its own and nothing is locked, so a step of the model is one command of *)
(* the script.  ContainerNet and Conductor add those commands.             *)
(***************************************************************************)
EXTENDS Integers, FiniteSets

CONSTANTS
  Proc,        \* invocations of conductor.sh that run at the same time
  Name,        \* container names
  Image,       \* image names
  MaxSession,  \* bound on the containers started in a behaviour
  MaxPrefix    \* the largest third byte of an address (255 in the code)

ASSUME BoundsAssumption == MaxSession \in Nat /\ MaxPrefix \in Nat
ASSUME ProcAssumption == Proc \cap Int = {}   \* the numbers are PIDs in containers

VARIABLES
  inv,       \* the invocations: program counter, arguments, local variables
  image,     \* image[i]: the directory $IMAGEDIR/i
  dir,       \* dir[n]: the directory $CONTAINERDIR/n/rootfs
  mounts,    \* mounts[n]: bind mounts of /dev stacked on $CONTAINERDIR/n/rootfs/dev
  devWiped,  \* has rm -rf gone through a bind mount into the host's /dev?
  session,   \* the containers started so far, alive or dead
  link,      \* link[n]: the veth pair n-inside, n-outside
  netnsDir,  \* does /var/run/netns exist?
  netns,     \* netns[n]: the process whose /proc/PID/ns/net the link
             \*   /var/run/netns/n names, {} if none or dangling
  highest,   \* the contents of $EXTRADIR/.HIGHEST_NUM
  forward,   \* the rules of the FORWARD chain
  nat,       \* the rules of the nat table
  policy     \* the policy of the FORWARD chain

dirVars == <<image, dir, mounts, devWiped>>
linkVars == <<link, netnsDir, netns>>
ruleVars == <<forward, nat, policy>>
netVars == <<linkVars, highest, ruleVars>>
vars == <<inv, dirVars, session, netVars>>

(***************************************************************************)
(* Sessions.  Session k is the process "unshare ... chroot DIR" (pid k)    *)
(* and its child (pid -k), which chroots and becomes the container's init. *)
(***************************************************************************)
Session == 1 .. MaxSession
Stage == {"none",      \* not started
          "unshare",   \* about to call unshare(2): still in the host's namespaces
          "forked",    \* the child exists and has not called chroot yet
          "init",      \* the child runs the init command
          "dead"}
Dead == [name |-> "-", stage |-> "dead"]
Alive(k) == session[k].stage \in {"unshare", "forked", "init"}
HasChild(k) == session[k].stage \in {"forked", "init"}

Idle == [pc |-> "idle", name |-> "-", arg |-> "-", pids |-> {}, num |-> 0]

(* A veth pair: the network namespace of its inside end (a session, 0 for
   the host) and the address prefix of either end, -1 before there is one. *)
NoLink == [inside |-> -1, outAddr |-> -1, inAddr |-> -1]
NewLink == [NoLink EXCEPT !.inside = 0]

None == -1         \* no file .HIGHEST_NUM
Truncated == -2    \* the file exists and is empty

HostInit ==
  /\ inv = [p \in Proc |-> Idle]
  /\ image \in [Image -> {"absent", "complete"}]   \* what earlier builds left
  /\ dir = [n \in Name |-> "absent"]
  /\ mounts = [n \in Name |-> 0]
  /\ devWiped = FALSE
  /\ session = [k \in Session |-> [name |-> "-", stage |-> "none"]]
  /\ link = [n \in Name |-> NoLink]
  /\ netnsDir = FALSE
  /\ netns = [n \in Name |-> {}]
  /\ highest = None
  /\ forward = {}
  /\ nat = {}
  /\ policy = "ACCEPT"

(***************************************************************************)
(* Invocations.  A command that fails ends the script (errexit, die).      *)
(***************************************************************************)
At(p, label) == inv[p].pc = label
Goto(p, label) == inv' = [inv EXCEPT ![p].pc = label]
Exit(p) == inv' = [inv EXCEPT ![p] = Idle]
Test(p, condition, label) == IF condition THEN Goto(p, label) ELSE Exit(p)

(***************************************************************************)
(* ps -ef | grep "$CONTAINERDIR/$NAME/rootfs": the processes with this     *)
(* path on their command line.  They are unshare, its child until that has *)
(* become bash, and the cp of an invocation that is copying the image.     *)
(* mkdir, mount and umount have the path there too, for one system call:   *)
(* each is a single step here, start and end included, and is never found. *)
(***************************************************************************)
Copying(n) == {p \in Proc : At(p, "run_copying") /\ inv[p].name = n}
Matching(n) ==
  LET mine == {k \in Session : Alive(k) /\ session[k].name = n}
  IN  mine \cup {-k : k \in {j \in mine : session[j].stage = "forked"}}
           \cup Copying(n)

SessionOf(pid) == IF pid < 0 THEN -pid ELSE pid
PidAlive(pid) ==
  IF pid \in Proc THEN At(pid, "run_copying")
  ELSE IF pid < 0 THEN HasChild(-pid) ELSE Alive(pid)

(* The container whose network namespace a process is in, 0 for the host. *)
NetOf(pid) ==
  IF pid \in Proc \/ ~HasChild(SessionOf(pid)) THEN 0 ELSE SessionOf(pid)

(* A network namespace ends with its last process, and takes the veth pair
   of which one end is in it along. *)
LinksWithout(dead) ==
  [n \in Name |-> IF link[n].inside \in dead THEN NoLink ELSE link[n]]
=============================================================================
