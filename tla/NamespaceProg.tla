---------------------------- MODULE NamespaceProg ----------------------------
(***************************************************************************)
(* namespace_prog.c: the parent clones child 1 into new UTS and PID        *)
(* namespaces, waits on a pipe until child 1 has set its hostname, and     *)
(* forks child 2, which is to join both namespaces.  Child 1 sleeps until  *)
(* the parent kills it.                                                    *)
(***************************************************************************)
EXTENDS Integers

CONSTANT Failures   \* the system calls that may fail: subset of
                    \* {"clone", "sethostname", "pidfd_open", "setns", "fork"}

VARIABLES
  main,      \* where the parent is
  child1, child2,
  writers,   \* the processes that have the write end of the pipe open
  byte,      \* is there a byte in the pipe?
  pidfd,     \* did pidfd_open succeed?
  pidNs,     \* the PID namespace the parent's next child will be in
  uts2, pid2,   \* the namespaces child 2 is in
  hostname,  \* the hostname in child 1's UTS namespace
  printed,   \* history: has child 2 printed?
  failed     \* history: the calls that have failed

nsVars == <<pidNs, uts2, pid2, hostname, printed>>
vars == <<main, child1, child2, writers, byte, pidfd, nsVars, failed>>

Live == {"sethostname", "write", "close", "sleep", "setns", "print"}

Init ==
  /\ main = "clone"
  /\ child1 = "none" /\ child2 = "none"
  /\ writers = {"main"}        \* pipe() has succeeded
  /\ byte = FALSE
  /\ pidfd = FALSE
  /\ pidNs = "main" /\ uts2 = "main" /\ pid2 = "main"
  /\ hostname = "Parent"
  /\ printed = FALSE
  /\ failed = {}

May(call) == call \in Failures /\ failed' = failed \cup {call}

(***************************************************************************)
(* Child 1, PID 1 of its namespace.  A failing sethostname ends it.        *)
(***************************************************************************)
M_SetHostname_short ==
  /\ child1 = "sethostname"
  /\ child1' = "write" /\ hostname' = "Child1Hostnam"
  /\ UNCHANGED <<main, child2, writers, byte, pidfd, pidNs, uts2, pid2, printed, failed>>
SetHostname ==
  /\ child1 = "sethostname"
  /\ \/ child1' = "write" /\ hostname' = "Child1Hostname" /\ UNCHANGED <<writers, failed>>
     \/ May("sethostname") /\ child1' = "dying" /\ writers' = writers \ {"child1"}
        /\ UNCHANGED hostname
  /\ UNCHANGED <<main, child2, byte, pidfd, pidNs, uts2, pid2, printed>>

Write ==
  /\ child1 = "write"
  /\ byte' = TRUE
  /\ child1' = "close"
  /\ UNCHANGED <<main, child2, writers, pidfd, nsVars, failed>>

CloseInChild ==
  /\ child1 = "close"
  /\ writers' = writers \ {"child1"}
  /\ child1' = "sleep"
  /\ UNCHANGED <<main, child2, byte, pidfd, nsVars, failed>>

(* The end of a namespace's PID 1 kills the others in it, and is complete   *)
(* when they have been reaped.                                             *)
KillsOthers ==
  /\ child1 = "dying" /\ pid2 = "child1" /\ child2 \in Live
  /\ child2' = "zombie"
  /\ UNCHANGED <<main, child1, writers, byte, pidfd, nsVars, failed>>

Dies ==
  /\ child1 = "dying"
  /\ pid2 = "child1" => child2 \in {"none", "reaped"}
  /\ child1' = "zombie"
  /\ UNCHANGED <<main, child2, writers, byte, pidfd, nsVars, failed>>

(***************************************************************************)
(* Child 2.                                                                *)
(***************************************************************************)
JoinUts ==
  /\ child2 = "setns"
  /\ child2' = "print"
  /\ \/ pidfd /\ child1 \notin {"zombie", "reaped"} /\ uts2' = "child1" /\ UNCHANGED failed
     \/ (~pidfd \/ child1 \in {"dying", "zombie", "reaped"}) /\ UNCHANGED <<uts2, failed>>
     \/ May("setns") /\ UNCHANGED uts2
  /\ UNCHANGED <<main, child1, writers, byte, pidfd, pidNs, pid2, hostname, printed>>

Child2Function ==
  /\ child2 = "print"
  /\ child2' = "zombie" /\ printed' = TRUE
  /\ UNCHANGED <<main, child1, writers, byte, pidfd, pidNs, uts2, pid2, hostname, failed>>

(***************************************************************************)
(* The parent.                                                             *)
(***************************************************************************)
Main(here, there) ==
  main = here /\ main' = there

Clone ==
  /\ \/ /\ Main("clone", "close")
        /\ child1' = "sethostname"
        /\ writers' = writers \cup {"child1"}
        /\ UNCHANGED failed
     \/ Main("clone", "exit") /\ May("clone") /\ UNCHANGED <<child1, writers>>
  /\ UNCHANGED <<child2, byte, pidfd, nsVars>>

M_Close_keeps ==
  /\ Main("close", "read")
  /\ UNCHANGED <<child1, child2, writers, byte, pidfd, nsVars, failed>>
Close ==
  /\ Main("close", "read")
  /\ writers' = writers \ {"main"}
  /\ UNCHANGED <<child1, child2, byte, pidfd, nsVars, failed>>

M_Read_any ==
  /\ Main("read", "pidfd_open")
  /\ byte' = FALSE
  /\ UNCHANGED <<child1, child2, writers, pidfd, nsVars, failed>>
(* read() returns with the byte, or with nothing when nobody can write. *)
Read ==
  /\ Main("read", "pidfd_open")
  /\ byte \/ writers = {}
  /\ byte' = FALSE
  /\ UNCHANGED <<child1, child2, writers, pidfd, nsVars, failed>>

PidfdOpen ==
  /\ Main("pidfd_open", "setns")
  /\ \/ pidfd' = TRUE /\ UNCHANGED failed
     \/ May("pidfd_open") /\ UNCHANGED pidfd
  /\ UNCHANGED <<child1, child2, writers, byte, nsVars>>

(* setns is refused without a pidfd and for a process that has ended. *)
SetnsPid ==
  /\ Main("setns", "fork")
  /\ \/ pidfd /\ child1 # "zombie" /\ pidNs' = "child1" /\ UNCHANGED failed
     \/ (~pidfd \/ child1 \in {"dying", "zombie"}) /\ UNCHANGED <<pidNs, failed>>
     \/ May("setns") /\ UNCHANGED pidNs
  /\ UNCHANGED <<child1, child2, writers, byte, pidfd, uts2, pid2, hostname, printed>>

(* A PID namespace whose PID 1 is dying takes no new process. *)
Fork ==
  /\ Main("fork", "wait_1")
  /\ \/ /\ pidNs = "child1" => child1 # "zombie"
        /\ child2' = "setns" /\ pid2' = pidNs
        /\ UNCHANGED failed
     \/ /\ pidNs = "child1" /\ child1 \in {"dying", "zombie"}
        /\ UNCHANGED <<child2, pid2, failed>>
     \/ May("fork") /\ UNCHANGED <<child2, pid2>>
  /\ UNCHANGED <<child1, writers, byte, pidfd, pidNs, uts2, hostname, printed>>

(* wait(NULL) reaps either child, and fails when there is none. *)
Wait(here, there) ==
  /\ Main(here, there)
  /\ \/ child1 = "zombie" /\ child1' = "reaped" /\ UNCHANGED child2
     \/ child2 = "zombie" /\ child2' = "reaped" /\ UNCHANGED child1
     \/ child1 = "reaped" /\ child2 \in {"none", "reaped"} /\ UNCHANGED <<child1, child2>>
  /\ UNCHANGED <<writers, byte, pidfd, nsVars, failed>>

M_WaitFirst_skip == Main("wait_1", "kill")
  /\ UNCHANGED <<child1, child2, writers, byte, pidfd, nsVars, failed>>
WaitFirst == Wait("wait_1", "kill")

(* kill -9 of child 1, if its pid is still its own. *)
Kill ==
  /\ Main("kill", "wait_2")
  /\ child1' = IF child1 \in Live THEN "dying" ELSE child1
  /\ writers' = writers \ {"child1"}
  /\ UNCHANGED <<child2, byte, pidfd, nsVars, failed>>

M_WaitSecond_skip == Main("wait_2", "exit")
  /\ UNCHANGED <<child1, child2, writers, byte, pidfd, nsVars, failed>>
WaitSecond == Wait("wait_2", "exit")

Child1 == SetHostname \/ Write \/ CloseInChild \/ KillsOthers \/ Dies
Child2 == JoinUts \/ Child2Function
Parent == Clone \/ Close \/ Read \/ PidfdOpen \/ SetnsPid \/ Fork
            \/ WaitFirst \/ Kill \/ WaitSecond

Next == Child1 \/ Child2 \/ Parent

Spec == Init /\ [][Next]_vars

(* All three are runnable processes; a blocked read or wait is disabled. *)
FairSpec == Spec /\ WF_vars(Child1) /\ WF_vars(Child2) /\ WF_vars(Parent)

-----------------------------------------------------------------------------
TypeOK ==
  /\ main \in {"clone", "close", "read", "pidfd_open", "setns", "fork", "wait_1",
               "kill", "wait_2", "exit"}
  /\ child1 \in {"none", "sethostname", "write", "close", "sleep", "dying", "zombie", "reaped"}
  /\ child2 \in {"none", "setns", "print", "zombie", "reaped"}
  /\ writers \subseteq {"main", "child1"}
  /\ byte \in BOOLEAN /\ pidfd \in BOOLEAN
  /\ {pidNs, uts2, pid2} \subseteq {"main", "child1"}
  /\ hostname \in {"Parent", "Child1Hostname"}
  /\ printed \in BOOLEAN
  /\ failed \subseteq Failures

(* Unless a call has failed, child 2 prints when it is in both namespaces   *)
(* of child 1 and the hostname has been set there (namespace_prog.c:137     *)
(* "Join the existing UTS namespace and PID namespace").                    *)
Child2SeesChild1 ==
  failed = {} /\ child2 = "print" =>
    uts2 = "child1" /\ pid2 = "child1" /\ hostname = "Child1Hostname"

(* Unless a call has failed, child 2 has printed when it ends: the first   *)
(* wait keeps the parent from killing child 1, whose death would kill child *)
(* 2 too (namespace_prog.c:151-152).                                       *)
Child2Prints ==
  failed = {} /\ child2 \in {"zombie", "reaped"} => printed

(* When the parent ends, both children have ended and been reaped, whatever *)
(* has failed and whichever of them ended first (namespace_prog.c:151-153). *)
NobodyLeft ==
  main = "exit" => child1 \in {"none", "reaped"} /\ child2 \in {"none", "reaped"}

(* The parent ends, unless the fork fails while child 1 lives: nobody then *)
(* ends child 1, for which the first wait waits.                           *)
ParentEnds == <>(main = "exit" \/ ("fork" \in failed /\ child1 \in Live))
=============================================================================
