------------------------ MODULE NamespaceProgProofs ------------------------
(***************************************************************************)
(* Proofs about namespace_prog.c, whatever set of its calls may fail.      *)
(***************************************************************************)
EXTENDS NamespaceProg, TLAPS

(* How far the parent has come. *)
Waiting == {"wait_1", "kill", "wait_2", "exit"}
PastSetns == {"fork"} \cup Waiting
PastOpen == {"setns"} \cup PastSetns
PastRead == {"pidfd_open"} \cup PastOpen

Ended == {"dying", "zombie", "reaped"}

(* Which child there is and has been reaped when. *)
ReapInv ==
  /\ main = "clone" => child1 = "none"
  /\ child1 = "none" => main \in {"clone", "exit"} /\ child2 = "none"
  /\ child2 # "none" => main \in Waiting
  /\ main \in {"kill", "wait_2"} => (child1 = "reaped" <=> child2 # "reaped")
  /\ child1 = "reaped" \/ child2 = "reaped" => main \in {"kill", "wait_2", "exit"}
  /\ NobodyLeft

(* Child 1 has set its hostname before it writes, and holds the pipe open
   until it has written. *)
PipeInv ==
  /\ byte \/ child1 \in {"write", "close", "sleep"} => hostname = "Child1Hostname"
  /\ child1 \in {"sethostname", "write", "close"} => "child1" \in writers \/ main \in Waiting

(* While nothing has failed child 1 outlives child 2, which is forked into
   its namespaces after the hostname was set. *)
GoodInv ==
  failed = {} =>
    /\ child1 \in Ended => child2 = "reaped" /\ main \in {"wait_2", "exit"}
    /\ main \in PastRead => hostname = "Child1Hostname"
    /\ main \in PastOpen => pidfd
    /\ main \in PastSetns => pidNs = "child1"
    /\ child2 # "none" => pid2 = "child1"
    /\ child2 = "print" => uts2 = "child1"
    /\ child2 \in {"zombie", "reaped"} => printed

IInv == TypeOK /\ ReapInv /\ PipeInv /\ GoodInv

(* The program starts in a state of the invariant. *)
LEMMA InitIInv == Init => IInv
BY DEF Init, IInv, TypeOK, ReapInv, NobodyLeft, PipeInv, GoodInv,
       Waiting, PastSetns, PastOpen, PastRead, Ended

(* Every step keeps the types. *)
LEMMA StepTypeOK == TypeOK /\ [Next]_vars => TypeOK'
<1> SUFFICES ASSUME TypeOK, [Next]_vars PROVE TypeOK'
  OBVIOUS
<1> USE DEF TypeOK, nsVars
<1>1. CASE Child1
  BY <1>1 DEF Child1, SetHostname, May, Write, CloseInChild, KillsOthers, Dies
<1>2. CASE Child2
  BY <1>2 DEF Child2, JoinUts, May, Child2Function
<1>3. CASE Clone \/ Close \/ Read \/ PidfdOpen
  BY <1>3 DEF Clone, Close, Read, PidfdOpen, May, Main
<1>4. CASE SetnsPid \/ Fork
  BY <1>4 DEF SetnsPid, Fork, May, Main
<1>5. CASE WaitFirst \/ Kill \/ WaitSecond
  BY <1>5 DEF WaitFirst, WaitSecond, Wait, Kill, Main
<1>6. CASE UNCHANGED vars
  BY <1>6 DEF vars
<1> QED
  BY <1>1, <1>2, <1>3, <1>4, <1>5, <1>6 DEF Next, Parent

(* Every step keeps the rest of the invariant.                              *)
LEMMA StepIInv == IInv /\ [Next]_vars => IInv'
<1> SUFFICES ASSUME IInv, [Next]_vars PROVE ReapInv' /\ PipeInv' /\ GoodInv'
  BY StepTypeOK DEF IInv
<1> USE DEF IInv, TypeOK, ReapInv, NobodyLeft, PipeInv, GoodInv, nsVars,
            Waiting, PastSetns, PastOpen, PastRead, Ended
<1>1. CASE SetHostname
  BY <1>1 DEF SetHostname, May
<1>2. CASE Write
  BY <1>2 DEF Write
<1>3. CASE CloseInChild
  BY <1>3 DEF CloseInChild
<1>4. CASE KillsOthers
  BY <1>4 DEF KillsOthers, Live
<1>5. CASE Dies
  BY <1>5 DEF Dies
<1>6. CASE JoinUts
  BY <1>6 DEF JoinUts, May
<1>7. CASE Child2Function
  BY <1>7 DEF Child2Function
<1>8. CASE Clone
  BY <1>8 DEF Clone, Main, May
<1>9. CASE Close
  BY <1>9 DEF Close, Main
<1>10. CASE Read
  BY <1>10 DEF Read, Main
<1>11. CASE PidfdOpen
  BY <1>11 DEF PidfdOpen, Main, May
<1>12. CASE SetnsPid
  BY <1>12 DEF SetnsPid, Main, May
<1>13. CASE Fork
  BY <1>13 DEF Fork, Main, May
<1>14. CASE WaitFirst
  BY <1>14 DEF WaitFirst, Wait, Main
<1>15. CASE Kill
  BY <1>15 DEF Kill, Main, Live
<1>16. CASE WaitSecond
  BY <1>16 DEF WaitSecond, Wait, Main
<1>17. CASE UNCHANGED vars
  BY <1>17 DEF vars
<1> QED
  BY <1>1, <1>2, <1>3, <1>4, <1>5, <1>6, <1>7, <1>8, <1>9,
     <1>10, <1>11, <1>12, <1>13, <1>14, <1>15, <1>16, <1>17
  DEF Next, Child1, Child2, Parent

(* The invariant holds in every reachable state. *)
THEOREM Invariant == Spec => []IInv
BY InitIInv, StepIInv, PTL DEF Spec

(* Every variable keeps to its range. *)
THEOREM TypeCorrect == Spec => []TypeOK
<1>1. IInv => TypeOK
  BY DEF IInv
<1> QED
  BY <1>1, Invariant, PTL

(* While nothing has failed child 2 prints only inside both namespaces of   *)
(* child 1, with the hostname set: the pipe makes the parent wait for it.   *)
THEOREM SeesChild1 == Spec => []Child2SeesChild1
<1>1. IInv => Child2SeesChild1
  BY DEF IInv, ReapInv, GoodInv, Child2SeesChild1, Waiting, PastSetns, PastOpen, PastRead
<1> QED
  BY <1>1, Invariant, PTL

(* While nothing has failed child 2 does not end before it has printed: the *)
(* parent's first wait can only reap child 2.                               *)
THEOREM Prints == Spec => []Child2Prints
<1>1. IInv => Child2Prints
  BY DEF IInv, GoodInv, Child2Prints
<1> QED
  BY <1>1, Invariant, PTL

(* The parent leaves no child behind, whichever calls have failed.          *)
THEOREM LeavesNobody == Spec => []NobodyLeft
<1>1. IInv => NobodyLeft
  BY DEF IInv, ReapInv
<1> QED
  BY <1>1, Invariant, PTL
============================================================================
