------------------------------ MODULE FairShare ------------------------------
(***************************************************************************)
(* What the run loops of matrix.c, matrix-b.c and matrix-a.c promise about *)
(* the two virtual machines, with the mechanism (timer, signals, counters) *)
(* left out: time is handed out in rounds, and in each round every VM is   *)
(* granted exactly its share of turns, in any order.  A VM may leave the   *)
(* processor in its turn and come back to it.  The promise may be given    *)
(* up; from then on nothing is said.                                       *)
(***************************************************************************)
EXTENDS Integers

CONSTANTS
  VM,       \* the virtual machines, numbered from 0
  Share     \* Share[v] turns of each round belong to v

VARIABLES
  onCpu,    \* the VM whose guest code is running, or Nobody
  holder,   \* the VM whose turn is under way, or Nobody
  credit,   \* the turns of this round each VM has not had yet
  kept      \* does the promise still stand?

Nobody == -1

Init ==
  /\ onCpu = Nobody /\ holder = Nobody
  /\ credit = Share
  /\ kept = TRUE

(* A turn of v begins; the last of a round opens the next round. *)
Grant(v) ==
  LET left == [credit EXCEPT ![v] = @ - 1]
  IN  /\ kept /\ kept' = kept
      /\ onCpu = Nobody /\ holder = Nobody
      /\ credit[v] > 0
      /\ onCpu' = v /\ holder' = v
      /\ credit' = IF \A w \in VM : left[w] = 0 THEN Share ELSE left

(* The running VM leaves the processor; its turn may end then or later. *)
Leave ==
  /\ onCpu' = Nobody
  /\ holder' \in {holder, Nobody}
  /\ UNCHANGED <<credit, kept>>

Continue ==
  /\ onCpu = Nobody /\ holder # Nobody
  /\ onCpu' = holder
  /\ UNCHANGED <<holder, credit, kept>>

GiveUp == kept' = FALSE

Next == Leave \/ Continue \/ GiveUp \/ \E v \in VM : Grant(v)

Spec == Init /\ [][Next]_<<onCpu, holder, credit, kept>>
=============================================================================
