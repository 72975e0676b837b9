---------------------------- MODULE ContainerNet -----------------------------
(***************************************************************************)
(* The network commands of conductor.sh: addnetwork, which connects a      *)
(* container to the host by a veth pair and numbers it, and peer.          *)
(***************************************************************************)
EXTENDS Host

CONSTANT NetOptions   \* subset of {"plain", "internet", "expose", "expose_only"}: the
                      \* options of addnetwork (none, -i, -i and -e, -e alone)

(* mkdir -p /var/run/netns *)
NetDir(p) ==
  /\ At(p, "addnetwork")
  /\ netnsDir' = TRUE
  /\ Goto(p, "net_ps")
  /\ UNCHANGED <<dirVars, session, link, netns, highest, ruleVars>>

(* PID=$(ps ...): the number of processes found is not checked. *)
NetPs(p) ==
  /\ At(p, "net_ps")
  /\ inv' = [inv EXCEPT ![p].pids = Matching(inv[p].name), ![p].pc = "net_ln"]
  /\ UNCHANGED <<dirVars, session, netVars>>

(***************************************************************************)
(* ln -sf /proc/$PID/ns/net /var/run/netns/$NAME.  With two PIDs the words *)
(* are three and the last is no directory; with none the link dangles.     *)
(***************************************************************************)
NetLn(p) ==
  /\ At(p, "net_ln")
  /\ LET ok == netnsDir /\ Cardinality(inv[p].pids) <= 1
     IN  /\ netns' = IF ok THEN [netns EXCEPT ![inv[p].name] = inv[p].pids]
                     ELSE netns
         /\ Test(p, ok, "num_read")
  /\ UNCHANGED <<dirVars, session, link, netnsDir, highest, ruleVars>>

(***************************************************************************)
(* get_next_num: reads .HIGHEST_NUM, then truncates it, then writes it.    *)
(* Between the two last an empty file can be read: the arithmetic fails,   *)
(* nothing is written, and "local NUM=$(...)" hides that from errexit:     *)
(* NUM is empty and 0x$NUM is 0.                                           *)
(***************************************************************************)
M_NumRead_plusOne(p) ==
  /\ At(p, "num_read")
  /\ inv' = [inv EXCEPT ![p].num = highest + 1, ![p].pc = "num_truncate"]
  /\ UNCHANGED <<dirVars, session, netVars>>
NumRead(p) ==
  /\ At(p, "num_read")
  /\ inv' = [inv EXCEPT
       ![p].num = CASE highest = None -> 1
                    [] highest = Truncated -> 0
                    [] OTHER -> highest + 1,
       ![p].pc = IF highest = Truncated THEN "link_add" ELSE "num_truncate"]
  /\ UNCHANGED <<dirVars, session, netVars>>

NumTruncate(p) ==
  /\ At(p, "num_truncate")
  /\ highest' = Truncated
  /\ Goto(p, "num_write")
  /\ UNCHANGED <<dirVars, session, linkVars, ruleVars>>

NumWrite(p) ==
  /\ At(p, "num_write")
  /\ highest' = inv[p].num
  /\ Goto(p, "link_add")
  /\ UNCHANGED <<dirVars, session, linkVars, ruleVars>>

(* ip link add fails when the pair exists already. *)
LinkAdd(p) ==
  LET n == inv[p].name
  IN  /\ At(p, "link_add")
      /\ link' = IF link[n] = NoLink THEN [link EXCEPT ![n] = NewLink] ELSE link
      /\ Test(p, link[n] = NoLink, "link_move")
      /\ UNCHANGED <<dirVars, session, netnsDir, netns, highest, ruleVars>>

M_LinkMove_savedNs(p) ==
  LET n == inv[p].name
      ok == link[n].inside = 0 /\ inv[p].pids # {} /\ inv[p].pids \cap Proc = {}
  IN  /\ At(p, "link_move")
      /\ link' = IF ok THEN [link EXCEPT ![n].inside =
                               CHOOSE k \in Session : k \in {SessionOf(pid) : pid \in inv[p].pids}]
                 ELSE link
      /\ Test(p, ok, "link_up")
      /\ UNCHANGED <<dirVars, session, netnsDir, netns, highest, ruleVars>>
(* ip link set n-outside up; ip link set n-inside netns $PID *)
LinkMove(p) ==
  LET n == inv[p].name
      ok == /\ link[n].inside = 0
            /\ inv[p].pids # {} /\ \A pid \in inv[p].pids : PidAlive(pid)
  IN  /\ At(p, "link_move")
      /\ link' = IF ok THEN [link EXCEPT ![n].inside =
                               CHOOSE net \in {NetOf(pid) : pid \in inv[p].pids} : TRUE]
                 ELSE link
      /\ IF ok THEN inv' = [inv EXCEPT ![p].pids = {}, ![p].pc = "link_up"] ELSE Exit(p)
      /\ UNCHANGED <<dirVars, session, netnsDir, netns, highest, ruleVars>>

(* "ip -n n" reaches n-inside: the netns link names a living process, in
   whose network namespace the inside end is. *)
Reachable(n) ==
  /\ netnsDir /\ netns[n] # {}
  /\ \A pid \in netns[n] : PidAlive(pid) /\ link[n].inside = NetOf(pid)

(* ip -n n link set n-inside up; ip -n n link set lo up *)
LinkUp(p) ==
  /\ At(p, "link_up")
  /\ Test(p, Reachable(inv[p].name), "addr_out")
  /\ UNCHANGED <<dirVars, session, netVars>>

(* The two ip addr add; an address byte above MaxPrefix is refused. *)
AddrOut(p) ==
  LET n == inv[p].name
      ok == link[n] # NoLink /\ inv[p].num <= MaxPrefix
  IN  /\ At(p, "addr_out")
      /\ link' = IF ok THEN [link EXCEPT ![n].outAddr = inv[p].num] ELSE link
      /\ Test(p, ok, "addr_in")
      /\ UNCHANGED <<dirVars, session, netnsDir, netns, highest, ruleVars>>

AddrIn(p) ==
  LET n == inv[p].name
      ok == Reachable(n)
  IN  /\ At(p, "addr_in")
      /\ link' = IF ok THEN [link EXCEPT ![n].inAddr = inv[p].num] ELSE link
      /\ Test(p, ok, CASE inv[p].arg = "plain"       -> "net_done"
                       [] inv[p].arg = "expose_only" -> "expose"
                       [] OTHER                      -> "internet")
      /\ UNCHANGED <<dirVars, session, netnsDir, netns, highest, ruleVars>>

(* -i: the default route in the container, then the rules of the host. *)
Internet(p) ==
  LET n == inv[p].name
      ok == Reachable(n)
  IN  /\ At(p, "internet")
      /\ nat' = IF ok THEN nat \cup {<<"masquerade", inv[p].num>>} ELSE nat
      /\ forward' = IF ok THEN forward \cup {<<n, "internet">>, <<"internet", n>>}
                    ELSE forward
      /\ Test(p, ok, IF inv[p].arg = "expose" THEN "expose" ELSE "net_done")
      /\ UNCHANGED <<dirVars, session, linkVars, highest, policy>>

(* -e: the outer port goes to the address with this number, whoever has it;
   the name is history. *)
Expose(p) ==
  /\ At(p, "expose")
  /\ nat' = nat \cup {<<"dnat", inv[p].num, inv[p].name>>}
  /\ forward' = forward \cup {<<"tcp", inv[p].num>>}
  /\ Goto(p, "net_done")
  /\ UNCHANGED <<dirVars, session, linkVars, highest, policy>>

(* rm -rf /var/run/netns: with the links of everybody in it. *)
NetDone(p) ==
  /\ At(p, "net_done")
  /\ netnsDir' = FALSE
  /\ netns' = [n \in Name |-> {}]
  /\ Exit(p)
  /\ UNCHANGED <<dirVars, session, link, highest, ruleVars>>

AddNetwork(p) ==
  \/ NetDir(p) \/ NetPs(p) \/ NetLn(p)
  \/ NumRead(p) \/ NumTruncate(p) \/ NumWrite(p)
  \/ LinkAdd(p) \/ LinkMove(p) \/ LinkUp(p) \/ AddrOut(p) \/ AddrIn(p)
  \/ Internet(p) \/ Expose(p) \/ NetDone(p)

(* iptables -A FORWARD, once in either direction; no check on the names. *)
Peer(p) ==
  LET a == inv[p].name
      b == inv[p].arg
  IN  /\ At(p, "peer")
      /\ forward' = forward \cup {<<a, b>>, <<b, a>>}
      /\ Exit(p)
      /\ UNCHANGED <<dirVars, session, linkVars, highest, nat, policy>>
=============================================================================
