--------------------------- MODULE QuantumBarrier ---------------------------
(***************************************************************************)
(* What COTSon's mediator promises to the simulated cluster.               *)
(*                                                                         *)
(* Simulated time is cut into quanta.  The nodes that take part (members)  *)
(* run on their own up to a common horizon, and the horizon moves only     *)
(* when every member has reached it.  How a node learns of the horizon and *)
(* how the mediator learns of the nodes' times (UDP messages, timeouts,    *)
(* threads) is left to ClusterSync, which implements this specification.   *)
(***************************************************************************)
EXTENDS Naturals

CONSTANTS
  Nodes,      \* the simulated machines
  FreeRun,    \* a node that has heard nothing runs this far on its own
  Slack       \* how far past its target a node may be when it is stopped

VARIABLES
  members,    \* the nodes the barrier waits for
  time,       \* simulated time of each node
  horizon,    \* where the current quantum ends
  open        \* FALSE once the cluster has been told to terminate

vars == <<members, time, horizon, open>>

Init ==
  /\ members = {}
  /\ time = [n \in Nodes |-> 0]
  /\ horizon \in Nat \ {0}
  /\ open = TRUE

Limit == IF horizon > FreeRun THEN horizon ELSE FreeRun

\* A node simulates on, never past the limit while the cluster is running.
Move(n) ==
  /\ time' = [time EXCEPT ![n] = time'[n]]
  /\ time'[n] > time[n]
  /\ open => time'[n] <= Limit + Slack
  /\ UNCHANGED <<members, horizon, open>>

\* A node reports; the horizon may move if all members are at it.
Report(n) ==
  /\ open
  /\ members' = members \union {n}
  /\ \/ horizon' = horizon
     \/ /\ \A m \in members' : time[m] >= horizon
        /\ horizon' > horizon
  /\ UNCHANGED <<time, open>>

\* A node is dropped from the barrier until it reports again.
Leave(n) ==
  /\ members' = members \ {n}
  /\ UNCHANGED <<time, horizon, open>>

\* The cluster terminates: no more quanta.
Close(n) ==
  /\ open
  /\ open' = FALSE
  /\ members' = members \union {n}
  /\ UNCHANGED <<time, horizon>>

Next == \E n \in Nodes : Move(n) \/ Report(n) \/ Leave(n) \/ Close(n)

Spec == Init /\ [][Next]_vars

=============================================================================
