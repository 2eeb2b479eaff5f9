----------------------------- MODULE VolumeUse -----------------------------
(* What the cluster expects of volumes that are used on one node at a time:  *)
(* a node uses a volume where it is attached, it is not taken away while it  *)
(* is used, and nobody else touches what is on it. There are no calls here,  *)
(* no devices, no VolumeAttachments and no failures, but for the volumes     *)
(* that went astray, of which this is not promised until their node is done  *)
(* with them. VolumeStack implements this module.                            *)
CONSTANTS Volumes, Nodes, Nowhere

VARIABLES
  place,      \* where a volume is attached
  users,      \* the nodes that format, mount or have mounted a volume
  data,       \* what is on a volume
  astray      \* the volumes that may not be where they are used

useVars == <<place, users, data, astray>>

Init ==
  /\ place = [v \in Volumes |-> Nowhere]
  /\ users = [v \in Volumes |-> {}]
  /\ data = [v \in Volumes |-> "written"]
  /\ astray = {}

-----------------------------------------------------------------------------
(* What the controller does.                                                 *)

Attach(v, m) ==
  /\ place[v] = Nowhere
  /\ place' = [place EXCEPT ![v] = m]

Detach(v) ==
  /\ place[v] # Nowhere
  /\ users[v] = {} \/ v \in astray
  /\ place' = [place EXCEPT ![v] = Nowhere]

Control ==
  /\ \/ UNCHANGED place
     \/ \E v \in Volumes : Detach(v) \/ \E m \in Nodes : Attach(v, m)
  /\ astray' \subseteq Volumes
  /\ UNCHANGED <<users, data>>

-----------------------------------------------------------------------------
(* What a node does.                                                         *)

Begin(v, m) ==
  /\ (users[v] = {} /\ place[v] = m) \/ v \in astray
  /\ users' = [users EXCEPT ![v] = @ \cup {m}]
  /\ UNCHANGED data

End(v, m) ==
  /\ m \in users[v]
  /\ users' = [users EXCEPT ![v] = @ \ {m}]
  /\ UNCHANGED data

(* To format a volume, or to write to it.                                    *)
Touch(v) ==
  /\ users[v] = {place[v]}
  /\ \E x \in {"empty", "written"} : data' = [data EXCEPT ![v] = x]
  /\ UNCHANGED users

(* The node of a volume astray may touch another volume for it.              *)
Mistake(v) ==
  /\ v \in astray /\ users[v] # {}
  /\ \E w \in Volumes, x \in {"empty", "written"} : data' = [data EXCEPT ![w] = x]
  /\ UNCHANGED users

Node(v) ==
  /\ (\E m \in Nodes : Begin(v, m) \/ End(v, m)) \/ Touch(v) \/ Mistake(v)
  /\ astray' \subseteq astray
  /\ UNCHANGED place

(* A volume that went astray stays so for as long as it is used anywhere but *)
(* where it is attached.                                                     *)
StaysAstray == \A v \in astray \ astray' : users'[v] \subseteq {place'[v]}

Next == (Control \/ \E v \in Volumes : Node(v)) /\ StaysAstray

Spec == Init /\ [][Next]_useVars
=============================================================================
