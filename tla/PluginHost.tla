----------------------------- MODULE PluginHost -----------------------------
(* The sidecars beside the processes of DriverProcess, and what they ask the *)
(* process that has the socket when they connect: pkg/driver/                *)
(* identityserver.go and the capabilities of pkg/driver/driver.go. A         *)
(* connection lasts as long as its process serves, whoever has the socket.   *)
(* The sidecars are external (external-attacher, external-provisioner,       *)
(* node-driver-registrar), modelled as far as the charts start them.         *)
EXTENDS DriverProcess

CONSTANTS
  Clients,    \* the sidecars of the controller
  Registrar   \* the sidecar that registers the node plugin with the kubelet

ASSUME HostAssumption == Registrar \notin Clients

VARIABLES
  link,       \* the process a sidecar is connected to
  mode        \* what a sidecar does: it starts, or works with or without the driver

hostVars == <<vars, link, mode>>

Sidecars == Clients \cup {Registrar}

HostTypeOK ==
  /\ TypeOK
  /\ link \in [Sidecars -> Procs \cup {NoProc}]
  /\ mode \in [Sidecars -> {"starting", "served", "trivial"}]

HostInit ==
  /\ Init
  /\ link = [s \in Sidecars |-> NoProc]
  /\ mode = [s \in Sidecars |-> "starting"]

-----------------------------------------------------------------------------
(* What a process says of itself.                                            *)

(* Probe: NewDriver sets ready before there is a server to ask.              *)
Ready(p) == main[p] # "down"

(* GetPluginCapabilities is the same whatever the process serves.            *)
PluginCapabilities(p) == {"controller", "topology", "expansion"}

(* The capabilities of the controller service that NewDriver enables.        *)
cscap == {"LIST_VOLUMES", "CREATE_DELETE_VOLUME", "PUBLISH_UNPUBLISH_VOLUME",
          "LIST_VOLUMES_PUBLISHED_NODES", "GET_VOLUME"}

(* ControllerGetCapabilities; not implemented where there is no controller.  *)
ControllerCapabilitiesAll(p) == \* mutant: the answer is the driver's, not the service's
  cscap
ControllerCapabilities(p) == IF "controller" \in Services(p) THEN cscap ELSE {}

-----------------------------------------------------------------------------
(* The sidecars.                                                             *)

Connect(s) ==
  /\ link[s] = NoProc /\ socket \in Procs
  /\ link' = [link EXCEPT ![s] = socket]
  /\ UNCHANGED mode

(* A sidecar whose driver is no good, or is gone, ends and is started again. *)
Restarts(s) ==
  /\ link' = [link EXCEPT ![s] = NoProc]
  /\ mode' = [mode EXCEPT ![s] = "starting"]

Becomes(s, m) == mode' = [mode EXCEPT ![s] = m] /\ UNCHANGED link

(* The attacher of a driver that says it has no controller service takes     *)
(* every volume for attached.                                                *)
Handshake(s) ==
  LET p == link[s] IN
  /\ p # NoProc /\ mode[s] = "starting" /\ Ready(p)
  /\ IF "controller" \notin PluginCapabilities(p) THEN Becomes(s, "trivial")
     ELSE IF "PUBLISH_UNPUBLISH_VOLUME" \in ControllerCapabilities(p)
     THEN Becomes(s, "served")
     ELSE Restarts(s)

(* The registrar names the socket to the kubelet, which asks for NodeGetInfo *)
(* on a connection of its own.                                               *)
Register ==
  /\ link[Registrar] # NoProc /\ mode[Registrar] = "starting"
  /\ IF NodeProbe THEN Becomes(Registrar, "served") ELSE Restarts(Registrar)

Sidecar(s) ==
  /\ Connect(s) \/ (s \in Clients /\ Handshake(s)) \/ (s = Registrar /\ Register)
  /\ UNCHANGED vars

(* A step of the processes cuts the connections to those that serve no more. *)
ProcessStep ==
  LET Cut(s) == link[s] # NoProc /\ main'[link[s]] \notin {"wait", "stop"} IN
  /\ Next
  /\ link' = [s \in Sidecars |-> IF Cut(s) THEN NoProc ELSE link[s]]
  /\ mode' = [s \in Sidecars |-> IF Cut(s) THEN "starting" ELSE mode[s]]

HostNext == ProcessStep \/ \E s \in Sidecars : Sidecar(s)

(* What is down is started again.                                            *)
HostSpec ==
  /\ HostInit /\ [][HostNext]_hostVars
  /\ Fairness
  /\ \A s \in Sidecars : WF_hostVars(Sidecar(s))

-----------------------------------------------------------------------------
(* Properties.                                                               *)

(* A sidecar of the controller that works is connected to a process with the *)
(* controller service, though it may have found the node plugin on the       *)
(* socket first, and whoever has taken the socket since.                     *)
ServedByController ==
  \A s \in Clients : mode[s] = "served" => "controller" \in Enabled[link[s]]

(* The node plugin is registered again and again, unless its label is lost.  *)
NodeRegistered == <>[]label => []<>(mode[Registrar] = "served")
=============================================================================
