--------------------------- MODULE DriverProcess ----------------------------
(* The processes of the driver on one host: main.go, Driver.Run and the two  *)
(* servers of pkg/driver/server_grpc.go and pkg/driver/server_http.go. The   *)
(* Deployment of the controller and the DaemonSet of the node plugin mount   *)
(* the same directory of the host and listen on the same path in it, so the  *)
(* processes share one socket. Each has three goroutines: main, the HTTP     *)
(* server and the gRPC server; main waits for a WaitGroup both count down.   *)
EXTENDS Integers

CONSTANTS
  Procs,      \* the processes on the host
  Enabled,    \* the services each process is started with
  NoProc, Stale,
  MaxFaults   \* a bound on failed servers and killed processes

ASSUME ProcessAssumption ==
  /\ Enabled \in [Procs -> SUBSET {"controller", "node"}]
  /\ NoProc \notin Procs /\ Stale \notin Procs /\ NoProc # Stale
  /\ MaxFaults \in Nat

VARIABLES
  socket,     \* whose listener the path of the endpoint leads to
  main, http, grpc,   \* the goroutines of each process
  wg,         \* the counter of its WaitGroup
  label,      \* whether NodeGetInfo finds the label of the host in time
  faults

vars == <<socket, main, http, grpc, wg, label, faults>>

TypeOK ==
  /\ socket \in Procs \cup {NoProc, Stale}
  /\ main \in [Procs -> {"down", "remove", "listen", "wait", "stop", "shutdown", "return"}]
  /\ http \in [Procs -> {"off", "starting", "serving", "closed", "done"}]
  /\ grpc \in [Procs -> {"off", "serving", "failed", "done"}]
  /\ wg \in [Procs -> 0 .. 1]
  /\ label \in BOOLEAN
  /\ faults \in 0 .. MaxFaults

Init ==
  /\ socket = NoProc
  /\ main = [p \in Procs |-> "down"]
  /\ http = [p \in Procs |-> "off"]
  /\ grpc = [p \in Procs |-> "off"]
  /\ wg = [p \in Procs |-> 0]
  /\ label \in BOOLEAN
  /\ faults = 0

-----------------------------------------------------------------------------
(* The end of a process, however it comes: its listener is gone, the file of *)
(* the socket stays where it is.                                             *)
Ends(p) ==
  /\ socket' = IF socket = p THEN Stale ELSE socket
  /\ main' = [main EXCEPT ![p] = "down"]
  /\ http' = [http EXCEPT ![p] = "off"]
  /\ grpc' = [grpc EXCEPT ![p] = "off"]
  /\ wg' = [wg EXCEPT ![p] = 0]

(* driverStart waits for one goroutine, and starts the HTTP server.          *)
StartWaitingForBoth(p) ==       \* mutant: the WaitGroup counts both servers
  /\ main[p] = "down"
  /\ main' = [main EXCEPT ![p] = "remove"]
  /\ http' = [http EXCEPT ![p] = "starting"]
  /\ wg' = [wg EXCEPT ![p] = 2]
  /\ UNCHANGED <<socket, grpc>>
Start(p) ==
  /\ main[p] = "down"
  /\ main' = [main EXCEPT ![p] = "remove"]
  /\ http' = [http EXCEPT ![p] = "starting"]
  /\ wg' = [wg EXCEPT ![p] = 1]
  /\ UNCHANGED <<socket, grpc>>

HttpListens(p) ==
  /\ http[p] = "starting"
  /\ http' = [http EXCEPT ![p] = "serving"]
  /\ UNCHANGED <<socket, main, grpc, wg>>

(* An HTTP server that does not listen ends the process.                     *)
HttpFails(p) == http[p] \in {"starting", "serving"} /\ Ends(p)

(* What a process serves, and Driver.Run: with no service it ends.           *)
Services(p) == {"identity"} \cup Enabled[p]
NothingToServe(p) == Services(p) = {"identity"}

(* RunGRPCServer removes whatever is on the path, then listens there.        *)
RemoveNothing(p) ==             \* mutant: the path is taken as it is
  /\ main[p] = "remove"
  /\ IF NothingToServe(p)
     THEN Ends(p)
     ELSE /\ main' = [main EXCEPT ![p] = "listen"]
          /\ UNCHANGED <<socket, http, grpc, wg>>
RemoveSocket(p) ==
  /\ main[p] = "remove"
  /\ IF NothingToServe(p)
     THEN Ends(p)
     ELSE /\ main' = [main EXCEPT ![p] = "listen"]
          /\ socket' = NoProc
          /\ UNCHANGED <<http, grpc, wg>>

Listen(p) ==
  /\ main[p] = "listen"
  /\ IF socket # NoProc
     THEN Ends(p)
     ELSE /\ main' = [main EXCEPT ![p] = "wait"]
          /\ grpc' = [grpc EXCEPT ![p] = "serving"]
          /\ socket' = p
          /\ UNCHANGED <<http, wg>>

(* Closing a listener unlinks its path, whosever socket is there by now.     *)
Closes(p) ==
  /\ grpc' = [grpc EXCEPT ![p] = "failed"]
  /\ socket' = NoProc

ServeFails(p) ==
  /\ grpc[p] = "serving"
  /\ Closes(p)
  /\ UNCHANGED <<main, http, wg>>

(* WaitGroup.Done panics when the counter becomes negative, as it does when  *)
(* the HTTP server counts down after the gRPC server.                        *)
CountsDown(p) == wg[p] > 0 /\ wg' = [wg EXCEPT ![p] = @ - 1]
Overdrawn(p) == wg[p] = 0 /\ Ends(p)

GrpcDone(p) ==
  /\ grpc[p] = "failed"
  /\ \/ /\ CountsDown(p)
        /\ grpc' = [grpc EXCEPT ![p] = "done"]
        /\ UNCHANGED <<socket, main, http>>
     \/ Overdrawn(p)

HttpDone(p) ==
  /\ http[p] = "closed"
  /\ \/ /\ CountsDown(p)
        /\ http' = [http EXCEPT ![p] = "done"]
        /\ UNCHANGED <<socket, main, grpc>>
     \/ Overdrawn(p)

WaitEnds(p) ==
  /\ main[p] = "wait" /\ wg[p] = 0
  /\ main' = [main EXCEPT ![p] = "stop"]
  /\ UNCHANGED <<socket, http, grpc, wg>>

StopGrpc(p) ==
  /\ main[p] = "stop"
  /\ main' = [main EXCEPT ![p] = "shutdown"]
  /\ IF grpc[p] = "serving" THEN Closes(p) ELSE UNCHANGED <<grpc, socket>>
  /\ UNCHANGED <<http, wg>>

(* The HTTP goroutine sees its server closed, and counts down too.           *)
ShutdownHttp(p) ==
  /\ main[p] = "shutdown"
  /\ main' = [main EXCEPT ![p] = "return"]
  /\ http' = [http EXCEPT ![p] = IF @ \in {"starting", "serving"} THEN "closed" ELSE @]
  /\ UNCHANGED <<socket, grpc, wg>>

Returns(p) == main[p] = "return" /\ Ends(p)

Runs(p) ==
  \/ HttpListens(p) \/ RemoveSocket(p) \/ Listen(p)
  \/ GrpcDone(p) \/ HttpDone(p)
  \/ WaitEnds(p) \/ StopGrpc(p) \/ ShutdownHttp(p) \/ Returns(p)

-----------------------------------------------------------------------------
(* The kubelet restarts a container whose liveness probe fails: the probe of *)
(* the node plugin calls NodeGetInfo on the socket, which needs the label of *)
(* the host (see Metadata), the probe of the controller looks for the file.  *)
(* Three probes ten seconds apart have to fail; by then every process that   *)
(* was starting listens or has ended.                                        *)
Answers(service) == socket \in Procs /\ service \in Services(socket)

ControllerProbeCalls ==         \* mutant: the readiness probe that is commented out
  Answers("controller")
ControllerProbe == socket # NoProc
NodeProbe == Answers("node") /\ label

ProbeFails(p) ==
  /\ main[p] # "down"
  /\ \A q \in Procs : main[q] \notin {"remove", "listen"}
  /\ ~(IF "node" \in Enabled[p] THEN NodeProbe ELSE ControllerProbe)
  /\ Ends(p)

LabelChanges ==
  /\ label' = ~label
  /\ UNCHANGED <<socket, main, http, grpc, wg>>

Fault(F) == F /\ faults < MaxFaults /\ faults' = faults + 1
Quiet(F) == F /\ UNCHANGED <<label, faults>>

Killed(p) == main[p] # "down" /\ Ends(p)

Next ==
  \/ \E p \in Procs :
       \/ Quiet(Start(p)) \/ Quiet(Runs(p)) \/ Quiet(ProbeFails(p))
       \/ Fault((HttpFails(p) \/ ServeFails(p) \/ Killed(p)) /\ UNCHANGED label)
  \/ Fault(LabelChanges)

Spec == Init /\ [][Next]_vars

(* Goroutines run and the kubelet starts what is down. A probe fails for     *)
(* good only when it goes on failing.                                        *)
Fairness ==
  \A p \in Procs :
    WF_vars(Quiet(Start(p))) /\ WF_vars(Quiet(Runs(p))) /\ WF_vars(Quiet(ProbeFails(p)))

FairSpec == Spec /\ Fairness

-----------------------------------------------------------------------------
(* Properties.                                                               *)

(* A driver whose gRPC server has stopped does not linger behind its health  *)
(* endpoint: it ends, and is started again.                                  *)
StoppedServerEndsProcess ==
  \A p \in Procs : grpc[p] \in {"failed", "done"} ~> main[p] = "down"

(* The node service answers again and again on the host, whichever processes *)
(* fail, restart and take the socket from each other, unless the label of    *)
(* the host is lost for good: the probe of the node plugin restarts it until *)
(* the socket is its own.                                                    *)
NodeAnswersAgain == <>[]label => []<>Answers("node")

(* The processes on one socket do not restart each other for ever: each runs *)
(* on in the end, unless the label is lost, when the node plugin is started  *)
(* again for ever and may be in the way of the others each time.             *)
Settles == <>[]label => \A p \in Procs : <>[](main[p] = "wait")
=============================================================================
