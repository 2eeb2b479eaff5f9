-------------------------- MODULE PluginHost_proofs --------------------------
(* Proofs about DriverProcess and PluginHost, for any processes on a host,   *)
(* whatever services they are started with, and any sidecars.                *)
EXTENDS PluginHost, TLAPS

LEMMA ServesTwo == \A p \in Procs : Enabled[p] \subseteq {"controller", "node"}
BY ProcessAssumption

(* The end of a process keeps the types.                                     *)
LEMMA EndsTyped ==
  ASSUME TypeOK, NEW p \in Procs, Ends(p), label' \in BOOLEAN, faults' \in 0 .. MaxFaults
  PROVE  TypeOK'
BY DEF TypeOK, Ends

LEMMA RunsTyped ==
  ASSUME TypeOK, NEW p \in Procs, Runs(p), UNCHANGED <<label, faults>>
  PROVE  TypeOK'
<1>1. CASE Ends(p)
  BY <1>1, EndsTyped DEF TypeOK
<1>2. CASE HttpListens(p)
  BY <1>2 DEF HttpListens, TypeOK
<1>3. CASE RemoveSocket(p) /\ ~Ends(p)
  BY <1>3 DEF RemoveSocket, TypeOK
<1>4. CASE Listen(p) /\ ~Ends(p)
  BY <1>4 DEF Listen, TypeOK
<1>5. CASE GrpcDone(p) /\ ~Ends(p)
  <2>1. wg' \in [Procs -> 0 .. 1]
    BY <1>5 DEF GrpcDone, CountsDown, Overdrawn, TypeOK
  <2> QED
    BY <1>5, <2>1 DEF GrpcDone, Overdrawn, TypeOK
<1>6. CASE HttpDone(p) /\ ~Ends(p)
  <2>1. wg' \in [Procs -> 0 .. 1]
    BY <1>6 DEF HttpDone, CountsDown, Overdrawn, TypeOK
  <2> QED
    BY <1>6, <2>1 DEF HttpDone, Overdrawn, TypeOK
<1>7. CASE WaitEnds(p)
  BY <1>7 DEF WaitEnds, TypeOK
<1>8. CASE StopGrpc(p)
  BY <1>8 DEF StopGrpc, Closes, TypeOK
<1>9. CASE ShutdownHttp(p)
  <2>1. http' \in [Procs -> {"off", "starting", "serving", "closed", "done"}]
    BY <1>9 DEF ShutdownHttp, TypeOK
  <2> QED
    BY <1>9, <2>1 DEF ShutdownHttp, TypeOK
<1> QED
  BY <1>1, <1>2, <1>3, <1>4, <1>5, <1>6, <1>7, <1>8, <1>9 DEF Runs, Returns

LEMMA TypeStep == TypeOK /\ [Next]_vars => TypeOK'
<1> SUFFICES ASSUME TypeOK, [Next]_vars PROVE TypeOK'
  OBVIOUS
<1>1. CASE UNCHANGED vars
  BY <1>1 DEF vars, TypeOK
<1>2. ASSUME NEW p \in Procs, Quiet(Start(p))
      PROVE  TypeOK'
  BY <1>2 DEF Quiet, Start, TypeOK
<1>3. ASSUME NEW p \in Procs, Quiet(Runs(p))
      PROVE  TypeOK'
  BY <1>3, RunsTyped DEF Quiet
<1>4. ASSUME NEW p \in Procs, Quiet(ProbeFails(p))
      PROVE  TypeOK'
  BY <1>4, EndsTyped DEF Quiet, ProbeFails, TypeOK
<1>5. ASSUME NEW p \in Procs,
             Fault((HttpFails(p) \/ ServeFails(p) \/ Killed(p)) /\ UNCHANGED label)
      PROVE  TypeOK'
  <2>1. faults' \in 0 .. MaxFaults /\ label' \in BOOLEAN
    BY <1>5, ProcessAssumption DEF Fault, TypeOK
  <2>2. CASE Ends(p)
    BY <2>1, <2>2, EndsTyped
  <2>3. CASE ServeFails(p)
    BY <2>1, <2>3 DEF ServeFails, Closes, TypeOK
  <2> QED
    BY <1>5, <2>2, <2>3 DEF Fault, HttpFails, Killed
<1>6. CASE Fault(LabelChanges)
  BY <1>6, ProcessAssumption DEF Fault, LabelChanges, TypeOK
<1> QED
  BY <1>1, <1>2, <1>3, <1>4, <1>5, <1>6 DEF Next

-----------------------------------------------------------------------------
(* A sidecar that works has a connection.                                    *)
Linked == \A s \in Sidecars : mode[s] # "starting" => link[s] \in Procs

Inv == HostTypeOK /\ Linked /\ ServedByController

LEMMA InitInv == HostInit => Inv
<1> SUFFICES ASSUME HostInit PROVE Inv
  OBVIOUS
<1>1. TypeOK
  <2>1. faults \in 0 .. MaxFaults
    BY ProcessAssumption DEF HostInit, Init
  <2> QED
    BY <2>1 DEF HostInit, Init, TypeOK
<1> QED
  BY <1>1 DEF HostInit, Inv, HostTypeOK, Linked, ServedByController, Sidecars

LEMMA InvStep == Inv /\ [HostNext]_hostVars => Inv'
<1> SUFFICES ASSUME Inv, [HostNext]_hostVars PROVE Inv'
  OBVIOUS
<1> USE DEF Inv, HostTypeOK, Linked, ServedByController
<1>a. NoProc \notin Procs /\ Clients \subseteq Sidecars /\ Registrar \in Sidecars
      /\ Registrar \notin Clients
  BY ProcessAssumption, HostAssumption DEF Sidecars
<1>1. CASE UNCHANGED hostVars
  <2>1. TypeOK'
    BY <1>1, TypeStep DEF hostVars
  <2> QED
    BY <1>1, <2>1 DEF hostVars
<1>2. CASE ProcessStep
  <2>1. TypeOK'
    BY <1>2, TypeStep DEF ProcessStep
  <2>2. \A s \in Sidecars :
          \/ link'[s] = link[s] /\ mode'[s] = mode[s]
          \/ link'[s] = NoProc /\ mode'[s] = "starting"
    BY <1>2 DEF ProcessStep
  <2>3. /\ link' \in [Sidecars -> Procs \cup {NoProc}]
        /\ mode' \in [Sidecars -> {"starting", "served", "trivial"}]
    BY <1>2, <2>2 DEF ProcessStep
  <2> QED
    BY <1>a, <2>1, <2>2, <2>3
<1>3. ASSUME NEW s \in Sidecars, Sidecar(s)
      PROVE  Inv'
  <2>1. TypeOK'
    BY <1>3, TypeStep DEF Sidecar
  <2>2. CASE Connect(s)
    <3>1. \A t \in Sidecars : t # s => link'[t] = link[t]
      BY <2>2 DEF Connect
    <3>2. mode[s] = "starting"
      BY <1>a, <2>2 DEF Connect
    <3> QED
      BY <1>a, <2>1, <2>2, <3>1, <3>2 DEF Connect
  <2>3. ASSUME Restarts(s)
        PROVE  Inv'
    <3>1. /\ link'[s] = NoProc /\ mode'[s] = "starting"
          /\ \A t \in Sidecars \ {s} : link'[t] = link[t] /\ mode'[t] = mode[t]
          /\ link' \in [Sidecars -> Procs \cup {NoProc}]
          /\ mode' \in [Sidecars -> {"starting", "served", "trivial"}]
      BY <2>3 DEF Restarts
    <3> QED
      BY <1>a, <2>1, <3>1
  <2>4. ASSUME Becomes(s, "served"), link[s] # NoProc,
               s \in Clients => "controller" \in Enabled[link[s]]
        PROVE  Inv'
    <3>1. /\ link' = link /\ mode'[s] = "served"
          /\ \A t \in Sidecars \ {s} : mode'[t] = mode[t]
          /\ mode' \in [Sidecars -> {"starting", "served", "trivial"}]
      BY <2>4 DEF Becomes
    <3> QED
      BY <1>a, <2>1, <2>4, <3>1
  <2>5. CASE s \in Clients /\ Handshake(s)
    <3>1. "controller" \in PluginCapabilities(link[s])
      BY DEF PluginCapabilities
    <3>2. Restarts(s) \/ ("controller" \in Services(link[s]) /\ Becomes(s, "served"))
      BY <2>5, <3>1 DEF Handshake, ControllerCapabilities
    <3>3. CASE "controller" \in Services(link[s]) /\ Becomes(s, "served")
      BY <2>4, <2>5, <3>3 DEF Handshake, Services
    <3> QED
      BY <2>3, <3>2, <3>3
  <2>6. CASE s = Registrar /\ Register
    BY <1>a, <2>3, <2>4, <2>6 DEF Register
  <2> QED
    BY <1>3, <2>2, <2>5, <2>6 DEF Sidecar
<1> QED
  BY <1>1, <1>2, <1>3 DEF HostNext

LEMMA InvInductive == HostSpec => []Inv
BY InitInv, InvStep, PTL DEF HostSpec

-----------------------------------------------------------------------------
(* Every state of the host has its type: the WaitGroup of a process is never *)
(* negative, for one.                                                        *)
THEOREM HostTyped == HostSpec => []HostTypeOK
BY InvInductive, PTL DEF Inv

(* A sidecar of the controller that works stays with a process that has the  *)
(* controller service, though processes end, start again and take the socket *)
(* from each other.                                                          *)
THEOREM SidecarsAreServed == HostSpec => []ServedByController
BY InvInductive, PTL DEF Inv
=============================================================================
