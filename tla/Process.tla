------------------------------ MODULE Process ------------------------------
(***************************************************************************)
(* The process that embeds the library: Detectors for vCenters and for     *)
(* local disks are made (pkg/vmdetect/runner.go) while calls of others are *)
(* under way, those that read disks through VDDK (VddkEngines) and a       *)
(* DetectNBD (NBDProxies), which needs a Detector of either kind and       *)
(* nothing that it was given.                                              *)
(***************************************************************************)
EXTENDS VddkEngines, NBDProxies

CONSTANT MaxInFlight    \* bound: calls not yet taken at a time

ASSUME MaxInFlightAssumption == MaxInFlight \in Nat \ {0}

vars == <<enginesVars, nbdVars>>

InFlight == {c \in Calls : call[c].pc # "idle"}
            \cup (IF pc = "idle" THEN {} ELSE {"nbd"})

HasRoom == Cardinality(InFlight) < MaxInFlight

Init == EnginesInit /\ NBDInit

MakeDetector == Construct /\ UNCHANGED nbdVars

BeginInspection == HasRoom /\ CallBegins /\ UNCHANGED nbdVars

Inspecting == CallGoesOn /\ UNCHANGED nbdVars

BeginDetectNBD ==
    /\ HasRoom
    /\ \E d \in Detectors : made[d] = "yes"
    /\ DetectNBD
    /\ UNCHANGED enginesVars

Detecting == NBDGoesOn /\ UNCHANGED enginesVars

Next ==
    \/ MakeDetector
    \/ BeginInspection \/ Inspecting
    \/ BeginDetectNBD \/ Detecting

Spec == Init /\ [][Next]_vars

\* Callers are not obliged to make Detectors or to call.
FairSpec == Spec /\ EnginesFairness /\ NBDFairness

----------------------------------------------------------------------------

\* Every variable of the process has its type.
TypeOK == EnginesTypeOK /\ NBDTypeOK
=============================================================================
