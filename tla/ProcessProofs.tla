--------------------------- MODULE ProcessProofs ---------------------------
(***************************************************************************)
(* The process is its two parts side by side: what EnginesProofs and       *)
(* NBDProofs prove of each of them holds of the process.                   *)
(***************************************************************************)
EXTENDS Process, EnginesProofs, NBDProofs

\* A step of one part is no step of the other.
LEMMA PartsStep ==
    ASSUME [Next]_vars
    PROVE  [EnginesNext]_enginesVars /\ [NBDNext]_nbdVars
<1>1. CASE MakeDetector
  BY <1>1 DEF MakeDetector, EnginesNext
<1>2. CASE BeginInspection
  BY <1>2 DEF BeginInspection, EnginesNext
<1>3. CASE Inspecting
  BY <1>3 DEF Inspecting, EnginesNext
<1>4. CASE BeginDetectNBD
  BY <1>4 DEF BeginDetectNBD, NBDNext
<1>5. CASE Detecting
  BY <1>5 DEF Detecting, NBDNext
<1>6. CASE UNCHANGED vars
  BY <1>6 DEF vars
<1> QED
  BY <1>1, <1>2, <1>3, <1>4, <1>5, <1>6 DEF Next

\* A process that embeds the library is calls of the engines, as VddkEngines
\* has them, ...
THEOREM ProcessIsEngines == Spec => EnginesSpec
<1>1. Init => EnginesInit
  BY DEF Init
<1>2. [Next]_vars => [EnginesNext]_enginesVars
  BY PartsStep
<1> QED
  BY <1>1, <1>2, PTL DEF Spec, EnginesSpec

\* ... and calls of DetectNBD, as NBDProxies has them, whatever the Detectors
\* are made from meanwhile.
THEOREM ProcessIsNBD == Spec => NBDSpec
<1>1. Init => NBDInit
  BY DEF Init
<1>2. [Next]_vars => [NBDNext]_nbdVars
  BY PartsStep
<1> QED
  BY <1>1, <1>2, PTL DEF Spec, NBDSpec

\* Every variable of the process stays in its type.
THEOREM TypeCorrect == Spec => []TypeOK
<1>1. EnginesTypeOK /\ NBDTypeOK => TypeOK
  BY DEF TypeOK
<1> QED
  BY <1>1, ProcessIsEngines, ProcessIsNBD, EnginesTypeCorrect, NBDTypeCorrect, PTL

\* What its calls through VDDK can rely on, while other Detectors are made and
\* a DetectNBD is under way.
THEOREM EnginesInProcess ==
    Spec => [](/\ LibDirSetSinceOwner /\ VerifiedAsConfigured
               /\ NamedAfterItsCause /\ DocumentFound /\ PasswordFileScoped)
BY ProcessIsEngines, LibDirSinceOwner, ServerVerified, Named, V2VDocumentFound,
   PasswordScoped, PTL

\* What its calls of DetectNBD can rely on, while disks are read through VDDK:
\* all of that module's, and each of them is a scope of its proxies.
THEOREM NBDInProcess ==
    Spec => /\ [](NoProxyLeft /\ InspectorGetsEveryURL /\ LocalDocument)
            /\ NBDImplementsScope
BY ProcessIsNBD, ProxiesGone, EveryURLGiven, LocalDocumentFound, NBDRefinesScope,
   PTL
=============================================================================
