--------------------------- MODULE DetectorProofs ---------------------------
(***************************************************************************)
(* What is proved of Detector for any number of callers, snapshots, checks *)
(* and documents.                                                          *)
(*                                                                         *)
(* A step of the Detector is a step of the Inspector or leaves it alone,   *)
(* so all that InspectorProofs shows holds here.  On top of it: from the   *)
(* moment Detect has a document, that document is the one in the memory    *)
(* cache, where nobody overwrites it; so a check finds it at the first     *)
(* look and cannot fail.                                                   *)
(***************************************************************************)
EXTENDS Detector, InspectorProofs

Domains ==
    /\ phase         \in [Callers -> Phases]
    /\ snapshot      \in [Callers -> Slots \cup {Nil}]
    /\ DOMAIN checksToRun   = Callers
    /\ DOMAIN inspectorData = Callers
    /\ DOMAIN results       = Callers
    /\ DOMAIN allConcerns   = Callers
    /\ allPassed     \in [Callers -> BOOLEAN]
    /\ DOMAIN failure       = Callers

\* A caller is inside the inspector only in two phases, on behalf of the
\* snapshot Detect was called for.
PlaceInv ==
    \A c \in Callers :
        /\ phase[c] \notin {"data", "check"} => pc[c] = "idle"
        /\ phase[c] \in {"data", "check"} => slot[c] = snapshot[c]
        /\ phase[c] \in {"diskInfo", "data", "checks", "check"}
              => snapshot[c] \in Slots
        /\ phase[c] \in {"idle", "local"} => snapshot[c] = Nil

\* From its first answer on Detect holds the document in the memory cache,
\* and so does a check.
DataInv ==
    \A c \in Callers :
        /\ phase[c] \in {"checks", "check", "reported"} /\ snapshot[c] # Nil
              => /\ inspectorData[c] \in Documents(snapshot[c])
                 /\ inspectorData[c] = memoryCache[snapshot[c]]
        /\ phase[c] = "check" =>
              /\ pc[c] \in {"lookup", "returned"}
              /\ Head(checksToRun[c]) \in KnownTypes
              /\ pc[c] = "returned" => result[c] = inspectorData[c]

\* What the loop over the checks keeps.
CountInv ==
    \A c \in Callers : allPassed[c] <=> allConcerns[c] = {}

DInv == Domains /\ PlaceInv /\ DataInv /\ CountInv

----------------------------------------------------------------------------
(* The Detector is an Inspector with callers that know what they do. *)

\* Every step of the Detector is a step of the Inspector, or none.
LEMMA DetectorSteps == PlaceInv /\ [DetectNext]_allVars => [Next]_vars
<1> SUFFICES ASSUME PlaceInv, DetectNext PROVE [Next]_vars
  BY DEF allVars
<1> USE DEF inspectVars
<1>1. CASE DetectorRestart
  BY <1>1 DEF DetectorRestart, Next
<1>2. ASSUME NEW c \in Callers, NEW s \in Slots, NEW request \in Requests,
             DetectStart(c, s, request)
      PROVE  UNCHANGED vars
  BY <1>2 DEF DetectStart
<1>3. ASSUME NEW c \in Callers, LocalStart(c) PROVE UNCHANGED vars
  BY <1>3 DEF LocalStart
<1>4. ASSUME NEW c \in Callers, Forget(c) PROVE [Next]_vars
  BY <1>4 DEF Forget, Next
<1>5. ASSUME NEW c \in Callers, DetectCancel(c) PROVE Next
  BY <1>5 DEF DetectCancel, Next
<1>6. ASSUME NEW c \in Callers, DetectStep(c) PROVE [Next]_vars
  <2>1. CASE DiskInfoFails(c) \/ SkipCheck(c) \/ Report(c) \/ LocalFails(c)
                \/ LocalOk(c)
    BY <2>1 DEF DiskInfoFails, SkipCheck, Report, LocalFails, LocalOk
  <2>2. CASE DiskInfoOk(c)
    <3>1. snapshot[c] \in Slots /\ Invoke(c, snapshot[c])
      BY <2>2 DEF DiskInfoOk, Phase, PlaceInv
    <3> QED
      BY <3>1 DEF Next
  <2>3. CASE DataFails(c) \/ DataOk(c) \/ FinishCheck(c)
    BY <2>3 DEF DataFails, DataOk, FinishCheck, Next
  <2>4. CASE StartCheck(c)
    <3>1. snapshot[c] \in Slots /\ Invoke(c, snapshot[c])
      BY <2>4 DEF StartCheck, Phase, PlaceInv
    <3> QED
      BY <3>1 DEF Next
  <2>5. CASE Step(c)
    BY <2>5 DEF Next
  <2> QED
    BY <1>6, <2>1, <2>2, <2>3, <2>4, <2>5 DEF DetectStep
<1> QED
  BY <1>1, <1>2, <1>3, <1>4, <1>5, <1>6 DEF DetectNext

----------------------------------------------------------------------------
(* The invariant of the Detector. *)

\* What the steps of the inspector itself do to the callers: one of them moves
\* from inside to inside, and a caller at rest is not concerned.
LEMMA InnerStep ==
    ASSUME IInv, NEW c \in Callers, Step(c)
    PROVE  /\ pc[c] \notin {"idle", "returned"} /\ pc'[c] # "idle"
           /\ \A d \in Callers \ {c} : /\ pc'[d] = pc[d]
                                     /\ result'[d] = result[d]
           /\ slot' = slot
           /\ restarts' = restarts
           /\ pc[c] = "lookup" /\ memoryCache[slot[c]] # Nil
                 => /\ pc'[c] = "returned"
                    /\ result'[c] = memoryCache[slot[c]]
BY DEF IInv, TypeOK, Step, LookupHit, LookupMiss, Lead, Join, Wake, RecheckHit,
       RecheckMiss, DBGetHit, DBGetMiss, FillFromDB, StoreMemory, SetMemory,
       InspectBegin, InspectRefused, InspectOk, InspectErr, InspectPanic,
       DBSetOk, DBSetFail, Publish, Remove, Goto, Return

\* Every variable of the Detector is a function of the callers.
LEMMA StepDomains ==
    ASSUME IInv, DInv, [DetectNext]_allVars
    PROVE  Domains'
<1> USE DEF DInv, Domains, Phases
<1>1. ASSUME NEW c \in Callers, NEW s \in Slots, NEW request \in Requests,
             DetectStart(c, s, request)
      PROVE  Domains'
  BY <1>1 DEF DetectStart, Phase, reportVars
<1>2. ASSUME NEW c \in Callers,
             DiskInfoFails(c) \/ DiskInfoOk(c) \/ DataFails(c) \/ DataOk(c)
      PROVE  Domains'
  BY <1>2
     DEF DiskInfoFails, DiskInfoOk, DataFails, DataOk, Phase, reportVars
<1>3. ASSUME NEW c \in Callers,
             SkipCheck(c) \/ StartCheck(c) \/ Report(c) \/ LocalStart(c)
                \/ LocalFails(c)
      PROVE  Domains'
  BY <1>3
     DEF SkipCheck, StartCheck, Report, LocalStart, LocalFails, Phase,
         reportVars
<1>4. ASSUME NEW c \in Callers, FinishCheck(c) PROVE Domains'
  <2>1. RunCheck(Head(checksToRun[c]), result[c]).passed \in BOOLEAN
    BY DEF RunCheck, FstabCheck, DiskAccessCheck, ValidateMigrateableFstab,
           CheckResult
  <2> QED
    BY <1>4, <2>1 DEF FinishCheck, Phase
<1>5. ASSUME NEW c \in Callers, LocalOk(c) PROVE Domains'
  BY <1>5 DEF LocalOk, Phase, ValidateMigrateableFstab, CheckResult
<1>6. ASSUME NEW c \in Callers, Forget(c) PROVE Domains'
  BY <1>6 DEF Forget
<1>7. ASSUME NEW c \in Callers, DetectCancel(c) PROVE Domains'
  BY <1>7 DEF DetectCancel, detectVars, reportVars
<1>8. ASSUME NEW c \in Callers, Step(c), UNCHANGED detectVars PROVE Domains'
  BY <1>8 DEF detectVars, reportVars
<1>9. CASE DetectorRestart
  BY <1>9 DEF DetectorRestart, ClearReports
<1>10. CASE UNCHANGED allVars
  BY <1>10 DEF allVars, detectVars, reportVars
<1> QED
  BY <1>1, <1>2, <1>3, <1>4, <1>5, <1>6, <1>7, <1>8, <1>9, <1>10
     DEF DetectNext, DetectStep

\* Where a caller is in Detect and where it is in the inspector go together.
LEMMA StepPlace ==
    ASSUME IInv, DInv, [DetectNext]_allVars
    PROVE  PlaceInv'
<1> USE NilAssumption DEF DInv, Domains, PlaceInv, IInv, TypeOK, Phase
<1>1. ASSUME NEW c \in Callers, NEW s \in Slots, NEW request \in Requests,
             DetectStart(c, s, request)
      PROVE  PlaceInv'
  BY <1>1 DEF DetectStart, inspectVars, vars
<1>2. ASSUME NEW c \in Callers, DiskInfoOk(c) \/ StartCheck(c)
      PROVE  PlaceInv'
  BY <1>2 DEF DiskInfoOk, StartCheck, Invoke, Goto
<1>3. ASSUME NEW c \in Callers, DataFails(c) \/ DataOk(c) \/ FinishCheck(c)
      PROVE  PlaceInv'
  BY <1>3 DEF DataFails, DataOk, FinishCheck, Consume, Goto
<1>4. ASSUME NEW c \in Callers,
             DiskInfoFails(c) \/ SkipCheck(c) \/ Report(c) \/ LocalStart(c)
                \/ LocalFails(c) \/ LocalOk(c)
      PROVE  PlaceInv'
  <2>1. UNCHANGED <<pc, slot, snapshot>>
    BY <1>4
       DEF DiskInfoFails, SkipCheck, Report, LocalStart, LocalFails, LocalOk,
           inspectVars, vars
  <2>2. CASE LocalStart(c)
    BY <2>1, <2>2 DEF LocalStart
  <2>3. CASE DiskInfoFails(c) \/ LocalFails(c)
    BY <2>1, <2>3 DEF DiskInfoFails, LocalFails
  <2>4. CASE SkipCheck(c)
    BY <2>1, <2>4 DEF SkipCheck
  <2>5. CASE Report(c) \/ LocalOk(c)
    BY <2>1, <2>5, ZenonT(30) DEF Report, LocalOk
  <2> QED
    BY <1>4, <2>2, <2>3, <2>4, <2>5
<1>5. ASSUME NEW c \in Callers, Forget(c) PROVE PlaceInv'
  BY <1>5 DEF Forget, NewContext, inspectVars, vars
<1>6. ASSUME NEW c \in Callers, DetectCancel(c) PROVE PlaceInv'
  BY <1>6 DEF DetectCancel, CancelContext, detectVars
<1>7. ASSUME NEW c \in Callers, Step(c), UNCHANGED detectVars PROVE PlaceInv'
  BY <1>7, InnerStep DEF detectVars
<1>8. CASE DetectorRestart
  BY <1>8 DEF DetectorRestart, ClearReports, Restart
<1>9. CASE UNCHANGED allVars
  BY <1>9 DEF allVars, vars, detectVars
<1> QED
  BY <1>1, <1>2, <1>3, <1>4, <1>5, <1>6, <1>7, <1>8, <1>9
     DEF DetectNext, DetectStep

\* The document in hand stays the one in the memory cache.
LEMMA StepData ==
    ASSUME IInv, DInv, [DetectNext]_allVars
    PROVE  DataInv'
<1> USE NilAssumption DEF DInv, Domains, PlaceInv, DataInv, IInv, TypeOK, Phase
<1>1. ASSUME NEW c \in Callers, NEW s \in Slots, NEW request \in Requests,
             DetectStart(c, s, request)
      PROVE  DataInv'
  BY <1>1 DEF DetectStart, inspectVars, vars, reportVars
<1>2. ASSUME NEW c \in Callers, DiskInfoOk(c) \/ StartCheck(c)
      PROVE  DataInv'
  BY <1>2 DEF DiskInfoOk, StartCheck, Invoke, Goto, reportVars
<1>3. ASSUME NEW c \in Callers, DataOk(c) PROVE DataInv'
  <2>1. /\ result[c] \in Documents(snapshot[c])
        /\ result[c] = memoryCache[snapshot[c]]
    BY <1>3 DEF DataOk, Consume, Goto, ResultInv, Tellable
  <2> QED
    BY <1>3, <2>1 DEF DataOk, Consume, Goto
<1>4. ASSUME NEW c \in Callers, DataFails(c) \/ FinishCheck(c)
      PROVE  DataInv'
  BY <1>4 DEF DataFails, FinishCheck, Consume, Goto, reportVars
<1>5. ASSUME NEW c \in Callers,
             DiskInfoFails(c) \/ SkipCheck(c) \/ Report(c) \/ LocalStart(c)
                \/ LocalFails(c)
      PROVE  DataInv'
  BY <1>5
     DEF DiskInfoFails, SkipCheck, Report, LocalStart, LocalFails,
         inspectVars, vars, reportVars
<1>6. ASSUME NEW c \in Callers, Forget(c) PROVE DataInv'
  BY <1>6 DEF Forget, NewContext, inspectVars, vars
<1>7. ASSUME NEW c \in Callers, DetectCancel(c) PROVE DataInv'
  BY <1>7 DEF DetectCancel, CancelContext, detectVars, reportVars
<1>8. ASSUME NEW c \in Callers, Step(c), UNCHANGED detectVars PROVE DataInv'
  <2>1. \A s \in Slots : memoryCache[s] # Nil => memoryCache'[s] = memoryCache[s]
    BY <1>8, InnerStep, StepWriteOnce DEF Next
  <2>2. \A s \in Slots : Nil \notin Documents(s)
    BY DEF Documents, AllDocuments, Results
  <2> QED
    BY <1>8, <2>1, <2>2, InnerStep DEF detectVars, reportVars
<1>9. CASE DetectorRestart
  BY <1>9 DEF DetectorRestart, ClearReports, Restart
<1>10. CASE UNCHANGED allVars
  BY <1>10 DEF allVars, vars, detectVars, reportVars
<1>11. ASSUME NEW c \in Callers, LocalOk(c) PROVE DataInv'
  <2>1. /\ snapshot' = snapshot /\ snapshot[c] = Nil
        /\ phase' = [phase EXCEPT ![c] = "reported"]
        /\ \A d \in Callers \ {c} : inspectorData'[d] = inspectorData[d]
        /\ UNCHANGED <<memoryCache, pc, result, checksToRun>>
    BY <1>11 DEF LocalOk, inspectVars, vars
  <2> QED
    BY <2>1
<1> QED
  BY <1>1, <1>2, <1>3, <1>4, <1>5, <1>6, <1>7, <1>8, <1>9, <1>10, <1>11
     DEF DetectNext, DetectStep

\* A check that finds a document passes exactly if it has no concern.
LEMMA CheckCounts ==
    ASSUME NEW type \in KnownTypes, NEW r, r \notin Errors
    PROVE  LET check == RunCheck(type, r) IN
           check.passed <=> check.concerns = {}
<1>1. Encrypted \in Errors
  BY DetectorAssumption
<1> QED
  BY <1>1
     DEF RunCheck, FstabCheck, DiskAccessCheck, ValidateMigrateableFstab,
         CheckResult, KnownTypes

\* The concerns of one check, as the report lists them.
Tagged(tag, concerns) == {<<tag, k>> : k \in concerns}

\* Concerns are there whether they are tagged with a check or not.
LEMMA TaggedEmpty ==
    ASSUME NEW tag, NEW concerns
    PROVE  Tagged(tag, concerns) = {} <=> concerns = {}
<1> USE DEF Tagged
<1>1. CASE concerns = {}
  BY <1>1
<1>2. CASE concerns # {}
  <2>1. PICK k \in concerns : TRUE
    BY <1>2
  <2>2. <<tag, k>> \in Tagged(tag, concerns)
    OBVIOUS
  <2> QED
    BY <1>2, <2>2
<1> QED
  BY <1>1, <1>2

\* The loop over the checks keeps its count.
LEMMA StepCount ==
    ASSUME IInv, DInv, [DetectNext]_allVars
    PROVE  CountInv'
<1> USE DEF DInv, Domains, CountInv
<1>1. ASSUME NEW c \in Callers, FinishCheck(c) PROVE CountInv'
  <2> DEFINE r == RunCheck(Head(checksToRun[c]), result[c])
  <2>1. r.passed <=> r.concerns = {}
    <3>1. /\ Head(checksToRun[c]) \in KnownTypes
          /\ result[c] = inspectorData[c]
          /\ snapshot[c] \in Slots
      BY <1>1 DEF FinishCheck, Consume, Goto, Phase, DataInv, PlaceInv
    <3>2. inspectorData[c] \in AllDocuments
      BY <1>1, <3>1, NilAssumption
         DEF FinishCheck, Phase, DataInv, Documents, AllDocuments
    <3> QED
      BY <3>1, <3>2, CheckCounts, NilAssumption
  <2> HIDE DEF r
  <2>2. /\ allPassed' = [allPassed EXCEPT ![c] = allPassed[c] /\ r.passed]
        /\ allConcerns' = [allConcerns EXCEPT ![c] =
               allConcerns[c] \cup Tagged(r.type, r.concerns)]
    BY <1>1 DEF FinishCheck, r, Tagged
  <2>3. Tagged(r.type, r.concerns) = {} <=> r.concerns = {}
    BY TaggedEmpty
  <2> SUFFICES ASSUME NEW d \in Callers
               PROVE  allPassed'[d] <=> allConcerns'[d] = {}
    OBVIOUS
  <2>4. CASE d = c
    <3>1. allPassed'[c] <=> allPassed[c] /\ r.passed
      BY <2>2
    <3>2. allConcerns'[c] = {} <=> allConcerns[c] = {} /\ r.concerns = {}
      BY <2>2, <2>3
    <3> QED
      BY <2>1, <2>4, <3>1, <3>2
  <2>5. CASE d # c
    BY <2>2, <2>5
  <2> QED
    BY <2>4, <2>5
<1>2. ASSUME NEW c \in Callers, LocalOk(c) PROVE CountInv'
  <2>1. PICK doc \in AllDocuments :
           /\ allConcerns' = [allConcerns EXCEPT ![c] =
                 Tagged("fstab", ByPathConcerns(doc))]
           /\ allPassed' = [allPassed EXCEPT ![c] = (ByPathConcerns(doc) = {})]
    BY <1>2 DEF LocalOk, ValidateMigrateableFstab, CheckResult, Tagged
  <2>2. Tagged("fstab", ByPathConcerns(doc)) = {} <=> ByPathConcerns(doc) = {}
    BY TaggedEmpty
  <2> SUFFICES ASSUME NEW d \in Callers
               PROVE  allPassed'[d] <=> allConcerns'[d] = {}
    OBVIOUS
  <2>3. CASE d = c
    <3>1. allPassed'[c] <=> ByPathConcerns(doc) = {}
      BY <2>1
    <3>2. allConcerns'[c] = Tagged("fstab", ByPathConcerns(doc))
      BY <2>1
    <3> QED
      BY <2>2, <2>3, <3>1, <3>2
  <2>4. CASE d # c
    BY <2>1, <2>4
  <2> QED
    BY <2>3, <2>4
<1>3. ASSUME NEW c \in Callers, Forget(c) PROVE CountInv'
  BY <1>3 DEF Forget
<1>4. CASE DetectorRestart
  BY <1>4 DEF DetectorRestart, ClearReports
<1>5. CASE UNCHANGED <<allPassed, allConcerns>>
  BY <1>5
<1> QED
  BY <1>1, <1>2, <1>3, <1>4, <1>5
     DEF DetectNext, DetectStep, DetectStart, DiskInfoFails, DiskInfoOk,
         DataFails, DataOk, SkipCheck, StartCheck, Report, LocalStart,
         LocalFails, DetectCancel, allVars, detectVars, reportVars

----------------------------------------------------------------------------
(* The theorems. *)

\* The invariants of the inspector and of the Detector hold together.
THEOREM DetectInvariance == DetectSpec => [](IInv /\ DInv)
<1>1. DetectInit => IInv
  BY InitIInv DEF DetectInit
<1>2. DetectInit => DInv
  BY DEF DetectInit, Init, DInv, Domains, Phases, PlaceInv, DataInv, CountInv
<1>3. ASSUME IInv, DInv, [DetectNext]_allVars
      PROVE  (IInv /\ DInv)'
  <2>1. IInv'
    BY <1>3, DetectorSteps, StepIInv DEF DInv
  <2>2. DInv'
    BY <1>3, StepDomains, StepPlace, StepData, StepCount DEF DInv
  <2> QED
    BY <2>1, <2>2
<1> QED
  BY <1>1, <1>2, <1>3, PTL DEF DetectSpec

\* A Detector uses its inspector as Inspector says, so that all its theorems
\* hold below a Detector.
THEOREM DetectorIsInspector == DetectSpec => Spec
<1>1. DetectInit => Init
  BY DEF DetectInit
<1>2. DInv /\ [DetectNext]_allVars => [Next]_vars
  BY DetectorSteps DEF DInv
<1> QED
  BY <1>1, <1>2, DetectInvariance, PTL DEF DetectSpec, Spec

\* A report passes exactly if it lists no concern.
THEOREM PassedMeansNoConcerns == DetectSpec => []PassedIffNoConcerns
<1>1. DInv => PassedIffNoConcerns
  BY DEF DInv, CountInv, PassedIffNoConcerns
<1> QED
  BY <1>1, DetectInvariance, PTL

\* The checks are answered by the memory cache.
THEOREM ChecksAnsweredByMemory == DetectSpec => []ChecksHitMemory
<1>1. DInv => ChecksHitMemory
  BY DEF DInv, DataInv, ChecksHitMemory
<1> QED
  BY <1>1, DetectInvariance, PTL

\* Two reports on one snapshot are about one document.
THEOREM OneDocumentPerSnapshot == DetectSpec => []ReportsAgree
<1>1. DInv => ReportsAgree
  BY DEF DInv, DataInv, ReportsAgree
<1> QED
  BY <1>1, DetectInvariance, PTL

----------------------------------------------------------------------------
(* What the results say. *)

\* The results there can be of checks that are told this document.
Judged(doc) == {RunCheck(type, doc) : type \in KnownTypes}

\* Results are made of the document Detect holds, and are there only once it
\* holds one; a check that runs is the first of those still to be run.
ResultsInv ==
    \A c \in Callers :
        /\ IF phase[c] \in {"checks", "check", "reported"}
           THEN /\ inspectorData[c] \in AllDocuments
                /\ results[c] \in Seq(Judged(inspectorData[c]))
           ELSE results[c] = <<>>
        /\ phase[c] = "check" => checksToRun[c] # <<>>

\* A sequence of two.
LEMMA PairIsSeq ==
    ASSUME NEW S, NEW a \in S, NEW b \in S
    PROVE  <<a, b>> \in Seq(S)
OBVIOUS

\* Every by-path device of a document is a concern, at its position.
LEMMA ByPathPositions ==
    ASSUME NEW doc \in AllDocuments
    PROVE  /\ ByPathConcerns(doc) \subseteq Positions
           /\ ByPathConcerns(doc) = {} <=>
                \A o \in DOMAIN Mountpoints[doc.rev] :
                    \A m \in DOMAIN Mountpoints[doc.rev][o] :
                        ~Mountpoints[doc.rev][o][m]
<1> DEFINE oses == Mountpoints[doc.rev]
           InOS(o) == {<<o, m>> : m \in {n \in DOMAIN oses[o] : oses[o][n]}}
<1>1. ByPathConcerns(doc) = UNION {InOS(o) : o \in DOMAIN oses}
  BY DEF ByPathConcerns
<1>2. doc.rev \in Revs
  BY DEF AllDocuments
<1>3. ASSUME NEW k \in ByPathConcerns(doc)
      PROVE  /\ k \in Positions
             /\ \E o \in DOMAIN oses : \E m \in DOMAIN oses[o] : oses[o][m]
  <2>1. PICK o \in DOMAIN oses : k \in InOS(o)
    BY <1>1, <1>3
  <2>2. PICK m \in DOMAIN oses[o] : oses[o][m] /\ k = <<o, m>>
    BY <2>1
  <2> DEFINE OfOS(r, p) == {<<p, q>> : q \in DOMAIN Mountpoints[r][p]}
             OfRev(r) == UNION {OfOS(r, p) : p \in DOMAIN Mountpoints[r]}
  <2>3. k \in OfOS(doc.rev, o)
    BY <2>2
  <2>4. k \in OfRev(doc.rev)
    BY <2>3
  <2>5. Positions = UNION {OfRev(r) : r \in Revs}
    BY DEF Positions
  <2> HIDE DEF OfRev
  <2> QED
    BY <1>2, <2>2, <2>4, <2>5
<1>4. ASSUME NEW o \in DOMAIN oses, NEW m \in DOMAIN oses[o], oses[o][m]
      PROVE  ByPathConcerns(doc) # {}
  <2>1. <<o, m>> \in InOS(o)
    BY <1>4
  <2> HIDE DEF InOS
  <2> QED
    BY <1>1, <2>1
<1> QED
  BY <1>3, <1>4

\* What a check says of a document.
LEMMA JudgedDocuments ==
    ASSUME NEW doc \in AllDocuments, NEW r \in Judged(doc)
    PROVE  /\ r \in ResultType
           /\ r.concerns \subseteq Positions
           /\ r.error = Nil
           /\ r.type = "fstab" =>
                (r.passed <=> \A o \in DOMAIN Mountpoints[doc.rev] :
                                  \A m \in DOMAIN Mountpoints[doc.rev][o] :
                                      ~Mountpoints[doc.rev][o][m])
<1>1. doc \notin Errors /\ doc # Encrypted
  BY NilAssumption, DetectorAssumption
<1>2. PICK type \in KnownTypes : r = RunCheck(type, doc)
  BY DEF Judged
<1>3. CASE type = "fstab"
  <2>1. r = CheckResult("fstab", ByPathConcerns(doc) = {}, ByPathConcerns(doc), Nil)
    BY <1>1, <1>2, <1>3 DEF RunCheck, FstabCheck, ValidateMigrateableFstab
  <2> QED
    BY <2>1, ByPathPositions DEF CheckResult, ResultType, KnownTypes
<1>4. CASE type = "disk-access"
  <2>1. r = CheckResult("disk-access", TRUE, {}, Nil)
    BY <1>1, <1>2, <1>4 DEF RunCheck, DiskAccessCheck
  <2> QED
    BY <2>1 DEF CheckResult, ResultType, KnownTypes
<1> QED
  BY <1>3, <1>4 DEF KnownTypes

\* The results of the loop and of DetectLocal.
LEMMA StepResults ==
    ASSUME IInv, DInv, DetectTypeOK, ResultsInv, [DetectNext]_allVars
    PROVE  ResultsInv'
<1> USE DEF ResultsInv, DInv, Domains, DetectTypeOK, Phase
<1>1. ASSUME NEW c \in Callers, NEW s \in Slots, NEW request \in Requests,
             DetectStart(c, s, request)
      PROVE  ResultsInv'
  BY <1>1 DEF DetectStart, reportVars
<1>2. ASSUME NEW c \in Callers,
             DiskInfoFails(c) \/ DiskInfoOk(c) \/ DataFails(c) \/ SkipCheck(c)
                \/ Report(c) \/ LocalStart(c) \/ LocalFails(c)
      PROVE  ResultsInv'
  BY <1>2
     DEF DiskInfoFails, DiskInfoOk, DataFails, SkipCheck, Report, LocalStart,
         LocalFails, reportVars
<1>3. ASSUME NEW c \in Callers, StartCheck(c) PROVE ResultsInv'
  BY <1>3 DEF StartCheck, reportVars
<1>4. ASSUME NEW c \in Callers, DataOk(c) PROVE ResultsInv'
  <2>1. result[c] \in AllDocuments
    BY <1>4, DocumentsTyped
       DEF DataOk, Consume, Goto, PlaceInv, IInv, ResultInv, Tellable
  <2>2. results[c] = <<>> /\ results' = results
    BY <1>4 DEF DataOk
  <2>3. <<>> \in Seq(Judged(result[c]))
    OBVIOUS
  <2>4. /\ phase' = [phase EXCEPT ![c] = "checks"]
        /\ inspectorData' = [inspectorData EXCEPT ![c] = result[c]]
        /\ checksToRun' = checksToRun
    BY <1>4 DEF DataOk
  <2> QED
    BY <2>1, <2>2, <2>3, <2>4
<1>5. ASSUME NEW c \in Callers, FinishCheck(c) PROVE ResultsInv'
  <2> DEFINE r == RunCheck(Head(checksToRun[c]), result[c])
  <2>1. /\ Head(checksToRun[c]) \in KnownTypes
        /\ result[c] = inspectorData[c]
    BY <1>5 DEF FinishCheck, Consume, Goto, DataInv
  <2>2. r \in Judged(inspectorData[c])
    BY <2>1 DEF Judged
  <2> HIDE DEF r
  <2>3. /\ results' = [results EXCEPT ![c] = Append(results[c], r)]
        /\ inspectorData' = inspectorData
        /\ phase' = [phase EXCEPT ![c] = "checks"] /\ phase[c] = "check"
        /\ \A d \in Callers \ {c} : checksToRun'[d] = checksToRun[d]
    BY <1>5 DEF FinishCheck, r
  <2>4. Append(results[c], r) \in Seq(Judged(inspectorData[c]))
    BY <2>2, <2>3
  <2> QED
    BY <2>3, <2>4
<1>6. ASSUME NEW c \in Callers, LocalOk(c) PROVE ResultsInv'
  <2>1. PICK doc \in AllDocuments :
           /\ inspectorData' = [inspectorData EXCEPT ![c] = doc]
           /\ results' = [results EXCEPT ![c] =
                 <<CheckResult("disk-access", TRUE, {}, Nil),
                   ValidateMigrateableFstab(doc)>>]
    BY <1>6 DEF LocalOk
  <2>2. doc \notin Errors /\ doc # Encrypted
    BY NilAssumption, DetectorAssumption
  <2>3. /\ RunCheck("disk-access", doc) = CheckResult("disk-access", TRUE, {}, Nil)
        /\ RunCheck("fstab", doc) = ValidateMigrateableFstab(doc)
    BY <2>2 DEF RunCheck, DiskAccessCheck, FstabCheck
  <2>4. /\ CheckResult("disk-access", TRUE, {}, Nil) \in Judged(doc)
        /\ ValidateMigrateableFstab(doc) \in Judged(doc)
    BY <2>3 DEF Judged, KnownTypes
  <2>5. /\ phase' = [phase EXCEPT ![c] = "reported"]
        /\ checksToRun' = checksToRun
    BY <1>6 DEF LocalOk
  <2>6. <<CheckResult("disk-access", TRUE, {}, Nil),
          ValidateMigrateableFstab(doc)>> \in Seq(Judged(doc))
    BY <2>4, PairIsSeq
  <2> QED
    BY <2>1, <2>5, <2>6
<1>7. ASSUME NEW c \in Callers, Forget(c) PROVE ResultsInv'
  BY <1>7 DEF Forget
<1>8. ASSUME NEW c \in Callers, DetectCancel(c) \/ (Step(c) /\ UNCHANGED detectVars)
      PROVE  ResultsInv'
  BY <1>8 DEF DetectCancel, detectVars, reportVars
<1>9. CASE DetectorRestart
  BY <1>9 DEF DetectorRestart, ClearReports
<1>10. CASE UNCHANGED allVars
  BY <1>10 DEF allVars, detectVars, reportVars
<1> QED
  BY <1>1, <1>2, <1>3, <1>4, <1>5, <1>6, <1>7, <1>8, <1>9, <1>10
     DEF DetectNext, DetectStep

\* The variables of the Detector that do not hold results.
LEMMA StepDetectTyped ==
    ASSUME IInv, DInv, DetectTypeOK, ResultsInv, [DetectNext]_allVars
    PROVE  DetectTypeOK'
<1> DEFINE Typed ==
             /\ checksToRun   \in [Callers -> Seq(CheckTypes)]
             /\ inspectorData \in [Callers -> AllDocuments \cup {Nil}]
             /\ failure       \in [Callers -> Errors \cup {Nil}]
             /\ allConcerns   \in [Callers ->
                    SUBSET (KnownTypes \X (Positions \cup {Encrypted}))]
<1> SUFFICES Typed'
  <2>1. Domains' /\ ResultsInv'
    BY StepDomains, StepResults
  <2>2. ASSUME NEW c \in Callers, NEW i \in DOMAIN results'[c],
               inspectorData' \in [Callers -> AllDocuments \cup {Nil}]
        PROVE  results'[c][i] \in ResultType
    <3>1. /\ inspectorData'[c] \in AllDocuments
          /\ results'[c] \in Seq(Judged(inspectorData'[c]))
      BY <2>1, <2>2 DEF ResultsInv
    <3> QED
      BY <2>2, <3>1, JudgedDocuments
  <2> QED
    BY <2>1, <2>2 DEF DetectTypeOK, Domains
<1> USE DEF DInv, Domains, DetectTypeOK, Phase
<1>1. ASSUME NEW c \in Callers, NEW s \in Slots, NEW request \in Requests,
             DetectStart(c, s, request)
      PROVE  checksToRun' \in [Callers -> Seq(CheckTypes)]
  <2>1. request \in Seq(CheckTypes)
    BY DetectorAssumption
  <2>2. AllCheckTypes \in Seq(CheckTypes)
    BY PairIsSeq DEF AllCheckTypes, CheckTypes, KnownTypes
  <2> QED
    BY <1>1, <2>1, <2>2 DEF DetectStart
<1>2. ASSUME NEW c \in Callers, SkipCheck(c) \/ FinishCheck(c)
      PROVE  checksToRun' \in [Callers -> Seq(CheckTypes)]
  <2>1. checksToRun[c] \in Seq(CheckTypes) /\ checksToRun[c] # <<>>
    BY <1>2 DEF SkipCheck, FinishCheck, ResultsInv
  <2>2. Tail(checksToRun[c]) \in Seq(CheckTypes)
    BY <2>1
  <2> QED
    BY <1>2, <2>2, ZenonT(30) DEF SkipCheck, FinishCheck
<1>3. ASSUME NEW c \in Callers, DataOk(c)
      PROVE  inspectorData' \in [Callers -> AllDocuments \cup {Nil}]
  <2>1. result[c] \in AllDocuments
    BY <1>3, DocumentsTyped
       DEF DataOk, Consume, Goto, PlaceInv, IInv, ResultInv, Tellable
  <2> QED
    BY <1>3, <2>1 DEF DataOk
<1>4. ASSUME NEW c \in Callers, FinishCheck(c)
      PROVE  allConcerns' \in [Callers ->
                 SUBSET (KnownTypes \X (Positions \cup {Encrypted}))]
  <2> DEFINE r == RunCheck(Head(checksToRun[c]), result[c])
  <2>1. /\ Head(checksToRun[c]) \in KnownTypes
        /\ result[c] = inspectorData[c] /\ inspectorData[c] \in AllDocuments
    BY <1>4 DEF FinishCheck, Consume, Goto, DataInv, ResultsInv
  <2>2. r \in Judged(inspectorData[c])
    BY <2>1 DEF Judged
  <2>3. r.type \in KnownTypes /\ r.concerns \subseteq Positions
    BY <2>1, <2>2, JudgedDocuments DEF ResultType
  <2> HIDE DEF r
  <2>4. Tagged(r.type, r.concerns) \subseteq KnownTypes \X (Positions \cup {Encrypted})
    BY <2>3 DEF Tagged
  <2>5. allConcerns' = [allConcerns EXCEPT ![c] =
              allConcerns[c] \cup Tagged(r.type, r.concerns)]
    BY <1>4 DEF FinishCheck, r, Tagged
  <2> QED
    BY <2>4, <2>5
<1>5. ASSUME NEW c \in Callers, LocalOk(c)
      PROVE  /\ inspectorData' \in [Callers -> AllDocuments \cup {Nil}]
             /\ allConcerns' \in [Callers ->
                    SUBSET (KnownTypes \X (Positions \cup {Encrypted}))]
  <2>1. PICK doc \in AllDocuments :
           /\ inspectorData' = [inspectorData EXCEPT ![c] = doc]
           /\ allConcerns' = [allConcerns EXCEPT ![c] =
                 Tagged("fstab", ByPathConcerns(doc))]
    BY <1>5 DEF LocalOk, ValidateMigrateableFstab, CheckResult, Tagged
  <2>2. Tagged("fstab", ByPathConcerns(doc))
            \subseteq KnownTypes \X (Positions \cup {Encrypted})
    BY ByPathPositions DEF Tagged, KnownTypes
  <2> QED
    BY <2>1, <2>2
<1>6. ASSUME NEW c \in Callers, DiskInfoFails(c) \/ DataFails(c) \/ LocalFails(c)
      PROVE  failure' \in [Callers -> Errors \cup {Nil}]
  BY <1>6 DEF DiskInfoFails, DataFails, LocalFails
<1>7. ASSUME NEW c \in Callers, Forget(c) PROVE Typed'
  <2>1. <<>> \in Seq(CheckTypes)
    OBVIOUS
  <2> QED
    BY <1>7, <2>1 DEF Forget
<1>8. CASE DetectorRestart
  BY <1>8 DEF DetectorRestart, ClearReports
<1> QED
  BY <1>1, <1>2, <1>3, <1>4, <1>5, <1>6, <1>7, <1>8, ZenonT(30)
     DEF DetectNext, DetectStep, DetectStart, DiskInfoFails, DiskInfoOk,
         DataFails, DataOk, SkipCheck, StartCheck, FinishCheck, Report,
         LocalStart, LocalFails, LocalOk, DetectCancel, allVars, detectVars,
         reportVars

\* Results are those of the document in hand, in every state of the Detector.
THEOREM ResultsInvariance == DetectSpec => [](DetectTypeOK /\ ResultsInv)
<1>1. DetectInit => DetectTypeOK /\ ResultsInv
  BY DEF DetectInit, DetectTypeOK, ResultsInv, Phases
<1>2. /\ IInv /\ DInv /\ DetectTypeOK /\ ResultsInv
      /\ [DetectNext]_allVars
      => (DetectTypeOK /\ ResultsInv)'
  BY StepResults, StepDetectTyped
<1> QED
  BY <1>1, <1>2, DetectInvariance, PTL DEF DetectSpec

\* Every variable of the Detector stays in its type.
THEOREM DetectTypeCorrect == DetectSpec => []DetectTypeOK
BY ResultsInvariance, PTL

\* The checks judge the document the report shows, and none of them fails.
THEOREM ReportedDocumentJudged == DetectSpec => []ChecksJudgeReportedDocument
<1>1. ResultsInv => ChecksJudgeReportedDocument
  <2> SUFFICES ASSUME ResultsInv, NEW c \in Callers, NEW i \in DOMAIN results[c]
               PROVE  LET r == results[c][i]
                          oses == Mountpoints[inspectorData[c].rev] IN
                      /\ r.error = Nil
                      /\ r.type = "fstab" =>
                           (r.passed <=> \A o \in DOMAIN oses :
                                \A m \in DOMAIN oses[o] : ~oses[o][m])
    BY DEF ChecksJudgeReportedDocument
  <2>1. /\ inspectorData[c] \in AllDocuments
        /\ results[c] \in Seq(Judged(inspectorData[c]))
    BY DEF ResultsInv
  <2>2. results[c][i] \in Judged(inspectorData[c])
    BY <2>1
  <2> QED
    BY <2>1, <2>2, JudgedDocuments
<1> QED
  BY <1>1, ResultsInvariance, PTL
=============================================================================
