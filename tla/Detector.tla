------------------------------ MODULE Detector ------------------------------
(***************************************************************************)
(* vmdetect.Detector (pkg/vmdetect/runner.go) on top of the Inspector: a   *)
(* caller runs Detect, which asks the inspector for a document, lets each  *)
(* check ask the inspector again, and puts a report together; or           *)
(* DetectLocal, which runs the engine once, past caches and deduplication. *)
(*                                                                         *)
(* Detect uses one engine only, so a slot is a snapshot here.  Arguments   *)
(* are valid: one that is missing is refused before anything is done.      *)
(*                                                                         *)
(* A definition named Bug... is the definition after it with one mistake a *)
(* change of the code could make; it is not part of the specification.     *)
(***************************************************************************)
EXTENDS Inspector, Sequences

CONSTANTS
    Requests,       \* the checkTypes callers pass
    Mountpoints,    \* what a document lists: [Revs -> Seq(Seq(BOOLEAN))], for
                    \* each OS and mountpoint: is the device a by-path one
    Encrypted       \* the error the engine reports an encrypted disk with

AllCheckTypes == <<"fstab", "disk-access">>
KnownTypes    == {"fstab", "disk-access"}

\* Those and the ones a caller makes up.
CheckTypes == KnownTypes \cup
              UNION {{request[i] : i \in DOMAIN request} : request \in Requests}

ASSUME DetectorAssumption ==
    /\ Encrypted \in Errors \ {Cancelled}
    /\ DOMAIN Mountpoints = Revs
    /\ Requests \subseteq Seq(CheckTypes)

VARIABLES
    phase,          \* where a caller is in Detect or DetectLocal
    snapshot,       \* the snapshot Detect was called for
    checksToRun,    \* the check types still to be run
    inspectorData,  \* the document Detect has been given
    results,
    allConcerns,    \* pairs of a check type and a concern
    allPassed,
    failure         \* the error Detect returns

reportVars  == <<inspectorData, results, allConcerns, allPassed>>
detectVars  == <<phase, snapshot, checksToRun, reportVars, failure>>
inspectVars == vars
allVars     == <<vars, detectVars>>

Phases == {"idle", "diskInfo", "data", "checks", "check", "local", "reported",
           "failed"}

ClearReports ==
    /\ phase'         = [c \in Callers |-> "idle"]
    /\ snapshot'      = [c \in Callers |-> Nil]
    /\ checksToRun'   = [c \in Callers |-> <<>>]
    /\ inspectorData' = [c \in Callers |-> Nil]
    /\ results'       = [c \in Callers |-> <<>>]
    /\ allConcerns'   = [c \in Callers |-> {}]
    /\ allPassed'     = [c \in Callers |-> TRUE]
    /\ failure'       = [c \in Callers |-> Nil]

DetectInit ==
    /\ Init
    /\ phase         = [c \in Callers |-> "idle"]
    /\ snapshot      = [c \in Callers |-> Nil]
    /\ checksToRun   = [c \in Callers |-> <<>>]
    /\ inspectorData = [c \in Callers |-> Nil]
    /\ results       = [c \in Callers |-> <<>>]
    /\ allConcerns   = [c \in Callers |-> {}]
    /\ allPassed     = [c \in Callers |-> TRUE]
    /\ failure       = [c \in Callers |-> Nil]

----------------------------------------------------------------------------
(* The checks (internal/checks): what each makes of the inspector's answer. *)

CheckResult(type, passed, concerns, error) ==
    [type |-> type, passed |-> passed, concerns |-> concerns, error |-> error]

\* Only the first operating system is looked at.
BugFirstOSOnly(doc) ==
    LET oses == Mountpoints[doc.rev] IN
    {<<1, m>> : m \in {n \in DOMAIN oses[1] : oses[1][n]}}

\* One concern for every mountpoint of every OS with a by-path device.
ByPathConcerns(doc) ==
    LET oses == Mountpoints[doc.rev] IN
    UNION {{<<o, m>> : m \in {n \in DOMAIN oses[o] : oses[o][n]}} :
              o \in DOMAIN oses}

ValidateMigrateableFstab(doc) ==
    LET concerns == ByPathConcerns(doc)
    IN  CheckResult("fstab", concerns = {}, concerns, Nil)

FstabCheck(r) ==
    IF r \in Errors THEN CheckResult("fstab", FALSE, {}, r)
                    ELSE ValidateMigrateableFstab(r)

DiskAccessCheck(r) ==
    CASE r = Encrypted -> CheckResult("disk-access", FALSE, {r}, Nil)
      [] r \in Errors \ {Encrypted} -> CheckResult("disk-access", FALSE, {}, r)
      [] OTHER -> CheckResult("disk-access", TRUE, {}, Nil)

RunCheck(type, r) ==
    IF type = "fstab" THEN FstabCheck(r) ELSE DiskAccessCheck(r)

----------------------------------------------------------------------------
(* Detect. *)

Phase(c, from, to) ==
    /\ phase[c] = from
    /\ phase' = [phase EXCEPT ![c] = to]

DetectStart(c, s, request) ==
    /\ Phase(c, "idle", "diskInfo")
    /\ snapshot' = [snapshot EXCEPT ![c] = s]
    /\ checksToRun' = [checksToRun EXCEPT ![c] =
                          IF request = <<>> THEN AllCheckTypes ELSE request]
    /\ UNCHANGED <<inspectVars, reportVars, failure>>

DiskInfoFails(c) ==
    /\ Phase(c, "diskInfo", "failed")
    /\ \E e \in Errors \ {Encrypted} : failure' = [failure EXCEPT ![c] = e]
    /\ UNCHANGED <<inspectVars, snapshot, checksToRun, reportVars>>

\* getSnapshotDiskInfo succeeds and InspectWithVirt is called.
DiskInfoOk(c) ==
    /\ Phase(c, "diskInfo", "data")
    /\ ~cancelled[c]
    /\ Invoke(c, snapshot[c])
    /\ UNCHANGED <<snapshot, checksToRun, reportVars, failure>>

DataFails(c) ==
    /\ Phase(c, "data", "failed")
    /\ Consume(c)
    /\ result[c] \in Errors
    /\ failure' = [failure EXCEPT ![c] = result[c]]
    /\ UNCHANGED <<snapshot, checksToRun, reportVars>>

\* The error that comes with the document is not looked at.
BugDataUnchecked(c) ==
    /\ Phase(c, "data", "checks")
    /\ Consume(c)
    /\ inspectorData' = [inspectorData EXCEPT ![c] = result[c]]
    /\ UNCHANGED <<snapshot, checksToRun, results, allConcerns, allPassed,
                   failure>>

DataOk(c) ==
    /\ Phase(c, "data", "checks")
    /\ Consume(c)
    /\ result[c] \notin Errors
    /\ inspectorData' = [inspectorData EXCEPT ![c] = result[c]]
    /\ UNCHANGED <<snapshot, checksToRun, results, allConcerns, allPassed,
                   failure>>

\* "Unknown check type, skip".
SkipCheck(c) ==
    /\ phase[c] = "checks"
    /\ checksToRun[c] # <<>> /\ Head(checksToRun[c]) \notin KnownTypes
    /\ checksToRun' = [checksToRun EXCEPT ![c] = Tail(checksToRun[c])]
    /\ UNCHANGED <<inspectVars, phase, snapshot, reportVars, failure>>

\* A check calls InspectWithVirt with the arguments Detect called it with.
StartCheck(c) ==
    /\ Phase(c, "checks", "check")
    /\ checksToRun[c] # <<>> /\ Head(checksToRun[c]) \in KnownTypes
    /\ Invoke(c, snapshot[c])
    /\ UNCHANGED <<snapshot, checksToRun, reportVars, failure>>

FinishCheck(c) ==
    LET r == RunCheck(Head(checksToRun[c]), result[c]) IN
    /\ Phase(c, "check", "checks")
    /\ Consume(c)
    /\ checksToRun' = [checksToRun EXCEPT ![c] = Tail(checksToRun[c])]
    /\ results'     = [results EXCEPT ![c] = Append(results[c], r)]
    /\ allConcerns' = [allConcerns EXCEPT ![c] =
                          allConcerns[c] \cup {<<r.type, k>> : k \in r.concerns}]
    /\ allPassed'   = [allPassed EXCEPT ![c] = allPassed[c] /\ r.passed]
    /\ UNCHANGED <<snapshot, inspectorData, failure>>

Report(c) ==
    /\ Phase(c, "checks", "reported")
    /\ checksToRun[c] = <<>>
    /\ UNCHANGED <<inspectVars, snapshot, checksToRun, reportVars, failure>>

----------------------------------------------------------------------------
(* DetectLocal: one run of virt-inspector on disk files, shared with nobody. *)

LocalStart(c) ==
    /\ Phase(c, "idle", "local")
    /\ UNCHANGED <<inspectVars, snapshot, checksToRun, reportVars, failure>>

LocalFails(c) ==
    /\ Phase(c, "local", "failed")
    /\ \E e \in Errors : failure' = [failure EXCEPT ![c] = e]
    /\ UNCHANGED <<inspectVars, snapshot, checksToRun, reportVars>>

LocalOk(c) ==
    /\ Phase(c, "local", "reported")
    /\ \E doc \in AllDocuments :
        LET fstab == ValidateMigrateableFstab(doc) IN
        /\ inspectorData' = [inspectorData EXCEPT ![c] = doc]
        /\ results'     = [results EXCEPT ![c] =
                              <<CheckResult("disk-access", TRUE, {}, Nil), fstab>>]
        /\ allConcerns' = [allConcerns EXCEPT ![c] =
                              {<<"fstab", k>> : k \in fstab.concerns}]
        /\ allPassed'   = [allPassed EXCEPT ![c] = fstab.passed]
    /\ UNCHANGED <<inspectVars, snapshot, checksToRun, failure>>

----------------------------------------------------------------------------

\* The caller of Detect or DetectLocal is done with its result.
Forget(c) ==
    /\ phase[c] \in {"reported", "failed"}
    /\ phase'         = [phase EXCEPT ![c] = "idle"]
    /\ snapshot'      = [snapshot EXCEPT ![c] = Nil]
    /\ checksToRun'   = [checksToRun EXCEPT ![c] = <<>>]
    /\ inspectorData' = [inspectorData EXCEPT ![c] = Nil]
    /\ results'       = [results EXCEPT ![c] = <<>>]
    /\ allConcerns'   = [allConcerns EXCEPT ![c] = {}]
    /\ allPassed'     = [allPassed EXCEPT ![c] = TRUE]
    /\ failure'       = [failure EXCEPT ![c] = Nil]
    /\ NewContext(c) \/ (~cancelled[c] /\ UNCHANGED inspectVars)

DetectorRestart == Restart /\ ClearReports

\* The context of a Detect may end whatever it is doing.
DetectCancel(c) ==
    /\ phase[c] \notin {"idle", "reported", "failed"}
    /\ CancelContext(c)
    /\ UNCHANGED detectVars

DetectStep(c) ==
    \/ DiskInfoFails(c) \/ DiskInfoOk(c)
    \/ DataFails(c)     \/ DataOk(c)
    \/ SkipCheck(c)     \/ StartCheck(c) \/ FinishCheck(c) \/ Report(c)
    \/ LocalFails(c)    \/ LocalOk(c)
    \/ Step(c) /\ UNCHANGED detectVars

DetectNext ==
    \/ \E c \in Callers :
        \/ \E s \in Slots, request \in Requests : DetectStart(c, s, request)
        \/ LocalStart(c)
        \/ DetectStep(c)
        \/ Forget(c)
        \/ DetectCancel(c)
    \/ DetectorRestart

DetectSpec == DetectInit /\ [][DetectNext]_allVars

\* Goroutines run; vSphere calls and inspections end.
DetectFairSpec == DetectSpec /\ \A c \in Callers : WF_allVars(DetectStep(c))

----------------------------------------------------------------------------

\* Where a mountpoint is in a document: which OS, which of its mountpoints.
Positions  == UNION {UNION {{<<o, m>> : m \in DOMAIN Mountpoints[r][o]} :
                              o \in DOMAIN Mountpoints[r]} : r \in Revs}
ResultType == [type     : KnownTypes,
               passed   : BOOLEAN,
               concerns : SUBSET (Positions \cup {Encrypted}),
               error    : Errors \cup {Nil}]

DetectTypeOK ==
    /\ phase         \in [Callers -> Phases]
    /\ snapshot      \in [Callers -> Slots \cup {Nil}]
    /\ checksToRun   \in [Callers -> Seq(CheckTypes)]
    /\ inspectorData \in [Callers -> AllDocuments \cup {Nil}]
    /\ allPassed     \in [Callers -> BOOLEAN]
    /\ failure       \in [Callers -> Errors \cup {Nil}]
    /\ DOMAIN results = Callers
    /\ \A c \in Callers : \A i \in DOMAIN results[c] : results[c][i] \in ResultType
    /\ allConcerns \in [Callers -> SUBSET (KnownTypes \X (Positions \cup {Encrypted}))]

\* "Passed indicates if all checks passed (no concerns found)": the two mean
\* the same.  They would not, if a check's own call of the inspector could
\* fail after the first call of Detect has succeeded.
PassedIffNoConcerns ==
    \A c \in Callers :
        phase[c] = "reported" => (allPassed[c] <=> allConcerns[c] = {})

\* Every check has judged the document the report's OS data is taken from, for
\* all of its operating systems, and none has failed.
ChecksJudgeReportedDocument ==
    \A c \in Callers : \A i \in DOMAIN results[c] :
        LET r == results[c][i]
            oses == Mountpoints[inspectorData[c].rev] IN
        /\ r.error = Nil
        /\ r.type = "fstab" =>
              (r.passed <=> \A o \in DOMAIN oses : \A m \in DOMAIN oses[o] :
                                ~oses[o][m])

\* No check ever inspects anything, waits for anybody or asks the DB: the
\* document Detect was given is in the memory cache until the process ends.
ChecksHitMemory ==
    \A c \in Callers : phase[c] = "check" => pc[c] \in {"lookup", "returned"}

\* Reports on one snapshot made by one process are made of one document.
ReportsAgree ==
    \A c1, c2 \in Callers :
        /\ phase[c1] = "reported" /\ phase[c2] = "reported"
        /\ snapshot[c1] # Nil /\ snapshot[c1] = snapshot[c2]
        => inspectorData[c1] = inspectorData[c2]

\* Detect and DetectLocal come to an end.
DetectReturns ==
    \A c \in Callers :
        phase[c] # "idle" ~> phase[c] \in {"reported", "failed", "idle"}

\* "CheckTypeDiskAccess: Verifies disk accessibility (detects encrypted
\* disks)": a Detect that asks for this check reports on an encrypted disk.
EncryptedDiskReported ==
    \A c \in Callers :
        phase[c] = "failed" /\ failure[c] = Encrypted
            => "disk-access" \notin {checksToRun[c][i] : i \in DOMAIN checksToRun[c]}
=============================================================================
