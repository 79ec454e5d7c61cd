# vm-migration-detective in TLA+

vm-migration-detective inspects snapshots of vSphere VMs, and disks that are
already at hand, before they are migrated: it opens the disks over NBD, runs
`virt-inspector` (or `virt-v2v-inspector`) on them, parses the XML they print
and lets a few checks judge it. The library is called by services that inspect
many VMs at a time, and an inspection takes minutes; so results are cached in
memory and in a database of the caller, and concurrent requests for one
snapshot share one inspection. What can go wrong lies there: in the order of
lookups and stores, in what happens to waiters, in what is left behind when the
third of five servers does not come up, in what Detectors of one process share
without saying so.

Paths below are relative to the repository; `file:line` names the code a
sentence is about.

## The system

| Component | State it keeps | Operations | Interacts with | Hard about it | Correct if |
|---|---|---|---|---|---|
| **Detector** `pkg/vmdetect/runner.go` | none of its own; one Inspector | `NewDetector`, `Detect`, `DetectLocal`, `DetectNBD` | asks vSphere for disk information, then the Inspector, then each check | the checks ask the Inspector again; several calls overlap | the checks judge the document the report shows; `Passed` and the concerns say the same |
| **Checks** `internal/checks`, `pkg/checks` | none | `FstabCheck.Run`, `DiskAccessCheck.Run`, `ValidateMigrateableFstab` | call `InspectWithVirt` with the arguments of Detect | which branches can be reached at all | every by-path device of every OS is a concern |
| **Inspector** `internal/persistent/inspection.go` | two memory caches, two inflight trackers, the caller's DB | `InspectWithVirt`, `InspectWithVirtV2v`, `InspectLocal`, `inflightTracker.do` | goroutines share it; it calls the engines and the DB | double-checked lookup, waiters, a DB that fails, contexts that end, restarts, panics | one inspection at a time and one document per snapshot; every caller is answered |
| **VirtInspector** `internal/inspection/virt_inspector.go` | none that outlives a call | `Inspect` (two attempts), `attemptInspect`, `InspectLocal`, `parseInspectionXML` | vSphere query, one nbdkit session per disk, virt-inspector | partial failure while sessions are opened; two deadlines; the retry | every disk is served while the engine runs; nothing is left over |
| **nbdkit-vddk sessions** `internal/inspection/nbdkit_vddk.go` | a process, a Unix socket file, a password file | `OpenWithNBDKitVDDK`, `WaitForReady`, `Close` | started and closed by VirtInspector | a process nobody has waited for, files with several owners, kill after 5 s | process and files go, in that order |
| **Disk query** `internal/vsphere/disk_query.go` | a client connection | `GetBaseDiskPaths`, `traverseBackingChain`, `GetBaseDiskPath`, `GetSnapshotDiskInfo` | vSphere | names of deltas, chains of snapshots | the file at the end of the chain is opened, for each flat disk |
| **VirtV2vInspector** `internal/inspection/virt_v2v_inspector.go` | a password file per call | `Inspect` | VDDK directory, `virt-v2v-inspector` | the VDDK directory is read twice while it may change; the document has to be found in debug output | the password file goes; a failure is named after its cause |
| **NBD proxies** `internal/inspection/nbdkit_nbd.go` | the proxies of one call | `ResolveNBDURLsForInspector`, `openNBDProxy` | DetectNBD | a proxy that fails after others were opened | none is left over; every URL reaches virt-inspector |
| **VDDK configuration** `internal/vddk/config.go` | one directory for the process | `SetLibDir`, `GetLibDir`, `GetLibPath` | written by every `NewDetector`, read by both engines | a global of the process | an inspection uses the directory of its Detector |
| **TLS configuration** `internal/tlsconfig` | none | `FromCredentials`, `GetVCenterThumbprint`, `For...` | all that connects to vCenter | which of three modes wins where; thumbprints are compared as text | secure modes fail closed |
| **Command builder** `internal/cmdbuilder` | the command under construction | `Args`, `MaskedArgs`, `buildEnv`, `RunSeparate`, `RunCombined` | everything that starts a process | a command whose context ends | it is not started, or killed |
| **Unlocking and classification** `disk_encryption.go`, `errors.go` | none | `resolveDiskUnlock`, `isEncryptedDiskError` | VirtInspector | order of the tests | a failure is named after its cause |

Interaction: `Detect` calls `InspectWithVirt`, which answers from memory or
enters `do`; the leader of `do` asks the DB, then the engine; the engine
queries vSphere for the disks, starts one nbdkit per disk, waits for the
sockets, runs virt-inspector on the sockets and closes the sessions; the
document goes into memory, then into the DB, then to the waiters. The contexts
of the callers reach down to every command.

## Modules

| Module | Models | Abstracts |
|---|---|---|
| `Inspector` | `persistent.Inspector` | what a document says: a record of the slot it is about and a revision |
| `InspectionService` | the promise of the Inspector to its callers: a memo | caches, tracker, DB |
| `SnapshotSession` | `VirtInspector.Inspect` with the nbdkit sessions it uses | command lines, output, time |
| `ServerScope` | what code with servers promises: opened, all up while used, all gone at the end | which server, how many attempts, why it ended |
| `Detector` (extends `Inspector`) | `Detect`, `DetectLocal`, both checks | a document is what its mountpoints are, a path is by-path or is not |
| `DiskQuery` | `GetBaseDiskPaths` and what it calls | the rest of a VM's configuration |
| `TLSConfig` | `internal/tlsconfig`: operators | digests and chains: a certificate is its digest and its issuer |
| `ToolOutput` | `isEncryptedDiskError` and both parsers: operators | an output is a sequence of tokens or a set of patterns |
| `VddkEngines` (extends these two) | `NewDetector`, `internal/vddk`, `VirtV2vInspector.Inspect`, `OpenWithNBDKitVDDK` up to the start of nbdkit | the rest of the command lines |
| `NBDProxies` (extends `ToolOutput`) | `DetectNBD`, the proxies, `VirtInspector.InspectLocal` | addresses |
| `Process` (extends `VddkEngines`, `NBDProxies`) | Detectors and calls that meet in one process | |
| `MCInspector`, `MCDetector`, `MCDiskQuery`, `MCProcess` | values for TLC | |
| `InspectorProofs`, `SessionProofs`, `DetectorProofs`, `NBDProofs`, `EnginesProofs`, `ProcessProofs`, `DiskProofs`, `ToolProofs` | theorems and their proofs | |

A definition `Bug...` stands before the definition it is a mistaken version of.
It belongs to no specification; with it in the place of its original, a run
shows which property notices the mistake.

### Inspector

`InspectWithVirt` and `InspectWithVirtV2v` are one program over two sets of
caches, trackers and DB methods. A *slot* is an engine together with a
CacheKey, so the two share the actions and no slot. A *caller* is a goroutine.
Its `pc` follows the code:

| `pc` | Code in `internal/persistent/inspection.go` | Actions |
|---|---|---|
| `lookup` | first look at the memory cache (97-106) | `LookupHit`, `LookupMiss` |
| `enter` | first critical section of `do` (361-376) | `Lead`, `Join` |
| `waiting` | `wg.Wait()` (367) | `Wake` |
| `recheck` | second look at the cache (112-120) | `RecheckHit`, `RecheckMiss` |
| `dbGet`, `fill` | the DB, and its document into memory (123-140) | `DBGetHit`, `DBGetMiss`, `FillFromDB` |
| `begin`, `inspecting` | the engine (150-153) | `InspectBegin`, `InspectRefused`, `InspectOk`, `InspectErr`, `InspectPanic` |
| `store`, `dbSet` | memory first (156), then the DB (159-166) | `StoreMemory`, `DBSetOk`, `DBSetFail` |
| `publish`, `remove` | `wg.Done()` (382), second critical section (385-387) | `Publish`, `Remove` |

Every step touches shared memory once, so TLC interleaves the callers wherever
the scheduler could. `calls` holds addresses (`CallIds`), `done` and `outcome`
are the objects they point to; a waiter keeps its pointer after the entry has
been deleted, and an address is used again only when nobody holds it. Contexts
end at any time (`CancelContext`); a DB call may fail under a context that is
over, and under any if `DBMayFail`. `Restart` loses all but the DB.

`InspectPanic` leaves the caller in `panicked` for good. It stands for a panic
the code above recovers from, as an HTTP server does for its handlers; a panic
nobody recovers from is a `Restart`.

### SnapshotSession

One call of `Inspect`. `pc` follows `attemptInspect`; each file and process
belongs to an attempt and a disk. nbdkit may listen, crash, or be killed by
openCtx at any time after its start (`Listen`, `Exit`); contexts run out
(`OpenDeadline`, `EngineDeadline`, `CancelCaller`). A process that has ended is
`exited` until somebody waits for it (`reaped`): the difference between the two
is what signal 0 does not see. `CloseAll` is all three places where the
sessions are closed; each closes exactly the list of sessions (166-171,
178-181, 187-193 of `virt_inspector.go`).

`Close` of one session goes through `grace`, `killed` and `unlink`:

| Step of `nbdkit_vddk.go` | Action |
|---|---|
| the interrupt, and the goroutine that calls `cmd.Wait` (201-206) | `Interrupt` |
| that wait returns, whether `Close` still waits or has killed the server | `WaitEnds` |
| `done`, the first case of the `select` (209-210) | `Gone` |
| 5 s are over: the kill (211-213) | `Kill` |
| the second wait (214) | `WaitKilled` |
| both files are removed (218-227) | `Unlink` |

The server may listen until it has ended, in `grace` too. If the goroutine
waits for a killed server first, the second wait has an error and goes on; in
either order the process is gone when the files are removed.

Whether the certificate has to be fetched (`dials`: a bundle, no thumbprint) is
chosen at the start. `query` and `dial` are where vCenter is waited for.

Each attempt implements `ServerScope`: a disk's server is *up* from its start
until its process has been waited for and its socket file is gone; *needed* are
the servers of all disks of the attempt. Opening fails or the engine ends in
`End`, which leaves the scope `closing` until nothing is up.

### Detector

`Detector` extends `Inspector`: a phase `data` or `check` is a call of the
Inspector, and the caller's `pc` moves through it while the phase stays. The
fields of `DetectResult` are variables by their names; concerns are kept as a
set of positions. `DetectLocal` runs the engine once and uses no shared state.

### VddkEngines, TLSConfig, ToolOutput

`NewDetector` validates, sets the directory of the process, and only then makes
the TLS settings, which may fail (`made` is `failed`, the directory stays). A
Detector without vCenter and directory is one for local disks and sets the
empty directory. `writes` is a history variable: who has called `SetLibDir`.

A *call* is one of `VirtV2vInspector.Inspect` (`V2VCalls`) or of
`OpenWithNBDKitVDDK` (`OpenCalls`); both pin, read the directory and start an
engine, in the orders of their code:

| `pc` | `virt_v2v_inspector.go` | `nbdkit_vddk.go` | Actions |
|---|---|---|---|
| `idle` | 72-98 | 53-63 | `StartCall`, `NoComputeResource` |
| `file` | 100-106, first | 90-94, after the pinning | `CreateFile`, `CreateOpenFile`, `CreateFileFails` |
| `pin`, `dial` | 108-123 | 65-80 | `Pin`, `DialOk`, `DialFails` |
| `dir`, `path` | 124-125 | 96 | `ReadLibDir`, `ReadLibPath` |
| `start` | 127-166 | 97-146 | `StartEngine`, `EngineRefused` |
| `running`, `judge` | 166-269 | `opened`: `SnapshotSession` goes on | `EngineSucceeds`, `EngineErrs`, `EngineKilled`, `Judge` |
| `cleanup` | 106, deferred | | `RemoveFile` |

The two reads of the directory are two steps, since the mutex of
`internal/vddk` is released in between. What the tool has printed is decided
when it ends, from `V2VOutputs`; `Judgement` looks at the context first, then
at the exit code and the words, then at the document.

`ToolOutput` has both parsers as operators on tokens. A token is a tag, a
`libguestfs:`, an end of a line, or text; `Unmarshal` is what
`encoding/xml` does with such a sequence. `Words` are the patterns
`isEncryptedDiskError` looks for, one for each group the tests tell apart.

### NBDProxies

One `DetectNBD`. Which URLs are `nbds://` and whether there are certificates
is chosen at its start. Proxies are `NBDKitSession`s, so `SocketFound`,
`SocketMissing`, `LookAgain` and `Unlink` are as in `SnapshotSession`, and
`Reap` is all of interrupt, kill and wait in one step, which `SnapshotSession`
takes apart. There are two differences: they run under the caller's context alone, and a proxy
that does not get ready is closed by `openNBDProxy` before the others are by
its caller (`Closing`). `NBDProxies` implements `ServerScope` as well, with the
`nbds://` URLs as the servers that are needed.

### Process

`VddkEngines` and `NBDProxies` side by side. `DetectNBD` needs a Detector, of
any kind; nothing it does depends on what that Detector was given.
`MaxInFlight` bounds the calls whose results have not been taken; `NewDetector`
may come between any two steps of them.

### DiskQuery

One step per device. A path is a sequence of characters, so that the comparison
of `GetBaseDiskPath` with its index arithmetic is modelled as it is.

## Runs

| Run | Question | Result |
|---|---|---|
| `inspector_core` | one leader, one document, nobody joins an inspection that is over; does it implement the memo? 3 callers, 1 slot, 2 revisions, DB that fails, panics, a restart | holds |
| `inspector_live` | is everybody answered; do memory and DB agree? 2 callers, DB, a restart, fairness | holds |
| `inspector_panic` | does a waiter always have somebody to wait for? | violated: after a panic in the engine nobody calls `wg.Done` |
| `session_core` | what is left after an attempt; what does the engine get; does Inspect return, unless vCenter keeps it; is an attempt a scope of its servers? 3 disks, 2 attempts | holds |
| `session_exit` | does the check with signal 0 notice an nbdkit that has ended? | violated: the signal reaches a process until it is waited for |
| `session_password` | is the password file gone when Inspect returns? | violated: not if nbdkit could not be started |
| `process_core` | with which directory and which verification does an engine start, what becomes of its output, what is left, does every call return? 2 Detectors of 6 configurations, a call of either engine, a DetectNBD with 2 URLs | holds |
| `process_libdir` | is an engine started with the directory of its own Detector? | violated: with that of whichever Detector was made last |
| `process_tls` | does every connection verify vCenter, if there is something to verify it with? | violated: not that of libvirt with a thumbprint |
| `detector_core` | do report, checks and cache fit together; does every Detect end? 2 callers, 1 snapshot, 2 revisions, a restart | holds |
| `detector_encrypted` | does the disk access check report on an encrypted disk? | violated: Detect returns an error before it runs a check |
| `disks_core` | which paths does nbdkit open? all lists of up to 3 devices; all names of up to 8 characters | holds |

Bounds. Three callers are a leader, a waiter and one that comes late; with them
a second inspection of the snapshot can overlap the end of the first. As many
`CallIds` as callers suffice, since only a leader needs a new one. One slot in
the large runs: slots share nothing, and the theorems below are for any number.
Two revisions tell two inspections apart. One restart makes the DB matter, and
`MaxRestarts` is the only bound on behaviours of the Inspector. Three disks are
one that is ready before, one that fails and one never begun; two polls are one
that fails and goes on and one that gives up. Eight characters are the seven of
a suffix and one before it.

Two Detectors are the owner of a call and one that is made in the middle of it;
the configurations have every TLS mode, a directory that does not exist, one
for local disks, one that is refused and one that fails after `SetLibDir`. With
`MaxInFlight = 1` one call is under way at a time: calls share nothing but the
directory and only read it, so that one cannot disturb another, and the
theorems are for any number at a time. Two URLs are a proxy that is open and
one that is not, in either order with plain ones; `MaxPolls = 1`, since the
loop over the polls is in `session_core`. The outputs in `MCProcess` have a
document alone, between messages, with a foreign element, cut off, and none.

In `inspector_core` the callers and the addresses of calls (`CallIds`) are
interchangeable (`Symmetry`); no liveness is checked there.

Deadlock. In `inspector_core` and `inspector_panic` panicked callers and those
who wait for them may be all there is; an Inspect that has returned and a query
that is finished do nothing more. Everywhere else deadlock is an error (in
`process_core` results can always be taken and calls begun again).

Fairness. A goroutine that can run does (the Go scheduler). What vCenter is
asked ends only if vCenter ends it: the queries run under the context of the
caller, which need not have a deadline, the logout after them under none
(`disk_query.go:93`), and `tls.Dial` has neither a timeout nor a context
(`tlsconfig.go:176`). So `SnapshotSession` has no fairness for `VCenterStep`,
and `Returns` excepts an Inspect that stays in `query` or `dial` for ever. For
all the rest it needs no fairness of nbdkit, virt-inspector or `cmd.Wait`, since
polls are counted, a server is killed after 5 s and every command runs under a
context with a timeout. It is assumed that a killed virt-inspector lets go of
its pipes (`RunSeparate` sets no `WaitDelay`). `Inspector` and `Detector` take
for granted that an inspection ends: `Answered`, `EntryReleased` and
`DetectReturns` hold as long as vCenter answers, which is what `Returns` leaves
open. The same holds of `process_core`: timeouts
run out and what is killed ends (`EngineKilled`, `LocalKilled`), while no proxy
need ever listen and no engine end by itself; nothing makes `DialOk` or
`DialFails` happen, and `CallReturns` excepts a call that is there. Callers are not obliged
to make Detectors, to call, to take results or to keep their contexts alive.

## Proofs

All of it for any number of callers, snapshots, disks, Detectors, calls and
URLs, and any configurations, certificates, outputs and documents. The
assumptions are those of the modules: `Nil` is none of the other values, a
document is no error (`NilAssumption`), cancellation is an error
(`ModeAssumption`), an encrypted disk is another one and requests are sequences
of check types (`DetectorAssumption`), there is a disk, a URL and a look at the
socket (`NumDisksAssumption`, `NumURLsAssumption`, `MaxPollsAssumption`), a call
is of one engine (`CallsAssumption`), configurations, certificates and outputs
are records of their fields (`ConfigsAssumption`, `CertsAssumption`,
`OutputAssumption`, `LocalOutputsAssumption`), no digit is a dash
(`DashAssumption`) and every backing of a disk has a path, the first one not an
empty one (`DevicesAssumption`).

**InspectorProofs.** `InspectOnlyOnMiss` is not inductive: that the cache is
still empty when a leader stores depends on nobody else being able to store.
`IInv` says who owns what:
- `OwnerInv`: between the two critical sections a leader owns the entry of its
  slot, an entry has a leader, and no two slots share a call;
- `DoneInv`, `WaiterInv`: a waiter's call is still in the tracker under its
  slot, or it is done and its outcome may be told;
- `ResultInv`: past the double check a leader works on an empty slot, past the
  store it holds what is in memory;
- `LayersInv`, `CallersInv`: documents are kept where they belong, and pointers
  exist while the caller is inside `do`.

One lemma per part, one step per group of actions. From `Invariance` follow
`TypeCorrect`, `OneLeader`, `OnlyOnMiss`, `Agreement`,
`SharedOnlyWhileLed`, `WriteOnce`, `NobodyWaitsInVain` (if `MayPanic` is FALSE) and `Implements`, the
refinement: the store of a document is `Settle`, a return is `Tell` or
`Refuse`, the rest stutters. For a DB that fails only under a context that is
over (`~DBMayFail`), `DBInv` adds that an engine works only on a snapshot the DB
has no document of; `LayersInAgreement` and `DBWrittenOnce` follow. Without that
condition both are false: a failed read looks like a miss.

**SessionProofs.** `SInv` relates `pc` to the list: every server of the attempt
that was started is in the list, or is the one about to be added, and each one
below `closing` has been waited for, as has the one at `closing` when `Close`
gets to the files, whichever of the two waits it was; a socket file has a server
that runs or is being closed. `ServersGone`, `SocketsGone`, `PasswordsAccounted`,
`AllDisksServed` follow, and `SessionRefinesScope`: a start is `Acquire`, the
step that finds the last socket leaves all of them up for `Use`, and what ends
the life of the last one closes the scope.

`StepsRunOut` is the part of `Returns` that is arithmetic: `StepsLeft` is a
number, at most `MostSteps` of it, every step of the code, of vCenter and of
virt-inspector lowers it, and nbdkit and the contexts leave it alone. It counts the disks that
are left, the looks at the present socket, the sessions not yet closed, and the
second attempt while there may be one. That there is always somebody to take
the next step, unless it is vCenter's, is what TLC adds, with fairness.

**NBDProofs.** `NInv`: the proxies to be closed are the `nbds://` URLs the loop
has been through, and exactly they run or have ended without having been waited
for, but for the one between the halves of `Close`; the list of URLs so far is
that of the loop. From it `NBDTypeCorrect`, `ProxiesGone` and `NBDRefinesScope`.
`EveryURLGiven` is that list flattened: `FlattenSeq` chooses a recursive
function, so `FlattenTriples` shows that one exists, and that no other fits.
`ReportInv` says that what DetectNBD has come to is what the parser made of the
output; with `LocalDocumentParsed` that is `LocalDocumentFound`.
`NBDStepsRunOut` bounds the steps of a call as `StepsRunOut` does those of
Inspect; here what is still to be closed is a set, and `FewToClose` counts it.

**ToolProofs.** What the operators of `ToolOutput` do with an output of any
length. A first or last element with a tag is where it should be
(`FirstOfFound`, `LastOfIs`), a part of an output keeps its order (`PartOf`),
and the messages that are taken out leave as many operating systems as there
were (`MessagesGone`). Where the number of elements before a place matters, an
induction would be in order; instead the least place that is a counterexample is
looked at, which exists since the natural numbers are well-founded
(`LeastElement`). `V2VDocumentParsed` and `LocalDocumentParsed` say of which
outputs a document is parsed, and with how many operating systems;
`V2VNothingMadeUp` that there are none in the report if none were printed.

**EnginesProofs.** `EInv`: a Detector that was made has the settings of its
configuration for good and is in `writes`; the directory of the process is that
of the last entry of `writes`; and each call fits where it is (`Fits`): what it
has read of the directory was set since its owner was made, what it has pinned
verifies the server its owner's credentials ask for, its password file is there
exactly from its creation to its removal, an engine was killed only if the
context is over. `LibDirSinceOwner`, `ServerVerified`, `Named` and
`PasswordScoped` follow. `DocumentInv` adds what a call has made of the output
of its engine, from the moment it is judged; `V2VDocumentFound` follows from it
and the theorems about the parser.

**ProcessProofs.** Every step of the process is one of the engines or one of
DetectNBD and leaves the other part alone (`PartsStep`), so `ProcessIsEngines`
and `ProcessIsNBD` carry both sets of theorems over (`EnginesInProcess`,
`NBDInProcess`).

**DiskProofs.** `SuffixTakenOff` is about one path of any length: what is taken
off is a dash and six digits, and a path that is left alone ends in no such
thing. `DInv`: the paths so far are as many as the flat disks before `index`,
and that of a flat disk is at its `Rank` among them. It is inductive since a
rank goes up by one at a flat disk and stays at any other device (`RankSteps`).
`OnePath`, `EndOpened` and `DeltaResolved` follow at the end of the loop.

**DetectorProofs.** Every step of the Detector is one of the Inspector or
leaves it alone (`DetectorSteps`), so `DetectorIsInspector` carries all of
InspectorProofs over. `DInv` adds that a document once handed to Detect is the
one in memory; with `StepWriteOnce` it stays that. Hence a check is always
answered by the memory cache (`ChecksAnsweredByMemory`), cannot fail, and
`PassedMeansNoConcerns`, `OneDocumentPerSnapshot` follow. `ResultsInv` says that
the results are what the checks make of that document; from it
`DetectTypeCorrect` and `ReportedDocumentJudged`.

Only model-checked: liveness (`Answered`, `EntryReleased`, `Returns`,
`DetectReturns`, `CallReturns`, `NBDReturns`), which is out of the prover's
reach, since it rests on fairness and so on when steps are enabled. Every
invariant, action property and refinement of the passing runs has a theorem.

## Disagreements found

1. A panic in the inspection leaves the inflight entry and its waiters behind
   (`inspection.go:379`), and a nil logger, which the configuration allows,
   makes `attemptInspect` panic.
2. The check for an nbdkit that "exited immediately" cannot fail
   (`nbdkit_vddk.go:158`); a crash is noticed after 30 s, or by virt-inspector.
3. The password file survives when nbdkit is not started (`nbdkit_vddk.go:103`,
   `:145`).
4. The VDDK directory is one for the process (`inspection.go:62`), while
   `README.md:308` and the comments of `NewInspector` speak of the directory of
   an inspector. Any later `NewDetector` changes it under the inspections of
   others, also one that then fails, or one for local disks, which sets "". What
   can be relied on is `LibDirSetSinceOwner`: a process whose Detectors are all
   given one directory is safe.
5. The disk access check cannot report an encrypted disk from Detect
   (`runner.go:177`); its branch for it is dead, as `ChecksHitMemory` shows.
6. In the thumbprint mode libvirt connects to vCenter with `no_verify=1`
   (`tlsconfig.go:219`) and the password; only the reading of the disks is
   pinned. `README.md:57` promises verification "for all vCenter connections".
   What can be relied on is `VerifiedAsConfigured`: what reads the disks is
   verified in both secure modes, libvirt too in the bundle mode.

Not checked by a run: a disk without snapshots is renamed if its name looks like
a delta's (`disk_query.go:153`), so `web-202401.vmdk` is opened as `web.vmdk`,
while the comment at `disk_query.go:148` takes the disk with no parent for the
base. `DeltaNameResolved` states what the code does.

Not a disagreement, but worth knowing: a waiter is told the failure of its
leader, the end of the leader's context or timeout too, while its own context is
live (`inspection.go:367`); `SharedWhileLed` is what holds. Output that mentions encryption is
reported as an encrypted disk before Inspect looks for the symptoms of a cold
start (`virt_inspector.go:232`), so it is not tried again.
`isEncryptedDiskError` takes any message about a multibyte sequence for
encryption (`errors.go:73`). A socket file left by a server that has crashed
counts as ready (`nbdkit_vddk.go:281`). An inspection whose servers reach their
deadline first looks like a cold start and is tried again, with no more time
than before (`virt_inspector.go:195`). And a call in the bundle mode may hang in
`tls.Dial` past the deadline of its caller.

## Not modelled

- What documents say beyond the number of operating systems and their
  mountpoints; the full syntax of XML: `Unmarshal` knows the elements the
  parsers look for.
- TLS handshakes, digests, PEM files; `ForGovmomi` hands one field to the vSphere
  client, which only talks to vSphere.
- Masking of arguments and the environment but for `LD_LIBRARY_PATH`; logging,
  and with it a nil logger, apart from the panic it leads to (`InspectPanic`).
- `resolveDiskUnlock`: it looks for key files before each command and keeps
  nothing; a disk that cannot be unlocked is an engine that fails.
- vSphere itself, `GetSnapshotDiskInfo` but for its success or failure.
- `virt_v2v_open.go`: dead code (`UseVirtV2VOpen` is false).
- DB implementations: they are the caller's; two processes on one DB at a time.

## Plan

What could follow, in this order:
1. `MaskedArgs` and `buildEnv` as operators on lists of arguments and
   operations, with the property that what is logged tells two secrets apart in
   no case; `CacheKey.String` and its collisions.
2. `resolveDiskUnlock` with key files that come and go between two attempts.
3. `GetSnapshotDiskInfo`: which of its lookups stands in for which, and the
   failures it passes on.
4. A second process on the same DB, where `DBWriteOnce` and `LayersAgree` no
   longer hold as they stand.
5. The bounds of `StepsRunOut` and `NBDStepsRunOut` for `Detect`, over its
   checks and the calls of the Inspector they make: the part of `DetectReturns`
   that is arithmetic.
