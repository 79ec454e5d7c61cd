-------------------------- MODULE SnapshotSession --------------------------
(***************************************************************************)
(* One call of VirtInspector.Inspect (internal/inspection): at most two    *)
(* attempts, each of which starts an nbdkit server per disk of the VM,     *)
(* waits until it listens, runs virt-inspector on all of them and closes   *)
(* the sessions (internal/inspection/nbdkit_vddk.go).                      *)
(*                                                                         *)
(* The logger is set (without one attemptInspect panics, which Inspector   *)
(* models) and UseVirtV2VOpen is FALSE, as in the source.  Time is left    *)
(* out: a sleep lets other things happen, a deadline is an action.         *)
(*                                                                         *)
(* A definition named Bug... is the action after it with one mistake a     *)
(* change of the code could make; it is not part of Next.                  *)
(***************************************************************************)
EXTENDS Naturals

CONSTANTS
    NumDisks,       \* disks of the VM that have a flat backing
    MaxPolls        \* looks at the socket before WaitForReady gives up

ASSUME NumDisksAssumption == NumDisks \in Nat \ {0}
ASSUME MaxPollsAssumption == MaxPolls \in Nat \ {0}

Disks    == 1 .. NumDisks
Attempts == 1 .. 2

\* What an attempt comes to; cold: its output shows cold-start symptoms.
Kinds    == {"ok", "encrypted", "failed"}
Outcomes == [kind : Kinds, cold : BOOLEAN]
Ok       == [kind |-> "ok", cold |-> FALSE]
Failed   == [kind |-> "failed", cold |-> FALSE]

VARIABLES
    pc,
    dials,      \* the certificate is fetched: a bundle is all that is configured
    attempt,    \* first or second attemptInspect
    disk,       \* index of the disk whose session is being opened
    sessions,   \* length of nbdkitSessions
    closing,    \* index of the session sessionCloser is at
    polls,      \* looks at the socket so far in this WaitForReady
    outcome,    \* (result, err) of the attempt
    over,       \* contexts cancelled or past their deadline
    server,     \* the nbdkit process of an attempt and a disk
    socket,     \* the sessions whose Unix socket file exists
    password    \* the sessions whose password file exists

files == <<socket, password>>
vars  == <<pc, dials, attempt, disk, sessions, closing, polls, outcome, over,
           server, socket, password>>

PCs == {"query", "pin", "dial", "password", "start", "settle", "ready", "nap",
        "run", "engine", "close", "grace", "killed", "unlink", "retry",
        "returned"}

Current == <<attempt, disk>>
Closed  == <<attempt, closing>>

Init ==
    /\ pc = "query" /\ dials \in BOOLEAN /\ attempt = 1 /\ disk = 1
    /\ sessions = 0 /\ closing = 1 /\ polls = 0
    /\ outcome = Failed
    /\ over = {}
    /\ server = [s \in Attempts \X Disks |-> "none"]
    /\ socket = {} /\ password = {}

Goto(from, to) == pc = from /\ pc' = to

\* The attempt has come to o: close every session there is.
CloseAll(from, o) ==
    /\ Goto(from, "close")
    /\ outcome' = o
    /\ closing' = 1

----------------------------------------------------------------------------
(* attemptInspect, up to the run of virt-inspector. *)

\* vSphere is asked under the caller's ctx, and logged out of under none.
QueryDisks ==
    /\ Goto("query", "pin")
    /\ "caller" \notin over
    /\ UNCHANGED <<dials, attempt, disk, sessions, closing, polls, outcome,
                   over, server, files>>

QueryFails ==
    /\ CloseAll("query", Failed)
    /\ UNCHANGED <<dials, attempt, disk, sessions, polls, over, server, files>>

\* A thumbprint that is configured, or none in insecure mode, will do.
Pin ==
    /\ Goto("pin", IF dials THEN "dial" ELSE "password")
    /\ UNCHANGED <<dials, attempt, disk, sessions, closing, polls, outcome,
                   over, server, files>>

\* GetVCenterThumbprint, with neither a context nor a timeout.
DialOk ==
    /\ Goto("dial", "password")
    /\ UNCHANGED <<dials, attempt, disk, sessions, closing, polls, outcome,
                   over, server, files>>

DialFails ==
    /\ CloseAll("dial", Failed)
    /\ UNCHANGED <<dials, attempt, disk, sessions, polls, over, server, files>>

CreatePassword ==
    /\ Goto("password", "start")
    /\ password' = password \cup {Current}
    /\ UNCHANGED <<dials, attempt, disk, sessions, closing, polls, outcome,
                   over, server, socket>>

\* A file half made is removed at once.
CreatePasswordFails ==
    /\ CloseAll("password", Failed)
    /\ UNCHANGED <<dials, attempt, disk, sessions, polls, over, server, files>>

\* exec refuses to start a command whose context is over.
Start ==
    /\ Goto("start", "settle")
    /\ over \cap {"caller", "open"} = {}
    /\ server' = [server EXCEPT ![Current] = "running"]
    /\ UNCHANGED <<dials, attempt, disk, sessions, closing, polls, outcome,
                   over, files>>

\* Neither VDDK nor the nfc plugin is there, or nbdkit does not start.
StartFails ==
    /\ CloseAll("start", Failed)
    /\ UNCHANGED <<dials, attempt, disk, sessions, polls, over, server, files>>

\* Signal 0 reaches a process until somebody has waited for it, so the
\* branch for a process that "exited immediately" is never taken.
SettleCheck ==
    /\ Goto("settle", "ready")
    /\ sessions' = sessions + 1
    /\ polls' = 0
    /\ UNCHANGED <<dials, attempt, disk, closing, outcome, over, server,
                   files>>

\* The loop over the disks ends one too early.
BugLastDiskSkipped ==
    /\ Current \in socket
    /\ IF disk + 1 < NumDisks
        THEN Goto("ready", "pin") /\ disk' = disk + 1
        ELSE Goto("ready", "run") /\ UNCHANGED disk
    /\ UNCHANGED <<dials, attempt, sessions, closing, polls, outcome, over,
                   server, files>>

\* WaitForReady looks for the socket file, ...
SocketFound ==
    /\ Current \in socket
    /\ IF disk < NumDisks
        THEN Goto("ready", "pin") /\ disk' = disk + 1
        ELSE Goto("ready", "run") /\ UNCHANGED disk
    /\ UNCHANGED <<dials, attempt, sessions, closing, polls, outcome, over,
                   server, files>>

SocketMissing ==
    /\ Goto("ready", "nap")
    /\ Current \notin socket
    /\ polls' = polls + 1
    /\ UNCHANGED <<dials, attempt, disk, sessions, closing, outcome, over,
                   server, files>>

\* ... sleeps and looks again, until the time is up.
LookAgain ==
    /\ Goto("nap", "ready")
    /\ polls < MaxPolls
    /\ UNCHANGED <<dials, attempt, disk, sessions, closing, polls, outcome,
                   over, server, files>>

\* The loop of WaitForReady has no end.
BugNeverNotReady ==
    /\ polls = MaxPolls
    /\ Goto("nap", "ready")
    /\ UNCHANGED <<dials, attempt, disk, sessions, closing, polls, outcome,
                   over, server, files>>

\* Only the sessions that are ready are closed.
BugCloseReadyOnly ==
    /\ polls = MaxPolls
    /\ \E cold \in BOOLEAN : CloseAll("nap", [Failed EXCEPT !.cold = cold])
    /\ sessions' = sessions - 1
    /\ UNCHANGED <<dials, attempt, disk, polls, over, server, files>>

\* The error quotes what nbdkit has written so far.
NotReady ==
    /\ polls = MaxPolls
    /\ \E cold \in BOOLEAN : CloseAll("nap", [Failed EXCEPT !.cold = cold])
    /\ UNCHANGED <<dials, attempt, disk, sessions, polls, over, server, files>>

----------------------------------------------------------------------------
(* The run of virt-inspector. *)

EngineStart ==
    /\ Goto("run", "engine")
    /\ "caller" \notin over
    /\ UNCHANGED <<dials, attempt, disk, sessions, closing, polls, outcome,
                   over, server, files>>

EngineRefused ==
    /\ CloseAll("run", Failed)
    /\ UNCHANGED <<dials, attempt, disk, sessions, polls, over, server, files>>

\* Exit code 0 and a document, however its servers are by then.
EngineSucceeds ==
    /\ CloseAll("engine", Ok)
    /\ UNCHANGED <<dials, attempt, disk, sessions, polls, over, server, files>>

\* An exit code, or output that holds no document.  What looks like an
\* encrypted disk is reported without the output.
EngineFails ==
    /\ \E o \in Outcomes :
        /\ o.kind # "ok"
        /\ CloseAll("engine", o)
    /\ UNCHANGED <<dials, attempt, disk, sessions, polls, over, server, files>>

----------------------------------------------------------------------------
(* sessionCloser, and Close of one session. *)

\* Close interrupts the server and has a goroutine wait for it.
Interrupt ==
    /\ Goto("close", "grace")
    /\ closing <= sessions
    /\ UNCHANGED <<dials, attempt, disk, sessions, closing, polls, outcome,
                   over, server, files>>

\* cmd.Wait in that goroutine, which goes on while Close kills the server.
WaitEnds ==
    /\ pc \in {"grace", "killed"}
    /\ server[Closed] = "exited"
    /\ server' = [server EXCEPT ![Closed] = "reaped"]
    /\ UNCHANGED <<pc, dials, attempt, disk, sessions, closing, polls, outcome,
                   over, files>>

\* The goroutine is done in time, ...
Gone ==
    /\ Goto("grace", "unlink")
    /\ server[Closed] = "reaped"
    /\ UNCHANGED <<dials, attempt, disk, sessions, closing, polls, outcome,
                   over, server, files>>

\* Close does not wait for longer than 5 s, and does not kill the server.
BugNoKill ==
    /\ Goto("grace", "unlink")
    /\ UNCHANGED <<dials, attempt, disk, sessions, closing, polls, outcome,
                   over, server, files>>

\* ... or 5 s are over: the server is killed if there is still one, ...
Kill ==
    /\ Goto("grace", "killed")
    /\ server' = [server EXCEPT
                    ![Closed] = IF @ = "running" THEN "exited" ELSE @]
    /\ UNCHANGED <<dials, attempt, disk, sessions, closing, polls, outcome,
                   over, files>>

\* Nobody waits for a server that was killed.
BugNoSecondWait ==
    /\ Goto("killed", "unlink")
    /\ UNCHANGED <<dials, attempt, disk, sessions, closing, polls, outcome,
                   over, server, files>>

\* ... and Close waits for it itself: one of the two waits gets an error.
WaitKilled ==
    /\ Goto("killed", "unlink")
    /\ server' = [server EXCEPT ![Closed] = "reaped"]
    /\ UNCHANGED <<dials, attempt, disk, sessions, closing, polls, outcome,
                   over, files>>

\* Close does not remove the password file.
BugPasswordKept ==
    /\ Goto("unlink", "close")
    /\ socket'   = socket \ {Closed}
    /\ closing'  = closing + 1
    /\ UNCHANGED <<dials, attempt, disk, sessions, polls, outcome, over,
                   server, password>>

Unlink ==
    /\ Goto("unlink", "close")
    /\ socket'   = socket \ {Closed}
    /\ password' = password \ {Closed}
    /\ closing'  = closing + 1
    /\ UNCHANGED <<dials, attempt, disk, sessions, polls, outcome, over,
                   server>>

IsColdStartFailure == outcome.kind = "failed" /\ outcome.cold

\* attemptInspect returns; its deferred calls cancel its contexts.
AttemptEnds ==
    /\ closing > sessions
    /\ IF attempt = 1 /\ IsColdStartFailure THEN Goto("close", "retry")
                                            ELSE Goto("close", "returned")
    /\ over' = over \cap {"caller"}
    /\ UNCHANGED <<dials, attempt, disk, sessions, closing, polls, outcome,
                   server, files>>

\* The second attempt goes on with the list of the first.
BugSessionsKept ==
    /\ Goto("retry", "query")
    /\ attempt' = 2
    /\ disk' = 1 /\ closing' = 1 /\ polls' = 0
    /\ UNCHANGED <<dials, sessions, outcome, over, server, files>>

\* "Retry - VDDK should be warm now".
Retry ==
    /\ Goto("retry", "query")
    /\ attempt' = 2
    /\ disk' = 1 /\ sessions' = 0 /\ closing' = 1 /\ polls' = 0
    /\ UNCHANGED <<dials, outcome, over, server, files>>

----------------------------------------------------------------------------
(* The environment: nbdkit, contexts. *)

\* nbdkit creates its socket and listens, even while it is asked to stop.
Listen(s) ==
    /\ server[s] = "running"
    /\ s \notin socket
    /\ socket' = socket \cup {s}
    /\ UNCHANGED <<pc, dials, attempt, disk, sessions, closing, polls, outcome,
                   over, server, password>>

\* nbdkit ends: the VDDK crash, openCtx that kills it, the interrupt of
\* Close.  An orderly end takes the socket along.  Nobody waits for it yet.
Exit(s) ==
    /\ server[s] = "running"
    /\ server' = [server EXCEPT ![s] = "exited"]
    /\ socket' \in {socket, socket \ {s}}
    /\ UNCHANGED <<pc, dials, attempt, disk, sessions, closing, polls, outcome,
                   over, password>>

AttemptRuns == pc \notin {"query", "retry", "returned"}

CancelCaller ==
    /\ pc # "returned" /\ "caller" \notin over
    /\ over' = over \cup {"caller"}
    /\ UNCHANGED <<pc, dials, attempt, disk, sessions, closing, polls, outcome,
                   server, files>>

OpenDeadline ==
    /\ AttemptRuns /\ "open" \notin over
    /\ over' = over \cup {"open"}
    /\ UNCHANGED <<pc, dials, attempt, disk, sessions, closing, polls, outcome,
                   server, files>>

\* inspectCtx has the timeout of openCtx and starts after it.
EngineDeadline ==
    /\ pc = "engine" /\ "open" \in over /\ "engine" \notin over
    /\ over' = over \cup {"engine"}
    /\ UNCHANGED <<pc, dials, attempt, disk, sessions, closing, polls, outcome,
                   server, files>>

\* A context that is over kills virt-inspector, whatever it has written.
EngineKilled ==
    /\ over \cap {"caller", "engine"} # {}
    /\ EngineFails

----------------------------------------------------------------------------

\* What only vCenter can bring to an end.
VCenterStep == QueryDisks \/ QueryFails \/ DialOk \/ DialFails

CodeStep ==
    \/ Pin
    \/ CreatePassword \/ CreatePasswordFails
    \/ Start \/ StartFails \/ SettleCheck
    \/ SocketFound \/ SocketMissing \/ LookAgain \/ NotReady
    \/ EngineStart \/ EngineRefused
    \/ Interrupt \/ Gone \/ Kill \/ WaitKilled \/ Unlink
    \/ AttemptEnds \/ Retry

Next ==
    \/ VCenterStep \/ CodeStep \/ WaitEnds
    \/ EngineSucceeds \/ EngineFails
    \/ \E s \in Attempts \X Disks : Listen(s) \/ Exit(s)
    \/ CancelCaller \/ OpenDeadline \/ EngineDeadline

Spec == Init /\ [][Next]_vars

\* The goroutine runs; contexts run out; a command whose context is over is
\* killed.  Nothing makes vCenter answer, nbdkit listen or virt-inspector end.
Fairness ==
    /\ WF_vars(CodeStep)
    /\ WF_vars(OpenDeadline) /\ WF_vars(EngineDeadline)
    /\ WF_vars(EngineKilled)
FairSpec == Spec /\ Fairness

----------------------------------------------------------------------------

TypeOK ==
    /\ pc       \in PCs
    /\ dials    \in BOOLEAN
    /\ attempt  \in Attempts
    /\ disk     \in Disks
    /\ sessions \in 0 .. NumDisks
    /\ closing  \in 1 .. NumDisks + 1
    /\ polls    \in 0 .. MaxPolls
    /\ outcome  \in Outcomes
    /\ over     \subseteq {"caller", "open", "engine"}
    /\ server   \in [Attempts \X Disks ->
                        {"none", "running", "exited", "reaped"}]
    /\ socket   \subseteq Attempts \X Disks
    /\ password \subseteq Attempts \X Disks

AtRest == pc \in {"query", "retry", "returned"}

\* Between the attempts, and once Inspect has returned, no nbdkit process it
\* started still runs, and none is left for somebody to wait for: whatever
\* failed, a server is in the list of sessions before anything can go wrong.
NoServerLeft ==
    AtRest => \A s \in Attempts \X Disks : server[s] \in {"none", "reaped"}

\* The socket files are gone too: Close removes a file only after the process
\* that could still create it.
NoSocketLeft == AtRest => socket = {}

\* A password file that outlives its attempt is the one of a server that was
\* never started; there is at most one per attempt.
PasswordsLeft ==
    AtRest =>
        /\ \A s \in password : server[s] = "none"
        /\ \A s1, s2 \in password : s1[1] = s2[1] => s1 = s2

\* virt-inspector is given every disk of the VM, each by a session of this
\* attempt that has not been closed.
EngineHasAllDisks ==
    pc = "engine" =>
        /\ sessions = NumDisks
        /\ \A d \in Disks : server[<<attempt, d>>] \in {"running", "exited"}

Opening ==
    pc \in {"pin", "dial", "password", "start", "settle", "ready", "nap", "run"}

ScopeUp == {s \in Attempts \X Disks :
                server[s] \in {"running", "exited"} \/ s \in socket}

ScopeState ==
    IF Opening THEN "opening"
    ELSE IF pc = "engine" THEN "inUse"
    ELSE IF AtRest \/ ScopeUp = {} THEN "closed"
    ELSE "closing"

ScopeNeeds ==
    IF Opening \/ pc = "engine" \/ (~AtRest /\ ScopeUp # {})
    THEN {attempt} \X Disks ELSE {}

Scope == INSTANCE ServerScope WITH
    Servers <- Attempts \X Disks,
    scope   <- ScopeState,
    needed  <- ScopeNeeds,
    up      <- ScopeUp

\* An attempt is a scope of its servers: they are there while virt-inspector
\* runs, none is closed under it, none is started once closing has begun, and
\* neither the process nor the socket of one outlives it.
ImplementsScope == Scope!ScopeSpec

\* Inspect returns, whatever nbdkit and virt-inspector do, unless vCenter keeps
\* it in a query or in tls.Dial for ever: neither has a timeout.
Returns == <>(pc = "returned") \/ <>[](pc \in {"query", "dial"})

\* "Check if process has exited by sending signal 0": an nbdkit that is gone
\* when the check is made does not pass it.
ExitIsNoticed ==
    [][pc = "settle" /\ pc' = "ready" => server[Current] = "running"]_vars

\* "Close stops the nbdkit process and cleans up": no password file is left
\* once Inspect has returned.
NoPasswordLeft == pc = "returned" => password = {}
=============================================================================
