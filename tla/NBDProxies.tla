----------------------------- MODULE NBDProxies -----------------------------
(***************************************************************************)
(* One call of Detector.DetectNBD: ResolveNBDURLsForInspector puts an      *)
(* nbdkit-nbd proxy in front of every nbds:// URL                          *)
(* (internal/inspection/nbdkit_nbd.go), InspectLocal runs virt-inspector   *)
(* on the URLs that come out, and the closer closes the proxies.           *)
(*                                                                         *)
(* The proxies are NBDKitSessions like those of SnapshotSession, but run   *)
(* under the caller's context alone, and the one that does not get ready   *)
(* is closed before it is in the list.                                     *)
(*                                                                         *)
(* A definition named Bug... is the definition after it with one mistake a *)
(* change of the code could make; it is not part of NBDNext.               *)
(***************************************************************************)
EXTENDS ToolOutput, FiniteSetsExt

CONSTANTS
    NumURLs,        \* URLs of the call
    MaxPolls,       \* looks at the socket before WaitForReady gives up
    LocalOutputs    \* what virt-inspector may print to stdout

ASSUME NumURLsAssumption  == NumURLs \in Nat \ {0}
ASSUME MaxPollsAssumption == MaxPolls \in Nat \ {0}
ASSUME LocalOutputsAssumption == LocalOutputs \subseteq Seq(Tokens)

URLs == 1 .. NumURLs

VARIABLES
    nbds,       \* the URLs that are nbds:// or nbds+...
    certs,      \* whether TLSCertificates is given
    pc,
    url,        \* index of the URL the loop is at
    out,        \* the URLs for virt-inspector so far
    sessions,   \* the proxies somebody still has to close
    polls,      \* looks at the socket so far in this WaitForReady
    over,       \* contexts cancelled or past their deadline
    proxy,      \* the nbdkit process of a URL
    socket,     \* the proxies whose Unix socket file exists
    stdout,     \* what virt-inspector has printed
    result      \* the number of operating systems, or why there is none

nbdVars == <<nbds, certs, pc, url, out, sessions, polls, over, proxy, socket,
             stdout, result>>

Raw(u)    == [kind |-> "raw", of |-> u]
Socket(u) == [kind |-> "socket", of |-> u]
Format(f) == [kind |-> "format", of |-> f]

Nothing == [kind |-> "none", oses |-> 0]
Failed  == [kind |-> "failed", oses |-> 0]

NBDPCs == {"idle", "resolve", "start", "ready", "nap", "run", "engine",
           "close", "unlink", "returned"}

NBDInit ==
    /\ nbds = {} /\ certs = FALSE
    /\ pc = "idle" /\ url = 1
    /\ out = <<>> /\ sessions = {} /\ polls = 0
    /\ over = {}
    /\ proxy = [u \in URLs |-> "none"]
    /\ socket = {}
    /\ stdout = <<>> /\ result = Nothing

Goto(from, to) == pc = from /\ pc' = to

\* The call has come to r: close the proxies there are.
CloseAll(from, r) ==
    /\ Goto(from, "close")
    /\ result' = r

----------------------------------------------------------------------------
(* ResolveNBDURLsForInspector *)

DetectNBD ==
    /\ Goto("idle", "resolve")
    /\ nbds' \in SUBSET URLs
    /\ certs' \in BOOLEAN
    /\ UNCHANGED <<url, out, sessions, polls, over, proxy, socket,
                   stdout, result>>

ResolveRaw ==
    /\ Goto("resolve", "resolve")
    /\ url \in URLs \ nbds
    /\ out' = Append(out, Raw(url))
    /\ url' = url + 1
    /\ UNCHANGED <<nbds, certs, sessions, polls, over, proxy, socket, stdout,
                   result>>

ResolveNBDS ==
    /\ Goto("resolve", "start")
    /\ url \in nbds /\ certs
    /\ UNCHANGED <<nbds, certs, url, out, sessions, polls, over, proxy, socket,
                   stdout, result>>

\* "nbds:// URL requires TLSCertificates directory".
CertificatesMissing ==
    /\ CloseAll("resolve", Failed)
    /\ url \in nbds /\ ~certs
    /\ UNCHANGED <<nbds, certs, url, out, sessions, polls, over, proxy, socket,
                   stdout>>

Resolved ==
    /\ Goto("resolve", "run")
    /\ url > NumURLs
    /\ UNCHANGED <<nbds, certs, url, out, sessions, polls, over, proxy, socket,
                   stdout, result>>

----------------------------------------------------------------------------
(* openNBDProxy *)

StartProxy ==
    /\ Goto("start", "ready")
    /\ "caller" \notin over
    /\ proxy' = [proxy EXCEPT ![url] = "running"]
    /\ sessions' = sessions \cup {url}
    /\ polls' = 0
    /\ UNCHANGED <<nbds, certs, url, out, over, socket, stdout, result>>

\* The proxies opened before this one are forgotten.
BugNoCloser ==
    /\ CloseAll("start", Failed)
    /\ sessions' = {}
    /\ UNCHANGED <<nbds, certs, url, out, polls, over, proxy, socket, stdout>>

\* nbdkit cannot be started, or the context is over.
ProxyFails ==
    /\ CloseAll("start", Failed)
    /\ UNCHANGED <<nbds, certs, url, out, sessions, polls, over, proxy, socket,
                   stdout>>

\* The URL of the server goes to virt-inspector, not that of the proxy.
BugRemoteURL ==
    /\ Goto("ready", "resolve")
    /\ url \in socket
    /\ out' = Append(out, Raw(url))
    /\ url' = url + 1
    /\ UNCHANGED <<nbds, certs, sessions, polls, over, proxy, socket, stdout,
                   result>>

\* WaitForReady looks for the socket file; the process counts as alive until
\* somebody has waited for it, whether it has ended or not.
SocketFound ==
    /\ Goto("ready", "resolve")
    /\ url \in socket
    /\ out' = Append(out, Socket(url))
    /\ url' = url + 1
    /\ UNCHANGED <<nbds, certs, sessions, polls, over, proxy, socket, stdout,
                   result>>

SocketMissing ==
    /\ Goto("ready", "nap")
    /\ url \notin socket
    /\ polls' = polls + 1
    /\ UNCHANGED <<nbds, certs, url, out, sessions, over, proxy, socket, stdout,
                   result>>

LookAgain ==
    /\ Goto("nap", "ready")
    /\ polls < MaxPolls
    /\ UNCHANGED <<nbds, certs, url, out, sessions, polls, over, proxy, socket,
                   stdout, result>>

\* The proxy that is not ready is in no list, and nobody closes it.
BugNotReadyKept ==
    /\ CloseAll("nap", Failed)
    /\ polls = MaxPolls
    /\ sessions' = sessions \ {url}
    /\ UNCHANGED <<nbds, certs, url, out, polls, over, proxy, socket, stdout>>

\* The loop of WaitForReady begins again at its end.
BugNeverNotReady ==
    /\ Goto("nap", "ready")
    /\ polls = MaxPolls
    /\ polls' = 0
    /\ UNCHANGED <<nbds, certs, url, out, sessions, over, proxy, socket, stdout,
                   result>>

\* openNBDProxy closes the one that is not ready, its caller the others.
NotReady ==
    /\ CloseAll("nap", Failed)
    /\ polls = MaxPolls
    /\ UNCHANGED <<nbds, certs, url, out, sessions, polls, over, proxy, socket,
                   stdout>>

----------------------------------------------------------------------------
(* DetectLocal, InspectLocal *)

\* --format precedes the -a it belongs to.
LocalInspectorArgs(paths, formats) ==
    FlattenSeq([i \in DOMAIN paths |->
        IF i \in DOMAIN formats /\ formats[i] # ""
        THEN <<Format(formats[i]), "-a", paths[i]>> ELSE <<"-a", paths[i]>>])

LocalArgs == LocalInspectorArgs(out, [i \in DOMAIN out |-> "raw"])

LocalStart ==
    /\ Goto("run", "engine")
    /\ "caller" \notin over
    /\ UNCHANGED <<nbds, certs, url, out, sessions, polls, over, proxy, socket,
                   stdout, result>>

LocalRefused ==
    /\ CloseAll("run", Failed)
    /\ UNCHANGED <<nbds, certs, url, out, sessions, polls, over, proxy, socket,
                   stdout>>

\* Exit code 0: the document, if there is one in the output.
LocalReport(s) ==
    LET parsed == ParseInspectionXML(s)
    IN  IF parsed.ok THEN [kind |-> "report", oses |-> parsed.oses] ELSE Failed

LocalSucceeds ==
    /\ \E s \in LocalOutputs :
        /\ stdout' = s
        /\ CloseAll("engine", LocalReport(s))
    /\ UNCHANGED <<nbds, certs, url, out, sessions, polls, over, proxy, socket>>

\* Another exit code: the words of the output tell of encryption or do not.
LocalFails ==
    /\ \E kind \in {"encrypted", "failed"} :
        CloseAll("engine", [kind |-> kind, oses |-> 0])
    /\ UNCHANGED <<nbds, certs, url, out, sessions, polls, over, proxy, socket,
                   stdout>>

LocalKilled == over # {} /\ LocalFails

----------------------------------------------------------------------------
(* The closer; Close of the proxy that is not ready comes before it. *)

Closing == IF url \in sessions THEN url ELSE Min(sessions)

\* Interrupt, wait, kill after 5 s, wait.
Reap ==
    /\ Goto("close", "unlink")
    /\ sessions # {}
    /\ proxy' = [proxy EXCEPT ![Closing] = "reaped"]
    /\ UNCHANGED <<nbds, certs, url, out, sessions, polls, over, socket, stdout,
                   result>>

Unlink ==
    /\ Goto("unlink", "close")
    /\ socket' = socket \ {Closing}
    /\ sessions' = sessions \ {Closing}
    /\ UNCHANGED <<nbds, certs, url, out, polls, over, proxy, stdout, result>>

Return ==
    /\ Goto("close", "returned")
    /\ sessions = {}
    /\ UNCHANGED <<nbds, certs, url, out, sessions, polls, over, proxy, socket,
                   stdout, result>>

\* The caller has the result, and may call again.
TakeReport ==
    /\ Goto("returned", "idle")
    /\ nbds' = {} /\ certs' = FALSE
    /\ url' = 1 /\ out' = <<>> /\ polls' = 0 /\ over' = {}
    /\ proxy' = [u \in URLs |-> "none"]
    /\ stdout' = <<>> /\ result' = Nothing
    /\ UNCHANGED <<sessions, socket>>

----------------------------------------------------------------------------
(* The environment: nbdkit, contexts. *)

Listen(u) ==
    /\ proxy[u] = "running" /\ u \notin socket
    /\ socket' = socket \cup {u}
    /\ UNCHANGED <<nbds, certs, pc, url, out, sessions, polls, over, proxy,
                   stdout, result>>

\* nbdkit ends, or the context kills it; nobody waits for it yet.
Exit(u) ==
    /\ proxy[u] = "running"
    /\ proxy' = [proxy EXCEPT ![u] = "exited"]
    /\ socket' \in {socket, socket \ {u}}
    /\ UNCHANGED <<nbds, certs, pc, url, out, sessions, polls, over, stdout,
                   result>>

CancelCaller ==
    /\ pc \notin {"idle", "returned"}
    /\ "caller" \notin over /\ over' = over \cup {"caller"}
    /\ UNCHANGED <<nbds, certs, pc, url, out, sessions, polls, proxy, socket,
                   stdout, result>>

\* The timeout of InspectLocal.
LocalDeadline ==
    /\ pc = "engine"
    /\ "engine" \notin over /\ over' = over \cup {"engine"}
    /\ UNCHANGED <<nbds, certs, pc, url, out, sessions, polls, proxy, socket,
                   stdout, result>>

----------------------------------------------------------------------------

NBDStep ==
    \/ ResolveRaw \/ ResolveNBDS \/ CertificatesMissing \/ Resolved
    \/ StartProxy \/ ProxyFails
    \/ SocketFound \/ SocketMissing \/ LookAgain \/ NotReady
    \/ LocalStart \/ LocalRefused
    \/ Reap \/ Unlink \/ Return

NBDGoesOn ==
    \/ NBDStep
    \/ LocalSucceeds \/ LocalFails
    \/ \E u \in URLs : Listen(u) \/ Exit(u)
    \/ CancelCaller \/ LocalDeadline
    \/ TakeReport

NBDNext == DetectNBD \/ NBDGoesOn

NBDSpec == NBDInit /\ [][NBDNext]_nbdVars

\* As in SnapshotSession: nothing makes a proxy listen or the engine end.
NBDFairness ==
    /\ WF_nbdVars(NBDStep)
    /\ WF_nbdVars(LocalDeadline)
    /\ WF_nbdVars(LocalKilled)

----------------------------------------------------------------------------

LocalResults == {LocalReport(s) : s \in LocalOutputs}
                \cup [kind : {"none", "encrypted", "failed"}, oses : {0}]

NBDTypeOK ==
    /\ nbds     \subseteq URLs
    /\ certs    \in BOOLEAN
    /\ pc       \in NBDPCs
    /\ url      \in 1 .. NumURLs + 1
    /\ out      \in Seq([kind : {"raw", "socket"}, of : URLs])
    /\ sessions \subseteq URLs
    /\ polls    \in 0 .. MaxPolls
    /\ over     \subseteq {"caller", "engine"}
    /\ proxy    \in [URLs -> {"none", "running", "exited", "reaped"}]
    /\ socket   \subseteq URLs
    /\ stdout   \in Seq(Tokens)
    /\ result   \in LocalResults

\* When DetectNBD returns, no proxy it started runs or is still to be waited
\* for, and no socket file is left: whether all of them were opened, or one
\* in the middle was not, with or without certificates.
NoProxyLeft ==
    pc = "returned" =>
        /\ \A u \in URLs : proxy[u] \in {"none", "reaped"}
        /\ socket = {}

\* virt-inspector is given every URL of the caller, in order, each after its
\* format: nbds:// ones as the socket of a proxy that has not been closed, the
\* others as they were.
InspectorGetsEveryURL ==
    pc = "engine" =>
        /\ Len(LocalArgs) = 3 * NumURLs
        /\ \A u \in URLs :
            /\ LocalArgs[3 * u - 2] = Format("raw")
            /\ LocalArgs[3 * u - 1] = "-a"
            /\ LocalArgs[3 * u] = IF u \in nbds THEN Socket(u) ELSE Raw(u)
            /\ u \in nbds <=> proxy[u] \in {"running", "exited"}

ProxiesUp == {u \in URLs : proxy[u] \in {"running", "exited"} \/ u \in socket}

Opening == pc \in {"resolve", "start", "ready", "nap", "run"}

AtRest == pc \in {"idle", "returned"}

ScopeState ==
    IF Opening THEN "opening"
    ELSE IF pc = "engine" THEN "inUse"
    ELSE IF AtRest \/ ProxiesUp = {} THEN "closed"
    ELSE "closing"

ScopeNeeds ==
    IF Opening \/ pc = "engine" \/ (~AtRest /\ ProxiesUp # {}) THEN nbds ELSE {}

Scope == INSTANCE ServerScope WITH
    Servers <- URLs,
    scope   <- ScopeState,
    needed  <- ScopeNeeds,
    up      <- ProxiesUp

\* DetectNBD is a scope of its proxies, just as an attempt of Inspect is one
\* of its servers.
NBDImplementsScope == Scope!ScopeSpec

\* Markup of the document, which is not in a line of messages.
InMessage(s, i) ==
    \E j \in 1 .. i : s[j] = "debug" /\ \A k \in j .. i : s[k] # "newline"

Markup(s) == {i \in DOMAIN s : s[i] \notin {"text", "newline"} /\ ~InMessage(s, i)}

\* A document mixed with whole lines of messages is found, with all of its
\* operating systems and no others, unless a message contains a tag of the
\* list itself.
LocalDocument ==
    LET doc      == Markup(stdout)
        oses     == {i \in doc : stdout[i] = "os"}
        messages == {stdout[i] : i \in DOMAIN stdout \ doc}
    IN  /\ result.kind # "none" /\ oses # {}
        /\ stdout[Min(doc)] = "oses" /\ stdout[Max(doc)] = "/oses"
        /\ Cardinality(doc) = Cardinality(oses) + 2
        /\ messages \cap {"decl", "oses", "/oses"} = {}
        => result = [kind |-> "report", oses |-> Cardinality(oses)]

\* DetectNBD returns, whatever the proxies and virt-inspector do.
NBDReturns == []<>AtRest
=============================================================================
