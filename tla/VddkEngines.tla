---------------------------- MODULE VddkEngines ----------------------------
(***************************************************************************)
(* The calls that read a disk through VDDK, in one process with several    *)
(* Detectors: NewDetector, which sets the library directory of the process *)
(* (internal/vddk) and makes TLS settings of the credentials, and the two  *)
(* engines that use both, VirtV2vInspector.Inspect as a whole and          *)
(* OpenWithNBDKitVDDK up to the start of nbdkit (SnapshotSession has the   *)
(* rest of it).                                                            *)
(*                                                                         *)
(* A call does its steps in the order of the code and touches what others  *)
(* can see, the directory, once a step.  The logger is set.                *)
(*                                                                         *)
(* A definition named Bug... is the definition after it with one mistake a *)
(* change of the code could make; it is not part of EnginesNext.           *)
(***************************************************************************)
EXTENDS TLSConfig, ToolOutput

CONSTANTS
    Detectors,
    Configs,        \* what NewDetector may be given
    V2VCalls,       \* calls of VirtV2vInspector.Inspect
    OpenCalls,      \* calls of OpenWithNBDKitVDDK
    Installed,      \* the library directories that exist
    NfcPlugin,      \* whether the nfc plugin of nbdkit exists
    LibraryPath,    \* directories d with d/lib64 in LD_LIBRARY_PATH
    VendorNamed,    \* those with vmware-vix-disklib in their name
    Certs,          \* certificates that may answer for the vCenter
    V2VOutputs      \* what virt-v2v-inspector may print

Calls == V2VCalls \cup OpenCalls

ASSUME CallsAssumption  == V2VCalls \cap OpenCalls = {}
ASSUME ConfigsAssumption ==
    Configs \subseteq
        [vcenter : BOOLEAN, login : BOOLEAN, libDir : STRING,
         creds : [insecure : BOOLEAN, caCert : STRING,
                  thumbprint : [digest : STRING, form : STRING]]]
ASSUME CertsAssumption  == Certs \subseteq [digest : STRING, issuer : STRING]
ASSUME OutputAssumption ==
    V2VOutputs \subseteq [words : SUBSET Words, stream : Seq(Tokens)]

Directories == {cf.libDir : cf \in Configs} \cup {""}

VARIABLES
    libDir,     \* vddk.libDir, one for the process
    config,     \* the DetectorConfig of each NewDetector
    made,       \* "no", "refused", "failed" (after SetLibDir), "yes"
    tls,        \* Inspector.tlsConfig
    writes,     \* history: the Detectors that have called SetLibDir
    call        \* the calls of the engines

enginesVars == <<libDir, config, made, tls, writes, call>>

\* owner: whose Inspector it is; ctx: inspectCtx or openCtx; files: its
\* password file; result: with the error in place of the document.
Idle == [pc |-> "idle", owner |-> "", ctx |-> "live", thumbprint |-> NoThumbprint,
         dir |-> "", path |-> "", file |-> FALSE,
         ended |-> "no", words |-> {}, stream |-> <<>>,
         parsed |-> NoDocument, result |-> "none"]

NoConfig == [vcenter |-> FALSE, login |-> FALSE, libDir |-> "",
             creds |-> [insecure |-> FALSE, thumbprint |-> NoThumbprint, caCert |-> ""]]

EnginesInit ==
    /\ libDir = ""
    /\ config = [d \in Detectors |-> NoConfig]
    /\ made = [d \in Detectors |-> "no"]
    /\ tls = [d \in Detectors |-> Invalid]
    /\ writes = <<>>
    /\ call = [c \in Calls |-> Idle]

----------------------------------------------------------------------------
(* NewDetector and NewInspector. *)

\* Without a vCenter and a directory the Detector is for local disks.
IsValid(cf) ==
    \/ ~cf.vcenter /\ cf.libDir = ""
    \/ cf.vcenter /\ cf.login /\ cf.libDir # ""

RefuseDetector(d) ==
    /\ made[d] = "no"
    /\ \E cf \in Configs :
        /\ ~IsValid(cf)
        /\ config' = [config EXCEPT ![d] = cf]
    /\ made' = [made EXCEPT ![d] = "refused"]
    /\ UNCHANGED <<libDir, tls, writes, call>>

\* SetLibDir leaves the directory alone once there is one.
BugSetOnce(d) ==
    /\ made[d] = "no"
    /\ \E cf \in Configs, loads \in BOOLEAN :
        LET settings == FromCredentials(cf.creds, loads)
        IN  /\ IsValid(cf)
            /\ config' = [config EXCEPT ![d] = cf]
            /\ libDir' = IF libDir = "" THEN cf.libDir ELSE libDir
            /\ tls'    = [tls EXCEPT ![d] = settings]
            /\ made'   = [made EXCEPT ![d] =
                            IF settings = Invalid THEN "failed" ELSE "yes"]
    /\ writes' = Append(writes, d)
    /\ UNCHANGED call

\* SetLibDir comes first, and stays if FromCredentials fails after it.
NewDetector(d) ==
    /\ made[d] = "no"
    /\ \E cf \in Configs, loads \in BOOLEAN :
        LET settings == FromCredentials(cf.creds, loads)
        IN  /\ IsValid(cf)
            /\ config' = [config EXCEPT ![d] = cf]
            /\ libDir' = cf.libDir
            /\ tls'    = [tls EXCEPT ![d] = settings]
            /\ made'   = [made EXCEPT ![d] =
                            IF settings = Invalid THEN "failed" ELSE "yes"]
    /\ writes' = Append(writes, d)
    /\ UNCHANGED call

----------------------------------------------------------------------------
(* The calls. *)

\* Call c is at "from" and becomes "to".
Becomes(c, from, to) ==
    /\ call[c].pc = from
    /\ call' = [call EXCEPT ![c] = to]
    /\ UNCHANGED <<libDir, config, made, tls, writes>>

\* Inspect has an error or a document; with a password file there is a
\* deferred call to remove it.
Ended(cl, result) ==
    [cl EXCEPT !.result = result,
               !.pc = IF cl.file THEN "cleanup" ELSE "returned"]

TLSOf(c) == tls[call[c].owner]

StartCall(c) ==
    \E d \in Detectors :
        /\ made[d] = "yes" /\ config[d].vcenter
        /\ Becomes(c, "idle",
            [call[c] EXCEPT !.owner = d,
                            !.pc = IF c \in V2VCalls THEN "file" ELSE "pin"])

\* The caller knows of no compute resource.
NoComputeResource(c) ==
    /\ c \in V2VCalls
    /\ Becomes(c, "idle", Ended(call[c], "failed"))

\* createPasswordFile, createNBDKitPasswordFile.  The session removes the
\* file of the latter (SnapshotSession).
CreateFile(c) ==
    /\ c \in V2VCalls
    /\ Becomes(c, "file", [call[c] EXCEPT !.file = TRUE, !.pc = "pin"])

CreateOpenFile(c) ==
    /\ c \in OpenCalls
    /\ Becomes(c, "file", [call[c] EXCEPT !.pc = "dir"])

CreateFileFails(c) == Becomes(c, "file", Ended(call[c], "failed"))

AfterPin(c) == IF c \in V2VCalls THEN "dir" ELSE "file"

\* The pinned thumbprint, none in insecure mode, or that of the server.
Pin(c) ==
    LET pinned == ForNBDKit(TLSOf(c))
        dials  == pinned = NoThumbprint /\ ~TLSOf(c).insecure
    IN  /\ call[c].pc = "pin"
        /\ Becomes(c, "pin",
                [call[c] EXCEPT !.thumbprint = pinned,
                                !.pc = IF dials THEN "dial" ELSE AfterPin(c)])

DialOk(c) ==
    /\ call[c].pc = "dial"
    /\ \E cert \in Certs :
        /\ Accepts(TLSOf(c), cert)
        /\ Becomes(c, "dial", [call[c] EXCEPT !.thumbprint = ComputeThumbprint(cert),
                                              !.pc = AfterPin(c)])

\* "Secure modes must fail closed if the certificate cannot be verified."
DialFails(c) == Becomes(c, "dial", Ended(call[c], "failed"))

\* GetLibDir, and GetLibPath, which reads the directory again.
ReadLibDir(c) ==
    Becomes(c, "dir", [call[c] EXCEPT !.dir = libDir,
                                      !.pc = IF c \in V2VCalls THEN "path" ELSE "start"])

ReadLibPath(c) ==
    Becomes(c, "path", [call[c] EXCEPT !.path = libDir, !.pc = "start"])

\* The command of either engine: its plugin and what it is told of the
\* server, the directory and the libraries.
Plugin(c) == IF call[c].dir \in Installed THEN "vddk" ELSE "nfc"
LibDirArg(c) == IF Plugin(c) = "vddk" THEN call[c].dir ELSE ""
VerifyArg(c) == ForVirtV2V(TLSOf(c))    \* in the URL of virt-v2v-inspector
FilteredPath(c) ==
    IF c \in V2VCalls
    THEN {p \in LibraryPath : p # call[c].path /\ p \notin VendorNamed}
    ELSE LibraryPath

\* exec starts nothing once the context is over.  nbdkit is a server: the
\* call ends with its start.
StartEngine(c) ==
    /\ call[c].ctx = "live"
    /\ c \in OpenCalls => Plugin(c) = "vddk" \/ NfcPlugin
    /\ Becomes(c, "start",
            [call[c] EXCEPT !.pc = IF c \in V2VCalls THEN "running" ELSE "opened"])

\* The context is over, or there is no such program or plugin.
EngineRefused(c) ==
    Becomes(c, "start",
        IF c \in V2VCalls THEN [call[c] EXCEPT !.ended = "error", !.pc = "judge"]
                          ELSE Ended(call[c], "failed"))

EngineEndsWith(c, how, words, stream, parsed) ==
    Becomes(c, "running",
        [call[c] EXCEPT !.ended = how, !.words = words, !.stream = stream,
                        !.parsed = parsed, !.pc = "judge"])

\* virt-v2v-inspector ends, having printed something, or is killed because
\* the context is over.  stdout is looked at after a success only, and parsed
\* here: what it says does not change.
EngineSucceeds(c) ==
    \E out \in V2VOutputs :
        EngineEndsWith(c, "ok", {}, out.stream, ParseV2VInspectionXML(out.stream))

EngineErrs(c) ==
    \E out \in V2VOutputs : EngineEndsWith(c, "error", out.words, <<>>, NoDocument)

EngineKilled(c) ==
    /\ call[c].ctx # "live"
    /\ \E out \in V2VOutputs :
        EngineEndsWith(c, "killed", out.words, <<>>, NoDocument)

\* The output is looked at before the context.
BugWordsFirst(cl) ==
    IF cl.ended # "ok"
    THEN IF IsEncryptedDiskError(cl.words) THEN "encrypted"
         ELSE IF cl.ctx = "live" THEN "failed" ELSE cl.ctx
    ELSE IF ~cl.parsed.ok THEN "failed"
    ELSE IF cl.parsed.oses = 0 THEN "empty" ELSE "document"

\* The context first, even if the engine has succeeded; then the exit code,
\* with the words of the output; then the document.
Judgement(cl) ==
    IF cl.ctx # "live" THEN cl.ctx
    ELSE IF cl.ended # "ok"
    THEN IF IsEncryptedDiskError(cl.words) THEN "encrypted" ELSE "failed"
    ELSE IF ~cl.parsed.ok THEN "failed"
    ELSE IF cl.parsed.oses = 0 THEN "empty" ELSE "document"

\* A failure is tried again until it is none.
BugRetriedForever(c) ==
    Becomes(c, "judge",
        IF call[c].ended = "ok" THEN Ended(call[c], Judgement(call[c]))
                                ELSE [call[c] EXCEPT !.pc = "start"])

Judge(c) == Becomes(c, "judge", Ended(call[c], Judgement(call[c])))

\* The file is removed after a success only.
BugRemoveOnSuccess(c) ==
    Becomes(c, "cleanup",
        [call[c] EXCEPT !.file = call[c].result # "document", !.pc = "returned"])

RemoveFile(c) ==
    Becomes(c, "cleanup", [call[c] EXCEPT !.file = FALSE, !.pc = "returned"])

AtEnd(c)  == call[c].pc \in {"opened", "returned"}

\* The caller has the result, and may call again.
Take(c) == AtEnd(c) /\ Becomes(c, call[c].pc, Idle)

\* The caller cancels, or the timeout runs out.
ContextEnds(c, how) ==
    /\ call[c].pc # "idle" /\ ~AtEnd(c)
    /\ call[c].ctx = "live"
    /\ Becomes(c, call[c].pc, [call[c] EXCEPT !.ctx = how])

----------------------------------------------------------------------------

Construct == \E d \in Detectors : RefuseDetector(d) \/ NewDetector(d)

CallBegins == \E c \in Calls : StartCall(c) \/ NoComputeResource(c)

EngineStep(c) ==
    \/ CreateFile(c) \/ CreateOpenFile(c) \/ CreateFileFails(c) \/ Pin(c)
    \/ ReadLibDir(c) \/ ReadLibPath(c) \/ StartEngine(c) \/ EngineRefused(c)
    \/ Judge(c) \/ RemoveFile(c)

CallGoesOn ==
    \E c \in Calls :
        \/ EngineStep(c)
        \/ DialOk(c) \/ DialFails(c) \/ Take(c)
        \/ EngineSucceeds(c) \/ EngineErrs(c) \/ EngineKilled(c)
        \/ ContextEnds(c, "timeout") \/ ContextEnds(c, "cancelled")

EnginesNext == Construct \/ CallBegins \/ CallGoesOn

EnginesSpec == EnginesInit /\ [][EnginesNext]_enginesVars

\* Goroutines run, timeouts run out, and what is killed ends.  Nothing makes
\* a server answer tls.Dial, which has no timeout, or an engine end.
EnginesFairness ==
    \A c \in Calls :
        /\ WF_enginesVars(EngineStep(c))
        /\ WF_enginesVars(ContextEnds(c, "timeout"))
        /\ WF_enginesVars(EngineKilled(c))

----------------------------------------------------------------------------

CallPCs == {"idle", "file", "pin", "dial", "dir", "path", "start", "running",
            "judge", "cleanup", "opened", "returned"}

Thumbprints == [digest : {cf.creds.thumbprint.digest : cf \in Configs}
                         \cup {cert.digest : cert \in Certs} \cup {""},
                form : {"AA:BB", ""}]

Parses == {ParseV2VInspectionXML(out.stream) : out \in V2VOutputs} \cup {NoDocument}

CallRecords ==
    [pc : CallPCs, owner : Detectors \cup {""},
     ctx : {"live", "timeout", "cancelled"}, thumbprint : Thumbprints,
     dir : Directories, path : Directories, file : BOOLEAN,
     ended : {"no", "ok", "error", "killed"}, words : SUBSET Words,
     stream : Seq(Tokens), parsed : Parses,
     result : {"none", "timeout", "cancelled", "encrypted", "failed",
               "empty", "document"}]

EnginesTypeOK ==
    /\ libDir \in Directories
    /\ config \in [Detectors -> Configs \cup {NoConfig}]
    /\ made   \in [Detectors -> {"no", "refused", "failed", "yes"}]
    /\ tls    \in [Detectors ->
                    [insecure : BOOLEAN, thumbprint : Thumbprints,
                     rootCA : {cf.creds.caCert : cf \in Configs} \cup {""}]]
    /\ writes \in Seq(Detectors)
    /\ call   \in [Calls -> CallRecords]

\* Once its engine has been started.
Started(c) == call[c].pc = "opened" \/ call[c].pc = "running"

\* The directories set since Detector d was made.
SetSince(d) ==
    {config[writes[j]].libDir : j \in
        {i \in DOMAIN writes : \E k \in 1 .. i : writes[k] = d}}

\* An engine that runs was started with a directory that was set no earlier
\* than its own Detector was made.  So as long as nobody sets another one, it
\* is that of the Detector, the libraries in LD_LIBRARY_PATH are not those of
\* it, and what Detectors did before does not matter.
LibDirSetSinceOwner ==
    \A c \in Calls : Started(c) =>
        LET since == SetSince(call[c].owner)
        IN  /\ call[c].dir \in since
            /\ c \in V2VCalls => call[c].path \in since
            /\ c \in V2VCalls /\ Plugin(c) = "vddk"
               /\ since = {config[call[c].owner].libDir}
                => LibDirArg(c) \notin FilteredPath(c)

\* Nothing but insecure mode, or no credentials to verify a server with.
Unverified(creds) ==
    creds.insecure \/ (creds.thumbprint = NoThumbprint /\ creds.caCert = "")

\* What the server has to have, given these credentials.
Verifies(creds, thumbprint) ==
    IF Unverified(creds) THEN thumbprint = NoThumbprint
    ELSE IF creds.thumbprint # NoThumbprint
    THEN thumbprint = Formatted(creds.thumbprint.digest)
    ELSE \E cert \in Certs : /\ cert.issuer = creds.caCert
                            /\ thumbprint = Formatted(cert.digest)

\* Verification by a bundle: a thumbprint would come before it.
TrustsBundle(creds) == ~Unverified(creds) /\ creds.thumbprint = NoThumbprint

\* "Secure modes must fail closed": an engine that runs for a Detector with a
\* thumbprint or a bundle in its credentials reads the disks from a server
\* with that thumbprint in VMware's format, or with one of a certificate that
\* the bundle has verified; and libvirt verifies the server with the bundle if
\* there is one to verify with.  It does not verify it in any other mode, that
\* of the thumbprint included.
VerifiedAsConfigured ==
    \A c \in Calls : Started(c) =>
        LET creds == config[call[c].owner].creds
        IN  /\ Verifies(creds, call[c].thumbprint)
            /\ c \in V2VCalls => VerifyArg(c) = IF TrustsBundle(creds)
                                                THEN CACert(creds.caCert)
                                                ELSE NoVerify

NamedAfter(cl) ==
    cl.result # "none" =>
        /\ cl.ended = "killed" => cl.result \in {"timeout", "cancelled"}
        /\ cl.result = "encrypted" => cl.ended = "error"
        /\ cl.result \in {"document", "empty"} => cl.ended = "ok"

\* An inspection is named after what ended it: one that was killed is a
\* timeout or a cancellation, whatever its output says, and only an engine
\* that ended by itself tells of encryption or has a document.
NamedAfterItsCause == \A c \in V2VCalls : NamedAfter(call[c])

\* Whether the messages around a document are just that: the elements in the
\* stream are one <v2v-inspection> and the operating systems in it.
PrintsDocument(stream) ==
    \E i, j, k \in DOMAIN stream :
        /\ i < j /\ j < k
        /\ stream[i] = "v2v" /\ stream[j] = "os" /\ stream[k] = "/v2v"
        /\ \A n \in DOMAIN stream \ {i, j, k} :
            \/ stream[n] \in {"debug", "newline", "text"}
            \/ n < i /\ stream[n] = "decl"
            \/ i < n /\ n < k /\ stream[n] = "os"

\* A document the tool has printed between its messages is found if the tool
\* succeeded in time, and none is made up.
DocumentFound ==
    \A c \in V2VCalls : call[c].ended = "ok" =>
        /\ call[c].pc = "returned" /\ PrintsDocument(call[c].stream)
            => call[c].result \in {"document", "timeout", "cancelled"}
        /\ call[c].result = "document" => FirstOf(call[c].stream, {"os"}) > 0

\* The password is on disk while virt-v2v-inspector runs and is gone when
\* Inspect returns, on whichever way.
PasswordFileScoped ==
    \A c \in V2VCalls :
        /\ call[c].pc = "running" => call[c].file
        /\ call[c].pc = "returned" => ~call[c].file

\* A call that has begun comes to its end, unless it hangs in tls.Dial.
CallReturns ==
    \A c \in Calls : []<>(call[c].pc \in {"idle", "dial"} \/ AtEnd(c))

\* "supports TLS verification for all vCenter connections", by a bundle or by
\* a thumbprint: libvirt, which is told the password, verifies the server too.
EveryConnectionVerified ==
    \A c \in V2VCalls :
        Started(c) /\ ~Unverified(config[call[c].owner].creds)
            => VerifyArg(c) # NoVerify

\* "Inspector Creation: Creates managed inspector instance with VDDK
\* configuration": the engine of a Detector is started with the directory
\* that Detector was given.
OwnLibDir ==
    \A c \in Calls : Started(c) => call[c].dir = config[call[c].owner].libDir
=============================================================================
