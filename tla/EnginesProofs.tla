--------------------------- MODULE EnginesProofs ---------------------------
(***************************************************************************)
(* What is proved of VddkEngines for any number of Detectors and calls and *)
(* whatever they are given: the directory an engine is started with, the   *)
(* verification of the server, the password file, the name of a failure    *)
(* and what is made of the output of virt-v2v-inspector.                   *)
(*                                                                         *)
(* The argument: a Detector that is made has its settings from its         *)
(* configuration for good, its SetLibDir is in the history, and the        *)
(* directory is that of the last one in it; a call keeps what it has read  *)
(* of them.                                                                *)
(***************************************************************************)
EXTENDS VddkEngines, ToolProofs

\* What a Detector that was made has.
DetectorInv ==
    /\ \A i \in DOMAIN writes : made[writes[i]] \in {"failed", "yes"}
    /\ \A d \in Detectors : made[d] = "yes" =>
        /\ \E k \in DOMAIN writes : writes[k] = d
        /\ config[d] \in Configs
        /\ tls[d] = FromCredentials(config[d].creds, TRUE)
        /\ tls[d] # Invalid
    /\ libDir = IF writes = <<>> THEN "" ELSE config[writes[Len(writes)]].libDir

\* Whether call c, when it is at cl, has been through the pinning.
Pinned(c, cl) ==
    IF c \in V2VCalls THEN cl.pc \in {"dir", "path", "start", "running", "judge"}
                      ELSE cl.pc \in {"file", "dir", "start", "opened"}

\* What call c has when it is at cl.
Fits(c, cl) ==
    /\ cl.pc \notin {"idle", "cleanup", "returned"}
        => cl.owner \in Detectors /\ made[cl.owner] = "yes"
    /\ cl.pc \in {"path", "start", "running", "judge", "opened"}
        => cl.dir \in SetSince(cl.owner)
    /\ c \in V2VCalls /\ cl.pc \in {"start", "running", "judge"}
        => cl.path \in SetSince(cl.owner)
    /\ cl.pc = "dial" => /\ ~tls[cl.owner].insecure
                        /\ ForNBDKit(tls[cl.owner]) = NoThumbprint
    /\ Pinned(c, cl) => Verifies(config[cl.owner].creds, cl.thumbprint)
    /\ cl.file <=>
        /\ c \in V2VCalls
        /\ cl.pc \in {"pin", "dial", "dir", "path", "start", "running", "judge",
                      "cleanup"}
    /\ cl.pc \in {"path", "running", "judge", "cleanup"} => c \in V2VCalls
    /\ cl.pc = "opened" => c \in OpenCalls
    /\ cl.pc \notin {"judge", "cleanup", "returned"} => cl.ended = "no"
    /\ cl.pc = "judge" => cl.ended # "no"
    /\ cl.pc \notin {"cleanup", "returned"} => cl.result = "none"
    /\ cl.ended = "killed" => cl.ctx # "live"
    /\ NamedAfter(cl)

EInv ==
    /\ EnginesTypeOK
    /\ DetectorInv
    /\ \A c \in Calls : Fits(c, call[c])

----------------------------------------------------------------------------

\* Nobody has called anything yet.
LEMMA EnginesInitial == EnginesInit => EInv
<1> SUFFICES ASSUME EnginesInit PROVE EInv
  OBVIOUS
<1>0. Idle \in CallRecords
  BY DEF Idle, CallRecords, CallPCs, Thumbprints, NoThumbprint, Thumbprint,
         Directories, Words, Parses
<1>1. EnginesTypeOK
  <2>1. libDir \in Directories
    BY DEF EnginesInit, Directories
  <2>2. config \in [Detectors -> Configs \cup {NoConfig}]
    BY DEF EnginesInit
  <2>3. made \in [Detectors -> {"no", "refused", "failed", "yes"}]
    BY DEF EnginesInit
  <2>4. Invalid \in [insecure : BOOLEAN, thumbprint : Thumbprints,
                     rootCA : {cf.creds.caCert : cf \in Configs} \cup {""}]
    BY DEF Invalid, TLSSettings, Thumbprints, NoThumbprint, Thumbprint
  <2>5. writes \in Seq(Detectors)
    <3>1. writes = <<>>
      BY DEF EnginesInit
    <3> QED
      BY <3>1
  <2>6. call \in [Calls -> CallRecords]
    BY <1>0 DEF EnginesInit
  <2> QED
    BY <2>1, <2>2, <2>3, <2>4, <2>5, <2>6 DEF EnginesInit, EnginesTypeOK
<1>2. DetectorInv
  <2>0. writes = <<>> /\ libDir = ""
    BY DEF EnginesInit
  <2>1. DOMAIN writes = {}
    <3>1. writes \in Seq(Detectors)
      BY <1>1 DEF EnginesTypeOK
    <3>2. Len(writes) = 0
      BY <2>0
    <3> QED
      BY <3>1, <3>2
  <2>2. \A d \in Detectors : made[d] = "no"
    BY DEF EnginesInit
  <2> QED
    BY <2>0, <2>1, <2>2 DEF DetectorInv
<1>3. \A c \in Calls : Fits(c, call[c])
  BY DEF EnginesInit, Fits, Idle, Pinned, NamedAfter
<1> QED
  BY <1>1, <1>2, <1>3 DEF EInv

\* The settings a Detector is made with.
LEMMA SettingsTyped ==
    ASSUME NEW cf \in Configs, NEW loads \in BOOLEAN
    PROVE  FromCredentials(cf.creds, loads) \in
                [insecure : BOOLEAN, thumbprint : Thumbprints,
                 rootCA : {c.creds.caCert : c \in Configs} \cup {""}]
BY DEF FromCredentials, Insecure, Invalid, TLSSettings, NormalizeThumbprint,
       Formatted, NoThumbprint, Thumbprint, Thumbprints

\* Settings that are no error are those of a bundle that could be read.
LEMMA SettingsLoaded ==
    ASSUME NEW creds, NEW loads \in BOOLEAN,
           FromCredentials(creds, loads) # Invalid
    PROVE  FromCredentials(creds, loads) = FromCredentials(creds, TRUE)
BY DEF FromCredentials

----------------------------------------------------------------------------
(* A Detector is made, or refused. *)

\* The Detectors of a process, after one more of them is made or refused.
LEMMA ConstructDetectors ==
    ASSUME EInv, NEW d \in Detectors, RefuseDetector(d) \/ NewDetector(d)
    PROVE  /\ EnginesTypeOK'
           /\ DetectorInv'
           /\ \A e \in Detectors : made[e] = "yes" =>
                /\ made'[e] = "yes" /\ config'[e] = config[e] /\ tls'[e] = tls[e]
                /\ SetSince(e) \subseteq SetSince(e)'
           /\ call' = call
<1> USE DEF EInv
<1>w. writes \in Seq(Detectors)
  BY DEF EnginesTypeOK
<1>d. \A i \in DOMAIN writes : writes[i] \in Detectors
  BY <1>w
<1>1. CASE RefuseDetector(d)
  <2>1. PICK cf \in Configs : config' = [config EXCEPT ![d] = cf]
    BY <1>1 DEF RefuseDetector
  <2>2. \A i \in DOMAIN writes : writes[i] \in Detectors /\ writes[i] # d
    BY <1>1, <1>d DEF RefuseDetector, DetectorInv
  <2>3. EnginesTypeOK'
    BY <1>1, <2>1 DEF RefuseDetector, EnginesTypeOK
  <2>4. \A i \in DOMAIN writes : config'[writes[i]] = config[writes[i]]
    BY <2>1, <2>2 DEF EnginesTypeOK
  <2>5. \A e \in Detectors : SetSince(e)' = SetSince(e)
    BY <1>1, <2>4 DEF RefuseDetector, SetSince
  <2>6. \A e \in Detectors : e # d => config'[e] = config[e] /\ made'[e] = made[e]
    BY <1>1, <2>1 DEF RefuseDetector, EnginesTypeOK
  <2>7. writes # <<>> => Len(writes) \in DOMAIN writes
    BY <1>w
  <2>8. made[d] = "no" /\ made'[d] = "refused"
    BY <1>1 DEF RefuseDetector, EnginesTypeOK
  <2>9. DetectorInv'
    BY <1>1, <2>2, <2>4, <2>6, <2>7, <2>8, ZenonT(30) DEF RefuseDetector, DetectorInv
  <2> QED
    BY <1>1, <2>3, <2>5, <2>6, <2>8, <2>9 DEF RefuseDetector
<1>2. CASE NewDetector(d)
  <2>1. PICK cf \in Configs, loads \in BOOLEAN :
            LET settings == FromCredentials(cf.creds, loads)
            IN  /\ config' = [config EXCEPT ![d] = cf]
                /\ libDir' = cf.libDir
                /\ tls'    = [tls EXCEPT ![d] = settings]
                /\ made'   = [made EXCEPT ![d] =
                                IF settings = Invalid THEN "failed" ELSE "yes"]
    BY <1>2 DEF NewDetector
  <2>s. writes \in Seq(Detectors) /\ writes' = Append(writes, d)
    BY <1>2, <1>w DEF NewDetector
  <2>2. \A i \in DOMAIN writes : writes[i] \in Detectors /\ writes[i] # d
    BY <1>2, <1>d DEF NewDetector, DetectorInv
  <2>3. EnginesTypeOK'
    <3>1. libDir' \in Directories
      BY <2>1 DEF Directories
    <3>2. writes' \in Seq(Detectors)
      BY <2>s
    <3> QED
      BY <1>2, <2>1, <3>1, <3>2, SettingsTyped DEF NewDetector, EnginesTypeOK
  <2>4. \A i \in DOMAIN writes : config'[writes[i]] = config[writes[i]]
    BY <2>1, <2>2 DEF EnginesTypeOK
  <2>d. /\ DOMAIN writes \subseteq DOMAIN writes'
        /\ \A i \in DOMAIN writes : writes'[i] = writes[i]
        /\ Len(writes') \in DOMAIN writes' /\ writes'[Len(writes')] = d
        /\ DOMAIN writes' = DOMAIN writes \cup {Len(writes')}
    BY <2>s
  <2>5. \A e \in Detectors : SetSince(e) \subseteq SetSince(e)'
    <3> SUFFICES ASSUME NEW e \in Detectors,
                        NEW j \in DOMAIN writes,
                        NEW k \in 1 .. j, writes[k] = e
                 PROVE  config[writes[j]].libDir \in SetSince(e)'
      BY DEF SetSince
    <3>1. k \in DOMAIN writes /\ j \in DOMAIN writes' /\ writes'[k] = e
      BY <2>s, <2>d
    <3>2. config'[writes'[j]].libDir = config[writes[j]].libDir
      BY <2>4, <2>d
    <3> QED
      BY <3>1, <3>2 DEF SetSince
  <2>6. \A e \in Detectors : e # d => /\ config'[e] = config[e]
                                      /\ made'[e] = made[e] /\ tls'[e] = tls[e]
    BY <2>1 DEF EnginesTypeOK
  <2>7. /\ config'[d] = cf /\ tls'[d] = FromCredentials(cf.creds, loads)
        /\ made'[d] = IF tls'[d] = Invalid THEN "failed" ELSE "yes"
    BY <2>1 DEF EnginesTypeOK
  <2>8. made[d] = "no"
    BY <1>2 DEF NewDetector
  <2>9. DetectorInv'
    <3>1. \A i \in DOMAIN writes' : made'[writes'[i]] \in {"failed", "yes"}
      BY <2>2, <2>6, <2>7, <2>d, ZenonT(30) DEF DetectorInv
    <3>2. ASSUME NEW e \in Detectors, made'[e] = "yes"
          PROVE  /\ \E k \in DOMAIN writes' : writes'[k] = e
                 /\ config'[e] \in Configs
                 /\ tls'[e] = FromCredentials(config'[e].creds, TRUE)
                 /\ tls'[e] # Invalid
      <4>1. CASE e = d
        <5>1. tls'[d] # Invalid
          BY <2>7, <3>2, <4>1
        <5>2. tls'[d] = FromCredentials(config'[d].creds, TRUE)
          BY <2>7, <5>1, SettingsLoaded
        <5>3. \E k \in DOMAIN writes' : writes'[k] = d
          BY <2>d
        <5>4. config'[d] \in Configs
          BY <2>7
        <5> QED
          BY <4>1, <5>1, <5>2, <5>3, <5>4, Zenon
      <4>2. CASE e # d
        <5>1. made[e] = "yes"
          BY <2>6, <3>2, <4>2
        <5>2. PICK k \in DOMAIN writes : writes[k] = e
          BY <5>1 DEF DetectorInv
        <5>3. k \in DOMAIN writes' /\ writes'[k] = e
          BY <2>d, <5>2
        <5>4. /\ config[e] \in Configs /\ tls[e] # Invalid
              /\ tls[e] = FromCredentials(config[e].creds, TRUE)
          BY <5>1 DEF DetectorInv
        <5>5. config'[e] = config[e] /\ tls'[e] = tls[e]
          BY <2>6, <4>2
        <5> QED
          BY <5>3, <5>4, <5>5
      <4> QED
        BY <4>1, <4>2
    <3>3. writes' # <<>> /\ libDir' = config'[writes'[Len(writes')]].libDir
      BY <2>1, <2>7, <2>d, <2>s
    <3> QED
      BY <3>1, <3>2, <3>3 DEF DetectorInv
  <2> QED
    BY <1>2, <2>3, <2>5, <2>6, <2>8, <2>9 DEF NewDetector
<1> QED
  BY <1>1, <1>2

\* A new Detector sets the directory of the process, and leaves calls alone.
LEMMA ConstructKeeps ==
    ASSUME EInv, Construct
    PROVE  EInv'
<1>1. PICK d \in Detectors : RefuseDetector(d) \/ NewDetector(d)
  BY DEF Construct
<1>2. ASSUME NEW c \in Calls PROVE Fits(c, call[c])'
  <2>1. Fits(c, call[c]) /\ call' = call
    BY <1>1, ConstructDetectors DEF EInv
  <2>2. CASE call[c].pc \in {"idle", "cleanup", "returned"}
    BY <2>1, <2>2 DEF Fits, Pinned, NamedAfter
  <2>3. CASE call[c].pc \notin {"idle", "cleanup", "returned"}
    <3>1. /\ call[c].owner \in Detectors /\ made[call[c].owner] = "yes"
          /\ made'[call[c].owner] = "yes"
          /\ config'[call[c].owner] = config[call[c].owner]
          /\ tls'[call[c].owner] = tls[call[c].owner]
          /\ SetSince(call[c].owner) \subseteq SetSince(call[c].owner)'
      BY <1>1, <2>1, <2>3, ConstructDetectors DEF Fits
    <3> QED
      BY <2>1, <3>1 DEF Fits, Pinned, NamedAfter
  <2> QED
    BY <2>2, <2>3
<1> QED
  BY <1>1, <1>2, ConstructDetectors DEF EInv

----------------------------------------------------------------------------
(* A step of a call. *)

\* The fields of a Config are what they were made of.
LEMMA SecureFields ==
    ASSUME NEW settings, NEW thumbprint, NEW rootCA,
           settings = TLSSettings(FALSE, thumbprint, rootCA)
    PROVE  /\ ~settings.insecure /\ settings.thumbprint = thumbprint
           /\ settings.rootCA = rootCA
BY DEF TLSSettings

\* ... and of the insecure one.
LEMMA InsecureField == Insecure.insecure
BY DEF Insecure, TLSSettings

\* What a made Detector tells the tools verifies the server.
LEMMA SettingsVerify ==
    ASSUME NEW cf \in Configs, NEW settings,
           settings = FromCredentials(cf.creds, TRUE), settings # Invalid
    PROVE  /\ ForVirtV2V(settings) = IF TrustsBundle(cf.creds)
                                     THEN CACert(cf.creds.caCert) ELSE NoVerify
           /\ settings.insecure \/ ForNBDKit(settings) # NoThumbprint
                => Verifies(cf.creds, ForNBDKit(settings))
           /\ \A cert \in Certs :
                ~settings.insecure /\ ForNBDKit(settings) = NoThumbprint
                /\ Accepts(settings, cert)
                    => Verifies(cf.creds, ComputeThumbprint(cert))
<1> DEFINE creds == cf.creds
<1> HIDE DEF creds
<1> USE DEF ForNBDKit, ForVirtV2V, Verifies, TrustsBundle, Unverified
<1>s. settings = FromCredentials(creds, TRUE)
  BY DEF creds
<1>0. creds.insecure \in BOOLEAN
  BY ConfigsAssumption DEF creds
<1>1. CASE creds.insecure
  <2>1. settings = Insecure
    BY <1>1, <1>s DEF FromCredentials
  <2>2. settings.insecure
    BY <2>1, InsecureField
  <2> QED
    BY <1>1, <2>2 DEF creds
<1>2. CASE ~creds.insecure /\ creds.thumbprint # NoThumbprint
  <2>1. settings = TLSSettings(FALSE, Formatted(creds.thumbprint.digest), "")
    BY <1>2, <1>s DEF FromCredentials, NormalizeThumbprint
  <2>2. Formatted(creds.thumbprint.digest) # NoThumbprint
    BY DEF Formatted, NoThumbprint, Thumbprint
  <2>3. /\ ~settings.insecure /\ settings.rootCA = ""
        /\ settings.thumbprint = Formatted(creds.thumbprint.digest)
    BY <2>1, SecureFields
  <2> QED
    BY <1>2, <2>2, <2>3 DEF creds
<1>3. CASE ~creds.insecure /\ creds.thumbprint = NoThumbprint /\ creds.caCert # ""
  <2>1. settings = TLSSettings(FALSE, NoThumbprint, creds.caCert)
    BY <1>3, <1>s DEF FromCredentials
  <2>2. /\ ~settings.insecure /\ settings.thumbprint = NoThumbprint
        /\ settings.rootCA = creds.caCert
    BY <2>1, SecureFields
  <2> QED
    BY <1>3, <2>2 DEF Accepts, ComputeThumbprint, creds
<1>4. CASE ~creds.insecure /\ creds.thumbprint = NoThumbprint /\ creds.caCert = ""
  <2>1. settings = Insecure
    BY <1>4, <1>s DEF FromCredentials
  <2>2. settings.insecure
    BY <2>1, InsecureField
  <2> QED
    BY <1>4, <2>2 DEF creds
<1> QED
  BY <1>0, <1>1, <1>2, <1>3, <1>4

\* The Detector a call belongs to is made and has set a directory.
LEMMA OwnerSettings ==
    ASSUME EInv, NEW c \in Calls,
           call[c].pc \notin {"idle", "cleanup", "returned"}
    PROVE  /\ config[call[c].owner] \in Configs
           /\ TLSOf(c) = FromCredentials(config[call[c].owner].creds, TRUE)
           /\ TLSOf(c) # Invalid
           /\ libDir \in SetSince(call[c].owner)
<1> DEFINE d == call[c].owner
<1>1. d \in Detectors /\ made[d] = "yes"
  BY DEF EInv, Fits
<1>2. PICK k \in DOMAIN writes : writes[k] = d
  BY <1>1 DEF EInv, DetectorInv
<1>3. writes \in Seq(Detectors)
  BY DEF EInv, EnginesTypeOK
<1>4. Len(writes) \in DOMAIN writes /\ k \in 1 .. Len(writes) /\ writes # <<>>
  BY <1>2, <1>3
<1>5. libDir = config[writes[Len(writes)]].libDir
  BY <1>4 DEF EInv, DetectorInv
<1>6. libDir \in SetSince(d)
  BY <1>2, <1>4, <1>5 DEF SetSince
<1> QED
  BY <1>1, <1>6 DEF EInv, DetectorInv, TLSOf

\* It suffices that the call that makes a step fits after it.
LEMMA CallKeeps ==
    ASSUME EInv, NEW c \in Calls, NEW from, NEW to, Becomes(c, from, to),
           to \in CallRecords, Fits(c, to)
    PROVE  EInv'
<1>1. /\ call \in [Calls -> CallRecords]
      /\ call' = [call EXCEPT ![c] = to]
      /\ UNCHANGED <<libDir, config, made, tls, writes>>
  BY DEF EInv, EnginesTypeOK, Becomes
<1>2. EnginesTypeOK'
  BY <1>1 DEF EInv, EnginesTypeOK
<1>3. DetectorInv'
  BY <1>1 DEF EInv, DetectorInv
<1>4. ASSUME NEW e \in Calls PROVE Fits(e, call[e])'
  <2>1. Fits(e, call'[e])
    BY <1>1 DEF EInv
  <2>2. SetSince(call[e].owner)' = SetSince(call'[e].owner)
    BY <1>1 DEF SetSince
  <2> QED
    BY <1>1, <2>1, <2>2 DEF Fits, Pinned, NamedAfter
<1> QED
  BY <1>2, <1>3, <1>4 DEF EInv

\* A call that has come to its result fits, with or without a password file.
LEMMA EndedFits ==
    ASSUME NEW c \in Calls, NEW cl \in CallRecords, Fits(c, cl),
           cl.pc \notin {"cleanup", "returned"},
           NEW r \in {"none", "timeout", "cancelled", "encrypted", "failed",
                      "empty", "document"},
           NamedAfter([cl EXCEPT !.result = r])
    PROVE  Ended(cl, r) \in CallRecords /\ Fits(c, Ended(cl, r))
<1>1. Ended(cl, r) \in CallRecords
  BY ZenonT(30) DEF Ended, CallRecords, CallPCs
<1>2. /\ Ended(cl, r).pc = IF cl.file THEN "cleanup" ELSE "returned"
      /\ Ended(cl, r).file = cl.file /\ Ended(cl, r).ended = cl.ended
      /\ Ended(cl, r).ctx = cl.ctx /\ Ended(cl, r).result = r
  BY DEF Ended, CallRecords
<1>3. NamedAfter(Ended(cl, r))
  BY <1>2 DEF NamedAfter, CallRecords
<1> QED
  BY <1>1, <1>2, <1>3 DEF Fits, Pinned, CallRecords

\* A call that begins belongs to a Detector that has been made.
LEMMA CallBeginsKeeps ==
    ASSUME EInv, NEW c \in Calls, StartCall(c) \/ NoComputeResource(c)
    PROVE  EInv'
<1>0. call[c] \in CallRecords /\ Fits(c, call[c])
  BY DEF EInv, EnginesTypeOK
<1>1. CASE StartCall(c)
  <2>1. PICK d \in Detectors :
            /\ made[d] = "yes"
            /\ Becomes(c, "idle",
                [call[c] EXCEPT !.owner = d,
                                !.pc = IF c \in V2VCalls THEN "file" ELSE "pin"])
    BY <1>1 DEF StartCall
  <2> DEFINE to == [call[c] EXCEPT !.owner = d,
                                   !.pc = IF c \in V2VCalls THEN "file" ELSE "pin"]
  <2>2. call[c].pc = "idle"
    BY <2>1 DEF Becomes
  <2>3. to \in CallRecords
    BY <1>0 DEF CallRecords, CallPCs
  <2>4. Fits(c, to)
    BY <1>0, <2>1, <2>2 DEF Fits, Pinned, NamedAfter, CallRecords
  <2> HIDE DEF to
  <2> QED
    BY <2>1, <2>3, <2>4, CallKeeps DEF to
<1>2. CASE NoComputeResource(c)
  <2>1. Becomes(c, "idle", Ended(call[c], "failed")) /\ call[c].pc = "idle"
    BY <1>2 DEF NoComputeResource, Becomes
  <2>2. NamedAfter([call[c] EXCEPT !.result = "failed"])
    BY <1>0, <2>1 DEF NamedAfter, Fits, CallRecords
  <2>3. Ended(call[c], "failed") \in CallRecords /\ Fits(c, Ended(call[c], "failed"))
    BY <1>0, <2>1, <2>2, EndedFits
  <2> QED
    BY <2>1, <2>3, CallKeeps
<1> QED
  BY <1>1, <1>2

\* A call that has an error or a document before its engine has run.
LEMMA EndsEarly ==
    ASSUME EInv, NEW c \in Calls, NEW from \in {"file", "dial", "start"},
           Becomes(c, from, Ended(call[c], "failed"))
    PROVE  EInv'
<1>0. call[c] \in CallRecords /\ Fits(c, call[c]) /\ call[c].pc = from
  BY DEF EInv, EnginesTypeOK, Becomes
<1>1. NamedAfter([call[c] EXCEPT !.result = "failed"])
  BY <1>0 DEF NamedAfter, Fits, CallRecords
<1>2. Ended(call[c], "failed") \in CallRecords /\ Fits(c, Ended(call[c], "failed"))
  BY <1>0, <1>1, EndedFits
<1> QED
  BY <1>2, CallKeeps

\* Password files: made, not made, removed.
LEMMA FilesKeep ==
    ASSUME EInv, NEW c \in Calls,
           CreateFile(c) \/ CreateOpenFile(c) \/ CreateFileFails(c) \/ RemoveFile(c)
    PROVE  EInv'
<1>0. call[c] \in CallRecords /\ Fits(c, call[c])
  BY DEF EInv, EnginesTypeOK
<1>1. CASE CreateFile(c)
  <2> DEFINE to == [call[c] EXCEPT !.file = TRUE, !.pc = "pin"]
  <2>1. c \in V2VCalls /\ Becomes(c, "file", to) /\ call[c].pc = "file"
    BY <1>1 DEF CreateFile, Becomes
  <2>2. to \in CallRecords /\ Fits(c, to)
    BY <1>0, <2>1 DEF Fits, Pinned, NamedAfter, CallRecords, CallPCs
  <2> HIDE DEF to
  <2> QED
    BY <2>1, <2>2, CallKeeps
<1>2. CASE CreateOpenFile(c)
  <2> DEFINE to == [call[c] EXCEPT !.pc = "dir"]
  <2>1. /\ c \in OpenCalls /\ c \notin V2VCalls
        /\ Becomes(c, "file", to) /\ call[c].pc = "file"
    BY <1>2, CallsAssumption DEF CreateOpenFile, Becomes
  <2>2. to \in CallRecords /\ Fits(c, to)
    BY <1>0, <2>1 DEF Fits, Pinned, NamedAfter, CallRecords, CallPCs
  <2> HIDE DEF to
  <2> QED
    BY <2>1, <2>2, CallKeeps
<1>3. CASE CreateFileFails(c)
  BY <1>3, EndsEarly DEF CreateFileFails
<1>4. CASE RemoveFile(c)
  <2> DEFINE to == [call[c] EXCEPT !.file = FALSE, !.pc = "returned"]
  <2>1. Becomes(c, "cleanup", to) /\ call[c].pc = "cleanup"
    BY <1>4 DEF RemoveFile, Becomes
  <2>a. to \in CallRecords
    BY <1>0 DEF CallRecords, CallPCs
  <2>b. /\ to.pc = "returned" /\ to.file = FALSE
        /\ to.ended = call[c].ended /\ to.ctx = call[c].ctx
        /\ to.words = call[c].words /\ to.result = call[c].result
    BY <1>0 DEF CallRecords
  <2>c. NamedAfter(to)
    BY <1>0, <2>1, <2>b DEF Fits, NamedAfter
  <2>d. Fits(c, to)
    <3> HIDE DEF to
    <3> QED
      BY <1>0, <2>b, <2>c DEF Fits, Pinned
  <2>2. to \in CallRecords /\ Fits(c, to)
    BY <2>a, <2>d
  <2> HIDE DEF to
  <2> QED
    BY <2>1, <2>2, CallKeeps
<1> QED
  BY <1>1, <1>2, <1>3, <1>4

\* A thumbprint of the credentials is one that verifies the server.
LEMMA PinKeeps ==
    ASSUME EInv, NEW c \in Calls, Pin(c)
    PROVE  EInv'
<1> DEFINE pinned == ForNBDKit(TLSOf(c))
           dials  == pinned = NoThumbprint /\ ~TLSOf(c).insecure
           to     == [call[c] EXCEPT !.thumbprint = pinned,
                                     !.pc = IF dials THEN "dial" ELSE AfterPin(c)]
<1>1. Becomes(c, "pin", to) /\ call[c].pc = "pin"
  BY DEF Pin, Becomes
<1>2. call[c] \in CallRecords /\ Fits(c, call[c])
  BY DEF EInv, EnginesTypeOK
<1>3. /\ config[call[c].owner] \in Configs
      /\ TLSOf(c) = FromCredentials(config[call[c].owner].creds, TRUE)
      /\ TLSOf(c) # Invalid
  BY <1>1, OwnerSettings
<1>4. call[c].owner \in Detectors
  BY <1>1, <1>2 DEF Fits
<1>5. TLSOf(c).thumbprint \in Thumbprints /\ TLSOf(c).insecure \in BOOLEAN
  BY <1>4 DEF EInv, EnginesTypeOK, TLSOf
<1>6. pinned \in Thumbprints
  BY <1>5 DEF ForNBDKit, NoThumbprint, Thumbprint, Thumbprints
<1>7. ~dials => Verifies(config[call[c].owner].creds, pinned)
  BY <1>3, <1>5, SettingsVerify
<1> HIDE DEF pinned, dials
<1>8. to \in CallRecords
  BY <1>2, <1>6 DEF CallRecords, CallPCs, AfterPin
<1>9. /\ to.pc = IF dials THEN "dial" ELSE AfterPin(c)
      /\ to.thumbprint = pinned /\ to.owner = call[c].owner
      /\ to.file = call[c].file /\ to.ended = call[c].ended
      /\ to.result = call[c].result /\ to.ctx = call[c].ctx
  BY <1>2 DEF CallRecords
<1> HIDE DEF to
<1>10. dials => ~TLSOf(c).insecure /\ ForNBDKit(TLSOf(c)) = NoThumbprint
  BY DEF dials, pinned
<1>11. Fits(c, to)
  BY <1>1, <1>2, <1>7, <1>9, <1>10
     DEF Fits, Pinned, NamedAfter, AfterPin, TLSOf
<1> QED
  BY <1>1, <1>8, <1>11, CallKeeps

\* So is that of a certificate the bundle verified; without one the call ends.
LEMMA DialKeeps ==
    ASSUME EInv, NEW c \in Calls, DialOk(c) \/ DialFails(c)
    PROVE  EInv'
<1>1. CASE DialFails(c)
  BY <1>1, EndsEarly DEF DialFails
<1>2. CASE DialOk(c)
  <2>1. PICK cert \in Certs :
            /\ Accepts(TLSOf(c), cert)
            /\ Becomes(c, "dial",
                    [call[c] EXCEPT !.thumbprint = ComputeThumbprint(cert),
                                    !.pc = AfterPin(c)])
    BY <1>2 DEF DialOk
  <2> DEFINE to == [call[c] EXCEPT !.thumbprint = ComputeThumbprint(cert),
                                   !.pc = AfterPin(c)]
  <2>2. call[c] \in CallRecords /\ Fits(c, call[c]) /\ call[c].pc = "dial"
    BY <2>1 DEF EInv, EnginesTypeOK, Becomes
  <2>3. /\ config[call[c].owner] \in Configs
        /\ TLSOf(c) = FromCredentials(config[call[c].owner].creds, TRUE)
        /\ TLSOf(c) # Invalid
    BY <2>2, OwnerSettings
  <2>4. ~TLSOf(c).insecure /\ ForNBDKit(TLSOf(c)) = NoThumbprint
    BY <2>2 DEF Fits, TLSOf
  <2>5. Verifies(config[call[c].owner].creds, ComputeThumbprint(cert))
    BY <2>1, <2>3, <2>4, SettingsVerify
  <2>6. ComputeThumbprint(cert) \in Thumbprints
    BY DEF ComputeThumbprint, Formatted, Thumbprint, Thumbprints
  <2>7. to \in CallRecords
    BY <2>2, <2>6 DEF CallRecords, CallPCs, AfterPin
  <2>8. /\ to.pc = AfterPin(c) /\ to.thumbprint = ComputeThumbprint(cert)
        /\ to.owner = call[c].owner /\ to.file = call[c].file
        /\ to.ended = call[c].ended /\ to.result = call[c].result
        /\ to.ctx = call[c].ctx
    BY <2>2 DEF CallRecords
  <2>9. Becomes(c, "dial", to)
    BY <2>1
  <2> HIDE DEF to
  <2>10. Fits(c, to)
    BY <2>2, <2>5, <2>8 DEF Fits, Pinned, NamedAfter, AfterPin
  <2> QED
    BY <2>7, <2>9, <2>10, CallKeeps
<1> QED
  BY <1>1, <1>2

\* What a call reads of the directory was set after its Detector was made.
LEMMA ReadsKeep ==
    ASSUME EInv, NEW c \in Calls, ReadLibDir(c) \/ ReadLibPath(c)
    PROVE  EInv'
<1>0. call[c] \in CallRecords /\ Fits(c, call[c]) /\ libDir \in Directories
  BY DEF EInv, EnginesTypeOK
<1>1. CASE ReadLibDir(c)
  <2> DEFINE to == [call[c] EXCEPT !.dir = libDir,
                        !.pc = IF c \in V2VCalls THEN "path" ELSE "start"]
  <2>1. Becomes(c, "dir", to) /\ call[c].pc = "dir"
    BY <1>1 DEF ReadLibDir, Becomes
  <2>2. libDir \in SetSince(call[c].owner)
    BY <2>1, OwnerSettings
  <2>3. to \in CallRecords
    BY <1>0 DEF CallRecords, CallPCs
  <2>4. Fits(c, to)
    BY <1>0, <2>1, <2>2 DEF Fits, Pinned, NamedAfter, CallRecords
  <2> HIDE DEF to
  <2> QED
    BY <2>1, <2>3, <2>4, CallKeeps
<1>2. CASE ReadLibPath(c)
  <2> DEFINE to == [call[c] EXCEPT !.path = libDir, !.pc = "start"]
  <2>1. Becomes(c, "path", to) /\ call[c].pc = "path"
    BY <1>2 DEF ReadLibPath, Becomes
  <2>2. libDir \in SetSince(call[c].owner)
    BY <2>1, OwnerSettings
  <2>3. to \in CallRecords
    BY <1>0 DEF CallRecords, CallPCs
  <2>4. Fits(c, to)
    BY <1>0, <2>1, <2>2 DEF Fits, Pinned, NamedAfter, CallRecords
  <2> HIDE DEF to
  <2> QED
    BY <2>1, <2>3, <2>4, CallKeeps
<1> QED
  BY <1>1, <1>2

\* An engine starts with what the call has read and pinned so far.
LEMMA StartKeeps ==
    ASSUME EInv, NEW c \in Calls, StartEngine(c) \/ EngineRefused(c)
    PROVE  EInv'
<1>0. call[c] \in CallRecords /\ Fits(c, call[c])
  BY DEF EInv, EnginesTypeOK
<1>1. CASE StartEngine(c)
  <2> DEFINE to == [call[c] EXCEPT !.pc =
                        IF c \in V2VCalls THEN "running" ELSE "opened"]
  <2>1. Becomes(c, "start", to) /\ call[c].pc = "start"
    BY <1>1 DEF StartEngine, Becomes
  <2>2. to \in CallRecords
    BY <1>0 DEF CallRecords, CallPCs
  <2>3. Fits(c, to)
    BY <1>0, <2>1 DEF Fits, Pinned, NamedAfter, CallRecords, Calls
  <2> HIDE DEF to
  <2> QED
    BY <2>1, <2>2, <2>3, CallKeeps
<1>2. CASE EngineRefused(c) /\ c \in V2VCalls
  <2> DEFINE to == [call[c] EXCEPT !.ended = "error", !.pc = "judge"]
  <2>1. Becomes(c, "start", to) /\ call[c].pc = "start"
    BY <1>2 DEF EngineRefused, Becomes
  <2>2. to \in CallRecords
    BY <1>0 DEF CallRecords, CallPCs
  <2>3. Fits(c, to)
    BY <1>0, <1>2, <2>1 DEF Fits, Pinned, NamedAfter, CallRecords
  <2> HIDE DEF to
  <2> QED
    BY <2>1, <2>2, <2>3, CallKeeps
<1>3. CASE EngineRefused(c) /\ c \notin V2VCalls
  BY <1>3, EndsEarly DEF EngineRefused
<1> QED
  BY <1>1, <1>2, <1>3

\* An engine ends by itself, or because the context of its call is over.
LEMMA EngineEndKeeps ==
    ASSUME EInv, NEW c \in Calls,
           EngineSucceeds(c) \/ EngineErrs(c) \/ EngineKilled(c)
    PROVE  EInv'
<1>1. PICK how \in {"ok", "error", "killed"}, words \in SUBSET Words,
           stream \in Seq(Tokens), parsed \in Parses :
            /\ EngineEndsWith(c, how, words, stream, parsed)
            /\ how = "killed" => call[c].ctx # "live"
  <2>1. CASE EngineSucceeds(c)
    <3>1. PICK out \in V2VOutputs :
              EngineEndsWith(c, "ok", {}, out.stream,
                             ParseV2VInspectionXML(out.stream))
      BY <2>1 DEF EngineSucceeds
    <3>2. /\ {} \in SUBSET Words /\ out.stream \in Seq(Tokens)
          /\ ParseV2VInspectionXML(out.stream) \in Parses
      BY OutputAssumption DEF Parses
    <3> QED
      BY <3>1, <3>2
  <2>2. <<>> \in Seq(Tokens) /\ NoDocument \in Parses
    BY DEF Parses
  <2>3. \A out \in V2VOutputs : out.words \in SUBSET Words
    BY OutputAssumption
  <2>4. CASE EngineErrs(c)
    BY <2>2, <2>3, <2>4 DEF EngineErrs
  <2>5. CASE EngineKilled(c)
    BY <2>2, <2>3, <2>5 DEF EngineKilled
  <2> QED
    BY <2>1, <2>4, <2>5
<1> DEFINE to == [call[c] EXCEPT !.ended = how, !.words = words, !.stream = stream,
                                 !.parsed = parsed, !.pc = "judge"]
<1>2. call[c] \in CallRecords /\ Fits(c, call[c])
  BY DEF EInv, EnginesTypeOK
<1>3. Becomes(c, "running", to) /\ call[c].pc = "running"
  BY <1>1 DEF EngineEndsWith, Becomes
<1>4. to \in CallRecords
  BY <1>2 DEF CallRecords, CallPCs
<1>5. Fits(c, to)
  BY <1>1, <1>2, <1>3 DEF Fits, Pinned, NamedAfter, CallRecords
<1> HIDE DEF to
<1> QED
  BY <1>3, <1>4, <1>5, CallKeeps

\* The context comes first, so a killed engine gives nobody else the name.
LEMMA JudgeKeeps ==
    ASSUME EInv, NEW c \in Calls, Judge(c)
    PROVE  EInv'
<1> DEFINE r == Judgement(call[c])
<1>0. /\ call[c] \in CallRecords /\ Fits(c, call[c]) /\ call[c].pc = "judge"
      /\ Becomes(c, "judge", Ended(call[c], r))
  BY DEF EInv, EnginesTypeOK, Judge, Becomes
<1>1. /\ r \in {"timeout", "cancelled", "encrypted", "failed", "empty", "document"}
      /\ call[c].ctx # "live" => r \in {"timeout", "cancelled"}
      /\ r = "encrypted" => call[c].ended # "ok" /\ call[c].ctx = "live"
      /\ r \in {"document", "empty"} => call[c].ended = "ok"
  BY <1>0 DEF Judgement, CallRecords
<1> HIDE DEF r
<1>2. call[c].ended # "no"
  BY <1>0 DEF Fits
<1>3. NamedAfter([call[c] EXCEPT !.result = r])
  BY <1>0, <1>1, <1>2 DEF NamedAfter, Fits, CallRecords
<1>4. Ended(call[c], r) \in CallRecords /\ Fits(c, Ended(call[c], r))
  BY <1>0, <1>1, <1>3, EndedFits
<1> QED
  BY <1>0, <1>4, CallKeeps

\* A result that is taken leaves an idle call.
LEMMA TakeKeeps ==
    ASSUME EInv, NEW c \in Calls, Take(c)
    PROVE  EInv'
<1>1. Idle \in CallRecords
  BY DEF Idle, CallRecords, CallPCs, Thumbprints, NoThumbprint, Thumbprint,
         Directories, Words, Parses
<1>2. Fits(c, Idle)
  BY DEF Fits, Idle, Pinned, NamedAfter
<1> QED
  BY <1>1, <1>2, CallKeeps DEF Take

\* A context may end at any time before the result.
LEMMA ContextKeeps ==
    ASSUME EInv, NEW c \in Calls, NEW how \in {"timeout", "cancelled"},
           ContextEnds(c, how)
    PROVE  EInv'
<1> DEFINE to == [call[c] EXCEPT !.ctx = how]
<1>1. call[c] \in CallRecords /\ Fits(c, call[c])
  BY DEF EInv, EnginesTypeOK
<1>2. Becomes(c, call[c].pc, to)
  BY DEF ContextEnds
<1>3. to \in CallRecords
  BY <1>1 DEF CallRecords
<1>4. /\ to.pc = call[c].pc /\ to.owner = call[c].owner /\ to.dir = call[c].dir
      /\ to.path = call[c].path /\ to.thumbprint = call[c].thumbprint
      /\ to.file = call[c].file /\ to.ended = call[c].ended
      /\ to.result = call[c].result /\ to.ctx = how
  BY <1>1 DEF CallRecords
<1> HIDE DEF to
<1>5. Fits(c, to)
  BY <1>1, <1>4 DEF Fits, Pinned, NamedAfter
<1> QED
  BY <1>2, <1>3, <1>5, CallKeeps

\* The inductive invariant of the Detectors and their calls.
THEOREM EnginesInvariance == EnginesSpec => []EInv
<1>1. EInv /\ [EnginesNext]_enginesVars => EInv'
  <2> SUFFICES ASSUME EInv, [EnginesNext]_enginesVars PROVE EInv'
    OBVIOUS
  <2>1. CASE Construct
    BY <2>1, ConstructKeeps
  <2>2. CASE CallBegins
    BY <2>2, CallBeginsKeeps DEF CallBegins
  <2>3. CASE CallGoesOn
    <3>1. PICK c \in Calls :
            \/ EngineStep(c)
            \/ DialOk(c) \/ DialFails(c) \/ Take(c)
            \/ EngineSucceeds(c) \/ EngineErrs(c) \/ EngineKilled(c)
            \/ ContextEnds(c, "timeout") \/ ContextEnds(c, "cancelled")
      BY <2>3 DEF CallGoesOn
    <3> QED
      BY <3>1, FilesKeep, PinKeeps, DialKeeps, ReadsKeep, StartKeeps,
         EngineEndKeeps, JudgeKeeps, TakeKeeps, ContextKeeps
         DEF EngineStep
  <2>4. CASE UNCHANGED enginesVars
    <3>1. EnginesTypeOK'
      BY <2>4 DEF enginesVars, EInv, EnginesTypeOK
    <3>2. DetectorInv'
      BY <2>4 DEF enginesVars, EInv, DetectorInv
    <3>3. ASSUME NEW c \in Calls PROVE Fits(c, call[c])'
      BY <2>4 DEF enginesVars, EInv, Fits, Pinned, NamedAfter, SetSince
    <3> QED
      BY <3>1, <3>2, <3>3 DEF EInv
  <2> QED
    BY <2>1, <2>2, <2>3, <2>4 DEF EnginesNext
<1> QED
  BY <1>1, EnginesInitial, PTL DEF EnginesSpec

----------------------------------------------------------------------------

\* Every variable of the Detectors and their calls stays in its type.
THEOREM EnginesTypeCorrect == EnginesSpec => []EnginesTypeOK
<1>1. EInv => EnginesTypeOK
  BY DEF EInv
<1> QED
  BY <1>1, EnginesInvariance, PTL

\* An engine is started with a directory set since its Detector was made, so
\* that other Detectors can disturb it, but none that is older.
THEOREM LibDirSinceOwner == EnginesSpec => []LibDirSetSinceOwner
<1>1. EInv => LibDirSetSinceOwner
  <2> SUFFICES ASSUME EInv, NEW c \in Calls, Started(c)
               PROVE
                 LET since == SetSince(call[c].owner)
                 IN  /\ call[c].dir \in since
                     /\ c \in V2VCalls => call[c].path \in since
                     /\ c \in V2VCalls /\ Plugin(c) = "vddk"
                        /\ since = {config[call[c].owner].libDir}
                         => LibDirArg(c) \notin FilteredPath(c)
    BY DEF LibDirSetSinceOwner
  <2>1. /\ Fits(c, call[c]) /\ call[c].pc \in {"opened", "running"}
        /\ c \in V2VCalls => call[c].pc = "running"
    BY CallsAssumption DEF EInv, Started, Fits
  <2>2. /\ call[c].dir \in SetSince(call[c].owner)
        /\ c \in V2VCalls => call[c].path \in SetSince(call[c].owner)
    BY <2>1 DEF Fits
  <2>3. ASSUME c \in V2VCalls, Plugin(c) = "vddk",
               SetSince(call[c].owner) = {config[call[c].owner].libDir}
        PROVE  LibDirArg(c) \notin FilteredPath(c)
    <3>1. call[c].path = call[c].dir
      BY <2>2, <2>3
    <3> QED
      BY <2>3, <3>1 DEF LibDirArg, FilteredPath
  <2> QED
    BY <2>2, <2>3
<1> QED
  BY <1>1, EnginesInvariance, PTL

\* No engine reads disks from a server that was not verified as the
\* credentials of its Detector ask for, and libvirt is given the bundle exactly
\* where a bundle is what they ask for.
THEOREM ServerVerified == EnginesSpec => []VerifiedAsConfigured
<1>1. EInv => VerifiedAsConfigured
  <2> SUFFICES ASSUME EInv, NEW c \in Calls, Started(c)
               PROVE  /\ Verifies(config[call[c].owner].creds, call[c].thumbprint)
                      /\ VerifyArg(c) =
                            IF TrustsBundle(config[call[c].owner].creds)
                            THEN CACert(config[call[c].owner].creds.caCert)
                            ELSE NoVerify
    BY DEF VerifiedAsConfigured
  <2>1. Fits(c, call[c]) /\ call[c].pc \in {"opened", "running"}
    BY DEF EInv, Started
  <2>2. Pinned(c, call[c])
    BY <2>1, CallsAssumption DEF Fits, Pinned
  <2>3. /\ config[call[c].owner] \in Configs
        /\ TLSOf(c) = FromCredentials(config[call[c].owner].creds, TRUE)
        /\ TLSOf(c) # Invalid
    BY <2>1, OwnerSettings
  <2>4. Verifies(config[call[c].owner].creds, call[c].thumbprint)
    BY <2>1, <2>2 DEF Fits
  <2>5. VerifyArg(c) = IF TrustsBundle(config[call[c].owner].creds)
                       THEN CACert(config[call[c].owner].creds.caCert)
                       ELSE NoVerify
    BY <2>3, SettingsVerify DEF VerifyArg
  <2> QED
    BY <2>4, <2>5
<1> QED
  BY <1>1, EnginesInvariance, PTL

\* A failure is named after what ended the engine.
THEOREM Named == EnginesSpec => []NamedAfterItsCause
<1>1. EInv => NamedAfterItsCause
  BY DEF EInv, Fits, NamedAfterItsCause, Calls
<1> QED
  BY <1>1, EnginesInvariance, PTL

\* The password is on disk while virt-v2v-inspector runs, and no longer.
THEOREM PasswordScoped == EnginesSpec => []PasswordFileScoped
<1>1. EInv => PasswordFileScoped
  BY DEF EInv, Fits, PasswordFileScoped, Calls
<1> QED
  BY <1>1, EnginesInvariance, PTL
----------------------------------------------------------------------------
(* The document of virt-v2v-inspector. *)

\* What a call that is at cl makes of an engine that has succeeded.
Reports(cl) ==
    cl.ended = "ok" =>
        /\ cl.parsed = ParseV2VInspectionXML(cl.stream)
        /\ cl.pc \in {"cleanup", "returned"} =>
            cl.result \in {"timeout", "cancelled",
                          IF ~cl.parsed.ok THEN "failed"
                          ELSE IF cl.parsed.oses = 0 THEN "empty" ELSE "document"}

DocumentInv == \A c \in Calls : Reports(call[c])

\* A step of one call leaves the documents of the others.
LEMMA ReportsKept ==
    ASSUME EInv, DocumentInv, NEW c \in Calls, NEW from, NEW to,
           Becomes(c, from, to), Reports(to)
    PROVE  DocumentInv'
<1>1. call \in [Calls -> CallRecords] /\ call' = [call EXCEPT ![c] = to]
  BY DEF EInv, EnginesTypeOK, Becomes
<1>2. \A e \in Calls : Reports(call'[e])
  BY <1>1 DEF DocumentInv
<1> QED
  BY <1>2 DEF DocumentInv, Reports

\* Before the engine of a call has run there is nothing to report, ...
LEMMA NoReportYet ==
    ASSUME EInv, DocumentInv, NEW c \in Calls,
           \/ StartCall(c) \/ NoComputeResource(c) \/ CreateFile(c)
           \/ CreateOpenFile(c) \/ CreateFileFails(c) \/ Pin(c)
           \/ DialOk(c) \/ DialFails(c) \/ ReadLibDir(c) \/ ReadLibPath(c)
           \/ StartEngine(c) \/ EngineRefused(c)
    PROVE  DocumentInv'
<1>1. call[c] \in CallRecords /\ Fits(c, call[c])
  BY DEF EInv, EnginesTypeOK
<1>2. /\ Ended(call[c], "failed").ended = call[c].ended
      /\ \A t : /\ [call[c] EXCEPT !.pc = t].ended = call[c].ended
               /\ [call[c] EXCEPT !.file = TRUE, !.pc = t].ended = call[c].ended
      /\ \A t, x : /\ [call[c] EXCEPT !.owner = x, !.pc = t].ended = call[c].ended
                  /\ [call[c] EXCEPT !.thumbprint = x, !.pc = t].ended = call[c].ended
                  /\ [call[c] EXCEPT !.dir = x, !.pc = t].ended = call[c].ended
                  /\ [call[c] EXCEPT !.path = x, !.pc = t].ended = call[c].ended
      /\ \A t : [call[c] EXCEPT !.ended = "error", !.pc = t].ended = "error"
  BY <1>1 DEF CallRecords, Ended
<1>3. \E from \in {"idle", "file", "pin", "dial", "dir", "path", "start"} :
        \E to : Becomes(c, from, to) /\ to.ended \in {call[c].ended, "error"}
  <2>1. CASE StartCall(c)
    <3>1. PICK d \in Detectors :
              Becomes(c, "idle",
                [call[c] EXCEPT !.owner = d,
                                !.pc = IF c \in V2VCalls THEN "file" ELSE "pin"])
      BY <2>1 DEF StartCall
    <3> DEFINE to == [call[c] EXCEPT !.owner = d,
                                     !.pc = IF c \in V2VCalls THEN "file" ELSE "pin"]
    <3>2. Becomes(c, "idle", to)
      BY <3>1
    <3>3. to.ended \in {call[c].ended, "error"}
      BY <1>2
    <3> HIDE DEF to
    <3> QED
      BY <3>2, <3>3
  <2>2. CASE NoComputeResource(c) \/ CreateFileFails(c) \/ DialFails(c)
    BY <1>2, <2>2 DEF NoComputeResource, CreateFileFails, DialFails
  <2>3. CASE CreateFile(c)
    BY <1>2, <2>3 DEF CreateFile
  <2>4. CASE CreateOpenFile(c)
    BY <1>2, <2>4 DEF CreateOpenFile
  <2>5. CASE Pin(c)
    <3> DEFINE to == [call[c] EXCEPT !.thumbprint = ForNBDKit(TLSOf(c)),
                                     !.pc = IF ForNBDKit(TLSOf(c)) = NoThumbprint
                                               /\ ~TLSOf(c).insecure
                                            THEN "dial" ELSE AfterPin(c)]
    <3>1. Becomes(c, "pin", to)
      BY <2>5 DEF Pin
    <3>2. to.ended \in {call[c].ended, "error"}
      BY <1>2
    <3> HIDE DEF to
    <3> QED
      BY <3>1, <3>2, Zenon
  <2>6. CASE DialOk(c)
    <3>1. PICK cert \in Certs :
              Becomes(c, "dial",
                [call[c] EXCEPT !.thumbprint = ComputeThumbprint(cert),
                                !.pc = AfterPin(c)])
      BY <2>6 DEF DialOk
    <3> DEFINE to == [call[c] EXCEPT !.thumbprint = ComputeThumbprint(cert),
                                     !.pc = AfterPin(c)]
    <3>2. Becomes(c, "dial", to)
      BY <3>1
    <3>3. to.ended \in {call[c].ended, "error"}
      BY <1>2
    <3> HIDE DEF to
    <3> QED
      BY <3>2, <3>3, Zenon
  <2>7. CASE ReadLibDir(c)
    <3> DEFINE to == [call[c] EXCEPT !.dir = libDir,
                        !.pc = IF c \in V2VCalls THEN "path" ELSE "start"]
    <3>1. Becomes(c, "dir", to)
      BY <2>7 DEF ReadLibDir
    <3>2. to.ended \in {call[c].ended, "error"}
      BY <1>2
    <3> HIDE DEF to
    <3> QED
      BY <3>1, <3>2
  <2>8. CASE ReadLibPath(c)
    <3> DEFINE to == [call[c] EXCEPT !.path = libDir, !.pc = "start"]
    <3>1. Becomes(c, "path", to)
      BY <2>8 DEF ReadLibPath
    <3>2. to.ended \in {call[c].ended, "error"}
      BY <1>2
    <3> HIDE DEF to
    <3> QED
      BY <3>1, <3>2
  <2>9. CASE StartEngine(c)
    <3> DEFINE to == [call[c] EXCEPT
                        !.pc = IF c \in V2VCalls THEN "running" ELSE "opened"]
    <3>1. Becomes(c, "start", to)
      BY <2>9 DEF StartEngine
    <3>2. to.ended \in {call[c].ended, "error"}
      BY <1>2
    <3> HIDE DEF to
    <3> QED
      BY <3>1, <3>2
  <2>10. CASE EngineRefused(c) /\ c \in V2VCalls
    <3> DEFINE to == [call[c] EXCEPT !.ended = "error", !.pc = "judge"]
    <3>1. Becomes(c, "start", to)
      BY <2>10 DEF EngineRefused
    <3>2. to.ended \in {call[c].ended, "error"}
      BY <1>2
    <3> HIDE DEF to
    <3> QED
      BY <3>1, <3>2
  <2>11. CASE EngineRefused(c) /\ c \notin V2VCalls
    BY <1>2, <2>11 DEF EngineRefused
  <2> QED
    BY <2>1, <2>2, <2>3, <2>4, <2>5, <2>6, <2>7, <2>8, <2>9, <2>10, <2>11
<1>4. PICK from \in {"idle", "file", "pin", "dial", "dir", "path", "start"} :
        \E to : Becomes(c, from, to) /\ to.ended \in {call[c].ended, "error"}
  BY <1>3
<1>5. PICK to : Becomes(c, from, to) /\ to.ended \in {call[c].ended, "error"}
  BY <1>4
<1>6. call[c].ended = "no"
  BY <1>1, <1>5 DEF Becomes, Fits
<1>7. Reports(to)
  BY <1>5, <1>6 DEF Reports
<1> QED
  BY <1>5, <1>7, ReportsKept

\* ... then there is the document in what the engine has printed, ...
LEMMA ParsedOnce ==
    ASSUME EInv, DocumentInv, NEW c \in Calls,
           EngineSucceeds(c) \/ EngineErrs(c) \/ EngineKilled(c)
    PROVE  DocumentInv'
<1>1. call[c] \in CallRecords
  BY DEF EInv, EnginesTypeOK
<1>2. PICK how, words, stream, parsed :
          /\ EngineEndsWith(c, how, words, stream, parsed)
          /\ how = "ok" => parsed = ParseV2VInspectionXML(stream)
  <2>1. "error" # "ok" /\ "killed" # "ok"
    OBVIOUS
  <2>2. CASE EngineSucceeds(c)
    BY <2>2, Zenon DEF EngineSucceeds
  <2>3. CASE EngineErrs(c)
    BY <2>1, <2>3, Zenon DEF EngineErrs
  <2>4. CASE EngineKilled(c)
    BY <2>1, <2>4, Zenon DEF EngineKilled
  <2> QED
    BY <2>2, <2>3, <2>4
<1> DEFINE to == [call[c] EXCEPT !.ended = how, !.words = words, !.stream = stream,
                                 !.parsed = parsed, !.pc = "judge"]
<1>3. Becomes(c, "running", to)
  BY <1>2 DEF EngineEndsWith
<1>4. to.ended = how /\ to.stream = stream /\ to.parsed = parsed /\ to.pc = "judge"
  BY <1>1 DEF CallRecords
<1> HIDE DEF to
<1>5. Reports(to)
  BY <1>2, <1>4 DEF Reports
<1> QED
  BY <1>3, <1>5, ReportsKept

\* ... which the result is named after, unless the context is over.
LEMMA JudgedByDocument ==
    ASSUME EInv, DocumentInv, NEW c \in Calls, Judge(c)
    PROVE  DocumentInv'
<1> DEFINE to == Ended(call[c], Judgement(call[c]))
<1>1. call[c] \in CallRecords /\ Reports(call[c])
  BY DEF EInv, EnginesTypeOK, DocumentInv
<1>2. /\ to.ended = call[c].ended /\ to.parsed = call[c].parsed
      /\ to.stream = call[c].stream /\ to.result = Judgement(call[c])
  BY <1>1 DEF CallRecords, Ended
<1>3. Becomes(c, "judge", to)
  BY DEF Judge
<1> HIDE DEF to
<1>4. Reports(to)
  <2> SUFFICES ASSUME call[c].ended = "ok"
               PROVE  /\ to.parsed = ParseV2VInspectionXML(to.stream)
                      /\ to.result \in
                            {"timeout", "cancelled",
                             IF ~to.parsed.ok THEN "failed"
                             ELSE IF to.parsed.oses = 0 THEN "empty" ELSE "document"}
    BY <1>2 DEF Reports
  <2>1. call[c].ctx \in {"live", "timeout", "cancelled"}
    BY <1>1 DEF CallRecords
  <2> QED
    BY <1>1, <1>2, <2>1 DEF Reports, Judgement
<1> QED
  BY <1>3, <1>4, ReportsKept

\* The other steps leave what the engine has said.
LEMMA ReportStays ==
    ASSUME EInv, DocumentInv, NEW c \in Calls,
           \/ RemoveFile(c) \/ Take(c)
           \/ \E how \in {"timeout", "cancelled"} : ContextEnds(c, how)
    PROVE  DocumentInv'
<1>1. call[c] \in CallRecords /\ Reports(call[c])
  BY DEF EInv, EnginesTypeOK, DocumentInv
<1>2. CASE RemoveFile(c)
  <2> DEFINE to == [call[c] EXCEPT !.file = FALSE, !.pc = "returned"]
  <2>1. Becomes(c, "cleanup", to) /\ call[c].pc = "cleanup"
    BY <1>2 DEF RemoveFile, Becomes
  <2>2. /\ to.ended = call[c].ended /\ to.parsed = call[c].parsed
        /\ to.stream = call[c].stream /\ to.result = call[c].result
    BY <1>1 DEF CallRecords
  <2> HIDE DEF to
  <2>3. Reports(to)
    BY <1>1, <2>1, <2>2 DEF Reports
  <2> QED
    BY <2>1, <2>3, ReportsKept
<1>3. CASE Take(c)
  <2>1. Becomes(c, call[c].pc, Idle) /\ Reports(Idle)
    BY <1>3 DEF Take, Reports, Idle
  <2> QED
    BY <2>1, ReportsKept
<1>4. ASSUME NEW how \in {"timeout", "cancelled"}, ContextEnds(c, how)
      PROVE  DocumentInv'
  <2> DEFINE to == [call[c] EXCEPT !.ctx = how]
  <2>1. Becomes(c, call[c].pc, to)
    BY <1>4 DEF ContextEnds
  <2>2. /\ to.ended = call[c].ended /\ to.parsed = call[c].parsed
        /\ to.stream = call[c].stream /\ to.result = call[c].result
        /\ to.pc = call[c].pc
    BY <1>1 DEF CallRecords
  <2> HIDE DEF to
  <2>3. Reports(to)
    BY <1>1, <2>2 DEF Reports
  <2> QED
    BY <2>1, <2>3, ReportsKept
<1> QED
  BY <1>2, <1>3, <1>4

\* A result is what the parser makes of the output, as long as there is one.
LEMMA DocumentInvariance == EnginesSpec => []DocumentInv
<1>1. EnginesInit => DocumentInv
  <2>1. Idle.ended = "no"
    BY DEF Idle
  <2> QED
    BY <2>1 DEF EnginesInit, DocumentInv, Reports
<1>2. EInv /\ DocumentInv /\ [EnginesNext]_enginesVars => DocumentInv'
  <2> SUFFICES ASSUME EInv, DocumentInv, [EnginesNext]_enginesVars
               PROVE  DocumentInv'
    OBVIOUS
  <2>1. CASE Construct
    <3>1. call' = call
      BY <2>1, ConstructDetectors DEF Construct
    <3> QED
      BY <3>1 DEF DocumentInv, Reports
  <2>2. CASE CallBegins
    BY <2>2, NoReportYet DEF CallBegins
  <2>3. CASE CallGoesOn
    <3>1. PICK c \in Calls :
            \/ EngineStep(c)
            \/ DialOk(c) \/ DialFails(c) \/ Take(c)
            \/ EngineSucceeds(c) \/ EngineErrs(c) \/ EngineKilled(c)
            \/ ContextEnds(c, "timeout") \/ ContextEnds(c, "cancelled")
      BY <2>3 DEF CallGoesOn
    <3> QED
      BY <3>1, NoReportYet, ParsedOnce, JudgedByDocument, ReportStays
         DEF EngineStep
  <2>4. CASE UNCHANGED enginesVars
    BY <2>4 DEF enginesVars, DocumentInv, Reports
  <2> QED
    BY <2>1, <2>2, <2>3, <2>4 DEF EnginesNext
<1> QED
  BY <1>1, <1>2, EnginesInvariance, PTL DEF EnginesSpec

\* What is printed as one document is parsed as one that is not empty.
LEMMA PrintedIsParsed ==
    ASSUME NEW s \in Seq(Tokens), PrintsDocument(s)
    PROVE  /\ ParseV2VInspectionXML(s).ok
           /\ ParseV2VInspectionXML(s).oses # 0
<1>1. DOMAIN s = 1 .. Len(s)
  OBVIOUS
<1>2. PICK i \in 1 .. Len(s), j \in 1 .. Len(s), k \in 1 .. Len(s) :
        /\ i < j /\ j < k
        /\ s[i] = "v2v" /\ s[j] = "os" /\ s[k] = "/v2v"
        /\ \A n \in 1 .. Len(s) \ {i, j, k} :
            \/ s[n] \in {"debug", "newline", "text"}
            \/ n < i /\ s[n] = "decl"
            \/ i < n /\ n < k /\ s[n] = "os"
  BY <1>1 DEF PrintsDocument
<1> DEFINE found == Cardinality({n \in 1 .. Len(s) : s[n] = "os"})
<1>3. found \in Nat \ {0} /\ ParseV2VInspectionXML(s) = Document(found)
  BY <1>2, V2VDocumentParsed
<1> HIDE DEF found
<1> QED
  BY <1>3 DEF Document

\* A document that virt-v2v-inspector prints between messages of any length
\* is what Inspect returns, and without an operating system there is none.
THEOREM V2VDocumentFound == EnginesSpec => []DocumentFound
<1>1. EInv /\ DocumentInv => DocumentFound
  <2> SUFFICES ASSUME EInv, DocumentInv, NEW c \in V2VCalls, call[c].ended = "ok"
               PROVE  /\ call[c].pc = "returned" /\ PrintsDocument(call[c].stream)
                            => call[c].result \in {"document", "timeout", "cancelled"}
                      /\ call[c].result = "document"
                            => FirstOf(call[c].stream, {"os"}) > 0
    BY DEF DocumentFound
  <2> DEFINE s == call[c].stream
  <2>1. /\ c \in Calls /\ s \in Seq(Tokens)
        /\ Fits(c, call[c]) /\ Reports(call[c])
    BY DEF Calls, EInv, EnginesTypeOK, DocumentInv, CallRecords
  <2>2. call[c].parsed = ParseV2VInspectionXML(s)
    BY <2>1 DEF Reports
  <2> HIDE DEF s
  <2>3. ASSUME call[c].pc = "returned", PrintsDocument(s)
        PROVE  call[c].result \in {"document", "timeout", "cancelled"}
    <3>1. call[c].parsed.ok /\ call[c].parsed.oses # 0
      BY <2>1, <2>2, <2>3, PrintedIsParsed
    <3> QED
      BY <2>1, <2>3, <3>1 DEF Reports
  <2>4. ASSUME call[c].result = "document" PROVE FirstOf(s, {"os"}) > 0
    <3>1. call[c].pc \in {"cleanup", "returned"}
      BY <2>1, <2>4 DEF Fits
    <3>2. call[c].parsed.oses # 0
      BY <2>1, <2>4, <3>1 DEF Reports
    <3>3. \E i \in 1 .. Len(s) : s[i] = "os"
      BY <2>1, <2>2, <3>2, V2VNothingMadeUp
    <3>4. FirstOf(s, {"os"}) \in 1 .. Len(s)
      BY <2>1, <3>3, FirstOfIs
    <3> QED
      BY <3>4
  <2> QED
    BY <2>3, <2>4 DEF s
<1> QED
  BY <1>1, EnginesInvariance, DocumentInvariance, PTL
=============================================================================
