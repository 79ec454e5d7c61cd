----------------------------- MODULE TLSConfig -----------------------------
(***************************************************************************)
(* internal/tlsconfig: what the TLS fields of the credentials come to at   *)
(* each consumer.  The digest of a certificate is a value; what is kept of *)
(* its text is whether it is in VMware's format, since thumbprints are     *)
(* compared as strings.                                                    *)
(*                                                                         *)
(* A definition named Bug... is the definition after it with one mistake a *)
(* change of the code could make.                                          *)
(***************************************************************************)

\* A thumbprint, VMware's way of writing it, and one that is not given.
Thumbprint(digest, form) == [digest |-> digest, form |-> form]
Formatted(digest)        == Thumbprint(digest, "AA:BB")
NoThumbprint             == Thumbprint("", "")

\* Any 40 hexadecimal digits have a digest, other text has none.
IsThumbprint(t) == t.digest # ""

\* The text is checked, and used as it was given.
BugNotNormalized(t) == t

NormalizeThumbprint(t) == Formatted(t.digest)

\* A certificate is its digest and the bundle that verifies its chain.
ComputeThumbprint(cert) == Formatted(cert.digest)

\* A Config; without any of the three it is the error of FromCredentials.
TLSSettings(insecure, thumbprint, rootCA) ==
    [insecure |-> insecure, thumbprint |-> thumbprint, rootCA |-> rootCA]

Invalid  == TLSSettings(FALSE, NoThumbprint, "")
Insecure == TLSSettings(TRUE, NoThumbprint, "")

\* Insecure mode wins over the thumbprint, the thumbprint over the bundle;
\* without any of them the mode is insecure.  loads: the bundle can be read.
FromCredentials(creds, loads) ==
    IF creds.insecure THEN Insecure
    ELSE IF creds.thumbprint # NoThumbprint
    THEN IF IsThumbprint(creds.thumbprint)
         THEN TLSSettings(FALSE, NormalizeThumbprint(creds.thumbprint), "")
         ELSE Invalid
    ELSE IF creds.caCert # ""
    THEN IF loads THEN TLSSettings(FALSE, NoThumbprint, creds.caCert)
                  ELSE Invalid
    ELSE Insecure

\* The thumbprint nbdkit verifies the server with.
ForNBDKit(tls) == IF tls.insecure THEN NoThumbprint ELSE tls.thumbprint

\* What the URL of libvirt says of the server: it is not verified, or by the
\* bundle at a path.
NoVerify     == [verify |-> "no_verify", value |-> "1"]
CACert(path) == [verify |-> "cacert", value |-> path]

\* The bundle is left to nbdkit, like the thumbprint.
BugCACertDropped(tls) == NoVerify

\* "virt-v2v doesn't support thumbprint pinning directly"
ForVirtV2V(tls) ==
    IF ~tls.insecure /\ tls.rootCA # "" THEN CACert(tls.rootCA) ELSE NoVerify

\* Whether GetVCenterThumbprint accepts the certificate a server presents.
Accepts(tls, cert) ==
    \/ tls.insecure
    \/ tls.rootCA # "" /\ cert.issuer = tls.rootCA
    \/ /\ tls.rootCA = "" /\ tls.thumbprint # NoThumbprint
       /\ ComputeThumbprint(cert) = tls.thumbprint
=============================================================================
