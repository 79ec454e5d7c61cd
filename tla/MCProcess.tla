----------------------------- MODULE MCProcess -----------------------------
(***************************************************************************)
(* Values for TLC: what NewDetector is given, what the tools print.        *)
(***************************************************************************)
EXTENDS Process

Creds(insecure, thumbprint, caCert) ==
    [insecure |-> insecure, thumbprint |-> thumbprint, caCert |-> caCert]

Pinned  == Creds(FALSE, Thumbprint("v", "aabb"), "ca")
Bundled == Creds(FALSE, NoThumbprint, "ca")
NoTLS   == Creds(FALSE, NoThumbprint, "")
Wrong   == Creds(FALSE, Thumbprint("", "xyz"), "")

Config(vcenter, dir, creds) ==
    [vcenter |-> vcenter, login |-> TRUE, libDir |-> dir, creds |-> creds]

\* A directory that exists, one that does not, one only the other has; every
\* TLS mode; a Detector for local disks; and what is refused.
MCConfigs ==
    {Config(TRUE, "vddk7", Pinned), Config(TRUE, "vddk8", Bundled),
     Config(TRUE, "gone", [Pinned EXCEPT !.insecure = TRUE]),
     Config(TRUE, "vddk8", Wrong),
     Config(FALSE, "", NoTLS), Config(TRUE, "", NoTLS)}

MCCerts == {[digest |-> "v", issuer |-> "ca"], [digest |-> "w", issuer |-> "other"]}

Says(words, stream) == [words |-> words, stream |-> stream]

Doc == <<"v2v", "os", "/v2v">>

\* A failure that names encryption, one of access rights; a document with and
\* without declaration, between messages and after a foreign element, cut
\* off, and none.
MCV2VOutputs ==
    {Says({"error", "strong"}, <<"text">>),
     Says({"error", "noRights", "multibyte"}, <<"text">>),
     Says({"openImage", "strong"}, <<"text">> \o Doc),
     Says({"error"}, <<"debug", "text", "newline", "decl">> \o Doc),
     Says({}, <<"decl", "inspection", "newline">> \o Doc),
     Says({}, <<"decl", "v2v", "os">>)}

\* The list of operating systems, with messages before it and in it, one of
\* which ends nowhere; without an end, without a beginning and not at all.
MCLocalOutputs ==
    {<<"decl", "oses", "os", "newline", "/oses">>,
     <<"debug", "os", "newline", "oses", "os", "os", "/oses">>,
     <<"oses", "newline", "debug", "os", "newline", "os", "/oses">>,
     <<"oses", "debug", "os", "/oses">>,
     <<"debug", "oses", "newline", "oses", "os", "/oses">>,
     <<"oses", "/oses">>, <<"decl", "oses", "os">>, <<"os">>}
=============================================================================
