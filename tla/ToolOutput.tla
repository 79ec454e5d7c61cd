----------------------------- MODULE ToolOutput -----------------------------
(***************************************************************************)
(* What internal/inspection makes of the output of virt-inspector and      *)
(* virt-v2v-inspector.  LIBGUESTFS_DEBUG=1 mixes messages into it, so the  *)
(* code looks for the document, and for words in the messages.             *)
(*                                                                         *)
(* An output is a sequence of tokens for the former and a set of patterns  *)
(* for the latter; everything else is "text", or not there.                *)
(*                                                                         *)
(* A definition named Bug... is the definition after it with one mistake a *)
(* change of the code could make.                                          *)
(***************************************************************************)
EXTENDS Naturals, SequencesExt

\* <?xml ...?>; <operatingsystem> and <inspection> in one piece; the elements
\* the former is a child of: <v2v-inspection> of the one tool and
\* <operatingsystems> of the other; "libguestfs:" and the end of a line.
Tokens == {"decl", "os", "inspection", "v2v", "/v2v", "oses", "/oses",
           "debug", "newline", "text"}

Starts == {"os", "inspection", "v2v", "oses"}
Ends   == {"/v2v", "/oses"}

FirstOf(s, kinds) == SelectInSeq(s, LAMBDA t : t \in kinds)
LastOf(s, kinds)  == SelectLastInSeq(s, LAMBDA t : t \in kinds)
From(s, i)        == SubSeq(s, i, Len(s))

\* Where the first of the markers that occurs at all occurs first, or 0.
StartOf(s, markers) ==
    LET firsts == [m \in DOMAIN markers |-> FirstOf(s, markers[m])]
        found  == SelectInSeq(firsts, LAMBDA i : i > 0)
    IN  IF found = 0 THEN 0 ELSE firsts[found]

\* xml.Unmarshal: the first element is the root, whatever it is called, and
\* must end; what follows it is not read, what is around it is skipped.
Document(oses) == [ok |-> TRUE, oses |-> oses]
NoDocument     == [ok |-> FALSE, oses |-> 0]

Unmarshal(s) ==
    LET root   == FirstOf(s, Starts)
        end    == SelectInSubSeq(s, root + 1, Len(s), LAMBDA t : t \in Ends)
        body   == root + 1 .. end - 1
        closes == /\ end > 0
                  /\ s[end] = IF s[root] = "v2v" THEN "/v2v" ELSE "/oses"
                  /\ \A i \in body : s[i] \notin {"v2v", "oses"}
    IN  IF root = 0 THEN NoDocument
        ELSE IF s[root] \in {"os", "inspection"} THEN Document(0)
        ELSE IF closes THEN Document(Cardinality({i \in body : s[i] = "os"}))
        ELSE NoDocument

----------------------------------------------------------------------------
(* virt_v2v_inspector.go *)

\* "<operatingsystem" is the beginning of "<operatingsystems" too.
V2VMarkers == <<{"decl"}, {"v2v"}, {"os", "oses"}, {"inspection"}>>

\* Only one of the two ends is looked for.
BugNoEnd(xml) ==
    LET end == LastOf(xml, {"os"})
    IN  IF end = 0 THEN xml ELSE SubSeq(xml, 1, end)

\* Up to the last </v2v-inspection>, or else the last </operatingsystem>.
UpToEnd(xml) ==
    LET end == IF FirstOf(xml, {"/v2v"}) > 0 THEN LastOf(xml, {"/v2v"})
                                             ELSE LastOf(xml, {"os"})
    IN  IF end = 0 THEN xml ELSE SubSeq(xml, 1, end)

\* Without a marker, all of the output.
ExtractV2V(s) ==
    LET start == StartOf(s, V2VMarkers)
    IN  IF start = 0 THEN s ELSE UpToEnd(From(s, start))

\* A document without an operating system is no error here, ...
ParseV2VInspectionXML(s) == Unmarshal(ExtractV2V(s))

----------------------------------------------------------------------------
(* virt_inspector.go *)

\* The debug messages are left where they are.
BugMessagesKept(s) == s

\* From "libguestfs:" to the end of the line, what is in between included.
WithoutMessages(s) ==
    [i \in DOMAIN s |->
        IF \E j \in 1 .. i :
            /\ s[j] = "debug"
            /\ \A k \in j .. i - 1 : s[k] # "newline"
        THEN "text" ELSE s[i]]

\* ... and one here.
ParseInspectionXML(s) ==
    LET start  == StartOf(s, <<{"decl"}, {"oses"}>>)
        xml    == From(s, start)
        end    == FirstOf(xml, {"/oses"})
        upTo   == IF end = 0 THEN xml ELSE SubSeq(xml, 1, end)
        parsed == Unmarshal(IF start = 0 THEN s ELSE WithoutMessages(upTo))
    IN  IF parsed.oses = 0 THEN NoDocument ELSE parsed

----------------------------------------------------------------------------
(* errors.go *)

\* "error" or "failed"; an indicator of encryption; "could not open backing
\* image", "requested export not available", "vixdisklib_open", "you do not
\* have access rights", "access denied" or "permission denied"; "encrypt" in
\* none of the indicators; "invalid multibyte".
Words == {"error", "strong", "openImage", "exportNA", "vixOpen", "noRights",
          "denied", "encrypt", "multibyte"}

\* The tests in their order: a strong indicator, the two patterns of VDDK,
\* access rights (never encryption), and the weak indicators.
IsEncryptedDiskError(words) ==
    LET says(w) == w \in words
        vddk    == /\ says("openImage") \/ says("exportNA")
                   /\ says("vixOpen") /\ says("noRights")
        weak    == (says("openImage") /\ says("encrypt")) \/ says("multibyte")
    IN  /\ says("error") \/ says("openImage")
        /\ \/ says("strong")
           \/ vddk
           \/ ~says("noRights") /\ ~says("denied") /\ weak
=============================================================================
