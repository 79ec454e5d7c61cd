----------------------------- MODULE ToolProofs -----------------------------
(***************************************************************************)
(* What is proved of ToolOutput for an output of any length: where the     *)
(* markers are found, what Unmarshal returns, and which outputs the two    *)
(* parsers take a document from.                                           *)
(*                                                                         *)
(* Where an argument goes through an output one token after the other it   *)
(* is about the least index that would be a counterexample, since the      *)
(* natural numbers are well-founded.                                       *)
(***************************************************************************)
EXTENDS ToolOutput, FiniteSetTheorems, SequenceTheorems, WellFoundedInduction,
        TLAPS

----------------------------------------------------------------------------
(* Numbers *)

\* Some natural numbers have a least one ...
LEMMA LeastElement ==
    ASSUME NEW S \in SUBSET Nat, S # {}
    PROVE  \E x \in S : \A y \in S : x <= y
<1> DEFINE Less == {p \in Nat \X Nat : p[1] < p[2]}
<1>1. IsWellFoundedOn(Less, Nat)
  BY NatLessThanWellFounded DEF OpToRel
<1>2. PICK x \in S : \A y \in S : ~(<<y, x>> \in Less)
  <2> HIDE DEF Less
  <2> QED
    BY <1>1, WFMin
<1>3. ASSUME NEW y \in S PROVE x <= y
  <2>1. ~(<<y, x>> \in Nat \X Nat /\ <<y, x>>[1] < <<y, x>>[2])
    BY <1>2
  <2> QED
    BY <2>1
<1> QED
  BY <1>3

\* ... which is their Min.
LEMMA MinOfSome ==
    ASSUME NEW S \in SUBSET Nat, S # {}
    PROVE  Min(S) \in S /\ \A y \in S : Min(S) <= y
<1>1. \E x \in S : \A y \in S : x <= y
  BY LeastElement
<1> QED
  BY <1>1 DEF Min

\* Some indices have a greatest one, their Max: the least number n - i has
\* the greatest i.
LEMMA MaxOfSome ==
    ASSUME NEW n \in Nat, NEW S \in SUBSET (1 .. n), S # {}
    PROVE  Max(S) \in S /\ \A y \in S : Max(S) >= y
<1> DEFINE T == {n - i : i \in S}
<1>1. T \in SUBSET Nat /\ T # {}
  <2>1. \A i \in 1 .. n : n - i \in Nat
    OBVIOUS
  <2> QED
    BY <2>1
<1>2. PICK t \in T : \A y \in T : t <= y
  BY <1>1, LeastElement
<1>3. PICK x \in S : t = n - x
  OBVIOUS
<1>4. ASSUME NEW y \in S PROVE x >= y
  <2>1. n - x <= n - y
    BY <1>2, <1>3
  <2> QED
    BY <2>1
<1>5. \E x0 \in S : \A y \in S : x0 >= y
  BY <1>4
<1> QED
  BY <1>5 DEF Max

\* What holds of 0, and of the successor of each number it holds of, holds
\* of every number.
LEMMA UpFromZero ==
    ASSUME NEW S, 0 \in S, \A n \in Nat : n \in S => n + 1 \in S
    PROVE  Nat \subseteq S
<1> SUFFICES ASSUME Nat \ S # {} PROVE FALSE
  OBVIOUS
<1>1. PICK x \in Nat \ S : \A y \in Nat \ S : x <= y
  BY LeastElement
<1>2. x # 0 /\ x - 1 \in Nat
  BY <1>1
<1>3. x - 1 \in S
  BY <1>1, <1>2
<1> QED
  BY <1>1, <1>2, <1>3

\* As many numbers as there are in S are in S moved by k.
LEMMA CardinalityMoved ==
    ASSUME NEW S \in SUBSET Int, NEW T \in SUBSET Int, NEW k \in Int,
           IsFiniteSet(S), \A i \in Int : i \in S <=> i + k \in T
    PROVE  IsFiniteSet(T) /\ Cardinality(T) = Cardinality(S)
<1> DEFINE f == [i \in S |-> i + k]
<1>1. f \in [S -> T]
  OBVIOUS
<1>2. \A i, j \in S : i # j => f[i] # f[j]
  OBVIOUS
<1>3. \A y \in T : y - k \in S /\ f[y - k] = y
  OBVIOUS
<1>4. f \in Bijection(S, T)
  BY <1>1, <1>2, <1>3 DEF Bijection, Injection, Surjection, IsInjective
<1>5. ExistsBijection(S, T)
  BY <1>4 DEF ExistsBijection
<1> QED
  BY <1>5, FS_Bijection, FS_SameCardinalityBij

----------------------------------------------------------------------------
(* Where a token is *)

\* FirstOf is the index of a token of the kinds with none before it, if
\* there is such a token.
LEMMA FirstOfIs ==
    ASSUME NEW T, NEW s \in Seq(T), NEW kinds
    PROVE  \/ /\ FirstOf(s, kinds) = 0
              /\ \A i \in 1 .. Len(s) : s[i] \notin kinds
           \/ /\ FirstOf(s, kinds) \in 1 .. Len(s)
              /\ s[FirstOf(s, kinds)] \in kinds
              /\ \A i \in 1 .. FirstOf(s, kinds) - 1 : s[i] \notin kinds
<1> DEFINE I == {i \in 1 .. Len(s) : s[i] \in kinds}
<1>1. FirstOf(s, kinds) = IF I # {} THEN Min(I) ELSE 0
  BY DEF FirstOf, SelectInSeq
<1>2. Len(s) \in Nat
  OBVIOUS
<1>3. CASE I = {}
  BY <1>1, <1>3
<1>4. CASE I # {}
  <2>1. I \in SUBSET Nat
    BY <1>2
  <2>2. Min(I) \in I /\ \A y \in I : Min(I) <= y
    BY <1>4, <2>1, MinOfSome
  <2>3. Min(I) \in 1 .. Len(s) /\ s[Min(I)] \in kinds
    BY <2>2
  <2>4. ASSUME NEW i \in 1 .. Min(I) - 1 PROVE s[i] \notin kinds
    <3>1. i \in 1 .. Len(s) /\ ~(Min(I) <= i)
      BY <1>2, <2>3
    <3> QED
      BY <2>2, <3>1
  <2> QED
    BY <1>1, <1>4, <2>3, <2>4
<1> QED
  BY <1>3, <1>4

\* So where such an index is known, FirstOf is that.
LEMMA FirstOfFound ==
    ASSUME NEW T, NEW s \in Seq(T), NEW kinds, NEW p \in 1 .. Len(s),
           s[p] \in kinds, \A i \in 1 .. p - 1 : s[i] \notin kinds
    PROVE  FirstOf(s, kinds) = p
<1> DEFINE f == FirstOf(s, kinds)
<1>1. /\ f \in 1 .. Len(s) /\ s[f] \in kinds
      /\ \A i \in 1 .. f - 1 : s[i] \notin kinds
  BY FirstOfIs
<1> HIDE DEF f
<1>2. Len(s) \in Nat
  OBVIOUS
<1>3. ~(f < p) /\ ~(p < f)
  BY <1>1, <1>2
<1>4. f = p
  BY <1>1, <1>2, <1>3
<1> QED
  BY <1>4 DEF f

\* LastOf is the index of a token of the kinds with none after it.
LEMMA LastOfIs ==
    ASSUME NEW T, NEW s \in Seq(T), NEW kinds
    PROVE  \/ /\ LastOf(s, kinds) = 0
              /\ \A i \in 1 .. Len(s) : s[i] \notin kinds
           \/ /\ LastOf(s, kinds) \in 1 .. Len(s)
              /\ s[LastOf(s, kinds)] \in kinds
              /\ \A i \in LastOf(s, kinds) + 1 .. Len(s) : s[i] \notin kinds
<1> DEFINE I == {i \in 1 .. Len(s) : s[i] \in kinds}
<1>1. LastOf(s, kinds) = IF I # {} THEN Max(I) ELSE 0
  BY DEF LastOf, SelectLastInSeq
<1>2. Len(s) \in Nat
  OBVIOUS
<1>3. CASE I = {}
  BY <1>1, <1>3
<1>4. CASE I # {}
  <2>1. I \in SUBSET (1 .. Len(s))
    OBVIOUS
  <2>2. Max(I) \in I /\ \A y \in I : Max(I) >= y
    BY <1>2, <1>4, <2>1, MaxOfSome
  <2>3. Max(I) \in 1 .. Len(s) /\ s[Max(I)] \in kinds
    BY <2>2
  <2>4. ASSUME NEW i \in Max(I) + 1 .. Len(s) PROVE s[i] \notin kinds
    <3>1. i \in 1 .. Len(s) /\ ~(Max(I) >= i)
      BY <1>2, <2>3
    <3> QED
      BY <2>2, <3>1
  <2> QED
    BY <1>1, <1>4, <2>3, <2>4
<1> QED
  BY <1>3, <1>4

\* What SubSeq leaves of an output.
LEMMA PartOf ==
    ASSUME NEW T, NEW s \in Seq(T), NEW m \in 1 .. Len(s) + 1, NEW n \in 0 .. Len(s),
           m <= n + 1
    PROVE  /\ SubSeq(s, m, n) \in Seq(T)
           /\ Len(SubSeq(s, m, n)) = n + 1 - m
           /\ \A i \in 1 .. n + 1 - m : SubSeq(s, m, n)[i] = s[i + m - 1]
<1>1. Len(s) \in Nat /\ \A i \in 1 .. Len(s) : s[i] \in T
  OBVIOUS
<1>2. \A i \in m .. n : s[i] \in T
  BY <1>1
<1>3. m \in Int /\ n \in Int
  BY <1>1
<1>4. /\ SubSeq(s, m, n) \in Seq(T)
      /\ Len(SubSeq(s, m, n)) = IF m <= n THEN n - m + 1 ELSE 0
      /\ \A i \in 1 .. n - m + 1 : SubSeq(s, m, n)[i] = s[m + i - 1]
  BY <1>2, <1>3, SubSeqProperties
<1>5. (IF m <= n THEN n - m + 1 ELSE 0) = n + 1 - m
  BY <1>1
<1>6. n - m + 1 = n + 1 - m /\ \A i \in Int : m + i - 1 = i + m - 1
  BY <1>1
<1> QED
  BY <1>4, <1>5, <1>6

----------------------------------------------------------------------------
(* Unmarshal *)

\* The same for a part of an output: the end Unmarshal finds.
LEMMA EndIs ==
    ASSUME NEW s \in Seq(Tokens), NEW m \in 1 .. Len(s) + 1
    PROVE  LET end == SelectInSubSeq(s, m, Len(s), LAMBDA t : t \in Ends)
           IN  \/ end = 0
               \/ /\ end \in m .. Len(s) /\ s[end] \in Ends
                  /\ \A i \in m .. end - 1 : s[i] \notin Ends
<1> DEFINE I == {i \in m .. Len(s) : s[i] \in Ends}
           end == SelectInSubSeq(s, m, Len(s), LAMBDA t : t \in Ends)
<1>1. end = IF I # {} THEN Min(I) ELSE 0
  BY DEF SelectInSubSeq
<1>2. Len(s) \in Nat /\ m \in Nat
  OBVIOUS
<1>3. CASE I # {}
  <2>1. I \in SUBSET Nat
    BY <1>2
  <2>2. Min(I) \in I /\ \A y \in I : Min(I) <= y
    BY <1>3, <2>1, MinOfSome
  <2>3. Min(I) \in m .. Len(s) /\ s[Min(I)] \in Ends
    BY <2>2
  <2>4. ASSUME NEW i \in m .. Min(I) - 1 PROVE s[i] \notin Ends
    <3>1. i \in m .. Len(s) /\ ~(Min(I) <= i)
      BY <1>2, <2>3
    <3> QED
      BY <2>2, <3>1
  <2> QED
    BY <1>1, <1>3, <2>3, <2>4
<1> QED
  BY <1>1, <1>3

LEMMA EndFound ==
    ASSUME NEW s \in Seq(Tokens), NEW m \in 1 .. Len(s) + 1,
           NEW e \in m .. Len(s), s[e] \in Ends,
           \A i \in m .. e - 1 : s[i] \notin Ends
    PROVE  SelectInSubSeq(s, m, Len(s), LAMBDA t : t \in Ends) = e
<1> DEFINE I == {i \in m .. Len(s) : s[i] \in Ends}
           end == SelectInSubSeq(s, m, Len(s), LAMBDA t : t \in Ends)
<1>1. end = IF I # {} THEN Min(I) ELSE 0
  BY DEF SelectInSubSeq
<1>2. Len(s) \in Nat /\ m \in Nat
  OBVIOUS
<1>3. e \in I /\ I \in SUBSET Nat
  BY <1>2
<1>4. Min(I) \in I /\ \A y \in I : Min(I) <= y
  BY <1>3, MinOfSome
<1>5. Min(I) \in m .. Len(s) /\ s[Min(I)] \in Ends
  BY <1>4
<1>6. Min(I) <= e
  BY <1>3, <1>4
<1>7. ~(Min(I) < e)
  BY <1>2, <1>5
<1>8. Min(I) = e
  BY <1>2, <1>5, <1>6, <1>7
<1> QED
  BY <1>1, <1>3, <1>8

\* Indices are finitely many.
LEMMA SomeFinite ==
    ASSUME NEW m \in Int, NEW n \in Int, NEW S \in SUBSET (m .. n)
    PROVE  IsFiniteSet(S) /\ Cardinality(S) \in Nat /\ (Cardinality(S) = 0 <=> S = {})
BY FS_Interval, FS_Subset, FS_CardinalityType, FS_EmptySet

\* An output in which the first element of all begins at r and the next end of
\* a list, which belongs to it, is at e has the document from r to e, with as
\* many operating systems as are listed there.
LEMMA RootToEnd ==
    ASSUME NEW s \in Seq(Tokens), NEW r \in 1 .. Len(s), NEW e \in r + 1 .. Len(s),
           s[r] \in {"v2v", "oses"},
           s[e] = IF s[r] = "v2v" THEN "/v2v" ELSE "/oses",
           \A i \in 1 .. r - 1 : s[i] \notin Starts,
           \A i \in r + 1 .. e - 1 : s[i] \notin {"v2v", "oses", "/v2v", "/oses"}
    PROVE  Unmarshal(s) = Document(Cardinality({i \in r + 1 .. e - 1 : s[i] = "os"}))
<1>1. Len(s) \in Nat /\ r + 1 \in 1 .. Len(s) + 1
  OBVIOUS
<1>2. FirstOf(s, Starts) = r
  <2>1. s[r] \in Starts /\ r \in 1 .. Len(s)
    BY DEF Starts
  <2> QED
    BY <2>1, FirstOfFound, Zenon
<1>3. s[e] \in Ends /\ \A i \in r + 1 .. e - 1 : s[i] \notin Ends
  BY DEF Ends
<1>4. SelectInSubSeq(s, r + 1, Len(s), LAMBDA t : t \in Ends) = e
  BY <1>1, <1>3, EndFound
<1>5. r # 0 /\ e > 0 /\ s[r] \notin {"os", "inspection"}
  BY <1>1
<1> HIDE DEF Starts
<1> QED
  BY <1>2, <1>4, <1>5 DEF Unmarshal

\* Nothing is listed that is not in the output.
LEMMA NothingMadeUp ==
    ASSUME NEW s \in Seq(Tokens)
    PROVE  /\ Unmarshal(s) \in [ok : BOOLEAN, oses : Nat]
           /\ Unmarshal(s).oses # 0 => \E i \in 1 .. Len(s) : s[i] = "os"
<1> DEFINE root == FirstOf(s, Starts)
           end == SelectInSubSeq(s, root + 1, Len(s), LAMBDA t : t \in Ends)
           listed == {i \in root + 1 .. end - 1 : s[i] = "os"}
<1>1. Len(s) \in Nat /\ root \in 0 .. Len(s)
  BY FirstOfIs
<1>4. \/ Unmarshal(s) = NoDocument \/ Unmarshal(s) = Document(0)
      \/ Unmarshal(s) = Document(Cardinality(listed))
  BY DEF Unmarshal
<1> HIDE DEF root
<1>2. end = 0 \/ end \in root + 1 .. Len(s)
  <2>1. root + 1 \in 1 .. Len(s) + 1
    BY <1>1
  <2> QED
    BY <2>1, EndIs
<1> HIDE DEF end
<1>3. Cardinality(listed) \in Nat /\ (Cardinality(listed) = 0 <=> listed = {})
  <2>1. root + 1 \in Int /\ end - 1 \in Int
    BY <1>1, <1>2
  <2> QED
    BY <2>1, SomeFinite
<1>5. \A i \in listed : i \in 1 .. Len(s) /\ s[i] = "os"
  BY <1>1, <1>2
<1> HIDE DEF listed
<1>6. CASE Unmarshal(s) = NoDocument \/ Unmarshal(s) = Document(0)
  <2>1. NoDocument.oses = 0 /\ Document(0).oses = 0
    BY DEF NoDocument, Document
  <2>2. /\ NoDocument \in [ok : BOOLEAN, oses : Nat]
        /\ Document(0) \in [ok : BOOLEAN, oses : Nat]
    BY DEF NoDocument, Document
  <2> QED
    BY <1>6, <2>1, <2>2
<1>7. CASE Unmarshal(s) = Document(Cardinality(listed))
  <2>1. Unmarshal(s).oses = Cardinality(listed) /\ Unmarshal(s).ok = TRUE
    BY <1>7 DEF Document
  <2> QED
    BY <1>3, <1>5, <1>7, <2>1 DEF Document
<1> QED
  BY <1>4, <1>6, <1>7

----------------------------------------------------------------------------
(* The beginning of a document *)

\* The first marker that is in the output at all says where it begins.
LEMMA StartFound ==
    ASSUME NEW s \in Seq(Tokens), NEW markers \in Seq(SUBSET Tokens),
           NEW n \in 1 .. Len(markers), FirstOf(s, markers[n]) # 0,
           \A m \in 1 .. n - 1 : FirstOf(s, markers[m]) = 0
    PROVE  StartOf(s, markers) = FirstOf(s, markers[n])
<1> DEFINE firsts == [m \in DOMAIN markers |-> FirstOf(s, markers[m])]
           I == {m \in 1 .. Len(firsts) : firsts[m] > 0}
           found == SelectInSeq(firsts, LAMBDA i : i > 0)
<1>1. Len(markers) \in Nat /\ DOMAIN markers = 1 .. Len(markers)
  OBVIOUS
<1>2. Len(firsts) = Len(markers)
  BY <1>1
<1>3. \A m \in 1 .. Len(markers) :
        firsts[m] = FirstOf(s, markers[m]) /\ FirstOf(s, markers[m]) \in Nat
  <2>1. \A m \in 1 .. Len(markers) : FirstOf(s, markers[m]) \in Nat
    BY FirstOfIs
  <2> QED
    BY <1>1, <2>1
<1>4. found = IF I # {} THEN Min(I) ELSE 0
  BY DEF SelectInSeq
<1>5. StartOf(s, markers) = IF found = 0 THEN 0 ELSE firsts[found]
  BY DEF StartOf
<1> HIDE DEF firsts, found
<1>6. n \in I /\ I \in SUBSET Nat /\ \A m \in 1 .. n - 1 : m \notin I
  <2>1. firsts[n] > 0
    BY <1>3
  <2>2. \A m \in 1 .. n - 1 : m \in 1 .. Len(markers)
    BY <1>1
  <2>3. \A m \in 1 .. n - 1 : ~(firsts[m] > 0)
    BY <1>3, <2>2
  <2> QED
    BY <1>1, <1>2, <2>1, <2>3
<1>7. Min(I) \in I /\ \A y \in I : Min(I) <= y
  BY <1>6, MinOfSome
<1>8. Min(I) = n
  <2>1. Min(I) \in Nat /\ Min(I) >= 1 /\ Min(I) <= n
    BY <1>6, <1>7
  <2>2. Min(I) \notin 1 .. n - 1
    BY <1>6, <1>7
  <2> HIDE DEF I
  <2> QED
    BY <1>1, <2>1, <2>2
<1> QED
  BY <1>1, <1>3, <1>4, <1>5, <1>6, <1>8

\* It is in the output, unless no marker is.
LEMMA StartTyped ==
    ASSUME NEW s \in Seq(Tokens), NEW markers \in Seq(SUBSET Tokens)
    PROVE  StartOf(s, markers) \in 0 .. Len(s)
<1> DEFINE firsts == [m \in DOMAIN markers |-> FirstOf(s, markers[m])]
           I == {m \in 1 .. Len(firsts) : firsts[m] > 0}
           found == SelectInSeq(firsts, LAMBDA i : i > 0)
<1>1. Len(markers) \in Nat /\ DOMAIN markers = 1 .. Len(markers)
  OBVIOUS
<1>2. Len(firsts) = Len(markers)
  BY <1>1
<1>3. \A m \in 1 .. Len(markers) : firsts[m] \in 0 .. Len(s)
  <2>1. Len(s) \in Nat
    OBVIOUS
  <2>2. \A m \in 1 .. Len(markers) : FirstOf(s, markers[m]) \in 0 .. Len(s)
    BY <2>1, FirstOfIs
  <2> QED
    BY <1>1, <2>2
<1>4. found = IF I # {} THEN Min(I) ELSE 0
  BY DEF SelectInSeq
<1>5. StartOf(s, markers) = IF found = 0 THEN 0 ELSE firsts[found]
  BY DEF StartOf
<1> HIDE DEF firsts, found
<1>6. I \in SUBSET Nat
  BY <1>1, <1>2
<1>7. I # {} => Min(I) \in 1 .. Len(markers)
  BY <1>2, <1>6, MinOfSome
<1>8. 0 \in 0 .. Len(s)
  OBVIOUS
<1> QED
  BY <1>3, <1>4, <1>5, <1>7, <1>8

----------------------------------------------------------------------------
(* virt-v2v-inspector *)

LEMMA V2VMarkersTyped ==
    /\ V2VMarkers \in Seq(SUBSET Tokens) /\ Len(V2VMarkers) = 4
    /\ V2VMarkers[1] = {"decl"} /\ V2VMarkers[2] = {"v2v"}
BY DEF V2VMarkers, Tokens

\* A document between messages is parsed, and every operating system in it
\* counts.
THEOREM V2VDocumentParsed ==
    ASSUME NEW s \in Seq(Tokens),
           NEW i \in 1 .. Len(s), NEW j \in 1 .. Len(s), NEW k \in 1 .. Len(s),
           i < j, j < k, s[i] = "v2v", s[j] = "os", s[k] = "/v2v",
           \A n \in 1 .. Len(s) \ {i, j, k} :
               \/ s[n] \in {"debug", "newline", "text"}
               \/ n < i /\ s[n] = "decl"
               \/ i < n /\ n < k /\ s[n] = "os"
    PROVE  /\ Cardinality({n \in 1 .. Len(s) : s[n] = "os"}) \in Nat \ {0}
           /\ ParseV2VInspectionXML(s) =
                Document(Cardinality({n \in 1 .. Len(s) : s[n] = "os"}))
<1> DEFINE b == StartOf(s, V2VMarkers)
           xml == From(s, b)
           e == k - b + 1
           r == i - b + 1
           doc == SubSeq(xml, 1, e)
           listed == {n \in 1 .. Len(s) : s[n] = "os"}
           counted == {m \in r + 1 .. e - 1 : doc[m] = "os"}
<1>1. Len(s) \in Nat
  OBVIOUS
<1>2. \A n \in 1 .. Len(s) :
        /\ s[n] = "v2v" => n = i
        /\ s[n] = "/v2v" => n = k
        /\ s[n] = "decl" => n < i
        /\ s[n] = "os" => i < n /\ n < k
        /\ n < i => s[n] \in {"debug", "newline", "text", "decl"}
        /\ i < n /\ n < k => s[n] \in {"debug", "newline", "text", "os"}
  OBVIOUS
<1>3. b \in 1 .. i
  <2>1. CASE FirstOf(s, {"decl"}) = 0
    <3>1. /\ i \in 1 .. Len(s) /\ s[i] \in {"v2v"}
          /\ \A n \in 1 .. i - 1 : s[n] \notin {"v2v"}
      BY <1>1, <1>2
    <3>2. FirstOf(s, {"v2v"}) = i
      BY <3>1, FirstOfFound
    <3>3. FirstOf(s, V2VMarkers[2]) = i
      BY <3>2, V2VMarkersTyped, Zenon
    <3>4. FirstOf(s, V2VMarkers[1]) = 0
      BY <2>1, V2VMarkersTyped, Zenon
    <3>5. b = FirstOf(s, V2VMarkers[2])
      <4>1. V2VMarkers \in Seq(SUBSET Tokens) /\ 2 \in 1 .. Len(V2VMarkers)
        BY V2VMarkersTyped
      <4>2. FirstOf(s, V2VMarkers[2]) # 0
        BY <1>1, <3>3
      <4>3. \A m \in 1 .. 2 - 1 : m = 1
        OBVIOUS
      <4>4. \A m \in 1 .. 2 - 1 : FirstOf(s, V2VMarkers[m]) = 0
        BY <3>4, <4>3, Zenon
      <4> QED
        BY <4>1, <4>2, <4>4, StartFound, Zenon
    <3> QED
      BY <1>1, <3>3, <3>5
  <2>2. CASE FirstOf(s, {"decl"}) # 0
    <3>1. b = FirstOf(s, {"decl"})
      <4>1. V2VMarkers \in Seq(SUBSET Tokens) /\ 1 \in 1 .. Len(V2VMarkers)
        BY V2VMarkersTyped
      <4>2. FirstOf(s, V2VMarkers[1]) = FirstOf(s, {"decl"})
        BY V2VMarkersTyped, Zenon
      <4>3. FirstOf(s, V2VMarkers[1]) # 0
        BY <2>2, <4>2, Zenon
      <4>4. \A m \in 1 .. 1 - 1 : FirstOf(s, V2VMarkers[m]) = 0
        OBVIOUS
      <4>5. b = FirstOf(s, V2VMarkers[1])
        BY <4>1, <4>3, <4>4, StartFound, Zenon
      <4> QED
        BY <4>2, <4>5, Zenon
    <3>2. b \in 1 .. Len(s) /\ s[b] = "decl"
      BY <2>2, <3>1, FirstOfIs
    <3> HIDE DEF b
    <3> QED
      BY <1>1, <1>2, <3>2
  <2> QED
    BY <2>1, <2>2
<1> HIDE DEF b
<1>4. /\ xml \in Seq(Tokens) /\ Len(xml) = Len(s) + 1 - b
      /\ \A m \in 1 .. Len(s) + 1 - b : xml[m] = s[m + b - 1]
  <2>1. b \in 1 .. Len(s) + 1 /\ Len(s) \in 0 .. Len(s) /\ b <= Len(s) + 1
    BY <1>1, <1>3
  <2> QED
    BY <2>1, PartOf DEF From
<1> HIDE DEF xml
<1>5. e \in 1 .. Len(s) + 1 - b /\ e + b - 1 = k
  BY <1>1, <1>3
<1>6. FirstOf(xml, {"/v2v"}) > 0 /\ LastOf(xml, {"/v2v"}) = e
  <2>1. xml[e] = "/v2v" /\ e \in 1 .. Len(xml)
    BY <1>4, <1>5
  <2>2. FirstOf(xml, {"/v2v"}) \in 1 .. Len(xml)
    BY <1>4, <2>1, FirstOfIs
  <2>3. /\ LastOf(xml, {"/v2v"}) \in 1 .. Len(xml)
        /\ xml[LastOf(xml, {"/v2v"})] = "/v2v"
    BY <1>4, <2>1, LastOfIs
  <2>4. ASSUME NEW m \in 1 .. Len(xml), xml[m] = "/v2v" PROVE m = e
    <3>1. m + b - 1 \in 1 .. Len(s) /\ s[m + b - 1] = "/v2v"
      BY <1>1, <1>3, <1>4, <2>4
    <3>2. m + b - 1 = k
      BY <1>2, <3>1
    <3> QED
      BY <1>3, <3>2
  <2> QED
    BY <1>4, <2>2, <2>3, <2>4
<1>7. ExtractV2V(s) = doc
  <2>1. UpToEnd(xml) = doc
    <3>1. e # 0
      BY <1>5
    <3> HIDE DEF e
    <3> QED
      BY <1>6, <3>1 DEF UpToEnd
  <2>2. b # 0
    BY <1>3
  <2> QED
    BY <2>1, <2>2, Zenon DEF ExtractV2V, b, xml
<1>8. /\ doc \in Seq(Tokens) /\ Len(doc) = e
      /\ \A m \in 1 .. e : doc[m] = s[m + b - 1]
  <2>1. 1 \in 1 .. Len(xml) + 1 /\ e \in 0 .. Len(xml) /\ 1 <= e + 1
    BY <1>1, <1>4, <1>5
  <2>2. /\ doc \in Seq(Tokens) /\ Len(doc) = e + 1 - 1
        /\ \A m \in 1 .. e + 1 - 1 : doc[m] = xml[m + 1 - 1]
    BY <1>4, <2>1, PartOf
  <2>3. e + 1 - 1 = e /\ \A m \in 1 .. e : m + 1 - 1 = m /\ m \in 1 .. Len(s) + 1 - b
    BY <1>1, <1>3
  <2> QED
    BY <1>4, <2>2, <2>3
<1> HIDE DEF doc
<1>9. Unmarshal(doc) = Document(Cardinality(counted))
  <2>1. r \in 1 .. Len(doc) /\ e \in r + 1 .. Len(doc)
    BY <1>1, <1>3, <1>8
  <2>2. doc[r] = "v2v" /\ doc[e] = "/v2v"
    BY <1>1, <1>3, <1>5, <1>8, <2>1
  <2>3. ASSUME NEW m \in 1 .. r - 1 PROVE doc[m] \notin Starts
    <3>1. m + b - 1 \in 1 .. Len(s) /\ m + b - 1 < i /\ m \in 1 .. e
      BY <1>1, <1>3
    <3>2. doc[m] \in {"debug", "newline", "text", "decl"}
      BY <1>2, <1>8, <3>1
    <3> QED
      BY <3>2 DEF Starts
  <2>4. ASSUME NEW m \in r + 1 .. e - 1
        PROVE  doc[m] \notin {"v2v", "oses", "/v2v", "/oses"}
    <3>1. /\ m + b - 1 \in 1 .. Len(s) /\ i < m + b - 1 /\ m + b - 1 < k
          /\ m \in 1 .. e
      BY <1>1, <1>3
    <3>2. doc[m] \in {"debug", "newline", "text", "os"}
      BY <1>2, <1>8, <3>1
    <3> QED
      BY <3>2
  <2> HIDE DEF r, e
  <2> QED
    BY <1>8, <2>1, <2>2, <2>3, <2>4, RootToEnd
<1>10. Cardinality(listed) = Cardinality(counted) /\ IsFiniteSet(listed)
  <2>1. counted \in SUBSET Int /\ listed \in SUBSET Int
    BY <1>1, <1>3
  <2>2. IsFiniteSet(listed) /\ IsFiniteSet(counted)
    <3>1. listed \in SUBSET (1 .. Len(s)) /\ counted \in SUBSET (1 .. e - 1)
      BY <1>1, <1>3
    <3>2. 1 \in Int /\ Len(s) \in Int /\ e - 1 \in Int
      BY <1>1, <1>3
    <3> QED
      BY <3>1, <3>2, SomeFinite
  <2>3. ASSUME NEW m \in Int PROVE m \in counted <=> m + (b - 1) \in listed
    <3>1. ASSUME m \in counted PROVE m + (b - 1) \in listed
      BY <1>1, <1>3, <1>8, <3>1
    <3>2. ASSUME m + (b - 1) \in listed PROVE m \in counted
      <4>1. i < m + (b - 1) /\ m + (b - 1) < k
        BY <1>2, <3>2
      <4> QED
        BY <1>1, <1>3, <1>8, <3>2, <4>1
    <3> QED
      BY <3>1, <3>2
  <2>4. b - 1 \in Int
    BY <1>3
  <2> HIDE DEF listed, counted
  <2> QED
    BY <2>1, <2>2, <2>3, <2>4, CardinalityMoved
<1>11. Cardinality(listed) \in Nat \ {0}
  <2>1. j \in listed
    OBVIOUS
  <2> HIDE DEF listed
  <2> QED
    BY <1>10, <2>1, FS_CardinalityType, FS_EmptySet
<1> QED
  BY <1>7, <1>9, <1>10, <1>11 DEF ParseV2VInspectionXML

\* What is parsed is in the output.
THEOREM V2VNothingMadeUp ==
    ASSUME NEW s \in Seq(Tokens)
    PROVE  /\ ParseV2VInspectionXML(s) \in [ok : BOOLEAN, oses : Nat]
           /\ ParseV2VInspectionXML(s).oses # 0
              => \E i \in 1 .. Len(s) : s[i] = "os"
<1> DEFINE b == StartOf(s, V2VMarkers)
           xml == From(s, b)
<1>1. Len(s) \in Nat /\ b \in 0 .. Len(s)
  BY StartTyped, V2VMarkersTyped
<1>2. CASE b = 0
  <2>1. ExtractV2V(s) = s
    BY <1>2 DEF ExtractV2V
  <2> QED
    BY <2>1, NothingMadeUp DEF ParseV2VInspectionXML
<1>3. CASE b # 0
  <2>1. ExtractV2V(s) = UpToEnd(xml)
    BY <1>3 DEF ExtractV2V
  <2> HIDE DEF b
  <2>2. /\ xml \in Seq(Tokens) /\ Len(xml) = Len(s) + 1 - b
        /\ \A m \in 1 .. Len(s) + 1 - b : xml[m] = s[m + b - 1]
    <3>1. b \in 1 .. Len(s) + 1 /\ Len(s) \in 0 .. Len(s) /\ b <= Len(s) + 1
      BY <1>1, <1>3
    <3> QED
      BY <3>1, PartOf DEF From
  <2> HIDE DEF xml
  <2>3. \A m \in 1 .. Len(xml) : \E n \in 1 .. Len(s) : xml[m] = s[n]
    <3>1. \A m \in 1 .. Len(s) + 1 - b : m + b - 1 \in 1 .. Len(s)
      BY <1>1, <1>3
    <3> QED
      BY <2>2, <3>1
  <2>4. PICK end \in 0 .. Len(xml) :
            UpToEnd(xml) = IF end = 0 THEN xml ELSE SubSeq(xml, 1, end)
    <3>1. LastOf(xml, {"/v2v"}) \in 0 .. Len(xml) /\ LastOf(xml, {"os"}) \in 0 .. Len(xml)
      BY <2>2, LastOfIs
    <3> QED
      BY <3>1 DEF UpToEnd
  <2>5. /\ UpToEnd(xml) \in Seq(Tokens)
        /\ \A m \in 1 .. Len(UpToEnd(xml)) : \E n \in 1 .. Len(s) : UpToEnd(xml)[m] = s[n]
    <3>1. CASE end = 0
      BY <2>2, <2>3, <2>4, <3>1
    <3>2. CASE end # 0
      <4>1. 1 \in 1 .. Len(xml) + 1 /\ 1 <= end + 1
        BY <2>2, <2>4, <3>2
      <4>2. /\ SubSeq(xml, 1, end) \in Seq(Tokens)
            /\ Len(SubSeq(xml, 1, end)) = end + 1 - 1
            /\ \A m \in 1 .. end + 1 - 1 : SubSeq(xml, 1, end)[m] = xml[m + 1 - 1]
        BY <2>2, <2>4, <4>1, PartOf
      <4>3. /\ end + 1 - 1 = end
            /\ \A m \in 1 .. end : m + 1 - 1 = m /\ m \in 1 .. Len(xml)
        BY <2>2, <2>4
      <4> QED
        BY <2>3, <2>4, <3>2, <4>2, <4>3
    <3> QED
      BY <3>1, <3>2
  <2>6. UpToEnd(xml) = ExtractV2V(s)
    BY <2>1 DEF xml, b
  <2> QED
    BY <2>5, <2>6, NothingMadeUp DEF ParseV2VInspectionXML
<1> QED
  BY <1>2, <1>3

----------------------------------------------------------------------------
(* virt_inspector.go *)

\* The positions in a message, the end of its line excluded.
Messages(s) ==
    {i \in 1 .. Len(s) : \E j \in 1 .. i :
        s[j] = "debug" /\ \A k \in j .. i : s[k] # "newline"}

\* w is s from p on, for e positions, with text for what is in a message.
Stripped(s, p, e, w) ==
    /\ w \in Seq(Tokens) /\ Len(w) = e
    /\ \A m \in 1 .. e :
        /\ m + p - 1 \in Messages(s) => w[m] = "text"
        /\ s[m + p - 1] = "newline" => w[m] \in {"text", "newline"}
        /\ m + p - 1 \notin Messages(s) /\ s[m + p - 1] # "newline" =>
             w[m] = s[m + p - 1]

\* What WithoutMessages leaves of a part of an output that begins outside of
\* the messages: what is in none is as it was, ends of lines aside, and what
\* is in one is text.
LEMMA MessagesGone ==
    ASSUME NEW s \in Seq(Tokens), NEW p \in 1 .. Len(s), NEW e \in 1 .. Len(s) + 1 - p,
           p \notin Messages(s),
           NEW u \in Seq(Tokens), Len(u) = e,
           \A m \in 1 .. e : u[m] = s[m + p - 1]
    PROVE  Stripped(s, p, e, WithoutMessages(u))
<1> DEFINE told == Messages(s)
           w == WithoutMessages(u)
           Hidden(m) == \E j \in 1 .. m : /\ u[j] = "debug"
                                          /\ \A k \in j .. m - 1 : u[k] # "newline"
<1>1. /\ Len(s) \in Nat /\ e \in Nat /\ p \in Nat
      /\ \A m \in 1 .. e : m + p - 1 \in p .. Len(s)
  OBVIOUS
<1>0. /\ told \in SUBSET (1 .. Len(s)) /\ p \notin told
      /\ \A i \in 1 .. Len(s) :
          i \in told <=> \E j \in 1 .. i : /\ s[j] = "debug"
                                           /\ \A k \in j .. i : s[k] # "newline"
  BY DEF Messages
<1> HIDE DEF told
<1>2. w = [m \in 1 .. e |-> IF Hidden(m) THEN "text" ELSE u[m]]
  <2>1. DOMAIN u = 1 .. e
    OBVIOUS
  <2> QED
    BY <2>1, Zenon DEF WithoutMessages
<1>3. \A m \in 1 .. e : u[m] \in Tokens /\ "text" \in Tokens
  BY DEF Tokens
<1>4. w \in Seq(Tokens) /\ Len(w) = e
  BY <1>1, <1>2, <1>3
<1>5. \A m \in 1 .. e : w[m] = IF Hidden(m) THEN "text" ELSE u[m]
  BY <1>2
<1> HIDE DEF w
<1>6. ASSUME NEW m \in 1 .. e, m + p - 1 \in told PROVE Hidden(m)
  <2> DEFINE n == m + p - 1
  <2>1. PICK j \in 1 .. n : s[j] = "debug" /\ \A k \in j .. n : s[k] # "newline"
    BY <1>1, <1>0, <1>6
  <2>2. p <= j
    <3>1. SUFFICES ASSUME j < p PROVE FALSE
      BY <1>1
    <3>2. p \in j .. n /\ \A k \in j .. p : k \in j .. n
      BY <1>1, <3>1
    <3>3. j \in 1 .. p
      BY <1>1, <3>1
    <3> QED
      BY <1>0, <2>1, <3>2, <3>3
  <2> DEFINE i == j - p + 1
  <2>3. i \in 1 .. m /\ i + p - 1 = j
    BY <1>1, <2>2
  <2>4. u[i] = "debug"
    BY <1>1, <2>1, <2>3
  <2>5. ASSUME NEW k \in i .. m - 1 PROVE u[k] # "newline"
    <3>1. k \in 1 .. e /\ k + p - 1 \in j .. n
      BY <1>1, <2>2
    <3> QED
      BY <2>1, <3>1
  <2> HIDE DEF i
  <2> QED
    BY <2>3, <2>4, <2>5
<1>7. ASSUME NEW m \in 1 .. e, Hidden(m), s[m + p - 1] # "newline"
      PROVE  m + p - 1 \in told
  <2> DEFINE n == m + p - 1
  <2>1. PICK i \in 1 .. m : u[i] = "debug" /\ \A k \in i .. m - 1 : u[k] # "newline"
    BY <1>7
  <2> DEFINE j == i + p - 1
  <2>2. j \in 1 .. n /\ s[j] = "debug"
    BY <1>1, <2>1
  <2>3. ASSUME NEW k \in j .. n PROVE s[k] # "newline"
    <3>1. CASE k = n
      BY <1>7, <3>1
    <3>2. CASE k # n
      <4>1. k - p + 1 \in i .. m - 1 /\ k - p + 1 \in 1 .. e /\ (k - p + 1) + p - 1 = k
        BY <1>1, <3>2
      <4> QED
        BY <2>1, <4>1
    <3> QED
      BY <3>1, <3>2
  <2>4. n \in 1 .. Len(s)
    BY <1>1
  <2> HIDE DEF j, n
  <2>5. n \in told
    BY <1>0, <2>2, <2>3, <2>4
  <2> QED
    BY <2>5 DEF n
<1> HIDE DEF Hidden
<1>8. ASSUME NEW m \in 1 .. e
      PROVE  /\ m + p - 1 \in told => w[m] = "text"
             /\ s[m + p - 1] = "newline" => w[m] \in {"text", "newline"}
             /\ m + p - 1 \notin told /\ s[m + p - 1] # "newline" =>
                  w[m] = s[m + p - 1]
  <2>1. w[m] \in {"text", s[m + p - 1]} /\ w[m] = IF Hidden(m) THEN "text" ELSE s[m + p - 1]
    BY <1>5
  <2> QED
    BY <1>6, <1>7, <2>1
<1> QED
  BY <1>4, <1>8 DEF w, told, Stripped

LEMMA LocalMarkers ==
    /\ <<{"decl"}, {"oses"}>> \in Seq(SUBSET Tokens)
    /\ Len(<<{"decl"}, {"oses"}>>) = 2
    /\ <<{"decl"}, {"oses"}>>[1] = {"decl"} /\ <<{"decl"}, {"oses"}>>[2] = {"oses"}
BY DEF Tokens

\* A list of operating systems that is the only markup outside of the messages
\* is parsed, and those in it are counted; an empty one is an error.
THEOREM LocalDocumentParsed ==
    ASSUME NEW s \in Seq(Tokens), NEW p \in 1 .. Len(s), NEW q \in p + 1 .. Len(s),
           s[p] = "oses", s[q] = "/oses",
           p \notin Messages(s), q \notin Messages(s),
           \A i \in Messages(s) : s[i] \notin {"decl", "oses", "/oses"},
           \A i \in 1 .. Len(s) \ (Messages(s) \cup {p, q}) :
               s[i] \in {"text", "newline"} \/ (s[i] = "os" /\ p < i /\ i < q)
    PROVE  LET oses == {i \in 1 .. Len(s) \ Messages(s) : s[i] = "os"}
           IN  /\ Cardinality(oses) \in Nat
               /\ ParseInspectionXML(s) = IF oses = {} THEN NoDocument
                                          ELSE Document(Cardinality(oses))
<1> DEFINE oses == {i \in 1 .. Len(s) \ Messages(s) : s[i] = "os"}
           markers == <<{"decl"}, {"oses"}>>
           start == StartOf(s, markers)
           xml == From(s, p)
           e == q - p + 1
           u == SubSeq(xml, 1, e)
           w == WithoutMessages(u)
           counted == {m \in 1 + 1 .. e - 1 : w[m] = "os"}
<1>1. Len(s) \in Nat /\ e \in 2 .. Len(s) + 1 - p /\ p < q
  OBVIOUS
<1>2. \A n \in 1 .. Len(s) :
        /\ s[n] # "decl"
        /\ s[n] = "oses" => n = p
        /\ s[n] = "/oses" => n = q
        /\ n \notin Messages(s) /\ s[n] = "os" => p < n /\ n < q
        /\ n \notin Messages(s) \cup {p, q} => s[n] \in {"text", "newline", "os"}
  OBVIOUS
<1>3. start = p
  <2>1. FirstOf(s, markers[1]) = 0
    <3>1. \A n \in 1 .. Len(s) : s[n] \notin {"decl"}
      BY <1>2
    <3>2. FirstOf(s, {"decl"}) = 0
      BY <1>1, <3>1, FirstOfIs
    <3> QED
      BY <3>2, LocalMarkers, Zenon
  <2>2. FirstOf(s, markers[2]) = p
    <3>1. /\ p \in 1 .. Len(s) /\ s[p] \in {"oses"}
          /\ \A n \in 1 .. p - 1 : s[n] \notin {"oses"}
      BY <1>1, <1>2
    <3>2. FirstOf(s, {"oses"}) = p
      BY <3>1, FirstOfFound
    <3> QED
      BY <3>2, LocalMarkers, Zenon
  <2>3. markers \in Seq(SUBSET Tokens) /\ 2 \in 1 .. Len(markers)
    BY LocalMarkers
  <2>4. \A m \in 1 .. 2 - 1 : m = 1
    OBVIOUS
  <2>5. \A m \in 1 .. 2 - 1 : FirstOf(s, markers[m]) = 0
    BY <2>1, <2>4, Zenon
  <2>6. FirstOf(s, markers[2]) # 0
    BY <1>1, <2>2
  <2>7. start = FirstOf(s, markers[2])
    <3> HIDE DEF markers
    <3> QED
      BY <2>3, <2>5, <2>6, StartFound
  <2> QED
    BY <2>2, <2>7, Zenon
<1>4. /\ xml \in Seq(Tokens) /\ Len(xml) = Len(s) + 1 - p
      /\ \A m \in 1 .. Len(s) + 1 - p : xml[m] = s[m + p - 1]
  <2>1. p \in 1 .. Len(s) + 1 /\ Len(s) \in 0 .. Len(s) /\ p <= Len(s) + 1
    BY <1>1
  <2> QED
    BY <2>1, PartOf DEF From
<1> HIDE DEF xml
<1>5. FirstOf(xml, {"/oses"}) = e
  <2>1. e \in 1 .. Len(xml) /\ e + p - 1 = q
    BY <1>1, <1>4
  <2>2. xml[e] \in {"/oses"}
    BY <1>1, <1>4, <2>1
  <2>3. \A m \in 1 .. e - 1 : xml[m] \notin {"/oses"}
    <3>1. \A m \in 1 .. e - 1 : /\ m \in 1 .. Len(s) + 1 - p
                                /\ m + p - 1 \in 1 .. Len(s) /\ m + p - 1 # q
      BY <1>1
    <3> QED
      BY <1>2, <1>4, <3>1
  <2> HIDE DEF e
  <2> QED
    BY <1>4, <2>1, <2>2, <2>3, FirstOfFound
<1>6. /\ u \in Seq(Tokens) /\ Len(u) = e
      /\ \A m \in 1 .. e : u[m] = s[m + p - 1]
  <2>1. 1 \in 1 .. Len(xml) + 1 /\ e \in 0 .. Len(xml) /\ 1 <= e + 1
    BY <1>1, <1>4
  <2>2. /\ SubSeq(xml, 1, e) \in Seq(Tokens) /\ Len(SubSeq(xml, 1, e)) = e + 1 - 1
        /\ \A m \in 1 .. e + 1 - 1 : SubSeq(xml, 1, e)[m] = xml[m + 1 - 1]
    BY <1>4, <2>1, PartOf
  <2>3. e + 1 - 1 = e /\ \A m \in 1 .. e : m + 1 - 1 = m /\ m \in 1 .. Len(s) + 1 - p
    BY <1>1
  <2> QED
    BY <1>4, <2>2, <2>3
<1>7. ParseInspectionXML(s) =
        IF Unmarshal(w).oses = 0 THEN NoDocument ELSE Unmarshal(w)
  <2>1. p # 0 /\ e # 0
    BY <1>1
  <2> HIDE DEF e
  <2> QED
    BY <1>3, <1>5, <2>1 DEF ParseInspectionXML, xml
<1>8. /\ w \in Seq(Tokens) /\ Len(w) = e
      /\ \A m \in 1 .. e :
            /\ m + p - 1 \in Messages(s) => w[m] = "text"
            /\ s[m + p - 1] = "newline" => w[m] \in {"text", "newline"}
            /\ m + p - 1 \notin Messages(s) /\ s[m + p - 1] # "newline" =>
                 w[m] = s[m + p - 1]
  <2>1. e \in 1 .. Len(s) + 1 - p
    BY <1>1
  <2>2. Stripped(s, p, e, w)
    <3> HIDE DEF u, e
    <3> QED
      BY <1>6, <2>1, MessagesGone
  <2> QED
    BY <2>2 DEF Stripped
<1> HIDE DEF u, w
<1>9. /\ w[1] = "oses" /\ w[e] = "/oses"
      /\ \A m \in 1 + 1 .. e - 1 : w[m] \in {"text", "newline", "os"}
      /\ \A m \in 1 .. e : w[m] = "os" <=> m + p - 1 \in oses
  <2>1. /\ 1 \in 1 .. e /\ 1 + p - 1 = p /\ e \in 1 .. e /\ e + p - 1 = q
        /\ \A m \in 1 .. e : m + p - 1 \in 1 .. Len(s)
        /\ \A m \in 1 + 1 .. e - 1 : m \in 1 .. e /\ m + p - 1 \notin {p, q}
    BY <1>1
  <2>2. w[1] = "oses" /\ w[e] = "/oses"
    BY <1>8, <2>1
  <2>3. ASSUME NEW m \in 1 + 1 .. e - 1 PROVE w[m] \in {"text", "newline", "os"}
    <3>1. /\ m \in 1 .. e /\ m + p - 1 \in 1 .. Len(s)
          /\ m + p - 1 \notin {p, q}
      BY <2>1
    <3>2. CASE m + p - 1 \in Messages(s)
      BY <1>8, <3>1, <3>2
    <3>3. CASE m + p - 1 \notin Messages(s) /\ s[m + p - 1] = "newline"
      BY <1>8, <3>1, <3>3
    <3>4. CASE m + p - 1 \notin Messages(s) /\ s[m + p - 1] # "newline"
      <4>1. w[m] = s[m + p - 1]
        BY <1>8, <3>1, <3>4
      <4>2. s[m + p - 1] \in {"text", "newline", "os"}
        BY <1>2, <3>1, <3>4
      <4> QED
        BY <4>1, <4>2
    <3> QED
      BY <3>2, <3>3, <3>4
  <2>4. ASSUME NEW m \in 1 .. e PROVE w[m] = "os" <=> m + p - 1 \in oses
    BY <1>8, <2>1
  <2> QED
    BY <2>2, <2>3, <2>4
<1>10. Unmarshal(w) = Document(Cardinality(counted))
  <2>1. /\ 1 \in 1 .. Len(w) /\ e \in 1 + 1 .. Len(w)
        /\ \A m \in 1 .. 1 - 1 : w[m] \notin Starts
    BY <1>1, <1>8
  <2>2. /\ w[1] \in {"v2v", "oses"}
        /\ w[e] = IF w[1] = "v2v" THEN "/v2v" ELSE "/oses"
        /\ \A m \in 1 + 1 .. e - 1 : w[m] \notin {"v2v", "oses", "/v2v", "/oses"}
    BY <1>9
  <2>3. Unmarshal(w) = Document(Cardinality({m \in 1 + 1 .. e - 1 : w[m] = "os"}))
    <3>1. \A r \in 1 .. Len(w) : \A x \in r + 1 .. Len(w) :
            /\ w[r] \in {"v2v", "oses"}
            /\ w[x] = IF w[r] = "v2v" THEN "/v2v" ELSE "/oses"
            /\ \A i \in 1 .. r - 1 : w[i] \notin Starts
            /\ \A i \in r + 1 .. x - 1 : w[i] \notin {"v2v", "oses", "/v2v", "/oses"}
            => Unmarshal(w) = Document(Cardinality({i \in r + 1 .. x - 1 : w[i] = "os"}))
      <4> TAKE r \in 1 .. Len(w)
      <4> TAKE x \in r + 1 .. Len(w)
      <4> HAVE /\ w[r] \in {"v2v", "oses"}
               /\ w[x] = IF w[r] = "v2v" THEN "/v2v" ELSE "/oses"
               /\ \A i \in 1 .. r - 1 : w[i] \notin Starts
               /\ \A i \in r + 1 .. x - 1 :
                    w[i] \notin {"v2v", "oses", "/v2v", "/oses"}
      <4>1. w \in Seq(Tokens)
        BY <1>8
      <4> QED
        BY <4>1, RootToEnd, ZenonT(60)
    <3> HIDE DEF e
    <3> QED
      BY <2>1, <2>2, <3>1, Zenon
  <2> QED
    BY <2>3
<1>11. /\ Cardinality(counted) = Cardinality(oses)
       /\ Cardinality(oses) \in Nat /\ (Cardinality(oses) = 0 <=> oses = {})
  <2>1. counted \in SUBSET Int /\ oses \in SUBSET Int /\ p - 1 \in Int
    BY <1>1
  <2>2. IsFiniteSet(counted)
    <3>1. 1 + 1 \in Int /\ e - 1 \in Int /\ counted \in SUBSET (1 + 1 .. e - 1)
      BY <1>1
    <3> HIDE DEF counted, e
    <3> QED
      BY <3>1, SomeFinite
  <2>3. ASSUME NEW m \in Int PROVE m \in counted <=> m + (p - 1) \in oses
    <3>1. m + (p - 1) = m + p - 1
      BY <1>1
    <3>2. ASSUME m \in counted PROVE m + p - 1 \in oses
      BY <1>1, <1>9, <3>2
    <3>3. ASSUME m + p - 1 \in oses PROVE m \in counted
      <4>1. p < m + p - 1 /\ m + p - 1 < q
        BY <1>2, <3>3
      <4>2. m \in 1 + 1 .. e - 1 /\ m \in 1 .. e
        BY <1>1, <4>1
      <4> QED
        BY <1>9, <3>3, <4>2
    <3> QED
      BY <3>1, <3>2, <3>3
  <2>4. Cardinality(oses) \in Nat /\ (Cardinality(oses) = 0 <=> oses = {})
    <3>1. oses \in SUBSET (1 .. Len(s)) /\ 1 \in Int /\ Len(s) \in Int
      BY <1>1
    <3> HIDE DEF oses
    <3> QED
      BY <3>1, SomeFinite
  <2> HIDE DEF counted, oses
  <2>5. Cardinality(counted) = Cardinality(oses)
    BY <2>1, <2>2, <2>3, CardinalityMoved
  <2> QED
    BY <2>4, <2>5
<1> HIDE DEF counted, oses
<1> QED
  BY <1>7, <1>10, <1>11 DEF Document, oses
=============================================================================
