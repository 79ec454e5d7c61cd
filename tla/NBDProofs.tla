----------------------------- MODULE NBDProofs -----------------------------
(***************************************************************************)
(* What is proved of DetectNBD for any number of URLs and any output of    *)
(* virt-inspector: no proxy and no socket outlives the call, it is a scope *)
(* of its proxies, virt-inspector is given every URL and its document is   *)
(* the one reported; and after a number of steps known at its beginning    *)
(* there is nothing left to do.                                            *)
(*                                                                         *)
(* The argument: the proxies to be closed are the nbds:// URLs the loop    *)
(* has passed, and they are exactly the ones not yet waited for, but for   *)
(* the one that is between the two halves of Close.  The arguments are the *)
(* list the loop has made, flattened; what the parser makes of an output   *)
(* is in ToolProofs.                                                       *)
(***************************************************************************)
EXTENDS NBDProxies, ToolProofs

InLoop == pc \in {"resolve", "start", "ready", "nap", "run", "engine"}

\* Where the loop over the URLs is, and what it has made so far.
LoopInv ==
    /\ pc = "idle" => url = 1 /\ out = <<>> /\ nbds = {}
    /\ pc \in {"resolve", "start"} => sessions = nbds \cap (1 .. url - 1)
    /\ pc \in {"ready", "nap"} => sessions = nbds \cap (1 .. url)
    /\ pc \in {"start", "ready", "nap"} => url \in nbds
    /\ pc \in {"run", "engine"} => url = NumURLs + 1 /\ sessions = nbds
    /\ pc = "ready" => polls < MaxPolls
    /\ InLoop =>
        /\ Len(out) = url - 1
        /\ \A i \in 1 .. url - 1 : out[i] = IF i \in nbds THEN Socket(i) ELSE Raw(i)

Running(u) == proxy[u] \in {"running", "exited"}

\* Who still has to be closed.
CloseInv ==
    /\ sessions \subseteq nbds
    /\ pc = "unlink" => sessions # {}
    /\ pc \in {"idle", "returned"} => sessions = {}
    /\ \A u \in URLs :
        /\ Running(u) <=> u \in sessions /\ ~(pc = "unlink" /\ u = Closing)
        /\ u \in socket => u \in sessions

NInv == NBDTypeOK /\ LoopInv /\ CloseInv

----------------------------------------------------------------------------

\* The one to close next is in the list.
LEMMA ClosingListed ==
    ASSUME sessions \subseteq URLs, sessions # {}
    PROVE  Closing \in sessions
BY MinOfSome, NumURLsAssumption DEF Closing, URLs

\* No URL has been looked at, no proxy started.
LEMMA NBDInitial == NBDInit => NInv
<1> SUFFICES ASSUME NBDInit PROVE NInv
  OBVIOUS
<1>f. Nothing \in LocalResults
  BY DEF Nothing, LocalResults
<1>1. NBDTypeOK
  <2>1. out \in Seq([kind : {"raw", "socket"}, of : URLs]) /\ stdout \in Seq(Tokens)
    BY DEF NBDInit
  <2>2. proxy \in [URLs -> {"none", "running", "exited", "reaped"}]
    BY DEF NBDInit
  <2>3. url \in 1 .. NumURLs + 1 /\ polls \in 0 .. MaxPolls
    BY NumURLsAssumption, MaxPollsAssumption DEF NBDInit
  <2> QED
    BY <1>f, <2>1, <2>2, <2>3 DEF NBDInit, NBDTypeOK, NBDPCs
<1>2. LoopInv
  BY DEF NBDInit, LoopInv, InLoop
<1>3. CloseInv
  BY DEF NBDInit, CloseInv, Running
<1> QED
  BY <1>1, <1>2, <1>3 DEF NInv

\* Typing, given where the loop is.
LEMMA NBDTyped ==
    ASSUME NInv, [NBDNext]_nbdVars
    PROVE  NBDTypeOK'
<1> USE NumURLsAssumption, MaxPollsAssumption
    DEF NInv, NBDTypeOK, NBDPCs, URLs, Goto, CloseAll
<1>f. Failed \in LocalResults /\ Nothing \in LocalResults
  BY DEF Failed, Nothing, LocalResults
<1>1. CASE DetectNBD
  BY <1>1 DEF DetectNBD
<1>2. CASE ResolveRaw
  BY <1>2 DEF ResolveRaw, Raw
<1>3. CASE ResolveNBDS \/ Resolved \/ LookAgain \/ LocalStart
  BY <1>3 DEF ResolveNBDS, Resolved, LookAgain, LocalStart
<1>4. CASE CertificatesMissing \/ ProxyFails \/ NotReady \/ LocalRefused
  BY <1>4, <1>f DEF CertificatesMissing, ProxyFails, NotReady, LocalRefused
<1>5. CASE StartProxy
  BY <1>5 DEF StartProxy, LoopInv
<1>6. CASE SocketFound
  BY <1>6 DEF SocketFound, Socket, LoopInv
<1>7. CASE SocketMissing
  BY <1>7 DEF SocketMissing, LoopInv
<1>8. CASE LocalSucceeds
  <2>1. PICK s \in LocalOutputs : stdout' = s /\ result' = LocalReport(s)
    BY <1>8 DEF LocalSucceeds
  <2>2. stdout' \in Seq(Tokens) /\ result' \in LocalResults
    BY <2>1, LocalOutputsAssumption DEF LocalResults
  <2> QED
    BY <1>8, <2>2 DEF LocalSucceeds
<1>9. CASE LocalFails
  BY <1>9 DEF LocalFails, LocalResults
<1>10. CASE Reap
  BY <1>10 DEF Reap
<1>11. CASE Unlink
  BY <1>11 DEF Unlink
<1>12. CASE Return \/ UNCHANGED nbdVars
  BY <1>12 DEF Return, nbdVars
<1>13. CASE TakeReport
  <2>1. out' \in Seq([kind : {"raw", "socket"}, of : URLs]) /\ stdout' \in Seq(Tokens)
    BY <1>13 DEF TakeReport
  <2>2. proxy' \in [URLs -> {"none", "running", "exited", "reaped"}]
    BY <1>13 DEF TakeReport
  <2>3. url' \in 1 .. NumURLs + 1 /\ polls' \in 0 .. MaxPolls
    BY <1>13 DEF TakeReport
  <2> QED
    BY <1>13, <1>f, <2>1, <2>2, <2>3 DEF TakeReport
<1>14. CASE \E u \in URLs : Listen(u) \/ Exit(u)
  BY <1>14 DEF Listen, Exit
<1>15. CASE CancelCaller \/ LocalDeadline
  BY <1>15 DEF CancelCaller, LocalDeadline
<1> QED
  BY <1>1, <1>2, <1>3, <1>4, <1>5, <1>6, <1>7, <1>8, <1>9, <1>10, <1>11,
     <1>12, <1>13, <1>14, <1>15
     DEF NBDNext, NBDGoesOn, NBDStep

\* Where the loop is, and which URLs it has been through.
LEMMA NBDLoopStep ==
    ASSUME NInv, [NBDNext]_nbdVars
    PROVE  LoopInv'
<1> USE NumURLsAssumption, MaxPollsAssumption
    DEF NInv, NBDTypeOK, LoopInv, InLoop, URLs, Goto, CloseAll
<1>1. CASE DetectNBD
  <2>1. sessions = {} /\ url = 1 /\ Len(out) = 0 /\ 1 .. url - 1 = {}
    BY <1>1 DEF DetectNBD, CloseInv
  <2>2. UNCHANGED <<sessions, url, out>> /\ pc' = "resolve"
    BY <1>1 DEF DetectNBD
  <2> QED
    BY <2>1, <2>2
<1>2. CASE ResolveRaw
  BY <1>2 DEF ResolveRaw
<1>3. CASE ResolveNBDS
  BY <1>3 DEF ResolveNBDS
<1>13. CASE Resolved
  <2>1. url = NumURLs + 1
    BY <1>13 DEF Resolved
  <2>2. 1 .. url - 1 = URLs
    BY <2>1
  <2>3. nbds \cap (1 .. url - 1) = nbds
    BY <2>2
  <2> QED
    BY <1>13, <2>1, <2>3 DEF Resolved
<1>4. CASE LookAgain \/ LocalStart
  BY <1>4 DEF LookAgain, LocalStart
<1>5. CASE CertificatesMissing \/ ProxyFails \/ NotReady \/ LocalRefused
           \/ LocalSucceeds \/ LocalFails
  BY <1>5 DEF CertificatesMissing, ProxyFails, NotReady, LocalRefused,
              LocalSucceeds, LocalFails
<1>6. CASE StartProxy
  BY <1>6 DEF StartProxy
<1>7. CASE SocketFound
  BY <1>7 DEF SocketFound
<1>8. CASE SocketMissing
  BY <1>8 DEF SocketMissing
<1>9. CASE Reap \/ Unlink \/ Return
  BY <1>9 DEF Reap, Unlink, Return
<1>10. CASE TakeReport
  BY <1>10 DEF TakeReport
<1>11. CASE \E u \in URLs : Listen(u) \/ Exit(u)
  BY <1>11 DEF Listen, Exit
<1>12. CASE CancelCaller \/ LocalDeadline \/ UNCHANGED nbdVars
  BY <1>12 DEF CancelCaller, LocalDeadline, nbdVars
<1> QED
  BY <1>1, <1>2, <1>3, <1>4, <1>5, <1>6, <1>7, <1>8, <1>9, <1>10, <1>11, <1>12,
     <1>13 DEF NBDNext, NBDGoesOn, NBDStep

\* Every proxy that runs, or has left a socket, is still to be closed.
LEMMA NBDCloseStep ==
    ASSUME NInv, [NBDNext]_nbdVars
    PROVE  CloseInv'
<1> USE DEF NInv, CloseInv, Running, Goto, CloseAll
<1>t. sessions \subseteq URLs
  BY DEF NBDTypeOK
<1>1. CASE DetectNBD
  BY <1>1 DEF DetectNBD
<1>2. CASE ResolveRaw \/ ResolveNBDS \/ Resolved \/ SocketFound
           \/ SocketMissing \/ LookAgain \/ LocalStart
  BY <1>2 DEF ResolveRaw, ResolveNBDS, Resolved, SocketFound, SocketMissing,
              LookAgain, LocalStart
<1>3. CASE CertificatesMissing \/ ProxyFails \/ NotReady \/ LocalRefused
           \/ LocalSucceeds \/ LocalFails
  BY <1>3 DEF CertificatesMissing, ProxyFails, NotReady, LocalRefused,
              LocalSucceeds, LocalFails
<1>4. CASE StartProxy
  BY <1>4 DEF StartProxy, LoopInv, NBDTypeOK
<1>5. CASE Reap
  <2>1. Closing \in sessions /\ Closing' = Closing
    BY <1>5, <1>t, ClosingListed DEF Reap, Closing
  <2>2. \A u \in URLs : proxy'[u] = IF u = Closing THEN "reaped" ELSE proxy[u]
    BY <1>5, <2>1, <1>t DEF Reap, NBDTypeOK
  <2> HIDE DEF Running
  <2>3. \A u \in URLs : Running(u)' <=> Running(u) /\ u # Closing
    BY <2>2 DEF Running
  <2> QED
    BY <1>5, <2>1, <2>3 DEF Reap
<1>6. CASE Unlink
  <2>1. Closing \in sessions
    BY <1>6, <1>t, ClosingListed DEF Unlink
  <2> QED
    BY <1>6, <2>1 DEF Unlink
<1>7. CASE Return
  BY <1>7 DEF Return
<1>8. CASE TakeReport
  BY <1>8 DEF TakeReport
<1>9. ASSUME NEW u \in URLs, Listen(u) \/ Exit(u) PROVE CloseInv'
  <2>1. Closing' = Closing
    BY <1>9 DEF Listen, Exit, Closing
  <2>2. u \in sessions
    BY <1>9 DEF Listen, Exit
  <2>3. \A v \in URLs : Running(v)' <=> Running(v)
    BY <1>9 DEF Listen, Exit, NBDTypeOK
  <2> HIDE DEF Running
  <2> QED
    BY <1>9, <2>1, <2>2, <2>3 DEF Listen, Exit
<1>10. CASE CancelCaller \/ LocalDeadline \/ UNCHANGED nbdVars
  <2>1. Closing' = Closing
    BY <1>10 DEF CancelCaller, LocalDeadline, nbdVars, Closing
  <2> QED
    BY <1>10, <2>1 DEF CancelCaller, LocalDeadline, nbdVars
<1> QED
  BY <1>1, <1>2, <1>3, <1>4, <1>5, <1>6, <1>7, <1>8, <1>9, <1>10
     DEF NBDNext, NBDGoesOn, NBDStep

\* The inductive invariant of a process that calls DetectNBD again and again.
THEOREM NBDInvariance == NBDSpec => []NInv
<1>1. NInv /\ [NBDNext]_nbdVars => NInv'
  <2> SUFFICES ASSUME NInv, [NBDNext]_nbdVars PROVE NInv'
    OBVIOUS
  <2> QED
    BY NBDTyped, NBDLoopStep, NBDCloseStep DEF NInv
<1> QED
  BY <1>1, NBDInitial, PTL DEF NBDSpec

\* Every variable of DetectNBD stays in its type.
THEOREM NBDTypeCorrect == NBDSpec => []NBDTypeOK
<1>1. NInv => NBDTypeOK
  BY DEF NInv
<1> QED
  BY <1>1, NBDInvariance, PTL

\* Whatever fails in DetectNBD, no proxy and no socket outlives it.
THEOREM ProxiesGone == NBDSpec => []NoProxyLeft
<1>1. NInv => NoProxyLeft
  <2> SUFFICES ASSUME NInv, pc = "returned"
               PROVE  /\ \A u \in URLs : proxy[u] \in {"none", "reaped"}
                      /\ socket = {}
    BY DEF NoProxyLeft
  <2> QED
    BY DEF NInv, CloseInv, Running, NBDTypeOK
<1> QED
  BY <1>1, NBDInvariance, PTL

----------------------------------------------------------------------------
(* The arguments of virt-inspector. *)

\* Sequences of three elements each, flattened, are the same elements three by
\* three.  The recursive function FlattenSeq chooses exists, and nothing is
\* chosen that differs from it: a first index at which it does cannot be.
LEMMA FlattenTriples ==
    ASSUME NEW T, NEW seqs \in Seq(Seq(T)), seqs # <<>>,
           \A i \in 1 .. Len(seqs) : Len(seqs[i]) = 3
    PROVE  /\ Len(FlattenSeq(seqs)) = 3 * Len(seqs)
           /\ \A u \in 1 .. Len(seqs) : \A c \in 1 .. 3 :
                FlattenSeq(seqs)[3 * u - 3 + c] = seqs[u][c]
<1> DEFINE n == Len(seqs)
           Unfolds(f) == f = [i \in 1 .. n |->
                                IF i = 1 THEN seqs[i] ELSE f[i - 1] \o seqs[i]]
           flatten == CHOOSE f : Unfolds(f)
           element == [k \in 1 .. 3 * n |->
                        CHOOSE x : \E u \in 1 .. n : \E c \in 1 .. 3 :
                            k = 3 * u - 3 + c /\ x = seqs[u][c]]
           found == [i \in 1 .. n |-> [k \in 1 .. 3 * i |-> element[k]]]
<1>1. n \in Nat /\ n # 0
  OBVIOUS
<1>2. FlattenSeq(seqs) = flatten[n]
  BY <1>1 DEF FlattenSeq
<1>3. \A u \in 1 .. n : /\ seqs[u] \in Seq(T) /\ Len(seqs[u]) = 3
                        /\ \A c \in 1 .. 3 : seqs[u][c] \in T
  OBVIOUS
<1> HIDE DEF n
<1>4. \A u \in 1 .. n : \A c \in 1 .. 3 : element[3 * u - 3 + c] = seqs[u][c]
  <2> TAKE u \in 1 .. n
  <2> TAKE c \in 1 .. 3
  <2>1. 3 * u - 3 + c \in 1 .. 3 * n
    BY <1>1
  <2>2. \A v \in 1 .. n : \A d \in 1 .. 3 :
            3 * u - 3 + c = 3 * v - 3 + d => v = u /\ d = c
    BY <1>1
  <2> DEFINE x == CHOOSE x : \E v \in 1 .. n : \E d \in 1 .. 3 :
                    3 * u - 3 + c = 3 * v - 3 + d /\ x = seqs[v][d]
  <2>3. \E v \in 1 .. n : \E d \in 1 .. 3 :
            3 * u - 3 + c = 3 * v - 3 + d /\ x = seqs[v][d]
    <3>1. \E y : \E v \in 1 .. n : \E d \in 1 .. 3 :
            3 * u - 3 + c = 3 * v - 3 + d /\ y = seqs[v][d]
      OBVIOUS
    <3> QED
      BY <3>1, Zenon
  <2>4. x = seqs[u][c]
    <3> HIDE DEF x
    <3> QED
      BY <2>2, <2>3
  <2>5. element[3 * u - 3 + c] = x
    BY <2>1, Zenon
  <2> QED
    BY <2>4, <2>5
<1>5. \A k \in 1 .. 3 * n : \E u \in 1 .. n : \E c \in 1 .. 3 : k = 3 * u - 3 + c
  <2> TAKE k \in 1 .. 3 * n
  <2> DEFINE u == (k + 2) \div 3
             c == k - 3 * u + 3
  <2>1. u \in 1 .. n /\ c \in 1 .. 3 /\ k = 3 * u - 3 + c
    BY <1>1
  <2> QED
    BY <2>1
<1>6. \A k \in 1 .. 3 * n : element[k] \in T
  <2> TAKE k \in 1 .. 3 * n
  <2>1. PICK u \in 1 .. n, c \in 1 .. 3 : k = 3 * u - 3 + c
    BY <1>5
  <2> HIDE DEF element
  <2>2. element[3 * u - 3 + c] = seqs[u][c] /\ seqs[u][c] \in T
    BY <1>3, <1>4
  <2> QED
    BY <2>1, <2>2
<1>7. \A i \in 1 .. n : /\ found[i] = [k \in 1 .. 3 * i |-> element[k]]
                        /\ found[i] \in Seq(T) /\ Len(found[i]) = 3 * i
                        /\ \A k \in 1 .. 3 * i : found[i][k] = element[k]
  <2> TAKE i \in 1 .. n
  <2>1. 3 * i \in Nat /\ \A k \in 1 .. 3 * i : k \in 1 .. 3 * n
    BY <1>1
  <2> HIDE DEF element
  <2>2. found[i] = [k \in 1 .. 3 * i |-> element[k]]
    OBVIOUS
  <2> QED
    BY <1>6, <2>1, <2>2
<1>8. Unfolds(found)
  <2>1. ASSUME NEW i \in 1 .. n
        PROVE  found[i] = IF i = 1 THEN seqs[i] ELSE found[i - 1] \o seqs[i]
    <3>1. CASE i = 1
      <4> HIDE DEF element, found
      <4>1. Len(found[1]) = 3 /\ found[1] \in Seq(T)
        <5>1. 1 \in 1 .. n /\ 3 * 1 = 3
          BY <1>1
        <5> QED
          BY <1>7, <5>1
      <4>2. \A c \in 1 .. 3 : found[1][c] = seqs[1][c]
        <5>1. \A c \in 1 .. 3 : 3 * 1 - 3 + c = c /\ c \in 1 .. 3 * 1
          OBVIOUS
        <5>2. \A c \in 1 .. 3 : element[c] = seqs[1][c]
          BY <1>4, <3>1, <5>1
        <5> QED
          BY <1>7, <3>1, <5>1, <5>2
      <4>3. found[1] = seqs[1]
        BY <1>3, <3>1, <4>1, <4>2, SeqEqual
      <4> QED
        BY <3>1, <4>3
    <3>2. CASE i # 1
      <4> DEFINE g == found[i - 1] \o seqs[i]
      <4>1. i - 1 \in 1 .. n /\ 3 * (i - 1) + 3 = 3 * i
        BY <1>1, <3>2
      <4> HIDE DEF found
      <4>2. /\ g \in Seq(T) /\ Len(g) = 3 * i
            /\ \A k \in 1 .. 3 * (i - 1) : g[k] = found[i - 1][k]
            /\ \A c \in 1 .. 3 : g[3 * (i - 1) + c] = seqs[i][c]
        <5>1. /\ found[i - 1] \in Seq(T) /\ Len(found[i - 1]) = 3 * (i - 1)
              /\ seqs[i] \in Seq(T) /\ Len(seqs[i]) = 3
          BY <1>3, <1>7, <4>1
        <5> HIDE DEF g
        <5>2. /\ g \in Seq(T) /\ Len(g) = 3 * (i - 1) + 3
              /\ \A k \in 1 .. 3 * (i - 1) + 3 :
                    g[k] = IF k <= 3 * (i - 1) THEN found[i - 1][k]
                           ELSE seqs[i][k - 3 * (i - 1)]
          <6>1. /\ g \in Seq(T)
                /\ Len(g) = Len(found[i - 1]) + Len(seqs[i])
                /\ \A k \in 1 .. Len(found[i - 1]) + Len(seqs[i]) :
                    g[k] = IF k <= Len(found[i - 1]) THEN found[i - 1][k]
                           ELSE seqs[i][k - Len(found[i - 1])]
            BY <5>1, ConcatProperties DEF g
          <6> QED
            BY <5>1, <6>1
        <5>3. \A k \in 1 .. 3 * (i - 1) :
                k \in 1 .. 3 * (i - 1) + 3 /\ k <= 3 * (i - 1)
          BY <1>1, <4>1
        <5>4. \A c \in 1 .. 3 : /\ 3 * (i - 1) + c \in 1 .. 3 * (i - 1) + 3
                                /\ ~(3 * (i - 1) + c <= 3 * (i - 1))
                                /\ (3 * (i - 1) + c) - 3 * (i - 1) = c
          BY <1>1, <4>1
        <5>5. \A c \in 1 .. 3 : g[3 * (i - 1) + c] = seqs[i][c]
          BY <5>2, <5>4
        <5> QED
          BY <4>1, <5>2, <5>3, <5>5
      <4> HIDE DEF g, element
      <4>3. ASSUME NEW k \in 1 .. 3 * i PROVE g[k] = found[i][k]
        <5>1. found[i][k] = element[k]
          BY <1>7
        <5>2. CASE k \in 1 .. 3 * (i - 1)
          <6>1. found[i - 1][k] = element[k]
            BY <1>7, <4>1, <5>2
          <6> QED
            BY <4>2, <5>1, <5>2, <6>1
        <5>3. CASE k \notin 1 .. 3 * (i - 1)
          <6> DEFINE c == k - 3 * (i - 1)
          <6>1. c \in 1 .. 3 /\ k = 3 * (i - 1) + c /\ k = 3 * i - 3 + c
            BY <1>1, <4>1, <5>3
          <6> HIDE DEF c
          <6>2. element[3 * i - 3 + c] = seqs[i][c]
            BY <1>4, <6>1
          <6>3. g[3 * (i - 1) + c] = seqs[i][c]
            BY <4>2, <6>1
          <6> QED
            BY <5>1, <6>1, <6>2, <6>3
        <5> QED
          BY <5>2, <5>3
      <4>4. g = found[i]
        <5>1. found[i] \in Seq(T) /\ Len(found[i]) = 3 * i
          BY <1>7
        <5> QED
          BY <4>2, <4>3, <5>1, SeqEqual
      <4> QED
        BY <3>2, <4>4 DEF g
    <3> QED
      BY <3>1, <3>2
  <2>2. found = [i \in 1 .. n |-> found[i]]
    OBVIOUS
  <2> HIDE DEF found
  <2> QED
    BY <2>1, <2>2
<1>9. Unfolds(flatten)
  <2> HIDE DEF Unfolds
  <2> QED
    BY <1>8, Zenon
<1>10. \A i \in 1 .. n : flatten[i] = IF i = 1 THEN seqs[i] ELSE flatten[i - 1] \o seqs[i]
  <2> HIDE DEF flatten
  <2> QED
    BY <1>9
<1> HIDE DEF flatten, found, element, Unfolds
<1>11. \A i \in 1 .. n : flatten[i] = found[i]
  <2> DEFINE wrong == {i \in 1 .. n : flatten[i] # found[i]}
  <2>1. SUFFICES ASSUME wrong # {} PROVE FALSE
    OBVIOUS
  <2>2. PICK i \in wrong : \A j \in wrong : i <= j
    <3>1. wrong \in SUBSET Nat
      BY <1>1
    <3> QED
      BY <2>1, <3>1, LeastElement
  <2>3. \A j \in 1 .. n : found[j] = IF j = 1 THEN seqs[j] ELSE found[j - 1] \o seqs[j]
    BY <1>8 DEF Unfolds
  <2>4. CASE i = 1
    BY <1>10, <2>2, <2>3, <2>4
  <2>5. CASE i # 1
    <3>1. i - 1 \in 1 .. n /\ i - 1 \notin wrong
      <4>1. i \in 1 .. n /\ i - 1 \in 1 .. n /\ ~(i <= i - 1)
        BY <1>1, <2>2, <2>5
      <4> QED
        BY <2>2, <4>1
    <3> QED
      BY <1>10, <2>2, <2>3, <2>5, <3>1
  <2> QED
    BY <2>4, <2>5
<1>12. \A u \in 1 .. n : \A c \in 1 .. 3 : 3 * u - 3 + c \in 1 .. 3 * n
  BY <1>1
<1>13. /\ n \in 1 .. n /\ FlattenSeq(seqs) = found[n]
  BY <1>1, <1>2, <1>11
<1>14. /\ FlattenSeq(seqs) \in Seq(T) /\ Len(FlattenSeq(seqs)) = 3 * n
       /\ \A u \in 1 .. n : \A c \in 1 .. 3 :
            FlattenSeq(seqs)[3 * u - 3 + c] = seqs[u][c]
  <2>1. /\ found[n] \in Seq(T) /\ Len(found[n]) = 3 * n
        /\ \A k \in 1 .. 3 * n : found[n][k] = element[k]
    BY <1>7, <1>13
  <2>2. \A u \in 1 .. n : \A c \in 1 .. 3 : found[n][3 * u - 3 + c] = seqs[u][c]
    BY <1>4, <1>12, <2>1
  <2> QED
    BY <1>13, <2>1, <2>2
<1> QED
  BY <1>14 DEF n

\* The arguments are three for every path, when all of them have a format.
LEMMA LocalArgsAre ==
    ASSUME NEW T, out \in Seq(T), out # <<>>
    PROVE  /\ Len(LocalArgs) = 3 * Len(out)
           /\ \A u \in 1 .. Len(out) :
                /\ LocalArgs[3 * u - 3 + 1] = Format("raw")
                /\ LocalArgs[3 * u - 3 + 2] = "-a"
                /\ LocalArgs[3 * u - 3 + 3] = out[u]
<1> DEFINE A == T \cup {Format("raw"), "-a"}
           seqs == [i \in 1 .. Len(out) |-> <<Format("raw"), "-a", out[i]>>]
<1>1. Len(out) \in Nat /\ Len(out) # 0 /\ DOMAIN out = 1 .. Len(out)
  OBVIOUS
<1>2. LocalArgs = FlattenSeq(seqs)
  <2> DEFINE raws == [i \in DOMAIN out |-> "raw"]
             args == [i \in DOMAIN out |->
                IF i \in DOMAIN raws /\ raws[i] # ""
                THEN <<Format(raws[i]), "-a", out[i]>> ELSE <<"-a", out[i]>>]
  <2>1. args = seqs
    BY <1>1
  <2>2. LocalArgs = FlattenSeq(args)
    BY Zenon DEF LocalArgs, LocalInspectorArgs
  <2> QED
    BY <2>1, <2>2, Zenon
<1>3. /\ seqs \in Seq(Seq(A)) /\ Len(seqs) = Len(out)
      /\ \A i \in 1 .. Len(out) :
            /\ Len(seqs[i]) = 3 /\ seqs[i][1] = Format("raw")
            /\ seqs[i][2] = "-a" /\ seqs[i][3] = out[i]
  <2>1. \A i \in 1 .. Len(out) : <<Format("raw"), "-a", out[i]>> \in Seq(A)
    BY <1>1
  <2> QED
    BY <1>1, <2>1
<1> HIDE DEF seqs
<1>4. seqs # <<>>
  BY <1>1, <1>3
<1>5. /\ Len(FlattenSeq(seqs)) = 3 * Len(seqs)
      /\ \A u \in 1 .. Len(seqs) : \A c \in 1 .. 3 :
            FlattenSeq(seqs)[3 * u - 3 + c] = seqs[u][c]
  <2>1. seqs \in Seq(Seq(A)) /\ \A i \in 1 .. Len(seqs) : Len(seqs[i]) = 3
    BY <1>3
  <2> HIDE DEF A
  <2> QED
    BY <1>4, <2>1, FlattenTriples
<1>6. ASSUME NEW u \in 1 .. Len(out)
      PROVE  /\ LocalArgs[3 * u - 3 + 1] = seqs[u][1]
             /\ LocalArgs[3 * u - 3 + 2] = seqs[u][2]
             /\ LocalArgs[3 * u - 3 + 3] = seqs[u][3]
  <2>1. u \in 1 .. Len(seqs) /\ 1 \in 1 .. 3 /\ 2 \in 1 .. 3 /\ 3 \in 1 .. 3
    BY <1>3
  <2> QED
    BY <1>2, <1>5, <2>1
<1>7. Len(LocalArgs) = 3 * Len(out)
  BY <1>2, <1>3, <1>5
<1> QED
  BY <1>3, <1>6, <1>7

\* virt-inspector gets every URL of the caller, however many there are, in
\* order and with its format, and the proxies they need have not been closed.
THEOREM EveryURLGiven == NBDSpec => []InspectorGetsEveryURL
<1>1. NInv => InspectorGetsEveryURL
  <2> SUFFICES ASSUME NInv, pc = "engine"
               PROVE  /\ Len(LocalArgs) = 3 * NumURLs
                      /\ \A u \in URLs :
                          /\ LocalArgs[3 * u - 2] = Format("raw")
                          /\ LocalArgs[3 * u - 1] = "-a"
                          /\ LocalArgs[3 * u] = IF u \in nbds THEN Socket(u) ELSE Raw(u)
                          /\ u \in nbds <=> proxy[u] \in {"running", "exited"}
    BY DEF InspectorGetsEveryURL
  <2>1. /\ NumURLs \in Nat \ {0} /\ URLs = 1 .. NumURLs
        /\ Len(out) = NumURLs /\ sessions = nbds
        /\ \A u \in URLs : out[u] = IF u \in nbds THEN Socket(u) ELSE Raw(u)
    BY NumURLsAssumption DEF NInv, LoopInv, InLoop, URLs
  <2>2. out \in Seq([kind : {"raw", "socket"}, of : URLs]) /\ out # <<>>
    BY <2>1 DEF NInv, NBDTypeOK
  <2>3. /\ Len(LocalArgs) = 3 * Len(out)
        /\ \A u \in 1 .. Len(out) :
            /\ LocalArgs[3 * u - 3 + 1] = Format("raw")
            /\ LocalArgs[3 * u - 3 + 2] = "-a"
            /\ LocalArgs[3 * u - 3 + 3] = out[u]
    BY <2>2, LocalArgsAre
  <2>4. \A u \in URLs : /\ 3 * u - 3 + 1 = 3 * u - 2 /\ 3 * u - 3 + 2 = 3 * u - 1
                         /\ 3 * u - 3 + 3 = 3 * u
    BY <2>1
  <2>5. \A u \in URLs : u \in nbds <=> proxy[u] \in {"running", "exited"}
    BY <2>1 DEF NInv, CloseInv, Running
  <2> QED
    BY <2>1, <2>3, <2>4, <2>5
<1> QED
  BY <1>1, NBDInvariance, PTL

----------------------------------------------------------------------------
(* The document of virt-inspector. *)

\* What an output says is what the call comes to.
ReportInv ==
    /\ pc \notin {"close", "unlink", "returned"} => stdout = <<>>
    /\ stdout # <<>> => result = LocalReport(stdout)

LEMMA ReportStep ==
    ASSUME NBDTypeOK, ReportInv, [NBDNext]_nbdVars
    PROVE  ReportInv'
<1> USE DEF ReportInv, Goto, CloseAll
<1>1. CASE DetectNBD
  BY <1>1 DEF DetectNBD
<1>2. CASE ResolveRaw \/ ResolveNBDS \/ Resolved \/ StartProxy \/ SocketFound
           \/ SocketMissing \/ LookAgain \/ LocalStart
  BY <1>2 DEF ResolveRaw, ResolveNBDS, Resolved, StartProxy, SocketFound,
              SocketMissing, LookAgain, LocalStart
<1>3. CASE CertificatesMissing \/ ProxyFails \/ NotReady \/ LocalRefused
           \/ LocalFails
  BY <1>3 DEF CertificatesMissing, ProxyFails, NotReady, LocalRefused, LocalFails
<1>4. CASE LocalSucceeds
  BY <1>4 DEF LocalSucceeds
<1>5. CASE Reap \/ Unlink \/ Return
  BY <1>5 DEF Reap, Unlink, Return
<1>6. CASE TakeReport
  BY <1>6 DEF TakeReport
<1>7. CASE \E u \in URLs : Listen(u) \/ Exit(u)
  BY <1>7 DEF Listen, Exit
<1>8. CASE CancelCaller \/ LocalDeadline \/ UNCHANGED nbdVars
  BY <1>8 DEF CancelCaller, LocalDeadline, nbdVars
<1> QED
  BY <1>1, <1>2, <1>3, <1>4, <1>5, <1>6, <1>7, <1>8
     DEF NBDNext, NBDGoesOn, NBDStep

\* The markup outside of the messages, when it is a list and its operating
\* systems and nothing else.
LEMMA OnlyTheList ==
    ASSUME NEW s \in Seq(Tokens), NEW doc, doc = Markup(s),
           NEW oses, oses = {i \in doc : s[i] = "os"}, oses # {},
           s[Min(doc)] = "oses", s[Max(doc)] = "/oses",
           Cardinality(doc) = Cardinality(oses) + 2,
           {s[i] : i \in DOMAIN s \ doc} \cap {"decl", "oses", "/oses"} = {}
    PROVE  ParseInspectionXML(s) = Document(Cardinality(oses))
<1> DEFINE p == Min(doc)
           q == Max(doc)
           rest == doc \ {p, q}
<1>1. Len(s) \in Nat /\ DOMAIN s = 1 .. Len(s)
  OBVIOUS
<1>2. \A i \in 1 .. Len(s) : InMessage(s, i) <=> i \in Messages(s)
  BY DEF InMessage, Messages
<1>3. /\ doc = {i \in 1 .. Len(s) : s[i] \notin {"text", "newline"} /\ i \notin Messages(s)}
      /\ Messages(s) \subseteq 1 .. Len(s)
  <2>1. Messages(s) \subseteq 1 .. Len(s)
    BY DEF Messages
  <2> QED
    BY <1>1, <1>2, <2>1 DEF Markup
<1>4. /\ p \in doc /\ \A i \in doc : p <= i
      /\ q \in doc /\ \A i \in doc : q >= i
  <2>1. doc \in SUBSET Nat /\ doc \in SUBSET (1 .. Len(s)) /\ doc # {}
    BY <1>1, <1>3
  <2> QED
    BY <1>1, <2>1, MinOfSome, MaxOfSome
<1> HIDE DEF p, q
<1>5. s[p] = "oses" /\ s[q] = "/oses"
  BY DEF p, q
<1>6. p \in 1 .. Len(s) /\ q \in p + 1 .. Len(s) /\ p # q
  <2>1. p \in 1 .. Len(s) /\ q \in 1 .. Len(s) /\ p # q /\ p <= q
    BY <1>3, <1>4, <1>5
  <2> QED
    BY <1>1, <2>1
<1>7. IsFiniteSet(doc) /\ Cardinality(doc) \in Nat
  <2>1. doc \in SUBSET (1 .. Len(s)) /\ 1 \in Int /\ Len(s) \in Int
    BY <1>1, <1>3
  <2> QED
    BY <2>1, SomeFinite
<1>8. IsFiniteSet(rest) /\ Cardinality(rest) = Cardinality(doc) - 2
  <2>1. IsFiniteSet(doc \ {p}) /\ Cardinality(doc \ {p}) = Cardinality(doc) - 1
    BY <1>4, <1>7, FS_RemoveElement
  <2>2. q \in doc \ {p} /\ rest = (doc \ {p}) \ {q}
    BY <1>4, <1>6
  <2>3. /\ IsFiniteSet((doc \ {p}) \ {q})
        /\ Cardinality((doc \ {p}) \ {q}) = Cardinality(doc \ {p}) - 1
    BY <2>1, <2>2, FS_RemoveElement
  <2>4. Cardinality(doc) - 1 - 1 = Cardinality(doc) - 2
    BY <1>7
  <2> HIDE DEF rest
  <2> QED
    BY <2>1, <2>2, <2>3, <2>4, Zenon
<1>9. oses = rest
  <2>1. oses \subseteq rest
    BY <1>5
  <2>2. Cardinality(oses) \in Nat
    <3>1. oses \in SUBSET (1 .. Len(s)) /\ 1 \in Int /\ Len(s) \in Int
      BY <1>1, <1>3
    <3> QED
      BY <3>1, SomeFinite
  <2>3. Cardinality(oses) = Cardinality(rest)
    BY <1>7, <1>8, <2>2
  <2> HIDE DEF rest
  <2> QED
    BY <1>8, <2>1, <2>3, FS_Subset
<1>10. \A i \in Messages(s) : s[i] \notin {"decl", "oses", "/oses"}
  BY <1>1, <1>3
<1>11. \A i \in 1 .. Len(s) \ (Messages(s) \cup {p, q}) :
          s[i] \in {"text", "newline"} \/ (s[i] = "os" /\ p < i /\ i < q)
  <2> SUFFICES ASSUME NEW i \in 1 .. Len(s), i \notin Messages(s), i # p, i # q,
                      s[i] \notin {"text", "newline"}
               PROVE  s[i] = "os" /\ p < i /\ i < q
    OBVIOUS
  <2>1. i \in doc /\ i \in rest
    BY <1>3
  <2>2. p <= i /\ q >= i /\ s[i] = "os"
    BY <1>4, <1>9, <2>1
  <2> QED
    BY <1>1, <1>6, <2>2
<1>12. p \notin Messages(s) /\ q \notin Messages(s)
  BY <1>3, <1>4
<1>13. oses = {i \in 1 .. Len(s) \ Messages(s) : s[i] = "os"}
  BY <1>3
<1>14. ParseInspectionXML(s) =
          IF {i \in 1 .. Len(s) \ Messages(s) : s[i] = "os"} = {} THEN NoDocument
          ELSE Document(Cardinality({i \in 1 .. Len(s) \ Messages(s) : s[i] = "os"}))
  BY <1>5, <1>6, <1>10, <1>11, <1>12, LocalDocumentParsed
<1> QED
  BY <1>13, <1>14

\* A document mixed with messages is found in an output of any length, with
\* all of its operating systems and no others.
THEOREM LocalDocumentFound == NBDSpec => []LocalDocument
<1>1. NBDInit => ReportInv
  BY DEF NBDInit, ReportInv
<1>2. NInv /\ ReportInv /\ [NBDNext]_nbdVars => ReportInv'
  BY ReportStep DEF NInv
<1>3. NInv /\ ReportInv => LocalDocument
  <2> SUFFICES ASSUME NInv, ReportInv PROVE LocalDocument
    OBVIOUS
  <2> DEFINE doc == Markup(stdout)
             oses == {i \in doc : stdout[i] = "os"}
             messages == {stdout[i] : i \in DOMAIN stdout \ doc}
  <2>1. SUFFICES
          ASSUME oses # {}, stdout[Min(doc)] = "oses", stdout[Max(doc)] = "/oses",
                 Cardinality(doc) = Cardinality(oses) + 2,
                 messages \cap {"decl", "oses", "/oses"} = {}
          PROVE  result = [kind |-> "report", oses |-> Cardinality(oses)]
    BY Zenon DEF LocalDocument
  <2>2. stdout \in Seq(Tokens)
    BY DEF NInv, NBDTypeOK
  <2>3. ParseInspectionXML(stdout) = Document(Cardinality(oses))
    <3>1. \A D, O : D = doc /\ O = oses =>
            ParseInspectionXML(stdout) = Document(Cardinality(O))
      <4> TAKE D, O
      <4> HAVE D = doc /\ O = oses
      <4> QED
        BY <2>1, <2>2, OnlyTheList, Zenon
    <3> QED
      BY <3>1, Zenon
  <2>4. stdout # <<>>
    BY <2>1 DEF Markup
  <2>5. result = LocalReport(stdout)
    BY <2>4 DEF ReportInv
  <2> HIDE DEF oses
  <2> QED
    BY <2>3, <2>5 DEF LocalReport, Document
<1> QED
  BY <1>1, <1>2, <1>3, NBDInvariance, PTL DEF NBDSpec

----------------------------------------------------------------------------
(* The refinement of ServerScope. *)

\* What is up belongs to the proxies that are still to be closed.
LEMMA ProxiesUpAre ==
    ASSUME NInv
    PROVE  /\ pc # "unlink" => ProxiesUp = sessions
           /\ pc = "unlink" => ProxiesUp = IF Closing \in socket THEN sessions
                                           ELSE sessions \ {Closing}
<1>1. sessions \subseteq URLs /\ socket \subseteq URLs
  BY DEF NInv, NBDTypeOK
<1> QED
  BY <1>1 DEF NInv, CloseInv, Running, ProxiesUp

\* Every step of DetectNBD is one of the scope, or none.
LEMMA NBDScopeSteps ==
    ASSUME NInv, [NBDNext]_nbdVars
    PROVE  [Scope!ScopeNext]_Scope!scopeVars
<1> DEFINE Step == [Scope!ScopeNext]_Scope!scopeVars
<1> HIDE DEF Step
<1> SUFFICES Step
  BY DEF Step
<1>i. NInv'
  BY NBDTyped, NBDLoopStep, NBDCloseStep DEF NInv
<1>u. pc # "unlink" => ProxiesUp = sessions
  BY ProxiesUpAre
<1>p. ProxiesUp' = IF pc' = "unlink" /\ Closing' \notin socket'
                   THEN sessions' \ {Closing'} ELSE sessions'
  <2>1. sessions' \subseteq URLs /\ socket' \subseteq URLs
    BY <1>i DEF NInv, NBDTypeOK
  <2> QED
    BY <1>i, <2>1 DEF NInv, CloseInv, Running, ProxiesUp
<1>stutter. ASSUME ProxiesUp' = ProxiesUp, ScopeState' = ScopeState,
                   ScopeNeeds' = ScopeNeeds
            PROVE  Step
  BY <1>stutter DEF Step, Scope!scopeVars
<1>open. ASSUME Opening, Opening', UNCHANGED <<nbds, sessions>> PROVE Step
  <2>1. ProxiesUp' = ProxiesUp
    BY <1>open, <1>u, <1>p DEF Opening
  <2> QED
    BY <1>open, <2>1, <1>stutter DEF ScopeState, ScopeNeeds
<1>end. ASSUME Opening \/ pc = "engine", pc' = "close",
               UNCHANGED <<nbds, sessions>>
        PROVE  Step
  <2>1. ProxiesUp' = ProxiesUp
    BY <1>end, <1>u, <1>p DEF Opening
  <2>2. /\ ScopeState \in {"opening", "inUse"}
        /\ ScopeState' = IF ProxiesUp = {} THEN "closed" ELSE "closing"
        /\ ScopeNeeds = nbds
        /\ ScopeNeeds' = IF ProxiesUp = {} THEN {} ELSE nbds
    BY <1>end, <2>1 DEF ScopeState, ScopeNeeds, Opening, AtRest
  <2>3. Scope!End
    BY <2>1, <2>2 DEF Scope!End, Scope!LeaveWith
  <2> QED
    BY <2>3 DEF Step, Scope!ScopeNext
<1>release. ASSUME NEW u \in ProxiesUp, ProxiesUp' = ProxiesUp \ {u},
                   pc \in {"close", "unlink"}, pc' \in {"close", "unlink"},
                   UNCHANGED nbds
            PROVE  Step
  <2>1. /\ ScopeState = "closing"
        /\ ScopeState' = IF ProxiesUp' = {} THEN "closed" ELSE "closing"
        /\ ScopeNeeds = nbds
        /\ ScopeNeeds' = IF ProxiesUp' = {} THEN {} ELSE nbds
    BY <1>release DEF ScopeState, ScopeNeeds, Opening, AtRest
  <2>2. Scope!Release(u)
    BY <1>release, <2>1 DEF Scope!Release, Scope!LeaveWith
  <2>3. u \in URLs
    BY DEF ProxiesUp
  <2> QED
    BY <2>2, <2>3 DEF Step, Scope!ScopeNext
<1>same. ASSUME UNCHANGED <<nbds, pc>>, ProxiesUp' = ProxiesUp PROVE Step
  BY <1>same, <1>stutter DEF ScopeState, ScopeNeeds, Opening, AtRest
<1>1. CASE DetectNBD
  <2>1. ProxiesUp = {} /\ ProxiesUp' = {}
    BY <1>1, <1>u, <1>p DEF DetectNBD, Goto, NInv, CloseInv
  <2>2. /\ ScopeState = "closed" /\ ScopeState' = "opening"
        /\ ScopeNeeds = {} /\ ScopeNeeds' = nbds' /\ nbds' \in SUBSET URLs
    BY <1>1, <2>1 DEF DetectNBD, Goto, ScopeState, ScopeNeeds, Opening, AtRest
  <2>3. Scope!Begin(nbds')
    BY <2>1, <2>2 DEF Scope!Begin
  <2> QED
    BY <2>2, <2>3 DEF Step, Scope!ScopeNext
<1>2. CASE ResolveRaw \/ ResolveNBDS \/ Resolved \/ SocketFound
           \/ SocketMissing \/ LookAgain
  BY <1>2, <1>open
     DEF ResolveRaw, ResolveNBDS, Resolved, SocketFound, SocketMissing,
         LookAgain, Goto, Opening
<1>3. CASE CertificatesMissing \/ ProxyFails \/ NotReady \/ LocalRefused
           \/ LocalSucceeds \/ LocalFails
  BY <1>3, <1>end
     DEF CertificatesMissing, ProxyFails, NotReady, LocalRefused,
         LocalSucceeds, LocalFails, CloseAll, Goto, Opening
<1>4. CASE StartProxy
  <2>1. url \in nbds \ ProxiesUp /\ ProxiesUp' = ProxiesUp \cup {url}
    BY <1>4, <1>u, <1>p, NumURLsAssumption
       DEF StartProxy, Goto, NInv, LoopInv, NBDTypeOK, URLs
  <2>2. /\ ScopeState = "opening" /\ ScopeState' = "opening"
        /\ ScopeNeeds = nbds /\ ScopeNeeds' = nbds
    BY <1>4 DEF StartProxy, Goto, ScopeState, ScopeNeeds, Opening
  <2>3. Scope!Acquire(url)
    BY <2>1, <2>2 DEF Scope!Acquire
  <2>4. url \in URLs
    BY <2>1 DEF NInv, NBDTypeOK
  <2> QED
    BY <2>3, <2>4 DEF Step, Scope!ScopeNext
<1>5. CASE LocalStart
  <2>1. ProxiesUp = nbds /\ ProxiesUp' = ProxiesUp
    BY <1>5, <1>u, <1>p DEF LocalStart, Goto, NInv, LoopInv
  <2>2. /\ ScopeState = "opening" /\ ScopeState' = "inUse"
        /\ ScopeNeeds = nbds /\ ScopeNeeds' = ScopeNeeds
    BY <1>5 DEF LocalStart, Goto, ScopeState, ScopeNeeds, Opening
  <2>3. Scope!Use
    BY <2>1, <2>2 DEF Scope!Use
  <2> QED
    BY <2>3 DEF Step, Scope!ScopeNext
<1>6. CASE Reap \/ Unlink
  <2>1. Closing \in sessions
    BY <1>6, ClosingListed DEF Reap, Unlink, Goto, NInv, NBDTypeOK, CloseInv
  <2>2. \/ ProxiesUp' = ProxiesUp
        \/ Closing \in ProxiesUp /\ ProxiesUp' = ProxiesUp \ {Closing}
    <3>1. CASE Reap
      <4>1. Closing' = Closing /\ sessions' = sessions /\ pc' = "unlink"
        BY <3>1 DEF Reap, Closing, Goto
      <4>2. ProxiesUp' = IF Closing \in socket' THEN sessions
                         ELSE sessions \ {Closing}
        BY <4>1, <1>p
      <4> QED
        BY <3>1, <2>1, <4>2, <1>u, <1>p DEF Reap, Goto
    <3>2. CASE Unlink
      BY <3>2, <2>1, <1>u, <1>p, ProxiesUpAre DEF Unlink, Goto
    <3> QED
      BY <1>6, <3>1, <3>2
  <2>3. pc \in {"close", "unlink"} /\ pc' \in {"close", "unlink"} /\ nbds' = nbds
    BY <1>6 DEF Reap, Unlink, Goto
  <2>4. CASE ProxiesUp' = ProxiesUp
    BY <2>3, <2>4, <1>stutter DEF ScopeState, ScopeNeeds, Opening, AtRest
  <2> QED
    BY <2>2, <2>3, <2>4, <1>release
<1>7. CASE Return \/ TakeReport
  <2>1. ProxiesUp = {} /\ ProxiesUp' = {}
    BY <1>7, <1>u, <1>p DEF Return, TakeReport, Goto, NInv, CloseInv
  <2>2. /\ ScopeState = "closed" /\ ScopeState' = "closed"
        /\ ScopeNeeds = {} /\ ScopeNeeds' = {}
    BY <1>7, <2>1
       DEF Return, TakeReport, Goto, ScopeState, ScopeNeeds, Opening, AtRest
  <2> QED
    BY <2>1, <2>2, <1>stutter
<1>8. ASSUME NEW u \in URLs, Listen(u) \/ Exit(u) PROVE Step
  <2>1. ProxiesUp' = ProxiesUp
    BY <1>8 DEF Listen, Exit, ProxiesUp, NInv, NBDTypeOK
  <2> QED
    BY <1>8, <2>1, <1>same DEF Listen, Exit
<1>9. CASE CancelCaller \/ LocalDeadline \/ UNCHANGED nbdVars
  <2>1. ProxiesUp' = ProxiesUp
    BY <1>9 DEF CancelCaller, LocalDeadline, nbdVars, ProxiesUp
  <2> QED
    BY <1>9, <2>1, <1>same DEF CancelCaller, LocalDeadline, nbdVars
<1> QED
  BY <1>1, <1>2, <1>3, <1>4, <1>5, <1>6, <1>7, <1>8, <1>9
     DEF NBDNext, NBDGoesOn, NBDStep

\* DetectNBD is a scope of its proxies, for any number of URLs.
THEOREM NBDRefinesScope == NBDSpec => NBDImplementsScope
<1>1. NBDInit => Scope!ScopeInit
  <2> SUFFICES ASSUME NBDInit PROVE Scope!ScopeInit
    OBVIOUS
  <2>1. ProxiesUp = {}
    BY DEF NBDInit, ProxiesUp
  <2> QED
    BY <2>1 DEF NBDInit, Scope!ScopeInit, ScopeState, ScopeNeeds, Opening, AtRest
<1>2. NInv /\ [NBDNext]_nbdVars => [Scope!ScopeNext]_Scope!scopeVars
  BY NBDScopeSteps
<1> QED
  BY <1>1, <1>2, NBDInvariance, PTL
     DEF NBDSpec, NBDImplementsScope, Scope!ScopeSpec

----------------------------------------------------------------------------
(* How many steps DetectNBD takes. *)

\* To look at a URL, and twice for each look at the socket of its proxy.
PerURL == 2 * MaxPolls + 1

\* From a URL on: the ones that are left, virt-inspector, and the closer, which
\* does two things to each proxy.
AtURL == (NumURLs + 1 - url) * PerURL + 2 * NumURLs + 4

\* The steps of its own DetectNBD still takes, at most.
StepsLeft ==
    IF pc = "resolve"     THEN AtURL
    ELSE IF pc = "start"  THEN AtURL - 1
    ELSE IF pc = "ready"  THEN AtURL - 2 - 2 * polls
    ELSE IF pc = "nap"    THEN AtURL - 1 - 2 * polls
    ELSE IF pc = "run"    THEN 2 * NumURLs + 3
    ELSE IF pc = "engine" THEN 2 * NumURLs + 2
    ELSE IF pc = "close"  THEN 2 * Cardinality(sessions) + 1
    ELSE IF pc = "unlink" THEN 2 * Cardinality(sessions)
    ELSE 0

MostSteps == NumURLs * PerURL + 2 * NumURLs + 4

\* What the loop still has to do for a URL and the ones after it.
LEMMA LoopBounded ==
    ASSUME NBDTypeOK
    PROVE  /\ PerURL \in Nat
           /\ AtURL \in 2 * NumURLs + 4 .. MostSteps
           /\ url <= NumURLs => AtURL >= PerURL + 2 * NumURLs + 4
<1> USE NumURLsAssumption, MaxPollsAssumption DEF NBDTypeOK
<1>1. PerURL \in Nat
  BY DEF PerURL
<1> DEFINE n == NumURLs + 1 - url
<1>2. n \in 0 .. NumURLs /\ (url <= NumURLs => n \in 1 .. NumURLs)
  OBVIOUS
<1>3. AtURL = n * PerURL + 2 * NumURLs + 4
  BY DEF AtURL
<1> HIDE DEF n
<1>4. ASSUME NEW k \in Nat, NEW i \in 0 .. NumURLs
      PROVE  /\ i * k \in Nat /\ NumURLs * k \in Nat /\ i * k <= NumURLs * k
             /\ i # 0 => i * k >= k
  <2>1. i * k \in Nat /\ (NumURLs - i) * k \in Nat
    OBVIOUS
  <2>2. NumURLs * k = i * k + (NumURLs - i) * k
    OBVIOUS
  <2>3. i # 0 => (i - 1) * k \in Nat /\ i * k = (i - 1) * k + k
    OBVIOUS
  <2> QED
    BY <2>1, <2>2, <2>3
<1>5. /\ n * PerURL \in Nat /\ NumURLs * PerURL \in Nat
      /\ n * PerURL <= NumURLs * PerURL
      /\ n # 0 => n * PerURL >= PerURL
  BY <1>1, <1>2, <1>4
<1> HIDE DEF PerURL
<1> QED
  BY <1>1, <1>2, <1>3, <1>5 DEF MostSteps

\* At most one proxy per URL is to be closed.
LEMMA FewToClose ==
    ASSUME NBDTypeOK
    PROVE  /\ IsFiniteSet(sessions) /\ Cardinality(sessions) \in 0 .. NumURLs
           /\ \A u \in sessions : /\ Cardinality(sessions) \in 1 .. NumURLs
                                  /\ Cardinality(sessions \ {u})
                                        = Cardinality(sessions) - 1
<1>1. IsFiniteSet(URLs) /\ Cardinality(URLs) = NumURLs
  BY FS_Interval, NumURLsAssumption DEF URLs
<1>2. /\ IsFiniteSet(sessions) /\ Cardinality(sessions) \in Nat
      /\ Cardinality(sessions) <= NumURLs
  BY <1>1, FS_Subset, FS_CardinalityType DEF NBDTypeOK
<1>3. ASSUME NEW u \in sessions
      PROVE  /\ Cardinality(sessions) # 0
             /\ Cardinality(sessions \ {u}) = Cardinality(sessions) - 1
  BY <1>2, FS_RemoveElement, FS_EmptySet
<1> QED
  BY <1>2, <1>3, NumURLsAssumption

\* The number of steps left is one, and no more than there are to begin with.
LEMMA StepsBounded ==
    ASSUME NInv
    PROVE  StepsLeft \in 0 .. MostSteps
<1>1. /\ PerURL = 2 * MaxPolls + 1
      /\ AtURL \in 2 * NumURLs + 4 .. MostSteps
      /\ url <= NumURLs => AtURL >= PerURL + 2 * NumURLs + 4
  BY LoopBounded DEF NInv, PerURL
<1>2. Cardinality(sessions) \in 0 .. NumURLs
  BY FewToClose DEF NInv
<1>3. /\ pc \in NBDPCs /\ polls \in 0 .. MaxPolls
      /\ pc \in {"start", "ready", "nap"} => url <= NumURLs
      /\ MostSteps \in Int
  BY NumURLsAssumption, MaxPollsAssumption
     DEF NInv, NBDTypeOK, LoopInv, URLs, MostSteps, PerURL
<1>4. MostSteps >= 2 * NumURLs + 4
  BY <1>1, <1>3, NumURLsAssumption
<1>5. pc = "ready" => polls < MaxPolls
  BY DEF NInv, LoopInv
<1> USE <1>1, <1>3, <1>4, NumURLsAssumption, MaxPollsAssumption DEF StepsLeft
<1> HIDE DEF AtURL, MostSteps
<1>6. CASE pc \in {"resolve", "start"}
  BY <1>6
<1>7. CASE pc \in {"ready", "nap"}
  BY <1>5, <1>7
<1>8. CASE pc \in {"run", "engine"}
  BY <1>8
<1>9. CASE pc \in {"close", "unlink"}
  BY <1>2, <1>9
<1>10. CASE pc \in {"idle", "returned"}
  BY <1>10
<1> QED
  BY <1>6, <1>7, <1>8, <1>9, <1>10 DEF NBDPCs

\* Each step of the code or of virt-inspector is one less to come.
LEMMA OneStepLess ==
    ASSUME NInv, NBDStep \/ LocalSucceeds \/ LocalFails
    PROVE  StepsLeft' < StepsLeft
<1> USE NumURLsAssumption, MaxPollsAssumption DEF Goto, CloseAll
<1>a. /\ PerURL = 2 * MaxPolls + 1 /\ PerURL' = PerURL
      /\ AtURL \in Nat /\ AtURL >= 2 * NumURLs + 4
      /\ url <= NumURLs => AtURL >= PerURL + 2 * NumURLs + 4
  BY LoopBounded DEF NInv, PerURL
<1>c. Cardinality(sessions) \in 0 .. NumURLs
  BY FewToClose DEF NInv
<1>t. /\ polls \in 0 .. MaxPolls /\ url \in 1 .. NumURLs + 1
      /\ pc \in {"start", "ready", "nap"} => url <= NumURLs
      /\ pc = "ready" => polls < MaxPolls
  BY DEF NInv, NBDTypeOK, LoopInv, URLs
<1>s. url' = url => AtURL' = AtURL
  BY DEF AtURL, PerURL
<1>n. url' = url + 1 => AtURL' = AtURL - PerURL
  BY <1>t DEF AtURL, PerURL
<1> HIDE DEF AtURL, PerURL
<1>1. CASE ResolveRaw
  BY <1>1, <1>a, <1>n, <1>t DEF ResolveRaw, StepsLeft, URLs
<1>2. CASE ResolveNBDS \/ Resolved
  BY <1>2, <1>a, <1>s DEF ResolveNBDS, Resolved, StepsLeft
<1>3. CASE StartProxy
  BY <1>3, <1>a, <1>s DEF StartProxy, StepsLeft
<1>4. CASE SocketFound
  BY <1>4, <1>a, <1>n, <1>t DEF SocketFound, StepsLeft
<1>5. CASE SocketMissing \/ LookAgain
  BY <1>5, <1>a, <1>s, <1>t DEF SocketMissing, LookAgain, StepsLeft
<1>6. CASE LocalStart
  BY <1>6 DEF LocalStart, StepsLeft
<1>7. CASE CertificatesMissing \/ ProxyFails \/ LocalRefused
           \/ LocalSucceeds \/ LocalFails
  <2>1. /\ pc \in {"resolve", "start", "run", "engine"} /\ pc' = "close"
        /\ sessions' = sessions
    BY <1>7 DEF CertificatesMissing, ProxyFails, LocalRefused, LocalSucceeds,
                LocalFails
  <2> QED
    BY <2>1, <1>a, <1>c, <1>t DEF StepsLeft
<1>8. CASE NotReady
  <2>1. pc = "nap" /\ pc' = "close" /\ sessions' = sessions /\ polls = MaxPolls
    BY <1>8 DEF NotReady
  <2> QED
    BY <2>1, <1>a, <1>c, <1>t DEF StepsLeft
<1>9. CASE Reap
  BY <1>9, <1>c DEF Reap, StepsLeft
<1>10. CASE Unlink
  <2>1. Closing \in sessions
    BY <1>10, ClosingListed DEF Unlink, NInv, CloseInv, NBDTypeOK
  <2>2. Cardinality(sessions') = Cardinality(sessions) - 1
    BY <1>10, <2>1, FewToClose DEF Unlink, NInv
  <2> QED
    BY <1>10, <1>c, <2>2 DEF Unlink, StepsLeft
<1>11. CASE Return
  BY <1>11, <1>c DEF Return, StepsLeft
<1> QED
  BY <1>1, <1>2, <1>3, <1>4, <1>5, <1>6, <1>7, <1>8, <1>9, <1>10, <1>11 DEF NBDStep

\* Nothing the proxies or the contexts do gives DetectNBD more to do: it is
\* over after MostSteps steps of its own at the latest, each of which is one
\* less.  NBDReturns adds that there is always somebody to take it.
THEOREM NBDStepsRunOut ==
    NBDSpec => /\ [](StepsLeft \in 0 .. MostSteps)
               /\ [][NBDStep \/ LocalSucceeds \/ LocalFails
                        => StepsLeft' < StepsLeft]_nbdVars
               /\ [][CancelCaller \/ LocalDeadline
                     \/ (\E u \in URLs : Listen(u) \/ Exit(u))
                        => StepsLeft' = StepsLeft]_nbdVars
<1>1. NInv => StepsLeft \in 0 .. MostSteps
  BY StepsBounded
<1>2. NInv => (NBDStep \/ LocalSucceeds \/ LocalFails => StepsLeft' < StepsLeft)
  BY OneStepLess
<1>3. (CancelCaller \/ LocalDeadline \/ (\E u \in URLs : Listen(u) \/ Exit(u)))
        => StepsLeft' = StepsLeft
  <2> SUFFICES ASSUME UNCHANGED <<pc, url, polls, sessions>>
               PROVE  StepsLeft' = StepsLeft
    BY DEF CancelCaller, LocalDeadline, Listen, Exit
  <2>1. AtURL' = AtURL
    BY DEF AtURL, PerURL
  <2> HIDE DEF AtURL
  <2> QED
    BY <2>1 DEF StepsLeft
<1> QED
  BY <1>1, <1>2, <1>3, NBDInvariance, PTL
=============================================================================
