------------------------- MODULE InspectionService -------------------------
(***************************************************************************)
(* What persistent.Inspector promises to the code that calls it, with no   *)
(* cache lookups, no deduplication and no DB: a snapshot has at most one   *)
(* document in the life of a process, and whoever asks for it is told that *)
(* document or an error.                                                   *)
(***************************************************************************)
CONSTANTS Callers, Slots, Revs, Errors, Nil

VARIABLES
    memo,       \* the document of each slot, once there is one
    asked,      \* the slot a caller has asked for
    answer      \* what a caller has been told

serviceVars == <<memo, asked, answer>>

DocumentsOf(s) == [slot : {s}, rev : Revs]

Pending(c) == asked[c] # Nil /\ answer[c] = Nil

ServiceInit ==
    /\ memo   = [s \in Slots |-> Nil]
    /\ asked  = [c \in Callers |-> Nil]
    /\ answer = [c \in Callers |-> Nil]

Ask(c, s) ==
    /\ asked[c] = Nil
    /\ asked' = [asked EXCEPT ![c] = s]
    /\ UNCHANGED <<memo, answer>>

\* The document of s is settled, on behalf of somebody who asked for it.
Settle(c) ==
    /\ Pending(c)
    /\ memo[asked[c]] = Nil
    /\ \E d \in DocumentsOf(asked[c]) : memo' = [memo EXCEPT ![asked[c]] = d]
    /\ UNCHANGED <<asked, answer>>

Tell(c) ==
    /\ Pending(c)
    /\ memo[asked[c]] # Nil
    /\ answer' = [answer EXCEPT ![c] = memo[asked[c]]]
    /\ UNCHANGED <<memo, asked>>

Refuse(c) ==
    /\ Pending(c)
    /\ \E e \in Errors : answer' = [answer EXCEPT ![c] = e]
    /\ UNCHANGED <<memo, asked>>

Take(c) ==
    /\ answer[c] # Nil
    /\ asked'  = [asked EXCEPT ![c] = Nil]
    /\ answer' = [answer EXCEPT ![c] = Nil]
    /\ UNCHANGED memo

\* A new process: nothing is promised across it.
Reset ==
    /\ memo'   = [s \in Slots |-> Nil]
    /\ asked'  = [c \in Callers |-> Nil]
    /\ answer' = [c \in Callers |-> Nil]

ServiceNext ==
    \/ \E c \in Callers :
        \/ \E s \in Slots : Ask(c, s)
        \/ Settle(c) \/ Tell(c) \/ Refuse(c) \/ Take(c)
    \/ Reset

ServiceSpec == ServiceInit /\ [][ServiceNext]_serviceVars
=============================================================================
