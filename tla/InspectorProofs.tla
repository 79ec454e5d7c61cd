-------------------------- MODULE InspectorProofs --------------------------
(***************************************************************************)
(* What is proved of Inspector for any number of callers, snapshots and    *)
(* documents.                                                              *)
(*                                                                         *)
(* The invariants of Inspector are not inductive by themselves.  What      *)
(* makes them so is who owns what: an inflight entry is owned by exactly   *)
(* one leader from the first critical section of do to the second; only    *)
(* an owner who has found the memory cache empty writes to it; a waiter    *)
(* holds the address of a call that either is still in the tracker, under  *)
(* the slot the waiter asked for, or has been published.                   *)
(***************************************************************************)
EXTENDS Inspector, TLAPS

\* A result that may be told to somebody who asked for slot s.
Tellable(s, r) == r \in Errors \/ (r \in Documents(s) /\ r = memoryCache[s])

\* A caller has a slot from its first step to its last, and a pointer to an
\* inflightCall exactly while it is inside do.
CallersInv ==
    \A c \in Callers :
        /\ IF pc[c] = "idle" THEN slot[c] = Nil ELSE slot[c] \in Slots
        /\ pc[c] \in Leading \cup {"waiting"} => call[c] \in CallIds
        /\ pc[c] \in {"idle", "lookup", "enter", "returned"} => call[c] = Nil

\* A leader owns the entry of its slot; an entry has a leader; no two slots
\* share an inflightCall.
OwnerInv ==
    /\ \A c \in Callers : pc[c] \in Leading => calls[slot[c]] = call[c]
    /\ \A s \in Slots : calls[s] # Nil =>
          \E c \in Callers : pc[c] \in Leading /\ slot[c] = s
    /\ \A s1, s2 \in Slots : calls[s1] = calls[s2] /\ calls[s1] # Nil => s1 = s2

\* A call is done exactly in the last step of its leader, and its outcome is
\* then the leader's result.
DoneInv ==
    \A c \in Callers :
        /\ pc[c] \in Leading \ {"remove"} => ~done[call[c]]
        /\ pc[c] = "remove" => /\ done[call[c]]
                               /\ outcome[call[c]] = result[c]

\* What a waiter waits for.
WaiterInv ==
    \A c \in Callers : pc[c] = "waiting" =>
        IF done[call[c]] THEN Tellable(slot[c], outcome[call[c]])
                         ELSE calls[slot[c]] = call[c]

\* Documents are about the slot they are kept for.
LayersInv ==
    \A s \in Slots : /\ memoryCache[s] \in Documents(s) \cup {Nil}
                     /\ db[s] \in Documents(s) \cup {Nil}

\* A leader past the double check works for a slot that has no document yet;
\* past the write of the memory cache it holds what is there, or an error.
ResultInv ==
    \A c \in Callers :
        /\ pc[c] \in {"dbGet", "fill", "begin", "inspecting", "store"}
              => memoryCache[slot[c]] = Nil
        /\ pc[c] \in {"fill", "store"} => result[c] \in Documents(slot[c])
        /\ pc[c] = "dbSet" => /\ result[c] \in Documents(slot[c])
                              /\ result[c] = memoryCache[slot[c]]
        /\ pc[c] \in {"publish", "remove", "returned"}
              => Tellable(slot[c], result[c])

IInv == /\ TypeOK /\ CallersInv /\ OwnerInv /\ OneLeaderPerSlot /\ DoneInv
        /\ WaiterInv /\ LayersInv /\ ResultInv

----------------------------------------------------------------------------
(* Typing. *)

\* A document about a slot is a document.
LEMMA DocumentsTyped ==
    \A s \in Slots : Documents(s) \subseteq AllDocuments
BY DEF Documents, AllDocuments

\* A process that has just been started is typed.
LEMMA InitTyped == Init => TypeOK
BY ModeAssumption DEF Init, TypeOK, PCs, Leading

\* Typing is preserved given that a caller past "idle" has a slot, a caller
\* inside do a call, and the results that are stored are documents.
LEMMA StepTyped ==
    ASSUME TypeOK, CallersInv, ResultInv, [Next]_vars
    PROVE  TypeOK'
<1> USE DEF TypeOK
<1>1. ASSUME NEW c \in Callers, NEW s \in Slots, Invoke(c, s)
      PROVE  TypeOK'
  BY <1>1 DEF Invoke, Goto, heapVars, PCs
<1>2. ASSUME NEW c \in Callers, LookupHit(c) PROVE TypeOK'
  BY <1>2 DEF LookupHit, Return, Goto, heapVars, PCs, CallersInv, Results
<1>3. ASSUME NEW c \in Callers, LookupMiss(c) PROVE TypeOK'
  BY <1>3 DEF LookupMiss, Goto, heapVars, PCs
<1>4. ASSUME NEW c \in Callers, Lead(c) PROVE TypeOK'
  <2>1. PICK i \in CallIds : /\ calls' = [calls EXCEPT ![slot[c]] = i]
                             /\ call' = [call EXCEPT ![c] = i]
                             /\ done' = [done EXCEPT ![i] = FALSE]
                             /\ outcome' = [outcome EXCEPT ![i] = Nil]
    BY <1>4 DEF Lead
  <2> QED
    BY <1>4, <2>1 DEF Lead, Goto, PCs, Leading
<1>5. ASSUME NEW c \in Callers, Join(c) PROVE TypeOK'
  BY <1>5 DEF Join, Goto, heapVars, PCs, CallersInv
<1>6. ASSUME NEW c \in Callers, Wake(c) PROVE TypeOK'
  BY <1>6 DEF Wake, Return, Goto, heapVars, PCs, CallersInv
<1>7. ASSUME NEW c \in Callers, RecheckHit(c) PROVE TypeOK'
  BY <1>7 DEF RecheckHit, Goto, heapVars, PCs, Leading, CallersInv, Results
<1>8. ASSUME NEW c \in Callers, RecheckMiss(c) PROVE TypeOK'
  BY <1>8 DEF RecheckMiss, Goto, heapVars, PCs, Leading
<1>9. ASSUME NEW c \in Callers, DBGetHit(c) PROVE TypeOK'
  BY <1>9 DEF DBGetHit, Goto, heapVars, PCs, Leading, CallersInv, Results
<1>10. ASSUME NEW c \in Callers, DBGetMiss(c) PROVE TypeOK'
  BY <1>10 DEF DBGetMiss, Goto, heapVars, PCs, Leading
<1>11. ASSUME NEW c \in Callers, FillFromDB(c) PROVE TypeOK'
  BY <1>11, DocumentsTyped
     DEF FillFromDB, SetMemory, Goto, heapVars, PCs, Leading, CallersInv,
         ResultInv
<1>12. ASSUME NEW c \in Callers, StoreMemory(c) PROVE TypeOK'
  BY <1>12, DocumentsTyped
     DEF StoreMemory, SetMemory, Goto, heapVars, PCs, Leading, CallersInv,
         ResultInv
<1>13. ASSUME NEW c \in Callers, InspectBegin(c) PROVE TypeOK'
  BY <1>13 DEF InspectBegin, Goto, heapVars, PCs, Leading
<1>14. ASSUME NEW c \in Callers, InspectRefused(c) PROVE TypeOK'
  BY <1>14, ModeAssumption
     DEF InspectRefused, Goto, heapVars, PCs, Leading, Results
<1>15. ASSUME NEW c \in Callers, InspectOk(c) PROVE TypeOK'
  BY <1>15, DocumentsTyped
     DEF InspectOk, Goto, heapVars, PCs, Leading, Results, CallersInv
<1>16. ASSUME NEW c \in Callers, InspectErr(c) PROVE TypeOK'
  BY <1>16 DEF InspectErr, Goto, heapVars, PCs, Leading, Results
<1>17. ASSUME NEW c \in Callers, InspectPanic(c) PROVE TypeOK'
  BY <1>17 DEF InspectPanic, Goto, heapVars, PCs, Leading
<1>18. ASSUME NEW c \in Callers, DBSetOk(c) PROVE TypeOK'
  BY <1>18, DocumentsTyped
     DEF DBSetOk, Goto, heapVars, PCs, Leading, CallersInv, ResultInv
<1>19. ASSUME NEW c \in Callers, DBSetFail(c) PROVE TypeOK'
  BY <1>19 DEF DBSetFail, Goto, heapVars, PCs, Leading
<1>20. ASSUME NEW c \in Callers, Publish(c) PROVE TypeOK'
  BY <1>20 DEF Publish, Goto, PCs, Leading, CallersInv
<1>21. ASSUME NEW c \in Callers, Remove(c) PROVE TypeOK'
  BY <1>21 DEF Remove, Return, Goto, heapVars, PCs
<1>22. ASSUME NEW c \in Callers, Consume(c) PROVE TypeOK'
  BY <1>22 DEF Consume, Goto, heapVars, PCs
<1>23. ASSUME NEW c \in Callers, CancelContext(c) PROVE TypeOK'
  BY <1>23 DEF CancelContext, heapVars
<1>24. ASSUME Restart PROVE TypeOK'
  BY <1>24 DEF Restart, PCs
<1>25. CASE UNCHANGED vars
  BY <1>25 DEF vars
<1>26. ASSUME NEW c \in Callers, NewContext(c) PROVE TypeOK'
  BY <1>26 DEF NewContext, heapVars
<1> QED
  BY <1>1, <1>2, <1>3, <1>4, <1>5, <1>6, <1>7, <1>8, <1>9, <1>10, <1>11,
     <1>12, <1>13, <1>14, <1>15, <1>16, <1>17, <1>18, <1>19, <1>20, <1>21,
     <1>22, <1>23, <1>24, <1>25, <1>26
  DEF Next, Step

\* The callers' own pointers.
LEMMA StepCallers ==
    ASSUME TypeOK, CallersInv, [Next]_vars
    PROVE  CallersInv'
<1> USE DEF TypeOK, CallersInv, PCs, Leading
<1>1. ASSUME NEW c \in Callers, NEW s \in Slots, Invoke(c, s)
      PROVE  CallersInv'
  BY <1>1, NilAssumption
     DEF Invoke, Goto, heapVars
<1>2. ASSUME NEW c \in Callers, LookupHit(c) PROVE CallersInv'
  BY <1>2, NilAssumption
     DEF LookupHit, Return, Goto, heapVars
<1>3. ASSUME NEW c \in Callers, LookupMiss(c) PROVE CallersInv'
  BY <1>3, NilAssumption
     DEF LookupMiss, Goto, heapVars
<1>4. ASSUME NEW c \in Callers, Lead(c) PROVE CallersInv'
  BY <1>4, NilAssumption
     DEF Lead, Fresh, Goto
<1>5. ASSUME NEW c \in Callers, Join(c) PROVE CallersInv'
  BY <1>5, NilAssumption
     DEF Join, Goto, heapVars
<1>6. ASSUME NEW c \in Callers, Wake(c) PROVE CallersInv'
  BY <1>6, NilAssumption
     DEF Wake, Return, Goto, heapVars
<1>7. ASSUME NEW c \in Callers, RecheckHit(c) PROVE CallersInv'
  BY <1>7, NilAssumption
     DEF RecheckHit, Goto, heapVars
<1>8. ASSUME NEW c \in Callers, RecheckMiss(c) PROVE CallersInv'
  BY <1>8, NilAssumption
     DEF RecheckMiss, Goto, heapVars
<1>9. ASSUME NEW c \in Callers, DBGetHit(c) PROVE CallersInv'
  BY <1>9, NilAssumption
     DEF DBGetHit, Goto, heapVars
<1>10. ASSUME NEW c \in Callers, DBGetMiss(c) PROVE CallersInv'
  BY <1>10, NilAssumption
     DEF DBGetMiss, Goto, heapVars
<1>11. ASSUME NEW c \in Callers, FillFromDB(c) PROVE CallersInv'
  BY <1>11, NilAssumption
     DEF FillFromDB, SetMemory, Goto, heapVars
<1>12. ASSUME NEW c \in Callers, StoreMemory(c) PROVE CallersInv'
  BY <1>12, NilAssumption
     DEF StoreMemory, SetMemory, Goto, heapVars
<1>13. ASSUME NEW c \in Callers, InspectBegin(c) PROVE CallersInv'
  BY <1>13, NilAssumption
     DEF InspectBegin, Goto, heapVars
<1>14. ASSUME NEW c \in Callers, InspectRefused(c) PROVE CallersInv'
  BY <1>14, NilAssumption
     DEF InspectRefused, Goto, heapVars
<1>15. ASSUME NEW c \in Callers, InspectOk(c) PROVE CallersInv'
  BY <1>15, NilAssumption
     DEF InspectOk, Goto, heapVars
<1>16. ASSUME NEW c \in Callers, InspectErr(c) PROVE CallersInv'
  BY <1>16, NilAssumption
     DEF InspectErr, Goto, heapVars
<1>17. ASSUME NEW c \in Callers, InspectPanic(c) PROVE CallersInv'
  BY <1>17, NilAssumption
     DEF InspectPanic, Goto, heapVars
<1>18. ASSUME NEW c \in Callers, DBSetOk(c) PROVE CallersInv'
  BY <1>18, NilAssumption
     DEF DBSetOk, Goto, heapVars
<1>19. ASSUME NEW c \in Callers, DBSetFail(c) PROVE CallersInv'
  BY <1>19, NilAssumption
     DEF DBSetFail, Goto, heapVars
<1>20. ASSUME NEW c \in Callers, Publish(c) PROVE CallersInv'
  BY <1>20, NilAssumption
     DEF Publish, Goto
<1>21. ASSUME NEW c \in Callers, Remove(c) PROVE CallersInv'
  BY <1>21, NilAssumption
     DEF Remove, Return, Goto, heapVars
<1>22. ASSUME NEW c \in Callers, Consume(c) PROVE CallersInv'
  BY <1>22, NilAssumption
     DEF Consume, Goto, heapVars
<1>23. ASSUME NEW c \in Callers, CancelContext(c) PROVE CallersInv'
  BY <1>23, NilAssumption
     DEF CancelContext, heapVars
<1>24. ASSUME Restart PROVE CallersInv'
  BY <1>24, NilAssumption
     DEF Restart
<1>25. CASE UNCHANGED vars
  BY <1>25
     DEF vars
<1>26. ASSUME NEW c \in Callers, NewContext(c) PROVE CallersInv'
  BY <1>26 DEF NewContext, heapVars
<1> QED
  BY <1>1, <1>2, <1>3, <1>4, <1>5, <1>6, <1>7, <1>8, <1>9, <1>10, <1>11,
     <1>12, <1>13, <1>14, <1>15, <1>16, <1>17, <1>18, <1>19, <1>20, <1>21,
     <1>22, <1>23, <1>24, <1>25, <1>26
     DEF Next, Step

\* The tracker lets one leader per slot in.
LEMMA StepOneLeader ==
    ASSUME TypeOK, CallersInv, OwnerInv, OneLeaderPerSlot, [Next]_vars
    PROVE  OneLeaderPerSlot'
<1> USE DEF TypeOK, CallersInv, OwnerInv, OneLeaderPerSlot, Leading
<1>1. ASSUME NEW c \in Callers, NEW s \in Slots, Invoke(c, s)
      PROVE  OneLeaderPerSlot'
  BY <1>1, NilAssumption
     DEF Invoke, Goto, heapVars
<1>2. ASSUME NEW c \in Callers, LookupHit(c) PROVE OneLeaderPerSlot'
  BY <1>2, NilAssumption
     DEF LookupHit, Return, Goto, heapVars
<1>3. ASSUME NEW c \in Callers, LookupMiss(c) PROVE OneLeaderPerSlot'
  BY <1>3, NilAssumption
     DEF LookupMiss, Goto, heapVars
<1>4. ASSUME NEW c \in Callers, Lead(c) PROVE OneLeaderPerSlot'
  BY <1>4, NilAssumption
     DEF Lead, Fresh, Goto
<1>5. ASSUME NEW c \in Callers, Join(c) PROVE OneLeaderPerSlot'
  BY <1>5, NilAssumption
     DEF Join, Goto, heapVars
<1>6. ASSUME NEW c \in Callers, Wake(c) PROVE OneLeaderPerSlot'
  BY <1>6, NilAssumption
     DEF Wake, Return, Goto, heapVars
<1>7. ASSUME NEW c \in Callers, RecheckHit(c) PROVE OneLeaderPerSlot'
  BY <1>7, NilAssumption
     DEF RecheckHit, Goto, heapVars
<1>8. ASSUME NEW c \in Callers, RecheckMiss(c) PROVE OneLeaderPerSlot'
  BY <1>8, NilAssumption
     DEF RecheckMiss, Goto, heapVars
<1>9. ASSUME NEW c \in Callers, DBGetHit(c) PROVE OneLeaderPerSlot'
  BY <1>9, NilAssumption
     DEF DBGetHit, Goto, heapVars
<1>10. ASSUME NEW c \in Callers, DBGetMiss(c) PROVE OneLeaderPerSlot'
  BY <1>10, NilAssumption
     DEF DBGetMiss, Goto, heapVars
<1>11. ASSUME NEW c \in Callers, FillFromDB(c) PROVE OneLeaderPerSlot'
  BY <1>11, NilAssumption
     DEF FillFromDB, SetMemory, Goto, heapVars
<1>12. ASSUME NEW c \in Callers, StoreMemory(c) PROVE OneLeaderPerSlot'
  BY <1>12, NilAssumption
     DEF StoreMemory, SetMemory, Goto, heapVars
<1>13. ASSUME NEW c \in Callers, InspectBegin(c) PROVE OneLeaderPerSlot'
  BY <1>13, NilAssumption
     DEF InspectBegin, Goto, heapVars
<1>14. ASSUME NEW c \in Callers, InspectRefused(c) PROVE OneLeaderPerSlot'
  BY <1>14, NilAssumption
     DEF InspectRefused, Goto, heapVars
<1>15. ASSUME NEW c \in Callers, InspectOk(c) PROVE OneLeaderPerSlot'
  BY <1>15, NilAssumption
     DEF InspectOk, Goto, heapVars
<1>16. ASSUME NEW c \in Callers, InspectErr(c) PROVE OneLeaderPerSlot'
  BY <1>16, NilAssumption
     DEF InspectErr, Goto, heapVars
<1>17. ASSUME NEW c \in Callers, InspectPanic(c) PROVE OneLeaderPerSlot'
  BY <1>17, NilAssumption
     DEF InspectPanic, Goto, heapVars
<1>18. ASSUME NEW c \in Callers, DBSetOk(c) PROVE OneLeaderPerSlot'
  BY <1>18, NilAssumption
     DEF DBSetOk, Goto, heapVars
<1>19. ASSUME NEW c \in Callers, DBSetFail(c) PROVE OneLeaderPerSlot'
  BY <1>19, NilAssumption
     DEF DBSetFail, Goto, heapVars
<1>20. ASSUME NEW c \in Callers, Publish(c) PROVE OneLeaderPerSlot'
  BY <1>20, NilAssumption
     DEF Publish, Goto
<1>21. ASSUME NEW c \in Callers, Remove(c) PROVE OneLeaderPerSlot'
  BY <1>21, NilAssumption
     DEF Remove, Return, Goto, heapVars
<1>22. ASSUME NEW c \in Callers, Consume(c) PROVE OneLeaderPerSlot'
  BY <1>22, NilAssumption
     DEF Consume, Goto, heapVars
<1>23. ASSUME NEW c \in Callers, CancelContext(c) PROVE OneLeaderPerSlot'
  BY <1>23, NilAssumption
     DEF CancelContext, heapVars
<1>24. ASSUME Restart PROVE OneLeaderPerSlot'
  BY <1>24, NilAssumption
     DEF Restart
<1>25. CASE UNCHANGED vars
  BY <1>25
     DEF vars
<1>26. ASSUME NEW c \in Callers, NewContext(c) PROVE OneLeaderPerSlot'
  BY <1>26 DEF NewContext, heapVars
<1> QED
  BY <1>1, <1>2, <1>3, <1>4, <1>5, <1>6, <1>7, <1>8, <1>9, <1>10, <1>11,
     <1>12, <1>13, <1>14, <1>15, <1>16, <1>17, <1>18, <1>19, <1>20, <1>21,
     <1>22, <1>23, <1>24, <1>25, <1>26
     DEF Next, Step

\* Entries and their owners.
LEMMA StepOwner ==
    ASSUME TypeOK, CallersInv, OwnerInv, OneLeaderPerSlot, [Next]_vars
    PROVE  OwnerInv'
<1> USE DEF TypeOK, CallersInv, OwnerInv, OneLeaderPerSlot, Leading
<1>1. ASSUME NEW c \in Callers, NEW s \in Slots, Invoke(c, s) PROVE OwnerInv'
  BY <1>1, NilAssumption
     DEF Invoke, Goto, heapVars
<1>2. ASSUME NEW c \in Callers, LookupHit(c) PROVE OwnerInv'
  BY <1>2, NilAssumption
     DEF LookupHit, Return, Goto, heapVars
<1>3. ASSUME NEW c \in Callers, LookupMiss(c) PROVE OwnerInv'
  BY <1>3, NilAssumption
     DEF LookupMiss, Goto, heapVars
<1>4. ASSUME NEW c \in Callers, Lead(c) PROVE OwnerInv'
  BY <1>4, NilAssumption
     DEF Lead, Fresh, Goto
<1>5. ASSUME NEW c \in Callers, Join(c) PROVE OwnerInv'
  BY <1>5, NilAssumption
     DEF Join, Goto, heapVars
<1>6. ASSUME NEW c \in Callers, Wake(c) PROVE OwnerInv'
  BY <1>6, NilAssumption
     DEF Wake, Return, Goto, heapVars
<1>7. ASSUME NEW c \in Callers, RecheckHit(c) PROVE OwnerInv'
  BY <1>7, NilAssumption
     DEF RecheckHit, Goto, heapVars
<1>8. ASSUME NEW c \in Callers, RecheckMiss(c) PROVE OwnerInv'
  BY <1>8, NilAssumption
     DEF RecheckMiss, Goto, heapVars
<1>9. ASSUME NEW c \in Callers, DBGetHit(c) PROVE OwnerInv'
  BY <1>9, NilAssumption
     DEF DBGetHit, Goto, heapVars
<1>10. ASSUME NEW c \in Callers, DBGetMiss(c) PROVE OwnerInv'
  BY <1>10, NilAssumption
     DEF DBGetMiss, Goto, heapVars
<1>11. ASSUME NEW c \in Callers, FillFromDB(c) PROVE OwnerInv'
  BY <1>11, NilAssumption
     DEF FillFromDB, SetMemory, Goto, heapVars
<1>12. ASSUME NEW c \in Callers, StoreMemory(c) PROVE OwnerInv'
  BY <1>12, NilAssumption
     DEF StoreMemory, SetMemory, Goto, heapVars
<1>13. ASSUME NEW c \in Callers, InspectBegin(c) PROVE OwnerInv'
  BY <1>13, NilAssumption
     DEF InspectBegin, Goto, heapVars
<1>14. ASSUME NEW c \in Callers, InspectRefused(c) PROVE OwnerInv'
  BY <1>14, NilAssumption
     DEF InspectRefused, Goto, heapVars
<1>15. ASSUME NEW c \in Callers, InspectOk(c) PROVE OwnerInv'
  BY <1>15, NilAssumption
     DEF InspectOk, Goto, heapVars
<1>16. ASSUME NEW c \in Callers, InspectErr(c) PROVE OwnerInv'
  BY <1>16, NilAssumption
     DEF InspectErr, Goto, heapVars
<1>17. ASSUME NEW c \in Callers, InspectPanic(c) PROVE OwnerInv'
  BY <1>17, NilAssumption
     DEF InspectPanic, Goto, heapVars
<1>18. ASSUME NEW c \in Callers, DBSetOk(c) PROVE OwnerInv'
  BY <1>18, NilAssumption
     DEF DBSetOk, Goto, heapVars
<1>19. ASSUME NEW c \in Callers, DBSetFail(c) PROVE OwnerInv'
  BY <1>19, NilAssumption
     DEF DBSetFail, Goto, heapVars
<1>20. ASSUME NEW c \in Callers, Publish(c) PROVE OwnerInv'
  BY <1>20, NilAssumption
     DEF Publish, Goto
<1>21. ASSUME NEW c \in Callers, Remove(c) PROVE OwnerInv'
  BY <1>21, NilAssumption
     DEF Remove, Return, Goto, heapVars
<1>22. ASSUME NEW c \in Callers, Consume(c) PROVE OwnerInv'
  BY <1>22, NilAssumption
     DEF Consume, Goto, heapVars
<1>23. ASSUME NEW c \in Callers, CancelContext(c) PROVE OwnerInv'
  BY <1>23, NilAssumption
     DEF CancelContext, heapVars
<1>24. ASSUME Restart PROVE OwnerInv'
  BY <1>24, NilAssumption
     DEF Restart
<1>25. CASE UNCHANGED vars
  BY <1>25
     DEF vars
<1>26. ASSUME NEW c \in Callers, NewContext(c) PROVE OwnerInv'
  BY <1>26 DEF NewContext, heapVars
<1> QED
  BY <1>1, <1>2, <1>3, <1>4, <1>5, <1>6, <1>7, <1>8, <1>9, <1>10, <1>11,
     <1>12, <1>13, <1>14, <1>15, <1>16, <1>17, <1>18, <1>19, <1>20, <1>21,
     <1>22, <1>23, <1>24, <1>25, <1>26
     DEF Next, Step

\* Calls and their outcome.
LEMMA StepDone ==
    ASSUME TypeOK, CallersInv, OwnerInv, OneLeaderPerSlot, DoneInv,
           [Next]_vars
    PROVE  DoneInv'
<1> USE DEF TypeOK, CallersInv, OwnerInv, OneLeaderPerSlot, DoneInv, Leading
<1>1. ASSUME NEW c \in Callers, NEW s \in Slots, Invoke(c, s) PROVE DoneInv'
  BY <1>1, NilAssumption
     DEF Invoke, Goto, heapVars
<1>2. ASSUME NEW c \in Callers, LookupHit(c) PROVE DoneInv'
  BY <1>2, NilAssumption
     DEF LookupHit, Return, Goto, heapVars
<1>3. ASSUME NEW c \in Callers, LookupMiss(c) PROVE DoneInv'
  BY <1>3, NilAssumption
     DEF LookupMiss, Goto, heapVars
<1>4. ASSUME NEW c \in Callers, Lead(c) PROVE DoneInv'
  BY <1>4, NilAssumption
     DEF Lead, Fresh, Goto
<1>5. ASSUME NEW c \in Callers, Join(c) PROVE DoneInv'
  BY <1>5, NilAssumption
     DEF Join, Goto, heapVars
<1>6. ASSUME NEW c \in Callers, Wake(c) PROVE DoneInv'
  BY <1>6, NilAssumption
     DEF Wake, Return, Goto, heapVars
<1>7. ASSUME NEW c \in Callers, RecheckHit(c) PROVE DoneInv'
  BY <1>7, NilAssumption
     DEF RecheckHit, Goto, heapVars
<1>8. ASSUME NEW c \in Callers, RecheckMiss(c) PROVE DoneInv'
  BY <1>8, NilAssumption
     DEF RecheckMiss, Goto, heapVars
<1>9. ASSUME NEW c \in Callers, DBGetHit(c) PROVE DoneInv'
  BY <1>9, NilAssumption
     DEF DBGetHit, Goto, heapVars
<1>10. ASSUME NEW c \in Callers, DBGetMiss(c) PROVE DoneInv'
  BY <1>10, NilAssumption
     DEF DBGetMiss, Goto, heapVars
<1>11. ASSUME NEW c \in Callers, FillFromDB(c) PROVE DoneInv'
  BY <1>11, NilAssumption
     DEF FillFromDB, SetMemory, Goto, heapVars
<1>12. ASSUME NEW c \in Callers, StoreMemory(c) PROVE DoneInv'
  BY <1>12, NilAssumption
     DEF StoreMemory, SetMemory, Goto, heapVars
<1>13. ASSUME NEW c \in Callers, InspectBegin(c) PROVE DoneInv'
  BY <1>13, NilAssumption
     DEF InspectBegin, Goto, heapVars
<1>14. ASSUME NEW c \in Callers, InspectRefused(c) PROVE DoneInv'
  BY <1>14, NilAssumption
     DEF InspectRefused, Goto, heapVars
<1>15. ASSUME NEW c \in Callers, InspectOk(c) PROVE DoneInv'
  BY <1>15, NilAssumption
     DEF InspectOk, Goto, heapVars
<1>16. ASSUME NEW c \in Callers, InspectErr(c) PROVE DoneInv'
  BY <1>16, NilAssumption
     DEF InspectErr, Goto, heapVars
<1>17. ASSUME NEW c \in Callers, InspectPanic(c) PROVE DoneInv'
  BY <1>17, NilAssumption
     DEF InspectPanic, Goto, heapVars
<1>18. ASSUME NEW c \in Callers, DBSetOk(c) PROVE DoneInv'
  BY <1>18, NilAssumption
     DEF DBSetOk, Goto, heapVars
<1>19. ASSUME NEW c \in Callers, DBSetFail(c) PROVE DoneInv'
  BY <1>19, NilAssumption
     DEF DBSetFail, Goto, heapVars
<1>20. ASSUME NEW c \in Callers, Publish(c) PROVE DoneInv'
  BY <1>20, NilAssumption
     DEF Publish, Goto
<1>21. ASSUME NEW c \in Callers, Remove(c) PROVE DoneInv'
  BY <1>21, NilAssumption
     DEF Remove, Return, Goto, heapVars
<1>22. ASSUME NEW c \in Callers, Consume(c) PROVE DoneInv'
  BY <1>22, NilAssumption
     DEF Consume, Goto, heapVars
<1>23. ASSUME NEW c \in Callers, CancelContext(c) PROVE DoneInv'
  BY <1>23, NilAssumption
     DEF CancelContext, heapVars
<1>24. ASSUME Restart PROVE DoneInv'
  BY <1>24, NilAssumption
     DEF Restart
<1>25. CASE UNCHANGED vars
  BY <1>25
     DEF vars
<1>26. ASSUME NEW c \in Callers, NewContext(c) PROVE DoneInv'
  BY <1>26 DEF NewContext, heapVars
<1> QED
  BY <1>1, <1>2, <1>3, <1>4, <1>5, <1>6, <1>7, <1>8, <1>9, <1>10, <1>11,
     <1>12, <1>13, <1>14, <1>15, <1>16, <1>17, <1>18, <1>19, <1>20, <1>21,
     <1>22, <1>23, <1>24, <1>25, <1>26
     DEF Next, Step


\* What a waiter holds stays good: its leader publishes before it deletes.
LEMMA StepWaiter ==
    ASSUME TypeOK, CallersInv, OwnerInv, OneLeaderPerSlot, DoneInv,
           LayersInv, ResultInv, WaiterInv, [Next]_vars
    PROVE  WaiterInv'
<1> USE DEF TypeOK, CallersInv, OwnerInv, OneLeaderPerSlot, DoneInv,
            LayersInv, ResultInv, WaiterInv, Leading, Tellable, Results
<1>1. ASSUME NEW c \in Callers, NEW s \in Slots, Invoke(c, s)
      PROVE  WaiterInv'
  BY <1>1, NilAssumption, DocumentsTyped
     DEF Invoke, Goto, heapVars
<1>2. ASSUME NEW c \in Callers, LookupHit(c) PROVE WaiterInv'
  BY <1>2, NilAssumption, DocumentsTyped
     DEF LookupHit, Return, Goto, heapVars
<1>3. ASSUME NEW c \in Callers, LookupMiss(c) PROVE WaiterInv'
  BY <1>3, NilAssumption, DocumentsTyped
     DEF LookupMiss, Goto, heapVars
<1>4. ASSUME NEW c \in Callers, Lead(c) PROVE WaiterInv'
  BY <1>4, NilAssumption, DocumentsTyped
     DEF Lead, Fresh, Goto
<1>5. ASSUME NEW c \in Callers, Join(c) PROVE WaiterInv'
  BY <1>5, NilAssumption, DocumentsTyped
     DEF Join, Goto, heapVars
<1>6. ASSUME NEW c \in Callers, Wake(c) PROVE WaiterInv'
  BY <1>6, NilAssumption, DocumentsTyped
     DEF Wake, Return, Goto, heapVars
<1>7. ASSUME NEW c \in Callers, RecheckHit(c) PROVE WaiterInv'
  BY <1>7, NilAssumption, DocumentsTyped
     DEF RecheckHit, Goto, heapVars
<1>8. ASSUME NEW c \in Callers, RecheckMiss(c) PROVE WaiterInv'
  BY <1>8, NilAssumption, DocumentsTyped
     DEF RecheckMiss, Goto, heapVars
<1>9. ASSUME NEW c \in Callers, DBGetHit(c) PROVE WaiterInv'
  BY <1>9, NilAssumption, DocumentsTyped
     DEF DBGetHit, Goto, heapVars
<1>10. ASSUME NEW c \in Callers, DBGetMiss(c) PROVE WaiterInv'
  BY <1>10, NilAssumption, DocumentsTyped
     DEF DBGetMiss, Goto, heapVars
<1>11. ASSUME NEW c \in Callers, FillFromDB(c) PROVE WaiterInv'
  BY <1>11, NilAssumption, DocumentsTyped
     DEF FillFromDB, SetMemory, Goto, heapVars
<1>12. ASSUME NEW c \in Callers, StoreMemory(c) PROVE WaiterInv'
  BY <1>12, NilAssumption, DocumentsTyped
     DEF StoreMemory, SetMemory, Goto, heapVars
<1>13. ASSUME NEW c \in Callers, InspectBegin(c) PROVE WaiterInv'
  BY <1>13, NilAssumption, DocumentsTyped
     DEF InspectBegin, Goto, heapVars
<1>14. ASSUME NEW c \in Callers, InspectRefused(c) PROVE WaiterInv'
  BY <1>14, NilAssumption, DocumentsTyped
     DEF InspectRefused, Goto, heapVars
<1>15. ASSUME NEW c \in Callers, InspectOk(c) PROVE WaiterInv'
  BY <1>15, NilAssumption, DocumentsTyped
     DEF InspectOk, Goto, heapVars
<1>16. ASSUME NEW c \in Callers, InspectErr(c) PROVE WaiterInv'
  BY <1>16, NilAssumption, DocumentsTyped
     DEF InspectErr, Goto, heapVars
<1>17. ASSUME NEW c \in Callers, InspectPanic(c) PROVE WaiterInv'
  BY <1>17, NilAssumption, DocumentsTyped
     DEF InspectPanic, Goto, heapVars
<1>18. ASSUME NEW c \in Callers, DBSetOk(c) PROVE WaiterInv'
  BY <1>18, NilAssumption, DocumentsTyped
     DEF DBSetOk, Goto, heapVars
<1>19. ASSUME NEW c \in Callers, DBSetFail(c) PROVE WaiterInv'
  BY <1>19, NilAssumption, DocumentsTyped
     DEF DBSetFail, Goto, heapVars
<1>20. ASSUME NEW c \in Callers, Publish(c) PROVE WaiterInv'
  BY <1>20, NilAssumption, DocumentsTyped
     DEF Publish, Goto
<1>21. ASSUME NEW c \in Callers, Remove(c) PROVE WaiterInv'
  BY <1>21, NilAssumption, DocumentsTyped
     DEF Remove, Return, Goto, heapVars
<1>22. ASSUME NEW c \in Callers, Consume(c) PROVE WaiterInv'
  BY <1>22, NilAssumption, DocumentsTyped
     DEF Consume, Goto, heapVars
<1>23. ASSUME NEW c \in Callers, CancelContext(c) PROVE WaiterInv'
  BY <1>23, NilAssumption, DocumentsTyped
     DEF CancelContext, heapVars
<1>24. ASSUME Restart PROVE WaiterInv'
  BY <1>24, NilAssumption, DocumentsTyped
     DEF Restart
<1>25. CASE UNCHANGED vars
  BY <1>25
     DEF vars
<1>26. ASSUME NEW c \in Callers, NewContext(c) PROVE WaiterInv'
  BY <1>26 DEF NewContext, heapVars
<1> QED
  BY <1>1, <1>2, <1>3, <1>4, <1>5, <1>6, <1>7, <1>8, <1>9, <1>10, <1>11,
     <1>12, <1>13, <1>14, <1>15, <1>16, <1>17, <1>18, <1>19, <1>20, <1>21,
     <1>22, <1>23, <1>24, <1>25, <1>26
     DEF Next, Step

\* The two layers keep a document under the slot it is about.
LEMMA StepLayers ==
    ASSUME TypeOK, CallersInv, LayersInv, ResultInv, [Next]_vars
    PROVE  LayersInv'
<1> USE DEF TypeOK, CallersInv, LayersInv, ResultInv
<1>1. ASSUME NEW c \in Callers, NEW s \in Slots, Invoke(c, s)
      PROVE  LayersInv'
  BY <1>1, NilAssumption, DocumentsTyped
     DEF Invoke, Goto, heapVars
<1>2. ASSUME NEW c \in Callers, LookupHit(c) PROVE LayersInv'
  BY <1>2, NilAssumption, DocumentsTyped
     DEF LookupHit, Return, Goto, heapVars
<1>3. ASSUME NEW c \in Callers, LookupMiss(c) PROVE LayersInv'
  BY <1>3, NilAssumption, DocumentsTyped
     DEF LookupMiss, Goto, heapVars
<1>4. ASSUME NEW c \in Callers, Lead(c) PROVE LayersInv'
  BY <1>4, NilAssumption, DocumentsTyped
     DEF Lead, Fresh, Goto
<1>5. ASSUME NEW c \in Callers, Join(c) PROVE LayersInv'
  BY <1>5, NilAssumption, DocumentsTyped
     DEF Join, Goto, heapVars
<1>6. ASSUME NEW c \in Callers, Wake(c) PROVE LayersInv'
  BY <1>6, NilAssumption, DocumentsTyped
     DEF Wake, Return, Goto, heapVars
<1>7. ASSUME NEW c \in Callers, RecheckHit(c) PROVE LayersInv'
  BY <1>7, NilAssumption, DocumentsTyped
     DEF RecheckHit, Goto, heapVars
<1>8. ASSUME NEW c \in Callers, RecheckMiss(c) PROVE LayersInv'
  BY <1>8, NilAssumption, DocumentsTyped
     DEF RecheckMiss, Goto, heapVars
<1>9. ASSUME NEW c \in Callers, DBGetHit(c) PROVE LayersInv'
  BY <1>9, NilAssumption, DocumentsTyped
     DEF DBGetHit, Goto, heapVars
<1>10. ASSUME NEW c \in Callers, DBGetMiss(c) PROVE LayersInv'
  BY <1>10, NilAssumption, DocumentsTyped
     DEF DBGetMiss, Goto, heapVars
<1>11. ASSUME NEW c \in Callers, FillFromDB(c) PROVE LayersInv'
  BY <1>11, NilAssumption, DocumentsTyped
     DEF FillFromDB, SetMemory, Goto, heapVars
<1>12. ASSUME NEW c \in Callers, StoreMemory(c) PROVE LayersInv'
  BY <1>12, NilAssumption, DocumentsTyped
     DEF StoreMemory, SetMemory, Goto, heapVars
<1>13. ASSUME NEW c \in Callers, InspectBegin(c) PROVE LayersInv'
  BY <1>13, NilAssumption, DocumentsTyped
     DEF InspectBegin, Goto, heapVars
<1>14. ASSUME NEW c \in Callers, InspectRefused(c) PROVE LayersInv'
  BY <1>14, NilAssumption, DocumentsTyped
     DEF InspectRefused, Goto, heapVars
<1>15. ASSUME NEW c \in Callers, InspectOk(c) PROVE LayersInv'
  BY <1>15, NilAssumption, DocumentsTyped
     DEF InspectOk, Goto, heapVars
<1>16. ASSUME NEW c \in Callers, InspectErr(c) PROVE LayersInv'
  BY <1>16, NilAssumption, DocumentsTyped
     DEF InspectErr, Goto, heapVars
<1>17. ASSUME NEW c \in Callers, InspectPanic(c) PROVE LayersInv'
  BY <1>17, NilAssumption, DocumentsTyped
     DEF InspectPanic, Goto, heapVars
<1>18. ASSUME NEW c \in Callers, DBSetOk(c) PROVE LayersInv'
  BY <1>18, NilAssumption, DocumentsTyped
     DEF DBSetOk, Goto, heapVars
<1>19. ASSUME NEW c \in Callers, DBSetFail(c) PROVE LayersInv'
  BY <1>19, NilAssumption, DocumentsTyped
     DEF DBSetFail, Goto, heapVars
<1>20. ASSUME NEW c \in Callers, Publish(c) PROVE LayersInv'
  BY <1>20, NilAssumption, DocumentsTyped
     DEF Publish, Goto
<1>21. ASSUME NEW c \in Callers, Remove(c) PROVE LayersInv'
  BY <1>21, NilAssumption, DocumentsTyped
     DEF Remove, Return, Goto, heapVars
<1>22. ASSUME NEW c \in Callers, Consume(c) PROVE LayersInv'
  BY <1>22, NilAssumption, DocumentsTyped
     DEF Consume, Goto, heapVars
<1>23. ASSUME NEW c \in Callers, CancelContext(c) PROVE LayersInv'
  BY <1>23, NilAssumption, DocumentsTyped
     DEF CancelContext, heapVars
<1>24. ASSUME Restart PROVE LayersInv'
  BY <1>24, NilAssumption, DocumentsTyped
     DEF Restart
<1>25. CASE UNCHANGED vars
  BY <1>25
     DEF vars
<1>26. ASSUME NEW c \in Callers, NewContext(c) PROVE LayersInv'
  BY <1>26 DEF NewContext, heapVars
<1> QED
  BY <1>1, <1>2, <1>3, <1>4, <1>5, <1>6, <1>7, <1>8, <1>9, <1>10, <1>11,
     <1>12, <1>13, <1>14, <1>15, <1>16, <1>17, <1>18, <1>19, <1>20, <1>21,
     <1>22, <1>23, <1>24, <1>25, <1>26
     DEF Next, Step

\* A leader's result; the memory cache is written once.
LEMMA StepResult ==
    ASSUME TypeOK, CallersInv, OwnerInv, OneLeaderPerSlot, DoneInv,
           LayersInv, ResultInv, WaiterInv, [Next]_vars
    PROVE  ResultInv'
<1> USE DEF TypeOK, CallersInv, OwnerInv, OneLeaderPerSlot, DoneInv,
            LayersInv, ResultInv, WaiterInv, Leading, Tellable, Results
<1>1. ASSUME NEW c \in Callers, NEW s \in Slots, Invoke(c, s)
      PROVE  ResultInv'
  BY <1>1, NilAssumption, DocumentsTyped
     DEF Invoke, Goto, heapVars
<1>2. ASSUME NEW c \in Callers, LookupHit(c) PROVE ResultInv'
  BY <1>2, NilAssumption, DocumentsTyped
     DEF LookupHit, Return, Goto, heapVars
<1>3. ASSUME NEW c \in Callers, LookupMiss(c) PROVE ResultInv'
  BY <1>3, NilAssumption, DocumentsTyped
     DEF LookupMiss, Goto, heapVars
<1>4. ASSUME NEW c \in Callers, Lead(c) PROVE ResultInv'
  BY <1>4, NilAssumption, DocumentsTyped
     DEF Lead, Fresh, Goto
<1>5. ASSUME NEW c \in Callers, Join(c) PROVE ResultInv'
  BY <1>5, NilAssumption, DocumentsTyped
     DEF Join, Goto, heapVars
<1>6. ASSUME NEW c \in Callers, Wake(c) PROVE ResultInv'
  BY <1>6, NilAssumption, DocumentsTyped
     DEF Wake, Return, Goto, heapVars
<1>7. ASSUME NEW c \in Callers, RecheckHit(c) PROVE ResultInv'
  BY <1>7, NilAssumption, DocumentsTyped
     DEF RecheckHit, Goto, heapVars
<1>8. ASSUME NEW c \in Callers, RecheckMiss(c) PROVE ResultInv'
  BY <1>8, NilAssumption, DocumentsTyped
     DEF RecheckMiss, Goto, heapVars
<1>9. ASSUME NEW c \in Callers, DBGetHit(c) PROVE ResultInv'
  BY <1>9, NilAssumption, DocumentsTyped
     DEF DBGetHit, Goto, heapVars
<1>10. ASSUME NEW c \in Callers, DBGetMiss(c) PROVE ResultInv'
  BY <1>10, NilAssumption, DocumentsTyped
     DEF DBGetMiss, Goto, heapVars
<1>11. ASSUME NEW c \in Callers, FillFromDB(c) PROVE ResultInv'
  BY <1>11, NilAssumption, DocumentsTyped
     DEF FillFromDB, SetMemory, Goto, heapVars
<1>12. ASSUME NEW c \in Callers, StoreMemory(c) PROVE ResultInv'
  BY <1>12, NilAssumption, DocumentsTyped
     DEF StoreMemory, SetMemory, Goto, heapVars
<1>13. ASSUME NEW c \in Callers, InspectBegin(c) PROVE ResultInv'
  BY <1>13, NilAssumption, DocumentsTyped
     DEF InspectBegin, Goto, heapVars
<1>14. ASSUME NEW c \in Callers, InspectRefused(c) PROVE ResultInv'
  BY <1>14, NilAssumption, ModeAssumption, DocumentsTyped
     DEF InspectRefused, Goto, heapVars
<1>15. ASSUME NEW c \in Callers, InspectOk(c) PROVE ResultInv'
  BY <1>15, NilAssumption, DocumentsTyped
     DEF InspectOk, Goto, heapVars
<1>16. ASSUME NEW c \in Callers, InspectErr(c) PROVE ResultInv'
  BY <1>16, NilAssumption, DocumentsTyped
     DEF InspectErr, Goto, heapVars
<1>17. ASSUME NEW c \in Callers, InspectPanic(c) PROVE ResultInv'
  BY <1>17, NilAssumption, DocumentsTyped
     DEF InspectPanic, Goto, heapVars
<1>18. ASSUME NEW c \in Callers, DBSetOk(c) PROVE ResultInv'
  BY <1>18, NilAssumption, DocumentsTyped
     DEF DBSetOk, Goto, heapVars
<1>19. ASSUME NEW c \in Callers, DBSetFail(c) PROVE ResultInv'
  BY <1>19, NilAssumption, DocumentsTyped
     DEF DBSetFail, Goto, heapVars
<1>20. ASSUME NEW c \in Callers, Publish(c) PROVE ResultInv'
  BY <1>20, NilAssumption, DocumentsTyped
     DEF Publish, Goto
<1>21. ASSUME NEW c \in Callers, Remove(c) PROVE ResultInv'
  BY <1>21, NilAssumption, DocumentsTyped
     DEF Remove, Return, Goto, heapVars
<1>22. ASSUME NEW c \in Callers, Consume(c) PROVE ResultInv'
  BY <1>22, NilAssumption, DocumentsTyped
     DEF Consume, Goto, heapVars
<1>23. ASSUME NEW c \in Callers, CancelContext(c) PROVE ResultInv'
  BY <1>23, NilAssumption, DocumentsTyped
     DEF CancelContext, heapVars
<1>24. ASSUME Restart PROVE ResultInv'
  BY <1>24, NilAssumption, DocumentsTyped
     DEF Restart
<1>25. CASE UNCHANGED vars
  BY <1>25
     DEF vars
<1>26. ASSUME NEW c \in Callers, NewContext(c) PROVE ResultInv'
  BY <1>26 DEF NewContext, heapVars
<1> QED
  BY <1>1, <1>2, <1>3, <1>4, <1>5, <1>6, <1>7, <1>8, <1>9, <1>10, <1>11,
     <1>12, <1>13, <1>14, <1>15, <1>16, <1>17, <1>18, <1>19, <1>20, <1>21,
     <1>22, <1>23, <1>24, <1>25, <1>26
     DEF Next, Step

----------------------------------------------------------------------------
(* The theorems. *)

\* A process that has just been started meets the inductive invariant.
LEMMA InitIInv == Init => IInv
<1> SUFFICES ASSUME Init PROVE IInv
  OBVIOUS
<1>1. TypeOK
  BY InitTyped
<1> QED
  BY <1>1, NilAssumption
     DEF Init, IInv, CallersInv, OwnerInv, OneLeaderPerSlot, DoneInv,
         WaiterInv, LayersInv, ResultInv, Leading

\* Every step keeps the inductive invariant.
LEMMA StepIInv ==
    ASSUME IInv, [Next]_vars
    PROVE  IInv'
<1> USE DEF IInv
<1>1. TypeOK'
  BY StepTyped
<1>2. CallersInv'
  BY StepCallers
<1>3. OwnerInv' /\ OneLeaderPerSlot'
  BY StepOwner, StepOneLeader
<1>4. DoneInv'
  BY StepDone
<1>5. WaiterInv'
  BY StepWaiter
<1>6. LayersInv' /\ ResultInv'
  BY StepLayers, StepResult
<1> QED
  BY <1>1, <1>2, <1>3, <1>4, <1>5, <1>6

\* The inductive invariant: entries, waiters, caches and results fit together
\* in every state the inspector can reach.
THEOREM Invariance == Spec => []IInv
<1>1. Init => IInv
  BY InitIInv
<1>2. IInv /\ [Next]_vars => IInv'
  BY StepIInv
<1> QED
  BY <1>1, <1>2, PTL DEF Spec

\* Every variable of the inspector stays in its type.
THEOREM TypeCorrect == Spec => []TypeOK
<1>1. IInv => TypeOK
  BY DEF IInv
<1> QED
  BY <1>1, Invariance, PTL

\* inflightTracker.do lets one goroutine at a time inspect a snapshot.
THEOREM OneLeader == Spec => []OneLeaderPerSlot
<1>1. IInv => OneLeaderPerSlot
  BY DEF IInv
<1> QED
  BY <1>1, Invariance, PTL

\* An engine runs only for a snapshot whose document is not in memory.
THEOREM OnlyOnMiss == Spec => []InspectOnlyOnMiss
<1>1. IInv => InspectOnlyOnMiss
  BY DEF IInv, ResultInv, InspectOnlyOnMiss
<1> QED
  BY <1>1, Invariance, PTL

\* Whoever is told a document is told the one in the memory cache.
THEOREM Agreement == Spec => []AnswersAgree
<1>1. IInv => AnswersAgree
  BY NilAssumption
     DEF IInv, ResultInv, Tellable, AnswersAgree, Documents, AllDocuments
<1> QED
  BY <1>1, Invariance, PTL

\* Whoever joins a call joins it before its leader has left do.
THEOREM SharedOnlyWhileLed == Spec => SharedWhileLed
<1> DEFINE Led(c) ==
        \E l \in Callers :
            pc[l] \in Leading /\ slot[l] = slot[c] /\ call[l] = call'[c]
<1>1. ASSUME IInv, Next, NEW c \in Callers, pc[c] = "enter", pc'[c] = "waiting"
      PROVE  Led(c)
  <2>1. Join(c)
    BY <1>1
       DEF IInv, TypeOK, Next, Step, Goto, Return, Invoke, LookupHit,
           LookupMiss, Lead, Join, Wake, RecheckHit, RecheckMiss, DBGetHit,
           DBGetMiss, SetMemory, FillFromDB, StoreMemory, InspectBegin,
           InspectRefused, InspectOk, InspectErr, InspectPanic, DBSetOk,
           DBSetFail, Publish, Remove, Consume, CancelContext, NewContext,
           Restart
  <2>2. slot[c] \in Slots /\ calls[slot[c]] # Nil /\ call'[c] = calls[slot[c]]
    BY <1>1, <2>1 DEF IInv, CallersInv, TypeOK, Join
  <2>3. PICK l \in Callers : pc[l] \in Leading /\ slot[l] = slot[c]
    BY <1>1, <2>2 DEF IInv, OwnerInv
  <2> QED
    BY <1>1, <2>2, <2>3 DEF IInv, OwnerInv
<1>2. IInv /\ [Next]_vars
        => [\A c \in Callers : pc[c] = "enter" /\ pc'[c] = "waiting"
               => Led(c)]_vars
  BY <1>1
<1> QED
  BY <1>2, Invariance, PTL DEF Spec, SharedWhileLed

\* A step that does not start a new process leaves a document in the memory
\* cache alone.
LEMMA StepWriteOnce ==
    ASSUME IInv, [Next]_vars, restarts' = restarts,
           NEW s \in Slots, memoryCache[s] # Nil
    PROVE  memoryCache'[s] = memoryCache[s]
<1>1. ASSUME NEW c \in Callers, FillFromDB(c) \/ StoreMemory(c)
      PROVE  memoryCache'[s] = memoryCache[s]
  <2>1. memoryCache[slot[c]] = Nil
    BY <1>1 DEF IInv, ResultInv, FillFromDB, StoreMemory, SetMemory, Goto
  <2> QED
    BY <1>1, <2>1 DEF FillFromDB, StoreMemory, SetMemory, IInv, TypeOK
<1>2. ~Restart
  BY DEF Restart, IInv, TypeOK
<1>3. CASE UNCHANGED memoryCache
  BY <1>3
<1> QED
  BY <1>1, <1>2, <1>3
     DEF Next, Step, vars, Invoke, LookupHit, LookupMiss, Lead, Join, Wake,
         RecheckHit, RecheckMiss, DBGetHit, DBGetMiss, InspectBegin,
         InspectRefused, InspectOk, InspectErr, InspectPanic, DBSetOk,
         DBSetFail, Publish, Remove, Consume, CancelContext, NewContext

\* The document of a snapshot never changes within the life of a process.
THEOREM WriteOnce == Spec => MemoryWriteOnce
<1>1. IInv /\ [Next]_vars
        => [\A s \in Slots : memoryCache[s] # Nil /\ restarts' = restarts
               => memoryCache'[s] = memoryCache[s]]_vars
  BY StepWriteOnce
<1> QED
  BY <1>1, Invariance, PTL DEF Spec, MemoryWriteOnce

NoPanic == \A c \in Callers : pc[c] # "panicked"

\* As long as no engine panics, whoever waits in do waits for somebody who
\* still works, or for a result that is there.
THEOREM NobodyWaitsInVain == ~MayPanic => (Spec => []WaitersHaveExecutor)
<1> SUFFICES ASSUME ~MayPanic PROVE Spec => []WaitersHaveExecutor
  OBVIOUS
<1>1. Init => NoPanic
  BY DEF Init, NoPanic
<1>2. IInv /\ NoPanic /\ [Next]_vars => NoPanic'
  <2> SUFFICES ASSUME IInv, NoPanic, [Next]_vars PROVE NoPanic'
    OBVIOUS
  <2> USE DEF IInv, TypeOK, NoPanic, Goto
  <2>1. ASSUME NEW c \in Callers, Step(c) PROVE NoPanic'
    BY <2>1
       DEF Step, LookupHit, LookupMiss, Lead, Join, Wake, RecheckHit,
           RecheckMiss, DBGetHit, DBGetMiss, FillFromDB, StoreMemory,
           SetMemory, InspectBegin, InspectRefused, InspectOk, InspectErr,
           InspectPanic, DBSetOk, DBSetFail, Publish, Remove, Return
  <2> QED
    BY <2>1 DEF Next, vars, Invoke, Consume, CancelContext, NewContext, Restart
<1>3. IInv /\ NoPanic => WaitersHaveExecutor
  <2> SUFFICES ASSUME IInv, NoPanic, NEW c \in Callers,
                      pc[c] = "waiting", ~done[call[c]]
               PROVE  \E l \in Callers : pc[l] \in Running /\ call[l] = call[c]
    BY DEF WaitersHaveExecutor
  <2>1. calls[slot[c]] = call[c] /\ calls[slot[c]] # Nil /\ slot[c] \in Slots
    BY NilAssumption DEF IInv, WaiterInv, CallersInv
  <2>2. PICK l \in Callers : pc[l] \in Leading /\ slot[l] = slot[c]
    BY <2>1 DEF IInv, OwnerInv
  <2> QED
    BY <2>1, <2>2 DEF IInv, OwnerInv, NoPanic, Running
<1> QED
  BY <1>1, <1>2, <1>3, Invariance, PTL DEF Spec

----------------------------------------------------------------------------
(* The inspector implements InspectionService: a step is a step of the     *)
(* service or changes nothing the service knows of.                        *)

\* What the callers have been told, as ImplementsService maps it.
told == [c \in Callers |-> IF pc[c] = "returned" THEN result[c] ELSE Nil]

\* A process that has just been started has promised nothing yet.
LEMMA InitRefines == Init => Service!ServiceInit
BY DEF Init, Service!ServiceInit

\* Every step of the inspector is a step of the service, or none.
LEMMA StepRefines ==
    ASSUME IInv, [Next]_vars
    PROVE  [Service!ServiceNext]_(Service!serviceVars)
<1> USE NilAssumption, DocumentsTyped
    DEF IInv, TypeOK, CallersInv, ResultInv, Tellable, Results, Goto, heapVars
<1> DEFINE S == Service!ServiceNext \/ UNCHANGED Service!serviceVars
<1> SUFFICES S
  OBVIOUS
<1>1. ASSUME NEW c \in Callers, NEW s \in Slots, Invoke(c, s) PROVE S
  <2>1. Service!Ask(c, s)
    BY <1>1 DEF Invoke, Service!Ask
  <2> QED
    BY <2>1 DEF Service!ServiceNext
<1>2. ASSUME NEW c \in Callers, LookupHit(c) PROVE S
  <2>1. Service!Tell(c)
    BY <1>2 DEF LookupHit, Return, Service!Tell, Service!Pending
  <2> QED
    BY <2>1 DEF Service!ServiceNext
<1>3. ASSUME NEW c \in Callers, Wake(c) PROVE S
  <2>1. Tellable(slot[c], outcome[call[c]])
    BY <1>3 DEF Wake, WaiterInv
  <2>2. CASE outcome[call[c]] \in Errors
    <3>1. told' = [told EXCEPT ![c] = outcome[call[c]]]
      BY <1>3 DEF told, Wake, Return
    <3>2. told[c] = Nil /\ slot[c] # Nil /\ UNCHANGED <<memoryCache, slot>>
      BY <1>3 DEF told, Wake
    <3>3. Service!Refuse(c)
      BY <2>2, <3>1, <3>2 DEF told, Service!Refuse, Service!Pending
    <3> QED
      BY <3>3 DEF Service!ServiceNext
  <2>3. CASE outcome[call[c]] = memoryCache[slot[c]] /\ memoryCache[slot[c]] # Nil
    <3>1. Service!Tell(c)
      BY <1>3, <2>3, ZenonT(30) DEF Wake, Return, Service!Tell, Service!Pending
    <3> QED
      BY <3>1 DEF Service!ServiceNext
  <2> QED
    BY <1>3, <2>1, <2>2, <2>3 DEF Wake
<1>4. ASSUME NEW c \in Callers, FillFromDB(c) \/ StoreMemory(c) PROVE S
  <2>1. Service!Settle(c)
    BY <1>4
       DEF FillFromDB, StoreMemory, SetMemory, Service!Settle,
           Service!Pending, Documents, Service!DocumentsOf
  <2> QED
    BY <2>1 DEF Service!ServiceNext
<1>5. ASSUME NEW c \in Callers, Remove(c) PROVE S
  <2>1. told' = [told EXCEPT ![c] = result[c]]
    BY <1>5 DEF told, Remove, Return
  <2>2. told[c] = Nil /\ slot[c] # Nil /\ UNCHANGED <<memoryCache, slot>>
    BY <1>5 DEF told, Remove
  <2>3. CASE result[c] \in Errors
    <3>1. Service!Refuse(c)
      BY <2>1, <2>2, <2>3 DEF told, Service!Refuse, Service!Pending
    <3> QED
      BY <3>1 DEF Service!ServiceNext
  <2>4. CASE result[c] = memoryCache[slot[c]] /\ memoryCache[slot[c]] # Nil
    <3>1. Service!Tell(c)
      BY <2>1, <2>2, <2>4 DEF told, Service!Tell, Service!Pending
    <3> QED
      BY <3>1 DEF Service!ServiceNext
  <2> QED
    BY <1>5, <2>3, <2>4 DEF Remove, Return
<1>6. ASSUME NEW c \in Callers, Consume(c) PROVE S
  <2>1. told' = [told EXCEPT ![c] = Nil]
    BY <1>6 DEF told, Consume
  <2>2. told[c] # Nil /\ slot' = [slot EXCEPT ![c] = Nil]
    BY <1>6 DEF told, Consume
  <2>3. Service!Take(c)
    BY <1>6, <2>1, <2>2 DEF told, Consume, Service!Take
  <2> QED
    BY <2>3 DEF Service!ServiceNext
<1>7. ASSUME Restart PROVE S
  BY <1>7 DEF Restart, Service!ServiceNext, Service!Reset
<1>8. ASSUME NEW c \in Callers, LookupMiss(c) PROVE S
  BY <1>8 DEF LookupMiss, Service!serviceVars
<1>9. ASSUME NEW c \in Callers, Lead(c) PROVE S
  BY <1>9 DEF Lead, Service!serviceVars
<1>10. ASSUME NEW c \in Callers, Join(c) PROVE S
  BY <1>10 DEF Join, Service!serviceVars
<1>11. ASSUME NEW c \in Callers, RecheckHit(c) PROVE S
  BY <1>11 DEF RecheckHit, Service!serviceVars
<1>12. ASSUME NEW c \in Callers, RecheckMiss(c) PROVE S
  BY <1>12 DEF RecheckMiss, Service!serviceVars
<1>13. ASSUME NEW c \in Callers, DBGetHit(c) PROVE S
  BY <1>13 DEF DBGetHit, Service!serviceVars
<1>14. ASSUME NEW c \in Callers, DBGetMiss(c) PROVE S
  BY <1>14 DEF DBGetMiss, Service!serviceVars
<1>15. ASSUME NEW c \in Callers, InspectBegin(c) PROVE S
  BY <1>15 DEF InspectBegin, Service!serviceVars
<1>16. ASSUME NEW c \in Callers, InspectRefused(c) PROVE S
  BY <1>16 DEF InspectRefused, Service!serviceVars
<1>17. ASSUME NEW c \in Callers, InspectOk(c) PROVE S
  BY <1>17 DEF InspectOk, Service!serviceVars
<1>18. ASSUME NEW c \in Callers, InspectErr(c) PROVE S
  BY <1>18 DEF InspectErr, Service!serviceVars
<1>19. ASSUME NEW c \in Callers, InspectPanic(c) PROVE S
  BY <1>19 DEF InspectPanic, Service!serviceVars
<1>20. ASSUME NEW c \in Callers, DBSetOk(c) PROVE S
  BY <1>20 DEF DBSetOk, Service!serviceVars
<1>21. ASSUME NEW c \in Callers, DBSetFail(c) PROVE S
  BY <1>21 DEF DBSetFail, Service!serviceVars
<1>22. ASSUME NEW c \in Callers, Publish(c) PROVE S
  BY <1>22 DEF Publish, Service!serviceVars
<1>23. ASSUME NEW c \in Callers, CancelContext(c) PROVE S
  BY <1>23 DEF CancelContext, Service!serviceVars
<1>24. CASE UNCHANGED vars
  BY <1>24 DEF vars, Service!serviceVars
<1>25. ASSUME NEW c \in Callers, NewContext(c) PROVE S
  BY <1>25 DEF NewContext, Service!serviceVars
<1> QED
  BY <1>1, <1>2, <1>3, <1>4, <1>5, <1>6, <1>7, <1>8, <1>9, <1>10, <1>11,
     <1>12, <1>13, <1>14, <1>15, <1>16, <1>17, <1>18, <1>19, <1>20, <1>21,
     <1>22, <1>23, <1>24, <1>25
     DEF Next, Step

\* The inspector, with its caches, tracker and DB, does what the service it
\* implements promises.
THEOREM Implements == Spec => ImplementsService
<1>1. Init => Service!ServiceInit
  BY InitRefines
<1>2. IInv /\ [Next]_vars => [Service!ServiceNext]_(Service!serviceVars)
  BY StepRefines
<1> QED
  BY <1>1, <1>2, Invariance, PTL
     DEF Spec, ImplementsService, Service!ServiceSpec

----------------------------------------------------------------------------
(* The two layers, with a DB whose calls fail only under a context that is *)
(* over.                                                                   *)

\* Whoever may still store a document has asked the DB, which had none, or
\* has a context under which no engine starts; nobody else stores for the
\* same slot meanwhile.
DBInv ==
    /\ LayersAgree
    /\ ~HasDB => \A s \in Slots : db[s] = Nil
    /\ \A c \in Callers :
        /\ pc[c] \in {"dbGet", "fill", "dbSet"} => HasDB
        /\ pc[c] = "fill" => result[c] = db[slot[c]]
        /\ pc[c] = "begin" => db[slot[c]] = Nil \/ cancelled[c]
        /\ pc[c] \in {"inspecting", "store", "dbSet"} => db[slot[c]] = Nil

\* A context that is over stays so while its caller is in the inspector.
LEMMA StepDB ==
    ASSUME ~DBMayFail, IInv, DBInv, [Next]_vars
    PROVE  DBInv'
<1> USE NilAssumption DEF DBInv, LayersAgree, IInv, TypeOK, CallersInv, Leading
<1>1. ASSUME NEW c \in Callers, NEW s \in Slots, Invoke(c, s)
      PROVE  DBInv'
  BY <1>1 DEF Invoke, Goto
<1>2. ASSUME NEW c \in Callers,
             LookupHit(c) \/ LookupMiss(c) \/ Join(c) \/ Wake(c)
      PROVE  DBInv'
  BY <1>2 DEF LookupHit, LookupMiss, Join, Wake, Return, Goto
<1>3. ASSUME NEW c \in Callers, Lead(c) PROVE DBInv'
  BY <1>3 DEF Lead, Goto
<1>4. ASSUME NEW c \in Callers, RecheckHit(c) \/ RecheckMiss(c)
      PROVE  DBInv'
  BY <1>4 DEF RecheckHit, RecheckMiss, Goto
<1>5. ASSUME NEW c \in Callers, DBGetHit(c) \/ DBGetMiss(c) PROVE DBInv'
  BY <1>5 DEF DBGetHit, DBGetMiss, DBFails, Goto
<1>6. ASSUME NEW c \in Callers, FillFromDB(c) PROVE DBInv'
  BY <1>6 DEF FillFromDB, SetMemory, Goto
<1>7. ASSUME NEW c \in Callers, StoreMemory(c) PROVE DBInv'
  <2>1. db[slot[c]] = Nil
    BY <1>7 DEF StoreMemory, SetMemory, Goto
  <2> QED
    BY <1>7, <2>1 DEF StoreMemory, SetMemory, Goto
<1>8. ASSUME NEW c \in Callers,
             InspectBegin(c) \/ InspectRefused(c) \/ InspectOk(c)
                \/ InspectErr(c) \/ InspectPanic(c)
      PROVE  DBInv'
  BY <1>8
     DEF InspectBegin, InspectRefused, InspectOk, InspectErr, InspectPanic,
         Goto
<1>9. ASSUME NEW c \in Callers, DBSetOk(c) PROVE DBInv'
  <2>1. /\ HasDB /\ slot[c] \in Slots
        /\ result[c] = memoryCache[slot[c]]
        /\ \A d \in Callers \ {c} : pc[d] \in Leading => slot[d] # slot[c]
    BY <1>9 DEF DBSetOk, Goto, ResultInv, OneLeaderPerSlot
  <2> QED
    BY <1>9, <2>1 DEF DBSetOk, Goto
<1>10. ASSUME NEW c \in Callers, DBSetFail(c) PROVE DBInv'
  BY <1>10 DEF DBSetFail, Goto
<1>11. ASSUME NEW c \in Callers, Publish(c) \/ Remove(c) PROVE DBInv'
  BY <1>11 DEF Publish, Remove, Return, Goto
<1>12. ASSUME NEW c \in Callers, Consume(c) PROVE DBInv'
  BY <1>12 DEF Consume, Goto
<1>13. ASSUME NEW c \in Callers, CancelContext(c) \/ NewContext(c)
       PROVE  DBInv'
  BY <1>13 DEF CancelContext, NewContext
<1>14. CASE Restart
  BY <1>14 DEF Restart
<1>15. CASE UNCHANGED vars
  BY <1>15 DEF vars
<1> QED
  BY <1>1, <1>2, <1>3, <1>4, <1>5, <1>6, <1>7, <1>8, <1>9, <1>10, <1>11,
     <1>12, <1>13, <1>14, <1>15
     DEF Next, Step

\* A DB that fails only under a context that is over is never asked to store
\* what it has not been asked for: the inductive invariant behind the two
\* theorems after it.
THEOREM DBInvariance == ~DBMayFail => (Spec => []DBInv)
<1> SUFFICES ASSUME ~DBMayFail PROVE Spec => []DBInv
  OBVIOUS
<1>1. Init => DBInv
  BY NilAssumption DEF Init, DBInv, LayersAgree
<1>2. IInv /\ DBInv /\ [Next]_vars => DBInv'
  BY StepDB
<1> QED
  BY <1>1, <1>2, Invariance, PTL DEF Spec

\* Memory and DB never disagree, whatever is cancelled and restarted.
THEOREM LayersInAgreement == ~DBMayFail => (Spec => []LayersAgree)
<1> SUFFICES ASSUME ~DBMayFail PROVE Spec => []LayersAgree
  OBVIOUS
<1>1. DBInv => LayersAgree
  BY DEF DBInv
<1>2. Spec => []DBInv
  BY DBInvariance
<1> QED
  BY <1>1, <1>2, PTL

\* What is in the DB is never overwritten, across restarts too.
THEOREM DBWrittenOnce == ~DBMayFail => (Spec => DBWriteOnce)
<1> SUFFICES ASSUME ~DBMayFail PROVE Spec => DBWriteOnce
  OBVIOUS
<1>1. IInv /\ DBInv /\ [Next]_vars
        => [\A s \in Slots : db[s] # Nil => db'[s] = db[s]]_vars
  <2> SUFFICES ASSUME IInv, DBInv, Next, NEW s \in Slots, db[s] # Nil
               PROVE  db'[s] = db[s]
    BY DEF vars
  <2>1. ASSUME NEW c \in Callers, DBSetOk(c) PROVE db'[s] = db[s]
    BY <2>1 DEF DBSetOk, Goto, DBInv, IInv, TypeOK
  <2>2. CASE UNCHANGED db
    BY <2>2
  <2> QED
    BY <2>1, <2>2
       DEF Next, Step, Invoke, LookupHit, LookupMiss, Lead, Join, Wake,
           RecheckHit, RecheckMiss, DBGetHit, DBGetMiss, FillFromDB,
           StoreMemory, SetMemory, InspectBegin, InspectRefused, InspectOk,
           InspectErr, InspectPanic, DBSetFail, Publish, Remove, Consume,
           CancelContext, NewContext, Restart
<1>2. Spec => []DBInv
  BY DBInvariance
<1> QED
  BY <1>1, <1>2, Invariance, PTL DEF Spec, DBWriteOnce
=============================================================================
