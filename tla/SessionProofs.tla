--------------------------- MODULE SessionProofs ---------------------------
(***************************************************************************)
(* What is proved of SnapshotSession for any number of disks: whatever     *)
(* fails, and wherever, no nbdkit process and no socket file is left when  *)
(* attemptInspect returns, and the password files that are left are        *)
(* exactly of the kind PasswordsLeft describes; and after a number of      *)
(* steps known at its beginning Inspect has nothing left to do.            *)
(*                                                                         *)
(* The argument: a server that has not been waited for is always in the    *)
(* list of sessions of the present attempt and not yet closed, but for the *)
(* moment between its start and the check that follows; and a file         *)
(* outlives its server only between the two halves of Close.               *)
(***************************************************************************)
EXTENDS SnapshotSession, Integers, TLAPS

Alive(a, d) == server[<<a, d>>] \in {"running", "exited"}

\* Close is at work on a session.
InClose == pc \in {"grace", "killed", "unlink"}

\* Where the loop over the disks is.
LoopInv ==
    /\ pc \in {"query", "retry", "returned"} => over \subseteq {"caller"}
    /\ pc = "query" => sessions = 0 /\ disk = 1
    /\ pc \in {"pin", "dial", "password", "start", "settle"}
          => sessions = disk - 1
    /\ pc \in {"ready", "nap"} => sessions = disk
    /\ pc = "ready" => polls < MaxPolls
    /\ pc \in {"run", "engine"} => sessions = NumDisks /\ disk = NumDisks
    /\ pc \in {"close", "grace", "killed", "unlink", "retry", "returned"}
          => sessions \in {disk - 1, disk}
    /\ InClose => closing <= sessions
    /\ pc \in {"retry", "returned"} => closing > sessions
    /\ pc = "retry" => attempt = 1

\* The disks a server of this attempt has been started for.
Opened(d) == d <= sessions \/ (pc = "settle" /\ d = disk)

\* The server Close is at has not been waited for yet.
InWait == pc \in {"grace", "killed"} /\ server[Closed] # "reaped"

\* The servers of this attempt that nobody has waited for yet.
Pending(d) ==
    /\ Opened(d)
    /\ pc \in PCs \ {"query", "retry", "returned"}
    /\ pc = "close" => d >= closing
    /\ InClose => d > closing \/ (d = closing /\ InWait)

\* Who has been started, and who still has to be waited for.
ServerInv ==
    \A a \in Attempts, d \in Disks :
        /\ server[<<a, d>>] # "none" => a < attempt \/ (a = attempt /\ Opened(d))
        /\ a = attempt /\ Opened(d) => server[<<a, d>>] # "none"
        /\ Alive(a, d) <=> a = attempt /\ Pending(d)

\* Whose files there are.
SocketInv ==
    \A a \in Attempts, d \in Disks :
        <<a, d>> \in socket
            => Alive(a, d) \/ (InClose /\ a = attempt /\ d = closing)

PasswordInv ==
    /\ \A a \in Attempts, d \in Disks :
        <<a, d>> \in password =>
            \/ Alive(a, d)
            \/ InClose /\ a = attempt /\ d = closing
            \/ server[<<a, d>>] = "none" /\ a < attempt
            \/ /\ server[<<a, d>>] = "none" /\ a = attempt /\ d = disk
               /\ InClose \/ pc \in {"start", "close", "retry", "returned"}
               /\ sessions = disk - 1
    /\ \A a \in Attempts, d1, d2 \in Disks :
        /\ <<a, d1>> \in password /\ server[<<a, d1>>] = "none"
        /\ <<a, d2>> \in password /\ server[<<a, d2>>] = "none"
        => d1 = d2

SInv == TypeOK /\ LoopInv /\ ServerInv /\ SocketInv /\ PasswordInv

----------------------------------------------------------------------------

\* Typing, given where the loop is.
LEMMA StepTyped ==
    ASSUME TypeOK, LoopInv, [Next]_vars
    PROVE  TypeOK'
<1> USE NumDisksAssumption, MaxPollsAssumption
        DEF TypeOK, PCs, Attempts, Disks, Current, Closed, files, LoopInv, InClose,
            Outcomes, Kinds, Ok, Failed
<1>1. ASSUME QueryDisks PROVE TypeOK'
  BY <1>1
     DEF QueryDisks, Goto
<1>2. ASSUME QueryFails PROVE TypeOK'
  BY <1>2
     DEF QueryFails, CloseAll, Goto
<1>3. ASSUME Pin PROVE TypeOK'
  BY <1>3
     DEF Pin, Goto
<1>4. ASSUME DialOk PROVE TypeOK'
  BY <1>4
     DEF DialOk, Goto
<1>5. ASSUME DialFails PROVE TypeOK'
  BY <1>5
     DEF DialFails, CloseAll, Goto
<1>6. ASSUME CreatePassword PROVE TypeOK'
  BY <1>6
     DEF CreatePassword, Goto
<1>7. ASSUME CreatePasswordFails PROVE TypeOK'
  BY <1>7
     DEF CreatePasswordFails, CloseAll, Goto
<1>8. ASSUME Start PROVE TypeOK'
  BY <1>8
     DEF Start, Goto
<1>9. ASSUME StartFails PROVE TypeOK'
  BY <1>9
     DEF StartFails, CloseAll, Goto
<1>10. ASSUME SettleCheck PROVE TypeOK'
  BY <1>10
     DEF SettleCheck, Goto
<1>11. ASSUME SocketFound PROVE TypeOK'
  BY <1>11
     DEF SocketFound, Goto
<1>12. ASSUME SocketMissing PROVE TypeOK'
  BY <1>12
     DEF SocketMissing, Goto
<1>13. ASSUME LookAgain PROVE TypeOK'
  BY <1>13
     DEF LookAgain, Goto
<1>14. ASSUME NotReady PROVE TypeOK'
  BY <1>14
     DEF NotReady, CloseAll, Goto
<1>15. ASSUME EngineStart PROVE TypeOK'
  BY <1>15
     DEF EngineStart, Goto
<1>16. ASSUME EngineRefused PROVE TypeOK'
  BY <1>16
     DEF EngineRefused, CloseAll, Goto
<1>17. ASSUME EngineSucceeds PROVE TypeOK'
  BY <1>17
     DEF EngineSucceeds, CloseAll, Goto
<1>18. ASSUME EngineFails PROVE TypeOK'
  BY <1>18
     DEF EngineFails, CloseAll, Goto
<1>19. ASSUME Interrupt PROVE TypeOK'
  BY <1>19
     DEF Interrupt, Goto
<1>20. ASSUME WaitEnds PROVE TypeOK'
  BY <1>20
     DEF WaitEnds
<1>21. ASSUME Gone PROVE TypeOK'
  BY <1>21
     DEF Gone, Goto
<1>22. ASSUME Kill PROVE TypeOK'
  BY <1>22
     DEF Kill, Goto
<1>23. ASSUME WaitKilled PROVE TypeOK'
  BY <1>23
     DEF WaitKilled, Goto
<1>24. ASSUME Unlink PROVE TypeOK'
  BY <1>24
     DEF Unlink, Goto
<1>25. ASSUME AttemptEnds PROVE TypeOK'
  BY <1>25
     DEF AttemptEnds, Goto, IsColdStartFailure
<1>26. ASSUME Retry PROVE TypeOK'
  BY <1>26
     DEF Retry, Goto
<1>27. ASSUME CancelCaller PROVE TypeOK'
  BY <1>27
     DEF CancelCaller
<1>28. ASSUME OpenDeadline PROVE TypeOK'
  BY <1>28
     DEF OpenDeadline
<1>29. ASSUME EngineDeadline PROVE TypeOK'
  BY <1>29
     DEF EngineDeadline
<1>30. ASSUME NEW s \in Attempts \X Disks, Listen(s) PROVE TypeOK'
  BY <1>30
     DEF Listen
<1>31. ASSUME NEW s \in Attempts \X Disks, Exit(s) PROVE TypeOK'
  BY <1>31
     DEF Exit
<1>32. CASE UNCHANGED vars
  BY <1>32
     DEF vars
<1> QED
  BY <1>1, <1>2, <1>3, <1>4, <1>5, <1>6, <1>7, <1>8, <1>9, <1>10, <1>11,
     <1>12, <1>13, <1>14, <1>15, <1>16, <1>17, <1>18, <1>19, <1>20, <1>21,
     <1>22, <1>23, <1>24, <1>25, <1>26, <1>27, <1>28, <1>29, <1>30, <1>31,
     <1>32
     DEF Next, CodeStep, VCenterStep

\* The loop over the disks and the list of sessions.
LEMMA StepLoop ==
    ASSUME TypeOK, LoopInv, [Next]_vars
    PROVE  LoopInv'
<1> USE NumDisksAssumption, MaxPollsAssumption
        DEF TypeOK, PCs, Attempts, Disks, Current, Closed, files, LoopInv, InClose
<1>1. ASSUME QueryDisks PROVE LoopInv'
  BY <1>1
     DEF QueryDisks, Goto
<1>2. ASSUME QueryFails PROVE LoopInv'
  BY <1>2
     DEF QueryFails, CloseAll, Goto
<1>3. ASSUME Pin PROVE LoopInv'
  BY <1>3
     DEF Pin, Goto
<1>4. ASSUME DialOk PROVE LoopInv'
  BY <1>4
     DEF DialOk, Goto
<1>5. ASSUME DialFails PROVE LoopInv'
  BY <1>5
     DEF DialFails, CloseAll, Goto
<1>6. ASSUME CreatePassword PROVE LoopInv'
  BY <1>6
     DEF CreatePassword, Goto
<1>7. ASSUME CreatePasswordFails PROVE LoopInv'
  BY <1>7
     DEF CreatePasswordFails, CloseAll, Goto
<1>8. ASSUME Start PROVE LoopInv'
  BY <1>8
     DEF Start, Goto
<1>9. ASSUME StartFails PROVE LoopInv'
  BY <1>9
     DEF StartFails, CloseAll, Goto
<1>10. ASSUME SettleCheck PROVE LoopInv'
  BY <1>10
     DEF SettleCheck, Goto
<1>11. ASSUME SocketFound PROVE LoopInv'
  BY <1>11
     DEF SocketFound, Goto
<1>12. ASSUME SocketMissing PROVE LoopInv'
  BY <1>12
     DEF SocketMissing, Goto
<1>13. ASSUME LookAgain PROVE LoopInv'
  BY <1>13
     DEF LookAgain, Goto
<1>14. ASSUME NotReady PROVE LoopInv'
  BY <1>14
     DEF NotReady, CloseAll, Goto
<1>15. ASSUME EngineStart PROVE LoopInv'
  BY <1>15
     DEF EngineStart, Goto
<1>16. ASSUME EngineRefused PROVE LoopInv'
  BY <1>16
     DEF EngineRefused, CloseAll, Goto
<1>17. ASSUME EngineSucceeds PROVE LoopInv'
  BY <1>17
     DEF EngineSucceeds, CloseAll, Goto
<1>18. ASSUME EngineFails PROVE LoopInv'
  BY <1>18
     DEF EngineFails, CloseAll, Goto
<1>19. ASSUME Interrupt PROVE LoopInv'
  BY <1>19
     DEF Interrupt, Goto
<1>20. ASSUME WaitEnds PROVE LoopInv'
  BY <1>20
     DEF WaitEnds
<1>21. ASSUME Gone PROVE LoopInv'
  BY <1>21
     DEF Gone, Goto
<1>22. ASSUME Kill PROVE LoopInv'
  BY <1>22
     DEF Kill, Goto
<1>23. ASSUME WaitKilled PROVE LoopInv'
  BY <1>23
     DEF WaitKilled, Goto
<1>24. ASSUME Unlink PROVE LoopInv'
  BY <1>24
     DEF Unlink, Goto
<1>25. ASSUME AttemptEnds PROVE LoopInv'
  BY <1>25
     DEF AttemptEnds, Goto, IsColdStartFailure
<1>26. ASSUME Retry PROVE LoopInv'
  BY <1>26
     DEF Retry, Goto
<1>27. ASSUME CancelCaller PROVE LoopInv'
  BY <1>27
     DEF CancelCaller
<1>28. ASSUME OpenDeadline PROVE LoopInv'
  BY <1>28
     DEF OpenDeadline, AttemptRuns
<1>29. ASSUME EngineDeadline PROVE LoopInv'
  BY <1>29
     DEF EngineDeadline
<1>30. ASSUME NEW s \in Attempts \X Disks, Listen(s) PROVE LoopInv'
  BY <1>30
     DEF Listen
<1>31. ASSUME NEW s \in Attempts \X Disks, Exit(s) PROVE LoopInv'
  BY <1>31
     DEF Exit
<1>32. CASE UNCHANGED vars
  BY <1>32
     DEF vars
<1> QED
  BY <1>1, <1>2, <1>3, <1>4, <1>5, <1>6, <1>7, <1>8, <1>9, <1>10, <1>11,
     <1>12, <1>13, <1>14, <1>15, <1>16, <1>17, <1>18, <1>19, <1>20, <1>21,
     <1>22, <1>23, <1>24, <1>25, <1>26, <1>27, <1>28, <1>29, <1>30, <1>31,
     <1>32
     DEF Next, CodeStep, VCenterStep

\* No server escapes the list.
LEMMA StepServer ==
    ASSUME TypeOK, LoopInv, ServerInv, [Next]_vars
    PROVE  ServerInv'
<1> USE NumDisksAssumption, MaxPollsAssumption
        DEF TypeOK, PCs, Attempts, Disks, Current, Closed, files, LoopInv, InClose,
            ServerInv, Alive, Opened, Pending, InWait
<1>1. ASSUME QueryDisks PROVE ServerInv'
  BY <1>1
     DEF QueryDisks, Goto
<1>2. ASSUME QueryFails PROVE ServerInv'
  BY <1>2
     DEF QueryFails, CloseAll, Goto
<1>3. ASSUME Pin PROVE ServerInv'
  BY <1>3
     DEF Pin, Goto
<1>4. ASSUME DialOk PROVE ServerInv'
  BY <1>4
     DEF DialOk, Goto
<1>5. ASSUME DialFails PROVE ServerInv'
  BY <1>5
     DEF DialFails, CloseAll, Goto
<1>6. ASSUME CreatePassword PROVE ServerInv'
  BY <1>6
     DEF CreatePassword, Goto
<1>7. ASSUME CreatePasswordFails PROVE ServerInv'
  BY <1>7
     DEF CreatePasswordFails, CloseAll, Goto
<1>8. ASSUME Start PROVE ServerInv'
  BY <1>8
     DEF Start, Goto
<1>9. ASSUME StartFails PROVE ServerInv'
  BY <1>9
     DEF StartFails, CloseAll, Goto
<1>10. ASSUME SettleCheck PROVE ServerInv'
  BY <1>10
     DEF SettleCheck, Goto
<1>11. ASSUME SocketFound PROVE ServerInv'
  BY <1>11
     DEF SocketFound, Goto
<1>12. ASSUME SocketMissing PROVE ServerInv'
  BY <1>12
     DEF SocketMissing, Goto
<1>13. ASSUME LookAgain PROVE ServerInv'
  BY <1>13
     DEF LookAgain, Goto
<1>14. ASSUME NotReady PROVE ServerInv'
  BY <1>14
     DEF NotReady, CloseAll, Goto
<1>15. ASSUME EngineStart PROVE ServerInv'
  BY <1>15
     DEF EngineStart, Goto
<1>16. ASSUME EngineRefused PROVE ServerInv'
  BY <1>16
     DEF EngineRefused, CloseAll, Goto
<1>17. ASSUME EngineSucceeds PROVE ServerInv'
  BY <1>17
     DEF EngineSucceeds, CloseAll, Goto
<1>18. ASSUME EngineFails PROVE ServerInv'
  BY <1>18
     DEF EngineFails, CloseAll, Goto
<1>19. ASSUME Interrupt PROVE ServerInv'
  BY <1>19
     DEF Interrupt, Goto
<1>20. ASSUME WaitEnds PROVE ServerInv'
  BY <1>20
     DEF WaitEnds
<1>21. ASSUME Gone PROVE ServerInv'
  BY <1>21
     DEF Gone, Goto
<1>22. ASSUME Kill PROVE ServerInv'
  BY <1>22
     DEF Kill, Goto
<1>23. ASSUME WaitKilled PROVE ServerInv'
  BY <1>23
     DEF WaitKilled, Goto
<1>24. ASSUME Unlink PROVE ServerInv'
  BY <1>24
     DEF Unlink, Goto
<1>25. ASSUME AttemptEnds PROVE ServerInv'
  BY <1>25
     DEF AttemptEnds, Goto, IsColdStartFailure
<1>26. ASSUME Retry PROVE ServerInv'
  BY <1>26
     DEF Retry, Goto
<1>27. ASSUME CancelCaller PROVE ServerInv'
  BY <1>27
     DEF CancelCaller
<1>28. ASSUME OpenDeadline PROVE ServerInv'
  BY <1>28
     DEF OpenDeadline, AttemptRuns
<1>29. ASSUME EngineDeadline PROVE ServerInv'
  BY <1>29
     DEF EngineDeadline
<1>30. ASSUME NEW s \in Attempts \X Disks, Listen(s) PROVE ServerInv'
  BY <1>30
     DEF Listen
<1>31. ASSUME NEW s \in Attempts \X Disks, Exit(s) PROVE ServerInv'
  BY <1>31
     DEF Exit
<1>32. CASE UNCHANGED vars
  BY <1>32
     DEF vars
<1> QED
  BY <1>1, <1>2, <1>3, <1>4, <1>5, <1>6, <1>7, <1>8, <1>9, <1>10, <1>11,
     <1>12, <1>13, <1>14, <1>15, <1>16, <1>17, <1>18, <1>19, <1>20, <1>21,
     <1>22, <1>23, <1>24, <1>25, <1>26, <1>27, <1>28, <1>29, <1>30, <1>31,
     <1>32
     DEF Next, CodeStep, VCenterStep

\* A socket file has a server, or is being removed.
LEMMA StepSocket ==
    ASSUME TypeOK, LoopInv, ServerInv, SocketInv, [Next]_vars
    PROVE  SocketInv'
<1> USE NumDisksAssumption, MaxPollsAssumption
        DEF TypeOK, PCs, Attempts, Disks, Current, Closed, files, LoopInv, InClose,
            ServerInv, SocketInv, Alive, Opened, Pending, InWait
<1>1. ASSUME QueryDisks PROVE SocketInv'
  BY <1>1
     DEF QueryDisks, Goto
<1>2. ASSUME QueryFails PROVE SocketInv'
  BY <1>2
     DEF QueryFails, CloseAll, Goto
<1>3. ASSUME Pin PROVE SocketInv'
  BY <1>3
     DEF Pin, Goto
<1>4. ASSUME DialOk PROVE SocketInv'
  BY <1>4
     DEF DialOk, Goto
<1>5. ASSUME DialFails PROVE SocketInv'
  BY <1>5
     DEF DialFails, CloseAll, Goto
<1>6. ASSUME CreatePassword PROVE SocketInv'
  BY <1>6
     DEF CreatePassword, Goto
<1>7. ASSUME CreatePasswordFails PROVE SocketInv'
  BY <1>7
     DEF CreatePasswordFails, CloseAll, Goto
<1>8. ASSUME Start PROVE SocketInv'
  BY <1>8
     DEF Start, Goto
<1>9. ASSUME StartFails PROVE SocketInv'
  BY <1>9
     DEF StartFails, CloseAll, Goto
<1>10. ASSUME SettleCheck PROVE SocketInv'
  BY <1>10
     DEF SettleCheck, Goto
<1>11. ASSUME SocketFound PROVE SocketInv'
  BY <1>11
     DEF SocketFound, Goto
<1>12. ASSUME SocketMissing PROVE SocketInv'
  BY <1>12
     DEF SocketMissing, Goto
<1>13. ASSUME LookAgain PROVE SocketInv'
  BY <1>13
     DEF LookAgain, Goto
<1>14. ASSUME NotReady PROVE SocketInv'
  BY <1>14
     DEF NotReady, CloseAll, Goto
<1>15. ASSUME EngineStart PROVE SocketInv'
  BY <1>15
     DEF EngineStart, Goto
<1>16. ASSUME EngineRefused PROVE SocketInv'
  BY <1>16
     DEF EngineRefused, CloseAll, Goto
<1>17. ASSUME EngineSucceeds PROVE SocketInv'
  BY <1>17
     DEF EngineSucceeds, CloseAll, Goto
<1>18. ASSUME EngineFails PROVE SocketInv'
  BY <1>18
     DEF EngineFails, CloseAll, Goto
<1>19. ASSUME Interrupt PROVE SocketInv'
  BY <1>19
     DEF Interrupt, Goto
<1>20. ASSUME WaitEnds PROVE SocketInv'
  BY <1>20
     DEF WaitEnds
<1>21. ASSUME Gone PROVE SocketInv'
  BY <1>21
     DEF Gone, Goto
<1>22. ASSUME Kill PROVE SocketInv'
  BY <1>22
     DEF Kill, Goto
<1>23. ASSUME WaitKilled PROVE SocketInv'
  BY <1>23
     DEF WaitKilled, Goto
<1>24. ASSUME Unlink PROVE SocketInv'
  BY <1>24
     DEF Unlink, Goto
<1>25. ASSUME AttemptEnds PROVE SocketInv'
  BY <1>25
     DEF AttemptEnds, Goto
<1>26. ASSUME Retry PROVE SocketInv'
  BY <1>26
     DEF Retry, Goto
<1>27. ASSUME CancelCaller PROVE SocketInv'
  BY <1>27
     DEF CancelCaller
<1>28. ASSUME OpenDeadline PROVE SocketInv'
  BY <1>28
     DEF OpenDeadline
<1>29. ASSUME EngineDeadline PROVE SocketInv'
  BY <1>29
     DEF EngineDeadline
<1>30. ASSUME NEW s \in Attempts \X Disks, Listen(s) PROVE SocketInv'
  BY <1>30
     DEF Listen
<1>31. ASSUME NEW s \in Attempts \X Disks, Exit(s) PROVE SocketInv'
  BY <1>31
     DEF Exit
<1>32. CASE UNCHANGED vars
  BY <1>32
     DEF vars
<1> QED
  BY <1>1, <1>2, <1>3, <1>4, <1>5, <1>6, <1>7, <1>8, <1>9, <1>10, <1>11,
     <1>12, <1>13, <1>14, <1>15, <1>16, <1>17, <1>18, <1>19, <1>20, <1>21,
     <1>22, <1>23, <1>24, <1>25, <1>26, <1>27, <1>28, <1>29, <1>30, <1>31,
     <1>32
     DEF Next, CodeStep, VCenterStep

\* A password file has a server, is being removed, or never had a server.
LEMMA StepPassword ==
    ASSUME TypeOK, LoopInv, ServerInv, PasswordInv, [Next]_vars
    PROVE  PasswordInv'
<1> USE NumDisksAssumption, MaxPollsAssumption
        DEF TypeOK, PCs, Attempts, Disks, Current, Closed, files, LoopInv, InClose,
            ServerInv, PasswordInv, Alive, Opened, Pending, InWait
<1>1. ASSUME QueryDisks PROVE PasswordInv'
  BY <1>1
     DEF QueryDisks, Goto
<1>2. ASSUME QueryFails PROVE PasswordInv'
  BY <1>2
     DEF QueryFails, CloseAll, Goto
<1>3. ASSUME Pin PROVE PasswordInv'
  BY <1>3
     DEF Pin, Goto
<1>4. ASSUME DialOk PROVE PasswordInv'
  BY <1>4
     DEF DialOk, Goto
<1>5. ASSUME DialFails PROVE PasswordInv'
  BY <1>5
     DEF DialFails, CloseAll, Goto
<1>6. ASSUME CreatePassword PROVE PasswordInv'
  BY <1>6
     DEF CreatePassword, Goto
<1>7. ASSUME CreatePasswordFails PROVE PasswordInv'
  BY <1>7
     DEF CreatePasswordFails, CloseAll, Goto
<1>8. ASSUME Start PROVE PasswordInv'
  BY <1>8
     DEF Start, Goto
<1>9. ASSUME StartFails PROVE PasswordInv'
  BY <1>9
     DEF StartFails, CloseAll, Goto
<1>10. ASSUME SettleCheck PROVE PasswordInv'
  BY <1>10
     DEF SettleCheck, Goto
<1>11. ASSUME SocketFound PROVE PasswordInv'
  BY <1>11
     DEF SocketFound, Goto
<1>12. ASSUME SocketMissing PROVE PasswordInv'
  BY <1>12
     DEF SocketMissing, Goto
<1>13. ASSUME LookAgain PROVE PasswordInv'
  BY <1>13
     DEF LookAgain, Goto
<1>14. ASSUME NotReady PROVE PasswordInv'
  BY <1>14
     DEF NotReady, CloseAll, Goto
<1>15. ASSUME EngineStart PROVE PasswordInv'
  BY <1>15
     DEF EngineStart, Goto
<1>16. ASSUME EngineRefused PROVE PasswordInv'
  BY <1>16
     DEF EngineRefused, CloseAll, Goto
<1>17. ASSUME EngineSucceeds PROVE PasswordInv'
  BY <1>17
     DEF EngineSucceeds, CloseAll, Goto
<1>18. ASSUME EngineFails PROVE PasswordInv'
  BY <1>18
     DEF EngineFails, CloseAll, Goto
<1>19. ASSUME Interrupt PROVE PasswordInv'
  BY <1>19
     DEF Interrupt, Goto
<1>20. ASSUME WaitEnds PROVE PasswordInv'
  BY <1>20
     DEF WaitEnds
<1>21. ASSUME Gone PROVE PasswordInv'
  BY <1>21
     DEF Gone, Goto
<1>22. ASSUME Kill PROVE PasswordInv'
  BY <1>22
     DEF Kill, Goto
<1>23. ASSUME WaitKilled PROVE PasswordInv'
  BY <1>23
     DEF WaitKilled, Goto
<1>24. ASSUME Unlink PROVE PasswordInv'
  BY <1>24
     DEF Unlink, Goto
<1>25. ASSUME AttemptEnds PROVE PasswordInv'
  BY <1>25
     DEF AttemptEnds, Goto
<1>26. ASSUME Retry PROVE PasswordInv'
  BY <1>26
     DEF Retry, Goto
<1>27. ASSUME CancelCaller PROVE PasswordInv'
  BY <1>27
     DEF CancelCaller
<1>28. ASSUME OpenDeadline PROVE PasswordInv'
  BY <1>28
     DEF OpenDeadline
<1>29. ASSUME EngineDeadline PROVE PasswordInv'
  BY <1>29
     DEF EngineDeadline
<1>30. ASSUME NEW s \in Attempts \X Disks, Listen(s) PROVE PasswordInv'
  BY <1>30
     DEF Listen
<1>31. ASSUME NEW s \in Attempts \X Disks, Exit(s) PROVE PasswordInv'
  BY <1>31
     DEF Exit
<1>32. CASE UNCHANGED vars
  BY <1>32
     DEF vars
<1> QED
  BY <1>1, <1>2, <1>3, <1>4, <1>5, <1>6, <1>7, <1>8, <1>9, <1>10, <1>11,
     <1>12, <1>13, <1>14, <1>15, <1>16, <1>17, <1>18, <1>19, <1>20, <1>21,
     <1>22, <1>23, <1>24, <1>25, <1>26, <1>27, <1>28, <1>29, <1>30, <1>31,
     <1>32
     DEF Next, CodeStep, VCenterStep


----------------------------------------------------------------------------
(* The theorems. *)

\* Before the first attempt nothing has been started or created.
LEMMA InitSInv == Init => SInv
<1> USE NumDisksAssumption, MaxPollsAssumption
<1> SUFFICES ASSUME Init PROVE SInv
  OBVIOUS
<1>1. TypeOK
  BY DEF Init, TypeOK, PCs, Attempts, Disks, Outcomes, Kinds, Failed
<1>2. LoopInv /\ ServerInv /\ SocketInv /\ PasswordInv
  BY DEF Init, LoopInv, ServerInv, SocketInv, PasswordInv, Attempts, Disks,
         Alive, Opened, Pending, InClose, InWait, PCs
<1> QED
  BY <1>1, <1>2 DEF SInv

\* The inductive invariant of a call of Inspect.
THEOREM SessionInvariance == Spec => []SInv
<1>1. SInv /\ [Next]_vars => SInv'
  BY StepTyped, StepLoop, StepServer, StepSocket, StepPassword DEF SInv
<1> QED
  BY <1>1, InitSInv, PTL DEF Spec

\* Every variable of a call of Inspect stays in its type.
THEOREM SessionTypeCorrect == Spec => []TypeOK
<1>1. SInv => TypeOK
  BY DEF SInv
<1> QED
  BY <1>1, SessionInvariance, PTL

\* Whatever fails, no nbdkit process outlives the attempt that started it.
THEOREM ServersGone == Spec => []NoServerLeft
<1>1. SInv => NoServerLeft
  <2> SUFFICES ASSUME SInv, AtRest, NEW a \in Attempts, NEW d \in Disks
               PROVE  server[<<a, d>>] \in {"none", "reaped"}
    BY DEF NoServerLeft
  <2>1. ~Pending(d)
    BY DEF Pending, AtRest
  <2> QED
    BY <2>1 DEF SInv, ServerInv, Alive, TypeOK
<1> QED
  BY <1>1, SessionInvariance, PTL

\* Nor does the socket file of one.
THEOREM SocketsGone == Spec => []NoSocketLeft
<1>1. SInv => NoSocketLeft
  <2> SUFFICES ASSUME SInv, AtRest, NEW s \in socket PROVE FALSE
    BY DEF NoSocketLeft
  <2>1. PICK a \in Attempts, d \in Disks : s = <<a, d>>
    BY DEF SInv, TypeOK
  <2>2. ~Pending(d) /\ ~InClose
    BY DEF Pending, AtRest, InClose
  <2> QED
    BY <2>1, <2>2 DEF SInv, ServerInv, SocketInv
<1> QED
  BY <1>1, SessionInvariance, PTL

\* The password files that are left belong to servers that were never
\* started, one per attempt at most.
THEOREM PasswordsAccounted == Spec => []PasswordsLeft
<1>1. SInv => PasswordsLeft
  <2> SUFFICES ASSUME SInv, AtRest PROVE PasswordsLeft
    BY DEF PasswordsLeft
  <2>1. ASSUME NEW s \in password PROVE server[s] = "none"
    <3>1. PICK a \in Attempts, d \in Disks : s = <<a, d>>
      BY <2>1 DEF SInv, TypeOK
    <3>2. ~Pending(d) /\ ~InClose
      BY DEF Pending, AtRest, InClose
    <3> QED
      BY <2>1, <3>1, <3>2 DEF SInv, ServerInv, PasswordInv
  <2>2. ASSUME NEW s1 \in password, NEW s2 \in password, s1[1] = s2[1]
        PROVE  s1 = s2
    <3>1. PICK a \in Attempts, d1 \in Disks, d2 \in Disks :
             s1 = <<a, d1>> /\ s2 = <<a, d2>>
      BY <2>2 DEF SInv, TypeOK
    <3> QED
      BY <2>1, <2>2, <3>1 DEF SInv, PasswordInv
  <2> QED
    BY <2>1, <2>2 DEF PasswordsLeft
<1> QED
  BY <1>1, SessionInvariance, PTL

\* virt-inspector runs only with a session for every disk.
THEOREM AllDisksServed == Spec => []EngineHasAllDisks
<1>1. SInv => EngineHasAllDisks
  <2> SUFFICES ASSUME SInv, pc = "engine", NEW d \in Disks
               PROVE  /\ sessions = NumDisks
                      /\ server[<<attempt, d>>] \in {"running", "exited"}
    BY DEF EngineHasAllDisks, SInv, LoopInv
  <2>1. sessions = NumDisks /\ Pending(d) /\ attempt \in Attempts
    BY NumDisksAssumption
       DEF SInv, LoopInv, TypeOK, Pending, Opened, InClose, Disks, PCs
  <2> QED
    BY <2>1 DEF SInv, ServerInv, Alive
<1> QED
  BY <1>1, SessionInvariance, PTL

----------------------------------------------------------------------------
(* The refinement of ServerScope. *)

\* The servers there is something left of are those somebody still has to
\* wait for, and the one whose socket file Close has yet to remove.
LEMMA UpAre ==
    ASSUME SInv, NEW a \in Attempts, NEW d \in Disks
    PROVE  <<a, d>> \in ScopeUp <=>
              /\ a = attempt
              /\ \/ Pending(d)
                 \/ InClose /\ d = closing /\ <<a, d>> \in socket
BY DEF SInv, ServerInv, SocketInv, ScopeUp, Alive

\* At rest, and once all servers are closed, nothing is up.
LEMMA NothingUp ==
    ASSUME SInv, AtRest \/ (pc = "close" /\ closing > sessions)
    PROVE  ScopeUp = {}
<1> SUFFICES ASSUME NEW s \in ScopeUp PROVE FALSE
  OBVIOUS
<1>1. PICK a \in Attempts, d \in Disks : s = <<a, d>>
  BY DEF ScopeUp
<1>2. ~Pending(d) /\ ~InClose
  BY DEF Pending, Opened, AtRest, InClose, SInv, TypeOK, Disks
<1> QED
  BY <1>1, <1>2, UpAre

\* For virt-inspector every disk has its server up.
LEMMA AllUp ==
    ASSUME SInv, pc \in {"run", "engine"}
    PROVE  ScopeUp = {attempt} \X Disks
<1>1. attempt \in Attempts
  BY DEF SInv, TypeOK
<1>2. ASSUME NEW d \in Disks PROVE Pending(d)
  BY NumDisksAssumption
     DEF SInv, LoopInv, TypeOK, Pending, Opened, InClose, Disks, PCs
<1>3. ScopeUp \subseteq {attempt} \X Disks
  <2> SUFFICES ASSUME NEW s \in ScopeUp PROVE s \in {attempt} \X Disks
    OBVIOUS
  <2>1. PICK a \in Attempts, d \in Disks : s = <<a, d>>
    BY DEF ScopeUp
  <2> QED
    BY <2>1, UpAre
<1>4. {attempt} \X Disks \subseteq ScopeUp
  <2> SUFFICES ASSUME NEW d \in Disks PROVE <<attempt, d>> \in ScopeUp
    OBVIOUS
  <2> QED
    BY <1>1, <1>2, UpAre
<1> QED
  BY <1>3, <1>4

\* A step that keeps the servers: the scope changes with the place of the
\* goroutine only.
LEMMA SameUp ==
    ASSUME UNCHANGED <<server, socket>>
    PROVE  ScopeUp' = ScopeUp
BY DEF ScopeUp

\* The closer is at work.
Closing == pc = "close" \/ InClose

\* Every step of Inspect is one of the scope of an attempt, or none.
LEMMA ScopeSteps ==
    ASSUME SInv, [Next]_vars
    PROVE  [Scope!ScopeNext]_Scope!scopeVars
<1> DEFINE Step == [Scope!ScopeNext]_Scope!scopeVars
<1> USE DEF files
<1>0. attempt \in Attempts /\ attempt' \in Attempts
  BY StepTyped DEF SInv, TypeOK
<1> HIDE DEF Step
<1>stutter. ASSUME ScopeUp' = ScopeUp, ScopeState' = ScopeState,
                   ScopeNeeds' = ScopeNeeds
            PROVE  Step
  BY <1>stutter DEF Step, Scope!scopeVars
<1>same. ASSUME pc' = pc, attempt' = attempt, ScopeUp' = ScopeUp PROVE Step
  BY <1>same, <1>stutter DEF ScopeState, ScopeNeeds, Opening, AtRest
<1>open. ASSUME Opening, Opening', UNCHANGED <<attempt, server, socket>>
         PROVE  Step
  BY <1>open, <1>stutter, SameUp DEF ScopeState, ScopeNeeds
<1>end. ASSUME Opening \/ pc = "engine", pc' = "close",
               UNCHANGED <<attempt, server, socket>>
        PROVE  Step
  <2>1. ScopeUp' = ScopeUp
    BY <1>end, SameUp
  <2>2. /\ ScopeState \in {"opening", "inUse"}
        /\ ScopeState' = IF ScopeUp = {} THEN "closed" ELSE "closing"
        /\ ScopeNeeds = {attempt} \X Disks
        /\ ScopeNeeds' = IF ScopeUp = {} THEN {} ELSE {attempt} \X Disks
    BY <1>end, <2>1 DEF ScopeState, ScopeNeeds, Opening, AtRest
  <2>3. Scope!End
    BY <2>1, <2>2 DEF Scope!End, Scope!LeaveWith
  <2> QED
    BY <2>3 DEF Step, Scope!ScopeNext
<1>rest. ASSUME AtRest \/ (pc = "close" /\ closing > sessions),
                AtRest' \/ pc' = "close", UNCHANGED <<server, socket>>
         PROVE  Step
  <2>1. ScopeUp = {} /\ ScopeUp' = {}
    BY <1>rest, NothingUp, SameUp
  <2>2. /\ ScopeState = "closed" /\ ScopeState' = "closed"
        /\ ScopeNeeds = {} /\ ScopeNeeds' = {}
    BY <1>rest, <2>1 DEF ScopeState, ScopeNeeds, Opening, AtRest
  <2> QED
    BY <2>1, <2>2, <1>stutter
<1>1. ASSUME QueryDisks PROVE Step
  <2>1. ScopeUp = {} /\ ScopeUp' = {}
    BY <1>1, NothingUp, SameUp DEF QueryDisks, Goto, AtRest
  <2>2. /\ ScopeState = "closed" /\ ScopeState' = "opening"
        /\ ScopeNeeds = {} /\ ScopeNeeds' = {attempt} \X Disks
    BY <1>1, <2>1 DEF QueryDisks, Goto, ScopeState, ScopeNeeds, Opening, AtRest
  <2>3. Scope!Begin({attempt} \X Disks)
    BY <2>1, <2>2 DEF Scope!Begin
  <2>4. {attempt} \X Disks \in SUBSET (Attempts \X Disks)
    BY <1>0
  <2> QED
    BY <2>3, <2>4 DEF Step, Scope!ScopeNext
<1>2. ASSUME QueryFails PROVE Step
  BY <1>2, <1>rest DEF QueryFails, CloseAll, Goto, AtRest
<1>3. ASSUME Pin \/ DialOk \/ CreatePassword \/ SettleCheck
             \/ SocketFound \/ SocketMissing \/ LookAgain
      PROVE  Step
  BY <1>3, <1>open
     DEF Pin, DialOk, CreatePassword, SettleCheck, SocketFound,
         SocketMissing, LookAgain, Goto, Opening
<1>4. ASSUME DialFails \/ CreatePasswordFails \/ StartFails \/ NotReady
             \/ EngineRefused \/ EngineSucceeds \/ EngineFails
      PROVE  Step
  BY <1>4, <1>end
     DEF DialFails, CreatePasswordFails, StartFails, NotReady, EngineRefused,
         EngineSucceeds, EngineFails, CloseAll, Goto, Opening
<1>5. ASSUME Start PROVE Step
  <2>1. Current \in Attempts \X Disks
    BY DEF SInv, TypeOK, Current
  <2>2. Current \notin ScopeUp
    <3>1. ~Pending(disk)
      BY <1>5, NumDisksAssumption
         DEF Start, Goto, Pending, Opened, SInv, TypeOK, LoopInv, Disks
    <3> QED
      BY <1>5, <2>1, <3>1, UpAre
         DEF Start, Goto, Current, InClose, SInv, TypeOK
  <2>3. ScopeUp' = ScopeUp \cup {Current}
    BY <1>5, <2>1 DEF Start, ScopeUp, SInv, TypeOK
  <2>4. /\ ScopeState = "opening" /\ ScopeState' = "opening"
        /\ ScopeNeeds = {attempt} \X Disks /\ ScopeNeeds' = ScopeNeeds
    BY <1>5 DEF Start, Goto, ScopeState, ScopeNeeds, Opening
  <2>5. Current \in {attempt} \X Disks
    BY DEF Current, SInv, TypeOK
  <2>6. Scope!Acquire(Current)
    BY <2>2, <2>3, <2>4, <2>5 DEF Scope!Acquire
  <2> QED
    BY <2>1, <2>6 DEF Step, Scope!ScopeNext
<1>6. ASSUME EngineStart PROVE Step
  <2>1. ScopeUp = {attempt} \X Disks /\ ScopeUp' = ScopeUp
    BY <1>6, AllUp, SameUp DEF EngineStart, Goto
  <2>2. /\ ScopeState = "opening" /\ ScopeState' = "inUse"
        /\ ScopeNeeds = {attempt} \X Disks /\ ScopeNeeds' = ScopeNeeds
    BY <1>6 DEF EngineStart, Goto, ScopeState, ScopeNeeds, Opening
  <2>3. Scope!Use
    BY <2>1, <2>2 DEF Scope!Use
  <2> QED
    BY <2>3 DEF Step, Scope!ScopeNext
<1>release. ASSUME NEW s \in ScopeUp, ScopeUp' = ScopeUp \ {s},
                   Closing, Closing', attempt' = attempt
            PROVE  Step
  <2>1. /\ ScopeState = "closing"
        /\ ScopeState' = IF ScopeUp' = {} THEN "closed" ELSE "closing"
        /\ ScopeNeeds = {attempt} \X Disks
        /\ ScopeNeeds' = IF ScopeUp' = {} THEN {} ELSE ScopeNeeds
    BY <1>release DEF ScopeState, ScopeNeeds, Opening, AtRest, Closing, InClose
  <2>2. Scope!Release(s)
    BY <1>release, <2>1 DEF Scope!Release, Scope!LeaveWith
  <2>3. s \in Attempts \X Disks
    BY DEF ScopeUp
  <2> QED
    BY <2>2, <2>3 DEF Step, Scope!ScopeNext
<1>linger. ASSUME ScopeUp' = ScopeUp, Closing, Closing',
                  attempt' = attempt
           PROVE  Step
  BY <1>linger, <1>stutter
     DEF ScopeState, ScopeNeeds, Opening, AtRest, Closing, InClose
<1>wait. ASSUME pc \in {"grace", "killed"}, Closing', attempt' = attempt,
                server' = [server EXCEPT ![Closed] = "reaped"],
                socket' = socket
         PROVE  Step
  <2>1. Closed \in Attempts \X Disks
    BY <1>wait, <1>0, NumDisksAssumption
       DEF SInv, TypeOK, LoopInv, InClose, Disks, Closed
  <2>2. Closing
    BY <1>wait DEF Closing, InClose
  <2>3. CASE Closed \in socket \/ Closed \notin ScopeUp
    <3>1. ScopeUp' = ScopeUp
      BY <1>wait, <2>1, <2>3 DEF ScopeUp, SInv, TypeOK
    <3> QED
      BY <1>wait, <2>2, <3>1, <1>linger
  <2>4. CASE Closed \notin socket /\ Closed \in ScopeUp
    <3>1. ScopeUp' = ScopeUp \ {Closed}
      BY <1>wait, <2>1, <2>4 DEF ScopeUp, SInv, TypeOK
    <3> QED
      BY <1>wait, <2>2, <2>4, <3>1, <1>release
  <2> QED
    BY <2>3, <2>4
<1>7. ASSUME Interrupt \/ Gone \/ Kill \/ WaitEnds \/ WaitKilled PROVE Step
  <2>1. CASE Interrupt \/ Gone
    BY <2>1, SameUp, <1>linger DEF Interrupt, Gone, Goto, Closing, InClose
  <2>2. CASE Kill
    <3>1. ScopeUp' = ScopeUp
      BY <2>2 DEF Kill, ScopeUp, SInv, TypeOK
    <3> QED
      BY <2>2, <3>1, <1>linger DEF Kill, Goto, Closing, InClose
  <2>3. CASE WaitEnds \/ WaitKilled
    BY <2>3, <1>wait DEF WaitEnds, WaitKilled, Goto, Closing, InClose
  <2> QED
    BY <1>7, <2>1, <2>2, <2>3
<1>8. ASSUME Unlink PROVE Step
  <2>1. closing \in Disks
    BY <1>8, NumDisksAssumption
       DEF Unlink, Goto, SInv, TypeOK, LoopInv, InClose, Disks
  <2>2. Closed \in Attempts \X Disks
    BY <2>1, <1>0 DEF Closed
  <2>3. server[Closed] \notin {"running", "exited"}
    <3>1. ~Pending(closing)
      BY <1>8, <2>1 DEF Unlink, Goto, Pending, InClose, InWait, Disks
    <3> QED
      BY <2>1, <1>0, <3>1 DEF SInv, ServerInv, Alive, Closed
  <2>4. ScopeUp' = ScopeUp \ {Closed}
    BY <1>8, <2>2, <2>3 DEF Unlink, ScopeUp
  <2>5. CASE Closed \in ScopeUp
    BY <1>8, <2>4, <2>5, <1>release DEF Unlink, Goto, Closing, InClose
  <2>6. CASE Closed \notin ScopeUp
    BY <1>8, <2>4, <2>6, <1>linger DEF Unlink, Goto, Closing, InClose
  <2> QED
    BY <2>5, <2>6
<1>9. ASSUME AttemptEnds \/ Retry PROVE Step
  BY <1>9, <1>rest DEF AttemptEnds, Retry, Goto, AtRest
<1>10. ASSUME NEW s \in Attempts \X Disks, Listen(s) \/ Exit(s) PROVE Step
  <2>1. ScopeUp' = ScopeUp
    BY <1>10 DEF Listen, Exit, ScopeUp, SInv, TypeOK
  <2> QED
    BY <1>10, <2>1, <1>same DEF Listen, Exit
<1>11. ASSUME CancelCaller \/ OpenDeadline \/ EngineDeadline \/ UNCHANGED vars
       PROVE  Step
  BY <1>11, <1>same, SameUp
     DEF CancelCaller, OpenDeadline, EngineDeadline, vars
<1>12. Step
  BY <1>1, <1>2, <1>3, <1>4, <1>5, <1>6, <1>7, <1>8, <1>9, <1>10, <1>11
     DEF Next, CodeStep, VCenterStep
<1> QED
  BY <1>12 DEF Step

\* An attempt of Inspect is a scope of its servers, for any number of disks:
\* all of them are up when virt-inspector starts, none is given up before it
\* has ended, and none is left.
THEOREM SessionRefinesScope == Spec => ImplementsScope
<1>1. Init => Scope!ScopeInit
  <2> SUFFICES ASSUME Init PROVE Scope!ScopeInit
    OBVIOUS
  <2>1. ScopeUp = {}
    BY DEF Init, ScopeUp
  <2> QED
    BY <2>1 DEF Init, Scope!ScopeInit, ScopeState, ScopeNeeds, Opening, AtRest
<1>2. SInv /\ [Next]_vars => [Scope!ScopeNext]_Scope!scopeVars
  BY ScopeSteps
<1> QED
  BY <1>1, <1>2, SessionInvariance, PTL
     DEF Spec, ImplementsScope, Scope!ScopeSpec

----------------------------------------------------------------------------
(* How many steps Inspect takes. *)

\* For a disk: to open its session, and twice for each look at the socket.
PerDisk == 2 * MaxPolls + 4

\* For virt-inspector and the closer, which does up to four things to each
\* session: it interrupts, kills, waits and removes.
ForEngine == 4 * NumDisks + 3

\* From the beginning of a disk on.
AtDisk == (NumDisks + 1 - disk) * PerDisk + ForEngine

PerAttempt == NumDisks * PerDisk + ForEngine + 1

ToClose == IF closing <= sessions THEN 4 * (sessions + 1 - closing) ELSE 0

LeftToOpen ==
    IF pc = "query"         THEN PerAttempt
    ELSE IF pc = "pin"      THEN AtDisk
    ELSE IF pc = "dial"     THEN AtDisk - 1
    ELSE IF pc = "password" THEN AtDisk - 2
    ELSE IF pc = "start"    THEN AtDisk - 3
    ELSE IF pc = "settle"   THEN AtDisk - 4
    ELSE IF pc = "ready"    THEN AtDisk - 5 - 2 * polls
    ELSE AtDisk - 4 - 2 * polls

LeftToEnd ==
    IF pc = "run"         THEN ForEngine
    ELSE IF pc = "engine" THEN ForEngine - 1
    ELSE IF pc = "close"  THEN ToClose + 1
    ELSE IF pc = "grace"  THEN ToClose
    ELSE IF pc = "killed" THEN ToClose - 1
    ELSE IF pc = "unlink" THEN ToClose - 2
    ELSE 0

LeftInAttempt ==
    IF pc \in {"query", "pin", "dial", "password", "start", "settle", "ready",
               "nap"}
    THEN LeftToOpen ELSE LeftToEnd

\* The first attempt may be followed by another one.
LeftToRetry == IF attempt = 1 /\ pc # "returned" THEN PerAttempt + 1 ELSE 0

\* The steps of its own Inspect still takes, at most.
StepsLeft == LeftInAttempt + LeftToRetry

MostSteps == 2 * PerAttempt + 1

\* What the loop over the disks still has to do.
LEMMA LoopBounded ==
    ASSUME TypeOK
    PROVE  /\ PerAttempt \in Nat
           /\ AtDisk < PerAttempt /\ AtDisk >= PerDisk + ForEngine
           /\ disk = NumDisks => AtDisk = PerDisk + ForEngine
           /\ disk = 1 => AtDisk = PerAttempt - 1
           /\ AtDisk \in Nat
<1> USE NumDisksAssumption, MaxPollsAssumption DEF TypeOK, Disks
<1> DEFINE n == NumDisks + 1 - disk
<1>1. PerDisk \in Nat /\ ForEngine \in Nat
  BY DEF PerDisk, ForEngine
<1>2. /\ n \in 1 .. NumDisks
      /\ disk = NumDisks => n = 1
      /\ disk = 1 => n = NumDisks
  OBVIOUS
<1>3. AtDisk = n * PerDisk + ForEngine
  BY DEF AtDisk
<1> HIDE DEF n
<1>4. ASSUME NEW k \in Nat, NEW i \in 1 .. NumDisks
      PROVE  /\ i * k \in Nat /\ NumDisks * k \in Nat
             /\ i * k <= NumDisks * k /\ i * k >= k
             /\ i = 1 => i * k = k
  <2>1. /\ i * k \in Nat /\ (NumDisks - i) * k \in Nat /\ (i - 1) * k \in Nat
        /\ NumDisks * k \in Nat
    OBVIOUS
  <2>2. NumDisks * k = i * k + (NumDisks - i) * k /\ i * k = (i - 1) * k + k
    OBVIOUS
  <2> QED
    BY <2>1, <2>2
<1>5. /\ n * PerDisk \in Nat /\ NumDisks * PerDisk \in Nat
      /\ n * PerDisk <= NumDisks * PerDisk /\ n * PerDisk >= PerDisk
      /\ n = 1 => n * PerDisk = PerDisk
  BY <1>1, <1>2, <1>4
<1> HIDE DEF PerDisk, ForEngine
<1> QED
  BY <1>1, <1>2, <1>3, <1>5 DEF PerAttempt

\* The definition, one place at a time.
LeftIs ==
    /\ pc = "query"    => LeftInAttempt = PerAttempt
    /\ pc = "pin"      => LeftInAttempt = AtDisk
    /\ pc = "dial"     => LeftInAttempt = AtDisk - 1
    /\ pc = "password" => LeftInAttempt = AtDisk - 2
    /\ pc = "start"    => LeftInAttempt = AtDisk - 3
    /\ pc = "settle"   => LeftInAttempt = AtDisk - 4
    /\ pc = "ready"    => LeftInAttempt = AtDisk - 5 - 2 * polls
    /\ pc = "nap"      => LeftInAttempt = AtDisk - 4 - 2 * polls
    /\ pc = "run"      => LeftInAttempt = ForEngine
    /\ pc = "engine"   => LeftInAttempt = ForEngine - 1
    /\ pc = "close"    => LeftInAttempt = ToClose + 1
    /\ pc = "grace"    => LeftInAttempt = ToClose
    /\ pc = "killed"   => LeftInAttempt = ToClose - 1
    /\ pc = "unlink"   => LeftInAttempt = ToClose - 2
    /\ pc \in {"retry", "returned"} => LeftInAttempt = 0

LEMMA LeftIsThat == LeftIs /\ LeftIs'
<1>1. LeftIs
  BY DEF LeftIs, LeftInAttempt, LeftToOpen, LeftToEnd
<1>2. LeftIs'
  BY DEF LeftIs, LeftInAttempt, LeftToOpen, LeftToEnd
<1> QED
  BY <1>1, <1>2

\* The number of steps left is one, and no more than there are to begin with.
LEMMA StepsBounded ==
    ASSUME SInv
    PROVE  LeftInAttempt \in 0 .. PerAttempt /\ StepsLeft \in 0 .. MostSteps
<1> USE NumDisksAssumption, MaxPollsAssumption
<1>1. /\ PerDisk = 2 * MaxPolls + 4 /\ ForEngine = 4 * NumDisks + 3
      /\ PerAttempt \in Nat /\ AtDisk \in Nat
      /\ AtDisk < PerAttempt /\ AtDisk >= PerDisk + ForEngine
  BY LoopBounded DEF SInv, PerDisk, ForEngine
<1>2. /\ pc \in PCs /\ polls \in 0 .. MaxPolls
      /\ sessions \in 0 .. NumDisks /\ closing \in 1 .. NumDisks + 1
      /\ pc = "ready" => polls < MaxPolls
      /\ pc \in {"grace", "killed", "unlink"} => closing <= sessions
  BY DEF SInv, TypeOK, LoopInv, InClose
<1>3. /\ ToClose \in 0 .. 4 * NumDisks
      /\ pc \in {"grace", "killed", "unlink"} => ToClose >= 4
  BY <1>2 DEF ToClose
<1> HIDE DEF AtDisk, PerDisk, ForEngine, PerAttempt, ToClose
<1>4. LeftInAttempt \in 0 .. PerAttempt
  <2> USE LeftIsThat DEF LeftIs
  <2>1. CASE pc \in {"query", "pin", "dial", "password", "start", "settle"}
    BY <1>1, <2>1
  <2>2. CASE pc \in {"ready", "nap"}
    BY <1>1, <1>2, <2>2
  <2>3. CASE pc \in {"run", "engine", "close", "grace", "killed", "unlink"}
    BY <1>1, <1>3, <2>3
  <2>4. CASE pc \in {"retry", "returned"}
    BY <1>1, <2>4
  <2> QED
    BY <1>2, <2>1, <2>2, <2>3, <2>4 DEF PCs
<1>5. LeftToRetry \in 0 .. PerAttempt + 1
  BY <1>1 DEF LeftToRetry
<1> QED
  BY <1>1, <1>4, <1>5 DEF StepsLeft, MostSteps

\* Each step of the code, of vCenter or of virt-inspector is one less to come.
LEMMA OneStepLess ==
    ASSUME SInv, VCenterStep \/ CodeStep \/ EngineSucceeds \/ EngineFails
    PROVE  StepsLeft' < StepsLeft
<1> USE NumDisksAssumption, MaxPollsAssumption DEF Goto, CloseAll
<1>a. /\ PerDisk = 2 * MaxPolls + 4 /\ ForEngine = 4 * NumDisks + 3
      /\ PerDisk' = PerDisk /\ ForEngine' = ForEngine /\ PerAttempt' = PerAttempt
      /\ PerAttempt \in Nat /\ AtDisk \in Nat
      /\ AtDisk < PerAttempt /\ AtDisk >= PerDisk + ForEngine
      /\ disk = NumDisks => AtDisk = PerDisk + ForEngine
      /\ disk = 1 => AtDisk = PerAttempt - 1
  BY LoopBounded DEF SInv, PerDisk, ForEngine, PerAttempt
<1>t. /\ pc \in PCs /\ attempt \in 1 .. 2 /\ disk \in 1 .. NumDisks
      /\ polls \in 0 .. MaxPolls
      /\ sessions \in 0 .. NumDisks /\ closing \in 1 .. NumDisks + 1
      /\ pc = "ready" => polls < MaxPolls
      /\ pc = "query" => disk = 1
      /\ pc \in {"grace", "killed", "unlink"} => closing <= sessions
      /\ pc = "retry" => attempt = 1
  BY DEF SInv, TypeOK, LoopInv, InClose, Disks, Attempts
<1>l. LeftInAttempt \in Nat
  BY StepsBounded DEF SInv, PCs
<1>s. disk' = disk => AtDisk' = AtDisk
  BY DEF AtDisk, PerDisk, ForEngine
<1>n. disk' = disk + 1 => AtDisk' = AtDisk - PerDisk
  BY <1>t DEF AtDisk, PerDisk, ForEngine
<1> HIDE DEF AtDisk, PerDisk, ForEngine, PerAttempt
<1>w. ASSUME attempt' = attempt, pc # "returned", pc' # "returned",
             LeftInAttempt' < LeftInAttempt, LeftInAttempt' \in Int
      PROVE  StepsLeft' < StepsLeft
  <2>1. LeftToRetry' = LeftToRetry
    BY <1>a, <1>w DEF LeftToRetry
  <2>2. LeftToRetry \in Nat
    BY <1>a DEF LeftToRetry
  <2>3. /\ StepsLeft = LeftInAttempt + LeftToRetry
        /\ StepsLeft' = LeftInAttempt' + LeftToRetry'
    BY Zenon DEF StepsLeft
  <2>4. \A i, j, k \in Int : i < j => i + k < j + k
    OBVIOUS
  <2>5. LeftInAttempt \in Int /\ LeftToRetry \in Int
    BY <1>l, <2>2
  <2>6. LeftInAttempt' + LeftToRetry < LeftInAttempt + LeftToRetry
    BY <1>w, <2>4, <2>5, Zenon
  <2> QED
    BY <2>1, <2>3, <2>6, Zenon
<1> USE LeftIsThat DEF LeftIs
<1>1. CASE QueryDisks \/ Pin \/ DialOk \/ CreatePassword \/ Start
  <2>1. CASE QueryDisks
    BY <2>1, <1>a, <1>s, <1>t, <1>w DEF QueryDisks
  <2>2. CASE CreatePassword
    BY <2>2, <1>a, <1>s, <1>w DEF CreatePassword
  <2>3. CASE Start
    BY <2>3, <1>a, <1>s, <1>w DEF Start
  <2>4. CASE Pin
    BY <2>4, <1>a, <1>s, <1>w DEF Pin
  <2>5. CASE DialOk
    BY <2>5, <1>a, <1>s, <1>w DEF DialOk
  <2> QED
    BY <1>1, <2>1, <2>2, <2>3, <2>4, <2>5
<1>2. CASE SettleCheck
  BY <1>2, <1>a, <1>s, <1>w DEF SettleCheck
<1>3. CASE SocketFound
  <2>1. pc = "ready" /\ attempt' = attempt /\ polls' = polls /\ polls < MaxPolls
    BY <1>3, <1>t DEF SocketFound
  <2>2. CASE disk < NumDisks
    BY <1>3, <2>1, <2>2, <1>a, <1>n, <1>t, <1>w DEF SocketFound
  <2>3. CASE ~(disk < NumDisks)
    BY <1>3, <2>1, <2>3, <1>a, <1>t, <1>w DEF SocketFound
  <2> QED
    BY <2>2, <2>3
<1>4. CASE SocketMissing \/ LookAgain
  BY <1>4, <1>a, <1>s, <1>t, <1>w DEF SocketMissing, LookAgain
<1>5. CASE EngineStart
  BY <1>5, <1>a, <1>w DEF EngineStart
<1>6. CASE QueryFails \/ DialFails \/ CreatePasswordFails \/ StartFails
           \/ EngineRefused \/ EngineSucceeds \/ EngineFails \/ NotReady
  <2>1. /\ pc \in {"query", "dial", "password", "start", "nap", "run", "engine"}
        /\ pc' = "close"
        /\ pc = "nap" => polls = MaxPolls
        /\ attempt' = attempt /\ sessions' = sessions /\ closing' = 1
    BY <1>6 DEF QueryFails, DialFails, CreatePasswordFails, StartFails,
                EngineRefused, EngineSucceeds, EngineFails, NotReady
  <2>2. ToClose' \in 0 .. 4 * NumDisks
    BY <2>1, <1>t DEF ToClose
  <2>3. LeftInAttempt' = ToClose' + 1
    BY <2>1, <2>2
  <2>4. LeftInAttempt > 4 * NumDisks + 1
    BY <2>1, <1>a, <1>t
  <2> QED
    <3>1. ASSUME NEW i \in Int, NEW j \in Int, NEW k \in 0 .. 4 * NumDisks,
                 i = k + 1, j > 4 * NumDisks + 1
          PROVE  i < j
      BY <3>1
    <3>2. ToClose' + 1 \in Int /\ LeftInAttempt' \in Int /\ LeftInAttempt \in Int
      BY <1>l, <2>2, <2>3
    <3>3. LeftInAttempt' < LeftInAttempt
      BY <2>2, <2>3, <2>4, <3>1, <3>2, Zenon
    <3> QED
      BY <2>1, <3>2, <3>3, <1>w
<1>7. CASE Interrupt \/ Gone \/ Kill \/ WaitKilled
  <2>1. /\ \/ pc = "close" /\ pc' = "grace"
           \/ pc = "grace" /\ pc' \in {"killed", "unlink"}
           \/ pc = "killed" /\ pc' = "unlink"
        /\ attempt' = attempt /\ closing' = closing /\ sessions' = sessions
    BY <1>7 DEF Interrupt, Gone, Kill, WaitKilled
  <2>2. ToClose \in Int /\ ToClose' = ToClose
    BY <2>1, <1>t DEF ToClose
  <2> HIDE DEF ToClose
  <2> QED
    BY <2>1, <2>2, <1>w
<1>8. CASE Unlink
  BY <1>8, <1>t, <1>w DEF Unlink, ToClose
<1>9. CASE AttemptEnds
  BY <1>9, <1>a, <1>t DEF AttemptEnds, StepsLeft, LeftToRetry, ToClose
<1>10. CASE Retry
  BY <1>10, <1>a, <1>t DEF Retry, StepsLeft, LeftToRetry
<1> QED
  BY <1>1, <1>2, <1>3, <1>4, <1>5, <1>6, <1>7, <1>8, <1>9, <1>10
     DEF CodeStep, VCenterStep

\* Nothing nbdkit or the contexts do gives Inspect more to do: it is over
\* after MostSteps steps of its own at the latest, both attempts together, each
\* of which is one less.  Returns adds that there is somebody to take the next
\* one, unless it is vCenter's.
THEOREM StepsRunOut ==
    Spec => /\ [](StepsLeft \in 0 .. MostSteps)
            /\ [][VCenterStep \/ CodeStep \/ EngineSucceeds \/ EngineFails
                    => StepsLeft' < StepsLeft]_vars
            /\ [][WaitEnds \/ CancelCaller \/ OpenDeadline \/ EngineDeadline
                  \/ (\E s \in Attempts \X Disks : Listen(s) \/ Exit(s))
                    => StepsLeft' = StepsLeft]_vars
<1>1. SInv => StepsLeft \in 0 .. MostSteps
  BY StepsBounded
<1>2. SInv => (VCenterStep \/ CodeStep \/ EngineSucceeds \/ EngineFails
                => StepsLeft' < StepsLeft)
  BY OneStepLess
<1>3. (WaitEnds \/ CancelCaller \/ OpenDeadline \/ EngineDeadline
       \/ (\E s \in Attempts \X Disks : Listen(s) \/ Exit(s)))
        => StepsLeft' = StepsLeft
  <2> SUFFICES ASSUME UNCHANGED <<pc, attempt, disk, polls, sessions, closing>>
               PROVE  StepsLeft' = StepsLeft
    BY DEF WaitEnds, CancelCaller, OpenDeadline, EngineDeadline, Listen, Exit
  <2>1. AtDisk' = AtDisk /\ PerAttempt' = PerAttempt /\ ForEngine' = ForEngine
    BY DEF AtDisk, PerAttempt, PerDisk, ForEngine
  <2>2. ToClose' = ToClose
    BY DEF ToClose
  <2> HIDE DEF AtDisk, PerAttempt, ForEngine, ToClose
  <2>3. LeftToOpen' = LeftToOpen /\ LeftToEnd' = LeftToEnd
    BY <2>1, <2>2 DEF LeftToOpen, LeftToEnd
  <2>4. LeftInAttempt' = LeftInAttempt /\ LeftToRetry' = LeftToRetry
    BY <2>1, <2>3 DEF LeftInAttempt, LeftToRetry
  <2> QED
    BY <2>4 DEF StepsLeft
<1> QED
  BY <1>1, <1>2, <1>3, SessionInvariance, PTL
=============================================================================
